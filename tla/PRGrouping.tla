----------------------------- MODULE PRGrouping -----------------------------
(***************************************************************************)
(* How findings become pull requests (group_findings and what it calls, in *)
(* isitsecure/engine/fixes/pr_flow.py), and what becomes of the findings   *)
(* when the flow is run again and again: a run plans groups, finds a name  *)
(* for each and opens a pull request unless one is open already; the user  *)
(* merges or closes; new findings come up.  PRFlow models how a group is  *)
(* fixed and pushed, and the runs that overlap.                            *)
(*                                                                         *)
(* A finding is its position in the report, and Attr[f] what the grouping  *)
(* looks at; categories and files are numbered in the order of their       *)
(* names.  A group has a set of findings: no property is about the order   *)
(* of its commits.  A branch name is its root and the numbers appended to it: *)
(* <<root>>, <<root, 2>> and so on.                                        *)
(***************************************************************************)
EXTENDS Integers, Sequences, FiniteSets

CONSTANTS
  Attr,               \* finding -> [category, file, line, title, rank]
  NoFile,             \* the file of a finding without a code location
  Strategies, Caps,   \* values of strategy and max_prs tried
  IdOrders,           \* orders of the ids, which every scan draws anew
  MAX_BRANCH_SUFFIX,
  Known,              \* the findings of the first run
  MaxCloses           \* bound on the pull requests closed unmerged

Findings == DOMAIN Attr
VALID_STRATEGIES == {"per-category", "per-file", "per-finding", "single"}

ASSUME GroupingAssumption ==
  /\ IsFiniteSet(Findings)
  /\ \A f \in Findings :
       Attr[f].category \in Nat /\ Attr[f].file \in Nat /\ Attr[f].rank \in 0 .. 4
  /\ \A id \in IdOrders : \A f, g \in Findings : id[f] \in Nat /\ (id[f] = id[g] => f = g)
  /\ Strategies \subseteq VALID_STRATEGIES /\ Caps \subseteq Nat \ {0}
  /\ MAX_BRANCH_SUFFIX \in Nat \ {0} /\ MaxCloses \in Nat
  /\ Known \subseteq Findings

VARIABLES
  strategy, max_prs,  \* how the flow is called, every time
  found,              \* the findings of a scan made now
  seen,               \* those of any scan so far
  prs,                \* branch name -> its open pull request, or Settled
  closes,
  scanned, plan,      \* what the run works on, its groups
  existing, at        \* the names that existed when it started, the group it is at

vars == <<strategy, max_prs, found, seen, prs, closes, scanned, plan, existing, at>>
locals == <<scanned, plan, existing, at>>

-----------------------------------------------------------------------------
(* group_findings *)

Located(f) == Attr[f].file # NoFile
Priority(f) == Attr[f].rank <= 1            \* critical or high
HasPriority(F) == \E f \in F : Priority(f)

\* Lexicographic order of tuples of the same length.
Before(s, t) ==
  \E i \in DOMAIN s : s[i] < t[i] /\ \A k \in 1 .. i - 1 : s[k] = t[k]

\* The elements of S as a sequence, by an order of them (a set of pairs).
InOrder(S, order) ==
  [i \in 1 .. Cardinality(S) |->
     CHOOSE x \in S : Cardinality({y \in S : <<y, x>> \in order}) = i - 1]

_finding_identity(f) == <<Attr[f].category, Attr[f].file, Attr[f].line, Attr[f].title>>
Key(how, id, f) ==
  CASE how = "per-category" -> Attr[f].category
    [] how = "per-file" -> Attr[f].file
    [] how = "per-finding" -> id[f]
    [] OTHER -> 0
SuffixOfKey(how, id, f) == << <<how, Key(how, id, f)>> >>     \* slip: names follow the ids
Suffix(how, id, f) ==
  << IF how = "per-finding" THEN <<how, _finding_identity(f)>> ELSE <<how, Key(how, id, f)>> >>

_build_raw_groups(F, how, id) ==
  {[key |-> Key(how, id, f), findings |-> {g \in F : Key(how, id, g) = Key(how, id, f)},
    suffix |-> Suffix(how, id, f), batch |-> FALSE, urgent |-> FALSE] : f \in F}

_is_priority(g) == HasPriority(g.findings)
top_severity(g) ==
  CHOOSE r \in {Attr[f].rank : f \in g.findings} : \A f \in g.findings : r <= Attr[f].rank
SortKey(g) == <<IF _is_priority(g) THEN 0 ELSE 1, top_severity(g), g.key>>
Ordered(groups) ==
  InOrder(groups, {p \in groups \X groups : Before(SortKey(p[1]), SortKey(p[2]))})

\* The first max - 1 priority groups stay (they come first); all the others become one.
Batch(rest) ==
  [key |-> 0, findings |-> rest, batch |-> TRUE, urgent |-> HasPriority(rest),
   suffix |-> << <<IF HasPriority(rest) THEN "batched-fixes" ELSE "low-severity-cleanup", 0>> >>]
Kept(groups, max) ==
  LET priority == Cardinality({i \in DOMAIN groups : _is_priority(groups[i])})
  IN SubSeq(groups, 1, IF priority < max THEN priority ELSE max - 1)
Left(groups, from) == UNION {groups[i].findings : i \in from .. Len(groups)}
CapLosingOne(groups, max) ==                \* slip: the group at the budget is lost
  LET kept == Kept(groups, max) IN Append(kept, Batch(Left(groups, Len(kept) + 2)))
_apply_cap(groups, max) ==
  LET kept == Kept(groups, max) IN Append(kept, Batch(Left(groups, Len(kept) + 1)))

\* The second group of a suffix gets -2, and so on: no suffix is built on another's.
_dedupe_branch_suffixes(groups) ==
  LET Earlier(i) == {k \in 1 .. i - 1 : groups[k].suffix = groups[i].suffix}
  IN [i \in DOMAIN groups |->
        IF Earlier(i) = {} THEN groups[i]
        ELSE [groups[i] EXCEPT !.suffix = Append(@, Cardinality(Earlier(i)) + 1)]]

group_findings(F, how, max, id) ==
  LET groups == Ordered(_build_raw_groups({f \in F : Located(f)}, how, id))
  IN _dedupe_branch_suffixes(IF Len(groups) <= max THEN groups ELSE _apply_cap(groups, max))

-----------------------------------------------------------------------------
(* Runs of the flow, and the user *)

Settled == [findings |-> {}, batch |-> FALSE]      \* merged or closed

Init ==
  /\ strategy \in Strategies /\ max_prs \in Caps
  /\ found = Known /\ seen = Known /\ prs = [n \in {} |-> Settled] /\ closes = 0
  /\ scanned = {} /\ plan = <<>> /\ existing = {} /\ at = 1

user == <<strategy, max_prs, closes>>
Idle == plan = <<>>
IsOpen(name) == name \in DOMAIN prs /\ prs[name] # Settled

\* What group_findings answers to the calls of the instance.
Plans == {[F |-> F, how |-> how, max |-> max, groups |-> group_findings(F, how, max, id)] :
            F \in SUBSET Findings, how \in Strategies, max \in Caps, id \in IdOrders}

\* The findings are grouped, and the remote is asked once which names exist.
Start ==
  /\ Idle
  /\ scanned' = found /\ existing' = DOMAIN prs /\ at' = 1
  /\ UNCHANGED <<user, found, seen, prs>>
  /\ \E p \in Plans : /\ p.F = found /\ p.how = strategy /\ p.max = max_prs
                      /\ plan' = p.groups

RootNameOnly(g) == <<g.suffix>>              \* slip: a name is tried once
_candidate_branches(g) ==
  <<g.suffix>> \o [n \in 1 .. MAX_BRANCH_SUFFIX - 1 |-> Append(g.suffix, n + 1)]

\* _select_branch: the first name not taken by this run that is free or has an open
\* pull request decides; in the second case, and when there is none, nothing is opened.
Usable(name) ==
  name \notin DOMAIN prs \ existing /\ (name \notin existing \/ IsOpen(name))
Deciding(g) ==
  LET names == _candidate_branches(g)
  IN {names[i] : i \in {k \in DOMAIN names :
                          Usable(names[k]) /\ \A l \in 1 .. k - 1 : ~ Usable(names[l])}}
Opened(g) == [findings |-> g.findings, batch |-> g.batch]
Propose ==
  /\ ~ Idle
  /\ \/ \E name \in Deciding(plan[at]) \ existing :
          prs' = [n \in DOMAIN prs \union {name} |->
                    IF n = name THEN Opened(plan[at]) ELSE prs[n]]
     \/ Deciding(plan[at]) \subseteq existing /\ UNCHANGED prs
  /\ IF at < Len(plan)
       THEN at' = at + 1 /\ UNCHANGED <<scanned, plan, existing>>
       ELSE at' = 1 /\ scanned' = {} /\ plan' = <<>> /\ existing' = {}
  /\ UNCHANGED <<user, found, seen>>

\* The branch stays when its pull request is merged or closed.
Merge(name) ==
  /\ IsOpen(name)
  /\ prs' = [prs EXCEPT ![name] = Settled]
  /\ found' = found \ prs[name].findings
  /\ UNCHANGED <<user, seen, locals>>
Close(name) ==
  /\ IsOpen(name) /\ closes < MaxCloses
  /\ closes' = closes + 1
  /\ prs' = [prs EXCEPT ![name] = Settled]
  /\ UNCHANGED <<strategy, max_prs, found, seen, locals>>
Review == \E name \in DOMAIN prs : Merge(name) \/ Close(name)

\* What was merged does not come back.
Introduce(f) ==
  /\ f \notin seen
  /\ found' = found \union {f} /\ seen' = seen \union {f}
  /\ UNCHANGED <<user, prs, locals>>

Run == Start \/ Propose

Next == Run \/ Review \/ \E f \in Findings : Introduce(f)

\* The user runs the flow again and looks at what it opened.
Spec == Init /\ [][Next]_vars /\ WF_vars(Run) /\ WF_vars(Review)

-----------------------------------------------------------------------------
(* Properties *)

\* Whatever the order of the ids, the plan of a run holds every located finding once, has
\* at most max_prs groups on names of their own, puts what is critical or high first, in a
\* batch only when the slots are used up, and then says so (group_findings, _apply_cap).
PlanSound ==
  /\ Len(plan) <= max_prs
  /\ \A f \in scanned : Located(f) =>
       Cardinality({i \in DOMAIN plan : f \in plan[i].findings}) = 1
  /\ \A i \in DOMAIN plan :
       /\ plan[i].findings \subseteq {f \in scanned : Located(f)}
       /\ plan[i].batch => /\ i = Len(plan)
                           /\ plan[i].urgent = _is_priority(plan[i])
                           /\ plan[i].urgent => i = max_prs
  /\ \A i, k \in DOMAIN plan : i < k =>
       /\ plan[i].suffix # plan[k].suffix
       /\ _is_priority(plan[k]) => _is_priority(plan[i])

Twins(f) == {g \in Findings : _finding_identity(g) = _finding_identity(f)}

\* A finding is in two open pull requests only if one of them is a batch, or if another
\* finding has the same identity: a re-run gives it the name it had (_finding_identity,
\* _select_branch).
ProposedOnce ==
  \A n, m \in DOMAIN prs :
    IsOpen(n) /\ IsOpen(m) /\ n # m /\ ~ prs[n].batch /\ ~ prs[m].batch =>
      \A f \in prs[n].findings \intersect prs[m].findings : Twins(f) # {f}

\* Nothing is dropped for good: if the flow is run again and again and its pull requests
\* are looked at, every located finding is merged away in the end (_apply_cap,
\* _select_branch).
EveryFindingFixed ==
  <>[](\A f \in found : ~ Located(f))
=============================================================================
