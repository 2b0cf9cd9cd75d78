------------------------------- MODULE PRFlow -------------------------------
(***************************************************************************)
(* The remote fix flow, isitsecure/engine/fixes/pr_flow.py: clone the      *)
(* repository, and for every planned group of findings pick a branch name, *)
(* commit one fix per finding, push the branch (never forced) and open a   *)
(* pull request.  Several runs share one GitHub repository with a user who *)
(* merges, closes and deletes what the runs proposed.                      *)
(*                                                                         *)
(* A commit is a record; the tip of a branch is the set of the commits     *)
(* reachable from it, so "is an ancestor of" is set inclusion.  NameOf[g]  *)
(* lists the branch names of a group: NameOf[g][1] is                      *)
(* `isitsecure/fix-<suffix>`, NameOf[g][2] is `...-2`, and the second half *)
(* are the names built on `isitsecure/fix-<suffix>-fixes`.                 *)
(***************************************************************************)
EXTENDS Integers, Sequences, FiniteSets

CONSTANTS
  Runs,        \* executions of PRFlow.run on this repository
  Plan,        \* the groups in the order group_findings returns them
  FindingsOf,  \* group -> its findings, in commit order
  NameOf,      \* group -> its branch names; groups may have names in common
  FileOf,      \* finding -> the file its fix rewrites
  MaxSuffix,   \* MAX_BRANCH_SUFFIX
  Base,        \* the base branch of the pull requests
  Leftovers,   \* branches an earlier installation may have left, without a PR
  Faults,      \* the failures that may occur besides a command simply failing
  UserActs,    \* what the user of the repository does
  Concurrent,  \* may two runs be in progress at the same time
  NoRun, NoFinding

Groups == {Plan[i] : i \in DOMAIN Plan}
Findings == UNION {{FindingsOf[g][i] : i \in DOMAIN FindingsOf[g]} : g \in Groups}

\* precheck: ls-remote fails.  pr_lookup: find_open_pr fails and answers None.
\* reset: `git reset --hard` fails.  commit_late, push_late, pr_late: the
\* command takes effect, and the caller sees a timeout.
AllFaults == {"precheck", "pr_lookup", "reset", "commit_late", "push_late", "pr_late"}
AllUserActs == {"merge", "squash", "close", "delete"}

\* The extra outcomes S of a step that suffers the fault.
OnFault(fault, S) == IF fault \in Faults THEN S ELSE {}

Names == UNION {{NameOf[g][k] : k \in 1 .. 2 * MaxSuffix} : g \in Groups}
Branches == Names \union {Base}

ASSUME PlanAssumption ==
  /\ Plan \in Seq(Groups)
  /\ Len(Plan) > 0
  /\ \A g \in Groups : FindingsOf[g] \in Seq(Findings)
\* The groups of a plan differ, and a group lists a finding once: group_findings
\* partitions the findings it is given (PRGrouping!PlanSound).
ASSUME DistinctAssumption ==
  /\ \A i, j \in DOMAIN Plan : Plan[i] = Plan[j] => i = j
  /\ \A g \in Groups : \A i, j \in DOMAIN FindingsOf[g] :
       FindingsOf[g][i] = FindingsOf[g][j] => i = j
ASSUME BoundAssumption == MaxSuffix \in Nat \ {0}
ASSUME EnvironmentAssumption ==
  /\ Faults \subseteq AllFaults
  /\ UserActs \subseteq AllUserActs
  /\ Leftovers \subseteq Names \ {Base}
  /\ NoRun \notin Runs
  /\ NoFinding \notin Findings

Commit == [kind : {"fix", "merge", "old"}, run : Runs \union {NoRun},
           on : Branches, fix : Findings \union {NoFinding},
           edits : SUBSET Findings]

OldCommit(b) ==
  [kind |-> "old", run |-> NoRun, on |-> b, fix |-> NoFinding, edits |-> {}]
FixCommit(r, b, f, edits) ==
  [kind |-> "fix", run |-> r, on |-> b, fix |-> f, edits |-> edits]
MergeCommit(r, b) ==
  [kind |-> "merge", run |-> r, on |-> b, fix |-> NoFinding, edits |-> {}]

VARIABLES
  refs,    \* the branches that exist on the remote
  tip,     \* branch -> the commits reachable from it on the remote
  pr,      \* run, branch -> state of the pull request the run opened there
  run,     \* run -> its progress and its temporary clone
  result,  \* run -> the PRFlowResult it builds
  pushed   \* history: run, branch -> the commits the run's push put there

vars == <<refs, tip, pr, run, result, pushed>>
remote == <<refs, tip>>

RunState ==
  [pc : {"idle", "precheck", "select", "checkout", "fix", "push", "open",
         "done", "failed", "cancelled"},
   at : 1 .. Len(Plan),                \* the group being processed
   cand : 1 .. MaxSuffix + 1,          \* the candidate name being tried
   next : Nat \ {0},                   \* the finding being fixed
   base : SUBSET Commit,               \* the clone's copy of the base branch
   existing : SUBSET Branches,         \* what ls-remote answered
   taken : SUBSET Branches,            \* names this run has used
   branch : Branches,
   head : SUBSET Commit,               \* HEAD of the clone
   dirty : SUBSET Findings,            \* edits in the working tree, not in HEAD
   staged : SUBSET Findings,           \* edits in the index, not in HEAD
   committed : Nat]

Outcomes == {"pending", "opened", "skipped", "error"}
RunResult ==
  [opened : [Branches -> Nat],         \* finding_count of each OpenedPR
   orphaned : SUBSET Branches,
   outcome : [Groups -> Outcomes]]

FreshRun ==
  [pc |-> "idle", at |-> 1, cand |-> 1, next |-> 1, base |-> {}, existing |-> {},
   taken |-> {}, branch |-> Base, head |-> {}, dirty |-> {}, staged |-> {},
   committed |-> 0]
FreshResult ==
  [opened |-> [b \in Branches |-> 0], orphaned |-> {},
   outcome |-> [g \in Groups |-> "pending"]]

Init ==
  /\ \E old \in SUBSET Leftovers :
       /\ refs = {Base} \union old
       /\ tip = [b \in Branches |-> IF b \in old THEN {OldCommit(b)} ELSE {}]
  /\ pr = [r \in Runs |-> [b \in Branches |-> "none"]]
  /\ run = [r \in Runs |-> FreshRun]
  /\ result = [r \in Runs |-> FreshResult]
  /\ pushed = [r \in Runs |-> [b \in Branches |-> {}]]

-----------------------------------------------------------------------------
(* Names and groups. *)

GroupOf(r) == Plan[run[r].at]
FindingOf(r) == FindingsOf[GroupOf(r)][run[r].next]

\* The root name is moved out of the way when it is the base branch itself.
CandidateBranch(g, k) ==
  IF NameOf[g][1] = Base THEN NameOf[g][MaxSuffix + k] ELSE NameOf[g][k]
CandidateBranches(g) == {CandidateBranch(g, k) : k \in 1 .. MaxSuffix}

\* Slip: the look-up asks for closed pull requests.
HasClosedPR(b) == \E q \in Runs : pr[q][b] = "closed"
HasOpenPR(b) == \E q \in Runs : pr[q][b] = "open"

\* The clone is removed with the run, whatever its end.
Ended(pc) == [FreshRun EXCEPT !.pc = pc]

\* Run r has the state s next; its result becomes t.
Go(r, s) == run' = [run EXCEPT ![r] = s]
\* Slip: orphans are forgotten.
ReportNoOrphan(r, t) ==
  result' = [result EXCEPT ![r] = [t EXCEPT !.orphaned = result[r].orphaned]]
Report(r, t) == result' = [result EXCEPT ![r] = t]

\* On to the next group, which starts by checking out the base branch afresh, or
\* to the end of the run.
NextGroup(r) ==
  LET s == run[r] IN
  IF s.at = Len(Plan) THEN Go(r, Ended("done"))
  ELSE Go(r, [FreshRun EXCEPT !.pc = "select", !.at = s.at + 1, !.base = s.base,
                              !.existing = s.existing, !.taken = s.taken])

\* Slip: a skipped group is not mentioned.
ConcludedSilently(r, outcome) ==
  IF outcome = "skipped" THEN result[r] ELSE [result[r] EXCEPT !.outcome[GroupOf(r)] = outcome]
Concluded(r, outcome) == [result[r] EXCEPT !.outcome[GroupOf(r)] = outcome]

-----------------------------------------------------------------------------
(* The steps of a run. *)

\* Look the repository up, clone it, keep the fixable findings and plan.
Clone(r) ==
  /\ run[r].pc = "idle"
  /\ Concurrent \/ \A q \in Runs : run[q].pc \in {"idle", "done", "failed", "cancelled"}
  /\ \/ Go(r, [run[r] EXCEPT !.pc = "precheck", !.base = tip[Base]])
     \/ Go(r, Ended("failed"))   \* unknown repository, clone error
  /\ UNCHANGED <<remote, pr, result, pushed>>

\* Slip: only the root names are looked up.
PrecheckRoots(r) ==
  /\ run[r].pc = "precheck"
  /\ Go(r, [run[r] EXCEPT !.pc = "select",
                          !.existing = refs \intersect {CandidateBranch(g, 1) : g \in Groups}])
  /\ UNCHANGED <<remote, pr, result, pushed>>

\* One ls-remote for every name the plan may need; a failure reads as "none".
Precheck(r) ==
  /\ run[r].pc = "precheck"
  /\ \E found \in {refs \intersect UNION {CandidateBranches(g) : g \in Groups}}
                  \union OnFault("precheck", {{}}) :
       Go(r, [run[r] EXCEPT !.pc = "select", !.existing = found])
  /\ UNCHANGED <<remote, pr, result, pushed>>

\* Slip: the name is not noted as used by this run.
ClaimUnnoted(s, b) == [s EXCEPT !.pc = "checkout", !.branch = b]
Claim(s, b) == [s EXCEPT !.pc = "checkout", !.branch = b, !.taken = @ \union {b}]

\* The next candidate name: a free one is taken, one with an open pull request
\* skips the group, one without is passed over.
TryCandidate(r) ==
  LET s == run[r]
      g == GroupOf(r)
      c == CandidateBranch(g, s.cand)
  IN
  /\ s.pc = "select"
  /\ s.cand <= MaxSuffix
  /\ \/ /\ c \notin s.taken \union s.existing
        /\ Go(r, Claim(s, c))
        /\ UNCHANGED result
     \/ /\ c \in s.existing \ s.taken
        /\ HasOpenPR(c)
        /\ NextGroup(r)
        /\ Report(r, Concluded(r, "skipped"))
     \/ /\ \/ c \in s.taken
           \/ c \in s.existing /\ (~HasOpenPR(c) \/ "pr_lookup" \in Faults)
        /\ Go(r, [s EXCEPT !.cand = @ + 1])
        /\ UNCHANGED result
  /\ UNCHANGED <<remote, pr, pushed>>

\* Every name is in use without an open pull request.
NoNameLeft(r) ==
  /\ run[r].pc = "select"
  /\ run[r].cand > MaxSuffix
  /\ NextGroup(r)
  /\ Report(r, Concluded(r, "error"))
  /\ UNCHANGED <<remote, pr, pushed>>

\* `checkout --force <base>`, then `checkout -B <branch>`; either may fail, and
\* the base branch itself is refused.
Checkout(r) ==
  LET s == run[r] IN
  /\ s.pc = "checkout"
  /\ \/ /\ s.branch # Base
        /\ Go(r, [s EXCEPT !.pc = "fix", !.head = s.base, !.dirty = {}, !.staged = {},
                           !.next = 1, !.committed = 0])
        /\ UNCHANGED result
     \/ NextGroup(r) /\ Report(r, Concluded(r, "error"))
  /\ UNCHANGED <<remote, pr, pushed>>

\* Slip: nothing is reset.
NothingDiscarded(s) == {s}

\* The clone after `git reset --hard HEAD`, whose failure is swallowed.
Discarded(s) ==
  {[s EXCEPT !.dirty = {}, !.staged = {}]} \union OnFault("reset", {s})

\* The clone after the fix for f is written to its file.
Written(s, f) == [s EXCEPT !.dirty = @ \union {f}]

\* The clone after `git add -- <file>`: every edit of that file is staged.
Added(s, f) ==
  [s EXCEPT !.staged = @ \union {e \in s.dirty : FileOf[e] = FileOf[f]}]

\* Slip: a commit is counted both where it is made and by the caller.
CommittedCounted(s, r, f) ==
  [s EXCEPT !.head = @ \union {FixCommit(r, s.branch, f, s.staged)},
            !.dirty = @ \ s.staged, !.staged = {}, !.committed = @ + 1]

\* The clone after `git commit`, which commits the whole index.
Committed(s, r, f) ==
  [s EXCEPT !.head = @ \union {FixCommit(r, s.branch, f, s.staged)},
            !.dirty = @ \ s.staged, !.staged = {}]

\* _apply_and_commit for the next finding: no fix, a fix that changes nothing,
\* a failed write, add or commit (each followed by the reset), or a commit.
ApplyAndCommit(r) ==
  LET s == run[r]
      f == FindingOf(r)
      written == Written(s, f)
      added == Added(written, f)
      made == Committed(added, r, f)
      failed == {written, added} \union OnFault("commit_late", {made})
  IN
  /\ s.pc = "fix"
  /\ s.next <= Len(FindingsOf[GroupOf(r)])
  /\ \E t \in {s, [made EXCEPT !.committed = @ + 1]} \union UNION {Discarded(u) : u \in failed} :
       Go(r, [t EXCEPT !.next = @ + 1])
  /\ UNCHANGED <<remote, pr, result, pushed>>

\* All findings tried: a group without a commit is skipped, never pushed.
FinishCommits(r) ==
  LET s == run[r] IN
  /\ s.pc = "fix"
  /\ s.next > Len(FindingsOf[GroupOf(r)])
  /\ \/ /\ s.committed = 0
        /\ NextGroup(r)
        /\ Report(r, Concluded(r, "skipped"))
     \/ /\ s.committed > 0
        /\ Go(r, [s EXCEPT !.pc = "push"])
        /\ UNCHANGED result
  /\ UNCHANGED <<remote, pr, pushed>>

\* Slip: the push is forced.
PushForced(r) == TRUE

\* The remote takes an unforced push of HEAD to a new branch or a fast-forward.
PushAccepted(r) ==
  LET s == run[r] IN s.branch \in refs => tip[s.branch] \subseteq s.head

\* Slip: HEAD is pushed to the base branch.
PushReachesBase(r) ==
  /\ refs' = refs
  /\ tip' = [tip EXCEPT ![Base] = run[r].head]
  /\ pushed' = [pushed EXCEPT ![r][run[r].branch] = run[r].head]
PushReaches(r) ==
  LET s == run[r] IN
  /\ PushAccepted(r)
  /\ refs' = refs \union {s.branch}
  /\ tip' = [tip EXCEPT ![s.branch] = s.head]
  /\ pushed' = [pushed EXCEPT ![r][s.branch] = s.head]

Push(r) ==
  /\ run[r].pc = "push"
  /\ \/ /\ PushReaches(r)
        /\ Go(r, [run[r] EXCEPT !.pc = "open"])
        /\ UNCHANGED result
     \/ /\ UNCHANGED <<remote, pushed>>           \* rejected, or never sent
        /\ NextGroup(r)
        /\ Report(r, Concluded(r, "error"))
     \/ /\ "push_late" \in Faults                 \* accepted, then timed out
        /\ PushReaches(r)
        /\ NextGroup(r)
        /\ Report(r, Concluded(r, "error"))
  /\ UNCHANGED pr

\* GitHub opens a pull request for a branch that has commits the base lacks and
\* no open pull request yet.
Openable(b) == b \in refs /\ ~(tip[b] \subseteq tip[Base]) /\ ~HasOpenPR(b)

OpenPR(r) ==
  LET s == run[r]
      b == s.branch
  IN
  /\ s.pc = "open"
  /\ NextGroup(r)
  /\ \/ /\ Openable(b)
        /\ pr' = [pr EXCEPT ![r][b] = "open"]
        /\ Report(r, [Concluded(r, "opened") EXCEPT !.opened[b] = s.committed])
     \/ /\ \/ UNCHANGED pr
           \/ "pr_late" \in Faults /\ Openable(b) /\ pr' = [pr EXCEPT ![r][b] = "open"]
        /\ Report(r, [Concluded(r, "error") EXCEPT !.orphaned = @ \union {b}])
  /\ UNCHANGED <<remote, pushed>>

\* The job is cancelled: the git child is killed and the clone removed.  A push
\* or a request that was under way may have taken effect.
Cancel(r) ==
  LET s == run[r] IN
  /\ s.pc \notin {"idle", "done", "failed", "cancelled"}
  /\ Go(r, Ended("cancelled"))
  /\ \/ UNCHANGED <<remote, pr, pushed>>
     \/ s.pc = "push" /\ PushReaches(r) /\ UNCHANGED pr
     \/ /\ s.pc = "open"
        /\ Openable(s.branch)
        /\ pr' = [pr EXCEPT ![r][s.branch] = "open"]
        /\ UNCHANGED <<remote, pushed>>
  /\ UNCHANGED result

RunStep(r) ==
  \/ Clone(r) \/ Precheck(r) \/ TryCandidate(r) \/ NoNameLeft(r) \/ Checkout(r)
  \/ ApplyAndCommit(r) \/ FinishCommits(r) \/ Push(r) \/ OpenPR(r)

-----------------------------------------------------------------------------
(* The user of the repository, on GitHub. *)

ClosePR(r, b, state) == pr' = [pr EXCEPT ![r][b] = state]

Merge(r, b) ==
  /\ pr[r][b] = "open"
  /\ \/ /\ "merge" \in UserActs
        /\ tip' = [tip EXCEPT ![Base] = @ \union tip[b] \union {MergeCommit(r, b)}]
     \/ /\ "squash" \in UserActs
        /\ tip' = [tip EXCEPT ![Base] = @ \union {MergeCommit(r, b)}]
  /\ ClosePR(r, b, "merged")
  /\ UNCHANGED <<refs, run, result, pushed>>

Close(r, b) ==
  /\ "close" \in UserActs
  /\ pr[r][b] = "open"
  /\ ClosePR(r, b, "closed")
  /\ UNCHANGED <<remote, run, result, pushed>>

\* Deleting a branch closes its open pull request.
Delete(b) ==
  /\ "delete" \in UserActs
  /\ b \in refs \ {Base}
  /\ refs' = refs \ {b}
  /\ tip' = [tip EXCEPT ![b] = {}]
  /\ pr' = [r \in Runs |-> [pr[r] EXCEPT ![b] = IF @ = "open" THEN "closed" ELSE @]]
  /\ UNCHANGED <<run, result, pushed>>

UserStep ==
  \/ \E r \in Runs, b \in Branches : Merge(r, b) \/ Close(r, b)
  \/ \E b \in Branches : Delete(b)

Next == (\E r \in Runs : RunStep(r) \/ Cancel(r)) \/ UserStep

Spec == Init /\ [][Next]_vars

-----------------------------------------------------------------------------
(* Properties. *)

\* Every variable has the type its declaration describes.
TypeOK ==
  /\ refs \in SUBSET Branches
  /\ tip \in [Branches -> SUBSET Commit]
  /\ pr \in [Runs -> [Branches -> {"none", "open", "merged", "closed"}]]
  /\ run \in [Runs -> RunState]
  /\ result \in [Runs -> RunResult]
  /\ pushed \in [Runs -> [Branches -> SUBSET Commit]]

\* "NEVER pushes to the base branch": a fix commit is on the base branch only
\* because the user merged a pull request from the branch it was made on.
BaseOnlyByReview ==
  \A c \in tip[Base] :
    c.kind = "fix" => \E q \in Runs : pr[q][c.on] = "merged"

\* A pull request the result lists exists, and its finding_count never exceeds
\* the fixes this run pushed to that branch.
CountsBacked ==
  \A r \in Runs, b \in Branches :
    result[r].opened[b] > 0 =>
      /\ pr[r][b] # "none"
      /\ result[r].opened[b] <= Cardinality({c \in pushed[r][b] : c.run = r})

\* "nothing is EVER dropped": a finished run has reported every planned group,
\* and lists one counted pull request, on a branch of its own, for each that it
\* reports as opened and for no other.
EveryGroupReported ==
  \A r \in Runs : run[r].pc = "done" =>
    /\ Cardinality({g \in Groups : result[r].outcome[g] = "opened"}) =
         Cardinality({b \in Branches : result[r].opened[b] > 0})
    /\ \A g \in Groups :
         /\ result[r].outcome[g] # "pending"
         /\ result[r].outcome[g] = "opened" =>
              \E b \in CandidateBranches(g) : result[r].opened[b] > 0

\* "Branches pushed to the remote whose PR could not be opened": a finished run
\* names as orphaned every branch it put on the remote without a pull request.
OrphansReported ==
  \A r \in Runs : run[r].pc = "done" =>
    \A b \in Branches :
      pushed[r][b] # {} /\ pr[r][b] = "none" => b \in result[r].orphaned

\* An orphaned branch has no pull request: the message tells the user to open one.
OrphansHaveNoPR ==
  \A r \in Runs : \A b \in result[r].orphaned : pr[r][b] = "none"

\* orphaned_branches names the branches without a pull request and no others.
OrphansTold == OrphansReported /\ OrphansHaveNoPR

\* "one finding's half-applied edit can never be swept into the next finding's
\* commit".
OneFixPerCommit ==
  \A r \in Runs : \A c \in run[r].head : c.kind = "fix" => c.edits = {c.fix}

\* "A branch that already exists with an OPEN pull request is noted and skipped
\* (no duplicate)": no group ever has two open pull requests.
NoDuplicatePR ==
  \A g \in Groups :
    \A r, q \in Runs : \A b, c \in CandidateBranches(g) :
      pr[r][b] = "open" /\ pr[q][c] = "open" => r = q /\ b = c

\* "an existing branch is rejected, never clobbered": no push moves a branch
\* that is already on the remote.
ExistingNeverReused ==
  [][\A b \in (refs \intersect refs') \ {Base} : tip'[b] = tip[b]]_vars

\* The flow implements what FixProposals promises the owner of the repository.
Proposals == INSTANCE FixProposals WITH Commits <- Commit
ProposesFixes == Proposals!Spec

\* The parts of the inductive invariant behind BaseOnlyByReview and ProposesFixes,
\* for a run in state s with pull requests mine and the base branch at tip.

Building == {"fix", "push", "open"}

\* A run proposes from a branch at most once, and never from the base branch:
\* the names it has proposed from are taken and are not the one in hand.
ProposedOnce(s, mine) ==
  \A b \in Branches : mine[b] # "none" =>
    /\ b # Base
    /\ s.pc \notin {"idle", "precheck"}
    /\ s.pc = "select" => b \in s.taken
    /\ s.pc \in Building \union {"checkout"} => b \in s.taken \ {s.branch}

\* The branch in hand is a taken name, and is built only if it is not the base.
BranchInHand(s) ==
  /\ s.pc \in Building \union {"checkout"} => s.branch \in s.taken
  /\ s.pc \in Building => s.branch # Base

\* The clone knows a past of the base branch, and its HEAD adds only fixes made
\* on the branch in hand.
CloneOfBase(s, base) ==
  /\ s.base \subseteq base
  /\ s.pc \in Building =>
       \A c \in s.head : c.kind = "fix" => c.on = s.branch \/ c \in s.base

RunInv(s, mine, base) == ProposedOnce(s, mine) /\ BranchInHand(s) /\ CloneOfBase(s, base)

\* A branch of the remote adds to the base only fixes made on that branch.
TipsAuthored ==
  \A b \in Branches \ {Base} :
    \A c \in tip[b] : c.kind = "fix" => c.on = b \/ c \in tip[Base]

\* The inductive invariant: one step of a run or of the user (pr_flow.py:876-1111)
\* preserves all of it together, and BaseOnlyByReview alone would not be preserved.
IInv ==
  /\ TypeOK
  /\ \A r \in Runs : RunInv(run[r], pr[r], tip[Base])
  /\ Base \in refs
  /\ TipsAuthored
  /\ BaseOnlyByReview
=============================================================================
