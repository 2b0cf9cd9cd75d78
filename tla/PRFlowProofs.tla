---------------------------- MODULE PRFlowProofs ----------------------------
(***************************************************************************)
(* Proofs about PRFlow for any number of runs, groups and findings: first  *)
(* about types, histories and the refinement of FixProposals, then about   *)
(* what a run reports and what it commits, and in the end about the branch *)
(* names runs choose.                                                      *)
(***************************************************************************)
EXTENDS PRFlow, FiniteSetTheorems, TLAPS

-----------------------------------------------------------------------------
(* Types. *)

LEMMA GroupsOfPlan == \A i \in 1 .. Len(Plan) : Plan[i] \in Groups
  BY PlanAssumption DEF Groups

LEMMA FindingsAreFindings ==
  \A g \in Groups : \A i \in DOMAIN FindingsOf[g] : FindingsOf[g][i] \in Findings
  BY DEF Findings

LEMMA CandidatesAreNames ==
  ASSUME NEW g \in Groups, NEW k \in 1 .. MaxSuffix
  PROVE  CandidateBranch(g, k) \in Branches
  BY BoundAssumption DEF CandidateBranch, Branches, Names

LEMMA FreshTypes ==
  /\ \A pc \in {"idle", "precheck", "select", "checkout", "fix", "push", "open",
                "done", "failed", "cancelled"} : Ended(pc) \in RunState
  /\ FreshRun \in RunState
  /\ FreshResult \in RunResult
  <1>1. 1 \in 1 .. Len(Plan) /\ 1 \in 1 .. MaxSuffix + 1
    BY PlanAssumption, BoundAssumption
  <1>2. \A pc \in {"idle", "precheck", "select", "checkout", "fix", "push", "open",
                "done", "failed", "cancelled"} : Ended(pc) \in RunState
    BY <1>1 DEF Ended, FreshRun, RunState, Branches
  <1>3. FreshRun \in RunState
    BY <1>1 DEF FreshRun, RunState, Branches
  <1>4. FreshResult \in RunResult
    BY DEF FreshResult, RunResult, Outcomes
  <1>5. QED
    BY <1>2, <1>3, <1>4

LEMMA GoType ==
  ASSUME TypeOK, NEW r \in Runs, NEW s \in RunState, Go(r, s)
  PROVE  run' \in [Runs -> RunState]
  BY DEF Go, TypeOK

LEMMA ReportType ==
  ASSUME TypeOK, NEW r \in Runs, NEW t \in RunResult, Report(r, t)
  PROVE  result' \in [Runs -> RunResult]
  BY DEF Report, TypeOK

LEMMA NextGroupType ==
  ASSUME TypeOK, NEW r \in Runs, NextGroup(r)
  PROVE  run' \in [Runs -> RunState]
  <1> DEFINE s == run[r]
  <1>1. s \in RunState
    BY DEF TypeOK
  <1>2. CASE s.at = Len(Plan)
    BY <1>2, FreshTypes, GoType DEF NextGroup
  <1>3. CASE s.at # Len(Plan)
    <2>1. s.at + 1 \in 1 .. Len(Plan)
      BY <1>1, <1>3, PlanAssumption DEF RunState
    <2>2. [FreshRun EXCEPT !.pc = "select", !.at = s.at + 1, !.base = s.base,
                           !.existing = s.existing, !.taken = s.taken] \in RunState
      BY <1>1, <2>1, FreshTypes, ZenonT(60) DEF FreshRun, RunState
    <2>3. QED
      BY <1>3, <2>2, GoType DEF NextGroup
  <1>4. QED
    BY <1>2, <1>3

LEMMA ConcludedType ==
  ASSUME TypeOK, NEW r \in Runs, NEW o \in Outcomes
  PROVE  Concluded(r, o) \in RunResult
  <1>1. GroupOf(r) \in Groups
    BY GroupsOfPlan DEF GroupOf, TypeOK, RunState
  <1>2. QED
    BY <1>1 DEF Concluded, TypeOK, RunResult

LEMMA TypeInit == Init => TypeOK
  <1> SUFFICES ASSUME Init PROVE TypeOK
    OBVIOUS
  <1>1. PICK old \in SUBSET Leftovers :
          /\ refs = {Base} \union old
          /\ tip = [b \in Branches |-> IF b \in old THEN {OldCommit(b)} ELSE {}]
    BY DEF Init
  <1>2. \A b \in Branches : OldCommit(b) \in Commit
    BY DEF OldCommit, Commit
  <1>3. refs \in SUBSET Branches
    BY <1>1, EnvironmentAssumption DEF Branches
  <1>4. tip \in [Branches -> SUBSET Commit]
    BY <1>1, <1>2
  <1>5. QED
    BY <1>3, <1>4, FreshTypes DEF Init, TypeOK

\* The clone stays well typed through whatever a fix attempt leaves behind.
LEMMA CloneTypes ==
  ASSUME NEW s \in RunState, NEW r \in Runs, NEW f \in Findings
  PROVE  /\ Written(s, f) \in RunState
         /\ Added(s, f) \in RunState
         /\ Committed(s, r, f) \in RunState
         /\ Discarded(s) \subseteq RunState
  <1>1. FixCommit(r, s.branch, f, s.staged) \in Commit
    BY DEF FixCommit, Commit, RunState
  <1>2. Committed(s, r, f) \in RunState
    BY <1>1 DEF Committed, RunState
  <1>3. QED
    BY <1>2, ZenonT(60) DEF Written, Added, Discarded, OnFault, RunState

LEMMA CounterTypes ==
  ASSUME NEW s \in RunState
  PROVE  /\ [s EXCEPT !.committed = @ + 1] \in RunState
         /\ [s EXCEPT !.next = @ + 1] \in RunState
  BY DEF RunState

LEMMA FindingInHand ==
  ASSUME NEW r \in Runs, run[r] \in RunState,
         run[r].next <= Len(FindingsOf[GroupOf(r)])
  PROVE  FindingOf(r) \in Findings
  <1>1. GroupOf(r) \in Groups
    BY GroupsOfPlan DEF GroupOf, RunState
  <1>2. run[r].next \in 1 .. Len(FindingsOf[GroupOf(r)])
    BY <1>1, PlanAssumption DEF RunState
  <1>3. run[r].next \in DOMAIN FindingsOf[GroupOf(r)]
    BY <1>1, <1>2, PlanAssumption
  <1>4. QED
    BY <1>1, <1>3, FindingsAreFindings DEF FindingOf

LEMMA TypeApplyAndCommit ==
  ASSUME TypeOK, NEW r \in Runs, ApplyAndCommit(r)
  PROVE  TypeOK'
  <1> DEFINE s == run[r]
             f == FindingOf(r)
             written == Written(s, f)
             added == Added(written, f)
             made == Committed(added, r, f)
             failed == {written, added} \union OnFault("commit_late", {made})
             counted == [made EXCEPT !.committed = @ + 1]
             ends == {s, counted} \union UNION {Discarded(u) : u \in failed}
  <1>1. s \in RunState
    BY DEF TypeOK
  <1>2. f \in Findings
    BY <1>1, FindingInHand DEF ApplyAndCommit
  <1>3. written \in RunState /\ added \in RunState /\ made \in RunState
    BY <1>1, <1>2, CloneTypes
  <1>4. counted \in RunState
    BY <1>3, CounterTypes
  <1>5. \A u \in failed : Discarded(u) \subseteq RunState
    BY <1>2, <1>3, CloneTypes DEF OnFault
  <1>6. ends \subseteq RunState
    BY <1>1, <1>4, <1>5
  <1>7. \E t \in ends : Go(r, [t EXCEPT !.next = @ + 1])
    BY DEF ApplyAndCommit
  <1>8. run' \in [Runs -> RunState]
    BY <1>6, <1>7, CounterTypes, GoType
  <1>9. QED
    BY <1>8 DEF ApplyAndCommit, TypeOK, remote

LEMMA TypePushReaches ==
  ASSUME TypeOK, NEW r \in Runs, PushReaches(r)
  PROVE  /\ refs' \in SUBSET Branches
         /\ tip' \in [Branches -> SUBSET Commit]
         /\ pushed' \in [Runs -> [Branches -> SUBSET Commit]]
  <1>1. run[r].branch \in Branches /\ run[r].head \in SUBSET Commit
    BY DEF TypeOK, RunState
  <1>2. QED
    BY <1>1 DEF PushReaches, TypeOK

LEMMA TypeOpened ==
  ASSUME TypeOK, NEW r \in Runs, NEW b \in Branches,
         NEW state \in {"none", "open", "merged", "closed"},
         pr' = [pr EXCEPT ![r][b] = state]
  PROVE  pr' \in [Runs -> [Branches -> {"none", "open", "merged", "closed"}]]
  BY DEF TypeOK

\* Where a step ends with the next group and an outcome, its types follow.
LEMMA TypeGroupEnds ==
  ASSUME TypeOK, NEW r \in Runs, NEW o \in Outcomes,
         NextGroup(r), Report(r, Concluded(r, o))
  PROVE  run' \in [Runs -> RunState] /\ result' \in [Runs -> RunResult]
  BY NextGroupType, ConcludedType, ReportType

LEMMA TypeClone ==
  ASSUME TypeOK, NEW r \in Runs, Clone(r)
  PROVE  TypeOK'
  <1>1. [run[r] EXCEPT !.pc = "precheck", !.base = tip[Base]] \in RunState
    <2>1. run[r] \in RunState /\ tip[Base] \in SUBSET Commit
      BY DEF TypeOK, Branches
    <2>2. QED
      BY <2>1 DEF RunState
  <1>2. run' \in [Runs -> RunState]
    BY <1>1, FreshTypes, GoType DEF Clone
  <1>3. QED
    BY <1>2 DEF Clone, TypeOK, remote

LEMMA TypePrecheck ==
  ASSUME TypeOK, NEW r \in Runs, Precheck(r)
  PROVE  TypeOK'
  <1>1. PICK found \in SUBSET Branches :
          Go(r, [run[r] EXCEPT !.pc = "select", !.existing = found])
    BY DEF Precheck, OnFault, TypeOK
  <1>2. [run[r] EXCEPT !.pc = "select", !.existing = found] \in RunState
    <2>1. run[r] \in RunState
      BY DEF TypeOK
    <2>2. QED
      BY <2>1 DEF RunState
  <1>3. run' \in [Runs -> RunState]
    BY <1>1, <1>2, GoType
  <1>4. QED
    BY <1>3 DEF Precheck, TypeOK, remote

LEMMA TypeTryCandidate ==
  ASSUME TypeOK, NEW r \in Runs, TryCandidate(r)
  PROVE  TypeOK'
  <1> DEFINE s == run[r]
             c == CandidateBranch(GroupOf(r), s.cand)
  <1>1. s \in RunState /\ GroupOf(r) \in Groups
    BY GroupsOfPlan DEF TypeOK, GroupOf, RunState
  <1>2. s.cand \in 1 .. MaxSuffix /\ c \in Branches
    BY <1>1, CandidatesAreNames, BoundAssumption DEF TryCandidate, RunState
  <1>3. Claim(s, c) \in RunState
    BY <1>1, <1>2 DEF Claim, RunState
  <1>4. [s EXCEPT !.cand = @ + 1] \in RunState
    <2>1. s.cand + 1 \in 1 .. MaxSuffix + 1
      BY <1>2, BoundAssumption
    <2>2. QED
      BY <1>1, <2>1 DEF RunState
  <1>5. run' \in [Runs -> RunState] /\ result' \in [Runs -> RunResult]
    <2>1. CASE NextGroup(r) /\ Report(r, Concluded(r, "skipped"))
      BY <2>1, TypeGroupEnds DEF Outcomes
    <2>2. CASE UNCHANGED result /\ \/ Go(r, Claim(s, c))
                                   \/ Go(r, [s EXCEPT !.cand = @ + 1])
      BY <1>3, <1>4, <2>2, GoType DEF TypeOK
    <2>3. QED
      BY <2>1, <2>2 DEF TryCandidate
  <1>6. QED
    BY <1>5 DEF TryCandidate, TypeOK, remote

LEMMA TypeNoNameLeft ==
  ASSUME TypeOK, NEW r \in Runs, NoNameLeft(r)
  PROVE  TypeOK'
  <1>1. Concluded(r, "error") \in RunResult
    BY ConcludedType DEF Outcomes
  <1>2. QED
    BY <1>1, NextGroupType, ReportType DEF NoNameLeft, TypeOK, remote

LEMMA TypeCheckout ==
  ASSUME TypeOK, NEW r \in Runs, Checkout(r)
  PROVE  TypeOK'
  <1> DEFINE s == run[r]
             t == [s EXCEPT !.pc = "fix", !.head = s.base, !.dirty = {}, !.staged = {},
                            !.next = 1, !.committed = 0]
  <1>1. t \in RunState
    <2>1. s \in RunState
      BY DEF TypeOK
    <2>2. [s EXCEPT !.pc = "fix", !.head = s.base, !.dirty = {}] \in RunState
      BY <2>1 DEF RunState
    <2>3. \A u \in RunState : /\ [u EXCEPT !.staged = {}] \in RunState
                              /\ [u EXCEPT !.next = 1] \in RunState
                              /\ [u EXCEPT !.committed = 0] \in RunState
      BY DEF RunState
    <2>4. t = [[[[s EXCEPT !.pc = "fix", !.head = s.base, !.dirty = {}]
                     EXCEPT !.staged = {}] EXCEPT !.next = 1] EXCEPT !.committed = 0]
      OBVIOUS
    <2>5. QED
      BY <2>2, <2>3, <2>4
  <1>2. run' \in [Runs -> RunState] /\ result' \in [Runs -> RunResult]
    <2>1. CASE NextGroup(r) /\ Report(r, Concluded(r, "error"))
      BY <2>1, TypeGroupEnds DEF Outcomes
    <2>2. CASE Go(r, t) /\ UNCHANGED result
      BY <1>1, <2>2, GoType DEF TypeOK
    <2>3. QED
      BY <2>1, <2>2 DEF Checkout
  <1>3. QED
    BY <1>2 DEF Checkout, TypeOK, remote

LEMMA TypeFinishCommits ==
  ASSUME TypeOK, NEW r \in Runs, FinishCommits(r)
  PROVE  TypeOK'
  <1>1. [run[r] EXCEPT !.pc = "push"] \in RunState
    <2>1. run[r] \in RunState
      BY DEF TypeOK
    <2>2. QED
      BY <2>1 DEF RunState
  <1>2. run' \in [Runs -> RunState] /\ result' \in [Runs -> RunResult]
    <2>1. CASE NextGroup(r) /\ Report(r, Concluded(r, "skipped"))
      BY <2>1, TypeGroupEnds DEF Outcomes
    <2>2. CASE Go(r, [run[r] EXCEPT !.pc = "push"]) /\ UNCHANGED result
      BY <1>1, <2>2, GoType DEF TypeOK
    <2>3. QED
      BY <2>1, <2>2 DEF FinishCommits
  <1>3. QED
    BY <1>2 DEF FinishCommits, TypeOK, remote

LEMMA TypePush ==
  ASSUME TypeOK, NEW r \in Runs, Push(r)
  PROVE  TypeOK'
  <1>1. [run[r] EXCEPT !.pc = "open"] \in RunState
    <2>1. run[r] \in RunState
      BY DEF TypeOK
    <2>2. QED
      BY <2>1 DEF RunState
  <1>2. run' \in [Runs -> RunState] /\ result' \in [Runs -> RunResult]
    <2>1. CASE NextGroup(r) /\ Report(r, Concluded(r, "error"))
      BY <2>1, TypeGroupEnds DEF Outcomes
    <2>2. CASE Go(r, [run[r] EXCEPT !.pc = "open"]) /\ UNCHANGED result
      BY <1>1, <2>2, GoType DEF TypeOK
    <2>3. QED
      BY <2>1, <2>2 DEF Push
  <1>3. /\ refs' \in SUBSET Branches
        /\ tip' \in [Branches -> SUBSET Commit]
        /\ pushed' \in [Runs -> [Branches -> SUBSET Commit]]
    BY TypePushReaches DEF Push, TypeOK, remote
  <1>4. QED
    BY <1>2, <1>3 DEF Push, TypeOK

LEMMA TypeOpenPR ==
  ASSUME TypeOK, NEW r \in Runs, OpenPR(r)
  PROVE  TypeOK'
  <1> DEFINE b == run[r].branch
  <1>1. b \in Branches /\ run[r].committed \in Nat
    BY DEF TypeOK, RunState
  <1>2. pr' \in [Runs -> [Branches -> {"none", "open", "merged", "closed"}]]
    <2>1. UNCHANGED pr \/ pr' = [pr EXCEPT ![r][b] = "open"]
      BY DEF OpenPR
    <2>2. QED
      BY <1>1, <2>1, TypeOpened DEF TypeOK
  <1>3. \A o \in Outcomes : Concluded(r, o) \in RunResult
    BY ConcludedType
  <1>4. /\ [Concluded(r, "opened") EXCEPT !.opened[b] = run[r].committed] \in RunResult
        /\ [Concluded(r, "error") EXCEPT !.orphaned = @ \union {b}] \in RunResult
    BY <1>1, <1>3 DEF RunResult, Outcomes
  <1>5. result' \in [Runs -> RunResult]
    BY <1>4, ReportType DEF OpenPR
  <1>6. QED
    BY <1>2, <1>5, NextGroupType DEF OpenPR, TypeOK, remote

LEMMA TypeCancel ==
  ASSUME TypeOK, NEW r \in Runs, Cancel(r)
  PROVE  TypeOK'
  <1> DEFINE b == run[r].branch
  <1>1. b \in Branches
    BY DEF TypeOK, RunState
  <1>2. run' \in [Runs -> RunState]
    BY FreshTypes, GoType DEF Cancel
  <1>3. CASE UNCHANGED <<remote, pr, pushed>>
    BY <1>2, <1>3 DEF Cancel, TypeOK, remote
  <1>4. CASE PushReaches(r) /\ UNCHANGED pr
    BY <1>2, <1>4, TypePushReaches DEF Cancel, TypeOK
  <1>5. CASE pr' = [pr EXCEPT ![r][b] = "open"] /\ UNCHANGED <<remote, pushed>>
    <2>1. pr' \in [Runs -> [Branches -> {"none", "open", "merged", "closed"}]]
      BY <1>1, <1>5, TypeOpened
    <2>2. QED
      BY <1>2, <1>5, <2>1 DEF Cancel, TypeOK, remote
  <1>6. QED
    BY <1>3, <1>4, <1>5 DEF Cancel

LEMMA TypeUserStep ==
  ASSUME TypeOK, UserStep
  PROVE  TypeOK'
  <1>1. ASSUME NEW r \in Runs, NEW b \in Branches, Merge(r, b)
        PROVE  TypeOK'
    <2>1. MergeCommit(r, b) \in Commit
      BY DEF MergeCommit, Commit
    <2>2. tip' \in [Branches -> SUBSET Commit]
      BY <1>1, <2>1 DEF Merge, TypeOK, Branches
    <2>3. QED
      BY <1>1, <2>2, TypeOpened DEF Merge, ClosePR, TypeOK
  <1>2. ASSUME NEW r \in Runs, NEW b \in Branches, Close(r, b)
        PROVE  TypeOK'
    BY <1>2, TypeOpened DEF Close, ClosePR, TypeOK, remote
  <1>3. ASSUME NEW b \in Branches, Delete(b)
        PROVE  TypeOK'
    <2>1. \A r \in Runs :
            [pr[r] EXCEPT ![b] = IF @ = "open" THEN "closed" ELSE @]
              \in [Branches -> {"none", "open", "merged", "closed"}]
      BY DEF TypeOK
    <2>2. QED
      BY <1>3, <2>1 DEF Delete, TypeOK
  <1>4. QED
    BY <1>1, <1>2, <1>3 DEF UserStep

\* Every step preserves the types.
LEMMA TypeStep == TypeOK /\ [Next]_vars => TypeOK'
  <1>1. ASSUME TypeOK, NEW r \in Runs, RunStep(r)
        PROVE  TypeOK'
    BY <1>1, TypeClone, TypePrecheck, TypeTryCandidate, TypeNoNameLeft, TypeCheckout,
       TypeApplyAndCommit, TypeFinishCommits, TypePush, TypeOpenPR DEF RunStep
  <1>2. ASSUME TypeOK, UNCHANGED vars
        PROVE  TypeOK'
    BY <1>2 DEF vars, TypeOK
  <1>3. QED
    BY <1>1, <1>2, TypeCancel, TypeUserStep DEF Next

\* The variables of the flow keep their types, whatever the number of runs,
\* groups and findings and whatever fails.
THEOREM TypeCorrect == Spec => []TypeOK
  BY TypeInit, TypeStep, PTL DEF Spec
-----------------------------------------------------------------------------
(* The inductive invariant. *)

LEMMA GoEffect ==
  ASSUME TypeOK, NEW r \in Runs, NEW s, Go(r, s)
  PROVE  /\ run'[r] = s
         /\ \A q \in Runs \ {r} : run'[q] = run[q]
  BY DEF Go, TypeOK

\* A run that goes on to its next group keeps its past of the base branch and
\* its taken names, and has no branch in hand.
LEMMA NextGroupEffect ==
  ASSUME TypeOK, NEW r \in Runs, NextGroup(r)
  PROVE  /\ \A q \in Runs \ {r} : run'[q] = run[q]
         /\ run'[r].pc \in {"select", "done"}
         /\ run'[r].pc = "select" => run'[r].taken = run[r].taken
         /\ run'[r].base \subseteq run[r].base
  <1> DEFINE s == run[r]
             t == [FreshRun EXCEPT !.pc = "select", !.at = s.at + 1, !.base = s.base,
                                   !.existing = s.existing, !.taken = s.taken]
  <1>1. CASE Go(r, Ended("done"))
    <2>1. Ended("done").pc = "done" /\ Ended("done").base = {}
      BY DEF Ended, FreshRun
    <2>2. QED
      BY <1>1, <2>1, GoEffect
  <1>2. CASE Go(r, t)
    <2>1. t.pc = "select" /\ t.taken = s.taken /\ t.base = s.base
      BY DEF FreshRun
    <2>2. QED
      BY <1>2, <2>1, GoEffect
  <1>3. QED
    BY <1>1, <1>2 DEF NextGroup

\* Going on to the next group keeps the invariant of the run.
LEMMA NextGroupInv ==
  ASSUME TypeOK, NEW r \in Runs, NextGroup(r),
         run[r].pc \notin {"idle", "precheck", "done", "failed", "cancelled"},
         RunInv(run[r], pr[r], tip[Base])
  PROVE  RunInv(run'[r], pr[r], tip[Base])
  BY NextGroupEffect DEF RunInv, ProposedOnce, BranchInHand, CloneOfBase, Building, TypeOK, RunState

\* A step that leaves the remote and the pull requests alone keeps the invariant
\* if it keeps the part of the run that takes it.
LEMMA QuietStep ==
  ASSUME IInv, TypeOK', NEW r \in Runs, UNCHANGED <<remote, pr>>,
         \A q \in Runs \ {r} : run'[q] = run[q],
         RunInv(run'[r], pr[r], tip[Base])
  PROVE  IInv'
  <1>1. \A q \in Runs : RunInv(run'[q], pr'[q], tip'[Base])
    BY DEF IInv, remote
  <1>2. QED
    BY <1>1 DEF IInv, TipsAuthored, BaseOnlyByReview, remote

LEMMA InvClone ==
  ASSUME IInv, TypeOK', NEW r \in Runs, Clone(r)
  PROVE  IInv'
  <1> DEFINE s == run[r]
             t == [s EXCEPT !.pc = "precheck", !.base = tip[Base]]
  <1>1. TypeOK /\ s \in RunState /\ s.pc = "idle" /\ ProposedOnce(s, pr[r])
    <2>1. s.pc = "idle"
      BY DEF Clone
    <2>2. QED
      BY <2>1 DEF IInv, RunInv, TypeOK
  <1>2. \A b \in Branches : pr[r][b] = "none"
    BY <1>1 DEF ProposedOnce
  <1>3. RunInv(t, pr[r], tip[Base]) /\ RunInv(Ended("failed"), pr[r], tip[Base])
    <2>1. t.pc = "precheck" /\ t.base = tip[Base]
      BY <1>1 DEF RunState
    <2>2. Ended("failed").pc = "failed" /\ Ended("failed").base = {}
      BY DEF Ended, FreshRun
    <2>3. QED
      BY <1>2, <2>1, <2>2 DEF RunInv, ProposedOnce, BranchInHand, CloneOfBase, Building
  <1>4. QED
    BY <1>1, <1>3, GoEffect, QuietStep DEF Clone

LEMMA InvPrecheck ==
  ASSUME IInv, TypeOK', NEW r \in Runs, Precheck(r)
  PROVE  IInv'
  <1> DEFINE s == run[r]
             t(found) == [s EXCEPT !.pc = "select", !.existing = found]
  <1>1. TypeOK /\ s \in RunState /\ s.pc = "precheck" /\ RunInv(s, pr[r], tip[Base])
    BY DEF IInv, TypeOK, Precheck
  <1>2. \A b \in Branches : pr[r][b] = "none"
    BY <1>1 DEF RunInv, ProposedOnce
  <1>3. \A found : RunInv(t(found), pr[r], tip[Base])
    <2>1. \A found : t(found).pc = "select" /\ t(found).base = s.base
      BY <1>1 DEF RunState
    <2>2. QED
      BY <1>1, <1>2, <2>1 DEF RunInv, ProposedOnce, BranchInHand, CloneOfBase, Building
  <1>4. PICK found : Go(r, t(found))
    BY DEF Precheck
  <1>5. run'[r] = t(found) /\ \A q \in Runs \ {r} : run'[q] = run[q]
    BY <1>1, <1>4, GoEffect
  <1>6. RunInv(run'[r], pr[r], tip[Base])
    BY <1>3, <1>5
  <1>7. QED
    BY <1>5, <1>6, QuietStep DEF Precheck

LEMMA InvTryCandidate ==
  ASSUME IInv, TypeOK', NEW r \in Runs, TryCandidate(r)
  PROVE  IInv'
  <1> DEFINE s == run[r]
             c == CandidateBranch(GroupOf(r), s.cand)
             t == Claim(s, c)
             u == [s EXCEPT !.cand = @ + 1]
  <1>1. TypeOK /\ s \in RunState /\ s.pc = "select" /\ RunInv(s, pr[r], tip[Base])
    BY DEF IInv, TypeOK, TryCandidate
  <1>2. CASE Go(r, t) /\ c \notin s.taken \union s.existing
    <2>1. t.pc = "checkout" /\ t.branch = c /\ t.taken = s.taken \union {c} /\ t.base = s.base
      BY <1>1 DEF Claim, RunState
    <2>2. \A b \in Branches : pr[r][b] # "none" => b \in s.taken /\ b # Base
      BY <1>1 DEF RunInv, ProposedOnce
    <2>3. RunInv(t, pr[r], tip[Base])
      BY <1>1, <1>2, <2>1, <2>2 DEF RunInv, ProposedOnce, BranchInHand, CloneOfBase, Building
    <2>4. QED
      BY <1>1, <1>2, <2>3, GoEffect, QuietStep DEF TryCandidate
  <1>3. CASE Go(r, u)
    <2>1. u.pc = s.pc /\ u.branch = s.branch /\ u.taken = s.taken /\ u.base = s.base
      BY <1>1 DEF RunState
    <2>2. RunInv(u, pr[r], tip[Base])
      BY <1>1, <2>1 DEF RunInv, ProposedOnce, BranchInHand, CloneOfBase, Building
    <2>3. QED
      BY <1>1, <1>3, <2>2, GoEffect, QuietStep DEF TryCandidate
  <1>4. CASE NextGroup(r)
    BY <1>1, <1>4, NextGroupEffect, NextGroupInv, QuietStep DEF TryCandidate
  <1>5. QED
    BY <1>2, <1>3, <1>4 DEF TryCandidate

LEMMA InvNoNameLeft ==
  ASSUME IInv, TypeOK', NEW r \in Runs, NoNameLeft(r)
  PROVE  IInv'
  <1>1. TypeOK /\ run[r].pc = "select" /\ RunInv(run[r], pr[r], tip[Base])
    BY DEF IInv, NoNameLeft
  <1>2. QED
    BY <1>1, NextGroupEffect, NextGroupInv, QuietStep DEF NoNameLeft

LEMMA InvCheckout ==
  ASSUME IInv, TypeOK', NEW r \in Runs, Checkout(r)
  PROVE  IInv'
  <1> DEFINE s == run[r]
             t == [s EXCEPT !.pc = "fix", !.head = s.base, !.dirty = {}, !.staged = {},
                            !.next = 1, !.committed = 0]
  <1>1. TypeOK /\ s \in RunState /\ s.pc = "checkout" /\ RunInv(s, pr[r], tip[Base])
    BY DEF IInv, TypeOK, Checkout
  <1>2. CASE Go(r, t) /\ s.branch # Base
    <2>1. t.pc = "fix" /\ t.branch = s.branch /\ t.taken = s.taken
          /\ t.base = s.base /\ t.head = s.base
      BY <1>1 DEF RunState
    <2>2. RunInv(t, pr[r], tip[Base])
      BY <1>1, <1>2, <2>1 DEF RunInv, ProposedOnce, BranchInHand, CloneOfBase, Building
    <2>3. QED
      BY <1>1, <1>2, <2>2, GoEffect, QuietStep DEF Checkout
  <1>3. CASE NextGroup(r)
    BY <1>1, <1>3, NextGroupEffect, NextGroupInv, QuietStep DEF Checkout
  <1>4. QED
    BY <1>2, <1>3 DEF Checkout

\* What a fix attempt may do to the clone: HEAD gains at most a fix made on the
\* branch in hand.
SameWork(s, t) ==
  /\ t \in RunState
  /\ t.pc = s.pc /\ t.branch = s.branch /\ t.taken = s.taken /\ t.base = s.base
  /\ \A c \in t.head : c \in s.head \/ c.on = s.branch

LEMMA CloneWork ==
  ASSUME NEW s \in RunState, NEW r \in Runs, NEW f \in Findings
  PROVE  /\ SameWork(s, Written(s, f))
         /\ SameWork(s, Added(s, f))
         /\ SameWork(s, Committed(s, r, f))
         /\ \A t \in Discarded(s) : SameWork(s, t)
         /\ SameWork(s, [s EXCEPT !.committed = @ + 1])
         /\ SameWork(s, [s EXCEPT !.next = @ + 1])
  <1>1. SameWork(s, Written(s, f)) /\ SameWork(s, Added(s, f))
    <2>1. Written(s, f).head = s.head /\ Added(s, f).head = s.head
      BY DEF Written, Added, RunState
    <2>2. /\ Written(s, f).pc = s.pc /\ Added(s, f).pc = s.pc
          /\ Written(s, f).branch = s.branch /\ Added(s, f).branch = s.branch
          /\ Written(s, f).taken = s.taken /\ Added(s, f).taken = s.taken
          /\ Written(s, f).base = s.base /\ Added(s, f).base = s.base
      BY DEF Written, Added, RunState
    <2>3. QED
      BY <2>1, <2>2, CloneTypes DEF SameWork
  <1>2. SameWork(s, Committed(s, r, f))
    <2>1. FixCommit(r, s.branch, f, s.staged).on = s.branch
      BY DEF FixCommit
    <2>2. QED
      BY <2>1, CloneTypes DEF SameWork, Committed, RunState
  <1>3. \A t \in Discarded(s) : SameWork(s, t)
    <2> DEFINE d == [s EXCEPT !.dirty = {}, !.staged = {}]
    <2>1. Discarded(s) \subseteq {s, d}
      BY DEF Discarded, OnFault
    <2>2. d.pc = s.pc /\ d.branch = s.branch /\ d.taken = s.taken /\ d.base = s.base
          /\ d.head = s.head
      BY DEF RunState
    <2>3. QED
      BY <2>1, <2>2, CloneTypes DEF SameWork
  <1>4. SameWork(s, [s EXCEPT !.committed = @ + 1]) /\ SameWork(s, [s EXCEPT !.next = @ + 1])
    BY CounterTypes DEF SameWork, RunState
  <1>5. QED
    BY <1>1, <1>2, <1>3, <1>4

LEMMA SameWorkTransitive ==
  ASSUME NEW s \in RunState, NEW t, NEW u, SameWork(s, t), SameWork(t, u)
  PROVE  SameWork(s, u)
  BY DEF SameWork

LEMMA InvApplyAndCommit ==
  ASSUME IInv, TypeOK', NEW r \in Runs, ApplyAndCommit(r)
  PROVE  IInv'
  <1> DEFINE s == run[r]
             f == FindingOf(r)
             written == Written(s, f)
             added == Added(written, f)
             made == Committed(added, r, f)
             failed == {written, added} \union OnFault("commit_late", {made})
             counted == [made EXCEPT !.committed = @ + 1]
             ends == {s, counted} \union UNION {Discarded(u) : u \in failed}
  <1>1. TypeOK /\ s \in RunState /\ s.pc = "fix" /\ RunInv(s, pr[r], tip[Base])
    <2>1. s.pc = "fix"
      BY DEF ApplyAndCommit
    <2>2. QED
      BY <2>1 DEF IInv, TypeOK
  <1>2. f \in Findings
    BY <1>1, FindingInHand DEF ApplyAndCommit
  <1>3. SameWork(s, s)
    BY <1>1 DEF SameWork
  <1>4. SameWork(s, written)
    BY <1>1, <1>2, CloneWork
  <1>5. SameWork(s, added)
    <2>1. written \in RunState
      BY <1>4 DEF SameWork
    <2>2. SameWork(written, added)
      BY <1>2, <2>1, CloneWork
    <2>3. QED
      BY <1>1, <1>4, <2>2, SameWorkTransitive
  <1>6. SameWork(s, made)
    <2>1. added \in RunState
      BY <1>5 DEF SameWork
    <2>2. SameWork(added, made)
      BY <1>2, <2>1, CloneWork
    <2>3. QED
      BY <1>1, <1>5, <2>2, SameWorkTransitive
  <1>7. \A u \in failed : SameWork(s, u)
    BY <1>4, <1>5, <1>6 DEF OnFault
  <1>8. \A t \in ends : SameWork(s, t)
    <2>1. ASSUME NEW u \in failed, NEW t \in Discarded(u)
          PROVE  SameWork(s, t)
      <3>1. u \in RunState
        BY <1>7, <2>1 DEF SameWork
      <3>2. SameWork(u, t)
        BY <1>2, <2>1, <3>1, CloneWork
      <3>3. QED
        BY <1>1, <1>7, <2>1, <3>2, SameWorkTransitive
    <2>2. SameWork(s, counted)
      <3>1. made \in RunState
        BY <1>6 DEF SameWork
      <3>2. SameWork(made, counted)
        BY <1>2, <3>1, CloneWork
      <3>3. QED
        BY <1>1, <1>6, <3>2, SameWorkTransitive
    <2>3. QED
      BY <1>3, <2>1, <2>2
  <1>9. PICK t \in ends : Go(r, [t EXCEPT !.next = @ + 1])
    BY DEF ApplyAndCommit
  <1>10. SameWork(s, [t EXCEPT !.next = @ + 1])
    <2>1. t \in RunState
      BY <1>8 DEF SameWork
    <2>2. SameWork(t, [t EXCEPT !.next = @ + 1])
      BY <1>2, <2>1, CloneWork
    <2>3. QED
      BY <1>1, <1>8, <2>2, SameWorkTransitive
  <1>11. \A u : SameWork(s, u) => RunInv(u, pr[r], tip[Base])
    BY <1>1 DEF SameWork, RunInv, ProposedOnce, BranchInHand, CloneOfBase, Building
  <1>12. RunInv(run'[r], pr[r], tip[Base]) /\ \A q \in Runs \ {r} : run'[q] = run[q]
    BY <1>1, <1>9, <1>10, <1>11, GoEffect
  <1>13. QED
    BY <1>12, QuietStep DEF ApplyAndCommit

LEMMA InvFinishCommits ==
  ASSUME IInv, TypeOK', NEW r \in Runs, FinishCommits(r)
  PROVE  IInv'
  <1> DEFINE s == run[r]
             t == [s EXCEPT !.pc = "push"]
  <1>1. TypeOK /\ s \in RunState /\ s.pc = "fix" /\ RunInv(s, pr[r], tip[Base])
    <2>1. s.pc = "fix"
      BY DEF FinishCommits
    <2>2. QED
      BY <2>1 DEF IInv, TypeOK
  <1>2. CASE Go(r, t)
    <2>1. t.pc = "push" /\ t.branch = s.branch /\ t.taken = s.taken
          /\ t.base = s.base /\ t.head = s.head
      BY <1>1 DEF RunState
    <2>2. RunInv(t, pr[r], tip[Base])
      BY <1>1, <2>1 DEF RunInv, ProposedOnce, BranchInHand, CloneOfBase, Building
    <2>3. QED
      BY <1>1, <1>2, <2>2, GoEffect, QuietStep DEF FinishCommits
  <1>3. CASE NextGroup(r)
    BY <1>1, <1>3, NextGroupEffect, NextGroupInv, QuietStep DEF FinishCommits
  <1>4. QED
    BY <1>2, <1>3 DEF FinishCommits

\* A push adds a branch whose fixes were made on it, and leaves the base alone.
LEMMA PushKeepsRemote ==
  ASSUME IInv, NEW r \in Runs, PushReaches(r), run[r].pc \in Building
  PROVE  /\ tip'[Base] = tip[Base]
         /\ Base \in refs'
         /\ TipsAuthored'
  <1> DEFINE s == run[r]
             b == s.branch
  <1>1. TypeOK /\ s \in RunState /\ b \in Branches /\ b # Base
    BY DEF IInv, RunInv, BranchInHand, TypeOK, RunState
  <1>2. \A c \in s.head : c.kind = "fix" => c.on = b \/ c \in tip[Base]
    BY DEF IInv, RunInv, CloneOfBase
  <1>3. tip' = [tip EXCEPT ![b] = s.head] /\ refs' = refs \union {b}
    BY DEF PushReaches
  <1>4. tip'[Base] = tip[Base] /\ tip'[b] = s.head
        /\ \A d \in Branches \ {b} : tip'[d] = tip[d]
    BY <1>1, <1>3 DEF TypeOK, Branches
  <1>5. Base \in refs'
    BY <1>3 DEF IInv
  <1>6. TipsAuthored'
    BY <1>2, <1>4 DEF IInv, TipsAuthored
  <1>7. QED
    BY <1>4, <1>5, <1>6

\* The invariant after a step that keeps the base branch and what was merged.
LEMMA BaseKept ==
  ASSUME IInv, TypeOK', tip'[Base] = tip[Base], Base \in refs', TipsAuthored',
         \A q \in Runs : \A b \in Branches : pr[q][b] = "merged" => pr'[q][b] = "merged",
         \A q \in Runs : RunInv(run'[q], pr'[q], tip[Base])
  PROVE  IInv'
  <1>1. BaseOnlyByReview'
    <2>1. \A c \in tip[Base] : c.on \in Branches
      BY DEF IInv, TypeOK, Branches, Commit
    <2>2. QED
      BY <2>1 DEF IInv, BaseOnlyByReview
  <1>2. QED
    BY <1>1 DEF IInv

\* A run's pull request on the branch in hand is its first there.
LEMMA FirstProposal ==
  ASSUME IInv, NEW r \in Runs, run[r].pc = "open",
         pr' = [pr EXCEPT ![r][run[r].branch] = "open"]
  PROVE  /\ run[r].branch \in Branches \ {Base}
         /\ pr[r][run[r].branch] = "none"
         /\ pr'[r][run[r].branch] = "open"
         /\ \A q \in Runs : \A b \in Branches :
              <<q, b>> # <<r, run[r].branch>> => pr'[q][b] = pr[q][b]
  <1>1. run[r].branch \in Branches
    BY DEF IInv, TypeOK, RunState
  <1>2. run[r].branch # Base /\ pr[r][run[r].branch] = "none"
    BY <1>1 DEF IInv, RunInv, ProposedOnce, BranchInHand, Building
  <1>3. QED
    BY <1>1, <1>2 DEF IInv, TypeOK

LEMMA InvPush ==
  ASSUME IInv, TypeOK', NEW r \in Runs, Push(r)
  PROVE  IInv'
  <1> DEFINE s == run[r]
             t == [s EXCEPT !.pc = "open"]
  <1>1. TypeOK /\ s \in RunState /\ s.pc = "push" /\ RunInv(s, pr[r], tip[Base])
    <2>1. s.pc = "push"
      BY DEF Push
    <2>2. QED
      BY <2>1 DEF IInv, TypeOK
  <1>2. RunInv(t, pr[r], tip[Base])
    <2>1. t.pc = "open" /\ t.branch = s.branch /\ t.taken = s.taken
          /\ t.base = s.base /\ t.head = s.head
      BY <1>1 DEF RunState
    <2>2. QED
      BY <1>1, <2>1 DEF RunInv, ProposedOnce, BranchInHand, CloneOfBase, Building
  <1>3. RunInv(run'[r], pr[r], tip[Base]) /\ \A q \in Runs \ {r} : run'[q] = run[q]
    <2>1. CASE Go(r, t)
      BY <1>1, <1>2, <2>1, GoEffect
    <2>2. CASE NextGroup(r)
      BY <1>1, <2>2, NextGroupEffect, NextGroupInv
    <2>3. QED
      BY <2>1, <2>2 DEF Push
  <1>4. CASE UNCHANGED remote
    BY <1>3, <1>4, QuietStep DEF Push
  <1>5. CASE PushReaches(r)
    <2>1. tip'[Base] = tip[Base] /\ Base \in refs' /\ TipsAuthored'
      BY <1>1, <1>5, PushKeepsRemote DEF Building
    <2>2. pr' = pr
      BY DEF Push
    <2>3. \A q \in Runs : RunInv(run'[q], pr'[q], tip[Base])
      BY <1>3, <2>2 DEF IInv
    <2>4. QED
      BY <2>1, <2>2, <2>3, BaseKept
  <1>6. QED
    BY <1>4, <1>5 DEF Push

LEMMA InvOpenPR ==
  ASSUME IInv, TypeOK', NEW r \in Runs, OpenPR(r)
  PROVE  IInv'
  <1> DEFINE s == run[r]
             b == s.branch
  <1>1. TypeOK /\ s \in RunState /\ s.pc = "open" /\ RunInv(s, pr[r], tip[Base])
    <2>1. s.pc = "open"
      BY DEF OpenPR
    <2>2. QED
      BY <2>1 DEF IInv, TypeOK
  <1>2. NextGroup(r) /\ UNCHANGED remote
    BY DEF OpenPR
  <1>3. RunInv(run'[r], pr[r], tip[Base]) /\ \A q \in Runs \ {r} : run'[q] = run[q]
    BY <1>1, <1>2, NextGroupEffect, NextGroupInv
  <1>4. CASE UNCHANGED pr
    BY <1>2, <1>3, <1>4, QuietStep
  <1>5. CASE pr' = [pr EXCEPT ![r][b] = "open"]
    <2>1. /\ b \in Branches \ {Base}
          /\ pr[r][b] = "none" /\ pr'[r][b] = "open"
          /\ \A q \in Runs : \A d \in Branches : <<q, d>> # <<r, b>> => pr'[q][d] = pr[q][d]
      BY <1>1, <1>5, FirstProposal
    <2>2. \A q \in Runs : \A d \in Branches : pr[q][d] = "merged" => pr'[q][d] = "merged"
      BY <2>1
    <2>3. RunInv(run'[r], pr'[r], tip[Base])
      <3>1. run'[r].pc \in {"select", "done"}
            /\ (run'[r].pc = "select" => run'[r].taken = s.taken)
        BY <1>1, <1>2, NextGroupEffect
      <3>2. b \in s.taken
        BY <1>1 DEF RunInv, BranchInHand, Building
      <3>3. ProposedOnce(run'[r], pr'[r])
        BY <1>3, <2>1, <3>1, <3>2 DEF RunInv, ProposedOnce, Building
      <3>4. QED
        BY <1>3, <3>3 DEF RunInv
    <2>4. \A q \in Runs \ {r} : pr'[q] = pr[q]
      BY <1>1, <1>5 DEF TypeOK
    <2>5. \A q \in Runs : RunInv(run'[q], pr'[q], tip[Base])
      BY <1>3, <2>3, <2>4 DEF IInv
    <2>6. QED
      BY <1>2, <2>2, <2>5, BaseKept DEF IInv, remote, TipsAuthored
  <1>6. QED
    BY <1>4, <1>5 DEF OpenPR

LEMMA InvCancel ==
  ASSUME IInv, TypeOK', NEW r \in Runs, Cancel(r)
  PROVE  IInv'
  <1> DEFINE s == run[r]
             b == s.branch
  <1>1. TypeOK /\ s \in RunState /\ RunInv(s, pr[r], tip[Base])
    BY DEF IInv, TypeOK
  <1>2. run'[r] = Ended("cancelled") /\ \A q \in Runs \ {r} : run'[q] = run[q]
    BY <1>1, GoEffect DEF Cancel
  <1>3. run'[r].pc = "cancelled" /\ run'[r].base = {}
    BY <1>2 DEF Ended, FreshRun
  <1>4. ASSUME NEW mine, \A d \in Branches : mine[d] # "none" => d # Base
        PROVE  RunInv(run'[r], mine, tip[Base])
    BY <1>3, <1>4 DEF RunInv, ProposedOnce, BranchInHand, CloneOfBase, Building
  <1>5. \A d \in Branches : pr[r][d] # "none" => d # Base
    BY <1>1 DEF RunInv, ProposedOnce
  <1>6. CASE UNCHANGED <<remote, pr>>
    BY <1>2, <1>4, <1>5, <1>6, QuietStep
  <1>7. CASE PushReaches(r) /\ s.pc = "push" /\ UNCHANGED pr
    <2>1. tip'[Base] = tip[Base] /\ Base \in refs' /\ TipsAuthored'
      BY <1>7, PushKeepsRemote DEF Building
    <2>2. \A q \in Runs : RunInv(run'[q], pr'[q], tip[Base])
      BY <1>2, <1>4, <1>5, <1>7 DEF IInv
    <2>3. QED
      BY <1>7, <2>1, <2>2, BaseKept
  <1>8. CASE s.pc = "open" /\ pr' = [pr EXCEPT ![r][b] = "open"] /\ UNCHANGED remote
    <2>1. /\ b \in Branches \ {Base}
          /\ pr[r][b] = "none"
          /\ \A q \in Runs : \A d \in Branches : <<q, d>> # <<r, b>> => pr'[q][d] = pr[q][d]
      BY <1>8, FirstProposal
    <2>2. \A q \in Runs : \A d \in Branches : pr[q][d] = "merged" => pr'[q][d] = "merged"
      BY <2>1
    <2>3. \A d \in Branches : pr'[r][d] # "none" => d # Base
      BY <1>5, <2>1
    <2>4. \A q \in Runs \ {r} : pr'[q] = pr[q]
      BY <1>1, <1>8 DEF TypeOK
    <2>5. \A q \in Runs : RunInv(run'[q], pr'[q], tip[Base])
      BY <1>2, <1>4, <2>3, <2>4 DEF IInv
    <2>6. QED
      BY <1>8, <2>2, <2>5, BaseKept DEF IInv, remote, TipsAuthored
  <1>9. QED
    BY <1>6, <1>7, <1>8 DEF Cancel

\* What the user does to the pull requests opens none and closes no merged one.
LEMMA UserEffect ==
  ASSUME IInv, UserStep
  PROVE  /\ \A q \in Runs : \A d \in Branches :
              /\ pr'[q][d] # "none" => pr[q][d] # "none"
              /\ pr[q][d] = "merged" => pr'[q][d] = "merged"
         /\ tip[Base] \subseteq tip'[Base]
         /\ Base \in refs'
         /\ UNCHANGED run
  <1>1. TypeOK /\ Base \in refs /\ Base \in Branches
    BY DEF IInv, Branches
  <1>2. ASSUME NEW r \in Runs, NEW b \in Branches, pr[r][b] = "open",
               NEW state \in {"merged", "closed"}, ClosePR(r, b, state)
        PROVE  \A q \in Runs : \A d \in Branches :
                 /\ pr'[q][d] # "none" => pr[q][d] # "none"
                 /\ pr[q][d] = "merged" => pr'[q][d] = "merged"
    BY <1>1, <1>2 DEF ClosePR, TypeOK
  <1>3. CASE \E r \in Runs, b \in Branches : Merge(r, b)
    <2>1. PICK r \in Runs, b \in Branches : Merge(r, b)
      BY <1>3
    <2>2. tip[Base] \subseteq tip'[Base]
      BY <1>1, <2>1 DEF Merge, TypeOK
    <2>3. QED
      BY <1>1, <1>2, <2>1, <2>2 DEF Merge
  <1>4. CASE \E r \in Runs, b \in Branches : Close(r, b)
    BY <1>1, <1>2, <1>4 DEF Close, remote
  <1>5. CASE \E b \in Branches : Delete(b)
    <2>1. PICK b \in Branches : Delete(b)
      BY <1>5
    <2>2. \A q \in Runs : \A d \in Branches :
            pr'[q][d] = IF d = b /\ pr[q][d] = "open" THEN "closed" ELSE pr[q][d]
      BY <1>1, <2>1 DEF Delete, TypeOK
    <2>3. tip'[Base] = tip[Base] /\ Base \in refs'
      BY <1>1, <2>1 DEF Delete, TypeOK
    <2>4. QED
      BY <2>1, <2>2, <2>3 DEF Delete
  <1>6. QED
    BY <1>3, <1>4, <1>5 DEF UserStep

\* A fix reaches the base branch by the merge of the branch it was made on.
LEMMA InvUserStep ==
  ASSUME IInv, TypeOK', UserStep
  PROVE  IInv'
  <1>1. TypeOK /\ Base \in Branches
    BY DEF IInv, Branches
  <1>2. \A q \in Runs : RunInv(run'[q], pr'[q], tip'[Base])
    BY UserEffect DEF IInv, RunInv, ProposedOnce, BranchInHand, CloneOfBase
  <1>3. TipsAuthored' /\ BaseOnlyByReview'
    <2>1. ASSUME NEW r \in Runs, NEW b \in Branches, Merge(r, b)
          PROVE  TipsAuthored' /\ BaseOnlyByReview'
      <3>1. b # Base
        BY <1>1, <2>1 DEF Merge, IInv, RunInv, ProposedOnce
      <3>2. pr'[r][b] = "merged"
        BY <1>1, <2>1 DEF Merge, ClosePR, TypeOK
      <3>3. /\ tip'[Base] \subseteq tip[Base] \union tip[b] \union {MergeCommit(r, b)}
            /\ \A d \in Branches \ {Base} : tip'[d] = tip[d]
        BY <1>1, <2>1 DEF Merge, TypeOK
      <3>4. MergeCommit(r, b).kind # "fix"
        BY DEF MergeCommit
      <3>5. \A c \in tip'[Base] : c.kind = "fix" => c \in tip[Base] \/ c.on = b
        BY <3>1, <3>3, <3>4 DEF IInv, TipsAuthored
      <3>6. \A c \in tip[Base] : c.on \in Branches
        BY <1>1 DEF TypeOK, Commit
      <3>7. BaseOnlyByReview'
        BY <3>2, <3>5, <3>6, UserEffect DEF IInv, BaseOnlyByReview
      <3>8. TipsAuthored'
        BY <3>3, UserEffect DEF IInv, TipsAuthored
      <3>9. QED
        BY <3>7, <3>8
    <2>2. ASSUME \A d \in Branches : tip'[d] \in {tip[d], {}}, tip'[Base] = tip[Base]
          PROVE  TipsAuthored' /\ BaseOnlyByReview'
      <3>1. \A c \in tip[Base] : c.on \in Branches
        BY <1>1 DEF TypeOK, Commit
      <3>2. BaseOnlyByReview'
        BY <2>2, <3>1, UserEffect DEF IInv, BaseOnlyByReview
      <3>3. TipsAuthored'
        BY <2>2 DEF IInv, TipsAuthored
      <3>4. QED
        BY <3>2, <3>3
    <2>3. CASE \E r \in Runs, b \in Branches : Close(r, b)
      BY <1>1, <2>2, <2>3 DEF Close, remote
    <2>4. CASE \E b \in Branches : Delete(b)
      BY <1>1, <2>2, <2>4 DEF Delete, TypeOK
    <2>5. QED
      BY <2>1, <2>3, <2>4 DEF UserStep
  <1>4. QED
    BY <1>2, <1>3, UserEffect DEF IInv

LEMMA InvInit == Init => IInv
  <1> SUFFICES ASSUME Init PROVE IInv
    OBVIOUS
  <1>1. TypeOK
    BY TypeInit
  <1>2. PICK old \in SUBSET Leftovers :
          /\ refs = {Base} \union old
          /\ tip = [b \in Branches |-> IF b \in old THEN {OldCommit(b)} ELSE {}]
    BY DEF Init
  <1>3. Base \in refs /\ tip[Base] = {}
    BY <1>2, EnvironmentAssumption DEF Branches
  <1>4. \A b \in Branches : \A c \in tip[b] : c.kind # "fix"
    BY <1>2 DEF OldCommit
  <1>5. \A r \in Runs : RunInv(run[r], pr[r], tip[Base])
    <2>1. \A r \in Runs : run[r].pc = "idle" /\ run[r].base = {}
      BY DEF Init, FreshRun
    <2>2. \A r \in Runs : \A b \in Branches : pr[r][b] = "none"
      BY DEF Init
    <2>3. QED
      BY <2>1, <2>2 DEF RunInv, ProposedOnce, BranchInHand, CloneOfBase, Building
  <1>6. QED
    BY <1>1, <1>3, <1>4, <1>5 DEF IInv, TipsAuthored, BaseOnlyByReview

\* Every step preserves the inductive invariant.
LEMMA InvStep == IInv /\ [Next]_vars => IInv'
  <1> SUFFICES ASSUME IInv, [Next]_vars PROVE IInv'
    OBVIOUS
  <1>1. TypeOK'
    BY TypeStep DEF IInv
  <1>2. ASSUME NEW r \in Runs, RunStep(r)
        PROVE  IInv'
    BY <1>1, <1>2, InvClone, InvPrecheck, InvTryCandidate, InvNoNameLeft, InvCheckout,
       InvApplyAndCommit, InvFinishCommits, InvPush, InvOpenPR DEF RunStep
  <1>3. CASE UNCHANGED vars
    BY <1>1, <1>3 DEF vars, IInv, TipsAuthored, BaseOnlyByReview
  <1>4. QED
    BY <1>1, <1>2, <1>3, InvCancel, InvUserStep DEF Next

\* The inductive invariant holds in every reachable state.
THEOREM InvCorrect == Spec => []IInv
  BY InvInit, InvStep, PTL DEF Spec

\* No run ever brings a fix to the base branch: each one there came by the merge
\* of a pull request from the branch it was committed on.
THEOREM BaseReviewed == Spec => []BaseOnlyByReview
  <1>1. IInv => BaseOnlyByReview
    BY DEF IInv
  <1>2. QED
    BY <1>1, InvCorrect, PTL

-----------------------------------------------------------------------------
(* The flow implements FixProposals. *)

\* A push that reaches the remote publishes.
LEMMA PushPublishes ==
  ASSUME IInv, NEW r \in Runs, PushReaches(r), run[r].pc \in Building, UNCHANGED pr
  PROVE  Proposals!Next
  <1> DEFINE b == run[r].branch
  <1>1. TypeOK /\ b \in Branches /\ b # Base
    BY DEF IInv, RunInv, BranchInHand, TypeOK, RunState
  <1>2. tip' = [tip EXCEPT ![b] = tip'[b]] /\ refs' = refs \union {b}
        /\ (b \in refs => tip[b] \subseteq tip'[b])
    BY <1>1 DEF PushReaches, PushAccepted, TypeOK
  <1>3. Proposals!Publish(b, tip'[b])
    BY <1>1, <1>2 DEF Proposals!Publish
  <1>4. QED
    BY <1>1, <1>3 DEF Proposals!Next

\* A pull request GitHub opens is a proposal.
LEMMA OpenProposes ==
  ASSUME IInv, NEW r \in Runs, run[r].pc = "open", Openable(run[r].branch),
         pr' = [pr EXCEPT ![r][run[r].branch] = "open"], UNCHANGED remote
  PROVE  Proposals!Next
  <1> DEFINE b == run[r].branch
  <1>1. b \in Branches \ {Base} /\ pr[r][b] = "none"
    BY FirstProposal
  <1>2. Proposals!Propose(r, b)
    BY <1>1 DEF Openable, HasOpenPR, Proposals!Propose, remote
  <1>3. QED
    BY <1>1, <1>2 DEF Proposals!Next

LEMMA UserDecides ==
  ASSUME IInv, UserStep
  PROVE  Proposals!Next
  <1>1. ASSUME NEW r \in Runs, NEW b \in Branches, Merge(r, b)
        PROVE  Proposals!Next
    <2>1. TypeOK /\ Base \in Branches
      BY DEF IInv, Branches
    <2>2. tip' = [tip EXCEPT ![Base] = tip'[Base]] /\ tip[Base] \subseteq tip'[Base]
      BY <1>1, <2>1 DEF Merge, TypeOK
    <2>3. Proposals!Accept(r, b, tip'[Base])
      BY <1>1, <2>2 DEF Merge, ClosePR, Proposals!Accept
    <2>4. QED
      BY <2>3 DEF Proposals!Next
  <1>2. ASSUME NEW r \in Runs, NEW b \in Branches, Close(r, b)
        PROVE  Proposals!Next
    <2>1. Proposals!Decline(r, b)
      BY <1>2 DEF Close, ClosePR, remote, Proposals!Decline
    <2>2. QED
      BY <2>1 DEF Proposals!Next
  <1>3. ASSUME NEW b \in Branches, Delete(b)
        PROVE  Proposals!Next
    <2>1. Proposals!Remove(b)
      BY <1>3 DEF Delete, Proposals!Remove
    <2>2. QED
      BY <2>1 DEF Proposals!Next
  <1>4. QED
    BY <1>1, <1>2, <1>3 DEF UserStep

\* Every step of the flow is a step of FixProposals or leaves its state alone.
LEMMA StepProposes ==
  ASSUME IInv, [Next]_vars
  PROVE  [Proposals!Next]_(Proposals!vars)
  <1>1. ASSUME NEW r \in Runs, Push(r)
        PROVE  [Proposals!Next]_(Proposals!vars)
    <2>1. run[r].pc \in Building
      BY <1>1 DEF Push, Building
    <2>2. QED
      BY <1>1, <2>1, PushPublishes DEF Push, remote, Proposals!vars
  <1>2. ASSUME NEW r \in Runs, OpenPR(r)
        PROVE  [Proposals!Next]_(Proposals!vars)
    BY <1>2, OpenProposes DEF OpenPR, remote, Proposals!vars
  <1>3. ASSUME NEW r \in Runs, Cancel(r)
        PROVE  [Proposals!Next]_(Proposals!vars)
    <2>1. CASE UNCHANGED <<remote, pr, pushed>>
      BY <2>1 DEF remote, Proposals!vars
    <2>2. CASE run[r].pc = "push" /\ PushReaches(r) /\ UNCHANGED pr
      <3>1. run[r].pc \in Building
        BY <2>2 DEF Building
      <3>2. QED
        BY <2>2, <3>1, PushPublishes
    <2>3. CASE /\ run[r].pc = "open"
               /\ Openable(run[r].branch)
               /\ pr' = [pr EXCEPT ![r][run[r].branch] = "open"]
               /\ UNCHANGED remote
      BY <2>3, OpenProposes
    <2>4. QED
      BY <1>3, <2>1, <2>2, <2>3 DEF Cancel
  <1>4. ASSUME NEW r \in Runs, RunStep(r), ~Push(r), ~OpenPR(r)
        PROVE  UNCHANGED Proposals!vars
    BY <1>4 DEF RunStep, Clone, Precheck, TryCandidate, NoNameLeft, Checkout, ApplyAndCommit,
       FinishCommits, remote, Proposals!vars
  <1>5. CASE UNCHANGED vars
    BY <1>5 DEF vars, Proposals!vars
  <1>6. QED
    BY <1>1, <1>2, <1>3, <1>4, <1>5, UserDecides DEF Next

\* The remote flow implements FixProposals: whatever races and fails, all it does
\* to the repository is publish to branches other than the base, never losing a
\* commit, and open a run's one pull request for a branch.
THEOREM FlowProposes == Spec => ProposesFixes
  <1>1. Init => Proposals!Init
    <2> SUFFICES ASSUME Init PROVE Proposals!Init
      OBVIOUS
    <2>1. TypeOK /\ Base \in refs
      BY InvInit DEF IInv
    <2>2. QED
      BY <2>1 DEF TypeOK, Init, Proposals!Init
  <1>2. IInv /\ [Next]_vars => [Proposals!Next]_(Proposals!vars)
    BY StepProposes
  <1>3. QED
    BY <1>1, <1>2, InvCorrect, PTL DEF Spec, ProposesFixes, Proposals!Spec

-----------------------------------------------------------------------------
(* What a run reports and what it commits: the inductive invariants. *)

Ends == {"done", "failed", "cancelled"}
InHand == {"checkout"} \union Building

CommitsBy(r, S) == {c \in S : c.run = r}

\* A run that has not started has no commit anywhere.
Unheard(r) ==
  run[r].pc = "idle" =>
    /\ \A b \in Branches : CommitsBy(r, tip[b]) = {}
    /\ \A q \in Runs : CommitsBy(r, run[q].base \union run[q].head) = {}

\* The run's own commits in HEAD are fixes of the findings it has tried, and at
\* least as many as it counts.
OwnWork(r) ==
  LET s == run[r]
      own == CommitsBy(r, s.head)
  IN /\ CommitsBy(r, s.base) = {}
     /\ s.pc \in Building =>
          /\ IsFiniteSet(own) /\ s.committed <= Cardinality(own)
          /\ \A c \in own : \E i \in 1 .. s.next - 1 : c.fix = FindingsOf[GroupOf(r)][i]
     /\ s.pc = "open" => pushed[r][s.branch] = s.head

\* A listed pull request exists and its count is covered by what was pushed.
Backed(r) ==
  \A b \in Branches : result[r].opened[b] > 0 =>
    /\ pr[r][b] # "none"
    /\ result[r].opened[b] <= Cardinality(CommitsBy(r, pushed[r][b]))

CountInv == IInv /\ \A r \in Runs : Unheard(r) /\ OwnWork(r) /\ Backed(r)

\* The groups before the one in hand are reported and no others; each reported
\* as opened has a counted branch of its own.
OpenedGroups(r) == {g \in Groups : result[r].outcome[g] = "opened"}
CountedBranches(r) == {b \in Branches : result[r].opened[b] > 0}

GroupsTold(r) ==
  LET s == run[r] IN
  /\ s.pc \in {"idle", "precheck"} => s.at = 1
  /\ s.pc \notin Ends =>
       \A i \in DOMAIN Plan : result[r].outcome[Plan[i]] = "pending" <=> i >= s.at
  /\ s.pc = "done" => \A g \in Groups : result[r].outcome[g] # "pending"
  /\ s.pc \in InHand => s.branch \in CandidateBranches(GroupOf(r))
  /\ s.pc \in {"push", "open"} => s.committed > 0

OneBranchEach(r) ==
  /\ IsFiniteSet(OpenedGroups(r)) /\ IsFiniteSet(CountedBranches(r))
  /\ Cardinality(OpenedGroups(r)) = Cardinality(CountedBranches(r))
  /\ \A g \in OpenedGroups(r) : CandidateBranches(g) \intersect CountedBranches(r) # {}

ReportInv == CountInv /\ \A r \in Runs : GroupsTold(r) /\ OneBranchEach(r)

\* The clone's working tree and index are clean between two findings, and every
\* fix commit anywhere holds the edit of its own finding.
Pure(S) == \A c \in S : c.kind = "fix" => c.edits = {c.fix}
CleanInv ==
  /\ TypeOK
  /\ \A r \in Runs : /\ run[r].pc = "fix" => run[r].dirty = {} /\ run[r].staged = {}
                     /\ Pure(run[r].base \union run[r].head)
  /\ \A b \in Branches : Pure(tip[b])

\* A branch the run has let go of: it is not the one in hand and will not be again.
LetGo(s, b) ==
  /\ s.pc \notin {"idle", "precheck"}
  /\ s.pc = "select" => b \in s.taken
  /\ s.pc \in InHand => b \in s.taken \ {s.branch}

\* Orphaned branches are let go of without a pull request, and a pushed branch
\* without one is either orphaned or about to be proposed.
OrphansKnown(r) ==
  LET s == run[r] IN
  /\ \A b \in result[r].orphaned : LetGo(s, b)
  /\ "pr_late" \notin Faults => \A b \in result[r].orphaned : pr[r][b] = "none"
  /\ "push_late" \notin Faults =>
       \A b \in Branches : pushed[r][b] # {} /\ pr[r][b] = "none" =>
         b \in result[r].orphaned \/ (s.pc = "open" /\ b = s.branch) \/ s.pc \in {"failed", "cancelled"}

OrphanInv == IInv /\ \A r \in Runs : OrphansKnown(r)

-----------------------------------------------------------------------------
(* What each step does to the run that takes it. *)

\* The run has nothing in hand and its clone is gone.
EndedAs(u, pc) ==
  /\ u.pc = pc /\ u.at = 1 /\ u.cand = 1 /\ u.base = {} /\ u.head = {} /\ u.taken = {}
  /\ u.branch = Base /\ u.dirty = {} /\ u.staged = {}

LEMMA EndedFields == \A pc : EndedAs(Ended(pc), pc)
  BY DEF Ended, FreshRun, EndedAs

\* On to the next group of the plan, with the names taken so far.
NextSelected(s, u) ==
  /\ s.at # Len(Plan)
  /\ u.pc = "select" /\ u.at = s.at + 1 /\ u.cand = 1 /\ u.base = s.base
  /\ u.existing = s.existing /\ u.taken = s.taken /\ u.head = {}

\* The group in hand is left for the next one, or the run is done.
MovesOn(r) ==
  /\ \/ run[r].at = Len(Plan) /\ EndedAs(run'[r], "done")
     \/ NextSelected(run[r], run'[r])
  /\ \A q \in Runs \ {r} : run'[q] = run[q]

LEMMA NextGroupFields ==
  ASSUME TypeOK, NEW r \in Runs, NextGroup(r)
  PROVE  MovesOn(r)
  <1> USE DEF MovesOn
  <1> DEFINE s == run[r]
             t == [FreshRun EXCEPT !.pc = "select", !.at = s.at + 1, !.base = s.base,
                                   !.existing = s.existing, !.taken = s.taken]
  <1>1. CASE s.at = Len(Plan)
    <2>1. Go(r, Ended("done"))
      BY <1>1 DEF NextGroup
    <2>2. QED
      BY <1>1, <2>1, GoEffect, EndedFields
  <1>2. CASE s.at # Len(Plan)
    <2>1. Go(r, t)
      BY <1>2 DEF NextGroup
    <2>2. NextSelected(s, t)
      BY <1>2 DEF NextSelected, FreshRun
    <2>3. QED
      BY <2>1, <2>2, GoEffect
  <1>3. QED
    BY <1>1, <1>2

\* What a group comes to is noted, and nothing else of the result changes.
ToldAs(r, o) ==
  /\ result'[r].opened = result[r].opened /\ result'[r].orphaned = result[r].orphaned
  /\ result'[r].outcome = [result[r].outcome EXCEPT ![GroupOf(r)] = o]
  /\ \A q \in Runs \ {r} : result'[q] = result[q]

LEMMA ReportEffect ==
  ASSUME TypeOK, NEW r \in Runs, NEW t, Report(r, t)
  PROVE  result'[r] = t /\ \A q \in Runs \ {r} : result'[q] = result[q]
  BY DEF Report, TypeOK

LEMMA ConcludedEffect ==
  ASSUME TypeOK, NEW r \in Runs, NEW o, Report(r, Concluded(r, o))
  PROVE  ToldAs(r, o)
  <1>1. result[r] \in RunResult
    BY DEF TypeOK
  <1>2. /\ Concluded(r, o).opened = result[r].opened
        /\ Concluded(r, o).orphaned = result[r].orphaned
        /\ Concluded(r, o).outcome = [result[r].outcome EXCEPT ![GroupOf(r)] = o]
    BY <1>1 DEF Concluded, RunResult
  <1>3. QED
    BY <1>2, ReportEffect DEF ToldAs

\* ... with the outcome o.
Leaves(r, o) == MovesOn(r) /\ ToldAs(r, o)

LEMMA GroupLeft ==
  ASSUME TypeOK, NEW r \in Runs, NEW o, NextGroup(r), Report(r, Concluded(r, o))
  PROVE  Leaves(r, o)
  BY NextGroupFields, ConcludedEffect DEF Leaves, MovesOn

\* A step within the run's clone: only the run's own state changes.
Inside(r) ==
  /\ UNCHANGED <<refs, tip, pr, result, pushed>>
  /\ \A q \in Runs \ {r} : run'[q] = run[q]

Cloned(s, u) ==
  /\ u.pc = "precheck" /\ u.base = tip[Base] /\ u.at = s.at /\ u.cand = s.cand
  /\ u.existing = s.existing /\ u.taken = s.taken /\ u.branch = s.branch
  /\ u.head = s.head /\ u.dirty = s.dirty /\ u.staged = s.staged

LEMMA CloneEffect ==
  ASSUME TypeOK, NEW r \in Runs, Clone(r)
  PROVE  /\ run[r].pc = "idle" /\ Inside(r)
         /\ Cloned(run[r], run'[r]) \/ EndedAs(run'[r], "failed")
  <1> DEFINE t == [run[r] EXCEPT !.pc = "precheck", !.base = tip[Base]]
  <1>1. run[r].pc = "idle" /\ UNCHANGED <<refs, tip, pr, result, pushed>>
    BY DEF Clone, remote
  <1>2. Cloned(run[r], t)
    <2>1. run[r] \in RunState
      BY DEF TypeOK
    <2>2. QED
      BY <2>1 DEF Cloned, RunState
  <1>3. Go(r, t) \/ Go(r, Ended("failed"))
    BY DEF Clone
  <1>4. QED
    BY <1>1, <1>2, <1>3, GoEffect, EndedFields DEF Inside

Looked(s, u) ==
  /\ u.pc = "select" /\ u.at = s.at /\ u.base = s.base /\ u.cand = s.cand /\ u.taken = s.taken
  /\ u.head = s.head
  /\ \/ u.existing = refs \intersect UNION {CandidateBranches(g) : g \in Groups}
     \/ "precheck" \in Faults /\ u.existing = {}

LEMMA PrecheckEffect ==
  ASSUME TypeOK, NEW r \in Runs, Precheck(r)
  PROVE  run[r].pc = "precheck" /\ Inside(r) /\ Looked(run[r], run'[r])
  <1> DEFINE s == run[r]
             t(found) == [s EXCEPT !.pc = "select", !.existing = found]
             all == refs \intersect UNION {CandidateBranches(g) : g \in Groups}
  <1>1. s.pc = "precheck" /\ UNCHANGED <<refs, tip, pr, result, pushed>>
    BY DEF Precheck, remote
  <1>2. PICK found : /\ found = all \/ ("precheck" \in Faults /\ found = {})
                     /\ Go(r, t(found))
    BY DEF Precheck, OnFault
  <1>3. Looked(s, t(found))
    <2>1. s \in RunState
      BY DEF TypeOK
    <2>2. /\ t(found).pc = "select" /\ t(found).existing = found
          /\ t(found).at = s.at /\ t(found).base = s.base /\ t(found).cand = s.cand
          /\ t(found).taken = s.taken /\ t(found).head = s.head
      BY <2>1 DEF RunState
    <2>3. QED
      BY <1>2, <2>2 DEF Looked
  <1>4. run'[r] = t(found) /\ \A q \in Runs \ {r} : run'[q] = run[q]
    BY <1>2, GoEffect
  <1>5. QED
    BY <1>1, <1>3, <1>4 DEF Inside

\* A name is taken, or passed over.
Claimed(r, c) ==
  LET s == run[r]
      u == run'[r]
  IN /\ c \notin s.taken \union s.existing
     /\ u.pc = "checkout" /\ u.branch = c /\ u.taken = s.taken \union {c}
     /\ u.at = s.at /\ u.cand = s.cand /\ u.base = s.base /\ u.existing = s.existing
     /\ u.head = s.head

PassedOver(r, c) ==
  LET s == run[r]
      u == run'[r]
  IN /\ c \in s.taken \/ (c \in s.existing /\ (~HasOpenPR(c) \/ "pr_lookup" \in Faults))
     /\ u.pc = "select" /\ u.cand = s.cand + 1 /\ u.taken = s.taken
     /\ u.at = s.at /\ u.base = s.base /\ u.existing = s.existing /\ u.head = s.head

LEMMA TryCandidateEffect ==
  ASSUME TypeOK, NEW r \in Runs, TryCandidate(r),
         NEW c, c = CandidateBranch(GroupOf(r), run[r].cand)
  PROVE  /\ run[r].pc = "select" /\ run[r].cand \in 1 .. MaxSuffix
         /\ UNCHANGED <<refs, tip, pr, pushed>>
         /\ \A q \in Runs \ {r} : run'[q] = run[q] /\ result'[q] = result[q]
         /\ \/ result' = result /\ Claimed(r, c)
            \/ result' = result /\ PassedOver(r, c)
            \/ Leaves(r, "skipped")
  <1> DEFINE s == run[r]
             t == Claim(s, c)
             u == [s EXCEPT !.cand = s.cand + 1]
  <1>1. s \in RunState /\ s.pc = "select" /\ s.cand \in 1 .. MaxSuffix
    <2>1. s \in RunState
      BY DEF TypeOK
    <2>2. s.pc = "select" /\ s.cand <= MaxSuffix
      BY DEF TryCandidate
    <2>3. QED
      BY <2>1, <2>2, BoundAssumption DEF RunState
  <1>2. UNCHANGED <<refs, tip, pr, pushed>>
    BY DEF TryCandidate, remote
  <1>3. CASE c \notin s.taken \union s.existing /\ Go(r, t) /\ UNCHANGED result
    <2>1. /\ t.pc = "checkout" /\ t.branch = c /\ t.taken = s.taken \union {c}
          /\ t.at = s.at /\ t.cand = s.cand /\ t.base = s.base /\ t.existing = s.existing
          /\ t.head = s.head
      BY <1>1 DEF Claim, RunState
    <2>2. run'[r] = t /\ \A q \in Runs \ {r} : run'[q] = run[q]
      BY <1>3, GoEffect
    <2>3. Claimed(r, c)
      BY <1>3, <2>1, <2>2 DEF Claimed
    <2>4. QED
      BY <1>1, <1>2, <1>3, <2>2, <2>3
  <1>4. CASE NextGroup(r) /\ Report(r, Concluded(r, "skipped"))
    BY <1>1, <1>2, <1>4, GroupLeft DEF Leaves, MovesOn, ToldAs
  <1>5. CASE /\ c \in s.taken \/ (c \in s.existing /\ (~HasOpenPR(c) \/ "pr_lookup" \in Faults))
             /\ Go(r, u) /\ UNCHANGED result
    <2>1. /\ u.pc = "select" /\ u.cand = s.cand + 1 /\ u.taken = s.taken
          /\ u.at = s.at /\ u.base = s.base /\ u.existing = s.existing /\ u.head = s.head
      BY <1>1 DEF RunState
    <2>2. run'[r] = u /\ \A q \in Runs \ {r} : run'[q] = run[q]
      BY <1>5, GoEffect
    <2>3. PassedOver(r, c)
      BY <1>5, <2>1, <2>2 DEF PassedOver
    <2>4. QED
      BY <1>1, <1>2, <1>5, <2>2, <2>3
  <1>6. QED
    BY <1>3, <1>4, <1>5 DEF TryCandidate

LEMMA NoNameLeftEffect ==
  ASSUME TypeOK, NEW r \in Runs, NoNameLeft(r)
  PROVE  /\ run[r].pc = "select" /\ UNCHANGED <<refs, tip, pr, pushed>>
         /\ Leaves(r, "error")
  BY GroupLeft DEF NoNameLeft, remote

\* The branch is created at the clone's base.
Started(s, u) ==
  /\ s.branch # Base
  /\ u.pc = "fix" /\ u.head = s.base /\ u.dirty = {} /\ u.staged = {}
  /\ u.next = 1 /\ u.committed = 0
  /\ u.at = s.at /\ u.cand = s.cand /\ u.base = s.base /\ u.existing = s.existing
  /\ u.taken = s.taken /\ u.branch = s.branch

LEMMA CheckoutEffect ==
  ASSUME TypeOK, NEW r \in Runs, Checkout(r)
  PROVE  /\ run[r].pc = "checkout" /\ UNCHANGED <<refs, tip, pr, pushed>>
         /\ \/ Inside(r) /\ Started(run[r], run'[r])
            \/ Leaves(r, "error")
  <1> DEFINE s == run[r]
             t == [s EXCEPT !.pc = "fix", !.head = s.base, !.dirty = {}, !.staged = {},
                            !.next = 1, !.committed = 0]
  <1>1. s \in RunState /\ s.pc = "checkout" /\ UNCHANGED <<refs, tip, pr, pushed>>
    BY DEF TypeOK, Checkout, remote
  <1>2. CASE s.branch # Base /\ Go(r, t) /\ UNCHANGED result
    <2>1. Started(s, t)
      BY <1>1, <1>2 DEF Started, RunState
    <2>2. QED
      BY <1>1, <1>2, <2>1, GoEffect DEF Inside
  <1>3. CASE NextGroup(r) /\ Report(r, Concluded(r, "error"))
    BY <1>1, <1>3, GroupLeft
  <1>4. QED
    BY <1>2, <1>3 DEF Checkout

\* What a fix attempt leaves alone.
SamePlace(s, t) ==
  /\ t \in RunState
  /\ t.pc = s.pc /\ t.at = s.at /\ t.cand = s.cand /\ t.next = s.next /\ t.base = s.base
  /\ t.existing = s.existing /\ t.taken = s.taken /\ t.branch = s.branch

\* What writing, staging and committing a fix do to the clone.
LEMMA CloneSteps ==
  ASSUME NEW s \in RunState, NEW r \in Runs, NEW f \in Findings
  PROVE  /\ SamePlace(s, Written(s, f)) /\ Written(s, f).head = s.head
         /\ Written(s, f).committed = s.committed
         /\ Written(s, f).staged = s.staged /\ Written(s, f).dirty = s.dirty \union {f}
         /\ SamePlace(s, Added(s, f)) /\ Added(s, f).head = s.head
         /\ Added(s, f).committed = s.committed /\ Added(s, f).dirty = s.dirty
         /\ Added(s, f).staged =
              s.staged \union {e \in s.dirty : FileOf[e] = FileOf[f]}
         /\ SamePlace(s, Committed(s, r, f))
         /\ Committed(s, r, f).head = s.head \union {FixCommit(r, s.branch, f, s.staged)}
         /\ Committed(s, r, f).committed = s.committed
         /\ Committed(s, r, f).dirty = s.dirty \ s.staged
         /\ Committed(s, r, f).staged = {}
  <1>1. SamePlace(s, Written(s, f)) /\ SamePlace(s, Added(s, f)) /\ SamePlace(s, Committed(s, r, f))
    <2>1. /\ Written(s, f) \in RunState /\ Added(s, f) \in RunState
          /\ Committed(s, r, f) \in RunState
      BY CloneTypes
    <2>2. QED
      BY <2>1 DEF SamePlace, Written, Added, Committed, RunState
  <1>2. /\ Written(s, f).head = s.head /\ Written(s, f).committed = s.committed
        /\ Written(s, f).staged = s.staged /\ Written(s, f).dirty = s.dirty \union {f}
    BY DEF Written, RunState
  <1>3. /\ Added(s, f).head = s.head /\ Added(s, f).committed = s.committed
        /\ Added(s, f).dirty = s.dirty
        /\ Added(s, f).staged = s.staged \union {e \in s.dirty : FileOf[e] = FileOf[f]}
    BY DEF Added, RunState
  <1>4. /\ Committed(s, r, f).head = s.head \union {FixCommit(r, s.branch, f, s.staged)}
        /\ Committed(s, r, f).committed = s.committed
        /\ Committed(s, r, f).dirty = s.dirty \ s.staged
        /\ Committed(s, r, f).staged = {}
    BY DEF Committed, RunState
  <1>5. QED
    BY <1>1, <1>2, <1>3, <1>4

\* After the reset the clone is clean, unless the reset failed.
LEMMA DiscardEffect ==
  ASSUME NEW s \in RunState, NEW t \in Discarded(s)
  PROVE  /\ SamePlace(s, t) /\ t.head = s.head /\ t.committed = s.committed
         /\ "reset" \notin Faults => t.dirty = {} /\ t.staged = {}
  <1> DEFINE d == [s EXCEPT !.dirty = {}, !.staged = {}]
  <1>1. d \in RunState
    BY DEF RunState
  <1>2. /\ SamePlace(s, d) /\ d.head = s.head /\ d.committed = s.committed
        /\ d.dirty = {} /\ d.staged = {}
    BY <1>1 DEF SamePlace, RunState
  <1>3. SamePlace(s, s)
    BY DEF SamePlace
  <1>4. t = d \/ ("reset" \in Faults /\ t = s)
    BY DEF Discarded, OnFault
  <1>5. QED
    BY <1>2, <1>3, <1>4

\* The run's state after the attempt to fix f: at most one more commit, counted
\* only if it was made; clean, with the edit of f in the commit and no other, if
\* it was clean before and resets work.
Attempted(r, s, u, f) ==
  /\ u.pc = s.pc /\ u.at = s.at /\ u.cand = s.cand /\ u.base = s.base
  /\ u.existing = s.existing /\ u.taken = s.taken /\ u.branch = s.branch
  /\ u.next = s.next + 1
  /\ \/ u.head = s.head /\ u.committed = s.committed
     \/ \E edits \in SUBSET Findings :
          /\ u.head = s.head \union {FixCommit(r, s.branch, f, edits)}
          /\ u.committed \in {s.committed, s.committed + 1}
  /\ "reset" \notin Faults /\ s.dirty = {} /\ s.staged = {} =>
       /\ u.dirty = {} /\ u.staged = {}
       /\ \A c \in u.head : c \in s.head \/ c.edits = {c.fix}

LEMMA ApplyAndCommitEffect ==
  ASSUME TypeOK, NEW r \in Runs, ApplyAndCommit(r)
  PROVE  /\ run[r].pc = "fix" /\ Inside(r)
         /\ run[r].next \in 1 .. Len(FindingsOf[GroupOf(r)])
         /\ FindingOf(r) \in Findings
         /\ Attempted(r, run[r], run'[r], FindingOf(r))
  <1> DEFINE s == run[r]
             f == FindingOf(r)
             written == Written(s, f)
             added == Added(written, f)
             made == Committed(added, r, f)
             failed == {written, added} \union OnFault("commit_late", {made})
             counted == [made EXCEPT !.committed = @ + 1]
             ends == {s, counted} \union UNION {Discarded(u) : u \in failed}
             clean == "reset" \notin Faults /\ s.dirty = {} /\ s.staged = {}
             new == FixCommit(r, s.branch, f, added.staged)
  <1>1. s \in RunState /\ s.pc = "fix" /\ f \in Findings
    <2>1. s \in RunState
      BY DEF TypeOK
    <2>2. QED
      BY <2>1, FindingInHand DEF ApplyAndCommit
  <1>2. s.next \in 1 .. Len(FindingsOf[GroupOf(r)])
    <2>1. s.next <= Len(FindingsOf[GroupOf(r)]) /\ GroupOf(r) \in Groups
      BY <1>1, GroupsOfPlan DEF ApplyAndCommit, GroupOf, RunState
    <2>2. Len(FindingsOf[GroupOf(r)]) \in Nat
      BY <2>1, PlanAssumption
    <2>3. QED
      BY <1>1, <2>1, <2>2 DEF RunState
  <1>3. /\ SamePlace(s, written) /\ written.head = s.head /\ written.committed = s.committed
        /\ written.staged = s.staged /\ written.dirty = s.dirty \union {f}
    BY <1>1, CloneSteps
  <1>4. written \in RunState
    BY <1>3 DEF SamePlace
  <1>5. /\ SamePlace(s, added) /\ added.head = s.head /\ added.committed = s.committed
        /\ added.dirty = written.dirty
        /\ added.staged = written.staged \union {e \in written.dirty : FileOf[e] = FileOf[f]}
    <2>1. /\ SamePlace(written, added) /\ added.head = written.head
          /\ added.committed = written.committed /\ added.dirty = written.dirty
          /\ added.staged = written.staged \union {e \in written.dirty : FileOf[e] = FileOf[f]}
      BY <1>1, <1>4, CloneSteps
    <2>2. QED
      BY <1>3, <2>1 DEF SamePlace
  <1>6. added \in RunState /\ added.branch = s.branch
    BY <1>5 DEF SamePlace
  <1>7. /\ SamePlace(s, made) /\ made.head = s.head \union {new} /\ made.committed = s.committed
        /\ made.dirty = added.dirty \ added.staged /\ made.staged = {}
    <2>1. /\ SamePlace(added, made)
          /\ made.head = added.head \union {FixCommit(r, added.branch, f, added.staged)}
          /\ made.committed = added.committed
          /\ made.dirty = added.dirty \ added.staged /\ made.staged = {}
      BY <1>1, <1>6, CloneSteps
    <2>2. QED
      BY <1>5, <1>6, <2>1 DEF SamePlace
  <1>8. clean => added.staged = {f} /\ made.dirty = {} /\ new.edits = {new.fix}
    <2>1. clean => added.staged = {f} /\ made.dirty = {}
      BY <1>3, <1>5, <1>7
    <2>2. QED
      BY <2>1 DEF FixCommit
  <1>9. made \in RunState /\ added.staged \in SUBSET Findings
    BY <1>6, <1>7 DEF SamePlace, RunState
  <1>10. /\ SamePlace(s, counted) /\ counted.head = made.head
         /\ counted.committed = s.committed + 1
         /\ counted.dirty = made.dirty /\ counted.staged = made.staged
    <2>1. counted \in RunState
      BY <1>9, CounterTypes
    <2>2. QED
      BY <1>7, <1>9, <2>1 DEF SamePlace, RunState
  <1> DEFINE Good(t) ==
        /\ SamePlace(s, t)
        /\ \/ t.head = s.head /\ t.committed = s.committed
           \/ t.head = s.head \union {new} /\ t.committed \in {s.committed, s.committed + 1}
        /\ clean => /\ t.dirty = {} /\ t.staged = {}
                    /\ \A c \in t.head : c \in s.head \/ c.edits = {c.fix}
  <1>11. Good(s) /\ Good(counted)
    BY <1>1, <1>7, <1>8, <1>10 DEF SamePlace
  <1>12. ASSUME NEW u \in failed, NEW t \in Discarded(u)
         PROVE  Good(t)
    <2>1. u \in {written, added, made}
      BY DEF OnFault
    <2>2. u \in RunState
      BY <1>4, <1>6, <1>9, <2>1
    <2>3. /\ SamePlace(u, t) /\ t.head = u.head /\ t.committed = u.committed
          /\ "reset" \notin Faults => t.dirty = {} /\ t.staged = {}
      BY <1>12, <2>2, DiscardEffect
    <2>4. SamePlace(s, t)
      BY <1>3, <1>5, <1>7, <2>1, <2>3 DEF SamePlace
    <2>5. QED
      BY <1>3, <1>5, <1>7, <1>8, <2>1, <2>3, <2>4
  <1>13. ASSUME NEW t \in ends PROVE Good(t)
    <2>1. t = s \/ t = counted \/ \E u \in failed : t \in Discarded(u)
      OBVIOUS
    <2> HIDE DEF Good, failed, counted
    <2>2. QED
      BY <1>11, <1>12, <2>1
  <1>14. PICK t \in ends : Go(r, [t EXCEPT !.next = t.next + 1])
    BY DEF ApplyAndCommit
  <1> DEFINE v == [t EXCEPT !.next = t.next + 1]
  <1>15. Good(t)
    BY <1>13
  <1>16. /\ v.pc = t.pc /\ v.at = t.at /\ v.cand = t.cand /\ v.base = t.base
         /\ v.existing = t.existing /\ v.taken = t.taken /\ v.branch = t.branch
         /\ v.next = t.next + 1 /\ v.head = t.head /\ v.committed = t.committed
         /\ v.dirty = t.dirty /\ v.staged = t.staged
    <2>1. t \in RunState
      BY <1>15 DEF SamePlace
    <2>2. QED
      BY <2>1 DEF RunState
  <1>17. Attempted(r, s, v, f)
    BY <1>9, <1>15, <1>16 DEF Attempted, SamePlace
  <1>18. run'[r] = v /\ \A q \in Runs \ {r} : run'[q] = run[q]
    BY <1>14, GoEffect
  <1>19. UNCHANGED <<refs, tip, pr, result, pushed>>
    BY DEF ApplyAndCommit, remote
  <1>20. QED
    BY <1>1, <1>2, <1>17, <1>18, <1>19 DEF Inside

LEMMA FinishCommitsEffect ==
  ASSUME TypeOK, NEW r \in Runs, FinishCommits(r)
  PROVE  /\ run[r].pc = "fix" /\ UNCHANGED <<refs, tip, pr, pushed>>
         /\ \/ Leaves(r, "skipped")
            \/ /\ Inside(r) /\ run[r].committed > 0
               /\ run'[r] = [run[r] EXCEPT !.pc = "push"]
  <1>1. run[r].pc = "fix" /\ UNCHANGED <<refs, tip, pr, pushed>>
    BY DEF FinishCommits, remote
  <1>2. CASE NextGroup(r) /\ Report(r, Concluded(r, "skipped"))
    BY <1>1, <1>2, GroupLeft
  <1>3. CASE run[r].committed > 0 /\ Go(r, [run[r] EXCEPT !.pc = "push"]) /\ UNCHANGED result
    BY <1>1, <1>3, GoEffect DEF Inside
  <1>4. QED
    BY <1>2, <1>3 DEF FinishCommits

\* A run whose progress alone changes keeps everything else.
LEMMA NewProgress ==
  ASSUME NEW s \in RunState, NEW pc
  PROVE  LET u == [s EXCEPT !.pc = pc] IN
         /\ u.pc = pc /\ u.at = s.at /\ u.cand = s.cand /\ u.next = s.next /\ u.base = s.base
         /\ u.existing = s.existing /\ u.taken = s.taken /\ u.branch = s.branch
         /\ u.head = s.head /\ u.dirty = s.dirty /\ u.staged = s.staged
         /\ u.committed = s.committed
  BY DEF RunState

\* HEAD of the run is on the remote under the name of its branch.
Reaches(r) ==
  LET b == run[r].branch IN
  /\ b \in Branches
  /\ b \in refs => tip[b] \subseteq run[r].head
  /\ refs' = refs \union {b}
  /\ tip'[b] = run[r].head /\ \A d \in Branches \ {b} : tip'[d] = tip[d]
  /\ pushed'[r][b] = run[r].head
  /\ \A d \in Branches \ {b} : pushed'[r][d] = pushed[r][d]
  /\ \A q \in Runs \ {r} : pushed'[q] = pushed[q]

LEMMA ReachEffect ==
  ASSUME TypeOK, NEW r \in Runs, PushReaches(r)
  PROVE  Reaches(r)
  <1>1. run[r].branch \in Branches
    BY DEF TypeOK, RunState
  <1>2. QED
    BY <1>1 DEF PushReaches, PushAccepted, Reaches, TypeOK

LEMMA PushEffect ==
  ASSUME TypeOK, NEW r \in Runs, Push(r)
  PROVE  /\ run[r].pc = "push" /\ UNCHANGED pr
         /\ \/ /\ Reaches(r) /\ UNCHANGED result
               /\ run'[r] = [run[r] EXCEPT !.pc = "open"]
               /\ \A q \in Runs \ {r} : run'[q] = run[q]
            \/ UNCHANGED <<refs, tip, pushed>> /\ Leaves(r, "error")
            \/ "push_late" \in Faults /\ Reaches(r) /\ Leaves(r, "error")
  <1>1. run[r].pc = "push" /\ UNCHANGED pr
    BY DEF Push
  <1>2. CASE PushReaches(r) /\ Go(r, [run[r] EXCEPT !.pc = "open"]) /\ UNCHANGED result
    BY <1>1, <1>2, GoEffect, ReachEffect
  <1>3. CASE UNCHANGED <<remote, pushed>> /\ NextGroup(r) /\ Report(r, Concluded(r, "error"))
    BY <1>1, <1>3, GroupLeft DEF remote
  <1>4. CASE /\ "push_late" \in Faults /\ PushReaches(r)
             /\ NextGroup(r) /\ Report(r, Concluded(r, "error"))
    BY <1>1, <1>4, GroupLeft, ReachEffect
  <1>5. QED
    BY <1>2, <1>3, <1>4 DEF Push

\* The run proposes from the branch in hand.
Proposes(r) ==
  LET b == run[r].branch IN
  /\ Openable(b)
  /\ pr'[r][b] = "open" /\ \A d \in Branches \ {b} : pr'[r][d] = pr[r][d]
  /\ \A q \in Runs \ {r} : pr'[q] = pr[q]

LEMMA OpenPREffect ==
  ASSUME TypeOK, NEW r \in Runs, OpenPR(r), NEW b, b = run[r].branch
  PROVE  /\ run[r].pc = "open" /\ b \in Branches /\ UNCHANGED <<refs, tip, pushed>>
         /\ MovesOn(r) /\ \A q \in Runs \ {r} : result'[q] = result[q]
         /\ \/ /\ Proposes(r)
               /\ result'[r].outcome = [result[r].outcome EXCEPT ![GroupOf(r)] = "opened"]
               /\ result'[r].opened = [result[r].opened EXCEPT ![b] = run[r].committed]
               /\ result'[r].orphaned = result[r].orphaned
            \/ /\ UNCHANGED pr \/ ("pr_late" \in Faults /\ Proposes(r))
               /\ result'[r].outcome = [result[r].outcome EXCEPT ![GroupOf(r)] = "error"]
               /\ result'[r].opened = result[r].opened
               /\ result'[r].orphaned = result[r].orphaned \union {b}
  <1> DEFINE good == [Concluded(r, "opened") EXCEPT !.opened[b] = run[r].committed]
             bad == [Concluded(r, "error") EXCEPT !.orphaned = result[r].orphaned \union {b}]
             proposed == pr' = [pr EXCEPT ![r][b] = "open"]
  <1>1. run[r].pc = "open" /\ UNCHANGED <<refs, tip, pushed>> /\ NextGroup(r)
    BY DEF OpenPR, remote
  <1>2. b \in Branches /\ result[r] \in RunResult
    BY DEF TypeOK, RunState
  <1>3. MovesOn(r)
    BY <1>1, NextGroupFields
  <1>4. ASSUME NEW o
        PROVE  /\ Concluded(r, o).opened = result[r].opened
               /\ Concluded(r, o).orphaned = result[r].orphaned
               /\ Concluded(r, o).outcome = [result[r].outcome EXCEPT ![GroupOf(r)] = o]
    BY <1>2 DEF Concluded, RunResult
  <1>5. /\ good.outcome = [result[r].outcome EXCEPT ![GroupOf(r)] = "opened"]
        /\ good.opened = [result[r].opened EXCEPT ![b] = run[r].committed]
        /\ good.orphaned = result[r].orphaned
    BY <1>2 DEF Concluded, RunResult
  <1>6. /\ bad.outcome = [result[r].outcome EXCEPT ![GroupOf(r)] = "error"]
        /\ bad.opened = result[r].opened
        /\ bad.orphaned = result[r].orphaned \union {b}
    BY <1>2 DEF Concluded, RunResult
  <1>7. Openable(b) /\ proposed => Proposes(r)
    BY <1>2 DEF Proposes, TypeOK
  <1>8. CASE Openable(b) /\ proposed /\ Report(r, good)
    BY <1>1, <1>2, <1>3, <1>5, <1>7, <1>8, ReportEffect
  <1>9. CASE (UNCHANGED pr \/ ("pr_late" \in Faults /\ Openable(b) /\ proposed)) /\ Report(r, bad)
    BY <1>1, <1>2, <1>3, <1>6, <1>7, <1>9, ReportEffect
  <1>10. bad = [Concluded(r, "error") EXCEPT !.orphaned = Concluded(r, "error").orphaned \union {b}]
    BY <1>4
  <1>11. QED
    BY <1>8, <1>9, <1>10 DEF OpenPR

LEMMA CancelEffect ==
  ASSUME TypeOK, NEW r \in Runs, Cancel(r)
  PROVE  /\ run[r].pc \notin {"idle"} \union Ends /\ UNCHANGED result
         /\ EndedAs(run'[r], "cancelled") /\ \A q \in Runs \ {r} : run'[q] = run[q]
         /\ \/ UNCHANGED <<refs, tip, pr, pushed>>
            \/ run[r].pc = "push" /\ Reaches(r) /\ UNCHANGED pr
            \/ run[r].pc = "open" /\ Proposes(r) /\ UNCHANGED <<refs, tip, pushed>>
  <1> DEFINE b == run[r].branch
  <1>1. run[r].pc \notin {"idle"} \union Ends /\ UNCHANGED result
    BY DEF Cancel, Ends
  <1>2. EndedAs(run'[r], "cancelled") /\ \A q \in Runs \ {r} : run'[q] = run[q]
    BY EndedFields, GoEffect DEF Cancel
  <1>3. b \in Branches
    BY DEF TypeOK, RunState
  <1>4. Openable(b) /\ pr' = [pr EXCEPT ![r][b] = "open"] => Proposes(r)
    BY <1>3 DEF Proposes, TypeOK
  <1>5. QED
    BY <1>1, <1>2, <1>4, ReachEffect DEF Cancel, remote

\* The user only settles open pull requests, and brings to the base branch what is
\* on another branch or the merge of a pull request.
LEMMA UserStepEffect ==
  ASSUME TypeOK, UserStep
  PROVE  /\ UNCHANGED <<run, result, pushed>>
         /\ \A q \in Runs, d \in Branches :
              \/ pr'[q][d] = pr[q][d]
              \/ pr[q][d] = "open" /\ pr'[q][d] \in {"merged", "closed"}
         /\ refs' \subseteq refs /\ ("delete" \notin UserActs => refs' = refs)
         /\ \A d \in Branches : \A c \in tip'[d] :
              \/ \E e \in Branches : c \in tip[e]
              \/ \E q \in Runs, e \in Branches : pr[q][e] # "none" /\ c = MergeCommit(q, e)
         /\ \A d \in Branches \ {Base} : tip'[d] = tip[d] \/ d \notin refs'
  <1>1. ASSUME NEW r \in Runs, NEW b \in Branches, NEW state \in {"merged", "closed"},
               pr[r][b] = "open", ClosePR(r, b, state)
        PROVE  \A q \in Runs, d \in Branches :
                 \/ pr'[q][d] = pr[q][d]
                 \/ pr[q][d] = "open" /\ pr'[q][d] \in {"merged", "closed"}
    BY <1>1 DEF ClosePR, TypeOK
  <1>2. ASSUME NEW r \in Runs, NEW b \in Branches, Merge(r, b)
        PROVE  /\ \A d \in Branches \ {Base} : tip'[d] = tip[d]
               /\ \A c \in tip'[Base] : c \in tip[Base] \/ c \in tip[b] \/ c = MergeCommit(r, b)
               /\ pr[r][b] # "none"
    BY <1>2 DEF Merge, TypeOK, Branches
  <1>3. ASSUME NEW r \in Runs, NEW b \in Branches, Merge(r, b) \/ Close(r, b)
        PROVE  /\ UNCHANGED <<refs, run, result, pushed>>
               /\ pr[r][b] = "open" /\ \E state \in {"merged", "closed"} : ClosePR(r, b, state)
               /\ Close(r, b) => tip' = tip
    BY <1>3 DEF Merge, Close, remote
  <1>4. CASE \E r \in Runs, b \in Branches : Merge(r, b)
    <2>1. PICK r \in Runs, b \in Branches : Merge(r, b)
      BY <1>4
    <2>2. Base \in Branches
      BY DEF Branches
    <2>3. \A d \in Branches : \A c \in tip'[d] :
              \/ \E e \in Branches : c \in tip[e]
              \/ \E q \in Runs, e \in Branches : pr[q][e] # "none" /\ c = MergeCommit(q, e)
      BY <1>2, <2>1, <2>2
    <2>4. QED
      BY <1>1, <1>2, <1>3, <2>1, <2>3
  <1>5. CASE \E r \in Runs, b \in Branches : Close(r, b)
    BY <1>1, <1>3, <1>5
  <1>6. CASE \E b \in Branches : Delete(b)
    <2>1. PICK b \in Branches : Delete(b)
      BY <1>6
    <2>2. /\ tip' = [tip EXCEPT ![b] = {}] /\ refs' = refs \ {b} /\ "delete" \in UserActs
          /\ pr' = [r \in Runs |-> [pr[r] EXCEPT ![b] = IF pr[r][b] = "open" THEN "closed"
                                                        ELSE pr[r][b]]]
          /\ UNCHANGED <<run, result, pushed>>
      BY <2>1 DEF Delete
    <2>3. \A q \in Runs, d \in Branches :
            \/ pr'[q][d] = pr[q][d]
            \/ pr[q][d] = "open" /\ pr'[q][d] \in {"merged", "closed"}
      BY <2>2 DEF TypeOK
    <2>4. \A d \in Branches : tip'[d] = (IF d = b THEN {} ELSE tip[d])
      BY <2>2 DEF TypeOK
    <2>5. QED
      BY <2>2, <2>3, <2>4
  <1>7. QED
    BY <1>4, <1>5, <1>6 DEF UserStep

-----------------------------------------------------------------------------
(* Counts are backed by commits. *)

\* Commits on the remote or in a clone.
Seen(c) ==
  \/ \E b \in Branches : c \in tip[b]
  \/ \E q \in Runs : c \in run[q].base \union run[q].head

LEMMA UnheardUnseen ==
  ASSUME TypeOK, NEW r \in Runs
  PROVE  Unheard(r) <=> (run[r].pc = "idle" => \A c : Seen(c) => c.run # r)
  BY DEF Unheard, Seen, CommitsBy

\* A step of run r that brings no commits but its own.
LEMMA CountStep ==
  ASSUME CountInv, IInv', NEW r \in Runs,
         \A q \in Runs \ {r} : /\ run'[q] = run[q] /\ result'[q] = result[q]
                               /\ pr'[q] = pr[q] /\ pushed'[q] = pushed[q],
         \A c : Seen(c)' => Seen(c) \/ c.run = r,
         run'[r].pc # "idle", OwnWork(r)', Backed(r)'
  PROVE  CountInv'
  <1>1. TypeOK /\ TypeOK'
    BY DEF CountInv, IInv
  <1>2. ASSUME NEW q \in Runs \ {r}
        PROVE  (Unheard(q) /\ OwnWork(q) /\ Backed(q))'
    <2>1. Unheard(q) /\ OwnWork(q) /\ Backed(q)
      BY DEF CountInv
    <2>2. run[q].pc = "idle" => \A c : Seen(c) => c.run # q
      BY <1>1, <2>1, UnheardUnseen
    <2>3. Unheard(q)'
      <3>1. run'[q].pc = "idle" => \A c : Seen(c)' => c.run # q
        BY <2>2
      <3>2. QED
        BY <3>1 DEF Unheard, Seen, CommitsBy
    <2>4. OwnWork(q)'
      BY <2>1 DEF OwnWork, GroupOf
    <2>5. Backed(q)'
      BY <2>1 DEF Backed
    <2>6. QED
      BY <2>3, <2>4, <2>5
  <1>3. Unheard(r)'
    BY DEF Unheard
  <1>4. QED
    BY <1>2, <1>3 DEF CountInv

\* A branch in hand has no pull request and is not listed yet.
LEMMA NotYetListed ==
  ASSUME CountInv, NEW r \in Runs, run[r].pc \in InHand
  PROVE  /\ run[r].branch \in Branches /\ pr[r][run[r].branch] = "none"
         /\ ~ (result[r].opened[run[r].branch] > 0)
  <1>1. run[r].branch \in Branches
    BY DEF CountInv, IInv, TypeOK, RunState
  <1>2. pr[r][run[r].branch] = "none"
    BY <1>1 DEF CountInv, IInv, RunInv, ProposedOnce, InHand
  <1>3. QED
    BY <1>1, <1>2 DEF CountInv, Backed

\* A step that keeps what r pushed and listed and does not take back its pull
\* requests keeps r's counts.
LEMMA StaysBacked ==
  ASSUME CountInv, NEW r \in Runs, result'[r].opened = result[r].opened,
         pushed'[r] = pushed[r],
         \A b \in Branches : pr[r][b] # "none" => pr'[r][b] # "none"
  PROVE  Backed(r)'
  BY DEF CountInv, Backed

\* A push of a branch that is not listed keeps them too.
LEMMA PushBacked ==
  ASSUME CountInv, NEW r \in Runs, result'[r].opened = result[r].opened,
         run[r].pc \in InHand, Reaches(r), pr' = pr
  PROVE  Backed(r)'
  <1>1. \A b \in Branches : result[r].opened[b] > 0 => pushed'[r][b] = pushed[r][b]
    BY NotYetListed DEF Reaches
  <1>2. QED
    BY <1>1 DEF CountInv, Backed

\* A run with nothing in hand and no more commits than it had.
LEMMA NothingInHand ==
  ASSUME CountInv, IInv', NEW r \in Runs,
         \A q \in Runs \ {r} : /\ run'[q] = run[q] /\ result'[q] = result[q]
                               /\ pr'[q] = pr[q] /\ pushed'[q] = pushed[q],
         \A c : (\E b \in Branches : c \in tip'[b]) => Seen(c),
         run'[r].pc \notin {"idle"} \union Building,
         run'[r].base \subseteq run[r].base, run'[r].head \subseteq run[r].head, Backed(r)'
  PROVE  CountInv'
  <1>1. OwnWork(r) /\ TypeOK
    BY DEF CountInv, IInv
  <1>2. OwnWork(r)'
    BY <1>1 DEF OwnWork, CommitsBy, Building
  <1>3. \A c : Seen(c)' => Seen(c) \/ c.run = r
    BY DEF Seen
  <1>4. QED
    BY <1>2, <1>3, CountStep

\* The run leaves the group in hand, whatever it told of it.
LEMMA CountMovesOn ==
  ASSUME CountInv, IInv', NEW r \in Runs, MovesOn(r) \/ EndedAs(run'[r], "cancelled"),
         \A q \in Runs \ {r} : /\ run'[q] = run[q] /\ result'[q] = result[q]
                               /\ pr'[q] = pr[q] /\ pushed'[q] = pushed[q],
         \A c : (\E b \in Branches : c \in tip'[b]) => Seen(c), Backed(r)'
  PROVE  CountInv'
  <1>1. /\ run'[r].pc \in {"select", "done", "cancelled"}
        /\ run'[r].base \subseteq run[r].base /\ run'[r].head \subseteq run[r].head
    BY DEF MovesOn, EndedAs, NextSelected
  <1>2. QED
    BY <1>1, NothingInHand DEF Building

\* A run that leaves its group with the remote and the pull requests as they were.
LEMMA CountLeaves ==
  ASSUME CountInv, IInv', NEW r \in Runs, NEW o, Leaves(r, o),
         UNCHANGED <<refs, tip, pr, pushed>>
  PROVE  CountInv'
  <1>1. \A c : (\E b \in Branches : c \in tip'[b]) => Seen(c)
    BY DEF Seen
  <1>2. Backed(r)'
    BY StaysBacked DEF Leaves, ToldAs
  <1>3. QED
    BY <1>1, <1>2, CountMovesOn DEF Leaves, ToldAs, MovesOn

LEMMA CountClone ==
  ASSUME CountInv, IInv', NEW r \in Runs, Clone(r)
  PROVE  CountInv'
  <1>1. TypeOK /\ Base \in Branches
    BY DEF CountInv, IInv, Branches
  <1>2. /\ run[r].pc = "idle" /\ Inside(r)
        /\ Cloned(run[r], run'[r]) \/ EndedAs(run'[r], "failed")
    BY <1>1, CloneEffect
  <1>3. Backed(r)'
    BY <1>2, StaysBacked DEF Inside
  <1>4. CASE Cloned(run[r], run'[r])
    <2>1. \A c : c \in run'[r].base => \E b \in Branches : c \in tip[b]
      BY <1>1, <1>4 DEF Cloned
    <2>2. \A c : Seen(c)' => Seen(c)
      BY <1>2, <1>4, <2>1 DEF Seen, Inside, Cloned
    <2>3. \A c : Seen(c) => c.run # r
      BY <1>1, <1>2, UnheardUnseen DEF CountInv
    <2>4. CommitsBy(r, run'[r].base) = {}
      BY <2>1, <2>3 DEF CommitsBy, Seen
    <2>5. OwnWork(r)'
      BY <1>4, <2>4 DEF OwnWork, Cloned, Building
    <2>6. run'[r].pc # "idle"
      BY <1>4 DEF Cloned
    <2>7. QED
      BY <1>2, <1>3, <2>2, <2>5, <2>6, CountStep DEF Inside
  <1>5. CASE EndedAs(run'[r], "failed")
    <2>1. /\ run'[r].pc = "failed"
          /\ run'[r].base \subseteq run[r].base /\ run'[r].head \subseteq run[r].head
      BY <1>5 DEF EndedAs
    <2>2. \A c : (\E b \in Branches : c \in tip'[b]) => Seen(c)
      BY <1>2 DEF Seen, Inside
    <2>3. QED
      BY <1>2, <1>3, <2>1, <2>2, NothingInHand DEF Building, Inside
  <1>6. QED
    BY <1>2, <1>4, <1>5

\* Looking names up and choosing one brings no commits.
LEMMA CountNaming ==
  ASSUME CountInv, IInv', NEW r \in Runs, Precheck(r) \/ TryCandidate(r) \/ NoNameLeft(r)
  PROVE  CountInv'
  <1> DEFINE n == CandidateBranch(GroupOf(r), run[r].cand)
  <1>1. TypeOK
    BY DEF CountInv, IInv
  <1>2. ASSUME Inside(r), run'[r].base = run[r].base, run'[r].head = run[r].head,
               run'[r].pc \in {"select", "checkout"}
        PROVE  CountInv'
    <2>1. \A c : (\E b \in Branches : c \in tip'[b]) => Seen(c)
      BY <1>2 DEF Seen, Inside
    <2>2. Backed(r)'
      BY <1>2, StaysBacked DEF Inside
    <2>3. QED
      BY <1>2, <2>1, <2>2, NothingInHand DEF Building, Inside
  <1>3. CASE Precheck(r)
    BY <1>1, <1>2, <1>3, PrecheckEffect DEF Looked
  <1>4. CASE TryCandidate(r)
    <2>1. /\ UNCHANGED <<refs, tip, pr, pushed>>
          /\ \A q \in Runs \ {r} : run'[q] = run[q] /\ result'[q] = result[q]
          /\ \/ result' = result /\ Claimed(r, n)
             \/ result' = result /\ PassedOver(r, n)
             \/ Leaves(r, "skipped")
      BY <1>1, <1>4, TryCandidateEffect
    <2>2. CASE result' = result /\ Claimed(r, n)
      BY <1>2, <2>1, <2>2 DEF Claimed, Inside
    <2>3. CASE result' = result /\ PassedOver(r, n)
      BY <1>2, <2>1, <2>3 DEF PassedOver, Inside
    <2>4. CASE Leaves(r, "skipped")
      BY <2>1, <2>4, CountLeaves
    <2>5. QED
      BY <2>1, <2>2, <2>3, <2>4
  <1>5. CASE NoNameLeft(r)
    BY <1>1, <1>5, NoNameLeftEffect, CountLeaves
  <1>6. QED
    BY <1>3, <1>4, <1>5

LEMMA CountCheckout ==
  ASSUME CountInv, IInv', NEW r \in Runs, Checkout(r)
  PROVE  CountInv'
  <1>1. TypeOK /\ OwnWork(r)
    BY DEF CountInv, IInv
  <1>2. CASE Inside(r) /\ Started(run[r], run'[r])
    <2>1. \A c : Seen(c)' => Seen(c)
      BY <1>2 DEF Seen, Inside, Started
    <2>2. CommitsBy(r, run'[r].head) = {} /\ CommitsBy(r, run'[r].base) = {}
      BY <1>1, <1>2 DEF OwnWork, Started
    <2>3. IsFiniteSet({}) /\ Cardinality({}) = 0
      BY FS_EmptySet
    <2>4. OwnWork(r)'
      BY <1>2, <2>2, <2>3 DEF OwnWork, Started
    <2>5. Backed(r)' /\ run'[r].pc # "idle"
      BY <1>2, StaysBacked DEF Inside, Started
    <2>6. QED
      BY <1>2, <2>1, <2>4, <2>5, CountStep DEF Inside
  <1>3. QED
    BY <1>1, <1>2, CheckoutEffect, CountLeaves

\* The fix for a finding not tried before is a commit the run did not have.
LEMMA CountApplyAndCommit ==
  ASSUME CountInv, IInv', NEW r \in Runs, ApplyAndCommit(r)
  PROVE  CountInv'
  <1> DEFINE s == run[r]
             u == run'[r]
             f == FindingOf(r)
             g == GroupOf(r)
             own == CommitsBy(r, s.head)
  <1>1. TypeOK /\ OwnWork(r) /\ s \in RunState
    BY DEF CountInv, IInv, TypeOK
  <1>2. /\ s.pc = "fix" /\ Inside(r) /\ s.next \in 1 .. Len(FindingsOf[g])
        /\ f \in Findings /\ Attempted(r, s, u, f)
    BY <1>1, ApplyAndCommitEffect
  <1>3. /\ u.pc = "fix" /\ u.at = s.at /\ u.base = s.base /\ u.branch = s.branch
        /\ u.next = s.next + 1 /\ s.committed \in Nat
    BY <1>1, <1>2 DEF Attempted, RunState
  <1>4. /\ IsFiniteSet(own) /\ s.committed <= Cardinality(own)
        /\ \A c \in own : \E i \in 1 .. s.next - 1 : c.fix = FindingsOf[g][i]
    BY <1>1, <1>2 DEF OwnWork, Building
  <1>5. Cardinality(own) \in Nat
    BY <1>4, FS_CardinalityType
  <1>6. f = FindingsOf[g][s.next] /\ GroupOf(r)' = g
    BY <1>3 DEF FindingOf, GroupOf
  <1>7. /\ g \in Groups /\ Len(FindingsOf[g]) \in Nat
        /\ DOMAIN FindingsOf[g] = 1 .. Len(FindingsOf[g])
    BY <1>1, GroupsOfPlan, PlanAssumption DEF GroupOf, RunState
  <1>8. \A c \in own : c.fix # f
    BY <1>2, <1>4, <1>6, <1>7, DistinctAssumption
  <1>9. CASE u.head = s.head /\ u.committed = s.committed
    <2>1. OwnWork(r)'
      <3>1. \A c \in own : \E i \in 1 .. u.next - 1 : c.fix = FindingsOf[g][i]
        BY <1>2, <1>3, <1>4
      <3>2. QED
        BY <1>1, <1>3, <1>4, <1>6, <1>9, <3>1 DEF OwnWork
    <2>2. \A c : Seen(c)' => Seen(c)
      BY <1>2, <1>3, <1>9 DEF Seen, Inside
    <2>3. QED
      BY <1>2, <1>3, <2>1, <2>2, StaysBacked, CountStep DEF Inside
  <1>10. ASSUME NEW edits \in SUBSET Findings,
                u.head = s.head \union {FixCommit(r, s.branch, f, edits)},
                u.committed \in {s.committed, s.committed + 1}
         PROVE  CountInv'
    <2> DEFINE new == FixCommit(r, s.branch, f, edits)
               all == CommitsBy(r, u.head)
    <2>1. new.run = r /\ new.fix = f
      BY DEF FixCommit
    <2>2. all = own \union {new} /\ new \notin own
      BY <1>8, <1>10, <2>1 DEF CommitsBy
    <2> HIDE DEF own, new, all
    <2>3. IsFiniteSet(all) /\ Cardinality(all) = Cardinality(own) + 1
      BY <1>4, <2>2, FS_AddElement
    <2>4. u.committed <= Cardinality(all)
      BY <1>3, <1>4, <1>5, <1>10, <2>3
    <2>5. \A c \in all : \E i \in 1 .. u.next - 1 : c.fix = FindingsOf[g][i]
      BY <1>2, <1>3, <1>4, <1>6, <2>1, <2>2
    <2> USE DEF all
    <2>6. OwnWork(r)'
      BY <1>1, <1>3, <1>6, <2>3, <2>4, <2>5 DEF OwnWork
    <2>7. \A c : Seen(c)' => Seen(c) \/ c.run = r
      <3>1. \A c \in u.head : c \in s.head \/ c.run = r
        BY <1>10, <2>1 DEF new
      <3>2. QED
        BY <1>2, <1>3, <3>1 DEF Seen, Inside
    <2>8. QED
      BY <1>2, <1>3, <2>6, <2>7, StaysBacked, CountStep DEF Inside
  <1>11. QED
    BY <1>2, <1>9, <1>10 DEF Attempted

LEMMA CountFinishCommits ==
  ASSUME CountInv, IInv', NEW r \in Runs, FinishCommits(r)
  PROVE  CountInv'
  <1> DEFINE s == run[r]
             u == run'[r]
  <1>1. TypeOK /\ OwnWork(r) /\ s \in RunState
    BY DEF CountInv, IInv, TypeOK
  <1>2. s.pc = "fix"
    BY <1>1, FinishCommitsEffect
  <1>3. CASE Inside(r) /\ u = [s EXCEPT !.pc = "push"]
    <2>1. /\ u.pc = "push" /\ u.at = s.at /\ u.next = s.next /\ u.base = s.base
          /\ u.head = s.head /\ u.committed = s.committed
      BY <1>1, <1>3, NewProgress
    <2>2. OwnWork(r)'
      BY <1>1, <1>2, <2>1 DEF OwnWork, Building, GroupOf
    <2>3. \A c : Seen(c)' => Seen(c)
      BY <1>3, <2>1 DEF Seen, Inside
    <2>4. QED
      BY <1>3, <2>1, <2>2, <2>3, StaysBacked, CountStep DEF Inside
  <1>4. QED
    BY <1>1, <1>3, FinishCommitsEffect, CountLeaves

\* What reaches the remote was in the clone.
LEMMA ReachesSeen ==
  ASSUME NEW r \in Runs, Reaches(r)
  PROVE  \A c : (\E b \in Branches : c \in tip'[b]) => Seen(c)
  BY DEF Reaches, Seen

LEMMA CountPush ==
  ASSUME CountInv, IInv', NEW r \in Runs, Push(r)
  PROVE  CountInv'
  <1> DEFINE s == run[r]
             u == run'[r]
  <1>1. TypeOK /\ OwnWork(r) /\ s \in RunState
    BY DEF CountInv, IInv, TypeOK
  <1>2. s.pc = "push" /\ UNCHANGED pr
    BY <1>1, PushEffect
  <1>3. s.pc \in InHand
    BY <1>2 DEF InHand, Building
  <1>4. CASE /\ Reaches(r) /\ UNCHANGED result /\ u = [s EXCEPT !.pc = "open"]
             /\ \A q \in Runs \ {r} : run'[q] = run[q]
    <2>1. /\ u.pc = "open" /\ u.at = s.at /\ u.next = s.next /\ u.base = s.base
          /\ u.head = s.head /\ u.committed = s.committed /\ u.branch = s.branch
      BY <1>1, <1>4, NewProgress
    <2>2. OwnWork(r)'
      BY <1>1, <1>2, <1>4, <2>1 DEF OwnWork, Building, GroupOf, Reaches
    <2>3. \A c : Seen(c)' => Seen(c)
      BY <1>4, <2>1, ReachesSeen DEF Seen
    <2>4. Backed(r)'
      BY <1>2, <1>3, <1>4, PushBacked
    <2>5. QED
      BY <1>2, <1>4, <2>1, <2>2, <2>3, <2>4, CountStep DEF Reaches
  <1>5. CASE UNCHANGED <<refs, tip, pushed>> /\ Leaves(r, "error")
    BY <1>2, <1>5, CountLeaves
  <1>6. CASE Reaches(r) /\ Leaves(r, "error")
    <2>1. Backed(r)'
      BY <1>2, <1>3, <1>6, PushBacked DEF Leaves, ToldAs
    <2>2. QED
      BY <1>2, <1>6, <2>1, ReachesSeen, CountMovesOn DEF Leaves, ToldAs, MovesOn, Reaches
  <1>7. QED
    BY <1>1, <1>4, <1>5, <1>6, PushEffect

LEMMA CountOpenPR ==
  ASSUME CountInv, IInv', NEW r \in Runs, OpenPR(r)
  PROVE  CountInv'
  <1> DEFINE b == run[r].branch
  <1>1. TypeOK /\ OwnWork(r)
    BY DEF CountInv, IInv
  <1>2. /\ run[r].pc = "open" /\ b \in Branches /\ UNCHANGED <<refs, tip, pushed>>
        /\ MovesOn(r) /\ \A q \in Runs \ {r} : result'[q] = result[q]
        /\ \/ /\ Proposes(r)
              /\ result'[r].opened = [result[r].opened EXCEPT ![b] = run[r].committed]
           \/ /\ UNCHANGED pr \/ Proposes(r)
              /\ result'[r].opened = result[r].opened
    BY <1>1, OpenPREffect
  <1>3. run[r].committed <= Cardinality(CommitsBy(r, pushed[r][b]))
    BY <1>1, <1>2 DEF OwnWork, Building
  <1>4. \A d \in Branches : pr[r][d] # "none" => pr'[r][d] # "none"
    BY <1>2 DEF Proposes
  <1>5. Backed(r)'
    <2>1. CASE result'[r].opened = result[r].opened
      BY <1>2, <1>4, <2>1, StaysBacked
    <2>2. CASE /\ Proposes(r)
               /\ result'[r].opened = [result[r].opened EXCEPT ![b] = run[r].committed]
      <3>1. result[r].opened \in [Branches -> Nat] /\ Backed(r)
        BY <1>1 DEF TypeOK, RunResult, CountInv
      <3>2. ASSUME NEW d \in Branches, result'[r].opened[d] > 0
            PROVE  /\ pr'[r][d] # "none"
                   /\ result'[r].opened[d] <= Cardinality(CommitsBy(r, pushed'[r][d]))
        <4>1. CASE d = b
          BY <1>2, <1>3, <2>2, <3>1, <4>1 DEF Proposes
        <4>2. CASE d # b
          BY <1>2, <1>4, <2>2, <3>1, <3>2, <4>2 DEF Backed
        <4>3. QED
          BY <4>1, <4>2
      <3>3. QED
        BY <3>2 DEF Backed
    <2>3. QED
      BY <1>2, <2>1, <2>2
  <1>6. \A q \in Runs \ {r} : pr'[q] = pr[q]
    BY <1>2 DEF Proposes
  <1>7. \A c : (\E d \in Branches : c \in tip'[d]) => Seen(c)
    BY <1>2 DEF Seen
  <1>8. QED
    BY <1>2, <1>5, <1>6, <1>7, CountMovesOn DEF MovesOn

LEMMA CountCancel ==
  ASSUME CountInv, IInv', NEW r \in Runs, Cancel(r)
  PROVE  CountInv'
  <1>1. TypeOK
    BY DEF CountInv, IInv
  <1>2. /\ UNCHANGED result /\ EndedAs(run'[r], "cancelled")
        /\ \A q \in Runs \ {r} : run'[q] = run[q]
        /\ \/ UNCHANGED <<refs, tip, pr, pushed>>
           \/ run[r].pc = "push" /\ Reaches(r) /\ UNCHANGED pr
           \/ run[r].pc = "open" /\ Proposes(r) /\ UNCHANGED <<refs, tip, pushed>>
    BY <1>1, CancelEffect
  <1>3. CASE UNCHANGED <<refs, tip, pr, pushed>> \/ (Proposes(r) /\ UNCHANGED <<refs, tip, pushed>>)
    <2>1. \A q \in Runs \ {r} : pr'[q] = pr[q]
      BY <1>3 DEF Proposes
    <2>2. Backed(r)'
      BY <1>2, <1>3, StaysBacked DEF Proposes
    <2>3. \A c : (\E d \in Branches : c \in tip'[d]) => Seen(c)
      BY <1>3 DEF Seen
    <2>4. QED
      BY <1>2, <1>3, <2>1, <2>2, <2>3, CountMovesOn
  <1>4. CASE run[r].pc = "push" /\ Reaches(r) /\ UNCHANGED pr
    <2>1. Backed(r)'
      BY <1>2, <1>4, PushBacked DEF InHand, Building
    <2>2. QED
      BY <1>2, <1>4, <2>1, ReachesSeen, CountMovesOn DEF Reaches
  <1>5. QED
    BY <1>2, <1>3, <1>4

LEMMA CountUserStep ==
  ASSUME CountInv, IInv', UserStep
  PROVE  CountInv'
  <1>1. TypeOK
    BY DEF CountInv, IInv
  <1>2. UNCHANGED <<run, result, pushed>>
    BY <1>1, UserStepEffect
  <1>3. ASSUME NEW r \in Runs
        PROVE  Backed(r)'
    BY <1>1, <1>2, <1>3, UserStepEffect, StaysBacked
  <1>4. ASSUME NEW r \in Runs
        PROVE  Unheard(r)'
    <2> SUFFICES ASSUME run[r].pc = "idle"
                 PROVE  /\ \A b \in Branches : CommitsBy(r, tip'[b]) = {}
                        /\ \A q \in Runs : CommitsBy(r, run[q].base \union run[q].head) = {}
      BY <1>2 DEF Unheard
    <2>1. \A c : Seen(c) => c.run # r
      BY <1>1, UnheardUnseen DEF CountInv
    <2>2. \A b \in Branches : pr[r][b] = "none"
      BY DEF CountInv, IInv, RunInv, ProposedOnce
    <2>3. \A q \in Runs, e \in Branches : MergeCommit(q, e).run = q
      BY DEF MergeCommit
    <2>4. ASSUME NEW b \in Branches, NEW c \in tip'[b]
          PROVE  c.run # r
      <3>1. \/ \E e \in Branches : c \in tip[e]
            \/ \E q \in Runs, e \in Branches : pr[q][e] # "none" /\ c = MergeCommit(q, e)
        BY <1>1, UserStepEffect
      <3>2. QED
        BY <2>1, <2>2, <2>3, <3>1 DEF Seen
    <2>5. QED
      BY <2>1, <2>4 DEF CommitsBy, Seen
  <1>5. ASSUME NEW r \in Runs
        PROVE  OwnWork(r)'
    BY <1>2 DEF OwnWork, CountInv, GroupOf
  <1>6. QED
    BY <1>3, <1>4, <1>5 DEF CountInv

LEMMA CountInit == Init => CountInv
  <1> SUFFICES ASSUME Init PROVE CountInv
    OBVIOUS
  <1>1. IInv
    BY InvInit
  <1>2. ASSUME NEW r \in Runs
        PROVE  Unheard(r) /\ OwnWork(r) /\ Backed(r)
    <2>1. run[r] = FreshRun /\ result[r] = FreshResult
      BY DEF Init
    <2>2. run[r].base = {} /\ run[r].head = {} /\ run[r].pc = "idle"
      BY <2>1 DEF FreshRun
    <2>3. \A b \in Branches : \A c \in tip[b] : c.run = NoRun
      BY DEF Init, OldCommit
    <2>4. \A q \in Runs : run[q].base = {} /\ run[q].head = {}
      BY DEF Init, FreshRun
    <2>5. Unheard(r)
      BY <2>3, <2>4, EnvironmentAssumption DEF Unheard, CommitsBy
    <2>6. OwnWork(r)
      BY <2>2 DEF OwnWork, CommitsBy, Building
    <2>7. \A b \in Branches : result[r].opened[b] = 0
      BY <2>1 DEF FreshResult
    <2>8. Backed(r)
      BY <2>7 DEF Backed
    <2>9. QED
      BY <2>5, <2>6, <2>8
  <1>3. QED
    BY <1>1, <1>2 DEF CountInv

LEMMA CountNext == CountInv /\ [Next]_vars => CountInv'
  <1> SUFFICES ASSUME CountInv, [Next]_vars PROVE CountInv'
    OBVIOUS
  <1>1. IInv'
    BY InvStep DEF CountInv
  <1>2. ASSUME NEW r \in Runs, RunStep(r) \/ Cancel(r)
        PROVE  CountInv'
    BY <1>1, <1>2, CountClone, CountNaming, CountCheckout, CountApplyAndCommit,
       CountFinishCommits, CountPush, CountOpenPR, CountCancel DEF RunStep
  <1>3. CASE UNCHANGED vars
    <2>1. \A r \in Runs : (Unheard(r) /\ OwnWork(r) /\ Backed(r))'
      BY <1>3, ZenonT(60) DEF vars, CountInv, Unheard, OwnWork, Backed, GroupOf
    <2>2. QED
      BY <1>1, <2>1 DEF CountInv
  <1>4. QED
    BY <1>1, <1>2, <1>3, CountUserStep DEF Next

LEMMA CountAlways == Spec => []CountInv
  BY CountInit, CountNext, PTL DEF Spec

\* Whatever races, fails or is deleted, a pull request the result lists exists and
\* its finding_count is covered by commits the run pushed to that branch.
THEOREM CountsAreBacked == Spec => []CountsBacked
  <1>1. CountInv => CountsBacked
    BY DEF CountInv, Backed, CountsBacked, CommitsBy
  <1>2. QED
    BY <1>1, CountAlways, PTL

-----------------------------------------------------------------------------
(* Every group is reported. *)

LEMMA PlanFacts ==
  /\ Len(Plan) \in Nat /\ DOMAIN Plan = 1 .. Len(Plan)
  /\ \A i \in DOMAIN Plan : Plan[i] \in Groups
  /\ \A g \in Groups : \E i \in DOMAIN Plan : g = Plan[i]
  /\ \A i, j \in DOMAIN Plan : Plan[i] = Plan[j] => i = j
  BY PlanAssumption, DistinctAssumption DEF Groups

\* A step of run r that leaves the other runs alone.
LEMMA ReportStep ==
  ASSUME ReportInv, CountInv', NEW r \in Runs,
         \A q \in Runs \ {r} : run'[q] = run[q] /\ result'[q] = result[q],
         GroupsTold(r)', OneBranchEach(r)'
  PROVE  ReportInv'
  <1>1. ASSUME NEW q \in Runs \ {r}
        PROVE  (GroupsTold(q) /\ OneBranchEach(q))'
    <2>1. GroupsTold(q) /\ OneBranchEach(q) /\ run'[q] = run[q] /\ result'[q] = result[q]
      BY DEF ReportInv
    <2>2. QED
      BY <2>1 DEF GroupsTold, OneBranchEach, OpenedGroups, CountedBranches, GroupOf
  <1>2. QED
    BY <1>1 DEF ReportInv

\* The counts match as long as the result stays the same.
LEMMA SameResult ==
  ASSUME ReportInv, NEW r \in Runs, result'[r] = result[r]
  PROVE  OneBranchEach(r)'
  BY DEF ReportInv, OneBranchEach, OpenedGroups, CountedBranches

\* The group in hand has not been reported, and those after it neither.
LEMMA InTurn ==
  ASSUME ReportInv, NEW r \in Runs, run[r].pc \notin Ends
  PROVE  /\ run[r].at \in DOMAIN Plan /\ GroupOf(r) = Plan[run[r].at] /\ GroupOf(r) \in Groups
         /\ result[r].outcome[GroupOf(r)] = "pending"
         /\ result[r].outcome \in [Groups -> Outcomes] /\ result[r].opened \in [Branches -> Nat]
  <1>1. run[r].at \in DOMAIN Plan /\ GroupOf(r) = Plan[run[r].at]
    BY PlanFacts DEF ReportInv, CountInv, IInv, TypeOK, RunState, GroupOf
  <1>2. result[r].outcome[GroupOf(r)] = "pending"
    BY <1>1, PlanFacts DEF ReportInv, GroupsTold
  <1>3. QED
    BY <1>1, <1>2, PlanFacts DEF ReportInv, CountInv, IInv, TypeOK, RunResult

\* Leaving the group in hand with an outcome reports it and no other.
LEMMA GroupTold ==
  ASSUME ReportInv, NEW r \in Runs, run[r].pc \in {"select"} \union InHand, MovesOn(r),
         NEW o \in Outcomes \ {"pending"},
         result'[r].outcome = [result[r].outcome EXCEPT ![GroupOf(r)] = o]
  PROVE  GroupsTold(r)'
  <1> DEFINE s == run[r]
             u == run'[r]
  <1>1. /\ s.at \in DOMAIN Plan /\ GroupOf(r) = Plan[s.at] /\ GroupOf(r) \in Groups
        /\ result[r].outcome \in [Groups -> Outcomes]
        /\ \A i \in DOMAIN Plan : result[r].outcome[Plan[i]] = "pending" <=> i >= s.at
    BY InTurn DEF Ends, InHand, Building, ReportInv, GroupsTold
  <1>2. \A i \in DOMAIN Plan : result'[r].outcome[Plan[i]] = "pending" <=> i >= s.at + 1
    <2>1. ASSUME NEW i \in DOMAIN Plan
          PROVE  result'[r].outcome[Plan[i]] = "pending" <=> i >= s.at + 1
      <3>1. CASE i = s.at
        BY <1>1, <3>1, PlanFacts
      <3>2. CASE i # s.at
        <4>1. Plan[i] # GroupOf(r) /\ Plan[i] \in Groups
          BY <1>1, <3>2, PlanFacts
        <4>2. result'[r].outcome[Plan[i]] = result[r].outcome[Plan[i]]
          BY <1>1, <4>1
        <4>3. i >= s.at <=> i >= s.at + 1
          BY <1>1, <3>2, PlanFacts
        <4>4. QED
          BY <1>1, <4>2, <4>3
      <3>3. QED
        BY <3>1, <3>2
    <2>2. QED
      BY <2>1
  <1>3. CASE s.at = Len(Plan) /\ EndedAs(u, "done")
    <2>1. \A g \in Groups : result'[r].outcome[g] # "pending"
      BY <1>2, <1>3, PlanFacts
    <2>2. QED
      BY <1>3, <2>1 DEF GroupsTold, EndedAs, Ends, InHand, Building
  <1>4. CASE NextSelected(s, u)
    BY <1>2, <1>4 DEF GroupsTold, NextSelected, Ends, InHand, Building
  <1>5. QED
    BY <1>3, <1>4 DEF MovesOn

\* A group that is not opened leaves the opened ones and their branches as they are.
LEMMA NotOpened ==
  ASSUME ReportInv, NEW r \in Runs, run[r].pc \notin Ends,
         NEW o \in Outcomes \ {"pending", "opened"},
         result'[r].outcome = [result[r].outcome EXCEPT ![GroupOf(r)] = o],
         result'[r].opened = result[r].opened
  PROVE  OneBranchEach(r)'
  <1>1. OpenedGroups(r)' = OpenedGroups(r)
    BY InTurn DEF OpenedGroups
  <1>2. CountedBranches(r)' = CountedBranches(r)
    BY DEF CountedBranches
  <1>3. QED
    BY <1>1, <1>2 DEF ReportInv, OneBranchEach

LEMMA ReportLeaves ==
  ASSUME ReportInv, CountInv', NEW r \in Runs, NEW o \in {"skipped", "error"}, Leaves(r, o),
         run[r].pc \in {"select"} \union InHand
  PROVE  ReportInv'
  <1>1. o \in Outcomes \ {"pending", "opened"} /\ run[r].pc \notin Ends
    BY DEF Outcomes, Ends, InHand, Building
  <1>2. GroupsTold(r)'
    BY <1>1, GroupTold DEF Leaves, ToldAs
  <1>3. OneBranchEach(r)'
    BY <1>1, NotOpened DEF Leaves, ToldAs
  <1>4. QED
    BY <1>2, <1>3, ReportStep DEF Leaves, ToldAs, MovesOn

\* A step within the run that keeps its group in hand keeps what it has told.
LEMMA ReportInside ==
  ASSUME ReportInv, CountInv', NEW r \in Runs, result' = result,
         \A q \in Runs \ {r} : run'[q] = run[q],
         run[r].pc \notin Ends, run'[r].pc # "done", run'[r].at = run[r].at \/ run'[r].pc \in Ends,
         run'[r].pc \in {"idle", "precheck"} => run[r].pc \in {"idle", "precheck"},
         run'[r].pc \in InHand => run'[r].branch \in CandidateBranches(GroupOf(r)),
         run'[r].pc \in {"push", "open"} => run'[r].committed > 0
  PROVE  ReportInv'
  <1>1. GroupsTold(r)
    BY DEF ReportInv
  <1>2. run'[r].at = run[r].at => GroupOf(r)' = GroupOf(r)
    BY DEF GroupOf
  <1>3. GroupsTold(r)'
    BY <1>1, <1>2 DEF GroupsTold, Ends, InHand, Building
  <1>4. QED
    BY <1>3, SameResult, ReportStep

LEMMA ReportRunStep ==
  ASSUME ReportInv, CountInv', NEW r \in Runs,
         \/ Clone(r) \/ Precheck(r) \/ TryCandidate(r) \/ NoNameLeft(r) \/ Checkout(r)
         \/ ApplyAndCommit(r) \/ FinishCommits(r)
  PROVE  ReportInv'
  <1> DEFINE s == run[r]
             u == run'[r]
             n == CandidateBranch(GroupOf(r), s.cand)
  <1>1. TypeOK /\ s \in RunState /\ GroupsTold(r)
    BY DEF ReportInv, CountInv, IInv, TypeOK
  <1>2. CASE Clone(r)
    <2>1. s.pc = "idle" /\ Inside(r) /\ (Cloned(s, u) \/ EndedAs(u, "failed"))
      BY <1>1, <1>2, CloneEffect
    <2>2. QED
      BY <2>1, ReportInside DEF Inside, Cloned, EndedAs, Ends, InHand, Building
  <1>3. CASE Precheck(r)
    <2>1. s.pc = "precheck" /\ Inside(r) /\ Looked(s, u)
      BY <1>1, <1>3, PrecheckEffect
    <2>2. QED
      BY <2>1, ReportInside DEF Inside, Looked, Ends, InHand, Building
  <1>4. CASE TryCandidate(r)
    <2>1. /\ s.pc = "select" /\ s.cand \in 1 .. MaxSuffix
          /\ \A q \in Runs \ {r} : run'[q] = run[q] /\ result'[q] = result[q]
          /\ \/ result' = result /\ Claimed(r, n)
             \/ result' = result /\ PassedOver(r, n)
             \/ Leaves(r, "skipped")
      BY <1>1, <1>4, TryCandidateEffect
    <2>2. n \in CandidateBranches(GroupOf(r))
      BY <2>1 DEF CandidateBranches
    <2>3. CASE result' = result /\ Claimed(r, n)
      BY <2>1, <2>2, <2>3, ReportInside DEF Claimed, Ends, InHand, Building
    <2>4. CASE result' = result /\ PassedOver(r, n)
      BY <2>1, <2>4, ReportInside DEF PassedOver, Ends, InHand, Building
    <2>5. CASE Leaves(r, "skipped")
      BY <2>1, <2>5, ReportLeaves
    <2>6. QED
      BY <2>1, <2>3, <2>4, <2>5
  <1>5. CASE NoNameLeft(r)
    BY <1>1, <1>5, NoNameLeftEffect, ReportLeaves
  <1>6. CASE Checkout(r)
    <2>1. s.pc = "checkout" /\ s.pc \in InHand
      BY <1>1, <1>6, CheckoutEffect DEF InHand
    <2>2. CASE Inside(r) /\ Started(s, u)
      BY <1>1, <2>1, <2>2, ReportInside DEF GroupsTold, Inside, Started, Ends, InHand, Building
    <2>3. QED
      BY <1>1, <1>6, <2>1, <2>2, CheckoutEffect, ReportLeaves
  <1>7. CASE ApplyAndCommit(r)
    <2>1. s.pc = "fix" /\ Inside(r) /\ Attempted(r, s, u, FindingOf(r))
      BY <1>1, <1>7, ApplyAndCommitEffect
    <2>2. u.pc = "fix" /\ u.at = s.at /\ u.branch = s.branch
      BY <2>1 DEF Attempted
    <2>3. QED
      BY <1>1, <2>1, <2>2, ReportInside DEF GroupsTold, Inside, Ends, InHand, Building
  <1>8. CASE FinishCommits(r)
    <2>1. s.pc = "fix" /\ s.pc \in InHand
      BY <1>1, <1>8, FinishCommitsEffect DEF InHand, Building
    <2>2. CASE Inside(r) /\ s.committed > 0 /\ u = [s EXCEPT !.pc = "push"]
      <3>1. u.pc = "push" /\ u.at = s.at /\ u.branch = s.branch /\ u.committed = s.committed
        BY <1>1, <2>2, NewProgress
      <3>2. QED
        BY <1>1, <2>1, <2>2, <3>1, ReportInside DEF GroupsTold, Inside, Ends, InHand, Building
    <2>3. QED
      BY <1>1, <1>8, <2>1, <2>2, FinishCommitsEffect, ReportLeaves
  <1>9. QED
    BY <1>2, <1>3, <1>4, <1>5, <1>6, <1>7, <1>8

LEMMA ReportPush ==
  ASSUME ReportInv, CountInv', NEW r \in Runs, Push(r)
  PROVE  ReportInv'
  <1> DEFINE s == run[r]
             u == run'[r]
  <1>1. TypeOK /\ s \in RunState /\ GroupsTold(r)
    BY DEF ReportInv, CountInv, IInv, TypeOK
  <1>2. s.pc = "push" /\ s.pc \in InHand
    BY <1>1, PushEffect DEF InHand, Building
  <1>3. CASE UNCHANGED result /\ u = [s EXCEPT !.pc = "open"] /\ \A q \in Runs \ {r} : run'[q] = run[q]
    <2>1. u.pc = "open" /\ u.at = s.at /\ u.branch = s.branch /\ u.committed = s.committed
      BY <1>1, <1>3, NewProgress
    <2>2. QED
      BY <1>1, <1>2, <1>3, <2>1, ReportInside DEF GroupsTold, Ends, InHand, Building
  <1>4. QED
    BY <1>1, <1>2, <1>3, PushEffect, ReportLeaves

\* The branch of an opened pull request is counted for the first time, and so is
\* its group.
LEMMA ReportOpenPR ==
  ASSUME ReportInv, CountInv', NEW r \in Runs, OpenPR(r)
  PROVE  ReportInv'
  <1> DEFINE b == run[r].branch
             g == GroupOf(r)
  <1>1. TypeOK /\ GroupsTold(r) /\ OneBranchEach(r) /\ CountInv
    BY DEF ReportInv, CountInv, IInv
  <1>2. /\ run[r].pc = "open" /\ b \in Branches
        /\ MovesOn(r) /\ \A q \in Runs \ {r} : result'[q] = result[q]
    BY <1>1, OpenPREffect
  <1>3. run[r].pc \in InHand /\ run[r].pc \notin Ends
    BY <1>2 DEF InHand, Building, Ends
  <1>4. CASE /\ result'[r].outcome = [result[r].outcome EXCEPT ![g] = "error"]
             /\ result'[r].opened = result[r].opened
    <2>1. "error" \in Outcomes \ {"pending", "opened"}
      BY DEF Outcomes
    <2>2. QED
      BY <1>2, <1>3, <1>4, <2>1, GroupTold, NotOpened, ReportStep DEF MovesOn
  <1>5. CASE /\ result'[r].outcome = [result[r].outcome EXCEPT ![g] = "opened"]
             /\ result'[r].opened = [result[r].opened EXCEPT ![b] = run[r].committed]
    <2>1. GroupsTold(r)'
      <3>1. "opened" \in Outcomes \ {"pending"}
        BY DEF Outcomes
      <3>2. QED
        BY <1>2, <1>3, <1>5, <3>1, GroupTold
    <2>2. /\ g \in Groups /\ result[r].outcome[g] = "pending"
          /\ result[r].outcome \in [Groups -> Outcomes] /\ result[r].opened \in [Branches -> Nat]
      BY <1>3, InTurn
    <2>3. OpenedGroups(r)' = OpenedGroups(r) \union {g} /\ g \notin OpenedGroups(r)
      BY <1>5, <2>2 DEF OpenedGroups
    <2>4. run[r].committed > 0 /\ b \in CandidateBranches(g)
      BY <1>1, <1>2, <1>3 DEF GroupsTold
    <2>5. CountedBranches(r)' = CountedBranches(r) \union {b} /\ b \notin CountedBranches(r)
      BY <1>1, <1>2, <1>3, <1>5, <2>2, <2>4, NotYetListed DEF CountedBranches
    <2>6. /\ IsFiniteSet(OpenedGroups(r) \union {g})
          /\ Cardinality(OpenedGroups(r) \union {g}) = Cardinality(OpenedGroups(r)) + 1
          /\ IsFiniteSet(CountedBranches(r) \union {b})
          /\ Cardinality(CountedBranches(r) \union {b}) = Cardinality(CountedBranches(r)) + 1
      BY <1>1, <2>3, <2>5, FS_AddElement DEF OneBranchEach
    <2>7. \A h \in OpenedGroups(r)' : CandidateBranches(h) \intersect CountedBranches(r)' # {}
      BY <1>1, <2>3, <2>4, <2>5 DEF OneBranchEach
    <2>8. OneBranchEach(r)'
      BY <1>1, <2>3, <2>5, <2>6, <2>7 DEF OneBranchEach, CandidateBranches
    <2>9. QED
      BY <1>2, <2>1, <2>8, ReportStep DEF MovesOn
  <1>6. QED
    BY <1>1, <1>4, <1>5, OpenPREffect

LEMMA ReportCancel ==
  ASSUME ReportInv, CountInv', NEW r \in Runs, Cancel(r)
  PROVE  ReportInv'
  <1>1. TypeOK
    BY DEF ReportInv, CountInv, IInv
  <1>2. /\ run[r].pc \notin Ends /\ UNCHANGED result
        /\ EndedAs(run'[r], "cancelled") /\ \A q \in Runs \ {r} : run'[q] = run[q]
    BY <1>1, CancelEffect
  <1>3. QED
    BY <1>2, ReportInside DEF EndedAs, Ends, InHand, Building

LEMMA ReportInit == Init => ReportInv
  <1> SUFFICES ASSUME Init PROVE ReportInv
    OBVIOUS
  <1>1. CountInv
    BY CountInit
  <1>2. ASSUME NEW r \in Runs
        PROVE  GroupsTold(r) /\ OneBranchEach(r)
    <2>1. run[r] = FreshRun /\ result[r] = FreshResult
      BY DEF Init
    <2>2. run[r].pc = "idle" /\ run[r].at = 1
      BY <2>1 DEF FreshRun
    <2>3. /\ \A g \in Groups : result[r].outcome[g] = "pending"
          /\ \A b \in Branches : result[r].opened[b] = 0
      BY <2>1 DEF FreshResult
    <2>4. GroupsTold(r)
      BY <2>2, <2>3, PlanFacts DEF GroupsTold, Ends, InHand, Building
    <2>5. OpenedGroups(r) = {} /\ CountedBranches(r) = {}
      BY <2>3 DEF OpenedGroups, CountedBranches
    <2>6. OneBranchEach(r)
      BY <2>5, FS_EmptySet DEF OneBranchEach
    <2>7. QED
      BY <2>4, <2>6
  <1>3. QED
    BY <1>1, <1>2 DEF ReportInv

LEMMA ReportNext == ReportInv /\ [Next]_vars => ReportInv'
  <1> SUFFICES ASSUME ReportInv, [Next]_vars PROVE ReportInv'
    OBVIOUS
  <1>1. CountInv'
    BY CountNext DEF ReportInv
  <1>2. ASSUME NEW r \in Runs, RunStep(r) \/ Cancel(r)
        PROVE  ReportInv'
    BY <1>1, <1>2, ReportRunStep, ReportPush, ReportOpenPR, ReportCancel DEF RunStep
  <1>3. CASE UserStep \/ UNCHANGED vars
    <2>1. UNCHANGED <<run, result>>
      BY <1>3, UserStepEffect DEF vars, ReportInv, CountInv, IInv
    <2>2. \A r \in Runs : (GroupsTold(r) /\ OneBranchEach(r))'
      BY <2>1, ZenonT(60) DEF ReportInv, GroupsTold, OneBranchEach, OpenedGroups, CountedBranches, GroupOf
    <2>3. QED
      BY <1>1, <2>2 DEF ReportInv
  <1>4. QED
    BY <1>2, <1>3 DEF Next

\* "nothing is EVER dropped": whatever fails, a run that is done has reported every
\* group of its plan, with one counted pull request for each it calls opened.
THEOREM EveryGroupIsReported == Spec => []EveryGroupReported
  <1>1. ReportInv => EveryGroupReported
    <2>1. ASSUME ReportInv, NEW r \in Runs, run[r].pc = "done"
          PROVE  /\ Cardinality(OpenedGroups(r)) = Cardinality(CountedBranches(r))
                 /\ \A g \in Groups :
                      /\ result[r].outcome[g] # "pending"
                      /\ result[r].outcome[g] = "opened" =>
                           \E b \in CandidateBranches(g) : result[r].opened[b] > 0
      BY <2>1 DEF ReportInv, GroupsTold, OneBranchEach, OpenedGroups, CountedBranches
    <2>2. QED
      BY <2>1 DEF EveryGroupReported, OpenedGroups, CountedBranches
  <1>2. QED
    BY <1>1, ReportInit, ReportNext, PTL DEF Spec

-----------------------------------------------------------------------------
(* One fix per commit. *)

\* A run makes commits only where it commits fixes; every other step of a run
\* moves commits that were there.
LEMMA NewCommits ==
  ASSUME TypeOK, NEW r \in Runs, RunStep(r) \/ Cancel(r)
  PROVE  \/ ApplyAndCommit(r)
         \/ /\ \A c : Seen(c)' => Seen(c)
            /\ \A q \in Runs \ {r} : run'[q] = run[q]
            /\ run'[r].pc = "fix" => run'[r].dirty = {} /\ run'[r].staged = {}
  <1> DEFINE s == run[r]
             u == run'[r]
             n == CandidateBranch(GroupOf(r), s.cand)
             OldTips == \A c : (\E b \in Branches : c \in tip'[b]) => Seen(c)
             Others == \A q \in Runs \ {r} : run'[q] = run[q]
             OldClone == \A c \in u.base \union u.head : Seen(c)
             Kept == /\ \A c : Seen(c)' => Seen(c)
                     /\ Others
                     /\ u.pc = "fix" => u.dirty = {} /\ u.staged = {}
  <1>1. s \in RunState /\ Base \in Branches
    BY DEF TypeOK, Branches
  <1>2. ASSUME OldTips, OldClone, Others, u.pc # "fix" \/ (u.dirty = {} /\ u.staged = {})
        PROVE  Kept
    BY <1>2 DEF Seen
  <1>3. ASSUME u.base \subseteq s.base \union tip[Base],
               u.head \subseteq s.base \union s.head
        PROVE  OldClone
    BY <1>1, <1>3 DEF Seen
  <1>4. UNCHANGED tip => OldTips
    BY DEF Seen
  <1>5. ASSUME MovesOn(r) \/ EndedAs(u, "cancelled"), UNCHANGED tip \/ Reaches(r), Others
        PROVE  Kept
    <2>1. OldTips
      BY <1>4, <1>5, ReachesSeen
    <2>2. OldClone /\ u.pc # "fix"
      BY <1>3, <1>5 DEF MovesOn, EndedAs, NextSelected
    <2>3. QED
      BY <1>2, <1>5, <2>1, <2>2
  <1>6. ASSUME NEW o, Leaves(r, o), UNCHANGED tip \/ Reaches(r)
        PROVE  Kept
    BY <1>5, <1>6 DEF Leaves, MovesOn
  <1>7. CASE Clone(r)
    BY <1>2, <1>3, <1>4, <1>7, CloneEffect DEF Inside, Cloned, EndedAs
  <1>8. CASE Precheck(r)
    BY <1>2, <1>3, <1>4, <1>8, PrecheckEffect DEF Inside, Looked
  <1>9. CASE TryCandidate(r)
    <2>1. /\ UNCHANGED tip /\ Others
          /\ Claimed(r, n) \/ PassedOver(r, n) \/ Leaves(r, "skipped")
      BY <1>9, TryCandidateEffect
    <2>2. CASE Claimed(r, n) \/ PassedOver(r, n)
      BY <1>2, <1>3, <1>4, <2>1, <2>2 DEF Claimed, PassedOver
    <2>3. QED
      BY <1>6, <2>1, <2>2
  <1>10. CASE NoNameLeft(r)
    BY <1>6, <1>10, NoNameLeftEffect
  <1>11. CASE Checkout(r)
    <2>1. CASE Inside(r) /\ Started(s, u)
      BY <1>2, <1>3, <1>4, <2>1 DEF Inside, Started
    <2>2. QED
      BY <1>6, <1>11, <2>1, CheckoutEffect
  <1>12. CASE FinishCommits(r)
    <2>1. CASE Inside(r) /\ u = [s EXCEPT !.pc = "push"]
      <3>1. u.pc = "push" /\ u.base = s.base /\ u.head = s.head
        BY <1>1, <2>1, NewProgress
      <3>2. QED
        BY <1>2, <1>3, <1>4, <2>1, <3>1 DEF Inside
    <2>2. QED
      BY <1>6, <1>12, <2>1, FinishCommitsEffect
  <1>13. CASE Push(r)
    <2>1. CASE Reaches(r) /\ u = [s EXCEPT !.pc = "open"] /\ Others
      <3>1. u.pc = "open" /\ u.base = s.base /\ u.head = s.head
        BY <1>1, <2>1, NewProgress
      <3>2. QED
        BY <1>2, <1>3, <2>1, <3>1, ReachesSeen
    <2>2. QED
      BY <1>6, <1>13, <2>1, PushEffect
  <1>14. CASE OpenPR(r)
    BY <1>5, <1>14, OpenPREffect DEF MovesOn
  <1>15. CASE Cancel(r)
    BY <1>5, <1>15, CancelEffect
  <1>16. QED
    BY <1>7, <1>8, <1>9, <1>10, <1>11, <1>12, <1>13, <1>14, <1>15 DEF RunStep

LEMMA CleanSeen ==
  ASSUME CleanInv, NEW c, Seen(c), c.kind = "fix"
  PROVE  c.edits = {c.fix}
  BY DEF CleanInv, Seen, Pure

\* Steps that make only commits of one fix, in clean clones, keep it so.
LEMMA CleanStep ==
  ASSUME TypeOK',
         \A c : Seen(c)' /\ c.kind = "fix" => c.edits = {c.fix},
         \A r \in Runs : run'[r].pc = "fix" => run'[r].dirty = {} /\ run'[r].staged = {}
  PROVE  CleanInv'
  BY DEF CleanInv, Seen, Pure

LEMMA CleanNext ==
  ASSUME "reset" \notin Faults, CleanInv, [Next]_vars
  PROVE  CleanInv'
  <1>1. TypeOK /\ TypeOK'
    BY TypeStep DEF CleanInv
  <1>2. \A r \in Runs : run[r].pc = "fix" => run[r].dirty = {} /\ run[r].staged = {}
    BY DEF CleanInv
  <1>3. ASSUME NEW r \in Runs, ApplyAndCommit(r)
        PROVE  CleanInv'
    <2>1. run[r].pc = "fix" /\ Inside(r) /\ Attempted(r, run[r], run'[r], FindingOf(r))
      BY <1>1, <1>3, ApplyAndCommitEffect
    <2>2. /\ run'[r].dirty = {} /\ run'[r].staged = {}
          /\ \A c \in run'[r].head : c \in run[r].head \/ c.edits = {c.fix}
          /\ run'[r].base = run[r].base
      BY <1>2, <2>1 DEF Attempted
    <2>3. \A c : Seen(c)' => Seen(c) \/ c.edits = {c.fix}
      BY <2>1, <2>2 DEF Seen, Inside
    <2>4. QED
      BY <1>1, <1>2, <2>1, <2>2, <2>3, CleanSeen, CleanStep DEF Inside
  <1>4. ASSUME NEW r \in Runs, RunStep(r) \/ Cancel(r), ~ApplyAndCommit(r)
        PROVE  CleanInv'
    BY <1>1, <1>2, <1>4, NewCommits, CleanSeen, CleanStep
  <1>5. CASE UserStep
    <2>1. \A c : Seen(c)' => Seen(c) \/ \E q \in Runs, e \in Branches : c = MergeCommit(q, e)
      BY <1>1, <1>5, UserStepEffect DEF Seen
    <2>2. \A q \in Runs, e \in Branches : MergeCommit(q, e).kind = "merge"
      BY DEF MergeCommit
    <2>3. UNCHANGED run
      BY <1>1, <1>5, UserStepEffect
    <2>4. QED
      BY <1>1, <1>2, <2>1, <2>2, <2>3, CleanSeen, CleanStep
  <1>6. CASE UNCHANGED vars
    BY <1>6 DEF vars, CleanInv, TypeOK
  <1>7. QED
    BY <1>3, <1>4, <1>5, <1>6 DEF Next

LEMMA CleanInit == Init => CleanInv
  <1> SUFFICES ASSUME Init PROVE CleanInv
    OBVIOUS
  <1>1. TypeOK
    BY TypeInit
  <1>2. \A r \in Runs : run[r].pc = "idle" /\ run[r].base = {} /\ run[r].head = {}
    BY DEF Init, FreshRun
  <1>3. \A b \in Branches : \A c \in tip[b] : c.kind # "fix"
    BY DEF Init, OldCommit
  <1>4. QED
    BY <1>1, <1>2, <1>3 DEF CleanInv, Pure

\* As long as `git reset --hard` works, no fix commit of any run ever holds the
\* edit of another finding.
THEOREM EachCommitOneFix ==
  ASSUME "reset" \notin Faults
  PROVE  Spec => []OneFixPerCommit
  <1>1. CleanInv /\ [Next]_vars => CleanInv'
    BY CleanNext
  <1>2. CleanInv => OneFixPerCommit
    BY DEF CleanInv, OneFixPerCommit, Pure
  <1>3. QED
    BY <1>1, <1>2, CleanInit, PTL DEF Spec

-----------------------------------------------------------------------------
(* Orphaned branches. *)

\* A step of run r that leaves the other runs' results, pushes and pull requests.
LEMMA OrphanStep ==
  ASSUME OrphanInv, IInv', NEW r \in Runs,
         \A q \in Runs \ {r} : /\ run'[q] = run[q] /\ result'[q] = result[q]
                               /\ pr'[q] = pr[q] /\ pushed'[q] = pushed[q],
         OrphansKnown(r)'
  PROVE  OrphanInv'
  <1>1. ASSUME NEW q \in Runs \ {r}
        PROVE  OrphansKnown(q)'
    <2>1. /\ OrphansKnown(q) /\ run'[q] = run[q] /\ result'[q] = result[q]
          /\ pr'[q] = pr[q] /\ pushed'[q] = pushed[q]
      BY DEF OrphanInv
    <2>2. QED
      BY <2>1 DEF OrphansKnown
  <1>2. QED
    BY <1>1 DEF OrphanInv

\* A step after which what is let go of stays so, that orphans and proposes nothing,
\* and pushes nothing that it does not have in hand for a pull request.
LEMMA OrphansStay ==
  ASSUME OrphanInv, IInv', NEW r \in Runs,
         \A q \in Runs \ {r} : /\ run'[q] = run[q] /\ result'[q] = result[q]
                               /\ pr'[q] = pr[q] /\ pushed'[q] = pushed[q],
         result'[r].orphaned = result[r].orphaned, pr'[r] = pr[r],
         \A b \in Branches : LetGo(run[r], b) => LetGo(run'[r], b),
         run[r].pc \notin {"open", "failed", "cancelled"},
         \A b \in Branches : pushed'[r][b] = pushed[r][b]
                             \/ (run'[r].pc = "open" /\ b = run'[r].branch)
                             \/ "push_late" \in Faults
  PROVE  OrphanInv'
  <1>1. OrphansKnown(r) /\ result[r].orphaned \subseteq Branches
    BY DEF OrphanInv, IInv, TypeOK, RunResult
  <1>2. OrphansKnown(r)'
    BY <1>1 DEF OrphansKnown
  <1>3. QED
    BY <1>2, OrphanStep

\* What is let go of stays so when the run moves on.
LEMMA MovesOnLetGo ==
  ASSUME NEW r \in Runs, MovesOn(r) \/ EndedAs(run'[r], "cancelled"), NEW b
  PROVE  LetGo(run[r], b) /\ run[r].pc \in {"select"} \union InHand => LetGo(run'[r], b)
  BY DEF MovesOn, EndedAs, NextSelected, LetGo, InHand, Building

LEMMA OrphanLeaves ==
  ASSUME OrphanInv, IInv', NEW r \in Runs, NEW o, Leaves(r, o), UNCHANGED <<pr, pushed>>,
         run[r].pc \in {"select", "checkout", "fix", "push"}
  PROVE  OrphanInv'
  <1>1. \A b \in Branches : LetGo(run[r], b) => LetGo(run'[r], b)
    BY MovesOnLetGo DEF Leaves, InHand, Building
  <1>2. QED
    BY <1>1, OrphansStay DEF Leaves, MovesOn, ToldAs

LEMMA OrphanRunStep ==
  ASSUME OrphanInv, IInv', NEW r \in Runs,
         \/ Clone(r) \/ Precheck(r) \/ TryCandidate(r) \/ NoNameLeft(r) \/ Checkout(r)
         \/ ApplyAndCommit(r) \/ FinishCommits(r)
  PROVE  OrphanInv'
  <1> DEFINE s == run[r]
             u == run'[r]
             n == CandidateBranch(GroupOf(r), s.cand)
  <1>1. TypeOK /\ s \in RunState
    BY DEF OrphanInv, IInv, TypeOK
  <1>2. ASSUME Inside(r), \A b \in Branches : LetGo(s, b) => LetGo(u, b),
               s.pc \notin {"open", "failed", "cancelled"}
        PROVE  OrphanInv'
    BY <1>2, OrphansStay DEF Inside
  <1>3. ASSUME u.pc \in InHand, s.pc \in InHand, u.taken = s.taken, u.branch = s.branch
        PROVE  \A b \in Branches : LetGo(s, b) => LetGo(u, b)
    BY <1>3 DEF LetGo, InHand, Building
  <1>4. CASE Clone(r)
    BY <1>1, <1>2, <1>4, CloneEffect DEF LetGo
  <1>5. CASE Precheck(r)
    BY <1>1, <1>2, <1>5, PrecheckEffect DEF LetGo
  <1>6. CASE TryCandidate(r)
    <2>1. /\ s.pc = "select" /\ UNCHANGED <<refs, tip, pr, pushed>>
          /\ \A q \in Runs \ {r} : run'[q] = run[q] /\ result'[q] = result[q]
          /\ \/ result' = result /\ Claimed(r, n)
             \/ result' = result /\ PassedOver(r, n)
             \/ Leaves(r, "skipped")
      BY <1>1, <1>6, TryCandidateEffect
    <2>2. CASE result' = result /\ Claimed(r, n)
      BY <1>2, <2>1, <2>2 DEF Claimed, LetGo, InHand, Building, Inside
    <2>3. CASE result' = result /\ PassedOver(r, n)
      BY <1>2, <2>1, <2>3 DEF PassedOver, LetGo, InHand, Building, Inside
    <2>4. CASE Leaves(r, "skipped")
      BY <2>1, <2>4, OrphanLeaves
    <2>5. QED
      BY <2>1, <2>2, <2>3, <2>4
  <1>7. CASE NoNameLeft(r)
    BY <1>1, <1>7, NoNameLeftEffect, OrphanLeaves
  <1>8. CASE Checkout(r)
    <2>1. s.pc = "checkout"
      BY <1>1, <1>8, CheckoutEffect
    <2>2. CASE Inside(r) /\ Started(s, u)
      BY <1>2, <1>3, <2>1, <2>2 DEF Started, InHand, Building
    <2>3. QED
      BY <1>1, <1>8, <2>1, <2>2, CheckoutEffect, OrphanLeaves
  <1>9. CASE ApplyAndCommit(r)
    <2>1. s.pc = "fix" /\ Inside(r) /\ Attempted(r, s, u, FindingOf(r))
      BY <1>1, <1>9, ApplyAndCommitEffect
    <2>2. QED
      BY <1>2, <1>3, <2>1 DEF Attempted, InHand, Building
  <1>10. CASE FinishCommits(r)
    <2>1. s.pc = "fix"
      BY <1>1, <1>10, FinishCommitsEffect
    <2>2. CASE Inside(r) /\ u = [s EXCEPT !.pc = "push"]
      <3>1. u.pc = "push" /\ u.taken = s.taken /\ u.branch = s.branch
        BY <1>1, <2>2, NewProgress
      <3>2. QED
        BY <1>2, <1>3, <2>1, <2>2, <3>1 DEF InHand, Building
    <2>3. QED
      BY <1>1, <1>10, <2>1, <2>2, FinishCommitsEffect, OrphanLeaves
  <1>11. QED
    BY <1>4, <1>5, <1>6, <1>7, <1>8, <1>9, <1>10

LEMMA OrphanPush ==
  ASSUME OrphanInv, IInv', NEW r \in Runs, Push(r)
  PROVE  OrphanInv'
  <1> DEFINE s == run[r]
             u == run'[r]
  <1>1. TypeOK /\ s \in RunState
    BY DEF OrphanInv, IInv, TypeOK
  <1>2. s.pc = "push" /\ UNCHANGED pr
    BY <1>1, PushEffect
  <1>3. CASE /\ Reaches(r) /\ UNCHANGED result /\ u = [s EXCEPT !.pc = "open"]
             /\ \A q \in Runs \ {r} : run'[q] = run[q]
    <2>1. u.pc = "open" /\ u.taken = s.taken /\ u.branch = s.branch
      BY <1>1, <1>3, NewProgress
    <2>2. \A b \in Branches : LetGo(s, b) => LetGo(u, b)
      BY <1>2, <2>1 DEF LetGo, InHand, Building
    <2>3. QED
      BY <1>2, <1>3, <2>1, <2>2, OrphansStay DEF Reaches
  <1>4. CASE UNCHANGED <<refs, tip, pushed>> /\ Leaves(r, "error")
    BY <1>2, <1>4, OrphanLeaves
  <1>5. CASE "push_late" \in Faults /\ Reaches(r) /\ Leaves(r, "error")
    <2>1. \A b \in Branches : LetGo(s, b) => LetGo(u, b)
      BY <1>2, <1>5, MovesOnLetGo DEF Leaves, InHand, Building
    <2>2. QED
      BY <1>2, <1>5, <2>1, OrphansStay DEF Reaches, Leaves, MovesOn, ToldAs
  <1>6. QED
    BY <1>1, <1>3, <1>4, <1>5, PushEffect

\* The branch in hand is proposed, or orphaned.
LEMMA OrphanOpenPR ==
  ASSUME OrphanInv, IInv', NEW r \in Runs, OpenPR(r)
  PROVE  OrphanInv'
  <1> DEFINE s == run[r]
             u == run'[r]
             b == s.branch
  <1>1. TypeOK /\ OrphansKnown(r) /\ RunInv(s, pr[r], tip[Base])
    BY DEF OrphanInv, IInv
  <1>2. /\ s.pc = "open" /\ b \in Branches /\ UNCHANGED <<refs, tip, pushed>>
        /\ MovesOn(r) /\ \A q \in Runs \ {r} : result'[q] = result[q]
        /\ \/ Proposes(r) /\ result'[r].orphaned = result[r].orphaned
           \/ /\ UNCHANGED pr \/ ("pr_late" \in Faults /\ Proposes(r))
              /\ result'[r].orphaned = result[r].orphaned \union {b}
    BY <1>1, OpenPREffect
  <1>3. b \in s.taken /\ pr[r][b] = "none"
    BY <1>1, <1>2 DEF RunInv, BranchInHand, ProposedOnce, Building
  <1>4. \A d \in result[r].orphaned \union {b} : LetGo(u, d)
    <2>1. \A d \in result[r].orphaned : LetGo(s, d)
      BY <1>1 DEF OrphansKnown
    <2>2. \A d \in result[r].orphaned \union {b} : d \in s.taken
      BY <1>2, <1>3, <2>1 DEF LetGo, InHand, Building
    <2>3. QED
      BY <1>2, <2>2 DEF MovesOn, EndedAs, NextSelected, LetGo, InHand, Building
  <1>5. \A d \in result[r].orphaned : d # b
    BY <1>1, <1>2 DEF OrphansKnown, LetGo, InHand, Building
  <1>6. result[r].orphaned \subseteq Branches
    BY <1>1 DEF TypeOK, RunResult
  <1>7. \A d \in Branches \ {b} : pr'[r][d] = pr[r][d]
    BY <1>2 DEF Proposes
  <1>8. "pr_late" \notin Faults => \A d \in result'[r].orphaned : pr'[r][d] = "none"
    BY <1>1, <1>2, <1>3, <1>5, <1>6, <1>7 DEF OrphansKnown
  <1>9. "push_late" \notin Faults =>
          \A d \in Branches : pushed'[r][d] # {} /\ pr'[r][d] = "none" => d \in result'[r].orphaned
    <2>1. pr'[r][b] = "none" => b \in result'[r].orphaned
      BY <1>2 DEF Proposes
    <2>2. QED
      BY <1>1, <1>2, <1>7, <2>1 DEF OrphansKnown
  <1>10. OrphansKnown(r)'
    BY <1>2, <1>4, <1>8, <1>9 DEF OrphansKnown
  <1>11. QED
    BY <1>2, <1>10, OrphanStep DEF MovesOn, Proposes

LEMMA OrphanCancel ==
  ASSUME OrphanInv, IInv', NEW r \in Runs, Cancel(r)
  PROVE  OrphanInv'
  <1> DEFINE s == run[r]
             u == run'[r]
  <1>1. TypeOK /\ OrphansKnown(r) /\ result[r].orphaned \subseteq Branches
    BY DEF OrphanInv, IInv, TypeOK, RunResult
  <1>2. /\ s.pc \notin {"idle"} \union Ends /\ UNCHANGED result /\ EndedAs(u, "cancelled")
        /\ \A q \in Runs \ {r} : run'[q] = run[q]
        /\ \/ UNCHANGED <<refs, tip, pr, pushed>>
           \/ s.pc = "push" /\ Reaches(r) /\ UNCHANGED pr
           \/ s.pc = "open" /\ Proposes(r) /\ UNCHANGED <<refs, tip, pushed>>
    BY <1>1, CancelEffect
  <1>3. \A b \in result[r].orphaned : pr'[r][b] = pr[r][b]
    BY <1>1, <1>2 DEF Proposes, OrphansKnown, LetGo, InHand, Building
  <1>4. OrphansKnown(r)'
    BY <1>1, <1>2, <1>3 DEF OrphansKnown, EndedAs, LetGo, InHand, Building
  <1>5. \A q \in Runs \ {r} : pr'[q] = pr[q] /\ pushed'[q] = pushed[q]
    BY <1>2 DEF Proposes, Reaches
  <1>6. QED
    BY <1>2, <1>4, <1>5, OrphanStep

LEMMA OrphanNext == OrphanInv /\ [Next]_vars => OrphanInv'
  <1> SUFFICES ASSUME OrphanInv, [Next]_vars PROVE OrphanInv'
    OBVIOUS
  <1>1. IInv' /\ TypeOK
    BY InvStep DEF OrphanInv, IInv
  <1>2. ASSUME NEW r \in Runs, RunStep(r) \/ Cancel(r)
        PROVE  OrphanInv'
    BY <1>1, <1>2, OrphanRunStep, OrphanPush, OrphanOpenPR, OrphanCancel DEF RunStep
  <1>3. CASE UserStep \/ UNCHANGED vars
    <2>1. /\ UNCHANGED <<run, result, pushed>>
          /\ \A r \in Runs, b \in Branches : pr'[r][b] = "none" <=> pr[r][b] = "none"
      BY <1>1, <1>3, UserStepEffect DEF vars
    <2>2. \A r \in Runs : OrphansKnown(r) /\ result[r].orphaned \subseteq Branches
      BY DEF OrphanInv, IInv, TypeOK, RunResult
    <2>3. \A r \in Runs : OrphansKnown(r)'
      BY <2>1, <2>2 DEF OrphansKnown
    <2>4. QED
      BY <1>1, <2>3 DEF OrphanInv
  <1>4. QED
    BY <1>2, <1>3 DEF Next

LEMMA OrphanInit == Init => OrphanInv
  <1> SUFFICES ASSUME Init PROVE OrphanInv
    OBVIOUS
  <1>1. IInv
    BY InvInit
  <1>2. \A r \in Runs : result[r].orphaned = {} /\ \A b \in Branches : pushed[r][b] = {}
    BY DEF Init, FreshResult
  <1>3. QED
    BY <1>1, <1>2 DEF OrphanInv, OrphansKnown

\* Unless the answer to a push or to a pull request comes too late, a run that is
\* done names the branches it left without a pull request and no others.
THEOREM OrphansAreTold ==
  ASSUME "push_late" \notin Faults, "pr_late" \notin Faults
  PROVE  Spec => []OrphansTold
  <1>1. OrphanInv => OrphansTold
    <2>1. ASSUME OrphanInv, NEW r \in Runs, run[r].pc = "done", NEW b \in Branches,
                 pushed[r][b] # {}, pr[r][b] = "none"
          PROVE  b \in result[r].orphaned
      BY <2>1 DEF OrphanInv, OrphansKnown
    <2>2. ASSUME OrphanInv, NEW r \in Runs, NEW b \in result[r].orphaned
          PROVE  pr[r][b] = "none"
      BY <2>2 DEF OrphanInv, OrphansKnown
    <2>3. QED
      BY <2>1, <2>2 DEF OrphansTold, OrphansReported, OrphansHaveNoPR
  <1>2. QED
    BY <1>1, OrphanInit, OrphanNext, PTL DEF Spec

-----------------------------------------------------------------------------
(* The names runs choose: no branch on the remote is built upon, also when runs race, *)
(* and no group is proposed twice when they take turns.  The inductive invariants.    *)

\* A commit is on the remote, or in a clone beside what run q has built.
Abroad(q, c) ==
  \/ \E b \in Branches : c \in tip[b]
  \/ \E p \in Runs : c \in run[p].base
  \/ \E p \in Runs \ {q} : c \in run[p].head
MadeOn(q, b, c) == c.kind = "fix" /\ c.run = q /\ c.on = b

\* What a run has fixed on a branch nobody has before it pushes the branch.
FixesPrivate(q) ==
  \A b \in Branches : pushed[q][b] = {} => \A c : Abroad(q, c) => ~MadeOn(q, b, c)

\* HEAD of a clone adds to the base only what the run fixed on the branch in hand.
HeadOwn(q) ==
  \A c \in run[q].head :
    c \in run[q].base \/ (run[q].pc \in Building /\ MadeOn(q, run[q].branch, c))

\* What a run has pushed is taken, and it does not build the same branch again.
PushedTaken(q) ==
  LET s == run[q] IN
  \A b \in Branches : pushed[q][b] # {} =>
    /\ s.pc \notin {"idle", "precheck"}
    /\ s.pc \in {"select"} \union InHand => b \in s.taken
    /\ s.pc \in {"checkout", "fix", "push"} => b # s.branch

\* A branch that was not there when the run looked holds a fix of another run that
\* the clone cannot have.
Overtaken(q) ==
  LET s == run[q] IN
  /\ s.pc \in InHand => s.branch \notin s.existing
  /\ s.pc \in {"select"} \union InHand =>
       \A g \in Groups : \A b \in CandidateBranches(g) \ {Base} :
         b \in refs \ s.existing /\ pushed[q][b] = {} =>
           \E c \in tip[b] : c.run # q /\ c \notin s.base

\* Runs may be under way at once: what each relies on, whatever the others do.
RaceInv ==
  /\ ReportInv
  /\ \A q \in Runs : FixesPrivate(q) /\ HeadOwn(q) /\ PushedTaken(q) /\ Overtaken(q)

\* Where runs take turns, the one in progress knows which of its names exist, and
\* the branch it builds does not.
Working(q) == run[q].pc \notin {"idle"} \union Ends
Known(r) ==
  LET s == run[r] IN
  /\ s.pc \in {"select"} \union InHand =>
       \A g \in Groups : CandidateBranches(g) \intersect refs \subseteq s.existing \union s.taken
  /\ s.pc \in {"checkout", "fix", "push"} => s.branch \notin refs

TurnInv ==
  /\ IInv
  /\ \A q, r \in Runs : Working(q) /\ Working(r) => q = r
  /\ \A r \in Runs : Known(r)

\* Where names are never shared and branches never deleted, an open pull request
\* on a candidate name has all the earlier candidates of its group on the remote.
NamesApart ==
  \A g, h \in Groups : \A j, k \in 1 .. MaxSuffix :
    CandidateBranch(g, j) = CandidateBranch(h, k) => g = h /\ j = k

FilledUpTo(g, k) == \A i \in 1 .. k : CandidateBranch(g, i) \in refs
OpenFilled ==
  \A g \in Groups : \A k \in 1 .. MaxSuffix :
    HasOpenPR(CandidateBranch(g, k)) => FilledUpTo(g, k)

\* The run has passed only names on the remote without an open pull request, and the
\* branch it builds is the first that was free.
Passed(r) ==
  LET s == run[r]
      g == GroupOf(r)
  IN
  /\ s.pc \in {"idle", "precheck"} => s.at = 1 /\ s.cand = 1 /\ s.taken = {}
  /\ s.pc \in {"select"} \union InHand => s.existing \subseteq refs
  /\ s.pc = "select" => /\ FilledUpTo(g, s.cand - 1)
                        /\ \A i \in 1 .. s.cand - 1 : ~HasOpenPR(CandidateBranch(g, i))
  /\ s.pc \in InHand => /\ s.cand <= MaxSuffix /\ s.branch = CandidateBranch(g, s.cand)
                        /\ FilledUpTo(g, s.cand - 1)
                        /\ \A i \in 1 .. MaxSuffix : ~HasOpenPR(CandidateBranch(g, i))
  /\ s.pc \notin Ends =>
       \A i \in s.at + 1 .. Len(Plan) : CandidateBranches(Plan[i]) \intersect s.taken = {}
  /\ s.pc \in {"select", "precheck"} => CandidateBranches(g) \intersect s.taken = {}

SingleInv ==
  /\ TurnInv
  /\ OpenFilled
  /\ \A r \in Runs : Passed(r)
  /\ NoDuplicatePR

-----------------------------------------------------------------------------
(* Races.  A push that would move a branch somebody else made is refused, since *)
(* the clone cannot have the fixes on it.                                       *)

LEMMA CandidatesNamed ==
  \A g \in Groups : CandidateBranches(g) \subseteq Branches
  BY CandidatesAreNames DEF CandidateBranches

LEMMA RaceTypes ==
  ASSUME RaceInv
  PROVE  /\ TypeOK /\ IInv /\ CountInv /\ ReportInv
         /\ \A q \in Runs : run[q] \in RunState /\ run[q].branch \in Branches
  BY DEF RaceInv, ReportInv, CountInv, IInv, TypeOK, RunState

\* A step of run r that shows the others nothing of theirs keeps their part.
LEMMA OthersKept ==
  ASSUME RaceInv, NEW r \in Runs, NEW q \in Runs \ {r}, UNCHANGED <<refs, tip, pushed>>,
         run'[q] = run[q], \A c : Abroad(q, c)' => Abroad(q, c) \/ c.run = r
  PROVE  (FixesPrivate(q) /\ HeadOwn(q) /\ PushedTaken(q) /\ Overtaken(q))'
  <1>1. FixesPrivate(q) /\ HeadOwn(q) /\ PushedTaken(q) /\ Overtaken(q)
    BY DEF RaceInv
  <1>2. FixesPrivate(q)'
    BY <1>1 DEF FixesPrivate, MadeOn
  <1>3. HeadOwn(q)' /\ PushedTaken(q)'
    BY <1>1 DEF HeadOwn, PushedTaken, MadeOn
  <1>4. Overtaken(q)'
    BY <1>1 DEF Overtaken, CandidateBranches, CandidateBranch
  <1>5. QED
    BY <1>2, <1>3, <1>4

\* A step within the clone of run r, or with which it leaves a group.
LEMMA RaceStep ==
  ASSUME RaceInv, ReportInv', NEW r \in Runs, UNCHANGED <<refs, tip, pushed>>,
         \A q \in Runs \ {r} : run'[q] = run[q],
         run'[r].base \subseteq run[r].base \union tip[Base],
         \A c \in run'[r].head : c \in run[r].head \union run[r].base \/ c.run = r,
         HeadOwn(r)', PushedTaken(r)', Overtaken(r)'
  PROVE  RaceInv'
  <1>1. TypeOK /\ TypeOK' /\ Base \in Branches
    BY RaceTypes DEF ReportInv, CountInv, IInv, Branches
  <1>2. ASSUME NEW q \in Runs \ {r}
        PROVE  \A c : Abroad(q, c)' => Abroad(q, c) \/ c.run = r
    <2>1. \A c \in run'[r].base \union run'[r].head : Abroad(q, c) \/ c.run = r
      BY <1>1 DEF Abroad
    <2>2. QED
      BY <2>1 DEF Abroad
  <1>3. FixesPrivate(r)'
    <2>1. \A c : Abroad(r, c)' => Abroad(r, c)
      BY <1>1 DEF Abroad
    <2>2. FixesPrivate(r)
      BY DEF RaceInv
    <2>3. QED
      BY <2>1, <2>2 DEF FixesPrivate, MadeOn
  <1>4. QED
    BY <1>2, <1>3, OthersKept DEF RaceInv

\* The run leaves its group, and the remote is as it was.
LEMMA RaceMovesOn ==
  ASSUME RaceInv, ReportInv', NEW r \in Runs, UNCHANGED <<refs, tip, pushed>>,
         MovesOn(r) \/ (EndedAs(run'[r], "cancelled") /\ \A q \in Runs \ {r} : run'[q] = run[q]),
         run[r].pc \in {"select"} \union InHand \/ run'[r].pc = "cancelled"
  PROVE  RaceInv'
  <1> DEFINE s == run[r]
             u == run'[r]
  <1>1. HeadOwn(r) /\ PushedTaken(r) /\ Overtaken(r)
    BY DEF RaceInv
  <1>2. \A q \in Runs \ {r} : run'[q] = run[q]
    BY DEF MovesOn
  <1>3. u.head = {} /\ u.base \subseteq s.base /\ u.pc \in {"select", "done", "cancelled"}
    BY DEF MovesOn, EndedAs, NextSelected
  <1>4. u.pc = "select" => /\ u.taken = s.taken /\ u.existing = s.existing /\ u.base = s.base
                           /\ s.pc \in {"select"} \union InHand
    BY DEF MovesOn, EndedAs, NextSelected
  <1>5. HeadOwn(r)'
    BY <1>3 DEF HeadOwn
  <1>6. PushedTaken(r)'
    BY <1>1, <1>3, <1>4 DEF PushedTaken, InHand, Building
  <1>7. Overtaken(r)'
    BY <1>1, <1>3, <1>4 DEF Overtaken, InHand, Building, CandidateBranches, CandidateBranch
  <1>8. QED
    BY <1>2, <1>3, <1>5, <1>6, <1>7, RaceStep

LEMMA RaceRunStep ==
  ASSUME "precheck" \notin Faults, RaceInv, ReportInv', NEW r \in Runs,
         \/ Clone(r) \/ Precheck(r) \/ TryCandidate(r) \/ NoNameLeft(r) \/ Checkout(r)
         \/ ApplyAndCommit(r) \/ FinishCommits(r)
  PROVE  RaceInv'
  <1> DEFINE s == run[r]
             u == run'[r]
             n == CandidateBranch(GroupOf(r), s.cand)
  <1>1. TypeOK /\ s \in RunState
    BY RaceTypes
  <1>2. HeadOwn(r) /\ PushedTaken(r) /\ Overtaken(r)
    BY DEF RaceInv
  <1>3. CASE Clone(r)
    <2>1. s.pc = "idle" /\ Inside(r) /\ (Cloned(s, u) \/ EndedAs(u, "failed"))
      BY <1>1, <1>3, CloneEffect
    <2>2. s.head \subseteq s.base
      BY <1>2, <2>1 DEF HeadOwn, Building
    <2>3. \A b \in Branches : pushed[r][b] = {}
      BY <1>2, <2>1 DEF PushedTaken
    <2>4. s.base \subseteq tip[Base] /\ s.head \subseteq tip[Base]
      BY <2>2, RaceTypes DEF IInv, RunInv, CloneOfBase
    <2>5. u.base \subseteq tip[Base] /\ u.head \subseteq s.head /\ u.head \subseteq u.base
      BY <2>1, <2>4 DEF Cloned, EndedAs
    <2>6. HeadOwn(r)' /\ PushedTaken(r)' /\ Overtaken(r)'
      BY <2>1, <2>3, <2>5 DEF HeadOwn, PushedTaken, Overtaken, Inside, Cloned, EndedAs, InHand, Building
    <2>7. QED
      BY <2>1, <2>5, <2>6, RaceStep DEF Inside
  <1>4. CASE Precheck(r)
    <2>1. s.pc = "precheck" /\ Inside(r) /\ Looked(s, u)
      BY <1>1, <1>4, PrecheckEffect
    <2>2. /\ u.pc = "select" /\ u.base = s.base /\ u.head = s.head
          /\ u.existing = refs \intersect UNION {CandidateBranches(g) : g \in Groups}
      BY <2>1 DEF Looked
    <2>3. s.head \subseteq s.base /\ \A b \in Branches : pushed[r][b] = {}
      BY <1>2, <2>1 DEF HeadOwn, PushedTaken, Building
    <2>4. HeadOwn(r)' /\ PushedTaken(r)'
      BY <2>1, <2>2, <2>3 DEF HeadOwn, PushedTaken, Inside
    <2>5. \A g \in Groups : CandidateBranches(g) \intersect refs \subseteq u.existing
      BY <2>2
    <2>6. Overtaken(r)'
      BY <2>1, <2>2, <2>5 DEF Overtaken, Inside, InHand, Building, CandidateBranches, CandidateBranch
    <2>7. QED
      BY <2>1, <2>2, <2>4, <2>6, RaceStep DEF Inside
  <1>5. CASE TryCandidate(r)
    <2>1. /\ s.pc = "select" /\ UNCHANGED <<refs, tip, pr, pushed>>
          /\ \A q \in Runs \ {r} : run'[q] = run[q]
          /\ Claimed(r, n) \/ PassedOver(r, n) \/ Leaves(r, "skipped")
      BY <1>1, <1>5, TryCandidateEffect
    <2>2. s.head \subseteq s.base
      BY <1>2, <2>1 DEF HeadOwn, Building
    <2>3. ASSUME Claimed(r, n) \/ PassedOver(r, n)
          PROVE  RaceInv'
      <3>1. u.base = s.base /\ u.head = s.head /\ u.existing = s.existing
        BY <2>3 DEF Claimed, PassedOver
      <3>2. \/ u.pc = "select" /\ u.taken = s.taken
            \/ /\ u.pc = "checkout" /\ u.taken = s.taken \union {u.branch}
               /\ u.branch \notin s.taken \union s.existing
        BY <2>3 DEF Claimed, PassedOver
      <3>3. HeadOwn(r)'
        BY <2>2, <3>1 DEF HeadOwn
      <3>4. PushedTaken(r)'
        BY <1>2, <2>1, <3>2 DEF PushedTaken
      <3>5. Overtaken(r)'
        BY <1>2, <2>1, <3>1, <3>2 DEF Overtaken, InHand, Building, CandidateBranches, CandidateBranch
      <3>6. QED
        BY <2>1, <3>1, <3>3, <3>4, <3>5, RaceStep
    <2>4. QED
      BY <2>1, <2>3, RaceMovesOn DEF Leaves
  <1>6. CASE NoNameLeft(r)
    BY <1>1, <1>6, NoNameLeftEffect, RaceMovesOn DEF Leaves
  <1>7. ASSUME s.pc \in {"checkout", "fix"}, Inside(r), u.pc \in {"fix", "push"},
               u.branch = s.branch, u.existing = s.existing, u.taken = s.taken, u.base = s.base,
               \A c \in u.head : c \in s.head \union s.base \/ MadeOn(r, s.branch, c)
        PROVE  RaceInv'
    <2>1. \A c \in s.head : c \in s.base \/ MadeOn(r, s.branch, c)
      BY <1>2 DEF HeadOwn
    <2>2. HeadOwn(r)'
      BY <1>7, <2>1 DEF HeadOwn, Building, MadeOn
    <2>3. PushedTaken(r)'
      BY <1>2, <1>7 DEF PushedTaken, Inside, InHand, Building
    <2>4. Overtaken(r)'
      BY <1>2, <1>7 DEF Overtaken, Inside, InHand, Building, CandidateBranches, CandidateBranch
    <2>5. QED
      BY <1>7, <2>2, <2>3, <2>4, RaceStep DEF Inside, MadeOn
  <1>8. CASE Checkout(r)
    <2>1. s.pc = "checkout" /\ UNCHANGED <<refs, tip, pushed>>
      BY <1>1, <1>8, CheckoutEffect
    <2>2. CASE Inside(r) /\ Started(s, u)
      BY <1>7, <2>1, <2>2 DEF Started
    <2>3. QED
      BY <1>1, <1>8, <2>1, <2>2, CheckoutEffect, RaceMovesOn DEF Leaves, InHand
  <1>9. CASE ApplyAndCommit(r)
    <2>1. s.pc = "fix" /\ Inside(r) /\ Attempted(r, s, u, FindingOf(r))
      BY <1>1, <1>9, ApplyAndCommitEffect
    <2>2. \A edits : MadeOn(r, s.branch, FixCommit(r, s.branch, FindingOf(r), edits))
      BY DEF MadeOn, FixCommit
    <2>3. \A c \in u.head : c \in s.head \/ MadeOn(r, s.branch, c)
      BY <2>1, <2>2 DEF Attempted
    <2>4. QED
      BY <1>7, <2>1, <2>3 DEF Attempted
  <1>10. CASE FinishCommits(r)
    <2>1. s.pc = "fix" /\ UNCHANGED <<refs, tip, pushed>>
      BY <1>1, <1>10, FinishCommitsEffect
    <2>2. CASE Inside(r) /\ u = [s EXCEPT !.pc = "push"]
      BY <1>1, <1>7, <2>1, <2>2, NewProgress
    <2>3. QED
      BY <1>1, <1>10, <2>1, <2>2, FinishCommitsEffect, RaceMovesOn DEF Leaves, InHand, Building
  <1>11. QED
    BY <1>3, <1>4, <1>5, <1>6, <1>8, <1>9, <1>10

\* What is about to be pushed holds a fix that nobody else has.
LEMMA FixInHand ==
  ASSUME RaceInv, NEW r \in Runs, run[r].pc = "push"
  PROVE  \E c \in run[r].head :
           /\ c.run = r /\ MadeOn(r, run[r].branch, c)
           /\ \A q \in Runs \ {r} : c \notin run[q].base
  <1> DEFINE s == run[r]
             own == CommitsBy(r, s.head)
  <1>1. s.committed > 0 /\ s.committed \in Nat
    BY RaceTypes DEF ReportInv, GroupsTold, RunState
  <1>2. CommitsBy(r, s.base) = {} /\ s.committed <= Cardinality(own)
    BY RaceTypes DEF CountInv, OwnWork, Building
  <1>3. PICK c \in own : TRUE
    BY <1>1, <1>2, FS_EmptySet
  <1>4. c \in s.head /\ c.run = r /\ c \notin s.base
    BY <1>2, <1>3 DEF CommitsBy
  <1>5. MadeOn(r, s.branch, c)
    BY <1>4 DEF RaceInv, HeadOwn
  <1>6. pushed[r][s.branch] = {}
    BY RaceTypes DEF RaceInv, PushedTaken
  <1>7. ~Abroad(r, c)
    BY <1>5, <1>6, RaceTypes DEF RaceInv, FixesPrivate
  <1>8. QED
    BY <1>4, <1>5, <1>7 DEF Abroad

\* A push goes to a branch that was not there.
LEMMA PushIsNew ==
  ASSUME RaceInv, NEW r \in Runs, run[r].pc = "push", Reaches(r)
  PROVE  run[r].branch \notin refs
  <1> DEFINE s == run[r]
  <1>1. SUFFICES ASSUME s.branch \in refs PROVE FALSE
    OBVIOUS
  <1>2. s.branch # Base /\ pushed[r][s.branch] = {} /\ s.branch \notin s.existing
    BY RaceTypes DEF RaceInv, PushedTaken, Overtaken, IInv, RunInv, BranchInHand, InHand, Building
  <1>3. GroupOf(r) \in Groups /\ s.branch \in CandidateBranches(GroupOf(r))
    BY RaceTypes, GroupsOfPlan DEF ReportInv, GroupsTold, InHand, Building, GroupOf, RunState
  <1>4. PICK c \in tip[s.branch] : c.run # r /\ c \notin s.base
    BY <1>1, <1>2, <1>3 DEF RaceInv, Overtaken, InHand, Building
  <1>5. c \in s.head
    BY <1>1, <1>4 DEF Reaches
  <1>6. QED
    BY <1>4, <1>5 DEF RaceInv, HeadOwn, MadeOn

LEMMA RaceReaches ==
  ASSUME RaceInv, ReportInv', NEW r \in Runs, run[r].pc = "push", Reaches(r),
         \A q \in Runs \ {r} : run'[q] = run[q],
         \/ run'[r] = [run[r] EXCEPT !.pc = "open"]
         \/ MovesOn(r)
         \/ EndedAs(run'[r], "cancelled")
  PROVE  RaceInv'
  <1> DEFINE s == run[r]
             u == run'[r]
             b == run[r].branch
  <1>1. TypeOK /\ s \in RunState /\ b \in Branches
    BY RaceTypes
  <1>2. HeadOwn(r) /\ PushedTaken(r) /\ Overtaken(r)
    BY DEF RaceInv
  <1>3. PICK c \in s.head : /\ c.run = r /\ MadeOn(r, b, c)
                            /\ \A q \in Runs \ {r} : c \notin run[q].base
    BY FixInHand
  <1>4. /\ u.base \subseteq s.base
        /\ \/ u.pc = "open" /\ u.branch = s.branch /\ u.base = s.base /\ u.head = s.head
           \/ u.pc \in {"select", "done", "cancelled"} /\ u.head = {}
        /\ u.pc \in {"open", "select"} =>
             u.base = s.base /\ u.taken = s.taken /\ u.existing = s.existing
        /\ u.pc = "open" => u.branch = s.branch
    <2>1. CASE u = [s EXCEPT !.pc = "open"]
      BY <1>1, <2>1, NewProgress
    <2>2. CASE MovesOn(r) \/ EndedAs(u, "cancelled")
      BY <2>2 DEF MovesOn, EndedAs, NextSelected
    <2>3. QED
      BY <2>1, <2>2
  <1>5. b \in s.taken
    BY RaceTypes DEF IInv, RunInv, BranchInHand, Building
  <1>6. pushed'[r][b] # {}
    BY <1>3 DEF Reaches
  <1>7. ASSUME NEW q \in Runs
        PROVE  \A d : Abroad(q, d)' => Abroad(q, d) \/ d \in s.head
    <2>1. \A e \in Branches : tip'[e] \subseteq tip[e] \union s.head
      BY DEF Reaches
    <2>2. \A p \in Runs : run'[p].base \subseteq run[p].base /\ run'[p].head \subseteq run[p].head
      BY <1>4
    <2>3. QED
      BY <2>1, <2>2 DEF Abroad
  <1>8. FixesPrivate(r)'
    <2> SUFFICES ASSUME NEW e \in Branches, pushed'[r][e] = {}, NEW d, Abroad(r, d)', MadeOn(r, e, d)
                 PROVE  FALSE
      BY DEF FixesPrivate, MadeOn
    <2>1. e # b /\ pushed[r][e] = {}
      BY <1>6 DEF Reaches
    <2>2. ~Abroad(r, d)
      BY <2>1 DEF RaceInv, FixesPrivate
    <2>3. d \in s.head /\ d \notin s.base
      BY <1>7, <2>2 DEF Abroad
    <2>4. QED
      BY <1>2, <2>1, <2>3 DEF HeadOwn, MadeOn
  <1>9. HeadOwn(r)'
    BY <1>2, <1>4 DEF HeadOwn, Building, MadeOn
  <1>10. PushedTaken(r)'
    <2>1. \A e \in Branches : pushed'[r][e] # {} => e = b \/ pushed[r][e] # {}
      BY DEF Reaches
    <2>2. QED
      BY <1>2, <1>4, <1>5, <2>1 DEF PushedTaken, InHand, Building
  <1>11. \A e \in Branches \ {b} : tip'[e] = tip[e] /\ (e \in refs' <=> e \in refs)
    BY DEF Reaches
  <1>12. Overtaken(r)'
    <2>1. u.pc \in InHand => u.branch \notin u.existing
      BY <1>2, <1>4 DEF Overtaken, InHand, Building
    <2>2. ASSUME u.pc \in {"select"} \union InHand, NEW g \in Groups,
                 NEW e \in CandidateBranches(g) \ {Base},
                 e \in refs' \ u.existing, pushed'[r][e] = {}
          PROVE  \E d \in tip'[e] : d.run # r /\ d \notin u.base
      <3>1. e \in Branches /\ e # b
        BY <1>6, <2>2, CandidatesNamed
      <3>2. pushed[r][e] = {} /\ e \in refs \ s.existing /\ u.base = s.base
        BY <1>4, <1>11, <2>2, <3>1 DEF Reaches, InHand, Building
      <3>3. QED
        BY <1>2, <1>11, <2>2, <3>1, <3>2 DEF Overtaken, InHand, Building
    <2>3. QED
      BY <2>1, <2>2 DEF Overtaken, InHand, Building, CandidateBranches, CandidateBranch
  <1>13. ASSUME NEW q \in Runs \ {r}
         PROVE  (FixesPrivate(q) /\ HeadOwn(q) /\ PushedTaken(q) /\ Overtaken(q))'
    <2>1. /\ FixesPrivate(q) /\ HeadOwn(q) /\ PushedTaken(q) /\ Overtaken(q)
          /\ run'[q] = run[q] /\ pushed'[q] = pushed[q]
      BY DEF RaceInv, Reaches
    <2>2. \A d : Abroad(q, d)' => Abroad(q, d)
      BY <1>7 DEF Abroad
    <2>3. FixesPrivate(q)'
      BY <2>1, <2>2 DEF FixesPrivate, MadeOn
    <2>4. HeadOwn(q)' /\ PushedTaken(q)'
      BY <2>1 DEF HeadOwn, PushedTaken, MadeOn
    <2>5. ASSUME run[q].pc \in {"select"} \union InHand, NEW g \in Groups,
                 NEW e \in CandidateBranches(g) \ {Base},
                 e \in refs' \ run[q].existing, pushed[q][e] = {}
          PROVE  \E d \in tip'[e] : d.run # q /\ d \notin run[q].base
      <3>1. CASE e = b
        BY <1>3, <3>1 DEF Reaches
      <3>2. CASE e # b
        <4>1. e \in Branches
          BY CandidatesNamed
        <4>2. e \in refs \ run[q].existing /\ tip'[e] = tip[e]
          BY <1>11, <2>5, <3>2, <4>1
        <4>3. QED
          BY <2>1, <2>5, <4>2 DEF Overtaken
      <3>3. QED
        BY <3>1, <3>2
    <2>6. Overtaken(q)'
      BY <2>1, <2>5 DEF Overtaken, CandidateBranches, CandidateBranch
    <2>7. QED
      BY <2>3, <2>4, <2>6
  <1>14. QED
    BY <1>8, <1>9, <1>10, <1>12, <1>13 DEF RaceInv

LEMMA RaceUserStep ==
  ASSUME RaceInv, ReportInv', UserStep
  PROVE  RaceInv'
  <1>1. /\ UNCHANGED <<run, result, pushed>> /\ refs' \subseteq refs
        /\ \A d \in Branches : \A c \in tip'[d] :
              \/ \E e \in Branches : c \in tip[e]
              \/ \E q \in Runs, e \in Branches : c = MergeCommit(q, e)
        /\ \A d \in Branches \ {Base} : tip'[d] = tip[d] \/ d \notin refs'
    BY RaceTypes, UserStepEffect
  <1>2. \A q \in Runs, b \in Branches, p \in Runs, e \in Branches : ~MadeOn(q, b, MergeCommit(p, e))
    BY DEF MadeOn, MergeCommit
  <1>3. ASSUME NEW q \in Runs
        PROVE  (FixesPrivate(q) /\ HeadOwn(q) /\ PushedTaken(q) /\ Overtaken(q))'
    <2>1. FixesPrivate(q) /\ HeadOwn(q) /\ PushedTaken(q) /\ Overtaken(q)
      BY DEF RaceInv
    <2>2. \A c : Abroad(q, c)' => Abroad(q, c) \/ \E p \in Runs, e \in Branches : c = MergeCommit(p, e)
      BY <1>1 DEF Abroad
    <2>3. FixesPrivate(q)'
      BY <1>1, <1>2, <2>1, <2>2 DEF FixesPrivate, MadeOn
    <2>4. HeadOwn(q)' /\ PushedTaken(q)'
      BY <1>1, <2>1 DEF HeadOwn, PushedTaken, MadeOn
    <2>5. Overtaken(q)'
      <3>1. \A g \in Groups : \A e \in CandidateBranches(g) \ {Base} :
              e \in refs' => e \in refs /\ tip'[e] = tip[e]
        BY <1>1, CandidatesNamed
      <3>2. QED
        BY <1>1, <2>1, <3>1 DEF Overtaken, CandidateBranches, CandidateBranch
    <2>6. QED
      BY <2>3, <2>4, <2>5
  <1>4. QED
    BY <1>3 DEF RaceInv

LEMMA RaceNext ==
  ASSUME "precheck" \notin Faults, RaceInv, [Next]_vars
  PROVE  RaceInv'
  <1>1. ReportInv' /\ TypeOK
    BY ReportNext, RaceTypes DEF RaceInv
  <1>2. ASSUME NEW r \in Runs, Push(r)
        PROVE  RaceInv'
    <2>1. run[r].pc = "push"
      BY <1>1, <1>2, PushEffect
    <2>2. CASE UNCHANGED <<refs, tip, pushed>> /\ Leaves(r, "error")
      BY <1>1, <2>1, <2>2, RaceMovesOn DEF Leaves, InHand, Building
    <2>3. CASE Reaches(r) /\ Leaves(r, "error")
      BY <1>1, <2>1, <2>3, RaceReaches DEF Leaves, MovesOn
    <2>4. QED
      BY <1>1, <1>2, <2>1, <2>2, <2>3, PushEffect, RaceReaches
  <1>3. ASSUME NEW r \in Runs, OpenPR(r)
        PROVE  RaceInv'
    BY <1>1, <1>3, OpenPREffect, RaceMovesOn DEF InHand, Building
  <1>4. ASSUME NEW r \in Runs, Cancel(r)
        PROVE  RaceInv'
    <2>1. /\ EndedAs(run'[r], "cancelled") /\ \A q \in Runs \ {r} : run'[q] = run[q]
          /\ UNCHANGED <<refs, tip, pushed>> \/ (run[r].pc = "push" /\ Reaches(r))
      BY <1>1, <1>4, CancelEffect
    <2>2. CASE UNCHANGED <<refs, tip, pushed>>
      BY <1>1, <2>1, <2>2, RaceMovesOn DEF EndedAs
    <2>3. QED
      BY <1>1, <2>1, <2>2, RaceReaches
  <1>5. ASSUME NEW r \in Runs, RunStep(r) \/ Cancel(r)
        PROVE  RaceInv'
    BY <1>1, <1>2, <1>3, <1>4, <1>5, RaceRunStep DEF RunStep
  <1>6. CASE UNCHANGED vars
    <2>1. \A q \in Runs : (FixesPrivate(q) /\ HeadOwn(q) /\ PushedTaken(q) /\ Overtaken(q))'
      <3> SUFFICES ASSUME NEW q \in Runs
                   PROVE  (FixesPrivate(q) /\ HeadOwn(q) /\ PushedTaken(q) /\ Overtaken(q))'
        OBVIOUS
      <3>1. FixesPrivate(q) /\ HeadOwn(q) /\ PushedTaken(q) /\ Overtaken(q)
        BY DEF RaceInv
      <3>2. UNCHANGED <<refs, tip, run, pushed>>
        BY <1>6 DEF vars
      <3>3. FixesPrivate(q)' /\ HeadOwn(q)' /\ PushedTaken(q)'
        BY <3>1, <3>2 DEF FixesPrivate, HeadOwn, PushedTaken, MadeOn, Abroad
      <3>4. Overtaken(q)'
        BY <3>1, <3>2 DEF Overtaken, CandidateBranches, CandidateBranch
      <3>5. QED
        BY <3>3, <3>4
    <2>2. QED
      BY <1>1, <2>1 DEF RaceInv
  <1>7. QED
    BY <1>1, <1>5, <1>6, RaceUserStep DEF Next

LEMMA RaceInit == Init => RaceInv
  <1> SUFFICES ASSUME Init PROVE RaceInv
    OBVIOUS
  <1>1. ASSUME NEW q \in Runs
        PROVE  FixesPrivate(q) /\ HeadOwn(q) /\ PushedTaken(q) /\ Overtaken(q)
    <2>1. \A p \in Runs : run[p].pc = "idle" /\ run[p].base = {} /\ run[p].head = {}
      BY DEF Init, FreshRun
    <2>2. \A b \in Branches : pushed[q][b] = {}
      BY DEF Init
    <2>3. \A b \in Branches : \A c \in tip[b] : c.kind = "old"
      BY DEF Init, OldCommit
    <2>4. FixesPrivate(q)
      BY <2>1, <2>3 DEF FixesPrivate, Abroad, MadeOn
    <2>5. HeadOwn(q) /\ PushedTaken(q)
      BY <2>1, <2>2 DEF HeadOwn, PushedTaken
    <2>6. Overtaken(q)
      BY <2>1 DEF Overtaken, InHand, Building
    <2>7. QED
      BY <2>4, <2>5, <2>6
  <1>2. QED
    BY <1>1, ReportInit DEF RaceInv

\* As long as ls-remote answers, no push moves a branch that is on the remote, however
\* many runs race, whatever else fails, and whatever the user merges, closes or deletes.
THEOREM ExistingBranchesKept ==
  ASSUME "precheck" \notin Faults
  PROVE  Spec => ExistingNeverReused
  <1> DEFINE Kept == \A b \in (refs \intersect refs') \ {Base} : tip'[b] = tip[b]
  <1>1. RaceInv /\ [Next]_vars => [Kept]_vars
    <2> SUFFICES ASSUME RaceInv, Next PROVE Kept
      OBVIOUS
    <2>1. TypeOK /\ refs \subseteq Branches
      BY RaceTypes DEF TypeOK
    <2>2. ASSUME NEW r \in Runs, Reaches(r), run[r].pc = "push"
          PROVE  Kept
      <3>1. run[r].branch \notin refs
        BY <2>2, PushIsNew
      <3>2. QED
        BY <2>1, <2>2, <3>1 DEF Reaches
    <2>3. ASSUME NEW r \in Runs, RunStep(r) \/ Cancel(r)
          PROVE  UNCHANGED tip \/ (Reaches(r) /\ run[r].pc = "push")
      BY <2>1, <2>3, CloneEffect, PrecheckEffect, TryCandidateEffect, NoNameLeftEffect,
         CheckoutEffect, ApplyAndCommitEffect, FinishCommitsEffect, PushEffect, OpenPREffect,
         CancelEffect DEF RunStep, Inside
    <2>4. CASE UserStep
      BY <2>1, <2>4, UserStepEffect
    <2>5. QED
      BY <2>2, <2>3, <2>4 DEF Next
  <1>2. RaceInv /\ [Next]_vars => RaceInv'
    BY RaceNext
  <1>3. QED
    BY <1>1, <1>2, RaceInit, PTL DEF Spec, ExistingNeverReused

-----------------------------------------------------------------------------
(* Taking turns. *)

\* The premise: runs do not overlap, and ls-remote answers.
TakeTurns == ~Concurrent /\ "precheck" \notin Faults

\* A step of run r that leaves the other runs alone and brings nothing to the remote
\* but the branch it had in hand.
LEMMA TurnStep ==
  ASSUME TurnInv, IInv', NEW r \in Runs, \A q \in Runs \ {r} : run'[q] = run[q],
         Working(r) \/ \A q \in Runs : ~Working(q), Known(r)'
  PROVE  TurnInv'
  <1>1. ASSUME NEW q \in Runs \ {r}
        PROVE  ~Working(q) /\ ~Working(q)' /\ Known(q)'
    <2>1. ~Working(q)
      BY DEF TurnInv
    <2>2. run'[q] = run[q]
      OBVIOUS
    <2>3. run'[q].pc \notin {"select"} \union InHand
      BY <2>1, <2>2 DEF Working, Ends, InHand, Building
    <2>4. ~Working(q)'
      BY <2>1, <2>2 DEF Working
    <2>5. Known(q)'
      BY <2>3 DEF Known, InHand, Building
    <2>6. QED
      BY <2>1, <2>4, <2>5
  <1>2. QED
    BY <1>1 DEF TurnInv

\* The run that moves on has noted the branch it had in hand.
LEMMA TurnMovesOn ==
  ASSUME TurnInv, IInv', NEW r \in Runs, MovesOn(r), Working(r),
         run[r].pc \in {"select"} \union InHand,
         refs' = refs \/ (run[r].pc \in InHand /\ Reaches(r))
  PROVE  TurnInv'
  <1> DEFINE s == run[r]
             u == run'[r]
  <1>1. Known(r) /\ (s.pc \in InHand => s.branch \in s.taken)
    BY DEF TurnInv, IInv, RunInv, BranchInHand, InHand
  <1>2. \A g \in Groups : CandidateBranches(g) \intersect refs' \subseteq s.existing \union s.taken
    BY <1>1 DEF Known, Reaches
  <1>3. Known(r)'
    BY <1>2 DEF MovesOn, EndedAs, NextSelected, Known, InHand, Building, CandidateBranches, CandidateBranch
  <1>4. QED
    BY <1>3, TurnStep DEF MovesOn

LEMMA TurnRunStep ==
  ASSUME TakeTurns, TurnInv, IInv', NEW r \in Runs,
         \/ Clone(r) \/ Precheck(r) \/ TryCandidate(r) \/ NoNameLeft(r) \/ Checkout(r)
         \/ ApplyAndCommit(r) \/ FinishCommits(r)
  PROVE  TurnInv'
  <1> DEFINE s == run[r]
             u == run'[r]
             n == CandidateBranch(GroupOf(r), s.cand)
  <1>1. TypeOK /\ s \in RunState /\ Known(r)
    BY DEF TurnInv, IInv, TypeOK
  <1>2. CASE Clone(r)
    <2>1. \A q \in Runs : ~Working(q)
      BY <1>2 DEF Clone, TakeTurns, Working, Ends
    <2>2. Inside(r) /\ (Cloned(s, u) \/ EndedAs(u, "failed"))
      BY <1>1, <1>2, CloneEffect
    <2>3. Known(r)'
      BY <2>2 DEF Cloned, EndedAs, Known, InHand, Building
    <2>4. QED
      BY <2>1, <2>2, <2>3, TurnStep DEF Inside
  <1>3. CASE Precheck(r)
    <2>1. s.pc = "precheck" /\ Inside(r) /\ Looked(s, u)
      BY <1>1, <1>3, PrecheckEffect
    <2>2. u.pc = "select" /\ u.existing = refs \intersect UNION {CandidateBranches(g) : g \in Groups}
      BY <2>1 DEF Looked, TakeTurns
    <2>3. \A g \in Groups : CandidateBranches(g) \intersect refs \subseteq u.existing
      BY <2>2
    <2>4. Known(r)'
      BY <2>1, <2>2, <2>3 DEF Known, Inside, InHand, Building, CandidateBranches, CandidateBranch
    <2>5. QED
      BY <2>1, <2>4, TurnStep DEF Inside, Working, Ends
  <1>4. CASE TryCandidate(r)
    <2>1. /\ s.pc = "select" /\ s.cand \in 1 .. MaxSuffix /\ UNCHANGED refs
          /\ \A q \in Runs \ {r} : run'[q] = run[q]
          /\ \/ Claimed(r, n)
             \/ PassedOver(r, n)
             \/ Leaves(r, "skipped")
      BY <1>1, <1>4, TryCandidateEffect
    <2>2. Working(r)
      BY <2>1 DEF Working, Ends
    <2>3. n \in CandidateBranches(GroupOf(r)) /\ GroupOf(r) \in Groups
      BY <1>1, <2>1, GroupsOfPlan DEF CandidateBranches, GroupOf, RunState
    <2>4. \A g \in Groups : CandidateBranches(g) \intersect refs \subseteq s.existing \union s.taken
      BY <1>1, <2>1 DEF Known
    <2>5. CASE Claimed(r, n)
      <3>1. n \notin refs
        BY <2>3, <2>4, <2>5 DEF Claimed
      <3>2. Known(r)'
        BY <2>1, <2>4, <2>5, <3>1 DEF Claimed, Known, CandidateBranches, CandidateBranch
      <3>3. QED
        BY <2>1, <2>2, <3>2, TurnStep
    <2>6. CASE PassedOver(r, n)
      <3>1. Known(r)'
        BY <2>1, <2>4, <2>6 DEF PassedOver, Known, CandidateBranches, CandidateBranch
      <3>2. QED
        BY <2>1, <2>2, <3>1, TurnStep
    <2>7. CASE Leaves(r, "skipped")
      BY <2>1, <2>2, <2>7, TurnMovesOn DEF Leaves
    <2>8. QED
      BY <2>1, <2>5, <2>6, <2>7
  <1>5. CASE NoNameLeft(r)
    BY <1>1, <1>5, NoNameLeftEffect, TurnMovesOn DEF Leaves, Working, Ends
  <1>6. ASSUME s.pc \in {"checkout", "fix"}, Inside(r), u.pc \in {"fix", "push"},
               u.branch = s.branch, u.existing = s.existing, u.taken = s.taken
        PROVE  TurnInv'
    <2>1. Known(r)'
      BY <1>1, <1>6 DEF Known, Inside, InHand, Building, CandidateBranches, CandidateBranch
    <2>2. QED
      BY <1>6, <2>1, TurnStep DEF Working, Ends, Inside
  <1>7. CASE Checkout(r)
    <2>1. s.pc = "checkout" /\ UNCHANGED refs
      BY <1>1, <1>7, CheckoutEffect
    <2>2. CASE Inside(r) /\ Started(s, u)
      BY <1>6, <2>1, <2>2 DEF Started
    <2>3. QED
      BY <1>1, <1>7, <2>1, <2>2, CheckoutEffect, TurnMovesOn DEF Leaves, Working, Ends, InHand
  <1>8. CASE ApplyAndCommit(r)
    BY <1>1, <1>6, <1>8, ApplyAndCommitEffect DEF Attempted
  <1>9. CASE FinishCommits(r)
    <2>1. s.pc = "fix" /\ UNCHANGED refs
      BY <1>1, <1>9, FinishCommitsEffect
    <2>2. CASE Inside(r) /\ u = [s EXCEPT !.pc = "push"]
      BY <1>1, <1>6, <2>1, <2>2, NewProgress
    <2>3. QED
      BY <1>1, <1>9, <2>1, <2>2, FinishCommitsEffect, TurnMovesOn
         DEF Leaves, Working, Ends, InHand, Building
  <1>10. QED
    BY <1>2, <1>3, <1>4, <1>5, <1>7, <1>8, <1>9

LEMMA TurnPush ==
  ASSUME TurnInv, IInv', NEW r \in Runs, Push(r)
  PROVE  TurnInv'
  <1> DEFINE s == run[r]
             u == run'[r]
  <1>1. TypeOK /\ s \in RunState /\ Known(r)
    BY DEF TurnInv, IInv, TypeOK
  <1>2. s.pc = "push" /\ Working(r) /\ s.pc \in InHand
    BY <1>1, PushEffect DEF Working, Ends, InHand, Building
  <1>3. CASE Reaches(r) /\ u = [s EXCEPT !.pc = "open"] /\ \A q \in Runs \ {r} : run'[q] = run[q]
    <2>1. u.pc = "open" /\ u.existing = s.existing /\ u.taken = s.taken
      BY <1>1, <1>3, NewProgress
    <2>2. s.branch \in s.taken
      BY <1>2 DEF TurnInv, IInv, RunInv, BranchInHand, InHand
    <2>3. \A g \in Groups : CandidateBranches(g) \intersect refs' \subseteq s.existing \union s.taken
      BY <1>1, <1>2, <1>3, <2>2 DEF Known, Reaches
    <2>4. Known(r)'
      BY <2>1, <2>3 DEF Known, CandidateBranches, CandidateBranch
    <2>5. QED
      BY <1>2, <1>3, <2>4, TurnStep
  <1>4. QED
    BY <1>1, <1>2, <1>3, PushEffect, TurnMovesOn DEF Leaves

LEMMA TurnCancel ==
  ASSUME TurnInv, IInv', NEW r \in Runs, Cancel(r)
  PROVE  TurnInv'
  <1>1. TypeOK
    BY DEF TurnInv, IInv
  <1>2. /\ Working(r) /\ EndedAs(run'[r], "cancelled")
        /\ \A q \in Runs \ {r} : run'[q] = run[q]
    BY <1>1, CancelEffect DEF Working
  <1>3. Known(r)'
    BY <1>2 DEF EndedAs, Known, InHand, Building
  <1>4. QED
    BY <1>2, <1>3, TurnStep

LEMMA TurnNext ==
  ASSUME TakeTurns, TurnInv, [Next]_vars
  PROVE  TurnInv'
  <1>1. IInv' /\ TypeOK
    BY InvStep DEF TurnInv, IInv
  <1>2. ASSUME NEW r \in Runs, OpenPR(r)
        PROVE  TurnInv'
    BY <1>1, <1>2, OpenPREffect, TurnMovesOn DEF Working, Ends, InHand, Building
  <1>3. ASSUME NEW r \in Runs, RunStep(r) \/ Cancel(r)
        PROVE  TurnInv'
    BY <1>1, <1>2, <1>3, TurnRunStep, TurnPush, TurnCancel DEF RunStep
  <1>4. CASE UserStep \/ UNCHANGED vars
    <2>1. UNCHANGED run /\ refs' \subseteq refs
      BY <1>1, <1>4, UserStepEffect DEF vars
    <2>2. \A r \in Runs : Known(r)'
      BY <2>1 DEF TurnInv, Known, CandidateBranches, CandidateBranch
    <2>3. \A q \in Runs : Working(q)' <=> Working(q)
      BY <2>1 DEF Working
    <2>4. QED
      BY <1>1, <2>2, <2>3 DEF TurnInv
  <1>5. QED
    BY <1>3, <1>4 DEF Next

LEMMA TurnInit == Init => TurnInv
  <1> SUFFICES ASSUME Init PROVE TurnInv
    OBVIOUS
  <1>1. \A r \in Runs : run[r].pc = "idle"
    BY DEF Init, FreshRun
  <1>2. QED
    BY <1>1, InvInit DEF TurnInv, Known, Working, InHand, Building

-----------------------------------------------------------------------------
(* No group is proposed twice. *)

\* The premise: besides taking turns, find_open_pr answers, no branch is deleted, and
\* no two groups have a name in common.
Undisturbed ==
  TakeTurns /\ "pr_lookup" \notin Faults /\ "delete" \notin UserActs /\ NamesApart

\* The candidate names of the groups yet to come are not taken.
LEMMA NamesUnused ==
  ASSUME Undisturbed, NEW i \in DOMAIN Plan, NEW j \in DOMAIN Plan, i # j,
         NEW k \in 1 .. MaxSuffix
  PROVE  CandidateBranch(Plan[i], k) \notin CandidateBranches(Plan[j])
  BY PlanFacts DEF Undisturbed, NamesApart, CandidateBranches

\* Nothing is proposed, refs only grow: what is known of open pull requests stays.
LEMMA NothingProposed ==
  ASSUME SingleInv, refs \subseteq refs',
         \A q \in Runs, b \in Branches : pr'[q][b] = "open" => pr[q][b] = "open"
  PROVE  /\ OpenFilled' /\ NoDuplicatePR'
         /\ \A b \in Branches : ~HasOpenPR(b) => ~HasOpenPR(b)'
         /\ \A g \in Groups : \A n \in Nat : FilledUpTo(g, n) => FilledUpTo(g, n)'
  <1>1. \A b \in Branches : HasOpenPR(b)' => HasOpenPR(b)
    BY DEF HasOpenPR
  <1>2. \A g \in Groups : \A k \in 1 .. MaxSuffix : CandidateBranch(g, k) \in Branches
    BY CandidatesAreNames
  <1>3. \A g \in Groups : \A n \in Nat : FilledUpTo(g, n) => FilledUpTo(g, n)'
    BY DEF FilledUpTo, CandidateBranch
  <1>4. \A k \in 1 .. MaxSuffix : k \in Nat
    BY BoundAssumption
  <1>5. OpenFilled'
    <2>1. ASSUME NEW g \in Groups, NEW k \in 1 .. MaxSuffix, HasOpenPR(CandidateBranch(g, k))'
          PROVE  FilledUpTo(g, k)'
      <3>1. HasOpenPR(CandidateBranch(g, k))
        BY <1>1, <1>2, <2>1 DEF CandidateBranch
      <3>2. QED
        BY <1>3, <1>4, <3>1 DEF SingleInv, OpenFilled
    <2>2. QED
      BY <2>1 DEF OpenFilled
  <1>6. NoDuplicatePR'
    BY CandidatesNamed DEF SingleInv, NoDuplicatePR, CandidateBranches, CandidateBranch
  <1>7. QED
    BY <1>1, <1>3, <1>5, <1>6

\* A step of run r while the others wait.
LEMMA SingleStep ==
  ASSUME SingleInv, TurnInv', NEW r \in Runs, \A q \in Runs \ {r} : run'[q] = run[q],
         Working(r) \/ \A q \in Runs : ~Working(q),
         OpenFilled', NoDuplicatePR', Passed(r)'
  PROVE  SingleInv'
  <1>1. ASSUME NEW q \in Runs \ {r}
        PROVE  Passed(q)'
    <2>1. ~Working(q) /\ Passed(q) /\ run'[q] = run[q]
      BY DEF SingleInv, TurnInv
    <2>2. QED
      BY <2>1 DEF Passed, Working, Ends, InHand, Building, CandidateBranches, CandidateBranch
  <1>2. QED
    BY <1>1 DEF SingleInv, OpenFilled

\* The run that moves on starts with the first name of a group that is not tried yet.
LEMMA MovesOnPassed ==
  ASSUME SingleInv, TypeOK, NEW r \in Runs, MovesOn(r) \/ EndedAs(run'[r], "cancelled"),
         run[r].pc \in {"select"} \union InHand \/ EndedAs(run'[r], "cancelled"),
         refs \subseteq refs'
  PROVE  Passed(r)'
  <1> DEFINE s == run[r]
             u == run'[r]
  <1>1. CASE u.pc \in Ends
    BY <1>1 DEF Passed, Ends, InHand, Building
  <1>2. CASE NextSelected(s, u) /\ s.pc \in {"select"} \union InHand
    <2>1. /\ u.pc = "select" /\ u.at = s.at + 1 /\ u.cand = 1 /\ u.taken = s.taken
          /\ u.existing = s.existing /\ s.at # Len(Plan)
      BY <1>2 DEF NextSelected
    <2>2. s.at \in 1 .. Len(Plan) /\ Len(Plan) \in Nat
      BY PlanFacts DEF TypeOK, RunState
    <2>3. /\ s.existing \subseteq refs
          /\ \A i \in s.at + 1 .. Len(Plan) : CandidateBranches(Plan[i]) \intersect s.taken = {}
      BY <1>2 DEF SingleInv, Passed, Ends, InHand, Building
    <2>4. CandidateBranches(Plan[u.at]) \intersect u.taken = {}
      BY <2>1, <2>2, <2>3
    <2>5. \A i \in u.at + 1 .. Len(Plan) : CandidateBranches(Plan[i]) \intersect u.taken = {}
      BY <2>1, <2>2, <2>3
    <2>6. u.cand - 1 = 0
      BY <2>1
    <2>7. QED
      BY <2>1, <2>3, <2>4, <2>5, <2>6
         DEF Passed, FilledUpTo, GroupOf, InHand, Building, CandidateBranches, CandidateBranch
  <1>3. QED
    BY <1>1, <1>2 DEF MovesOn, EndedAs, Ends

\* A step of a run that proposes nothing, keeps the remote and does right by its names.
LEMMA SingleQuiet ==
  ASSUME SingleInv, TurnInv', NEW r \in Runs, \A q \in Runs \ {r} : run'[q] = run[q],
         Working(r) \/ \A q \in Runs : ~Working(q), refs \subseteq refs', pr' = pr, Passed(r)'
  PROVE  SingleInv'
  BY NothingProposed, SingleStep

LEMMA SingleLeaves ==
  ASSUME SingleInv, TurnInv', NEW r \in Runs, NEW o, Leaves(r, o), refs \subseteq refs', pr' = pr,
         run[r].pc \in {"select"} \union InHand
  PROVE  SingleInv'
  <1>1. TypeOK /\ Working(r)
    BY DEF SingleInv, TurnInv, IInv, Working, Ends, InHand, Building
  <1>2. Passed(r)'
    BY <1>1, MovesOnPassed DEF Leaves
  <1>3. QED
    BY <1>1, <1>2, SingleQuiet DEF Leaves, MovesOn

\* While the branch in hand and its place in the plan stay the same, it stays a name
\* without a pull request, after which none is open.
LEMMA SingleInHand ==
  ASSUME SingleInv, TurnInv', NEW r \in Runs, \A q \in Runs \ {r} : run'[q] = run[q],
         refs \subseteq refs', pr' = pr,
         run[r].pc \in InHand, run'[r].pc \in InHand,
         run'[r].branch = run[r].branch, run'[r].at = run[r].at, run'[r].cand = run[r].cand,
         run'[r].taken = run[r].taken, run'[r].existing = run[r].existing
  PROVE  SingleInv'
  <1> DEFINE s == run[r]
             g == GroupOf(r)
  <1>1. TypeOK /\ Passed(r) /\ Working(r)
    BY DEF SingleInv, TurnInv, IInv, Working, Ends, InHand, Building
  <1>2. /\ s.cand <= MaxSuffix
        /\ s.branch = CandidateBranch(g, s.cand) /\ FilledUpTo(g, s.cand - 1)
        /\ \A i \in 1 .. MaxSuffix : ~HasOpenPR(CandidateBranch(g, i))
        /\ s.existing \subseteq refs
        /\ \A i \in s.at + 1 .. Len(Plan) : CandidateBranches(Plan[i]) \intersect s.taken = {}
    BY <1>1 DEF Passed, Ends, InHand, Building
  <1>3. GroupOf(r)' = g
    BY DEF GroupOf
  <1>4. /\ \A i \in 1 .. run'[r].cand - 1 : CandidateBranch(g, i) \in refs'
        /\ \A i \in 1 .. MaxSuffix : \A q \in Runs : pr'[q][CandidateBranch(g, i)] # "open"
    BY <1>2 DEF FilledUpTo, HasOpenPR
  <1>5. Passed(r)'
    BY <1>2, <1>3, <1>4 DEF Passed, Ends, InHand, Building, FilledUpTo, HasOpenPR,
                            CandidateBranches, CandidateBranch
  <1>6. QED
    BY <1>1, <1>5, SingleQuiet

\* A free name is claimed when every earlier one is on the remote without an open pull
\* request; none of the later ones can have one.
LEMMA SingleTryCandidate ==
  ASSUME Undisturbed, SingleInv, TurnInv', NEW r \in Runs, TryCandidate(r)
  PROVE  SingleInv'
  <1> DEFINE s == run[r]
             u == run'[r]
             g == GroupOf(r)
             n == CandidateBranch(g, s.cand)
  <1>1. TypeOK /\ Passed(r) /\ Known(r) /\ s \in RunState
    BY DEF SingleInv, TurnInv, IInv, TypeOK
  <1>2. /\ s.pc = "select" /\ s.cand \in 1 .. MaxSuffix
        /\ UNCHANGED <<refs, tip, pr, pushed>>
        /\ \A q \in Runs \ {r} : run'[q] = run[q]
        /\ \/ Claimed(r, n)
           \/ PassedOver(r, n)
           \/ Leaves(r, "skipped")
    BY <1>1, TryCandidateEffect
  <1>3. /\ FilledUpTo(g, s.cand - 1)
        /\ \A i \in 1 .. s.cand - 1 : ~HasOpenPR(CandidateBranch(g, i))
        /\ s.existing \subseteq refs
        /\ \A i \in s.at + 1 .. Len(Plan) : CandidateBranches(Plan[i]) \intersect s.taken = {}
        /\ CandidateBranches(g) \intersect s.taken = {}
    BY <1>1, <1>2 DEF Passed, Ends
  <1>4. /\ n \in CandidateBranches(g) /\ g \in Groups /\ g = Plan[s.at] /\ s.at \in DOMAIN Plan
        /\ DOMAIN Plan = 1 .. Len(Plan) /\ Len(Plan) \in Nat
    BY <1>1, <1>2, PlanFacts DEF CandidateBranches, GroupOf, RunState
  <1>5. s.cand \in Nat /\ MaxSuffix \in Nat /\ s.cand <= MaxSuffix /\ Working(r)
    BY <1>2, BoundAssumption DEF Working, Ends
  <1>6. CASE Claimed(r, n)
    <2>1. n \notin refs
      BY <1>1, <1>2, <1>4, <1>6 DEF Claimed, Known
    <2>2. ASSUME NEW i \in 1 .. MaxSuffix
          PROVE  ~HasOpenPR(CandidateBranch(g, i))
      <3>1. CASE i < s.cand
        BY <1>3, <1>5, <3>1
      <3>2. CASE i >= s.cand
        <4>1. FilledUpTo(g, i) => n \in refs
          BY <1>2, <1>5, <3>2 DEF FilledUpTo
        <4>2. QED
          BY <1>4, <2>1, <4>1 DEF SingleInv, OpenFilled
      <3>3. QED
        BY <1>5, <3>1, <3>2
    <2>3. ASSUME NEW i \in s.at + 1 .. Len(Plan)
          PROVE  CandidateBranches(Plan[i]) \intersect (s.taken \union {n}) = {}
      <3>1. i \in DOMAIN Plan /\ i # s.at
        BY <1>4
      <3>2. n \notin CandidateBranches(Plan[i])
        BY <1>2, <1>4, <3>1, NamesUnused
      <3>3. QED
        BY <1>3, <3>2
    <2>4. /\ u.pc = "checkout" /\ u.branch = n /\ u.taken = s.taken \union {n} /\ u.at = s.at
          /\ u.cand = s.cand /\ u.existing = s.existing /\ GroupOf(r)' = g
      BY <1>6 DEF Claimed, GroupOf
    <2>5. /\ \A i \in 1 .. u.cand - 1 : CandidateBranch(g, i) \in refs'
          /\ \A i \in 1 .. MaxSuffix : \A q \in Runs : pr'[q][CandidateBranch(g, i)] # "open"
      BY <1>2, <1>3, <2>2, <2>4 DEF FilledUpTo, HasOpenPR
    <2>6. /\ u.cand <= MaxSuffix /\ u.branch = CandidateBranch(g, u.cand)
          /\ u.existing \subseteq refs'
          /\ \A i \in u.at + 1 .. Len(Plan) : CandidateBranches(Plan[i]) \intersect u.taken = {}
      BY <1>2, <1>3, <1>5, <2>3, <2>4
    <2> HIDE DEF n, g, s
    <2>7. Passed(r)'
      BY <2>4, <2>5, <2>6 DEF Passed, Ends, InHand, Building, FilledUpTo, HasOpenPR,
                              CandidateBranches, CandidateBranch
    <2> USE DEF n, g, s
    <2>8. QED
      BY <1>2, <1>5, <2>7, SingleQuiet
  <1>7. CASE PassedOver(r, n)
    <2>1. n \in refs /\ ~HasOpenPR(n)
      BY <1>3, <1>4, <1>7 DEF PassedOver, Undisturbed
    <2>2. /\ u.pc = "select" /\ u.cand = s.cand + 1 /\ u.taken = s.taken /\ u.at = s.at
          /\ u.existing = s.existing /\ GroupOf(r)' = g
      BY <1>7 DEF PassedOver, GroupOf
    <2>3. \A i \in 1 .. s.cand : i = s.cand \/ i \in 1 .. s.cand - 1
      BY <1>5
    <2>4. u.cand - 1 = s.cand
      BY <1>5, <2>2
    <2>5. /\ FilledUpTo(g, s.cand)
          /\ \A i \in 1 .. s.cand : ~HasOpenPR(CandidateBranch(g, i))
      BY <1>3, <2>1, <2>3 DEF FilledUpTo
    <2>6. /\ \A i \in 1 .. u.cand - 1 : CandidateBranch(g, i) \in refs'
          /\ \A i \in 1 .. u.cand - 1 : \A q \in Runs : pr'[q][CandidateBranch(g, i)] # "open"
      BY <1>2, <2>4, <2>5 DEF FilledUpTo, HasOpenPR
    <2>7. Passed(r)'
      BY <1>2, <1>3, <2>2, <2>6 DEF Passed, Ends, InHand, Building, FilledUpTo, HasOpenPR,
                                     CandidateBranches, CandidateBranch
    <2>8. QED
      BY <1>2, <1>5, <2>7, SingleQuiet
  <1>8. CASE Leaves(r, "skipped")
    BY <1>2, <1>8, SingleLeaves
  <1>9. QED
    BY <1>2, <1>6, <1>7, <1>8

LEMMA SingleRunStep ==
  ASSUME Undisturbed, SingleInv, TurnInv', NEW r \in Runs,
         \/ Clone(r) \/ Precheck(r) \/ NoNameLeft(r) \/ Checkout(r)
         \/ ApplyAndCommit(r) \/ FinishCommits(r) \/ Push(r)
  PROVE  SingleInv'
  <1> DEFINE s == run[r]
             u == run'[r]
  <1>1. TypeOK /\ Passed(r) /\ s \in RunState
    BY DEF SingleInv, TurnInv, IInv, TypeOK
  <1>2. CASE Clone(r)
    <2>1. \A q \in Runs : ~Working(q)
      BY <1>2 DEF Clone, Undisturbed, TakeTurns, Working, Ends
    <2>2. s.pc = "idle" /\ Inside(r) /\ (Cloned(s, u) \/ EndedAs(u, "failed"))
      BY <1>1, <1>2, CloneEffect
    <2>3. Passed(r)'
      BY <1>1, <2>2 DEF Cloned, EndedAs, Passed, Ends, InHand, Building
    <2>4. QED
      BY <2>1, <2>2, <2>3, SingleQuiet DEF Inside
  <1>3. CASE Precheck(r)
    <2>1. s.pc = "precheck" /\ Inside(r) /\ Looked(s, u)
      BY <1>1, <1>3, PrecheckEffect
    <2>2. /\ u.pc = "select" /\ u.at = 1 /\ u.cand = 1 /\ u.taken = {} /\ u.existing \subseteq refs
      BY <1>1, <2>1 DEF Looked, Passed, Undisturbed, TakeTurns
    <2>3. u.cand - 1 = 0
      BY <2>2
    <2>4. Passed(r)'
      BY <2>1, <2>2, <2>3 DEF Passed, Ends, InHand, Building, FilledUpTo, Inside
    <2>5. QED
      BY <2>1, <2>4, SingleQuiet DEF Inside, Working, Ends
  <1>4. CASE NoNameLeft(r)
    BY <1>1, <1>4, NoNameLeftEffect, SingleLeaves
  <1>5. CASE Checkout(r)
    <2>1. s.pc = "checkout" /\ s.pc \in InHand /\ UNCHANGED <<refs, pr>>
      BY <1>1, <1>5, CheckoutEffect DEF InHand
    <2>2. CASE Inside(r) /\ Started(s, u)
      BY <2>1, <2>2, SingleInHand DEF Started, Inside, InHand, Building
    <2>3. QED
      BY <1>1, <1>5, <2>1, <2>2, CheckoutEffect, SingleLeaves
  <1>6. CASE ApplyAndCommit(r)
    BY <1>1, <1>6, ApplyAndCommitEffect, SingleInHand DEF Attempted, Inside, InHand, Building
  <1>7. CASE FinishCommits(r)
    <2>1. s.pc = "fix" /\ s.pc \in InHand /\ UNCHANGED <<refs, pr>>
      BY <1>1, <1>7, FinishCommitsEffect DEF InHand, Building
    <2>2. CASE Inside(r) /\ u = [s EXCEPT !.pc = "push"]
      <3>1. /\ u.pc = "push" /\ u.at = s.at /\ u.cand = s.cand /\ u.taken = s.taken
            /\ u.existing = s.existing /\ u.branch = s.branch
        BY <1>1, <2>2, NewProgress
      <3>2. QED
        BY <2>1, <2>2, <3>1, SingleInHand DEF Inside, InHand, Building
    <2>3. QED
      BY <1>1, <1>7, <2>1, <2>2, FinishCommitsEffect, SingleLeaves
  <1>8. CASE Push(r)
    <2>1. s.pc = "push" /\ s.pc \in InHand /\ UNCHANGED pr
      BY <1>1, <1>8, PushEffect DEF InHand, Building
    <2>2. CASE Reaches(r) /\ u = [s EXCEPT !.pc = "open"] /\ \A q \in Runs \ {r} : run'[q] = run[q]
      <3>1. /\ u.pc = "open" /\ u.at = s.at /\ u.cand = s.cand /\ u.taken = s.taken
            /\ u.existing = s.existing /\ u.branch = s.branch
        BY <1>1, <2>2, NewProgress
      <3>2. QED
        BY <2>1, <2>2, <3>1, SingleInHand DEF Reaches, InHand, Building
    <2>3. refs' = refs \/ Reaches(r) => refs \subseteq refs'
      BY DEF Reaches
    <2>4. QED
      BY <1>1, <1>8, <2>1, <2>2, <2>3, PushEffect, SingleLeaves
  <1>9. QED
    BY <1>2, <1>3, <1>4, <1>5, <1>6, <1>7, <1>8

\* The pull request of the run is the only one of its group, on a name whose earlier
\* ones are on the remote.
LEMMA SingleProposes ==
  ASSUME Undisturbed, SingleInv, TypeOK, NEW r \in Runs, run[r].pc = "open", Proposes(r),
         refs' = refs
  PROVE  OpenFilled' /\ NoDuplicatePR'
  <1> DEFINE s == run[r]
             g == GroupOf(r)
             b == s.branch
  <1>1. Passed(r) /\ s \in RunState /\ b \in Branches /\ b \in refs
    BY DEF SingleInv, TypeOK, RunState, Proposes, Openable
  <1>2. /\ s.cand \in 1 .. MaxSuffix /\ b = CandidateBranch(g, s.cand)
        /\ FilledUpTo(g, s.cand - 1)
        /\ \A i \in 1 .. MaxSuffix : ~HasOpenPR(CandidateBranch(g, i))
    BY <1>1, BoundAssumption DEF Passed, InHand, Building, RunState
  <1>3. g \in Groups /\ s.cand \in Nat
    BY <1>1, PlanFacts DEF GroupOf, RunState
  <1>4. \A q \in Runs, d \in Branches :
          pr'[q][d] = "open" <=> pr[q][d] = "open" \/ (q = r /\ d = b)
    BY <1>1 DEF Proposes
  <1>5. ASSUME NEW h \in Groups, NEW k \in 1 .. MaxSuffix,
               \E q \in Runs : pr'[q][CandidateBranch(h, k)] = "open"
        PROVE  \A i \in 1 .. k : CandidateBranch(h, i) \in refs
    <2>1. CandidateBranch(h, k) \in Branches
      BY CandidatesAreNames
    <2>2. CASE HasOpenPR(CandidateBranch(h, k))
      BY <2>2 DEF SingleInv, OpenFilled, FilledUpTo
    <2>3. CASE CandidateBranch(h, k) = b
      <3>1. h = g /\ k = s.cand
        BY <1>2, <1>3, <2>3 DEF Undisturbed, NamesApart
      <3>2. \A i \in 1 .. s.cand : i = s.cand \/ i \in 1 .. s.cand - 1
        BY <1>3
      <3>3. QED
        BY <1>1, <1>2, <3>1, <3>2 DEF FilledUpTo
    <2>4. QED
      BY <1>4, <1>5, <2>1, <2>2, <2>3 DEF HasOpenPR
  <1>6. OpenFilled'
    BY <1>5 DEF OpenFilled, FilledUpTo, HasOpenPR, CandidateBranch
  <1>7. ASSUME NEW h \in Groups, NEW q1 \in Runs, NEW q2 \in Runs,
               NEW b1 \in CandidateBranches(h), NEW b2 \in CandidateBranches(h),
               pr'[q1][b1] = "open", pr'[q2][b2] = "open"
        PROVE  q1 = q2 /\ b1 = b2
    <2>1. b1 \in Branches /\ b2 \in Branches
      BY CandidatesNamed
    <2>2. b \in CandidateBranches(h) => h = g
      BY <1>2, <1>3 DEF Undisturbed, NamesApart, CandidateBranches
    <2>3. h = g => ~HasOpenPR(b1) /\ ~HasOpenPR(b2)
      BY <1>2 DEF CandidateBranches
    <2>4. CASE pr[q1][b1] = "open" /\ pr[q2][b2] = "open"
      BY <2>4 DEF SingleInv, NoDuplicatePR
    <2>5. CASE b1 = b \/ b2 = b
      <3>1. ~HasOpenPR(b1) /\ ~HasOpenPR(b2)
        BY <2>2, <2>3, <2>5
      <3>2. QED
        BY <1>4, <1>7, <2>1, <3>1 DEF HasOpenPR
    <2>6. QED
      BY <1>4, <1>7, <2>1, <2>4, <2>5
  <1>8. NoDuplicatePR'
    BY <1>7 DEF NoDuplicatePR, CandidateBranches, CandidateBranch
  <1>9. QED
    BY <1>6, <1>8

LEMMA SingleOpenPR ==
  ASSUME Undisturbed, SingleInv, TurnInv', NEW r \in Runs, OpenPR(r)
  PROVE  SingleInv'
  <1>1. TypeOK
    BY DEF SingleInv, TurnInv, IInv
  <1>2. /\ run[r].pc = "open" /\ refs' = refs /\ MovesOn(r)
        /\ UNCHANGED pr \/ Proposes(r)
    BY <1>1, OpenPREffect
  <1>3. run[r].pc \in {"select"} \union InHand /\ Working(r)
    BY <1>2 DEF InHand, Building, Working, Ends
  <1>4. Passed(r)'
    BY <1>1, <1>2, <1>3, MovesOnPassed
  <1>5. OpenFilled' /\ NoDuplicatePR'
    BY <1>1, <1>2, SingleProposes, NothingProposed
  <1>6. QED
    BY <1>2, <1>3, <1>4, <1>5, SingleStep DEF MovesOn

LEMMA SingleCancel ==
  ASSUME Undisturbed, SingleInv, TurnInv', NEW r \in Runs, Cancel(r)
  PROVE  SingleInv'
  <1>1. TypeOK
    BY DEF SingleInv, TurnInv, IInv
  <1>2. /\ Working(r) /\ EndedAs(run'[r], "cancelled")
        /\ \A q \in Runs \ {r} : run'[q] = run[q]
        /\ \/ UNCHANGED <<refs, tip, pr, pushed>>
           \/ run[r].pc = "push" /\ Reaches(r) /\ UNCHANGED pr
           \/ run[r].pc = "open" /\ Proposes(r) /\ UNCHANGED <<refs, tip, pushed>>
    BY <1>1, CancelEffect DEF Working
  <1>3. refs \subseteq refs'
    BY <1>2 DEF Reaches
  <1>4. Passed(r)'
    BY <1>1, <1>2, <1>3, MovesOnPassed
  <1>5. OpenFilled' /\ NoDuplicatePR'
    BY <1>1, <1>2, <1>3, SingleProposes, NothingProposed
  <1>6. QED
    BY <1>2, <1>4, <1>5, SingleStep

LEMMA SingleUserStep ==
  ASSUME Undisturbed, SingleInv, TurnInv', UserStep \/ UNCHANGED vars
  PROVE  SingleInv'
  <1>1. TypeOK
    BY DEF SingleInv, TurnInv, IInv
  <1>2. /\ UNCHANGED <<run, refs>>
        /\ \A q \in Runs, b \in Branches : pr'[q][b] = "open" => pr[q][b] = "open"
    BY <1>1, UserStepEffect DEF Undisturbed, vars
  <1>3. OpenFilled' /\ NoDuplicatePR'
    BY <1>2, NothingProposed
  <1>4. ASSUME NEW r \in Runs
        PROVE  Passed(r)'
    <2> DEFINE s == run[r]
               g == GroupOf(r)
    <2>1. Passed(r) /\ s \in RunState /\ GroupOf(r)' = g /\ g \in Groups
      BY <1>1, <1>2, PlanFacts DEF SingleInv, TypeOK, GroupOf, RunState
    <2>2. \A i \in 1 .. MaxSuffix : CandidateBranch(g, i) \in Branches
      BY <2>1, CandidatesAreNames
    <2>3. \A i \in 1 .. s.cand - 1 : i \in 1 .. MaxSuffix
      BY <2>1, BoundAssumption DEF RunState
    <2>4. \A i \in 1 .. MaxSuffix :
            ~HasOpenPR(CandidateBranch(g, i)) =>
              \A q \in Runs : pr'[q][CandidateBranch(g, i)] # "open"
      BY <1>2, <2>2 DEF HasOpenPR
    <2>5. QED
      BY <1>2, <2>1, <2>3, <2>4 DEF Passed, HasOpenPR, FilledUpTo, CandidateBranches, CandidateBranch
  <1>5. QED
    BY <1>3, <1>4 DEF SingleInv, OpenFilled

LEMMA SingleNext ==
  ASSUME Undisturbed, SingleInv, [Next]_vars
  PROVE  SingleInv'
  <1>1. TurnInv'
    BY TurnNext DEF SingleInv, Undisturbed
  <1>2. ASSUME NEW r \in Runs, RunStep(r) \/ Cancel(r)
        PROVE  SingleInv'
    BY <1>1, <1>2, SingleRunStep, SingleTryCandidate, SingleOpenPR, SingleCancel DEF RunStep
  <1>3. QED
    BY <1>1, <1>2, SingleUserStep DEF Next

LEMMA SingleInit == Init => SingleInv
  <1> SUFFICES ASSUME Init PROVE SingleInv
    OBVIOUS
  <1>1. TurnInv
    BY TurnInit
  <1>2. \A r \in Runs : \A b \in Branches : pr[r][b] = "none"
    BY DEF Init
  <1>3. \A r \in Runs : /\ run[r].pc = "idle" /\ run[r].at = 1 /\ run[r].cand = 1
                        /\ run[r].taken = {}
    BY DEF Init, FreshRun
  <1>4. \A b \in Branches : ~HasOpenPR(b)
    BY <1>2 DEF HasOpenPR
  <1>5. \A g \in Groups : \A k \in 1 .. MaxSuffix : ~HasOpenPR(CandidateBranch(g, k))
    BY <1>4, CandidatesAreNames
  <1>6. NoDuplicatePR
    BY <1>2, CandidatesNamed DEF NoDuplicatePR
  <1>7. \A r \in Runs : Passed(r)
    BY <1>3 DEF Passed, InHand, Building
  <1>8. QED
    BY <1>1, <1>5, <1>6, <1>7 DEF SingleInv, OpenFilled

\* Where runs take turns, look-ups answer, branches stay and groups have names of
\* their own, no group ever has two open pull requests, however many runs propose it
\* and whatever the user merges or closes in between.
THEOREM NoDuplicates ==
  ASSUME Undisturbed
  PROVE  Spec => []NoDuplicatePR
  <1>1. SingleInv /\ [Next]_vars => SingleInv'
    BY SingleNext
  <1>2. SingleInv => NoDuplicatePR
    BY DEF SingleInv
  <1>3. QED
    BY <1>1, <1>2, SingleInit, PTL DEF Spec
=============================================================================
