---------------------------- MODULE FixProposals ----------------------------
(***************************************************************************)
(* What the remote fix flow promises the owner of a repository: its runs   *)
(* only add commits to branches other than the base branch and open pull   *)
(* requests from them, each run at most one per branch.  What becomes of a *)
(* pull request, of a branch and of the base branch is the owner's         *)
(* decision.                                                               *)
(***************************************************************************)
EXTENDS Naturals

CONSTANTS Runs, Branches, Base, Commits

VARIABLES
  refs,  \* the branches of the repository
  tip,   \* branch -> its commits
  pr     \* run, branch -> state of the pull request the run opened there

vars == <<refs, tip, pr>>

Init ==
  /\ Base \in refs
  /\ refs \in SUBSET Branches
  /\ tip \in [Branches -> SUBSET Commits]
  /\ pr = [r \in Runs |-> [b \in Branches |-> "none"]]

\* A run pushes a new branch, or more commits to an existing one.
Publish(b, commits) ==
  /\ b # Base
  /\ b \in refs => tip[b] \subseteq commits
  /\ refs' = refs \union {b}
  /\ tip' = [tip EXCEPT ![b] = commits]
  /\ UNCHANGED pr

\* A run opens its one pull request for a branch the base branch lacks.
Propose(r, b) ==
  /\ b \in refs \ {Base}
  /\ pr[r][b] = "none"
  /\ \A q \in Runs : pr[q][b] # "open"
  /\ ~(tip[b] \subseteq tip[Base])
  /\ pr' = [pr EXCEPT ![r][b] = "open"]
  /\ UNCHANGED <<refs, tip>>

\* The owner accepts a pull request: the base branch grows.
Accept(r, b, merged) ==
  /\ pr[r][b] = "open"
  /\ tip[Base] \subseteq merged
  /\ tip' = [tip EXCEPT ![Base] = merged]
  /\ pr' = [pr EXCEPT ![r][b] = "merged"]
  /\ UNCHANGED refs

Decline(r, b) ==
  /\ pr[r][b] = "open"
  /\ pr' = [pr EXCEPT ![r][b] = "closed"]
  /\ UNCHANGED <<refs, tip>>

\* The owner deletes a branch, which closes its pull requests.
Remove(b) ==
  /\ b \in refs \ {Base}
  /\ refs' = refs \ {b}
  /\ tip' = [tip EXCEPT ![b] = {}]
  /\ pr' = [r \in Runs |-> [pr[r] EXCEPT ![b] = IF @ = "open" THEN "closed" ELSE @]]

Next ==
  \/ \E b \in Branches : Publish(b, tip'[b]) \/ Remove(b)
  \/ \E r \in Runs, b \in Branches :
       Propose(r, b) \/ Accept(r, b, tip'[Base]) \/ Decline(r, b)

Spec == Init /\ [][Next]_vars
=============================================================================
