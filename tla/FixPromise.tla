----------------------------- MODULE FixPromise -----------------------------
(***************************************************************************)
(* What applying fixes locally promises, without repository, branches,     *)
(* threads or locks: the fixes of a job appear at once or not at all, and  *)
(* the job reports them exactly when they did (fix_service.py:6-20).       *)
(***************************************************************************)
CONSTANTS Jobs, Files

VARIABLES
  fixes,   \* job -> the files it committed a fix to
  outcome  \* job -> what it reports

vars == <<fixes, outcome>>

Init ==
  /\ fixes = [j \in Jobs |-> {}]
  /\ outcome = [j \in Jobs |-> "running"]

\* All fixes of the job are committed together.
Publish(j) ==
  /\ outcome[j] = "running" /\ fixes[j] = {}
  /\ \E F \in (SUBSET Files) \ {{}} : fixes' = [fixes EXCEPT ![j] = F]
  /\ UNCHANGED outcome

Report(j) ==
  /\ outcome[j] = "running"
  /\ outcome' = [outcome EXCEPT ![j] = IF fixes[j] = {} THEN "none" ELSE "applied"]
  /\ UNCHANGED fixes

Next == \E j \in Jobs : Publish(j) \/ Report(j)

Spec == Init /\ [][Next]_vars
=============================================================================
