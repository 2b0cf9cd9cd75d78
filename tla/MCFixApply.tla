---------------------------- MODULE MCFixApply ----------------------------
(* Instances of FixApply for TLC. *)
EXTENDS FixApply, TLC

CONSTANTS j1, j2, f1, f2, u1

MCOneJob == {j1}
MCTwoJobs == {j1, j2}
MCFiles == {f1, f2}
MCNoEdits == {}
MCOneEdit == {u1}

MCNoActs == {}
MCAllActs == AllUserActs

MCNoFails == {}
MCReadFails == AllFails \ {"undo"}
MCUserFails == AllFails \ {"read", "net"}
=============================================================================
