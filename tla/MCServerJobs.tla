---------------------------- MODULE MCServerJobs ----------------------------
(* Instances of ServerJobs for TLC. *)
EXTENDS ServerJobs

CONSTANTS c1, c2

MCOneClient == {c1}
MCTwoClients == {c1, c2}
=============================================================================
