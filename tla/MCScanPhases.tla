---------------------------- MODULE MCScanPhases ----------------------------
(* An instance of ScanPhases for TLC. *)
EXTENDS ScanPhases

CONSTANTS x1, x2

MCFlaws == {x1, x2}
MCSevere == {x1}
MCFinders == {"dast", "rls_deep", "sast", "sast_guided_dast", "cross_reference"}

\* What was given, with every mode; both users' credentials come together, a key and
\* a language server with a repository.
MCRequests ==
  {r \in Request : /\ r.url \/ r.repo
                   /\ r.b = (r.a # "none")
                   /\ r.lsp = r.repo
                   /\ r.keyed => r.repo}
=============================================================================
