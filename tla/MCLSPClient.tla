---------------------------- MODULE MCLSPClient -----------------------------
(* Instances of LSPClient for TLC: two files traced at once, or one after another. *)
EXTENDS LSPClient, TLC

CONSTANTS f1, f2
\* The batch takes both, or the one with the alias is left to the next.
EitherWay == {<<{f1, f2}>>, <<{f1}, {f2}>>}
OneAlias == (f1 :> 0) @@ (f2 :> 1)
=============================================================================
