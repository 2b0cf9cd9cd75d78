------------------------------ MODULE MCPRFlow ------------------------------
(* Instances of PRFlow for TLC. *)
EXTENDS PRFlow

CONSTANTS g1, g2, f1, f2, f3, main, shared, other

MCFindingsTwoFixes == [g \in {g1} |-> <<f1, f2>>]
MCFindingsTwoGroups == [g \in {g1, g2} |-> IF g = g1 THEN <<f1, f2>> ELSE <<f3>>]
MCFileOf == [f \in {f1, f2, f3} |-> IF f = f3 THEN other ELSE shared]
MCPlanOne == <<g1>>
MCPlanTwo == <<g1, g2>>

\* No two groups have a branch name in common ...
MCNameOf == [g \in {g1, g2} |-> [k \in 1 .. 2 * MaxSuffix |-> <<g, k>>]]
\* ... or the second name of g1 (whose root is moved out of the way of the base
\* branch) is the first of g2, as when a suffix was deduplicated with "-2".
MCTwinNames == [MCNameOf EXCEPT ![g2][1] = <<g1, MaxSuffix + 2>>]

\* A run opens pull requests against a branch an earlier run proposed fixes on.
MCFixBranchBase == <<g1, 1>>
MCBaseLeftover == {<<g1, MaxSuffix + 1>>}
MCTwinLeftovers == {<<g1, MaxSuffix + 1>>, <<g1, MaxSuffix + 2>>, <<g2, 2>>}
MCAllLeftovers == {<<g1, k>> : k \in 1 .. MaxSuffix}
=============================================================================
