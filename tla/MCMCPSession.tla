---------------------------- MODULE MCMCPSession ----------------------------
(* One session.  Two injections of one kind on equal lines of two files, and one that  *)
(* may be introduced on the line on which semgrep finds another; a secret, one more    *)
(* that may be introduced elsewhere, and what the LLM says of the same.  All passes of *)
(* the grouping find something to merge.                                               *)
EXTENDS MCPSession, TLC

CONSTANTS file1, file2, file3, noLine

MCScannerOf == [f \in Flaws |->
  CASE f <= 3 -> "static_injection_analyzer" [] f = 4 -> "semgrep_taint"
    [] f = 5 -> "llm_code_reviewer" [] OTHER -> "secret_scanner"]
MCCategoryOf == [f \in Flaws |-> IF f <= 4 THEN "injection_risk" ELSE "exposed_secrets"]
MCTitleOf == [f \in Flaws |->
  CASE f <= 3 -> "sql" [] f = 4 -> "taint" [] f = 5 -> "a key" [] OTHER -> "key"]
MCWordingOf == [f \in Flaws |-> IF f = 5 THEN "key" ELSE MCTitleOf[f]]
MCRowOf == [f \in Flaws |-> CASE f = 3 -> 4 [] f = 5 -> 0 [] OTHER -> f]
MCHome == [f \in Flaws |-> IF f \in {2, 7} THEN file2 ELSE file1]
MCLineOf == [f \in Flaws |-> IF f \in {4, 5} THEN noLine ELSE <<"line", IF f = 2 THEN 1 ELSE f>>]
MCSeverityOf == [f \in Flaws |->
  CASE f = 4 -> "medium" [] f = 5 -> "low" [] f = 7 -> "critical" [] OTHER -> "high"]
=============================================================================
