---------------------------- MODULE MCScanRunner ----------------------------
(* An instance of ScanRunner for TLC: discovery, a pool of two DAST scanners, *)
(* an empty pool, a pool of one SAST scanner and the LLM review.              *)
EXTENDS ScanRunner, TLC

CONSTANTS discovery, injection, headers, osv, review, f1, f2, f3

MCScanners == {discovery, injection, headers, osv, review}
MCPhases ==
  <<[kind |-> "task", scanners |-> <<discovery>>, reads_skipped |-> FALSE],
    [kind |-> "pool", scanners |-> <<injection, headers>>, reads_skipped |-> FALSE],
    [kind |-> "pool", scanners |-> <<>>, reads_skipped |-> FALSE],
    [kind |-> "pool", scanners |-> <<osv>>, reads_skipped |-> TRUE],
    [kind |-> "plain", scanners |-> <<review>>, reads_skipped |-> TRUE]>>
MCScannerOf == (f1 :> injection) @@ (f2 :> headers) @@ (f3 :> osv)
MCMaxEmits == [s \in MCScanners |-> IF s \in {discovery, osv} THEN 1 ELSE 0]
=============================================================================
