--------------------------- MODULE RescanVerdicts ---------------------------
(***************************************************************************)
(* What isitsecure concludes from a re-scan: the identity of a finding      *)
(* (engine/identity.py), the grouping of similar findings in a report       *)
(* (llm_triage_service.py), the one classifier of fixed findings            *)
(* (fixes/verifier.py) and the three verdicts built on it: of the MCP       *)
(* verify tool (mcp_server.py), of the fix flow (verifier.py) and of        *)
(* `isitsecure verify` (reverify.py).                                       *)
(*                                                                         *)
(* A finding carries the flaw it reports.  The code never knows it, and no  *)
(* operator of this module compares it except as the object's identity: it  *)
(* is there for the properties, which compare verdicts with the truth.      *)
(***************************************************************************)
EXTENDS Integers, FiniteSets

CONSTANTS
  NumFlaws,
  ScannerOf,      \* flaw -> the scanner that finds it
  CategoryOf, TitleOf,    \* flaw -> category and title of its findings
  WordingOf,      \* flaw -> the titles that are taken for a variant of its own
  RowOf,          \* flaw -> the number of its line, 0 if the finding has none
  Collapsing,     \* the categories of scope SERVER or SHARED_ROOT (REMEDIATION_SCOPE)
  LLMScanners,    \* LLM_SCANNERS: no re-scan reproduces what they find
  Reviewer,       \* "llm_code_reviewer": its findings stand for the others of a group
  SastOnly,       \* SAST_ONLY_SCANNERS: the LLM does not triage what they find
  Semgrep,        \* the scanner that is an optional dependency
  NoLine          \* no line of the snippet is marked: no discriminator

ASSUME FlawAssumption == NumFlaws \in Nat

\* The flaws in the order in which the scanners report them.
Flaws == 1 .. NumFlaws
Scanners == {ScannerOf[f] : f \in Flaws}
Severities == {"critical", "high", "medium", "low"}

\* A finding: the flaw, the file, the flagged line, the severity.
\* A report: its findings, at most one of a flaw and in the order of the flaws, and the
\* scanners that failed or are missing.
Scanner(f) == ScannerOf[f.flaw]
Category(f) == CategoryOf[f.flaw]
Title(f) == TitleOf[f.flaw]
IsVerifiable(f) == Scanner(f) \notin LLMScanners

-----------------------------------------------------------------------------
(* Identity *)

legacy_fingerprint(f) == <<Scanner(f), Category(f), f.file, Title(f)>>
\* The hash of the legacy parts and of the line, if one is marked.
finding_fingerprint(f) == [legacy |-> legacy_fingerprint(f), line |-> f.line]

SameFingerprint(f, g) == finding_fingerprint(f) = finding_fingerprint(g)
SameLegacy(f, g) == legacy_fingerprint(f) = legacy_fingerprint(g)
SameKind(f, g) ==
  Scanner(f) = Scanner(g) /\ Category(f) = Category(g) /\ Title(f) = Title(g)
MovedTo(f, g) == SameKind(f, g) /\ f.line # NoLine /\ g.line = f.line /\ g.file # f.file

-----------------------------------------------------------------------------
(* Grouping (_rule_based_dedup): in four passes, findings with equal keys become  *)
(* the best of them.                                                          *)

Rank(sev) == CASE sev = "critical" -> 0 [] sev = "high" -> 1 [] sev = "medium" -> 2 [] OTHER -> 3

\* The order in which _pick_best sorts; the order of the flaws stands for the length of
\* the descriptions.
Better(f, g) ==
  \/ Rank(f.sev) < Rank(g.sev)
  \/ /\ Rank(f.sev) = Rank(g.sev)
     /\ \/ Scanner(f) = Reviewer /\ Scanner(g) # Reviewer
        \/ (Scanner(f) = Reviewer <=> Scanner(g) = Reviewer) /\ f.flaw < g.flaw
Best(group) == CHOOSE f \in group : \A g \in group \ {f} : Better(f, g)

\* Findings that one fix does not remove together are kept apart by where they are.
Location(f) == <<f.file, RowOf[f.flaw]>>
Collapses(f) == Category(f) \in Collapsing
Apart(f) == IF Collapses(f) THEN <<>> ELSE Location(f)

title_key(f) == <<Title(f), Apart(f)>>
line_key(f) ==
  IF RowOf[f.flaw] = 0 THEN <<f.flaw>> ELSE <<f.file, RowOf[f.flaw], Category(f)>>
pattern_key(f) ==
  <<Scanner(f), Category(f), f.file, IF Collapses(f) THEN <<>> ELSE <<Title(f)>> >>
wording_key(f) == <<Category(f), WordingOf[f.flaw], Apart(f)>>

SameTitle(f, g) == title_key(f) = title_key(g)
SameLine(f, g) == line_key(f) = line_key(g)
SamePattern(f, g) == pattern_key(f) = pattern_key(g)
SameWording(f, g) == wording_key(f) = wording_key(g)

ByTitle(F) == {f \in F : f = Best({g \in F : SameTitle(f, g)})}
ByLine(F) == {f \in F : f = Best({g \in F : SameLine(f, g)})}
\* Only for the scanners of SastOnly, and only three or more.
Pattern(F, f) == {g \in F : SamePattern(f, g)}
ByPattern(F) ==
  {f \in F : Scanner(f) \in SastOnly /\ Cardinality(Pattern(F, f)) > 2
               => f = Best(Pattern(F, f))}
ByWording(F) == {f \in F : f = Best({g \in F : SameWording(f, g)})}

Grouped(raw) == ByWording(ByPattern(ByLine(ByTitle(raw))))

\* No pass touches f, whichever of the findings F are reported.
Ungrouped(F, f) ==
  /\ \A g \in F \ {f} : ~ (SameTitle(f, g) \/ SameLine(f, g) \/ SameWording(f, g))
  /\ Scanner(f) \in SastOnly => Cardinality(Pattern(F, f)) <= 2

-----------------------------------------------------------------------------
(* classify_against_rescan *)

First(F) == CHOOSE f \in F : \A g \in F : f.flaw <= g.flaw

\* f takes the first free finding of the re-scan that fits, if it has none yet.
Claim(st, f, fitting) ==
  IF f \in st.claimed \/ fitting = {}
    THEN st
    ELSE [claimed |-> st.claimed \union {f}, free |-> st.free \ {First(fitting)}]

\* The findings F have their turns, in the order of the report.
Turn(st, F, fits, n) ==
  IF \A f \in F : f.flaw # n THEN st
  ELSE LET f == CHOOSE g \in F : g.flaw = n
       IN Claim(st, f, fits[f] \intersect st.free)
ClaimInTurn(st, F, fits) ==
  LET After[n \in 0 .. NumFlaws] ==
        IF n = 0 THEN st ELSE Turn(After[n - 1], F, fits, n)
  IN After[NumFlaws]

\* `context` takes part in the matching, before what is asked about.
Round(st, originals, context, fits) ==
  ClaimInTurn(ClaimInTurn(st, context \ originals, fits), originals, fits)

ClassifyMany(originals, rescan, context) ==    \* slip: one finding accounts for all
  LET still == {f \in originals : \E g \in rescan : SameFingerprint(f, g)}
      moved == {f \in originals \ still : \E g \in rescan : MovedTo(f, g)}
  IN [still |-> still, moved |-> moved, gone |-> originals \ (still \union moved)]
Classify(originals, rescan, context) ==
  LET everyone == originals \union context
      start == [claimed |-> {}, free |-> rescan]
      exact == Round(start, originals, context,
                 [f \in everyone |-> {g \in rescan : SameFingerprint(f, g)}])
      here == Round(exact, originals, context,
                [f \in everyone |-> {g \in rescan : SameLegacy(f, g)}])
      anywhere == Round(here, originals, context,
                    [f \in everyone |-> {g \in rescan : MovedTo(f, g)}])
  IN [still |-> originals \intersect here.claimed,
      moved |-> originals \intersect (anywhere.claimed \ here.claimed),
      gone |-> originals \ anywhere.claimed]

-----------------------------------------------------------------------------
(* calculate_grade and launch_verdict (plain_english.py) *)

Tally(findings) == [s \in Severities |-> Cardinality({f \in findings : f.sev = s})]

\* The position in _GRADE_ORDER, the best first.
Grade(count) ==
  CASE count["critical"] > 0 -> 9
    [] count["critical"] = 0 /\ count["high"] > 0 -> 8
    [] count["critical"] + count["high"] = 0 /\ count["medium"] > 0 ->
         IF count["medium"] >= 3 THEN 7 ELSE 6
    [] OTHER ->
         IF count["low"] >= 6 THEN 5
         ELSE IF count["low"] >= 3 THEN 4
         ELSE IF count["low"] >= 1 THEN 3 ELSE 2

\* A semgrep that verification asked for in vain is no gap of the scan.
SafeToLaunch(count, new) ==
  count["critical"] = 0 /\ count["high"] = 0 /\ new.failed = {}

-----------------------------------------------------------------------------
(* The three verdicts.  `unparsed` are the files that do not parse now. *)

Unmapped == "unmapped"      \* an entry of scanner_errors that names no scanner
FailureBlocks(f, new) ==
  Unmapped \in new.failed \/ Scanner(f) \in new.failed \union new.missing
Verifiable(F) == {f \in F : IsVerifiable(f)}

FixFlowResolved(fixed, old, new, unparsed) ==
  LET c == Classify(Verifiable(fixed), new.findings, old)
  IN {f \in c.gone : ~ FailureBlocks(f, new) /\ f.file \notin unparsed}

ReverifyFixed(asked, new, unparsed) ==
  LET c == Classify(Verifiable(asked), new.findings, {})
  IN {f \in c.gone : f.file \notin unparsed /\ ~ FailureBlocks(f, new)}

\* _verify_result: what the grade is computed from holds the findings constant
\* that the re-scan can say nothing about.
HeldBlocked(f, lost, new) ==           \* slip: the lost ones are not held
  ~ IsVerifiable(f) \/ FailureBlocks(f, new)
HeldConstant(f, lost, new) ==
  ~ IsVerifiable(f) \/ FailureBlocks(f, new) \/ f \in lost

VerifyResult(old, new, unparsed) ==
  LET checkable == {f \in Verifiable(old) : ~ FailureBlocks(f, new)}
      c == Classify(checkable, new.findings, Verifiable(old))
      lost == {f \in c.gone : f.file \in unparsed}
      again == Tally({f \in new.findings : IsVerifiable(f) /\ ~ FailureBlocks(f, new)})
      held == Tally({f \in old : HeldConstant(f, lost, new)})
  IN [resolved |-> c.gone \ lost,
      still |-> c.still,
      unverifiable |-> Cardinality(old \ checkable) + Cardinality(c.moved)
                         + Cardinality(lost),
      effective |-> [s \in Severities |-> again[s] + held[s]]]
=============================================================================
