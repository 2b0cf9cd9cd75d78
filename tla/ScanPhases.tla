----------------------------- MODULE ScanPhases -----------------------------
(***************************************************************************)
(* The phases of one scan and the context they share: engine/agent.py,     *)
(* _scan_impl and the _phase_* generators it drains one after another.     *)
(*                                                                         *)
(* A step is a phase, or one scanner of a phase that runs several.  How a  *)
(* scanner runs, times out and is cancelled is ScanRunner's: here it hands *)
(* over at most one finding or fails, and a pool may do both.  The site,   *)
(* the repository, logins and the LLM answer as they like.                 *)
(*                                                                         *)
(* Left out: progress events, the consumer that stops (ScanRunner), the    *)
(* grading of the report, OOB payloads, and tables, which only widen what  *)
(* rls_deep probes.                                                        *)
(***************************************************************************)
EXTENDS Naturals, FiniteSets, Sequences, SequencesExt

CONSTANTS
  Requests,     \* what a scan may be asked for
  Flaws,        \* the flaws a finding may be about
  Severe,       \* those rated CRITICAL or HIGH
  Finders,      \* the scanners that may find something
  MaxFindings,  \* bound: findings of one scan
  MaxFailures   \* bound: scanners that fail in one scan

Modes == {"url_only", "code_only", "authenticated", "full"}
Request ==
  [mode : Modes \union {"auto"}, url : BOOLEAN, repo : BOOLEAN,
   a : {"none", "browser", "token"}, b : BOOLEAN,  \* the two users' credentials
   keyed : BOOLEAN,                                \* an LLM key is configured
   lsp : BOOLEAN]                                  \* a language server is installed

ASSUME BoundsAssumption == MaxFindings \in Nat /\ MaxFailures \in Nat
ASSUME SevereAssumption == Severe \subseteq Flaws
ASSUME RequestsAssumption == Requests \subseteq Request
ASSUME NonEmptyAssumption ==
  \A r \in Requests : (r.url \/ r.repo) /\ (r.b => r.a # "none")

VARIABLES
  request,    \* the arguments of scan()
  step,       \* the next step, or how the scan ended
  ctx,        \* ScanContext
  raised,     \* history: what scanners handed over
  disproved,  \* history: what a completed judgement took out
  failed      \* history: the scanners that failed

vars == <<request, step, ctx, raised, disproved, failed>>

Live == {"dast", "rls_deep", "idor", "dom_xss", "jwt", "priv_esc", "idor_cross_user",
         "idor_cross_user_api", "body_param_fuzzer", "race_condition"}
SignedIn == {"jwt", "priv_esc", "idor_cross_user", "idor_cross_user_api",
             "body_param_fuzzer", "race_condition"}
Code == {"sast", "lsp_validator", "llm_review"}
Both == {"sast_guided_dast", "llm_business_logic", "cross_reference"}
Judges == {"probe_analyzer", "oob_callback", "injection_adjudicator", "llm_triage"}
Scanners == Live \union Code \union Both \union Judges

Finding == [by : Scanners, flaw : Flaws]

Steps ==
  <<"url_ingestion", "endpoint_discovery", "authenticated_crawl", "api_login",
    "rest_login", "second_user", "oob_registration",
    "dast", "rls_anon", "idor", "dom_xss_anon",
    "jwt", "rls_deep", "priv_esc", "idor_cross_user", "idor_cross_user_api",
    "body_param_fuzzer", "race_condition", "dom_xss_signed_in",
    "probe_analyzer", "oob_callback", "repo_ingestion", "lsp_initialization", "sast",
    "lsp_validation", "llm_review", "cross_reference", "sast_guided_dast",
    "llm_business_logic", "injection_adjudication", "triage", "report">>
Ends == {"complete", "aborted", "raised"}

-----------------------------------------------------------------------------
(* The mode. *)

_detect_scan_mode(r) ==
  CASE r.url /\ r.repo         -> "full"
    [] r.url /\ ~r.repo /\ r.a # "none" -> "authenticated"
    [] ~r.url /\ r.repo        -> "code_only"
    [] OTHER                   -> "url_only"

\* Credentials upgrade a scan that would not sign in.
ModeOf(r) ==
  LET mode == IF r.mode = "auto" THEN _detect_scan_mode(r) ELSE r.mode IN
  IF r.a # "none" /\ mode = "url_only" THEN "authenticated" ELSE mode

ReadsSite == {"url_only", "authenticated", "full"}
SignsIn == {"authenticated", "full"}
ReadsCode == {"code_only", "full"}

Context ==
  [mode : Modes, snapshot : BOOLEAN, endpoints : BOOLEAN,
   supabase : BOOLEAN,                                  \* project URL and anon key known
   crawl : {"none", "nothing", "pages", "rich"},        \* "rich": a token, requests and ids too
   a : BOOLEAN, b : BOOLEAN,                            \* the sessions
   oob : BOOLEAN, repo : BOOLEAN, lsp : BOOLEAN,
   code : SUBSET Finding,                               \* sast_code_findings
   findings : SUBSET Finding, ran : Seq(Scanners),
   unread : BOOLEAN,                                    \* ingestion_errors
   errors : SUBSET Scanners]                            \* scanner_errors

Init ==
  /\ request \in Requests
  /\ step = Steps[1]
  /\ ctx = [mode |-> ModeOf(request), snapshot |-> FALSE, endpoints |-> FALSE,
            supabase |-> FALSE, crawl |-> "none", a |-> FALSE, b |-> FALSE,
            oob |-> FALSE, repo |-> FALSE, lsp |-> FALSE, code |-> {},
            findings |-> {}, ran |-> <<>>, unread |-> FALSE, errors |-> {}]
  /\ raised = {} /\ disproved = {} /\ failed = {}

At(s) == step = s
Proceed == \E i \in 1 .. Len(Steps) - 1 : step = Steps[i] /\ step' = Steps[i + 1]
End(how) == step' = how
Quietly == UNCHANGED <<request, raised, disproved, failed>>

-----------------------------------------------------------------------------
(* The site: ingestion, discovery, logins. *)

UrlIngestion ==
  /\ At("url_ingestion")
  /\ IF request.url /\ ctx.mode \in ReadsSite
       THEN \/ Proceed /\ ctx' = [ctx EXCEPT !.snapshot = TRUE]
            \/ End("aborted") /\ UNCHANGED ctx
       ELSE Proceed /\ UNCHANGED ctx
  /\ Quietly

\* Discovery is not guarded: when it raises, the scan does.
EndpointDiscovery ==
  /\ At("endpoint_discovery")
  /\ \/ /\ ctx.snapshot
        /\ \E some, supabase \in BOOLEAN :
             ctx' = [ctx EXCEPT !.endpoints = some, !.supabase = supabase]
        /\ Proceed
     \/ ctx.snapshot /\ End("raised") /\ UNCHANGED ctx
     \/ ~ctx.snapshot /\ Proceed /\ UNCHANGED ctx
  /\ Quietly

\* A provider was built if Supabase is known and there are credentials.
HasProvider == ctx.supabase /\ request.a # "none"

AuthenticatedCrawl ==
  /\ At("authenticated_crawl")
  /\ IF request.a # "none" /\ request.url /\ ctx.mode \in SignsIn
       THEN \E crawl \in {"none", "nothing", "pages", "rich"} :
              ctx' = [ctx EXCEPT !.crawl = crawl, !.a = (crawl = "rich"),
                                 !.endpoints = @ \/ crawl = "rich"]
       ELSE UNCHANGED ctx
  /\ Proceed /\ Quietly

\* The first login may succeed and the second raise: the first session stays.
Login ==
  \E a, b \in BOOLEAN :
    /\ b => a /\ request.b
    /\ ctx' = [ctx EXCEPT !.a = a, !.b = b]

ApiLogin ==
  /\ At("api_login")
  /\ IF ~ctx.a /\ HasProvider /\ ctx.mode \in SignsIn THEN Login ELSE UNCHANGED ctx
  /\ Proceed /\ Quietly

RestLogin ==
  /\ At("rest_login")
  /\ IF ~ctx.a /\ request.a = "token" /\ request.url /\ ctx.mode \in SignsIn
       THEN Login ELSE UNCHANGED ctx
  /\ Proceed /\ Quietly

SecondUser ==
  /\ At("second_user")
  /\ IF ctx.a /\ request.b /\ ~ctx.b /\ HasProvider
       THEN \E b \in BOOLEAN : ctx' = [ctx EXCEPT !.b = b]
       ELSE UNCHANGED ctx
  /\ Proceed /\ Quietly

\* The callbacks' payloads add endpoints only where there are some.
OobRegistration ==
  /\ At("oob_registration")
  /\ IF request.url /\ ctx.mode \in ReadsSite
       THEN \E oob \in BOOLEAN : ctx' = [ctx EXCEPT !.oob = oob]
       ELSE UNCHANGED ctx
  /\ Proceed /\ Quietly

-----------------------------------------------------------------------------
(* Scanners. *)

SignedInPhase == ctx.a /\ ctx.mode \in SignsIn
Rich == ctx.crawl = "rich"

AnonRlsAlways == ctx.supabase                      \* slip: the gate is gone
AnonRls == ctx.supabase /\ ~SignedInPhase

DomXssAnon == request.url /\ ctx.crawl = "none" /\ ctx.mode \in {"url_only", "full"}

\* When a step that runs a scanner runs it ...
Due ==
  [dast                |-> ctx.endpoints /\ ctx.snapshot,
   rls_anon            |-> AnonRls,
   idor                |-> ctx.endpoints,
   dom_xss_anon        |-> DomXssAnon,
   jwt                 |-> SignedInPhase /\ request.url,
   rls_deep            |-> SignedInPhase /\ ctx.supabase,
   priv_esc            |-> SignedInPhase,
   idor_cross_user     |-> SignedInPhase /\ ctx.b /\ Rich,
   idor_cross_user_api |-> SignedInPhase /\ ctx.b /\ ctx.endpoints,
   body_param_fuzzer   |-> SignedInPhase /\ Rich,
   race_condition      |-> SignedInPhase /\ Rich,
   dom_xss_signed_in   |-> SignedInPhase /\ ctx.crawl \in {"pages", "rich"},
   probe_analyzer      |-> ctx.findings # {},
   oob_callback        |-> ctx.oob,
   sast                |-> ctx.repo /\ ctx.mode \in ReadsCode,
   llm_review          |-> ctx.repo /\ request.keyed /\ ctx.mode \in ReadsCode,
   sast_guided_dast    |-> ctx.mode = "full" /\ ctx.code # {} /\ ctx.endpoints,
   llm_business_logic  |-> /\ ctx.repo /\ ctx.a /\ ctx.b /\ ctx.endpoints /\ request.url
                           /\ request.keyed /\ ctx.mode \in SignsIn]

\* ... and what it is called: two steps may run one scanner.
ScannerOf ==
  [s \in DOMAIN Due |-> IF s = "rls_anon" THEN "rls_deep"
                        ELSE IF s \in {"dom_xss_anon", "dom_xss_signed_in"} THEN "dom_xss"
                        ELSE s]

\* These are listed as run only for what they found, and their failures, like that
\* of the IDOR scanner, which run_scanner_safe does not wrap, are logged only.
Bonus == {"probe_analyzer", "oob_callback"}
ListedIfFound == Bonus \union {"idor_cross_user_api"}
Unwrapped == Bonus \union {"idor"}
Pools == {"dast", "sast"}

Handed(by) ==
  {{}} \union (IF by \in Finders /\ Cardinality(raised) < MaxFindings
                 THEN {{[by |-> by, flaw |-> x]} : x \in Flaws} ELSE {})
MayFail == Cardinality(failed) < MaxFailures

RunScanner(s) ==
  LET by == ScannerOf[s] IN
  /\ At(s) /\ Due[s]
  /\ \E F \in Handed(by), fails \in BOOLEAN :
       /\ fails => MayFail /\ (F = {} \/ s \in Pools)
       /\ ctx' = [ctx EXCEPT
                    !.findings = @ \union F,
                    !.code = IF s = "sast" THEN F ELSE @,
                    !.ran = IF s \in ListedIfFound /\ F = {} THEN @ ELSE Append(@, by),
                    !.errors = IF fails /\ s \notin Unwrapped THEN @ \union {by} ELSE @]
       /\ raised' = raised \union F
       /\ failed' = IF fails THEN failed \union {by} ELSE failed
  /\ Proceed
  /\ UNCHANGED <<request, disproved>>

NotDue(s) ==
  /\ At(s) /\ ~Due[s]
  /\ Proceed
  /\ UNCHANGED ctx /\ Quietly

-----------------------------------------------------------------------------
(* The code: ingestion, validation, cross-referencing. *)

\* A code-only scan of a repository that could not be read ends in an error; a full
\* one goes on, and its report says so.
RepoUnread == [ctx EXCEPT !.unread = TRUE]
RepoIngestionQuiet ==            \* slip: the failure of a full scan is only shown
  /\ At("repo_ingestion")
  /\ IF request.repo /\ ctx.mode \in ReadsCode
       THEN \/ Proceed /\ ctx' = [ctx EXCEPT !.repo = TRUE]
            \/ /\ ctx.mode = "code_only" /\ End("aborted")
               /\ ctx' = RepoUnread
            \/ ctx.mode = "full" /\ Proceed /\ UNCHANGED ctx
       ELSE Proceed /\ UNCHANGED ctx
  /\ Quietly
RepoIngestion ==
  /\ At("repo_ingestion")
  /\ IF request.repo /\ ctx.mode \in ReadsCode
       THEN \/ Proceed /\ ctx' = [ctx EXCEPT !.repo = TRUE]
            \/ /\ IF ctx.mode = "code_only" THEN End("aborted") ELSE Proceed
               /\ ctx' = RepoUnread
       ELSE Proceed /\ UNCHANGED ctx
  /\ Quietly

LspInitialization ==
  /\ At("lsp_initialization")
  /\ IF ctx.repo /\ request.lsp
       THEN \E up \in BOOLEAN : ctx' = [ctx EXCEPT !.lsp = up]
       ELSE UNCHANGED ctx
  /\ Proceed /\ Quietly

\* The scanners validate their findings one after another.  When one raises, or
\* time runs out, the list the LLM review and guided DAST read may already be
\* shorter, but nothing leaves the report.
Validation(completes, dropped) ==
  [ctx EXCEPT !.code = @ \ dropped,
              !.findings = IF completes THEN @ \ dropped ELSE @,
              !.ran = IF completes THEN Append(@, "lsp_validator") ELSE @]
LspValidation ==
  /\ At("lsp_validation")
  /\ IF ctx.lsp /\ ctx.repo /\ ctx.code # {}
       THEN \E completes \in BOOLEAN, dropped \in SUBSET ctx.code :
              /\ ctx' = Validation(completes, dropped)
              /\ disproved' = IF completes THEN disproved \union dropped ELSE disproved
       ELSE UNCHANGED <<ctx, disproved>>
  /\ Proceed
  /\ UNCHANGED <<request, raised, failed>>

\* A flaw found on both sides may be confirmed; the phase may raise, and the scan too.
CrossReference ==
  LET dast == {f \in ctx.findings : f.by \in Live}
      sast == {f \in ctx.findings : f.by \in Code}
  IN
  /\ At("cross_reference")
  /\ \/ ctx.mode # "full" /\ Proceed /\ UNCHANGED <<ctx, raised>>
     \/ /\ ctx.mode = "full"
        /\ \E F \in IF dast = {} \/ sast = {} THEN {{}} ELSE Handed("cross_reference") :
             /\ ctx' = [ctx EXCEPT !.findings = @ \union F]
             /\ raised' = raised \union F
        /\ Proceed
     \/ ctx.mode = "full" /\ End("raised") /\ UNCHANGED <<ctx, raised>>
  /\ UNCHANGED <<request, disproved, failed>>

-----------------------------------------------------------------------------
(* Judgement and report. *)

\* Only injection findings of the pool are put to the LLM; a timeout or an error
\* keeps them all.
InjectionAdjudication ==
  /\ At("injection_adjudication")
  /\ IF request.keyed /\ ctx.findings # {}
       THEN \E benign \in SUBSET {f \in ctx.findings : f.by = "dast"} :
              /\ ctx' = [ctx EXCEPT !.findings = @ \ benign,
                                    !.ran = IF benign = {} THEN @
                                            ELSE Append(@, "injection_adjudicator")]
              /\ disproved' = disproved \union benign
       ELSE UNCHANGED <<ctx, disproved>>
  /\ Proceed
  /\ UNCHANGED <<request, raised, failed>>

\* Findings of one flaw are merged, all or some of them.
Deduplicated(F) == {G \in SUBSET F : \A f \in F : \E g \in G : g.flaw = f.flaw}

\* Of a batch B the LLM's reply names findings to remove, and says for each finding
\* which others it merges.  A finding goes into one about the same flaw that stays;
\* else it is dropped only if no merge claims it, it is not severe, and few are.
AbsorbersNamed(d, B, requested, merges) ==         \* slip: one that goes as well
  {k \in B : d \in merges[k] /\ k.flaw = d.flaw}
Absorbers(d, B, requested, merges) ==
  {k \in B \ requested : d \in merges[k] /\ k.flaw = d.flaw}
PlainCap(B) == Max({1, Cardinality(B) \div 4})
Approved(B, requested, merges) ==
  LET claimed == UNION {merges[k] : k \in B}
      plain == {d \in requested \ claimed : d.flaw \notin Severe}
  IN {d \in requested : \/ Absorbers(d, B, requested, merges) # {}
                        \/ d \in plain /\ Cardinality(plain) <= PlainCap(B)}
Merges(B) == {m \in [B -> SUBSET B] : \A k \in B : k \notin m[k]}

\* What goes out takes all that were merged into it along.
TakeOut(G, removed) ==
  /\ ctx' = [ctx EXCEPT !.findings = G \ removed, !.ran = Append(@, "llm_triage")]
  /\ disproved' = disproved \union
       {f \in ctx.findings : f.flaw \notin Severe /\ \E r \in removed : r.flaw = f.flaw}
\* The LLM sees neither the low findings nor those of SAST_ONLY_SCANNERS.  A triage
\* that fails or times out leaves the findings as they were; one without an LLM
\* merges only.
TriageByLLM ==
  \E G \in Deduplicated(ctx.findings) :
    \E B \in SUBSET G :
      \E requested \in SUBSET B, merges \in Merges(B) :
        TakeOut(G, Approved(B, requested, merges))
Triage ==
  /\ At("triage")
  /\ IF ctx.findings = {} THEN UNCHANGED <<ctx, disproved>>
     ELSE \/ request.keyed /\ TriageByLLM
          \/ request.keyed /\ UNCHANGED <<ctx, disproved>>
          \/ /\ ~request.keyed
             /\ \E G \in Deduplicated(ctx.findings) : ctx' = [ctx EXCEPT !.findings = G]
             /\ UNCHANGED disproved
  /\ Proceed
  /\ UNCHANGED <<request, raised, failed>>

\* The report is compiled and yielded with COMPLETE.
Report ==
  /\ At("report")
  /\ End("complete")
  /\ UNCHANGED ctx /\ Quietly

-----------------------------------------------------------------------------

Next ==
  \/ UrlIngestion \/ EndpointDiscovery \/ AuthenticatedCrawl \/ ApiLogin \/ RestLogin
  \/ SecondUser \/ OobRegistration
  \/ \E s \in DOMAIN Due : RunScanner(s) \/ NotDue(s)
  \/ RepoIngestion \/ LspInitialization \/ LspValidation \/ CrossReference
  \/ InjectionAdjudication \/ Triage \/ Report

Spec == Init /\ [][Next]_vars

-----------------------------------------------------------------------------
(* Properties. *)

TypeOK ==
  /\ request \in Requests
  /\ step \in Range(Steps) \union Ends
  /\ ctx \in Context
  /\ {raised, disproved} \subseteq SUBSET Finding
  /\ failed \subseteq Scanners

Complete == step = "complete"
Ran(by) == Cardinality({i \in 1 .. Len(ctx.ran) : ctx.ran[i] = by})

\* "avoids a double-run": the steps that share a scanner never both run it, and
\* where the site is built on Supabase one of them does, whether or not anyone
\* could sign in.
RunOnce ==
  /\ \A by \in Scanners : Ran(by) <= 1
  /\ Complete /\ ctx.supabase => Ran("rls_deep") = 1

\* Most scanners are guarded by what earlier phases left in the context, not by the
\* mode: still none probes a site in a scan of code only, or reads code the mode
\* leaves out, or acts as a user whose credentials were not given.
WithinMode ==
  /\ (\E by \in Live \union {"oob_callback"} : Ran(by) > 0)
       => request.url /\ ctx.mode \in ReadsSite
  /\ (\E by \in Code : Ran(by) > 0) => request.repo /\ ctx.mode \in ReadsCode
  /\ (\E by \in Both : Ran(by) > 0) => ctx.mode = "full"
  /\ ctx.a \/ (\E by \in SignedIn : Ran(by) > 0)
       => request.a # "none" /\ ctx.mode \in SignsIn
  /\ ctx.b => ctx.a /\ request.b
  /\ Ran("idor_cross_user") > 0 => ctx.b

\* Scanners run when they should, once, and within what was asked for.
ScannersInPlace == TypeOK /\ RunOnce /\ WithinMode

\* No finding is lost between the scanner that raised it and the report: it is
\* there, merged into one about the same flaw, or taken out by a judgement that was
\* completed, which for a severe one is never the LLM's triage; and what guided DAST
\* and the LLM review are told of is in the report.
FindingsAccounted ==
  /\ Complete => \A f \in raised \ disproved : \E g \in ctx.findings : g.flaw = f.flaw
  /\ step \notin Ends \union {"triage", "report"} => ctx.code \subseteq ctx.findings

\* A report that names no gap was earned: the mode a scan detects reads all it was
\* given, whatever a mode covers was read, and no scanner failed, but for those that
\* run_scanner_safe does not wrap.
CleanBillEarned ==
  Complete /\ ctx.errors = {} /\ ~ctx.unread =>
    /\ request.url /\ ctx.mode \in ReadsSite => ctx.snapshot
    /\ request.repo /\ ctx.mode \in ReadsCode => ctx.repo
    /\ request.mode = "auto" => /\ request.url => ctx.snapshot
                                /\ request.repo => ctx.repo
    /\ failed \subseteq Unwrapped

=============================================================================
