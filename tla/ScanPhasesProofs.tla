-------------------------- MODULE ScanPhasesProofs ---------------------------
(***************************************************************************)
(* Proofs about ScanPhases for any requests, flaws, finders and bounds.    *)
(***************************************************************************)
EXTENDS ScanPhases, FiniteSetTheorems, TLAPS

-----------------------------------------------------------------------------
(* The inductive invariant. *)

\* The steps by number; a scan that broke off is at none.
Nth ==
  [url_ingestion |-> 1, endpoint_discovery |-> 2, authenticated_crawl |-> 3,
   api_login |-> 4, rest_login |-> 5, second_user |-> 6, oob_registration |-> 7,
   dast |-> 8, rls_anon |-> 9, idor |-> 10, dom_xss_anon |-> 11,
   jwt |-> 12, rls_deep |-> 13, priv_esc |-> 14, idor_cross_user |-> 15,
   idor_cross_user_api |-> 16, body_param_fuzzer |-> 17, race_condition |-> 18,
   dom_xss_signed_in |-> 19, probe_analyzer |-> 20, oob_callback |-> 21,
   repo_ingestion |-> 22, lsp_initialization |-> 23, sast |-> 24,
   lsp_validation |-> 25, llm_review |-> 26, cross_reference |-> 27,
   sast_guided_dast |-> 28, llm_business_logic |-> 29, injection_adjudication |-> 30,
   triage |-> 31, report |-> 32, complete |-> 33, aborted |-> 0, raised |-> 0]
Now == Nth[step]

\* The step that lists a scanner as run, the first of two.
Slot ==
  [dast |-> 8, rls_deep |-> 9, idor |-> 10, dom_xss |-> 11, jwt |-> 12, priv_esc |-> 14,
   idor_cross_user |-> 15, idor_cross_user_api |-> 16, body_param_fuzzer |-> 17,
   race_condition |-> 18, probe_analyzer |-> 20, oob_callback |-> 21, sast |-> 24,
   lsp_validator |-> 25, llm_review |-> 26, cross_reference |-> 27,
   sast_guided_dast |-> 28, llm_business_logic |-> 29, injection_adjudicator |-> 30,
   llm_triage |-> 31]

OnSite == request.url /\ ctx.mode \in ReadsSite
OnCode == request.repo /\ ctx.mode \in ReadsCode
Signing == request.a # "none" /\ ctx.mode \in SignsIn

\* What the context says was read and who could sign in is within what was asked for.
Grounded ==
  /\ ctx.mode = ModeOf(request)
  /\ ctx.snapshot \/ ctx.supabase \/ ctx.endpoints \/ ctx.oob \/ ctx.a \/ ctx.crawl # "none"
       => OnSite
  /\ ctx.a \/ ctx.crawl # "none" => Signing
  /\ ctx.b => ctx.a /\ request.b
  /\ ctx.repo => OnCode
  /\ Now \in 1 .. 3 => ctx.crawl = "none" /\ ~ctx.a

\* A scanner that is listed had its turn, and was allowed to run.
Warranted(by) ==
  /\ Now = 0 \/ Slot[by] < Now
  /\ by \in Live \union {"oob_callback"} => OnSite
  /\ by \in Code => OnCode
  /\ by \in Both => ctx.mode = "full"
  /\ by \in SignedIn => Signing
  /\ by = "idor_cross_user" => ctx.b
ListWarranted == \A i \in 1 .. Len(ctx.ran) : Warranted(ctx.ran[i])

\* None is listed twice, because of two steps that share a scanner at most one is due.
Listed(by) == \E i \in 1 .. Len(ctx.ran) : ctx.ran[i] = by
ListedOnce ==
  /\ \A i, k \in 1 .. Len(ctx.ran) : ctx.ran[i] = ctx.ran[k] => i = k
  /\ Now \in 10 .. 13 /\ ctx.supabase => (Listed("rls_deep") <=> ~SignedInPhase)
  /\ Now > 13 /\ ctx.supabase => Listed("rls_deep")
  /\ Now \in 12 .. 19 /\ Listed("dom_xss") => ctx.crawl = "none"

\* Until the triage every finding is itself in the report to be.
FindingsKept ==
  /\ Now \in 1 .. 31 => raised \ disproved \subseteq ctx.findings
  /\ Now > 31 => \A f \in raised \ disproved : \E g \in ctx.findings : g.flaw = f.flaw
  /\ Now \in 1 .. 30 => ctx.code \subseteq ctx.findings

\* What was not read or failed is noted.
GapsNoted ==
  /\ Now > 1 /\ OnSite => ctx.snapshot
  /\ Now > 22 /\ OnCode => ctx.repo \/ ctx.unread
  /\ failed \subseteq Unwrapped \union ctx.errors

IInv ==
  TypeOK /\ Grounded /\ ListWarranted /\ ListedOnce /\ FindingsKept /\ GapsNoted

-----------------------------------------------------------------------------
(* The steps and their order. *)

LEMMA StepsNumbered ==
  /\ Len(Steps) = 32
  /\ \A i \in 1 .. 32 : Nth[Steps[i]] = i
  <1>1. Len(Steps) = 32
    BY DEF Steps
  <1>2. /\ Nth[Steps[1]] = 1 /\ Nth[Steps[2]] = 2 /\ Nth[Steps[3]] = 3 /\ Nth[Steps[4]] = 4
        /\ Nth[Steps[5]] = 5 /\ Nth[Steps[6]] = 6 /\ Nth[Steps[7]] = 7 /\ Nth[Steps[8]] = 8
    BY DEF Steps, Nth
  <1>3. /\ Nth[Steps[9]] = 9 /\ Nth[Steps[10]] = 10 /\ Nth[Steps[11]] = 11 /\ Nth[Steps[12]] = 12
        /\ Nth[Steps[13]] = 13 /\ Nth[Steps[14]] = 14 /\ Nth[Steps[15]] = 15 /\ Nth[Steps[16]] = 16
    BY DEF Steps, Nth
  <1>4. /\ Nth[Steps[17]] = 17 /\ Nth[Steps[18]] = 18 /\ Nth[Steps[19]] = 19 /\ Nth[Steps[20]] = 20
        /\ Nth[Steps[21]] = 21 /\ Nth[Steps[22]] = 22 /\ Nth[Steps[23]] = 23 /\ Nth[Steps[24]] = 24
    BY DEF Steps, Nth
  <1>5. /\ Nth[Steps[25]] = 25 /\ Nth[Steps[26]] = 26 /\ Nth[Steps[27]] = 27 /\ Nth[Steps[28]] = 28
        /\ Nth[Steps[29]] = 29 /\ Nth[Steps[30]] = 30 /\ Nth[Steps[31]] = 31 /\ Nth[Steps[32]] = 32
    BY DEF Steps, Nth
  <1>6. QED
    BY <1>1, <1>2, <1>3, <1>4, <1>5

\* A scan goes through the steps one by one.
LEMMA ProceedEffect ==
  ASSUME Proceed
  PROVE  step' \in Range(Steps) /\ Now' = Now + 1
  <1>1. PICK i \in 1 .. Len(Steps) - 1 : step = Steps[i] /\ step' = Steps[i + 1]
    BY DEF Proceed
  <1>2. i \in 1 .. 32 /\ i + 1 \in 1 .. 32
    BY <1>1, StepsNumbered
  <1>3. Nth[Steps[i]] = i /\ Nth[Steps[i + 1]] = i + 1
    BY <1>2, StepsNumbered
  <1>4. Steps[i + 1] \in Range(Steps)
    <2>1. DOMAIN Steps = 1 .. 32
      BY DEF Steps
    <2>2. QED
      BY <1>2, <2>1 DEF Range
  <1>5. QED
    BY <1>1, <1>3, <1>4 DEF Now

LEMMA EndEffect ==
  ASSUME NEW how \in Ends, End(how)
  PROVE  /\ step' \in Ends /\ Now' \in {0, 33}
         /\ how # "complete" => Now' = 0
         /\ how = "complete" => Now' = 33
  BY DEF End, Ends, Now, Nth

\* A step that runs a scanner has its place among the others, and the scanner is not
\* listed before, save by the first of two steps that share it.
DueSteps == {"dast", "rls_anon", "idor", "dom_xss_anon", "jwt", "rls_deep", "priv_esc",
  "idor_cross_user", "idor_cross_user_api", "body_param_fuzzer", "race_condition",
  "dom_xss_signed_in", "probe_analyzer", "oob_callback", "sast", "llm_review",
  "sast_guided_dast", "llm_business_logic"}

LEMMA DueStepsKnown == DOMAIN Due = DueSteps
  BY DEF Due, DueSteps

LEMMA ScannerPlaces ==
  ASSUME NEW s \in DueSteps
  PROVE  /\ Nth[s] \in 8 .. 29 \ {22, 23, 25, 27}
         /\ ScannerOf[s] = IF s = "rls_anon" THEN "rls_deep"
                           ELSE IF s \in {"dom_xss_anon", "dom_xss_signed_in"} THEN "dom_xss"
                           ELSE s
         /\ ScannerOf[s] \in Scanners
         /\ Slot[ScannerOf[s]] <= Nth[s]
         /\ Slot[ScannerOf[s]] = Nth[s] \/ s \in {"rls_deep", "dom_xss_signed_in"}
  <1>1. ScannerOf[s] = IF s = "rls_anon" THEN "rls_deep"
                       ELSE IF s \in {"dom_xss_anon", "dom_xss_signed_in"} THEN "dom_xss"
                       ELSE s
    BY DueStepsKnown DEF ScannerOf
  <1>2. ScannerOf[s] \in Scanners
    BY <1>1 DEF DueSteps, Scanners, Live, Code, Both, Judges
  <1>3. Nth[s] \in 8 .. 29 \ {22, 23, 25, 27}
    BY DEF DueSteps, Nth
  <1>4. /\ Slot[ScannerOf[s]] <= Nth[s]
        /\ Slot[ScannerOf[s]] = Nth[s] \/ s \in {"rls_deep", "dom_xss_signed_in"}
    BY <1>1 DEF DueSteps, Nth, Slot
  <1>5. QED
    BY <1>1, <1>2, <1>3, <1>4

LEMMA SlotsKnown ==
  \A by \in Scanners : Slot[by] \in 8 .. 31
  BY DEF Scanners, Live, Code, Both, Judges, Slot

-----------------------------------------------------------------------------
(* The site: nothing is listed or found yet. *)

LEMMA InitInv ==
  Init => IInv
  <1> SUFFICES ASSUME Init PROVE IInv
    OBVIOUS
  <1>1. request \in Request /\ step = "url_ingestion"
    BY RequestsAssumption DEF Init, Steps
  <1>2. Now = 1
    BY <1>1 DEF Now, Nth
  <1>3. ModeOf(request) \in Modes
    BY <1>1 DEF Request, ModeOf, _detect_scan_mode, Modes
  <1>4. step \in Range(Steps)
    <2>1. DOMAIN Steps = 1 .. 32
      BY DEF Steps
    <2>2. QED
      BY <2>1 DEF Init, Range
  <1>5. ctx \in Context
    <2>1. <<>> \in Seq(Scanners)
      OBVIOUS
    <2>2. QED
      BY <1>3, <2>1 DEF Init, Context
  <1>6. TypeOK
    BY <1>4, <1>5 DEF Init, TypeOK
  <1>7. Grounded /\ ListWarranted
    BY <1>2 DEF Init, Grounded, ListWarranted
  <1>8. ListedOnce /\ FindingsKept /\ GapsNoted
    BY <1>2 DEF Init, ListedOnce, FindingsKept, GapsNoted
  <1>9. QED
    BY <1>6, <1>7, <1>8 DEF IInv

\* What the steps up to the registration of callbacks leave alone.
SiteFrame ==
  /\ ctx'.mode = ctx.mode /\ ctx'.repo = ctx.repo /\ ctx'.code = ctx.code
  /\ ctx'.findings = ctx.findings /\ ctx'.ran = ctx.ran
  /\ ctx'.unread = ctx.unread /\ ctx'.errors = ctx.errors
  /\ UNCHANGED <<request, raised, disproved, failed>>

\* Before the eighth step the lists are empty, so that a step of the site only has to
\* keep to what was asked for and to read the page it goes on with.
LEMMA SiteMove ==
  ASSUME IInv, Now \in 1 .. 7, SiteFrame, ctx' \in Context,
         (Proceed \/ (step' \in Ends /\ Now' = 0)),
         Grounded', Now' > 1 /\ OnSite' => ctx'.snapshot
  PROVE  IInv'
  <1>1. step' \in Range(Steps) \union Ends /\ Now' \in 0 .. 8 /\ (Now' = 0 \/ Now' = Now + 1)
    BY ProceedEffect
  <1>2. TypeOK'
    BY <1>1 DEF IInv, TypeOK, SiteFrame
  <1>3. ~ \E i \in 1 .. Len(ctx.ran) : TRUE
    <2> SUFFICES ASSUME NEW i \in 1 .. Len(ctx.ran) PROVE FALSE
      OBVIOUS
    <2>1. ctx.ran \in Seq(Scanners)
      BY DEF IInv, TypeOK, Context
    <2>2. ctx.ran[i] \in Scanners
      BY <2>1
    <2>3. Slot[ctx.ran[i]] \in 8 .. 31
      BY <2>2, SlotsKnown
    <2>4. Slot[ctx.ran[i]] < Now
      BY DEF IInv, ListWarranted, Warranted
    <2>5. \A n : n \in 8 .. 31 /\ Now \in 1 .. 7 => ~ (n < Now)
      OBVIOUS
    <2>6. QED
      BY <2>3, <2>4, <2>5
  <1>4. ListWarranted'
    BY <1>3 DEF SiteFrame, ListWarranted
  <1>5. ListedOnce'
    <2>1. \A i, k \in 1 .. Len(ctx'.ran) : ctx'.ran[i] = ctx'.ran[k] => i = k
      BY <1>3 DEF SiteFrame
    <2>2. Now' \notin 10 .. 13 /\ ~ (Now' > 13) /\ Now' \notin 12 .. 19
      BY <1>1
    <2>3. QED
      BY <2>1, <2>2 DEF ListedOnce
  <1>6. FindingsKept'
    <2>1. raised \ disproved \subseteq ctx.findings /\ ctx.code \subseteq ctx.findings
      BY DEF IInv, FindingsKept
    <2>2. ~ (Now' > 31)
      BY <1>1
    <2>3. QED
      BY <2>1, <2>2 DEF SiteFrame, FindingsKept
  <1>7. GapsNoted'
    <2>1. ~ (Now' > 22)
      BY <1>1
    <2>2. QED
      BY <2>1 DEF IInv, SiteFrame, GapsNoted
  <1>8. QED
    BY <1>2, <1>4, <1>5, <1>6, <1>7 DEF IInv

LEMMA UrlIngestionKeeps ==
  ASSUME IInv, UrlIngestion
  PROVE  IInv'
  <1>1. Now = 1 /\ Quietly
    BY DEF UrlIngestion, At, Now, Nth
  <1>2. ctx \in Context
    BY DEF IInv, TypeOK
  <1>3. CASE OnSite /\ Proceed /\ ctx' = [ctx EXCEPT !.snapshot = TRUE]
    <2>1. /\ ctx' \in Context /\ ctx'.snapshot /\ SiteFrame
          /\ ctx'.supabase = ctx.supabase /\ ctx'.endpoints = ctx.endpoints
          /\ ctx'.oob = ctx.oob /\ ctx'.a = ctx.a /\ ctx'.b = ctx.b /\ ctx'.crawl = ctx.crawl
      BY <1>1, <1>2, <1>3 DEF Context, SiteFrame, Quietly
    <2>2. Now' = 2
      BY <1>1, <1>3, ProceedEffect
    <2>3. Grounded'
      BY <1>1, <1>3, <2>1, <2>2 DEF IInv, Grounded, OnSite, OnCode, Signing, SiteFrame
    <2>4. QED
      BY <1>1, <1>3, <2>1, <2>3, SiteMove
  <1>4. CASE ((OnSite /\ End("aborted")) \/ (~OnSite /\ Proceed)) /\ UNCHANGED ctx
    <2>1. SiteFrame
      BY <1>1, <1>4 DEF SiteFrame, Quietly
    <2>2. Proceed \/ (step' \in Ends /\ Now' = 0)
      BY <1>4, EndEffect DEF Ends
    <2>3. Now' \in {0, 2} /\ (Now' = 2 => Proceed)
      BY <1>1, <2>2, ProceedEffect
    <2>4. Grounded'
      BY <1>1, <1>4, <2>1, <2>3 DEF IInv, Grounded, OnSite, OnCode, Signing, SiteFrame
    <2>5. Now' > 1 /\ OnSite' => ctx'.snapshot
      <3>1. Now' > 1 => ~ OnSite
        BY <1>4, EndEffect DEF Ends
      <3>2. OnSite' <=> OnSite
        BY <1>4, <2>1 DEF OnSite, SiteFrame
      <3>3. QED
        BY <3>1, <3>2
    <2>6. QED
      BY <1>1, <1>2, <1>4, <2>1, <2>2, <2>4, <2>5, SiteMove
  <1>5. QED
    BY <1>3, <1>4 DEF UrlIngestion, OnSite

\* After the first step the page is read, if it should be.
LEMMA LaterSiteMove ==
  ASSUME IInv, Now \in 2 .. 7, SiteFrame, ctx' \in Context, ctx'.snapshot = ctx.snapshot,
         (Proceed \/ (step' \in Ends /\ Now' = 0)),
         Grounded'
  PROVE  IInv'
  <1>1. OnSite' <=> OnSite
    BY DEF SiteFrame, OnSite
  <1>2. OnSite => ctx.snapshot
    BY DEF IInv, GapsNoted
  <1>3. Now \in 1 .. 7 /\ (Now' > 1 /\ OnSite' => ctx'.snapshot)
    BY <1>1, <1>2
  <1>4. QED
    BY <1>3, SiteMove

LEMMA EndpointDiscoveryKeeps ==
  ASSUME IInv, EndpointDiscovery
  PROVE  IInv'
  <1>1. Now = 2 /\ Quietly
    BY DEF EndpointDiscovery, At, Now, Nth
  <1>2. ctx \in Context
    BY DEF IInv, TypeOK
  <1>3. ASSUME ctx.snapshot, NEW some \in BOOLEAN, NEW supabase \in BOOLEAN, Proceed,
               ctx' = [ctx EXCEPT !.endpoints = some, !.supabase = supabase]
        PROVE  IInv'
    <2>1. /\ ctx' \in Context /\ ctx'.snapshot = ctx.snapshot /\ SiteFrame
          /\ ctx'.oob = ctx.oob /\ ctx'.a = ctx.a /\ ctx'.b = ctx.b /\ ctx'.crawl = ctx.crawl
      BY <1>1, <1>2, <1>3 DEF Context, SiteFrame, Quietly
    <2>2. Now' = 3
      BY <1>1, <1>3, ProceedEffect
    <2>3. Grounded'
      BY <1>1, <1>3, <2>1, <2>2 DEF IInv, Grounded, OnSite, OnCode, Signing, SiteFrame
    <2>4. QED
      BY <1>1, <1>3, <2>1, <2>3, LaterSiteMove
  <1>4. CASE (Proceed \/ End("raised")) /\ UNCHANGED ctx
    <2>1. SiteFrame
      BY <1>1, <1>4 DEF SiteFrame, Quietly
    <2>2. Proceed \/ (step' \in Ends /\ Now' = 0)
      BY <1>4, EndEffect DEF Ends
    <2>3. Now' \in {0, 3}
      BY <1>1, <2>2, ProceedEffect
    <2>4. Grounded'
      BY <1>1, <1>4, <2>1, <2>3 DEF IInv, Grounded, OnSite, OnCode, Signing, SiteFrame
    <2>5. QED
      BY <1>1, <1>2, <1>4, <2>1, <2>2, <2>4, LaterSiteMove
  <1>5. QED
    BY <1>3, <1>4 DEF EndpointDiscovery

LEMMA AuthenticatedCrawlKeeps ==
  ASSUME IInv, AuthenticatedCrawl
  PROVE  IInv'
  <1>1. Now = 3 /\ Now' = 4 /\ Quietly /\ Proceed
    BY ProceedEffect DEF AuthenticatedCrawl, At, Now, Nth
  <1>2. ctx \in Context
    BY DEF IInv, TypeOK
  <1>3. ASSUME Signing, request.url, NEW crawl \in {"none", "nothing", "pages", "rich"},
               ctx' = [ctx EXCEPT !.crawl = crawl, !.a = (crawl = "rich"),
                                  !.endpoints = ctx.endpoints \/ crawl = "rich"]
        PROVE  IInv'
    <2> DEFINE rich == crawl = "rich"
               some == ctx.endpoints \/ rich
    <2>1. rich \in BOOLEAN /\ some \in BOOLEAN
      OBVIOUS
    <2>2. ctx' = [ctx EXCEPT !.crawl = crawl, !.a = rich, !.endpoints = some]
      BY <1>3
    <2>3. some <=> (ctx.endpoints \/ rich)
      OBVIOUS
    <2> HIDE DEF rich, some
    <2>4. /\ ctx' \in Context /\ ctx'.snapshot = ctx.snapshot /\ SiteFrame
          /\ ctx'.supabase = ctx.supabase /\ ctx'.oob = ctx.oob /\ ctx'.b = ctx.b
          /\ ctx'.a = rich /\ ctx'.crawl = crawl /\ ctx'.endpoints = some
      BY <1>1, <1>2, <2>1, <2>2, <1>3, ZenonT(60) DEF Context, SiteFrame, Quietly
    <2>5. OnSite
      BY <1>3 DEF Signing, OnSite, SignsIn, ReadsSite
    <2>6. ~ctx.b
      BY <1>1 DEF IInv, Grounded
    <2>7. Grounded'
      BY <1>1, <1>3, <2>3, <2>4, <2>5, <2>6 DEF IInv, Grounded, OnSite, OnCode, Signing, SiteFrame
    <2>8. QED
      BY <1>1, <2>4, <2>7, LaterSiteMove
  <1>4. CASE UNCHANGED ctx
    <2>1. SiteFrame
      BY <1>1, <1>4 DEF SiteFrame, Quietly
    <2>2. Grounded'
      BY <1>1, <1>4, <2>1 DEF IInv, Grounded, OnSite, OnCode, Signing, SiteFrame
    <2>3. QED
      BY <1>1, <1>2, <1>4, <2>1, <2>2, LaterSiteMove
  <1>5. QED
    BY <1>3, <1>4 DEF AuthenticatedCrawl, Signing

\* A login signs in only where the mode does and the site is known.
LEMMA LoginsKeep ==
  ASSUME IInv, ApiLogin \/ RestLogin
  PROVE  IInv'
  <1>1. /\ Now \in {4, 5} /\ Quietly /\ Proceed
    BY DEF ApiLogin, RestLogin, At, Now, Nth
  <1>2. Now' \in {5, 6} /\ Now \in 2 .. 7
    BY <1>1, ProceedEffect
  <1>3. ctx \in Context
    BY DEF IInv, TypeOK
  <1>4. ASSUME Signing, OnSite, Login
        PROVE  IInv'
    <2>1. PICK a \in BOOLEAN, b \in BOOLEAN :
            /\ b => a /\ request.b
            /\ ctx' = [ctx EXCEPT !.a = a, !.b = b]
      BY <1>4 DEF Login
    <2>2. /\ ctx' \in Context /\ ctx'.snapshot = ctx.snapshot /\ SiteFrame
          /\ ctx'.supabase = ctx.supabase /\ ctx'.oob = ctx.oob /\ ctx'.crawl = ctx.crawl
          /\ ctx'.endpoints = ctx.endpoints /\ ctx'.a = a /\ ctx'.b = b
      BY <1>1, <1>3, <2>1 DEF Context, SiteFrame, Quietly
    <2>3. Grounded'
      BY <1>2, <1>4, <2>1, <2>2 DEF IInv, Grounded, OnSite, OnCode, Signing, SiteFrame
    <2>4. QED
      BY <1>1, <1>2, <2>2, <2>3, LaterSiteMove
  <1>5. CASE UNCHANGED ctx
    <2>1. SiteFrame
      BY <1>1, <1>5 DEF SiteFrame, Quietly
    <2>2. Grounded'
      BY <1>2, <1>5, <2>1 DEF IInv, Grounded, OnSite, OnCode, Signing, SiteFrame
    <2>3. QED
      BY <1>1, <1>2, <1>3, <1>5, <2>1, <2>2, LaterSiteMove
  <1>6. CASE ctx.mode \in SignsIn /\ HasProvider /\ Login
    BY <1>4, <1>6 DEF IInv, Grounded, HasProvider, Signing
  <1>7. CASE ctx.mode \in SignsIn /\ request.a = "token" /\ request.url /\ Login
    BY <1>4, <1>7 DEF Signing, OnSite, SignsIn, ReadsSite
  <1>8. QED
    BY <1>5, <1>6, <1>7 DEF ApiLogin, RestLogin

LEMMA SecondUserKeeps ==
  ASSUME IInv, SecondUser
  PROVE  IInv'
  <1>1. Now = 6 /\ Now' = 7 /\ Quietly /\ Proceed
    BY ProceedEffect DEF SecondUser, At, Now, Nth
  <1>2. ctx \in Context
    BY DEF IInv, TypeOK
  <1>3. ASSUME ctx.a, request.b, NEW b \in BOOLEAN, ctx' = [ctx EXCEPT !.b = b]
        PROVE  IInv'
    <2>1. /\ ctx' \in Context /\ ctx'.snapshot = ctx.snapshot /\ SiteFrame
          /\ ctx'.supabase = ctx.supabase /\ ctx'.oob = ctx.oob /\ ctx'.crawl = ctx.crawl
          /\ ctx'.endpoints = ctx.endpoints /\ ctx'.a = ctx.a /\ ctx'.b = b
      BY <1>1, <1>2, <1>3 DEF Context, SiteFrame, Quietly
    <2>2. Grounded'
      BY <1>1, <1>3, <2>1 DEF IInv, Grounded, OnSite, OnCode, Signing, SiteFrame
    <2>3. QED
      BY <1>1, <2>1, <2>2, LaterSiteMove
  <1>4. CASE UNCHANGED ctx
    <2>1. SiteFrame
      BY <1>1, <1>4 DEF SiteFrame, Quietly
    <2>2. Grounded'
      BY <1>1, <1>4, <2>1 DEF IInv, Grounded, OnSite, OnCode, Signing, SiteFrame
    <2>3. QED
      BY <1>1, <1>2, <1>4, <2>1, <2>2, LaterSiteMove
  <1>5. QED
    BY <1>3, <1>4 DEF SecondUser

LEMMA OobRegistrationKeeps ==
  ASSUME IInv, OobRegistration
  PROVE  IInv'
  <1>1. Now = 7 /\ Now' = 8 /\ Quietly /\ Proceed
    BY ProceedEffect DEF OobRegistration, At, Now, Nth
  <1>2. ctx \in Context
    BY DEF IInv, TypeOK
  <1>3. ASSUME OnSite, NEW oob \in BOOLEAN, ctx' = [ctx EXCEPT !.oob = oob]
        PROVE  IInv'
    <2>1. /\ ctx' \in Context /\ ctx'.snapshot = ctx.snapshot /\ SiteFrame
          /\ ctx'.supabase = ctx.supabase /\ ctx'.oob = oob /\ ctx'.crawl = ctx.crawl
          /\ ctx'.endpoints = ctx.endpoints /\ ctx'.a = ctx.a /\ ctx'.b = ctx.b
      BY <1>1, <1>2, <1>3 DEF Context, SiteFrame, Quietly
    <2>2. Grounded'
      BY <1>1, <1>3, <2>1 DEF IInv, Grounded, OnSite, OnCode, Signing, SiteFrame
    <2>3. QED
      BY <1>1, <2>1, <2>2, LaterSiteMove
  <1>4. CASE UNCHANGED ctx
    <2>1. SiteFrame
      BY <1>1, <1>4 DEF SiteFrame, Quietly
    <2>2. Grounded'
      BY <1>1, <1>4, <2>1 DEF IInv, Grounded, OnSite, OnCode, Signing, SiteFrame
    <2>3. QED
      BY <1>1, <1>2, <1>4, <2>1, <2>2, LaterSiteMove
  <1>5. QED
    BY <1>3, <1>4 DEF OobRegistration, OnSite

-----------------------------------------------------------------------------
(* The lists. *)

\* What the later steps leave alone.
SiteKept ==
  /\ request' = request
  /\ ctx'.mode = ctx.mode /\ ctx'.snapshot = ctx.snapshot
  /\ ctx'.endpoints = ctx.endpoints /\ ctx'.supabase = ctx.supabase
  /\ ctx'.crawl = ctx.crawl /\ ctx'.a = ctx.a /\ ctx'.b = ctx.b /\ ctx'.oob = ctx.oob

LEMMA StillGrounded ==
  ASSUME IInv, SiteKept, Now' \notin 1 .. 3, ctx'.repo => ctx.repo \/ OnCode
  PROVE  Grounded'
  BY DEF IInv, Grounded, OnSite, OnCode, Signing, SiteKept

\* Who may run does not change any more.
LEMMA StillWarranted ==
  ASSUME SiteKept, NEW by \in Scanners, Warranted(by), Now \in 8 .. 32,
         Now' = 0 \/ Now' = Now + 1
  PROVE  Warranted(by)'
  <1>1. Now' = 0 \/ Slot[by] < Now'
    BY SlotsKnown DEF Warranted
  <1>2. QED
    BY <1>1 DEF Warranted, OnSite, OnCode, Signing, SiteKept

\* A step that lists nobody keeps the list right, save where a scanner was due.
LEMMA ListKept ==
  ASSUME IInv, SiteKept, Now \in 8 .. 32, Now' = 0 \/ Now' = Now + 1,
         ctx'.ran = ctx.ran, Now \notin {9, 11, 13}
  PROVE  ListWarranted' /\ ListedOnce'
  <1>1. ctx.ran \in Seq(Scanners) /\ \A i \in 1 .. Len(ctx.ran) : ctx.ran[i] \in Scanners
    BY DEF IInv, TypeOK, Context
  <1>2. ListWarranted'
    BY <1>1, StillWarranted DEF IInv, ListWarranted
  <1>3. /\ Now' \in 10 .. 13 => Now \in 10 .. 13
        /\ Now' > 13 => Now > 13
        /\ Now' \in 12 .. 19 => Now \in 12 .. 19
    OBVIOUS
  <1>4. ListedOnce'
    BY <1>3 DEF IInv, ListedOnce, Listed, SignedInPhase, SiteKept
  <1>5. QED
    BY <1>2, <1>4

\* A scanner that had not had its turn is not listed.
LEMMA NotListedYet ==
  ASSUME IInv, Now \in 8 .. 32, NEW by \in Scanners, Now <= Slot[by]
  PROVE  ~Listed(by)
  <1> SUFFICES ASSUME NEW i \in 1 .. Len(ctx.ran), ctx.ran[i] = by PROVE FALSE
    BY DEF Listed
  <1>1. Slot[by] < Now
    BY DEF IInv, ListWarranted, Warranted
  <1>2. Slot[by] \in 8 .. 31
    BY SlotsKnown
  <1>3. \A n \in 8 .. 31, k \in 8 .. 32 : k <= n => ~ (n < k)
    OBVIOUS
  <1>4. QED
    BY <1>1, <1>2, <1>3, Zenon

\* One more scanner is listed, which was allowed to run.
LEMMA Appended ==
  ASSUME IInv, SiteKept, Now \in 8 .. 32, Now' = Now + 1, NEW by \in Scanners,
         ctx'.ran = Append(ctx.ran, by), ~Listed(by), Slot[by] <= Now,
         by \in Live \union {"oob_callback"} => OnSite,
         by \in Code => OnCode,
         by \in Both => ctx.mode = "full",
         by \in SignedIn => Signing,
         by = "idor_cross_user" => ctx.b
  PROVE  /\ ListWarranted'
         /\ \A i, k \in 1 .. Len(ctx'.ran) : ctx'.ran[i] = ctx'.ran[k] => i = k
         /\ \A x : Listed(x)' <=> (Listed(x) \/ x = by)
  <1>1. ctx.ran \in Seq(Scanners) /\ \A i \in 1 .. Len(ctx.ran) : ctx.ran[i] \in Scanners
    BY DEF IInv, TypeOK, Context
  <1> DEFINE n == Len(ctx.ran)
  <1>2. /\ n \in Nat /\ Len(ctx'.ran) = n + 1 /\ ctx'.ran[n + 1] = by
        /\ \A i \in 1 .. n : ctx'.ran[i] = ctx.ran[i]
        /\ \A i \in 1 .. n + 1 : i \in 1 .. n \/ i = n + 1
    BY <1>1
  <1>3. Warranted(by)'
    <2>1. \A m \in 8 .. 31, k \in 8 .. 32 : m <= k => m < k + 1
      OBVIOUS
    <2>2. Slot[by] < Now + 1
      BY <2>1, SlotsKnown, Zenon
    <2>3. Slot[by] < Now'
      BY <2>2, Zenon
    <2>4. QED
      BY <2>3 DEF Warranted, OnSite, OnCode, Signing, SiteKept
  <1>4. \A i \in 1 .. n : Warranted(ctx.ran[i])'
    BY <1>1, StillWarranted DEF IInv, ListWarranted
  <1> HIDE DEF n
  <1>5. ListWarranted'
    <2>1. ASSUME NEW i \in 1 .. Len(ctx'.ran) PROVE Warranted(ctx.ran[i])' 
      <3>1. CASE i = n + 1
        BY <1>2, <1>3, <3>1
      <3>2. CASE i \in 1 .. n
        BY <1>2, <1>4, <3>2
      <3>3. QED
        BY <1>2, <3>1, <3>2
    <2>2. QED
      BY <2>1 DEF ListWarranted
  <1>6. \A i, k \in 1 .. Len(ctx'.ran) : ctx'.ran[i] = ctx'.ran[k] => i = k
    <2>1. \A i \in 1 .. n : ctx.ran[i] # by
      BY DEF Listed, n
    <2>2. \A i, k \in 1 .. n : ctx.ran[i] = ctx.ran[k] => i = k
      BY DEF IInv, ListedOnce, n
    <2>3. QED
      BY <1>2, <2>1, <2>2
  <1>7. ASSUME NEW x PROVE Listed(x)' <=> (Listed(x) \/ x = by)
    <2>1. Listed(x)' <=> \E i \in 1 .. n + 1 : ctx'.ran[i] = x
      BY <1>2 DEF Listed
    <2>2. Listed(x) <=> \E i \in 1 .. n : ctx.ran[i] = x
      BY DEF Listed, n
    <2>3. 1 .. n \subseteq 1 .. n + 1 /\ n + 1 \in 1 .. n + 1
      BY <1>2
    <2>4. QED
      BY <1>2, <2>1, <2>2, <2>3
  <1>8. QED
    BY <1>5, <1>6, <1>7

-----------------------------------------------------------------------------
(* Scanners. *)

\* What it takes, at least, for a step to run its scanner.
LEMMA DueMeans ==
  /\ Due["dast"] => ctx.endpoints
  /\ Due["rls_anon"] <=> ctx.supabase /\ ~SignedInPhase
  /\ Due["idor"] => ctx.endpoints
  /\ Due["dom_xss_anon"] => OnSite /\ ctx.crawl = "none"
  /\ Due["jwt"] => ctx.a
  /\ Due["rls_deep"] <=> SignedInPhase /\ ctx.supabase
  /\ Due["priv_esc"] => ctx.a
  /\ Due["idor_cross_user"] => ctx.a /\ ctx.b
  /\ Due["idor_cross_user_api"] => ctx.a
  /\ Due["body_param_fuzzer"] => ctx.a
  /\ Due["race_condition"] => ctx.a
  /\ Due["dom_xss_signed_in"] => ctx.a /\ ctx.crawl # "none"
  /\ Due["oob_callback"] => ctx.oob
  /\ Due["sast"] => ctx.repo
  /\ Due["llm_review"] => ctx.repo
  /\ Due["sast_guided_dast"] => ctx.mode = "full"
  /\ Due["llm_business_logic"] => ctx.repo /\ ctx.a
  <1>1. /\ Due["dast"] => ctx.endpoints
        /\ Due["idor"] => ctx.endpoints
    BY DEF Due
  <1>2. Due["rls_anon"] <=> ctx.supabase /\ ~SignedInPhase
    <2>1. Due["rls_anon"] = AnonRls
      BY DEF Due
    <2>2. QED
      BY <2>1 DEF AnonRls
  <1>3. Due["dom_xss_anon"] => OnSite /\ ctx.crawl = "none"
    <2>1. Due["dom_xss_anon"] = DomXssAnon
      BY DEF Due
    <2>2. QED
      BY <2>1 DEF DomXssAnon, OnSite, ReadsSite
  <1>4. Due["rls_deep"] <=> SignedInPhase /\ ctx.supabase
    BY DEF Due
  <1>5. /\ Due["jwt"] => SignedInPhase
        /\ Due["priv_esc"] => SignedInPhase
    BY DEF Due
  <1>6. /\ Due["idor_cross_user"] => SignedInPhase /\ ctx.b
        /\ Due["idor_cross_user_api"] => SignedInPhase
    BY DEF Due
  <1>7. /\ Due["body_param_fuzzer"] => SignedInPhase
        /\ Due["race_condition"] => SignedInPhase
    BY DEF Due
  <1>8. Due["dom_xss_signed_in"] => SignedInPhase /\ ctx.crawl # "none"
    BY DEF Due
  <1>9. /\ Due["oob_callback"] => ctx.oob
        /\ Due["sast"] => ctx.repo
        /\ Due["llm_review"] => ctx.repo
    BY DEF Due
  <1>10. /\ Due["sast_guided_dast"] => ctx.mode = "full"
         /\ Due["llm_business_logic"] => ctx.repo /\ ctx.a
    BY DEF Due
  <1>11. SignedInPhase => ctx.a
    BY DEF SignedInPhase
  <1>12. QED
    BY <1>1, <1>2, <1>3, <1>4, <1>5, <1>6, <1>7, <1>8, <1>9, <1>10, <1>11

\* The conditions under which a step runs its scanner keep it within what was asked for.
LEMMA DueWarrant ==
  ASSUME IInv, NEW s \in DueSteps, Due[s]
  PROVE  LET by == ScannerOf[s] IN
         /\ by \in Live \union {"oob_callback"} => OnSite
         /\ by \in Code => OnCode
         /\ by \in Both => ctx.mode = "full"
         /\ by \in SignedIn => Signing
         /\ by = "idor_cross_user" => ctx.b
  <1> DEFINE by == ScannerOf[s]
  <1>1. by = IF s = "rls_anon" THEN "rls_deep"
             ELSE IF s \in {"dom_xss_anon", "dom_xss_signed_in"} THEN "dom_xss" ELSE s
    BY ScannerPlaces
  <1>2. /\ ctx.snapshot \/ ctx.supabase \/ ctx.endpoints \/ ctx.oob \/ ctx.a
             \/ ctx.crawl # "none" => OnSite
        /\ ctx.a => Signing
        /\ ctx.repo => OnCode
    BY DEF IInv, Grounded
  <1>3. CASE s \in {"dast", "rls_anon", "idor", "dom_xss_anon"}
    <2>1. ctx.endpoints \/ ctx.supabase \/ OnSite
      BY <1>3, DueMeans
    <2>2. by \in {"dast", "rls_deep", "idor", "dom_xss"}
      BY <1>1, <1>3
    <2>3. QED
      BY <1>2, <2>1, <2>2 DEF Code, Both, SignedIn
  <1>4. CASE s \in {"jwt", "rls_deep", "priv_esc", "idor_cross_user", "idor_cross_user_api",
                    "body_param_fuzzer", "race_condition", "dom_xss_signed_in"}
    <2>1. ctx.a /\ (s = "idor_cross_user" => ctx.b)
      <3>1. CASE s \in {"jwt", "priv_esc", "idor_cross_user", "idor_cross_user_api"}
        BY <3>1, DueMeans
      <3>2. CASE s \in {"body_param_fuzzer", "race_condition", "dom_xss_signed_in"}
        BY <3>2, DueMeans
      <3>3. CASE s = "rls_deep"
        BY <3>3, DueMeans DEF SignedInPhase
      <3>4. QED
        BY <1>4, <3>1, <3>2, <3>3
    <2>2. by \in {"jwt", "rls_deep", "priv_esc", "idor_cross_user", "idor_cross_user_api",
                  "body_param_fuzzer", "race_condition", "dom_xss"}
          /\ (by = "idor_cross_user" => s = "idor_cross_user")
      BY <1>1, <1>4
    <2>3. QED
      BY <1>2, <2>1, <2>2 DEF Code, Both
  <1>5. CASE s \in {"probe_analyzer", "oob_callback"}
    <2>1. by = s /\ (s = "oob_callback" => ctx.oob)
      BY <1>1, <1>5, DueMeans
    <2>2. QED
      BY <1>2, <1>5, <2>1 DEF Live, Code, Both, SignedIn
  <1>6. CASE s \in {"sast", "llm_review"}
    <2>1. by = s /\ ctx.repo
      BY <1>1, <1>6, DueMeans
    <2>2. QED
      BY <1>2, <1>6, <2>1 DEF Live, Both, SignedIn
  <1>7. CASE s = "sast_guided_dast"
    <2>1. by = s /\ ctx.mode = "full"
      BY <1>1, <1>7, DueMeans
    <2>2. QED
      BY <1>7, <2>1 DEF Live, Code, SignedIn
  <1>8. CASE s = "llm_business_logic"
    <2>1. by = s /\ ctx.repo /\ ctx.a
      BY <1>1, <1>8, DueMeans
    <2>2. ctx.mode = "full"
      BY <1>2, <2>1 DEF OnCode, Signing, ReadsCode, SignsIn
    <2>3. QED
      BY <1>8, <2>1, <2>2 DEF Live, Code, SignedIn
  <1>9. QED
    BY <1>3, <1>4, <1>5, <1>6, <1>7, <1>8 DEF DueSteps

\* Of two steps that share a scanner at most one is due.
LEMMA DueOnce ==
  ASSUME IInv, NEW s \in DueSteps, Due[s], Now = Nth[s]
  PROVE  ~Listed(ScannerOf[s])
  <1>1. Now \in 8 .. 32
    BY ScannerPlaces
  <1>2. CASE Slot[ScannerOf[s]] = Nth[s]
    BY <1>1, <1>2, NotListedYet, ScannerPlaces
  <1>3. CASE s = "rls_deep"
    <2>1. Now = 13 /\ SignedInPhase /\ ctx.supabase
      BY <1>3, ZenonT(60) DEF Nth, Due
    <2>2. ~Listed("rls_deep")
      BY <2>1 DEF IInv, ListedOnce
    <2>3. QED
      BY <1>3, <2>2, ScannerPlaces
  <1>4. CASE s = "dom_xss_signed_in"
    <2>1. Now = 19 /\ ctx.crawl # "none"
      BY <1>4, ZenonT(60) DEF Nth, Due
    <2>2. ~Listed("dom_xss")
      BY <2>1 DEF IInv, ListedOnce
    <2>3. QED
      BY <1>4, <2>2, ScannerPlaces
  <1>5. QED
    BY <1>2, <1>3, <1>4, ScannerPlaces

LEMMA RunEffect ==
  ASSUME IInv, NEW s \in DueSteps, RunScanner(s)
  PROVE  /\ TypeOK' /\ SiteKept /\ Proceed
         /\ Due[s] /\ Now = Nth[s] /\ Now' = Now + 1
         /\ ctx'.repo = ctx.repo /\ ctx'.unread = ctx.unread
         /\ \E F \in SUBSET Finding :
              /\ ctx'.findings = ctx.findings \union F
              /\ raised' = raised \union F
              /\ ctx'.code \subseteq ctx.code \union F
         /\ disproved' = disproved
         /\ ctx'.ran = Append(ctx.ran, ScannerOf[s])
              \/ (ctx'.ran = ctx.ran /\ s \in ListedIfFound)
         /\ ctx.errors \subseteq ctx'.errors
         /\ \A by \in failed' : by \in failed \union ctx'.errors \union Unwrapped
  <1> DEFINE by == ScannerOf[s]
  <1>1. /\ At(s) /\ Due[s] /\ Proceed /\ UNCHANGED <<request, disproved>>
    BY DEF RunScanner
  <1>2. PICK F \in Handed(by), fails \in BOOLEAN :
       /\ ctx' = [ctx EXCEPT
                    !.findings = ctx.findings \union F,
                    !.code = IF s = "sast" THEN F ELSE ctx.code,
                    !.ran = IF s \in ListedIfFound /\ F = {} THEN ctx.ran ELSE Append(ctx.ran, by),
                    !.errors = IF fails /\ s \notin Unwrapped THEN ctx.errors \union {by}
                               ELSE ctx.errors]
       /\ raised' = raised \union F
       /\ failed' = IF fails THEN failed \union {by} ELSE failed
    BY DEF RunScanner
  <1>3. by \in Scanners
    BY ScannerPlaces
  <1>4. F \subseteq Finding
    BY <1>3 DEF Handed, Finding
  <1>5. /\ ctx \in Context /\ ctx.findings \subseteq Finding /\ ctx.code \subseteq Finding
        /\ ctx.ran \in Seq(Scanners) /\ ctx.errors \subseteq Scanners
        /\ raised \subseteq Finding /\ disproved \subseteq Finding /\ failed \subseteq Scanners
    BY DEF IInv, TypeOK, Context
  <1> DEFINE ran == IF s \in ListedIfFound /\ F = {} THEN ctx.ran ELSE Append(ctx.ran, by)
             code == IF s = "sast" THEN F ELSE ctx.code
             errors == IF fails /\ s \notin Unwrapped THEN ctx.errors \union {by} ELSE ctx.errors
             found == ctx.findings \union F
  <1>6. /\ ran \in Seq(Scanners) /\ code \subseteq Finding /\ errors \subseteq Scanners
        /\ found \subseteq Finding
    BY <1>3, <1>4, <1>5
  <1>7. /\ ran = Append(ctx.ran, by) \/ (ran = ctx.ran /\ s \in ListedIfFound)
        /\ code \subseteq ctx.code \union F
        /\ ctx.errors \subseteq errors /\ (fails => by \in errors \/ s \in Unwrapped)
    OBVIOUS
  <1>8. ctx' = [ctx EXCEPT !.findings = found, !.code = code, !.ran = ran, !.errors = errors]
    BY <1>2
  <1> HIDE DEF ran, code, errors, found
  <1>9. /\ ctx' \in Context /\ SiteKept /\ ctx'.repo = ctx.repo /\ ctx'.unread = ctx.unread
        /\ ctx'.findings = found /\ ctx'.code = code /\ ctx'.ran = ran /\ ctx'.errors = errors
    BY <1>1, <1>5, <1>6, <1>8 DEF Context, SiteKept
  <1>10. Now = Nth[s] /\ Now' = Now + 1 /\ step' \in Range(Steps)
    BY <1>1, ProceedEffect DEF At, Now
  <1>11. failed' \subseteq Scanners /\ raised' \subseteq Finding
    BY <1>2, <1>3, <1>4, <1>5
  <1>12. TypeOK'
    BY <1>1, <1>5, <1>9, <1>10, <1>11 DEF IInv, TypeOK
  <1>13. s \in Unwrapped => by = s
    BY ScannerPlaces DEF Unwrapped, Bonus
  <1>14. \A x \in failed' : x \in failed \union ctx'.errors \union Unwrapped
    BY <1>2, <1>7, <1>9, <1>13
  <1>15. ctx'.findings = ctx.findings \union F
    BY <1>9 DEF found
  <1>16. QED
    BY <1>1, <1>2, <1>4, <1>7, <1>9, <1>10, <1>12, <1>14, <1>15

LEMMA PlacesApart ==
  ASSUME NEW s \in DueSteps
  PROVE  /\ (Nth[s] = 9 <=> s = "rls_anon") /\ (Nth[s] = 11 <=> s = "dom_xss_anon")
         /\ (Nth[s] = 13 <=> s = "rls_deep")
         /\ (ScannerOf[s] = "rls_deep" <=> s \in {"rls_anon", "rls_deep"})
         /\ (ScannerOf[s] = "dom_xss" <=> s \in {"dom_xss_anon", "dom_xss_signed_in"})
         /\ (s = "dom_xss_signed_in" => Nth[s] = 19)
         /\ (s \in ListedIfFound => Nth[s] \in {16, 20, 21})
  <1>1. /\ (ScannerOf[s] = "rls_deep" <=> s \in {"rls_anon", "rls_deep"})
        /\ (ScannerOf[s] = "dom_xss" <=> s \in {"dom_xss_anon", "dom_xss_signed_in"})
    BY ScannerPlaces DEF DueSteps
  <1>2. (Nth[s] = 9 <=> s = "rls_anon") /\ (Nth[s] = 11 <=> s = "dom_xss_anon")
    BY DEF DueSteps, Nth
  <1>3. (Nth[s] = 13 <=> s = "rls_deep") /\ (s = "dom_xss_signed_in" => Nth[s] = 19)
    BY DEF DueSteps, Nth
  <1>4. s \in ListedIfFound => Nth[s] \in {16, 20, 21}
    BY DEF ListedIfFound, Bonus, Nth
  <1>5. QED
    BY <1>1, <1>2, <1>3, <1>4

\* Of a shared scanner the first step runs it or the second does.
LEMMA TurnTaken ==
  ASSUME IInv, SiteKept, NEW s \in DueSteps, NEW by, by = ScannerOf[s],
         Now = Nth[s], Now' = Now + 1,
         \A i, k \in 1 .. Len(ctx'.ran) : ctx'.ran[i] = ctx'.ran[k] => i = k,
         \A x : Listed(x)' => Listed(x) \/ (x = by /\ Due[s]),
         \A x : Listed(x) => Listed(x)',
         Due[s] /\ s \notin ListedIfFound => Listed(by)'
  PROVE  ListedOnce'
  <1>1. Now \in 8 .. 29
    BY ScannerPlaces
  <1>2. SignedInPhase' <=> SignedInPhase
    BY DEF SignedInPhase, SiteKept
  <1>3. ASSUME Now' \in 10 .. 13, ctx.supabase
        PROVE  Listed("rls_deep")' <=> ~SignedInPhase
    <2>1. CASE Now = 9
      <3>1. s = "rls_anon" /\ by = "rls_deep" /\ s \notin ListedIfFound
        <4>1. Nth[s] = 9
          BY <2>1
        <4>2. s = "rls_anon"
          BY <4>1, PlacesApart
        <4>3. by = "rls_deep"
          BY <4>2, PlacesApart
        <4>4. s \notin ListedIfFound
          BY <4>1, PlacesApart
        <4>5. QED
          BY <4>2, <4>3, <4>4
      <3>2. ~Listed("rls_deep")
        <4>1. "rls_deep" \in Scanners /\ Slot["rls_deep"] = 9
          BY DEF Scanners, Live, Slot
        <4>2. QED
          BY <1>1, <2>1, <4>1, NotListedYet
      <3>3. Due[s] <=> ~SignedInPhase
        BY <1>3, <3>1, DueMeans
      <3>4. QED
        BY <3>1, <3>2, <3>3
    <2>2. CASE Now \in 10 .. 12
      <3>1. Listed("rls_deep") <=> ~SignedInPhase
        BY <1>3, <2>2 DEF IInv, ListedOnce
      <3>2. by # "rls_deep"
        BY <2>2, PlacesApart
      <3>3. QED
        BY <3>1, <3>2
    <2>3. QED
      BY <1>1, <1>3, <2>1, <2>2, SMTT(30)
  <1>4. ASSUME Now' > 13, ctx.supabase
        PROVE  Listed("rls_deep")'
    <2>1. CASE Now = 13
      <3>1. s = "rls_deep" /\ by = "rls_deep" /\ s \notin ListedIfFound
        <4>1. Nth[s] = 13
          BY <2>1
        <4>2. s = "rls_deep"
          BY <4>1, PlacesApart
        <4>3. by = "rls_deep"
          BY <4>2, PlacesApart
        <4>4. s \notin ListedIfFound
          BY <4>1, PlacesApart
        <4>5. QED
          BY <4>2, <4>3, <4>4
      <3>2. Listed("rls_deep") <=> ~SignedInPhase
        BY <1>4, <2>1 DEF IInv, ListedOnce
      <3>3. Due[s] <=> SignedInPhase
        BY <1>4, <3>1, DueMeans
      <3>4. QED
        BY <3>1, <3>2, <3>3
    <2>2. CASE Now > 13
      BY <1>4, <2>2 DEF IInv, ListedOnce
    <2>3. QED
      BY <1>1, <1>4, <2>1, <2>2
  <1>5. ASSUME Now' \in 12 .. 19, Listed("dom_xss")'
        PROVE  ctx.crawl = "none"
    <2>1. CASE ~Listed("dom_xss")
      <3>1. by = "dom_xss" /\ Due[s]
        BY <1>5, <2>1
      <3>2. s = "dom_xss_anon"
        <4>1. s \in {"dom_xss_anon", "dom_xss_signed_in"}
          <5>1. ScannerOf[s] = "dom_xss"
            BY <3>1
          <5>2. QED
            BY <5>1, PlacesApart, Zenon
        <4>2. s = "dom_xss_signed_in" => Now = 19
          BY PlacesApart
        <4>3. Now # 19
          BY <1>5
        <4>4. QED
          BY <4>1, <4>2, <4>3
      <3>3. QED
        BY <3>1, <3>2, DueMeans
    <2>2. CASE Listed("dom_xss")
      <3>1. CASE Now = 11
        <4>1. "dom_xss" \in Scanners /\ Slot["dom_xss"] = 11
          BY DEF Scanners, Live, Slot
        <4>2. QED
          BY <1>1, <2>2, <3>1, <4>1, NotListedYet
      <3>2. CASE Now \in 12 .. 18
        BY <2>2, <3>2 DEF IInv, ListedOnce
      <3>3. QED
        BY <1>1, <1>5, <3>1, <3>2, SMTT(30)
    <2>3. QED
      BY <2>1, <2>2
  <1>6. QED
    BY <1>2, <1>3, <1>4, <1>5 DEF ListedOnce, SiteKept

\* A step that judges nothing keeps what was found, as long as it adds what it hands over.
LEMMA FoundKept ==
  ASSUME IInv, Now \in 8 .. 30, Now' = Now + 1 \/ Now' = 0, disproved' = disproved,
         NEW F \in SUBSET Finding, ctx'.findings = ctx.findings \union F,
         raised' = raised \union F, ctx'.code \subseteq ctx.code \union F
  PROVE  FindingsKept'
  <1>1. /\ raised \ disproved \subseteq ctx.findings
        /\ ctx.code \subseteq ctx.findings
    BY DEF IInv, FindingsKept
  <1>2. /\ raised' \ disproved' \subseteq ctx'.findings
        /\ ctx'.code \subseteq ctx'.findings
    BY <1>1
  <1>3. ~ (Now' > 31)
    OBVIOUS
  <1>4. QED
    BY <1>2, <1>3 DEF FindingsKept

\* Nor does it open a gap, save where the repository is read.
LEMMA NoGap ==
  ASSUME IInv, SiteKept, Now \in 8 .. 32, Now' = Now + 1 \/ Now' = 0, Now # 22,
         ctx'.repo = ctx.repo, ctx'.unread = ctx.unread,
         failed' \subseteq Unwrapped \union ctx'.errors
  PROVE  GapsNoted'
  <1>1. Now' > 22 => Now > 22
    OBVIOUS
  <1>2. Now > 1
    OBVIOUS
  <1>3. (OnSite' <=> OnSite) /\ (OnCode' <=> OnCode)
    BY DEF OnSite, OnCode, SiteKept
  <1>4. QED
    BY <1>1, <1>2, <1>3 DEF IInv, GapsNoted, SiteKept

LEMMA RunScannerKeeps ==
  ASSUME IInv, NEW s \in DueSteps, RunScanner(s)
  PROVE  IInv'
  <1>1. /\ TypeOK' /\ SiteKept /\ Due[s] /\ Now = Nth[s] /\ Now' = Now + 1
        /\ ctx'.repo = ctx.repo /\ ctx'.unread = ctx.unread /\ disproved' = disproved
    BY RunEffect
  <1>2. Now \in 8 .. 29 \ {22, 23, 25, 27}
    BY <1>1, ScannerPlaces
  <1>3. Grounded'
    BY <1>1, <1>2, StillGrounded
  <1>4. ListWarranted' /\ ListedOnce'
    <2> PICK by \in Scanners : by = ScannerOf[s]
      BY ScannerPlaces
    <2>1. CASE ctx'.ran = ctx.ran /\ s \in ListedIfFound
      <3>1. Now \in 8 .. 32 /\ Now \notin {9, 11, 13}
        BY <1>1, <1>2, <2>1, PlacesApart
      <3>2. QED
        BY <1>1, <2>1, <3>1, ListKept
    <2>2. CASE ctx'.ran = Append(ctx.ran, by)
      <3>1. ~Listed(by)
        BY <1>1, DueOnce
      <3>2. Slot[by] <= Now /\ Now \in 8 .. 32
        BY <1>1, <1>2, ScannerPlaces
      <3>3. /\ ListWarranted'
            /\ \A i, k \in 1 .. Len(ctx'.ran) : ctx'.ran[i] = ctx'.ran[k] => i = k
            /\ \A x : Listed(x)' <=> (Listed(x) \/ x = by)
        BY <1>1, <1>2, <2>2, <3>1, <3>2, DueWarrant, Appended
      <3>4. QED
        BY <1>1, <3>3, TurnTaken
    <2>3. QED
      BY <2>1, <2>2, RunEffect
  <1>5. FindingsKept'
    <2>1. PICK F \in SUBSET Finding :
            /\ ctx'.findings = ctx.findings \union F
            /\ raised' = raised \union F
            /\ ctx'.code \subseteq ctx.code \union F
      BY RunEffect
    <2>2. Now \in 8 .. 30
      BY <1>2
    <2>3. QED
      BY <1>1, <2>1, <2>2, FoundKept
  <1>6. GapsNoted'
    <2>1. failed' \subseteq Unwrapped \union ctx'.errors
      <3>1. failed \subseteq Unwrapped \union ctx.errors
        BY DEF IInv, GapsNoted
      <3>2. QED
        BY <3>1, RunEffect
    <2>2. Now \in 8 .. 32 /\ Now # 22
      BY <1>2
    <2>3. QED
      BY <1>1, <2>1, <2>2, NoGap
  <1>7. QED
    BY <1>1, <1>3, <1>4, <1>5, <1>6 DEF IInv

LEMMA NotDueKeeps ==
  ASSUME IInv, NEW s \in DueSteps, NotDue(s)
  PROVE  IInv'
  <1>1. /\ Proceed /\ ~Due[s] /\ Now = Nth[s] /\ Now' = Now + 1 /\ step' \in Range(Steps)
        /\ ctx' = ctx /\ UNCHANGED <<request, raised, disproved, failed>>
    BY ProceedEffect DEF NotDue, Quietly, At, Now
  <1>2. Now \in 8 .. 29 \ {22, 23, 25, 27}
    BY <1>1, ScannerPlaces
  <1>3. SiteKept /\ TypeOK'
    BY <1>1 DEF IInv, TypeOK, SiteKept
  <1>4. Grounded'
    BY <1>1, <1>2, <1>3, StillGrounded
  <1>5. ListWarranted'
    <2>1. \A i \in 1 .. Len(ctx.ran) : ctx.ran[i] \in Scanners
      BY DEF IInv, TypeOK, Context
    <2>2. Now \in 8 .. 32
      BY <1>2
    <2>3. QED
      BY <1>1, <1>3, <2>1, <2>2, StillWarranted DEF IInv, ListWarranted
  <1>6. ListedOnce'
    <2>1. \A x : Listed(x)' <=> Listed(x)
      BY <1>1 DEF Listed
    <2>2. \A i, k \in 1 .. Len(ctx'.ran) : ctx'.ran[i] = ctx'.ran[k] => i = k
      BY <1>1 DEF IInv, ListedOnce
    <2>3. QED
      BY <1>1, <1>3, <2>1, <2>2, TurnTaken, Zenon
  <1>7. FindingsKept'
    <2>1. Now \in 8 .. 30 /\ {} \in SUBSET Finding
      BY <1>2
    <2>2. ctx'.findings = ctx.findings \union {} /\ raised' = raised \union {}
          /\ ctx'.code \subseteq ctx.code \union {}
      BY <1>1
    <2>3. QED
      BY <1>1, <2>1, <2>2, FoundKept
  <1>8. GapsNoted'
    <2>1. failed' \subseteq Unwrapped \union ctx'.errors
      BY <1>1 DEF IInv, GapsNoted
    <2>2. Now \in 8 .. 32 /\ Now # 22
      BY <1>2
    <2>3. QED
      BY <1>1, <1>3, <2>1, <2>2, NoGap
  <1>9. QED
    BY <1>3, <1>4, <1>5, <1>6, <1>7, <1>8 DEF IInv

-----------------------------------------------------------------------------
(* The code. *)

LEMMA StepMoved ==
  ASSUME Proceed \/ (step' \in Ends /\ Now' = 0)
  PROVE  step' \in Range(Steps) \union Ends /\ (Now' = 0 \/ Now' = Now + 1)
  BY ProceedEffect

\* A step about the code lists nobody; it may add findings and read the repository.
LEMMA CodeMove ==
  ASSUME IInv, SiteKept, Now \in {22, 23, 27}, Proceed \/ (step' \in Ends /\ Now' = 0),
         ctx' \in Context, ctx'.ran = ctx.ran, ctx'.code = ctx.code,
         disproved' = disproved, failed' = failed,
         NEW F \in SUBSET Finding, ctx'.findings = ctx.findings \union F,
         raised' = raised \union F,
         ctx'.repo => ctx.repo \/ OnCode, GapsNoted'
  PROVE  IInv'
  <1>1. step' \in Range(Steps) \union Ends /\ (Now' = 0 \/ Now' = Now + 1)
    BY StepMoved
  <1>2. TypeOK'
    BY <1>1 DEF IInv, TypeOK, SiteKept
  <1>3. Grounded'
    BY <1>1, StillGrounded
  <1>4. ListWarranted' /\ ListedOnce'
    BY <1>1, ListKept
  <1>5. FindingsKept'
    BY <1>1, FoundKept
  <1>6. QED
    BY <1>2, <1>3, <1>4, <1>5 DEF IInv

LEMMA QuietCodeMove ==
  ASSUME IInv, SiteKept, Now \in {22, 23, 27}, Proceed \/ (step' \in Ends /\ Now' = 0),
         ctx' \in Context, ctx'.ran = ctx.ran, ctx'.code = ctx.code,
         ctx'.findings = ctx.findings, Quietly,
         ctx'.repo => ctx.repo \/ OnCode, GapsNoted'
  PROVE  IInv'
  <1>1. /\ {} \in SUBSET Finding /\ disproved' = disproved /\ failed' = failed
        /\ ctx'.findings = ctx.findings \union {} /\ raised' = raised \union {}
    BY DEF Quietly
  <1>2. QED
    BY <1>1, CodeMove

LEMMA RepoIngestionKeeps ==
  ASSUME IInv, RepoIngestion
  PROVE  IInv'
  <1>1. Now = 22 /\ Quietly
    BY DEF RepoIngestion, At, Now, Nth
  <1>2. ctx \in Context
    BY DEF IInv, TypeOK
  <1>3. (OnSite => ctx.snapshot) /\ failed \subseteq Unwrapped \union ctx.errors
    BY <1>1 DEF IInv, GapsNoted
  <1>4. CASE OnCode /\ Proceed /\ ctx' = [ctx EXCEPT !.repo = TRUE]
    <2>1. /\ ctx' \in Context /\ ctx'.ran = ctx.ran /\ ctx'.code = ctx.code
          /\ ctx'.findings = ctx.findings /\ ctx'.repo /\ ctx'.errors = ctx.errors
          /\ SiteKept
      BY <1>1, <1>2, <1>4 DEF Context, SiteKept, Quietly
    <2>2. GapsNoted'
      BY <1>1, <1>3, <2>1 DEF GapsNoted, OnSite, SiteKept, Quietly
    <2>3. QED
      BY <1>1, <1>4, <2>1, <2>2, QuietCodeMove
  <1>5. CASE OnCode /\ (Proceed \/ End("aborted")) /\ ctx' = RepoUnread
    <2>1. /\ ctx' \in Context /\ ctx'.ran = ctx.ran /\ ctx'.code = ctx.code
          /\ ctx'.findings = ctx.findings /\ ctx'.unread /\ ctx'.errors = ctx.errors
          /\ ctx'.repo = ctx.repo /\ SiteKept
      BY <1>1, <1>2, <1>5 DEF Context, SiteKept, Quietly, RepoUnread
    <2>2. GapsNoted'
      BY <1>1, <1>3, <2>1 DEF GapsNoted, OnSite, SiteKept, Quietly
    <2>3. Proceed \/ (step' \in Ends /\ Now' = 0)
      BY <1>5, EndEffect DEF Ends
    <2>4. QED
      BY <1>1, <2>1, <2>2, <2>3, QuietCodeMove
  <1>6. CASE ~OnCode /\ Proceed /\ UNCHANGED ctx
    <2>1. SiteKept
      BY <1>1, <1>6 DEF SiteKept, Quietly
    <2>2. GapsNoted'
      BY <1>1, <1>3, <1>6, <2>1 DEF GapsNoted, OnSite, OnCode, SiteKept, Quietly
    <2>3. QED
      BY <1>1, <1>2, <1>6, <2>1, <2>2, QuietCodeMove
  <1>7. QED
    BY <1>4, <1>5, <1>6 DEF RepoIngestion, OnCode

LEMMA LspInitializationKeeps ==
  ASSUME IInv, LspInitialization
  PROVE  IInv'
  <1>1. Now = 23 /\ Quietly /\ Proceed
    BY DEF LspInitialization, At, Now, Nth
  <1>2. ctx \in Context
    BY DEF IInv, TypeOK
  <1>3. PICK up \in BOOLEAN : ctx' = [ctx EXCEPT !.lsp = up]
    <2>1. ctx.lsp \in BOOLEAN /\ ctx = [ctx EXCEPT !.lsp = ctx.lsp]
      BY <1>2 DEF Context
    <2>2. QED
      BY <2>1 DEF LspInitialization
  <1>4. /\ ctx' \in Context /\ ctx'.ran = ctx.ran /\ ctx'.code = ctx.code
        /\ ctx'.findings = ctx.findings /\ ctx'.unread = ctx.unread
        /\ ctx'.errors = ctx.errors /\ ctx'.repo = ctx.repo /\ SiteKept
    BY <1>1, <1>2, <1>3 DEF Context, SiteKept, Quietly
  <1>5. failed' \subseteq Unwrapped \union ctx'.errors
    BY <1>1, <1>4 DEF IInv, GapsNoted, Quietly
  <1>6. GapsNoted'
    BY <1>1, <1>4, <1>5, ProceedEffect, NoGap
  <1>7. QED
    BY <1>1, <1>4, <1>6, QuietCodeMove

LEMMA CrossReferenceKeeps ==
  ASSUME IInv, CrossReference
  PROVE  IInv'
  <1>1. Now = 27 /\ UNCHANGED <<request, disproved, failed>>
    BY DEF CrossReference, At, Now, Nth
  <1>2. ctx \in Context
    BY DEF IInv, TypeOK
  <1>3. Proceed \/ (step' \in Ends /\ Now' = 0)
    BY EndEffect DEF CrossReference, Ends
  <1>4. PICK F \in SUBSET Finding : /\ ctx' = [ctx EXCEPT !.findings = ctx.findings \union F]
                                    /\ raised' = raised \union F
    <2>1. Handed("cross_reference") \subseteq SUBSET Finding
      <3>1. "cross_reference" \in Scanners
        BY DEF Scanners, Both
      <3>2. QED
        BY <3>1 DEF Handed, Finding
    <2>2. ctx = [ctx EXCEPT !.findings = ctx.findings \union {}]
      <3>1. ctx.findings \union {} = ctx.findings
        OBVIOUS
      <3>2. QED
        BY <1>2, <3>1 DEF Context
    <2>3. CASE UNCHANGED <<ctx, raised>>
      BY <2>2, <2>3
    <2>4. CASE ~UNCHANGED <<ctx, raised>>
      BY <2>1, <2>4 DEF CrossReference
    <2>5. QED
      BY <2>3, <2>4
  <1> DEFINE found == ctx.findings \union F
  <1>5. found \subseteq Finding /\ found = ctx.findings \union F
    BY <1>2 DEF Context
  <1>6. ctx' = [ctx EXCEPT !.findings = found]
    BY <1>4
  <1> HIDE DEF found
  <1>7. /\ ctx' \in Context /\ ctx'.ran = ctx.ran /\ ctx'.code = ctx.code
        /\ ctx'.findings = found /\ ctx'.unread = ctx.unread
        /\ ctx'.errors = ctx.errors /\ ctx'.repo = ctx.repo /\ SiteKept
    BY <1>1, <1>2, <1>5, <1>6 DEF Context, SiteKept
  <1>8. failed' \subseteq Unwrapped \union ctx'.errors
    BY <1>1, <1>7 DEF IInv, GapsNoted
  <1>9. GapsNoted'
    BY <1>1, <1>3, <1>7, <1>8, StepMoved, NoGap
  <1>10. QED
    BY <1>1, <1>3, <1>4, <1>5, <1>7, <1>9, CodeMove

-----------------------------------------------------------------------------
(* Judgement and report. *)

\* Once all that share a scanner are past, a list that grows by newcomers is right.
LEMMA LaterOnce ==
  ASSUME IInv, SiteKept, Now \in 20 .. 32, Now' = Now + 1,
         \A i, k \in 1 .. Len(ctx'.ran) : ctx'.ran[i] = ctx'.ran[k] => i = k,
         Listed("rls_deep") => Listed("rls_deep")'
  PROVE  ListedOnce'
  <1>1. Now > 13 /\ Now' \notin 10 .. 13 /\ Now' \notin 12 .. 19
    OBVIOUS
  <1>2. QED
    BY <1>1 DEF IInv, ListedOnce, SiteKept

\* A step that judges is listed when it completes.
LEMMA JudgeListed ==
  ASSUME IInv, SiteKept, Now \in 20 .. 32, Now' = Now + 1,
         NEW by \in {"lsp_validator", "injection_adjudicator", "llm_triage"},
         Slot[by] = Now, by = "lsp_validator" => OnCode,
         ctx'.ran = Append(ctx.ran, by) \/ ctx'.ran = ctx.ran
  PROVE  ListWarranted' /\ ListedOnce'
  <1>1. Now \in 8 .. 32 /\ Now \notin {9, 11, 13}
    OBVIOUS
  <1>2. CASE ctx'.ran = ctx.ran
    BY <1>1, <1>2, ListKept
  <1>3. CASE ctx'.ran = Append(ctx.ran, by)
    <2>1. by \in Scanners
      BY DEF Scanners, Code, Judges
    <2>2. /\ by \notin Live \union {"oob_callback"} /\ by \notin Both /\ by \notin SignedIn
          /\ by # "idor_cross_user" /\ (by \in Code => by = "lsp_validator")
      BY DEF Live, Both, SignedIn, Code
    <2>3. Slot[by] <= Now /\ Now <= Slot[by]
      OBVIOUS
    <2>4. ~Listed(by)
      BY <1>1, <2>1, <2>3, NotListedYet
    <2>5. /\ ListWarranted'
          /\ \A i, k \in 1 .. Len(ctx'.ran) : ctx'.ran[i] = ctx'.ran[k] => i = k
          /\ \A x : Listed(x)' <=> (Listed(x) \/ x = by)
      BY <1>1, <1>3, <2>1, <2>2, <2>3, <2>4, Appended
    <2>6. QED
      BY <2>5, LaterOnce
  <1>4. QED
    BY <1>2, <1>3

\* What a judgement leaves alone.
JudgeFrame ==
  /\ SiteKept /\ Proceed
  /\ ctx'.repo = ctx.repo /\ ctx'.unread = ctx.unread /\ ctx'.errors = ctx.errors
  /\ raised' = raised /\ failed' = failed

LEMMA JudgeMove ==
  ASSUME IInv, JudgeFrame, Now \in {25, 30, 31}, ctx' \in Context, disproved' \subseteq Finding,
         ListWarranted', ListedOnce', FindingsKept'
  PROVE  IInv'
  <1>1. Now' = Now + 1 /\ step' \in Range(Steps)
    BY ProceedEffect DEF JudgeFrame
  <1>2. TypeOK'
    BY <1>1 DEF IInv, TypeOK, JudgeFrame, SiteKept
  <1>3. Grounded'
    BY <1>1, StillGrounded DEF JudgeFrame
  <1>4. failed' \subseteq Unwrapped \union ctx'.errors
    BY DEF IInv, GapsNoted, JudgeFrame
  <1>5. GapsNoted'
    BY <1>1, <1>4, NoGap DEF JudgeFrame
  <1>6. QED
    BY <1>2, <1>3, <1>5 DEF IInv

LEMMA LspValidationKeeps ==
  ASSUME IInv, LspValidation
  PROVE  IInv'
  <1>1. Now = 25 /\ Now' = 26 /\ Proceed /\ UNCHANGED <<request, raised, failed>>
    BY ProceedEffect DEF LspValidation, At, Now, Nth
  <1>2. /\ ctx \in Context /\ ctx.code \subseteq Finding /\ ctx.findings \subseteq Finding
        /\ ctx.ran \in Seq(Scanners) /\ disproved \subseteq Finding
    BY DEF IInv, TypeOK, Context
  <1>3. /\ raised \ disproved \subseteq ctx.findings
        /\ ctx.code \subseteq ctx.findings
    BY <1>1 DEF IInv, FindingsKept
  <1>4. Slot["lsp_validator"] = 25
    BY DEF Slot
  <1>5. ASSUME ctx.repo, NEW completes \in BOOLEAN, NEW dropped \in SUBSET ctx.code,
               ctx' = Validation(completes, dropped),
               disproved' = IF completes THEN disproved \union dropped ELSE disproved
        PROVE  IInv'
    <2> DEFINE code == ctx.code \ dropped
               found == IF completes THEN ctx.findings \ dropped ELSE ctx.findings
               ran == IF completes THEN Append(ctx.ran, "lsp_validator") ELSE ctx.ran
    <2>1. "lsp_validator" \in Scanners
      BY DEF Scanners, Code
    <2>2. /\ code \subseteq Finding /\ found \subseteq Finding /\ ran \in Seq(Scanners)
          /\ disproved' \subseteq Finding
      BY <1>2, <1>5, <2>1
    <2>3. /\ code \subseteq found /\ raised \ disproved' \subseteq found
          /\ ran = Append(ctx.ran, "lsp_validator") \/ ran = ctx.ran
      BY <1>3, <1>5
    <2>4. ctx' = [ctx EXCEPT !.code = code, !.findings = found, !.ran = ran]
      BY <1>5 DEF Validation
    <2> HIDE DEF code, found, ran
    <2>5. /\ ctx' \in Context /\ ctx'.code = code /\ ctx'.findings = found /\ ctx'.ran = ran
          /\ JudgeFrame
      BY <1>1, <1>2, <2>2, <2>4 DEF Context, JudgeFrame, SiteKept
    <2>6. ListWarranted' /\ ListedOnce'
      <3>1. OnCode
        BY <1>5 DEF IInv, Grounded
      <3>2. ctx'.ran = Append(ctx.ran, "lsp_validator") \/ ctx'.ran = ctx.ran
        BY <2>3, <2>5
      <3>3. Now \in 20 .. 32 /\ Now' = Now + 1 /\ Slot["lsp_validator"] = Now
        BY <1>1, <1>4
      <3>4. QED
        BY <2>5, <3>1, <3>2, <3>3, JudgeListed DEF JudgeFrame
    <2>7. FindingsKept'
      BY <1>1, <2>3, <2>5 DEF FindingsKept
    <2>8. QED
      BY <1>1, <2>2, <2>5, <2>6, <2>7, JudgeMove
  <1>6. CASE UNCHANGED <<ctx, disproved>>
    <2>1. JudgeFrame
      BY <1>1, <1>6 DEF JudgeFrame, SiteKept
    <2>2. ListWarranted' /\ ListedOnce'
      BY <1>1, <1>6, <2>1, ListKept DEF JudgeFrame
    <2>3. FindingsKept'
      BY <1>1, <1>3, <1>6 DEF FindingsKept
    <2>4. QED
      BY <1>1, <1>2, <1>6, <2>1, <2>2, <2>3, JudgeMove
  <1>7. QED
    BY <1>5, <1>6 DEF LspValidation

LEMMA InjectionAdjudicationKeeps ==
  ASSUME IInv, InjectionAdjudication
  PROVE  IInv'
  <1>1. Now = 30 /\ Now' = 31 /\ Proceed /\ UNCHANGED <<request, raised, failed>>
    <2>1. step = "injection_adjudication" /\ Proceed /\ UNCHANGED <<request, raised, failed>>
      BY DEF InjectionAdjudication, At
    <2>2. Now = 30
      BY <2>1 DEF Now, Nth
    <2>3. QED
      BY <2>1, <2>2, ProceedEffect
  <1>2. /\ ctx \in Context /\ ctx.findings \subseteq Finding
        /\ ctx.ran \in Seq(Scanners) /\ disproved \subseteq Finding
    BY DEF IInv, TypeOK, Context
  <1>3. raised \ disproved \subseteq ctx.findings
    BY <1>1 DEF IInv, FindingsKept
  <1>4. Slot["injection_adjudicator"] = 30
    BY DEF Slot
  <1>5. ASSUME NEW benign \in SUBSET {f \in ctx.findings : f.by = "dast"},
               ctx' = [ctx EXCEPT !.findings = ctx.findings \ benign,
                                  !.ran = IF benign = {} THEN ctx.ran
                                          ELSE Append(ctx.ran, "injection_adjudicator")],
               disproved' = disproved \union benign
        PROVE  IInv'
    <2> DEFINE found == ctx.findings \ benign
               ran == IF benign = {} THEN ctx.ran
                      ELSE Append(ctx.ran, "injection_adjudicator")
    <2>1. "injection_adjudicator" \in Scanners
      BY DEF Scanners, Judges
    <2>2. /\ found \subseteq Finding /\ ran \in Seq(Scanners) /\ disproved' \subseteq Finding
      BY <1>2, <1>5, <2>1
    <2>3. /\ raised \ disproved' \subseteq found
          /\ ran = Append(ctx.ran, "injection_adjudicator") \/ ran = ctx.ran
      BY <1>3, <1>5
    <2>4. ctx' = [ctx EXCEPT !.findings = found, !.ran = ran]
      BY <1>5
    <2> HIDE DEF found, ran
    <2>5. /\ ctx' \in Context /\ ctx'.findings = found /\ ctx'.ran = ran /\ JudgeFrame
      BY <1>1, <1>2, <2>2, <2>4 DEF Context, JudgeFrame, SiteKept
    <2>6. ListWarranted' /\ ListedOnce'
      <3>1. ctx'.ran = Append(ctx.ran, "injection_adjudicator") \/ ctx'.ran = ctx.ran
        BY <2>3, <2>5
      <3>2. Now \in 20 .. 32 /\ Now' = Now + 1 /\ Slot["injection_adjudicator"] = Now
        BY <1>1, <1>4
      <3>3. QED
        BY <2>5, <3>1, <3>2, JudgeListed DEF JudgeFrame
    <2>7. FindingsKept'
      BY <1>1, <2>3, <2>5 DEF FindingsKept
    <2>8. QED
      BY <1>1, <2>2, <2>5, <2>6, <2>7, JudgeMove
  <1>6. CASE UNCHANGED <<ctx, disproved>>
    <2>1. JudgeFrame
      BY <1>1, <1>6 DEF JudgeFrame, SiteKept
    <2>2. ListWarranted' /\ ListedOnce'
      BY <1>1, <1>6, <2>1, ListKept DEF JudgeFrame
    <2>3. FindingsKept'
      BY <1>1, <1>3, <1>6 DEF FindingsKept
    <2>4. QED
      BY <1>1, <1>2, <1>6, <2>1, <2>2, <2>3, JudgeMove
  <1>7. QED
    BY <1>5, <1>6 DEF InjectionAdjudication

\* The LLM's triage takes no finding out but into one that stays, or one that is not severe.
SevereStay(G, removed) ==
  \A r \in removed : r.flaw \in Severe => \E g \in G \ removed : g.flaw = r.flaw

LEMMA NoSevereLost ==
  ASSUME NEW G, NEW B \in SUBSET G, NEW requested \in SUBSET B, NEW merges \in Merges(B)
  PROVE  SevereStay(G, Approved(B, requested, merges))
  <1> SUFFICES ASSUME NEW r \in Approved(B, requested, merges), r.flaw \in Severe
               PROVE  \E g \in G \ Approved(B, requested, merges) : g.flaw = r.flaw
    BY DEF SevereStay
  <1> DEFINE claimed == UNION {merges[k] : k \in B}
             plain == {d \in requested \ claimed : d.flaw \notin Severe}
  <1>1. \A d \in Approved(B, requested, merges) :
          d \in requested /\ (Absorbers(d, B, requested, merges) # {} \/ d \in plain)
    BY DEF Approved
  <1>2. r \notin plain
    OBVIOUS
  <1> HIDE DEF plain
  <1>3. PICK k \in B \ requested : k.flaw = r.flaw
    BY <1>1, <1>2 DEF Absorbers
  <1>4. QED
    BY <1>1, <1>3

\* Every finding has one of its flaw among the merged.
LEMMA MergedKept ==
  ASSUME NEW F \in SUBSET Finding, NEW G \in Deduplicated(F)
  PROVE  G \in SUBSET Finding /\ \A f \in F : \E g \in G : g.flaw = f.flaw
  BY DEF Deduplicated

LEMMA TriageKeeps ==
  ASSUME IInv, Triage
  PROVE  IInv'
  <1>1. Now = 31 /\ Now' = 32 /\ Proceed /\ UNCHANGED <<request, raised, failed>>
    <2>1. step = "triage" /\ Proceed /\ UNCHANGED <<request, raised, failed>>
      BY DEF Triage, At
    <2>2. Now = 31
      BY <2>1 DEF Now, Nth
    <2>3. QED
      BY <2>1, <2>2, ProceedEffect
  <1>2. /\ ctx \in Context /\ ctx.findings \in SUBSET Finding
        /\ ctx.ran \in Seq(Scanners) /\ disproved \subseteq Finding
    BY DEF IInv, TypeOK, Context
  <1>3. raised \ disproved \subseteq ctx.findings
    BY <1>1 DEF IInv, FindingsKept
  <1>4. Now \in 20 .. 32 /\ Now' = Now + 1 /\ Slot["llm_triage"] = Now
    BY <1>1 DEF Slot
  <1>5. ASSUME NEW found \in SUBSET Finding, NEW ran \in Seq(Scanners),
               ran = Append(ctx.ran, "llm_triage") \/ ran = ctx.ran,
               ctx' = [ctx EXCEPT !.findings = found, !.ran = ran],
               disproved' \subseteq Finding,
               \A f \in raised \ disproved' : \E g \in found : g.flaw = f.flaw
        PROVE  IInv'
    <2>1. /\ ctx' \in Context /\ ctx'.findings = found /\ ctx'.ran = ran /\ JudgeFrame
      BY <1>1, <1>2, <1>5 DEF Context, JudgeFrame, SiteKept
    <2>2. ListWarranted' /\ ListedOnce'
      BY <1>4, <1>5, <2>1, JudgeListed DEF JudgeFrame
    <2>3. FindingsKept'
      BY <1>1, <1>5, <2>1 DEF FindingsKept
    <2>4. QED
      BY <1>1, <1>5, <2>1, <2>2, <2>3, JudgeMove
  <1>6. CASE UNCHANGED <<ctx, disproved>>
    <2>1. ctx' = [ctx EXCEPT !.findings = ctx.findings, !.ran = ctx.ran]
      BY <1>2, <1>6 DEF Context
    <2>2. \A f \in raised \ disproved' : \E g \in ctx.findings : g.flaw = f.flaw
      BY <1>3, <1>6
    <2>3. QED
      BY <1>2, <1>5, <1>6, <2>1, <2>2
  <1>7. ASSUME NEW G \in Deduplicated(ctx.findings), ctx' = [ctx EXCEPT !.findings = G],
               UNCHANGED disproved
        PROVE  IInv'
    <2>1. G \in SUBSET Finding /\ \A f \in ctx.findings : \E g \in G : g.flaw = f.flaw
      BY <1>2, MergedKept
    <2>2. ctx' = [ctx EXCEPT !.findings = G, !.ran = ctx.ran]
      BY <1>2, <1>7 DEF Context
    <2>3. \A f \in raised \ disproved' : \E g \in G : g.flaw = f.flaw
      BY <1>3, <1>7, <2>1
    <2>4. QED
      BY <1>2, <1>5, <1>7, <2>1, <2>2, <2>3
  <1>8. CASE TriageByLLM
    <2>1. PICK G \in Deduplicated(ctx.findings) :
           \E B \in SUBSET G : \E requested \in SUBSET B, merges \in Merges(B) :
             TakeOut(G, Approved(B, requested, merges))
      BY <1>8 DEF TriageByLLM
    <2>2. PICK B \in SUBSET G : \E requested \in SUBSET B, merges \in Merges(B) :
           TakeOut(G, Approved(B, requested, merges))
      BY <2>1
    <2>3. PICK requested \in SUBSET B, merges \in Merges(B) :
            TakeOut(G, Approved(B, requested, merges))
      BY <2>2
    <2> DEFINE removed == Approved(B, requested, merges)
               merged == {f \in ctx.findings :
                            f.flaw \notin Severe /\ \E r \in removed : r.flaw = f.flaw}
               ran == Append(ctx.ran, "llm_triage")
    <2>4. G \in SUBSET Finding /\ \A f \in ctx.findings : \E g \in G : g.flaw = f.flaw
      BY <1>2, MergedKept
    <2>5. SevereStay(G, removed)
      BY NoSevereLost
    <2>6. ctx' = [ctx EXCEPT !.findings = G \ removed, !.ran = ran]
          /\ disproved' = disproved \union merged
      BY <2>3 DEF TakeOut
    <2>7. "llm_triage" \in Scanners
      BY DEF Scanners, Judges
    <2>8. merged \subseteq Finding /\ ran \in Seq(Scanners)
      BY <1>2, <2>7
    <2> HIDE DEF removed
    <2>9. \A f \in raised \ disproved' : \E g \in G \ removed : g.flaw = f.flaw
      <3> SUFFICES ASSUME NEW f \in raised \ disproved'
                   PROVE  \E g \in G \ removed : g.flaw = f.flaw
        OBVIOUS
      <3>1. f \in ctx.findings /\ f \notin merged
        BY <1>3, <2>6
      <3>2. PICK g \in G : g.flaw = f.flaw
        BY <2>4, <3>1
      <3>3. CASE g \in removed
        <4>1. f.flaw \in Severe
          BY <3>1, <3>2, <3>3
        <4>2. QED
          BY <2>5, <3>2, <3>3, <4>1 DEF SevereStay
      <3>4. QED
        BY <3>2, <3>3
    <2> HIDE DEF merged, ran
    <2>10. G \ removed \in SUBSET Finding /\ disproved' \subseteq Finding
      BY <1>2, <2>4, <2>6, <2>8
    <2>11. ran = Append(ctx.ran, "llm_triage")
      BY DEF ran
    <2>12. QED
      BY <1>5, <2>6, <2>8, <2>9, <2>10, <2>11
  <1>9. QED
    BY <1>6, <1>7, <1>8 DEF Triage

LEMMA ReportKeeps ==
  ASSUME IInv, Report
  PROVE  IInv'
  <1>1. Now = 32 /\ Now' = 33 /\ step' \in Ends /\ ctx' = ctx /\ Quietly
    BY EndEffect DEF Report, At, Now, Nth, Ends
  <1>2. SiteKept /\ TypeOK'
    BY <1>1 DEF IInv, TypeOK, SiteKept, Quietly
  <1>3. Grounded'
    BY <1>1, <1>2, StillGrounded
  <1>4. ListWarranted' /\ ListedOnce'
    BY <1>1, <1>2, ListKept
  <1>5. FindingsKept'
    BY <1>1 DEF IInv, FindingsKept, Quietly
  <1>6. GapsNoted'
    BY <1>1 DEF IInv, GapsNoted, OnSite, OnCode, Quietly
  <1>7. QED
    BY <1>2, <1>3, <1>4, <1>5, <1>6 DEF IInv

-----------------------------------------------------------------------------
(* The theorems. *)

LEMMA NextKeeps ==
  ASSUME IInv, [Next]_vars
  PROVE  IInv'
  <1>1. CASE UNCHANGED vars
    <2>1. /\ request' = request /\ step' = step /\ ctx' = ctx /\ raised' = raised
          /\ disproved' = disproved /\ failed' = failed
      BY <1>1 DEF vars
    <2>2. TypeOK' /\ Grounded' /\ ListWarranted'
      BY <2>1 DEF IInv, TypeOK, Grounded, ListWarranted, Warranted, OnSite, OnCode, Signing, Now
    <2>3. ListedOnce' /\ FindingsKept' /\ GapsNoted'
      BY <2>1 DEF IInv, ListedOnce, Listed, FindingsKept, GapsNoted, OnSite, OnCode, Now,
                  SignedInPhase
    <2>4. QED
      BY <2>2, <2>3 DEF IInv
  <1>2. CASE UrlIngestion \/ EndpointDiscovery \/ AuthenticatedCrawl \/ ApiLogin \/ RestLogin
             \/ SecondUser \/ OobRegistration
    BY <1>2, UrlIngestionKeeps, EndpointDiscoveryKeeps, AuthenticatedCrawlKeeps, LoginsKeep,
       SecondUserKeeps, OobRegistrationKeeps
  <1>3. ASSUME NEW s \in DOMAIN Due, RunScanner(s) \/ NotDue(s)
        PROVE  IInv'
    BY <1>3, DueStepsKnown, RunScannerKeeps, NotDueKeeps
  <1>4. CASE RepoIngestion \/ LspInitialization \/ LspValidation \/ CrossReference
             \/ InjectionAdjudication \/ Triage \/ Report
    BY <1>4, RepoIngestionKeeps, LspInitializationKeeps, LspValidationKeeps,
       CrossReferenceKeeps, InjectionAdjudicationKeeps, TriageKeeps, ReportKeeps
  <1>5. QED
    BY <1>1, <1>2, <1>3, <1>4 DEF Next

\* A scan never leaves the invariant.
THEOREM InvCorrect == Spec => []IInv
  <1>1. Init => IInv
    BY InitInv
  <1>2. IInv /\ [Next]_vars => IInv'
    BY NextKeeps
  <1>3. QED
    BY <1>1, <1>2, PTL DEF Spec

\* How often a scanner ran is whether it is listed, once none is listed twice.
LEMMA RanListed ==
  ASSUME IInv, NEW by
  PROVE  /\ Ran(by) = IF Listed(by) THEN 1 ELSE 0
         /\ Ran(by) <= 1 /\ (Ran(by) > 0 <=> Listed(by))
  <1> DEFINE S == {i \in 1 .. Len(ctx.ran) : ctx.ran[i] = by}
  <1>1. CASE Listed(by)
    <2>1. PICK i \in 1 .. Len(ctx.ran) : ctx.ran[i] = by
      BY <1>1 DEF Listed
    <2>2. S = {i}
      BY <2>1 DEF IInv, ListedOnce
    <2>3. Cardinality(S) = 1
      BY <2>2, FS_Singleton
    <2>4. QED
      BY <1>1, <2>3 DEF Ran
  <1>2. CASE ~Listed(by)
    <2>1. S = {}
      BY <1>2 DEF Listed
    <2>2. Cardinality(S) = 0
      BY <2>1, FS_EmptySet
    <2>3. QED
      BY <1>2, <2>2 DEF Ran
  <1>3. QED
    BY <1>1, <1>2

LEMMA ListedWarranted ==
  ASSUME IInv, NEW by, Ran(by) > 0
  PROVE  Warranted(by)
  BY RanListed DEF IInv, ListWarranted, Listed

\* Scanners run when they should, once, and within what was asked for (_scan_impl's
\* phases, in particular the steps that share rls_deep or dom_xss).
THEOREM ScannersRunInPlace == Spec => []ScannersInPlace
  <1>1. IInv => RunOnce
    <2> SUFFICES ASSUME IInv PROVE RunOnce
      OBVIOUS
    <2>1. ASSUME Complete, ctx.supabase PROVE Ran("rls_deep") = 1
      <3>1. Now = 33
        BY <2>1 DEF Complete, Now, Nth
      <3>2. Listed("rls_deep")
        BY <2>1, <3>1 DEF IInv, ListedOnce
      <3>3. QED
        BY <3>2, RanListed
    <2>2. QED
      BY <2>1, RanListed DEF RunOnce
  <1>2. IInv => WithinMode
    <2> SUFFICES ASSUME IInv PROVE WithinMode
      OBVIOUS
    <2>1. \A by : Ran(by) > 0 => Warranted(by)
      BY ListedWarranted
    <2>2. (\E by \in Live \union {"oob_callback"} : Ran(by) > 0)
            => request.url /\ ctx.mode \in ReadsSite
      BY <2>1 DEF Warranted, OnSite
    <2>3. (\E by \in Code : Ran(by) > 0) => request.repo /\ ctx.mode \in ReadsCode
      BY <2>1 DEF Warranted, OnCode
    <2>4. (\E by \in Both : Ran(by) > 0) => ctx.mode = "full"
      BY <2>1 DEF Warranted
    <2>5. ctx.a \/ (\E by \in SignedIn : Ran(by) > 0)
            => request.a # "none" /\ ctx.mode \in SignsIn
      BY <2>1 DEF Warranted, Signing, IInv, Grounded
    <2>6. (ctx.b => ctx.a /\ request.b) /\ (Ran("idor_cross_user") > 0 => ctx.b)
      BY <2>1 DEF Warranted, IInv, Grounded
    <2>7. QED
      BY <2>2, <2>3, <2>4, <2>5, <2>6 DEF WithinMode
  <1>3. IInv => ScannersInPlace
    BY <1>1, <1>2 DEF ScannersInPlace, IInv
  <1>4. QED
    BY <1>3, InvCorrect, PTL

\* No finding is lost between the scanner that raised it and the report, and none that
\* is severe by the LLM's triage.
THEOREM NoFindingIsLost == Spec => []FindingsAccounted
  <1>1. IInv => FindingsAccounted
    <2> SUFFICES ASSUME IInv PROVE FindingsAccounted
      OBVIOUS
    <2>1. Complete => Now = 33
      BY DEF Complete, Now, Nth
    <2>2. ASSUME step \notin Ends \union {"triage", "report"}
          PROVE  Now \in 1 .. 30
      <3>1. step \in Range(Steps)
        BY <2>2 DEF IInv, TypeOK
      <3>2. PICK i \in 1 .. 32 : step = Steps[i]
        <4>1. DOMAIN Steps = 1 .. 32
          BY DEF Steps
        <4>2. QED
          BY <3>1, <4>1 DEF Range
      <3>3. Now = i
        BY <3>2, StepsNumbered DEF Now
      <3>4. Steps[31] = "triage" /\ Steps[32] = "report"
        BY DEF Steps
      <3>5. QED
        BY <2>2, <3>2, <3>3, <3>4
    <2>3. QED
      BY <2>1, <2>2 DEF IInv, FindingsKept, FindingsAccounted
  <1>2. QED
    BY <1>1, InvCorrect, PTL

\* A report that names no gap was earned: all that was to be read was read, and no
\* scanner that run_scanner_safe wraps has failed.
THEOREM CleanBillsAreEarned == Spec => []CleanBillEarned
  <1>1. IInv => CleanBillEarned
    <2> SUFFICES ASSUME IInv, Complete, ctx.errors = {}, ~ctx.unread
                 PROVE  /\ OnSite => ctx.snapshot
                        /\ OnCode => ctx.repo
                        /\ request.mode = "auto" => /\ request.url => ctx.snapshot
                                                    /\ request.repo => ctx.repo
                        /\ failed \subseteq Unwrapped
      BY DEF CleanBillEarned, OnSite, OnCode
    <2>1. Now > 1 /\ Now > 22
      BY DEF Complete, Now, Nth
    <2>2. (OnSite => ctx.snapshot) /\ (OnCode => ctx.repo) /\ failed \subseteq Unwrapped
      BY <2>1 DEF IInv, GapsNoted
    <2>3. ASSUME request.mode = "auto"
          PROVE  (request.url => OnSite) /\ (request.repo => OnCode)
      <3>1. ctx.mode = ModeOf(request) /\ request \in Requests
        BY DEF IInv, Grounded, TypeOK
      <3>2. request.url \/ request.repo
        BY <3>1, NonEmptyAssumption
      <3>3. request.url /\ request.repo => ctx.mode = "full"
        BY <2>3, <3>1 DEF ModeOf, _detect_scan_mode
      <3>4. request.url /\ ~request.repo => ctx.mode \in {"authenticated", "url_only"}
        BY <2>3, <3>1 DEF ModeOf, _detect_scan_mode
      <3>5. ~request.url /\ request.repo => ctx.mode = "code_only"
        BY <2>3, <3>1 DEF ModeOf, _detect_scan_mode
      <3>6. QED
        BY <3>2, <3>3, <3>4, <3>5 DEF OnSite, OnCode, ReadsSite, ReadsCode
    <2>4. QED
      BY <2>2, <2>3
  <1>2. QED
    BY <1>1, InvCorrect, PTL

==============================================================================
