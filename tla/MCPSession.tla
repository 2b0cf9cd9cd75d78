----------------------------- MODULE MCPSession -----------------------------
(***************************************************************************)
(* A session with the MCP server (isitsecure/mcp_server.py): its host scans *)
(* a repository, edits it, verifies the edits against an earlier scan, and  *)
(* starts live-URL scans that run in the background.  Reports are cached    *)
(* under scan ids, jobs under job ids, and both stores evict.               *)
(*                                                                         *)
(* The code of the repository is the set of its flaws: where each is, on    *)
(* which flagged line.  A scan reads it at one moment and may go on long    *)
(* after: the host (or its user) may edit before the answer.                *)
(***************************************************************************)
EXTENDS RescanVerdicts, Sequences

CONSTANTS
  Files,
  Home,              \* flaw -> the file it is or would be in
  LineOf,            \* flaw -> its flagged line
  SeverityOf,        \* flaw -> severity its scanner gives it
  Initially,         \* the flaws of the repository before the session
  SCAN_CACHE_MAX, JOBS_MAX,
  MaxCalls,          \* bound on the calls that end with a report
  MaxEvents,         \* bound on the edits and jobs of the session
  MaxMishaps         \* bound on what goes wrong in one scan

ASSUME SessionAssumption ==
  /\ Initially \subseteq Flaws /\ Home \in [Flaws -> Files] /\ "none" \notin Files
  /\ "missing" \notin Scanners
  /\ SeverityOf \in [Flaws -> Severities]
  /\ SCAN_CACHE_MAX \in Nat \ {0} /\ JOBS_MAX \in Nat \ {0}
  /\ MaxCalls \in Nat /\ MaxEvents \in Nat /\ MaxMishaps \in Nat

VARIABLES
  keyed,      \* an LLM key is configured (_maybe_llm_client)
  code,       \* flaw -> where it is, or Fixed
  unparsed,   \* files that do not parse
  edits,      \* how often the host edited
  cache,      \* _SCAN_CACHE, the oldest first
  issued,     \* scan ids given out so far
  call,       \* the scan or verify call under way, or its answer
  jobs,       \* ids in _JOBS, in the order in which they were started
  job         \* id -> the job and its task

vars == <<keyed, code, unparsed, edits, cache, issued, call, jobs, job>>
repository == <<code, unparsed, edits>>

Fixed == [file |-> "none", line |-> "none"]
Rewritten(f) == <<"rewritten", f>>     \* a flagged line no other flaw has
NoReport == [findings |-> {}, failed |-> {}, missing |-> {}]
NoCall == [pc |-> "idle", tool |-> "scan", old |-> {}, new |-> NoReport,
           read |-> [f \in Flaws |-> Fixed], broken |-> {}, unparsed |-> {}]
NoJob == [status |-> "none", task |-> "none", scan |-> 0]
JobIds == 1 .. MaxEvents

Init ==
  /\ keyed \in BOOLEAN
  /\ code = [f \in Flaws |->
       IF f \in Initially THEN [file |-> Home[f], line |-> LineOf[f]] ELSE Fixed]
  /\ unparsed = {} /\ edits = 0
  /\ cache = <<>> /\ issued = 0
  /\ call = NoCall
  /\ jobs = {} /\ job = [j \in JobIds |-> NoJob]

-----------------------------------------------------------------------------
(* The host edits the repository. *)

Present == {f \in Flaws : code[f] # Fixed}
Started == Cardinality({j \in JobIds : job[j].task # "none"})
Quiet == edits + Started = MaxEvents       \* the bound is reached
\* An answer is looked at once.
Noted == call' = IF call.pc = "answered" THEN NoCall ELSE call
Edit ==
  /\ ~ Quiet /\ edits' = edits + 1 /\ Noted
  /\ UNCHANGED <<keyed, cache, issued, jobs, job>>
Fix(f) == Edit /\ code' = [code EXCEPT ![f] = Fixed] /\ UNCHANGED unparsed
Reword(f) ==
  /\ code[f].line # NoLine /\ Edit
  /\ code' = [code EXCEPT ![f].line = Rewritten(f)] /\ UNCHANGED unparsed
Move(f, file) ==
  /\ file # code[f].file /\ Edit
  /\ code' = [code EXCEPT ![f].file = file] /\ UNCHANGED unparsed
Introduce(f) ==
  /\ Edit /\ code' = [code EXCEPT ![f] = [file |-> Home[f], line |-> LineOf[f]]]
  /\ UNCHANGED unparsed
BreakOrMend(file) ==
  /\ Edit /\ UNCHANGED code
  /\ unparsed' = IF file \in unparsed THEN unparsed \ {file} ELSE unparsed \union {file}
\* Edits to what only the LLM sees are left out: no verdict depends on them.
HostStep ==
  \/ \E f \in {p \in Present : ScannerOf[p] \notin LLMScanners} :
       Fix(f) \/ Reword(f) \/ \E file \in Files : Move(f, file)
  \/ \E f \in Flaws \ (Present \union Initially) : Introduce(f)
  \/ \E file \in Files : BreakOrMend(file)

-----------------------------------------------------------------------------
(* A scan of the repository *)

FindingOf(f, sev) == [flaw |-> f, file |-> code[f].file, line |-> code[f].line, sev |-> sev]

\* _clamp_severity and _calibrate_severity: one step from the scanner's own, and from
\* high to critical if the LLM calls it exploited.
Adjusted(sev) ==
  LET near == {s \in Severities : Rank(s) - Rank(sev) \in {-1, 0, 1}}
  IN near \union IF "high" \in near THEN {"critical"} ELSE {}

\* With a key the LLM triages what the scanners outside SastOnly found, but for the
\* low ones: it adjusts severities and drops some of the medium ones.
Triaged == {f \in Present : keyed /\ ScannerOf[f] \notin SastOnly /\ SeverityOf[f] # "low"}
Droppable == {f \in Triaged : SeverityOf[f] = "medium"}
SeveritiesGiven ==
  {s \in [Triaged -> Severities] : \A f \in Triaged : s[f] \in Adjusted(SeverityOf[f])}
Rated(given, f) == IF f \in Triaged THEN given[f] ELSE SeverityOf[f]

\* What the scanners find: all that is in files that parse, some of what is in others,
\* nothing when they failed or semgrep is missing, and, with a key, whatever the LLM happens to say.
Found(found, silent) ==
  /\ keyed \/ \A f \in found : ScannerOf[f] \notin LLMScanners
  /\ found \subseteq {f \in Present : ScannerOf[f] \notin silent}
  /\ \A f \in Present \ found :
       ScannerOf[f] \in silent \union LLMScanners \/ code[f].file \in unparsed

\* A scanner fails, or an error names none, or semgrep is not installed.
Troubles == {{}, {Unmapped}, {Semgrep, "missing"}} \union {{s} : s \in Scanners \ LLMScanners}
\* What goes wrong, and what else the LLM does than let everything pass.
Mishaps(found, given, dropped, late, trouble) ==
  Cardinality({f \in found : Rated(given, f) # SeverityOf[f]} \union dropped)
    + Cardinality({f \in Present \ found : keyed /\ ScannerOf[f] \in LLMScanners})
    + Cardinality({t \in {trouble} : t # {}}) + Cardinality({l \in {late} : l})
Missing(trouble) == IF "missing" \in trouble THEN {Semgrep} ELSE {}
Failed(trouble) == IF "missing" \in trouble THEN {} ELSE trouble

-----------------------------------------------------------------------------
(* Tool calls *)

Calls == issued - Cardinality({j \in JobIds : job[j].status = "done"})
Idle == call.pc \in {"idle", "answered"} /\ Calls < MaxCalls

ScanCall ==
  /\ Idle
  /\ call' = [NoCall EXCEPT !.pc = "scanning"]
  /\ UNCHANGED <<keyed, repository, cache, issued, jobs, job>>

\* The old report is looked up before the re-scan; live-URL scans have no path.
VerifyCall ==
  /\ Idle
  /\ \E i \in 1 .. Len(cache) :
       /\ cache[i].local
       /\ call' = [NoCall EXCEPT !.pc = "scanning", !.tool = "verify", !.old = cache[i].findings]
  /\ UNCHANGED <<keyed, repository, cache, issued, jobs, job>>

MissingReported(absent) == IF call.tool = "verify" THEN absent ELSE {}

\* The findings are grouped as their scanners rate them, before the LLM is asked.  If its
\* triage comes too late, all are reported, with the severities it has changed already.
Raw(found) == {FindingOf(f, SeverityOf[f]) : f \in found}
Merged(found, late) == IF late THEN Raw(found) ELSE Grouped(Raw(found))
Report(merged, given, dropped, trouble) ==
  [findings |-> {[f EXCEPT !.sev = Rated(given, f.flaw)] :
                   f \in {g \in merged : g.flaw \notin dropped}},
   failed |-> Failed(trouble), missing |-> MissingReported(Missing(trouble))]

Scan ==
  /\ call.pc = "scanning"
  /\ \E trouble \in Troubles, found \in SUBSET Present, given \in SeveritiesGiven,
        late \in {keyed, FALSE} :
       /\ Found(found, trouble)
       /\ \E dropped \in SUBSET (IF late THEN {} ELSE Droppable \intersect found) :
            /\ Mishaps(found, given, dropped, late, trouble) <= MaxMishaps
            /\ call' = [call EXCEPT
                 !.pc = "scanned", !.read = code, !.broken = unparsed,
                 !.new = Report(Merged(found, late), given, dropped, trouble)]
  /\ UNCHANGED <<keyed, repository, cache, issued, jobs, job>>

NoReportCame ==
  /\ call.pc = "scanning"
  /\ call' = NoCall
  /\ UNCHANGED <<keyed, repository, cache, issued, jobs, job>>

\* _cache_report
EvictOldest(entries) ==
  IF Len(entries) > SCAN_CACHE_MAX THEN Tail(entries) ELSE entries
CacheReport(findings, local) ==
  /\ issued' = issued + 1
  /\ cache' = EvictOldest(Append(cache,
               [id |-> issued + 1, findings |-> findings, local |-> local]))

\* Caching, the parse check and the verdict are one step of the event loop.
Answer ==
  /\ call.pc = "scanned"
  /\ CacheReport(call.new.findings, TRUE)
  /\ call' = [call EXCEPT !.pc = "answered", !.unparsed = unparsed]
  /\ UNCHANGED <<keyed, repository, jobs, job>>

-----------------------------------------------------------------------------
(* Background jobs: scan_url, _run_dast_job, _finalize *)

Running(j) == job[j].status = "running"
EvictAnyJob(ids) ==                      \* slip: running jobs are evicted too
  {j \in ids : Cardinality(ids) < JOBS_MAX \/ \E k \in ids : k < j}
\* The oldest finished ones go, as many as are too many with the new one.
EvictFinished(ids) ==
  LET Older(j) == {k \in ids : k <= j /\ ~ Running(k)}
  IN {j \in ids : Running(j) \/ Cardinality(Older(j)) > Cardinality(ids) + 1 - JOBS_MAX}

ScanUrl(j) ==
  /\ j = Started + 1 /\ ~ Quiet
  /\ job' = [job EXCEPT ![j] = [status |-> "running", task |-> "running", scan |-> 0]]
  /\ jobs' = EvictFinished(jobs) \union {j}
  /\ Noted
  /\ UNCHANGED <<keyed, repository, cache, issued>>

JobDone(j) ==
  /\ job[j].task = "running"
  /\ CacheReport({}, FALSE)
  /\ job' = [job EXCEPT ![j] = [status |-> "done", task |-> "ended", scan |-> issued + 1]]
  /\ Noted
  /\ UNCHANGED <<keyed, repository, jobs>>

\* An exception, or a scan without a report.
JobFails(j) ==
  /\ job[j].task = "running"
  /\ job' = [job EXCEPT ![j] = [status |-> "error", task |-> "ended", scan |-> 0]]
  /\ Noted
  /\ UNCHANGED <<keyed, repository, cache, issued, jobs>>

\* A CancelledError that leaves the scan passes `except Exception`, and _finalize
\* returns at once: the status stays.
JobCancelled(j) ==
  /\ job[j].task = "running"
  /\ job' = [job EXCEPT ![j].task = "cancelled"]
  /\ Noted
  /\ UNCHANGED <<keyed, repository, cache, issued, jobs>>

JobStep(j) == ScanUrl(j) \/ JobDone(j) \/ JobFails(j) \/ JobCancelled(j)

Next ==
  \/ HostStep
  \/ ScanCall \/ VerifyCall \/ Scan \/ NoReportCame \/ Answer
  \/ \E j \in JobIds : JobStep(j)

Spec == Init /\ [][Next]_vars

-----------------------------------------------------------------------------
(* Properties *)

Places == {[file |-> f, line |-> l] :
             f \in Files, l \in {LineOf[x] : x \in Flaws} \union {Rewritten(x) : x \in Flaws}}

\* Every flaw is somewhere or fixed, cached ids ascend, a job that ended has an outcome
\* (_CachedScan, _ScanJob); a cancelled one keeps the status "running".
TypeOK ==
  /\ keyed \in BOOLEAN /\ code \in [Flaws -> Places \union {Fixed}] /\ unparsed \subseteq Files
  /\ edits \in 0 .. MaxEvents /\ issued \in 0 .. MaxCalls + MaxEvents
  /\ \A i \in 1 .. Len(cache) : cache[i].id \in 1 .. issued
  /\ \A i, k \in 1 .. Len(cache) : i < k => cache[i].id < cache[k].id
  /\ call.pc \in {"idle", "scanning", "scanned", "answered"} /\ call.tool \in {"scan", "verify"}
  /\ jobs \subseteq JobIds
  /\ \A j \in JobIds :
       /\ job[j].task \in {"none", "running", "ended", "cancelled"}
       /\ job[j].status = "running" <=> job[j].task \in {"running", "cancelled"}
       /\ job[j].scan > 0 <=> job[j].status = "done"

Verified == call.pc = "answered" /\ call.tool = "verify"
Verdict == VerifyResult(call.old, call.new, call.unparsed)
Alike(f) == {g \in call.old : SameKind(f, g)}
GoneForReal(f) == call.read[f.flaw] = Fixed

\* What a scan of what was read can report, and where.
Visible(read, x) == read[x] # Fixed /\ (keyed \/ ScannerOf[x] \notin LLMScanners)
Sight(read, x) == [flaw |-> x, file |-> read[x].file]
Sights(read) == {Sight(read, x) : x \in {y \in Flaws : Visible(read, y)}}

\* A kind of findings that identity can follow through the edits: the LLM has no say in
\* it, no file was broken only while it was scanned, grouping touches none of those still
\* there, and one that moved took its line along, away from and to where no other of its
\* kind was, and none with that line is in a file that does not parse, which would seem to
\* have moved.
Trackable(f) ==
  /\ Scanner(f) \in SastOnly \/ ~ keyed
  /\ call.broken \subseteq call.unparsed
  /\ \A g \in Alike(f) :
       \/ call.read[g.flaw] = Fixed
       \/ /\ Ungrouped(Sights(call.read), Sight(call.read, g.flaw))
          /\ \/ call.read[g.flaw].file = g.file
             \/ /\ call.read[g.flaw].line = g.line /\ g.line # NoLine
                /\ call.read[g.flaw].file \notin call.broken
                /\ \A h \in Alike(f) \ {g} :
                     /\ h.file \notin {g.file, call.read[g.flaw].file}
                     /\ h.line = g.line => h.file \notin call.unparsed

\* No more findings of a kind are called resolved than were removed, whatever scanner
\* failed, file broke, or line changed since: by the MCP verify tool, by the fix flow and
\* by `isitsecure verify`, asked about any of the old findings (classify_against_rescan
\* and its three callers).
ResolvedIsGone ==
  Verified =>
    LET claims == {Verdict.resolved}
          \union {FixFlowResolved(asked, call.old, call.new, call.unparsed) : asked \in SUBSET call.old}
          \union {ReverifyFixed(asked, call.new, call.unparsed) : asked \in SUBSET call.old}
    IN \A f \in call.old : Trackable(f) =>
         \A resolved \in claims :
           Cardinality(resolved \intersect Alike(f))
             <= Cardinality({g \in Alike(f) : GoneForReal(g)})

\* Every old finding is resolved, still there or unverifiable; and if alike findings have
\* the same severity, the grade improves only if something was resolved, and the launch is
\* called safe only if every critical or high finding was (_verify_result,
\* calculate_grade, launch_verdict).
GradeOnlyByFixing ==
  Verified =>
    LET v == Verdict IN
    /\ Cardinality(v.resolved) + Cardinality(v.still) + v.unverifiable = Cardinality(call.old)
    /\ (\A f \in call.old, g \in call.new.findings : SameKind(f, g) => g.sev = f.sev) =>
         /\ Grade(v.effective) < Grade(Tally(call.old)) => v.resolved # {}
         /\ SafeToLaunch(v.effective, call.new) =>
              {f \in call.old : f.sev \in {"critical", "high"}} \subseteq v.resolved

\* Handles given to the host keep working as far as promised: a job whose task runs can be
\* polled, the newest scans stay in the cache, and the scan of a finished job is its own,
\* a live-URL scan, if it is still there (_cache_report, scan_url, scan_status).
HandlesWork ==
  /\ TypeOK
  /\ \A j \in JobIds : job[j].task = "running" => j \in jobs
  /\ {cache[i].id : i \in 1 .. Len(cache)} = {n \in 1 .. issued : n > issued - SCAN_CACHE_MAX}
  /\ \A j \in JobIds : job[j].status = "done" =>
       \A i \in 1 .. Len(cache) : cache[i].id = job[j].scan => ~ cache[i].local
=============================================================================
