# Verification of isitsecure

TLA+ models of the parts of isitsecure in which something can go wrong that a
test hardly reaches: where several actors share a repository, a store or a
queue, where steps fail half-way, and where a timeout races its answer. The
modules are translated from the source; line numbers below and in PROJECT.json
refer to it. Paths are relative to the repository root; `pr_flow.py` stands for
`isitsecure/engine/fixes/pr_flow.py` and so on.

* [1 The system](#1-the-system): its components, their state, how they interact
* [2 The modules](#2-the-modules): how the models correspond to the code
* [3 The runs](#3-the-runs): what TLC checks, within which bounds
* [4 The proofs](#4-the-proofs): what holds for every value of the constants
* [5 Where code and documentation disagree](#5-where-code-and-documentation-disagree)
* [6 What is not modelled](#6-what-is-not-modelled)
* [7 Plan](#7-plan)

## 1 The system

isitsecure scans a repository (SAST) and a running application (DAST), reports
findings, and fixes them: it writes into the user's local repository, or clones
a GitHub repository and opens pull requests. A scan is an asyncio generator of
events. It is driven by the command line, by a FastAPI server with an in-memory
store and server-sent event streams, or by an MCP server.

```
 CLI ----------+                          +-- scanners (DAST, SAST, LLM review)
 web UI - SSE -+-> server/app.py -> scan -+   under run_scanner_safe, one queue
 MCP client ---+        |                 +-- report, scanner_errors
                        |
                        |            (phases in order: agent.py, one ScanContext)
                        +-> fix job -> fix_service.py -> user's git repository
 CLI fix --repo ------------------> pr_flow.py -> clone -> GitHub <- user
                                        ^
                 re-scan and verdict ---+  (verifier.py, reverify.py, MCP verify)
```

| Component | State | Operations | What makes it hard | What makes it correct |
|---|---|---|---|---|
| Remote fix flow (`pr_flow.py`, `git_ops.py`) | a temporary clone, names taken, a result; on GitHub branches and pull requests | clone, look names up, pick a name, apply and commit one fix per finding, push, open the pull request, cancel | a stale look-up, another run, the user merging and deleting, commands that time out after they took effect, swallowed failures | never pushes to the base branch, never loses a commit, never proposes twice, the result is true |
| Local apply (`fix_service.py`, `safe_apply.py`) | per-repository lock, fix branch, files being written; the repository of the user | checks, read, generate, back up, lock, check again, branch, write, add, commit, verify, switch back, roll back | the user edits at any moment, other jobs, threads that outlive their task, failing clean-up, a second cancellation | all or nothing, the user's edits survive, the user's branch is untouched, what is reported is committed |
| Server stores (`app.py`) | `_scans`, `_fix_jobs`, watchers, timers, keys | start, run, stream, disconnect, reconnect, cancel, evict | the end of a job, of a stream and of an entry happen in any order | running entries stay, stores are bounded, streams deliver all and end, abandoned jobs stop, keys are forgotten |
| Scan execution (`agent.py`, `scanner_runner.py`, `time_budget.py`, `progress.py`) | progress queue, worker tasks, failure log | launch, drain, deadline, hard timeout, crash, cancel, gather | one queue for everybody, completion counted by markers, three ways to stop a scan | the drain ends, each scanner is counted once, no loss is silent, stopping stops the work |
| Scan phases (`agent.py`, `scan_context.py`) | `ScanContext`: mode, site, sessions, crawl, repository, findings, gaps | some twenty phases, one after another | each is guarded by what earlier ones left, several fail and go on, two may run one scanner | every scanner runs where it should and once, no finding is lost, a clean report was earned |
| Verdicts of a re-scan (`identity.py`, `verifier.py`, `reverify.py`, `plain_english.py`) | none: they read reports | fingerprint, match, grade, launch verdict | alike findings, moved and reworded code, scanners that failed, files that do not parse, an LLM with a say | "resolved" only what was fixed, a better grade only by a fix |
| Triage (`llm_triage_service.py`, `injection_adjudicator.py`) and cross-reference | none | group, adjust, merge, drop, confirm | the LLM decides, and may be wrong | no severe finding disappears without another that stands for it |
| Grouping into pull requests (`pr_flow.py:255-505`, `771-998`) | none; names on the remote remember | group, cap, number, choose a name | the cap merges groups, ids are random, names stay taken | nothing dropped, at most `max_prs`, no second request for what is proposed, everything fixed in the end |
| Language-server clients (`lsp/*`) | child process, pending requests, reader task, opened files | initialize, request, notify, read, trace, shut down | server-initiated requests share the id space, the reader may end, timeouts inside timeouts, a project that is not loaded yet | each request ends, no finding is suppressed by the answer to another request, no process is left behind |
| MCP server (`mcp_server.py`) | scan cache, job store | scan, poll, verify, explain, fix, export | eviction against polling, edits during a re-scan, cancelled tasks | an announced id works, verdicts are true |
| Fix generation and its gates (`fix_generator.py`, `parse_check.py`) | none | prompt, parse, check | LLM output | a rejected fix is never applied |
| Scanners and analyzers (`scanners/*`, `code_analysis/*`, `guided_dast/*`) | local | probe, match | external services | outside of these models |
| Out-of-band callbacks (`oob_callback.py`) | pending tags | register, poll, attribute | late and duplicate interactions | a callback is attributed to the probe that caused it |
| Baseline and suppression (`baseline.py`, `suppression.py`) | files in the home directory or repository | partition by fingerprint | code that moved | accepted findings stay accepted, new ones show |
| Rendering, adapters, authentication, ingestion, projects, CLI, UI | little or none | | | outside of these models |

PROJECT.json lists every component with what is modelled of it, and under
"hazards" each place where this code is hard to test, with the properties that
would catch it going wrong.

## 2 The modules

| Module | Models | Instance for TLC |
|---|---|---|
| `PRFlow` | remote fix flow, GitHub and its user | `MCPRFlow` |
| `FixProposals` | abstract: what the remote flow promises the owner of a repository | |
| `PRFlowProofs` | theorems about `PRFlow`: what it does to the remote, what a run reports and commits, the names runs choose | |
| `FixApply` | local apply, git and the user | `MCFixApply` |
| `FixPromise` | abstract: fixes appear together or not at all, and are reported truly | |
| `FixApplyProofs` | theorems about `FixApply` | |
| `ServerJobs` | stores, streams and timers of the web server | `MCServerJobs` |
| `ServerJobsProofs` | theorems about `ServerJobs` | |
| `ScanRunner` | scan execution and the verdicts on its report | `MCScanRunner` |
| `ScanRunnerProofs` | theorems about `ScanRunner` | |
| `ScanPhases` | the phases of a scan, its context and its report | `MCScanPhases` |
| `ScanPhasesProofs` | theorems about `ScanPhases` | |
| `LSPClient` | a language-server session and the findings it suppresses | `MCLSPClient` |
| `LSPClientProofs` | theorems about `LSPClient` | |
| `RescanVerdicts` | operators: identity, matching, verdicts, grade | |
| `MCPSession` | a host that edits, scans and verifies, cache and jobs of the MCP server | `MCMCPSession` |
| `MCPSessionProofs` | theorems about `RescanVerdicts` and `MCPSession` | |
| `PRGrouping` | findings to groups to names, over re-runs of the flow | `MCPRGrouping` |
| `PRGroupingProofs` | theorems about `PRGrouping` | |

The modules meet where the components do. `MCPSession` extends `RescanVerdicts` and
judges its reports. `ScanPhases` takes a scanner as one step with the outcomes that
`ScanRunner` gives it in detail, and its language-server phase as the outcomes of
`LSPClient`; `PRFlow` fixes and pushes, in detail, one of the groups that `PRGrouping`
plans and re-plans.

An action is what the code does between two awaits, or between two effects
another actor can see. A definition marked "slip" in a module is not part of the
model: it is the mistake that must make a property fail, and PROJECT.json names
the pair under "mutants".

### PRFlow

A commit is a record of its run, the branch it was made on and the edits it
holds. A branch tip is the set of commits reachable from it, so "ancestor" is
set inclusion, a merge is a union, and an unforced push is accepted when the old
tip is a subset of HEAD. Names are abstract: `NameOf[g]` lists the numbered
names of a group, so that two groups may share names and a name may be the base
branch, as in the code.

| Action | Code |
|---|---|
| `Clone` | `PRFlow.run`: look the repository up, clone, plan |
| `Precheck` | the one `ls-remote` before any LLM call; a failure reads as "no branch exists" |
| `TryCandidate`, `NoNameLeft` | `_select_branch`: free, proposed, passed over, none left |
| `Checkout` | `checkout --force` the base, `checkout -B` the branch |
| `ApplyAndCommit` | `_apply_and_commit` for one finding: write, add, commit, and the `reset --hard` of a failure (which may itself fail) |
| `FinishCommits` | no commit: skip the group |
| `Push`, `OpenPR` | `_push_branch`, `_open_pr`, each with "took effect but timed out" |
| `Cancel` | `CancelledError` at any await; a command under way may have taken effect |
| `Merge`, `Close`, `Delete` | the user on GitHub (modelled from how the code uses it) |

`Faults` names the failures beyond a command simply failing, which is always
possible; `UserActs` names what the user does; `Concurrent` says whether two runs
may be under way at once. `pushed` is history: what a run put on the remote.
`FixProposals` has the same branches and pull requests, without clones,
failures, names or runs in progress: `ProposesFixes` says that the flow
implements it.

### FixApply

The content of a file is the set of edits it holds (fixes and edits of the user);
a tree maps files to contents and stands for its commit. `Accepts` and `Effect`
are git as the code uses it: plain `checkout` keeps local changes and is refused
when it had to lose one, `commit` takes the whole index.

`Start`, `Read`, `Generate` are `run_fix_all`; `SafetyNet` to `DeleteBranch` are
`_apply_locally`, one action for each command it awaits; `Check`, `Write`, `Undo`
and `PutBack` are the thread of `apply_file_fixes` and `rollback_applied`, which compares a file in one
step and replaces it in another (`due` holds the file in between). The first
cancellation ends a job before its apply and is only noted during it (the apply
is shielded); the second reaches the apply (`Interrupt`): the thread goes on, and
so may the git child, which is a member of `strays` until it takes effect. While one runs, the
commands of others may fail on the lock of the index, or not: a commit first takes the staged tree, and
after its hooks goes to whichever branch is checked out by then (`land`). A rollback that was cut
off and the one of the clean-up run beside each other; the model merges the two into one thread with several
files in its hands (`OneAtATime`). `UserEdit`, `UserStage`, `UserCommit`, `UserSwitch` are the user, who
may do each of them at any moment, also while a job holds the lock. Two history variables
record what the code does not guard against: `edited` whether an edit fell between the comparison of its
file and the replacement, `moved` whether the user switched branches while an apply was
at work (`AtWork`).

### ServerJobs

No handler awaits between its first and last access to the stores, so each is one
action. Entries are numbered in the order in which they were started, which is
the order of the dicts. A log of events stands for its length. `timers` holds the
pending `_cancel_if_orphaned` calls: all have one delay, so they fire in the
order in which they were set. `CancelFixAll` and `TimerFires` only mark the task;
`CancelEnds` is the delivery of `CancelledError`. An evicted scan stays in `scan`,
since a job may hold it, and is out of `scans`.

### ScanRunner

A phase is a streamed pool (`_run_dast_scanners_streamed`,
`_run_sast_scanners_streamed`), a polled task (`_drain_progress` over endpoint
discovery) or one awaited scanner. `Launch`, `Get`, `Resume`, `Gathered`,
`Awaited` are the generator; `Emit` to `Cancelled` are a scanner under
`run_scanner_safe`; `CancelConsumer` and `Close`/`Finalize` are the two ways in
which a consumer stops, while the generator waits or while it holds an event.
`Verdict` is the rule that `verifier.py`, `reverify.py` and the MCP verify tool
share, as far as failures of scanners go; `RescanVerdicts` has it in full. A finding
stands for the flaw it reports.

### ScanPhases

`Steps` is `_scan_impl`: one step for a phase, or for each scanner of a phase that
runs several. `Due` is the condition under which a step runs its scanner, over the
fields of `ScanContext` that earlier steps set (`Context`); `RunScanner` adds its
finding, its name and its failure, each where that step of the code does so
(`ListedIfFound`, `Unwrapped`). `UrlIngestion` to `SecondUser` are the site and the
logins, each with its outcomes; `RepoIngestion`, `LspValidation` and `CrossReference` the
code. `Triage` merges findings about one flaw, and `Approved` is the filter that
decides which findings the LLM's reply may remove. `raised`, `disproved` and `failed` are
history.

### LSPClient

`agent` is what the scan does with the session (initialization, tracing, shutdown),
`client` the client object, `tracer` one `_trace_file` task for each file, `server` and
`pipe` the process. `Asked` to `Popped` are `_send_request` before and after its await;
`Read` is the reader task; `Ask`, `Answered`, `TimedOut` and `BackedOff` are a tracer, which
retries an unresolved answer and follows aliases. `Untraced` is what a trace that found nothing
gives: no verified auth, but for `Procedures`, whose imported base is trusted as it is
(`auth_flow_tracer.py:727-746`). `InitTimesOut`, `TraceTimesOut` and
`Stop` are the cancellations from outside; `Stop` may also cut the clean-up (`CleaningUp`). What the server does (`ServerStep`) is
modelled from what the client copes with: it answers truthfully or not at all, late, in
any order, with the import line while its project is loading, and may use an id of the client.

### RescanVerdicts and MCPSession

A finding holds the flaw it reports, which only properties look at. Flaws are numbered in the
order in which the scanners report them, so that a report, in which each flaw has one finding at
most, is a set and "the first that fits" the one with the least number. `Classify` matches
old and new findings in the three rounds of `classify_against_rescan`, by fingerprint,
by legacy fingerprint, by flagged line in another file; `VerifyResult`, `FixFlowResolved`
and `ReverifyFixed` are its callers. `Grouped` is what makes a report of the raw findings: the
four passes of `_rule_based_dedup` in their order, each of which keeps the best (`Best`) of the findings
with equal keys (`title_key`, `line_key`, `pattern_key`, `wording_key`). Whether a key holds the
location depends on the category: one of `Collapsing` (scope SERVER or SHARED_ROOT) needs a single fix for all.
`MCPSession` keeps the code of a repository as the
place and line of each flaw: `HostStep` edits it, `Scan` reads it, groups what was found by the
scanners' own severities and lets the LLM adjust
and drop what it may (a triage that comes too late leaves the raw findings), `Answer` caches the report and sees which files parse by then.
`ScanUrl` to `JobCancelled` are the background jobs.

### PRGrouping

`group_findings` and what it calls are operators on sets of positions in the report. A raw
group is the set of findings with its key; sorting (`InOrder`) puts each group at the place which
the number of groups before it gives, which is what `sorted` does when no two groups have equal
keys. The order of the findings within a group, which decides only the order of its commits, is
left out. `Start` plans a run with ids drawn anew and asks which names exist, `Propose` does one
group, as `_select_branch` and an `open_pr` that succeeds; `Merge`, `Close` and
`Introduce` are the user and later scans.

## 3 The runs

Each configuration asks one question. The bounds are the smallest in which every
interesting case happens; every property has a mutant of the code, under the same
bounds, that breaks it, which shows that the case is reached.

| Run | Instance | States | Checks |
|---|---|---|---|
| `PRFlowRace` | two concurrent runs, one group of two findings in one file, two names, the base branch is itself a fix branch, a leftover branch, all faults, all user actions | 237 k | `IInv`, `BaseOnlyByReview`, `CountsBacked`, `ProposesFixes` |
| `PRFlowGroups` | one run, two groups whose names overlap, the base branch is itself a fix branch, leftovers on three names | 9 k | `EveryGroupReported` |
| `PRFlowReliable` | three runs one after another, three names, leftovers on any of them, a user who merges and closes, reliable look-ups | 1.1 M | `NoDuplicatePR`, `ExistingNeverReused`, `OrphansTold`, `OneFixPerCommit` |
| `FixApplyJobs` | two jobs, two files, every step but the rollback may fail, one cancellation each | 144 k | `RepositoryRestored`, `PromiseKept`, `JobsEnd` |
| `FixApplyUser` | one job, two files, one edit, staging, commits and switches of the user at any moment, failing rollback, two cancellations | 1.4 M | `EditsSurvive`, `ReportedFixesCommitted`, `UserBranchUntouched` |
| `FixApplyTwice` | one job, two cancellations, nothing fails | violation | `CancelRestores` |
| `ServerJobs` | two scans, two jobs with an event between them, two clients, two pending timers | 470 k | `StoresBounded`, `KeyForgotten`, `DoneMeansAll`, `WatchedNotAbandoned`, `AbandonedStops`, `StreamsEnd` |
| `ScanRunner` | discovery, a pool of two DAST scanners, an empty pool, a pool of one SAST scanner, the LLM review; one flaw for each of three scanners | 72 k | `ReportTrue`, `VerdictHonest`, `QuietAfterStop`, `ScanEnds` |
| `ScanPhases` | every mode, asked for or detected, with every combination of site, repository and credentials; five scanners that may find, two flaws | 4.1 M | `ScannersInPlace`, `FindingsAccounted`, `CleanBillEarned` |
| `LSPClient` | two files in one batch or in two, one a procedure, one with its guard behind an alias; a server that is absent, hangs, crashes, garbles, refuses, asks; a consumer that stops, also during the clean-up | 1.2 M | `ClientOK`, `SuppressedOnlyIfGuarded`, `ServerReaped`, `SessionEnds` |
| `MCPSession` | two calls and two edits or jobs; three flaws of one kind, of which two are alike on equal lines of two files and one may come on the line of semgrep's, two secrets that may come and what the LLM says of them; three files, with and without an LLM key, one mishap in a scan | 705 k | `ResolvedIsGone`, `GradeOnlyByFixing`, `HandlesWork` |
| `PRGrouping` | five findings (twins, a critical one without a file), each strategy, caps of one and two, two orders of ids, one closed request | 288 k | `PlanSound`, `ProposedOnce`, `EveryFindingFixed` |

Type invariants are conjuncts of `IInv`, `RepositoryRestored`, `StoresBounded`,
`ReportTrue`, `ScannersInPlace`, `ClientOK` and `HandlesWork`.

Why the bounds are enough:

* **PRFlow.** Two runs suffice for a race, since runs interact only through
  branches and pull requests; three in sequence let the third meet what the
  first two and the user left. Two names (three for sequences) reach "first name
  in use" and "no name left" (`MAX_BRANCH_SUFFIX` is 9). Two findings in one file
  are what a failed reset can mix.
* **FixApply.** Two files reach "some but not all": written, staged, restored. Two
  jobs race for the lock and for names. The user makes one edit, in either file and at any moment:
  `EditsSurvive` speaks of each edit by itself, and what another edit does to trees a stage or a commit does
  too. `FixApplyJobs` has no user and `FixApplyUser` one
  job; the theorems of section 4 have both, for jobs cancelled once. Two jobs cancelled
  twice, or with a user, are too many states for a run.
* **ServerJobs.** One finished scan is retained, so that the second evicts the first
  while a job may hold it. A finished job is retained only until another starts
  (`MAX_RETAINED_FIX_JOBS` is 0 there, 50 in the code), the harshest case for its
  streams, timers and key. With two jobs a start may be refused as a duplicate, but the
  cap of two running jobs is only reached, and no third start meets it.
  `MaxTimers` limits only the timers pending when a client comes back. Both clients may
  watch jobs, one of them also scans.
* **ScanRunner.** The larger pool comes first, so that a marker or a count left
  over from it would be noticed. A scanner posts at most one progress message:
  one is enough to be mistaken for a marker. The scanners differ in what they may
  do: stop at their budget (`Cooperative`), list skipped work (`Skipping`).
* **ScanPhases.** A phase looks at whether there are findings, endpoints or sessions, not
  at how many. Two findings are what merging, an LLM that calls one a duplicate of the
  other, and a confirmation across site and code need; one of the flaws is severe and the other
  is not. The five finders are the pool, a scanner two phases share, a SAST
  scanner, guided DAST and the cross-reference. One failing scanner is enough for a report that
  does not say so.
* **LSPClient.** Two tracers are enough for answers out of order and for an id that meets
  another request. Two tries and two hops are one more than the first of each; the pipe
  holds two messages, one behind another.
* **MCPSession.** A verdict depends on a scan, the edits during and after it and a second
  scan, which two calls and two edits are. Three alike findings are what the report groups;
  two on equal lines, with a third file to move to, are what the last matching round can exchange. Each pass
of the grouping merges something: the secrets by title (in two files) or by wording, the new injection
with semgrep's by line, three injections in one file by pattern; without the condition `Ungrouped` of
`Trackable` TLC finds `ResolvedIsGone` violated. The
  cache keeps two of up to four reports, the store one job (`SCAN_CACHE_MAX` and
  `JOBS_MAX` are 20 in the code), so both evict.
* **PRGrouping.** With five findings each strategy makes at least two groups somewhere and exceeds
  the cap of one or two; ids in the two opposite orders exchange any two groups that a
  cap must choose between. One closed request is what takes a name for good; nine
  names are the code's.

`CHECK_DEADLOCK` is off in every configuration, because each system may stop: runs, jobs and
scans end, and a user, a host, a client or an LLM may do nothing.

### Fairness

* `FixApply`: weak fairness of each job and thread, and strong fairness of taking
  the lock, an `asyncio.Lock`, which is first come, first served. That a local git
  command terminates is an assumption: the code gives it no timeout
  (`fix_service.py:160`). Neither cancellations, edits nor strays are fair.
* `ServerJobs`: the event loop polls each stream, fires timers and delivers
  `CancelledError`. Nothing says that a scan or a job ends by itself.
* `ScanRunner`: the generator goes on while its consumer asks (a stop is never
  fair); timers fire; a cancelled scanner ends. A scanner under `run_scanner_safe`
  may hang for ever. Endpoint discovery, which has no timeout in the modelled
  code, ends by its own.
* `LSPClient`: the event loop runs what is ready, and the timers of requests and of the
  initialization fire. Nothing is assumed of the server, of the consumer, or of the timer
  around the whole of the tracing.
* `PRGrouping`: the user runs the flow again and again and looks at the requests it
  opened, closing only so many of them. Without that no finding need ever be fixed.
* `PRFlow`, `MCPSession` and `ScanPhases` are checked for safety only. A run of `PRFlow` is a
  bounded loop in which every git command and HTTP call has a timeout; each step of the other two is
  a call whose end other modules or the host decide.

### The properties worth arguing about

* `ProposesFixes`, `PromiseKept`: refinement. The first says that with any
  race and failure the flow does to the repository only what `FixProposals`
  allows; the second that fixes of a job appear in one step and that it reports
  "applied" exactly if they did, however the clean-up went.
* `EditsSurvive` has two exceptions, which the code admits: an edit between the
  comparison of a file and its replacement, by the apply or by the rollback (the history variable
  `edited` marks those), and a user who switches branches while an apply is at work (`moved`). A
  failed rollback, a refused checkout and a job that was cancelled twice lose nothing.
* `UserBranchUntouched` names all that can move the user's branch: the user's commit there, the
  commit of a job under which the user switched, the commit that a job cancelled twice left running, and the
  commit of the next job when the checkout that such a job left running takes effect under it.
* `RepositoryRestored` holds with one cancellation; `CancelRestores` is what fails
  with two (section 5).
* `VerdictHonest` relates a re-scan's failure log to its findings: a flaw that is
  there is never called fixed, whichever scanner hung, crashed, was cancelled from
  inside or skipped work. Scanners that return early at their time budget are
  excepted.
* `ReportTrue` says that no scanner is lost without a word (`NoSilentLoss`), none is blamed
  that did its work, also when the timeout fires while the result is on its way
  (`NoFalseAlarm`), and each is announced once (`NarratedOnce`).
* `KeyForgotten`: a key sent with a scan is held no longer than a fix-all may need
  it, and at most one completed job has used it.
* `QuietAfterStop` holds for a stop in the drain of a pool, and not for a stop in
  its launch (section 5).
* `SuppressedOnlyIfGuarded`: a finding that the language server talked the report out of
  was wrong. It rests on ids, on retries and on the line that looks like an import.
* `ServerReaped` excepts an initialization that was cut off (section 5); that shutdown
  finds only requests somebody awaits is in `ClientOK`.
* `ResolvedIsGone` counts: of the findings of a kind, the three verdicts call no more
  resolved than were removed from the code the re-scan read. `Trackable` names what identity cannot
  follow; section 5 has the cases it excludes.
* `GradeOnlyByFixing`: every old finding is accounted for, and while alike findings have one
  severity (which the LLM may change), a better grade or a launch verdict needs a fix: findings held
  constant keep a failed scanner, a broken file or an LLM that changed its mind from improving it.
* `FindingsAccounted` follows a finding from its scanner through validation, adjudication,
  merging and triage into the report; `CleanBillEarned` says what a report without
  gaps and errors is worth; `ScannersInPlace` that conditions scattered over the phases make each
  scanner run in its mode, once.
* `ProposedOnce` and `EveryFindingFixed` are the two sides of the naming scheme: a re-run finds
  a request again, and a
  name that is used up does not keep a finding from being fixed.

## 4 The proofs

Every theorem below is proved for any values of the constants within the named
assumptions of its component's module, which TLC evaluates on every run; the few that need
more say so in an `ASSUME` of their own. Each says of all instances what a run of section 3
shows on one. The pattern is always the same: an inductive
invariant, one lemma for each action that keeps it, and the property from it. Each invariant
was checked by TLC on an instance of its module before it was proved.

The assumptions, beside the types and finiteness of constants, are facts about the code:

* `PRFlow`: the plan is a non-empty sequence of groups (`PlanAssumption`), its groups differ
  and none lists a finding twice (`DistinctAssumption`, which is what `PlanSound` of
  `PRGrouping` checks of `group_findings`), there is at least one name. Faults, user
  actions and leftovers are known ones, leftovers not being the base branch
  (`EnvironmentAssumption`). That base and names, or names of two groups, coincide is not
  excluded.
* `FixApply`: there is a file, there are finitely many jobs, and no edit is a job.
  `ServerJobs`: finitely many clients.
* `ScanRunner`: each scanner has one place in one phase, no flaw is found by the polled
  task, and only phases whose skipped modules the code reads have scanners that skip any
  (`PlacementAssumption`; the phases of `agent.py` are so).
* `ScanPhases`: a request names a site or a repository, and a second user only beside a
  first. `LSPClient`: the batches of a tracing cover all files.
* `MCPSession`: flaws are numbered, the line number of each is fixed as far as it tells two of them
  apart, "none" is no file and "missing" no scanner, the store and the
  cache keep at least one entry.
* `PRGrouping`: there are finitely many findings, no two have one id, categories and files are
  numbers in the order of their names, and `max_prs` is at least one (`pr_flow.py` refuses less).

### Remote fix flow

`PRFlowProofs`:

| Theorem | Statement | Beyond the assumptions |
|---|---|---|
| `TypeCorrect`, `InvCorrect` | `[]TypeOK`, `[]IInv` | |
| `BaseReviewed` | `[]BaseOnlyByReview`: a fix is on the base branch only by the merge of a pull request from the branch it was made on | |
| `FlowProposes` | `ProposesFixes`: the flow implements `FixProposals` | |
| `CountsAreBacked` | `[]CountsBacked`: a listed pull request exists, its count is covered by pushed commits | |
| `EveryGroupIsReported` | `[]EveryGroupReported`: a run that is done has an outcome for each group, and one counted request for each it calls opened | |
| `EachCommitOneFix` | `[]OneFixPerCommit` | `reset --hard` works |
| `OrphansAreTold` | `[]OrphansTold`: the branches left without a request are named, and no others | no push and no pull request takes effect that was reported as failed |
| `ExistingBranchesKept` | `ExistingNeverReused`: no push moves a branch that is on the remote, also when runs race | `ls-remote` answers |
| `NoDuplicates` | `[]NoDuplicatePR` | `Undisturbed`: besides, runs take turns, look-ups answer, no branch is deleted, no two groups share a name |

Each extra hypothesis is one that section 5 shows to be needed, with the place in the code
where the property would fail without it.

`BaseOnlyByReview` is not inductive: a merge brings every commit of a branch to
the base, so one must know who authored what is on each branch, and a push brings
HEAD of a clone to a branch, so one must know what is in the clones. `IInv` adds

* `TipsAuthored`: what a remote branch has beyond the base are fixes made on it;
* `CloneOfBase`: a clone knows a past of the base, and its HEAD adds only fixes
  made on the branch in hand;
* `BranchInHand`: the branch being built is a name this run took, and not the base
  branch, which `Checkout` refuses;
* `ProposedOnce`: the names a run has proposed from are taken and not in hand, so
  that a second `OpenPR` cannot turn a merged pull request into an open one, upon
  which a fix on the base would be without its review.

The type invariant is proved first, one lemma for each action; then one lemma for
each action shows that it preserves `IInv`, most by `QuietStep` (nothing remote
changes and one run moves within `RunInv`). `FlowProposes` maps each step to
`Publish`, `Propose`, `Accept`, `Decline`, `Remove` or a stutter, with `IInv` for
the two guards that the code has no check for: that the base branch is never
pushed to, and that a run proposes from a branch once.

The other theorems strengthen `IInv`, or stand beside it:

* `CountInv`: a run's own commits in HEAD are fixes of findings it has tried (`OwnWork`), so that
  `committed`, which counts commits, is at most their number; a commit has a fresh
  identity because a run that has not started has none anywhere (`Unheard`), and a
  finding of the group comes once.
* `ReportInv`: before the end, the groups with an outcome are exactly those before the one in hand
  (`GroupsTold`), and each opened one has a counted branch of its own (`OneBranchEach`). That no
  two groups count one branch needs that names in `taken` are passed over.
* `CleanInv`: between two findings the clone is clean, and every fix commit anywhere, in a clone
  or on the remote, holds its own edit alone.
* `OrphanInv`: a branch named as orphaned was let go of for good, and a pushed branch without a
  request is orphaned or about to be proposed.
* `RaceInv`: a branch that appeared after a run had looked holds a fix of another run that the clone
  cannot have (`Overtaken`), so that the unforced push is refused. It rests on fixes being unknown to
  others until the one push of their branch (`FixesPrivate`).
* `TurnInv`, for runs that take turns: the names of all groups that exist on the remote are among those the run looked up or
  took itself (`Known`); only the run in progress creates any.
* `SingleInv`: if a name of a group has an open request, all earlier names of the group are on the
  remote (`OpenFilled`). This is why the first free name proves that no later one is in use, the step
  that `pr_flow.py:983` takes without looking, and what a deleted branch would break.

### Local apply

`FixApplyProofs`, for any number of jobs and files:

| Theorem | Statement | Beyond the assumptions |
|---|---|---|
| `InvCorrect` | `[]IInv` | `Alone`, `Shielded` |
| `RepositoryIsRestored` | `[]RepositoryRestored`: whenever no job holds the lock, the user is on the own branch, with nothing staged or left over and no empty fix branch, and no branch mixes two jobs | `Alone`, `Shielded` |
| `PromiseIsKept` | `PromiseKept`: `FixApply` implements `FixPromise` | `Alone`, `Shielded` |
| `UserBranchIsUntouched` | `UserBranchUntouched`: the user's branch moves only when the user commits on it, or by the commit of a job under which the user switched | `Once` |
| `OneAppliesAtATime` | `[]OneApplyAtATime`: while a job has the lock, no other job's thread touches a file | `Once` |
| `UserEditsSurvive` | `[]EditsSurvive`: as long as nobody switches under an apply, an edit made outside the windows is in the tree or in a commit | `Once` |
| `ReportsAreCommitted` | `[]ReportedFixesCommitted`: as long as nobody switches under an apply, a job that reports fixes has committed one to each file it reports, and its branch keeps them | `Once` |

`Alone` says that the user leaves the repository alone while jobs run, and `Shielded` that each
job is cancelled once at most and that the writes of a rollback succeed; any
other step may fail. This is the setting of the run `FixApplyJobs`: a second cancellation
does break `RepositoryRestored` (section 5), and with a user at work "restored" needs
another meaning, which is `EditsSurvive`. The last four theorems allow all
that the user may do, switches under the lock included, any number of jobs and every failure, a failing
rollback too; the exceptions are those of the properties (section 3). `Once` says that a job is
cancelled at most once: a second cancellation leaves a thread and a git command
behind, beside the next job if there is one (section 5).

Under the lock, one job at a time changes the repository, and its program counter
determines it: `IInv` says for each counter which commit the fix branch is at (`Published`), what
is staged and what is on disk (`Contents`), in terms of the files the thread has written; on the
other hand, whenever no job is on its branch the repository is as the user left it
(`Rested`). The thread and its job are tied by `Threaded`: it writes only what was read and
found unchanged, and what it has written plus what is left to write are the fixes of
the job. What a job read is only known to be current because it is checked again
under the lock (`Informed`). The lemmas about actions come in pairs: what the step does to the
job and thread (`Turn`), and that no other job sees a difference. For the refinement
the fixes of a job in `FixPromise` are its `final` from its commit on, provided no undo
follows; each step is then a step of the promise or a stutter by the same case split.

The last four have an invariant of their own, since with a user at work little is
known about trees: `Steady` says that the job with the lock is on its own branch, unless the user
switched under it, and that no job's branch is the user's. What a step does is summed up before
anything is shown to be kept: a job looks at the repository, stays on its branch, gives a git command
there, or makes, leaves or deletes the branch (`Turning`); a thread compares, writes, stops, compares again
or puts back (`Threading`). Each later lemma splits on these eleven kinds of step and on those of the user,
where the fifteen actions of a job would hide what matters. `OneAppliesAtATime` reads off `Seating`, which
places the thread, that a busy thread belongs to a job on its branch.

An edit or a fix is `Steadfast` in a file if it is on disk whenever it is staged or in the commit
checked out, and if a thread that is about to replace the file has read it. `HoldFast`: every step keeps this,
for every edit, and for the fixes of a job whose thread is done. It is why a
checkout drops nothing but what the branch it leaves has, and why a commit keeps what the last one had.

`UserEditsSurvive` follows an edit through tree, index and branches without saying what those
contain. `Guarded`: it is `Steadfast`; it is on disk or on a branch that is `Frozen`, not checked out,
and neither left for nor to be deleted by any job (`Shelved`); and what a fix branch started from
and had it, the branch its job returns to has (`Backed`), so that the branch deleted for want
of fixes held nothing else. An edit not yet made is nowhere (`Absent`).

`ReportsAreCommitted` needs more than that the commit happened, because a user left on a fix branch may
commit there and later jobs may start from it. `Prepared`: on the way to the commit the fixes
are on disk as far as the thread got, and then staged. `Delivered`: a job that has
committed has its fixes on its branch, where they are `Steadfast`, and no other job has that branch.

### Server stores

`ServerJobsProofs`, for any number of clients, scans, jobs and events and any limits:
`StoresStayBounded` (`[]StoresBounded`), `KeysForgotten` (`[]KeyForgotten`),
`DoneStreamsSentAll` (`[]DoneMeansAll`), `WatchedJobsSurvive` (`WatchedNotAbandoned`) and the
invariant they follow from (`InvCorrect`).

`StoresBounded` needs that eviction, which drops the oldest finished entries one by one, ends
within the limit: lemmas about finite sets of ids say what is left of a store.
For `KeyForgotten` the invariant knows more (`KeysHeld`): a scan with a completed job has lost its
key, and a running job that uses a key still finds it, so no
second job can complete with it. `DoneMeansAll` counts watchers, and rests on lemmas that a
stream which opens or closes changes the number of streams on its job by one.

### Scan execution

`ScanRunnerProofs`, for any phases, scanners, flaws and progress events: `ReportsAreTrue`
(`[]ReportTrue`), `VerdictsAreHonest` (`[]VerdictHonest`), `StopsAreQuiet` (`QuietAfterStop`) and
`InvCorrect`.

The drain stops when it has counted as many markers as it has launched scanners. That none is
counted twice and none is missed is `QueueRight` and `ToldRight`: a marker in the queue is the
only one of a scanner of the present pool that has ended and was not yet announced, and
`driver.done` is the number of those announced. `WorkersPlaced` says which scanners may have
started at a position of the generator, and `WorkAccounted` that an ended scanner has left its findings
or its name among the errors, from which both the report and the verdict follow. The
exceptions of the properties (scanners that stop at their time budget) are theirs too.

### Scan phases

`ScanPhasesProofs`, for any requests, flaws, finders and bounds: `ScannersRunInPlace`
(`[]ScannersInPlace`), `NoFindingIsLost` (`[]FindingsAccounted`), `CleanBillsAreEarned`
(`[]CleanBillEarned`) and `InvCorrect`.

The invariant numbers the steps (`Nth`) and says what the context holds at a position: it is
grounded in the request (`Grounded`), every listed scanner has had its turn and was allowed to run
(`ListWarranted`), a finding raised and not disproved is in the list until the triage and
has a finding about the same flaw there after it (`FindingsKept`), and what was not read or failed is
noted (`GapsNoted`). `ListedOnce` is the part nobody wrote down: that of the two steps which may run
`rls_deep`, and of the two which may run `dom_xss`, at most one is due rests on conditions that
are evaluated at different times, so the context must not change in between what they read.

### Language-server clients

`LSPClientProofs`, for any files, batches, aliases, retries and messages, and any server:
`RequestsAreAwaited` (`[]ClientOK`), `SuppressionsAreRight` (`[]SuppressedOnlyIfGuarded`),
`ServersAreReaped` (`[]ServerReaped`) and `InvCorrect`.

`SuppressedOnlyIfGuarded` is about one bit, and its invariant follows an answer all the way back:
the request in the server, the message in the pipe and the future under the id of a waiting tracer
are all about that tracer's file (`AnswersFit`). Ids are drawn once (`IdsDrawn`), and a message with a
value has an id drawn already, so a request of the server's own, which may use any id, can complete a
future only with a refusal. What a procedure gets does not depend on any answer, so the theorem
excepts it, as the property does: there the code believes an import that it did not look into.

### Verdicts and the MCP server

`MCPSessionProofs`, for any flaws, lines, files, scanners and limits, with and without an LLM key:
`ResolvedOnlyIfGone` (`[]ResolvedIsGone`), `GradeImprovesOnlyByFixing` (`[]GradeOnlyByFixing`),
`HandlesKeepWorking` (`[]HandlesWork`) and the invariant they follow from (`SessionInvariant`).

The invariant itself is simple: what a re-scan reports is in the code it read (`Faithful`), what
it had to find is in the report (`Complete`, where `GroupingSpares` says that no pass merges away a
flaw that shares no title, line or wording key with another that can be reported, and its pattern with one at
most), the cache holds the newest ids without a gap
(`CacheInv`), and ids are the calls and the jobs that are done (`Counted`).

The weight is in what the matching rounds compute, for reports of any length. A round is a
recursive function over the numbers of flaws; that something holds after the last turn follows from the
least number at which it fails (`LeastElement`, `TurnsKeep`), which needs no induction
rule. `ClassifyOutcome` says what the three rounds come to: each finding claimed has an entry of its own
in the re-scan which fits it, and one that is not claimed found every entry that would fit it taken.
`Balance` counts with that: each finding whose flaw is still there is mapped to one that has claimed an
entry or is lost, itself if all others in its place are served, otherwise the one that took the entry
about its flaw. The map is an injection, so at least as many findings of a kind are claimed or lost as
flaws are still there, and no more are "resolved" than were removed.

`Balance` failed at first, and TLC showed why: section 5 has the case, in which the file of another
finding no longer parses, and `Trackable` excludes it now.

### Grouping of findings

`PRGroupingProofs`, for any findings, caps and id orders: `PlansAreSound` (`[]PlanSound`),
`FindingsProposedOnce` (`[]ProposedOnce`) and their invariant (`GroupingInvariant`).

Again most is about operators. `Sorting`: the number of predecessors under a total order is an
injection into an interval of the same size, hence a bijection, so that `InOrder` lists each element
once and in order. `RawGroups`: the raw groups divide the findings by keys. `InitialSegment`: in
sorted order the urgent groups come first, so the cap keeps only them and batches all others
(`KeptGroups`, `CappedPlan`). `DedupedApart`: two groups of one suffix have different numbers of
earlier ones. `Grouping` collects this as `IsPlan`, which is what the flow may rely on.

`ProposedOnce` is not inductive: it takes a history of the names. `NamesInv` says for each finding
that no other is like (`Alone`) that the names taken from its root have no gap and one of them at
most is open (`OneLine`), and that an open request which is no batch has the root of its
findings. So the first usable name is the open one if there is one (`OpensInLine`). That a name
which came up during the run is not of a later group (third conjunct) makes `existing`, looked up once,
as good as new.

### What is only model-checked

* Liveness under fairness (`JobsEnd`, `AbandonedStops`, `StreamsEnd`, `ScanEnds`,
  `SessionEnds`, `EveryFindingFixed`): TLAPS does not reason about fairness and ENABLED.
* Jobs that are cancelled twice: `FixApplyUser` has one, with a user at work. With several,
  `ReportedFixesCommitted` excepts them and `OneApplyAtATime` is false: section 5 has the behaviour.
* `CancelRestores` is false, and its run shows it.

## 5 Where code and documentation disagree

One run ends in a violation on purpose: `FixApplyTwice`. A second cancellation interrupts
the shielded apply (`fix_service.py:677`) and leaves the user on the fix branch, against
`app.py:648-649` and `fix_service.py:223-224`.

The others were met while modelling and have no run of their own. Where a property would
fail on them, its definition or its configuration names the exception.

Remote fix flow and grouping:

* A failed `ls-remote` reads as "no branch exists" (`pr_flow.py:960`); the re-run takes the root
  name, and the unforced push fast-forwards the branch of a merged pull request, which
  `pr_flow.py:22-23` says is never reused. `PRFlowReliable` has that fault switched off.
* A failed look-up of the open pull request answers "none" (985), so the run goes on to the
  next name and opens a duplicate, which line 618 takes for harmless and the module
  comment (21-22) rules out.
* Of two runs at once, the one that looks between the push and the request of the other finds a
  branch without a request, passes it over (985-986) and opens a duplicate on the next name.
  `PRFlowReliable` lets runs take turns.
* The first free name wins before later names are looked at (983): when a stale root branch
  was deleted, a second pull request is opened beside the one on the `-2` branch, against 974.
* When all nine names are in use the group is dropped with an error (992), although
  the module comment (23-24) says a leftover never blocks a fix and `README.md:462` that re-runs
  are never blocked.
* A push that times out after the remote took it is reported as an error, and the
  branch it left is not among the orphaned ones (1059 against 723).
* A failing `git reset --hard` is only logged, so a half-applied edit may be in the
  next commit (1170 against 1124-1125). `OneFixPerCommit` is checked without that fault.
* Over the cap, `per-finding` groups of one severity are ordered by ids that every scan draws anew
  (375-382), so which of them are batched changes from run to run, and a finding in an open
  batch may get a request of its own, against `README.md:460` and `pr_flow.py:411`.
  Findings with one identity share a name, and its numbers, in an order that the ids choose.
  `ProposedOnce` leaves both out.

Local apply and server:

* `safe_apply.py` compares all files before it writes the first (115-135): an edit in
  between is overwritten (against 17-18). So is one between the comparison and the replacement of a
  rollback (153-156). An edit made between write and `git add`
  is committed on the fix branch (`fix_service.py:426`).
* A user who switches branches in the middle of an apply gets the fixes committed on the branch
  switched to, which may be the user's own (426-431, against 6-7), while the job reports its fix branch.
* A job cancelled a second time leaves `await task` (`fix_service.py:677`), which no longer shields the
  apply: its git child and its thread go on while the branch is restored and the lock released. A `git commit`
  whose hooks run meanwhile lands on the user's branch if that is checked out and has the commit it
  started from. A checkout back may take effect under the next job, whose commit then
  lands on the user's branch. The thread (417) goes on beside that job, which
  may commit the fix of the first in place of its own and report "applied". Line 6 says that the user's
  branch is untouched, 26 "One apply at a time per repo (lock)", and 219-220 that concurrent
  runs would race. `FixApplyTwice` stands for the second cancellation among the runs.
* A disconnect timer survives a reconnection (`app.py:693`), so a job may be cancelled right
  after its last watcher left, against 202-203, which grant it a minute.
* A job that nobody ever watched has no timer and is not cancelled, although
  `docs/architecture.md:282-283` says a job without watcher for a minute is.
* A scan that ran longer than fifty others is the oldest finished one at the moment it
  finishes, and is evicted at once (`app.py:235`), although the README keeps "the 50
  most recent".

Scan:

* Scanners launched before a stop during the launch of their pool are not cancelled
  (`agent.py:1392-1407`), nor is endpoint discovery (467): they run until their timeouts.
* A `CancelledError` raised by a scanner itself is absorbed by `gather` (`agent.py:1430`),
  although comment 1380-1381 says it still cancels the scan. The tests
  (`tests/engine/test_engine_core_robustness.py:58-77`) agree with the code.
* A scanner that stops at its time budget leaves no trace in `scanner_errors`.
* The IDOR scanner is not under `run_scanner_safe`: its crash is only logged, and it has no
  timeout (`agent.py:744-755`). The report may say "safe to launch", against `README.md:335` and
  `docs/architecture.md:90` ("wraps every scanner"). `CleanBillEarned` excepts it, with the two
  optional analyses of phases 5.5 and 5.6.
* DOM XSS never runs in a scan that should sign in but whose crawl failed, nor in a full scan
  whose crawl
  returned without a token (`agent.py:759-763`, 785), although the comment (758) leaves it out only for
  a crawl "which runs its own DOM XSS".
* A site in which discovery finds no endpoint gets none of the pool's scanners (692), and a
  login that failed is told in an event only: both reports look complete.
* A mode that does not cover what was given is accepted (`app.py:857`, `mcp_server.py:871-876`):
  "url-only" on a path reads nothing and reports nothing, what the comment at `agent.py:881-883` is
  there to prevent. `CleanBillEarned` claims that a scan read all it was given only for
  modes it detected itself.
* A triage that times out ships the list without deduplication (`agent.py:1257-1266`, against the
  comment at 1269-1274), possibly with severities already adjusted.

Language servers:

* The timeout around `initialize()` is as long as the one inside and fires first; the
  `CancelledError` passes `except Exception` (`base_client.py:125`), and the server process
  is left running, against `agent.py:256-257` ("never leak the LSP subprocess"). So it is
  when the consumer stops during the initialization, and when a stop arrives while the clean-up
  awaits `shutdown()` (`agent.py:262-266`): neither `except Exception` there nor the one in
  `shutdown` (`base_client.py:178-183`) catches it, and `terminate()` is never reached.
  `ServerReaped` excepts both.
* A procedure whose base has a trusted name and is imported counts as guarded even if the
  server refused, timed out, or showed a base without any check (`auth_flow_tracer.py:727-746`),
  and its finding is suppressed (`route_analyzer.py:463-469`), although
  elsewhere what cannot be traced is not vouched for, "which is the safe direction" (576-577).
  `SuppressedOnlyIfGuarded` excepts it.
* The end of the server's output ends the reader without releasing those who wait
  (`base_client.py:252-253`), although 267-270 promises that; each burns its timeout.
* `shutdown` cancels the reader before it sends its request, which therefore always waits for its
  timeout when the server is slower than that. Requests of the server are never answered, and
  its error output is never read after the start.

Verdicts and MCP server:

* A finding may read "resolved" though its flaw is there, against `reverify.py:41` ("must NEVER
  falsely claim"): when a pass of the grouping takes another finding for it in the re-scan (one of the same
  title in another file, or a third of its scanner in its file whatever the titles, if the category is a
  shared root such as secrets or a server setting; one of its category on its line, which need not
  be of its scanner; a third with its title in its file; one of similar wording:
  `llm_triage_service.py:369-501`), when one
  moved to a file where another of its title was or left one behind, when one was moved and
  reworded, and when a file that did not
  parse during the re-scan was mended before the parse check.
* So it does when a finding in a file that no longer parses has the same flagged line as one that moved
  to another file: in the round for moved findings it claims the entry of the other
  (`verifier.py:209-229`), which is then reported as resolved. The lost finding is not held back
  before the matching, as those of failed scanners are (`mcp_server.py`, `checkable`).
* With an LLM key, triage may drop or adjust findings of verifiable scanners that are not in
  `SAST_ONLY_SCANNERS`, so the grade can move with the LLM, against `mcp_server.py:622-625`.
* A live-URL job whose task ends cancelled keeps the status "running" (`mcp_server.py:1065-1066`),
  against the comment above it, and is never evicted.
* The report of a finished job may have been evicted when `scan_status` announces its
  `scan_id` (1084-1087).

## 6 What is not modelled

* Most of the code by lines: scanners, analyzers, tables of patterns, constants, prompts,
  renderers, texts and authentication dialogues. They are functions of external services or of
  file contents, with
  no state that others share and no order to get wrong; a model of a pattern table would repeat it.
  The models take their result as a choice (a finding, a fix or none, an exception, a
  hang), which is why they cover a small share of the lines and most of the control.
* Within modelled components: the budget of the guided DAST, the comparison of titles by their words (an
  equivalence, `WordingOf`, stands for it; in the code it is not transitive and depends on
  the order of the findings), findings with an endpoint URL in the grouping, which a
  scan of a repository has none of, the matching of routes in the cross-reference, LLM batches (one stands for all), themes and summaries;
  how a language
  server is found and how guards are recognised in a declaration; explain, fix brief and export of
  the MCP server; re-probing of live findings in `reverify.py`; WebSocket progress, projects and
  certificates
  of the web server.
* What a finding, a diff, a report or an event says; redaction. Where two
  things must be told apart they are different values.
* Git and GitHub are modelled only as far as the code uses them: no conflicts in a merge
  on GitHub, no other contributors' commits on the base branch, no rebase. A base branch
  that also grows by other commits would add commits that no property speaks of.
* Crashes of the process: nothing is persisted by the server or a job, and a clone lives
  in a temporary directory; only the user's repository survives a crash, and then it is
  as the last git command left it, with the backup of `safety_net.py`.
* The detached-HEAD and non-git fall-backs of fix-all, which write nothing.

## 7 Plan

Done: `PRFlow` with `FixProposals`, `FixApply` with `FixPromise`, `ServerJobs`, `ScanRunner`,
`ScanPhases`, `LSPClient`, `RescanVerdicts`, `MCPSession`, `PRGrouping`, and the proofs of
section 4 about each of them. What is left:

1. Out-of-band callbacks (tags, late and duplicate interactions) as a small module.
