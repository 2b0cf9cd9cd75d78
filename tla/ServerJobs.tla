----------------------------- MODULE ServerJobs -----------------------------
(***************************************************************************)
(* The in-memory stores of the web server, isitsecure/server/app.py: scans *)
(* and fix-all jobs run in the background, clients watch them over         *)
(* server-sent event streams, may cancel a job, lose the connection and    *)
(* come back, and finished entries are evicted.                            *)
(*                                                                         *)
(* A handler has no await between its first and its last access to the     *)
(* stores, so it is one step.  Scans and jobs are numbered in the order in *)
(* which they were started, which is the order of the store (a dict).  An  *)
(* event log stands for its length.  Timers all have the same delay, so    *)
(* they fire in the order in which they were set.                          *)
(***************************************************************************)
EXTENDS Integers, Sequences, FiniteSets, FiniteSetsExt

CONSTANTS
  Clients,                 \* the connections that stream events
  ScanClients,             \* those that stream scans too, and not only jobs
  MAX_RETAINED_SCANS,
  MAX_RETAINED_FIX_JOBS,
  MAX_CONCURRENT_FIX_JOBS,
  ServerKey,               \* the server's own configuration has an LLM key
  MaxScans, MaxJobs,       \* how many are ever started,
  MaxEvents,               \* how many events they emit together, at most,
  MaxTimers                \* and how many timers may be pending when a job gets a watcher

ASSUME BoundAssumption ==
  /\ MAX_RETAINED_SCANS \in Nat /\ MAX_RETAINED_FIX_JOBS \in Nat
  /\ MAX_CONCURRENT_FIX_JOBS \in Nat
  /\ MaxScans \in Nat /\ MaxJobs \in Nat /\ MaxEvents \in Nat /\ MaxTimers \in Nat
  /\ ServerKey \in BOOLEAN
  /\ IsFiniteSet(Clients) /\ ScanClients \subseteq Clients

ScanIds == 1 .. MaxScans
JobIds == 1 .. MaxJobs

VARIABLES
  scans,   \* the scans in the store
  scan,    \* id -> the scan, kept when it was evicted: a job may hold it
  jobs,    \* the fix jobs in the store
  job,     \* id -> the fix job
  timers,  \* the jobs whose disconnect timers are pending, the oldest first
  stream   \* client -> its connection

vars == <<scans, scan, jobs, job, timers, stream>>

Scan ==
  [status : {"none", "pending", "running", "complete", "failed"},
   report : {"none", "clean", "findings"},
   key : BOOLEAN,         \* api_key, sent with the request
   events : Nat]          \* how many were emitted
FixJob ==
  [status : {"none", "running", "complete", "failed", "cancelled"},
   scan : {0} \union ScanIds,
   usesKey : BOOLEAN,     \* runs with the key of the scan's request
   events : Nat,
   watchers : Nat,
   cancelled : BOOLEAN,   \* task.cancel() was called
   seen : BOOLEAN]        \* history: some client has watched it
Stream ==
  [pc : {"idle", "open", "done"},
   on : {"scan", "job"}, of : Nat,      \* what it streams
   idx : Nat]             \* last_idx

NoScan == [status |-> "none", report |-> "none", key |-> FALSE, events |-> 0]
NoFixJob ==
  [status |-> "none", scan |-> 0, usesKey |-> FALSE, events |-> 0, watchers |-> 0,
   cancelled |-> FALSE, seen |-> FALSE]
Idle == [pc |-> "idle", on |-> "scan", of |-> 0, idx |-> 0]

Init ==
  /\ scans = {} /\ scan = [s \in ScanIds |-> NoScan]
  /\ jobs = {} /\ job = [j \in JobIds |-> NoFixJob]
  /\ timers = <<>>
  /\ stream = [c \in Clients |-> Idle]

-----------------------------------------------------------------------------
(* Eviction: the oldest finished entries beyond the cap. *)

Evict(store, finished, max) ==
  {i \in store : i \in finished => Cardinality({k \in finished : k > i}) < max}

ScanEnded(v) == v.status \in {"complete", "failed"}
EvictScans(store, sc) ==
  Evict(store, {s \in store : ScanEnded(sc[s])}, MAX_RETAINED_SCANS)
EvictFixJobs(store, jb) ==
  Evict(store, {j \in store : jb[j].status # "running"}, MAX_RETAINED_FIX_JOBS)

-----------------------------------------------------------------------------
(* Scans. *)

Emitted ==
  MapThenSumSet(LAMBDA s : scan[s].events, ScanIds) + MapThenSumSet(LAMBDA j : job[j].events, JobIds)

StartScan ==
  /\ \E s \in ScanIds, key \in BOOLEAN :
       /\ \A k \in ScanIds : (scan[k].status = "none") <=> (k >= s)
       /\ scan' = [scan EXCEPT ![s] = [NoScan EXCEPT !.status = "pending", !.key = key]]
       /\ scans' = EvictScans(scans \union {s}, scan')
  /\ UNCHANGED <<jobs, job, timers, stream>>

ScanStep(s) ==
  /\ s \in scans
  /\ \/ /\ scan[s].status = "pending"
        /\ scan' = [scan EXCEPT ![s].status = "running"]
     \/ /\ scan[s].status = "running" /\ Emitted < MaxEvents
        /\ scan' = [scan EXCEPT ![s].events = @ + 1]
  /\ UNCHANGED <<scans, jobs, job, timers, stream>>

\* _settle_scan_key: no fix-all can still need the key.
\* Slip: only a failed scan settles it.
SettledFailure(v) == IF v.status = "failed" THEN [v EXCEPT !.key = FALSE] ELSE v
Settled(v) == IF v.status = "failed" \/ v.report # "findings" THEN [v EXCEPT !.key = FALSE] ELSE v

\* Slip: the store is only trimmed when a scan starts.
EndScanUntrimmed(s) ==
  /\ s \in scans
  /\ scan[s].status = "running"
  /\ \E r \in {"clean", "findings"} :
       scan' = [scan EXCEPT ![s] = Settled([scan[s] EXCEPT !.status = "complete", !.report = r])]
  /\ UNCHANGED <<scans, jobs, job, timers, stream>>

\* The report arrives, or the scan fails; the key is settled and the store trimmed.
EndScan(s) ==
  /\ s \in scans
  /\ scan[s].status = "running"
  /\ \E v \in {[scan[s] EXCEPT !.status = "complete", !.report = r] : r \in {"clean", "findings"}}
              \union {[scan[s] EXCEPT !.status = "failed"]} :
       scan' = [scan EXCEPT ![s] = Settled(v)]
  /\ scans' = EvictScans(scans, scan')
  /\ UNCHANGED <<jobs, job, timers, stream>>

-----------------------------------------------------------------------------
(* Fix jobs. *)

Running(j) == job[j].status = "running"
RunningJobs == {j \in jobs : Running(j)}

\* A request is refused without a report, when as many jobs run as may, and
\* without a key; while a job for the scan is running it is answered with that job.
Startable(s) ==
  /\ s \in scans /\ scan[s].report # "none"
  /\ \A j \in RunningJobs : job[j].scan # s
  /\ Cardinality(RunningJobs) < MAX_CONCURRENT_FIX_JOBS
  /\ scan[s].key \/ ServerKey

StartFixAll(s) ==
  /\ Startable(s)
  /\ \E j \in JobIds :
       /\ \A k \in JobIds : (job[k].status = "none") <=> (k >= j)
       /\ job' = [job EXCEPT ![j] = [NoFixJob EXCEPT !.status = "running", !.scan = s,
                                                     !.usesKey = scan[s].key]]
       /\ jobs' = EvictFixJobs(jobs \union {j}, job')
  /\ UNCHANGED <<scans, scan, timers, stream>>

JobEvent(j) ==
  /\ Running(j) /\ Emitted < MaxEvents
  /\ job' = [job EXCEPT ![j].events = @ + 1]
  /\ UNCHANGED <<scans, scan, jobs, timers, stream>>

\* The job ends; a job that completes has the key of its scan forgotten.
EndFixJob(j) ==
  /\ Running(j) /\ ~job[j].cancelled
  /\ \E end \in {"complete", "failed"} :
       /\ job' = [job EXCEPT ![j].status = end]
       /\ scan' = IF end = "complete" THEN [scan EXCEPT ![job[j].scan].key = FALSE] ELSE scan
  /\ UNCHANGED <<scans, jobs, timers, stream>>

\* CancelledError reaches the task, at its next await or when a shielded apply is
\* over; the key is kept for a retry.
CancelEnds(j) ==
  /\ Running(j) /\ job[j].cancelled
  /\ job' = [job EXCEPT ![j].status = "cancelled"]
  /\ UNCHANGED <<scans, scan, jobs, timers, stream>>

\* DELETE /api/fix-all/{job_id}
CancelFixAll(j) ==
  /\ j \in jobs /\ Running(j)
  /\ job' = [job EXCEPT ![j].cancelled = TRUE]
  /\ UNCHANGED <<scans, scan, jobs, timers, stream>>

-----------------------------------------------------------------------------
(* Streams. *)

Open(on, id) == [pc |-> "open", on |-> on, of |-> id, idx |-> 0]
Streams(c, on) == stream[c].pc = "open" /\ stream[c].on = on

\* The client is told that all was sent, or the connection just ends.
Done(c) == stream' = [stream EXCEPT ![c].pc = "done"]
Leave(c) == stream' = [stream EXCEPT ![c] = Idle]

StreamScan(c, s) ==
  /\ c \in ScanClients
  /\ stream[c].pc = "idle"
  /\ s \in scans
  /\ stream' = [stream EXCEPT ![c] = Open("scan", s)]
  /\ UNCHANGED <<scans, scan, jobs, job, timers>>

StreamFixAll(c, j) ==
  /\ stream[c].pc = "idle"
  /\ j \in jobs
  /\ Len(timers) < MaxTimers
  /\ stream' = [stream EXCEPT ![c] = Open("job", j)]
  /\ job' = [job EXCEPT ![j].watchers = @ + 1, ![j].seen = TRUE]
  /\ UNCHANGED <<scans, scan, jobs, timers>>

\* The next event is sent, or the end once all events were.
ScanStreamStep(c) ==
  LET t == stream[c]
      v == scan[t.of]
  IN
  /\ Streams(c, "scan")
  /\ \/ t.of \notin scans /\ Leave(c)
     \/ /\ t.of \in scans /\ t.idx < v.events
        /\ stream' = [stream EXCEPT ![c].idx = @ + 1]
     \/ t.of \in scans /\ t.idx = v.events /\ ScanEnded(v) /\ Done(c)
  /\ UNCHANGED <<scans, scan, jobs, job, timers>>

\* Slip: a watcher leaves no timer.
UnwatchUntimed(j) ==
  /\ job' = [job EXCEPT ![j].watchers = @ - 1]
  /\ UNCHANGED timers

\* A watcher leaves job j: without another one a running job gets a timer.
Unwatch(j) ==
  LET left == IF job[j].watchers = 0 THEN 0 ELSE job[j].watchers - 1 IN
  IF j \notin jobs THEN UNCHANGED <<job, timers>>
  ELSE /\ job' = [job EXCEPT ![j].watchers = left]
       /\ timers' = IF left = 0 /\ Running(j) THEN Append(timers, j) ELSE timers

\* Slips: the end is sent before the last events, or for a completed job only.
FixStreamHasty(c) ==
  LET v == job[stream[c].of] IN
  /\ Streams(c, "job")
  /\ \/ /\ v.status # "running"
        /\ Done(c)
        /\ Unwatch(stream[c].of)
     \/ /\ v.status = "running" /\ stream[c].idx < v.events
        /\ stream' = [stream EXCEPT ![c].idx = @ + 1]
        /\ UNCHANGED <<job, timers>>
  /\ UNCHANGED <<scans, scan, jobs>>
FixStreamComplete(c) ==
  LET v == job[stream[c].of] IN
  /\ Streams(c, "job")
  /\ \/ /\ v.status = "complete" /\ stream[c].idx = v.events
        /\ Done(c)
        /\ Unwatch(stream[c].of)
     \/ /\ stream[c].idx < v.events
        /\ stream' = [stream EXCEPT ![c].idx = @ + 1]
        /\ UNCHANGED <<job, timers>>
  /\ UNCHANGED <<scans, scan, jobs>>

FixStreamStep(c) ==
  LET t == stream[c]
      v == job[t.of]
  IN
  /\ Streams(c, "job")
  /\ \/ t.of \notin jobs /\ Leave(c) /\ Unwatch(t.of)
     \/ /\ t.of \in jobs /\ t.idx < v.events
        /\ stream' = [stream EXCEPT ![c].idx = @ + 1]
        /\ UNCHANGED <<job, timers>>
     \/ /\ t.of \in jobs /\ t.idx = v.events /\ v.status # "running"
        /\ Done(c)
        /\ Unwatch(t.of)
  /\ UNCHANGED <<scans, scan, jobs>>

\* The client is gone.
Disconnect(c) ==
  /\ \/ Streams(c, "scan") /\ UNCHANGED <<job, timers>>
     \/ Streams(c, "job") /\ Unwatch(stream[c].of)
  /\ Leave(c)
  /\ UNCHANGED <<scans, scan, jobs>>

\* Slip: the timer does not look for a client that came back.
TimerFiresBlindly ==
  /\ timers # <<>>
  /\ timers' = Tail(timers)
  /\ job' = [job EXCEPT ![Head(timers)].cancelled = TRUE]
  /\ UNCHANGED <<scans, scan, jobs, stream>>

\* _cancel_if_orphaned
TimerFires ==
  /\ timers # <<>>
  /\ timers' = Tail(timers)
  /\ LET j == Head(timers) IN
     job' = IF j \in jobs /\ Running(j) /\ job[j].watchers = 0
            THEN [job EXCEPT ![j].cancelled = TRUE] ELSE job
  /\ UNCHANGED <<scans, scan, jobs, stream>>

-----------------------------------------------------------------------------

StreamStep(c) == ScanStreamStep(c) \/ FixStreamStep(c)

Next ==
  \/ StartScan
  \/ \E s \in ScanIds : ScanStep(s) \/ EndScan(s) \/ StartFixAll(s)
  \/ \E j \in JobIds : JobEvent(j) \/ EndFixJob(j) \/ CancelEnds(j) \/ CancelFixAll(j)
  \/ \E c \in Clients :
       \/ \E s \in ScanIds : StreamScan(c, s)
       \/ \E j \in JobIds : StreamFixAll(c, j)
       \/ StreamStep(c) \/ Disconnect(c)
  \/ TimerFires

\* The event loop polls every stream, fires its timers and delivers cancellations.
\* Nothing says that a scan or a job ends by itself.
Fairness ==
  /\ \A c \in Clients : WF_vars(StreamStep(c))
  /\ \A j \in JobIds : WF_vars(CancelEnds(j))
  /\ WF_vars(TimerFires)

Spec == Init /\ [][Next]_vars
FairSpec == Spec /\ Fairness

-----------------------------------------------------------------------------
(* Properties. *)

TypeOK ==
  /\ scans \subseteq ScanIds /\ scan \in [ScanIds -> Scan]
  /\ jobs \subseteq JobIds /\ job \in [JobIds -> FixJob]
  /\ timers \in Seq(JobIds)
  /\ stream \in [Clients -> Stream]

Watching(j) == {c \in Clients : Streams(c, "job") /\ stream[c].of = j}

\* The watchers of a job in the store are the connections that stream it.
WatchersCounted == \A j \in jobs : job[j].watchers = Cardinality(Watching(j))

\* No duplicate is paid for, and no more jobs run than may: counted over the tasks,
\* not over the store that start_fix_all looks at.
RunningBounded ==
  LET running == {j \in JobIds : Running(j)} IN
  /\ Cardinality(running) <= MAX_CONCURRENT_FIX_JOBS
  /\ \A i, j \in running : job[i].scan = job[j].scan => i = j

\* "Running/pending scans are never evicted", "running jobs are limited and never
\* evicted" (app.py:193,196): their tasks write to the store by id.
LiveEntriesKept ==
  /\ \A s \in ScanIds : scan[s].status \in {"pending", "running"} => s \in scans
  /\ \A j \in JobIds : Running(j) => j \in jobs

\* The stores are bounded by dropping what is over and nothing else, although finished
\* jobs are only evicted when one starts (_evict_finished, start_fix_all).
StoresBounded ==
  /\ TypeOK /\ RunningBounded /\ LiveEntriesKept
  /\ Cardinality({s \in scans : ScanEnded(scan[s])}) <= MAX_RETAINED_SCANS
  /\ Cardinality(jobs) <= MAX_RETAINED_FIX_JOBS + MAX_CONCURRENT_FIX_JOBS

\* The abandonment timer never cancels a job somebody watches, whatever timers
\* earlier connections left behind.
WatchedNotAbandoned ==
  [][TimerFires => \A j \in JobIds : Watching(j) # {} => job'[j].cancelled = job[j].cancelled]_vars

\* A stream that says it is done has sent every event, of a job that is over, and
\* each job knows how many streams it has.
DoneMeansAll ==
  /\ WatchersCounted
  /\ \A c \in Clients :
       LET t == stream[c] IN
       t.pc = "done" =>
         \/ t.on = "scan" /\ ScanEnded(scan[t.of]) /\ t.idx = scan[t.of].events
         \/ t.on = "job" /\ ~Running(t.of) /\ t.idx = job[t.of].events

\* A key sent with a scan is held only while the scan runs or a fix-all that may
\* need it has not completed, and one completed job at most has used it.
KeyForgotten ==
  \A s \in ScanIds :
    LET done == {j \in JobIds : job[j].scan = s /\ job[j].status = "complete"} IN
    /\ scan[s].key => \/ scan[s].status \in {"pending", "running"}
                      \/ scan[s].report = "findings" /\ done = {}
    /\ Cardinality({j \in done : job[j].usesKey}) <= 1

\* A job that was watched and then abandoned stops, even one that would never end.
AbandonedStops ==
  \A j \in JobIds :
    (Running(j) /\ job[j].seen /\ Watching(j) = {}) ~> (~Running(j) \/ Watching(j) # {})

\* Nobody is left waiting: the stream of what has ended, ends.
StreamsEnd ==
  \A c \in Clients :
    LET WatchesEnded == \E j \in JobIds : c \in Watching(j) /\ ~Running(j)
    IN WatchesEnded ~> ~WatchesEnded

=============================================================================
