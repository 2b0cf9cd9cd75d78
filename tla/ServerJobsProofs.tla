-------------------------- MODULE ServerJobsProofs --------------------------
(***************************************************************************)
(* Proofs about ServerJobs for any number of clients, scans and jobs and   *)
(* any limits of the stores.                                               *)
(***************************************************************************)
EXTENDS ServerJobs, FiniteSetTheorems, TLAPS

-----------------------------------------------------------------------------
(* The inductive invariant. *)

\* Only what was started is in a store or is fixed; only a complete scan has a report,
\* and jobs are only started for scans with one.
EntriesKnown ==
  /\ \A s \in scans : scan[s].status # "none"
  /\ \A j \in jobs : job[j].status # "none"
  /\ \A s \in ScanIds : scan[s].report # "none" => scan[s].status = "complete"
  /\ \A j \in JobIds : job[j].status # "none" =>
       job[j].scan \in ScanIds /\ scan[job[j].scan].status = "complete"

\* Only what was started is watched.
StreamsKnown ==
  \A c \in Clients : stream[c].pc # "idle" =>
    \/ /\ stream[c].on = "scan" /\ stream[c].of \in ScanIds
       /\ scan[stream[c].of].status # "none"
    \/ /\ stream[c].on = "job" /\ stream[c].of \in JobIds
       /\ job[stream[c].of].status # "none"

KnownIds == EntriesKnown /\ StreamsKnown

\* What StoresBounded says beside the types.
StoresKept ==
  /\ RunningBounded /\ LiveEntriesKept
  /\ Cardinality({s \in scans : ScanEnded(scan[s])}) <= MAX_RETAINED_SCANS
  /\ Cardinality(jobs) <= MAX_RETAINED_FIX_JOBS + MAX_CONCURRENT_FIX_JOBS

Completed(j) == job[j].status = "complete"

\* A scan loses its key when a job for it completes, and a running job that uses the
\* key still finds it: this is why a second job cannot have used it.
KeysHeld ==
  /\ \A s \in ScanIds : scan[s].key =>
       scan[s].status \in {"pending", "running"} \/ scan[s].report = "findings"
  /\ \A j \in JobIds : Completed(j) => ~scan[job[j].scan].key
  /\ \A j \in JobIds : Running(j) /\ job[j].usesKey => scan[job[j].scan].key
  /\ \A i, j \in JobIds :
       /\ Completed(i) /\ job[i].usesKey /\ Completed(j) /\ job[j].usesKey
       /\ job[i].scan = job[j].scan
       => i = j

IInv == TypeOK /\ KnownIds /\ StoresKept /\ KeysHeld /\ DoneMeansAll

-----------------------------------------------------------------------------
(* Eviction. *)

\* Every non-empty set of natural numbers has a least element.
LEMMA LeastElement ==
  ASSUME NEW S \in SUBSET Nat, S # {}
  PROVE  \E m \in S : \A k \in S : m <= k
  <1>1. IsWellFoundedOn(OpToRel(<, Nat), Nat)
    BY NatLessThanWellFounded, Zenon
  <1>2. PICK m \in S : \A k \in S : ~ (<<k, m>> \in OpToRel(<, Nat))
    BY <1>1, WFMin, Zenon
  <1>3. \A k \in S : ~ (k < m)
    BY <1>2 DEF OpToRel
  <1>4. QED
    BY <1>3

\* Of a set of finished entries, at most max have fewer than max later ones.
LEMMA LatestBounded ==
  ASSUME NEW F \in SUBSET Nat, IsFiniteSet(F), NEW max \in Nat
  PROVE  Cardinality({i \in F : Cardinality({k \in F : k > i}) < max}) <= max
  <1> DEFINE After(i) == {k \in F : k > i}
             L == {i \in F : Cardinality(After(i)) < max}
  <1>0. SUFFICES Cardinality(L) <= max
    OBVIOUS
  <1>1. IsFiniteSet(L)
    BY FS_Subset
  <1>2. CASE L = {}
    <2>1. Cardinality(L) = 0
      BY <1>2, FS_EmptySet, Zenon
    <2>2. QED
      BY <2>1
  <1>3. CASE L # {}
    <2>1. PICK m \in L : \A k \in L : m <= k
      BY <1>3, LeastElement
    <2>2. IsFiniteSet(After(m)) /\ Cardinality(After(m)) < max /\ Cardinality(After(m)) \in Nat
      BY <2>1, FS_Subset, FS_CardinalityType
    <2>3. L \ {m} \subseteq After(m)
      <3>1. \A k \in L : k \in F /\ k \in Nat
        OBVIOUS
      <3>2. SUFFICES ASSUME NEW k \in L, k # m
                     PROVE  k \in F /\ k > m
        BY Zenon
      <3>3. m <= k /\ k \in F /\ k \in Nat /\ m \in Nat
        BY <2>1, <3>1, Zenon
      <3>4. QED
        BY <3>2, <3>3
    <2>4. Cardinality(L \ {m}) <= Cardinality(After(m))
      BY <2>2, <2>3, FS_Subset
    <2>5. Cardinality(L \ {m}) = Cardinality(L) - 1 /\ Cardinality(L) \in Nat
      BY <1>1, <2>1, FS_RemoveElement, FS_CardinalityType
    <2>6. QED
      BY <2>2, <2>4, <2>5
  <1>4. QED
    BY <1>2, <1>3

\* The trimmed store keeps all that is not finished and at most max of the rest.
LEMMA EvictEffect ==
  ASSUME NEW n \in Nat, NEW store \in SUBSET (1 .. n),
         NEW finished \in SUBSET store, NEW max \in Nat
  PROVE  /\ Evict(store, finished, max) \subseteq store
         /\ store \ finished \subseteq Evict(store, finished, max)
         /\ Cardinality(Evict(store, finished, max) \intersect finished) <= max
  <1>1. finished \in SUBSET Nat /\ IsFiniteSet(finished)
    <2>1. IsFiniteSet(1 .. n)
      BY FS_Interval
    <2>2. finished \in SUBSET (1 .. n)
      OBVIOUS
    <2>3. IsFiniteSet(finished)
      BY <2>1, <2>2, FS_Subset, Zenon
    <2>4. QED
      BY <2>2, <2>3
  <1>2. Evict(store, finished, max) \intersect finished
          = {i \in finished : Cardinality({k \in finished : k > i}) < max}
    BY DEF Evict
  <1>3. QED
    BY <1>1, <1>2, LatestBounded DEF Evict

-----------------------------------------------------------------------------
(* Types. *)

\* The initial state has the types.
LEMMA TypeInit == Init => TypeOK
  BY BoundAssumption DEF Init, TypeOK, NoScan, NoFixJob, Idle, Scan, FixJob, Stream

\* There are finitely many scans and jobs.
LEMMA ScanIdsFinite == IsFiniteSet(ScanIds) /\ IsFiniteSet(JobIds)
  BY BoundAssumption, FS_Interval DEF ScanIds, JobIds

\* What an eviction leaves of the scans.
LEMMA ScansEvicted ==
  ASSUME NEW store \in SUBSET ScanIds, NEW sc
  PROVE  /\ EvictScans(store, sc) \subseteq store
         /\ \A s \in store : ~ScanEnded(sc[s]) => s \in EvictScans(store, sc)
         /\ Cardinality({s \in EvictScans(store, sc) : ScanEnded(sc[s])}) <= MAX_RETAINED_SCANS
  <1> DEFINE finished == {s \in store : ScanEnded(sc[s])}
             kept == EvictScans(store, sc)
  <1>1. kept = Evict(store, finished, MAX_RETAINED_SCANS)
    BY DEF EvictScans
  <1> finished \in SUBSET store
    OBVIOUS
  <1> HIDE DEF finished, kept
  <1>2. /\ kept \subseteq store /\ store \ finished \subseteq kept
        /\ Cardinality(kept \intersect finished) <= MAX_RETAINED_SCANS
    <2>1. MaxScans \in Nat /\ MAX_RETAINED_SCANS \in Nat 
      BY BoundAssumption
    <2>2. store \in SUBSET (1 .. MaxScans)
      BY DEF ScanIds
    <2>3. QED
      BY <1>1, <2>1, <2>2, EvictEffect, Zenon
  <1>3. {s \in kept : ScanEnded(sc[s])} = kept \intersect finished
    BY <1>2 DEF finished
  <1>4. QED
    BY <1>2, <1>3 DEF finished, kept

\* The same of the fix jobs.
LEMMA FixJobsEvicted ==
  ASSUME NEW store \in SUBSET JobIds, NEW jb
  PROVE  /\ EvictFixJobs(store, jb) \subseteq store
         /\ \A j \in store : jb[j].status = "running" => j \in EvictFixJobs(store, jb)
         /\ Cardinality({j \in EvictFixJobs(store, jb) : jb[j].status # "running"})
              <= MAX_RETAINED_FIX_JOBS
  <1> DEFINE finished == {j \in store : jb[j].status # "running"}
             kept == EvictFixJobs(store, jb)
  <1>1. kept = Evict(store, finished, MAX_RETAINED_FIX_JOBS)
    BY DEF EvictFixJobs
  <1> finished \in SUBSET store
    OBVIOUS
  <1> HIDE DEF finished, kept
  <1>2. /\ kept \subseteq store /\ store \ finished \subseteq kept
        /\ Cardinality(kept \intersect finished) <= MAX_RETAINED_FIX_JOBS
    <2>1. MaxJobs \in Nat /\ MAX_RETAINED_FIX_JOBS \in Nat 
      BY BoundAssumption
    <2>2. store \in SUBSET (1 .. MaxJobs)
      BY DEF JobIds
    <2>3. QED
      BY <1>1, <2>1, <2>2, EvictEffect, Zenon
  <1>3. {j \in kept : jb[j].status # "running"} = kept \intersect finished
    BY <1>2 DEF finished
  <1>4. QED
    BY <1>2, <1>3 DEF finished, kept

\* A record keeps its type when one of the steps changes a field.
LEMMA FieldTypes ==
  /\ \A v \in Scan : /\ [v EXCEPT !.status = "running"] \in Scan
                     /\ [v EXCEPT !.status = "failed"] \in Scan
                     /\ [v EXCEPT !.events = @ + 1] \in Scan
                     /\ [v EXCEPT !.key = FALSE] \in Scan
                     /\ \A r \in {"clean", "findings"} :
                          [v EXCEPT !.status = "complete", !.report = r] \in Scan
  /\ \A key \in BOOLEAN : [NoScan EXCEPT !.status = "pending", !.key = key] \in Scan
  /\ \A v \in FixJob : /\ \A end \in {"complete", "failed", "cancelled"} :
                            [v EXCEPT !.status = end] \in FixJob
                       /\ [v EXCEPT !.events = @ + 1] \in FixJob
                       /\ [v EXCEPT !.cancelled = TRUE] \in FixJob
                       /\ \A n \in Nat : [v EXCEPT !.watchers = n] \in FixJob
                       /\ [v EXCEPT !.watchers = @ + 1, !.seen = TRUE] \in FixJob
  /\ \A s \in ScanIds, uses \in BOOLEAN :
       [NoFixJob EXCEPT !.status = "running", !.scan = s, !.usesKey = uses] \in FixJob
  <1>1. NoScan \in Scan /\ NoFixJob \in FixJob
    BY DEF NoScan, NoFixJob, Scan, FixJob
  <1>2. ASSUME NEW v \in Scan
        PROVE  /\ [v EXCEPT !.status = "running"] \in Scan
               /\ [v EXCEPT !.status = "failed"] \in Scan
               /\ [v EXCEPT !.events = @ + 1] \in Scan
               /\ [v EXCEPT !.key = FALSE] \in Scan
               /\ \A r \in {"clean", "findings"} :
                    [v EXCEPT !.status = "complete", !.report = r] \in Scan
    <2>1. /\ [v EXCEPT !.status = "running"] \in Scan
          /\ [v EXCEPT !.status = "failed"] \in Scan
          /\ [v EXCEPT !.key = FALSE] \in Scan
      BY DEF Scan
    <2>2. [v EXCEPT !.events = @ + 1] \in Scan
      BY DEF Scan
    <2>3. ASSUME NEW r \in {"clean", "findings"}
          PROVE  [v EXCEPT !.status = "complete", !.report = r] \in Scan
      BY DEF Scan
    <2>4. QED
      BY <2>1, <2>2, <2>3
  <1>3. \A key \in BOOLEAN : [NoScan EXCEPT !.status = "pending", !.key = key] \in Scan
    BY DEF NoScan, Scan
  <1>4. ASSUME NEW v \in FixJob
        PROVE  /\ \A end \in {"complete", "failed", "cancelled"} :
                    [v EXCEPT !.status = end] \in FixJob
               /\ [v EXCEPT !.events = @ + 1] \in FixJob
               /\ [v EXCEPT !.cancelled = TRUE] \in FixJob
               /\ \A n \in Nat : [v EXCEPT !.watchers = n] \in FixJob
               /\ [v EXCEPT !.watchers = @ + 1, !.seen = TRUE] \in FixJob
    <2>1. ASSUME NEW end \in {"complete", "failed", "cancelled"}
          PROVE  [v EXCEPT !.status = end] \in FixJob
      BY DEF FixJob
    <2>2. [v EXCEPT !.cancelled = TRUE] \in FixJob
      BY DEF FixJob
    <2>3. ASSUME NEW n \in Nat
          PROVE  /\ [v EXCEPT !.watchers = n] \in FixJob
                 /\ [v EXCEPT !.events = n] \in FixJob
                 /\ [v EXCEPT !.watchers = n, !.seen = TRUE] \in FixJob
      BY DEF FixJob
    <2>4. v.watchers + 1 \in Nat /\ v.events + 1 \in Nat
      BY DEF FixJob
    <2>5. QED
      BY <2>1, <2>2, <2>3, <2>4
  <1>5. ASSUME NEW s \in ScanIds, NEW uses \in BOOLEAN
        PROVE  [NoFixJob EXCEPT !.status = "running", !.scan = s, !.usesKey = uses] \in FixJob
    BY DEF NoFixJob, FixJob
  <1>6. QED
    BY <1>2, <1>3, <1>4, <1>5

\* What a watcher leaves behind.
LEMMA UnwatchType ==
  ASSUME TypeOK, NEW j \in JobIds, Unwatch(j)
  PROVE  job' \in [JobIds -> FixJob] /\ timers' \in Seq(JobIds)
  <1> DEFINE left == IF job[j].watchers = 0 THEN 0 ELSE job[j].watchers - 1
  <1>1. job[j] \in FixJob
    BY DEF TypeOK
  <1>2. left \in Nat
    BY <1>1 DEF FixJob
  <1>3. [job[j] EXCEPT !.watchers = left] \in FixJob
    BY <1>1, <1>2, FieldTypes
  <1>4. job' \in [JobIds -> FixJob]
    BY <1>3 DEF Unwatch, TypeOK
  <1>5. timers' \in Seq(JobIds)
    BY DEF Unwatch, TypeOK
  <1>6. QED
    BY <1>4, <1>5

\* The steps of a scan keep the types.
LEMMA TypeScans ==
  ASSUME TypeOK, NEW s \in ScanIds, StartScan \/ ScanStep(s) \/ EndScan(s)
  PROVE  TypeOK'
  <1>1. scan[s] \in Scan
    BY DEF TypeOK
  <1>2. CASE StartScan
    <2>1. PICK k \in ScanIds, key \in BOOLEAN :
            /\ scan' = [scan EXCEPT ![k] = [NoScan EXCEPT !.status = "pending", !.key = key]]
            /\ scans' = EvictScans(scans \union {k}, scan')
      BY <1>2 DEF StartScan
    <2>2. scan' \in [ScanIds -> Scan]
      BY <2>1, FieldTypes DEF TypeOK
    <2>3. scans \union {k} \in SUBSET ScanIds
      BY DEF TypeOK
    <2>4. scans' \subseteq ScanIds
      BY <2>1, <2>3, ScansEvicted, Zenon
    <2>5. QED
      BY <1>2, <2>2, <2>4 DEF StartScan, TypeOK
  <1>3. CASE ScanStep(s)
    <2>1. scan' \in [ScanIds -> Scan]
      BY <1>1, <1>3, FieldTypes DEF ScanStep, TypeOK
    <2>2. QED
      BY <1>3, <2>1 DEF ScanStep, TypeOK
  <1>4. CASE EndScan(s)
    <2>1. PICK v \in Scan : scan' = [scan EXCEPT ![s] = Settled(v)]
      BY <1>1, <1>4, FieldTypes DEF EndScan
    <2>2. Settled(v) \in Scan
      BY <2>1, FieldTypes DEF Settled
    <2>3. scan' \in [ScanIds -> Scan]
      BY <2>1, <2>2 DEF TypeOK
    <2>4. scans' \subseteq ScanIds
      <3>1. scans \in SUBSET ScanIds
        BY DEF TypeOK
      <3>2. scans' = EvictScans(scans, scan')
        BY <1>4 DEF EndScan
      <3>3. QED
        BY <3>1, <3>2, ScansEvicted, Zenon
    <2>5. QED
      BY <1>4, <2>3, <2>4 DEF EndScan, TypeOK
  <1>5. QED
    BY <1>2, <1>3, <1>4

\* A job that starts keeps the types.
LEMMA TypeStartFixAll ==
  ASSUME TypeOK, NEW s \in ScanIds, StartFixAll(s)
  PROVE  TypeOK'
  <1>1. PICK j \in JobIds :
          /\ job' = [job EXCEPT ![j] = [NoFixJob EXCEPT !.status = "running", !.scan = s,
                                                        !.usesKey = scan[s].key]]
          /\ jobs' = EvictFixJobs(jobs \union {j}, job')
    BY DEF StartFixAll
  <1>2. scan[s].key \in BOOLEAN
    BY DEF TypeOK, Scan
  <1>3. job' \in [JobIds -> FixJob]
    BY <1>1, <1>2, FieldTypes DEF TypeOK
  <1>4. jobs \union {j} \in SUBSET JobIds
    BY DEF TypeOK
  <1>5. jobs' \subseteq JobIds
    BY <1>1, <1>4, FixJobsEvicted, Zenon
  <1>6. QED
    BY <1>3, <1>5 DEF StartFixAll, TypeOK

\* The steps of a job keep the types.
LEMMA TypeJobs ==
  ASSUME TypeOK, NEW j \in JobIds,
         JobEvent(j) \/ EndFixJob(j) \/ CancelEnds(j) \/ CancelFixAll(j)
  PROVE  TypeOK'
  <1>1. job[j] \in FixJob
    BY DEF TypeOK
  <1>2. job' \in [JobIds -> FixJob]
    <2>1. PICK v \in FixJob : job' = [job EXCEPT ![j] = v]
      <3>1. CASE JobEvent(j)
        BY <1>1, <3>1, FieldTypes DEF JobEvent
      <3>2. CASE EndFixJob(j)
        BY <1>1, <3>2, FieldTypes DEF EndFixJob
      <3>3. CASE CancelEnds(j)
        BY <1>1, <3>3, FieldTypes DEF CancelEnds
      <3>4. CASE CancelFixAll(j)
        BY <1>1, <3>4, FieldTypes DEF CancelFixAll
      <3>5. QED
        BY <3>1, <3>2, <3>3, <3>4
    <2>2. QED
      BY <2>1 DEF TypeOK
  <1>3. scan' \in [ScanIds -> Scan]
    <2>1. CASE UNCHANGED scan
      BY <2>1 DEF TypeOK
    <2>2. CASE scan' = [scan EXCEPT ![job[j].scan].key = FALSE]
      BY <2>2, FieldTypes DEF TypeOK
    <2>3. QED
      BY <2>1, <2>2 DEF JobEvent, EndFixJob, CancelEnds, CancelFixAll
  <1>4. UNCHANGED <<scans, jobs, timers, stream>>
    BY DEF JobEvent, EndFixJob, CancelEnds, CancelFixAll
  <1>5. QED
    BY <1>2, <1>3, <1>4 DEF TypeOK

\* So does the record of a connection.
LEMMA StreamTypes ==
  /\ Idle \in Stream
  /\ \A on \in {"scan", "job"}, id \in Nat : Open(on, id) \in Stream
  /\ \A t \in Stream : [t EXCEPT !.pc = "done"] \in Stream /\ [t EXCEPT !.idx = @ + 1] \in Stream
  <1>1. Idle \in Stream /\ \A on \in {"scan", "job"}, id \in Nat : Open(on, id) \in Stream
    BY DEF Idle, Open, Stream
  <1>2. ASSUME NEW t \in Stream
        PROVE  [t EXCEPT !.pc = "done"] \in Stream /\ [t EXCEPT !.idx = @ + 1] \in Stream
    <2>1. t.idx + 1 \in Nat
      BY DEF Stream
    <2>2. QED
      BY <2>1 DEF Stream
  <1>3. QED
    BY <1>1, <1>2

\* One connection changes at a time.
LEMMA StreamChanged ==
  ASSUME TypeOK, NEW c \in Clients, NEW t \in Stream, stream' = [stream EXCEPT ![c] = t]
  PROVE  stream' \in [Clients -> Stream]
  BY DEF TypeOK

\* The steps of a connection keep the types.
LEMMA TypeStreams ==
  ASSUME TypeOK, KnownIds, NEW c \in Clients,
         \/ \E s \in ScanIds : StreamScan(c, s)
         \/ \E j \in JobIds : StreamFixAll(c, j)
         \/ StreamStep(c) \/ Disconnect(c)
  PROVE  TypeOK'
  <1> DEFINE t == stream[c]
  <1>0. t \in Stream /\ ScanIds \subseteq Nat /\ JobIds \subseteq Nat
    BY BoundAssumption DEF TypeOK, ScanIds, JobIds
  <1>1. stream' \in [Clients -> Stream]
    <2>1. PICK u \in Stream : stream' = [stream EXCEPT ![c] = u]
      <3>1. CASE \E s \in ScanIds : StreamScan(c, s)
        BY <1>0, <3>1, StreamTypes DEF StreamScan
      <3>2. CASE \E j \in JobIds : StreamFixAll(c, j)
        BY <1>0, <3>2, StreamTypes DEF StreamFixAll
      <3>3. CASE StreamStep(c) \/ Disconnect(c)
        <4>1. \/ stream' = [stream EXCEPT ![c].idx = @ + 1]
              \/ stream' = [stream EXCEPT ![c].pc = "done"]
              \/ stream' = [stream EXCEPT ![c] = Idle]
          BY <3>3 DEF StreamStep, ScanStreamStep, FixStreamStep, Disconnect, Leave, Done
        <4>2. QED
          BY <1>0, <4>1, StreamTypes
      <3>4. QED
        BY <3>1, <3>2, <3>3
    <2>2. QED
      BY <2>1, StreamChanged
  <1>2. job' \in [JobIds -> FixJob] /\ timers' \in Seq(JobIds)
    <2>1. CASE UNCHANGED <<job, timers>>
      BY <2>1 DEF TypeOK
    <2>2. CASE \E j \in JobIds : StreamFixAll(c, j)
      <3>1. PICK j \in JobIds : StreamFixAll(c, j)
        BY <2>2
      <3>2. job[j] \in FixJob
        BY DEF TypeOK
      <3>3. [job[j] EXCEPT !.watchers = @ + 1, !.seen = TRUE] \in FixJob
        BY <3>2, FieldTypes
      <3>4. QED
        BY <3>1, <3>3 DEF StreamFixAll, TypeOK
    <2>3. CASE Streams(c, "job") /\ Unwatch(t.of)
      <3>1. t.of \in JobIds
        BY <2>3 DEF Streams, KnownIds, EntriesKnown, StreamsKnown
      <3>2. QED
        BY <2>3, <3>1, UnwatchType
    <2>4. QED
      BY <2>1, <2>2, <2>3 DEF StreamScan, StreamStep, ScanStreamStep, FixStreamStep, Disconnect
  <1>3. UNCHANGED <<scans, scan, jobs>>
    BY DEF StreamScan, StreamFixAll, StreamStep, ScanStreamStep, FixStreamStep, Disconnect
  <1>4. QED
    BY <1>1, <1>2, <1>3 DEF TypeOK

\* So does a timer.
LEMMA TypeTimerFires ==
  ASSUME TypeOK, TimerFires
  PROVE  TypeOK'
  <1>1. Head(timers) \in JobIds /\ Tail(timers) \in Seq(JobIds)
    BY DEF TimerFires, TypeOK
  <1>2. job[Head(timers)] \in FixJob
    BY <1>1 DEF TypeOK
  <1>3. [job[Head(timers)] EXCEPT !.cancelled = TRUE] \in FixJob
    BY <1>2, FieldTypes
  <1>4. job' \in [JobIds -> FixJob]
    BY <1>1, <1>3 DEF TimerFires, TypeOK
  <1>5. QED
    BY <1>1, <1>4 DEF TimerFires, TypeOK

-----------------------------------------------------------------------------
(* The stores and the keys. *)

\* What the stores and the keys are read from.
Settings == <<scans, scan, jobs>>
SameJobs ==
  \A j \in JobIds : /\ job'[j].status = job[j].status
                    /\ job'[j].scan = job[j].scan /\ job'[j].usesKey = job[j].usesKey

\* A step that changes none of it keeps the stores and the keys.
LEMMA QuietKeeps ==
  ASSUME StoresKept, KeysHeld, UNCHANGED Settings, SameJobs
  PROVE  StoresKept' /\ KeysHeld'
  <1>1. \A j \in JobIds : Running(j)' = Running(j) /\ Completed(j)' = Completed(j)
    BY DEF SameJobs, Running, Completed
  <1>2. {j \in JobIds : Running(j)}' = {j \in JobIds : Running(j)}
    BY <1>1
  <1>3. scans' = scans /\ scan' = scan /\ jobs' = jobs
    BY DEF Settings
  <1>4. RunningBounded'
    BY <1>1, <1>2 DEF StoresKept, RunningBounded, SameJobs
  <1>5. LiveEntriesKept'
    BY <1>1, <1>3 DEF StoresKept, LiveEntriesKept
  <1>6. StoresKept'
    BY <1>3, <1>4, <1>5 DEF StoresKept, ScanEnded
  <1>7. KeysHeld'
    BY <1>1, <1>3 DEF KeysHeld, SameJobs
  <1>8. QED
    BY <1>6, <1>7

\* These are all the steps of the streams and the timers, and events.
LEMMA QuietSteps ==
  ASSUME TypeOK, KnownIds,
         \/ \E j \in JobIds : JobEvent(j) \/ CancelFixAll(j)
         \/ \E c \in Clients :
              \/ \E s \in ScanIds : StreamScan(c, s)
              \/ \E j \in JobIds : StreamFixAll(c, j)
              \/ StreamStep(c) \/ Disconnect(c)
         \/ TimerFires
  PROVE  UNCHANGED Settings /\ SameJobs
  <1>0. \A j \in JobIds : job[j] \in FixJob
    BY DEF TypeOK
  <1>1. ASSUME NEW j \in JobIds, JobEvent(j) \/ CancelFixAll(j)
        PROVE  UNCHANGED Settings /\ SameJobs
    <2>1. CASE JobEvent(j)
      BY <1>0, <2>1 DEF JobEvent, Settings, SameJobs, FixJob, TypeOK
    <2>2. CASE CancelFixAll(j)
      BY <1>0, <2>2 DEF CancelFixAll, Settings, SameJobs, FixJob, TypeOK
    <2>3. QED
      BY <1>1, <2>1, <2>2
  <1>2. ASSUME NEW c \in Clients, NEW s \in ScanIds, StreamScan(c, s)
        PROVE  UNCHANGED Settings /\ SameJobs
    BY <1>2 DEF StreamScan, Settings, SameJobs
  <1>3. ASSUME NEW c \in Clients, NEW j \in JobIds, StreamFixAll(c, j)
        PROVE  UNCHANGED Settings /\ SameJobs
    BY <1>0, <1>3 DEF StreamFixAll, Settings, SameJobs, FixJob, TypeOK
  <1>4. ASSUME NEW j, Unwatch(j)
        PROVE  SameJobs
    <2> DEFINE left == IF job[j].watchers = 0 THEN 0 ELSE job[j].watchers - 1
    <2>1. UNCHANGED job \/ job' = [job EXCEPT ![j].watchers = left]
      BY <1>4 DEF Unwatch
    <2> HIDE DEF left
    <2>2. CASE UNCHANGED job
      BY <2>2 DEF SameJobs
    <2>3. CASE job' = [job EXCEPT ![j].watchers = left]
      BY <1>0, <2>3 DEF SameJobs, FixJob, TypeOK
    <2>4. QED
      BY <2>1, <2>2, <2>3
  <1>5. ASSUME NEW c \in Clients, StreamStep(c) \/ Disconnect(c)
        PROVE  UNCHANGED Settings /\ SameJobs
    <2>1. UNCHANGED job => SameJobs
      BY DEF SameJobs
    <2>2. QED
      BY <1>4, <1>5, <2>1
         DEF StreamStep, ScanStreamStep, FixStreamStep, Disconnect, Settings
  <1>6. CASE TimerFires
    BY <1>0, <1>6 DEF TimerFires, Settings, SameJobs, FixJob, TypeOK
  <1>7. QED
    BY <1>1, <1>2, <1>3, <1>5, <1>6

\* A set of jobs, of scans or of the clients of a job is finite.
LEMMA PartsFinite ==
  /\ \A S \in SUBSET JobIds : IsFiniteSet(S) /\ Cardinality(S) \in Nat
  /\ \A S \in SUBSET ScanIds : IsFiniteSet(S) /\ Cardinality(S) \in Nat
  /\ \A S \in SUBSET Clients : IsFiniteSet(S) /\ Cardinality(S) \in Nat
  BY ScanIdsFinite, BoundAssumption, FS_Subset, FS_CardinalityType, Zenon

\* Jobs that end make room.
LEMMA FewerRunning ==
  ASSUME TypeOK, StoresKept, UNCHANGED <<scans, jobs>>,
         \A s \in ScanIds : scan'[s].status = scan[s].status,
         \A j \in JobIds : job'[j].scan = job[j].scan /\ (Running(j)' => Running(j))
  PROVE  StoresKept'
  <1> DEFINE running == {j \in JobIds : Running(j)}
             after == {j \in JobIds : Running(j)'}
  <1>1. Cardinality(after) <= Cardinality(running)
    <2>1. after \in SUBSET running /\ running \in SUBSET JobIds
      OBVIOUS
    <2> HIDE DEF after, running
    <2>2. QED
      BY <2>1, PartsFinite, FS_Subset, Zenon
  <1>2. Cardinality(after) \in Nat /\ Cardinality(running) \in Nat
    <2>1. after \in SUBSET JobIds /\ running \in SUBSET JobIds
      OBVIOUS
    <2> HIDE DEF after, running
    <2>2. QED
      BY <2>1, PartsFinite, Zenon
  <1>3. Cardinality(running) <= MAX_CONCURRENT_FIX_JOBS
    BY DEF StoresKept, RunningBounded
  <1>4. Cardinality(after) <= MAX_CONCURRENT_FIX_JOBS
    <2> HIDE DEF after, running
    <2>1. QED
      BY <1>1, <1>2, <1>3, BoundAssumption
  <1>5. \A i, j \in after : job'[i].scan = job'[j].scan => i = j
    BY DEF StoresKept, RunningBounded
  <1>6. RunningBounded'
    BY <1>4, <1>5 DEF RunningBounded
  <1>7. LiveEntriesKept'
    BY DEF StoresKept, LiveEntriesKept
  <1>8. \A s \in scans : ScanEnded(scan'[s]) = ScanEnded(scan[s])
    BY DEF ScanEnded, TypeOK
  <1>9. {s \in scans : ScanEnded(scan'[s])} = {s \in scans : ScanEnded(scan[s])}
    BY <1>8
  <1>10. QED
    BY <1>6, <1>7, <1>9 DEF StoresKept

\* What a scan's own step may change: its entry alone, never one that has ended.
ScanMoves(s) ==
  /\ UNCHANGED <<jobs, job, timers, stream>>
  /\ \A k \in ScanIds : k # s => scan'[k] = scan[k]
  /\ ~ScanEnded(scan[s])

\* A scan that runs or ends: a report only comes with its end.
LEMMA ScanStepsMove ==
  ASSUME TypeOK, NEW s \in ScanIds, ScanStep(s) \/ EndScan(s)
  PROVE  /\ ScanMoves(s) /\ s \in scans
         /\ scan'[s].status \in {"running", "complete", "failed"}
         /\ scan'[s].report # "none" => scan'[s].status = "complete" \/ scan'[s].report = scan[s].report
         /\ scan'[s].key => /\ scan[s].key
                            /\ scan'[s].status = "running" \/ scan'[s].report = "findings"
  <1>0. scan \in [ScanIds -> Scan] /\ scan[s] \in Scan
    BY DEF TypeOK
  <1>1. CASE ScanStep(s)
    BY <1>0, <1>1 DEF ScanStep, ScanMoves, ScanEnded, Scan
  <1>2. CASE EndScan(s)
    <2>1. PICK v \in Scan : /\ scan' = [scan EXCEPT ![s] = Settled(v)]
                            /\ v.status \in {"complete", "failed"} /\ v.key = scan[s].key
                            /\ v.report # "none" => v.status = "complete" \/ v.report = scan[s].report
      <3>1. PICK v \in {[scan[s] EXCEPT !.status = "complete", !.report = r] :
                          r \in {"clean", "findings"}}
                       \union {[scan[s] EXCEPT !.status = "failed"]} :
              scan' = [scan EXCEPT ![s] = Settled(v)]
        BY <1>2 DEF EndScan
      <3>2. ASSUME v = [scan[s] EXCEPT !.status = "failed"]
            PROVE  /\ v \in Scan /\ v.status = "failed" /\ v.key = scan[s].key
                   /\ v.report = scan[s].report
        BY <1>0, <3>1, <3>2 DEF Scan
      <3>3. ASSUME NEW r \in {"clean", "findings"},
                   v = [scan[s] EXCEPT !.status = "complete", !.report = r]
            PROVE  v \in Scan /\ v.status = "complete" /\ v.key = scan[s].key
        BY <1>0, <3>3 DEF Scan
      <3>4. QED
        BY <3>1, <3>2, <3>3
    <2>2. /\ Settled(v).status = v.status /\ Settled(v).report = v.report
          /\ Settled(v).key => v.key /\ v.status = "complete" /\ v.report = "findings"
      BY <2>1 DEF Settled, Scan
    <2>3. QED
      BY <1>0, <1>2, <2>1, <2>2 DEF EndScan, ScanMoves, ScanEnded
  <1>3. QED
    BY <1>1, <1>2

\* A scan that starts is no entry yet.
LEMMA StartScanMoves ==
  ASSUME TypeOK, StartScan
  PROVE  \E s \in ScanIds :
           /\ ScanMoves(s) /\ scan[s].status = "none"
           /\ scan'[s].status = "pending" /\ scan'[s].report = "none"
           /\ scans' = EvictScans(scans \union {s}, scan')
  <1>1. PICK s \in ScanIds, key \in BOOLEAN :
          /\ \A k \in ScanIds : (scan[k].status = "none") <=> (k >= s)
          /\ scan' = [scan EXCEPT ![s] = [NoScan EXCEPT !.status = "pending", !.key = key]]
          /\ scans' = EvictScans(scans \union {s}, scan')
    BY DEF StartScan
  <1>2. s >= s
    BY BoundAssumption DEF ScanIds
  <1>3. scan[s].status = "none"
    BY <1>1, <1>2
  <1>4. scan'[s].status = "pending" /\ scan'[s].report = "none"
    BY <1>1 DEF NoScan, TypeOK
  <1>5. ScanMoves(s)
    BY <1>1, <1>3 DEF StartScan, ScanMoves, ScanEnded, TypeOK
  <1>6. QED
    BY <1>1, <1>3, <1>4, <1>5

\* The jobs of a scan that has not ended are none, so its step disturbs no key of theirs.
LEMMA ScanMovesKeeps ==
  ASSUME TypeOK, TypeOK', KnownIds, KeysHeld, NEW s \in ScanIds, ScanMoves(s),
         scan'[s].key => scan'[s].status \in {"pending", "running"} \/ scan'[s].report = "findings"
  PROVE  KeysHeld'
  <1>1. \A j \in JobIds : Running(j)' = Running(j) /\ Completed(j)' = Completed(j) /\ job'[j] = job[j]
    BY DEF ScanMoves, Running, Completed
  <1>2. \A j \in JobIds : Running(j) \/ Completed(j) =>
          job[j].scan \in ScanIds /\ scan'[job[j].scan] = scan[job[j].scan]
    BY DEF KnownIds, EntriesKnown, StreamsKnown, ScanMoves, Running, Completed, ScanEnded
  <1>3. QED
    BY <1>1, <1>2 DEF KeysHeld, ScanMoves

\* A store of scans that was trimmed still has those that run and few others.
LEMMA ScanMovesStores ==
  ASSUME TypeOK, TypeOK', StoresKept, NEW s \in ScanIds, ScanMoves(s),
         NEW store \in SUBSET ScanIds, s \in store, scans \subseteq store,
         scans' = EvictScans(store, scan')
  PROVE  StoresKept'
  <1>1. /\ \A k \in store : ~ScanEnded(scan'[k]) => k \in scans'
        /\ Cardinality({k \in scans' : ScanEnded(scan'[k])}) <= MAX_RETAINED_SCANS
    BY ScansEvicted, Zenon
  <1>2. \A k \in ScanIds : scan'[k].status \in {"pending", "running"} => k \in scans'
    <2> SUFFICES ASSUME NEW k \in ScanIds, scan'[k].status \in {"pending", "running"}
                 PROVE  k \in store /\ ~ScanEnded(scan'[k])
      BY <1>1
    <2>1. QED
      BY DEF ScanMoves, StoresKept, LiveEntriesKept, ScanEnded
  <1>3. job' = job /\ jobs' = jobs
    BY DEF ScanMoves
  <1>4. RunningBounded'
    BY <1>3 DEF StoresKept, RunningBounded, Running
  <1>5. LiveEntriesKept'
    BY <1>2, <1>3 DEF StoresKept, LiveEntriesKept, Running
  <1>6. QED
    BY <1>1, <1>3, <1>4, <1>5 DEF StoresKept

\* A job that starts is the only one that runs for its scan.
LEMMA StartFixAllKeeps ==
  ASSUME TypeOK, KnownIds, StoresKept, KeysHeld, NEW s \in ScanIds, StartFixAll(s), TypeOK'
  PROVE  StoresKept' /\ KeysHeld'
  <1>1. PICK j \in JobIds :
          /\ \A k \in JobIds : (job[k].status = "none") <=> (k >= j)
          /\ job' = [job EXCEPT ![j] = [NoFixJob EXCEPT !.status = "running", !.scan = s,
                                                        !.usesKey = scan[s].key]]
          /\ jobs' = EvictFixJobs(jobs \union {j}, job')
    BY DEF StartFixAll
  <1>2. /\ job[j].status = "none"
        /\ job'[j].status = "running" /\ job'[j].scan = s /\ job'[j].usesKey = scan[s].key
        /\ \A k \in JobIds : k # j => job'[k] = job[k]
    <2>1. j >= j
      BY BoundAssumption DEF JobIds
    <2>2. job[j].status = "none"
      BY <1>1, <2>1
    <2>3. QED
      BY <1>1, <2>2 DEF NoFixJob, TypeOK
  <1>3. UNCHANGED <<scans, scan>> /\ Startable(s)
    BY DEF StartFixAll
  <1>4. Running(j)' /\ ~Running(j) /\ \A k \in JobIds : k # j => Running(k)' = Running(k)
    BY <1>2 DEF Running
  <1>5. RunningJobs = {k \in JobIds : Running(k)}
    BY DEF RunningJobs, StoresKept, LiveEntriesKept, TypeOK
  <1>6. {k \in JobIds : Running(k)}' = RunningJobs \union {j}
    BY <1>4, <1>5
  <1>7. /\ Cardinality(RunningJobs \union {j}) = Cardinality(RunningJobs) + 1
        /\ Cardinality(RunningJobs) \in Nat /\ RunningJobs \union {j} \in SUBSET JobIds
    <2>1. RunningJobs \in SUBSET JobIds /\ j \notin RunningJobs
      BY <1>4, <1>5
    <2>2. IsFiniteSet(RunningJobs) /\ Cardinality(RunningJobs) \in Nat
      BY <2>1, PartsFinite
    <2>3. Cardinality(RunningJobs \union {j}) = Cardinality(RunningJobs) + 1
      BY <2>1, <2>2, FS_AddElement
    <2>4. QED
      BY <2>1, <2>2, <2>3
  <1>8. Cardinality(RunningJobs \union {j}) <= MAX_CONCURRENT_FIX_JOBS
    BY <1>3, <1>7, BoundAssumption DEF Startable
  <1>9. RunningBounded'
    <2> SUFFICES ASSUME NEW i \in RunningJobs \union {j}, NEW k \in RunningJobs \union {j},
                        job'[i].scan = job'[k].scan
                 PROVE  i = k
      BY <1>6, <1>8 DEF RunningBounded
    <2>1. \A m \in RunningJobs : m \in JobIds /\ m # j /\ job'[m].scan = job[m].scan /\ job[m].scan # s
      BY <1>2, <1>3, <1>4, <1>5 DEF Startable
    <2>2. \A m, n \in RunningJobs : job[m].scan = job[n].scan => m = n
      BY <1>5 DEF StoresKept, RunningBounded
    <2>3. QED
      BY <1>2, <2>1, <2>2
  <1>10. /\ jobs' \subseteq jobs \union {j}
         /\ \A k \in jobs \union {j} : job'[k].status = "running" => k \in jobs'
         /\ Cardinality({k \in jobs' : job'[k].status # "running"}) <= MAX_RETAINED_FIX_JOBS
    <2>1. jobs \union {j} \in SUBSET JobIds
      BY DEF TypeOK
    <2>2. jobs' = EvictFixJobs(jobs \union {j}, job')
      BY <1>1
    <2>3. QED
      BY <2>1, <2>2, FixJobsEvicted, Zenon
  <1>11. LiveEntriesKept'
    BY <1>2, <1>3, <1>4, <1>10 DEF StoresKept, LiveEntriesKept, Running
  <1>12. Cardinality(jobs') <= MAX_RETAINED_FIX_JOBS + MAX_CONCURRENT_FIX_JOBS
    <2> DEFINE live == RunningJobs \union {j}
               over == {k \in jobs' : job'[k].status # "running"}
    <2>1. jobs' \in SUBSET (live \union over)
      <3>1. \A k \in JobIds : Running(k)' => k \in live
        BY <1>6
      <3>2. QED
        BY <1>10, <3>1 DEF Running, TypeOK
    <2>2. live \in SUBSET JobIds /\ over \in SUBSET JobIds
      BY <1>7 DEF TypeOK
    <2> HIDE DEF live, over
    <2>3. /\ IsFiniteSet(live) /\ IsFiniteSet(over) /\ IsFiniteSet(live \union over)
          /\ IsFiniteSet(live \intersect over)
      BY <2>2, PartsFinite, FS_Union, FS_Intersection, Zenon
    <2>4. Cardinality(live \union over)
            = Cardinality(live) + Cardinality(over) - Cardinality(live \intersect over)
      BY <2>3, FS_Union, Zenon
    <2>5. Cardinality(jobs') <= Cardinality(live \union over)
      BY <2>1, <2>3, FS_Subset, Zenon
    <2>6. /\ Cardinality(live) \in Nat /\ Cardinality(over) \in Nat
          /\ Cardinality(live \intersect over) \in Nat /\ Cardinality(jobs') \in Nat
      BY <2>1, <2>2, <2>3, FS_Subset, FS_CardinalityType, Zenon
    <2>7. Cardinality(live) <= MAX_CONCURRENT_FIX_JOBS /\ Cardinality(over) <= MAX_RETAINED_FIX_JOBS
      BY <1>8, <1>10 DEF live, over
    <2>8. QED
      <3>1. Cardinality(live \union over) \in Int /\ MAX_RETAINED_FIX_JOBS \in Nat
            /\ MAX_CONCURRENT_FIX_JOBS \in Nat
        BY <2>4, <2>6, BoundAssumption
      <3>2. QED
        BY <2>4, <2>5, <2>6, <2>7, <3>1
  <1>13. StoresKept'
    BY <1>3, <1>9, <1>11, <1>12 DEF StoresKept
  <1>14. KeysHeld'
    <2>1. \A k \in JobIds : Completed(k)' => Completed(k) /\ k # j
      BY <1>2 DEF Completed
    <2>2. QED
      BY <1>2, <1>3, <1>4, <2>1 DEF KeysHeld
  <1>15. QED
    BY <1>13, <1>14

\* A job that completes takes the key, so none that used it may have completed before.
LEMMA JobEnds ==
  ASSUME TypeOK, KnownIds, StoresKept, KeysHeld, NEW j \in JobIds,
         EndFixJob(j) \/ CancelEnds(j)
  PROVE  StoresKept' /\ KeysHeld'
  <1>1. /\ Running(j) /\ UNCHANGED <<scans, jobs, stream>>
        /\ \A k \in JobIds : k # j => job'[k] = job[k]
        /\ job'[j].scan = job[j].scan /\ job'[j].usesKey = job[j].usesKey
        /\ job'[j].status \in {"complete", "failed", "cancelled"}
        /\ job'[j].status = "complete" => scan' = [scan EXCEPT ![job[j].scan].key = FALSE]
        /\ job'[j].status # "complete" => scan' = scan
    <2>1. job[j] \in FixJob
      BY DEF TypeOK
    <2>2. QED
      BY <2>1 DEF EndFixJob, CancelEnds, FixJob, TypeOK
  <1>2. ~Running(j)' /\ \A k \in JobIds : k # j => Running(k)' = Running(k)
    BY <1>1 DEF Running
  <1>3. /\ \A s \in ScanIds : scan'[s].status = scan[s].status /\ scan'[s].report = scan[s].report
        /\ \A s \in ScanIds : s # job[j].scan => scan'[s] = scan[s]
        /\ \A s \in ScanIds : scan'[s].key => scan[s].key
        /\ Completed(j)' => job[j].scan \in ScanIds /\ ~scan'[job[j].scan].key
    <2>1. scan \in [ScanIds -> Scan] /\ \A s \in ScanIds : scan[s] \in Scan
      BY DEF TypeOK
    <2>2. job[j].scan \in ScanIds
      BY <1>1 DEF KnownIds, EntriesKnown, StreamsKnown, Running
    <2>3. CASE job'[j].status = "complete"
      BY <1>1, <2>1, <2>2, <2>3 DEF Scan
    <2>4. CASE job'[j].status # "complete"
      BY <1>1, <2>4 DEF Completed
    <2>5. QED
      BY <2>3, <2>4
  <1>4. StoresKept'
    BY <1>1, <1>2, <1>3, FewerRunning
  <1>5. ASSUME NEW k \in JobIds, k # j, Running(k)
        PROVE  job[k].scan \in ScanIds /\ job[k].scan # job[j].scan
    BY <1>1, <1>5 DEF StoresKept, RunningBounded, KnownIds, EntriesKnown, StreamsKnown, Running
  <1>6. /\ \A k \in JobIds : k # j => Completed(k)' = Completed(k)
        /\ \A k \in JobIds : Completed(k) => job[k].scan \in ScanIds
    BY <1>1 DEF Completed, KnownIds, EntriesKnown, StreamsKnown
  <1>7. ASSUME Completed(j)', job[j].usesKey, NEW k \in JobIds, k # j, Completed(k)
        PROVE  job[k].scan # job[j].scan
    BY <1>1, <1>7 DEF KeysHeld
  <1>8. \A s \in ScanIds : scan'[s].key =>
          scan'[s].status \in {"pending", "running"} \/ scan'[s].report = "findings"
    BY <1>3 DEF KeysHeld
  <1>9. \A k \in JobIds : Completed(k)' => ~scan'[job'[k].scan].key
    BY <1>1, <1>3, <1>6 DEF KeysHeld
  <1>10. \A k \in JobIds : Running(k)' /\ job'[k].usesKey => scan'[job'[k].scan].key
    BY <1>1, <1>2, <1>3, <1>5 DEF KeysHeld
  <1>11. \A i, k \in JobIds :
           /\ Completed(i)' /\ job'[i].usesKey /\ Completed(k)' /\ job'[k].usesKey
           /\ job'[i].scan = job'[k].scan
           => i = k
    BY <1>1, <1>6, <1>7 DEF KeysHeld
  <1>12. QED
    BY <1>4, <1>8, <1>9, <1>10, <1>11 DEF KeysHeld

-----------------------------------------------------------------------------
(* The entries and the streams. *)

\* A quiet step leaves the entries known.
LEMMA EntriesStay ==
  ASSUME TypeOK, EntriesKnown, UNCHANGED Settings, SameJobs
  PROVE  EntriesKnown'
  BY DEF EntriesKnown, Settings, SameJobs, TypeOK

\* A scan that starts, runs or ends is known.
LEMMA ScanEntries ==
  ASSUME TypeOK, TypeOK', EntriesKnown, NEW s \in ScanIds, StartScan \/ ScanStep(s) \/ EndScan(s)
  PROVE  EntriesKnown'
  <1>1. PICK k \in ScanIds :
          /\ ScanMoves(k) /\ scan'[k].status # "none" /\ scans' \subseteq scans \union {k}
          /\ scan'[k].report # "none" => scan'[k].status = "complete"
    <2>1. CASE StartScan
      <3>1. PICK k \in ScanIds :
              /\ ScanMoves(k) /\ scan[k].status = "none"
              /\ scan'[k].status = "pending" /\ scan'[k].report = "none"
              /\ scans' = EvictScans(scans \union {k}, scan')
        BY <2>1, StartScanMoves
      <3>2. scans \union {k} \in SUBSET ScanIds
        BY DEF TypeOK
      <3>3. scans' \subseteq scans \union {k}
        BY <3>1, <3>2, ScansEvicted, Zenon
      <3>4. QED
        BY <3>1, <3>3
    <2>2. CASE ScanStep(s)
      BY <2>2, ScanStepsMove DEF ScanStep, EntriesKnown, ScanEnded
    <2>3. CASE EndScan(s)
      <3>1. scans \in SUBSET ScanIds /\ scans' = EvictScans(scans, scan')
        BY <2>3 DEF EndScan, TypeOK
      <3>2. scans' \subseteq scans
        BY <3>1, ScansEvicted, Zenon
      <3>3. scan[s].report = "none"
        BY <2>3 DEF EndScan, EntriesKnown
      <3>4. QED
        BY <2>3, <3>2, <3>3, ScanStepsMove
    <2>4. QED
      BY <2>1, <2>2, <2>3
  <1>2. \A m \in ScanIds : scan[m].status \in {"complete", "failed"} => scan'[m] = scan[m]
    BY <1>1 DEF ScanMoves, ScanEnded
  <1>3. jobs' = jobs /\ job' = job /\ \A m \in ScanIds : m # k => scan'[m] = scan[m]
    BY <1>1 DEF ScanMoves
  <1>4. \A m \in scans' : scan'[m].status # "none"
    BY <1>1, <1>3 DEF EntriesKnown, TypeOK
  <1>5. QED
    BY <1>1, <1>2, <1>3, <1>4 DEF EntriesKnown

\* A job is started for a complete scan, and its end changes no status of a scan.
LEMMA JobEntries ==
  ASSUME TypeOK, EntriesKnown,
         \/ \E s \in ScanIds : StartFixAll(s)
         \/ \E j \in JobIds : EndFixJob(j) \/ CancelEnds(j)
  PROVE  EntriesKnown'
  <1>0. scan \in [ScanIds -> Scan] /\ job \in [JobIds -> FixJob] /\ \A s \in ScanIds : scan[s] \in Scan
    BY DEF TypeOK
  <1>1. ASSUME NEW s \in ScanIds, StartFixAll(s)
        PROVE  EntriesKnown'
    <2>1. PICK j \in JobIds :
            /\ job' = [job EXCEPT ![j] = [NoFixJob EXCEPT !.status = "running", !.scan = s,
                                                          !.usesKey = scan[s].key]]
            /\ jobs' = EvictFixJobs(jobs \union {j}, job')
      BY <1>1 DEF StartFixAll
    <2>2. job'[j].status = "running" /\ job'[j].scan = s /\ \A k \in JobIds : k # j => job'[k] = job[k]
      BY <1>0, <2>1 DEF NoFixJob
    <2>3. jobs \union {j} \in SUBSET JobIds
      BY DEF TypeOK
    <2>4. jobs' \subseteq jobs \union {j}
      BY <2>1, <2>3, FixJobsEvicted, ZenonT(60)
    <2>5. UNCHANGED <<scans, scan>> /\ scan[s].status = "complete"
      BY <1>1 DEF StartFixAll, Startable, EntriesKnown
    <2>6. QED
      BY <2>2, <2>3, <2>4, <2>5 DEF EntriesKnown
  <1>2. ASSUME NEW j \in JobIds, EndFixJob(j) \/ CancelEnds(j)
        PROVE  EntriesKnown'
    <2>1. /\ \A k \in JobIds : job'[k].scan = job[k].scan
          /\ \A k \in JobIds : job[k].status # "none" <=> job'[k].status # "none"
          /\ UNCHANGED <<scans, jobs>>
      BY <1>0, <1>2 DEF EndFixJob, CancelEnds, Running, FixJob
    <2>2. scan' = scan \/ scan' = [scan EXCEPT ![job[j].scan].key = FALSE]
      BY <1>2 DEF EndFixJob, CancelEnds
    <2>3. \A s \in ScanIds : scan'[s].status = scan[s].status /\ scan'[s].report = scan[s].report
      BY <1>0, <2>2 DEF Scan
    <2>4. QED
      BY <2>1, <2>3 DEF EntriesKnown, TypeOK
  <1>3. QED
    BY <1>1, <1>2

\* Whatever the scans and the jobs do, what has ended stays as it is and only a new
\* job, nobody's yet, comes into the store.
Steady ==
  /\ UNCHANGED stream
  /\ \A s \in ScanIds : scan[s].status # "none" => scan'[s].status # "none"
  /\ \A s \in ScanIds : ScanEnded(scan[s]) =>
       ScanEnded(scan'[s]) /\ scan'[s].events = scan[s].events
  /\ \A j \in JobIds : job[j].status # "none" => job'[j].status # "none"
  /\ \A j \in JobIds : job[j].status # "none" /\ ~Running(j) =>
       ~Running(j)' /\ job'[j].events = job[j].events
  /\ \A j \in jobs' : \/ j \in jobs /\ job'[j].watchers = job[j].watchers
                      \/ j \in JobIds /\ job[j].status = "none" /\ job'[j].watchers = 0

\* The streams and the counts of watchers are right after a steady step.
LEMMA SteadyStreams ==
  ASSUME TypeOK, KnownIds, DoneMeansAll, Steady
  PROVE  StreamsKnown' /\ DoneMeansAll'
  <1>1. StreamsKnown'
    BY DEF KnownIds, StreamsKnown, Steady
  <1>2. \A j : Watching(j)' = Watching(j)
    BY DEF Watching, Streams, Steady
  <1>3. ASSUME NEW j \in jobs', ~(j \in jobs /\ job'[j].watchers = job[j].watchers)
        PROVE  Cardinality(Watching(j)) = 0 /\ job'[j].watchers = 0
    <2>1. j \in JobIds /\ job[j].status = "none" /\ job'[j].watchers = 0
      BY <1>3 DEF Steady
    <2>2. Watching(j) = {}
      BY <2>1 DEF Watching, Streams, KnownIds, StreamsKnown
    <2>3. QED
      BY <2>1, <2>2, FS_EmptySet
  <1>4. WatchersCounted'
    BY <1>2, <1>3 DEF DoneMeansAll, WatchersCounted
  <1>5. stream' = stream
    BY DEF Steady
  <1>6. ASSUME NEW c \in Clients, stream[c].pc = "done"
        PROVE  \/ /\ stream[c].on = "scan" /\ ScanEnded(scan'[stream[c].of])
                  /\ stream[c].idx = scan'[stream[c].of].events
               \/ /\ stream[c].on = "job" /\ job'[stream[c].of].status # "running"
                  /\ stream[c].idx = job'[stream[c].of].events
    <2>1. \/ /\ stream[c].on = "scan" /\ ScanEnded(scan[stream[c].of])
             /\ stream[c].idx = scan[stream[c].of].events
          \/ /\ stream[c].on = "job" /\ ~Running(stream[c].of)
             /\ stream[c].idx = job[stream[c].of].events
      BY <1>6 DEF DoneMeansAll
    <2>2. \/ stream[c].on = "scan" /\ stream[c].of \in ScanIds
          \/ /\ stream[c].on = "job" /\ stream[c].of \in JobIds
             /\ job[stream[c].of].status # "none"
      BY <1>6 DEF KnownIds, StreamsKnown
    <2>3. QED
      BY <2>1, <2>2 DEF Steady, Running
  <1>7. QED
    BY <1>1, <1>4, <1>5, <1>6 DEF DoneMeansAll, Running

\* All steps that are not of a stream are steady.
LEMMA ScanSteady ==
  ASSUME TypeOK, NEW s \in ScanIds, StartScan \/ ScanStep(s) \/ EndScan(s)
  PROVE  Steady
  <1>1. PICK k \in ScanIds : ScanMoves(k) /\ scan'[k].status # "none"
    BY ScanStepsMove, StartScanMoves
  <1>2. job' = job /\ jobs' = jobs /\ stream' = stream
    BY <1>1 DEF ScanMoves
  <1>3. \A m \in ScanIds : m # k => scan'[m] = scan[m]
    BY <1>1 DEF ScanMoves
  <1>4. QED
    BY <1>1, <1>2, <1>3 DEF Steady, ScanMoves, ScanEnded, Running

\* And those of the jobs and the timers.
LEMMA JobSteady ==
  ASSUME TypeOK,
         \/ \E s \in ScanIds : StartFixAll(s)
         \/ \E j \in JobIds : JobEvent(j) \/ EndFixJob(j) \/ CancelEnds(j) \/ CancelFixAll(j)
         \/ TimerFires
  PROVE  Steady
  <1>0. /\ job \in [JobIds -> FixJob] /\ scan \in [ScanIds -> Scan] /\ jobs \subseteq JobIds
        /\ \A s \in ScanIds : scan[s] \in Scan
        /\ \A j \in JobIds : job[j] \in FixJob
    BY DEF TypeOK
  <1>1. ASSUME NEW s \in ScanIds, StartFixAll(s)
        PROVE  Steady
    <2>1. PICK j \in JobIds :
            /\ \A k \in JobIds : (job[k].status = "none") <=> (k >= j)
            /\ job' = [job EXCEPT ![j] = [NoFixJob EXCEPT !.status = "running", !.scan = s,
                                                          !.usesKey = scan[s].key]]
            /\ jobs' = EvictFixJobs(jobs \union {j}, job')
      BY <1>1 DEF StartFixAll
    <2>2. job[j].status = "none"
      <3>1. j >= j
        BY BoundAssumption DEF JobIds
      <3>2. QED
        BY <2>1, <3>1
    <2>3. /\ job'[j].status = "running" /\ job'[j].watchers = 0
          /\ \A k \in JobIds : k # j => job'[k] = job[k]
      BY <1>0, <2>1 DEF NoFixJob
    <2>4. jobs \union {j} \in SUBSET JobIds
      BY <1>0
    <2>5. jobs' \subseteq jobs \union {j}
      BY <2>1, <2>4, FixJobsEvicted, ZenonT(60)
    <2>6. UNCHANGED <<scans, scan, stream>>
      BY <1>1 DEF StartFixAll
    <2>7. QED
      BY <1>0, <2>2, <2>3, <2>5, <2>6 DEF Steady, Running
  <1>2. ASSUME NEW j \in JobIds, UNCHANGED <<jobs, stream>>,
               job'[j].watchers = job[j].watchers, job'[j].status # "none",
               Running(j) \/ (job'[j].status = job[j].status /\ job'[j].events = job[j].events),
               \A k \in JobIds : k # j => job'[k] = job[k],
               \A s \in ScanIds : scan'[s].status = scan[s].status /\ scan'[s].events = scan[s].events
        PROVE  Steady
    BY <1>0, <1>2 DEF Steady, Running, ScanEnded
  <1>3. ASSUME NEW j \in JobIds, JobEvent(j)
        PROVE  Steady
    BY <1>0, <1>2, <1>3 DEF JobEvent, FixJob, Running
  <1>4. ASSUME NEW j \in JobIds, CancelEnds(j)
        PROVE  Steady
    BY <1>0, <1>2, <1>4 DEF CancelEnds, FixJob, Running
  <1>5. ASSUME NEW j \in JobIds, CancelFixAll(j)
        PROVE  Steady
    BY <1>0, <1>2, <1>5 DEF CancelFixAll, FixJob, Running
  <1>6. ASSUME NEW j \in JobIds, EndFixJob(j)
        PROVE  Steady
    <2>1. scan' = scan \/ scan' = [scan EXCEPT ![job[j].scan].key = FALSE]
      BY <1>6 DEF EndFixJob
    <2>2. \A s \in ScanIds : scan'[s].status = scan[s].status /\ scan'[s].events = scan[s].events
      BY <1>0, <2>1 DEF Scan
    <2>3. PICK end \in {"complete", "failed"} : job' = [job EXCEPT ![j].status = end]
      BY <1>6 DEF EndFixJob
    <2>4. /\ job'[j].watchers = job[j].watchers /\ job'[j].status # "none"
          /\ \A k \in JobIds : k # j => job'[k] = job[k]
      BY <1>0, <2>3 DEF FixJob
    <2>5. QED
      BY <1>2, <1>6, <2>2, <2>4 DEF EndFixJob
  <1>7. CASE TimerFires
    <2>1. CASE UNCHANGED job
      BY <1>0, <1>7, <2>1 DEF TimerFires, Steady, Running
    <2>2. CASE ~UNCHANGED job
      <3>1. PICK j \in JobIds : Running(j) /\ job' = [job EXCEPT ![j].cancelled = TRUE]
        BY <1>0, <1>7, <2>2 DEF TimerFires
      <3>2. UNCHANGED <<scan, jobs, stream>>
        BY <1>7 DEF TimerFires
      <3>3. QED
        BY <1>0, <1>2, <3>1, <3>2 DEF FixJob, Running
    <2>3. QED
      BY <2>1, <2>2
  <1>8. QED
    BY <1>1, <1>3, <1>4, <1>5, <1>6, <1>7

\* A watcher of a job in the store that leaves is not counted any more.
LEMMA WatcherLeaves ==
  ASSUME TypeOK, KnownIds, WatchersCounted, UNCHANGED jobs, NEW c \in Clients, Streams(c, "job"),
         NEW u, u.pc # "open", stream' = [stream EXCEPT ![c] = u], Unwatch(stream[c].of)
  PROVE  WatchersCounted'
  <1> DEFINE of == stream[c].of
  <1>1. of \in JobIds
    BY DEF KnownIds, StreamsKnown, Streams
  <1>2. \A d \in Clients : d # c => Streams(d, "job")' = Streams(d, "job") /\ stream'[d] = stream[d]
    BY DEF TypeOK, Streams
  <1>3. ~Streams(c, "job")'
    BY DEF TypeOK, Streams
  <1>4. \A j : Watching(j)' = Watching(j) \ {c}
    BY <1>2, <1>3 DEF Watching
  <1>5. \A j : j # of => c \notin Watching(j)
    BY DEF Watching
  <1>6. c \in Watching(of) /\ Watching(of) \in SUBSET Clients
    BY DEF Watching
  <1>7. IsFiniteSet(Watching(of)) /\ Cardinality(Watching(of)) \in Nat
    BY <1>6, PartsFinite
  <1>8. /\ Cardinality(Watching(of) \ {c}) = Cardinality(Watching(of)) - 1
        /\ Cardinality(Watching(of) \ {c}) \in Nat
    <2>1. IsFiniteSet(Watching(of) \ {c})
      BY <1>7, FS_RemoveElement
    <2>2. QED
      BY <1>6, <1>7, <2>1, FS_RemoveElement, FS_CardinalityType
  <1>9. SUFFICES ASSUME NEW j \in jobs
                 PROVE  job'[j].watchers = Cardinality(Watching(j) \ {c})
    BY <1>4 DEF WatchersCounted
  <1>10. j \in JobIds /\ job[j].watchers = Cardinality(Watching(j))
    BY DEF TypeOK, WatchersCounted
  <1>11. CASE j # of
    <2>1. Watching(j) \ {c} = Watching(j)
      BY <1>5, <1>11
    <2>2. job'[j] = job[j]
      BY <1>10, <1>11 DEF Unwatch, TypeOK
    <2>3. QED
      BY <1>10, <2>1, <2>2
  <1>12. CASE j = of
    <2>1. job[j].watchers # 0 /\ job[j].watchers - 1 = Cardinality(Watching(j) \ {c})
      BY <1>7, <1>8, <1>10, <1>12
    <2>2. job' = [job EXCEPT ![j].watchers = job[j].watchers - 1]
      BY <1>12, <2>1 DEF Unwatch
    <2>3. job[j] \in FixJob
      BY <1>10 DEF TypeOK
    <2>4. job'[j].watchers = job[j].watchers - 1
      BY <1>10, <2>2, <2>3 DEF FixJob, TypeOK
    <2>5. QED
      BY <2>1, <2>4
  <1>13. QED
    BY <1>11, <1>12

\* A watcher that comes is counted.
LEMMA WatcherComes ==
  ASSUME TypeOK, WatchersCounted, NEW c \in Clients, NEW j \in JobIds, StreamFixAll(c, j)
  PROVE  WatchersCounted'
  <1>0. /\ stream[c].pc = "idle" /\ j \in jobs /\ UNCHANGED jobs
        /\ stream' = [stream EXCEPT ![c] = Open("job", j)]
        /\ job' = [job EXCEPT ![j].watchers = @ + 1, ![j].seen = TRUE]
    BY DEF StreamFixAll
  <1>1. \A d \in Clients : d # c => Streams(d, "job")' = Streams(d, "job") /\ stream'[d] = stream[d]
    BY <1>0 DEF TypeOK, Streams
  <1>2. Streams(c, "job")' /\ stream'[c].of = j /\ ~Streams(c, "job")
    BY <1>0 DEF TypeOK, Streams, Open
  <1>3. Watching(j)' = Watching(j) \union {c} /\ c \notin Watching(j)
    BY <1>1, <1>2 DEF Watching
  <1>4. \A k : k # j => Watching(k)' = Watching(k)
    BY <1>1, <1>2 DEF Watching
  <1>5. Watching(j) \in SUBSET Clients
    BY DEF Watching
  <1>6. Cardinality(Watching(j) \union {c}) = Cardinality(Watching(j)) + 1
    BY <1>3, <1>5, PartsFinite, FS_AddElement
  <1>7. job[j] \in FixJob
    BY DEF TypeOK
  <1>8. job'[j].watchers = job[j].watchers + 1 /\ \A k \in JobIds : k # j => job'[k] = job[k]
    BY <1>0, <1>7 DEF FixJob, TypeOK
  <1>9. \A k \in jobs : k \in JobIds /\ job[k].watchers = Cardinality(Watching(k))
    BY DEF WatchersCounted, TypeOK
  <1>10. ASSUME NEW k \in jobs
         PROVE  job'[k].watchers = Cardinality(Watching(k)')
    <2>1. CASE k = j
      BY <1>3, <1>6, <1>8, <1>9, <2>1
    <2>2. CASE k # j
      BY <1>4, <1>8, <1>9, <2>2
    <2>3. QED
      BY <2>1, <2>2
  <1>11. QED
    BY <1>0, <1>10 DEF WatchersCounted

\* The connection of a client only changes by one of these.
LEMMA StreamKeeps ==
  ASSUME TypeOK, KnownIds, DoneMeansAll, NEW c \in Clients,
         \/ \E s \in ScanIds : StreamScan(c, s)
         \/ \E j \in JobIds : StreamFixAll(c, j)
         \/ StreamStep(c) \/ Disconnect(c)
  PROVE  StreamsKnown' /\ DoneMeansAll'
  <1> DEFINE t == stream[c]
  <1>0. /\ stream \in [Clients -> Stream] /\ t \in Stream
        /\ job \in [JobIds -> FixJob] /\ \A j \in JobIds : job[j] \in FixJob
    BY DEF TypeOK
  <1>1. UNCHANGED <<scans, scan, jobs>>
    BY DEF StreamScan, StreamFixAll, StreamStep, ScanStreamStep, FixStreamStep, Disconnect
  <1>2. \A j \in JobIds : job'[j].status = job[j].status /\ job'[j].events = job[j].events
    <2>1. ASSUME NEW j, Unwatch(j)
          PROVE  \A k \in JobIds : job'[k].status = job[k].status /\ job'[k].events = job[k].events
      <3> DEFINE left == IF job[j].watchers = 0 THEN 0 ELSE job[j].watchers - 1
      <3>1. UNCHANGED job \/ job' = [job EXCEPT ![j].watchers = left]
        BY <2>1 DEF Unwatch
      <3> HIDE DEF left
      <3>2. CASE UNCHANGED job
        BY <3>2
      <3>3. CASE job' = [job EXCEPT ![j].watchers = left]
        BY <1>0, <3>3 DEF FixJob
      <3>4. QED
        BY <3>1, <3>2, <3>3
    <2>2. ASSUME NEW j \in JobIds, StreamFixAll(c, j)
          PROVE  \A k \in JobIds : job'[k].status = job[k].status /\ job'[k].events = job[k].events
      BY <1>0, <2>2 DEF StreamFixAll, FixJob
    <2>3. QED
      BY <2>1, <2>2 DEF StreamScan, StreamStep, ScanStreamStep, FixStreamStep, Disconnect
  <1>3. \A d \in Clients : d # c => stream'[d] = stream[d]
    BY <1>0 DEF StreamScan, StreamFixAll, StreamStep, ScanStreamStep, FixStreamStep, Disconnect,
                Leave, Done
  <1> DEFINE Known(u, sc, jb) ==
               \/ u.on = "scan" /\ u.of \in ScanIds /\ sc[u.of].status # "none"
               \/ u.on = "job" /\ u.of \in JobIds /\ jb[u.of].status # "none"
             All(u, sc, jb) ==
               \/ u.on = "scan" /\ ScanEnded(sc[u.of]) /\ u.idx = sc[u.of].events
               \/ u.on = "job" /\ jb[u.of].status # "running" /\ u.idx = jb[u.of].events
  <1>4. stream'[c].pc # "idle" => Known(stream'[c], scan, job)
    <2>1. CASE \E s \in ScanIds : StreamScan(c, s)
      BY <1>0, <2>1 DEF StreamScan, Open, KnownIds, EntriesKnown
    <2>2. CASE \E j \in JobIds : StreamFixAll(c, j)
      BY <1>0, <2>2 DEF StreamFixAll, Open, KnownIds, EntriesKnown
    <2>3. CASE StreamStep(c) \/ Disconnect(c)
      <3>1. \/ stream'[c] = [t EXCEPT !.idx = t.idx + 1] \/ stream'[c] = [t EXCEPT !.pc = "done"]
            \/ stream'[c] = Idle
        BY <1>0, <2>3
           DEF StreamStep, ScanStreamStep, FixStreamStep, Disconnect, Leave, Done
      <3>2. t.pc # "idle"
        BY <2>3 DEF StreamStep, ScanStreamStep, FixStreamStep, Disconnect, Streams
      <3>3. Known(t, scan, job)
        BY <3>2 DEF KnownIds, StreamsKnown
      <3>4. stream'[c] = Idle \/ (stream'[c].on = t.on /\ stream'[c].of = t.of)
        <4>1. CASE stream'[c] = [t EXCEPT !.idx = t.idx + 1]
          BY <1>0, <4>1 DEF Stream
        <4>2. CASE stream'[c] = [t EXCEPT !.pc = "done"]
          BY <1>0, <4>2 DEF Stream
        <4>3. QED
          BY <3>1, <4>1, <4>2
      <3>5. QED
        BY <3>3, <3>4 DEF Idle
    <2>4. QED
      BY <2>1, <2>2, <2>3
  <1>5. stream'[c].pc = "done" => All(stream'[c], scan, job)
    <2>1. CASE (\E s \in ScanIds : StreamScan(c, s)) \/ (\E j \in JobIds : StreamFixAll(c, j))
      <3>1. PICK on \in {"scan", "job"}, id \in ScanIds \union JobIds : stream'[c] = Open(on, id)
        BY <1>0, <2>1 DEF StreamScan, StreamFixAll
      <3>2. QED
        BY <3>1 DEF Open
    <2>2. CASE ScanStreamStep(c)
      <3>1. Leave(c) => stream'[c].pc = "idle"
        BY <1>0 DEF Leave, Idle
      <3>2. stream' = [stream EXCEPT ![c].idx = @ + 1] => stream'[c].pc = t.pc
        BY <1>0 DEF Stream
      <3>3. Done(c) => stream'[c].on = t.on /\ stream'[c].of = t.of /\ stream'[c].idx = t.idx
        BY <1>0 DEF Stream, Done
      <3>4. QED
        BY <2>2, <3>1, <3>2, <3>3 DEF ScanStreamStep, Streams
    <2>3. CASE FixStreamStep(c)
      <3>1. Leave(c) => stream'[c].pc = "idle"
        BY <1>0 DEF Leave, Idle
      <3>2. stream' = [stream EXCEPT ![c].idx = @ + 1] => stream'[c].pc = t.pc
        BY <1>0 DEF Stream
      <3>3. Done(c) => stream'[c].on = t.on /\ stream'[c].of = t.of /\ stream'[c].idx = t.idx
        BY <1>0 DEF Stream, Done
      <3>4. QED
        BY <2>3, <3>1, <3>2, <3>3 DEF FixStreamStep, Streams
    <2>4. CASE Disconnect(c)
      BY <1>0, <2>4 DEF Disconnect, Leave, Idle
    <2>5. QED
      BY <2>1, <2>2, <2>3, <2>4 DEF StreamStep
  <1>6. StreamsKnown'
    <2> SUFFICES ASSUME NEW d \in Clients, stream'[d].pc # "idle"
                 PROVE  Known(stream'[d], scan', job')
      BY DEF StreamsKnown
    <2>1. Known(stream'[d], scan, job)
      BY <1>3, <1>4 DEF KnownIds, StreamsKnown
    <2>2. QED
      BY <1>1, <1>2, <2>1
  <1>7. \A d \in Clients : stream'[d].pc = "done" => All(stream'[d], scan', job')
    <2> SUFFICES ASSUME NEW d \in Clients, stream'[d].pc = "done"
                 PROVE  All(stream'[d], scan', job')
      OBVIOUS
    <2>1. All(stream'[d], scan, job)
      BY <1>3, <1>5 DEF DoneMeansAll, Running
    <2>2. stream'[d].on = "job" => stream'[d].of \in JobIds
      BY <1>6 DEF StreamsKnown
    <2>3. QED
      BY <1>1, <1>2, <2>1, <2>2
  <1>8. WatchersCounted'
    <2>1. WatchersCounted
      BY DEF DoneMeansAll
    <2>2. CASE \E j \in JobIds : StreamFixAll(c, j)
      BY <2>1, <2>2, WatcherComes
    <2>3. CASE Streams(c, "job") /\ Unwatch(t.of) /\ (Done(c) \/ Leave(c))
      <3>1. PICK u : u.pc # "open" /\ stream' = [stream EXCEPT ![c] = u]
        <4>1. CASE Leave(c)
          BY <4>1 DEF Leave, Idle
        <4>2. CASE Done(c)
          <5>1. stream' = [stream EXCEPT ![c] = [t EXCEPT !.pc = "done"]]
            BY <4>2 DEF Done
          <5>2. [t EXCEPT !.pc = "done"].pc # "open"
            BY <1>0 DEF Stream
          <5>3. QED
            BY <5>1, <5>2
        <4>3. QED
          BY <2>3, <4>1, <4>2
      <3>2. QED
        BY <1>1, <2>1, <2>3, <3>1, WatcherLeaves
    <2>4. CASE /\ UNCHANGED job
               /\ (Streams(c, "job")' <=> Streams(c, "job"))
               /\ Streams(c, "job") => stream'[c].of = t.of
      <3>1. \A d \in Clients : /\ (Streams(d, "job")' <=> Streams(d, "job"))
                               /\ Streams(d, "job") => stream'[d].of = stream[d].of
        BY <1>3, <2>4 DEF Streams
      <3>2. \A j : Watching(j)' = Watching(j)
        BY <3>1 DEF Watching
      <3>3. QED
        BY <1>1, <2>1, <2>4, <3>2 DEF WatchersCounted
    <2>5. ASSUME NEW s \in ScanIds, StreamScan(c, s)
          PROVE  UNCHANGED job /\ ~Streams(c, "job")' /\ ~Streams(c, "job")
      BY <1>0, <2>5 DEF StreamScan, Streams, Open
    <2>6. ASSUME Streams(c, "scan"),
                 Leave(c) \/ Done(c) \/ stream' = [stream EXCEPT ![c].idx = @ + 1]
          PROVE  ~Streams(c, "job")' /\ ~Streams(c, "job")
      BY <1>0, <2>6 DEF Streams, Leave, Done, Idle, Stream
    <2>7. ASSUME stream' = [stream EXCEPT ![c].idx = @ + 1]
          PROVE  (Streams(c, "job")' <=> Streams(c, "job")) /\ stream'[c].of = t.of
      BY <1>0, <2>7 DEF Streams, Stream
    <2>8. CASE ScanStreamStep(c)
      BY <2>4, <2>6, <2>8 DEF ScanStreamStep
    <2>9. CASE FixStreamStep(c)
      BY <2>3, <2>4, <2>7, <2>9 DEF FixStreamStep
    <2>10. CASE Disconnect(c)
      BY <2>3, <2>4, <2>6, <2>10 DEF Disconnect
    <2>11. QED
      BY <2>2, <2>4, <2>5, <2>8, <2>9, <2>10 DEF StreamStep
  <1>9. QED
    BY <1>6, <1>7, <1>8 DEF DoneMeansAll, Running

-----------------------------------------------------------------------------
(* The invariant and its consequences. *)

\* The invariant holds initially.
LEMMA InvInit == Init => IInv
  <1> SUFFICES ASSUME Init PROVE IInv
    OBVIOUS
  <1>1. /\ scans = {} /\ jobs = {}
        /\ \A s \in ScanIds : scan[s] = NoScan
        /\ \A j \in JobIds : job[j] = NoFixJob
        /\ \A c \in Clients : stream[c] = Idle
    BY DEF Init
  <1>2. \A j \in JobIds : ~Running(j) /\ ~Completed(j)
    BY <1>1 DEF Running, Completed, NoFixJob
  <1>3. TypeOK
    BY TypeInit
  <1>4. KnownIds
    BY <1>1 DEF KnownIds, EntriesKnown, StreamsKnown, NoScan, NoFixJob, Idle
  <1>5. {j \in JobIds : Running(j)} = {} /\ {s \in scans : ScanEnded(scan[s])} = {}
    BY <1>1, <1>2
  <1>6. Cardinality({j \in JobIds : Running(j)}) = 0
        /\ Cardinality({s \in scans : ScanEnded(scan[s])}) = 0 /\ Cardinality(jobs) = 0
    BY <1>1, <1>5, FS_EmptySet
  <1>7. StoresKept
    BY <1>1, <1>2, <1>6, BoundAssumption
       DEF StoresKept, RunningBounded, LiveEntriesKept, NoScan
  <1>8. KeysHeld
    BY <1>1, <1>2 DEF KeysHeld, NoScan
  <1>9. DoneMeansAll
    BY <1>1 DEF DoneMeansAll, WatchersCounted, Idle
  <1>10. QED
    BY <1>3, <1>4, <1>7, <1>8, <1>9 DEF IInv

\* Every step keeps the invariant.
LEMMA InvStep == IInv /\ [Next]_vars => IInv'
  <1> SUFFICES ASSUME IInv, [Next]_vars PROVE IInv'
    OBVIOUS
  <1>0. TypeOK /\ KnownIds /\ EntriesKnown /\ StreamsKnown /\ StoresKept /\ KeysHeld /\ DoneMeansAll
    BY DEF IInv, KnownIds
  <1>1. ASSUME NEW s \in ScanIds, StartScan \/ ScanStep(s) \/ EndScan(s)
        PROVE  IInv'
    <2>1. TypeOK'
      BY <1>0, <1>1, TypeScans
    <2>2. EntriesKnown'
      BY <1>0, <1>1, <2>1, ScanEntries
    <2>3. StreamsKnown' /\ DoneMeansAll'
      BY <1>0, <1>1, ScanSteady, SteadyStreams
    <2>4. StoresKept' /\ KeysHeld'
      <3>1. CASE StartScan
        <4>1. PICK k \in ScanIds :
                /\ ScanMoves(k) /\ scan'[k].status = "pending"
                /\ scans' = EvictScans(scans \union {k}, scan')
          BY <1>0, <3>1, StartScanMoves
        <4>2. scans \union {k} \in SUBSET ScanIds
          BY <1>0 DEF TypeOK
        <4>3. StoresKept'
          BY <1>0, <2>1, <4>1, <4>2, ScanMovesStores
        <4>4. KeysHeld'
          BY <1>0, <2>1, <4>1, ScanMovesKeeps
        <4>5. QED
          BY <4>3, <4>4
      <3>2. CASE ScanStep(s)
        <4>1. /\ ScanMoves(s) /\ scan'[s].status \in {"running", "complete", "failed"}
              /\ scan'[s].key => scan'[s].status = "running" \/ scan'[s].report = "findings"
          BY <1>0, <3>2, ScanStepsMove
        <4>2. KeysHeld'
          BY <1>0, <2>1, <4>1, ScanMovesKeeps
        <4>3. /\ scans' = scans /\ jobs' = jobs /\ job' = job /\ s \in scans
              /\ scan[s].status \in {"pending", "running"} /\ scan'[s].status = "running"
              /\ \A k \in ScanIds : k # s => scan'[k] = scan[k]
          <5>1. scan[s] \in Scan
            BY <1>0 DEF TypeOK
          <5>2. QED
            BY <1>0, <3>2, <5>1 DEF ScanStep, TypeOK, Scan
        <4>4. \A k \in scans : ScanEnded(scan'[k]) <=> ScanEnded(scan[k])
          BY <1>0, <4>3 DEF ScanEnded, TypeOK
        <4>5. {k \in scans' : ScanEnded(scan'[k])} = {k \in scans : ScanEnded(scan[k])}
          BY <4>3, <4>4
        <4>6. StoresKept'
          BY <1>0, <4>3, <4>5 DEF StoresKept, RunningBounded, LiveEntriesKept, Running
        <4>7. QED
          BY <4>2, <4>6
      <3>3. CASE EndScan(s)
        <4>1. /\ ScanMoves(s) /\ s \in scans
              /\ scan'[s].key => scan'[s].status = "running" \/ scan'[s].report = "findings"
          BY <1>0, <3>3, ScanStepsMove
        <4>2. scans' = EvictScans(scans, scan') /\ scans \in SUBSET ScanIds
          BY <1>0, <3>3 DEF EndScan, TypeOK
        <4>3. StoresKept'
          BY <1>0, <2>1, <4>1, <4>2, ScanMovesStores
        <4>4. KeysHeld'
          BY <1>0, <2>1, <4>1, ScanMovesKeeps
        <4>5. QED
          BY <4>3, <4>4
      <3>4. QED
        BY <1>1, <3>1, <3>2, <3>3
    <2>5. QED
      BY <2>1, <2>2, <2>3, <2>4 DEF IInv, KnownIds
  <1>2. ASSUME NEW s \in ScanIds, StartFixAll(s)
        PROVE  IInv'
    <2>1. TypeOK'
      BY <1>0, <1>2, TypeStartFixAll
    <2>2. EntriesKnown' /\ StreamsKnown' /\ DoneMeansAll'
      BY <1>0, <1>2, JobEntries, JobSteady, SteadyStreams
    <2>3. StoresKept' /\ KeysHeld'
      BY <1>0, <1>2, <2>1, StartFixAllKeeps
    <2>4. QED
      BY <2>1, <2>2, <2>3 DEF IInv, KnownIds
  <1>3. ASSUME NEW j \in JobIds, EndFixJob(j) \/ CancelEnds(j)
        PROVE  IInv'
    <2>1. TypeOK'
      BY <1>0, <1>3, TypeJobs
    <2>2. EntriesKnown' /\ StreamsKnown' /\ DoneMeansAll'
      BY <1>0, <1>3, JobEntries, JobSteady, SteadyStreams
    <2>3. StoresKept' /\ KeysHeld'
      BY <1>0, <1>3, JobEnds
    <2>4. QED
      BY <2>1, <2>2, <2>3 DEF IInv, KnownIds
  <1>4. ASSUME TypeOK', StreamsKnown', DoneMeansAll', UNCHANGED Settings, SameJobs
        PROVE  IInv'
    BY <1>0, <1>4, EntriesStay, QuietKeeps DEF IInv, KnownIds
  <1>5. ASSUME NEW j \in JobIds, JobEvent(j) \/ CancelFixAll(j)
        PROVE  IInv'
    <2>1. TypeOK'
      BY <1>0, <1>5, TypeJobs
    <2>2. StreamsKnown' /\ DoneMeansAll'
      BY <1>0, <1>5, JobSteady, SteadyStreams
    <2>3. QED
      BY <1>0, <1>4, <1>5, <2>1, <2>2, QuietSteps
  <1>6. ASSUME NEW c \in Clients,
               \/ \E s \in ScanIds : StreamScan(c, s)
               \/ \E j \in JobIds : StreamFixAll(c, j)
               \/ StreamStep(c) \/ Disconnect(c)
        PROVE  IInv'
    <2>1. TypeOK'
      BY <1>0, <1>6, TypeStreams
    <2>2. StreamsKnown' /\ DoneMeansAll'
      BY <1>0, <1>6, StreamKeeps
    <2>3. UNCHANGED Settings /\ SameJobs
      BY <1>0, <1>6, QuietSteps
    <2>4. QED
      BY <1>4, <2>1, <2>2, <2>3
  <1>7. CASE TimerFires
    <2>1. TypeOK'
      BY <1>0, <1>7, TypeTimerFires
    <2>2. StreamsKnown' /\ DoneMeansAll'
      BY <1>0, <1>7, JobSteady, SteadyStreams
    <2>3. QED
      BY <1>0, <1>4, <1>7, <2>1, <2>2, QuietSteps
  <1>8. CASE UNCHANGED vars
    <2>1. TypeOK' /\ StreamsKnown' /\ DoneMeansAll'
      BY <1>0, <1>8 DEF vars, TypeOK, StreamsKnown, DoneMeansAll, WatchersCounted, Watching,
                        Streams, Running
    <2>2. UNCHANGED Settings /\ SameJobs
      BY <1>8 DEF vars, Settings, SameJobs
    <2>3. QED
      BY <1>4, <2>1, <2>2
  <1>9. CASE StartScan
    <2>1. ScanIds # {}
      BY <1>9 DEF StartScan
    <2>2. QED
      BY <1>1, <1>9, <2>1
  <1>10. QED
    BY <1>1, <1>2, <1>3, <1>5, <1>6, <1>7, <1>8, <1>9 DEF Next

\* The inductive invariant holds in every reachable state.
THEOREM InvCorrect == Spec => []IInv
  BY InvInit, InvStep, PTL DEF Spec

\* The stores never hold more finished entries than they may, nor do more jobs run,
\* and no running scan or job is ever dropped from its store.
THEOREM StoresStayBounded == Spec => []StoresBounded
  <1>1. IInv => StoresBounded
    BY DEF IInv, StoresKept, StoresBounded
  <1>2. QED
    BY <1>1, InvCorrect, PTL

\* The key of a request is forgotten once no fix-all may need it, and one job at most
\* that completed has used it.
THEOREM KeysForgotten == Spec => []KeyForgotten
  <1>1. IInv => KeyForgotten
    <2> SUFFICES ASSUME IInv, NEW s \in ScanIds
                 PROVE  LET done == {j \in JobIds : job[j].scan = s /\ job[j].status = "complete"} IN
                        /\ scan[s].key => \/ scan[s].status \in {"pending", "running"}
                                          \/ scan[s].report = "findings" /\ done = {}
                        /\ Cardinality({j \in done : job[j].usesKey}) <= 1
      BY DEF KeyForgotten
    <2> DEFINE done == {j \in JobIds : job[j].scan = s /\ job[j].status = "complete"}
               used == {j \in done : job[j].usesKey}
    <2>1. scan[s].key => done = {}
      BY DEF IInv, KeysHeld, Completed
    <2>2. scan[s].key => scan[s].status \in {"pending", "running"} \/ scan[s].report = "findings"
      BY DEF IInv, KeysHeld
    <2>3. \A i, j \in used : i = j
      BY DEF IInv, KeysHeld, Completed
    <2>4. Cardinality(used) <= 1
      <3> HIDE DEF used
      <3>1. CASE used = {}
        BY <3>1, FS_EmptySet
      <3>2. CASE used # {}
        <4>1. PICK j \in used : used = {j}
          BY <2>3, <3>2
        <4>2. Cardinality(used) = 1
          BY <4>1, FS_Singleton, Zenon
        <4>3. QED
          BY <4>2
      <3>3. QED
        BY <3>1, <3>2
    <2>5. QED
      BY <2>1, <2>2, <2>4
  <1>2. QED
    BY <1>1, InvCorrect, PTL

\* A stream that says it is done has sent all, and every job in the store knows how
\* many streams it has.
THEOREM DoneStreamsSentAll == Spec => []DoneMeansAll
  <1>1. IInv => DoneMeansAll
    BY DEF IInv
  <1>2. QED
    BY <1>1, InvCorrect, PTL

\* The abandonment timer cancels no job that somebody watches.
THEOREM WatchedJobsSurvive == Spec => WatchedNotAbandoned
  <1> DEFINE Spared ==
        TimerFires => \A j \in JobIds : Watching(j) # {} => job'[j].cancelled = job[j].cancelled
  <1>1. IInv /\ [Next]_vars => [Spared]_vars
    <2> SUFFICES ASSUME IInv, TimerFires, NEW j \in JobIds, Watching(j) # {}
                 PROVE  job'[j].cancelled = job[j].cancelled
      OBVIOUS
    <2>1. Watching(j) \in SUBSET Clients
      BY DEF Watching
    <2>2. IsFiniteSet(Watching(j)) /\ Cardinality(Watching(j)) # 0
      BY <2>1, PartsFinite, FS_EmptySet, Zenon
    <2>3. j \in jobs => job[j].watchers # 0
      BY <2>2 DEF IInv, DoneMeansAll, WatchersCounted
    <2>4. job \in [JobIds -> FixJob]
      BY DEF IInv, TypeOK
    <2>5. CASE j = Head(timers)
      BY <2>3, <2>5 DEF TimerFires
    <2>6. CASE j # Head(timers)
      BY <2>4, <2>6 DEF TimerFires
    <2>7. QED
      BY <2>5, <2>6
  <1>2. QED
    BY <1>1, InvCorrect, PTL DEF Spec, WatchedNotAbandoned

=============================================================================
