----------------------------- MODULE ScanRunner -----------------------------
(***************************************************************************)
(* How a scan runs its scanners: DeepSecurityScanAgent.scan and the phase   *)
(* runners of isitsecure/engine/agent.py over run_scanner_safe of           *)
(* engine/shared/scanner_runner.py, and the verdicts a later re-scan gives  *)
(* on the findings of an earlier one.                                       *)
(*                                                                          *)
(* A phase is of one of three kinds.  A "pool" launches its scanners        *)
(* concurrently and counts their completion markers in the progress queue;  *)
(* a "task" (endpoint discovery) is polled while its progress is relayed;   *)
(* a "plain" phase awaits one scanner.  Everything runs on one event loop:  *)
(* an action is what happens between two awaits.  The consumer of the       *)
(* stream may be cancelled while it waits for an event, and may close the   *)
(* stream while it holds one.                                               *)
(*                                                                          *)
(* A finding stands for the flaw it reports.  Phases that are skipped, that *)
(* abort the scan or that only look at findings are left out.               *)
(***************************************************************************)
EXTENDS Integers, Sequences, FiniteSets

CONSTANTS
  Scanners,       \* one task for each in a scan
  Phases,         \* the phases, in order: records of kind and of scanners
  Flaws,          \* what the scanners can find
  ScannerOf,      \* flaw -> the scanner that finds it
  Cooperative,    \* scanners that look at their TimeBudget
  Skipping,       \* scanners that list the work they skipped
  MaxEmits        \* scanner -> bound on its progress messages

Kinds == {"pool", "task", "plain"}

ASSUME ScanAssumption ==
  /\ Phases \in Seq([kind : Kinds, scanners : Seq(Scanners), reads_skipped : BOOLEAN])
  /\ \A p \in 1 .. Len(Phases) : Phases[p].kind # "pool" => Len(Phases[p].scanners) = 1
  /\ ScannerOf \in [Flaws -> Scanners]
  /\ Cooperative \subseteq Scanners /\ Skipping \subseteq Scanners
  /\ MaxEmits \in [Scanners -> Nat]

VARIABLES
  present,   \* the flaws that are in the scanned code
  driver,    \* the generator behind scan()
  queue,     \* reporter.queue
  worker,    \* scanner -> its task
  results,   \* scanner -> the findings it handed over
  errors     \* _scanner_errors, as the set of the scanners named in it

vars == <<present, driver, queue, worker, results, errors>>

Driver ==
  [pc : {"begin", "launch", "get", "told", "closing", "closed", "failed", "complete"},
   phase : 1 .. Len(Phases) + 1,
   at : Nat,              \* scanners announced, in "launch"
   done : Nat,            \* completion markers counted
   owned : BOOLEAN,       \* inside the try whose finally cancels the workers
   told : [Scanners -> Nat]]    \* history: "done" events of each scanner
Worker ==
  [st : {"new", "running", "expired", "cancelled", "returned", "raised"},
   found : SUBSET Flaws,  \* held by the scanner, lost unless it returns
   late : BOOLEAN,        \* past the cooperative deadline
   skipped : BOOLEAN,
   emits : Nat]
Message == [from : Scanners, done : BOOLEAN]     \* done: "_scanner_done"

NewWorker ==
  [st |-> "new", found |-> {}, late |-> FALSE, skipped |-> FALSE, emits |-> 0]

Init ==
  /\ present \in SUBSET Flaws
  /\ driver = [pc |-> "begin", phase |-> 1, at |-> 0, done |-> 0, owned |-> FALSE,
               told |-> [s \in Scanners |-> 0]]
  /\ queue = <<>>
  /\ worker = [s \in Scanners |-> NewWorker]
  /\ results = [s \in Scanners |-> {}]
  /\ errors = {}

Phase == Phases[driver.phase]
Members(p) == {Phases[p].scanners[i] : i \in 1 .. Len(Phases[p].scanners)}
Kind(s) == Phases[CHOOSE p \in 1 .. Len(Phases) : s \in Members(p)].kind

\* Each scanner has one place in one phase; discovery finds endpoints and no flaws; a
\* phase whose scanners list skipped work reads it (record_skipped_work).
ASSUME PlacementAssumption ==
  /\ \A s \in Scanners : \E p \in 1 .. Len(Phases) : s \in Members(p)
  /\ \A p, q \in 1 .. Len(Phases) :
       \A i \in 1 .. Len(Phases[p].scanners), j \in 1 .. Len(Phases[q].scanners) :
         Phases[p].scanners[i] = Phases[q].scanners[j] => p = q /\ i = j
  /\ \A f \in Flaws : Kind(ScannerOf[f]) # "task"
  /\ \A p \in 1 .. Len(Phases) : Members(p) \intersect Skipping # {} => Phases[p].reads_skipped

Ended(s) == worker[s].st \in {"returned", "raised"}
Active(s) == worker[s].st \in {"running", "expired", "cancelled"}
Over == driver.pc \in {"closed", "failed", "complete"}

-----------------------------------------------------------------------------
(* A scanner at work, under run_scanner_safe. *)

\* It reports progress, or finds a flaw that is there.
Emit(s) ==
  /\ worker[s].st = "running"
  /\ worker[s].emits < MaxEmits[s]
  /\ worker' = [worker EXCEPT ![s].emits = @ + 1]
  /\ queue' = Append(queue, [from |-> s, done |-> FALSE])
  /\ UNCHANGED <<present, driver, results, errors>>

Find(s) ==
  /\ worker[s].st = "running"
  /\ \E f \in present \ worker[s].found :
       /\ ScannerOf[f] = s
       /\ worker' = [worker EXCEPT ![s].found = @ \union {f}]
  /\ UNCHANGED <<present, driver, queue, results, errors>>

\* The end of the task: in a pool, the `finally` of _run hands the findings over
\* and posts the completion marker.
Marker(s) == IF Kind(s) = "pool" THEN <<[from |-> s, done |-> TRUE]>> ELSE <<>>
EndUnmarked(s, st, found, said) ==     \* slip: a marker only after the findings, no finally
  /\ worker' = [worker EXCEPT ![s].st = st, ![s].late = FALSE, ![s].emits = 0]
  /\ results' = [results EXCEPT ![s] = found]
  /\ queue' = IF st = "returned" THEN queue \o said \o Marker(s) ELSE queue \o said
  /\ UNCHANGED <<present, driver>>
End(s, st, found, said) ==
  /\ worker' = [worker EXCEPT ![s].st = st, ![s].late = FALSE, ![s].emits = 0]
  /\ results' = [results EXCEPT ![s] = found]
  /\ queue' = queue \o said \o Marker(s)
  /\ UNCHANGED <<present, driver>>

\* A scanner returns when it has looked everywhere, when its time budget is
\* spent, or having skipped work.  One that was asked to stop may still return.
LookedEverywhere(s) == \A f \in present : ScannerOf[f] = s => f \in worker[s].found
OutOfBudget(s) == s \in Cooperative /\ worker[s].late
Return(s) ==
  /\ Active(s)
  /\ LookedEverywhere(s) \/ OutOfBudget(s)
  /\ End(s, "returned", worker[s].found, <<>>)
  /\ UNCHANGED errors

Skip(s) ==
  /\ worker[s].st = "running"
  /\ s \in Skipping
  /\ ~ worker[s].skipped
  /\ worker' = [worker EXCEPT ![s].skipped = TRUE]
  /\ UNCHANGED <<present, driver, queue, results, errors>>
ReturnSkipped(s) ==
  /\ Active(s)
  /\ worker[s].skipped
  /\ End(s, "returned", worker[s].found, <<>>)
  /\ UNCHANGED errors

\* An ordinary exception is recorded, and nothing is handed over.  Endpoint
\* discovery does not run under run_scanner_safe: its exception stays its own.
Crash(s) ==
  /\ worker[s].st = "running"
  /\ IF Kind(s) = "task"
       THEN End(s, "raised", {}, <<>>) /\ UNCHANGED errors
       ELSE End(s, "returned", {}, <<>>) /\ errors' = errors \union {s}

\* Time passes: first the cooperative deadline, then the hard timeout, at which
\* wait_for cancels the scanner; what it found is lost, which is said and recorded.
DeadlinePasses(s) ==
  /\ worker[s].st = "running" /\ Kind(s) # "task"
  /\ ~ worker[s].late
  /\ worker' = [worker EXCEPT ![s].late = TRUE]
  /\ UNCHANGED <<present, driver, queue, results, errors>>
HardTimeout(s) ==
  /\ worker[s].st = "running" /\ Kind(s) # "task"
  /\ worker[s].late
  /\ worker' = [worker EXCEPT ![s].st = "expired"]
  /\ UNCHANGED <<present, driver, queue, results, errors>>
TimedOut(s) ==
  /\ worker[s].st = "expired"
  /\ End(s, "returned", {}, <<[from |-> s, done |-> FALSE]>>)
  /\ errors' = errors \union {s}

\* A CancelledError, from task.cancel() or raised inside the scanner itself:
\* only _run records it.
Recorded(s) == IF Kind(s) = "pool" THEN {s} ELSE {}
Cancelled(s) ==
  /\ worker[s].st \in {"running", "cancelled"}
  /\ End(s, "raised", {}, <<>>)
  /\ errors' = errors \union Recorded(s)

-----------------------------------------------------------------------------
(* The generator. *)

Go(pc) == [driver EXCEPT !.pc = pc]
Start(s) == [worker EXCEPT ![s].st = "running"]
NextPhase == [Go("begin") EXCEPT !.phase = @ + 1]

Reset(d) == [d EXCEPT !.at = 0, !.done = 0]
\* A phase begins. A pool with no scanner yields its empty result at once; the
\* first event of a pool is yielded before any of its scanners is started.
Begin ==
  /\ driver.pc = "begin"
  /\ driver.phase <= Len(Phases)
  /\ LET scanners == Phase.scanners IN
     IF Phase.kind = "pool"
       THEN /\ driver' = IF scanners = <<>> THEN NextPhase ELSE Reset(Go("launch"))
            /\ UNCHANGED worker
       ELSE /\ driver' = Go("get")
            /\ worker' = Start(scanners[1])
  /\ UNCHANGED <<present, queue, results, errors>>

\* The consumer asks for more after "running <scanner>...": the scanner starts.
Launch ==
  /\ driver.pc = "launch"
  /\ LET i == driver.at + 1 IN
     /\ worker' = Start(Phase.scanners[i])
     /\ driver' = IF i < Len(Phase.scanners) THEN [driver EXCEPT !.at = i]
                  ELSE [Go("get") EXCEPT !.owned = TRUE]
  /\ UNCHANGED <<present, queue, results, errors>>

\* The next message of the queue becomes an event.
AnyMessage(m) == m \in Message  \* slip: progress counts as a completion
IsMarker(m) == m.done
Get ==
  /\ driver.pc = "get"
  /\ Phase.kind = "pool" => driver.done < Len(Phase.scanners)
  /\ Phase.kind # "plain"
  /\ queue # <<>>
  /\ queue' = Tail(queue)
  /\ driver' = IF IsMarker(Head(queue))
                 THEN [Go("told") EXCEPT !.done = @ + 1, !.told[Head(queue).from] = @ + 1]
                 ELSE Go("told")
  /\ UNCHANGED <<present, worker, results, errors>>

\* The consumer asks for the next event.
Resume ==
  /\ driver.pc = "told"
  /\ driver' = Go("get")
  /\ UNCHANGED <<present, queue, worker, results, errors>>

\* All markers are counted and gather(return_exceptions=True) is through: the
\* SAST pool and the LLM review then read what their scanners skipped.
NoneSkipped == {}                \* slip: nobody reads what was skipped
Skipped == {s \in Members(driver.phase) : worker[s].skipped}
Gathered ==
  /\ driver.pc = "get"
  /\ Phase.kind = "pool"
  /\ driver.done >= Len(Phase.scanners)
  /\ \A s \in Members(driver.phase) : Ended(s)
  /\ driver' = [NextPhase EXCEPT !.owned = FALSE]
  /\ errors' = IF Phase.reads_skipped THEN errors \union Skipped ELSE errors
  /\ UNCHANGED <<present, queue, worker, results>>

\* What a task or a plain phase awaits has ended; if it raised, the scan raises.
Awaited ==
  /\ driver.pc = "get"
  /\ Phase.kind # "pool"
  /\ LET s == Phase.scanners[1] IN
     /\ Ended(s)
     /\ Phase.kind = "task" /\ worker[s].st = "returned" => queue = <<>>
     /\ driver' = IF worker[s].st = "returned" THEN NextPhase ELSE Go("failed")
     /\ errors' = IF Phase.reads_skipped /\ worker[s].st = "returned"
                    THEN errors \union Skipped ELSE errors
  /\ UNCHANGED <<present, queue, worker, results>>

\* After the last phase the report is compiled and yielded.
Complete ==
  /\ driver.pc = "begin"
  /\ driver.phase > Len(Phases)
  /\ driver' = Go("complete")
  /\ UNCHANGED <<present, queue, worker, results, errors>>

\* What is cancelled with the generator: the pool, if it is past its launch, or
\* the scanner a plain phase awaits.  Launched scanners and discovery are not.
OwnedAwaited ==                  \* slip: no finally around the drain
  IF Phase.kind = "plain"
    THEN {s \in Members(driver.phase) : worker[s].st \in {"running", "expired"}}
    ELSE {}
Owned ==
  IF driver.owned \/ Phase.kind = "plain"
    THEN {s \in Members(driver.phase) : worker[s].st \in {"running", "expired"}}
    ELSE {}
CancelWorkers(ss) ==
  worker' = [s \in Scanners |-> IF s \in ss THEN [worker[s] EXCEPT !.st = "cancelled"]
                                ELSE worker[s]]

\* The consumer's task is cancelled while the generator waits ...
CancelConsumer ==
  /\ driver.pc = "get"
  /\ CancelWorkers(Owned)
  /\ driver' = Go("closed")
  /\ UNCHANGED <<present, queue, results, errors>>

\* ... or it closes the stream instead of asking for more: the inner generators
\* are closed by the event loop, a little later.
Close ==
  /\ driver.pc \in {"launch", "told"}
  /\ driver' = Go("closing")
  /\ UNCHANGED <<present, queue, worker, results, errors>>
Finalize ==
  /\ driver.pc = "closing"
  /\ CancelWorkers(Owned)
  /\ driver' = Go("closed")
  /\ UNCHANGED <<present, queue, results, errors>>

Drive == Begin \/ Launch \/ Get \/ Resume \/ Gathered \/ Awaited \/ Complete \/ Finalize
Stop == Close \/ CancelConsumer
Work(s) ==
  \/ Emit(s) \/ Find(s) \/ Return(s) \/ Skip(s) \/ ReturnSkipped(s) \/ Crash(s)
  \/ DeadlinePasses(s) \/ HardTimeout(s) \/ TimedOut(s) \/ Cancelled(s)
Next == Drive \/ Stop \/ \E s \in Scanners : Work(s)

Spec == Init /\ [][Next]_vars

\* The event loop runs what is ready and its timers fire; the consumer keeps
\* reading until it stops.  A scanner may hang, but not once it is cancelled;
\* discovery, which has no timeout here, ends by its own.
FairSpec ==
  /\ Spec
  /\ WF_vars(Drive)
  /\ \A s \in Scanners :
       /\ WF_vars(DeadlinePasses(s)) /\ WF_vars(HardTimeout(s)) /\ WF_vars(TimedOut(s))
       /\ WF_vars(worker[s].st = "cancelled" /\ Cancelled(s))
       /\ WF_vars(Kind(s) = "task" /\ (Find(s) \/ Crash(s) \/ Return(s)))

-----------------------------------------------------------------------------
(* The report, and what a re-scan makes of it: verify, fix and the MCP verify *)
(* tool all treat an absent finding of a scanner that failed as unknown.      *)

Reported == UNION {results[s] : s \in {t \in Scanners : Kind(t) # "task"}}
Blocks(s) == s \in errors
Verdict(f) ==
  IF f \in Reported THEN "still-present"
  ELSE IF Blocks(ScannerOf[f]) THEN "could-not-verify" ELSE "fixed"

-----------------------------------------------------------------------------
(* Properties. *)

TypeOK ==
  /\ present \subseteq Flaws
  /\ driver \in Driver
  /\ driver.pc = "get" /\ Phase.kind = "pool" => driver.done <= Len(Phase.scanners)
  /\ queue \in Seq(Message)
  /\ worker \in [Scanners -> Worker]
  /\ results \in [Scanners -> SUBSET Flaws]
  /\ errors \subseteq Scanners

\* A scanner of a complete scan handed over all it had found, or the report's
\* scanner_errors names it: a timeout, a crash or a CancelledError never looks
\* like a clean result.
NoSilentLoss ==
  driver.pc = "complete" =>
    \A s \in Scanners \ errors : Kind(s) # "task" => results[s] = worker[s].found

\* "the verdict is could_not_verify, never fixed": a finding that a re-scan calls
\* fixed is gone, unless its scanner may stop at its time budget (verify does not
\* look at the findings of those).
VerdictHonest ==
  driver.pc = "complete" =>
    \A f \in present : Verdict(f) = "fixed" => ScannerOf[f] \in Cooperative

\* scanner_errors makes the verdict on the application "scan incomplete": it names
\* no scanner that did its whole work and handed its findings over.
NoFalseAlarm ==
  \A s \in errors : ~ worker[s].skipped => Ended(s) /\ results[s] = {}

\* Each scanner of a pool is announced as done once, before the next phase begins:
\* no progress message counts as a completion and no marker is left for the next pool.
NarratedOnce ==
  \A p \in 1 .. Len(Phases) : \A s \in Members(p) :
    /\ driver.told[s] <= 1
    /\ driver.told[s] = 1 => Kind(s) = "pool" /\ p <= driver.phase
    /\ Kind(s) = "pool" /\ p < driver.phase => driver.told[s] = 1

\* What a scan says of its scanners is true: none is lost without a word, none is
\* blamed that did its work, each is announced once (run_scanner_safe, _drain_progress).
ReportTrue == TypeOK /\ NoSilentLoss /\ NoFalseAlarm /\ NarratedOnce

\* "If the consumer is cancelled mid-drain, don't leak the workers": once the stream
\* was stopped while a pool was drained, no scanner finds or reports anything more.
QuietAfterStop ==
  [][driver.pc = "closed" /\ driver.owned =>
       \A s \in Scanners : /\ worker'[s].found = worker[s].found
                           /\ worker'[s].emits <= worker[s].emits]_vars

\* "the drain loop cannot wait forever": whatever the scanners do, a scan ends.
ScanEnds == <>Over

=============================================================================
