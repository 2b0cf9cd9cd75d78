----------------------------- MODULE LSPClient ------------------------------
(***************************************************************************)
(* The language-server session of a scan: BaseLSPClient and                 *)
(* TypeScriptLSPClient of isitsecure/engine/code_analysis/lsp behind        *)
(* LanguageRoutingLSPClient, the LSP phases of DeepSecurityScanAgent, and   *)
(* the requests AuthFlowTracer makes to disprove "missing auth" findings.   *)
(*                                                                          *)
(* A file stands for its one flagged route.  A route is guarded or not, and *)
(* the definition of its guard may be reached through aliases, each of      *)
(* which takes a request.  What the client writes reaches the server at     *)
(* once, since the server may take its time to answer; what the server      *)
(* writes goes through a pipe.  An action is what happens between two       *)
(* awaits: opening a file and sending a request have none between them.     *)
(***************************************************************************)
EXTENDS Integers, Sequences, FiniteSets

CONSTANTS
  Files,           \* the traced files, one flagged route in each
  Aliases,         \* file -> aliases between its route and the guard of the route
  Procedures,      \* those whose route is a procedure over an imported, trusted base
  Batchings,       \* how trace_routes may batch them: sequences of sets
  MaxOpen,         \* MAX_FILES_TO_OPEN
  Retries,         \* PROJECT_LOAD_RETRIES
  MaxHops,         \* MAX_TRACE_DEPTH
  MaxPipe,         \* bound on the messages on their way from the server
  MaxServerAsks,   \* bound on the requests the server makes of the client
  Faults           \* what may go wrong, among AllFaults

AllFaults ==
  {"absent",       \* no server for this language, or it cannot be spawned
   "crash",        \* the server exits by itself
   "broken",       \* it writes what the reader cannot decode
   "refuse",       \* it answers a request with an error or with null
   "stop"}         \* the consumer stops the scan

ASSUME SessionAssumption ==
  /\ Batchings \subseteq Seq((SUBSET Files) \ {{}})
  /\ \A bs \in Batchings : UNION {bs[i] : i \in 1 .. Len(bs)} = Files
  /\ Aliases \in [Files -> Nat] /\ Procedures \subseteq Files
  /\ MaxOpen \in Nat /\ Retries \in Nat \ {0} /\ MaxHops \in Nat \ {0}
  /\ MaxPipe \in Nat /\ MaxServerAsks \in Nat
  /\ Faults \subseteq AllFaults

VARIABLES
  guarded,    \* the files whose route is guarded
  agent,      \* the scan, as far as it drives the session
  client,     \* the client object
  tracer,     \* file -> its _trace_file task
  findings,   \* files whose "missing auth" finding is still reported
  server,     \* the process
  pipe        \* what it wrote and the reader has not read

vars == <<guarded, agent, client, tracer, findings, server, pipe>>

Greeting == [doc |-> "initialize", hop |-> 0]
Goodbye == [doc |-> "shutdown", hop |-> 0]
Definition(f, h) == [doc |-> f, hop |-> h]     \* textDocument/definition
Asks == {Greeting, Goodbye} \union {Definition(f, h) : f \in Files, h \in 0 .. MaxHops}
Docs == Files \union {"library"}               \* the aliases live in one more file
DocOf(f, h) == IF h = 0 THEN f ELSE "library"

Agent ==
  [pc : {"init", "settling", "greeting", "scan", "trace", "rest", "cleanup",
         "closing", "bye", "reaping", "done"},
   then : {"scan", "done"},       \* where a shutdown returns to
   batches : Seq(SUBSET Files),   \* those not traced yet, the one in hand first
   initialized : BOOLEAN,         \* ctx.lsp_initialized
   started : BOOLEAN,             \* agent._lsp_started
   cut : BOOLEAN]                 \* history: a start or a clean-up was cancelled
Future == [st : {"waiting", "value", "none"}, to : Asks, unresolved : BOOLEAN]
\* The client object, with a future for each of the ids.
Client(ids) ==
  [held : BOOLEAN,                \* _process is not None
   reader : {"none", "reading", "ended", "cancelled"},
   initialized : BOOLEAN,
   request_id : Nat,
   opened : SUBSET Docs,
   pending : [ids -> Future]]
Tracer ==
  [st : {"queued", "ready", "waiting", "backoff", "auth", "noauth", "cancelled"},
   id : Nat, hop : 0 .. MaxHops - 1, tries : 0 .. Retries - 1]
Request == [id : Nat, ask : Asks, known : BOOLEAN]
Server ==
  [up : BOOLEAN, loaded : BOOLEAN, asks : 0 .. MaxServerAsks, todo : SUBSET Request]
Sent == [kind : {"message", "broken", "eof"}, id : Nat, future : Future]

Waiting == [st |-> "waiting", to |-> Goodbye, unresolved |-> FALSE]
Nothing == [st |-> "none", to |-> Goodbye, unresolved |-> FALSE]
Value(to, unresolved) == [st |-> "value", to |-> to, unresolved |-> unresolved]

TypeOK ==
  /\ guarded \subseteq Files
  /\ agent \in Agent
  /\ DOMAIN client.pending \subseteq Nat
  /\ client \in Client(DOMAIN client.pending)
  /\ tracer \in [Files -> Tracer]
  /\ findings \subseteq Files
  /\ server \in Server
  /\ pipe \in Seq(Sent)

NewTracer == [st |-> "queued", id |-> 0, hop |-> 0, tries |-> 0]

Init ==
  /\ guarded \in SUBSET Files
  /\ \E bs \in Batchings :
       agent = [pc |-> "init", then |-> "scan", batches |-> bs, initialized |-> FALSE,
                started |-> FALSE, cut |-> FALSE]
  /\ client = [held |-> FALSE, reader |-> "none", initialized |-> FALSE,
               request_id |-> 0, pending |-> <<>>, opened |-> {}]
  /\ tracer = [f \in Files |-> NewTracer]
  /\ findings = Files
  /\ server = [up |-> FALSE, loaded |-> FALSE, asks |-> 0, todo |-> {}]
  /\ pipe = <<>>

-----------------------------------------------------------------------------
(* Requests: _send_request up to its await, and what follows it. *)

NextId(c) == c.request_id + 1

Asked(c, ask) ==
  [c EXCEPT !.request_id = NextId(c),
            !.pending = [i \in DOMAIN @ \union {NextId(c)} |->
                           IF i = NextId(c) THEN Waiting ELSE @[i]]]
Received(ask, known) ==
  IF server.up
    THEN [server EXCEPT !.todo =
            @ \union {[id |-> NextId(client), ask |-> ask, known |-> known]}]
    ELSE server

\* The `finally` of _send_request: however a request ends, its future is dropped.
Popped(c, ids) ==
  [c EXCEPT !.pending = [i \in DOMAIN @ \ ids |-> @[i]]]

Awaited(i) == client.pending[i]
HasEnded(i) == Awaited(i).st # "waiting"

\* _fail_pending: nobody is kept waiting for a reader that cannot go on.
FailPending(p) == [i \in DOMAIN p |-> IF p[i].st = "waiting" THEN Nothing ELSE p[i]]

-----------------------------------------------------------------------------
(* _read_responses *)

Read ==
  /\ client.reader = "reading"
  /\ pipe # <<>>
  /\ LET m == Head(pipe) IN
     /\ pipe' = IF m.kind = "message" THEN Tail(pipe) ELSE <<>>
     /\ client' =
         CASE m.kind = "eof" -> [client EXCEPT !.reader = "ended"]
           [] m.kind = "broken" ->
                [client EXCEPT !.reader = "ended", !.pending = FailPending(@)]
           [] m.kind = "message" /\ m.id \in DOMAIN client.pending
                /\ client.pending[m.id].st = "waiting" ->
                [client EXCEPT !.pending[m.id] = m.future]
           [] OTHER -> client
  /\ UNCHANGED <<guarded, agent, tracer, findings, server>>

-----------------------------------------------------------------------------
(* The server: modelled from how the client uses it. *)

\* What it writes before or after the requests of the scan is left out.
Heard == client.reader = "reading" /\ agent.pc \in {"greeting", "scan", "trace"}
Free == Heard /\ Len(pipe) < MaxPipe
Write(m) == pipe' = IF Heard THEN Append(pipe, m) ELSE pipe
Message(id, future) == [kind |-> "message", id |-> id, future |-> future]
Broken == [kind |-> "broken", id |-> 0, future |-> Nothing]
Eof == [kind |-> "eof", id |-> 0, future |-> Nothing]

\* It answers truthfully, but before it has loaded the project it points at the
\* import statement instead of the declaration.  It knows no file it was not shown.
Reply(r, t) ==
  /\ server.up /\ Free
  /\ server' = [server EXCEPT !.todo = @ \ {r}]
  /\ Write(Message(r.id, t))
  /\ UNCHANGED <<guarded, agent, client, tracer, findings>>
Answer == \E r \in server.todo :
  Reply(r, IF r.known THEN Value(r.ask, r.ask.doc \in Files /\ ~ server.loaded)
                      ELSE Nothing)
Refuse == "refuse" \in Faults /\ \E r \in server.todo : Reply(r, Nothing)

Load ==
  /\ server.up /\ ~ server.loaded /\ Heard
  /\ server' = [server EXCEPT !.loaded = TRUE]
  /\ UNCHANGED <<guarded, agent, client, tracer, findings, pipe>>

\* A request of its own (workspace/configuration, client/registerCapability)
\* under an id of its own, which the client may be using too: the reader takes it
\* for an answer without result.  Others are skipped, as notifications are.
AskClient ==
  /\ server.up /\ server.asks < MaxServerAsks /\ Free
  /\ server' = [server EXCEPT !.asks = @ + 1]
  /\ \E i \in DOMAIN client.pending \union {client.request_id + 1} : Write(Message(i, Nothing))
  /\ UNCHANGED <<guarded, agent, client, tracer, findings>>

Garble ==
  /\ "broken" \in Faults /\ server.up /\ Free
  /\ Broken \notin {pipe[i] : i \in 1 .. Len(pipe)}
  /\ Write(Broken)
  /\ UNCHANGED <<guarded, agent, client, tracer, findings, server>>

Exited == server' = [server EXCEPT !.up = FALSE, !.todo = {}] /\ Write(Eof)
Exit ==
  /\ server.up
  /\ "crash" \in Faults \/ agent.pc = "reaping"    \* told to exit, or SIGTERM
  /\ Exited
  /\ UNCHANGED <<guarded, agent, client, tracer, findings>>

-----------------------------------------------------------------------------
(* A tracer: _trace_file of one file, down to the requests it makes. *)

InHand == Head(agent.batches)
Done(st) == [NewTracer EXCEPT !.st = st]
Verdict(yes) == IF yes THEN "auth" ELSE "noauth"
\* Nothing was found out: the import of a procedure's base is trusted nevertheless.
Untraced(f) == Done(Verdict(f \in Procedures))
OpenFile(c, d) ==
  IF d \in c.opened \/ Cardinality(c.opened) >= MaxOpen
    THEN c ELSE [c EXCEPT !.opened = @ \union {d}]

\* get_definition: without a session it answers None at once; it does so too
\* when shutdown has already dropped the process.
Ask(f) ==
  /\ agent.pc = "trace" /\ f \in InHand
  /\ tracer[f].st = "ready"
  /\ IF client.initialized /\ client.held
       THEN LET d == DocOf(f, tracer[f].hop)
                c == OpenFile(client, d)
                ask == Definition(f, tracer[f].hop)
            IN /\ client' = Asked(c, ask)
               /\ server' = Received(ask, d \in c.opened)
               /\ tracer' = [tracer EXCEPT ![f].st = "waiting", ![f].id = NextId(client)]
       ELSE tracer' = [tracer EXCEPT ![f] = Untraced(f)] /\ UNCHANGED <<client, server>>
  /\ UNCHANGED <<guarded, agent, findings, pipe>>

\* Until it is resolved, an answer is a line of imports: what follows it is no
\* declaration of the guard, but may look like one.
ImportLineIgnored(a) == FALSE                 \* slip: the block there is read
IsImportLine(a) == a.unresolved
ShowsGuard(a) == a.unresolved \/ a.to.doc \in guarded

AskOnceMore(t) == t.tries < Retries           \* slip: counts from zero
AskAgain(t) == t.tries + 1 < Retries          \* _resolve_definition

\* What is made of an answer: an unresolved one is asked again, an alias is followed,
\* and a body is searched for a guard.  For a procedure no alias is followed, and the
\* answer is of no consequence.
Answered(f) ==
  /\ tracer[f].st = "waiting" /\ HasEnded(tracer[f].id)
  /\ client' = Popped(client, {tracer[f].id})
  /\ LET t == tracer[f]
         a == Awaited(t.id)
         again == a.st = "value" /\ a.unresolved /\ AskAgain(t)
     IN tracer' = [tracer EXCEPT ![f] =
          CASE again -> [t EXCEPT !.st = "backoff", !.tries = @ + 1]
            [] ~ again /\ (a.st = "none" \/ IsImportLine(a) \/ f \in Procedures) ->
                 Untraced(f)
            [] a.st = "value" /\ ~ a.unresolved /\ f \notin Procedures
                 /\ a.to.hop < Aliases[a.to.doc] ->
                 IF t.hop + 1 < MaxHops
                   THEN [t EXCEPT !.st = "ready", !.hop = @ + 1, !.tries = 0]
                   ELSE Untraced(f)
            [] OTHER -> Done(Verdict(ShowsGuard(a)))]
  /\ UNCHANGED <<guarded, agent, findings, server, pipe>>

TimedOutByServer(f) ==           \* slip: released by the reader only, no timeout
  /\ client.reader = "reading"
  /\ tracer[f].st = "waiting" /\ ~ HasEnded(tracer[f].id)
  /\ client' = Popped(client, {tracer[f].id})
  /\ tracer' = [tracer EXCEPT ![f] = Untraced(f)]
  /\ UNCHANGED <<guarded, agent, findings, server, pipe>>
TimedOut(f) ==
  /\ tracer[f].st = "waiting" /\ ~ HasEnded(tracer[f].id)
  /\ client' = Popped(client, {tracer[f].id})
  /\ tracer' = [tracer EXCEPT ![f] = Untraced(f)]
  /\ UNCHANGED <<guarded, agent, findings, server, pipe>>

BackedOff(f) ==
  /\ tracer[f].st = "backoff"
  /\ tracer' = [tracer EXCEPT ![f].st = "ready"]
  /\ UNCHANGED <<guarded, agent, client, findings, server, pipe>>

-----------------------------------------------------------------------------
(* The LSP phases of the scan, and initialize(). *)

Goto(pc) == agent' = [agent EXCEPT !.pc = pc]

\* No project language, no server for it, or it cannot be spawned.
NoServer ==
  /\ agent.pc = "init" /\ "absent" \in Faults
  /\ Goto("scan")
  /\ UNCHANGED <<guarded, client, tracer, findings, server, pipe>>

Spawn ==
  /\ agent.pc = "init"
  /\ Goto("settling")
  /\ client' = [client EXCEPT !.held = TRUE]
  /\ server' = [server EXCEPT !.up = TRUE]
  /\ UNCHANGED <<guarded, tracer, findings, pipe>>

\* After half a second the process must still be there.
ExitedAtOnce ==
  /\ agent.pc = "settling" /\ ~ server.up
  /\ Goto("scan")
  /\ UNCHANGED <<guarded, client, tracer, findings, server, pipe>>
Greet ==
  /\ agent.pc = "settling" /\ server.up
  /\ Goto("greeting")
  /\ client' = [Asked(client, Greeting) EXCEPT !.reader = "reading"]
  /\ server' = Received(Greeting, TRUE)
  /\ UNCHANGED <<guarded, tracer, findings, pipe>>

\* The first request has the first id.  A session that did not start is shut down.
GreetEndsOpen ==                 \* slip: gives up without shutdown()
  /\ agent.pc = "greeting" /\ HasEnded(1)
  /\ LET ok == Awaited(1).st = "value" IN
       /\ client' = [Popped(client, {1}) EXCEPT !.initialized = ok]
       /\ agent' = [agent EXCEPT !.pc = "scan", !.initialized = ok, !.started = ok]
  /\ UNCHANGED <<guarded, tracer, findings, server, pipe>>
GreetEnds ==
  /\ agent.pc = "greeting" /\ HasEnded(1)
  /\ LET ok == Awaited(1).st = "value" IN
       /\ client' = [Popped(client, {1}) EXCEPT !.initialized = ok]
       /\ agent' = [agent EXCEPT !.pc = IF ok THEN "scan" ELSE "closing",
                                !.initialized = ok, !.started = ok]
  /\ UNCHANGED <<guarded, tracer, findings, server, pipe>>

\* The wait_for around initialize() began before the one around its request and
\* is as long, so it is the one that fires; the router has no delegate yet.  While
\* shutdown() awaits the reader a cancellation is swallowed ("closing").
Initializing ==
  \/ agent.pc \in {"settling", "greeting"}
  \/ agent.pc \in {"bye", "reaping"} /\ agent.then = "scan"
CutOff(pc) ==
  /\ agent' = [agent EXCEPT !.pc = pc, !.cut = TRUE]
  /\ client' = Popped(client, DOMAIN client.pending)
InitTimesOut ==
  /\ Initializing /\ CutOff("scan")
  /\ UNCHANGED <<guarded, tracer, findings, server, pipe>>

Scanned ==
  /\ agent.pc = "scan"
  /\ agent' = [agent EXCEPT !.pc = IF agent.initialized THEN "trace" ELSE "rest",
                           !.then = "done"]
  /\ tracer' = [f \in Files |->
        IF agent.initialized /\ f \in InHand THEN [tracer[f] EXCEPT !.st = "ready"]
                                           ELSE tracer[f]]
  /\ UNCHANGED <<guarded, client, findings, server, pipe>>

Traced(f) == tracer[f].st \in {"auth", "noauth"}
NextBatch ==
  /\ agent.pc = "trace" /\ Len(agent.batches) > 1
  /\ \A f \in InHand : Traced(f)
  /\ agent' = [agent EXCEPT !.batches = Tail(@)]
  /\ tracer' = [f \in Files |->
        IF f \in agent.batches[2] THEN [tracer[f] EXCEPT !.st = "ready"] ELSE tracer[f]]
  /\ UNCHANGED <<guarded, client, findings, server, pipe>>

\* validate_with_lsp: a finding whose route has verified auth is suppressed.
Validate ==
  /\ agent.pc = "trace" /\ Len(agent.batches) = 1
  /\ \A f \in InHand : Traced(f)
  /\ findings' = {f \in findings : tracer[f].st # "auth"}
  /\ Goto("rest")
  /\ UNCHANGED <<guarded, client, tracer, server, pipe>>

\* The tracers are cancelled and awaited; what they had found is dropped.
CancelTracers ==
  /\ tracer' = [f \in Files |-> IF Traced(f) THEN tracer[f] ELSE Done("cancelled")]
  /\ client' = Popped(client, {tracer[f].id : f \in {g \in Files : tracer[g].st = "waiting"}})
TraceTimesOut ==
  /\ agent.pc = "trace"
  /\ CancelTracers
  /\ Goto("rest")
  /\ UNCHANGED <<guarded, findings, server, pipe>>

Finish ==
  /\ agent.pc = "rest"
  /\ Goto("cleanup")
  /\ UNCHANGED <<guarded, client, tracer, findings, server, pipe>>

\* The consumer stops the scan at any await or yield.  During the `finally` of scan()
\* this skips the rest of it, since shutdown() handles no CancelledError there.
CleaningUp ==
  \/ agent.pc = "cleanup"
  \/ agent.pc \in {"bye", "reaping"} /\ agent.then = "done"
Stop ==
  /\ "stop" \in Faults
  /\ \/ Initializing /\ CutOff("cleanup") /\ UNCHANGED tracer
     \/ CleaningUp /\ CutOff("done") /\ UNCHANGED tracer
     \/ agent.pc \in {"init", "scan", "rest"} /\ Goto("cleanup") /\ UNCHANGED <<client, tracer>>
     \/ agent.pc = "trace" /\ CancelTracers /\ Goto("cleanup")
  /\ UNCHANGED <<guarded, findings, server, pipe>>

\* The `finally` of scan().
Cleanup ==
  /\ agent.pc = "cleanup"
  /\ agent' = [agent EXCEPT !.pc = IF agent.started THEN "closing" ELSE "done",
                           !.then = "done"]
  /\ UNCHANGED <<guarded, client, tracer, findings, server, pipe>>

-----------------------------------------------------------------------------
(* shutdown() *)

\* The reader is cancelled first, then the server is asked to shut down.
CloseReader ==
  /\ agent.pc = "closing"
  /\ LET c == [client EXCEPT !.initialized = FALSE,
                             !.reader = IF @ = "reading" THEN "cancelled" ELSE @]
     IN client' = Asked(c, Goodbye)
  /\ pipe' = <<>>
  /\ server' = Received(Goodbye, TRUE)
  /\ Goto("bye")
  /\ UNCHANGED <<guarded, tracer, findings>>

\* Nobody reads any more, so the request ends by its timeout; `exit` and SIGTERM.
Bye ==
  /\ agent.pc = "bye" /\ ~ HasEnded(client.request_id)
  /\ client' = Popped(client, {client.request_id})
  /\ Goto("reaping")
  /\ UNCHANGED <<guarded, tracer, findings, server, pipe>>

\* It has exited, or it is killed after the timeout.
Reap ==
  /\ agent.pc = "reaping"
  /\ client' = [client EXCEPT !.held = FALSE, !.pending = <<>>]
  /\ Goto(agent.then)
  /\ IF server.up THEN Exited ELSE UNCHANGED <<server, pipe>>
  /\ UNCHANGED <<guarded, tracer, findings>>

-----------------------------------------------------------------------------
TracerStep(f) == Ask(f) \/ Answered(f) \/ TimedOut(f) \/ BackedOff(f)
ShutdownStep == CloseReader \/ Bye \/ Reap
AgentStep ==
  \/ NoServer \/ Spawn \/ ExitedAtOnce \/ Greet \/ GreetEnds \/ InitTimesOut
  \/ Scanned \/ NextBatch \/ Validate \/ Finish \/ Cleanup
  \/ ShutdownStep
ServerStep == Answer \/ Refuse \/ Load \/ AskClient \/ Garble \/ Exit
Next ==
  \/ AgentStep \/ TraceTimesOut \/ Read \/ ServerStep \/ Stop
  \/ \E f \in Files : TracerStep(f)

Spec == Init /\ [][Next]_vars

\* The event loop runs what is ready, and the timers of requests and of the
\* initialization fire.  Nothing is assumed of the server, which may hang, of the
\* consumer, nor of the timer around the whole of the tracing.
FairSpec ==
  /\ Spec
  /\ WF_vars(AgentStep) /\ WF_vars(Read)
  /\ \A f \in Files : WF_vars(TracerStep(f))

-----------------------------------------------------------------------------
(* Properties. *)

\* "A suppressed finding is a vulnerability the report no longer mentions"
\* (auth_flow_tracer.py): a "missing auth" finding disappears only if the server
\* resolved the guard of that very route, whatever was retried, timed out,
\* answered late, refused, or asked by the server under an id of the client.  The
\* code's exception is a procedure whose base is imported: the import is trusted.
SuppressedOnlyIfGuarded == Files \ findings \subseteq guarded \union Procedures

\* "Never leak the LSP subprocess" (agent.py): the server does not outlive the scan,
\* unless its start, or the clean-up itself, was cancelled.
ServerReaped == agent.pc = "done" /\ ~ agent.cut => ~ server.up

\* Every request ends by itself, so that the tracing and the session do, whether the
\* server answers, hangs or is gone.
SessionEnds == <>(agent.pc = "done")

\* Every pending future has someone who waits for it, whichever way requests ended:
\* so that shutdown(), which cancels what is pending, never cancels a tracer.
PendingIsAwaited ==
  DOMAIN client.pending =
    {tracer[f].id : f \in {g \in Files : tracer[g].st = "waiting"}}
      \union (IF agent.pc = "greeting" THEN {1} ELSE {})
      \union (IF agent.pc = "bye" THEN {client.request_id} ELSE {})

\* The types, and the client knows exactly the requests that are awaited.
ClientOK == TypeOK /\ PendingIsAwaited
============================================================================
