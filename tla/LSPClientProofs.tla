--------------------------- MODULE LSPClientProofs ----------------------------
(***************************************************************************)
(* Proofs about LSPClient for any number of files, batches, aliases, tries *)
(* and messages, and any behaviour of the server.                          *)
(***************************************************************************)
EXTENDS LSPClient, TLAPS

-----------------------------------------------------------------------------
(* The inductive invariant. *)

\* Only a tracer of the batch in hand is at work.
TracersPlaced ==
  \A f \in Files : tracer[f].st \in {"ready", "waiting", "backoff"} =>
    agent.pc = "trace" /\ f \in InHand

\* Ids are drawn once, and no two tracers wait for one request.
IdsDrawn ==
  /\ \A i \in DOMAIN client.pending : i <= client.request_id
  /\ \A f, g \in Files :
       tracer[f].st = "waiting" /\ tracer[g].st = "waiting" /\ tracer[f].id = tracer[g].id
       => f = g
  /\ agent.pc \in {"init", "settling"} => client.request_id = 0

\* What the server was asked and what it says under the id of a tracer is about the
\* file of that tracer.  Under an id not drawn yet it can only send requests of its own.
AnswersFit ==
  /\ \A r \in server.todo : r.id <= client.request_id
  /\ \A i \in 1 .. Len(pipe) :
       pipe[i].future.st = "value" => pipe[i].id <= client.request_id
  /\ \A f \in Files : tracer[f].st = "waiting" =>
       /\ client.pending[tracer[f].id].st = "value" =>
            client.pending[tracer[f].id].to.doc = f
       /\ \A r \in server.todo : r.id = tracer[f].id => r.ask.doc = f
       /\ \A i \in 1 .. Len(pipe) :
            pipe[i].id = tracer[f].id /\ pipe[i].future.st = "value" =>
              pipe[i].future.to.doc = f

VerdictsTrue ==
  \A f \in Files : tracer[f].st = "auth" => f \in guarded \union Procedures

\* A server that runs is either being started or shut down, or the scan knows that it
\* is there to be shut down in the end.
ServerTended ==
  server.up /\ ~ agent.cut =>
    \/ agent.pc \in {"settling", "greeting", "closing", "bye", "reaping"}
    \/ agent.started /\ agent.pc \notin {"init", "done"}

\* Every future has someone who waits for it, and the other way round.
RequestsAwaited ==
  /\ \A i \in DOMAIN client.pending :
       \/ \E f \in Files : tracer[f].st = "waiting" /\ tracer[f].id = i
       \/ agent.pc = "greeting" /\ i = 1
       \/ agent.pc = "bye" /\ i = client.request_id
  /\ \A f \in Files : tracer[f].st = "waiting" => tracer[f].id \in DOMAIN client.pending
  /\ agent.pc = "greeting" => 1 \in DOMAIN client.pending
  /\ agent.pc = "bye" => client.request_id \in DOMAIN client.pending

IInv ==
  /\ TypeOK /\ RequestsAwaited
  /\ TracersPlaced /\ IdsDrawn /\ AnswersFit /\ VerdictsTrue
  /\ SuppressedOnlyIfGuarded /\ ServerTended

-----------------------------------------------------------------------------
(* The operators on the client. *)

\* What _send_request leaves before it awaits the answer.
LEMMA AskedEffect ==
  ASSUME NEW c, DOMAIN c.pending \subseteq Nat, c \in Client(DOMAIN c.pending),
         NEW ask
  PROVE  LET d == Asked(c, ask)
             i == c.request_id + 1
         IN /\ DOMAIN d.pending = DOMAIN c.pending \union {i}
            /\ DOMAIN d.pending \subseteq Nat
            /\ d \in Client(DOMAIN d.pending)
            /\ d.pending[i] = Waiting
            /\ \A k \in DOMAIN c.pending : k # i => d.pending[k] = c.pending[k]
            /\ d.request_id = i
            /\ d.held = c.held /\ d.reader = c.reader
            /\ d.initialized = c.initialized /\ d.opened = c.opened
  <1> DEFINE i == c.request_id + 1
             p == [k \in DOMAIN c.pending \union {i} |->
                     IF k = i THEN Waiting ELSE c.pending[k]]
  <1>1. Asked(c, ask) = [c EXCEPT !.request_id = i, !.pending = p]
    BY DEF Asked, NextId
  <1>2. i \in Nat /\ c.pending \in [DOMAIN c.pending -> Future]
    BY DEF Client
  <1>3. Waiting \in Future
    BY DEF Waiting, Future, Asks, Goodbye
  <1>4. p \in [DOMAIN c.pending \union {i} -> Future]
    BY <1>2, <1>3
  <1>5. p[i] = Waiting /\ \A k \in DOMAIN c.pending : k # i => p[k] = c.pending[k]
    OBVIOUS
  <1>6. DOMAIN p = DOMAIN c.pending \union {i}
    OBVIOUS
  <1> HIDE DEF p
  <1>7. Asked(c, ask).pending = p
    BY <1>1 DEF Client
  <1>8. Asked(c, ask) \in Client(DOMAIN p)
    BY <1>1, <1>2, <1>4, <1>6 DEF Client
  <1>9. QED
    BY <1>1, <1>2, <1>5, <1>6, <1>7, <1>8 DEF Client

\* Dropping futures leaves the others as they are.
LEMMA PoppedEffect ==
  ASSUME NEW c, DOMAIN c.pending \subseteq Nat, c \in Client(DOMAIN c.pending),
         NEW ids
  PROVE  LET d == Popped(c, ids)
         IN /\ DOMAIN d.pending = DOMAIN c.pending \ ids
            /\ DOMAIN d.pending \subseteq Nat
            /\ d \in Client(DOMAIN d.pending)
            /\ \A k \in DOMAIN d.pending : d.pending[k] = c.pending[k]
            /\ d.request_id = c.request_id
            /\ d.held = c.held /\ d.reader = c.reader
            /\ d.initialized = c.initialized /\ d.opened = c.opened
  <1> DEFINE p == [k \in DOMAIN c.pending \ ids |-> c.pending[k]]
  <1>1. Popped(c, ids) = [c EXCEPT !.pending = p]
    BY DEF Popped
  <1>2. c.pending \in [DOMAIN c.pending -> Future]
    BY DEF Client
  <1>3. p \in [DOMAIN c.pending \ ids -> Future]
    BY <1>2
  <1>4. /\ DOMAIN p = DOMAIN c.pending \ ids
        /\ \A k \in DOMAIN p : p[k] = c.pending[k]
    OBVIOUS
  <1> HIDE DEF p
  <1>5. Popped(c, ids).pending = p
    BY <1>1 DEF Client
  <1>6. Popped(c, ids) \in Client(DOMAIN p)
    BY <1>1, <1>3, <1>4 DEF Client
  <1>7. QED
    BY <1>1, <1>4, <1>5, <1>6 DEF Client

\* A reader that cannot go on ends every wait and no other future.
LEMMA FailEffect ==
  ASSUME NEW ids, NEW p \in [ids -> Future]
  PROVE  /\ FailPending(p) \in [ids -> Future]
         /\ \A i \in ids : FailPending(p)[i].st = "value" => FailPending(p)[i] = p[i]
  <1>1. Nothing \in Future /\ Nothing.st = "none"
    BY DEF Nothing, Future, Asks, Goodbye
  <1>2. QED
    BY <1>1 DEF FailPending

-----------------------------------------------------------------------------
(* Types. *)

LEMMA ValueTypes ==
  /\ Nothing \in Future /\ Nothing.st = "none"
  /\ \A a \in Asks, u \in BOOLEAN :
       Value(a, u) \in Future /\ Value(a, u).st = "value" /\ Value(a, u).to = a
  /\ Greeting \in Asks /\ Goodbye \in Asks
  /\ \A f \in Files, h \in 0 .. MaxHops : Definition(f, h) \in Asks /\ Definition(f, h).doc = f
  <1>1. Greeting \in Asks /\ Goodbye \in Asks
    BY DEF Asks
  <1>2. Nothing \in Future /\ Nothing.st = "none"
    BY <1>1 DEF Nothing, Future
  <1>3. \A a \in Asks, u \in BOOLEAN :
          Value(a, u) \in Future /\ Value(a, u).st = "value" /\ Value(a, u).to = a
    BY DEF Value, Future
  <1>4. \A f \in Files, h \in 0 .. MaxHops :
          Definition(f, h) \in Asks /\ Definition(f, h).doc = f
    BY DEF Definition, Asks
  <1>5. QED
    BY <1>1, <1>2, <1>3, <1>4

LEMMA InitTypes ==
  Init => TypeOK
  <1> SUFFICES ASSUME Init PROVE TypeOK
    OBVIOUS
  <1>1. PICK bs \in Batchings :
          agent = [pc |-> "init", then |-> "scan", batches |-> bs, initialized |-> FALSE,
                   started |-> FALSE, cut |-> FALSE]
    BY DEF Init
  <1>2. bs \in Seq(SUBSET Files)
    BY SessionAssumption
  <1>3. agent \in Agent
    BY <1>1, <1>2 DEF Agent
  <1>4. client.pending = <<>> /\ DOMAIN client.pending = {}
    BY DEF Init
  <1>5. client.pending \in [{} -> Future]
    BY <1>4
  <1>6. client \in Client({})
    BY <1>5 DEF Init, Client
  <1>7. tracer \in [Files -> Tracer]
    BY SessionAssumption DEF Init, NewTracer, Tracer
  <1>8. server \in Server
    BY SessionAssumption DEF Init, Server
  <1>9. QED
    BY <1>3, <1>4, <1>6, <1>7, <1>8 DEF Init, TypeOK

\* What is sent to the server is one more request of it, if it is there.
LEMMA ReceivedEffect ==
  ASSUME TypeOK, NEW ask \in Asks, NEW known \in BOOLEAN
  PROVE  LET s == Received(ask, known)
         IN /\ s \in Server
            /\ s.up = server.up
            /\ \A r \in s.todo :
                 r \in server.todo \/ (r.id = client.request_id + 1 /\ r.ask = ask)
  <1>1. server \in Server /\ client.request_id + 1 \in Nat
    BY DEF TypeOK, Client
  <1> DEFINE new == [id |-> client.request_id + 1, ask |-> ask, known |-> known]
  <1>2. new \in Request
    BY <1>1 DEF Request
  <1>3. CASE server.up
    <2>1. Received(ask, known) = [server EXCEPT !.todo = server.todo \union {new}]
      BY <1>3 DEF Received, NextId
    <2> HIDE DEF new
    <2>2. Received(ask, known) \in Server
      BY <2>1, <1>1, <1>2 DEF Server
    <2>3. Received(ask, known).up = server.up
      BY <2>1, <1>1 DEF Server
    <2>4. Received(ask, known).todo = server.todo \union {new}
      BY <2>1, <1>1 DEF Server
    <2>5. new.id = client.request_id + 1 /\ new.ask = ask
      BY DEF new
    <2>6. QED
      BY <2>2, <2>3, <2>4, <2>5
  <1>4. CASE ~ server.up
    BY <1>1, <1>4 DEF Received
  <1>5. QED
    BY <1>3, <1>4

LEMMA WriteTypes ==
  ASSUME TypeOK, NEW m \in Sent, Write(m)
  PROVE  /\ pipe' \in Seq(Sent)
         /\ \A i \in 1 .. Len(pipe') : pipe'[i] = m \/ (i \in 1 .. Len(pipe) /\ pipe'[i] = pipe[i])
  <1>1. pipe \in Seq(Sent)
    BY DEF TypeOK
  <1>2. CASE Heard
    BY <1>1, <1>2 DEF Write
  <1>3. CASE ~ Heard
    BY <1>1, <1>3 DEF Write
  <1>4. QED
    BY <1>2, <1>3

-----------------------------------------------------------------------------
(* What the steps of the reader and of the server do to the requests. *)

LEMMA ReadEffect ==
  ASSUME TypeOK, Read
  PROVE  /\ TypeOK'
         /\ DOMAIN client'.pending = DOMAIN client.pending
         /\ client'.request_id = client.request_id
         /\ \A i \in 1 .. Len(pipe') : i + 1 \in 1 .. Len(pipe) /\ pipe'[i] = pipe[i + 1]
         /\ \A k \in DOMAIN client.pending : client'.pending[k].st = "value" =>
              \/ client'.pending[k] = client.pending[k]
              \/ \E i \in 1 .. Len(pipe) :
                   pipe[i].id = k /\ client'.pending[k] = pipe[i].future
  <1> DEFINE m == Head(pipe)
  <1>1. pipe \in Seq(Sent) /\ pipe # <<>> /\ m = pipe[1] /\ 1 \in 1 .. Len(pipe)
    BY DEF TypeOK, Read
  <1>2. m \in Sent
    BY <1>1
  <1>3. m.future \in Future /\ m.id \in Nat
    BY <1>2 DEF Sent
  <1>4. /\ pipe' = IF m.kind = "message" THEN Tail(pipe) ELSE <<>>
        /\ client' =
             CASE m.kind = "eof" -> [client EXCEPT !.reader = "ended"]
               [] m.kind = "broken" ->
                    [client EXCEPT !.reader = "ended", !.pending = FailPending(@)]
               [] m.kind = "message" /\ m.id \in DOMAIN client.pending
                    /\ client.pending[m.id].st = "waiting" ->
                    [client EXCEPT !.pending[m.id] = m.future]
               [] OTHER -> client
        /\ UNCHANGED <<guarded, agent, tracer, findings, server>>
    BY DEF Read
  <1>5. /\ DOMAIN client.pending \subseteq Nat
        /\ client \in Client(DOMAIN client.pending)
        /\ client.pending \in [DOMAIN client.pending -> Future]
    BY DEF TypeOK, Client
  <1>6. /\ pipe' \in Seq(Sent)
        /\ \A i \in 1 .. Len(pipe') : i + 1 \in 1 .. Len(pipe) /\ pipe'[i] = pipe[i + 1]
    <2>1. CASE m.kind = "message"
      <3>1. pipe' = Tail(pipe)
        BY <1>4, <2>1
      <3>2. QED
        BY <3>1, <1>1
    <2>2. CASE m.kind # "message"
      <3>1. pipe' = <<>>
        BY <1>4, <2>2
      <3>2. QED
        BY <3>1
    <2>3. QED
      BY <2>1, <2>2
  <1>7. \/ client' = client
        \/ client' = [client EXCEPT !.reader = "ended"]
        \/ client' = [client EXCEPT !.reader = "ended", !.pending = FailPending(client.pending)]
        \/ /\ m.id \in DOMAIN client.pending
           /\ client' = [client EXCEPT !.pending =
                           [client.pending EXCEPT ![m.id] = m.future]]
    <2>1. m.kind \in {"message", "broken", "eof"}
      BY <1>2 DEF Sent
    <2> HIDE DEF m
    <2>2. CASE m.kind = "eof"
      BY <1>4, <2>2
    <2>3. CASE m.kind = "broken"
      BY <1>4, <2>3
    <2>4. CASE m.kind = "message"
      <3>1. CASE m.id \in DOMAIN client.pending /\ client.pending[m.id].st = "waiting"
        BY <1>4, <2>4, <3>1
      <3>2. CASE ~ (m.id \in DOMAIN client.pending /\ client.pending[m.id].st = "waiting")
        BY <1>4, <2>4, <3>2
      <3>3. QED
        BY <3>1, <3>2
    <2>5. QED
      BY <2>1, <2>2, <2>3, <2>4
  <1> HIDE DEF m
  <1>8. /\ DOMAIN client'.pending = DOMAIN client.pending
        /\ client' \in Client(DOMAIN client.pending)
        /\ client'.request_id = client.request_id
        /\ \A k \in DOMAIN client.pending : client'.pending[k].st = "value" =>
             client'.pending[k] = client.pending[k]
               \/ (m.id = k /\ client'.pending[k] = m.future)
    <2>1. CASE client' = client
      BY <1>5, <2>1
    <2>2. CASE client' = [client EXCEPT !.reader = "ended"]
      BY <1>5, <2>2 DEF Client
    <2>3. CASE client' = [client EXCEPT !.reader = "ended",
                                        !.pending = FailPending(client.pending)]
      <3>1. /\ FailPending(client.pending) \in [DOMAIN client.pending -> Future]
            /\ \A k \in DOMAIN client.pending : FailPending(client.pending)[k].st = "value" =>
                 FailPending(client.pending)[k] = client.pending[k]
        BY <1>5, FailEffect
      <3>2. client'.pending = FailPending(client.pending)
        BY <1>5, <2>3 DEF Client
      <3>3. client' \in Client(DOMAIN client.pending) /\ client'.request_id = client.request_id
        BY <1>5, <2>3, <3>1 DEF Client
      <3>4. QED
        BY <3>1, <3>2, <3>3
    <2>4. CASE /\ m.id \in DOMAIN client.pending
               /\ client' = [client EXCEPT !.pending =
                               [client.pending EXCEPT ![m.id] = m.future]]
      <3> DEFINE p == [client.pending EXCEPT ![m.id] = m.future]
      <3>1. p \in [DOMAIN client.pending -> Future]
        BY <1>3, <1>5, <2>4
      <3>2. \A k \in DOMAIN client.pending :
              p[k] = client.pending[k] \/ (m.id = k /\ p[k] = m.future)
        BY <1>5, <2>4
      <3>3. client' = [client EXCEPT !.pending = p]
        BY <2>4
      <3> HIDE DEF p
      <3>4. client'.pending = p
        BY <1>5, <3>3 DEF Client
      <3>5. client' \in Client(DOMAIN client.pending) /\ client'.request_id = client.request_id
        BY <1>5, <3>1, <3>3 DEF Client
      <3>6. QED
        BY <3>1, <3>2, <3>4, <3>5
    <2>5. QED
      BY <1>7, <2>1, <2>2, <2>3, <2>4
  <1>9. TypeOK'
    BY <1>4, <1>5, <1>6, <1>8 DEF TypeOK
  <1>10. QED
    BY <1>1, <1>6, <1>8, <1>9

LEMMA ServerEffect ==
  ASSUME TypeOK, ServerStep
  PROVE  /\ TypeOK'
         /\ UNCHANGED <<guarded, agent, client, tracer, findings>>
         /\ server'.up => server.up
         /\ server'.todo \subseteq server.todo
         /\ \A i \in 1 .. Len(pipe') :
              \/ i \in 1 .. Len(pipe) /\ pipe'[i] = pipe[i]
              \/ pipe'[i].future.st # "value"
              \/ \E r \in server.todo : pipe'[i].id = r.id /\ pipe'[i].future.to = r.ask
  <1>1. /\ server \in Server /\ pipe \in Seq(Sent) /\ server.todo \subseteq Request
        /\ server.loaded \in BOOLEAN
    BY DEF TypeOK, Server
  <1>2. /\ \A i \in Nat : Message(i, Nothing) \in Sent /\ Message(i, Nothing).future = Nothing
        /\ Broken \in Sent /\ Broken.future = Nothing
        /\ Eof \in Sent /\ Eof.future = Nothing
    BY ValueTypes DEF Message, Broken, Eof, Sent
  <1> DEFINE Shown ==
        /\ server' \in Server /\ pipe' \in Seq(Sent)
        /\ UNCHANGED <<guarded, agent, client, tracer, findings>>
        /\ server'.up => server.up
        /\ server'.todo \subseteq server.todo
        /\ \A i \in 1 .. Len(pipe') :
             \/ i \in 1 .. Len(pipe) /\ pipe'[i] = pipe[i]
             \/ pipe'[i].future.st # "value"
             \/ \E r \in server.todo : pipe'[i].id = r.id /\ pipe'[i].future.to = r.ask
  <1>3. SUFFICES Shown
    BY DEF TypeOK
  <1>4. ASSUME NEW r \in server.todo, NEW t \in Future, Reply(r, t),
               t.st = "value" => t.to = r.ask
        PROVE  Shown
    <2>1. r.id \in Nat
      BY <1>1 DEF Request
    <2>2. /\ Message(r.id, t) \in Sent
          /\ Message(r.id, t).future = t /\ Message(r.id, t).id = r.id
      BY <2>1 DEF Message, Sent
    <2>3. /\ server' = [server EXCEPT !.todo = server.todo \ {r}]
          /\ Write(Message(r.id, t))
          /\ UNCHANGED <<guarded, agent, client, tracer, findings>>
      BY <1>4 DEF Reply
    <2>4. server' \in Server /\ server'.up = server.up /\ server'.todo \subseteq server.todo
      BY <2>3, <1>1 DEF Server
    <2>5. QED
      BY <2>2, <2>3, <2>4, <1>4, WriteTypes
  <1>5. CASE Answer
    <2>1. PICK r \in server.todo :
            Reply(r, IF r.known THEN Value(r.ask, r.ask.doc \in Files /\ ~ server.loaded)
                                ELSE Nothing)
      BY <1>5 DEF Answer
    <2> DEFINE t == IF r.known THEN Value(r.ask, r.ask.doc \in Files /\ ~ server.loaded)
                               ELSE Nothing
    <2>2. r.ask \in Asks
      BY <1>1 DEF Request
    <2>3. t \in Future /\ (t.st = "value" => t.to = r.ask)
      BY <2>2, ValueTypes
    <2>4. Reply(r, t)
      BY <2>1
    <2> HIDE DEF t
    <2>5. QED
      BY <2>3, <2>4, <1>4
  <1>6. CASE Refuse
    BY <1>4, <1>6, ValueTypes DEF Refuse
  <1>7. CASE Load
    <2>1. server' = [server EXCEPT !.loaded = TRUE] /\ UNCHANGED <<guarded, agent, client, tracer, findings, pipe>>
      BY <1>7 DEF Load
    <2>2. server' \in Server /\ server'.up = server.up /\ server'.todo = server.todo
      BY <2>1, <1>1 DEF Server
    <2>3. QED
      BY <2>1, <2>2, <1>1
  <1>8. CASE AskClient
    <2>1. /\ server.asks < MaxServerAsks
          /\ server' = [server EXCEPT !.asks = server.asks + 1]
          /\ UNCHANGED <<guarded, agent, client, tracer, findings>>
      BY <1>8 DEF AskClient
    <2>2. server.asks + 1 \in 0 .. MaxServerAsks
      BY <2>1, <1>1, SessionAssumption DEF Server
    <2>3. server' \in Server /\ server'.up = server.up /\ server'.todo = server.todo
      BY <2>1, <2>2, <1>1 DEF Server
    <2>4. DOMAIN client.pending \union {client.request_id + 1} \subseteq Nat
      BY DEF TypeOK, Client
    <2>5. PICK i \in Nat : Write(Message(i, Nothing))
      BY <1>8, <2>4 DEF AskClient
    <2>6. QED
      BY <2>1, <2>3, <2>5, <1>2, WriteTypes, ValueTypes
  <1>9. CASE Garble
    <2>1. Write(Broken) /\ UNCHANGED <<guarded, agent, client, tracer, findings, server>>
      BY <1>9 DEF Garble
    <2>2. QED
      BY <2>1, <1>1, <1>2, WriteTypes, ValueTypes
  <1>10. CASE Exit
    <2>1. /\ server' = [server EXCEPT !.up = FALSE, !.todo = {}]
          /\ Write(Eof) /\ UNCHANGED <<guarded, agent, client, tracer, findings>>
      BY <1>10 DEF Exit, Exited
    <2>2. server' \in Server /\ ~ server'.up /\ server'.todo = {}
      BY <2>1, <1>1 DEF Server
    <2>3. QED
      BY <2>1, <2>2, <1>2, WriteTypes, ValueTypes
  <1>11. QED
    BY <1>5, <1>6, <1>7, <1>8, <1>9, <1>10 DEF ServerStep

-----------------------------------------------------------------------------
(* What the steps of a tracer do. *)

LEMMA TracerTypes ==
  ASSUME TypeOK, NEW f \in Files
  PROVE  /\ tracer[f] \in Tracer
         /\ \A st \in {"noauth", "auth", "cancelled"} :
              Done(st) \in Tracer /\ Done(st).st = st
         /\ Untraced(f) \in Tracer /\ Untraced(f).st \in {"noauth", "auth"}
         /\ Untraced(f).st = "auth" => f \in Procedures
         /\ \A t \in Tracer : tracer' = [tracer EXCEPT ![f] = t] =>
              /\ tracer' \in [Files -> Tracer]
              /\ tracer'[f] = t
              /\ \A g \in Files \ {f} : tracer'[g] = tracer[g]
  <1>1. tracer \in [Files -> Tracer]
    BY DEF TypeOK
  <1>2. 0 \in 0 .. MaxHops - 1 /\ 0 \in 0 .. Retries - 1 /\ 0 \in Nat
    BY SessionAssumption
  <1>3. \A st \in {"noauth", "auth", "cancelled"} :
          Done(st) = [st |-> st, id |-> 0, hop |-> 0, tries |-> 0]
    BY DEF Done, NewTracer
  <1>4. \A st \in {"noauth", "auth", "cancelled"} :
          Done(st) \in Tracer /\ Done(st).st = st
    BY <1>2, <1>3 DEF Tracer
  <1>5. /\ Untraced(f) \in Tracer /\ Untraced(f).st \in {"noauth", "auth"}
        /\ Untraced(f).st = "auth" => f \in Procedures
    <2>1. CASE f \in Procedures
      <3>1. Untraced(f) = Done("auth")
        BY <2>1 DEF Untraced, Verdict
      <3>2. QED
        BY <1>4, <2>1, <3>1
    <2>2. CASE f \notin Procedures
      <3>1. Untraced(f) = Done("noauth")
        BY <2>2 DEF Untraced, Verdict
      <3>2. QED
        BY <1>4, <3>1
    <2>3. QED
      BY <2>1, <2>2
  <1>6. QED
    BY <1>1, <1>4, <1>5

\* A tracer that asks draws a new id and waits for it, or goes without a session.
LEMMA AskEffect ==
  ASSUME TypeOK, NEW f \in Files, Ask(f)
  PROVE  /\ TypeOK'
         /\ agent.pc = "trace" /\ f \in InHand
         /\ UNCHANGED <<guarded, agent, findings, pipe>>
         /\ \A g \in Files \ {f} : tracer'[g] = tracer[g]
         /\ server'.up = server.up
         /\ \/ /\ tracer'[f].st \in {"noauth", "auth"} /\ client' = client /\ server' = server
               /\ tracer'[f].st = "auth" => f \in Procedures
            \/ /\ tracer'[f].st = "waiting" /\ tracer'[f].id = client.request_id + 1
               /\ client'.request_id = client.request_id + 1
               /\ DOMAIN client'.pending = DOMAIN client.pending \union {client.request_id + 1}
               /\ client'.pending[client.request_id + 1] = Waiting
               /\ \A k \in DOMAIN client.pending : k # client.request_id + 1 =>
                    client'.pending[k] = client.pending[k]
               /\ \A r \in server'.todo : r \in server.todo
                    \/ (r.id = client.request_id + 1 /\ r.ask.doc = f)
  <1>1. /\ DOMAIN client.pending \subseteq Nat /\ client \in Client(DOMAIN client.pending)
        /\ client.request_id + 1 \in Nat /\ client.opened \subseteq Docs
    BY DEF TypeOK, Client
  <1>2. tracer[f] \in Tracer
    BY TracerTypes
  <1>3. /\ agent.pc = "trace" /\ f \in InHand
        /\ UNCHANGED <<guarded, agent, findings, pipe>>
    BY DEF Ask
  <1>4. CASE client.initialized /\ client.held
    <2> DEFINE d == DocOf(f, tracer[f].hop)
               c == OpenFile(client, d)
               ask == Definition(f, tracer[f].hop)
               known == d \in c.opened
               t == [tracer[f] EXCEPT !.st = "waiting", !.id = client.request_id + 1]
    <2>1. /\ client' = Asked(c, ask)
          /\ server' = Received(ask, known)
          /\ tracer' = [tracer EXCEPT ![f].st = "waiting", ![f].id = NextId(client)]
      BY <1>4 DEF Ask
    <2>2. d \in Docs
      BY DEF DocOf, Docs
    <2>3. /\ DOMAIN c.pending = DOMAIN client.pending
          /\ c \in Client(DOMAIN c.pending)
          /\ c.request_id = client.request_id /\ c.pending = client.pending
      <3>1. CASE c = client
        BY <3>1, <1>1
      <3>2. CASE c = [client EXCEPT !.opened = client.opened \union {d}]
        <4> HIDE DEF d, c
        <4>1. c.pending = client.pending /\ c.request_id = client.request_id
          BY <3>2, <1>1 DEF Client
        <4>2. c \in Client(DOMAIN client.pending)
          BY <3>2, <1>1, <2>2 DEF Client
        <4>3. QED
          BY <4>1, <4>2
      <3>3. QED
        BY <3>1, <3>2 DEF OpenFile
    <2>4. tracer[f].hop \in 0 .. MaxHops
      BY <1>2, SessionAssumption DEF Tracer
    <2>5. ask \in Asks /\ ask.doc = f
      BY <2>4, ValueTypes
    <2>6. known \in BOOLEAN
      OBVIOUS
    <2> HIDE DEF d, c, ask, known
    <2>7. /\ server' \in Server /\ server'.up = server.up
          /\ \A r \in server'.todo : r \in server.todo
               \/ (r.id = client.request_id + 1 /\ r.ask.doc = f)
      BY <2>1, <2>5, <2>6, ReceivedEffect
    <2>8. /\ client'.request_id = client.request_id + 1
          /\ DOMAIN client'.pending = DOMAIN client.pending \union {client.request_id + 1}
          /\ client'.pending[client.request_id + 1] = Waiting
          /\ \A k \in DOMAIN client.pending : k # client.request_id + 1 =>
               client'.pending[k] = client.pending[k]
          /\ DOMAIN client'.pending \subseteq Nat
          /\ client' \in Client(DOMAIN client'.pending)
      BY <1>1, <2>1, <2>3, AskedEffect
    <2>9. t \in Tracer /\ t.st = "waiting" /\ t.id = client.request_id + 1
      BY <1>1, <1>2 DEF Tracer
    <2>10. tracer' = [tracer EXCEPT ![f] = t]
      BY <2>1 DEF NextId, TypeOK
    <2> HIDE DEF t
    <2>11. /\ tracer' \in [Files -> Tracer] /\ tracer'[f] = t
           /\ \A g \in Files \ {f} : tracer'[g] = tracer[g]
      BY <2>9, <2>10, TracerTypes
    <2>12. TypeOK'
      BY <1>3, <2>7, <2>8, <2>11 DEF TypeOK
    <2>13. QED
      BY <1>3, <2>7, <2>8, <2>9, <2>11, <2>12
  <1>5. CASE ~ (client.initialized /\ client.held)
    <2>1. tracer' = [tracer EXCEPT ![f] = Untraced(f)] /\ UNCHANGED <<client, server>>
      BY <1>5 DEF Ask
    <2>2. /\ tracer' \in [Files -> Tracer] /\ tracer'[f].st \in {"noauth", "auth"}
          /\ tracer'[f].st = "auth" => f \in Procedures
          /\ \A g \in Files \ {f} : tracer'[g] = tracer[g]
      BY <2>1, TracerTypes
    <2>3. TypeOK'
      BY <1>3, <2>1, <2>2 DEF TypeOK
    <2>4. QED
      BY <1>3, <2>1, <2>2, <2>3
  <1>6. QED
    BY <1>4, <1>5

\* However a wait ends, its future is dropped; the route counts as guarded only after an
\* answer whose document is, unless it is a procedure.
LEMMA WaitEndEffect ==
  ASSUME TypeOK, RequestsAwaited, NEW f \in Files, Answered(f) \/ TimedOut(f)
  PROVE  /\ TypeOK'
         /\ tracer[f].st = "waiting"
         /\ UNCHANGED <<guarded, agent, findings, server, pipe>>
         /\ \A g \in Files \ {f} : tracer'[g] = tracer[g]
         /\ DOMAIN client'.pending = DOMAIN client.pending \ {tracer[f].id}
         /\ \A k \in DOMAIN client'.pending : client'.pending[k] = client.pending[k]
         /\ client'.request_id = client.request_id
         /\ tracer'[f].st # "waiting"
         /\ tracer'[f].st = "auth" /\ f \notin Procedures =>
              /\ client.pending[tracer[f].id].st = "value"
              /\ client.pending[tracer[f].id].to.doc \in guarded
  <1> DEFINE t == tracer[f]
             a == Awaited(t.id)
  <1>1. DOMAIN client.pending \subseteq Nat /\ client \in Client(DOMAIN client.pending)
    BY DEF TypeOK
  <1>2. t \in Tracer
    BY TracerTypes
  <1>3. /\ t.st = "waiting"
        /\ client' = Popped(client, {t.id})
        /\ UNCHANGED <<guarded, agent, findings, server, pipe>>
    BY DEF Answered, TimedOut
  <1>4. /\ DOMAIN client'.pending = DOMAIN client.pending \ {t.id}
        /\ DOMAIN client'.pending \subseteq Nat
        /\ client' \in Client(DOMAIN client'.pending)
        /\ \A k \in DOMAIN client'.pending : client'.pending[k] = client.pending[k]
        /\ client'.request_id = client.request_id
    BY <1>1, <1>3, PoppedEffect
  <1>5. \E u \in Tracer :
          /\ tracer' = [tracer EXCEPT ![f] = u]
          /\ u.st # "waiting"
          /\ u.st = "auth" /\ f \notin Procedures => a.st = "value" /\ a.to.doc \in guarded
    <2>1. CASE TimedOut(f)
      <3>1. tracer' = [tracer EXCEPT ![f] = Untraced(f)]
        BY <2>1 DEF TimedOut
      <3>2. QED
        BY <3>1, TracerTypes
    <2>2. CASE Answered(f)
      <3> DEFINE again == a.st = "value" /\ a.unresolved /\ AskAgain(t)
      <3>1. tracer' = [tracer EXCEPT ![f] =
              CASE again -> [t EXCEPT !.st = "backoff", !.tries = t.tries + 1]
                [] ~ again /\ (a.st = "none" \/ IsImportLine(a) \/ f \in Procedures) ->
                     Untraced(f)
                [] a.st = "value" /\ ~ a.unresolved /\ f \notin Procedures
                     /\ a.to.hop < Aliases[a.to.doc] ->
                     IF t.hop + 1 < MaxHops
                       THEN [t EXCEPT !.st = "ready", !.hop = t.hop + 1, !.tries = 0]
                       ELSE Untraced(f)
                [] OTHER -> Done(Verdict(ShowsGuard(a)))]
        BY <2>2 DEF Answered
      <3>2. HasEnded(t.id)
        BY <2>2 DEF Answered
      <3>9. a.st \in {"none", "value"}
        <4>1. t.id \in DOMAIN client.pending
          BY <1>3 DEF RequestsAwaited
        <4>2. a \in Future
          BY <1>1, <4>1 DEF Client, Awaited
        <4>3. QED
          BY <3>2, <4>2 DEF Future, HasEnded
      <3> HIDE DEF t, a
      <3>3. CASE ~ again /\ (a.st = "none" \/ a.unresolved \/ f \in Procedures)
        <4>1. tracer' = [tracer EXCEPT ![f] = Untraced(f)]
          BY <3>1, <3>3 DEF IsImportLine
        <4>2. QED
          BY <4>1, TracerTypes
      <3>4. CASE a.st = "value" /\ a.unresolved /\ AskAgain(t)
        <4>1. t.tries + 1 \in 0 .. Retries - 1
          BY <1>2, <3>4, SessionAssumption DEF AskAgain, Tracer
        <4>2. [t EXCEPT !.st = "backoff", !.tries = t.tries + 1] \in Tracer
          BY <1>2, <4>1 DEF Tracer
        <4>3. [t EXCEPT !.st = "backoff", !.tries = t.tries + 1].st = "backoff"
          BY <1>2 DEF Tracer
        <4>4. tracer' = [tracer EXCEPT ![f] = [t EXCEPT !.st = "backoff", !.tries = t.tries + 1]]
          BY <3>1, <3>4
        <4>5. QED
          BY <4>2, <4>3, <4>4
      <3>6. CASE a.st = "value" /\ ~ a.unresolved /\ f \notin Procedures
                   /\ a.to.hop < Aliases[a.to.doc]
        <4>1. CASE t.hop + 1 < MaxHops
          <5>1. t.hop + 1 \in 0 .. MaxHops - 1 /\ 0 \in 0 .. Retries - 1
            BY <1>2, <4>1, SessionAssumption DEF Tracer
          <5>2. [t EXCEPT !.st = "ready", !.hop = t.hop + 1, !.tries = 0] \in Tracer
            BY <1>2, <5>1 DEF Tracer
          <5>3. [t EXCEPT !.st = "ready", !.hop = t.hop + 1, !.tries = 0].st = "ready"
            BY <1>2 DEF Tracer
          <5>4. tracer' = [tracer EXCEPT ![f] =
                             [t EXCEPT !.st = "ready", !.hop = t.hop + 1, !.tries = 0]]
            BY <3>1, <3>6, <4>1 DEF IsImportLine
          <5>5. QED
            BY <5>2, <5>3, <5>4
        <4>2. CASE ~ (t.hop + 1 < MaxHops)
          <5>1. tracer' = [tracer EXCEPT ![f] = Untraced(f)]
            BY <3>1, <3>6, <4>2 DEF IsImportLine
          <5>2. QED
            BY <5>1, TracerTypes
        <4>3. QED
          BY <4>1, <4>2
      <3>7. CASE a.st = "value" /\ ~ a.unresolved /\ f \notin Procedures
                   /\ ~ (a.to.hop < Aliases[a.to.doc])
        <4>1. tracer' = [tracer EXCEPT ![f] = Done(Verdict(ShowsGuard(a)))]
          BY <3>1, <3>7 DEF IsImportLine
        <4>2. CASE a.to.doc \in guarded
          <5>1. tracer' = [tracer EXCEPT ![f] = Done("auth")]
            BY <4>1, <4>2 DEF Verdict, ShowsGuard
          <5>2. QED
            BY <5>1, <4>2, <3>7, TracerTypes
        <4>3. CASE a.to.doc \notin guarded
          <5>1. tracer' = [tracer EXCEPT ![f] = Done("noauth")]
            BY <4>1, <4>3, <3>7 DEF Verdict, ShowsGuard
          <5>2. QED
            BY <5>1, TracerTypes
        <4>4. QED
          BY <4>2, <4>3
      <3>8. QED
        BY <3>3, <3>4, <3>6, <3>7, <3>9
    <2>3. QED
      BY <2>1, <2>2
  <1>6. PICK u \in Tracer :
          /\ tracer' = [tracer EXCEPT ![f] = u]
          /\ u.st # "waiting"
          /\ u.st = "auth" /\ f \notin Procedures => a.st = "value" /\ a.to.doc \in guarded
    BY <1>5
  <1>7. /\ tracer' \in [Files -> Tracer] /\ tracer'[f] = u
        /\ \A g \in Files \ {f} : tracer'[g] = tracer[g]
    BY <1>6, TracerTypes
  <1>8. TypeOK'
    BY <1>3, <1>4, <1>7 DEF TypeOK
  <1>9. QED
    BY <1>3, <1>4, <1>6, <1>7, <1>8 DEF Awaited

-----------------------------------------------------------------------------
(* The steps of the scan. *)

\* What a step of the scan has to respect for the inductive invariant: futures and
\* answers of tracers that go on waiting stay as they are, what is new is under a new
\* id, and only findings with a verdict go.
LEMMA AgentMoves ==
  ASSUME IInv, TypeOK', guarded' = guarded,
         \A f \in findings : f \in findings' \/ tracer[f].st = "auth",
         \A f \in Files : tracer'[f] = tracer[f] \/ tracer'[f].st \in {"ready", "cancelled"},
         client.request_id <= client'.request_id,
         \A k \in DOMAIN client'.pending :
           k \in DOMAIN client.pending => client'.pending[k] = client.pending[k],
         \A r \in server'.todo : r \in server.todo
           \/ (r.id = client.request_id + 1 /\ r.id <= client'.request_id),
         \A i \in 1 .. Len(pipe') :
           (i \in 1 .. Len(pipe) /\ pipe'[i] = pipe[i]) \/ pipe'[i].future.st # "value",
         \A i \in DOMAIN client'.pending : i <= client'.request_id,
         agent'.pc \in {"init", "settling"} => client'.request_id = 0,
         RequestsAwaited', TracersPlaced', ServerTended'
  PROVE  IInv'
  <1>1. /\ client.request_id \in Nat /\ client'.request_id \in Nat
        /\ \A i \in 1 .. Len(pipe) : pipe[i].id \in Nat
        /\ \A i \in 1 .. Len(pipe') : pipe'[i].id \in Nat
        /\ \A r \in server.todo : r.id \in Nat
        /\ \A r \in server'.todo : r.id \in Nat
        /\ \A f \in Files : tracer[f].id \in Nat
    <2>1. TypeOK
      BY DEF IInv
    <2>2. client.request_id \in Nat /\ client'.request_id \in Nat
      BY <2>1 DEF TypeOK, Client
    <2>3. /\ \A i \in 1 .. Len(pipe) : pipe[i].id \in Nat
          /\ \A i \in 1 .. Len(pipe') : pipe'[i].id \in Nat
      <3>1. pipe \in Seq(Sent) /\ pipe' \in Seq(Sent)
        BY <2>1 DEF TypeOK
      <3>2. /\ \A i \in 1 .. Len(pipe) : pipe[i] \in Sent
            /\ \A i \in 1 .. Len(pipe') : pipe'[i] \in Sent
        BY <3>1
      <3>3. QED
        BY <3>2 DEF Sent
    <2>4. /\ \A r \in server.todo : r.id \in Nat
          /\ \A r \in server'.todo : r.id \in Nat
      BY <2>1 DEF TypeOK, Server, Request
    <2>5. \A f \in Files : tracer[f].id \in Nat
      BY <2>1 DEF TypeOK, Tracer
    <2>6. QED
      BY <2>2, <2>3, <2>4, <2>5
  <1>2. IdsDrawn'
    BY DEF IInv, IdsDrawn
  <1>3. VerdictsTrue'
    BY DEF IInv, VerdictsTrue
  <1>4. SuppressedOnlyIfGuarded'
    BY DEF IInv, SuppressedOnlyIfGuarded, VerdictsTrue, TypeOK
  <1>5. \A r \in server'.todo : r.id <= client'.request_id
    BY <1>1 DEF IInv, AnswersFit
  <1>6. \A i \in 1 .. Len(pipe') :
          pipe'[i].future.st = "value" => pipe'[i].id <= client'.request_id
    BY <1>1 DEF IInv, AnswersFit
  <1>7. ASSUME NEW f \in Files, tracer'[f].st = "waiting"
        PROVE  /\ client'.pending[tracer'[f].id].st = "value" =>
                    client'.pending[tracer'[f].id].to.doc = f
               /\ \A r \in server'.todo : r.id = tracer'[f].id => r.ask.doc = f
               /\ \A i \in 1 .. Len(pipe') :
                    pipe'[i].id = tracer'[f].id /\ pipe'[i].future.st = "value" =>
                      pipe'[i].future.to.doc = f
    <2>1. tracer'[f] = tracer[f]
      BY <1>7
    <2>2. tracer[f].id \in DOMAIN client.pending /\ tracer[f].id \in DOMAIN client'.pending
      BY <1>7, <2>1 DEF IInv, RequestsAwaited
    <2>3. tracer[f].id <= client.request_id
      BY <2>2 DEF IInv, IdsDrawn
    <2>4. /\ client.pending[tracer[f].id].st = "value" =>
               client.pending[tracer[f].id].to.doc = f
          /\ \A r \in server.todo : r.id = tracer[f].id => r.ask.doc = f
          /\ \A i \in 1 .. Len(pipe) :
               pipe[i].id = tracer[f].id /\ pipe[i].future.st = "value" =>
                 pipe[i].future.to.doc = f
      BY <1>7, <2>1 DEF IInv, AnswersFit
    <2>5. client'.pending[tracer[f].id] = client.pending[tracer[f].id]
      BY <2>2
    <2>6. \A r \in server'.todo : r.id = tracer[f].id => r.ask.doc = f
      BY <1>1, <2>3, <2>4
    <2>7. \A i \in 1 .. Len(pipe') :
            pipe'[i].id = tracer[f].id /\ pipe'[i].future.st = "value" =>
              pipe'[i].future.to.doc = f
      BY <2>4
    <2>8. QED
      BY <2>1, <2>4, <2>5, <2>6, <2>7
  <1>8. AnswersFit'
    BY <1>5, <1>6, <1>7 DEF AnswersFit
  <1>9. QED
    BY <1>2, <1>3, <1>4, <1>8 DEF IInv

Places == {"init", "settling", "greeting", "scan", "trace", "rest", "cleanup",
           "closing", "bye", "reaping", "done"}

LEMMA GotoEffect ==
  ASSUME TypeOK, NEW pc \in Places, Goto(pc)
  PROVE  /\ agent' \in Agent /\ agent'.pc = pc
         /\ agent'.then = agent.then /\ agent'.batches = agent.batches
         /\ agent'.initialized = agent.initialized
         /\ agent'.started = agent.started /\ agent'.cut = agent.cut
  BY DEF TypeOK, Agent, Goto, Places

\* A move of the scan alone, from a place where no request is under way to another.
LEMMA PlainMove ==
  ASSUME IInv, agent' \in Agent, UNCHANGED <<guarded, client, tracer, findings, server, pipe>>,
         agent.pc \notin {"trace", "greeting", "bye"},
         agent'.pc \notin {"init", "settling", "greeting", "bye"},
         ServerTended'
  PROVE  IInv'
  <1>1. TypeOK'
    BY DEF IInv, TypeOK
  <1>2. \A f \in Files : tracer[f].st \notin {"ready", "waiting", "backoff"}
    BY DEF IInv, TracersPlaced
  <1>3. TracersPlaced'
    BY <1>2 DEF TracersPlaced
  <1>4. RequestsAwaited'
    BY DEF IInv, RequestsAwaited
  <1>5. client.request_id \in Nat /\ \A i \in DOMAIN client.pending : i <= client.request_id
    BY DEF IInv, TypeOK, Client, IdsDrawn
  <1>6. client.request_id <= client.request_id
    BY <1>5
  <1>7. QED
    BY <1>1, <1>3, <1>4, <1>5, <1>6, AgentMoves

LEMMA NoServerKeeps ==
  ASSUME IInv, NoServer
  PROVE  IInv'
  <1>1. /\ agent.pc = "init" /\ Goto("scan")
        /\ UNCHANGED <<guarded, client, tracer, findings, server, pipe>>
    BY DEF NoServer
  <1>2. /\ agent' \in Agent /\ agent'.pc = "scan"
        /\ agent'.started = agent.started /\ agent'.cut = agent.cut
    BY <1>1, GotoEffect DEF IInv, Places
  <1>3. ServerTended'
    BY <1>1, <1>2 DEF IInv, ServerTended
  <1>4. QED
    BY <1>1, <1>2, <1>3, PlainMove

LEMMA ExitedAtOnceKeeps ==
  ASSUME IInv, ExitedAtOnce
  PROVE  IInv'
  <1>1. /\ agent.pc = "settling" /\ ~ server.up /\ Goto("scan")
        /\ UNCHANGED <<guarded, client, tracer, findings, server, pipe>>
    BY DEF ExitedAtOnce
  <1>2. agent' \in Agent /\ agent'.pc = "scan"
    BY <1>1, GotoEffect DEF IInv, Places
  <1>3. ServerTended'
    BY <1>1 DEF ServerTended
  <1>4. QED
    BY <1>1, <1>2, <1>3, PlainMove

LEMMA FinishKeeps ==
  ASSUME IInv, Finish
  PROVE  IInv'
  <1>1. /\ agent.pc = "rest" /\ Goto("cleanup")
        /\ UNCHANGED <<guarded, client, tracer, findings, server, pipe>>
    BY DEF Finish
  <1>2. /\ agent' \in Agent /\ agent'.pc = "cleanup"
        /\ agent'.started = agent.started /\ agent'.cut = agent.cut
    BY <1>1, GotoEffect DEF IInv, Places
  <1>3. ServerTended'
    BY <1>1, <1>2 DEF IInv, ServerTended
  <1>4. QED
    BY <1>1, <1>2, <1>3, PlainMove

LEMMA CleanupKeeps ==
  ASSUME IInv, Cleanup
  PROVE  IInv'
  <1>1. /\ agent.pc = "cleanup"
        /\ agent' = [agent EXCEPT !.pc = IF agent.started THEN "closing" ELSE "done",
                                  !.then = "done"]
        /\ UNCHANGED <<guarded, client, tracer, findings, server, pipe>>
    BY DEF Cleanup
  <1>2. /\ agent' \in Agent /\ agent'.pc = (IF agent.started THEN "closing" ELSE "done")
        /\ agent'.cut = agent.cut
    BY <1>1 DEF IInv, TypeOK, Agent
  <1>3. ServerTended'
    BY <1>1, <1>2 DEF IInv, ServerTended
  <1>4. agent'.pc \in {"closing", "done"}
    BY <1>2
  <1>5. QED
    BY <1>1, <1>2, <1>3, <1>4, PlainMove

LEMMA SpawnKeeps ==
  ASSUME IInv, Spawn
  PROVE  IInv'
  <1>1. /\ agent.pc = "init" /\ Goto("settling")
        /\ client' = [client EXCEPT !.held = TRUE]
        /\ server' = [server EXCEPT !.up = TRUE]
        /\ UNCHANGED <<guarded, tracer, findings, pipe>>
    BY DEF Spawn
  <1>2. agent' \in Agent /\ agent'.pc = "settling"
    BY <1>1, GotoEffect DEF IInv, Places
  <1>3. /\ client'.pending = client.pending /\ client'.request_id = client.request_id
        /\ client' \in Client(DOMAIN client'.pending)
        /\ client.request_id \in Nat
    BY <1>1 DEF IInv, TypeOK, Client
  <1>4. server' \in Server /\ server'.todo = server.todo
    BY <1>1 DEF IInv, TypeOK, Server
  <1>5. TypeOK'
    BY <1>1, <1>2, <1>3, <1>4 DEF IInv, TypeOK
  <1>6. TracersPlaced'
    BY <1>1 DEF IInv, TracersPlaced
  <1>7. RequestsAwaited'
    BY <1>1, <1>2, <1>3 DEF IInv, RequestsAwaited
  <1>8. ServerTended'
    BY <1>2 DEF ServerTended
  <1>9. /\ client.request_id = 0
        /\ \A i \in DOMAIN client'.pending : i <= client'.request_id
    BY <1>1, <1>3 DEF IInv, IdsDrawn
  <1>10. client.request_id <= client'.request_id
    BY <1>3
  <1>11. QED
    BY <1>1, <1>3, <1>4, <1>5, <1>6, <1>7, <1>8, <1>9, <1>10, AgentMoves, Zenon

LEMMA ValidateKeeps ==
  ASSUME IInv, Validate
  PROVE  IInv'
  <1>1. /\ agent.pc = "trace" /\ Goto("rest")
        /\ \A f \in InHand : Traced(f)
        /\ findings' = {f \in findings : tracer[f].st # "auth"}
        /\ UNCHANGED <<guarded, client, tracer, server, pipe>>
    BY DEF Validate
  <1>2. /\ agent' \in Agent /\ agent'.pc = "rest"
        /\ agent'.started = agent.started /\ agent'.cut = agent.cut
    BY <1>1, GotoEffect DEF IInv, Places
  <1>3. TypeOK'
    BY <1>1, <1>2 DEF IInv, TypeOK
  <1>4. \A f \in Files : tracer[f].st \notin {"ready", "waiting", "backoff"}
    BY <1>1 DEF IInv, TracersPlaced, Traced
  <1>5. TracersPlaced'
    BY <1>1, <1>4 DEF TracersPlaced
  <1>6. RequestsAwaited'
    BY <1>1, <1>2 DEF IInv, RequestsAwaited
  <1>7. ServerTended'
    BY <1>1, <1>2 DEF IInv, ServerTended
  <1>8. client.request_id <= client.request_id /\ \A i \in DOMAIN client.pending : i <= client.request_id
    BY DEF IInv, TypeOK, Client, IdsDrawn
  <1>9. \A f \in findings : f \in findings' \/ tracer[f].st = "auth"
    BY <1>1
  <1>10. agent'.pc \notin {"init", "settling"}
    BY <1>2
  <1>11. QED
    BY <1>1, <1>3, <1>5, <1>6, <1>7, <1>8, <1>9, <1>10, AgentMoves, Zenon

LEMMA GreetKeeps ==
  ASSUME IInv, Greet
  PROVE  IInv'
  <1>1. /\ agent.pc = "settling" /\ Goto("greeting")
        /\ client' = [Asked(client, Greeting) EXCEPT !.reader = "reading"]
        /\ server' = Received(Greeting, TRUE)
        /\ UNCHANGED <<guarded, tracer, findings, pipe>>
    BY DEF Greet
  <1>2. agent' \in Agent /\ agent'.pc = "greeting"
    BY <1>1, GotoEffect DEF IInv, Places
  <1>3. client.request_id = 0 /\ client.request_id + 1 = 1
    BY <1>1 DEF IInv, IdsDrawn
  <1>4. /\ DOMAIN client.pending \subseteq Nat /\ client \in Client(DOMAIN client.pending)
    BY DEF IInv, TypeOK
  <1>5. DOMAIN client.pending = {}
    BY <1>1 DEF IInv, RequestsAwaited, TracersPlaced
  <1> DEFINE c == Asked(client, Greeting)
  <1>6. /\ DOMAIN c.pending = {1} /\ c \in Client(DOMAIN c.pending) /\ c.request_id = 1
    <2>1. /\ DOMAIN c.pending = DOMAIN client.pending \union {client.request_id + 1}
          /\ c \in Client(DOMAIN c.pending)
          /\ c.request_id = client.request_id + 1
      BY <1>4, AskedEffect
    <2>2. QED
      BY <2>1, <1>3, <1>5
  <1> HIDE DEF c
  <1>7. client' = [c EXCEPT !.reader = "reading"]
    BY <1>1 DEF c
  <1>8. /\ client'.pending = c.pending /\ client'.request_id = 1
        /\ client' \in Client(DOMAIN c.pending)
    BY <1>6, <1>7 DEF Client
  <1>9. /\ server' \in Server
        /\ \A r \in server'.todo : r \in server.todo \/ r.id = client.request_id + 1
    BY <1>1, ReceivedEffect, ValueTypes DEF IInv
  <1>10. TypeOK'
    <2>1. DOMAIN client'.pending \subseteq Nat
      BY <1>6, <1>8
    <2>2. client' \in Client(DOMAIN client'.pending)
      BY <1>8
    <2>3. QED
      BY <1>1, <1>2, <1>9, <2>1, <2>2 DEF IInv, TypeOK
  <1>11. \A f \in Files : tracer[f].st \notin {"ready", "waiting", "backoff"}
    BY <1>1 DEF IInv, TracersPlaced
  <1>12. TracersPlaced'
    BY <1>1, <1>11 DEF TracersPlaced
  <1>13. RequestsAwaited'
    BY <1>1, <1>2, <1>6, <1>8, <1>11 DEF RequestsAwaited
  <1>14. ServerTended'
    BY <1>2 DEF ServerTended
  <1>15. client.request_id <= client'.request_id
    BY <1>3, <1>8
  <1>16. \A i \in DOMAIN client'.pending : i <= client'.request_id /\ i \notin DOMAIN client.pending
    BY <1>5, <1>6, <1>8
  <1>17. \A r \in server'.todo : r \in server.todo
           \/ (r.id = client.request_id + 1 /\ r.id <= client'.request_id)
    BY <1>3, <1>8, <1>9
  <1>18. agent'.pc \notin {"init", "settling"}
    BY <1>2
  <1>19. QED
    BY <1>1, <1>10, <1>12, <1>13, <1>14, <1>15, <1>16, <1>17, <1>18, AgentMoves

\* A move of the scan that drops futures, after which nobody waits.
LEMMA DroppingMove ==
  ASSUME IInv, agent' \in Agent, UNCHANGED <<guarded, findings>>,
         agent'.pc \notin {"init", "settling", "greeting", "bye"},
         client' \in Client({}), DOMAIN client'.pending = {},
         client'.request_id = client.request_id,
         tracer' \in [Files -> Tracer],
         \A f \in Files : tracer'[f] = tracer[f] \/ tracer'[f].st = "cancelled",
         \A f \in Files : tracer'[f].st \notin {"ready", "waiting", "backoff"},
         server' \in Server, server'.todo \subseteq server.todo,
         pipe' \in Seq(Sent),
         \A i \in 1 .. Len(pipe') :
           (i \in 1 .. Len(pipe) /\ pipe'[i] = pipe[i]) \/ pipe'[i].future.st # "value",
         ServerTended'
  PROVE  IInv'
  <1>1. TypeOK'
    BY DEF IInv, TypeOK
  <1>2. RequestsAwaited'
    BY DEF RequestsAwaited
  <1>3. TracersPlaced'
    BY DEF TracersPlaced
  <1>4. client.request_id <= client'.request_id
    BY DEF IInv, TypeOK, Client
  <1>5. QED
    BY <1>1, <1>2, <1>3, <1>4, AgentMoves

\* When nobody traces and no request of initialize() or shutdown() is under way, no
\* future is left; in any case the tracers' are the only others.
LEMMA FuturesLeft ==
  ASSUME IInv
  PROVE  /\ agent.pc # "trace" =>
              \A f \in Files : tracer[f].st \notin {"ready", "waiting", "backoff"}
         /\ agent.pc \notin {"trace", "greeting", "bye"} => DOMAIN client.pending = {}
         /\ agent.pc = "greeting" => DOMAIN client.pending = {1}
         /\ agent.pc = "bye" => DOMAIN client.pending = {client.request_id}
         /\ agent.pc = "trace" => DOMAIN client.pending =
              {tracer[f].id : f \in {g \in Files : tracer[g].st = "waiting"}}
  <1>1. TracersPlaced /\ RequestsAwaited
    BY DEF IInv
  <1>2. agent.pc # "trace" =>
          \A f \in Files : tracer[f].st \notin {"ready", "waiting", "backoff"}
    BY <1>1 DEF TracersPlaced
  <1>3. QED
    BY <1>1, <1>2 DEF RequestsAwaited

\* Dropping every future of the client.
LEMMA PoppedAll ==
  ASSUME TypeOK, NEW ids, DOMAIN client.pending \subseteq ids
  PROVE  /\ Popped(client, ids) \in Client({}) /\ DOMAIN Popped(client, ids).pending = {}
         /\ Popped(client, ids).request_id = client.request_id
  <1>1. DOMAIN client.pending \subseteq Nat /\ client \in Client(DOMAIN client.pending)
    BY DEF TypeOK
  <1> DEFINE d == Popped(client, ids)
  <1>2. /\ DOMAIN d.pending = DOMAIN client.pending \ ids
        /\ d \in Client(DOMAIN d.pending)
        /\ d.request_id = client.request_id
    BY <1>1, PoppedEffect
  <1> HIDE DEF d
  <1>3. DOMAIN d.pending = {}
    BY <1>2
  <1>4. d \in Client({}) /\ DOMAIN d.pending = {} /\ d.request_id = client.request_id
    BY <1>2, <1>3
  <1>5. QED
    BY <1>4 DEF d

LEMMA GreetEndsKeeps ==
  ASSUME IInv, GreetEnds
  PROVE  IInv'
  <1> DEFINE ok == Awaited(1).st = "value"
             c == Popped(client, {1})
  <1>1. /\ agent.pc = "greeting"
        /\ client' = [c EXCEPT !.initialized = ok]
        /\ agent' = [agent EXCEPT !.pc = IF ok THEN "scan" ELSE "closing",
                                  !.initialized = ok, !.started = ok]
        /\ UNCHANGED <<guarded, tracer, findings, server, pipe>>
    BY DEF GreetEnds
  <1>2. ok \in BOOLEAN
    OBVIOUS
  <1> HIDE DEF ok
  <1>3. agent' \in Agent /\ agent'.pc = (IF ok THEN "scan" ELSE "closing") /\ agent'.started = ok
    BY <1>1, <1>2 DEF IInv, TypeOK, Agent
  <1>4. c \in Client({}) /\ DOMAIN c.pending = {} /\ c.request_id = client.request_id
    BY <1>1, FuturesLeft, PoppedAll DEF IInv
  <1> HIDE DEF c
  <1>5. client' \in Client({}) /\ client'.pending = c.pending /\ client'.request_id = c.request_id
    BY <1>1, <1>2, <1>4 DEF Client
  <1>6. \A f \in Files : tracer[f].st \notin {"ready", "waiting", "backoff"}
    BY <1>1, FuturesLeft
  <1>7. ServerTended'
    BY <1>2, <1>3 DEF ServerTended
  <1>8. agent'.pc \notin {"init", "settling", "greeting", "bye"}
    BY <1>3
  <1>9. /\ tracer \in [Files -> Tracer] /\ server \in Server /\ pipe \in Seq(Sent)
    BY DEF IInv, TypeOK
  <1>10. DOMAIN client'.pending = {} /\ client'.request_id = client.request_id
    BY <1>4, <1>5
  <1>11. QED
    BY <1>1, <1>3, <1>5, <1>6, <1>7, <1>8, <1>9, <1>10, DroppingMove

LEMMA CutKeeps ==
  ASSUME IInv, Initializing \/ CleaningUp, NEW pc \in {"scan", "cleanup", "done"}, CutOff(pc),
         UNCHANGED <<guarded, tracer, findings, server, pipe>>
  PROVE  IInv'
  <1>1. /\ Initializing \/ CleaningUp
        /\ agent' = [agent EXCEPT !.pc = pc, !.cut = TRUE]
        /\ client' = Popped(client, DOMAIN client.pending)
    BY DEF CutOff
  <1>2. agent' \in Agent /\ agent'.pc = pc /\ agent'.cut
    BY <1>1 DEF IInv, TypeOK, Agent
  <1>3. client' \in Client({}) /\ DOMAIN client'.pending = {} /\ client'.request_id = client.request_id
    BY <1>1, PoppedAll DEF IInv
  <1>4. \A f \in Files : tracer[f].st \notin {"ready", "waiting", "backoff"}
    BY <1>1, FuturesLeft DEF Initializing, CleaningUp
  <1>5. ServerTended'
    BY <1>2 DEF ServerTended
  <1>6. agent'.pc \notin {"init", "settling", "greeting", "bye"}
    BY <1>2
  <1>7. /\ tracer \in [Files -> Tracer] /\ server \in Server /\ pipe \in Seq(Sent)
    BY DEF IInv, TypeOK
  <1>8. QED
    BY <1>2, <1>3, <1>4, <1>5, <1>6, <1>7, DroppingMove

LEMMA CancelKeeps ==
  ASSUME IInv, agent.pc = "trace", CancelTracers, NEW pc \in {"rest", "cleanup"}, Goto(pc),
         UNCHANGED <<guarded, findings, server, pipe>>
  PROVE  IInv'
  <1>1. /\ tracer' = [f \in Files |-> IF Traced(f) THEN tracer[f] ELSE Done("cancelled")]
        /\ client' = Popped(client,
             {tracer[f].id : f \in {g \in Files : tracer[g].st = "waiting"}})
    BY DEF CancelTracers
  <1>2. /\ agent' \in Agent /\ agent'.pc = pc
        /\ agent'.started = agent.started /\ agent'.cut = agent.cut
    BY GotoEffect DEF IInv, Places
  <1>3. client' \in Client({}) /\ DOMAIN client'.pending = {} /\ client'.request_id = client.request_id
    BY <1>1, FuturesLeft, PoppedAll DEF IInv
  <1>4. \A f \in Files : /\ tracer[f] \in Tracer
                         /\ Done("cancelled") \in Tracer /\ Done("cancelled").st = "cancelled"
    BY TracerTypes DEF IInv
  <1>5. /\ tracer' \in [Files -> Tracer]
        /\ \A f \in Files : tracer'[f] = tracer[f] \/ tracer'[f].st = "cancelled"
        /\ \A f \in Files : tracer'[f].st \notin {"ready", "waiting", "backoff"}
    BY <1>1, <1>4 DEF Traced
  <1>6. ServerTended'
    BY <1>2 DEF IInv, ServerTended
  <1>7. agent'.pc \notin {"init", "settling", "greeting", "bye"}
    BY <1>2
  <1>8. /\ server \in Server /\ pipe \in Seq(Sent)
    BY DEF IInv, TypeOK
  <1>9. QED
    BY <1>2, <1>3, <1>5, <1>6, <1>7, <1>8, DroppingMove

LEMMA StopKeeps ==
  ASSUME IInv, Stop
  PROVE  IInv'
  <1>1. UNCHANGED <<guarded, findings, server, pipe>>
    BY DEF Stop
  <1>2. CASE \/ Initializing /\ CutOff("cleanup") /\ UNCHANGED tracer
             \/ CleaningUp /\ CutOff("done") /\ UNCHANGED tracer
    BY <1>1, <1>2, CutKeeps
  <1>3. CASE agent.pc \in {"init", "scan", "rest"} /\ Goto("cleanup") /\ UNCHANGED <<client, tracer>>
    <2>1. /\ agent' \in Agent /\ agent'.pc = "cleanup"
          /\ agent'.started = agent.started /\ agent'.cut = agent.cut
      BY <1>3, GotoEffect DEF IInv, Places
    <2>2. ServerTended'
      BY <1>1, <1>3, <2>1 DEF IInv, ServerTended
    <2>3. QED
      BY <1>1, <1>3, <2>1, <2>2, PlainMove
  <1>4. CASE agent.pc = "trace" /\ CancelTracers /\ Goto("cleanup")
    BY <1>1, <1>4, CancelKeeps
  <1>5. QED
    BY <1>2, <1>3, <1>4 DEF Stop

LEMMA ByeKeeps ==
  ASSUME IInv, Bye
  PROVE  IInv'
  <1>1. /\ agent.pc = "bye" /\ Goto("reaping")
        /\ client' = Popped(client, {client.request_id})
        /\ UNCHANGED <<guarded, tracer, findings, server, pipe>>
    BY DEF Bye
  <1>2. agent' \in Agent /\ agent'.pc = "reaping"
    BY <1>1, GotoEffect DEF IInv, Places
  <1>3. client' \in Client({}) /\ DOMAIN client'.pending = {} /\ client'.request_id = client.request_id
    BY <1>1, FuturesLeft, PoppedAll DEF IInv
  <1>4. \A f \in Files : tracer[f].st \notin {"ready", "waiting", "backoff"}
    BY <1>1, FuturesLeft
  <1>5. ServerTended'
    BY <1>2 DEF ServerTended
  <1>6. /\ tracer \in [Files -> Tracer] /\ server \in Server /\ pipe \in Seq(Sent)
    BY DEF IInv, TypeOK
  <1>7. QED
    BY <1>1, <1>2, <1>3, <1>4, <1>5, <1>6, DroppingMove

LEMMA ReapKeeps ==
  ASSUME IInv, Reap
  PROVE  IInv'
  <1>1. /\ agent.pc = "reaping" /\ Goto(agent.then)
        /\ client' = [client EXCEPT !.held = FALSE, !.pending = <<>>]
        /\ IF server.up THEN Exited ELSE UNCHANGED <<server, pipe>>
        /\ UNCHANGED <<guarded, tracer, findings>>
    BY DEF Reap
  <1>2. agent.then \in {"scan", "done"}
    BY DEF IInv, TypeOK, Agent
  <1>3. agent' \in Agent /\ agent'.pc = agent.then
    BY <1>1, <1>2, GotoEffect DEF IInv, Places
  <1>4. /\ client' \in Client({}) /\ DOMAIN client'.pending = {}
        /\ client'.request_id = client.request_id
    <2>1. DOMAIN <<>> = {} /\ <<>> \in [{} -> Future]
      OBVIOUS
    <2>2. client \in Client(DOMAIN client.pending)
      BY DEF IInv, TypeOK
    <2>3. client'.pending = <<>> /\ client'.request_id = client.request_id
      BY <1>1, <2>2 DEF Client
    <2>4. client' \in Client({})
      BY <1>1, <2>1, <2>2 DEF Client
    <2>5. QED
      BY <2>1, <2>3, <2>4
  <1>5. \A f \in Files : tracer[f].st \notin {"ready", "waiting", "backoff"}
    BY <1>1, FuturesLeft
  <1>6. /\ tracer \in [Files -> Tracer] /\ server \in Server /\ pipe \in Seq(Sent)
    BY DEF IInv, TypeOK
  <1>7. /\ server' \in Server /\ server'.todo \subseteq server.todo /\ ~ server'.up
        /\ pipe' \in Seq(Sent)
        /\ \A i \in 1 .. Len(pipe') :
             (i \in 1 .. Len(pipe) /\ pipe'[i] = pipe[i]) \/ pipe'[i].future.st # "value"
    <2>1. CASE server.up
      <3>1. server' = [server EXCEPT !.up = FALSE, !.todo = {}] /\ Write(Eof)
        BY <1>1, <2>1 DEF Exited
      <3>2. Eof \in Sent /\ Eof.future.st = "none"
        BY ValueTypes DEF Eof, Sent
      <3>3. server' \in Server /\ server'.todo = {} /\ ~ server'.up
        BY <1>6, <3>1 DEF Server
      <3>4. QED
        BY <3>1, <3>2, <3>3, WriteTypes DEF IInv
    <2>2. CASE ~ server.up
      BY <1>1, <1>6, <2>2
    <2>3. QED
      BY <2>1, <2>2
  <1>8. ServerTended'
    BY <1>7 DEF ServerTended
  <1>9. agent'.pc \notin {"init", "settling", "greeting", "bye"}
    BY <1>2, <1>3
  <1>10. QED
    BY <1>1, <1>3, <1>4, <1>5, <1>6, <1>7, <1>8, <1>9, DroppingMove

LEMMA CloseReaderKeeps ==
  ASSUME IInv, CloseReader
  PROVE  IInv'
  <1> DEFINE c == [client EXCEPT !.initialized = FALSE,
                                 !.reader = IF client.reader = "reading" THEN "cancelled"
                                                                         ELSE client.reader]
  <1>1. /\ agent.pc = "closing" /\ Goto("bye")
        /\ client' = Asked(c, Goodbye)
        /\ pipe' = <<>>
        /\ server' = Received(Goodbye, TRUE)
        /\ UNCHANGED <<guarded, tracer, findings>>
    BY DEF CloseReader
  <1>2. agent' \in Agent /\ agent'.pc = "bye"
    BY <1>1, GotoEffect DEF IInv, Places
  <1>3. client \in Client({}) /\ DOMAIN client.pending = {}
    <2>1. DOMAIN client.pending = {}
      BY <1>1, FuturesLeft
    <2>2. client \in Client(DOMAIN client.pending)
      BY DEF IInv, TypeOK
    <2>3. QED
      BY <2>1, <2>2
  <1>4. c \in Client({}) /\ c.pending = client.pending /\ c.request_id = client.request_id
    BY <1>3 DEF Client
  <1> HIDE DEF c
  <1>5. /\ DOMAIN client'.pending = {client.request_id + 1}
        /\ client' \in Client(DOMAIN client'.pending)
        /\ client'.request_id = client.request_id + 1
        /\ DOMAIN client'.pending \subseteq Nat
    <2>1. DOMAIN c.pending = {} /\ c \in Client(DOMAIN c.pending) /\ DOMAIN c.pending \subseteq Nat
      BY <1>3, <1>4
    <2>2. /\ DOMAIN client'.pending = DOMAIN c.pending \union {c.request_id + 1}
          /\ client' \in Client(DOMAIN client'.pending)
          /\ client'.request_id = c.request_id + 1
          /\ DOMAIN client'.pending \subseteq Nat
      BY <1>1, <2>1, AskedEffect
    <2>3. QED
      BY <1>4, <2>1, <2>2
  <1>6. /\ server' \in Server
        /\ \A r \in server'.todo : r \in server.todo \/ r.id = client.request_id + 1
    BY <1>1, ReceivedEffect, ValueTypes DEF IInv
  <1>7. client.request_id \in Nat
    BY <1>3 DEF Client
  <1>8. TypeOK'
    <2>1. pipe' \in Seq(Sent)
      BY <1>1
    <2>2. QED
      BY <1>1, <1>2, <1>5, <1>6, <2>1 DEF IInv, TypeOK
  <1>9. \A f \in Files : tracer[f].st \notin {"ready", "waiting", "backoff"}
    BY <1>1, FuturesLeft
  <1>10. TracersPlaced'
    BY <1>1, <1>9 DEF TracersPlaced
  <1>11. RequestsAwaited'
    BY <1>1, <1>2, <1>5, <1>9 DEF RequestsAwaited
  <1>12. ServerTended'
    BY <1>2 DEF ServerTended
  <1>13. /\ client.request_id <= client'.request_id
         /\ \A i \in DOMAIN client'.pending : i <= client'.request_id /\ i \notin DOMAIN client.pending
    BY <1>3, <1>5, <1>7
  <1>14. \A r \in server'.todo : r \in server.todo
           \/ (r.id = client.request_id + 1 /\ r.id <= client'.request_id)
    BY <1>5, <1>6, <1>7
  <1>15. \A i \in 1 .. Len(pipe') :
           (i \in 1 .. Len(pipe) /\ pipe'[i] = pipe[i]) \/ pipe'[i].future.st # "value"
    BY <1>1
  <1>16. agent'.pc \notin {"init", "settling"}
    BY <1>2
  <1>17. QED
    BY <1>1, <1>8, <1>10, <1>11, <1>12, <1>13, <1>14, <1>15, <1>16, AgentMoves

\* A move of the scan that starts tracers, of the batch it takes in hand, when no other
\* tracer is at work.
LEMMA StartingMove ==
  ASSUME IInv, agent' \in Agent, UNCHANGED <<guarded, client, findings, server, pipe>>,
         agent.pc \notin {"greeting", "bye"},
         agent'.pc \notin {"init", "settling", "greeting", "bye"},
         \A f \in Files : tracer[f].st \notin {"ready", "waiting", "backoff"},
         \A f \in Files : tracer'[f] = tracer[f] \/
           (tracer'[f] = [tracer[f] EXCEPT !.st = "ready"]
             /\ agent'.pc = "trace" /\ f \in Head(agent'.batches)),
         tracer' = [f \in Files |-> tracer'[f]],
         ServerTended'
  PROVE  IInv'
  <1>1. tracer \in [Files -> Tracer]
    BY DEF IInv, TypeOK
  <1>2. \A f \in Files : /\ [tracer[f] EXCEPT !.st = "ready"] \in Tracer
                         /\ [tracer[f] EXCEPT !.st = "ready"].st = "ready"
    BY <1>1 DEF Tracer
  <1>3. tracer' \in [Files -> Tracer]
    BY <1>1, <1>2
  <1>4. TypeOK'
    BY <1>3 DEF IInv, TypeOK
  <1>5. \A f \in Files : /\ tracer'[f].st # "waiting"
                         /\ tracer'[f] = tracer[f] \/ tracer'[f].st \in {"ready", "cancelled"}
                         /\ tracer'[f].st \in {"ready", "waiting", "backoff"} =>
                              agent'.pc = "trace" /\ f \in Head(agent'.batches)
    BY <1>2
  <1>6. TracersPlaced'
    BY <1>5 DEF TracersPlaced, InHand
  <1>7. RequestsAwaited'
    BY <1>5 DEF IInv, RequestsAwaited
  <1>8. client.request_id <= client.request_id /\ \A i \in DOMAIN client.pending : i <= client.request_id
    BY DEF IInv, TypeOK, Client, IdsDrawn
  <1>9. QED
    BY <1>4, <1>5, <1>6, <1>7, <1>8, AgentMoves

LEMMA ScannedKeeps ==
  ASSUME IInv, Scanned
  PROVE  IInv'
  <1>1. /\ agent.pc = "scan"
        /\ agent' = [agent EXCEPT !.pc = IF agent.initialized THEN "trace" ELSE "rest",
                                  !.then = "done"]
        /\ tracer' = [f \in Files |->
             IF agent.initialized /\ f \in InHand THEN [tracer[f] EXCEPT !.st = "ready"]
                                                ELSE tracer[f]]
        /\ UNCHANGED <<guarded, client, findings, server, pipe>>
    BY DEF Scanned
  <1>2. /\ agent' \in Agent
        /\ agent'.pc = (IF agent.initialized THEN "trace" ELSE "rest")
        /\ agent'.batches = agent.batches
        /\ agent'.started = agent.started /\ agent'.cut = agent.cut
    BY <1>1 DEF IInv, TypeOK, Agent
  <1>3. \A f \in Files : tracer[f].st \notin {"ready", "waiting", "backoff"}
    BY <1>1, FuturesLeft
  <1>4. \A f \in Files : tracer'[f] = tracer[f] \/
          (tracer'[f] = [tracer[f] EXCEPT !.st = "ready"]
            /\ agent'.pc = "trace" /\ f \in Head(agent'.batches))
    BY <1>1, <1>2 DEF InHand
  <1>5. ServerTended'
    BY <1>1, <1>2 DEF IInv, ServerTended
  <1>6. tracer' = [f \in Files |-> tracer'[f]]
    BY <1>1
  <1>7. agent'.pc \notin {"init", "settling", "greeting", "bye"}
    BY <1>2
  <1>8. QED
    BY <1>1, <1>2, <1>3, <1>4, <1>5, <1>6, <1>7, StartingMove

LEMMA NextBatchKeeps ==
  ASSUME IInv, NextBatch
  PROVE  IInv'
  <1>1. /\ agent.pc = "trace" /\ Len(agent.batches) > 1
        /\ \A f \in InHand : Traced(f)
        /\ agent' = [agent EXCEPT !.batches = Tail(agent.batches)]
        /\ tracer' = [f \in Files |->
             IF f \in agent.batches[2] THEN [tracer[f] EXCEPT !.st = "ready"] ELSE tracer[f]]
        /\ UNCHANGED <<guarded, client, findings, server, pipe>>
    BY DEF NextBatch
  <1>2. agent \in Agent /\ agent.batches \in Seq(SUBSET Files)
    BY DEF IInv, TypeOK, Agent
  <1>3. Tail(agent.batches) \in Seq(SUBSET Files) /\ Head(Tail(agent.batches)) = agent.batches[2]
    BY <1>1, <1>2
  <1>4. /\ agent' \in Agent /\ agent'.pc = "trace"
        /\ agent'.batches = Tail(agent.batches)
        /\ agent'.started = agent.started /\ agent'.cut = agent.cut
    BY <1>1, <1>2, <1>3 DEF Agent
  <1>5. \A f \in Files : tracer[f].st \notin {"ready", "waiting", "backoff"}
    BY <1>1 DEF IInv, TracersPlaced, Traced
  <1>6. \A f \in Files : tracer'[f] = tracer[f] \/
          (tracer'[f] = [tracer[f] EXCEPT !.st = "ready"]
            /\ agent'.pc = "trace" /\ f \in Head(agent'.batches))
    BY <1>1, <1>3, <1>4
  <1>7. ServerTended'
    BY <1>1, <1>4 DEF IInv, ServerTended
  <1>8. tracer' = [f \in Files |-> tracer'[f]]
    BY <1>1
  <1>9. QED
    BY <1>1, <1>4, <1>5, <1>6, <1>7, <1>8, StartingMove

-----------------------------------------------------------------------------
(* The steps of the reader, of the server and of the tracers. *)

LEMMA ReadKeeps ==
  ASSUME IInv, Read
  PROVE  IInv'
  <1>1. /\ TypeOK' /\ DOMAIN client'.pending = DOMAIN client.pending
        /\ client'.request_id = client.request_id
        /\ \A i \in 1 .. Len(pipe') : i + 1 \in 1 .. Len(pipe) /\ pipe'[i] = pipe[i + 1]
        /\ \A k \in DOMAIN client.pending : client'.pending[k].st = "value" =>
             \/ client'.pending[k] = client.pending[k]
             \/ \E i \in 1 .. Len(pipe) :
                  pipe[i].id = k /\ client'.pending[k] = pipe[i].future
    BY ReadEffect DEF IInv
  <1>2. UNCHANGED <<guarded, agent, tracer, findings, server>>
    BY DEF Read
  <1>3. RequestsAwaited'
    BY <1>1, <1>2 DEF IInv, RequestsAwaited
  <1>4. TracersPlaced' /\ VerdictsTrue' /\ SuppressedOnlyIfGuarded' /\ ServerTended'
    BY <1>2 DEF IInv, TracersPlaced, InHand, VerdictsTrue, SuppressedOnlyIfGuarded, ServerTended
  <1>5. IdsDrawn'
    BY <1>1, <1>2 DEF IInv, IdsDrawn
  <1>6. AnswersFit'
    <2>1. \A f \in Files : tracer[f].st = "waiting" => tracer[f].id \in DOMAIN client.pending
      BY DEF IInv, RequestsAwaited
    <2>2. AnswersFit
      BY DEF IInv
    <2>3. \A i \in 1 .. Len(pipe') :
            pipe'[i].future.st = "value" => pipe'[i].id <= client.request_id
      BY <1>1, <2>2 DEF AnswersFit
    <2>4. \A r \in server.todo : r.id <= client.request_id
      BY <2>2 DEF AnswersFit
    <2>5. ASSUME NEW f \in Files, tracer[f].st = "waiting"
          PROVE  /\ client'.pending[tracer[f].id].st = "value" =>
                      client'.pending[tracer[f].id].to.doc = f
                 /\ \A r \in server.todo : r.id = tracer[f].id => r.ask.doc = f
                 /\ \A i \in 1 .. Len(pipe') :
                      pipe'[i].id = tracer[f].id /\ pipe'[i].future.st = "value" =>
                        pipe'[i].future.to.doc = f
      <3>1. /\ client.pending[tracer[f].id].st = "value" =>
                 client.pending[tracer[f].id].to.doc = f
            /\ \A r \in server.todo : r.id = tracer[f].id => r.ask.doc = f
            /\ \A i \in 1 .. Len(pipe) :
                 pipe[i].id = tracer[f].id /\ pipe[i].future.st = "value" =>
                   pipe[i].future.to.doc = f
        BY <2>2, <2>5 DEF AnswersFit
      <3>2. QED
        BY <1>1, <2>1, <2>5, <3>1
    <2>6. QED
      BY <1>1, <1>2, <2>3, <2>4, <2>5 DEF AnswersFit
  <1>7. QED
    BY <1>1, <1>3, <1>4, <1>5, <1>6 DEF IInv

LEMMA ServerKeeps ==
  ASSUME IInv, ServerStep
  PROVE  IInv'
  <1>1. /\ TypeOK'
        /\ UNCHANGED <<guarded, agent, client, tracer, findings>>
        /\ server'.up => server.up
        /\ server'.todo \subseteq server.todo
        /\ \A i \in 1 .. Len(pipe') :
             \/ i \in 1 .. Len(pipe) /\ pipe'[i] = pipe[i]
             \/ pipe'[i].future.st # "value"
             \/ \E r \in server.todo : pipe'[i].id = r.id /\ pipe'[i].future.to = r.ask
    BY ServerEffect DEF IInv
  <1>2. RequestsAwaited' /\ IdsDrawn'
    BY <1>1 DEF IInv, RequestsAwaited, IdsDrawn
  <1>3. TracersPlaced' /\ VerdictsTrue' /\ SuppressedOnlyIfGuarded'
    BY <1>1 DEF IInv, TracersPlaced, InHand, VerdictsTrue, SuppressedOnlyIfGuarded
  <1>4. ServerTended'
    BY <1>1 DEF IInv, ServerTended
  <1>5. AnswersFit'
    <2>1. AnswersFit
      BY DEF IInv
    <2>2. \A i \in 1 .. Len(pipe') :
            pipe'[i].future.st = "value" => pipe'[i].id <= client.request_id
      BY <1>1, <2>1 DEF AnswersFit
    <2>3. ASSUME NEW f \in Files, tracer[f].st = "waiting",
                 NEW i \in 1 .. Len(pipe'), pipe'[i].id = tracer[f].id,
                 pipe'[i].future.st = "value"
          PROVE  pipe'[i].future.to.doc = f
      BY <1>1, <2>1, <2>3 DEF AnswersFit
    <2>4. QED
      BY <1>1, <2>1, <2>2, <2>3 DEF AnswersFit
  <1>6. QED
    BY <1>1, <1>2, <1>3, <1>4, <1>5 DEF IInv

LEMMA AskKeeps ==
  ASSUME IInv, NEW f \in Files, Ask(f)
  PROVE  IInv'
  <1>1. /\ TypeOK' /\ agent.pc = "trace" /\ f \in InHand
        /\ UNCHANGED <<guarded, agent, findings, pipe>>
        /\ \A g \in Files \ {f} : tracer'[g] = tracer[g]
        /\ server'.up = server.up
    BY AskEffect DEF IInv
  <1>2. /\ SuppressedOnlyIfGuarded' /\ ServerTended'
    BY <1>1 DEF IInv, SuppressedOnlyIfGuarded, ServerTended
  <1>3. tracer[f].st = "ready"
    BY DEF Ask
  <1>4. CASE /\ tracer'[f].st \in {"noauth", "auth"} /\ client' = client /\ server' = server
             /\ tracer'[f].st = "auth" => f \in Procedures
    <2>1. \A g \in Files :
            \/ tracer'[g] = tracer[g]
            \/ /\ tracer'[g].st \in {"noauth", "auth"}
               /\ tracer'[g].st = "auth" => g \in Procedures
      BY <1>1, <1>4
    <2>2. TracersPlaced' /\ VerdictsTrue'
      BY <1>1, <2>1 DEF IInv, TracersPlaced, InHand, VerdictsTrue
    <2>3. RequestsAwaited'
      BY <1>1, <1>3, <1>4, <2>1 DEF IInv, RequestsAwaited
    <2>4. IdsDrawn'
      BY <1>1, <1>4, <2>1 DEF IInv, IdsDrawn
    <2>5. AnswersFit'
      BY <1>1, <1>4, <2>1 DEF IInv, AnswersFit
    <2>6. QED
      BY <1>1, <1>2, <2>2, <2>3, <2>4, <2>5 DEF IInv
  <1>5. CASE /\ tracer'[f].st = "waiting" /\ tracer'[f].id = client.request_id + 1
             /\ client'.request_id = client.request_id + 1
             /\ DOMAIN client'.pending = DOMAIN client.pending \union {client.request_id + 1}
             /\ client'.pending[client.request_id + 1] = Waiting
             /\ \A k \in DOMAIN client.pending : k # client.request_id + 1 =>
                  client'.pending[k] = client.pending[k]
             /\ \A r \in server'.todo : r \in server.todo
                  \/ (r.id = client.request_id + 1 /\ r.ask.doc = f)
    <2> DEFINE new == client.request_id + 1
    <2>1. /\ client.request_id \in Nat /\ DOMAIN client.pending \subseteq Nat
          /\ \A i \in 1 .. Len(pipe) : pipe[i].id \in Nat
          /\ \A r \in server.todo : r.id \in Nat
      <3>1. TypeOK
        BY DEF IInv
      <3>2. client.request_id \in Nat /\ DOMAIN client.pending \subseteq Nat
        BY <3>1 DEF TypeOK, Client
      <3>3. \A i \in 1 .. Len(pipe) : pipe[i] \in Sent
        BY <3>1 DEF TypeOK
      <3>4. \A r \in server.todo : r.id \in Nat
        BY <3>1 DEF TypeOK, Server, Request
      <3>5. QED
        BY <3>2, <3>3, <3>4 DEF Sent
    <2>2. /\ \A i \in DOMAIN client.pending : i <= client.request_id /\ i # new
          /\ \A r \in server.todo : r.id <= client.request_id /\ r.id # new
          /\ \A i \in 1 .. Len(pipe) : pipe[i].future.st = "value" =>
               pipe[i].id <= client.request_id /\ pipe[i].id # new
      BY <2>1 DEF IInv, IdsDrawn, AnswersFit
    <2>3. \A g \in Files : tracer'[g].st = "waiting" /\ g # f =>
            tracer'[g] = tracer[g] /\ tracer[g].id \in DOMAIN client.pending
      BY <1>1 DEF IInv, RequestsAwaited
    <2>4. TracersPlaced'
      BY <1>1 DEF IInv, TracersPlaced, InHand
    <2>5. VerdictsTrue'
      BY <1>1, <1>5 DEF IInv, VerdictsTrue
    <2>6. RequestsAwaited'
      <3>1. ASSUME NEW i \in DOMAIN client'.pending
            PROVE  \E g \in Files : tracer'[g].st = "waiting" /\ tracer'[g].id = i
        <4>1. CASE i = new
          BY <1>5, <4>1
        <4>2. CASE i \in DOMAIN client.pending
          <5>1. PICK g \in Files : tracer[g].st = "waiting" /\ tracer[g].id = i
            BY <1>1, <4>2 DEF IInv, RequestsAwaited
          <5>2. g # f
            BY <1>3, <5>1
          <5>3. QED
            BY <1>1, <5>1, <5>2
        <4>3. QED
          BY <1>5, <4>1, <4>2
      <3>2. \A g \in Files : tracer'[g].st = "waiting" => tracer'[g].id \in DOMAIN client'.pending
        BY <1>5, <2>3
      <3>3. QED
        BY <1>1, <3>1, <3>2 DEF RequestsAwaited
    <2>7. IdsDrawn'
      <3>1. \A i \in DOMAIN client'.pending : i <= client'.request_id
        BY <1>5, <2>1, <2>2
      <3>2. ASSUME NEW g \in Files, NEW h \in Files, tracer'[g].st = "waiting",
                   tracer'[h].st = "waiting", tracer'[g].id = tracer'[h].id
            PROVE  g = h
        <4>1. CASE g # f /\ h # f
          BY <3>2, <4>1, <2>3 DEF IInv, IdsDrawn
        <4>2. CASE g = f
          BY <3>2, <4>2, <1>5, <2>2, <2>3
        <4>3. CASE h = f
          BY <3>2, <4>3, <1>5, <2>2, <2>3
        <4>4. QED
          BY <4>1, <4>2, <4>3
      <3>3. QED
        BY <1>1, <3>1, <3>2 DEF IdsDrawn
    <2>8. AnswersFit'
      <3>1. \A r \in server'.todo : r.id <= client'.request_id
        BY <1>5, <2>1, <2>2
      <3>2. \A i \in 1 .. Len(pipe) :
              pipe[i].future.st = "value" => pipe[i].id <= client'.request_id
        BY <1>5, <2>1, <2>2
      <3>3. ASSUME NEW g \in Files, tracer'[g].st = "waiting"
            PROVE  /\ client'.pending[tracer'[g].id].st = "value" =>
                        client'.pending[tracer'[g].id].to.doc = g
                   /\ \A r \in server'.todo : r.id = tracer'[g].id => r.ask.doc = g
                   /\ \A i \in 1 .. Len(pipe) :
                        pipe[i].id = tracer'[g].id /\ pipe[i].future.st = "value" =>
                          pipe[i].future.to.doc = g
        <4>1. CASE g = f
          <5>1. client'.pending[tracer'[g].id].st # "value"
            BY <1>5, <4>1 DEF Waiting
          <5>2. \A r \in server'.todo : r.id = tracer'[g].id => r.ask.doc = g
            BY <1>5, <2>2, <4>1
          <5>3. \A i \in 1 .. Len(pipe) :
                  ~ (pipe[i].id = tracer'[g].id /\ pipe[i].future.st = "value")
            BY <1>5, <2>2, <4>1
          <5>4. QED
            BY <5>1, <5>2, <5>3
        <4>2. CASE g # f
          <5>1. /\ tracer'[g] = tracer[g] /\ tracer[g].id \in DOMAIN client.pending
                /\ tracer[g].id # new
            BY <2>2, <2>3, <3>3, <4>2
          <5>2. /\ client.pending[tracer[g].id].st = "value" =>
                     client.pending[tracer[g].id].to.doc = g
                /\ \A r \in server.todo : r.id = tracer[g].id => r.ask.doc = g
                /\ \A i \in 1 .. Len(pipe) :
                     pipe[i].id = tracer[g].id /\ pipe[i].future.st = "value" =>
                       pipe[i].future.to.doc = g
            BY <3>3, <5>1 DEF IInv, AnswersFit
          <5>3. \A r \in server'.todo : r.id = tracer[g].id => r \in server.todo
            BY <1>5, <5>1
          <5>4. QED
            BY <1>5, <5>1, <5>2, <5>3
        <4>3. QED
          BY <4>1, <4>2
      <3>4. QED
        BY <1>1, <3>1, <3>2, <3>3 DEF AnswersFit
    <2>9. QED
      BY <1>1, <1>2, <2>4, <2>5, <2>6, <2>7, <2>8 DEF IInv
  <1>6. QED
    BY <1>4, <1>5, AskEffect DEF IInv

LEMMA WaitEndKeeps ==
  ASSUME IInv, NEW f \in Files, Answered(f) \/ TimedOut(f)
  PROVE  IInv'
  <1> DEFINE id == tracer[f].id
  <1>1. /\ TypeOK' /\ tracer[f].st = "waiting"
        /\ UNCHANGED <<guarded, agent, findings, server, pipe>>
        /\ \A g \in Files \ {f} : tracer'[g] = tracer[g]
        /\ DOMAIN client'.pending = DOMAIN client.pending \ {id}
        /\ \A k \in DOMAIN client'.pending : client'.pending[k] = client.pending[k]
        /\ client'.request_id = client.request_id
        /\ tracer'[f].st # "waiting"
        /\ tracer'[f].st = "auth" /\ f \notin Procedures =>
             client.pending[id].st = "value" /\ client.pending[id].to.doc \in guarded
    BY WaitEndEffect DEF IInv
  <1>2. SuppressedOnlyIfGuarded' /\ ServerTended'
    BY <1>1 DEF IInv, SuppressedOnlyIfGuarded, ServerTended
  <1>3. TracersPlaced'
    BY <1>1 DEF IInv, TracersPlaced, InHand
  <1>4. VerdictsTrue'
    <2>1. tracer'[f].st = "auth" => f \in guarded \union Procedures
      BY <1>1 DEF IInv, AnswersFit
    <2>2. QED
      BY <1>1, <2>1 DEF IInv, VerdictsTrue
  <1>5. agent.pc = "trace"
    BY <1>1 DEF IInv, TracersPlaced
  <1>6. ASSUME NEW g \in Files, tracer'[g].st = "waiting"
        PROVE  /\ tracer'[g] = tracer[g] /\ g # f
               /\ tracer[g].id \in DOMAIN client'.pending
               /\ client'.pending[tracer[g].id] = client.pending[tracer[g].id]
    <2>1. g # f /\ tracer'[g] = tracer[g]
      BY <1>1, <1>6
    <2>2. tracer[g].id # id /\ tracer[g].id \in DOMAIN client.pending
      BY <1>1, <1>6, <2>1 DEF IInv, IdsDrawn, RequestsAwaited
    <2>3. QED
      BY <1>1, <2>1, <2>2
  <1>7. RequestsAwaited'
    <2>1. ASSUME NEW i \in DOMAIN client'.pending
          PROVE  \E g \in Files : tracer'[g].st = "waiting" /\ tracer'[g].id = i
      <3>1. i \in DOMAIN client.pending /\ i # id
        BY <1>1
      <3>2. PICK g \in Files : tracer[g].st = "waiting" /\ tracer[g].id = i
        BY <1>5, <3>1 DEF IInv, RequestsAwaited
      <3>3. QED
        BY <1>1, <3>1, <3>2
    <2>2. QED
      BY <1>1, <1>5, <1>6, <2>1 DEF RequestsAwaited
  <1>8. IdsDrawn'
    <2>1. \A i \in DOMAIN client'.pending : i <= client'.request_id
      BY <1>1 DEF IInv, IdsDrawn
    <2>2. \A g, h \in Files :
            tracer'[g].st = "waiting" /\ tracer'[h].st = "waiting" /\ tracer'[g].id = tracer'[h].id
            => g = h
      BY <1>6 DEF IInv, IdsDrawn
    <2>3. QED
      BY <1>1, <1>5, <2>1, <2>2 DEF IdsDrawn
  <1>9. AnswersFit'
    BY <1>1, <1>6 DEF IInv, AnswersFit
  <1>10. QED
    BY <1>1, <1>2, <1>3, <1>4, <1>7, <1>8, <1>9 DEF IInv

LEMMA BackedOffKeeps ==
  ASSUME IInv, NEW f \in Files, BackedOff(f)
  PROVE  IInv'
  <1>1. /\ tracer[f].st = "backoff"
        /\ tracer' = [tracer EXCEPT ![f] = [tracer[f] EXCEPT !.st = "ready"]]
        /\ UNCHANGED <<guarded, agent, client, findings, server, pipe>>
    BY DEF BackedOff, IInv, TypeOK
  <1>2. [tracer[f] EXCEPT !.st = "ready"] \in Tracer /\ [tracer[f] EXCEPT !.st = "ready"].st = "ready"
    BY TracerTypes DEF IInv, Tracer
  <1>3. /\ tracer' \in [Files -> Tracer] /\ tracer'[f].st = "ready"
        /\ \A g \in Files \ {f} : tracer'[g] = tracer[g]
    BY <1>1, <1>2, TracerTypes DEF IInv
  <1>4. TypeOK'
    BY <1>1, <1>3 DEF IInv, TypeOK
  <1>5. \A g \in Files : tracer'[g].st = "waiting" \/ tracer[g].st = "waiting" \/ tracer'[g].st = "auth"
          => tracer'[g] = tracer[g]
    BY <1>1, <1>3
  <1>6. TracersPlaced' /\ VerdictsTrue' /\ SuppressedOnlyIfGuarded' /\ ServerTended'
    BY <1>1, <1>3 DEF IInv, TracersPlaced, InHand, VerdictsTrue, SuppressedOnlyIfGuarded, ServerTended
  <1>7. RequestsAwaited'
    BY <1>1, <1>5 DEF IInv, RequestsAwaited
  <1>8. IdsDrawn'
    BY <1>1, <1>5 DEF IInv, IdsDrawn
  <1>9. AnswersFit'
    BY <1>1, <1>5 DEF IInv, AnswersFit
  <1>10. QED
    BY <1>4, <1>6, <1>7, <1>8, <1>9 DEF IInv

-----------------------------------------------------------------------------
(* The theorems. *)

LEMMA InitInv ==
  Init => IInv
  <1> SUFFICES ASSUME Init PROVE IInv
    OBVIOUS
  <1>1. TypeOK
    BY InitTypes
  <1>2. /\ agent.pc = "init" /\ client.pending = <<>> /\ DOMAIN client.pending = {}
        /\ client.request_id = 0 /\ ~ server.up /\ server.todo = {} /\ pipe = <<>>
        /\ findings = Files
        /\ \A f \in Files : tracer[f].st = "queued"
    BY DEF Init, NewTracer
  <1>3. RequestsAwaited /\ TracersPlaced /\ IdsDrawn
    BY <1>2 DEF RequestsAwaited, TracersPlaced, IdsDrawn
  <1>4. AnswersFit /\ VerdictsTrue /\ SuppressedOnlyIfGuarded /\ ServerTended
    BY <1>2 DEF AnswersFit, VerdictsTrue, SuppressedOnlyIfGuarded, ServerTended
  <1>5. QED
    BY <1>1, <1>3, <1>4 DEF IInv

LEMMA NextKeeps ==
  IInv /\ [Next]_vars => IInv'
  <1> SUFFICES ASSUME IInv, [Next]_vars PROVE IInv'
    OBVIOUS
  <1>1. CASE UNCHANGED vars
    BY <1>1 DEF vars, IInv, TypeOK, RequestsAwaited, TracersPlaced, InHand, IdsDrawn, AnswersFit,
       VerdictsTrue, SuppressedOnlyIfGuarded, ServerTended
  <1>2. CASE AgentStep
    <2>1. CASE InitTimesOut
      BY <2>1, CutKeeps DEF InitTimesOut
    <2>2. QED
      BY <1>2, <2>1, NoServerKeeps, SpawnKeeps, ExitedAtOnceKeeps, GreetKeeps, GreetEndsKeeps,
         ScannedKeeps, NextBatchKeeps, ValidateKeeps, FinishKeeps, CleanupKeeps,
         CloseReaderKeeps, ByeKeeps, ReapKeeps DEF AgentStep, ShutdownStep
  <1>3. CASE TraceTimesOut
    BY <1>3, CancelKeeps DEF TraceTimesOut
  <1>4. CASE Read \/ ServerStep \/ Stop
    BY <1>4, ReadKeeps, ServerKeeps, StopKeeps
  <1>5. CASE \E f \in Files : TracerStep(f)
    BY <1>5, AskKeeps, WaitEndKeeps, BackedOffKeeps DEF TracerStep
  <1>6. QED
    BY <1>1, <1>2, <1>3, <1>4, <1>5 DEF Next

\* The inductive invariant holds in every reachable state.
THEOREM InvCorrect == Spec => []IInv
  <1>1. QED
    BY InitInv, NextKeeps, PTL DEF Spec

\* The client knows exactly the requests that are awaited, however requests end, and
\* every variable keeps its type.
THEOREM RequestsAreAwaited == Spec => []ClientOK
  <1>1. IInv => ClientOK
    <2> SUFFICES ASSUME IInv PROVE ClientOK
      OBVIOUS
    <2> DEFINE Waits == {tracer[f].id : f \in {g \in Files : tracer[g].st = "waiting"}}
               Greets == IF agent.pc = "greeting" THEN {1} ELSE {}
               Leaves == IF agent.pc = "bye" THEN {client.request_id} ELSE {}
    <2>1. RequestsAwaited
      BY DEF IInv
    <2>2. DOMAIN client.pending \subseteq Waits \union Greets \union Leaves
      BY <2>1 DEF RequestsAwaited
    <2>3. Waits \union Greets \union Leaves \subseteq DOMAIN client.pending
      BY <2>1 DEF RequestsAwaited
    <2>4. PendingIsAwaited
      BY <2>2, <2>3 DEF PendingIsAwaited
    <2>5. QED
      BY <2>4 DEF IInv, ClientOK
  <1>2. QED
    BY <1>1, InvCorrect, PTL

\* No "missing auth" finding is suppressed unless its route is guarded, or is a procedure
\* whose import is trusted: no late, foreign, unresolved or refused answer passes for the
\* one that was asked for.
THEOREM SuppressionsAreRight == Spec => []SuppressedOnlyIfGuarded
  <1>1. IInv => SuppressedOnlyIfGuarded
    BY DEF IInv
  <1>2. QED
    BY <1>1, InvCorrect, PTL

\* The server does not outlive the scan, unless the initialization or the clean-up was
\* cut off.
THEOREM ServersAreReaped == Spec => []ServerReaped
  <1>1. IInv => ServerReaped
    BY DEF IInv, ServerTended, ServerReaped
  <1>2. QED
    BY <1>1, InvCorrect, PTL

=============================================================================
