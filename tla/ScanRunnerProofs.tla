-------------------------- MODULE ScanRunnerProofs --------------------------
(***************************************************************************)
(* Proofs about ScanRunner for any phases, scanners, flaws and progress.   *)
(***************************************************************************)
EXTENDS ScanRunner, FiniteSetTheorems, TLAPS

PhaseIds == 1 .. Len(Phases)
Places(p) == 1 .. Len(Phases[p].scanners)
At(p, i) == Phases[p].scanners[i]

-----------------------------------------------------------------------------
(* The inductive invariant. *)

Types ==
  /\ present \subseteq Flaws
  /\ driver \in Driver
  /\ queue \in Seq(Message)
  /\ worker \in [Scanners -> Worker]
  /\ results \in [Scanners -> SUBSET Flaws]
  /\ errors \subseteq Scanners

\* The generator is within the phases until the scan is complete, and announces the
\* scanners of a pool one by one.
DriverPlaced ==
  /\ driver.pc \notin {"begin", "complete"} => driver.phase \in PhaseIds
  /\ driver.pc = "complete" => driver.phase = Len(Phases) + 1
  /\ driver.pc = "launch" => Phase.kind = "pool" /\ driver.at < Len(Phase.scanners)

\* The scanners of earlier phases have ended, what a phase awaits alone has returned,
\* and no scanner runs before its turn.
WorkersPlaced ==
  \A p \in PhaseIds : \A i \in Places(p) :
    LET st == worker[At(p, i)].st IN
    /\ p < driver.phase => st = "returned" \/ (st = "raised" /\ Phases[p].kind = "pool")
    /\ \/ p > driver.phase
       \/ p = driver.phase /\ driver.pc = "begin"
       \/ p = driver.phase /\ driver.pc = "launch" /\ i > driver.at
       => st = "new"

\* What a scanner leaves behind: its findings, or its name among the errors.
WorkAccounted ==
  \A s \in Scanners :
    /\ worker[s].st \in {"returned", "raised"} /\ s \notin errors =>
         IF worker[s].st = "returned"
           THEN Kind(s) # "task" =>
                  /\ results[s] = worker[s].found
                  /\ LookedEverywhere(s) \/ s \in Cooperative \/ worker[s].skipped
           ELSE Kind(s) # "pool"
    /\ worker[s].skipped => s \in Skipping
    /\ s \in errors /\ ~ worker[s].skipped => Ended(s) /\ results[s] = {}

\* What was skipped in a phase that is over is known.
SkipsRead ==
  \A p \in PhaseIds : p < driver.phase =>
    \A s \in Members(p) : Phases[p].reads_skipped /\ worker[s].skipped => s \in errors

\* A completion marker in the queue is of a scanner of the present pool that has ended and
\* was not announced, and is its only one.
QueueRight ==
  /\ \A i \in DOMAIN queue : queue[i].done =>
       /\ Ended(queue[i].from) /\ driver.told[queue[i].from] = 0
       /\ driver.phase \in PhaseIds /\ queue[i].from \in Members(driver.phase)
       /\ Phase.kind = "pool"
  /\ \A i, j \in DOMAIN queue :
       queue[i].done /\ queue[j].done /\ queue[i].from = queue[j].from => i = j

\* The announced scanners: those of all earlier pools, and as many of the present pool
\* as the drain has counted.
Told(p) == {s \in Members(p) : driver.told[s] = 1}
ToldRight ==
  /\ \A s \in Scanners : driver.told[s] \in {0, 1}
  /\ \A s \in Scanners : driver.told[s] = 1 => Ended(s) /\ Kind(s) = "pool"
  /\ \A p \in PhaseIds : p < driver.phase /\ Phases[p].kind = "pool" => Told(p) = Members(p)
  /\ driver.phase \in PhaseIds /\ Phase.kind = "pool" /\ driver.pc # "begin" =>
       driver.done = Cardinality(Told(driver.phase))

\* Once a drain was stopped no scanner runs.
StoppedQuiet ==
  driver.pc = "closed" /\ driver.owned => \A s \in Scanners : worker[s].st # "running"

IInv ==
  /\ Types /\ DriverPlaced /\ WorkersPlaced /\ WorkAccounted /\ SkipsRead
  /\ QueueRight /\ ToldRight /\ StoppedQuiet

-----------------------------------------------------------------------------
(* The phases. *)

\* A phase and its places have their types.
LEMMA PhaseTypes ==
  /\ Len(Phases) \in Nat
  /\ \A p \in PhaseIds :
       /\ p \in Nat
       /\ Phases[p].kind \in Kinds /\ Phases[p].reads_skipped \in BOOLEAN
       /\ Phases[p].scanners \in Seq(Scanners) /\ Len(Phases[p].scanners) \in Nat
       /\ \A i \in Places(p) : i \in Nat /\ At(p, i) \in Scanners
       /\ Members(p) = {At(p, i) : i \in Places(p)}
       /\ Members(p) \subseteq Scanners
       /\ Phases[p].kind # "pool" => Len(Phases[p].scanners) = 1
  <1>1. /\ Phases \in Seq([kind : Kinds, scanners : Seq(Scanners), reads_skipped : BOOLEAN])
        /\ \A p \in PhaseIds : Phases[p].kind # "pool" => Len(Phases[p].scanners) = 1
    BY ScanAssumption DEF PhaseIds
  <1>2. Len(Phases) \in Nat
    BY <1>1
  <1>3. \A p \in PhaseIds :
          p \in Nat /\ Phases[p] \in [kind : Kinds, scanners : Seq(Scanners), reads_skipped : BOOLEAN]
    <2> DEFINE P == [kind : Kinds, scanners : Seq(Scanners), reads_skipped : BOOLEAN]
    <2>1. Phases \in Seq(P)
      BY <1>1
    <2> HIDE DEF P
    <2>2. \A p \in PhaseIds : p \in Nat /\ Phases[p] \in P
      BY <2>1, <1>2 DEF PhaseIds
    <2>3. QED
      BY <2>2 DEF P
  <1>4. ASSUME NEW p \in PhaseIds
        PROVE  /\ Phases[p].kind \in Kinds /\ Phases[p].reads_skipped \in BOOLEAN
               /\ Phases[p].scanners \in Seq(Scanners) /\ Len(Phases[p].scanners) \in Nat
               /\ \A i \in Places(p) : i \in Nat /\ At(p, i) \in Scanners
    BY <1>3 DEF Places, At
  <1>5. \A p \in PhaseIds : Members(p) = {At(p, i) : i \in Places(p)}
    BY DEF Members, At, Places
  <1>6. QED
    BY <1>1, <1>2, <1>3, <1>4, <1>5

\* A place is of one scanner, and a scanner of one phase, whose kind is its own.
LEMMA OnePlace ==
  /\ \A s \in Scanners : \E p \in PhaseIds : \E i \in Places(p) : s = At(p, i)
  /\ \A p, q \in PhaseIds : \A i \in Places(p), j \in Places(q) :
       At(p, i) = At(q, j) => p = q /\ i = j
  /\ \A p, q \in PhaseIds : Members(p) \intersect Members(q) # {} => p = q
  /\ \A p \in PhaseIds : \A s \in Members(p) : Kind(s) = Phases[p].kind
  <1>1. \A p, q \in PhaseIds : \A i \in Places(p), j \in Places(q) :
          At(p, i) = At(q, j) => p = q /\ i = j
    BY PlacementAssumption DEF At, Places, PhaseIds
  <1>2. \A s \in Scanners : \E p \in PhaseIds : \E i \in Places(p) : s = At(p, i)
    BY PlacementAssumption, PhaseTypes DEF PhaseIds
  <1>3. \A p, q \in PhaseIds : Members(p) \intersect Members(q) # {} => p = q
    BY <1>1, PhaseTypes
  <1>4. ASSUME NEW p \in PhaseIds, NEW s \in Members(p)
        PROVE  Kind(s) = Phases[p].kind
    <2>1. (CHOOSE q \in 1 .. Len(Phases) : s \in Members(q)) = p
      BY <1>3 DEF PhaseIds
    <2>2. QED
      BY <2>1 DEF Kind
  <1>5. QED
    BY <1>1, <1>2, <1>3, <1>4

\* A phase has no more scanners than places.
LEMMA MembersFinite ==
  ASSUME NEW p \in PhaseIds
  PROVE  /\ IsFiniteSet(Members(p)) /\ Cardinality(Members(p)) \in Nat
         /\ Cardinality(Members(p)) <= Len(Phases[p].scanners)
  <1> DEFINE n == Len(Phases[p].scanners)
             place == [i \in 1 .. n |-> At(p, i)]
  <1>1. n \in Nat /\ Members(p) = {At(p, i) : i \in 1 .. n}
    BY PhaseTypes DEF Places
  <1>2. place \in Surjection(1 .. n, Members(p))
    BY <1>1 DEF Surjection
  <1>3. IsFiniteSet(1 .. n) /\ Cardinality(1 .. n) = n
    BY <1>1, FS_Interval
  <1> HIDE DEF n, place
  <1>4. IsFiniteSet(Members(p)) /\ Cardinality(Members(p)) <= Cardinality(1 .. n)
    BY <1>2, <1>3, FS_Surjection, Zenon
  <1>5. QED
    BY <1>3, <1>4, FS_CardinalityType DEF n

\* What a phase has counted: a part of its members, all of them when it is as many.
LEMMA ToldCounted ==
  ASSUME NEW p \in PhaseIds
  PROVE  /\ IsFiniteSet(Told(p)) /\ Cardinality(Told(p)) \in Nat
         /\ Cardinality(Told(p)) <= Len(Phases[p].scanners)
         /\ Cardinality(Told(p)) >= Len(Phases[p].scanners) => Told(p) = Members(p)
  <1>1. Told(p) \in SUBSET Members(p)
    BY DEF Told
  <1>2. /\ IsFiniteSet(Told(p)) /\ Cardinality(Told(p)) \in Nat
        /\ Cardinality(Told(p)) <= Cardinality(Members(p))
        /\ Cardinality(Members(p)) = Cardinality(Told(p)) => Members(p) = Told(p)
    BY <1>1, MembersFinite, FS_Subset, FS_CardinalityType
  <1>3. Len(Phases[p].scanners) \in Nat
    BY PhaseTypes
  <1>4. QED
    BY <1>2, <1>3, MembersFinite

-----------------------------------------------------------------------------
(* Types. *)

\* A record keeps its type when a step changes a field.
LEMMA FieldTypes ==
  /\ \A d \in Driver :
       /\ \A pc \in {"begin", "launch", "get", "told", "closing", "closed", "failed", "complete"} :
            [d EXCEPT !.pc = pc] \in Driver
       /\ \A ph \in 1 .. Len(Phases) + 1 : [d EXCEPT !.phase = ph] \in Driver
       /\ \A n \in Nat : [d EXCEPT !.at = n] \in Driver /\ [d EXCEPT !.done = n] \in Driver
       /\ \A b \in BOOLEAN : [d EXCEPT !.owned = b] \in Driver
       /\ \A t \in [Scanners -> Nat] : [d EXCEPT !.told = t] \in Driver
  /\ \A w \in Worker :
       /\ \A st \in {"new", "running", "expired", "cancelled", "returned", "raised"} :
            [w EXCEPT !.st = st] \in Worker
       /\ \A f \in SUBSET Flaws : [w EXCEPT !.found = f] \in Worker
       /\ \A b \in BOOLEAN : [w EXCEPT !.late = b] \in Worker /\ [w EXCEPT !.skipped = b] \in Worker
       /\ \A n \in Nat : [w EXCEPT !.emits = n] \in Worker
  <1>1. ASSUME NEW d \in Driver
        PROVE  /\ \A pc \in {"begin", "launch", "get", "told", "closing", "closed", "failed",
                             "complete"} : [d EXCEPT !.pc = pc] \in Driver
               /\ \A ph \in 1 .. Len(Phases) + 1 : [d EXCEPT !.phase = ph] \in Driver
               /\ \A n \in Nat : [d EXCEPT !.at = n] \in Driver /\ [d EXCEPT !.done = n] \in Driver
               /\ \A b \in BOOLEAN : [d EXCEPT !.owned = b] \in Driver
               /\ \A t \in [Scanners -> Nat] : [d EXCEPT !.told = t] \in Driver
    <2>1. \A pc \in {"begin", "launch", "get", "told", "closing", "closed", "failed", "complete"} :
            [d EXCEPT !.pc = pc] \in Driver
      BY DEF Driver
    <2>2. \A ph \in 1 .. Len(Phases) + 1 : [d EXCEPT !.phase = ph] \in Driver
      BY DEF Driver
    <2>3. \A n \in Nat : [d EXCEPT !.at = n] \in Driver /\ [d EXCEPT !.done = n] \in Driver
      BY DEF Driver
    <2>4. \A b \in BOOLEAN : [d EXCEPT !.owned = b] \in Driver
      BY DEF Driver
    <2>5. \A t \in [Scanners -> Nat] : [d EXCEPT !.told = t] \in Driver
      BY DEF Driver
    <2>6. QED
      BY <2>1, <2>2, <2>3, <2>4, <2>5
  <1>2. ASSUME NEW w \in Worker
        PROVE  /\ \A st \in {"new", "running", "expired", "cancelled", "returned", "raised"} :
                    [w EXCEPT !.st = st] \in Worker
               /\ \A f \in SUBSET Flaws : [w EXCEPT !.found = f] \in Worker
               /\ \A b \in BOOLEAN : [w EXCEPT !.late = b] \in Worker
                                     /\ [w EXCEPT !.skipped = b] \in Worker
               /\ \A n \in Nat : [w EXCEPT !.emits = n] \in Worker
    <2>1. \A st \in {"new", "running", "expired", "cancelled", "returned", "raised"} :
            [w EXCEPT !.st = st] \in Worker
      BY DEF Worker
    <2>2. \A f \in SUBSET Flaws : [w EXCEPT !.found = f] \in Worker
      BY DEF Worker
    <2>3. \A b \in BOOLEAN : [w EXCEPT !.late = b] \in Worker /\ [w EXCEPT !.skipped = b] \in Worker
      BY DEF Worker
    <2>4. \A n \in Nat : [w EXCEPT !.emits = n] \in Worker
      BY DEF Worker
    <2>5. QED
      BY <2>1, <2>2, <2>3, <2>4
  <1>3. QED
    BY <1>1, <1>2

-----------------------------------------------------------------------------
(* The scanners. *)

\* A scanner at work has its place in the present phase.
LEMMA ActiveHere ==
  ASSUME WorkersPlaced, Types, NEW s \in Scanners, Active(s)
  PROVE  /\ driver.phase \in PhaseIds /\ s \in Members(driver.phase)
         /\ Kind(s) = Phase.kind
  <1>1. PICK p \in PhaseIds : \E i \in Places(p) : s = At(p, i)
    BY OnePlace
  <1>2. PICK i \in Places(p) : s = At(p, i)
    BY <1>1
  <1>3. ~ (p < driver.phase) /\ ~ (p > driver.phase)
    BY <1>2 DEF WorkersPlaced, Active
  <1>4. p \in Nat /\ driver.phase \in Nat
    BY PhaseTypes DEF Types, Driver
  <1>5. p = driver.phase
    BY <1>3, <1>4
  <1>6. s \in Members(p)
    BY <1>2, PhaseTypes
  <1>7. QED
    BY <1>5, <1>6, OnePlace DEF Phase

Progress(s) == [from |-> s, done |-> FALSE]
Completion(s) == [from |-> s, done |-> TRUE]

\* A message is appended: progress, or the completion marker of s.
LEMMA Appended ==
  ASSUME NEW q \in Seq(Message), NEW m \in Message
  PROVE  /\ Append(q, m) \in Seq(Message) /\ DOMAIN Append(q, m) = 1 .. Len(q) + 1
         /\ DOMAIN q = 1 .. Len(q) /\ Len(q) \in Nat
         /\ \A i \in DOMAIN q : i \in DOMAIN Append(q, m) /\ Append(q, m)[i] = q[i]
         /\ Append(q, m)[Len(q) + 1] = m
  OBVIOUS

\* Scanner s goes on working: its record changes, it does not end.
WorksOn(s, w) ==
  /\ Active(s) /\ w \in Worker /\ w.st \in {"running", "expired"}
  /\ w.st = "running" => worker[s].st = "running"
  /\ worker[s].skipped => w.skipped
  /\ w.skipped => worker[s].skipped \/ s \in Skipping
  /\ worker' = [worker EXCEPT ![s] = w]
  /\ queue' = queue \/ queue' = Append(queue, Progress(s))
  /\ UNCHANGED <<present, driver, results, errors>>

\* A step a scanner takes while it runs changes its own record and no one else's.
LEMMA WorkingSteps ==
  ASSUME Types, NEW s \in Scanners,
         Emit(s) \/ Find(s) \/ Skip(s) \/ DeadlinePasses(s) \/ HardTimeout(s)
  PROVE  \E w : WorksOn(s, w)
  <1>0. worker \in [Scanners -> Worker] /\ worker[s] \in Worker
    BY DEF Types
  <1>1. CASE Emit(s)
    <2> DEFINE w == [worker[s] EXCEPT !.emits = worker[s].emits + 1]
    <2>1. worker[s].emits + 1 \in Nat
      BY <1>0 DEF Worker
    <2>2. w \in Worker /\ w.st = worker[s].st /\ w.skipped = worker[s].skipped
      <3>1. w \in Worker
        BY <1>0, <2>1, FieldTypes
      <3>2. w.st = worker[s].st /\ w.skipped = worker[s].skipped
        BY <1>0 DEF Worker
      <3>3. QED
        BY <3>1, <3>2
    <2>3. worker' = [worker EXCEPT ![s] = w] /\ worker[s].st = "running"
      BY <1>0, <1>1 DEF Emit
    <2> HIDE DEF w
    <2>4. QED
      BY <1>1, <2>2, <2>3 DEF Emit, WorksOn, Active, Progress
  <1>2. CASE Find(s)
    <2>1. PICK f \in present \ worker[s].found :
            worker' = [worker EXCEPT ![s].found = @ \union {f}]
      BY <1>2 DEF Find
    <2> DEFINE w == [worker[s] EXCEPT !.found = worker[s].found \union {f}]
    <2>2. worker[s].found \union {f} \in SUBSET Flaws
      BY <1>0, <2>1 DEF Worker, Types
    <2>3. w \in Worker /\ w.st = worker[s].st /\ w.skipped = worker[s].skipped
      <3>1. w \in Worker
        BY <1>0, <2>2, FieldTypes
      <3>2. w.st = worker[s].st /\ w.skipped = worker[s].skipped
        BY <1>0 DEF Worker
      <3>3. QED
        BY <3>1, <3>2
    <2>4. worker' = [worker EXCEPT ![s] = w] /\ worker[s].st = "running"
      BY <1>0, <1>2, <2>1 DEF Find
    <2> HIDE DEF w
    <2>5. QED
      BY <1>2, <2>3, <2>4 DEF Find, WorksOn, Active
  <1>3. CASE Skip(s)
    <2> DEFINE w == [worker[s] EXCEPT !.skipped = TRUE]
    <2>1. w \in Worker /\ w.st = worker[s].st /\ w.skipped = TRUE
      <3>1. w \in Worker
        BY <1>0, FieldTypes
      <3>2. w.st = worker[s].st /\ w.skipped = TRUE
        BY <1>0 DEF Worker
      <3>3. QED
        BY <3>1, <3>2
    <2>2. worker' = [worker EXCEPT ![s] = w] /\ worker[s].st = "running"
      BY <1>0, <1>3 DEF Skip
    <2> HIDE DEF w
    <2>3. QED
      BY <1>3, <2>1, <2>2 DEF Skip, WorksOn, Active
  <1>4. CASE DeadlinePasses(s)
    <2> DEFINE w == [worker[s] EXCEPT !.late = TRUE]
    <2>1. w \in Worker /\ w.st = worker[s].st /\ w.skipped = worker[s].skipped
      <3>1. w \in Worker
        BY <1>0, FieldTypes
      <3>2. w.st = worker[s].st /\ w.skipped = worker[s].skipped
        BY <1>0 DEF Worker
      <3>3. QED
        BY <3>1, <3>2
    <2>2. worker' = [worker EXCEPT ![s] = w] /\ worker[s].st = "running"
      BY <1>0, <1>4 DEF DeadlinePasses
    <2> HIDE DEF w
    <2>3. QED
      BY <1>4, <2>1, <2>2 DEF DeadlinePasses, WorksOn, Active
  <1>5. CASE HardTimeout(s)
    <2> DEFINE w == [worker[s] EXCEPT !.st = "expired"]
    <2>1. w \in Worker /\ w.st = "expired" /\ w.skipped = worker[s].skipped
      <3>1. w \in Worker
        BY <1>0, FieldTypes
      <3>2. w.st = "expired" /\ w.skipped = worker[s].skipped
        BY <1>0 DEF Worker
      <3>3. QED
        BY <3>1, <3>2
    <2>2. worker' = [worker EXCEPT ![s] = w] /\ worker[s].st = "running"
      BY <1>0, <1>5 DEF HardTimeout
    <2> HIDE DEF w
    <2>3. QED
      BY <1>5, <2>1, <2>2 DEF HardTimeout, WorksOn, Active
  <1>6. QED
    BY <1>1, <1>2, <1>3, <1>4, <1>5

\* Such a step preserves the invariant.
LEMMA WorkingKeeps ==
  ASSUME IInv, NEW s \in Scanners, NEW w, WorksOn(s, w)
  PROVE  IInv'
  <1>0. /\ Types /\ WorkersPlaced /\ DriverPlaced /\ WorkAccounted /\ SkipsRead
        /\ QueueRight /\ ToldRight /\ StoppedQuiet
    BY DEF IInv
  <1>1. /\ worker'[s] = w /\ \A t \in Scanners : t # s => worker'[t] = worker[t]
        /\ driver' = driver /\ present' = present /\ results' = results /\ errors' = errors
        /\ Active(s) /\ w.st \in {"running", "expired"}
    BY <1>0 DEF WorksOn, Types
  <1>2. \A t \in Scanners : Ended(t)' <=> Ended(t)
    BY <1>1 DEF Ended, Active
  <1>3. ~Ended(s)
    BY <1>1 DEF Ended, Active
  <1>4. Progress(s) \in Message
    BY DEF Progress, Message
  <1>5. Types'
    <2>1. worker' \in [Scanners -> Worker]
      BY <1>0 DEF WorksOn, Types
    <2>2. queue' \in Seq(Message)
      BY <1>0, <1>4 DEF WorksOn, Types
    <2>3. QED
      BY <1>0, <1>1, <2>1, <2>2 DEF Types
  <1>6. DriverPlaced'
    BY <1>0, <1>1 DEF DriverPlaced, Phase
  <1>7. WorkersPlaced'
    <2> SUFFICES ASSUME NEW p \in PhaseIds, NEW i \in Places(p)
                 PROVE  LET st == worker'[At(p, i)].st IN
                        /\ p < driver.phase =>
                             st = "returned" \/ (st = "raised" /\ Phases[p].kind = "pool")
                        /\ \/ p > driver.phase
                           \/ p = driver.phase /\ driver.pc = "begin"
                           \/ p = driver.phase /\ driver.pc = "launch" /\ i > driver.at
                           => st = "new"
      BY <1>1 DEF WorkersPlaced
    <2>1. At(p, i) \in Scanners
      BY PhaseTypes
    <2>2. CASE At(p, i) # s
      BY <1>0, <1>1, <2>1, <2>2 DEF WorkersPlaced
    <2>3. CASE At(p, i) = s
      BY <1>0, <1>1, <2>3 DEF WorkersPlaced, Active
    <2>4. QED
      BY <2>2, <2>3
  <1>8. WorkAccounted'
    <2> SUFFICES ASSUME NEW t \in Scanners
                 PROVE  (/\ worker[t].st \in {"returned", "raised"} /\ t \notin errors =>
                              IF worker[t].st = "returned"
                                THEN Kind(t) # "task" =>
                                       /\ results[t] = worker[t].found
                                       /\ LookedEverywhere(t) \/ t \in Cooperative \/ worker[t].skipped
                                ELSE Kind(t) # "pool"
                         /\ worker[t].skipped => t \in Skipping
                         /\ t \in errors /\ ~ worker[t].skipped => Ended(t) /\ results[t] = {})'
      BY DEF WorkAccounted
    <2>1. CASE t # s
      BY <1>0, <1>1, <2>1 DEF WorkAccounted, LookedEverywhere, Ended
    <2>2. CASE t = s
      BY <1>0, <1>1, <1>3, <2>2 DEF WorkAccounted, WorksOn, Ended
    <2>3. QED
      BY <2>1, <2>2
  <1>9. SkipsRead'
    <2> SUFFICES ASSUME NEW p \in PhaseIds, p < driver.phase, NEW t \in Members(p),
                        Phases[p].reads_skipped, worker'[t].skipped
                 PROVE  t \in errors
      BY <1>1 DEF SkipsRead
    <2>1. PICK i \in Places(p) : t = At(p, i)
      BY PhaseTypes
    <2>2. Ended(t) /\ t \in Scanners
      BY <1>0, <2>1, PhaseTypes DEF WorkersPlaced, Ended
    <2>3. QED
      BY <1>0, <1>1, <1>3, <2>2 DEF SkipsRead
  <1>10. QueueRight'
    <2>1. /\ queue \in Seq(Message) /\ driver' = driver
          /\ \A m \in Message : m.from \in Scanners
      BY <1>0, <1>1 DEF Types, Message
    <2>2. \A i \in DOMAIN queue : queue[i].from \in Scanners
      BY <2>1
    <2>3. CASE queue' = queue
      BY <1>0, <1>1, <1>2, <2>2, <2>3 DEF QueueRight, Phase
    <2>4. CASE queue' = Append(queue, Progress(s))
      <3>1. \A i \in DOMAIN queue' : queue'[i].done => i \in DOMAIN queue /\ queue'[i] = queue[i]
        BY <1>4, <2>1, <2>4, Appended DEF Progress
      <3>2. QED
        BY <1>0, <1>1, <1>2, <2>2, <3>1 DEF QueueRight, Phase
    <2>5. QED
      BY <2>3, <2>4 DEF WorksOn
  <1>11. ToldRight'
    BY <1>0, <1>1, <1>2 DEF ToldRight, Told, Phase
  <1>12. StoppedQuiet'
    BY <1>0, <1>1 DEF StoppedQuiet, WorksOn
  <1>13. QED
    BY <1>5, <1>6, <1>7, <1>8, <1>9, <1>10, <1>11, <1>12 DEF IInv

\* Scanner s ends: it hands over what it found, or it is among the errors.
Finishes(s, st, found, said) ==
  /\ Active(s) /\ st \in {"returned", "raised"} /\ found \in SUBSET Flaws
  /\ said \in {<<>>, <<Progress(s)>>}
  /\ End(s, st, found, said)
  /\ errors' = errors \/ errors' = errors \union {s}
  /\ s \notin errors' =>
       IF st = "returned"
         THEN Kind(s) # "task" =>
                /\ found = worker[s].found
                /\ LookedEverywhere(s) \/ s \in Cooperative \/ worker[s].skipped
         ELSE Kind(s) # "pool"
  /\ s \in errors' /\ ~ worker[s].skipped => found = {}

\* Every way a scanner comes to an end is a Finishes step.
LEMMA FinishingSteps ==
  ASSUME Types, WorkAccounted, NEW s \in Scanners,
         Return(s) \/ ReturnSkipped(s) \/ Crash(s) \/ TimedOut(s) \/ Cancelled(s)
  PROVE  \E st, found, said : Finishes(s, st, found, said)
  <1>0. /\ worker[s] \in Worker /\ worker[s].found \in SUBSET Flaws
        /\ s \in errors /\ ~ worker[s].skipped => Ended(s)
    BY DEF Types, Worker, WorkAccounted
  <1>1. CASE Return(s) \/ ReturnSkipped(s)
    <2>1. /\ Active(s) /\ ~Ended(s) /\ errors' = errors
          /\ End(s, "returned", worker[s].found, <<>>)
          /\ LookedEverywhere(s) \/ s \in Cooperative \/ worker[s].skipped
      BY <1>1 DEF Return, ReturnSkipped, Active, Ended, OutOfBudget
    <2>2. Finishes(s, "returned", worker[s].found, <<>>)
      BY <1>0, <2>1 DEF Finishes
    <2>3. QED
      BY <2>2
  <1>2. CASE Crash(s)
    <2>1. /\ Active(s) /\ ~Ended(s)
          /\ \/ Kind(s) = "task" /\ End(s, "raised", {}, <<>>) /\ errors' = errors
             \/ End(s, "returned", {}, <<>>) /\ errors' = errors \union {s}
      BY <1>2 DEF Crash, Active, Ended
    <2>2. Finishes(s, "raised", {}, <<>>) \/ Finishes(s, "returned", {}, <<>>)
      BY <2>1 DEF Finishes
    <2>3. QED
      BY <2>2
  <1>3. CASE TimedOut(s)
    <2>1. Finishes(s, "returned", {}, <<Progress(s)>>)
      BY <1>3 DEF TimedOut, Finishes, Active, Progress
    <2>2. QED
      BY <2>1
  <1>4. CASE Cancelled(s)
    <2>1. Finishes(s, "raised", {}, <<>>)
      BY <1>4 DEF Cancelled, Finishes, Active, Recorded
    <2>2. QED
      BY <2>1
  <1>5. QED
    BY <1>1, <1>2, <1>3, <1>4

\* What the queue holds after a scanner has ended: perhaps its progress, and its marker
\* in a pool.
LEMMA FinishedQueue ==
  ASSUME Types, NEW s \in Scanners, NEW said \in {<<>>, <<Progress(s)>>},
         queue' = queue \o said \o Marker(s)
  PROVE  /\ queue' \in Seq(Message)
         /\ \A i \in DOMAIN queue' : queue'[i].done =>
              \/ i \in DOMAIN queue /\ queue'[i] = queue[i]
              \/ i = Len(queue') /\ queue'[i] = Completion(s) /\ Kind(s) = "pool"
  <1>0. /\ queue \in Seq(Message) /\ Progress(s) \in Message /\ Completion(s) \in Message
        /\ Progress(s).done = FALSE
    BY DEF Types, Progress, Completion, Message
  <1>1. Marker(s) = <<>> \/ (Kind(s) = "pool" /\ Marker(s) = <<Completion(s)>>)
    BY DEF Marker, Completion
  <1>2. PICK mid \in {queue, Append(queue, Progress(s))} : mid = queue \o said
    <2>1. CASE said = <<>>
      BY <1>0, <2>1
    <2>2. CASE said = <<Progress(s)>>
      <3>1. queue \o said = Append(queue, Progress(s))
        BY <1>0, <2>2
      <3>2. QED
        BY <3>1
    <2>3. QED
      BY <2>1, <2>2
  <1>3. queue' = mid \/ (Kind(s) = "pool" /\ queue' = Append(mid, Completion(s)))
    <2>1. mid \in Seq(Message)
      BY <1>0, Appended
    <2>2. queue' = mid \o Marker(s)
      BY <1>2
    <2>3. QED
      BY <1>0, <1>1, <2>1, <2>2
  <1>4. /\ mid \in Seq(Message)
        /\ \A i \in DOMAIN mid : mid[i].done => i \in DOMAIN queue /\ mid[i] = queue[i]
    <2>1. CASE mid = queue
      BY <1>0, <2>1
    <2>2. CASE mid = Append(queue, Progress(s))
      <3>1. /\ mid \in Seq(Message) /\ DOMAIN mid = 1 .. Len(queue) + 1
            /\ DOMAIN queue = 1 .. Len(queue) /\ Len(queue) \in Nat
            /\ \A i \in DOMAIN queue : mid[i] = queue[i]
            /\ mid[Len(queue) + 1] = Progress(s)
        BY <1>0, <2>2, Appended
      <3>2. QED
        BY <1>0, <3>1
    <2>3. QED
      BY <2>1, <2>2
  <1>5. CASE queue' = mid
    BY <1>4, <1>5
  <1>6. CASE Kind(s) = "pool" /\ queue' = Append(mid, Completion(s))
    <2>1. /\ queue' \in Seq(Message) /\ DOMAIN queue' = 1 .. Len(mid) + 1
          /\ DOMAIN mid = 1 .. Len(mid) /\ Len(mid) \in Nat
          /\ \A i \in DOMAIN mid : queue'[i] = mid[i]
          /\ queue'[Len(mid) + 1] = Completion(s)
      BY <1>0, <1>4, <1>6, Appended
    <2>2. Len(queue') = Len(mid) + 1
      BY <1>0, <1>4, <1>6
    <2>3. QED
      <3> SUFFICES ASSUME NEW i \in DOMAIN queue', queue'[i].done
                   PROVE  \/ i \in DOMAIN queue /\ queue'[i] = queue[i]
                          \/ i = Len(queue') /\ queue'[i] = Completion(s) /\ Kind(s) = "pool"
        BY <2>1
      <3>1. i \in DOMAIN mid \/ i = Len(mid) + 1
        <4>1. \A n \in Nat : \A k \in 1 .. n + 1 : k \in 1 .. n \/ k = n + 1
          OBVIOUS
        <4>2. i \in 1 .. Len(mid) + 1
          BY <2>1, Zenon
        <4>3. QED
          BY <2>1, <4>1, <4>2, Zenon
      <3>2. QED
        BY <1>4, <1>6, <2>1, <2>2, <3>1
  <1>7. QED
    BY <1>3, <1>5, <1>6

\* The end of a scanner preserves the invariant: what it found is recorded, or the
\* failure is, in the step in which it ends.
LEMMA FinishingKeeps ==
  ASSUME IInv, NEW s \in Scanners, NEW st, NEW found, NEW said, Finishes(s, st, found, said)
  PROVE  IInv'
  <1>0. /\ Types /\ WorkersPlaced /\ DriverPlaced /\ WorkAccounted /\ SkipsRead
        /\ QueueRight /\ ToldRight /\ StoppedQuiet
    BY DEF IInv
  <1> DEFINE w == [worker[s] EXCEPT !.st = st, !.late = FALSE, !.emits = 0]
  <1>1. /\ w \in Worker /\ w.st = st /\ w.found = worker[s].found
        /\ w.skipped = worker[s].skipped
    <2>1. worker[s] \in Worker /\ st \in {"returned", "raised"}
      BY <1>0 DEF Types, Finishes
    <2>2. w.st = st /\ w.found = worker[s].found /\ w.skipped = worker[s].skipped
      BY <2>1 DEF Worker
    <2>3. w \in Worker
      BY <2>1 DEF Worker
    <2>4. QED
      BY <2>2, <2>3
  <1>2. /\ worker' = [worker EXCEPT ![s] = w]
        /\ results' = [results EXCEPT ![s] = found]
        /\ queue' = queue \o said \o Marker(s) /\ said \in {<<>>, <<Progress(s)>>}
        /\ UNCHANGED <<present, driver>>
        /\ Active(s) /\ st \in {"returned", "raised"} /\ found \in SUBSET Flaws
        /\ errors' = errors \/ errors' = errors \union {s}
    BY <1>0 DEF Finishes, End, Types
  <1> HIDE DEF w
  <1>3. /\ worker'[s] = w /\ \A t \in Scanners : t # s => worker'[t] = worker[t]
        /\ results'[s] = found /\ \A t \in Scanners : t # s => results'[t] = results[t]
        /\ \A t \in Scanners : t # s => (t \in errors' <=> t \in errors)
    BY <1>0, <1>2 DEF Types
  <1>4. ~Ended(s) /\ Ended(s)' /\ \A t \in Scanners : t # s => (Ended(t)' <=> Ended(t))
    BY <1>1, <1>2, <1>3 DEF Ended, Active
  <1>5. queue' \in Seq(Message)
        /\ \A i \in DOMAIN queue' : queue'[i].done =>
             \/ i \in DOMAIN queue /\ queue'[i] = queue[i]
             \/ i = Len(queue') /\ queue'[i] = Completion(s) /\ Kind(s) = "pool"
    BY <1>0, <1>2, FinishedQueue, Zenon
  <1>6. Types'
    BY <1>0, <1>1, <1>2, <1>5 DEF Types
  <1>7. DriverPlaced'
    BY <1>0, <1>2 DEF DriverPlaced, Phase
  <1>8. WorkersPlaced'
    <2> SUFFICES ASSUME NEW p \in PhaseIds, NEW i \in Places(p)
                 PROVE  LET x == worker'[At(p, i)].st IN
                        /\ p < driver.phase =>
                             x = "returned" \/ (x = "raised" /\ Phases[p].kind = "pool")
                        /\ \/ p > driver.phase
                           \/ p = driver.phase /\ driver.pc = "begin"
                           \/ p = driver.phase /\ driver.pc = "launch" /\ i > driver.at
                           => x = "new"
      BY <1>2 DEF WorkersPlaced
    <2>1. At(p, i) \in Scanners
      BY PhaseTypes
    <2>2. CASE At(p, i) # s
      BY <1>0, <1>3, <2>1, <2>2 DEF WorkersPlaced
    <2>3. CASE At(p, i) = s
      BY <1>0, <1>2, <2>3 DEF WorkersPlaced, Active
    <2>4. QED
      BY <2>2, <2>3
  <1>9. WorkAccounted'
    <2> SUFFICES ASSUME NEW t \in Scanners
                 PROVE  (/\ worker[t].st \in {"returned", "raised"} /\ t \notin errors =>
                              IF worker[t].st = "returned"
                                THEN Kind(t) # "task" =>
                                       /\ results[t] = worker[t].found
                                       /\ LookedEverywhere(t) \/ t \in Cooperative \/ worker[t].skipped
                                ELSE Kind(t) # "pool"
                         /\ worker[t].skipped => t \in Skipping
                         /\ t \in errors /\ ~ worker[t].skipped => Ended(t) /\ results[t] = {})'
      BY DEF WorkAccounted
    <2>1. CASE t # s
      BY <1>0, <1>2, <1>3, <1>4, <2>1 DEF WorkAccounted, LookedEverywhere
    <2>2. CASE t = s
      <3>1. LookedEverywhere(s)' <=> LookedEverywhere(s)
        BY <1>1, <1>2, <1>3 DEF LookedEverywhere
      <3>2. worker[s].skipped => s \in Skipping
        BY <1>0 DEF WorkAccounted
      <3>3. QED
        BY <1>1, <1>2, <1>3, <1>4, <2>2, <3>1, <3>2 DEF Finishes
    <2>3. QED
      BY <2>1, <2>2
  <1>10. SkipsRead'
    <2> SUFFICES ASSUME NEW p \in PhaseIds, p < driver.phase, NEW t \in Members(p),
                        Phases[p].reads_skipped, worker'[t].skipped
                 PROVE  t \in errors'
      BY <1>2 DEF SkipsRead
    <2>1. PICK i \in Places(p) : t = At(p, i)
      BY PhaseTypes
    <2>2. Ended(t) /\ t \in Scanners
      BY <1>0, <2>1, PhaseTypes DEF WorkersPlaced, Ended
    <2>3. QED
      BY <1>0, <1>3, <1>4, <2>2 DEF SkipsRead
  <1>11. QueueRight'
    <2>1. /\ driver' = driver /\ driver.phase \in PhaseIds /\ s \in Members(driver.phase)
          /\ Kind(s) = Phase.kind
      BY <1>0, <1>2, ActiveHere
    <2>2. driver.told[s] = 0
      BY <1>0, <1>4 DEF ToldRight
    <2>3. \A i \in DOMAIN queue : queue[i].from \in Scanners
      <3>1. queue \in Seq(Message) /\ \A m \in Message : m.from \in Scanners
        BY <1>0 DEF Types, Message
      <3>2. QED
        BY <3>1
    <2> DEFINE Gone(t) == worker'[t].st \in {"returned", "raised"}
    <2>0. Gone(s) /\ \A t \in Scanners : Ended(t) => Gone(t)
      BY <1>4 DEF Ended
    <2> HIDE DEF Gone
    <2>4. Completion(s).from = s
      BY DEF Completion
    <2>5. \A i \in DOMAIN queue : queue[i].done =>
            /\ queue[i].from # s /\ Gone(queue[i].from) /\ driver.told[queue[i].from] = 0
            /\ queue[i].from \in Members(driver.phase) /\ Phase.kind = "pool"
      BY <1>0, <1>4, <2>0, <2>3 DEF QueueRight
    <2>6. \A i \in DOMAIN queue' : queue'[i].done =>
            /\ Gone(queue'[i].from) /\ driver.told[queue'[i].from] = 0
            /\ queue'[i].from \in Members(driver.phase) /\ Phase.kind = "pool"
      BY <1>5, <2>0, <2>1, <2>2, <2>4, <2>5
    <2>7. \A i, j \in DOMAIN queue' :
            queue'[i].done /\ queue'[j].done /\ queue'[i].from = queue'[j].from => i = j
      <3> SUFFICES ASSUME NEW i \in DOMAIN queue', NEW j \in DOMAIN queue', queue'[i].done,
                          queue'[j].done, queue'[i].from = queue'[j].from
                   PROVE  i = j
        OBVIOUS
      <3>1. CASE i \in DOMAIN queue /\ queue'[i] = queue[i] /\ j \in DOMAIN queue /\ queue'[j] = queue[j]
        BY <1>0, <3>1 DEF QueueRight
      <3>2. CASE queue'[i] = Completion(s) /\ queue'[j] = Completion(s) /\ i = Len(queue') /\ j = Len(queue')
        BY <3>2
      <3>3. QED
        BY <1>5, <2>4, <2>5, <3>1, <3>2
    <2>8. QED
      BY <2>1, <2>6, <2>7 DEF QueueRight, Gone, Ended, Phase
  <1>12. ToldRight'
    BY <1>0, <1>2, <1>4 DEF ToldRight, Told, Phase
  <1>13. StoppedQuiet'
    BY <1>0, <1>1, <1>2, <1>3 DEF StoppedQuiet
  <1>14. QED
    BY <1>6, <1>7, <1>8, <1>9, <1>10, <1>11, <1>12, <1>13 DEF IInv

-----------------------------------------------------------------------------
(* The generator. *)

\* The generator starts and cancels scanners, and ends none.
Nudged ==
  /\ worker' \in [Scanners -> Worker]
  /\ \A s \in Scanners : \/ worker'[s] = worker[s]
                         \/ /\ ~Ended(s) /\ worker'[s].st \notin {"returned", "raised"}
                            /\ worker'[s].found = worker[s].found
                            /\ worker'[s].skipped = worker[s].skipped

\* Its steps change no account of a scanner but for what was skipped.
LEMMA NudgedAccounted ==
  ASSUME Types, WorkAccounted, Nudged, UNCHANGED <<present, results>>,
         errors \subseteq errors', \A s \in errors' : s \in errors \/ worker[s].skipped,
         errors' \subseteq Scanners
  PROVE  WorkAccounted'
  <1> SUFFICES ASSUME NEW t \in Scanners
               PROVE  (/\ worker[t].st \in {"returned", "raised"} /\ t \notin errors =>
                            IF worker[t].st = "returned"
                              THEN Kind(t) # "task" =>
                                     /\ results[t] = worker[t].found
                                     /\ LookedEverywhere(t) \/ t \in Cooperative \/ worker[t].skipped
                              ELSE Kind(t) # "pool"
                       /\ worker[t].skipped => t \in Skipping
                       /\ t \in errors /\ ~ worker[t].skipped => Ended(t) /\ results[t] = {})'
    BY DEF WorkAccounted
  <1>1. CASE worker'[t] = worker[t]
    BY <1>1 DEF WorkAccounted, LookedEverywhere, Ended
  <1>2. CASE /\ ~Ended(t) /\ worker'[t].st \notin {"returned", "raised"}
             /\ worker'[t].skipped = worker[t].skipped
    BY <1>2 DEF WorkAccounted
  <1>3. QED
    BY <1>1, <1>2 DEF Nudged

\* A step to another pc of the same phase that relays nothing.
Stays(pcs) ==
  /\ driver' \in Driver /\ driver'.pc \in pcs
  /\ driver'.phase = driver.phase /\ driver'.told = driver.told /\ driver'.done = driver.done
  /\ UNCHANGED <<present, results, errors, queue>>

\* The parts of the invariant that a step of the generator within its phase preserves.
LEMMA StayingKeeps ==
  ASSUME Types, SkipsRead, WorkAccounted, QueueRight, ToldRight, Nudged,
         Stays({"begin", "launch", "get", "told", "closing", "closed", "failed", "complete"}),
         driver.pc = "begin" => driver'.pc = "begin" \/ driver.phase \notin PhaseIds
                                \/ driver.done = Cardinality(Told(driver.phase))
  PROVE  Types' /\ SkipsRead' /\ WorkAccounted' /\ QueueRight' /\ ToldRight'
  <1>1. \A s \in Scanners : (Ended(s)' <=> Ended(s)) /\ worker'[s].skipped = worker[s].skipped
    BY DEF Nudged, Ended
  <1>2. /\ driver'.phase = driver.phase /\ driver'.told = driver.told /\ driver'.done = driver.done
        /\ present' = present /\ results' = results /\ errors' = errors /\ queue' = queue
        /\ Phase' = Phase
    BY DEF Stays, Phase
  <1>3. Types'
    BY DEF Types, Stays, Nudged
  <1>4. WorkAccounted'
    BY <1>2, NudgedAccounted DEF Types
  <1>5. SkipsRead'
    BY <1>1, <1>2, PhaseTypes DEF SkipsRead
  <1>6. QueueRight'
    <2>1. \A i \in DOMAIN queue : queue[i].from \in Scanners
      <3>1. queue \in Seq(Message) /\ \A m \in Message : m.from \in Scanners
        BY DEF Types, Message
      <3>2. QED
        BY <3>1
    <2>2. QED
      BY <1>1, <1>2, <2>1 DEF QueueRight
  <1>7. ToldRight'
    <2>1. \A p : Told(p)' = Told(p)
      BY <1>2 DEF Told
    <2>2. QED
      BY <1>1, <1>2, <2>1 DEF ToldRight
  <1>8. QED
    BY <1>3, <1>4, <1>5, <1>6, <1>7

\* The consumer reads on or stops; what the generator owns is cancelled with it.
LEMMA StopKeeps ==
  ASSUME IInv, Resume \/ Close \/ Finalize \/ CancelConsumer
  PROVE  IInv'
  <1>0. /\ Types /\ WorkersPlaced /\ DriverPlaced /\ WorkAccounted /\ SkipsRead
        /\ QueueRight /\ ToldRight /\ StoppedQuiet
        /\ driver \in Driver /\ worker \in [Scanners -> Worker]
    BY DEF IInv, Types
  <1>1. PICK pc \in {"get", "closing", "closed"} : driver' = [driver EXCEPT !.pc = pc]
    BY DEF Resume, Close, Finalize, CancelConsumer, Go
  <1>2. /\ driver'.pc = pc /\ driver'.phase = driver.phase /\ driver'.told = driver.told
        /\ driver'.done = driver.done /\ driver'.owned = driver.owned
    BY <1>0, <1>1 DEF Driver
  <1>3. driver' \in Driver
    BY <1>0, <1>1, FieldTypes
  <1>4. /\ UNCHANGED <<present, results, errors, queue>>
        /\ driver.pc \in {"launch", "get", "told", "closing"}
        /\ \/ worker' = worker /\ pc # "closed"
           \/ pc = "closed" /\ CancelWorkers(Owned)
    <2>1. driver'.pc = pc
      BY <1>2
    <2>2. QED
      BY <1>0, <1>1, <2>1 DEF Resume, Close, Finalize, CancelConsumer, Go, Driver
  <1>5. \A s \in Scanners :
          \/ worker'[s] = worker[s] /\ (pc = "closed" => s \notin Owned)
          \/ /\ s \in Owned /\ worker[s].st \in {"running", "expired"} /\ pc = "closed"
             /\ worker'[s] = [worker[s] EXCEPT !.st = "cancelled"]
    <2>1. CASE worker' = worker /\ pc # "closed"
      BY <2>1
    <2>2. CASE pc = "closed" /\ CancelWorkers(Owned)
      <3>1. \A s \in Owned : worker[s].st \in {"running", "expired"}
        BY DEF Owned
      <3>2. QED
        BY <2>2, <3>1 DEF CancelWorkers
    <2>3. QED
      BY <1>4, <2>1, <2>2
  <1>6. Nudged
    <2>1. worker' \in [Scanners -> Worker]
      <3>1. CASE worker' = worker
        BY <1>0, <3>1
      <3>2. CASE CancelWorkers(Owned)
        BY <1>0, <3>2, FieldTypes DEF CancelWorkers
      <3>3. QED
        BY <1>4, <3>1, <3>2
    <2>2. \A s \in Scanners : worker[s] \in Worker
      BY <1>0
    <2>3. \A x \in Worker : /\ [x EXCEPT !.st = "cancelled"].st = "cancelled"
                            /\ [x EXCEPT !.st = "cancelled"].found = x.found
                            /\ [x EXCEPT !.st = "cancelled"].skipped = x.skipped
      BY DEF Worker
    <2>4. QED
      BY <1>5, <2>1, <2>2, <2>3 DEF Nudged, Ended
  <1>7. Types' /\ SkipsRead' /\ WorkAccounted' /\ QueueRight' /\ ToldRight'
    <2>1. Stays({"begin", "launch", "get", "told", "closing", "closed", "failed", "complete"})
      BY <1>2, <1>3, <1>4 DEF Stays
    <2>2. QED
      BY <1>0, <1>4, <1>6, <2>1, StayingKeeps
  <1>8. DriverPlaced'
    BY <1>0, <1>2, <1>4 DEF DriverPlaced
  <1>9. \A s \in Scanners : worker[s].st \in {"returned", "raised", "new"} => worker'[s] = worker[s]
    BY <1>5
  <1>10. WorkersPlaced'
    BY <1>0, <1>2, <1>9, PhaseTypes DEF WorkersPlaced
  <1>11. StoppedQuiet'
    <2> SUFFICES ASSUME pc = "closed", driver.owned, NEW s \in Scanners, worker'[s].st = "running"
                 PROVE  FALSE
      BY <1>2 DEF StoppedQuiet
    <2>1. \A x \in Worker : [x EXCEPT !.st = "cancelled"].st # "running"
      BY DEF Worker
    <2>2. worker[s].st = "running" /\ s \notin Owned
      BY <1>0, <1>5, <2>1
    <2>3. s \in Members(driver.phase)
      BY <1>0, <2>2, ActiveHere DEF Active
    <2>4. QED
      BY <2>2, <2>3 DEF Owned
  <1>12. QED
    BY <1>7, <1>8, <1>10, <1>11 DEF IInv

\* In a phase that begins no scanner was announced.
LEMMA NoneTold ==
  ASSUME WorkersPlaced, ToldRight, driver.pc = "begin", driver.phase \in PhaseIds
  PROVE  Told(driver.phase) = {} /\ Cardinality(Told(driver.phase)) = 0
  <1>1. ASSUME NEW s \in Members(driver.phase)
        PROVE  driver.told[s] # 1
    <2>1. PICK i \in Places(driver.phase) : s = At(driver.phase, i)
      BY PhaseTypes
    <2>2. worker[s].st = "new" /\ s \in Scanners
      BY <2>1, PhaseTypes DEF WorkersPlaced
    <2>3. QED
      BY <2>2 DEF ToldRight, Ended
  <1>2. Told(driver.phase) = {}
    BY <1>1 DEF Told
  <1>3. QED
    BY <1>2, FS_EmptySet

\* A scanner whose turn it is starts.
LEMMA StartNudges ==
  ASSUME Types, NEW s \in Scanners, worker[s].st = "new", worker' = Start(s)
  PROVE  /\ Nudged /\ worker'[s].st = "running"
         /\ \A t \in Scanners : t # s => worker'[t] = worker[t]
  <1>1. worker \in [Scanners -> Worker] /\ worker[s] \in Worker
    BY DEF Types
  <1>2. [worker[s] EXCEPT !.st = "running"] \in Worker
    BY <1>1, FieldTypes
  <1>3. /\ [worker[s] EXCEPT !.st = "running"].st = "running"
        /\ [worker[s] EXCEPT !.st = "running"].found = worker[s].found
        /\ [worker[s] EXCEPT !.st = "running"].skipped = worker[s].skipped
    BY <1>1 DEF Worker
  <1>4. worker' = [worker EXCEPT ![s] = [worker[s] EXCEPT !.st = "running"]]
    BY DEF Start
  <1>5. worker' \in [Scanners -> Worker] /\ worker'[s] = [worker[s] EXCEPT !.st = "running"]
        /\ \A t \in Scanners : t # s => worker'[t] = worker[t]
    BY <1>1, <1>2, <1>4
  <1>6. QED
    BY <1>3, <1>5 DEF Nudged, Ended

\* A phase that has scanners to start preserves the invariant.
LEMMA BeginKeeps ==
  ASSUME IInv, Begin, ~ (Phase.kind = "pool" /\ Phase.scanners = <<>>)
  PROVE  IInv'
  <1>0. /\ Types /\ WorkersPlaced /\ DriverPlaced /\ WorkAccounted /\ SkipsRead
        /\ QueueRight /\ ToldRight /\ StoppedQuiet
        /\ driver \in Driver /\ worker \in [Scanners -> Worker]
    BY DEF IInv, Types
  <1>1. driver.pc = "begin" /\ driver.phase \in PhaseIds /\ driver.phase \in Nat
    BY <1>0, PhaseTypes DEF Begin, PhaseIds, Driver
  <1>2. UNCHANGED <<present, queue, results, errors>>
    BY DEF Begin
  <1>3. CASE Phase.kind = "pool"
    <2>1. driver' = Reset(Go("launch")) /\ worker' = worker
      BY <1>3 DEF Begin
    <2>2. /\ driver'.pc = "launch" /\ driver'.phase = driver.phase /\ driver'.told = driver.told
          /\ driver'.at = 0 /\ driver'.done = 0 /\ driver' \in Driver
      <3>1. Go("launch") \in Driver /\ Go("launch").pc = "launch"
            /\ Go("launch").phase = driver.phase /\ Go("launch").told = driver.told
        BY <1>0 DEF Go, Driver
      <3> HIDE DEF Go
      <3>2. QED
        BY <2>1, <3>1 DEF Reset, Driver
    <2>3. 0 < Len(Phase.scanners)
      BY <1>1, <1>3, PhaseTypes DEF Phase
    <2>4. Phase' = Phase
      BY <2>2 DEF Phase
    <2>5. Types'
      BY <1>0, <1>2, <2>1, <2>2 DEF Types
    <2>6. DriverPlaced'
      BY <1>1, <1>3, <2>2, <2>3, <2>4 DEF DriverPlaced
    <2>7. WorkersPlaced'
      BY <1>0, <1>1, <2>1, <2>2 DEF WorkersPlaced
    <2>8. WorkAccounted' /\ SkipsRead'
      BY <1>0, <1>2, <2>1, <2>2 DEF WorkAccounted, SkipsRead, LookedEverywhere, Ended
    <2>9. QueueRight'
      BY <1>0, <1>2, <2>1, <2>2, <2>4 DEF QueueRight, Ended
    <2>10. ToldRight'
      <3>1. \A q : Told(q)' = Told(q)
        BY <2>2 DEF Told
      <3>2. Cardinality(Told(driver.phase)) = 0
        BY <1>0, <1>1, NoneTold
      <3>3. QED
        BY <1>0, <2>1, <2>2, <2>4, <3>1, <3>2 DEF ToldRight, Ended
    <2>11. StoppedQuiet'
      BY <2>2 DEF StoppedQuiet
    <2>12. QED
      BY <2>5, <2>6, <2>7, <2>8, <2>9, <2>10, <2>11 DEF IInv
  <1>4. CASE Phase.kind # "pool"
    <2> DEFINE s == At(driver.phase, 1)
    <2>1. driver' = Go("get") /\ worker' = Start(s)
      BY <1>4 DEF Begin, At, Phase
    <2>2. /\ driver'.pc = "get" /\ driver'.phase = driver.phase /\ driver'.told = driver.told
          /\ driver'.done = driver.done /\ driver' \in Driver
      BY <1>0, <2>1 DEF Go, Driver
    <2>3. 1 \in Places(driver.phase) /\ s \in Scanners /\ worker[s].st = "new"
      <3>1. Len(Phases[driver.phase].scanners) = 1
        BY <1>1, <1>4, PhaseTypes DEF Phase
      <3>2. 1 \in Places(driver.phase)
        BY <3>1 DEF Places
      <3>3. s \in Scanners
        BY <1>1, <3>2, PhaseTypes
      <3>4. worker[s].st = "new"
        BY <1>0, <1>1, <3>2 DEF WorkersPlaced
      <3>5. QED
        BY <3>2, <3>3, <3>4
    <2>4. Nudged /\ \A t \in Scanners : t # s => worker'[t] = worker[t]
      BY <1>0, <2>1, <2>3, StartNudges
    <2>5. Phase' = Phase
      BY <2>2 DEF Phase
    <2>6. Types' /\ SkipsRead' /\ WorkAccounted'
      BY <1>0, <1>2, <2>2, <2>4, NudgedAccounted, PhaseTypes DEF Types, Nudged, SkipsRead
    <2>7. \A t \in Scanners : Ended(t)' <=> Ended(t)
      BY <2>4 DEF Nudged, Ended
    <2>8. QueueRight'
      <3>1. \A i \in DOMAIN queue : ~queue[i].done
        BY <1>0, <1>4 DEF QueueRight
      <3>2. QED
        BY <1>2, <3>1 DEF QueueRight
    <2>9. ToldRight'
      <3>1. \A q : Told(q)' = Told(q)
        BY <2>2 DEF Told
      <3>2. QED
        BY <1>0, <1>4, <2>2, <2>5, <2>7, <3>1 DEF ToldRight
    <2>10. DriverPlaced' /\ StoppedQuiet'
      BY <1>1, <2>2 DEF DriverPlaced, StoppedQuiet
    <2>11. WorkersPlaced'
      <3> SUFFICES ASSUME NEW p \in PhaseIds, NEW i \in Places(p), p # driver.phase
                   PROVE  worker'[At(p, i)] = worker[At(p, i)]
        BY <1>0, <2>2, PhaseTypes DEF WorkersPlaced
      <3>1. At(p, i) # s
        BY <1>1, <2>3, OnePlace
      <3>2. QED
        BY <2>4, <3>1, PhaseTypes
    <2>12. QED
      BY <2>6, <2>8, <2>9, <2>10, <2>11 DEF IInv
  <1>5. QED
    BY <1>3, <1>4

\* So does starting the next scanner of the phase.
LEMMA LaunchKeeps ==
  ASSUME IInv, Launch
  PROVE  IInv'
  <1>0. /\ Types /\ WorkersPlaced /\ DriverPlaced /\ WorkAccounted /\ SkipsRead
        /\ QueueRight /\ ToldRight /\ StoppedQuiet
        /\ driver \in Driver /\ worker \in [Scanners -> Worker]
    BY DEF IInv, Types
  <1> DEFINE n == driver.at + 1
             s == At(driver.phase, n)
  <1>1. /\ driver.pc = "launch" /\ worker' = Start(s)
        /\ UNCHANGED <<present, queue, results, errors>>
    BY DEF Launch, At, Phase
  <1>2. /\ driver.phase \in PhaseIds /\ driver.phase \in Nat /\ driver.at \in Nat
        /\ Phase.kind = "pool" /\ driver.at < Len(Phase.scanners)
    BY <1>0, <1>1, PhaseTypes DEF DriverPlaced, Driver
  <1>3. n \in Places(driver.phase) /\ n > driver.at /\ Len(Phase.scanners) \in Nat
    BY <1>2, PhaseTypes DEF Places, Phase
  <1>4. s \in Scanners /\ worker[s].st = "new"
    BY <1>0, <1>1, <1>2, <1>3, PhaseTypes DEF WorkersPlaced
  <1>5. Nudged /\ \A t \in Scanners : t # s => worker'[t] = worker[t]
    BY <1>0, <1>1, <1>4, StartNudges
  <1>6. /\ driver'.phase = driver.phase /\ driver'.told = driver.told
        /\ driver'.done = driver.done /\ driver' \in Driver
        /\ \/ driver'.pc = "launch" /\ driver'.at = n /\ n < Len(Phase.scanners)
           \/ driver'.pc = "get"
    <2>1. n \in Nat
      BY <1>2
    <2>2. CASE n < Len(Phase.scanners)
      <3>1. driver' = [driver EXCEPT !.at = n]
        BY <2>2 DEF Launch
      <3> HIDE DEF n
      <3>2. driver' \in Driver
        BY <1>0, <2>1, <3>1, FieldTypes
      <3>3. QED
        BY <1>0, <1>1, <2>2, <3>1, <3>2 DEF Driver
    <2>3. CASE ~(n < Len(Phase.scanners))
      <3>1. driver' = [Go("get") EXCEPT !.owned = TRUE]
        BY <2>3 DEF Launch
      <3>2. Go("get") \in Driver
        BY <1>0, FieldTypes DEF Go
      <3>3. /\ Go("get").pc = "get" /\ Go("get").phase = driver.phase
            /\ Go("get").told = driver.told /\ Go("get").done = driver.done
        BY <1>0 DEF Go, Driver
      <3>4. driver' \in Driver
        BY <3>1, <3>2, FieldTypes
      <3>5. QED
        BY <3>1, <3>2, <3>3, <3>4 DEF Driver
    <2>4. QED
      BY <2>2, <2>3
  <1>7. Types' /\ SkipsRead' /\ WorkAccounted' /\ QueueRight' /\ ToldRight'
    <2>1. Stays({"begin", "launch", "get", "told", "closing", "closed", "failed", "complete"})
      BY <1>1, <1>6 DEF Stays
    <2>2. QED
      BY <1>0, <1>1, <1>5, <2>1, StayingKeeps
  <1>8. DriverPlaced' /\ StoppedQuiet'
    BY <1>2, <1>6 DEF DriverPlaced, StoppedQuiet, Phase
  <1>9. WorkersPlaced'
    <2>1. ASSUME NEW p \in PhaseIds, NEW i \in Places(p), p # driver.phase \/ i # n
          PROVE  worker'[At(p, i)] = worker[At(p, i)]
      <3>1. At(p, i) # s
        BY <1>2, <1>3, <2>1, OnePlace
      <3>2. QED
        BY <1>5, <3>1, PhaseTypes
    <2> SUFFICES ASSUME NEW p \in PhaseIds, NEW i \in Places(p)
                 PROVE  LET st == worker'[At(p, i)].st IN
                        /\ p < driver.phase =>
                             st = "returned" \/ (st = "raised" /\ Phases[p].kind = "pool")
                        /\ \/ p > driver.phase
                           \/ p = driver.phase /\ driver'.pc = "begin"
                           \/ p = driver.phase /\ driver'.pc = "launch" /\ i > driver'.at
                           => st = "new"
      BY <1>6 DEF WorkersPlaced
    <2>2. p \in Nat /\ i \in Nat
      BY PhaseTypes
    <2>3. CASE p # driver.phase
      BY <1>0, <2>1, <2>3 DEF WorkersPlaced
    <2>4. CASE p = driver.phase /\ i # n
      BY <1>0, <1>1, <1>2, <1>6, <2>1, <2>2, <2>4 DEF WorkersPlaced
    <2>5. CASE p = driver.phase /\ i = n
      BY <1>2, <1>6, <2>2, <2>5
    <2>6. QED
      BY <2>3, <2>4, <2>5
  <1>10. QED
    BY <1>7, <1>8, <1>9 DEF IInv

\* The first message leaves the queue.
LEMMA TailQueue ==
  ASSUME NEW q \in Seq(Message), q # <<>>
  PROVE  /\ Head(q) \in Message /\ Head(q) = q[1] /\ 1 \in DOMAIN q
         /\ Tail(q) \in Seq(Message)
         /\ \A i \in DOMAIN Tail(q) : /\ i \in Nat /\ i + 1 # 1 /\ i + 1 \in DOMAIN q
                                      /\ Tail(q)[i] = q[i + 1]
  OBVIOUS

\* So does taking a message off the progress queue, which may be a scanner's last.
LEMMA GetKeeps ==
  ASSUME IInv, Get
  PROVE  IInv'
  <1>0. /\ Types /\ WorkersPlaced /\ DriverPlaced /\ WorkAccounted /\ SkipsRead
        /\ QueueRight /\ ToldRight /\ StoppedQuiet
        /\ driver \in Driver /\ queue \in Seq(Message)
    BY DEF IInv, Types
  <1> DEFINE m == Head(queue)
  <1>1. /\ driver.pc = "get" /\ queue # <<>> /\ queue' = Tail(queue)
        /\ UNCHANGED <<present, worker, results, errors>>
    BY DEF Get
  <1>2. m \in Message /\ m.from \in Scanners /\ m = queue[1] /\ 1 \in DOMAIN queue
    BY <1>0, <1>1, TailQueue DEF Message
  <1>3. driver.phase \in PhaseIds
    BY <1>0, <1>1 DEF DriverPlaced
  <1>4. \A i \in DOMAIN queue' :
          i \in Nat /\ i + 1 # 1 /\ i + 1 \in DOMAIN queue /\ queue'[i] = queue[i + 1]
    BY <1>0, <1>1, TailQueue
  <1>5. /\ driver.told \in [Scanners -> Nat] /\ driver.done \in Nat
        /\ Go("told") \in Driver /\ Go("told").pc = "told" /\ Go("told").phase = driver.phase
        /\ Go("told").told = driver.told /\ Go("told").done = driver.done
    <2>1. Go("told") \in Driver
      BY <1>0, FieldTypes DEF Go
    <2>2. QED
      BY <1>0, <2>1 DEF Go, Driver
  <1>6. CASE ~ m.done
    <2>1. driver' = Go("told")
      BY <1>6 DEF Get, IsMarker
    <2>2. /\ driver'.pc = "told" /\ driver'.phase = driver.phase /\ driver'.told = driver.told
          /\ driver'.done = driver.done /\ driver' \in Driver /\ Phase' = Phase
      BY <1>5, <2>1 DEF Phase
    <2>3. Types'
      BY <1>0, <1>1, <2>2, TailQueue DEF Types
    <2>4. DriverPlaced' /\ StoppedQuiet'
      BY <1>3, <2>2 DEF DriverPlaced, StoppedQuiet
    <2>5. WorkersPlaced' /\ WorkAccounted' /\ SkipsRead'
      BY <1>0, <1>1, <2>2 DEF WorkersPlaced, WorkAccounted, SkipsRead, LookedEverywhere, Ended
    <2>6. QueueRight'
      BY <1>0, <1>1, <1>4, <2>2 DEF QueueRight, Ended
    <2>7. ToldRight'
      <3>1. \A q : Told(q)' = Told(q)
        BY <2>2 DEF Told
      <3>2. QED
        BY <1>0, <1>1, <2>2, <3>1 DEF ToldRight, Ended
    <2>8. QED
      BY <2>3, <2>4, <2>5, <2>6, <2>7 DEF IInv
  <1>7. CASE m.done
    <2> DEFINE s == m.from
               told == [driver.told EXCEPT ![s] = driver.told[s] + 1]
    <2>1. /\ Ended(s) /\ driver.told[s] = 0 /\ s \in Members(driver.phase)
          /\ Phase.kind = "pool" /\ Kind(s) = "pool"
      BY <1>0, <1>2, <1>3, <1>7, OnePlace DEF QueueRight, Phase
    <2>2. driver' = [Go("told") EXCEPT !.done = driver.done + 1, !.told = told]
      <3>1. driver' = [Go("told") EXCEPT !.done = @ + 1, !.told[s] = @ + 1]
        BY <1>7 DEF Get, IsMarker
      <3>2. QED
        BY <1>5, <3>1
    <2>3. told \in [Scanners -> Nat] /\ told[s] = 1 /\ \A t \in Scanners : t # s => told[t] = driver.told[t]
      BY <1>2, <1>5, <2>1
    <2> HIDE DEF told
    <2>4. /\ driver'.pc = "told" /\ driver'.phase = driver.phase /\ driver'.told = told
          /\ driver'.done = driver.done + 1 /\ driver' \in Driver /\ Phase' = Phase
      <3>1. driver' \in Driver
        <4>1. driver.done + 1 \in Nat
          BY <1>5
        <4>2. \A d \in Driver : \A n \in Nat, t \in [Scanners -> Nat] :
                [d EXCEPT !.done = n, !.told = t] \in Driver
          BY DEF Driver
        <4>3. QED
          BY <1>5, <2>2, <2>3, <4>1, <4>2
      <3>2. QED
        BY <1>5, <2>2, <3>1 DEF Phase, Driver
    <2>5. Types'
      BY <1>0, <1>1, <2>4, TailQueue DEF Types
    <2>6. DriverPlaced' /\ StoppedQuiet'
      BY <1>3, <2>4 DEF DriverPlaced, StoppedQuiet
    <2>7. WorkersPlaced' /\ WorkAccounted' /\ SkipsRead'
      BY <1>0, <1>1, <2>4 DEF WorkersPlaced, WorkAccounted, SkipsRead, LookedEverywhere, Ended
    <2>8. QueueRight'
      <3>1. \A i \in DOMAIN queue : queue[i].from \in Scanners
        <4>1. \A x \in Message : x.from \in Scanners
          BY DEF Message
        <4>2. QED
          BY <1>0, <4>1
      <3>2. \A i \in DOMAIN queue' : queue'[i].done => queue'[i].from # s
        BY <1>0, <1>2, <1>4, <1>7 DEF QueueRight
      <3>3. \A i \in DOMAIN queue' : queue'[i].done =>
              driver'.told[queue'[i].from] = driver.told[queue'[i].from]
        BY <1>4, <2>3, <2>4, <3>1, <3>2
      <3>4. \A i \in DOMAIN queue' : queue'[i].done =>
              /\ worker'[queue'[i].from].st \in {"returned", "raised"}
              /\ driver'.told[queue'[i].from] = 0
              /\ driver'.phase \in PhaseIds /\ queue'[i].from \in Members(driver'.phase)
              /\ Phase'.kind = "pool"
        BY <1>0, <1>1, <1>4, <2>4, <3>3 DEF QueueRight, Ended
      <3>5. \A i, j \in DOMAIN queue' :
              queue'[i].done /\ queue'[j].done /\ queue'[i].from = queue'[j].from => i = j
        <4> SUFFICES ASSUME NEW i \in DOMAIN queue', NEW j \in DOMAIN queue', queue'[i].done,
                            queue'[j].done, queue'[i].from = queue'[j].from
                     PROVE  i = j
          OBVIOUS
        <4>1. i + 1 = j + 1
          BY <1>0, <1>4 DEF QueueRight
        <4>2. QED
          BY <1>4, <4>1
      <3>6. QED
        BY <3>4, <3>5 DEF QueueRight, Ended
    <2>9. ToldRight'
      <3>1. Told(driver.phase)' = Told(driver.phase) \union {s} /\ s \notin Told(driver.phase)
        BY <1>3, <2>1, <2>3, <2>4, PhaseTypes DEF Told
      <3>2. \A q \in PhaseIds : q # driver.phase => Told(q)' = Told(q)
        BY <1>3, <2>1, <2>3, <2>4, OnePlace, PhaseTypes DEF Told
      <3>3. IsFiniteSet(Told(driver.phase)) /\ Cardinality(Told(driver.phase)) \in Nat
        BY <1>3, ToldCounted
      <3>4. Cardinality(Told(driver.phase) \union {s}) = Cardinality(Told(driver.phase)) + 1
        BY <3>1, <3>3, FS_AddElement
      <3>5. driver.done = Cardinality(Told(driver.phase))
        BY <1>0, <1>1, <1>3, <2>1 DEF ToldRight
      <3>6. \A t \in Scanners : driver'.told[t] \in {0, 1}
        BY <1>0, <2>3, <2>4 DEF ToldRight
      <3>7. \A t \in Scanners : driver'.told[t] = 1 => Ended(t)' /\ Kind(t) = "pool"
        BY <1>0, <1>1, <2>1, <2>3, <2>4 DEF ToldRight, Ended
      <3>8. \A p \in PhaseIds : p < driver'.phase /\ Phases[p].kind = "pool" => Told(p)' = Members(p)
        BY <1>0, <1>3, <2>4, <3>2, PhaseTypes DEF ToldRight
      <3>9. driver'.done = Cardinality(Told(driver.phase)')
        BY <2>4, <3>1, <3>4, <3>5
      <3>10. QED
        BY <2>4, <3>6, <3>7, <3>8, <3>9 DEF ToldRight
    <2>10. QED
      BY <2>5, <2>6, <2>7, <2>8, <2>9 DEF IInv
  <1>8. QED
    BY <1>6, <1>7

\* A phase is over: all its scanners have ended, and were announced if it is a pool.
MovesOn ==
  /\ driver.phase \in PhaseIds
  /\ driver' \in Driver /\ driver'.pc = "begin" /\ driver'.phase = driver.phase + 1
  /\ driver'.told = driver.told
  /\ UNCHANGED <<present, worker, queue, results>>
  /\ \A s \in Members(driver.phase) :
       worker[s].st = "returned" \/ (worker[s].st = "raised" /\ Phase.kind = "pool")
  /\ Phase.kind = "pool" => Told(driver.phase) = Members(driver.phase)
  /\ errors' = IF Phase.reads_skipped THEN errors \union Skipped ELSE errors

\* So does going on to the next phase once everyone in this one had his turn.
LEMMA MovingKeeps ==
  ASSUME IInv, MovesOn
  PROVE  IInv'
  <1>0. /\ Types /\ WorkersPlaced /\ DriverPlaced /\ WorkAccounted /\ SkipsRead
        /\ QueueRight /\ ToldRight /\ StoppedQuiet
    BY DEF IInv
  <1> DEFINE here == driver.phase
  <1>1. /\ here \in PhaseIds /\ here \in Nat /\ driver'.phase = here + 1 /\ driver'.pc = "begin"
        /\ driver' \in Driver /\ driver'.told = driver.told
        /\ present' = present /\ worker' = worker /\ queue' = queue /\ results' = results
        /\ Members(here) \subseteq Scanners
    BY PhaseTypes DEF MovesOn
  <1>2. errors \subseteq errors' /\ \A s \in errors' : s \in errors \/ s \in Skipped
    BY DEF MovesOn
  <1>3. Skipped \subseteq Scanners /\ \A s \in Skipped : worker[s].skipped
    BY <1>1 DEF Skipped
  <1>4. Types'
    BY <1>0, <1>1, <1>2, <1>3 DEF Types
  <1>5. DriverPlaced' /\ StoppedQuiet'
    BY <1>1 DEF DriverPlaced, StoppedQuiet
  <1>6. WorkersPlaced'
    <2> SUFFICES ASSUME NEW p \in PhaseIds, NEW i \in Places(p)
                 PROVE  LET st == worker[At(p, i)].st IN
                        /\ p < here + 1 =>
                             st = "returned" \/ (st = "raised" /\ Phases[p].kind = "pool")
                        /\ p > here + 1 \/ p = here + 1 => st = "new"
      BY <1>1 DEF WorkersPlaced
    <2>1. p \in Nat /\ At(p, i) \in Members(p)
      BY PhaseTypes
    <2>2. CASE p < here
      BY <1>0, <1>1, <2>1, <2>2 DEF WorkersPlaced
    <2>3. CASE p = here
      BY <1>1, <2>1, <2>3 DEF MovesOn, Phase
    <2>4. CASE p > here
      BY <1>0, <1>1, <2>1, <2>4 DEF WorkersPlaced
    <2>5. QED
      BY <1>1, <2>1, <2>2, <2>3, <2>4
  <1>7. WorkAccounted'
    <2>1. Nudged
      BY <1>0, <1>1 DEF Nudged, Types
    <2>2. errors' \subseteq Scanners
      BY <1>4 DEF Types
    <2>3. QED
      BY <1>0, <1>1, <1>2, <1>3, <2>1, <2>2, NudgedAccounted
  <1>8. SkipsRead'
    <2> SUFFICES ASSUME NEW p \in PhaseIds, p < here + 1, NEW s \in Members(p),
                        Phases[p].reads_skipped, worker[s].skipped
                 PROVE  s \in errors'
      BY <1>1 DEF SkipsRead
    <2>1. p \in Nat
      BY PhaseTypes
    <2>2. CASE p < here
      BY <1>0, <1>2, <2>2 DEF SkipsRead
    <2>3. CASE p = here
      BY <2>3 DEF MovesOn, Skipped, Phase
    <2>4. QED
      BY <1>1, <2>1, <2>2, <2>3
  <1>9. QueueRight'
    <2>1. \A i \in DOMAIN queue : ~ queue[i].done
      <3> SUFFICES ASSUME NEW i \in DOMAIN queue, queue[i].done
                   PROVE  FALSE
        OBVIOUS
      <3>1. driver.told[queue[i].from] = 0 /\ queue[i].from \in Members(here) /\ Phase.kind = "pool"
        BY <1>0 DEF QueueRight
      <3>2. driver.told[queue[i].from] = 1
        BY <3>1 DEF MovesOn, Told
      <3>3. QED
        BY <3>1, <3>2
    <2>2. QED
      BY <1>1, <2>1 DEF QueueRight
  <1>10. ToldRight'
    <2>1. \A q : Told(q)' = Told(q)
      BY <1>1 DEF Told
    <2>2. \A p \in PhaseIds : p < here + 1 /\ Phases[p].kind = "pool" => Told(p) = Members(p)
      <3> SUFFICES ASSUME NEW p \in PhaseIds, p < here + 1, Phases[p].kind = "pool"
                   PROVE  Told(p) = Members(p)
        OBVIOUS
      <3>1. p \in Nat
        BY PhaseTypes
      <3>2. CASE p < here
        BY <1>0, <3>2 DEF ToldRight
      <3>3. CASE p = here
        BY <3>3 DEF MovesOn, Phase
      <3>4. QED
        BY <1>1, <3>1, <3>2, <3>3
    <2>3. \A s \in Scanners : Ended(s)' <=> Ended(s)
      BY <1>1 DEF Ended
    <2>4. QED
      BY <1>0, <1>1, <2>1, <2>2, <2>3 DEF ToldRight
  <1>11. QED
    BY <1>4, <1>5, <1>6, <1>7, <1>8, <1>9, <1>10 DEF IInv

\* What NextPhase makes of the generator.
LEMMA NextPhaseEffect ==
  ASSUME Types, driver.phase \in PhaseIds
  PROVE  /\ NextPhase \in Driver /\ NextPhase.pc = "begin"
         /\ NextPhase.phase = driver.phase + 1 /\ NextPhase.told = driver.told
  <1>1. /\ Go("begin") \in Driver /\ Go("begin").pc = "begin"
        /\ Go("begin").phase = driver.phase /\ Go("begin").told = driver.told
    <2>1. driver \in Driver
      BY DEF Types
    <2>2. Go("begin") = [driver EXCEPT !.pc = "begin"]
      BY DEF Go
    <2>3. Go("begin") \in Driver
      BY <2>1, <2>2, FieldTypes
    <2>4. QED
      BY <2>1, <2>2, <2>3 DEF Driver
  <1>2. driver.phase + 1 \in 1 .. Len(Phases) + 1
    BY PhaseTypes DEF PhaseIds
  <1> HIDE DEF Go
  <1>3. NextPhase = [Go("begin") EXCEPT !.phase = driver.phase + 1]
    BY <1>1 DEF NextPhase
  <1>4. NextPhase \in Driver
    BY <1>1, <1>2, <1>3, FieldTypes
  <1>5. QED
    BY <1>1, <1>3, <1>4 DEF Driver

\* The three ways a phase comes to its end.
LEMMA PhaseEnds ==
  ASSUME IInv,
         \/ Begin /\ Phase.kind = "pool" /\ Phase.scanners = <<>>
         \/ Gathered
         \/ Awaited /\ worker[Phase.scanners[1]].st = "returned"
  PROVE  IInv'
  <1>0. /\ Types /\ WorkersPlaced /\ DriverPlaced /\ ToldRight /\ driver \in Driver
    BY DEF IInv, Types
  <1>1. driver.phase \in PhaseIds /\ driver.phase \in Nat
    <2>1. driver.phase \in PhaseIds
      <3>1. CASE Begin
        BY <1>0, <3>1, PhaseTypes DEF Begin, PhaseIds, Driver
      <3>2. CASE Gathered \/ Awaited
        BY <1>0, <3>2 DEF Gathered, Awaited, DriverPlaced
      <3>3. QED
        BY <3>1, <3>2
    <2>2. QED
      BY <2>1, PhaseTypes
  <1>2. /\ NextPhase \in Driver /\ NextPhase.pc = "begin"
        /\ NextPhase.phase = driver.phase + 1 /\ NextPhase.told = driver.told
    BY <1>0, <1>1, NextPhaseEffect
  <1>3. CASE Begin /\ Phase.kind = "pool" /\ Phase.scanners = <<>>
    <2>1. Places(driver.phase) = {}
      BY <1>3 DEF Places, Phase
    <2>2. Members(driver.phase) = {} /\ Told(driver.phase) = {} /\ Skipped = {}
      BY <1>1, <2>1, PhaseTypes DEF Told, Skipped
    <2>3. /\ driver' = NextPhase /\ UNCHANGED <<present, worker, queue, results, errors>>
      BY <1>3 DEF Begin
    <2>4. MovesOn
      BY <1>1, <1>2, <2>2, <2>3 DEF MovesOn
    <2>5. QED
      BY <2>4, MovingKeeps
  <1>4. CASE Gathered
    <2>1. /\ driver' = [NextPhase EXCEPT !.owned = FALSE] /\ Phase.kind = "pool"
          /\ driver.done >= Len(Phase.scanners) /\ driver.pc = "get"
          /\ \A s \in Members(driver.phase) : Ended(s)
          /\ UNCHANGED <<present, worker, queue, results>>
          /\ errors' = IF Phase.reads_skipped THEN errors \union Skipped ELSE errors
      BY <1>4 DEF Gathered
    <2> HIDE DEF NextPhase
    <2>2. driver' \in Driver /\ driver'.pc = "begin" /\ driver'.phase = driver.phase + 1
          /\ driver'.told = driver.told
      <3>1. driver' \in Driver
        BY <1>2, <2>1, FieldTypes
      <3>2. QED
        BY <1>2, <2>1, <3>1 DEF Driver
    <2>3. driver.done = Cardinality(Told(driver.phase))
      BY <1>0, <1>1, <2>1 DEF ToldRight
    <2>4. Told(driver.phase) = Members(driver.phase)
      BY <1>1, <2>1, <2>3, ToldCounted DEF Phase
    <2>5. MovesOn
      BY <1>1, <2>1, <2>2, <2>4 DEF MovesOn, Ended
    <2>6. QED
      BY <2>5, MovingKeeps
  <1>5. CASE Awaited /\ worker[Phase.scanners[1]].st = "returned"
    <2>1. /\ driver' = NextPhase /\ Phase.kind # "pool"
          /\ UNCHANGED <<present, worker, queue, results>>
          /\ errors' = IF Phase.reads_skipped THEN errors \union Skipped ELSE errors
      BY <1>5 DEF Awaited
    <2>2. \A s \in Members(driver.phase) : s = Phase.scanners[1]
      BY <1>1, <2>1, PhaseTypes DEF Places, At, Phase
    <2>3. MovesOn
      BY <1>1, <1>2, <1>5, <2>1, <2>2 DEF MovesOn
    <2>4. QED
      BY <2>3, MovingKeeps
  <1>6. QED
    BY <1>3, <1>4, <1>5

\* The scan raises, or the report is yielded.
LEMMA OverKeeps ==
  ASSUME IInv, Complete \/ (Awaited /\ worker[Phase.scanners[1]].st # "returned")
  PROVE  IInv'
  <1>0. /\ Types /\ WorkersPlaced /\ DriverPlaced /\ WorkAccounted /\ SkipsRead
        /\ QueueRight /\ ToldRight /\ driver \in Driver
    BY DEF IInv, Types
  <1>1. PICK pc \in {"failed", "complete"} : driver' = [driver EXCEPT !.pc = pc]
    BY DEF Complete, Awaited, Go
  <1>2. /\ driver'.pc = pc /\ driver'.phase = driver.phase /\ driver'.told = driver.told
        /\ driver'.done = driver.done /\ driver' \in Driver
    <2>1. driver' \in Driver
      BY <1>0, <1>1, FieldTypes
    <2>2. QED
      BY <1>0, <1>1, <2>1 DEF Driver
  <1>3. UNCHANGED <<present, queue, worker, results, errors>>
    BY DEF Complete, Awaited
  <1>4. \/ pc = "complete" /\ driver.pc = "begin" /\ driver.phase > Len(Phases)
        \/ pc = "failed" /\ driver.pc = "get"
    <2>1. driver'.pc = pc
      BY <1>2
    <2>2. QED
      BY <1>0, <1>1, <2>1 DEF Complete, Awaited, Go, Driver
  <1>5. driver.pc = "begin" => driver.phase \notin PhaseIds /\ driver.phase = Len(Phases) + 1
    BY <1>0, <1>4, PhaseTypes DEF PhaseIds, Driver
  <1>6. Types' /\ SkipsRead' /\ WorkAccounted' /\ QueueRight' /\ ToldRight'
    <2>1. Stays({"begin", "launch", "get", "told", "closing", "closed", "failed", "complete"})
      BY <1>2, <1>3 DEF Stays
    <2>2. Nudged
      BY <1>0, <1>3 DEF Nudged, Types
    <2>3. QED
      BY <1>0, <1>5, <2>1, <2>2, StayingKeeps
  <1>7. DriverPlaced' /\ StoppedQuiet'
    BY <1>0, <1>2, <1>4, <1>5 DEF DriverPlaced, StoppedQuiet
  <1>8. WorkersPlaced'
    BY <1>0, <1>2, <1>3 DEF WorkersPlaced
  <1>9. QED
    BY <1>6, <1>7, <1>8 DEF IInv

-----------------------------------------------------------------------------
(* The invariant and its consequences. *)

\* The initial states satisfy the invariant.
LEMMA InvInit == Init => IInv
  <1> SUFFICES ASSUME Init PROVE IInv
    OBVIOUS
  <1>1. /\ driver.pc = "begin" /\ driver.phase = 1 /\ driver \in Driver
        /\ \A s \in Scanners : driver.told[s] = 0
    BY PhaseTypes DEF Init, Driver
  <1>2. \A s \in Scanners : worker[s] = NewWorker
    BY DEF Init
  <1>3. Types
    BY <1>1 DEF Init, Types, NewWorker, Worker
  <1>4. DriverPlaced /\ StoppedQuiet
    BY <1>1 DEF DriverPlaced, StoppedQuiet
  <1>5. \A p \in PhaseIds : ~ (p < 1)
    BY PhaseTypes DEF PhaseIds
  <1>6. WorkersPlaced /\ SkipsRead
    BY <1>1, <1>2, <1>5, PhaseTypes DEF WorkersPlaced, SkipsRead, NewWorker
  <1>7. WorkAccounted
    BY <1>2 DEF WorkAccounted, NewWorker, Init
  <1>8. QueueRight
    BY DEF QueueRight, Init
  <1>9. ToldRight
    BY <1>1, <1>5 DEF ToldRight
  <1>10. QED
    BY <1>3, <1>4, <1>6, <1>7, <1>8, <1>9 DEF IInv

\* One step per action preserves it.
LEMMA InvStep == IInv /\ [Next]_vars => IInv'
  <1> SUFFICES ASSUME IInv, [Next]_vars PROVE IInv'
    OBVIOUS
  <1>1. CASE Drive
    BY <1>1, BeginKeeps, LaunchKeeps, GetKeeps, StopKeeps, PhaseEnds, OverKeeps DEF Drive
  <1>2. CASE Stop
    BY <1>2, StopKeeps DEF Stop
  <1>3. ASSUME NEW s \in Scanners, Work(s)
        PROVE  IInv'
    <2>1. Types /\ WorkAccounted
      BY DEF IInv
    <2>2. CASE Emit(s) \/ Find(s) \/ Skip(s) \/ DeadlinePasses(s) \/ HardTimeout(s)
      BY <2>1, <2>2, WorkingSteps, WorkingKeeps
    <2>3. CASE Return(s) \/ ReturnSkipped(s) \/ Crash(s) \/ TimedOut(s) \/ Cancelled(s)
      BY <2>1, <2>3, FinishingSteps, FinishingKeeps
    <2>4. QED
      BY <1>3, <2>2, <2>3 DEF Work
  <1>4. CASE UNCHANGED vars
    BY <1>4 DEF vars, IInv, Types, DriverPlaced, WorkersPlaced, WorkAccounted, SkipsRead,
                QueueRight, ToldRight, Told, StoppedQuiet, Phase, LookedEverywhere, Ended
  <1>5. QED
    BY <1>1, <1>2, <1>3, <1>4 DEF Next

\* The inductive invariant holds in every reachable state.
THEOREM InvCorrect == Spec => []IInv
  BY InvInit, InvStep, PTL DEF Spec

\* In a complete scan all scanners have had their turn.
LEMMA AllHadTheirTurn ==
  ASSUME IInv, driver.pc = "complete", NEW s \in Scanners
  PROVE  /\ Ended(s) /\ (worker[s].st = "raised" => Kind(s) = "pool")
         /\ \A p \in PhaseIds : s \in Members(p) /\ Phases[p].reads_skipped /\ worker[s].skipped =>
              s \in errors
  <1>1. driver.phase = Len(Phases) + 1
    BY DEF IInv, DriverPlaced
  <1>2. \A p \in PhaseIds : p < driver.phase
    BY <1>1, PhaseTypes DEF PhaseIds
  <1>3. PICK p \in PhaseIds : \E i \in Places(p) : s = At(p, i)
    BY OnePlace
  <1>4. s \in Members(p) /\ Kind(s) = Phases[p].kind
    BY <1>3, PhaseTypes, OnePlace
  <1>5. worker[s].st = "returned" \/ (worker[s].st = "raised" /\ Kind(s) = "pool")
    BY <1>2, <1>3, <1>4 DEF IInv, WorkersPlaced
  <1>6. QED
    BY <1>2, <1>5 DEF IInv, SkipsRead, Ended

\* In a complete report, a scanner that is not among the errors has all it found in it.
LEMMA NothingLost ==
  ASSUME IInv
  PROVE  NoSilentLoss
  <1> SUFFICES ASSUME driver.pc = "complete", NEW s \in Scanners \ errors, Kind(s) # "task"
               PROVE  results[s] = worker[s].found
    BY DEF NoSilentLoss
  <1>1. Ended(s) /\ (worker[s].st = "raised" => Kind(s) = "pool")
    BY AllHadTheirTurn
  <1>2. QED
    BY <1>1 DEF IInv, WorkAccounted, Ended

\* Each scanner of a pool is announced once, and by the end of its phase.
LEMMA AnnouncedOnce ==
  ASSUME IInv
  PROVE  NarratedOnce
  <1> SUFFICES ASSUME NEW p \in PhaseIds, NEW s \in Members(p)
               PROVE  /\ driver.told[s] <= 1
                      /\ driver.told[s] = 1 => Kind(s) = "pool" /\ p <= driver.phase
                      /\ Kind(s) = "pool" /\ p < driver.phase => driver.told[s] = 1
    BY DEF NarratedOnce, PhaseIds
  <1>1. s \in Scanners /\ p \in Nat /\ driver.phase \in Nat /\ Kind(s) = Phases[p].kind
    BY PhaseTypes, OnePlace DEF IInv, Types, Driver
  <1>2. driver.told[s] <= 1
    BY <1>1 DEF IInv, ToldRight
  <1>3. driver.told[s] = 1 => Kind(s) = "pool" /\ p <= driver.phase
    <2> SUFFICES ASSUME driver.told[s] = 1
                 PROVE  Kind(s) = "pool" /\ ~ (p > driver.phase)
      BY <1>1
    <2>1. Ended(s) /\ Kind(s) = "pool"
      BY <1>1 DEF IInv, ToldRight
    <2>2. PICK i \in Places(p) : s = At(p, i)
      BY PhaseTypes
    <2>3. QED
      BY <2>1, <2>2 DEF IInv, WorkersPlaced, Ended
  <1>4. Kind(s) = "pool" /\ p < driver.phase => driver.told[s] = 1
    BY <1>1 DEF IInv, ToldRight, Told
  <1>5. QED
    BY <1>2, <1>3, <1>4

\* No scanner is lost without a word, none is blamed that did its work, and each
\* scanner of a pool is announced once.
THEOREM ReportsAreTrue == Spec => []ReportTrue
  <1>1. IInv => TypeOK
    <2> SUFFICES ASSUME IInv PROVE TypeOK
      OBVIOUS
    <2>1. driver.pc = "get" /\ Phase.kind = "pool" => driver.done <= Len(Phase.scanners)
      BY ToldCounted DEF IInv, DriverPlaced, ToldRight, Phase
    <2>2. QED
      BY <2>1 DEF IInv, Types, TypeOK
  <1>2. IInv => NoFalseAlarm
    BY DEF IInv, Types, WorkAccounted, NoFalseAlarm
  <1>3. IInv => ReportTrue
    BY <1>1, <1>2, NothingLost, AnnouncedOnce DEF ReportTrue
  <1>4. QED
    BY <1>3, InvCorrect, PTL

\* A flaw that a re-scan calls fixed is gone, or its scanner may stop early.
THEOREM VerdictsAreHonest == Spec => []VerdictHonest
  <1>1. IInv => VerdictHonest
    <2> SUFFICES ASSUME IInv, driver.pc = "complete", NEW f \in present, Verdict(f) = "fixed",
                        ScannerOf[f] \notin Cooperative
                 PROVE  FALSE
      BY DEF VerdictHonest
    <2> DEFINE s == ScannerOf[f]
    <2>1. f \in Flaws /\ s \in Scanners /\ Kind(s) # "task"
      BY ScanAssumption, PlacementAssumption DEF IInv, Types
    <2>2. f \notin Reported /\ s \notin errors
      BY DEF Verdict, Blocks
    <2>3. f \notin results[s]
      BY <2>1, <2>2 DEF Reported
    <2>4. results[s] = worker[s].found
      BY <2>1, <2>2, NothingLost DEF NoSilentLoss
    <2>5. Ended(s) /\ (worker[s].st = "raised" => Kind(s) = "pool")
      BY <2>1, AllHadTheirTurn
    <2>6. LookedEverywhere(s) \/ worker[s].skipped
      BY <2>1, <2>2, <2>5 DEF IInv, WorkAccounted, Ended
    <2>7. worker[s].skipped
      BY <2>3, <2>4, <2>6 DEF LookedEverywhere
    <2>8. s \in Skipping
      BY <2>1, <2>7 DEF IInv, WorkAccounted
    <2>9. PICK p \in PhaseIds : s \in Members(p)
      BY <2>1, PlacementAssumption DEF PhaseIds
    <2>10. Phases[p].reads_skipped
      BY <2>8, <2>9, PlacementAssumption DEF PhaseIds
    <2>11. QED
      BY <2>1, <2>2, <2>7, <2>9, <2>10, AllHadTheirTurn
  <1>2. QED
    BY <1>1, InvCorrect, PTL

\* Once the stream was stopped while a pool was drained, nothing more is found or reported.
THEOREM StopsAreQuiet == Spec => QuietAfterStop
  <1> DEFINE Quiet == driver.pc = "closed" /\ driver.owned =>
                        \A s \in Scanners : /\ worker'[s].found = worker[s].found
                                            /\ worker'[s].emits <= worker[s].emits
  <1>1. IInv /\ [Next]_vars => [Quiet]_vars
    <2> SUFFICES ASSUME IInv, Next, driver.pc = "closed", driver.owned, NEW s \in Scanners
                 PROVE  worker'[s].found = worker[s].found /\ worker'[s].emits <= worker[s].emits
      OBVIOUS
    <2>1. /\ worker \in [Scanners -> Worker] /\ worker[s] \in Worker
          /\ worker[s].emits \in Nat
          /\ \A t \in Scanners : worker[t].st # "running"
      BY DEF IInv, Types, StoppedQuiet, Worker
    <2>2. ~Drive /\ ~Stop
      BY DEF Drive, Stop, Begin, Launch, Get, Resume, Gathered, Awaited, Complete, Finalize,
             Close, CancelConsumer
    <2>3. PICK t \in Scanners : Work(t)
      BY <2>2 DEF Next
    <2>4. PICK st, found, said : End(t, st, found, said)
      BY <2>1, <2>3 DEF Work, Emit, Find, Skip, DeadlinePasses, HardTimeout, Crash, Return,
                        ReturnSkipped, TimedOut, Cancelled
    <2>5. worker' = [worker EXCEPT ![t].st = st, ![t].late = FALSE, ![t].emits = 0]
      BY <2>4 DEF End
    <2>6. CASE t = s
      BY <2>1, <2>5, <2>6 DEF Worker
    <2>7. CASE t # s
      BY <2>1, <2>5, <2>7
    <2>8. QED
      BY <2>6, <2>7
  <1>2. QED
    BY <1>1, InvCorrect, PTL DEF Spec, QuietAfterStop

=============================================================================
