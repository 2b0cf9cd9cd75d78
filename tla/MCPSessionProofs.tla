-------------------------- MODULE MCPSessionProofs --------------------------
(***************************************************************************)
(* Proofs about MCPSession and the verdicts of RescanVerdicts, for any     *)
(* flaws, files, lines and limits.                                         *)
(***************************************************************************)
EXTENDS MCPSession, FiniteSetTheorems, TLAPS

-----------------------------------------------------------------------------
(* Turns: what holds of a state of the matching and is kept by each turn    *)
(* holds in the end.                                                        *)

\* Every non-empty set of natural numbers has a least element.
LEMMA LeastElement ==
  ASSUME NEW S \in SUBSET Nat, S # {}
  PROVE  \E m \in S : \A k \in S : m <= k
  <1>1. IsWellFoundedOn(OpToRel(<, Nat), Nat)
    BY NatLessThanWellFounded, Zenon
  <1>2. PICK m \in S : \A k \in S : ~ (<<k, m>> \in OpToRel(<, Nat))
    BY <1>1, WFMin, Zenon
  <1>3. \A k \in S : ~ (k < m)
    BY <1>2 DEF OpToRel
  <1>4. QED
    BY <1>3

\* The states after each of the first k turns.
RunsTo(g, st, F, fits, k) ==
  /\ DOMAIN g = 0 .. k /\ g = [n \in 0 .. k |-> g[n]]
  /\ g[0] = st /\ \A n \in 1 .. k : g[n] = Turn(g[n - 1], F, fits, n)

\* There is a course of any length.
LEMMA CourseExists ==
  ASSUME NEW st, NEW F, NEW fits, NEW k \in Nat
  PROVE  \E g : RunsTo(g, st, F, fits, k)
  <1> DEFINE Failing == {j \in Nat : ~ \E g : RunsTo(g, st, F, fits, j)}
  <1>1. SUFFICES ASSUME Failing # {} PROVE FALSE
    OBVIOUS
  <1>2. PICK m \in Failing : \A j \in Failing : m <= j
    BY <1>1, LeastElement
  <1>3. CASE m = 0
    <2> DEFINE g == [n \in 0 .. 0 |-> st]
    <2>1. RunsTo(g, st, F, fits, 0)
      BY DEF RunsTo
    <2>2. QED
      BY <1>2, <1>3, <2>1
  <1>4. CASE m # 0
    <2>1. m - 1 \in Nat /\ m - 1 \notin Failing
      BY <1>2, <1>4
    <2>2. PICK h : RunsTo(h, st, F, fits, m - 1)
      BY <2>1
    <2> DEFINE g == [n \in 0 .. m |-> IF n = m THEN Turn(h[m - 1], F, fits, m) ELSE h[n]]
    <2>3. RunsTo(g, st, F, fits, m)
      <3>1. DOMAIN g = 0 .. m /\ g = [n \in 0 .. m |-> g[n]] /\ g[0] = st
        BY <1>2, <1>4, <2>2 DEF RunsTo
      <3>2. ASSUME NEW n \in 1 .. m
            PROVE  g[n] = Turn(g[n - 1], F, fits, n)
        <4>1. CASE n = m
          BY <4>1, <1>2, <1>4
        <4>2. CASE n # m
          <5>1. n \in 1 .. m - 1 /\ n - 1 \in 0 .. m - 1 /\ n - 1 # m
            BY <4>2, <1>2
          <5>2. g[n] = h[n] /\ g[n - 1] = h[n - 1]
            BY <5>1, <4>2, <1>2
          <5>3. QED
            BY <5>1, <5>2, <2>2 DEF RunsTo
        <4>3. QED
          BY <4>1, <4>2
      <3>3. QED
        BY <3>1, <3>2 DEF RunsTo
    <2>4. QED
      BY <1>2, <2>3
  <1>5. QED
    BY <1>3, <1>4

\* The turns of ClaimInTurn are such a course.
LEMMA ClaimInTurnRuns ==
  ASSUME NEW st, NEW F, NEW fits
  PROVE  \E g : RunsTo(g, st, F, fits, NumFlaws) /\ ClaimInTurn(st, F, fits) = g[NumFlaws]
  <1> DEFINE Step(g) == [n \in 0 .. NumFlaws |->
                           IF n = 0 THEN st ELSE Turn(g[n - 1], F, fits, n)]
             After == CHOOSE g : g = Step(g)
  <1>0. NumFlaws \in Nat
    BY FlawAssumption
  <1>1. PICK h : RunsTo(h, st, F, fits, NumFlaws)
    BY <1>0, CourseExists
  <1>2. h = Step(h)
    <2>1. ASSUME NEW n \in 0 .. NumFlaws
          PROVE  h[n] = IF n = 0 THEN st ELSE Turn(h[n - 1], F, fits, n)
      <3>1. n = 0 \/ n \in 1 .. NumFlaws
        BY <1>0
      <3>2. QED
        BY <3>1, <1>1 DEF RunsTo
    <2>2. h = [n \in 0 .. NumFlaws |-> h[n]]
      BY <1>1 DEF RunsTo
    <2>3. QED
      BY <2>1, <2>2
  <1>3. After = Step(After)
    BY <1>2
  <1>4. ClaimInTurn(st, F, fits) = After[NumFlaws]
    BY DEF ClaimInTurn
  <1>5. RunsTo(After, st, F, fits, NumFlaws)
    <2> HIDE DEF After
    <2>1. DOMAIN After = 0 .. NumFlaws /\ After = [n \in 0 .. NumFlaws |-> After[n]]
      BY <1>3
    <2>2. After[0] = st /\ \A n \in 1 .. NumFlaws : After[n] = Turn(After[n - 1], F, fits, n)
      BY <1>3, <1>0
    <2>3. QED
      BY <2>1, <2>2 DEF RunsTo
  <1>6. QED
    BY <1>4, <1>5

\* What each turn keeps, from one set of states to the next.
LEMMA TurnsKeep ==
  ASSUME NEW st, NEW F, NEW fits, NEW S, st \in S[0],
         \A n \in 1 .. NumFlaws : \A s \in S[n - 1] : Turn(s, F, fits, n) \in S[n]
  PROVE  ClaimInTurn(st, F, fits) \in S[NumFlaws]
  <1>0. NumFlaws \in Nat
    BY FlawAssumption
  <1>1. PICK g : RunsTo(g, st, F, fits, NumFlaws) /\ ClaimInTurn(st, F, fits) = g[NumFlaws]
    BY ClaimInTurnRuns
  <1> DEFINE Failing == {n \in 0 .. NumFlaws : g[n] \notin S[n]}
  <1>2. SUFFICES ASSUME Failing # {} PROVE FALSE
    BY <1>0, <1>1
  <1>3. PICK m \in Failing : \A j \in Failing : m <= j
    <2>1. Failing \in SUBSET Nat
      BY <1>0
    <2> HIDE DEF Failing
    <2>2. QED
      BY <1>2, <2>1, LeastElement
  <1>4. m # 0
    BY <1>1, <1>3 DEF RunsTo
  <1>5. m \in 1 .. NumFlaws /\ m - 1 \in 0 .. NumFlaws /\ m - 1 \notin Failing
    BY <1>3, <1>4, <1>0
  <1>6. QED
    BY <1>1, <1>3, <1>5 DEF RunsTo

\* What each claim keeps, a round keeps.
LEMMA ClaimInTurnKeeps ==
  ASSUME NEW F, NEW fits, NEW S, NEW st \in S,
         \A s \in S, f \in F : Claim(s, f, fits[f] \intersect s.free) \in S
  PROVE  ClaimInTurn(st, F, fits) \in S
  <1> DEFINE All == [n \in 0 .. NumFlaws |-> S]
  <1>0. NumFlaws \in Nat
    BY FlawAssumption
  <1>1. st \in All[0] /\ All[NumFlaws] = S
    BY <1>0
  <1>2. ASSUME NEW n \in 1 .. NumFlaws, NEW s \in All[n - 1]
        PROVE  Turn(s, F, fits, n) \in All[n]
    <2>1. s \in S /\ All[n] = S
      BY <1>0
    <2>2. CASE \A f \in F : f.flaw # n
      BY <2>1, <2>2 DEF Turn
    <2>3. CASE \E f \in F : f.flaw = n
      <3> DEFINE f == CHOOSE g \in F : g.flaw = n
      <3>1. f \in F
        BY <2>3
      <3>2. Turn(s, F, fits, n) = Claim(s, f, fits[f] \intersect s.free)
        BY <2>3 DEF Turn
      <3>3. QED
        BY <2>1, <3>1, <3>2
    <2>4. QED
      BY <2>2, <2>3
  <1> HIDE DEF All
  <1>3. QED
    BY <1>1, <1>2, TurnsKeep

LEMMA RoundKeeps ==
  ASSUME NEW originals, NEW context, NEW fits, NEW S, NEW st \in S,
         \A s \in S, f \in originals \union context :
           Claim(s, f, fits[f] \intersect s.free) \in S
  PROVE  Round(st, originals, context, fits) \in S
  <1>1. ClaimInTurn(st, context \ originals, fits) \in S
    BY ClaimInTurnKeeps
  <1>2. QED
    BY <1>1, ClaimInTurnKeeps DEF Round

-----------------------------------------------------------------------------
(* What the rounds of classify_against_rescan keep and reach. *)

\* The findings of a report: one of a flaw at most.
OnePerFlaw(F) == \A f, g \in F : f.flaw = g.flaw => f = g
IsReport(F) == OnePerFlaw(F) /\ \A f \in F : f.flaw \in Flaws

Matching(E, R) == [claimed : SUBSET E, free : SUBSET R]

\* Each finding that has claimed has one of its own, from what it may claim, and these are
\* all that is not free.
Assigned(s, R, L, m) ==
  /\ \A f \in s.claimed : m[f] \in R \ s.free /\ <<f, m[f]>> \in L
  /\ \A f, g \in s.claimed : m[f] = m[g] => f = g
  /\ \A x \in R \ s.free : \E f \in s.claimed : m[f] = x
Paired(E, R, L) ==
  {s \in Matching(E, R) : \E m \in [s.claimed -> R] : Assigned(s, R, L, m)}
Settled(s, f, fits) == f \in s.claimed \/ fits[f] \intersect s.free = {}
Later(s, st) == st.claimed \subseteq s.claimed /\ s.free \subseteq st.free

\* There is a first one of some findings.
LEMMA FirstIsOne ==
  ASSUME NEW F, F # {}, \A f \in F : f.flaw \in Flaws
  PROVE  First(F) \in F
  <1> DEFINE N == {f.flaw : f \in F}
  <1>1. N \in SUBSET Nat /\ N # {}
    BY FlawAssumption DEF Flaws
  <1>2. PICK n \in N : \A k \in N : n <= k
    BY <1>1, LeastElement
  <1>3. PICK f \in F : f.flaw = n
    BY <1>2
  <1>4. \A g \in F : f.flaw <= g.flaw
    BY <1>2, <1>3
  <1>5. QED
    BY <1>4, Zenon DEF First

\* A claim: nothing, or one more finding has one less that is free.
LEMMA ClaimEffect ==
  ASSUME NEW E, NEW R, \A x \in R : x.flaw \in Flaws,
         NEW s \in Matching(E, R), NEW f \in E, NEW fitting \in SUBSET s.free
  PROVE  /\ Claim(s, f, fitting) \in Matching(E, R) /\ Later(Claim(s, f, fitting), s)
         /\ \/ Claim(s, f, fitting) = s /\ (f \in s.claimed \/ fitting = {})
            \/ /\ f \notin s.claimed
               /\ \E x \in fitting : /\ Claim(s, f, fitting).claimed = s.claimed \union {f}
                                     /\ Claim(s, f, fitting).free = s.free \ {x}
  <1>1. CASE f \in s.claimed \/ fitting = {}
    BY <1>1 DEF Claim, Later
  <1>2. CASE ~ (f \in s.claimed \/ fitting = {})
    <2>1. \A x \in fitting : x.flaw \in Flaws
      BY DEF Matching
    <2>2. First(fitting) \in fitting
      BY <1>2, <2>1, FirstIsOne
    <2>3. Claim(s, f, fitting)
            = [claimed |-> s.claimed \union {f}, free |-> s.free \ {First(fitting)}]
      BY <1>2 DEF Claim
    <2>4. QED
      BY <1>2, <2>2, <2>3 DEF Matching, Later
  <1>3. QED
    BY <1>1, <1>2

\* A claim within L keeps the assignment.
LEMMA ClaimPairs ==
  ASSUME NEW E, NEW R, \A x \in R : x.flaw \in Flaws, NEW L,
         NEW s \in Paired(E, R, L), NEW f \in E, NEW fitting \in SUBSET s.free,
         f \notin s.claimed => \A x \in fitting : <<f, x>> \in L
  PROVE  Claim(s, f, fitting) \in Paired(E, R, L) /\ Later(Claim(s, f, fitting), s)
  <1> DEFINE t == Claim(s, f, fitting)
  <1>1. s \in Matching(E, R)
    BY DEF Paired
  <1>2. t \in Matching(E, R) /\ Later(t, s)
    BY <1>1, ClaimEffect
  <1>3. CASE t = s
    BY <1>2, <1>3
  <1>4. CASE t # s
    <2>1. PICK x \in fitting : t.claimed = s.claimed \union {f} /\ t.free = s.free \ {x}
      BY <1>1, <1>4, ClaimEffect
    <2>2. f \notin s.claimed
      BY <1>1, <1>4, ClaimEffect
    <2>3. PICK m \in [s.claimed -> R] : Assigned(s, R, L, m)
      BY DEF Paired
    <2> DEFINE k == [g \in t.claimed |-> IF g = f THEN x ELSE m[g]]
    <2> HIDE DEF t
    <2>4. x \in R /\ x \in s.free /\ <<f, x>> \in L
      BY <1>1, <2>2 DEF Matching
    <2>5. k \in [t.claimed -> R]
      BY <2>1, <2>4
    <2>6. \A g \in t.claimed : k[g] \in R \ t.free /\ <<g, k[g]>> \in L
      BY <2>1, <2>3, <2>4 DEF Assigned
    <2>7. \A g, h \in t.claimed : k[g] = k[h] => g = h
      BY <2>1, <2>3, <2>4 DEF Assigned
    <2>8. \A y \in R \ t.free : \E g \in t.claimed : k[g] = y
      <3> SUFFICES ASSUME NEW y \in R \ t.free PROVE \E g \in t.claimed : k[g] = y
        OBVIOUS
      <3>1. CASE y = x
        <4>1. f \in t.claimed /\ k[f] = x
          BY <2>1
        <4>2. QED
          BY <3>1, <4>1
      <3>2. CASE y # x
        <4>1. PICK g \in s.claimed : m[g] = y
          BY <2>1, <2>3, <3>2 DEF Assigned
        <4>2. g \in t.claimed /\ k[g] = y
          BY <2>1, <2>2, <4>1
        <4>3. QED
          BY <4>2
      <3>3. QED
        BY <3>1, <3>2
    <2>9. Assigned(t, R, L, k)
      BY <2>6, <2>7, <2>8 DEF Assigned
    <2>10. QED
      BY <1>2, <2>5, <2>9 DEF Paired, t
  <1>5. QED
    BY <1>3, <1>4

\* A round keeps the assignment, takes no claim back and frees nothing.
LEMMA RoundPairs ==
  ASSUME NEW E, NEW R, \A x \in R : x.flaw \in Flaws, NEW L,
         NEW originals, NEW context, E = originals \union context,
         NEW fits \in [E -> SUBSET R], NEW st \in Paired(E, R, L),
         \A f \in E : f \notin st.claimed =>
           \A x \in fits[f] \intersect st.free : <<f, x>> \in L
  PROVE  /\ Round(st, originals, context, fits) \in Paired(E, R, L)
         /\ Later(Round(st, originals, context, fits), st)
  <1> DEFINE S == {s \in Paired(E, R, L) : Later(s, st)}
  <1>1. st \in S
    BY DEF Later
  <1>2. ASSUME NEW s \in S, NEW f \in originals \union context
        PROVE  Claim(s, f, fits[f] \intersect s.free) \in S
    <2>1. s \in Paired(E, R, L) /\ Later(s, st) /\ f \in E
      OBVIOUS
    <2>2. fits[f] \intersect s.free \in SUBSET s.free
      OBVIOUS
    <2>3. f \notin s.claimed => \A x \in fits[f] \intersect s.free : <<f, x>> \in L
      BY <2>1 DEF Later
    <2>4. /\ Claim(s, f, fits[f] \intersect s.free) \in Paired(E, R, L)
          /\ Later(Claim(s, f, fits[f] \intersect s.free), s)
      BY <2>1, <2>2, <2>3, ClaimPairs
    <2>5. QED
      BY <2>1, <2>4 DEF Later
  <1>3. Round(st, originals, context, fits) \in S
    <2> HIDE DEF S
    <2>1. QED
      BY <1>1, <1>2, RoundKeeps
  <1>4. QED
    BY <1>3

\* When all have had a turn, each has claimed or nothing that fits is free.
LEMMA TurnsSettle ==
  ASSUME NEW E, NEW R, \A x \in R : x.flaw \in Flaws,
         NEW F \in SUBSET E, IsReport(F),
         NEW fits \in [E -> SUBSET R], NEW st \in Matching(E, R)
  PROVE  /\ ClaimInTurn(st, F, fits) \in Matching(E, R)
         /\ \A f \in F : Settled(ClaimInTurn(st, F, fits), f, fits)
  <1> DEFINE S == [n \in 0 .. NumFlaws |->
                     {s \in Matching(E, R) : \A f \in F : f.flaw <= n => Settled(s, f, fits)}]
  <1>0. NumFlaws \in Nat
    BY FlawAssumption
  <1>1. st \in S[0]
    BY <1>0 DEF IsReport, Flaws
  <1>2. ASSUME NEW n \in 1 .. NumFlaws, NEW s \in S[n - 1]
        PROVE  Turn(s, F, fits, n) \in S[n]
    <2>0. n \in 0 .. NumFlaws /\ n - 1 \in 0 .. NumFlaws
      BY <1>0
    <2>1. s \in Matching(E, R) /\ \A f \in F : f.flaw <= n - 1 => Settled(s, f, fits)
      BY <2>0
    <2>2. \A f \in F : f.flaw <= n => f.flaw <= n - 1 \/ f.flaw = n
      BY DEF IsReport, Flaws
    <2>3. CASE \A f \in F : f.flaw # n
      BY <2>0, <2>1, <2>2, <2>3 DEF Turn
    <2>4. CASE \E f \in F : f.flaw = n
      <3> DEFINE f == CHOOSE g \in F : g.flaw = n
                 t == Claim(s, f, fits[f] \intersect s.free)
      <3>1. f \in F /\ f.flaw = n
        BY <2>4
      <3>2. Turn(s, F, fits, n) = t
        BY <2>4 DEF Turn
      <3> HIDE DEF f
      <3>3. f \in E /\ fits[f] \intersect s.free \in SUBSET s.free
        BY <3>1
      <3> DEFINE fitting == fits[f] \intersect s.free
      <3>a. /\ t \in Matching(E, R) /\ Later(t, s)
            /\ \/ t = s /\ (f \in s.claimed \/ fitting = {})
               \/ \E x \in fitting : t.claimed = s.claimed \union {f}
        <4>1. \A g \in E : \A X \in SUBSET s.free :
                 /\ Claim(s, g, X) \in Matching(E, R) /\ Later(Claim(s, g, X), s)
                 /\ \/ Claim(s, g, X) = s /\ (g \in s.claimed \/ X = {})
                    \/ \E x \in X : Claim(s, g, X).claimed = s.claimed \union {g}
          BY <2>1, ClaimEffect
        <4>2. QED
          BY <3>3, <4>1
      <3>4. t \in Matching(E, R) /\ Later(t, s) /\ Settled(t, f, fits)
        BY <3>a DEF Settled
      <3>5. \A g \in F : g.flaw = n => g = f
        BY <3>1 DEF IsReport, OnePerFlaw
      <3> HIDE DEF t
      <3>6. \A g \in F : Settled(s, g, fits) => Settled(t, g, fits)
        BY <3>4 DEF Later, Settled
      <3>7. \A g \in F : g.flaw <= n => Settled(t, g, fits)
        BY <2>1, <2>2, <3>4, <3>5, <3>6
      <3>8. QED
        BY <2>0, <3>2, <3>4, <3>7
    <2>5. QED
      BY <2>3, <2>4
  <1>3. ClaimInTurn(st, F, fits) \in S[NumFlaws]
    <2> HIDE DEF S
    <2>1. QED
      BY <1>1, <1>2, TurnsKeep
  <1>4. \A f \in F : f.flaw <= NumFlaws
    BY <1>0 DEF IsReport, Flaws
  <1>5. QED
    BY <1>0, <1>3, <1>4

LEMMA RoundSettles ==
  ASSUME NEW E, NEW R, \A x \in R : x.flaw \in Flaws, IsReport(E),
         NEW originals, NEW context, E = originals \union context,
         NEW fits \in [E -> SUBSET R], NEW st \in Matching(E, R)
  PROVE  \A f \in E : Settled(Round(st, originals, context, fits), f, fits)
  <1> DEFINE C == context \ originals
             mid == ClaimInTurn(st, C, fits)
             S == {s \in Matching(E, R) : \A f \in C : Settled(s, f, fits)}
  <1>1. C \in SUBSET E /\ IsReport(C) /\ originals \in SUBSET E /\ IsReport(originals)
    BY DEF IsReport, OnePerFlaw
  <1>2. mid \in S
    BY <1>1, TurnsSettle
  <1>3. ASSUME NEW s \in S, NEW f \in originals
        PROVE  Claim(s, f, fits[f] \intersect s.free) \in S
    <2>1. s \in Matching(E, R) /\ f \in E /\ fits[f] \intersect s.free \in SUBSET s.free
      OBVIOUS
    <2>2. /\ Claim(s, f, fits[f] \intersect s.free) \in Matching(E, R)
          /\ Later(Claim(s, f, fits[f] \intersect s.free), s)
      BY <2>1, ClaimEffect
    <2>3. QED
      BY <2>2 DEF Settled, Later
  <1>4. Round(st, originals, context, fits) = ClaimInTurn(mid, originals, fits)
    BY DEF Round
  <1>5. mid \in Matching(E, R)
    BY <1>2
  <1>6. Round(st, originals, context, fits) \in S
    <2> HIDE DEF S, mid
    <2>1. QED
      BY <1>2, <1>3, <1>4, ClaimInTurnKeeps
  <1>7. \A f \in originals : Settled(Round(st, originals, context, fits), f, fits)
    <2> HIDE DEF mid
    <2>1. QED
      BY <1>1, <1>4, <1>5, TurnsSettle
  <1>8. QED
    BY <1>6, <1>7

-----------------------------------------------------------------------------
(* The three rounds of Classify. *)

FitsExact(E, R) == [f \in E |-> {g \in R : SameFingerprint(f, g)}]
FitsHere(E, R) == [f \in E |-> {g \in R : SameLegacy(f, g)}]
FitsMoved(E, R) == [f \in E |-> {g \in R : MovedTo(f, g)}]
AfterExact(o, R, c) ==
  Round([claimed |-> {}, free |-> R], o, c, FitsExact(o \union c, R))
AfterHere(o, R, c) == Round(AfterExact(o, R, c), o, c, FitsHere(o \union c, R))
AfterMoved(o, R, c) == Round(AfterHere(o, R, c), o, c, FitsMoved(o \union c, R))

LEMMA ClassifyIs ==
  ASSUME NEW o, NEW R, NEW c
  PROVE  Classify(o, R, c)
           = [still |-> o \intersect AfterHere(o, R, c).claimed,
              moved |-> o \intersect (AfterMoved(o, R, c).claimed \ AfterHere(o, R, c).claimed),
              gone |-> o \ AfterMoved(o, R, c).claimed]
  BY DEF Classify, AfterMoved, AfterHere, AfterExact, FitsExact, FitsHere, FitsMoved

\* Who has claimed what: in the first two rounds a finding of the own file, in the third
\* one of another file; and who has not, found nothing free that fits.
Outcome(E, R, here, anywhere, m) ==
  /\ here \in Matching(E, R) /\ anywhere \in Matching(E, R) /\ Later(anywhere, here)
  /\ m \in [anywhere.claimed -> R]
  /\ \A f, g \in anywhere.claimed : m[f] = m[g] => f = g
  /\ \A f \in here.claimed : SameLegacy(f, m[f])
  /\ \A f \in anywhere.claimed \ here.claimed : MovedTo(f, m[f])
  /\ \A x \in R \ here.free : \E f \in here.claimed : m[f] = x
  /\ \A x \in R \ anywhere.free : \E f \in anywhere.claimed : m[f] = x
  /\ \A f \in E \ here.claimed, x \in here.free : ~ SameLegacy(f, x)
  /\ \A f \in E \ anywhere.claimed, x \in anywhere.free : ~ MovedTo(f, x)

LEMMA ClassifyOutcome ==
  ASSUME NEW o, NEW R, NEW c, IsReport(o \union c), IsReport(R)
  PROVE  \E m : Outcome(o \union c, R, AfterHere(o, R, c), AfterMoved(o, R, c), m)
  <1> DEFINE E == o \union c
             start == [claimed |-> {}, free |-> R]
             exact == AfterExact(o, R, c)
             here == AfterHere(o, R, c)
             anywhere == AfterMoved(o, R, c)
             L == {p \in E \X R : SameLegacy(p[1], p[2])}
             M == {p \in E \X R :
                     \/ p[1] \in here.claimed /\ p[2] \notin here.free /\ SameLegacy(p[1], p[2])
                     \/ p[1] \notin here.claimed /\ p[2] \in here.free /\ MovedTo(p[1], p[2])}
  <1>0. /\ \A x \in R : x.flaw \in Flaws
        /\ FitsExact(E, R) \in [E -> SUBSET R] /\ FitsHere(E, R) \in [E -> SUBSET R]
        /\ FitsMoved(E, R) \in [E -> SUBSET R]
    BY DEF IsReport, FitsExact, FitsHere, FitsMoved
  <1>1. start \in Paired(E, R, L)
    <2>1. start \in Matching(E, R)
      BY DEF Matching
    <2>2. \E m \in [start.claimed -> R] : Assigned(start, R, L, m)
      <3> DEFINE m == [f \in {} |-> f]
      <3>1. m \in [start.claimed -> R] /\ Assigned(start, R, L, m)
        BY DEF Assigned
      <3>2. QED
        BY <3>1
    <2>3. QED
      BY <2>1, <2>2 DEF Paired
  <1>2. exact \in Paired(E, R, L)
    <2>1. \A f \in E : \A x \in FitsExact(E, R)[f] : <<f, x>> \in L
      BY DEF FitsExact, SameFingerprint, finding_fingerprint, SameLegacy
    <2>2. exact = Round(start, o, c, FitsExact(E, R))
      BY DEF AfterExact
    <2> HIDE DEF start, exact, L, E
    <2>3. QED
      BY <1>0, <1>1, <2>1, <2>2, RoundPairs DEF E
  <1>3. here \in Paired(E, R, L)
    <2>1. \A f \in E : \A x \in FitsHere(E, R)[f] : <<f, x>> \in L
      BY DEF FitsHere
    <2>2. here = Round(exact, o, c, FitsHere(E, R))
      BY DEF AfterHere
    <2> HIDE DEF start, exact, L, E, here
    <2>3. QED
      BY <1>0, <1>2, <2>1, <2>2, RoundPairs DEF E
  <1>4. here \in Paired(E, R, M)
    <2>1. here \in Matching(E, R)
      BY <1>3 DEF Paired
    <2>2. PICK m \in [here.claimed -> R] : Assigned(here, R, L, m)
      BY <1>3 DEF Paired
    <2>3. \A f \in here.claimed : <<f, m[f]>> \in M
      BY <2>1, <2>2 DEF Assigned, Matching
    <2> HIDE DEF L, M, here, E
    <2>4. Assigned(here, R, M, m)
      BY <2>2, <2>3 DEF Assigned
    <2>5. QED
      BY <2>1, <2>2, <2>4 DEF Paired
  <1>5. anywhere \in Paired(E, R, M) /\ Later(anywhere, here)
    <2>1. \A f \in E : f \notin here.claimed =>
            \A x \in FitsMoved(E, R)[f] \intersect here.free : <<f, x>> \in M
      BY DEF FitsMoved
    <2>2. anywhere = Round(here, o, c, FitsMoved(E, R))
      BY DEF AfterMoved
    <2> HIDE DEF anywhere, here, M, E
    <2>3. QED
      BY <1>0, <1>4, <2>1, <2>2, RoundPairs DEF E
  <1>6. here \in Matching(E, R) /\ anywhere \in Matching(E, R)
    BY <1>3, <1>5 DEF Paired
  <1>7. \A f \in E \ here.claimed, x \in here.free : ~ SameLegacy(f, x)
    <2>1. exact \in Matching(E, R)
      BY <1>2 DEF Paired
    <2>2. here = Round(exact, o, c, FitsHere(E, R))
      BY DEF AfterHere
    <2>3. \A f \in E : Settled(here, f, FitsHere(E, R))
      <3> HIDE DEF exact, here
      <3>1. QED
        BY <1>0, <2>1, <2>2, RoundSettles
    <2>4. QED
      BY <2>3, <1>6 DEF Settled, FitsHere, Matching
  <1>8. \A f \in E \ anywhere.claimed, x \in anywhere.free : ~ MovedTo(f, x)
    <2>2. anywhere = Round(here, o, c, FitsMoved(E, R))
      BY DEF AfterMoved
    <2>3. \A f \in E : Settled(anywhere, f, FitsMoved(E, R))
      <3> HIDE DEF anywhere, here
      <3>1. QED
        BY <1>0, <1>6, <2>2, RoundSettles
    <2>4. QED
      BY <2>3, <1>6 DEF Settled, FitsMoved, Matching
  <1>9. PICK m \in [anywhere.claimed -> R] : Assigned(anywhere, R, M, m)
    BY <1>5 DEF Paired
  <1>10. /\ \A f \in here.claimed : SameLegacy(f, m[f])
         /\ \A f \in anywhere.claimed \ here.claimed : MovedTo(f, m[f]) /\ m[f] \in here.free
    <2>1. \A f \in anywhere.claimed : <<f, m[f]>> \in M
      BY <1>9 DEF Assigned
    <2>2. here.claimed \subseteq anywhere.claimed
      BY <1>5 DEF Later
    <2> HIDE DEF here, anywhere, E
    <2>3. QED
      BY <2>1, <2>2
  <1>11. /\ \A f, g \in anywhere.claimed : m[f] = m[g] => f = g
         /\ \A x \in R \ anywhere.free : \E f \in anywhere.claimed : m[f] = x
    BY <1>9 DEF Assigned
  <1>12. \A x \in R \ here.free : \E f \in here.claimed : m[f] = x
    <2> HIDE DEF here, anywhere, E, M
    <2>1. QED
      BY <1>5, <1>10, <1>11 DEF Later
  <1> HIDE DEF here, anywhere, E, M
  <1>13. Outcome(E, R, here, anywhere, m)
    BY <1>5, <1>6, <1>7, <1>8, <1>9, <1>10, <1>11, <1>12 DEF Outcome
  <1>14. QED
    BY <1>13 DEF E, here, anywhere

-----------------------------------------------------------------------------
(* Counting what is called gone. *)

\* A report is finite.
LEMMA ReportFinite ==
  ASSUME NEW F, IsReport(F)
  PROVE  IsFiniteSet(F) /\ Cardinality(F) \in Nat
  <1> DEFINE i == [f \in F |-> f.flaw]
  <1>1. i \in Injection(F, Flaws)
    BY DEF IsReport, OnePerFlaw, Injection, IsInjective
  <1>2. IsFiniteSet(Flaws)
    BY FlawAssumption, FS_Interval DEF Flaws
  <1>3. QED
    BY <1>1, <1>2, FS_Injection, FS_CardinalityType, Zenon

LEMMA LegacyIs ==
  ASSUME NEW f, NEW g
  PROVE  SameLegacy(f, g) <=> SameKind(f, g) /\ f.file = g.file
  BY DEF SameLegacy, legacy_fingerprint, SameKind

\* Where the finding about g of the re-scan is to be found: nowhere, as its file cannot be
\* read; in the same file; or on the same line of another file, with none alike in these two
\* files and none on that line in a file that cannot be read.
Lost(g, broken) == g.file \in broken
Stayed(g, y, R) == y \in R /\ SameLegacy(g, y)
WentAway(g, y, R, A, broken) ==
  /\ y \in R /\ MovedTo(g, y)
  /\ \A h \in A \ {g} :
       h.file \notin {g.file, y.file} /\ (h.line = g.line => ~ Lost(h, broken))

Unclaimed(A, claimed, broken) == {g \in A : g \notin claimed /\ ~ Lost(g, broken)}

\* Of the findings A of one kind, P are about flaws that are still there, x[g] being the
\* finding of the re-scan about the flaw of g.  Then at most as many are neither lost nor
\* have claimed as are about flaws that were removed: each finding of P has one that is
\* lost or has claimed, itself or the one that claimed its x, and no two the same.
LEMMA Balance ==
  ASSUME NEW E, IsReport(E), NEW R, NEW here, NEW anywhere, NEW m,
         Outcome(E, R, here, anywhere, m),
         NEW A \in SUBSET E,
         \A g, h \in A : SameKind(g, h),
         \A g \in A, h \in E : SameKind(h, g) => h \in A,
         NEW P \in SUBSET A, NEW broken, NEW x,
         \A g \in P : \/ Lost(g, broken)
                      \/ Stayed(g, x[g], R)
                      \/ WentAway(g, x[g], R, A, broken),
         \A g, h \in P : ~ Lost(g, broken) /\ ~ Lost(h, broken) /\ x[g] = x[h] => g = h
  PROVE  Cardinality(Unclaimed(A, anywhere.claimed, broken)) <= Cardinality(A \ P)
  <1> DEFINE Gone == {g \in A : g \notin anywhere.claimed /\ ~ Lost(g, broken)}
             Stay == {g \in P : ~ Lost(g, broken) /\ Stayed(g, x[g], R)}
             Away == {g \in P : ~ Lost(g, broken) /\ ~ Stayed(g, x[g], R)}
             Claimant(y) == CHOOSE f \in anywhere.claimed : m[f] = y
             Full(F) == \A h \in A : h.file = F => h \in here.claimed
             AllFound(l) == \A h \in Away : h.line = l => h \in anywhere.claimed
             w == [g \in P |->
                     IF Lost(g, broken) THEN g
                     ELSE IF Stayed(g, x[g], R) THEN IF Full(g.file) THEN g ELSE Claimant(x[g])
                     ELSE IF AllFound(g.line) THEN g ELSE Claimant(x[g])]
  <1>0. here.claimed \subseteq anywhere.claimed /\ anywhere.free \subseteq here.free
    BY DEF Outcome, Later
  <1>a. anywhere.claimed \subseteq E
    BY DEF Outcome, Matching
  <1>b. \A f, g \in anywhere.claimed : m[f] = m[g] => f = g
    BY DEF Outcome
  <1>c. \A g \in Away : WentAway(g, x[g], R, A, broken)
    OBVIOUS
  \* The one that claimed a finding that is not free after two rounds is in its file.
  <1>1. ASSUME NEW g \in Stay, ~ Full(g.file)
        PROVE  /\ Claimant(x[g]) \in here.claimed /\ Claimant(x[g]) \in A
               /\ Claimant(x[g]).file = g.file /\ m[Claimant(x[g])] = x[g]
    <2>1. PICK h \in A : h.file = g.file /\ h \notin here.claimed
      BY <1>1
    <2>2. x[g] \in R /\ SameLegacy(g, x[g]) /\ g \in A
      BY DEF Stayed
    <2>3. SameLegacy(h, x[g])
      BY <2>1, <2>2, LegacyIs DEF SameKind
    <2>4. x[g] \notin here.free
      BY <2>1, <2>3 DEF Outcome
    <2>5. PICK f \in here.claimed : m[f] = x[g]
      BY <2>2, <2>4 DEF Outcome
    <2>6. f \in anywhere.claimed
      BY <1>0, <2>5
    <2>7. Claimant(x[g]) = f
      BY <1>b, <2>5, <2>6
    <2>8. SameLegacy(f, x[g])
      BY <2>5 DEF Outcome
    <2>9. SameKind(f, g) /\ f.file = g.file
      BY <2>2, <2>8, LegacyIs DEF SameKind
    <2>10. f \in A
      BY <1>a, <2>2, <2>6, <2>9
    <2>11. QED
      BY <2>5, <2>7, <2>9, <2>10
  \* The one that claimed a finding that has moved is on its line and claimed it in the third round.
  <1>2. ASSUME NEW g \in Away, ~ AllFound(g.line)
        PROVE  /\ Claimant(x[g]) \in anywhere.claimed \ here.claimed /\ Claimant(x[g]) \in A
               /\ Claimant(x[g]).line = g.line /\ m[Claimant(x[g])] = x[g]
    <2>1. PICK h \in Away : h.line = g.line /\ h \notin anywhere.claimed
      BY <1>2
    <2>2. x[g] \in R /\ MovedTo(g, x[g]) /\ g \in A /\ h \in A
      BY <1>c DEF WentAway
    <2>3. MovedTo(h, x[g])
      <3>1. CASE h = g
        BY <2>2, <3>1
      <3>2. CASE h # g
        <4>1. h.file # x[g].file
          BY <1>c, <2>2, <3>2 DEF WentAway
        <4>2. SameKind(h, g)
          BY <2>2
        <4>3. QED
          BY <2>1, <2>2, <4>1, <4>2 DEF MovedTo, SameKind
      <3>3. QED
        BY <3>1, <3>2
    <2>4. x[g] \notin anywhere.free
      BY <2>1, <2>2, <2>3 DEF Outcome
    <2>5. PICK f \in anywhere.claimed : m[f] = x[g]
      BY <2>2, <2>4 DEF Outcome
    <2>6. Claimant(x[g]) = f
      BY <1>b, <2>5
    <2>7. f \notin here.claimed
      <3> SUFFICES ASSUME f \in here.claimed PROVE FALSE
        OBVIOUS
      <3>1. SameLegacy(f, x[g])
        BY <2>5 DEF Outcome
      <3>2. SameKind(f, g) /\ f.file = x[g].file
        BY <2>2, <3>1, LegacyIs DEF SameKind, MovedTo
      <3>3. f \in A
        BY <1>a, <2>2, <2>5, <3>2
      <3>4. f # g
        BY <2>2, <3>2 DEF MovedTo
      <3>5. QED
        BY <1>c, <3>2, <3>3, <3>4 DEF WentAway
    <2>8. MovedTo(f, x[g])
      BY <2>5, <2>7 DEF Outcome
    <2>9. SameKind(f, g) /\ f.line = g.line
      BY <2>2, <2>8 DEF SameKind, MovedTo
    <2>10. f \in A
      BY <1>a, <2>2, <2>5, <2>9
    <2>11. QED
      BY <2>5, <2>6, <2>7, <2>9, <2>10
  <1> HIDE DEF Claimant
  \* What w is: a lost finding, one that claimed in the own file, or one on the own line.
  <1>3. \A g \in P : Lost(g, broken) => w[g] = g
    OBVIOUS
  <1>4. \A g \in Stay : /\ w[g] \in A /\ w[g] \in here.claimed /\ w[g].file = g.file
                        /\ IF Full(g.file) THEN w[g] = g ELSE m[w[g]] = x[g]
    BY <1>1
  <1>5. \A g \in Away : /\ w[g] \in A /\ w[g] \in anywhere.claimed /\ w[g].line = g.line
                        /\ IF AllFound(g.line) THEN w[g] = g
                           ELSE w[g] \notin here.claimed /\ m[w[g]] = x[g]
    BY <1>2
  <1>6. \A g \in P : g \in Stay \/ g \in Away \/ Lost(g, broken)
    OBVIOUS
  <1>d. DOMAIN w = P /\ Stay \subseteq P /\ Away \subseteq P
        /\ \A g \in Stay \union Away : ~ Lost(g, broken)
    OBVIOUS
  <1>e. w = [g \in P |-> w[g]]
    OBVIOUS
  <1> HIDE DEF w, Full, AllFound
  <1>7. w \in [P -> A \ Gone]
    <2>1. ASSUME NEW g \in P PROVE w[g] \in A \ Gone
      <3>1. CASE Lost(g, broken)
        BY <1>3, <3>1
      <3>2. CASE g \in Stay
        BY <1>0, <1>4, <3>2
      <3>3. CASE g \in Away
        BY <1>5, <3>3
      <3>4. QED
        BY <1>6, <3>1, <3>2, <3>3
    <2> HIDE DEF Gone, Stay, Away
    <2>2. QED
      BY <1>e, <2>1
  <1>f. \A g, h \in P : ~ Lost(g, broken) /\ ~ Lost(h, broken) /\ x[g] = x[h] => g = h
    OBVIOUS
  <1>8. ASSUME NEW g \in P, NEW h \in P, w[g] = w[h], Lost(g, broken)
        PROVE  g = h
    <2>1. CASE Lost(h, broken)
      BY <1>3, <1>8, <2>1
    <2>2. CASE h \in Stay
      BY <1>3, <1>4, <1>8, <2>2 DEF Lost
    <2>3. CASE h \in Away
      <3>1. w[h] = g /\ g.line = h.line
        BY <1>3, <1>5, <1>8, <2>3
      <3>2. g \in A \ {h} \/ g = h
        OBVIOUS
      <3>3. QED
        BY <1>c, <1>8, <2>3, <3>1, <3>2 DEF WentAway
    <2>4. QED
      BY <1>6, <2>1, <2>2, <2>3
  <1>9. ASSUME NEW g \in Stay, NEW h \in Stay, w[g] = w[h]
        PROVE  g = h
    <2>1. g.file = h.file
      BY <1>4, <1>9
    <2>2. CASE Full(g.file)
      BY <1>4, <1>9, <2>1, <2>2
    <2>3. CASE ~ Full(g.file)
      <3>1. x[g] = x[h]
        BY <1>4, <1>9, <2>1, <2>3
      <3>2. QED
        BY <1>d, <1>f, <3>1
    <2>4. QED
      BY <2>2, <2>3
  <1>10. ASSUME NEW g \in Stay, NEW h \in Away
         PROVE  w[g] # w[h]
    <2> SUFFICES ASSUME w[g] = w[h] PROVE FALSE
      OBVIOUS
    <2>1. w[h] = h /\ h.file = g.file
      BY <1>4, <1>5
    <2>2. h # g /\ g \in A
      OBVIOUS
    <2>3. QED
      BY <1>c, <2>1, <2>2 DEF WentAway
  <1>11. ASSUME NEW g \in Away, NEW h \in Away, w[g] = w[h]
         PROVE  g = h
    <2>1. g.line = h.line
      BY <1>5, <1>11
    <2>2. CASE AllFound(g.line)
      BY <1>5, <1>11, <2>1, <2>2
    <2>3. CASE ~ AllFound(g.line)
      <3>1. x[g] = x[h]
        BY <1>5, <1>11, <2>1, <2>3
      <3>2. QED
        BY <1>d, <1>f, <3>1
    <2>4. QED
      BY <2>2, <2>3
  <1> HIDE DEF Gone, Stay, Away
  <1>12. \A g, h \in P : w[g] = w[h] => g = h
    BY <1>6, <1>8, <1>9, <1>10, <1>11
  <1>13. w \in Injection(P, A \ Gone)
    BY <1>7, <1>12 DEF Injection, IsInjective
  <1>14. IsFiniteSet(A) /\ Gone \subseteq A
    <2>1. IsFiniteSet(E)
      BY ReportFinite
    <2>2. QED
      BY <2>1, FS_Subset DEF Gone
  <1>15. Cardinality(P) <= Cardinality(A \ Gone)
    <2>1. IsFiniteSet(A \ Gone)
      BY <1>14, FS_Subset
    <2>2. QED
      BY <1>13, <2>1, FS_Injection
  <1>16. /\ Cardinality(A \ Gone) = Cardinality(A) - Cardinality(Gone)
         /\ Cardinality(A \ P) = Cardinality(A) - Cardinality(P)
         /\ Cardinality(A) \in Nat /\ Cardinality(P) \in Nat /\ Cardinality(Gone) \in Nat
    <2>1. A \intersect Gone = Gone /\ A \intersect P = P
      BY <1>14
    <2>2. IsFiniteSet(P) /\ IsFiniteSet(Gone)
      BY <1>14, FS_Subset
    <2>3. QED
      BY <1>14, <2>1, <2>2, FS_Difference, FS_CardinalityType
  <1>17. Cardinality(Gone) <= Cardinality(A \ P)
    BY <1>15, <1>16
  <1>18. QED
    BY <1>17, Zenon DEF Gone, Unclaimed

-----------------------------------------------------------------------------
(* What every state of the session satisfies. *)

Lines == {LineOf[x] : x \in Flaws} \union {Rewritten(x) : x \in Flaws}
Finding == [flaw : Flaws, file : Files, line : Lines, sev : Severities]
Findings == {F \in SUBSET Finding : OnePerFlaw(F)}
Reports == [findings : Findings, failed : SUBSET (Scanners \union {Unmapped}), missing : SUBSET {Semgrep}]
Entries == [id : Nat, findings : Findings, local : BOOLEAN]
CallStates == [pc : {"idle", "scanning", "scanned", "answered"}, tool : {"scan", "verify"},
               old : Findings, new : Reports, read : [Flaws -> Places \union {Fixed}],
               broken : SUBSET Files, unparsed : SUBSET Files]
JobStates == [status : {"none", "running", "done", "error"},
              task : {"none", "running", "ended", "cancelled"}, scan : Nat]

TypeInv ==
  /\ keyed \in BOOLEAN /\ code \in [Flaws -> Places \union {Fixed}] /\ unparsed \subseteq Files
  /\ edits \in Nat /\ issued \in Nat
  /\ cache \in Seq(Entries) /\ call \in CallStates
  /\ jobs \subseteq JobIds /\ job \in [JobIds -> JobStates]

\* Jobs get their ids in order; what was counted is within the bounds.
StartedIds == {j \in JobIds : job[j].task # "none"}
DoneIds == {j \in JobIds : job[j].status = "done"}
Counted ==
  /\ \E n \in 0 .. MaxEvents : StartedIds = 1 .. n
  /\ edits + Started <= MaxEvents
  /\ Calls <= MaxCalls
  /\ call.pc \in {"scanning", "scanned"} => Calls < MaxCalls

\* The cache holds the newest scans; a job has the status of its task and its own scan.
CacheInv ==
  /\ Len(cache) = IF issued <= SCAN_CACHE_MAX THEN issued ELSE SCAN_CACHE_MAX
  /\ \A i \in 1 .. Len(cache) : cache[i].id = issued - Len(cache) + i
JobsInv ==
  \A j \in JobIds :
    /\ job[j].status = "running" <=> job[j].task \in {"running", "cancelled"}
    /\ job[j].scan > 0 <=> job[j].status = "done"
    /\ job[j].task = "none" => job[j].status = "none"
    /\ job[j].task = "running" => j \in jobs
    /\ job[j].scan \in 0 .. issued
    /\ job[j].status = "done" =>
         \A i \in 1 .. Len(cache) : cache[i].id = job[j].scan => ~ cache[i].local


\* A report has the findings about what was there when it was read, and a re-scan has one
\* about every flaw that had to be found: no LLM could drop it, its scanner worked, its file
\* parsed and grouping leaves alone what is there.
Spared(read, x) == Ungrouped(Sights(read), Sight(read, x))
MustBeFound(x, read, broken, report) ==
  /\ read[x] # Fixed /\ read[x].file \notin broken
  /\ ScannerOf[x] \notin LLMScanners /\ (ScannerOf[x] \in SastOnly \/ ~ keyed)
  /\ Unmapped \notin report.failed /\ ScannerOf[x] \notin report.failed \union report.missing
  /\ Spared(read, x)
Faithful(read, report) ==
  \A g \in report.findings : read[g.flaw] = [file |-> g.file, line |-> g.line]
Complete(read, broken, report) ==
  \A x \in Flaws : MustBeFound(x, read, broken, report) => \E g \in report.findings : g.flaw = x
ReadInv ==
  call.pc \in {"scanned", "answered"} =>
    /\ Faithful(call.read, call.new)
    /\ call.tool = "verify" => Complete(call.read, call.broken, call.new)

SessionInv == TypeInv /\ Counted /\ CacheInv /\ JobsInv /\ ReadInv

-----------------------------------------------------------------------------
(* No more findings are called resolved than were removed. *)

LEMMA OldAndNewAreReports ==
  ASSUME TypeInv
  PROVE  /\ IsReport(call.old) /\ IsReport(call.new.findings)
         /\ call.old \subseteq Finding /\ call.new.findings \subseteq Finding
         /\ IsFiniteSet(call.old) /\ IsFiniteSet(call.new.findings)
  <1>1. call.old \in Findings /\ call.new.findings \in Findings
    BY DEF TypeInv, CallStates, Reports
  <1>2. IsReport(call.old) /\ IsReport(call.new.findings)
    BY <1>1 DEF Findings, Finding, IsReport
  <1>3. QED
    BY <1>1, <1>2, ReportFinite DEF Findings

\* What Balance asks of a kind that can be tracked: about each flaw that is still there and
\* whose old file parses the re-scan has a finding, in that file or moved along with its line.
LEMMA TrackedIsFound ==
  ASSUME TypeInv, ReadInv, Verified,
         NEW f \in call.old, Trackable(f), IsVerifiable(f), ~ FailureBlocks(f, call.new),
         NEW g \in Alike(f), ~ GoneForReal(g), g.file \notin call.unparsed
  PROVE  \E y \in call.new.findings :
           /\ y.flaw = g.flaw
           /\ SameLegacy(g, y) \/ WentAway(g, y, call.new.findings, Alike(f), call.unparsed)
  <1> DEFINE x == g.flaw
  <1>1. g \in call.old /\ g \in Finding /\ f \in Finding /\ x \in Flaws /\ SameKind(f, g)
    BY OldAndNewAreReports DEF Alike, Finding
  <1>2. call.read[x] # Fixed /\ call.read \in [Flaws -> Places \union {Fixed}]
    BY DEF GoneForReal, TypeInv, CallStates
  <1>3. call.read[x] \in Places /\ call.read[x].file \in Files
    BY <1>1, <1>2 DEF Places
  <1>4. ScannerOf[x] = Scanner(f)
    BY <1>1 DEF SameKind, Scanner
  <1>5. call.read[x].file \notin call.broken
    <2>1. call.broken \subseteq call.unparsed
      BY DEF Trackable
    <2>2. QED
      BY <1>2, <2>1 DEF Trackable, GoneForReal
  <1>6. MustBeFound(x, call.read, call.broken, call.new)
    <2>1. Unmapped \notin call.new.failed /\ ScannerOf[x] \notin call.new.failed \union call.new.missing
      BY <1>4 DEF FailureBlocks
    <2>2. ScannerOf[x] \notin LLMScanners /\ (ScannerOf[x] \in SastOnly \/ ~ keyed)
      BY <1>4 DEF IsVerifiable, Trackable
    <2>3. Spared(call.read, x)
      BY <1>2 DEF Trackable, Spared
    <2>4. QED
      BY <1>2, <1>5, <2>1, <2>2, <2>3 DEF MustBeFound
  <1>7. PICK y \in call.new.findings : y.flaw = x
    BY <1>1, <1>6 DEF ReadInv, Verified, Complete
  <1>8. call.read[x] = [file |-> y.file, line |-> y.line]
    BY <1>7 DEF ReadInv, Verified, Faithful
  <1>9. SameKind(g, y)
    BY <1>7 DEF SameKind, Scanner, Category, Title
  <1>10. CASE call.read[x].file = g.file
    BY <1>7, <1>8, <1>9, <1>10, LegacyIs
  <1>11. CASE call.read[x].file # g.file
    <2>1. /\ call.read[x].line = g.line /\ g.line # NoLine
          /\ \A h \in Alike(f) \ {g} : /\ h.file \notin {g.file, call.read[x].file}
                                       /\ h.line = g.line => h.file \notin call.unparsed
      BY <1>2, <1>11 DEF Trackable
    <2>2. MovedTo(g, y)
      BY <1>8, <1>9, <1>11, <2>1 DEF MovedTo
    <2>3. QED
      BY <1>7, <1>8, <2>1, <2>2 DEF WentAway, Lost
  <1>12. QED
    BY <1>10, <1>11

LEMMA Modesty ==
  ASSUME TypeInv, ReadInv, Verified,
         NEW f \in call.old, Trackable(f), IsVerifiable(f), ~ FailureBlocks(f, call.new),
         NEW o, NEW c, o \union c \subseteq call.old
  PROVE  Cardinality({g \in Alike(f) \intersect (o \union c) :
                        /\ g \notin AfterMoved(o, call.new.findings, c).claimed
                        /\ g.file \notin call.unparsed})
           <= Cardinality({g \in Alike(f) : GoneForReal(g)})
  <1> DEFINE E == o \union c
             R == call.new.findings
             A == Alike(f) \intersect E
             P == {g \in A : ~ GoneForReal(g)}
             x == [g \in P |-> CHOOSE y \in R : y.flaw = g.flaw]
             here == AfterHere(o, R, c)
             anywhere == AfterMoved(o, R, c)
  <1>1. IsReport(E) /\ IsReport(R) /\ IsReport(call.old) /\ IsFiniteSet(call.old)
    BY OldAndNewAreReports DEF IsReport, OnePerFlaw
  <1>2. PICK m : Outcome(E, R, here, anywhere, m)
    BY <1>1, ClassifyOutcome
  <1>3. A \in SUBSET E /\ P \in SUBSET A
    OBVIOUS
  <1>4. /\ \A g, h \in A : SameKind(g, h)
        /\ \A g \in A, h \in E : SameKind(h, g) => h \in A
    BY DEF Alike, SameKind
  <1>5. ASSUME NEW g \in P, ~ Lost(g, call.unparsed)
        PROVE  /\ x[g].flaw = g.flaw
               /\ Stayed(g, x[g], R) \/ WentAway(g, x[g], R, A, call.unparsed)
    <2>1. PICK y \in R : /\ y.flaw = g.flaw
                         /\ SameLegacy(g, y) \/ WentAway(g, y, R, Alike(f), call.unparsed)
      BY <1>5, TrackedIsFound DEF Lost
    <2>2. x[g] = y
      BY <1>1, <2>1 DEF IsReport, OnePerFlaw
    <2>3. WentAway(g, y, R, Alike(f), call.unparsed) => WentAway(g, y, R, A, call.unparsed)
      BY DEF WentAway
    <2>4. QED
      BY <2>1, <2>2, <2>3 DEF Stayed
  <1>6. \A g, h \in P : ~ Lost(g, call.unparsed) /\ ~ Lost(h, call.unparsed) /\ x[g] = x[h] => g = h
    <2> SUFFICES ASSUME NEW g \in P, NEW h \in P, ~ Lost(g, call.unparsed),
                        ~ Lost(h, call.unparsed), x[g] = x[h]
                 PROVE  g = h
      OBVIOUS
    <2>1. g.flaw = h.flaw
      <3>1. x[g].flaw = g.flaw /\ x[h].flaw = h.flaw
        BY <1>5
      <3> HIDE DEF x
      <3>2. QED
        BY <3>1
    <2>2. g \in call.old /\ h \in call.old
      BY DEF Alike
    <2>3. QED
      BY <1>1, <2>1, <2>2 DEF IsReport, OnePerFlaw
  <1>7. \A g \in P : \/ Lost(g, call.unparsed)
                     \/ Stayed(g, x[g], R)
                     \/ WentAway(g, x[g], R, A, call.unparsed)
    BY <1>5
  <1> DEFINE broken == call.unparsed
             Gone == Unclaimed(A, anywhere.claimed, broken)
             Removed == {g \in Alike(f) : GoneForReal(g)}
  <1>8. Cardinality(Gone) <= Cardinality(A \ P)
    <2>1. /\ \A g \in P : \/ Lost(g, broken)
                         \/ Stayed(g, x[g], R)
                         \/ WentAway(g, x[g], R, A, broken)
          /\ \A g, h \in P : ~ Lost(g, broken) /\ ~ Lost(h, broken) /\ x[g] = x[h] => g = h
      BY <1>6, <1>7
    <2> HIDE DEF E, R, A, P, x, here, anywhere, broken
    <2>2. QED
      BY <1>1, <1>2, <1>3, <1>4, <2>1, Balance
  <1>9. Cardinality(A \ P) <= Cardinality(Removed)
    <2>1. A \ P \subseteq Removed
      OBVIOUS
    <2>2. IsFiniteSet(Removed)
      BY <1>1, FS_Subset DEF Alike
    <2>3. QED
      BY <2>1, <2>2, FS_Subset
  <1>10. Gone = {g \in Alike(f) \intersect E : /\ g \notin anywhere.claimed
                                              /\ g.file \notin call.unparsed}
    BY DEF Lost, Unclaimed
  <1>11. /\ Cardinality(Gone) \in Nat /\ Cardinality(A \ P) \in Nat
         /\ Cardinality(Removed) \in Nat
    BY <1>1, FS_Subset, FS_CardinalityType DEF Alike, Unclaimed
  <1>12. Cardinality(Gone) <= Cardinality(Removed)
    <2> HIDE DEF Gone, Removed, A, P
    <2>1. QED
      BY <1>8, <1>9, <1>11
  <1>13. QED
    BY <1>10, <1>12, Zenon

\* What a verdict calls resolved has not claimed, and is neither lost nor blocked.
LEMMA ResolvedUnclaimed ==
  ASSUME NEW old, NEW new, NEW lostIn,
         NEW r \in VerifyResult(old, new, lostIn).resolved
  PROVE  /\ r \in Verifiable(old) /\ ~ FailureBlocks(r, new) /\ r.file \notin lostIn
         /\ r \notin AfterMoved({g \in Verifiable(old) : ~ FailureBlocks(g, new)},
                                new.findings, Verifiable(old)).claimed
  <1> DEFINE checkable == {g \in Verifiable(old) : ~ FailureBlocks(g, new)}
             c == Classify(checkable, new.findings, Verifiable(old))
  <1>1. VerifyResult(old, new, lostIn).resolved = c.gone \ {g \in c.gone : g.file \in lostIn}
    BY DEF VerifyResult
  <1>2. c.gone = checkable \ AfterMoved(checkable, new.findings, Verifiable(old)).claimed
    BY ClassifyIs
  <1>3. QED
    BY <1>1, <1>2

LEMMA VerdictsAreModest ==
  ASSUME TypeInv, ReadInv
  PROVE  ResolvedIsGone
  <1> SUFFICES ASSUME Verified, NEW f \in call.old, Trackable(f)
               PROVE  LET most == Cardinality({g \in Alike(f) : GoneForReal(g)}) IN
                        /\ Cardinality(Verdict.resolved \intersect Alike(f)) <= most
                        /\ \A asked \in SUBSET call.old :
                             /\ Cardinality(FixFlowResolved(asked, call.old, call.new, call.unparsed)
                                              \intersect Alike(f)) <= most
                             /\ Cardinality(ReverifyFixed(asked, call.new, call.unparsed)
                                              \intersect Alike(f)) <= most
    BY DEF ResolvedIsGone
  <1> DEFINE most == Cardinality({g \in Alike(f) : GoneForReal(g)})
             R == call.new.findings
             Silent(o, c) == {g \in Alike(f) \intersect (o \union c) :
                                /\ g \notin AfterMoved(o, R, c).claimed
                                /\ g.file \notin call.unparsed}
             Sound(F, o, c) ==
               F \subseteq {g \in call.old : IsVerifiable(g) /\ ~ FailureBlocks(g, call.new)}
               /\ F \intersect Alike(f) \subseteq Silent(o, c)
  <1>1. IsFiniteSet(call.old) /\ most \in Nat
    <2>1. IsFiniteSet(call.old)
      BY OldAndNewAreReports
    <2>2. IsFiniteSet({g \in Alike(f) : GoneForReal(g)})
      BY <2>1, FS_Subset DEF Alike
    <2>3. QED
      BY <2>1, <2>2, FS_CardinalityType
  <1>2. ASSUME NEW F, NEW o, NEW c, o \union c \subseteq call.old, Sound(F, o, c)
        PROVE  Cardinality(F \intersect Alike(f)) <= most
    <2>1. CASE IsVerifiable(f) /\ ~ FailureBlocks(f, call.new)
      <3>1. Cardinality(Silent(o, c)) <= most
        BY <1>2, <2>1, Modesty
      <3>2. IsFiniteSet(Silent(o, c))
        BY <1>1, FS_Subset DEF Alike
      <3>3. /\ Cardinality(F \intersect Alike(f)) \in Nat /\ Cardinality(Silent(o, c)) \in Nat
            /\ Cardinality(F \intersect Alike(f)) <= Cardinality(Silent(o, c))
        <4> HIDE DEF Silent
        <4>1. F \intersect Alike(f) \subseteq Silent(o, c)
          BY <1>2
        <4>2. QED
          BY <3>2, <4>1, FS_Subset, FS_CardinalityType
      <3> HIDE DEF Silent, most
      <3>4. QED
        BY <1>1, <3>1, <3>3
    <2>2. CASE ~ (IsVerifiable(f) /\ ~ FailureBlocks(f, call.new))
      <3>1. \A g \in Alike(f) : Scanner(g) = Scanner(f)
        BY DEF Alike, SameKind
      <3>2. F \intersect Alike(f) = {}
        BY <1>2, <2>2, <3>1 DEF IsVerifiable, FailureBlocks
      <3>3. QED
        BY <1>1, <3>2, FS_EmptySet
    <2>3. QED
      BY <2>1, <2>2
  <1>3. Cardinality(Verdict.resolved \intersect Alike(f)) <= most
    <2> DEFINE o == {g \in Verifiable(call.old) : ~ FailureBlocks(g, call.new)}
               c == Verifiable(call.old)
    <2>1. o \union c \subseteq call.old
      BY DEF Verifiable
    <2>2. Sound(Verdict.resolved, o, c)
      BY ResolvedUnclaimed DEF Verdict, Verifiable
    <2> HIDE DEF o, c, Sound, most
    <2>3. QED
      BY <1>2, <2>1, <2>2
  <1>4. ASSUME NEW asked \in SUBSET call.old
        PROVE  /\ Cardinality(FixFlowResolved(asked, call.old, call.new, call.unparsed)
                                \intersect Alike(f)) <= most
               /\ Cardinality(ReverifyFixed(asked, call.new, call.unparsed)
                                \intersect Alike(f)) <= most
    <2> DEFINE o == Verifiable(asked)
    <2>1. o \union call.old \subseteq call.old /\ o \union {} \subseteq call.old
      BY DEF Verifiable
    <2>2. Sound(FixFlowResolved(asked, call.old, call.new, call.unparsed), o, call.old)
      BY ClassifyIs DEF FixFlowResolved, Verifiable
    <2>3. Sound(ReverifyFixed(asked, call.new, call.unparsed), o, {})
      BY ClassifyIs DEF ReverifyFixed, Verifiable
    <2> HIDE DEF o, Sound, most
    <2>4. QED
      BY <1>2, <2>1, <2>2, <2>3
  <1>5. QED
    BY <1>3, <1>4

-----------------------------------------------------------------------------
(* Every old finding is accounted for, and only what was resolved improves the grade. *)

\* The verdict in terms of the matching.
Checkable(old, new) == {f \in Verifiable(old) : ~ FailureBlocks(f, new)}
HereOf(old, new) == AfterHere(Checkable(old, new), new.findings, Verifiable(old)).claimed
AnywhereOf(old, new) == AfterMoved(Checkable(old, new), new.findings, Verifiable(old)).claimed
GoneOf(old, new) == Checkable(old, new) \ AnywhereOf(old, new)
LostOf(old, new, lostIn) == {f \in GoneOf(old, new) : f.file \in lostIn}
Again(new) == {f \in new.findings : IsVerifiable(f) /\ ~ FailureBlocks(f, new)}
Held(old, new, lostIn) == {f \in old : HeldConstant(f, LostOf(old, new, lostIn), new)}

LEMMA VerifyResultIs ==
  ASSUME NEW old, NEW new, NEW lostIn
  PROVE  VerifyResult(old, new, lostIn)
           = [resolved |-> GoneOf(old, new) \ LostOf(old, new, lostIn),
              still |-> Checkable(old, new) \intersect HereOf(old, new),
              unverifiable |->
                Cardinality(old \ Checkable(old, new))
                  + Cardinality(Checkable(old, new)
                                  \intersect (AnywhereOf(old, new) \ HereOf(old, new)))
                  + Cardinality(LostOf(old, new, lostIn)),
              effective |-> [s \in Severities |->
                Tally(Again(new))[s] + Tally(Held(old, new, lostIn))[s]]]
  <1> DEFINE c == Classify(Checkable(old, new), new.findings, Verifiable(old))
  <1>1. /\ c.still = Checkable(old, new) \intersect HereOf(old, new)
        /\ c.moved = Checkable(old, new) \intersect (AnywhereOf(old, new) \ HereOf(old, new))
        /\ c.gone = GoneOf(old, new)
    BY ClassifyIs DEF HereOf, AnywhereOf, GoneOf
  <1>2. {f \in c.gone : f.file \in lostIn} = LostOf(old, new, lostIn)
    BY <1>1 DEF LostOf
  <1>3. VerifyResult(old, new, lostIn)
          = [resolved |-> c.gone \ LostOf(old, new, lostIn),
             still |-> c.still,
             unverifiable |-> Cardinality(old \ Checkable(old, new)) + Cardinality(c.moved)
                                + Cardinality(LostOf(old, new, lostIn)),
             effective |-> [s \in Severities |->
               Tally(Again(new))[s] + Tally(Held(old, new, lostIn))[s]]]
    BY <1>2, Zenon DEF VerifyResult, Checkable, Again, Held
  <1> HIDE DEF c
  <1>4. QED
    BY <1>1, <1>3, Zenon

LEMMA MatchingOf ==
  ASSUME NEW old, NEW new, IsReport(old), IsReport(new.findings)
  PROVE  \E m : /\ HereOf(old, new) \subseteq AnywhereOf(old, new)
                /\ m \in [AnywhereOf(old, new) -> new.findings]
                /\ \A f, g \in AnywhereOf(old, new) : m[f] = m[g] => f = g
                /\ \A f \in AnywhereOf(old, new) : SameKind(f, m[f])
  <1> DEFINE o == Checkable(old, new)
             c == Verifiable(old)
             R == new.findings
  <1>1. IsReport(o \union c)
    BY DEF Checkable, Verifiable, IsReport, OnePerFlaw
  <1>2. PICK m : Outcome(o \union c, R, AfterHere(o, R, c), AfterMoved(o, R, c), m)
    BY <1>1, ClassifyOutcome
  <1> DEFINE here == AfterHere(o, R, c)
             anywhere == AfterMoved(o, R, c)
  <1>3. HereOf(old, new) = here.claimed /\ AnywhereOf(old, new) = anywhere.claimed
    BY DEF HereOf, AnywhereOf
  <1>4. here.claimed \subseteq anywhere.claimed
    BY <1>2 DEF Outcome, Later
  <1>5. /\ m \in [anywhere.claimed -> R]
        /\ \A f, g \in anywhere.claimed : m[f] = m[g] => f = g
    BY <1>2 DEF Outcome
  <1>6. \A f \in anywhere.claimed : SameLegacy(f, m[f]) \/ MovedTo(f, m[f])
    BY <1>2 DEF Outcome
  <1>7. \A f \in anywhere.claimed : SameKind(f, m[f])
    BY <1>6, LegacyIs DEF MovedTo
  <1>8. QED
    BY <1>3, <1>4, <1>5, <1>7

LEMMA SplitCardinality ==
  ASSUME NEW S, IsFiniteSet(S), NEW T
  PROVE  /\ IsFiniteSet(S \intersect T) /\ IsFiniteSet(S \ T)
         /\ Cardinality(S) \in Nat /\ Cardinality(S \intersect T) \in Nat
         /\ Cardinality(S \ T) \in Nat
         /\ Cardinality(S) = Cardinality(S \intersect T) + Cardinality(S \ T)
  <1>1. IsFiniteSet(S \intersect T) /\ IsFiniteSet(S \ T)
    BY FS_Subset
  <1>2. /\ Cardinality(S) \in Nat /\ Cardinality(S \intersect T) \in Nat
        /\ Cardinality(S \ T) \in Nat
    BY <1>1, FS_CardinalityType
  <1>3. Cardinality(S \ T) = Cardinality(S) - Cardinality(S \intersect T)
    <2>1. S \ T = S \ (S \intersect T) /\ S \intersect (S \intersect T) = S \intersect T
      OBVIOUS
    <2>2. Cardinality(S \ (S \intersect T))
            = Cardinality(S) - Cardinality(S \intersect (S \intersect T))
      BY <1>1, FS_Difference
    <2>3. QED
      BY <2>1, <2>2, Zenon
  <1>4. QED
    BY <1>1, <1>2, <1>3

LEMMA AllAccountedFor ==
  ASSUME NEW old, NEW new, NEW lostIn, IsReport(old), IsReport(new.findings)
  PROVE  LET v == VerifyResult(old, new, lostIn)
         IN Cardinality(v.resolved) + Cardinality(v.still) + v.unverifiable = Cardinality(old)
  <1> DEFINE C == Checkable(old, new)
             N == AnywhereOf(old, new)
             H == HereOf(old, new)
             G == GoneOf(old, new)
             L == LostOf(old, new, lostIn)
  <1>1. IsFiniteSet(old) /\ C \subseteq old /\ H \subseteq N /\ L \subseteq G
    BY ReportFinite, MatchingOf DEF Checkable, Verifiable, LostOf
  <1>2. G = C \ N
    BY DEF GoneOf
  <1> HIDE DEF C, N, H, G, L
  <1>3. Cardinality(old) = Cardinality(C) + Cardinality(old \ C) /\ IsFiniteSet(C)
    <2>1. old \intersect C = C
      BY <1>1
    <2>2. QED
      BY <1>1, <2>1, SplitCardinality
  <1>4. Cardinality(C) = Cardinality(C \intersect N) + Cardinality(G)
        /\ IsFiniteSet(C \intersect N) /\ IsFiniteSet(G)
    BY <1>2, <1>3, SplitCardinality
  <1>5. Cardinality(C \intersect N) = Cardinality(C \intersect H) + Cardinality(C \intersect (N \ H))
    <2>1. (C \intersect N) \intersect H = C \intersect H
          /\ (C \intersect N) \ H = C \intersect (N \ H)
      BY <1>1
    <2>2. Cardinality(C \intersect N)
            = Cardinality((C \intersect N) \intersect H) + Cardinality((C \intersect N) \ H)
      BY <1>4, SplitCardinality
    <2>3. QED
      BY <2>1, <2>2, Zenon
  <1>6. Cardinality(G) = Cardinality(L) + Cardinality(G \ L)
    <2>1. G \intersect L = L
      BY <1>1
    <2>2. QED
      BY <1>4, <2>1, SplitCardinality
  <1>7. /\ Cardinality(old \ C) \in Nat /\ Cardinality(C \intersect H) \in Nat
        /\ Cardinality(C \intersect (N \ H)) \in Nat /\ Cardinality(L) \in Nat
        /\ Cardinality(G \ L) \in Nat
    BY <1>1, <1>3, <1>4, FS_Subset, FS_CardinalityType
  <1> DEFINE v == VerifyResult(old, new, lostIn)
  <1>8. /\ v.resolved = G \ L /\ v.still = C \intersect H
        /\ v.unverifiable
             = Cardinality(old \ C) + Cardinality(C \intersect (N \ H)) + Cardinality(L)
    BY VerifyResultIs DEF C, N, H, G, L
  <1> HIDE DEF v
  <1>9. Cardinality(v.resolved) + Cardinality(v.still) + v.unverifiable = Cardinality(old)
    BY <1>3, <1>4, <1>5, <1>6, <1>7, <1>8
  <1>10. QED
    BY <1>9 DEF v

\* Grades: the more findings of each severity, the worse.
LEMMA GradeMonotone ==
  ASSUME NEW a \in [Severities -> Nat], NEW b \in [Severities -> Nat],
         \A s \in Severities : b[s] <= a[s]
  PROVE  Grade(b) <= Grade(a)
  <1>1. /\ a["critical"] \in Nat /\ a["high"] \in Nat /\ a["medium"] \in Nat /\ a["low"] \in Nat
        /\ b["critical"] \in Nat /\ b["high"] \in Nat /\ b["medium"] \in Nat /\ b["low"] \in Nat
        /\ b["critical"] <= a["critical"] /\ b["high"] <= a["high"]
        /\ b["medium"] <= a["medium"] /\ b["low"] <= a["low"]
    BY DEF Severities
  <1>2. QED
    BY <1>1 DEF Grade

\* An old finding that is not resolved is held constant or has a finding alike of the
\* re-scan of its own, so it still counts.
LEMMA UnresolvedCounts ==
  ASSUME NEW old, NEW new, NEW lostIn, IsReport(old), IsReport(new.findings),
         \A f \in old, g \in new.findings : SameKind(f, g) => g.sev = f.sev
  PROVE  LET v == VerifyResult(old, new, lostIn)
         IN /\ v.effective \in [Severities -> Nat]
            /\ \A s \in Severities :
                 Cardinality({f \in old \ v.resolved : f.sev = s}) <= v.effective[s]
  <1> DEFINE v == VerifyResult(old, new, lostIn)
             N == AnywhereOf(old, new)
             A(s) == {f \in Again(new) : f.sev = s}
             H(s) == {f \in Held(old, new, lostIn) : f.sev = s}
             K(s) == {f \in old \ v.resolved : f.sev = s}
  <1>1. v.resolved = GoneOf(old, new) \ LostOf(old, new, lostIn)
        /\ v.effective = [s \in Severities |-> Cardinality(A(s)) + Cardinality(H(s))]
    BY VerifyResultIs DEF Tally
  <1>2. IsFiniteSet(old) /\ IsFiniteSet(new.findings)
    BY ReportFinite
  <1>3. \A s : /\ IsFiniteSet(A(s)) /\ IsFiniteSet(H(s)) /\ IsFiniteSet(K(s))
               /\ Cardinality(A(s)) \in Nat /\ Cardinality(H(s)) \in Nat
    <2>1. \A s : A(s) \subseteq new.findings /\ H(s) \subseteq old /\ K(s) \subseteq old
      BY DEF Again, Held
    <2> HIDE DEF A, H, K
    <2>2. QED
      BY <1>2, <2>1, FS_Subset, FS_CardinalityType
  <1>4. ASSUME NEW f \in old \ v.resolved
        PROVE  f \in Held(old, new, lostIn) \/ f \in N
    <2>1. ~ IsVerifiable(f) \/ FailureBlocks(f, new) \/ f \in Checkable(old, new)
      BY DEF Checkable, Verifiable
    <2>2. QED
      BY <1>1, <2>1 DEF Held, HeldConstant, GoneOf
  <1>5. PICK m : /\ m \in [N -> new.findings]
                 /\ \A f, g \in N : m[f] = m[g] => f = g
                 /\ \A f \in N : SameKind(f, m[f])
    BY MatchingOf
  <1>6. ASSUME NEW s \in Severities
        PROVE  Cardinality(K(s)) <= Cardinality(A(s)) + Cardinality(H(s))
    <2> DEFINE D == K(s) \ H(s)
               i == [f \in D |-> m[f]]
    <2>1. \A f \in D : f \in N /\ f \in old /\ f.sev = s /\ f \notin Held(old, new, lostIn)
      BY <1>4
    <2>2. \A f \in D : m[f] \in A(s)
      <3> SUFFICES ASSUME NEW f \in D PROVE m[f] \in A(s)
        OBVIOUS
      <3>1. m[f] \in new.findings /\ SameKind(f, m[f]) /\ m[f].sev = s
        BY <1>5, <2>1
      <3>2. IsVerifiable(f) /\ ~ FailureBlocks(f, new)
        BY <2>1 DEF Held, HeldConstant
      <3>3. IsVerifiable(m[f]) /\ ~ FailureBlocks(m[f], new)
        BY <3>1, <3>2 DEF SameKind, IsVerifiable, FailureBlocks
      <3>4. QED
        BY <3>1, <3>3 DEF Again
    <2>3. \A f, g \in D : m[f] = m[g] => f = g
      BY <1>5, <2>1
    <2> HIDE DEF D, A
    <2>4. i \in Injection(D, A(s))
      <3>1. i \in [D -> A(s)]
        BY <2>2
      <3>2. IsInjective(i)
        BY <2>3 DEF IsInjective
      <3>3. QED
        BY <3>1, <3>2 DEF Injection
    <2> HIDE DEF i
    <2>5. Cardinality(D) <= Cardinality(A(s))
      BY <1>3, <2>4, FS_Injection
    <2>6. /\ Cardinality(K(s)) = Cardinality(K(s) \intersect H(s)) + Cardinality(D)
          /\ Cardinality(K(s) \intersect H(s)) \in Nat /\ Cardinality(D) \in Nat
      <3> HIDE DEF K, H
      <3>1. QED
        BY <1>3, SplitCardinality DEF D
    <2>7. Cardinality(K(s) \intersect H(s)) <= Cardinality(H(s))
      <3> HIDE DEF K, H
      <3>1. QED
        BY <1>3, FS_Subset
    <2> HIDE DEF K, H
    <2>8. QED
      BY <1>3, <2>5, <2>6, <2>7
  <1>7. v.effective \in [Severities -> Nat]
    <2>1. \A s \in Severities : Cardinality(A(s)) + Cardinality(H(s)) \in Nat
      <3>1. \A a, b \in Nat : a + b \in Nat
        OBVIOUS
      <3>2. QED
        BY <1>3, <3>1, Zenon
    <2> HIDE DEF A, H, v
    <2>2. QED
      BY <1>1, <2>1
  <1>8. \A s \in Severities : Cardinality(K(s)) <= v.effective[s]
    <2> HIDE DEF A, H, K, v
    <2>1. QED
      BY <1>1, <1>6
  <1>9. QED
    BY <1>7, <1>8

LEMMA GradeIsHonest ==
  ASSUME TypeInv
  PROVE  GradeOnlyByFixing
  <1> DEFINE v == VerifyResult(call.old, call.new, call.unparsed)
             Kept(s) == {f \in call.old \ v.resolved : f.sev = s}
  <1>1. /\ IsReport(call.old) /\ IsReport(call.new.findings)
        /\ IsFiniteSet(call.old)
    BY OldAndNewAreReports
  <1>2. Cardinality(v.resolved) + Cardinality(v.still) + v.unverifiable = Cardinality(call.old)
    BY <1>1, AllAccountedFor
  <1>3. ASSUME \A f \in call.old, g \in call.new.findings : SameKind(f, g) => g.sev = f.sev
        PROVE  /\ Grade(v.effective) < Grade(Tally(call.old)) => v.resolved # {}
               /\ SafeToLaunch(v.effective, call.new) =>
                    {f \in call.old : f.sev \in {"critical", "high"}} \subseteq v.resolved
    <2>1. /\ v.effective \in [Severities -> Nat]
          /\ \A s \in Severities : Cardinality(Kept(s)) <= v.effective[s]
      BY <1>1, <1>3, UnresolvedCounts
    <2>2. Tally(call.old) \in [Severities -> Nat]
      <3>1. \A s : Cardinality({f \in call.old : f.sev = s}) \in Nat
        BY <1>1, FS_Subset, FS_CardinalityType
      <3>2. QED
        BY <3>1 DEF Tally
    <2>3. \A s : IsFiniteSet(Kept(s)) /\ Cardinality(Kept(s)) \in Nat
      BY <1>1, FS_Subset, FS_CardinalityType
    <2>4. ASSUME v.resolved = {}
          PROVE  Grade(Tally(call.old)) <= Grade(v.effective)
      <3>1. \A s \in Severities : Tally(call.old)[s] = Cardinality(Kept(s))
        <4>1. \A s : Kept(s) = {f \in call.old : f.sev = s}
          BY <2>4
        <4>2. QED
          BY <4>1, Zenon DEF Tally
      <3>2. \A s \in Severities : Tally(call.old)[s] <= v.effective[s]
        <4> HIDE DEF v, Kept
        <4>1. QED
          BY <2>1, <3>1
      <3> HIDE DEF v
      <3>3. QED
        BY <2>1, <2>2, <3>2, GradeMonotone
    <2>5. /\ Grade(v.effective) \in Int /\ Grade(Tally(call.old)) \in Int
      BY DEF Grade
    <2>6. ASSUME SafeToLaunch(v.effective, call.new), NEW f \in call.old,
                 f.sev \in {"critical", "high"}, f \notin v.resolved
          PROVE  FALSE
      <3>1. f.sev \in Severities /\ v.effective[f.sev] = 0
        BY <2>6 DEF SafeToLaunch, Severities
      <3>2. Cardinality(Kept(f.sev)) = 0
        <4> HIDE DEF v, Kept
        <4>1. QED
          BY <2>1, <2>3, <3>1
      <3>3. Kept(f.sev) = {}
        <4> HIDE DEF Kept
        <4>1. QED
          BY <2>3, <3>2, FS_EmptySet
      <3>4. f \in Kept(f.sev)
        BY <2>6
      <3>5. QED
        BY <3>3, <3>4
    <2> HIDE DEF v
    <2>7. Grade(v.effective) < Grade(Tally(call.old)) => v.resolved # {}
      BY <2>4, <2>5
    <2>8. QED
      BY <2>6, <2>7
  <1>4. QED
    BY <1>2, <1>3, Zenon DEF GradeOnlyByFixing, Verdict

-----------------------------------------------------------------------------
(* The invariant of the session, action by action. *)

LEMMA NoCallTyped == NoCall \in CallStates
  <1>1. {} \in Findings
    BY DEF Findings, OnePerFlaw
  <1>2. NoReport \in Reports
    BY <1>1 DEF NoReport, Reports
  <1>3. QED
    BY <1>1, <1>2 DEF NoCall, CallStates

\* What the counts are made of.
LEMMA Counts ==
  /\ Started = Cardinality(StartedIds) /\ Calls = issued - Cardinality(DoneIds)
  /\ IsFiniteSet(JobIds) /\ Cardinality(JobIds) = MaxEvents
  /\ IsFiniteSet(StartedIds) /\ IsFiniteSet(DoneIds)
  /\ Cardinality(DoneIds) \in Nat /\ Cardinality(DoneIds) <= MaxEvents
  /\ Cardinality(StartedIds) \in Nat
  <1>1. IsFiniteSet(JobIds) /\ Cardinality(JobIds) = MaxEvents
    BY SessionAssumption, FS_Interval DEF JobIds
  <1>2. IsFiniteSet(StartedIds) /\ IsFiniteSet(DoneIds)
        /\ Cardinality(DoneIds) <= Cardinality(JobIds)
    BY <1>1, FS_Subset DEF StartedIds, DoneIds
  <1>3. QED
    BY <1>1, <1>2, FS_CardinalityType DEF Started, Calls, StartedIds, DoneIds

LEMMA PlaceIs ==
  ASSUME NEW file \in Files, NEW line \in Lines
  PROVE  [file |-> file, line |-> line] \in Places
  <1>1. Places = {[file |-> f, line |-> l] : f \in Files, l \in Lines}
    BY DEF Places, Lines
  <1> HIDE DEF Places, Lines
  <1>2. QED
    BY <1>1

LEMMA InitInv == Init => SessionInv
  <1> SUFFICES ASSUME Init PROVE SessionInv
    OBVIOUS
  <1> USE DEF Init
  <1>1. TypeInv
    <2>1. code \in [Flaws -> Places \union {Fixed}]
      <3>1. \A f \in Flaws : [file |-> Home[f], line |-> LineOf[f]] \in Places
        BY SessionAssumption, PlaceIs DEF Lines
      <3>2. QED
        BY <3>1
    <2>2. job \in [JobIds -> JobStates]
      BY DEF NoJob, JobStates
    <2>3. cache \in Seq(Entries) /\ call \in CallStates
      BY NoCallTyped
    <2>4. QED
      BY <2>1, <2>2, <2>3 DEF TypeInv
  <1>2. Counted
    <2>1. StartedIds = {} /\ DoneIds = {}
      BY DEF StartedIds, DoneIds, NoJob
    <2>2. Started = 0 /\ Calls = 0
      BY <2>1, Counts, FS_EmptySet
    <2>3. StartedIds = 1 .. 0 /\ 0 \in 0 .. MaxEvents
      BY <2>1, SessionAssumption
    <2>4. QED
      <3>1. \E n \in 0 .. MaxEvents : StartedIds = 1 .. n
        BY <2>3
      <3>2. edits + Started <= MaxEvents /\ Calls <= MaxCalls /\ call.pc = "idle"
        BY <2>2, SessionAssumption DEF NoCall
      <3>3. QED
        BY <3>1, <3>2 DEF Counted
  <1>3. CacheInv
    BY SessionAssumption DEF CacheInv
  <1>4. JobsInv
    BY DEF JobsInv, NoJob
  <1>5. ReadInv
    BY DEF ReadInv, NoCall
  <1>6. QED
    BY <1>1, <1>2, <1>3, <1>4, <1>5 DEF SessionInv

\* A step that leaves the call alone, but for an answer that has been looked at.
LEMMA NotedKeeps ==
  ASSUME TypeInv, ReadInv, Noted, keyed' = keyed
  PROVE  /\ call' \in CallStates /\ ReadInv'
         /\ call'.pc \in {"scanning", "scanned"} => call'.pc = call.pc
  <1>1. CASE call.pc = "answered"
    <2>1. call' = NoCall
      BY <1>1 DEF Noted
    <2>2. QED
      BY <2>1, NoCallTyped DEF ReadInv, NoCall
  <1>2. CASE call.pc # "answered"
    <2>1. call' = call
      BY <1>2 DEF Noted
    <2>2. ReadInv'
      BY <2>1 DEF ReadInv, Faithful, Complete, MustBeFound, Spared, Sights, Visible
    <2>3. QED
      BY <2>1, <2>2 DEF TypeInv
  <1>3. QED
    BY <1>1, <1>2

LEMMA SameJobsCounted ==
  ASSUME job' = job
  PROVE  StartedIds' = StartedIds /\ DoneIds' = DoneIds /\ Started' = Started
  BY DEF StartedIds, DoneIds, Started

LEMMA PlaceOf ==
  ASSUME TypeInv, NEW f \in Present
  PROVE  /\ f \in Flaws /\ code[f] \in Places
         /\ code[f] = [file |-> code[f].file, line |-> code[f].line]
         /\ code[f].file \in Files /\ code[f].line \in Lines
  <1>1. f \in Flaws /\ code[f] \in Places
    BY DEF Present, TypeInv
  <1>2. QED
    BY <1>1 DEF Places, Lines

\* An edit changes the code or what parses.
LEMMA HostStepKeeps ==
  ASSUME SessionInv, HostStep
  PROVE  SessionInv'
  <1> USE DEF SessionInv
  <1>1. Edit
    BY DEF HostStep, Fix, Reword, Move, Introduce, BreakOrMend
  <1>2. code' \in [Flaws -> Places \union {Fixed}] /\ unparsed' \subseteq Files
    <2>0. code \in [Flaws -> Places \union {Fixed}] /\ unparsed \subseteq Files
      BY DEF TypeInv
    <2>1. ASSUME NEW f \in Present, Fix(f) \/ Reword(f) \/ \E file \in Files : Move(f, file)
          PROVE  code' \in [Flaws -> Places \union {Fixed}] /\ unparsed' = unparsed
      <3>1. f \in Flaws /\ code[f] = [file |-> code[f].file, line |-> code[f].line]
            /\ code[f].file \in Files /\ code[f].line \in Lines
        BY PlaceOf
      <3>2. Rewritten(f) \in Lines
        BY <3>1 DEF Lines
      <3>3. CASE Fix(f)
        BY <2>0, <3>3 DEF Fix
      <3>4. CASE Reword(f)
        <4>1. [code[f] EXCEPT !.line = Rewritten(f)] = [file |-> code[f].file, line |-> Rewritten(f)]
          BY <3>1
        <4>2. code' = [code EXCEPT ![f] = [file |-> code[f].file, line |-> Rewritten(f)]]
          BY <3>4, <4>1 DEF Reword
        <4>3. QED
          BY <2>0, <3>1, <3>2, <3>4, <4>2, PlaceIs DEF Reword
      <3>5. ASSUME NEW file \in Files, Move(f, file)
            PROVE  code' \in [Flaws -> Places \union {Fixed}] /\ unparsed' = unparsed
        <4>1. [code[f] EXCEPT !.file = file] = [file |-> file, line |-> code[f].line]
          BY <3>1
        <4>2. code' = [code EXCEPT ![f] = [file |-> file, line |-> code[f].line]]
          BY <3>5, <4>1 DEF Move
        <4>3. QED
          BY <2>0, <3>1, <3>5, <4>2, PlaceIs DEF Move
      <3>6. QED
        BY <2>1, <3>3, <3>4, <3>5
    <2>2. ASSUME NEW f \in Flaws, Introduce(f)
          PROVE  code' \in [Flaws -> Places \union {Fixed}] /\ unparsed' = unparsed
      <3>1. Home[f] \in Files /\ LineOf[f] \in Lines
        BY SessionAssumption DEF Lines
      <3>2. QED
        BY <2>0, <2>2, <3>1, PlaceIs DEF Introduce
    <2>3. ASSUME NEW file \in Files, BreakOrMend(file)
          PROVE  code' = code /\ unparsed' \subseteq Files
      BY <2>0, <2>3 DEF BreakOrMend
    <2>4. QED
      BY <2>0, <2>1, <2>2, <2>3 DEF HostStep
  <1>3. /\ edits' = edits + 1 /\ ~ Quiet /\ Noted
        /\ keyed' = keyed /\ cache' = cache /\ issued' = issued /\ jobs' = jobs /\ job' = job
    BY <1>1 DEF Edit
  <1>4. /\ call' \in CallStates /\ ReadInv'
        /\ call'.pc \in {"scanning", "scanned"} => call'.pc = call.pc
    BY <1>3, NotedKeeps
  <1>5. TypeInv'
    BY <1>2, <1>3, <1>4 DEF TypeInv
  <1>6. Counted'
    <2>1. StartedIds' = StartedIds /\ Started' = Started /\ Calls' = Calls
      BY <1>3, SameJobsCounted DEF Calls, DoneIds
    <2>2. edits + 1 + Started <= MaxEvents
      <3>1. /\ edits \in Nat /\ Started \in Nat /\ MaxEvents \in Nat
            /\ edits + Started <= MaxEvents
        BY Counts, SessionAssumption DEF Counted, TypeInv
      <3>2. edits + Started # MaxEvents
        BY <1>3 DEF Quiet
      <3>3. QED
        BY <3>1, <3>2
    <2>3. QED
      BY <1>3, <1>4, <2>1, <2>2 DEF Counted
  <1>7. CacheInv' /\ JobsInv'
    BY <1>3 DEF CacheInv, JobsInv
  <1>8. QED
    BY <1>4, <1>5, <1>6, <1>7

\* A call starts, or ends without a report.
LEMMA CallStepKeeps ==
  ASSUME SessionInv, ScanCall \/ VerifyCall \/ NoReportCame
  PROVE  SessionInv'
  <1> USE DEF SessionInv
  <1>1. /\ keyed' = keyed /\ code' = code /\ unparsed' = unparsed /\ edits' = edits
        /\ cache' = cache /\ issued' = issued /\ jobs' = jobs /\ job' = job
    BY DEF ScanCall, VerifyCall, NoReportCame, repository
  <1>2. call' \in CallStates /\ call'.pc \in {"idle", "scanning"}
        /\ (call'.pc = "scanning" => Calls < MaxCalls)
    <2>1. CASE ScanCall
      BY <2>1, NoCallTyped DEF ScanCall, Idle, CallStates
    <2>2. CASE VerifyCall
      <3>1. PICK i \in 1 .. Len(cache) :
              call' = [NoCall EXCEPT !.pc = "scanning", !.tool = "verify",
                                     !.old = cache[i].findings]
        BY <2>2 DEF VerifyCall
      <3>2. cache[i] \in Entries
        BY DEF TypeInv
      <3>3. cache[i].findings \in Findings
        BY <3>2 DEF Entries
      <3>4. QED
        BY <2>2, <3>1, <3>3, NoCallTyped DEF VerifyCall, Idle, CallStates
    <2>3. CASE NoReportCame
      BY <2>3, NoCallTyped DEF NoReportCame, NoCall
    <2>4. QED
      BY <2>1, <2>2, <2>3
  <1>3. TypeInv'
    BY <1>1, <1>2 DEF TypeInv
  <1>4. Counted'
    <2>1. StartedIds' = StartedIds /\ Started' = Started /\ Calls' = Calls
      BY <1>1, SameJobsCounted DEF Calls, DoneIds
    <2>2. QED
      BY <1>1, <1>2, <2>1 DEF Counted
  <1>5. CacheInv' /\ JobsInv' /\ ReadInv'
    BY <1>1, <1>2 DEF CacheInv, JobsInv, ReadInv
  <1>6. QED
    BY <1>3, <1>4, <1>5

\* The re-scan: what it reports.
LEMMA RawFindings ==
  ASSUME TypeInv, NEW found \in SUBSET Present
  PROVE  /\ Raw(found) \in Findings
         /\ \A g \in Raw(found) :
              /\ g.flaw \in found /\ g = FindingOf(g.flaw, SeverityOf[g.flaw])
              /\ code[g.flaw] = [file |-> g.file, line |-> g.line]
  <1>1. ASSUME NEW f \in found
        PROVE  /\ FindingOf(f, SeverityOf[f]) \in Finding
               /\ FindingOf(f, SeverityOf[f]).flaw = f
               /\ code[f] = [file |-> FindingOf(f, SeverityOf[f]).file,
                             line |-> FindingOf(f, SeverityOf[f]).line]
    <2>1. f \in Present /\ f \in Flaws /\ SeverityOf[f] \in Severities
      BY PlaceOf, SessionAssumption
    <2>2. QED
      BY <2>1, PlaceOf DEF FindingOf, Finding
  <1>2. \A g \in Raw(found) : g.flaw \in found /\ g = FindingOf(g.flaw, SeverityOf[g.flaw])
    BY <1>1 DEF Raw
  <1>3. Raw(found) \subseteq Finding
    BY <1>1 DEF Raw
  <1>4. OnePerFlaw(Raw(found))
    BY <1>2 DEF OnePerFlaw
  <1>5. QED
    BY <1>1, <1>2, <1>3, <1>4 DEF Findings

\* A pass only leaves findings out.
LEMMA PassesKeepSubsets ==
  ASSUME NEW F
  PROVE  /\ ByTitle(F) \subseteq F /\ ByLine(F) \subseteq F
         /\ ByPattern(F) \subseteq F /\ ByWording(F) \subseteq F
  BY DEF ByTitle, ByLine, ByPattern, ByWording

LEMMA GroupedIsSubset ==
  ASSUME NEW raw
  PROVE  Grouped(raw) \subseteq raw
  BY PassesKeepSubsets DEF Grouped

LEMMA BestAlone ==
  ASSUME NEW g
  PROVE  Best({g}) = g
  BY DEF Best

\* A pass keeps a finding with which no other has a key in common.
LEMMA PassesSpare ==
  ASSUME NEW F, NEW g \in F,
         \A h \in F \ {g} : ~ (SameTitle(g, h) \/ SameLine(g, h) \/ SameWording(g, h)),
         Scanner(g) \in SastOnly => ~ Cardinality(Pattern(F, g)) > 2
  PROVE  g \in ByTitle(F) /\ g \in ByLine(F) /\ g \in ByPattern(F) /\ g \in ByWording(F)
  <1>1. g \in ByTitle(F)
    <2>1. {h \in F : SameTitle(g, h)} = {g}
      BY DEF SameTitle
    <2>2. QED
      BY <2>1, BestAlone, Zenon DEF ByTitle
  <1>2. g \in ByLine(F)
    <2>1. {h \in F : SameLine(g, h)} = {g}
      BY DEF SameLine
    <2>2. QED
      BY <2>1, BestAlone, Zenon DEF ByLine
  <1>3. g \in ByWording(F)
    <2>1. {h \in F : SameWording(g, h)} = {g}
      BY DEF SameWording
    <2>2. QED
      BY <2>1, BestAlone, Zenon DEF ByWording
  <1>4. g \in ByPattern(F)
    BY Zenon DEF ByPattern
  <1>5. QED
    BY <1>1, <1>2, <1>3, <1>4

\* The keys are those of what can be seen in the code.
LEMMA SightKeys ==
  ASSUME NEW g, NEW h, NEW x, NEW y, g.flaw = x, h.flaw = y,
         g.file = code[x].file, h.file = code[y].file
  PROVE  /\ SameTitle(g, h) <=> SameTitle(Sight(code, x), Sight(code, y))
         /\ SameLine(g, h) <=> SameLine(Sight(code, x), Sight(code, y))
         /\ SameWording(g, h) <=> SameWording(Sight(code, x), Sight(code, y))
         /\ SamePattern(g, h) <=> SamePattern(Sight(code, x), Sight(code, y))
         /\ Scanner(g) = Scanner(Sight(code, x))
  <1> DEFINE u == Sight(code, x)
             v == Sight(code, y)
  <1>1. u.flaw = x /\ v.flaw = y /\ u.file = code[x].file /\ v.file = code[y].file
    BY DEF Sight
  <1> HIDE DEF u, v
  <1>2. /\ title_key(g) = title_key(u) /\ title_key(h) = title_key(v)
        /\ line_key(g) = line_key(u) /\ line_key(h) = line_key(v)
        /\ wording_key(g) = wording_key(u) /\ wording_key(h) = wording_key(v)
        /\ pattern_key(g) = pattern_key(u) /\ pattern_key(h) = pattern_key(v)
        /\ Scanner(g) = Scanner(u)
    BY <1>1 DEF title_key, line_key, wording_key, pattern_key, Apart, Location, Collapses,
                Scanner, Category, Title
  <1>3. QED
    BY <1>2 DEF u, v, SameTitle, SameLine, SameWording, SamePattern

\* Grouping leaves alone what it is spared for, whatever else was found.
LEMMA GroupingSpares ==
  ASSUME TypeInv, NEW found \in SUBSET Present, \A y \in found : Visible(code, y),
         NEW x \in found, Spared(code, x)
  PROVE  FindingOf(x, SeverityOf[x]) \in Grouped(Raw(found))
  <1> DEFINE raw == Raw(found)
             g == FindingOf(x, SeverityOf[x])
             seen == Sights(code)
             s == Sight(code, x)
             crowd == Pattern(seen, s)
  <1>1. g \in raw /\ g.flaw = x /\ g.file = code[x].file
    BY DEF Raw, FindingOf
  <1>2. ASSUME NEW h \in raw
        PROVE  /\ h.flaw \in found /\ h.file = code[h.flaw].file
               /\ Sight(code, h.flaw) \in seen
    <2>1. h.flaw \in found /\ code[h.flaw] = [file |-> h.file, line |-> h.line]
      BY RawFindings
    <2> HIDE DEF raw
    <2>2. h.file = code[h.flaw].file
      BY <2>1
    <2>3. h.flaw \in Flaws
      BY <2>1 DEF Present
    <2>4. QED
      BY <2>1, <2>2, <2>3 DEF Sights
  <1>3. \A h, k \in raw : h.flaw = k.flaw => h = k
    BY RawFindings DEF Findings, OnePerFlaw
  <1> HIDE DEF raw, g
  <1>4. ASSUME NEW h \in raw \ {g}
        PROVE  ~ (SameTitle(g, h) \/ SameLine(g, h) \/ SameWording(g, h))
    <2>1. h.flaw # x
      BY <1>1, <1>3
    <2>2. Sight(code, h.flaw) # s
      BY <2>1 DEF Sight
    <2>3. Sight(code, h.flaw) \in seen \ {s}
      BY <1>2, <2>2
    <2>4. ~ (\/ SameTitle(s, Sight(code, h.flaw)) \/ SameLine(s, Sight(code, h.flaw))
             \/ SameWording(s, Sight(code, h.flaw)))
      BY <2>3 DEF Spared, Ungrouped
    <2>5. h.file = code[h.flaw].file
      BY <1>2
    <2>6. QED
      BY <1>1, <2>4, <2>5, SightKeys
  <1>5. ASSUME NEW F \in SUBSET raw, Scanner(g) \in SastOnly
        PROVE  ~ Cardinality(Pattern(F, g)) > 2
    <2> DEFINE P == Pattern(F, g)
               i == [h \in P |-> Sight(code, h.flaw)]
    <2>1. Cardinality(crowd) <= 2
      <3>1. Scanner(s) \in SastOnly
        BY <1>1, <1>5, SightKeys
      <3>2. QED
        BY <3>1 DEF Spared, Ungrouped
    <2>2. IsFiniteSet(crowd)
      <3> DEFINE shown == {y \in Flaws : Visible(code, y)}
             f == [y \in shown |-> Sight(code, y)]
      <3>1. IsFiniteSet(Flaws)
        BY FlawAssumption, FS_Interval DEF Flaws
      <3>2. IsFiniteSet(shown)
        BY <3>1, FS_Subset
      <3>3. IsFiniteSet({Sight(code, y) : y \in shown})
        <4>1. f \in Surjection(shown, {Sight(code, y) : y \in shown})
          BY DEF Surjection
        <4> HIDE DEF shown, f
        <4>2. QED
          BY <3>2, <4>1, FS_Surjection
      <3>4. IsFiniteSet(seen)
        BY <3>3 DEF Sights
      <3>5. QED
        BY <3>4, FS_Subset DEF Pattern
    <2>3. ASSUME NEW h \in P
          PROVE  i[h] \in crowd
      <3>1. h \in raw /\ SamePattern(g, h)
        BY DEF Pattern
      <3>2. SamePattern(s, Sight(code, h.flaw)) /\ Sight(code, h.flaw) \in seen
        BY <1>1, <1>2, <3>1, SightKeys
      <3>3. QED
        BY <3>2 DEF Pattern
    <2>4. \A h, k \in P : i[h] = i[k] => h = k
      BY <1>3 DEF Pattern, Sight
    <2>5. i \in Injection(P, crowd)
      <3> HIDE DEF P, crowd
      <3>1. i \in [P -> crowd]
        BY <2>3
      <3>2. QED
        BY <2>4, <3>1 DEF Injection, IsInjective
    <2>6. QED
      <3> HIDE DEF P, crowd, i
      <3>1. IsFiniteSet(P) /\ Cardinality(P) <= Cardinality(crowd)
        BY <2>2, <2>5, FS_Injection
      <3>2. QED
        BY <2>1, <2>2, <3>1, FS_CardinalityType DEF P
  <1>6. ASSUME NEW F \in SUBSET raw, g \in F
        PROVE  g \in ByTitle(F) /\ g \in ByLine(F) /\ g \in ByPattern(F) /\ g \in ByWording(F)
    <2>1. \A h \in F \ {g} : ~ (SameTitle(g, h) \/ SameLine(g, h) \/ SameWording(g, h))
      BY <1>4
    <2>2. QED
      BY <1>5, <1>6, <2>1, PassesSpare
  <1>7. g \in Grouped(raw)
    <2> DEFINE one == ByTitle(raw)
               two == ByLine(one)
               three == ByPattern(two)
    <2>1. one \subseteq raw /\ g \in one
      BY <1>1, <1>6, PassesKeepSubsets
    <2>2. two \subseteq raw /\ g \in two
      <3> HIDE DEF one
      <3>1. QED
        BY <2>1, <1>6, PassesKeepSubsets
    <2>3. three \subseteq raw /\ g \in three
      <3> HIDE DEF two
      <3>1. QED
        BY <2>2, <1>6, PassesKeepSubsets
    <2>4. g \in ByWording(three)
      <3> HIDE DEF three
      <3>1. QED
        BY <2>3, <1>6
    <2>5. QED
      BY <2>4 DEF Grouped
  <1>8. QED
    BY <1>7 DEF g, raw

LEMMA ScanFacts ==
  ASSUME SessionInv, Scan
  PROVE  /\ call.pc = "scanning" /\ keyed' = keyed /\ call'.tool = call.tool
         /\ call' \in CallStates /\ call'.pc = "scanned"
         /\ Faithful(call'.read, call'.new)
         /\ call.tool = "verify" => Complete(call'.read, call'.broken, call'.new)
  <1> USE DEF SessionInv
  <1>1. PICK trouble \in Troubles, found \in SUBSET Present, given \in SeveritiesGiven,
             late \in {keyed, FALSE} :
          /\ Found(found, trouble)
          /\ \E dropped \in SUBSET (IF late THEN {} ELSE Droppable \intersect found) :
               /\ Mishaps(found, given, dropped, late, trouble) <= MaxMishaps
               /\ call' = [call EXCEPT
                    !.pc = "scanned", !.read = code, !.broken = unparsed,
                    !.new = Report(Merged(found, late), given, dropped, trouble)]
    BY Zenon DEF Scan
  <1>2. PICK dropped \in SUBSET (IF late THEN {} ELSE Droppable \intersect found) :
          call' = [call EXCEPT
            !.pc = "scanned", !.read = code, !.broken = unparsed,
            !.new = Report(Merged(found, late), given, dropped, trouble)]
    BY <1>1
  <1> DEFINE merged == Merged(found, late)
             kept == {g \in merged : g.flaw \notin dropped}
             Rate(g) == [g EXCEPT !.sev = Rated(given, g.flaw)]
             shipped == {Rate(g) : g \in kept}
             report == Report(merged, given, dropped, trouble)
  <1>3. /\ call.pc = "scanning" /\ keyed' = keyed
        /\ \A f \in Flaws : Rated(given, f) \in Severities
    BY SessionAssumption DEF SeveritiesGiven, Scan, Rated
  <1>4. report = [findings |-> shipped, failed |-> Failed(trouble),
                  missing |-> MissingReported(Missing(trouble))]
    BY DEF Report
  <1>5. /\ merged \subseteq Raw(found) /\ merged \in Findings
        /\ \A g \in merged : code[g.flaw] = [file |-> g.file, line |-> g.line]
    <2>1. merged \subseteq Raw(found)
      BY GroupedIsSubset DEF Merged
    <2>2. QED
      BY <2>1, RawFindings DEF Findings, OnePerFlaw
  <1> HIDE DEF merged
  <1>6. ASSUME NEW g \in merged
        PROVE  /\ Rate(g) \in Finding /\ Rate(g).flaw = g.flaw
               /\ Rate(g).file = g.file /\ Rate(g).line = g.line
    <2>1. g \in Finding
      BY <1>5 DEF Findings
    <2>2. QED
      BY <1>3, <2>1 DEF Finding
  <1> HIDE DEF Rate
  <1>7. shipped \in Findings
    <2>1. shipped \subseteq Finding
      BY <1>6
    <2>2. OnePerFlaw(shipped)
      BY <1>5, <1>6 DEF OnePerFlaw, Findings
    <2>3. QED
      BY <2>1, <2>2 DEF Findings
  <1>8. ASSUME NEW g \in shipped
        PROVE  code[g.flaw] = [file |-> g.file, line |-> g.line]
    <2>1. PICK h \in merged : g = Rate(h)
      OBVIOUS
    <2>2. code[h.flaw] = [file |-> h.file, line |-> h.line]
      BY <1>5
    <2>3. QED
      BY <1>6, <2>1, <2>2
  <1> HIDE DEF shipped
  <1>9. report \in Reports
    <2>1. Failed(trouble) \subseteq Scanners \union {Unmapped}
      BY DEF Failed, Troubles
    <2>2. MissingReported(Missing(trouble)) \subseteq {Semgrep}
      BY DEF MissingReported, Missing
    <2>3. QED
      BY <1>4, <1>7, <2>1, <2>2 DEF Reports
  <1>10. /\ call'.pc = "scanned" /\ call'.read = code /\ call'.broken = unparsed
         /\ call'.new = report /\ call'.tool = call.tool /\ call' \in CallStates
    BY <1>2, <1>9 DEF TypeInv, CallStates, merged
  <1>11. Faithful(code, report)
    <2>1. report.findings = shipped
      BY <1>4
    <2> HIDE DEF report
    <2>2. QED
      BY <1>8, <2>1 DEF Faithful
  <1>12. ASSUME call.tool = "verify", NEW x \in Flaws, MustBeFound(x, code, unparsed, report)
         PROVE  \E g \in report.findings : g.flaw = x
    <2>1. x \in Present /\ code[x].file \notin unparsed /\ Spared(code, x)
          /\ ScannerOf[x] \notin LLMScanners /\ (ScannerOf[x] \in SastOnly \/ ~ keyed)
          /\ ScannerOf[x] \notin Failed(trouble) \union Missing(trouble)
      BY <1>4, <1>12 DEF MustBeFound, Present, MissingReported
    <2>2. ScannerOf[x] \notin trouble
      <3>1. CASE "missing" \in trouble
        <4>1. trouble = {Semgrep, "missing"}
          BY <3>1, SessionAssumption DEF Troubles, Unmapped, Scanners
        <4>2. ScannerOf[x] # Semgrep
          BY <2>1, <3>1 DEF Missing
        <4>3. ScannerOf[x] \in Scanners
          BY DEF Scanners
        <4>4. QED
          BY <4>1, <4>2, <4>3, SessionAssumption
      <3>2. CASE "missing" \notin trouble
        BY <2>1, <3>2 DEF Failed
      <3>3. QED
        BY <3>1, <3>2
    <2>3. x \in found /\ x \notin dropped
      <3>1. x \in found
        BY <1>1, <2>1, <2>2 DEF Found
      <3>2. x \notin Droppable
        BY <2>1 DEF Droppable, Triaged
      <3>3. QED
        BY <3>1, <3>2
    <2>4. \A y \in found : Visible(code, y)
      BY <1>1 DEF Found, Visible, Present
    <2> DEFINE g == FindingOf(x, SeverityOf[x])
    <2>5. g \in Grouped(Raw(found)) /\ g \in Raw(found)
      BY <2>1, <2>3, <2>4, GroupingSpares DEF Raw
    <2>6. g \in merged /\ g.flaw = x
      BY <2>5 DEF merged, Merged, FindingOf
    <2> HIDE DEF g
    <2>7. g \in kept
      BY <2>3, <2>6
    <2>8. Rate(g) \in report.findings
      BY <1>4, <2>7 DEF shipped
    <2>9. Rate(g).flaw = x
      BY <1>6, <2>6
    <2>10. QED
      BY <2>8, <2>9, Zenon
  <1>13. call.tool = "verify" => Complete(code, unparsed, report)
    BY <1>12 DEF Complete
  <1>14. QED
    BY <1>3, <1>10, <1>11, <1>13

LEMMA ScanKeeps ==
  ASSUME SessionInv, Scan
  PROVE  SessionInv'
  <1> USE DEF SessionInv
  <1>1. /\ keyed' = keyed /\ code' = code /\ unparsed' = unparsed /\ edits' = edits
        /\ cache' = cache /\ issued' = issued /\ jobs' = jobs /\ job' = job
    BY DEF Scan, repository
  <1>2. TypeInv'
    BY <1>1, ScanFacts DEF TypeInv
  <1>3. Counted'
    <2>1. StartedIds' = StartedIds /\ Started' = Started /\ Calls' = Calls
      BY <1>1, SameJobsCounted DEF Calls, DoneIds
    <2>2. QED
      BY <1>1, <2>1, ScanFacts DEF Counted
  <1>4. CacheInv' /\ JobsInv'
    BY <1>1 DEF CacheInv, JobsInv
  <1>5. ReadInv'
    BY <1>1, ScanFacts DEF ReadInv, Faithful, Complete, MustBeFound, Spared, Sights, Visible
  <1>6. QED
    BY <1>2, <1>3, <1>4, <1>5

\* What is cached is the newest, and evicts the oldest.
LEMMA CacheReportEffect ==
  ASSUME TypeInv, CacheInv, NEW findings \in Findings, NEW local \in BOOLEAN,
         CacheReport(findings, local)
  PROVE  /\ cache' \in Seq(Entries) /\ issued' = issued + 1 /\ CacheInv'
         /\ \A i \in 1 .. Len(cache') :
              \/ cache'[i].id = issued + 1 /\ cache'[i].local = local
              \/ \E k \in 1 .. Len(cache) : cache'[i] = cache[k]
  <1> DEFINE e == [id |-> issued + 1, findings |-> findings, local |-> local]
             all == Append(cache, e)
             L == Len(cache)
  <1>1. /\ issued \in Nat /\ cache \in Seq(Entries) /\ L \in Nat
        /\ SCAN_CACHE_MAX \in Nat /\ SCAN_CACHE_MAX > 0
        /\ issued' = issued + 1
    BY SessionAssumption DEF TypeInv, CacheReport
  <1>2. e \in Entries /\ e.id = issued + 1 /\ e.local = local
    BY <1>1 DEF Entries
  <1>3. /\ L = IF issued <= SCAN_CACHE_MAX THEN issued ELSE SCAN_CACHE_MAX
        /\ \A i \in 1 .. L : cache[i].id = issued - L + i
    BY DEF CacheInv
  <1>4. cache' = IF Len(all) > SCAN_CACHE_MAX THEN Tail(all) ELSE all
    BY DEF CacheReport, EvictOldest
  <1> HIDE DEF e
  <1>5. /\ all \in Seq(Entries) /\ Len(all) = L + 1
        /\ \A i \in 1 .. L : all[i] = cache[i]
        /\ all[L + 1] = e
    BY <1>1, <1>2
  <1> HIDE DEF all, L
  <1>6. \A i \in 1 .. L + 1 : all[i].id = issued - L + i
    <2> SUFFICES ASSUME NEW i \in 1 .. L + 1 PROVE all[i].id = issued - L + i
      OBVIOUS
    <2>1. CASE i = L + 1
      BY <1>1, <1>2, <1>5, <2>1
    <2>2. CASE i # L + 1
      <3>1. i \in 1 .. L
        BY <1>1, <2>2
      <3>2. QED
        BY <1>3, <1>5, <3>1
    <2>3. QED
      BY <2>1, <2>2
  <1>7. \A i \in 1 .. L + 1 : \/ all[i] = e
                              \/ \E k \in 1 .. Len(cache) : all[i] = cache[k]
    BY <1>1, <1>5 DEF L
  <1>8. CASE L + 1 <= SCAN_CACHE_MAX
    <2>1. cache' = all /\ L = issued
      BY <1>1, <1>3, <1>4, <1>5, <1>8
    <2>2. Len(cache') = issued' /\ issued' <= SCAN_CACHE_MAX
      BY <1>1, <1>5, <1>8, <2>1
    <2>3. \A i \in 1 .. Len(cache') : cache'[i].id = issued' - Len(cache') + i
      BY <1>1, <1>5, <1>6, <2>1, <2>2
    <2>4. QED
      BY <1>1, <1>2, <1>5, <1>7, <2>1, <2>2, <2>3 DEF CacheInv
  <1>9. CASE L + 1 > SCAN_CACHE_MAX
    <2>1. cache' = Tail(all) /\ L = SCAN_CACHE_MAX /\ issued >= SCAN_CACHE_MAX
      BY <1>1, <1>3, <1>4, <1>5, <1>9
    <2>2. /\ cache' \in Seq(Entries) /\ Len(cache') = L
          /\ \A i \in 1 .. L : cache'[i] = all[i + 1]
      <3>1. all # << >>
        BY <1>1, <1>5
      <3>2. /\ Tail(all) \in Seq(Entries) /\ Len(Tail(all)) = Len(all) - 1
            /\ \A i \in 1 .. Len(Tail(all)) : Tail(all)[i] = all[i + 1]
        BY <1>5, <3>1
      <3>3. QED
        BY <1>1, <1>5, <2>1, <3>2
    <2>3. \A i \in 1 .. L : cache'[i].id = issued' - L + i
      <3>1. ASSUME NEW i \in 1 .. L PROVE cache'[i].id = issued' - L + i
        <4>1. i + 1 \in 1 .. L + 1 /\ cache'[i] = all[i + 1]
          BY <1>1, <2>2
        <4>2. all[i + 1].id = issued - L + (i + 1)
          BY <1>6, <4>1
        <4>3. QED
          BY <1>1, <4>1, <4>2
      <3>2. QED
        BY <3>1
    <2>4. CacheInv'
      <3>1. Len(cache') = IF issued' <= SCAN_CACHE_MAX THEN issued' ELSE SCAN_CACHE_MAX
        BY <1>1, <2>1, <2>2
      <3>2. QED
        BY <2>2, <2>3, <3>1 DEF CacheInv
    <2>5. ASSUME NEW i \in 1 .. Len(cache')
          PROVE  \/ cache'[i].id = issued + 1 /\ cache'[i].local = local
                 \/ \E k \in 1 .. Len(cache) : cache'[i] = cache[k]
      <3>1. i + 1 \in 1 .. L + 1 /\ cache'[i] = all[i + 1]
        BY <1>1, <2>2
      <3>2. QED
        BY <1>2, <1>7, <3>1
    <2>6. QED
      BY <1>1, <2>2, <2>4, <2>5
  <1>10. QED
    BY <1>1, <1>8, <1>9

LEMMA AnswerKeeps ==
  ASSUME SessionInv, Answer
  PROVE  SessionInv'
  <1> USE DEF SessionInv
  <1>1. /\ keyed' = keyed /\ code' = code /\ unparsed' = unparsed /\ edits' = edits
        /\ jobs' = jobs /\ job' = job /\ call.pc = "scanned"
        /\ call' = [call EXCEPT !.pc = "answered", !.unparsed = unparsed]
        /\ CacheReport(call.new.findings, TRUE)
    BY DEF Answer, repository
  <1>2. call.new.findings \in Findings
    BY DEF TypeInv, CallStates, Reports
  <1>3. /\ cache' \in Seq(Entries) /\ issued' = issued + 1 /\ CacheInv'
        /\ \A i \in 1 .. Len(cache') :
             \/ cache'[i].id = issued + 1
             \/ \E k \in 1 .. Len(cache) : cache'[i] = cache[k]
    BY <1>1, <1>2, CacheReportEffect
  <1>4. /\ call' \in CallStates /\ call'.pc = "answered" /\ call'.tool = call.tool
        /\ call'.read = call.read /\ call'.broken = call.broken /\ call'.new = call.new
    BY <1>1 DEF TypeInv, CallStates
  <1>5. TypeInv'
    BY <1>1, <1>3, <1>4 DEF TypeInv
  <1>6. Counted'
    <2>1. StartedIds' = StartedIds /\ Started' = Started /\ DoneIds' = DoneIds
      BY <1>1, SameJobsCounted
    <2>2. Calls' = Calls + 1
      <3>1. Calls' = issued' - Cardinality(DoneIds)
        BY <2>1 DEF Calls, DoneIds
      <3>2. QED
        BY <1>3, <3>1, Counts DEF TypeInv
    <2>3. Calls + 1 <= MaxCalls
      <3>1. Calls \in Int /\ MaxCalls \in Nat /\ Calls < MaxCalls
        BY <1>1, Counts, SessionAssumption DEF Counted, TypeInv
      <3>2. QED
        BY <3>1
    <2>4. QED
      BY <1>1, <1>4, <2>1, <2>2, <2>3 DEF Counted
  <1>7. JobsInv'
    <2> SUFFICES ASSUME NEW j \in JobIds, job[j].status = "done",
                        NEW i \in 1 .. Len(cache'), cache'[i].id = job[j].scan
                 PROVE  ~ cache'[i].local
      <3>1. \A j \in JobIds : job[j].scan \in 0 .. issued'
        BY <1>3 DEF JobsInv, TypeInv
      <3>2. QED
        BY <1>1, <3>1 DEF JobsInv
    <2>1. job[j].scan \in 0 .. issued /\ issued \in Nat
      BY DEF JobsInv, TypeInv
    <2>2. PICK k \in 1 .. Len(cache) : cache'[i] = cache[k]
      BY <1>3, <2>1
    <2>3. QED
      BY <2>2 DEF JobsInv
  <1>8. ReadInv'
    BY <1>1, <1>4 DEF ReadInv, Faithful, Complete, MustBeFound, Spared, Sights, Visible
  <1>9. QED
    BY <1>3, <1>5, <1>6, <1>7, <1>8

\* Jobs: what a step of one does to the counts.
LEMMA ScanUrlKeeps ==
  ASSUME SessionInv, NEW j \in JobIds, ScanUrl(j)
  PROVE  SessionInv'
  <1> USE DEF SessionInv
  <1> DEFINE new == [status |-> "running", task |-> "running", scan |-> 0]
  <1>1. /\ keyed' = keyed /\ code' = code /\ unparsed' = unparsed /\ edits' = edits
        /\ cache' = cache /\ issued' = issued /\ Noted /\ ~ Quiet /\ j = Started + 1
        /\ job' = [job EXCEPT ![j] = new] /\ jobs' = EvictFinished(jobs) \union {j}
    BY DEF ScanUrl, repository
  <1>2. PICK n \in 0 .. MaxEvents : StartedIds = 1 .. n
    BY DEF Counted
  <1>3. Started = n /\ n \in Nat /\ j = n + 1 /\ j \notin StartedIds /\ n + 1 \in 0 .. MaxEvents
    <2>1. Started = n
      BY <1>2, Counts, FS_Interval, SessionAssumption
    <2>2. QED
      BY <1>1, <1>2, <2>1, SessionAssumption DEF JobIds
  <1>4. job[j].status = "none" /\ job \in [JobIds -> JobStates]
    BY <1>3 DEF StartedIds, JobsInv, TypeInv
  <1>5. /\ job'[j] = new /\ job' \in [JobIds -> JobStates]
        /\ \A k \in JobIds \ {j} : job'[k] = job[k]
    BY <1>1, <1>4 DEF JobStates
  <1>6. StartedIds' = 1 .. (n + 1) /\ DoneIds' = DoneIds
    <2>1. StartedIds' = StartedIds \union {j}
      BY <1>5 DEF StartedIds
    <2>2. DoneIds' = DoneIds
      BY <1>4, <1>5 DEF DoneIds
    <2>3. QED
      BY <1>2, <1>3, <2>1, <2>2
  <1>7. Started' = n + 1 /\ Calls' = Calls
    <2>1. Cardinality(1 .. (n + 1)) = n + 1
      BY <1>3, FS_Interval
    <2>2. Started' = Cardinality(StartedIds')
      BY DEF Started, StartedIds
    <2>3. Calls' = Calls
      BY <1>1, <1>6 DEF Calls, DoneIds
    <2>4. QED
      BY <1>6, <2>1, <2>2, <2>3
  <1>8. /\ call' \in CallStates /\ ReadInv'
        /\ call'.pc \in {"scanning", "scanned"} => call'.pc = call.pc
    BY <1>1, NotedKeeps
  <1>9. TypeInv'
    <2>1. jobs' \subseteq JobIds
      BY <1>1 DEF TypeInv, EvictFinished
    <2>2. QED
      BY <1>1, <1>5, <1>8, <2>1 DEF TypeInv
  <1>10. Counted'
    <2>1. edits' + Started' <= MaxEvents
      <3>1. edits \in Nat /\ MaxEvents \in Nat /\ edits + n <= MaxEvents /\ edits + n # MaxEvents
        BY <1>1, <1>3, SessionAssumption DEF Counted, TypeInv, Quiet
      <3>2. QED
        BY <1>1, <1>3, <1>7, <3>1
    <2>2. \E k \in 0 .. MaxEvents : StartedIds' = 1 .. k
      BY <1>3, <1>6
    <2>3. QED
      BY <1>7, <1>8, <2>1, <2>2 DEF Counted
  <1>11. CacheInv'
    BY <1>1 DEF CacheInv
  <1>12. JobsInv'
    <2>1. ASSUME NEW k \in JobIds, job'[k].task = "running"
          PROVE  k \in jobs'
      <3>1. CASE k = j
        BY <1>1, <3>1
      <3>2. CASE k # j
        <4>1. job[k].task = "running" /\ job[k].status = "running" /\ k \in jobs
          BY <1>5, <2>1, <3>2 DEF JobsInv
        <4>2. k \in EvictFinished(jobs)
          BY <4>1 DEF EvictFinished, Running
        <4>3. QED
          BY <1>1, <4>2
      <3>3. QED
        BY <3>1, <3>2
    <2>2. \A k \in JobIds :
            /\ job'[k].status = "running" <=> job'[k].task \in {"running", "cancelled"}
            /\ job'[k].scan > 0 <=> job'[k].status = "done"
            /\ job'[k].task = "none" => job'[k].status = "none"
            /\ job'[k].scan \in 0 .. issued
            /\ job'[k].status = "done" => job'[k] = job[k]
      <3> SUFFICES ASSUME NEW k \in JobIds
                   PROVE  /\ job'[k].status = "running" <=> job'[k].task \in {"running", "cancelled"}
                          /\ job'[k].scan > 0 <=> job'[k].status = "done"
                          /\ job'[k].task = "none" => job'[k].status = "none"
                          /\ job'[k].scan \in 0 .. issued
                          /\ job'[k].status = "done" => job'[k] = job[k]
        OBVIOUS
      <3>1. CASE k = j
        BY <1>5, <3>1 DEF TypeInv
      <3>2. CASE k # j
        <4>1. job'[k] = job[k]
          BY <1>5, <3>2
        <4>2. QED
          BY <4>1 DEF JobsInv
      <3>3. QED
        BY <3>1, <3>2
    <2>3. QED
      BY <1>1, <2>1, <2>2 DEF JobsInv
  <1>13. QED
    BY <1>8, <1>9, <1>10, <1>11, <1>12

\* A task ends: its job gets an outcome, and a finished one the id of its own scan.
LEMMA TaskEndKeeps ==
  ASSUME SessionInv, NEW j \in JobIds, JobDone(j) \/ JobFails(j) \/ JobCancelled(j)
  PROVE  SessionInv'
  <1> USE DEF SessionInv
  <1>1. /\ keyed' = keyed /\ code' = code /\ unparsed' = unparsed /\ edits' = edits
        /\ jobs' = jobs /\ Noted /\ job[j].task = "running"
    BY DEF JobDone, JobFails, JobCancelled, repository
  <1>2. /\ job \in [JobIds -> JobStates] /\ issued \in Nat /\ job[j].status = "running"
        /\ job[j].scan = 0
    BY <1>1 DEF TypeInv, JobsInv, JobStates
  <1>3. PICK t \in JobStates :
          /\ job' = [job EXCEPT ![j] = t]
          /\ t.task \in {"ended", "cancelled"}
          /\ t.status = "running" <=> t.task = "cancelled"
          /\ t.status # "none"
          /\ \/ /\ t.status = "done" /\ t.scan = issued + 1 /\ CacheReport({}, FALSE)
             \/ /\ t.status # "done" /\ t.scan = 0 /\ cache' = cache /\ issued' = issued
    <2>1. CASE JobDone(j)
      <3> DEFINE t == [status |-> "done", task |-> "ended", scan |-> issued + 1]
      <3>1. t \in JobStates
        BY <1>2 DEF JobStates
      <3>2. job' = [job EXCEPT ![j] = t] /\ CacheReport({}, FALSE)
        BY <2>1 DEF JobDone
      <3>3. QED
        BY <3>1, <3>2
    <2>2. CASE JobFails(j)
      <3> DEFINE t == [status |-> "error", task |-> "ended", scan |-> 0]
      <3>1. t \in JobStates
        BY DEF JobStates
      <3>2. job' = [job EXCEPT ![j] = t] /\ cache' = cache /\ issued' = issued
        BY <2>2 DEF JobFails
      <3>3. QED
        BY <3>1, <3>2
    <2>3. CASE JobCancelled(j)
      <3> DEFINE t == [job[j] EXCEPT !.task = "cancelled"]
      <3>1. t \in JobStates /\ t.task = "cancelled" /\ t.status = "running" /\ t.scan = 0
        BY <1>2 DEF JobStates
      <3>2. job' = [job EXCEPT ![j] = t] /\ cache' = cache /\ issued' = issued
        BY <2>3 DEF JobCancelled
      <3> HIDE DEF t
      <3>3. QED
        BY <3>1, <3>2
    <2>4. QED
      BY <2>1, <2>2, <2>3
  <1>4. /\ job'[j] = t /\ job' \in [JobIds -> JobStates]
        /\ \A k \in JobIds \ {j} : job'[k] = job[k]
    BY <1>2, <1>3
  <1>5. /\ cache' \in Seq(Entries) /\ issued' \in Nat /\ issued' >= issued /\ CacheInv'
        /\ t.scan \in 0 .. issued'
        /\ \A i \in 1 .. Len(cache') :
             \/ cache'[i].id = issued + 1 /\ ~ cache'[i].local
             \/ \E k \in 1 .. Len(cache) : cache'[i] = cache[k]
    <2>1. CASE t.status = "done"
      <3>1. {} \in Findings
        BY DEF Findings, OnePerFlaw
      <3>2. t.scan = issued + 1 /\ CacheReport({}, FALSE)
        BY <1>3, <2>1
      <3>3. FALSE \in BOOLEAN
        OBVIOUS
      <3>4. /\ cache' \in Seq(Entries) /\ issued' = issued + 1 /\ CacheInv'
            /\ \A i \in 1 .. Len(cache') :
                 \/ cache'[i].id = issued + 1 /\ cache'[i].local = FALSE
                 \/ \E k \in 1 .. Len(cache) : cache'[i] = cache[k]
        BY <3>1, <3>2, <3>3, CacheReportEffect, Zenon
      <3>5. t.scan = issued + 1
        BY <3>2, Zenon
      <3>6. QED
        BY <1>2, <3>4, <3>5
    <2>2. CASE t.status # "done"
      <3>1. cache' = cache /\ issued' = issued /\ t.scan = 0
        BY <1>3, <2>2
      <3>2. CacheInv'
        BY <3>1 DEF CacheInv
      <3>3. QED
        BY <1>2, <3>1, <3>2 DEF TypeInv
    <2>3. QED
      BY <2>1, <2>2
  <1>6. StartedIds' = StartedIds
    BY <1>1, <1>3, <1>4 DEF StartedIds
  <1>7. Started' = Started
    BY <1>6 DEF Started, StartedIds
  <1>8. Calls' = Calls
    <2>0. Calls' = issued' - Cardinality(DoneIds')
      BY DEF Calls, DoneIds
    <2>1. CASE t.status = "done"
      <3>1. DoneIds' = DoneIds \union {j} /\ j \notin DoneIds
        BY <1>2, <1>4, <2>1 DEF DoneIds
      <3>2. Cardinality(DoneIds') = Cardinality(DoneIds) + 1
        BY <3>1, Counts, FS_AddElement
      <3>3. issued' = issued + 1
        BY <1>3, <2>1 DEF CacheReport
      <3>4. QED
        BY <1>2, <2>0, <3>2, <3>3, Counts
    <2>2. CASE t.status # "done"
      <3>1. DoneIds' = DoneIds
        BY <1>2, <1>4, <2>2 DEF DoneIds
      <3>2. QED
        BY <1>3, <2>0, <2>2, <3>1, Counts
    <2>3. QED
      BY <2>1, <2>2
  <1>9. /\ call' \in CallStates /\ ReadInv'
        /\ call'.pc \in {"scanning", "scanned"} => call'.pc = call.pc
    BY <1>1, NotedKeeps
  <1>10. TypeInv'
    BY <1>1, <1>4, <1>5, <1>9 DEF TypeInv
  <1>11. Counted'
    BY <1>1, <1>6, <1>7, <1>8, <1>9 DEF Counted
  <1>12. JobsInv'
    <2> SUFFICES ASSUME NEW k \in JobIds
                 PROVE  /\ job'[k].status = "running" <=> job'[k].task \in {"running", "cancelled"}
                        /\ job'[k].scan > 0 <=> job'[k].status = "done"
                        /\ job'[k].task = "none" => job'[k].status = "none"
                        /\ job'[k].task = "running" => k \in jobs'
                        /\ job'[k].scan \in 0 .. issued'
                        /\ job'[k].status = "done" =>
                             \A i \in 1 .. Len(cache') :
                               cache'[i].id = job'[k].scan => ~ cache'[i].local
      BY DEF JobsInv
    <2>1. CASE k = j
      <3>1. \A i \in 1 .. Len(cache) : cache[i].id # issued + 1
        <4>1. \A i \in 1 .. Len(cache) : cache[i].id = issued - Len(cache) + i
          BY DEF CacheInv
        <4>2. Len(cache) \in Nat
          BY DEF TypeInv
        <4>3. QED
          BY <1>2, <4>1, <4>2
      <3>2. t.status = "done" => \A i \in 1 .. Len(cache') :
              cache'[i].id = t.scan => ~ cache'[i].local
        BY <1>3, <1>5, <3>1
      <3>3. t.scan > 0 <=> t.status = "done"
        <4>1. /\ t.status = "done" => t.scan = issued + 1
              /\ t.status # "done" => t.scan = 0
          BY <1>3, Zenon
        <4>2. QED
          BY <1>2, <4>1
      <3>4. QED
        BY <1>3, <1>4, <1>5, <2>1, <3>2, <3>3
    <2>2. CASE k # j
      <3>1. job'[k] = job[k] /\ job[k].scan \in 0 .. issued
        BY <1>4, <2>2 DEF JobsInv
      <3>2. job[k].scan \in 0 .. issued' /\ job[k].scan # issued + 1
        BY <1>2, <1>5, <3>1
      <3>3. job[k].status = "done" => \A i \in 1 .. Len(cache') :
              cache'[i].id = job[k].scan => ~ cache'[i].local
        <4> SUFFICES ASSUME job[k].status = "done", NEW i \in 1 .. Len(cache'),
                            cache'[i].id = job[k].scan
                     PROVE  ~ cache'[i].local
          OBVIOUS
        <4>1. PICK l \in 1 .. Len(cache) : cache'[i] = cache[l]
          BY <1>5, <3>2
        <4>2. QED
          BY <4>1 DEF JobsInv
      <3>4. QED
        BY <1>1, <3>1, <3>2, <3>3 DEF JobsInv
    <2>3. QED
      BY <2>1, <2>2
  <1>13. QED
    BY <1>5, <1>9, <1>10, <1>11, <1>12

LEMMA NextKeeps ==
  ASSUME SessionInv, [Next]_vars
  PROVE  SessionInv'
  <1>1. CASE HostStep
    BY <1>1, HostStepKeeps
  <1>2. CASE ScanCall \/ VerifyCall \/ NoReportCame
    BY <1>2, CallStepKeeps
  <1>3. CASE Scan
    BY <1>3, ScanKeeps
  <1>4. CASE Answer
    BY <1>4, AnswerKeeps
  <1>5. ASSUME NEW j \in JobIds, JobStep(j)
        PROVE  SessionInv'
    BY <1>5, ScanUrlKeeps, TaskEndKeeps DEF JobStep
  <1>6. CASE UNCHANGED vars
    <2>1. /\ keyed' = keyed /\ code' = code /\ unparsed' = unparsed /\ edits' = edits
          /\ cache' = cache /\ issued' = issued /\ call' = call /\ jobs' = jobs /\ job' = job
      BY <1>6 DEF vars
    <2>2. TypeInv' /\ CacheInv' /\ JobsInv' /\ ReadInv'
      BY <2>1 DEF SessionInv, TypeInv, CacheInv, JobsInv, ReadInv, Faithful, Complete, MustBeFound, Spared, Sights, Visible
    <2>3. Counted'
      BY <2>1, SameJobsCounted DEF SessionInv, Counted, Calls, DoneIds
    <2>4. QED
      BY <2>2, <2>3 DEF SessionInv
  <1>7. QED
    BY <1>1, <1>2, <1>3, <1>4, <1>5, <1>6 DEF Next

-----------------------------------------------------------------------------
(* The theorems *)

THEOREM SessionInvariant == Spec => []SessionInv
  <1>1. Init => SessionInv
    BY InitInv
  <1>2. SessionInv /\ [Next]_vars => SessionInv'
    BY NextKeeps
  <1>3. QED
    BY <1>1, <1>2, PTL DEF Spec

LEMMA HandlesDo ==
  ASSUME SessionInv
  PROVE  HandlesWork
  <1> USE DEF SessionInv
  <1>0. /\ issued \in Nat /\ Len(cache) \in Nat /\ SCAN_CACHE_MAX \in Nat
        /\ MaxCalls \in Nat /\ MaxEvents \in Nat /\ edits \in Nat
    BY SessionAssumption DEF TypeInv
  <1>1. /\ Len(cache) = IF issued <= SCAN_CACHE_MAX THEN issued ELSE SCAN_CACHE_MAX
        /\ \A i \in 1 .. Len(cache) : cache[i].id = issued - Len(cache) + i
    BY DEF CacheInv
  <1>2. TypeOK
    <2>1. edits \in 0 .. MaxEvents /\ issued \in 0 .. MaxCalls + MaxEvents
      <3>1. edits + Started <= MaxEvents /\ Calls <= MaxCalls
        BY DEF Counted
      <3>2. QED
        BY <1>0, <3>1, Counts
    <2>2. /\ \A i \in 1 .. Len(cache) : cache[i].id \in 1 .. issued
          /\ \A i, k \in 1 .. Len(cache) : i < k => cache[i].id < cache[k].id
      BY <1>0, <1>1
    <2>3. /\ call.pc \in {"idle", "scanning", "scanned", "answered"}
          /\ call.tool \in {"scan", "verify"}
      BY DEF TypeInv, CallStates
    <2>4. \A j \in JobIds :
            /\ job[j].task \in {"none", "running", "ended", "cancelled"}
            /\ job[j].status = "running" <=> job[j].task \in {"running", "cancelled"}
            /\ job[j].scan > 0 <=> job[j].status = "done"
      BY DEF TypeInv, JobStates, JobsInv
    <2>5. QED
      BY <2>1, <2>2, <2>3, <2>4 DEF TypeOK, TypeInv
  <1>3. {cache[i].id : i \in 1 .. Len(cache)} = {n \in 1 .. issued : n > issued - SCAN_CACHE_MAX}
    <2>1. ASSUME NEW i \in 1 .. Len(cache)
          PROVE  cache[i].id \in 1 .. issued /\ cache[i].id > issued - SCAN_CACHE_MAX
      BY <1>0, <1>1
    <2>2. ASSUME NEW n \in 1 .. issued, n > issued - SCAN_CACHE_MAX
          PROVE  \E i \in 1 .. Len(cache) : cache[i].id = n
      <3> DEFINE i == n - issued + Len(cache)
      <3>1. i \in 1 .. Len(cache)
        BY <1>0, <1>1, <2>2
      <3>2. cache[i].id = n
        BY <1>0, <1>1, <3>1
      <3>3. QED
        BY <3>1, <3>2
    <2>3. QED
      BY <2>1, <2>2
  <1>4. QED
    BY <1>2, <1>3 DEF HandlesWork, JobsInv

\* No verdict calls more findings of a kind resolved than were removed.
THEOREM ResolvedOnlyIfGone == Spec => []ResolvedIsGone
  <1>1. SessionInv => ResolvedIsGone
    BY VerdictsAreModest DEF SessionInv
  <1>2. QED
    BY <1>1, SessionInvariant, PTL

\* Every old finding is accounted for, and only what was resolved improves the grade.
THEOREM GradeImprovesOnlyByFixing == Spec => []GradeOnlyByFixing
  <1>1. SessionInv => GradeOnlyByFixing
    BY GradeIsHonest DEF SessionInv
  <1>2. QED
    BY <1>1, SessionInvariant, PTL

\* Jobs that run can be polled, the newest scans are cached, a job has its own scan.
THEOREM HandlesKeepWorking == Spec => []HandlesWork
  <1>1. SessionInv => HandlesWork
    BY HandlesDo
  <1>2. QED
    BY <1>1, SessionInvariant, PTL
=============================================================================
