-------------------------- MODULE PRGroupingProofs --------------------------
(***************************************************************************)
(* Proofs about PRGrouping, for any findings, strategies, limits and       *)
(* orders of the ids.                                                      *)
(***************************************************************************)
EXTENDS PRGrouping, FiniteSetTheorems, SequenceTheorems, TLAPS

-----------------------------------------------------------------------------
(* Sorting *)

\* What comes before x.
Behind(S, order, x) == {y \in S : <<y, x>> \in order}

\* A strict order of S in which any two elements can be compared.
Total(S, order) ==
  /\ \A x \in S : <<x, x>> \notin order
  /\ \A x, y, z \in S : <<x, y>> \in order /\ <<y, z>> \in order => <<x, z>> \in order
  /\ \A x, y \in S : x = y \/ <<x, y>> \in order \/ <<y, x>> \in order

\* In such an order of a finite set, fewer elements come before what comes earlier.
LEMMA RankGrows ==
  ASSUME NEW S, IsFiniteSet(S), NEW order, Total(S, order),
         NEW x \in S, NEW z \in S, <<x, z>> \in order
  PROVE  Cardinality(Behind(S, order, x)) < Cardinality(Behind(S, order, z))
  <1> DEFINE X == Behind(S, order, x)
             Z == Behind(S, order, z)
  <1>1. X \subseteq Z /\ x \in Z /\ x \notin X
    BY DEF Behind, Total
  <1>2. IsFiniteSet(Z) /\ X \in SUBSET Z
    BY <1>1, FS_Subset DEF Behind
  <1>3. Cardinality(X) <= Cardinality(Z) /\ Cardinality(X) # Cardinality(Z)
    BY <1>1, <1>2, FS_Subset
  <1>4. Cardinality(X) \in Nat /\ Cardinality(Z) \in Nat
    BY <1>2, FS_Subset, FS_CardinalityType
  <1>5. QED
    BY <1>3, <1>4

\* A place in the sequence for every element.
LEMMA RankInRange ==
  ASSUME NEW S, IsFiniteSet(S), NEW order, Total(S, order), NEW x \in S
  PROVE  /\ Cardinality(Behind(S, order, x)) + 1 \in 1 .. Cardinality(S)
         /\ Cardinality(Behind(S, order, x)) \in Nat
  <1> DEFINE X == Behind(S, order, x)
  <1>1. X \in SUBSET S /\ X # S
    BY DEF Behind, Total
  <1>2. IsFiniteSet(X) /\ Cardinality(X) <= Cardinality(S) /\ Cardinality(X) # Cardinality(S)
    BY <1>1, FS_Subset
  <1>3. Cardinality(X) \in Nat /\ Cardinality(S) \in Nat
    BY <1>2, FS_CardinalityType
  <1>4. QED
    BY <1>2, <1>3

\* InOrder lists the elements of a finite set, each once and in their order.
LEMMA Sorting ==
  ASSUME NEW S, IsFiniteSet(S), NEW order, Total(S, order)
  PROVE  /\ InOrder(S, order) \in [1 .. Cardinality(S) -> S]
         /\ Cardinality(S) \in Nat
         /\ \A x \in S : \E i \in 1 .. Cardinality(S) : InOrder(S, order)[i] = x
         /\ \A i, k \in 1 .. Cardinality(S) :
              i < k => <<InOrder(S, order)[i], InOrder(S, order)[k]>> \in order
  <1> DEFINE n == Cardinality(S)
             rank == [x \in S |-> Cardinality(Behind(S, order, x)) + 1]
             s == InOrder(S, order)
  <1>1. n \in Nat /\ IsFiniteSet(1 .. n) /\ Cardinality(1 .. n) = n
    <2>1. n \in Nat
      BY FS_CardinalityType
    <2>2. QED
      BY <2>1, FS_Interval
  <1>2. rank \in [S -> 1 .. n]
    BY RankInRange
  <1>3. ASSUME NEW x \in S, NEW y \in S, <<x, y>> \in order
        PROVE  rank[x] < rank[y]
    <2>1. Cardinality(Behind(S, order, x)) < Cardinality(Behind(S, order, y))
      BY <1>3, RankGrows
    <2>2. /\ Cardinality(Behind(S, order, x)) \in Nat
          /\ Cardinality(Behind(S, order, y)) \in Nat
      BY RankInRange
    <2>3. QED
      BY <2>1, <2>2
  <1>4. rank \in Injection(S, 1 .. n)
    <2>1. ASSUME NEW x \in S, NEW y \in S, rank[x] = rank[y]
          PROVE  x = y
      <3>1. rank[x] \in Int /\ rank[y] \in Int
        BY <1>2
      <3>2. ~ (rank[x] < rank[y]) /\ ~ (rank[y] < rank[x])
        BY <2>1, <3>1
      <3>3. QED
        BY <3>2, <1>3 DEF Total
    <2> HIDE DEF rank
    <2>2. QED
      BY <2>1, <1>2 DEF Injection, IsInjective
  <1>5. rank \in Surjection(S, 1 .. n)
    <2> HIDE DEF rank, n
    <2>1. n = Cardinality(S)
      BY DEF n
    <2>2. QED
      BY <1>1, <1>4, <2>1, FS_Injection
  <1>6. \A i \in 1 .. n : \E x \in S : rank[x] = i
    <2> HIDE DEF rank
    <2>1. QED
      BY <1>5 DEF Surjection
  <1>7. ASSUME NEW i \in 1 .. n
        PROVE  s[i] \in S /\ rank[s[i]] = i
    <2>1. PICK x \in S : rank[x] = i
      BY <1>6
    <2>2. Cardinality(Behind(S, order, x)) = i - 1
      <3>1. Cardinality(Behind(S, order, x)) + 1 = i
        BY <2>1
      <3>2. Cardinality(Behind(S, order, x)) \in Nat
        BY RankInRange
      <3>3. QED
        BY <3>1, <3>2
    <2>3. s[i] = CHOOSE y \in S : Cardinality(Behind(S, order, y)) = i - 1
      BY DEF InOrder, Behind
    <2>4. s[i] \in S /\ Cardinality(Behind(S, order, s[i])) = i - 1
      BY <2>2, <2>3
    <2>5. QED
      BY <2>4
  <1>8. s = [i \in 1 .. n |-> s[i]]
    <2> DEFINE Nth(i) == CHOOSE x \in S : Cardinality({y \in S : <<y, x>> \in order}) = i - 1
    <2>1. s = [i \in 1 .. n |-> Nth(i)]
      BY Zenon DEF InOrder
    <2> HIDE DEF s, Nth
    <2>2. QED
      BY <2>1
  <1>9. s \in [1 .. n -> S]
    <2> HIDE DEF s, rank
    <2>1. QED
      BY <1>7, <1>8
  <1>10. ASSUME NEW x \in S
         PROVE  \E i \in 1 .. n : s[i] = x
    <2>1. rank[x] \in 1 .. n
      BY <1>2
    <2>2. s[rank[x]] \in S /\ rank[s[rank[x]]] = rank[x]
      BY <1>7, <2>1
    <2> HIDE DEF rank, s
    <2>3. s[rank[x]] = x
      BY <2>2, <1>4 DEF Injection, IsInjective
    <2>4. QED
      BY <2>1, <2>3
  <1>11. ASSUME NEW i \in 1 .. n, NEW k \in 1 .. n, i < k
         PROVE  <<s[i], s[k]>> \in order
    <2>1. s[i] \in S /\ s[k] \in S /\ rank[s[i]] = i /\ rank[s[k]] = k
      BY <1>7
    <2> HIDE DEF rank, s
    <2>2. i \in Int /\ k \in Int
      BY <1>1
    <2>3. s[i] # s[k] /\ <<s[k], s[i]>> \notin order
      BY <2>1, <2>2, <1>11, <1>3
    <2>4. QED
      BY <2>1, <2>3 DEF Total
  <1>12. QED
    BY <1>1, <1>9, <1>10, <1>11

-----------------------------------------------------------------------------
(* The groups of a strategy *)

\* The part of a branch name that a finding decides, whatever its id is.
Root(how, f) ==
  <<how, IF how = "per-finding" THEN _finding_identity(f) ELSE Key(how, <<>>, f)>>

\* What every group of a strategy is: the findings of one key, with the name of each.
IsRaw(g, F, how, id) ==
  /\ g = [key |-> g.key, findings |-> g.findings, suffix |-> g.suffix,
          batch |-> FALSE, urgent |-> FALSE]
  /\ g.findings \in SUBSET F /\ g.findings # {} /\ g.key \in Nat
  /\ \A f \in F : f \in g.findings <=> Key(how, id, f) = g.key
  /\ \A f \in g.findings : g.suffix = <<Root(how, f)>>

\* A name does not depend on the ids.
LEMMA SuffixIsRoot ==
  ASSUME NEW how \in VALID_STRATEGIES, NEW id, NEW f
  PROVE  Suffix(how, id, f) = <<Root(how, f)>>
  BY DEF Suffix, Root, Key, VALID_STRATEGIES

LEMMA KeysAreNumbers ==
  ASSUME NEW how \in VALID_STRATEGIES, NEW id \in IdOrders, NEW f \in Findings
  PROVE  Key(how, id, f) \in Nat
  BY GroupingAssumption DEF Key, VALID_STRATEGIES

\* Findings of one key have one name.
LEMMA KeyDecidesRoot ==
  ASSUME NEW how \in VALID_STRATEGIES, NEW id \in IdOrders, NEW f \in Findings,
         NEW g \in Findings, Key(how, id, f) = Key(how, id, g)
  PROVE  Root(how, f) = Root(how, g)
  <1>1. CASE how = "per-finding"
    <2>1. id[f] = id[g]
      BY <1>1 DEF Key
    <2>2. f = g
      BY <2>1, GroupingAssumption
    <2>3. QED
      BY <2>2
  <1>2. CASE how # "per-finding"
    BY <1>2 DEF Key, Root, VALID_STRATEGIES
  <1>3. QED
    BY <1>1, <1>2

\* Findings of one name have one key, unless each has a group of its own.
LEMMA RootDecidesKey ==
  ASSUME NEW how \in VALID_STRATEGIES, NEW id, NEW f, NEW g,
         Root(how, f) = Root(how, g), how # "per-finding"
  PROVE  Key(how, id, f) = Key(how, id, g)
  BY DEF Key, Root, VALID_STRATEGIES

\* The group of a finding.
GroupOf(f, F, how, id) ==
  [key |-> Key(how, id, f), findings |-> {g \in F : Key(how, id, g) = Key(how, id, f)},
   suffix |-> Suffix(how, id, f), batch |-> FALSE, urgent |-> FALSE]

\* The groups of a strategy share out the findings by their keys.
LEMMA RawGroups ==
  ASSUME NEW how \in VALID_STRATEGIES, NEW id \in IdOrders, NEW F \in SUBSET Findings
  PROVE  /\ IsFiniteSet(_build_raw_groups(F, how, id))
         /\ \A g \in _build_raw_groups(F, how, id) : IsRaw(g, F, how, id)
         /\ \A f \in F : \E g \in _build_raw_groups(F, how, id) : f \in g.findings
         /\ \A g, h \in _build_raw_groups(F, how, id) : g.key = h.key => g = h
  <1> DEFINE G == _build_raw_groups(F, how, id)
             group == [f \in F |-> GroupOf(f, F, how, id)]
  <1>1. \A g : g \in G <=> \E f \in F : g = GroupOf(f, F, how, id)
    BY DEF _build_raw_groups, GroupOf
  <1>2. IsFiniteSet(G)
    <2>1. group \in [F -> G]
      BY <1>1
    <2>2. \A g \in G : \E f \in F : group[f] = g
      BY <1>1
    <2> HIDE DEF G, group
    <2>3. group \in Surjection(F, G)
      BY <2>1, <2>2 DEF Surjection
    <2>4. IsFiniteSet(F)
      BY GroupingAssumption, FS_Subset
    <2>5. QED
      BY <2>3, <2>4, FS_Surjection
  <1>3. ASSUME NEW f \in F
        PROVE  IsRaw(GroupOf(f, F, how, id), F, how, id)
    <2>1. Key(how, id, f) \in Nat
      BY KeysAreNumbers
    <2>2. ASSUME NEW g \in F, Key(how, id, g) = Key(how, id, f)
          PROVE  Suffix(how, id, f) = <<Root(how, g)>>
      <3>1. Root(how, f) = Root(how, g)
        BY <2>2, KeyDecidesRoot
      <3>2. QED
        BY <3>1, SuffixIsRoot
    <2>3. QED
      BY <2>1, <2>2 DEF IsRaw, GroupOf
  <1>4. \A f \in F : f \in GroupOf(f, F, how, id).findings
    BY DEF GroupOf
  <1>5. ASSUME NEW f \in F, NEW h \in F, GroupOf(f, F, how, id).key = GroupOf(h, F, how, id).key
        PROVE  GroupOf(f, F, how, id) = GroupOf(h, F, how, id)
    <2>1. Key(how, id, f) = Key(how, id, h)
      BY <1>5 DEF GroupOf
    <2>2. Suffix(how, id, f) = Suffix(how, id, h)
      BY <2>1, KeyDecidesRoot, SuffixIsRoot
    <2>3. QED
      BY <2>1, <2>2 DEF GroupOf
  <1>6. QED
    BY <1>1, <1>2, <1>3, <1>4, <1>5

\* Every non-empty set of natural numbers has a least element.
LEMMA LeastElement ==
  ASSUME NEW S \in SUBSET Nat, S # {}
  PROVE  \E m \in S : \A k \in S : m <= k
  <1>1. IsWellFoundedOn(OpToRel(<, Nat), Nat)
    BY NatLessThanWellFounded, Zenon
  <1>2. PICK m \in S : \A k \in S : ~ (<<k, m>> \in OpToRel(<, Nat))
    BY <1>1, WFMin, Zenon
  <1>3. \A k \in S : ~ (k < m)
    BY <1>2 DEF OpToRel
  <1>4. QED
    BY <1>3

LEMMA TopSeverityIsANumber ==
  ASSUME NEW g, g.findings \in SUBSET Findings, g.findings # {}
  PROVE  top_severity(g) \in Nat
  <1> DEFINE ranks == {Attr[f].rank : f \in g.findings}
  <1>1. ranks \in SUBSET Nat /\ ranks # {}
    BY GroupingAssumption
  <1>2. PICK r \in ranks : \A k \in ranks : r <= k
    BY <1>1, LeastElement
  <1>3. top_severity(g) \in ranks
    BY <1>2 DEF top_severity
  <1>4. QED
    BY <1>1, <1>3

-----------------------------------------------------------------------------
(* The order of the groups *)

\* The lexicographic order of triples.
LEMMA BeforeOfTriples ==
  ASSUME NEW a1 \in Int, NEW a2 \in Int, NEW a3 \in Int,
         NEW b1 \in Int, NEW b2 \in Int, NEW b3 \in Int
  PROVE  Before(<<a1, a2, a3>>, <<b1, b2, b3>>) <=>
           \/ a1 < b1
           \/ a1 = b1 /\ a2 < b2
           \/ a1 = b1 /\ a2 = b2 /\ a3 < b3
  <1> DEFINE s == <<a1, a2, a3>>
             t == <<b1, b2, b3>>
             P(i) == s[i] < t[i] /\ \A k \in 1 .. i - 1 : s[k] = t[k]
  <1>1. Before(s, t) <=> \E i \in 1 .. 3 : P(i)
    BY DEF Before
  <1>2. P(1) <=> a1 < b1
    OBVIOUS
  <1>3. P(2) <=> a1 = b1 /\ a2 < b2
    <2>1. 1 .. 2 - 1 = {1}
      OBVIOUS
    <2>2. QED
      BY <2>1
  <1>4. P(3) <=> a1 = b1 /\ a2 = b2 /\ a3 < b3
    <2>1. 1 .. 3 - 1 = {1, 2}
      OBVIOUS
    <2>2. QED
      BY <2>1
  <1>5. 1 .. 3 = {1, 2, 3}
    OBVIOUS
  <1> HIDE DEF P
  <1>6. QED
    BY <1>1, <1>2, <1>3, <1>4, <1>5

\* The order group_findings sorts by.
Order(G) == {p \in G \X G : Before(SortKey(p[1]), SortKey(p[2]))}

Late(g) == IF _is_priority(g) THEN 0 ELSE 1

Precedes(g, h) ==
  \/ Late(g) < Late(h)
  \/ Late(g) = Late(h) /\ top_severity(g) < top_severity(h)
  \/ Late(g) = Late(h) /\ top_severity(g) = top_severity(h) /\ g.key < h.key

LEMMA SortKeysAreNumbers ==
  ASSUME NEW F \in SUBSET Findings, NEW how, NEW id, NEW g, IsRaw(g, F, how, id)
  PROVE  top_severity(g) \in Int /\ g.key \in Int /\ Late(g) \in Int
  <1>1. g.findings \in SUBSET Findings /\ g.findings # {} /\ g.key \in Nat
    BY DEF IsRaw
  <1>2. QED
    BY <1>1, TopSeverityIsANumber DEF Late

LEMMA OrderOfGroups ==
  ASSUME NEW F \in SUBSET Findings, NEW how, NEW id, NEW G,
         \A g \in G : IsRaw(g, F, how, id),
         NEW g \in G, NEW h \in G
  PROVE  <<g, h>> \in Order(G) <=> Precedes(g, h)
  <1>2. /\ SortKey(g) = <<Late(g), top_severity(g), g.key>>
        /\ SortKey(h) = <<Late(h), top_severity(h), h.key>>
    BY DEF SortKey, Late
  <1>3. <<g, h>> \in Order(G) <=> Before(SortKey(g), SortKey(h))
    BY DEF Order
  <1>4. /\ Late(g) \in Int /\ top_severity(g) \in Int /\ g.key \in Int
        /\ Late(h) \in Int /\ top_severity(h) \in Int /\ h.key \in Int
    BY SortKeysAreNumbers
  <1>5. QED
    BY <1>2, <1>3, <1>4, BeforeOfTriples DEF Precedes

\* The groups as group_findings sorts them: every one once, what is urgent first.
IsSorted(s, G) ==
  /\ s \in Seq(G) /\ Len(s) \in Nat
  /\ \A g \in G : \E i \in 1 .. Len(s) : s[i] = g
  /\ \A i, k \in 1 .. Len(s) :
       i < k => s[i] # s[k] /\ (_is_priority(s[k]) => _is_priority(s[i]))

LEMMA SortedGroups ==
  ASSUME NEW F \in SUBSET Findings, NEW how, NEW id, NEW G, IsFiniteSet(G),
         \A g \in G : IsRaw(g, F, how, id),
         \A g, h \in G : g.key = h.key => g = h
  PROVE  IsSorted(Ordered(G), G)
  <1> DEFINE n == Cardinality(G)
             s == InOrder(G, Order(G))
  <1>1. Total(G, Order(G))
    <2>0. ASSUME NEW x \in G
          PROVE  top_severity(x) \in Int /\ x.key \in Int /\ Late(x) \in Int
      BY SortKeysAreNumbers
    <2>1. ASSUME NEW x \in G
          PROVE  <<x, x>> \notin Order(G)
      <3>1. ~ Precedes(x, x)
        BY <2>0 DEF Precedes
      <3>2. QED
        BY <3>1, OrderOfGroups
    <2>2. ASSUME NEW x \in G, NEW y \in G, NEW z \in G,
                 <<x, y>> \in Order(G), <<y, z>> \in Order(G)
          PROVE  <<x, z>> \in Order(G)
      <3>1. Precedes(x, y) /\ Precedes(y, z)
        BY <2>2, OrderOfGroups
      <3>2. Precedes(x, z)
        BY <2>0, <3>1 DEF Precedes
      <3>3. QED
        BY <3>2, OrderOfGroups
    <2>3. ASSUME NEW x \in G, NEW y \in G, x # y
          PROVE  <<x, y>> \in Order(G) \/ <<y, x>> \in Order(G)
      <3>1. x.key # y.key
        BY <2>3
      <3>2. Precedes(x, y) \/ Precedes(y, x)
        BY <2>0, <3>1 DEF Precedes
      <3>3. QED
        BY <3>2, OrderOfGroups
    <2>4. QED
      BY <2>1, <2>2, <2>3 DEF Total
  <1>2. /\ s \in [1 .. n -> G] /\ n \in Nat
        /\ \A x \in G : \E i \in 1 .. n : s[i] = x
        /\ \A i, k \in 1 .. n : i < k => <<s[i], s[k]>> \in Order(G)
    BY <1>1, Sorting
  <1>3. Ordered(G) = s
    BY DEF Ordered, Order
  <1>4. ASSUME NEW i \in 1 .. n, NEW k \in 1 .. n, i < k
        PROVE  s[i] # s[k] /\ (_is_priority(s[k]) => _is_priority(s[i]))
    <2>1. <<s[i], s[k]>> \in Order(G) /\ s[i] \in G /\ s[k] \in G
      BY <1>2, <1>4
    <2>2. s[i] # s[k]
      BY <1>1, <2>1 DEF Total
    <2>3. Late(s[i]) <= Late(s[k])
      <3> HIDE DEF s
      <3>1. Precedes(s[i], s[k])
        BY <2>1, OrderOfGroups
      <3>2. Late(s[i]) \in Int /\ Late(s[k]) \in Int
        BY <2>1, SortKeysAreNumbers
      <3>3. QED
        BY <3>1, <3>2 DEF Precedes
    <2>4. QED
      BY <2>2, <2>3 DEF Late
  <1> HIDE DEF s, n
  <1>5. s \in Seq(G) /\ Len(s) = n
    BY <1>2
  <1>6. QED
    BY <1>2, <1>3, <1>4, <1>5 DEF IsSorted

-----------------------------------------------------------------------------
(* The cap *)

\* No other finding has the identity of f.
Alone(f) == Twins(f) = {f}

\* A plan before its names are told apart.
IsShort(r, F, how, id, max) ==
  /\ DOMAIN r = 1 .. Len(r) /\ Len(r) \in Nat /\ Len(r) <= max
  /\ \A i \in 1 .. Len(r) :
       \/ IsRaw(r[i], F, how, id)
       \/ /\ \E rest \in SUBSET F : r[i] = Batch(rest)
          /\ i = Len(r)
          /\ _is_priority(r[i]) => i = max
  /\ \A f \in F : \E i \in 1 .. Len(r) : f \in r[i].findings
  /\ \A i, k \in 1 .. Len(r) : i < k =>
       /\ r[i].findings \intersect r[k].findings = {}
       /\ _is_priority(r[k]) => _is_priority(r[i])

\* Two groups of a strategy have no finding in common.
LEMMA RawGroupsApart ==
  ASSUME NEW F, NEW how, NEW id, NEW G,
         \A g \in G : IsRaw(g, F, how, id),
         \A g, h \in G : g.key = h.key => g = h,
         NEW s, IsSorted(s, G),
         NEW i \in 1 .. Len(s), NEW k \in 1 .. Len(s), i < k
  PROVE  s[i].findings \intersect s[k].findings = {}
  <1>1. s[i] \in G /\ s[k] \in G /\ s[i] # s[k]
    BY DEF IsSorted
  <1>2. s[i].key # s[k].key
    BY <1>1
  <1>3. IsRaw(s[i], F, how, id) /\ IsRaw(s[k], F, how, id)
    BY <1>1
  <1>4. QED
    BY <1>2, <1>3 DEF IsRaw

LEMMA UncappedPlan ==
  ASSUME NEW F, NEW how, NEW id, NEW G, NEW max,
         \A g \in G : IsRaw(g, F, how, id),
         \A g, h \in G : g.key = h.key => g = h,
         \A f \in F : \E g \in G : f \in g.findings,
         NEW s, IsSorted(s, G), Len(s) <= max
  PROVE  IsShort(s, F, how, id, max)
  <1>1. DOMAIN s = 1 .. Len(s) /\ Len(s) \in Nat /\ \A i \in 1 .. Len(s) : s[i] \in G
    BY DEF IsSorted
  <1>2. \A f \in F : \E i \in 1 .. Len(s) : f \in s[i].findings
    BY DEF IsSorted
  <1>3. \A i, k \in 1 .. Len(s) : i < k => (_is_priority(s[k]) => _is_priority(s[i]))
    BY DEF IsSorted
  <1>4. \A i, k \in 1 .. Len(s) : i < k => s[i].findings \intersect s[k].findings = {}
    BY RawGroupsApart
  <1>5. QED
    BY <1>1, <1>2, <1>3, <1>4 DEF IsShort

\* A set of places that has all that come before each of them is an initial segment.
LEMMA InitialSegment ==
  ASSUME NEW n \in Nat, NEW P \in SUBSET (1 .. n),
         \A i \in P : \A k \in 1 .. n : k < i => k \in P
  PROVE  P = 1 .. Cardinality(P) /\ Cardinality(P) \in 0 .. n
  <1>1. /\ IsFiniteSet(P) /\ IsFiniteSet(1 .. n) /\ Cardinality(1 .. n) = n
        /\ Cardinality(P) <= n /\ Cardinality(P) \in Nat
    <2>1. IsFiniteSet(1 .. n) /\ Cardinality(1 .. n) = n
      BY FS_Interval
    <2>2. QED
      BY <2>1, FS_Subset, FS_CardinalityType
  <1>2. P \subseteq 1 .. Cardinality(P)
    <2>1. SUFFICES ASSUME NEW i \in P PROVE i <= Cardinality(P)
      BY <1>1
    <2>2. 1 .. i \in SUBSET P
      OBVIOUS
    <2>3. Cardinality(1 .. i) <= Cardinality(P)
      BY <1>1, <2>2, FS_Subset
    <2>4. Cardinality(1 .. i) = i
      BY FS_Interval
    <2>5. QED
      BY <2>3, <2>4
  <1>3. /\ IsFiniteSet(1 .. Cardinality(P))
        /\ Cardinality(1 .. Cardinality(P)) = Cardinality(P)
    BY <1>1, FS_Interval
  <1>4. P = 1 .. Cardinality(P)
    BY <1>2, <1>3, FS_Subset
  <1>5. QED
    BY <1>1, <1>4

\* How many groups _apply_cap keeps: the urgent ones, up to one less than the limit.
NumKept(s, max) ==
  LET priority == Cardinality({i \in DOMAIN s : _is_priority(s[i])})
  IN IF priority < max THEN priority ELSE max - 1

LEMMA KeptGroups ==
  ASSUME NEW G, NEW s, IsSorted(s, G), NEW max \in Nat \ {0}, Len(s) > max
  PROVE  /\ NumKept(s, max) \in 0 .. max - 1
         /\ \A i \in 1 .. NumKept(s, max) : _is_priority(s[i])
         /\ NumKept(s, max) # max - 1 =>
              \A i \in NumKept(s, max) + 1 .. Len(s) : ~ _is_priority(s[i])
  <1> DEFINE P == {i \in DOMAIN s : _is_priority(s[i])}
             p == Cardinality(P)
  <1>1. DOMAIN s = 1 .. Len(s) /\ Len(s) \in Nat
    BY DEF IsSorted
  <1>2. P = 1 .. p /\ p \in 0 .. Len(s)
    <2>1. P \in SUBSET (1 .. Len(s))
      BY <1>1
    <2>2. \A i \in P : \A k \in 1 .. Len(s) : k < i => k \in P
      BY <1>1 DEF IsSorted
    <2> HIDE DEF P
    <2>3. QED
      BY <1>1, <2>1, <2>2, InitialSegment
  <1>3. NumKept(s, max) = IF p < max THEN p ELSE max - 1
    BY DEF NumKept
  <1>4. \A i \in 1 .. Len(s) : _is_priority(s[i]) <=> i \in 1 .. p
    BY <1>1, <1>2
  <1> HIDE DEF p
  <1>5. NumKept(s, max) \in 0 .. max - 1
    BY <1>2, <1>3
  <1>6. \A i \in 1 .. NumKept(s, max) : i \in 1 .. p /\ i \in 1 .. Len(s)
    BY <1>2, <1>3
  <1>7. ASSUME NumKept(s, max) # max - 1, NEW i \in NumKept(s, max) + 1 .. Len(s)
        PROVE  i \in 1 .. Len(s) /\ i \notin 1 .. p
    BY <1>2, <1>3, <1>7
  <1>8. QED
    BY <1>4, <1>5, <1>6, <1>7

LEMMA CappedPlan ==
  ASSUME NEW F, NEW how, NEW id, NEW G, NEW max \in Nat \ {0},
         \A g \in G : IsRaw(g, F, how, id),
         \A g, h \in G : g.key = h.key => g = h,
         \A f \in F : \E g \in G : f \in g.findings,
         NEW s, IsSorted(s, G), Len(s) > max
  PROVE  IsShort(_apply_cap(s, max), F, how, id, max)
  <1> DEFINE K == NumKept(s, max)
             kept == SubSeq(s, 1, K)
             rest == UNION {s[i].findings : i \in K + 1 .. Len(s)}
             r == Append(kept, Batch(rest))
  <1>1. s \in Seq(G) /\ DOMAIN s = 1 .. Len(s) /\ Len(s) \in Nat
        /\ \A i \in 1 .. Len(s) : s[i] \in G
    BY DEF IsSorted
  <1>2. K \in 0 .. max - 1 /\ K < Len(s)
    BY <1>1, KeptGroups
  <1>3. /\ kept \in Seq(G) /\ Len(kept) = K
        /\ \A i \in 1 .. K : kept[i] = s[i]
    <2> HIDE DEF K
    <2>1. QED
      BY <1>1, <1>2
  <1>4. _apply_cap(s, max) = r
    <2>1. Kept(s, max) = kept
      BY DEF Kept, NumKept
    <2>2. _apply_cap(s, max) = Append(kept, Batch(Left(s, Len(kept) + 1)))
      BY <2>1 DEF _apply_cap
    <2>3. Left(s, Len(kept) + 1) = rest
      <3> HIDE DEF K
      <3>1. QED
        BY <1>3 DEF Left
    <2>4. QED
      BY <2>2, <2>3
  <1>5. /\ DOMAIN r = 1 .. K + 1 /\ Len(r) = K + 1
        /\ r[K + 1] = Batch(rest)
        /\ \A i \in 1 .. K : r[i] = s[i]
    <2> HIDE DEF K, rest, kept
    <2>1. kept \in Seq(G \union {Batch(rest)}) /\ Len(kept) \in Nat
      BY <1>2, <1>3
    <2>2. QED
      BY <1>2, <1>3, <2>1
  <1>6. rest \in SUBSET F
    <2>1. \A i \in K + 1 .. Len(s) : s[i].findings \subseteq F
      BY <1>1, <1>2 DEF IsRaw
    <2>2. QED
      BY <2>1
  <1> HIDE DEF kept, r
  <1>7. ASSUME _is_priority(r[K + 1])
        PROVE  K + 1 = max
    <2>1. PICK f \in rest : Priority(f)
      BY <1>5, <1>7 DEF _is_priority, HasPriority, Batch
    <2>2. PICK i \in K + 1 .. Len(s) : f \in s[i].findings
      BY <2>1
    <2>3. _is_priority(s[i])
      BY <2>1, <2>2 DEF _is_priority, HasPriority
    <2>4. K = max - 1
      BY <2>3, KeptGroups
    <2>5. QED
      BY <2>4
  <1>8. ASSUME NEW f \in F
        PROVE  \E i \in 1 .. K + 1 : f \in r[i].findings
    <2>1. PICK g \in G : f \in g.findings
      OBVIOUS
    <2>2. PICK i \in 1 .. Len(s) : s[i] = g
      BY DEF IsSorted
    <2>3. CASE i <= K
      BY <1>2, <1>5, <2>1, <2>2, <2>3
    <2>4. CASE i > K
      <3>1. i \in K + 1 .. Len(s)
        BY <1>1, <1>2, <2>4
      <3>2. f \in rest
        BY <3>1, <2>1, <2>2
      <3>3. f \in r[K + 1].findings /\ K + 1 \in 1 .. K + 1
        BY <1>2, <1>5, <3>2 DEF Batch
      <3>4. QED
        BY <3>3
    <2>5. QED
      BY <1>1, <1>2, <2>3, <2>4
  <1>9. ASSUME NEW i \in 1 .. K + 1, NEW k \in 1 .. K + 1, i < k
        PROVE  r[i].findings \intersect r[k].findings = {} /\ _is_priority(r[i])
    <2>1. i \in 1 .. K /\ i \in 1 .. Len(s) /\ r[i] = s[i]
      BY <1>1, <1>2, <1>5, <1>9
    <2>2. _is_priority(r[i])
      BY <2>1, KeptGroups
    <2>3. CASE k \in 1 .. K
      <3>1. k \in 1 .. Len(s) /\ r[k] = s[k]
        BY <1>1, <1>2, <1>5, <2>3
      <3>2. s[i].findings \intersect s[k].findings = {}
        BY <1>9, <2>1, <3>1, RawGroupsApart
      <3>3. QED
        BY <2>1, <2>2, <3>1, <3>2
    <2>4. CASE k = K + 1
      <3>1. ASSUME NEW f, f \in s[i].findings, f \in rest
            PROVE  FALSE
        <4>1. PICK j \in K + 1 .. Len(s) : f \in s[j].findings
          BY <3>1
        <4>2. j \in 1 .. Len(s) /\ i < j
          BY <1>1, <1>2, <2>1
        <4>3. s[i].findings \intersect s[j].findings = {}
          BY <2>1, <4>2, RawGroupsApart
        <4>4. QED
          BY <3>1, <4>1, <4>3
      <3>2. r[k].findings = rest
        BY <1>5, <2>4 DEF Batch
      <3>3. QED
        BY <2>1, <2>2, <3>1, <3>2
    <2>5. QED
      BY <1>2, <2>3, <2>4
  <1>10. \A i \in 1 .. K + 1 : IsRaw(r[i], F, how, id) \/ (r[i] = Batch(rest) /\ i = K + 1)
    BY <1>1, <1>2, <1>5
  <1>11. K + 1 \in Nat /\ K + 1 <= max
    BY <1>2
  <1>12. IsShort(r, F, how, id, max)
    <2> HIDE DEF K, rest
    <2>1. QED
      BY <1>5, <1>6, <1>7, <1>8, <1>9, <1>10, <1>11 DEF IsShort
  <1>13. QED
    BY <1>4, <1>12

-----------------------------------------------------------------------------
(* Names told apart *)

Earlier(r, i) == {k \in 1 .. i - 1 : r[k].suffix = r[i].suffix}

\* The suffix of a group when earlier ones have the same root.
Numbered(suffix, root, earlier) ==
  suffix = IF earlier = {} THEN <<root>> ELSE <<root, Cardinality(earlier) + 1>>

\* A group of a plan whose names have not been told apart.
IsNamed(g) ==
  /\ g = [key |-> g.key, findings |-> g.findings, suffix |-> g.suffix,
          batch |-> g.batch, urgent |-> g.urgent]
  /\ \E x : g.suffix = <<x>>

\* A group has one root, and one that is not a batch is marked as such.
LEMMA ShortGroup ==
  ASSUME NEW F, NEW how \in VALID_STRATEGIES, NEW id, NEW max, NEW r,
         IsShort(r, F, how, id, max), NEW i \in 1 .. Len(r)
  PROVE  /\ IsNamed(r[i])
         /\ r[i].findings \subseteq F
         /\ IF r[i].batch
              THEN /\ i = Len(r) /\ r[i].urgent = _is_priority(r[i])
                   /\ _is_priority(r[i]) => i = max
                   /\ \A f \in Findings : r[i].suffix[1] # Root(how, f)
              ELSE IsRaw(r[i], F, how, id)
  <1>1. CASE IsRaw(r[i], F, how, id)
    <2>1. PICK f \in r[i].findings : r[i].suffix = <<Root(how, f)>>
      BY <1>1 DEF IsRaw
    <2>2. r[i].batch = FALSE /\ r[i].urgent = FALSE
      BY <1>1 DEF IsRaw
    <2>3. r[i].findings \subseteq F
      BY <1>1 DEF IsRaw
    <2>4. IsNamed(r[i])
      BY <1>1, <2>1 DEF IsRaw, IsNamed
    <2>5. QED
      BY <1>1, <2>2, <2>3, <2>4
  <1>2. CASE ~ IsRaw(r[i], F, how, id)
    <2>1. PICK rest \in SUBSET F : r[i] = Batch(rest)
      BY <1>2 DEF IsShort
    <2>2. i = Len(r) /\ (_is_priority(r[i]) => i = max)
      BY <1>2 DEF IsShort
    <2>3. r[i].batch = TRUE /\ r[i].findings = rest
      BY <2>1 DEF Batch
    <2>4. r[i].urgent = _is_priority(r[i])
      BY <2>1, <2>3 DEF Batch, _is_priority
    <2>5. r[i].suffix[1][1] \notin VALID_STRATEGIES
      BY <2>1 DEF Batch, VALID_STRATEGIES
    <2>6. ASSUME NEW f \in Findings
          PROVE  r[i].suffix[1] # Root(how, f)
      BY <2>5 DEF Root
    <2>7. IsNamed(r[i])
      BY <2>1 DEF Batch, IsNamed
    <2>8. QED
      BY <2>2, <2>3, <2>4, <2>6, <2>7
  <1>3. QED
    BY <1>1, <1>2

LEMMA AppendToOne ==
  ASSUME NEW x, NEW n
  PROVE  Append(<<x>>, n) = <<x, n>>
  <1> DEFINE S == {x, n}
             s == Append(<<x>>, n)
             t == <<x, n>>
  <1>1. <<x>> \in Seq(S) /\ Len(<<x>>) = 1 /\ n \in S
    OBVIOUS
  <1>2. s \in Seq(S) /\ Len(s) = 2 /\ s[1] = x /\ s[2] = n
    <2> HIDE DEF S
    <2>1. QED
      BY <1>1
  <1>3. t \in Seq(S) /\ Len(t) = 2 /\ t[1] = x /\ t[2] = n
    OBVIOUS
  <1> HIDE DEF S, s, t
  <1>4. DOMAIN s = {1, 2} /\ DOMAIN t = {1, 2}
    BY <1>2, <1>3
  <1>5. s = t
    BY <1>2, <1>3, <1>4
  <1>6. QED
    BY <1>5 DEF s, t

\* Only the suffix changes, and it keeps its root.
LEMMA DedupedGroup ==
  ASSUME NEW F, NEW how \in VALID_STRATEGIES, NEW id, NEW max, NEW r,
         IsShort(r, F, how, id, max), NEW i \in 1 .. Len(r)
  PROVE  /\ _dedupe_branch_suffixes(r)[i].findings = r[i].findings
         /\ _dedupe_branch_suffixes(r)[i].batch = r[i].batch
         /\ _dedupe_branch_suffixes(r)[i].urgent = r[i].urgent
         /\ Numbered(_dedupe_branch_suffixes(r)[i].suffix, r[i].suffix[1], Earlier(r, i))
         /\ _dedupe_branch_suffixes(r)[i].suffix[1] = r[i].suffix[1]
  <1> DEFINE g == _dedupe_branch_suffixes(r)[i]
             n == Cardinality(Earlier(r, i)) + 1
  <1>1. i \in DOMAIN r
    BY DEF IsShort
  <1>2. IsNamed(r[i])
    BY ShortGroup
  <1>2a. PICK x : r[i].suffix = <<x>>
    BY <1>2 DEF IsNamed
  <1>2b. r[i].suffix = <<r[i].suffix[1]>>
    BY <1>2a
  <1>3. g = IF Earlier(r, i) = {} THEN r[i]
            ELSE [r[i] EXCEPT !.suffix = Append(r[i].suffix, n)]
    BY <1>1 DEF _dedupe_branch_suffixes, Earlier
  <1>4. CASE Earlier(r, i) = {}
    BY <1>2b, <1>3, <1>4 DEF Numbered
  <1>5. CASE Earlier(r, i) # {}
    <2>1. g = [r[i] EXCEPT !.suffix = Append(r[i].suffix, n)]
      BY <1>3, <1>5
    <2>2. g = [key |-> r[i].key, findings |-> r[i].findings,
               suffix |-> Append(r[i].suffix, n),
               batch |-> r[i].batch, urgent |-> r[i].urgent]
      <3> DEFINE v == Append(r[i].suffix, n)
      <3>1. g = [r[i] EXCEPT !.suffix = v]
        BY <2>1
      <3> HIDE DEF v, g, n
      <3>2. g = [key |-> r[i].key, findings |-> r[i].findings, suffix |-> v,
                 batch |-> r[i].batch, urgent |-> r[i].urgent]
        BY <1>2, <3>1 DEF IsNamed
      <3>3. QED
        BY <3>2 DEF v
    <2>3. Append(r[i].suffix, n) = <<r[i].suffix[1], n>>
      <3> HIDE DEF n
      <3>1. Append(<<x>>, n) = <<x, n>>
        BY AppendToOne
      <3>2. r[i].suffix[1] = x
        BY <1>2a
      <3>3. QED
        BY <1>2a, <3>1, <3>2
    <2> HIDE DEF g, n
    <2>4. /\ g.findings = r[i].findings /\ g.batch = r[i].batch /\ g.urgent = r[i].urgent
          /\ g.suffix = <<r[i].suffix[1], n>>
      BY <2>2, <2>3
    <2>5. g.suffix[1] = r[i].suffix[1]
      BY <2>4
    <2>6. QED
      BY <1>5, <2>4, <2>5 DEF g, n, Numbered
  <1>6. QED
    BY <1>4, <1>5

\* Two groups with one root have different numbers.
LEMMA DedupedApart ==
  ASSUME NEW F, NEW how \in VALID_STRATEGIES, NEW id, NEW max, NEW r,
         IsShort(r, F, how, id, max),
         NEW i \in 1 .. Len(r), NEW k \in 1 .. Len(r), i < k
  PROVE  _dedupe_branch_suffixes(r)[i].suffix # _dedupe_branch_suffixes(r)[k].suffix
  <1> DEFINE a == _dedupe_branch_suffixes(r)[i].suffix
             b == _dedupe_branch_suffixes(r)[k].suffix
             I == Earlier(r, i)
             N == Earlier(r, k)
  <1>0. /\ Numbered(a, r[i].suffix[1], I) /\ Numbered(b, r[k].suffix[1], N)
        /\ a[1] = r[i].suffix[1] /\ b[1] = r[k].suffix[1]
    BY DedupedGroup
  <1>1. /\ a = IF I = {} THEN <<r[i].suffix[1]>> ELSE <<r[i].suffix[1], Cardinality(I) + 1>>
        /\ b = IF N = {} THEN <<r[k].suffix[1]>> ELSE <<r[k].suffix[1], Cardinality(N) + 1>>
        /\ a[1] = r[i].suffix[1] /\ b[1] = r[k].suffix[1]
    BY <1>0 DEF Numbered
  <1>2. SUFFICES ASSUME a = b PROVE FALSE
    OBVIOUS
  <1>3. r[i].suffix = r[k].suffix
    <2>1. r[i].suffix[1] = r[k].suffix[1]
      BY <1>1, <1>2
    <2>2. r[i].suffix = <<r[i].suffix[1]>> /\ r[k].suffix = <<r[k].suffix[1]>>
      <3>1. IsNamed(r[i]) /\ IsNamed(r[k])
        BY ShortGroup
      <3>2. (\E x : r[i].suffix = <<x>>) /\ (\E x : r[k].suffix = <<x>>)
        BY <3>1 DEF IsNamed
      <3>3. QED
        BY <3>2
    <2>3. QED
      BY <2>1, <2>2
  <1>4. i \in Int /\ k \in Int
    <2>1. Len(r) \in Nat
      BY DEF IsShort
    <2>2. QED
      BY <2>1
  <1>5. I \subseteq N /\ i \in N /\ i \notin I
    BY <1>3, <1>4 DEF Earlier
  <1>6. IsFiniteSet(N) /\ I \in SUBSET N /\ IsFiniteSet(I)
    <2>1. IsFiniteSet(1 .. k - 1)
      BY <1>4, FS_Interval
    <2>2. IsFiniteSet(N)
      BY <2>1, FS_Subset DEF Earlier
    <2>3. QED
      BY <1>5, <2>2, FS_Subset
  <1>7. Cardinality(I) # Cardinality(N) /\ Cardinality(I) \in Nat /\ Cardinality(N) \in Nat
    BY <1>5, <1>6, FS_Subset, FS_CardinalityType
  <1> HIDE DEF a, b, I, N
  <1>8. CASE I = {}
    <2>1. Len(a) = 1 /\ Len(b) = 2
      BY <1>1, <1>5, <1>8
    <2>2. QED
      BY <1>2, <2>1
  <1>9. CASE I # {}
    <2>1. a[2] = Cardinality(I) + 1 /\ b[2] = Cardinality(N) + 1
      BY <1>1, <1>5, <1>9
    <2>2. QED
      BY <1>2, <1>7, <2>1
  <1>10. QED
    BY <1>8, <1>9

\* A finding that no other is like gives its name to one group at most.
LEMMA OneGroupOfItsName ==
  ASSUME NEW F \in SUBSET Findings, NEW how \in VALID_STRATEGIES, NEW id, NEW max, NEW r,
         IsShort(r, F, how, id, max), NEW f \in Findings, Alone(f),
         NEW i \in 1 .. Len(r), NEW k \in 1 .. Len(r),
         r[i].suffix[1] = Root(how, f), r[k].suffix[1] = Root(how, f)
  PROVE  i = k
  <1>1. ASSUME NEW a \in 1 .. Len(r), NEW b \in 1 .. Len(r), a < b,
               r[a].suffix[1] = Root(how, f), r[b].suffix[1] = Root(how, f)
        PROVE  FALSE
    <2>1. IsRaw(r[a], F, how, id) /\ IsRaw(r[b], F, how, id)
      BY <1>1, ShortGroup
    <2>2. PICK x \in r[a].findings, y \in r[b].findings : TRUE
      BY <2>1 DEF IsRaw
    <2>3. x \in F /\ y \in F /\ x \in Findings /\ y \in Findings
      BY <2>1, <2>2 DEF IsRaw
    <2>4. Root(how, x) = Root(how, f) /\ Root(how, y) = Root(how, f)
      <3>1. r[a].suffix = <<Root(how, x)>> /\ r[b].suffix = <<Root(how, y)>>
        BY <2>1, <2>2 DEF IsRaw
      <3>2. QED
        BY <1>1, <3>1
    <2>5. r[a].findings \intersect r[b].findings = {}
      BY <1>1 DEF IsShort
    <2>6. CASE how = "per-finding"
      <3>1. /\ _finding_identity(x) = _finding_identity(f)
            /\ _finding_identity(y) = _finding_identity(f)
        BY <2>4, <2>6 DEF Root
      <3>2. x = f /\ y = f
        BY <2>3, <3>1 DEF Alone, Twins
      <3>3. QED
        BY <2>2, <2>5, <3>2
    <2>7. CASE how # "per-finding"
      <3>1. Key(how, id, x) = Key(how, id, y)
        BY <2>4, <2>7, RootDecidesKey
      <3>2. x \in r[b].findings
        BY <2>1, <2>2, <2>3, <3>1 DEF IsRaw
      <3>3. QED
        BY <2>2, <2>5, <3>2
    <2>8. QED
      BY <2>6, <2>7
  <1>2. Len(r) \in Nat
    BY DEF IsShort
  <1>3. i \in Int /\ k \in Int
    BY <1>2
  <1>4. QED
    BY <1>1, <1>3

-----------------------------------------------------------------------------
(* What group_findings returns *)

\* A suffix is a root, with a number when it is not the first.
IsName(s) == \E x, n : s = <<x>> \/ s = <<x, n>>

IsPlan(p, F, how, max) ==
  /\ DOMAIN p = 1 .. Len(p) /\ Len(p) \in Nat /\ Len(p) <= max /\ (Len(p) = 0 => p = <<>>)
  /\ \A i \in 1 .. Len(p) :
       /\ p[i].findings \subseteq F /\ IsName(p[i].suffix)
       /\ IF p[i].batch
            THEN /\ i = Len(p) /\ p[i].urgent = _is_priority(p[i])
                 /\ _is_priority(p[i]) => i = max
                 /\ \A f \in Findings : p[i].suffix[1] # Root(how, f)
            ELSE \A f \in p[i].findings : p[i].suffix[1] = Root(how, f)
  /\ \A f \in F : \E i \in 1 .. Len(p) : f \in p[i].findings
  /\ \A i, k \in 1 .. Len(p) : i < k =>
       /\ p[i].findings \intersect p[k].findings = {}
       /\ p[i].suffix # p[k].suffix
       /\ _is_priority(p[k]) => _is_priority(p[i])
  /\ \A f \in Findings : Alone(f) =>
       \A i \in 1 .. Len(p) : p[i].suffix[1] = Root(how, f) =>
         /\ p[i].suffix = <<Root(how, f)>>
         /\ \A k \in 1 .. Len(p) : p[k].suffix[1] = Root(how, f) => k = i

LEMMA DedupedPlan ==
  ASSUME NEW F \in SUBSET Findings, NEW how \in VALID_STRATEGIES, NEW id, NEW max, NEW r,
         IsShort(r, F, how, id, max)
  PROVE  IsPlan(_dedupe_branch_suffixes(r), F, how, max)
  <1> DEFINE p == _dedupe_branch_suffixes(r)
             n == Len(r)
  <1>1. DOMAIN p = 1 .. n /\ p = [i \in 1 .. n |-> p[i]] /\ n \in Nat /\ n <= max
    BY DEF _dedupe_branch_suffixes, IsShort
  <1>2. Len(p) = n /\ (n = 0 => p = <<>>)
    <2> HIDE DEF p, n
    <2> DEFINE S == {p[i] : i \in 1 .. n}
    <2>1. p \in [1 .. n -> S]
      BY <1>1
    <2> HIDE DEF S
    <2>2. QED
      BY <1>1, <2>1
  <1>3. ASSUME NEW i \in 1 .. n
        PROVE  /\ p[i].findings = r[i].findings /\ p[i].batch = r[i].batch
               /\ p[i].urgent = r[i].urgent /\ p[i].suffix[1] = r[i].suffix[1]
               /\ Earlier(r, i) = {} => p[i].suffix = <<r[i].suffix[1]>>
               /\ _is_priority(p[i]) = _is_priority(r[i]) /\ IsName(p[i].suffix)
    <2>1. /\ p[i].findings = r[i].findings
          /\ Numbered(p[i].suffix, r[i].suffix[1], Earlier(r, i))
      BY DedupedGroup
    <2>2. _is_priority(p[i]) = _is_priority(r[i])
      BY <2>1, Zenon DEF _is_priority
    <2>3. Earlier(r, i) = {} => p[i].suffix = <<r[i].suffix[1]>>
      BY <2>1 DEF Numbered
    <2>4. IsName(p[i].suffix)
      BY <2>1 DEF Numbered, IsName
    <2>5. QED
      BY <2>2, <2>3, <2>4, DedupedGroup
  <1>4. ASSUME NEW i \in 1 .. n
        PROVE  /\ p[i].findings \subseteq F /\ IsName(p[i].suffix)
               /\ IF p[i].batch
                    THEN /\ i = n /\ p[i].urgent = _is_priority(p[i])
                         /\ _is_priority(p[i]) => i = max
                         /\ \A f \in Findings : p[i].suffix[1] # Root(how, f)
                    ELSE \A f \in p[i].findings : p[i].suffix[1] = Root(how, f)
    <2>1. p[i].findings \subseteq F /\ IsName(p[i].suffix)
      BY <1>3, ShortGroup
    <2>2. CASE p[i].batch
      <3>1. /\ i = n /\ r[i].urgent = _is_priority(r[i])
            /\ _is_priority(r[i]) => i = max
            /\ \A f \in Findings : r[i].suffix[1] # Root(how, f)
        BY <1>3, <2>2, ShortGroup
      <3>2. QED
        BY <1>3, <2>1, <2>2, <3>1
    <2>3. CASE ~ p[i].batch
      <3>1. IsRaw(r[i], F, how, id)
        BY <1>3, <2>3, ShortGroup
      <3>2. \A f \in r[i].findings : r[i].suffix[1] = Root(how, f)
        BY <3>1 DEF IsRaw
      <3>3. QED
        BY <1>3, <2>1, <2>3, <3>2
    <2>4. QED
      BY <2>2, <2>3
  <1>5. ASSUME NEW f \in F
        PROVE  \E i \in 1 .. n : f \in p[i].findings
    <2>1. PICK i \in 1 .. n : f \in r[i].findings
      BY DEF IsShort
    <2>2. QED
      BY <1>3, <2>1
  <1>6. ASSUME NEW i \in 1 .. n, NEW k \in 1 .. n, i < k
        PROVE  /\ p[i].findings \intersect p[k].findings = {}
               /\ p[i].suffix # p[k].suffix
               /\ _is_priority(p[k]) => _is_priority(p[i])
    <2>1. p[i].suffix # p[k].suffix
      BY <1>6, DedupedApart
    <2>2. /\ r[i].findings \intersect r[k].findings = {}
          /\ _is_priority(r[k]) => _is_priority(r[i])
      BY <1>6 DEF IsShort
    <2>3. QED
      BY <1>3, <2>1, <2>2
  <1>7. ASSUME NEW f \in Findings, Alone(f), NEW i \in 1 .. n, p[i].suffix[1] = Root(how, f)
        PROVE  /\ p[i].suffix = <<Root(how, f)>>
               /\ \A k \in 1 .. n : p[k].suffix[1] = Root(how, f) => k = i
    <2>1. \A k \in 1 .. n : p[k].suffix[1] = Root(how, f) => k = i
      BY <1>3, <1>7, OneGroupOfItsName
    <2>2. Earlier(r, i) = {}
      <3>1. SUFFICES ASSUME NEW k \in Earlier(r, i) PROVE FALSE
        OBVIOUS
      <3>2. k \in 1 .. n /\ k # i /\ r[k].suffix[1] = r[i].suffix[1]
        BY <1>1 DEF Earlier
      <3>3. p[k].suffix[1] = Root(how, f)
        BY <1>3, <1>7, <3>2
      <3>4. QED
        BY <2>1, <3>2, <3>3
    <2>3. p[i].suffix = <<r[i].suffix[1]>> /\ r[i].suffix[1] = Root(how, f)
      BY <1>3, <1>7, <2>2
    <2>4. QED
      BY <2>1, <2>3
  <1> HIDE DEF p, n
  <1>8. QED
    BY <1>1, <1>2, <1>4, <1>5, <1>6, <1>7 DEF IsPlan, p

LEMMA Grouping ==
  ASSUME NEW F \in SUBSET Findings, NEW how \in VALID_STRATEGIES, NEW max \in Nat \ {0},
         NEW id \in IdOrders
  PROVE  IsPlan(group_findings(F, how, max, id), {f \in F : Located(f)}, how, max)
  <1> DEFINE L == {f \in F : Located(f)}
             G == _build_raw_groups(L, how, id)
             s == Ordered(G)
             r == IF Len(s) <= max THEN s ELSE _apply_cap(s, max)
  <1>1. L \in SUBSET Findings
    OBVIOUS
  <1> HIDE DEF L
  <1>2. /\ IsFiniteSet(G)
        /\ \A g \in G : IsRaw(g, L, how, id)
        /\ \A f \in L : \E g \in G : f \in g.findings
        /\ \A g, h \in G : g.key = h.key => g = h
    BY <1>1, RawGroups
  <1> HIDE DEF G
  <1>3. IsSorted(s, G)
    BY <1>1, <1>2, SortedGroups
  <1> HIDE DEF s
  <1>4. IsShort(r, L, how, id, max)
    <2>1. Len(s) \in Nat
      BY <1>3 DEF IsSorted
    <2>2. CASE Len(s) <= max
      BY <1>2, <1>3, <2>2, UncappedPlan
    <2>3. CASE Len(s) > max
      <3>1. r = _apply_cap(s, max)
        BY <2>1, <2>3
      <3>2. IsShort(_apply_cap(s, max), L, how, id, max)
        BY <1>2, <1>3, <2>3, CappedPlan
      <3>3. QED
        BY <3>1, <3>2
    <2>4. QED
      BY <2>1, <2>2, <2>3
  <1>5. group_findings(F, how, max, id) = _dedupe_branch_suffixes(r)
    BY DEF group_findings, L, G, s
  <1>6. QED
    BY <1>1, <1>4, <1>5, DedupedPlan DEF L

-----------------------------------------------------------------------------
(* The invariant *)

Candidate(root, i) == IF i = 1 THEN <<root>> ELSE <<root, i>>

PlanInv ==
  /\ strategy \in Strategies /\ max_prs \in Caps
  /\ found \subseteq Findings /\ scanned \subseteq Findings
  /\ IsPlan(plan, {f \in scanned : Located(f)}, strategy, max_prs)
  /\ plan # <<>> => at \in 1 .. Len(plan)

\* The names taken of a finding that no other is like: no gap, one open at most.
OneLine(f) ==
  /\ \A n \in DOMAIN prs : n[1] = Root(strategy, f) =>
       \E i \in 1 .. MAX_BRANCH_SUFFIX :
         /\ n = Candidate(Root(strategy, f), i)
         /\ \A l \in 1 .. i - 1 : Candidate(Root(strategy, f), l) \in DOMAIN prs
  /\ \A n, m \in DOMAIN prs :
       n[1] = Root(strategy, f) /\ m[1] = Root(strategy, f) /\ IsOpen(n) /\ IsOpen(m) => n = m

NamesInv ==
  /\ existing \subseteq DOMAIN prs
  /\ \A n \in DOMAIN prs : IsOpen(n) =>
       /\ prs[n].findings \subseteq Findings
       /\ ~ prs[n].batch => \A f \in prs[n].findings : n[1] = Root(strategy, f)
  /\ plan # <<>> =>
       \A n \in DOMAIN prs \ existing : \E k \in 1 .. at - 1 : n[1] = plan[k].suffix[1]
  /\ \A f \in Findings : Alone(f) => OneLine(f)

GroupingInv == PlanInv /\ NamesInv

LEMMA Constants ==
  /\ Strategies \subseteq VALID_STRATEGIES /\ Caps \subseteq Nat \ {0}
  /\ MAX_BRANCH_SUFFIX \in Nat \ {0} /\ Known \subseteq Findings
  BY GroupingAssumption

LEMMA InitInv ==
  ASSUME Init
  PROVE  GroupingInv
  <1>1. IsPlan(plan, {f \in scanned : Located(f)}, strategy, max_prs)
    <2>1. plan = <<>> /\ {f \in scanned : Located(f)} = {}
      BY DEF Init
    <2>2. Len(plan) = 0 /\ DOMAIN plan = 1 .. 0 /\ 1 .. 0 = {} /\ max_prs \in Nat
      BY <2>1, Constants DEF Init
    <2>3. QED
      BY <2>1, <2>2 DEF IsPlan
  <1>2. PlanInv
    BY <1>1, Constants DEF Init, PlanInv
  <1>3. NamesInv
    BY DEF Init, NamesInv, OneLine
  <1>4. QED
    BY <1>2, <1>3 DEF GroupingInv

\* What a run plans.
LEMMA StartPlan ==
  ASSUME GroupingInv, Start
  PROVE  IsPlan(plan', {f \in found : Located(f)}, strategy, max_prs)
  <1>1. PICK id \in IdOrders : plan' = group_findings(found, strategy, max_prs, id)
    BY DEF Start, Plans
  <1>2. strategy \in VALID_STRATEGIES /\ max_prs \in Nat \ {0} /\ found \in SUBSET Findings
    BY Constants DEF GroupingInv, PlanInv
  <1>3. QED
    BY <1>1, <1>2, Grouping

LEMMA StartInv ==
  ASSUME GroupingInv, Start
  PROVE  GroupingInv'
  <1>1. UNCHANGED <<strategy, max_prs, found, prs>> /\ scanned' = found
        /\ existing' = DOMAIN prs /\ at' = 1
    BY DEF Start, user
  <1>2. IsPlan(plan', {f \in scanned' : Located(f)}, strategy', max_prs')
    BY <1>1, StartPlan
  <1>3. plan' # <<>> => at' \in 1 .. Len(plan')
    <2>1. Len(plan') \in Nat /\ (Len(plan') = 0 => plan' = <<>>)
      BY <1>2 DEF IsPlan
    <2>2. QED
      BY <1>1, <2>1
  <1>4. PlanInv'
    BY <1>1, <1>2, <1>3 DEF GroupingInv, PlanInv
  <1>5. ASSUME NEW f \in Findings, Alone(f)
        PROVE  OneLine(f)'
    BY <1>1, <1>5 DEF GroupingInv, NamesInv, OneLine, IsOpen
  <1>6. NamesInv'
    BY <1>1, <1>5 DEF GroupingInv, NamesInv, IsOpen
  <1>7. QED
    BY <1>4, <1>6 DEF GroupingInv

\* A pull request is merged or closed, and its name stays.
LEMMA SettleInv ==
  ASSUME GroupingInv, NEW name \in DOMAIN prs, prs' = [prs EXCEPT ![name] = Settled],
         found' \subseteq found, UNCHANGED <<strategy, max_prs, scanned, plan, existing, at>>
  PROVE  GroupingInv'
  <1>1. /\ DOMAIN prs' = DOMAIN prs
        /\ \A n \in DOMAIN prs : IsOpen(n)' => IsOpen(n) /\ prs'[n] = prs[n]
    BY DEF IsOpen
  <1>2. PlanInv'
    BY DEF GroupingInv, PlanInv
  <1>3. ASSUME NEW f \in Findings, Alone(f)
        PROVE  OneLine(f)'
    BY <1>1, <1>3 DEF GroupingInv, NamesInv, OneLine
  <1>4. \A n \in DOMAIN prs : IsOpen(n)' =>
          /\ prs'[n].findings \subseteq Findings
          /\ ~ prs'[n].batch => \A f \in prs'[n].findings : n[1] = Root(strategy, f)
    BY <1>1 DEF GroupingInv, NamesInv
  <1>5. /\ existing' \subseteq DOMAIN prs'
        /\ plan' # <<>> =>
             \A n \in DOMAIN prs' \ existing' : \E k \in 1 .. at' - 1 : n[1] = plan'[k].suffix[1]
    BY <1>1 DEF GroupingInv, NamesInv
  <1>6. NamesInv'
    BY <1>1, <1>3, <1>4, <1>5 DEF NamesInv
  <1>7. QED
    BY <1>2, <1>6 DEF GroupingInv

-----------------------------------------------------------------------------
(* The choice of a name *)

LEMMA AppendToTwo ==
  ASSUME NEW x, NEW n, NEW k
  PROVE  Append(<<x, n>>, k)[1] = x
  <1> DEFINE S == {x, n, k}
  <1>1. <<x, n>> \in Seq(S) /\ Len(<<x, n>>) = 2 /\ k \in S
    OBVIOUS
  <1> HIDE DEF S
  <1>2. Append(<<x, n>>, k)[1] = <<x, n>>[1]
    BY <1>1
  <1>3. QED
    BY <1>2

\* The names tried for a group, in turn.
LEMMA Candidates ==
  ASSUME NEW g
  PROVE  /\ DOMAIN _candidate_branches(g) = 1 .. MAX_BRANCH_SUFFIX
         /\ \A i \in 1 .. MAX_BRANCH_SUFFIX :
              _candidate_branches(g)[i] = IF i = 1 THEN g.suffix ELSE Append(g.suffix, i)
  <1> DEFINE M == MAX_BRANCH_SUFFIX
             tail == [n \in 1 .. M - 1 |-> Append(g.suffix, n + 1)]
             S == {g.suffix} \union {Append(g.suffix, n + 1) : n \in 1 .. M - 1}
  <1>1. M \in Nat \ {0}
    BY Constants
  <1>2. tail \in Seq(S) /\ Len(tail) = M - 1
    <2>1. tail \in [1 .. M - 1 -> S]
      OBVIOUS
    <2>2. M - 1 \in Nat
      BY <1>1
    <2> HIDE DEF tail, S, M
    <2>3. QED
      BY <2>1, <2>2
  <1>3. <<g.suffix>> \in Seq(S) /\ Len(<<g.suffix>>) = 1 /\ <<g.suffix>>[1] = g.suffix
    OBVIOUS
  <1>4. \A n \in 1 .. M - 1 : tail[n] = Append(g.suffix, n + 1)
    OBVIOUS
  <1>5. _candidate_branches(g) = <<g.suffix>> \o tail
    BY DEF _candidate_branches
  <1> DEFINE first == <<g.suffix>>
  <1>6. first \in Seq(S) /\ Len(first) = 1 /\ first[1] = g.suffix
    BY <1>3
  <1> HIDE DEF tail, S, M, first
  <1>7. DOMAIN (first \o tail) = 1 .. M
    <2>1. first \o tail \in Seq(S) /\ Len(first \o tail) = Len(first) + Len(tail)
      BY <1>2, <1>6, ConcatProperties
    <2>2. Len(first) + Len(tail) = M
      BY <1>1, <1>2, <1>6
    <2>3. QED
      BY <2>1, <2>2
  <1>8. ASSUME NEW i \in 1 .. M
        PROVE  (first \o tail)[i] = IF i = 1 THEN g.suffix ELSE Append(g.suffix, i)
    <2>0. (first \o tail)[i] = IF i <= 1 THEN first[i] ELSE tail[i - 1]
      <3>1. i \in 1 .. Len(first) + Len(tail)
        BY <1>1, <1>2, <1>6
      <3>2. (first \o tail)[i] = IF i <= Len(first) THEN first[i] ELSE tail[i - Len(first)]
        BY <1>2, <1>6, <3>1, ConcatProperties
      <3>3. QED
        BY <1>6, <3>2
    <2>1. CASE i = 1
      BY <1>6, <2>0, <2>1
    <2>2. CASE i # 1
      <3>1. (first \o tail)[i] = tail[i - 1] /\ i - 1 \in 1 .. M - 1
        BY <1>1, <2>0, <2>2
      <3>2. tail[i - 1] = Append(g.suffix, i - 1 + 1)
        BY <1>4, <3>1
      <3>3. i - 1 + 1 = i
        BY <1>1
      <3>4. QED
        BY <2>2, <3>1, <3>2, <3>3
    <2>3. QED
      BY <2>1, <2>2
  <1>9. QED
    BY <1>5, <1>7, <1>8 DEF M, first

\* All of them have the root of the group.
LEMMA ChosenName ==
  ASSUME NEW g, IsName(g.suffix), NEW name \in Deciding(g)
  PROVE  /\ name[1] = g.suffix[1] /\ Usable(name)
         /\ \A x : g.suffix = <<x>> =>
              \E i \in 1 .. MAX_BRANCH_SUFFIX :
                name = Candidate(x, i) /\ \A l \in 1 .. i - 1 : ~ Usable(Candidate(x, l))
  <1> DEFINE names == _candidate_branches(g)
  <1>1. PICK i \in DOMAIN names : /\ name = names[i] /\ Usable(names[i])
                                  /\ \A l \in 1 .. i - 1 : ~ Usable(names[l])
    BY DEF Deciding
  <1>2. i \in 1 .. MAX_BRANCH_SUFFIX /\ MAX_BRANCH_SUFFIX \in Nat
    BY Candidates, Constants
  <1>3. name = IF i = 1 THEN g.suffix ELSE Append(g.suffix, i)
    BY <1>1, <1>2, Candidates
  <1>4. name[1] = g.suffix[1]
    <2>1. PICK x, n : g.suffix = <<x>> \/ g.suffix = <<x, n>>
      BY DEF IsName
    <2>2. Append(<<x>>, i)[1] = x
      <3>1. Append(<<x>>, i) = <<x, i>>
        BY AppendToOne
      <3>2. QED
        BY <3>1
    <2>3. Append(<<x, n>>, i)[1] = x
      BY AppendToTwo
    <2>4. g.suffix[1] = x
      BY <2>1
    <2>5. QED
      BY <1>3, <2>1, <2>2, <2>3, <2>4
  <1>5. ASSUME NEW x, g.suffix = <<x>>, NEW l \in 1 .. MAX_BRANCH_SUFFIX
        PROVE  names[l] = Candidate(x, l)
    <2>1. Append(<<x>>, l) = <<x, l>>
      BY AppendToOne
    <2>2. QED
      BY <1>5, <2>1, Candidates DEF Candidate
  <1> HIDE DEF names
  <1>6. ASSUME NEW x, g.suffix = <<x>>
        PROVE  name = Candidate(x, i) /\ \A l \in 1 .. i - 1 : ~ Usable(Candidate(x, l))
    <2>1. name = Candidate(x, i)
      BY <1>1, <1>2, <1>5, <1>6
    <2>2. ASSUME NEW l \in 1 .. i - 1
          PROVE  ~ Usable(Candidate(x, l))
      <3>1. l \in 1 .. MAX_BRANCH_SUFFIX
        BY <1>2
      <3>2. QED
        BY <1>1, <1>5, <1>6, <3>1
    <2>3. QED
      BY <2>1, <2>2
  <1>7. QED
    BY <1>1, <1>2, <1>4, <1>6

\* The choice of Propose: at most one name is new, and it is one of the group's.
Opens(g, name) ==
  /\ name \in Deciding(g) \ existing
  /\ prs' = [n \in DOMAIN prs \union {name} |-> IF n = name THEN Opened(g) ELSE prs[n]]

\* A name is opened only if no one has it.
LEMMA OpenedIsNew ==
  ASSUME NEW g, NEW name, Opens(g, name), IsName(g.suffix)
  PROVE  /\ name \notin DOMAIN prs /\ DOMAIN prs' = DOMAIN prs \union {name}
         /\ prs'[name] = Opened(g) /\ \A n \in DOMAIN prs : prs'[n] = prs[n]
         /\ \A n \in DOMAIN prs : IsOpen(n)' <=> IsOpen(n)
  <1>1. name \notin existing /\ Usable(name)
    BY ChosenName DEF Opens
  <1>2. name \notin DOMAIN prs
    BY <1>1 DEF Usable
  <1>3. /\ DOMAIN prs' = DOMAIN prs \union {name}
        /\ prs'[name] = Opened(g) /\ \A n \in DOMAIN prs : prs'[n] = prs[n]
    BY <1>2 DEF Opens
  <1>4. QED
    BY <1>2, <1>3 DEF IsOpen

\* The group at hand: what the plan and the names say of it.
LEMMA GroupAtHand ==
  ASSUME GroupingInv, plan # <<>>
  PROVE  /\ at \in 1 .. Len(plan) /\ Len(plan) \in Nat
         /\ plan[at].findings \subseteq Findings /\ IsName(plan[at].suffix)
         /\ ~ plan[at].batch =>
              \A f \in plan[at].findings : plan[at].suffix[1] = Root(strategy, f)
         /\ \A f \in Findings : Alone(f) /\ plan[at].suffix[1] = Root(strategy, f) =>
              /\ plan[at].suffix = <<Root(strategy, f)>>
              /\ \A k \in 1 .. Len(plan) : plan[k].suffix[1] = Root(strategy, f) => k = at
  <1>1. at \in 1 .. Len(plan) /\ scanned \subseteq Findings
    BY DEF GroupingInv, PlanInv
  <1>2. IsPlan(plan, {f \in scanned : Located(f)}, strategy, max_prs)
    BY DEF GroupingInv, PlanInv
  <1>3. Len(plan) \in Nat /\ plan[at].findings \subseteq Findings /\ IsName(plan[at].suffix)
    BY <1>1, <1>2 DEF IsPlan
  <1>4. ~ plan[at].batch =>
          \A f \in plan[at].findings : plan[at].suffix[1] = Root(strategy, f)
    BY <1>1, <1>2 DEF IsPlan
  <1>5. \A f \in Findings : Alone(f) /\ plan[at].suffix[1] = Root(strategy, f) =>
          /\ plan[at].suffix = <<Root(strategy, f)>>
          /\ \A k \in 1 .. Len(plan) : plan[k].suffix[1] = Root(strategy, f) => k = at
    BY <1>1, <1>2 DEF IsPlan
  <1>6. QED
    BY <1>1, <1>3, <1>4, <1>5

\* A new pull request for a finding that no other is like is the only open one of its name.
LEMMA OpensInLine ==
  ASSUME GroupingInv, plan # <<>>, NEW name, Opens(plan[at], name), strategy' = strategy,
         NEW f \in Findings, Alone(f)
  PROVE  OneLine(f)'
  <1> DEFINE R == Root(strategy, f)
             g == plan[at]
  <1>1. /\ IsName(g.suffix) /\ at \in 1 .. Len(plan) /\ Len(plan) \in Nat
        /\ g.suffix[1] = R => /\ g.suffix = <<R>>
                              /\ \A k \in 1 .. Len(plan) : plan[k].suffix[1] = R => k = at
    BY GroupAtHand
  <1>2. /\ name \notin DOMAIN prs /\ DOMAIN prs' = DOMAIN prs \union {name}
        /\ \A n \in DOMAIN prs : IsOpen(n)' <=> IsOpen(n)
    BY <1>1, OpenedIsNew
  <1>3. /\ name[1] = g.suffix[1] /\ Usable(name)
        /\ g.suffix = <<R>> =>
             \E i \in 1 .. MAX_BRANCH_SUFFIX :
               name = Candidate(R, i) /\ \A l \in 1 .. i - 1 : ~ Usable(Candidate(R, l))
    BY <1>1, ChosenName DEF Opens
  <1>4. OneLine(f)
    BY DEF GroupingInv, NamesInv
  <1> HIDE DEF R, g
  <1>5. /\ \A n \in DOMAIN prs : n[1] = R =>
             \E i \in 1 .. MAX_BRANCH_SUFFIX :
               n = Candidate(R, i) /\ \A l \in 1 .. i - 1 : Candidate(R, l) \in DOMAIN prs
        /\ \A n, m \in DOMAIN prs : n[1] = R /\ m[1] = R /\ IsOpen(n) /\ IsOpen(m) => n = m
    BY <1>4 DEF OneLine, R
  <1>6. SUFFICES /\ \A n \in DOMAIN prs' : n[1] = R =>
                      \E i \in 1 .. MAX_BRANCH_SUFFIX :
                        /\ n = Candidate(R, i)
                        /\ \A l \in 1 .. i - 1 : Candidate(R, l) \in DOMAIN prs'
                 /\ \A n, m \in DOMAIN prs' :
                      n[1] = R /\ m[1] = R /\ IsOpen(n)' /\ IsOpen(m)' => n = m
    BY DEF OneLine, R
  <1>7. CASE name[1] # R
    BY <1>2, <1>5, <1>7
  <1>8. CASE name[1] = R
    <2>1. g.suffix = <<R>> /\ \A k \in 1 .. Len(plan) : plan[k].suffix[1] = R => k = at
      BY <1>1, <1>3, <1>8
    <2>2. PICK i \in 1 .. MAX_BRANCH_SUFFIX :
            name = Candidate(R, i) /\ \A l \in 1 .. i - 1 : ~ Usable(Candidate(R, l))
      BY <1>3, <2>1
    <2>3. \A n \in DOMAIN prs : n[1] = R => n \in existing
      <3>1. SUFFICES ASSUME NEW n \in DOMAIN prs, n[1] = R, n \notin existing
                     PROVE  FALSE
        OBVIOUS
      <3>2. PICK k \in 1 .. at - 1 : n[1] = plan[k].suffix[1]
        BY <3>1 DEF GroupingInv, NamesInv
      <3>3. k \in 1 .. Len(plan) /\ k # at
        BY <1>1
      <3>4. QED
        BY <2>1, <3>1, <3>2, <3>3
    <2>4. ASSUME NEW l \in 1 .. i - 1
          PROVE  Candidate(R, l) \in DOMAIN prs /\ ~ IsOpen(Candidate(R, l))
      <3>1. existing \subseteq DOMAIN prs
        BY DEF GroupingInv, NamesInv
      <3>2. Candidate(R, l) \in DOMAIN prs
        BY <2>2, <3>1 DEF Usable
      <3>3. Candidate(R, l)[1] = R
        BY DEF Candidate
      <3>4. Candidate(R, l) \in existing
        BY <2>3, <3>2, <3>3
      <3>5. QED
        BY <2>2, <3>2, <3>4 DEF Usable
    <2>5. ASSUME NEW m \in DOMAIN prs, m[1] = R
          PROVE  ~ IsOpen(m)
      <3>1. PICK j \in 1 .. MAX_BRANCH_SUFFIX :
              m = Candidate(R, j) /\ \A l \in 1 .. j - 1 : Candidate(R, l) \in DOMAIN prs
        BY <1>5, <2>5
      <3>2. ~ (i < j) /\ i # j
        <4>1. ASSUME i < j
              PROVE  FALSE
          <5>1. i \in 1 .. j - 1
            BY <4>1
          <5>2. QED
            BY <1>2, <2>2, <3>1, <5>1
        <4>2. QED
          BY <1>2, <2>2, <3>1, <4>1
      <3>3. j \in 1 .. i - 1
        BY <3>2
      <3>4. QED
        BY <2>4, <3>1, <3>3
    <2>6. ASSUME NEW n \in DOMAIN prs', n[1] = R
          PROVE  \E j \in 1 .. MAX_BRANCH_SUFFIX :
                   n = Candidate(R, j) /\ \A l \in 1 .. j - 1 : Candidate(R, l) \in DOMAIN prs'
      <3>1. CASE n = name
        BY <1>2, <2>2, <2>4, <3>1
      <3>2. CASE n # name
        BY <1>2, <1>5, <2>6, <3>2
      <3>3. QED
        BY <3>1, <3>2
    <2>7. ASSUME NEW n \in DOMAIN prs', NEW m \in DOMAIN prs',
                 n[1] = R, m[1] = R, IsOpen(n)', IsOpen(m)'
          PROVE  n = m
      BY <1>2, <2>5, <2>7
    <2>8. QED
      BY <2>6, <2>7
  <1>9. QED
    BY <1>7, <1>8

LEMMA ProposeInv ==
  ASSUME GroupingInv, Propose
  PROVE  GroupingInv'
  <1> DEFINE g == plan[at]
  <1>1. plan # <<>> /\ UNCHANGED <<strategy, max_prs, found>>
    BY DEF Propose, Idle, user
  <1>2. /\ at \in 1 .. Len(plan) /\ Len(plan) \in Nat
        /\ g.findings \subseteq Findings /\ IsName(g.suffix)
        /\ ~ g.batch => \A f \in g.findings : g.suffix[1] = Root(strategy, f)
    BY <1>1, GroupAtHand
  <1>3. \/ /\ at < Len(plan) /\ at' = at + 1
           /\ UNCHANGED <<scanned, plan, existing>>
        \/ at' = 1 /\ scanned' = {} /\ plan' = <<>> /\ existing' = {}
    BY DEF Propose
  <1>4. PlanInv'
    <2>1. CASE at < Len(plan) /\ at' = at + 1 /\ UNCHANGED <<scanned, plan, existing>>
      <3>1. at' \in 1 .. Len(plan)
        BY <1>2, <2>1
      <3>2. QED
        BY <1>1, <2>1, <3>1 DEF GroupingInv, PlanInv
    <2>2. CASE at' = 1 /\ scanned' = {} /\ plan' = <<>> /\ existing' = {}
      <3>1. {f \in scanned' : Located(f)} = {}
        BY <2>2
      <3>2. Len(plan') = 0 /\ DOMAIN plan' = 1 .. 0 /\ 1 .. 0 = {}
        BY <2>2
      <3>3. max_prs' \in Nat
        BY <1>1, Constants DEF GroupingInv, PlanInv
      <3>4. IsPlan(plan', {f \in scanned' : Located(f)}, strategy', max_prs')
        BY <2>2, <3>1, <3>2, <3>3 DEF IsPlan
      <3>5. QED
        BY <1>1, <2>2, <3>4 DEF GroupingInv, PlanInv
    <2>3. QED
      BY <1>3, <2>1, <2>2
  <1>5. (\E name : Opens(g, name)) \/ UNCHANGED prs
    BY DEF Propose, Opens
  <1>6. ASSUME NEW name, Opens(g, name)
        PROVE  NamesInv'
    <2>1. /\ name \notin DOMAIN prs /\ DOMAIN prs' = DOMAIN prs \union {name}
          /\ prs'[name] = Opened(g) /\ \A n \in DOMAIN prs : prs'[n] = prs[n]
          /\ \A n \in DOMAIN prs : IsOpen(n)' <=> IsOpen(n)
      BY <1>2, <1>6, OpenedIsNew
    <2>2. name[1] = g.suffix[1]
      BY <1>2, <1>6, ChosenName DEF Opens
    <2>3. existing' \subseteq DOMAIN prs'
      BY <1>3, <2>1 DEF GroupingInv, NamesInv
    <2>4. ASSUME NEW n \in DOMAIN prs', IsOpen(n)'
          PROVE  /\ prs'[n].findings \subseteq Findings
                 /\ ~ prs'[n].batch => \A f \in prs'[n].findings : n[1] = Root(strategy, f)
      <3>1. CASE n = name
        <4>1. prs'[n].findings = g.findings /\ prs'[n].batch = g.batch
          BY <2>1, <3>1 DEF Opened
        <4>2. QED
          BY <1>2, <2>2, <3>1, <4>1
      <3>2. CASE n # name
        <4>1. n \in DOMAIN prs /\ prs'[n] = prs[n] /\ IsOpen(n)
          BY <2>1, <2>4, <3>2
        <4>2. QED
          BY <4>1 DEF GroupingInv, NamesInv
      <3>3. QED
        BY <3>1, <3>2
    <2>5. ASSUME plan' # <<>>, NEW n \in DOMAIN prs' \ existing'
          PROVE  \E k \in 1 .. at' - 1 : n[1] = plan'[k].suffix[1]
      <3>1. at' = at + 1 /\ UNCHANGED <<plan, existing>>
        BY <1>3, <2>5
      <3>2. CASE n = name
        <4>1. at \in 1 .. at' - 1
          BY <1>2, <3>1
        <4>2. QED
          BY <2>2, <3>1, <3>2, <4>1
      <3>3. CASE n # name
        <4>1. n \in DOMAIN prs \ existing
          BY <2>1, <2>5, <3>1, <3>3
        <4>2. PICK k \in 1 .. at - 1 : n[1] = plan[k].suffix[1]
          BY <1>1, <4>1 DEF GroupingInv, NamesInv
        <4>3. k \in 1 .. at' - 1
          BY <1>2, <3>1
        <4>4. QED
          BY <3>1, <4>2, <4>3
      <3>4. QED
        BY <3>2, <3>3
    <2>6. \A f \in Findings : Alone(f) => OneLine(f)'
      BY <1>1, <1>6, OpensInLine
    <2>7. QED
      BY <1>1, <2>3, <2>4, <2>5, <2>6 DEF NamesInv, Alone
  <1>7. ASSUME UNCHANGED prs
        PROVE  NamesInv'
    <2>1. existing' \subseteq DOMAIN prs'
      BY <1>3, <1>7 DEF GroupingInv, NamesInv
    <2>2. ASSUME NEW n \in DOMAIN prs', IsOpen(n)'
          PROVE  /\ prs'[n].findings \subseteq Findings
                 /\ ~ prs'[n].batch => \A f \in prs'[n].findings : n[1] = Root(strategy, f)
      BY <1>7, <2>2 DEF GroupingInv, NamesInv, IsOpen
    <2>3. ASSUME plan' # <<>>, NEW n \in DOMAIN prs' \ existing'
          PROVE  \E k \in 1 .. at' - 1 : n[1] = plan'[k].suffix[1]
      <3>1. at' = at + 1 /\ UNCHANGED <<plan, existing>>
        BY <1>3, <2>3
      <3>2. PICK k \in 1 .. at - 1 : n[1] = plan[k].suffix[1]
        BY <1>1, <1>7, <2>3, <3>1 DEF GroupingInv, NamesInv
      <3>3. k \in 1 .. at' - 1
        BY <1>2, <3>1
      <3>4. QED
        BY <3>1, <3>2, <3>3
    <2>4. \A f \in Findings : Alone(f) => OneLine(f)'
      BY <1>1, <1>7 DEF GroupingInv, NamesInv, OneLine, IsOpen
    <2>5. QED
      BY <1>1, <2>1, <2>2, <2>3, <2>4 DEF NamesInv, Alone
  <1>8. QED
    BY <1>4, <1>5, <1>6, <1>7 DEF GroupingInv

-----------------------------------------------------------------------------
(* The theorems *)

LEMMA NextInv ==
  ASSUME GroupingInv, [Next]_vars
  PROVE  GroupingInv'
  <1>1. CASE Start
    BY <1>1, StartInv
  <1>2. CASE Propose
    BY <1>2, ProposeInv
  <1>3. ASSUME NEW name \in DOMAIN prs, Merge(name) \/ Close(name)
        PROVE  GroupingInv'
    <2>1. /\ prs' = [prs EXCEPT ![name] = Settled] /\ found' \subseteq found
          /\ UNCHANGED <<strategy, max_prs, scanned, plan, existing, at>>
      BY <1>3 DEF Merge, Close, user, locals
    <2>2. QED
      BY <2>1, SettleInv
  <1>4. ASSUME NEW f \in Findings, Introduce(f)
        PROVE  GroupingInv'
    <2>1. found' = found \union {f}
          /\ UNCHANGED <<strategy, max_prs, prs, scanned, plan, existing, at>>
      BY <1>4 DEF Introduce, user, locals
    <2>2. PlanInv'
      BY <2>1 DEF GroupingInv, PlanInv
    <2>3. \A x \in Findings : Alone(x) => OneLine(x)'
      BY <2>1 DEF GroupingInv, NamesInv, OneLine, IsOpen
    <2>4. NamesInv'
      BY <2>1, <2>3 DEF GroupingInv, NamesInv, IsOpen
    <2>5. QED
      BY <2>2, <2>4 DEF GroupingInv
  <1>5. CASE UNCHANGED vars
    <2>1. UNCHANGED <<strategy, max_prs, found, prs, scanned, plan, existing, at>>
      BY <1>5 DEF vars
    <2>2. PlanInv'
      BY <2>1 DEF GroupingInv, PlanInv
    <2>3. \A x \in Findings : Alone(x) => OneLine(x)'
      BY <2>1 DEF GroupingInv, NamesInv, OneLine, IsOpen
    <2>4. NamesInv'
      BY <2>1, <2>3 DEF GroupingInv, NamesInv, IsOpen
    <2>5. QED
      BY <2>2, <2>4 DEF GroupingInv
  <1>6. QED
    BY <1>1, <1>2, <1>3, <1>4, <1>5 DEF Next, Run, Review

\* Whatever has been planned, opened, merged and closed, the plan of the run at hand is one
\* of group_findings, its names are told apart, and the names taken for a finding that no
\* other is like follow each other with at most one open (_select_branch).
THEOREM GroupingInvariant == Spec => []GroupingInv
  <1>1. Init => GroupingInv
    BY InitInv
  <1>2. GroupingInv /\ [Next]_vars => GroupingInv'
    BY NextInv
  <1>3. QED
    BY <1>1, <1>2, PTL DEF Spec

LEMMA InvImpliesPlanSound ==
  ASSUME GroupingInv
  PROVE  PlanSound
  <1> DEFINE L == {f \in scanned : Located(f)}
  <1>1. IsPlan(plan, L, strategy, max_prs)
    BY DEF GroupingInv, PlanInv
  <1> HIDE DEF L
  <1>2. DOMAIN plan = 1 .. Len(plan) /\ Len(plan) \in Nat /\ Len(plan) <= max_prs
    BY <1>1 DEF IsPlan
  <1>3. ASSUME NEW f \in scanned, Located(f)
        PROVE  Cardinality({i \in DOMAIN plan : f \in plan[i].findings}) = 1
    <2>1. f \in L
      BY <1>3 DEF L
    <2>2. PICK i \in 1 .. Len(plan) : f \in plan[i].findings
      BY <1>1, <2>1 DEF IsPlan
    <2>3. ASSUME NEW k \in 1 .. Len(plan), f \in plan[k].findings
          PROVE  k = i
      <3>1. \A a, b \in 1 .. Len(plan) :
              a < b => plan[a].findings \intersect plan[b].findings = {}
        BY <1>1 DEF IsPlan
      <3>2. ~ (k < i) /\ ~ (i < k)
        BY <2>2, <2>3, <3>1
      <3>3. QED
        BY <1>2, <3>2
    <2>4. {k \in DOMAIN plan : f \in plan[k].findings} = {i}
      BY <1>2, <2>2, <2>3
    <2>5. QED
      BY <2>4, FS_Singleton
  <1>4. ASSUME NEW i \in DOMAIN plan
        PROVE  /\ plan[i].findings \subseteq L
               /\ plan[i].batch => /\ i = Len(plan)
                                   /\ plan[i].urgent = _is_priority(plan[i])
                                   /\ plan[i].urgent => i = max_prs
    <2>1. i \in 1 .. Len(plan)
      BY <1>2
    <2>2. plan[i].findings \subseteq L
      BY <1>1, <2>1 DEF IsPlan
    <2>3. plan[i].batch => /\ i = Len(plan) /\ plan[i].urgent = _is_priority(plan[i])
                           /\ _is_priority(plan[i]) => i = max_prs
      BY <1>1, <2>1 DEF IsPlan
    <2>4. QED
      BY <2>2, <2>3
  <1>5. ASSUME NEW i \in DOMAIN plan, NEW k \in DOMAIN plan, i < k
        PROVE  /\ plan[i].suffix # plan[k].suffix
               /\ _is_priority(plan[k]) => _is_priority(plan[i])
    BY <1>1, <1>2, <1>5 DEF IsPlan
  <1>6. QED
    BY <1>2, <1>3, <1>4, <1>5 DEF PlanSound, L

\* Every plan holds every located finding once, keeps to max_prs, has a name of its own for
\* each group and puts what is urgent first, for any findings (group_findings, _apply_cap,
\* _dedupe_branch_suffixes).
THEOREM PlansAreSound == Spec => []PlanSound
  <1>1. GroupingInv => PlanSound
    BY InvImpliesPlanSound
  <1>2. QED
    BY <1>1, GroupingInvariant, PTL

LEMMA InvImpliesProposedOnce ==
  ASSUME GroupingInv
  PROVE  ProposedOnce
  <1>1. SUFFICES ASSUME NEW n \in DOMAIN prs, NEW m \in DOMAIN prs, IsOpen(n), IsOpen(m),
                        n # m, ~ prs[n].batch, ~ prs[m].batch,
                        NEW f \in prs[n].findings \intersect prs[m].findings, Twins(f) = {f}
                 PROVE  FALSE
    BY DEF ProposedOnce
  <1>2. f \in Findings /\ n[1] = Root(strategy, f) /\ m[1] = Root(strategy, f)
    BY <1>1 DEF GroupingInv, NamesInv
  <1>3. OneLine(f)
    BY <1>1, <1>2 DEF GroupingInv, NamesInv, Alone
  <1>4. QED
    BY <1>1, <1>2, <1>3 DEF OneLine

\* However often the flow is run, whatever comes up, is merged or closed in between: a
\* finding is in two open pull requests only if one is a batch or another finding has its
\* identity (_finding_identity, _select_branch).
THEOREM FindingsProposedOnce == Spec => []ProposedOnce
  <1>1. GroupingInv => ProposedOnce
    BY InvImpliesProposedOnce
  <1>2. QED
    BY <1>1, GroupingInvariant, PTL
=============================================================================
