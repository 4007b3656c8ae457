-------------------------- MODULE PairGraphProofs --------------------------
(***************************************************************************)
(* Lemmas about the pair graph, the exact oracle and the walks and runs that*)
(* planners and monitors make, for every automaton.                        *)
(***************************************************************************)
EXTENDS PairWords, TLAPS, FiniteSetTheorems, WellFoundedInduction

\* A nonempty set of naturals has a least element.
LEMMA LeastNatural ==
  ASSUME NEW S, S \subseteq Nat, S # {}
  PROVE  \E x \in S : \A y \in S : x <= y
<1> DEFINE Less == {ss \in Nat \X Nat : ss[1] < ss[2]}
<1>1. IsWellFoundedOn(Less, Nat)
  BY NatLessThanWellFounded DEF OpToRel
<1>2. PICK x \in S : \A y \in S : ~(<<y, x>> \in Less)
  BY <1>1, WFMin
<1>3. ASSUME NEW y \in S PROVE x <= y
  <2>1. x \in Nat /\ y \in Nat
    OBVIOUS
  <2>2. ~(y < x)
    BY <1>2, <2>1
  <2>3. QED
    BY <2>1, <2>2
<1>4. QED
  BY <1>3

\* The target of a pair is a pair.
LEMMA TargetType ==
  ASSUME NEW aut \in Automata, NEW p \in Pairs, NEW a \in Actions
  PROVE  Target(aut, p, a) \in Pairs
<1>1. PICK s \in States, t \in States : p = {s, t}
  BY DEF Pairs
<1>2. Target(aut, p, a) = {aut.delta[<<s, a>>], aut.delta[<<t, a>>]}
  BY <1>1 DEF Target
<1>3. /\ aut.delta[<<s, a>>] \in States
      /\ aut.delta[<<t, a>>] \in States
  BY DEF Automata, Cells
<1>4. QED
  BY <1>2, <1>3 DEF Pairs

\* The diagonal is made of pairs.
LEMMA DiagonalPairs == Diagonal \subseteq Pairs
<1>1. ASSUME NEW s \in States PROVE {s} \in Pairs
  <2>1. {s} = {s, s}
    OBVIOUS
  <2>2. QED
    BY <2>1 DEF Pairs
<1>2. QED
  BY <1>1 DEF Diagonal

\* There are finitely many pairs.
LEMMA PairsFinite == IsFiniteSet(Pairs)
<1> DEFINE Both == [x \in States \X States |-> {x[1], x[2]}]
<1>1. IsFiniteSet(States \X States)
  BY GraphAssumption, FS_Product
<1>2. \A p \in Pairs : \E x \in States \X States : Both[x] = p
  <2> SUFFICES ASSUME NEW p \in Pairs
               PROVE  \E x \in States \X States : Both[x] = p
    OBVIOUS
  <2>1. PICK s \in States, t \in States : p = {s, t}
    BY DEF Pairs
  <2>2. Both[<<s, t>>] = p
    BY <2>1
  <2>3. QED
    BY <2>2
<1>3. Pairs = {Both[x] : x \in States \X States}
  <2>1. \A x \in States \X States : Both[x] \in Pairs
    BY DEF Pairs
  <2>2. QED
    BY <1>2, <2>1
<1>4. Both \in Surjection(States \X States, Pairs)
  <2>1. Both \in [States \X States -> Pairs]
    BY <1>3
  <2>2. QED
    BY <1>2, <2>1 DEF Surjection
<1>5. QED
  BY <1>1, <1>4, FS_Surjection

\* There are finitely many actions.
LEMMA ActionsFinite == IsFiniteSet(Actions)
  BY GraphAssumption, FS_Interval DEF Actions

-----------------------------------------------------------------------------
(* The layers of the backward search. *)

Steps == 0 .. Cardinality(Pairs)

Layer(aut, obj, f, k) ==
  IF k = 0 THEN {<<p, 0>> : p \in Diagonal}
  ELSE UNION {Grow(aut, obj, inner, k) : inner \in {f[k - 1]}}

\* The number of pairs, which bounds the layers, is a natural number.
LEMMA StepsNat == Cardinality(Pairs) \in Nat
  BY PairsFinite, FS_CardinalityType

\* The recursive definition of the layers has a solution on every prefix.
LEMMA LayersExist ==
  ASSUME NEW aut, NEW obj, NEW n \in Nat
  PROVE  \E f : f = [k \in 0 .. n |-> Layer(aut, obj, f, k)]
<1> DEFINE Solves(f, m) == f = [k \in 0 .. m |-> Layer(aut, obj, f, k)]
           Bad == {m \in Nat : ~ \E f : Solves(f, m)}
<1> SUFFICES ASSUME Bad # {} PROVE FALSE
  OBVIOUS
<1>1. PICK m \in Bad : \A j \in Bad : m <= j
  <2>1. Bad \subseteq Nat
    OBVIOUS
  <2>2. QED
    BY <2>1, LeastNatural
<1>2. CASE m = 0
  <2> DEFINE f == [k \in 0 .. 0 |-> {<<p, 0>> : p \in Diagonal}]
  <2>1. \A k \in 0 .. 0 : Layer(aut, obj, f, k) = {<<p, 0>> : p \in Diagonal}
    BY DEF Layer
  <2>2. Solves(f, 0)
    BY <2>1
  <2>3. QED
    BY <1>2, <2>2
<1>3. CASE m # 0
  <2>1. m - 1 \in Nat /\ m - 1 \notin Bad
    BY <1>1, <1>3
  <2>2. PICK g : Solves(g, m - 1)
    BY <2>1
  <2> DEFINE f == [k \in 0 .. m |-> IF k < m THEN g[k] ELSE Layer(aut, obj, g, m)]
  <2>3. ASSUME NEW k \in 0 .. m PROVE f[k] = Layer(aut, obj, f, k)
    <3>1. k = 0 \/ (k - 1 \in 0 .. (m - 1) /\ f[k - 1] = g[k - 1])
      BY <2>1
    <3>2. Layer(aut, obj, f, k) = Layer(aut, obj, g, k)
      BY <3>1 DEF Layer
    <3>3. CASE k < m
      <4>1. k \in 0 .. (m - 1)
        BY <3>3, <2>1
      <4>2. g[k] = Layer(aut, obj, g, k)
        BY <2>2, <4>1
      <4>3. f[k] = g[k]
        BY <3>3
      <4>4. QED
        BY <3>2, <4>2, <4>3
    <3>4. CASE k = m
      BY <3>2, <3>4
    <3>5. QED
      BY <3>3, <3>4, <2>1
  <2>4. Solves(f, m)
    <3>1. f = [k \in 0 .. m |-> f[k]]
      OBVIOUS
    <3> HIDE DEF f
    <3>2. QED
      BY <2>3, <3>1
  <2>5. QED
    BY <2>4
<1>4. QED
  BY <1>2, <1>3

\* Reached is the last of a family of layers, each grown from the one before.
LEMMA ReachedLayers ==
  ASSUME NEW aut, NEW obj
  PROVE  \E f : /\ \A k \in Steps : f[k] = Layer(aut, obj, f, k)
                /\ Reached(aut, obj) = f[Cardinality(Pairs)]
<1> DEFINE N == Cardinality(Pairs)
           L == CHOOSE f : f = [k \in 0 .. N |-> Layer(aut, obj, f, k)]
<1>1. N \in Nat
  BY StepsNat
<1>2. L = [k \in 0 .. N |-> Layer(aut, obj, L, k)]
  <2> HIDE DEF N
  <2>1. \E f : f = [k \in 0 .. N |-> Layer(aut, obj, f, k)]
    BY <1>1, LayersExist
  <2>2. QED
    BY <2>1
<1>3. Reached(aut, obj) = L[N]
  BY DEF Reached, Layer
<1>4. \A k \in Steps : L[k] = Layer(aut, obj, L, k)
  <2> HIDE DEF L
  <2>1. QED
    BY <1>2 DEF Steps
<1>5. QED
  BY <1>3, <1>4


\* What n layers of the search have established: every pair has one distance;
\* distance zero is the diagonal; a larger one is attained by an arc; and no
\* source of an arc into a layer before n is missing.
OneDistance(R, n) ==
  /\ R \subseteq Pairs \X (0 .. n)
  /\ \A p \in Pairs : \A j, k \in 0 .. n :
       <<p, j>> \in R /\ <<p, k>> \in R => j = k
RootsOnly(R) == \A p \in Pairs : <<p, 0>> \in R <=> p \in Diagonal
Attained(aut, obj, R) ==
  \A p \in Pairs : \A k \in Nat \ {0} : <<p, k>> \in R =>
    \E a \in Actions : \/ k = 1 /\ Terminal(aut, obj, p, a)
                       \/ /\ ~Terminal(aut, obj, p, a)
                          /\ <<Target(aut, p, a), k - 1>> \in R
Closed(aut, obj, R, n) ==
  \A p \in Pairs : \A a \in Actions :
    /\ \A j \in 0 .. (n - 1) : <<Target(aut, p, a), j>> \in R =>
         \E i \in 0 .. (j + 1) : <<p, i>> \in R
    /\ n >= 1 /\ Terminal(aut, obj, p, a) => \E i \in 0 .. 1 : <<p, i>> \in R

Layered(aut, obj, R, n) ==
  OneDistance(R, n) /\ RootsOnly(R) /\ Attained(aut, obj, R)
    /\ Closed(aut, obj, R, n)

\* The diagonal is a layered set of distance zero.
LEMMA FirstLayer ==
  ASSUME NEW aut \in Automata, NEW obj
  PROVE  Layered(aut, obj, {<<p, 0>> : p \in Diagonal}, 0)
<1> DEFINE R == {<<p, 0>> : p \in Diagonal}
<1>1. OneDistance(R, 0) /\ RootsOnly(R)
  BY DiagonalPairs DEF OneDistance, RootsOnly
<1>2. Attained(aut, obj, R)
  BY DEF Attained
<1>3. Closed(aut, obj, R, 0)
  BY DEF Closed
<1>4. QED
  BY <1>1, <1>2, <1>3 DEF Layered

\* Growing a layered set by the sources of its arcs gives a layered set.
LEMMA NextLayer ==
  ASSUME NEW aut \in Automata, NEW obj, NEW R, NEW n \in Nat,
         Layered(aut, obj, R, n)
  PROVE  Layered(aut, obj, Grow(aut, obj, R, n + 1), n + 1)
<1> DEFINE near == {e[1] : e \in R}
           new == Sources(aut, obj, near)
           G == Grow(aut, obj, R, n + 1)
<1>1. G = R \cup (new \X {n + 1})
  BY DEF Grow
<1>2. R \subseteq Pairs \X (0 .. n)
  BY DEF Layered, OneDistance
<1>3. \A p : p \in near <=> \E k \in 0 .. n : <<p, k>> \in R
  <2>1. ASSUME NEW p, p \in near PROVE \E k \in 0 .. n : <<p, k>> \in R
    <3>1. PICK e \in R : e[1] = p
      BY <2>1
    <3>2. e = <<e[1], e[2]>> /\ e[2] \in 0 .. n
      BY <1>2
    <3>3. QED
      BY <3>1, <3>2
  <2>2. ASSUME NEW p, NEW k \in 0 .. n, <<p, k>> \in R PROVE p \in near
    <3>1. <<p, k>>[1] = p
      OBVIOUS
    <3>2. QED
      BY <2>2, <3>1
  <2>3. QED
    BY <2>1, <2>2
<1>4. new \subseteq Pairs /\ new \cap near = {}
  BY DEF Sources
<1> HIDE DEF near, new, G
<1>5. \A p : \A k \in 0 .. n : <<p, k>> \in G <=> <<p, k>> \in R
  BY <1>1
<1>6. \A p : <<p, n + 1>> \in G <=> p \in new
  BY <1>1, <1>2
<1>7. OneDistance(G, n + 1)
  <2>1. G \subseteq Pairs \X (0 .. (n + 1))
    BY <1>1, <1>2, <1>4
  <2>2. ASSUME NEW p \in Pairs, NEW j \in 0 .. (n + 1), NEW k \in 0 .. (n + 1),
               <<p, j>> \in G, <<p, k>> \in G
        PROVE  j = k
    <3>1. CASE j \in 0 .. n /\ k \in 0 .. n
      BY <2>2, <3>1, <1>5 DEF Layered, OneDistance
    <3>2. CASE j = n + 1 /\ k \in 0 .. n
      BY <2>2, <3>2, <1>3, <1>4, <1>5, <1>6
    <3>3. CASE k = n + 1 /\ j \in 0 .. n
      BY <2>2, <3>3, <1>3, <1>4, <1>5, <1>6
    <3>4. QED
      BY <3>1, <3>2, <3>3
  <2>3. QED
    BY <2>1, <2>2 DEF OneDistance
<1>8. RootsOnly(G)
  <2>1. 0 \in 0 .. n
    OBVIOUS
  <2>2. \A p \in Pairs : <<p, 0>> \in G <=> <<p, 0>> \in R
    BY <1>5, <2>1
  <2>3. QED
    BY <2>2 DEF Layered, RootsOnly
<1>9. Attained(aut, obj, G)
  <2> SUFFICES ASSUME NEW p \in Pairs, NEW k \in Nat \ {0}, <<p, k>> \in G
               PROVE  \E a \in Actions :
                        \/ k = 1 /\ Terminal(aut, obj, p, a)
                        \/ /\ ~Terminal(aut, obj, p, a)
                           /\ <<Target(aut, p, a), k - 1>> \in G
    BY DEF Attained
  <2>1. CASE k \in 0 .. n
    <3>1. <<p, k>> \in R
      BY <2>1, <1>5
    <3>2. PICK a \in Actions : \/ k = 1 /\ Terminal(aut, obj, p, a)
                               \/ /\ ~Terminal(aut, obj, p, a)
                                  /\ <<Target(aut, p, a), k - 1>> \in R
      BY <3>1 DEF Layered, Attained
    <3>3. k - 1 \in 0 .. n
      BY <2>1
    <3>4. QED
      BY <3>2, <3>3, <1>5
  <2>2. CASE k = n + 1
    <3>1. p \in new
      BY <2>2, <1>6
    <3>2. PICK a \in Actions : \/ Terminal(aut, obj, p, a)
                               \/ Target(aut, p, a) \in near
      BY <3>1 DEF new, Sources
    <3>3. CASE Terminal(aut, obj, p, a)
      <4>1. n = 0
        <5> SUFFICES ASSUME n # 0 PROVE FALSE
          OBVIOUS
        <5>1. PICK i \in 0 .. 1 : <<p, i>> \in R
          BY <3>3 DEF Layered, Closed
        <5>2. i \in 0 .. n
          OBVIOUS
        <5>3. QED
          BY <5>1, <5>2, <3>1, <1>3, <1>4
      <4>2. QED
        BY <3>3, <4>1, <2>2
    <3>4. CASE ~Terminal(aut, obj, p, a)
      <4>1. PICK j \in 0 .. n : <<Target(aut, p, a), j>> \in R
        BY <3>2, <3>4, <1>3
      <4>2. j = n
        <5> SUFFICES ASSUME j \in 0 .. (n - 1) PROVE FALSE
          OBVIOUS
        <5>1. PICK i \in 0 .. (j + 1) : <<p, i>> \in R
          BY <4>1 DEF Layered, Closed
        <5>2. i \in 0 .. n
          OBVIOUS
        <5>3. QED
          BY <5>1, <5>2, <3>1, <1>3, <1>4
      <4>3. <<Target(aut, p, a), k - 1>> \in G
        BY <4>1, <4>2, <2>2, <1>5
      <4>4. QED
        BY <3>4, <4>3
    <3>5. QED
      BY <3>3, <3>4
  <2>3. k \in 0 .. (n + 1)
    BY <1>7 DEF OneDistance
  <2>4. QED
    BY <2>1, <2>2, <2>3
<1>10. Closed(aut, obj, G, n + 1)
  <2> SUFFICES ASSUME NEW p \in Pairs, NEW a \in Actions
               PROVE  /\ \A j \in 0 .. n : <<Target(aut, p, a), j>> \in G =>
                           \E i \in 0 .. (j + 1) : <<p, i>> \in G
                      /\ Terminal(aut, obj, p, a) =>
                           \E i \in 0 .. 1 : <<p, i>> \in G
    <3>1. (n + 1) - 1 = n
      OBVIOUS
    <3>2. QED
      BY <3>1, Zenon DEF Closed
  <2>1. ASSUME NEW j \in 0 .. n, <<Target(aut, p, a), j>> \in G
        PROVE  \E i \in 0 .. (j + 1) : <<p, i>> \in G
    <3>1. <<Target(aut, p, a), j>> \in R
      BY <2>1, <1>5
    <3>2. CASE j \in 0 .. (n - 1)
      <4>1. PICK i \in 0 .. (j + 1) : <<p, i>> \in R
        BY <3>1, <3>2 DEF Layered, Closed
      <4>2. i \in 0 .. n
        BY <3>2
      <4>3. QED
        BY <4>1, <4>2, <1>5
    <3>3. CASE j = n
      <4>1. CASE p \in near
        <5>1. PICK i \in 0 .. n : <<p, i>> \in R
          BY <4>1, <1>3
        <5>2. QED
          BY <5>1, <1>5, <3>3
      <4>2. CASE p \notin near
        <5>1. Target(aut, p, a) \in near
          BY <3>1, <1>3
        <5>2. p \in new
          BY <4>2, <5>1 DEF new, Sources
        <5>3. QED
          BY <5>2, <1>6, <3>3
      <4>3. QED
        BY <4>1, <4>2
    <3>4. QED
      BY <3>2, <3>3
  <2>2. ASSUME Terminal(aut, obj, p, a)
        PROVE  \E i \in 0 .. 1 : <<p, i>> \in G
    <3>1. CASE n # 0
      <4>1. PICK i \in 0 .. 1 : <<p, i>> \in R
        BY <2>2, <3>1 DEF Layered, Closed
      <4>2. i \in 0 .. n
        BY <3>1
      <4>3. QED
        BY <4>1, <4>2, <1>5
    <3>2. CASE n = 0
      <4>1. CASE p \in near
        <5>1. PICK i \in 0 .. n : <<p, i>> \in R
          BY <4>1, <1>3
        <5>2. QED
          BY <5>1, <1>5, <3>2
      <4>2. CASE p \notin near
        <5>1. p \in new
          BY <2>2, <4>2 DEF new, Sources
        <5>2. <<p, 1>> \in G
          BY <5>1, <1>6, <3>2
        <5>3. QED
          BY <5>2
      <4>3. QED
        BY <4>1, <4>2
    <3>3. QED
      BY <3>1, <3>2
  <2>3. QED
    BY <2>1, <2>2
<1>11. QED
  BY <1>7, <1>8, <1>9, <1>10 DEF Layered, G

\* What the backward search reaches is layered: one distance for each pair,
\* each attained by an arc.
LEMMA ReachedLayered ==
  ASSUME NEW aut \in Automata, NEW obj
  PROVE  Layered(aut, obj, Reached(aut, obj), Cardinality(Pairs))
<1> DEFINE N == Cardinality(Pairs)
<1>1. PICK f : /\ \A k \in Steps : f[k] = Layer(aut, obj, f, k)
               /\ Reached(aut, obj) = f[N]
  BY ReachedLayers
<1>2. N \in Nat
  BY StepsNat
<1> HIDE DEF N
<1> DEFINE Bad == {k \in 0 .. N : ~Layered(aut, obj, f[k], k)}
<1>3. Bad = {}
  <2> SUFFICES ASSUME Bad # {} PROVE FALSE
    OBVIOUS
  <2>1. PICK m \in Bad : \A j \in Bad : m <= j
    <3>1. Bad \subseteq Nat
      BY <1>2
    <3>2. QED
      BY <3>1, LeastNatural
  <2>2. m \in 0 .. N /\ f[m] = Layer(aut, obj, f, m)
    BY <1>1, <2>1 DEF Steps, N
  <2>3. CASE m = 0
    BY <2>1, <2>2, <2>3, FirstLayer DEF Layer
  <2>4. CASE m # 0
    <3>1. m - 1 \in 0 .. N /\ m - 1 \in Nat
      BY <1>2, <2>2, <2>4
    <3>2. m - 1 \notin Bad
      BY <2>1, <3>1
    <3>3. Layered(aut, obj, f[m - 1], m - 1)
      BY <3>1, <3>2
    <3>4. f[m] = Grow(aut, obj, f[m - 1], m)
      BY <2>2, <2>4 DEF Layer
    <3>5. (m - 1) + 1 = m
      BY <3>1
    <3>6. Layered(aut, obj, Grow(aut, obj, f[m - 1], (m - 1) + 1), (m - 1) + 1)
      BY <3>1, <3>3, NextLayer
    <3>7. Layered(aut, obj, f[m], m)
      BY <3>4, <3>5, <3>6
    <3>8. QED
      BY <2>1, <3>7
  <2>5. QED
    BY <2>3, <2>4
<1>4. N \in 0 .. N
  BY <1>2
<1>5. QED
  BY <1>1, <1>3, <1>4 DEF N

-----------------------------------------------------------------------------
(* The exact oracle. *)

\* An exact distance is one the search reached the pair with.
LEMMA ExactDistanceIn ==
  ASSUME NEW aut \in Automata, NEW obj, NEW p \in Pairs
  PROVE  /\ \A k \in Nat : ExactDistances(aut, obj)[p] = k
                             <=> <<p, k>> \in Reached(aut, obj)
         /\ ExactDistances(aut, obj)[p] \in Distances
<1> DEFINE R == Reached(aut, obj)
           N == Cardinality(Pairs)
           d == ExactDistances(aut, obj)[p]
<1>1. OneDistance(R, N)
  BY ReachedLayered DEF Layered
<1>2. N \in Nat
  BY StepsNat
<1>3. d = IF \E e \in R : e[1] = p THEN (CHOOSE e \in R : e[1] = p)[2] ELSE None
  BY DEF ExactDistances
<1> HIDE DEF R, N, d
<1>4. \A e \in R : e = <<e[1], e[2]>> /\ e[2] \in 0 .. N
  BY <1>1 DEF OneDistance
<1>5. CASE \E e \in R : e[1] = p
  <2> DEFINE c == CHOOSE e \in R : e[1] = p
  <2>1. c \in R /\ c[1] = p
    BY <1>5
  <2>2. d = c[2]
    BY <1>3, <1>5
  <2> HIDE DEF c
  <2>3. <<p, d>> \in R /\ d \in 0 .. N
    BY <1>4, <2>1, <2>2
  <2>4. \A k \in Nat : <<p, k>> \in R => k = d
    <3>1. ASSUME NEW k \in Nat, <<p, k>> \in R PROVE k = d
      <4>1. k \in 0 .. N
        BY <1>1, <3>1 DEF OneDistance
      <4>2. QED
        BY <1>1, <2>3, <3>1, <4>1 DEF OneDistance
    <3>2. QED
      BY <3>1
  <2>5. d \in Nat
    BY <2>3
  <2>6. QED
    BY <2>3, <2>4, <2>5 DEF Distances, d, R
<1>6. CASE ~ \E e \in R : e[1] = p
  <2>1. \A k \in Nat : <<p, k>> \notin R
    BY <1>6
  <2>2. d = None
    BY <1>3, <1>6
  <2>3. \A k \in Nat : d # k
    BY <2>2 DEF None
  <2>4. QED
    BY <2>1, <2>2, <2>3 DEF Distances, d, R
<1>7. QED
  BY <1>5, <1>6

\* Only the diagonal is at distance zero, and a larger distance is attained by
\* an arc into a pair at the distance before, or by a terminal arc.
LEMMA ExactAttained ==
  ASSUME NEW aut \in Automata, NEW obj, NEW p \in Pairs
  PROVE  LET dist == ExactDistances(aut, obj)
         IN /\ dist[p] = 0 <=> p \in Diagonal
            /\ dist[p] # None /\ p \notin Diagonal =>
                 /\ dist[p] \in Nat \ {0}
                 /\ \E a \in Actions :
                      \/ dist[p] = 1 /\ Terminal(aut, obj, p, a)
                      \/ /\ ~Terminal(aut, obj, p, a)
                         /\ dist[Target(aut, p, a)] = dist[p] - 1
                         /\ dist[Target(aut, p, a)] \in Nat
<1> DEFINE dist == ExactDistances(aut, obj)
           R == Reached(aut, obj)
<1>1. RootsOnly(R) /\ Attained(aut, obj, R)
  BY ReachedLayered DEF Layered
<1>2. ASSUME NEW q \in Pairs
      PROVE  dist[q] \in Distances
             /\ \A k \in Nat : dist[q] = k <=> <<q, k>> \in R
  BY ExactDistanceIn
<1> HIDE DEF dist, R
<1>3. dist[p] = 0 <=> p \in Diagonal
  BY <1>1, <1>2 DEF RootsOnly
<1>4. ASSUME dist[p] # None, p \notin Diagonal
      PROVE  /\ dist[p] \in Nat \ {0}
             /\ \E a \in Actions :
                  \/ dist[p] = 1 /\ Terminal(aut, obj, p, a)
                  \/ /\ ~Terminal(aut, obj, p, a)
                     /\ dist[Target(aut, p, a)] = dist[p] - 1
                     /\ dist[Target(aut, p, a)] \in Nat
  <2>1. dist[p] \in Nat \ {0}
    BY <1>2, <1>3, <1>4 DEF Distances
  <2>2. PICK a \in Actions :
          \/ dist[p] = 1 /\ Terminal(aut, obj, p, a)
          \/ /\ ~Terminal(aut, obj, p, a)
             /\ <<Target(aut, p, a), dist[p] - 1>> \in R
    <3>1. <<p, dist[p]>> \in R
      BY <1>2, <2>1
    <3>2. QED
      BY <1>1, <2>1, <3>1 DEF Attained
  <2>3. Target(aut, p, a) \in Pairs /\ dist[p] - 1 \in Nat
    BY <2>1, TargetType
  <2>4. <<Target(aut, p, a), dist[p] - 1>> \in R =>
          dist[Target(aut, p, a)] = dist[p] - 1
    BY <1>2, <2>3
  <2>5. QED
    BY <2>1, <2>2, <2>3, <2>4
<1>5. QED
  BY <1>3, <1>4 DEF dist

\* A nonempty set of actions has a first one.
LEMMA FirstAction ==
  ASSUME NEW S, S \subseteq Actions, S # {}
  PROVE  LET act == CHOOSE a \in S : \A b \in S : a <= b
         IN act \in S /\ \A b \in S : act <= b
<1>1. S \subseteq Nat
  BY GraphAssumption DEF Actions
<1>2. QED
  BY <1>1, LeastNatural

\* A set of actions has a natural number of members.
LEMMA CountNat ==
  ASSUME NEW S, S \subseteq Actions
  PROVE  Cardinality(S) \in Nat
  BY ActionsFinite, FS_Subset, FS_CardinalityType

\* The roots and the unreached pairs have well-formed records.
LEMMA PlainRecords ==
  /\ Root \in Records /\ Root.dist = 0
  /\ Unreached \in Records /\ Unreached.dist = None
  BY DEF Root, Unreached, Records, Distances

\* The exact oracle consists of well-formed records.
LEMMA ExactRecordsFit ==
  ASSUME NEW aut \in Automata, NEW obj
  PROVE  /\ ExactRecords(aut, obj) \in [Pairs -> Records]
         /\ \A p \in Pairs : ExactRecords(aut, obj)[p].dist
                               = ExactDistances(aut, obj)[p]
<1> DEFINE dist == ExactDistances(aut, obj)
           Immediate(p, a) == dist[p] = 1 /\ Terminal(aut, obj, p, a)
           ViaNext(p, a) ==
             LET next == Target(aut, p, a)
             IN /\ ~Terminal(aut, obj, p, a)
                /\ dist[next] # None
                /\ dist[next] + 1 = dist[p]
           Attaining(p) == {a \in Actions : Immediate(p, a) \/ ViaNext(p, a)}
           First(S) == CHOOSE a \in S : \A b \in S : a <= b
           Witness(p) ==
             LET act == First(Attaining(p))
             IN [dist |-> dist[p], act |-> act,
                 next |-> IF Immediate(p, act) THEN NoPair
                          ELSE Target(aut, p, act),
                 sup |-> Cardinality(Attaining(p))]
           Rec(p) == IF p \in Diagonal THEN Root
                     ELSE IF dist[p] = None THEN Unreached
                     ELSE Witness(p)
<1>1. ExactRecords(aut, obj) = [p \in Pairs |-> Rec(p)]
  BY DEF ExactRecords
<1>2. ASSUME NEW p \in Pairs
      PROVE  Rec(p) \in Records /\ Rec(p).dist = dist[p]
  <2>1. CASE p \in Diagonal
    <3>1. dist[p] = 0
      BY <2>1, ExactAttained
    <3>2. Rec(p) = Root
      BY <2>1
    <3>3. QED
      BY <3>1, <3>2, PlainRecords
  <2>2. CASE p \notin Diagonal /\ dist[p] = None
    <3>1. Rec(p) = Unreached
      BY <2>2
    <3>2. QED
      BY <2>2, <3>1, PlainRecords
  <2>3. CASE p \notin Diagonal /\ dist[p] # None
    <3>1. /\ dist[p] \in Nat \ {0}
          /\ \E a \in Actions :
               \/ dist[p] = 1 /\ Terminal(aut, obj, p, a)
               \/ /\ ~Terminal(aut, obj, p, a)
                  /\ dist[Target(aut, p, a)] = dist[p] - 1
                  /\ dist[Target(aut, p, a)] \in Nat
      BY <2>3, ExactAttained
    <3>2. Attaining(p) # {}
      <4>1. PICK a \in Actions :
               \/ dist[p] = 1 /\ Terminal(aut, obj, p, a)
               \/ /\ ~Terminal(aut, obj, p, a)
                  /\ dist[Target(aut, p, a)] = dist[p] - 1
                  /\ dist[Target(aut, p, a)] \in Nat
        BY <3>1
      <4> HIDE DEF dist
      <4>2. Immediate(p, a) \/ ViaNext(p, a)
        BY <3>1, <4>1 DEF None
      <4>3. QED
        BY <4>2
    <3> DEFINE act == First(Attaining(p))
    <3>3. Attaining(p) \subseteq Actions
      OBVIOUS
    <3>4. act \in Actions
      <4> HIDE DEF Attaining
      <4>1. QED
        BY <3>2, <3>3, FirstAction
    <3>5. Target(aut, p, act) \in Pairs
      BY <3>4, TargetType
    <3>6. Cardinality(Attaining(p)) \in Nat
      BY <3>3, CountNat
    <3>7. Rec(p) = [dist |-> dist[p], act |-> act,
                    next |-> IF Immediate(p, act) THEN NoPair
                             ELSE Target(aut, p, act),
                    sup |-> Cardinality(Attaining(p))]
      BY <2>3
    <3> HIDE DEF act, Attaining, Immediate, dist, Rec
    <3>8. QED
      BY <3>1, <3>4, <3>5, <3>6, <3>7 DEF Records, Distances
  <2>4. QED
    BY <2>1, <2>2, <2>3
<1> HIDE DEF Rec, dist
<1>3. QED
  BY <1>1, <1>2 DEF dist

-----------------------------------------------------------------------------
(* Recursion over the steps of a word. *)

\* What may be done at each step to a value in V, and what comes of it.
StepsOn(V) == [V \X Nat -> V]

Along(V, x, n, step) ==
  {f \in [0 .. n -> V] : f[0] = x /\ \A k \in 1 .. n : f[k] = step[<<f[k - 1], k>>]}

\* What the steps make of a value is defined for any number of them.
LEMMA RecursionExists ==
  ASSUME NEW V, NEW x \in V, NEW n \in Nat, NEW step \in StepsOn(V)
  PROVE  Along(V, x, n, step) # {}
<1> DEFINE Solves(f, m) == /\ f[0] = x
                           /\ \A k \in 1 .. m : f[k] = step[<<f[k - 1], k>>]
           Bad == {m \in Nat : ~ \E f \in [0 .. m -> V] : Solves(f, m)}
<1> SUFFICES ASSUME Bad # {} PROVE FALSE
  <2>1. SUFFICES ASSUME Bad = {} PROVE Along(V, x, n, step) # {}
    OBVIOUS
  <2>2. PICK f \in [0 .. n -> V] : Solves(f, n)
    BY <2>1
  <2>3. f \in Along(V, x, n, step)
    BY <2>2 DEF Along
  <2>4. QED
    BY <2>3
<1> USE DEF StepsOn
<1>1. PICK m \in Bad : \A j \in Bad : m <= j
  <2>1. Bad \subseteq Nat
    OBVIOUS
  <2>2. QED
    BY <2>1, LeastNatural
<1>2. CASE m = 0
  <2> DEFINE f == [k \in 0 .. 0 |-> x]
  <2>1. f \in [0 .. 0 -> V] /\ Solves(f, 0)
    OBVIOUS
  <2>2. QED
    BY <1>2, <2>1
<1>3. CASE m # 0
  <2>1. m \in Nat /\ m - 1 \in Nat /\ m - 1 \notin Bad
    BY <1>1, <1>3
  <2>2. PICK g \in [0 .. (m - 1) -> V] : Solves(g, m - 1)
    BY <2>1
  <2>3. m - 1 \in 0 .. (m - 1) /\ g[m - 1] \in V
    BY <2>1, <2>2
  <2> DEFINE f == [k \in 0 .. m |-> IF k < m THEN g[k] ELSE step[<<g[m - 1], m>>]]
  <2>4. f \in [0 .. m -> V]
    <3>1. ASSUME NEW k \in 0 .. m PROVE f[k] \in V
      <4>1. CASE k < m
        <5>1. k \in 0 .. (m - 1)
          BY <4>1, <2>1
        <5>2. QED
          BY <5>1, <4>1
      <4>2. CASE ~(k < m)
        BY <4>2, <2>1, <2>3
      <4>3. QED
        BY <4>1, <4>2
    <3>2. QED
      BY <3>1
  <2>5. f[0] = x
    <3>1. 0 \in 0 .. m /\ 0 < m
      BY <2>1
    <3>2. QED
      BY <3>1, <2>2
  <2>6. ASSUME NEW k \in 1 .. m PROVE f[k] = step[<<f[k - 1], k>>]
    <3>1. k - 1 \in 0 .. m /\ k - 1 < m /\ k \in 0 .. m
      BY <2>1
    <3>2. f[k - 1] = g[k - 1]
      BY <3>1
    <3>3. CASE k < m
      <4>1. k \in 1 .. (m - 1)
        BY <3>3, <2>1
      <4>2. g[k] = step[<<g[k - 1], k>>]
        BY <2>2, <4>1
      <4>3. QED
        BY <3>1, <3>2, <3>3, <4>2
    <3>4. CASE k = m
      BY <3>1, <3>2, <3>4
    <3>5. QED
      BY <3>3, <3>4, <2>1
  <2>7. Solves(f, m)
    BY <2>5, <2>6
  <2>8. QED
    BY <2>1, <2>4, <2>7, <1>1
<1>4. QED
  BY <1>2, <1>3

\* A set that has 0 and with each step the next one has all steps.
LEMMA StepByStep ==
  ASSUME NEW n \in Nat, NEW S, 0 \in S, \A k \in 1 .. n : k - 1 \in S => k \in S
  PROVE  \A k \in 0 .. n : k \in S
<1> DEFINE Bad == (0 .. n) \ S
<1> SUFFICES ASSUME Bad # {} PROVE FALSE
  OBVIOUS
<1>1. PICK m \in Bad : \A j \in Bad : m <= j
  <2>1. Bad \subseteq Nat
    OBVIOUS
  <2>2. QED
    BY <2>1, LeastNatural
<1>2. m # 0 /\ m \in 0 .. n
  OBVIOUS
<1>3. m \in 1 .. n /\ m - 1 \in 0 .. n /\ ~(m <= m - 1)
  BY <1>2
<1>4. m - 1 \in S
  BY <1>1, <1>3
<1>5. QED
  BY <1>3, <1>4

\* The states of a run, one after the other.
LEMMA PlacesFromSound ==
  ASSUME NEW aut \in Automata, NEW x \in States, NEW w \in Seq(Actions)
  PROVE  /\ PlacesFrom(aut, x, w) \in [0 .. Len(w) -> States]
         /\ PlacesFrom(aut, x, w)[0] = x
         /\ \A n \in 1 .. Len(w) :
              PlacesFrom(aut, x, w)[n] = aut.delta[<<PlacesFrom(aut, x, w)[n - 1], w[n]>>]
<1> DEFINE N == Len(w)
           Is(f) == f = [n \in 0 .. N |-> IF n = 0 THEN x ELSE aut.delta[<<f[n - 1], w[n]>>]]
           step == [z \in States \X Nat |->
                      IF z[2] \in 1 .. N THEN aut.delta[<<z[1], w[z[2]]>>] ELSE x]
<1>1. N \in Nat /\ \A n \in 1 .. N : w[n] \in Actions
  OBVIOUS
<1>2. aut.delta \in [States \X Actions -> States]
  BY DEF Automata, Cells
<1>3. step \in [States \X Nat -> States]
  BY <1>1, <1>2
<1>4. PICK f \in [0 .. N -> States] :
        /\ f[0] = x
        /\ \A k \in 1 .. N : f[k] = step[<<f[k - 1], k>>]
  <2> HIDE DEF step, N
  <2>1. step \in StepsOn(States)
    BY <1>3 DEF StepsOn
  <2>2. Along(States, x, N, step) # {}
    BY <1>1, <2>1, RecursionExists
  <2>3. QED
    BY <2>2 DEF Along
<1>5. ASSUME NEW k \in 1 .. N PROVE f[k] = aut.delta[<<f[k - 1], w[k]>>]
  <2>1. k - 1 \in 0 .. N /\ k \in Nat
    BY <1>1
  <2>2. f[k - 1] \in States
    BY <2>1
  <2>3. QED
    BY <1>4, <2>1, <2>2
<1>6. Is(f)
  <2>1. \A n \in 0 .. N : n = 0 \/ n \in 1 .. N
    BY <1>1
  <2>2. \A n \in 0 .. N : f[n] = IF n = 0 THEN x ELSE aut.delta[<<f[n - 1], w[n]>>]
    BY <1>4, <1>5, <2>1
  <2>3. QED
    BY <2>2
<1> DEFINE P == CHOOSE g : Is(g)
<1>7. PlacesFrom(aut, x, w) = P
  BY DEF PlacesFrom
<1>8. Is(P)
  BY <1>6
<1> HIDE DEF P
<1>9. /\ P[0] = x
      /\ \A n \in 1 .. N : P[n] = aut.delta[<<P[n - 1], w[n]>>]
  <2>1. 0 \in 0 .. N /\ \A n \in 1 .. N : n \in 0 .. N /\ n # 0
    BY <1>1
  <2>2. QED
    BY <1>8, <2>1
<1>10. P \in [0 .. N -> States]
  <2> DEFINE S == {n \in 0 .. N : P[n] \in States}
  <2>1. 0 \in S
    BY <1>1, <1>9
  <2>2. ASSUME NEW k \in 1 .. N, k - 1 \in S PROVE k \in S
    <3>1. k \in 0 .. N /\ P[k - 1] \in States /\ w[k] \in Actions
      BY <2>2, <1>1
    <3>2. QED
      BY <1>2, <1>9, <3>1
  <2>3. \A n \in 0 .. N : n \in S
    <3> HIDE DEF S
    <3>1. QED
      BY <2>1, <2>2, <1>1, StepByStep
  <2>4. \A n \in 0 .. N : P[n] \in States
    BY <2>3
  <2>5. QED
    BY <1>8, <2>4
<1>11. QED
  BY <1>7, <1>9, <1>10

-----------------------------------------------------------------------------
(* Walks: where n steps lead. *)

Walking(f, next, x, n) == f = [k \in 0 .. n |-> IF k = 0 THEN x ELSE next[f[k - 1]]]

\* A walk of any number of steps exists.
LEMMA WalkExists ==
  ASSUME NEW next, NEW x, NEW n \in Nat
  PROVE  \E f : Walking(f, next, x, n)
<1> DEFINE Bad == {m \in Nat : ~ \E f : Walking(f, next, x, m)}
<1> SUFFICES ASSUME Bad # {} PROVE FALSE
  OBVIOUS
<1>1. PICK m \in Bad : \A j \in Bad : m <= j
  <2>1. Bad \subseteq Nat
    OBVIOUS
  <2>2. QED
    BY <2>1, LeastNatural
<1>2. CASE m = 0
  <2> DEFINE f == [k \in 0 .. 0 |-> x]
  <2>1. \A k \in 0 .. 0 : k = 0
    OBVIOUS
  <2>2. f = [k \in 0 .. 0 |-> IF k = 0 THEN x ELSE next[f[k - 1]]]
    BY <2>1
  <2>3. QED
    BY <1>2, <2>2 DEF Walking
<1>3. CASE m # 0
  <2>1. m \in Nat /\ m - 1 \in Nat /\ m - 1 \notin Bad
    BY <1>1, <1>3
  <2>2. PICK g : Walking(g, next, x, m - 1)
    BY <2>1
  <2> DEFINE f == [k \in 0 .. m |-> IF k < m THEN g[k] ELSE next[g[m - 1]]]
  <2>3. ASSUME NEW k \in 0 .. m
        PROVE  f[k] = IF k = 0 THEN x ELSE next[f[k - 1]]
    <3>1. CASE k = 0
      <4>1. 0 \in 0 .. (m - 1) /\ k < m
        BY <2>1, <3>1
      <4>2. g[0] = x
        BY <2>2, <4>1 DEF Walking
      <4>3. QED
        BY <3>1, <4>1, <4>2
    <3>2. CASE k # 0
      <4>1. k - 1 \in 0 .. m /\ k - 1 < m
        BY <2>1, <3>2
      <4>2. f[k - 1] = g[k - 1]
        BY <4>1
      <4>3. CASE k < m
        <5>1. k \in 0 .. (m - 1)
          BY <2>1, <4>3
        <5>2. g[k] = next[g[k - 1]]
          BY <2>2, <3>2, <5>1 DEF Walking
        <5>3. QED
          BY <3>2, <4>2, <4>3, <5>2
      <4>4. CASE ~(k < m)
        <5>1. k = m
          BY <2>1, <4>4
        <5>2. QED
          BY <3>2, <4>2, <4>4, <5>1
      <4>5. QED
        BY <4>3, <4>4
    <3>3. QED
      BY <3>1, <3>2
  <2>4. f = [k \in 0 .. m |-> IF k = 0 THEN x ELSE next[f[k - 1]]]
    <3> DEFINE h == [k \in 0 .. m |-> IF k = 0 THEN x ELSE next[f[k - 1]]]
    <3>1. \A k \in 0 .. m : f[k] = h[k]
      BY <2>3
    <3>2. f = [k \in 0 .. m |-> f[k]] /\ h = [k \in 0 .. m |-> h[k]]
      OBVIOUS
    <3> HIDE DEF f, h
    <3>3. f = h
      BY <3>1, <3>2
    <3>4. QED
      BY <3>3 DEF h
  <2>5. Walking(f, next, x, m)
    BY <2>4 DEF Walking
  <2>6. QED
    BY <2>5, <1>1
<1>4. QED
  BY <1>2, <1>3

\* Two walks agree as far as both go.
LEMMA WalksAgree ==
  ASSUME NEW next, NEW x, NEW m \in Nat, NEW n \in Nat, m <= n, NEW f, NEW g,
         Walking(f, next, x, m), Walking(g, next, x, n)
  PROVE  f[m] = g[m]
<1> DEFINE S == {k \in 0 .. m : f[k] = g[k]}
<1>1. 0 \in S
  <2>1. 0 \in 0 .. m /\ 0 \in 0 .. n
    OBVIOUS
  <2>2. QED
    BY <2>1 DEF Walking
<1>2. ASSUME NEW k \in 1 .. m, k - 1 \in S PROVE k \in S
  <2>1. k \in 0 .. m /\ k \in 0 .. n /\ k # 0 /\ f[k - 1] = g[k - 1]
    BY <1>2
  <2>2. f[k] = next[f[k - 1]] /\ g[k] = next[g[k - 1]]
    BY <2>1 DEF Walking
  <2>3. QED
    BY <2>1, <2>2
<1>3. \A k \in 0 .. m : k \in S
  <2> HIDE DEF S
  <2>1. QED
    BY <1>1, <1>2, StepByStep
<1>4. m \in 0 .. m
  OBVIOUS
<1>5. QED
  BY <1>3, <1>4

\* A walk of n steps is one that Onward reads its end from.
LEMMA OnwardWalks ==
  ASSUME NEW next, NEW x, NEW n \in Nat
  PROVE  \E f : Walking(f, next, x, n) /\ Onward(next, x, n) = f[n]
<1> DEFINE Is(f) == f = [k \in 0 .. n |-> IF k = 0 THEN x ELSE next[f[k - 1]]]
           W == CHOOSE f : Is(f)
<1>1. PICK g : Walking(g, next, x, n)
  BY WalkExists
<1>2. Is(W)
  <2>1. Is(g)
    BY <1>1 DEF Walking
  <2>2. QED
    BY <2>1
<1>3. Onward(next, x, n) = W[n]
  BY DEF Onward
<1> HIDE DEF W
<1>4. Walking(W, next, x, n)
  BY <1>2 DEF Walking
<1>5. QED
  BY <1>3, <1>4

\* No steps lead nowhere, and one more step goes on from where the others led.
LEMMA OnwardStep ==
  ASSUME NEW next, NEW x, NEW n \in Nat
  PROVE  /\ Onward(next, x, 0) = x
         /\ Onward(next, x, n + 1) = next[Onward(next, x, n)]
<1>1. Onward(next, x, 0) = x
  <2>1. PICK f : Walking(f, next, x, 0) /\ Onward(next, x, 0) = f[0]
    BY OnwardWalks
  <2>2. 0 \in 0 .. 0
    OBVIOUS
  <2>3. QED
    BY <2>1, <2>2 DEF Walking
<1>2. PICK m \in Nat : m = n + 1
  OBVIOUS
<1>3. PICK f : Walking(f, next, x, n) /\ Onward(next, x, n) = f[n]
  BY OnwardWalks
<1>4. PICK g : Walking(g, next, x, m) /\ Onward(next, x, m) = g[m]
  BY OnwardWalks
<1>5. f[n] = g[n]
  <2>1. n <= m
    BY <1>2
  <2>2. QED
    BY <1>3, <1>4, <2>1, WalksAgree
<1>6. g[m] = next[g[n]]
  <2>1. m \in 0 .. m /\ m # 0 /\ m - 1 = n
    BY <1>2
  <2>2. QED
    BY <1>4, <2>1 DEF Walking
<1>7. QED
  BY <1>1, <1>2, <1>3, <1>4, <1>5, <1>6

\* The first step may be taken by itself.
LEMMA OnwardFront ==
  ASSUME NEW next, NEW x, NEW n \in Nat
  PROVE  Onward(next, x, n + 1) = Onward(next, next[x], n)
<1> DEFINE y == next[x]
           S == {k \in 0 .. n : Onward(next, x, k + 1) = Onward(next, y, k)}
<1>1. 0 \in S
  <2>1. Onward(next, x, 0 + 1) = next[Onward(next, x, 0)] /\ Onward(next, x, 0) = x
        /\ Onward(next, y, 0) = y
    BY OnwardStep
  <2>2. QED
    BY <2>1
<1>2. ASSUME NEW k \in 1 .. n, k - 1 \in S PROVE k \in S
  <2>1. PICK j \in Nat : j = k - 1 /\ j + 1 = k /\ j \in S
    BY <1>2
  <2>2. Onward(next, x, j + 1) = Onward(next, y, j)
    BY <2>1
  <2> HIDE DEF y
  <2>3. Onward(next, x, k + 1) = next[Onward(next, x, k)]
    BY OnwardStep
  <2>4. Onward(next, y, j + 1) = next[Onward(next, y, j)]
    BY <2>1, OnwardStep
  <2>5. Onward(next, x, k + 1) = Onward(next, y, k)
    BY <2>1, <2>2, <2>3, <2>4
  <2>6. QED
    BY <2>5
<1>3. \A k \in 0 .. n : k \in S
  <2> HIDE DEF S
  <2>1. QED
    BY <1>1, <1>2, StepByStep
<1>4. n \in 0 .. n
  OBVIOUS
<1>5. QED
  BY <1>3, <1>4
-----------------------------------------------------------------------------
(* Trees: nodes 1 to n whose parents come before them, up to the root 1. *)

Rising(up, n) == \A i \in 2 .. n : up[i] \in 1 .. (i - 1)

\* The numbers of steps up from i that lead to the root.
Rises(up, n, i) == {k \in 0 .. n : Onward(up, i, k) = 1}

\* The least of them.
IsHeight(up, n, i, k) == k \in Rises(up, n, i) /\ \A j \in Rises(up, n, i) : k <= j

\* The root is above every node, not further than there are nodes before it.
LEMMA RootReached ==
  ASSUME NEW up, NEW n \in Nat, Rising(up, n), NEW i \in 1 .. n
  PROVE  \E k \in 0 .. (i - 1) : Onward(up, i, k) = 1
<1> DEFINE Bad == {j \in 1 .. n : ~ \E k \in 0 .. (j - 1) : Onward(up, j, k) = 1}
<1> SUFFICES ASSUME Bad # {} PROVE FALSE
  OBVIOUS
<1>1. PICK m \in Bad : \A j \in Bad : m <= j
  <2>1. Bad \subseteq Nat
    OBVIOUS
  <2>2. QED
    BY <2>1, LeastNatural
<1>2. m # 1
  <2>1. Onward(up, 1, 0) = 1 /\ 0 \in 0 .. (1 - 1)
    BY OnwardStep
  <2>2. QED
    BY <2>1
<1>3. m \in 2 .. n /\ up[m] \in 1 .. (m - 1) /\ up[m] \in 1 .. n
  <2>1. m \in 2 .. n
    BY <1>2
  <2>2. QED
    BY <2>1 DEF Rising
<1>4. up[m] \notin Bad
  BY <1>1, <1>3
<1>5. PICK k \in 0 .. (up[m] - 1) : Onward(up, up[m], k) = 1
  BY <1>3, <1>4
<1>6. k \in Nat /\ k + 1 \in 0 .. (m - 1)
  BY <1>3
<1>7. Onward(up, m, k + 1) = 1
  BY <1>5, <1>6, OnwardFront
<1>8. QED
  BY <1>1, <1>6, <1>7

\* Every node has a height.
LEMMA HeightExists ==
  ASSUME NEW up, NEW n \in Nat, Rising(up, n), NEW i \in 1 .. n
  PROVE  \E k \in 0 .. (i - 1) : IsHeight(up, n, i, k)
<1>1. PICK k \in 0 .. (i - 1) : Onward(up, i, k) = 1
  BY RootReached
<1>2. Rises(up, n, i) \subseteq Nat /\ k \in Rises(up, n, i)
  BY <1>1 DEF Rises
<1>3. PICK m \in Rises(up, n, i) : \A j \in Rises(up, n, i) : m <= j
  BY <1>2, LeastNatural
<1>4. m \in Nat /\ m <= k
  BY <1>2, <1>3
<1>5. m \in 0 .. (i - 1)
  BY <1>4
<1>6. QED
  BY <1>3, <1>5 DEF IsHeight

\* It is one more than that of the parent.
LEMMA HeightStep ==
  ASSUME NEW up, NEW n \in Nat, Rising(up, n), NEW i \in 2 .. n,
         NEW k \in Nat, IsHeight(up, n, up[i], k)
  PROVE  IsHeight(up, n, i, k + 1)
<1>1. up[i] \in 1 .. (i - 1) /\ up[i] \in 1 .. n
  BY DEF Rising
<1>2. \A j \in Nat : Onward(up, i, j + 1) = Onward(up, up[i], j)
  BY OnwardFront
<1>3. PICK m \in 0 .. (up[i] - 1) : IsHeight(up, n, up[i], m)
  BY <1>1, HeightExists
<1>4. k = m
  <2>1. k <= m /\ m <= k
    BY <1>3 DEF IsHeight
  <2>2. QED
    BY <2>1
<1>5. k + 1 \in 0 .. n
  BY <1>1, <1>4
<1>6. k + 1 \in Rises(up, n, i)
  BY <1>2, <1>5 DEF IsHeight, Rises
<1>7. ASSUME NEW j \in Rises(up, n, i) PROVE k + 1 <= j
  <2>1. j \in 0 .. n /\ Onward(up, i, j) = 1
    BY DEF Rises
  <2>2. j # 0
    <3>1. Onward(up, i, 0) = i
      BY OnwardStep
    <3>2. QED
      BY <2>1, <3>1
  <2>3. PICK l \in Nat : j = l + 1
    <3>1. j - 1 \in Nat /\ j = (j - 1) + 1
      BY <2>1, <2>2
    <3>2. QED
      BY <3>1
  <2>4. Onward(up, up[i], l) = 1 /\ l \in 0 .. n
    BY <1>2, <2>1, <2>3
  <2>5. l \in Rises(up, n, up[i])
    BY <2>4 DEF Rises
  <2>6. k <= l
    BY <2>5 DEF IsHeight
  <2>7. QED
    BY <2>3, <2>6
<1>8. QED
  BY <1>6, <1>7 DEF IsHeight

\* The root is at height 0.
LEMMA RootHeight ==
  ASSUME NEW up, NEW n \in Nat
  PROVE  IsHeight(up, n, 1, 0)
<1>1. Onward(up, 1, 0) = 1 /\ 0 \in 0 .. n
  BY OnwardStep
<1>2. QED
  BY <1>1 DEF IsHeight, Rises
-----------------------------------------------------------------------------
(* Runs of one word that show the same outputs. *)

ShownAt(aut, w, y, n) == aut.eta[<<PlacesFrom(aut, y, w)[n - 1], w[n]>>]

\* The trace of n letters from y, the runs that share it, and where they are.
TraceTo(aut, w, y, n) == [m \in 1 .. n |-> ShownAt(aut, w, y, m)]
Alike(aut, s, w, y, n) ==
  {z \in s : \A m \in 1 .. n : ShownAt(aut, w, z, m) = ShownAt(aut, w, y, m)}

Left(aut, s, w, y, n) == {PlacesFrom(aut, z, w)[n] : z \in Alike(aut, s, w, y, n)}

Branch(aut, s, w, y, n) ==
  [trace |-> TraceTo(aut, w, y, n), support |-> Left(aut, s, w, y, n)]
Branching(aut, s, w, n) == {Branch(aut, s, w, y, n) : y \in s}

\* What the runs that are alike before letter n show at it.
ShownNext(aut, s, w, y, n) == {ShownAt(aut, w, z, n) : z \in Alike(aut, s, w, y, n - 1)}

\* Words that agree so far lead to the same states so far.
LEMMA PlacesAgree ==
  ASSUME NEW aut \in Automata, NEW x \in States,
         NEW v \in Seq(Actions), NEW w \in Seq(Actions), Len(v) <= Len(w),
         \A n \in 1 .. Len(v) : v[n] = w[n]
  PROVE  \A n \in 0 .. Len(v) : PlacesFrom(aut, x, v)[n] = PlacesFrom(aut, x, w)[n]
<1> DEFINE P == PlacesFrom(aut, x, v)
           Q == PlacesFrom(aut, x, w)
           S == {n \in 0 .. Len(v) : P[n] = Q[n]}
<1>1. Len(v) \in Nat /\ Len(w) \in Nat
  OBVIOUS
<1>2. P[0] = x /\ \A n \in 1 .. Len(v) : P[n] = aut.delta[<<P[n - 1], v[n]>>]
  BY PlacesFromSound
<1>3. Q[0] = x /\ \A n \in 1 .. Len(w) : Q[n] = aut.delta[<<Q[n - 1], w[n]>>]
  BY PlacesFromSound
<1> HIDE DEF P, Q
<1>4. 0 \in S
  BY <1>1, <1>2, <1>3
<1>5. ASSUME NEW k \in 1 .. Len(v), k - 1 \in S PROVE k \in S
  <2>1. k \in 0 .. Len(v) /\ k \in 1 .. Len(w) /\ P[k - 1] = Q[k - 1] /\ v[k] = w[k]
    BY <1>1, <1>5
  <2>2. QED
    BY <1>2, <1>3, <2>1
<1>6. \A n \in 0 .. Len(v) : n \in S
  <2> HIDE DEF S
  <2>1. QED
    BY <1>1, <1>4, <1>5, StepByStep
<1>7. QED
  BY <1>6 DEF P, Q

LEMMA ShownOutput ==
  ASSUME NEW aut \in Automata, NEW w \in Seq(Actions), NEW y \in States, NEW n \in 1 .. Len(w)
  PROVE  ShownAt(aut, w, y, n) \in Outputs
<1>1. n - 1 \in 0 .. Len(w) /\ w[n] \in Actions
  OBVIOUS
<1>2. PlacesFrom(aut, y, w)[n - 1] \in States
  BY <1>1, PlacesFromSound
<1>3. aut.eta \in [Cells -> Outputs]
  BY DEF Automata
<1>4. QED
  BY <1>1, <1>2, <1>3 DEF ShownAt, Cells

\* One more letter is one more condition on the runs that are alike.
LEMMA AlikeStep ==
  ASSUME NEW aut \in Automata, NEW s \in Supports, NEW w \in Seq(Actions), NEW n \in 1 .. Len(w),
         NEW y \in s, NEW z \in Alike(aut, s, w, y, n - 1)
  PROVE  /\ Alike(aut, s, w, z, n)
              = {u \in Alike(aut, s, w, y, n - 1) : ShownAt(aut, w, u, n) = ShownAt(aut, w, z, n)}
         /\ TraceTo(aut, w, z, n) = Append(TraceTo(aut, w, y, n - 1), ShownAt(aut, w, z, n))
<1>1. /\ n \in 1 .. n /\ n \in Nat /\ n - 1 \in Nat
      /\ \A m \in 1 .. (n - 1) : m \in 1 .. n /\ m \in 1 .. Len(w)
  OBVIOUS
<1>2. \A m \in 1 .. n : m = n \/ m \in 1 .. (n - 1)
  OBVIOUS
<1>3. \A m \in 1 .. (n - 1) : ShownAt(aut, w, z, m) = ShownAt(aut, w, y, m)
  BY DEF Alike
<1>4. Alike(aut, s, w, z, n)
        = {u \in Alike(aut, s, w, y, n - 1) : ShownAt(aut, w, u, n) = ShownAt(aut, w, z, n)}
  BY <1>1, <1>2, <1>3 DEF Alike
<1> DEFINE before == TraceTo(aut, w, y, n - 1)
           all == TraceTo(aut, w, z, n)
<1>5. s \subseteq States /\ z \in s
  BY DEF Supports, Alike
<1>6. before \in Seq(Outputs) /\ Len(before) = n - 1 /\ ShownAt(aut, w, z, n) \in Outputs
  <2>1. \A m \in 1 .. (n - 1) : ShownAt(aut, w, y, m) \in Outputs
    BY <1>1, <1>5, ShownOutput
  <2>2. ShownAt(aut, w, z, n) \in Outputs
    BY <1>5, ShownOutput
  <2>3. before = [m \in 1 .. (n - 1) |-> ShownAt(aut, w, y, m)]
    BY DEF TraceTo
  <2>4. before \in [1 .. (n - 1) -> Outputs]
    BY <2>1, <2>3
  <2> HIDE DEF before
  <2>5. before \in Seq(Outputs) /\ Len(before) = n - 1
    BY <1>1, <2>4
  <2>6. QED
    BY <2>2, <2>5
<1>7. \A m \in 1 .. (n - 1) : before[m] = ShownAt(aut, w, z, m)
  BY <1>3 DEF TraceTo
<1> HIDE DEF before
<1> DEFINE app == Append(before, ShownAt(aut, w, z, n))
<1>8. /\ app = [m \in 1 .. n |-> app[m]]
      /\ app[n] = ShownAt(aut, w, z, n)
      /\ \A m \in 1 .. (n - 1) : app[m] = before[m]
  <2>1. app \in Seq(Outputs) /\ Len(app) = n
    BY <1>1, <1>6
  <2>2. app[n] = ShownAt(aut, w, z, n) /\ \A m \in 1 .. (n - 1) : app[m] = before[m]
    BY <1>1, <1>6
  <2> HIDE DEF app
  <2>3. app = [m \in 1 .. n |-> app[m]]
    BY <2>1
  <2>4. QED
    BY <2>2, <2>3
<1>9. \A m \in 1 .. n : app[m] = ShownAt(aut, w, z, m)
  BY <1>2, <1>7, <1>8
<1> HIDE DEF app
<1>10. app = all
  BY <1>8, <1>9 DEF TraceTo
<1>11. QED
  BY <1>4, <1>10 DEF before, app, all

\* What is observed at the next letter leaves a branch of the longer word.
LEMMA AlikeObserved ==
  ASSUME NEW aut \in Automata, NEW s \in Supports, NEW w \in Seq(Actions), NEW n \in 1 .. Len(w),
         NEW y \in s, NEW z \in Alike(aut, s, w, y, n - 1)
  PROVE  Observed(aut, Left(aut, s, w, y, n - 1), w[n], ShownAt(aut, w, z, n))
           = Left(aut, s, w, z, n)
<1> DEFINE here == Alike(aut, s, w, y, n - 1)
           before == {PlacesFrom(aut, u, w)[n - 1] : u \in here}
           after == {PlacesFrom(aut, u, w)[n] : u \in Alike(aut, s, w, z, n)}
           kept == {x \in before : aut.eta[<<x, w[n]>>] = ShownAt(aut, w, z, n)}
           moved == {aut.delta[<<x, w[n]>>] : x \in kept}
<1>1. Observed(aut, before, w[n], ShownAt(aut, w, z, n)) = moved
  BY DEF Observed, Moved
<1>2. Alike(aut, s, w, z, n) = {u \in here : ShownAt(aut, w, u, n) = ShownAt(aut, w, z, n)}
  BY AlikeStep
<1>3. here \subseteq s /\ s \subseteq States
  BY DEF Alike, Supports
<1>4. \A u \in here :
        /\ PlacesFrom(aut, u, w)[n] = aut.delta[<<PlacesFrom(aut, u, w)[n - 1], w[n]>>]
        /\ ShownAt(aut, w, u, n) = aut.eta[<<PlacesFrom(aut, u, w)[n - 1], w[n]>>]
  BY <1>3, PlacesFromSound DEF ShownAt
<1>5. ASSUME NEW u \in Alike(aut, s, w, z, n) PROVE PlacesFrom(aut, u, w)[n] \in moved
  <2>1. u \in here /\ ShownAt(aut, w, u, n) = ShownAt(aut, w, z, n)
    BY <1>2
  <2>2. PlacesFrom(aut, u, w)[n - 1] \in kept
    BY <1>4, <2>1
  <2>3. QED
    BY <1>4, <2>1, <2>2
<1>6. ASSUME NEW p \in moved PROVE p \in after
  <2>1. PICK x \in kept : p = aut.delta[<<x, w[n]>>]
    OBVIOUS
  <2>2. PICK u \in here : x = PlacesFrom(aut, u, w)[n - 1]
    BY <2>1
  <2>3. u \in Alike(aut, s, w, z, n)
    BY <1>2, <1>4, <2>1, <2>2
  <2>4. p = PlacesFrom(aut, u, w)[n]
    BY <1>4, <2>1, <2>2
  <2>5. QED
    BY <2>3, <2>4
<1>7. after = moved
  <2>1. \A p \in after : p \in moved
    BY <1>5
  <2> HIDE DEF after, moved
  <2>2. QED
    BY <1>6, <2>1
<1>8. QED
  BY <1>1, <1>7 DEF Left

\* What may be observed at the next letter is what the runs of a branch show.
LEMMA AlikeShowing ==
  ASSUME NEW aut, NEW s, NEW w, NEW n, NEW y
  PROVE  Showing(aut, Left(aut, s, w, y, n - 1), w[n])
           = ShownNext(aut, s, w, y, n)
<1> DEFINE at == {PlacesFrom(aut, z, w)[n - 1] : z \in Alike(aut, s, w, y, n - 1)}
           shown == {ShownAt(aut, w, z, n) : z \in Alike(aut, s, w, y, n - 1)}
           showing == {aut.eta[<<x, w[n]>>] : x \in at}
<1>1. Showing(aut, Left(aut, s, w, y, n - 1), w[n]) = showing
  BY DEF Showing, Left
<1>2. \A z \in Alike(aut, s, w, y, n - 1) :
        ShownAt(aut, w, z, n) = aut.eta[<<PlacesFrom(aut, z, w)[n - 1], w[n]>>]
  BY DEF ShownAt
<1>3. \A o \in shown : o \in showing
  BY <1>2
<1>4. \A o \in showing : o \in shown
  BY <1>2
<1> HIDE DEF shown, showing
<1>5. showing = shown
  BY <1>3, <1>4
<1>6. QED
  BY <1>1, <1>5 DEF shown, ShownNext

\* Splitting the branches of a word gives those of the longer word.
LEMMA SplitBranches ==
  ASSUME NEW aut \in Automata, NEW s \in Supports, NEW w \in Seq(Actions), NEW n \in 1 .. Len(w)
  PROVE  Split(aut, Branching(aut, s, w, n - 1), w[n]) = Branching(aut, s, w, n)
<1> DEFINE a == w[n]
           old == Branching(aut, s, w, n - 1)
           both == UNION {{c} \X Showing(aut, c.support, a) : c \in old}
           Next1(c, o) == [trace |-> Append(c.trace, o), support |-> Observed(aut, c.support, a, o)]
<1>1. Split(aut, old, a) = {Next1(b[1], b[2]) : b \in both}
  BY DEF Split
<1>2. ASSUME NEW y \in s, NEW z \in Alike(aut, s, w, y, n - 1)
      PROVE  Next1(Branch(aut, s, w, y, n - 1), ShownAt(aut, w, z, n)) = Branch(aut, s, w, z, n)
  <2>1. TraceTo(aut, w, z, n) = Append(TraceTo(aut, w, y, n - 1), ShownAt(aut, w, z, n))
    BY AlikeStep
  <2>2. Observed(aut, Left(aut, s, w, y, n - 1), a, ShownAt(aut, w, z, n))
          = Left(aut, s, w, z, n)
    BY AlikeObserved
  <2>3. Branch(aut, s, w, y, n - 1).trace = TraceTo(aut, w, y, n - 1)
    BY DEF Branch
  <2>4. Branch(aut, s, w, z, n) = [trace |-> TraceTo(aut, w, z, n), support |-> Left(aut, s, w, z, n)]
    BY DEF Branch
  <2>5. Branch(aut, s, w, y, n - 1).support = Left(aut, s, w, y, n - 1)
    BY DEF Branch
  <2>6. QED
    BY <2>1, <2>2, <2>3, <2>4, <2>5
<1>3. ASSUME NEW b \in both PROVE Next1(b[1], b[2]) \in Branching(aut, s, w, n)
  <2>1. PICK c \in old : b \in {c} \X Showing(aut, c.support, a)
    OBVIOUS
  <2>2. PICK y \in s : c = Branch(aut, s, w, y, n - 1)
    BY DEF Branching
  <2>3. b[1] = c /\ b[2] \in Showing(aut, c.support, a)
    BY <2>1
  <2>4. b[2] \in ShownNext(aut, s, w, y, n)
    <3>1. c.support = Left(aut, s, w, y, n - 1)
      BY <2>2 DEF Branch
    <3>2. QED
      BY <2>3, <3>1, AlikeShowing
  <2>5. PICK z \in Alike(aut, s, w, y, n - 1) : b[2] = ShownAt(aut, w, z, n)
    BY <2>4 DEF ShownNext
  <2>6. z \in s
    BY DEF Alike
  <2> HIDE DEF Next1
  <2>7. Next1(b[1], b[2]) = Branch(aut, s, w, z, n)
    BY <1>2, <2>2, <2>3, <2>5
  <2>8. QED
    BY <2>6, <2>7 DEF Branching
<1>4. ASSUME NEW z \in s
      PROVE  \E b \in both : Branch(aut, s, w, z, n) = Next1(b[1], b[2])
  <2> DEFINE c == Branch(aut, s, w, z, n - 1)
             b == <<c, ShownAt(aut, w, z, n)>>
  <2>1. z \in Alike(aut, s, w, z, n - 1)
    BY DEF Alike
  <2>2. c \in old
    BY DEF Branching
  <2>3. ShownAt(aut, w, z, n) \in Showing(aut, c.support, a)
    <3>1. ShownAt(aut, w, z, n) \in ShownNext(aut, s, w, z, n)
      BY <2>1 DEF ShownNext
    <3>2. c.support = Left(aut, s, w, z, n - 1)
      BY DEF Branch
    <3>3. QED
      BY <3>1, <3>2, AlikeShowing
  <2>4. b \in both
    BY <2>2, <2>3
  <2>5. Next1(b[1], b[2]) = Branch(aut, s, w, z, n)
    <3> HIDE DEF Next1, c
    <3>1. Next1(b[1], b[2]) = Next1(c, ShownAt(aut, w, z, n))
      OBVIOUS
    <3>2. Next1(c, ShownAt(aut, w, z, n)) = Branch(aut, s, w, z, n)
      BY <1>2, <2>1 DEF c
    <3>3. QED
      BY <3>1, <3>2
  <2>6. QED
    BY <2>4, <2>5
<1>5. \A x \in {Next1(b[1], b[2]) : b \in both} : x \in Branching(aut, s, w, n)
  <2> HIDE DEF Next1, both
  <2>1. QED
    BY <1>3
<1>6. \A x \in Branching(aut, s, w, n) : x \in {Next1(b[1], b[2]) : b \in both}
  <2> HIDE DEF Next1, both
  <2>1. QED
    BY <1>4 DEF Branching
<1> HIDE DEF Next1, both
<1>7. QED
  BY <1>1, <1>5, <1>6

\* The branches of a word are its runs, grouped by what they show.
LEMMA BranchesAre ==
  ASSUME NEW aut \in Automata, NEW s \in Supports, NEW w \in Seq(Actions), s # {}
  PROVE  BranchesOf(aut, s, w) = Branching(aut, s, w, Len(w))
<1> DEFINE N == Len(w)
           root == {[trace |-> <<>>, support |-> s]}
           Are(f) == f = [n \in 0 .. N |->
                           IF n = 0 THEN root ELSE Split(aut, f[n - 1], w[n])]
           g == [n \in 0 .. N |-> Branching(aut, s, w, n)]
<1>1. N \in Nat /\ s \subseteq States
  BY DEF Supports
<1>2. Branching(aut, s, w, 0) = root
  <2>1. ASSUME NEW y \in s
        PROVE  Branch(aut, s, w, y, 0) = [trace |-> <<>>, support |-> s]
    <3>1. Alike(aut, s, w, y, 0) = s
      BY DEF Alike
    <3>2. \A z \in s : PlacesFrom(aut, z, w)[0] = z
      BY <1>1, PlacesFromSound
    <3>3. {PlacesFrom(aut, z, w)[0] : z \in s} = s
      BY <3>2
    <3>4. TraceTo(aut, w, y, 0) = <<>>
      BY DEF TraceTo
    <3>5. QED
      BY <3>1, <3>3, <3>4 DEF Branch, Left
  <2>2. QED
    BY <2>1 DEF Branching
<1>3. \A n \in 1 .. N : Branching(aut, s, w, n) = Split(aut, Branching(aut, s, w, n - 1), w[n])
  BY SplitBranches
<1>4. Are(g)
  <2> DEFINE h == [n \in 0 .. N |-> IF n = 0 THEN root ELSE Split(aut, g[n - 1], w[n])]
  <2>1. \A n \in 0 .. N : g[n] = h[n]
    <3>1. \A n \in 0 .. N : n = 0 \/ (n \in 1 .. N /\ n - 1 \in 0 .. N)
      BY <1>1
    <3> HIDE DEF root
    <3>2. QED
      BY <1>2, <1>3, <3>1
  <2>2. g = [n \in 0 .. N |-> g[n]] /\ h = [n \in 0 .. N |-> h[n]]
    OBVIOUS
  <2> HIDE DEF g, h
  <2>3. g = h
    BY <2>1, <2>2
  <2>4. QED
    BY <2>3 DEF h
<1> DEFINE M == CHOOSE f : Are(f)
<1>6. BranchesOf(aut, s, w) = M[Len(w)]
  BY DEF BranchesOf
<1>7. Are(M)
  <2> HIDE DEF Are, g
  <2>1. QED
    BY <1>4
<1> HIDE DEF M, root
<1>8. \A n \in 0 .. N : M[n] = g[n]
  <2> DEFINE S == {n \in 0 .. N : M[n] = g[n]}
  <2>1. 0 \in S
    <3>1. 0 \in 0 .. N
      BY <1>1
    <3>2. M[0] = root
      BY <1>7, <3>1
    <3>3. QED
      BY <1>2, <3>1, <3>2
  <2>2. ASSUME NEW k \in 1 .. N, k - 1 \in S PROVE k \in S
    <3>1. k \in 0 .. N /\ k # 0 /\ k - 1 \in 0 .. N /\ M[k - 1] = g[k - 1]
      BY <2>2, <1>1
    <3>2. M[k] = Split(aut, M[k - 1], w[k])
      BY <1>7, <3>1
    <3>3. g[k] = Split(aut, g[k - 1], w[k])
      BY <1>3, <3>1
    <3> HIDE DEF g
    <3>4. QED
      BY <3>1, <3>2, <3>3
  <2>3. QED
    <3> HIDE DEF S
    <3>1. \A n \in 0 .. N : n \in S
      BY <1>1, <2>1, <2>2, StepByStep
    <3>2. QED
      BY <3>1 DEF S
<1>9. N \in 0 .. N
  BY <1>1
<1>10. g[N] = Branching(aut, s, w, N)
  BY <1>9
<1>11. QED
  BY <1>6, <1>8, <1>9, <1>10

\* Forgetting the traces: what the next letter leaves of what the runs left.
PartsOf(aut, partition, a) ==
  UNION {{Observed(aut, c, a, o) : o \in Showing(aut, c, a)} : c \in partition}
LeftOf(aut, s, w, n) == {Left(aut, s, w, y, n) : y \in s}

LEMMA LeftParts ==
  ASSUME NEW aut \in Automata, NEW s \in Supports, NEW w \in Seq(Actions), NEW n \in 1 .. Len(w)
  PROVE  PartsOf(aut, LeftOf(aut, s, w, n - 1), w[n]) = LeftOf(aut, s, w, n)
<1> DEFINE a == w[n]
           old == {Left(aut, s, w, y, n - 1) : y \in s}
           new == {Left(aut, s, w, y, n) : y \in s}
           Parts(c) == {Observed(aut, c, a, o) : o \in Showing(aut, c, a)}
<1>1. ASSUME NEW c \in old, NEW o \in Showing(aut, c, a) PROVE Observed(aut, c, a, o) \in new
  <2>1. PICK y \in s : c = Left(aut, s, w, y, n - 1)
    OBVIOUS
  <2>2. o \in ShownNext(aut, s, w, y, n)
    BY <2>1, AlikeShowing
  <2>3. PICK z \in Alike(aut, s, w, y, n - 1) : o = ShownAt(aut, w, z, n)
    BY <2>2 DEF ShownNext
  <2>4. Observed(aut, c, a, o) = Left(aut, s, w, z, n) /\ z \in s
    BY <2>1, <2>3, AlikeObserved DEF Alike
  <2>5. QED
    BY <2>4
<1>2. ASSUME NEW z \in s
      PROVE  \E c \in old : \E o \in Showing(aut, c, a) : Left(aut, s, w, z, n) = Observed(aut, c, a, o)
  <2>1. PICK c \in old : c = Left(aut, s, w, z, n - 1)
    OBVIOUS
  <2>2. z \in Alike(aut, s, w, z, n - 1)
    BY DEF Alike
  <2>3. ShownAt(aut, w, z, n) \in ShownNext(aut, s, w, z, n)
    BY <2>2 DEF ShownNext
  <2>4. ShownAt(aut, w, z, n) \in Showing(aut, c, a)
    BY <2>1, <2>3, AlikeShowing
  <2>5. Left(aut, s, w, z, n) = Observed(aut, c, a, ShownAt(aut, w, z, n))
    BY <2>1, <2>2, AlikeObserved
  <2>6. QED
    BY <2>4, <2>5
<1>3. \A x \in UNION {Parts(c) : c \in old} : x \in new
  <2> HIDE DEF old, new, a
  <2>1. QED
    BY <1>1
<1>4. \A x \in new : x \in UNION {Parts(c) : c \in old}
  <2>1. ASSUME NEW z \in s PROVE Left(aut, s, w, z, n) \in UNION {Parts(c) : c \in old}
    <3> HIDE DEF old, a
    <3>1. QED
      BY <1>2
  <2>2. QED
    BY <2>1
<1> HIDE DEF old, new, Parts
<1>5. UNION {Parts(c) : c \in old} = new
  BY <1>3, <1>4
<1>6. QED
  BY <1>5 DEF old, new, Parts, PartsOf, LeftOf

LEMMA LeftRoot ==
  ASSUME NEW aut \in Automata, NEW s \in Supports, NEW w \in Seq(Actions), NEW y \in s
  PROVE  Left(aut, s, w, y, 0) = s
<1>1. Alike(aut, s, w, y, 0) = s
  BY DEF Alike
<1>2. \A z \in s : PlacesFrom(aut, z, w)[0] = z
  BY PlacesFromSound DEF Supports
<1>3. QED
  BY <1>1, <1>2 DEF Left

\* Where the runs are that show what the run from y shows.
LEMMA AgreeingLeft ==
  ASSUME NEW aut \in Automata, NEW s \in Supports, NEW w \in Seq(Actions), NEW y \in s
  PROVE  Agreeing(aut, s, w, TraceFrom(aut, y, w)) = Left(aut, s, w, y, Len(w))
<1> DEFINE N == Len(w)
           T(x) == TraceFrom(aut, x, w)
<1>1. ASSUME NEW x
      PROVE  T(x) = [n \in 1 .. N |-> ShownAt(aut, w, x, n)]
  <2>1. DOMAIN w = 1 .. N
    OBVIOUS
  <2>2. QED
    BY <2>1 DEF TraceFrom, ShownAt
<1>2. ASSUME NEW x \in s
      PROVE  T(x) = T(y) <=> \A n \in 1 .. N : ShownAt(aut, w, x, n) = ShownAt(aut, w, y, n)
  <2>1. \A n \in 1 .. N : T(x)[n] = ShownAt(aut, w, x, n) /\ T(y)[n] = ShownAt(aut, w, y, n)
    BY <1>1
  <2>2. T(x) = [n \in 1 .. N |-> T(x)[n]] /\ T(y) = [n \in 1 .. N |-> T(y)[n]]
    BY <1>1
  <2> HIDE DEF T
  <2>3. QED
    BY <2>1, <2>2
<1>3. {x \in s : T(x) = T(y)} = Alike(aut, s, w, y, N)
  <2> HIDE DEF T
  <2>1. QED
    BY <1>2 DEF Alike
<1>4. QED
  BY <1>3 DEF Agreeing, Left

\* A branch is the supports that its runs leave; every run has one.
LEMMA BranchSupports ==
  ASSUME NEW aut \in Automata, NEW s \in Supports, NEW w \in Seq(Actions), s # {}
  PROVE  {b.support : b \in BranchesOf(aut, s, w)}
           = {Agreeing(aut, s, w, TraceFrom(aut, y, w)) : y \in s}
<1>1. BranchesOf(aut, s, w) = Branching(aut, s, w, Len(w))
  BY BranchesAre
<1>2. \A y \in s : /\ Branch(aut, s, w, y, Len(w)).support = Left(aut, s, w, y, Len(w))
                    /\ Agreeing(aut, s, w, TraceFrom(aut, y, w)) = Left(aut, s, w, y, Len(w))
  BY AgreeingLeft DEF Branch
<1>3. QED
  BY <1>1, <1>2 DEF Branching


-----------------------------------------------------------------------------
(* The words that a search reads back from its queue, whose nodes hang from *)
(* earlier ones.                                                           *)

UpOf(queue) == [j \in 0 .. Len(queue) |-> IF j = 0 THEN 0 ELSE queue[j].parent]

\* Every node but the first hangs from an earlier one, by an action in A.
Hanging(queue, A) ==
  /\ Len(queue) \in Nat \ {0}
  /\ \A i \in 2 .. Len(queue) : queue[i].parent \in 1 .. (i - 1) /\ queue[i].act \in A

\* The last k letters up from node i, in the order of the word.
Upward(queue, i, k) == [n \in 1 .. k |-> queue[Onward(UpOf(queue), i, k - n)].act]

\* sg_search_reconstruct, along the height of the node.
Height(queue, i) == CHOOSE k : IsHeight(UpOf(queue), Len(queue), i, k)
ReadBack(queue, i) == Upward(queue, i, Height(queue, i))

LEMMA HangingRises ==
  ASSUME NEW queue, NEW A, Hanging(queue, A)
  PROVE  /\ Len(queue) \in Nat \ {0} /\ Rising(UpOf(queue), Len(queue))
         /\ \A i \in 1 .. Len(queue) : UpOf(queue)[i] = queue[i].parent
<1>1. Len(queue) \in Nat \ {0}
  BY DEF Hanging
<1>2. \A i \in 1 .. Len(queue) : UpOf(queue)[i] = queue[i].parent
  BY <1>1 DEF UpOf
<1>3. \A i \in 2 .. Len(queue) : i \in 1 .. Len(queue)
  BY <1>1
<1>4. QED
  BY <1>1, <1>2, <1>3 DEF Hanging, Rising

LEMMA HeightIs ==
  ASSUME NEW queue, NEW i, NEW k \in Nat, IsHeight(UpOf(queue), Len(queue), i, k), Len(queue) \in Nat
  PROVE  Height(queue, i) = k
<1> DEFINE R == Rises(UpOf(queue), Len(queue), i)
           h == Height(queue, i)
<1>1. R \subseteq Nat
  BY DEF Rises
<1>2. k \in R /\ \A j \in R : k <= j
  BY DEF IsHeight
<1>3. h \in R /\ \A j \in R : h <= j
  BY DEF Height, IsHeight
<1> HIDE DEF h, R
<1>4. h = k
  BY <1>1, <1>2, <1>3
<1>5. QED
  BY <1>4 DEF h

\* What holds of the first node, and of a node when it holds of the one it
\* hangs from, holds of all.
LEMMA DownTheTree ==
  ASSUME NEW queue, NEW A, Hanging(queue, A), NEW S, 1 \in S,
         \A i \in 2 .. Len(queue) : queue[i].parent \in S => i \in S
  PROVE  \A i \in 1 .. Len(queue) : i \in S
<1> DEFINE Bad == {i \in 1 .. Len(queue) : i \notin S}
<1> SUFFICES ASSUME Bad # {} PROVE FALSE
  OBVIOUS
<1>1. PICK i \in Bad : \A j \in Bad : i <= j
  <2>1. Bad \subseteq Nat
    OBVIOUS
  <2>2. QED
    BY <2>1, LeastNatural
<1>2. Len(queue) \in Nat
  BY DEF Hanging
<1>3. i \in 2 .. Len(queue)
  BY <1>2
<1>4. PICK p \in 1 .. (i - 1) : p = queue[i].parent
  BY <1>3 DEF Hanging
<1>5. p \in 1 .. Len(queue) /\ p < i
  BY <1>2, <1>3, <1>4
<1>6. p \in S
  BY <1>1, <1>5
<1>7. QED
  BY <1>3, <1>4, <1>6

LEMMA ReadBackRoot ==
  ASSUME NEW queue, Len(queue) \in Nat
  PROVE  Height(queue, 1) = 0 /\ ReadBack(queue, 1) = <<>>
<1>1. IsHeight(UpOf(queue), Len(queue), 1, 0)
  BY RootHeight
<1>2. Height(queue, 1) = 0
  BY <1>1, HeightIs
<1>3. QED
  BY <1>2 DEF ReadBack, Upward

\* Every node is read back as a word of permitted letters, the letter of the
\* node after the word of the one it hangs from.
LEMMA ReadBackNext ==
  ASSUME NEW queue, NEW A, Hanging(queue, A), NEW i \in 2 .. Len(queue)
  PROVE  /\ Height(queue, i) = Height(queue, queue[i].parent) + 1
         /\ ReadBack(queue, i) = Append(ReadBack(queue, queue[i].parent), queue[i].act)
<1>1. /\ Len(queue) \in Nat /\ Rising(UpOf(queue), Len(queue))
      /\ UpOf(queue)[i] = queue[i].parent
  <2>1. i \in 1 .. Len(queue)
    BY DEF Hanging
  <2>2. QED
    BY <2>1, HangingRises
<1>2. PICK p \in 1 .. (i - 1) : p = queue[i].parent
  BY DEF Hanging
<1>3. PICK a : a = queue[i].act
  OBVIOUS
<1>4. p \in 1 .. Len(queue)
  BY <1>1, <1>2
<1>5. PICK k \in 0 .. (p - 1) : IsHeight(UpOf(queue), Len(queue), p, k)
  BY <1>1, <1>4, HeightExists
<1>6. k \in Nat /\ k + 1 \in Nat
  BY <1>2, <1>5
<1>7. IsHeight(UpOf(queue), Len(queue), i, k + 1)
  BY <1>1, <1>2, <1>5, <1>6, HeightStep
<1>8. Height(queue, p) = k /\ Height(queue, i) = k + 1
  BY <1>1, <1>5, <1>6, <1>7, HeightIs
<1> DEFINE q == [n \in 1 .. k |-> queue[Onward(UpOf(queue), p, k - n)].act]
           u == [n \in 1 .. (k + 1) |-> queue[Onward(UpOf(queue), i, (k + 1) - n)].act]
           v == [n \in 1 .. (k + 1) |-> IF n = k + 1 THEN a ELSE q[n]]
<1>9. ReadBack(queue, p) = q /\ ReadBack(queue, i) = u
  BY <1>8 DEF ReadBack, Upward
<1>10. Append(q, a) = v
  BY <1>6
<1>11. ASSUME NEW n \in 1 .. (k + 1) PROVE u[n] = v[n]
  <2>1. CASE n = k + 1
    <3>1. (k + 1) - n = 0
      BY <1>6, <2>1
    <3>2. Onward(UpOf(queue), i, 0) = i
      BY OnwardStep
    <3>3. QED
      BY <1>3, <2>1, <3>1, <3>2
  <2>2. CASE n # k + 1
    <3>1. PICK m \in Nat : m = k - n /\ (k + 1) - n = m + 1 /\ n \in 1 .. k
      <4>1. k - n \in Nat /\ (k + 1) - n = (k - n) + 1 /\ n \in 1 .. k
        BY <1>6, <2>2
      <4>2. QED
        BY <4>1
    <3>2. Onward(UpOf(queue), i, m + 1) = Onward(UpOf(queue), p, m)
      BY <1>1, <1>2, OnwardFront
    <3>3. q[n] = queue[Onward(UpOf(queue), p, m)].act
      BY <3>1
    <3>4. u[n] = queue[Onward(UpOf(queue), i, m + 1)].act
      BY <3>1
    <3>5. QED
      BY <2>2, <3>2, <3>3, <3>4
  <2>3. QED
    BY <2>1, <2>2
<1>12. u = v
  <2>1. u = [n \in 1 .. (k + 1) |-> u[n]] /\ v = [n \in 1 .. (k + 1) |-> v[n]]
    OBVIOUS
  <2> HIDE DEF u, v
  <2>2. QED
    BY <1>11, <2>1
<1> HIDE DEF q, u, v
<1>13. QED
  BY <1>2, <1>3, <1>8, <1>9, <1>10, <1>12

LEMMA ReadBackWord ==
  ASSUME NEW queue, NEW A, Hanging(queue, A), NEW i \in 1 .. Len(queue)
  PROVE  /\ Height(queue, i) \in Nat /\ ReadBack(queue, i) \in Seq(A)
         /\ Len(ReadBack(queue, i)) = Height(queue, i)
<1> DEFINE Read(j) == /\ Height(queue, j) \in Nat /\ ReadBack(queue, j) \in Seq(A)
                      /\ Len(ReadBack(queue, j)) = Height(queue, j)
           S == {j \in 1 .. Len(queue) : Read(j)}
<1>1. Len(queue) \in Nat \ {0}
  BY DEF Hanging
<1>2. 1 \in S
  <2>1. PICK w \in Seq(A) : w = <<>> /\ Len(w) = 0
    <3>1. <<>> \in Seq(A) /\ Len(<<>>) = 0
      OBVIOUS
    <3>2. QED
      BY <3>1
  <2>2. Height(queue, 1) = 0 /\ ReadBack(queue, 1) = w
    BY <1>1, <2>1, ReadBackRoot
  <2>3. Read(1)
    <3>1. Height(queue, 1) \in Nat
      BY <2>2
    <3>2. ReadBack(queue, 1) \in Seq(A)
      BY <2>1, <2>2
    <3>3. Len(ReadBack(queue, 1)) = Height(queue, 1)
      BY <2>1, <2>2
    <3>4. QED
      BY <3>1, <3>2, <3>3
  <2>4. 1 \in 1 .. Len(queue)
    BY <1>1
  <2> HIDE DEF Read
  <2>5. QED
    BY <2>3, <2>4
<1>3. ASSUME NEW j \in 2 .. Len(queue), queue[j].parent \in S PROVE j \in S
  <2>1. PICK p : p = queue[j].parent
    OBVIOUS
  <2>2. PICK a \in A : a = queue[j].act
    BY DEF Hanging
  <2>3. PICK w \in Seq(A) : w = ReadBack(queue, p) /\ Len(w) = Height(queue, p)
    BY <1>3, <2>1
  <2>4. Append(w, a) \in Seq(A) /\ Len(Append(w, a)) = Len(w) + 1 /\ Len(w) \in Nat
    OBVIOUS
  <2>5. ReadBack(queue, j) = Append(w, a) /\ Height(queue, j) = Len(w) + 1
    BY <2>1, <2>2, <2>3, ReadBackNext
  <2>6. QED
    BY <1>1, <2>4, <2>5
<1> HIDE DEF S
<1>4. i \in S
  BY <1>2, <1>3, DownTheTree
<1>5. QED
  BY <1>4 DEF S

\* Nodes keep their height when the queue gets longer.
LEMMA HeightKept ==
  ASSUME NEW q, NEW r, NEW A, Hanging(q, A), Hanging(r, A), Len(q) <= Len(r),
         \A i \in 1 .. Len(q) : r[i] = q[i]
  PROVE  \A i \in 1 .. Len(q) : Height(r, i) = Height(q, i)
<1> DEFINE S == {i \in 1 .. Len(q) : Height(r, i) = Height(q, i)}
<1>1. Len(q) \in Nat \ {0} /\ Len(r) \in Nat \ {0}
  BY DEF Hanging
<1>2. 1 \in S
  <2>1. Height(r, 1) = 0 /\ Height(q, 1) = 0
    BY <1>1, ReadBackRoot
  <2>2. QED
    BY <1>1, <2>1
<1>3. ASSUME NEW i \in 2 .. Len(q), q[i].parent \in S PROVE i \in S
  <2>1. PICK p : p = q[i].parent
    OBVIOUS
  <2>2. i \in 2 .. Len(r) /\ i \in 1 .. Len(q) /\ r[i] = q[i] /\ r[i].parent = p
    BY <1>1, <2>1
  <2>3. Height(q, i) = Height(q, p) + 1
    BY <2>1, ReadBackNext
  <2>4. Height(r, i) = Height(r, p) + 1
    BY <2>2, ReadBackNext
  <2>5. Height(r, p) = Height(q, p)
    BY <1>3, <2>1
  <2>6. QED
    BY <2>2, <2>3, <2>4, <2>5
<1> HIDE DEF S
<1>4. \A i \in 1 .. Len(q) : i \in S
  BY <1>2, <1>3, DownTheTree
<1>5. QED
  BY <1>4 DEF S

-----------------------------------------------------------------------------
(* Searches that go by breadth.  What node i holds is held[i], a letter     *)
(* leads from what is held to succ of it, the node dequeued last is head,   *)
(* and the letters before letter were applied to it.                        *)

\* What the letter leads to is held by a node at most one letter deeper.
NearTo(queue, held, succ, i, a) ==
  \E j \in 1 .. Len(queue) :
    held[j] = succ[<<held[i], a>>] /\ Height(queue, j) <= Height(queue, i) + 1

Sorted(queue) ==
  \A i, j \in 1 .. Len(queue) : i <= j => Height(queue, i) <= Height(queue, j)

Breadth(queue, held, succ, word, head, letter) ==
  /\ Sorted(queue)
  /\ head = 0 => Len(queue) = 1
  /\ head # 0 => \A j \in 1 .. Len(queue) : Height(queue, j) <= Height(queue, head) + 1
  /\ \A i \in 1 .. (head - 1) : \A l \in 1 .. Len(word) : NearTo(queue, held, succ, i, word[l])
  /\ head # 0 => \A l \in 1 .. (letter - 1) : NearTo(queue, held, succ, head, word[l])

LEMMA BreadthStarts ==
  ASSUME NEW queue, NEW held, NEW succ, NEW word, NEW letter, Len(queue) = 1
  PROVE  Breadth(queue, held, succ, word, 0, letter)
<1>1. Height(queue, 1) = 0
  BY ReadBackRoot
<1>2. Sorted(queue)
  BY <1>1 DEF Sorted
<1>3. QED
  BY <1>2 DEF Breadth

\* The next node is dequeued when all letters were applied to the last one.
LEMMA BreadthExpands ==
  ASSUME NEW queue, NEW A, Hanging(queue, A), NEW held, NEW succ, NEW word,
         Len(word) \in Nat, NEW head \in 0 .. Len(queue), head < Len(queue),
         Breadth(queue, held, succ, word, head, Len(word) + 1)
  PROVE  Breadth(queue, held, succ, word, head + 1, 1)
<1>1. Len(queue) \in Nat \ {0} /\ \A i \in 1 .. Len(queue) : Height(queue, i) \in Nat
  BY ReadBackWord DEF Hanging
<1>2. head + 1 \in 1 .. Len(queue) /\ head + 1 # 0 /\ head \in Nat
  BY <1>1
<1>3. ASSUME NEW j \in 1 .. Len(queue) PROVE Height(queue, j) <= Height(queue, head + 1) + 1
  <2>1. CASE head = 0
    <3>1. Len(queue) = 1
      BY <2>1 DEF Breadth
    <3>2. j = 1 /\ head + 1 = 1
      BY <2>1, <3>1
    <3>3. QED
      BY <1>1, <3>2
  <2>2. CASE head # 0
    <3>1. PICK n : n = head + 1 /\ n \in 1 .. Len(queue) /\ head <= n
      BY <1>2
    <3>2. head \in 1 .. Len(queue)
      BY <1>2, <2>2
    <3>3. Height(queue, j) <= Height(queue, head) + 1 /\ Height(queue, head) <= Height(queue, n)
      BY <2>2, <3>1, <3>2 DEF Breadth, Sorted
    <3>4. QED
      BY <1>1, <3>1, <3>2, <3>3
  <2>3. QED
    BY <2>1, <2>2
<1>4. ASSUME NEW i \in 1 .. ((head + 1) - 1), NEW l \in 1 .. Len(word)
      PROVE  NearTo(queue, held, succ, i, word[l])
  <2>1. i = head \/ i \in 1 .. (head - 1)
    BY <1>2
  <2>2. head # 0 /\ l \in 1 .. ((Len(word) + 1) - 1)
    BY <1>2
  <2>3. QED
    BY <2>1, <2>2 DEF Breadth
<1>5. \A l \in 1 .. (1 - 1) : FALSE
  OBVIOUS
<1>6. QED
  BY <1>2, <1>3, <1>4, <1>5 DEF Breadth

\* A letter that leads to what is held already needs no node.
LEMMA BreadthKnown ==
  ASSUME NEW queue, NEW A, Hanging(queue, A), NEW held, NEW succ, NEW word,
         NEW head \in 1 .. Len(queue), NEW letter \in Nat,
         Breadth(queue, held, succ, word, head, letter),
         \E j \in 1 .. Len(queue) : held[j] = succ[<<held[head], word[letter]>>]
  PROVE  Breadth(queue, held, succ, word, head, letter + 1)
<1>1. head # 0 /\ NearTo(queue, held, succ, head, word[letter])
  BY DEF Breadth, NearTo
<1>2. \A l \in 1 .. ((letter + 1) - 1) : l = letter \/ l \in 1 .. (letter - 1)
  OBVIOUS
<1>3. \A l \in 1 .. ((letter + 1) - 1) : NearTo(queue, held, succ, head, word[l])
  BY <1>1, <1>2 DEF Breadth
<1>4. QED
  BY <1>1, <1>3 DEF Breadth

\* A queue with one more node, which hangs from node p and holds x.
Adds(q, r, held, more, p, x) ==
  /\ Len(r) = Len(q) + 1 /\ r[Len(q) + 1].parent = p /\ more[Len(q) + 1] = x
  /\ \A i \in 1 .. Len(q) : r[i] = q[i] /\ more[i] = held[i]

\* What is new goes to the end of the queue, one letter deeper than the head.
LEMMA BreadthGrows ==
  ASSUME NEW q, NEW r, NEW A, Hanging(q, A), Hanging(r, A), NEW succ, NEW word,
         NEW held, NEW more, NEW head \in 1 .. Len(q), NEW letter \in Nat,
         Adds(q, r, held, more, head, succ[<<held[head], word[letter]>>]),
         Breadth(q, held, succ, word, head, letter)
  PROVE  Breadth(r, more, succ, word, head, letter + 1)
<1> USE DEF Adds
<1> DEFINE n == Len(q)
<1>1. n \in Nat \ {0} /\ \A i \in 1 .. n : Height(q, i) \in Nat /\ i \in 1 .. Len(r)
  <2>1. n \in Nat \ {0}
    BY DEF Hanging
  <2>2. \A i \in 1 .. Len(q) : Height(q, i) \in Nat
    BY ReadBackWord
  <2>3. QED
    BY <2>1, <2>2
<1>2. \A i \in 1 .. n : Height(r, i) = Height(q, i)
  BY <1>1, HeightKept
<1>3. Height(r, n + 1) = Height(q, head) + 1
  <2>1. n + 1 \in 2 .. Len(r)
    BY <1>1
  <2>2. Height(r, n + 1) = Height(r, head) + 1
    BY <2>1, ReadBackNext
  <2>3. QED
    BY <1>2, <2>2
<1>4. \A i \in 1 .. Len(r) : i = n + 1 \/ i \in 1 .. n
  <2>1. Len(r) = n + 1
    OBVIOUS
  <2>2. n \in Nat
    BY <1>1
  <2> HIDE DEF Adds, n
  <2>3. QED
    BY <2>1, <2>2
<1>5. head # 0 /\ \A j \in 1 .. n : Height(q, j) <= Height(q, head) + 1
  BY DEF Breadth
<1>6. \A i, j \in 1 .. n : i <= j => Height(q, i) <= Height(q, j)
  BY DEF Breadth, Sorted
<1> HIDE DEF n
<1>7. ASSUME NEW i \in 1 .. Len(r), NEW j \in 1 .. Len(r), i <= j
      PROVE  Height(r, i) <= Height(r, j)
  <2>1. CASE j = n + 1 /\ i \in 1 .. n
    BY <1>2, <1>3, <1>5, <2>1
  <2>2. CASE i \in 1 .. n /\ j \in 1 .. n
    BY <1>2, <1>6, <1>7, <2>2
  <2>3. CASE i = n + 1
    <3>1. j = i
      BY <1>1, <1>4, <1>7, <2>3
    <3>2. Height(r, i) \in Nat
      <4>1. head \in 1 .. n
        BY DEF n
      <4>2. Height(q, head) \in Nat
        BY <1>1, <4>1
      <4>3. QED
        BY <1>3, <2>3, <4>2
    <3>3. QED
      BY <3>1, <3>2
  <2>4. QED
    BY <1>4, <2>1, <2>2, <2>3
<1>8. ASSUME NEW j \in 1 .. Len(r) PROVE Height(r, j) <= Height(r, head) + 1
  <2>1. CASE j = n + 1
    <3>1. Height(r, head) = Height(q, head) /\ Height(q, head) \in Nat
      BY <1>1, <1>2 DEF n
    <3>2. QED
      BY <1>3, <2>1, <3>1
  <2>2. CASE j \in 1 .. n
    <3>1. Height(r, head) = Height(q, head) /\ Height(r, j) = Height(q, j)
      BY <1>2, <2>2 DEF n
    <3>2. QED
      BY <1>5, <2>2, <3>1
  <2>3. QED
    BY <1>4, <2>1, <2>2
<1>9. ASSUME NEW i \in 1 .. n, NEW a, NearTo(q, held, succ, i, a)
      PROVE  NearTo(r, more, succ, i, a)
  <2>1. PICK j \in 1 .. n : held[j] = succ[<<held[i], a>>] /\ Height(q, j) <= Height(q, i) + 1
    BY <1>9 DEF NearTo, n
  <2>2. more[j] = held[j] /\ more[i] = held[i] /\ j \in 1 .. Len(r)
    BY <1>1 DEF n
  <2>3. Height(r, j) = Height(q, j) /\ Height(r, i) = Height(q, i)
    BY <1>2
  <2>4. more[j] = succ[<<more[i], a>>] /\ Height(r, j) <= Height(r, i) + 1
    BY <2>1, <2>2, <2>3
  <2>5. QED
    BY <2>2, <2>4 DEF NearTo
<1>10. NearTo(r, more, succ, head, word[letter])
  <2>1. n + 1 \in 1 .. Len(r) /\ more[head] = held[head]
    BY <1>1 DEF n
  <2>2. more[n + 1] = succ[<<more[head], word[letter]>>]
    BY <2>1 DEF n
  <2>3. Height(r, n + 1) <= Height(r, head) + 1
    BY <1>8, <2>1
  <2>4. QED
    BY <2>1, <2>2, <2>3 DEF NearTo
<1>11. \A i \in 1 .. (head - 1) : i \in 1 .. n
  BY <1>1 DEF n
<1>12. head \in 1 .. n
  BY DEF n
<1>13. \A i \in 1 .. (head - 1) : \A l \in 1 .. Len(word) : NearTo(r, more, succ, i, word[l])
  BY <1>9, <1>11 DEF Breadth
<1>14. ASSUME NEW l \in 1 .. ((letter + 1) - 1) PROVE NearTo(r, more, succ, head, word[l])
  <2>1. l = letter \/ l \in 1 .. (letter - 1)
    OBVIOUS
  <2>2. CASE l \in 1 .. (letter - 1)
    <3>1. NearTo(q, held, succ, head, word[l])
      BY <1>5, <2>2 DEF Breadth
    <3>2. QED
      BY <1>9, <1>12, <3>1
  <2>3. QED
    BY <1>10, <2>1, <2>2
<1>15. Sorted(r)
  BY <1>7 DEF Sorted
<1>16. QED
  BY <1>5, <1>8, <1>13, <1>14, <1>15 DEF Breadth

-----------------------------------------------------------------------------
(* What words of so many letters lead to, layer by layer.                   *)

Grown(root, succ, A, T) == {root} \cup UNION {{succ[<<s, a>>] : a \in A} : s \in T}

Spreads(f, root, succ, A, n) ==
  f[0] = {root} /\ \A k \in 1 .. n : f[k] = Grown(root, succ, A, f[k - 1])

LEMMA GrownIs ==
  ASSUME NEW root, NEW succ, NEW A, NEW T
  PROVE  \A x : x \in Grown(root, succ, A, T)
                  <=> x = root \/ \E s \in T : \E a \in A : x = succ[<<s, a>>]
<1> DEFINE After(s) == {succ[<<s, a>>] : a \in A}
<1>1. Grown(root, succ, A, T) = {root} \cup UNION {After(s) : s \in T}
  BY DEF Grown
<1>2. ASSUME NEW x
      PROVE  x \in UNION {After(s) : s \in T} <=> \E s \in T : x \in After(s)
  <2> HIDE DEF After
  <2>1. QED
    OBVIOUS
<1>3. \A x, s : x \in After(s) <=> \E a \in A : x = succ[<<s, a>>]
  OBVIOUS
<1> HIDE DEF After
<1>4. QED
  BY <1>1, <1>2, <1>3

LEMMA SpreadExists ==
  ASSUME NEW U, NEW A, NEW root \in U, NEW succ \in [U \X A -> U], NEW n \in Nat
  PROVE  \E f \in [0 .. n -> SUBSET U] : Spreads(f, root, succ, A, n)
<1> DEFINE V == SUBSET U
           step == [z \in V \X Nat |-> Grown(root, succ, A, z[1])]
<1>1. ASSUME NEW T \in V PROVE Grown(root, succ, A, T) \in V
  <2>1. ASSUME NEW x \in Grown(root, succ, A, T) PROVE x \in U
    <3>1. x = root \/ \E s \in T : \E a \in A : x = succ[<<s, a>>]
      BY GrownIs
    <3>2. QED
      BY <3>1
  <2>2. QED
    BY <2>1
<1>2. step \in StepsOn(V)
  BY <1>1 DEF StepsOn
<1>3. {root} \in V
  OBVIOUS
<1>4. \A T \in V, k \in Nat : step[<<T, k>>] = Grown(root, succ, A, T)
  OBVIOUS
<1> HIDE DEF V, step
<1>5. PICK f : f \in Along(V, {root}, n, step)
  BY <1>2, <1>3, RecursionExists
<1>6. f \in [0 .. n -> V] /\ f[0] = {root} /\ \A k \in 1 .. n : f[k] = step[<<f[k - 1], k>>]
  BY <1>5 DEF Along
<1>7. ASSUME NEW k \in 1 .. n PROVE f[k] = Grown(root, succ, A, f[k - 1])
  <2>1. k - 1 \in 0 .. n /\ k \in Nat
    OBVIOUS
  <2>2. f[k - 1] \in V
    BY <1>6, <2>1
  <2>3. QED
    BY <1>4, <1>6, <2>1, <2>2
<1>8. QED
  BY <1>6, <1>7 DEF Spreads, V

LEMMA GrownMore ==
  ASSUME NEW root, NEW succ, NEW A, NEW T, NEW U, T \subseteq U
  PROVE  Grown(root, succ, A, T) \subseteq Grown(root, succ, A, U)
<1>1. ASSUME NEW x \in Grown(root, succ, A, T) PROVE x \in Grown(root, succ, A, U)
  <2>1. x = root \/ \E s \in T : \E a \in A : x = succ[<<s, a>>]
    BY GrownIs
  <2>2. x = root \/ \E s \in U : \E a \in A : x = succ[<<s, a>>]
    BY <2>1
  <2>3. QED
    BY <2>2, GrownIs
<1>2. QED
  BY <1>1

\* More letters lead to no less.
LEMMA SpreadGrows ==
  ASSUME NEW f, NEW root, NEW succ, NEW A, NEW n \in Nat, Spreads(f, root, succ, A, n)
  PROVE  \A j, k \in 0 .. n : j <= k => f[j] \subseteq f[k]
<1> DEFINE S == {k \in 0 .. n : k = 0 \/ f[k - 1] \subseteq f[k]}
<1>1. 0 \in S
  OBVIOUS
<1>2. ASSUME NEW k \in 1 .. n, k - 1 \in S PROVE k \in S
  <2>1. f[k] = Grown(root, succ, A, f[k - 1]) /\ k \in 0 .. n
    BY DEF Spreads
  <2>2. CASE k - 1 = 0
    <3>1. k = 1 /\ f[k - 1] = {root}
      BY <2>2 DEF Spreads
    <3>2. f[k - 1] \subseteq f[k]
      BY <2>1, <3>1 DEF Grown
    <3>3. QED
      BY <2>1, <3>2
  <2>3. CASE k - 1 # 0
    <3>1. PICK m \in 1 .. n : m = k - 1
      BY <2>3
    <3>2. f[m] = Grown(root, succ, A, f[m - 1]) /\ f[m - 1] \subseteq f[m]
      BY <1>2, <2>3, <3>1 DEF Spreads
    <3>3. f[k] = Grown(root, succ, A, f[m])
      BY <2>1, <3>1
    <3>4. f[m] \subseteq f[k]
      <4>1. PICK t, u : t = f[m - 1] /\ u = f[m]
        OBVIOUS
      <4>2. t \subseteq u /\ u = Grown(root, succ, A, t)
        BY <3>2, <4>1
      <4>3. Grown(root, succ, A, t) \subseteq Grown(root, succ, A, u)
        BY <4>2, GrownMore
      <4>4. QED
        BY <3>3, <4>1, <4>2, <4>3
    <3>5. f[k - 1] = f[m]
      BY <3>1
    <3>6. f[k - 1] \subseteq f[k]
      BY <3>4, <3>5, Zenon
    <3>7. QED
      BY <2>1, <3>6
  <2>4. QED
    BY <2>2, <2>3
<1> HIDE DEF S
<1>3. \A k \in 0 .. n : k \in S
  BY <1>1, <1>2, StepByStep
<1> SUFFICES ASSUME NEW j \in 0 .. n PROVE \A k \in 0 .. n : j <= k => f[j] \subseteq f[k]
  OBVIOUS
<1> DEFINE T == {k \in 0 .. n : j <= k => f[j] \subseteq f[k]}
<1>4. 0 \in T
  <2>1. j <= 0 => j = 0
    OBVIOUS
  <2>2. QED
    BY <2>1
<1>5. ASSUME NEW k \in 1 .. n, k - 1 \in T PROVE k \in T
  <2>1. k \in 0 .. n /\ k # 0 /\ f[k - 1] \subseteq f[k]
    BY <1>3 DEF S
  <2>2. CASE j = k
    BY <2>1, <2>2
  <2>3. CASE j # k
    <3>1. j <= k => j <= k - 1
      BY <2>3
    <3>2. QED
      BY <1>5, <2>1, <3>1
  <2>4. QED
    BY <2>2, <2>3
<1> HIDE DEF T
<1>6. \A k \in 0 .. n : k \in T
  BY <1>4, <1>5, StepByStep
<1>7. QED
  BY <1>6 DEF T

\* While the head is at height n, what at most n letters lead to is held.
LEMMA BreadthNearest ==
  ASSUME NEW queue, NEW A, Hanging(queue, A), NEW held, NEW succ, NEW word, NEW letter,
         NEW head \in 1 .. Len(queue), Breadth(queue, held, succ, word, head, letter),
         \A a \in A : \E l \in 1 .. Len(word) : word[l] = a,
         NEW f, NEW n \in Nat, n <= Height(queue, head),
         Spreads(f, held[1], succ, A, n)
  PROVE  \A y \in f[n] : \E i \in 1 .. Len(queue) : held[i] = y
<1> DEFINE HeldAt(k) == \A y \in f[k] : \E i \in 1 .. Len(queue) : held[i] = y /\ Height(queue, i) <= k
           S == {k \in 0 .. n : HeldAt(k)}
<1>1. Len(queue) \in Nat \ {0}
  BY DEF Hanging
<1>2. \A i \in 1 .. Len(queue) : Height(queue, i) \in Nat
  BY ReadBackWord
<1>3. Height(queue, 1) = 0 /\ 1 \in 1 .. Len(queue)
  BY <1>1, ReadBackRoot
<1>4. 0 \in S
  BY <1>3 DEF Spreads
<1>5. ASSUME NEW k \in 1 .. n, k - 1 \in S PROVE k \in S
  <2>1. k \in 0 .. n /\ k - 1 \in 0 .. n /\ f[k] = Grown(held[1], succ, A, f[k - 1])
    BY DEF Spreads
  <2>2. ASSUME NEW y \in f[k]
        PROVE  \E i \in 1 .. Len(queue) : held[i] = y /\ Height(queue, i) <= k
    <3>1. CASE y = held[1]
      BY <1>3, <3>1
    <3>2. CASE y # held[1]
      <4>1. PICK s \in f[k - 1], a \in A : y = succ[<<s, a>>]
        BY <2>1, <3>2, GrownIs
      <4>2. PICK i \in 1 .. Len(queue) : held[i] = s /\ Height(queue, i) <= k - 1
        BY <1>5
      <4>3. PICK l \in 1 .. Len(word) : word[l] = a
        OBVIOUS
      <4>4. Height(queue, i) < Height(queue, head)
        BY <1>2, <4>2
      <4>5. ~(head <= i)
        BY <1>2, <4>4 DEF Breadth, Sorted
      <4>6. i \in 1 .. (head - 1)
        BY <1>1, <4>5
      <4>7. NearTo(queue, held, succ, i, a)
        BY <4>3, <4>6 DEF Breadth
      <4>8. PICK j \in 1 .. Len(queue) :
                    held[j] = succ[<<s, a>>] /\ Height(queue, j) <= Height(queue, i) + 1
        BY <4>2, <4>7 DEF NearTo
      <4>9. Height(queue, j) <= k
        <5>1. PICK a1 \in Nat, a2 \in Nat : a1 = Height(queue, i) /\ a2 = Height(queue, j)
          BY <1>2
        <5>2. a1 <= k - 1 /\ a2 <= a1 + 1
          BY <4>2, <4>8, <5>1
        <5>3. a2 <= k
          BY <5>1, <5>2
        <5>4. QED
          BY <5>1, <5>3
      <4>10. QED
        BY <4>1, <4>8, <4>9
    <3>3. QED
      BY <3>1, <3>2
  <2>3. HeldAt(k)
    BY <2>2
  <2> HIDE DEF HeldAt
  <2>4. QED
    BY <2>1, <2>3
<1> HIDE DEF S
<1>6. \A k \in 0 .. n : k \in S
  BY <1>4, <1>5, StepByStep
<1>7. n \in S
  BY <1>6
<1>8. QED
  BY <1>7 DEF S

\* What a node holds is in the layer of its height.
LEMMA NodeInLayer ==
  ASSUME NEW queue, NEW A, Hanging(queue, A), NEW held, NEW succ,
         \A i \in 2 .. Len(queue) : held[i] = succ[<<held[queue[i].parent], queue[i].act>>],
         NEW f, NEW n \in Nat, Spreads(f, held[1], succ, A, n),
         NEW i \in 1 .. Len(queue), Height(queue, i) <= n
  PROVE  held[i] \in f[Height(queue, i)]
<1> DEFINE In(j) == Height(queue, j) <= n => held[j] \in f[Height(queue, j)]
           S == {j \in 1 .. Len(queue) : In(j)}
<1>1. Len(queue) \in Nat \ {0}
  BY DEF Hanging
<1>2. \A j \in 1 .. Len(queue) : Height(queue, j) \in Nat
  BY ReadBackWord
<1>3. 1 \in S
  <2>1. Height(queue, 1) = 0 /\ 1 \in 1 .. Len(queue)
    BY <1>1, ReadBackRoot
  <2>2. held[1] \in f[0]
    BY DEF Spreads
  <2>3. In(1)
    BY <2>1, <2>2
  <2> HIDE DEF In
  <2>4. QED
    BY <2>1, <2>3
<1>4. ASSUME NEW j \in 2 .. Len(queue), queue[j].parent \in S PROVE j \in S
  <2>1. PICK p \in 1 .. Len(queue) : p = queue[j].parent /\ In(p)
    BY <1>4
  <2>2. PICK a \in A : a = queue[j].act
    BY DEF Hanging
  <2>3. PICK h \in Nat : h = Height(queue, p) /\ Height(queue, j) = h + 1
    BY <1>2, <2>1, ReadBackNext
  <2>4. ASSUME h + 1 <= n PROVE held[j] \in f[h + 1]
    <3>1. h + 1 \in 1 .. n /\ (h + 1) - 1 = h /\ h <= n
      BY <2>4
    <3>2. f[h + 1] = Grown(held[1], succ, A, f[h])
      BY <3>1 DEF Spreads
    <3>3. held[p] \in f[h]
      BY <2>1, <2>3, <3>1
    <3>4. held[j] = succ[<<held[p], a>>]
      BY <2>1, <2>2
    <3>5. QED
      BY <3>2, <3>3, <3>4 DEF Grown
  <2>5. In(j) /\ j \in 1 .. Len(queue)
    BY <1>1, <2>3, <2>4
  <2> HIDE DEF In
  <2>6. QED
    BY <2>5
<1> HIDE DEF S
<1>5. i \in S
  BY <1>3, <1>4, DownTheTree
<1>6. QED
  BY <1>5 DEF S

-----------------------------------------------------------------------------
(* The words of exact records. *)

\* No distance exceeds the number of pairs.
LEMMA ExactBounded ==
  ASSUME NEW aut \in Automata, NEW obj, NEW p \in Pairs, ExactDistances(aut, obj)[p] # None
  PROVE  ExactDistances(aut, obj)[p] \in 0 .. Cardinality(Pairs)
<1>1. OneDistance(Reached(aut, obj), Cardinality(Pairs))
  BY ReachedLayered DEF Layered
<1>2. PICK d \in Nat : d = ExactDistances(aut, obj)[p]
  BY ExactDistanceIn DEF Distances
<1>3. <<p, d>> \in Reached(aut, obj)
  BY <1>2, ExactDistanceIn
<1>4. d \in 0 .. Cardinality(Pairs)
  BY <1>1, <1>3 DEF OneDistance
<1>5. QED
  BY <1>2, <1>4

\* What sg_choose_witnesses puts down for a pair that can be merged: the least
\* action of those that come closer, the pair it leads to, and their number.
FirstCloser(aut, dist, p, r) ==
  /\ r.dist = dist[p] /\ r.act \in Actions /\ r.sup # 0
  /\ r.next = Target(aut, p, r.act) /\ dist[r.next] = dist[p] - 1
  /\ \A b \in Actions : dist[Target(aut, p, b)] = dist[p] - 1 => r.act <= b

LEMMA ExactMerges ==
  ASSUME NEW aut \in Automata, NEW p \in Pairs
  PROVE  LET dist == ExactDistances(aut, "merge")
             recs == ExactRecords(aut, "merge")
         IN /\ p \in Diagonal => recs[p] = Root
            /\ dist[p] = None => recs[p] = Unreached
            /\ dist[p] \in Nat \ {0} => FirstCloser(aut, dist, p, recs[p])
<1> DEFINE dist == ExactDistances(aut, "merge")
           recs == ExactRecords(aut, "merge")
           Immediate(q, a) == dist[q] = 1 /\ Terminal(aut, "merge", q, a)
           ViaNext(q, a) ==
             LET next == Target(aut, q, a)
             IN /\ ~Terminal(aut, "merge", q, a)
                /\ dist[next] # None
                /\ dist[next] + 1 = dist[q]
           Attaining(q) == {a \in Actions : Immediate(q, a) \/ ViaNext(q, a)}
           First(S) == CHOOSE a \in S : \A b \in S : a <= b
           Witness(q) ==
             LET act == First(Attaining(q))
             IN [dist |-> dist[q], act |-> act,
                 next |-> IF Immediate(q, act) THEN NoPair
                          ELSE Target(aut, q, act),
                 sup |-> Cardinality(Attaining(q))]
           Rec(q) == IF q \in Diagonal THEN Root
                     ELSE IF dist[q] = None THEN Unreached
                     ELSE Witness(q)
<1>1. recs = [q \in Pairs |-> Rec(q)]
  BY DEF ExactRecords
<1>2. recs[p] = Rec(p)
  <2> HIDE DEF Rec, recs
  <2>1. QED
    BY <1>1
<1>3. dist[p] = 0 <=> p \in Diagonal
  BY ExactAttained
<1>4. p \in Diagonal => recs[p] = Root
  BY <1>2
<1>5. dist[p] = None => recs[p] = Unreached
  <2>1. dist[p] = None => p \notin Diagonal
    BY <1>3 DEF None
  <2>2. QED
    BY <1>2, <2>1
<1>6. ASSUME dist[p] \in Nat \ {0} PROVE FirstCloser(aut, dist, p, recs[p])
  <2>1. p \notin Diagonal /\ dist[p] # None
    BY <1>3, <1>6 DEF None
  <2>2. PICK A : A = Attaining(p)
    OBVIOUS
  <2>3. \A a \in Actions : ~Terminal(aut, "merge", p, a)
    BY DEF Terminal
  <2>4. PICK a \in Actions : dist[Target(aut, p, a)] = dist[p] - 1 /\ dist[Target(aut, p, a)] \in Nat
    BY <2>1, <2>3, ExactAttained
  <2>5. \A b \in Actions : Target(aut, p, b) \in Pairs /\ dist[Target(aut, p, b)] \in Distances
    BY TargetType, ExactDistanceIn
  <2>6. PICK act : act = First(A)
    OBVIOUS
  <2>7. recs[p] = [dist |-> dist[p], act |-> act,
                   next |-> IF Immediate(p, act) THEN NoPair ELSE Target(aut, p, act),
                   sup |-> Cardinality(A)]
    BY <1>2, <2>1, <2>2, <2>6
  <2> HIDE DEF dist
  <2>8. \A b \in Actions : b \in A <=> dist[Target(aut, p, b)] = dist[p] - 1
    <3>1. ASSUME NEW b \in Actions PROVE b \in A <=> dist[Target(aut, p, b)] = dist[p] - 1
      <4>1. b \in A <=> dist[Target(aut, p, b)] # None /\ dist[Target(aut, p, b)] + 1 = dist[p]
        BY <2>2, <2>3
      <4>2. PICK d, e : d = dist[p] /\ e = dist[Target(aut, p, b)] /\ d \in Nat \ {0} /\ e \in Distances
        BY <1>6, <2>5
      <4>3. (e # None /\ e + 1 = d) <=> e = d - 1
        BY <4>2 DEF Distances, None
      <4>4. QED
        BY <4>1, <4>2, <4>3
    <3>2. QED
      BY <3>1
  <2>9. A \subseteq Actions /\ A # {}
    BY <2>2, <2>4, <2>8
  <2>10. act \in A /\ \A b \in A : act <= b
    BY <2>6, <2>9, FirstAction
  <2>11. Cardinality(A) # 0
    BY <2>9, ActionsFinite, FS_Subset, FS_EmptySet
  <2>12. ~Immediate(p, act)
    BY <2>3, <2>9, <2>10
  <2>13. PICK r : r = recs[p]
    OBVIOUS
  <2>14. r.dist = dist[p] /\ r.act = act /\ r.next = Target(aut, p, act) /\ r.sup = Cardinality(A)
    BY <2>7, <2>12, <2>13
  <2>15. FirstCloser(aut, dist, p, r)
    BY <2>8, <2>9, <2>10, <2>11, <2>14 DEF FirstCloser
  <2>16. QED
    BY <2>13, <2>15
<1>7. QED
  BY <1>4, <1>5, <1>6

-----------------------------------------------------------------------------
(* No arc comes closer than the exact distances say. *)

\* From a pair at some distance, pairs at all smaller distances are passed.
LEMMA ExactDescends ==
  ASSUME NEW aut \in Automata, NEW obj, NEW p \in Pairs,
         NEW d \in Nat, ExactDistances(aut, obj)[p] = d
  PROVE  \A k \in 0 .. d : \E q \in Pairs : ExactDistances(aut, obj)[q] = k
<1> DEFINE dist == ExactDistances(aut, obj)
           At(k) == \E q \in Pairs : dist[q] = k
           S == {j \in 0 .. d : At(d - j)}
<1>1. 0 \in S
  <2>1. d - 0 = d
    OBVIOUS
  <2>2. At(d - 0)
    BY <2>1
  <2>3. QED
    BY <2>2
<1>2. At(0)
  <2>1. PICK s \in States : TRUE
    BY GraphAssumption
  <2>2. {s} \in Diagonal /\ {s} \in Pairs
    BY DiagonalPairs DEF Diagonal
  <2>3. dist[{s}] = 0
    BY <2>2, ExactAttained
  <2>4. QED
    BY <2>2, <2>3
<1>3. ASSUME NEW k \in Nat \ {0}, At(k) PROVE At(k - 1)
  <2>1. PICK q \in Pairs : dist[q] = k
    BY <1>3
  <2>2. dist[q] # None /\ dist[q] # 0
    BY <2>1 DEF None
  <2>3. q \notin Diagonal
    BY <2>2, ExactAttained
  <2>4. PICK a \in Actions :
          \/ dist[q] = 1 /\ Terminal(aut, obj, q, a)
          \/ /\ ~Terminal(aut, obj, q, a)
             /\ dist[Target(aut, q, a)] = dist[q] - 1
             /\ dist[Target(aut, q, a)] \in Nat
    BY <2>2, <2>3, ExactAttained
  <2>5. CASE k = 1
    BY <1>2, <2>5
  <2>6. CASE k # 1
    <3>1. dist[Target(aut, q, a)] = k - 1 /\ Target(aut, q, a) \in Pairs
      BY <2>1, <2>4, <2>6, TargetType
    <3>2. QED
      BY <3>1
  <2>7. QED
    BY <2>5, <2>6
<1> HIDE DEF At
<1>4. ASSUME NEW j \in 1 .. d, j - 1 \in S PROVE j \in S
  <2>1. PICK k \in Nat \ {0} : k = d - (j - 1) /\ d - j = k - 1
    OBVIOUS
  <2>2. At(k)
    BY <1>4, <2>1
  <2>3. At(k - 1)
    BY <1>3, <2>2
  <2>4. At(d - j)
    BY <2>1, <2>3
  <2>5. QED
    BY <2>4
<1>5. \A j \in 0 .. d : j \in S
  <2> HIDE DEF S
  <2>1. QED
    BY <1>1, <1>4, StepByStep
<1>6. ASSUME NEW k \in 0 .. d PROVE At(k)
  <2>1. PICK j \in 0 .. d : j = d - k /\ d - j = k
    OBVIOUS
  <2>2. At(d - j)
    BY <1>5
  <2>3. QED
    BY <2>1, <2>2
<1>7. QED
  BY <1>6 DEF At

\* So a distance is less than the number of pairs.
LEMMA ExactWithin ==
  ASSUME NEW aut \in Automata, NEW obj, NEW p \in Pairs,
         NEW d \in Nat, ExactDistances(aut, obj)[p] = d
  PROVE  d + 1 <= Cardinality(Pairs)
<1> DEFINE at == [k \in 0 .. d |-> CHOOSE q \in Pairs : ExactDistances(aut, obj)[q] = k]
<1>1. ASSUME NEW k \in 0 .. d PROVE at[k] \in Pairs /\ ExactDistances(aut, obj)[at[k]] = k
  BY ExactDescends
<1>2. at \in [0 .. d -> Pairs]
  BY <1>1
<1>3. at \in Injection(0 .. d, Pairs)
  <2>1. \A j, k \in 0 .. d : at[j] = at[k] => j = k
    <3> HIDE DEF at
    <3>1. QED
      BY <1>1
  <2> HIDE DEF at
  <2>2. QED
    BY <1>2, <2>1 DEF Injection, IsInjective
<1> HIDE DEF at
<1>4. Cardinality(0 .. d) <= Cardinality(Pairs)
  BY <1>3, PairsFinite, FS_Injection
<1>5. Cardinality(0 .. d) = d + 1
  <2>1. 0 \in Int /\ d \in Int
    OBVIOUS
  <2>2. Cardinality(0 .. d) = IF 0 > d THEN 0 ELSE d - 0 + 1
    BY <2>1, FS_Interval, Zenon
  <2>3. QED
    BY <2>2
<1>6. QED
  BY <1>4, <1>5

\* An arc that resolves its pair leaves it at most one step away, and any other
\* arc one step further than the pair it leads to.
LEMMA ExactClosed ==
  ASSUME NEW aut \in Automata, NEW obj, NEW p \in Pairs, NEW a \in Actions
  PROVE  LET dist == ExactDistances(aut, obj)
         IN /\ Terminal(aut, obj, p, a) => dist[p] \in 0 .. 1
            /\ \A j \in Nat : dist[Target(aut, p, a)] = j => dist[p] \in 0 .. (j + 1)
<1> DEFINE dist == ExactDistances(aut, obj)
<1>0. PICK R : R = Reached(aut, obj)
  OBVIOUS
<1>1. PICK N \in Nat : N = Cardinality(Pairs) /\ R = Reached(aut, obj)
  BY <1>0, StepsNat
<1>2. Closed(aut, obj, R, N)
  BY <1>1, ReachedLayered DEF Layered
<1>3. \A q \in Pairs : \A k \in Nat : dist[q] = k <=> <<q, k>> \in R
  BY <1>1, ExactDistanceIn
<1>4. Target(aut, p, a) \in Pairs
  BY TargetType
<1>5. N >= 1
  <2>1. PICK s \in States : TRUE
    BY GraphAssumption
  <2>2. {s} \in Diagonal /\ {s} \in Pairs
    BY DiagonalPairs DEF Diagonal
  <2>3. dist[{s}] = 0
    BY <2>2, ExactAttained
  <2>4. 0 + 1 <= Cardinality(Pairs)
    BY <2>2, <2>3, ExactWithin
  <2>5. QED
    BY <1>1, <2>4
<1>6. ASSUME Terminal(aut, obj, p, a) PROVE dist[p] \in 0 .. 1
  <2>1. PICK i \in 0 .. 1 : <<p, i>> \in R
    BY <1>2, <1>5, <1>6 DEF Closed
  <2>2. i \in Nat
    OBVIOUS
  <2>3. dist[p] = i
    BY <1>3, <2>1, <2>2
  <2>4. QED
    BY <2>3
<1>7. ASSUME NEW j \in Nat, dist[Target(aut, p, a)] = j PROVE dist[p] \in 0 .. (j + 1)
  <2>1. j + 1 <= N
    BY <1>1, <1>4, <1>7, ExactWithin
  <2>2. j \in 0 .. (N - 1)
    BY <1>1, <2>1
  <2>3. <<Target(aut, p, a), j>> \in R
    BY <1>3, <1>4, <1>7
  <2>4. PICK i \in 0 .. (j + 1) : <<p, i>> \in R
    BY <1>2, <2>2, <2>3 DEF Closed
  <2>5. i \in Nat
    OBVIOUS
  <2>6. dist[p] = i
    BY <1>3, <2>4, <2>5
  <2>7. QED
    BY <2>6
<1> HIDE DEF dist
<1>8. QED
  BY <1>6, <1>7 DEF dist

-----------------------------------------------------------------------------
(* The words of exact records for either objective, and what the words of  *)
(* any records tell apart.                                                 *)

\* A pair is not nothing.
LEMMA SomePair == NoPair \notin Pairs
  BY DEF NoPair, Pairs

\* What sg_choose_witnesses puts down for a pair that can be reached: an action
\* that ends in different observations, or one that comes closer.
Leading(aut, obj, dist, p, r) ==
  /\ r.dist = dist[p] /\ r.act \in Actions /\ r.sup # 0
  /\ \/ Terminal(aut, obj, p, r.act) /\ dist[p] = 1 /\ r.next = NoPair
     \/ /\ ~Terminal(aut, obj, p, r.act) /\ r.next = Target(aut, p, r.act)
        /\ dist[r.next] = dist[p] - 1

LEMMA ExactLeads ==
  ASSUME NEW aut \in Automata, NEW obj, NEW p \in Pairs
  PROVE  LET dist == ExactDistances(aut, obj)
             recs == ExactRecords(aut, obj)
         IN /\ p \in Diagonal => recs[p] = Root
            /\ dist[p] = None => recs[p] = Unreached
            /\ dist[p] \in Nat \ {0} => Leading(aut, obj, dist, p, recs[p])
<1> DEFINE dist == ExactDistances(aut, obj)
           recs == ExactRecords(aut, obj)
           Immediate(q, a) == dist[q] = 1 /\ Terminal(aut, obj, q, a)
           ViaNext(q, a) ==
             LET next == Target(aut, q, a)
             IN /\ ~Terminal(aut, obj, q, a)
                /\ dist[next] # None
                /\ dist[next] + 1 = dist[q]
           Attaining(q) == {a \in Actions : Immediate(q, a) \/ ViaNext(q, a)}
           First(S) == CHOOSE a \in S : \A b \in S : a <= b
           Witness(q) ==
             LET act == First(Attaining(q))
             IN [dist |-> dist[q], act |-> act,
                 next |-> IF Immediate(q, act) THEN NoPair
                          ELSE Target(aut, q, act),
                 sup |-> Cardinality(Attaining(q))]
           Rec(q) == IF q \in Diagonal THEN Root
                     ELSE IF dist[q] = None THEN Unreached
                     ELSE Witness(q)
<1>1. recs = [q \in Pairs |-> Rec(q)]
  BY DEF ExactRecords
<1>2. recs[p] = Rec(p)
  <2> HIDE DEF Rec, recs
  <2>1. QED
    BY <1>1
<1>3. dist[p] = 0 <=> p \in Diagonal
  BY ExactAttained
<1>4. p \in Diagonal => recs[p] = Root
  BY <1>2
<1>5. dist[p] = None => recs[p] = Unreached
  <2>1. dist[p] = None => p \notin Diagonal
    BY <1>3 DEF None
  <2>2. QED
    BY <1>2, <2>1
<1>6. ASSUME dist[p] \in Nat \ {0} PROVE Leading(aut, obj, dist, p, recs[p])
  <2>1. p \notin Diagonal /\ dist[p] # None
    BY <1>3, <1>6 DEF None
  <2>2. PICK A : A = Attaining(p)
    OBVIOUS
  <2>3. PICK a \in Actions :
          \/ dist[p] = 1 /\ Terminal(aut, obj, p, a)
          \/ /\ ~Terminal(aut, obj, p, a)
             /\ dist[Target(aut, p, a)] = dist[p] - 1
             /\ dist[Target(aut, p, a)] \in Nat
    BY <2>1, ExactAttained
  <2>4. PICK act : act = First(A)
    OBVIOUS
  <2>5. recs[p] = [dist |-> dist[p], act |-> act,
                   next |-> IF Immediate(p, act) THEN NoPair ELSE Target(aut, p, act),
                   sup |-> Cardinality(A)]
    BY <1>2, <2>1, <2>2, <2>4
  <2>6. A \subseteq Actions
    BY <2>2
  <2>7. \A b \in A : Immediate(p, b) \/ ViaNext(p, b)
    BY <2>2
  <2>8. a \in A
    <3>1. Immediate(p, a) \/ ViaNext(p, a)
      <4> HIDE DEF dist
      <4>1. CASE dist[Target(aut, p, a)] = dist[p] - 1 /\ dist[Target(aut, p, a)] \in Nat
        BY <1>6, <2>3, <4>1 DEF None
      <4>2. QED
        BY <2>3, <4>1
    <3>2. QED
      BY <2>2, <3>1
  <2>9. act \in A
    BY <2>4, <2>6, <2>8, FirstAction
  <2>10. Cardinality(A) # 0
    BY <2>6, <2>8, ActionsFinite, FS_Subset, FS_EmptySet
  <2>11. Immediate(p, act) \/ ViaNext(p, act)
    BY <2>7, <2>9
  <2>12. dist[Target(aut, p, act)] \in Distances
    BY <2>6, <2>9, TargetType, ExactDistanceIn
  <2>13. PICK r : r = recs[p]
    OBVIOUS
  <2>14. /\ r.dist = dist[p] /\ r.act = act /\ r.sup = Cardinality(A)
         /\ r.next = IF Immediate(p, act) THEN NoPair ELSE Target(aut, p, act)
    BY <2>5, <2>13
  <2>15. \/ Terminal(aut, obj, p, act) /\ dist[p] = 1 /\ r.next = NoPair
         \/ /\ ~Terminal(aut, obj, p, act) /\ r.next = Target(aut, p, act)
            /\ dist[r.next] = dist[p] - 1
    <3> HIDE DEF dist
    <3>1. CASE Immediate(p, act)
      BY <2>14, <3>1
    <3>2. CASE ~Immediate(p, act) /\ ViaNext(p, act)
      <4>1. PICK e : e = dist[Target(aut, p, act)] /\ e \in Nat /\ e + 1 = dist[p]
        BY <2>12, <3>2 DEF Distances
      <4>2. e = dist[p] - 1
        BY <4>1
      <4>3. QED
        BY <2>14, <3>2, <4>1, <4>2
    <3>3. QED
      BY <2>11, <3>1, <3>2
  <2>16. r.act \in Actions
    BY <2>6, <2>9, <2>14
  <2> HIDE DEF dist
  <2>17. Leading(aut, obj, dist, p, r)
    BY <2>10, <2>14, <2>15, <2>16 DEF Leading
  <2>18. QED
    BY <2>13, <2>17
<1>7. QED
  BY <1>4, <1>5, <1>6

\* sg_pair_words_load refuses nothing that sg_pair_oracle_build made: a walk along
\* exact records comes one step closer each time, and ends where it should.
LEMMA ExactWellFormed ==
  ASSUME NEW aut \in Automata, NEW obj, NEW p \in Pairs
  PROVE  WellFormed(aut, obj, ExactRecords(aut, obj), p)
<1>1. PICK dist : dist = ExactDistances(aut, obj)
  OBVIOUS
<1>2. PICK recs : recs = ExactRecords(aut, obj)
  OBVIOUS
<1>3. \A q \in Pairs : /\ recs[q].dist = dist[q] /\ dist[q] \in Distances
                       /\ dist[q] # None => dist[q] \in 0 .. Cardinality(Pairs)
                       /\ dist[q] = 0 <=> q \in Diagonal
  BY <1>1, <1>2, ExactRecordsFit, ExactDistanceIn, ExactBounded, ExactAttained
<1>4. \A q \in Pairs : /\ q \in Diagonal => recs[q] = Root
                       /\ dist[q] = None => recs[q] = Unreached
                       /\ dist[q] \in Nat \ {0} => Leading(aut, obj, dist, q, recs[q])
  BY <1>1, <1>2, ExactLeads
<1>5. CASE dist[p] = None
  BY <1>2, <1>3, <1>4, <1>5 DEF WellFormed
<1>6. CASE dist[p] # None
  <2>1. PICK d \in Nat : d = dist[p] /\ d <= Cardinality(Pairs) /\ d # None
    BY <1>3, <1>6, StepsNat
  <2> DEFINE hop == [q \in Pairs \cup {NoPair} |-> IF q = NoPair THEN NoPair ELSE recs[q].next]
             Walk(n) == Walked(recs, p, n)
             S == {n \in 0 .. d : \/ Walk(n) \in Pairs /\ dist[Walk(n)] = d - n
                                  \/ n = d /\ Walk(n) = NoPair}
  <2>2. \A n \in Nat : Walk(0) = p /\ Walk(n + 1) = hop[Walk(n)]
    BY OnwardStep DEF Walked
  <2>3. \A q \in Pairs : hop[q] = recs[q].next
    BY SomePair
  <2> HIDE DEF Walk, hop
  <2>4. \A n \in 0 .. d : n \in S
    <3>1. 0 \in S
      BY <2>1, <2>2
    <3>2. ASSUME NEW n \in 1 .. d, n - 1 \in S PROVE n \in S
      <4>1. PICK m \in Nat : m = n - 1 /\ m + 1 = n /\ m \in 0 .. d - 1 /\ m # d
        <5>1. n - 1 \in Nat /\ (n - 1) + 1 = n /\ n - 1 \in 0 .. d - 1 /\ n - 1 # d
          BY <2>1
        <5>2. QED
          BY <5>1
      <4>2. PICK q \in Pairs : q = Walk(m) /\ dist[q] = d - m
        BY <3>2, <4>1
      <4>3. dist[q] \in Nat \ {0} /\ n \in 0 .. d
        BY <2>1, <4>1, <4>2
      <4>4. PICK r : r = recs[q] /\ Leading(aut, obj, dist, q, r)
        BY <1>4, <4>3
      <4>5. Walk(n) = r.next
        BY <2>2, <2>3, <4>1, <4>2, <4>4
      <4>6. CASE dist[q] = 1 /\ r.next = NoPair
        <5>1. n = d
          BY <2>1, <4>1, <4>2, <4>6
        <5>2. QED
          BY <4>3, <4>5, <4>6, <5>1
      <4>7. CASE r.next = Target(aut, q, r.act) /\ dist[r.next] = dist[q] - 1
        <5>1. r.next \in Pairs
          BY <4>4, <4>7, TargetType DEF Leading
        <5>2. (d - m) - 1 = d - n
          BY <2>1, <4>1
        <5>3. QED
          BY <4>2, <4>3, <4>5, <4>7, <5>1, <5>2
      <4>8. QED
        BY <4>4, <4>6, <4>7 DEF Leading
    <3> HIDE DEF S
    <3>3. QED
      BY <2>1, <3>1, <3>2, StepByStep
  <2>5. ASSUME NEW n \in 0 .. d - 1
        PROVE  /\ Walk(n) # NoPair /\ recs[Walk(n)].dist = d - n
               /\ Sound(aut, obj, Walk(n), recs[Walk(n)])
    <3>1. n \in 0 .. d /\ d - n \in Nat \ {0} /\ n # d
      BY <2>1
    <3>2. PICK q \in Pairs : q = Walk(n) /\ dist[q] = d - n
      BY <2>4, <3>1
    <3>3. PICK r : r = recs[q] /\ Leading(aut, obj, dist, q, r)
      BY <1>4, <3>1, <3>2
    <3>4. Sound(aut, obj, q, r)
      BY <3>3 DEF Leading, Sound, Actions, None
    <3>5. QED
      BY <1>3, <3>2, <3>3, <3>4, SomePair
  <2>6. Walk(d) # NoPair => Walk(d) \in Diagonal /\ recs[Walk(d)] = Root
    <3>1. d \in 0 .. d /\ d - d = 0
      BY <2>1
    <3>2. Walk(d) # NoPair => Walk(d) \in Pairs /\ dist[Walk(d)] = 0
      BY <2>4, <3>1
    <3>3. QED
      BY <1>3, <1>4, <3>2
  <2>7. recs[p].dist = d
    BY <1>3, <2>1
  <2>8. \A n \in 0 .. d - 1 :
          LET q == Walked(recs, p, n)
          IN q # NoPair /\ recs[q].dist = d - n /\ Sound(aut, obj, q, recs[q])
    BY <2>5 DEF Walk
  <2>9. Walked(recs, p, d) # NoPair =>
          Walked(recs, p, d) \in Diagonal /\ recs[Walked(recs, p, d)] = Root
    BY <2>6 DEF Walk
  <2>10. WellFormed(aut, obj, recs, p)
    BY <2>1, <2>7, <2>8, <2>9 DEF WellFormed
  <2>11. QED
    BY <1>2, <2>10
<1>7. QED
  BY <1>5, <1>6

\* A word that sg_pair_words_load accepts has actions only, and runs from the
\* states of its pair either show something different or end in the same state.
LEMMA FoundResolves ==
  ASSUME NEW aut \in Automata, NEW recs \in [Pairs -> Records],
         NEW x \in States, NEW y \in States, NEW w,
         PairWord(aut, "resolution", recs, {x, y}) = Found(w)
  PROVE  /\ w \in Seq(Actions)
         /\ \/ \E n \in 1 .. Len(w) : ShownAt(aut, w, x, n) # ShownAt(aut, w, y, n)
            \/ PlacesFrom(aut, x, w)[Len(w)] = PlacesFrom(aut, y, w)[Len(w)]
<1>1. PICK p \in Pairs : p = {x, y}
  BY DEF Pairs
<1> DEFINE d == recs[p].dist
           v == [n \in 1 .. d |-> recs[Walked(recs, p, n - 1)].act]
           hop == [q \in Pairs \cup {NoPair} |-> IF q = NoPair THEN NoPair ELSE recs[q].next]
<1>2. WellFormed(aut, "resolution", recs, p) /\ d \in Nat /\ d # None /\ w = v
  <2>1. PairWord(aut, "resolution", recs, p).state = "found"
    BY <1>1 DEF Found
  <2>2. Malformed.state # "found" /\ Missing.state # "found"
    BY DEF Malformed, Missing
  <2>3. WellFormed(aut, "resolution", recs, p) /\ d # None
    BY <2>1, <2>2 DEF PairWord
  <2>4. PairWord(aut, "resolution", recs, p) = Found(v)
    BY <2>3 DEF PairWord
  <2>5. d \in Nat
    BY <1>1, <2>3 DEF Records, Distances
  <2> HIDE DEF v
  <2>6. w = v
    BY <1>1, <2>4 DEF Found
  <2>7. QED
    BY <2>3, <2>5, <2>6
<1>3. /\ \A n \in 0 .. d - 1 :
            /\ Walked(recs, p, n) # NoPair
            /\ Sound(aut, "resolution", Walked(recs, p, n), recs[Walked(recs, p, n)])
      /\ Walked(recs, p, d) # NoPair => Walked(recs, p, d) \in Diagonal
  BY <1>2 DEF WellFormed
<1>4. \A n \in Nat : /\ Walked(recs, p, 0) = p
                     /\ Walked(recs, p, n + 1) = hop[Walked(recs, p, n)]
  BY OnwardStep DEF Walked
<1>5. /\ \A q \in Pairs : hop[q] = recs[q].next /\ recs[q].next \in Pairs \cup {NoPair}
      /\ hop[NoPair] = NoPair
  BY SomePair DEF Records
<1>6. \A n \in 1 .. d : v[n] = recs[Walked(recs, p, n - 1)].act
  OBVIOUS
<1>7. v = [n \in 1 .. d |-> v[n]]
  OBVIOUS
<1>8. PICK e \in Nat : e = d
  BY <1>2
<1> HIDE DEF d, v, hop
<1>9. ASSUME NEW m \in Nat, m < e
      PROVE  m \in 0 .. d - 1 /\ m + 1 \in 1 .. d /\ (m + 1) - 1 = m
  BY <1>8, <1>9
<1>10. \A n \in 0 .. e : Walked(recs, p, n) \in Pairs \cup {NoPair}
  <2> DEFINE S == {n \in 0 .. e : Walked(recs, p, n) \in Pairs \cup {NoPair}}
  <2>1. 0 \in S
    BY <1>4
  <2>2. ASSUME NEW n \in 1 .. e, n - 1 \in S PROVE n \in S
    <3>1. PICK m \in Nat : m = n - 1 /\ m + 1 = n
      <4>1. n - 1 \in Nat /\ (n - 1) + 1 = n
        OBVIOUS
      <4>2. QED
        BY <4>1
    <3>2. Walked(recs, p, n) = hop[Walked(recs, p, m)] /\ Walked(recs, p, m) \in Pairs \cup {NoPair}
      BY <1>4, <2>2, <3>1
    <3>3. Walked(recs, p, n) \in Pairs \cup {NoPair}
      BY <1>5, <3>2
    <3>4. QED
      BY <3>3
  <2> HIDE DEF S
  <2>3. \A n \in 0 .. e : n \in S
    BY <2>1, <2>2, StepByStep
  <2>4. QED
    BY <2>3 DEF S
\* The pair that the walk is at, and the letter that leads on.
<1>11. ASSUME NEW m \in Nat, m < e
       PROVE  /\ Walked(recs, p, m) \in Pairs /\ w[m + 1] \in Actions
              /\ Sound(aut, "resolution", Walked(recs, p, m), recs[Walked(recs, p, m)])
              /\ recs[Walked(recs, p, m)].act = w[m + 1]
              /\ Walked(recs, p, m + 1) = recs[Walked(recs, p, m)].next
  <2>1. m \in 0 .. d - 1 /\ m + 1 \in 1 .. d /\ (m + 1) - 1 = m /\ m \in 0 .. e
    BY <1>9, <1>11
  <2>2. PICK q : q = Walked(recs, p, m)
    OBVIOUS
  <2>3. q # NoPair /\ q \in Pairs \cup {NoPair} /\ Sound(aut, "resolution", q, recs[q])
    BY <1>3, <1>10, <2>1, <2>2
  <2>4. q \in Pairs
    BY <2>3
  <2>5. recs[q].act # None
    BY <2>3 DEF Sound
  <2>6. recs[q].act \in Actions
    BY <2>4, <2>5 DEF Records
  <2>7. w[m + 1] = recs[q].act
    BY <1>2, <1>6, <2>1, <2>2
  <2>8. Walked(recs, p, m + 1) = recs[q].next
    BY <1>4, <1>5, <2>2, <2>4
  <2>9. QED
    BY <2>2, <2>3, <2>4, <2>6, <2>7, <2>8
<1>12. w \in Seq(Actions) /\ Len(w) = e
  <2>1. ASSUME NEW n \in 1 .. d PROVE v[n] \in Actions
    <3>1. PICK m \in Nat : m < e /\ m + 1 = n
      <4>1. n - 1 \in Nat /\ n - 1 < e /\ (n - 1) + 1 = n
        BY <1>8
      <4>2. QED
        BY <4>1
    <3>2. w[m + 1] \in Actions
      BY <1>11, <3>1
    <3>3. QED
      BY <1>2, <3>1, <3>2
  <2>2. v \in [1 .. d -> Actions]
    BY <1>7, <2>1
  <2>3. QED
    BY <1>2, <1>8, <2>2
<1>13. ASSUME \A n \in 1 .. e : ShownAt(aut, w, x, n) = ShownAt(aut, w, y, n)
       PROVE  PlacesFrom(aut, x, w)[e] = PlacesFrom(aut, y, w)[e]
  <2> DEFINE X == PlacesFrom(aut, x, w)
             Y == PlacesFrom(aut, y, w)
             S == {n \in 0 .. e : Walked(recs, p, n) = {X[n], Y[n]}}
  <2>1. /\ X[0] = x /\ Y[0] = y
        /\ \A n \in 1 .. e : /\ X[n] = aut.delta[<<X[n - 1], w[n]>>]
                             /\ Y[n] = aut.delta[<<Y[n - 1], w[n]>>]
    <3>1. w \in Seq(Actions)
      BY <1>12
    <3>2. X[0] = x /\ \A n \in 1 .. Len(w) : X[n] = aut.delta[<<X[n - 1], w[n]>>]
      BY <3>1, PlacesFromSound
    <3>3. Y[0] = y /\ \A n \in 1 .. Len(w) : Y[n] = aut.delta[<<Y[n - 1], w[n]>>]
      BY <3>1, PlacesFromSound
    <3> HIDE DEF X, Y
    <3>4. QED
      BY <1>12, <3>2, <3>3
  <2>2. \A n \in 1 .. e : aut.eta[<<X[n - 1], w[n]>>] = aut.eta[<<Y[n - 1], w[n]>>]
    BY <1>13 DEF ShownAt
  <2> HIDE DEF X, Y
  <2>3. 0 \in S
    <3>1. Walked(recs, p, 0) = {X[0], Y[0]}
      BY <1>1, <1>4, <2>1
    <3>2. QED
      BY <3>1
  <2>4. ASSUME NEW n \in 1 .. e, n - 1 \in S PROVE n \in S
    <3>1. PICK m \in Nat : m = n - 1 /\ m + 1 = n /\ m < e
      <4>1. n - 1 \in Nat /\ (n - 1) + 1 = n /\ n - 1 < e
        OBVIOUS
      <4>2. QED
        BY <4>1
    <3>2. PICK q \in Pairs : q = Walked(recs, p, m) /\ q = {X[m], Y[m]}
      BY <1>11, <2>4, <3>1
    <3>3. PICK a \in Actions : a = w[n] /\ a = recs[q].act
      BY <1>11, <3>1, <3>2
    <3>4. aut.eta[<<X[m], a>>] = aut.eta[<<Y[m], a>>]
      BY <2>2, <3>1, <3>3
    <3>5. ~Terminal(aut, "resolution", q, a)
      BY <3>2, <3>4 DEF Terminal, OutputsDiffer
    <3>6. recs[q].next = Target(aut, q, a)
      <4>1. Sound(aut, "resolution", q, recs[q])
        BY <1>11, <3>1, <3>2
      <4>2. QED
        BY <3>3, <3>5, <4>1 DEF Sound
    <3>7. Walked(recs, p, n) = Target(aut, q, a)
      BY <1>11, <3>1, <3>2, <3>6
    <3>8. Target(aut, q, a) = {aut.delta[<<X[m], a>>], aut.delta[<<Y[m], a>>]}
      BY <3>2 DEF Target
    <3>9. Walked(recs, p, n) = {X[n], Y[n]}
      BY <2>1, <3>1, <3>3, <3>7, <3>8
    <3>10. QED
      BY <3>9
  <2>5. \A n \in 0 .. e : n \in S
    <3> HIDE DEF S
    <3>1. QED
      BY <2>3, <2>4, StepByStep
  <2>6. e \in 0 .. e
    OBVIOUS
  <2>7. Walked(recs, p, e) = {X[e], Y[e]}
    BY <2>5, <2>6
  <2>8. Walked(recs, p, e) \in Diagonal
    BY <1>3, <1>8, <2>7 DEF NoPair
  <2>9. X[e] = Y[e]
    BY <2>7, <2>8 DEF Diagonal
  <2>10. QED
    BY <2>9 DEF X, Y
<1>14. QED
  BY <1>12, <1>13
=============================================================================
