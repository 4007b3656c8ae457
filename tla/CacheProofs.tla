---------------------------- MODULE CacheProofs ----------------------------
(***************************************************************************)
(* The snapshot cache keeps its list, its bytes and the reference counts   *)
(* right for any number of threads, keys, snapshots and entries, evicts    *)
(* what was used longest ago, and is a map from keys to snapshots.         *)
(*                                                                         *)
(* The links are one chain that has the same entries from both ends; an    *)
(* entry is in the chain or in the hands of one insertion; and while an    *)
(* insertion has the mutex no entry of the chain has its key.              *)
(***************************************************************************)
EXTENDS SnapshotCache, TLAPS, FiniteSetTheorems, WellFoundedInduction

-----------------------------------------------------------------------------
(* Steps along a chain. *)

\* A nonempty set of naturals has a least element.
LEMMA LeastNatural ==
  ASSUME NEW S, S \subseteq Nat, S # {}
  PROVE  /\ Min(S) \in S
         /\ \A y \in S : Min(S) <= y
<1> DEFINE Less == {ss \in Nat \X Nat : ss[1] < ss[2]}
<1>1. IsWellFoundedOn(Less, Nat)
  BY NatLessThanWellFounded DEF OpToRel
<1>2. PICK x \in S : \A y \in S : ~(<<y, x>> \in Less)
  BY <1>1, WFMin
<1>3. ASSUME NEW y \in S PROVE x <= y
  <2>1. x \in Nat /\ y \in Nat /\ ~(y < x)
    BY <1>2
  <2>2. QED
    BY <2>1
<1>4. QED
  BY <1>3 DEF Min

\* A set that has 0 and with each step the next one has all steps.
LEMMA StepByStep ==
  ASSUME NEW n \in Nat, NEW S, 0 \in S, \A k \in 1 .. n : k - 1 \in S => k \in S
  PROVE  \A k \in 0 .. n : k \in S
<1> DEFINE Bad == (0 .. n) \ S
<1> SUFFICES ASSUME Bad # {} PROVE FALSE
  OBVIOUS
<1>1. PICK m \in Bad : \A j \in Bad : m <= j
  <2>1. Bad \subseteq Nat
    OBVIOUS
  <2>2. QED
    BY <2>1, LeastNatural
<1>2. m \in 1 .. n /\ m - 1 \in 0 .. n /\ ~(m <= m - 1)
  OBVIOUS
<1>3. m - 1 \in S
  BY <1>1, <1>2
<1>4. QED
  BY <1>2, <1>3

\* Different addresses, no more than there are.
Distinct(s) == \A i, j \in 1 .. Len(s) : s[i] = s[j] => i = j

LEMMA DistinctBound ==
  ASSUME NEW s \in Seq(Entries), Distinct(s)
  PROVE  Len(s) \in Nat /\ Cardinality(Entries) \in Nat /\ Len(s) <= Cardinality(Entries)
<1>1. Len(s) \in Nat /\ IsFiniteSet(1 .. Len(s)) /\ Cardinality(1 .. Len(s)) = Len(s)
  <2>1. PICK n \in Nat : n = Len(s)
    OBVIOUS
  <2>2. IsFiniteSet(1 .. n) /\ Cardinality(1 .. n) = IF 1 > n THEN 0 ELSE n - 1 + 1
    BY FS_Interval
  <2>3. QED
    BY <2>1, <2>2
<1>2. IsFiniteSet(Entries) /\ Cardinality(Entries) \in Nat
  BY CacheAssumption, FS_CardinalityType
<1>3. s \in [1 .. Len(s) -> Entries]
  OBVIOUS
<1>4. Cardinality(1 .. Len(s)) <= Cardinality(Entries)
  <2> DEFINE D == 1 .. Len(s)
  <2>1. \A f \in [D -> Entries] : Cardinality(D) > Cardinality(Entries)
          => \E x, y \in D : x # y /\ f[x] = f[y]
    <3> HIDE DEF D
    <3>1. IsFiniteSet(D)
      BY <1>1 DEF D
    <3>2. QED
      BY <1>2, <3>1, FS_PigeonHole
  <2>2. ~(Cardinality(D) > Cardinality(Entries))
    BY <1>3, <2>1 DEF Distinct
  <2>3. QED
    BY <1>1, <1>2, <2>2
<1>5. QED
  BY <1>1, <1>2, <1>4

\* The links lead along a chain from its first entry to its end.
Leads(link, e, s) ==
  /\ s \in Seq(Entries) /\ Distinct(s)
  /\ e = IF s = <<>> THEN NULL ELSE s[1]
  /\ \A i \in 1 .. Len(s) : link[s[i]] = IF i = Len(s) THEN NULL ELSE s[i + 1]

\* A walk along the links meets the entries of the chain, one after the other.
LEMMA WalkLeads ==
  ASSUME NEW link, NEW e, NEW s, Leads(link, e, s)
  PROVE  Walk(link, e) = s
<1> DEFINE N == Cardinality(Entries)
           Next1(before) ==
             LET at == IF before = <<>> THEN e ELSE link[Last(before)]
             IN IF at = NULL THEN before ELSE Append(before, at)
           Is(f) == f = [n \in 0 .. N |-> IF n = 0 \/ e = NULL THEN <<>> ELSE Next1(f[n - 1])]
           Part(n) == [i \in 1 .. (IF n <= Len(s) THEN n ELSE Len(s)) |-> s[i]]
           g == [n \in 0 .. N |-> Part(n)]
<1>1. /\ s \in Seq(Entries) /\ Len(s) \in Nat /\ N \in Nat /\ Len(s) <= N
      /\ s = [i \in 1 .. Len(s) |-> s[i]] /\ \A i \in 1 .. Len(s) : s[i] \in Entries
  BY DistinctBound DEF Leads
<1>2. e = NULL <=> Len(s) = 0
  BY <1>1, CacheAssumption DEF Leads
<1>3. Part(0) = <<>>
  BY <1>1
<1>4. ASSUME NEW n \in 1 .. N, e # NULL PROVE Part(n) = Next1(Part(n - 1))
  <2>1. Len(s) >= 1 /\ e = s[1]
    BY <1>1, <1>2, <1>4 DEF Leads
  <2>2. CASE n > Len(s)
    <3>1. Part(n) = s /\ Part(n - 1) = s
      BY <1>1, <2>2
    <3>2. s # <<>> /\ link[Last(s)] = NULL
      BY <1>1, <2>1 DEF Last, Leads
    <3> HIDE DEF Part
    <3>3. QED
      BY <3>1, <3>2
  <2>3. CASE n = 1
    <3>1. Part(0) = <<>> /\ n - 1 = 0
      BY <1>3, <2>3
    <3>2. Part(n) = <<e>>
      BY <2>1, <2>3, <1>1
    <3>3. Next1(<<>>) = <<e>>
      BY <1>4
    <3> HIDE DEF Part, Next1
    <3>4. QED
      BY <3>1, <3>2, <3>3
  <2>4. CASE n # 1 /\ n <= Len(s)
    <3> DEFINE p == Part(n - 1)
    <3>1. p \in Seq(Entries) /\ Len(p) = n - 1 /\ \A i \in 1 .. (n - 1) : p[i] = s[i]
      <4>1. p = [i \in 1 .. (n - 1) |-> s[i]]
        BY <1>1, <2>4
      <4>2. \A i \in 1 .. (n - 1) : s[i] \in Entries
        BY <1>1, <2>4
      <4> HIDE DEF p
      <4>3. p \in [1 .. (n - 1) -> Entries]
        BY <4>1, <4>2
      <4>4. n - 1 \in Nat
        BY <1>1
      <4>5. QED
        BY <4>1, <4>3, <4>4
    <3>2. p # <<>> /\ Last(p) = s[n - 1]
      BY <2>4, <3>1 DEF Last
    <3>3. link[s[n - 1]] = s[n]
      <4>1. n - 1 \in 1 .. Len(s) /\ n - 1 # Len(s) /\ n - 1 + 1 = n
        BY <1>1, <2>4
      <4>2. QED
        BY <4>1 DEF Leads
    <3>4. s[n] \in Entries /\ s[n] # NULL
      BY <1>1, <2>4, CacheAssumption
    <3> HIDE DEF p
    <3>5. Next1(p) = Append(p, s[n])
      BY <3>2, <3>3, <3>4
    <3> DEFINE q == Append(p, s[n])
    <3>6. /\ q \in Seq(Entries) /\ Len(q) = n /\ q[n] = s[n]
          /\ \A i \in 1 .. (n - 1) : q[i] = p[i]
      BY <3>1, <3>4, <1>1
    <3> HIDE DEF q
    <3>7. \A i \in 1 .. n : q[i] = s[i]
      BY <1>1, <3>1, <3>6
    <3>8. q = [i \in 1 .. n |-> q[i]]
      BY <3>6
    <3>9. q = [i \in 1 .. n |-> s[i]]
      BY <3>7, <3>8
    <3>10. Part(n) = q
      BY <2>4, <3>9
    <3> HIDE DEF Part, Next1
    <3>11. QED
      BY <3>5, <3>10 DEF p, q
  <2>5. QED
    BY <1>1, <2>2, <2>3, <2>4
<1>5. ASSUME NEW n \in 0 .. N, e = NULL PROVE Part(n) = <<>>
  BY <1>1, <1>2, <1>5
<1>6. Is(g)
  <2> DEFINE h == [n \in 0 .. N |-> IF n = 0 \/ e = NULL THEN <<>> ELSE Next1(g[n - 1])]
  <2>1. \A n \in 0 .. N : n = 0 \/ (n \in 1 .. N /\ n - 1 \in 0 .. N)
    BY <1>1
  <2>2. \A n \in 0 .. N : g[n] = Part(n)
    OBVIOUS
  <2>3. \A n \in 0 .. N : g[n] = h[n]
    <3> HIDE DEF g, Part, Next1
    <3>1. QED
      BY <1>3, <1>4, <1>5, <2>1, <2>2
  <2>4. g = [n \in 0 .. N |-> g[n]] /\ h = [n \in 0 .. N |-> h[n]]
    OBVIOUS
  <2> HIDE DEF g, h
  <2>5. g = h
    BY <2>3, <2>4
  <2> HIDE DEF Next1
  <2>6. QED
    BY <2>5 DEF h
<1> DEFINE M == CHOOSE f : Is(f)
<1>7. Walk(link, e) = M[N]
  BY DEF Walk
<1>8. Is(M)
  BY <1>6
<1>9. g[N] = s
  <2>1. N \in 0 .. N /\ Part(N) = s
    BY <1>1
  <2> HIDE DEF Part
  <2>2. QED
    BY <2>1
<1> HIDE DEF M, Next1, Part
<1>10. \A n \in 0 .. N : M[n] = g[n]
  <2> DEFINE S == {n \in 0 .. N : M[n] = g[n]}
  <2>1. 0 \in S
    <3>1. 0 \in 0 .. N
      BY <1>1
    <3>2. M[0] = <<>> /\ g[0] = <<>>
      BY <1>6, <1>8, <3>1
    <3>3. QED
      BY <3>1, <3>2
  <2>2. ASSUME NEW k \in 1 .. N, k - 1 \in S PROVE k \in S
    <3>1. k \in 0 .. N /\ k # 0 /\ M[k - 1] = g[k - 1]
      BY <2>2, <1>1
    <3>2. M[k] = IF e = NULL THEN <<>> ELSE Next1(M[k - 1])
      BY <1>8, <3>1
    <3>3. g[k] = IF e = NULL THEN <<>> ELSE Next1(g[k - 1])
      <4> HIDE DEF g
      <4>1. QED
        BY <1>6, <3>1
    <3> HIDE DEF g
    <3>4. QED
      BY <3>1, <3>2, <3>3
  <2>3. QED
    <3> HIDE DEF S
    <3>1. \A n \in 0 .. N : n \in S
      BY <1>1, <2>1, <2>2, StepByStep
    <3>2. QED
      BY <3>1 DEF S
<1>11. QED
  BY <1>1, <1>7, <1>9, <1>10

-----------------------------------------------------------------------------
(* The links of the list. *)

Listed(s) == {s[i] : i \in 1 .. Len(s)}

\* The links of a list are those of a chain, from both ends, and no entry
\* outside of it has a link.
IsChain(l, s) ==
  /\ s \in Seq(Entries) /\ Distinct(s)
  /\ l.newest = IF s = <<>> THEN NULL ELSE s[1]
  /\ l.oldest = IF s = <<>> THEN NULL ELSE s[Len(s)]
  /\ \A i \in 1 .. Len(s) :
       /\ l.newer[s[i]] = IF i = 1 THEN NULL ELSE s[i - 1]
       /\ l.older[s[i]] = IF i = Len(s) THEN NULL ELSE s[i + 1]
  /\ \A e \in Entries \ Listed(s) : l.newer[e] = NULL /\ l.older[e] = NULL

Removed(s, i) == [j \in 1 .. (Len(s) - 1) |-> IF j < i THEN s[j] ELSE s[j + 1]]
Pushed(s, e) == [j \in 1 .. (Len(s) + 1) |-> IF j = 1 THEN e ELSE s[j - 1]]

\* A chain is found by walking it from either end.
LEMMA ChainWalks ==
  ASSUME NEW l, NEW s, IsChain(l, s)
  PROVE  Walk(l.older, l.newest) = s /\ Walk(l.newer, l.oldest) = Reverse(s)
<1>1. s \in Seq(Entries) /\ Len(s) \in Nat /\ \A i \in 1 .. Len(s) : s[i] \in Entries
  BY DEF IsChain
<1>2. Leads(l.older, l.newest, s)
  BY DEF IsChain, Leads
<1> DEFINE r == Reverse(s)
<1>3. r = [i \in 1 .. Len(s) |-> s[Len(s) - i + 1]]
  BY DEF Reverse
<1>4. \A i \in 1 .. Len(s) : Len(s) - i + 1 \in 1 .. Len(s)
  BY <1>1
<1>5. r \in [1 .. Len(s) -> Entries]
  BY <1>1, <1>3, <1>4
<1> HIDE DEF r
<1>6. r \in Seq(Entries) /\ Len(r) = Len(s)
  BY <1>1, <1>5
<1>7. Distinct(r)
  <2> SUFFICES ASSUME NEW i \in 1 .. Len(s), NEW j \in 1 .. Len(s), r[i] = r[j] PROVE i = j
    BY <1>6 DEF Distinct
  <2>1. s[Len(s) - i + 1] = s[Len(s) - j + 1]
    BY <1>3
  <2>2. Len(s) - i + 1 = Len(s) - j + 1
    BY <1>4, <2>1 DEF IsChain, Distinct
  <2>3. QED
    BY <1>1, <2>2
<1>8. l.oldest = IF r = <<>> THEN NULL ELSE r[1]
  <2>1. CASE Len(s) = 0
    BY <1>6, <2>1, <1>1 DEF IsChain
  <2>2. CASE Len(s) # 0
    <3>1. 1 \in 1 .. Len(s) /\ Len(s) - 1 + 1 = Len(s)
      BY <1>1, <2>2
    <3>2. r[1] = s[Len(s)]
      BY <1>3, <3>1
    <3>3. s # <<>> /\ r # <<>>
      BY <1>6, <2>2
    <3>4. QED
      BY <3>2, <3>3 DEF IsChain
  <2>3. QED
    BY <2>1, <2>2
<1>9. ASSUME NEW i \in 1 .. Len(r)
      PROVE  l.newer[r[i]] = IF i = Len(r) THEN NULL ELSE r[i + 1]
  <2>1. PICK k \in 1 .. Len(s) : k = Len(s) - i + 1
    BY <1>4, <1>6
  <2>2. r[i] = s[k]
    BY <1>3, <1>6, <2>1
  <2>3. l.newer[s[k]] = IF k = 1 THEN NULL ELSE s[k - 1]
    BY DEF IsChain
  <2>4. k = 1 <=> i = Len(r)
    BY <1>1, <1>6, <2>1
  <2>5. ASSUME i # Len(r) PROVE r[i + 1] = s[k - 1]
    <3>1. i + 1 \in 1 .. Len(s) /\ Len(s) - (i + 1) + 1 = k - 1
      BY <1>1, <1>6, <2>1, <2>5
    <3>2. QED
      BY <1>3, <3>1
  <2>6. QED
    BY <2>2, <2>3, <2>4, <2>5
<1>10. Leads(l.newer, l.oldest, r)
  BY <1>6, <1>7, <1>8, <1>9 DEF Leads
<1>11. QED
  BY <1>2, <1>10, WalkLeads DEF r

\* What a chain becomes without one entry, and with another one in front.
LEMMA RemovedSound ==
  ASSUME NEW S, NEW s \in Seq(S), Distinct(s), NEW i \in 1 .. Len(s)
  PROVE  /\ Removed(s, i) \in Seq(S) /\ Len(Removed(s, i)) = Len(s) - 1
         /\ Distinct(Removed(s, i)) /\ Listed(Removed(s, i)) = Listed(s) \ {s[i]}
<1> DEFINE r == Removed(s, i)
           n == Len(s) - 1
<1>1. /\ Len(s) \in Nat /\ n \in Nat /\ s[i] \in S
      /\ \A k \in 1 .. Len(s) : s[k] \in S
  OBVIOUS
<1>2. \A j \in 1 .. n : r[j] = IF j < i THEN s[j] ELSE s[j + 1]
  BY DEF Removed
<1>3. \A j \in 1 .. n : j \in 1 .. Len(s) /\ j + 1 \in 1 .. Len(s)
  BY <1>1
<1>4. r \in [1 .. n -> S]
  BY <1>1, <1>3 DEF Removed
<1> HIDE DEF r
<1>5. r \in Seq(S) /\ Len(r) = n
  BY <1>1, <1>4
<1>6. Distinct(r)
  <2> SUFFICES ASSUME NEW j \in 1 .. n, NEW k \in 1 .. n, r[j] = r[k] PROVE j = k
    BY <1>5 DEF Distinct
  <2> DEFINE at(m) == IF m < i THEN m ELSE m + 1
  <2>1. at(j) \in 1 .. Len(s) /\ at(k) \in 1 .. Len(s)
    BY <1>3
  <2>2. s[at(j)] = s[at(k)]
    BY <1>2
  <2>3. at(j) = at(k)
    BY <2>1, <2>2 DEF Distinct
  <2>4. QED
    BY <1>1, <2>3
<1>7. ASSUME NEW j \in 1 .. n PROVE r[j] \in Listed(s) \ {s[i]}
  <2> DEFINE at == IF j < i THEN j ELSE j + 1
  <2>1. at \in 1 .. Len(s) /\ at # i
    BY <1>1, <1>3
  <2>2. r[j] = s[at]
    BY <1>2
  <2>3. QED
    BY <2>1, <2>2 DEF Listed, Distinct
<1>8. ASSUME NEW k \in 1 .. Len(s), s[k] # s[i] PROVE \E j \in 1 .. n : r[j] = s[k]
  <2>1. CASE k < i
    <3>1. k \in 1 .. n
      BY <1>1, <2>1
    <3>2. QED
      BY <1>2, <2>1, <3>1
  <2>2. CASE k > i
    <3>1. k - 1 \in 1 .. n /\ ~(k - 1 < i) /\ k - 1 + 1 = k
      BY <1>1, <2>2
    <3>2. r[k - 1] = s[k]
      BY <1>2, <3>1
    <3>3. QED
      BY <3>1, <3>2
  <2>3. QED
    BY <1>1, <1>8, <2>1, <2>2
<1>9. Listed(r) = Listed(s) \ {s[i]}
  <2>1. \A e \in Listed(r) : e \in Listed(s) \ {s[i]}
    BY <1>5, <1>7 DEF Listed
  <2>2. \A e \in Listed(s) \ {s[i]} : e \in Listed(r)
    BY <1>5, <1>8 DEF Listed
  <2>3. QED
    BY <2>1, <2>2
<1>10. QED
  BY <1>5, <1>6, <1>9 DEF r

LEMMA PushedSound ==
  ASSUME NEW S, NEW s \in Seq(S), Distinct(s), NEW e \in S, e \notin Listed(s)
  PROVE  /\ Pushed(s, e) \in Seq(S) /\ Len(Pushed(s, e)) = Len(s) + 1
         /\ Distinct(Pushed(s, e)) /\ Listed(Pushed(s, e)) = Listed(s) \cup {e}
<1> DEFINE r == Pushed(s, e)
           n == Len(s) + 1
<1>1. /\ Len(s) \in Nat /\ n \in Nat /\ \A k \in 1 .. Len(s) : s[k] \in S
  OBVIOUS
<1>2. \A j \in 1 .. n : r[j] = IF j = 1 THEN e ELSE s[j - 1]
  BY DEF Pushed
<1>3. \A j \in 1 .. n : j = 1 \/ j - 1 \in 1 .. Len(s)
  BY <1>1
<1>4. r \in [1 .. n -> S]
  BY <1>1, <1>3 DEF Pushed
<1> HIDE DEF r
<1>5. r \in Seq(S) /\ Len(r) = n
  BY <1>1, <1>4
<1>6. Distinct(r)
  <2> SUFFICES ASSUME NEW j \in 1 .. n, NEW k \in 1 .. n, r[j] = r[k] PROVE j = k
    BY <1>5 DEF Distinct
  <2>1. CASE j = 1 \/ k = 1
    BY <1>2, <1>3, <2>1 DEF Listed
  <2>2. CASE j # 1 /\ k # 1
    <3>1. s[j - 1] = s[k - 1] /\ j - 1 \in 1 .. Len(s) /\ k - 1 \in 1 .. Len(s)
      BY <1>2, <1>3, <2>2
    <3>2. j - 1 = k - 1
      BY <3>1 DEF Distinct
    <3>3. QED
      BY <1>1, <3>2
  <2>3. QED
    BY <2>1, <2>2
<1>7. Listed(r) = Listed(s) \cup {e}
  <2>1. ASSUME NEW j \in 1 .. n PROVE r[j] \in Listed(s) \cup {e}
    BY <1>2, <1>3 DEF Listed
  <2>2. ASSUME NEW k \in 1 .. Len(s) PROVE \E j \in 1 .. n : r[j] = s[k]
    <3>1. k + 1 \in 1 .. n /\ k + 1 # 1 /\ k + 1 - 1 = k
      BY <1>1
    <3>2. r[k + 1] = s[k]
      BY <1>2, <3>1
    <3>3. QED
      BY <3>1, <3>2
  <2>3. 1 \in 1 .. n /\ r[1] = e
    BY <1>1, <1>2
  <2>4. QED
    BY <1>5, <2>1, <2>2, <2>3 DEF Listed
<1>8. QED
  BY <1>5, <1>6, <1>7 DEF r

\* The neighbors of an entry of a chain.
LEMMA Neighbors ==
  ASSUME NEW l, NEW s, IsChain(l, s), NEW i \in 1 .. Len(s)
  PROVE  /\ s \in Seq(Entries) /\ Len(s) \in Nat /\ s # <<>> /\ s[i] \in Entries /\ s[i] # NULL
         /\ l.newer[s[i]] = IF i = 1 THEN NULL ELSE s[i - 1]
         /\ l.older[s[i]] = IF i = Len(s) THEN NULL ELSE s[i + 1]
         /\ i # 1 => i - 1 \in 1 .. Len(s) /\ s[i - 1] \in Entries /\ s[i - 1] # NULL
         /\ i # Len(s) => i + 1 \in 1 .. Len(s) /\ s[i + 1] \in Entries /\ s[i + 1] # NULL
         /\ l.newest = s[1] /\ l.oldest = s[Len(s)]
<1>1. s \in Seq(Entries) /\ Len(s) \in Nat
  BY DEF IsChain
<1>2. \A k \in 1 .. Len(s) : s[k] \in Entries /\ s[k] # NULL
  BY <1>1, CacheAssumption
<1>3. s # <<>>
  BY <1>1
<1>4. /\ i # 1 => i - 1 \in 1 .. Len(s)
      /\ i # Len(s) => i + 1 \in 1 .. Len(s)
  BY <1>1
<1>5. QED
  BY <1>1, <1>2, <1>3, <1>4 DEF IsChain

\* sg_cache_unlink takes one entry out of the chain.
LEMMA UnlinkSound ==
  ASSUME NEW l \in Lists, NEW s, IsChain(l, s), NEW i \in 1 .. Len(s)
  PROVE  Unlink(l, s[i]) \in Lists /\ IsChain(Unlink(l, s[i]), Removed(s, i))
<1> DEFINE e == s[i]
           m == Unlink(l, e)
           r == Removed(s, i)
           n == Len(s) - 1
<1>1. /\ s \in Seq(Entries) /\ Len(s) \in Nat /\ n \in Nat /\ e \in Entries /\ e # NULL
      /\ l.newer[e] = IF i = 1 THEN NULL ELSE s[i - 1]
      /\ l.older[e] = IF i = Len(s) THEN NULL ELSE s[i + 1]
      /\ i # 1 => s[i - 1] \in Entries /\ s[i - 1] # NULL
      /\ i # Len(s) => s[i + 1] \in Entries /\ s[i + 1] # NULL
      /\ l.newest = s[1] /\ l.oldest = s[Len(s)]
  BY Neighbors
<1>2. /\ m.newest = IF i = 1 THEN l.older[e] ELSE l.newest
      /\ m.oldest = IF i = Len(s) THEN l.newer[e] ELSE l.oldest
  BY <1>1 DEF Unlink
<1>3. \A f \in Entries :
        /\ m.newer[f] = IF f = e THEN NULL ELSE IF f = l.older[e] THEN l.newer[e] ELSE l.newer[f]
        /\ m.older[f] = IF f = e THEN NULL ELSE IF f = l.newer[e] THEN l.older[e] ELSE l.older[f]
  BY DEF Unlink
<1>4. m \in Lists
  <2>1. l.newer[e] \in Entries \cup {NULL} /\ l.older[e] \in Entries \cup {NULL}
    BY <1>1
  <2>2. \A f \in Entries : l.newer[f] \in Entries \cup {NULL} /\ l.older[f] \in Entries \cup {NULL}
    BY DEF Lists
  <2>3. l.newest \in Entries \cup {NULL} /\ l.oldest \in Entries \cup {NULL}
    BY DEF Lists
  <2> HIDE DEF e
  <2>4. QED
    BY <2>1, <2>2, <2>3 DEF Unlink, Lists
<1>5. Distinct(s)
  BY DEF IsChain
<1>6. /\ r \in Seq(Entries) /\ Len(r) = n /\ Distinct(r) /\ Listed(r) = Listed(s) \ {e}
  BY <1>1, <1>5, RemovedSound
<1>7. \A j \in 1 .. n : r[j] = IF j < i THEN s[j] ELSE s[j + 1]
  BY DEF Removed
<1> HIDE DEF r, m
<1>8. r = <<>> <=> Len(s) = 1
  BY <1>1, <1>6
<1>9. m.newest = IF r = <<>> THEN NULL ELSE r[1]
  <2>1. CASE Len(s) = 1
    BY <1>1, <1>2, <1>8, <2>1
  <2>2. CASE Len(s) # 1
    <3>1. 1 \in 1 .. n
      <4>1. PICK k \in Nat : k = Len(s) /\ k >= 1
        BY <1>1
      <4>2. k # 1 /\ n = k - 1
        BY <2>2, <4>1
      <4> HIDE DEF n
      <4>3. QED
        BY <4>1, <4>2
    <3>2. r[1] = IF 1 < i THEN s[1] ELSE s[2]
      BY <1>7, <3>1
    <3>3. CASE i = 1
      <4>1. l.older[e] = s[2]
        BY <1>1, <2>2, <3>3
      <4>2. QED
        BY <1>2, <1>8, <2>2, <3>2, <3>3, <4>1
    <3>4. CASE i # 1
      <4>1. 1 < i
        BY <3>4
      <4>2. QED
        BY <1>1, <1>2, <1>8, <2>2, <3>2, <3>4, <4>1
    <3>5. QED
      BY <3>3, <3>4
  <2>3. QED
    BY <2>1, <2>2
<1>10. m.oldest = IF r = <<>> THEN NULL ELSE r[Len(r)]
  <2>1. CASE Len(s) = 1
    BY <1>1, <1>2, <1>8, <2>1
  <2>2. CASE Len(s) # 1
    <3>1. n \in 1 .. n /\ n + 1 = Len(s)
      <4>1. PICK k \in Nat : k = Len(s) /\ k >= 1
        BY <1>1
      <4>2. k # 1 /\ n = k - 1
        BY <2>2, <4>1
      <4> HIDE DEF n
      <4>3. QED
        BY <4>1, <4>2
    <3>2. r[n] = IF n < i THEN s[n] ELSE s[n + 1]
      BY <1>7, <3>1
    <3>3. QED
      BY <1>1, <1>2, <1>6, <1>8, <2>2, <3>1, <3>2
  <2>3. QED
    BY <2>1, <2>2
<1>11. \A j, k \in 1 .. Len(s) : s[j] = s[k] => j = k
  BY <1>5 DEF Distinct
<1>12. ASSUME NEW j \in 1 .. n
       PROVE  /\ m.newer[r[j]] = IF j = 1 THEN NULL ELSE r[j - 1]
              /\ m.older[r[j]] = IF j = Len(r) THEN NULL ELSE r[j + 1]
  <2>1. CASE j < i
    <3>1. j \in 1 .. Len(s) /\ j # i /\ r[j] = s[j]
      BY <1>1, <1>7, <2>1
    <3>2. s[j] # e /\ s[j] \in Entries
      BY <1>1, <1>11, <3>1
    <3>3. s[j] # l.older[e]
      <4>1. i # Len(s) => i + 1 \in 1 .. Len(s) /\ i + 1 # j
        BY <1>1, <2>1
      <4>2. QED
        BY <1>1, <1>11, <3>1, <3>2, <4>1, CacheAssumption
    <3>4. m.newer[s[j]] = IF j = 1 THEN NULL ELSE s[j - 1]
      BY <1>3, <3>1, <3>2, <3>3, Neighbors
    <3>5. j # 1 => r[j - 1] = s[j - 1]
      <4>1. j # 1 => j - 1 \in 1 .. n /\ j - 1 < i
        BY <1>1, <2>1
      <4>2. QED
        BY <1>7, <4>1
    <3>6. s[j] = l.newer[e] <=> j + 1 = i
      <4>1. i # 1 => i - 1 \in 1 .. Len(s)
        BY <1>1
      <4>2. i = 1 => s[j] # l.newer[e]
        BY <1>1, <2>1
      <4>3. QED
        BY <1>1, <1>11, <2>1, <3>1, <4>1, <4>2
    <3>7. m.older[s[j]] = IF j + 1 = i THEN l.older[e] ELSE s[j + 1]
      <4>1. l.older[s[j]] = IF j = Len(s) THEN NULL ELSE s[j + 1]
        BY <3>1, Neighbors
      <4>2. j # Len(s)
        BY <1>1, <2>1
      <4>3. QED
        BY <1>3, <3>2, <3>6, <4>1, <4>2
    <3>8. CASE j + 1 = i
      <4>1. j = Len(r) <=> i = Len(s)
        BY <1>1, <1>6, <3>8
      <4>2. j # Len(r) => r[j + 1] = s[i + 1]
        <5>1. j # Len(r) => j + 1 \in 1 .. n /\ ~(j + 1 < i)
          BY <1>1, <1>6, <3>8
        <5>2. QED
          BY <1>7, <3>8, <5>1
      <4>3. QED
        BY <1>1, <3>1, <3>4, <3>5, <3>7, <3>8, <4>1, <4>2
    <3>9. CASE j + 1 # i
      <4>1. j + 1 < i /\ j + 1 \in 1 .. n /\ j # Len(r)
        BY <1>1, <1>6, <2>1, <3>9
      <4>2. r[j + 1] = s[j + 1]
        BY <1>7, <4>1
      <4>3. QED
        BY <3>1, <3>4, <3>5, <3>7, <3>9, <4>1, <4>2
    <3>10. QED
      BY <3>8, <3>9
  <2>2. CASE ~(j < i)
    <3>1. PICK k \in 1 .. Len(s) : k = j + 1 /\ k - 1 = j
      BY <1>1
    <3>2. r[j] = s[k] /\ k # i /\ k > i
      BY <1>1, <1>7, <2>2, <3>1
    <3>3. s[k] # e /\ s[k] \in Entries
      BY <1>1, <1>11, <3>2
    <3>4. s[k] # l.newer[e]
      <4>1. i # 1 => i - 1 \in 1 .. Len(s) /\ i - 1 # k
        BY <1>1, <3>2
      <4>2. QED
        BY <1>1, <1>11, <3>3, <4>1, CacheAssumption
    <3>5. m.older[s[k]] = IF k = Len(s) THEN NULL ELSE s[k + 1]
      <4>1. l.older[s[k]] = IF k = Len(s) THEN NULL ELSE s[k + 1]
        BY <3>1, Neighbors
      <4>2. QED
        BY <1>3, <3>3, <3>4, <4>1
    <3>6. k = Len(s) <=> j = Len(r)
      BY <1>1, <1>6, <3>1
    <3>7. j # Len(r) => r[j + 1] = s[k + 1]
      <4>1. j # Len(r) => j + 1 \in 1 .. n /\ ~(j + 1 < i) /\ j + 1 + 1 = k + 1
        BY <1>1, <1>6, <2>2, <3>1
      <4>2. QED
        BY <1>7, <4>1
    <3>8. s[k] = l.older[e] <=> k = i + 1
      <4>1. i # Len(s) => i + 1 \in 1 .. Len(s)
        BY <1>1
      <4>2. i = Len(s) => s[k] # l.older[e]
        BY <1>1, <3>2
      <4>3. QED
        BY <1>1, <1>11, <3>1, <3>2, <4>1, <4>2
    <3>9. m.newer[s[k]] = IF k = i + 1 THEN l.newer[e] ELSE s[k - 1]
      <4>1. l.newer[s[k]] = IF k = 1 THEN NULL ELSE s[k - 1]
        BY <3>1, Neighbors
      <4>2. k # 1
        BY <1>1, <3>2
      <4>3. QED
        BY <1>3, <3>3, <3>8, <4>1, <4>2
    <3>10. CASE k = i + 1
      <4>1. j = i
        BY <1>1, <3>1, <3>10
      <4>2. j # 1 => r[j - 1] = s[i - 1]
        <5>1. j # 1 => j - 1 \in 1 .. n /\ j - 1 < i
          BY <1>1, <4>1
        <5>2. QED
          BY <1>7, <4>1, <5>1
      <4>3. QED
        BY <1>1, <3>2, <3>5, <3>6, <3>7, <3>9, <3>10, <4>1, <4>2
    <3>11. CASE k # i + 1
      <4>1. j - 1 \in 1 .. n /\ ~(j - 1 < i) /\ j - 1 + 1 = k - 1 /\ j # 1
        BY <1>1, <3>1, <3>2, <3>11
      <4>2. r[j - 1] = s[k - 1]
        BY <1>7, <4>1
      <4>3. QED
        BY <3>2, <3>5, <3>6, <3>7, <3>9, <3>11, <4>1, <4>2
    <3>12. QED
      BY <3>10, <3>11
  <2>3. QED
    BY <2>1, <2>2
<1>13. ASSUME NEW f \in Entries \ Listed(r) PROVE m.newer[f] = NULL /\ m.older[f] = NULL
  <2>1. CASE f = e
    BY <1>3, <2>1
  <2>2. CASE f # e
    <3>1. f \notin Listed(s)
      BY <1>6, <2>2
    <3>2. l.newer[f] = NULL /\ l.older[f] = NULL
      BY <3>1 DEF IsChain
    <3>3. f # l.older[e] /\ f # l.newer[e]
      <4>1. i # 1 => i - 1 \in 1 .. Len(s)
        BY <1>1
      <4>2. i # Len(s) => i + 1 \in 1 .. Len(s)
        BY <1>1
      <4>3. QED
        BY <1>1, <3>1, <4>1, <4>2, CacheAssumption DEF Listed
    <3>4. QED
      BY <1>3, <2>2, <3>2, <3>3
  <2>3. QED
    BY <2>1, <2>2
<1>14. IsChain(m, r)
  BY <1>6, <1>9, <1>10, <1>12, <1>13 DEF IsChain
<1>15. QED
  BY <1>4, <1>14 DEF m, r

\* sg_cache_link_newest puts an entry in front of the chain.
LEMMA LinkNewestSound ==
  ASSUME NEW l \in Lists, NEW s, IsChain(l, s), NEW e \in Entries, e \notin Listed(s)
  PROVE  LinkNewest(l, e) \in Lists /\ IsChain(LinkNewest(l, e), Pushed(s, e))
<1> DEFINE m == LinkNewest(l, e)
           r == Pushed(s, e)
<1>1. /\ s \in Seq(Entries) /\ Len(s) \in Nat /\ Distinct(s) /\ e # NULL
      /\ l.newest = IF s = <<>> THEN NULL ELSE s[1]
      /\ l.oldest = IF s = <<>> THEN NULL ELSE s[Len(s)]
      /\ \A f \in Entries \ Listed(s) : l.newer[f] = NULL /\ l.older[f] = NULL
  BY CacheAssumption DEF IsChain
<1>2. s = <<>> <=> Len(s) = 0
  BY <1>1
<1>3. \A k \in 1 .. Len(s) : s[k] \in Entries /\ s[k] # NULL /\ s[k] # e /\ s[k] \in Listed(s)
  BY <1>1, CacheAssumption DEF Listed
<1>4. l.newest = NULL <=> Len(s) = 0
  BY <1>1, <1>2, <1>3
<1>5. /\ m.newest = e
      /\ m.oldest = IF Len(s) = 0 THEN e ELSE l.oldest
  BY <1>4 DEF LinkNewest
<1>6. \A f \in Entries :
        /\ m.newer[f] = IF f = e THEN NULL ELSE IF f = l.newest THEN e ELSE l.newer[f]
        /\ m.older[f] = IF f = e THEN l.newest ELSE l.older[f]
  BY DEF LinkNewest, Lists
<1>7. m \in Lists
  <2>1. \A f \in Entries : l.newer[f] \in Entries \cup {NULL}
    BY DEF Lists
  <2>2. l.newest \in Entries \cup {NULL} /\ l.oldest \in Entries \cup {NULL}
        /\ l.older \in [Entries -> Entries \cup {NULL}]
    BY DEF Lists
  <2>3. QED
    BY <2>1, <2>2 DEF LinkNewest, Lists
<1>8. /\ r \in Seq(Entries) /\ Len(r) = Len(s) + 1 /\ Distinct(r) /\ Listed(r) = Listed(s) \cup {e}
  BY <1>1, PushedSound
<1>9. \A j \in 1 .. (Len(s) + 1) : r[j] = IF j = 1 THEN e ELSE s[j - 1]
  BY DEF Pushed
<1> HIDE DEF m, r
<1>10. r # <<>> /\ r[1] = e
  BY <1>1, <1>8, <1>9
<1>11. m.oldest = r[Len(r)]
  <2>1. CASE Len(s) = 0
    BY <1>5, <1>8, <1>10, <2>1
  <2>2. CASE Len(s) # 0
    <3>1. PICK k \in 1 .. (Len(s) + 1) : k = Len(s) + 1 /\ k # 1 /\ k - 1 = Len(s)
      BY <1>1, <2>2
    <3>2. r[k] = s[k - 1]
      BY <1>9, <3>1
    <3>3. QED
      BY <1>1, <1>2, <1>5, <1>8, <2>2, <3>1, <3>2
  <2>3. QED
    BY <2>1, <2>2
<1>12. ASSUME NEW j \in 1 .. Len(r)
       PROVE  /\ m.newer[r[j]] = IF j = 1 THEN NULL ELSE r[j - 1]
              /\ m.older[r[j]] = IF j = Len(r) THEN NULL ELSE r[j + 1]
  <2>1. CASE j = 1
    <3>1. m.newer[e] = NULL /\ m.older[e] = l.newest
      BY <1>6
    <3>2. Len(s) # 0 => r[2] = s[1]
      <4>1. Len(s) # 0 => 2 \in 1 .. (Len(s) + 1)
        BY <1>1
      <4>2. QED
        BY <1>9, <4>1
    <3>3. l.newest = IF j = Len(r) THEN NULL ELSE r[2]
      BY <1>1, <1>2, <1>8, <2>1, <3>2
    <3>4. QED
      BY <1>10, <2>1, <3>1, <3>3
  <2>2. CASE j # 1
    <3>1. PICK k \in 1 .. Len(s) : k = j - 1 /\ k + 1 = j
      BY <1>1, <1>8, <2>2
    <3>2. r[j] = s[k]
      BY <1>8, <1>9, <2>2, <3>1
    <3>3. /\ l.newer[s[k]] = IF k = 1 THEN NULL ELSE s[k - 1]
          /\ l.older[s[k]] = IF k = Len(s) THEN NULL ELSE s[k + 1]
      BY <3>1 DEF IsChain
    <3>4. s[k] = l.newest <=> k = 1
      <4>1. l.newest = s[1] /\ 1 \in 1 .. Len(s)
        BY <1>1, <1>2, <3>1
      <4>2. QED
        BY <1>1, <3>1, <4>1 DEF Distinct
    <3>5. m.newer[s[k]] = IF k = 1 THEN e ELSE s[k - 1]
      BY <1>3, <1>6, <3>1, <3>3, <3>4
    <3>6. m.older[s[k]] = IF k = Len(s) THEN NULL ELSE s[k + 1]
      BY <1>3, <1>6, <3>1, <3>3
    <3>7. r[j - 1] = IF k = 1 THEN e ELSE s[k - 1]
      <4>1. k \in 1 .. (Len(s) + 1)
        BY <1>1, <3>1
      <4>2. QED
        BY <1>9, <3>1, <4>1
    <3>8. k # Len(s) => r[j + 1] = s[k + 1]
      <4>1. k # Len(s) => j + 1 \in 1 .. (Len(s) + 1) /\ j + 1 # 1 /\ j + 1 - 1 = k + 1
        BY <1>1, <3>1
      <4>2. QED
        BY <1>9, <4>1
    <3>9. k = Len(s) <=> j = Len(r)
      BY <1>1, <1>8, <3>1
    <3>10. QED
      BY <2>2, <3>2, <3>5, <3>6, <3>7, <3>8, <3>9
  <2>3. QED
    BY <2>1, <2>2
<1>13. ASSUME NEW f \in Entries \ Listed(r) PROVE m.newer[f] = NULL /\ m.older[f] = NULL
  <2>1. f # e /\ f \notin Listed(s)
    BY <1>8
  <2>2. f # l.newest
    <3>1. Len(s) # 0 => 1 \in 1 .. Len(s)
      BY <1>1
    <3>2. QED
      BY <1>1, <1>2, <1>3, <2>1, <3>1, CacheAssumption
  <2>3. QED
    BY <1>1, <1>6, <2>1, <2>2
<1>14. IsChain(m, r)
  BY <1>5, <1>8, <1>10, <1>11, <1>12, <1>13 DEF IsChain
<1>15. QED
  BY <1>7, <1>14 DEF m, r

\* sg_cache_pop_oldest takes the last entry out of the chain.
LEMMA PopOldestSound ==
  ASSUME NEW l \in Lists, NEW s, IsChain(l, s), s # <<>>
  PROVE  PopOldest(l) = Unlink(l, s[Len(s)])
<1> DEFINE n == Len(s)
           e == s[n]
<1>1. s \in Seq(Entries) /\ n \in Nat /\ n # 0
  BY DEF IsChain
<1>2. n \in 1 .. n
  BY <1>1
<1>3. /\ e \in Entries /\ e # NULL /\ l.older[e] = NULL /\ l.oldest = e /\ l.newest = s[1]
      /\ l.newer[e] = IF n = 1 THEN NULL ELSE s[n - 1]
      /\ n # 1 => s[n - 1] \in Entries /\ s[n - 1] # NULL
  <2>1. PICK i \in 1 .. Len(s) : i = n
    BY <1>2
  <2>2. /\ s[i] \in Entries /\ s[i] # NULL /\ l.newest = s[1] /\ l.oldest = s[Len(s)]
        /\ l.newer[s[i]] = IF i = 1 THEN NULL ELSE s[i - 1]
        /\ l.older[s[i]] = IF i = Len(s) THEN NULL ELSE s[i + 1]
        /\ i # 1 => s[i - 1] \in Entries /\ s[i - 1] # NULL
    BY Neighbors
  <2>3. QED
    BY <2>1, <2>2
<1>4. \A f \in Entries : f # NULL
  BY CacheAssumption
<1>5. l.newer \in [Entries -> Entries \cup {NULL}] /\ l.older \in [Entries -> Entries \cup {NULL}]
  BY DEF Lists
<1> HIDE DEF e, n
<1>6. [l.newer EXCEPT ![e] = NULL]
        = [f \in Entries |-> IF f = e THEN NULL ELSE IF f = l.older[e] THEN l.newer[e] ELSE l.newer[f]]
  BY <1>3, <1>4, <1>5
<1>7. [f \in Entries |-> IF f \in {l.newer[e], e} THEN NULL ELSE l.older[f]]
        = [f \in Entries |-> IF f = e THEN NULL ELSE IF f = l.newer[e] THEN l.older[e] ELSE l.older[f]]
  BY <1>3
<1>8. QED
  BY <1>3, <1>6, <1>7 DEF PopOldest, Unlink, e, n

\* A hit moves its entry to the front of the chain.
LEMMA TouchSound ==
  ASSUME NEW l \in Lists, NEW s, IsChain(l, s), NEW i \in 1 .. Len(s)
  PROVE  Touch(l, s[i]) \in Lists /\ IsChain(Touch(l, s[i]), Pushed(Removed(s, i), s[i]))
<1>1. /\ s \in Seq(Entries) /\ Len(s) \in Nat /\ Distinct(s) /\ s[i] \in Entries
      /\ l.newest = s[1] /\ 1 \in 1 .. Len(s)
  BY Neighbors DEF IsChain
<1>2. l.newest = s[i] <=> i = 1
  BY <1>1 DEF Distinct
<1> DEFINE r == Removed(s, i)
<1>3. /\ r \in Seq(Entries) /\ Len(r) = Len(s) - 1 /\ Distinct(r) /\ Listed(r) = Listed(s) \ {s[i]}
  BY <1>1, RemovedSound
<1>4. CASE i = 1
  <2> DEFINE p == Pushed(r, s[1])
  <2>1. \A j \in 1 .. (Len(s) - 1) : r[j] = s[j + 1]
    BY <1>4 DEF Removed
  <2>2. \A j \in 1 .. (Len(r) + 1) : p[j] = IF j = 1 THEN s[1] ELSE r[j - 1]
    BY DEF Pushed
  <2> HIDE DEF r
  <2>3. ASSUME NEW j \in 1 .. Len(s) PROVE p[j] = s[j]
    <3>1. j \in 1 .. (Len(r) + 1)
      BY <1>1, <1>3
    <3>2. j # 1 => j - 1 \in 1 .. (Len(s) - 1) /\ j - 1 + 1 = j
      BY <1>1
    <3> HIDE DEF p
    <3>3. QED
      BY <2>1, <2>2, <3>1, <3>2
  <2>4. p = [j \in 1 .. Len(s) |-> p[j]]
    BY <1>1, <1>3 DEF Pushed
  <2>5. s = [j \in 1 .. Len(s) |-> s[j]]
    BY <1>1
  <2> HIDE DEF p
  <2>6. p = s
    BY <2>3, <2>4, <2>5
  <2>7. Touch(l, s[i]) = l
    BY <1>1, <1>4 DEF Touch
  <2>8. QED
    BY <1>4, <2>6, <2>7 DEF p, r
<1>5. CASE i # 1
  <2>1. Touch(l, s[i]) = LinkNewest(Unlink(l, s[i]), s[i])
    BY <1>2, <1>5 DEF Touch
  <2>2. Unlink(l, s[i]) \in Lists /\ IsChain(Unlink(l, s[i]), r)
    BY UnlinkSound
  <2> HIDE DEF r
  <2>3. s[i] \notin Listed(r)
    BY <1>3
  <2>4. QED
    BY <1>1, <2>1, <2>2, <2>3, LinkNewestSound DEF r
<1>6. QED
  BY <1>4, <1>5

-----------------------------------------------------------------------------
(* The invariant of the structure. *)

\* The addresses that an insertion has, one of them perhaps NULL.
Hands(c) == {calls[c].created, calls[c].existing}

\* An entry is in the chain just when it is allocated and no insertion has it.
InChain(chain) ==
  \A e \in Entries :
    e \in Listed(chain) <=> entry[e] # NULL /\ \A c \in Clients : e \notin Hands(c)

\* No two entries of the chain have one key.
KeysApart(chain) ==
  \A e, f \in Listed(chain) : entry[e].key = entry[f].key => e = f

\* What an insertion has at each of its steps.
HandSound(c) ==
  LET call == calls[c]
  IN /\ call.at \in {"ready", "free"} => call.created = NULL
     /\ call.at \in {"ready", "lock"} => call.existing = NULL
     /\ call.at \in {"lock", "evict"} =>
          /\ call.created # NULL /\ entry[call.created] # NULL
          /\ Fits(entry[call.created].snap)
     /\ call.existing # NULL => entry[call.existing] # NULL /\ call.existing # call.created
     /\ mutex = c <=> call.at = "evict"

\* Two insertions never have one entry.
HandsApart == \A c, d \in Clients : c # d => Hands(c) \cap Hands(d) \subseteq {NULL}

\* While an insertion evicts, its key is not in the chain.
KeyAway(chain) ==
  \A c \in Clients : calls[c].at = "evict" =>
    \A e \in Listed(chain) : entry[e].key # entry[calls[c].created].key

StructInv(chain) ==
  /\ TypeOK /\ IsChain(list, chain) /\ InChain(chain) /\ KeysApart(chain)
  /\ \A c \in Clients : HandSound(c)
  /\ HandsApart /\ KeyAway(chain)

\* The call of one client changes, and those of the others do not.
CallChanged(c, new) ==
  /\ new \in Calls /\ calls' \in [Clients -> Calls] /\ calls'[c] = new
  /\ \A d \in Clients : d # c => calls'[d] = calls[d]

LEMMA CallUpdate ==
  ASSUME TypeOK, NEW c \in Clients, NEW new \in Calls, calls' = [calls EXCEPT ![c] = new]
  PROVE  CallChanged(c, new)
  BY DEF TypeOK, CallChanged

\* The fields of a call.
LEMMA CallFields ==
  ASSUME NEW r \in Calls
  PROVE  /\ r = [at |-> r.at, held |-> r.held, fresh |-> r.fresh, created |-> r.created,
                 existing |-> r.existing, found |-> r.found]
         /\ r.at \in {"ready", "lock", "evict", "free"} /\ r.held \subseteq Snapshots
         /\ r.fresh \in Snapshots \cup {NULL} /\ r.created \in Entries \cup {NULL}
         /\ r.existing \in Entries \cup {NULL}
         /\ r.found \in {<<>>} \cup (Keys \X (Snapshots \cup {NULL}))
  BY DEF Calls

\* What each step makes of the call of its client.
LEMMA HitCall ==
  ASSUME TypeOK, NEW c \in Clients, NEW k \in Keys, NEW e \in Entries,
         entry[e] # NULL, Hit(c, k, e)
  PROVE  CallChanged(c, [calls[c] EXCEPT !.held = {entry[e].snap}, !.found = <<k, entry[e].snap>>])
<1>1. calls[c] \in Calls /\ entry[e].snap \in Snapshots
  BY DEF TypeOK, EntryRecords
<1>2. PICK r : r = [calls[c] EXCEPT !.held = {entry[e].snap}, !.found = <<k, entry[e].snap>>]
  OBVIOUS
<1>3. r \in Calls
  BY <1>1, <1>2 DEF Calls
<1>4. calls' = [calls EXCEPT ![c] = r]
  BY <1>2 DEF Hit, TypeOK
<1>5. QED
  BY <1>2, <1>3, <1>4, CallUpdate

LEMMA MissCall ==
  ASSUME TypeOK, NEW c \in Clients, NEW k \in Keys, Miss(c, k)
  PROVE  CallChanged(c, [calls[c] EXCEPT !.found = <<k, NULL>>])
<1>1. calls[c] \in Calls
  BY DEF TypeOK
<1>2. PICK r : r = [calls[c] EXCEPT !.found = <<k, NULL>>]
  OBVIOUS
<1>3. r \in Calls
  BY <1>1, <1>2 DEF Calls
<1>4. calls' = [calls EXCEPT ![c] = r]
  BY <1>2 DEF Miss, TypeOK
<1>5. QED
  BY <1>2, <1>3, <1>4, CallUpdate

LEMMA CreateCall ==
  ASSUME TypeOK, NEW c \in Clients, NEW s \in Snapshots, Create(c, s)
  PROVE  CallChanged(c, [calls[c] EXCEPT !.held = calls[c].held \cup {s}, !.fresh = s, !.found = <<>>])
<1>1. calls[c] \in Calls
  BY DEF TypeOK
<1>2. PICK r : r = [calls[c] EXCEPT !.held = calls[c].held \cup {s}, !.fresh = s, !.found = <<>>]
  OBVIOUS
<1>3. r \in Calls
  BY <1>1, <1>2 DEF Calls
<1>4. calls' = [calls EXCEPT ![c] = r]
  BY <1>2 DEF Create, TypeOK
<1>5. QED
  BY <1>2, <1>3, <1>4, CallUpdate

LEMMA ReleaseCall ==
  ASSUME TypeOK, NEW c \in Clients, NEW s \in Snapshots, Release(c, s)
  PROVE  CallChanged(c, [calls[c] EXCEPT !.held = calls[c].held \ {s}, !.found = <<>>,
                                         !.fresh = IF calls[c].fresh = s THEN NULL ELSE calls[c].fresh])
<1>1. calls[c] \in Calls
  BY DEF TypeOK
<1>2. PICK r : r = [calls[c] EXCEPT !.held = calls[c].held \ {s}, !.found = <<>>,
                                    !.fresh = IF calls[c].fresh = s THEN NULL ELSE calls[c].fresh]
  OBVIOUS
<1>3. r \in Calls
  BY <1>1, <1>2 DEF Calls
<1>4. calls' = [calls EXCEPT ![c] = r]
  BY <1>2 DEF Release, TypeOK
<1>5. QED
  BY <1>2, <1>3, <1>4, CallUpdate

LEMMA TooLargeCall ==
  ASSUME TypeOK, NEW c \in Clients, InsertTooLarge(c)
  PROVE  CallChanged(c, [calls[c] EXCEPT !.fresh = NULL])
<1>1. calls[c] \in Calls
  BY DEF TypeOK
<1>2. PICK r : r = [calls[c] EXCEPT !.fresh = NULL]
  OBVIOUS
<1>3. r \in Calls
  BY <1>1, <1>2 DEF Calls
<1>4. calls' = [calls EXCEPT ![c] = r]
  BY <1>2 DEF InsertTooLarge, TypeOK
<1>5. QED
  BY <1>2, <1>3, <1>4, CallUpdate

LEMMA BeginCall ==
  ASSUME TypeOK, NEW c \in Clients, NEW e \in Entries,
         calls' = [calls EXCEPT ![c].at = "lock", ![c].fresh = NULL, ![c].created = e]
  PROVE  CallChanged(c, [calls[c] EXCEPT !.at = "lock", !.fresh = NULL, !.created = e])
<1>1. calls[c] \in Calls
  BY DEF TypeOK
<1>2. PICK r : r = [calls[c] EXCEPT !.at = "lock", !.fresh = NULL, !.created = e]
  OBVIOUS
<1>3. r \in Calls
  BY <1>1, <1>2 DEF Calls
<1>4. calls' = [calls EXCEPT ![c] = r]
  BY <1>2 DEF TypeOK
<1>5. QED
  BY <1>2, <1>3, <1>4, CallUpdate

LEMMA LockCall ==
  ASSUME TypeOK, NEW c \in Clients, NEW x \in Entries \cup {NULL},
         calls' = [calls EXCEPT ![c].at = "evict", ![c].existing = x]
  PROVE  CallChanged(c, [calls[c] EXCEPT !.at = "evict", !.existing = x])
<1>1. calls[c] \in Calls
  BY DEF TypeOK
<1>2. PICK r : r = [calls[c] EXCEPT !.at = "evict", !.existing = x]
  OBVIOUS
<1>3. r \in Calls
  BY <1>1, <1>2 DEF Calls
<1>4. calls' = [calls EXCEPT ![c] = r]
  BY <1>2 DEF TypeOK
<1>5. QED
  BY <1>2, <1>3, <1>4, CallUpdate

LEMMA LinkCall ==
  ASSUME TypeOK, NEW c \in Clients, InsertLink(c)
  PROVE  CallChanged(c, [calls[c] EXCEPT !.at = "free", !.created = NULL])
<1>1. calls[c] \in Calls
  BY DEF TypeOK
<1>2. PICK r : r = [calls[c] EXCEPT !.at = "free", !.created = NULL]
  OBVIOUS
<1>3. r \in Calls
  BY <1>1, <1>2 DEF Calls
<1>4. calls' = [calls EXCEPT ![c] = r]
  BY <1>2 DEF InsertLink, TypeOK
<1>5. QED
  BY <1>2, <1>3, <1>4, CallUpdate

LEMMA ReturnCall ==
  ASSUME TypeOK, NEW c \in Clients, InsertReturn(c)
  PROVE  CallChanged(c, [calls[c] EXCEPT !.at = "ready", !.existing = NULL])
<1>1. calls[c] \in Calls
  BY DEF TypeOK
<1>2. PICK r : r = [calls[c] EXCEPT !.at = "ready", !.existing = NULL]
  OBVIOUS
<1>3. r \in Calls
  BY <1>1, <1>2 DEF Calls
<1>4. calls' = [calls EXCEPT ![c] = r]
  BY <1>2 DEF InsertReturn, TypeOK
<1>5. QED
  BY <1>2, <1>3, <1>4, CallUpdate

-----------------------------------------------------------------------------
(* What a step finds. *)

\* The entries of the chain are allocated, and no insertion has one.
LEMMA ChainEntries ==
  ASSUME NEW s, StructInv(s)
  PROVE  /\ Chain = s /\ s \in Seq(Entries) /\ Len(s) \in Nat /\ Distinct(s)
         /\ Listed(s) \subseteq Entries
         /\ \A i \in 1 .. Len(s) : s[i] \in Listed(s)
         /\ \A e \in Listed(s) : /\ e \in Entries /\ e # NULL /\ entry[e] \in EntryRecords
                                 /\ \A c \in Clients : e \notin Hands(c)
         /\ s = <<>> <=> Len(s) = 0
         /\ list.oldest = NULL <=> s = <<>>
         /\ s # <<>> => Len(s) \in 1 .. Len(s) /\ list.oldest = s[Len(s)]
<1>1. Chain = s /\ s \in Seq(Entries) /\ Len(s) \in Nat /\ Distinct(s)
  <2>1. IsChain(list, s)
    BY DEF StructInv
  <2>2. Walk(list.older, list.newest) = s
    BY <2>1, ChainWalks
  <2>3. s \in Seq(Entries) /\ Distinct(s)
    BY <2>1 DEF IsChain
  <2>4. QED
    BY <2>2, <2>3 DEF Chain
<1>2. \A i \in 1 .. Len(s) : s[i] \in Entries
  BY <1>1
<1>3. Listed(s) \subseteq Entries /\ \A i \in 1 .. Len(s) : s[i] \in Listed(s)
  BY <1>2 DEF Listed
<1>4. ASSUME NEW e \in Listed(s)
      PROVE  /\ e \in Entries /\ e # NULL /\ entry[e] \in EntryRecords
             /\ \A c \in Clients : e \notin Hands(c)
  BY <1>3, CacheAssumption DEF StructInv, InChain, TypeOK
<1>5. s = <<>> <=> Len(s) = 0
  BY <1>1
<1>6. s # <<>> => Len(s) \in 1 .. Len(s)
  BY <1>1, <1>5
<1>7. list.oldest = IF s = <<>> THEN NULL ELSE s[Len(s)]
  BY DEF StructInv, IsChain
<1>8. QED
  BY <1>1, <1>2, <1>3, <1>4, <1>5, <1>6, <1>7, CacheAssumption

\* A search finds the entry of the chain that has the key, if there is one.
LEMMA FindSound ==
  ASSUME NEW s, StructInv(s), NEW k
  PROVE  \/ Find(k) = NULL /\ \A e \in Listed(s) : entry[e].key # k
         \/ \E i \in 1 .. Len(s) : Find(k) = s[i] /\ entry[s[i]].key = k
<1> DEFINE hits == {i \in DOMAIN Chain : KeyEqual(entry[Chain[i]].key, k)}
<1>1. Find(k) = IF hits = {} THEN NULL ELSE Chain[Min(hits)]
  BY DEF Find
<1>2. hits = {i \in 1 .. Len(s) : entry[s[i]].key = k}
  BY ChainEntries DEF KeyEqual
<1>3. CASE hits = {}
  <2>1. \A e \in Listed(s) : entry[e].key # k
    BY <1>2, <1>3 DEF Listed
  <2>2. QED
    BY <1>1, <1>3, <2>1
<1>4. CASE hits # {}
  <2>1. hits \subseteq Nat
    BY <1>2, ChainEntries
  <2> HIDE DEF hits
  <2>2. Min(hits) \in hits
    BY <1>4, <2>1, LeastNatural
  <2>3. PICK i \in 1 .. Len(s) : i = Min(hits) /\ entry[s[i]].key = k
    BY <1>2, <2>2
  <2>4. QED
    BY <1>1, <1>4, <2>3, ChainEntries
<1>5. QED
  BY <1>3, <1>4

-----------------------------------------------------------------------------
(* The reference counts. *)

\* Who has a snapshot: entries, and procedures.
Having(entries, s) == {e \in Entries : entries[e] # NULL /\ entries[e].snap = s}
Holding(all, s) == {c \in Clients : s \in all[c].held}

Counted(refs, entries, all) ==
  \A s \in Snapshots :
    refs[s] = Cardinality(Having(entries, s)) + Cardinality(Holding(all, s))

LEMMA CountedAs == ReferencesCounted <=> Counted(references, entry, calls)
<1>1. \A s : {e \in Allocated : entry[e].snap = s} = Having(entry, s)
  BY DEF Allocated, Having
<1>2. \A s : {c \in Clients : s \in calls[c].held} = Holding(calls, s)
  BY DEF Holding
<1>3. QED
  BY <1>1, <1>2 DEF ReferencesCounted, Counted

\* The counts of finite sets, and of sets that get or lose a member.
LEMMA CountTypes ==
  ASSUME NEW entries, NEW all, NEW s
  PROVE  /\ IsFiniteSet(Having(entries, s)) /\ Cardinality(Having(entries, s)) \in Nat
         /\ IsFiniteSet(Holding(all, s)) /\ Cardinality(Holding(all, s)) \in Nat
<1>1. Having(entries, s) \subseteq Entries /\ Holding(all, s) \subseteq Clients
  BY DEF Having, Holding
<1>2. IsFiniteSet(Having(entries, s)) /\ IsFiniteSet(Holding(all, s))
  BY <1>1, FS_Subset, CacheAssumption
<1>3. QED
  BY <1>2, FS_CardinalityType

LEMMA OneMore ==
  ASSUME NEW S, IsFiniteSet(S), NEW x, x \notin S
  PROVE  Cardinality(S \cup {x}) = Cardinality(S) + 1
  BY FS_AddElement

LEMMA OneLess ==
  ASSUME NEW S, IsFiniteSet(S), NEW x \in S
  PROVE  Cardinality(S \ {x}) = Cardinality(S) - 1 /\ Cardinality(S) \in Nat
  BY FS_RemoveElement, FS_CardinalityType

\* Two contents of the addresses differ in one of them at most.
OnlyAt(e, old, new) == \A f \in Entries : f # e => new[f] = old[f]

LEMMA EntryAdded ==
  ASSUME NEW old, NEW e \in Entries, old[e] = NULL, NEW r \in EntryRecords,
         NEW new, new[e] = r, OnlyAt(e, old, new),
         NEW s
  PROVE  Cardinality(Having(new, s)) = Cardinality(Having(old, s)) + (IF s = r.snap THEN 1 ELSE 0)
<1>1. r # NULL
  BY CacheAssumption
<1>2. CASE s = r.snap
  <2>1. Having(new, s) = Having(old, s) \cup {e} /\ e \notin Having(old, s)
    BY <1>1, <1>2 DEF Having, OnlyAt
  <2>2. QED
    BY <1>2, <2>1, OneMore, CountTypes
<1>3. CASE s # r.snap
  <2>1. Having(new, s) = Having(old, s)
    BY <1>1, <1>3 DEF Having, OnlyAt
  <2>2. QED
    BY <1>3, <2>1, CountTypes
<1>4. QED
  BY <1>2, <1>3

LEMMA EntryFreed ==
  ASSUME NEW old, NEW e \in Entries, old[e] # NULL,
         NEW new, new[e] = NULL, OnlyAt(e, old, new),
         NEW s
  PROVE  Cardinality(Having(new, s)) = Cardinality(Having(old, s)) - (IF s = old[e].snap THEN 1 ELSE 0)
<1>1. CASE s = old[e].snap
  <2>1. Having(new, s) = Having(old, s) \ {e} /\ e \in Having(old, s)
    BY <1>1 DEF Having, OnlyAt
  <2>2. QED
    BY <1>1, <2>1, OneLess, CountTypes
<1>2. CASE s # old[e].snap
  <2>1. Having(new, s) = Having(old, s)
    BY <1>2 DEF Having, OnlyAt
  <2>2. QED
    BY <1>2, <2>1, CountTypes
<1>3. QED
  BY <1>1, <1>2

LEMMA HoldingChanged ==
  ASSUME NEW c \in Clients, NEW new, CallChanged(c, new), NEW s
  PROVE  Cardinality(Holding(calls', s)) = Cardinality(Holding(calls, s))
           + (IF s \in new.held \ calls[c].held THEN 1 ELSE 0)
           - (IF s \in calls[c].held \ new.held THEN 1 ELSE 0)
<1>1. calls'[c] = new /\ \A d \in Clients : d # c => calls'[d] = calls[d]
  BY DEF CallChanged
<1>2. CASE s \in new.held \ calls[c].held
  <2>1. Holding(calls', s) = Holding(calls, s) \cup {c} /\ c \notin Holding(calls, s)
    BY <1>1, <1>2 DEF Holding
  <2>2. QED
    BY <1>2, <2>1, OneMore, CountTypes
<1>3. CASE s \in calls[c].held \ new.held
  <2>1. Holding(calls', s) = Holding(calls, s) \ {c} /\ c \in Holding(calls, s)
    BY <1>1, <1>3 DEF Holding
  <2>2. QED
    BY <1>3, <2>1, OneLess, CountTypes
<1>4. CASE s \in new.held <=> s \in calls[c].held
  <2>1. Holding(calls', s) = Holding(calls, s)
    BY <1>1, <1>4 DEF Holding
  <2>2. QED
    BY <1>4, <2>1, CountTypes
<1>5. QED
  BY <1>2, <1>3, <1>4

\* Counted references are natural numbers.
LEMMA CountedTypes ==
  ASSUME NEW refs, refs = [s \in Snapshots |-> refs[s]],
         NEW entries, NEW all, Counted(refs, entries, all)
  PROVE  refs \in [Snapshots -> Nat]
<1>1. ASSUME NEW s \in Snapshots PROVE refs[s] \in Nat
  <2>1. refs[s] = Cardinality(Having(entries, s)) + Cardinality(Holding(all, s))
    BY DEF Counted
  <2>2. QED
    BY <2>1, CountTypes
<1>2. QED
  BY <1>1

\* Each step that changes references changes who has a snapshot with them.
LEMMA CountedWith ==
  ASSUME Counted(references', entry', calls'),
         references' = [s \in Snapshots |-> references'[s]]
  PROVE  ReferencesCounted' /\ references' \in [Snapshots -> Nat]
<1>1. (Counted(references, entry, calls) => ReferencesCounted)'
  BY CountedAs, PTL
<1>2. QED
  BY <1>1, CountedTypes

LEMMA LookupCounted ==
  ASSUME NEW chain, StructInv(chain), ReferencesCounted,
         NEW c \in Clients, NEW k \in Keys, Lookup(c, k)
  PROVE  ReferencesCounted' /\ references' \in [Snapshots -> Nat]
<1>1. TypeOK /\ Counted(references, entry, calls) /\ references \in [Snapshots -> Nat]
  BY CountedAs DEF StructInv, TypeOK
<1>2. entry' = entry
  BY DEF Lookup
<1>3. CASE Find(k) = NULL
  <2>1. Miss(c, k)
    BY <1>3 DEF Lookup
  <2> DEFINE new == [calls[c] EXCEPT !.found = <<k, NULL>>]
  <2>2. CallChanged(c, new) /\ references' = references
    BY <1>1, <2>1, MissCall DEF Miss
  <2>3. new.held = calls[c].held
    BY <1>1 DEF TypeOK, Calls
  <2> HIDE DEF new
  <2>4. \A s \in Snapshots : references'[s] = Cardinality(Having(entry', s)) + Cardinality(Holding(calls', s))
    BY <1>1, <1>2, <2>2, <2>3, HoldingChanged, CountTypes DEF Counted
  <2>5. QED
    BY <1>1, <2>2, <2>4, CountedWith DEF Counted
<1>4. CASE Find(k) # NULL
  <2>1. PICK e \in Listed(chain) : e = Find(k)
    BY <1>4, FindSound, ChainEntries
  <2>2. e \in Entries /\ entry[e] # NULL /\ entry[e].snap \in Snapshots
    BY ChainEntries, CacheAssumption DEF EntryRecords
  <2>3. Hit(c, k, e) /\ calls[c].held = {}
    BY <1>4, <2>1 DEF Lookup
  <2> DEFINE new == [calls[c] EXCEPT !.held = {entry[e].snap}, !.found = <<k, entry[e].snap>>]
  <2>4. CallChanged(c, new)
    BY <1>1, <2>2, <2>3, HitCall
  <2>5. new.held = {entry[e].snap}
    BY <1>1 DEF TypeOK, Calls
  <2>6. references' = [references EXCEPT ![entry[e].snap] = @ + 1]
    BY <2>3 DEF Hit, Retained
  <2> HIDE DEF new
  <2>7. ASSUME NEW s \in Snapshots
        PROVE  references'[s] = Cardinality(Having(entry', s)) + Cardinality(Holding(calls', s))
    <3>1. Cardinality(Holding(calls', s)) = Cardinality(Holding(calls, s)) + (IF s = entry[e].snap THEN 1 ELSE 0) - 0
      BY <2>3, <2>4, <2>5, HoldingChanged
    <3>2. references'[s] = references[s] + (IF s = entry[e].snap THEN 1 ELSE 0)
      BY <1>1, <2>2, <2>6
    <3>3. references[s] = Cardinality(Having(entry, s)) + Cardinality(Holding(calls, s))
      BY <1>1 DEF Counted
    <3>4. QED
      BY <1>2, <3>1, <3>2, <3>3, CountTypes
  <2>8. references' = [s \in Snapshots |-> references'[s]]
    BY <1>1, <2>6
  <2>9. QED
    BY <2>7, <2>8, CountedWith DEF Counted
<1>5. QED
  BY <1>3, <1>4

LEMMA CreateCounted ==
  ASSUME TypeOK, ReferencesCounted, NEW c \in Clients, NEW x \in Snapshots, Create(c, x)
  PROVE  ReferencesCounted' /\ references' \in [Snapshots -> Nat]
<1>1. Counted(references, entry, calls) /\ references \in [Snapshots -> Nat]
  BY CountedAs DEF TypeOK
<1> DEFINE new == [calls[c] EXCEPT !.held = calls[c].held \cup {x}, !.fresh = x, !.found = <<>>]
<1>2. CallChanged(c, new)
  BY CreateCall
<1>3. new.held = calls[c].held \cup {x}
  BY DEF TypeOK, Calls
<1> HIDE DEF new
<1>4. entry' = entry /\ references[x] = 0 /\ references' = [references EXCEPT ![x] = 1]
  BY DEF Create
<1>5. Holding(calls, x) = {}
  <2>1. 0 = Cardinality(Having(entry, x)) + Cardinality(Holding(calls, x))
    BY <1>1, <1>4 DEF Counted
  <2>2. QED
    BY <2>1, CountTypes, FS_EmptySet
<1>6. x \notin calls[c].held
  BY <1>5 DEF Holding
<1>7. ASSUME NEW s \in Snapshots
      PROVE  references'[s] = Cardinality(Having(entry', s)) + Cardinality(Holding(calls', s))
  <2>1. Cardinality(Holding(calls', s)) = Cardinality(Holding(calls, s)) + (IF s = x THEN 1 ELSE 0) - 0
    BY <1>2, <1>3, <1>6, HoldingChanged
  <2>2. references'[s] = references[s] + (IF s = x THEN 1 ELSE 0)
    BY <1>1, <1>4
  <2>3. references[s] = Cardinality(Having(entry, s)) + Cardinality(Holding(calls, s))
    BY <1>1 DEF Counted
  <2>4. QED
    BY <1>4, <2>1, <2>2, <2>3, CountTypes
<1>8. references' = [s \in Snapshots |-> references'[s]]
  BY <1>1, <1>4
<1>9. QED
  BY <1>7, <1>8, CountedWith DEF Counted

LEMMA ReleaseCounted ==
  ASSUME TypeOK, ReferencesCounted, NEW c \in Clients, NEW x \in Snapshots, Release(c, x)
  PROVE  ReferencesCounted' /\ references' \in [Snapshots -> Nat]
<1>1. Counted(references, entry, calls) /\ references \in [Snapshots -> Nat]
  BY CountedAs DEF TypeOK
<1> DEFINE new == [calls[c] EXCEPT !.held = calls[c].held \ {x}, !.found = <<>>,
                                   !.fresh = IF calls[c].fresh = x THEN NULL ELSE calls[c].fresh]
<1>2. CallChanged(c, new)
  BY ReleaseCall
<1>3. new.held = calls[c].held \ {x}
  BY DEF TypeOK, Calls
<1> HIDE DEF new
<1>4. entry' = entry /\ x \in calls[c].held /\ references' = [references EXCEPT ![x] = @ - 1]
  BY DEF Release
<1>5. ASSUME NEW s \in Snapshots
      PROVE  references'[s] = Cardinality(Having(entry', s)) + Cardinality(Holding(calls', s))
  <2>1. Cardinality(Holding(calls', s)) = Cardinality(Holding(calls, s)) + 0 - (IF s = x THEN 1 ELSE 0)
    BY <1>2, <1>3, <1>4, HoldingChanged
  <2>2. references'[s] = references[s] - (IF s = x THEN 1 ELSE 0)
    BY <1>1, <1>4
  <2>3. references[s] = Cardinality(Having(entry, s)) + Cardinality(Holding(calls, s))
    BY <1>1 DEF Counted
  <2>4. QED
    BY <1>4, <2>1, <2>2, <2>3, CountTypes
<1>6. references' = [s \in Snapshots |-> references'[s]]
  BY <1>1, <1>4
<1>7. QED
  BY <1>5, <1>6, CountedWith DEF Counted

\* A call that holds what it held, while entries stay, leaves the counts.
LEMMA SameHolders ==
  ASSUME TypeOK, ReferencesCounted, NEW c \in Clients, NEW new, CallChanged(c, new),
         new.held = calls[c].held, UNCHANGED <<references, entry>>
  PROVE  ReferencesCounted' /\ references' \in [Snapshots -> Nat]
<1>1. Counted(references, entry, calls) /\ references \in [Snapshots -> Nat]
  BY CountedAs DEF TypeOK
<1>2. ASSUME NEW s \in Snapshots
      PROVE  references'[s] = Cardinality(Having(entry', s)) + Cardinality(Holding(calls', s))
  <2>1. Cardinality(Holding(calls', s)) = Cardinality(Holding(calls, s)) + 0 - 0
    BY HoldingChanged
  <2>2. references[s] = Cardinality(Having(entry, s)) + Cardinality(Holding(calls, s))
    BY <1>1 DEF Counted
  <2>3. QED
    BY <2>1, <2>2, CountTypes
<1>3. QED
  BY <1>1, <1>2, CountedWith DEF Counted

\* The entry that an insertion makes takes a reference.
LEMMA BeginCounted ==
  ASSUME TypeOK, ReferencesCounted, NEW c \in Clients, NEW new, CallChanged(c, new),
         new.held = calls[c].held,
         NEW e \in Entries, entry[e] = NULL, NEW r \in EntryRecords,
         entry' = [entry EXCEPT ![e] = r],
         references' = [references EXCEPT ![r.snap] = @ + 1]
  PROVE  ReferencesCounted' /\ references' \in [Snapshots -> Nat]
<1>1. Counted(references, entry, calls) /\ references \in [Snapshots -> Nat] /\ r.snap \in Snapshots
  BY CountedAs DEF TypeOK, EntryRecords
<1>2. entry'[e] = r /\ OnlyAt(e, entry, entry')
  BY DEF TypeOK, OnlyAt
<1>3. ASSUME NEW s \in Snapshots
      PROVE  references'[s] = Cardinality(Having(entry', s)) + Cardinality(Holding(calls', s))
  <2>1. Cardinality(Holding(calls', s)) = Cardinality(Holding(calls, s)) + 0 - 0
    BY HoldingChanged
  <2>2. Cardinality(Having(entry', s)) = Cardinality(Having(entry, s)) + (IF s = r.snap THEN 1 ELSE 0)
    <3>1. PICK old, fresh : old = entry /\ fresh = entry'
      OBVIOUS
    <3>2. fresh[e] = r /\ old[e] = NULL /\ OnlyAt(e, old, fresh)
      BY <1>2, <3>1
    <3>3. Cardinality(Having(fresh, s)) = Cardinality(Having(old, s)) + (IF s = r.snap THEN 1 ELSE 0)
      BY <3>2, EntryAdded
    <3>4. QED
      BY <3>1, <3>3
  <2>3. references'[s] = references[s] + (IF s = r.snap THEN 1 ELSE 0)
    BY <1>1
  <2>4. references[s] = Cardinality(Having(entry, s)) + Cardinality(Holding(calls, s))
    BY <1>1 DEF Counted
  <2>5. QED
    BY <2>1, <2>2, <2>3, <2>4, CountTypes
<1>4. references' = [s \in Snapshots |-> references'[s]]
  BY <1>1
<1>5. QED
  BY <1>3, <1>4, CountedWith DEF Counted

\* An entry that is freed, by an eviction or a replacement, gives its back.
LEMMA FreeCounted ==
  ASSUME TypeOK, ReferencesCounted,
         \A s \in Snapshots : Cardinality(Holding(calls', s)) = Cardinality(Holding(calls, s)),
         NEW e \in Entries, entry[e] # NULL,
         entry' = [entry EXCEPT ![e] = NULL], references' = Freed(e)
  PROVE  ReferencesCounted' /\ references' \in [Snapshots -> Nat]
<1>1. Counted(references, entry, calls) /\ references \in [Snapshots -> Nat] /\ entry[e].snap \in Snapshots
  BY CountedAs DEF TypeOK, EntryRecords
<1>2. entry'[e] = NULL /\ OnlyAt(e, entry, entry')
  BY DEF TypeOK, OnlyAt
<1>3. references' = [references EXCEPT ![entry[e].snap] = @ - 1]
  BY DEF Freed
<1>4. ASSUME NEW s \in Snapshots
      PROVE  references'[s] = Cardinality(Having(entry', s)) + Cardinality(Holding(calls', s))
  <2>1. Cardinality(Having(entry', s)) = Cardinality(Having(entry, s)) - (IF s = entry[e].snap THEN 1 ELSE 0)
    <3>1. PICK old, fresh : old = entry /\ fresh = entry'
      OBVIOUS
    <3>2. fresh[e] = NULL /\ old[e] # NULL /\ OnlyAt(e, old, fresh)
      BY <1>2, <3>1
    <3>3. Cardinality(Having(fresh, s)) = Cardinality(Having(old, s)) - (IF s = old[e].snap THEN 1 ELSE 0)
      BY <3>2, EntryFreed
    <3>4. QED
      BY <3>1, <3>3
  <2>2. references'[s] = references[s] - (IF s = entry[e].snap THEN 1 ELSE 0)
    BY <1>1, <1>3
  <2>3. references[s] = Cardinality(Having(entry, s)) + Cardinality(Holding(calls, s))
    BY <1>1 DEF Counted
  <2>4. QED
    BY <2>1, <2>2, <2>3, CountTypes
<1>5. references' = [s \in Snapshots |-> references'[s]]
  BY <1>1, <1>3
<1>6. QED
  BY <1>4, <1>5, CountedWith DEF Counted

LEMMA ReloadCounted ==
  ASSUME TypeOK, ReferencesCounted, Reload
  PROVE  ReferencesCounted' /\ references' \in [Snapshots -> Nat]
<1>1. Counted(references, entry, calls)
  BY CountedAs
<1>2. /\ calls' = calls /\ entry' = [e \in Entries |-> NULL]
      /\ \A c \in Clients : calls[c].held = {}
      /\ references' = [s \in Snapshots |->
           references[s] - Cardinality({e \in Entries : entry[e] # NULL /\ entry[e].snap = s})]
  BY DEF Reload
<1>3. ASSUME NEW s \in Snapshots
      PROVE  references'[s] = Cardinality(Having(entry', s)) + Cardinality(Holding(calls', s))
  <2>1. Having(entry', s) = {} /\ Holding(calls', s) = {} /\ Holding(calls, s) = {}
    BY <1>2 DEF Having, Holding
  <2>2. references'[s] = references[s] - Cardinality(Having(entry, s))
    BY <1>2 DEF Having
  <2>3. references[s] = Cardinality(Having(entry, s)) + 0
    BY <1>1, <2>1, FS_EmptySet DEF Counted
  <2>4. QED
    BY <2>1, <2>2, <2>3, FS_EmptySet, CountTypes
<1>4. QED
  BY <1>2, <1>3, CountedWith DEF Counted

-----------------------------------------------------------------------------
(* The bytes. *)

\* The bytes of some entries, each of which holds a snapshot.
Weight(r) == Bytes[r.snap]
Bulk(entries, S) == UNION {{e} \X (1 .. Weight(entries[e])) : e \in S}
Holds(entries, S) == S \subseteq Entries /\ \A e \in S : entries[e] \in EntryRecords

LEMMA EachByteAs ==
  ASSUME NEW S
  PROVE  EachByte(S) = Bulk(entry, S)
  BY DEF EachByte, Bulk, Size, Weight

LEMMA Weights ==
  ASSUME NEW r \in EntryRecords, NEW e
  PROVE  /\ Weight(r) \in Nat
         /\ IsFiniteSet({e} \X (1 .. Weight(r)))
         /\ Cardinality({e} \X (1 .. Weight(r))) = Weight(r)
<1>1. Weight(r) \in Nat
  BY CacheAssumption DEF EntryRecords, Weight
<1>2. PICK n \in Nat : n = Weight(r)
  BY <1>1
<1>3. IsFiniteSet(1 .. n) /\ Cardinality(1 .. n) = n
  BY FS_Interval
<1>4. IsFiniteSet({e}) /\ Cardinality({e}) = 1
  BY FS_Singleton
<1>5. IsFiniteSet({e} \X (1 .. n)) /\ Cardinality({e} \X (1 .. n)) = 1 * n
  <2>1. PICK T : T = 1 .. n
    OBVIOUS
  <2>2. PICK S : S = {e}
    OBVIOUS
  <2>3. IsFiniteSet(S) /\ Cardinality(S) = 1 /\ IsFiniteSet(T) /\ Cardinality(T) = n
    BY <1>3, <1>4, <2>1, <2>2
  <2>4. IsFiniteSet(S \X T) /\ Cardinality(S \X T) = 1 * n
    BY <2>3, FS_Product
  <2>5. QED
    BY <2>1, <2>2, <2>4
<1>6. QED
  BY <1>2, <1>5

LEMMA BulkFinite ==
  ASSUME NEW entries, NEW S, Holds(entries, S)
  PROVE  IsFiniteSet(Bulk(entries, S)) /\ Cardinality(Bulk(entries, S)) \in Nat
<1> DEFINE f == [e \in S |-> {e} \X (1 .. Weight(entries[e]))]
           T == {{e} \X (1 .. Weight(entries[e])) : e \in S}
<1>1. IsFiniteSet(S)
  BY CacheAssumption, FS_Subset DEF Holds
<1>2. f \in Surjection(S, T)
  <2>1. f \in [S -> T]
    OBVIOUS
  <2>2. \A t \in T : \E e \in S : f[e] = t
    OBVIOUS
  <2>3. QED
    BY <2>1, <2>2 DEF Surjection
<1>3. IsFiniteSet(T)
  <2> HIDE DEF f, T
  <2>1. QED
    BY <1>1, <1>2, FS_Surjection
<1>4. \A t \in T : IsFiniteSet(t)
  BY Weights DEF Holds
<1>5. IsFiniteSet(UNION T)
  <2> HIDE DEF T
  <2>1. QED
    BY <1>3, <1>4, FS_UNION
<1>6. QED
  BY <1>5, FS_CardinalityType DEF Bulk

\* One entry more adds its bytes.
LEMMA BulkAdded ==
  ASSUME NEW entries, NEW S, NEW x, x \notin S, Holds(entries, S \cup {x})
  PROVE  Cardinality(Bulk(entries, S \cup {x})) = Cardinality(Bulk(entries, S)) + Weight(entries[x])
<1> DEFINE part == {x} \X (1 .. Weight(entries[x]))
           all == Bulk(entries, S \cup {x})
           rest == Bulk(entries, S)
<1>1. Holds(entries, S) /\ entries[x] \in EntryRecords
  BY DEF Holds
<1>2. IsFiniteSet(rest) /\ Cardinality(rest) \in Nat
  BY <1>1, BulkFinite
<1>3. IsFiniteSet(part) /\ Cardinality(part) = Weight(entries[x]) /\ Weight(entries[x]) \in Nat
  BY <1>1, Weights
<1>4. all = rest \cup part
  BY DEF Bulk
<1>5. rest \cap part = {}
  BY DEF Bulk
<1> HIDE DEF all, rest, part
<1>6. Cardinality(rest \cup part) = Cardinality(rest) + Cardinality(part) - Cardinality({})
  BY <1>2, <1>3, <1>5, FS_Union
<1>7. Cardinality({}) = 0
  BY FS_EmptySet
<1>8. Cardinality(all) = Cardinality(rest) + Weight(entries[x])
  BY <1>2, <1>3, <1>4, <1>6, <1>7
<1>9. QED
  BY <1>8 DEF all, rest

LEMMA BulkSame ==
  ASSUME NEW old, NEW new, NEW S, \A e \in S : new[e] = old[e]
  PROVE  Bulk(new, S) = Bulk(old, S)
  BY DEF Bulk

\* bytes is what the entries of the chain hold.
BytesInv(chain) ==
  bytes = Cardinality(EachByte(Listed(chain))) /\ bytes <= MaximumBytes

LEMMA BytesKept ==
  ASSUME NEW s, NEW t, BytesInv(s), StructInv(s), Listed(t) = Listed(s), bytes' = bytes,
         \A e \in Listed(s) : entry'[e] = entry[e]
  PROVE  BytesInv(t)' /\ bytes' \in Nat
<1>1. EachByte(Listed(t))' = Bulk(entry', Listed(t))
  BY DEF EachByte, Size, Bulk, Weight, Listed
<1>2. EachByte(Listed(s)) = Bulk(entry, Listed(s))
  BY EachByteAs
<1>3. Bulk(entry', Listed(t)) = Bulk(entry, Listed(s))
  BY BulkSame
<1>4. bytes \in Nat
  BY DEF StructInv, TypeOK
<1>5. QED
  BY <1>1, <1>2, <1>3, <1>4 DEF BytesInv, Listed

LEMMA BytesRemoved ==
  ASSUME NEW s, NEW t, BytesInv(s), StructInv(s), NEW x \in Listed(s),
         Listed(t) = Listed(s) \ {x}, bytes' = bytes - Size(x),
         \A e \in Listed(t) : entry'[e] = entry[e]
  PROVE  BytesInv(t)' /\ bytes' \in Nat
<1>1. EachByte(Listed(t))' = Bulk(entry', Listed(t))
  BY DEF EachByte, Size, Bulk, Weight, Listed
<1>2. EachByte(Listed(s)) = Bulk(entry, Listed(s))
  BY EachByteAs
<1>3. Bulk(entry', Listed(t)) = Bulk(entry, Listed(t))
  BY BulkSame
<1>4. Holds(entry, Listed(t) \cup {x}) /\ Holds(entry, Listed(t)) /\ x \notin Listed(t)
      /\ Listed(t) \cup {x} = Listed(s)
  BY ChainEntries DEF Holds
<1>5. Cardinality(Bulk(entry, Listed(s))) = Cardinality(Bulk(entry, Listed(t))) + Size(x)
  BY <1>4, BulkAdded DEF Weight, Size
<1>6. Cardinality(Bulk(entry, Listed(t))) \in Nat /\ Size(x) \in Nat
  <2>1. entry[x] \in EntryRecords
    BY ChainEntries
  <2>2. QED
    BY <1>4, <2>1, BulkFinite, Weights DEF Weight, Size
<1>7. bytes' = Cardinality(Bulk(entry, Listed(t))) /\ bytes' \in Nat
  BY <1>2, <1>5, <1>6 DEF BytesInv
<1>8. bytes' <= MaximumBytes
  <2>1. bytes \in Nat /\ MaximumBytes \in Nat /\ bytes <= MaximumBytes
    BY CacheAssumption DEF BytesInv, StructInv, TypeOK
  <2>2. QED
    BY <1>6, <2>1
<1>9. QED
  BY <1>1, <1>3, <1>7, <1>8 DEF BytesInv, Listed

LEMMA BytesAdded ==
  ASSUME NEW s, NEW t, BytesInv(s), StructInv(s), NEW x \in Entries, x \notin Listed(s),
         entry[x] \in EntryRecords, entry' = entry,
         Listed(t) = Listed(s) \cup {x}, bytes' = bytes + Size(x), bytes + Size(x) <= MaximumBytes
  PROVE  BytesInv(t)' /\ bytes' \in Nat
<1>1. EachByte(Listed(t))' = Bulk(entry', Listed(t))
  BY DEF EachByte, Size, Bulk, Weight, Listed
<1>2. EachByte(Listed(s)) = Bulk(entry, Listed(s))
  BY EachByteAs
<1>3. Holds(entry, Listed(s) \cup {x})
  BY ChainEntries DEF Holds
<1>4. Cardinality(Bulk(entry, Listed(t))) = Cardinality(Bulk(entry, Listed(s))) + Size(x)
  BY <1>3, BulkAdded DEF Weight, Size
<1>5. bytes \in Nat /\ Size(x) \in Nat
  BY Weights DEF StructInv, TypeOK, Weight, Size
<1>6. QED
  BY <1>1, <1>2, <1>4, <1>5 DEF BytesInv, Listed

-----------------------------------------------------------------------------
(* The order of use. *)

LEMMA RemoveAtRemoved ==
  ASSUME NEW S, NEW s \in Seq(S), NEW i \in 1 .. Len(s)
  PROVE  RemoveAt(s, i) = Removed(s, i)
<1> DEFINE a == SubSeq(s, 1, i - 1)
           b == SubSeq(s, i + 1, Len(s))
<1>1. PICK n \in Nat : n = Len(s) /\ n >= 1 /\ i \in 1 .. n
  OBVIOUS
<1>2. PICK k \in Nat : k = i - 1
  BY <1>1
<1>3. PICK m \in Nat : m = n - i
  <2>1. n - i \in Nat
    BY <1>1
  <2>2. QED
    BY <2>1
<1>4. a \in Seq(S) /\ Len(a) = k /\ \A j \in 1 .. k : a[j] = s[j]
  BY <1>1, <1>2
<1>5. b \in Seq(S) /\ Len(b) = m /\ \A j \in 1 .. m : b[j] = s[i + j]
  BY <1>1, <1>3
<1> HIDE DEF a, b
<1> DEFINE ab == a \o b
<1>6. /\ ab = [j \in 1 .. (k + m) |-> ab[j]]
      /\ \A j \in 1 .. (k + m) : ab[j] = IF j <= k THEN a[j] ELSE b[j - k]
  <2>1. Len(ab) = k + m /\ ab \in Seq(S)
    BY <1>4, <1>5
  <2>2. ASSUME NEW j \in 1 .. (k + m)
        PROVE  ab[j] = IF j <= k THEN a[j] ELSE b[j - k]
    <3>1. CASE j <= k
      <4>1. j \in 1 .. Len(a)
        BY <1>4, <3>1
      <4>2. QED
        BY <1>4, <1>5, <3>1, <4>1
    <3>2. CASE ~(j <= k)
      <4>1. PICK l \in 1 .. Len(b) : l = j - k /\ j = Len(a) + l
        BY <1>4, <1>5, <3>2
      <4>2. j \in 1 .. Len(a) + Len(b) /\ j > Len(a) /\ l = j - Len(a)
        BY <1>4, <1>5, <3>2, <4>1
      <4>3. ab[j] = b[j - Len(a)]
        BY <1>4, <1>5, <4>2
      <4>4. QED
        <5>1. j - Len(a) = j - k
          BY <1>4
        <5> HIDE DEF ab
        <5>2. ab[j] = b[j - k]
          BY <4>3, <5>1
        <5>3. QED
          BY <3>2, <5>2
    <3>3. QED
      BY <3>1, <3>2
  <2> HIDE DEF ab
  <2>3. ab = [j \in 1 .. (k + m) |-> ab[j]]
    BY <2>1
  <2>4. QED
    BY <1>4, <1>5, <2>2, <2>3
<1>7. k + m = n - 1
  BY <1>1, <1>2, <1>3
<1> HIDE DEF ab
<1>8. ASSUME NEW j \in 1 .. (n - 1) PROVE ab[j] = IF j < i THEN s[j] ELSE s[j + 1]
  <2>1. CASE j < i
    <3>1. j <= k /\ j \in 1 .. k
      BY <1>1, <1>2, <2>1
    <3>2. QED
      BY <1>4, <1>6, <1>7, <2>1, <3>1
  <2>2. CASE ~(j < i)
    <3>1. ~(j <= k) /\ j - k \in 1 .. m /\ i + (j - k) = j + 1
      BY <1>1, <1>2, <1>3, <2>2
    <3>2. QED
      BY <1>5, <1>6, <1>7, <2>2, <3>1
  <2>3. QED
    BY <2>1, <2>2
<1>9. ab = Removed(s, i)
  <2>1. ab = [j \in 1 .. (n - 1) |-> ab[j]]
    BY <1>6, <1>7
  <2>2. QED
    BY <1>1, <1>8, <2>1 DEF Removed
<1>10. RemoveAt(s, i) = ab
  BY DEF RemoveAt, ab, a, b
<1>11. QED
  BY <1>9, <1>10

LEMMA PushedFirst ==
  ASSUME NEW S, NEW s \in Seq(S), NEW k \in S
  PROVE  /\ <<k>> \o s = Pushed(s, k)
         /\ Pushed(s, k) \in Seq(S) /\ Len(Pushed(s, k)) = Len(s) + 1
         /\ Pushed(s, k)[1] = k
         /\ \A j \in 1 .. Len(s) : Pushed(s, k)[j + 1] = s[j]
<1> DEFINE r == <<k>> \o s
<1>1. PICK n \in Nat : n = Len(s)
  OBVIOUS
<1>2. /\ r \in Seq(S) /\ Len(r) = n + 1 /\ r = [j \in 1 .. (n + 1) |-> r[j]]
      /\ \A j \in 1 .. (n + 1) : r[j] = IF j <= 1 THEN <<k>>[j] ELSE s[j - 1]
  BY <1>1
<1> HIDE DEF r
<1>3. \A j \in 1 .. (n + 1) : r[j] = IF j = 1 THEN k ELSE s[j - 1]
  <2>1. <<k>>[1] = k
    OBVIOUS
  <2>2. QED
    BY <1>1, <1>2, <2>1
<1>4. r = Pushed(s, k)
  BY <1>1, <1>2, <1>3 DEF Pushed
<1>5. \A j \in 1 .. n : j + 1 \in 1 .. (n + 1) /\ j + 1 # 1 /\ j + 1 - 1 = j
  BY <1>1
<1>6. \A j \in 1 .. n : r[j + 1] = s[j]
  BY <1>3, <1>5
<1>7. 1 \in 1 .. (n + 1)
  BY <1>1
<1>8. QED
  BY <1>1, <1>2, <1>3, <1>4, <1>6, <1>7 DEF r

LEMMA RemovedTypes ==
  ASSUME NEW S, NEW s \in Seq(S), NEW i \in 1 .. Len(s)
  PROVE  /\ Removed(s, i) \in Seq(S) /\ Len(Removed(s, i)) = Len(s) - 1
         /\ \A j \in 1 .. (Len(s) - 1) : Removed(s, i)[j] = IF j < i THEN s[j] ELSE s[j + 1]
<1> DEFINE r == Removed(s, i)
           n == Len(s) - 1
<1>1. Len(s) \in Nat /\ n \in Nat /\ \A k \in 1 .. Len(s) : s[k] \in S
  OBVIOUS
<1>2. \A j \in 1 .. n : r[j] = IF j < i THEN s[j] ELSE s[j + 1]
  BY DEF Removed
<1>3. \A j \in 1 .. n : j \in 1 .. Len(s) /\ j + 1 \in 1 .. Len(s)
  BY <1>1
<1>4. r \in [1 .. n -> S]
  BY <1>1, <1>3 DEF Removed
<1> HIDE DEF r
<1>5. r \in Seq(S) /\ Len(r) = n
  BY <1>1, <1>4
<1>6. QED
  BY <1>2, <1>5 DEF r

\* The keys without one of them, whether it was used or not.
LEMMA BesidesSound ==
  ASSUME recent \in Seq(Keys), NEW k
  PROVE  \/ Besides(k) = recent /\ \A i \in 1 .. Len(recent) : recent[i] # k
         \/ \E m \in 1 .. Len(recent) :
              /\ recent[m] = k /\ Besides(k) = Removed(recent, m)
              /\ \A i \in 1 .. Len(recent) : recent[i] = k => m <= i
<1> DEFINE uses == {i \in DOMAIN recent : recent[i] = k}
<1>1. uses = {i \in 1 .. Len(recent) : recent[i] = k} /\ uses \subseteq Nat
  OBVIOUS
<1>2. Besides(k) = IF uses = {} THEN recent ELSE RemoveAt(recent, Min(uses))
  BY DEF Besides
<1>3. CASE uses = {}
  BY <1>1, <1>2, <1>3
<1>4. CASE uses # {}
  <2> HIDE DEF uses
  <2>1. PICK m : m = Min(uses) /\ m \in uses /\ \A i \in uses : m <= i
    BY <1>1, <1>4, LeastNatural
  <2>2. m \in 1 .. Len(recent) /\ recent[m] = k
    BY <1>1, <2>1
  <2>3. Besides(k) = Removed(recent, m)
    BY <1>2, <1>4, <2>1, <2>2, RemoveAtRemoved
  <2>4. QED
    BY <1>1, <2>1, <2>2, <2>3
<1>5. QED
  BY <1>3, <1>4

LEMMA UsedTypes ==
  ASSUME recent \in Seq(Keys), NEW k \in Keys
  PROVE  /\ Besides(k) \in Seq(Keys) /\ Used(k) \in Seq(Keys)
         /\ Used(k) = Pushed(Besides(k), k)
<1>1. Besides(k) \in Seq(Keys)
  BY BesidesSound, RemovedTypes
<1>2. QED
  BY <1>1, PushedFirst DEF Used

-----------------------------------------------------------------------------
(* The structure, step by step. *)

\* The types after a step.
TypedAfter ==
  /\ entry' \in [Entries -> EntryRecords \cup {NULL}] /\ list' \in Lists /\ bytes' \in Nat
  /\ mutex' \in Clients \cup {NULL} /\ references' \in [Snapshots -> Nat]
  /\ recent' \in Seq(Keys)

\* What a step of one client leaves alone for the others.
OthersKept(c) ==
  \A d \in Clients : d # c =>
    /\ mutex' = d <=> mutex = d
    /\ \A x \in Hands(d) : x # NULL => entry'[x] = entry[x]

\* The insertion has no entry that another one has.
ApartFrom(c, new) ==
  \A d \in Clients : d # c => {new.created, new.existing} \cap Hands(d) \subseteq {NULL}

LEMMA OthersSound ==
  ASSUME NEW c \in Clients, NEW new, CallChanged(c, new), OthersKept(c),
         NEW d \in Clients, d # c, HandSound(d)
  PROVE  HandSound(d)' /\ Hands(d)' = Hands(d)
<1>1. calls'[d] = calls[d]
  BY DEF CallChanged
<1>2. mutex' = d <=> mutex = d
  BY DEF OthersKept
<1>3. \A x \in {calls[d].created, calls[d].existing} : x # NULL => entry'[x] = entry[x]
  BY DEF OthersKept, Hands
<1>4. HandSound(d)'
  BY <1>1, <1>2, <1>3 DEF HandSound
<1>5. QED
  BY <1>1, <1>4 DEF Hands

LEMMA StructStep ==
  ASSUME NEW s, StructInv(s), NEW c \in Clients, NEW new, CallChanged(c, new),
         NEW t, IsChain(list', t), TypedAfter, OthersKept(c), ApartFrom(c, new),
         InChain(t)', KeysApart(t)', KeyAway(t)', HandSound(c)'
  PROVE  StructInv(t)'
<1>1. TypeOK'
  BY DEF TypeOK, TypedAfter, CallChanged
<1>2. ASSUME NEW d \in Clients PROVE HandSound(d)'
  <2>1. CASE d = c
    BY <2>1
  <2>2. CASE d # c
    BY <2>2, OthersSound DEF StructInv
  <2>3. QED
    BY <2>1, <2>2
<1>3. Hands(c)' = {new.created, new.existing}
  BY DEF Hands, CallChanged
<1>4. \A d \in Clients : d # c => Hands(d)' = Hands(d)
  BY OthersSound DEF StructInv
<1>5. HandsApart'
  <2> SUFFICES ASSUME NEW a \in Clients, NEW b \in Clients, a # b
               PROVE  Hands(a)' \cap Hands(b)' \subseteq {NULL}
    BY DEF HandsApart
  <2>1. CASE a = c
    BY <1>3, <1>4, <2>1 DEF ApartFrom
  <2>2. CASE b = c
    BY <1>3, <1>4, <2>2 DEF ApartFrom
  <2>3. CASE a # c /\ b # c
    BY <1>4, <2>3 DEF StructInv, HandsApart
  <2>4. QED
    BY <2>1, <2>2, <2>3
<1>6. QED
  BY <1>1, <1>2, <1>5 DEF StructInv, IsChain, Listed, Distinct

\* Keys of a smaller or equal chain stay apart, from each other and from the
\* key that is inserted.
LEMMA FewerApart ==
  ASSUME NEW s, StructInv(s), NEW t, Listed(t) \subseteq Listed(s),
         \A e \in Listed(t) : entry'[e] = entry[e]
  PROVE  KeysApart(t)'
  BY DEF StructInv, KeysApart, Listed

\* A call that only reads the list, or moves an entry in it.
LEMMA QuietStep ==
  ASSUME NEW s, StructInv(s), NEW c \in Clients, NEW new, CallChanged(c, new),
         new.at = calls[c].at, new.created = calls[c].created, new.existing = calls[c].existing,
         entry' = entry, mutex' = mutex,
         NEW t, IsChain(list', t), Listed(t) = Listed(s), TypedAfter
  PROVE  StructInv(t)'
<1>1. OthersKept(c)
  BY DEF OthersKept
<1>2. ApartFrom(c, new)
  BY DEF ApartFrom, StructInv, HandsApart, Hands
<1>3. calls'[c] = new
  BY DEF CallChanged
<1>4. HandSound(c)'
  <2>1. HandSound(c)
    BY DEF StructInv
  <2>2. QED
    BY <1>3, <2>1 DEF HandSound
<1>5. \A d \in Clients : Hands(d)' = Hands(d) /\ calls'[d].at = calls[d].at
                         /\ calls'[d].created = calls[d].created
  BY <1>3 DEF Hands, CallChanged
<1>6. InChain(t)'
  BY <1>5 DEF StructInv, InChain, Listed
<1>7. KeysApart(t)'
  BY FewerApart
<1>8. KeyAway(t)'
  <2>1. KeyAway(s)
    BY DEF StructInv
  <2>2. SUFFICES ASSUME NEW d \in Clients, calls'[d].at = "evict", NEW e \in Listed(t)
                 PROVE  entry'[e].key # entry'[calls'[d].created].key
    BY DEF KeyAway, Listed
  <2>3. calls[d].at = "evict" /\ calls'[d].created = calls[d].created /\ e \in Listed(s)
    BY <1>5, <2>2
  <2>4. QED
    BY <2>1, <2>3 DEF KeyAway
<1>9. QED
  BY <1>1, <1>2, <1>4, <1>6, <1>7, <1>8, StructStep

-----------------------------------------------------------------------------
(* The structure, the bytes and the counts together. *)

Core(chain) == StructInv(chain) /\ BytesInv(chain) /\ ReferencesCounted

LEMMA CoreFacts ==
  ASSUME NEW s, Core(s)
  PROVE  /\ StructInv(s) /\ BytesInv(s) /\ ReferencesCounted /\ TypeOK
         /\ IsChain(list, s) /\ list \in Lists /\ s \in Seq(Entries) /\ Distinct(s)
         /\ entry \in [Entries -> EntryRecords \cup {NULL}] /\ bytes \in Nat
         /\ mutex \in Clients \cup {NULL} /\ references \in [Snapshots -> Nat]
         /\ recent \in Seq(Keys)
         /\ \A c \in Clients : HandSound(c) /\ calls[c] \in Calls
  BY DEF Core, StructInv, IsChain, TypeOK

LEMMA CoreStep ==
  ASSUME NEW t, StructInv(t)', BytesInv(t)', ReferencesCounted'
  PROVE  Core(t)'
  BY DEF Core, BytesInv, StructInv, IsChain, Listed, Distinct

LEMMA HitCore ==
  ASSUME NEW s, Core(s), NEW c \in Clients, NEW k \in Keys, Lookup(c, k),
         NEW i \in 1 .. Len(s), Find(k) = s[i],
         NEW t, t = Pushed(Removed(s, i), s[i])
  PROVE  Core(t)' /\ list' = Touch(list, s[i]) /\ recent' = Used(entry[s[i]].key)
<1>1. /\ StructInv(s) /\ BytesInv(s) /\ ReferencesCounted /\ TypeOK
      /\ IsChain(list, s) /\ list \in Lists /\ s \in Seq(Entries) /\ Distinct(s)
      /\ entry \in [Entries -> EntryRecords \cup {NULL}] /\ bytes \in Nat
      /\ mutex \in Clients \cup {NULL} /\ recent \in Seq(Keys) /\ calls[c] \in Calls
  BY CoreFacts
<1>2. s[i] \in Entries /\ s[i] # NULL /\ entry[s[i]] \in EntryRecords /\ entry[s[i]] # NULL
  BY <1>1, ChainEntries, CacheAssumption
<1>3. entry[s[i]].key \in Keys
  BY <1>2 DEF EntryRecords
<1>4. Hit(c, k, s[i]) /\ UNCHANGED <<entry, bytes, mutex>>
  BY <1>2 DEF Lookup
<1>5. list' = Touch(list, s[i]) /\ recent' = Used(entry[s[i]].key)
  BY <1>4 DEF Hit
<1>6. list' \in Lists /\ IsChain(list', t)
  BY <1>1, <1>5, TouchSound
<1>7. ReferencesCounted' /\ references' \in [Snapshots -> Nat]
  BY <1>1, LookupCounted
<1>8. recent' \in Seq(Keys)
  BY <1>1, <1>3, <1>5, UsedTypes
<1>9. Listed(t) = Listed(s)
  <2>1. /\ Removed(s, i) \in Seq(Entries) /\ Distinct(Removed(s, i))
        /\ Listed(Removed(s, i)) = Listed(s) \ {s[i]}
    BY <1>1, RemovedSound
  <2>2. Listed(t) = (Listed(s) \ {s[i]}) \cup {s[i]}
    BY <1>2, <2>1, PushedSound
  <2>3. s[i] \in Listed(s)
    BY DEF Listed
  <2>4. QED
    BY <2>2, <2>3
<1> DEFINE new == [calls[c] EXCEPT !.held = {entry[s[i]].snap}, !.found = <<k, entry[s[i]].snap>>]
<1>10. CallChanged(c, new)
  BY <1>1, <1>2, <1>4, HitCall
<1>11. new.at = calls[c].at /\ new.created = calls[c].created /\ new.existing = calls[c].existing
  BY <1>1 DEF Calls
<1> HIDE DEF new
<1>12. TypedAfter
  BY <1>1, <1>4, <1>6, <1>7, <1>8 DEF TypedAfter
<1>13. StructInv(t)'
  BY <1>1, <1>4, <1>6, <1>9, <1>10, <1>11, <1>12, QuietStep
<1>14. BytesInv(t)'
  BY <1>1, <1>4, <1>9, BytesKept
<1>15. QED
  BY <1>5, <1>7, <1>13, <1>14, CoreStep

\* Calls that leave the list and the entries as they are.
LEMMA CallCore ==
  ASSUME NEW s, Core(s), NEW c \in Clients, NEW new, CallChanged(c, new),
         new.at = calls[c].at, new.created = calls[c].created, new.existing = calls[c].existing,
         UNCHANGED <<entry, list, bytes, mutex, recent>>,
         ReferencesCounted', references' \in [Snapshots -> Nat]
  PROVE  Core(s)'
<1>1. /\ StructInv(s) /\ BytesInv(s)
      /\ IsChain(list, s) /\ list \in Lists
      /\ entry \in [Entries -> EntryRecords \cup {NULL}] /\ bytes \in Nat
      /\ mutex \in Clients \cup {NULL} /\ recent \in Seq(Keys)
  BY CoreFacts
<1>2. TypedAfter
  BY <1>1 DEF TypedAfter
<1>3. IsChain(list', s)
  BY <1>1
<1>4. StructInv(s)'
  BY <1>1, <1>2, <1>3, QuietStep
<1>5. BytesInv(s)'
  BY <1>1, BytesKept
<1>6. QED
  BY <1>4, <1>5, CoreStep

LEMMA MissCore ==
  ASSUME NEW s, Core(s), NEW c \in Clients, NEW k \in Keys, Lookup(c, k), Find(k) = NULL
  PROVE  Core(s)' /\ UNCHANGED <<entry, list, mutex, recent>>
<1>1. StructInv(s) /\ ReferencesCounted /\ TypeOK /\ calls[c] \in Calls
  BY CoreFacts
<1>2. Miss(c, k) /\ UNCHANGED <<entry, bytes, mutex>>
  BY DEF Lookup
<1>3. UNCHANGED <<entry, list, bytes, mutex, recent>>
  BY <1>2 DEF Miss
<1> DEFINE new == [calls[c] EXCEPT !.found = <<k, NULL>>]
<1>4. CallChanged(c, new)
  BY <1>1, <1>2, MissCall
<1>5. new.at = calls[c].at /\ new.created = calls[c].created /\ new.existing = calls[c].existing
  BY <1>1 DEF Calls
<1> HIDE DEF new
<1>6. ReferencesCounted' /\ references' \in [Snapshots -> Nat]
  BY <1>1, LookupCounted
<1>7. QED
  BY <1>3, <1>4, <1>5, <1>6, CallCore

LEMMA CreateCore ==
  ASSUME NEW s, Core(s), NEW c \in Clients, NEW x \in Snapshots, Create(c, x)
  PROVE  Core(s)'
<1>1. ReferencesCounted /\ TypeOK /\ calls[c] \in Calls
  BY CoreFacts
<1> DEFINE new == [calls[c] EXCEPT !.held = calls[c].held \cup {x}, !.fresh = x, !.found = <<>>]
<1>2. CallChanged(c, new)
  BY <1>1, CreateCall
<1>3. new.at = calls[c].at /\ new.created = calls[c].created /\ new.existing = calls[c].existing
  BY <1>1 DEF Calls
<1> HIDE DEF new
<1>4. ReferencesCounted' /\ references' \in [Snapshots -> Nat]
  BY <1>1, CreateCounted
<1>5. UNCHANGED <<entry, list, bytes, mutex, recent>>
  BY DEF Create
<1>6. QED
  BY <1>2, <1>3, <1>4, <1>5, CallCore

LEMMA ReleaseCore ==
  ASSUME NEW s, Core(s), NEW c \in Clients, NEW x \in Snapshots, Release(c, x)
  PROVE  Core(s)'
<1>1. ReferencesCounted /\ TypeOK /\ calls[c] \in Calls
  BY CoreFacts
<1> DEFINE new == [calls[c] EXCEPT !.held = calls[c].held \ {x}, !.found = <<>>,
                                   !.fresh = IF calls[c].fresh = x THEN NULL ELSE calls[c].fresh]
<1>2. CallChanged(c, new)
  BY <1>1, ReleaseCall
<1>3. new.at = calls[c].at /\ new.created = calls[c].created /\ new.existing = calls[c].existing
  BY <1>1 DEF Calls
<1> HIDE DEF new
<1>4. ReferencesCounted' /\ references' \in [Snapshots -> Nat]
  BY <1>1, ReleaseCounted
<1>5. UNCHANGED <<entry, list, bytes, mutex, recent>>
  BY DEF Release
<1>6. QED
  BY <1>2, <1>3, <1>4, <1>5, CallCore

LEMMA TooLargeCore ==
  ASSUME NEW s, Core(s), NEW c \in Clients, InsertTooLarge(c)
  PROVE  Core(s)'
<1>1. ReferencesCounted /\ TypeOK /\ calls[c] \in Calls
  BY CoreFacts
<1> DEFINE new == [calls[c] EXCEPT !.fresh = NULL]
<1>2. CallChanged(c, new)
  BY <1>1, TooLargeCall
<1>3. /\ new.at = calls[c].at /\ new.created = calls[c].created /\ new.existing = calls[c].existing
      /\ new.held = calls[c].held
  BY <1>1 DEF Calls
<1> HIDE DEF new
<1>4. UNCHANGED <<entry, list, bytes, mutex, references, recent>>
  BY DEF InsertTooLarge
<1>5. ReferencesCounted' /\ references' \in [Snapshots -> Nat]
  BY <1>1, <1>2, <1>3, <1>4, SameHolders
<1>6. QED
  BY <1>2, <1>3, <1>4, <1>5, CallCore

\* An insertion has nothing that is not allocated.
LEMMA HandsAllocated ==
  ASSUME NEW c \in Clients, HandSound(c), NEW x \in Hands(c), x # NULL, calls[c] \in Calls
  PROVE  entry[x] # NULL
<1>1. calls[c].at \in {"ready", "lock", "evict", "free"}
  BY DEF Calls
<1>2. QED
  BY <1>1 DEF HandSound, Hands

LEMMA BeginCore ==
  ASSUME NEW s, Core(s), NEW c \in Clients, NEW k \in Keys, InsertBegin(c, k)
  PROVE  Core(s)' /\ UNCHANGED <<list, bytes, mutex, recent>>
                  /\ \A f \in Entries : entry[f] # NULL => entry'[f] = entry[f]
<1> DEFINE x == calls[c].fresh
           r == [key |-> k, snap |-> x]
<1>1. /\ StructInv(s) /\ BytesInv(s) /\ ReferencesCounted /\ TypeOK
      /\ IsChain(list, s) /\ list \in Lists /\ calls[c] \in Calls
      /\ entry \in [Entries -> EntryRecords \cup {NULL}] /\ bytes \in Nat
      /\ mutex \in Clients \cup {NULL} /\ references \in [Snapshots -> Nat]
      /\ recent \in Seq(Keys) /\ HandSound(c)
  BY CoreFacts
<1>2. PICK e \in Entries :
        /\ entry[e] = NULL /\ entry' = [entry EXCEPT ![e] = r]
        /\ calls' = [calls EXCEPT ![c].at = "lock", ![c].fresh = NULL, ![c].created = e]
  BY DEF InsertBegin
<1>3. /\ calls[c].at = "ready" /\ x \in Snapshots /\ Fits(x)
      /\ references' = [references EXCEPT ![x] = @ + 1]
      /\ UNCHANGED <<list, bytes, mutex, recent>>
  BY <1>1 DEF InsertBegin, Calls
<1>4. r \in EntryRecords /\ r.snap = x /\ r.key = k
  BY <1>3 DEF EntryRecords
<1> DEFINE new == [calls[c] EXCEPT !.at = "lock", !.fresh = NULL, !.created = e]
<1>5. CallChanged(c, new)
  BY <1>1, <1>2, BeginCall
<1>6. /\ new.at = "lock" /\ new.created = e /\ new.existing = calls[c].existing
      /\ new.held = calls[c].held
  BY <1>1 DEF Calls
<1> HIDE DEF new, r, x
<1>7. ReferencesCounted' /\ references' \in [Snapshots -> Nat]
  <2>1. references' = [references EXCEPT ![r.snap] = @ + 1]
    BY <1>3, <1>4
  <2>2. QED
    BY <1>1, <1>2, <1>4, <1>5, <1>6, <2>1, BeginCounted
<1>8. e # NULL /\ r # NULL
  BY <1>4, CacheAssumption
<1>9. entry' \in [Entries -> EntryRecords \cup {NULL}] /\ entry'[e] = r
      /\ \A f \in Entries : f # e => entry'[f] = entry[f]
  BY <1>1, <1>2, <1>4
<1>10. TypedAfter
  BY <1>1, <1>3, <1>7, <1>9 DEF TypedAfter
<1>11. \A d \in Clients : e \notin Hands(d)
  BY <1>2, <1>8, CoreFacts, HandsAllocated
<1>12. \A d \in Clients : Hands(d) \subseteq Entries \cup {NULL}
  BY CoreFacts DEF Hands, Calls
<1>13. OthersKept(c)
  BY <1>3, <1>9, <1>11, <1>12 DEF OthersKept
<1>14. calls[c].existing = NULL /\ calls[c].created = NULL
  BY <1>1, <1>3 DEF HandSound
<1>15. ApartFrom(c, new)
  BY <1>6, <1>11, <1>14 DEF ApartFrom
<1>16. calls'[c] = new
  BY <1>5 DEF CallChanged
<1>17. HandSound(c)'
  <2>1. mutex # c
    BY <1>1, <1>3 DEF HandSound
  <2>2. Fits(r.snap)
    BY <1>3, <1>4
  <2>3. entry'[new.created] # NULL /\ Fits(entry'[new.created].snap)
    BY <1>6, <1>8, <1>9, <2>2
  <2>4. QED
    BY <1>3, <1>6, <1>8, <1>14, <1>16, <2>1, <2>3 DEF HandSound, Fits
<1>18. e \notin Listed(s)
  BY <1>1, <1>2 DEF StructInv, InChain
<1>19. \A f \in Listed(s) : entry'[f] = entry[f]
  BY <1>1, <1>9, <1>18, ChainEntries
<1>20. Hands(c)' = {e, NULL} /\ \A d \in Clients : d # c => Hands(d)' = Hands(d)
  BY <1>6, <1>14, <1>16, <1>5 DEF Hands, CallChanged
<1>21. Hands(c) = {NULL}
  BY <1>14 DEF Hands
<1>22. InChain(s)'
  <2>1. ASSUME NEW f \in Entries
        PROVE  f \in Listed(s) <=> entry'[f] # NULL /\ \A d \in Clients : f \notin Hands(d)'
    <3>1. CASE f = e
      BY <1>18, <1>20, <3>1
    <3>2. CASE f # e
      <4>1. f # NULL
        BY CacheAssumption
      <4>2. \A d \in Clients : f \in Hands(d)' <=> f \in Hands(d)
        BY <1>20, <1>21, <3>2, <4>1
      <4>3. f \in Listed(s) <=> entry[f] # NULL /\ \A d \in Clients : f \notin Hands(d)
        BY <1>1 DEF StructInv, InChain
      <4>4. QED
        BY <1>9, <3>2, <4>2, <4>3
    <3>3. QED
      BY <3>1, <3>2
  <2>2. QED
    BY <2>1 DEF InChain, Listed
<1>23. KeysApart(s)'
  BY <1>1, <1>19, FewerApart
<1>24. KeyAway(s)'
  <2> SUFFICES ASSUME NEW d \in Clients, calls'[d].at = "evict", NEW f \in Listed(s)
               PROVE  entry'[f].key # entry'[calls'[d].created].key
    BY DEF KeyAway, Listed
  <2>1. d # c
    BY <1>6, <1>16
  <2>2. calls'[d] = calls[d]
    BY <1>5, <2>1 DEF CallChanged
  <2>3. HandSound(d)
    BY CoreFacts
  <2>4. calls[d].created \in Hands(d) /\ calls[d].created # NULL
    BY <2>2, <2>3 DEF HandSound, Hands
  <2>5. entry'[calls[d].created] = entry[calls[d].created]
    BY <1>13, <2>1, <2>4 DEF OthersKept
  <2>6. entry[f].key # entry[calls[d].created].key
    BY <1>1, <2>2 DEF StructInv, KeyAway
  <2>7. QED
    BY <1>19, <2>2, <2>5, <2>6
<1>25. IsChain(list', s)
  BY <1>1, <1>3
<1>26. StructInv(s)'
  BY <1>1, <1>5, <1>10, <1>13, <1>15, <1>17, <1>22, <1>23, <1>24, <1>25, StructStep
<1>27. BytesInv(s)'
  BY <1>1, <1>3, <1>19, BytesKept
<1>28. \A f \in Entries : entry[f] # NULL => entry'[f] = entry[f]
  BY <1>2, <1>9
<1>29. QED
  BY <1>3, <1>7, <1>26, <1>27, <1>28, CoreStep

\* The chain without the entry that has the key of the insertion, if any.
Without(c, s, x, t) ==
  \/ x = NULL /\ t = s /\ \A e \in Listed(s) : entry[e].key # entry[calls[c].created].key
  \/ \E i \in 1 .. Len(s) : /\ x = s[i] /\ t = Removed(s, i)
                            /\ entry[s[i]].key = entry[calls[c].created].key

\* Taking the mutex, and the entry with the same key out of the chain.
LEMMA LockCore ==
  ASSUME NEW s, Core(s), NEW c \in Clients, InsertLock(c),
         NEW x, x = Find(entry[calls[c].created].key), NEW t, Without(c, s, x, t)
  PROVE  /\ Core(t)' /\ UNCHANGED <<entry, recent>> /\ mutex = NULL /\ mutex' = c
         /\ calls'[c].created = calls[c].created
<1>1. /\ StructInv(s) /\ BytesInv(s) /\ ReferencesCounted /\ TypeOK
      /\ IsChain(list, s) /\ list \in Lists /\ calls[c] \in Calls
      /\ entry \in [Entries -> EntryRecords \cup {NULL}] /\ bytes \in Nat
      /\ references \in [Snapshots -> Nat] /\ s \in Seq(Entries) /\ Distinct(s)
      /\ recent \in Seq(Keys) /\ HandSound(c)
  BY CoreFacts
<1>2. /\ calls[c].at = "lock" /\ mutex = NULL /\ mutex' = c
      /\ list' = IF x = NULL THEN list ELSE Unlink(list, x)
      /\ bytes' = IF x = NULL THEN bytes ELSE bytes - Size(x)
      /\ calls' = [calls EXCEPT ![c].at = "evict", ![c].existing = x]
      /\ UNCHANGED <<entry, references, recent>>
  BY DEF InsertLock
<1>3. x \in Entries \cup {NULL} /\ (x # NULL => x \in Listed(s))
  BY <1>1, ChainEntries DEF Without
<1> DEFINE new == [calls[c] EXCEPT !.at = "evict", !.existing = x]
<1>4. CallChanged(c, new)
  BY <1>1, <1>2, <1>3, LockCall
<1>5. /\ new.at = "evict" /\ new.created = calls[c].created /\ new.existing = x
      /\ new.held = calls[c].held
  BY <1>1 DEF Calls
<1> HIDE DEF new
<1>6. calls'[c] = new /\ \A d \in Clients : d # c => calls'[d] = calls[d]
  BY <1>4 DEF CallChanged
<1>7. ReferencesCounted' /\ references' \in [Snapshots -> Nat]
  BY <1>1, <1>2, <1>4, <1>5, SameHolders
<1>8. x # NULL => x # calls[c].created /\ \A d \in Clients : x \notin Hands(d)
  BY <1>1, <1>3, ChainEntries DEF Hands
<1>9. calls[c].existing = NULL /\ calls[c].created # NULL
  BY <1>1, <1>2 DEF HandSound
<1>10. /\ IsChain(list', t) /\ list' \in Lists /\ t \in Seq(Entries)
       /\ Listed(t) = Listed(s) \ {x} /\ BytesInv(t)' /\ bytes' \in Nat
  <2>1. CASE x = NULL
    <3>1. t = s
      <4>1. \A i \in 1 .. Len(s) : s[i] # NULL
        BY <1>1, ChainEntries
      <4>2. QED
        BY <2>1, <4>1 DEF Without
    <3>2. NULL \notin Listed(s)
      BY <1>1, ChainEntries
    <3>3. BytesInv(t)' /\ bytes' \in Nat
      BY <1>1, <1>2, <2>1, <3>1, BytesKept
    <3>4. QED
      BY <1>1, <1>2, <2>1, <3>1, <3>2, <3>3
  <2>2. CASE x # NULL
    <3>1. PICK i \in 1 .. Len(s) : x = s[i] /\ t = Removed(s, i)
      BY <2>2 DEF Without
    <3>2. list' \in Lists /\ IsChain(list', t)
      BY <1>1, <1>2, <2>2, <3>1, UnlinkSound
    <3>3. t \in Seq(Entries) /\ Listed(t) = Listed(s) \ {x}
      <4>1. /\ Removed(s, i) \in Seq(Entries) /\ Listed(Removed(s, i)) = Listed(s) \ {s[i]}
        BY <1>1, RemovedSound
      <4>2. QED
        BY <3>1, <4>1
    <3>4. BytesInv(t)' /\ bytes' \in Nat
      BY <1>1, <1>2, <1>3, <2>2, <3>3, BytesRemoved
    <3>5. QED
      BY <3>2, <3>3, <3>4
  <2>3. QED
    BY <2>1, <2>2
<1>11. TypedAfter
  BY <1>1, <1>2, <1>7, <1>10 DEF TypedAfter
<1>12. OthersKept(c)
  BY <1>2, CacheAssumption DEF OthersKept
<1>13. ApartFrom(c, new)
  <2> SUFFICES ASSUME NEW d \in Clients, d # c
               PROVE  {new.created, new.existing} \cap Hands(d) \subseteq {NULL}
    BY DEF ApartFrom
  <2>1. Hands(c) \cap Hands(d) \subseteq {NULL}
    BY <1>1 DEF StructInv, HandsApart
  <2>2. QED
    BY <1>5, <1>8, <2>1 DEF Hands
<1>14. HandSound(c)'
  <2>1. x # NULL => entry[x] # NULL
    BY <1>1, <1>3, ChainEntries, CacheAssumption
  <2>2. QED
    BY <1>1, <1>2, <1>5, <1>6, <1>8, <2>1 DEF HandSound, Fits
<1>15. \A f \in Entries : f \in Hands(c)' <=> f \in Hands(c) \/ f = x
  <2>1. Hands(c)' = {calls[c].created, x}
    BY <1>5, <1>6 DEF Hands
  <2>2. Hands(c) = {calls[c].created, NULL}
    BY <1>9 DEF Hands
  <2>3. QED
    BY <2>1, <2>2, CacheAssumption
<1>16. InChain(t)'
  <2>1. ASSUME NEW f \in Entries
        PROVE  f \in Listed(t) <=> entry'[f] # NULL /\ \A d \in Clients : f \notin Hands(d)'
    <3>1. f \in Listed(s) <=> entry[f] # NULL /\ \A d \in Clients : f \notin Hands(d)
      BY <1>1 DEF StructInv, InChain
    <3>2. \A d \in Clients : d # c => Hands(d)' = Hands(d)
      BY <1>6 DEF Hands
    <3>3. QED
      BY <1>2, <1>10, <1>15, <3>1, <3>2
  <2>2. QED
    BY <2>1 DEF InChain, Listed
<1>17. KeysApart(t)'
  BY <1>1, <1>2, <1>10, FewerApart
<1>18. KeyAway(t)'
  <2> SUFFICES ASSUME NEW d \in Clients, calls'[d].at = "evict", NEW f \in Listed(t)
               PROVE  entry'[f].key # entry'[calls'[d].created].key
    BY DEF KeyAway, Listed
  <2>1. d = c
    <3>1. d # c => calls[d].at = "evict" /\ HandSound(d)
      BY <1>6, CoreFacts
    <3>2. QED
      BY <1>2, <3>1, CacheAssumption DEF HandSound
  <2>2. calls'[d].created = calls[c].created /\ f \in Listed(s) /\ f # x
    BY <1>5, <1>6, <1>10, <2>1
  <2>3. entry[f].key # entry[calls[c].created].key
    <3>1. CASE x = NULL
      BY <1>1, <2>2, <3>1, ChainEntries DEF Without
    <3>2. CASE x # NULL
      <4>1. x \in Listed(s) /\ entry[x].key = entry[calls[c].created].key
        BY <1>3, <3>2 DEF Without
      <4>2. QED
        BY <1>1, <2>2, <4>1 DEF StructInv, KeysApart
    <3>3. QED
      BY <3>1, <3>2
  <2>4. QED
    BY <1>2, <2>2, <2>3
<1>19. StructInv(t)'
  BY <1>1, <1>4, <1>10, <1>11, <1>12, <1>13, <1>14, <1>16, <1>17, <1>18, StructStep
<1>20. QED
  BY <1>2, <1>5, <1>6, <1>7, <1>10, <1>19, CoreStep

\* An eviction frees the last entry of the chain.
LEMMA EvictCore ==
  ASSUME NEW s, Core(s), NEW c \in Clients, InsertEvict(c),
         NEW t, t = Removed(s, Len(s))
  PROVE  /\ Core(t)' /\ UNCHANGED <<mutex, recent, calls>> /\ s # <<>> /\ calls[c].at = "evict"
         /\ \A f \in Entries : f # list.oldest => entry'[f] = entry[f]
         /\ mutex = c /\ list.oldest = s[Len(s)]
<1> DEFINE x == list.oldest
<1>1. /\ StructInv(s) /\ BytesInv(s) /\ ReferencesCounted /\ TypeOK
      /\ IsChain(list, s) /\ list \in Lists /\ calls[c] \in Calls
      /\ entry \in [Entries -> EntryRecords \cup {NULL}] /\ bytes \in Nat
      /\ references \in [Snapshots -> Nat] /\ s \in Seq(Entries) /\ Distinct(s)
      /\ recent \in Seq(Keys) /\ HandSound(c) /\ mutex \in Clients \cup {NULL}
  BY CoreFacts
<1>2. /\ calls[c].at = "evict" /\ x # NULL /\ list' = PopOldest(list)
      /\ bytes' = bytes - Size(x) /\ references' = Freed(x)
      /\ entry' = [entry EXCEPT ![x] = NULL] /\ UNCHANGED <<mutex, calls, recent>>
  BY DEF InsertEvict
<1>3. s # <<>> /\ x = s[Len(s)] /\ Len(s) \in 1 .. Len(s)
  BY <1>1, <1>2, ChainEntries
<1>4. PICK i \in 1 .. Len(s) : i = Len(s) /\ x = s[i]
  BY <1>3
<1>5. x \in Listed(s) /\ x \in Entries /\ entry[x] # NULL /\ \A d \in Clients : x \notin Hands(d)
  BY <1>1, <1>4, ChainEntries, CacheAssumption
<1>6. PopOldest(list) = Unlink(list, s[i])
  BY <1>1, <1>3, <1>4, PopOldestSound
<1>7. /\ list' \in Lists /\ IsChain(list', t)
      /\ t \in Seq(Entries) /\ Listed(t) = Listed(s) \ {x}
  <2>1. list' = Unlink(list, s[i]) /\ t = Removed(s, i) /\ IsChain(list, s) /\ list \in Lists
    BY <1>1, <1>2, <1>4, <1>6
  <2>2. list' \in Lists /\ IsChain(list', t)
    BY <2>1, UnlinkSound
  <2>3. t \in Seq(Entries) /\ Listed(t) = Listed(s) \ {s[i]}
    BY <1>1, <2>1, RemovedSound
  <2>4. QED
    BY <1>4, <2>2, <2>3
<1> HIDE DEF x
<1>8. entry' \in [Entries -> EntryRecords \cup {NULL}] /\ entry'[x] = NULL
      /\ \A f \in Entries : f # x => entry'[f] = entry[f]
  BY <1>1, <1>2, <1>5
<1>9. ReferencesCounted' /\ references' \in [Snapshots -> Nat]
  <2>1. \A a \in Snapshots : Cardinality(Holding(calls', a)) = Cardinality(Holding(calls, a))
    BY <1>2
  <2>2. QED
    BY <1>1, <1>2, <1>5, <2>1, FreeCounted
<1>10. \A f \in Listed(t) : entry'[f] = entry[f] /\ f \in Listed(s)
  BY <1>1, <1>7, <1>8, ChainEntries
<1>11. BytesInv(t)' /\ bytes' \in Nat
  BY <1>1, <1>2, <1>5, <1>7, <1>10, BytesRemoved
<1>12. TypedAfter
  BY <1>1, <1>2, <1>7, <1>8, <1>9, <1>11 DEF TypedAfter
<1>13. CallChanged(c, calls[c])
  BY <1>1, <1>2 DEF CallChanged, TypeOK
<1>14. OthersKept(c)
  <2>1. \A d \in Clients : Hands(d) \subseteq Entries \cup {NULL}
    BY CoreFacts DEF Hands, Calls
  <2>2. QED
    BY <1>2, <1>5, <1>8, <2>1 DEF OthersKept
<1>15. ApartFrom(c, calls[c])
  BY <1>1 DEF ApartFrom, StructInv, HandsApart, Hands
<1>16. HandSound(c)'
  <2>1. \A f \in Hands(c) : f # NULL => entry'[f] = entry[f]
    <3>1. Hands(c) \subseteq Entries \cup {NULL}
      BY <1>1 DEF Hands, Calls
    <3>2. QED
      BY <1>5, <1>8, <3>1
  <2>2. /\ calls[c].created # NULL => entry'[calls[c].created] = entry[calls[c].created]
        /\ calls[c].existing # NULL => entry'[calls[c].existing] = entry[calls[c].existing]
    BY <2>1 DEF Hands
  <2>3. QED
    BY <1>1, <1>2, <2>2 DEF HandSound, Fits
<1>17. InChain(t)'
  <2>1. ASSUME NEW f \in Entries
        PROVE  f \in Listed(t) <=> entry'[f] # NULL /\ \A d \in Clients : f \notin Hands(d)'
    <3>1. f \in Listed(s) <=> entry[f] # NULL /\ \A d \in Clients : f \notin Hands(d)
      BY <1>1 DEF StructInv, InChain
    <3>2. \A d \in Clients : Hands(d)' = Hands(d)
      BY <1>2 DEF Hands
    <3>3. QED
      BY <1>7, <1>8, <3>1, <3>2
  <2>2. QED
    BY <2>1 DEF InChain, Listed
<1>18. KeysApart(t)'
  BY <1>1, <1>10, FewerApart
<1>19. KeyAway(t)'
  <2> SUFFICES ASSUME NEW d \in Clients, calls'[d].at = "evict", NEW f \in Listed(t)
               PROVE  entry'[f].key # entry'[calls'[d].created].key
    BY DEF KeyAway, Listed
  <2>1. HandSound(d) /\ calls[d].at = "evict"
    BY <1>2, CoreFacts
  <2>2. d = c
    BY <1>1, <1>2, <2>1 DEF HandSound
  <2>3. entry'[calls[c].created] = entry[calls[c].created]
    <3>1. calls[c].created # NULL /\ calls[c].created \in Entries /\ calls[c].created # x
      BY <1>1, <1>2, <1>5 DEF HandSound, Hands, Calls
    <3>2. QED
      BY <1>8, <3>1
  <2>4. entry[f].key # entry[calls[c].created].key
    BY <1>1, <1>2, <1>10 DEF StructInv, KeyAway
  <2>5. QED
    BY <1>2, <1>10, <2>2, <2>3, <2>4
<1>20. StructInv(t)'
  BY <1>1, <1>7, <1>12, <1>13, <1>14, <1>15, <1>16, <1>17, <1>18, <1>19, StructStep
<1>21. mutex = c
  BY <1>1, <1>2 DEF HandSound
<1>22. QED
  BY <1>2, <1>3, <1>8, <1>9, <1>11, <1>20, <1>21, CoreStep DEF x

\* The new entry is the newest of the chain.
LEMMA LinkCore ==
  ASSUME NEW s, Core(s), NEW c \in Clients, InsertLink(c),
         NEW x, x = calls[c].created, NEW t, t = Pushed(s, x)
  PROVE  /\ Core(t)' /\ entry' = entry /\ recent' = Used(entry[x].key)
         /\ mutex = c /\ mutex' = NULL /\ x \in Entries /\ x \notin Listed(s)
         /\ entry[x] \in EntryRecords
<1>1. /\ StructInv(s) /\ BytesInv(s) /\ ReferencesCounted /\ TypeOK
      /\ IsChain(list, s) /\ list \in Lists /\ calls[c] \in Calls
      /\ entry \in [Entries -> EntryRecords \cup {NULL}] /\ bytes \in Nat
      /\ references \in [Snapshots -> Nat] /\ s \in Seq(Entries) /\ Distinct(s)
      /\ recent \in Seq(Keys) /\ HandSound(c) /\ mutex \in Clients \cup {NULL}
  BY CoreFacts
<1>2. /\ calls[c].at = "evict" /\ (Crowded(x) => list.oldest = NULL)
      /\ list' = LinkNewest(list, x) /\ bytes' = bytes + Size(x) /\ mutex' = NULL
      /\ recent' = Used(entry[x].key) /\ UNCHANGED <<entry, references>>
  BY DEF InsertLink
<1>3. /\ mutex = c /\ x # NULL /\ x \in Entries /\ entry[x] # NULL /\ Fits(entry[x].snap)
      /\ calls[c].existing # NULL => entry[calls[c].existing] # NULL /\ calls[c].existing # x
  BY <1>1, <1>2 DEF HandSound, Calls
<1>4. entry[x] \in EntryRecords /\ entry[x].key \in Keys
  BY <1>1, <1>3 DEF EntryRecords
<1>5. x \notin Listed(s)
  BY <1>1, ChainEntries DEF Hands
<1>6. list' \in Lists /\ IsChain(list', t) /\ Listed(t) = Listed(s) \cup {x}
  BY <1>1, <1>2, <1>3, <1>5, LinkNewestSound, PushedSound
<1>7. bytes + Size(x) <= MaximumBytes
  <2>1. Size(x) \in Nat /\ Size(x) <= MaximumBytes /\ MaximumBytes \in Nat
    BY <1>3, <1>4, CacheAssumption, Weights DEF Fits, Size, Weight
  <2>2. CASE Crowded(x)
    <3>1. s = <<>>
      BY <1>1, <1>2, <2>2, ChainEntries
    <3>2. EachByte(Listed(s)) = {}
      BY <3>1 DEF EachByte, Listed
    <3>3. bytes = 0
      BY <1>1, <3>2, FS_EmptySet DEF BytesInv
    <3>4. QED
      BY <2>1, <3>3
  <2>3. CASE ~Crowded(x)
    BY <1>1, <2>1, <2>3 DEF Crowded
  <2>4. QED
    BY <2>2, <2>3
<1>8. BytesInv(t)' /\ bytes' \in Nat
  BY <1>1, <1>2, <1>3, <1>4, <1>5, <1>6, <1>7, BytesAdded
<1> DEFINE new == [calls[c] EXCEPT !.at = "free", !.created = NULL]
<1>9. CallChanged(c, new)
  BY <1>1, LinkCall
<1>10. /\ new.at = "free" /\ new.created = NULL /\ new.existing = calls[c].existing
       /\ new.held = calls[c].held
  BY <1>1 DEF Calls
<1> HIDE DEF new
<1>11. calls'[c] = new /\ \A d \in Clients : d # c => calls'[d] = calls[d]
  BY <1>9 DEF CallChanged
<1>12. ReferencesCounted' /\ references' \in [Snapshots -> Nat]
  BY <1>1, <1>2, <1>9, <1>10, SameHolders
<1>13. recent' \in Seq(Keys)
  BY <1>1, <1>2, <1>4, UsedTypes
<1>14. TypedAfter
  BY <1>1, <1>2, <1>6, <1>8, <1>12, <1>13 DEF TypedAfter
<1>15. OthersKept(c)
  BY <1>2, <1>3, CacheAssumption DEF OthersKept
<1>16. ApartFrom(c, new)
  <2> SUFFICES ASSUME NEW d \in Clients, d # c
               PROVE  {new.created, new.existing} \cap Hands(d) \subseteq {NULL}
    BY DEF ApartFrom
  <2>1. Hands(c) \cap Hands(d) \subseteq {NULL}
    BY <1>1 DEF StructInv, HandsApart
  <2>2. QED
    BY <1>10, <2>1 DEF Hands
<1>17. HandSound(c)'
  BY <1>2, <1>3, <1>10, <1>11, CacheAssumption DEF HandSound
<1>18. \A f \in Entries : f \in Hands(c) <=> f \in Hands(c)' \/ f = x
  <2>1. Hands(c)' = {NULL, calls[c].existing} /\ Hands(c) = {x, calls[c].existing}
    BY <1>10, <1>11 DEF Hands
  <2>2. QED
    BY <2>1, CacheAssumption
<1>19. x \notin Hands(c)' /\ \A d \in Clients : d # c => Hands(d)' = Hands(d) /\ x \notin Hands(d)
  <2>1. x \notin Hands(c)'
    BY <1>3, <1>10, <1>11 DEF Hands
  <2>2. ASSUME NEW d \in Clients, d # c PROVE Hands(d)' = Hands(d) /\ x \notin Hands(d)
    <3>1. Hands(c) \cap Hands(d) \subseteq {NULL} /\ x \in Hands(c)
      BY <1>1, <2>2 DEF StructInv, HandsApart, Hands
    <3>2. QED
      BY <1>3, <1>11, <2>2, <3>1 DEF Hands
  <2>3. QED
    BY <2>1, <2>2
<1>20. InChain(t)'
  <2>1. ASSUME NEW f \in Entries
        PROVE  f \in Listed(t) <=> entry'[f] # NULL /\ \A d \in Clients : f \notin Hands(d)'
    <3>1. f \in Listed(s) <=> entry[f] # NULL /\ \A d \in Clients : f \notin Hands(d)
      BY <1>1 DEF StructInv, InChain
    <3>2. CASE f = x
      BY <1>2, <1>3, <1>6, <1>19, <3>2
    <3>3. CASE f # x
      BY <1>2, <1>6, <1>18, <1>19, <3>1, <3>3
    <3>4. QED
      BY <3>2, <3>3
  <2>2. QED
    BY <2>1 DEF InChain, Listed
<1>21. KeysApart(t)'
  <2>1. \A f \in Listed(s) : entry[f].key # entry[x].key
    BY <1>1, <1>2 DEF StructInv, KeyAway
  <2>2. \A e, f \in Listed(t) : entry'[e].key = entry'[f].key => e = f
    BY <1>1, <1>2, <1>6, <2>1 DEF StructInv, KeysApart
  <2>3. QED
    BY <2>2 DEF KeysApart, Listed
<1>22. KeyAway(t)'
  <2>1. ASSUME NEW d \in Clients PROVE calls'[d].at # "evict"
    <3>1. CASE d = c
      BY <1>10, <1>11, <3>1
    <3>2. CASE d # c
      <4>1. HandSound(d) /\ mutex # d
        BY <1>3, <3>2, CoreFacts
      <4>2. QED
        BY <1>11, <3>2, <4>1 DEF HandSound
    <3>3. QED
      BY <3>1, <3>2
  <2>2. QED
    BY <2>1 DEF KeyAway
<1>23. StructInv(t)'
  BY <1>1, <1>6, <1>9, <1>14, <1>15, <1>16, <1>17, <1>20, <1>21, <1>22, StructStep
<1>24. QED
  BY <1>2, <1>3, <1>4, <1>5, <1>8, <1>12, <1>23, CoreStep

\* The entry that was replaced is freed after the mutex is let go of.
LEMMA ReturnCore ==
  ASSUME NEW s, Core(s), NEW c \in Clients, InsertReturn(c)
  PROVE  /\ Core(s)' /\ UNCHANGED <<list, mutex, recent>>
         /\ \A f \in Listed(s) : entry'[f] = entry[f]
         /\ \A d \in Clients : calls[d].at = "evict" =>
              /\ calls'[d] = calls[d] /\ entry'[calls[d].created] = entry[calls[d].created]
<1> DEFINE x == calls[c].existing
<1>1. /\ StructInv(s) /\ BytesInv(s) /\ ReferencesCounted /\ TypeOK
      /\ IsChain(list, s) /\ list \in Lists /\ calls[c] \in Calls
      /\ entry \in [Entries -> EntryRecords \cup {NULL}] /\ bytes \in Nat
      /\ references \in [Snapshots -> Nat] /\ s \in Seq(Entries) /\ Distinct(s)
      /\ recent \in Seq(Keys) /\ HandSound(c) /\ mutex \in Clients \cup {NULL}
  BY CoreFacts
<1>2. /\ calls[c].at = "free"
      /\ references' = IF x = NULL THEN references ELSE Freed(x)
      /\ entry' = IF x = NULL THEN entry ELSE [entry EXCEPT ![x] = NULL]
      /\ UNCHANGED <<list, bytes, mutex, recent>>
  BY DEF InsertReturn
<1>3. /\ x \in Entries \cup {NULL} /\ calls[c].created = NULL /\ mutex # c
      /\ x # NULL => entry[x] # NULL /\ x \in Hands(c)
  BY <1>1, <1>2 DEF HandSound, Calls, Hands
<1> DEFINE new == [calls[c] EXCEPT !.at = "ready", !.existing = NULL]
<1>4. CallChanged(c, new)
  BY <1>1, ReturnCall
<1>5. /\ new.at = "ready" /\ new.created = NULL /\ new.existing = NULL
      /\ new.held = calls[c].held
  BY <1>1, <1>3 DEF Calls
<1> HIDE DEF new, x
<1>6. calls'[c] = new /\ \A d \in Clients : d # c => calls'[d] = calls[d]
  BY <1>4 DEF CallChanged
<1>7. /\ entry' \in [Entries -> EntryRecords \cup {NULL}] /\ (x # NULL => entry'[x] = NULL)
      /\ \A f \in Entries : f # x => entry'[f] = entry[f]
  BY <1>1, <1>2, <1>3
<1>8. ReferencesCounted' /\ references' \in [Snapshots -> Nat]
  <2>1. CASE x = NULL
    BY <1>1, <1>2, <1>4, <1>5, <2>1, SameHolders
  <2>2. CASE x # NULL
    <3>1. \A a \in Snapshots : Cardinality(Holding(calls', a)) = Cardinality(Holding(calls, a))
      <4>1. \A a : Holding(calls', a) = Holding(calls, a)
        BY <1>5, <1>6 DEF Holding
      <4>2. QED
        BY <4>1
    <3>2. QED
      BY <1>1, <1>2, <1>3, <2>2, <3>1, FreeCounted
  <2>3. QED
    BY <2>1, <2>2
<1>9. x \notin Listed(s)
  BY <1>1, <1>3, ChainEntries
<1>10. \A f \in Listed(s) : entry'[f] = entry[f]
  BY <1>1, <1>7, <1>9, ChainEntries
<1>11. BytesInv(s)' /\ bytes' \in Nat
  BY <1>1, <1>2, <1>10, BytesKept
<1>12. TypedAfter
  BY <1>1, <1>2, <1>7, <1>8, <1>11 DEF TypedAfter
<1>13. \A d \in Clients : d # c => x \notin Hands(d) \/ x = NULL
  BY <1>1, <1>3 DEF StructInv, HandsApart
<1>14. OthersKept(c)
  <2>1. \A d \in Clients : Hands(d) \subseteq Entries \cup {NULL}
    BY CoreFacts DEF Hands, Calls
  <2>2. QED
    BY <1>2, <1>7, <1>13, <2>1 DEF OthersKept
<1>15. ApartFrom(c, new)
  BY <1>5 DEF ApartFrom
<1>16. HandSound(c)'
  BY <1>2, <1>3, <1>5, <1>6 DEF HandSound
<1>17. Hands(c)' = {NULL} /\ Hands(c) = {NULL, x} /\ \A d \in Clients : d # c => Hands(d)' = Hands(d)
  BY <1>3, <1>5, <1>6 DEF Hands, x
<1>18. InChain(s)'
  <2>1. ASSUME NEW f \in Entries
        PROVE  f \in Listed(s) <=> entry'[f] # NULL /\ \A d \in Clients : f \notin Hands(d)'
    <3>1. f \in Listed(s) <=> entry[f] # NULL /\ \A d \in Clients : f \notin Hands(d)
      BY <1>1 DEF StructInv, InChain
    <3>2. f # NULL
      BY CacheAssumption
    <3>3. CASE f = x
      BY <1>7, <1>9, <3>2, <3>3
    <3>4. CASE f # x
      BY <1>7, <1>17, <3>1, <3>2, <3>4
    <3>5. QED
      BY <3>3, <3>4
  <2>2. QED
    BY <2>1 DEF InChain, Listed
<1>19. KeysApart(s)'
  BY <1>1, <1>10, FewerApart
<1>20. ASSUME NEW d \in Clients, calls[d].at = "evict"
       PROVE  calls'[d] = calls[d] /\ entry'[calls[d].created] = entry[calls[d].created]
  <2>1. d # c /\ HandSound(d)
    BY <1>2, <1>20, CoreFacts
  <2>2. calls[d].created \in Hands(d) /\ calls[d].created # NULL
    BY <1>20, <2>1 DEF HandSound, Hands
  <2>3. QED
    BY <1>6, <1>14, <2>1, <2>2 DEF OthersKept
<1>21. KeyAway(s)'
  <2> SUFFICES ASSUME NEW d \in Clients, calls'[d].at = "evict", NEW f \in Listed(s)
               PROVE  entry'[f].key # entry'[calls'[d].created].key
    BY DEF KeyAway, Listed
  <2>1. d # c
    BY <1>5, <1>6
  <2>2. calls'[d] = calls[d] /\ entry'[calls[d].created] = entry[calls[d].created]
    BY <1>6, <1>20, <2>1
  <2>3. QED
    BY <1>1, <1>10, <2>2 DEF StructInv, KeyAway
<1>22. IsChain(list', s)
  BY <1>1, <1>2
<1>23. StructInv(s)'
  BY <1>1, <1>4, <1>12, <1>14, <1>15, <1>16, <1>18, <1>19, <1>21, <1>22, StructStep
<1>24. QED
  BY <1>2, <1>8, <1>10, <1>11, <1>20, <1>23, CoreStep

\* An empty list is the empty chain.
LEMMA EmptyChain ==
  /\ EmptyList \in Lists /\ IsChain(EmptyList, <<>>) /\ Listed(<<>>) = {}
<1>1. Listed(<<>>) = {}
  BY DEF Listed
<1>2. <<>> \in Seq(Entries) /\ Distinct(<<>>)
  BY DEF Distinct
<1>3. EmptyList \in Lists
  BY DEF EmptyList, NoLinks, Lists
<1>4. \A i \in 1 .. Len(<<>>) : FALSE
  OBVIOUS
<1>5. QED
  BY <1>1, <1>2, <1>3, <1>4 DEF IsChain, EmptyList, NoLinks

\* What holds of a cache without entries.
LEMMA NothingStored ==
  ASSUME NEW t, t = <<>>,
         entry = [e \in Entries |-> NULL], list = EmptyList, bytes = 0, recent = <<>>, mutex = NULL,
         calls \in [Clients -> Calls], references \in [Snapshots -> Nat], ReferencesCounted,
         \A c \in Clients : calls[c].at = "ready" /\ calls[c].created = NULL /\ calls[c].existing = NULL
  PROVE  Core(t)
<1>1. TypeOK
  BY EmptyChain DEF TypeOK
<1>2. Listed(t) = {} /\ IsChain(list, t)
  BY EmptyChain
<1>3. InChain(t) /\ KeysApart(t) /\ KeyAway(t)
  BY <1>2 DEF InChain, KeysApart, KeyAway
<1>4. ASSUME NEW c \in Clients PROVE HandSound(c)
  BY CacheAssumption DEF HandSound
<1>5. HandsApart
  BY DEF HandsApart, Hands
<1>6. BytesInv(t)
  <2>1. EachByte(Listed(t)) = {}
    BY <1>2 DEF EachByte
  <2>2. Cardinality(EachByte(Listed(t))) = 0
    BY <2>1, FS_EmptySet
  <2>3. QED
    BY <2>2, CacheAssumption DEF BytesInv
<1>7. QED
  BY <1>1, <1>2, <1>3, <1>4, <1>5, <1>6 DEF Core, StructInv

LEMMA InitCore ==
  ASSUME Init
  PROVE  Core(<<>>)
<1>1. Idle \in Calls /\ Idle.at = "ready" /\ Idle.created = NULL /\ Idle.existing = NULL
      /\ Idle.held = {}
  BY DEF Idle, Calls
<1>2. ReferencesCounted
  <2>1. \A s \in Snapshots : {e \in Allocated : entry[e].snap = s} = {}
    BY DEF Init, Allocated
  <2>2. \A s \in Snapshots : {c \in Clients : s \in calls[c].held} = {}
    BY <1>1 DEF Init
  <2>3. Cardinality({}) = 0
    BY FS_EmptySet
  <2>4. \A s \in Snapshots : references[s] = 0
    BY DEF Init
  <2>5. ASSUME NEW s \in Snapshots
        PROVE  references[s] = Cardinality({e \in Allocated : entry[e].snap = s})
                               + Cardinality({c \in Clients : s \in calls[c].held})
    <3>1. /\ Cardinality({e \in Allocated : entry[e].snap = s}) = 0
          /\ Cardinality({c \in Clients : s \in calls[c].held}) = 0
      BY <2>1, <2>2, <2>3
    <3>2. QED
      BY <2>4, <3>1
  <2>6. QED
    BY <2>5 DEF ReferencesCounted
<1>3. PICK t : t = <<>>
  OBVIOUS
<1>4. Core(t)
  BY <1>1, <1>2, <1>3, NothingStored DEF Init
<1>5. QED
  BY <1>3, <1>4

LEMMA ReloadCore ==
  ASSUME NEW s, Core(s), Reload, NEW t, t = <<>>
  PROVE  Core(t)' /\ UNCHANGED <<mutex, calls>> /\ mutex = NULL /\ recent' = <<>>
<1>1. TypeOK /\ ReferencesCounted /\ mutex \in Clients \cup {NULL}
      /\ \A c \in Clients : HandSound(c) /\ calls[c] \in Calls
  BY CoreFacts
<1>2. /\ \A c \in Clients : calls[c].at = "ready" /\ calls[c].held = {}
      /\ entry' = [e \in Entries |-> NULL] /\ list' = EmptyList /\ bytes' = 0
      /\ recent' = <<>> /\ UNCHANGED <<mutex, calls>>
  BY DEF Reload
<1>3. mutex = NULL
  BY <1>1, <1>2 DEF HandSound
<1>4. \A c \in Clients : calls[c].created = NULL /\ calls[c].existing = NULL
  BY <1>1, <1>2 DEF HandSound
<1>5. ReferencesCounted' /\ references' \in [Snapshots -> Nat]
  BY <1>1, ReloadCounted
<1>6. calls' \in [Clients -> Calls]
  BY <1>1, <1>2 DEF TypeOK
<1>7. (/\ t = <<>>
       /\ entry = [e \in Entries |-> NULL] /\ list = EmptyList /\ bytes = 0 /\ recent = <<>> /\ mutex = NULL
       /\ calls \in [Clients -> Calls] /\ references \in [Snapshots -> Nat] /\ ReferencesCounted
       /\ \A c \in Clients : calls[c].at = "ready" /\ calls[c].created = NULL /\ calls[c].existing = NULL
       => Core(t))'
  BY NothingStored, PTL
<1>8. Core(t)'
  BY <1>2, <1>3, <1>4, <1>5, <1>6, <1>7
<1>9. QED
  BY <1>2, <1>3, <1>8

LEMMA StutterCore ==
  ASSUME NEW s, Core(s), UNCHANGED vars
  PROVE  Core(s)'
<1>1. UNCHANGED <<entry, list, bytes, mutex, references, calls, recent>>
  BY DEF vars
<1>2. StructInv(s)
  BY DEF Core
<1>3. TypeOK'
  BY <1>1, <1>2 DEF StructInv, TypeOK
<1>4. IsChain(list', s) /\ InChain(s)' /\ KeysApart(s)' /\ KeyAway(s)' /\ HandsApart'
  BY <1>1, <1>2 DEF StructInv, InChain, KeysApart, KeyAway, HandsApart, Hands, Listed
<1>5. \A c \in Clients : HandSound(c)'
  BY <1>1, <1>2 DEF StructInv, HandSound, Fits
<1>6. StructInv(s)'
  BY <1>3, <1>4, <1>5 DEF StructInv, IsChain, Listed, Distinct
<1>7. BytesInv(s)'
  BY <1>1, <1>2, BytesKept DEF Core
<1>8. ReferencesCounted'
  BY <1>1 DEF Core, ReferencesCounted, Allocated
<1>9. QED
  BY <1>6, <1>7, <1>8, CoreStep

-----------------------------------------------------------------------------
(* The least recently used. *)

\* The keys of a chain are the first ones of the keys in the order of use.
Follows(chain, entries, uses) ==
  /\ Len(chain) <= Len(uses)
  /\ \A i \in 1 .. Len(chain) : entries[chain[i]].key = uses[i]

\* What is in the chain was used after everything that is not, but for the key
\* that an insertion is about to use.
Recency(chain) ==
  /\ Distinct(recent)
  /\ mutex = NULL => Follows(chain, entry, recent)
  /\ \A c \in Clients, k \in Keys :
       mutex = c /\ entry[calls[c].created].key = k => Follows(chain, entry, Besides(k))

\* Each key is among the uses once.
LEMMA UsedDistinct ==
  ASSUME recent \in Seq(Keys), Distinct(recent), NEW k \in Keys
  PROVE  Distinct(Besides(k)) /\ Distinct(Used(k))
<1>1. Besides(k) \in Seq(Keys) /\ Used(k) = Pushed(Besides(k), k)
  BY UsedTypes
<1>2. Distinct(Besides(k)) /\ k \notin Listed(Besides(k))
  <2>1. CASE Besides(k) = recent /\ \A i \in 1 .. Len(recent) : recent[i] # k
    BY <2>1 DEF Listed
  <2>2. ASSUME NEW m \in 1 .. Len(recent), recent[m] = k, Besides(k) = Removed(recent, m)
        PROVE  Distinct(Besides(k)) /\ k \notin Listed(Besides(k))
    BY <2>2, RemovedSound
  <2>3. QED
    BY <2>1, <2>2, BesidesSound
<1>3. QED
  BY <1>1, <1>2, PushedSound

\* Without the same place in both, the keys still come first.
LEMMA FollowsRemoved ==
  ASSUME NEW s \in Seq(Entries), NEW us \in Seq(Keys), NEW entries, Follows(s, entries, us),
         NEW i \in 1 .. Len(s)
  PROVE  Follows(Removed(s, i), entries, Removed(us, i))
<1> DEFINE r == Removed(s, i)
           q == Removed(us, i)
<1>1. PICK n \in Nat : n = Len(s) /\ n >= 1 /\ i \in 1 .. n
  OBVIOUS
<1>2. PICK m \in Nat : m = Len(us) /\ n <= m /\ i \in 1 .. m
  BY <1>1 DEF Follows
<1>3. Len(r) = n - 1 /\ \A j \in 1 .. (n - 1) : r[j] = IF j < i THEN s[j] ELSE s[j + 1]
  BY <1>1, RemovedTypes
<1>4. Len(q) = m - 1 /\ \A j \in 1 .. (m - 1) : q[j] = IF j < i THEN us[j] ELSE us[j + 1]
  BY <1>2, RemovedTypes
<1> HIDE DEF r, q
<1>5. \A j \in 1 .. n : entries[s[j]].key = us[j]
  BY <1>1 DEF Follows
<1>6. ASSUME NEW j \in 1 .. (n - 1) PROVE entries[r[j]].key = q[j]
  <2>1. j \in 1 .. n /\ j + 1 \in 1 .. n /\ j \in 1 .. (m - 1)
    BY <1>1, <1>2
  <2>2. QED
    BY <1>3, <1>4, <1>5, <2>1
<1>7. Follows(r, entries, q)
  <2>1. Len(r) <= Len(q)
    BY <1>1, <1>2, <1>3, <1>4
  <2>2. \A j \in 1 .. Len(r) : entries[r[j]].key = q[j]
    BY <1>3, <1>6
  <2>3. QED
    BY <2>1, <2>2 DEF Follows
<1>8. QED
  BY <1>7 DEF r, q

\* With a key in front of both, too.
LEMMA FollowsPushed ==
  ASSUME NEW s \in Seq(Entries), NEW us \in Seq(Keys), NEW entries, Follows(s, entries, us),
         NEW e \in Entries, NEW k \in Keys, entries[e].key = k
  PROVE  Follows(Pushed(s, e), entries, Pushed(us, k))
<1> DEFINE r == Pushed(s, e)
           q == Pushed(us, k)
<1>1. PICK n \in Nat : n = Len(s)
  OBVIOUS
<1>2. PICK m \in Nat : m = Len(us) /\ n <= m
  BY <1>1 DEF Follows
<1>3. Len(r) = n + 1 /\ \A j \in 1 .. (n + 1) : r[j] = IF j = 1 THEN e ELSE s[j - 1]
  BY <1>1, PushedFirst DEF Pushed
<1>4. Len(q) = m + 1 /\ \A j \in 1 .. (m + 1) : q[j] = IF j = 1 THEN k ELSE us[j - 1]
  BY <1>2, PushedFirst DEF Pushed
<1> HIDE DEF r, q
<1>5. \A j \in 1 .. n : entries[s[j]].key = us[j]
  BY <1>1 DEF Follows
<1>6. ASSUME NEW j \in 1 .. (n + 1) PROVE entries[r[j]].key = q[j]
  <2>1. j \in 1 .. (m + 1) /\ (j # 1 => j - 1 \in 1 .. n)
    BY <1>1, <1>2
  <2>2. QED
    BY <1>3, <1>4, <1>5, <2>1
<1>7. Follows(r, entries, q)
  BY <1>1, <1>2, <1>3, <1>4, <1>6 DEF Follows
<1>8. QED
  BY <1>7 DEF r, q

\* A key that no entry of the chain has does not count.
LEMMA FollowsBesides ==
  ASSUME NEW s \in Seq(Entries), recent \in Seq(Keys), Follows(s, entry, recent), NEW k \in Keys,
         \A e \in Listed(s) : entry[e].key # k
  PROVE  Follows(s, entry, Besides(k))
<1>1. PICK n \in Nat : n = Len(s)
  OBVIOUS
<1>2. PICK l \in Nat : l = Len(recent) /\ n <= l
  BY <1>1 DEF Follows
<1>3. \A j \in 1 .. n : entry[s[j]].key = recent[j] /\ recent[j] # k
  BY <1>1 DEF Follows, Listed
<1>4. CASE Besides(k) = recent
  BY <1>4
<1>5. ASSUME NEW m \in 1 .. Len(recent), recent[m] = k, Besides(k) = Removed(recent, m)
      PROVE  Follows(s, entry, Besides(k))
  <2>1. m \notin 1 .. n /\ m \in 1 .. l /\ n < m /\ n <= l - 1
    BY <1>1, <1>2, <1>3, <1>5
  <2> DEFINE q == Removed(recent, m)
  <2>2. Len(q) = l - 1 /\ \A j \in 1 .. (l - 1) : q[j] = IF j < m THEN recent[j] ELSE recent[j + 1]
    BY <1>2, RemovedTypes
  <2> HIDE DEF q
  <2>3. \A j \in 1 .. n : j \in 1 .. (l - 1) /\ j < m
    BY <1>1, <1>2, <2>1
  <2>4. Follows(s, entry, q)
    BY <1>1, <1>2, <1>3, <2>1, <2>2, <2>3 DEF Follows
  <2>5. QED
    BY <1>5, <2>4 DEF q
<1>6. QED
  BY <1>4, <1>5, BesidesSound

\* The key of an entry of the chain has the place of its entry.
LEMMA BesidesAt ==
  ASSUME NEW s \in Seq(Entries), recent \in Seq(Keys), Distinct(recent), Follows(s, entry, recent),
         NEW i \in 1 .. Len(s), NEW k, k = entry[s[i]].key
  PROVE  Besides(k) = Removed(recent, i)
<1>1. i \in 1 .. Len(recent) /\ recent[i] = k
  BY DEF Follows
<1>2. PICK m \in 1 .. Len(recent) : recent[m] = k /\ Besides(k) = Removed(recent, m)
  BY <1>1, BesidesSound
<1>3. m = i
  BY <1>1, <1>2 DEF Distinct
<1>4. QED
  BY <1>2, <1>3

\* The chain without its last entry.
LEMMA FollowsShorter ==
  ASSUME NEW s \in Seq(Entries), s # <<>>, NEW us \in Seq(Keys), NEW old, Follows(s, old, us),
         Distinct(s), NEW new, \A e \in Entries : e # s[Len(s)] => new[e] = old[e]
  PROVE  Follows(Removed(s, Len(s)), new, us)
<1>1. PICK n \in Nat : n = Len(s) /\ n \in 1 .. n
  OBVIOUS
<1> DEFINE r == Removed(s, n)
<1>2. Len(r) = n - 1 /\ \A j \in 1 .. (n - 1) : r[j] = IF j < n THEN s[j] ELSE s[j + 1]
  BY <1>1, RemovedTypes
<1> HIDE DEF r
<1>3. \A j \in 1 .. (n - 1) : j \in 1 .. n /\ j < n /\ s[j] \in Entries /\ s[j] # s[n]
  BY <1>1 DEF Distinct
<1>4. \A j \in 1 .. n : old[s[j]].key = us[j]
  BY <1>1 DEF Follows
<1>5. Len(us) \in Nat /\ n <= Len(us)
  BY <1>1 DEF Follows
<1>6. ASSUME NEW j \in 1 .. (n - 1) PROVE new[r[j]].key = us[j]
  <2>1. j \in 1 .. n /\ r[j] = s[j] /\ s[j] \in Entries /\ s[j] # s[Len(s)]
    BY <1>1, <1>2, <1>3
  <2>2. new[s[j]] = old[s[j]]
    BY <2>1
  <2>3. QED
    BY <1>4, <2>1, <2>2
<1>7. Follows(r, new, us)
  BY <1>1, <1>2, <1>5, <1>6 DEF Follows
<1>8. QED
  BY <1>1, <1>7 DEF r

LEMMA FollowsSame ==
  ASSUME NEW s, NEW us, NEW old, Follows(s, old, us), NEW new, \A e \in Listed(s) : new[e] = old[e]
  PROVE  Follows(s, new, us)
  BY DEF Follows, Listed

CacheAt(chain) == Core(chain) /\ Recency(chain)

LEMMA BesidesSame ==
  ASSUME recent' = recent, NEW k
  PROVE  Besides(k)' = Besides(k)
  BY DEF Besides

\* A step that leaves the chain and the uses leaves the order.
LEMMA RecencyKept ==
  ASSUME NEW s, CacheAt(s), UNCHANGED <<mutex, recent>>,
         \A e \in Listed(s) : entry'[e] = entry[e],
         \A d \in Clients : mutex = d => entry'[calls'[d].created] = entry[calls[d].created]
  PROVE  Recency(s)'
<1>1. Recency(s)
  BY DEF CacheAt
<1>2. Distinct(recent')
  BY <1>1 DEF Recency
<1>3. mutex' = NULL => Follows(s, entry', recent')
  BY <1>1, FollowsSame DEF Recency
<1>4. ASSUME NEW d \in Clients, NEW k \in Keys, mutex' = d, entry'[calls'[d].created].key = k
      PROVE  Follows(s, entry', Besides(k)')
  <2>1. Follows(s, entry, Besides(k))
    BY <1>1, <1>4 DEF Recency
  <2>2. Follows(s, entry', Besides(k))
    BY <2>1, FollowsSame
  <2>3. QED
    BY <2>2, BesidesSame
<1>5. QED
  BY <1>2, <1>3, <1>4 DEF Recency, Follows, Distinct

\* The calls that leave the list and the entries as they are.
LEMMA PlainSteps ==
  ASSUME NEW s, CacheAt(s), NEW c \in Clients,
         \/ \E k \in Keys : Lookup(c, k) /\ Find(k) = NULL
         \/ \E x \in Snapshots : Create(c, x) \/ Release(c, x)
         \/ InsertTooLarge(c)
  PROVE  CacheAt(s)' /\ UNCHANGED <<entry, list, mutex, recent>>
<1>1. Core(s) /\ calls \in [Clients -> Calls]
  BY CoreFacts DEF CacheAt, TypeOK
<1>2. Core(s)'
  BY <1>1, MissCore, CreateCore, ReleaseCore, TooLargeCore
<1>3. UNCHANGED <<entry, list, mutex, recent>>
  BY <1>1, MissCore DEF Create, Release, InsertTooLarge
<1>4. ASSUME NEW d \in Clients PROVE calls'[d].created = calls[d].created
  <2> DEFINE r == calls[c]
  <2>1. TypeOK /\ r \in Calls
    BY <1>1, CoreFacts
  <2>2. ASSUME NEW new, CallChanged(c, new), new.created = r.created
        PROVE  calls'[d].created = calls[d].created
    BY <2>2 DEF CallChanged
  <2>3. ASSUME NEW k \in Keys, Lookup(c, k), Find(k) = NULL PROVE calls'[d].created = calls[d].created
    <3> DEFINE new == [r EXCEPT !.found = <<k, NULL>>]
    <3>1. CallChanged(c, new)
      BY <2>1, <2>3, MissCall DEF Lookup
    <3>2. new.created = r.created
      BY <2>1 DEF Calls
    <3> HIDE DEF new
    <3>3. QED
      BY <2>2, <3>1, <3>2
  <2>4. ASSUME NEW x \in Snapshots, Create(c, x) PROVE calls'[d].created = calls[d].created
    <3> DEFINE new == [r EXCEPT !.held = r.held \cup {x}, !.fresh = x, !.found = <<>>]
    <3>1. CallChanged(c, new)
      BY <2>1, <2>4, CreateCall
    <3>2. new.created = r.created
      BY <2>1 DEF Calls
    <3> HIDE DEF new
    <3>3. QED
      BY <2>2, <3>1, <3>2
  <2>5. ASSUME NEW x \in Snapshots, Release(c, x) PROVE calls'[d].created = calls[d].created
    <3> DEFINE new == [r EXCEPT !.held = r.held \ {x}, !.found = <<>>,
                                !.fresh = IF r.fresh = x THEN NULL ELSE r.fresh]
    <3>1. CallChanged(c, new)
      BY <2>1, <2>5, ReleaseCall
    <3>2. new.created = r.created
      BY <2>1 DEF Calls
    <3> HIDE DEF new
    <3>3. QED
      BY <2>2, <3>1, <3>2
  <2>6. ASSUME InsertTooLarge(c) PROVE calls'[d].created = calls[d].created
    <3> DEFINE new == [r EXCEPT !.fresh = NULL]
    <3>1. CallChanged(c, new)
      BY <2>1, <2>6, TooLargeCall
    <3>2. new.created = r.created
      BY <2>1 DEF Calls
    <3> HIDE DEF new
    <3>3. QED
      BY <2>2, <3>1, <3>2
  <2>7. QED
    BY <2>3, <2>4, <2>5, <2>6
<1>5. Recency(s)'
  BY <1>3, <1>4, RecencyKept
<1>6. QED
  BY <1>2, <1>3, <1>5 DEF CacheAt

LEMMA BeginStep ==
  ASSUME NEW s, CacheAt(s), NEW c \in Clients, NEW k \in Keys, InsertBegin(c, k)
  PROVE  CacheAt(s)'
<1>1. Core(s) /\ StructInv(s) /\ calls \in [Clients -> Calls] /\ HandSound(c)
  BY CoreFacts DEF CacheAt, TypeOK
<1>2. /\ Core(s)' /\ UNCHANGED <<list, bytes, mutex, recent>>
      /\ \A f \in Entries : entry[f] # NULL => entry'[f] = entry[f]
  BY <1>1, BeginCore
<1>3. \A e \in Listed(s) : entry'[e] = entry[e]
  BY <1>1, <1>2, ChainEntries, CacheAssumption
<1>4. ASSUME NEW d \in Clients, mutex = d
      PROVE  entry'[calls'[d].created] = entry[calls[d].created]
  <2>1. HandSound(d) /\ calls[d].at = "evict" /\ calls[d] \in Calls
    BY <1>1, <1>4, CoreFacts DEF HandSound
  <2>2. calls[d].created \in Entries /\ entry[calls[d].created] # NULL
    BY <2>1 DEF HandSound, Calls
  <2>3. d # c
    BY <2>1 DEF InsertBegin
  <2>4. calls'[d] = calls[d]
    BY <1>1, <2>3 DEF InsertBegin
  <2>5. QED
    BY <1>2, <2>2, <2>4
<1>5. Recency(s)'
  BY <1>2, <1>3, <1>4, RecencyKept
<1>6. QED
  BY <1>2, <1>5 DEF CacheAt

LEMMA HitStep ==
  ASSUME NEW s, CacheAt(s), NEW c \in Clients, NEW k \in Keys, Lookup(c, k),
         NEW i \in 1 .. Len(s), Find(k) = s[i],
         NEW t, t = Pushed(Removed(s, i), s[i])
  PROVE  CacheAt(t)'
<1>1. Core(s) /\ StructInv(s) /\ s \in Seq(Entries) /\ recent \in Seq(Keys) /\ Recency(s)
  BY CoreFacts DEF CacheAt
<1>2. /\ mutex = NULL /\ UNCHANGED <<entry, mutex>>
      /\ Core(t)' /\ recent' = Used(entry[s[i]].key)
  BY <1>1, HitCore DEF Lookup
<1>3. s[i] \in Entries /\ entry[s[i]].key \in Keys
  BY <1>1, ChainEntries DEF EntryRecords
<1> DEFINE m == entry[s[i]].key
           r == Removed(recent, i)
<1>4. Follows(s, entry, recent) /\ Distinct(recent)
  BY <1>1, <1>2 DEF Recency
<1>5. Besides(m) = r
  BY <1>1, <1>4, BesidesAt
<1>6. i \in 1 .. Len(recent)
  BY <1>1, <1>4 DEF Follows
<1>7. Follows(Removed(s, i), entry, r) /\ Removed(s, i) \in Seq(Entries) /\ r \in Seq(Keys)
  <2>1. Follows(Removed(s, i), entry, r)
    BY <1>1, <1>4, FollowsRemoved
  <2>2. Removed(s, i) \in Seq(Entries)
    BY <1>1, RemovedTypes
  <2>3. r \in Seq(Keys)
    BY <1>1, <1>6, RemovedTypes
  <2>4. QED
    BY <2>1, <2>2, <2>3
<1>8. recent' = Pushed(r, m) /\ Distinct(recent')
  BY <1>1, <1>2, <1>3, <1>4, <1>5, UsedTypes, UsedDistinct
<1> HIDE DEF r
<1>9. Follows(t, entry, Pushed(r, m))
  BY <1>3, <1>7, FollowsPushed
<1>10. Follows(t, entry', recent')
  BY <1>2, <1>8, <1>9
<1>11. Recency(t)'
  BY <1>2, <1>8, <1>10, CacheAssumption DEF Recency, Follows, Distinct
<1>12. QED
  BY <1>2, <1>11 DEF CacheAt

LEMMA LockStep ==
  ASSUME NEW s, CacheAt(s), NEW c \in Clients, InsertLock(c),
         NEW x, x = Find(entry[calls[c].created].key), NEW t, Without(c, s, x, t)
  PROVE  CacheAt(t)'
<1>1. /\ Core(s) /\ StructInv(s) /\ s \in Seq(Entries) /\ recent \in Seq(Keys) /\ Recency(s)
      /\ HandSound(c) /\ calls[c] \in Calls /\ entry \in [Entries -> EntryRecords \cup {NULL}]
  BY CoreFacts DEF CacheAt
<1>2. /\ Core(t)' /\ UNCHANGED <<entry, recent>> /\ mutex = NULL /\ mutex' = c
      /\ calls'[c].created = calls[c].created
  BY <1>1, LockCore
<1>3. PICK k : k = entry[calls[c].created].key
  OBVIOUS
<1>4. k \in Keys
  <2>1. calls[c].created \in Entries /\ entry[calls[c].created] # NULL
    BY <1>1 DEF InsertLock, HandSound, Calls
  <2>2. QED
    BY <1>1, <1>3, <2>1 DEF EntryRecords
<1>5. Follows(s, entry, recent) /\ Distinct(recent)
  BY <1>1, <1>2 DEF Recency
<1>6. Follows(t, entry, Besides(k))
  <2>1. CASE t = s /\ \A e \in Listed(s) : entry[e].key # entry[calls[c].created].key
    BY <1>1, <1>3, <1>4, <1>5, <2>1, FollowsBesides
  <2>2. ASSUME NEW i \in 1 .. Len(s), t = Removed(s, i), entry[s[i]].key = k
        PROVE  Follows(t, entry, Besides(k))
    <3>1. Besides(k) = Removed(recent, i)
      BY <1>1, <1>5, <2>2, BesidesAt
    <3>2. QED
      BY <1>1, <1>5, <2>2, <3>1, FollowsRemoved
  <2>3. QED
    BY <1>3, <2>1, <2>2 DEF Without
<1>7. Follows(t, entry', Besides(k)')
  BY <1>2, <1>6, BesidesSame
<1>8. ASSUME NEW d \in Clients, NEW m \in Keys, mutex' = d, entry'[calls'[d].created].key = m
      PROVE  Follows(t, entry', Besides(m)')
  <2>1. d = c /\ m = k
    BY <1>2, <1>3, <1>8
  <2>2. QED
    BY <1>7, <2>1
<1>9. Recency(t)'
  BY <1>2, <1>5, <1>8, CacheAssumption DEF Recency, Follows, Distinct
<1>10. QED
  BY <1>2, <1>9 DEF CacheAt

LEMMA EvictStep ==
  ASSUME NEW s, CacheAt(s), NEW c \in Clients, InsertEvict(c),
         NEW t, t = Removed(s, Len(s))
  PROVE  CacheAt(t)'
<1>1. /\ Core(s) /\ StructInv(s) /\ s \in Seq(Entries) /\ Distinct(s) /\ recent \in Seq(Keys)
      /\ Recency(s) /\ HandSound(c) /\ calls[c] \in Calls
  BY CoreFacts DEF CacheAt
<1>2. /\ Core(t)' /\ UNCHANGED <<mutex, recent, calls>> /\ s # <<>> /\ calls[c].at = "evict"
      /\ \A f \in Entries : f # s[Len(s)] => entry'[f] = entry[f]
      /\ mutex = c
  BY <1>1, EvictCore
<1>3. entry'[calls[c].created] = entry[calls[c].created]
  <2>1. Len(s) \in 1 .. Len(s)
    BY <1>1, <1>2, ChainEntries
  <2>2. PICK x : x = s[Len(s)]
    OBVIOUS
  <2>3. x \notin Hands(c)
    BY <1>1, <2>1, <2>2, ChainEntries
  <2>4. calls[c].created \in Entries
    BY <1>1, <1>2 DEF HandSound, Calls
  <2>5. QED
    BY <1>2, <2>2, <2>3, <2>4 DEF Hands
<1>4. ASSUME NEW d \in Clients, NEW m \in Keys, mutex' = d, entry'[calls'[d].created].key = m
      PROVE  Follows(t, entry', Besides(m)')
  <2>1. d = c /\ entry[calls[c].created].key = m
    BY <1>2, <1>3, <1>4
  <2>2. Follows(s, entry, Besides(m)) /\ Besides(m) \in Seq(Keys)
    BY <1>1, <1>2, <2>1, UsedTypes DEF Recency
  <2>3. Follows(t, entry', Besides(m))
    BY <1>1, <1>2, <2>2, FollowsShorter
  <2>4. QED
    BY <1>2, <2>3, BesidesSame
<1>5. Recency(t)'
  BY <1>1, <1>2, <1>4, CacheAssumption DEF Recency, Follows, Distinct
<1>6. QED
  BY <1>2, <1>5 DEF CacheAt

LEMMA LinkStep ==
  ASSUME NEW s, CacheAt(s), NEW c \in Clients, InsertLink(c),
         NEW x, x = calls[c].created, NEW t, t = Pushed(s, x)
  PROVE  CacheAt(t)'
<1>1. Core(s) /\ StructInv(s) /\ s \in Seq(Entries) /\ recent \in Seq(Keys) /\ Recency(s)
  BY CoreFacts DEF CacheAt
<1>2. /\ Core(t)' /\ entry' = entry /\ recent' = Used(entry[x].key)
      /\ mutex = c /\ mutex' = NULL /\ x \in Entries /\ entry[x] \in EntryRecords
  BY <1>1, LinkCore
<1>3. PICK k \in Keys : k = entry[x].key
  BY <1>2 DEF EntryRecords
<1>4. Follows(s, entry, Besides(k)) /\ Distinct(recent)
  BY <1>1, <1>2, <1>3 DEF Recency
<1>5. Besides(k) \in Seq(Keys) /\ recent' = Pushed(Besides(k), k) /\ Distinct(recent')
  BY <1>1, <1>2, <1>3, <1>4, UsedTypes, UsedDistinct
<1>6. Follows(t, entry, Pushed(Besides(k), k))
  BY <1>1, <1>2, <1>3, <1>4, <1>5, FollowsPushed
<1>7. Follows(t, entry', recent')
  BY <1>2, <1>5, <1>6
<1>8. Recency(t)'
  BY <1>2, <1>5, <1>7, CacheAssumption DEF Recency, Follows, Distinct
<1>9. QED
  BY <1>2, <1>8 DEF CacheAt

LEMMA ReturnStep ==
  ASSUME NEW s, CacheAt(s), NEW c \in Clients, InsertReturn(c)
  PROVE  CacheAt(s)'
<1>1. Core(s)
  BY DEF CacheAt
<1>2. /\ Core(s)' /\ UNCHANGED <<list, mutex, recent>>
      /\ \A f \in Listed(s) : entry'[f] = entry[f]
      /\ \A d \in Clients : calls[d].at = "evict" =>
           /\ calls'[d] = calls[d] /\ entry'[calls[d].created] = entry[calls[d].created]
  BY <1>1, ReturnCore
<1>3. \A d \in Clients : mutex = d => entry'[calls'[d].created] = entry[calls[d].created]
  BY <1>1, <1>2, CoreFacts DEF HandSound
<1>4. Recency(s)'
  BY <1>2, <1>3, RecencyKept
<1>5. QED
  BY <1>2, <1>4 DEF CacheAt

LEMMA ReloadStep ==
  ASSUME NEW s, CacheAt(s), Reload, NEW t, t = <<>>
  PROVE  CacheAt(t)'
<1>1. Core(t)' /\ mutex' = NULL /\ recent' = <<>>
  BY ReloadCore DEF CacheAt
<1>2. Recency(t)'
  BY <1>1, CacheAssumption DEF Recency, Follows, Distinct
<1>3. QED
  BY <1>1, <1>2 DEF CacheAt

LEMMA StutterStep ==
  ASSUME NEW s, CacheAt(s), UNCHANGED vars
  PROVE  CacheAt(s)'
<1>1. Core(s)'
  BY StutterCore DEF CacheAt
<1>2. Recency(s)'
  BY RecencyKept DEF vars
<1>3. QED
  BY <1>1, <1>2 DEF CacheAt

-----------------------------------------------------------------------------
(* The invariant. *)

CacheInv == \E s \in Seq(Entries) : CacheAt(s)

LEMMA CacheInitSound == Init => CacheInv
<1> SUFFICES ASSUME Init PROVE CacheInv
  OBVIOUS
<1>1. PICK s \in Seq(Entries) : s = <<>>
  <2>1. <<>> \in Seq(Entries)
    OBVIOUS
  <2>2. QED
    BY <2>1
<1>2. Core(s)
  BY <1>1, InitCore
<1>3. Recency(s)
  BY <1>1, CacheAssumption DEF Init, Recency, Follows, Distinct
<1>4. QED
  BY <1>1, <1>2, <1>3 DEF CacheInv, CacheAt

LEMMA CacheStepSound == CacheInv /\ [Next]_vars => CacheInv'
<1> SUFFICES ASSUME CacheInv, [Next]_vars PROVE CacheInv'
  OBVIOUS
<1>1. PICK s \in Seq(Entries) : CacheAt(s)
  BY DEF CacheInv
<1>2. StructInv(s) /\ Distinct(s)
  BY <1>1, CoreFacts DEF CacheAt
<1>3. ASSUME NEW t \in Seq(Entries), CacheAt(t)' PROVE CacheInv'
  BY <1>3 DEF CacheInv
<1>4. CASE Reload
  <2>1. PICK t \in Seq(Entries) : t = <<>>
    <3>1. <<>> \in Seq(Entries)
      OBVIOUS
    <3>2. QED
      BY <3>1
  <2>2. CacheAt(t)'
    BY <1>1, <1>4, <2>1, ReloadStep
  <2>3. QED
    BY <1>3, <2>2
<1>5. CASE UNCHANGED vars
  BY <1>1, <1>3, <1>5, StutterStep
<1>6. ASSUME NEW c \in Clients, Procedure(c) PROVE CacheInv'
  <2>1. ASSUME NEW k \in Keys, Lookup(c, k) PROVE CacheInv'
    <3>1. CASE Find(k) = NULL
      BY <1>1, <1>3, <2>1, <3>1, PlainSteps
    <3>2. CASE Find(k) # NULL
      <4>1. PICK i \in 1 .. Len(s) : Find(k) = s[i]
        BY <1>2, <3>2, FindSound
      <4>2. PICK t : t = Pushed(Removed(s, i), s[i])
        OBVIOUS
      <4>3. t \in Seq(Entries)
        <5>1. s[i] \in Entries
          OBVIOUS
        <5>2. Removed(s, i) \in Seq(Entries)
          BY RemovedTypes
        <5>3. QED
          BY <4>2, <5>1, <5>2, PushedFirst
      <4>4. CacheAt(t)'
        BY <1>1, <2>1, <4>1, <4>2, HitStep
      <4>5. QED
        BY <1>3, <4>3, <4>4
    <3>3. QED
      BY <3>1, <3>2
  <2>2. ASSUME NEW x \in Snapshots, Create(c, x) \/ Release(c, x) PROVE CacheInv'
    BY <1>1, <1>3, <2>2, PlainSteps
  <2>3. CASE InsertTooLarge(c)
    BY <1>1, <1>3, <2>3, PlainSteps
  <2>4. ASSUME NEW k \in Keys, InsertBegin(c, k) PROVE CacheInv'
    BY <1>1, <1>3, <2>4, BeginStep
  <2>5. CASE InsertLock(c)
    <3>1. PICK x : x = Find(entry[calls[c].created].key)
      OBVIOUS
    <3>2. CASE x = NULL /\ \A e \in Listed(s) : entry[e].key # entry[calls[c].created].key
      <4>1. Without(c, s, x, s)
        BY <3>2 DEF Without
      <4>2. CacheAt(s)'
        BY <1>1, <2>5, <3>1, <4>1, LockStep
      <4>3. QED
        BY <1>3, <4>2
    <3>3. ASSUME NEW i \in 1 .. Len(s), x = s[i], entry[s[i]].key = entry[calls[c].created].key
          PROVE  CacheInv'
      <4>1. PICK t : t = Removed(s, i)
        OBVIOUS
      <4>2. t \in Seq(Entries)
        BY <4>1, RemovedTypes
      <4>3. Without(c, s, x, t)
        BY <3>3, <4>1 DEF Without
      <4>4. CacheAt(t)'
        BY <1>1, <2>5, <3>1, <4>3, LockStep
      <4>5. QED
        BY <1>3, <4>2, <4>4
    <3>4. QED
      BY <1>2, <3>1, <3>2, <3>3, FindSound
  <2>6. CASE InsertEvict(c)
    <3>1. PICK t : t = Removed(s, Len(s))
      OBVIOUS
    <3>2. s # <<>>
      BY <1>1, <2>6, <3>1, EvictCore DEF CacheAt
    <3>3. PICK n \in 1 .. Len(s) : n = Len(s)
      BY <1>2, <3>2, ChainEntries
    <3>4. t \in Seq(Entries)
      BY <3>1, <3>3, RemovedTypes
    <3>5. CacheAt(t)'
      BY <1>1, <2>6, <3>1, EvictStep
    <3>6. QED
      BY <1>3, <3>4, <3>5
  <2>7. CASE InsertLink(c)
    <3>1. PICK x : x = calls[c].created
      OBVIOUS
    <3>2. PICK t : t = Pushed(s, x)
      OBVIOUS
    <3>3. x \in Entries
      BY <1>1, <2>7, <3>1, <3>2, LinkCore DEF CacheAt
    <3>4. t \in Seq(Entries)
      BY <3>2, <3>3, PushedFirst
    <3>5. CacheAt(t)'
      BY <1>1, <2>7, <3>1, <3>2, LinkStep
    <3>6. QED
      BY <1>3, <3>4, <3>5
  <2>8. CASE InsertReturn(c)
    BY <1>1, <1>3, <2>8, ReturnStep
  <2>9. QED
    BY <1>6, <2>1, <2>2, <2>3, <2>4, <2>5, <2>6, <2>7, <2>8 DEF Procedure, Insertion
<1>7. QED
  BY <1>4, <1>5, <1>6 DEF Next

LEMMA CacheInvAlways == Spec => []CacheInv
  BY CacheInitSound, CacheStepSound, PTL DEF Spec

\* What the invariant says, in the words of the properties.
LEMMA SequenceRange ==
  ASSUME NEW s \in Seq(Entries)
  PROVE  Range(s) = Listed(s)
<1>1. DOMAIN s = 1 .. Len(s)
  OBVIOUS
<1>2. QED
  BY <1>1 DEF Range, Listed

LEMMA InvImplies ==
  ASSUME CacheInv
  PROVE  StructureSound /\ ReferencesCounted /\ LeastRecentlyUsed
<1>1. PICK s \in Seq(Entries) : CacheAt(s)
  BY DEF CacheInv
<1>2. /\ StructInv(s) /\ BytesInv(s) /\ ReferencesCounted /\ TypeOK
      /\ IsChain(list, s) /\ Distinct(s) /\ recent \in Seq(Keys) /\ Recency(s)
  BY <1>1, CoreFacts DEF CacheAt
<1>3. Chain = s /\ Range(Chain) = Listed(s) /\ DOMAIN s = 1 .. Len(s)
  BY <1>2, ChainEntries, SequenceRange
<1>4. ListSound
  <2>1. Walk(list.newer, list.oldest) = Reverse(s)
    BY <1>2, ChainWalks
  <2>2. ASSUME NEW e \in Entries
        PROVE  e \in Listed(s) <=> e \in Allocated \ UNION {Pending(c) : c \in Clients}
    <3>1. e # NULL
      BY CacheAssumption
    <3>2. \A c \in Clients : e \in Hands(c) <=> e \in Pending(c)
      BY <3>1 DEF Hands, Pending
    <3>3. QED
      BY <1>2, <3>2 DEF StructInv, InChain, Allocated
  <2>3. Listed(s) = Allocated \ UNION {Pending(c) : c \in Clients}
    <3>1. Listed(s) \subseteq Entries /\ Allocated \subseteq Entries
      BY <1>2, ChainEntries DEF Allocated
    <3>2. QED
      BY <2>2, <3>1
  <2>4. ASSUME NEW i \in 1 .. Len(s), NEW j \in 1 .. Len(s), entry[s[i]].key = entry[s[j]].key
        PROVE  i = j
    <3>1. s[i] \in Listed(s) /\ s[j] \in Listed(s)
      BY DEF Listed
    <3>2. s[i] = s[j]
      BY <1>2, <2>4, <3>1 DEF StructInv, KeysApart
    <3>3. QED
      BY <1>2, <3>2 DEF Distinct
  <2>5. QED
    BY <1>3, <2>1, <2>3, <2>4 DEF ListSound
<1>5. BytesWithinLimit
  BY <1>2, <1>3 DEF BytesInv, BytesWithinLimit
<1>6. LeastRecentlyUsed
  <2> SUFFICES ASSUME mutex = NULL
               PROVE  IsPrefix([i \in DOMAIN s |-> entry[s[i]].key], recent)
    BY <1>3 DEF LeastRecentlyUsed
  <2>1. Follows(s, entry, recent)
    BY <1>2 DEF Recency
  <2> DEFINE kept == [i \in DOMAIN s |-> entry[s[i]].key]
  <2>2. PICK n \in Nat : n = Len(s)
    OBVIOUS
  <2>3. n <= Len(recent) /\ \A i \in 1 .. n : entry[s[i]].key = recent[i] /\ recent[i] \in Keys
    BY <1>2, <2>1, <2>2 DEF Follows
  <2>4. kept \in [1 .. n -> Keys] /\ \A i \in 1 .. n : kept[i] = recent[i]
    BY <1>3, <2>2, <2>3
  <2> HIDE DEF kept
  <2>5. kept \in Seq(Keys) /\ Len(kept) = n
    BY <2>2, <2>4
  <2> DEFINE a == SubSeq(kept, 1, n)
             b == SubSeq(recent, 1, n)
  <2>6. a \in Seq(Keys) /\ Len(a) = n /\ \A i \in 1 .. n : a[i] = kept[i]
    BY <2>2, <2>5
  <2>7. b \in Seq(Keys) /\ Len(b) = n /\ \A i \in 1 .. n : b[i] = recent[i]
    BY <1>2, <2>2, <2>3
  <2> HIDE DEF a, b
  <2>8. a = b
    <3>1. \A i \in 1 .. n : a[i] = b[i]
      BY <2>4, <2>6, <2>7
    <3>2. a = [i \in 1 .. n |-> a[i]] /\ b = [i \in 1 .. n |-> b[i]]
      BY <2>6, <2>7
    <3>3. QED
      BY <3>1, <3>2
  <2>9. IsPrefix(kept, recent)
    BY <2>3, <2>5, <2>8 DEF IsPrefix, a, b
  <2>10. QED
    BY <2>9 DEF kept
<1>7. QED
  BY <1>2, <1>4, <1>5, <1>6 DEF StructureSound

\* Whoever takes the mutex finds one chain, the same from both ends, of exactly
\* the entries that no insertion has, with one entry per key, whose bytes the
\* cache counts and keeps within its limit; for any number of threads that
\* insert, evict and replace at once.
THEOREM StructureAlwaysSound == Spec => []StructureSound
<1>1. CacheInv => StructureSound
  BY InvImplies
<1>2. QED
  BY <1>1, CacheInvAlways, PTL

\* A snapshot has as many references as entries and procedures have it, so that
\* none is freed while one of them may read it, and none is left behind.
THEOREM ReferencesAlwaysCounted == Spec => []ReferencesCounted
<1>1. CacheInv => ReferencesCounted
  BY InvImplies
<1>2. QED
  BY <1>1, CacheInvAlways, PTL

\* Evictions take what was used longest ago: the entries of the cache are those
\* that were used last, in the order of their use.
THEOREM AlwaysLeastRecentlyUsed == Spec => []LeastRecentlyUsed
<1>1. CacheInv => LeastRecentlyUsed
  BY InvImplies
<1>2. QED
  BY <1>1, CacheInvAlways, PTL

-----------------------------------------------------------------------------
(* The map. *)

\* A map has under each key the snapshot of the entry that has it, if one has.
Maps(m, entries, S) ==
  /\ m = [k \in Keys |-> m[k]]
  /\ \A k \in Keys :
       \/ m[k] = NULL /\ \A e \in S : entries[e].key # k
       \/ \E e \in S : entries[e].key = k /\ m[k] = entries[e].snap

Apart(entries, S) == \A e, f \in S : entries[e].key = entries[f].key => e = f

\* There is one such map: it stays, loses a key, or gets one.
LEMMA MapKept ==
  ASSUME NEW S, NEW old, NEW m, Maps(m, old, S), Apart(old, S),
         NEW new, NEW n, Maps(n, new, S), \A e \in S : new[e] = old[e]
  PROVE  n = m
<1>1. ASSUME NEW k \in Keys PROVE n[k] = m[k]
  <2>1. CASE \A e \in S : old[e].key # k
    BY <2>1 DEF Maps
  <2>2. ASSUME NEW e \in S, old[e].key = k PROVE n[k] = m[k]
    <3>1. m[k] = old[e].snap
      BY <2>2 DEF Maps, Apart
    <3>2. n[k] = new[e].snap
      BY <2>2 DEF Maps, Apart
    <3>3. QED
      BY <3>1, <3>2
  <2>3. QED
    BY <2>1, <2>2
<1>2. QED
  BY <1>1 DEF Maps

LEMMA MapDropped ==
  ASSUME NEW S, NEW old, NEW m, Maps(m, old, S), Apart(old, S),
         NEW T, T \subseteq S, NEW new, NEW n, Maps(n, new, T), \A e \in T : new[e] = old[e],
         NEW D, \A e \in S : e \in T <=> old[e].key \notin D
  PROVE  n = [k \in Keys |-> IF k \in D THEN NULL ELSE m[k]]
<1>1. ASSUME NEW k \in Keys PROVE n[k] = IF k \in D THEN NULL ELSE m[k]
  <2>1. CASE k \in D
    <3>1. \A e \in T : new[e].key # k
      BY <2>1
    <3>2. QED
      BY <2>1, <3>1 DEF Maps
  <2>2. CASE k \notin D /\ \A e \in S : old[e].key # k
    BY <2>2 DEF Maps
  <2>3. ASSUME k \notin D, NEW e \in S, old[e].key = k PROVE n[k] = m[k]
    <3>1. m[k] = old[e].snap
      BY <2>3 DEF Maps, Apart
    <3>2. e \in T /\ \A f \in T : new[f].key = k => f = e
      BY <2>3 DEF Apart
    <3>3. n[k] = new[e].snap
      BY <2>3, <3>2 DEF Maps
    <3>4. QED
      BY <3>1, <3>2, <3>3
  <2>4. QED
    BY <2>1, <2>2, <2>3
<1>2. QED
  BY <1>1 DEF Maps

LEMMA MapPut ==
  ASSUME NEW S, NEW entries, NEW m, Maps(m, entries, S), NEW x,
         Apart(entries, S \cup {x}), x \notin S, entries[x].key \in Keys,
         NEW n, Maps(n, entries, S \cup {x})
  PROVE  n = [m EXCEPT ![entries[x].key] = entries[x].snap]
<1>1. ASSUME NEW k \in Keys
      PROVE  n[k] = IF k = entries[x].key THEN entries[x].snap ELSE m[k]
  <2>1. CASE k = entries[x].key
    BY <2>1 DEF Maps, Apart
  <2>2. CASE k # entries[x].key /\ \A e \in S : entries[e].key # k
    BY <2>2 DEF Maps
  <2>3. ASSUME k # entries[x].key, NEW e \in S, entries[e].key = k PROVE n[k] = m[k]
    <3>1. m[k] = entries[e].snap
      BY <2>3 DEF Maps, Apart
    <3>2. n[k] = entries[e].snap
      BY <2>3 DEF Maps, Apart
    <3>3. QED
      BY <3>1, <3>2
  <2>4. QED
    BY <2>1, <2>2, <2>3
<1>2. QED
  BY <1>1 DEF Maps

\* The entries that have a place in the list are those of the chain, and the
\* map of the list is theirs.
LEMMA StoredSound ==
  ASSUME NEW t, Core(t)
  PROVE  Maps(Stored, entry, Listed(t)) /\ Apart(entry, Listed(t))
<1>1. StructInv(t) /\ IsChain(list, t)
  BY CoreFacts
<1>2. ASSUME NEW e \in Entries PROVE e \in Linked <=> e \in Listed(t)
  <2>1. CASE e \notin Listed(t)
    <3>1. list.newer[e] = NULL
      BY <1>1, <2>1 DEF IsChain
    <3>2. e # list.newest
      <4>1. t # <<>> => 1 \in 1 .. Len(t)
        BY <1>1, ChainEntries
      <4>2. QED
        BY <1>1, <2>1, <4>1, CacheAssumption DEF IsChain, Listed
    <3>3. QED
      BY <2>1, <3>1, <3>2 DEF Linked
  <2>2. ASSUME NEW i \in 1 .. Len(t), e = t[i] PROVE e \in Linked
    <3>1. /\ list.newer[t[i]] = IF i = 1 THEN NULL ELSE t[i - 1]
          /\ i # 1 => t[i - 1] # NULL
          /\ list.newest = t[1]
      BY <1>1, Neighbors
    <3>2. QED
      BY <2>2, <3>1 DEF Linked
  <2>3. QED
    BY <2>1, <2>2 DEF Listed
<1>3. Linked = Listed(t)
  <2>1. Linked \subseteq Entries /\ Listed(t) \subseteq Entries
    BY <1>1, ChainEntries DEF Linked
  <2>2. QED
    BY <1>2, <2>1
<1>4. Apart(entry, Listed(t))
  BY <1>1 DEF StructInv, KeysApart, Apart
<1>5. ASSUME NEW k \in Keys
      PROVE  \/ Stored[k] = NULL /\ \A e \in Listed(t) : entry[e].key # k
             \/ \E e \in Listed(t) : entry[e].key = k /\ Stored[k] = entry[e].snap
  <2> DEFINE With == {e \in Linked : entry[e].key = k}
  <2>1. Stored[k] = IF With = {} THEN NULL ELSE entry[CHOOSE e \in With : TRUE].snap
    BY DEF Stored
  <2>2. With = {} \/ (CHOOSE e \in With : TRUE) \in With
    OBVIOUS
  <2>3. With = {e \in Listed(t) : entry[e].key = k}
    BY <1>3
  <2> HIDE DEF With
  <2>4. QED
    BY <2>1, <2>2, <2>3
<1>6. Stored = [k \in Keys |-> Stored[k]]
  BY DEF Stored
<1>7. QED
  BY <1>4, <1>5, <1>6 DEF Maps

\* What the procedures were told.
Told == [c \in Clients |-> calls[c].found]

LEMMA ToldChanged ==
  ASSUME NEW c \in Clients, NEW new, CallChanged(c, new)
  PROVE  Told' = [Told EXCEPT ![c] = new.found]
  BY DEF CallChanged, Told

LEMMA ToldKept ==
  ASSUME NEW c \in Clients, NEW new, CallChanged(c, new), new.found = calls[c].found
  PROVE  Told' = Told
  BY DEF CallChanged, Told

\* The map after a step.
LEMMA StoredAfter ==
  ASSUME NEW t, Core(t)'
  PROVE  Maps(Stored', entry', Listed(t)) /\ Apart(entry', Listed(t))
<1>1. (Core(t) => Maps(Stored, entry, Listed(t)) /\ Apart(entry, Listed(t)))'
  BY StoredSound, PTL
<1>2. QED
  BY <1>1 DEF Maps, Apart, Listed

LEMMA StoredKept ==
  ASSUME NEW s, Core(s), NEW t, Core(t)', Listed(t) = Listed(s),
         \A e \in Listed(s) : entry'[e] = entry[e]
  PROVE  Stored' = Stored
<1>1. Maps(Stored, entry, Listed(s)) /\ Apart(entry, Listed(s))
  BY StoredSound
<1>2. Maps(Stored', entry', Listed(s))
  BY StoredAfter
<1>3. PICK n, m, new, old : n = Stored' /\ m = Stored /\ new = entry' /\ old = entry
  OBVIOUS
<1>4. n = m
  <2>1. Maps(m, old, Listed(s)) /\ Apart(old, Listed(s)) /\ Maps(n, new, Listed(s))
    BY <1>1, <1>2, <1>3
  <2>2. \A e \in Listed(s) : new[e] = old[e]
    BY <1>3
  <2>3. QED
    BY <2>1, <2>2, MapKept
<1>5. QED
  BY <1>3, <1>4

LEMMA StoredDropped ==
  ASSUME NEW s, Core(s), NEW t, Core(t)', NEW D, Listed(t) \subseteq Listed(s),
         \A e \in Listed(t) : entry'[e] = entry[e],
         \A e \in Listed(s) : e \in Listed(t) <=> entry[e].key \notin D
  PROVE  Stored' = [k \in Keys |-> IF k \in D THEN NULL ELSE Stored[k]]
<1>1. Maps(Stored, entry, Listed(s)) /\ Apart(entry, Listed(s))
  BY StoredSound
<1>2. Maps(Stored', entry', Listed(t))
  BY StoredAfter
<1>3. PICK n, m, new, old : n = Stored' /\ m = Stored /\ new = entry' /\ old = entry
  OBVIOUS
<1>4. n = [k \in Keys |-> IF k \in D THEN NULL ELSE m[k]]
  <2>1. Maps(m, old, Listed(s)) /\ Apart(old, Listed(s)) /\ Maps(n, new, Listed(t))
    BY <1>1, <1>2, <1>3
  <2>2. /\ \A e \in Listed(t) : new[e] = old[e]
        /\ \A e \in Listed(s) : e \in Listed(t) <=> old[e].key \notin D
    BY <1>3
  <2>3. QED
    BY <2>1, <2>2, MapDropped
<1>5. QED
  BY <1>3, <1>4

\* The answers that change: a lookup tells what the map has.
LEMMA HitMapped ==
  ASSUME NEW s, Core(s), NEW c \in Clients, NEW k \in Keys, Lookup(c, k),
         NEW i \in 1 .. Len(s), Find(k) = s[i], entry[s[i]].key = k
  PROVE  Map!Lookup(c, k)
<1>1. StructInv(s) /\ TypeOK /\ s \in Seq(Entries) /\ Distinct(s) /\ calls[c] \in Calls
  BY CoreFacts
<1>2. PICK t : t = Pushed(Removed(s, i), s[i])
  OBVIOUS
<1>3. Core(t)' /\ entry' = entry
  BY <1>2, HitCore DEF Lookup
<1>4. Listed(t) = Listed(s)
  <2>1. /\ Removed(s, i) \in Seq(Entries) /\ Distinct(Removed(s, i))
        /\ Listed(Removed(s, i)) = Listed(s) \ {s[i]}
    BY <1>1, RemovedSound
  <2>2. s[i] \in Entries
    BY <1>1
  <2>3. Listed(t) = (Listed(s) \ {s[i]}) \cup {s[i]}
    BY <1>2, <2>1, <2>2, PushedSound
  <2>4. s[i] \in Listed(s)
    BY DEF Listed
  <2>5. QED
    BY <2>3, <2>4
<1>5. Stored' = Stored
  BY <1>3, <1>4, StoredKept
<1>6. /\ s[i] \in Listed(s) /\ s[i] \in Entries /\ entry[s[i]] # NULL /\ s[i] # NULL
  BY <1>1, ChainEntries, CacheAssumption
<1>7. Stored[k] = entry[s[i]].snap
  BY <1>6, StoredSound DEF Maps, Apart
<1> DEFINE new == [calls[c] EXCEPT !.held = {entry[s[i]].snap}, !.found = <<k, entry[s[i]].snap>>]
<1>8. CallChanged(c, new)
  BY <1>1, <1>6, HitCall DEF Lookup
<1>9. new.found = <<k, entry[s[i]].snap>>
  BY <1>1 DEF Calls
<1> HIDE DEF new
<1>10. Told' = [Told EXCEPT ![c] = <<k, Stored[k]>>]
  <2>1. Told' = [Told EXCEPT ![c] = new.found]
    BY <1>8, ToldChanged
  <2>2. new.found = <<k, Stored[k]>>
    BY <1>7, <1>9
  <2>3. QED
    BY <2>1, <2>2
<1>11. QED
  BY <1>5, <1>10 DEF Map!Lookup, Told

LEMMA MissMapped ==
  ASSUME NEW s, Core(s), NEW c \in Clients, NEW k \in Keys, Lookup(c, k), Find(k) = NULL,
         \A e \in Listed(s) : entry[e].key # k
  PROVE  Map!Lookup(c, k)
<1>1. TypeOK /\ calls[c] \in Calls
  BY CoreFacts
<1>2. Core(s)' /\ entry' = entry
  BY MissCore
<1>3. Stored' = Stored
  BY <1>2, StoredKept
<1>4. Stored[k] = NULL
  BY StoredSound DEF Maps
<1> DEFINE new == [calls[c] EXCEPT !.found = <<k, NULL>>]
<1>5. CallChanged(c, new)
  BY <1>1, MissCall DEF Lookup
<1>6. new.found = <<k, NULL>>
  BY <1>1 DEF Calls
<1> HIDE DEF new
<1>7. Told' = [Told EXCEPT ![c] = <<k, Stored[k]>>]
  BY <1>4, <1>5, <1>6, ToldChanged
<1>8. QED
  BY <1>3, <1>7 DEF Map!Lookup, Told

LEMMA GoOnMapped ==
  ASSUME NEW s, Core(s), NEW c \in Clients, NEW x \in Snapshots, Create(c, x) \/ Release(c, x)
  PROVE  Map!GoOn(c)
<1>1. TypeOK /\ calls[c] \in Calls
  BY CoreFacts
<1>2. Core(s)' /\ entry' = entry
  BY CreateCore, ReleaseCore DEF Create, Release
<1>3. Stored' = Stored
  BY <1>2, StoredKept
<1>4. Told' = [Told EXCEPT ![c] = <<>>]
  <2>1. CASE Create(c, x)
    <3> DEFINE new == [calls[c] EXCEPT !.held = calls[c].held \cup {x}, !.fresh = x, !.found = <<>>]
    <3>1. CallChanged(c, new)
      BY <1>1, <2>1, CreateCall
    <3>2. new.found = <<>>
      BY <1>1 DEF Calls
    <3> HIDE DEF new
    <3>3. QED
      BY <3>1, <3>2, ToldChanged
  <2>2. CASE Release(c, x)
    <3> DEFINE new == [calls[c] EXCEPT !.held = calls[c].held \ {x}, !.found = <<>>,
                                       !.fresh = IF calls[c].fresh = x THEN NULL ELSE calls[c].fresh]
    <3>1. CallChanged(c, new)
      BY <1>1, <2>2, ReleaseCall
    <3>2. new.found = <<>>
      BY <1>1 DEF Calls
    <3> HIDE DEF new
    <3>3. QED
      BY <3>1, <3>2, ToldChanged
  <2>3. QED
    BY <2>1, <2>2
<1>5. QED
  BY <1>3, <1>4 DEF Map!GoOn, Told

\* The steps that no procedure notices.
LEMMA QuietMapped ==
  ASSUME NEW s, Core(s), NEW c \in Clients,
         InsertTooLarge(c) \/ InsertReturn(c) \/ \E k \in Keys : InsertBegin(c, k)
  PROVE  UNCHANGED Map!vars
<1>1. StructInv(s) /\ TypeOK /\ calls[c] \in Calls
  BY CoreFacts
<1>2. Core(s)' /\ \A e \in Listed(s) : entry'[e] = entry[e]
  <2>1. CASE InsertTooLarge(c)
    BY <2>1, TooLargeCore DEF InsertTooLarge
  <2>2. CASE InsertReturn(c)
    BY <2>2, ReturnCore
  <2>3. ASSUME NEW k \in Keys, InsertBegin(c, k)
        PROVE  Core(s)' /\ \A e \in Listed(s) : entry'[e] = entry[e]
    <3>1. Core(s)' /\ \A f \in Entries : entry[f] # NULL => entry'[f] = entry[f]
      BY <2>3, BeginCore
    <3>2. \A e \in Listed(s) : e \in Entries /\ entry[e] # NULL
      BY <1>1, ChainEntries, CacheAssumption
    <3>3. QED
      BY <3>1, <3>2
  <2>4. QED
    BY <2>1, <2>2, <2>3
<1>3. Stored' = Stored
  BY <1>2, StoredKept
<1>4. Told' = Told
  <2>1. CASE InsertTooLarge(c)
    <3> DEFINE new == [calls[c] EXCEPT !.fresh = NULL]
    <3>1. CallChanged(c, new) /\ new.found = calls[c].found
      BY <1>1, <2>1, TooLargeCall DEF Calls
    <3> HIDE DEF new
    <3>2. QED
      BY <3>1, ToldKept
  <2>2. CASE InsertReturn(c)
    <3> DEFINE new == [calls[c] EXCEPT !.at = "ready", !.existing = NULL]
    <3>1. CallChanged(c, new)
      BY <1>1, <2>2, ReturnCall
    <3>2. new.found = calls[c].found
      BY <1>1 DEF Calls
    <3> HIDE DEF new
    <3>3. QED
      BY <3>1, <3>2, ToldKept
  <2>3. ASSUME NEW k \in Keys, InsertBegin(c, k) PROVE Told' = Told
    <3>1. PICK e \in Entries :
            calls' = [calls EXCEPT ![c].at = "lock", ![c].fresh = NULL, ![c].created = e]
      BY <2>3 DEF InsertBegin
    <3> DEFINE new == [calls[c] EXCEPT !.at = "lock", !.fresh = NULL, !.created = e]
    <3>2. CallChanged(c, new)
      BY <1>1, <3>1, BeginCall
    <3>3. new.found = calls[c].found
      BY <1>1 DEF Calls
    <3> HIDE DEF new
    <3>4. QED
      BY <3>2, <3>3, ToldKept
  <2>4. QED
    BY <2>1, <2>2, <2>3
<1>5. QED
  BY <1>3, <1>4 DEF Map!vars, Told

\* Entries that leave the chain drop their keys from the map.
LEMMA LockMapped ==
  ASSUME NEW s, Core(s), NEW c \in Clients, InsertLock(c),
         NEW x, x = Find(entry[calls[c].created].key), NEW t, Without(c, s, x, t)
  PROVE  [Map!Next]_(Map!vars)
<1>1. StructInv(s) /\ TypeOK /\ calls[c] \in Calls /\ s \in Seq(Entries) /\ Distinct(s)
  BY CoreFacts
<1>2. Core(t)' /\ entry' = entry
  BY LockCore
<1>3. x \in Entries \cup {NULL}
  <2>1. \A i \in 1 .. Len(s) : s[i] \in Entries
    BY <1>1
  <2>2. QED
    BY <2>1 DEF Without
<1>4. Told' = Told
  <2> DEFINE new == [calls[c] EXCEPT !.at = "evict", !.existing = x]
  <2>1. calls' = [calls EXCEPT ![c].at = "evict", ![c].existing = x]
    BY DEF InsertLock
  <2>2. CallChanged(c, new)
    BY <1>1, <1>3, <2>1, LockCall
  <2>3. new.found = calls[c].found
    BY <1>1 DEF Calls
  <2> HIDE DEF new
  <2>4. QED
    BY <2>2, <2>3, ToldKept
<1>5. CASE t = s
  <2>1. Stored' = Stored
    BY <1>2, <1>5, StoredKept
  <2>2. QED
    BY <1>4, <2>1 DEF Map!vars, Told
<1>6. ASSUME NEW i \in 1 .. Len(s), t = Removed(s, i) PROVE [Map!Next]_(Map!vars)
  <2>1. Listed(t) = Listed(s) \ {s[i]} /\ s[i] \in Listed(s)
    BY <1>1, <1>6, RemovedSound, ChainEntries
  <2>2. entry[s[i]].key \in Keys
    BY <1>1, <2>1, ChainEntries DEF EntryRecords
  <2> DEFINE D == {entry[s[i]].key}
  <2>3. \A e \in Listed(s) : e \in Listed(t) <=> entry[e].key \notin D
    BY <1>1, <2>1 DEF StructInv, KeysApart
  <2> HIDE DEF D
  <2>4. Stored' = [k \in Keys |-> IF k \in D THEN NULL ELSE Stored[k]]
    BY <1>2, <2>1, <2>3, StoredDropped
  <2>5. D \in SUBSET Keys
    BY <2>2 DEF D
  <2>6. Map!Drop(D)
    BY <1>4, <2>4 DEF Map!Drop, Told
  <2>7. QED
    BY <2>5, <2>6 DEF Map!Next
<1>7. QED
  BY <1>5, <1>6 DEF Without

LEMMA EvictMapped ==
  ASSUME NEW s, Core(s), NEW c \in Clients, InsertEvict(c)
  PROVE  Map!Next
<1>1. StructInv(s) /\ s \in Seq(Entries) /\ Distinct(s)
  BY CoreFacts
<1>2. PICK t : t = Removed(s, Len(s))
  OBVIOUS
<1>3. /\ Core(t)' /\ UNCHANGED calls /\ s # <<>> /\ list.oldest = s[Len(s)]
      /\ \A f \in Entries : f # list.oldest => entry'[f] = entry[f]
  BY <1>2, EvictCore
<1>4. PICK i \in 1 .. Len(s) : i = Len(s)
  BY <1>1, <1>3, ChainEntries
<1>5. Listed(t) = Listed(s) \ {s[i]} /\ s[i] \in Listed(s)
  <2>1. t = Removed(s, i)
    BY <1>2, <1>4
  <2>2. Listed(t) = Listed(s) \ {s[i]}
    BY <1>1, <2>1, RemovedSound
  <2>3. s[i] \in Listed(s)
    BY DEF Listed
  <2>4. QED
    BY <2>2, <2>3
<1>6. entry[s[i]].key \in Keys
  BY <1>1, <1>5, ChainEntries DEF EntryRecords
<1> DEFINE D == {entry[s[i]].key}
<1>7. \A e \in Listed(s) : e \in Listed(t) <=> entry[e].key \notin D
  BY <1>1, <1>5 DEF StructInv, KeysApart
<1>8. \A e \in Listed(t) : entry'[e] = entry[e]
  BY <1>1, <1>3, <1>4, <1>5, ChainEntries
<1> HIDE DEF D
<1>9. Stored' = [k \in Keys |-> IF k \in D THEN NULL ELSE Stored[k]]
  BY <1>3, <1>5, <1>7, <1>8, StoredDropped
<1>10. D \in SUBSET Keys
  BY <1>6 DEF D
<1>11. Map!Drop(D)
  BY <1>3, <1>9 DEF Map!Drop
<1>12. QED
  BY <1>10, <1>11 DEF Map!Next

\* The entry that is linked puts its snapshot under its key.
LEMMA LinkMapped ==
  ASSUME NEW s, Core(s), NEW c \in Clients, InsertLink(c)
  PROVE  Map!Next
<1>1. StructInv(s) /\ TypeOK /\ calls[c] \in Calls /\ s \in Seq(Entries) /\ Distinct(s)
  BY CoreFacts
<1>2. PICK x : x = calls[c].created
  OBVIOUS
<1>3. PICK t : t = Pushed(s, x)
  OBVIOUS
<1>4. /\ Core(t)' /\ entry' = entry /\ x \in Entries /\ x \notin Listed(s)
      /\ entry[x] \in EntryRecords
  BY <1>2, <1>3, LinkCore
<1>5. Listed(t) = Listed(s) \cup {x}
  BY <1>1, <1>3, <1>4, PushedSound
<1>6. entry[x].key \in Keys /\ entry[x].snap \in Snapshots
  BY <1>4 DEF EntryRecords
<1>7. Stored' = [Stored EXCEPT ![entry[x].key] = entry[x].snap]
  <2>1. PICK n, m, old : n = Stored' /\ m = Stored /\ old = entry
    OBVIOUS
  <2>2. Maps(m, old, Listed(s))
    BY <2>1, StoredSound
  <2>3. Maps(n, old, Listed(s) \cup {x}) /\ Apart(old, Listed(s) \cup {x})
    BY <1>4, <1>5, <2>1, StoredAfter
  <2>4. n = [m EXCEPT ![old[x].key] = old[x].snap]
    BY <1>4, <1>6, <2>1, <2>2, <2>3, MapPut
  <2>5. QED
    BY <2>1, <2>4
<1>8. Told' = Told
  <2> DEFINE new == [calls[c] EXCEPT !.at = "free", !.created = NULL]
  <2>1. CallChanged(c, new)
    BY <1>1, LinkCall
  <2>2. new.found = calls[c].found
    BY <1>1 DEF Calls
  <2> HIDE DEF new
  <2>3. QED
    BY <2>1, <2>2, ToldKept
<1>9. Map!Put(entry[x].key, entry[x].snap)
  BY <1>7, <1>8 DEF Map!Put, Told
<1>10. QED
  BY <1>6, <1>9 DEF Map!Next

LEMMA ReloadMapped ==
  ASSUME NEW s, Core(s), Reload
  PROVE  Map!Next
<1>1. PICK t : t = <<>>
  OBVIOUS
<1>2. Core(t)' /\ UNCHANGED calls
  BY <1>1, ReloadCore
<1>3. Listed(t) = {}
  BY <1>1, EmptyChain
<1>4. \A e \in Listed(s) : entry[e].key \in Keys
  BY CoreFacts, ChainEntries DEF EntryRecords
<1>5. Stored' = [k \in Keys |-> IF k \in Keys THEN NULL ELSE Stored[k]]
  BY <1>2, <1>3, <1>4, StoredDropped
<1>6. Map!Drop(Keys)
  BY <1>2, <1>5 DEF Map!Drop
<1>7. QED
  BY <1>6 DEF Map!Next

LEMMA MapInit == Init => Map!Init
<1> SUFFICES ASSUME Init PROVE Map!Init
  OBVIOUS
<1>1. PICK t : t = <<>>
  OBVIOUS
<1>2. Core(t) /\ Listed(t) = {}
  BY <1>1, InitCore, EmptyChain
<1>3. Maps(Stored, entry, {})
  BY <1>2, StoredSound
<1>4. Stored = [k \in Keys |-> NULL]
  BY <1>3 DEF Maps
<1>5. Told = [c \in Clients |-> <<>>]
  BY DEF Init, Told, Idle
<1>6. QED
  BY <1>4, <1>5 DEF Map!Init, Told

LEMMA MapStep == CacheInv /\ [Next]_vars => [Map!Next]_(Map!vars)
<1> SUFFICES ASSUME CacheInv, [Next]_vars PROVE [Map!Next]_(Map!vars)
  OBVIOUS
<1>1. PICK s \in Seq(Entries) : CacheAt(s)
  BY DEF CacheInv
<1>2. Core(s) /\ StructInv(s)
  BY <1>1, CoreFacts DEF CacheAt
<1>3. CASE Reload
  BY <1>2, <1>3, ReloadMapped
<1>4. CASE UNCHANGED vars
  BY <1>4 DEF vars, Map!vars, Stored, Linked
<1>5. ASSUME NEW c \in Clients, Procedure(c) PROVE [Map!Next]_(Map!vars)
  <2>1. ASSUME NEW k \in Keys, Lookup(c, k) PROVE Map!Next
    <3>1. Map!Lookup(c, k)
      BY <1>2, <2>1, FindSound, HitMapped, MissMapped, ChainEntries
    <3>2. QED
      BY <3>1 DEF Map!Next
  <2>2. ASSUME NEW x \in Snapshots, Create(c, x) \/ Release(c, x) PROVE Map!Next
    <3>1. Map!GoOn(c)
      BY <1>2, <2>2, GoOnMapped
    <3>2. QED
      BY <3>1 DEF Map!Next
  <2>3. CASE InsertTooLarge(c) \/ InsertReturn(c) \/ \E k \in Keys : InsertBegin(c, k)
    BY <1>2, <2>3, QuietMapped
  <2>4. CASE InsertLock(c)
    <3>1. PICK x : x = Find(entry[calls[c].created].key)
      OBVIOUS
    <3>2. \E t : Without(c, s, x, t)
      <4>1. CASE x = NULL /\ \A e \in Listed(s) : entry[e].key # entry[calls[c].created].key
        BY <4>1 DEF Without
      <4>2. ASSUME NEW i \in 1 .. Len(s), x = s[i], entry[s[i]].key = entry[calls[c].created].key
            PROVE  \E t : Without(c, s, x, t)
        <5>1. PICK t : t = Removed(s, i)
          OBVIOUS
        <5>2. Without(c, s, x, t)
          BY <4>2, <5>1 DEF Without
        <5>3. QED
          BY <5>2
      <4>3. QED
        BY <1>2, <3>1, <4>1, <4>2, FindSound
    <3>3. PICK t : Without(c, s, x, t)
      BY <3>2
    <3>4. QED
      BY <1>2, <2>4, <3>1, <3>3, LockMapped
  <2>5. CASE InsertEvict(c)
    BY <1>2, <2>5, EvictMapped
  <2>6. CASE InsertLink(c)
    BY <1>2, <2>6, LinkMapped
  <2>7. QED
    BY <1>5, <2>1, <2>2, <2>3, <2>4, <2>5, <2>6 DEF Procedure, Insertion
<1>6. QED
  BY <1>3, <1>4, <1>5 DEF Next

\* To the procedures the list is a map: a lookup finds the snapshot that was put
\* last under its key, or nothing when the cache dropped it.
THEOREM CacheImplementsKeyed == Spec => ImplementsKeyed
<1>1. Init => Map!Init
  BY MapInit
<1>2. CacheInv /\ [Next]_vars => [Map!Next]_(Map!vars)
  BY MapStep
<1>3. QED
  BY <1>1, <1>2, CacheInvAlways, PTL DEF Spec, ImplementsKeyed, Map!Spec

=============================================================================
