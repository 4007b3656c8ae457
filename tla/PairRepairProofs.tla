-------------------------- MODULE PairRepairProofs --------------------------
(***************************************************************************)
(* Proofs about the repair of pair records, for every automaton, batch of  *)
(* changes and budget: its type invariant, that it leaves no record        *)
(* resting on a lost distance, that it never ends in SG_ERR_INVALID_MODEL, *)
(* that the budget bounds what it replaces, that what it publishes can be  *)
(* restored and replayed, and that it is exact unless a pair was skipped.  *)
(*                                                                         *)
(* The last part is about the oracle that repair begins with, PairOracle:  *)
(* that the queue never reaches its end, that a build finds the shortest   *)
(* words, and that what restore accepts can be replayed.                   *)
(***************************************************************************)
EXTENDS PairRepair, PairOracle, PairGraphProofs

-----------------------------------------------------------------------------
(* Evaluating a pair. *)

\* The distance over one arc is a distance.
LEMMA ArcDistanceType ==
  ASSUME NEW aut \in Automata, NEW obj, NEW recs \in [Pairs -> Records],
         NEW p \in Pairs, NEW a \in Actions
  PROVE  ArcDistance(aut, obj, recs, p, a) \in Distances
<1>1. Target(aut, p, a) \in Pairs
  BY TargetType
<1>2. recs[Target(aut, p, a)].dist \in Distances
  BY <1>1 DEF Records
<1>3. QED
  BY <1>2 DEF ArcDistance, Distances, None

\* When some arc reaches the objective, one of them is best.
LEMMA BestExists ==
  ASSUME NEW aut \in Automata, NEW obj, NEW recs \in [Pairs -> Records],
         NEW p \in Pairs, NEW b \in Actions,
         ArcDistance(aut, obj, recs, p, b) # None
  PROVE  Best(aut, obj, recs, p) # {}
<1> DEFINE D(a) == ArcDistance(aut, obj, recs, p, a)
           S == {D(a) : a \in {c \in Actions : D(c) # None}}
<1>1. \A a \in Actions : D(a) \in Distances
  BY ArcDistanceType
<1>2. D(b) # None
  OBVIOUS
<1> HIDE DEF D
<1>3. S \subseteq Nat /\ S # {}
  BY <1>1, <1>2 DEF Distances
<1>4. PICK x \in S : \A y \in S : x <= y
  BY <1>3, LeastNatural
<1>5. PICK a \in Actions : D(a) # None /\ x = D(a)
  BY <1>4
<1>6. ASSUME NEW c \in Actions PROVE ~Closer(D(c), D(a))
  <2>1. CASE D(c) = None
    BY <2>1 DEF Closer
  <2>2. CASE D(c) # None
    <3>1. D(c) \in S /\ D(c) \in Nat /\ D(a) \in Nat
      BY <1>1, <1>5, <2>2 DEF Distances
    <3>2. D(a) <= D(c)
      BY <1>4, <1>5, <3>1
    <3>3. QED
      BY <1>5, <3>1, <3>2 DEF Closer
  <2>3. QED
    BY <2>1, <2>2
<1>7. a \in Best(aut, obj, recs, p)
  BY <1>5, <1>6 DEF Best, D
<1>8. QED
  BY <1>7

\* The evaluated record is a record, and no arc is closer than it.
LEMMA EvaluateFits ==
  ASSUME NEW aut \in Automata, NEW obj, NEW recs \in [Pairs -> Records],
         NEW p \in Pairs
  PROVE  LET new == Evaluate(aut, obj, recs, p)
             D(a) == ArcDistance(aut, obj, recs, p, a)
         IN /\ new \in Records
            /\ p \in Diagonal => new.dist = 0
            /\ p \notin Diagonal =>
                 /\ new.dist # None => \E a \in Actions : D(a) = new.dist
                 /\ \A a \in Actions : ~Closer(D(a), new.dist)
<1> DEFINE new == Evaluate(aut, obj, recs, p)
           D(a) == ArcDistance(aut, obj, recs, p, a)
           best == Best(aut, obj, recs, p)
           act == CHOOSE a \in best : \A b \in best : a <= b
<1>1. CASE p \in Diagonal
  BY <1>1, PlainRecords DEF Evaluate
<1>2. CASE p \notin Diagonal /\ best = {}
  <2>1. new = Unreached
    BY <1>2 DEF Evaluate
  <2>2. \A a \in Actions : D(a) = None
    BY <1>2, BestExists
  <2>3. QED
    BY <1>2, <2>1, <2>2, PlainRecords DEF Closer
<1>3. CASE p \notin Diagonal /\ best # {}
  <2>1. best \subseteq Actions
    BY DEF Best
  <2>2. act \in best
    <3> HIDE DEF best
    <3>1. QED
      BY <1>3, <2>1, FirstAction
  <2>3. act \in Actions /\ Cardinality(best) \in Nat
    BY <2>1, <2>2, CountNat
  <2>4. D(act) \in Distances /\ Target(aut, p, act) \in Pairs
    BY <2>3, ArcDistanceType, TargetType
  <2>5. new = [dist |-> D(act), act |-> act,
               next |-> IF Terminal(aut, obj, p, act) THEN NoPair
                        ELSE Target(aut, p, act),
               sup |-> Cardinality(best)]
    BY <1>3 DEF Evaluate
  <2>6. \A a \in Actions : ~Closer(D(a), D(act))
    BY <2>2 DEF Best
  <2> HIDE DEF new, D, act, best
  <2>7. new \in Records /\ new.dist = D(act)
    BY <2>3, <2>4, <2>5 DEF Records
  <2>8. QED
    BY <1>3, <2>3, <2>6, <2>7 DEF new, D
<1>4. QED
  BY <1>1, <1>2, <1>3

\* A distance d of a pair holds when some arc is at most as long.
Holds(aut, obj, recs, p, d) ==
  \/ d = None \/ p \in Diagonal
  \/ \E a \in Actions : /\ ArcDistance(aut, obj, recs, p, a) # None
                        /\ ArcDistance(aut, obj, recs, p, a) <= d

\* A record is stale when it is closer than every arc of its pair.
Stale(aut, obj, recs, p) ==
  Closer(recs[p].dist, Evaluate(aut, obj, recs, p).dist)

Supported(aut, obj, recs) == \A p \in Pairs : ~Stale(aut, obj, recs, p)

\* A distance holds exactly when it is not closer than the evaluated record.
LEMMA HoldsCloser ==
  ASSUME NEW aut \in Automata, NEW obj, NEW recs \in [Pairs -> Records],
         NEW p \in Pairs, NEW d \in Distances
  PROVE  Holds(aut, obj, recs, p, d)
           <=> ~Closer(d, Evaluate(aut, obj, recs, p).dist)
<1> DEFINE e == Evaluate(aut, obj, recs, p).dist
           D(a) == ArcDistance(aut, obj, recs, p, a)
<1>1. e \in Distances
  BY EvaluateFits DEF Records
<1>2. \A a \in Actions : D(a) \in Distances
  BY ArcDistanceType
<1>3. CASE p \in Diagonal
  <2>1. e = 0
    BY <1>3, EvaluateFits
  <2>2. ~Closer(d, 0)
    BY DEF Closer, Distances, None
  <2>3. QED
    BY <1>3, <2>1, <2>2 DEF Holds
<1>4. CASE p \notin Diagonal
  <2>1. /\ e # None => \E a \in Actions : D(a) = e
        /\ \A a \in Actions : ~Closer(D(a), e)
    BY <1>4, EvaluateFits
  <2>2. Holds(aut, obj, recs, p, d) <=>
          d = None \/ \E a \in Actions : D(a) # None /\ D(a) <= d
    BY <1>4 DEF Holds
  <2> HIDE DEF e, D
  <2>3. ASSUME NEW a \in Actions, D(a) # None, D(a) <= d, d # None
        PROVE  ~Closer(d, e)
    <3>1. ~Closer(D(a), e)
      BY <2>1
    <3>2. QED
      BY <1>1, <1>2, <2>3, <3>1 DEF Closer, Distances
  <2>4. ASSUME ~Closer(d, e), d # None
        PROVE  \E a \in Actions : D(a) # None /\ D(a) <= d
    <3>1. e # None /\ e <= d
      BY <1>1, <2>4 DEF Closer, Distances
    <3>2. QED
      BY <2>1, <3>1
  <2>5. QED
    BY <2>2, <2>3, <2>4 DEF e, Closer
<1>5. QED
  BY <1>3, <1>4

\* The records of one objective after a batch was written.
Written(aut, obj, recs, S, lost) ==
  [p \in Pairs |-> IF p \in lost THEN Unreached
                   ELSE IF p \in S THEN Evaluate(aut, obj, recs, p)
                   ELSE recs[p]]

\* Writing a batch keeps the types of the records.
LEMMA WrittenType ==
  ASSUME NEW aut \in Automata, NEW obj, NEW recs \in [Pairs -> Records],
         NEW S, NEW lost
  PROVE  Written(aut, obj, recs, S, lost) \in [Pairs -> Records]
  BY EvaluateFits, PlainRecords DEF Written

\* A batch writes new records for its pairs and makes those unreachable whose
\* distance grew.  A record that is stale afterwards is of a pair with an arc
\* into a lost one, or was stale before and is not of the batch.
LEMMA Batch ==
  ASSUME NEW aut \in Automata, NEW obj, NEW recs \in [Pairs -> Records],
         NEW S, NEW lost,
         lost = {q \in S : Closer(recs[q].dist,
                                  Evaluate(aut, obj, recs, q).dist)},
         NEW p \in Pairs,
         Stale(aut, obj, Written(aut, obj, recs, S, lost), p),
         p \in S \/ ~Stale(aut, obj, recs, p)
  PROVE  p \in Predecessors(aut, lost)
<1> DEFINE after == Written(aut, obj, recs, S, lost)
           d == after[p].dist
<1>1. after \in [Pairs -> Records]
  BY WrittenType
<1>2. \A q \in Pairs : after[q] = IF q \in lost THEN Unreached
                                  ELSE IF q \in S
                                  THEN Evaluate(aut, obj, recs, q)
                                  ELSE recs[q]
  BY DEF Written
<1>3. Stale(aut, obj, after, p)
  OBVIOUS
<1> HIDE DEF after
<1>4. d \in Distances /\ \A q \in Pairs : after[q].dist \in Distances
                                          /\ recs[q].dist \in Distances
  BY <1>1 DEF Records
<1>5. ~Holds(aut, obj, after, p, d)
  BY <1>1, <1>3, <1>4, HoldsCloser DEF Stale
<1>6. d # None /\ p \notin Diagonal
  BY <1>5 DEF Holds
<1>7. p \notin lost
  BY <1>2, <1>6, PlainRecords
<1>8. Holds(aut, obj, recs, p, d)
  <2>1. CASE p \in S
    <3>1. d = Evaluate(aut, obj, recs, p).dist
      BY <1>2, <1>7, <2>1
    <3>2. ~Closer(d, d)
      BY <1>4 DEF Closer, Distances
    <3>3. QED
      BY <1>4, <3>1, <3>2, HoldsCloser
  <2>2. CASE p \notin S
    <3>1. d = recs[p].dist
      BY <1>2, <1>7, <2>2
    <3>2. ~Closer(d, Evaluate(aut, obj, recs, p).dist)
      BY <2>2, <3>1 DEF Stale
    <3>3. QED
      BY <1>4, <3>2, HoldsCloser
  <2>3. QED
    BY <2>1, <2>2
<1>9. PICK a \in Actions : /\ ArcDistance(aut, obj, recs, p, a) # None
                           /\ ArcDistance(aut, obj, recs, p, a) <= d
  BY <1>6, <1>8 DEF Holds
<1>10. ~(/\ ArcDistance(aut, obj, after, p, a) # None
         /\ ArcDistance(aut, obj, after, p, a) <= d)
  BY <1>5 DEF Holds
<1> DEFINE q == Target(aut, p, a)
<1>11. q \in Pairs
  BY TargetType
<1>12. ~Terminal(aut, obj, p, a)
  BY <1>9, <1>10 DEF ArcDistance
<1>13. recs[q].dist # None /\ recs[q].dist + 1 <= d
  BY <1>9, <1>12 DEF ArcDistance
<1>14. after[q].dist = None \/ ~(after[q].dist + 1 <= d)
  <2>1. after[q].dist # None => after[q].dist + 1 # None
    BY <1>4, <1>11 DEF Distances, None
  <2>2. QED
    BY <1>10, <1>12, <2>1 DEF ArcDistance
<1>15. q \in lost
  <2> SUFFICES ASSUME q \notin lost PROVE FALSE
    OBVIOUS
  <2>1. q \in S
    BY <1>2, <1>11, <1>13, <1>14
  <2>2. after[q].dist = Evaluate(aut, obj, recs, q).dist
    BY <1>2, <1>11, <2>1
  <2>3. ~Closer(recs[q].dist, after[q].dist)
    BY <2>1, <2>2
  <2> HIDE DEF q
  <2>4. after[q].dist # None /\ after[q].dist <= recs[q].dist
    BY <1>4, <1>11, <1>13, <2>3 DEF Closer, Distances
  <2>5. QED
    BY <1>4, <1>6, <1>11, <1>13, <1>14, <2>4 DEF Distances
<1>16. QED
  BY <1>15 DEF Predecessors

\* The exact oracle is made of records, and none of them is stale.
LEMMA ExactSupported ==
  ASSUME NEW aut \in Automata
  PROVE  /\ ExactOracle(aut) \in [Objectives -> [Pairs -> Records]]
         /\ \A obj \in Objectives : Supported(aut, obj, ExactOracle(aut)[obj])
<1>1. ExactOracle(aut) \in [Objectives -> [Pairs -> Records]]
  BY ExactRecordsFit DEF ExactOracle
<1>2. ASSUME NEW obj \in Objectives, NEW p \in Pairs
      PROVE  ~Stale(aut, obj, ExactOracle(aut)[obj], p)
  <2> DEFINE recs == ExactRecords(aut, obj)
             dist == ExactDistances(aut, obj)
  <2>1. ExactOracle(aut)[obj] = recs
    BY DEF ExactOracle
  <2>2. recs \in [Pairs -> Records] /\ \A q \in Pairs : recs[q].dist = dist[q]
    BY ExactRecordsFit
  <2>3. dist[p] \in Distances
    BY ExactDistanceIn
  <2>4. ASSUME dist[p] # None, p \notin Diagonal
        PROVE  \E a \in Actions : /\ ArcDistance(aut, obj, recs, p, a) # None
                                  /\ ArcDistance(aut, obj, recs, p, a) <= dist[p]
    <3>1. PICK a \in Actions :
            \/ dist[p] = 1 /\ Terminal(aut, obj, p, a)
            \/ /\ ~Terminal(aut, obj, p, a)
               /\ dist[Target(aut, p, a)] = dist[p] - 1
               /\ dist[Target(aut, p, a)] \in Nat
      BY <2>4, ExactAttained
    <3>2. Target(aut, p, a) \in Pairs
      BY TargetType
    <3> DEFINE e == dist[Target(aut, p, a)]
    <3>3. recs[Target(aut, p, a)].dist = e
      BY <2>2, <3>2
    <3>4. dist[p] \in Nat
      BY <2>3, <2>4 DEF Distances
    <3> HIDE DEF recs, dist
    <3>5. ArcDistance(aut, obj, recs, p, a) = dist[p]
      <4>1. CASE Terminal(aut, obj, p, a)
        BY <3>1, <4>1 DEF ArcDistance
      <4>2. CASE ~Terminal(aut, obj, p, a)
        <5>1. e \in Nat /\ e = dist[p] - 1
          BY <3>1, <4>2
        <5> HIDE DEF e
        <5>2. e # None /\ e + 1 = dist[p]
          BY <3>4, <5>1 DEF None
        <5>3. QED
          BY <3>3, <4>2, <5>2 DEF ArcDistance
      <4>3. QED
        BY <4>1, <4>2
    <3>6. QED
      BY <2>4, <3>4, <3>5
  <2>5. Holds(aut, obj, recs, p, recs[p].dist)
    BY <2>2, <2>4 DEF Holds
  <2>6. QED
    BY <2>1, <2>2, <2>3, <2>5, HoldsCloser DEF Stale
<1>3. QED
  BY <1>1, <1>2 DEF Supported

\* A batch of the repair is written into the records of the objective.
LEMMA WriteWritten ==
  ASSUME NEW S, NEW lost, Write(S, lost)
  PROVE  work' = [work EXCEPT ![objective] =
                    Written(candidate, objective, work[objective], S, lost)]
  BY DEF Write, Written, New, Old

\* Writing a batch keeps the type of the candidate's records.
LEMMA WriteType ==
  ASSUME TypeOK, NEW S, NEW lost, Write(S, lost)
  PROVE  work' \in [Objectives -> [Pairs -> Records]]
<1>1. Written(candidate, objective, work[objective], S, lost)
        \in [Pairs -> Records]
  BY WrittenType DEF TypeOK
<1>2. QED
  BY <1>1, WriteWritten DEF TypeOK

-----------------------------------------------------------------------------
(* Type correctness. *)

\* What the work lists of a repair hold in its phases.
FlagsFit ==
  /\ heap \subseteq invalid \X Nat
  /\ phase = "invalidate" => finalized = {} /\ heap = {}
  /\ phase \in {"idle", "seed", "repaired", "bounded"} =>
       /\ invalid = {} /\ fresh = {} /\ queued = {} /\ finalized = {}
       /\ heap = {}

TypeInv == TypeOK /\ FlagsFit

\* The repair starts from a typed state.
LEMMA InitType == Init => TypeInv
<1> SUFFICES ASSUME Init PROVE TypeInv
  OBVIOUS
<1>1. automaton \in Automata
  BY RepairAssumption DEF Init
<1>2. records \in [Objectives -> [Pairs -> Records]]
  BY <1>1, ExactSupported DEF Init
<1>3. TypeOK
  BY <1>1, <1>2 DEF Init, TypeOK, Objectives, Distances
<1>4. QED
  BY <1>3 DEF Init, TypeInv, FlagsFit

\* An update that begins sets up a typed candidate.
LEMMA BeginType ==
  ASSUME TypeInv, BeginUpdate
  PROVE  TypeInv'
<1>1. PICK b \in Budgets, cells \in Batches :
        \E targets \in [cells -> States], outputs \in [cells -> Outputs] :
          Begin(cells, targets, outputs, b)
  BY DEF BeginUpdate
<1>2. PICK targets \in [cells -> States], outputs \in [cells -> Outputs] :
        Begin(cells, targets, outputs, b)
  BY <1>1
<1>3. candidate' \in Automata
  <2>1. automaton \in Automata
    BY DEF TypeInv, TypeOK
  <2>2. \A c \in Cells : /\ automaton.delta[c] \in States
                         /\ automaton.eta[c] \in Outputs
    BY <2>1 DEF Automata
  <2>3. QED
    BY <1>2, <2>2 DEF Begin, Changed, Automata
<1>4. seeds' \subseteq Pairs
  BY <1>2 DEF Begin, SeedPairs
<1>5. budget' \in Int
  <2>1. Cardinality(Pairs) \in Nat /\ b \in Int
    BY StepsNat, RepairAssumption
  <2>2. QED
    BY <1>2, <2>1 DEF Begin, RepairBudget
<1>6. /\ UNCHANGED <<published, objective, touched, flags, skipped>>
      /\ work' = records /\ changes' = changes + Cardinality(cells)
      /\ phase' \in {"bounded", "seed"} /\ phase = "idle"
  BY <1>2 DEF Begin, BeginUpdate
<1>7. QED
  BY <1>3, <1>4, <1>5, <1>6
  DEF TypeInv, TypeOK, FlagsFit, published, flags

\* So does every step of the repair.
LEMMA SeedType ==
  ASSUME TypeInv, SeedChanges
  PROVE  TypeInv'
<1>1. work' \in [Objectives -> [Pairs -> Records]]
  BY WriteType DEF TypeInv, SeedChanges
<1>2. SeedBatch \subseteq Pairs
  BY DEF TypeInv, TypeOK, SeedBatch
<1>3. QED
  BY <1>1, <1>2
  DEF TypeInv, TypeOK, FlagsFit, SeedChanges, Raised, Lowered, published

\* Invalidation keeps the types.
LEMMA InvalidateType ==
  ASSUME TypeInv, InvalidateDependents
  PROVE  TypeInv'
<1>1. work' \in [Objectives -> [Pairs -> Records]]
  BY WriteType DEF TypeInv, InvalidateDependents
<1>2. Dependents \subseteq Pairs
  BY DEF Dependents, Predecessors
<1>3. QED
  BY <1>1, <1>2
  DEF TypeInv, TypeOK, FlagsFit, InvalidateDependents, Raised, Lowered,
      published

\* The heap of the rebuild holds invalid pairs with distances.
LEMMA SeedHeapType ==
  ASSUME TypeInv, SeedHeap
  PROVE  TypeInv'
<1>1. \A p \in Pairs : New(p) \in Records
  BY EvaluateFits DEF TypeInv, TypeOK, New
<1>2. tentative' \in [Pairs -> Distances]
  BY <1>1 DEF TypeInv, TypeOK, SeedHeap, Records
<1>3. heap' \subseteq invalid \X Nat
  <2>1. \A p \in invalid : tentative'[p] # None => tentative'[p] \in Nat
    BY <1>2 DEF TypeInv, TypeOK, Distances
  <2>2. heap' = {<<p, tentative'[p]>> :
                   p \in {q \in invalid : tentative'[q] # None}}
    BY DEF SeedHeap
  <2>3. QED
    BY <2>1, <2>2
<1>4. QED
  BY <1>2, <1>3
  DEF TypeInv, TypeOK, FlagsFit, SeedHeap, published

\* The lowest distance on a heap that is not empty is a natural number.
LEMMA LowestNat ==
  ASSUME TypeInv, heap # {}
  PROVE  Lowest \in Nat /\ \A e \in heap : Lowest <= e[2]
<1> DEFINE D == {e[2] : e \in heap}
<1>1. D \subseteq Nat /\ D # {}
  BY DEF TypeInv, TypeOK
<1>2. \E d \in D : \A x \in D : d <= x
  BY <1>1, LeastNatural
<1>3. \E d \in D : \A e \in heap : d <= e[2]
  BY <1>2
<1>4. Lowest \in D /\ \A e \in heap : Lowest <= e[2]
  BY <1>3 DEF Lowest
<1>5. QED
  BY <1>1, <1>4

\* A step of the rebuild tries invalid pairs only, at natural distances, and
\* settles pairs that were not settled before.
LEMMA RebuildTries ==
  ASSUME TypeInv, RebuildStep
  PROVE  /\ finalized' \ finalized \subseteq
              {p \in invalid \ finalized : New(p).dist \in Nat}
         /\ \A p \in Pairs : tentative'[p] # tentative[p] =>
              p \in invalid /\ tentative'[p] \in Nat
<1>1. PICK d \in {Lowest} :
        /\ finalized' = finalized \cup {p \in Frontier(d) : New(p).dist = d}
        /\ tentative' = [p \in Pairs |-> Retried(p, finalized' \ finalized, d)]
  BY DEF RebuildStep
<1>2. d \in Nat
  BY <1>1, LowestNat DEF RebuildStep
<1>3. Frontier(d) \subseteq invalid \ finalized
  BY DEF Frontier, Popped, TypeInv, FlagsFit
<1>4. \A p \in Pairs : New(p) \in Records
  BY EvaluateFits DEF TypeInv, TypeOK, New
<1>5. ASSUME NEW p \in Pairs, tentative'[p] # tentative[p]
      PROVE  p \in invalid /\ tentative'[p] \in Nat
  <2> DEFINE settled == finalized' \ finalized
             tried == IF p \in Frontier(d) \ settled /\ New(p).dist # None
                      THEN New(p).dist ELSE tentative[p]
  <2>1. tentative'[p] = Retried(p, settled, d)
    BY <1>1
  <2>2. Relaxed(p, settled, d) \in Nat
    BY <1>2 DEF Relaxed
  <2>3. tentative'[p] = tried \/ (p \in invalid /\ tentative'[p] \in Nat)
    BY <2>1, <2>2 DEF Retried
  <2>4. tried = tentative[p] \/ (p \in invalid /\ tried \in Nat)
    BY <1>3, <1>4 DEF Records, Distances
  <2>5. QED
    BY <1>5, <2>3, <2>4
<1>6. finalized' \ finalized \subseteq
        {p \in invalid \ finalized : New(p).dist \in Nat}
  BY <1>1, <1>2, <1>3
<1>7. QED
  BY <1>5, <1>6

\* The rebuild keeps the types.
LEMMA RebuildType ==
  ASSUME TypeInv, RebuildStep
  PROVE  TypeInv'
<1>1. work' \in [Objectives -> [Pairs -> Records]]
  BY WriteType DEF TypeInv, RebuildStep
<1>2. PICK d \in {Lowest} :
        /\ finalized' = finalized \cup {p \in Frontier(d) : New(p).dist = d}
        /\ tentative' = [p \in Pairs |-> Retried(p, finalized' \ finalized, d)]
        /\ heap' = {e \in heap : e[2] # d} \cup
                   {<<p, tentative'[p]>> :
                      p \in {q \in Pairs : tentative'[q] # tentative[q]}}
        /\ skipped' = skipped \cup (Popped(d) \cap queued)
  BY DEF RebuildStep
<1>3. /\ finalized \subseteq finalized'
      /\ finalized' \subseteq invalid
  BY <1>2, RebuildTries DEF TypeInv, TypeOK
<1>4. tentative' \in [Pairs -> Distances]
  <2>1. \A p \in Pairs : tentative'[p] \in Distances
    BY RebuildTries DEF TypeInv, TypeOK, Distances
  <2>2. QED
    BY <1>2, <2>1
<1>5. heap' \subseteq invalid \X Nat
  <2>1. {e \in heap : e[2] # d} \subseteq invalid \X Nat
    BY DEF TypeInv, FlagsFit
  <2> DEFINE tried == {q \in Pairs : tentative'[q] # tentative[q]}
  <2>2. \A p \in tried : p \in invalid /\ tentative'[p] \in Nat
    BY RebuildTries
  <2>3. heap' = {e \in heap : e[2] # d} \cup {<<p, tentative'[p]>> : p \in tried}
    BY <1>2
  <2> HIDE DEF tried
  <2>4. {<<p, tentative'[p]>> : p \in tried} \subseteq invalid \X Nat
    BY <2>2
  <2>5. QED
    BY <2>1, <2>3, <2>4
<1>6. skipped' \subseteq Pairs /\ queued' \subseteq Pairs
  BY <1>2, <1>3 DEF TypeInv, TypeOK, RebuildStep
<1>7. invalid \subseteq Pairs
  BY DEF TypeInv, TypeOK
<1>8. QED
  BY <1>1, <1>3, <1>4, <1>5, <1>6, <1>7
  DEF TypeInv, TypeOK, FlagsFit, RebuildStep, published

\* Propagation keeps the types.
LEMMA PropagateType ==
  ASSUME TypeInv, PropagateDecreases
  PROVE  TypeInv'
<1>1. Followers \subseteq Pairs
  BY DEF Followers, Predecessors
<1>2. work' \in [Objectives -> [Pairs -> Records]]
  BY WriteType DEF TypeInv, TypeOK, PropagateDecreases
<1>3. /\ queued' \subseteq Pairs /\ touched' \subseteq Pairs
      /\ phase' \in {"propagate", "invalid_model"}
  BY <1>1 DEF TypeInv, TypeOK, PropagateDecreases, Lowered
<1>4. QED
  BY <1>2, <1>3
  DEF TypeInv, TypeOK, FlagsFit, PropagateDecreases, published

\* A repair that exceeds its budget leaves cleared work lists.
LEMMA ExceedType ==
  ASSUME TypeInv, NEW S, Exceed(S)
  PROVE  TypeInv'
<1>1. tentative' \in [Pairs -> Distances]
  BY DEF Exceed, ClearFlags, Distances
<1>2. QED
  BY <1>1
  DEF TypeInv, TypeOK, FlagsFit, Exceed, ClearFlags, published

\* Going on to the next objective, ending and publishing keep the types.
LEMMA EndType ==
  ASSUME TypeInv, RebuildDone \/ NextObjective \/ RepairDone \/ Publish
  PROVE  TypeInv'
<1>1. CASE RebuildDone
  BY <1>1 DEF TypeInv, TypeOK, FlagsFit, RebuildDone, published, flags
<1>2. CASE NextObjective
  <2>1. tentative' \in [Pairs -> Distances]
    BY <1>2 DEF NextObjective, ClearFlags, Distances
  <2>2. QED
    BY <1>2, <2>1
    DEF TypeInv, TypeOK, FlagsFit, NextObjective, ClearFlags, published,
        Objectives
<1>3. CASE RepairDone
  <2>1. tentative' \in [Pairs -> Distances]
    BY <1>3 DEF RepairDone, ClearFlags, Distances
  <2>2. QED
    BY <1>3, <2>1
    DEF TypeInv, TypeOK, FlagsFit, RepairDone, ClearFlags, published
<1>4. CASE PublishRepair
  BY <1>4
  DEF TypeInv, TypeOK, FlagsFit, PublishRepair, Reset, flags, Objectives
<1>5. CASE PublishRebuild
  <2>1. records' \in [Objectives -> [Pairs -> Records]]
    BY <1>5, ExactSupported DEF TypeInv, TypeOK, PublishRebuild
  <2>2. QED
    BY <1>5, <2>1
    DEF TypeInv, TypeOK, FlagsFit, PublishRebuild, Reset, flags, Objectives
<1>6. QED
  BY <1>1, <1>2, <1>3, <1>4, <1>5 DEF Publish

\* Every step keeps the type invariant.
LEMMA NextType == TypeInv /\ [Next]_vars => TypeInv'
<1> SUFFICES ASSUME TypeInv, [Next]_vars PROVE TypeInv'
  OBVIOUS
<1>1. CASE BeginUpdate
  BY <1>1, BeginType
<1>2. CASE SeedChanges
  BY <1>2, SeedType
<1>3. CASE InvalidateDependents
  BY <1>3, InvalidateType
<1>4. CASE SeedHeap
  BY <1>4, SeedHeapType
<1>5. CASE RebuildStep
  BY <1>5, RebuildType
<1>6. CASE PropagateDecreases
  BY <1>6, PropagateType
<1>7. CASE SeedExceeds \/ InvalidateExceeds \/ PropagateExceeds
  BY <1>7, ExceedType DEF SeedExceeds, InvalidateExceeds, PropagateExceeds
<1>8. CASE RebuildDone \/ NextObjective \/ RepairDone \/ Publish
  BY <1>8, EndType
<1>9. CASE UNCHANGED vars
  BY <1>9 DEF TypeInv, TypeOK, FlagsFit, vars, published, flags
<1>10. QED
  BY <1>1, <1>2, <1>3, <1>4, <1>5, <1>6, <1>7, <1>8, <1>9
  DEF Next, Repair

\* Type correctness of the repair: besides the types, every list the loops of
\* dynamic.c work on only ever holds pairs of the right kind (the invalidated
\* ones for the heap and the finalized flags).
THEOREM TypeCorrect == Spec => []TypeOK
<1>1. Spec => []TypeInv
  BY InitType, NextType, PTL DEF Spec
<1>2. TypeInv => TypeOK
  BY DEF TypeInv
<1>3. QED
  BY <1>1, <1>2, PTL

-----------------------------------------------------------------------------
(* Nothing rests on a lost distance. *)

Repairing == phase \in {"seed", "invalidate", "rebuild", "propagate"}

\* No published record is stale.
PublishedSupported ==
  \A obj \in Objectives : Supported(automaton, obj, records[obj])

\* A pair without a changed state has the arcs it had before the update.
SeedsCover ==
  Repairing => \A p \in Pairs \ seeds : \A a \in Actions :
    /\ Target(candidate, p, a) = Target(automaton, p, a)
    /\ OutputsDiffer(candidate, p, a) <=> OutputsDiffer(automaton, p, a)

\* An objective is repaired from the published records, the merge objective
\* first.
WorkFits ==
  /\ phase = "idle" => objective = "merge"
  /\ phase = "seed" => work[objective] = records[objective]
  /\ Repairing /\ objective = "merge" =>
       work["resolution"] = records["resolution"]
  /\ Repairing /\ objective = "resolution" =>
       Supported(candidate, "merge", work["merge"])
  /\ phase = "repaired" =>
       \A obj \in Objectives : Supported(candidate, obj, work[obj])

\* While invalidation runs, a stale record is of a pair with an arc into a pair
\* that was just lost; afterwards there are none.  A lost pair is unreachable
\* until it is settled again.
StaleCovered ==
  /\ phase = "invalidate" =>
       /\ \A p \in Pairs : Stale(candidate, objective, work[objective], p) =>
                             p \in Predecessors(candidate, fresh)
       /\ \A p \in invalid : work[objective][p].dist = None
  /\ phase \in {"rebuild", "propagate"} =>
       Supported(candidate, objective, work[objective])
  /\ phase = "rebuild" =>
       \A p \in invalid \ finalized : work[objective][p].dist = None

SafeInv ==
  /\ PublishedSupported /\ SeedsCover /\ WorkFits /\ StaleCovered
  /\ phase # "invalid_model"

\* A pair on the diagonal, and one that is recorded as unreachable, is not stale.
LEMMA NeverStale ==
  ASSUME NEW aut \in Automata, NEW obj, NEW recs \in [Pairs -> Records],
         NEW p \in Pairs, p \in Diagonal \/ recs[p].dist = None
  PROVE  ~Stale(aut, obj, recs, p)
<1>1. recs[p].dist \in Distances
  BY DEF Records
<1>2. Holds(aut, obj, recs, p, recs[p].dist)
  BY DEF Holds
<1>3. QED
  BY <1>1, <1>2, HoldsCloser DEF Stale

\* A pair with the same arcs in two automata is stale in both or in neither.
LEMMA SameArcs ==
  ASSUME NEW aut \in Automata, NEW other \in Automata, NEW obj,
         NEW recs \in [Pairs -> Records], NEW p \in Pairs,
         \A a \in Actions :
           /\ Target(aut, p, a) = Target(other, p, a)
           /\ OutputsDiffer(aut, p, a) <=> OutputsDiffer(other, p, a)
  PROVE  Stale(aut, obj, recs, p) <=> Stale(other, obj, recs, p)
<1>1. \A a \in Actions : ArcDistance(aut, obj, recs, p, a)
                           = ArcDistance(other, obj, recs, p, a)
  BY DEF ArcDistance, Terminal
<1>2. recs[p].dist \in Distances
  BY DEF Records
<1>3. Holds(aut, obj, recs, p, recs[p].dist)
        <=> Holds(other, obj, recs, p, recs[p].dist)
  BY <1>1 DEF Holds
<1>4. QED
  BY <1>2, <1>3, HoldsCloser DEF Stale

\* Batch, for the step that writes one.
LEMMA BatchStep ==
  ASSUME TypeOK, NEW S, NEW lost, lost = Raised(S), Write(S, lost),
         UNCHANGED <<candidate, objective>>,
         NEW p \in Pairs,
         Stale(candidate, objective, work[objective], p)' ,
         p \in S \/ ~Stale(candidate, objective, work[objective], p)
  PROVE  p \in Predecessors(candidate, lost)
<1>1. work[objective] \in [Pairs -> Records] /\ candidate \in Automata
  BY DEF TypeOK
<1>2. work'[objective] = Written(candidate, objective, work[objective], S, lost)
  BY WriteWritten DEF TypeOK
<1>3. Stale(candidate, objective,
            Written(candidate, objective, work[objective], S, lost), p)
  BY <1>2 DEF Stale
<1>4. lost = {q \in S : Closer(work[objective][q].dist,
                               Evaluate(candidate, objective, work[objective], q).dist)}
  BY DEF Raised, Old, New
<1>5. QED
  BY <1>1, <1>3, <1>4, Batch

\* What a batch writes: the lost pairs become unreachable, and the pairs outside
\* the batch and the other objective keep their records.
LEMMA WriteFrame ==
  ASSUME TypeOK, NEW S, NEW lost, Write(S, lost)
  PROVE  /\ \A p \in Pairs \cap lost : work'[objective][p].dist = None
         /\ \A p \in Pairs \ (S \cup lost) :
              work'[objective][p] = work[objective][p]
         /\ \A obj \in Objectives \ {objective} : work'[obj] = work[obj]
<1>1. work'[objective] = Written(candidate, objective, work[objective], S, lost)
      /\ \A obj \in Objectives \ {objective} : work'[obj] = work[obj]
  BY WriteWritten DEF TypeOK
<1>2. QED
  BY <1>1, PlainRecords DEF Written

\* The invariant holds initially.
LEMMA InitSafe == Init => SafeInv
<1> SUFFICES ASSUME Init PROVE SafeInv
  OBVIOUS
<1>1. PublishedSupported
  BY RepairAssumption, ExactSupported DEF Init, PublishedSupported
<1>2. QED
  BY <1>1 DEF Init, SafeInv, SeedsCover, WorkFits, StaleCovered, Repairing

\* Beginning an update keeps it: an update changes the arcs of its seeds only.
LEMMA BeginSafe ==
  ASSUME TypeInv, SafeInv, BeginUpdate
  PROVE  SafeInv'
<1>1. PICK b \in Budgets, cells \in Batches :
        \E targets \in [cells -> States], outputs \in [cells -> Outputs] :
          Begin(cells, targets, outputs, b)
  BY DEF BeginUpdate
<1>2. PICK targets \in [cells -> States], outputs \in [cells -> Outputs] :
        Begin(cells, targets, outputs, b)
  BY <1>1
<1>3. candidate' = Changed(cells, targets, outputs) /\ seeds' = SeedPairs(cells)
  BY <1>2 DEF Begin
<1>4. /\ UNCHANGED <<automaton, records, objective>>
      /\ work' = records
      /\ phase' \in {"bounded", "seed"} /\ phase = "idle"
  BY <1>2 DEF Begin, BeginUpdate, published
<1>5. ASSUME NEW p \in Pairs \ seeds', NEW a \in Actions
      PROVE  /\ Target(candidate', p, a) = Target(automaton, p, a)
             /\ OutputsDiffer(candidate', p, a) <=> OutputsDiffer(automaton, p, a)
  <2>1. \A s \in p : s \in States
    BY DEF Pairs
  <2>2. \A s \in p : <<s, a>> \in Cells \ cells
    <3>1. ASSUME NEW s \in p, <<s, a>> \in cells PROVE FALSE
      <4>1. <<s, a>>[1] \in p
        OBVIOUS
      <4>2. p \in SeedPairs(cells)
        BY <3>1, <4>1 DEF SeedPairs
      <4>3. QED
        BY <1>3, <4>2
    <3>2. QED
      BY <2>1, <3>1 DEF Cells
  <2>3. \A s \in p : /\ candidate'.delta[<<s, a>>] = automaton.delta[<<s, a>>]
                     /\ candidate'.eta[<<s, a>>] = automaton.eta[<<s, a>>]
    BY <1>3, <2>2 DEF Changed
  <2>4. Target(candidate', p, a) = Target(automaton, p, a)
    BY <2>3 DEF Target
  <2>5. OutputsDiffer(candidate', p, a) <=> OutputsDiffer(automaton, p, a)
    BY <2>3 DEF OutputsDiffer
  <2>6. QED
    BY <2>4, <2>5
<1>6. SeedsCover'
  BY <1>4, <1>5 DEF SeedsCover
<1>7. PublishedSupported'
  BY <1>4 DEF SafeInv, PublishedSupported
<1>8. WorkFits'
  BY <1>4 DEF SafeInv, WorkFits, Repairing
<1>9. StaleCovered' /\ phase' # "invalid_model"
  BY <1>4 DEF StaleCovered
<1>10. QED
  BY <1>6, <1>7, <1>8, <1>9 DEF SafeInv

\* A repair step that leaves the published records, the candidate automaton,
\* the objective and its seeds alone keeps the parts that speak of them.
LEMMA KeepsRest ==
  ASSUME TypeInv, SafeInv, Repairing, Repairing' \/ phase' = "bounded",
         phase' # "seed",
         UNCHANGED <<automaton, records, candidate, objective, seeds>>,
         \A obj \in Objectives \ {objective} : work'[obj] = work[obj]
  PROVE  PublishedSupported' /\ SeedsCover' /\ WorkFits'
<1>1. PublishedSupported'
  BY DEF SafeInv, PublishedSupported
<1>2. SeedsCover'
  BY DEF SafeInv, SeedsCover
<1>3. WorkFits'
  <2>1. phase' # "idle" /\ phase' # "repaired"
    BY DEF Repairing
  <2>2. objective = "merge" => work'["resolution"] = work["resolution"]
    BY DEF Objectives
  <2>3. objective = "resolution" => work'["merge"] = work["merge"]
    BY DEF Objectives
  <2>4. (Repairing /\ objective = "resolution" =>
          Supported(candidate, "merge", work["merge"]))'
    BY <2>3 DEF SafeInv, WorkFits
  <2>5. QED
    BY <2>1, <2>2, <2>4 DEF SafeInv, WorkFits
<1>4. QED
  BY <1>1, <1>2, <1>3

\* The first batch: only a seed, or a pair with an arc into a lost one, can be
\* stale under the changed automaton.
LEMMA SeedSafe ==
  ASSUME TypeInv, SafeInv, SeedChanges
  PROVE  SafeInv'
<1>1. /\ phase = "seed" /\ phase' = "invalidate"
      /\ invalid' = Raised(SeedBatch) /\ fresh' = Raised(SeedBatch)
      /\ Write(SeedBatch, Raised(SeedBatch))
      /\ UNCHANGED <<automaton, records, candidate, objective, seeds>>
  BY DEF SeedChanges, published
<1>2. TypeOK /\ Raised(SeedBatch) \subseteq Pairs
  BY DEF TypeInv, TypeOK, Raised, SeedBatch
<1>3. /\ \A p \in Raised(SeedBatch) : work'[objective][p].dist = None
      /\ \A obj \in Objectives \ {objective} : work'[obj] = work[obj]
  BY <1>1, <1>2, WriteFrame
<1>4. ASSUME NEW p \in Pairs, p \notin SeedBatch
      PROVE  ~Stale(candidate, objective, work[objective], p)
  <2>1. candidate \in Automata /\ automaton \in Automata
        /\ work[objective] \in [Pairs -> Records] /\ objective \in Objectives
    BY <1>2 DEF TypeOK
  <2>2. CASE p \in Diagonal
    BY <2>1, <2>2, NeverStale
  <2>3. CASE p \notin Diagonal
    <3>1. p \notin seeds
      BY <1>4, <2>3 DEF SeedBatch
    <3>2. \A a \in Actions :
            /\ Target(candidate, p, a) = Target(automaton, p, a)
            /\ OutputsDiffer(candidate, p, a) <=> OutputsDiffer(automaton, p, a)
      BY <1>1, <3>1 DEF SafeInv, SeedsCover, Repairing
    <3>3. work[objective] = records[objective]
      BY <1>1 DEF SafeInv, WorkFits
    <3>4. ~Stale(automaton, objective, work[objective], p)
      BY <2>1, <3>3 DEF SafeInv, PublishedSupported, Supported
    <3>5. QED
      BY <2>1, <3>2, <3>4, SameArcs
  <2>4. QED
    BY <2>2, <2>3
<1>5. ASSUME NEW p \in Pairs,
             Stale(candidate, objective, work[objective], p)'
      PROVE  p \in Predecessors(candidate, fresh)'
  <2>1. p \in Predecessors(candidate, Raised(SeedBatch))
    BY <1>1, <1>2, <1>4, <1>5, BatchStep
  <2>2. QED
    BY <1>1, <2>1
<1>6. StaleCovered'
  BY <1>1, <1>3, <1>5 DEF StaleCovered
<1>7. PublishedSupported' /\ SeedsCover' /\ WorkFits'
  BY <1>1, <1>3, KeepsRest DEF Repairing
<1>8. QED
  BY <1>1, <1>6, <1>7 DEF SafeInv

\* A batch of invalidation covers what the last one made stale.
LEMMA InvalidateSafe ==
  ASSUME TypeInv, SafeInv, InvalidateDependents
  PROVE  SafeInv'
<1>1. /\ phase = "invalidate" /\ phase' = "invalidate"
      /\ fresh' = Raised(Dependents) /\ invalid' = invalid \cup Raised(Dependents)
      /\ Write(Dependents, Raised(Dependents))
      /\ UNCHANGED <<automaton, records, candidate, objective, seeds>>
  BY DEF InvalidateDependents, published
<1>2. /\ TypeOK /\ Raised(Dependents) \subseteq Pairs
      /\ invalid \subseteq Pairs /\ invalid \cap Dependents = {}
      /\ invalid \cap Raised(Dependents) \subseteq Dependents
  BY DEF TypeInv, TypeOK, Raised, Dependents, Predecessors
<1>3. /\ \A p \in Raised(Dependents) : work'[objective][p].dist = None
      /\ \A p \in invalid : work'[objective][p] = work[objective][p]
      /\ \A obj \in Objectives \ {objective} : work'[obj] = work[obj]
  BY <1>1, <1>2, WriteFrame
<1>4. \A p \in invalid : work[objective][p].dist = None
  BY <1>1 DEF SafeInv, StaleCovered
<1>5. ASSUME NEW p \in Pairs, p \notin Dependents
      PROVE  ~Stale(candidate, objective, work[objective], p)
  <2>1. candidate \in Automata /\ work[objective] \in [Pairs -> Records]
    BY <1>2 DEF TypeOK
  <2>2. CASE p \in Diagonal \/ p \in invalid
    BY <1>4, <2>1, <2>2, NeverStale
  <2>3. CASE p \notin Predecessors(candidate, fresh)
    BY <1>1, <2>3 DEF SafeInv, StaleCovered
  <2>4. QED
    BY <1>5, <2>2, <2>3 DEF Dependents
<1>6. ASSUME NEW p \in Pairs,
             Stale(candidate, objective, work[objective], p)'
      PROVE  p \in Predecessors(candidate, fresh)'
  <2>1. p \in Predecessors(candidate, Raised(Dependents))
    BY <1>1, <1>2, <1>5, <1>6, BatchStep
  <2>2. QED
    BY <1>1, <2>1
<1>7. StaleCovered'
  BY <1>1, <1>3, <1>4, <1>6 DEF StaleCovered
<1>8. PublishedSupported' /\ SeedsCover' /\ WorkFits'
  BY <1>1, <1>3, KeepsRest DEF Repairing
<1>9. QED
  BY <1>1, <1>7, <1>8 DEF SafeInv

\* Once no target is left to visit, nothing is stale.
LEMMA SeedHeapSafe ==
  ASSUME TypeInv, SafeInv, SeedHeap
  PROVE  SafeInv'
<1>1. /\ phase = "invalidate" /\ fresh = {} /\ phase' = "rebuild"
      /\ UNCHANGED <<automaton, records, candidate, objective, seeds, work,
                     invalid, finalized>>
  BY DEF SeedHeap, published
<1>2. Predecessors(candidate, fresh) = {}
  BY <1>1 DEF Predecessors
<1>3. StaleCovered'
  <2>1. Supported(candidate, objective, work[objective])
    BY <1>1, <1>2 DEF SafeInv, StaleCovered, Supported
  <2>2. \A p \in invalid : work[objective][p].dist = None
    BY <1>1 DEF SafeInv, StaleCovered
  <2>3. QED
    BY <1>1, <2>1, <2>2 DEF StaleCovered
<1>4. PublishedSupported' /\ SeedsCover' /\ WorkFits'
  BY <1>1, KeepsRest DEF Repairing
<1>5. QED
  BY <1>1, <1>3, <1>4 DEF SafeInv

\* Writing a batch none of whose pairs was closer than its arcs leaves nothing
\* stale.
LEMMA LoweringSupported ==
  ASSUME TypeOK, NEW S, S \subseteq Pairs, Raised(S) = {}, Write(S, {}),
         UNCHANGED <<candidate, objective>>,
         Supported(candidate, objective, work[objective])
  PROVE  Supported(candidate, objective, work[objective])'
<1>1. ASSUME NEW p \in Pairs,
             Stale(candidate, objective, work[objective], p)'
      PROVE  FALSE
  <2>1. ~Stale(candidate, objective, work[objective], p)
    BY DEF Supported
  <2>2. p \in Predecessors(candidate, {})
    BY <1>1, <2>1, BatchStep
  <2>3. QED
    BY <2>2 DEF Predecessors
<1>2. QED
  BY <1>1 DEF Supported

\* Settling invalid pairs only lowers distances.
LEMMA RebuildSafe ==
  ASSUME TypeInv, SafeInv, RebuildStep
  PROVE  SafeInv'
<1> DEFINE settled == finalized' \ finalized
<1>1. /\ phase = "rebuild" /\ phase' = "rebuild"
      /\ Write(settled, {})
      /\ UNCHANGED <<automaton, records, candidate, objective, seeds, invalid>>
  BY DEF RebuildStep, published
<1>2. settled \subseteq invalid \ finalized
  BY RebuildTries
<1> HIDE DEF settled
<1>3. TypeOK /\ invalid \subseteq Pairs
  BY DEF TypeInv, TypeOK
<1>4. \A p \in invalid \ finalized : work[objective][p].dist = None
  BY <1>1 DEF SafeInv, StaleCovered
<1>5. Raised(settled) = {}
  BY <1>2, <1>4 DEF Raised, Old, Closer
<1>6. Supported(candidate, objective, work[objective])'
  BY <1>1, <1>2, <1>3, <1>5, LoweringSupported
  DEF SafeInv, StaleCovered
<1>7. /\ \A p \in Pairs \ settled : work'[objective][p] = work[objective][p]
      /\ \A obj \in Objectives \ {objective} : work'[obj] = work[obj]
  BY <1>1, <1>3, WriteFrame
<1>8. \A p \in invalid' \ finalized' : work'[objective'][p].dist = None
  <2>1. \A p \in invalid \ finalized' : p \in invalid \ finalized /\ p \notin settled
    BY DEF settled, RebuildStep
  <2>2. QED
    BY <1>1, <1>3, <1>4, <1>7, <2>1
<1>9. StaleCovered'
  BY <1>1, <1>6, <1>8 DEF StaleCovered
<1>10. PublishedSupported' /\ SeedsCover' /\ WorkFits'
  BY <1>1, <1>7, KeepsRest DEF Repairing
<1>11. QED
  BY <1>1, <1>9, <1>10 DEF SafeInv

\* Propagation meets no pair whose distance would grow.
LEMMA PropagateSafe ==
  ASSUME TypeInv, SafeInv, PropagateDecreases
  PROVE  SafeInv'
<1>1. phase = "propagate" /\ TypeOK /\ Followers \subseteq Pairs
  BY DEF PropagateDecreases, TypeInv, Followers, Predecessors
<1>2. Supported(candidate, objective, work[objective])
  BY <1>1 DEF SafeInv, StaleCovered
<1>3. Raised(Followers) = {}
  BY <1>1, <1>2 DEF Raised, Supported, Stale, Old, New
<1>4. /\ phase' = "propagate" /\ Write(Followers, {})
      /\ UNCHANGED <<automaton, records, candidate, objective, seeds>>
  BY <1>1, <1>3 DEF PropagateDecreases, published
<1>5. Supported(candidate, objective, work[objective])'
  BY <1>1, <1>2, <1>3, <1>4, LoweringSupported
<1>6. \A obj \in Objectives \ {objective} : work'[obj] = work[obj]
  BY <1>1, <1>4, WriteFrame
<1>7. StaleCovered'
  BY <1>4, <1>5 DEF StaleCovered
<1>8. PublishedSupported' /\ SeedsCover' /\ WorkFits'
  BY <1>1, <1>4, <1>6, KeepsRest DEF Repairing
<1>9. QED
  BY <1>4, <1>7, <1>8 DEF SafeInv

\* An exceeded budget ends the repair and leaves the published records alone.
LEMMA ExceedSafe ==
  ASSUME TypeInv, SafeInv, SeedExceeds \/ InvalidateExceeds \/ PropagateExceeds
  PROVE  SafeInv'
<1>1. PICK S : Exceed(S)
  BY DEF SeedExceeds, InvalidateExceeds, PropagateExceeds
<1>2. /\ Repairing /\ phase' = "bounded"
      /\ UNCHANGED <<automaton, records, candidate, objective, seeds, work>>
  BY <1>1 DEF Repairing, SeedExceeds, InvalidateExceeds, PropagateExceeds,
              Exceed, published
<1>3. PublishedSupported' /\ SeedsCover' /\ WorkFits'
  BY <1>2, KeepsRest
<1>4. QED
  BY <1>2, <1>3 DEF SafeInv, StaleCovered

\* The end of the rebuild, of an objective and of the repair.
LEMMA AdvanceSafe ==
  ASSUME TypeInv, SafeInv, RebuildDone \/ NextObjective \/ RepairDone
  PROVE  SafeInv'
<1>1. CASE RebuildDone
  <2>1. /\ phase = "rebuild" /\ phase' = "propagate"
        /\ UNCHANGED <<automaton, records, candidate, objective, seeds, work>>
    BY <1>1 DEF RebuildDone, published
  <2>2. PublishedSupported' /\ SeedsCover' /\ WorkFits'
    BY <2>1, KeepsRest DEF Repairing
  <2>3. StaleCovered'
    BY <2>1 DEF SafeInv, StaleCovered
  <2>4. QED
    BY <2>1, <2>2, <2>3 DEF SafeInv
<1>2. CASE NextObjective
  <2>1. /\ phase = "propagate" /\ phase' = "seed"
        /\ objective = "merge" /\ objective' = "resolution"
        /\ UNCHANGED <<automaton, records, candidate, seeds, work>>
    BY <1>2 DEF NextObjective, published
  <2>2. Supported(candidate, "merge", work["merge"])
    BY <2>1 DEF SafeInv, StaleCovered
  <2>3. work["resolution"] = records["resolution"]
    BY <2>1 DEF SafeInv, WorkFits, Repairing
  <2>4. WorkFits'
    <3>1. (Repairing /\ objective = "resolution" =>
             Supported(candidate, "merge", work["merge"]))'
      BY <2>1, <2>2
    <3>2. QED
      BY <2>1, <2>3, <3>1 DEF WorkFits
  <2>5. SeedsCover'
    BY <2>1 DEF SafeInv, SeedsCover, Repairing
  <2>6. PublishedSupported'
    BY <2>1 DEF SafeInv, PublishedSupported
  <2>7. QED
    BY <2>1, <2>4, <2>5, <2>6 DEF SafeInv, StaleCovered
<1>3. CASE RepairDone
  <2>1. /\ phase = "propagate" /\ phase' = "repaired" /\ objective = "resolution"
        /\ UNCHANGED <<automaton, records, candidate, objective, work>>
    BY <1>3 DEF RepairDone, published
  <2>2. \A obj \in Objectives : Supported(candidate, obj, work[obj])
    BY <2>1 DEF SafeInv, StaleCovered, WorkFits, Repairing, Objectives
  <2>3. WorkFits'
    <3>1. (\A obj \in Objectives : Supported(candidate, obj, work[obj]))'
      BY <2>1, <2>2
    <3>2. QED
      BY <2>1, <3>1 DEF WorkFits, Repairing
  <2>4. PublishedSupported'
    BY <2>1 DEF SafeInv, PublishedSupported
  <2>5. QED
    BY <2>1, <2>3, <2>4 DEF SafeInv, StaleCovered, SeedsCover, Repairing
<1>4. QED
  BY <1>1, <1>2, <1>3

\* What is published, repaired or rebuilt, is supported.
LEMMA PublishSafe ==
  ASSUME TypeInv, SafeInv, Publish
  PROVE  SafeInv'
<1>1. /\ phase' = "idle" /\ objective' = "merge" /\ automaton' = candidate
  BY DEF Publish, PublishRepair, PublishRebuild, Reset
<1>2. PublishedSupported'
  <2>1. CASE PublishRepair
    <3>1. phase = "repaired" /\ records' = work
      BY <2>1 DEF PublishRepair
    <3>2. \A obj \in Objectives : Supported(candidate, obj, work[obj])
      BY <3>1 DEF SafeInv, WorkFits
    <3>3. QED
      BY <1>1, <3>1, <3>2 DEF PublishedSupported
  <2>2. CASE PublishRebuild
    <3>1. records' = ExactOracle(candidate) /\ candidate \in Automata
      BY <2>2 DEF PublishRebuild, TypeInv, TypeOK
    <3>2. QED
      BY <1>1, <3>1, ExactSupported DEF PublishedSupported
  <2>3. QED
    BY <2>1, <2>2 DEF Publish
<1>3. QED
  BY <1>1, <1>2
  DEF SafeInv, SeedsCover, WorkFits, StaleCovered, Repairing

\* Every step keeps the invariant.
LEMMA NextSafe == TypeInv /\ SafeInv /\ [Next]_vars => SafeInv'
<1> SUFFICES ASSUME TypeInv, SafeInv, [Next]_vars PROVE SafeInv'
  OBVIOUS
<1>1. CASE BeginUpdate
  BY <1>1, BeginSafe
<1>2. CASE SeedChanges
  BY <1>2, SeedSafe
<1>3. CASE InvalidateDependents
  BY <1>3, InvalidateSafe
<1>4. CASE SeedHeap
  BY <1>4, SeedHeapSafe
<1>5. CASE RebuildStep
  BY <1>5, RebuildSafe
<1>6. CASE PropagateDecreases
  BY <1>6, PropagateSafe
<1>7. CASE SeedExceeds \/ InvalidateExceeds \/ PropagateExceeds
  BY <1>7, ExceedSafe
<1>8. CASE RebuildDone \/ NextObjective \/ RepairDone
  BY <1>8, AdvanceSafe
<1>9. CASE Publish
  BY <1>9, PublishSafe
<1>10. CASE UNCHANGED vars
  <2>1. /\ PublishedSupported' /\ SeedsCover'
    BY <1>10 DEF SafeInv, vars, published, PublishedSupported, SeedsCover,
                 Repairing
  <2>2. WorkFits'
    BY <1>10 DEF SafeInv, vars, published, WorkFits, Repairing
  <2>3. StaleCovered' /\ phase' # "invalid_model"
    BY <1>10 DEF SafeInv, vars, flags, StaleCovered
  <2>4. QED
    BY <2>1, <2>2, <2>3 DEF SafeInv
<1>11. QED
  BY <1>1, <1>2, <1>3, <1>4, <1>5, <1>6, <1>7, <1>8, <1>9, <1>10
  DEF Next, Repair

\* The inductive invariant of the repair.
LEMMA SafeSpec == Spec => [](TypeInv /\ SafeInv)
<1>1. Init => TypeInv /\ SafeInv
  BY InitType, InitSafe
<1>2. (TypeInv /\ SafeInv) /\ [Next]_vars => (TypeInv /\ SafeInv)'
  BY NextType, NextSafe
<1>3. QED
  BY <1>1, <1>2, PTL DEF Spec

\* Invalidation is complete: when it is over, and until the repair ends, no
\* record of the candidate is closer than the best arc of its pair, however
\* the batch of changes and the loss of distances interleave.
THEOREM NoStaleRecord == Spec => []NothingStale
<1>1. TypeInv /\ SafeInv => NothingStale
  BY DEF TypeInv, SafeInv, StaleCovered, NothingStale, Supported, Stale, Old,
         New
<1>2. QED
  BY <1>1, SafeSpec, PTL

\* An update never fails with SG_ERR_INVALID_MODEL inside the repair: the check
\* at the head of sg_propagate_decreases cannot fire.
THEOREM NeverInvalidModel == Spec => []NeverRaised
<1>1. TypeInv /\ SafeInv => NeverRaised
  BY DEF SafeInv, NeverRaised
<1>2. QED
  BY <1>1, SafeSpec, PTL

-----------------------------------------------------------------------------
(* The repair budget. *)

\* Only touched pairs, the invalid ones among them, have new records, and the
\* touched pairs are within the budget from the first batch on.
BudgetInv ==
  /\ Repairing \/ phase = "repaired" =>
       /\ invalid \subseteq touched
       /\ \A p \in Pairs \ touched : \A obj \in Objectives :
            work[obj][p] = records[obj][p]
  /\ phase \in {"invalidate", "rebuild", "propagate", "repaired"} =>
       Cardinality(touched) <= budget

\* A batch that is touched before it is written keeps the invariant.
LEMMA TouchedBatch ==
  ASSUME TypeInv, BudgetInv, Repairing, NEW S, NEW lost, lost \subseteq S,
         Write(S, lost), WithinBudget(S) /\ touched' = touched \cup S,
         invalid' \subseteq touched', UNCHANGED <<records, budget>>
  PROVE  BudgetInv'
<1>1. \A p \in Pairs \ (S \cup lost) : \A obj \in Objectives :
        work'[obj][p] = work[obj][p]
  BY WriteFrame DEF TypeInv
<1>2. \A p \in Pairs \ touched' : \A obj \in Objectives :
        work'[obj][p] = records[obj][p]
  BY <1>1 DEF BudgetInv
<1>3. Cardinality(touched') <= budget'
  BY DEF WithinBudget
<1>4. QED
  BY <1>2, <1>3 DEF BudgetInv

\* Every step keeps the touched pairs within the budget.
LEMMA NextBudget == TypeInv /\ BudgetInv /\ [Next]_vars => BudgetInv'
<1> SUFFICES ASSUME TypeInv, BudgetInv, [Next]_vars PROVE BudgetInv'
  OBVIOUS
<1>1. CASE BeginUpdate
  <2>1. /\ work' = records /\ UNCHANGED <<records, invalid>> /\ phase = "idle"
        /\ phase' \in {"bounded", "seed"}
    BY <1>1 DEF BeginUpdate, Begin, published, flags
  <2>2. invalid = {}
    BY <2>1 DEF TypeInv, FlagsFit
  <2>3. QED
    BY <2>1, <2>2 DEF BudgetInv
<1>2. CASE SeedChanges
  <2>1. /\ Repairing /\ WithinBudget(SeedBatch)
        /\ touched' = touched \cup SeedBatch
        /\ Write(SeedBatch, Raised(SeedBatch)) /\ invalid' = Raised(SeedBatch)
        /\ UNCHANGED <<records, budget>>
    BY <1>2 DEF SeedChanges, Repairing, published
  <2>2. Raised(SeedBatch) \subseteq SeedBatch
    BY DEF Raised
  <2>3. QED
    BY <2>1, <2>2, TouchedBatch
<1>3. CASE InvalidateDependents
  <2>1. /\ Repairing /\ WithinBudget(Dependents)
        /\ touched' = touched \cup Dependents
        /\ Write(Dependents, Raised(Dependents))
        /\ invalid' = invalid \cup Raised(Dependents)
        /\ UNCHANGED <<records, budget>>
    BY <1>3 DEF InvalidateDependents, Repairing, published
  <2>2. Raised(Dependents) \subseteq Dependents
    BY DEF Raised
  <2>3. invalid' \subseteq touched'
    BY <2>1, <2>2 DEF BudgetInv
  <2>4. QED
    BY <2>1, <2>2, <2>3, TouchedBatch
<1>4. CASE SeedHeap
  BY <1>4 DEF SeedHeap, BudgetInv, Repairing, published
<1>5. CASE RebuildStep
  <2> DEFINE settled == finalized' \ finalized
  <2>1. /\ phase = "rebuild" /\ Write(settled, {})
        /\ UNCHANGED <<records, budget, touched, invalid, phase>>
    BY <1>5 DEF RebuildStep, published
  <2>2. settled \subseteq touched
    <3>1. settled \subseteq invalid
      BY <1>5, RebuildTries
    <3>2. QED
      BY <2>1, <3>1 DEF BudgetInv, Repairing
  <2> HIDE DEF settled
  <2>3. \A p \in Pairs \ settled : \A obj \in Objectives :
          work'[obj][p] = work[obj][p]
    BY <2>1, WriteFrame DEF TypeInv
  <2>4. QED
    BY <2>1, <2>2, <2>3 DEF BudgetInv, Repairing
<1>6. CASE PropagateDecreases
  <2>1. CASE Raised(Followers) = {}
    <3>1. /\ Repairing /\ WithinBudget(Followers)
          /\ touched' = touched \cup Followers
          /\ Write(Followers, {}) /\ UNCHANGED <<invalid, records, budget>>
      BY <1>6, <2>1 DEF PropagateDecreases, Repairing, published
    <3>2. invalid' \subseteq touched'
      BY <3>1 DEF BudgetInv
    <3>3. QED
      BY <3>1, <3>2, TouchedBatch
  <2>2. CASE Raised(Followers) # {}
    <3>1. phase' = "invalid_model"
      BY <1>6, <2>2 DEF PropagateDecreases
    <3>2. QED
      BY <3>1 DEF BudgetInv, Repairing
  <2>3. QED
    BY <2>1, <2>2
<1>7. CASE SeedExceeds \/ InvalidateExceeds \/ PropagateExceeds
  <2>1. phase' = "bounded"
    BY <1>7 DEF SeedExceeds, InvalidateExceeds, PropagateExceeds, Exceed
  <2>2. QED
    BY <2>1 DEF BudgetInv, Repairing
<1>8. CASE RebuildDone
  BY <1>8 DEF RebuildDone, BudgetInv, Repairing, published, flags
<1>9. CASE NextObjective \/ RepairDone
  BY <1>9
  DEF NextObjective, RepairDone, ClearFlags, BudgetInv, Repairing, published
<1>10. CASE Publish
  <2>1. phase' = "idle"
    BY <1>10 DEF Publish, PublishRepair, PublishRebuild, Reset
  <2>2. QED
    BY <2>1 DEF BudgetInv, Repairing
<1>11. CASE UNCHANGED vars
  BY <1>11 DEF vars, published, flags, BudgetInv, Repairing
<1>12. QED
  BY <1>1, <1>2, <1>3, <1>4, <1>5, <1>6, <1>7, <1>8, <1>9, <1>10, <1>11
  DEF Next, Repair

\* The repair budget bounds the pairs whose records an update replaces without
\* a rebuild, over all batches of both objectives together.
THEOREM BudgetKept == Spec => []BudgetBoundsChanges
<1>1. TypeInv /\ BudgetInv => BudgetBoundsChanges
  <2> SUFFICES ASSUME TypeInv, BudgetInv,
                      phase \in {"invalidate", "rebuild", "propagate", "repaired"}
               PROVE  Cardinality({p \in Pairs : \E obj \in Objectives :
                                     work[obj][p] # records[obj][p]}) <= budget
    BY DEF BudgetBoundsChanges
  <2> DEFINE replaced == {p \in Pairs : \E obj \in Objectives :
                            work[obj][p] # records[obj][p]}
  <2>1. replaced \subseteq touched /\ Cardinality(touched) <= budget
    BY DEF BudgetInv, Repairing
  <2>2. IsFiniteSet(touched)
    BY PairsFinite, FS_Subset DEF TypeInv, TypeOK
  <2> HIDE DEF replaced
  <2>3. /\ Cardinality(replaced) <= Cardinality(touched)
        /\ Cardinality(replaced) \in Nat /\ Cardinality(touched) \in Nat
    BY <2>1, <2>2, FS_Subset, FS_CardinalityType
  <2>4. Cardinality(replaced) <= budget
    BY <2>1, <2>3 DEF TypeInv, TypeOK
  <2>5. QED
    BY <2>4 DEF replaced
<1>2. Init => TypeInv /\ BudgetInv
  BY InitType DEF Init, BudgetInv, Repairing
<1>3. (TypeInv /\ BudgetInv) /\ [Next]_vars => (TypeInv /\ BudgetInv)'
  BY NextType, NextBudget
<1>4. QED
  BY <1>1, <1>2, <1>3, PTL DEF Spec


-----------------------------------------------------------------------------
(* Records that are what their targets give them. *)

\* A pair with the same arcs of the same length gets the same record.
LEMMA EvaluateSame ==
  ASSUME NEW aut, NEW other, NEW obj, NEW recs, NEW after, NEW p,
         \A a \in Actions :
           /\ ArcDistance(aut, obj, recs, p, a) = ArcDistance(other, obj, after, p, a)
           /\ Target(aut, p, a) = Target(other, p, a)
           /\ Terminal(aut, obj, p, a) <=> Terminal(other, obj, p, a)
  PROVE  Evaluate(aut, obj, recs, p) = Evaluate(other, obj, after, p)
<1>1. Best(aut, obj, recs, p) = Best(other, obj, after, p)
  BY DEF Best
<1>2. PICK best : best = Best(aut, obj, recs, p) /\ best = Best(other, obj, after, p)
  BY <1>1
<1>3. best \subseteq Actions
  BY <1>2 DEF Best
<1>4. PICK act : act = CHOOSE a \in best : \A b \in best : a <= b
  OBVIOUS
<1>5. best # {} => act \in Actions
  <2>1. best # {} => act \in best
    BY <1>3, <1>4, FirstAction
  <2>2. QED
    BY <1>3, <2>1
<1>6. CASE p \in Diagonal \/ best = {}
  BY <1>2, <1>6 DEF Evaluate
<1>7. CASE p \notin Diagonal /\ best # {}
  <2>1. Evaluate(aut, obj, recs, p)
          = [dist |-> ArcDistance(aut, obj, recs, p, act), act |-> act,
             next |-> IF Terminal(aut, obj, p, act) THEN NoPair ELSE Target(aut, p, act),
             sup |-> Cardinality(best)]
    BY <1>2, <1>4, <1>7 DEF Evaluate
  <2>2. Evaluate(other, obj, after, p)
          = [dist |-> ArcDistance(other, obj, after, p, act), act |-> act,
             next |-> IF Terminal(other, obj, p, act) THEN NoPair ELSE Target(other, p, act),
             sup |-> Cardinality(best)]
    BY <1>2, <1>4, <1>7 DEF Evaluate
  <2>3. ArcDistance(aut, obj, recs, p, act) = ArcDistance(other, obj, after, p, act)
        /\ Target(aut, p, act) = Target(other, p, act)
        /\ (Terminal(aut, obj, p, act) <=> Terminal(other, obj, p, act))
    BY <1>5, <1>7
  <2>4. QED
    BY <2>1, <2>2, <2>3
<1>8. QED
  BY <1>6, <1>7

\* What an evaluated record says about its pair.
LEMMA EvaluateShape ==
  ASSUME NEW aut \in Automata, NEW obj, NEW recs \in [Pairs -> Records],
         NEW p \in Pairs, NEW new, new = Evaluate(aut, obj, recs, p)
  PROVE  /\ p \in Diagonal => new = Root
         /\ new.dist = None => new = Unreached
         /\ p \notin Diagonal /\ new.dist # None =>
              /\ new.act \in Actions /\ new.dist \in Nat \ {0}
              /\ new.dist = ArcDistance(aut, obj, recs, p, new.act)
              /\ new.next = IF Terminal(aut, obj, p, new.act) THEN NoPair
                            ELSE Target(aut, p, new.act)
<1>1. CASE p \in Diagonal
  BY <1>1, PlainRecords DEF Evaluate, None
<1>2. CASE p \notin Diagonal
  <2>1. PICK best : best = Best(aut, obj, recs, p)
    OBVIOUS
  <2>2. best \subseteq Actions
    BY <2>1 DEF Best
  <2>3. CASE best = {}
    <3>1. new = Unreached
      BY <1>2, <2>1, <2>3 DEF Evaluate
    <3>2. QED
      BY <1>2, <3>1, PlainRecords
  <2>4. CASE best # {}
    <3>1. PICK act : act = CHOOSE a \in best : \A b \in best : a <= b
      OBVIOUS
    <3>2. act \in best
      BY <2>2, <2>4, <3>1, FirstAction
    <3>3. new = [dist |-> ArcDistance(aut, obj, recs, p, act), act |-> act,
                 next |-> IF Terminal(aut, obj, p, act) THEN NoPair ELSE Target(aut, p, act),
                 sup |-> Cardinality(best)]
      BY <1>2, <2>1, <2>4, <3>1 DEF Evaluate
    <3>4. act \in Actions
      BY <2>2, <3>2
    <3>5. PICK d \in Distances : d = ArcDistance(aut, obj, recs, p, act)
      BY <3>4, ArcDistanceType
    <3>6. d # None
      BY <2>1, <3>2, <3>5 DEF Best
    <3>7. d # 0
      <4>1. recs[Target(aut, p, act)].dist \in Distances
        BY <3>4, TargetType DEF Records
      <4>2. QED
        BY <3>5, <4>1 DEF ArcDistance, Distances, None
    <3>8. d \in Nat \ {0}
      BY <3>5, <3>6, <3>7 DEF Distances
    <3>9. new.dist = d /\ new.act = act
          /\ new.next = IF Terminal(aut, obj, p, act) THEN NoPair ELSE Target(aut, p, act)
      BY <3>3, <3>5
    <3>10. QED
      BY <1>2, <3>4, <3>5, <3>6, <3>8, <3>9
  <2>5. QED
    BY <2>3, <2>4
<1>3. QED
  BY <1>1, <1>2

\* A distance that some arc has and no arc is closer than is the evaluated one.
LeastOf(aut, obj, recs, p, e) ==
  /\ e \in Distances
  /\ e # None => \E a \in Actions : ArcDistance(aut, obj, recs, p, a) = e
  /\ \A a \in Actions : ~Closer(ArcDistance(aut, obj, recs, p, a), e)

LEMMA LeastDistance ==
  ASSUME NEW aut \in Automata, NEW obj, NEW recs \in [Pairs -> Records],
         NEW p \in Pairs, p \notin Diagonal, NEW e, LeastOf(aut, obj, recs, p, e)
  PROVE  Evaluate(aut, obj, recs, p).dist = e
<1> DEFINE D(a) == ArcDistance(aut, obj, recs, p, a)
<1>1. PICK n \in Distances : n = Evaluate(aut, obj, recs, p).dist
  BY EvaluateFits DEF Records
<1>2. /\ n # None => \E a \in Actions : D(a) = n
      /\ \A a \in Actions : ~Closer(D(a), n)
  BY <1>1, EvaluateFits
<1>3. e \in Distances /\ (e # None => \E a \in Actions : D(a) = e)
  BY DEF LeastOf
<1>4. \A a \in Actions : ~Closer(D(a), e)
  BY DEF LeastOf
<1> HIDE DEF D
<1>5. n # None => ~Closer(n, e)
  BY <1>2, <1>4
<1>6. e # None => ~Closer(e, n)
  BY <1>2, <1>3
<1>7. n = e
  BY <1>1, <1>3, <1>5, <1>6 DEF Closer, Distances
<1>8. QED
  BY <1>1, <1>7

\* The exact records are what their targets give them.
LEMMA ExactFixed ==
  ASSUME NEW aut \in Automata, NEW obj, NEW p \in Pairs
  PROVE  ExactRecords(aut, obj)[p] = Evaluate(aut, obj, ExactRecords(aut, obj), p)
<1> DEFINE dist == ExactDistances(aut, obj)
           recs == ExactRecords(aut, obj)
           D(a) == ArcDistance(aut, obj, recs, p, a)
           AtOnce(q, a) == dist[q] = 1 /\ Terminal(aut, obj, q, a)
           ViaNext(q, a) ==
             LET next == Target(aut, q, a)
             IN /\ ~Terminal(aut, obj, q, a)
                /\ dist[next] # None
                /\ dist[next] + 1 = dist[q]
           Attaining(q) == {a \in Actions : AtOnce(q, a) \/ ViaNext(q, a)}
           First(S) == CHOOSE a \in S : \A b \in S : a <= b
           Led(q) ==
             LET act == First(Attaining(q))
             IN [dist |-> dist[q], act |-> act,
                 next |-> IF AtOnce(q, act) THEN NoPair
                          ELSE Target(aut, q, act),
                 sup |-> Cardinality(Attaining(q))]
           Rec(q) == IF q \in Diagonal THEN Root
                     ELSE IF dist[q] = None THEN Unreached
                     ELSE Led(q)
<1>1. recs[p] = Rec(p)
  <2>1. recs = [q \in Pairs |-> Rec(q)]
    BY DEF ExactRecords
  <2> HIDE DEF Rec, recs
  <2>2. QED
    BY <2>1
<1>2. recs \in [Pairs -> Records] /\ \A q \in Pairs : recs[q].dist = dist[q]
  BY ExactRecordsFit
<1>3. \A a \in Actions : Target(aut, p, a) \in Pairs /\ dist[Target(aut, p, a)] \in Distances
  BY TargetType, ExactDistanceIn
<1>4. dist[p] \in Distances
  BY ExactDistanceIn
<1>5. CASE p \in Diagonal
  BY <1>1, <1>5 DEF Evaluate
<1>6. CASE p \notin Diagonal
  <2>1. ASSUME NEW a \in Actions
        PROVE  D(a) = IF Terminal(aut, obj, p, a) THEN 1
                      ELSE IF dist[Target(aut, p, a)] = None THEN None
                      ELSE dist[Target(aut, p, a)] + 1
    BY <1>2, <1>3 DEF ArcDistance
  <2>2. ASSUME NEW a \in Actions, D(a) # None
        PROVE  dist[p] \in Nat /\ D(a) \in Nat /\ dist[p] <= D(a)
    <3>1. CASE Terminal(aut, obj, p, a)
      <4>1. dist[p] \in 0 .. 1 /\ D(a) = 1
        BY <2>1, <3>1, ExactClosed
      <4>2. QED
        BY <4>1
    <3>2. CASE ~Terminal(aut, obj, p, a)
      <4>1. PICK j \in Nat : j = dist[Target(aut, p, a)] /\ D(a) = j + 1
        BY <1>3, <2>1, <2>2, <3>2 DEF Distances
      <4>2. dist[p] \in 0 .. (j + 1)
        BY <4>1, ExactClosed
      <4>3. QED
        BY <4>1, <4>2
    <3>3. QED
      BY <3>1, <3>2
  <2>3. ASSUME dist[p] # None PROVE \E a \in Actions : D(a) = dist[p] /\ dist[p] \in Nat \ {0}
    <3>1. dist[p] \in Nat \ {0}
      BY <1>6, <2>3, ExactAttained
    <3>2. PICK a \in Actions :
            \/ dist[p] = 1 /\ Terminal(aut, obj, p, a)
            \/ /\ ~Terminal(aut, obj, p, a)
               /\ dist[Target(aut, p, a)] = dist[p] - 1
               /\ dist[Target(aut, p, a)] \in Nat
      BY <1>6, <2>3, ExactAttained
    <3>3. PICK d \in Nat \ {0} : d = dist[p]
      BY <3>1
    <3>4. CASE Terminal(aut, obj, p, a)
      BY <2>1, <3>1, <3>2, <3>4
    <3>5. CASE ~Terminal(aut, obj, p, a)
      <4>1. PICK j \in Nat : j = dist[Target(aut, p, a)] /\ j = d - 1
        BY <3>2, <3>3, <3>5
      <4>2. D(a) = j + 1
        <5>1. j # None /\ dist[Target(aut, p, a)] = j
          BY <4>1 DEF None
        <5> HIDE DEF dist
        <5>2. QED
          BY <2>1, <3>5, <5>1
      <4>3. D(a) = d
        BY <3>3, <4>1, <4>2
      <4>4. QED
        BY <3>1, <3>3, <4>3
    <3>6. QED
      BY <3>4, <3>5
  <2>4. Best(aut, obj, recs, p)
          = {a \in Actions : D(a) # None /\ \A b \in Actions : ~Closer(D(b), D(a))}
    BY DEF Best
  <2> HIDE DEF D
  <2>5. CASE dist[p] = None
    <3>1. \A a \in Actions : D(a) = None
      BY <2>2, <2>5 DEF None
    <3>2. Best(aut, obj, recs, p) = {}
      BY <2>4, <3>1
    <3>3. Evaluate(aut, obj, recs, p) = Unreached
      BY <1>6, <3>2 DEF Evaluate
    <3>4. QED
      BY <1>1, <1>6, <2>5, <3>3
  <2>6. CASE dist[p] # None
    <3>1. PICK d \in Nat \ {0} : d = dist[p] /\ \E a \in Actions : D(a) = d
      BY <2>3, <2>6
    <3>2. \A a \in Actions : D(a) # None => D(a) \in Nat /\ d <= D(a)
      BY <2>2, <3>1
    <3>3. d # None
      BY DEF None
    <3>4. \A a \in Actions : a \in Best(aut, obj, recs, p) <=> D(a) = d
      BY <2>4, <3>1, <3>2, <3>3 DEF Closer
    <3>5. \A a \in Actions : a \in Attaining(p) <=> D(a) = d
      <4>1. ASSUME NEW a \in Actions PROVE a \in Attaining(p) <=> D(a) = d
        <5>1. CASE Terminal(aut, obj, p, a)
          BY <2>1, <3>1, <5>1
        <5>2. CASE ~Terminal(aut, obj, p, a)
          BY <2>1, <3>1, <3>3, <5>2
        <5>3. QED
          BY <5>1, <5>2
      <4>2. QED
        BY <4>1
    <3>6. PICK A : A = Attaining(p)
      OBVIOUS
    <3>7. A = Best(aut, obj, recs, p) /\ A \subseteq Actions
      <4>1. Best(aut, obj, recs, p) \subseteq Actions /\ A \subseteq Actions
        BY <3>6 DEF Best
      <4>2. QED
        BY <3>4, <3>5, <3>6, <4>1
    <3>8. A # {}
      BY <3>1, <3>4, <3>7
    <3>9. PICK act : act = CHOOSE a \in A : \A b \in A : a <= b
      OBVIOUS
    <3>10. act \in A /\ act \in Actions
      BY <3>7, <3>8, <3>9, FirstAction
    <3>11. D(act) = d
      BY <3>5, <3>6, <3>10
    <3>12. AtOnce(p, act) <=> Terminal(aut, obj, p, act)
      BY <2>1, <3>1, <3>10, <3>11
    <3>13. Rec(p) = [dist |-> d, act |-> act,
                     next |-> IF AtOnce(p, act) THEN NoPair ELSE Target(aut, p, act),
                     sup |-> Cardinality(A)]
      BY <1>6, <2>6, <3>1, <3>6, <3>9
    <3>14. Evaluate(aut, obj, recs, p)
             = [dist |-> D(act), act |-> act,
                next |-> IF Terminal(aut, obj, p, act) THEN NoPair ELSE Target(aut, p, act),
                sup |-> Cardinality(A)]
      BY <1>6, <3>7, <3>8, <3>9 DEF Evaluate, D
    <3> HIDE DEF Rec, AtOnce, recs
    <3>15. QED
      BY <1>1, <3>11, <3>12, <3>13, <3>14 DEF recs
  <2>7. QED
    BY <2>5, <2>6
<1>7. QED
  BY <1>5, <1>6

\* Records that are all what their targets give them are the exact ones: no
\* circle of records can hold itself up, because each arc is one step.
LEMMA FixedExact ==
  ASSUME NEW aut \in Automata, NEW obj, NEW recs \in [Pairs -> Records],
         \A p \in Pairs : recs[p] = Evaluate(aut, obj, recs, p)
  PROVE  recs = ExactRecords(aut, obj)
<1> DEFINE exact == ExactRecords(aut, obj)
           dist == ExactDistances(aut, obj)
<1>1. exact \in [Pairs -> Records] /\ \A p \in Pairs : exact[p].dist = dist[p]
  BY ExactRecordsFit
<1>2. \A p \in Pairs : exact[p] = Evaluate(aut, obj, exact, p)
  BY ExactFixed
<1> HIDE DEF exact, dist
<1>3. ASSUME NEW one \in [Pairs -> Records], NEW two \in [Pairs -> Records],
             \A p \in Pairs : one[p] = Evaluate(aut, obj, one, p),
             \A p \in Pairs : two[p] = Evaluate(aut, obj, two, p)
      PROVE  \A p \in Pairs : one[p].dist # None => ~Closer(one[p].dist, two[p].dist)
  <2> DEFINE Bad == {k \in Nat : \E p \in Pairs : one[p].dist = k /\ Closer(k, two[p].dist)}
  <2>1. SUFFICES ASSUME Bad # {} PROVE FALSE
    <3>1. ASSUME Bad = {}, NEW p \in Pairs, one[p].dist # None, Closer(one[p].dist, two[p].dist)
          PROVE  FALSE
      <4>1. one[p].dist \in Nat
        BY <3>1 DEF Records, Distances
      <4>2. QED
        BY <3>1, <4>1
    <3>2. QED
      BY <3>1
  <2>2. PICK k \in Bad : \A j \in Bad : k <= j
    <3>1. Bad \subseteq Nat
      OBVIOUS
    <3>2. QED
      BY <2>1, <3>1, LeastNatural
  <2>3. PICK p \in Pairs : one[p].dist = k /\ Closer(k, two[p].dist)
    BY <2>2
  <2>4. k \in Nat /\ k # None
    BY <2>2 DEF None
  <2>5. p \notin Diagonal
    <3>1. p \in Diagonal => two[p] = Root /\ one[p] = Root
      BY <1>3, EvaluateShape
    <3>2. QED
      BY <2>3, <3>1, PlainRecords DEF Closer
  <2>6. PICK a \in Actions : ArcDistance(aut, obj, one, p, a) = k
    BY <1>3, <2>3, <2>4, <2>5, EvaluateFits
  <2>7. ~Closer(ArcDistance(aut, obj, two, p, a), two[p].dist)
    BY <1>3, <2>5, EvaluateFits
  <2>8. ~Terminal(aut, obj, p, a)
    BY <2>3, <2>6, <2>7 DEF ArcDistance
  <2>9. PICK q \in Pairs : q = Target(aut, p, a)
    BY TargetType
  <2>10. one[q].dist \in Nat /\ k = one[q].dist + 1
    BY <2>4, <2>6, <2>8, <2>9 DEF ArcDistance, Records, Distances
  <2>11. PICK j \in Nat : j = one[q].dist /\ k = j + 1
    BY <2>10
  <2>12. j \notin Bad
    BY <2>2, <2>11
  <2>13. ~Closer(j, two[q].dist)
    BY <2>11, <2>12
  <2>14. two[q].dist \in Distances /\ two[p].dist \in Distances
    BY DEF Records
  <2>15. PICK e \in Nat : e = two[q].dist /\ e <= j
    BY <2>11, <2>13, <2>14 DEF Closer, Distances, None
  <2>16. ArcDistance(aut, obj, two, p, a) = e + 1
    BY <2>8, <2>9, <2>15 DEF ArcDistance, None
  <2>17. QED
    BY <2>3, <2>7, <2>11, <2>14, <2>15, <2>16 DEF Closer, Distances, None
<1>4. \A p \in Pairs : recs[p].dist = exact[p].dist
  <2>1. ASSUME NEW p \in Pairs PROVE recs[p].dist = exact[p].dist
    <3>1. recs[p].dist # None => ~Closer(recs[p].dist, exact[p].dist)
      BY <1>1, <1>2, <1>3
    <3>2. exact[p].dist # None => ~Closer(exact[p].dist, recs[p].dist)
      BY <1>1, <1>2, <1>3
    <3>3. recs[p].dist \in Distances /\ exact[p].dist \in Distances
      BY <1>1 DEF Records
    <3>4. QED
      BY <3>1, <3>2, <3>3 DEF Closer, Distances
  <2>2. QED
    BY <2>1
<1>5. ASSUME NEW p \in Pairs PROVE recs[p] = exact[p]
  <2>1. \A a \in Actions : ArcDistance(aut, obj, recs, p, a) = ArcDistance(aut, obj, exact, p, a)
    BY <1>4, TargetType DEF ArcDistance
  <2>2. Evaluate(aut, obj, recs, p) = Evaluate(aut, obj, exact, p)
    BY <2>1, EvaluateSame
  <2>3. QED
    BY <1>2, <2>2
<1>6. recs = exact
  BY <1>1, <1>5
<1>7. QED
  BY <1>6 DEF exact

\* The pairs whose record is not the one that their targets give them.
Loose(aut, obj, recs) == {p \in Pairs : recs[p] # Evaluate(aut, obj, recs, p)}

\* Pairs on the diagonal are roots, and a pair without a distance has the plain
\* record.
Plain(recs) ==
  \A p \in Pairs : /\ p \in Diagonal => recs[p] = Root
                   /\ recs[p].dist = None => recs[p] = Unreached

\* What a batch loses: pairs whose distance would grow, or nothing, when there
\* are none.
LostOf(aut, obj, recs, S, lost) ==
  \A q \in S : q \in lost <=> Closer(recs[q].dist, Evaluate(aut, obj, recs, q).dist)

\* Writing a batch keeps the plain records.
LEMMA WrittenPlain ==
  ASSUME NEW aut \in Automata, NEW obj, NEW recs \in [Pairs -> Records], Plain(recs),
         NEW S, NEW lost \in SUBSET S, LostOf(aut, obj, recs, S, lost)
  PROVE  Plain(Written(aut, obj, recs, S, lost))
<1> DEFINE after == Written(aut, obj, recs, S, lost)
<1>1. \A q \in Pairs : after[q] = IF q \in lost THEN Unreached
                                  ELSE IF q \in S THEN Evaluate(aut, obj, recs, q)
                                  ELSE recs[q]
  BY DEF Written
<1> HIDE DEF after
<1>2. ASSUME NEW p \in Pairs, p \in Diagonal PROVE after[p] = Root
  <2>1. Evaluate(aut, obj, recs, p) = Root /\ recs[p] = Root
    BY <1>2, EvaluateShape DEF Plain
  <2>2. p \notin lost
    BY <2>1, PlainRecords DEF LostOf, Closer
  <2>3. QED
    BY <1>1, <2>1, <2>2
<1>3. ASSUME NEW p \in Pairs, after[p].dist = None PROVE after[p] = Unreached
  <2>1. Evaluate(aut, obj, recs, p).dist = None => Evaluate(aut, obj, recs, p) = Unreached
    BY EvaluateShape
  <2>2. recs[p].dist = None => recs[p] = Unreached
    BY DEF Plain
  <2>3. QED
    BY <1>1, <1>3, <2>1, <2>2
<1>4. QED
  BY <1>2, <1>3 DEF Plain, after

\* A pair has the same record coming to it after a batch, unless one of its arcs
\* leads to a pair whose distance the batch changed.
LEMMA EvaluateAfter ==
  ASSUME NEW aut \in Automata, NEW obj, NEW recs, NEW after, NEW p \in Pairs, NEW moved,
         \A q \in Pairs \ moved : after[q].dist = recs[q].dist,
         p \notin Predecessors(aut, moved)
  PROVE  Evaluate(aut, obj, after, p) = Evaluate(aut, obj, recs, p)
<1>1. \A a \in Actions : Target(aut, p, a) \in Pairs \ moved
  BY TargetType DEF Predecessors
<1>2. \A a \in Actions : ArcDistance(aut, obj, after, p, a) = ArcDistance(aut, obj, recs, p, a)
  BY <1>1 DEF ArcDistance
<1>3. QED
  BY <1>2, EvaluateSame

\* The pairs of a batch that come closer.
Won(aut, obj, recs, S) ==
  {q \in S : Closer(Evaluate(aut, obj, recs, q).dist, recs[q].dist)}

\* What is loose after a batch has an arc into a pair that was lost or came
\* closer, or it was loose and is not of the batch, or it was lost.
LEMMA BatchLoose ==
  ASSUME NEW aut \in Automata, NEW obj, NEW recs \in [Pairs -> Records],
         NEW S, NEW lost \in SUBSET S, LostOf(aut, obj, recs, S, lost),
         NEW after, after = Written(aut, obj, recs, S, lost),
         NEW p \in Loose(aut, obj, after)
  PROVE  \/ p \in Predecessors(aut, lost \cup Won(aut, obj, recs, S))
         \/ p \in lost
         \/ p \notin S /\ p \in Loose(aut, obj, recs)
<1>1. \A q \in Pairs : after[q] = IF q \in lost THEN Unreached
                                  ELSE IF q \in S THEN Evaluate(aut, obj, recs, q)
                                  ELSE recs[q]
  BY DEF Written
<1>2. PICK moved : moved = lost \cup Won(aut, obj, recs, S)
  OBVIOUS
<1>3. ASSUME NEW q \in Pairs \ moved PROVE after[q].dist = recs[q].dist
  <2>1. q \notin lost /\ q \notin Won(aut, obj, recs, S)
    BY <1>2
  <2>2. CASE q \in S
    <3>1. PICK d \in Distances, e \in Distances :
            d = recs[q].dist /\ e = Evaluate(aut, obj, recs, q).dist
      BY EvaluateFits DEF Records
    <3>2. ~Closer(d, e) /\ ~Closer(e, d)
      BY <2>1, <2>2, <3>1 DEF LostOf, Won
    <3>3. d = e
      BY <3>1, <3>2 DEF Closer, Distances
    <3>4. QED
      BY <1>1, <2>1, <2>2, <3>1, <3>3
  <2>3. CASE q \notin S
    BY <1>1, <2>1, <2>3
  <2>4. QED
    BY <2>2, <2>3
<1>4. SUFFICES ASSUME p \notin Predecessors(aut, moved), p \notin lost
               PROVE  p \notin S /\ p \in Loose(aut, obj, recs)
  BY <1>2
<1>5. p \in Pairs /\ after[p] # Evaluate(aut, obj, after, p)
  BY DEF Loose
<1>6. Evaluate(aut, obj, after, p) = Evaluate(aut, obj, recs, p)
  BY <1>3, <1>4, <1>5, EvaluateAfter
<1>7. p \notin S
  BY <1>1, <1>4, <1>5, <1>6
<1>8. after[p] = recs[p]
  BY <1>1, <1>4, <1>5, <1>7
<1>9. QED
  BY <1>5, <1>6, <1>7, <1>8 DEF Loose

-----------------------------------------------------------------------------
(* Repaired records are exact unless a pair was skipped. *)

\* A record may stay behind when a repair skipped a pair: it says unreachable.
LeftBehind(recs, p) == skipped # {} /\ recs[p].dist = None

Settled(aut, obj, recs) == \A p \in Loose(aut, obj, recs) : LeftBehind(recs, p)

\* The loose pairs of the objective that is being repaired.
Current == Loose(candidate, objective, work[objective])

PlainKept == \A obj \in Objectives : Plain(records[obj]) /\ Plain(work[obj])

PublishedSettled == \A obj \in Objectives : Settled(automaton, obj, records[obj])

WorkSettled ==
  /\ Repairing /\ objective = "resolution" => Settled(candidate, "merge", work["merge"])
  /\ phase = "repaired" => \A obj \in Objectives : Settled(candidate, obj, work[obj])

\* A loose pair is still to be evaluated: it has an arc into a pair that was just
\* lost or is queued, or it was lost and is not settled.
LooseCovered ==
  /\ phase = "invalidate" =>
       \A p \in Current : \/ p \in Predecessors(candidate, fresh \cup queued)
                          \/ p \in invalid \/ LeftBehind(work[objective], p)
  /\ phase = "rebuild" =>
       \A p \in Current : \/ p \in Predecessors(candidate, queued)
                          \/ p \in invalid \ finalized \/ LeftBehind(work[objective], p)
  /\ phase = "propagate" =>
       \A p \in Current : p \in Predecessors(candidate, queued) \/ LeftBehind(work[objective], p)

\* The tentative distance of a pair that is not settled is the one its targets
\* give it, and the heap has it unless the pair was skipped.
HeapCovers ==
  phase = "rebuild" =>
    \A p \in invalid \ finalized :
      /\ tentative[p] = New(p).dist
      /\ tentative[p] # None => <<p, tentative[p]>> \in heap \/ skipped # {}

ExactInv == PlainKept /\ PublishedSettled /\ WorkSettled /\ LooseCovered /\ HeapCovers

\* What a batch makes of the loose pairs of its objective.
LEMMA LooseStep ==
  ASSUME TypeOK, PlainKept, NEW S \in SUBSET Pairs, NEW lost, lost = Raised(S),
         Write(S, lost), UNCHANGED <<candidate, objective, records>>
  PROVE  /\ PlainKept'
         /\ \A p \in Current' : \/ p \in Predecessors(candidate, lost \cup Lowered(S))
                                \/ p \in lost
                                \/ p \notin S /\ p \in Current
         /\ \A p \in Pairs \ S : work'[objective][p] = work[objective][p]
         /\ \A obj \in Objectives \ {objective} : work'[obj] = work[obj]
<1>1. PICK recs \in [Pairs -> Records] : recs = work[objective]
  BY DEF TypeOK
<1>2. PICK after : after = Written(candidate, objective, recs, S, lost)
  OBVIOUS
<1>3. work'[objective] = after /\ \A obj \in Objectives \ {objective} : work'[obj] = work[obj]
  BY <1>1, <1>2, WriteWritten DEF TypeOK
<1>4. lost \in SUBSET S /\ LostOf(candidate, objective, recs, S, lost)
  BY <1>1 DEF Raised, LostOf, Old, New
<1>5. candidate \in Automata /\ objective \in Objectives /\ Plain(recs)
  BY <1>1 DEF TypeOK, PlainKept
<1>6. Plain(after)
  BY <1>1, <1>2, <1>4, <1>5, WrittenPlain
<1>7. PlainKept'
  BY <1>3, <1>5, <1>6 DEF PlainKept
<1>8. Lowered(S) = Won(candidate, objective, recs, S)
  BY <1>1 DEF Lowered, Won, Old, New
<1>9. Current' = Loose(candidate, objective, after)
  BY <1>3 DEF Current
<1>10. Current = Loose(candidate, objective, recs)
  BY <1>1 DEF Current
<1>11. \A p \in Current' : \/ p \in Predecessors(candidate, lost \cup Lowered(S))
                           \/ p \in lost
                           \/ p \notin S /\ p \in Current
  BY <1>1, <1>2, <1>4, <1>5, <1>8, <1>9, <1>10, BatchLoose
<1>12. \A p \in Pairs \ S : after[p] = recs[p]
  BY <1>2, <1>4 DEF Written
<1>13. QED
  BY <1>1, <1>3, <1>7, <1>11, <1>12

\* A repair step leaves what is published, and the objective that it does not
\* repair, as settled as they were.
LEMMA SettledRest ==
  ASSUME TypeOK, ExactInv, Repairing, Repairing' \/ phase' = "bounded",
         UNCHANGED <<automaton, records, candidate, objective>>, skipped \subseteq skipped',
         \A obj \in Objectives \ {objective} : work'[obj] = work[obj]
  PROVE  PublishedSettled' /\ WorkSettled'
<1>1. skipped # {} => skipped' # {}
  OBVIOUS
<1>2. PublishedSettled'
  BY <1>1 DEF ExactInv, PublishedSettled, Settled, LeftBehind
<1>3. objective = "resolution" => work'["merge"] = work["merge"]
  BY DEF Objectives
<1>4. (Repairing /\ objective = "resolution" => Settled(candidate, "merge", work["merge"]))'
  BY <1>1, <1>3 DEF ExactInv, WorkSettled, Settled, LeftBehind
<1>5. phase' # "repaired"
  BY DEF Repairing
<1>6. WorkSettled'
  BY <1>4, <1>5 DEF WorkSettled
<1>7. QED
  BY <1>2, <1>6

\* Exact records are plain, and no pair of theirs is loose.
LEMMA ExactSettled ==
  ASSUME NEW aut \in Automata, NEW obj \in Objectives
  PROVE  Plain(ExactOracle(aut)[obj]) /\ Loose(aut, obj, ExactOracle(aut)[obj]) = {}
<1>1. PICK recs \in [Pairs -> Records] :
        recs = ExactRecords(aut, obj) /\ ExactOracle(aut)[obj] = recs
  BY ExactRecordsFit DEF ExactOracle
<1>2. \A p \in Pairs : recs[p] = Evaluate(aut, obj, recs, p)
  BY <1>1, ExactFixed
<1>3. Plain(recs)
  BY <1>2, EvaluateShape DEF Plain
<1>4. QED
  BY <1>1, <1>2, <1>3 DEF Loose

\* Initially the exact oracle is published.
LEMMA InitExact == Init => ExactInv
<1> SUFFICES ASSUME Init PROVE ExactInv
  OBVIOUS
<1>1. automaton \in Automata /\ records = ExactOracle(automaton) /\ work = records
      /\ phase = "idle"
  BY RepairAssumption DEF Init
<1>2. PlainKept /\ PublishedSettled
  BY <1>1, ExactSettled DEF PlainKept, PublishedSettled, Settled
<1>3. QED
  BY <1>1, <1>2 DEF ExactInv, WorkSettled, LooseCovered, HeapCovers, Repairing

\* An update begins with the published records.
LEMMA BeginExact ==
  ASSUME ExactInv, SafeInv, BeginUpdate
  PROVE  ExactInv'
<1>1. PICK b \in Budgets, cells \in Batches :
        \E targets \in [cells -> States], outputs \in [cells -> Outputs] :
          Begin(cells, targets, outputs, b)
  BY DEF BeginUpdate
<1>2. /\ UNCHANGED <<automaton, records, objective, skipped>> /\ work' = records
      /\ phase' \in {"bounded", "seed"} /\ phase = "idle"
  BY <1>1 DEF Begin, BeginUpdate, published
<1>3. objective' = "merge"
  BY <1>2 DEF SafeInv, WorkFits
<1>4. PlainKept' /\ PublishedSettled'
  BY <1>2 DEF ExactInv, PlainKept, PublishedSettled, Settled, LeftBehind
<1>5. QED
  BY <1>2, <1>3, <1>4 DEF ExactInv, WorkSettled, LooseCovered, HeapCovers

\* No pair on the diagonal is loose.
LEMMA LooseApart ==
  ASSUME TypeOK, PlainKept, NEW p \in Current
  PROVE  p \in Pairs /\ p \notin Diagonal
<1>1. /\ p \in Pairs /\ objective \in Objectives
      /\ work[objective][p] # Evaluate(candidate, objective, work[objective], p)
  BY DEF Current, Loose, TypeOK
<1>2. p \in Diagonal => work[objective][p] = Root
  BY <1>1 DEF PlainKept, Plain
<1>3. p \in Diagonal => Evaluate(candidate, objective, work[objective], p) = Root
  BY <1>1 DEF Evaluate
<1>4. QED
  BY <1>1, <1>2, <1>3

\* The first batch: a pair that is not a seed has its arcs of before the update.
LEMMA SeedExact ==
  ASSUME TypeInv, SafeInv, ExactInv, SeedChanges
  PROVE  ExactInv'
<1>1. /\ phase = "seed" /\ phase' = "invalidate"
      /\ invalid' = Raised(SeedBatch) /\ fresh' = Raised(SeedBatch)
      /\ queued' = Lowered(SeedBatch)
      /\ Write(SeedBatch, Raised(SeedBatch))
      /\ UNCHANGED <<automaton, records, candidate, objective, skipped>>
  BY DEF SeedChanges, published
<1>2. TypeOK /\ SeedBatch \in SUBSET Pairs /\ PlainKept
  BY DEF TypeInv, TypeOK, SeedBatch, ExactInv
<1>3. /\ PlainKept'
      /\ \A p \in Current' :
           \/ p \in Predecessors(candidate, Raised(SeedBatch) \cup Lowered(SeedBatch))
           \/ p \in Raised(SeedBatch)
           \/ p \notin SeedBatch /\ p \in Current
      /\ \A p \in Pairs \ SeedBatch : work'[objective][p] = work[objective][p]
      /\ \A obj \in Objectives \ {objective} : work'[obj] = work[obj]
  BY <1>1, <1>2, LooseStep
<1>4. ASSUME NEW p \in Current, p \notin SeedBatch
      PROVE  LeftBehind(work[objective], p)
  <2>1. /\ p \in Pairs /\ objective \in Objectives
        /\ work[objective][p] # Evaluate(candidate, objective, work[objective], p)
    BY <1>2 DEF Current, Loose, TypeOK
  <2>2. work[objective] = records[objective]
    BY <1>1 DEF SafeInv, WorkFits
  <2>3. p \notin Diagonal
    BY <1>2, LooseApart
  <2>4. p \notin seeds
    BY <1>4, <2>3 DEF SeedBatch
  <2>5. \A a \in Actions :
          /\ Target(candidate, p, a) = Target(automaton, p, a)
          /\ OutputsDiffer(candidate, p, a) <=> OutputsDiffer(automaton, p, a)
    BY <1>1, <2>1, <2>4 DEF SafeInv, SeedsCover, Repairing
  <2>6. \A a \in Actions :
          /\ Terminal(candidate, objective, p, a) <=> Terminal(automaton, objective, p, a)
          /\ ArcDistance(candidate, objective, work[objective], p, a)
               = ArcDistance(automaton, objective, work[objective], p, a)
    BY <2>5 DEF Terminal, ArcDistance
  <2>7. Evaluate(candidate, objective, work[objective], p)
          = Evaluate(automaton, objective, work[objective], p)
    BY <2>5, <2>6, EvaluateSame
  <2>8. p \in Loose(automaton, objective, records[objective])
    BY <2>1, <2>2, <2>7 DEF Loose
  <2>9. QED
    BY <2>1, <2>2, <2>8 DEF ExactInv, PublishedSettled, Settled, LeftBehind
<1>5. LooseCovered'
  <2>1. ASSUME NEW p \in Current'
        PROVE  \/ p \in Predecessors(candidate, Raised(SeedBatch) \cup Lowered(SeedBatch))
               \/ p \in Raised(SeedBatch) \/ LeftBehind(work[objective], p)'
    <3>1. CASE p \notin SeedBatch /\ p \in Current
      <4>1. p \in Pairs /\ work'[objective][p] = work[objective][p]
        BY <1>3, <3>1 DEF Current, Loose
      <4>2. QED
        BY <1>1, <1>4, <3>1, <4>1 DEF LeftBehind
    <3>2. QED
      BY <1>3, <2>1, <3>1
  <2>2. QED
    BY <1>1, <2>1 DEF LooseCovered
<1>6. PublishedSettled' /\ WorkSettled'
  BY <1>1, <1>2, <1>3, SettledRest DEF Repairing
<1>7. QED
  BY <1>1, <1>3, <1>5, <1>6 DEF ExactInv, HeapCovers

\* More targets have more predecessors.
LEMMA PredecessorsMore ==
  ASSUME NEW aut, NEW few, NEW many, few \subseteq many
  PROVE  Predecessors(aut, few) \subseteq Predecessors(aut, many)
  BY DEF Predecessors

\* A batch of invalidation evaluates what the last one made loose.
LEMMA InvalidateExact ==
  ASSUME TypeInv, SafeInv, ExactInv, InvalidateDependents
  PROVE  ExactInv'
<1>1. /\ phase = "invalidate" /\ phase' = "invalidate"
      /\ invalid' = invalid \cup Raised(Dependents) /\ fresh' = Raised(Dependents)
      /\ queued' = queued \cup Lowered(Dependents)
      /\ Write(Dependents, Raised(Dependents))
      /\ UNCHANGED <<automaton, records, candidate, objective, skipped>>
  BY DEF InvalidateDependents, published
<1>2. TypeOK /\ Dependents \in SUBSET Pairs /\ PlainKept
  BY DEF TypeInv, Dependents, Predecessors, ExactInv
<1>3. /\ PlainKept'
      /\ \A p \in Current' :
           \/ p \in Predecessors(candidate, Raised(Dependents) \cup Lowered(Dependents))
           \/ p \in Raised(Dependents)
           \/ p \notin Dependents /\ p \in Current
      /\ \A p \in Pairs \ Dependents : work'[objective][p] = work[objective][p]
      /\ \A obj \in Objectives \ {objective} : work'[obj] = work[obj]
  BY <1>1, <1>2, LooseStep
<1>4. ASSUME NEW p \in Current'
      PROVE  \/ p \in Predecessors(candidate, fresh' \cup queued')
             \/ p \in invalid' \/ LeftBehind(work[objective], p)'
  <2>1. CASE p \in Predecessors(candidate, Raised(Dependents) \cup Lowered(Dependents))
    <3>1. Raised(Dependents) \cup Lowered(Dependents) \subseteq fresh' \cup queued'
      BY <1>1
    <3>2. QED
      BY <2>1, <3>1, PredecessorsMore
  <2>2. CASE p \in Raised(Dependents)
    BY <1>1, <2>2
  <2>3. CASE p \notin Dependents /\ p \in Current
    <3>1. p \in Pairs /\ p \notin Diagonal
      BY <1>2, <2>3, LooseApart
    <3>2. \/ p \in Predecessors(candidate, fresh \cup queued)
          \/ p \in invalid \/ LeftBehind(work[objective], p)
      BY <1>1, <2>3 DEF ExactInv, LooseCovered
    <3>3. CASE p \in Predecessors(candidate, fresh \cup queued)
      <4>1. p \in Predecessors(candidate, fresh) \/ p \in Predecessors(candidate, queued)
        BY <3>3 DEF Predecessors
      <4>2. p \in Predecessors(candidate, fresh) => p \in invalid
        BY <2>3, <3>1 DEF Dependents
      <4>3. queued \subseteq fresh' \cup queued'
        BY <1>1
      <4>4. Predecessors(candidate, queued) \subseteq Predecessors(candidate, fresh' \cup queued')
        BY <4>3, PredecessorsMore
      <4>5. QED
        BY <1>1, <4>1, <4>2, <4>4
    <3>4. CASE p \in invalid
      BY <1>1, <3>4
    <3>5. CASE LeftBehind(work[objective], p)
      BY <1>1, <1>3, <2>3, <3>1, <3>5 DEF LeftBehind
    <3>6. QED
      BY <3>2, <3>3, <3>4, <3>5
  <2>4. QED
    BY <1>3, <2>1, <2>2, <2>3
<1>5. LooseCovered'
  BY <1>1, <1>4 DEF LooseCovered
<1>6. PublishedSettled' /\ WorkSettled'
  BY <1>1, <1>2, <1>3, SettledRest DEF Repairing
<1>7. QED
  BY <1>1, <1>3, <1>5, <1>6 DEF ExactInv, HeapCovers

\* The heap starts with what the arcs of the lost pairs give them.
LEMMA SeedHeapExact ==
  ASSUME TypeInv, ExactInv, SeedHeap
  PROVE  ExactInv'
<1>1. /\ phase = "invalidate" /\ fresh = {} /\ phase' = "rebuild"
      /\ UNCHANGED <<automaton, records, candidate, objective, work, invalid, queued,
                     finalized, skipped>>
  BY DEF SeedHeap, published
<1>2. finalized = {} /\ TypeOK /\ invalid \subseteq Pairs
  BY <1>1 DEF TypeInv, FlagsFit, TypeOK
<1>3. PlainKept'
  BY <1>1 DEF ExactInv, PlainKept
<1>4. LooseCovered'
  <2>1. Current' = Current
    BY <1>1 DEF Current
  <2>2. \A p \in Current : \/ p \in Predecessors(candidate, queued)
                           \/ p \in invalid \/ LeftBehind(work[objective], p)
    BY <1>1 DEF ExactInv, LooseCovered
  <2>3. QED
    BY <1>1, <1>2, <2>1, <2>2 DEF LooseCovered, LeftBehind
<1>5. HeapCovers'
  <2>1. ASSUME NEW p \in invalid
        PROVE  /\ tentative'[p] = New(p)'.dist
               /\ tentative'[p] # None => <<p, tentative'[p]>> \in heap'
    <3>1. p \in Pairs
      BY <1>2
    <3>2. New(p)' = New(p)
      BY <1>1 DEF New
    <3>3. tentative' = [q \in Pairs |-> IF q \in invalid THEN New(q).dist ELSE tentative[q]]
      BY DEF SeedHeap
    <3>4. heap' = {<<q, tentative'[q]>> : q \in {r \in invalid : tentative'[r] # None}}
      BY DEF SeedHeap
    <3>5. QED
      BY <3>1, <3>2, <3>3, <3>4
  <2>2. QED
    BY <1>1, <2>1 DEF HeapCovers
<1>6. PublishedSettled' /\ WorkSettled'
  BY <1>1, <1>2, SettledRest DEF Repairing
<1>7. QED
  BY <1>3, <1>4, <1>5, <1>6 DEF ExactInv

\* What settling pairs at distance d brings a predecessor of theirs to.
StepFrom(aut, obj, p, settled, d) ==
  IF \E a \in Actions : Target(aut, p, a) \in settled /\ Terminal(aut, obj, p, a)
  THEN 1 ELSE d + 1

\* Settling pairs that had no distance brings their predecessors one step further
\* than they are, or leaves them where they were.
LEMMA SettledNear ==
  ASSUME NEW aut \in Automata, NEW obj, NEW recs \in [Pairs -> Records],
         NEW after \in [Pairs -> Records], NEW settled, NEW d \in Nat,
         \A q \in Pairs : q \in settled => recs[q].dist = None /\ after[q].dist = d,
         \A q \in Pairs \ settled : after[q].dist = recs[q].dist,
         NEW p \in Pairs, p \notin Diagonal,
         NEW e, e = Evaluate(aut, obj, recs, p).dist,
         NEW r, r = StepFrom(aut, obj, p, settled, d)
  PROVE  Evaluate(aut, obj, after, p).dist
           = IF p \in Predecessors(aut, settled) /\ Closer(r, e) THEN r ELSE e
<1> DEFINE D(a) == ArcDistance(aut, obj, recs, p, a)
           N(a) == ArcDistance(aut, obj, after, p, a)
<1>1. e \in Distances /\ (e # None => \E a \in Actions : D(a) = e)
      /\ \A a \in Actions : ~Closer(D(a), e)
  BY EvaluateFits DEF Records
<1>2. ASSUME NEW a \in Actions
      PROVE  /\ D(a) \in Distances /\ N(a) \in Distances
             /\ Terminal(aut, obj, p, a) => D(a) = 1 /\ N(a) = 1
             /\ ~Terminal(aut, obj, p, a) /\ Target(aut, p, a) \in settled =>
                  D(a) = None /\ N(a) = d + 1
             /\ ~Terminal(aut, obj, p, a) /\ Target(aut, p, a) \notin settled => N(a) = D(a)
             /\ D(a) # 0 /\ N(a) # 0
  <2>1. D(a) \in Distances /\ N(a) \in Distances
    BY ArcDistanceType
  <2>2. PICK q \in Pairs : q = Target(aut, p, a)
    BY TargetType
  <2>3. recs[q].dist \in Distances /\ after[q].dist \in Distances
    BY DEF Records
  <2>4. CASE Terminal(aut, obj, p, a)
    BY <2>1, <2>4 DEF ArcDistance
  <2>5. CASE ~Terminal(aut, obj, p, a)
    <3>1. D(a) = IF recs[q].dist = None THEN None ELSE recs[q].dist + 1
      BY <2>2, <2>5 DEF ArcDistance
    <3>2. N(a) = IF after[q].dist = None THEN None ELSE after[q].dist + 1
      BY <2>2, <2>5 DEF ArcDistance
    <3>3. D(a) # 0 /\ N(a) # 0
      BY <2>3, <3>1, <3>2 DEF Distances, None
    <3>4. q \in settled => D(a) = None /\ N(a) = d + 1
      BY <3>1, <3>2 DEF None
    <3>5. q \notin settled => N(a) = D(a)
      BY <3>1, <3>2
    <3>6. QED
      BY <2>1, <2>2, <2>5, <3>3, <3>4, <3>5
  <2>6. QED
    BY <2>4, <2>5
<1> HIDE DEF D, N
<1>3. ASSUME NEW m \in Distances, m # None => \E a \in Actions : N(a) = m,
             \A a \in Actions : ~Closer(N(a), m)
      PROVE  Evaluate(aut, obj, after, p).dist = m
  <2>1. LeastOf(aut, obj, after, p, m)
    BY <1>3 DEF N, LeastOf
  <2>2. QED
    BY <2>1, LeastDistance
<1>4. CASE p \notin Predecessors(aut, settled)
  <2>1. Evaluate(aut, obj, after, p) = Evaluate(aut, obj, recs, p)
    BY <1>4, EvaluateAfter
  <2>2. QED
    BY <1>4, <2>1
<1>5. CASE \E a \in Actions : Target(aut, p, a) \in settled /\ Terminal(aut, obj, p, a)
  <2>1. PICK a \in Actions : Target(aut, p, a) \in settled /\ Terminal(aut, obj, p, a)
    BY <1>5
  <2>2. D(a) = 1 /\ N(a) = 1
    BY <1>2, <2>1
  <2>3. r = 1
    BY <1>5 DEF StepFrom
  <2>4. e # 0
    BY <1>1, <1>2 DEF None
  <2>5. e = 1
    BY <1>1, <2>2, <2>4 DEF Closer, Distances, None
  <2>6. ~Closer(r, e)
    BY <2>3, <2>5 DEF Closer
  <2>7. \A b \in Actions : ~Closer(N(b), 1)
    BY <1>2 DEF Closer, Distances, None
  <2>8. Evaluate(aut, obj, after, p).dist = 1
    <3>1. 1 \in Distances
      BY DEF Distances
    <3>2. QED
      BY <1>3, <2>2, <2>7, <3>1
  <2>9. QED
    BY <2>5, <2>6, <2>8
<1>6. CASE /\ p \in Predecessors(aut, settled)
           /\ ~ \E a \in Actions : Target(aut, p, a) \in settled /\ Terminal(aut, obj, p, a)
  <2>1. r = d + 1 /\ r \in Nat /\ r # None
    BY <1>6 DEF StepFrom, None
  <2>2. PICK a \in Actions : Target(aut, p, a) \in settled
    BY <1>6 DEF Predecessors
  <2>3. N(a) = r
    BY <1>2, <1>6, <2>1, <2>2
  <2>4. PICK m : m = IF Closer(r, e) THEN r ELSE e
    OBVIOUS
  <2>5. m \in Distances
    BY <1>1, <2>1, <2>4 DEF Distances
  <2>6. m # None => \E b \in Actions : N(b) = m
    <3>1. CASE Closer(r, e)
      BY <2>3, <2>4, <3>1
    <3>2. CASE ~Closer(r, e)
      <4>1. ASSUME e # None PROVE \E b \in Actions : N(b) = e
        <5>1. PICK b \in Actions : D(b) = e
          BY <1>1, <4>1
        <5>2. N(b) = D(b)
          BY <1>2, <4>1, <5>1
        <5>3. QED
          BY <5>1, <5>2
      <4>2. QED
        BY <2>4, <3>2, <4>1
    <3>3. QED
      BY <3>1, <3>2
  <2>7. ASSUME NEW b \in Actions PROVE ~Closer(N(b), m)
    <3>1. N(b) = r \/ N(b) = D(b)
      BY <1>2, <2>1
    <3>2. ~Closer(r, m)
      BY <1>1, <2>1, <2>4 DEF Closer, Distances
    <3>3. ~Closer(D(b), m)
      <4>1. ~Closer(D(b), e) /\ D(b) \in Distances
        BY <1>1, <1>2
      <4>2. QED
        BY <1>1, <2>1, <2>4, <4>1 DEF Closer, Distances
    <3>4. QED
      BY <3>1, <3>2, <3>3
  <2>8. Evaluate(aut, obj, after, p).dist = m
    BY <1>3, <2>5, <2>6, <2>7
  <2>9. QED
    BY <1>6, <2>4, <2>8
<1>7. QED
  BY <1>4, <1>5, <1>6

\* A step of the rebuild settles what the heap has at the lowest distance, and
\* tries the predecessors of the settled pairs at what their arcs give them.
LEMMA RebuildExact ==
  ASSUME TypeInv, SafeInv, ExactInv, RebuildStep
  PROVE  ExactInv'
<1> DEFINE settled == finalized' \ finalized
           recs == work[objective]
           after == work'[objective]
<1>1. PICK d \in {Lowest} :
        /\ finalized' = finalized \cup {p \in Frontier(d) : New(p).dist = d}
        /\ tentative' = [p \in Pairs |-> Retried(p, settled, d)]
        /\ heap' = {e \in heap : e[2] # d} \cup
                   {<<p, tentative'[p]>> : p \in {q \in Pairs : tentative'[q] # tentative[q]}}
        /\ skipped' = skipped \cup (Popped(d) \cap queued)
  BY DEF RebuildStep
<1>2. /\ phase = "rebuild" /\ phase' = "rebuild"
      /\ Write(settled, {}) /\ queued' = queued \cup settled
      /\ UNCHANGED <<automaton, records, candidate, objective, invalid>>
      /\ skipped \subseteq skipped' /\ finalized \subseteq finalized'
  BY <1>1 DEF RebuildStep, published
<1>3. d \in Nat
  BY <1>1, LowestNat DEF RebuildStep
<1>4. /\ TypeOK /\ PlainKept /\ candidate \in Automata /\ objective \in Objectives
      /\ recs \in [Pairs -> Records] /\ invalid \subseteq Pairs
  BY DEF TypeInv, TypeOK, ExactInv
<1>5. settled \subseteq invalid \ finalized
  BY RebuildTries
<1>6. \A p \in invalid \ finalized : recs[p].dist = None
  BY <1>2 DEF SafeInv, StaleCovered
<1>7. \A p \in settled : p \in Frontier(d) /\ New(p).dist = d
  BY <1>1
<1>8. \A p \in Frontier(d) : New(p).dist = d => p \in finalized'
  BY <1>1
<1> HIDE DEF settled
<1>9. Raised(settled) = {} /\ settled \in SUBSET Pairs
  BY <1>4, <1>5, <1>6 DEF Raised, Old, Closer
<1>10. /\ PlainKept'
       /\ \A p \in Current' : \/ p \in Predecessors(candidate, {} \cup Lowered(settled))
                              \/ p \in {}
                              \/ p \notin settled /\ p \in Current
       /\ \A p \in Pairs \ settled : after[p] = recs[p]
       /\ \A obj \in Objectives \ {objective} : work'[obj] = work[obj]
  BY <1>2, <1>4, <1>9, LooseStep
<1>11. \A p \in settled : after[p].dist = d
  <2>1. after = Written(candidate, objective, recs, settled, {})
    BY <1>2, <1>4, WriteWritten DEF TypeOK
  <2>2. ASSUME NEW p \in settled PROVE after[p].dist = d
    <3>1. p \in Pairs
      BY <1>9
    <3>2. after[p] = Evaluate(candidate, objective, recs, p)
      BY <2>1, <2>2, <3>1 DEF Written
    <3>3. QED
      BY <1>7, <2>2, <3>2 DEF New
  <2>3. QED
    BY <2>2
<1>12. after \in [Pairs -> Records]
  BY <1>2, <1>4, WriteType
<1>13. LooseCovered'
  <2>1. ASSUME NEW p \in Current'
        PROVE  \/ p \in Predecessors(candidate, queued')
               \/ p \in invalid \ finalized' \/ LeftBehind(work[objective], p)'
    <3>1. CASE p \in Predecessors(candidate, {} \cup Lowered(settled))
      <4>1. {} \cup Lowered(settled) \subseteq queued'
        BY <1>2 DEF Lowered
      <4>2. QED
        BY <3>1, <4>1, PredecessorsMore
    <3>2. CASE p \notin settled /\ p \in Current
      <4>1. \/ p \in Predecessors(candidate, queued)
            \/ p \in invalid \ finalized \/ LeftBehind(recs, p)
        BY <1>2, <3>2 DEF ExactInv, LooseCovered
      <4>2. CASE p \in Predecessors(candidate, queued)
        <5>1. queued \subseteq queued'
          BY <1>2
        <5>2. QED
          BY <4>2, <5>1, PredecessorsMore
      <4>3. CASE p \in invalid \ finalized
        BY <3>2, <4>3 DEF settled
      <4>4. CASE LeftBehind(recs, p)
        <5>1. p \in Pairs
          BY <3>2 DEF Current, Loose
        <5>2. after[p] = recs[p]
          BY <1>10, <3>2, <5>1
        <5>3. QED
          BY <1>2, <4>4, <5>2 DEF LeftBehind
      <4>5. QED
        BY <4>1, <4>2, <4>3, <4>4
    <3>3. QED
      BY <1>10, <3>1, <3>2
  <2>2. QED
    BY <1>2, <2>1 DEF LooseCovered
<1>14. ASSUME NEW p \in invalid \ finalized'
       PROVE  /\ tentative'[p] = New(p)'.dist
              /\ tentative'[p] # None => <<p, tentative'[p]>> \in heap' \/ skipped' # {}
  <2>1. p \in Pairs /\ p \in invalid \ finalized /\ p \notin settled
    BY <1>2, <1>4, <1>14 DEF settled
  <2>2. PICK e : e = New(p).dist
    OBVIOUS
  <2>3. tentative[p] = e /\ (e # None => <<p, e>> \in heap \/ skipped # {})
    BY <1>2, <2>1, <2>2 DEF ExactInv, HeapCovers
  <2>4. p \notin Diagonal
    <3>1. p \in Diagonal => recs[p] = Root
      BY <1>4, <2>1 DEF PlainKept, Plain
    <3>2. recs[p].dist # 0
      BY <1>6, <2>1 DEF None
    <3>3. QED
      BY <3>1, <3>2, PlainRecords
  <2>5. PICK r : r = StepFrom(candidate, objective, p, settled, d)
    OBVIOUS
  <2>6. Relaxed(p, settled, d) = r
    BY <2>5 DEF Relaxed, StepFrom
  <2>7. tentative'[p] = IF p \in Predecessors(candidate, settled) /\ Closer(r, e)
                        THEN r ELSE e
    <3>1. tentative'[p] = Retried(p, settled, d)
      BY <1>1, <2>1
    <3>2. QED
      BY <2>1, <2>2, <2>3, <2>6, <3>1 DEF Retried
  <2>8. New(p)'.dist = IF p \in Predecessors(candidate, settled) /\ Closer(r, e)
                       THEN r ELSE e
    <3>1. New(p)' = Evaluate(candidate, objective, after, p)
      BY <1>2 DEF New
    <3>2. e = Evaluate(candidate, objective, recs, p).dist
      BY <2>2 DEF New
    <3>3. \A q \in Pairs : q \in settled => recs[q].dist = None /\ after[q].dist = d
      BY <1>5, <1>6, <1>11
    <3>4. \A q \in Pairs \ settled : after[q].dist = recs[q].dist
      BY <1>10
    <3> HIDE DEF recs, after
    <3>5. Evaluate(candidate, objective, after, p).dist
            = IF p \in Predecessors(candidate, settled) /\ Closer(r, e) THEN r ELSE e
      BY <1>3, <1>4, <1>12, <2>1, <2>4, <2>5, <3>2, <3>3, <3>4, SettledNear
    <3>6. QED
      BY <3>1, <3>5
  <2>9. ASSUME tentative'[p] # None, skipped' = {} PROVE <<p, tentative'[p]>> \in heap'
    <3>1. CASE tentative'[p] # tentative[p]
      BY <1>1, <2>1, <3>1
    <3>2. CASE tentative'[p] = tentative[p]
      <4>1. skipped = {} /\ <<p, e>> \in heap /\ e # None
        BY <1>1, <2>3, <2>9, <3>2
      <4>2. CASE e = d
        <5>1. p \in Popped(d)
          BY <2>1, <2>3, <4>1, <4>2 DEF Popped
        <5>2. p \notin queued
          BY <1>1, <2>9, <5>1
        <5>3. p \in Frontier(d)
          BY <5>1, <5>2 DEF Frontier
        <5>4. p \in finalized'
          BY <1>8, <2>2, <4>2, <5>3
        <5>5. QED
          BY <1>14, <5>4
      <4>3. CASE e # d
        <5>1. <<p, e>>[2] = e
          OBVIOUS
        <5>2. <<p, e>> \in heap'
          BY <1>1, <4>1, <4>3, <5>1
        <5>3. QED
          BY <2>3, <3>2, <5>2
      <4>4. QED
        BY <4>2, <4>3
    <3>3. QED
      BY <3>1, <3>2
  <2>10. QED
    BY <2>7, <2>8, <2>9
<1>15. HeapCovers'
  BY <1>2, <1>14 DEF HeapCovers
<1>16. PublishedSettled' /\ WorkSettled'
  BY <1>2, <1>4, <1>10, SettledRest DEF Repairing
<1>17. QED
  BY <1>10, <1>13, <1>15, <1>16 DEF ExactInv

\* A batch of decreases evaluates what the last one made loose.
LEMMA PropagateExact ==
  ASSUME TypeInv, SafeInv, ExactInv, PropagateDecreases
  PROVE  ExactInv'
<1>1. phase = "propagate" /\ TypeOK /\ Followers \in SUBSET Pairs /\ PlainKept
  BY DEF PropagateDecreases, TypeInv, Followers, Predecessors, ExactInv
<1>2. Raised(Followers) = {}
  <2>1. Supported(candidate, objective, work[objective])
    BY <1>1 DEF SafeInv, StaleCovered
  <2>2. QED
    BY <1>1, <2>1 DEF Raised, Supported, Stale, Old, New
<1>3. /\ phase' = "propagate" /\ Write(Followers, {}) /\ queued' = Lowered(Followers)
      /\ UNCHANGED <<automaton, records, candidate, objective, skipped>>
  BY <1>1, <1>2 DEF PropagateDecreases, published
<1>4. /\ PlainKept'
      /\ \A p \in Current' : \/ p \in Predecessors(candidate, {} \cup Lowered(Followers))
                             \/ p \in {}
                             \/ p \notin Followers /\ p \in Current
      /\ \A p \in Pairs \ Followers : work'[objective][p] = work[objective][p]
      /\ \A obj \in Objectives \ {objective} : work'[obj] = work[obj]
  BY <1>1, <1>2, <1>3, LooseStep
<1>5. ASSUME NEW p \in Current'
      PROVE  p \in Predecessors(candidate, queued') \/ LeftBehind(work[objective], p)'
  <2>1. CASE p \in Predecessors(candidate, {} \cup Lowered(Followers))
    <3>1. {} \cup Lowered(Followers) \subseteq queued'
      BY <1>3
    <3>2. QED
      BY <2>1, <3>1, PredecessorsMore
  <2>2. CASE p \notin Followers /\ p \in Current
    <3>1. p \in Pairs /\ p \notin Diagonal
      BY <1>1, <2>2, LooseApart
    <3>2. p \in Predecessors(candidate, queued) \/ LeftBehind(work[objective], p)
      BY <1>1, <2>2 DEF ExactInv, LooseCovered
    <3>3. p \notin Predecessors(candidate, queued)
      BY <2>2, <3>1 DEF Followers
    <3>4. QED
      BY <1>3, <1>4, <2>2, <3>1, <3>2, <3>3 DEF LeftBehind
  <2>3. QED
    BY <1>4, <2>1, <2>2
<1>6. LooseCovered'
  BY <1>3, <1>5 DEF LooseCovered
<1>7. PublishedSettled' /\ WorkSettled'
  BY <1>1, <1>3, <1>4, SettledRest DEF Repairing
<1>8. QED
  BY <1>3, <1>4, <1>6, <1>7 DEF ExactInv, HeapCovers

\* A batch past the budget leaves every record as it is.
LEMMA ExceedExact ==
  ASSUME TypeInv, ExactInv, Repairing, NEW S, Exceed(S)
  PROVE  ExactInv'
<1>1. /\ phase' = "bounded"
      /\ UNCHANGED <<automaton, records, candidate, objective, work, skipped>>
  BY DEF Exceed, published
<1>2. PlainKept'
  BY <1>1 DEF ExactInv, PlainKept
<1>3. PublishedSettled' /\ WorkSettled'
  BY <1>1, SettledRest DEF TypeInv
<1>4. QED
  BY <1>1, <1>2, <1>3 DEF ExactInv, LooseCovered, HeapCovers

\* When the heap is empty, a lost pair that could still be reached was skipped.
LEMMA RebuildDoneExact ==
  ASSUME TypeInv, SafeInv, ExactInv, RebuildDone
  PROVE  ExactInv'
<1>1. /\ phase = "rebuild" /\ heap = {} /\ phase' = "propagate"
      /\ UNCHANGED <<automaton, records, candidate, objective, work, queued, skipped>>
  BY DEF RebuildDone, published, flags
<1>2. TypeOK /\ PlainKept /\ candidate \in Automata /\ objective \in Objectives
      /\ work[objective] \in [Pairs -> Records]
  BY DEF TypeInv, TypeOK, ExactInv
<1>3. PlainKept' /\ Current' = Current
  BY <1>1 DEF ExactInv, PlainKept, Current
<1>4. ASSUME NEW p \in Current, p \in invalid \ finalized
      PROVE  LeftBehind(work[objective], p)
  <2>1. p \in Pairs /\ work[objective][p] # New(p)
    BY <1>2 DEF Current, Loose, New
  <2>2. work[objective][p].dist = None
    BY <1>1, <1>4 DEF SafeInv, StaleCovered
  <2>3. work[objective][p] = Unreached
    BY <1>2, <2>1, <2>2 DEF PlainKept, Plain
  <2>4. New(p).dist # None
    <3>1. New(p).dist = None => New(p) = Unreached
      BY <1>2, <2>1, EvaluateShape DEF New
    <3>2. QED
      BY <2>1, <2>3, <3>1
  <2>5. skipped # {}
    BY <1>1, <1>4, <2>4 DEF ExactInv, HeapCovers
  <2>6. QED
    BY <2>2, <2>5 DEF LeftBehind
<1>5. \A p \in Current : p \in Predecessors(candidate, queued) \/ LeftBehind(work[objective], p)
  BY <1>1, <1>4 DEF ExactInv, LooseCovered
<1>6. LooseCovered'
  BY <1>1, <1>3, <1>5 DEF LooseCovered, LeftBehind
<1>7. PublishedSettled' /\ WorkSettled'
  BY <1>1, <1>2, SettledRest DEF Repairing
<1>8. QED
  BY <1>1, <1>3, <1>6, <1>7 DEF ExactInv, HeapCovers

\* With nothing queued, the objective that was repaired is settled.
LEMMA AdvanceExact ==
  ASSUME TypeInv, SafeInv, ExactInv, NextObjective \/ RepairDone
  PROVE  ExactInv'
<1>1. /\ phase = "propagate" /\ queued = {}
      /\ UNCHANGED <<automaton, records, candidate, work, skipped>>
      /\ \/ phase' = "seed" /\ objective = "merge" /\ objective' = "resolution"
         \/ phase' = "repaired" /\ objective = "resolution" /\ objective' = "resolution"
  BY DEF NextObjective, RepairDone, published
<1>2. PlainKept' /\ PublishedSettled'
  BY <1>1 DEF ExactInv, PlainKept, PublishedSettled, Settled, LeftBehind
<1>3. Settled(candidate, objective, work[objective])
  <2>1. Predecessors(candidate, queued) = {}
    BY <1>1 DEF Predecessors
  <2>2. QED
    BY <1>1, <2>1 DEF ExactInv, LooseCovered, Current, Settled
<1>4. objective = "resolution" => Settled(candidate, "merge", work["merge"])
  BY <1>1 DEF ExactInv, WorkSettled, Repairing
<1>5. WorkSettled'
  BY <1>1, <1>3, <1>4 DEF WorkSettled, Repairing, Objectives, Settled, LeftBehind
<1>6. QED
  BY <1>1, <1>2, <1>5 DEF ExactInv, LooseCovered, HeapCovers

\* What is published is the settled candidate, or its exact oracle.
LEMMA PublishExact ==
  ASSUME TypeInv, ExactInv, Publish
  PROVE  ExactInv'
<1>1. candidate \in Automata /\ phase' = "idle" /\ skipped' = skipped
  BY DEF Publish, PublishRepair, PublishRebuild, Reset, TypeInv, TypeOK
<1>2. CASE PublishRepair
  <2>1. /\ phase = "repaired" /\ automaton' = candidate /\ records' = work /\ work' = work
    BY <1>2 DEF PublishRepair
  <2>2. PlainKept'
    BY <2>1 DEF ExactInv, PlainKept
  <2>3. PublishedSettled'
    BY <1>1, <2>1 DEF ExactInv, WorkSettled, PublishedSettled, Settled, LeftBehind
  <2>4. QED
    BY <1>1, <2>2, <2>3 DEF ExactInv, WorkSettled, LooseCovered, HeapCovers, Repairing
<1>3. CASE PublishRebuild
  <2>1. automaton' = candidate /\ records' = ExactOracle(candidate) /\ work' = records'
    BY <1>3 DEF PublishRebuild
  <2>2. PlainKept'
    BY <1>1, <2>1, ExactSettled DEF PlainKept
  <2>3. PublishedSettled'
    BY <1>1, <2>1, ExactSettled DEF PublishedSettled, Settled
  <2>4. QED
    BY <1>1, <2>2, <2>3 DEF ExactInv, WorkSettled, LooseCovered, HeapCovers, Repairing
<1>4. QED
  BY <1>2, <1>3 DEF Publish

LEMMA NextExact == TypeInv /\ SafeInv /\ ExactInv /\ [Next]_vars => ExactInv'
<1> SUFFICES ASSUME TypeInv, SafeInv, ExactInv, [Next]_vars PROVE ExactInv'
  OBVIOUS
<1>1. CASE BeginUpdate
  BY <1>1, BeginExact
<1>2. CASE SeedChanges
  BY <1>2, SeedExact
<1>3. CASE SeedExceeds \/ InvalidateExceeds \/ PropagateExceeds
  BY <1>3, ExceedExact DEF SeedExceeds, InvalidateExceeds, PropagateExceeds, Repairing
<1>4. CASE InvalidateDependents
  BY <1>4, InvalidateExact
<1>5. CASE SeedHeap
  BY <1>5, SeedHeapExact
<1>6. CASE RebuildStep
  BY <1>6, RebuildExact
<1>7. CASE RebuildDone
  BY <1>7, RebuildDoneExact
<1>8. CASE PropagateDecreases
  BY <1>8, PropagateExact
<1>9. CASE NextObjective \/ RepairDone
  BY <1>9, AdvanceExact
<1>10. CASE Publish
  BY <1>10, PublishExact
<1>11. CASE UNCHANGED vars
  <2>1. UNCHANGED <<automaton, records, phase, objective, candidate, work, invalid, fresh,
                    queued, finalized, tentative, heap, skipped>>
    BY <1>11 DEF vars, published, flags
  <2>2. PlainKept' /\ PublishedSettled' /\ WorkSettled'
    BY <2>1 DEF ExactInv, PlainKept, PublishedSettled, WorkSettled, Settled, LeftBehind,
                Repairing
  <2>3. LooseCovered'
    BY <2>1 DEF ExactInv, LooseCovered, Current, LeftBehind
  <2>4. HeapCovers'
    BY <2>1 DEF ExactInv, HeapCovers, New
  <2>5. QED
    BY <2>2, <2>3, <2>4 DEF ExactInv
<1>12. QED
  BY <1>1, <1>2, <1>3, <1>4, <1>5, <1>6, <1>7, <1>8, <1>9, <1>10, <1>11 DEF Next, Repair

LEMMA ExactSpec == Spec => [](TypeInv /\ SafeInv /\ ExactInv)
<1>1. Init => TypeInv /\ SafeInv /\ ExactInv
  BY InitType, InitSafe, InitExact
<1>2. TypeInv /\ SafeInv /\ ExactInv /\ [Next]_vars => (TypeInv /\ SafeInv /\ ExactInv)'
  BY NextType, NextSafe, NextExact
<1>3. QED
  BY <1>1, <1>2, PTL DEF Spec

\* The repaired records are exact: as long as no repair popped a pair from its
\* heap that was still queued for propagation, sg_pair_store_repair leaves the
\* very records that sg_pair_oracle_build would compute for the changed automaton.
THEOREM ExactWhenNoneSkipped == Spec => []ExactUnlessSkipped
<1>1. TypeInv /\ ExactInv => ExactUnlessSkipped
  <2> SUFFICES ASSUME TypeInv, ExactInv, skipped = {} PROVE records = ExactOracle(automaton)
    BY DEF ExactUnlessSkipped, PublishedExact
  <2>1. automaton \in Automata /\ records \in [Objectives -> [Pairs -> Records]]
    BY DEF TypeInv, TypeOK
  <2>2. ASSUME NEW obj \in Objectives PROVE records[obj] = ExactRecords(automaton, obj)
    <3>1. PICK recs \in [Pairs -> Records] : recs = records[obj]
      BY <2>1
    <3>2. \A p \in Pairs : recs[p] = Evaluate(automaton, obj, recs, p)
      BY <3>1 DEF ExactInv, PublishedSettled, Settled, LeftBehind, Loose
    <3>3. QED
      BY <2>1, <3>1, <3>2, FixedExact
  <2>3. QED
    BY <2>1, <2>2 DEF ExactOracle
<1>2. QED
  BY <1>1, ExactSpec, PTL

\* One step of a replay: the action of a record that its targets gave it leads one
\* step closer, and at the last step to the diagonal or to differing observations.
LEMMA ReplayStep ==
  ASSUME NEW aut \in Automata, NEW obj, NEW recs \in [Pairs -> Records],
         NEW q \in Pairs, recs[q] = Evaluate(aut, obj, recs, q),
         NEW n \in Nat, recs[q].dist = n
  PROVE  /\ n = 0 => q \in Diagonal
         /\ n > 1 => /\ recs[q].next = Target(aut, q, recs[q].act)
                     /\ recs[q].next \in Pairs /\ recs[recs[q].next].dist = n - 1
         /\ n = 1 /\ recs[q].next = NoPair => Terminal(aut, obj, q, recs[q].act)
         /\ n = 1 /\ recs[q].next # NoPair =>
              recs[q].next \in Pairs /\ recs[recs[q].next].dist = 0
<1>1. PICK e \in Records : e = recs[q]
  OBVIOUS
<1>2. e = Evaluate(aut, obj, recs, q) /\ e.dist = n /\ n # None
  BY <1>1 DEF None
<1>3. q \in Diagonal => n = 0
  BY <1>2, EvaluateShape, PlainRecords
<1>4. CASE q \in Diagonal
  BY <1>3, <1>4
<1>5. CASE q \notin Diagonal
  <2>1. /\ e.act \in Actions /\ n \in Nat \ {0}
        /\ n = ArcDistance(aut, obj, recs, q, e.act)
        /\ e.next = IF Terminal(aut, obj, q, e.act) THEN NoPair ELSE Target(aut, q, e.act)
    BY <1>2, <1>5, EvaluateShape
  <2>2. PICK t \in Pairs : t = Target(aut, q, e.act)
    BY <2>1, TargetType
  <2>3. CASE Terminal(aut, obj, q, e.act)
    BY <1>1, <2>1, <2>3 DEF ArcDistance
  <2>4. CASE ~Terminal(aut, obj, q, e.act)
    <3>1. recs[t].dist \in Distances
      BY DEF Records
    <3>2. n = IF recs[t].dist = None THEN None ELSE recs[t].dist + 1
      BY <2>1, <2>2, <2>4 DEF ArcDistance
    <3>3. recs[t].dist = n - 1
      BY <1>2, <3>1, <3>2 DEF Distances
    <3>4. t # NoPair
      BY DEF Pairs, NoPair
    <3>5. e.next = t
      BY <2>1, <2>2, <2>4
    <3>6. QED
      BY <1>1, <2>1, <2>2, <3>3, <3>4, <3>5
  <2>5. QED
    BY <2>3, <2>4
<1>6. QED
  BY <1>4, <1>5

\* A record that claims a distance is the one that its targets give it.
Restorable(aut, obj, recs) ==
  \A q \in Pairs : recs[q].dist # None => recs[q] = Evaluate(aut, obj, recs, q)

\* Where a replay is after k steps, and how far it still has to go.
LEMMA ReplayWalk ==
  ASSUME NEW aut \in Automata, NEW obj, NEW recs \in [Pairs -> Records],
         Restorable(aut, obj, recs),
         NEW p \in Pairs, NEW d \in Nat \ {0}, recs[p].dist = d,
         NEW next, next = [q \in Pairs |-> recs[q].next],
         NEW walk, Walking(walk, next, p, d)
  PROVE  \A k \in 0 .. (d - 1) : walk[k] \in Pairs /\ recs[walk[k]].dist = d - k
<1> DEFINE S == {k \in 0 .. (d - 1) : walk[k] \in Pairs /\ recs[walk[k]].dist = d - k}
<1>1. d - 1 \in Nat
  OBVIOUS
<1>2. 0 \in S
  <2>1. 0 \in 0 .. d
    OBVIOUS
  <2>2. walk[0] = p
    BY <2>1 DEF Walking
  <2>3. QED
    BY <2>2
<1>3. ASSUME NEW k \in 1 .. (d - 1), k - 1 \in S PROVE k \in S
  <2>1. PICK q \in Pairs : q = walk[k - 1]
    BY <1>3
  <2>2. PICK n \in Nat : n = d - (k - 1)
    BY <1>1
  <2>3. n > 1 /\ n # None /\ n - 1 = d - k /\ recs[q].dist = n
    BY <1>3, <2>1, <2>2 DEF None
  <2>4. recs[q].next \in Pairs /\ recs[recs[q].next].dist = n - 1
    <3>1. recs[q] = Evaluate(aut, obj, recs, q)
      BY <2>1, <2>3 DEF Restorable
    <3>2. QED
      BY <2>2, <2>3, <3>1, ReplayStep
  <2>5. walk[k] = recs[q].next
    <3>1. k \in 0 .. d /\ k # 0
      OBVIOUS
    <3>2. walk[k] = next[walk[k - 1]]
      BY <3>1 DEF Walking
    <3>3. QED
      BY <2>1, <3>2
  <2>6. QED
    BY <2>3, <2>4, <2>5
<1>4. \A k \in 0 .. (d - 1) : k \in S
  <2> HIDE DEF S
  <2>1. QED
    BY <1>1, <1>2, <1>3, StepByStep
<1>5. QED
  BY <1>4

\* Whatever repairs made of them, the published records can be used: a record that
\* claims a distance is what its targets give it, which is what restoring asks,
\* and taking the recorded actions attains the objective in that many steps.
THEOREM PublishedAlwaysUsable == Spec => []PublishedUsable
<1>1. TypeInv /\ ExactInv => PublishedUsable
  <2> SUFFICES ASSUME TypeInv, ExactInv PROVE PublishedUsable
    OBVIOUS
  <2>1. automaton \in Automata /\ records \in [Objectives -> [Pairs -> Records]]
    BY DEF TypeInv, TypeOK
  <2>2. \A obj \in Objectives : \A p \in Pairs :
          records[obj][p].dist # None =>
            records[obj][p] = Evaluate(automaton, obj, records[obj], p)
    BY DEF ExactInv, PublishedSettled, Settled, LeftBehind, Loose
  <2>3. ASSUME NEW obj \in Objectives, NEW p \in Pairs, records[obj][p].dist # None
        PROVE  Replays(obj, p)
    <3>1. PICK recs \in [Pairs -> Records] : recs = records[obj]
      BY <2>1
    <3>2. PICK d \in Nat : d = recs[p].dist
      BY <2>3, <3>1 DEF Records, Distances
    <3>3. Restorable(automaton, obj, recs)
      BY <2>2, <3>1 DEF Restorable
    <3> DEFINE next == [q \in Pairs |-> recs[q].next]
               Is(f) == f = [k \in 0 .. d |-> IF k = 0 THEN p ELSE next[f[k - 1]]]
               walk == CHOOSE f : Is(f)
               ends == IF d > 0 /\ recs[walk[d - 1]].next = NoPair
                       THEN Terminal(automaton, obj, walk[d - 1], recs[walk[d - 1]].act)
                       ELSE walk[d] \in Diagonal
    <3>4. Walking(walk, next, p, d)
      <4> HIDE DEF next
      <4>1. PICK f : Walking(f, next, p, d)
        BY WalkExists
      <4>2. Is(f)
        BY <4>1 DEF Walking
      <4>3. Is(walk)
        BY <4>2
      <4>4. QED
        BY <4>3 DEF Walking
    <3>5. PICK a \in Automata : a = automaton
      BY <2>1
    <3>6. Replays(obj, p) <=>
            /\ \A k \in 0 .. (d - 1) :
                 /\ recs[walk[k]].dist = d - k
                 /\ k < d - 1 =>
                      recs[walk[k]].next = Target(automaton, walk[k], recs[walk[k]].act)
            /\ ends
      BY <3>1, <3>2 DEF Replays
    <3> HIDE DEF walk
    <3>7. CASE d = 0
      <4>1. p \in Diagonal
        <5>1. recs[p].dist = 0 /\ recs[p].dist # None
          BY <3>2, <3>7 DEF None
        <5>2. recs[p] = Evaluate(a, obj, recs, p)
          BY <3>3, <3>5, <5>1 DEF Restorable
        <5>3. QED
          BY <5>1, <5>2, ReplayStep
      <4>2. walk[0] = p
        <5>1. 0 \in 0 .. d
          BY <3>7
        <5>2. QED
          BY <3>4, <5>1 DEF Walking
      <4>3. ends
        BY <3>7, <4>1, <4>2
      <4>4. 0 .. (d - 1) = {}
        BY <3>7
      <4>5. QED
        BY <3>6, <4>3, <4>4
    <3>8. CASE d # 0
      <4>1. d \in Nat \ {0} /\ d - 1 \in 0 .. (d - 1)
        BY <3>8
      <4>2. \A k \in 0 .. (d - 1) : walk[k] \in Pairs /\ recs[walk[k]].dist = d - k
        <5>1. PICK n : n = next
          OBVIOUS
        <5>2. PICK w : w = walk
          OBVIOUS
        <5>3. n = [q \in Pairs |-> recs[q].next] /\ Walking(w, n, p, d)
          BY <3>4, <5>1, <5>2
        <5>4. Restorable(a, obj, recs) /\ recs[p].dist = d
          BY <3>2, <3>3, <3>5
        <5>5. \A k \in 0 .. (d - 1) : w[k] \in Pairs /\ recs[w[k]].dist = d - k
          <6> HIDE DEF next, walk
          <6>1. QED
            BY <4>1, <5>3, <5>4, ReplayWalk
        <5>6. QED
          BY <5>2, <5>5
      <4>3. ASSUME NEW k \in 0 .. (d - 1), k < d - 1
            PROVE  recs[walk[k]].next = Target(automaton, walk[k], recs[walk[k]].act)
        <5>1. PICK q \in Pairs : q = walk[k]
          BY <4>2
        <5>2. PICK m \in Nat : m = d - k
          BY <4>1
        <5>3. m > 1 /\ m # None /\ recs[q].dist = m
          BY <4>2, <4>3, <5>1, <5>2 DEF None
        <5>4. recs[q].next = Target(automaton, q, recs[q].act)
          <6>1. recs[q] = Evaluate(a, obj, recs, q)
            BY <3>3, <3>5, <5>3 DEF Restorable
          <6>2. recs[q].next = Target(a, q, recs[q].act)
            BY <5>3, <6>1, ReplayStep
          <6>3. QED
            BY <3>5, <6>2
        <5>5. QED
          BY <5>1, <5>4
      <4>4. ends
        <5>1. PICK q \in Pairs : q = walk[d - 1]
          BY <4>1, <4>2
        <5>2. recs[q].dist = 1 /\ 1 # None
          BY <4>1, <4>2, <5>1 DEF None
        <5>3. /\ recs[q].next = NoPair => Terminal(automaton, obj, q, recs[q].act)
              /\ recs[q].next # NoPair => recs[q].next \in Pairs /\ recs[recs[q].next].dist = 0
          <6>1. recs[q] = Evaluate(a, obj, recs, q)
            BY <3>3, <3>5, <5>2 DEF Restorable
          <6>2. QED
            BY <3>5, <5>2, <6>1, ReplayStep
        <5>4. walk[d] = recs[q].next
          <6>1. d \in 0 .. d
            OBVIOUS
          <6>2. walk[d] = next[walk[d - 1]]
            BY <3>4, <3>8, <6>1 DEF Walking
          <6>3. QED
            BY <5>1, <6>2
        <5>5. ASSUME NEW t \in Pairs, recs[t].dist = 0 PROVE t \in Diagonal
          <6>1. recs[t] = Evaluate(a, obj, recs, t)
            BY <3>3, <3>5, <5>5 DEF Restorable, None
          <6>2. QED
            BY <5>5, <6>1, ReplayStep
        <5>6. QED
          BY <4>1, <5>1, <5>3, <5>4, <5>5
      <4>5. QED
        BY <3>6, <4>2, <4>3, <4>4
    <3>9. QED
      BY <3>7, <3>8
  <2>4. QED
    BY <2>2, <2>3 DEF PublishedUsable, RecordsReplay, RestoreAccepts
<1>2. QED
  BY <1>1, ExactSpec, PTL

-----------------------------------------------------------------------------
(* Repair implements maintenance unless a pair was skipped. *)

\* The two modules build the same oracle.
LEMMA SameOracle ==
  ASSUME NEW aut
  PROVE  Maintenance!ExactOracle(aut) = ExactOracle(aut)
  BY DEF Maintenance!ExactOracle, ExactOracle, Maintenance!ExactRecords, ExactRecords,
     Maintenance!ExactDistances, ExactDistances, Maintenance!Reached, Reached,
     Maintenance!Grow, Grow, Maintenance!Sources, Sources, Maintenance!Pairs, Pairs,
     Maintenance!Terminal, Terminal, Maintenance!Target, Target,
     Maintenance!OutputsDiffer, OutputsDiffer, Maintenance!Actions, Actions,
     Maintenance!Diagonal, Diagonal, Maintenance!None, None, Maintenance!NoPair, NoPair,
     Maintenance!Root, Root, Maintenance!Unreached, Unreached,
     Maintenance!Objectives, Objectives, Maintenance!Cardinality, Cardinality

\* The cells in which the candidate differs from what is published.
Differing == {c \in Cells : <<automaton.delta[c], automaton.eta[c]>>
                              # <<candidate.delta[c], candidate.eta[c]>>}

\* An update that runs has changed at least one cell and no more than one batch.
BatchKept == phase # "idle" => Cardinality(Differing) \in 1 .. MaxBatch

\* An update changes the cells of its batch, and those alone.
LEMMA BeginBatch ==
  ASSUME TypeInv, BeginUpdate
  PROVE  BatchKept'
<1>1. PICK b \in Budgets, cells \in Batches :
        \E targets \in [cells -> States], outputs \in [cells -> Outputs] :
          Begin(cells, targets, outputs, b)
  BY DEF BeginUpdate
<1>2. PICK targets \in [cells -> States], outputs \in [cells -> Outputs] :
        Begin(cells, targets, outputs, b)
  BY <1>1
<1>3. /\ automaton' = automaton /\ candidate' = Changed(cells, targets, outputs)
      /\ \A c \in cells : <<targets[c], outputs[c]>> # <<automaton.delta[c], automaton.eta[c]>>
  BY <1>2 DEF Begin, published
<1>4. cells \subseteq Cells /\ cells # {} /\ Cardinality(cells) <= MaxBatch
  BY DEF Batches
<1>5. Differing' = cells
  <2>1. \A c \in Cells : /\ candidate'.delta[c] = IF c \in cells THEN targets[c]
                                                  ELSE automaton.delta[c]
                         /\ candidate'.eta[c] = IF c \in cells THEN outputs[c]
                                                ELSE automaton.eta[c]
    BY <1>3 DEF Changed
  <2>2. \A c \in Cells : c \in Differing' <=> c \in cells
    BY <1>3, <2>1 DEF Differing
  <2>3. QED
    BY <1>4, <2>2 DEF Differing
<1>6. IsFiniteSet(cells)
  <2>1. IsFiniteSet(Cells)
    BY ActionsFinite, GraphAssumption, FS_Product DEF Cells
  <2>2. QED
    BY <1>4, <2>1, FS_Subset
<1>7. Cardinality(cells) \in Nat /\ Cardinality(cells) # 0
  BY <1>4, <1>6, FS_CardinalityType, FS_EmptySet
<1>8. QED
  BY <1>4, <1>5, <1>7, RepairAssumption DEF BatchKept

LEMMA NextBatch == TypeInv /\ BatchKept /\ [Next]_vars => BatchKept'
<1> SUFFICES ASSUME TypeInv, BatchKept, [Next]_vars PROVE BatchKept'
  OBVIOUS
<1>1. CASE BeginUpdate
  BY <1>1, BeginBatch
<1>2. CASE Publish
  <2>1. phase' = "idle"
    BY <1>2 DEF Publish, PublishRepair, PublishRebuild, Reset
  <2>2. QED
    BY <2>1 DEF BatchKept
<1>3. CASE Repair
  <2>1. phase # "idle" /\ UNCHANGED <<automaton, candidate>>
    BY <1>3 DEF Repair, SeedChanges, SeedExceeds, InvalidateDependents, InvalidateExceeds,
       SeedHeap, RebuildStep, RebuildDone, PropagateDecreases, PropagateExceeds,
       NextObjective, RepairDone, Exceed, published
  <2>2. QED
    BY <2>1 DEF BatchKept, Differing
<1>4. CASE UNCHANGED vars
  BY <1>4 DEF BatchKept, Differing, vars, published
<1>5. QED
  BY <1>1, <1>2, <1>3, <1>4 DEF Next

\* A publication is an update of the exact oracle, and nothing else shows.
LEMMA PublishIsUpdate ==
  ASSUME TypeInv, BatchKept, [Next]_vars, TypeInv', ExactUnlessSkipped', skipped' = {}
  PROVE  Maintenance!Update \/ UNCHANGED published
<1>1. CASE Publish
  <2>1. phase # "idle" /\ phase' = "idle" /\ automaton' = candidate
    BY <1>1 DEF Publish, PublishRepair, PublishRebuild, Reset
  <2>2. records' = ExactOracle(automaton')
    BY <2>1 DEF ExactUnlessSkipped, PublishedExact
  <2>3. records' = Maintenance!ExactOracle(automaton')
    BY <2>2, SameOracle
  <2>4. automaton' \in Maintenance!Automata
    BY DEF TypeInv, TypeOK, Maintenance!Automata, Automata, Maintenance!Cells, Cells,
           Maintenance!Actions, Actions
  <2>5. Maintenance!ChangedCells(automaton, automaton') = Differing
    BY <2>1 DEF Maintenance!ChangedCells, Differing, Maintenance!Cells, Cells,
                Maintenance!Actions, Actions
  <2>6. Cardinality(Maintenance!ChangedCells(automaton, automaton')) \in 1 .. MaxBatch
    BY <2>1, <2>5 DEF BatchKept
  <2>7. QED
    BY <2>3, <2>4, <2>6 DEF Maintenance!Update, Maintenance!Cardinality, Cardinality
<1>2. CASE BeginUpdate
  BY <1>2 DEF BeginUpdate, Begin
<1>3. CASE Repair
  BY <1>3 DEF Repair, SeedChanges, SeedExceeds, InvalidateDependents, InvalidateExceeds,
     SeedHeap, RebuildStep, RebuildDone, PropagateDecreases, PropagateExceeds,
     NextObjective, RepairDone, Exceed
<1>4. CASE UNCHANGED vars
  BY <1>4 DEF vars, published
<1>5. QED
  BY <1>1, <1>2, <1>3, <1>4 DEF Next

\* Incremental maintenance implements the abstract one, from one exact oracle to
\* the next, in every execution in which no repair skips a pair.  Without that
\* condition it does not: see RepairFour_inexact.
THEOREM MaintainsUnlessSkipped == Spec /\ [](skipped = {}) => ImplementsMaintenance
<1>1. Init => Maintenance!Init
  BY SameOracle DEF Init, Maintenance!Init
<1>2. Init => BatchKept
  BY DEF Init, BatchKept
<1>3. Spec => []BatchKept
  <2>1. Spec => []TypeInv
    BY SafeSpec, PTL
  <2>2. QED
    BY <1>2, <2>1, NextBatch, PTL DEF Spec
<1>4. /\ TypeInv /\ BatchKept /\ [Next]_vars /\ TypeInv'
      /\ ExactUnlessSkipped' /\ (skipped = {})'
      => [Maintenance!Update]_<<automaton, records>>
  BY PublishIsUpdate DEF published
<1>5. Spec => [](TypeInv /\ BatchKept /\ ExactUnlessSkipped)
  BY <1>3, SafeSpec, ExactWhenNoneSkipped, PTL
<1>6. QED
  BY <1>1, <1>4, <1>5, PTL DEF Spec, ImplementsMaintenance, Maintenance!Spec

-----------------------------------------------------------------------------
(***************************************************************************)
(* Making an oracle (PairOracle), for every automaton and every table of    *)
(* rows: the numbers of pairs and edges, the backward search, the witnesses *)
(* that are chosen from it, and the records that are restored.              *)
(***************************************************************************)
-----------------------------------------------------------------------------
(* Numbers of pairs. *)

\* States are numbers, and there is one.
LEMMA StateNumbers ==
  /\ StateCount \in Nat \ {0} /\ States = 0 .. StateCount - 1
  /\ States \subseteq Nat
<1>1. StateCount \in Nat /\ (StateCount = 0 <=> States = {})
  BY GraphAssumption, FS_CardinalityType, FS_EmptySet DEF StateCount
<1>2. States = 0 .. StateCount - 1
  BY OracleAssumption
<1>. QED
  BY <1>1, <1>2, GraphAssumption

\* The least and the greatest of two numbers.
LEMMA EndsOf ==
  ASSUME NEW i \in Nat, NEW j \in Nat, i <= j
  PROVE  Min({i, j}) = i /\ Max({i, j}) = j
<1>1. PICK x : x = Min({i, j})
  OBVIOUS
<1>2. x \in {i, j} /\ \A y \in {i, j} : x <= y
  <2>1. \E z \in {i, j} : \A y \in {i, j} : z <= y
    OBVIOUS
  <2>. QED
    BY <1>1, <2>1 DEF Min
<1>3. PICK z : z = Max({i, j})
  OBVIOUS
<1>4. z \in {i, j} /\ \A y \in {i, j} : z >= y
  <2>1. \E y \in {i, j} : \A t \in {i, j} : y >= t
    OBVIOUS
  <2>. QED
    BY <1>3, <2>1 DEF Max
<1>. QED
  BY <1>1, <1>2, <1>3, <1>4

\* A pair is its least state and its greatest.
LEMMA PairEnds ==
  ASSUME NEW p \in Pairs
  PROVE  /\ Min(p) \in States /\ Max(p) \in States /\ Min(p) <= Max(p)
         /\ p = {Min(p), Max(p)}
<1>1. PICK s \in States, t \in States : p = {s, t}
  BY DEF Pairs
<1>2. s \in Nat /\ t \in Nat
  BY StateNumbers
<1>3. CASE s <= t
  BY <1>1, <1>2, <1>3, EndsOf
<1>4. CASE t <= s
  <2>1. p = {t, s}
    BY <1>1
  <2>. QED
    BY <1>2, <1>4, <2>1, EndsOf
<1>. QED
  BY <1>2, <1>3, <1>4

\* Numbers of pairs below row i, counted from below the diagonal.
Triangle(i) == (i * (i + 1)) \div 2

\* The number of the first pair of row i.
RowStart(i) == i * StateCount - Triangle(i) + i

\* Triangular numbers.
LEMMA Triangles ==
  /\ Triangle(0) = 0
  /\ \A i \in Nat : Triangle(i) \in Nat /\ Triangle(i + 1) = Triangle(i) + i + 1
  /\ \A i \in Nat : 2 * Triangle(i) = i * (i + 1)
<1>1. Triangle(0) = 0
  BY DEF Triangle
<1>2. ASSUME NEW i \in Nat
      PROVE  Triangle(i) \in Nat /\ Triangle(i + 1) = Triangle(i) + i + 1
  <2>1. PICK x \in Nat : x = i * (i + 1)
    OBVIOUS
  <2>2. (i + 1) * (i + 1 + 1) = x + 2 * (i + 1)
    BY <2>1
  <2>3. (x + 2 * (i + 1)) \div 2 = (x \div 2) + i + 1
    BY <2>1
  <2>4. Triangle(i) = x \div 2 /\ Triangle(i + 1) = (x + 2 * (i + 1)) \div 2
    BY <2>1, <2>2 DEF Triangle
  <2>. QED
    BY <2>1, <2>3, <2>4
<1>3. ASSUME NEW n \in Nat
      PROVE  2 * Triangle(n) = n * (n + 1)
  <2> DEFINE S == {i \in Nat : 2 * Triangle(i) = i * (i + 1)}
  <2>1. 0 \in S
    BY <1>1
  <2>2. ASSUME NEW k \in 1 .. n, k - 1 \in S
        PROVE  k \in S
    <3>1. PICK j \in Nat : j = k - 1
      OBVIOUS
    <3>2. Triangle(j + 1) = Triangle(j) + j + 1 /\ Triangle(j) \in Nat
      BY <1>2
    <3>3. 2 * Triangle(j) = j * (j + 1)
      BY <2>2, <3>1
    <3>4. (j + 1) * (j + 1 + 1) = j * (j + 1) + 2 * (j + 1)
      OBVIOUS
    <3>5. 2 * Triangle(j + 1) = (j + 1) * (j + 1 + 1)
      BY <3>2, <3>3, <3>4
    <3>. QED
      BY <3>1, <3>5
  <2> HIDE DEF S
  <2>3. n \in S
    BY <2>1, <2>2, StepByStep
  <2>. QED
    BY <2>3 DEF S
<1>. QED
  BY <1>1, <1>2, <1>3

\* Rows of the triangle follow each other, and the last ends with the last pair.
LEMMA RowStarts ==
  /\ RowStart(0) = 0 /\ RowStart(StateCount) = PairCount
  /\ \A i \in Nat : RowStart(i) \in Int /\ RowStart(i + 1) = RowStart(i) + StateCount - i
<1>1. StateCount \in Nat
  BY StateNumbers
<1>2. RowStart(0) = 0
  BY <1>1, Triangles DEF RowStart
<1>3. ASSUME NEW i \in Nat
      PROVE  RowStart(i) \in Int /\ RowStart(i + 1) = RowStart(i) + StateCount - i
  <2>1. Triangle(i) \in Nat /\ Triangle(i + 1) = Triangle(i) + i + 1
    BY Triangles
  <2>2. (i + 1) * StateCount = i * StateCount + StateCount /\ i * StateCount \in Nat
    BY <1>1
  <2>. QED
    BY <1>1, <2>1, <2>2 DEF RowStart
<1>4. RowStart(StateCount) = PairCount
  <2>1. PairCount = Triangle(StateCount)
    BY DEF PairCount, Triangle
  <2>2. PICK x \in Nat : x = StateCount * StateCount
    BY <1>1
  <2>3. StateCount * (StateCount + 1) = x + StateCount
    BY <1>1, <2>2
  <2>4. Triangle(StateCount) \in Nat /\ 2 * Triangle(StateCount) = x + StateCount
    BY <1>1, <2>3, Triangles
  <2>5. RowStart(StateCount) = x - Triangle(StateCount) + StateCount
    BY <2>2 DEF RowStart
  <2>. QED
    BY <1>1, <2>1, <2>2, <2>4, <2>5
<1>. QED
  BY <1>2, <1>3, <1>4

\* A later row begins after all of an earlier one.
LEMMA RowsApart ==
  ASSUME NEW i \in Nat, NEW k \in Nat, i < k, k <= StateCount
  PROVE  RowStart(k) >= RowStart(i) + StateCount - i
<1> DEFINE S == {m \in Nat : m <= StateCount - i - 1 =>
                               RowStart(i + 1 + m) >= RowStart(i) + StateCount - i}
<1>1. StateCount \in Nat /\ RowStart(i) \in Int
  BY StateNumbers, RowStarts
<1>2. 0 \in S
  BY <1>1, RowStarts
<1>3. PICK n \in Nat : n = k - i - 1
  OBVIOUS
<1>4. ASSUME NEW m \in 1 .. n, m - 1 \in S
      PROVE  m \in S
  <2>1. PICK j \in Nat : j = i + m
    OBVIOUS
  <2>2. RowStart(j) >= RowStart(i) + StateCount - i
    <3>1. i + 1 + (m - 1) = j /\ m - 1 <= StateCount - i - 1
      BY <1>1, <1>3, <2>1
    <3>. QED
      BY <1>4, <3>1
  <2>3. RowStart(j + 1) = RowStart(j) + StateCount - j /\ RowStart(j) \in Int
    BY RowStarts
  <2>4. j <= StateCount
    BY <1>1, <1>3, <2>1
  <2>5. RowStart(j + 1) >= RowStart(i) + StateCount - i
    BY <1>1, <2>2, <2>3, <2>4
  <2>6. i + 1 + m = j + 1
    BY <2>1
  <2>. QED
    BY <2>5, <2>6
<1> HIDE DEF S
<1>5. n \in S
  BY <1>2, <1>3, <1>4, StepByStep
<1>6. n <= StateCount - i - 1 /\ i + 1 + n = k
  BY <1>1, <1>3
<1>. QED
  BY <1>5, <1>6 DEF S

\* sg_pair_index counts rows and places in them.
LEMMA IndexInRow ==
  ASSUME NEW i \in Nat, NEW j \in Nat, i <= j
  PROVE  Index({i, j}) = RowStart(i) + (j - i)
<1>1. Index({i, j}) = i * StateCount - Triangle(i) + j
  BY EndsOf DEF Index, Triangle
<1>2. StateCount \in Nat /\ Triangle(i) \in Nat
  BY StateNumbers, Triangles
<1>3. i * StateCount \in Nat
  BY <1>2
<1>. QED
  BY <1>1, <1>2, <1>3 DEF RowStart

\* Numbers are in the order of the loops, and within the array.
LEMMA IndexOrdered ==
  /\ \A p \in Pairs : Index(p) \in Ids
  /\ \A p, q \in Pairs : Before(p, q) <=> Index(p) < Index(q)
  /\ \A p, q \in Pairs : Index(p) = Index(q) => p = q
<1>1. StateCount \in Nat
  BY StateNumbers
<1>2. ASSUME NEW p \in Pairs
      PROVE  /\ Min(p) \in Nat /\ Max(p) \in Nat /\ Min(p) <= Max(p)
             /\ Max(p) < StateCount /\ Index(p) = RowStart(Min(p)) + (Max(p) - Min(p))
             /\ RowStart(Min(p)) \in Int
  <2>1. /\ Min(p) \in Nat /\ Max(p) \in Nat /\ Min(p) <= Max(p)
        /\ p = {Min(p), Max(p)} /\ Max(p) < StateCount
    BY <1>1, PairEnds, StateNumbers
  <2>. QED
    BY <2>1, IndexInRow, RowStarts
<1>3. ASSUME NEW p \in Pairs
      PROVE  Index(p) \in Ids
  <2>1. RowStart(StateCount) >= RowStart(Min(p)) + StateCount - Min(p)
    BY <1>1, <1>2, RowsApart
  <2>2. RowStart(Min(p)) >= 0
    <3>1. CASE Min(p) = 0
      BY <3>1, RowStarts
    <3>2. CASE Min(p) > 0
      <4>1. RowStart(Min(p)) >= RowStart(0) + StateCount - 0
        BY <1>1, <1>2, <3>2, RowsApart
      <4>. QED
        BY <1>1, <1>2, <4>1, RowStarts
    <3>. QED
      BY <1>2, <3>1, <3>2
  <2>3. RowStart(StateCount) = PairCount /\ PairCount \in Int
    BY <1>1, RowStarts
  <2>. QED
    BY <1>1, <1>2, <2>1, <2>2, <2>3 DEF Ids
<1>4. ASSUME NEW p \in Pairs, NEW q \in Pairs, Before(p, q)
      PROVE  Index(p) < Index(q)
  <2>1. CASE Min(p) < Min(q)
    <3>1. RowStart(Min(q)) >= RowStart(Min(p)) + StateCount - Min(p)
      BY <1>1, <1>2, <2>1, RowsApart
    <3>. QED
      BY <1>1, <1>2, <3>1
  <2>2. CASE Min(p) = Min(q) /\ Max(p) < Max(q)
    BY <1>2, <2>2
  <2>. QED
    BY <1>4, <2>1, <2>2 DEF Before
<1>5. ASSUME NEW p \in Pairs, NEW q \in Pairs, ~Before(p, q), ~Before(q, p)
      PROVE  p = q
  <2>1. Min(p) = Min(q) /\ Max(p) = Max(q)
    BY <1>2, <1>5 DEF Before
  <2>. QED
    BY <2>1, PairEnds
<1>6. \A p \in Pairs : Index(p) \in Int
  BY <1>3 DEF Ids
<1>. QED
  BY <1>3, <1>4, <1>5, <1>6

\* Every number is that of a pair, and so there are as many pairs as numbers.
LEMMA IndexOnto ==
  /\ PairCount \in Nat \ {0}
  /\ \A k \in Ids : \E p \in Pairs : Index(p) = k
<1>1. StateCount \in Nat \ {0} /\ States = 0 .. StateCount - 1
  BY StateNumbers
<1>2. PairCount \in Nat \ {0}
  <2>1. RowStart(StateCount) >= RowStart(0) + StateCount - 0
    BY <1>1, RowsApart
  <2>2. RowStart(StateCount) = PairCount /\ RowStart(0) = 0 /\ RowStart(StateCount) \in Int
    BY <1>1, RowStarts
  <2>. QED
    BY <1>1, <2>1, <2>2
<1> DEFINE S == {k \in Nat : k \in Ids => \E p \in Pairs : Index(p) = k}
<1>3. 0 \in S
  <2>1. {0, 0} \in Pairs
    BY <1>1 DEF Pairs
  <2>2. Index({0, 0}) = 0
    BY IndexInRow, RowStarts
  <2>. QED
    BY <2>1, <2>2
<1>4. ASSUME NEW k \in 1 .. PairCount - 1, k - 1 \in S
      PROVE  k \in S
  <2>1. k - 1 \in Ids
    BY <1>2 DEF Ids
  <2>2. PICK p \in Pairs : Index(p) = k - 1
    BY <1>4, <2>1
  <2>3. PICK i \in States, j \in States : i <= j /\ p = {i, j}
    BY PairEnds
  <2>4. i \in Nat /\ j \in Nat /\ i < StateCount /\ j < StateCount
    BY <1>1, <2>3
  <2>5. RowStart(i) + (j - i) = k - 1 /\ RowStart(i) \in Int
    BY <2>2, <2>3, <2>4, IndexInRow, RowStarts
  <2>6. CASE j + 1 < StateCount
    <3>1. {i, j + 1} \in Pairs
      BY <1>1, <2>4, <2>6 DEF Pairs
    <3>2. Index({i, j + 1}) = RowStart(i) + ((j + 1) - i)
      BY <2>3, <2>4, IndexInRow
    <3>3. Index({i, j + 1}) = k
      BY <2>4, <2>5, <3>2
    <3>. QED
      BY <3>1, <3>3
  <2>7. CASE j + 1 = StateCount
    <3>1. RowStart(i + 1) = RowStart(i) + StateCount - i
      BY <2>4, RowStarts
    <3>2. RowStart(i + 1) = k
      BY <1>1, <2>4, <2>5, <2>7, <3>1
    <3>3. i + 1 < StateCount
      <4>1. CASE i + 1 = StateCount
        BY <1>2, <3>2, <4>1, RowStarts
      <4>. QED
        BY <1>1, <2>4, <4>1
    <3>4. {i + 1, i + 1} \in Pairs
      BY <1>1, <2>4, <3>3 DEF Pairs
    <3>5. Index({i + 1, i + 1}) = RowStart(i + 1) + ((i + 1) - (i + 1))
      BY <2>4, IndexInRow
    <3>6. Index({i + 1, i + 1}) = k
      BY <2>4, <3>2, <3>5
    <3>. QED
      BY <3>4, <3>6
  <2>. QED
    BY <1>1, <2>4, <2>6, <2>7
<1> HIDE DEF S
<1>5. \A k \in 0 .. PairCount - 1 : k \in S
  <2>1. PairCount - 1 \in Nat
    BY <1>2
  <2>. QED
    BY <1>3, <1>4, <2>1, StepByStep
<1>. QED
  BY <1>2, <1>5 DEF S, Ids

-----------------------------------------------------------------------------
(* Sets that are arranged. *)

\* R orders s.
Orders(R, s) ==
  /\ \A x \in s : <<x, x>> \notin R
  /\ \A x, y \in s : x # y => <<x, y>> \in R \/ <<y, x>> \in R
  /\ \A x, y, z \in s : <<x, y>> \in R /\ <<y, z>> \in R => <<x, z>> \in R

\* How many members of s come before x.
Rank(s, R, x) == Cardinality({y \in s : <<y, x>> \in R})

RanksFit(s, R) ==
  /\ \A x \in s : Rank(s, R, x) \in 0 .. Cardinality(s) - 1
  /\ \A x, y \in s : <<x, y>> \in R <=> Rank(s, R, x) < Rank(s, R, y)
  /\ \A x, y \in s : Rank(s, R, x) = Rank(s, R, y) => x = y
  /\ \A k \in 0 .. Cardinality(s) - 1 : \E x \in s : Rank(s, R, x) = k

\* Members of a finite set that is ordered have the ranks from 0 on, each its own.
LEMMA Ranked ==
  ASSUME NEW s, IsFiniteSet(s), NEW R, Orders(R, s)
  PROVE  RanksFit(s, R)
<1> USE DEF RanksFit
<1> DEFINE B(x) == {y \in s : <<y, x>> \in R}
<1>1. Cardinality(s) \in Nat
  BY FS_CardinalityType
<1>2. ASSUME NEW x \in s
      PROVE  /\ IsFiniteSet(B(x)) /\ Cardinality(B(x)) \in Nat
             /\ Cardinality(B(x)) < Cardinality(s)
  <2>1. B(x) \in SUBSET s /\ B(x) # s
    BY DEF Orders
  <2>2. IsFiniteSet(B(x)) /\ Cardinality(B(x)) <= Cardinality(s)
        /\ Cardinality(s) # Cardinality(B(x))
    BY <2>1, FS_Subset
  <2>3. Cardinality(B(x)) \in Nat
    BY <2>2, FS_CardinalityType
  <2>. QED
    BY <1>1, <2>2, <2>3
<1>3. ASSUME NEW x \in s, NEW y \in s, <<x, y>> \in R
      PROVE  Cardinality(B(x)) < Cardinality(B(y))
  <2>1. B(x) \subseteq B(y) /\ x \in B(y) /\ x \notin B(x)
    BY <1>3 DEF Orders
  <2>2. B(x) \in SUBSET B(y) /\ B(x) # B(y)
    BY <2>1
  <2>3. Cardinality(B(x)) <= Cardinality(B(y)) /\ Cardinality(B(y)) # Cardinality(B(x))
    BY <1>2, <2>2, FS_Subset
  <2>. QED
    BY <1>2, <2>3
<1>4. \A x, y \in s : <<x, y>> \in R <=> Cardinality(B(x)) < Cardinality(B(y))
  <2> SUFFICES ASSUME NEW x \in s, NEW y \in s
               PROVE  <<x, y>> \in R <=> Cardinality(B(x)) < Cardinality(B(y))
    OBVIOUS
  <2>1. x # y => <<x, y>> \in R \/ <<y, x>> \in R
    BY DEF Orders
  <2>2. <<x, y>> \in R => Cardinality(B(x)) < Cardinality(B(y))
    BY <1>3
  <2>3. <<y, x>> \in R => Cardinality(B(y)) < Cardinality(B(x))
    BY <1>3
  <2>4. Cardinality(B(x)) \in Nat /\ Cardinality(B(y)) \in Nat
    BY <1>2
  <2>5. CASE x = y
    <3>1. <<x, y>> \notin R
      BY <2>5 DEF Orders
    <3>2. Cardinality(B(x)) = Cardinality(B(y))
      BY <2>5
    <3>. QED
      BY <2>4, <3>1, <3>2
  <2> HIDE DEF B
  <2>6. CASE x # y
    BY <2>1, <2>2, <2>3, <2>4, <2>6
  <2>. QED
    BY <2>5, <2>6
<1>5. \A x, y \in s : Cardinality(B(x)) = Cardinality(B(y)) => x = y
  <2> SUFFICES ASSUME NEW x \in s, NEW y \in s, Cardinality(B(x)) = Cardinality(B(y)), x # y
               PROVE  FALSE
    OBVIOUS
  <2>1. <<x, y>> \in R \/ <<y, x>> \in R
    BY DEF Orders
  <2>2. Cardinality(B(x)) \in Nat
    BY <1>2
  <2>. QED
    BY <1>3, <2>1, <2>2
<1> DEFINE rank == [x \in s |-> Cardinality(B(x))]
           N == 0 .. Cardinality(s) - 1
<1>6. \A k \in N : \E x \in s : rank[x] = k
  <2>1. rank \in Injection(s, N)
    <3>1. rank \in [s -> N]
      BY <1>1, <1>2
    <3>2. \A x, y \in s : rank[x] = rank[y] => x = y
      BY <1>5
    <3>. QED
      BY <3>1, <3>2 DEF Injection, IsInjective
  <2>2. IsFiniteSet(N) /\ Cardinality(N) = Cardinality(s)
    BY <1>1, FS_Interval
  <2>3. rank \in Surjection(s, N)
    BY <2>1, <2>2, FS_Injection
  <2>. QED
    BY <2>3 DEF Surjection
<1>7. \A x : Rank(s, R, x) = Cardinality(B(x))
  BY DEF Rank
<1>8. \A x \in s : rank[x] = Cardinality(B(x))
  OBVIOUS
<1> HIDE DEF B, rank
<1>. QED
  BY <1>1, <1>2, <1>4, <1>5, <1>6, <1>7, <1>8

\* There are n numbers below n.
LEMMA CountUp ==
  ASSUME NEW n \in Nat
  PROVE  IsFiniteSet(0 .. n - 1) /\ Cardinality(0 .. n - 1) = n
BY FS_Interval

\* f gives the members of s the numbers below n, in the order of R.
Numbers(f, n, s, R) ==
  /\ f \in [s -> 0 .. n - 1]
  /\ \A x, y \in s : <<x, y>> \in R <=> f[x] < f[y]
  /\ \A x, y \in s : f[x] = f[y] => x = y
  /\ \A k \in 0 .. n - 1 : \E x \in s : f[x] = k

\* A numbering of a set that goes with its order is its rank.
LEMMA RankIs ==
  ASSUME NEW s, NEW R, NEW n \in Nat, NEW f, Numbers(f, n, s, R)
  PROVE  /\ IsFiniteSet(s) /\ Cardinality(s) = n
         /\ \A x \in s : Rank(s, R, x) = f[x]
<1> USE DEF Numbers
<1>1. IsFiniteSet(s) /\ Cardinality(s) = n
  <2>1. f \in Surjection(s, 0 .. n - 1) /\ f \in Injection(s, 0 .. n - 1)
    BY DEF Surjection, Injection, IsInjective
  <2>2. IsFiniteSet(0 .. n - 1) /\ Cardinality(0 .. n - 1) = n
    BY CountUp
  <2>. QED
    BY <2>1, <2>2, FS_Injection
<1>2. ASSUME NEW x \in s
      PROVE  Rank(s, R, x) = f[x]
  <2> DEFINE below == {y \in s : <<y, x>> \in R}
             g == [y \in below |-> f[y]]
  <2>1. f[x] \in 0 .. n - 1
    OBVIOUS
  <2>2. g \in [below -> 0 .. f[x] - 1]
    <3>1. ASSUME NEW y \in below PROVE f[y] \in 0 .. f[x] - 1
      <4>1. y \in s /\ f[y] < f[x] /\ f[y] \in 0 .. n - 1
        OBVIOUS
      <4>. QED
        BY <2>1, <4>1
    <3>. QED
      BY <3>1
  <2>3. \A y, z \in below : g[y] = g[z] => y = z
    OBVIOUS
  <2>4. \A k \in 0 .. f[x] - 1 : \E y \in below : g[y] = k
    <3> SUFFICES ASSUME NEW k \in 0 .. f[x] - 1
                 PROVE  \E y \in below : g[y] = k
      OBVIOUS
    <3>1. k \in 0 .. n - 1 /\ k < f[x]
      BY <2>1
    <3>2. PICK y \in s : f[y] = k
      BY <3>1
    <3>3. y \in below
      BY <3>1, <3>2
    <3>. QED
      BY <3>2, <3>3
  <2>5. IsFiniteSet(0 .. f[x] - 1) /\ Cardinality(0 .. f[x] - 1) = f[x]
    <3>1. PICK m \in Nat : m = f[x]
      BY <2>1
    <3>2. IsFiniteSet(0 .. m - 1) /\ Cardinality(0 .. m - 1) = m
      BY CountUp
    <3>. QED
      BY <3>1, <3>2
  <2>6. g \in Injection(below, 0 .. f[x] - 1) /\ g \in Surjection(below, 0 .. f[x] - 1)
    BY <2>2, <2>3, <2>4 DEF Injection, IsInjective, Surjection
  <2>7. Cardinality(below) = f[x]
    BY <2>5, <2>6, FS_Injection
  <2>. QED
    BY <2>7 DEF Rank
<1>. QED
  BY <1>1, <1>2


\* The loops of sg_oracle_fill_pairs visit the pairs in the order of sg_pair_index.
LEMMA PairsFilled ==
  /\ Cardinality(Pairs) = PairCount
  /\ PairOf \in [Ids -> Pairs]
  /\ \A p \in Pairs : PairOf[Index(p)] = p
  /\ \A i \in Ids : Index(PairOf[i]) = i
<1> DEFINE R == {x \in Pairs \X Pairs : Before(x[1], x[2])}
           f == [p \in Pairs |-> Index(p)]
<1>1. PairCount \in Nat \ {0} /\ Ids = 0 .. PairCount - 1
  BY IndexOnto DEF Ids
<1>2. f \in [Pairs -> 0 .. PairCount - 1]
  BY <1>1, IndexOrdered
<1>3. \A p, q \in Pairs : <<p, q>> \in R <=> Before(p, q)
  OBVIOUS
<1>4. Cardinality(Pairs) = PairCount /\ \A p \in Pairs : Rank(Pairs, R, p) = f[p]
  <2>1. \A p, q \in Pairs : <<p, q>> \in R <=> f[p] < f[q]
    BY <1>3, IndexOrdered
  <2>2. \A p, q \in Pairs : f[p] = f[q] => p = q
    BY IndexOrdered
  <2>3. \A k \in 0 .. PairCount - 1 : \E p \in Pairs : f[p] = k
    BY <1>1, IndexOnto
  <2>4. PairCount \in Nat
    BY <1>1
  <2> HIDE DEF R, f
  <2>5. /\ IsFiniteSet(Pairs) /\ Cardinality(Pairs) = PairCount
        /\ \A p \in Pairs : Rank(Pairs, R, p) = f[p]
    <3>1. Numbers(f, PairCount, Pairs, R)
      BY <1>2, <2>1, <2>2, <2>3 DEF Numbers
    <3>. QED
      BY <2>4, <3>1, RankIs
  <2>. QED
    BY <2>5
<1>5. ASSUME NEW p \in Pairs
      PROVE  Cardinality({q \in Pairs : Before(q, p)}) = Index(p)
  <2>1. {q \in Pairs : Before(q, p)} = {q \in Pairs : <<q, p>> \in R}
    BY <1>3
  <2>. QED
    BY <1>4, <2>1 DEF Rank
<1>6. PairOf = [i \in Ids |-> [k \in 1 .. Cardinality(Pairs) |->
        CHOOSE p \in Pairs : Cardinality({q \in Pairs : Before(q, p)}) = k - 1][i + 1]]
  BY DEF PairOf, Arranged
<1>7. ASSUME NEW i \in Ids
      PROVE  PairOf[i] \in Pairs /\ Index(PairOf[i]) = i
  <2> DEFINE inOrder == [k \in 1 .. Cardinality(Pairs) |->
               CHOOSE p \in Pairs : Cardinality({q \in Pairs : Before(q, p)}) = k - 1]
  <2>0. PairOf[i] = inOrder[i + 1]
    BY <1>6
  <2>1. PairOf[i] = CHOOSE p \in Pairs : Cardinality({q \in Pairs : Before(q, p)}) = (i + 1) - 1
    <3>1. i + 1 \in 1 .. Cardinality(Pairs)
      BY <1>1, <1>4
    <3>. QED
      BY <2>0, <3>1
  <2>2. \E p \in Pairs : Cardinality({q \in Pairs : Before(q, p)}) = (i + 1) - 1
    BY <1>1, <1>5, IndexOnto
  <2>3. PairOf[i] \in Pairs /\ Cardinality({q \in Pairs : Before(q, PairOf[i])}) = (i + 1) - 1
    BY <2>1, <2>2
  <2>. QED
    BY <1>1, <1>5, <2>3
<1>8. PairOf \in [Ids -> Pairs]
  BY <1>6, <1>7
<1>9. ASSUME NEW p \in Pairs
      PROVE  PairOf[Index(p)] = p
  <2>1. Index(p) \in Ids
    BY IndexOrdered
  <2>. QED
    BY <1>7, <2>1, IndexOrdered
<1>. QED
  BY <1>4, <1>7, <1>8, <1>9


-----------------------------------------------------------------------------
(* Edges. *)

\* An edge is a pair and an action.
LEMMA EdgeParts ==
  /\ IsFiniteSet(Edges) /\ Edges \subseteq Nat
  /\ \A e \in Edges : Source(e) \in Ids /\ ActionOf(e) \in Actions
                      /\ e = Source(e) * ActionCount + ActionOf(e)
  /\ \A i \in Ids, a \in Actions :
       /\ i * ActionCount + a \in Edges
       /\ Source(i * ActionCount + a) = i /\ ActionOf(i * ActionCount + a) = a
<1>1. PairCount \in Nat \ {0} /\ ActionCount \in Nat \ {0}
  BY IndexOnto, GraphAssumption
<1>2. PICK size \in Nat : size = PairCount * ActionCount
  BY <1>1
<1>3. Edges = 0 .. size - 1
  BY <1>2 DEF Edges
<1>4. ASSUME NEW e \in Edges
      PROVE  Source(e) \in Ids /\ ActionOf(e) \in Actions
             /\ e = Source(e) * ActionCount + ActionOf(e)
  <2>1. e \in Nat /\ e < size
    BY <1>2, <1>3
  <2>2. PICK q \in Int, r \in Int : q = e \div ActionCount /\ r = e % ActionCount
    BY <1>1, <2>1
  <2>3. e = ActionCount * q + r /\ 0 <= r /\ r < ActionCount
    BY <1>1, <2>1, <2>2
  <2>4. q >= 0
    <3>1. CASE q <= -1
      <4>1. ActionCount * q <= -ActionCount
        BY <1>1, <2>2, <3>1
      <4>. QED
        BY <1>1, <2>1, <2>2, <2>3, <4>1
    <3>. QED
      BY <2>2, <3>1
  <2>5. q < PairCount
    <3>1. CASE q >= PairCount
      <4>1. ActionCount * q >= ActionCount * PairCount
        BY <1>1, <2>2, <3>1
      <4>. QED
        BY <1>1, <1>2, <2>1, <2>2, <2>3, <4>1
    <3>. QED
      BY <1>1, <2>2, <3>1
  <2>6. ActionCount * q = q * ActionCount
    BY <1>1, <2>2
  <2>. QED
    BY <1>1, <2>2, <2>3, <2>4, <2>5, <2>6 DEF Source, ActionOf, Ids, Actions
<1>5. ASSUME NEW i \in Ids, NEW a \in Actions
      PROVE  /\ i * ActionCount + a \in Edges
             /\ Source(i * ActionCount + a) = i /\ ActionOf(i * ActionCount + a) = a
  <2>1. i \in Nat /\ i <= PairCount - 1 /\ a \in Nat /\ a <= ActionCount - 1
    BY <1>1 DEF Ids, Actions
  <2>2. PICK m \in Nat : m = i * ActionCount
    BY <1>1, <2>1
  <2>3. m + ActionCount <= size
    <3>1. m + ActionCount = (i + 1) * ActionCount
      BY <1>1, <2>1, <2>2
    <3>2. (i + 1) * ActionCount <= PairCount * ActionCount
      BY <1>1, <2>1
    <3>. QED
      BY <1>2, <3>1, <3>2
  <2>4. m + a \in Edges
    BY <1>1, <1>3, <2>1, <2>2, <2>3
  <2>5. (m + a) \div ActionCount = i /\ (m + a) % ActionCount = a
    BY <1>1, <2>1, <2>2
  <2>. QED
    BY <2>2, <2>4, <2>5 DEF Source, ActionOf
<1>6. IsFiniteSet(Edges)
  BY <1>2, <1>3, CountUp
<1>. QED
  BY <1>2, <1>3, <1>4, <1>5, <1>6

\* Edges by where they lead, and by number if they lead to the same pair.
Earlier(e, f) ==
  edges[e].next < edges[f].next \/ (edges[e].next = edges[f].next /\ e < f)

\* What sg_oracle_fill_pairs writes for each edge.
Arrows ==
  edges = [e \in Edges |->
    [next |-> Index(Target(Model, PairOf[Source(e)], ActionOf(e))),
     differ |-> OutputsDiffer(Model, PairOf[Source(e)], ActionOf(e))]]

\* Edges lead to pairs, by their numbers.
LEMMA ArrowsLead ==
  ASSUME Arrows, Model \in Automata
  PROVE  \A e \in Edges :
           /\ edges[e].next \in Ids
           /\ PairOf[edges[e].next] = Target(Model, PairOf[Source(e)], ActionOf(e))
           /\ edges[e].differ = OutputsDiffer(Model, PairOf[Source(e)], ActionOf(e))
<1> SUFFICES ASSUME NEW e \in Edges
             PROVE  /\ edges[e].next \in Ids
                    /\ PairOf[edges[e].next] = Target(Model, PairOf[Source(e)], ActionOf(e))
                    /\ edges[e].differ = OutputsDiffer(Model, PairOf[Source(e)], ActionOf(e))
  OBVIOUS
<1>1. PairOf[Source(e)] \in Pairs /\ ActionOf(e) \in Actions
  BY EdgeParts, PairsFilled
<1>2. PICK q \in Pairs : q = Target(Model, PairOf[Source(e)], ActionOf(e))
  BY <1>1, TargetType
<1>3. edges[e].next = Index(q) /\ edges[e].differ = OutputsDiffer(Model, PairOf[Source(e)], ActionOf(e))
  BY <1>2 DEF Arrows
<1>. QED
  BY <1>2, <1>3, PairsFilled, IndexOrdered

\* Numbers that are sorted by where they lead: those that lead to i are counted from
\* the number of those that lead below i on.
LEMMA Buckets ==
  ASSUME NEW S \in SUBSET Nat, IsFiniteSet(S), NEW to \in [S -> Nat]
  PROVE  LET Prior(f, e) == to[f] < to[e] \/ (to[f] = to[e] /\ f < e)
             place(e) == Cardinality({f \in S : Prior(f, e)})
             offset(i) == Cardinality({e \in S : to[e] < i})
         IN /\ \A i \in Nat : offset(i) \in Nat /\ offset(i) <= Cardinality(S)
            /\ \A i \in Nat : offset(i + 1) - offset(i) = Cardinality({e \in S : to[e] = i})
            /\ \A e \in S : place(e) \in 0 .. Cardinality(S) - 1
            /\ \A k \in 0 .. Cardinality(S) - 1 : \E e \in S : place(e) = k
            /\ \A e, f \in S : place(e) = place(f) => e = f
            /\ \A e \in S, i \in Nat :
                 place(e) \in offset(i) .. offset(i + 1) - 1 <=> to[e] = i
<1> DEFINE Prior(f, e) == to[f] < to[e] \/ (to[f] = to[e] /\ f < e)
           place(e) == Cardinality({f \in S : Prior(f, e)})
           Below(i) == {e \in S : to[e] < i}
           offset(i) == Cardinality({e \in S : to[e] < i})
           Into(i) == {e \in S : to[e] = i}
           R == {x \in S \X S : Prior(x[1], x[2])}
<1>1. \A e, f \in S : <<e, f>> \in R <=> Prior(e, f)
  OBVIOUS
<1>2. Orders(R, S)
  <2>1. \A e \in S : to[e] \in Nat /\ e \in Nat
    OBVIOUS
  <2>2. \A e \in S : ~Prior(e, e)
    BY <2>1
  <2>3. \A e, f \in S : e # f => Prior(e, f) \/ Prior(f, e)
    BY <2>1
  <2>4. \A e, f, g \in S : Prior(e, f) /\ Prior(f, g) => Prior(e, g)
    BY <2>1
  <2> HIDE DEF R, Prior
  <2>. QED
    BY <1>1, <2>2, <2>3, <2>4 DEF Orders
<1>3. ASSUME NEW e \in S PROVE place(e) = Rank(S, R, e)
  <2>1. {f \in S : Prior(f, e)} = {f \in S : <<f, e>> \in R}
    <3> HIDE DEF R, Prior
    <3>. QED
      BY <1>1
  <2>. QED
    BY <2>1 DEF Rank
<1>4. Cardinality(S) \in Nat
  BY FS_CardinalityType
<1>5. /\ \A e \in S : place(e) \in 0 .. Cardinality(S) - 1
      /\ \A e, f \in S : place(e) = place(f) => e = f
      /\ \A k \in 0 .. Cardinality(S) - 1 : \E e \in S : place(e) = k
  <2> HIDE DEF R, place
  <2>1. /\ \A x \in S : Rank(S, R, x) \in 0 .. Cardinality(S) - 1
        /\ \A x, y \in S : Rank(S, R, x) = Rank(S, R, y) => x = y
        /\ \A k \in 0 .. Cardinality(S) - 1 : \E x \in S : Rank(S, R, x) = k
    <3>1. IsFiniteSet(S)
      OBVIOUS
    <3> HIDE DEF Orders
    <3>2. RanksFit(S, R)
      BY <1>2, <3>1, Ranked
    <3>. QED
      BY <3>2 DEF RanksFit
  <2>. QED
    BY <1>3, <2>1
<1>6. ASSUME NEW i
      PROVE  /\ IsFiniteSet(Below(i)) /\ Cardinality(Below(i)) \in Nat
             /\ Cardinality(Below(i)) <= Cardinality(S) /\ offset(i) = Cardinality(Below(i))
  <2>1. Below(i) \in SUBSET S
    OBVIOUS
  <2>2. IsFiniteSet(Below(i)) /\ Cardinality(Below(i)) <= Cardinality(S)
    BY <2>1, FS_Subset
  <2>. QED
    BY <2>2, FS_CardinalityType
<1> HIDE DEF offset
<1>7. ASSUME NEW i \in Nat
      PROVE  offset(i + 1) - offset(i) = Cardinality(Into(i))
  <2>1. Below(i + 1) = Below(i) \cup Into(i) /\ Below(i) \cap Into(i) = {}
    <3>1. \A e \in S : to[e] \in Nat
      OBVIOUS
    <3>2. \A e \in S : (to[e] < i + 1 <=> to[e] < i \/ to[e] = i) /\ ~(to[e] < i /\ to[e] = i)
      BY <3>1
    <3>. QED
      BY <3>2
  <2>2. Into(i) \in SUBSET S
    OBVIOUS
  <2> HIDE DEF Below, Into
  <2>3. IsFiniteSet(Into(i)) /\ Cardinality(Into(i)) \in Nat
    BY <2>2, FS_Subset, FS_CardinalityType
  <2>4. Cardinality(Below(i) \cup Into(i))
          = Cardinality(Below(i)) + Cardinality(Into(i)) - Cardinality(Below(i) \cap Into(i))
    BY <1>6, <2>3, FS_Union
  <2>5. Cardinality(Below(i) \cap Into(i)) = 0
    BY <2>1, FS_EmptySet
  <2>. QED
    BY <1>6, <2>1, <2>3, <2>4, <2>5
<1>8. ASSUME NEW e \in S, NEW i \in Nat, to[e] = i
      PROVE  place(e) \in offset(i) .. offset(i + 1) - 1
  <2> DEFINE P == {f \in S : Prior(f, e)}
  <2>1. Below(i) \subseteq P /\ P \subseteq Below(i + 1) /\ e \in Below(i + 1) /\ e \notin P
    <3>1. \A f \in S : to[f] \in Nat /\ f \in Nat
      OBVIOUS
    <3>2. \A f \in S : (to[f] < i => Prior(f, e)) /\ (Prior(f, e) => to[f] < i + 1)
      BY <1>8, <3>1
    <3>3. to[e] < i + 1 /\ ~Prior(e, e)
      BY <1>8, <3>1
    <3> HIDE DEF Prior
    <3>. QED
      BY <3>2, <3>3
  <2>2. P \in SUBSET Below(i + 1) /\ P # Below(i + 1) /\ Below(i) \in SUBSET P
    BY <2>1
  <2>3. place(e) = Cardinality(P)
    OBVIOUS
  <2> HIDE DEF P, Below, place
  <2>4. IsFiniteSet(P) /\ Cardinality(P) <= Cardinality(Below(i + 1))
        /\ Cardinality(P) # Cardinality(Below(i + 1))
    BY <1>6, <2>2, FS_Subset
  <2>5. Cardinality(Below(i)) <= Cardinality(P) /\ Cardinality(P) \in Nat
    BY <2>2, <2>4, FS_Subset, FS_CardinalityType
  <2>6. offset(i) = Cardinality(Below(i)) /\ offset(i + 1) = Cardinality(Below(i + 1))
        /\ Cardinality(Below(i)) \in Nat /\ Cardinality(Below(i + 1)) \in Nat
    BY <1>6
  <2>. QED
    BY <2>3, <2>4, <2>5, <2>6
<1>9. ASSUME NEW i \in Nat, NEW j \in Nat, i <= j
      PROVE  offset(i) <= offset(j)
  <2>1. Below(i) \in SUBSET Below(j)
    <3>1. \A e \in S : to[e] \in Nat
      OBVIOUS
    <3>2. \A e \in S : to[e] < i => to[e] < j
      BY <1>9, <3>1
    <3>. QED
      BY <3>2
  <2> HIDE DEF Below
  <2>. QED
    BY <1>6, <2>1, FS_Subset
<1> HIDE DEF place, Below, Prior
<1>10. \A i \in Nat : offset(i) \in Nat /\ offset(i) <= Cardinality(S)
  BY <1>6
<1>11. ASSUME NEW e \in S, NEW i \in Nat, place(e) \in offset(i) .. offset(i + 1) - 1
       PROVE  to[e] = i
  <2>1. PICK j \in Nat : j = to[e]
    OBVIOUS
  <2>2. PICK x \in Nat : x = place(e)
    BY <1>4, <1>5
  <2>3. /\ offset(i) <= x /\ x < offset(i + 1)
        /\ offset(j) <= x /\ x < offset(j + 1)
    <3>1. x \in offset(j) .. offset(j + 1) - 1 /\ x \in offset(i) .. offset(i + 1) - 1
      BY <1>8, <1>11, <2>1, <2>2
    <3>2. offset(i) \in Nat /\ offset(i + 1) \in Nat /\ offset(j) \in Nat /\ offset(j + 1) \in Nat
      BY <1>10
    <3>. QED
      BY <2>2, <3>1, <3>2
  <2>5. ~(j + 1 <= i)
    <3> SUFFICES ASSUME j + 1 <= i PROVE FALSE
      OBVIOUS
    <3>1. offset(j + 1) <= offset(i)
      BY <1>9
    <3>2. offset(i) \in Nat /\ offset(j + 1) \in Nat
      BY <1>10
    <3>. QED
      BY <2>2, <2>3, <3>1, <3>2
  <2>6. ~(i + 1 <= j)
    <3> SUFFICES ASSUME i + 1 <= j PROVE FALSE
      OBVIOUS
    <3>1. offset(i + 1) <= offset(j)
      BY <1>9
    <3>2. offset(j) \in Nat /\ offset(i + 1) \in Nat
      BY <1>10
    <3>. QED
      BY <2>2, <2>3, <3>1, <3>2
  <2>. QED
    BY <2>1, <2>5, <2>6
<1>12. \A i \in Nat : offset(i + 1) - offset(i) = Cardinality({e \in S : to[e] = i})
  BY <1>7
<1>13. \A e \in S, i \in Nat :
         place(e) \in offset(i) .. offset(i + 1) - 1 <=> to[e] = i
  BY <1>8, <1>11
<1>. QED
  BY <1>5, <1>10, <1>12, <1>13 DEF place, offset, Prior

\* The numbers of the edges, in one line.
LEMMA EdgeCount == Edges = 0 .. Cardinality(Edges) - 1 /\ Cardinality(Edges) \in Nat
<1>1. PICK size \in Nat : size = PairCount * ActionCount
  <2>1. PairCount \in Nat \ {0} /\ ActionCount \in Nat \ {0}
    BY IndexOnto, GraphAssumption
  <2>. QED
    BY <2>1
<1>2. Edges = 0 .. size - 1
  BY <1>1 DEF Edges
<1>. QED
  BY <1>2, CountUp

\* What sg_predecessors_build leaves.
Grouped(offset, edge) ==
  \A i \in Ids :
    LET here == offset[i] .. offset[i + 1] - 1
    IN /\ {edge[k] : k \in here} = {e \in Edges : edges[e].next = i}
       /\ Cardinality(here) = Cardinality({e \in Edges : edges[e].next = i})

\* Sorting groups the edges by where they lead.
LEMMA EdgesGrouped ==
  ASSUME Sort, \A e \in Edges : edges[e].next \in Ids
  PROVE  Grouped(into'.offset, into'.edge)
<1> DEFINE to == [e \in Edges |-> edges[e].next]
           Prior(f, e) == to[f] < to[e] \/ (to[f] = to[e] /\ f < e)
           place(e) == Cardinality({f \in Edges : Prior(f, e)})
           offset(i) == Cardinality({e \in Edges : to[e] < i})
           Into(i) == {e \in Edges : to[e] = i}
           lies == [k \in Edges |-> CHOOSE e \in Edges : place(e) = k]
<1>1. Edges \in SUBSET Nat /\ IsFiniteSet(Edges) /\ to \in [Edges -> Nat]
      /\ Ids = 0 .. PairCount - 1 /\ PairCount \in Nat
  BY EdgeParts, IndexOnto DEF Ids
<1>2. /\ \A i \in Nat : offset(i) \in Nat /\ offset(i) <= Cardinality(Edges)
      /\ \A i \in Nat : offset(i + 1) - offset(i) = Cardinality(Into(i))
      /\ \A e \in Edges : place(e) \in 0 .. Cardinality(Edges) - 1
      /\ \A k \in 0 .. Cardinality(Edges) - 1 : \E e \in Edges : place(e) = k
      /\ \A e, f \in Edges : place(e) = place(f) => e = f
      /\ \A e \in Edges, i \in Nat :
           place(e) \in offset(i) .. offset(i + 1) - 1 <=> to[e] = i
  <2> HIDE DEF to
  <2>. QED
    BY <1>1, Buckets
<1>3. \A i : {e \in Edges : edges[e].next < i} = {e \in Edges : to[e] < i}
  OBVIOUS
<1>4. \A e \in Edges : {f \in Edges : edges[f].next < edges[e].next
                                      \/ (edges[f].next = edges[e].next /\ f < e)}
                        = {f \in Edges : Prior(f, e)}
  OBVIOUS
<1>5. into'.offset = [i \in 0 .. PairCount |-> offset(i)]
  <2>1. into'.offset = [i \in 0 .. PairCount |-> Offset(i)]
    BY DEF Sort
  <2>2. \A i : Offset(i) = offset(i)
    BY <1>3 DEF Offset
  <2> HIDE DEF offset
  <2>. QED
    BY <2>1, <2>2
<1>6. into'.edge = lies
  <2> DEFINE first(e) == Cardinality({f \in Edges :
                edges[f].next < edges[e].next \/ (edges[f].next = edges[e].next /\ f < e)})
  <2>1. into'.edge = [k \in Edges |->
            [n \in 1 .. Cardinality(Edges) |-> CHOOSE e \in Edges : first(e) = n - 1][k + 1]]
    BY DEF Sort, Arranged
  <2>2. \A e \in Edges : first(e) = place(e)
    BY <1>4
  <2>3. \A k \in Edges : k \in Nat /\ k + 1 \in 1 .. Cardinality(Edges) /\ (k + 1) - 1 = k
    BY EdgeCount
  <2> HIDE DEF first, place
  <2>4. \A n : (CHOOSE e \in Edges : first(e) = n) = (CHOOSE e \in Edges : place(e) = n)
    BY <2>2
  <2>5. ASSUME NEW k \in Edges
        PROVE  [n \in 1 .. Cardinality(Edges) |-> CHOOSE e \in Edges : first(e) = n - 1][k + 1]
                 = CHOOSE e \in Edges : place(e) = k
    <3> DEFINE pick(m) == CHOOSE e \in Edges : first(e) = m
    <3>1. [n \in 1 .. Cardinality(Edges) |-> pick(n - 1)][k + 1] = pick((k + 1) - 1)
      BY <2>3
    <3>2. pick(k) = CHOOSE e \in Edges : place(e) = k
      BY <2>4
    <3>3. pick((k + 1) - 1) = pick(k)
      <4> HIDE DEF pick
      <4>. QED
        BY <2>3
    <3>. QED
      BY <3>1, <3>2, <3>3
  <2>. QED
    BY <2>1, <2>5
<1> HIDE DEF place, offset
<1>7. \A k \in Edges : lies[k] \in Edges /\ place(lies[k]) = k
  BY <1>2, EdgeCount
<1> SUFFICES ASSUME NEW i \in Ids
             PROVE  LET here == into'.offset[i] .. into'.offset[i + 1] - 1
                    IN /\ {into'.edge[k] : k \in here} = {e \in Edges : edges[e].next = i}
                       /\ Cardinality(here) = Cardinality({e \in Edges : edges[e].next = i})
  BY DEF Grouped
<1> DEFINE here == offset(i) .. offset(i + 1) - 1
<1>8. i \in Nat /\ i + 1 \in Nat /\ i \in 0 .. PairCount /\ i + 1 \in 0 .. PairCount
  BY <1>1
<1>9. into'.offset[i] .. into'.offset[i + 1] - 1 = here
  BY <1>5, <1>8
<1>10. Into(i) = {e \in Edges : edges[e].next = i}
  OBVIOUS
<1>11. here \subseteq Edges
  BY <1>2, <1>8, EdgeCount
<1> HIDE DEF to, lies, Into
<1>12. ASSUME NEW k \in here PROVE lies[k] \in Into(i)
  BY <1>2, <1>7, <1>8, <1>11 DEF Into
<1>13. ASSUME NEW e \in Into(i) PROVE \E k \in here : lies[k] = e
  <2>1. e \in Edges /\ place(e) \in here
    BY <1>2, <1>8 DEF Into
  <2>2. place(e) \in Edges
    BY <1>11, <2>1
  <2>3. place(lies[place(e)]) = place(e) /\ lies[place(e)] \in Edges
    BY <1>7, <2>2
  <2>4. lies[place(e)] = e
    BY <1>2, <2>1, <2>3
  <2>. QED
    BY <2>1, <2>4
<1>14. {lies[k] : k \in here} = Into(i)
  <2> HIDE DEF here
  <2>. QED
    BY <1>12, <1>13
<1>15. Cardinality(here) = Cardinality(Into(i))
  <2>1. PICK m \in Nat, n \in Nat : m = offset(i) /\ n = offset(i + 1)
    BY <1>2, <1>8
  <2>2. n - m = Cardinality(Into(i)) /\ here = m .. n - 1
    BY <1>2, <1>8, <2>1
  <2>3. IsFiniteSet(Into(i)) /\ Cardinality(Into(i)) \in Nat
    <3>1. Into(i) \in SUBSET Edges
      BY DEF Into
    <3>. QED
      BY <1>1, <3>1, FS_Subset, FS_CardinalityType
  <2>4. n >= m
    BY <2>1, <2>2, <2>3
  <2>5. Cardinality(m .. n - 1) = IF m > n - 1 THEN 0 ELSE (n - 1) - m + 1
    <3>1. m \in Int /\ n - 1 \in Int
      BY <2>1
    <3>. QED
      BY <3>1, FS_Interval
  <2>. QED
    BY <2>1, <2>2, <2>4, <2>5
<1>. QED
  BY <1>6, <1>9, <1>10, <1>14, <1>15

-----------------------------------------------------------------------------
(* The queue. *)

\* q names the members of s, each of them once.
Lists(q, s) ==
  /\ q \in Seq(s)
  /\ \A j, k \in 1 .. Len(q) : q[j] = q[k] => j = k
  /\ \A x \in s : \E k \in 1 .. Len(q) : q[k] = x

\* What the places of two lists in a row hold.
LEMMA JoinParts ==
  ASSUME NEW S, NEW q \in Seq(S), NEW r \in Seq(S)
  PROVE  /\ q \o r \in Seq(S) /\ Len(q \o r) = Len(q) + Len(r)
         /\ Len(q) \in Nat /\ Len(r) \in Nat
         /\ \A k \in 1 .. Len(q) : (q \o r)[k] = q[k]
         /\ \A k \in 1 .. Len(r) : (q \o r)[Len(q) + k] = r[k]
         /\ \A k \in 1 .. Len(q \o r) :
              k \in 1 .. Len(q) \/ \E m \in 1 .. Len(r) : k = Len(q) + m
<1>1. q \o r \in Seq(S) /\ Len(q \o r) = Len(q) + Len(r) /\ Len(q) \in Nat /\ Len(r) \in Nat
  OBVIOUS
<1>2. \A k \in 1 .. Len(q) : (q \o r)[k] = q[k]
  OBVIOUS
<1>3. ASSUME NEW k \in 1 .. Len(r) PROVE (q \o r)[Len(q) + k] = r[k]
  OBVIOUS
<1>4. ASSUME NEW k \in 1 .. Len(q \o r)
      PROVE  k \in 1 .. Len(q) \/ \E m \in 1 .. Len(r) : k = Len(q) + m
  <2>1. CASE k <= Len(q)
    BY <1>1, <2>1
  <2>2. CASE k > Len(q)
    <3>1. k - Len(q) \in 1 .. Len(r) /\ k = Len(q) + (k - Len(q))
      BY <1>1, <2>2
    <3>. QED
      BY <3>1
  <2>. QED
    BY <1>1, <2>1, <2>2
<1>. QED
  BY <1>1, <1>2, <1>3, <1>4

\* Lists of different things make one list of all.
LEMMA ListsJoin ==
  ASSUME NEW s, NEW t, s \cap t = {}, NEW q, NEW r, Lists(q, s), Lists(r, t)
  PROVE  Lists(q \o r, s \cup t)
<1>1. q \in Seq(s \cup t) /\ r \in Seq(s \cup t) /\ q \in Seq(s) /\ r \in Seq(t)
  BY DEF Lists
<1> DEFINE u == q \o r
<1>2. /\ u \in Seq(s \cup t) /\ Len(u) = Len(q) + Len(r)
      /\ Len(q) \in Nat /\ Len(r) \in Nat
      /\ \A k \in 1 .. Len(q) : u[k] = q[k]
      /\ \A k \in 1 .. Len(r) : u[Len(q) + k] = r[k]
      /\ \A k \in 1 .. Len(u) :
              k \in 1 .. Len(q) \/ \E m \in 1 .. Len(r) : k = Len(q) + m
  BY <1>1, JoinParts
<1>3. (\A k \in 1 .. Len(q) : q[k] \in s) /\ (\A k \in 1 .. Len(r) : r[k] \in t)
  BY <1>1
<1> HIDE DEF u
<1>4. ASSUME NEW j \in 1 .. Len(u), NEW k \in 1 .. Len(u), u[j] = u[k]
      PROVE  j = k
  <2>1. CASE j \in 1 .. Len(q) /\ k \in 1 .. Len(q)
    BY <1>2, <1>4, <2>1 DEF Lists
  <2>2. CASE \E m \in 1 .. Len(r), n \in 1 .. Len(r) : j = Len(q) + m /\ k = Len(q) + n
    <3>1. PICK m \in 1 .. Len(r), n \in 1 .. Len(r) : j = Len(q) + m /\ k = Len(q) + n
      BY <2>2
    <3>2. r[m] = r[n]
      BY <1>2, <1>4, <3>1
    <3>3. m = n
      BY <3>2 DEF Lists
    <3>. QED
      BY <3>1, <3>3
  <2>3. CASE j \in 1 .. Len(q) /\ \E n \in 1 .. Len(r) : k = Len(q) + n
    BY <1>2, <1>3, <1>4, <2>3
  <2>4. CASE k \in 1 .. Len(q) /\ \E n \in 1 .. Len(r) : j = Len(q) + n
    BY <1>2, <1>3, <1>4, <2>4
  <2>. QED
    BY <1>2, <2>1, <2>2, <2>3, <2>4
<1>5. ASSUME NEW x \in s \cup t PROVE \E k \in 1 .. Len(u) : u[k] = x
  <2>1. CASE x \in s
    <3>1. PICK k \in 1 .. Len(q) : q[k] = x
      BY <2>1 DEF Lists
    <3>2. k \in 1 .. Len(u) /\ u[k] = x
      BY <1>2, <3>1
    <3>. QED
      BY <3>2
  <2>2. CASE x \in t
    <3>1. PICK k \in 1 .. Len(r) : r[k] = x
      BY <2>2 DEF Lists
    <3>2. Len(q) + k \in 1 .. Len(u) /\ u[Len(q) + k] = x
      BY <1>2, <3>1
    <3>. QED
      BY <3>2
  <2>. QED
    BY <2>1, <2>2
<1>6. Lists(u, s \cup t)
  BY <1>2, <1>4, <1>5 DEF Lists
<1>. QED
  BY <1>6 DEF u

\* Numbers of pairs in their order.
LEMMA InOrderLists ==
  ASSUME NEW ids \in SUBSET Ids
  PROVE  Lists(InOrder(ids), ids)
<1> DEFINE R == {x \in ids \X ids : x[1] < x[2]}
           before(x) == Cardinality({y \in ids : y < x})
           n == Cardinality(ids)
           q == [k \in 1 .. n |-> CHOOSE x \in ids : before(x) = k - 1]
<1>1. IsFiniteSet(ids) /\ ids \subseteq Nat /\ n \in Nat
  <2>1. PairCount \in Nat /\ Ids = 0 .. PairCount - 1
    BY IndexOnto DEF Ids
  <2>2. IsFiniteSet(Ids)
    BY <2>1, CountUp
  <2>3. IsFiniteSet(ids)
    BY <2>2, FS_Subset
  <2>4. n \in Nat
    BY <2>3, FS_CardinalityType
  <2>. QED
    BY <2>1, <2>3, <2>4
<1>2. Orders(R, ids)
  <2>1. \A x \in ids : x \in Nat
    BY <1>1
  <2>2. \A x, y \in ids : <<x, y>> \in R <=> x < y
    OBVIOUS
  <2>3. \A x, y, z \in ids : ~(x < x) /\ (x # y => x < y \/ y < x) /\ (x < y /\ y < z => x < z)
    BY <2>1
  <2> HIDE DEF R
  <2>. QED
    BY <2>2, <2>3 DEF Orders
<1>3. RanksFit(ids, R)
  <2> HIDE DEF R
  <2>. QED
    BY <1>1, <1>2, Ranked
<1>4. \A x \in ids : Rank(ids, R, x) = before(x)
  <2> SUFFICES ASSUME NEW x \in ids PROVE Rank(ids, R, x) = before(x)
    OBVIOUS
  <2>1. {y \in ids : <<y, x>> \in R} = {y \in ids : y < x}
    OBVIOUS
  <2>. QED
    BY <2>1 DEF Rank
<1>5. /\ \A x \in ids : before(x) \in 0 .. n - 1
      /\ \A k \in 0 .. n - 1 : \E x \in ids : before(x) = k
      /\ \A x, y \in ids : before(x) = before(y) => x = y
  <2> HIDE DEF R, before
  <2>. QED
    BY <1>3, <1>4 DEF RanksFit
<1>6. InOrder(ids) = q
  BY DEF InOrder, Arranged
<1> HIDE DEF before
<1>7. \A k \in 1 .. n : q[k] \in ids /\ before(q[k]) = k - 1
  <2> SUFFICES ASSUME NEW k \in 1 .. n PROVE q[k] \in ids /\ before(q[k]) = k - 1
    OBVIOUS
  <2>1. k - 1 \in 0 .. n - 1
    BY <1>1
  <2>. QED
    BY <1>5, <2>1
<1>8. q \in Seq(ids) /\ Len(q) = n
  <2>1. q \in [1 .. n -> ids]
    BY <1>7
  <2> HIDE DEF n, q
  <2>2. q \in Seq(ids)
    BY <1>1, <2>1
  <2>. QED
    BY <1>1, <2>1, <2>2
<1>9. \A j, k \in 1 .. n : q[j] = q[k] => j = k
  <2> SUFFICES ASSUME NEW j \in 1 .. n, NEW k \in 1 .. n, q[j] = q[k] PROVE j = k
    OBVIOUS
  <2>1. j - 1 = k - 1
    <3> HIDE DEF q
    <3>. QED
      BY <1>7
  <2>2. j \in Int /\ k \in Int
    BY <1>1
  <2>. QED
    BY <2>1, <2>2
<1>10. ASSUME NEW x \in ids PROVE \E k \in 1 .. n : q[k] = x
  <2>1. before(x) \in 0 .. n - 1
    BY <1>5
  <2>2. PICK k \in 1 .. n : k - 1 = before(x)
    <3>1. PICK b \in 0 .. n - 1 : b = before(x)
      BY <2>1
    <3>2. b + 1 \in 1 .. n /\ (b + 1) - 1 = b
      BY <1>1, <3>1
    <3>. QED
      BY <3>1, <3>2
  <2>3. q[k] \in ids /\ before(q[k]) = before(x)
    <3> HIDE DEF q
    <3>. QED
      BY <1>7, <2>2
  <2>. QED
    BY <1>5, <2>3
<1> HIDE DEF q, n
<1>. QED
  BY <1>6, <1>8, <1>9, <1>10 DEF Lists

\* A list of pairs is as long as they are many.
LEMMA ListLength ==
  ASSUME NEW ids \in SUBSET Ids, NEW q, Lists(q, ids)
  PROVE  Len(q) \in Nat /\ Len(q) <= PairCount
<1>1. PairCount \in Nat /\ IsFiniteSet(Ids) /\ Cardinality(Ids) = PairCount
  BY IndexOnto, CountUp DEF Ids
<1>2. q \in Seq(ids) /\ Len(q) \in Nat /\ q \in [1 .. Len(q) -> ids]
  BY DEF Lists
<1>3. q \in Injection(1 .. Len(q), Ids)
  <2>1. q \in [1 .. Len(q) -> Ids]
    BY <1>2
  <2>. QED
    BY <2>1 DEF Lists, Injection, IsInjective
<1>4. IsFiniteSet(1 .. Len(q)) /\ Cardinality(1 .. Len(q)) = Len(q)
  BY <1>2, FS_Interval
<1>5. Cardinality(1 .. Len(q)) <= Cardinality(Ids)
  BY <1>1, <1>3, <1>4, FS_Injection
<1>. QED
  BY <1>1, <1>2, <1>4, <1>5

-----------------------------------------------------------------------------
(* Backward search. *)

\* Distances that edges account for, and that no observation undercuts.
Explained(obj, dist) ==
  /\ \A i \in Ids : dist[i] = 0 <=> i \in Diagonals
  /\ \A i \in Ids : dist[i] \notin {0, None} => \E e \in EdgesOf(i) : Attains(obj, dist, e)
  /\ \A e \in Edges : TerminalEdge(obj, e) => dist[Source(e)] \in {0, 1}

\* An edge into a pair makes its source no farther than one step more.
Followed(obj, dist, e) ==
  ~TerminalEdge(obj, e) =>
    dist[Source(e)] # None /\ dist[Source(e)] <= dist[edges[e].next] + 1

\* What the queue holds: the pairs that were reached, nearest first, and the edges
\* into the first h of them are followed.
Queued(dist, q, h) ==
  /\ dist \in [Ids -> Distances] /\ h \in 0 .. Len(q)
  /\ Lists(q, {i \in Ids : dist[i] # None})
  /\ \A j, k \in 1 .. Len(q) : j < k => dist[q[j]] <= dist[q[k]]
  /\ \A j, k \in 1 .. Len(q) : h <= j => dist[q[k]] <= dist[q[j]] + 1

Reaching(obj, dist, q, h) ==
  /\ Queued(dist, q, h)
  /\ Explained(obj, dist)
  /\ \A k \in 1 .. h, e \in Edges : edges[e].next = q[k] => Followed(obj, dist, e)

\* The search starts from the diagonal and from the observations.
LEMMA SearchStarts ==
  ASSUME NEW obj, NEW dist,
         dist = [i \in Ids |-> IF i \in Diagonals THEN 0
                               ELSE IF i \in Immediate(obj) THEN 1 ELSE None]
  PROVE  Reaching(obj, dist, InOrder(Diagonals) \o InOrder(Immediate(obj)), 0)
<1> DEFINE near == InOrder(Diagonals)
           far == InOrder(Immediate(obj))
           q == near \o far
<1>1. Diagonals \in SUBSET Ids /\ Immediate(obj) \in SUBSET Ids
      /\ Diagonals \cap Immediate(obj) = {}
  BY DEF Diagonals, Immediate
<1>2. Lists(near, Diagonals) /\ Lists(far, Immediate(obj))
  BY <1>1, InOrderLists
<1> HIDE DEF near, far
<1>3. {i \in Ids : dist[i] # None} = Diagonals \cup Immediate(obj)
  BY <1>1 DEF None
<1>4. Lists(q, {i \in Ids : dist[i] # None})
  BY <1>1, <1>2, <1>3, ListsJoin
<1>5. /\ near \in Seq(Ids) /\ far \in Seq(Ids)
      /\ \A k \in 1 .. Len(near) : near[k] \in Diagonals
      /\ \A k \in 1 .. Len(far) : far[k] \in Immediate(obj)
  BY <1>1, <1>2 DEF Lists
<1>6. /\ q \in Seq(Ids) /\ Len(q) = Len(near) + Len(far)
      /\ Len(near) \in Nat /\ Len(far) \in Nat
      /\ \A k \in 1 .. Len(near) : q[k] = near[k]
      /\ \A k \in 1 .. Len(far) : q[Len(near) + k] = far[k]
      /\ \A k \in 1 .. Len(q) :
           k \in 1 .. Len(near) \/ \E m \in 1 .. Len(far) : k = Len(near) + m
  BY <1>5, JoinParts
<1> HIDE DEF q
<1>7. /\ \A k \in 1 .. Len(near) : dist[q[k]] = 0
      /\ \A k \in 1 .. Len(q) : k > Len(near) => dist[q[k]] = 1
  <2>1. ASSUME NEW k \in 1 .. Len(near) PROVE dist[q[k]] = 0
    BY <1>1, <1>5, <1>6
  <2>2. ASSUME NEW k \in 1 .. Len(q), k > Len(near) PROVE dist[q[k]] = 1
    <3>1. PICK m \in 1 .. Len(far) : k = Len(near) + m
      BY <1>6, <2>2
    <3>2. q[k] \in Immediate(obj)
      BY <1>5, <1>6, <3>1
    <3>. QED
      BY <1>1, <3>2
  <2>. QED
    BY <2>1, <2>2
<1>8. Queued(dist, q, 0)
  <2>1. dist \in [Ids -> Distances]
    BY DEF Distances, None
  <2>2. \A k \in 1 .. Len(q) : /\ k <= Len(near) => dist[q[k]] = 0
                               /\ k > Len(near) => dist[q[k]] = 1
                               /\ dist[q[k]] \in {0, 1} /\ k \in Nat
    <3> TAKE k \in 1 .. Len(q)
    <3>1. k \in Nat /\ 1 <= k /\ Len(near) \in Nat
      BY <1>6
    <3>2. (k <= Len(near) => dist[q[k]] = 0) /\ (k > Len(near) => dist[q[k]] = 1)
      BY <1>7, <3>1
    <3>. QED
      BY <3>1, <3>2
  <2>3. \A j, k \in 1 .. Len(q) : j < k => dist[q[j]] <= dist[q[k]]
    <3> SUFFICES ASSUME NEW j \in 1 .. Len(q), NEW k \in 1 .. Len(q), j < k
                 PROVE  dist[q[j]] <= dist[q[k]]
      OBVIOUS
    <3>1. CASE j <= Len(near)
      <4>1. dist[q[j]] = 0 /\ dist[q[k]] \in {0, 1}
        BY <2>2, <3>1
      <4>. QED
        BY <4>1
    <3>2. CASE k > Len(near)
      <4>1. dist[q[k]] = 1 /\ dist[q[j]] \in {0, 1}
        BY <2>2, <3>2
      <4>. QED
        BY <4>1
    <3>3. j <= Len(near) \/ k > Len(near)
      BY <1>6, <2>2
    <3>. QED
      BY <3>1, <3>2, <3>3
  <2>4. \A j, k \in 1 .. Len(q) : dist[q[k]] <= dist[q[j]] + 1
    BY <2>2
  <2>5. 0 \in 0 .. Len(q)
    BY <1>6
  <2>. QED
    BY <1>4, <2>1, <2>3, <2>4, <2>5 DEF Queued
<1>9. Explained(obj, dist)
  <2>1. \A i \in Ids : dist[i] = 0 <=> i \in Diagonals
    BY DEF None
  <2>2. ASSUME NEW i \in Ids, dist[i] \notin {0, None}
        PROVE  \E e \in EdgesOf(i) : Attains(obj, dist, e)
    <3>1. i \in Immediate(obj) /\ dist[i] = 1
      BY <2>2
    <3>2. PICK e \in EdgesOf(i) : TerminalEdge(obj, e)
      BY <3>1 DEF Immediate
    <3>3. Source(e) = i
      BY <3>2 DEF EdgesOf
    <3>. QED
      BY <3>1, <3>2, <3>3 DEF Attains
  <2>3. ASSUME NEW e \in Edges, TerminalEdge(obj, e)
        PROVE  dist[Source(e)] \in {0, 1}
    <3>1. Source(e) \in Ids /\ e \in EdgesOf(Source(e))
      BY EdgeParts DEF EdgesOf
    <3>2. Source(e) \in Diagonals \cup Immediate(obj)
      BY <2>3, <3>1 DEF Immediate
    <3>. QED
      BY <3>1, <3>2
  <2>. QED
    BY <2>1, <2>2, <2>3 DEF Explained
<1>10. ASSUME NEW k \in 1 .. 0 PROVE FALSE
  OBVIOUS
<1>11. Reaching(obj, dist, q, 0)
  BY <1>8, <1>9, <1>10 DEF Reaching
<1>. QED
  BY <1>11 DEF q, near, far

\* One round of the search: the sources of the edges into the next pair of the queue.
LEMMA SearchGoesOn ==
  ASSUME NEW obj, NEW dist, NEW q, NEW h, Reaching(obj, dist, q, h), h < Len(q),
         \A e \in Edges : edges[e].next \in Ids,
         NEW target, target = q[h + 1],
         NEW ids, ids = {Source(e) : e \in {f \in Edges :
                          /\ edges[f].next = target
                          /\ ~TerminalEdge(obj, f) /\ dist[Source(f)] = None}},
         NEW later, later = [i \in Ids |-> IF i \in ids THEN dist[target] + 1 ELSE dist[i]]
  PROVE  Reaching(obj, later, q \o InOrder(ids), h + 1)
<1> DEFINE new == InOrder(ids)
           u == q \o new
           known == {i \in Ids : dist[i] # None}
<1>1. /\ dist \in [Ids -> Distances] /\ h \in 0 .. Len(q) /\ Lists(q, known)
      /\ \A j, k \in 1 .. Len(q) : j < k => dist[q[j]] <= dist[q[k]]
      /\ \A j, k \in 1 .. Len(q) : h <= j => dist[q[k]] <= dist[q[j]] + 1
  BY DEF Reaching, Queued
<1>2. q \in Seq(known) /\ q \in Seq(Ids) /\ Len(q) \in Nat /\ h \in Nat /\ h + 1 \in 1 .. Len(q)
  BY <1>1 DEF Lists
<1>3. \A k \in 1 .. Len(q) : q[k] \in Ids /\ dist[q[k]] \in Nat
  <2> SUFFICES ASSUME NEW k \in 1 .. Len(q) PROVE q[k] \in Ids /\ dist[q[k]] \in Nat
    OBVIOUS
  <2>1. q[k] \in known
    BY <1>2
  <2>. QED
    BY <1>1, <2>1 DEF Distances
<1>4. PICK d \in Nat : d = dist[target] /\ target \in Ids /\ target \in known
  BY <1>2, <1>3
<1>5. ids \in SUBSET Ids /\ (\A i \in ids : dist[i] = None) /\ ids \cap known = {}
  BY EdgeParts
<1>6. Lists(new, ids)
  BY <1>5, InOrderLists
<1>7. /\ \A i \in Ids : later[i] = IF i \in ids THEN d + 1 ELSE dist[i]
      /\ \A i \in ids : later[i] = d + 1 /\ later[i] \in Nat /\ later[i] # None
      /\ \A i \in known : later[i] = dist[i]
      /\ later \in [Ids -> Distances]
  <2>1. \A i \in Ids : later[i] = IF i \in ids THEN d + 1 ELSE dist[i]
    BY <1>4
  <2>2. d + 1 \in Nat /\ d + 1 # None
    BY <1>4 DEF None
  <2>3. later \in [Ids -> Distances]
    BY <1>1, <1>4, <2>2 DEF Distances
  <2>. QED
    BY <1>5, <2>1, <2>2, <2>3
<1>8. {i \in Ids : later[i] # None} = known \cup ids
  BY <1>5, <1>7
<1>9. Lists(u, {i \in Ids : later[i] # None})
  <2>1. known \cap ids = {}
    BY <1>5
  <2> HIDE DEF new, known
  <2>2. Lists(q \o new, known \cup ids)
    BY <1>1, <1>6, <2>1, ListsJoin
  <2>. QED
    BY <1>8, <2>2
<1>10. new \in Seq(ids) /\ new \in Seq(Ids) /\ \A k \in 1 .. Len(new) : new[k] \in ids
  <2> HIDE DEF new
  <2>1. new \in Seq(ids) /\ \A k \in 1 .. Len(new) : new[k] \in ids
    BY <1>6 DEF Lists
  <2>. QED
    BY <1>5, <2>1
<1> HIDE DEF new
<1>11. /\ u \in Seq(Ids) /\ Len(u) = Len(q) + Len(new) /\ Len(new) \in Nat
       /\ \A k \in 1 .. Len(q) : u[k] = q[k]
       /\ \A k \in 1 .. Len(new) : u[Len(q) + k] = new[k]
       /\ \A k \in 1 .. Len(u) :
            k \in 1 .. Len(q) \/ \E m \in 1 .. Len(new) : k = Len(q) + m
  BY <1>2, <1>10, JoinParts
<1> HIDE DEF u, known
<1>12. \A k \in 1 .. Len(u) :
         /\ k <= Len(q) => k \in 1 .. Len(q) /\ u[k] = q[k] /\ later[u[k]] = dist[q[k]]
         /\ k > Len(q) => later[u[k]] = d + 1
         /\ k \in Nat /\ later[u[k]] \in Nat
  <2> TAKE k \in 1 .. Len(u)
  <2>1. CASE k \in 1 .. Len(q)
    <3>1. u[k] = q[k] /\ q[k] \in known /\ k <= Len(q) /\ k \in Nat
      BY <1>2, <1>11, <2>1
    <3>2. later[u[k]] = dist[q[k]] /\ dist[q[k]] \in Nat
      BY <1>3, <1>7, <2>1, <3>1
    <3>3. ~(k > Len(q))
      BY <1>2, <3>1
    <3>. QED
      BY <2>1, <3>1, <3>2, <3>3
  <2>2. CASE \E m \in 1 .. Len(new) : k = Len(q) + m
    <3>1. PICK m \in 1 .. Len(new) : k = Len(q) + m
      BY <2>2
    <3>2. u[k] \in ids /\ k > Len(q) /\ k \in Nat
      BY <1>2, <1>10, <1>11, <3>1
    <3>. QED
      BY <1>2, <1>7, <3>2
  <2>. QED
    BY <1>11, <2>1, <2>2
<1>13. \A k \in 1 .. Len(q) : dist[q[k]] <= d + 1 /\ (h + 1 <= k => d <= dist[q[k]])
  <2> TAKE k \in 1 .. Len(q)
  <2>1. dist[q[k]] <= d + 1
    <3>1. h <= h + 1
      BY <1>2
    <3>. QED
      BY <1>1, <1>2, <1>4, <3>1
  <2>2. CASE h + 1 < k
    <3>1. d <= dist[q[k]]
      BY <1>1, <1>2, <1>4, <2>2
    <3>. QED
      BY <2>1, <3>1
  <2>3. CASE h + 1 = k
    BY <1>4, <2>1, <2>3
  <2>4. CASE k < h + 1
    BY <1>2, <2>1, <2>4
  <2>. QED
    BY <1>2, <2>2, <2>3, <2>4
<1>14. \A j, k \in 1 .. Len(u) : j < k => later[u[j]] <= later[u[k]]
  <2> TAKE j, k \in 1 .. Len(u)
  <2> HAVE j < k
  <2>1. CASE k <= Len(q)
    <3>1. j <= Len(q)
      BY <1>2, <1>12, <2>1
    <3>2. j \in 1 .. Len(q) /\ k \in 1 .. Len(q) /\ later[u[j]] = dist[q[j]] /\ later[u[k]] = dist[q[k]]
      BY <1>12, <2>1, <3>1
    <3>. QED
      BY <1>1, <3>2
  <2>2. CASE k > Len(q) /\ j <= Len(q)
    <3>1. j \in 1 .. Len(q) /\ later[u[j]] = dist[q[j]] /\ later[u[k]] = d + 1
      BY <1>12, <2>2
    <3>. QED
      BY <1>13, <3>1
  <2>3. CASE k > Len(q) /\ j > Len(q)
    <3>1. later[u[j]] = d + 1 /\ later[u[k]] = d + 1
      BY <1>12, <2>3
    <3>. QED
      BY <3>1
  <2>. QED
    BY <1>2, <1>12, <2>1, <2>2, <2>3
<1>15. \A j, k \in 1 .. Len(u) : h + 1 <= j => later[u[k]] <= later[u[j]] + 1
  <2> TAKE j, k \in 1 .. Len(u)
  <2> HAVE h + 1 <= j
  <2>1. later[u[k]] <= d + 1
    <3>1. CASE k <= Len(q)
      <4>1. k \in 1 .. Len(q) /\ later[u[k]] = dist[q[k]]
        BY <1>12, <3>1
      <4>. QED
        BY <1>13, <4>1
    <3>2. CASE k > Len(q)
      BY <1>12, <3>2
    <3>. QED
      BY <1>2, <1>12, <3>1, <3>2
  <2>2. d <= later[u[j]]
    <3>1. CASE j <= Len(q)
      <4>1. j \in 1 .. Len(q) /\ later[u[j]] = dist[q[j]]
        BY <1>12, <3>1
      <4>. QED
        BY <1>13, <4>1
    <3>2. CASE j > Len(q)
      BY <1>12, <3>2
    <3>. QED
      BY <1>2, <1>12, <3>1, <3>2
  <2>3. later[u[k]] \in Nat /\ later[u[j]] \in Nat
    BY <1>12
  <2>. QED
    BY <2>1, <2>2, <2>3
<1>16. Queued(later, u, h + 1)
  <2>1. h + 1 \in 0 .. Len(u)
    BY <1>2, <1>11
  <2>. QED
    BY <1>7, <1>9, <1>14, <1>15, <2>1 DEF Queued

<1>17. \A i \in Ids : i \in known <=> dist[i] # None
  BY DEF known
<1>18. Explained(obj, later)
  <2>1. ASSUME NEW i \in Ids PROVE later[i] = 0 <=> i \in Diagonals
    <3>1. dist[i] = 0 <=> i \in Diagonals
      BY DEF Reaching, Explained
    <3>2. CASE i \in ids
      <4>1. dist[i] # 0 /\ later[i] # 0
        BY <1>4, <1>5, <1>7, <3>2 DEF None
      <4>. QED
        BY <3>1, <4>1
    <3>. QED
      BY <1>7, <3>1, <3>2
  <2>2. ASSUME NEW i \in Ids, later[i] \notin {0, None}
        PROVE  \E e \in EdgesOf(i) : Attains(obj, later, e)
    <3>1. CASE i \in ids
      <4>1. PICK e \in Edges : i = Source(e) /\ edges[e].next = target /\ ~TerminalEdge(obj, e)
        BY <3>1
      <4>2. later[target] = d /\ d # None /\ later[i] = d + 1
        BY <1>4, <1>7, <3>1 DEF None
      <4>3. e \in EdgesOf(i) /\ Attains(obj, later, e)
        BY <4>1, <4>2 DEF EdgesOf, Attains
      <4>. QED
        BY <4>3
    <3>2. CASE i \notin ids
      <4>1. later[i] = dist[i]
        BY <1>7, <3>2
      <4>2. PICK e \in EdgesOf(i) : Attains(obj, dist, e)
        BY <2>2, <4>1 DEF Reaching, Explained
      <4>3. Source(e) = i /\ e \in Edges
        BY <4>2 DEF EdgesOf
      <4>4. dist[edges[e].next] # None => later[edges[e].next] = dist[edges[e].next]
        BY <1>7, <1>17, <4>3
      <4>5. Attains(obj, later, e)
        BY <4>1, <4>2, <4>3, <4>4 DEF Attains
      <4>. QED
        BY <4>2, <4>5
    <3>. QED
      BY <3>1, <3>2
  <2>3. ASSUME NEW e \in Edges, TerminalEdge(obj, e) PROVE later[Source(e)] \in {0, 1}
    <3>1. dist[Source(e)] \in {0, 1} /\ Source(e) \in Ids
      BY <2>3, EdgeParts DEF Reaching, Explained
    <3>2. Source(e) \in known
      BY <1>17, <3>1 DEF None
    <3>. QED
      BY <1>7, <3>1, <3>2
  <2>. QED
    BY <2>1, <2>2, <2>3 DEF Explained
<1>19. ASSUME NEW k \in 1 .. h + 1, NEW e \in Edges, edges[e].next = u[k]
       PROVE  Followed(obj, later, e)
  <2> SUFFICES ASSUME ~TerminalEdge(obj, e)
               PROVE  later[Source(e)] # None /\ later[Source(e)] <= later[edges[e].next] + 1
    BY DEF Followed
  <2>1. Source(e) \in Ids /\ k \in 1 .. Len(q) /\ u[k] = q[k]
    <3>1. k \in 1 .. Len(q)
      BY <1>2
    <3>. QED
      BY <1>11, <3>1, EdgeParts
  <2>2. edges[e].next \in known /\ later[edges[e].next] = dist[edges[e].next]
    <3>1. q[k] \in known
      BY <1>2, <2>1
    <3>. QED
      BY <1>7, <1>19, <2>1, <3>1
  <2>3. CASE k \in 1 .. h
    <3>1. Followed(obj, dist, e)
      BY <1>19, <2>1, <2>3 DEF Reaching
    <3>2. dist[Source(e)] # None /\ dist[Source(e)] <= dist[edges[e].next] + 1
      BY <3>1 DEF Followed
    <3>3. later[Source(e)] = dist[Source(e)]
      BY <1>7, <1>17, <2>1, <3>2
    <3>. QED
      BY <2>2, <3>2, <3>3
  <2>4. CASE k = h + 1
    <3>1. edges[e].next = target /\ later[edges[e].next] = d
      BY <1>4, <1>19, <2>1, <2>2, <2>4
    <3>2. CASE dist[Source(e)] = None
      <4>1. Source(e) \in ids
        BY <3>1, <3>2
      <4>. QED
        BY <1>4, <1>7, <3>1, <4>1
    <3>3. CASE dist[Source(e)] # None
      <4>1. Source(e) \in known
        BY <1>17, <2>1, <3>3
      <4>2. PICK j \in 1 .. Len(q) : q[j] = Source(e)
        BY <1>1, <4>1 DEF Lists
      <4>3. dist[Source(e)] <= d + 1 /\ later[Source(e)] = dist[Source(e)]
        BY <1>7, <1>13, <4>1, <4>2
      <4>. QED
        BY <3>1, <3>3, <4>3
    <3>. QED
      BY <3>2, <3>3
  <2>. QED
    BY <1>2, <2>3, <2>4
<1>20. Reaching(obj, later, u, h + 1)
  BY <1>16, <1>18, <1>19 DEF Reaching
<1>. QED
  BY <1>20 DEF u, new

-----------------------------------------------------------------------------
(* Least distances. *)

\* The action takes the pair one step closer, or resolves it.
Approaches(aut, obj, D, p, a) ==
  \/ D[p] = 1 /\ Terminal(aut, obj, p, a)
  \/ /\ ~Terminal(aut, obj, p, a)
     /\ D[Target(aut, p, a)] # None /\ D[Target(aut, p, a)] + 1 = D[p]

\* No action takes the pair closer than D says.
Undercut(aut, obj, D, p, a) ==
  /\ Terminal(aut, obj, p, a) => D[p] \in {0, 1}
  /\ ~Terminal(aut, obj, p, a) /\ D[Target(aut, p, a)] # None =>
       D[p] # None /\ D[p] <= D[Target(aut, p, a)] + 1

Shortest(aut, obj, D) ==
  /\ D \in [Pairs -> Distances]
  /\ \A p \in Pairs : D[p] = 0 <=> p \in Diagonal
  /\ \A p \in Pairs : D[p] \notin {0, None} =>
       \E a \in Actions : Approaches(aut, obj, D, p, a)
  /\ \A p \in Pairs, a \in Actions : Undercut(aut, obj, D, p, a)

\* Of two such tables the second is nowhere longer than the first.
LEMMA ShortestLeast ==
  ASSUME NEW aut \in Automata, NEW obj, NEW D, NEW E,
         Shortest(aut, obj, D), Shortest(aut, obj, E)
  PROVE  \A p \in Pairs : D[p] # None => E[p] # None /\ E[p] <= D[p]
<1> DEFINE Longer(p) == D[p] # None /\ ~(E[p] # None /\ E[p] <= D[p])
           S == {n \in Nat : \E p \in Pairs : Longer(p) /\ D[p] = n}
<1> SUFFICES ASSUME \E p \in Pairs : Longer(p) PROVE FALSE
  OBVIOUS
<1>1. \A p \in Pairs : /\ D[p] # None => D[p] \in Nat
                       /\ E[p] # None => E[p] \in Nat
  BY DEF Shortest, Distances
<1>2. S # {}
  <2>1. PICK p \in Pairs : Longer(p)
    OBVIOUS
  <2>2. D[p] \in S
    BY <1>1, <2>1
  <2>. QED
    BY <2>2
<1>3. PICK n \in S : \A m \in S : n <= m
  BY <1>2, LeastNatural
<1>4. PICK p \in Pairs : Longer(p) /\ D[p] = n
  BY <1>3
<1>5. n \in Nat
  OBVIOUS
<1>6. CASE n = 0
  <2>1. E[p] = 0
    BY <1>4, <1>6 DEF Shortest
  <2>. QED
    BY <1>4, <1>6, <2>1 DEF None
<1>7. CASE n # 0
  <2>1. PICK a \in Actions : Approaches(aut, obj, D, p, a)
    BY <1>4, <1>7 DEF Shortest
  <2>2. Undercut(aut, obj, E, p, a)
    BY DEF Shortest
  <2>3. CASE Terminal(aut, obj, p, a) /\ D[p] = 1
    BY <1>4, <2>2, <2>3 DEF Undercut, None
  <2>4. CASE ~Terminal(aut, obj, p, a)
    <3>1. PICK q \in Pairs : q = Target(aut, p, a)
      BY TargetType
    <3>2. D[q] # None /\ D[q] + 1 = n
      BY <1>4, <2>1, <2>4, <3>1 DEF Approaches
    <3>3. D[q] \in Nat /\ ~(n <= D[q])
      BY <1>1, <1>5, <3>2
    <3>4. ~Longer(q)
      BY <1>3, <3>3
    <3>5. E[q] # None /\ E[q] <= D[q]
      BY <3>2, <3>4
    <3>6. E[p] # None /\ E[p] <= E[q] + 1
      BY <2>2, <2>4, <3>1, <3>5 DEF Undercut
    <3>7. E[p] \in Nat /\ E[q] \in Nat
      BY <1>1, <3>5, <3>6
    <3>. QED
      BY <1>4, <1>5, <3>2, <3>3, <3>5, <3>6, <3>7
  <2>. QED
    BY <2>1, <2>3, <2>4 DEF Approaches
<1>. QED
  BY <1>6, <1>7

\* There is only one assignment of shortest distances.
LEMMA ShortestUnique ==
  ASSUME NEW aut \in Automata, NEW obj, NEW D, NEW E,
         Shortest(aut, obj, D), Shortest(aut, obj, E)
  PROVE  D = E
<1>1. \A p \in Pairs : D[p] # None => E[p] # None /\ E[p] <= D[p]
  BY ShortestLeast
<1>2. \A p \in Pairs : E[p] # None => D[p] # None /\ D[p] <= E[p]
  BY ShortestLeast
<1>3. D \in [Pairs -> Distances] /\ E \in [Pairs -> Distances]
  BY DEF Shortest
<1>4. ASSUME NEW p \in Pairs PROVE D[p] = E[p]
  <2>1. D[p] \in Distances /\ E[p] \in Distances
    BY <1>3
  <2>2. PICK d \in Distances, e \in Distances : d = D[p] /\ e = E[p]
    BY <2>1
  <2>. QED
    BY <1>1, <1>2, <2>2 DEF Distances, None
<1>. QED
  BY <1>3, <1>4

\* The exact oracle has such distances.
LEMMA ExactShortest ==
  ASSUME NEW aut \in Automata, NEW obj
  PROVE  Shortest(aut, obj, ExactDistances(aut, obj))
<1> DEFINE D == ExactDistances(aut, obj)
<1>1. D \in [Pairs -> Distances]
  <2>1. \A p \in Pairs : D[p] \in Distances
    BY ExactDistanceIn
  <2>2. \E f : D = [p \in Pairs |-> f[p]]
    <3>1. D = [p \in Pairs |-> D[p]]
      BY DEF ExactDistances
    <3>. QED
      BY <3>1
  <2>. QED
    BY <2>1, <2>2
<1>2. ASSUME NEW p \in Pairs
      PROVE  /\ D[p] = 0 <=> p \in Diagonal
             /\ D[p] \notin {0, None} => \E a \in Actions : Approaches(aut, obj, D, p, a)
  <2>1. /\ D[p] = 0 <=> p \in Diagonal
        /\ D[p] # None /\ p \notin Diagonal =>
             /\ D[p] \in Nat \ {0}
             /\ \E a \in Actions :
                  \/ D[p] = 1 /\ Terminal(aut, obj, p, a)
                  \/ /\ ~Terminal(aut, obj, p, a)
                     /\ D[Target(aut, p, a)] = D[p] - 1
                     /\ D[Target(aut, p, a)] \in Nat
    BY ExactAttained
  <2> HIDE DEF D
  <2>2. ASSUME D[p] \notin {0, None} PROVE \E a \in Actions : Approaches(aut, obj, D, p, a)
    <3>1. D[p] \in Nat \ {0}
      BY <2>1, <2>2
    <3>2. PICK a \in Actions :
                  \/ D[p] = 1 /\ Terminal(aut, obj, p, a)
                  \/ /\ ~Terminal(aut, obj, p, a)
                     /\ D[Target(aut, p, a)] = D[p] - 1
                     /\ D[Target(aut, p, a)] \in Nat
      BY <2>1, <2>2
    <3>3. Approaches(aut, obj, D, p, a)
      BY <3>1, <3>2 DEF Approaches, None
    <3>. QED
      BY <3>3
  <2>. QED
    BY <2>1, <2>2
<1>3. ASSUME NEW p \in Pairs, NEW a \in Actions PROVE Undercut(aut, obj, D, p, a)
  <2>1. /\ Terminal(aut, obj, p, a) => D[p] \in 0 .. 1
        /\ \A j \in Nat : D[Target(aut, p, a)] = j => D[p] \in 0 .. (j + 1)
    BY ExactClosed
  <2>2. D[Target(aut, p, a)] \in Distances
    BY <1>1, TargetType
  <2> HIDE DEF D
  <2>3. ASSUME D[Target(aut, p, a)] # None
        PROVE  D[p] # None /\ D[p] <= D[Target(aut, p, a)] + 1
    <3>1. PICK j \in Nat : D[Target(aut, p, a)] = j
      BY <2>2, <2>3 DEF Distances
    <3>2. D[p] \in 0 .. (j + 1)
      BY <2>1, <3>1
    <3>. QED
      BY <3>1, <3>2 DEF None
  <2>4. Terminal(aut, obj, p, a) => D[p] \in {0, 1}
    BY <2>1
  <2>. QED
    BY <2>3, <2>4 DEF Undercut
<1> HIDE DEF D
<1>4. Shortest(aut, obj, D)
  BY <1>1, <1>2, <1>3 DEF Shortest
<1>. QED
  BY <1>4 DEF D

\* A search that has followed every edge has found the exact distances.
Exhausted(obj, dist) ==
  /\ dist \in [Ids -> Distances]
  /\ Explained(obj, dist)
  /\ \A e \in Edges : dist[edges[e].next] # None => Followed(obj, dist, e)

\* Distances of a search that is over are the shortest.
LEMMA ExhaustedExact ==
  ASSUME Arrows, Model \in Automata, NEW obj, NEW dist, Exhausted(obj, dist)
  PROVE  \A i \in Ids : dist[i] = ExactDistances(Model, obj)[PairOf[i]]
<1> DEFINE D == [p \in Pairs |-> dist[Index(p)]]
           number(p, a) == Index(p) * ActionCount + a
<1>1. \A p \in Pairs : Index(p) \in Ids /\ PairOf[Index(p)] = p
  BY IndexOrdered, PairsFilled
<1>2. D \in [Pairs -> Distances]
  BY <1>1 DEF Exhausted
<1>3. \A e \in Edges : /\ edges[e].next = Index(Target(Model, PairOf[Source(e)], ActionOf(e)))
                       /\ edges[e].differ = OutputsDiffer(Model, PairOf[Source(e)], ActionOf(e))
  BY DEF Arrows
<1>4. ASSUME NEW p \in Pairs, NEW a \in Actions
      PROVE  /\ number(p, a) \in Edges /\ number(p, a) \in EdgesOf(Index(p))
             /\ Source(number(p, a)) = Index(p)
             /\ TerminalEdge(obj, number(p, a)) <=> Terminal(Model, obj, p, a)
             /\ edges[number(p, a)].next = Index(Target(Model, p, a))
             /\ Target(Model, p, a) \in Pairs
  <2>1. /\ number(p, a) \in Edges
        /\ Source(number(p, a)) = Index(p) /\ ActionOf(number(p, a)) = a
    BY <1>1, EdgeParts
  <2> HIDE DEF number
  <2>2. PairOf[Source(number(p, a))] = p
    BY <1>1, <2>1
  <2>. QED
    BY <1>3, <2>1, <2>2, TargetType DEF EdgesOf, TerminalEdge, Terminal
<1> HIDE DEF number
<1>5. \A p \in Pairs : D[p] = dist[Index(p)]
  OBVIOUS
<1>6. ASSUME NEW p \in Pairs
      PROVE  /\ D[p] = 0 <=> p \in Diagonal
             /\ D[p] \notin {0, None} => \E a \in Actions : Approaches(Model, obj, D, p, a)
  <2>1. D[p] = 0 <=> p \in Diagonal
    <3>1. dist[Index(p)] = 0 <=> Index(p) \in Diagonals
      BY <1>1 DEF Exhausted, Explained
    <3>. QED
      BY <1>1, <3>1 DEF Diagonals
  <2>2. ASSUME D[p] \notin {0, None}
        PROVE  \E a \in Actions : Approaches(Model, obj, D, p, a)
    <3>1. PICK e \in EdgesOf(Index(p)) : Attains(obj, dist, e)
      BY <1>1, <1>5, <2>2 DEF Exhausted, Explained
    <3>2. e \in Edges /\ Source(e) = Index(p)
      BY <3>1 DEF EdgesOf
    <3>3. PICK a \in Actions : a = ActionOf(e) /\ e = Source(e) * ActionCount + a
      BY <3>2, EdgeParts
    <3>4. e = number(p, a)
      BY <3>2, <3>3 DEF number
    <3>5. Approaches(Model, obj, D, p, a)
      BY <1>4, <1>5, <3>1, <3>2, <3>4 DEF Approaches, Attains
    <3>. QED
      BY <3>5
  <2>. QED
    BY <2>1, <2>2
<1>7. ASSUME NEW p \in Pairs, NEW a \in Actions PROVE Undercut(Model, obj, D, p, a)
  <2>1. Terminal(Model, obj, p, a) => D[p] \in {0, 1}
    <3>1. TerminalEdge(obj, number(p, a)) => dist[Source(number(p, a))] \in {0, 1}
      BY <1>4 DEF Exhausted, Explained
    <3>. QED
      BY <1>4, <1>5, <3>1
  <2>2. ASSUME ~Terminal(Model, obj, p, a), D[Target(Model, p, a)] # None
        PROVE  D[p] # None /\ D[p] <= D[Target(Model, p, a)] + 1
    <3>1. Followed(obj, dist, number(p, a))
      BY <1>4, <1>5, <2>2 DEF Exhausted
    <3>. QED
      BY <1>4, <1>5, <2>2, <3>1 DEF Followed
  <2>. QED
    BY <2>1, <2>2 DEF Undercut
<1>8. D = ExactDistances(Model, obj)
  <2>1. Shortest(Model, obj, D)
    BY <1>2, <1>6, <1>7 DEF Shortest
  <2> HIDE DEF D
  <2>. QED
    BY <2>1, ExactShortest, ShortestUnique
<1>9. ASSUME NEW i \in Ids PROVE dist[i] = D[PairOf[i]]
  BY <1>5, PairsFilled
<1>. QED
  BY <1>8, <1>9

-----------------------------------------------------------------------------
(* Witnesses. *)

\* A record of the exact oracle, from the actions that approach.
LEMMA ExactRecordIs ==
  ASSUME NEW aut \in Automata, NEW obj, NEW p \in Pairs
  PROVE  LET D == ExactDistances(aut, obj)
             recs == ExactRecords(aut, obj)
             S == {a \in Actions : Approaches(aut, obj, D, p, a)}
         IN /\ D[p] = 0 => recs[p] = Root
            /\ D[p] = None => recs[p] = Unreached
            /\ D[p] \notin {0, None} =>
                 \E act \in S :
                   /\ \A b \in S : act <= b
                   /\ recs[p] = [dist |-> D[p], act |-> act,
                                 next |-> IF Terminal(aut, obj, p, act) THEN NoPair
                                          ELSE Target(aut, p, act),
                                 sup |-> Cardinality(S)]
<1> DEFINE D == ExactDistances(aut, obj)
           recs == ExactRecords(aut, obj)
           AtOnce(q, a) == D[q] = 1 /\ Terminal(aut, obj, q, a)
           ViaNext(q, a) ==
             LET next == Target(aut, q, a)
             IN /\ ~Terminal(aut, obj, q, a)
                /\ D[next] # None
                /\ D[next] + 1 = D[q]
           Of(q) == {a \in Actions : AtOnce(q, a) \/ ViaNext(q, a)}
           First(T) == CHOOSE a \in T : \A b \in T : a <= b
           Led(q) ==
             LET act == First(Of(q))
             IN [dist |-> D[q], act |-> act,
                 next |-> IF AtOnce(q, act) THEN NoPair ELSE Target(aut, q, act),
                 sup |-> Cardinality(Of(q))]
           Rec(q) == IF q \in Diagonal THEN Root
                     ELSE IF D[q] = None THEN Unreached
                     ELSE Led(q)
           S == {a \in Actions : Approaches(aut, obj, D, p, a)}
<1>1. recs = [q \in Pairs |-> Rec(q)]
  BY DEF ExactRecords
<1>2. recs[p] = Rec(p)
  <2> HIDE DEF Rec, recs
  <2>1. QED
    BY <1>1
<1>3. Shortest(aut, obj, D)
  BY ExactShortest
<1>4. D[p] = 0 <=> p \in Diagonal
  BY <1>3 DEF Shortest
<1>5. D[p] = None => p \notin Diagonal
  BY <1>4 DEF None
<1>6. Of(p) = S
  BY DEF Approaches
<1>7. ASSUME D[p] \notin {0, None}
      PROVE  \E act \in S :
                   /\ \A b \in S : act <= b
                   /\ recs[p] = [dist |-> D[p], act |-> act,
                                 next |-> IF Terminal(aut, obj, p, act) THEN NoPair
                                          ELSE Target(aut, p, act),
                                 sup |-> Cardinality(S)]
  <2>1. PICK T : T = S
    OBVIOUS
  <2>2. recs[p] = LET act == First(T)
                  IN [dist |-> D[p], act |-> act,
                      next |-> IF AtOnce(p, act) THEN NoPair ELSE Target(aut, p, act),
                      sup |-> Cardinality(T)]
    <3>1. recs[p] = Led(p)
      BY <1>2, <1>4, <1>7
    <3>2. Of(p) = T
      BY <1>6, <2>1
    <3> HIDE DEF Of, First, AtOnce, D, recs
    <3>. QED
      BY <3>1, <3>2
  <2>3. T \subseteq Actions /\ T # {}
    BY <1>3, <1>7, <2>1 DEF Shortest
  <2>4. PICK act \in T : act = First(T) /\ \A b \in T : act <= b
    BY <2>3, FirstAction
  <2>5. AtOnce(p, act) <=> Terminal(aut, obj, p, act)
    BY <2>1, <2>4 DEF Approaches
  <2>6. recs[p] = [dist |-> D[p], act |-> act,
                   next |-> IF AtOnce(p, act) THEN NoPair ELSE Target(aut, p, act),
                   sup |-> Cardinality(T)]
    BY <2>2, <2>4
  <2> HIDE DEF D, recs, AtOnce, First, S
  <2>. QED
    BY <2>1, <2>4, <2>5, <2>6
<1> HIDE DEF Led, D
<1>. QED
  BY <1>2, <1>4, <1>5, <1>7 DEF D

\* Numbers of pairs are told apart.
LEMMA NumberIs ==
  /\ Number(NoPair) = None
  /\ \A p \in Pairs : Number(p) = Index(p)
<1>1. Number(NoPair) = None
  BY DEF Number
<1>2. ASSUME NEW p \in Pairs PROVE Number(p) = Index(p)
  <2>1. p # NoPair
    BY SomePair
  <2>2. Index(p) \in Ids /\ PairOf[Index(p)] = p
    BY IndexOrdered, PairsFilled
  <2>3. PICK i : i = CHOOSE j \in Ids : PairOf[j] = p
    OBVIOUS
  <2>4. i \in Ids /\ PairOf[i] = p
    BY <2>2, <2>3
  <2>5. i = Index(p)
    BY <2>4, PairsFilled
  <2>. QED
    BY <2>1, <2>3, <2>5 DEF Number
<1>. QED
  BY <1>1, <1>2

\* The edges of a pair are its actions.
LEMMA EdgesActions ==
  ASSUME NEW i \in Ids, NEW S \in SUBSET EdgesOf(i), NEW T \in SUBSET Actions,
         \A e \in EdgesOf(i) : e \in S <=> ActionOf(e) \in T
  PROVE  /\ Cardinality(S) = Cardinality(T) /\ IsFiniteSet(S)
         /\ \A a \in T : (\A b \in T : a <= b) =>
              /\ i * ActionCount + a \in S
              /\ Min(S) = i * ActionCount + a
<1> DEFINE number(a) == i * ActionCount + a
           f == [a \in T |-> number(a)]
<1>1. \A a \in Actions : /\ number(a) \in EdgesOf(i) /\ number(a) \in Nat
                         /\ ActionOf(number(a)) = a
  BY EdgeParts DEF EdgesOf
<1>2. \A e \in EdgesOf(i) : ActionOf(e) \in Actions /\ e = number(ActionOf(e))
  BY EdgeParts DEF EdgesOf
<1>3. IsFiniteSet(T)
  BY ActionsFinite, FS_Subset
<1>4. \A a, b \in Actions : a <= b => number(a) <= number(b)
  <2>1. i \in Nat /\ ActionCount \in Nat
    BY IndexOnto, GraphAssumption DEF Ids
  <2>2. PICK m \in Nat : m = i * ActionCount
    BY <2>1
  <2>. QED
    BY <2>1, <2>2 DEF Actions
<1> HIDE DEF number
<1>5. f \in Bijection(T, S)
  <2>1. f \in [T -> S]
    BY <1>1
  <2>2. \A a, b \in T : f[a] = f[b] => a = b
    <3> SUFFICES ASSUME NEW a \in T, NEW b \in T, f[a] = f[b] PROVE a = b
      OBVIOUS
    <3>1. number(a) = number(b)
      OBVIOUS
    <3>. QED
      BY <1>1, <3>1
  <2>3. \A e \in S : \E a \in T : f[a] = e
    <3> SUFFICES ASSUME NEW e \in S PROVE \E a \in T : f[a] = e
      OBVIOUS
    <3>1. ActionOf(e) \in T /\ e = number(ActionOf(e))
      BY <1>2
    <3>. QED
      BY <3>1
  <2> HIDE DEF f
  <2>. QED
    BY <2>1, <2>2, <2>3 DEF Bijection, Injection, Surjection, IsInjective
<1>6. Cardinality(S) = Cardinality(T) /\ IsFiniteSet(S)
  <2>1. ExistsBijection(T, S)
    BY <1>5 DEF ExistsBijection
  <2>. QED
    BY <1>3, <2>1, FS_Bijection
<1>7. ASSUME NEW a \in T, \A b \in T : a <= b
      PROVE  number(a) \in S /\ Min(S) = number(a)
  <2>1. number(a) \in S
    BY <1>1
  <2>2. \A e \in S : number(a) <= e
    <3> SUFFICES ASSUME NEW e \in S PROVE number(a) <= e
      OBVIOUS
    <3>1. ActionOf(e) \in T /\ e = number(ActionOf(e))
      BY <1>2
    <3>2. a <= ActionOf(e)
      BY <1>7, <3>1
    <3>. QED
      BY <1>4, <3>1, <3>2
  <2>3. PICK x : x = Min(S)
    OBVIOUS
  <2>4. x \in S /\ \A e \in S : x <= e
    BY <2>1, <2>2, <2>3 DEF Min
  <2>5. x \in Nat /\ number(a) \in Nat
    BY <1>1, <1>2, <2>4
  <2>6. x <= number(a) /\ number(a) <= x
    BY <2>1, <2>2, <2>4
  <2>. QED
    BY <2>1, <2>3, <2>5, <2>6
<1>. QED
  BY <1>6, <1>7 DEF number

\* An edge attains the distance as its action approaches.
LEMMA EdgeApproaches ==
  ASSUME Arrows, Model \in Automata, NEW obj, NEW dist, NEW D,
         \A i \in Ids : dist[i] = D[PairOf[i]], NEW i \in Ids, NEW e \in EdgesOf(i)
  PROVE  /\ TerminalEdge(obj, e) <=> Terminal(Model, obj, PairOf[i], ActionOf(e))
         /\ edges[e].next = Index(Target(Model, PairOf[i], ActionOf(e)))
         /\ Attains(obj, dist, e) <=> Approaches(Model, obj, D, PairOf[i], ActionOf(e))
<1>1. e \in Edges /\ Source(e) = i
  BY DEF EdgesOf
<1>2. PICK p \in Pairs, a \in Actions : p = PairOf[i] /\ a = ActionOf(e)
  BY <1>1, EdgeParts, PairsFilled
<1>3. PICK q \in Pairs : q = Target(Model, p, a)
  BY TargetType
<1>4. edges[e].next = Index(q) /\ edges[e].differ = OutputsDiffer(Model, p, a)
  BY <1>1, <1>2, <1>3 DEF Arrows
<1>5. TerminalEdge(obj, e) <=> Terminal(Model, obj, p, a)
  BY <1>4 DEF TerminalEdge, Terminal
<1>6. dist[edges[e].next] = D[q] /\ dist[Source(e)] = D[p]
  BY <1>1, <1>2, <1>4, IndexOrdered, PairsFilled
<1>7. Attains(obj, dist, e) <=> Approaches(Model, obj, D, p, a)
  BY <1>3, <1>5, <1>6 DEF Attains, Approaches
<1>. QED
  BY <1>2, <1>3, <1>4, <1>5, <1>7

\* From exact distances sg_choose_witnesses makes the exact records.
LEMMA ChosenExact ==
  ASSUME Arrows, Model \in Automata, NEW obj, NEW dist,
         \A i \in Ids : dist[i] = ExactDistances(Model, obj)[PairOf[i]]
  PROVE  [i \in Ids |-> Witness(obj, dist, i)] = Numbered(obj)
<1> DEFINE D == ExactDistances(Model, obj)
           recs == ExactRecords(Model, obj)
<1>1. ASSUME NEW i \in Ids
      PROVE  Witness(obj, dist, i) = [recs[PairOf[i]] EXCEPT !.next = Number(@)]
  <2>1. PICK p \in Pairs : p = PairOf[i]
    BY PairsFilled
  <2> DEFINE S == {a \in Actions : Approaches(Model, obj, D, p, a)}
             attaining == {e \in EdgesOf(i) : Attains(obj, dist, e)}
  <2>2. /\ D[p] = 0 => recs[p] = Root
        /\ D[p] = None => recs[p] = Unreached
        /\ D[p] \notin {0, None} =>
             \E act \in S :
               /\ \A b \in S : act <= b
               /\ recs[p] = [dist |-> D[p], act |-> act,
                             next |-> IF Terminal(Model, obj, p, act) THEN NoPair
                                      ELSE Target(Model, p, act),
                             sup |-> Cardinality(S)]
    BY ExactRecordIs
  <2>3. \A e \in EdgesOf(i) :
          /\ TerminalEdge(obj, e) <=> Terminal(Model, obj, p, ActionOf(e))
          /\ edges[e].next = Index(Target(Model, p, ActionOf(e)))
          /\ Attains(obj, dist, e) <=> Approaches(Model, obj, D, p, ActionOf(e))
    BY <2>1, EdgeApproaches
  <2>4. dist[i] = D[p]
    BY <2>1
  <2> HIDE DEF D, recs
  <2>5. CASE D[p] = 0
    <3>1. Witness(obj, dist, i) = Nothing(0)
      BY <2>4, <2>5 DEF Witness
    <3>. QED
      BY <2>1, <2>2, <2>5, <3>1, NumberIs DEF Nothing, Root
  <2>6. CASE D[p] = None
    <3>1. Witness(obj, dist, i) = Nothing(None)
      BY <2>4, <2>6 DEF Witness
    <3>. QED
      BY <2>1, <2>2, <2>6, <3>1, NumberIs DEF Nothing, Unreached
  <2>7. CASE D[p] \notin {0, None}
    <3>1. PICK act \in S :
               /\ \A b \in S : act <= b
               /\ recs[p] = [dist |-> D[p], act |-> act,
                             next |-> IF Terminal(Model, obj, p, act) THEN NoPair
                                      ELSE Target(Model, p, act),
                             sup |-> Cardinality(S)]
      BY <2>2, <2>7
    <3>2. attaining \in SUBSET EdgesOf(i) /\ S \in SUBSET Actions
      OBVIOUS
    <3>3. \A e \in EdgesOf(i) : e \in attaining <=> ActionOf(e) \in S
      BY <2>3, EdgeParts DEF EdgesOf
    <3>4. PICK e \in attaining : e = i * ActionCount + act /\ Min(attaining) = e
                                 /\ Cardinality(attaining) = Cardinality(S)
      <4> HIDE DEF attaining, S
      <4>. QED
        BY <3>1, <3>2, <3>3, EdgesActions
    <3>5. ActionOf(e) = act /\ e \in EdgesOf(i)
      BY <3>4, EdgeParts
    <3>6. attaining # {} /\ Chosen(attaining) = e
      BY <3>4 DEF Chosen
    <3>7. Witness(obj, dist, i)
            = [dist |-> dist[i], act |-> ActionOf(e),
               next |-> IF TerminalEdge(obj, e) THEN None ELSE edges[e].next,
               sup |-> Cardinality(attaining)]
      <4>1. Witness(obj, dist, i) =
              IF dist[i] \in {None, 0} \/ attaining = {} THEN Nothing(dist[i])
              ELSE [dist |-> dist[i], act |-> ActionOf(Chosen(attaining)),
                    next |-> IF TerminalEdge(obj, Chosen(attaining)) THEN None
                             ELSE edges[Chosen(attaining)].next,
                    sup |-> Cardinality(attaining)]
        BY DEF Witness
      <4> HIDE DEF attaining
      <4>. QED
        BY <2>4, <2>7, <3>6, <4>1
    <3>8. Target(Model, p, act) \in Pairs
      BY <3>1, TargetType
    <3>9. /\ TerminalEdge(obj, e) <=> Terminal(Model, obj, p, act)
          /\ edges[e].next = Number(Target(Model, p, act))
      BY <2>3, <3>5, <3>8, NumberIs
    <3> HIDE DEF attaining, S
    <3>10. [recs[p] EXCEPT !.next = Number(@)]
             = [dist |-> D[p], act |-> act,
                next |-> Number(IF Terminal(Model, obj, p, act) THEN NoPair
                                ELSE Target(Model, p, act)),
                sup |-> Cardinality(S)]
      BY <3>1
    <3>11. Number(IF Terminal(Model, obj, p, act) THEN NoPair ELSE Target(Model, p, act))
             = IF TerminalEdge(obj, e) THEN None ELSE edges[e].next
      BY <3>9, NumberIs
    <3>. QED
      BY <2>1, <2>4, <3>4, <3>5, <3>7, <3>10, <3>11
  <2>. QED
    BY <2>5, <2>6, <2>7
<1> HIDE DEF recs
<1>. QED
  BY <1>1 DEF Numbered, recs

-----------------------------------------------------------------------------
(* The inductive invariant. *)

\* What the searches have found when they are where they are.
Seeking ==
  /\ at = "search" => Reaching(goal, distance[goal], queue, head)
  /\ at \in {"seed", "search"} /\ goal = "resolution" => Exhausted("merge", distance["merge"])
  /\ at = "choose" => \A obj \in Objectives : Exhausted(obj, distance[obj])

\* What is known at each stage of a call.
Stages ==
  /\ call \in Calls
  /\ at # "fill" => Arrows
  /\ at \in {"seed", "search", "choose"} => Grouped(into.offset, into.edge)
  /\ at \in {"sort", "seed", "search", "choose"} => ~Restoring
  /\ at = "restore" => Restoring
  /\ at \in {"fill", "sort", "restore"} => goal = "merge"
  /\ at # "done" => result = "NONE"

\* How a call that was given records ends.
Restored ==
  at = "done" /\ Restoring =>
    LET recs == [obj \in Objectives |-> [i \in Ids |-> Loaded(Row(i)[obj])]]
    IN IF Complete(call.stored) /\ \A obj \in Objectives, i \in Ids : Valid(obj, recs[obj], i)
       THEN result = "OK" /\ oracle = recs
       ELSE result = "INVALID_MODEL"

OracleInvariant == OracleTypeOK /\ Stages /\ Seeking /\ BuildExact /\ Restored

\* What is known of a search stays so while the edges do.
LEMMA SearchKept ==
  ASSUME edges' = edges, NEW obj, NEW dist, NEW q, NEW h
  PROVE  /\ Exhausted(obj, dist)' <=> Exhausted(obj, dist)
         /\ Reaching(obj, dist, q, h)' <=> Reaching(obj, dist, q, h)
<1>1. \A e : TerminalEdge(obj, e)' <=> TerminalEdge(obj, e)
  BY DEF TerminalEdge
<1>2. \A e : /\ Attains(obj, dist, e)' <=> Attains(obj, dist, e)
             /\ Followed(obj, dist, e)' <=> Followed(obj, dist, e)
  BY <1>1 DEF Attains, Followed
<1>3. Explained(obj, dist)' <=> Explained(obj, dist)
  BY <1>1, <1>2 DEF Explained, EdgesOf, Diagonals
<1>. QED
  BY <1>2, <1>3 DEF Exhausted, Reaching, Queued, Lists

\* So do edges and their groups.
LEMMA StageKept ==
  ASSUME edges' = edges, call' = call, into' = into
  PROVE  /\ Arrows => Arrows'
         /\ Grouped(into.offset, into.edge) => Grouped(into.offset, into.edge)'
         /\ Restoring' <=> Restoring
BY DEF Arrows, Grouped, Restoring, Model

\* The automata of the calls, and the edges of their pairs.
LEMMA CallFits ==
  ASSUME OracleInvariant
  PROVE  /\ Model \in Automata /\ call.stored \in Seq(Rows)
         /\ at # "fill" => \A e \in Edges : edges[e].next \in Ids
<1>1. Model \in Automata /\ call.stored \in Seq(Rows)
  BY OracleAssumption DEF OracleInvariant, Stages, Model
<1>2. at # "fill" => \A e \in Edges : edges[e].next \in Ids
  BY <1>1, ArrowsLead DEF OracleInvariant, Stages
<1>. QED
  BY <1>1, <1>2

\* Nothing is claimed of a result before there is one.
LEMMA NoResult ==
  ASSUME result # "OK", at # "done"
  PROVE  BuildExact /\ Restored
BY DEF BuildExact, Restored

\* Filling the edges in the order of pairs and actions.
LEMMA FillKeeps ==
  ASSUME OracleInvariant, Fill
  PROVE  OracleInvariant'
<1>1. at = "fill" /\ result = "NONE" /\ goal = "merge"
  BY DEF Fill, OracleInvariant, Stages
<1>2. at' \in {"sort", "restore"} /\ (at' = "restore" <=> Restoring')
      /\ UNCHANGED <<call, into, goal, distance, queue, head, oracle, result>>
  BY DEF Fill, Restoring
<1>3. OracleTypeOK'
  BY <1>2 DEF OracleInvariant, OracleTypeOK
<1>4. Stages'
  <2>1. Arrows'
    BY <1>2 DEF Fill, Arrows, Model
  <2>. QED
    BY <1>1, <1>2, <2>1 DEF OracleInvariant, Stages
<1>5. Seeking'
  BY <1>2 DEF Seeking
<1>6. BuildExact' /\ Restored'
  BY <1>1, <1>2 DEF BuildExact, Restored
<1>. QED
  BY <1>3, <1>4, <1>5, <1>6 DEF OracleInvariant

\* Grouping the edges by their targets.
LEMMA SortKeeps ==
  ASSUME OracleInvariant, Sort
  PROVE  OracleInvariant'
<1>1. at = "sort" /\ result = "NONE" /\ goal = "merge" /\ ~Restoring /\ Arrows
  BY DEF Sort, OracleInvariant, Stages
<1>2. at' = "seed" /\ UNCHANGED <<call, edges, goal, distance, queue, head, oracle, result>>
  BY DEF Sort
<1>3. OracleTypeOK'
  BY <1>2 DEF OracleInvariant, OracleTypeOK
<1>4. Grouped(into.offset, into.edge)'
  <2>1. Grouped(into'.offset, into'.edge)
    BY <1>1, CallFits, EdgesGrouped
  <2>. QED
    BY <1>2, <2>1 DEF Grouped
<1>5. Stages'
  <2>1. Arrows' /\ ~Restoring'
    BY <1>1, <1>2 DEF Arrows, Model, Restoring
  <2>. QED
    BY <1>1, <1>2, <1>4, <2>1 DEF OracleInvariant, Stages
<1>6. Seeking'
  BY <1>1, <1>2 DEF Seeking
<1>7. BuildExact' /\ Restored'
  BY <1>1, <1>2 DEF BuildExact, Restored
<1>. QED
  BY <1>3, <1>5, <1>6, <1>7 DEF OracleInvariant

\* A search begins with the diagonal and with pairs whose outputs differ.
LEMMA SeedKeeps ==
  ASSUME OracleInvariant, Seed
  PROVE  OracleInvariant'
<1>1. at = "seed" /\ result = "NONE" /\ ~Restoring /\ goal \in Objectives
  BY DEF Seed, OracleInvariant, Stages, OracleTypeOK
<1>2. at' = "search" /\ head' = 0
      /\ UNCHANGED <<call, edges, into, goal, oracle, result>>
  BY DEF Seed
<1> DEFINE dist == [i \in Ids |-> IF i \in Diagonals THEN 0
                                  ELSE IF i \in Immediate(goal) THEN 1 ELSE None]
           q == InOrder(Diagonals) \o InOrder(Immediate(goal))
<1>3. distance' = [distance EXCEPT ![goal] = dist] /\ queue' = q
  BY DEF Seed
<1>4. Reaching(goal, dist, q, 0)
  BY SearchStarts
<1> HIDE DEF dist, q
<1>5. distance \in [Objectives -> [Ids -> Distances]] /\ distance'[goal] = dist
  BY <1>1, <1>3 DEF OracleInvariant, OracleTypeOK
<1>6. OracleTypeOK'
  <2>1. dist \in [Ids -> Distances] /\ Lists(q, {i \in Ids : dist[i] # None}) /\ 0 \in 0 .. Len(q)
    BY <1>4 DEF Reaching, Queued
  <2>2. Len(q) \in Nat /\ Len(q) <= PairCount /\ q \in Seq(Ids)
    <3>1. {i \in Ids : dist[i] # None} \in SUBSET Ids
      OBVIOUS
    <3>2. q \in Seq({i \in Ids : dist[i] # None})
      BY <2>1 DEF Lists
    <3>. QED
      BY <2>1, <3>1, <3>2, ListLength
  <2>3. distance' \in [Objectives -> [Ids -> Distances]]
    BY <1>3, <1>5, <2>1
  <2>. QED
    BY <1>2, <1>3, <2>1, <2>2, <2>3 DEF OracleInvariant, OracleTypeOK
<1>7. Stages'
  <2>1. Arrows' /\ ~Restoring' /\ Grouped(into.offset, into.edge)'
    BY <1>1, <1>2, StageKept DEF OracleInvariant, Stages
  <2>. QED
    BY <1>1, <1>2, <2>1 DEF OracleInvariant, Stages
<1>8. Seeking'
  <2>1. Reaching(goal, distance[goal], queue, head)'
    <3>1. PICK g, d, u, h : g = goal /\ d = dist /\ u = q /\ h = 0
      OBVIOUS
    <3>2. Reaching(g, d, u, h)'
      BY <1>2, <1>4, <3>1, SearchKept
    <3>3. goal' = g /\ distance'[goal'] = d /\ queue' = u /\ head' = h
      BY <1>2, <1>3, <1>5, <3>1
    <3>. QED
      BY <3>2, <3>3
  <2>2. goal = "resolution" => Exhausted("merge", distance["merge"])'
    <3>1. goal = "resolution" => distance'["merge"] = distance["merge"]
      BY <1>3, <1>5 DEF Objectives
    <3>2. PICK d : d = distance["merge"]
      OBVIOUS
    <3>3. goal = "resolution" => Exhausted("merge", d)
      BY <1>1, <3>2 DEF OracleInvariant, Seeking
    <3>4. goal = "resolution" => Exhausted("merge", d)'
      BY <1>2, <3>3, SearchKept
    <3>. QED
      BY <3>1, <3>2, <3>4
  <2>. QED
    BY <1>2, <2>1, <2>2 DEF Seeking
<1>9. BuildExact' /\ Restored'
  BY <1>1, <1>2 DEF BuildExact, Restored
<1>. QED
  BY <1>6, <1>7, <1>8, <1>9 DEF OracleInvariant

\* A pair from the queue gives its distance to its predecessors.
LEMMA SearchKeeps ==
  ASSUME OracleInvariant, Search
  PROVE  OracleInvariant'
<1>1. at = "search" /\ result = "NONE" /\ ~Restoring /\ goal \in Objectives /\ head < Len(queue)
      /\ distance \in [Objectives -> [Ids -> Distances]]
  BY DEF Search, OracleInvariant, Stages, OracleTypeOK
<1>2. UNCHANGED <<call, at, edges, into, goal, oracle, result>> /\ head' = head + 1
  BY DEF Search
<1>3. PICK dist : dist = distance[goal]
  OBVIOUS
<1>4. PICK target : target = queue[head + 1]
  OBVIOUS
<1>5. PICK ids : ids = Newly(target)
  OBVIOUS
<1>6. PICK later : later = [i \in Ids |-> IF i \in ids THEN dist[target] + 1 ELSE dist[i]]
  OBVIOUS
<1>7. distance' = [distance EXCEPT ![goal] = later] /\ queue' = queue \o InOrder(ids)
  <2>1. \E t \in {queue[head + 1]} : \E s \in {Newly(t)} :
          /\ distance' = [distance EXCEPT ![goal] =
               [i \in Ids |-> IF i \in s THEN distance[goal][t] + 1 ELSE distance[goal][i]]]
          /\ queue' = queue \o InOrder(s)
    <3>1. PICK t \in {queue[head + 1]} : \E s \in {Newly(t)} :
            /\ distance' = [distance EXCEPT ![goal] =
                 [i \in Ids |-> IF i \in s THEN @[t] + 1 ELSE @[i]]]
            /\ queue' = Enqueued(InOrder(s))
      BY DEF Search
    <3>2. PICK s \in {Newly(t)} :
            /\ distance' = [distance EXCEPT ![goal] =
                 [i \in Ids |-> IF i \in s THEN @[t] + 1 ELSE @[i]]]
            /\ queue' = Enqueued(InOrder(s))
      BY <3>1
    <3>3. distance' = [distance EXCEPT ![goal] =
            [i \in Ids |-> IF i \in s THEN distance[goal][t] + 1 ELSE distance[goal][i]]]
      BY <3>2
    <3>4. queue' = queue \o InOrder(s)
      BY <3>2 DEF Enqueued
    <3>. QED
      BY <3>3, <3>4
  <2>2. PICK s \in {Newly(target)} :
          /\ distance' = [distance EXCEPT ![goal] =
               [i \in Ids |-> IF i \in s THEN distance[goal][target] + 1 ELSE distance[goal][i]]]
          /\ queue' = queue \o InOrder(s)
    <3>1. PICK t \in {queue[head + 1]} : \E s \in {Newly(t)} :
          /\ distance' = [distance EXCEPT ![goal] =
               [i \in Ids |-> IF i \in s THEN distance[goal][t] + 1 ELSE distance[goal][i]]]
          /\ queue' = queue \o InOrder(s)
      BY <2>1
    <3>2. t = target
      BY <1>4
    <3>. QED
      BY <3>1, <3>2
  <2>3. s = ids
    BY <1>5
  <2>. QED
    BY <1>3, <1>6, <2>2, <2>3
<1>8. Reaching(goal, dist, queue, head)
  BY <1>1, <1>3 DEF OracleInvariant, Seeking
<1>9. target \in Ids
  <2>1. head + 1 \in 1 .. Len(queue) /\ queue \in Seq(Ids)
    BY <1>1 DEF OracleInvariant, OracleTypeOK
  <2>. QED
    BY <1>4, <2>1
<1>10. ids = {Source(e) : e \in {f \in Edges :
                          /\ edges[f].next = target
                          /\ ~TerminalEdge(goal, f) /\ dist[Source(f)] = None}}
  <2> DEFINE near == {into.edge[k] : k \in into.offset[target] .. into.offset[target + 1] - 1}
  <2>1. near = {e \in Edges : edges[e].next = target}
    BY <1>1, <1>9 DEF OracleInvariant, Stages, Grouped
  <2>2. ids = {Source(e) : e \in {f \in near : ~TerminalEdge(goal, f) /\ dist[Source(f)] = None}}
    BY <1>3, <1>5 DEF Newly
  <2> HIDE DEF near
  <2>. QED
    BY <2>1, <2>2
<1>11. \A e \in Edges : edges[e].next \in Ids
  BY <1>1, CallFits
<1>12. PICK q : q = queue \o InOrder(ids)
  OBVIOUS
<1>13. Reaching(goal, later, q, head + 1)
  BY <1>1, <1>4, <1>6, <1>8, <1>10, <1>11, <1>12, SearchGoesOn
<1>14. distance'[goal] = later
  BY <1>1, <1>7
<1>15. OracleTypeOK'
  <2>1. later \in [Ids -> Distances] /\ Lists(q, {i \in Ids : later[i] # None})
        /\ head + 1 \in 0 .. Len(q)
    BY <1>13 DEF Reaching, Queued
  <2>2. Len(q) \in Nat /\ Len(q) <= PairCount /\ q \in Seq(Ids)
    <3>1. {i \in Ids : later[i] # None} \in SUBSET Ids
      OBVIOUS
    <3>2. q \in Seq({i \in Ids : later[i] # None})
      BY <2>1 DEF Lists
    <3>. QED
      BY <2>1, <3>1, <3>2, ListLength
  <2>3. distance' \in [Objectives -> [Ids -> Distances]]
    BY <1>1, <1>7, <2>1
  <2>. QED
    BY <1>2, <1>7, <1>12, <2>1, <2>2, <2>3 DEF OracleInvariant, OracleTypeOK
<1>16. Stages'
  <2>1. Arrows' /\ ~Restoring' /\ Grouped(into.offset, into.edge)'
    BY <1>1, <1>2, StageKept DEF OracleInvariant, Stages
  <2>. QED
    BY <1>1, <1>2, <2>1 DEF OracleInvariant, Stages
<1>17. Seeking'
  <2>1. Reaching(goal, distance[goal], queue, head)'
    <3>1. PICK g, h : g = goal /\ h = head + 1
      OBVIOUS
    <3>2. Reaching(g, later, q, h)'
      BY <1>2, <1>13, <3>1, SearchKept
    <3>3. goal' = g /\ distance'[goal'] = later /\ queue' = q /\ head' = h
      BY <1>2, <1>7, <1>12, <1>14, <3>1
    <3>. QED
      BY <3>2, <3>3
  <2>2. goal = "resolution" => Exhausted("merge", distance["merge"])'
    <3>1. goal = "resolution" => distance'["merge"] = distance["merge"]
      BY <1>1, <1>7 DEF Objectives
    <3>2. PICK d : d = distance["merge"]
      OBVIOUS
    <3>3. goal = "resolution" => Exhausted("merge", d)
      BY <1>1, <3>2 DEF OracleInvariant, Seeking
    <3>4. goal = "resolution" => Exhausted("merge", d)'
      BY <1>2, <3>3, SearchKept
    <3>. QED
      BY <3>1, <3>2, <3>4
  <2>. QED
    BY <1>1, <1>2, <2>1, <2>2 DEF Seeking
<1>18. BuildExact' /\ Restored'
  BY <1>1, <1>2 DEF BuildExact, Restored
<1>. QED
  BY <1>15, <1>16, <1>17, <1>18 DEF OracleInvariant

\* A queue that is used up has followed every edge into what was reached.
LEMMA QueueUsedUp ==
  ASSUME NEW obj, NEW dist, NEW q, Reaching(obj, dist, q, Len(q)),
         \A e \in Edges : edges[e].next \in Ids
  PROVE  Exhausted(obj, dist)
<1>1. dist \in [Ids -> Distances] /\ Lists(q, {i \in Ids : dist[i] # None})
  BY DEF Reaching, Queued
<1>2. ASSUME NEW e \in Edges, dist[edges[e].next] # None PROVE Followed(obj, dist, e)
  <2>1. PICK k \in 1 .. Len(q) : q[k] = edges[e].next
    BY <1>1, <1>2 DEF Lists
  <2>. QED
    BY <2>1 DEF Reaching
<1>. QED
  BY <1>1, <1>2 DEF Exhausted, Reaching

\* A search whose queue is empty is over.
LEMMA SearchedKeeps ==
  ASSUME OracleInvariant, Searched
  PROVE  OracleInvariant'
<1>1. at = "search" /\ result = "NONE" /\ ~Restoring /\ goal \in Objectives /\ head = Len(queue)
  BY DEF Searched, OracleInvariant, Stages, OracleTypeOK
<1>2. UNCHANGED <<call, edges, into, distance, queue, head, oracle, result>>
  BY DEF Searched
<1>3. \/ goal = "merge" /\ at' = "seed" /\ goal' = "resolution"
      \/ goal = "resolution" /\ at' = "choose" /\ goal' = "resolution"
  BY <1>1 DEF Searched, Objectives
<1>4. \A e \in Edges : edges[e].next \in Ids
  BY <1>1, CallFits
<1>5. Exhausted(goal, distance[goal])
  <2>1. Reaching(goal, distance[goal], queue, Len(queue))
    BY <1>1 DEF OracleInvariant, Seeking
  <2>. QED
    BY <1>4, <2>1, QueueUsedUp
<1>6. PICK m, r : m = distance["merge"] /\ r = distance["resolution"]
  OBVIOUS
<1>7. Exhausted("merge", m)
  <2>1. goal = "resolution" => Exhausted("merge", distance["merge"])
    BY <1>1 DEF OracleInvariant, Seeking
  <2>. QED
    BY <1>3, <1>5, <1>6, <2>1
<1>8. goal = "resolution" => Exhausted("resolution", r)
  BY <1>5, <1>6
<1>9. Exhausted("merge", m)' /\ (goal = "resolution" => Exhausted("resolution", r)')
  BY <1>2, <1>7, <1>8, SearchKept
<1>10. OracleTypeOK'
  BY <1>1, <1>2, <1>3 DEF OracleInvariant, OracleTypeOK, Objectives
<1>11. Stages'
  <2>1. Arrows' /\ ~Restoring' /\ Grouped(into.offset, into.edge)'
    BY <1>1, <1>2, StageKept DEF OracleInvariant, Stages
  <2>. QED
    BY <1>1, <1>2, <1>3, <2>1 DEF OracleInvariant, Stages
<1>12. Seeking'
  <2>1. distance'["merge"] = m /\ distance'["resolution"] = r
    BY <1>2, <1>6
  <2>2. Exhausted("merge", distance["merge"])'
    BY <1>9, <2>1
  <2>3. goal = "resolution" => Exhausted("resolution", distance["resolution"])'
    BY <1>9, <2>1
  <2>4. at' = "choose" => \A obj \in Objectives : Exhausted(obj, distance[obj])'
    BY <1>3, <2>2, <2>3 DEF Objectives
  <2>. QED
    BY <1>3, <2>2, <2>4 DEF Seeking
<1>13. BuildExact' /\ Restored'
  BY <1>1, <1>2, <1>3 DEF BuildExact, Restored
<1>. QED
  BY <1>10, <1>11, <1>12, <1>13 DEF OracleInvariant

\* The numbers of a record of the exact oracle.
LEMMA NumberedFits ==
  ASSUME Model \in Automata, NEW obj
  PROVE  Numbered(obj) \in [Ids -> Fields]
<1>1. ASSUME NEW i \in Ids
      PROVE  [ExactRecords(Model, obj)[PairOf[i]] EXCEPT !.next = Number(@)] \in Fields
  <2>1. PICK r \in Records : r = ExactRecords(Model, obj)[PairOf[i]]
    BY PairsFilled, ExactRecordsFit
  <2>2. Number(r.next) \in Nat \cup {None}
    <3>1. r.next \in Pairs \cup {NoPair}
      BY DEF Records
    <3>. QED
      BY <3>1, NumberIs, IndexOrdered DEF Ids
  <2>3. [r EXCEPT !.next = Number(@)] \in Fields
    BY <2>2 DEF Records, Fields
  <2>. QED
    BY <2>1, <2>3
<1>. QED
  BY <1>1 DEF Numbered

\* The fields of a record are the least action and its target.
LEMMA ChooseKeeps ==
  ASSUME OracleInvariant, Choose
  PROVE  OracleInvariant'
<1>1. at = "choose" /\ ~Restoring /\ Arrows /\ Model \in Automata
  BY CallFits DEF Choose, OracleInvariant, Stages
<1>2. at' = "done" /\ result' = "OK"
      /\ UNCHANGED <<call, edges, into, goal, distance, queue, head>>
  BY DEF Choose, Finish
<1>3. oracle' = [obj \in Objectives |-> [i \in Ids |-> Witness(obj, distance[obj], i)]]
  BY DEF Choose
<1>4. ASSUME NEW obj \in Objectives
      PROVE  [i \in Ids |-> Witness(obj, distance[obj], i)] = Numbered(obj)
  <2>1. PICK dist : dist = distance[obj]
    OBVIOUS
  <2>2. Exhausted(obj, dist)
    BY <1>1, <2>1 DEF OracleInvariant, Seeking
  <2>3. \A i \in Ids : dist[i] = ExactDistances(Model, obj)[PairOf[i]]
    BY <1>1, <2>2, ExhaustedExact
  <2>4. [i \in Ids |-> Witness(obj, dist, i)] = Numbered(obj)
    BY <1>1, <2>3, ChosenExact
  <2>. QED
    BY <2>1, <2>4
<1>5. oracle' = [obj \in Objectives |-> Numbered(obj)]
  BY <1>3, <1>4
<1>6. oracle' \in [Objectives -> [Ids -> Fields]]
  BY <1>1, <1>5, NumberedFits
<1>7. OracleTypeOK'
  BY <1>2, <1>6 DEF OracleInvariant, OracleTypeOK
<1>8. Stages'
  <2>1. Arrows'
    BY <1>1, <1>2, StageKept
  <2>. QED
    BY <1>2, <2>1 DEF OracleInvariant, Stages
<1>9. Seeking'
  BY <1>2 DEF Seeking
<1>10. ASSUME NEW obj PROVE Numbered(obj)' = Numbered(obj)
  BY <1>2 DEF Numbered, Model
<1>11. BuildExact'
  <2>1. \A obj \in Objectives : oracle'[obj] = Numbered(obj)'
    BY <1>5, <1>10
  <2>. QED
    BY <2>1 DEF BuildExact
<1>12. Restored'
  BY <1>1, <1>2 DEF Restored, Restoring
<1>. QED
  BY <1>7, <1>8, <1>9, <1>11, <1>12 DEF OracleInvariant

\* The rows of a complete table have the fields of a record.
LEMMA RowFits ==
  ASSUME call.stored \in Seq(Rows), Complete(call.stored), NEW i \in Ids, NEW obj \in Objectives
  PROVE  Row(i)[obj] \in Fields /\ Loaded(Row(i)[obj]) \in Fields
<1>1. PICK k \in DOMAIN call.stored :
        k = (CHOOSE m \in DOMAIN call.stored : call.stored[m].pair = i) /\ call.stored[k].pair = i
  <2>1. \E m \in DOMAIN call.stored : call.stored[m].pair = i
    BY DEF Complete
  <2>. QED
    BY <2>1
<1>2. PICK r \in Rows : r = Row(i)
  <2>1. PICK s \in Seq(Rows) : s = call.stored
    OBVIOUS
  <2>2. k \in 1 .. Len(s)
    BY <1>1, <2>1
  <2>3. s[k] \in Rows
    BY <2>1, <2>2
  <2>4. Row(i) = s[k]
    <3>1. Row(i) = call.stored[k]
      BY <1>1 DEF Row
    <3>. QED
      BY <2>1, <3>1
  <2>. QED
    BY <2>3, <2>4
<1>3. PICK f \in Fields : f = r[obj]
  BY DEF Rows, Objectives
<1>4. Loaded(f) \in Fields
  <2>1. CASE f.dist = None
    BY <2>1 DEF Loaded, Nothing, Fields, Distances
  <2>2. CASE f.dist # None
    BY <2>2 DEF Loaded
  <2>. QED
    BY <2>1, <2>2
<1>. QED
  BY <1>2, <1>3, <1>4

\* Whether a record is valid depends on the record and the edges.
LEMMA ValidKept ==
  ASSUME edges' = edges, NEW obj, NEW recs, NEW i
  PROVE  Valid(obj, recs, i)' <=> Valid(obj, recs, i)
<1>1. \A e : TerminalEdge(obj, e)' <=> TerminalEdge(obj, e)
  BY DEF TerminalEdge
<1>2. \A dist, e : Attains(obj, dist, e)' <=> Attains(obj, dist, e)
  BY <1>1 DEF Attains
<1>3. \A dist, r : AttainedBy(obj, dist, i, r)' <=> AttainedBy(obj, dist, i, r)
  BY <1>1, <1>2 DEF AttainedBy, EdgesOf
<1>4. \A dist : {e \in EdgesOf(i) : Attains(obj, dist, e)}' = {e \in EdgesOf(i) : Attains(obj, dist, e)}
  BY <1>2 DEF EdgesOf
<1>. QED
  BY <1>3, <1>4 DEF Valid, Diagonals, Nothing

\* Records that are restored passed the checks, or none are.
LEMMA RestoreKeeps ==
  ASSUME OracleInvariant, Restore
  PROVE  OracleInvariant'
<1>1. at = "restore" /\ Restoring /\ Arrows /\ call.stored \in Seq(Rows)
  BY CallFits DEF Restore, OracleInvariant, Stages
<1>2. at' = "done" /\ UNCHANGED <<call, edges, into, goal, distance, queue, head>>
  BY DEF Restore, Finish
<1> DEFINE recs == [obj \in Objectives |-> [i \in Ids |-> Loaded(Row(i)[obj])]]
           fits == Complete(call.stored) /\ \A obj \in Objectives, i \in Ids : Valid(obj, recs[obj], i)
<1>3. IF fits THEN oracle' = recs /\ result' = "OK"
      ELSE result' = "INVALID_MODEL" /\ UNCHANGED oracle
  <2>1. CASE ~Complete(call.stored)
    BY <2>1 DEF Restore, Finish
  <2>2. CASE Complete(call.stored)
    <3>1. PICK r \in {recs} :
            IF \A obj \in Objectives, i \in Ids : Valid(obj, r[obj], i)
            THEN oracle' = r /\ Finish("OK")
            ELSE Finish("INVALID_MODEL") /\ UNCHANGED oracle
      BY <2>2 DEF Restore
    <3>2. r = recs
      OBVIOUS
    <3> HIDE DEF recs
    <3>. QED
      BY <2>2, <3>1, <3>2 DEF Finish
  <2>. QED
    BY <2>1, <2>2
<1>4. fits => recs \in [Objectives -> [Ids -> Fields]]
  BY <1>1, RowFits
<1>5. fits' <=> fits
  <2>1. recs' = recs /\ Complete(call.stored)' = Complete(call.stored)
    BY <1>2 DEF Row, Loaded, Complete, Nothing
  <2>2. PICK r : r = recs
    OBVIOUS
  <2>3. \A obj \in Objectives, i \in Ids : Valid(obj, r[obj], i)' <=> Valid(obj, r[obj], i)
    BY <1>2, ValidKept
  <2>4. recs' = r
    BY <2>1, <2>2
  <2>5. \A obj \in Objectives, i \in Ids : Valid(obj, recs[obj], i)' <=> Valid(obj, recs[obj], i)
    <3> HIDE DEF recs
    <3>. QED
      BY <2>2, <2>3, <2>4
  <2>. QED
    BY <2>1, <2>5
<1>6. OracleTypeOK'
  <2> HIDE DEF recs, fits
  <2>1. oracle' \in [Objectives -> [Ids -> Fields]] /\ result' \in {"OK", "INVALID_MODEL"}
    BY <1>3, <1>4 DEF OracleInvariant, OracleTypeOK
  <2>. QED
    BY <1>2, <2>1 DEF OracleInvariant, OracleTypeOK
<1>7. Stages'
  <2>1. Arrows'
    BY <1>1, <1>2, StageKept
  <2>. QED
    BY <1>2, <2>1 DEF OracleInvariant, Stages
<1>8. Seeking'
  BY <1>2 DEF Seeking
<1>9. Restored'
  <2>1. IF fits' THEN result' = "OK" /\ oracle' = recs' ELSE result' = "INVALID_MODEL"
    <3>1. recs' = recs
      BY <1>2 DEF Row, Loaded, Nothing
    <3> HIDE DEF recs, fits
    <3>. QED
      BY <1>3, <1>5, <3>1
  <2>. QED
    BY <2>1 DEF Restored
<1>10. BuildExact'
  BY <1>1, <1>2 DEF BuildExact, Restoring
<1>. QED
  BY <1>6, <1>7, <1>8, <1>9, <1>10 DEF OracleInvariant

\* A step that changes nothing keeps the invariant.
LEMMA OracleStays ==
  ASSUME OracleInvariant, UNCHANGED oracleVars
  PROVE  OracleInvariant'
<1>1. UNCHANGED <<call, at, edges, into, goal, distance, queue, head, oracle, result>>
  BY DEF oracleVars
<1>2. OracleTypeOK'
  BY <1>1 DEF OracleInvariant, OracleTypeOK
<1>3. Stages'
  <2>1. (Arrows => Arrows') /\ (Restoring' <=> Restoring)
        /\ (Grouped(into.offset, into.edge) => Grouped(into.offset, into.edge)')
    BY <1>1, StageKept
  <2>. QED
    BY <1>1, <2>1 DEF OracleInvariant, Stages
<1>4. Seeking'
  <2>1. PICK g, h, q, d : g = goal /\ h = head /\ q = queue /\ d = distance
    OBVIOUS
  <2>2. goal' = g /\ head' = h /\ queue' = q /\ distance' = d
    BY <1>1, <2>1
  <2>3. /\ Reaching(g, d[g], q, h) => Reaching(g, d[g], q, h)'
        /\ \A obj : Exhausted(obj, d[obj]) => Exhausted(obj, d[obj])'
    BY <1>1, SearchKept
  <2>4. /\ at = "search" => Reaching(g, d[g], q, h)'
        /\ at \in {"seed", "search"} /\ goal = "resolution" => Exhausted("merge", d["merge"])'
        /\ at = "choose" => \A obj \in Objectives : Exhausted(obj, d[obj])'
    BY <2>1, <2>3 DEF OracleInvariant, Seeking
  <2>5. /\ at = "search" => Reaching(goal, distance[goal], queue, head)'
        /\ at \in {"seed", "search"} /\ goal = "resolution" => Exhausted("merge", distance["merge"])'
        /\ at = "choose" => \A obj \in Objectives : Exhausted(obj, distance[obj])'
    BY <2>2, <2>4
  <2>. QED
    BY <1>1, <2>5 DEF Seeking
<1>5. BuildExact'
  <2>1. \A obj : Numbered(obj)' = Numbered(obj)
    BY <1>1 DEF Numbered, Model
  <2>. QED
    BY <1>1, <2>1 DEF OracleInvariant, BuildExact, Restoring
<1>6. Restored'
  <2>1. PICK recs : recs = [obj \in Objectives |-> [i \in Ids |-> Loaded(Row(i)[obj])]]
    OBVIOUS
  <2>2. \A obj \in Objectives, i \in Ids : Valid(obj, recs[obj], i)' <=> Valid(obj, recs[obj], i)
    BY <1>1, ValidKept
  <2>3. [obj \in Objectives |-> [i \in Ids |-> Loaded(Row(i)[obj])]]' = recs
    BY <1>1, <2>1 DEF Row, Loaded, Nothing
  <2>4. Complete(call.stored)' <=> Complete(call.stored)
    BY <1>1 DEF Complete
  <2>5. at = "done" /\ Restoring =>
          IF Complete(call.stored) /\ \A obj \in Objectives, i \in Ids : Valid(obj, recs[obj], i)'
          THEN result = "OK" /\ oracle = recs
          ELSE result = "INVALID_MODEL"
    BY <2>1, <2>2 DEF OracleInvariant, Restored
  <2>6. at' = "done" /\ Restoring' =>
          IF Complete(call.stored)' /\ \A obj \in Objectives, i \in Ids : Valid(obj, recs[obj], i)'
          THEN result' = "OK" /\ oracle' = recs
          ELSE result' = "INVALID_MODEL"
    BY <1>1, <2>4, <2>5 DEF Restoring
  <2>. QED
    BY <2>3, <2>6 DEF Restored
<1>. QED
  BY <1>2, <1>3, <1>4, <1>5, <1>6 DEF OracleInvariant

\* Nothing has been called.
LEMMA OracleStarts ==
  ASSUME OracleInit
  PROVE  OracleInvariant
<1>1. PairCount \in Nat
  BY IndexOnto
<1>2. OracleTypeOK
  <2>1. Nothing(None) \in Fields
    BY DEF Nothing, Fields, Distances
  <2>2. distance \in [Objectives -> [Ids -> Distances]] /\ oracle \in [Objectives -> [Ids -> Fields]]
    BY <2>1 DEF OracleInit, Distances
  <2>3. queue \in Seq(Ids) /\ Len(queue) = 0 /\ head = 0
    BY DEF OracleInit
  <2>. QED
    BY <1>1, <2>2, <2>3 DEF OracleInit, OracleTypeOK, Objectives
<1>3. Stages /\ Seeking
  BY DEF OracleInit, Stages, Seeking
<1>4. BuildExact /\ Restored
  BY DEF OracleInit, BuildExact, Restored
<1>. QED
  BY <1>2, <1>3, <1>4 DEF OracleInvariant

\* Every step keeps the invariant.
LEMMA OracleKeeps ==
  ASSUME OracleInvariant, [OracleNext]_oracleVars
  PROVE  OracleInvariant'
<1>1. CASE Fill
  BY <1>1, FillKeeps
<1>2. CASE Sort
  BY <1>2, SortKeeps
<1>3. CASE Seed
  BY <1>3, SeedKeeps
<1>4. CASE Search
  BY <1>4, SearchKeeps
<1>5. CASE Searched
  BY <1>5, SearchedKeeps
<1>6. CASE Choose
  BY <1>6, ChooseKeeps
<1>7. CASE Restore
  BY <1>7, RestoreKeeps
<1>8. CASE Returned \/ UNCHANGED oracleVars
  BY <1>8, OracleStays DEF Returned
<1>. QED
  BY <1>1, <1>2, <1>3, <1>4, <1>5, <1>6, <1>7, <1>8 DEF OracleNext

\* It always holds.
LEMMA OracleAlways == OracleSpec => []OracleInvariant
<1>1. OracleInit => OracleInvariant
  BY OracleStarts
<1>2. OracleInvariant /\ [OracleNext]_oracleVars => OracleInvariant'
  BY OracleKeeps
<1>. QED
  BY <1>1, <1>2, PTL DEF OracleSpec

\* The arrays that the searches run on are sound: the pairs are numbered as the
\* edges say, sg_predecessors_build groups the edges by where they lead, and the
\* queue of the distance searches holds each pair once, nearest first.
THEOREM QueueAlwaysSound == OracleSpec => []QueueSound
<1>1. ASSUME OracleInvariant PROVE QueueSound
  <2>1. OracleTypeOK
    BY <1>1 DEF OracleInvariant
  <2>2. PairsNumbered
    BY <1>1, CallFits, ArrowsLead DEF PairsNumbered, OracleInvariant, Stages
  <2>3. PredecessorsExact
    BY <1>1 DEF OracleInvariant, Stages, Grouped, PredecessorsExact
  <2>4. QueueLayered
    <3> SUFFICES ASSUME at = "search" PROVE
          LET far(k) == distance[goal][queue[k]]
          IN /\ \A j, k \in DOMAIN queue : j < k => queue[j] # queue[k] /\ far(j) <= far(k)
             /\ head \in DOMAIN queue => far(Len(queue)) <= far(head) + 1
      BY DEF QueueLayered
    <3>1. Reaching(goal, distance[goal], queue, head)
      BY <1>1 DEF OracleInvariant, Seeking
    <3>2. queue \in Seq(Ids) /\ DOMAIN queue = 1 .. Len(queue) /\ Len(queue) \in Nat
      BY <2>1 DEF OracleTypeOK
    <3>3. PICK d : d = distance[goal]
      OBVIOUS
    <3>4. Queued(d, queue, head)
      BY <3>1, <3>3 DEF Reaching
    <3>5. \A j, k \in 1 .. Len(queue) : j < k => queue[j] # queue[k] /\ d[queue[j]] <= d[queue[k]]
      BY <3>2, <3>4 DEF Queued, Lists
    <3>6. head \in 1 .. Len(queue) => d[queue[Len(queue)]] <= d[queue[head]] + 1
      BY <3>2, <3>4 DEF Queued
    <3>. QED
      BY <3>2, <3>3, <3>5, <3>6
  <2>. QED
    BY <2>1, <2>2, <2>3, <2>4 DEF QueueSound
<1>. QED
  BY <1>1, OracleAlways, PTL

\* sg_pair_oracle_build makes the exact oracle of every automaton: least distances,
\* the first action that attains them, and how many do.
THEOREM BuildAlwaysExact == OracleSpec => []BuildExact
<1>1. OracleInvariant => BuildExact
  BY DEF OracleInvariant
<1>. QED
  BY <1>1, OracleAlways, PTL

-----------------------------------------------------------------------------
(* Words of records that were restored. *)

\* What a record says that leads on: an action whose outputs differ, or one into a
\* pair that is one step nearer.
LeadsOn(obj, R, j) ==
  /\ R[j].act \in Actions
  /\ \/ /\ Terminal(Model, obj, PairOf[j], R[j].act)
        /\ R[j].dist = 1 /\ R[j].next = None
     \/ \E k \in Ids : /\ R[j].next = k /\ R[k].dist \in Nat /\ R[k].dist + 1 = R[j].dist
                       /\ PairOf[k] = Target(Model, PairOf[j], R[j].act)

Guided(obj, R) ==
  \A j \in Ids : R[j].dist # None =>
    /\ R[j].dist \in Nat
    /\ R[j].dist = 0 => j \in Diagonals
    /\ R[j].dist # 0 => LeadsOn(obj, R, j)

\* What sg_pair_oracle_restore lets pass leads on.
LEMMA ValidGuides ==
  ASSUME Arrows, Model \in Automata, NEW obj, NEW R \in [Ids -> Fields],
         \A i \in Ids : Valid(obj, R, i)
  PROVE  Guided(obj, R)
<1> DEFINE dist == [j \in Ids |-> R[j].dist]
<1> SUFFICES ASSUME NEW j \in Ids, R[j].dist # None
             PROVE  /\ R[j].dist \in Nat
                    /\ R[j].dist = 0 => j \in Diagonals
                    /\ R[j].dist # 0 => LeadsOn(obj, R, j)
  BY DEF Guided
<1>1. \A k \in Ids : dist[k] = R[k].dist /\ dist[k] \in Distances
  BY DEF Fields
<1>2. R[j].dist \in Nat
  BY <1>1 DEF Distances
<1>3. ASSUME R[j].dist = 0 PROVE j \in Diagonals
  <2>1. Valid(obj, R, j)
    OBVIOUS
  <2>. QED
    BY <1>3, <2>1 DEF Valid, None
<1>4. ASSUME R[j].dist # 0 PROVE LeadsOn(obj, R, j)
  <2>1. AttainedBy(obj, dist, j, R[j])
    <3>1. Valid(obj, R, j)
      OBVIOUS
    <3>. QED
      BY <1>4, <3>1 DEF Valid
  <2>2. PICK e \in EdgesOf(j) :
          /\ ActionOf(e) = R[j].act /\ Attains(obj, dist, e)
          /\ R[j].next = IF TerminalEdge(obj, e) THEN None ELSE edges[e].next
    BY <2>1 DEF AttainedBy
  <2>3. e \in Edges /\ Source(e) = j
    BY DEF EdgesOf
  <2>4. PICK p \in Pairs, a \in Actions : p = PairOf[j] /\ a = ActionOf(e) /\ a = R[j].act
    BY <2>2, <2>3, EdgeParts, PairsFilled
  <2>5. /\ edges[e].next \in Ids
        /\ PairOf[edges[e].next] = Target(Model, p, a)
        /\ edges[e].differ = OutputsDiffer(Model, p, a)
    BY <2>3, <2>4, ArrowsLead
  <2>6. TerminalEdge(obj, e) <=> Terminal(Model, obj, p, a)
    BY <2>5 DEF TerminalEdge, Terminal
  <2> HIDE DEF dist
  <2>7. CASE TerminalEdge(obj, e)
    <3>1. dist[j] = 1
      BY <2>2, <2>3, <2>7 DEF Attains
    <3>. QED
      BY <1>1, <2>2, <2>4, <2>6, <2>7, <3>1 DEF LeadsOn
  <2>8. CASE ~TerminalEdge(obj, e)
    <3>1. PICK k \in Ids : k = edges[e].next
      BY <2>5
    <3>2. dist[k] # None /\ dist[k] + 1 = dist[j]
      BY <2>2, <2>3, <2>8, <3>1 DEF Attains
    <3>3. dist[k] \in Nat
      BY <1>1, <3>2 DEF Distances
    <3>. QED
      BY <1>1, <2>2, <2>4, <2>5, <2>8, <3>1, <3>2, <3>3 DEF LeadsOn
  <2>. QED
    BY <2>7, <2>8
<1>. QED
  BY <1>2, <1>3, <1>4

\* Records that lead on count down, so no distance is larger than there are pairs.
LEMMA GuidedBounded ==
  ASSUME NEW obj, NEW R, Guided(obj, R), NEW i \in Ids, R[i].dist # None
  PROVE  R[i].dist \in 0 .. PairCount
<1>1. PICK d \in Nat : d = R[i].dist
  BY DEF Guided
<1> DEFINE S == {n \in 0 .. d - 1 : \E j \in Ids : R[j].dist = d - n}
<1>2. CASE d = 0
  BY <1>1, <1>2, IndexOnto
<1>3. CASE d # 0
  <2>1. d - 1 \in Nat
    BY <1>3
  <2>2. 0 \in S
    <3>1. d - 0 = d /\ 0 \in 0 .. d - 1
      BY <2>1
    <3>. QED
      BY <1>1, <3>1
  <2>3. ASSUME NEW n \in 1 .. d - 1, n - 1 \in S PROVE n \in S
    <3>1. PICK j \in Ids : R[j].dist = d - (n - 1)
      BY <2>3
    <3>2. d - (n - 1) = (d - n) + 1 /\ d - n \in Nat /\ d - n # 0
      BY <2>1
    <3>3. PICK m \in Nat : m = d - n /\ m # 0 /\ R[j].dist = m + 1
      BY <3>1, <3>2
    <3>4. R[j].dist # None /\ R[j].dist # 0 /\ R[j].dist # 1
      BY <3>3 DEF None
    <3>5. LeadsOn(obj, R, j)
      BY <3>4 DEF Guided
    <3>6. PICK k \in Ids : R[k].dist \in Nat /\ R[k].dist + 1 = R[j].dist
      BY <3>4, <3>5 DEF LeadsOn
    <3>7. R[k].dist = d - n
      BY <3>3, <3>6
    <3>. QED
      BY <2>1, <3>7
  <2>4. \A n \in 0 .. d - 1 : n \in S
    <3> HIDE DEF S
    <3>. QED
      BY <2>1, <2>2, <2>3, StepByStep
  <2>5. \A m \in 1 .. d : \E j \in Ids : R[j].dist = m
    <3> SUFFICES ASSUME NEW m \in 1 .. d PROVE \E j \in Ids : R[j].dist = m
      OBVIOUS
    <3>1. d - m \in 0 .. d - 1 /\ d - (d - m) = m
      BY <2>1
    <3>2. d - m \in S
      BY <2>4, <3>1
    <3>. QED
      BY <3>1, <3>2
  <2> DEFINE f == [m \in 1 .. d |-> CHOOSE j \in Ids : R[j].dist = m]
  <2>6. \A m \in 1 .. d : f[m] \in Ids /\ R[f[m]].dist = m
    BY <2>5
  <2> HIDE DEF f
  <2>7. f \in Injection(1 .. d, Ids)
    <3>1. f \in [1 .. d -> Ids]
      BY <2>6 DEF f
    <3>2. \A m, n \in 1 .. d : f[m] = f[n] => m = n
      BY <2>6
    <3>. QED
      BY <3>1, <3>2 DEF Injection, IsInjective
  <2>8. IsFiniteSet(Ids) /\ Cardinality(Ids) = PairCount /\ PairCount \in Nat
    BY IndexOnto, CountUp DEF Ids
  <2>9. IsFiniteSet(1 .. d) /\ Cardinality(1 .. d) = d
    BY FS_Interval
  <2>10. d <= PairCount
    BY <2>7, <2>8, <2>9, FS_Injection
  <2>. QED
    BY <1>1, <2>8, <2>10
<1>. QED
  BY <1>2, <1>3

\* Where sg_witness_word can be: at a pair with a distance, or at an end.
Walkers(R) == [pair : {j \in Ids : R[j].dist # None} \cup {None}, word : Seq(Actions)]

\* The rounds of sg_witness_word.
LEMMA WordWalk ==
  ASSUME NEW obj, Guided(obj, oracle[obj]), NEW i \in Ids, oracle[obj][i].dist # None
  PROVE  \E f : /\ f[0] = [pair |-> i, word |-> <<>>]
                /\ \A n \in 1 .. PairCount : f[n] = Stepped(obj, f[n - 1])
                /\ Word(obj, i) = f[PairCount].word
<1>1. PICK R : R = oracle[obj]
  OBVIOUS
<1> DEFINE V == Walkers(R)
           x == [pair |-> i, word |-> <<>>]
           step == [z \in V \X Nat |-> Stepped(obj, z[1])]
           Is(f) == f = [n \in 0 .. PairCount |-> IF n = 0 THEN x ELSE Stepped(obj, f[n - 1])]
<1>2. PairCount \in Nat
  BY IndexOnto
<1>3. x \in V
  BY <1>1 DEF Walkers
<1>4. ASSUME NEW v \in V PROVE Stepped(obj, v) \in V
  <2>1. v.pair \in {j \in Ids : R[j].dist # None} \cup {None} /\ v.word \in Seq(Actions)
    BY DEF Walkers
  <2>2. CASE v.pair = None
    BY <2>2 DEF Stepped
  <2>3. CASE v.pair # None /\ R[v.pair].dist = 0
    BY <1>1, <2>3 DEF Stepped
  <2>4. CASE v.pair # None /\ R[v.pair].dist # 0
    <3>1. PICK j \in Ids : j = v.pair /\ R[j].dist # None /\ R[j].dist # 0
      BY <2>1, <2>4
    <3>2. LeadsOn(obj, R, j)
      BY <1>1, <3>1 DEF Guided
    <3>3. R[j].next \in {k \in Ids : R[k].dist # None} \cup {None}
      <4>1. CASE R[j].next = None
        BY <4>1
      <4>2. CASE \E k \in Ids : R[j].next = k /\ R[k].dist \in Nat
        BY <4>2 DEF None
      <4>. QED
        BY <3>2, <4>1, <4>2 DEF LeadsOn
    <3>4. Append(v.word, R[j].act) \in Seq(Actions)
      BY <2>1, <3>2 DEF LeadsOn
    <3>5. Stepped(obj, v) = [pair |-> R[j].next, word |-> Append(v.word, R[j].act)]
      BY <1>1, <2>4, <3>1 DEF Stepped
    <3>. QED
      BY <3>3, <3>4, <3>5 DEF Walkers
  <2>. QED
    BY <2>2, <2>3, <2>4
<1>5. step \in StepsOn(V)
  BY <1>4 DEF StepsOn
<1>6. PICK f \in [0 .. PairCount -> V] :
        /\ f[0] = x
        /\ \A k \in 1 .. PairCount : f[k] = step[<<f[k - 1], k>>]
  <2> HIDE DEF step, V, x
  <2>1. Along(V, x, PairCount, step) # {}
    BY <1>2, <1>3, <1>5, RecursionExists
  <2>. QED
    BY <2>1 DEF Along
<1> HIDE DEF V, x
<1>7. ASSUME NEW k \in 1 .. PairCount PROVE f[k] = Stepped(obj, f[k - 1])
  <2>1. k - 1 \in 0 .. PairCount /\ k \in Nat
    BY <1>2
  <2>2. f[k - 1] \in V
    BY <2>1
  <2>. QED
    BY <1>6, <2>1, <2>2
<1>8. Is(f)
  <2>1. \A n \in 0 .. PairCount : n = 0 \/ n \in 1 .. PairCount
    BY <1>2
  <2>2. \A n \in 0 .. PairCount : f[n] = IF n = 0 THEN x ELSE Stepped(obj, f[n - 1])
    BY <1>6, <1>7, <2>1
  <2>. QED
    BY <2>2
<1> DEFINE P == CHOOSE g : Is(g)
<1>9. Word(obj, i) = P[PairCount].word
  BY DEF Word, x
<1>10. Is(P)
  BY <1>8
<1> HIDE DEF P
<1>11. /\ P[0] = x
       /\ \A n \in 1 .. PairCount : P[n] = Stepped(obj, P[n - 1])
  <2>1. 0 \in 0 .. PairCount /\ \A n \in 1 .. PairCount : n \in 0 .. PairCount /\ n # 0
    BY <1>2
  <2>. QED
    BY <1>10, <2>1
<1>. QED
  BY <1>9, <1>11 DEF x

\* Where a word ends.
EndFrom(aut, x, w) == PlacesFrom(aut, x, w)[Len(w)]

\* One more letter.
LEMMA OneLetterMore ==
  ASSUME NEW aut \in Automata, NEW x \in States, NEW w \in Seq(Actions), NEW a \in Actions
  PROVE  /\ EndFrom(aut, x, w) \in States
         /\ EndFrom(aut, x, Append(w, a)) = aut.delta[<<EndFrom(aut, x, w), a>>]
         /\ TraceFrom(aut, x, Append(w, a))[Len(w) + 1] = aut.eta[<<EndFrom(aut, x, w), a>>]
<1>1. PICK v : v = Append(w, a)
  OBVIOUS
<1>2. /\ v \in Seq(Actions) /\ Len(v) = Len(w) + 1 /\ Len(w) \in Nat /\ v[Len(w) + 1] = a
      /\ \A n \in 1 .. Len(w) : v[n] = w[n]
      /\ DOMAIN v = 1 .. Len(v)
  BY <1>1
<1>3. PlacesFrom(aut, x, v)[Len(w)] = PlacesFrom(aut, x, w)[Len(w)]
  <2>1. Len(w) <= Len(v) /\ Len(w) \in 0 .. Len(w)
    BY <1>2
  <2>. QED
    BY <1>2, <2>1, PlacesAgree
<1>4. PlacesFrom(aut, x, w) \in [0 .. Len(w) -> States]
  BY PlacesFromSound
<1>5. EndFrom(aut, x, w) \in States
  <2>1. Len(w) \in 0 .. Len(w)
    BY <1>2
  <2>. QED
    BY <1>4, <2>1 DEF EndFrom
<1>6. PlacesFrom(aut, x, v)[Len(w) + 1] = aut.delta[<<EndFrom(aut, x, w), a>>]
  <2>1. Len(w) + 1 \in 1 .. Len(v) /\ (Len(w) + 1) - 1 = Len(w)
    BY <1>2
  <2>2. \A n \in 1 .. Len(v) :
          PlacesFrom(aut, x, v)[n] = aut.delta[<<PlacesFrom(aut, x, v)[n - 1], v[n]>>]
    BY <1>2, PlacesFromSound
  <2>3. PlacesFrom(aut, x, v)[Len(w) + 1]
          = aut.delta[<<PlacesFrom(aut, x, v)[(Len(w) + 1) - 1], v[Len(w) + 1]>>]
    BY <2>1, <2>2
  <2>. QED
    BY <1>2, <1>3, <2>1, <2>3 DEF EndFrom
<1>7. TraceFrom(aut, x, v)[Len(w) + 1] = aut.eta[<<EndFrom(aut, x, w), a>>]
  <2>1. Len(w) + 1 \in DOMAIN v /\ (Len(w) + 1) - 1 = Len(w)
    BY <1>2
  <2>2. TraceFrom(aut, x, v)[Len(w) + 1]
          = aut.eta[<<PlacesFrom(aut, x, v)[(Len(w) + 1) - 1], v[Len(w) + 1]>>]
    BY <2>1 DEF TraceFrom
  <2>. QED
    BY <1>2, <1>3, <2>1, <2>2 DEF EndFrom
<1>. QED
  BY <1>1, <1>2, <1>5, <1>6, <1>7 DEF EndFrom

\* After n rounds from states s and t at distance d: the word so far leads them to
\* the pair that is reached, or has told them apart.
Underway(obj, R, s, t, d, v, n) ==
  /\ v.word \in Seq(Actions)
  /\ \/ /\ v.pair \in Ids /\ R[v.pair].dist \in Nat
        /\ Len(v.word) + R[v.pair].dist = d
        /\ n = Len(v.word) \/ R[v.pair].dist = 0
        /\ PairOf[v.pair] = {EndFrom(Model, s, v.word), EndFrom(Model, t, v.word)}
     \/ /\ v.pair = None /\ obj = "resolution" /\ Len(v.word) = d
        /\ TraceFrom(Model, s, v.word) # TraceFrom(Model, t, v.word)

\* A step of the walk adds a letter and takes one from the distance.
LEMMA UnderwayStep ==
  ASSUME Model \in Automata, NEW obj, NEW R, R = oracle[obj], Guided(obj, R),
         NEW s \in States, NEW t \in States, NEW d \in Nat, NEW n \in Nat,
         NEW v, Underway(obj, R, s, t, d, v, n)
  PROVE  Underway(obj, R, s, t, d, Stepped(obj, v), n + 1)
<1>1. CASE v.pair = None
  <2>1. Stepped(obj, v) = v
    BY <1>1 DEF Stepped
  <2>. QED
    BY <1>1, <2>1 DEF Underway, Ids, None
<1>2. CASE v.pair # None
  <2>1. PICK j \in Ids, w \in Seq(Actions) : j = v.pair /\ w = v.word
    BY <1>2 DEF Underway
  <2>2. PICK x \in States, y \in States : x = EndFrom(Model, s, w) /\ y = EndFrom(Model, t, w)
    <3>1. 0 \in Actions
      BY GraphAssumption DEF Actions
    <3>2. EndFrom(Model, s, w) \in States /\ EndFrom(Model, t, w) \in States
      BY <3>1, OneLetterMore
    <3>. QED
      BY <3>2
  <2>3. /\ R[j].dist \in Nat /\ Len(w) + R[j].dist = d
        /\ n = Len(w) \/ R[j].dist = 0
        /\ PairOf[j] = {x, y}
    BY <1>2, <2>1, <2>2 DEF Underway
  <2>4. CASE R[j].dist = 0
    <3>1. Stepped(obj, v) = v
      BY <2>1, <2>4 DEF Stepped
    <3>. QED
      BY <2>1, <2>4, <3>1 DEF Underway
  <2>5. CASE R[j].dist # 0
    <3>1. LeadsOn(obj, R, j)
      BY <2>3, <2>5 DEF Guided, None
    <3>2. PICK a \in Actions : a = R[j].act
      BY <3>1 DEF LeadsOn
    <3>3. PICK u \in Seq(Actions) : u = Append(w, a) /\ Len(u) = Len(w) + 1 /\ Len(w) \in Nat
      <4>1. /\ Append(w, a) \in Seq(Actions)
            /\ Len(Append(w, a)) = Len(w) + 1 /\ Len(w) \in Nat
        OBVIOUS
      <4>. QED
        BY <4>1
    <3>4. PICK z : z = Stepped(obj, v)
      OBVIOUS
    <3>5. z.pair = R[j].next /\ z.word = u
      BY <1>2, <2>1, <2>5, <3>2, <3>3, <3>4 DEF Stepped
    <3>6. /\ EndFrom(Model, s, u) = Model.delta[<<x, a>>]
          /\ EndFrom(Model, t, u) = Model.delta[<<y, a>>]
          /\ TraceFrom(Model, s, u)[Len(w) + 1] = Model.eta[<<x, a>>]
          /\ TraceFrom(Model, t, u)[Len(w) + 1] = Model.eta[<<y, a>>]
      BY <2>2, <3>3, OneLetterMore
    <3>7. n = Len(w) /\ n + 1 = Len(u)
      BY <2>3, <2>5, <3>3
    <3>8. CASE Terminal(Model, obj, PairOf[j], a) /\ R[j].dist = 1 /\ R[j].next = None
      <4>1. obj = "resolution" /\ Model.eta[<<x, a>>] # Model.eta[<<y, a>>]
        BY <2>3, <3>8 DEF Terminal, OutputsDiffer
      <4>2. TraceFrom(Model, s, u) # TraceFrom(Model, t, u)
        BY <3>6, <4>1
      <4>3. Len(u) = d
        BY <2>3, <3>3, <3>8
      <4>. QED
        BY <3>3, <3>4, <3>5, <3>8, <4>1, <4>2, <4>3 DEF Underway
    <3>9. CASE \E k \in Ids : /\ R[j].next = k /\ R[k].dist \in Nat /\ R[k].dist + 1 = R[j].dist
                              /\ PairOf[k] = Target(Model, PairOf[j], a)
      <4>1. PICK k \in Ids : /\ R[j].next = k /\ R[k].dist \in Nat /\ R[k].dist + 1 = R[j].dist
                             /\ PairOf[k] = Target(Model, PairOf[j], a)
        BY <3>9
      <4>2. PairOf[k] = {Model.delta[<<x, a>>], Model.delta[<<y, a>>]}
        BY <2>3, <4>1 DEF Target
      <4>3. Len(u) + R[k].dist = d
        <5>1. PICK l \in Nat, g \in Nat : l = Len(w) /\ g = R[k].dist
          BY <3>3, <4>1
        <5>2. l + (g + 1) = d
          BY <2>3, <4>1, <5>1
        <5>3. Len(u) = l + 1
          BY <3>3, <5>1
        <5>4. l + (g + 1) = (l + 1) + g
          OBVIOUS
        <5>. QED
          BY <5>1, <5>2, <5>3, <5>4
      <4>. QED
        BY <3>3, <3>4, <3>5, <3>6, <3>7, <4>1, <4>2, <4>3 DEF Underway
    <3>. QED
      BY <3>1, <3>2, <3>8, <3>9 DEF LeadsOn
  <2>. QED
    BY <2>3, <2>4, <2>5
<1>. QED
  BY <1>1, <1>2

\* The word of a pair has the length of its distance, and merges it or resolves it.
LEMMA WordReplays ==
  ASSUME Model \in Automata, NEW obj, Guided(obj, oracle[obj]),
         NEW i \in Ids, oracle[obj][i].dist # None
  PROVE  LET w == Word(obj, i)
             s == Min(PairOf[i])
             t == Max(PairOf[i])
         IN /\ Len(w) = oracle[obj][i].dist
            /\ \/ PlacesFrom(Model, s, w)[Len(w)] = PlacesFrom(Model, t, w)[Len(w)]
               \/ obj = "resolution" /\ TraceFrom(Model, s, w) # TraceFrom(Model, t, w)
<1>1. PICK R : R = oracle[obj]
  OBVIOUS
<1>2. PICK f : /\ f[0] = [pair |-> i, word |-> <<>>]
               /\ \A n \in 1 .. PairCount : f[n] = Stepped(obj, f[n - 1])
               /\ Word(obj, i) = f[PairCount].word
  BY WordWalk
<1>3. PICK s \in States, t \in States : s = Min(PairOf[i]) /\ t = Max(PairOf[i])
                                        /\ PairOf[i] = {s, t}
  BY PairsFilled, PairEnds
<1>4. PICK d \in Nat : d = R[i].dist /\ d <= PairCount
  <2>1. Guided(obj, R) /\ R[i].dist # None
    BY <1>1
  <2>2. R[i].dist \in 0 .. PairCount
    BY <2>1, GuidedBounded
  <2>3. R[i].dist \in Nat
    BY <2>1 DEF Guided
  <2>. QED
    BY <2>2, <2>3
<1>5. PairCount \in Nat
  BY IndexOnto
<1> DEFINE S == {n \in 0 .. PairCount : Underway(obj, R, s, t, d, f[n], n)}
<1>6. 0 \in S
  <2>1. PICK e \in Seq(Actions) : e = <<>> /\ Len(e) = 0
    <3>1. <<>> \in Seq(Actions) /\ Len(<<>>) = 0
      OBVIOUS
    <3>. QED
      BY <3>1
  <2>2. EndFrom(Model, s, e) = s /\ EndFrom(Model, t, e) = t
    BY <2>1, PlacesFromSound DEF EndFrom
  <2>3. f[0].pair = i /\ f[0].word = e
    BY <1>2, <2>1
  <2>4. PairOf[i] = {EndFrom(Model, s, e), EndFrom(Model, t, e)}
    <3>1. PairOf[i] = {s, t}
      BY <1>3
    <3>. QED
      BY <2>2, <3>1
  <2>5. Underway(obj, R, s, t, d, f[0], 0)
    BY <1>4, <2>1, <2>3, <2>4 DEF Underway
  <2>. QED
    BY <1>5, <2>5
<1>7. ASSUME NEW n \in 1 .. PairCount, n - 1 \in S PROVE n \in S
  <2>1. n - 1 \in Nat /\ (n - 1) + 1 = n /\ n \in 0 .. PairCount
    BY <1>5
  <2>2. Underway(obj, R, s, t, d, f[n - 1], n - 1)
    BY <1>7
  <2>3. Underway(obj, R, s, t, d, Stepped(obj, f[n - 1]), (n - 1) + 1)
    BY <1>1, <2>1, <2>2, UnderwayStep
  <2>. QED
    BY <1>2, <2>1, <2>3
<1>8. \A n \in 0 .. PairCount : n \in S
  <2> HIDE DEF S
  <2>. QED
    BY <1>5, <1>6, <1>7, StepByStep
<1>9. PICK v : v = f[PairCount] /\ Underway(obj, R, s, t, d, v, PairCount)
  <2>1. PairCount \in 0 .. PairCount
    BY <1>5
  <2>. QED
    BY <1>8, <2>1
<1>10. PICK w \in Seq(Actions) : w = v.word /\ w = Word(obj, i)
  BY <1>2, <1>9 DEF Underway
<1>11. Len(w) \in Nat
  OBVIOUS
<1>12. CASE v.pair \in Ids
  <2>1. v.pair # None
    BY <1>12 DEF Ids, None
  <2>2. PICK j \in Ids : j = v.pair /\ R[j].dist \in Nat /\ Len(w) + R[j].dist = d
                         /\ (PairCount = Len(w) \/ R[j].dist = 0)
                         /\ PairOf[j] = {EndFrom(Model, s, w), EndFrom(Model, t, w)}
    BY <1>9, <1>10, <1>12, <2>1 DEF Underway
  <2>3. R[j].dist = 0 /\ Len(w) = d
    BY <1>4, <1>5, <1>11, <2>2
  <2>4. j \in Diagonals
    BY <1>1, <2>3 DEF Guided, None
  <2>5. EndFrom(Model, s, w) = EndFrom(Model, t, w)
    <3>1. PICK x \in States : PairOf[j] = {x}
      BY <2>4 DEF Diagonals, Diagonal
    <3>2. EndFrom(Model, s, w) \in PairOf[j] /\ EndFrom(Model, t, w) \in PairOf[j]
      BY <2>2
    <3>. QED
      BY <3>1, <3>2
  <2>. QED
    BY <1>1, <1>3, <1>4, <1>10, <2>3, <2>5 DEF EndFrom
<1>13. CASE v.pair \notin Ids
  BY <1>1, <1>3, <1>4, <1>9, <1>10, <1>13 DEF Underway
<1>. QED
  BY <1>12, <1>13

\* The least of some numbers.
LEMMA LeastIn ==
  ASSUME NEW S \in SUBSET Nat, S # {}
  PROVE  Min(S) \in S
<1>1. PICK x \in S : \A y \in S : x <= y
  BY LeastNatural
<1>2. PICK z : z = Min(S)
  OBVIOUS
<1>3. z \in S
  BY <1>1, <1>2 DEF Min
<1>. QED
  BY <1>2, <1>3

\* The records of an exact oracle are let pass as they are.
LEMMA ExactValid ==
  ASSUME Arrows, Model \in Automata, NEW obj
  PROVE  /\ \A i \in Ids : Valid(obj, Numbered(obj), i)
         /\ \A i \in Ids : Loaded(Numbered(obj)[i]) = Numbered(obj)[i]
<1> DEFINE D == ExactDistances(Model, obj)
           dist == [i \in Ids |-> D[PairOf[i]]]
<1>1. Shortest(Model, obj, D)
  BY ExactShortest
<1>2. PICK R : R = Numbered(obj)
  OBVIOUS
<1>3. R = [i \in Ids |-> Witness(obj, dist, i)]
  <2>1. \A i \in Ids : dist[i] = ExactDistances(Model, obj)[PairOf[i]]
    OBVIOUS
  <2> HIDE DEF dist
  <2>. QED
    BY <1>2, <2>1, ChosenExact
<1>4. \A i \in Ids : dist[i] = D[PairOf[i]] /\ dist[i] \in Distances /\ PairOf[i] \in Pairs
  BY <1>1, PairsFilled DEF Shortest
<1>5. dist = [i \in Ids |-> dist[i]]
  OBVIOUS
<1> HIDE DEF dist, D
<1> DEFINE attaining(i) == {e \in EdgesOf(i) : Attains(obj, dist, e)}
<1>6. ASSUME NEW i \in Ids, dist[i] \notin {0, None}
      PROVE  /\ Chosen(attaining(i)) \in attaining(i)
             /\ R[i] = [dist |-> dist[i], act |-> ActionOf(Chosen(attaining(i))),
                        next |-> IF TerminalEdge(obj, Chosen(attaining(i))) THEN None
                                 ELSE edges[Chosen(attaining(i))].next,
                        sup |-> Cardinality(attaining(i))]
  <2>1. PICK p \in Pairs : p = PairOf[i]
    BY <1>4
  <2>2. PICK a \in Actions : Approaches(Model, obj, D, p, a)
    BY <1>1, <1>4, <1>6, <2>1 DEF Shortest
  <2>3. PICK e \in EdgesOf(i) : ActionOf(e) = a
    BY EdgeParts DEF EdgesOf
  <2>4. e \in attaining(i)
    <3>1. Attains(obj, dist, e) <=> Approaches(Model, obj, D, PairOf[i], ActionOf(e))
      BY <1>4, EdgeApproaches
    <3>. QED
      BY <2>1, <2>2, <2>3, <3>1
  <2>5. attaining(i) \in SUBSET Nat
    BY EdgeParts DEF EdgesOf
  <2>6. Chosen(attaining(i)) \in attaining(i)
    BY <2>4, <2>5, LeastIn DEF Chosen
  <2>7. Witness(obj, dist, i) =
          IF dist[i] \in {None, 0} \/ attaining(i) = {} THEN Nothing(dist[i])
          ELSE [dist |-> dist[i], act |-> ActionOf(Chosen(attaining(i))),
                next |-> IF TerminalEdge(obj, Chosen(attaining(i))) THEN None
                         ELSE edges[Chosen(attaining(i))].next,
                sup |-> Cardinality(attaining(i))]
    BY DEF Witness
  <2> HIDE DEF attaining
  <2>. QED
    BY <1>3, <1>6, <2>4, <2>6, <2>7
<1>7. ASSUME NEW i \in Ids, dist[i] \in {0, None} PROVE R[i] = Nothing(dist[i])
  <2>1. Witness(obj, dist, i) = Nothing(dist[i])
    BY <1>7 DEF Witness
  <2>. QED
    BY <1>3, <2>1
<1>8. \A i \in Ids : R[i].dist = dist[i]
  <2> SUFFICES ASSUME NEW i \in Ids PROVE R[i].dist = dist[i]
    OBVIOUS
  <2>1. CASE dist[i] \in {0, None}
    <3>1. R[i] = Nothing(dist[i])
      BY <1>7, <2>1
    <3>2. Nothing(dist[i]).dist = dist[i]
      BY DEF Nothing
    <3> HIDE DEF Nothing
    <3>. QED
      BY <3>1, <3>2
  <2>2. CASE dist[i] \notin {0, None}
    <3>1. R[i] = [dist |-> dist[i], act |-> ActionOf(Chosen(attaining(i))),
                  next |-> IF TerminalEdge(obj, Chosen(attaining(i))) THEN None
                           ELSE edges[Chosen(attaining(i))].next,
                  sup |-> Cardinality(attaining(i))]
      BY <1>6, <2>2
    <3> HIDE DEF attaining
    <3>2. PICK r : r = [dist |-> dist[i], act |-> ActionOf(Chosen(attaining(i))),
                        next |-> IF TerminalEdge(obj, Chosen(attaining(i))) THEN None
                                 ELSE edges[Chosen(attaining(i))].next,
                        sup |-> Cardinality(attaining(i))]
      OBVIOUS
    <3>3. R[i] = r
      BY <3>1, <3>2
    <3>4. r.dist = dist[i]
      BY <3>2
    <3>. QED
      BY <3>3, <3>4
  <2>. QED
    BY <2>1, <2>2
<1>9. [j \in Ids |-> R[j].dist] = dist
  BY <1>5, <1>8
<1>10. ASSUME NEW i \in Ids PROVE Valid(obj, R, i) /\ Loaded(R[i]) = R[i]
  <2>1. CASE dist[i] = None
    <3>1. R[i] = Nothing(None)
      BY <1>7, <2>1
    <3>2. R[i].dist = None /\ R[i].sup = 0 /\ Loaded(R[i]) = R[i]
      BY <3>1 DEF Nothing, Loaded
    <3>3. Valid(obj, R, i)
            <=> CASE R[i].dist = None -> R[i].sup = 0
                  [] R[i].dist = 0 -> i \in Diagonals /\ R[i] = Nothing(0)
                  [] OTHER -> /\ AttainedBy(obj, dist, i, R[i])
                              /\ R[i].sup = Cardinality(attaining(i))
      BY <1>9 DEF Valid
    <3>4. R[i].dist # 0
      BY <3>2 DEF None
    <3>. QED
      BY <3>2, <3>3, <3>4
  <2>2. CASE dist[i] = 0
    <3>1. R[i] = Nothing(0) /\ R[i].dist = 0
      BY <1>7, <1>8, <2>2
    <3>2. i \in Diagonals
      BY <1>1, <1>4, <2>2 DEF Shortest, Diagonals
    <3>. QED
      BY <3>1, <3>2 DEF Valid, Loaded, None
  <2>3. CASE dist[i] \notin {0, None}
    <3>1. PICK e : e = Chosen(attaining(i))
      OBVIOUS
    <3>2. /\ e \in EdgesOf(i) /\ Attains(obj, dist, e)
          /\ R[i] = [dist |-> dist[i], act |-> ActionOf(e),
                     next |-> IF TerminalEdge(obj, e) THEN None ELSE edges[e].next,
                     sup |-> Cardinality(attaining(i))]
      BY <1>6, <2>3, <3>1
    <3>3. /\ R[i].act = ActionOf(e)
          /\ R[i].next = IF TerminalEdge(obj, e) THEN None ELSE edges[e].next
          /\ R[i].sup = Cardinality(attaining(i)) /\ R[i].dist = dist[i]
      BY <3>2
    <3>4. AttainedBy(obj, dist, i, R[i])
      BY <3>2, <3>3 DEF AttainedBy
    <3>5. Valid(obj, R, i)
      <4>1. Valid(obj, R, i)
              <=> CASE R[i].dist = None -> R[i].sup = 0
                    [] R[i].dist = 0 -> i \in Diagonals /\ R[i] = Nothing(0)
                    [] OTHER -> /\ AttainedBy(obj, dist, i, R[i])
                                /\ R[i].sup = Cardinality(attaining(i))
        BY <1>9 DEF Valid
      <4>. QED
        BY <2>3, <3>3, <3>4, <4>1
    <3>. QED
      BY <2>3, <3>3, <3>5 DEF Loaded
  <2>. QED
    BY <2>1, <2>2, <2>3
<1>. QED
  BY <1>2, <1>10

\* sg_pair_oracle_restore can be trusted with any rows: the words of an oracle that
\* it lets pass do what they promise, and the rows of an exact oracle pass and
\* give back that oracle.
THEOREM RestoreAlwaysSound == OracleSpec => []RestoreSound
<1>1. ASSUME OracleInvariant PROVE RestoreSound
  <2>1. Model \in Automata
    BY <1>1, CallFits
  <2>2. RestoredReplay
    <3> SUFFICES ASSUME result = "OK", Restoring, NEW obj \in Objectives,
                        NEW i \in Ids, oracle[obj][i].dist # None
                 PROVE  LET w == Word(obj, i)
                            s == Min(PairOf[i])
                            t == Max(PairOf[i])
                        IN /\ Len(w) = oracle[obj][i].dist
                           /\ \/ PlacesFrom(Model, s, w)[Len(w)] = PlacesFrom(Model, t, w)[Len(w)]
                              \/ obj = "resolution" /\ TraceFrom(Model, s, w) # TraceFrom(Model, t, w)
      BY DEF RestoredReplay
    <3>1. at = "done" /\ Arrows /\ oracle[obj] \in [Ids -> Fields]
      BY <1>1 DEF OracleInvariant, Stages, OracleTypeOK
    <3>2. \A j \in Ids : Valid(obj, oracle[obj], j)
      <4> DEFINE recs == [o \in Objectives |-> [j \in Ids |-> Loaded(Row(j)[o])]]
      <4>1. IF Complete(call.stored) /\ \A o \in Objectives, j \in Ids : Valid(o, recs[o], j)
            THEN result = "OK" /\ oracle = recs
            ELSE result = "INVALID_MODEL"
        BY <1>1, <3>1 DEF OracleInvariant, Restored
      <4> HIDE DEF recs
      <4>. QED
        BY <4>1
    <3>3. Guided(obj, oracle[obj])
      BY <2>1, <3>1, <3>2, ValidGuides
    <3>. QED
      BY <2>1, <3>3, WordReplays
  <2>3. ExactRestorable
    <3> DEFINE exact == [obj \in Objectives |-> Numbered(obj)]
               recs == [obj \in Objectives |-> [i \in Ids |-> Loaded(Row(i)[obj])]]
    <3> SUFFICES ASSUME at = "done", Restoring, Complete(call.stored),
                        \A i \in Ids, obj \in Objectives : Row(i)[obj] = exact[obj][i]
                 PROVE  result = "OK" /\ oracle = exact
      BY DEF ExactRestorable
    <3>1. Arrows
      BY <1>1 DEF OracleInvariant, Stages
    <3>2. IF Complete(call.stored) /\ \A obj \in Objectives, i \in Ids : Valid(obj, recs[obj], i)
          THEN result = "OK" /\ oracle = recs
          ELSE result = "INVALID_MODEL"
      BY <1>1 DEF OracleInvariant, Restored
    <3>3. ASSUME NEW obj \in Objectives PROVE recs[obj] = Numbered(obj)
      <4>1. \A i \in Ids : Row(i)[obj] = Numbered(obj)[i]
        OBVIOUS
      <4>2. \A i \in Ids : Loaded(Row(i)[obj]) = Numbered(obj)[i]
        BY <2>1, <3>1, <4>1, ExactValid
      <4>3. Numbered(obj) \in [Ids -> Fields]
        BY <2>1, NumberedFits
      <4>. QED
        BY <4>2, <4>3
    <3>4. recs = exact
      BY <3>3
    <3>5. \A obj \in Objectives, i \in Ids : Valid(obj, recs[obj], i)
      <4> HIDE DEF recs
      <4>. QED
        BY <2>1, <3>1, <3>3, ExactValid
    <3> HIDE DEF recs, exact
    <3>. QED
      BY <3>2, <3>4, <3>5
  <2>. QED
    BY <2>2, <2>3 DEF RestoreSound
<1>. QED
  BY <1>1, OracleAlways, PTL
=============================================================================
