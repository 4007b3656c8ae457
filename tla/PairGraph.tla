----------------------------- MODULE PairGraph -----------------------------
(***************************************************************************)
(* The data that every other module shares: a deterministic automaton with *)
(* one transition and one observation per state/action cell, the graph of  *)
(* its unordered state pairs, the derived record of a pair, and the exact  *)
(* oracle that sg_pair_oracle_build computes over that graph.              *)
(*                                                                         *)
(* A pair is the set {s, t}; sg_pair_index is a numbering of these sets    *)
(* (module PairOracle) and nothing here depends on the numbers.             *)
(***************************************************************************)
EXTENDS Integers, FiniteSets

CONSTANTS
  States,       \* state_keys of the model
  ActionCount,  \* number of action_keys; actions are compared by index
  Outputs       \* output_keys of the model

ASSUME GraphAssumption ==
  /\ States # {} /\ IsFiniteSet(States)
  /\ ActionCount \in Nat \ {0}
  /\ Outputs # {}

None == -1      \* SG_INDEX_NONE, which is (size_t)-1
NoPair == {}    \* SG_INDEX_NONE where a pair is expected

Actions == 0 .. (ActionCount - 1)
Cells == States \X Actions
Automata == [delta : [Cells -> States], eta : [Cells -> Outputs]]

Pairs == {{s, t} : s, t \in States}
Diagonal == {{s} : s \in States}
Objectives == {"merge", "resolution"}

Distances == Nat \cup {None}

\* None is SIZE_MAX, so it compares above every distance.
Closer(d, e) == d # None /\ (e = None \/ d < e)

Target(aut, p, a) == {aut.delta[<<s, a>>] : s \in p}
OutputsDiffer(aut, p, a) ==
  \E s, t \in p : aut.eta[<<s, a>>] # aut.eta[<<t, a>>]

\* An arc that resolves its pair at once: the two observations differ.
Terminal(aut, obj, p, a) == obj = "resolution" /\ OutputsDiffer(aut, p, a)

Predecessors(aut, targets) ==
  {p \in Pairs : \E a \in Actions : Target(aut, p, a) \in targets}

\* The fields sg_pair_record keeps for one objective; the flag mergeable or
\* resolvable is dist # None.
Records == [dist : Distances, act : Actions \cup {None},
            next : Pairs \cup {NoPair}, sup : Nat]

Unreached == [dist |-> None, act |-> None, next |-> NoPair, sup |-> 0]
Root == [dist |-> 0, act |-> None, next |-> NoPair, sup |-> 0]

-----------------------------------------------------------------------------
(* The exact oracle. *)

\* Backward search from the diagonal.  A step adds the unreached sources of an
\* arc into what was reached before, at distance k; terminal arcs leave from
\* layer 1.  The result is the set of <<pair, distance>> that were reached.
Sources(aut, obj, near) ==
  {p \in Pairs \ near : \E a \in Actions :
     Terminal(aut, obj, p, a) \/ Target(aut, p, a) \in near}

Grow(aut, obj, inner, k) ==
  inner \cup (Sources(aut, obj, {e[1] : e \in inner}) \X {k})

Reached(aut, obj) ==
  LET layers[k \in 0 .. Cardinality(Pairs)] ==
        IF k = 0 THEN {<<p, 0>> : p \in Diagonal}
        ELSE UNION {Grow(aut, obj, inner, k) :
                      inner \in {layers[k - 1]}}  \* binds the layer once
  IN layers[Cardinality(Pairs)]

ExactDistances(aut, obj) ==
  LET reached == Reached(aut, obj)
  IN [p \in Pairs |-> IF \E e \in reached : e[1] = p
                      THEN (CHOOSE e \in reached : e[1] = p)[2]
                      ELSE None]

\* sg_choose_witnesses: the least action index that attains the distance, and
\* how many actions attain it.
ExactRecords(aut, obj) ==
  LET dist == ExactDistances(aut, obj)
      Immediate(p, a) == dist[p] = 1 /\ Terminal(aut, obj, p, a)
      ViaNext(p, a) ==
        LET next == Target(aut, p, a)
        IN /\ ~Terminal(aut, obj, p, a)
           /\ dist[next] # None
           /\ dist[next] + 1 = dist[p]
      Supports(p) == {a \in Actions : Immediate(p, a) \/ ViaNext(p, a)}
      First(S) == CHOOSE a \in S : \A b \in S : a <= b
      Witness(p) ==
        LET act == First(Supports(p))
        IN [dist |-> dist[p], act |-> act,
            next |-> IF Immediate(p, act) THEN NoPair ELSE Target(aut, p, act),
            sup |-> Cardinality(Supports(p))]
  IN [p \in Pairs |-> IF p \in Diagonal THEN Root
                      ELSE IF dist[p] = None THEN Unreached
                      ELSE Witness(p)]

\* sg_pair_oracle_build, both objectives.
ExactOracle(aut) == [obj \in Objectives |-> ExactRecords(aut, obj)]
=============================================================================
