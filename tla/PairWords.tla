------------------------------ MODULE PairWords ------------------------------
(***************************************************************************)
(* What the planners and the monitors of planner.c share: what actions do  *)
(* to a set of possible states, with and without their observations, and   *)
(* the word that a table of pair records holds for a pair.                 *)
(***************************************************************************)
EXTENDS PairGraph, Sequences

\* Supports: sets of states that are possible.
Supports == SUBSET States

-----------------------------------------------------------------------------
(* Sets of states under actions. *)

\* sg_apply_action_set
Moved(aut, s, a) == {aut.delta[<<x, a>>] : x \in s}

\* Mutant of Observed: the observation is made on the state that is entered.
ObservedAfter(aut, s, a, o) ==
  {y \in Moved(aut, s, a) : aut.eta[<<y, a>>] = o}

\* sg_apply_observed_action_set: an observation is made on the state that is
\* left, not on the one that is entered.
Observed(aut, s, a, o) == Moved(aut, {x \in s : aut.eta[<<x, a>>] = o}, a)

\* The outputs that a may show: sg_monitor_expected_outputs, and the groups that
\* sg_trace_partition_apply_action uses.
Showing(aut, s, a) == {aut.eta[<<x, a>>] : x \in s}

\* sg_trace_partition_apply_action: each branch splits by what is observed.
Split(aut, branches, a) ==
  {[trace |-> Append(b[1].trace, b[2]),
    support |-> Observed(aut, b[1].support, a, b[2])] :
     b \in UNION {{c} \X Showing(aut, c.support, a) : c \in branches}}

\* sg_trace_partition_apply_word: the traces of a word and what each leaves.
BranchesOf(aut, s, w) ==
  LET after[n \in 0 .. Len(w)] ==
        IF n = 0 THEN {[trace |-> <<>>, support |-> s]}
        ELSE Split(aut, after[n - 1], w[n])
  IN after[Len(w)]

\* The run of the automaton from one state: the states it is in, from the
\* first on, and what it shows.
PlacesFrom(aut, x, w) ==
  LET after[n \in 0 .. Len(w)] ==
        IF n = 0 THEN x ELSE aut.delta[<<after[n - 1], w[n]>>]
  IN after

TraceFrom(aut, x, w) ==
  [n \in DOMAIN w |-> aut.eta[<<PlacesFrom(aut, x, w)[n - 1], w[n]>>]]

\* Where runs from s can be that show the outputs, by the runs alone.
Agreeing(aut, s, w, outputs) ==
  {PlacesFrom(aut, x, w)[Len(w)] : x \in {y \in s : TraceFrom(aut, y, w) = outputs}}

\* Where n steps lead from x.
Onward(next, x, n) ==
  LET after[k \in 0 .. n] == IF k = 0 THEN x ELSE next[after[k - 1]]
  IN after[n]

-----------------------------------------------------------------------------
(* The words in a table of records: sg_pair_words_load. *)

\* n steps along the witnesses, which may lead nowhere.
Walked(recs, p, n) ==
  Onward([q \in Pairs \cup {NoPair} |->
            IF q = NoPair THEN NoPair ELSE recs[q].next], p, n)

\* A witness leads to the pair the automaton says, or ends in an observation.
Sound(aut, obj, q, r) ==
  /\ r.act # None /\ r.sup # 0
  /\ IF Terminal(aut, obj, q, r.act) THEN r.dist = 1 /\ r.next = NoPair
     ELSE r.next = Target(aut, q, r.act)

\* Records that lead out of the automaton or whose distances do not count down
\* to the end are refused, as far as the walk reads them.
WellFormed(aut, obj, recs, p) ==
  LET dist == recs[p].dist
      end == Walked(recs, p, dist)
  IN IF dist = None THEN recs[p] = Unreached
     ELSE /\ dist <= Cardinality(Pairs)
          /\ \A n \in 0 .. dist - 1 :
               LET q == Walked(recs, p, n)
               IN q # NoPair /\ recs[q].dist = dist - n /\ Sound(aut, obj, q, recs[q])
          /\ end # NoPair => end \in Diagonal /\ recs[end] = Root

Missing == [state |-> "missing", word |-> <<>>]
Malformed == [state |-> "malformed", word |-> <<>>]
Found(w) == [state |-> "found", word |-> w]

PairWord(aut, obj, recs, p) ==
  IF ~WellFormed(aut, obj, recs, p) THEN Malformed
  ELSE IF recs[p].dist = None THEN Missing
  ELSE Found([n \in 1 .. recs[p].dist |-> recs[Walked(recs, p, n - 1)].act])
=============================================================================
