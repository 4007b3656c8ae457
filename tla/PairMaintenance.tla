-------------------------- MODULE PairMaintenance --------------------------
(***************************************************************************)
(* What maintenance of the pair records promises its readers (HACKING.md,  *)
(* Correctness Invariants): the published records are, at every moment,    *)
(* the exact oracle of the published automaton; an update replaces both in *)
(* one step and at most MaxBatch cells differ afterwards.                  *)
(***************************************************************************)
EXTENDS PairGraph

CONSTANTS InitAutomata, MaxBatch

VARIABLES automaton, records

ChangedCells(old, new) ==
  {c \in Cells : <<old.delta[c], old.eta[c]>> # <<new.delta[c], new.eta[c]>>}

Init == automaton \in InitAutomata /\ records = ExactOracle(automaton)

Update ==
  /\ automaton' \in Automata
  /\ Cardinality(ChangedCells(automaton, automaton')) \in 1 .. MaxBatch
  /\ records' = ExactOracle(automaton')

Spec == Init /\ [][Update]_<<automaton, records>>
=============================================================================
