--------------------------- MODULE MCRepairThree ---------------------------
(* PairRepair over every automaton with three states and two actions. *)
EXTENDS PairRepair, TLC

CONSTANTS s1, s2, s3

Transitions(f, g) ==
  [c \in Cells |-> IF c[2] = 0 THEN f[c[1]] ELSE g[c[1]]]

\* The observations tell no states apart, or s1 from the others by action 0.
NoneObserved == [c \in Cells |-> 0]
OneObserved == [c \in Cells |-> IF c = <<s1, 0>> THEN 1 ELSE 0]

AllAutomata ==
  {[delta |-> Transitions(f, g), eta |-> e] :
     f, g \in [States -> States], e \in {NoneObserved, OneObserved}}
=============================================================================
