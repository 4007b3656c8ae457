------------------------------ MODULE MCMonitor ------------------------------
(* PlanMonitor over automata with three states, two actions and two outputs. *)
(* The first action merges two states, the second turns the states round;    *)
(* the automata differ in what one of them shows or where it leads, so that  *)
(* the same report is right on one of them and wrong on the other.           *)
EXTENDS PlanMonitor

Of(f, seen) ==
  [delta |-> [c \in Cells |-> f[c[2] + 1][c[1] + 1]],
   eta |-> [c \in Cells |-> IF c \in seen THEN 1 ELSE 0]]

ThreeModels ==
  {Of(<<<<0, 0, 2>>, <<1, 2, 0>>>>, {<<1, 0>>}),
   Of(<<<<0, 2, 2>>, <<1, 2, 0>>>>, {<<1, 0>>, <<2, 1>>})}

ThreeWords == {<<0, 1>>, <<1, 0>>}
=============================================================================
