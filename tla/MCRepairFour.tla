---------------------------- MODULE MCRepairFour ----------------------------
(* PairRepair over automata with four states and two actions. *)
EXTENDS PairRepair, TLC

CONSTANTS s1, s2, s3, s4

Transitions(f, g) ==
  [c \in Cells |-> IF c[2] = 0 THEN f[c[1]] ELSE g[c[1]]]

\* Action 0 tells s1 from the others.
OneObserved == [c \in Cells |-> IF c = <<s1, 0>> THEN 1 ELSE 0]

\* A rebuild on request, the automatic budget, and one that often runs out.
SomeBudgets == {-1, 0, 6}

\* A pair can come closer through a pair that the same update cuts off.
Detour ==
  {[delta |-> Transitions((s1 :> s3) @@ (s2 :> s1) @@ (s3 :> s1) @@ (s4 :> s1),
                          (s1 :> s4) @@ (s2 :> s1) @@ (s3 :> s2) @@ (s4 :> s1)),
    eta |-> OneObserved]}
=============================================================================
