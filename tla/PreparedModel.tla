--------------------------- MODULE PreparedModel ---------------------------
(***************************************************************************)
(* What the query module promises to the callers of its planners and       *)
(* monitors (README, model lifecycle): the generation that an answer names *)
(* names one automaton, and it is later than that of every automaton the   *)
(* model had before.                                                       *)
(*                                                                         *)
(* A version is the automaton of a model (its cells) under a generation.   *)
(* Loading the model anew starts a new lineage of generations.             *)
(***************************************************************************)
EXTENDS Naturals

CONSTANTS Cells, Values

VARIABLES
  version,  \* the committed version of the model
  named     \* every version that was committed or that an answer was for

vars == <<version, named>>

Versions == [load : Nat, gen : Nat, base : [Cells -> Values]]

Unambiguous(V) ==
  \A v, w \in V : v.load = w.load /\ v.gen = w.gen => v = w

Follows(new, old) ==
  \/ new = old
  \/ new.load = old.load /\ new.gen > old.gen
  \/ new.load > old.load

Init == version \in Versions /\ named = {version}

\* A transaction commits: it may replace the version and give answers.
Commit ==
  /\ version' \in Versions /\ Follows(version', version)
  /\ named \cup {version'} \subseteq named' /\ named' \subseteq Versions
  /\ Unambiguous(named')

Spec == Init /\ [][Commit]_vars
=============================================================================
