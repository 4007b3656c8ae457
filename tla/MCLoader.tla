------------------------------ MODULE MCLoader ------------------------------
(* AutomatonLoader on graphs of three states, whose rows may come in another *)
(* order, twice, with another value, with an unknown key, or not at all.     *)
EXTENDS AutomatonLoader

States == {"p", "q", "r"}
KeyLists == [states : {<<"p", "q", "r">>, <<"r", "p", "q">>}, actions : {<<"a">>},
             outputs : {<<"x", "y">>, <<"y", "x">>}]

InRows(f) == <<<<"p", "a", f["p"]>>, <<"q", "a", f["q"]>>, <<"r", "a", f["r"]>>>>

Moves == {f \in [States -> States] : f["p"] # "p"}
Shows == {[s \in States |-> "x"], [s \in States |-> IF s = "q" THEN "y" ELSE "x"]}

Sound ==
  {[states |-> k.states, actions |-> k.actions, outputs |-> k.outputs,
    transitions |-> InRows(f), observations |-> InRows(g)] :
     k \in KeyLists, f \in Moves, g \in Shows}

\* One row more, less, or in another place.
Repeated(rows, n) == Append(rows, rows[n])
Contrary(rows, n, value) == Append(rows, [rows[n] EXCEPT ![3] = value])
Without(rows, n) == RemoveAt(rows, n)

Broken(g) ==
  UNION {{[g EXCEPT !.transitions = Repeated(@, n)], [g EXCEPT !.observations = Repeated(@, n)],
          [g EXCEPT !.transitions = Contrary(@, n, "p")],
          [g EXCEPT !.observations = Contrary(@, n, "y")],
          [g EXCEPT !.transitions = Without(@, n)], [g EXCEPT !.observations = Without(@, n)],
          [g EXCEPT !.transitions[n][3] = "unknown"], [g EXCEPT !.transitions[n][1] = "unknown"],
          [g EXCEPT !.observations[n][2] = Empty], [g EXCEPT !.transitions[n][1] = NotString],
          [g EXCEPT !.transitions = Without(Contrary(@, n, "q"), n)],
          [g EXCEPT !.states = Append(@, "s")], [g EXCEPT !.states = Append(@, "p")],
          [g EXCEPT !.outputs = Append(@, Empty)], [g EXCEPT !.actions = <<NotString>>],
          [g EXCEPT !.actions = <<>>], [g EXCEPT !.outputs = <<>>]} : n \in 1 .. 3}

SomeGraphs == Sound \cup UNION {Broken(g) : g \in Sound}
=============================================================================
