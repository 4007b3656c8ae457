------------------------------ MODULE MCSearch ------------------------------
(* SupportSearch over every automaton with three states and two actions. *)
EXTENDS SupportSearch

ThreeAutomata ==
  {[delta |-> [c \in Cells |-> IF c[2] = 0 THEN f[c[1]] ELSE g[c[1]]],
    eta |-> [c \in Cells |-> 0]] : f, g \in [States -> States]}

Everything == [i \in 1 .. ActionCount |-> i - 1]

\* The records of a, or with one pair forgotten, or one too far away.
Forgetting(a, p) == [ExactRecords(a, "merge") EXCEPT ![p] = Unreached]
Distant(a, p) == [ExactRecords(a, "merge") EXCEPT ![p].dist = @ + 1]

Tables(a) ==
  {ExactRecords(a, "merge"), Forgetting(a, {0, 1}), Forgetting(a, {1, 2}),
   Distant(a, {0, 2})}

RecordQueries ==
  {[kind |-> "records", aut |-> t[1], records |-> t[2], initial |-> s,
    goals |-> States, letters |-> Everything, budget |-> b] :
     t \in UNION {{a} \X Tables(a) : a \in ThreeAutomata},
     s \in {{0, 1, 2}, {0, 1}, {2}}, b \in {1, 2, 9}}

\* Some actions, in both orders, or one of them twice.
LetterLists == {<<0>>, <<1, 0>>, <<1, 1>>}

OtherQueries ==
  {[kind |-> k, aut |-> t[1], records |-> t[2], initial |-> s, goals |-> g,
    letters |-> l, budget |-> b] :
     t \in {<<a, ExactRecords(a, "merge")>> : a \in ThreeAutomata},
     k \in {"allowed", "goal"}, s \in {{0, 1, 2}, {0, 1}},
     g \in {{0}, {1, 2}}, l \in LetterLists, b \in {2, 9}}

ThreeQueries == RecordQueries \cup OtherQueries
=============================================================================
