----------------------------- MODULE MCPartition -----------------------------
(* DisambiguationSearch over automata with four states, two actions and two  *)
(* outputs: every first action that fixes the last state or moves it to the  *)
(* first and observes nothing or one state, and a second one that turns the  *)
(* states round or exchanges two of them.                                    *)
EXTENDS DisambiguationSearch

Firsts == {<<f, seen>> : f \in {g \in [States -> States] : g[3] \in {0, 3}},
                         seen \in {{}, {0}}}
Seconds == {<<<<1, 2, 3, 0>>, {}>>, <<<<1, 0, 2, 3>>, {2}>>}

Shown(seen, x) == IF x \in seen THEN 1 ELSE 0

FourAutomata ==
  {[delta |-> [c \in Cells |-> IF c[2] = 0 THEN f[1][c[1]] ELSE g[1][c[1] + 1]],
    eta |-> [c \in Cells |-> Shown(IF c[2] = 0 THEN f[2] ELSE g[2], c[1])]] :
     f \in Firsts, g \in Seconds}

\* The records of a, or with one pair forgotten, or one too far away.
Tables(a) ==
  LET exact == ExactRecords(a, "resolution")
  IN {exact, [exact EXCEPT ![{0, 1}] = Unreached], [exact EXCEPT ![{0, 2}].dist = @ + 1]}

\* Both actions, or one of them twice.
LetterLists == {<<0, 1>>, <<1, 1>>}

FourQueries ==
  {[aut |-> t[1], records |-> t[2], initial |-> s[1], bound |-> s[2],
    letters |-> l, budget |-> b] :
     t \in UNION {{a} \X Tables(a) : a \in FourAutomata},
     s \in {<<States, 1>>, <<States, 3>>, <<{0, 1, 3}, 1>>, <<{0, 2}, 2>>, <<{0, 2}, 1>>, <<{0}, 2>>},
     l \in LetterLists, b \in {1, 2, 20}}
=============================================================================
