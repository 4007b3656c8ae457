------------------------------ MODULE MCOracle ------------------------------
(* PairOracle over automata with four states, two actions and two outputs, *)
(* and over tables that differ from the exact one in some of their rows.   *)
EXTENDS PairOracle

Firsts == {f \in [States -> States] : f[3] = 0 /\ f[2] # 1}
Seconds == {<<1, 2, 3, 0>>, <<0, 0, 1, 2>>}
Seen == {{}, {0}, {0, 3}}

FourAutomata ==
  {[delta |-> [c \in Cells |-> IF c[2] = 0 THEN f[c[1]] ELSE g[c[1] + 1]],
    eta |-> [c \in Cells |-> IF c[2] = 0 /\ c[1] \in seen THEN 1 ELSE 0]] :
     f \in Firsts, g \in Seconds, seen \in Seen}

Build == {[aut |-> a, stored |-> NoTable] : a \in FourAutomata}

Numbers(r) == [r EXCEPT !.next = IF @ = NoPair THEN None ELSE Index(@)]

\* The exact rows, the last pair first.
Exact(a) ==
  [k \in 1 .. PairCount |->
     [pair |-> PairCount - k,
      merge |-> Numbers(ExactRecords(a, "merge")[PairOf[PairCount - k]]),
      resolution |-> Numbers(ExactRecords(a, "resolution")[PairOf[PairCount - k]])]]

\* One pair forgotten, with or without its support; or every distance one more
\* than it is but for the diagonal; or a witness of its own; a pair twice.
Forgotten(f) == [f EXCEPT !.dist = None]
Erased(f) == [f EXCEPT !.dist = None, !.sup = 0]
Farther(f) == [f EXCEPT !.dist = @ + 1]
Other(f) == [f EXCEPT !.act = 1, !.sup = 1]

Changed(rows, k) ==
  UNION {{[rows EXCEPT ![k].merge = Forgotten(@)], [rows EXCEPT ![k].resolution = Erased(@)],
          [rows EXCEPT ![k].merge = Farther(@)], [rows EXCEPT ![k].resolution = Farther(@)],
          [rows EXCEPT ![k].merge = Erased(@), ![5].merge = Erased(@)],
          [rows EXCEPT ![k].resolution = Other(@)], [rows EXCEPT ![k].merge = Other(@)],
          [rows EXCEPT ![k] = rows[1]]}}

Tables(a) ==
  {Exact(a), Tail(Exact(a))} \cup UNION {Changed(Exact(a), k) : k \in {2, 4, 6, 9}}

FourCalls ==
  Build \cup UNION {{[aut |-> a, stored |-> t] : t \in Tables(a)} :
                      a \in {b \in FourAutomata : b.delta[<<0, 0>>] \in {0, 2}}}
=============================================================================
