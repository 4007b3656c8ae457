---------------------------- MODULE MCLifecycle ----------------------------
(* ModelLifecycle with two sessions. *)
EXTENDS ModelLifecycle, TLC

\* Prepared for incremental maintenance with materialized relationships, or
\* compact and without it.
TwoOptions == {<<TRUE, TRUE>>, <<FALSE, FALSE>>}

\* Sessions are alike, and so are the contents of cells.
Alike == Permutations(Clients) \cup Permutations(Values)
=============================================================================
