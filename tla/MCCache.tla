------------------------------ MODULE MCCache ------------------------------
(* Keys that differ in one part each, and snapshots of several sizes. *)
EXTENDS SnapshotCache, TLC

CONSTANTS s1, s2, s3, s4, s5

ThreeKeys == {<<"m", 1, 1, "t">>, <<"m", 1, 1, "u">>, <<"n", 1, 1, "t">>}

\* Three fit together, one alone, and one does not fit.
Sizes == s1 :> 1 @@ s2 :> 1 @@ s3 :> 1 @@ s4 :> 3 @@ s5 :> 4

\* Clients, addresses of entries and snapshots of one size are alike.
Symmetry ==
  Permutations(Clients) \cup Permutations(Entries) \cup Permutations({s1, s2, s3})
=============================================================================
