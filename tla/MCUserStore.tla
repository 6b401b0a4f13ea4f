---------------------------- MODULE MCUserStore -----------------------------
(* Model-checking instance of UserStore: three ranks, half points.           *)
EXTENDS UserStore, TLC

RankThresholds == <<0, 2, 4>>

Symmetry == Permutations(Names)

=============================================================================
