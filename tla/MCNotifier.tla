----------------------------- MODULE MCNotifier -----------------------------
(* Model-checking instance of Notifier: users are symmetric.  All sessions   *)
(* are alike, and what one of them is told is followed.                     *)
EXTENDS Notifier

Symmetry == Permutations(Users)

=============================================================================
