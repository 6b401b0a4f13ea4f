------------------------------ MODULE MCHandler -----------------------------
(* Model-checking instance of Handler: users and sessions are symmetric.    *)
EXTENDS Handler

Symmetry == Permutations(Users) \cup Permutations(Sessions)

=============================================================================
