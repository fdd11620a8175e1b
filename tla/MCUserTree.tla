----------------------------- MODULE MCUserTree -----------------------------
(* TLC instances of UserTree: the sessions, and the passwords, are          *)
(* interchangeable.                                                         *)
EXTENDS UserTree, TLC

Symmetry == Permutations(Sessions) \cup Permutations(Passwords)
=============================================================================
