----------------------------- MODULE MCSqlPool -----------------------------
(* TLC instance of SqlPool: the worker threads are interchangeable. *)
EXTENDS SqlPool, TLC

Symmetry == Permutations(Threads)
=============================================================================
