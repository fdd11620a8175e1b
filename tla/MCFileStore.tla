---------------------------- MODULE MCFileStore ----------------------------
(* TLC instances of FileStore: the clients are interchangeable, the jobs    *)
(* and the task objects too; no run here checks a liveness property.        *)
EXTENDS FileStore, TLC

Symmetry == Permutations(Clients) \cup Permutations(Jobs) \cup Permutations(Objects)
=============================================================================
