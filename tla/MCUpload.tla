------------------------------ MODULE MCUpload ------------------------------
(* TLC instances of Upload: the clients are interchangeable, the task       *)
(* objects too; neither holds for the runs of liveness properties.          *)
EXTENDS Upload, TLC

Symmetry == Permutations(Clients) \cup Permutations(Objects)
=============================================================================
