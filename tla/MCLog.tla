-------------------------------- MODULE MCLog -------------------------------
(* TLC instances of Log. *)
EXTENDS Log

MCItems == Writers \X (1 .. MaxLines)
=============================================================================
