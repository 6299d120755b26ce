------------------------------ MODULE MCQueue ------------------------------
(* Model values for the run of JobQueue. *)
EXTENDS JobQueue
CONSTANTS c1, c2, j1, j2, j3
=============================================================================
