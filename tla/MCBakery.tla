------------------------------- MODULE MCBakery -------------------------------
(* A small bakery for TLC.                                                     *)
EXTENDS Bakery

\* Everyone comes back, the last thread twice.
MCIterations == [t \in Threads |-> IF t = numThreads - 1 THEN 3 ELSE 2]
=============================================================================
