----------------------------- MODULE MCCharDevice -----------------------------
(* A small driver with few processes for TLC.                                  *)
EXTENDS CharDevice, TLC

\* The processes are interchangeable.
MCSymmetry == Permutations(Procs)
=============================================================================
