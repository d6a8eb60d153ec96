----------------------------- MODULE MCPiEstimator -----------------------------
(* Two threads with a few points each for TLC.                                 *)
EXTENDS PiEstimator
=============================================================================
