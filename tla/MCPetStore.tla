------------------------------ MODULE MCPetStore ------------------------------
(* Small pet stores for TLC.                                                   *)
EXTENDS PetStore

\* A positive and a negative word that a dead stack may hold.
MCStaleInts == {-1, 3}
=============================================================================
