----------------------------- MODULE MCTSOBakery -----------------------------
(* Small bakeries on two processors for TLC.                                   *)
EXTENDS TSOBakery

\* Everyone comes back for a second ticket.
MCIterations == [t \in Threads |-> 2]
=============================================================================
