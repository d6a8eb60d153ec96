-------------------------------- MODULE Powers --------------------------------
(* What a digit counts at its place, for the functions of assignment1/assign1.c *)
(* that take a value apart by masks and shifts.  Integers has ^ for it, whose   *)
(* definition the prover does not know.                                         *)
EXTENDS Integers

\* b to the power of k: a shift by k digits of base b multiplies by it.
Power(b, k) ==
    LET product[m \in 0 .. k] == IF m = 0 THEN 1 ELSE b * product[m - 1]
    IN  product[k]
=============================================================================
