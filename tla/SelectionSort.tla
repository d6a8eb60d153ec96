----------------------------- MODULE SelectionSort -----------------------------
(* assignment1/assign1.c, byte_sort and nibble_sort: the digits of an unsigned *)
(* long are sorted, the smallest at the lowest place.  The two functions are   *)
(* the same but for the number of digits (8, 16) and the base (256, 16).       *)
(* tests/byte_sort.c and tests/nibble_sort.c check them with is_sorted.        *)
EXTENDS Integers, FiniteSets, Powers

CONSTANTS Places,   \* how many digits an unsigned long has
          Base      \* how many values a digit has

Assumptions == Places \in Nat \ {0} /\ Base \in Nat \ {0}

Indices == 0 .. Places - 1
DigitValues == 0 .. Base - 1
ULong == 0 .. Power(Base, Places) - 1    \* the values of the type

VARIABLES
    arg, digits, i, j, min, result, \* the function's variables
    pc                              \* where it is

vars == <<arg, digits, i, j, min, result, pc>>

Init ==
    /\ arg \in ULong
    /\ digits = [k \in Indices |-> 0]
    /\ i = 0
    /\ j = 0
    /\ min = 0
    /\ result = 0
    /\ pc = "split"

-----------------------------------------------------------------------------
(* Digits of a value, by mask and shift.                                     *)

DigitOf(v, k) == (v \div Power(Base, k)) % Base

\* The digits are shifted to their places and put together, the lowest first.
Joined(d) ==
    LET lower[m \in 0 .. Places] ==
            IF m = 0 THEN 0 ELSE lower[m - 1] + d[m - 1] * Power(Base, m - 1)
    IN  lower[Places]

-----------------------------------------------------------------------------
(* The function.                                                             *)

Split ==
    /\ pc = "split"
    /\ digits' = [k \in Indices |-> DigitOf(arg, k)]
    /\ pc' = "outer"
    /\ UNCHANGED <<arg, i, j, min, result>>

\* The head of the outer loop.
Outer ==
    /\ pc = "outer"
    /\ i < Places
    /\ min' = i
    /\ j' = i + 1
    /\ pc' = "inner"
    /\ UNCHANGED <<arg, digits, i, result>>

\* Mutant: compared with the digit at i, not with the smallest so far.
MutInner ==
    /\ pc = "inner"
    /\ j < Places
    /\ min' = IF digits[j] < digits[i] THEN j ELSE min
    /\ j' = j + 1
    /\ UNCHANGED <<arg, digits, i, result, pc>>

\* One round of the inner loop, which looks for the smallest digit left.
Inner ==
    /\ pc = "inner"
    /\ j < Places
    /\ min' = IF digits[j] < digits[min] THEN j ELSE min
    /\ j' = j + 1
    /\ UNCHANGED <<arg, digits, i, result, pc>>

Swap ==
    /\ pc = "inner"
    /\ j = Places
    /\ digits' = [digits EXCEPT ![i] = digits[min], ![min] = digits[i]]
    /\ i' = i + 1
    /\ pc' = "outer"
    /\ UNCHANGED <<arg, j, min, result>>

Join ==
    /\ pc = "outer"
    /\ i = Places
    /\ result' = Joined(digits)
    /\ pc' = "done"
    /\ UNCHANGED <<arg, digits, i, j, min>>

Next == Split \/ Outer \/ Inner \/ Swap \/ Join

Spec == Init /\ [][Next]_vars

-----------------------------------------------------------------------------
(* The oracle of the tests.                                                  *)

is_sorted(val) ==
    \A k \in 0 .. Places - 2 : ~(DigitOf(val, k + 1) < DigitOf(val, k))

-----------------------------------------------------------------------------
(* Properties.                                                               *)

\* The result passes the tests' is_sorted and, which they leave out, has the same
\* digits as the argument, each as often.
HowOften(v, b) == Cardinality({k \in Indices : DigitOf(v, k) = b})

SortsDigits ==
    pc = "done" => /\ is_sorted(result)
                   /\ \A b \in DigitValues : HowOften(result, b) = HowOften(arg, b)
=============================================================================
