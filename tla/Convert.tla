-------------------------------- MODULE Convert -------------------------------
(* assignment1/assign1.c, convert: a value is printed in octal, binary or hex, *)
(* with all its leading zeros, through its nibbles.  For octal the nibbles are *)
(* spread over an array of bits, the lowest first, which is read from the top  *)
(* in threes.  Characters are their codes.                                     *)
EXTENDS Integers, Sequences, Powers

CONSTANTS Nibbles,      \* how many nibbles an unsigned long has (16)
          Inputs        \* the values it is called with

\* The bits and the two that are added to them come out in threes.
Assumptions ==
    /\ Nibbles \in Nat \ {0} /\ Nibbles % 3 = 1
    /\ Inputs \subseteq 0 .. Power(16, Nibbles) - 1

Modes == {"OCT", "BIN", "HEX"}
Unset == -1                         \* what nobody has written yet

VARIABLES
    mode, value,        \* the arguments
    nibbles, binary, i, \* the function's variables
    out,                \* what putc has been given
    pc                  \* where it is

vars == <<mode, value, nibbles, binary, i, out, pc>>

Init ==
    /\ mode \in Modes \cup {"other"}
    /\ value \in Inputs
    /\ nibbles = [k \in 0 .. Nibbles - 1 |-> Unset]
    /\ binary = [k \in 0 .. 4 * Nibbles + 1 |-> Unset]
    /\ i = 0
    /\ out = <<>>
    /\ pc = "switch"

Zero == 48
Newline == 10

-----------------------------------------------------------------------------
(* The function.                                                             *)

Switch ==
    /\ pc = "switch"
    /\ IF mode \in Modes
       THEN /\ nibbles' = [k \in 0 .. Nibbles - 1 |-> (value \div Power(16, k)) % 16]
            /\ i' = Nibbles - 1
            /\ pc' = IF mode = "OCT" THEN "fill" ELSE "print"
       ELSE pc' = "done" /\ UNCHANGED <<nibbles, i>>
    /\ UNCHANGED <<mode, value, binary, out>>

\* Bit k of a nibble, as the sixteen cases spell it out.
Bit(nibble, k) == (nibble \div Power(2, k)) % 2

\* Mutant: the bits of a nibble the other way round.
MutFill ==
    /\ pc = "fill"
    /\ i >= 0
    /\ binary' = [b \in DOMAIN binary |->
                    IF b \div 4 = i THEN Zero + Bit(nibbles[i], 3 - (b % 4)) ELSE binary[b]]
    /\ i' = i - 1
    /\ UNCHANGED <<mode, value, nibbles, out, pc>>

\* A nibble's bits, the lowest first.
Fill ==
    /\ pc = "fill"
    /\ i >= 0
    /\ binary' = [b \in DOMAIN binary |->
                    IF b \div 4 = i THEN Zero + Bit(nibbles[i], b % 4) ELSE binary[b]]
    /\ i' = i - 1
    /\ UNCHANGED <<mode, value, nibbles, out, pc>>

\* Two more zeros, so that the bits come out in threes.
Pad ==
    /\ pc = "fill"
    /\ i < 0
    /\ binary' = [binary EXCEPT ![4 * Nibbles] = Zero, ![4 * Nibbles + 1] = Zero]
    /\ i' = 4 * Nibbles + 1
    /\ pc' = "group"
    /\ UNCHANGED <<mode, value, nibbles, out>>

\* One octal digit; a bit that is neither '0' nor '1' would end the function.
Group ==
    /\ pc = "group"
    /\ i >= 0
    /\ LET three == <<binary[i], binary[i - 1], binary[i - 2]>>
       IN  IF \A k \in 1 .. 3 : three[k] - Zero \in {0, 1}
           THEN /\ out' = Append(out, Zero + 4 * (three[1] - Zero) + 2 * (three[2] - Zero)
                                           + (three[3] - Zero))
                /\ UNCHANGED pc
           ELSE pc' = "done" /\ UNCHANGED out
    /\ i' = i - 3
    /\ UNCHANGED <<mode, value, nibbles, binary>>

\* What the two other modes print of a nibble.
HexDigit(nibble) == IF nibble \in 0 .. 9 THEN nibble + 48 ELSE nibble + 87
FourBits(nibble) == [k \in 1 .. 4 |-> Zero + Bit(nibble, 4 - k)]

PrintNibble ==
    /\ pc = "print"
    /\ i >= 0
    /\ out' = out \o IF mode = "HEX" THEN <<HexDigit(nibbles[i])>> ELSE FourBits(nibbles[i])
    /\ i' = i - 1
    /\ UNCHANGED <<mode, value, nibbles, binary, pc>>

EndLine ==
    /\ pc \in {"group", "print"}
    /\ i < 0
    /\ out' = Append(out, Newline)
    /\ pc' = "done"
    /\ UNCHANGED <<mode, value, nibbles, binary, i>>

Next == Switch \/ Fill \/ Pad \/ Group \/ PrintNibble \/ EndLine

-----------------------------------------------------------------------------
(* Properties.                                                               *)

BaseOf == [OCT |-> 8, BIN |-> 2, HEX |-> 16]
Width == [OCT |-> (4 * Nibbles + 2) \div 3, BIN |-> 4 * Nibbles, HEX |-> Nibbles]
Code(d) == IF d < 10 THEN 48 + d ELSE 97 + d - 10       \* ASCII

\* The value's digits in a base, the most significant first, then a newline.
Numeral(v, m) ==
    [k \in 1 .. Width[m] |-> Code((v \div Power(BaseOf[m], Width[m] - k)) % BaseOf[m])]
        \o <<Newline>>

\* What convert's specification asks for: the value in the base of its mode with
\* all leading zeros, and nothing if there is no such mode.  The octal digits,
\* which straddle the nibbles, come out right.
ConvertRight ==
    pc = "done" => out = IF mode \in Modes THEN Numeral(value, mode) ELSE <<>>
=============================================================================
