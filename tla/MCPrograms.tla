------------------------------ MODULE MCPrograms ------------------------------
(* The sequential programs on small inputs for TLC.                            *)
EXTENDS Programs

\* Two nibbles that take every value, and two that take some.
MCInputs == {a + 16 * b + 256 * c + 4096 * d :
                a \in 0 .. 15, b \in 0 .. 15, c \in {0, 6, 9}, d \in {0, 5, 10, 15}}

\* Eight regular files, of which one is refused and only six can be opened.
MCEntries == <<"good", "noaccess", "empty", "other", "cut", "wraps", "long", "other", "good",
               "good">>
MCEntry == [f \in 0 .. 9 |-> MCEntries[f + 1]]
=============================================================================
