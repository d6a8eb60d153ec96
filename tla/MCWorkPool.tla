------------------------------ MODULE MCWorkPool ------------------------------
(* Small directories and pools for TLC.                                        *)
EXTENDS WorkPool

\* A directory with an ordinary file between two whose lengths an int cannot hold.
MCReadable == [f \in Files |-> CASE f = 0 -> "wraps" [] f = 1 -> "good" [] OTHER -> "negative"]

\* Files that change while they are read beside one that is too long and an empty one,
\* which takes one of the descriptors only while it is open; and a file that cannot be
\* opened.
MCChanging == [f \in Files |-> CASE f = 0 -> "empty" [] f = 1 -> "gone" [] f = 2 -> "long"
                                 [] OTHER -> "cut"]
MCForbidden == [f \in Files |-> IF f = 1 THEN "noaccess" ELSE "good"]
=============================================================================
