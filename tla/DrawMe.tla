-------------------------------- MODULE DrawMe --------------------------------
(* assignment1/assign1.c, the two functions whose specifications ask for a     *)
(* clean-up when a call fails half-way: name_list, a list of six allocated     *)
(* elements, and draw_me, a file written by system calls.  The program calls   *)
(* name_list once and draw_me last; it may be run again in the same directory. *)
EXTENDS Integers, Sequences

CONSTANT MaxRuns        \* bound: how often the program is run

Assumptions == MaxRuns \in Nat

VARIABLES
    privileged,     \* the user may write to a file whatever its mode is
    runs,           \* how often the program has been started
    elements,       \* the elements malloc has handed out, by letter and place
    link,           \* the elements' links, 0 is NULL
    file,           \* me.txt: none, empty, part of the picture, or all of it
    openFiles,      \* how many descriptors of it the process holds
    spoiled,        \* history: a write was short, or an unlink failed
    failed,         \* history: the write of this run has returned an error
    pc              \* where the program is

listVars == <<elements, link>>
fileVars == <<file, openFiles, spoiled, failed>>
vars == <<privileged, runs, listVars, fileVars, pc>>

Letters == <<"s", "t", "e", "v", "e", "n">>

Init ==
    /\ privileged \in BOOLEAN
    /\ runs = 1
    /\ elements = <<>>
    /\ link = [k \in 1 .. Len(Letters) |-> 0]
    /\ file = "none"
    /\ openFiles = 0
    /\ spoiled = FALSE
    /\ failed = FALSE
    /\ pc = "malloc"

-----------------------------------------------------------------------------
(* name_list.                                                                *)

\* malloc and the letter.  The letter is written before the test for NULL, so
\* the process crashes and the clean-up after the test is never reached.
Malloc ==
    /\ pc = "malloc"
    /\ Len(elements) < Len(Letters)
    /\ \/ elements' = Append(elements, Letters[Len(elements) + 1]) /\ UNCHANGED pc
       \/ pc' = "crashed" /\ UNCHANGED elements
    /\ UNCHANGED <<privileged, runs, link, fileVars>>

SetLinks ==
    /\ pc = "malloc"
    /\ Len(elements) = Len(Letters)
    /\ link' = [k \in DOMAIN link |-> (k + 1) % (Len(Letters) + 1)]
    /\ pc' = "open"
    /\ UNCHANGED <<privileged, runs, elements, fileVars>>

-----------------------------------------------------------------------------
(* draw_me.                                                                  *)

\* open, without O_TRUNC; the mode it gives the file does not allow writing.
Open ==
    /\ pc = "open"
    /\ \/ /\ file = "none" \/ privileged
          /\ file' = IF file = "none" THEN "empty" ELSE file
          /\ openFiles' = openFiles + 1
          /\ pc' = "write"
       \/ pc' = "returned" /\ UNCHANGED <<file, openFiles>>
    /\ UNCHANGED <<privileged, runs, listVars, spoiled, failed>>

\* The write; how much it has written is not looked at.
Write ==
    /\ pc = "write"
    /\ \/ /\ file' = "all"
          /\ pc' = "close"
          /\ UNCHANGED <<spoiled, failed>>
       \/ /\ file' = IF file = "all" THEN "all" ELSE "part"
          /\ spoiled' = TRUE
          /\ pc' = "close"
          /\ UNCHANGED failed
       \/ /\ failed' = TRUE
          /\ pc' = "unlink"
          /\ UNCHANGED <<file, spoiled>>
    /\ UNCHANGED <<privileged, runs, listVars, openFiles>>

\* Mutant: an error of close is not cleaned up after.
MutClose ==
    /\ pc = "close"
    /\ openFiles' = openFiles - 1
    /\ file' \in {file, "part"}
    /\ pc' = "returned"
    /\ UNCHANGED <<privileged, runs, listVars, spoiled, failed>>

\* close gives the descriptor back, also when it reports an error: the data may
\* not have reached the disk.
Close ==
    /\ pc = "close"
    /\ openFiles' = openFiles - 1
    /\ \/ pc' = "returned" /\ UNCHANGED file
       \/ pc' = "unlink" /\ file' \in {file, "part"}
    /\ UNCHANGED <<privileged, runs, listVars, spoiled, failed>>

Unlink ==
    /\ pc = "unlink"
    /\ \/ file' = "none" /\ UNCHANGED spoiled
       \/ spoiled' = TRUE /\ UNCHANGED file
    /\ pc' = "returned"
    /\ UNCHANGED <<privileged, runs, listVars, openFiles, failed>>

\* The program is run again, after its end or its crash.
Restart ==
    /\ pc \in {"returned", "crashed"}
    /\ runs < MaxRuns
    /\ runs' = runs + 1
    /\ elements' = <<>>
    /\ link' = [k \in DOMAIN link |-> 0]
    /\ openFiles' = 0
    /\ failed' = FALSE
    /\ pc' = "malloc"
    /\ UNCHANGED <<privileged, file, spoiled>>

Next == Malloc \/ SetLinks \/ Open \/ Write \/ Close \/ Unlink \/ Restart

-----------------------------------------------------------------------------
(* Properties.                                                               *)

\* What the functions leave behind when they return: no element of the list is
\* lost; of the file there is all or nothing, also over several runs, unless a short
\* write went unnoticed or an unlink failed; and it is closed, unless the write failed:
\* assign1.c:693 does not allow this exception, the code needs it.
NoTrash ==
    /\ pc \notin {"malloc", "crashed"} =>
            \A k \in DOMAIN elements : k = 1 \/ \E m \in DOMAIN elements : link[m] = k
    /\ pc = "returned" /\ ~spoiled => file \in {"none", "all"}
    /\ pc = "returned" /\ ~failed => openFiles = 0
=============================================================================
