----------------------------- MODULE StoreBuffers -----------------------------
(* The memory of an x86 machine with several processors, as the programs of    *)
(* assignment3 meet it: each processor keeps its stores in a first-in-first-   *)
(* out buffer before they reach the memory, and reads its own buffer first.    *)
(* The machine is not part of the repository; the programs' fences and locked  *)
(* instructions are there because of it.                                       *)
EXTENDS Integers, Sequences, FiniteSetsExt

VARIABLES
    mem,        \* what has reached the memory: a value for each cell
    buffer      \* each processor's stores under way, the oldest first

\* A processor reads its own latest store, if it is still under way.
Read(t, x) ==
    LET own == {k \in 1 .. Len(buffer[t]) : buffer[t][k].cell = x}
    IN  IF own = {} THEN mem[x] ELSE buffer[t][Max(own)].value

Store(t, x, v) == buffer' = [buffer EXCEPT ![t] = Append(@, [cell |-> x, value |-> v])]

\* The oldest store of a processor reaches the memory.
Flush(t) ==
    /\ buffer[t] # <<>>
    /\ mem' = [mem EXCEPT ![Head(buffer[t]).cell] = Head(buffer[t]).value]
    /\ buffer' = [buffer EXCEPT ![t] = Tail(@)]

\* What an mfence and a locked instruction wait for.
Drained(t) == buffer[t] = <<>>

\* lock cmpxchg, 0 to 1: it takes effect only when it finds 0.
CmpXchg(t, x) ==
    /\ Drained(t)
    /\ mem[x] = 0
    /\ mem' = [mem EXCEPT ![x] = 1]
    /\ UNCHANGED buffer
=============================================================================
