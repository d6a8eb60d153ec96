------------------------------ MODULE SortedList ------------------------------
(* assignment1/sorted_ll.c: numbers are added to a sorted list, and after each *)
(* the list is checked by is_sorted.  tests/sorted_ll.c holds a copy of both   *)
(* functions whose is_sorted starts from LONG_MIN in an int.                   *)
EXTENDS Integers, Sequences

CONSTANTS Bits,         \* the width of an int
          MaxLinks      \* bound: how many numbers main adds

Assumptions == Bits \in Nat \ {0} /\ MaxLinks \in Nat

INT_MIN == -(2 ^ (Bits - 1))
Ints == INT_MIN .. -INT_MIN - 1    \* the values of an int

NULL == 0
Nodes == 1 .. MaxLinks              \* malloc hands them out in this order

VARIABLES
    val, next,          \* the fields of the nodes
    used,               \* how many nodes malloc has handed out
    head, num,          \* main's list, and the number it adds
    new_node, marker,   \* add_link
    temp, max,          \* is_sorted
    passed,             \* no test case has failed
    pc,                 \* where the program is
    added               \* history: the numbers that have been added

heap == <<val, next, used>>
checkVars == <<temp, max, passed>>
vars == <<heap, head, num, new_node, marker, checkVars, pc, added>>

Init ==
    /\ val = [k \in Nodes |-> 0]
    /\ next = [k \in Nodes |-> NULL]
    /\ used = 0
    /\ head = NULL
    /\ num = 0
    /\ new_node = NULL
    /\ marker = NULL
    /\ temp = NULL
    /\ max = INT_MIN
    /\ passed = TRUE
    /\ pc = "call"
    /\ added = <<>>

-----------------------------------------------------------------------------
(* add_link.                                                                 *)

\* main's next call.
Call ==
    /\ pc = "call"
    /\ used < MaxLinks
    /\ num' \in Ints
    /\ pc' = "add"
    /\ UNCHANGED <<heap, head, new_node, marker, checkVars, added>>

\* malloc fails: the result is used all the same.
NoMemory ==
    /\ pc = "add"
    /\ pc' = "crashed"
    /\ UNCHANGED <<heap, head, num, new_node, marker, checkVars, added>>

\* malloc, and the two fields of the new node.
NewNode(link) ==
    /\ used' = used + 1
    /\ val' = [val EXCEPT ![used + 1] = num]
    /\ next' = [next EXCEPT ![used + 1] = link]
    /\ added' = Append(added, num)

\* Mutant: the copy in tests/sorted_ll.c, where LONG_MIN becomes 0.
MutReturn(newHead) ==
    /\ head' = newHead
    /\ temp' = newHead
    /\ max' = 0
    /\ pc' = "check"

\* The new list is returned, main has it checked.
Return(newHead) ==
    /\ head' = newHead
    /\ temp' = newHead
    /\ max' = INT_MIN
    /\ pc' = "check"

AddFirst ==
    /\ pc = "add"
    /\ head = NULL
    /\ NewNode(NULL)
    /\ Return(used + 1)
    /\ UNCHANGED <<num, new_node, marker, passed>>

AddFront ==
    /\ pc = "add"
    /\ head # NULL /\ num < val[head]
    /\ NewNode(head)
    /\ Return(used + 1)
    /\ UNCHANGED <<num, new_node, marker, passed>>

\* The new node's next is at first the node it will come after.
AddInside ==
    /\ pc = "add"
    /\ head # NULL /\ num >= val[head]
    /\ NewNode(head)
    /\ new_node' = used + 1
    /\ marker' = next[head]
    /\ pc' = "advance"
    /\ UNCHANGED <<head, num, checkVars>>

\* Mutant: new_node->next stays at the head.
MutAdvance ==
    /\ pc = "advance"
    /\ marker # NULL /\ val[marker] < num
    /\ marker' = next[marker]
    /\ UNCHANGED <<heap, head, num, new_node, checkVars, pc, added>>

Advance ==
    /\ pc = "advance"
    /\ marker # NULL /\ val[marker] < num
    /\ next' = [next EXCEPT ![new_node] = marker]
    /\ marker' = next[marker]
    /\ UNCHANGED <<val, used, head, num, new_node, checkVars, pc, added>>

LinkIn ==
    /\ pc = "advance"
    /\ ~(marker # NULL /\ val[marker] < num)
    /\ next' = [next EXCEPT ![next[new_node]] = new_node, ![new_node] = marker]
    /\ Return(head)
    /\ UNCHANGED <<val, used, num, new_node, marker, passed, added>>

-----------------------------------------------------------------------------
(* is_sorted, and the report of the test case.                               *)

CheckNode ==
    /\ pc = "check"
    /\ temp # NULL
    /\ val[temp] >= max
    /\ max' = val[temp]
    /\ temp' = next[temp]
    /\ UNCHANGED <<heap, head, num, new_node, marker, passed, pc, added>>

CheckEnd ==
    /\ pc = "check"
    /\ temp = NULL
    /\ pc' = "call"
    /\ UNCHANGED <<heap, head, num, new_node, marker, checkVars, added>>

CheckFails ==
    /\ pc = "check"
    /\ temp # NULL
    /\ val[temp] < max
    /\ passed' = FALSE
    /\ pc' = "call"
    /\ UNCHANGED <<heap, head, num, new_node, marker, temp, max, added>>

Next == Call \/ NoMemory \/ AddFirst \/ AddFront \/ AddInside \/ Advance \/ LinkIn
        \/ CheckNode \/ CheckEnd \/ CheckFails

-----------------------------------------------------------------------------
(* Properties.                                                               *)

\* What main reports: every test case passes, INT_MIN included.
AssertsPass == passed

\* The node k links after the head, NULL past the end.
Walk[k \in 0 .. used] ==
    IF k = 0 THEN head ELSE IF Walk[k - 1] = NULL THEN NULL ELSE next[Walk[k - 1]]

\* What is_sorted cannot see: the list visits every node malloc has handed out and
\* ends, and the nodes hold the numbers that were added.  So it holds each number
\* as often as it was added; and they come in order.
KeepsAll ==
    pc \in {"check", "call"} =>
        /\ {Walk[k] : k \in 0 .. used - 1} = 1 .. used
        /\ Walk[used] = NULL
        /\ \A k \in 1 .. used - 1 : val[Walk[k - 1]] <= val[Walk[k]]
        /\ Len(added) = used /\ \A node \in 1 .. used : val[node] = added[node]
=============================================================================
