------------------------------- MODULE PlayRoom -------------------------------
(* What the pet store promises: one room, animals that enter and leave it one  *)
(* at a time, and never two animals in it that the requirements at the head of *)
(* assignment4/problem_1.c keep apart.  PetStore is shown to implement it.     *)
EXTENDS Naturals

CONSTANTS Animal,           \* the animals of the store
          Apart(_, _)       \* Apart(a, b): a and b may not be out together

VARIABLE room               \* the animals that are out to play

Init == room = {}

Enter(a) == /\ a \notin room
            /\ \A b \in room : ~Apart(a, b)
            /\ room' = room \cup {a}

Leave(a) == /\ a \in room
            /\ room' = room \ {a}

Next == \E a \in Animal : Enter(a) \/ Leave(a)

Spec == Init /\ [][Next]_room
=============================================================================
