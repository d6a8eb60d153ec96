------------------------------- MODULE FairLock -------------------------------
(* What a lock that serves first come, first served promises.  A thread comes, *)
(* joins the line, goes in when nobody is inside and nobody is left of those   *)
(* who were in line when it came, and leaves.  Bakery is shown to implement    *)
(* it, and so is the ticket lock that TSOBakery puts around its stores.        *)
EXTENDS Naturals

CONSTANT Thread

VARIABLES coming,           \* who has come, and is not in line yet
          line,             \* who is in line or inside
          inside,           \* who is inside
          ahead             \* who was in line when a thread came, and still is

vars == <<coming, line, inside, ahead>>

Init == /\ coming = {}
        /\ line = {}
        /\ inside = {}
        /\ ahead = [t \in Thread |-> {}]

Come(t) == /\ t \notin coming \cup line
           /\ coming' = coming \cup {t}
           /\ ahead' = [ahead EXCEPT ![t] = line]
           /\ UNCHANGED <<line, inside>>

Join(t) == /\ t \in coming
           /\ coming' = coming \ {t}
           /\ line' = line \cup {t}
           /\ UNCHANGED <<inside, ahead>>

\* A lock with an atomic add takes the two steps at once.
ComeAndJoin(t) == /\ t \notin coming \cup line
                  /\ line' = line \cup {t}
                  /\ ahead' = [ahead EXCEPT ![t] = line]
                  /\ UNCHANGED <<coming, inside>>

Enter(t) == /\ t \in line
            /\ inside = {}
            /\ ahead[t] = {}
            /\ inside' = {t}
            /\ UNCHANGED <<coming, line, ahead>>

Leave(t) == /\ t \in inside
            /\ inside' = inside \ {t}
            /\ line' = line \ {t}
            /\ ahead' = [u \in Thread |-> ahead[u] \ {t}]
            /\ UNCHANGED coming

Next == \E t \in Thread : Come(t) \/ Join(t) \/ ComeAndJoin(t) \/ Enter(t) \/ Leave(t)

Spec == Init /\ [][Next]_vars
=============================================================================
