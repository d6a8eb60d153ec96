----------------------------- MODULE PiEstimator ------------------------------
(* assignment3/problem_6.c: threads draw points in a square until the time is  *)
(* over, and count them and those inside the circle in two shared counters,    *)
(* each under the compare-and-swap lock.  The counters are volatile, so a ++ is *)
(* a load and a store, and the unlock is a plain store: both go through the    *)
(* store buffer of the thread's processor (StoreBuffers).                      *)
EXTENDS StoreBuffers

CONSTANTS numThreads,       \* the command line
          MaxPoints         \* bound: how many points a thread draws

ASSUME NumbersAssumption == numThreads \in Nat /\ MaxPoints \in Nat

Threads == 0 .. numThreads - 1

VARIABLES
    pc,             \* where each thread is
    target, reg,    \* the counter a thread adds to, the value it has loaded
    drawn,          \* history: how many points each thread has drawn
    hits,           \* history: the points that were in the circle
    expired,        \* time(NULL) has reached stopTime
    main, created,  \* where main is, and its loop variable
    pi              \* what the estimate is computed from: hits and points

Cells == {"lock", "numPointsInCircle", "totalPoints"}

threadVars == <<target, reg, drawn, hits>>
mainVars == <<expired, main, created, pi>>
vars == <<mem, buffer, pc, threadVars, mainVars>>

Running == main \notin {"exited", "error"}

Init ==
    /\ mem = [x \in Cells |-> 0]
    /\ buffer = [t \in Threads |-> <<>>]
    /\ pc = [t \in Threads |-> "new"]
    /\ target = [t \in Threads |-> "totalPoints"]
    /\ reg = [t \in Threads |-> 0]
    /\ drawn = [t \in Threads |-> 0]
    /\ hits = {}
    /\ expired = FALSE
    /\ main = "spawn"
    /\ created = 0
    /\ pi = <<>>

At(t, l) == Running /\ pc[t] = l
Goto(t, l) == pc' = [pc EXCEPT ![t] = l]

Drain(t) == Running /\ Flush(t) /\ UNCHANGED <<pc, threadVars, mainVars>>

-----------------------------------------------------------------------------
(* threadFunction.                                                           *)

\* A point is drawn, inside the circle or outside, unless the time is over.
LoopTest(t) ==
    /\ At(t, "loop")
    /\ \/ /\ ~expired /\ drawn[t] < MaxPoints
          /\ drawn' = [drawn EXCEPT ![t] = @ + 1]
          /\ \/ /\ hits' = hits \cup {<<t, drawn'[t]>>}
                /\ target' = [target EXCEPT ![t] = "numPointsInCircle"]
             \/ /\ target' = [target EXCEPT ![t] = "totalPoints"]
                /\ UNCHANGED hits
          /\ Goto(t, "take")
       \/ expired /\ Goto(t, "done") /\ UNCHANGED <<target, drawn, hits>>
    /\ UNCHANGED <<mem, buffer, reg, mainVars>>

\* Mutant: the lock is tested and set in two instructions.
MutTake(t) ==
    /\ At(t, "take")
    /\ Read(t, "lock") = 0
    /\ Store(t, "lock", 1)
    /\ Goto(t, "load")
    /\ UNCHANGED <<mem, threadVars, mainVars>>

\* spin_lock: the compare-and-swap that finds 0.
Take(t) ==
    /\ At(t, "take")
    /\ CmpXchg(t, "lock")
    /\ Goto(t, "load")
    /\ UNCHANGED <<threadVars, mainVars>>

\* The load of the ++.
Load(t) ==
    /\ At(t, "load")
    /\ reg' = [reg EXCEPT ![t] = Read(t, target[t])]
    /\ Goto(t, "store")
    /\ UNCHANGED <<mem, buffer, target, drawn, hits, mainVars>>

\* The store of the ++.
Add(t) ==
    /\ At(t, "store")
    /\ Store(t, target[t], reg[t] + 1)
    /\ Goto(t, "give")
    /\ UNCHANGED <<mem, threadVars, mainVars>>

\* Mutant: the lock is not released after a hit.
MutGive(t) ==
    /\ At(t, "give")
    /\ IF target[t] = "numPointsInCircle" THEN UNCHANGED buffer ELSE Store(t, "lock", 0)
    /\ Goto(t, IF target[t] = "numPointsInCircle" THEN "take" ELSE "loop")
    /\ target' = [target EXCEPT ![t] = "totalPoints"]
    /\ UNCHANGED <<mem, reg, drawn, hits, mainVars>>

\* spin_unlock, a plain store; a hit is then counted as a point as well.
Give(t) ==
    /\ At(t, "give")
    /\ Store(t, "lock", 0)
    /\ Goto(t, IF target[t] = "numPointsInCircle" THEN "take" ELSE "loop")
    /\ target' = [target EXCEPT ![t] = "totalPoints"]
    /\ UNCHANGED <<mem, reg, drawn, hits, mainVars>>

ThreadStep(t) == LoopTest(t) \/ Take(t) \/ Load(t) \/ Add(t) \/ Give(t)

-----------------------------------------------------------------------------
(* main and the clock.                                                       *)

\* pthread_create starts a thread, or fails and main gives up.
Spawn ==
    /\ main = "spawn"
    /\ \/ /\ created < numThreads
          /\ created' = created + 1
          /\ Goto(created, "loop")
          /\ UNCHANGED main
       \/ created < numThreads /\ main' = "error" /\ UNCHANGED <<created, pc>>
       \/ created = numThreads /\ main' = "join" /\ UNCHANGED <<created, pc>>
    /\ UNCHANGED <<mem, buffer, threadVars, expired, pi>>

\* All threads have been joined, and what they have stored is seen.
Join ==
    /\ main = "join"
    /\ \A t \in Threads : pc[t] = "done" /\ Drained(t)
    /\ pi' = <<mem["numPointsInCircle"], mem["totalPoints"]>>
    /\ main' = "exited"
    /\ UNCHANGED <<mem, buffer, pc, threadVars, expired, created>>

Tick ==
    /\ Running /\ ~expired
    /\ expired' = TRUE
    /\ UNCHANGED <<mem, buffer, pc, threadVars, main, created, pi>>

Terminated == ~Running /\ UNCHANGED vars

Next == \/ \E t \in Threads : ThreadStep(t) \/ Drain(t)
        \/ Spawn \/ Join \/ Tick \/ Terminated

Spec == Init /\ [][Next]_vars

\* Threads run, stores reach the memory, time passes.
FairSpec == /\ Spec
            /\ \A t \in Threads : WF_vars(ThreadStep(t)) /\ WF_vars(Drain(t))
            /\ WF_vars(Spawn \/ Join)
            /\ WF_vars(Tick)

-----------------------------------------------------------------------------
(* Properties.                                                               *)

\* The k-th point of thread t is <<t, k>>.
Points == {p \in Threads \X (1 .. MaxPoints) : p[2] =< drawn[p[1]]}

\* The estimate is computed from the points that were drawn: no thread's ++ is
\* lost, although the store of a ++ and the unlock reach the memory long after the
\* thread has gone on.
EstimateRight ==
    main = "exited" => pi = <<Cardinality(hits), Cardinality(Points)>>

\* The program ends once its time is over: no thread spins for ever.
AllEnd == <>(main \in {"exited", "error"})
=============================================================================
