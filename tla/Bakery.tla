-------------------------------- MODULE Bakery --------------------------------
(* assignment3/problem_1.c: numThreads threads go through a critical section   *)
(* over and over, guarded by Lamport's bakery algorithm on two volatile        *)
(* arrays.  The program is run on one processor (taskset -c 1), so memory is   *)
(* sequentially consistent; problem_2.c is the same code with a sched_yield in *)
(* the two waiting loops, which changes nothing shared.                        *)
(*                                                                             *)
(* A step is one read or write of another thread's array cell: the loop that   *)
(* finds the largest ticket reads number[i] twice, and the waiting loop reads  *)
(* it up to three times a round, and the cell may change in between.           *)
EXTENDS Integers, FiniteSets

CONSTANTS numThreads,       \* the command line
          MaxIterations     \* bound: how often each thread enters

ASSUME ThreadsAssumption == numThreads \in Nat

Threads == 0 .. numThreads - 1

ASSUME IterationsAssumption == MaxIterations \in [Threads -> Nat]

VARIABLES
    choosing, number,   \* the shared arrays
    in_cs,              \* the counter the asserts look at
    pc,                 \* where each thread is
    i, max,             \* each thread's locals
    iterations,         \* threadData[t].iterations
    expired,            \* time(NULL) has reached endTime
    main, created,      \* where main is, and its loop variable
    ahead               \* history: who had a ticket when the thread came

vars == <<choosing, number, in_cs, pc, i, max, iterations, expired, main, created, ahead>>

Labels == {"new", "loop", "choose", "scan", "reread", "ticket", "chosen", "wait", "test",
           "less", "tie", "cs0", "cs1", "cs2", "cs3", "leave", "done"}

\* A thread has a ticket, and is done choosing, at these labels.
Waiting == {"wait", "test", "less", "tie"}
Critical == {"cs0", "cs1", "cs2", "cs3", "leave"}

Over == {"exited", "error", "aborted"}
Running == main \notin Over

Init ==
    /\ choosing = [t \in Threads |-> 0]
    /\ number = [t \in Threads |-> 0]
    /\ in_cs = 0
    /\ pc = [t \in Threads |-> "new"]
    /\ i = [t \in Threads |-> 0]
    /\ max = [t \in Threads |-> 0]
    /\ iterations = [t \in Threads |-> 0]
    /\ expired = FALSE
    /\ main = "spawn"
    /\ created = 0
    /\ ahead = [t \in Threads |-> {}]

At(t, l) == Running /\ pc[t] = l
Goto(t, l) == pc' = [pc EXCEPT ![t] = l]

mainVars == <<expired, main, created>>

-----------------------------------------------------------------------------
(* threadFunction: taking a ticket.                                          *)

\* while(time(NULL) < endTime).  MaxIterations bounds the entries: a thread that
\* has had its share stays at the test until the time is over.
LoopTest(t) ==
    /\ At(t, "loop")
    /\ \/ ~expired /\ iterations[t] < MaxIterations[t] /\ Goto(t, "choose")
       \/ expired /\ Goto(t, "done")
    /\ UNCHANGED <<choosing, number, in_cs, i, max, iterations, ahead, mainVars>>

\* Mutant: the ticket is taken without choosing being set.
MutChoose(t) ==
    /\ At(t, "choose")
    /\ max' = [max EXCEPT ![t] = 0]
    /\ i' = [i EXCEPT ![t] = 0]
    /\ ahead' = [ahead EXCEPT ![t] = {u \in Threads : pc[u] \in Waiting \cup Critical}]
    /\ Goto(t, "scan")
    /\ UNCHANGED <<choosing, number, in_cs, iterations, mainVars>>

\* choosing[threadId] = 1, and the locals of the loop that follows.
Choose(t) ==
    /\ At(t, "choose")
    /\ choosing' = [choosing EXCEPT ![t] = 1]
    /\ max' = [max EXCEPT ![t] = 0]
    /\ i' = [i EXCEPT ![t] = 0]
    /\ ahead' = [ahead EXCEPT ![t] = {u \in Threads : pc[u] \in Waiting \cup Critical}]
    /\ Goto(t, "scan")
    /\ UNCHANGED <<number, in_cs, iterations, mainVars>>

\* The first read of number[i]: is it larger than max?
Scan(t) ==
    /\ At(t, "scan")
    /\ i[t] < numThreads
    /\ \/ number[i[t]] > max[t] /\ Goto(t, "reread") /\ UNCHANGED i
       \/ ~(number[i[t]] > max[t]) /\ i' = [i EXCEPT ![t] = @ + 1] /\ UNCHANGED pc
    /\ UNCHANGED <<choosing, number, in_cs, max, iterations, ahead, mainVars>>

\* The second read is the one that is kept, whatever it finds.
Reread(t) ==
    /\ At(t, "reread")
    /\ max' = [max EXCEPT ![t] = number[i[t]]]
    /\ i' = [i EXCEPT ![t] = @ + 1]
    /\ Goto(t, "scan")
    /\ UNCHANGED <<choosing, number, in_cs, iterations, ahead, mainVars>>

\* Mutant: a thread looks only at the tickets of smaller threads.
MutScanEnd(t) ==
    /\ At(t, "scan")
    /\ i[t] = t
    /\ Goto(t, "ticket")
    /\ UNCHANGED <<choosing, number, in_cs, i, max, iterations, ahead, mainVars>>

ScanEnd(t) ==
    /\ At(t, "scan")
    /\ i[t] = numThreads
    /\ Goto(t, "ticket")
    /\ UNCHANGED <<choosing, number, in_cs, i, max, iterations, ahead, mainVars>>

Ticket(t) ==
    /\ At(t, "ticket")
    /\ number' = [number EXCEPT ![t] = max[t] + 1]
    /\ Goto(t, "chosen")
    /\ UNCHANGED <<choosing, in_cs, i, max, iterations, ahead, mainVars>>

Chosen(t) ==
    /\ At(t, "chosen")
    /\ choosing' = [choosing EXCEPT ![t] = 0]
    /\ i' = [i EXCEPT ![t] = 0]
    /\ Goto(t, "wait")
    /\ UNCHANGED <<number, in_cs, max, iterations, ahead, mainVars>>

-----------------------------------------------------------------------------
(* threadFunction: waiting for the others.                                   *)

\* while(choosing[i] == 1), one read.
WaitChoosing(t) ==
    /\ At(t, "wait")
    /\ i[t] < numThreads
    /\ choosing[i[t]] # 1
    /\ Goto(t, "test")
    /\ UNCHANGED <<choosing, number, in_cs, i, max, iterations, ahead, mainVars>>

\* Thread t has nothing to wait for from thread i any more.
NextOne(t) == i' = [i EXCEPT ![t] = @ + 1] /\ Goto(t, "wait")

\* number[i] != 0
WaitTest(t) ==
    /\ At(t, "test")
    /\ \/ number[i[t]] # 0 /\ Goto(t, "less") /\ UNCHANGED i
       \/ number[i[t]] = 0 /\ NextOne(t)
    /\ UNCHANGED <<choosing, number, in_cs, max, iterations, ahead, mainVars>>

\* number[i] < number[data->threadId]: if so, another round.
WaitLess(t) ==
    /\ At(t, "less")
    /\ Goto(t, IF number[i[t]] < number[t] THEN "test" ELSE "tie")
    /\ UNCHANGED <<choosing, number, in_cs, i, max, iterations, ahead, mainVars>>

\* Mutant: with the same ticket, each waits for the other.
MutWaitTie(t) ==
    /\ At(t, "tie")
    /\ \/ number[i[t]] = number[t] /\ i[t] # t /\ Goto(t, "test") /\ UNCHANGED i
       \/ ~(number[i[t]] = number[t] /\ i[t] # t) /\ NextOne(t)
    /\ UNCHANGED <<choosing, number, in_cs, max, iterations, ahead, mainVars>>

\* The same ticket, and i is the smaller thread: another round.
WaitTie(t) ==
    /\ At(t, "tie")
    /\ \/ number[i[t]] = number[t] /\ i[t] < t /\ Goto(t, "test") /\ UNCHANGED i
       \/ ~(number[i[t]] = number[t] /\ i[t] < t) /\ NextOne(t)
    /\ UNCHANGED <<choosing, number, in_cs, max, iterations, ahead, mainVars>>

WaitEnd(t) ==
    /\ At(t, "wait")
    /\ i[t] = numThreads
    /\ iterations' = [iterations EXCEPT ![t] = @ + 1]
    /\ Goto(t, "cs0")
    /\ UNCHANGED <<choosing, number, in_cs, i, max, ahead, mainVars>>

-----------------------------------------------------------------------------
(* threadFunction: the critical section.                                     *)

CsNext == [cs0 |-> "cs1", cs1 |-> "cs2", cs2 |-> "cs3", cs3 |-> "leave"]
CsValue == [cs0 |-> 0, cs1 |-> 1, cs2 |-> 2, cs3 |-> 3]

\* assert(in_cs == k), and then in_cs++, or in_cs = 0 after the last assert.
\* A failed assert aborts the process.
CsStep(t) ==
    \E l \in DOMAIN CsNext :
        /\ At(t, l)
        /\ IF in_cs = CsValue[l]
           THEN in_cs' = (in_cs + 1) % 4 /\ Goto(t, CsNext[l]) /\ UNCHANGED main
           ELSE main' = "aborted" /\ UNCHANGED <<in_cs, pc>>
        /\ UNCHANGED <<choosing, number, i, max, iterations, ahead, expired, created>>

\* Mutant: the ticket is kept.
MutLeave(t) ==
    /\ At(t, "leave")
    /\ ahead' = [u \in Threads |-> IF u = t THEN {} ELSE ahead[u] \ {t}]
    /\ Goto(t, "loop")
    /\ UNCHANGED <<choosing, number, in_cs, i, max, iterations, mainVars>>

Leave(t) ==
    /\ At(t, "leave")
    /\ number' = [number EXCEPT ![t] = 0]
    /\ ahead' = [u \in Threads |-> IF u = t THEN {} ELSE ahead[u] \ {t}]
    /\ Goto(t, "loop")
    /\ UNCHANGED <<choosing, in_cs, i, max, iterations, mainVars>>

ThreadStep(t) ==
    \/ LoopTest(t) \/ Choose(t) \/ Scan(t) \/ Reread(t) \/ ScanEnd(t) \/ Ticket(t)
    \/ Chosen(t) \/ WaitChoosing(t) \/ WaitTest(t) \/ WaitLess(t) \/ WaitTie(t)
    \/ WaitEnd(t) \/ CsStep(t) \/ Leave(t)

threadVars == <<choosing, number, in_cs, i, max, iterations, ahead>>

\* pthread_create starts a thread, or fails and main gives up.
Spawn ==
    /\ main = "spawn"
    /\ \/ /\ created < numThreads
          /\ created' = created + 1
          /\ Goto(created, "loop")
          /\ UNCHANGED main
       \/ created < numThreads /\ main' = "error" /\ UNCHANGED <<created, pc>>
       \/ created = numThreads /\ main' = "join" /\ UNCHANGED <<created, pc>>
    /\ UNCHANGED <<expired, threadVars>>

\* All threads have been joined, whatever the order they end in.
Join ==
    /\ main = "join"
    /\ \A t \in Threads : pc[t] = "done"
    /\ main' = "exited"
    /\ UNCHANGED <<pc, expired, created, threadVars>>

Tick == Running /\ ~expired /\ expired' = TRUE /\ UNCHANGED <<pc, main, created, threadVars>>

Terminated == ~Running /\ UNCHANGED vars

Next == \/ \E t \in Threads : ThreadStep(t)
        \/ Spawn \/ Join \/ Tick \/ Terminated

Spec == Init /\ [][Next]_vars

\* The scheduler lets every thread go on, and time passes.
FairSpec == /\ Spec
            /\ \A t \in Threads : WF_vars(ThreadStep(t))
            /\ WF_vars(Spawn \/ Join)
            /\ WF_vars(Tick)

-----------------------------------------------------------------------------
(* Properties.                                                               *)

\* The variables hold values of their types.
TypeOK ==
    /\ choosing \in [Threads -> {0, 1}]
    /\ number \in [Threads -> Nat]
    /\ in_cs \in 0 .. 3
    /\ pc \in [Threads -> Labels]
    /\ i \in [Threads -> 0 .. numThreads]
    /\ max \in [Threads -> Nat]
    /\ iterations \in [Threads -> Nat]
    /\ expired \in BOOLEAN
    /\ main \in {"spawn", "join"} \cup Over
    /\ created \in 0 .. numThreads
    /\ ahead \in [Threads -> SUBSET Threads]

\* Never two threads in the critical section, although a thread may keep as its
\* largest ticket a value the cell got after it had been found large.
MutualExclusion ==
    \A t, u \in Threads : pc[t] \in Critical /\ pc[u] \in Critical => t = u

\* A thread that has its ticket when another one comes goes in before it: what
\* the second read of number[i] may do to max never lets a thread overtake.
FirstComeFirstServed ==
    \A t \in Threads : pc[t] \in Critical => ahead[t] = {}

\* The tickets taken so far: thread t has entered with all of them but the last one
\* it may still be waiting with.
Taken(t) == iterations[t] + IF pc[t] \in {"chosen"} \cup Waiting THEN 1 ELSE 0
TicketsTaken == UNION {{t} \X (1 .. Taken(t)) : t \in Threads}

\* The tickets only start over when everybody has left, so they grow for as long as
\* somebody is there.  But none is ever larger than the number of tickets taken:
\* with fewer than 2^31 entries max + 1 does not overflow.
TicketsBounded == \A t \in Threads : number[t] =< Cardinality(TicketsTaken)

\* The bakery implements the lock of FairLock: coming is from choosing[t] = 1 to
\* choosing[t] = 0, the line from there to the ticket's reset.
Lock == INSTANCE FairLock WITH
            Thread <- Threads,
            coming <- {t \in Threads : pc[t] \in {"scan", "reread", "ticket", "chosen"}},
            line <- {t \in Threads : pc[t] \in Waiting \cup Critical},
            inside <- {t \in Threads : pc[t] \in Critical}
LockSpec == Lock!Spec

\* The program ends once its time is over: no thread waits for ever.
AllEnd == <>(main \in {"exited", "error"})

\* No starvation: a thread that comes to the bakery gets in, unless main gives up.
EachGetsIn ==
    \A t \in Threads : pc[t] = "choose" ~> pc[t] = "cs0" \/ main = "error"
=============================================================================
