------------------------------ MODULE TSOBakery ------------------------------
(* assignment3/problem_3.c, problem_4.c and problem_5.c: the bakery of         *)
(* problem_1.c on several processors, each with a store buffer (StoreBuffers). *)
(* The three programs are the same but for what they put around the three      *)
(* stores that take a ticket:                                                  *)
(*   problem_3.c   an mfence after each                                        *)
(*   problem_4.c   a compare-and-swap spin lock, released by a plain store     *)
(*   problem_5.c   a ticket lock, taken and released by an atomic add          *)
EXTENDS StoreBuffers

CONSTANTS numThreads,       \* the command line
          Methods,          \* the programs to look at
          MaxIterations,    \* bound: how often each thread enters
          Modulus           \* the ticket lock's counters wrap here (2^32)

ASSUME ThreadsAssumption == numThreads \in Nat
ASSUME MethodsAssumption == Methods \subseteq {"mfence", "spin", "ticket"}
ASSUME ModulusAssumption == Modulus \in Nat /\ numThreads <= Modulus

Threads == 0 .. numThreads - 1

ASSUME IterationsAssumption == MaxIterations \in [Threads -> Nat]

\* The shared variables: two arrays, the critical section's counter, the locks.
Choosing(t) == <<"choosing", t>>
Number(t) == <<"number", t>>
InCs == <<"in_cs", 0>>
Value == <<"value", 0>>
Counter == <<"counter", 0>>
Turn == <<"turn", 0>>
Cells == {Choosing(t) : t \in Threads} \cup {Number(t) : t \in Threads}
            \cup {InCs, Value, Counter, Turn}

VARIABLES
    method,             \* which program is run
    pc, phase,          \* where each thread is; inside a protected store
    me, i, max,         \* each thread's locals
    iterations,         \* threadData[t].iterations
    expired,            \* time(NULL) has reached endTime
    main, created,      \* where main is, and its loop variable
    queue,              \* history: who waits for or holds the ticket lock
    ahead               \* history: who had a ticket when the thread came

mainVars == <<method, expired, main, created>>
locals == <<me, i, max, iterations>>
vars == <<mem, buffer, pc, phase, locals, mainVars, queue, ahead>>

\* The three stores that take a ticket, in the order of the code.
Stages == {"choose", "ticket", "chosen"}
Phases == {"take", "spin", "store", "give"}
Labels == Stages \cup {"new", "loop", "scan", "reread", "wait", "test", "less", "tie",
                       "cs0", "cs1", "cs2", "cs3", "leave", "done"}
Waiting == {"wait", "test", "less", "tie"}
Critical == {"cs0", "cs1", "cs2", "cs3", "leave"}

Over == {"exited", "error", "aborted"}
Running == main \notin Over

Init ==
    /\ method \in Methods
    /\ mem = [x \in Cells |-> 0]
    /\ buffer = [t \in Threads |-> <<>>]
    /\ pc = [t \in Threads |-> "new"]
    /\ phase = [t \in Threads |-> "take"]
    /\ me = [t \in Threads |-> 0]
    /\ i = [t \in Threads |-> 0]
    /\ max = [t \in Threads |-> 0]
    /\ iterations = [t \in Threads |-> 0]
    /\ expired = FALSE
    /\ main = "spawn"
    /\ created = 0
    /\ queue = <<>>
    /\ ahead = [t \in Threads |-> {}]

At(t, l) == Running /\ pc[t] = l
Goto(t, l) == pc' = [pc EXCEPT ![t] = l]

-----------------------------------------------------------------------------
(* The memory.                                                               *)

Drain(t) ==
    /\ Running
    /\ Flush(t)
    /\ UNCHANGED <<pc, phase, locals, mainVars, queue, ahead>>

-----------------------------------------------------------------------------
(* A store of the bakery, with what protects it.                             *)

AtPhase(t, p) == Running /\ pc[t] \in Stages /\ phase[t] = p
GotoPhase(t, p) == phase' = [phase EXCEPT ![t] = p]

\* Mutant: the spin lock is tested and set in two instructions.
MutTake(t) ==
    /\ AtPhase(t, "take")
    /\ method = "spin"
    /\ Read(t, Value) = 0
    /\ Store(t, Value, 1)
    /\ GotoPhase(t, "store")
    /\ UNCHANGED <<mem, pc, locals, mainVars, queue, ahead>>

\* spin_lock: the compare-and-swap that finds 0, or the ticket lock's add.
Take(t) ==
    /\ AtPhase(t, "take")
    /\ \/ /\ method = "mfence"
          /\ GotoPhase(t, "store")
          /\ UNCHANGED <<mem, buffer, me, queue>>
       \/ /\ method = "spin"
          /\ CmpXchg(t, Value)
          /\ GotoPhase(t, "store")
          /\ UNCHANGED <<me, queue>>
       \/ /\ method = "ticket"
          /\ Drained(t)
          /\ me' = [me EXCEPT ![t] = mem[Counter]]
          /\ mem' = [mem EXCEPT ![Counter] = (@ + 1) % Modulus]
          /\ queue' = Append(queue, t)
          /\ GotoPhase(t, "spin")
          /\ UNCHANGED buffer
    /\ UNCHANGED <<pc, i, max, iterations, mainVars, ahead>>

\* Mutant: the turns are compared by their order, which a wrap turns round.
MutSpin(t) ==
    /\ AtPhase(t, "spin")
    /\ me[t] <= Read(t, Turn)
    /\ GotoPhase(t, "store")
    /\ UNCHANGED <<mem, buffer, pc, locals, mainVars, queue, ahead>>

\* while(me != s->turn)
Spin(t) ==
    /\ AtPhase(t, "spin")
    /\ me[t] = Read(t, Turn)
    /\ GotoPhase(t, "store")
    /\ UNCHANGED <<mem, buffer, pc, locals, mainVars, queue, ahead>>

\* choosing[me] = 1, number[me] = max + 1, choosing[me] = 0
StoreCell(t) ==
    /\ AtPhase(t, "store")
    /\ \/ /\ pc[t] = "choose"
          /\ Store(t, Choosing(t), 1)
          /\ ahead' = [ahead EXCEPT ![t] = {u \in Threads : pc[u] \in Waiting \cup Critical}]
       \/ pc[t] = "ticket" /\ Store(t, Number(t), max[t] + 1) /\ UNCHANGED ahead
       \/ pc[t] = "chosen" /\ Store(t, Choosing(t), 0) /\ UNCHANGED ahead
    /\ GotoPhase(t, "give")
    /\ UNCHANGED <<mem, pc, locals, mainVars, queue>>

\* The code after a protected store: the loops start over, max is reset.
NextStage(t) ==
    /\ GotoPhase(t, "take")
    /\ \/ /\ pc[t] = "choose"
          /\ Goto(t, "scan")
          /\ i' = [i EXCEPT ![t] = 0]
          /\ max' = [max EXCEPT ![t] = 0]
       \/ /\ pc[t] = "ticket"
          /\ Goto(t, "chosen")
          /\ UNCHANGED <<i, max>>
       \/ /\ pc[t] = "chosen"
          /\ Goto(t, "wait")
          /\ i' = [i EXCEPT ![t] = 0]
          /\ UNCHANGED max

\* Mutant: the fences are left out.
MutGive(t) ==
    /\ AtPhase(t, "give")
    /\ method = "mfence"
    /\ NextStage(t)
    /\ UNCHANGED <<mem, buffer, me, iterations, mainVars, queue, ahead>>

\* mfence; or spin_unlock, a plain store or an atomic add.
Give(t) ==
    /\ AtPhase(t, "give")
    /\ \/ /\ method = "mfence"
          /\ Drained(t)
          /\ UNCHANGED <<mem, buffer, queue>>
       \/ /\ method = "spin"
          /\ Store(t, Value, 0)
          /\ UNCHANGED <<mem, queue>>
       \/ /\ method = "ticket"
          /\ Drained(t)
          /\ mem' = [mem EXCEPT ![Turn] = (@ + 1) % Modulus]
          /\ queue' = Tail(queue)
          /\ UNCHANGED buffer
    /\ NextStage(t)
    /\ UNCHANGED <<me, iterations, mainVars, ahead>>

-----------------------------------------------------------------------------
(* threadFunction: the rest is the code of problem_1.c.                      *)

quiet == <<mem, buffer, phase, me, mainVars, queue, ahead>>

\* while(time(NULL) < endTime), MaxIterations bounds the entries.
LoopTest(t) ==
    /\ At(t, "loop")
    /\ \/ ~expired /\ iterations[t] < MaxIterations[t] /\ Goto(t, "choose")
       \/ expired /\ Goto(t, "done")
    /\ UNCHANGED <<quiet, i, max, iterations>>

\* The first read of number[i]: is it larger than max?
Scan(t) ==
    /\ At(t, "scan")
    /\ i[t] < numThreads
    /\ IF Read(t, Number(i[t])) > max[t]
       THEN Goto(t, "reread") /\ UNCHANGED i
       ELSE i' = [i EXCEPT ![t] = @ + 1] /\ UNCHANGED pc
    /\ UNCHANGED <<quiet, max, iterations>>

\* Mutant: the 1 is added here already, and once more when the ticket is taken.
MutReread(t) ==
    /\ At(t, "reread")
    /\ max' = [max EXCEPT ![t] = Read(t, Number(i[t])) + 1]
    /\ i' = [i EXCEPT ![t] = @ + 1]
    /\ Goto(t, "scan")
    /\ UNCHANGED <<quiet, iterations>>

\* The second read is the one that is kept.
Reread(t) ==
    /\ At(t, "reread")
    /\ max' = [max EXCEPT ![t] = Read(t, Number(i[t]))]
    /\ i' = [i EXCEPT ![t] = @ + 1]
    /\ Goto(t, "scan")
    /\ UNCHANGED <<quiet, iterations>>

ScanEnd(t) ==
    /\ At(t, "scan")
    /\ i[t] = numThreads
    /\ Goto(t, "ticket")
    /\ UNCHANGED <<quiet, i, max, iterations>>

\* while(choosing[i] == 1), one read.
WaitChoosing(t) ==
    /\ At(t, "wait")
    /\ i[t] < numThreads
    /\ Read(t, Choosing(i[t])) # 1
    /\ Goto(t, "test")
    /\ UNCHANGED <<quiet, i, max, iterations>>

NextOne(t) == i' = [i EXCEPT ![t] = @ + 1] /\ Goto(t, "wait")

\* number[i] != 0
WaitTest(t) ==
    /\ At(t, "test")
    /\ IF Read(t, Number(i[t])) # 0
       THEN Goto(t, "less") /\ UNCHANGED i
       ELSE NextOne(t)
    /\ UNCHANGED <<quiet, max, iterations>>

\* number[i] < number[data->threadId]: if so, another round.
WaitLess(t) ==
    /\ At(t, "less")
    /\ Goto(t, IF Read(t, Number(i[t])) < Read(t, Number(t)) THEN "test" ELSE "tie")
    /\ UNCHANGED <<quiet, i, max, iterations>>

\* The same ticket, and i is the smaller thread: another round.
WaitTie(t) ==
    /\ At(t, "tie")
    /\ IF Read(t, Number(i[t])) = Read(t, Number(t)) /\ i[t] < t
       THEN Goto(t, "test") /\ UNCHANGED i
       ELSE NextOne(t)
    /\ UNCHANGED <<quiet, max, iterations>>

\* Mutant: <= for <, the last thread is not waited for.
MutWaitEnd(t) ==
    /\ At(t, "wait")
    /\ i[t] = numThreads - 1
    /\ iterations' = [iterations EXCEPT ![t] = @ + 1]
    /\ Goto(t, "cs0")
    /\ UNCHANGED <<quiet, i, max>>

WaitEnd(t) ==
    /\ At(t, "wait")
    /\ i[t] = numThreads
    /\ iterations' = [iterations EXCEPT ![t] = @ + 1]
    /\ Goto(t, "cs0")
    /\ UNCHANGED <<quiet, i, max>>

CsNext == [cs0 |-> "cs1", cs1 |-> "cs2", cs2 |-> "cs3", cs3 |-> "leave"]
CsValue == [cs0 |-> 0, cs1 |-> 1, cs2 |-> 2, cs3 |-> 3]

\* assert(in_cs == k), and then in_cs++, or in_cs = 0 after the last assert.
\* None of it is fenced.  A failed assert aborts the process.
CsStep(t) ==
    \E l \in DOMAIN CsNext :
        /\ At(t, l)
        /\ IF Read(t, InCs) = CsValue[l]
           THEN /\ Store(t, InCs, (CsValue[l] + 1) % 4)
                /\ Goto(t, CsNext[l])
                /\ UNCHANGED main
           ELSE main' = "aborted" /\ UNCHANGED <<buffer, pc>>
        /\ UNCHANGED <<mem, phase, locals, method, expired, created, queue, ahead>>

\* Mutant: the ticket is kept.
MutLeave(t) ==
    /\ At(t, "leave")
    /\ Goto(t, "loop")
    /\ UNCHANGED <<quiet, i, max, iterations>>

\* number[data->threadId] = 0, with no fence and no lock.
Leave(t) ==
    /\ At(t, "leave")
    /\ Store(t, Number(t), 0)
    /\ ahead' = [u \in Threads |-> IF u = t THEN {} ELSE ahead[u] \ {t}]
    /\ Goto(t, "loop")
    /\ UNCHANGED <<mem, phase, locals, mainVars, queue>>

ThreadStep(t) ==
    \/ LoopTest(t) \/ Take(t) \/ Spin(t) \/ StoreCell(t) \/ Give(t)
    \/ Scan(t) \/ Reread(t) \/ ScanEnd(t)
    \/ WaitChoosing(t) \/ WaitTest(t) \/ WaitLess(t) \/ WaitTie(t)
    \/ WaitEnd(t) \/ CsStep(t) \/ Leave(t)

-----------------------------------------------------------------------------
(* main and the clock, as in problem_1.c.                                    *)

threadVars == <<method, mem, buffer, phase, locals, queue, ahead>>

Spawn ==
    /\ main = "spawn"
    /\ \/ /\ created < numThreads
          /\ created' = created + 1
          /\ Goto(created, "loop")
          /\ UNCHANGED main
       \/ created < numThreads /\ main' = "error" /\ UNCHANGED <<created, pc>>
       \/ created = numThreads /\ main' = "join" /\ UNCHANGED <<created, pc>>
    /\ UNCHANGED <<expired, threadVars>>

Join ==
    /\ main = "join"
    /\ \A t \in Threads : pc[t] = "done"
    /\ main' = "exited"
    /\ UNCHANGED <<pc, expired, created, threadVars>>

Tick == Running /\ ~expired /\ expired' = TRUE /\ UNCHANGED <<pc, main, created, threadVars>>

Terminated == ~Running /\ UNCHANGED vars

Next == \/ \E t \in Threads : ThreadStep(t) \/ Drain(t)
        \/ Spawn \/ Join \/ Tick \/ Terminated

Spec == Init /\ [][Next]_vars

\* Threads run, stores reach the memory, time passes.
FairSpec == /\ Spec
            /\ \A t \in Threads : WF_vars(ThreadStep(t)) /\ WF_vars(Drain(t))
            /\ WF_vars(Spawn \/ Join)
            /\ WF_vars(Tick)

-----------------------------------------------------------------------------
(* Properties.                                                               *)

\* Never two threads in the critical section: fences only after the stores, as
\* problem_3.c has it, or locks around them, as problem_4.c and problem_5.c
\* have it, make up for the store buffers.
MutualExclusion ==
    \A t, u \in Threads : pc[t] \in Critical /\ pc[u] \in Critical => t = u

\* No assert on in_cs fails, although in_cs is never fenced: the store that
\* gives the ticket back cannot overtake the one that resets in_cs.
NoAssertFails == main # "aborted"

\* The threads inside the lock of a protected store.
Holders == {t \in Threads : AtPhase(t, "store") \/ AtPhase(t, "give")}

\* The spin locks are locks, although problem_4.c's unlock is a plain store
\* that others see late.
LockExclusion ==
    method # "mfence" => \A t, u \in Holders : t = u

\* The ticket lock is fair, as the head of problem_5.c asks: threads get it in
\* the order in which they came, also when its counters wrap.
ServedInOrder ==
    method = "ticket" => \A t \in Holders : queue # <<>> /\ Head(queue) = t

\* Who is in the queue before thread t.
InFrontOf(t) ==
    {queue[j] : j \in {j \in DOMAIN queue : \E k \in DOMAIN queue : j < k /\ queue[k] = t}}

\* The ticket lock implements the lock of FairLock: a thread comes and joins the
\* line with the add on counter, goes in when it has seen its turn, and leaves with
\* the add on turn.
TicketLock == INSTANCE FairLock WITH
                  Thread <- Threads,
                  coming <- {},
                  line <- {queue[j] : j \in DOMAIN queue},
                  inside <- {t \in Threads : /\ method = "ticket"
                                             /\ pc[t] \in Stages
                                             /\ phase[t] \in {"store", "give"}},
                  ahead <- [t \in Threads |-> InFrontOf(t)]
TicketLockSpec == TicketLock!Spec

\* A thread that has its ticket when another one stores choosing[t] = 1 goes in
\* before it: once it waits, its ticket is in the memory, and stays there.
FirstComeFirstServed ==
    \A t \in Threads : pc[t] \in Critical => ahead[t] = {}

\* The tickets taken so far: thread t has entered with all of them but the last one
\* it may not have entered with yet.
Taken(t) ==
    iterations[t] + IF \/ pc[t] = "ticket" /\ phase[t] = "give"
                       \/ pc[t] \in {"chosen"} \cup Waiting
                    THEN 1 ELSE 0
TicketsTaken == UNION {{t} \X (1 .. Taken(t)) : t \in Threads}

\* No ticket is ever larger than the number of tickets taken, wherever it is on its
\* way: with fewer than 2^31 entries max + 1 does not overflow.
TicketsBounded == \A t, u \in Threads : Read(u, Number(t)) =< Cardinality(TicketsTaken)

\* With its fences or locks the bakery implements the lock of FairLock on these
\* processors too.
Lock == INSTANCE FairLock WITH
            Thread <- Threads,
            coming <- {t \in Threads : \/ pc[t] = "choose" /\ phase[t] = "give"
                                       \/ pc[t] \in {"scan", "reread", "ticket", "chosen"}},
            line <- {t \in Threads : pc[t] \in Waiting \cup Critical},
            inside <- {t \in Threads : pc[t] \in Critical}
LockSpec == Lock!Spec

\* The program ends once its time is over: no thread waits for ever.
AllEnd == <>(main \in {"exited", "error"})
=============================================================================
