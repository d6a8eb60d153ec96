---------------------------- MODULE TSOBakery_proofs ----------------------------
(* Proofs about TSOBakery for every number of threads, every number of entries *)
(* and every width of the ticket lock's counters: the locks are locks, the     *)
(* ticket lock and the bakery implement FairLock, tickets stay small, and no   *)
(* assert fails.                                                               *)
EXTENDS TSOBakery, StoreBuffers_proofs, FunctionTheorems, FiniteSetTheorems

\* The threads are the integers below numThreads.
LEMMA ThreadsInt ==
    /\ numThreads \in Nat
    /\ \A k \in Threads : k \in Nat /\ k < numThreads /\ k + 1 \in 0 .. numThreads
    /\ \A k \in 0 .. numThreads : k < numThreads => k \in Threads
BY ThreadsAssumption DEF Threads

\* The cells are different ones.
LEMMA CellFacts ==
    /\ {InCs, Value, Counter, Turn} \subseteq Cells
    /\ \A t \in Threads : Choosing(t) \in Cells /\ Number(t) \in Cells
    /\ \A t, u \in Threads : /\ Choosing(t) # Number(u)
                             /\ Choosing(t) = Choosing(u) => t = u
                             /\ Number(t) = Number(u) => t = u
    /\ \A t \in Threads : {Choosing(t), Number(t)} \cap {InCs, Value, Counter, Turn} = {}
    /\ InCs \notin {Value, Counter, Turn} /\ Value \notin {Counter, Turn} /\ Counter # Turn
BY DEF Cells, Choosing, Number, InCs, Value, Counter, Turn

\* A turn of the ticket lock is a number, and the next one is the one after it.
LEMMA NextTurn ==
    ASSUME Threads # {}, NEW n \in Nat
    PROVE  /\ Modulus \in Nat \ {0}
           /\ (n + 1) % Modulus \in Nat
           /\ n < Modulus => (n + 1) % Modulus = IF n + 1 = Modulus THEN 0 ELSE n + 1
<1>1. Modulus \in Nat \ {0}
  BY ThreadsInt, ModulusAssumption
<1>2. (n + 1) % Modulus \in Nat
  BY <1>1
<1>3. ASSUME n < Modulus
      PROVE  (n + 1) % Modulus = IF n + 1 = Modulus THEN 0 ELSE n + 1
  BY <1>1, <1>3
<1> QED BY <1>1, <1>2, <1>3

-----------------------------------------------------------------------------
(* Type correctness.                                                         *)

TypeOK ==
    /\ method \in Methods
    /\ MemoryOK(Threads, Cells, Nat)
    /\ pc \in [Threads -> Labels] /\ phase \in [Threads -> Phases]
    /\ me \in [Threads -> Nat] /\ max \in [Threads -> Nat]
    /\ iterations \in [Threads -> Nat]
    /\ i \in [Threads -> 0 .. numThreads]
    /\ \A t \in Threads : pc[t] \in {"reread", "test", "less", "tie"} => i[t] \in Threads
    /\ expired \in BOOLEAN
    /\ main \in {"spawn", "join"} \cup Over
    /\ created \in 0 .. numThreads

\* Only threads that have been created have moved, and only a protected store has a phase.
Started ==
    /\ main = "spawn" => \A t \in Threads : created =< t => pc[t] = "new"
    /\ \A t \in Threads : phase[t] # "take" => pc[t] \in Stages
    /\ \A t \in Threads : phase[t] = "spin" => method = "ticket"

-----------------------------------------------------------------------------
(* What a thread has under way.                                              *)

\* t has stored its ticket, and has not given it back.
Ticketed(t) ==
    \/ pc[t] = "ticket" /\ phase[t] = "give"
    \/ pc[t] \in {"chosen"} \cup Waiting \cup Critical

\* t has announced that it chooses.
Chooses(t) ==
    \/ pc[t] = "choose" /\ phase[t] = "give"
    \/ pc[t] \in {"scan", "reread", "ticket"}
    \/ pc[t] = "chosen" /\ phase[t] # "give"

\* The store of t's ticket may be under way.
Fresh(t) ==
    \/ pc[t] = "ticket" /\ phase[t] = "give"
    \/ method = "spin" /\ pc[t] = "chosen" /\ phase[t] = "take"

\* The store that gives it back may be.
Left(t) ==
    \/ pc[t] \in {"loop", "done"}
    \/ pc[t] = "choose" /\ (phase[t] = "take" \/ method = "mfence")

\* An unlock, or a store of choosing[t], may be under way.
Unlocking(t) ==
    /\ method = "spin"
    /\ pc[t] # "new" /\ phase[t] = "take"

Announcing(t) ==
    \/ pc[t] \in {"choose", "chosen"} /\ phase[t] = "give"
    \/ Unlocking(t) /\ pc[t] # "chosen"

BufferOK(t) ==
    /\ \A x \in Cells : Pending(t, x) => x \in {Choosing(t), Number(t), InCs, Value}
    /\ \A x \in {Choosing(t), Number(t), Value} : Once(buffer[t], x)
    /\ Pending(t, Number(t)) => Fresh(t) \/ Left(t)
    /\ Pending(t, Choosing(t)) => Announcing(t)
    /\ Pending(t, Value) => Unlocking(t) /\ Read(t, Value) = 0
    /\ Pending(t, InCs) => pc[t] \in Critical \/ Left(t)
    /\ method = "spin" /\ phase[t] # "give" => Before(buffer[t], Choosing(t), Value)
    /\ pc[t] \notin Critical => Before(buffer[t], InCs, Number(t))

OwnOK(t) ==
    /\ Read(t, Number(t)) = IF Ticketed(t) THEN max[t] + 1 ELSE 0
    /\ Read(t, Choosing(t)) = IF Chooses(t) THEN 1 ELSE 0
    /\ Pending(t, Number(t)) /\ Fresh(t) => mem[Number(t)] = 0
    /\ Pending(t, Number(t)) /\ Left(t) => mem[Number(t)] = max[t] + 1

OwnInv == \A t \in Threads : BufferOK(t) /\ OwnOK(t)

-----------------------------------------------------------------------------
(* The locks.                                                                *)

\* t holds the spin lock, as the others see it: its unlock may be under way.
Owner(t) == phase[t] \in {"store", "give"} \/ Pending(t, Value)

SpinInv ==
    method = "spin" =>
       /\ \A t, u \in Threads : Owner(t) /\ Owner(u) => t = u
       /\ mem[Value] = 0 => \A t \in Threads : ~Owner(t)

\* k turns after turn a.
Wrap(a, k) == IF a + k < Modulus THEN a + k ELSE a + k - Modulus

QueueInv ==
    method = "ticket" =>
       /\ queue \in Seq(Threads)
       /\ \A j, k \in 1 .. Len(queue) : queue[j] = queue[k] => j = k
       /\ \A t \in Threads : phase[t] # "take" <=> \E k \in 1 .. Len(queue) : queue[k] = t
       /\ \A t \in Threads : phase[t] \in {"store", "give"} => queue # <<>> /\ queue[1] = t
       /\ \A k \in 1 .. Len(queue) : me[queue[k]] = Wrap(mem[Turn], k - 1)
       /\ Threads # {} => mem[Turn] < Modulus /\ mem[Counter] = Wrap(mem[Turn], Len(queue))

-----------------------------------------------------------------------------
(* The order of the tickets.                                                 *)

\* t's ticket is given back, but the others do not see it yet.
Leaving(t) == Left(t) /\ Pending(t, Number(t))

HasTicket(t) == Ticketed(t) \/ Leaving(t)

\* t is waiting, or inside, or leaving: its ticket is in the memory.
InLine(t) == pc[t] \in Waiting \cup Critical \/ Leaving(t)

\* t is inside or leaving, as far as the others see.
Inside(t) == pc[t] \in Critical \/ Leaving(t)

\* t does not wait for u any more.
Passed(t, u) == Inside(t) \/ (pc[t] \in Waiting /\ u < i[t])

Precedes(t, u) == max[t] < max[u] \/ (max[t] = max[u] /\ t < u)

\* If u is choosing its ticket, it will be larger than t's.
WillFollow(u, t) ==
    /\ pc[u] = "scan" => i[u] =< t \/ max[t] + 1 =< max[u]
    /\ pc[u] = "reread" => i[u] =< t \/ max[t] + 1 < mem[Number(i[u])]
    /\ pc[u] = "ticket" /\ phase[u] # "give" => max[t] + 1 =< max[u]

\* A thread that t has passed has a later ticket, or will have one.
PassedInv ==
    \A t, u \in Threads : t # u /\ Passed(t, u) =>
        /\ WillFollow(u, t)
        /\ HasTicket(u) => Precedes(t, u)

\* So will the thread that t waits for, unless t sees its ticket.
WatchedInv ==
    \A t, u \in Threads : t # u /\ pc[t] \in {"test", "less", "tie"} /\ i[t] = u =>
        /\ WillFollow(u, t)
        /\ Ticketed(u) /\ mem[Number(u)] = 0 => max[t] < max[u]
        /\ pc[t] = "tie" /\ HasTicket(u) => max[t] =< max[u]

\* And so will one that chooses unseen.
UnseenInv ==
    \A t, u \in Threads : t # u /\ InLine(t) /\ mem[Choosing(u)] # 1 => WillFollow(u, t)

\* And so will one that came when t had its ticket already.
AheadInv ==
    /\ ahead \in [Threads -> SUBSET Threads]
    /\ \A u \in Threads : \A t \in ahead[u] :
          /\ t # u /\ pc[t] \in Waiting \cup Critical
          /\ WillFollow(u, t)
          /\ Ticketed(u) => Precedes(t, u)

-----------------------------------------------------------------------------
(* The critical section's counter.                                           *)

\* What is in in_cs when t is there.
InCsAt(t) == IF pc[t] \in DOMAIN CsValue THEN CsValue[pc[t]] ELSE 0

CounterInv ==
    /\ \A t \in Threads : Inside(t) => Read(t, InCs) = InCsAt(t)
    /\ (\A t \in Threads : ~Inside(t)) => mem[InCs] = 0

-----------------------------------------------------------------------------
(* Type correctness is kept.                                                 *)

\* The types of what a thread changes apart from the memory.
LocalTypes ==
    /\ method \in Methods
    /\ pc \in [Threads -> Labels] /\ phase \in [Threads -> Phases]
    /\ me \in [Threads -> Nat] /\ max \in [Threads -> Nat]
    /\ iterations \in [Threads -> Nat]
    /\ i \in [Threads -> 0 .. numThreads]
    /\ \A t \in Threads : pc[t] \in {"reread", "test", "less", "tie"} => i[t] \in Threads
    /\ expired \in BOOLEAN
    /\ main \in {"spawn", "join"} \cup Over
    /\ created \in 0 .. numThreads

\* Every step of a thread but its stores, its locked instructions and its unlocks leaves
\* the memory alone.
LEMMA QuietSteps ==
    ASSUME TypeOK, NEW t \in Threads,
           \/ LoopTest(t) \/ Spin(t) \/ Scan(t) \/ Reread(t) \/ ScanEnd(t)
           \/ WaitChoosing(t) \/ WaitTest(t) \/ WaitLess(t) \/ WaitTie(t) \/ WaitEnd(t)
    PROVE  UNCHANGED <<mem, buffer, me, queue, mainVars>>
<1>1. CASE LoopTest(t) BY <1>1 DEF LoopTest, quiet
<1>2. CASE Spin(t) BY <1>2 DEF Spin, locals
<1>3. CASE Scan(t) BY <1>3 DEF Scan, quiet
<1>4. CASE Reread(t) BY <1>4 DEF Reread, quiet
<1>5. CASE ScanEnd(t) BY <1>5 DEF ScanEnd, quiet
<1>6. CASE WaitChoosing(t) BY <1>6 DEF WaitChoosing, quiet
<1>7. CASE WaitTest(t) BY <1>7 DEF WaitTest, quiet
<1>8. CASE WaitLess(t) BY <1>8 DEF WaitLess, quiet
<1>9. CASE WaitTie(t) BY <1>9 DEF WaitTie, quiet
<1>10. CASE WaitEnd(t) BY <1>10 DEF WaitEnd, quiet
<1> QED BY <1>1, <1>2, <1>3, <1>4, <1>5, <1>6, <1>7, <1>8, <1>9, <1>10

\* Every step keeps the types.
LEMMA TypeKept ==
    ASSUME TypeOK, [Next]_vars
    PROVE  TypeOK'
<1>1. LocalTypes /\ MemoryOK(Threads, Cells, Nat)
  BY DEF TypeOK, LocalTypes
<1> SUFFICES LocalTypes' /\ MemoryOK(Threads, Cells, Nat)'
  BY DEF TypeOK, LocalTypes
<1> USE DEF LocalTypes, Labels, Stages, Phases, Over, Goto, GotoPhase, At, AtPhase, mainVars, locals
<1>2. ASSUME NEW t \in Threads, ThreadStep(t)
      PROVE  LocalTypes' /\ MemoryOK(Threads, Cells, Nat)'
  <2>1. CASE \/ LoopTest(t) \/ Spin(t) \/ Scan(t) \/ Reread(t) \/ ScanEnd(t)
             \/ WaitChoosing(t) \/ WaitTest(t) \/ WaitLess(t) \/ WaitTie(t) \/ WaitEnd(t)
    <3>1. UNCHANGED <<mem, buffer, me, queue, method, expired, main, created>>
      BY <2>1, QuietSteps
    <3>2. MemoryOK(Threads, Cells, Nat)'
      BY <1>1, <3>1 DEF MemoryOK
    <3> SUFFICES LocalTypes'
      BY <3>2
    <3>3. ASSUME NEW u \in Threads
          PROVE  Read(t, Number(u)) \in Nat
      <4>1. MemoryOK(Threads, Cells, Nat) /\ Number(u) \in Cells
        BY <1>1, CellFacts
      <4> QED BY <4>1, ReadType
    <3>4. CASE LoopTest(t) BY <1>1, <3>1, <3>4 DEF LoopTest, quiet
    <3>5. CASE Spin(t) BY <1>1, <3>1, <3>5 DEF Spin
    <3>6. CASE Scan(t)
      <4>1. i[t] \in Threads
        BY <1>1, <3>6, ThreadsInt DEF Scan
      <4>2. i[t] + 1 \in 0 .. numThreads
        BY <4>1, ThreadsInt
      <4> QED BY <1>1, <3>1, <3>6, <4>1, <4>2 DEF Scan, quiet
    <3>7. CASE Reread(t)
      <4>1. i[t] \in Threads
        BY <1>1, <3>7 DEF Reread
      <4>2. i[t] + 1 \in 0 .. numThreads
        BY <4>1, ThreadsInt
      <4>3. max' \in [Threads -> Nat]
        BY <1>1, <3>3, <3>7, <4>1 DEF Reread
      <4> QED BY <1>1, <3>1, <3>7, <4>1, <4>2, <4>3 DEF Reread, quiet
    <3>8. CASE ScanEnd(t) BY <1>1, <3>1, <3>8 DEF ScanEnd, quiet
    <3>9. CASE WaitChoosing(t)
      <4>1. i[t] \in Threads
        BY <1>1, <3>9, ThreadsInt DEF WaitChoosing
      <4> QED BY <1>1, <3>1, <3>9, <4>1 DEF WaitChoosing, quiet
    <3>10. CASE WaitTest(t)
      <4>1. i[t] \in Threads
        BY <1>1, <3>10 DEF WaitTest
      <4>2. i[t] + 1 \in 0 .. numThreads
        BY <4>1, ThreadsInt
      <4> QED BY <1>1, <3>1, <3>10, <4>1, <4>2 DEF WaitTest, NextOne, quiet
    <3>11. CASE WaitLess(t) BY <1>1, <3>1, <3>11 DEF WaitLess, quiet
    <3>12. CASE WaitTie(t)
      <4>1. i[t] \in Threads
        BY <1>1, <3>12 DEF WaitTie
      <4>2. i[t] + 1 \in 0 .. numThreads
        BY <4>1, ThreadsInt
      <4> QED BY <1>1, <3>1, <3>12, <4>1, <4>2 DEF WaitTie, NextOne, quiet
    <3>13. CASE WaitEnd(t) BY <1>1, <3>1, <3>13 DEF WaitEnd, quiet
    <3> QED BY <2>1, <3>4, <3>5, <3>6, <3>7, <3>8, <3>9, <3>10, <3>11, <3>12, <3>13
  <2>2. CASE Take(t)
    <3>1. LocalTypes'
      <4>1. mem[Counter] \in Nat
        BY <1>1, CellFacts DEF MemoryOK
      <4> QED BY <1>1, <2>2, <4>1 DEF Take
    <3>2. CASE UNCHANGED <<mem, buffer>>
      BY <1>1, <3>1, <3>2 DEF MemoryOK
    <3>3. CASE CmpXchg(t, Value)
      BY <1>1, <3>1, <3>3, CellFacts DEF CmpXchg, MemoryOK
    <3>4. CASE mem' = [mem EXCEPT ![Counter] = (@ + 1) % Modulus] /\ UNCHANGED buffer
      <4>1. (mem[Counter] + 1) % Modulus \in Nat
        BY <1>1, NextTurn, CellFacts DEF MemoryOK
      <4> QED BY <1>1, <3>1, <3>4, <4>1 DEF MemoryOK
    <3> QED BY <2>2, <3>2, <3>3, <3>4 DEF Take
  <2>3. CASE StoreCell(t)
    <3>1. LocalTypes'
      BY <1>1, <2>3 DEF StoreCell
    <3>2. PICK x \in Cells, v \in Nat : Store(t, x, v)
      BY <1>1, <2>3, CellFacts DEF StoreCell
    <3> QED BY <1>1, <2>3, <3>1, <3>2, StoreFacts DEF StoreCell
  <2>4. CASE Give(t)
    <3>1. LocalTypes'
      <4>1. 0 \in 0 .. numThreads
        BY ThreadsInt
      <4>2. NextStage(t) /\ UNCHANGED <<me, iterations, method, expired, main, created>>
        BY <2>4 DEF Give
      <4>3. pc' \in [Threads -> Labels] /\ phase' \in [Threads -> Phases]
        BY <1>1, <4>2 DEF NextStage
      <4>4. i' \in [Threads -> 0 .. numThreads] /\ max' \in [Threads -> Nat]
        BY <1>1, <4>1, <4>2 DEF NextStage
      <4>5. \A u \in Threads : pc'[u] \in {"reread", "test", "less", "tie"} => i'[u] \in Threads
        BY <1>1, <4>2 DEF NextStage
      <4> QED BY <1>1, <4>2, <4>3, <4>4, <4>5
    <3>2. CASE UNCHANGED <<mem, buffer>>
      BY <1>1, <3>1, <3>2 DEF MemoryOK
    <3>3. CASE Store(t, Value, 0) /\ UNCHANGED mem
      BY <1>1, <3>1, <3>3, CellFacts, StoreFacts
    <3>4. CASE mem' = [mem EXCEPT ![Turn] = (@ + 1) % Modulus] /\ UNCHANGED buffer
      <4>1. (mem[Turn] + 1) % Modulus \in Nat
        BY <1>1, NextTurn, CellFacts DEF MemoryOK
      <4> QED BY <1>1, <3>1, <3>4, <4>1 DEF MemoryOK
    <3> QED BY <2>4, <3>2, <3>3, <3>4 DEF Give
  <2>5. CASE CsStep(t)
    <3>1. PICK l \in DOMAIN CsNext : CsStep(t)!(l)
      BY <2>5 DEF CsStep
    <3>2. CsNext[l] \in Labels /\ CsNext[l] \notin {"reread", "test", "less", "tie"}
      BY DEF CsNext
    <3>3. LocalTypes'
      BY <1>1, <3>1, <3>2
    <3>4. CASE UNCHANGED <<mem, buffer>>
      BY <1>1, <3>3, <3>4 DEF MemoryOK
    <3>5. CASE Store(t, InCs, (CsValue[l] + 1) % 4) /\ UNCHANGED mem
      <4>1. PICK v \in Nat : v = (CsValue[l] + 1) % 4
        BY DEF CsNext, CsValue
      <4>2. InCs \in Cells /\ MemoryOK(Threads, Cells, Nat)
        BY <1>1, CellFacts
      <4>3. Store(t, InCs, v) /\ mem' = mem
        BY <3>5, <4>1
      <4> QED BY <3>3, <4>2, <4>3, StoreFacts
    <3> QED BY <3>1, <3>4, <3>5
  <2>6. CASE Leave(t)
    <3>1. LocalTypes'
      BY <1>1, <2>6 DEF Leave
    <3> QED BY <1>1, <2>6, <3>1, CellFacts, StoreFacts DEF Leave
  <2> QED BY <1>2, <2>1, <2>2, <2>3, <2>4, <2>5, <2>6 DEF ThreadStep
<1>3. ASSUME NEW t \in Threads, Drain(t)
      PROVE  LocalTypes' /\ MemoryOK(Threads, Cells, Nat)'
  BY <1>1, <1>3, FlushFacts DEF Drain
<1>4. CASE Spawn
  <2>1. MemoryOK(Threads, Cells, Nat)'
    BY <1>1, <1>4 DEF Spawn, threadVars, MemoryOK
  <2>2. CASE created < numThreads /\ created' = created + 1 /\ Goto(created, "loop")
    <3>1. created' \in 0 .. numThreads /\ created \in Threads
      BY <1>1, <2>2, ThreadsInt
    <3> QED BY <1>1, <1>4, <2>1, <2>2, <3>1 DEF Spawn, threadVars
  <2> QED BY <1>1, <1>4, <2>1, <2>2 DEF Spawn, threadVars
<1>5. CASE Join \/ Tick \/ UNCHANGED vars
  BY <1>1, <1>5 DEF Join, Tick, vars, threadVars, MemoryOK
<1> QED BY <1>2, <1>3, <1>4, <1>5 DEF Next, Terminated

\* Every step keeps that threads main has not come to have not moved, and that only
\* protected stores have a phase.
LEMMA StartedKept ==
    ASSUME TypeOK, Started, [Next]_vars
    PROVE  Started'
<1>1. LocalTypes
  BY DEF TypeOK, LocalTypes
<1> USE DEF LocalTypes, Stages, Phases, Goto, GotoPhase, At, AtPhase, mainVars, locals, quiet
<1>2. ASSUME NEW t \in Threads, ThreadStep(t)
      PROVE  Started'
  <2>1. CASE LoopTest(t) BY <1>1, <2>1 DEF LoopTest, Started
  <2>2. CASE Take(t) BY <1>1, <2>2 DEF Take, Started
  <2>3. CASE Spin(t) BY <1>1, <2>3 DEF Spin, Started
  <2>4. CASE StoreCell(t) BY <1>1, <2>4 DEF StoreCell, Started
  <2>5. CASE Give(t) BY <1>1, <2>5 DEF Give, NextStage, Started
  <2>6. CASE Scan(t) BY <1>1, <2>6 DEF Scan, Started
  <2>7. CASE Reread(t) BY <1>1, <2>7 DEF Reread, Started
  <2>8. CASE ScanEnd(t) BY <1>1, <2>8 DEF ScanEnd, Started
  <2>9. CASE WaitChoosing(t) BY <1>1, <2>9 DEF WaitChoosing, Started
  <2>10. CASE WaitTest(t) BY <1>1, <2>10 DEF WaitTest, NextOne, Started
  <2>11. CASE WaitLess(t) BY <1>1, <2>11 DEF WaitLess, Started
  <2>12. CASE WaitTie(t) BY <1>1, <2>12 DEF WaitTie, NextOne, Started
  <2>13. CASE WaitEnd(t) BY <1>1, <2>13 DEF WaitEnd, Started
  <2>14. CASE CsStep(t) BY <1>1, <2>14 DEF CsStep, CsNext, Started
  <2>15. CASE Leave(t) BY <1>1, <2>15 DEF Leave, Started
  <2> QED BY <1>2, <2>1, <2>2, <2>3, <2>4, <2>5, <2>6, <2>7, <2>8, <2>9, <2>10, <2>11, <2>12,
             <2>13, <2>14, <2>15 DEF ThreadStep
<1>3. ASSUME NEW t \in Threads, Drain(t)
      PROVE  Started'
  BY <1>3 DEF Drain, Started
<1>4. CASE Spawn
  <2>1. CASE created < numThreads /\ created' = created + 1 /\ Goto(created, "loop")
    <3>1. created \in 0 .. numThreads
      BY <1>1
    <3>2. created \in Threads /\ \A t \in Threads : created + 1 =< t => t # created /\ created =< t
      BY <2>1, <3>1, ThreadsInt
    <3>3. pc[created] = "new"
      BY <1>4, <3>1, <3>2, ThreadsInt DEF Spawn, Started
    <3> QED BY <1>1, <1>4, <2>1, <3>2, <3>3 DEF Spawn, Started, threadVars
  <2> QED BY <1>4, <2>1 DEF Spawn, Started, threadVars
<1>5. CASE Join \/ Tick \/ UNCHANGED vars
  BY <1>5 DEF Join, Tick, vars, threadVars, Started
<1> QED BY <1>2, <1>3, <1>4, <1>5 DEF Next, Terminated

\* Every variable always has its type.
THEOREM TypeCorrect == Spec => [](TypeOK /\ Started)
<1>1. Init => TypeOK /\ Started
  <2> SUFFICES ASSUME Init PROVE TypeOK /\ Started
    OBVIOUS
  <2>1. MemoryOK(Threads, Cells, Nat)
    BY InitFacts DEF Init
  <2>2. 0 \in 0 .. numThreads
    BY ThreadsInt
  <2> QED BY <2>1, <2>2 DEF Init, TypeOK, Started, Labels, Stages, Phases, Over
<1>2. TypeOK /\ Started /\ [Next]_vars => (TypeOK /\ Started)'
  BY TypeKept, StartedKept
<1> QED BY <1>1, <1>2, PTL DEF Spec

-----------------------------------------------------------------------------
(* What the steps leave alone.                                               *)

\* A step of a thread changes nothing of another thread, and of the memory at most the
\* cells of the locks.
LEMMA Frame ==
    ASSUME TypeOK, NEW v \in Threads, ThreadStep(v)
    PROVE  /\ method' = method
           /\ \A u \in Threads \ {v} :
                /\ pc'[u] = pc[u] /\ phase'[u] = phase[u] /\ i'[u] = i[u] /\ max'[u] = max[u]
                /\ me'[u] = me[u] /\ buffer'[u] = buffer[u]
           /\ \A x \in Cells \ {Value, Counter, Turn} : mem'[x] = mem[x]
<1>1. buffer \in [Threads -> Seq(Stores(Cells, Nat))] /\ mem \in [Cells -> Nat]
  BY DEF TypeOK, MemoryOK
<1> DEFINE Rest(u) == pc'[u] = pc[u] /\ phase'[u] = phase[u] /\ i'[u] = i[u] /\ max'[u] = max[u]
                      /\ me'[u] = me[u]
<1>2. ASSUME NEW x, NEW w, Store(v, x, w)
      PROVE  \A u \in Threads \ {v} : buffer'[u] = buffer[u]
  BY <1>1, <1>2 DEF Store
<1> USE DEF TypeOK, At, AtPhase, Goto, GotoPhase, quiet, locals, mainVars
<1>3. CASE \/ LoopTest(v) \/ Spin(v) \/ Scan(v) \/ Reread(v) \/ ScanEnd(v)
           \/ WaitChoosing(v) \/ WaitTest(v) \/ WaitLess(v) \/ WaitTie(v) \/ WaitEnd(v)
  <2>1. UNCHANGED <<mem, buffer, method, me>>
    BY <1>3, QuietSteps
  <2>2. \A u \in Threads \ {v} : Rest(u)
    <3>1. CASE LoopTest(v) BY <2>1, <3>1 DEF LoopTest
    <3>2. CASE Spin(v) BY <2>1, <3>2 DEF Spin
    <3>3. CASE Scan(v) BY <2>1, <3>3 DEF Scan
    <3>4. CASE Reread(v) BY <2>1, <3>4 DEF Reread
    <3>5. CASE ScanEnd(v) BY <2>1, <3>5 DEF ScanEnd
    <3>6. CASE WaitChoosing(v) BY <2>1, <3>6 DEF WaitChoosing
    <3>7. CASE WaitTest(v) BY <2>1, <3>7 DEF WaitTest, NextOne
    <3>8. CASE WaitLess(v) BY <2>1, <3>8 DEF WaitLess
    <3>9. CASE WaitTie(v) BY <2>1, <3>9 DEF WaitTie, NextOne
    <3>10. CASE WaitEnd(v) BY <2>1, <3>10 DEF WaitEnd
    <3> QED BY <1>3, <3>1, <3>2, <3>3, <3>4, <3>5, <3>6, <3>7, <3>8, <3>9, <3>10
  <2> QED BY <2>1, <2>2
<1>4. CASE Take(v)
  <2>1. \A u \in Threads \ {v} : Rest(u)
    BY <1>4 DEF Take
  <2>2. buffer' = buffer /\ method' = method /\ \A x \in Cells \ {Value, Counter} : mem'[x] = mem[x]
    BY <1>1, <1>4 DEF Take, CmpXchg
  <2> QED BY <2>1, <2>2
<1>5. CASE StoreCell(v)
  <2>1. \A u \in Threads \ {v} : Rest(u) /\ mem' = mem /\ method' = method
    BY <1>5 DEF StoreCell
  <2>2. \A u \in Threads \ {v} : buffer'[u] = buffer[u]
    BY <1>2, <1>5 DEF StoreCell
  <2>3. mem' = mem /\ method' = method
    BY <1>5 DEF StoreCell
  <2> QED BY <2>1, <2>2, <2>3
<1>6. CASE Give(v)
  <2>1. NextStage(v) /\ UNCHANGED <<me, method>>
    BY <1>6 DEF Give
  <2>2. \A u \in Threads \ {v} : Rest(u)
    BY <2>1 DEF NextStage
  <2>3. \A u \in Threads \ {v} : buffer'[u] = buffer[u]
    BY <1>2, <1>6 DEF Give
  <2>4. \A x \in Cells \ {Value, Counter, Turn} : mem'[x] = mem[x]
    BY <1>1, <1>6 DEF Give
  <2> QED BY <2>1, <2>2, <2>3, <2>4
<1>7. CASE CsStep(v)
  <2>1. PICK l \in DOMAIN CsNext : CsStep(v)!(l)
    BY <1>7 DEF CsStep
  <2>2. UNCHANGED <<mem, phase, me, i, max, method>> /\ \A u \in Threads \ {v} : pc'[u] = pc[u]
    BY <2>1
  <2>3. \A u \in Threads \ {v} : buffer'[u] = buffer[u]
    BY <1>2, <2>1
  <2> QED BY <2>2, <2>3
<1>8. CASE Leave(v)
  <2>1. UNCHANGED <<mem, phase, me, i, max, method>> /\ \A u \in Threads \ {v} : pc'[u] = pc[u]
    BY <1>8 DEF Leave
  <2>2. \A u \in Threads \ {v} : buffer'[u] = buffer[u]
    BY <1>2, <1>8 DEF Leave
  <2> QED BY <2>1, <2>2
<1> QED BY <1>3, <1>4, <1>5, <1>6, <1>7, <1>8 DEF ThreadStep

\* So what another thread reads of the bakery's cells stays the same, and what it has
\* under way.
LEMMA OthersRead ==
    ASSUME TypeOK, NEW v \in Threads, ThreadStep(v), NEW u \in Threads \ {v}
    PROVE  /\ \A x \in Cells \ {Value, Counter, Turn} : Read(u, x)' = Read(u, x)
           /\ Pending(u, Value) => Read(u, Value)' = Read(u, Value)
           /\ \A x : Pending(u, x)' <=> Pending(u, x)
<1>1. MemoryOK(Threads, Cells, Nat) /\ buffer'[u] = buffer[u]
  BY Frame DEF TypeOK
<1>2. ASSUME NEW x \in Cells \ {Value, Counter, Turn}
      PROVE  Read(u, x)' = Read(u, x)
  <2>1. mem'[x] = mem[x]
    BY Frame
  <2> QED BY <1>1, <2>1, ReadSame
<1>3. Pending(u, Value) => Read(u, Value)' = Read(u, Value)
  BY <1>1, ReadSame
<1>4. \A x : Pending(u, x)' <=> Pending(u, x)
  BY <1>1 DEF Pending, InBuffer
<1> QED BY <1>2, <1>3, <1>4

\* main, the clock and a stuttering step change nothing of the threads, except that main
\* starts a thread it has not come to.
LEMMA MainSteps ==
    ASSUME TypeOK, Started, Spawn \/ Join \/ Tick \/ UNCHANGED vars
    PROVE  /\ UNCHANGED <<mem, buffer, method, phase, i, max, me, queue>>
           /\ \A t \in Threads : pc'[t] = pc[t] \/ (pc[t] = "new" /\ pc'[t] = "loop")
<1>1. CASE Spawn
  <2>1. CASE created < numThreads /\ Goto(created, "loop")
    <3>1. created \in 0 .. numThreads
      BY DEF TypeOK
    <3>2. created \in Threads
      BY <2>1, <3>1, ThreadsInt
    <3>3. created =< created
      BY <3>1, ThreadsInt
    <3>4. pc[created] = "new"
      BY <1>1, <3>2, <3>3 DEF Spawn, Started
    <3> QED BY <1>1, <2>1, <3>2, <3>4 DEF Spawn, threadVars, locals, TypeOK, Goto
  <2> QED BY <1>1, <2>1 DEF Spawn, threadVars, locals
<1> QED BY <1>1 DEF Join, Tick, threadVars, vars, locals, mainVars

\* Where a thread goes from where, when it leaves the memory alone.
LEMMA Moves ==
    ASSUME TypeOK, Started, NEW t \in Threads,
           \/ LoopTest(t) \/ Spin(t) \/ Scan(t) \/ Reread(t) \/ ScanEnd(t)
           \/ WaitChoosing(t) \/ WaitTest(t) \/ WaitLess(t) \/ WaitTie(t) \/ WaitEnd(t)
    PROVE  /\ pc[t] # "reread" => max' = max
           /\ \/ /\ phase[t] = "spin" /\ phase'[t] = "store" /\ method = "ticket"
                 /\ pc'[t] = pc[t] /\ pc[t] \in Stages
              \/ /\ phase'[t] = phase[t] /\ phase[t] = "take"
                 /\ \/ pc[t] = "loop" /\ pc'[t] \in {"choose", "done"}
                    \/ pc[t] = "scan" /\ pc'[t] \in {"scan", "reread", "ticket"}
                    \/ pc[t] = "reread" /\ pc'[t] = "scan"
                    \/ pc[t] \in Waiting /\ pc'[t] \in Waiting
                    \/ pc[t] = "wait" /\ pc'[t] = "cs0"
<1> USE DEF TypeOK, At, AtPhase, Goto, GotoPhase, quiet, locals, mainVars, Stages, Phases, Waiting
<1>1. CASE LoopTest(t) BY <1>1 DEF LoopTest, Started
<1>2. CASE Spin(t) BY <1>2 DEF Spin, Started
<1>3. CASE Scan(t) BY <1>3 DEF Scan, Started
<1>4. CASE Reread(t) BY <1>4 DEF Reread, Started
<1>5. CASE ScanEnd(t) BY <1>5 DEF ScanEnd, Started
<1>6. CASE WaitChoosing(t) BY <1>6 DEF WaitChoosing, Started
<1>7. CASE WaitTest(t) BY <1>7 DEF WaitTest, NextOne, Started
<1>8. CASE WaitLess(t) BY <1>8 DEF WaitLess, Started
<1>9. CASE WaitTie(t) BY <1>9 DEF WaitTie, NextOne, Started
<1>10. CASE WaitEnd(t) BY <1>10 DEF WaitEnd, Started
<1> QED BY <1>1, <1>2, <1>3, <1>4, <1>5, <1>6, <1>7, <1>8, <1>9, <1>10

-----------------------------------------------------------------------------
(* What a thread has under way is kept in order.                             *)

\* The cells of a thread, and those of the locks.
LEMMA OwnCells ==
    ASSUME NEW t \in Threads
    PROVE  /\ {Choosing(t), Number(t), InCs, Value} \subseteq Cells
           /\ {Choosing(t), Number(t), InCs} \subseteq Cells \ {Value, Counter, Turn}
           /\ Choosing(t) # Number(t) /\ Choosing(t) # InCs /\ Choosing(t) # Value
           /\ Number(t) # InCs /\ Number(t) # Value /\ InCs # Value
           /\ \A u \in Threads \ {t} : {Choosing(t), Number(t)} \cap {Choosing(u), Number(u)} = {}
<1>1. {Choosing(t), Number(t), InCs, Value} \subseteq Cells
  BY CellFacts
<1>2. /\ Choosing(t) # Number(t) /\ Choosing(t) # InCs /\ Choosing(t) # Value
      /\ Number(t) # InCs /\ Number(t) # Value /\ InCs # Value
      /\ {Choosing(t), Number(t), InCs} \cap {Value, Counter, Turn} = {}
  BY CellFacts
<1>3. ASSUME NEW u \in Threads \ {t}
      PROVE  {Choosing(t), Number(t)} \cap {Choosing(u), Number(u)} = {}
  <2>1. /\ Choosing(t) # Number(u) /\ Choosing(t) # Choosing(u)
        /\ Number(t) # Number(u) /\ Choosing(u) # Number(t)
    BY CellFacts
  <2> QED BY <2>1
<1> QED BY <1>1, <1>2, <1>3

\* What is said of a thread stays true when nothing of it changes.
LEMMA OwnSame ==
    ASSUME NEW u \in Threads, BufferOK(u), OwnOK(u),
           method' = method, pc'[u] = pc[u], phase'[u] = phase[u], max'[u] = max[u],
           buffer'[u] = buffer[u], mem'[Number(u)] = mem[Number(u)],
           Read(u, Number(u))' = Read(u, Number(u)),
           Read(u, Choosing(u))' = Read(u, Choosing(u)),
           Pending(u, Value) => Read(u, Value)' = Read(u, Value)
    PROVE  BufferOK(u)' /\ OwnOK(u)'
<1>1. \A x : Pending(u, x)' <=> Pending(u, x)
  BY DEF Pending, InBuffer
<1>2. /\ \A x : Once(buffer[u], x)' <=> Once(buffer[u], x)
      /\ \A x, y : Before(buffer[u], x, y)' <=> Before(buffer[u], x, y)
  BY DEF Once, Before
<1>3. /\ Ticketed(u)' <=> Ticketed(u)
      /\ Chooses(u)' <=> Chooses(u)
      /\ Fresh(u)' <=> Fresh(u)
      /\ Left(u)' <=> Left(u)
      /\ Unlocking(u)' <=> Unlocking(u)
      /\ Announcing(u)' <=> Announcing(u)
  BY DEF Ticketed, Chooses, Fresh, Left, Unlocking, Announcing
<1>4. BufferOK(u)'
  BY <1>1, <1>2, <1>3 DEF BufferOK
<1>5. OwnOK(u)'
  BY <1>1, <1>3 DEF OwnOK
<1> QED BY <1>4, <1>5

\* A step that leaves the memory alone.
LEMMA OwnQuiet ==
    ASSUME TypeOK, Started, NEW t \in Threads, BufferOK(t), OwnOK(t), method' = method,
           UNCHANGED <<mem, buffer>>,
           pc[t] # "reread" => max'[t] = max[t],
           \/ /\ phase[t] = "spin" /\ phase'[t] = "store" /\ method = "ticket"
              /\ pc'[t] = pc[t] /\ pc[t] \in Stages
           \/ /\ phase'[t] = phase[t] /\ phase[t] = "take"
              /\ \/ pc[t] = "new" /\ pc'[t] = "loop"
                 \/ pc[t] = "loop" /\ pc'[t] \in {"choose", "done"}
                 \/ pc[t] = "scan" /\ pc'[t] \in {"scan", "reread", "ticket"}
                 \/ pc[t] = "reread" /\ pc'[t] = "scan"
                 \/ pc[t] \in Waiting /\ pc'[t] \in Waiting
                 \/ pc[t] = "wait" /\ pc'[t] = "cs0"
           \/ /\ phase[t] = "take" /\ phase'[t] = "store" /\ method = "mfence"
              /\ pc'[t] = pc[t] /\ pc[t] \in Stages
    PROVE  BufferOK(t)' /\ OwnOK(t)'
<1>1. /\ \A x : Read(t, x)' = Read(t, x)
      /\ \A x : Pending(t, x)' <=> Pending(t, x)
  BY QuietFacts
<1>2. /\ \A x : Once(buffer[t], x)' <=> Once(buffer[t], x)
      /\ \A x, y : Before(buffer[t], x, y)' <=> Before(buffer[t], x, y)
  BY DEF Once, Before
<1> USE DEF Ticketed, Chooses, Fresh, Left, Unlocking, Announcing, Waiting, Critical, Stages
<1>3. BufferOK(t)'
  <2>1. Pending(t, InCs) => (pc[t] \in Critical \/ Left(t)) /\ (pc'[t] \in Critical \/ Left(t)')
    BY DEF BufferOK
  <2>2. Pending(t, Value) => Unlocking(t) /\ Unlocking(t)' /\ Read(t, Value) = 0
    BY DEF BufferOK
  <2>3. Pending(t, Choosing(t)) => Announcing(t)'
    BY DEF BufferOK
  <2>4. Pending(t, Number(t)) => Fresh(t)' \/ Left(t)'
    BY DEF BufferOK
  <2>5. method' = "spin" /\ phase'[t] # "give" => Before(buffer[t], Choosing(t), Value)
    BY DEF BufferOK
  <2>6. pc'[t] \notin Critical => Before(buffer[t], InCs, Number(t))
    BY DEF BufferOK
  <2> QED BY <1>1, <1>2, <2>1, <2>2, <2>3, <2>4, <2>5, <2>6 DEF BufferOK
<1>4. OwnOK(t)'
  <2>1. (Ticketed(t)' <=> Ticketed(t)) /\ (Chooses(t)' <=> Chooses(t))
    OBVIOUS
  <2>2. Ticketed(t) \/ Pending(t, Number(t)) => max'[t] = max[t]
    BY DEF BufferOK
  <2>3. Pending(t, Number(t)) => (Fresh(t)' => Fresh(t)) /\ (Left(t)' => Left(t))
    BY DEF BufferOK
  <2> QED BY <1>1, <2>1, <2>2, <2>3 DEF OwnOK
<1> QED BY <1>3, <1>4

\* With nothing under way there is little to say.
LEMMA OwnDrained ==
    ASSUME NEW t \in Threads, \A x : ~Pending(t, x)',
           Read(t, Number(t))' = IF Ticketed(t)' THEN max'[t] + 1 ELSE 0,
           Read(t, Choosing(t))' = IF Chooses(t)' THEN 1 ELSE 0
    PROVE  BufferOK(t)' /\ OwnOK(t)'
<1>1. \A x, y : Once(buffer[t], x)' /\ Before(buffer[t], x, y)'
  BY DEF Pending, InBuffer, Once, Before
<1> QED BY <1>1 DEF BufferOK, OwnOK

\* What a store of thread t to the cell x does to what is said of t.
LEMMA OwnStore ==
    ASSUME TypeOK, NEW t \in Threads, BufferOK(t), NEW x \in {Choosing(t), Number(t), InCs, Value},
           NEW w \in Nat, Store(t, x, w), mem' = mem,
           x \in {Choosing(t), Number(t), Value} => ~Pending(t, x)
    PROVE  /\ \A y : Read(t, y)' = IF y = x THEN w ELSE Read(t, y)
           /\ \A y : Pending(t, y)' <=> Pending(t, y) \/ y = x
           /\ \A y \in Cells : Pending(t, y)' => y \in {Choosing(t), Number(t), InCs, Value}
           /\ \A y \in {Choosing(t), Number(t), Value} : Once(buffer[t], y)'
           /\ \A y, z : x # y /\ (x = z \/ Before(buffer[t], y, z)) =>
                 Before(buffer[t], y, z)'
<1>1. MemoryOK(Threads, Cells, Nat) /\ x \in Cells
  BY OwnCells DEF TypeOK
<1>2. /\ \A y : Read(t, y)' = IF y = x THEN w ELSE Read(t, y)
      /\ \A y : Pending(t, y)' <=> Pending(t, y) \/ y = x
  <2>1. /\ \A u \in Threads : \A y : Read(u, y)' = IF u = t /\ y = x THEN w ELSE Read(u, y)
        /\ \A u \in Threads : \A y : Pending(u, y)' <=> Pending(u, y) \/ (u = t /\ y = x)
    BY <1>1, StoreFacts
  <2> QED BY <2>1
<1>3. \A y \in Cells : Pending(t, y)' => y \in {Choosing(t), Number(t), InCs, Value}
  BY <1>2 DEF BufferOK
<1>4. \A y : Once(buffer[t], y) /\ (y = x => ~Pending(t, y)) => Once(buffer[t], y)'
  BY <1>1, StoreOrder
<1>5. \A y \in {Choosing(t), Number(t), Value} : Once(buffer[t], y)'
  BY <1>4 DEF BufferOK
<1>6. \A y, z : x # y /\ (x = z \/ Before(buffer[t], y, z)) => Before(buffer[t], y, z)'
  BY <1>1, StoreOrder
<1> QED BY <1>2, <1>3, <1>5, <1>6

\* The stores of the bakery.
LEMMA OwnStoreCell ==
    ASSUME TypeOK, Started, NEW t \in Threads, BufferOK(t), OwnOK(t), StoreCell(t)
    PROVE  BufferOK(t)' /\ OwnOK(t)'
<1> USE DEF Ticketed, Chooses, Fresh, Left, Unlocking, Announcing, Waiting, Critical, Stages
<1>1. /\ phase[t] = "store" /\ phase'[t] = "give" /\ pc'[t] = pc[t] /\ pc[t] \in Stages
      /\ max' = max /\ method' = method /\ mem' = mem
  BY DEF StoreCell, AtPhase, GotoPhase, TypeOK, locals, mainVars
<1>2. ~Pending(t, Choosing(t)) /\ ~Pending(t, Value) /\ (pc[t] # "choose" => ~Pending(t, Number(t)))
  BY <1>1 DEF BufferOK
<1>3. max[t] + 1 \in Nat /\ 0 \in Nat /\ 1 \in Nat
  BY DEF TypeOK
<1>4. CASE pc[t] = "ticket" /\ Store(t, Number(t), max[t] + 1)
  <2>1. /\ \A y : Read(t, y)' = IF y = Number(t) THEN max[t] + 1 ELSE Read(t, y)
        /\ \A y : Pending(t, y)' <=> Pending(t, y) \/ y = Number(t)
        /\ \A y \in Cells : Pending(t, y)' => y \in {Choosing(t), Number(t), InCs, Value}
        /\ \A y \in {Choosing(t), Number(t), Value} : Once(buffer[t], y)'
        /\ \A y, z : Number(t) # y /\ (Number(t) = z \/ Before(buffer[t], y, z)) =>
              Before(buffer[t], y, z)'
    BY <1>1, <1>2, <1>3, <1>4, OwnStore
  <2>2. mem[Number(t)] = 0
    <3>1. Read(t, Number(t)) = 0
      BY <1>1, <1>4 DEF OwnOK
    <3> QED BY <1>2, <1>4, <3>1, ReadDrained
  <2>3. BufferOK(t)'
    BY <1>1, <1>2, <1>4, <2>1, OwnCells DEF BufferOK
  <2>4. OwnOK(t)'
    BY <1>1, <1>2, <1>4, <2>1, <2>2, OwnCells DEF OwnOK
  <2> QED BY <2>3, <2>4
<1>5. ASSUME NEW b \in {0, 1}, Store(t, Choosing(t), b),
             (pc[t] = "choose" /\ b = 1) \/ (pc[t] = "chosen" /\ b = 0)
      PROVE  BufferOK(t)' /\ OwnOK(t)'
  <2>1. /\ \A y : Read(t, y)' = IF y = Choosing(t) THEN b ELSE Read(t, y)
        /\ \A y : Pending(t, y)' <=> Pending(t, y) \/ y = Choosing(t)
        /\ \A y \in Cells : Pending(t, y)' => y \in {Choosing(t), Number(t), InCs, Value}
        /\ \A y \in {Choosing(t), Number(t), Value} : Once(buffer[t], y)'
        /\ \A y, z : Choosing(t) # y /\ (Choosing(t) = z \/ Before(buffer[t], y, z)) =>
              Before(buffer[t], y, z)'
    BY <1>1, <1>2, <1>3, <1>5, OwnStore
  <2>2. BufferOK(t)'
    BY <1>1, <1>2, <1>5, <2>1, OwnCells DEF BufferOK
  <2>3. OwnOK(t)'
    BY <1>1, <1>2, <1>5, <2>1, OwnCells DEF OwnOK
  <2> QED BY <2>2, <2>3
<1> QED BY <1>4, <1>5 DEF StoreCell

\* The locks are taken.
LEMMA OwnTake ==
    ASSUME TypeOK, Started, NEW t \in Threads, BufferOK(t), OwnOK(t), Take(t)
    PROVE  BufferOK(t)' /\ OwnOK(t)'
<1> USE DEF AtPhase, GotoPhase, TypeOK, locals, mainVars
<1>1. /\ phase[t] = "take" /\ pc'[t] = pc[t] /\ pc[t] \in Stages
      /\ max' = max /\ method' = method
  BY DEF Take
<1>2. CASE method = "mfence"
  <2>1. UNCHANGED <<mem, buffer>> /\ phase'[t] = "store"
    BY <1>2 DEF Take
  <2> QED BY <1>1, <1>2, <2>1, OwnQuiet
<1>3. CASE method # "mfence"
  <2>1. Drained(t) /\ buffer' = buffer /\ phase'[t] \in {"store", "spin"}
    BY <1>3 DEF Take, CmpXchg
  <2>2. \A x : ~Pending(t, x) /\ ~Pending(t, x)'
    BY <2>1 DEF Drained, Pending, InBuffer
  <2>3. Read(t, Number(t))' = Read(t, Number(t)) /\ Read(t, Choosing(t))' = Read(t, Choosing(t))
    <3>1. mem'[Number(t)] = mem[Number(t)] /\ mem'[Choosing(t)] = mem[Choosing(t)]
      BY Frame, OwnCells DEF ThreadStep
    <3>2. MemoryOK(Threads, Cells, Nat) /\ buffer'[t] = buffer[t]
      BY <2>1
    <3> QED BY <3>1, <3>2, ReadSame
  <2>4. (Ticketed(t)' <=> Ticketed(t)) /\ (Chooses(t)' <=> Chooses(t))
    BY <1>1, <2>1 DEF Ticketed, Chooses
  <2> QED BY <1>1, <2>2, <2>3, <2>4, OwnDrained DEF OwnOK
<1> QED BY <1>2, <1>3

\* The locks are given back.
LEMMA OwnGive ==
    ASSUME TypeOK, Started, NEW t \in Threads, BufferOK(t), OwnOK(t), Give(t)
    PROVE  BufferOK(t)' /\ OwnOK(t)'
<1> USE DEF Ticketed, Chooses, Fresh, Left, Unlocking, Announcing, Waiting, Critical, Stages
<1>1. /\ phase[t] = "give" /\ phase'[t] = "take" /\ method' = method
      /\ \/ pc[t] = "choose" /\ pc'[t] = "scan"
         \/ pc[t] = "ticket" /\ pc'[t] = "chosen" /\ max' = max
         \/ pc[t] = "chosen" /\ pc'[t] = "wait" /\ max' = max
  BY DEF Give, NextStage, AtPhase, Goto, GotoPhase, TypeOK, locals, mainVars
<1>2. CASE method # "spin"
  <2>1. Drained(t) /\ buffer' = buffer
    BY <1>2 DEF Give
  <2>2. \A x : ~Pending(t, x) /\ ~Pending(t, x)'
    BY <2>1 DEF Drained, Pending, InBuffer
  <2>3. Read(t, Number(t))' = Read(t, Number(t)) /\ Read(t, Choosing(t))' = Read(t, Choosing(t))
    <3>1. mem'[Number(t)] = mem[Number(t)] /\ mem'[Choosing(t)] = mem[Choosing(t)]
      BY Frame, OwnCells DEF ThreadStep
    <3>2. MemoryOK(Threads, Cells, Nat) /\ buffer'[t] = buffer[t]
      BY <2>1 DEF TypeOK
    <3> QED BY <3>1, <3>2, ReadSame
  <2>4. /\ Read(t, Number(t)) = IF Ticketed(t)' THEN max'[t] + 1 ELSE 0
        /\ Read(t, Choosing(t)) = IF Chooses(t)' THEN 1 ELSE 0
    BY <1>1 DEF OwnOK
  <2> QED BY <2>2, <2>3, <2>4, OwnDrained
<1>3. CASE method = "spin"
  <2>1. Store(t, Value, 0) /\ mem' = mem
    BY <1>3 DEF Give
  <2>2. /\ ~Pending(t, Value) /\ ~Pending(t, InCs)
        /\ Pending(t, Number(t)) => pc[t] = "ticket"
        /\ Pending(t, Choosing(t)) => pc[t] # "ticket"
    BY <1>1, <1>3 DEF BufferOK
  <2>3. /\ \A y : Read(t, y)' = IF y = Value THEN 0 ELSE Read(t, y)
        /\ \A y : Pending(t, y)' <=> Pending(t, y) \/ y = Value
        /\ \A y \in Cells : Pending(t, y)' => y \in {Choosing(t), Number(t), InCs, Value}
        /\ \A y \in {Choosing(t), Number(t), Value} : Once(buffer[t], y)'
        /\ \A y, z : Value # y /\ (Value = z \/ Before(buffer[t], y, z)) =>
              Before(buffer[t], y, z)'
    BY <2>1, <2>2, OwnStore
  <2>4. BufferOK(t)'
    <3>1. Before(buffer[t], Choosing(t), Value)'
      BY <2>3, OwnCells
    <3>2. Before(buffer[t], InCs, Number(t))'
      <4>1. ~Pending(t, InCs)'
        BY <2>2, <2>3, OwnCells
      <4> QED BY <4>1 DEF Pending, InBuffer, Before
    <3>3. Pending(t, Number(t))' => Fresh(t)'
      BY <1>1, <1>3, <2>2, <2>3, OwnCells
    <3>4. Pending(t, Choosing(t))' => Announcing(t)'
      BY <1>1, <1>3, <2>2, <2>3, OwnCells
    <3>5. Unlocking(t)' /\ Read(t, Value)' = 0 /\ ~Pending(t, InCs)'
      BY <1>1, <1>3, <2>2, <2>3, OwnCells
    <3> QED BY <2>3, <3>1, <3>2, <3>3, <3>4, <3>5 DEF BufferOK
  <2>5. OwnOK(t)'
    <3>1. /\ Read(t, Number(t))' = Read(t, Number(t))
          /\ Read(t, Choosing(t))' = Read(t, Choosing(t))
          /\ Pending(t, Number(t))' <=> Pending(t, Number(t))
      BY <2>3, OwnCells
    <3>2. /\ Read(t, Number(t)) = IF Ticketed(t)' THEN max'[t] + 1 ELSE 0
          /\ Read(t, Choosing(t)) = IF Chooses(t)' THEN 1 ELSE 0
      BY <1>1 DEF OwnOK
    <3>3. Pending(t, Number(t)) => Fresh(t) /\ ~Left(t)'
      BY <1>1, <2>2
    <3>4. Pending(t, Number(t)) => mem'[Number(t)] = 0
      BY <2>1, <3>3 DEF OwnOK
    <3> QED BY <3>1, <3>2, <3>3, <3>4 DEF OwnOK
  <2> QED BY <2>4, <2>5
<1> QED BY <1>2, <1>3

\* The stores in and after the critical section.
LEMMA OwnCritical ==
    ASSUME TypeOK, Started, NEW t \in Threads, BufferOK(t), OwnOK(t), CsStep(t) \/ Leave(t)
    PROVE  BufferOK(t)' /\ OwnOK(t)'
<1> USE DEF Ticketed, Chooses, Fresh, Left, Unlocking, Announcing, Waiting, Critical, Stages
<1>1. CASE CsStep(t)
  <2>1. PICK l \in DOMAIN CsNext : CsStep(t)!(l)
    BY <1>1 DEF CsStep
  <2>2. /\ pc[t] = l /\ l \in {"cs0", "cs1", "cs2", "cs3"} /\ CsNext[l] \in Critical
        /\ mem' = mem /\ UNCHANGED <<phase, max, method>>
    BY <2>1 DEF At, CsNext, locals
  <2>3. CASE UNCHANGED <<buffer, pc>>
    <3>1. /\ \A x \in Cells \ {Value, Counter, Turn} : Read(t, x)' = Read(t, x)
          /\ Pending(t, Value) => Read(t, Value)' = Read(t, Value)
      BY <2>2, <2>3, QuietFacts
    <3> QED BY <2>2, <2>3, <3>1, OwnCells, OwnSame
  <2>4. CASE Store(t, InCs, (CsValue[l] + 1) % 4) /\ pc' = [pc EXCEPT ![t] = CsNext[l]]
    <3>1. PICK w \in Nat : w = (CsValue[l] + 1) % 4
      BY <2>2 DEF CsValue
    <3>2. Store(t, InCs, w)
      BY <2>4, <3>1
    <3>3. InCs \notin {Choosing(t), Number(t), Value}
      BY OwnCells
    <3>4. /\ \A y : Read(t, y)' = IF y = InCs THEN w ELSE Read(t, y)
          /\ \A y : Pending(t, y)' <=> Pending(t, y) \/ y = InCs
          /\ \A y \in Cells : Pending(t, y)' => y \in {Choosing(t), Number(t), InCs, Value}
          /\ \A y \in {Choosing(t), Number(t), Value} : Once(buffer[t], y)'
          /\ \A y, z : InCs # y /\ (InCs = z \/ Before(buffer[t], y, z)) =>
                Before(buffer[t], y, z)'
      BY <2>2, <3>2, <3>3, OwnStore
    <3>5. pc'[t] \in Critical /\ phase[t] = "take" /\ phase'[t] = "take"
      BY <2>2, <2>4 DEF Started, TypeOK, Phases
    <3>6. ~Pending(t, Number(t))
      BY <2>2 DEF BufferOK
    <3>7. BufferOK(t)'
      <4>1. Pending(t, Choosing(t)) => Announcing(t)'
        BY <2>2, <3>5 DEF BufferOK
      <4>2. Pending(t, Value) => Unlocking(t)' /\ Read(t, Value) = 0
        BY <2>2, <3>5 DEF BufferOK
      <4>3. method = "spin" => Before(buffer[t], Choosing(t), Value)'
        BY <2>2, <3>3, <3>4, <3>5 DEF BufferOK
      <4> QED BY <2>2, <3>3, <3>4, <3>5, <3>6, <4>1, <4>2, <4>3 DEF BufferOK
    <3>8. OwnOK(t)'
      BY <2>2, <3>3, <3>4, <3>5, <3>6 DEF OwnOK
    <3> QED BY <3>7, <3>8
  <2> QED BY <2>1, <2>3, <2>4 DEF Goto
<1>2. CASE Leave(t)
  <2>1. /\ pc[t] = "leave" /\ pc'[t] = "loop" /\ mem' = mem /\ UNCHANGED <<phase, max, method>>
        /\ Store(t, Number(t), 0) /\ 0 \in Nat
    BY <1>2 DEF Leave, At, Goto, locals, mainVars, TypeOK
  <2>2. phase[t] = "take" /\ phase'[t] = "take"
    BY <2>1 DEF Started, TypeOK, Phases
  <2>3. ~Pending(t, Number(t))
    BY <2>1 DEF BufferOK
  <2>4. /\ \A y : Read(t, y)' = IF y = Number(t) THEN 0 ELSE Read(t, y)
        /\ \A y : Pending(t, y)' <=> Pending(t, y) \/ y = Number(t)
        /\ \A y \in Cells : Pending(t, y)' => y \in {Choosing(t), Number(t), InCs, Value}
        /\ \A y \in {Choosing(t), Number(t), Value} : Once(buffer[t], y)'
        /\ \A y, z : Number(t) # y /\ (Number(t) = z \/ Before(buffer[t], y, z)) =>
              Before(buffer[t], y, z)'
    BY <2>1, <2>3, OwnStore
  <2>5. mem[Number(t)] = max[t] + 1
    <3>1. Read(t, Number(t)) = max[t] + 1
      BY <2>1 DEF OwnOK
    <3> QED BY <2>3, <3>1, ReadDrained
  <2>6. BufferOK(t)'
    <3>1. Pending(t, Choosing(t)) => Announcing(t)'
      BY <2>1, <2>2 DEF BufferOK
    <3>2. Pending(t, Value) => Unlocking(t)' /\ Read(t, Value) = 0
      BY <2>1, <2>2 DEF BufferOK
    <3>3. method = "spin" => Before(buffer[t], Choosing(t), Value)'
      BY <2>1, <2>2, <2>4, OwnCells DEF BufferOK
    <3>4. Before(buffer[t], InCs, Number(t))'
      BY <2>4, OwnCells
    <3> QED BY <2>1, <2>2, <2>4, <3>1, <3>2, <3>3, <3>4, OwnCells DEF BufferOK
  <2>7. OwnOK(t)'
    BY <2>1, <2>2, <2>4, <2>5, OwnCells DEF OwnOK
  <2> QED BY <2>6, <2>7
<1> QED BY <1>1, <1>2

\* A store that reaches the memory is one of its processor's cells, and what is said of
\* the processor stays true.
LEMMA OwnDrain ==
    ASSUME TypeOK, NEW t \in Threads, BufferOK(t), OwnOK(t), Drain(t)
    PROVE  /\ Head(buffer[t]).cell \in {Choosing(t), Number(t), InCs, Value}
           /\ BufferOK(t)' /\ OwnOK(t)'
<1> DEFINE e == Head(buffer[t])
<1>1. MemoryOK(Threads, Cells, Nat) /\ Flush(t)
  BY DEF TypeOK, Drain
<1>2. /\ e \in Stores(Cells, Nat)
      /\ mem' = [mem EXCEPT ![e.cell] = e.value] /\ mem \in [Cells -> Nat]
      /\ \A x \in Cells : Read(t, x)' = Read(t, x)
      /\ \A x : Pending(t, x) <=> x = e.cell \/ Pending(t, x)'
  BY <1>1, FlushFacts DEF MemoryOK
<1>3. /\ \A y : Once(buffer[t], y) => Once(buffer[t], y)' /\ (e.cell = y => ~Pending(t, y)')
      /\ \A y, z : Before(buffer[t], y, z) => Before(buffer[t], y, z)'
  BY <1>1, FlushOrder
<1>4. UNCHANGED <<pc, phase, max, method>>
  BY DEF Drain, locals, mainVars
<1> HIDE DEF e
<1>5. e.cell \in Cells
  BY <1>2 DEF Stores
<1>6. e.cell \in {Choosing(t), Number(t), InCs, Value}
  BY <1>2, <1>5 DEF BufferOK
<1>7. /\ Ticketed(t)' <=> Ticketed(t)
      /\ Chooses(t)' <=> Chooses(t)
      /\ Fresh(t)' <=> Fresh(t)
      /\ Left(t)' <=> Left(t)
      /\ Unlocking(t)' <=> Unlocking(t)
      /\ Announcing(t)' <=> Announcing(t)
  BY <1>4 DEF Ticketed, Chooses, Fresh, Left, Unlocking, Announcing
<1>8. BufferOK(t)'
  <2>1. \A y \in Cells : Pending(t, y)' => y \in {Choosing(t), Number(t), InCs, Value}
    BY <1>2 DEF BufferOK
  <2>2. \A y \in {Choosing(t), Number(t), Value} : Once(buffer[t], y)'
    BY <1>3 DEF BufferOK
  <2>3. method' = "spin" /\ phase'[t] # "give" => Before(buffer[t], Choosing(t), Value)'
    BY <1>3, <1>4 DEF BufferOK
  <2>4. pc'[t] \notin Critical => Before(buffer[t], InCs, Number(t))'
    BY <1>3, <1>4 DEF BufferOK
  <2>5. Pending(t, Value)' => Unlocking(t)' /\ Read(t, Value)' = 0
    BY <1>2, <1>7, OwnCells DEF BufferOK
  <2>6. Pending(t, InCs)' => pc'[t] \in Critical \/ Left(t)'
    BY <1>2, <1>4, <1>7 DEF BufferOK
  <2>7. Pending(t, Number(t))' => Fresh(t)' \/ Left(t)'
    BY <1>2, <1>7 DEF BufferOK
  <2>8. Pending(t, Choosing(t))' => Announcing(t)'
    BY <1>2, <1>7 DEF BufferOK
  <2> QED BY <2>1, <2>2, <2>3, <2>4, <2>5, <2>6, <2>7, <2>8 DEF BufferOK
<1>9. OwnOK(t)'
  <2>1. /\ Read(t, Number(t))' = Read(t, Number(t))
        /\ Read(t, Choosing(t))' = Read(t, Choosing(t))
    BY <1>2, OwnCells
  <2>2. Pending(t, Number(t))' => Pending(t, Number(t)) /\ mem'[Number(t)] = mem[Number(t)]
    <3>1. Once(buffer[t], Number(t)) /\ Number(t) \in Cells
      BY OwnCells DEF BufferOK
    <3>2. e.cell = Number(t) => ~Pending(t, Number(t))'
      BY <1>3, <3>1
    <3>3. e.cell # Number(t) => mem'[Number(t)] = mem[Number(t)]
      BY <1>2, <3>1
    <3> QED BY <1>2, <3>2, <3>3
  <2> QED BY <1>4, <1>7, <2>1, <2>2 DEF OwnOK
<1> QED BY <1>6, <1>8, <1>9 DEF e

\* Every step keeps what is under way in order.
LEMMA OwnKept ==
    ASSUME TypeOK, Started, OwnInv, [Next]_vars
    PROVE  OwnInv'
<1> SUFFICES ASSUME NEW u \in Threads
             PROVE  BufferOK(u)' /\ OwnOK(u)'
  BY DEF OwnInv
<1>1. BufferOK(u) /\ OwnOK(u)
  BY DEF OwnInv
<1>2. ASSUME NEW t \in Threads, ThreadStep(t)
      PROVE  BufferOK(u)' /\ OwnOK(u)'
  <2>1. CASE u # t
    <3>1. /\ method' = method /\ pc'[u] = pc[u] /\ phase'[u] = phase[u] /\ max'[u] = max[u]
          /\ buffer'[u] = buffer[u] /\ mem'[Number(u)] = mem[Number(u)]
      BY <1>2, <2>1, Frame, OwnCells
    <3>2. /\ Read(u, Number(u))' = Read(u, Number(u))
          /\ Read(u, Choosing(u))' = Read(u, Choosing(u))
          /\ Pending(u, Value) => Read(u, Value)' = Read(u, Value)
      BY <1>2, <2>1, OthersRead, OwnCells
    <3> QED BY <1>1, <3>1, <3>2, OwnSame
  <2>2. CASE u = t
    <3>1. CASE \/ LoopTest(t) \/ Spin(t) \/ Scan(t) \/ Reread(t) \/ ScanEnd(t)
               \/ WaitChoosing(t) \/ WaitTest(t) \/ WaitLess(t) \/ WaitTie(t) \/ WaitEnd(t)
      <4>1. UNCHANGED <<mem, buffer>> /\ method' = method
        BY <3>1, QuietSteps DEF mainVars
      <4>2. /\ pc[t] # "reread" => max'[t] = max[t]
            /\ \/ /\ phase[t] = "spin" /\ phase'[t] = "store" /\ method = "ticket"
                  /\ pc'[t] = pc[t] /\ pc[t] \in Stages
               \/ /\ phase'[t] = phase[t] /\ phase[t] = "take"
                  /\ \/ pc[t] = "loop" /\ pc'[t] \in {"choose", "done"}
                     \/ pc[t] = "scan" /\ pc'[t] \in {"scan", "reread", "ticket"}
                     \/ pc[t] = "reread" /\ pc'[t] = "scan"
                     \/ pc[t] \in Waiting /\ pc'[t] \in Waiting
                     \/ pc[t] = "wait" /\ pc'[t] = "cs0"
        BY <3>1, Moves
      <4> QED BY <1>1, <2>2, <4>1, <4>2, OwnQuiet
    <3>2. CASE Take(t) BY <1>1, <2>2, <3>2, OwnTake
    <3>3. CASE StoreCell(t) BY <1>1, <2>2, <3>3, OwnStoreCell
    <3>4. CASE Give(t) BY <1>1, <2>2, <3>4, OwnGive
    <3>5. CASE CsStep(t) \/ Leave(t) BY <1>1, <2>2, <3>5, OwnCritical
    <3> QED BY <1>2, <3>1, <3>2, <3>3, <3>4, <3>5 DEF ThreadStep
  <2> QED BY <2>1, <2>2
<1>3. ASSUME NEW t \in Threads, Drain(t)
      PROVE  BufferOK(u)' /\ OwnOK(u)'
  <2>1. BufferOK(t) /\ OwnOK(t)
    BY DEF OwnInv
  <2>2. CASE u = t
    BY <1>3, <2>1, <2>2, OwnDrain
  <2>3. CASE u # t
    <3>1. PICK e : e = Head(buffer[t])
      OBVIOUS
    <3>2. e.cell \in {Choosing(t), Number(t), InCs, Value}
      BY <1>3, <2>1, <3>1, OwnDrain
    <3>3. MemoryOK(Threads, Cells, Nat) /\ Flush(t)
      BY <1>3 DEF TypeOK, Drain
    <3>4. /\ mem' = [mem EXCEPT ![e.cell] = e.value] /\ mem \in [Cells -> Nat]
          /\ \A x \in Cells :
                Read(u, x)' = IF x = e.cell /\ ~Pending(u, x) THEN e.value ELSE Read(u, x)
          /\ buffer'[u] = buffer[u]
      BY <2>3, <3>1, <3>3, FlushFacts DEF MemoryOK
    <3>5. {Number(u), Choosing(u)} \subseteq Cells /\ e.cell \notin {Number(u), Choosing(u)}
      BY <2>3, <3>2, OwnCells
    <3>6. /\ Read(u, Number(u))' = Read(u, Number(u))
          /\ Read(u, Choosing(u))' = Read(u, Choosing(u))
          /\ mem'[Number(u)] = mem[Number(u)]
      BY <3>4, <3>5
    <3>7. Pending(u, Value) => Read(u, Value)' = Read(u, Value)
      BY <3>4, OwnCells
    <3>8. method' = method /\ pc'[u] = pc[u] /\ phase'[u] = phase[u] /\ max'[u] = max[u]
      BY <1>3 DEF Drain, locals, mainVars
    <3> QED BY <1>1, <3>4, <3>6, <3>7, <3>8, OwnSame
  <2> QED BY <2>2, <2>3
<1>4. CASE Spawn \/ Join \/ Tick \/ UNCHANGED vars
  <2>1. /\ UNCHANGED <<mem, buffer>> /\ method' = method /\ max' = max /\ phase' = phase
        /\ pc'[u] = pc[u] \/ (pc[u] = "new" /\ pc'[u] = "loop")
    BY <1>4, MainSteps
  <2>2. CASE pc'[u] = pc[u]
    <3>1. \A x : Read(u, x)' = Read(u, x)
      BY <2>1, QuietFacts
    <3> QED BY <1>1, <2>1, <2>2, <3>1, OwnSame
  <2>3. CASE pc[u] = "new" /\ pc'[u] = "loop"
    <3>1. phase[u] = "take" /\ phase'[u] = phase[u]
      BY <2>1, <2>3 DEF Started, Stages
    <3> QED BY <1>1, <2>1, <2>3, <3>1, OwnQuiet
  <2> QED BY <2>1, <2>2, <2>3
<1> QED BY <1>2, <1>3, <1>4 DEF Next, Terminated

\* At first nothing is under way.
LEMMA OwnInit == Init => OwnInv
<1> SUFFICES ASSUME Init, NEW t \in Threads
             PROVE  BufferOK(t) /\ OwnOK(t)
  BY DEF OwnInv
<1>1. \A x : ~Pending(t, x)
  BY DEF Init, Pending, InBuffer
<1>2. \A x \in Cells : Read(t, x) = 0
  <2>1. \A x \in Cells : mem[x] = 0
    BY DEF Init
  <2> QED BY <1>1, <2>1, ReadDrained
<1>3. \A x, y : Once(buffer[t], x) /\ Before(buffer[t], x, y)
  BY <1>1 DEF Pending, InBuffer, Once, Before
<1>4. pc[t] = "new" /\ phase[t] = "take"
  BY DEF Init
<1>5. ~Ticketed(t) /\ ~Chooses(t)
  BY <1>4 DEF Ticketed, Chooses, Waiting, Critical
<1> QED BY <1>2, <1>1, <1>3, <1>5, OwnCells DEF BufferOK, OwnOK

-----------------------------------------------------------------------------
(* The spin lock.                                                            *)

\* It stays a lock when nobody becomes its owner, and what is in it stays the same or it
\* has no owner.
LEMMA SpinSame ==
    ASSUME SpinInv, method' = method, \A u \in Threads : Owner(u)' => Owner(u),
           mem'[Value] = mem[Value] \/ \A u \in Threads : ~Owner(u)'
    PROVE  SpinInv'
BY DEF SpinInv

\* What the owner of the spin lock has under way.
LEMMA OwnerFacts ==
    ASSUME TypeOK, Started, OwnInv, NEW v \in Threads, ThreadStep(v)
    PROVE  /\ \A u \in Threads \ {v} : Owner(u)' <=> Owner(u)
           /\ ~Take(v) /\ method = "spin" => mem' = mem /\ (Owner(v)' => Owner(v))
<1>1. ASSUME NEW u \in Threads \ {v}
      PROVE  Owner(u)' <=> Owner(u)
  <2>1. phase'[u] = phase[u]
    BY Frame
  <2>2. Pending(u, Value)' <=> Pending(u, Value)
    BY OthersRead
  <2> QED BY <2>1, <2>2 DEF Owner
<1>2. ASSUME ~Take(v), method = "spin"
      PROVE  mem' = mem /\ (Owner(v)' => Owner(v))
  <2>1. CASE \/ LoopTest(v) \/ Spin(v) \/ Scan(v) \/ Reread(v) \/ ScanEnd(v)
             \/ WaitChoosing(v) \/ WaitTest(v) \/ WaitLess(v) \/ WaitTie(v) \/ WaitEnd(v)
    <3>1. UNCHANGED <<mem, buffer>> /\ phase'[v] = phase[v]
      BY <1>2, <2>1, QuietSteps, Moves
    <3>2. Pending(v, Value)' <=> Pending(v, Value)
      BY <3>1, QuietFacts
    <3> QED BY <3>1, <3>2 DEF Owner
  <2>2. CASE StoreCell(v) \/ Give(v)
    BY <1>2, <2>2 DEF StoreCell, Give, AtPhase, Owner
  <2>3. CASE CsStep(v) \/ Leave(v)
    <3>1. UNCHANGED <<mem, phase>>
      BY <2>3 DEF CsStep, Leave
    <3>2. MemoryOK(Threads, Cells, Nat) /\ InCs \in Cells /\ Number(v) \in Cells
      BY OwnCells DEF TypeOK
    <3>3. UNCHANGED buffer \/ \E x \in {InCs, Number(v)}, w \in Nat : Store(v, x, w)
      BY <2>3 DEF CsStep, Leave, CsNext, CsValue
    <3>4. Pending(v, Value)' <=> Pending(v, Value)
      <4>1. CASE UNCHANGED buffer
        BY <3>1, <4>1, QuietFacts
      <4>2. CASE \E x \in {InCs, Number(v)}, w \in Nat : Store(v, x, w)
        <5>1. PICK x \in {InCs, Number(v)}, w \in Nat : Store(v, x, w)
          BY <4>2
        <5>2. \A y : Pending(v, y)' <=> Pending(v, y) \/ y = x
          BY <3>1, <3>2, <5>1, StoreFacts
        <5> QED BY <5>2, OwnCells
      <4> QED BY <3>3, <4>1, <4>2
    <3> QED BY <3>1, <3>4 DEF Owner
  <2> QED BY <1>2, <2>1, <2>2, <2>3 DEF ThreadStep
<1> QED BY <1>1, <1>2

\* Every step keeps that the spin lock has one owner, and is 0 only without one.
LEMMA SpinKept ==
    ASSUME TypeOK, Started, OwnInv, SpinInv, [Next]_vars
    PROVE  SpinInv'
<1> SUFFICES ASSUME method' = "spin"
             PROVE  SpinInv'
  BY DEF SpinInv
<1>1. ASSUME NEW v \in Threads, ThreadStep(v)
      PROVE  SpinInv'
  <2>1. method = "spin" /\ method' = method
    BY <1>1, Frame
  <2>2. CASE Take(v)
    <3>1. mem[Value] = 0 /\ mem'[Value] = 1
      BY <2>1, <2>2, CellFacts DEF Take, CmpXchg, TypeOK, MemoryOK
    <3>2. \A u \in Threads : ~Owner(u)
      BY <2>1, <3>1 DEF SpinInv
    <3>3. \A u \in Threads \ {v} : ~Owner(u)'
      BY <1>1, <3>2, OwnerFacts
    <3> QED BY <3>1, <3>3 DEF SpinInv
  <2>3. CASE ~Take(v)
    <3>1. mem' = mem /\ \A u \in Threads : Owner(u)' => Owner(u)
      BY <1>1, <2>1, <2>3, OwnerFacts
    <3> QED BY <2>1, <3>1, SpinSame
  <2> QED BY <2>2, <2>3
<1>2. ASSUME NEW t \in Threads, Drain(t)
      PROVE  SpinInv'
  <2>1. PICK e : e = Head(buffer[t])
    OBVIOUS
  <2>2. MemoryOK(Threads, Cells, Nat) /\ Flush(t) /\ BufferOK(t)
    BY <1>2 DEF TypeOK, Drain, OwnInv
  <2>3. /\ mem' = [mem EXCEPT ![e.cell] = e.value] /\ mem \in [Cells -> Nat]
        /\ \A x : Pending(t, x) <=> x = e.cell \/ Pending(t, x)'
        /\ \A u \in Threads : \A x : u # t => (Pending(u, x)' <=> Pending(u, x))
    BY <2>1, <2>2, FlushFacts DEF MemoryOK
  <2>4. UNCHANGED <<phase, method>>
    BY <1>2 DEF Drain, mainVars
  <2>5. \A u \in Threads : Owner(u)' => Owner(u)
    BY <2>3, <2>4 DEF Owner
  <2>6. CASE e.cell = Value
    <3>1. Pending(t, Value) /\ phase[t] = "take"
      BY <2>2, <2>3, <2>6 DEF BufferOK, Unlocking
    <3>2. ~Pending(t, Value)'
      <4>1. Once(buffer[t], Value)
        BY <2>2 DEF BufferOK
      <4> QED BY <2>1, <2>2, <2>6, <4>1, FlushOrder
    <3>3. \A u \in Threads : ~Owner(u)'
      <4>1. \A u \in Threads : Owner(u) => u = t
        BY <2>4, <3>1 DEF Owner, SpinInv
      <4>2. ~Owner(t)'
        BY <2>4, <3>1, <3>2 DEF Owner
      <4> QED BY <2>5, <4>1, <4>2
    <3> QED BY <2>4, <2>5, <3>3, SpinSame
  <2>7. CASE e.cell # Value
    <3>1. mem'[Value] = mem[Value]
      BY <2>3, <2>7, CellFacts
    <3> QED BY <2>4, <2>5, <3>1, SpinSame
  <2> QED BY <2>6, <2>7
<1>3. CASE Spawn \/ Join \/ Tick \/ UNCHANGED vars
  <2>1. UNCHANGED <<mem, buffer, method, phase>>
    BY <1>3, MainSteps
  <2>2. \A u \in Threads : Owner(u)' => Owner(u)
    BY <2>1, QuietFacts DEF Owner
  <2> QED BY <2>1, <2>2, SpinSame
<1> QED BY <1>1, <1>2, <1>3 DEF Next, Terminated

-----------------------------------------------------------------------------
(* The ticket lock.                                                          *)

\* A queue of threads that are different has room for all of them at most.
LEMMA QueueLength ==
    ASSUME NEW s \in Seq(Threads), \A j, k \in 1 .. Len(s) : s[j] = s[k] => j = k
    PROVE  Len(s) =< numThreads
<1>1. Len(s) \in Nat /\ s \in [1 .. Len(s) -> Threads] /\ numThreads \in Nat
  BY ThreadsInt
<1>2. s \in Injection(1 .. Len(s), Threads)
  BY <1>1, Fun_IsInj
<1>3. IsFiniteSet(1 .. Len(s)) /\ Cardinality(1 .. Len(s)) = Len(s)
  <2>1. /\ IsFiniteSet(1 .. Len(s))
        /\ Cardinality(1 .. Len(s)) = IF 1 > Len(s) THEN 0 ELSE Len(s) - 1 + 1
    BY <1>1, FS_Interval
  <2> QED BY <1>1, <2>1
<1>4. IsFiniteSet(Threads) /\ Cardinality(Threads) = numThreads
  <2>1. 0 \in Int /\ numThreads - 1 \in Int
    BY <1>1
  <2>2. /\ IsFiniteSet(0 .. numThreads - 1)
        /\ Cardinality(0 .. numThreads - 1) =
              IF 0 > numThreads - 1 THEN 0 ELSE numThreads - 1 - 0 + 1
    BY <2>1, FS_Interval
  <2> QED BY <1>1, <2>2 DEF Threads
<1>5. Cardinality(1 .. Len(s)) =< Cardinality(Threads)
  BY <1>2, <1>4, FS_Injection
<1> QED BY <1>3, <1>4, <1>5

\* Counting turns, also past the wrap.
LEMMA WrapFacts ==
    ASSUME Threads # {}, NEW a \in Nat, a < Modulus, NEW k \in Nat, k < Modulus
    PROVE  /\ Wrap(a, 0) = a
           /\ Wrap(a, k) = a => k = 0
           /\ Wrap(a, k + 1) = (Wrap(a, k) + 1) % Modulus
           /\ (a + 1) % Modulus \in Nat /\ (a + 1) % Modulus < Modulus
           /\ Wrap((a + 1) % Modulus, k) = Wrap(a, k + 1)
<1>1. Modulus \in Nat \ {0}
  BY NextTurn
<1>2. \A n \in Nat : n < Modulus => (n + 1) % Modulus = IF n + 1 = Modulus THEN 0 ELSE n + 1
  BY NextTurn
<1>3. Wrap(a, k) \in Nat /\ Wrap(a, k) < Modulus
  BY <1>1 DEF Wrap
<1>4. Wrap(a, 0) = a /\ (Wrap(a, k) = a => k = 0)
  BY <1>1 DEF Wrap
<1>5. Wrap(a, k + 1) = IF Wrap(a, k) + 1 = Modulus THEN 0 ELSE Wrap(a, k) + 1
  BY <1>1 DEF Wrap
<1>6. Wrap(IF a + 1 = Modulus THEN 0 ELSE a + 1, k) = Wrap(a, k + 1)
  BY <1>1 DEF Wrap
<1>7. (a + 1) % Modulus = IF a + 1 = Modulus THEN 0 ELSE a + 1
  BY <1>2
<1> QED BY <1>1, <1>2, <1>3, <1>4, <1>5, <1>6, <1>7

\* The queue stays right when no thread comes to it or goes.
LEMMA QueueSame ==
    ASSUME QueueInv, method' = method, queue' = queue, me' = me,
           mem'[Turn] = mem[Turn], mem'[Counter] = mem[Counter],
           \A u \in Threads : /\ phase'[u] = "take" <=> phase[u] = "take"
                              /\ phase'[u] \in {"store", "give"} =>
                                    phase[u] \in {"store", "give"} \/ (queue # <<>> /\ queue[1] = u)
    PROVE  QueueInv'
BY DEF QueueInv

\* The thread that finds its turn is the first of the queue.
LEMMA TurnFirst ==
    ASSUME TypeOK, OwnInv, QueueInv, method = "ticket", NEW v \in Threads,
           phase[v] # "take", me[v] = Read(v, Turn)
    PROVE  queue # <<>> /\ queue[1] = v
<1>1. ~Pending(v, Turn)
  BY CellFacts DEF OwnInv, BufferOK
<1>2. me[v] = mem[Turn]
  BY <1>1, ReadDrained
<1>3. PICK k \in 1 .. Len(queue) : queue[k] = v
  BY DEF QueueInv
<1>4. /\ queue \in Seq(Threads) /\ Len(queue) \in Nat
      /\ me[v] = Wrap(mem[Turn], k - 1)
      /\ mem[Turn] < Modulus /\ mem[Turn] \in Nat
  <2>1. Threads # {} /\ Turn \in Cells
    BY CellFacts
  <2>2. mem[Turn] < Modulus /\ mem[Turn] \in Nat
    BY <2>1 DEF QueueInv, TypeOK, MemoryOK
  <2>3. queue \in Seq(Threads) /\ me[queue[k]] = Wrap(mem[Turn], k - 1)
    BY DEF QueueInv
  <2> QED BY <1>3, <2>2, <2>3
<1>5. Len(queue) =< numThreads
  BY QueueLength DEF QueueInv
<1>6. k - 1 \in Nat /\ k - 1 < Modulus
  BY <1>4, <1>5, ThreadsAssumption, ModulusAssumption
<1>7. k - 1 = 0
  <2>1. Wrap(mem[Turn], k - 1) = mem[Turn]
    BY <1>2, <1>4
  <2> QED BY <1>4, <1>6, <2>1, WrapFacts
<1>8. k = 1 /\ 1 =< Len(queue)
  BY <1>4, <1>7
<1> QED BY <1>3, <1>4, <1>8

\* A thread joins the queue.
LEMMA QueueTake ==
    ASSUME TypeOK, Started, QueueInv, method = "ticket", NEW v \in Threads, Take(v)
    PROVE  QueueInv'
<1>1. /\ phase[v] = "take" /\ phase' = [phase EXCEPT ![v] = "spin"]
      /\ me' = [me EXCEPT ![v] = mem[Counter]]
      /\ mem' = [mem EXCEPT ![Counter] = (@ + 1) % Modulus]
      /\ queue' = Append(queue, v)
      /\ method' = method
  BY DEF Take, AtPhase, GotoPhase, mainVars
<1> DEFINE L == Len(queue)
<1>2. /\ queue \in Seq(Threads) /\ L \in Nat
      /\ queue' \in Seq(Threads) /\ Len(queue') = L + 1
      /\ \A k \in 1 .. L : queue'[k] = queue[k] /\ queue[k] \in Threads
      /\ queue'[L + 1] = v
  BY <1>1 DEF QueueInv
<1>3. /\ mem[Turn] \in Nat /\ mem[Turn] < Modulus /\ mem'[Turn] = mem[Turn]
      /\ mem[Counter] = Wrap(mem[Turn], L)
      /\ mem'[Counter] = (mem[Counter] + 1) % Modulus
  BY <1>1, CellFacts DEF QueueInv, TypeOK, MemoryOK
<1>4. \A k \in 1 .. L : queue[k] # v
  BY <1>1 DEF QueueInv
<1>5. \A j, k \in 1 .. Len(queue') : queue'[j] = queue'[k] => j = k
  <2>1. \A k \in 1 .. L + 1 : k \in 1 .. L \/ k = L + 1
    BY <1>2
  <2>2. \A j, k \in 1 .. L : queue[j] = queue[k] => j = k
    BY DEF QueueInv
  <2> QED BY <1>2, <1>4, <2>1, <2>2
<1>6. L < Modulus
  <2>1. Len(queue') =< numThreads
    BY <1>2, <1>5, QueueLength
  <2> QED BY <1>2, <2>1, ThreadsAssumption, ModulusAssumption
<1>7. mem'[Counter] = Wrap(mem'[Turn], Len(queue'))
  BY <1>2, <1>3, <1>6, WrapFacts
<1>8. \A t \in Threads : phase'[t] # "take" <=> \E k \in 1 .. Len(queue') : queue'[k] = t
  <2>1. ASSUME NEW t \in Threads \ {v}
        PROVE  phase'[t] # "take" <=> \E k \in 1 .. Len(queue') : queue'[k] = t
    <3>1. phase[t] # "take" <=> \E k \in 1 .. L : queue[k] = t
      BY DEF QueueInv
    <3>2. phase'[t] = phase[t]
      BY <1>1 DEF TypeOK
    <3>3. \A k \in 1 .. L + 1 : k \in 1 .. L \/ k = L + 1
      BY <1>2
    <3>4. 1 .. L \subseteq 1 .. L + 1
      BY <1>2
    <3> QED BY <1>2, <3>1, <3>2, <3>3, <3>4
  <2>2. phase'[v] # "take" /\ \E k \in 1 .. Len(queue') : queue'[k] = v
    BY <1>1, <1>2 DEF TypeOK
  <2> QED BY <2>1, <2>2
<1>9. \A t \in Threads : phase'[t] \in {"store", "give"} => queue' # <<>> /\ queue'[1] = t
  <2> SUFFICES ASSUME NEW t \in Threads, phase'[t] \in {"store", "give"}
               PROVE  queue' # <<>> /\ queue'[1] = t
    OBVIOUS
  <2>1. phase[t] \in {"store", "give"}
    BY <1>1 DEF TypeOK
  <2>2. queue # <<>> /\ queue[1] = t
    BY <2>1 DEF QueueInv
  <2>3. 1 \in 1 .. L
    BY <1>2, <2>2
  <2> QED BY <1>2, <2>2, <2>3
<1>10. \A k \in 1 .. Len(queue') : me'[queue'[k]] = Wrap(mem'[Turn], k - 1)
  <2>1. \A k \in 1 .. L : me[queue[k]] = Wrap(mem[Turn], k - 1)
    BY DEF QueueInv
  <2>2. \A k \in 1 .. L : me'[queue[k]] = me[queue[k]]
    BY <1>1, <1>2, <1>4 DEF TypeOK
  <2>3. me'[v] = Wrap(mem[Turn], L)
    BY <1>1, <1>3 DEF TypeOK
  <2>4. \A k \in 1 .. L + 1 : k \in 1 .. L \/ (k = L + 1 /\ k - 1 = L)
    BY <1>2
  <2> QED BY <1>2, <1>3, <2>1, <2>2, <2>3, <2>4
<1> QED BY <1>1, <1>2, <1>3, <1>5, <1>7, <1>8, <1>9, <1>10 DEF QueueInv

\* Its first thread leaves it.
LEMMA QueueGive ==
    ASSUME TypeOK, Started, QueueInv, method = "ticket", NEW v \in Threads, Give(v)
    PROVE  QueueInv'
<1>1. /\ phase[v] = "give" /\ phase' = [phase EXCEPT ![v] = "take"]
      /\ mem' = [mem EXCEPT ![Turn] = (@ + 1) % Modulus]
      /\ queue' = Tail(queue) /\ me' = me /\ method' = method
  BY DEF Give, NextStage, AtPhase, GotoPhase, mainVars
<1>2. queue # <<>> /\ queue[1] = v /\ queue \in Seq(Threads)
  BY <1>1 DEF QueueInv
<1> DEFINE L == Len(queue)
<1>3. /\ L \in Nat /\ L >= 1
      /\ queue' \in Seq(Threads) /\ Len(queue') = L - 1
      /\ \A k \in 1 .. L - 1 : queue'[k] = queue[k + 1]
  BY <1>1, <1>2
<1>4. \A k \in 1 .. L - 1 :
         k + 1 \in 1 .. L /\ k + 1 # 1 /\ k \in Nat /\ k - 1 \in Nat /\ (k - 1) + 1 = k
  BY <1>3
<1>5. L =< numThreads
  BY <1>2, QueueLength DEF QueueInv
<1>6. \A k \in 1 .. L - 1 : k - 1 < Modulus /\ k < Modulus
  BY <1>3, <1>5, ThreadsAssumption, ModulusAssumption
<1>7. L - 1 \in Nat /\ L - 1 < Modulus /\ (L - 1) + 1 = L
  BY <1>3, <1>5, ThreadsAssumption, ModulusAssumption
<1>8. /\ mem[Turn] \in Nat /\ mem[Turn] < Modulus
      /\ mem'[Turn] = (mem[Turn] + 1) % Modulus
      /\ mem'[Counter] = mem[Counter] /\ mem[Counter] = Wrap(mem[Turn], L)
  <2>1. Threads # {} /\ Turn \in Cells /\ Turn # Counter
    BY CellFacts
  <2>2. /\ mem[Turn] \in Nat /\ mem[Turn] < Modulus
        /\ mem[Counter] = Wrap(mem[Turn], L)
    BY <2>1 DEF QueueInv, TypeOK, MemoryOK
  <2>3. mem'[Turn] = (mem[Turn] + 1) % Modulus /\ mem'[Counter] = mem[Counter]
    BY <1>1, <2>1 DEF TypeOK, MemoryOK
  <2> QED BY <2>2, <2>3
<1>9. mem'[Turn] < Modulus
  BY <1>7, <1>8, WrapFacts
<1>10. mem'[Counter] = Wrap(mem'[Turn], Len(queue'))
  <2>1. Wrap((mem[Turn] + 1) % Modulus, L - 1) = Wrap(mem[Turn], (L - 1) + 1)
    BY <1>7, <1>8, WrapFacts
  <2> QED BY <1>3, <1>7, <1>8, <2>1
<1>11. \A j, k \in 1 .. L : queue[j] = queue[k] => j = k
  BY DEF QueueInv
<1>12. \A j, k \in 1 .. Len(queue') : queue'[j] = queue'[k] => j = k
  <2> SUFFICES ASSUME NEW j \in 1 .. L - 1, NEW k \in 1 .. L - 1, queue'[j] = queue'[k]
               PROVE  j = k
    BY <1>3
  <2>1. j + 1 = k + 1
    BY <1>3, <1>4, <1>11
  <2> QED BY <1>4, <2>1
<1>13. \A t \in Threads : phase'[t] # "take" <=> \E k \in 1 .. Len(queue') : queue'[k] = t
  <2>1. ASSUME NEW t \in Threads \ {v}
        PROVE  phase'[t] # "take" <=> \E k \in 1 .. Len(queue') : queue'[k] = t
    <3>1. phase[t] # "take" <=> \E k \in 1 .. L : queue[k] = t
      BY DEF QueueInv
    <3>2. phase'[t] = phase[t]
      BY <1>1 DEF TypeOK
    <3>3. (\E k \in 1 .. L : queue[k] = t) <=> \E k \in 1 .. L - 1 : queue[k + 1] = t
      <4>1. ASSUME NEW k \in 1 .. L, queue[k] = t
            PROVE  \E j \in 1 .. L - 1 : queue[j + 1] = t
        <5>1. k # 1
          BY <1>2, <2>1, <4>1
        <5>2. k - 1 \in 1 .. L - 1 /\ (k - 1) + 1 = k
          BY <1>3, <5>1
        <5> QED BY <4>1, <5>2
      <4>2. ASSUME NEW k \in 1 .. L - 1, queue[k + 1] = t
            PROVE  \E j \in 1 .. L : queue[j] = t
        BY <1>4, <4>2
      <4> QED BY <4>1, <4>2
    <3> QED BY <1>3, <3>1, <3>2, <3>3
  <2>2. phase'[v] = "take"
    BY <1>1 DEF TypeOK
  <2>3. ~\E k \in 1 .. Len(queue') : queue'[k] = v
    <3>1. \A k \in 1 .. L - 1 : queue[k + 1] # v
      <4>1. 1 \in 1 .. L
        BY <1>3
      <4> QED BY <1>2, <1>4, <1>11, <4>1
    <3> QED BY <1>3, <3>1
  <2> QED BY <2>1, <2>2, <2>3
<1>14. \A t \in Threads : phase'[t] \notin {"store", "give"}
  <2>1. ASSUME NEW t \in Threads \ {v}
        PROVE  phase'[t] \notin {"store", "give"}
    BY <1>1, <1>2 DEF QueueInv, TypeOK
  <2>2. phase'[v] = "take"
    BY <1>1 DEF TypeOK
  <2> QED BY <2>1, <2>2
<1>15. \A k \in 1 .. Len(queue') : me'[queue'[k]] = Wrap(mem'[Turn], k - 1)
  <2> SUFFICES ASSUME NEW k \in 1 .. L - 1
               PROVE  me[queue[k + 1]] = Wrap(mem'[Turn], k - 1)
    BY <1>1, <1>3
  <2>1. me[queue[k + 1]] = Wrap(mem[Turn], k)
    <3>1. k + 1 \in 1 .. L /\ (k + 1) - 1 = k
      BY <1>4
    <3>2. me[queue[k + 1]] = Wrap(mem[Turn], (k + 1) - 1)
      BY <3>1 DEF QueueInv
    <3> QED BY <3>1, <3>2
  <2>2. Wrap((mem[Turn] + 1) % Modulus, k - 1) = Wrap(mem[Turn], (k - 1) + 1)
    BY <1>4, <1>6, <1>8, WrapFacts
  <2>3. (k - 1) + 1 = k
    BY <1>4
  <2> QED BY <1>8, <2>1, <2>2, <2>3
<1> QED BY <1>1, <1>3, <1>9, <1>10, <1>12, <1>13, <1>14, <1>15 DEF QueueInv

\* Every step keeps that the queue of the ticket lock is served in its order.
LEMMA QueueKept ==
    ASSUME TypeOK, Started, OwnInv, QueueInv, [Next]_vars
    PROVE  QueueInv'
<1> SUFFICES ASSUME method' = "ticket"
             PROVE  QueueInv'
  BY DEF QueueInv
<1>1. ASSUME NEW v \in Threads, ThreadStep(v)
      PROVE  QueueInv'
  <2>1. method = "ticket" /\ method' = method
    BY <1>1, Frame
  <2>2. \A u \in Threads \ {v} : phase'[u] = phase[u]
    BY <1>1, Frame
  <2>3. CASE \/ LoopTest(v) \/ Scan(v) \/ Reread(v) \/ ScanEnd(v) \/ CsStep(v) \/ Leave(v)
             \/ WaitChoosing(v) \/ WaitTest(v) \/ WaitLess(v) \/ WaitTie(v) \/ WaitEnd(v)
    <3>1. UNCHANGED <<mem, me, queue, phase>>
      <4>1. CASE CsStep(v) BY <4>1 DEF CsStep, locals
      <4>2. CASE Leave(v) BY <4>2 DEF Leave, locals
      <4>3. CASE \/ LoopTest(v) \/ Scan(v) \/ Reread(v) \/ ScanEnd(v) \/ WaitChoosing(v)
                 \/ WaitTest(v) \/ WaitLess(v) \/ WaitTie(v) \/ WaitEnd(v)
        BY <4>3 DEF LoopTest, Scan, Reread, ScanEnd, WaitChoosing, WaitTest, WaitLess, WaitTie,
                    WaitEnd, quiet
      <4> QED BY <2>3, <4>1, <4>2, <4>3
    <3>2. \A u \in Threads : phase'[u] = phase[u]
      BY <3>1
    <3> QED BY <2>1, <3>1, <3>2, QueueSame
  <2>4. CASE Take(v) BY <2>1, <2>4, QueueTake
  <2>5. CASE Spin(v)
    <3>1. /\ UNCHANGED <<mem, me, queue>> /\ me[v] = Read(v, Turn)
          /\ phase[v] = "spin" /\ phase'[v] = "store"
      BY <2>5 DEF Spin, locals, AtPhase, GotoPhase, TypeOK
    <3>2. queue # <<>> /\ queue[1] = v
      BY <2>1, <3>1, TurnFirst
    <3>3. \A u \in Threads :
             /\ phase'[u] = "take" <=> phase[u] = "take"
             /\ phase'[u] \in {"store", "give"} =>
                   phase[u] \in {"store", "give"} \/ (queue # <<>> /\ queue[1] = u)
      BY <2>2, <3>1, <3>2
    <3> QED BY <2>1, <3>1, <3>3, QueueSame
  <2>6. CASE StoreCell(v)
    <3>1. /\ UNCHANGED <<mem, me, queue>> /\ phase[v] = "store" /\ phase'[v] = "give"
      BY <2>6 DEF StoreCell, locals, AtPhase, GotoPhase, TypeOK
    <3> QED BY <2>1, <2>2, <3>1, QueueSame
  <2>7. CASE Give(v) BY <2>1, <2>7, QueueGive
  <2> QED BY <1>1, <2>3, <2>4, <2>5, <2>6, <2>7 DEF ThreadStep
<1>2. ASSUME NEW t \in Threads, Drain(t)
      PROVE  QueueInv'
  <2>1. PICK e : e = Head(buffer[t])
    OBVIOUS
  <2>2. MemoryOK(Threads, Cells, Nat) /\ Flush(t) /\ BufferOK(t) /\ OwnOK(t)
    BY <1>2 DEF TypeOK, Drain, OwnInv
  <2>3. mem' = [mem EXCEPT ![e.cell] = e.value] /\ mem \in [Cells -> Nat]
    BY <2>1, <2>2, FlushFacts DEF MemoryOK
  <2>4. e.cell \in {Choosing(t), Number(t), InCs, Value}
    BY <1>2, <2>1, <2>2, OwnDrain
  <2>5. mem'[Turn] = mem[Turn] /\ mem'[Counter] = mem[Counter]
    BY <2>3, <2>4, CellFacts
  <2>6. UNCHANGED <<phase, method, me, queue>>
    BY <1>2 DEF Drain, mainVars, locals
  <2> QED BY <2>5, <2>6, QueueSame
<1>3. CASE Spawn \/ Join \/ Tick \/ UNCHANGED vars
  <2>1. UNCHANGED <<mem, method, phase, me, queue>>
    BY <1>3, MainSteps
  <2> QED BY <2>1, QueueSame
<1> QED BY <1>1, <1>2, <1>3 DEF Next, Terminated

\* The locks are free at first.
LEMMA LocksInit == Init => SpinInv /\ QueueInv
<1> SUFFICES ASSUME Init
             PROVE  SpinInv /\ QueueInv
  OBVIOUS
<1>1. SpinInv
  <2>1. \A t \in Threads : ~Owner(t)
    BY DEF Init, Owner, Pending, InBuffer
  <2> QED BY <2>1 DEF SpinInv
<1>2. QueueInv
  <2>1. queue = <<>> /\ \A t \in Threads : phase[t] = "take"
    BY DEF Init
  <2>2. queue \in Seq(Threads) /\ Len(queue) = 0
    BY <2>1
  <2>3. mem[Turn] = 0 /\ mem[Counter] = 0
    BY CellFacts DEF Init
  <2>4. ASSUME Threads # {}
        PROVE  0 < Modulus /\ Wrap(0, 0) = 0
    <3>1. Modulus \in Nat \ {0}
      BY <2>4, NextTurn
    <3> QED BY <3>1 DEF Wrap
  <2>5. Threads # {} => mem[Turn] < Modulus /\ mem[Counter] = Wrap(mem[Turn], Len(queue))
    BY <2>2, <2>3, <2>4
  <2>6. \A k \in 1 .. Len(queue) : FALSE
    BY <2>2
  <2> QED BY <2>1, <2>2, <2>5, <2>6 DEF QueueInv
<1> QED BY <1>1, <1>2

\* What the locks rest on holds always.
LEMMA LocksAlways == Spec => [](TypeOK /\ Started /\ OwnInv /\ SpinInv /\ QueueInv)
<1>1. Init => OwnInv /\ SpinInv /\ QueueInv
  BY OwnInit, LocksInit
<1>2. TypeOK /\ Started /\ (OwnInv /\ SpinInv /\ QueueInv) /\ [Next]_vars
         => (OwnInv /\ SpinInv /\ QueueInv)'
  BY OwnKept, SpinKept, QueueKept
<1> QED BY <1>1, <1>2, TypeCorrect, PTL DEF Spec

\* No two threads are inside the lock around a store: neither with the spin lock of
\* problem_4.c, whose unlock is a plain store that the others see late, nor with the ticket
\* lock of problem_5.c, whose counters wrap.
THEOREM LocksExclude == Spec => []LockExclusion
<1>1. TypeOK /\ SpinInv /\ QueueInv => LockExclusion
  <2> SUFFICES ASSUME TypeOK, SpinInv, QueueInv, method # "mfence",
                      NEW t \in Holders, NEW u \in Holders
               PROVE  t = u
    BY DEF LockExclusion
  <2>1. /\ t \in Threads /\ phase[t] \in {"store", "give"}
        /\ u \in Threads /\ phase[u] \in {"store", "give"}
    BY DEF Holders, AtPhase
  <2>2. method = "spin" \/ method = "ticket"
    BY MethodsAssumption DEF TypeOK
  <2>3. CASE method = "spin" BY <2>1, <2>3 DEF SpinInv, Owner
  <2>4. CASE method = "ticket" BY <2>1, <2>4 DEF QueueInv
  <2> QED BY <2>2, <2>3, <2>4
<1> QED BY <1>1, LocksAlways, PTL

\* The ticket lock of problem_5.c serves the threads in the order in which they came,
\* whatever the width of its counters, as long as there are no more threads than turns.
THEOREM TicketsServed == Spec => []ServedInOrder
<1>1. QueueInv => ServedInOrder
  <2> SUFFICES ASSUME QueueInv, method = "ticket", NEW t \in Holders
               PROVE  queue # <<>> /\ Head(queue) = t
    BY DEF ServedInOrder
  <2>1. t \in Threads /\ phase[t] \in {"store", "give"}
    BY DEF Holders, AtPhase
  <2>2. queue # <<>> /\ queue[1] = t /\ queue \in Seq(Threads)
    BY <2>1 DEF QueueInv
  <2> QED BY <2>2
<1> QED BY <1>1, LocksAlways, PTL

-----------------------------------------------------------------------------
(* The ticket lock implements the lock of FairLock.                          *)

\* Whom the ticket lock has inside, now and after a step.
LEMMA InsideFacts ==
    /\ Started => \A t \in Threads :
          pc[t] \in Stages /\ phase[t] \in {"store", "give"} <=> phase[t] \in {"store", "give"}
    /\ Started' => \A t \in Threads :
          pc'[t] \in Stages /\ phase'[t] \in {"store", "give"} <=> phase'[t] \in {"store", "give"}
BY DEF Started

\* A step that changes neither the queue nor who is inside is none of the lock's.
LEMMA TicketSame ==
    ASSUME Started, Started', queue' = queue, method' = method,
           method = "ticket" =>
              \A t \in Threads : phase'[t] \in {"store", "give"} <=> phase[t] \in {"store", "give"}
    PROVE  UNCHANGED TicketLock!vars
<1>1. /\ {queue'[j] : j \in DOMAIN queue'} = {queue[j] : j \in DOMAIN queue}
      /\ [t \in Threads |-> InFrontOf(t)'] = [t \in Threads |-> InFrontOf(t)]
  BY DEF InFrontOf
<1>2. {t \in Threads : method' = "ticket" /\ pc'[t] \in Stages /\ phase'[t] \in {"store", "give"}}
         = {t \in Threads : method = "ticket" /\ pc[t] \in Stages /\ phase[t] \in {"store", "give"}}
  BY InsideFacts
<1> QED BY <1>1, <1>2 DEF TicketLock!vars

\* The add on counter: everyone in the queue is in front of the thread that comes, and
\* nothing changes for the others.
LEMMA TicketTake ==
    ASSUME TypeOK, Started, Started', QueueInv, method = "ticket", NEW v \in Threads, Take(v)
    PROVE  TicketLock!ComeAndJoin(v)
<1>1. /\ phase[v] = "take" /\ phase' = [phase EXCEPT ![v] = "spin"]
      /\ queue' = Append(queue, v) /\ method' = method
  BY DEF Take, AtPhase, GotoPhase, mainVars
<1> DEFINE L == Len(queue)
<1>2. /\ queue \in Seq(Threads) /\ L \in Nat
      /\ DOMAIN queue = 1 .. L /\ DOMAIN queue' = 1 .. L + 1
      /\ \A k \in 1 .. L : queue'[k] = queue[k] /\ queue[k] # v
      /\ queue'[L + 1] = v
  BY <1>1 DEF QueueInv
<1>3. \A k \in 1 .. L + 1 : k \in 1 .. L \/ (k = L + 1 /\ \A j \in 1 .. L + 1 : j < k <=> j \in 1 .. L)
  BY <1>2
<1>4. /\ 1 .. L \subseteq 1 .. L + 1 /\ L + 1 \in 1 .. L + 1
      /\ \A j \in 1 .. L : j < L + 1
      /\ \A k \in 1 .. L : \A j \in 1 .. L + 1 : j < k => j \in 1 .. L
  BY <1>2
<1>5. v \notin {queue[j] : j \in DOMAIN queue}
  BY <1>2
<1>6. {queue'[j] : j \in DOMAIN queue'} = {queue[j] : j \in DOMAIN queue} \cup {v}
  BY <1>2, <1>3, <1>4
<1>7. ASSUME NEW t \in Threads \ {v}
      PROVE  InFrontOf(t)' = InFrontOf(t)
  BY <1>2, <1>3, <1>4 DEF InFrontOf
<1>8. InFrontOf(v)' = {queue[j] : j \in DOMAIN queue}
  BY <1>2, <1>3, <1>4 DEF InFrontOf
<1>9. [t \in Threads |-> InFrontOf(t)']
         = [[t \in Threads |-> InFrontOf(t)] EXCEPT ![v] = {queue[j] : j \in DOMAIN queue}]
  BY <1>7, <1>8
<1>10. \A t \in Threads : phase'[t] \in {"store", "give"} <=> phase[t] \in {"store", "give"}
  BY <1>1 DEF TypeOK
<1>11. {t \in Threads : method' = "ticket" /\ pc'[t] \in Stages /\ phase'[t] \in {"store", "give"}}
         = {t \in Threads : method = "ticket" /\ pc[t] \in Stages /\ phase[t] \in {"store", "give"}}
  BY <1>1, <1>10, InsideFacts
<1> QED BY <1>5, <1>6, <1>9, <1>11 DEF TicketLock!ComeAndJoin

\* The thread that has seen its turn finds nobody inside and nobody in front of it.
LEMMA TicketSpin ==
    ASSUME TypeOK, Started, Started', OwnInv, QueueInv, method = "ticket",
           NEW v \in Threads, Spin(v)
    PROVE  TicketLock!Enter(v)
<1>1. /\ phase[v] = "spin" /\ phase' = [phase EXCEPT ![v] = "store"]
      /\ queue' = queue /\ method' = method /\ me[v] = Read(v, Turn)
  BY DEF Spin, AtPhase, GotoPhase, mainVars
<1>2. queue # <<>> /\ queue[1] = v
  BY <1>1, TurnFirst
<1>3. queue \in Seq(Threads) /\ DOMAIN queue = 1 .. Len(queue) /\ 1 \in 1 .. Len(queue)
  BY <1>2 DEF QueueInv
<1>4. \A t \in Threads : phase[t] \notin {"store", "give"}
  BY <1>1, <1>2 DEF QueueInv
<1>5. InFrontOf(v) = {}
  <2>1. \A k \in 1 .. Len(queue) : queue[k] = v => k = 1
    BY <1>2, <1>3 DEF QueueInv
  <2>2. \A j \in 1 .. Len(queue) : ~(j < 1)
    BY <1>3
  <2> QED BY <1>3, <2>1, <2>2 DEF InFrontOf
<1>6. \A t \in Threads : phase'[t] \in {"store", "give"} <=> t = v
  BY <1>1, <1>4 DEF TypeOK
<1>7. {t \in Threads : method' = "ticket" /\ pc'[t] \in Stages /\ phase'[t] \in {"store", "give"}}
         = {v}
  BY <1>1, <1>6, InsideFacts
<1>8. {t \in Threads : method = "ticket" /\ pc[t] \in Stages /\ phase[t] \in {"store", "give"}} = {}
  BY <1>4
<1>9. v \in {queue[j] : j \in DOMAIN queue}
  BY <1>2, <1>3
<1>10. /\ {queue'[j] : j \in DOMAIN queue'} = {queue[j] : j \in DOMAIN queue}
       /\ [t \in Threads |-> InFrontOf(t)'] = [t \in Threads |-> InFrontOf(t)]
  BY <1>1 DEF InFrontOf
<1> QED BY <1>5, <1>7, <1>8, <1>9, <1>10 DEF TicketLock!Enter

\* The add on turn: the thread was the first of the queue, and is in front of nobody any
\* more.
LEMMA TicketGive ==
    ASSUME TypeOK, Started, Started', QueueInv, method = "ticket", NEW v \in Threads, Give(v)
    PROVE  TicketLock!Leave(v)
<1>1. /\ phase[v] = "give" /\ phase' = [phase EXCEPT ![v] = "take"]
      /\ queue' = Tail(queue) /\ method' = method
  BY DEF Give, NextStage, AtPhase, GotoPhase, mainVars
<1>2. queue # <<>> /\ queue[1] = v /\ queue \in Seq(Threads)
  BY <1>1 DEF QueueInv
<1> DEFINE L == Len(queue)
<1>3. /\ L \in Nat /\ L >= 1
      /\ DOMAIN queue = 1 .. L /\ DOMAIN queue' = 1 .. L - 1
      /\ \A k \in 1 .. L - 1 : queue'[k] = queue[k + 1]
  BY <1>1, <1>2
<1>4. /\ \A k \in 1 .. L : queue[k] = v <=> k = 1
      /\ \A k \in 1 .. L : k # 1 => k - 1 \in 1 .. L - 1 /\ queue'[k - 1] = queue[k]
      /\ \A k \in 1 .. L - 1 : k + 1 \in 1 .. L /\ k + 1 # 1
  <2>1. \A k \in 1 .. L : queue[k] = v <=> k = 1
    BY <1>2, <1>3 DEF QueueInv
  <2>2. \A k \in 1 .. L : k # 1 => k - 1 \in 1 .. L - 1 /\ (k - 1) + 1 = k
    BY <1>3
  <2>3. \A k \in 1 .. L - 1 : k + 1 \in 1 .. L /\ k + 1 # 1
    BY <1>3
  <2> QED BY <1>3, <2>1, <2>2, <2>3
<1>5. {queue'[j] : j \in DOMAIN queue'} = {queue[j] : j \in DOMAIN queue} \ {v}
  <2>1. ASSUME NEW k \in 1 .. L - 1
        PROVE  queue'[k] # v /\ queue'[k] \in {queue[j] : j \in 1 .. L}
    BY <1>3, <1>4
  <2>2. ASSUME NEW k \in 1 .. L, queue[k] # v
        PROVE  queue[k] \in {queue'[j] : j \in 1 .. L - 1}
    BY <1>4, <2>2
  <2> QED BY <1>3, <2>1, <2>2
<1>6. ASSUME NEW t \in Threads
      PROVE  InFrontOf(t)' = InFrontOf(t) \ {v}
  <2>1. ASSUME NEW u \in InFrontOf(t)'
        PROVE  u \in InFrontOf(t) \ {v}
    <3>1. PICK j \in 1 .. L - 1, k \in 1 .. L - 1 : j < k /\ queue'[j] = u /\ queue'[k] = t
      BY <1>3, <2>1 DEF InFrontOf
    <3>2. j + 1 \in 1 .. L /\ k + 1 \in 1 .. L /\ j + 1 < k + 1
      BY <1>3, <3>1
    <3>3. queue[j + 1] = u /\ queue[k + 1] = t /\ queue[j + 1] # v
      BY <1>3, <1>4, <3>1
    <3> QED BY <1>3, <3>2, <3>3 DEF InFrontOf
  <2>2. ASSUME NEW u \in InFrontOf(t) \ {v}
        PROVE  u \in InFrontOf(t)'
    <3>1. PICK j \in 1 .. L, k \in 1 .. L : j < k /\ queue[j] = u /\ queue[k] = t
      BY <1>3, <2>2 DEF InFrontOf
    <3>2. j # 1 /\ k # 1
      BY <1>3, <1>4, <2>2, <3>1
    <3>3. j - 1 \in 1 .. L - 1 /\ k - 1 \in 1 .. L - 1 /\ j - 1 < k - 1
      BY <1>3, <3>1, <3>2
    <3>4. queue'[j - 1] = u /\ queue'[k - 1] = t
      BY <1>4, <3>1, <3>2
    <3> QED BY <1>3, <3>3, <3>4 DEF InFrontOf
  <2> QED BY <2>1, <2>2
<1>7. \A t \in Threads : phase'[t] \in {"store", "give"} <=> phase[t] \in {"store", "give"} /\ t # v
  BY <1>1 DEF TypeOK
<1>8. {t \in Threads : method' = "ticket" /\ pc'[t] \in Stages /\ phase'[t] \in {"store", "give"}}
         = {t \in Threads : method = "ticket" /\ pc[t] \in Stages /\ phase[t] \in {"store", "give"}} \ {v}
  BY <1>1, <1>7, InsideFacts
<1>9. v \in {t \in Threads : method = "ticket" /\ pc[t] \in Stages /\ phase[t] \in {"store", "give"}}
  BY <1>1, InsideFacts
<1>10. [t \in Threads |-> InFrontOf(t)']
          = [t \in Threads |-> [u \in Threads |-> InFrontOf(u)][t] \ {v}]
  BY <1>6
<1> QED BY <1>5, <1>8, <1>9, <1>10 DEF TicketLock!Leave

\* The other steps of a thread are none of the lock's.
LEMMA TicketOther ==
    ASSUME TypeOK, Started, NEW v \in Threads, ThreadStep(v),
           method = "ticket" => ~(Take(v) \/ Spin(v) \/ Give(v))
    PROVE  /\ queue' = queue /\ method' = method
           /\ method = "ticket" =>
                \A t \in Threads : phase'[t] \in {"store", "give"} <=> phase[t] \in {"store", "give"}
<1>1. method' = method /\ \A u \in Threads \ {v} : phase'[u] = phase[u]
  BY Frame
<1>2. CASE StoreCell(v)
  <2>1. queue' = queue /\ phase[v] = "store" /\ phase'[v] = "give"
    BY <1>2 DEF StoreCell, AtPhase, GotoPhase, TypeOK
  <2> QED BY <1>1, <2>1
<1>3. CASE \/ LoopTest(v) \/ Scan(v) \/ Reread(v) \/ ScanEnd(v)
           \/ WaitChoosing(v) \/ WaitTest(v) \/ WaitLess(v) \/ WaitTie(v) \/ WaitEnd(v)
  <2>1. queue' = queue /\ phase' = phase
    BY <1>3 DEF LoopTest, Scan, Reread, ScanEnd, WaitChoosing, WaitTest, WaitLess, WaitTie,
                WaitEnd, quiet
  <2> QED BY <1>1, <2>1
<1>4. CASE CsStep(v) \/ Leave(v)
  <2>1. queue' = queue /\ phase' = phase
    BY <1>4 DEF CsStep, Leave
  <2> QED BY <1>1, <2>1
<1>5. CASE Take(v) \/ Spin(v) \/ Give(v)
  <2>1. method # "ticket"
    BY <1>5
  <2>2. CASE Take(v) BY <1>1, <2>1, <2>2 DEF Take
  <2>3. CASE Spin(v) BY <1>1, <2>1, <2>3 DEF Spin
  <2>4. CASE Give(v) BY <1>1, <2>1, <2>4 DEF Give
  <2> QED BY <1>5, <2>2, <2>3, <2>4
<1> QED BY <1>2, <1>3, <1>4, <1>5 DEF ThreadStep

\* The ticket lock of problem_5.c is a lock that serves first come, first served, whatever
\* the width of its counters, and whatever the store buffers keep back.
THEOREM TicketLockRefinement == Spec => TicketLockSpec
<1>1. Init => TicketLock!Init
  <2> SUFFICES ASSUME Init PROVE TicketLock!Init
    OBVIOUS
  <2>1. queue = <<>> /\ \A t \in Threads : phase[t] = "take"
    BY DEF Init
  <2>2. DOMAIN queue = {}
    BY <2>1
  <2> QED BY <2>1, <2>2 DEF TicketLock!Init, InFrontOf
<1>2. TypeOK /\ Started /\ OwnInv /\ QueueInv /\ Started' /\ [Next]_vars
         => [TicketLock!Next]_(TicketLock!vars)
  <2> SUFFICES ASSUME TypeOK, Started, OwnInv, QueueInv, Started', [Next]_vars
               PROVE  TicketLock!Next \/ UNCHANGED TicketLock!vars
    OBVIOUS
  <2>1. ASSUME NEW v \in Threads, ThreadStep(v)
        PROVE  TicketLock!Next \/ UNCHANGED TicketLock!vars
    <3>1. CASE method = "ticket" /\ Take(v)
      BY <3>1, TicketTake DEF TicketLock!Next
    <3>2. CASE method = "ticket" /\ Spin(v)
      BY <3>2, TicketSpin DEF TicketLock!Next
    <3>3. CASE method = "ticket" /\ Give(v)
      BY <3>3, TicketGive DEF TicketLock!Next
    <3>4. CASE method = "ticket" => ~(Take(v) \/ Spin(v) \/ Give(v))
      BY <2>1, <3>4, TicketOther, TicketSame
    <3> QED BY <3>1, <3>2, <3>3, <3>4
  <2>2. ASSUME NEW v \in Threads, Drain(v)
        PROVE  UNCHANGED TicketLock!vars
    <3>1. UNCHANGED <<queue, method, phase>>
      BY <2>2 DEF Drain, mainVars
    <3> QED BY <3>1, TicketSame
  <2>3. CASE Spawn \/ Join \/ Tick \/ UNCHANGED vars
    <3>1. UNCHANGED <<queue, method, phase>>
      BY <2>3, MainSteps
    <3> QED BY <3>1, TicketSame
  <2> QED BY <2>1, <2>2, <2>3 DEF Next, Terminated
<1> QED BY <1>1, <1>2, LocksAlways, PTL DEF Spec, TicketLockSpec, TicketLock!Spec

-----------------------------------------------------------------------------
(* The tickets in the memory.                                                *)

\* A ticket that is in the memory is its thread's, and one that is not is on its way.
LEMMA NumberFacts ==
    ASSUME TypeOK, OwnInv, NEW t \in Threads
    PROVE  /\ max[t] \in Nat /\ mem[Number(t)] \in Nat
           /\ InLine(t) => HasTicket(t) /\ mem[Number(t)] = max[t] + 1
           /\ mem[Number(t)] # 0 => HasTicket(t) /\ mem[Number(t)] = max[t] + 1
           /\ HasTicket(t) /\ mem[Number(t)] = 0 => Fresh(t) /\ Pending(t, Number(t))
           /\ pc[t] \in {"new", "scan", "reread"} \cup Waiting \cup Critical => ~Pending(t, Number(t))
<1> USE DEF Ticketed, Fresh, Left, Waiting, Critical
<1>1. max[t] \in Nat /\ mem[Number(t)] \in Nat
  BY CellFacts DEF TypeOK, MemoryOK
<1>2. BufferOK(t) /\ OwnOK(t)
  BY DEF OwnInv
<1>3. pc[t] \in {"new", "scan", "reread"} \cup Waiting \cup Critical => ~Pending(t, Number(t))
  BY <1>2 DEF BufferOK
<1>4. ~Pending(t, Number(t)) => mem[Number(t)] = IF Ticketed(t) THEN max[t] + 1 ELSE 0
  <2>1. ~Pending(t, Number(t)) => Read(t, Number(t)) = mem[Number(t)]
    BY ReadDrained
  <2> QED BY <1>2, <2>1 DEF OwnOK
<1>5. CASE Pending(t, Number(t)) /\ Fresh(t)
  <2>1. mem[Number(t)] = 0 /\ ~Left(t) /\ Ticketed(t)
    BY <1>2, <1>5 DEF OwnOK
  <2>2. ~InLine(t)
    BY <1>3, <1>5, <2>1 DEF InLine, Leaving
  <2> QED BY <1>1, <1>3, <1>5, <2>1, <2>2
<1>6. CASE Pending(t, Number(t)) /\ Left(t)
  <2>1. mem[Number(t)] = max[t] + 1 /\ max[t] + 1 # 0
    BY <1>1, <1>2, <1>6 DEF OwnOK
  <2> QED BY <1>1, <1>3, <1>6, <2>1 DEF HasTicket, Leaving
<1>7. CASE ~Pending(t, Number(t))
  <2>1. max[t] + 1 # 0
    BY <1>1
  <2> QED BY <1>1, <1>3, <1>4, <1>7, <2>1 DEF HasTicket, Leaving, InLine
<1> QED BY <1>2, <1>5, <1>6, <1>7 DEF BufferOK

\* A thread that chooses is seen to choose, unless it holds the spin lock; and in any case
\* while its ticket is on its way.
LEMMA ChoosingFacts ==
    ASSUME TypeOK, Started, OwnInv, NEW u \in Threads
    PROVE  /\ Chooses(u) /\ ~Pending(u, Choosing(u)) => mem[Choosing(u)] = 1
           /\ Chooses(u) /\ pc[u] # "choose" /\ mem[Choosing(u)] # 1 => method = "spin" /\ Owner(u)
           /\ Fresh(u) => mem[Choosing(u)] = 1
<1>1. BufferOK(u) /\ OwnOK(u)
  BY DEF OwnInv
<1>2. Chooses(u) /\ ~Pending(u, Choosing(u)) => mem[Choosing(u)] = 1
  <2>1. ~Pending(u, Choosing(u)) => Read(u, Choosing(u)) = mem[Choosing(u)]
    BY ReadDrained
  <2> QED BY <1>1, <2>1 DEF OwnOK
<1>3. ASSUME Chooses(u), pc[u] # "choose", Pending(u, Choosing(u))
      PROVE  method = "spin" /\ Owner(u)
  <2>1. Announcing(u)
    BY <1>1, <1>3 DEF BufferOK
  <2>2. method = "spin" /\ phase[u] = "take"
    BY <1>3, <2>1 DEF Chooses, Announcing, Unlocking
  <2>3. Before(buffer[u], Choosing(u), Value)
    BY <1>1, <2>2 DEF BufferOK
  <2>4. Pending(u, Value)
    BY <1>3, <2>3, BeforePending DEF Pending
  <2> QED BY <2>2, <2>4 DEF Owner
<1>4. Fresh(u) => Chooses(u) /\ ~Announcing(u)
  BY DEF Fresh, Chooses, Announcing, Unlocking
<1> QED BY <1>1, <1>2, <1>3, <1>4 DEF BufferOK

\* Of the others' cells a thread reads what is in the memory.
LEMMA OthersCells ==
    ASSUME OwnInv, NEW t \in Threads, NEW u \in Threads \ {t}
    PROVE  Read(t, Number(u)) = mem[Number(u)] /\ Read(t, Choosing(u)) = mem[Choosing(u)]
<1>1. ~Pending(t, Number(u)) /\ ~Pending(t, Choosing(u))
  <2>1. {Number(u), Choosing(u)} \subseteq Cells
    BY OwnCells
  <2>2. {Number(u), Choosing(u)} \cap {Choosing(t), Number(t), InCs, Value} = {}
    BY OwnCells
  <2> QED BY <2>1, <2>2 DEF OwnInv, BufferOK
<1> QED BY <1>1, ReadDrained

\* What a step of a thread does to the way of its ticket, and to what it reads of in_cs.
LEMMA PendingSteps ==
    ASSUME TypeOK, Started, NEW v \in Threads, ThreadStep(v)
    PROVE  /\ Pending(v, Number(v))' <=> \/ Pending(v, Number(v))
                                         \/ StoreCell(v) /\ pc[v] = "ticket"
                                         \/ Leave(v)
           /\ ~CsStep(v) => Read(v, InCs)' = Read(v, InCs)
<1> DEFINE P(b) == Pending(v, Number(v))' <=> (Pending(v, Number(v)) \/ b)
           R == Read(v, InCs)' = Read(v, InCs)
<1>1. MemoryOK(Threads, Cells, Nat)
  BY DEF TypeOK
<1>2. ASSUME NEW x \in Cells, NEW w \in Nat, Store(v, x, w), mem' = mem
      PROVE  P(x = Number(v)) /\ (x # InCs => R)
  <2>1. /\ \A y : Read(v, y)' = IF y = x THEN w ELSE Read(v, y)
        /\ \A y : Pending(v, y)' <=> Pending(v, y) \/ y = x
    <3>1. /\ \A u \in Threads : \A y : Read(u, y)' = IF u = v /\ y = x THEN w ELSE Read(u, y)
          /\ \A u \in Threads : \A y : Pending(u, y)' <=> Pending(u, y) \/ (u = v /\ y = x)
      BY <1>1, <1>2, StoreFacts
    <3> QED BY <3>1
  <2> QED BY <2>1
<1>3. ASSUME buffer' = buffer
      PROVE  P(FALSE) /\ R
  <2>1. mem'[InCs] = mem[InCs]
    BY Frame, CellFacts
  <2>2. buffer'[v] = buffer[v]
    BY <1>3
  <2>3. R
    BY <1>1, <2>1, <2>2, ReadSame
  <2>4. P(FALSE)
    BY <2>2 DEF Pending, InBuffer
  <2> QED BY <2>3, <2>4
<1>4. CASE \/ LoopTest(v) \/ Spin(v) \/ Scan(v) \/ Reread(v) \/ ScanEnd(v)
           \/ WaitChoosing(v) \/ WaitTest(v) \/ WaitLess(v) \/ WaitTie(v) \/ WaitEnd(v)
  <2>1. buffer' = buffer
    BY <1>4, QuietSteps
  <2>2. ~StoreCell(v) /\ ~Leave(v)
    BY <1>4 DEF LoopTest, Spin, Scan, Reread, ScanEnd, WaitChoosing, WaitTest, WaitLess, WaitTie,
                WaitEnd, StoreCell, Leave, At, AtPhase, Stages
  <2> QED BY <1>3, <2>1, <2>2
<1>5. CASE Take(v)
  <2>1. buffer' = buffer
    BY <1>5 DEF Take, CmpXchg
  <2>2. ~StoreCell(v) /\ ~Leave(v)
    BY <1>5 DEF Take, StoreCell, Leave, At, AtPhase, Stages
  <2> QED BY <1>3, <2>1, <2>2
<1>6. CASE StoreCell(v)
  <2>1. mem' = mem /\ max[v] + 1 \in Nat /\ ~Leave(v)
    BY <1>6 DEF StoreCell, TypeOK, Leave, At, AtPhase, Stages
  <2>2. \/ pc[v] = "ticket" /\ Store(v, Number(v), max[v] + 1)
        \/ pc[v] # "ticket" /\ \E b \in {0, 1} : Store(v, Choosing(v), b)
    BY <1>6 DEF StoreCell
  <2>3. CASE pc[v] = "ticket" /\ Store(v, Number(v), max[v] + 1)
    BY <1>2, <1>6, <2>1, <2>3, OwnCells
  <2>4. CASE pc[v] # "ticket" /\ \E b \in {0, 1} : Store(v, Choosing(v), b)
    BY <1>2, <2>1, <2>4, OwnCells
  <2> QED BY <2>2, <2>3, <2>4
<1>7. CASE Give(v)
  <2>1. ~StoreCell(v) /\ ~Leave(v)
    BY <1>7 DEF Give, StoreCell, Leave, At, AtPhase, Stages
  <2>2. buffer' = buffer \/ (Store(v, Value, 0) /\ mem' = mem)
    BY <1>7 DEF Give
  <2> QED BY <1>2, <1>3, <2>1, <2>2, OwnCells
<1>8. CASE CsStep(v)
  <2>1. ~StoreCell(v) /\ ~Leave(v)
    BY <1>8 DEF CsStep, CsNext, StoreCell, Leave, At, AtPhase, Stages
  <2>2. buffer' = buffer \/ ((\E w \in Nat : Store(v, InCs, w)) /\ mem' = mem)
    BY <1>8 DEF CsStep, CsNext, CsValue
  <2> QED BY <1>2, <1>3, <1>8, <2>1, <2>2, OwnCells
<1>9. CASE Leave(v)
  <2>1. mem' = mem /\ Store(v, Number(v), 0)
    BY <1>9 DEF Leave
  <2> QED BY <1>2, <1>9, <2>1, OwnCells
<1> QED BY <1>4, <1>5, <1>6, <1>7, <1>8, <1>9 DEF ThreadStep

-----------------------------------------------------------------------------
(* Who has a ticket, who is in line and who is inside.                       *)

\* A thread gets its ticket by storing it, is in line once it stops choosing, and is inside
\* once it has waited for everybody; a step of its own never takes that away.
LEMMA TicketSteps ==
    ASSUME TypeOK, Started, OwnInv, NEW v \in Threads, ThreadStep(v)
    PROVE  /\ HasTicket(v) => max'[v] = max[v] /\ (Ticketed(v)' => Ticketed(v))
           /\ HasTicket(v)' /\ ~HasTicket(v) => StoreCell(v) /\ pc[v] = "ticket"
           /\ InLine(v) => InLine(v)'
           /\ InLine(v)' /\ ~InLine(v) => Give(v) /\ pc[v] = "chosen"
           /\ Inside(v) => Inside(v)'
           /\ Inside(v)' /\ ~Inside(v) => WaitEnd(v)
<1> DEFINE Goal ==
           /\ HasTicket(v) => max'[v] = max[v] /\ (Ticketed(v)' => Ticketed(v))
           /\ HasTicket(v)' /\ ~HasTicket(v) => StoreCell(v) /\ pc[v] = "ticket"
           /\ InLine(v) => InLine(v)'
           /\ InLine(v)' /\ ~InLine(v) => Give(v) /\ pc[v] = "chosen"
           /\ Inside(v) => Inside(v)'
           /\ Inside(v)' /\ ~Inside(v) => WaitEnd(v)
<1> USE DEF Ticketed, Left, Waiting, Critical, Stages, HasTicket, InLine, Inside, Leaving
<1>1. Pending(v, Number(v))' <=> \/ Pending(v, Number(v))
                                 \/ StoreCell(v) /\ pc[v] = "ticket"
                                 \/ Leave(v)
  BY PendingSteps
<1>2. method' = method
  BY Frame
<1>3. Pending(v, Number(v)) => Fresh(v) \/ Left(v)
  BY DEF OwnInv, BufferOK
<1>4. CASE \/ LoopTest(v) \/ Spin(v) \/ Scan(v) \/ Reread(v) \/ ScanEnd(v)
           \/ WaitChoosing(v) \/ WaitTest(v) \/ WaitLess(v) \/ WaitTie(v)
  <2>1. Pending(v, Number(v))' <=> Pending(v, Number(v))
    <3>1. UNCHANGED <<mem, buffer>>
      BY <1>4, QuietSteps
    <3> QED BY <3>1, QuietFacts
  <2>2. pc[v] = "wait" => pc'[v] # "cs0"
    BY <1>4 DEF LoopTest, Spin, Scan, Reread, ScanEnd, WaitChoosing, WaitTest, WaitLess, WaitTie,
                At, AtPhase, Goto, TypeOK, quiet, NextOne
  <2>3. /\ pc[v] # "reread" => max' = max
        /\ \/ /\ phase[v] = "spin" /\ phase'[v] = "store" /\ method = "ticket"
              /\ pc'[v] = pc[v] /\ pc[v] \in Stages
           \/ /\ phase'[v] = phase[v] /\ phase[v] = "take"
              /\ \/ pc[v] = "loop" /\ pc'[v] \in {"choose", "done"}
                 \/ pc[v] = "scan" /\ pc'[v] \in {"scan", "reread", "ticket"}
                 \/ pc[v] = "reread" /\ pc'[v] = "scan"
                 \/ pc[v] \in Waiting /\ pc'[v] \in Waiting
                 \/ pc[v] = "wait" /\ pc'[v] = "cs0"
    BY <1>4, Moves
  <2> QED BY <1>2, <2>1, <2>2, <2>3
<1>5. CASE WaitEnd(v)
  <2>1. pc[v] = "wait" /\ pc'[v] = "cs0" /\ max' = max
    BY <1>5 DEF WaitEnd, At, Goto, TypeOK
  <2> QED BY <1>5, <2>1
<1>6. CASE Take(v)
  <2>1. /\ phase[v] = "take" /\ pc'[v] = pc[v] /\ pc[v] \in Stages /\ max' = max
        /\ method = "mfence" \/ Drained(v)
        /\ buffer' = buffer
        /\ phase'[v] \in {"store", "spin"}
    BY <1>6 DEF Take, CmpXchg, AtPhase, GotoPhase, TypeOK
  <2>2. Drained(v) => ~Pending(v, Number(v))
    BY DEF Drained, Pending, InBuffer
  <2>3. Pending(v, Number(v))' <=> Pending(v, Number(v))
    <3>1. buffer'[v] = buffer[v]
      BY <2>1
    <3> QED BY <3>1 DEF Pending, InBuffer
  <2> QED BY <1>2, <2>1, <2>2, <2>3
<1>7. CASE StoreCell(v)
  <2>1. /\ phase[v] = "store" /\ phase'[v] = "give" /\ pc'[v] = pc[v] /\ pc[v] \in Stages
        /\ max' = max /\ ~Leave(v)
    BY <1>7 DEF StoreCell, AtPhase, GotoPhase, TypeOK, locals, Leave, At
  <2> QED BY <1>1, <1>2, <1>7, <2>1
<1>8. CASE Give(v)
  <2>1. /\ phase[v] = "give" /\ phase'[v] = "take"
        /\ \/ pc[v] = "choose" /\ pc'[v] = "scan"
           \/ pc[v] = "ticket" /\ pc'[v] = "chosen" /\ max' = max
           \/ pc[v] = "chosen" /\ pc'[v] = "wait" /\ max' = max
        /\ method = "mfence" => Drained(v)
        /\ ~Leave(v) /\ ~StoreCell(v)
    BY <1>8 DEF Give, NextStage, AtPhase, Goto, GotoPhase, TypeOK, Leave, At, StoreCell
  <2>2. Drained(v) => ~Pending(v, Number(v))
    BY DEF Drained, Pending, InBuffer
  <2> QED BY <1>1, <1>2, <1>8, <2>1, <2>2
<1>9. CASE CsStep(v)
  <2>1. pc[v] \in Critical /\ pc'[v] \in Critical /\ max' = max
    BY <1>9 DEF CsStep, CsNext, At, Goto, TypeOK, locals
  <2> QED BY <1>2, <2>1
<1>10. CASE Leave(v)
  <2>1. pc[v] = "leave" /\ pc'[v] = "loop" /\ max' = max
    BY <1>10 DEF Leave, At, Goto, TypeOK, locals
  <2> QED BY <1>1, <1>2, <1>10, <2>1
<1> QED BY <1>4, <1>5, <1>6, <1>7, <1>8, <1>9, <1>10 DEF ThreadStep

\* A store that reaches the memory takes at most one thread out of the line, the one whose
\* ticket it takes back.
LEMMA TicketDrain ==
    ASSUME TypeOK, OwnInv, NEW v \in Threads, Drain(v), NEW u \in Threads
    PROVE  /\ UNCHANGED <<pc, phase, max, i, method>>
           /\ (Ticketed(u)' <=> Ticketed(u)) /\ (Left(u)' <=> Left(u))
           /\ Pending(u, Number(u))' => Pending(u, Number(u))
           /\ \/ Pending(u, Number(u))' <=> Pending(u, Number(u))
              \/ u = v /\ Head(buffer[v]).cell = Number(v)
           /\ mem'[Number(u)] = mem[Number(u)] \/ (u = v /\ Head(buffer[v]).cell = Number(v))
           /\ Head(buffer[v]).cell = Number(v) =>
                 Pending(v, Number(v)) /\ ~Pending(v, Number(v))'
<1> DEFINE e == Head(buffer[v])
<1>1. MemoryOK(Threads, Cells, Nat) /\ Flush(v) /\ BufferOK(v) /\ OwnOK(v)
  BY DEF TypeOK, Drain, OwnInv
<1>2. /\ mem' = [mem EXCEPT ![e.cell] = e.value] /\ mem \in [Cells -> Nat]
      /\ \A x : Pending(v, x) <=> x = e.cell \/ Pending(v, x)'
      /\ \A w \in Threads : \A x : w # v => (Pending(w, x)' <=> Pending(w, x))
  BY <1>1, FlushFacts DEF MemoryOK
<1>3. e.cell \in {Choosing(v), Number(v), InCs, Value}
  BY <1>1, OwnDrain
<1>4. e.cell = Number(v) => ~Pending(v, Number(v))'
  <2>1. Once(buffer[v], Number(v))
    BY <1>1 DEF BufferOK
  <2> QED BY <1>1, <2>1, FlushOrder
<1>5. UNCHANGED <<pc, phase, max, i, method>>
  BY DEF Drain, locals, mainVars
<1> HIDE DEF e
<1>6. mem'[Number(u)] = mem[Number(u)] \/ (u = v /\ e.cell = Number(v))
  <2>1. CASE e.cell = Number(u)
    BY <1>3, <2>1, OwnCells
  <2>2. CASE e.cell # Number(u)
    BY <1>2, <2>2, OwnCells
  <2> QED BY <2>1, <2>2
<1>7. Pending(u, Number(u))' => Pending(u, Number(u))
  BY <1>2
<1>8. \/ Pending(u, Number(u))' <=> Pending(u, Number(u))
      \/ u = v /\ e.cell = Number(v)
  BY <1>2
<1>9. (Ticketed(u)' <=> Ticketed(u)) /\ (Left(u)' <=> Left(u))
  BY <1>5 DEF Ticketed, Left
<1>10. e.cell = Number(v) => Pending(v, Number(v))
  BY <1>2
<1> QED BY <1>4, <1>5, <1>6, <1>7, <1>8, <1>9, <1>10 DEF e

\* main changes nothing of that.
LEMMA TicketMain ==
    ASSUME TypeOK, Started, OwnInv, Spawn \/ Join \/ Tick \/ UNCHANGED vars, NEW u \in Threads
    PROVE  /\ UNCHANGED <<mem, buffer, method, phase, i, max>>
           /\ pc'[u] = pc[u] \/ (pc[u] = "new" /\ pc'[u] = "loop")
           /\ (Ticketed(u)' <=> Ticketed(u)) /\ (Leaving(u)' <=> Leaving(u))
<1>1. /\ UNCHANGED <<mem, buffer, method, phase, i, max>>
      /\ pc'[u] = pc[u] \/ (pc[u] = "new" /\ pc'[u] = "loop")
  BY MainSteps
<1>2. Pending(u, Number(u))' <=> Pending(u, Number(u))
  BY <1>1, QuietFacts
<1>3. pc[u] = "new" => ~Pending(u, Number(u))
  BY NumberFacts
<1>4. Ticketed(u)' <=> Ticketed(u)
  BY <1>1 DEF Ticketed, Waiting, Critical
<1>5. Leaving(u)' <=> Leaving(u)
  BY <1>1, <1>2, <1>3 DEF Leaving, Left
<1> QED BY <1>1, <1>4, <1>5

\* A step of one thread leaves the others where they are.
LEMMA OthersStay ==
    ASSUME TypeOK, NEW v \in Threads, ThreadStep(v), NEW u \in Threads \ {v}
    PROVE  /\ max'[u] = max[u] /\ mem'[Number(u)] = mem[Number(u)]
           /\ mem'[Choosing(u)] = mem[Choosing(u)] /\ mem'[InCs] = mem[InCs]
           /\ (Ticketed(u)' <=> Ticketed(u)) /\ (HasTicket(u)' <=> HasTicket(u))
           /\ (InLine(u)' <=> InLine(u)) /\ (Inside(u)' <=> Inside(u))
<1>1. /\ pc'[u] = pc[u] /\ phase'[u] = phase[u] /\ max'[u] = max[u] /\ method' = method
      /\ mem'[Number(u)] = mem[Number(u)] /\ mem'[Choosing(u)] = mem[Choosing(u)]
      /\ mem'[InCs] = mem[InCs]
  BY Frame, OwnCells
<1>2. Pending(u, Number(u))' <=> Pending(u, Number(u))
  BY OthersRead
<1>3. (Ticketed(u)' <=> Ticketed(u)) /\ (Leaving(u)' <=> Leaving(u))
  BY <1>1, <1>2 DEF Ticketed, Leaving, Left
<1> QED BY <1>1, <1>3 DEF HasTicket, InLine, Inside

\* A step of u keeps that its ticket will be larger than the one of t in the line.
LEMMA FollowStep ==
    ASSUME TypeOK, Started, OwnInv, NEW t \in Threads, NEW u \in Threads \ {t}, ThreadStep(u),
           InLine(t), WillFollow(u, t)
    PROVE  /\ WillFollow(u, t)'
           /\ HasTicket(u)' /\ ~HasTicket(u) => max[t] < max'[u]
<1>1. /\ t \in Nat /\ t < numThreads /\ numThreads \in Nat
      /\ i[u] \in 0 .. numThreads /\ max[u] \in Nat
  BY ThreadsInt DEF TypeOK
<1>2. /\ max'[t] = max[t] /\ max[t] \in Nat
      /\ mem[Number(t)] = max[t] + 1
  BY NumberFacts, OthersStay
<1>3. ASSUME NEW k \in Threads
      PROVE  /\ mem'[Number(k)] = mem[Number(k)] /\ mem[Number(k)] \in Nat
             /\ pc[u] \in {"scan", "reread"} => Read(u, Number(k)) = mem[Number(k)]
  <2>1. mem'[Number(k)] = mem[Number(k)] /\ mem[Number(k)] \in Nat
    BY Frame, CellFacts DEF TypeOK, MemoryOK
  <2>2. pc[u] \in {"scan", "reread"} => ~Pending(u, Number(u))
    BY NumberFacts
  <2>3. k = u \/ Read(u, Number(k)) = mem[Number(k)]
    BY OthersCells
  <2> QED BY <2>1, <2>2, <2>3, ReadDrained
<1>4. HasTicket(u)' /\ ~HasTicket(u) => StoreCell(u) /\ pc[u] = "ticket"
  BY TicketSteps
<1> USE DEF TypeOK, At, AtPhase, Goto, GotoPhase, quiet, locals, mainVars, Stages
<1>5. CASE Scan(u)
  <2>1. pc[u] = "scan" /\ i[u] \in Threads /\ max' = max
    BY <1>1, <1>5, ThreadsInt DEF Scan
  <2>2. i[u] =< t \/ max[t] + 1 =< max[u]
    BY <2>1 DEF WillFollow
  <2>3. PICK r \in Nat : r = mem[Number(i[u])] /\ r = Read(u, Number(i[u])) /\ r = mem'[Number(i[u])]
    BY <1>3, <2>1
  <2>4. i[u] = t => r = max[t] + 1
    BY <1>2, <2>3
  <2>5. CASE r > max[u]
    <3>1. pc'[u] = "reread" /\ i'[u] = i[u]
      BY <1>5, <2>3, <2>5 DEF Scan
    <3>2. i[u] =< t \/ max[t] + 1 < r
      BY <1>1, <1>2, <2>2, <2>5
    <3> QED BY <1>2, <1>4, <1>5, <2>1, <2>3, <3>1, <3>2 DEF WillFollow, StoreCell
  <2>6. CASE ~(r > max[u])
    <3>1. pc'[u] = "scan" /\ i'[u] = i[u] + 1
      BY <1>5, <2>1, <2>3, <2>6 DEF Scan
    <3>2. i[u] + 1 =< t \/ max[t] + 1 =< max[u]
      BY <1>1, <1>2, <2>2, <2>4, <2>6
    <3> QED BY <1>2, <1>4, <1>5, <2>1, <3>1, <3>2 DEF WillFollow, StoreCell
  <2> QED BY <2>5, <2>6
<1>6. CASE Reread(u)
  <2>1. pc[u] = "reread" /\ i[u] \in Threads /\ pc'[u] = "scan" /\ i'[u] = i[u] + 1
    BY <1>1, <1>6, ThreadsInt DEF Reread
  <2>2. PICK r \in Nat : r = mem[Number(i[u])] /\ r = Read(u, Number(i[u]))
    BY <1>3, <2>1
  <2>3. i[u] =< t \/ max[t] + 1 < r
    BY <2>1, <2>2 DEF WillFollow
  <2>4. max'[u] = r
    BY <1>6, <2>2 DEF Reread
  <2>5. i[u] = t => r = max[t] + 1
    BY <1>2, <2>2
  <2>6. i[u] + 1 =< t \/ max[t] + 1 =< r
    BY <1>1, <1>2, <2>3, <2>5
  <2> QED BY <1>2, <1>4, <1>6, <2>1, <2>4, <2>6 DEF WillFollow, StoreCell
<1>7. CASE ScanEnd(u)
  <2>1. pc[u] = "scan" /\ i[u] = numThreads /\ pc'[u] = "ticket" /\ max' = max
    BY <1>7 DEF ScanEnd
  <2>2. max[t] + 1 =< max[u]
    BY <1>1, <2>1 DEF WillFollow
  <2> QED BY <1>2, <1>4, <1>7, <2>1, <2>2 DEF WillFollow, StoreCell
<1>8. CASE Take(u)
  <2>1. /\ phase[u] = "take" /\ pc'[u] = pc[u] /\ pc[u] \in Stages /\ max' = max
    BY <1>8 DEF Take
  <2> QED BY <1>2, <1>4, <1>8, <2>1 DEF WillFollow, StoreCell
<1>9. CASE Spin(u)
  <2>1. /\ phase[u] = "spin" /\ pc'[u] = pc[u] /\ pc[u] \in Stages /\ max' = max
    BY <1>9 DEF Spin
  <2> QED BY <1>2, <1>4, <1>9, <2>1 DEF WillFollow, StoreCell
<1>10. CASE StoreCell(u)
  <2>1. /\ phase[u] = "store" /\ phase'[u] = "give" /\ pc'[u] = pc[u] /\ pc[u] \in Stages
        /\ max' = max
    BY <1>10 DEF StoreCell
  <2>2. pc[u] = "ticket" => max[t] + 1 =< max[u]
    BY <2>1 DEF WillFollow
  <2> QED BY <1>1, <1>2, <1>4, <2>1, <2>2 DEF WillFollow
<1>11. CASE Give(u)
  <2>1. /\ phase[u] = "give"
        /\ \/ pc[u] = "choose" /\ pc'[u] = "scan" /\ i'[u] = 0
           \/ pc[u] = "ticket" /\ pc'[u] = "chosen"
           \/ pc[u] = "chosen" /\ pc'[u] = "wait"
    BY <1>11 DEF Give, NextStage
  <2> QED BY <1>1, <1>2, <1>4, <2>1 DEF WillFollow, StoreCell
<1>12. CASE LoopTest(u) \/ CsStep(u) \/ Leave(u)
  <2>1. pc'[u] \notin {"scan", "reread", "ticket"} /\ ~StoreCell(u)
    <3>1. CASE LoopTest(u) BY <3>1 DEF LoopTest, StoreCell
    <3>2. CASE CsStep(u) BY <3>2 DEF CsStep, CsNext, StoreCell
    <3>3. CASE Leave(u) BY <3>3 DEF Leave, StoreCell
    <3> QED BY <1>12, <3>1, <3>2, <3>3
  <2> QED BY <1>4, <2>1 DEF WillFollow
<1>13. CASE WaitChoosing(u) \/ WaitTest(u) \/ WaitLess(u) \/ WaitTie(u) \/ WaitEnd(u)
  <2>1. pc'[u] \notin {"scan", "reread", "ticket"} /\ ~StoreCell(u)
    <3>1. CASE WaitChoosing(u) BY <3>1 DEF WaitChoosing, StoreCell
    <3>2. CASE WaitTest(u) BY <3>2 DEF WaitTest, StoreCell, NextOne
    <3>3. CASE WaitLess(u) BY <3>3 DEF WaitLess, StoreCell
    <3>4. CASE WaitTie(u) BY <3>4 DEF WaitTie, StoreCell, NextOne
    <3>5. CASE WaitEnd(u) BY <3>5 DEF WaitEnd, StoreCell
    <3> QED BY <1>13, <3>1, <3>2, <3>3, <3>4, <3>5
  <2> QED BY <1>4, <2>1 DEF WillFollow
<1> QED BY <1>5, <1>6, <1>7, <1>8, <1>9, <1>10, <1>11, <1>12, <1>13 DEF ThreadStep

\* Two threads never pass each other: each would have the earlier ticket.
LEMMA OnePasses ==
    ASSUME TypeOK, PassedInv, NEW t \in Threads, NEW u \in Threads, Passed(t, u), Passed(u, t)
    PROVE  t = u
<1> SUFFICES ASSUME t # u
             PROVE  FALSE
  OBVIOUS
<1>1. HasTicket(t) /\ HasTicket(u)
  BY DEF Passed, Inside, HasTicket, Ticketed
<1>2. Precedes(t, u) /\ Precedes(u, t)
  BY <1>1 DEF PassedInv
<1>3. max[t] \in Nat /\ max[u] \in Nat /\ t \in Nat /\ u \in Nat
  BY ThreadsInt DEF TypeOK
<1> QED BY <1>2, <1>3 DEF Precedes

\* Every step keeps it, for as long as t is in the line.
LEMMA StillFollows ==
    ASSUME TypeOK, Started, OwnInv, PassedInv, [Next]_vars,
           NEW t \in Threads, NEW u \in Threads \ {t}, InLine(t), InLine(t)', WillFollow(u, t)
    PROVE  /\ max'[t] = max[t]
           /\ WillFollow(u, t)'
           /\ HasTicket(u)' /\ ~HasTicket(u) => max[t] < max'[u]
<1>1. /\ HasTicket(t) /\ mem[Number(t)] = max[t] + 1
      /\ t \in Nat /\ max[t] \in Nat /\ max[u] \in Nat
  BY NumberFacts, ThreadsInt DEF TypeOK
<1>2. ASSUME NEW v \in Threads, ThreadStep(v)
      PROVE  /\ max'[t] = max[t] /\ WillFollow(u, t)'
             /\ HasTicket(u)' /\ ~HasTicket(u) => max[t] < max'[u]
  <2>1. max'[t] = max[t]
    <3>1. v = t => max'[t] = max[t]
      BY <1>1, <1>2, TicketSteps
    <3>2. v # t => max'[t] = max[t]
      BY <1>2, OthersStay
    <3> QED BY <3>1, <3>2
  <2>2. CASE v = u
    BY <1>2, <2>1, <2>2, FollowStep
  <2>3. CASE v # u
    <3>1. pc'[u] = pc[u] /\ phase'[u] = phase[u] /\ i'[u] = i[u] /\ max'[u] = max[u]
      BY <1>2, <2>3, Frame
    <3>2. pc[u] = "reread" => mem'[Number(i[u])] = mem[Number(i[u])]
      <4>1. pc[u] = "reread" => i[u] \in Threads
        BY DEF TypeOK
      <4>2. \A k \in Threads : mem'[Number(k)] = mem[Number(k)]
        BY <1>2, Frame, CellFacts
      <4> QED BY <4>1, <4>2
    <3>3. WillFollow(u, t)'
      BY <2>1, <3>1, <3>2 DEF WillFollow
    <3>4. HasTicket(u)' <=> HasTicket(u)
      BY <1>2, <2>3, OthersStay
    <3> QED BY <2>1, <3>3, <3>4
  <2> QED BY <2>2, <2>3
<1>3. ASSUME NEW v \in Threads, Drain(v)
      PROVE  /\ max'[t] = max[t] /\ WillFollow(u, t)'
             /\ HasTicket(u)' /\ ~HasTicket(u) => max[t] < max'[u]
  <2>1. UNCHANGED <<pc, phase, max, i>>
    BY <1>3, TicketDrain
  <2>2. HasTicket(u)' => HasTicket(u)
    BY <1>3, TicketDrain DEF HasTicket, Leaving
  <2>3. ASSUME pc[u] = "reread"
        PROVE  i[u] =< t \/ max[t] + 1 < mem'[Number(i[u])]
    <3>1. i[u] \in Threads /\ (i[u] =< t \/ max[t] + 1 < mem[Number(i[u])])
      BY <2>3 DEF TypeOK, WillFollow
    <3>2. PICK w \in Threads : w = i[u]
      BY <3>1
    <3>3. CASE mem'[Number(w)] = mem[Number(w)]
      BY <3>1, <3>2, <3>3
    <3>4. CASE w = t
      BY <1>1, <3>2, <3>4
    <3>5. CASE w # t /\ mem'[Number(w)] # mem[Number(w)] /\ max[t] + 1 < mem[Number(w)]
      <4>1. Pending(w, Number(w))
        BY <1>3, <3>5, TicketDrain
      <4>2. mem[Number(w)] # 0
        BY <1>1, <3>5
      <4>3. mem[Number(w)] = max[w] + 1 /\ max[w] \in Nat
        BY <4>2, NumberFacts
      <4>4. Left(w)
        BY <4>1, <4>2 DEF OwnInv, BufferOK, OwnOK
      <4>5. Inside(w)
        BY <4>1, <4>4 DEF Inside, Leaving
      <4>6. Precedes(w, t)
        BY <1>1, <3>5, <4>5 DEF PassedInv, Passed
      <4>7. max[w] =< max[t]
        BY <1>1, <4>3, <4>6 DEF Precedes
      <4> QED BY <1>1, <3>5, <4>3, <4>7
    <3> QED BY <3>1, <3>2, <3>3, <3>4, <3>5
  <2>4. WillFollow(u, t)'
    BY <2>1, <2>3 DEF WillFollow
  <2> QED BY <2>1, <2>2, <2>4
<1>4. CASE Spawn \/ Join \/ Tick \/ UNCHANGED vars
  <2>1. /\ UNCHANGED <<mem, phase, i, max>>
        /\ pc'[u] = pc[u] \/ pc'[u] = "loop"
        /\ HasTicket(u)' <=> HasTicket(u)
    BY <1>4, TicketMain DEF HasTicket
  <2>2. WillFollow(u, t)'
    BY <2>1 DEF WillFollow
  <2> QED BY <2>1, <2>2
<1> QED BY <1>2, <1>3, <1>4 DEF Next, Terminated

\* A thread that is in line, or has a ticket, keeps its max, whoever moves.
LEMMA TicketKeeps ==
    ASSUME TypeOK, Started, OwnInv, [Next]_vars, NEW t \in Threads
    PROVE  /\ HasTicket(t) => max'[t] = max[t] /\ (Ticketed(t)' => Ticketed(t))
           /\ InLine(t)' /\ ~InLine(t) => Give(t) /\ pc[t] = "chosen"
           /\ Inside(t)' /\ ~Inside(t) => WaitEnd(t)
<1>1. ASSUME NEW v \in Threads, ThreadStep(v)
      PROVE  /\ HasTicket(t) => max'[t] = max[t] /\ (Ticketed(t)' => Ticketed(t))
             /\ InLine(t)' /\ ~InLine(t) => Give(t) /\ pc[t] = "chosen"
             /\ Inside(t)' /\ ~Inside(t) => WaitEnd(t)
  <2>1. CASE v = t
    BY <1>1, <2>1, TicketSteps
  <2>2. CASE v # t
    BY <1>1, <2>2, OthersStay
  <2> QED BY <2>1, <2>2
<1>2. ASSUME NEW v \in Threads, Drain(v)
      PROVE  /\ max'[t] = max[t] /\ (Ticketed(t)' <=> Ticketed(t))
             /\ InLine(t)' => InLine(t)
             /\ Inside(t)' => Inside(t)
  <2>1. /\ UNCHANGED <<pc, max>> /\ (Ticketed(t)' <=> Ticketed(t)) /\ (Left(t)' <=> Left(t))
        /\ Pending(t, Number(t))' => Pending(t, Number(t))
    BY <1>2, TicketDrain
  <2> QED BY <2>1 DEF InLine, Inside, Leaving
<1>3. ASSUME Spawn \/ Join \/ Tick \/ UNCHANGED vars
      PROVE  /\ max'[t] = max[t] /\ (Ticketed(t)' <=> Ticketed(t))
             /\ InLine(t)' => InLine(t)
             /\ Inside(t)' => Inside(t)
  <2>1. /\ max' = max /\ (Ticketed(t)' <=> Ticketed(t)) /\ (Leaving(t)' <=> Leaving(t))
        /\ pc'[t] = pc[t] \/ pc'[t] = "loop"
    BY <1>3, TicketMain
  <2> QED BY <2>1 DEF InLine, Inside, Waiting, Critical
<1> QED BY <1>1, <1>2, <1>3 DEF Next, Terminated

\* Every step keeps that a thread that chooses unseen will have a later ticket.
LEMMA UnseenKept ==
    ASSUME TypeOK, Started, OwnInv, OwnInv', SpinInv, PassedInv, UnseenInv, [Next]_vars
    PROVE  UnseenInv'
<1> SUFFICES ASSUME NEW t \in Threads, NEW u \in Threads \ {t}, InLine(t)', mem'[Choosing(u)] # 1
             PROVE  WillFollow(u, t)'
  BY DEF UnseenInv
<1>1. CASE ~InLine(t)
  <2>1. Give(t) /\ pc[t] = "chosen"
    BY <1>1, TicketKeeps
  <2>2. ThreadStep(t) /\ phase[t] = "give"
    BY <2>1 DEF ThreadStep, Give, AtPhase
  <2>3. pc'[u] = pc[u] /\ phase'[u] = phase[u] /\ mem'[Choosing(u)] = mem[Choosing(u)]
    BY <2>2, Frame, OthersStay
  <2>4. Owner(t)
    BY <2>2 DEF Owner
  <2>5. pc[u] \in {"scan", "reread", "ticket"} => Chooses(u) /\ pc[u] # "choose"
    BY DEF Chooses
  <2>6. pc[u] \in {"scan", "reread", "ticket"} => method = "spin" /\ Owner(u)
    BY <2>3, <2>5, ChoosingFacts
  <2>7. pc[u] \notin {"scan", "reread", "ticket"}
    BY <2>4, <2>6 DEF SpinInv
  <2> QED BY <2>3, <2>7 DEF WillFollow
<1>2. CASE InLine(t) /\ mem[Choosing(u)] # 1
  <2>1. WillFollow(u, t)
    BY <1>2 DEF UnseenInv
  <2> QED BY <1>2, <2>1, StillFollows
<1>3. CASE InLine(t) /\ mem[Choosing(u)] = 1
  <2>1. PICK v \in Threads : Drain(v)
    <3>1. ASSUME NEW v \in Threads, ThreadStep(v)
          PROVE  mem'[Choosing(u)] = mem[Choosing(u)]
      BY <3>1, Frame, CellFacts
    <3>2. Spawn \/ Join \/ Tick \/ UNCHANGED vars => mem' = mem
      BY MainSteps
    <3> QED BY <1>3, <3>1, <3>2 DEF Next, Terminated
  <2>2. MemoryOK(Threads, Cells, Nat) /\ Flush(v) /\ BufferOK(v) /\ OwnOK(v)
    BY <2>1 DEF TypeOK, Drain, OwnInv
  <2>3. PICK e : e = Head(buffer[v])
    OBVIOUS
  <2>4. mem' = [mem EXCEPT ![e.cell] = e.value] /\ mem \in [Cells -> Nat]
    BY <2>2, <2>3, FlushFacts DEF MemoryOK
  <2>5. e.cell = Choosing(u)
    BY <1>3, <2>4, CellFacts
  <2>6. e.cell \in {Choosing(v), Number(v), InCs, Value}
    BY <2>1, <2>2, <2>3, OwnDrain
  <2>7. v = u
    BY <2>5, <2>6, CellFacts
  <2>8. ~Pending(u, Choosing(u))'
    <3>1. Once(buffer[v], Choosing(u))
      BY <2>2, <2>7 DEF BufferOK
    <3> QED BY <2>2, <2>3, <2>5, <2>7, <3>1, FlushOrder
  <2>9. Read(u, Choosing(u))' = mem'[Choosing(u)]
    <3>1. ~InBuffer(buffer'[u], Choosing(u))
      BY <2>8 DEF Pending
    <3> QED BY <3>1, ReadLookup, LookupNone
  <2>10. ~Chooses(u)'
    BY <2>9 DEF OwnInv, OwnOK
  <2> QED BY <2>10 DEF Chooses, WillFollow
<1> QED BY <1>1, <1>2, <1>3

\* Every step keeps that a thread that t has passed has a later ticket, or will have one.
LEMMA PassedKept ==
    ASSUME TypeOK, Started, OwnInv, PassedInv, WatchedInv, [Next]_vars
    PROVE  PassedInv'
<1> SUFFICES ASSUME NEW t \in Threads, NEW u \in Threads \ {t}, Passed(t, u)'
             PROVE  WillFollow(u, t)' /\ (HasTicket(u)' => Precedes(t, u)')
  BY DEF PassedInv
<1>1. /\ InLine(t)'
      /\ t \in Nat /\ u \in Nat /\ max[t] \in Nat /\ max[u] \in Nat
      /\ i[t] \in 0 .. numThreads
  BY ThreadsInt DEF Passed, Inside, InLine, TypeOK
<1>2. CASE Passed(t, u)
  <2>1. InLine(t)
    BY <1>2 DEF Passed, Inside, InLine
  <2>2. WillFollow(u, t) /\ (HasTicket(u) => Precedes(t, u))
    BY <1>2 DEF PassedInv
  <2>3. /\ max'[t] = max[t] /\ WillFollow(u, t)'
        /\ HasTicket(u)' /\ ~HasTicket(u) => max[t] < max'[u]
    BY <1>1, <2>1, <2>2, StillFollows
  <2>4. HasTicket(u) => max'[u] = max[u]
    BY TicketKeeps
  <2> QED BY <2>2, <2>3, <2>4 DEF Precedes
<1>3. CASE ~Passed(t, u)
  <2>1. /\ ThreadStep(t) /\ InLine(t)
        /\ \/ WaitTest(t) /\ i[t] = u /\ Read(t, Number(u)) = 0
           \/ WaitTie(t) /\ i[t] = u /\ ~(Read(t, Number(u)) = Read(t, Number(t)) /\ u < t)
    <3>1. Inside(t)' => Inside(t)
      <4>1. ~Inside(t) /\ Inside(t)' => WaitEnd(t)
        BY TicketKeeps
      <4>2. WaitEnd(t) => pc[t] = "wait" /\ i[t] = numThreads /\ u < i[t]
        BY ThreadsInt DEF WaitEnd, At
      <4> QED BY <1>3, <4>1, <4>2 DEF Passed, Waiting
    <3>2. ~Inside(t) /\ pc'[t] \in Waiting /\ u < i'[t] /\ ~(pc[t] \in Waiting /\ u < i[t])
      BY <1>3, <3>1 DEF Passed
    <3>3. ThreadStep(t)
      <4>1. ASSUME NEW v \in Threads \ {t}, ThreadStep(v)
            PROVE  pc'[t] = pc[t] /\ i'[t] = i[t]
        BY <4>1, Frame
      <4>2. ASSUME NEW v \in Threads, Drain(v)
            PROVE  pc'[t] = pc[t] /\ i'[t] = i[t]
        BY <4>2, TicketDrain
      <4>3. Spawn \/ Join \/ Tick \/ UNCHANGED vars =>
               i'[t] = i[t] /\ (pc'[t] = pc[t] \/ pc'[t] = "loop")
        BY TicketMain
      <4> QED BY <3>2, <4>1, <4>2, <4>3 DEF Waiting, Next, Terminated
    <3> USE DEF TypeOK, At, AtPhase, Goto, GotoPhase, quiet, locals, mainVars, Stages, Waiting
    <3>4. WaitTest(t) \/ WaitTie(t)
      <4>1. ~LoopTest(t) BY <3>2 DEF LoopTest
      <4>2. ~Take(t) BY <3>2 DEF Take
      <4>3. ~Spin(t) BY <3>2 DEF Spin
      <4>4. ~StoreCell(t) BY <3>2 DEF StoreCell
      <4>5. ~Give(t)
        <5>1. ~(u < 0)
          BY <1>1
        <5> QED BY <3>2, <5>1 DEF Give, NextStage
      <4>6. ~Scan(t) BY <3>2 DEF Scan
      <4>7. ~Reread(t) BY <3>2 DEF Reread
      <4>8. ~ScanEnd(t) BY <3>2 DEF ScanEnd
      <4>9. ~WaitChoosing(t) BY <3>2 DEF WaitChoosing
      <4>10. ~WaitLess(t) BY <3>2 DEF WaitLess
      <4>11. ~WaitEnd(t) BY <3>2 DEF WaitEnd
      <4>12. ~CsStep(t) BY <3>2 DEF CsStep, CsNext
      <4>13. ~Leave(t) BY <3>2 DEF Leave
      <4> QED BY <3>3, <4>1, <4>2, <4>3, <4>4, <4>5, <4>6, <4>7, <4>8, <4>9, <4>10, <4>11, <4>12,
                 <4>13 DEF ThreadStep
    <3>5. pc[t] \in {"test", "tie"} /\ i[t] \in Threads /\ ~(u < i[t])
      BY <3>2, <3>4 DEF WaitTest, WaitTie
    <3>6. i'[t] = i[t] \/ i'[t] = i[t] + 1
      BY <3>4, <3>5 DEF WaitTest, WaitTie, NextOne
    <3>7. i[t] = u /\ i'[t] # i[t]
      BY <1>1, <3>2, <3>5, <3>6
    <3>8. \/ WaitTest(t) /\ Read(t, Number(u)) = 0
          \/ WaitTie(t) /\ ~(Read(t, Number(u)) = Read(t, Number(t)) /\ u < t)
      BY <3>4, <3>7 DEF WaitTest, WaitTie
    <3> QED BY <3>3, <3>5, <3>7, <3>8 DEF InLine
  <2>2. pc[t] \in {"test", "tie"} /\ WillFollow(u, t)
    BY <2>1 DEF WaitTest, WaitTie, At, WatchedInv
  <2>3. WillFollow(u, t)' /\ max'[t] = max[t]
    BY <1>1, <2>1, <2>2, StillFollows
  <2>4. max'[u] = max[u] /\ (HasTicket(u)' <=> HasTicket(u))
    BY <2>1, OthersStay
  <2>5. ASSUME HasTicket(u)
        PROVE  Precedes(t, u)
    <3>1. /\ mem[Number(u)] # 0 => mem[Number(u)] = max[u] + 1
          /\ mem[Number(u)] = 0 => Fresh(u)
      BY <2>5, NumberFacts
    <3>2. mem[Number(u)] = 0 => max[t] < max[u]
      BY <2>1, <2>2, <3>1 DEF Fresh, Ticketed, WatchedInv
    <3>3. Read(t, Number(u)) = mem[Number(u)]
      BY OthersCells
    <3>4. CASE WaitTest(t) /\ Read(t, Number(u)) = 0
      BY <3>2, <3>3, <3>4 DEF Precedes
    <3>5. CASE /\ WaitTie(t) /\ i[t] = u
               /\ ~(Read(t, Number(u)) = Read(t, Number(t)) /\ u < t)
      <4>1. pc[t] = "tie"
        BY <3>5 DEF WaitTie, At
      <4>2. max[t] =< max[u]
        BY <2>5, <3>5, <4>1 DEF WatchedInv
      <4>3. Read(t, Number(t)) = max[t] + 1
        BY <4>1 DEF OwnInv, OwnOK, Ticketed, Waiting
      <4>4. max[t] = max[u] => mem[Number(u)] = max[t] + 1
        BY <1>1, <3>1, <3>2
      <4>5. max[t] = max[u] => t < u
        BY <1>1, <3>3, <3>5, <4>3, <4>4
      <4> QED BY <1>1, <4>2, <4>5 DEF Precedes
    <3> QED BY <2>1, <3>4, <3>5
  <2> QED BY <2>3, <2>4, <2>5 DEF Precedes
<1> QED BY <1>2, <1>3

\* What a thread that WatchedInv speaks of was doing before a step.
LEMMA WatchedBefore ==
    ASSUME TypeOK, Started, OwnInv, [Next]_vars, NEW t \in Threads,
           pc'[t] \in {"test", "less", "tie"}
    PROVE  \/ /\ pc[t] \in {"test", "less", "tie"} /\ i'[t] = i[t]
              /\ pc'[t] = "tie" => pc[t] = "tie" \/ WaitLess(t)
           \/ WaitChoosing(t) /\ pc'[t] = "test" /\ i'[t] = i[t]
<1> USE DEF TypeOK, At, AtPhase, Goto, GotoPhase, quiet, locals, mainVars, Stages
<1>1. CASE ThreadStep(t)
  <2>1. ~LoopTest(t) BY DEF LoopTest
  <2>2. ~Take(t) BY DEF Take
  <2>3. ~Spin(t) BY DEF Spin
  <2>4. ~StoreCell(t) BY DEF StoreCell
  <2>5. ~Give(t) BY DEF Give, NextStage
  <2>6. ~Scan(t) BY DEF Scan
  <2>7. ~Reread(t) BY DEF Reread
  <2>8. ~ScanEnd(t) BY DEF ScanEnd
  <2>9. ~WaitEnd(t) BY DEF WaitEnd
  <2>10. ~CsStep(t) BY DEF CsStep, CsNext
  <2>11. ~Leave(t) BY DEF Leave
  <2>12. CASE WaitChoosing(t) BY <2>12 DEF WaitChoosing
  <2>13. CASE WaitTest(t) BY <2>13 DEF WaitTest, NextOne
  <2>14. CASE WaitLess(t) BY <2>14 DEF WaitLess
  <2>15. CASE WaitTie(t) BY <2>15 DEF WaitTie, NextOne
  <2> QED BY <1>1, <2>1, <2>2, <2>3, <2>4, <2>5, <2>6, <2>7, <2>8, <2>9, <2>10, <2>11, <2>12,
             <2>13, <2>14, <2>15 DEF ThreadStep
<1>2. CASE ~ThreadStep(t)
  <2>1. ASSUME NEW v \in Threads \ {t}, ThreadStep(v)
        PROVE  pc'[t] = pc[t] /\ i'[t] = i[t]
    BY <2>1, Frame
  <2>2. ASSUME NEW v \in Threads, Drain(v)
        PROVE  pc'[t] = pc[t] /\ i'[t] = i[t]
    BY <2>2, TicketDrain
  <2>3. Spawn \/ Join \/ Tick \/ UNCHANGED vars =>
           i'[t] = i[t] /\ (pc'[t] = pc[t] \/ pc'[t] = "loop")
    BY TicketMain
  <2>4. pc'[t] = pc[t] /\ i'[t] = i[t]
    BY <1>2, <2>1, <2>2, <2>3 DEF Next, Terminated
  <2> QED BY <2>4
<1> QED BY <1>1, <1>2

\* Every step keeps that the thread that t waits for will have a later ticket, unless t sees
\* the one it has.
LEMMA WatchedKept ==
    ASSUME TypeOK, Started, OwnInv, PassedInv, WatchedInv, UnseenInv, [Next]_vars
    PROVE  WatchedInv'
<1> SUFFICES ASSUME NEW t \in Threads, NEW u \in Threads \ {t},
                    pc'[t] \in {"test", "less", "tie"}, i'[t] = u
             PROVE  /\ WillFollow(u, t)'
                    /\ Ticketed(u)' /\ mem'[Number(u)] = 0 => max'[t] < max'[u]
                    /\ pc'[t] = "tie" /\ HasTicket(u)' => max'[t] =< max'[u]
  BY DEF WatchedInv
<1>1. max[t] \in Nat /\ max[u] \in Nat
  BY DEF TypeOK
<1>2. /\ i[t] = u /\ InLine(t) /\ InLine(t)'
      /\ \/ /\ pc[t] \in {"test", "less", "tie"}
            /\ pc'[t] = "tie" => pc[t] = "tie" \/ WaitLess(t)
         \/ WaitChoosing(t) /\ pc'[t] = "test"
  <2>1. \/ /\ pc[t] \in {"test", "less", "tie"} /\ i'[t] = i[t]
           /\ pc'[t] = "tie" => pc[t] = "tie" \/ WaitLess(t)
        \/ WaitChoosing(t) /\ pc'[t] = "test" /\ i'[t] = i[t]
    BY WatchedBefore
  <2>2. WaitChoosing(t) => pc[t] = "wait"
    BY DEF WaitChoosing, At
  <2> QED BY <2>1, <2>2 DEF InLine, Waiting
<1>3. /\ WillFollow(u, t)
      /\ Ticketed(u) /\ mem[Number(u)] = 0 => max[t] < max[u]
      /\ pc'[t] = "tie" /\ HasTicket(u) => max[t] =< max[u]
  <2>1. CASE /\ pc[t] \in {"test", "less", "tie"}
             /\ pc'[t] = "tie" => pc[t] = "tie" \/ WaitLess(t)
    <3>1. /\ WillFollow(u, t)
          /\ Ticketed(u) /\ mem[Number(u)] = 0 => max[t] < max[u]
          /\ pc[t] = "tie" /\ HasTicket(u) => max[t] =< max[u]
      BY <1>2, <2>1 DEF WatchedInv
    <3>2. ASSUME WaitLess(t), pc'[t] = "tie", HasTicket(u)
          PROVE  max[t] =< max[u]
      <4>1. pc[t] = "less" /\ ~(Read(t, Number(u)) < Read(t, Number(t)))
        BY <1>2, <3>2 DEF WaitLess, At, Goto, TypeOK
      <4>2. Read(t, Number(u)) = mem[Number(u)]
        BY OthersCells
      <4>3. Read(t, Number(t)) = max[t] + 1
        BY <4>1 DEF OwnInv, OwnOK, Ticketed, Waiting
      <4>4. mem[Number(u)] \in Nat /\ (mem[Number(u)] # 0 => mem[Number(u)] = max[u] + 1)
        BY NumberFacts
      <4> QED BY <1>1, <4>1, <4>2, <4>3, <4>4
    <3> QED BY <2>1, <3>1, <3>2
  <2>2. CASE WaitChoosing(t) /\ pc'[t] = "test"
    <3>1. mem[Choosing(u)] # 1
      <4>1. Read(t, Choosing(u)) # 1
        BY <1>2, <2>2 DEF WaitChoosing
      <4>2. Read(t, Choosing(u)) = mem[Choosing(u)]
        BY OthersCells
      <4> QED BY <4>1, <4>2
    <3>2. WillFollow(u, t)
      BY <1>2, <3>1 DEF UnseenInv
    <3>3. ~Fresh(u)
      BY <3>1, ChoosingFacts
    <3>4. ~(Ticketed(u) /\ mem[Number(u)] = 0)
      BY <3>3, NumberFacts DEF HasTicket
    <3> QED BY <2>2, <3>2, <3>4
  <2> QED BY <1>2, <2>1, <2>2
<1>4. /\ max'[t] = max[t] /\ WillFollow(u, t)'
      /\ HasTicket(u)' /\ ~HasTicket(u) => max[t] < max'[u]
  BY <1>2, <1>3, StillFollows
<1>5. HasTicket(u) => max'[u] = max[u] /\ (Ticketed(u)' => Ticketed(u))
  BY TicketKeeps
<1>6. ASSUME Ticketed(u)', mem'[Number(u)] = 0, HasTicket(u)
      PROVE  max[t] < max'[u]
  <2>1. Ticketed(u)
    BY <1>5, <1>6
  <2>2. mem[Number(u)] = 0
    <3> SUFFICES ASSUME mem[Number(u)] # 0
                 PROVE  FALSE
      OBVIOUS
    <3>1. PICK v \in Threads : Drain(v)
      <4>1. ASSUME NEW v \in Threads, ThreadStep(v)
            PROVE  mem'[Number(u)] = mem[Number(u)]
        BY <4>1, Frame, CellFacts
      <4>2. Spawn \/ Join \/ Tick \/ UNCHANGED vars => mem' = mem
        BY MainSteps
      <4> QED BY <1>6, <4>1, <4>2 DEF Next, Terminated
    <3>2. Pending(u, Number(u))
      BY <1>6, <3>1, TicketDrain
    <3>3. ~Left(u)
      BY <2>1 DEF Ticketed, Left, Waiting, Critical
    <3>4. Fresh(u)
      BY <3>2, <3>3 DEF OwnInv, BufferOK
    <3> QED BY <3>2, <3>4 DEF OwnInv, OwnOK
  <2> QED BY <1>3, <1>5, <1>6, <2>1, <2>2
<1>7. Ticketed(u)' => HasTicket(u)'
  BY DEF HasTicket
<1> QED BY <1>1, <1>3, <1>4, <1>5, <1>6, <1>7, TypeKept DEF TypeOK

\* At first nobody has a ticket.
LEMMA OrderInit == Init => PassedInv /\ WatchedInv /\ UnseenInv
<1> SUFFICES ASSUME Init, NEW t \in Threads
             PROVE  /\ \A u \in Threads : ~Passed(t, u)
                    /\ ~InLine(t) /\ pc[t] \notin {"test", "less", "tie"}
  BY DEF PassedInv, WatchedInv, UnseenInv
<1>1. pc[t] = "new" /\ buffer[t] = <<>>
  BY DEF Init
<1>2. ~Leaving(t)
  BY <1>1 DEF Leaving, Pending, InBuffer
<1> QED BY <1>1, <1>2 DEF Passed, Inside, InLine, Waiting, Critical

\* What the bakery rests on holds always.
LEMMA OrderAlways ==
    Spec => [](TypeOK /\ Started /\ OwnInv /\ SpinInv /\ PassedInv /\ WatchedInv /\ UnseenInv)
<1>1. TypeOK /\ Started /\ OwnInv /\ OwnInv' /\ SpinInv
         /\ (PassedInv /\ WatchedInv /\ UnseenInv) /\ [Next]_vars
      => (PassedInv /\ WatchedInv /\ UnseenInv)'
  <2> SUFFICES ASSUME TypeOK, Started, OwnInv, OwnInv', SpinInv,
                      PassedInv, WatchedInv, UnseenInv, [Next]_vars
               PROVE  PassedInv' /\ WatchedInv' /\ UnseenInv'
    OBVIOUS
  <2>1. PassedInv' BY PassedKept
  <2>2. WatchedInv' BY WatchedKept
  <2>3. UnseenInv' BY UnseenKept
  <2> QED BY <2>1, <2>2, <2>3
<1> QED BY <1>1, OrderInit, LocksAlways, PTL DEF Spec

\* Never two threads in the critical section: the fences after the stores, or the locks
\* around them, are enough against the store buffers, for every number of threads.
THEOREM BakeryExcludes == Spec => []MutualExclusion
<1>1. TypeOK /\ PassedInv => MutualExclusion
  BY OnePasses DEF MutualExclusion, Passed, Inside
<1> QED BY <1>1, OrderAlways, PTL

-----------------------------------------------------------------------------
(* First come, first served.                                                 *)

\* What a step does to the list of those who were there before thread u: u makes its list
\* when it stores choosing[u] = 1, and who leaves is taken off it.
LEMMA ListSteps ==
    ASSUME TypeOK, Started, AheadInv, [Next]_vars
    PROVE  /\ ahead' \in [Threads -> SUBSET Threads]
           /\ \A u \in Threads : \A t \in ahead'[u] :
                 \/ /\ t \in ahead[u]
                    /\ ~Leave(t)
                 \/ /\ StoreCell(u) /\ pc[u] = "choose" /\ phase'[u] = "give" /\ pc' = pc
                    /\ pc[t] \in Waiting \cup Critical
<1> DEFINE Goal == /\ ahead' \in [Threads -> SUBSET Threads]
                   /\ \A u \in Threads : \A t \in ahead'[u] :
                         \/ /\ t \in ahead[u]
                            /\ ~Leave(t)
                         \/ /\ StoreCell(u) /\ pc[u] = "choose" /\ phase'[u] = "give" /\ pc' = pc
                            /\ pc[t] \in Waiting \cup Critical
<1>1. ahead \in [Threads -> SUBSET Threads]
  BY DEF AheadInv
<1>2. ASSUME NEW v \in Threads, Leave(v)
      PROVE  Goal
  <2>1. /\ ahead' = [u \in Threads |-> IF u = v THEN {} ELSE ahead[u] \ {v}]
        /\ pc[v] = "leave" /\ pc' = [pc EXCEPT ![v] = "loop"]
    BY <1>2 DEF Leave, At, Goto
  <2>2. \A t \in Threads : Leave(t) => t = v
    BY <2>1 DEF Leave, At, Goto, TypeOK
  <2> QED BY <1>1, <2>1, <2>2
<1>3. ASSUME NEW v \in Threads, StoreCell(v), pc[v] = "choose"
      PROVE  Goal
  <2>1. /\ ahead' = [ahead EXCEPT ![v] = {u \in Threads : pc[u] \in Waiting \cup Critical}]
        /\ pc' = pc /\ phase'[v] = "give"
    BY <1>3 DEF StoreCell, GotoPhase, TypeOK
  <2>2. \A t \in Threads : ~Leave(t)
    BY <2>1 DEF Leave, At, Goto, TypeOK
  <2> QED BY <1>1, <1>3, <2>1, <2>2
<1>4. ASSUME ahead' = ahead, \A t \in Threads : ~Leave(t)
      PROVE  Goal
  BY <1>1, <1>4
<1>5. ASSUME NEW v \in Threads, ThreadStep(v), ~Leave(v), ~(StoreCell(v) /\ pc[v] = "choose")
      PROVE  ahead' = ahead /\ \A t \in Threads : ~Leave(t)
  <2>1. \A t \in Threads \ {v} : pc'[t] = pc[t]
    BY <1>5, Frame
  <2>2. \A t \in Threads : ~Leave(t)
    BY <1>5, <2>1 DEF Leave, At, Goto, TypeOK
  <2>3. CASE StoreCell(v) BY <1>5, <2>2, <2>3 DEF StoreCell
  <2>4. CASE Take(v) \/ Spin(v) \/ Give(v) BY <2>2, <2>4 DEF Take, Spin, Give
  <2>5. CASE \/ LoopTest(v) \/ Scan(v) \/ Reread(v) \/ ScanEnd(v) \/ WaitChoosing(v)
             \/ WaitTest(v) \/ WaitLess(v) \/ WaitTie(v) \/ WaitEnd(v)
    BY <2>2, <2>5 DEF LoopTest, Scan, Reread, ScanEnd, WaitChoosing, WaitTest, WaitLess,
                      WaitTie, WaitEnd, quiet
  <2>6. CASE CsStep(v) BY <2>2, <2>6 DEF CsStep
  <2> QED BY <1>5, <2>2, <2>3, <2>4, <2>5, <2>6 DEF ThreadStep
<1>6. ASSUME NEW v \in Threads, Drain(v)
      PROVE  ahead' = ahead /\ \A t \in Threads : ~Leave(t)
  BY <1>6 DEF Drain, Leave, At, Goto, TypeOK
<1>7. CASE Spawn \/ Join \/ Tick \/ UNCHANGED vars
  <2>1. ahead' = ahead
    BY <1>7 DEF Spawn, Join, Tick, vars, threadVars
  <2>2. \A t \in Threads : pc'[t] = pc[t] \/ (pc[t] = "new" /\ pc'[t] = "loop")
    BY <1>7, MainSteps
  <2>3. \A t \in Threads : ~Leave(t)
    BY <2>2 DEF Leave, At, Goto, TypeOK
  <2> QED BY <1>4, <2>1, <2>3
<1>8. Goal
  BY <1>2, <1>3, <1>4, <1>5, <1>6, <1>7 DEF Next, Terminated
<1> QED BY <1>8

\* A thread that has its ticket keeps its place until it leaves.
LEMMA PlaceKept ==
    ASSUME TypeOK, Started, [Next]_vars, NEW t \in Threads, pc[t] \in Waiting \cup Critical,
           ~Leave(t)
    PROVE  pc'[t] \in Waiting \cup Critical
<1>1. ASSUME ThreadStep(t)
      PROVE  pc'[t] \in Waiting \cup Critical
  <2>1. ~Take(t) /\ ~Spin(t) /\ ~StoreCell(t) /\ ~Give(t)
    BY DEF Take, Spin, StoreCell, Give, AtPhase, Stages, Waiting, Critical
  <2>2. CASE \/ LoopTest(t) \/ Scan(t) \/ Reread(t) \/ ScanEnd(t) \/ WaitChoosing(t)
             \/ WaitTest(t) \/ WaitLess(t) \/ WaitTie(t) \/ WaitEnd(t)
    BY <2>2, Moves DEF Stages, Waiting, Critical
  <2>3. CASE CsStep(t)
    BY <2>3 DEF CsStep, CsNext, At, Goto, TypeOK, Critical
  <2> QED BY <1>1, <2>1, <2>2, <2>3 DEF ThreadStep
<1>2. ASSUME NEW v \in Threads \ {t}, ThreadStep(v)
      PROVE  pc'[t] = pc[t]
  BY <1>2, Frame
<1>3. ASSUME NEW v \in Threads, Drain(v)
      PROVE  pc'[t] = pc[t]
  BY <1>3 DEF Drain
<1>4. Spawn \/ Join \/ Tick \/ UNCHANGED vars => pc'[t] = pc[t]
  <2>1. pc[t] # "new"
    BY DEF Waiting, Critical
  <2> QED BY <2>1, MainSteps
<1> QED BY <1>1, <1>2, <1>3, <1>4 DEF Next, Terminated

\* Every step keeps that the threads on the list of u have tickets, and that u's ticket is
\* or will be a later one.
LEMMA AheadKept ==
    ASSUME TypeOK, Started, OwnInv, PassedInv, AheadInv, [Next]_vars
    PROVE  AheadInv'
<1>1. ahead' \in [Threads -> SUBSET Threads]
  BY ListSteps
<1> SUFFICES ASSUME NEW u \in Threads, NEW t \in ahead'[u]
             PROVE  /\ t # u /\ pc'[t] \in Waiting \cup Critical
                    /\ WillFollow(u, t)'
                    /\ Ticketed(u)' => Precedes(t, u)'
  BY <1>1 DEF AheadInv
<1>2. t \in Threads
  BY <1>1
<1>3. CASE t \in ahead[u] /\ ~Leave(t)
  <2>1. /\ t # u /\ pc[t] \in Waiting \cup Critical /\ WillFollow(u, t)
        /\ Ticketed(u) => Precedes(t, u)
    BY <1>3 DEF AheadInv
  <2>2. pc'[t] \in Waiting \cup Critical
    BY <1>2, <1>3, <2>1, PlaceKept
  <2>3. InLine(t) /\ InLine(t)'
    BY <2>1, <2>2 DEF InLine
  <2>4. /\ max'[t] = max[t] /\ WillFollow(u, t)'
        /\ HasTicket(u)' /\ ~HasTicket(u) => max[t] < max'[u]
    BY <1>2, <2>1, <2>3, StillFollows
  <2>5. HasTicket(u) => max'[u] = max[u] /\ (Ticketed(u)' => Ticketed(u))
    BY TicketKeeps
  <2>6. Ticketed(u)' => Precedes(t, u)'
    BY <2>1, <2>4, <2>5 DEF HasTicket, Precedes
  <2> QED BY <2>1, <2>2, <2>4, <2>6
<1>4. CASE /\ StoreCell(u) /\ pc[u] = "choose" /\ phase'[u] = "give" /\ pc' = pc
           /\ pc[t] \in Waiting \cup Critical
  <2>1. pc'[u] = "choose" /\ t # u
    BY <1>4 DEF Waiting, Critical
  <2> QED BY <1>4, <2>1 DEF WillFollow, Ticketed, Waiting, Critical
<1> QED BY <1>3, <1>4, ListSteps

\* The lists are right always.
LEMMA AheadAlways == Spec => []AheadInv
<1>1. Init => AheadInv
  BY DEF Init, AheadInv
<1>2. TypeOK /\ Started /\ OwnInv /\ PassedInv /\ AheadInv /\ [Next]_vars => AheadInv'
  BY AheadKept
<1> QED BY <1>1, <1>2, OrderAlways, PTL DEF Spec

\* On several processors, too, nobody who had a ticket when a thread came is still there
\* when it gets in: each of the two would have the earlier ticket.
THEOREM NoOvertaking == Spec => []FirstComeFirstServed
<1>1. TypeOK /\ PassedInv /\ AheadInv => FirstComeFirstServed
  <2> SUFFICES ASSUME TypeOK, PassedInv, AheadInv, NEW t \in Threads, pc[t] \in Critical,
                      NEW u \in ahead[t]
               PROVE  FALSE
    BY DEF FirstComeFirstServed
  <2>1. u \in Threads /\ u # t /\ pc[u] \in Waiting \cup Critical
    BY DEF AheadInv
  <2>2. Ticketed(t) /\ HasTicket(u) /\ Passed(t, u)
    BY <2>1 DEF Ticketed, HasTicket, Passed, Inside
  <2>3. Precedes(u, t)
    BY <2>2 DEF AheadInv
  <2>4. Precedes(t, u)
    BY <2>1, <2>2 DEF PassedInv
  <2>5. max[t] \in Nat /\ max[u] \in Nat /\ t \in Nat /\ u \in Nat
    BY <2>1, ThreadsInt DEF TypeOK
  <2> QED BY <2>3, <2>4, <2>5 DEF Precedes
<1> QED BY <1>1, OrderAlways, AheadAlways, PTL

\* Who has come and is not in line yet.
HasCome(t) == \/ pc[t] = "choose" /\ phase[t] = "give"
              \/ pc[t] \in {"scan", "reread", "ticket", "chosen"}

\* A step that leaves every thread where it is in the lock's eyes, and the lists, is none
\* of the lock's.
LEMMA LockSame ==
    ASSUME ahead' = ahead,
           \A t \in Threads : /\ HasCome(t)' <=> HasCome(t)
                              /\ pc'[t] \in Waiting \cup Critical <=> pc[t] \in Waiting \cup Critical
                              /\ pc'[t] \in Critical <=> pc[t] \in Critical
    PROVE  UNCHANGED Lock!vars
BY DEF Lock!vars, HasCome

\* What a thread does that neither comes, nor joins the line, nor goes in, nor leaves.
LEMMA LockOther ==
    ASSUME TypeOK, Started, NEW v \in Threads, ThreadStep(v), ~WaitEnd(v), ~Leave(v),
           ~(StoreCell(v) /\ pc[v] = "choose"), ~(Give(v) /\ pc[v] = "chosen")
    PROVE  /\ ahead' = ahead
           /\ HasCome(v)' <=> HasCome(v)
           /\ pc'[v] \in Waiting \cup Critical <=> pc[v] \in Waiting \cup Critical
           /\ pc'[v] \in Critical <=> pc[v] \in Critical
<1> USE DEF HasCome, Waiting, Critical, Stages, TypeOK
<1>1. CASE StoreCell(v)
  <2>1. /\ ahead' = ahead /\ pc' = pc /\ pc[v] \in {"ticket", "chosen"}
    BY <1>1 DEF StoreCell, AtPhase
  <2> QED BY <2>1
<1>2. CASE Give(v)
  <2>1. /\ ahead' = ahead
        /\ phase[v] = "give"
        /\ \/ pc[v] = "choose" /\ pc'[v] = "scan"
           \/ pc[v] = "ticket" /\ pc'[v] = "chosen"
    BY <1>2 DEF Give, NextStage, AtPhase, Goto
  <2> QED BY <2>1
<1>3. CASE Take(v)
  <2>1. /\ ahead' = ahead /\ pc' = pc /\ phase[v] # "give" /\ phase'[v] # "give"
    BY <1>3 DEF Take, AtPhase, GotoPhase
  <2> QED BY <2>1
<1>4. CASE Spin(v)
  <2>1. /\ ahead' = ahead /\ pc' = pc /\ phase[v] # "give" /\ phase'[v] # "give"
    BY <1>4 DEF Spin, AtPhase, GotoPhase
  <2> QED BY <2>1
<1>5. CASE \/ LoopTest(v) \/ Scan(v) \/ Reread(v) \/ ScanEnd(v)
           \/ WaitChoosing(v) \/ WaitTest(v) \/ WaitLess(v) \/ WaitTie(v)
  <2>1. ahead' = ahead /\ phase' = phase
    BY <1>5 DEF LoopTest, Scan, Reread, ScanEnd, WaitChoosing, WaitTest, WaitLess, WaitTie, quiet
  <2>2. /\ pc[v] # "loop" => phase[v] = "take" \/ pc[v] \in Stages
        /\ \/ pc[v] = "loop" /\ pc'[v] \in {"choose", "done"}
           \/ pc[v] \in {"scan", "reread"} /\ pc'[v] \in {"scan", "reread", "ticket"}
           \/ pc[v] \in Waiting /\ pc'[v] \in Waiting
    BY <1>5 DEF LoopTest, Scan, Reread, ScanEnd, WaitChoosing, WaitTest, WaitLess, WaitTie,
                NextOne, At, Goto, Started
  <2>3. pc[v] = "loop" => phase[v] # "give"
    BY DEF Started
  <2> QED BY <2>1, <2>2, <2>3
<1>6. CASE CsStep(v)
  <2>1. ahead' = ahead /\ pc[v] \in Critical /\ pc'[v] \in Critical
    BY <1>6 DEF CsStep, CsNext, At, Goto
  <2> QED BY <2>1
<1> QED BY <1>1, <1>2, <1>3, <1>4, <1>5, <1>6 DEF ThreadStep

\* A step of a thread is a step of the lock, or none of its business.
LEMMA LockStep ==
    ASSUME TypeOK, Started, AheadInv, FirstComeFirstServed,
           MutualExclusion', FirstComeFirstServed', NEW v \in Threads, ThreadStep(v)
    PROVE  Lock!Next \/ UNCHANGED Lock!vars
<1> USE DEF TypeOK
<1>0. \A u \in Threads \ {v} : /\ pc'[u] = pc[u] /\ phase'[u] = phase[u]
                               /\ HasCome(u)' <=> HasCome(u)
  BY Frame DEF HasCome
<1>1. CASE StoreCell(v) /\ pc[v] = "choose"
  <2>1. /\ phase[v] = "store" /\ phase'[v] = "give" /\ pc' = pc
        /\ ahead' = [ahead EXCEPT ![v] = {u \in Threads : pc[u] \in Waiting \cup Critical}]
    BY <1>1 DEF StoreCell, AtPhase, GotoPhase
  <2>2. Lock!Come(v)
    BY <1>0, <1>1, <2>1 DEF Lock!Come, Waiting, Critical
  <2> QED BY <2>2 DEF Lock!Next
<1>2. CASE Give(v) /\ pc[v] = "chosen"
  <2>1. pc'[v] = "wait" /\ ahead' = ahead
    BY <1>2 DEF Give, NextStage, Goto
  <2>2. Lock!Join(v)
    BY <1>0, <1>2, <2>1 DEF Lock!Join, Waiting, Critical
  <2> QED BY <2>2 DEF Lock!Next
<1>3. CASE WaitEnd(v)
  <2>1. pc[v] = "wait" /\ pc'[v] = "cs0" /\ ahead' = ahead
    BY <1>3 DEF WaitEnd, At, Goto, quiet
  <2>2. \A u \in Threads : pc[u] \notin Critical
    BY <1>0, <2>1 DEF MutualExclusion, Critical
  <2>3. ahead[v] = {}
    BY <2>1 DEF FirstComeFirstServed, Critical
  <2>4. Lock!Enter(v)
    BY <1>0, <2>1, <2>2, <2>3 DEF Lock!Enter, Waiting, Critical
  <2> QED BY <2>4 DEF Lock!Next
<1>4. CASE Leave(v)
  <2>1. /\ pc[v] = "leave" /\ pc'[v] = "loop"
        /\ ahead' = [u \in Threads |-> IF u = v THEN {} ELSE ahead[u] \ {v}]
    BY <1>4 DEF Leave, At, Goto
  <2>2. ahead[v] = {}
    BY <2>1 DEF FirstComeFirstServed, Critical
  <2>3. ahead' = [u \in Threads |-> ahead[u] \ {v}]
    BY <2>1, <2>2
  <2>4. Lock!Leave(v)
    BY <1>0, <2>1, <2>3 DEF Lock!Leave, Waiting, Critical
  <2> QED BY <2>4 DEF Lock!Next
<1>5. CASE /\ ~WaitEnd(v) /\ ~Leave(v)
           /\ ~(StoreCell(v) /\ pc[v] = "choose") /\ ~(Give(v) /\ pc[v] = "chosen")
  <2>1. /\ ahead' = ahead
        /\ HasCome(v)' <=> HasCome(v)
        /\ pc'[v] \in Waiting \cup Critical <=> pc[v] \in Waiting \cup Critical
        /\ pc'[v] \in Critical <=> pc[v] \in Critical
    BY <1>5, LockOther
  <2>2. \A t \in Threads :
           /\ HasCome(t)' <=> HasCome(t)
           /\ pc'[t] \in Waiting \cup Critical <=> pc[t] \in Waiting \cup Critical
           /\ pc'[t] \in Critical <=> pc[t] \in Critical
    BY <1>0, <2>1
  <2> QED BY <2>1, <2>2, LockSame
<1> QED BY <1>1, <1>2, <1>3, <1>4, <1>5

\* With its fences or its locks the bakery is a lock that serves first come, first served,
\* whatever the store buffers keep back.
THEOREM LockRefinement == Spec => LockSpec
<1>1. Init => Lock!Init
  <2> SUFFICES ASSUME Init PROVE Lock!Init
    OBVIOUS
  <2>1. /\ \A t \in Threads : pc[t] = "new"
        /\ ahead = [t \in Threads |-> {}]
    BY DEF Init
  <2> QED BY <2>1 DEF Lock!Init, Waiting, Critical
<1>2. TypeOK /\ Started /\ AheadInv /\ FirstComeFirstServed
      /\ (MutualExclusion /\ FirstComeFirstServed)' /\ [Next]_vars => [Lock!Next]_(Lock!vars)
  <2> SUFFICES ASSUME TypeOK, Started, AheadInv, FirstComeFirstServed, MutualExclusion',
                      FirstComeFirstServed', [Next]_vars
               PROVE  Lock!Next \/ UNCHANGED Lock!vars
    OBVIOUS
  <2>1. ASSUME NEW v \in Threads, ThreadStep(v)
        PROVE  Lock!Next \/ UNCHANGED Lock!vars
    BY <2>1, LockStep
  <2>2. ASSUME NEW v \in Threads, Drain(v)
        PROVE  UNCHANGED Lock!vars
    <3>1. UNCHANGED <<pc, phase, ahead>>
      BY <2>2 DEF Drain
    <3> QED BY <3>1, LockSame DEF HasCome
  <2>3. CASE Spawn \/ Join \/ Tick \/ UNCHANGED vars
    <3>1. /\ UNCHANGED <<phase, ahead>>
          /\ \A t \in Threads : pc'[t] = pc[t] \/ (pc[t] = "new" /\ pc'[t] = "loop")
      BY <2>3, MainSteps DEF Spawn, Join, Tick, vars, threadVars
    <3>2. \A t \in Threads : /\ HasCome(t)' <=> HasCome(t)
                             /\ pc'[t] \in Waiting \cup Critical <=> pc[t] \in Waiting \cup Critical
                             /\ pc'[t] \in Critical <=> pc[t] \in Critical
      BY <3>1 DEF HasCome, Waiting, Critical
    <3> QED BY <3>1, <3>2, LockSame
  <2> QED BY <2>1, <2>2, <2>3 DEF Next, Terminated
<1> QED BY <1>1, <1>2, OrderAlways, AheadAlways, BakeryExcludes, NoOvertaking, PTL
       DEF Spec, LockSpec, Lock!Spec

-----------------------------------------------------------------------------
(* The size of the tickets.                                                  *)

\* A thread takes a ticket.
Takes(t) == StoreCell(t) /\ pc[t] = "ticket"

\* Neither a ticket, under way or in the memory, nor the largest one a thread has read is
\* larger than the number of tickets taken.
TicketsInv ==
    /\ IsFiniteSet(TicketsTaken)
    /\ \A t \in Threads : /\ max[t] =< Cardinality(TicketsTaken)
                          /\ HasTicket(t) => max[t] + 1 =< Cardinality(TicketsTaken)

\* So no thread reads a larger one, in the memory or in its own buffer.
LEMMA ReadsBounded ==
    ASSUME TypeOK, OwnInv, TicketsInv
    PROVE  TicketsBounded
<1>1. PICK c \in Nat : c = Cardinality(TicketsTaken)
  BY FS_CardinalityType DEF TicketsInv
<1>2. ASSUME NEW t \in Threads, NEW u \in Threads
      PROVE  Read(u, Number(t)) =< c
  <2>1. max[t] \in Nat /\ mem[Number(t)] \in Nat
        /\ (mem[Number(t)] # 0 => HasTicket(t) /\ mem[Number(t)] = max[t] + 1)
    BY NumberFacts
  <2>2. HasTicket(t) => max[t] + 1 =< c
    BY <1>1 DEF TicketsInv
  <2>3. CASE t = u
    <3>1. Read(t, Number(t)) = IF Ticketed(t) THEN max[t] + 1 ELSE 0
      BY DEF OwnInv, OwnOK
    <3> QED BY <2>1, <2>2, <2>3, <3>1 DEF HasTicket
  <2>4. CASE t # u
    <3>1. Read(u, Number(t)) = mem[Number(t)]
      BY <2>4, OthersCells
    <3> QED BY <2>1, <2>2, <3>1
  <2> QED BY <2>3, <2>4
<1> QED BY <1>1, <1>2 DEF TicketsBounded

\* What a step does to the entries of its thread.
LEMMA EntrySteps ==
    ASSUME TypeOK, NEW v \in Threads, ThreadStep(v)
    PROVE  /\ iterations[v] \in Nat
           /\ WaitEnd(v) => iterations'[v] = iterations[v] + 1
           /\ ~WaitEnd(v) => iterations'[v] = iterations[v]
           /\ \A u \in Threads \ {v} : iterations'[u] = iterations[u]
<1> USE DEF TypeOK, locals
<1>1. CASE WaitEnd(v) BY <1>1 DEF WaitEnd
<1>2. CASE CsStep(v) BY <1>2 DEF CsStep, CsNext, WaitEnd, At
<1> QED BY <1>1, <1>2 DEF ThreadStep, LoopTest, Take, Spin, StoreCell, Give, Scan, Reread, ScanEnd,
        WaitChoosing, WaitTest, WaitLess, WaitTie, Leave

\* A thread's own steps, as far as its count of tickets sees them.
LEMMA TakenOwn ==
    ASSUME TypeOK, Started, NEW v \in Threads, ThreadStep(v)
    PROVE  /\ ~Takes(v) => Taken(v)' = Taken(v)
           /\ Takes(v) => \E n \in Nat : Taken(v) = n /\ Taken(v)' = n + 1
<1> USE DEF Taken, Waiting, Critical, Stages
<1>1. /\ iterations[v] \in Nat
      /\ WaitEnd(v) => iterations'[v] = iterations[v] + 1
      /\ ~WaitEnd(v) => iterations'[v] = iterations[v]
  BY EntrySteps
<1>2. CASE WaitEnd(v)
  <2>1. pc[v] = "wait" /\ pc'[v] = "cs0" /\ ~Takes(v)
    BY <1>2 DEF WaitEnd, At, Goto, TypeOK, Takes, StoreCell, AtPhase
  <2> QED BY <1>1, <1>2, <2>1
<1>3. CASE \/ LoopTest(v) \/ Spin(v) \/ Scan(v) \/ Reread(v) \/ ScanEnd(v)
           \/ WaitChoosing(v) \/ WaitTest(v) \/ WaitLess(v) \/ WaitTie(v)
  <2>1. ~WaitEnd(v) \/ pc'[v] = "cs0"
    BY DEF WaitEnd, Goto, TypeOK
  <2>2. (pc[v] = "wait" => pc'[v] # "cs0") /\ ~Takes(v)
    BY <1>3 DEF LoopTest, Spin, Scan, Reread, ScanEnd, WaitChoosing, WaitTest, WaitLess, WaitTie,
                At, AtPhase, Goto, TypeOK, quiet, NextOne, Takes, StoreCell
  <2>3. /\ pc[v] # "reread" => max' = max
        /\ \/ /\ phase[v] = "spin" /\ phase'[v] = "store" /\ method = "ticket"
              /\ pc'[v] = pc[v] /\ pc[v] \in Stages
           \/ /\ phase'[v] = phase[v] /\ phase[v] = "take"
              /\ \/ pc[v] = "loop" /\ pc'[v] \in {"choose", "done"}
                 \/ pc[v] = "scan" /\ pc'[v] \in {"scan", "reread", "ticket"}
                 \/ pc[v] = "reread" /\ pc'[v] = "scan"
                 \/ pc[v] \in Waiting /\ pc'[v] \in Waiting
                 \/ pc[v] = "wait" /\ pc'[v] = "cs0"
    BY <1>3, Moves
  <2>4. ~WaitEnd(v)
    BY <2>1, <2>2, <2>3 DEF WaitEnd, At
  <2> QED BY <1>1, <2>2, <2>3, <2>4
<1>4. CASE Take(v)
  <2>1. /\ phase[v] = "take" /\ pc'[v] = pc[v] /\ pc[v] \in Stages /\ phase'[v] \in {"store", "spin"}
        /\ ~Takes(v) /\ ~WaitEnd(v)
    BY <1>4 DEF Take, CmpXchg, AtPhase, GotoPhase, TypeOK, Takes, StoreCell, WaitEnd, At
  <2> QED BY <1>1, <2>1
<1>5. CASE StoreCell(v)
  <2>1. /\ phase[v] = "store" /\ phase'[v] = "give" /\ pc'[v] = pc[v] /\ pc[v] \in Stages
        /\ ~WaitEnd(v)
    BY <1>5 DEF StoreCell, AtPhase, GotoPhase, TypeOK, WaitEnd, At
  <2> QED BY <1>1, <1>5, <2>1 DEF Takes
<1>6. CASE Give(v)
  <2>1. /\ phase[v] = "give" /\ phase'[v] = "take"
        /\ \/ pc[v] = "choose" /\ pc'[v] = "scan"
           \/ pc[v] = "ticket" /\ pc'[v] = "chosen"
           \/ pc[v] = "chosen" /\ pc'[v] = "wait"
        /\ ~Takes(v) /\ ~WaitEnd(v)
    BY <1>6 DEF Give, NextStage, AtPhase, Goto, GotoPhase, TypeOK, Takes, StoreCell, WaitEnd, At
  <2> QED BY <1>1, <2>1
<1>7. CASE CsStep(v)
  <2>1. pc[v] \in Critical /\ pc'[v] \in Critical /\ ~Takes(v) /\ ~WaitEnd(v)
    BY <1>7 DEF CsStep, CsNext, At, Goto, TypeOK, Takes, StoreCell, AtPhase, WaitEnd
  <2> QED BY <1>1, <2>1
<1>8. CASE Leave(v)
  <2>1. pc[v] = "leave" /\ pc'[v] = "loop" /\ ~Takes(v) /\ ~WaitEnd(v)
    BY <1>8 DEF Leave, At, Goto, TypeOK, Takes, StoreCell, AtPhase, WaitEnd
  <2> QED BY <1>1, <2>1
<1> QED BY <1>2, <1>3, <1>4, <1>5, <1>6, <1>7, <1>8 DEF ThreadStep

\* A step takes no ticket, or it takes one that was not taken before.
LEMMA TakenSteps ==
    ASSUME TypeOK, Started, NEW v \in Threads, ThreadStep(v)
    PROVE  /\ ~Takes(v) => TicketsTaken' = TicketsTaken
           /\ Takes(v) => \E e : e \notin TicketsTaken /\ TicketsTaken' = TicketsTaken \cup {e}
<1>1. ASSUME NEW u \in Threads \ {v}
      PROVE  Taken(u)' = Taken(u)
  BY Frame, EntrySteps DEF Taken
<1>2. CASE ~Takes(v)
  <2>1. Taken(v)' = Taken(v)
    BY <1>2, TakenOwn
  <2>2. \A t \in Threads : {t} \X (1 .. Taken(t)') = {t} \X (1 .. Taken(t))
    BY <1>1, <2>1
  <2> QED BY <1>2, <2>2 DEF TicketsTaken
<1>3. CASE Takes(v)
  <2>1. PICK n \in Nat : n = Taken(v) /\ Taken(v)' = n + 1
    BY <1>3, TakenOwn
  <2>2. <<v, n + 1>> \notin TicketsTaken
    <3>1. ~(n + 1 \in 1 .. n)
      BY <2>1
    <3> QED BY <2>1, <3>1 DEF TicketsTaken
  <2>3. 1 .. n + 1 = (1 .. n) \cup {n + 1}
    BY <2>1
  <2>4. {v} \X (1 .. Taken(v)') = ({v} \X (1 .. Taken(v))) \cup {<<v, n + 1>>}
    BY <2>1, <2>3
  <2>5. \A u \in Threads \ {v} : {u} \X (1 .. Taken(u)') = {u} \X (1 .. Taken(u))
    BY <1>1
  <2>6. TicketsTaken' = TicketsTaken \cup {<<v, n + 1>>}
    <3>1. ASSUME NEW e \in TicketsTaken'
          PROVE  e \in TicketsTaken \cup {<<v, n + 1>>}
      <4>1. PICK u \in Threads : e \in {u} \X (1 .. Taken(u)')
        BY <3>1 DEF TicketsTaken
      <4> QED BY <2>4, <2>5, <4>1 DEF TicketsTaken
    <3>2. ASSUME NEW e \in TicketsTaken \cup {<<v, n + 1>>}
          PROVE  e \in TicketsTaken'
      <4>1. PICK u \in Threads : e \in ({u} \X (1 .. Taken(u))) \cup {<<v, n + 1>>}
        BY <3>2 DEF TicketsTaken
      <4> QED BY <2>4, <2>5, <4>1 DEF TicketsTaken
    <3> QED BY <3>1, <3>2
  <2> QED BY <1>3, <2>2, <2>6
<1> QED BY <1>2, <1>3

\* max is reset, or it becomes a ticket that was read.
LEMMA MaxSteps ==
    ASSUME TypeOK, NEW v \in Threads, ThreadStep(v)
    PROVE  \/ max'[v] \in {max[v], 0}
           \/ \E u \in Threads : max'[v] = Read(v, Number(u))
<1> USE DEF TypeOK, locals
<1>1. CASE Reread(v)
  <2>1. i[v] \in Threads /\ max'[v] = Read(v, Number(i[v]))
    BY <1>1 DEF Reread, At
  <2> QED BY <2>1
<1>2. CASE Give(v) BY <1>2 DEF Give, NextStage
<1>3. CASE CsStep(v) BY <1>3 DEF CsStep, CsNext
<1> QED BY <1>1, <1>2, <1>3 DEF ThreadStep, LoopTest, Take, Spin, StoreCell, Scan, ScanEnd,
        WaitChoosing, WaitTest, WaitLess, WaitTie, WaitEnd, Leave

\* max + 1 is not too large: one more ticket has been taken with it.
LEMMA SizesKept ==
    ASSUME TypeOK, Started, OwnInv, TicketsInv, [Next]_vars
    PROVE  TicketsInv'
<1>1. PICK c \in Nat : c = Cardinality(TicketsTaken)
  BY FS_CardinalityType DEF TicketsInv
<1>2. \A t \in Threads : max[t] \in Nat /\ max[t] =< c /\ (HasTicket(t) => max[t] + 1 =< c)
  BY <1>1 DEF TicketsInv, TypeOK
<1>3. ASSUME NEW v \in Threads, ThreadStep(v), ~Takes(v)
      PROVE  TicketsInv'
  <2>1. TicketsTaken' = TicketsTaken
    BY <1>3, TakenSteps
  <2>2. ASSUME NEW u \in Threads \ {v}
        PROVE  max'[u] =< c /\ (HasTicket(u)' => max'[u] + 1 =< c)
    BY <1>2, <1>3, OthersStay
  <2>3. max'[v] =< c
    <3>1. \A u \in Threads : Read(v, Number(u)) =< c
      BY <1>1, ReadsBounded DEF TicketsBounded
    <3>2. \/ max'[v] \in {max[v], 0}
          \/ \E u \in Threads : max'[v] = Read(v, Number(u))
      BY <1>3, MaxSteps
    <3> QED BY <1>2, <3>1, <3>2
  <2>4. HasTicket(v)' => max'[v] + 1 =< c
    <3>1. HasTicket(v)' => HasTicket(v)
      BY <1>3, TicketSteps DEF Takes
    <3>2. HasTicket(v) => max'[v] = max[v]
      BY <1>3, TicketSteps
    <3> QED BY <1>2, <3>1, <3>2
  <2> QED BY <1>1, <2>1, <2>2, <2>3, <2>4 DEF TicketsInv
<1>4. ASSUME NEW v \in Threads, Takes(v)
      PROVE  TicketsInv'
  <2>1. ThreadStep(v)
    BY <1>4 DEF ThreadStep, Takes
  <2>2. PICK e : e \notin TicketsTaken /\ TicketsTaken' = TicketsTaken \cup {e}
    BY <1>4, <2>1, TakenSteps
  <2>3. IsFiniteSet(TicketsTaken') /\ Cardinality(TicketsTaken') = c + 1
    BY <1>1, <2>2, FS_AddElement DEF TicketsInv
  <2>4. max' = max
    BY <1>4 DEF Takes, StoreCell, locals
  <2>5. \A t \in Threads : max'[t] =< c + 1 /\ max'[t] + 1 =< c + 1
    BY <1>2, <2>4
  <2> QED BY <2>3, <2>5 DEF TicketsInv
<1>5. ASSUME NEW v \in Threads, Drain(v)
      PROVE  TicketsInv'
  <2>1. UNCHANGED <<pc, phase, iterations, max>>
    BY <1>5 DEF Drain, locals
  <2>2. TicketsTaken' = TicketsTaken
    <3>1. \A t \in Threads : Taken(t)' = Taken(t)
      BY <2>1 DEF Taken
    <3> QED BY <3>1 DEF TicketsTaken
  <2>3. ASSUME NEW u \in Threads
        PROVE  HasTicket(u)' => HasTicket(u)
    BY <1>5, TicketDrain DEF HasTicket, Leaving
  <2> QED BY <1>1, <1>2, <2>1, <2>2, <2>3 DEF TicketsInv
<1>6. CASE Spawn \/ Join \/ Tick \/ UNCHANGED vars
  <2>1. UNCHANGED <<phase, max>> /\ iterations' = iterations
        /\ \A t \in Threads : pc'[t] = pc[t] \/ (pc[t] = "new" /\ pc'[t] = "loop")
    BY <1>6, MainSteps DEF Spawn, Join, Tick, threadVars, vars, locals
  <2>2. \A t \in Threads : Taken(t)' = Taken(t)
    BY <2>1 DEF Taken, Waiting
  <2>3. TicketsTaken' = TicketsTaken
    BY <2>2 DEF TicketsTaken
  <2>4. \A u \in Threads : HasTicket(u)' => HasTicket(u)
    BY <1>6, TicketMain DEF HasTicket
  <2> QED BY <1>1, <1>2, <2>1, <2>3, <2>4 DEF TicketsInv
<1> QED BY <1>3, <1>4, <1>5, <1>6 DEF Next, Terminated

\* On several processors, too, no ticket is ever larger than the number of tickets taken.
THEOREM TicketsBoundedTheorem == Spec => []TicketsBounded
<1>1. Init => TicketsInv
  <2> SUFFICES ASSUME Init PROVE TicketsInv
    OBVIOUS
  <2>1. \A t \in Threads : Taken(t) = 0 /\ max[t] = 0 /\ pc[t] = "new"
    BY DEF Init, Taken, Waiting
  <2>2. \A t \in Threads : ~HasTicket(t)
    BY <2>1 DEF HasTicket, Ticketed, Leaving, Left, Waiting, Critical
  <2>3. \A t \in Threads : {t} \X (1 .. Taken(t)) = {}
    BY <2>1
  <2>4. TicketsTaken = {}
    BY <2>3 DEF TicketsTaken
  <2> QED BY <2>1, <2>2, <2>4, FS_EmptySet DEF TicketsInv
<1>2. TypeOK /\ Started /\ OwnInv /\ TicketsInv /\ [Next]_vars => TicketsInv'
  BY SizesKept
<1>3. TypeOK /\ OwnInv /\ TicketsInv => TicketsBounded
  BY ReadsBounded
<1> QED BY <1>1, <1>2, <1>3, OrderAlways, PTL DEF Spec

-----------------------------------------------------------------------------
(* The critical section's counter.                                           *)

\* Only the thread inside has stores of in_cs under way: they go ahead of its ticket.
LEMMA CsPending ==
    ASSUME OwnInv, NEW t \in Threads, Pending(t, InCs)
    PROVE  Inside(t)
<1>1. pc[t] \in Critical \/ Left(t)
  BY DEF OwnInv, BufferOK
<1>2. CASE Left(t) /\ pc[t] \notin Critical
  <2>1. Before(buffer[t], InCs, Number(t))
    BY <1>2 DEF OwnInv, BufferOK
  <2>2. Pending(t, Number(t))
    BY <2>1, BeforePending DEF Pending
  <2> QED BY <1>2, <2>2 DEF Inside, Leaving
<1> QED BY <1>1, <1>2 DEF Inside

\* A step of a thread keeps that in_cs says where the thread inside is.
LEMMA CounterStep ==
    ASSUME TypeOK, Started, OwnInv, PassedInv, CounterInv,
           NEW v \in Threads, ThreadStep(v)
    PROVE  CounterInv' /\ (main' = "aborted" => main = "aborted")
<1>1. /\ mem'[InCs] = mem[InCs]
      /\ \A u \in Threads \ {v} : Read(u, InCs)' = Read(u, InCs) /\ InCsAt(u)' = InCsAt(u)
      /\ \A u \in Threads \ {v} : Inside(u)' <=> Inside(u)
  <2>1. mem'[InCs] = mem[InCs]
    BY Frame, CellFacts
  <2>2. ASSUME NEW u \in Threads \ {v}
        PROVE  Read(u, InCs)' = Read(u, InCs) /\ InCsAt(u)' = InCsAt(u) /\ (Inside(u)' <=> Inside(u))
    <3>1. Read(u, InCs)' = Read(u, InCs)
      BY OthersRead, OwnCells
    <3>2. pc'[u] = pc[u]
      BY Frame
    <3> QED BY <3>1, <3>2, OthersStay DEF InCsAt
  <2> QED BY <2>1, <2>2
<1>2. Inside(v) => Inside(v)'
  BY TicketSteps
<1>3. (\A u \in Threads : ~Inside(u)') => mem'[InCs] = 0
  BY <1>1, <1>2 DEF CounterInv
<1>4. \A u \in Threads \ {v} : Inside(u)' => Read(u, InCs)' = InCsAt(u)'
  BY <1>1 DEF CounterInv
<1>5. Inside(v) => Read(v, InCs) = InCsAt(v)
  BY DEF CounterInv
<1> SUFFICES (Inside(v)' => Read(v, InCs)' = InCsAt(v)') /\ (main' = "aborted" => main = "aborted")
  BY <1>3, <1>4 DEF CounterInv
<1> USE DEF TypeOK, At, AtPhase, Goto, GotoPhase, quiet, locals, mainVars
<1>6. CASE CsStep(v)
  <2>1. PICK l \in DOMAIN CsNext : CsStep(v)!(l)
    BY <1>6 DEF CsStep
  <2>2. /\ pc[v] = l /\ l \in {"cs0", "cs1", "cs2", "cs3"} /\ mem' = mem
    BY <2>1 DEF CsNext
  <2>3. Inside(v) /\ InCsAt(v) = CsValue[l]
    BY <2>2 DEF Inside, Critical, InCsAt, CsValue
  <2>4. /\ Store(v, InCs, (CsValue[l] + 1) % 4) /\ pc' = [pc EXCEPT ![v] = CsNext[l]]
        /\ main' = main
    BY <1>5, <2>1, <2>3
  <2>5. pc'[v] = CsNext[l]
    BY <2>4
  <2>6. InCsAt(v)' = (CsValue[l] + 1) % 4
    BY <2>2, <2>5 DEF InCsAt, CsValue, CsNext
  <2>7. PICK w \in Nat : w = (CsValue[l] + 1) % 4
    BY <2>2 DEF CsValue
  <2>8. Store(v, InCs, w) /\ MemoryOK(Threads, Cells, Nat) /\ InCs \in Cells
    BY <2>4, <2>7, CellFacts
  <2>9. Read(v, InCs)' = w
    BY <2>2, <2>8, StoreFacts
  <2> QED BY <2>4, <2>6, <2>7, <2>9
<1>7. CASE ~CsStep(v)
  <2>1. Read(v, InCs)' = Read(v, InCs)
    BY <1>7, PendingSteps
  <2>2. main' = main
    <3>1. CASE \/ LoopTest(v) \/ Spin(v) \/ Scan(v) \/ Reread(v) \/ ScanEnd(v)
               \/ WaitChoosing(v) \/ WaitTest(v) \/ WaitLess(v) \/ WaitTie(v) \/ WaitEnd(v)
      BY <3>1, QuietSteps
    <3>2. CASE Take(v) BY <3>2 DEF Take
    <3>3. CASE StoreCell(v) BY <3>3 DEF StoreCell
    <3>4. CASE Give(v) BY <3>4 DEF Give
    <3>5. CASE Leave(v) BY <3>5 DEF Leave
    <3> QED BY <1>7, <3>1, <3>2, <3>3, <3>4, <3>5 DEF ThreadStep
  <2>3. CASE WaitEnd(v)
    <3>1. pc[v] = "wait" /\ pc'[v] = "cs0"
      BY <2>3 DEF WaitEnd
    <3>2. ~Inside(v) /\ Inside(v)' /\ InCsAt(v)' = 0
      BY <3>1 DEF Inside, Leaving, Left, Critical, InCsAt, CsValue
    <3>3. \A u \in Threads : Passed(v, u)
      BY <2>3, <3>1, ThreadsInt DEF WaitEnd, Passed, Waiting
    <3>4. \A u \in Threads : ~Inside(u)
      BY <3>2, <3>3, OnePasses DEF Passed
    <3>5. mem[InCs] = 0 /\ ~Pending(v, InCs)
      BY <3>4, CsPending DEF CounterInv
    <3>6. Read(v, InCs) = 0
      BY <3>5, ReadDrained
    <3> QED BY <2>1, <2>2, <3>2, <3>6
  <2>4. CASE ~WaitEnd(v) /\ Inside(v)'
    <3>1. Inside(v)
      BY <2>4, TicketSteps
    <3>2. InCsAt(v)' = InCsAt(v)
      <4>1. pc[v] \in {"leave", "loop", "done", "choose"} \/ pc[v] \in {"cs0", "cs1", "cs2", "cs3"}
        BY <3>1 DEF Inside, Leaving, Left, Critical
      <4>2. pc[v] \notin {"cs0", "cs1", "cs2", "cs3"}
        <5> SUFFICES ASSUME pc[v] \in {"cs0", "cs1", "cs2", "cs3"}
                     PROVE  FALSE
          OBVIOUS
        <5>1. ~LoopTest(v) /\ ~Take(v) /\ ~Spin(v) /\ ~StoreCell(v) /\ ~Give(v)
          BY DEF LoopTest, Take, Spin, StoreCell, Give, Stages
        <5>2. ~Scan(v) /\ ~Reread(v) /\ ~ScanEnd(v) /\ ~Leave(v)
          BY DEF Scan, Reread, ScanEnd, Leave
        <5>3. ~WaitChoosing(v) /\ ~WaitTest(v) /\ ~WaitLess(v) /\ ~WaitTie(v)
          BY DEF WaitChoosing, WaitTest, WaitLess, WaitTie
        <5> QED BY <1>7, <2>4, <5>1, <5>2, <5>3 DEF ThreadStep
      <4>3. pc'[v] \notin {"cs0", "cs1", "cs2", "cs3"}
        <5>1. pc[v] \notin Waiting
          BY <4>1, <4>2 DEF Waiting
        <5>2. CASE \/ LoopTest(v) \/ Spin(v) \/ Scan(v) \/ Reread(v) \/ ScanEnd(v)
                   \/ WaitChoosing(v) \/ WaitTest(v) \/ WaitLess(v) \/ WaitTie(v) \/ WaitEnd(v)
          BY <4>1, <4>2, <5>1, <5>2, Moves DEF Waiting, Stages
        <5>3. CASE Take(v) BY <5>3 DEF Take, Stages
        <5>4. CASE StoreCell(v) BY <5>4 DEF StoreCell, Stages
        <5>5. CASE Give(v) BY <5>5 DEF Give, NextStage
        <5>6. CASE Leave(v) BY <5>6 DEF Leave
        <5> QED BY <1>7, <5>2, <5>3, <5>4, <5>5, <5>6 DEF ThreadStep
      <4> QED BY <4>2, <4>3 DEF InCsAt, CsValue
    <3> QED BY <1>5, <2>1, <2>2, <3>1, <3>2
  <2> QED BY <2>2, <2>3, <2>4
<1> QED BY <1>6, <1>7

\* So does a store that reaches the memory: a ticket that is taken back gets there after the
\* stores of in_cs.
LEMMA CounterDrain ==
    ASSUME TypeOK, Started, OwnInv, PassedInv, CounterInv, NEW v \in Threads, Drain(v)
    PROVE  CounterInv'
<1>1. PICK e : e = Head(buffer[v])
  OBVIOUS
<1>2. MemoryOK(Threads, Cells, Nat) /\ Flush(v) /\ BufferOK(v) /\ OwnOK(v)
  BY DEF TypeOK, Drain, OwnInv
<1>3. /\ mem' = [mem EXCEPT ![e.cell] = e.value] /\ mem \in [Cells -> Nat]
      /\ \A x \in Cells : Read(v, x)' = Read(v, x)
      /\ \A u \in Threads, x \in Cells :
            u # v => Read(u, x)' = IF x = e.cell /\ ~Pending(u, x) THEN e.value ELSE Read(u, x)
      /\ \A x : Pending(v, x) <=> x = e.cell \/ Pending(v, x)'
  BY <1>1, <1>2, FlushFacts DEF MemoryOK
<1>4. UNCHANGED <<pc, phase, method>>
  BY DEF Drain, locals, mainVars
<1>5. \A u \in Threads : InCsAt(u)' = InCsAt(u)
  BY <1>4 DEF InCsAt
<1>6. \A u \in Threads : Inside(u)' => Inside(u)
  BY TicketDrain DEF Inside, Leaving
<1>7. \A u \in Threads : (Inside(u)' <=> Inside(u)) \/ (u = v /\ e.cell = Number(v))
  BY <1>1, <1>4, TicketDrain DEF Inside, Leaving
<1>8. InCs \in Cells /\ InCs # Number(v)
  BY OwnCells
<1>9. ASSUME NEW u \in Threads, Inside(u)'
      PROVE  Read(u, InCs)' = InCsAt(u)'
  <2>1. Inside(u) /\ Read(u, InCs) = InCsAt(u)
    BY <1>6, <1>9 DEF CounterInv
  <2>2. u = v => Read(u, InCs)' = Read(u, InCs)
    BY <1>3, <1>8
  <2>3. u # v => e.cell # InCs
    <3>1. e.cell = InCs => Inside(v)
      BY <1>3, CsPending
    <3> QED BY <2>1, <3>1, OnePasses DEF Passed
  <2>4. u # v => Read(u, InCs)' = Read(u, InCs)
    BY <1>3, <1>8, <2>3
  <2> QED BY <1>5, <2>1, <2>2, <2>4
<1>10. ASSUME \A u \in Threads : ~Inside(u)'
       PROVE  mem'[InCs] = 0
  <2>1. CASE Inside(v)
    <3>1. e.cell = Number(v)
      BY <1>7, <1>10, <2>1
    <3>2. pc[v] \notin Critical /\ Left(v)
      BY <1>4, <1>10, <2>1 DEF Inside, Leaving
    <3>3. ~Pending(v, InCs)
      <4>1. Before(buffer[v], InCs, Number(v)) /\ Once(buffer[v], Number(v))
        BY <1>2, <3>2 DEF BufferOK
      <4> QED BY <1>1, <1>2, <3>1, <4>1, FlushOrder
    <3>4. Read(v, InCs) = 0
      BY <2>1, <3>2 DEF CounterInv, InCsAt, CsValue, Left
    <3>5. mem[InCs] = 0
      BY <3>3, <3>4, ReadDrained
    <3> QED BY <1>3, <1>8, <3>1, <3>5
  <2>2. CASE ~Inside(v)
    <3>1. \A u \in Threads : ~Inside(u)
      BY <1>7, <1>10, <2>2
    <3>2. mem[InCs] = 0
      BY <3>1 DEF CounterInv
    <3>3. e.cell # InCs
      BY <1>3, <2>2, CsPending
    <3> QED BY <1>3, <1>8, <3>2, <3>3
  <2> QED BY <2>1, <2>2
<1> QED BY <1>9, <1>10 DEF CounterInv

\* Every step keeps that in_cs says where the thread inside is, so that no assert fails.
LEMMA CounterKept ==
    ASSUME TypeOK, Started, OwnInv, PassedInv, CounterInv, [Next]_vars
    PROVE  CounterInv' /\ (main' = "aborted" => main = "aborted")
<1>1. ASSUME NEW v \in Threads, ThreadStep(v)
      PROVE  CounterInv' /\ (main' = "aborted" => main = "aborted")
  BY <1>1, CounterStep
<1>2. ASSUME NEW v \in Threads, Drain(v)
      PROVE  CounterInv' /\ main' = main
  BY <1>2, CounterDrain DEF Drain, mainVars
<1>3. ASSUME Spawn \/ Join \/ Tick \/ UNCHANGED vars
      PROVE  CounterInv' /\ (main' = "aborted" => main = "aborted")
  <2>1. UNCHANGED <<mem, buffer>>
    BY <1>3, MainSteps
  <2>2. ASSUME NEW u \in Threads
        PROVE  (Inside(u)' <=> Inside(u)) /\ InCsAt(u)' = InCsAt(u)
    <3>1. /\ pc'[u] = pc[u] \/ (pc[u] = "new" /\ pc'[u] = "loop")
          /\ Leaving(u)' <=> Leaving(u)
      BY <1>3, TicketMain
    <3> QED BY <3>1 DEF Inside, Critical, InCsAt, CsValue
  <2>3. \A u \in Threads : Read(u, InCs)' = Read(u, InCs)
    BY <2>1, QuietFacts
  <2>4. main' = "aborted" => main = "aborted"
    BY <1>3 DEF Spawn, Join, Tick, vars, mainVars
  <2> QED BY <2>1, <2>2, <2>3, <2>4 DEF CounterInv
<1> QED BY <1>1, <1>2, <1>3 DEF Next, Terminated

\* No assert on in_cs fails, although no store of it is fenced.
THEOREM AssertsHold == Spec => []NoAssertFails
<1>1. Init => CounterInv /\ NoAssertFails
  <2> SUFFICES ASSUME Init
               PROVE  CounterInv /\ NoAssertFails
    OBVIOUS
  <2>1. \A t \in Threads : ~Inside(t)
    BY DEF Init, Inside, Critical, Leaving, Pending, InBuffer
  <2>2. mem[InCs] = 0
    BY CellFacts DEF Init
  <2> QED BY <2>1, <2>2 DEF CounterInv, NoAssertFails, Init
<1>2. TypeOK /\ Started /\ OwnInv /\ PassedInv /\ (CounterInv /\ NoAssertFails) /\ [Next]_vars
      => (CounterInv /\ NoAssertFails)'
  BY CounterKept DEF NoAssertFails
<1> QED BY <1>1, <1>2, OrderAlways, PTL DEF Spec
=============================================================================
