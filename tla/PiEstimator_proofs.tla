-------------------------- MODULE PiEstimator_proofs ---------------------------
(* Proofs about PiEstimator for every number of threads and of points: each    *)
(* point that was drawn is counted once.                                       *)
EXTENDS PiEstimator, StoreBuffers_proofs, FiniteSetTheorems

Counters == {"numPointsInCircle", "totalPoints"}
Labels == {"new", "loop", "take", "load", "store", "give", "done"}

TypeOK ==
    /\ MemoryOK(Threads, Cells, Nat)
    /\ pc \in [Threads -> Labels]
    /\ target \in [Threads -> Counters]
    /\ reg \in [Threads -> Nat]
    /\ drawn \in [Threads -> 0 .. MaxPoints]
    /\ hits \in SUBSET Points
    /\ expired \in BOOLEAN
    /\ main \in {"spawn", "join", "exited", "error"}
    /\ created \in 0 .. numThreads
    /\ main = "spawn" => \A t \in Threads : created =< t => pc[t] = "new"

\* A thread owns the lock from the compare-and-swap until its unlock has reached
\* the memory, which may be long after it has gone on.
Owner(t) == pc[t] \in {"load", "store", "give"} \/ Pending(t, "lock")

\* There is one owner at most.  Only an owner has stores under way, and its unlock
\* is the last of them: whoever takes the lock after it finds them in the memory.
OwnInv ==
    /\ \A t \in Threads : Owner(t) => mem["lock"] # 0
    /\ \A t, u \in Threads : Owner(t) /\ Owner(u) => t = u
    /\ \A t \in Threads : pc[t] \in {"load", "store", "give"} => ~Pending(t, "lock")
    /\ \A t \in Threads : Once(buffer[t], "lock")
    /\ \A t \in Threads, c \in Counters : pc[t] # "give" => Before(buffer[t], c, "lock")

\* The point a thread has in hand has been drawn, and one it is about to count as a
\* hit is one.
HandInv ==
    \A t \in Threads :
        pc[t] \in {"take", "load", "store", "give"} =>
            /\ <<t, drawn[t]>> \in Points
            /\ target[t] = "numPointsInCircle" => <<t, drawn[t]>> \in hits

\* The points counter c is to count, and whether thread t has yet to count its own.
History(c) == IF c = "totalPoints" THEN Points ELSE hits
Owes(t, c) ==
    \/ pc[t] \in {"take", "load", "store"} /\ c \in {target[t], "totalPoints"}
    \/ pc[t] = "give" /\ target[t] = "numPointsInCircle" /\ c = "totalPoints"
Counted(c) == {p \in History(c) : ~(p[2] = drawn[p[1]] /\ Owes(p[1], c))}

\* Whoever owns the lock reads from a counter how many points have been counted; if
\* nobody does, that is what the memory holds.
CountInv ==
    /\ \A t \in Threads, c \in Counters :
          Owner(t) => Read(t, c) = Cardinality(Counted(c))
    /\ (\A t \in Threads : ~Owner(t)) =>
          \A c \in Counters : mem[c] = Cardinality(Counted(c))
    /\ \A t \in Threads : pc[t] = "store" => reg[t] = Read(t, target[t])
-----------------------------------------------------------------------------
(* Type correctness.                                                         *)

LEMMA ThreadsInt ==
    /\ numThreads \in Nat /\ MaxPoints \in Nat
    /\ \A k \in Threads : k \in Nat /\ k < numThreads
    /\ \A k \in 0 .. numThreads : k < numThreads => k \in Threads /\ k + 1 \in 0 .. numThreads
BY NumbersAssumption DEF Threads

\* The lock is not a counter.
LEMMA CellFacts ==
    /\ "lock" \in Cells /\ \A c \in Counters : c \in Cells /\ c # "lock"
    /\ \A x \in Cells : x = "lock" \/ x \in Counters
BY DEF Cells, Counters

\* At first nothing has been drawn, stored or counted.
LEMMA TypeInit == Init => TypeOK
<1> SUFFICES ASSUME Init PROVE TypeOK
  OBVIOUS
<1>1. MemoryOK(Threads, Cells, Nat)
  BY InitFacts DEF Init
<1>2. MaxPoints \in Nat /\ numThreads \in Nat
  BY ThreadsInt
<1>3. /\ drawn \in [Threads -> 0 .. MaxPoints] /\ reg \in [Threads -> Nat]
      /\ created \in 0 .. numThreads
  BY <1>2 DEF Init
<1>4. pc \in [Threads -> Labels] /\ target \in [Threads -> Counters]
  BY DEF Init, Labels, Counters
<1> QED BY <1>1, <1>3, <1>4 DEF Init, TypeOK

\* What LoopTest does to the history: a point is added, and it may be a hit.
LEMMA DrawFacts ==
    ASSUME TypeOK, NEW t \in Threads, drawn[t] < MaxPoints,
           drawn' = [drawn EXCEPT ![t] = @ + 1]
    PROVE  /\ drawn' \in [Threads -> 0 .. MaxPoints]
           /\ drawn'[t] = drawn[t] + 1
           /\ \A u \in Threads : u # t => drawn'[u] = drawn[u]
           /\ <<t, drawn'[t]>> \notin Points
           /\ Points' = Points \cup {<<t, drawn'[t]>>}
<1>1. MaxPoints \in Nat /\ drawn \in [Threads -> 0 .. MaxPoints]
  BY ThreadsInt DEF TypeOK
<1>2. /\ drawn' \in [Threads -> 0 .. MaxPoints]
      /\ drawn'[t] = drawn[t] + 1
      /\ \A u \in Threads : u # t => drawn'[u] = drawn[u]
  BY <1>1
<1>3. PICK n \in 1 .. MaxPoints : n = drawn[t] + 1
  BY <1>1
<1>4. <<t, n>> \notin Points
  BY <1>1, <1>3 DEF Points
<1>5. ASSUME NEW u \in Threads, NEW k \in 1 .. MaxPoints
      PROVE  k =< drawn'[u] <=> k =< drawn[u] \/ (u = t /\ k = n)
  BY <1>1, <1>2, <1>3
<1>6. \A p \in Threads \X (1 .. MaxPoints) :
         /\ p[1] \in Threads /\ p[2] \in 1 .. MaxPoints
         /\ p = <<t, n>> <=> p[1] = t /\ p[2] = n
  OBVIOUS
<1>7. <<t, n>> \in Threads \X (1 .. MaxPoints)
  OBVIOUS
<1>8. Points' = Points \cup {<<t, n>>}
  BY <1>5, <1>6, <1>7 DEF Points
<1> QED BY <1>2, <1>3, <1>4, <1>8

\* The steps that leave the memory and the buffers alone, or not.
LEMMA StoreTypes ==
    ASSUME TypeOK, [Next]_vars
    PROVE  MemoryOK(Threads, Cells, Nat)'
<1>1. MemoryOK(Threads, Cells, Nat)
  BY DEF TypeOK
<1>2. ASSUME UNCHANGED <<mem, buffer>> PROVE MemoryOK(Threads, Cells, Nat)'
  BY <1>1, <1>2 DEF MemoryOK
<1>3. ASSUME NEW t \in Threads, Drain(t) PROVE MemoryOK(Threads, Cells, Nat)'
  BY <1>1, <1>3, FlushFacts DEF Drain
<1>4. ASSUME NEW t \in Threads, Take(t) PROVE MemoryOK(Threads, Cells, Nat)'
  <2>1. /\ Drained(t) /\ buffer' = buffer
        /\ mem' = [mem EXCEPT !["lock"] = 1]
    BY <1>4 DEF Take, CmpXchg
  <2> QED BY <1>1, <2>1, LockedFacts, CellFacts
<1>5. ASSUME NEW t \in Threads, Add(t) PROVE MemoryOK(Threads, Cells, Nat)'
  <2>1. Store(t, target[t], reg[t] + 1) /\ mem' = mem
    BY <1>5 DEF Add
  <2>2. target[t] \in Cells /\ reg[t] + 1 \in Nat
    BY CellFacts DEF TypeOK
  <2> QED BY <1>1, <2>1, <2>2, StoreFacts
<1>6. ASSUME NEW t \in Threads, Give(t) PROVE MemoryOK(Threads, Cells, Nat)'
  <2>1. Store(t, "lock", 0) /\ mem' = mem
    BY <1>6 DEF Give
  <2> QED BY <1>1, <2>1, StoreFacts, CellFacts
<1>7. CASE UNCHANGED vars
  BY <1>2, <1>7 DEF vars
<1>8. CASE Spawn \/ Join \/ Tick \/ Terminated
  BY <1>2, <1>8 DEF Spawn, Join, Tick, Terminated, vars
<1>9. ASSUME NEW t \in Threads, ThreadStep(t) \/ Drain(t)
      PROVE  MemoryOK(Threads, Cells, Nat)'
  BY <1>2, <1>3, <1>4, <1>5, <1>6, <1>9 DEF ThreadStep, LoopTest, Load
<1> QED BY <1>7, <1>8, <1>9 DEF Next

\* Each step keeps the types.
LEMMA TypeKept ==
    ASSUME TypeOK, [Next]_vars
    PROVE  TypeOK'
<1>1. MemoryOK(Threads, Cells, Nat)'
  BY StoreTypes
<1>2. drawn' = drawn => Points' = Points
  BY DEF Points
<1>3. ASSUME NEW t \in Threads, LoopTest(t) PROVE TypeOK'
  <2>1. CASE expired
    BY <1>1, <1>2, <1>3, <2>1 DEF LoopTest, At, Goto, TypeOK, Labels, mainVars
  <2>2. CASE ~expired
    <3>1. drawn[t] < MaxPoints /\ drawn' = [drawn EXCEPT ![t] = @ + 1]
      BY <1>3, <2>2 DEF LoopTest
    <3>2. drawn' \in [Threads -> 0 .. MaxPoints] /\ hits' \in SUBSET Points'
      BY <1>3, <2>2, <3>1, DrawFacts DEF LoopTest, TypeOK
    <3>3. pc' = [pc EXCEPT ![t] = "take"] /\ target' \in [Threads -> Counters] /\ pc[t] = "loop"
      BY <1>3, <2>2 DEF LoopTest, At, Goto, TypeOK, Counters
    <3> QED BY <1>1, <1>3, <3>2, <3>3 DEF LoopTest, TypeOK, Labels, mainVars
  <2> QED BY <2>1, <2>2
<1>4. ASSUME NEW t \in Threads, Take(t) PROVE TypeOK'
  BY <1>1, <1>2, <1>4 DEF Take, At, Goto, TypeOK, Labels, threadVars, mainVars
<1>5. ASSUME NEW t \in Threads, Load(t) PROVE TypeOK'
  <2>1. Read(t, target[t]) \in Nat
    BY ReadType, CellFacts DEF TypeOK
  <2> QED BY <1>1, <1>2, <1>5, <2>1 DEF Load, At, Goto, TypeOK, Labels, mainVars
<1>6. ASSUME NEW t \in Threads, Add(t) PROVE TypeOK'
  BY <1>1, <1>2, <1>6 DEF Add, At, Goto, TypeOK, Labels, threadVars, mainVars
<1>7. ASSUME NEW t \in Threads, Give(t) PROVE TypeOK'
  BY <1>1, <1>2, <1>7 DEF Give, At, Goto, TypeOK, Labels, Counters, mainVars
<1>8. ASSUME NEW t \in Threads, Drain(t) PROVE TypeOK'
  BY <1>1, <1>2, <1>8 DEF Drain, TypeOK, threadVars, mainVars
<1>9. CASE Spawn
  BY <1>1, <1>2, <1>9, ThreadsInt DEF Spawn, Goto, TypeOK, Labels, threadVars
<1>10. CASE Join
  BY <1>1, <1>2, <1>10 DEF Join, TypeOK, threadVars
<1>11. CASE Tick
  BY <1>1, <1>2, <1>11 DEF Tick, TypeOK, threadVars
<1>12. CASE UNCHANGED vars
  BY <1>1, <1>2, <1>12 DEF vars, TypeOK, threadVars, mainVars
<1>13. CASE Terminated
  BY <1>12, <1>13 DEF Terminated
<1> QED BY <1>3, <1>4, <1>5, <1>6, <1>7, <1>8, <1>9, <1>10, <1>11, <1>12, <1>13 DEF Next, ThreadStep

-----------------------------------------------------------------------------
(* The lock has one owner, whose stores are alone under way.                 *)

Inside == {"load", "store", "give"}

LEMMA PendingOwner ==
    ASSUME OwnInv, NEW t \in Threads, NEW x \in Cells, Pending(t, x)
    PROVE  Owner(t)
<1>1. CASE x = "lock" \/ pc[t] = "give"
  BY <1>1 DEF Owner
<1>2. CASE x \in Counters /\ pc[t] # "give"
  <2>1. Before(buffer[t], x, "lock")
    BY <1>2 DEF OwnInv
  <2>2. Pending(t, "lock")
    BY <2>1, BeforePending DEF Pending
  <2> QED BY <2>2 DEF Owner
<1> QED BY <1>1, <1>2, CellFacts

\* While a thread owns the lock, the others have nothing under way.
LEMMA OthersDrained ==
    ASSUME OwnInv, NEW t \in Threads, Owner(t), NEW u \in Threads, u # t, NEW x \in Cells
    PROVE  ~Pending(u, x)
BY PendingOwner DEF OwnInv

\* Inside, before its ++ is stored, the owner has nothing under way.
LEMMA EnteredDrained ==
    ASSUME OwnInv, NEW t \in Threads, pc[t] \in {"load", "store"}, NEW x \in Cells
    PROVE  ~Pending(t, x)
<1>1. ~Pending(t, "lock") /\ \A c \in Counters : Before(buffer[t], c, "lock")
  BY DEF OwnInv
<1>2. \A c \in Counters : ~Pending(t, c)
  BY <1>1, BeforePending DEF Pending
<1> QED BY <1>1, <1>2, CellFacts

\* A step that leaves the memory and the buffers alone and does not enter or leave.
LEMMA OwnQuiet ==
    ASSUME OwnInv, UNCHANGED <<mem, buffer>>,
           \A u \in Threads : /\ pc'[u] \in Inside <=> pc[u] \in Inside
                              /\ pc'[u] = "give" <=> pc[u] = "give"
    PROVE  OwnInv' /\ \A u \in Threads : Owner(u)' <=> Owner(u)
<1>1. \A u \in Threads : Owner(u)' <=> Owner(u)
  BY QuietFacts DEF Owner, Inside
<1>2. \A u \in Threads : Pending(u, "lock")' <=> Pending(u, "lock")
  BY QuietFacts
<1> QED BY <1>1, <1>2 DEF OwnInv, Inside

LEMMA OwnInit == Init => OwnInv
<1> SUFFICES ASSUME Init PROVE OwnInv
  OBVIOUS
<1>1. \A t \in Threads : \A x : ~Pending(t, x)
  <2>1. \A t \in Threads : buffer[t] = <<>>
    BY DEF Init
  <2> QED BY <2>1 DEF Pending, InBuffer
<1>2. \A t \in Threads : \A x, y : Once(buffer[t], x) /\ Before(buffer[t], x, y)
  BY <1>1, BeforePending DEF Pending
<1>3. \A t \in Threads : ~Owner(t)
  BY <1>1 DEF Owner, Init
<1> QED BY <1>1, <1>2, <1>3 DEF OwnInv

\* A thread that takes the lock is its only owner.
LEMMA OwnTake ==
    ASSUME TypeOK, OwnInv, NEW t \in Threads, Take(t)
    PROVE  /\ OwnInv'
           /\ \A u \in Threads : ~Owner(u) /\ (Owner(u)' <=> u = t)
<1>1. /\ Drained(t) /\ mem["lock"] = 0
      /\ buffer' = buffer /\ mem' = [mem EXCEPT !["lock"] = 1]
      /\ pc[t] = "take" /\ pc' = [pc EXCEPT ![t] = "load"]
  BY DEF Take, CmpXchg, At, Goto
<1>2. /\ \A u \in Threads : \A y : Pending(u, y)' <=> Pending(u, y)
      /\ \A y : ~Pending(t, y)
  <2>1. MemoryOK(Threads, Cells, Nat) /\ "lock" \in Cells /\ 1 \in Nat
    BY CellFacts DEF TypeOK
  <2>2. /\ \A u \in Threads : \A y : Pending(u, y)' <=> Pending(u, y)
        /\ \A y : ~Pending(t, y)
    BY <1>1, <2>1, LockedFacts
  <2> QED BY <2>2
<1>3. pc'[t] = "load" /\ \A u \in Threads : u # t => pc'[u] = pc[u]
  BY <1>1 DEF TypeOK
<1>4. mem'["lock"] = 1
  BY <1>1, CellFacts DEF TypeOK, MemoryOK
<1>5. \A u \in Threads : ~Owner(u)
  BY <1>1 DEF OwnInv
<1>6. \A u \in Threads : Owner(u)' <=> u = t
  BY <1>2, <1>3, <1>5 DEF Owner
<1>7. \A c \in Counters : Before(buffer[t], c, "lock")
  BY <1>2, BeforePending DEF Pending
<1>8. \A u \in Threads : pc'[u] \in {"load", "store", "give"} => ~Pending(u, "lock")'
  BY <1>2, <1>6 DEF Owner
<1>9. \A u \in Threads, c \in Counters : pc'[u] # "give" => Before(buffer'[u], c, "lock")
  BY <1>1, <1>3, <1>7 DEF OwnInv
<1>10. \A u \in Threads : Once(buffer'[u], "lock")
  BY <1>1 DEF OwnInv
<1> QED BY <1>4, <1>5, <1>6, <1>8, <1>9, <1>10 DEF OwnInv

\* The store of a counter leaves the owner what it was.
LEMMA OwnAdd ==
    ASSUME TypeOK, OwnInv, NEW t \in Threads, Add(t)
    PROVE  OwnInv' /\ \A u \in Threads : Owner(u)' <=> Owner(u)
<1>1. /\ Store(t, target[t], reg[t] + 1) /\ mem' = mem
      /\ pc[t] = "store" /\ pc' = [pc EXCEPT ![t] = "give"]
  BY DEF Add, At, Goto
<1>2. target[t] \in Cells /\ target[t] # "lock" /\ reg[t] + 1 \in Nat
  BY CellFacts DEF TypeOK
<1>3. /\ \A u \in Threads : \A y : Pending(u, y)' <=> Pending(u, y) \/ (u = t /\ y = target[t])
      /\ \A u \in Threads : u # t => buffer'[u] = buffer[u]
  BY <1>1, <1>2, StoreFacts DEF TypeOK
<1>4. Once(buffer[t], "lock")'
  <2>1. \A y : Once(buffer[t], y) /\ (y = target[t] => ~Pending(t, y)) => Once(buffer[t], y)'
    BY <1>1, <1>2, StoreOrder DEF TypeOK
  <2> QED BY <1>2, <2>1 DEF OwnInv
<1>5. pc'[t] = "give" /\ \A u \in Threads : u # t => pc'[u] = pc[u]
  BY <1>1 DEF TypeOK
<1>6. \A u \in Threads : Pending(u, "lock")' <=> Pending(u, "lock")
  BY <1>2, <1>3
<1>7. \A u \in Threads : Owner(u)' <=> Owner(u)
  BY <1>1, <1>5, <1>6 DEF Owner
<1>8. \A u \in Threads : pc'[u] \in {"load", "store", "give"} => ~Pending(u, "lock")'
  BY <1>1, <1>5, <1>6 DEF OwnInv
<1>9. \A u \in Threads, c \in Counters : pc'[u] # "give" => Before(buffer'[u], c, "lock")
  BY <1>3, <1>5 DEF OwnInv
<1>10. \A u \in Threads : Once(buffer'[u], "lock")
  BY <1>3, <1>4 DEF OwnInv
<1> QED BY <1>1, <1>7, <1>8, <1>9, <1>10 DEF OwnInv

\* So does the unlock, until it reaches the memory.
LEMMA OwnGive ==
    ASSUME TypeOK, OwnInv, NEW t \in Threads, Give(t)
    PROVE  OwnInv' /\ \A u \in Threads : Owner(u)' <=> Owner(u)
<1>1. /\ Store(t, "lock", 0) /\ mem' = mem /\ pc[t] = "give"
      /\ \E l \in {"take", "loop"} : pc' = [pc EXCEPT ![t] = l]
  BY DEF Give, At, Goto
<1>2. /\ \A u \in Threads : \A y : Pending(u, y)' <=> Pending(u, y) \/ (u = t /\ y = "lock")
      /\ \A u \in Threads : u # t => buffer'[u] = buffer[u]
  BY <1>1, CellFacts, StoreFacts DEF TypeOK
<1>3. /\ \A y : Once(buffer[t], y) /\ (y = "lock" => ~Pending(t, y)) => Once(buffer[t], y)'
      /\ \A y, z : "lock" # y /\ ("lock" = z \/ Before(buffer[t], y, z)) => Before(buffer[t], y, z)'
  BY <1>1, CellFacts, StoreOrder DEF TypeOK
<1>4. pc'[t] \in {"take", "loop"} /\ \A u \in Threads : u # t => pc'[u] = pc[u]
  BY <1>1 DEF TypeOK
<1>5. \A u \in Threads : Owner(u)' <=> Owner(u)
  BY <1>1, <1>2, <1>4 DEF Owner
<1>6. \A u \in Threads : pc'[u] \in {"load", "store", "give"} => ~Pending(u, "lock")'
  BY <1>2, <1>4 DEF OwnInv
<1>7. \A u \in Threads, c \in Counters : pc'[u] # "give" => Before(buffer'[u], c, "lock")
  BY <1>2, <1>3, <1>4, CellFacts DEF OwnInv
<1>8. \A u \in Threads : Once(buffer'[u], "lock")
  BY <1>1, <1>2, <1>3 DEF OwnInv
<1> QED BY <1>1, <1>5, <1>6, <1>7, <1>8 DEF OwnInv

\* The thread whose store reaches the memory is the owner, and when it is the unlock
\* there is none any more.
LEMMA OwnDrain ==
    ASSUME TypeOK, OwnInv, NEW t \in Threads, Drain(t)
    PROVE  /\ OwnInv' /\ Owner(t)
           /\ \A u \in Threads : Owner(u)' <=> Owner(u) /\ Head(buffer[t]).cell # "lock"
<1> DEFINE e == Head(buffer[t])
<1>1. Flush(t) /\ pc' = pc
  BY DEF Drain
<1>2. /\ e.cell \in Cells /\ mem' = [mem EXCEPT ![e.cell] = e.value]
      /\ \A x : Pending(t, x) <=> x = e.cell \/ Pending(t, x)'
      /\ \A u \in Threads : \A x : u # t => (Pending(u, x)' <=> Pending(u, x))
      /\ \A u \in Threads : u # t => buffer'[u] = buffer[u]
  <2>1. /\ Head(buffer[t]) \in Stores(Cells, Nat)
        /\ mem' = [mem EXCEPT ![Head(buffer[t]).cell] = Head(buffer[t]).value]
        /\ \A x : Pending(t, x) <=> x = Head(buffer[t]).cell \/ Pending(t, x)'
        /\ \A u \in Threads : \A x : u # t => (Pending(u, x)' <=> Pending(u, x))
        /\ \A u \in Threads : u # t => buffer'[u] = buffer[u]
    BY <1>1, FlushFacts DEF TypeOK
  <2> QED BY <2>1 DEF Stores
<1>3. /\ \A y : Once(buffer[t], y) => Once(buffer[t], y)' /\ (e.cell = y => ~Pending(t, y)')
      /\ \A y, z : Before(buffer[t], y, z) => Before(buffer[t], y, z)'
  BY <1>1, FlushOrder DEF TypeOK
<1> HIDE DEF e
<1>4. Owner(t)
  BY <1>2, PendingOwner
<1>5. Once(buffer[t], "lock")' /\ (e.cell = "lock" => ~Pending(t, "lock")')
  BY <1>3 DEF OwnInv
<1>6. \A u \in Threads : Owner(u)' <=> Owner(u) /\ e.cell # "lock"
  <2>1. ASSUME NEW u \in Threads, u # t PROVE ~Owner(u) /\ ~Owner(u)'
    BY <1>1, <1>2, <1>4, <2>1 DEF OwnInv, Owner
  <2>2. CASE e.cell # "lock"
    <3>1. Owner(t)' <=> Owner(t)
      BY <1>1, <1>2, <2>2 DEF Owner
    <3> QED BY <2>1, <2>2, <3>1
  <2>3. CASE e.cell = "lock"
    <3>1. Pending(t, "lock") /\ ~Pending(t, "lock")'
      BY <1>2, <1>5, <2>3
    <3>2. ~Owner(t)'
      BY <1>1, <3>1 DEF Owner, OwnInv
    <3> QED BY <2>1, <2>3, <3>2
  <2> QED BY <2>2, <2>3
<1>7. \A u \in Threads : Owner(u)' => mem'["lock"] # 0
  <2>1. e.cell # "lock" => mem'["lock"] = mem["lock"]
    BY <1>2, CellFacts DEF TypeOK, MemoryOK
  <2> QED BY <1>6, <2>1 DEF OwnInv
<1>8. \A u, v \in Threads : Owner(u)' /\ Owner(v)' => u = v
  BY <1>6 DEF OwnInv
<1>9. \A u \in Threads : pc'[u] \in {"load", "store", "give"} => ~Pending(u, "lock")'
  BY <1>1, <1>2 DEF OwnInv
<1>10. \A u \in Threads : Once(buffer'[u], "lock")
  BY <1>2, <1>5 DEF OwnInv
<1>11. \A u \in Threads, c \in Counters : pc'[u] # "give" => Before(buffer'[u], c, "lock")
  BY <1>1, <1>2, <1>3 DEF OwnInv
<1>12. OwnInv'
  BY <1>7, <1>8, <1>9, <1>10, <1>11 DEF OwnInv
<1> QED BY <1>4, <1>6, <1>12 DEF e

-----------------------------------------------------------------------------
(* The points a thread has in hand, and those that have been counted.        *)

LEMMA PointFacts ==
    /\ IsFiniteSet(Points)
    /\ \A p \in Points : p[1] \in Threads /\ p[2] \in Nat /\ p[2] =< drawn[p[1]]
    /\ \A p \in Points : \A t, k : p = <<t, k>> <=> p[1] = t /\ p[2] = k
<1>1. IsFiniteSet(Threads) /\ IsFiniteSet(1 .. MaxPoints)
  BY FS_Interval, ThreadsInt DEF Threads
<1>2. IsFiniteSet(Threads \X (1 .. MaxPoints))
  BY <1>1, FS_Product
<1>3. Points \subseteq Threads \X (1 .. MaxPoints)
  BY DEF Points
<1>4. IsFiniteSet(Points)
  BY <1>2, <1>3, FS_Subset
<1>5. \A p \in Points : \A t, k : p = <<t, k>> <=> p[1] = t /\ p[2] = k
  BY <1>3
<1>6. \A p \in Points : p[1] \in Threads /\ p[2] \in Nat /\ p[2] =< drawn[p[1]]
  BY <1>3 DEF Points
<1> QED BY <1>4, <1>5, <1>6

\* There are finitely many points to count.
LEMMA HistoryFacts ==
    ASSUME TypeOK, NEW c \in Counters
    PROVE  /\ History(c) \subseteq Points
           /\ IsFiniteSet(History(c)) /\ IsFiniteSet(Counted(c))
<1>1. History(c) \subseteq Points /\ Counted(c) \subseteq Points
  BY DEF History, Counted, TypeOK
<1> QED BY <1>1, PointFacts, FS_Subset

\* Nobody who has a point in hand gets another one, and no point is forgotten.
LEMMA HandQuiet ==
    ASSUME HandInv, UNCHANGED <<drawn, hits>>,
           \A u \in Threads :
              pc'[u] \in {"take", "load", "store", "give"} =>
                /\ pc[u] \in {"take", "load", "store", "give"}
                /\ target'[u] = "numPointsInCircle" => target[u] = "numPointsInCircle"
    PROVE  HandInv'
<1>1. Points' = Points
  BY DEF Points
<1> QED BY <1>1 DEF HandInv

LEMMA HandKept ==
    ASSUME TypeOK, HandInv, [Next]_vars
    PROVE  HandInv'
<1>1. CASE UNCHANGED vars
  BY <1>1, HandQuiet DEF vars, threadVars, mainVars
<1>2. CASE Spawn
  BY <1>2, HandQuiet, ThreadsInt DEF Spawn, threadVars, Goto, TypeOK
<1>3. CASE Join \/ Tick
  BY <1>3, HandQuiet DEF Join, Tick, threadVars
<1>4. ASSUME NEW t \in Threads, Take(t) \/ Load(t) \/ Add(t) PROVE HandInv'
  <2>1. pc[t] \in {"take", "load", "store"} /\ UNCHANGED <<drawn, hits, target>>
        /\ \A u \in Threads : u # t => pc'[u] = pc[u]
    BY <1>4 DEF Take, Load, Add, At, Goto, threadVars, TypeOK
  <2> QED BY <2>1, HandQuiet
<1>5. ASSUME NEW t \in Threads, Give(t) PROVE HandInv'
  <2>1. /\ pc[t] = "give" /\ UNCHANGED <<drawn, hits>>
        /\ \A u \in Threads : u # t => pc'[u] = pc[u] /\ target'[u] = target[u]
        /\ target'[t] = "totalPoints"
    BY <1>5 DEF Give, At, Goto, threadVars, TypeOK
  <2> QED BY <2>1, HandQuiet
<1>6. ASSUME NEW t \in Threads, Drain(t) PROVE HandInv'
  BY <1>6, HandQuiet DEF Drain, threadVars
<1>7. ASSUME NEW t \in Threads, LoopTest(t) PROVE HandInv'
  <2>1. CASE expired
    <3>1. UNCHANGED <<drawn, hits, target>>
          /\ pc'[t] = "done" /\ \A u \in Threads : u # t => pc'[u] = pc[u]
      BY <1>7, <2>1 DEF LoopTest, Goto, TypeOK
    <3> QED BY <3>1, HandQuiet
  <2>2. CASE ~expired
    <3>1. /\ drawn[t] < MaxPoints /\ drawn' = [drawn EXCEPT ![t] = @ + 1]
          /\ \A u \in Threads : u # t => pc'[u] = pc[u] /\ target'[u] = target[u]
          /\ hits \subseteq hits'
          /\ target'[t] = "numPointsInCircle" => <<t, drawn'[t]>> \in hits'
      BY <1>7, <2>2 DEF LoopTest, Goto, TypeOK
    <3>2. /\ \A u \in Threads : u # t => drawn'[u] = drawn[u]
          /\ Points' = Points \cup {<<t, drawn'[t]>>}
      BY <3>1, DrawFacts
    <3> QED BY <3>1, <3>2 DEF HandInv
  <2> QED BY <2>1, <2>2
<1> QED BY <1>1, <1>2, <1>3, <1>4, <1>5, <1>6, <1>7 DEF Next, ThreadStep, Terminated

\* If no thread counts its point, none is counted.
LEMMA CountedQuiet ==
    ASSUME TypeOK, UNCHANGED <<drawn, hits>>, NEW c \in Counters,
           \A u \in Threads : Owes(u, c)' <=> Owes(u, c)
    PROVE  Counted(c)' = Counted(c)
<1>1. Points' = Points
  BY DEF Points
<1>2. History(c)' = History(c)
  BY <1>1 DEF History
<1>3. \A p \in History(c) : p[1] \in Threads
  BY HistoryFacts, PointFacts
<1> QED BY <1>2, <1>3 DEF Counted

\* A point that is drawn is not counted yet, and the last one of the thread is.
LEMMA CountedDraw ==
    ASSUME TypeOK, NEW t \in Threads, LoopTest(t), NEW c \in Counters
    PROVE  Counted(c)' = Counted(c)
<1>1. CASE expired
  <2>1. UNCHANGED <<drawn, hits, target>> /\ pc[t] = "loop"
        /\ pc'[t] = "done" /\ \A u \in Threads : u # t => pc'[u] = pc[u]
    BY <1>1 DEF LoopTest, At, Goto, TypeOK
  <2>2. \A u \in Threads : Owes(u, c)' <=> Owes(u, c)
    BY <2>1 DEF Owes
  <2> QED BY <2>1, <2>2, CountedQuiet
<1>2. CASE ~expired
  <2>1. /\ drawn[t] < MaxPoints /\ drawn' = [drawn EXCEPT ![t] = @ + 1]
        /\ pc[t] = "loop" /\ pc'[t] = "take"
        /\ \A u \in Threads : u # t => pc'[u] = pc[u] /\ target'[u] = target[u]
        /\ \/ hits' = hits \cup {<<t, drawn'[t]>>} /\ target'[t] = "numPointsInCircle"
           \/ hits' = hits
    BY <1>2 DEF LoopTest, At, Goto, TypeOK
  <2>2. /\ drawn'[t] = drawn[t] + 1
        /\ \A u \in Threads : u # t => drawn'[u] = drawn[u]
        /\ Points' = Points \cup {<<t, drawn'[t]>>}
    BY <2>1, DrawFacts
  <2>3. PICK q : q = <<t, drawn'[t]>>
    OBVIOUS
  <2>4. q[1] = t /\ q[2] = drawn'[t]
    BY <2>3
  <2>5. History(c)' = History(c) \/ (History(c)' = History(c) \cup {q} /\ Owes(t, c)')
    BY <2>1, <2>2, <2>3 DEF History, Owes, Counters
  <2>6. \A p \in History(c) : /\ p[1] \in Threads /\ p[1] = t => p[2] # drawn'[t]
                              /\ p[1] # t => (Owes(p[1], c)' <=> Owes(p[1], c))
    <3>1. \A p \in History(c) : p[1] \in Threads /\ p[2] \in Nat /\ p[2] =< drawn[p[1]]
      BY HistoryFacts, PointFacts
    <3>2. drawn[t] \in Nat
      BY ThreadsInt DEF TypeOK
    <3> QED BY <2>1, <2>2, <3>1, <3>2 DEF Owes
  <2>7. ~Owes(t, c)
    BY <2>1 DEF Owes
  <2>8. \A p \in History(c) : p \in Counted(c)' <=> p \in Counted(c)
    <3> SUFFICES ASSUME NEW p \in History(c)
                 PROVE  p \in Counted(c)' <=> p \in Counted(c)
      OBVIOUS
    <3>1. p \in History(c)'
      BY <2>5
    <3>2. CASE p[1] = t
      BY <2>6, <2>7, <3>1, <3>2 DEF Counted
    <3>3. CASE p[1] # t
      BY <2>2, <2>6, <3>1, <3>3, HistoryFacts, PointFacts DEF Counted
    <3> QED BY <3>2, <3>3
  <2>9. q \in Counted(c)' => q \in History(c)
    BY <2>4, <2>5 DEF Counted
  <2> QED BY <2>5, <2>8, <2>9 DEF Counted
<1> QED BY <1>1, <1>2

\* The store of a ++ counts the thread's point, in this counter alone.
LEMMA CountedAdd ==
    ASSUME TypeOK, HandInv, NEW t \in Threads, Add(t), NEW c \in Counters
    PROVE  IF c = target[t]
           THEN /\ <<t, drawn[t]>> \notin Counted(c)
                /\ Counted(c)' = Counted(c) \cup {<<t, drawn[t]>>}
           ELSE Counted(c)' = Counted(c)
<1>1. /\ UNCHANGED <<drawn, hits, target>> /\ pc[t] = "store" /\ pc'[t] = "give"
      /\ \A u \in Threads : u # t => pc'[u] = pc[u]
  BY DEF Add, At, Goto, threadVars, TypeOK
<1>2. \A u \in Threads : u # t => (Owes(u, c)' <=> Owes(u, c))
  BY <1>1 DEF Owes
<1>3. CASE c # target[t]
  <2>1. Owes(t, c)' <=> Owes(t, c)
    BY <1>1, <1>3 DEF Owes, Counters, TypeOK
  <2> QED BY <1>1, <1>2, <1>3, <2>1, CountedQuiet
<1>4. CASE c = target[t]
  <2>1. Owes(t, c) /\ ~Owes(t, c)'
    BY <1>1, <1>4 DEF Owes
  <2>2. Points' = Points
    BY <1>1 DEF Points
  <2>3. History(c)' = History(c)
    BY <1>1, <2>2 DEF History
  <2>4. PICK q : q = <<t, drawn[t]>>
    OBVIOUS
  <2>5. q[1] = t /\ q[2] = drawn[t] /\ q \in History(c)
    BY <1>1, <1>4, <2>4 DEF HandInv, History, Counters
  <2>6. \A p \in History(c) : p[1] \in Threads /\ (p = q <=> p[1] = t /\ p[2] = drawn[t])
    BY <2>4, HistoryFacts, PointFacts
  <2>7. q \notin Counted(c) /\ q \in Counted(c)'
    BY <2>1, <2>3, <2>5 DEF Counted
  <2>8. \A p \in History(c) : p # q => (p \in Counted(c)' <=> p \in Counted(c))
    BY <1>1, <1>2, <2>3, <2>6 DEF Counted
  <2>9. Counted(c) \subseteq History(c) /\ Counted(c)' \subseteq History(c)
    BY <2>3 DEF Counted
  <2> QED BY <1>4, <2>4, <2>7, <2>8, <2>9
<1> QED BY <1>3, <1>4

\* All other steps count nothing.
LEMMA CountedOther ==
    ASSUME TypeOK, [Next]_vars, \A t \in Threads : ~Add(t), NEW c \in Counters
    PROVE  Counted(c)' = Counted(c)
<1>1. CASE UNCHANGED vars
  BY <1>1, CountedQuiet DEF vars, threadVars, Owes
<1>2. CASE Spawn
  <2>1. \A u \in Threads : Owes(u, c)' <=> Owes(u, c)
    BY <1>2, ThreadsInt DEF Spawn, threadVars, Goto, TypeOK, Owes
  <2> QED BY <1>2, <2>1, CountedQuiet DEF Spawn, threadVars
<1>3. CASE Join \/ Tick
  BY <1>3, CountedQuiet DEF Join, Tick, threadVars, Owes
<1>4. ASSUME NEW t \in Threads, Take(t) \/ Load(t) PROVE Counted(c)' = Counted(c)
  <2>1. pc[t] \in {"take", "load"} /\ UNCHANGED <<drawn, hits, target>>
        /\ pc'[t] \in {"load", "store"} /\ \A u \in Threads : u # t => pc'[u] = pc[u]
    BY <1>4 DEF Take, Load, At, Goto, threadVars, TypeOK
  <2>2. \A u \in Threads : Owes(u, c)' <=> Owes(u, c)
    BY <2>1 DEF Owes
  <2> QED BY <2>1, <2>2, CountedQuiet
<1>5. ASSUME NEW t \in Threads, Give(t) PROVE Counted(c)' = Counted(c)
  <2>1. /\ pc[t] = "give" /\ UNCHANGED <<drawn, hits>> /\ target'[t] = "totalPoints"
        /\ pc'[t] = IF target[t] = "numPointsInCircle" THEN "take" ELSE "loop"
        /\ \A u \in Threads : u # t => pc'[u] = pc[u] /\ target'[u] = target[u]
    BY <1>5 DEF Give, At, Goto, TypeOK
  <2>2. \A u \in Threads : Owes(u, c)' <=> Owes(u, c)
    BY <2>1 DEF Owes
  <2> QED BY <2>1, <2>2, CountedQuiet
<1>6. ASSUME NEW t \in Threads, Drain(t) PROVE Counted(c)' = Counted(c)
  BY <1>6, CountedQuiet DEF Drain, threadVars, Owes
<1> QED BY <1>1, <1>2, <1>3, <1>4, <1>5, <1>6, CountedDraw DEF Next, ThreadStep, Terminated

-----------------------------------------------------------------------------
(* The counters.                                                             *)

LEMMA CountInit ==
    ASSUME Init
    PROVE  CountInv /\ HandInv /\ EstimateRight
<1>1. Points = {}
  <2>1. \A p \in Threads \X (1 .. MaxPoints) : p[1] \in Threads /\ p[2] \in 1 .. MaxPoints
    OBVIOUS
  <2>2. \A t \in Threads : drawn[t] = 0
    BY DEF Init
  <2>3. \A n \in 1 .. MaxPoints : ~(n =< 0)
    BY ThreadsInt
  <2> QED BY <2>1, <2>2, <2>3 DEF Points
<1>2. \A c \in Counters : Counted(c) = {}
  BY <1>1 DEF Counted, History, Init
<1>3. \A t \in Threads : ~Owner(t)
  <2>1. \A t \in Threads : buffer[t] = <<>> /\ pc[t] = "new"
    BY DEF Init
  <2> QED BY <2>1 DEF Owner, Pending, InBuffer
<1>4. \A c \in Counters : mem[c] = 0
  BY CellFacts DEF Init
<1> QED BY <1>2, <1>3, <1>4, FS_EmptySet DEF CountInv, HandInv, EstimateRight, Init

\* Nothing is read, written or counted.
LEMMA CountQuiet ==
    ASSUME CountInv, UNCHANGED <<mem, buffer, reg, target>>,
           \A u \in Threads : /\ Owner(u)' <=> Owner(u)
                              /\ pc'[u] = "store" => pc[u] = "store",
           \A c \in Counters : Counted(c)' = Counted(c)
    PROVE  CountInv'
<1>1. \A u \in Threads : \A x : Read(u, x)' = Read(u, x)
  BY QuietFacts
<1> QED BY <1>1 DEF CountInv

\* The new owner finds in the memory what the last one has left there.
LEMMA CountTake ==
    ASSUME TypeOK, OwnInv, CountInv, NEW t \in Threads, Take(t)
    PROVE  CountInv'
<1>1. /\ Drained(t) /\ buffer' = buffer /\ mem' = [mem EXCEPT !["lock"] = 1]
      /\ UNCHANGED <<reg, target>> /\ pc' = [pc EXCEPT ![t] = "load"]
  BY DEF Take, CmpXchg, Goto, threadVars
<1>2. \A u \in Threads : ~Owner(u) /\ (Owner(u)' <=> u = t)
  BY OwnTake
<1>3. \A c \in Counters : Read(t, c)' = Read(t, c) /\ ~Pending(t, c)
  <2>1. MemoryOK(Threads, Cells, Nat) /\ "lock" \in Cells /\ 1 \in Nat
    BY CellFacts DEF TypeOK
  <2>2. /\ \A u \in Threads, y \in Cells :
              Read(u, y)' = IF y = "lock" /\ ~Pending(u, y) THEN 1 ELSE Read(u, y)
        /\ \A y : ~Pending(t, y)
    BY <1>1, <2>1, LockedFacts
  <2> QED BY <2>2, CellFacts
<1>4. \A c \in Counters : Read(t, c)' = Cardinality(Counted(c))
  BY <1>2, <1>3, ReadDrained DEF CountInv
<1>5. \A c \in Counters : Counted(c)' = Counted(c)
  <2>1. \A u \in Threads : ~Add(u)
    BY <1>1, <1>2 DEF Add, At, Owner
  <2> QED BY <2>1, CountedOther DEF Next, ThreadStep
<1>6. \A u \in Threads : pc'[u] # "store"
  BY <1>1, <1>2 DEF Owner, TypeOK
<1> QED BY <1>2, <1>4, <1>5, <1>6 DEF CountInv

\* The owner loads what it is going to store one more of.
LEMMA CountLoad ==
    ASSUME TypeOK, OwnInv, CountInv, NEW t \in Threads, Load(t)
    PROVE  CountInv'
<1>1. /\ UNCHANGED <<mem, buffer, target>> /\ pc[t] = "load"
      /\ reg' = [reg EXCEPT ![t] = Read(t, target[t])] /\ pc' = [pc EXCEPT ![t] = "store"]
  BY DEF Load, At, Goto
<1>2. \A u \in Threads : \A x : Read(u, x)' = Read(u, x)
  BY <1>1, QuietFacts
<1>3. /\ pc'[t] = "store" /\ \A u \in Threads : u # t => pc'[u] = pc[u] /\ reg'[u] = reg[u]
      /\ reg'[t] = Read(t, target[t])
  BY <1>1 DEF TypeOK
<1>4. \A u \in Threads : Owner(u)' <=> Owner(u)
  <2>1. \A u \in Threads : pc'[u] \in Inside <=> pc[u] \in Inside
    BY <1>1, <1>3 DEF Inside
  <2>2. \A u \in Threads : pc'[u] = "give" <=> pc[u] = "give"
    BY <1>1, <1>3
  <2> QED BY <1>1, <2>1, <2>2, OwnQuiet
<1>5. \A c \in Counters : Counted(c)' = Counted(c)
  <2>1. \A u \in Threads : ~Add(u)
    BY <1>1, <1>3 DEF Add, Goto, TypeOK
  <2> QED BY <2>1, CountedOther DEF Next, ThreadStep
<1>6. (\A u \in Threads : pc[u] = "store" => reg[u] = Read(u, target[u]))'
  BY <1>1, <1>2, <1>3 DEF CountInv
<1> QED BY <1>1, <1>2, <1>4, <1>5, <1>6 DEF CountInv

\* It stores the number of the points with its own.
LEMMA CountAdd ==
    ASSUME TypeOK, OwnInv, HandInv, CountInv, NEW t \in Threads, Add(t)
    PROVE  CountInv'
<1>1. /\ Store(t, target[t], reg[t] + 1) /\ mem' = mem
      /\ UNCHANGED <<reg, target>> /\ pc[t] = "store" /\ pc' = [pc EXCEPT ![t] = "give"]
  BY DEF Add, At, Goto, threadVars
<1>2. MemoryOK(Threads, Cells, Nat) /\ target[t] \in Cells /\ target[t] \in Counters /\ reg[t] + 1 \in Nat
  BY CellFacts DEF TypeOK
<1>3. \A u \in Threads : \A y :
         Read(u, y)' = IF u = t /\ y = target[t] THEN reg[t] + 1 ELSE Read(u, y)
  BY <1>1, <1>2, StoreFacts
<1>4. \A u \in Threads : Owner(u)' <=> Owner(u)
  BY OwnAdd
<1>5. Owner(t) /\ \A u \in Threads : Owner(u) => u = t
  BY <1>1 DEF Owner, OwnInv
<1>6. \A c \in Counters : Read(t, c)' = Cardinality(Counted(c))'
  <2> SUFFICES ASSUME NEW c \in Counters PROVE Read(t, c)' = Cardinality(Counted(c))'
    OBVIOUS
  <2>1. Read(t, c) = Cardinality(Counted(c))
    BY <1>5 DEF CountInv
  <2>2. CASE c # target[t]
    BY <1>3, <2>1, <2>2, CountedAdd
  <2>3. CASE c = target[t]
    <3>1. reg[t] = Read(t, c)
      BY <1>1, <2>3 DEF CountInv
    <3>2. IsFiniteSet(Counted(c))
      BY HistoryFacts
    <3>3. /\ <<t, drawn[t]>> \notin Counted(c)
          /\ Counted(c)' = Counted(c) \cup {<<t, drawn[t]>>}
      BY <2>3, CountedAdd
    <3>4. Cardinality(Counted(c) \cup {<<t, drawn[t]>>}) = Cardinality(Counted(c)) + 1
      BY <3>2, <3>3, FS_AddElement
    <3> QED BY <1>3, <2>1, <2>3, <3>1, <3>3, <3>4
  <2> QED BY <2>2, <2>3
<1>7. \A u \in Threads : pc'[u] # "store"
  <2>1. \A u \in Threads : pc[u] = "store" => u = t
    BY <1>5 DEF Owner
  <2> QED BY <1>1, <2>1 DEF TypeOK
<1> QED BY <1>4, <1>5, <1>6, <1>7 DEF CountInv

\* The unlock changes no counter.
LEMMA CountGive ==
    ASSUME TypeOK, OwnInv, CountInv, NEW t \in Threads, Give(t)
    PROVE  CountInv'
<1>1. /\ Store(t, "lock", 0) /\ mem' = mem /\ reg' = reg /\ pc[t] = "give"
      /\ \E l \in {"take", "loop"} : pc' = [pc EXCEPT ![t] = l]
  BY DEF Give, At, Goto
<1>2. MemoryOK(Threads, Cells, Nat) /\ "lock" \in Cells /\ 0 \in Nat
  BY CellFacts DEF TypeOK
<1>3. \A u \in Threads : \A y : Read(u, y)' = IF u = t /\ y = "lock" THEN 0 ELSE Read(u, y)
  BY <1>1, <1>2, StoreFacts
<1>4. \A u \in Threads : Owner(u)' <=> Owner(u)
  BY OwnGive
<1>5. Owner(t) /\ \A u \in Threads : Owner(u) => u = t
  BY <1>1 DEF Owner, OwnInv
<1>6. \A c \in Counters : Counted(c)' = Counted(c)
  <2>1. \A u \in Threads : ~Add(u)
    BY <1>1, <1>5 DEF Add, At, Owner
  <2> QED BY <2>1, CountedOther DEF Next, ThreadStep
<1>7. \A u \in Threads : pc'[u] # "store"
  <2>1. \A u \in Threads : pc[u] = "store" => u = t
    BY <1>5 DEF Owner
  <2> QED BY <1>1, <2>1 DEF TypeOK
<1>8. \A c \in Counters : Read(t, c)' = Read(t, c)
  BY <1>3, CellFacts
<1> QED BY <1>4, <1>5, <1>6, <1>7, <1>8 DEF CountInv

\* With its last store under way the owner leaves the memory as it has read it.
LEMMA CountDrain ==
    ASSUME TypeOK, OwnInv, CountInv, NEW t \in Threads, Drain(t)
    PROVE  CountInv'
<1>1. Flush(t) /\ UNCHANGED <<pc, reg, target>> /\ MemoryOK(Threads, Cells, Nat)
  BY DEF Drain, threadVars, TypeOK
<1>2. PICK x \in Cells : x = Head(buffer[t]).cell
  BY <1>1, FlushFacts DEF Stores
<1>3. /\ \A y \in Cells : Read(t, y)' = Read(t, y)
      /\ \A y \in Cells : y # x => mem'[y] = mem[y]
  <2>1. /\ \A y \in Cells : Read(t, y)' = Read(t, y)
        /\ mem' = [mem EXCEPT ![Head(buffer[t]).cell] = Head(buffer[t]).value]
    BY <1>1, FlushFacts
  <2> QED BY <1>1, <1>2, <2>1 DEF MemoryOK
<1>4. Owner(t) /\ \A u \in Threads : Owner(u)' <=> Owner(u) /\ x # "lock"
  BY <1>2, OwnDrain
<1>5. \A u \in Threads : Owner(u) => u = t
  BY <1>4 DEF OwnInv
<1>6. \A c \in Counters : Counted(c)' = Counted(c)
  <2>1. \A u \in Threads : ~Add(u)
    <3>1. \A u \in Threads : Add(u) => pc[u] = "store" /\ pc'[u] # "store"
      BY DEF Add, At, Goto, TypeOK
    <3> QED BY <1>1, <3>1
  <2> QED BY <2>1, CountedOther DEF Next
<1>7. \A c \in Counters : Read(t, c)' = Cardinality(Counted(c))'
  BY <1>3, <1>4, <1>6, CellFacts DEF CountInv
<1>8. ASSUME x = "lock", NEW c \in Counters
      PROVE  mem'[c] = Cardinality(Counted(c))'
  <2>1. Pending(t, "lock")
    <3>1. \A y : Pending(t, y) <=> y = Head(buffer[t]).cell \/ Pending(t, y)'
      BY <1>1, FlushFacts
    <3> QED BY <1>2, <1>8, <3>1
  <2>2. Before(buffer[t], c, "lock") /\ Once(buffer[t], "lock")
    BY <2>1 DEF OwnInv
  <2>3. ~Pending(t, c)
    <3>1. \A y, z : Before(buffer[t], y, z) =>
             (Head(buffer[t]).cell = z /\ Once(buffer[t], z) => ~Pending(t, y))
      BY <1>1, FlushOrder
    <3> QED BY <1>2, <1>8, <2>2, <3>1
  <2>4. mem'[c] = mem[c] /\ mem[c] = Read(t, c)
    BY <1>3, <1>8, <2>3, ReadDrained, CellFacts
  <2> QED BY <1>4, <1>6, <2>4 DEF CountInv
<1>9. (\A u \in Threads : pc[u] = "store" => reg[u] = Read(u, target[u]))'
  <2>1. \A u \in Threads : pc[u] = "store" => u = t
    BY <1>5 DEF Owner
  <2>2. target[t] \in Cells
    BY CellFacts DEF TypeOK
  <2> QED BY <1>1, <1>3, <2>1, <2>2 DEF CountInv
<1> QED BY <1>4, <1>5, <1>7, <1>8, <1>9 DEF CountInv

-----------------------------------------------------------------------------
(* The theorem.                                                              *)

IInv == TypeOK /\ OwnInv /\ HandInv /\ CountInv /\ EstimateRight

\* A step that is not of the lock, the memory or the counters.
LEMMA OtherKept ==
    ASSUME TypeOK, OwnInv, CountInv,
           (\E t \in Threads : LoopTest(t)) \/ Spawn \/ Join \/ Tick \/ UNCHANGED vars
    PROVE  OwnInv' /\ CountInv'
<1>1. UNCHANGED <<mem, buffer, reg>> /\ \A u \in Threads : ~Add(u)
  <2>1. UNCHANGED <<mem, buffer, reg>>
    BY DEF LoopTest, Spawn, Join, Tick, vars, threadVars
  <2>2. \A u \in Threads : Add(u) => buffer'[u] # buffer[u]
    <3> SUFFICES ASSUME NEW u \in Threads, Add(u) PROVE buffer'[u] # buffer[u]
      OBVIOUS
    <3>1. PICK e : buffer'[u] = Append(buffer[u], e)
      BY DEF Add, Store, TypeOK, MemoryOK
    <3>2. buffer[u] \in Seq(Stores(Cells, Nat))
      BY DEF TypeOK, MemoryOK
    <3>3. Len(Append(buffer[u], e)) = Len(buffer[u]) + 1 /\ Len(buffer[u]) \in Nat
      BY <3>2
    <3> QED BY <3>1, <3>3
  <2> QED BY <2>1, <2>2
<1>2. \A u \in Threads : pc'[u] = pc[u] \/ {pc'[u], pc[u]} \cap Inside = {}
  BY ThreadsInt DEF LoopTest, Spawn, Join, Tick, vars, At, Goto, TypeOK, Inside
<1>3. OwnInv' /\ \A u \in Threads : Owner(u)' <=> Owner(u)
  <2>1. \A u \in Threads : /\ pc'[u] \in Inside <=> pc[u] \in Inside
                           /\ pc'[u] = "give" <=> pc[u] = "give"
    BY <1>2 DEF Inside
  <2> QED BY <1>1, <2>1, OwnQuiet
<1>4. \A c \in Counters : Counted(c)' = Counted(c)
  BY <1>1, CountedOther DEF Next, ThreadStep
<1>5. \A u \in Threads : pc'[u] = "store" => pc[u] = "store" /\ target'[u] = target[u]
  BY ThreadsInt DEF LoopTest, Spawn, Join, Tick, vars, At, Goto, TypeOK, threadVars
<1>6. CountInv'
  <2>1. \A u \in Threads : \A y : Read(u, y)' = Read(u, y)
    BY <1>1, QuietFacts
  <2> QED BY <1>1, <1>3, <1>4, <1>5, <2>1 DEF CountInv
<1> QED BY <1>3, <1>6

\* When all threads are done nobody owns the lock or has a point in hand.
LEMMA JoinRight ==
    ASSUME TypeOK, OwnInv, CountInv, Join
    PROVE  EstimateRight'
<1>1. \A t \in Threads : pc[t] = "done" /\ buffer[t] = <<>>
  BY DEF Join, Drained
<1>2. \A t \in Threads : ~Owner(t)
  BY <1>1 DEF Owner, Pending, InBuffer
<1>3. \A c \in Counters : mem[c] = Cardinality(Counted(c))
  BY <1>2 DEF CountInv
<1>4. \A c \in Counters : Counted(c) = History(c)
  <2>1. \A c \in Counters : \A p \in History(c) : p[1] \in Threads
    BY HistoryFacts, PointFacts
  <2> QED BY <1>1, <2>1 DEF Counted, Owes
<1>5. hits' = hits /\ Points' = Points
  BY DEF Join, threadVars, Points
<1>6. pi' = <<Cardinality(hits), Cardinality(Points)>>
  BY <1>3, <1>4 DEF Join, History, Counters
<1> QED BY <1>5, <1>6 DEF EstimateRight

\* Nothing happens any more once main has printed the estimate.
LEMMA EstimateKept ==
    ASSUME TypeOK, OwnInv, CountInv, EstimateRight, [Next]_vars
    PROVE  EstimateRight'
<1>1. CASE UNCHANGED vars
  <2>1. UNCHANGED <<main, pi, hits>> /\ Points' = Points
    BY <1>1 DEF vars, mainVars, threadVars, Points
  <2> QED BY <2>1 DEF EstimateRight
<1>2. CASE Join
  BY <1>2, JoinRight
<1>3. ASSUME NEW t \in Threads, ThreadStep(t) \/ Drain(t)
      PROVE  EstimateRight'
  <2>1. main' = main /\ main # "exited"
    BY <1>3 DEF ThreadStep, LoopTest, Take, Load, Add, Give, Drain, At, Running, mainVars
  <2> QED BY <2>1 DEF EstimateRight
<1>4. CASE Spawn \/ Tick
  BY <1>4 DEF Spawn, Tick, Running, EstimateRight
<1> QED BY <1>1, <1>2, <1>3, <1>4 DEF Next, Terminated

LEMMA IInvKept == IInv /\ [Next]_vars => IInv'
<1> SUFFICES ASSUME IInv, [Next]_vars PROVE IInv'
  OBVIOUS
<1>1. TypeOK /\ OwnInv /\ HandInv /\ CountInv /\ EstimateRight
  BY DEF IInv
<1>2. TypeOK' /\ HandInv' /\ EstimateRight'
  BY <1>1, TypeKept, HandKept, EstimateKept
<1>3. ASSUME NEW t \in Threads, Take(t) PROVE OwnInv' /\ CountInv'
  BY <1>1, <1>3, OwnTake, CountTake
<1>4. ASSUME NEW t \in Threads, Load(t) PROVE OwnInv' /\ CountInv'
  <2>1. UNCHANGED <<mem, buffer>>
        /\ \A u \in Threads : /\ pc'[u] \in Inside <=> pc[u] \in Inside
                              /\ pc'[u] = "give" <=> pc[u] = "give"
    BY <1>1, <1>4 DEF Load, At, Goto, TypeOK, Inside
  <2> QED BY <1>1, <1>4, <2>1, OwnQuiet, CountLoad
<1>5. ASSUME NEW t \in Threads, Add(t) PROVE OwnInv' /\ CountInv'
  BY <1>1, <1>5, OwnAdd, CountAdd
<1>6. ASSUME NEW t \in Threads, Give(t) PROVE OwnInv' /\ CountInv'
  BY <1>1, <1>6, OwnGive, CountGive
<1>7. ASSUME NEW t \in Threads, Drain(t) PROVE OwnInv' /\ CountInv'
  BY <1>1, <1>7, OwnDrain, CountDrain
<1>8. OwnInv' /\ CountInv'
  BY <1>1, <1>3, <1>4, <1>5, <1>6, <1>7, OtherKept DEF Next, ThreadStep, Terminated
<1> QED BY <1>2, <1>8 DEF IInv

\* The types, and who was created when; two threads never own the lock at a time, and
\* only its owner has stores under way.
THEOREM OneOwner == Spec => [](TypeOK /\ OwnInv)
<1>1. Init => IInv
  BY TypeInit, OwnInit, CountInit DEF IInv
<1>2. IInv /\ [Next]_vars => IInv'
  BY IInvKept
<1>3. IInv => TypeOK /\ OwnInv
  BY DEF IInv
<1> QED BY <1>1, <1>2, <1>3, PTL DEF Spec

\* For every number of threads and of points, pi is computed from all the points
\* that were drawn, those in the circle and all of them: the lock and the order in
\* which stores reach the memory lose no ++ of a counter.
THEOREM EstimateCounts == Spec => []EstimateRight
<1>1. Init => IInv
  BY TypeInit, OwnInit, CountInit DEF IInv
<1>2. IInv /\ [Next]_vars => IInv'
  BY IInvKept
<1>3. IInv => EstimateRight
  BY DEF IInv
<1> QED BY <1>1, <1>2, <1>3, PTL DEF Spec
=============================================================================
