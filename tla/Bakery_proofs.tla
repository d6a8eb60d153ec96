----------------------------- MODULE Bakery_proofs -----------------------------
(* Proofs about Bakery for every number of threads and every number of         *)
(* entries: mutual exclusion; first come, first served; the refinement of      *)
(* FairLock; the size of the tickets.                                          *)
EXTENDS Bakery, FiniteSetTheorems, TLAPS

\* Where a thread has choosing set, where it has a ticket, and where it also has
\* choosing reset.
Choosing == {"scan", "reread", "ticket", "chosen"}
InLine == Waiting \cup Critical
Ticketed == {"chosen"} \cup InLine

\* Where a thread looks at number[i] in the waiting loop.
Looking == {"test", "less", "tie"}

USE DEF Choosing, InLine, Ticketed, Looking, Waiting, Critical

\* A thread that looks at number[i] has an i that is a thread.
InBounds == \A t \in Threads : pc[t] \in {"reread"} \cup Looking => i[t] \in Threads

\* The threads are the integers below numThreads; i may also be numThreads.
LEMMA ThreadsInt ==
    /\ numThreads \in Nat
    /\ \A k \in Threads : k \in Int /\ k \in 0 .. numThreads /\ k + 1 \in 0 .. numThreads
    /\ \A k \in 0 .. numThreads : k < numThreads => k \in Threads
BY ThreadsAssumption DEF Threads

-----------------------------------------------------------------------------
(* Type correctness.                                                         *)

\* Every step keeps the types and the bounds of the array accesses.
LEMMA TypeKept ==
    ASSUME TypeOK, InBounds, [Next]_vars
    PROVE  TypeOK' /\ InBounds'
<1> USE ThreadsInt
<1> USE DEF TypeOK, InBounds, Labels, Over, Goto, At, mainVars
<1>1. ASSUME NEW t \in Threads, ThreadStep(t)
      PROVE  TypeOK' /\ InBounds'
  <2>1. CASE LoopTest(t) BY <2>1 DEF LoopTest
  <2>2. CASE Choose(t) BY <2>2 DEF Choose
  <2>3. CASE Scan(t)
    <3>1. i[t] \in Threads
      BY <2>3 DEF Scan
    <3>2. i' \in [Threads -> 0 .. numThreads]
      BY <2>3, <3>1 DEF Scan
    <3> QED BY <2>3, <3>1, <3>2 DEF Scan
  <2>4. CASE Reread(t)
    <3>1. i[t] \in Threads
      BY <2>4 DEF Reread
    <3>2. i' \in [Threads -> 0 .. numThreads]
      BY <2>4, <3>1 DEF Reread
    <3> QED BY <2>4, <3>1, <3>2 DEF Reread
  <2>5. CASE ScanEnd(t) BY <2>5 DEF ScanEnd
  <2>6. CASE Ticket(t) BY <2>6 DEF Ticket
  <2>7. CASE Chosen(t) BY <2>7 DEF Chosen
  <2>8. CASE WaitChoosing(t)
    <3>1. i[t] \in Threads
      BY <2>8 DEF WaitChoosing
    <3> QED BY <2>8, <3>1 DEF WaitChoosing
  <2>9. CASE WaitTest(t)
    <3>1. i[t] \in Threads
      BY <2>9 DEF WaitTest
    <3>2. i' \in [Threads -> 0 .. numThreads]
      BY <2>9, <3>1 DEF WaitTest, NextOne
    <3> QED BY <2>9, <3>1, <3>2 DEF WaitTest, NextOne
  <2>10. CASE WaitLess(t) BY <2>10 DEF WaitLess
  <2>11. CASE WaitTie(t)
    <3>1. i[t] \in Threads
      BY <2>11 DEF WaitTie
    <3>2. i' \in [Threads -> 0 .. numThreads]
      BY <2>11, <3>1 DEF WaitTie, NextOne
    <3> QED BY <2>11, <3>1, <3>2 DEF WaitTie, NextOne
  <2>12. CASE WaitEnd(t) BY <2>12 DEF WaitEnd
  <2>13. CASE CsStep(t)
    <3>1. PICK l \in DOMAIN CsNext : CsStep(t)!(l)
      BY <2>13 DEF CsStep
    <3>2. l \in {"cs0", "cs1", "cs2", "cs3"} /\ CsNext[l] \in Critical
      BY DEF CsNext
    <3>3. in_cs' \in 0 .. 3
      <4>1. \A n \in 0 .. 3 : (n + 1) % 4 \in 0 .. 3
        OBVIOUS
      <4>2. in_cs' = (in_cs + 1) % 4 \/ in_cs' = in_cs
        BY <3>1
      <4> QED BY <4>1, <4>2
    <3>4. CASE UNCHANGED pc BY <3>1, <3>3, <3>4
    <3>5. CASE Goto(t, CsNext[l]) /\ UNCHANGED main
      <4>1. pc' \in [Threads -> Labels]
        BY <3>2, <3>5
      <4>2. InBounds'
        BY <3>1, <3>2, <3>5
      <4> QED BY <3>1, <3>3, <3>5, <4>1, <4>2
    <3> QED BY <3>1, <3>4, <3>5
  <2>14. CASE Leave(t) BY <2>14 DEF Leave
  <2> QED BY <1>1, <2>1, <2>2, <2>3, <2>4, <2>5, <2>6, <2>7, <2>8, <2>9, <2>10,
             <2>11, <2>12, <2>13, <2>14 DEF ThreadStep
<1>2. CASE Spawn
  <2>1. CASE created < numThreads /\ created' = created + 1 /\ Goto(created, "loop")
    <3>1. created \in Threads /\ created' \in 0 .. numThreads
      BY <2>1
    <3> QED BY <1>2, <2>1, <3>1 DEF Spawn, threadVars
  <2>2. CASE UNCHANGED <<created, pc>>
    BY <1>2, <2>2 DEF Spawn, threadVars
  <2> QED BY <1>2, <2>1, <2>2 DEF Spawn
<1>3. CASE Join BY <1>3 DEF Join, threadVars
<1>4. CASE Tick BY <1>4 DEF Tick, threadVars
<1>5. CASE UNCHANGED vars BY <1>5 DEF vars
<1> QED BY <1>1, <1>2, <1>3, <1>4, <1>5 DEF Next, Terminated

\* The variables always hold values of their types, and no thread looks past the
\* end of the arrays.
THEOREM TypeCorrect == Spec => [](TypeOK /\ InBounds)
<1> USE ThreadsInt
<1>1. Init => TypeOK /\ InBounds
  <2> SUFFICES ASSUME Init PROVE TypeOK /\ InBounds
    OBVIOUS
  <2>1. choosing \in [Threads -> {0, 1}] /\ number \in [Threads -> Nat]
    BY DEF Init
  <2>2. i \in [Threads -> 0 .. numThreads] /\ max \in [Threads -> Nat]
    BY DEF Init
  <2>3. pc \in [Threads -> Labels] /\ ahead \in [Threads -> SUBSET Threads]
    BY DEF Init, Labels
  <2>4. InBounds
    BY DEF Init, InBounds
  <2>5. in_cs \in 0 .. 3 /\ created \in 0 .. numThreads
    BY DEF Init
  <2>7. main = "spawn" /\ expired \in BOOLEAN
    BY DEF Init
  <2>6. iterations \in [Threads -> Nat]
    BY DEF Init
  <2> QED BY <2>1, <2>2, <2>3, <2>4, <2>5, <2>6, <2>7 DEF TypeOK, Over
<1>2. TypeOK /\ InBounds /\ [Next]_vars => TypeOK' /\ InBounds'
  BY TypeKept
<1> QED BY <1>1, <1>2, PTL DEF Spec

-----------------------------------------------------------------------------
(* The inductive invariant.                                                  *)

\* main has not come to these threads yet.
Unborn == main = "spawn" => \A t \in Threads : created =< t => pc[t] = "new"

\* What the two arrays say of a thread.
Flags == \A t \in Threads : /\ choosing[t] = 1 <=> pc[t] \in Choosing
                            /\ number[t] # 0 <=> pc[t] \in Ticketed

\* u goes in before t.
Before(u, t) == number[u] < number[t] \/ (number[u] = number[t] /\ u < t)

\* If u is taking its ticket now, then it will be one after the ticket of t.
\* number[i[u]] is what u is going to read, whatever it read before.
WillFollow(u, t) ==
    /\ pc[u] = "scan" => i[u] =< t \/ number[t] =< max[u]
    /\ pc[u] = "reread" => i[u] =< t \/ number[t] < number[i[u]]
    /\ pc[u] = "ticket" => number[t] =< max[u]

\* t has nothing to wait for from u any more.
Passed(t, u) == pc[t] \in Critical \/ u < i[t]

\* Whoever t need not wait for, and whoever came when t had its ticket, is behind.
Order ==
    \A t, u \in Threads :
        t # u /\ pc[t] \in InLine /\ (Passed(t, u) \/ t \in ahead[u]) =>
            WillFollow(u, t) /\ (pc[u] \in Ticketed => Before(t, u))

\* Who was ahead of a thread when it came, and still is, has a ticket.
AheadInLine ==
    \A t, u \in Threads : u \in ahead[t] => u # t /\ pc[u] \in InLine

\* What t knows of the thread it looks at.
Watched ==
    \A t, u \in Threads :
        t # u /\ pc[t] \in Looking /\ i[t] = u =>
            /\ WillFollow(u, t)
            /\ pc[t] = "tie" /\ pc[u] \in Ticketed => number[t] =< number[u]

IInv == Unborn /\ Flags /\ Order /\ AheadInLine /\ Watched

-----------------------------------------------------------------------------
(* What a step of one thread leaves alone.                                   *)

\* A thread changes nothing of another one, except that it takes itself off the
\* other's list when it leaves.
LEMMA Frame ==
    ASSUME TypeOK, NEW v \in Threads, ThreadStep(v), NEW u \in Threads, u # v
    PROVE  /\ pc'[u] = pc[u] /\ i'[u] = i[u] /\ max'[u] = max[u]
           /\ number'[u] = number[u] /\ choosing'[u] = choosing[u]
           /\ ahead'[u] = ahead[u] \/ (pc[v] = "leave" /\ ahead'[u] = ahead[u] \ {v})
<1> USE DEF TypeOK, At, Goto
<1>1. CASE LoopTest(v) BY <1>1 DEF LoopTest
<1>2. CASE Choose(v) BY <1>2 DEF Choose
<1>3. CASE Scan(v) BY <1>3 DEF Scan
<1>4. CASE Reread(v) BY <1>4 DEF Reread
<1>5. CASE ScanEnd(v) BY <1>5 DEF ScanEnd
<1>6. CASE Ticket(v) BY <1>6 DEF Ticket
<1>7. CASE Chosen(v) BY <1>7 DEF Chosen
<1>8. CASE WaitChoosing(v) BY <1>8 DEF WaitChoosing
<1>9. CASE WaitTest(v) BY <1>9 DEF WaitTest, NextOne
<1>10. CASE WaitLess(v) BY <1>10 DEF WaitLess
<1>11. CASE WaitTie(v) BY <1>11 DEF WaitTie, NextOne
<1>12. CASE WaitEnd(v) BY <1>12 DEF WaitEnd
<1>13. CASE CsStep(v) BY <1>13 DEF CsStep
<1>14. CASE Leave(v) BY <1>14 DEF Leave
<1> QED BY <1>1, <1>2, <1>3, <1>4, <1>5, <1>6, <1>7, <1>8, <1>9, <1>10, <1>11, <1>12,
           <1>13, <1>14 DEF ThreadStep

\* The ways of a thread: where it goes from where, and what it does on the way.
LEMMA Ways ==
    ASSUME TypeOK, InBounds, NEW t \in Threads, ThreadStep(t)
    PROVE  /\ pc[t] \notin {"ticket", "leave"} => number' = number
           /\ pc[t] \notin {"choose", "leave"} => ahead' = ahead
           /\ pc[t] \in {"scan", "reread"} =>
                pc'[t] \in {"scan", "reread", "ticket"} /\ choosing' = choosing
           /\ pc[t] \in InLine \ {"leave"} =>
                /\ pc'[t] \in InLine /\ choosing' = choosing
                /\ pc[t] \in Critical => pc'[t] \in Critical
           /\ pc[t] = "leave" => pc'[t] = "loop"
           /\ pc[t] \in {"new", "loop", "done"} =>
                pc'[t] \in {"choose", "done"} /\ choosing' = choosing
<1> USE DEF TypeOK, At, Goto
<1>1. CASE LoopTest(t) BY <1>1 DEF LoopTest
<1>2. CASE Choose(t) BY <1>2 DEF Choose
<1>3. CASE Scan(t) BY <1>3 DEF Scan
<1>4. CASE Reread(t) BY <1>4 DEF Reread
<1>5. CASE ScanEnd(t) BY <1>5 DEF ScanEnd
<1>6. CASE Ticket(t) BY <1>6 DEF Ticket
<1>7. CASE Chosen(t) BY <1>7 DEF Chosen
<1>8. CASE WaitChoosing(t) BY <1>8 DEF WaitChoosing
<1>9. CASE WaitTest(t) BY <1>9 DEF WaitTest, NextOne
<1>10. CASE WaitLess(t) BY <1>10 DEF WaitLess
<1>11. CASE WaitTie(t) BY <1>11 DEF WaitTie, NextOne
<1>12. CASE WaitEnd(t) BY <1>12 DEF WaitEnd
<1>13. CASE CsStep(t) BY <1>13 DEF CsStep, CsNext
<1>14. CASE Leave(t) BY <1>14 DEF Leave
<1> QED BY <1>1, <1>2, <1>3, <1>4, <1>5, <1>6, <1>7, <1>8, <1>9, <1>10, <1>11, <1>12,
           <1>13, <1>14 DEF ThreadStep

\* main, the clock and a stuttering step change nothing of the threads, except
\* that main starts a thread it has not come to.
LEMMA MainSteps ==
    ASSUME TypeOK, Unborn, Spawn \/ Join \/ Tick \/ UNCHANGED vars
    PROVE  /\ UNCHANGED <<choosing, number, i, max, ahead>>
           /\ \A t \in Threads : pc'[t] = pc[t] \/ (pc[t] = "new" /\ pc'[t] = "loop")
<1>1. CASE Spawn
  <2>1. CASE created < numThreads /\ Goto(created, "loop")
    <3>1. created \in Threads /\ pc[created] = "new"
      BY <1>1, <2>1, ThreadsInt DEF Spawn, TypeOK, Unborn
    <3> QED BY <1>1, <2>1, <3>1 DEF Spawn, threadVars, TypeOK, Goto
  <2> QED BY <1>1, <2>1 DEF Spawn, threadVars
<1> QED BY <1>1 DEF Join, Tick, threadVars, vars

-----------------------------------------------------------------------------
(* The invariant, part by part.                                              *)

\* A thread main has not come to stays where it is.
LEMMA UnbornKept ==
    ASSUME TypeOK, InBounds, Unborn, [Next]_vars
    PROVE  Unborn'
<1> USE DEF TypeOK, Unborn
<1>1. ASSUME NEW v \in Threads, ThreadStep(v)
      PROVE  Unborn'
  <2>1. created' = created /\ (main' = "spawn" => main = "spawn") /\ pc[v] # "new"
    BY <1>1 DEF ThreadStep, LoopTest, Choose, Scan, Reread, ScanEnd, Ticket, Chosen,
                WaitChoosing, WaitTest, WaitLess, WaitTie, WaitEnd, CsStep, CsNext, Leave,
                At, mainVars
  <2> QED BY <1>1, <2>1, Frame
<1>2. CASE Spawn
  <2>1. CASE created < numThreads /\ created' = created + 1 /\ Goto(created, "loop")
    <3>1. \A t \in Threads : created + 1 =< t => t # created /\ created =< t
      BY ThreadsInt
    <3> QED BY <1>2, <2>1, <3>1 DEF Spawn, Goto
  <2> QED BY <1>2, <2>1 DEF Spawn
<1>3. CASE Join \/ Tick \/ UNCHANGED vars
  BY <1>3 DEF Join, Tick, vars
<1> QED BY <1>1, <1>2, <1>3 DEF Next, Terminated

\* choosing is set from choose to chosen, a ticket is held from chosen to leave.
LEMMA FlagsKept ==
    ASSUME TypeOK, InBounds, Unborn, Flags, [Next]_vars
    PROVE  Flags'
<1>1. ASSUME NEW v \in Threads, ThreadStep(v)
      PROVE  Flags'
  <2>1. ASSUME NEW u \in Threads, u # v
        PROVE  /\ choosing'[u] = 1 <=> pc'[u] \in Choosing
               /\ number'[u] # 0 <=> pc'[u] \in Ticketed
    BY <1>1, <2>1, Frame DEF Flags
  <2>2. /\ choosing'[v] = 1 <=> pc'[v] \in Choosing
        /\ number'[v] # 0 <=> pc'[v] \in Ticketed
    <3> USE DEF TypeOK, At, Goto, Flags
    <3>1. CASE Choose(v) BY <3>1 DEF Choose
    <3>2. CASE Ticket(v) BY <3>2 DEF Ticket
    <3>3. CASE Chosen(v) BY <3>3 DEF Chosen
    <3>4. CASE Leave(v) BY <3>4 DEF Leave
    <3>5. CASE pc[v] \notin {"choose", "ticket", "chosen", "leave"}
      BY <1>1, <3>5, Ways DEF Labels
    <3>6. pc[v] \in {"choose", "ticket", "chosen", "leave"} =>
            Choose(v) \/ Ticket(v) \/ Chosen(v) \/ Leave(v)
      BY <1>1 DEF ThreadStep, LoopTest, Scan, Reread, ScanEnd, WaitChoosing, WaitTest,
                  WaitLess, WaitTie, WaitEnd, CsStep, CsNext
    <3> QED BY <3>1, <3>2, <3>3, <3>4, <3>5, <3>6
  <2> QED BY <2>1, <2>2 DEF Flags
<1>2. CASE Spawn \/ Join \/ Tick \/ UNCHANGED vars
  BY <1>2, MainSteps DEF Flags
<1> QED BY <1>1, <1>2 DEF Next, Terminated

\* Who leaves is taken off the lists, so those on a list are in line.
LEMMA AheadKept ==
    ASSUME TypeOK, InBounds, Unborn, AheadInLine, [Next]_vars
    PROVE  AheadInLine'
<1> USE DEF TypeOK
<1> SUFFICES ASSUME NEW t \in Threads, NEW u \in Threads, u \in ahead'[t]
             PROVE  u # t /\ pc'[u] \in InLine
  BY DEF AheadInLine
<1>1. ASSUME NEW v \in Threads, ThreadStep(v)
      PROVE  u # t /\ pc'[u] \in InLine
  <2>1. CASE pc[v] = "leave"
    <3>1. u # v /\ u \in ahead[t]
      BY <1>1, <2>1 DEF ThreadStep, LoopTest, Choose, Scan, Reread, ScanEnd, Ticket, Chosen,
                WaitChoosing, WaitTest, WaitLess, WaitTie, WaitEnd, CsStep, CsNext, Leave, At
    <3> QED BY <1>1, <3>1, Frame DEF AheadInLine
  <2>2. CASE pc[v] = "choose"
    <3>1. Choose(v)
      BY <1>1, <2>2 DEF ThreadStep, LoopTest, Scan, Reread, ScanEnd, Ticket, Chosen,
                WaitChoosing, WaitTest, WaitLess, WaitTie, WaitEnd, CsStep, CsNext, Leave, At
    <3>2. CASE t = v
      <4>1. pc[u] \in InLine
        BY <3>1, <3>2 DEF Choose
      <4> QED BY <1>1, <2>2, <3>2, <4>1, Frame
    <3>3. CASE t # v
      <4>1. u \in ahead[t]
        BY <3>1, <3>3 DEF Choose
      <4> QED BY <1>1, <2>2, <4>1, Frame DEF AheadInLine
    <3> QED BY <3>2, <3>3
  <2>3. CASE pc[v] \notin {"leave", "choose"}
    <3>1. u # t /\ pc[u] \in InLine
      BY <1>1, <2>3, Ways DEF AheadInLine
    <3>2. CASE u = v BY <1>1, <2>3, <3>1, <3>2, Ways
    <3>3. CASE u # v BY <1>1, <3>1, <3>3, Frame
    <3> QED BY <3>1, <3>2, <3>3
  <2> QED BY <2>1, <2>2, <2>3
<1>2. CASE Spawn \/ Join \/ Tick \/ UNCHANGED vars
  BY <1>2, MainSteps DEF AheadInLine
<1> QED BY <1>1, <1>2 DEF Next, Terminated

-----------------------------------------------------------------------------
(* The order of the tickets.                                                 *)

\* A ticket stays the same for as long as it is held.
LEMMA TicketsKept ==
    ASSUME TypeOK, InBounds, NEW v \in Threads, ThreadStep(v), NEW t \in Threads,
           pc[t] \in Ticketed, pc'[t] \in Ticketed
    PROVE  number'[t] = number[t]
<1>1. CASE v = t
  <2>1. pc[t] \notin {"ticket", "leave"}
    BY <1>1, Ways
  <2> QED BY <1>1, <2>1, Ways
<1>2. CASE v # t BY <1>2, Frame
<1> QED BY <1>1, <1>2

\* While t keeps its ticket, a thread that is going to follow it still is.  It
\* matters that the cell a thread reads again can only have been reset if it
\* belongs to a thread that went in before t.
LEMMA StillFollows ==
    ASSUME TypeOK, InBounds, Flags, Order, NEW v \in Threads, ThreadStep(v),
           NEW t \in Threads, NEW u \in Threads, t # u,
           pc[t] \in InLine, pc'[t] \in InLine, WillFollow(u, t)
    PROVE  WillFollow(u, t)'
<1> USE DEF TypeOK
<1>1. number'[t] = number[t] /\ number[t] # 0
  <2>1. number'[t] = number[t]
    BY TicketsKept
  <2> QED BY <2>1 DEF Flags
<1>2. CASE v = u
  <2> USE <1>1, <1>2 DEF WillFollow, At, Goto
  <2>0. t \in Int /\ i[u] \in Int /\ max[u] \in Int /\ \A w \in Threads : number[w] \in Int
    BY ThreadsInt
  <2>1. CASE Choose(v) BY <2>1, ThreadsInt DEF Choose
  <2>2. CASE Scan(v)
    <3>1. CASE pc'[u] = "reread"
      <4>1. /\ pc[u] = "scan" /\ i'[u] = i[u] /\ number' = number
            /\ number[i[u]] > max[u] /\ i[u] \in Threads
        BY <2>2, <3>1, ThreadsInt DEF Scan
      <4>2. i[u] =< t \/ number[t] < number[i[u]]
        BY <2>0, <4>1
      <4> QED BY <3>1, <4>1, <4>2
    <3>2. CASE pc'[u] # "reread"
      <4>1. /\ pc'[u] = "scan" /\ i'[u] = i[u] + 1 /\ max'[u] = max[u]
            /\ ~(number[i[u]] > max[u]) /\ i[u] \in Threads /\ pc[u] = "scan"
        BY <2>2, <3>2, ThreadsInt DEF Scan
      <4>2. i[u] + 1 =< t \/ number[t] =< max[u]
        <5>1. CASE i[u] = t BY <2>0, <4>1, <5>1
        <5>2. CASE i[u] # t BY <2>0, <4>1, <5>2
        <5> QED BY <5>1, <5>2
      <4> QED BY <4>1, <4>2
    <3> QED BY <3>1, <3>2
  <2>3. CASE Reread(v)
    <3>1. /\ pc'[u] = "scan" /\ i'[u] = i[u] + 1 /\ max'[u] = number[i[u]]
          /\ i[u] \in Threads /\ pc[u] = "reread"
      BY <2>3 DEF Reread, InBounds
    <3>2. i[u] + 1 =< t \/ number[t] =< number[i[u]]
      <4>1. CASE i[u] = t BY <2>0, <3>1, <4>1
      <4>2. CASE i[u] # t BY <2>0, <3>1, <4>2
      <4> QED BY <4>1, <4>2
    <3> QED BY <3>1, <3>2
  <2>4. CASE ScanEnd(v)
    <3>1. ~(i[u] =< t)
      BY <2>4, ThreadsInt DEF ScanEnd, Threads
    <3> QED BY <2>4, <3>1 DEF ScanEnd
  <2>5. CASE pc'[u] \notin {"scan", "reread", "ticket"} BY <2>5
  <2>6. Choose(v) \/ Scan(v) \/ Reread(v) \/ ScanEnd(v) \/ pc'[u] \notin {"scan", "reread", "ticket"}
    BY DEF ThreadStep, LoopTest, Ticket, Chosen, WaitChoosing, WaitTest, WaitLess, WaitTie,
           WaitEnd, CsStep, CsNext, Leave, NextOne
  <2> QED BY <2>1, <2>2, <2>3, <2>4, <2>5, <2>6
<1>3. CASE v = t
  <2>1. number' = number
    BY <1>3, Ways
  <2> QED BY <1>3, <2>1, Frame DEF WillFollow
<1>4. CASE v # u /\ v # t
  <2>1. ASSUME pc[u] = "reread", number[t] < number[i[u]]
        PROVE  number'[i[u]] = number[i[u]]
    <3>1. i[u] \in Threads /\ i[u] # t /\ number[i[u]] # 0
      BY <2>1 DEF InBounds
    <3>2. CASE v # i[u] BY <3>1, <3>2, Frame
    <3>3. CASE v = i[u]
      <4>1. pc[v] # "ticket"
        BY <3>1, <3>3 DEF Flags
      <4>2. pc[v] # "leave"
        <5>1. pc[v] = "leave" => Before(v, t)
          BY <1>4 DEF Order, Passed
        <5> QED BY <5>1, <2>1, <3>3 DEF Before
      <4> QED BY <4>1, <4>2, Ways
    <3> QED BY <3>2, <3>3
  <2> QED BY <1>1, <1>4, <2>1, Frame DEF WillFollow
<1> QED BY <1>2, <1>3, <1>4

\* A thread that takes its ticket behind t is behind t.
LEMMA TicketFollows ==
    ASSUME TypeOK, InBounds, Flags, NEW v \in Threads, ThreadStep(v),
           NEW t \in Threads, NEW u \in Threads, t # u, pc[t] \in InLine, pc'[t] \in InLine,
           WillFollow(u, t), pc[u] \notin Ticketed, pc'[u] \in Ticketed
    PROVE  number[t] < number'[u] /\ number'[t] = number[t]
<1>1. v = u
  BY Frame
<1>2. Ticket(u)
  BY <1>1 DEF TypeOK, Labels, ThreadStep, LoopTest, Choose, Scan, Reread, ScanEnd, Chosen,
              WaitChoosing, WaitTest, WaitLess, WaitTie, WaitEnd, CsStep, CsNext, Leave,
              NextOne, At, Goto
<1> QED BY <1>1, <1>2, Frame DEF Ticket, At, WillFollow, TypeOK

\* What makes a thread pass another one: it has found the other one without a
\* ticket or not before it, and it was watching it while it looked.
LEMMA Passing ==
    ASSUME TypeOK, InBounds, Flags, Watched, NEW t \in Threads, ThreadStep(t),
           NEW u \in Threads, t # u, pc[t] \in InLine, Passed(t, u)', ~Passed(t, u)
    PROVE  WillFollow(u, t) /\ (pc[u] \in Ticketed => Before(t, u))
<1> USE DEF TypeOK, Passed
<1>0. u \in Int /\ t \in Int /\ u < numThreads /\ i[t] \in Int
      /\ number[t] \in Int /\ number[u] \in Int
  BY ThreadsInt DEF Threads
<1>1. ASSUME pc[t] \in Looking, i'[t] = i[t] + 1, pc'[t] = "wait"
      PROVE  i[t] = u
  BY <1>0, <1>1
<1>2. CASE WaitTest(t)
  <2>1. pc[t] = "test" /\ i[t] = u /\ number[u] = 0
    BY <1>1, <1>2, <1>0 DEF WaitTest, NextOne, At, Goto
  <2> QED BY <2>1 DEF Watched, Flags
<1>3. CASE WaitTie(t)
  <2>1. pc[t] = "tie" /\ i[t] = u /\ ~(number[u] = number[t] /\ u < t)
    BY <1>1, <1>3, <1>0 DEF WaitTie, NextOne, At, Goto
  <2> QED BY <1>0, <2>1 DEF Watched, Before
<1>4. WaitTest(t) \/ WaitTie(t)
  <2>1. CASE WaitEnd(t) BY <1>0, <2>1 DEF WaitEnd
  <2>2. ~(WaitChoosing(t) \/ WaitLess(t) \/ CsStep(t) \/ Leave(t) \/ Chosen(t))
    BY <1>0 DEF WaitChoosing, WaitLess, CsStep, CsNext, Leave, Chosen, At, Goto
  <2> QED BY <2>1, <2>2 DEF ThreadStep, LoopTest, Choose, Scan, Reread, ScanEnd, Ticket, At
<1> QED BY <1>2, <1>3, <1>4

\* Every step keeps the order: who is behind t stays behind it, and whoever t has
\* just passed was behind it.
LEMMA OrderKept ==
    ASSUME TypeOK, InBounds, IInv, [Next]_vars
    PROVE  Order'
<1> USE DEF IInv
<1>1. ASSUME NEW v \in Threads, ThreadStep(v)
      PROVE  Order'
  <2> SUFFICES ASSUME NEW t \in Threads, NEW u \in Threads, t # u, pc'[t] \in InLine,
                      Passed(t, u)' \/ t \in ahead'[u]
               PROVE  WillFollow(u, t)' /\ (pc'[u] \in Ticketed => Before(t, u)')
    BY DEF Order
  <2>1. ASSUME pc[t] \in InLine, WillFollow(u, t), pc[u] \in Ticketed => Before(t, u)
        PROVE  WillFollow(u, t)' /\ (pc'[u] \in Ticketed => Before(t, u)')
    <3>1. WillFollow(u, t)'
      BY <1>1, <2>1, StillFollows
    <3>2. CASE pc[u] \in Ticketed /\ pc'[u] \in Ticketed
      <4>1. number'[t] = number[t] /\ number'[u] = number[u]
        BY <1>1, <2>1, <3>2, TicketsKept
      <4> QED BY <2>1, <3>1, <3>2, <4>1 DEF Before
    <3>3. CASE pc[u] \notin Ticketed /\ pc'[u] \in Ticketed
      <4>1. number[t] < number'[u] /\ number'[t] = number[t]
        BY <1>1, <2>1, <3>3, TicketFollows
      <4> QED BY <3>1, <4>1 DEF Before
    <3> QED BY <3>1, <3>2, <3>3
  <2>2. CASE pc[t] \in InLine /\ (Passed(t, u) \/ t \in ahead[u])
    BY <2>1, <2>2 DEF Order
  <2>3. CASE pc[t] \in InLine /\ ~Passed(t, u) /\ Passed(t, u)'
    <3>1. v = t
      BY <1>1, <2>3, Frame DEF Passed
    <3> QED BY <1>1, <2>1, <2>3, <3>1, Passing
  <2>4. CASE t \notin ahead[u] /\ t \in ahead'[u]
    <3>1. Choose(u)
      <4>1. v = u
        BY <1>1, <2>4, Frame
      <4>2. pc[u] = "choose"
        <5>1. CASE Leave(u) BY <2>4, <5>1 DEF Leave, TypeOK
        <5>2. pc[u] = "leave" => Leave(u)
          BY <1>1, <4>1 DEF ThreadStep, LoopTest, Choose, Scan, Reread, ScanEnd, Ticket,
                Chosen, WaitChoosing, WaitTest, WaitLess, WaitTie, WaitEnd, CsStep, CsNext, At
        <5> QED BY <1>1, <2>4, <4>1, <5>1, <5>2, Ways
      <4> QED BY <1>1, <4>1, <4>2 DEF ThreadStep, LoopTest, Scan, Reread, ScanEnd, Ticket,
                Chosen, WaitChoosing, WaitTest, WaitLess, WaitTie, WaitEnd, CsStep, CsNext,
                Leave, At
    <3>2. pc'[u] = "scan" /\ i'[u] = 0 /\ 0 =< t
      BY <3>1 DEF Choose, Goto, TypeOK, Threads
    <3> QED BY <3>2 DEF WillFollow
  <2>5. CASE pc[t] \notin InLine /\ Passed(t, u)' /\ t \notin ahead'[u]
    <3>1. v = t
      BY <1>1, <2>5, Frame
    <3>2. Chosen(t)
      BY <1>1, <2>5, <3>1 DEF TypeOK, Labels, ThreadStep, LoopTest, Choose, Scan, Reread,
                ScanEnd, Ticket, WaitChoosing, WaitTest, WaitLess, WaitTie, WaitEnd, CsStep,
                CsNext, Leave, At, Goto
    <3>3. pc'[t] = "wait" /\ i'[t] = 0 /\ ~(u < 0)
      BY <3>2 DEF Chosen, Goto, TypeOK, Threads
    <3> QED BY <2>5, <3>3 DEF Passed
  <2>6. CASE pc[t] \notin InLine /\ t \in ahead[u]
    BY <2>6 DEF AheadInLine
  <2> QED BY <2>2, <2>3, <2>4, <2>5, <2>6
<1>2. CASE Spawn \/ Join \/ Tick \/ UNCHANGED vars
  BY <1>2, MainSteps DEF Order, WillFollow, Before, Passed
<1> QED BY <1>1, <1>2 DEF Next, Terminated

\* t starts to look at u when u is not choosing, and what it knows of u then stays
\* true while it looks.
LEMMA WatchedKept ==
    ASSUME TypeOK, InBounds, IInv, [Next]_vars
    PROVE  Watched'
<1> USE DEF IInv, TypeOK
<1>1. ASSUME NEW v \in Threads, ThreadStep(v)
      PROVE  Watched'
  <2> SUFFICES ASSUME NEW t \in Threads, NEW u \in Threads, t # u, pc'[t] \in Looking, i'[t] = u
               PROVE  /\ WillFollow(u, t)'
                      /\ pc'[t] = "tie" /\ pc'[u] \in Ticketed => number'[t] =< number'[u]
    BY DEF Watched
  <2>1. CASE v = t
    <3>1. pc'[u] = pc[u] /\ i'[u] = i[u] /\ max'[u] = max[u] /\ number'[u] = number[u]
      BY <1>1, <2>1, Frame
    <3>2. CASE WaitChoosing(t)
      <4>1. pc'[t] = "test" /\ choosing[u] # 1
        BY <3>2 DEF WaitChoosing, Goto
      <4>2. pc'[u] \notin Choosing
        BY <3>1, <4>1 DEF Flags
      <4> QED BY <4>1, <4>2 DEF WillFollow
    <3>3. CASE pc[t] \in Looking
      <4>1. i[t] = u /\ WillFollow(u, t)
        <5>1. CASE WaitTest(t) BY <5>1, <3>3 DEF WaitTest, NextOne, Goto, Watched
        <5>2. CASE WaitLess(t) BY <5>2, <3>3 DEF WaitLess, Watched
        <5>3. CASE WaitTie(t) BY <5>3, <3>3 DEF WaitTie, NextOne, Goto, Watched
        <5> QED BY <1>1, <2>1, <3>3, <5>1, <5>2, <5>3 DEF ThreadStep, LoopTest, Choose, Scan,
              Reread, ScanEnd, Ticket, Chosen, WaitChoosing, WaitEnd, CsStep, CsNext, Leave, At
      <4>2. WillFollow(u, t)'
        BY <1>1, <3>3, <4>1, StillFollows
      <4>3. CASE pc'[t] = "tie"
        <5>1. WaitLess(t)
          BY <1>1, <2>1, <3>3, <4>3 DEF ThreadStep, LoopTest, Choose, Scan, Reread, ScanEnd,
              Ticket, Chosen, WaitChoosing, WaitTest, WaitTie, NextOne, WaitEnd, CsStep,
              CsNext, Leave, At, Goto
        <5>2. ~(number[u] < number[t]) /\ number' = number
          BY <4>1, <4>3, <5>1 DEF WaitLess, Goto
        <5>3. number[t] =< number[u]
          BY <5>2
        <5> QED BY <4>2, <5>2, <5>3
      <4> QED BY <4>2, <4>3
    <3>4. pc[t] \in Looking \/ WaitChoosing(t)
      BY <1>1, <2>1 DEF Labels, ThreadStep, LoopTest, Choose, Scan, Reread, ScanEnd, Ticket,
              Chosen, WaitTest, WaitLess, WaitTie, WaitEnd, CsStep, CsNext, Leave, At, Goto
    <3> QED BY <3>2, <3>3, <3>4
  <2>2. CASE v # t
    <3>1. pc'[t] = pc[t] /\ i[t] = u
      BY <1>1, <2>2, Frame
    <3>2. WillFollow(u, t)
      BY <3>1 DEF Watched
    <3>3. WillFollow(u, t)'
      BY <1>1, <3>1, <3>2, StillFollows
    <3>4. ASSUME pc'[t] = "tie", pc'[u] \in Ticketed
          PROVE  number'[t] =< number'[u]
      <4>1. CASE pc[u] \in Ticketed
        <5>1. number'[u] = number[u] /\ number'[t] = number[t]
          BY <1>1, <3>1, <3>4, <4>1, TicketsKept
        <5> QED BY <3>1, <3>4, <4>1, <5>1 DEF Watched
      <4>2. CASE pc[u] \notin Ticketed
        <5>1. number[t] < number'[u] /\ number'[t] = number[t]
          BY <1>1, <3>1, <3>2, <3>4, <4>2, TicketFollows
        <5>2. number[t] \in Int /\ number'[u] \in Int
          BY <1>1, TypeKept
        <5> QED BY <5>1, <5>2
      <4> QED BY <4>1, <4>2
    <3> QED BY <3>3, <3>4
  <2> QED BY <2>1, <2>2
<1>2. CASE Spawn \/ Join \/ Tick \/ UNCHANGED vars
  BY <1>2, MainSteps DEF Watched, WillFollow
<1> QED BY <1>1, <1>2 DEF Next, Terminated

-----------------------------------------------------------------------------
(* The theorems.                                                             *)

\* The tickets are always in the order the waiting loop takes them to be in.
THEOREM Invariance == Spec => []IInv
<1>1. Init => IInv
  BY DEF Init, IInv, Unborn, Flags, Order, AheadInLine, Watched
<1>2. TypeOK /\ InBounds /\ IInv /\ [Next]_vars => IInv'
  BY UnbornKept, FlagsKept, AheadKept, OrderKept, WatchedKept DEF IInv
<1> QED BY <1>1, <1>2, TypeCorrect, PTL DEF Spec

\* Never two threads in the critical section: each of them would have passed the
\* other one, and each would be before the other one.
THEOREM Exclusion == Spec => []MutualExclusion
<1>1. TypeOK /\ IInv => MutualExclusion
  <2> SUFFICES ASSUME TypeOK, IInv, NEW t \in Threads, NEW u \in Threads,
                      pc[t] \in Critical, pc[u] \in Critical, t # u
               PROVE  FALSE
    BY DEF MutualExclusion
  <2>1. Before(t, u) /\ Before(u, t)
    BY DEF IInv, Order, Passed
  <2> QED BY <2>1, ThreadsInt DEF Before, TypeOK
<1> QED BY <1>1, TypeCorrect, Invariance, PTL

\* Nobody who had a ticket when a thread came is still there when it gets in.
THEOREM NoOvertaking == Spec => []FirstComeFirstServed
<1>1. TypeOK /\ IInv => FirstComeFirstServed
  <2> SUFFICES ASSUME TypeOK, IInv, NEW t \in Threads, pc[t] \in Critical,
                      NEW u \in ahead[t]
               PROVE  FALSE
    BY DEF FirstComeFirstServed
  <2>1. u \in Threads /\ u # t /\ pc[u] \in InLine
    BY DEF TypeOK, IInv, AheadInLine
  <2>2. Before(u, t)
    BY <2>1 DEF IInv, Order
  <2>3. Before(t, u)
    BY <2>1 DEF IInv, Order, Passed
  <2> QED BY <2>1, <2>2, <2>3, ThreadsInt DEF Before, TypeOK
<1> QED BY <1>1, TypeCorrect, Invariance, PTL

\* in_cs says where in the critical section the one thread is that has changed it.
Counter ==
    /\ \A t \in Threads : pc[t] \in {"cs1", "cs2", "cs3"} => in_cs = CsValue[pc[t]]
    /\ in_cs # 0 => \E t \in Threads : pc[t] \in {"cs1", "cs2", "cs3"}
    /\ main # "aborted"

\* None of the four asserts on in_cs ever fails.
THEOREM AssertsPass == Spec => [](main # "aborted")
<1>1. Init => Counter
  BY DEF Init, Counter
<1>2. TypeOK /\ InBounds /\ Unborn /\ MutualExclusion /\ Counter /\ [Next]_vars => Counter'
  <2> SUFFICES ASSUME TypeOK, InBounds, Unborn, MutualExclusion, Counter, [Next]_vars
               PROVE  Counter'
    OBVIOUS
  <2> USE DEF TypeOK
  <2>1. ASSUME NEW v \in Threads, CsStep(v)
        PROVE  Counter'
    <3>1. PICK l \in DOMAIN CsNext : CsStep(v)!(l)
      BY <2>1 DEF CsStep
    <3>2. l \in {"cs0", "cs1", "cs2", "cs3"} /\ pc[v] = l
      BY <3>1 DEF CsNext, At
    <3>3. \A u \in Threads \ {v} : pc[u] \notin Critical
      BY <3>2 DEF MutualExclusion
    <3>4. in_cs = CsValue[l]
      BY <3>2, <3>3 DEF Counter, CsValue
    <3>5. /\ in_cs' = (in_cs + 1) % 4 /\ main' = main
          /\ pc' = [pc EXCEPT ![v] = CsNext[l]]
      BY <3>1, <3>4 DEF Goto
    <3>6. \A u \in Threads \ {v} : pc'[u] \notin Critical
      BY <3>3, <3>5
    <3>7. pc'[v] = CsNext[l]
      BY <3>5
    <3>8. CASE l = "cs3"
      <4>1. in_cs' = 0 /\ pc'[v] = "leave"
        BY <3>4, <3>5, <3>7, <3>8 DEF CsValue, CsNext
      <4> QED BY <3>5, <3>6, <4>1 DEF Counter
    <3>9. CASE l \in {"cs0", "cs1", "cs2"}
      <4>1. pc'[v] \in {"cs1", "cs2", "cs3"} /\ in_cs' = CsValue[pc'[v]]
        BY <3>4, <3>5, <3>7, <3>9 DEF CsValue, CsNext
      <4> QED BY <3>5, <3>6, <4>1 DEF Counter
    <3> QED BY <3>2, <3>8, <3>9
  <2>2. ASSUME NEW v \in Threads, ThreadStep(v), ~CsStep(v)
        PROVE  Counter'
    <3>1. /\ in_cs' = in_cs /\ main' = main
          /\ pc[v] \notin {"cs1", "cs2", "cs3"} /\ pc'[v] \notin {"cs1", "cs2", "cs3"}
      BY <2>2 DEF ThreadStep, LoopTest, Choose, Scan, Reread, ScanEnd, Ticket, Chosen,
                  WaitChoosing, WaitTest, WaitLess, WaitTie, WaitEnd, Leave, NextOne, At,
                  Goto, mainVars
    <3> QED BY <2>2, <3>1, Frame DEF Counter
  <2>3. CASE Spawn \/ Join \/ Tick \/ UNCHANGED vars
    <3>1. in_cs' = in_cs /\ main' # "aborted"
      BY <2>3 DEF Counter, Spawn, Join, Tick, threadVars, vars
    <3> QED BY <2>3, <3>1, MainSteps DEF Counter
  <2> QED BY <2>1, <2>2, <2>3 DEF Next, Terminated
<1>3. IInv => Unborn
  BY DEF IInv
<1>4. Counter => main # "aborted"
  BY DEF Counter
<1> QED BY <1>1, <1>2, <1>3, <1>4, TypeCorrect, Invariance, Exclusion, PTL DEF Spec

-----------------------------------------------------------------------------
(* The bakery implements the lock of FairLock.                               *)

\* A step that leaves every thread where it is in the lock's eyes, and the lists, is none
\* of the lock's.
LEMMA LockSame ==
    ASSUME ahead' = ahead,
           \A t \in Threads : /\ pc'[t] \in Choosing <=> pc[t] \in Choosing
                              /\ pc'[t] \in InLine <=> pc[t] \in InLine
                              /\ pc'[t] \in Critical <=> pc[t] \in Critical
    PROVE  UNCHANGED Lock!vars
BY DEF Lock!vars

\* A step of a thread is a step of the lock, or none of its business.  The thread that
\* goes in finds nobody inside, and nobody left of those who were there before it.
LEMMA LockStep ==
    ASSUME TypeOK, InBounds, FirstComeFirstServed, MutualExclusion', FirstComeFirstServed',
           NEW v \in Threads, ThreadStep(v)
    PROVE  Lock!Next \/ UNCHANGED Lock!vars
<1> USE DEF TypeOK
<1>0. \A u \in Threads \ {v} : pc'[u] = pc[u]
  BY Frame
<1>1. CASE Choose(v)
  <2>1. /\ pc[v] = "choose" /\ pc'[v] = "scan"
        /\ ahead' = [ahead EXCEPT ![v] = {u \in Threads : pc[u] \in Waiting \cup Critical}]
    BY <1>1 DEF Choose, At, Goto
  <2>2. Lock!Come(v)
    BY <1>0, <2>1 DEF Lock!Come
  <2> QED BY <2>2 DEF Lock!Next
<1>2. CASE Chosen(v)
  <2>1. pc[v] = "chosen" /\ pc'[v] = "wait" /\ ahead' = ahead
    BY <1>2 DEF Chosen, At, Goto
  <2>2. Lock!Join(v)
    BY <1>0, <2>1 DEF Lock!Join
  <2> QED BY <2>2 DEF Lock!Next
<1>3. CASE WaitEnd(v)
  <2>1. pc[v] = "wait" /\ pc'[v] = "cs0" /\ ahead' = ahead
    BY <1>3 DEF WaitEnd, At, Goto
  <2>2. \A u \in Threads : pc[u] \notin Critical
    BY <1>0, <2>1 DEF MutualExclusion
  <2>3. ahead[v] = {}
    BY <2>1 DEF FirstComeFirstServed
  <2>4. Lock!Enter(v)
    BY <1>0, <2>1, <2>2, <2>3 DEF Lock!Enter
  <2> QED BY <2>4 DEF Lock!Next
<1>4. CASE Leave(v)
  <2>1. /\ pc[v] = "leave" /\ pc'[v] = "loop"
        /\ ahead' = [u \in Threads |-> IF u = v THEN {} ELSE ahead[u] \ {v}]
    BY <1>4 DEF Leave, At, Goto
  <2>2. ahead[v] = {}
    BY <2>1 DEF FirstComeFirstServed
  <2>3. ahead' = [u \in Threads |-> ahead[u] \ {v}]
    BY <2>1, <2>2
  <2>4. Lock!Leave(v)
    BY <1>0, <2>1, <2>3 DEF Lock!Leave
  <2> QED BY <2>4 DEF Lock!Next
<1>5. CASE ~(Choose(v) \/ Chosen(v) \/ WaitEnd(v) \/ Leave(v))
  <2>1. /\ ahead' = ahead
        /\ pc'[v] \in Choosing <=> pc[v] \in Choosing
        /\ pc'[v] \in InLine <=> pc[v] \in InLine
        /\ pc'[v] \in Critical <=> pc[v] \in Critical
    <3> USE DEF At, Goto
    <3>1. CASE LoopTest(v) \/ ScanEnd(v) \/ Ticket(v)
      BY <3>1 DEF LoopTest, ScanEnd, Ticket
    <3>2. CASE Scan(v) \/ Reread(v)
      BY <3>2 DEF Scan, Reread
    <3>3. CASE WaitChoosing(v) \/ WaitTest(v) \/ WaitLess(v) \/ WaitTie(v)
      BY <3>3 DEF WaitChoosing, WaitTest, WaitLess, WaitTie, NextOne
    <3>4. CASE CsStep(v)
      BY <3>4 DEF CsStep, CsNext
    <3> QED BY <1>5, <3>1, <3>2, <3>3, <3>4 DEF ThreadStep
  <2>2. \A t \in Threads : /\ pc'[t] \in Choosing <=> pc[t] \in Choosing
                           /\ pc'[t] \in InLine <=> pc[t] \in InLine
                           /\ pc'[t] \in Critical <=> pc[t] \in Critical
    BY <1>0, <2>1
  <2> QED BY <2>1, <2>2, LockSame
<1> QED BY <1>1, <1>2, <1>3, <1>4, <1>5

\* The bakery is a lock that serves first come, first served, at the grain of single reads
\* and writes of the arrays.
THEOREM LockRefinement == Spec => LockSpec
<1>1. Init => Lock!Init
  <2> SUFFICES ASSUME Init PROVE Lock!Init
    OBVIOUS
  <2>1. /\ \A t \in Threads : pc[t] = "new"
        /\ ahead = [t \in Threads |-> {}]
    BY DEF Init
  <2> QED BY <2>1 DEF Lock!Init
<1>2. TypeOK /\ InBounds /\ IInv /\ FirstComeFirstServed /\ (MutualExclusion /\ FirstComeFirstServed)'
      /\ [Next]_vars => [Lock!Next]_(Lock!vars)
  <2> SUFFICES ASSUME TypeOK, InBounds, IInv, FirstComeFirstServed, MutualExclusion',
                      FirstComeFirstServed', [Next]_vars
               PROVE  Lock!Next \/ UNCHANGED Lock!vars
    OBVIOUS
  <2>1. ASSUME NEW v \in Threads, ThreadStep(v)
        PROVE  Lock!Next \/ UNCHANGED Lock!vars
    BY <2>1, LockStep
  <2>2. CASE Spawn \/ Join \/ Tick \/ UNCHANGED vars
    <3>1. ahead' = ahead /\ \A t \in Threads : pc'[t] = pc[t] \/ (pc[t] = "new" /\ pc'[t] = "loop")
      BY <2>2, MainSteps DEF IInv
    <3>2. \A t \in Threads : /\ pc'[t] \in Choosing <=> pc[t] \in Choosing
                             /\ pc'[t] \in InLine <=> pc[t] \in InLine
                             /\ pc'[t] \in Critical <=> pc[t] \in Critical
      BY <3>1
    <3> QED BY <3>1, <3>2, LockSame
  <2> QED BY <2>1, <2>2 DEF Next, Terminated
<1> QED BY <1>1, <1>2, TypeCorrect, Invariance, Exclusion, NoOvertaking, PTL
       DEF Spec, LockSpec, Lock!Spec

-----------------------------------------------------------------------------
(* The size of the tickets.                                                  *)

\* Neither a ticket nor the largest one a thread has read is larger than the number of
\* tickets taken.
TicketsInv ==
    /\ IsFiniteSet(TicketsTaken)
    /\ \A t \in Threads : /\ number[t] =< Cardinality(TicketsTaken)
                          /\ max[t] =< Cardinality(TicketsTaken)

\* A step takes no ticket, or it takes one that was not taken before.
LEMMA TakenSteps ==
    ASSUME TypeOK, InBounds, NEW v \in Threads, ThreadStep(v)
    PROVE  /\ ~Ticket(v) => TicketsTaken' = TicketsTaken
           /\ Ticket(v) => \E e : e \notin TicketsTaken /\ TicketsTaken' = TicketsTaken \cup {e}
<1> USE DEF TypeOK
<1>1. ASSUME NEW u \in Threads \ {v}
      PROVE  Taken(u)' = Taken(u)
  <2>1. pc'[u] = pc[u]
    BY Frame
  <2>2. iterations'[u] = iterations[u]
    BY DEF ThreadStep, LoopTest, Choose, Scan, Reread, ScanEnd, Ticket, Chosen, WaitChoosing,
           WaitTest, WaitLess, WaitTie, WaitEnd, CsStep, Leave
  <2> QED BY <2>1, <2>2 DEF Taken
<1>2. CASE ~Ticket(v)
  <2>1. Taken(v)' = Taken(v)
    <3> USE DEF Taken, At, Goto
    <3>1. CASE LoopTest(v) BY <3>1 DEF LoopTest
    <3>2. CASE Choose(v) BY <3>2 DEF Choose
    <3>3. CASE Scan(v) \/ Reread(v) \/ ScanEnd(v) BY <3>3 DEF Scan, Reread, ScanEnd
    <3>4. CASE Chosen(v) BY <3>4 DEF Chosen
    <3>5. CASE WaitChoosing(v) \/ WaitTest(v) \/ WaitLess(v) \/ WaitTie(v)
      BY <3>5 DEF WaitChoosing, WaitTest, WaitLess, WaitTie, NextOne
    <3>6. CASE WaitEnd(v) BY <3>6 DEF WaitEnd
    <3>7. CASE CsStep(v) BY <3>7 DEF CsStep, CsNext
    <3>8. CASE Leave(v) BY <3>8 DEF Leave
    <3> QED BY <1>2, <3>1, <3>2, <3>3, <3>4, <3>5, <3>6, <3>7, <3>8 DEF ThreadStep
  <2>2. \A t \in Threads : {t} \X (1 .. Taken(t)') = {t} \X (1 .. Taken(t))
    BY <1>1, <2>1
  <2> QED BY <1>2, <2>2 DEF TicketsTaken
<1>3. CASE Ticket(v)
  <2>1. /\ Taken(v) = iterations[v] /\ Taken(v)' = iterations[v] + 1 /\ iterations[v] \in Nat
    BY <1>3 DEF Ticket, Taken, At, Goto
  <2>2. PICK n \in Nat : n = Taken(v)
    BY <2>1
  <2>3. <<v, n + 1>> \notin TicketsTaken
    <3>1. ~(n + 1 \in 1 .. n)
      BY <2>2
    <3> QED BY <2>2, <3>1 DEF TicketsTaken
  <2>4. 1 .. n + 1 = (1 .. n) \cup {n + 1}
    BY <2>2
  <2>5. {v} \X (1 .. Taken(v)') = ({v} \X (1 .. Taken(v))) \cup {<<v, n + 1>>}
    BY <2>1, <2>2, <2>4
  <2>6. \A u \in Threads \ {v} : {u} \X (1 .. Taken(u)') = {u} \X (1 .. Taken(u))
    BY <1>1
  <2>7. TicketsTaken' = TicketsTaken \cup {<<v, n + 1>>}
    <3>1. ASSUME NEW e \in TicketsTaken'
          PROVE  e \in TicketsTaken \cup {<<v, n + 1>>}
      <4>1. PICK u \in Threads : e \in {u} \X (1 .. Taken(u)')
        BY <3>1 DEF TicketsTaken
      <4> QED BY <2>5, <2>6, <4>1 DEF TicketsTaken
    <3>2. ASSUME NEW e \in TicketsTaken \cup {<<v, n + 1>>}
          PROVE  e \in TicketsTaken'
      <4>1. PICK u \in Threads : e \in ({u} \X (1 .. Taken(u))) \cup {<<v, n + 1>>}
        BY <3>2 DEF TicketsTaken
      <4> QED BY <2>5, <2>6, <4>1 DEF TicketsTaken
    <3> QED BY <3>1, <3>2
  <2> QED BY <1>3, <2>3, <2>7
<1> QED BY <1>2, <1>3

\* max + 1 is not too large: one more ticket has been taken with it.
LEMMA SizesKept ==
    ASSUME TypeOK, InBounds, Unborn, TicketsInv, [Next]_vars
    PROVE  TicketsInv'
<1> USE DEF TypeOK
<1>1. PICK c \in Nat : c = Cardinality(TicketsTaken)
  BY FS_CardinalityType DEF TicketsInv
<1>2. ASSUME NEW v \in Threads, ThreadStep(v), ~Ticket(v)
      PROVE  TicketsInv'
  <2>1. TicketsTaken' = TicketsTaken
    BY <1>2, TakenSteps
  <2>2. ASSUME NEW t \in Threads
        PROVE  number'[t] =< c /\ max'[t] =< c
    <3>1. number[t] =< c /\ max[t] =< c
      BY <1>1 DEF TicketsInv
    <3>2. CASE t # v BY <1>2, <3>1, <3>2, Frame
    <3>3. CASE t = v
      <4>1. number'[t] = number[t] \/ number'[t] = 0
        BY <1>2, <3>3 DEF ThreadStep, LoopTest, Choose, Scan, Reread, ScanEnd, Chosen,
             WaitChoosing, WaitTest, WaitLess, WaitTie, WaitEnd, CsStep, Leave
      <4>2. max'[t] = max[t] \/ max'[t] = 0 \/ (i[t] \in Threads /\ max'[t] = number[i[t]])
        <5>1. CASE Choose(v) BY <3>3, <5>1 DEF Choose
        <5>2. CASE Reread(v) BY <3>3, <5>2 DEF Reread, At, InBounds
        <5> QED BY <1>2, <5>1, <5>2 DEF ThreadStep, LoopTest, Scan, ScanEnd, Chosen,
             WaitChoosing, WaitTest, WaitLess, WaitTie, WaitEnd, CsStep, Leave
      <4>3. \A u \in Threads : number[u] =< c
        BY <1>1 DEF TicketsInv
      <4> QED BY <3>1, <4>1, <4>2, <4>3
    <3> QED BY <3>2, <3>3
  <2> QED BY <1>1, <2>1, <2>2 DEF TicketsInv
<1>3. ASSUME NEW v \in Threads, Ticket(v)
      PROVE  TicketsInv'
  <2>1. ThreadStep(v)
    BY <1>3 DEF ThreadStep
  <2>2. PICK e : e \notin TicketsTaken /\ TicketsTaken' = TicketsTaken \cup {e}
    BY <1>3, <2>1, TakenSteps
  <2>3. IsFiniteSet(TicketsTaken') /\ Cardinality(TicketsTaken') = c + 1
    BY <1>1, <2>2, FS_AddElement DEF TicketsInv
  <2>4. ASSUME NEW t \in Threads
        PROVE  number'[t] =< c + 1 /\ max'[t] =< c + 1
    <3>1. number[t] =< c /\ max[t] =< c /\ number[t] \in Nat /\ max[t] \in Nat
      BY <1>1 DEF TicketsInv
    <3>2. max'[t] = max[t] /\ number'[t] = IF t = v THEN max[t] + 1 ELSE number[t]
      BY <1>3 DEF Ticket
    <3> QED BY <3>1, <3>2
  <2> QED BY <2>3, <2>4 DEF TicketsInv
<1>4. CASE Spawn \/ Join \/ Tick \/ UNCHANGED vars
  <2>1. UNCHANGED <<number, max>> /\ \A t \in Threads : pc'[t] = pc[t] \/ (pc[t] = "new" /\ pc'[t] = "loop")
    BY <1>4, MainSteps
  <2>2. iterations' = iterations
    BY <1>4 DEF Spawn, Join, Tick, threadVars, vars
  <2>3. \A t \in Threads : Taken(t)' = Taken(t)
    BY <2>1, <2>2 DEF Taken
  <2>4. TicketsTaken' = TicketsTaken
    BY <2>3 DEF TicketsTaken
  <2> QED BY <2>1, <2>4 DEF TicketsInv
<1> QED BY <1>2, <1>3, <1>4 DEF Next, Terminated

\* No ticket is ever larger than the number of tickets taken since the program started.
THEOREM TicketsBoundedTheorem == Spec => []TicketsBounded
<1>1. Init => TicketsInv
  <2> SUFFICES ASSUME Init PROVE TicketsInv
    OBVIOUS
  <2>1. \A t \in Threads : Taken(t) = 0 /\ number[t] = 0 /\ max[t] = 0
    BY DEF Init, Taken
  <2>2. \A t \in Threads : {t} \X (1 .. Taken(t)) = {}
    BY <2>1
  <2>3. TicketsTaken = {}
    BY <2>2 DEF TicketsTaken
  <2> QED BY <2>1, <2>3, FS_EmptySet DEF TicketsInv
<1>2. TypeOK /\ InBounds /\ Unborn /\ TicketsInv /\ [Next]_vars => TicketsInv'
  BY SizesKept
<1>3. IInv => Unborn
  BY DEF IInv
<1>4. TicketsInv => TicketsBounded
  BY DEF TicketsInv, TicketsBounded
<1> QED BY <1>1, <1>2, <1>3, <1>4, TypeCorrect, Invariance, PTL DEF Spec
=============================================================================
