---------------------------- MODULE PetStore_proofs ----------------------------
(* Proofs about PetStore for every number of animals, every bound and every    *)
(* set of library calls that fail, where a theorem does not say otherwise.     *)
EXTENDS PetStore, FiniteSetTheorems, TLAPS

\* No counter is touched by a thread that was not counted: the calls that fail
\* do not include pthread_mutex_lock.
NoLockFault == "lock" \notin FaultyCalls

\* Where a thread is between its ++ and its --.
OutLabels == {"entered", "play", "pair", "exit", "dec"}

\* Where a thread holds the mutex.
HoldLabels == {"check", "count", "entered", "dec", "left"}

Out(s) == {t \in inside : Type(t) = s}

LEMMA SpeciesType == \A t \in Threads : Type(t) \in Species
BY DEF Type, Species

LEMMA NumAnimalsNat == numAnimals \in Nat
BY CountsAssumption DEF numAnimals

LEMMA NoThreadIsNone == NoThread \notin Threads
BY NumAnimalsNat DEF NoThread, Threads

-----------------------------------------------------------------------------
(* Type correctness.                                                         *)

\* The variables always hold values of their types: main never runs past the
\* threads, whichever calls fail.
THEOREM TypeCorrect == Spec => []TypeOK
<1> USE CountsAssumption, FaultsAssumption, BoundsAssumption, SpeciesType, NumAnimalsNat
<1>1. Init => TypeOK
  <2> SUFFICES ASSUME Init PROVE TypeOK
    OBVIOUS
  <2>1. lock \in Threads \cup {NoThread} BY DEF Init
  <2>2. playing \in [Species -> Int] BY DEF Init
  <2>3. pc \in [Threads -> Labels] BY DEF Init, Labels
  <2>4. playTime \in [Threads -> Nat] BY DEF Init
  <2>5. total \in [Species -> Int] BY DEF Init
  <2>6. i \in 0..numAnimals BY DEF Init
  <2>7. spurious \in 0..MaxSpurious BY DEF Init
  <2> QED BY <2>1, <2>2, <2>3, <2>4, <2>5, <2>6, <2>7 DEF Init, TypeOK
<1>2. TypeOK /\ [Next]_vars => TypeOK'
  <2> SUFFICES ASSUME TypeOK, [Next]_vars
               PROVE  TypeOK'
    OBVIOUS
  <2> USE DEF TypeOK, Labels, Over, Goto, At, mainVars
  <2>1. ASSUME NEW t \in Threads, ThreadStep(t)
        PROVE  TypeOK'
    <3>1. CASE EnterLock(t) BY <3>1 DEF EnterLock
    <3>2. CASE EnterWait(t) BY <3>2 DEF EnterWait
    <3>3. CASE EnterClear(t) BY <3>3 DEF EnterClear
    <3>4. CASE EnterCount(t) BY <3>4 DEF EnterCount
    <3>5. CASE EnterUnlock(t) BY <3>5 DEF EnterUnlock
    <3>6. CASE Relock(t) BY <3>6 DEF Relock
    <3>7. CASE ExitLock(t) BY <3>7 DEF ExitLock
    <3>8. CASE ExitCount(t) BY <3>8 DEF ExitCount
    <3>9. CASE ExitUnlock(t) BY <3>9 DEF ExitUnlock
    <3>10. CASE ExitSignal(t) BY <3>10 DEF ExitSignal, Broadcast
    <3>11. CASE ExitSignalDogs(t) BY <3>11 DEF ExitSignalDogs, Broadcast
    <3>12. CASE LoopTest(t) BY <3>12 DEF LoopTest
    <3>13. CASE PlayRead(t) BY <3>13 DEF PlayRead
    <3>14. CASE PlayPair(t) BY <3>14 DEF PlayPair
    <3>15. CASE AssertFails(t) BY <3>15 DEF AssertFails
    <3> QED BY <2>1, <3>1, <3>2, <3>3, <3>4, <3>5, <3>6, <3>7, <3>8, <3>9, <3>10,
               <3>11, <3>12, <3>13, <3>14, <3>15 DEF ThreadStep
  <2>2. ASSUME NEW t \in Threads, SpuriousWakeup(t)
        PROVE  TypeOK'
    BY <2>2 DEF SpuriousWakeup
  <2>3. CASE MainInit BY <2>3 DEF MainInit
  <2>4. CASE MainSpawn BY <2>4 DEF MainSpawn
  <2>5. CASE MainSpawned BY <2>5 DEF MainSpawned
  <2>6. CASE MainJoin
    <3>1. i \in Threads /\ i' \in 0 .. numAnimals
      BY <2>6 DEF MainJoin, Threads
    <3>2. playTime[i] \in Int
      BY <3>1
    <3>3. Joined(i) \subseteq Int
      BY <3>2, FaultsAssumption DEF Joined
    <3> QED BY <2>6, <3>1, <3>3 DEF MainJoin
  <2>7. CASE MainPrint BY <2>7 DEF MainPrint
  <2>8. CASE Tick BY <2>8 DEF Tick
  <2>9. CASE UNCHANGED vars BY <2>9 DEF vars
  <2> QED BY <2>1, <2>2, <2>3, <2>4, <2>5, <2>6, <2>7, <2>8, <2>9
          DEF Next, MainStep, Terminated
<1> QED BY <1>1, <1>2, PTL DEF Spec
-----------------------------------------------------------------------------
(* The threads main has not created yet do nothing.                          *)

Unborn == main \in {"init", "spawn"} => \A t \in Threads : t >= i => pc[t] = "new"

\* main creates thread i when it gets there and not before.
LEMMA UnbornInvariant == Spec => []Unborn
<1>1. Init => Unborn
  BY DEF Init, Unborn
<1>2. TypeOK /\ Unborn /\ [Next]_vars => Unborn'
  <2> SUFFICES ASSUME TypeOK, Unborn, [Next]_vars
               PROVE  Unborn'
    OBVIOUS
  <2>1. ASSUME NEW t \in Threads, ThreadStep(t) \/ SpuriousWakeup(t)
        PROVE  Unborn'
    <3>1. \A u \in Threads : pc[u] = "new" => pc'[u] = "new"
      BY <2>1 DEF ThreadStep, EnterLock, EnterWait, EnterClear, EnterCount, EnterUnlock,
                  Relock, ExitLock, ExitCount, ExitUnlock, ExitSignal, ExitSignalDogs,
                  LoopTest, PlayRead, PlayPair, AssertFails, SpuriousWakeup,
                  Goto, At, Broadcast, TypeOK, Labels
    <3>2. i' = i /\ (main' = main \/ main' = "aborted")
      BY <2>1 DEF ThreadStep, EnterLock, EnterWait, EnterClear, EnterCount, EnterUnlock,
                  Relock, ExitLock, ExitCount, ExitUnlock, ExitSignal, ExitSignalDogs,
                  LoopTest, PlayRead, PlayPair, AssertFails, SpuriousWakeup, mainVars
    <3> QED BY <3>1, <3>2 DEF Unborn
  <2>2. CASE MainInit BY <2>2 DEF MainInit, Unborn
  <2>3. CASE MainSpawn
    <3>1. i \in Int /\ Threads \subseteq Int
      BY NumAnimalsNat DEF TypeOK, Threads
    <3> QED BY <2>3, <3>1 DEF MainSpawn, Unborn, Goto, TypeOK
  <2>4. CASE MainSpawned BY <2>4 DEF MainSpawned, Unborn
  <2>5. CASE MainJoin BY <2>5 DEF MainJoin, Unborn
  <2>6. CASE MainPrint BY <2>6 DEF MainPrint, Unborn
  <2>7. CASE Tick BY <2>7 DEF Tick, Unborn
  <2>8. CASE UNCHANGED vars BY <2>8 DEF vars, Unborn
  <2> QED BY <2>1, <2>2, <2>3, <2>4, <2>5, <2>6, <2>7, <2>8
          DEF Next, MainStep, Terminated
<1> QED BY <1>1, <1>2, TypeCorrect, PTL DEF Spec

-----------------------------------------------------------------------------
(* No lost wake-up.                                                          *)

OwingLabels == {"left", "signal", "signal2", "failed"}

\* A step of a thread that owes nobody, and that does not fall asleep, leaves
\* every sleeper with its reason to sleep: the counters do not change.
LEMMA QuietStep ==
    ASSUME TypeOK, NoLostWakeup, NEW t \in Threads, NEW l \in Labels \ {"wait"},
           pc[t] \notin OwingLabels, Goto(t, l), UNCHANGED playing
    PROVE  NoLostWakeup'
<1> SUFFICES ASSUME NEW w \in Threads, pc'[w] = "wait"
             PROVE  ~Clear(Type(w))' \/ \E u \in Threads : Owes(u, Type(w))'
  BY DEF NoLostWakeup
<1>1. pc[w] = "wait"
  BY DEF Goto, TypeOK
<1>2. CASE ~Clear(Type(w))
  BY <1>2 DEF Clear
<1>3. ASSUME NEW u \in Threads, Owes(u, Type(w))
      PROVE  Owes(u, Type(w))'
  BY <1>3 DEF Owes, Goto, TypeOK, OwingLabels
<1> QED BY <1>1, <1>2, <1>3 DEF NoLostWakeup

\* A step that changes neither the counters nor a label.
LEMMA SameStep ==
    ASSUME NoLostWakeup, UNCHANGED <<pc, playing>>
    PROVE  NoLostWakeup'
BY DEF NoLostWakeup, Clear, Owes

\* The broadcasts come after the unlock, and in between other threads may do
\* anything: for every number of animals and whatever calls fail, an animal
\* sleeps only while a rival is out, or its wake-up is under way, or a call has
\* failed.
THEOREM NoLostWakeupTheorem == Spec => []NoLostWakeup
<1>1. Init => NoLostWakeup
  BY DEF Init, NoLostWakeup
<1>2. TypeOK /\ Unborn /\ NoLostWakeup /\ [Next]_vars => NoLostWakeup'
  <2> SUFFICES ASSUME TypeOK, Unborn, NoLostWakeup, [Next]_vars
               PROVE  NoLostWakeup'
    OBVIOUS
  <2> USE DEF Labels, OwingLabels, At
  <2>1. ASSUME NEW t \in Threads, ThreadStep(t)
        PROVE  NoLostWakeup'
    <3>1. CASE EnterLock(t) BY <3>1, QuietStep DEF EnterLock
    <3>2. CASE EnterWait(t)
      <4> SUFFICES ASSUME NEW w \in Threads, pc'[w] = "wait"
                   PROVE  ~Clear(Type(w))' \/ \E u \in Threads : Owes(u, Type(w))'
        BY DEF NoLostWakeup
      <4>1. CASE w = t
        BY <3>2, <4>1 DEF EnterWait, Clear
      <4>2. CASE w # t
        <5>1. pc[w] = "wait"
          BY <3>2, <4>2 DEF EnterWait, Goto, TypeOK
        <5>2. CASE ~Clear(Type(w))
          BY <3>2, <5>2 DEF EnterWait, Clear
        <5>3. ASSUME NEW u \in Threads, Owes(u, Type(w))
              PROVE  Owes(u, Type(w))'
          BY <3>2, <5>3 DEF EnterWait, Owes, Goto, TypeOK
        <5> QED BY <5>1, <5>2, <5>3 DEF NoLostWakeup
      <4> QED BY <4>1, <4>2
    <3>3. CASE EnterClear(t) BY <3>3, QuietStep DEF EnterClear
    <3>4. CASE EnterCount(t)
      <4> SUFFICES ASSUME NEW w \in Threads, pc'[w] = "wait"
                   PROVE  ~Clear(Type(w))' \/ \E u \in Threads : Owes(u, Type(w))'
        BY DEF NoLostWakeup
      <4>1. pc[w] = "wait"
        BY <3>4 DEF EnterCount, Goto, TypeOK
      <4>2. CASE ~Clear(Type(w))
        <5>1. PICK r \in Rivals(Type(w)) : playing[r] > 0
          BY <4>2 DEF Clear
        <5>2. r \in Species
          BY DEF Rivals, Species
        <5>3. playing'[r] > 0
          BY <3>4, <5>1, <5>2, SpeciesType DEF EnterCount, TypeOK
        <5> QED BY <5>3 DEF Clear
      <4>3. ASSUME NEW u \in Threads, Owes(u, Type(w))
            PROVE  Owes(u, Type(w))'
        BY <3>4, <4>3 DEF EnterCount, Owes, Goto, TypeOK
      <4> QED BY <4>1, <4>2, <4>3 DEF NoLostWakeup
    <3>5. CASE EnterUnlock(t) BY <3>5, QuietStep DEF EnterUnlock
    <3>6. CASE Relock(t) BY <3>6, QuietStep DEF Relock
    <3>7. CASE ExitLock(t) BY <3>7, QuietStep DEF ExitLock
    <3>8. CASE ExitCount(t)
      <4> SUFFICES ASSUME NEW w \in Threads, pc'[w] = "wait"
                   PROVE  ~Clear(Type(w))' \/ \E u \in Threads : Owes(u, Type(w))'
        BY DEF NoLostWakeup
      <4>1. pc[w] = "wait"
        BY <3>8 DEF ExitCount, Goto, TypeOK
      <4>2. CASE Type(t) \in Rivals(Type(w))
        <5>1. Owes(t, Type(w))'
          BY <3>8, <4>2 DEF ExitCount, Owes, Goto, TypeOK
        <5> QED BY <5>1
      <4>3. CASE Type(t) \notin Rivals(Type(w)) /\ ~Clear(Type(w))
        <5>1. \A r \in Rivals(Type(w)) : playing'[r] = playing[r]
          BY <3>8, <4>3 DEF ExitCount, TypeOK, Rivals, Species
        <5> QED BY <4>3, <5>1 DEF Clear
      <4>4. ASSUME NEW u \in Threads, Owes(u, Type(w))
            PROVE  Owes(u, Type(w))'
        BY <3>8, <4>4 DEF ExitCount, Owes, Goto, TypeOK
      <4> QED BY <4>1, <4>2, <4>3, <4>4 DEF NoLostWakeup
    <3>9. CASE ExitUnlock(t)
      <4> SUFFICES ASSUME NEW w \in Threads, pc'[w] = "wait"
                   PROVE  ~Clear(Type(w))' \/ \E u \in Threads : Owes(u, Type(w))'
        BY DEF NoLostWakeup
      <4>1. pc[w] = "wait" /\ (Clear(Type(w))' <=> Clear(Type(w)))
        BY <3>9 DEF ExitUnlock, Goto, TypeOK, Clear
      <4>2. ASSUME NEW u \in Threads, Owes(u, Type(w))
            PROVE  Owes(u, Type(w))'
        BY <3>9, <4>2 DEF ExitUnlock, Owes, Goto, TypeOK
      <4> QED BY <4>1, <4>2 DEF NoLostWakeup
    <3>10. CASE ExitSignal(t)
      <4> SUFFICES ASSUME NEW w \in Threads, pc'[w] = "wait"
                   PROVE  ~Clear(Type(w))' \/ \E u \in Threads : Owes(u, Type(w))'
        BY DEF NoLostWakeup
      <4>1. pc[w] = "wait" /\ (Clear(Type(w))' <=> Clear(Type(w)))
        BY <3>10 DEF ExitSignal, Broadcast, Goto, TypeOK, Clear
      <4>2. ASSUME NEW u \in Threads, Owes(u, Type(w))
            PROVE  Owes(u, Type(w))'
        <5>1. CASE u # t
          BY <3>10, <4>2, <5>1 DEF ExitSignal, Broadcast, Owes, Goto, TypeOK
        <5>2. CASE u = t /\ pc'[t] = "failed"
          BY <5>2 DEF Owes
        <5>3. CASE u = t /\ pc'[t] # "failed" /\ Type(t) = CAT
          <6>1. Type(w) # BIRD /\ pc'[t] = "signal2"
            BY <3>10, <5>3 DEF ExitSignal, Broadcast, FirstSignal, Goto, TypeOK
          <6>2. CAT \in Rivals(Type(w))
            BY <3>10, <4>2, <5>3 DEF ExitSignal, Owes
          <6>3. Type(w) = DOG
            BY <6>1, <6>2, SpeciesType DEF Rivals, Species, CAT, DOG, BIRD
          <6> QED BY <5>3, <6>1, <6>3 DEF Owes
        <5>4. CASE u = t /\ pc'[t] # "failed" /\ Type(t) # CAT
          <6>1. Type(w) # CAT
            BY <3>10, <5>4 DEF ExitSignal, Broadcast, FirstSignal, Goto, TypeOK
          <6>2. Type(t) \in Rivals(Type(w))
            BY <3>10, <4>2, <5>4 DEF ExitSignal, Owes
          <6> QED BY <5>4, <6>1, <6>2 DEF Rivals
        <5> QED BY <5>1, <5>2, <5>3, <5>4
      <4> QED BY <4>1, <4>2 DEF NoLostWakeup
    <3>11. CASE ExitSignalDogs(t)
      <4> SUFFICES ASSUME NEW w \in Threads, pc'[w] = "wait"
                   PROVE  ~Clear(Type(w))' \/ \E u \in Threads : Owes(u, Type(w))'
        BY DEF NoLostWakeup
      <4>1. pc[w] = "wait" /\ (Clear(Type(w))' <=> Clear(Type(w)))
        BY <3>11 DEF ExitSignalDogs, Broadcast, Goto, TypeOK, Clear
      <4>2. ASSUME NEW u \in Threads, Owes(u, Type(w))
            PROVE  Owes(u, Type(w))'
        <5>1. CASE u # t
          BY <3>11, <4>2, <5>1 DEF ExitSignalDogs, Broadcast, Owes, Goto, TypeOK
        <5>2. CASE u = t /\ pc'[t] = "failed"
          BY <5>2 DEF Owes
        <5>3. CASE u = t /\ pc'[t] # "failed"
          <6>1. Type(w) # DOG
            BY <3>11, <5>3 DEF ExitSignalDogs, Broadcast, Goto, TypeOK
          <6> QED BY <3>11, <4>2, <5>3, <6>1 DEF ExitSignalDogs, Owes
        <5> QED BY <5>1, <5>2, <5>3
      <4> QED BY <4>1, <4>2 DEF NoLostWakeup
    <3>12. CASE LoopTest(t) BY <3>12, QuietStep DEF LoopTest
    <3>13. CASE PlayRead(t) BY <3>13, QuietStep DEF PlayRead
    <3>14. CASE PlayPair(t) BY <3>14, QuietStep DEF PlayPair
    <3>15. CASE AssertFails(t) BY <3>15, SameStep DEF AssertFails
    <3> QED BY <2>1, <3>1, <3>2, <3>3, <3>4, <3>5, <3>6, <3>7, <3>8, <3>9, <3>10,
               <3>11, <3>12, <3>13, <3>14, <3>15 DEF ThreadStep
  <2>2. ASSUME NEW t \in Threads, SpuriousWakeup(t)
        PROVE  NoLostWakeup'
    BY <2>2, QuietStep DEF SpuriousWakeup
  <2>3. CASE MainInit BY <2>3, SameStep DEF MainInit
  <2>4. CASE MainSpawn
    <3>1. CASE UNCHANGED pc BY <2>4, <3>1, SameStep DEF MainSpawn
    <3>2. CASE Goto(i, "loop")
      <4> SUFFICES ASSUME NEW w \in Threads, pc'[w] = "wait"
                   PROVE  ~Clear(Type(w))' \/ \E u \in Threads : Owes(u, Type(w))'
        BY DEF NoLostWakeup
      <4>1. pc[w] = "wait" /\ (Clear(Type(w))' <=> Clear(Type(w)))
        BY <2>4, <3>2 DEF MainSpawn, Goto, TypeOK, Clear
      <4>2. ASSUME NEW u \in Threads, Owes(u, Type(w))
            PROVE  u # i => Owes(u, Type(w))'
        BY <3>2, <4>2 DEF Goto, Owes, TypeOK
      <4>3. pc[i] = "new"
        BY <2>4, NumAnimalsNat DEF MainSpawn, Unborn, TypeOK, Threads
      <4> QED BY <4>1, <4>2, <4>3 DEF NoLostWakeup, Owes
    <3> QED BY <2>4, <3>1, <3>2 DEF MainSpawn
  <2>5. CASE MainSpawned BY <2>5, SameStep DEF MainSpawned
  <2>6. CASE MainJoin BY <2>6, SameStep DEF MainJoin
  <2>7. CASE MainPrint BY <2>7, SameStep DEF MainPrint
  <2>8. CASE Tick BY <2>8, SameStep DEF Tick
  <2>9. CASE UNCHANGED vars BY <2>9, SameStep DEF vars
  <2> QED BY <2>1, <2>2, <2>3, <2>4, <2>5, <2>6, <2>7, <2>8, <2>9
          DEF Next, MainStep, Terminated
<1> QED BY <1>1, <1>2, TypeCorrect, UnbornInvariant, PTL DEF Spec

-----------------------------------------------------------------------------
(* The mutex.                                                                *)

\* A thread at a label of the critical sections holds the mutex.
HoldInv == \A t \in Threads : pc[t] \in HoldLabels => lock = t

\* The error paths keep the mutex or never take it, but no thread gets into a
\* critical section without it.
LEMMA HoldInvariant == Spec => []HoldInv
<1>1. Init => HoldInv
  BY DEF Init, HoldInv, HoldLabels
<1>2. TypeOK /\ HoldInv /\ [Next]_vars => HoldInv'
  <2> SUFFICES ASSUME TypeOK, HoldInv, [Next]_vars
               PROVE  HoldInv'
    OBVIOUS
  <2> USE DEF HoldInv, HoldLabels, At, Goto, TypeOK, Labels
  <2>1. ASSUME NEW t \in Threads, ThreadStep(t)
        PROVE  HoldInv'
    <3> USE NoThreadIsNone
    <3>1. CASE EnterLock(t) BY <3>1 DEF EnterLock
    <3>2. CASE EnterWait(t) BY <3>2 DEF EnterWait
    <3>3. CASE EnterClear(t) BY <3>3 DEF EnterClear
    <3>4. CASE EnterCount(t) BY <3>4 DEF EnterCount
    <3>5. CASE EnterUnlock(t) BY <3>5 DEF EnterUnlock
    <3>6. CASE Relock(t) BY <3>6 DEF Relock
    <3>7. CASE ExitLock(t) BY <3>7 DEF ExitLock
    <3>8. CASE ExitCount(t) BY <3>8 DEF ExitCount
    <3>9. CASE ExitUnlock(t) BY <3>9 DEF ExitUnlock
    <3>10. CASE ExitSignal(t) BY <3>10 DEF ExitSignal, Broadcast
    <3>11. CASE ExitSignalDogs(t) BY <3>11 DEF ExitSignalDogs, Broadcast
    <3>12. CASE LoopTest(t) BY <3>12 DEF LoopTest
    <3>13. CASE PlayRead(t) BY <3>13 DEF PlayRead
    <3>14. CASE PlayPair(t) BY <3>14 DEF PlayPair
    <3>15. CASE AssertFails(t) BY <3>15 DEF AssertFails
    <3> QED BY <2>1, <3>1, <3>2, <3>3, <3>4, <3>5, <3>6, <3>7, <3>8, <3>9, <3>10,
               <3>11, <3>12, <3>13, <3>14, <3>15 DEF ThreadStep
  <2>2. ASSUME NEW t \in Threads, SpuriousWakeup(t)
        PROVE  HoldInv'
    BY <2>2 DEF SpuriousWakeup
  <2>3. CASE MainStep
    BY <2>3 DEF MainStep, MainInit, MainSpawn, MainSpawned, MainJoin, MainPrint
  <2>4. CASE Tick BY <2>4 DEF Tick
  <2>5. CASE UNCHANGED vars BY <2>5 DEF vars
  <2> QED BY <2>1, <2>2, <2>3, <2>4, <2>5 DEF Next, Terminated
<1> QED BY <1>1, <1>2, TypeCorrect, PTL DEF Spec

-----------------------------------------------------------------------------
(* Who is out.                                                               *)

\* The threads that were counted are those at the labels between ++ and --.
InsideInv == \A t \in Threads : t \in inside <=> pc[t] \in OutLabels

\* A thread gets to play() only through its ++, if locking the mutex never fails.
LEMMA InsideInvariant == ASSUME NoLockFault PROVE Spec => []InsideInv
<1>1. Init => InsideInv
  BY DEF Init, InsideInv, OutLabels
<1>2. TypeOK /\ Unborn /\ InsideInv /\ [Next]_vars => InsideInv'
  <2> SUFFICES ASSUME TypeOK, Unborn, InsideInv, [Next]_vars
               PROVE  InsideInv'
    OBVIOUS
  <2> USE DEF InsideInv, OutLabels, At, Goto, TypeOK, Labels
  <2>1. ASSUME NEW t \in Threads, ThreadStep(t)
        PROVE  InsideInv'
    <3>1. CASE EnterLock(t) BY <3>1, NoLockFault DEF EnterLock, NoLockFault, Fails
    <3>2. CASE EnterWait(t) BY <3>2 DEF EnterWait
    <3>3. CASE EnterClear(t) BY <3>3 DEF EnterClear
    <3>4. CASE EnterCount(t) BY <3>4 DEF EnterCount
    <3>5. CASE EnterUnlock(t) BY <3>5 DEF EnterUnlock
    <3>6. CASE Relock(t) BY <3>6 DEF Relock
    <3>7. CASE ExitLock(t) BY <3>7, NoLockFault DEF ExitLock, NoLockFault, Fails
    <3>8. CASE ExitCount(t) BY <3>8 DEF ExitCount
    <3>9. CASE ExitUnlock(t) BY <3>9 DEF ExitUnlock
    <3>10. CASE ExitSignal(t) BY <3>10 DEF ExitSignal, Broadcast
    <3>11. CASE ExitSignalDogs(t) BY <3>11 DEF ExitSignalDogs, Broadcast
    <3>12. CASE LoopTest(t) BY <3>12 DEF LoopTest
    <3>13. CASE PlayRead(t) BY <3>13 DEF PlayRead
    <3>14. CASE PlayPair(t) BY <3>14 DEF PlayPair
    <3>15. CASE AssertFails(t) BY <3>15 DEF AssertFails
    <3> QED BY <2>1, <3>1, <3>2, <3>3, <3>4, <3>5, <3>6, <3>7, <3>8, <3>9, <3>10,
               <3>11, <3>12, <3>13, <3>14, <3>15 DEF ThreadStep
  <2>2. ASSUME NEW t \in Threads, SpuriousWakeup(t)
        PROVE  InsideInv'
    BY <2>2 DEF SpuriousWakeup
  <2>3. CASE MainSpawn
    <3>1. i \in Threads /\ pc[i] = "new"
      BY <2>3, NumAnimalsNat DEF MainSpawn, Unborn, Threads
    <3> QED BY <2>3, <3>1 DEF MainSpawn
  <2>4. CASE MainInit \/ MainSpawned \/ MainJoin \/ MainPrint
    BY <2>4 DEF MainInit, MainSpawned, MainJoin, MainPrint
  <2>5. CASE Tick BY <2>5 DEF Tick
  <2>6. CASE UNCHANGED vars BY <2>6 DEF vars
  <2> QED BY <2>1, <2>2, <2>3, <2>4, <2>5, <2>6 DEF Next, MainStep, Terminated
<1> QED BY <1>1, <1>2, TypeCorrect, UnbornInvariant, PTL DEF Spec

-----------------------------------------------------------------------------
(* The counters.                                                             *)

LEMMA ThreadsFinite == IsFiniteSet(Threads)
BY NumAnimalsNat, FS_Interval DEF Threads

\* A step that leaves the counters and the room alone keeps them in agreement.
LEMMA CountersSame ==
    ASSUME CountersMatch, UNCHANGED <<playing, inside>>
    PROVE  CountersMatch'
BY DEF CountersMatch

\* Each counter is the number of animals of its species that are out, for every
\* number of animals: no ++ or -- is lost, doubled or given to another species.
THEOREM CountersMatchTheorem == ASSUME NoLockFault PROVE Spec => []CountersMatch
<1>1. Init => CountersMatch
  BY FS_EmptySet DEF Init, CountersMatch
<1>2. TypeOK /\ InsideInv /\ CountersMatch /\ [Next]_vars => CountersMatch'
  <2> SUFFICES ASSUME TypeOK, InsideInv, CountersMatch, [Next]_vars
               PROVE  CountersMatch'
    OBVIOUS
  <2>1. \A s \in Species : IsFiniteSet(Out(s)) /\ playing[s] = Cardinality(Out(s))
    <3> SUFFICES ASSUME NEW s \in Species
                 PROVE  IsFiniteSet(Out(s)) /\ playing[s] = Cardinality(Out(s))
      OBVIOUS
    <3>1. Out(s) \subseteq Threads
      BY DEF Out, TypeOK
    <3> QED BY <3>1, ThreadsFinite, FS_Subset DEF CountersMatch, Out
  <2>2. ASSUME NEW t \in Threads, EnterCount(t)
        PROVE  CountersMatch'
    <3> SUFFICES ASSUME NEW s \in Species
                 PROVE  playing'[s] = Cardinality(Out(s)')
      BY DEF CountersMatch, Out
    <3>1. t \notin inside
      BY <2>2 DEF EnterCount, At, InsideInv, OutLabels
    <3>2. CASE s = Type(t)
      <4>1. Out(s)' = Out(s) \cup {t} /\ t \notin Out(s)
        BY <2>2, <3>1, <3>2 DEF EnterCount, Out
      <4>2. Cardinality(Out(s)') = Cardinality(Out(s)) + 1
        BY <2>1, <4>1, FS_AddElement
      <4>3. playing'[s] = playing[s] + 1
        BY <2>2, <3>2 DEF EnterCount, TypeOK
      <4> QED BY <2>1, <4>2, <4>3
    <3>3. CASE s # Type(t)
      <4>1. Out(s)' = Out(s)
        BY <2>2, <3>3 DEF EnterCount, Out
      <4>2. playing'[s] = playing[s]
        BY <2>2, <3>3 DEF EnterCount, TypeOK
      <4> QED BY <2>1, <4>1, <4>2
    <3> QED BY <3>2, <3>3
  <2>3. ASSUME NEW t \in Threads, ExitCount(t)
        PROVE  CountersMatch'
    <3> SUFFICES ASSUME NEW s \in Species
                 PROVE  playing'[s] = Cardinality(Out(s)')
      BY DEF CountersMatch, Out
    <3>1. t \in inside
      BY <2>3 DEF ExitCount, At, InsideInv, OutLabels
    <3>2. CASE s = Type(t)
      <4>1. Out(s)' = Out(s) \ {t} /\ t \in Out(s)
        BY <2>3, <3>1, <3>2 DEF ExitCount, Out
      <4>2. Cardinality(Out(s)') = Cardinality(Out(s)) - 1
        BY <2>1, <4>1, FS_RemoveElement
      <4>3. playing'[s] = playing[s] - 1
        BY <2>3, <3>2 DEF ExitCount, TypeOK
      <4> QED BY <2>1, <4>2, <4>3
    <3>3. CASE s # Type(t)
      <4>1. Out(s)' = Out(s)
        BY <2>3, <3>3 DEF ExitCount, Out
      <4>2. playing'[s] = playing[s]
        BY <2>3, <3>3 DEF ExitCount, TypeOK
      <4> QED BY <2>1, <4>1, <4>2
    <3> QED BY <3>2, <3>3
  <2>4. ASSUME UNCHANGED <<playing, inside>>
        PROVE  CountersMatch'
    BY <2>4, CountersSame
  <2> QED BY <2>2, <2>3, <2>4
          DEF Next, vars, Terminated, Tick, SpuriousWakeup, ThreadStep, EnterLock,
              EnterWait, EnterClear, EnterUnlock, Relock, ExitLock, ExitUnlock,
              ExitSignal, ExitSignalDogs, LoopTest, PlayRead, PlayPair, AssertFails,
              MainStep, MainInit, MainSpawn, MainSpawned, MainJoin, MainPrint
<1> QED BY <1>1, <1>2, TypeCorrect, InsideInvariant, PTL DEF Spec

-----------------------------------------------------------------------------
(* Exclusion and the asserts.                                                *)

\* What a thread knows from the test of its while loop until its ++: the mutex
\* keeps the rivals out.  And only a cat gets past the first read of play()'s
\* last two asserts.
CountClear == \A t \in Threads : pc[t] = "count" => Clear(Type(t))
PairInv == \A t \in Threads : pc[t] = "pair" => Type(t) = CAT

SafeInv == CountClear /\ PairInv /\ Exclusion

\* A counter that is not positive means that nobody of the species is out.
LEMMA EmptyCounter ==
    ASSUME TypeOK, CountersMatch, NEW s \in Species
    PROVE  /\ playing[s] \in Nat
           /\ playing[s] = 0 <=> Out(s) = {}
<1>1. Out(s) \subseteq Threads
  BY DEF Out, TypeOK
<1>2. IsFiniteSet(Out(s))
  BY <1>1, ThreadsFinite, FS_Subset
<1>3. playing[s] = Cardinality(Out(s))
  BY DEF CountersMatch, Out
<1> QED BY <1>2, <1>3, FS_CardinalityType, FS_EmptySet

\* Nobody is out whom a thread that is about to count itself may not meet.
LEMMA NobodyApart ==
    ASSUME TypeOK, CountersMatch, SafeInv, NEW t \in Threads, pc[t] = "count"
    PROVE  \A u \in inside : ~Apart(u, t) /\ ~Apart(t, u)
<1> SUFFICES ASSUME NEW u \in inside
             PROVE  ~Apart(u, t) /\ ~Apart(t, u)
  OBVIOUS
<1>1. \A r \in Rivals(Type(t)) : r \in Species /\ Out(r) = {}
  BY EmptyCounter DEF SafeInv, CountClear, Clear, Rivals, Species
<1>2. Type(u) \notin Rivals(Type(t))
  BY <1>1 DEF Out
<1>3. Type(u) \in Species /\ Type(t) \in Species
  BY SpeciesType DEF TypeOK
<1> QED BY <1>2, <1>3 DEF Apart, Rivals, Species, CAT, DOG, BIRD

\* From the test of the while loop to the ++ the mutex keeps the rivals out.
LEMMA SafeInvariant == ASSUME NoLockFault PROVE Spec => []SafeInv
<1>1. Init => SafeInv
  BY DEF Init, SafeInv, CountClear, PairInv, Exclusion
<1>2. /\ TypeOK /\ Unborn /\ HoldInv /\ InsideInv /\ CountersMatch
      /\ SafeInv /\ [Next]_vars
      => SafeInv'
  <2> SUFFICES ASSUME TypeOK, Unborn, HoldInv, InsideInv, CountersMatch,
                      SafeInv, [Next]_vars
               PROVE  SafeInv'
    OBVIOUS
  <2> USE DEF SafeInv
  <2>1. ASSUME UNCHANGED <<playing, inside>>,
               \A u \in Threads : \/ pc'[u] \notin {"count", "pair"}
                                  \/ pc'[u] = pc[u]
        PROVE  SafeInv'
    BY <2>1 DEF CountClear, PairInv, Exclusion, Clear
  <2>2. ASSUME NEW t \in Threads, EnterClear(t)
        PROVE  SafeInv'
    <3>1. \A u \in Threads : pc'[u] = "count" => u = t \/ pc[u] = "count"
      BY <2>2 DEF EnterClear, Goto, TypeOK
    <3>2. \A u \in Threads : pc'[u] = "pair" => pc[u] = "pair"
      BY <2>2 DEF EnterClear, Goto, TypeOK
    <3>3. Clear(Type(t)) /\ UNCHANGED <<playing, inside>>
      BY <2>2 DEF EnterClear
    <3> QED BY <3>1, <3>2, <3>3 DEF CountClear, PairInv, Exclusion, Clear
  <2>3. ASSUME NEW t \in Threads, EnterCount(t)
        PROVE  SafeInv'
    <3>1. pc[t] = "count" /\ lock = t
      BY <2>3 DEF EnterCount, At, HoldInv, HoldLabels
    <3>2. \A u \in Threads : u # t => pc'[u] = pc[u]
      BY <2>3 DEF EnterCount, Goto, TypeOK
    <3>3. pc'[t] = "entered"
      BY <2>3 DEF EnterCount, Goto, TypeOK
    <3>4. CountClear'
      <4>1. \A u \in Threads : pc'[u] # "count"
        BY <3>1, <3>2, <3>3 DEF HoldInv, HoldLabels
      <4> QED BY <4>1 DEF CountClear
    <3>5. PairInv'
      BY <3>2, <3>3 DEF PairInv
    <3>6. \A u \in inside : ~Apart(u, t) /\ ~Apart(t, u)
      BY <3>1, NobodyApart
    <3>7. ~Apart(t, t)
      BY SpeciesType DEF Apart, Rivals, Species, CAT, DOG, BIRD
    <3>8. Exclusion'
      BY <2>3, <3>6, <3>7 DEF Exclusion, EnterCount, Apart
    <3> QED BY <3>4, <3>5, <3>8
  <2>4. ASSUME NEW t \in Threads, ExitCount(t)
        PROVE  SafeInv'
    <3>1. \A u \in Threads : pc'[u] \in {"count", "pair"} => pc[u] = pc'[u]
      BY <2>4 DEF ExitCount, Goto, TypeOK
    <3>2. PairInv' /\ Exclusion'
      BY <2>4, <3>1 DEF PairInv, Exclusion, ExitCount
    <3>3. CountClear'
      <4>1. \A u \in Threads : pc'[u] # "count"
        BY <2>4, <3>1 DEF ExitCount, At, Goto, HoldInv, HoldLabels, TypeOK
      <4> QED BY <4>1 DEF CountClear
    <3> QED BY <3>2, <3>3
  <2>5. ASSUME NEW t \in Threads, PlayRead(t)
        PROVE  SafeInv'
    <3>1. CountClear' /\ Exclusion'
      BY <2>5 DEF PlayRead, Goto, TypeOK, CountClear, Clear, Exclusion
    <3>2. \A u \in Threads : u # t => pc'[u] = pc[u]
      BY <2>5 DEF PlayRead, Goto, TypeOK
    <3>3. ASSUME pc'[t] = "pair"
          PROVE  Type(t) = CAT
      <4>1. playing[CAT] # 0
        BY <2>5, <3>3 DEF PlayRead, Goto, TypeOK
      <4>2. PICK c \in inside : Type(c) = CAT
        BY <4>1, EmptyCounter DEF Out, Species
      <4>3. t \in inside
        BY <2>5 DEF PlayRead, At, InsideInv, OutLabels
      <4> QED BY <4>2, <4>3, SpeciesType
              DEF Exclusion, Apart, Rivals, Species, CAT, DOG, BIRD, TypeOK
    <3>4. PairInv'
      BY <3>2, <3>3 DEF PairInv
    <3> QED BY <3>1, <3>4
  <2>6. ASSUME NEW t \in Threads,
               \/ EnterLock(t) \/ EnterWait(t) \/ EnterUnlock(t) \/ Relock(t)
               \/ ExitLock(t) \/ ExitUnlock(t) \/ ExitSignal(t) \/ ExitSignalDogs(t)
               \/ LoopTest(t) \/ PlayPair(t) \/ AssertFails(t) \/ SpuriousWakeup(t)
        PROVE  SafeInv'
    <3>1. UNCHANGED <<playing, inside>>
      BY <2>6 DEF EnterLock, EnterWait, EnterUnlock, Relock, ExitLock, ExitUnlock,
                  ExitSignal, ExitSignalDogs, LoopTest, PlayPair, AssertFails,
                  SpuriousWakeup
    <3>2. \A u \in Threads : pc'[u] \notin {"count", "pair"} \/ pc'[u] = pc[u]
      BY <2>6 DEF EnterLock, EnterWait, EnterUnlock, Relock, ExitLock, ExitUnlock,
                  ExitSignal, ExitSignalDogs, LoopTest, PlayPair, AssertFails,
                  SpuriousWakeup, Goto, Broadcast, TypeOK
    <3> QED BY <2>1, <3>1, <3>2
  <2>7. CASE MainStep \/ Tick \/ UNCHANGED vars
    <3>1. UNCHANGED <<playing, inside>>
      BY <2>7 DEF MainStep, MainInit, MainSpawn, MainSpawned, MainJoin, MainPrint,
                  Tick, vars
    <3>2. \A u \in Threads : pc'[u] \notin {"count", "pair"} \/ pc'[u] = pc[u]
      BY <2>7 DEF MainStep, MainInit, MainSpawn, MainSpawned, MainJoin, MainPrint,
                  Tick, vars, Goto, TypeOK
    <3> QED BY <2>1, <3>1, <3>2
  <2> QED BY <2>2, <2>3, <2>4, <2>5, <2>6, <2>7 DEF Next, ThreadStep, Terminated
<1> QED BY <1>1, <1>2, TypeCorrect, UnbornInvariant, HoldInvariant,
           InsideInvariant, CountersMatchTheorem, PTL DEF Spec

\* The store's requirement, for every number of animals, and even if unlocking
\* or broadcasting fails: a cat is never out with a dog or a bird.
THEOREM ExclusionTheorem == ASSUME NoLockFault PROVE Spec => []Exclusion
BY SafeInvariant, PTL DEF SafeInv

\* There are as many animals of a species as the command line says.
LEMMA SpeciesCount ==
    ASSUME NEW s \in Species
    PROVE  Cardinality({t \in Threads : Type(t) = s}) = Count(s)
<1> USE CountsAssumption
<1>1. CASE s = CAT
  <2>1. {t \in Threads : Type(t) = s} = 0 .. numCats - 1
    BY <1>1 DEF Threads, numAnimals, Type, CAT, DOG, BIRD
  <2>2. Cardinality(0 .. numCats - 1) = numCats
    BY FS_Interval
  <2> QED BY <1>1, <2>1, <2>2 DEF Count, CAT, DOG, BIRD
<1>2. CASE s = DOG
  <2>1. {t \in Threads : Type(t) = s} = numCats .. numCats + numDogs - 1
    BY <1>2 DEF Threads, numAnimals, Type, CAT, DOG, BIRD
  <2>2. Cardinality(numCats .. numCats + numDogs - 1) = numDogs
    BY FS_Interval
  <2> QED BY <1>2, <2>1, <2>2 DEF Count, CAT, DOG, BIRD
<1>3. CASE s = BIRD
  <2>1. {t \in Threads : Type(t) = s} = numCats + numDogs .. numAnimals - 1
    BY <1>3 DEF Threads, numAnimals, Type, CAT, DOG, BIRD
  <2>2. Cardinality(numCats + numDogs .. numAnimals - 1) = numBirds
    BY FS_Interval DEF numAnimals
  <2> QED BY <1>3, <2>1, <2>2 DEF Count, CAT, DOG, BIRD
<1> QED BY <1>1, <1>2, <1>3 DEF Species

\* No assert of play() ever fails, although play() reads the counters one by
\* one without the mutex.
THEOREM NoAssertFailsTheorem == ASSUME NoLockFault PROVE Spec => []NoAssertFails
<1>1. Init => NoAssertFails
  BY DEF Init, NoAssertFails
<1>2. TypeOK /\ InsideInv /\ CountersMatch /\ SafeInv /\ NoAssertFails /\ [Next]_vars
      => NoAssertFails'
  <2> SUFFICES ASSUME TypeOK, InsideInv, CountersMatch, SafeInv, NoAssertFails, [Next]_vars
               PROVE  NoAssertFails'
    OBVIOUS
  <2>1. InRange
    <3> SUFFICES ASSUME NEW s \in Species
                 PROVE  playing[s] >= 0 /\ playing[s] <= Count(s)
      BY DEF InRange
    <3> DEFINE All == {t \in Threads : Type(t) = s}
    <3>1. Out(s) \subseteq All /\ IsFiniteSet(All)
      BY ThreadsFinite, FS_Subset DEF Out, TypeOK
    <3>2. Cardinality(Out(s)) <= Cardinality(All)
      BY <3>1, FS_Subset
    <3> QED BY <3>2, SpeciesCount, EmptyCounter DEF CountersMatch, Out
  <2>2. ASSUME NEW t \in Threads, AssertFails(t)
        PROVE  FALSE
    <3>1. PICK s \in {DOG, BIRD} : pc[t] = "pair" /\ playing[s] # 0
      BY <2>1, <2>2 DEF AssertFails, At
    <3>2. PICK d \in inside : Type(d) = s
      BY <3>1, EmptyCounter DEF Out, Species
    <3>3. t \in inside /\ Type(t) = CAT
      BY <3>1 DEF InsideInv, OutLabels, SafeInv, PairInv
    <3> QED BY <3>1, <3>2, <3>3 DEF SafeInv, Exclusion, Apart, Rivals
  <2>3. CASE MainStep
    BY <2>3 DEF MainStep, MainInit, MainSpawn, MainSpawned, MainJoin, MainPrint,
                NoAssertFails
  <2>4. CASE main' = main
    BY <2>4 DEF NoAssertFails
  <2> QED BY <2>2, <2>3, <2>4
          DEF Next, vars, mainVars, Terminated, Tick, SpuriousWakeup, ThreadStep,
              EnterLock, EnterWait, EnterClear, EnterCount, EnterUnlock, Relock,
              ExitLock, ExitCount, ExitUnlock, ExitSignal, ExitSignalDogs, LoopTest,
              PlayRead, PlayPair
<1> QED BY <1>1, <1>2, TypeCorrect, InsideInvariant, CountersMatchTheorem,
           SafeInvariant, PTL DEF Spec

\* The monitor implements the room: each step of a thread or of main is an
\* animal's Enter or Leave, with the room's conditions met, or leaves the room
\* as it is.
THEOREM RoomRefinement == ASSUME NoLockFault PROVE Spec => RoomSpec
<1>1. Init => Room!Init
  BY DEF Init, Room!Init
<1>2. TypeOK /\ InsideInv /\ CountersMatch /\ SafeInv /\ [Next]_vars
      => [Room!Next]_inside
  <2> SUFFICES ASSUME TypeOK, InsideInv, CountersMatch, SafeInv, [Next]_vars
               PROVE  Room!Next \/ inside' = inside
    OBVIOUS
  <2>1. ASSUME NEW t \in Threads, EnterCount(t)
        PROVE  Room!Enter(t)
    <3>1. pc[t] = "count" /\ t \notin inside
      BY <2>1 DEF EnterCount, At, InsideInv, OutLabels
    <3> QED BY <2>1, <3>1, NobodyApart DEF EnterCount, Room!Enter
  <2>2. ASSUME NEW t \in Threads, ExitCount(t)
        PROVE  Room!Leave(t)
    BY <2>2 DEF ExitCount, At, InsideInv, OutLabels, Room!Leave
  <2> QED BY <2>1, <2>2
          DEF Room!Next, Next, vars, Terminated, Tick, SpuriousWakeup, ThreadStep,
              EnterLock, EnterWait, EnterClear, EnterUnlock, Relock, ExitLock,
              ExitUnlock, ExitSignal, ExitSignalDogs, LoopTest, PlayRead, PlayPair,
              AssertFails, MainStep, MainInit, MainSpawn, MainSpawned, MainJoin, MainPrint
<1> QED BY <1>1, <1>2, TypeCorrect, InsideInvariant, CountersMatchTheorem,
           SafeInvariant, PTL DEF Spec, RoomSpec, Room!Spec
-----------------------------------------------------------------------------
(* The totals.                                                               *)

\* The outings of one animal more are as many more as it has made.
LEMMA OutingsFacts ==
    ASSUME playTime \in [Threads -> Nat],
           NEW A \in SUBSET Threads, IsFiniteSet(Outings(A)), NEW t \in Threads, t \notin A
    PROVE  /\ IsFiniteSet(Outings(A \cup {t}))
           /\ Cardinality(Outings(A \cup {t})) = Cardinality(Outings(A)) + playTime[t]
<1> DEFINE own == {t} \X (1 .. playTime[t])
<1>1. Outings(A \cup {t}) = Outings(A) \cup own
  BY DEF Outings
<1>2. IsFiniteSet(own) /\ Cardinality(own) = playTime[t]
  <2>1. IsFiniteSet({t}) /\ Cardinality({t}) = 1
    BY FS_Singleton
  <2>2. playTime[t] \in Nat
    OBVIOUS
  <2>3. IsFiniteSet(1 .. playTime[t]) /\ Cardinality(1 .. playTime[t]) = playTime[t]
    BY <2>2, FS_Interval
  <2>4. IsFiniteSet(own) /\ Cardinality(own) = Cardinality({t}) * Cardinality(1 .. playTime[t])
    BY <2>1, <2>3, FS_Product
  <2> QED BY <2>1, <2>2, <2>3, <2>4
<1>3. Outings(A) \cap own = {}
  <2> SUFFICES ASSUME NEW o \in Outings(A), o \in own PROVE FALSE
    OBVIOUS
  <2>1. PICK u \in A : o \in {u} \X (1 .. playTime[u])
    BY DEF Outings
  <2> QED BY <2>1
<1> HIDE DEF own
<1>4. Cardinality(Outings(A) \cap own) = 0
  BY <1>3, FS_EmptySet
<1>5. /\ IsFiniteSet(Outings(A) \cup own)
      /\ Cardinality(Outings(A) \cup own)
            = Cardinality(Outings(A)) + Cardinality(own) - Cardinality(Outings(A) \cap own)
  BY <1>2, FS_Union
<1>6. Cardinality(Outings(A)) \in Nat /\ playTime[t] \in Nat
  BY FS_CardinalityType
<1>7. Cardinality(Outings(A) \cup own) = Cardinality(Outings(A)) + playTime[t]
  BY <1>2, <1>4, <1>5, <1>6
<1> QED BY <1>1, <1>5, <1>7

\* The threads of species s that main has joined.
JoinedOf(s) == {t \in Threads : t < i /\ Type(t) = s}

\* What main has added up for one species.
AddedUp(s) ==
    /\ IsFiniteSet(Outings(JoinedOf(s)))
    /\ (\A t \in JoinedOf(s) : pc[t] = "done") => total[s] = Cardinality(Outings(JoinedOf(s)))

\* Threads that have been joined have ended, so what main has added up stays right.
TotalInv ==
    /\ main \in {"init", "spawn"} => \A s \in Species : total[s] = 0
    /\ main \in {"join", "exited"} =>
          /\ \A t \in Threads : t < i => pc[t] \in {"done", "failed"}
          /\ \A s \in Species : AddedUp(s)
    /\ main = "exited" => i = numAnimals

\* A step that main takes no part in does not touch the threads that have ended.
LEMMA TotalQuiet ==
    ASSUME TypeOK, TotalInv, UNCHANGED <<i, total>>, main' = main \/ main' \in {"error", "aborted"},
           \A t \in Threads : pc[t] \in {"done", "failed"} => pc'[t] = pc[t] /\ playTime'[t] = playTime[t]
    PROVE  TotalInv'
<1> SUFFICES ASSUME main' = main PROVE TotalInv'
  BY DEF TotalInv
<1>1. ASSUME main \in {"join", "exited"}, NEW s \in Species
      PROVE  AddedUp(s)'
  <2>1. PICK A \in SUBSET Threads : A = JoinedOf(s)
    BY DEF JoinedOf
  <2>2. JoinedOf(s)' = A
    BY <2>1 DEF JoinedOf
  <2>3. \A t \in A : pc'[t] = pc[t] /\ playTime'[t] = playTime[t]
    BY <1>1, <2>1 DEF TotalInv, JoinedOf
  <2>4. Outings(A)' = Outings(A)
    BY <2>3 DEF Outings
  <2>5. Outings(JoinedOf(s))' = Outings(A)
    BY <2>2, <2>4 DEF Outings
  <2> QED BY <1>1, <2>1, <2>2, <2>3, <2>5 DEF TotalInv, AddedUp
<1> QED BY <1>1 DEF TotalInv

\* Before main joins a thread it has added up nothing.
LEMMA TotalSpawned ==
    ASSUME TypeOK, TotalInv, MainSpawned
    PROVE  TotalInv'
<1>1. main = "spawn" /\ main' = "join" /\ i' = 0 /\ total' = total
  BY DEF MainSpawned
<1>2. \A t \in Threads : ~(t < 0)
  BY NumAnimalsNat DEF Threads
<1>3. ASSUME NEW s \in Species PROVE AddedUp(s)'
  <2>1. JoinedOf(s)' = {}
    BY <1>1, <1>2 DEF JoinedOf
  <2>2. Outings(JoinedOf(s))' = {}
    BY <2>1 DEF Outings
  <2> QED BY <1>1, <2>2, FS_EmptySet DEF TotalInv, AddedUp
<1> QED BY <1>1, <1>2, <1>3 DEF TotalInv

\* main joins a thread that has ended; one that gave up spoils its own species only.
LEMMA TotalJoin ==
    ASSUME TypeOK, TotalInv, MainJoin, main' = main
    PROVE  TotalInv'
<1>1. /\ main = "join" /\ i < numAnimals /\ i' = i + 1
      /\ pc[i] \in {"done", "failed"} /\ UNCHANGED <<pc, playTime>>
  BY DEF MainJoin
<1>2. PICK n \in Joined(i) : total' = [total EXCEPT ![Type(i)] = @ + n]
  BY <1>1 DEF MainJoin
<1>3. i \in Threads /\ Type(i) \in Species /\ i \in Int
  BY <1>1, NumAnimalsNat, SpeciesType DEF Threads, TypeOK
<1>4. \A t \in Threads : t < i + 1 <=> t < i \/ t = i
  BY <1>3, NumAnimalsNat DEF Threads
<1>5. ASSUME NEW s \in Species PROVE AddedUp(s)'
  <2>1. PICK A \in SUBSET Threads : A = JoinedOf(s)
    BY DEF JoinedOf
  <2>2. i \notin A /\ IsFiniteSet(Outings(A))
    BY <1>1, <1>3, <2>1 DEF JoinedOf, TotalInv, AddedUp
  <2>3. CASE Type(i) # s
    <3>1. JoinedOf(s)' = A
      BY <1>1, <1>4, <2>1, <2>3 DEF JoinedOf
    <3>2. Outings(JoinedOf(s))' = Outings(A)
      BY <1>1, <3>1 DEF Outings
    <3>3. total'[s] = total[s]
      BY <1>2, <2>3 DEF TypeOK
    <3> QED BY <1>1, <2>1, <3>1, <3>2, <3>3 DEF TotalInv, AddedUp
  <2>4. CASE Type(i) = s
    <3>1. JoinedOf(s)' = A \cup {i}
      BY <1>1, <1>3, <1>4, <2>1, <2>4 DEF JoinedOf
    <3>2. Outings(JoinedOf(s))' = Outings(A \cup {i})
      BY <1>1, <3>1 DEF Outings
    <3>3. /\ IsFiniteSet(Outings(A \cup {i}))
          /\ Cardinality(Outings(A \cup {i})) = Cardinality(Outings(A)) + playTime[i]
      BY <1>3, <2>2, OutingsFacts DEF TypeOK
    <3>4. ASSUME \A t \in A \cup {i} : pc[t] = "done"
          PROVE  total'[s] = Cardinality(Outings(A \cup {i}))
      <4>1. n = playTime[i] /\ total[s] = Cardinality(Outings(A))
        BY <1>1, <1>2, <2>1, <3>4 DEF Joined, TotalInv, AddedUp
      <4>2. total'[s] = total[s] + n
        BY <1>2, <2>4 DEF TypeOK
      <4> QED BY <3>3, <4>1, <4>2
    <3> QED BY <1>1, <3>1, <3>2, <3>3, <3>4 DEF AddedUp
  <2> QED BY <2>3, <2>4
<1>6. \A t \in Threads : t < i' => pc'[t] \in {"done", "failed"}
  BY <1>1, <1>4 DEF TotalInv
<1> QED BY <1>1, <1>5, <1>6 DEF TotalInv

LEMMA TotalInvariant == Spec => []TotalInv
<1>1. Init => TotalInv
  BY DEF Init, TotalInv
<1>2. TypeOK /\ TotalInv /\ [Next]_vars => TotalInv'
  <2> SUFFICES ASSUME TypeOK, TotalInv, [Next]_vars
               PROVE  TotalInv'
    OBVIOUS
  <2>1. ASSUME NEW t \in Threads, ThreadStep(t) \/ SpuriousWakeup(t)
        PROVE  TotalInv'
    <3>1. UNCHANGED <<i, total>> /\ (main' = main \/ main' = "aborted")
      BY <2>1 DEF ThreadStep, EnterLock, EnterWait, EnterClear, EnterCount, EnterUnlock,
                  Relock, ExitLock, ExitCount, ExitUnlock, ExitSignal, ExitSignalDogs,
                  LoopTest, PlayRead, PlayPair, AssertFails, SpuriousWakeup, mainVars
    <3>2. pc[t] \notin {"done", "failed"}
      BY <2>1 DEF ThreadStep, EnterLock, EnterWait, EnterClear, EnterCount, EnterUnlock,
                  Relock, ExitLock, ExitCount, ExitUnlock, ExitSignal, ExitSignalDogs,
                  LoopTest, PlayRead, PlayPair, AssertFails, SpuriousWakeup, At
    <3>3. \A u \in Threads : u # t => playTime'[u] = playTime[u]
      BY <2>1 DEF ThreadStep, EnterLock, EnterWait, EnterClear, EnterCount, EnterUnlock,
                  Relock, ExitLock, ExitCount, ExitUnlock, ExitSignal, ExitSignalDogs,
                  LoopTest, PlayRead, PlayPair, AssertFails, SpuriousWakeup, TypeOK
    <3>4. \A u \in Threads : u # t => pc'[u] = pc[u] \/ pc[u] = "wait"
      BY <2>1 DEF ThreadStep, EnterLock, EnterWait, EnterClear, EnterCount, EnterUnlock,
                  Relock, ExitLock, ExitCount, ExitUnlock, ExitSignal, ExitSignalDogs,
                  LoopTest, PlayRead, PlayPair, AssertFails, SpuriousWakeup, Broadcast,
                  Goto, TypeOK
    <3> QED BY <3>1, <3>2, <3>3, <3>4, TotalQuiet
  <2>2. CASE MainInit
    BY <2>2 DEF MainInit, TotalInv
  <2>3. CASE MainSpawn
    BY <2>3 DEF MainSpawn, TotalInv
  <2>4. CASE MainSpawned
    BY <2>4, TotalSpawned
  <2>5. CASE MainJoin
    <3>1. CASE main' = main
      BY <2>5, <3>1, TotalJoin
    <3>2. CASE main' # main
      BY <2>5, <3>2 DEF MainJoin, TotalInv
    <3> QED BY <3>1, <3>2
  <2>6. CASE MainPrint
    <3>1. /\ main = "join" /\ main' = "exited" /\ i = numAnimals
          /\ UNCHANGED <<pc, playTime, i, total>>
      BY <2>6 DEF MainPrint
    <3>2. \A s \in Species : AddedUp(s)' <=> AddedUp(s)
      BY <3>1 DEF AddedUp, JoinedOf, Outings
    <3> QED BY <3>1, <3>2 DEF TotalInv
  <2>7. CASE Tick
    BY <2>7, TotalQuiet DEF Tick
  <2>8. CASE UNCHANGED vars
    BY <2>8, TotalQuiet DEF vars, mainVars
  <2> QED BY <2>1, <2>2, <2>3, <2>4, <2>5, <2>6, <2>7, <2>8 DEF Next, MainStep, Terminated
<1> QED BY <1>1, <1>2, TypeCorrect, PTL DEF Spec

\* For every number of animals and whatever calls fail, main prints how many outings
\* the animals of each species have made, if none of that species has given up.
THEOREM TotalsTheorem == Spec => []TotalsRight
<1>1. TotalInv => TotalsRight
  <2> SUFFICES ASSUME TotalInv, main = "exited", NEW s \in Species,
                      \A t \in {u \in Threads : Type(u) = s} : pc[t] = "done"
               PROVE  total[s] = Cardinality(Outings({u \in Threads : Type(u) = s}))
    BY DEF TotalsRight
  <2>1. \A t \in Threads : t < numAnimals
    BY NumAnimalsNat DEF Threads
  <2>2. JoinedOf(s) = {u \in Threads : Type(u) = s}
    BY <2>1 DEF JoinedOf, TotalInv
  <2> QED BY <2>2 DEF TotalInv, AddedUp
<1> QED BY <1>1, TotalInvariant, PTL

-----------------------------------------------------------------------------
(* Why the program may hang after its time.                                  *)

\* The threads main has created have begun.
Begun ==
    /\ main = "init" => i = 0
    /\ \A t \in Threads : main = "join" \/ (main = "spawn" /\ t < i) => pc[t] # "new"

LEMMA BegunInvariant == Spec => []Begun
<1>1. Init => Begun
  BY DEF Init, Begun
<1>2. TypeOK /\ Begun /\ [Next]_vars => Begun'
  <2> SUFFICES ASSUME TypeOK, Begun, [Next]_vars
               PROVE  Begun'
    OBVIOUS
  <2>1. ASSUME NEW t \in Threads, ThreadStep(t) \/ SpuriousWakeup(t)
        PROVE  Begun'
    <3>1. \A u \in Threads : pc'[u] = "new" => pc[u] = "new"
      BY <2>1 DEF ThreadStep, EnterLock, EnterWait, EnterClear, EnterCount, EnterUnlock,
                  Relock, ExitLock, ExitCount, ExitUnlock, ExitSignal, ExitSignalDogs,
                  LoopTest, PlayRead, PlayPair, AssertFails, SpuriousWakeup,
                  Goto, At, Broadcast, TypeOK, Labels
    <3>2. i' = i /\ (main' = main \/ main' = "aborted")
      BY <2>1 DEF ThreadStep, EnterLock, EnterWait, EnterClear, EnterCount, EnterUnlock,
                  Relock, ExitLock, ExitCount, ExitUnlock, ExitSignal, ExitSignalDogs,
                  LoopTest, PlayRead, PlayPair, AssertFails, SpuriousWakeup, mainVars
    <3> QED BY <3>1, <3>2 DEF Begun
  <2>2. CASE MainInit
    <3>1. \A t \in Threads : ~(t < i)
      BY <2>2, NumAnimalsNat DEF MainInit, Begun, Threads
    <3> QED BY <2>2, <3>1 DEF MainInit, Begun
  <2>3. CASE MainSpawn
    <3>1. i \in Int /\ Threads \subseteq Int
      BY NumAnimalsNat DEF TypeOK, Threads
    <3> QED BY <2>3, <3>1 DEF MainSpawn, Begun, Goto, TypeOK
  <2>4. CASE MainSpawned
    <3>1. \A t \in Threads : t < i
      BY <2>4, NumAnimalsNat DEF MainSpawned, Threads
    <3> QED BY <2>4, <3>1 DEF MainSpawned, Begun
  <2>5. CASE MainJoin BY <2>5 DEF MainJoin, Begun
  <2>6. CASE MainPrint BY <2>6 DEF MainPrint, Begun
  <2>7. CASE Tick BY <2>7 DEF Tick, Begun
  <2>8. CASE UNCHANGED vars BY <2>8 DEF vars, Begun
  <2> QED BY <2>1, <2>2, <2>3, <2>4, <2>5, <2>6, <2>7, <2>8
          DEF Next, MainStep, Terminated
<1> QED BY <1>1, <1>2, TypeCorrect, PTL DEF Spec

\* Also when locking fails, who is counted is between ++ and -- or has given up there.
StillOut == \A t \in inside : pc[t] \in OutLabels \cup {"failed"}

LEMMA StillOutInvariant == Spec => []StillOut
<1>1. Init => StillOut
  BY DEF Init, StillOut
<1>2. TypeOK /\ Unborn /\ StillOut /\ [Next]_vars => StillOut'
  <2> SUFFICES ASSUME TypeOK, Unborn, StillOut, [Next]_vars
               PROVE  StillOut'
    OBVIOUS
  <2> USE DEF StillOut, OutLabels, At, Goto, TypeOK, Labels
  <2>1. ASSUME NEW t \in Threads, ThreadStep(t)
        PROVE  StillOut'
    <3>1. CASE EnterLock(t) BY <3>1 DEF EnterLock
    <3>2. CASE EnterWait(t) BY <3>2 DEF EnterWait
    <3>3. CASE EnterClear(t) BY <3>3 DEF EnterClear
    <3>4. CASE EnterCount(t) BY <3>4 DEF EnterCount
    <3>5. CASE EnterUnlock(t) BY <3>5 DEF EnterUnlock
    <3>6. CASE Relock(t) BY <3>6 DEF Relock
    <3>7. CASE ExitLock(t) BY <3>7 DEF ExitLock
    <3>8. CASE ExitCount(t) BY <3>8 DEF ExitCount
    <3>9. CASE ExitUnlock(t) BY <3>9 DEF ExitUnlock
    <3>10. CASE ExitSignal(t) BY <3>10 DEF ExitSignal, Broadcast
    <3>11. CASE ExitSignalDogs(t) BY <3>11 DEF ExitSignalDogs, Broadcast
    <3>12. CASE LoopTest(t) BY <3>12 DEF LoopTest
    <3>13. CASE PlayRead(t) BY <3>13 DEF PlayRead
    <3>14. CASE PlayPair(t) BY <3>14 DEF PlayPair
    <3>15. CASE AssertFails(t) BY <3>15 DEF AssertFails
    <3> QED BY <2>1, <3>1, <3>2, <3>3, <3>4, <3>5, <3>6, <3>7, <3>8,
               <3>9, <3>10, <3>11, <3>12, <3>13, <3>14, <3>15 DEF ThreadStep
  <2>2. ASSUME NEW t \in Threads, SpuriousWakeup(t)
        PROVE  StillOut'
    BY <2>2 DEF SpuriousWakeup
  <2>3. CASE MainSpawn
    <3>1. i \in Threads /\ pc[i] = "new"
      BY <2>3, NumAnimalsNat DEF MainSpawn, Unborn, Threads
    <3> QED BY <2>3, <3>1 DEF MainSpawn
  <2>4. CASE MainInit \/ MainSpawned \/ MainJoin \/ MainPrint
    BY <2>4 DEF MainInit, MainSpawned, MainJoin, MainPrint
  <2>5. CASE Tick BY <2>5 DEF Tick
  <2>6. CASE UNCHANGED vars BY <2>6 DEF vars
  <2> QED BY <2>1, <2>2, <2>3, <2>4, <2>5, <2>6 DEF Next, MainStep, Terminated
<1> QED BY <1>1, <1>2, TypeCorrect, UnbornInvariant, PTL DEF Spec

\* An animal that was let in although locking failed goes out again without having been
\* counted: a counter may be too small, and never too large.
NotTooMany == \A s \in Species : playing[s] =< Cardinality(Out(s))

LEMMA OutFinite ==
    ASSUME TypeOK, NEW s \in Species
    PROVE  IsFiniteSet(Out(s)) /\ Cardinality(Out(s)) \in Nat /\ playing[s] \in Int
<1>1. Out(s) \subseteq Threads
  BY DEF Out, TypeOK
<1>2. IsFiniteSet(Out(s))
  BY <1>1, ThreadsFinite, FS_Subset
<1> QED BY <1>2, FS_CardinalityType DEF TypeOK

LEMMA NotTooManyInvariant == Spec => []NotTooMany
<1>1. Init => NotTooMany
  <2> SUFFICES ASSUME Init, NEW s \in Species
               PROVE  playing[s] =< Cardinality(Out(s))
    BY DEF NotTooMany
  <2>1. Out(s) = {} /\ playing[s] = 0
    BY DEF Init, Out
  <2> QED BY <2>1, FS_EmptySet
<1>2. TypeOK /\ StillOut /\ NotTooMany /\ [Next]_vars => NotTooMany'
  <2> SUFFICES ASSUME TypeOK, StillOut, NotTooMany, [Next]_vars
               PROVE  NotTooMany'
    OBVIOUS
  <2>1. ASSUME NEW t \in Threads, EnterCount(t)
        PROVE  NotTooMany'
    <3> SUFFICES ASSUME NEW s \in Species
                 PROVE  playing'[s] =< Cardinality(Out(s)')
      BY DEF NotTooMany, Out
    <3>1. t \notin inside
      BY <2>1 DEF EnterCount, At, StillOut, OutLabels
    <3>2. CASE s = Type(t)
      <4>1. Out(s)' = Out(s) \cup {t} /\ t \notin Out(s)
        BY <2>1, <3>1, <3>2 DEF EnterCount, Out
      <4>2. Cardinality(Out(s)') = Cardinality(Out(s)) + 1
        BY <4>1, OutFinite, FS_AddElement
      <4>3. playing'[s] = playing[s] + 1
        BY <2>1, <3>2 DEF EnterCount, TypeOK
      <4> QED BY <4>2, <4>3, OutFinite DEF NotTooMany
    <3>3. CASE s # Type(t)
      <4>1. Out(s)' = Out(s)
        BY <2>1, <3>3 DEF EnterCount, Out
      <4>2. playing'[s] = playing[s]
        BY <2>1, <3>3 DEF EnterCount, TypeOK
      <4> QED BY <4>1, <4>2 DEF NotTooMany
    <3> QED BY <3>2, <3>3
  <2>2. ASSUME NEW t \in Threads, ExitCount(t)
        PROVE  NotTooMany'
    <3> SUFFICES ASSUME NEW s \in Species
                 PROVE  playing'[s] =< Cardinality(Out(s)')
      BY DEF NotTooMany, Out
    <3>1. CASE s = Type(t)
      <4>1. Out(s)' = Out(s) \ {t}
        BY <2>2 DEF ExitCount, Out
      <4>2. Cardinality(Out(s)') >= Cardinality(Out(s)) - 1
        <5>1. CASE t \in Out(s)
          <6>1. PICK c \in Nat : c = Cardinality(Out(s))
            BY OutFinite
          <6>2. Cardinality(Out(s) \ {t}) = Cardinality(Out(s)) - 1
            BY <5>1, OutFinite, FS_RemoveElement
          <6>3. Cardinality(Out(s)') = c - 1
            BY <4>1, <6>1, <6>2
          <6> QED BY <6>1, <6>3
        <5>2. CASE t \notin Out(s)
          <6>1. Out(s)' = Out(s)
            BY <4>1, <5>2
          <6> QED BY <6>1, OutFinite
        <5> QED BY <5>1, <5>2
      <4>3. playing'[s] = playing[s] - 1
        BY <2>2, <3>1 DEF ExitCount, TypeOK
      <4>4. Cardinality(Out(s)') \in Nat
        <5>1. Out(s)' \subseteq Out(s)
          BY <4>1
        <5>2. IsFiniteSet(Out(s)')
          BY <5>1, OutFinite, FS_Subset
        <5> QED BY <5>2, FS_CardinalityType
      <4> QED BY <4>2, <4>3, <4>4, OutFinite DEF NotTooMany
    <3>2. CASE s # Type(t)
      <4>1. Out(s)' = Out(s)
        BY <2>2, <3>2 DEF ExitCount, Out
      <4>2. playing'[s] = playing[s]
        BY <2>2, <3>2 DEF ExitCount, TypeOK
      <4> QED BY <4>1, <4>2 DEF NotTooMany
    <3> QED BY <3>1, <3>2
  <2>3. ASSUME UNCHANGED <<playing, inside>>
        PROVE  NotTooMany'
    BY <2>3 DEF NotTooMany, Out
  <2> QED BY <2>1, <2>2, <2>3
          DEF Next, vars, Terminated, Tick, SpuriousWakeup, ThreadStep, EnterLock,
              EnterWait, EnterClear, EnterUnlock, Relock, ExitLock, ExitUnlock,
              ExitSignal, ExitSignalDogs, LoopTest, PlayRead, PlayPair, AssertFails,
              MainStep, MainInit, MainSpawn, MainSpawned, MainJoin, MainPrint
<1> QED BY <1>1, <1>2, TypeCorrect, StillOutInvariant, PTL DEF Spec

\* For every number of animals and whatever calls fail, the program hangs after its
\* time only with the mutex locked or with a thread that has given up.
THEOREM HangTheorem == Spec => []HangNeedsFailure
<1>1. TypeOK /\ Begun /\ NoLostWakeup /\ StillOut /\ NotTooMany => HangNeedsFailure
  <2> SUFFICES ASSUME TypeOK, Begun, NoLostWakeup, StillOut, NotTooMany,
                      main = "join", i < numAnimals, pc[i] \notin {"done", "failed"}, expired,
                      lock = NoThread,
                      \A t \in Threads : pc[t] # "failed" /\ ~CanGoOn(t)
               PROVE  FALSE
    BY DEF HangNeedsFailure, Stuck
  <2>1. \A t \in Threads : pc[t] \in {"wait", "done"}
    BY DEF Begun, CanGoOn, Running, Over
  <2>2. i \in Threads
    BY NumAnimalsNat DEF TypeOK, Threads
  <2>3. pc[i] = "wait"
    BY <2>1, <2>2
  <2>4. ~Clear(Type(i))
    BY <2>1, <2>2, <2>3 DEF NoLostWakeup, Owes
  <2>5. PICK r \in Species : playing[r] > 0
    BY <2>4 DEF Clear, Rivals, Species
  <2>6. Out(r) = {}
    BY <2>1 DEF Out, StillOut, OutLabels, TypeOK
  <2> QED BY <2>5, <2>6, FS_EmptySet, OutFinite DEF NotTooMany
<1> QED BY <1>1, TypeCorrect, BegunInvariant, NoLostWakeupTheorem, StillOutInvariant,
           NotTooManyInvariant, PTL

\* The calls of the monitor do not fail.
NoMonitorFault == FaultyCalls \cap {"lock", "unlock", "broadcast"} = {}

\* Then no thread gives up, and the mutex is held by a thread inside the monitor.
Orderly ==
    /\ \A t \in Threads : pc[t] # "failed"
    /\ lock # NoThread => pc[lock] \in HoldLabels

LEMMA OrderlyInvariant == ASSUME NoMonitorFault PROVE Spec => []Orderly
<1>1. Init => Orderly
  BY DEF Init, Orderly
<1>2. TypeOK /\ Unborn /\ Orderly /\ [Next]_vars => Orderly'
  <2> SUFFICES ASSUME TypeOK, Unborn, Orderly, [Next]_vars
               PROVE  Orderly'
    OBVIOUS
  <2>1. ~Fails("lock") /\ ~Fails("unlock") /\ ~Fails("broadcast")
    BY NoMonitorFault DEF NoMonitorFault, Fails
  <2> USE NoThreadIsNone DEF Orderly, HoldLabels, At, Goto, TypeOK, Labels
  <2>2. ASSUME NEW t \in Threads, ThreadStep(t) \/ SpuriousWakeup(t)
        PROVE  Orderly'
    <3>1. CASE EnterLock(t) BY <2>1, <3>1 DEF EnterLock
    <3>2. CASE EnterWait(t) BY <3>2 DEF EnterWait
    <3>3. CASE EnterClear(t) BY <3>3 DEF EnterClear
    <3>4. CASE EnterCount(t) BY <3>4 DEF EnterCount
    <3>5. CASE EnterUnlock(t) BY <2>1, <3>5 DEF EnterUnlock
    <3>6. CASE Relock(t) BY <3>6 DEF Relock
    <3>7. CASE ExitLock(t) BY <2>1, <3>7 DEF ExitLock
    <3>8. CASE ExitCount(t) BY <3>8 DEF ExitCount
    <3>9. CASE ExitUnlock(t) BY <2>1, <3>9 DEF ExitUnlock
    <3>10. CASE ExitSignal(t) BY <2>1, <3>10 DEF ExitSignal, Broadcast
    <3>11. CASE ExitSignalDogs(t) BY <2>1, <3>11 DEF ExitSignalDogs, Broadcast
    <3>12. CASE LoopTest(t) BY <3>12 DEF LoopTest
    <3>13. CASE PlayRead(t) BY <3>13 DEF PlayRead
    <3>14. CASE PlayPair(t) BY <3>14 DEF PlayPair
    <3>15. CASE AssertFails(t) BY <3>15 DEF AssertFails
    <3>16. CASE SpuriousWakeup(t) BY <3>16 DEF SpuriousWakeup
    <3> QED BY <2>2, <3>1, <3>2, <3>3, <3>4, <3>5, <3>6, <3>7, <3>8, <3>9, <3>10, <3>11, <3>12,
               <3>13, <3>14, <3>15, <3>16 DEF ThreadStep
  <2>3. CASE MainSpawn
    <3>1. CASE i < numAnimals
      <4>1. i \in Threads /\ i >= i
        BY <3>1, NumAnimalsNat DEF Threads
      <4>2. pc[i] = "new"
        BY <2>3, <4>1 DEF MainSpawn, Unborn
      <4> QED BY <2>3, <4>1, <4>2 DEF MainSpawn
    <3> QED BY <2>3, <3>1 DEF MainSpawn
  <2>4. CASE MainInit \/ MainSpawned \/ MainJoin \/ MainPrint \/ Tick \/ UNCHANGED vars
    <3>1. UNCHANGED <<lock, pc>>
      BY <2>4 DEF MainInit, MainSpawned, MainJoin, MainPrint, Tick, vars
    <3> QED BY <3>1
  <2> QED BY <2>2, <2>3, <2>4 DEF Next, MainStep, Terminated
<1> QED BY <1>1, <1>2, TypeCorrect, UnbornInvariant, PTL DEF Spec

\* main's own next step.
MainCanGoOn ==
    \/ main \in {"init", "spawn"}
    \/ main = "join" /\ (i = numAnimals \/ pc[i] \in {"done", "failed"})

\* If the calls of the monitor do not fail the pet store never hangs, however many animals
\* there are: while the process runs, main or a thread can go on, or there is time left
\* to pass.
THEOREM NoHang ==
    ASSUME NoMonitorFault
    PROVE  Spec => [](Running => MainCanGoOn \/ ~expired \/ \E t \in Threads : CanGoOn(t))
<1>1. TypeOK /\ Orderly /\ HangNeedsFailure =>
        (Running => MainCanGoOn \/ ~expired \/ \E t \in Threads : CanGoOn(t))
  <2> SUFFICES ASSUME TypeOK, Orderly, HangNeedsFailure, Running, ~MainCanGoOn, expired,
                      \A t \in Threads : ~CanGoOn(t)
               PROVE  FALSE
    OBVIOUS
  <2>1. main = "join" /\ i < numAnimals /\ pc[i] \notin {"done", "failed"}
    BY NumAnimalsNat DEF TypeOK, Running, Over, MainCanGoOn
  <2>2. lock \in Threads /\ pc[lock] \in HoldLabels
    BY <2>1 DEF HangNeedsFailure, Stuck, Orderly, TypeOK
  <2>3. CanGoOn(lock)
    BY <2>2 DEF CanGoOn, HoldLabels
  <2> QED BY <2>2, <2>3
<1>2. Spec => []Orderly
  BY OrderlyInvariant
<1> QED BY <1>1, <1>2, TypeCorrect, HangTheorem, PTL
=============================================================================
