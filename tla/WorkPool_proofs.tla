---------------------------- MODULE WorkPool_proofs ----------------------------
(* Proofs about WorkPool for every number of workers, files and descriptors,   *)
(* every directory and every set of failing calls.                             *)
EXTENDS WorkPool, TLAPS, FiniteSetTheorems

\* Where a thread is inside the monitor.
WorkerInside == {"askTest", "take", "taken", "inc", "incd"}
MainInside == {"testSlot", "post", "posted", "testAll", "unlockAll"}

\* Workers main has not started are where they began.
Unborn == main \in {"init", "spawn"} => \A w \in Workers : i =< w => pc[w] = "new"

\* Who is inside the monitor holds the mutex.
Holds ==
    /\ \A w \in Workers : pc[w] \in WorkerInside => lock = w
    /\ main \in MainInside => lock = Main

\* How far main's loops have come.
Indices ==
    /\ main = "init" => i = 0
    /\ main = "spawn" => i =< numThreads
    /\ main \in {"assign", "print"} => i =< numFiles
    /\ main \in {"testSlot", "slotWait", "slotRelock", "post", "posted", "tellWork"} => i < numFiles

\* What is in the slot and in the workers' hands are files main has handed out,
\* and nobody acts on a slot that has changed since it was looked at.
InHand ==
    /\ availableWork = 1 => fileToWork \in Assigned
    /\ \A w \in Busy : workingFileNumber[w] \in Assigned
    /\ finished \subseteq Assigned
    /\ \A w \in Workers : pc[w] = "take" => availableWork = 1
    /\ main = "post" => availableWork = 0

\* Every finished file has been counted once.
DoneCount == totalWorkDone = Cardinality(finished)

\* main goes on to print only when everything has been counted.
AllDone == main \in {"unlockAll", "print", "exited"} => totalWorkDone = numFiles

IInv == Unborn /\ Holds /\ Indices /\ InHand /\ EachFileOnce /\ DoneCount /\ AllDone

\* The tables hold an acceptable answer for a file when its worker has done it.
Right(f) == errors[f] = 1 \/ checksums[f] \in Answers(f)

Answered ==
    /\ \A f \in Files : errors[f] = 1 => AccessError \in Answers(f) \/ main = "crashed"
    /\ \A w \in Workers : pc[w] \in {"close", "finish", "inc"} => Right(workingFileNumber[w])
    /\ \A f \in finished : Right(f)

\* What main has printed so far.
PrintedSoFar ==
    /\ main \notin {"print", "exited", "crashed"} => printed = <<>>
    /\ main = "print" /\ i = 0 => printed = <<>>
    /\ main = "print" /\ i > 0 =>
        /\ printed \in [0 .. i - 1 -> UNION {Answers(f) : f \in Files}]
        /\ \A f \in 0 .. i - 1 : printed[f] \in Answers(f)

-----------------------------------------------------------------------------
(* Who is who, and what a step leaves alone.                                 *)

\* main is not a worker, and nobody is neither.
LEMMA ThreadFacts == Main \notin Workers /\ NoThread \notin Workers /\ Main # NoThread
BY SizesAssumption DEF Main, NoThread, Workers

\* Files are the numbers below numFiles, workers those below numThreads.
LEMMA NumberFacts ==
    /\ numFiles \in Nat /\ numThreads \in Nat /\ Files \subseteq Nat
    /\ \A f \in Nat : f < numFiles => f \in Files
BY SizesAssumption DEF Files

\* What main has handed out are files.
LEMMA AssignedFacts ==
    ASSUME TypeOK, Indices
    PROVE  Assigned \subseteq Files
BY NumberFacts DEF TypeOK, Indices, Assigned, Files

\* A worker changes nothing of another worker.
LEMMA WorkerFrame ==
    ASSUME TypeOK, NEW w \in Workers, WorkerStep(w)
    PROVE  /\ i' = i /\ printed' = printed
           /\ main' = main \/ (main = "slotWait" /\ main' = "slotRelock")
                \/ (main = "allWait" /\ main' = "allRelock") \/ main' = "crashed"
           /\ \A v \in Workers \ {w} :
                pc'[v] = pc[v] /\ workingFileNumber'[v] = workingFileNumber[v]
<1> USE DEF TypeOK, At, Goto, GiveUp, mainVars
<1>1. CASE LoopTest(w) BY <1>1 DEF LoopTest
<1>2. CASE AskLock(w) BY <1>2 DEF AskLock
<1>3. CASE AskWait(w) BY <1>3 DEF AskWait
<1>4. CASE AskReady(w) BY <1>4 DEF AskReady
<1>5. CASE AskRelock(w) BY <1>5 DEF AskRelock
<1>6. CASE AskTake(w) BY <1>6 DEF AskTake
<1>7. CASE AskUnlock(w) BY <1>7 DEF AskUnlock
<1>8. CASE AskTell(w) BY <1>8 DEF AskTell
<1>9. CASE OpenRejected(w) BY <1>9 DEF OpenRejected
<1>10. CASE Open(w) BY <1>10 DEF Open
<1>11. CASE Close(w) BY <1>11 DEF Close
<1>12. CASE Read(w) BY <1>12 DEF Read
<1>13. CASE FinishLock(w) BY <1>13 DEF FinishLock
<1>14. CASE FinishCount(w) BY <1>14 DEF FinishCount
<1>15. CASE FinishUnlock(w) BY <1>15 DEF FinishUnlock
<1>16. CASE FinishTest(w) BY <1>16 DEF FinishTest
<1>17. CASE FinishTell(w) BY <1>17 DEF FinishTell
<1> QED BY <1>1, <1>2, <1>3, <1>4, <1>5, <1>6, <1>7, <1>8, <1>9, <1>10, <1>11,
       <1>12, <1>13, <1>14, <1>15, <1>16, <1>17 DEF WorkerStep

\* main and a spurious wake-up change nothing of a worker, except that they wake
\* it up, or start it.
LEMMA MainFrame ==
    ASSUME TypeOK, Unborn, MainStep \/ SpuriousWakeup \/ UNCHANGED vars
    PROVE  /\ UNCHANGED <<workerVars, totalWorkDone>>
           /\ \A v \in Workers : \/ pc'[v] = pc[v] \/ (pc[v] = "new" /\ pc'[v] = "loop")
                                 \/ (pc[v] = "askWait" /\ pc'[v] = "askRelock")
<1> USE DEF TypeOK, At, Goto, AtMain, GotoMain, workerVars, results
<1>1. CASE MainSpawn
  <2>1. \A v \in Workers : v = i => pc[v] = "new"
    BY <1>1 DEF MainSpawn, Unborn, Workers
  <2> QED BY <1>1, <2>1 DEF MainSpawn
<1>2. CASE AssignTell BY <1>2 DEF AssignTell, WakeWorkers
<1>3. CASE SpuriousWakeup BY <1>3 DEF SpuriousWakeup
<1>4. CASE UNCHANGED vars BY <1>4 DEF vars
<1>5. CASE MainStep /\ ~MainSpawn /\ ~AssignTell
  BY <1>5 DEF MainStep, MainInit, AssignLock, AssignWait, AssignReady, AssignPost,
              AssignUnlock, AwaitLock, AwaitWait, AwaitReady, AwaitUnlock, MainRelock,
              PrintResults
<1> QED BY <1>1, <1>2, <1>3, <1>4, <1>5

\* Checksums are numbers.
LEMMA ChecksumFacts ==
    \A f \in Files : kind[f] \in {"good", "long", "cut"} => BufferCrc(f) \in Int
<1>1. \A f \in Files : f \in Int /\ numFiles \in Int
  BY NumberFacts
<1> QED BY <1>1 DEF BufferCrc, Crc, Prefix, Garbage

\* What the two ways to deal with an open file may leave in the tables.
LEMMA AnswerFacts ==
    ASSUME NEW f
    PROVE  /\ FileLength(f) = "zero" => 0 \in Answers(f)
           /\ Fails("malloc") \/ FileLength(f) = "negative" => AccessError \in Answers(f)
           /\ kind[f] \in {"good", "long", "cut"} => BufferCrc(f) \in Answers(f)
  BY DEF FileLength, Answers, Required, BufferCrc, Crc

-----------------------------------------------------------------------------
(* The invariant, part by part.                                              *)

\* Workers start in order.
LEMMA UnbornKept ==
    ASSUME TypeOK, Unborn, [Next]_vars
    PROVE  Unborn'
<1> USE NumberFacts DEF TypeOK, Unborn, Workers
<1>1. ASSUME NEW w \in Workers, WorkerStep(w)
      PROVE  Unborn'
  <2>1. pc[w] # "new"
    BY <1>1 DEF WorkerStep, LoopTest, AskLock, AskWait, AskReady, AskRelock, AskTake,
              AskUnlock, AskTell, OpenRejected, Open, Close, Read, FinishLock, FinishCount,
              FinishUnlock, FinishTest, FinishTell, At
  <2> QED BY <1>1, <2>1, WorkerFrame
<1>2. CASE MainInit BY <1>2 DEF MainInit, AtMain, GotoMain
<1>3. CASE MainSpawn BY <1>3 DEF MainSpawn, AtMain, GotoMain, Goto
<1>4. CASE MainStep /\ ~MainInit /\ ~MainSpawn
  BY <1>4 DEF MainStep, AssignLock, AssignWait, AssignReady, AssignPost, AssignUnlock,
              AssignTell, AwaitLock, AwaitWait, AwaitReady, AwaitUnlock, MainRelock,
              PrintResults, AtMain, GotoMain
<1>5. CASE SpuriousWakeup BY <1>5 DEF SpuriousWakeup, At, Goto, AtMain, GotoMain
<1>6. CASE UNCHANGED vars BY <1>6 DEF vars, mainVars
<1> QED BY <1>1, <1>2, <1>3, <1>4, <1>5, <1>6 DEF Next, Terminated

\* Only a thread that gets the mutex comes inside, and it gives it back when it
\* leaves, unless an unlock fails.
LEMMA HoldsKept ==
    ASSUME TypeOK, Holds, [Next]_vars
    PROVE  Holds'
<1> USE ThreadFacts DEF TypeOK, Holds, WorkerInside, MainInside
<1>1. ASSUME NEW w \in Workers, WorkerStep(w)
      PROVE  Holds'
  <2> USE DEF At, Goto, GiveUp, mainVars
  <2>1. CASE LoopTest(w) BY <2>1 DEF LoopTest
  <2>2. CASE AskLock(w) BY <2>2 DEF AskLock
  <2>3. CASE AskWait(w) BY <2>3 DEF AskWait
  <2>4. CASE AskReady(w) BY <2>4 DEF AskReady
  <2>5. CASE AskRelock(w) BY <2>5 DEF AskRelock
  <2>6. CASE AskTake(w) BY <2>6 DEF AskTake
  <2>7. CASE AskUnlock(w) BY <2>7 DEF AskUnlock
  <2>8. CASE AskTell(w) BY <2>8 DEF AskTell
  <2>9. CASE OpenRejected(w) BY <2>9 DEF OpenRejected
  <2>10. CASE Open(w) BY <2>10 DEF Open
  <2>11. CASE Close(w) BY <2>11 DEF Close
  <2>12. CASE Read(w) BY <2>12 DEF Read
  <2>13. CASE FinishLock(w) BY <2>13 DEF FinishLock
  <2>14. CASE FinishCount(w) BY <2>14 DEF FinishCount
  <2>15. CASE FinishUnlock(w) BY <2>15 DEF FinishUnlock
  <2>16. CASE FinishTest(w) BY <2>16 DEF FinishTest
  <2>17. CASE FinishTell(w) BY <2>17 DEF FinishTell
  <2> QED BY <1>1, <2>1, <2>2, <2>3, <2>4, <2>5, <2>6, <2>7, <2>8, <2>9, <2>10, <2>11,
         <2>12, <2>13, <2>14, <2>15, <2>16, <2>17 DEF WorkerStep
<1>2. CASE MainStep
  <2> USE DEF AtMain, GotoMain, Goto
  <2>1. CASE MainInit BY <2>1 DEF MainInit
  <2>2. CASE MainSpawn BY <2>2 DEF MainSpawn
  <2>3. CASE AssignLock BY <2>3 DEF AssignLock
  <2>4. CASE AssignWait BY <2>4 DEF AssignWait
  <2>5. CASE AssignReady BY <2>5 DEF AssignReady
  <2>6. CASE AssignPost BY <2>6 DEF AssignPost
  <2>7. CASE AssignUnlock BY <2>7 DEF AssignUnlock
  <2>8. CASE AssignTell BY <2>8 DEF AssignTell, WakeWorkers
  <2>9. CASE AwaitLock BY <2>9 DEF AwaitLock
  <2>10. CASE AwaitWait BY <2>10 DEF AwaitWait
  <2>11. CASE AwaitReady BY <2>11 DEF AwaitReady
  <2>12. CASE AwaitUnlock BY <2>12 DEF AwaitUnlock
  <2>13. CASE MainRelock BY <2>13 DEF MainRelock
  <2>14. CASE PrintResults BY <2>14 DEF PrintResults
  <2> QED BY <1>2, <2>1, <2>2, <2>3, <2>4, <2>5, <2>6, <2>7, <2>8, <2>9, <2>10, <2>11,
         <2>12, <2>13, <2>14 DEF MainStep
<1>3. CASE SpuriousWakeup BY <1>3 DEF SpuriousWakeup, At, Goto, AtMain, GotoMain
<1>4. CASE UNCHANGED vars BY <1>4 DEF vars, mainVars
<1> QED BY <1>1, <1>2, <1>3, <1>4 DEF Next, Terminated

\* main's loops stay within the number of workers and of files.
LEMMA IndicesKept ==
    ASSUME TypeOK, Indices, [Next]_vars
    PROVE  Indices'
<1> USE NumberFacts DEF TypeOK, Indices
<1>1. ASSUME NEW w \in Workers, WorkerStep(w)
      PROVE  Indices'
  BY <1>1, WorkerFrame
<1>2. CASE MainStep
  <2> USE DEF AtMain, GotoMain
  <2>1. CASE MainInit BY <2>1 DEF MainInit
  <2>2. CASE MainSpawn BY <2>2 DEF MainSpawn
  <2>3. CASE AssignLock BY <2>3 DEF AssignLock
  <2>4. CASE AssignWait BY <2>4 DEF AssignWait
  <2>5. CASE AssignReady BY <2>5 DEF AssignReady
  <2>6. CASE AssignPost BY <2>6 DEF AssignPost
  <2>7. CASE AssignUnlock BY <2>7 DEF AssignUnlock
  <2>8. CASE AssignTell BY <2>8 DEF AssignTell
  <2>9. CASE AwaitLock BY <2>9 DEF AwaitLock
  <2>10. CASE AwaitWait BY <2>10 DEF AwaitWait
  <2>11. CASE AwaitReady BY <2>11 DEF AwaitReady
  <2>12. CASE AwaitUnlock BY <2>12 DEF AwaitUnlock
  <2>13. CASE MainRelock BY <2>13 DEF MainRelock
  <2>14. CASE PrintResults BY <2>14 DEF PrintResults
  <2> QED BY <1>2, <2>1, <2>2, <2>3, <2>4, <2>5, <2>6, <2>7, <2>8, <2>9, <2>10, <2>11,
         <2>12, <2>13, <2>14 DEF MainStep
<1>3. CASE SpuriousWakeup BY <1>3 DEF SpuriousWakeup, AtMain, GotoMain
<1>4. CASE UNCHANGED vars BY <1>4 DEF vars, mainVars
<1> QED BY <1>1, <1>2, <1>3, <1>4 DEF Next, Terminated

\* main takes no file back that it has handed out.
LEMMA AssignedGrows ==
    ASSUME TypeOK, Indices, [Next]_vars
    PROVE  Assigned \subseteq Assigned'
<1> USE NumberFacts, AssignedFacts DEF TypeOK, Indices
<1>1. ASSUME NEW w \in Workers, WorkerStep(w)
      PROVE  Assigned \subseteq Assigned'
  BY <1>1, WorkerFrame DEF Assigned
<1>2. CASE MainStep
  <2> USE DEF AtMain, GotoMain, Assigned
  <2>1. CASE MainInit BY <2>1 DEF MainInit
  <2>2. CASE MainSpawn BY <2>2 DEF MainSpawn
  <2>3. CASE AssignLock BY <2>3 DEF AssignLock
  <2>4. CASE AssignWait BY <2>4 DEF AssignWait
  <2>5. CASE AssignReady BY <2>5 DEF AssignReady
  <2>6. CASE AssignPost BY <2>6 DEF AssignPost
  <2>7. CASE AssignUnlock BY <2>7 DEF AssignUnlock
  <2>8. CASE AssignTell BY <2>8 DEF AssignTell
  <2>9. CASE AwaitLock BY <2>9 DEF AwaitLock
  <2>10. CASE AwaitWait BY <2>10 DEF AwaitWait
  <2>11. CASE AwaitReady BY <2>11 DEF AwaitReady
  <2>12. CASE AwaitUnlock BY <2>12 DEF AwaitUnlock
  <2>13. CASE MainRelock BY <2>13 DEF MainRelock
  <2>14. CASE PrintResults BY <2>14 DEF PrintResults
  <2> QED BY <1>2, <2>1, <2>2, <2>3, <2>4, <2>5, <2>6, <2>7, <2>8, <2>9, <2>10, <2>11,
         <2>12, <2>13, <2>14 DEF MainStep
<1>3. CASE SpuriousWakeup BY <1>3 DEF SpuriousWakeup, AtMain, GotoMain, Assigned
<1>4. CASE UNCHANGED vars BY <1>4 DEF vars, mainVars, Assigned
<1> QED BY <1>1, <1>2, <1>3, <1>4 DEF Next, Terminated

\* What is in the slot, in hand or finished has been handed out, and a slot that has
\* been looked at does not change before the mutex is given back.
LEMMA InHandKept ==
    ASSUME TypeOK, Unborn, Holds, Indices, InHand, [Next]_vars
    PROVE  InHand'
<1> USE AssignedGrows DEF TypeOK, InHand, Busy, BusyLabels
<1>1. ASSUME NEW w \in Workers, WorkerStep(w)
      PROVE  InHand'
  <2> USE DEF At, Goto, GiveUp, mainVars, slot
  <2>1. CASE LoopTest(w) BY <2>1 DEF LoopTest
  <2>2. CASE AskLock(w) BY <2>2 DEF AskLock
  <2>3. CASE AskWait(w) BY <2>3 DEF AskWait
  <2>4. CASE AskReady(w) BY <2>4 DEF AskReady
  <2>5. CASE AskRelock(w) BY <2>5 DEF AskRelock
  <2>6. CASE AskTake(w)
    <3>1. main # "post" /\ \A v \in Workers \ {w} : pc[v] # "take"
      BY <2>6, ThreadFacts DEF AskTake, Holds, WorkerInside, MainInside
    <3> QED BY <2>6, <3>1 DEF AskTake
  <2>7. CASE AskUnlock(w) BY <2>7 DEF AskUnlock
  <2>8. CASE AskTell(w) BY <2>8 DEF AskTell
  <2>9. CASE OpenRejected(w) BY <2>9 DEF OpenRejected
  <2>10. CASE Open(w) BY <2>10 DEF Open
  <2>11. CASE Close(w) BY <2>11 DEF Close
  <2>12. CASE Read(w) BY <2>12 DEF Read
  <2>13. CASE FinishLock(w) BY <2>13 DEF FinishLock
  <2>14. CASE FinishCount(w) BY <2>14 DEF FinishCount
  <2>15. CASE FinishUnlock(w) BY <2>15 DEF FinishUnlock
  <2>16. CASE FinishTest(w) BY <2>16 DEF FinishTest
  <2>17. CASE FinishTell(w) BY <2>17 DEF FinishTell
  <2> QED BY <1>1, <2>1, <2>2, <2>3, <2>4, <2>5, <2>6, <2>7, <2>8, <2>9, <2>10, <2>11,
         <2>12, <2>13, <2>14, <2>15, <2>16, <2>17 DEF WorkerStep
<1>2. CASE MainStep \/ SpuriousWakeup \/ UNCHANGED vars
  <2>1. /\ \A w \in Workers : pc'[w] = pc[w] \/ pc'[w] \notin BusyLabels \cup {"take"}
        /\ finished' = finished /\ workingFileNumber' = workingFileNumber
    BY <1>2, MainFrame DEF workerVars
  <2>2. CASE AssignPost
    <3>1. \A w \in Workers : pc[w] # "take"
      BY <2>2, ThreadFacts DEF AssignPost, AtMain, Holds, WorkerInside, MainInside
    <3>2. fileToWork' \in Assigned' /\ main' # "post" /\ pc' = pc
      BY <2>2, NumberFacts DEF AssignPost, Assigned, GotoMain
    <3> QED BY <2>1, <3>1, <3>2
  <2>3. CASE ~AssignPost
    <3>1. availableWork' = availableWork /\ fileToWork' = fileToWork
      BY <1>2, <2>3 DEF MainStep, MainInit, MainSpawn, AssignLock, AssignWait, AssignReady,
              AssignUnlock, AssignTell, AwaitLock, AwaitWait, AwaitReady, AwaitUnlock,
              MainRelock, PrintResults, SpuriousWakeup, vars, slot
    <3>2. main' = "post" => availableWork = 0
      BY <1>2, <2>3 DEF MainStep, MainInit, MainSpawn, AssignLock, AssignWait, AssignReady,
              AssignUnlock, AssignTell, AwaitLock, AwaitWait, AwaitReady, AwaitUnlock,
              MainRelock, PrintResults, SpuriousWakeup, vars, mainVars, GotoMain, AtMain
    <3> QED BY <2>1, <3>1, <3>2
  <2> QED BY <2>2, <2>3
<1> QED BY <1>1, <1>2 DEF Next, Terminated

\* The variables keep their types.
LEMMA TypeKept ==
    ASSUME TypeOK, Indices, InHand, [Next]_vars
    PROVE  TypeOK'
<1> USE NumberFacts, AssignedFacts DEF TypeOK, WorkerLabels, MainLabels, Over
<1>1. ASSUME NEW w \in Workers, WorkerStep(w)
      PROVE  TypeOK'
  <2> USE DEF At, Goto, GiveUp, mainVars, slot, results
  <2>1. CASE LoopTest(w) BY <2>1 DEF LoopTest
  <2>2. CASE AskLock(w) BY <2>2 DEF AskLock
  <2>3. CASE AskWait(w) BY <2>3 DEF AskWait
  <2>4. CASE AskReady(w) BY <2>4 DEF AskReady
  <2>5. CASE AskRelock(w) BY <2>5 DEF AskRelock
  <2>6. CASE AskTake(w) BY <2>6 DEF AskTake
  <2>7. CASE AskUnlock(w) BY <2>7 DEF AskUnlock
  <2>8. CASE AskTell(w) BY <2>8 DEF AskTell
  <2>9. CASE OpenRejected(w) BY <2>9 DEF OpenRejected
  <2>10. CASE Open(w) BY <2>10 DEF Open
  <2>11. CASE Close(w) BY <2>11 DEF Close
  <2>12. CASE Read(w) BY <2>12, ChecksumFacts DEF Read
  <2>13. CASE FinishLock(w) BY <2>13 DEF FinishLock
  <2>14. CASE FinishCount(w)
    <3>1. workingFileNumber[w] \in Files
      BY <2>14 DEF FinishCount, InHand, Busy, BusyLabels
    <3>2. finished' \subseteq Files
      BY <2>14, <3>1 DEF FinishCount
    <3>4. totalWorkDone' \in Nat
      BY <2>14 DEF FinishCount
    <3>3. pc' \in [Workers -> WorkerLabels]
      BY <2>14 DEF FinishCount
    <3> QED BY <2>14, <3>2, <3>3, <3>4 DEF FinishCount
  <2>15. CASE FinishUnlock(w) BY <2>15 DEF FinishUnlock
  <2>16. CASE FinishTest(w) BY <2>16 DEF FinishTest
  <2>17. CASE FinishTell(w) BY <2>17 DEF FinishTell
  <2> QED BY <1>1, <2>1, <2>2, <2>3, <2>4, <2>5, <2>6, <2>7, <2>8, <2>9, <2>10, <2>11,
         <2>12, <2>13, <2>14, <2>15, <2>16, <2>17 DEF WorkerStep
<1>2. CASE MainStep
  <2> USE DEF AtMain, GotoMain, Goto, slot, results, workerVars
  <2>1. CASE MainInit BY <2>1 DEF MainInit
  <2>2. CASE MainSpawn BY <2>2 DEF MainSpawn
  <2>3. CASE AssignLock BY <2>3 DEF AssignLock
  <2>4. CASE AssignWait BY <2>4 DEF AssignWait
  <2>5. CASE AssignReady BY <2>5 DEF AssignReady
  <2>6. CASE AssignPost BY <2>6 DEF AssignPost, Indices
  <2>7. CASE AssignUnlock BY <2>7 DEF AssignUnlock
  <2>8. CASE AssignTell BY <2>8 DEF AssignTell, WakeWorkers
  <2>9. CASE AwaitLock BY <2>9 DEF AwaitLock
  <2>10. CASE AwaitWait BY <2>10 DEF AwaitWait
  <2>11. CASE AwaitReady BY <2>11 DEF AwaitReady
  <2>12. CASE AwaitUnlock BY <2>12 DEF AwaitUnlock
  <2>13. CASE MainRelock BY <2>13 DEF MainRelock
  <2>14. CASE PrintResults BY <2>14 DEF PrintResults
  <2> QED BY <1>2, <2>1, <2>2, <2>3, <2>4, <2>5, <2>6, <2>7, <2>8, <2>9, <2>10, <2>11,
         <2>12, <2>13, <2>14 DEF MainStep
<1>3. CASE SpuriousWakeup
  BY <1>3 DEF SpuriousWakeup, At, Goto, AtMain, GotoMain, slot, results, workerVars
<1>4. CASE UNCHANGED vars BY <1>4 DEF vars, slot, results, mainVars
<1> QED BY <1>1, <1>2, <1>3, <1>4 DEF Next, Terminated

\* A file that is posted is a new one, the worker that takes it is the only one to
\* have it, and it is counted by that worker.
LEMMA OnceKept ==
    ASSUME TypeOK, Unborn, Holds, Indices, InHand, EachFileOnce, [Next]_vars
    PROVE  EachFileOnce'
<1> USE DEF TypeOK, EachFileOnce, Busy, BusyLabels
<1>1. ASSUME NEW w \in Workers, WorkerStep(w)
      PROVE  EachFileOnce'
  <2> USE DEF At, Goto, GiveUp, mainVars, slot
  <2>1. CASE LoopTest(w) BY <2>1 DEF LoopTest
  <2>2. CASE AskLock(w) BY <2>2 DEF AskLock
  <2>3. CASE AskWait(w) BY <2>3 DEF AskWait
  <2>4. CASE AskReady(w) BY <2>4 DEF AskReady
  <2>5. CASE AskRelock(w) BY <2>5 DEF AskRelock
  <2>6. CASE AskTake(w) BY <2>6 DEF AskTake, InHand
  <2>7. CASE AskUnlock(w) BY <2>7 DEF AskUnlock
  <2>8. CASE AskTell(w) BY <2>8 DEF AskTell
  <2>9. CASE OpenRejected(w) BY <2>9 DEF OpenRejected
  <2>10. CASE Open(w) BY <2>10 DEF Open
  <2>11. CASE Close(w) BY <2>11 DEF Close
  <2>12. CASE Read(w) BY <2>12 DEF Read
  <2>13. CASE FinishLock(w) BY <2>13 DEF FinishLock
  <2>14. CASE FinishCount(w) BY <2>14 DEF FinishCount
  <2>15. CASE FinishUnlock(w) BY <2>15 DEF FinishUnlock
  <2>16. CASE FinishTest(w) BY <2>16 DEF FinishTest
  <2>17. CASE FinishTell(w) BY <2>17 DEF FinishTell
  <2> QED BY <1>1, <2>1, <2>2, <2>3, <2>4, <2>5, <2>6, <2>7, <2>8, <2>9, <2>10, <2>11,
         <2>12, <2>13, <2>14, <2>15, <2>16, <2>17 DEF WorkerStep
<1>2. CASE MainStep \/ SpuriousWakeup \/ UNCHANGED vars
  <2>1. /\ \A w \in Workers : pc'[w] = pc[w] \/ pc'[w] \notin BusyLabels
        /\ finished' = finished /\ workingFileNumber' = workingFileNumber
    BY <1>2, MainFrame DEF workerVars
  <2>2. CASE AssignPost
    <3>1. fileToWork' = i /\ i \notin Assigned
      BY <2>2, NumberFacts DEF AssignPost, AtMain, Assigned
    <3>2. i \notin finished /\ \A w \in Busy : workingFileNumber[w] # i
      BY <3>1 DEF InHand
    <3> QED BY <2>1, <3>1, <3>2
  <2>3. CASE ~AssignPost
    <3>1. availableWork' = availableWork /\ fileToWork' = fileToWork
      BY <1>2, <2>3 DEF MainStep, MainInit, MainSpawn, AssignLock, AssignWait, AssignReady,
              AssignUnlock, AssignTell, AwaitLock, AwaitWait, AwaitReady, AwaitUnlock,
              MainRelock, PrintResults, SpuriousWakeup, vars, slot
    <3> QED BY <2>1, <3>1
  <2> QED BY <2>2, <2>3
<1> QED BY <1>1, <1>2 DEF Next, Terminated

\* totalWorkDone is incremented once for each file.
LEMMA CountKept ==
    ASSUME TypeOK, Unborn, EachFileOnce, DoneCount, [Next]_vars
    PROVE  DoneCount'
<1> USE DEF TypeOK, DoneCount
<1>0. IsFiniteSet(finished)
  <2>1. IsFiniteSet(Files)
    BY NumberFacts, FS_Interval DEF Files
  <2> QED BY <2>1, FS_Subset
<1>1. ASSUME NEW w \in Workers, WorkerStep(w)
      PROVE  DoneCount'
  <2>1. CASE FinishCount(w)
    <3>1. workingFileNumber[w] \notin finished
      BY <2>1 DEF FinishCount, At, EachFileOnce, Busy, BusyLabels
    <3> QED BY <2>1, <3>1, <1>0, FS_AddElement DEF FinishCount
  <2>2. CASE ~FinishCount(w)
    BY <1>1, <2>2 DEF WorkerStep, LoopTest, AskLock, AskWait, AskReady, AskRelock, AskTake,
              AskUnlock, AskTell, OpenRejected, Open, Close, Read, FinishLock, FinishUnlock,
              FinishTest, FinishTell
  <2> QED BY <2>1, <2>2
<1>2. CASE MainStep \/ SpuriousWakeup \/ UNCHANGED vars
  BY <1>2, MainFrame DEF workerVars
<1> QED BY <1>1, <1>2 DEF Next, Terminated

\* The count never exceeds the number of files, and when it has reached it every
\* file is finished.
LEMMA CountFacts ==
    ASSUME TypeOK, DoneCount
    PROVE  /\ totalWorkDone =< numFiles
           /\ totalWorkDone = numFiles <=> finished = Files
<1>1. IsFiniteSet(Files) /\ Cardinality(Files) = numFiles
  BY NumberFacts, FS_Interval DEF Files
<1>2. Cardinality(finished) =< Cardinality(Files)
      /\ (Cardinality(finished) = Cardinality(Files) => finished = Files)
  BY <1>1, FS_Subset DEF TypeOK
<1> QED BY <1>1, <1>2 DEF DoneCount

\* main leaves its last wait only when the count is complete.
LEMMA AllDoneKept ==
    ASSUME TypeOK, IInv, [Next]_vars
    PROVE  AllDone'
<1> USE NumberFacts, CountFacts DEF TypeOK, IInv, AllDone
<1>1. ASSUME NEW w \in Workers, WorkerStep(w)
      PROVE  AllDone'
  <2>1. CASE FinishCount(w)
    <3>1. w \in Busy
      BY <2>1 DEF FinishCount, At, Busy, BusyLabels
    <3>2. workingFileNumber[w] \in Files \ finished
      BY <3>1, AssignedFacts DEF InHand, EachFileOnce
    <3>3. totalWorkDone # numFiles
      BY <3>2, CountFacts
    <3>4. main \notin {"unlockAll", "print", "exited"} /\ main' = main
      BY <2>1, <3>3 DEF FinishCount, mainVars
    <3> QED BY <3>4
  <2>2. CASE ~FinishCount(w)
    <3>1. totalWorkDone' = totalWorkDone
      BY <1>1, <2>2 DEF WorkerStep, LoopTest, AskLock, AskWait, AskReady, AskRelock,
              AskTake, AskUnlock, AskTell, OpenRejected, Open, Close, Read, FinishLock,
              FinishUnlock, FinishTest, FinishTell
    <3> QED BY <1>1, <3>1, WorkerFrame
  <2> QED BY <2>1, <2>2
<1>2. CASE MainStep \/ SpuriousWakeup \/ UNCHANGED vars
  <2>1. totalWorkDone' = totalWorkDone
    BY <1>2, MainFrame
  <2>2. main' \in {"unlockAll", "print", "exited"} =>
          main \in {"unlockAll", "print", "exited"} \/ AwaitReady
    BY <1>2 DEF MainStep, MainInit, MainSpawn, AssignLock, AssignWait, AssignReady, AssignPost,
              AssignUnlock, AssignTell, AwaitLock, AwaitWait, AwaitUnlock, MainRelock,
              PrintResults, SpuriousWakeup, vars, mainVars, AtMain, GotoMain
  <2> QED BY <2>1, <2>2 DEF AwaitReady
<1> QED BY <1>1, <1>2 DEF Next, Terminated

-----------------------------------------------------------------------------
(* The theorems of the monitor.                                              *)

\* The variables hold values of their types, and the account of the files is right.
THEOREM Invariance == Spec => [](TypeOK /\ IInv)
<1>1. Init => TypeOK /\ IInv
  <2> SUFFICES ASSUME Init PROVE TypeOK /\ IInv
    OBVIOUS
  <2>1. checksums \in [Files -> Int] /\ errors \in [Files -> {0, 1}]
    BY DEF Init
  <2>2. pc \in [Workers -> WorkerLabels] /\ workingFileNumber \in [Workers -> Files \cup {0}]
    BY DEF Init, WorkerLabels
  <2>3. TypeOK
    BY <2>1, <2>2 DEF Init, TypeOK, MainLabels
  <2>4. Unborn /\ Holds /\ Indices /\ InHand /\ EachFileOnce /\ AllDone
    BY DEF Init, Unborn, Holds, WorkerInside, MainInside, Indices, InHand, Busy, BusyLabels,
           EachFileOnce, AllDone
  <2>5. DoneCount
    BY FS_EmptySet DEF Init, DoneCount
  <2> QED BY <2>3, <2>4, <2>5 DEF IInv
<1>2. TypeOK /\ IInv /\ [Next]_vars => TypeOK' /\ IInv'
  BY TypeKept, UnbornKept, HoldsKept, IndicesKept, InHandKept, OnceKept, CountKept,
     AllDoneKept DEF IInv
<1> QED BY <1>1, <1>2, PTL DEF Spec

\* No file is worked on twice, whatever calls fail.
THEOREM EachFileOnceTheorem == Spec => []EachFileOnce
<1>1. IInv => EachFileOnce
  BY DEF IInv
<1> QED BY <1>1, Invariance, PTL

\* Nobody is at work on a file when main prints the tables and leaves them, whatever
\* calls fail: every file has been counted, and only who has not counted is at work.
THEOREM TablesQuietTheorem == Spec => []TablesQuiet
<1>1. TypeOK /\ IInv => TablesQuiet
  <2> SUFFICES ASSUME TypeOK, IInv, main \in {"print", "exited"}, NEW w \in Busy
               PROVE  FALSE
    BY DEF TablesQuiet
  <2>1. finished = Files
    BY CountFacts DEF IInv, AllDone
  <2>2. workingFileNumber[w] \in Files \ finished
    BY AssignedFacts DEF IInv, InHand, EachFileOnce
  <2> QED BY <2>1, <2>2
<1> QED BY <1>1, Invariance, PTL

\* No worker sleeps beside a full slot, whatever calls fail, unless the process is
\* over or main is about to wake the workers.
THEOREM NoLostWorkTheorem == Spec => []NoLostWork
<1>1. Init => NoLostWork
  BY DEF Init, NoLostWork
<1>2. TypeOK /\ IInv /\ NoLostWork /\ [Next]_vars => NoLostWork'
  <2> SUFFICES ASSUME TypeOK, IInv, NoLostWork, [Next]_vars
               PROVE  NoLostWork'
    OBVIOUS
  <2> USE DEF TypeOK, NoLostWork
  <2>1. ASSUME NEW w \in Workers, WorkerStep(w)
        PROVE  NoLostWork'
    <3> USE DEF At, Goto, GiveUp, mainVars, slot
    <3>1. CASE LoopTest(w) BY <3>1 DEF LoopTest
    <3>2. CASE AskLock(w) BY <3>2 DEF AskLock
    <3>3. CASE AskWait(w) BY <3>3 DEF AskWait
    <3>4. CASE AskReady(w) BY <3>4 DEF AskReady
    <3>5. CASE AskRelock(w) BY <3>5 DEF AskRelock
    <3>6. CASE AskTake(w) BY <3>6 DEF AskTake
    <3>7. CASE AskUnlock(w) BY <3>7 DEF AskUnlock
    <3>8. CASE AskTell(w) BY <3>8 DEF AskTell
    <3>9. CASE OpenRejected(w) BY <3>9 DEF OpenRejected
    <3>10. CASE Open(w) BY <3>10 DEF Open
    <3>11. CASE Close(w) BY <3>11 DEF Close
    <3>12. CASE Read(w) BY <3>12 DEF Read
    <3>13. CASE FinishLock(w) BY <3>13 DEF FinishLock
    <3>14. CASE FinishCount(w) BY <3>14 DEF FinishCount
    <3>15. CASE FinishUnlock(w) BY <3>15 DEF FinishUnlock
    <3>16. CASE FinishTest(w) BY <3>16 DEF FinishTest
    <3>17. CASE FinishTell(w) BY <3>17 DEF FinishTell
    <3> QED BY <2>1, <3>1, <3>2, <3>3, <3>4, <3>5, <3>6, <3>7, <3>8, <3>9, <3>10, <3>11,
           <3>12, <3>13, <3>14, <3>15, <3>16, <3>17 DEF WorkerStep
  <2>2. CASE MainStep
    <3> USE DEF AtMain, GotoMain, Goto, slot
    <3>1. CASE MainInit BY <3>1 DEF MainInit
    <3>2. CASE MainSpawn
      <4>1. \A w \in Workers : pc'[w] = "askWait" => pc[w] = "askWait"
        BY <2>2, MainFrame DEF IInv
      <4> QED BY <3>2, <4>1 DEF MainSpawn
    <3>3. CASE AssignLock BY <3>3 DEF AssignLock
    <3>4. CASE AssignWait BY <3>4 DEF AssignWait
    <3>5. CASE AssignReady BY <3>5 DEF AssignReady
    <3>6. CASE AssignPost BY <3>6 DEF AssignPost
    <3>7. CASE AssignUnlock BY <3>7 DEF AssignUnlock
    <3>8. CASE AssignTell BY <3>8 DEF AssignTell, WakeWorkers
    <3>9. CASE AwaitLock BY <3>9 DEF AwaitLock
    <3>10. CASE AwaitWait BY <3>10 DEF AwaitWait
    <3>11. CASE AwaitReady BY <3>11 DEF AwaitReady
    <3>12. CASE AwaitUnlock BY <3>12 DEF AwaitUnlock
    <3>13. CASE MainRelock BY <3>13 DEF MainRelock
    <3>14. CASE PrintResults BY <3>14 DEF PrintResults
    <3> QED BY <2>2, <3>1, <3>2, <3>3, <3>4, <3>5, <3>6, <3>7, <3>8, <3>9, <3>10, <3>11,
           <3>12, <3>13, <3>14 DEF MainStep
  <2>3. CASE SpuriousWakeup BY <2>3 DEF SpuriousWakeup, At, Goto, AtMain, GotoMain, slot
  <2>4. CASE UNCHANGED vars BY <2>4 DEF vars, mainVars, slot
  <2> QED BY <2>1, <2>2, <2>3, <2>4 DEF Next, Terminated
<1> QED BY <1>1, <1>2, Invariance, PTL DEF Spec

\* main never sleeps for good, unless a worker has given up: who has taken the last
\* file or counted it is on its way to the broadcast.
THEOREM NoLostMainTheorem == Spec => []NoLostMain
<1>1. Init => NoLostMain
  BY DEF Init, NoLostMain
<1>2. TypeOK /\ IInv /\ NoLostMain /\ [Next]_vars => NoLostMain'
  <2> SUFFICES ASSUME TypeOK, IInv, NoLostMain, [Next]_vars
               PROVE  NoLostMain'
    OBVIOUS
  <2> USE NumberFacts DEF TypeOK, NoLostMain, SomeoneGone
  <2>1. ASSUME NEW w \in Workers, WorkerStep(w)
        PROVE  NoLostMain'
    <3> USE DEF At, Goto, GiveUp, mainVars, slot
    <3>0. totalWorkDone =< numFiles
      BY CountFacts DEF IInv
    <3>1. CASE LoopTest(w) BY <3>1, <3>0 DEF LoopTest
    <3>2. CASE AskLock(w) BY <3>2, <3>0 DEF AskLock
    <3>3. CASE AskWait(w) BY <3>3, <3>0 DEF AskWait
    <3>4. CASE AskReady(w) BY <3>4, <3>0 DEF AskReady
    <3>5. CASE AskRelock(w) BY <3>5, <3>0 DEF AskRelock
    <3>6. CASE AskTake(w) BY <3>6, <3>0 DEF AskTake
    <3>7. CASE AskUnlock(w) BY <3>7, <3>0 DEF AskUnlock
    <3>8. CASE AskTell(w) BY <3>8, <3>0 DEF AskTell
    <3>9. CASE OpenRejected(w) BY <3>9, <3>0 DEF OpenRejected
    <3>10. CASE Open(w) BY <3>10, <3>0 DEF Open
    <3>11. CASE Close(w) BY <3>11, <3>0 DEF Close
    <3>12. CASE Read(w) BY <3>12, <3>0 DEF Read
    <3>13. CASE FinishLock(w) BY <3>13, <3>0 DEF FinishLock
    <3>14. CASE FinishCount(w) BY <3>14, <3>0 DEF FinishCount
    <3>15. CASE FinishUnlock(w) BY <3>15, <3>0 DEF FinishUnlock
    <3>16. CASE FinishTest(w) BY <3>16, <3>0 DEF FinishTest
    <3>17. CASE FinishTell(w) BY <3>17, <3>0 DEF FinishTell
    <3> QED BY <2>1, <3>1, <3>2, <3>3, <3>4, <3>5, <3>6, <3>7, <3>8, <3>9, <3>10, <3>11,
           <3>12, <3>13, <3>14, <3>15, <3>16, <3>17 DEF WorkerStep
  <2>2. CASE MainStep \/ SpuriousWakeup \/ UNCHANGED vars
    <3>1. /\ totalWorkDone' = totalWorkDone
          /\ \A w \in Workers : pc[w] \in {"gone", "taken", "tell", "incd", "testDone", "tellDone"}
                => pc'[w] = pc[w]
      BY <2>2, MainFrame DEF IInv
    <3>2. main' = "slotWait" => availableWork' # 0 \/ (main = "slotWait" /\ UNCHANGED slot)
      BY <2>2 DEF MainStep, MainInit, MainSpawn, AssignLock, AssignWait, AssignReady, AssignPost,
              AssignUnlock, AssignTell, AwaitLock, AwaitWait, AwaitReady, AwaitUnlock,
              MainRelock, PrintResults, SpuriousWakeup, vars, mainVars, slot, AtMain, GotoMain
    <3>3. main' = "allWait" => totalWorkDone < numFiles \/ main = "allWait"
      BY <2>2 DEF MainStep, MainInit, MainSpawn, AssignLock, AssignWait, AssignReady, AssignPost,
              AssignUnlock, AssignTell, AwaitLock, AwaitWait, AwaitReady, AwaitUnlock,
              MainRelock, PrintResults, SpuriousWakeup, vars, mainVars, AtMain, GotoMain
    <3>4. availableWork' \in {0, 1}
      BY TypeKept DEF IInv
    <3> QED BY <3>1, <3>2, <3>3, <3>4 DEF slot
  <2> QED BY <2>1, <2>2 DEF Next, Terminated
<1> QED BY <1>1, <1>2, Invariance, PTL DEF Spec

\* No worker gives up on a file: none of these calls fails, and fread always returns
\* something.
NobodyGivesUp ==
    /\ \A call \in {"lock", "unlock", "broadcast", "fclose"} : ~Fails(call)
    /\ \A f \in Files : kind[f] # "gone"

\* What main has handed out is in the slot, with a worker, or finished, as long as no
\* worker gives up.
THEOREM NoFileLostTheorem == ASSUME NobodyGivesUp PROVE Spec => []NoFileLost
<1>1. Init => NoFileLost
  BY DEF Init, NoFileLost, Assigned, Busy, BusyLabels
<1>2. TypeOK /\ IInv /\ NoFileLost /\ [Next]_vars => NoFileLost'
  <2> SUFFICES ASSUME TypeOK, IInv, NoFileLost, [Next]_vars
               PROVE  NoFileLost'
    OBVIOUS
  <2> SUFFICES ASSUME main' \notin {"error", "crashed"}, NEW f \in Assigned'
               PROVE  \/ f \in finished'
                      \/ \E w \in Busy' : workingFileNumber'[w] = f
                      \/ availableWork' = 1 /\ fileToWork' = f
    <3>1. InHand'
      BY InHandKept DEF IInv
    <3> QED BY <3>1 DEF NoFileLost, InHand
  <2>0. main \notin {"error", "crashed"}
    BY DEF Next, WorkerStep, LoopTest, AskLock, AskWait, AskReady, AskRelock, AskTake, AskUnlock,
           AskTell, OpenRejected, Open, Close, Read, FinishLock, FinishCount, FinishUnlock,
           FinishTest, FinishTell, At, MainStep, MainInit, MainSpawn, AssignLock, AssignWait,
           AssignReady, AssignPost, AssignUnlock, AssignTell, AwaitLock, AwaitWait, AwaitReady,
           AwaitUnlock, MainRelock, PrintResults, SpuriousWakeup, Terminated, Running, Over,
           AtMain, vars, mainVars
  <2>1. ASSUME f \in Assigned
        PROVE  \/ f \in finished
               \/ \E w \in Busy : workingFileNumber[w] = f
               \/ availableWork = 1 /\ fileToWork = f
    BY <2>0, <2>1 DEF NoFileLost
  <2>2. ASSUME NEW w \in Workers, WorkerStep(w)
        PROVE  \/ f \in finished'
               \/ \E v \in Busy' : workingFileNumber'[v] = f
               \/ availableWork' = 1 /\ fileToWork' = f
    <3>a. f \in Assigned
      BY <2>2, <2>0, WorkerFrame DEF Assigned
    <3>b. w \in Busy => workingFileNumber[w] \in Files
      BY AssignedFacts DEF IInv, InHand
    <3> USE <2>1, <3>a, <3>b, NobodyGivesUp DEF NobodyGivesUp, TypeOK, Busy, BusyLabels, At, Goto,
              GiveUp, mainVars, slot
    <3>1. CASE LoopTest(w) BY <3>1 DEF LoopTest
    <3>2. CASE AskLock(w) BY <3>2 DEF AskLock
    <3>3. CASE AskWait(w) BY <3>3 DEF AskWait
    <3>4. CASE AskReady(w) BY <3>4 DEF AskReady
    <3>5. CASE AskRelock(w) BY <3>5 DEF AskRelock
    <3>6. CASE AskTake(w) BY <3>6 DEF AskTake
    <3>7. CASE AskUnlock(w) BY <3>7 DEF AskUnlock
    <3>8. CASE AskTell(w) BY <3>8 DEF AskTell
    <3>9. CASE OpenRejected(w) BY <3>9 DEF OpenRejected
    <3>10. CASE Open(w) BY <3>10 DEF Open
    <3>11. CASE Close(w) BY <3>11 DEF Close
    <3>12. CASE Read(w) BY <3>12 DEF Read
    <3>13. CASE FinishLock(w) BY <3>13 DEF FinishLock
    <3>14. CASE FinishCount(w) BY <3>14 DEF FinishCount
    <3>15. CASE FinishUnlock(w) BY <3>15 DEF FinishUnlock
    <3>16. CASE FinishTest(w) BY <3>16 DEF FinishTest
    <3>17. CASE FinishTell(w) BY <3>17 DEF FinishTell
    <3> QED BY <2>2, <3>1, <3>2, <3>3, <3>4, <3>5, <3>6, <3>7, <3>8, <3>9, <3>10, <3>11,
           <3>12, <3>13, <3>14, <3>15, <3>16, <3>17 DEF WorkerStep
  <2>3. CASE MainStep \/ SpuriousWakeup \/ UNCHANGED vars
    <3>1. Busy \subseteq Busy' /\ workingFileNumber' = workingFileNumber /\ finished' = finished
      BY <2>3, MainFrame DEF IInv, workerVars, Busy, BusyLabels
    <3>2. CASE AssignPost
      <4>1. f \in Assigned \/ f = i
        BY <3>2, NumberFacts DEF AssignPost, Assigned, AtMain, GotoMain, TypeOK
      <4>2. availableWork = 0
        BY <3>2 DEF AssignPost, AtMain, IInv, InHand
      <4> QED BY <2>1, <3>1, <3>2, <4>1, <4>2 DEF AssignPost
    <3>3. CASE ~AssignPost
      <4>1. availableWork' = availableWork /\ fileToWork' = fileToWork
        BY <2>3, <3>3 DEF MainStep, MainInit, MainSpawn, AssignLock, AssignWait, AssignReady,
              AssignUnlock, AssignTell, AwaitLock, AwaitWait, AwaitReady, AwaitUnlock,
              MainRelock, PrintResults, SpuriousWakeup, vars, slot
      <4>2. f \in Assigned
        <5> USE NumberFacts DEF TypeOK, IInv, Indices, Assigned, AtMain, GotoMain
        <5>1. CASE AssignTell BY <5>1 DEF AssignTell
        <5>2. CASE AwaitLock BY <5>2 DEF AwaitLock, Files
        <5>3. CASE MainSpawn BY <5>3 DEF MainSpawn
        <5>4. CASE ~AssignTell /\ ~AwaitLock /\ ~MainSpawn
          BY <2>3, <3>3, <5>4 DEF MainStep, MainInit, AssignLock, AssignWait, AssignReady,
              AssignUnlock, AwaitWait, AwaitReady, AwaitUnlock, MainRelock, PrintResults,
              SpuriousWakeup, vars, mainVars
        <5> QED BY <5>1, <5>2, <5>3, <5>4
      <4> QED BY <2>1, <3>1, <4>1, <4>2
    <3> QED BY <3>2, <3>3
  <2> QED BY <2>2, <2>3 DEF Next, Terminated
<1> QED BY <1>1, <1>2, Invariance, PTL DEF Spec

-----------------------------------------------------------------------------
(* What a hang needs.                                                        *)

\* Whoever has the mutex is inside the monitor, or has given up there.
HeldBy ==
    /\ \A w \in Workers : lock = w => pc[w] \in WorkerInside \cup {"gone"}
    /\ lock = Main => main \in MainInside \cup Over

\* main has started the workers below its index, and all before it goes on.
Started ==
    /\ main = "spawn" => \A w \in Workers : w < i => pc[w] # "new"
    /\ main \notin {"init", "spawn"} \cup Over => \A w \in Workers : pc[w] # "new"

\* A worker leaves its loop only when everything has been counted.
DoneLate == (\E w \in Workers : pc[w] = "done") => totalWorkDone >= numFiles

\* While main sleeps beside an empty slot, the file that was in it is with a worker that
\* has yet to tell main, or went with one.
LastTaken ==
    main = "slotWait" /\ availableWork = 0 =>
        /\ fileToWork \in Assigned \ finished
        /\ \A w \in Busy : workingFileNumber[w] = fileToWork => pc[w] \in {"taken", "tell"}

\* The mutex is given back on every way out of the monitor, except where an unlock fails.
LEMMA HeldByInvariant == Spec => []HeldBy
<1>1. Init => HeldBy
  BY ThreadFacts DEF Init, HeldBy
<1>2. TypeOK /\ IInv /\ HeldBy /\ [Next]_vars => HeldBy'
  <2> SUFFICES ASSUME TypeOK, IInv, HeldBy, [Next]_vars
               PROVE  HeldBy'
    OBVIOUS
  <2> USE ThreadFacts DEF TypeOK, HeldBy, WorkerInside, MainInside, Over
  <2>1. ASSUME NEW w \in Workers, WorkerStep(w)
        PROVE  HeldBy'
    <3> USE DEF At, Goto, GiveUp, mainVars
    <3>1. CASE LoopTest(w) BY <3>1 DEF LoopTest
    <3>2. CASE AskLock(w) BY <3>2 DEF AskLock
    <3>3. CASE AskWait(w) BY <3>3 DEF AskWait
    <3>4. CASE AskReady(w) BY <3>4 DEF AskReady
    <3>5. CASE AskRelock(w) BY <3>5 DEF AskRelock
    <3>6. CASE AskTake(w) BY <3>6 DEF AskTake
    <3>7. CASE AskUnlock(w) BY <3>7 DEF AskUnlock
    <3>8. CASE AskTell(w) BY <3>8 DEF AskTell
    <3>9. CASE OpenRejected(w) BY <3>9 DEF OpenRejected
    <3>10. CASE Open(w) BY <3>10 DEF Open
    <3>11. CASE Close(w) BY <3>11 DEF Close
    <3>12. CASE Read(w) BY <3>12 DEF Read
    <3>13. CASE FinishLock(w) BY <3>13 DEF FinishLock
    <3>14. CASE FinishCount(w) BY <3>14 DEF FinishCount
    <3>15. CASE FinishUnlock(w) BY <3>15 DEF FinishUnlock
    <3>16. CASE FinishTest(w) BY <3>16 DEF FinishTest
    <3>17. CASE FinishTell(w) BY <3>17 DEF FinishTell
    <3> QED BY <2>1, <3>1, <3>2, <3>3, <3>4, <3>5, <3>6, <3>7, <3>8, <3>9, <3>10,
               <3>11, <3>12, <3>13, <3>14, <3>15, <3>16, <3>17 DEF WorkerStep
  <2>2. CASE MainStep
    <3>0. \A v \in Workers : \/ pc'[v] = pc[v] \/ (pc[v] = "new" /\ pc'[v] = "loop")
                             \/ (pc[v] = "askWait" /\ pc'[v] = "askRelock")
      BY <2>2, MainFrame DEF IInv
    <3> USE <3>0 DEF AtMain, GotoMain
    <3>1. CASE MainInit BY <3>1 DEF MainInit
    <3>2. CASE MainSpawn BY <3>2 DEF MainSpawn
    <3>3. CASE AssignLock BY <3>3 DEF AssignLock
    <3>4. CASE AssignWait BY <3>4 DEF AssignWait
    <3>5. CASE AssignReady BY <3>5 DEF AssignReady
    <3>6. CASE AssignPost BY <3>6 DEF AssignPost
    <3>7. CASE AssignUnlock BY <3>7 DEF AssignUnlock
    <3>8. CASE AssignTell BY <3>8 DEF AssignTell
    <3>9. CASE AwaitLock BY <3>9 DEF AwaitLock
    <3>10. CASE AwaitWait BY <3>10 DEF AwaitWait
    <3>11. CASE AwaitReady BY <3>11 DEF AwaitReady
    <3>12. CASE AwaitUnlock BY <3>12 DEF AwaitUnlock
    <3>13. CASE MainRelock BY <3>13 DEF MainRelock
    <3>14. CASE PrintResults BY <3>14 DEF PrintResults
    <3> QED BY <2>2, <3>1, <3>2, <3>3, <3>4, <3>5, <3>6, <3>7, <3>8, <3>9, <3>10,
               <3>11, <3>12, <3>13, <3>14 DEF MainStep
  <2>3. CASE SpuriousWakeup BY <2>3 DEF SpuriousWakeup, At, Goto, AtMain, GotoMain
  <2>4. CASE UNCHANGED vars BY <2>4 DEF vars, mainVars
  <2> QED BY <2>1, <2>2, <2>3, <2>4 DEF Next, Terminated
<1> QED BY <1>1, <1>2, Invariance, PTL DEF Spec

\* main starts worker after worker, and assigns nothing before the last one.
LEMMA StartedInvariant == Spec => []Started
<1>1. Init => Started
  BY DEF Init, Started
<1>2. TypeOK /\ IInv /\ Started /\ [Next]_vars => Started'
  <2> SUFFICES ASSUME TypeOK, IInv, Started, [Next]_vars
               PROVE  Started'
    OBVIOUS
  <2> USE NumberFacts DEF TypeOK, Started, Over
  <2>1. ASSUME NEW w \in Workers, WorkerStep(w)
        PROVE  Started'
    <3>1. pc'[w] # "new"
      BY <2>1 DEF WorkerStep, LoopTest, AskLock, AskWait, AskReady, AskRelock, AskTake,
              AskUnlock, AskTell, OpenRejected, Open, Close, Read, FinishLock, FinishCount,
              FinishUnlock, FinishTest, FinishTell, At, Goto, GiveUp
    <3> QED BY <2>1, <3>1, WorkerFrame
  <2>2. CASE MainSpawn
    BY <2>2 DEF MainSpawn, AtMain, GotoMain, Goto, Workers
  <2>3. CASE (MainStep /\ ~MainSpawn) \/ SpuriousWakeup \/ UNCHANGED vars
    <3>1. \A v \in Workers : pc'[v] = "new" => pc[v] = "new"
      BY <2>3, MainFrame DEF IInv
    <3>2. /\ main' = "spawn" => main = "init" \/ (main = "spawn" /\ i' = i)
          /\ main' \notin {"init", "spawn"} \cup Over =>
                main \notin {"init", "spawn"} \cup Over
      BY <2>3 DEF MainStep, MainInit, AssignLock, AssignWait, AssignReady, AssignPost,
              AssignUnlock, AssignTell, AwaitLock, AwaitWait, AwaitReady, AwaitUnlock,
              MainRelock, PrintResults, SpuriousWakeup, vars, mainVars, AtMain, GotoMain
    <3>3. main = "init" /\ main' = "spawn" => i' = 0
      BY <2>3 DEF MainStep, MainInit, AssignLock, AssignWait, AssignReady, AssignPost,
              AssignUnlock, AssignTell, AwaitLock, AwaitWait, AwaitReady, AwaitUnlock,
              MainRelock, PrintResults, SpuriousWakeup, vars, mainVars, AtMain, GotoMain,
              IInv, Indices
    <3>4. \A w \in Workers : ~(w < 0)
      BY DEF Workers
    <3> QED BY <3>1, <3>2, <3>3, <3>4
  <2> QED BY <2>1, <2>2, <2>3 DEF Next, Terminated
<1> QED BY <1>1, <1>2, Invariance, PTL DEF Spec

\* The total does not shrink.
LEMMA DoneLateInvariant == Spec => []DoneLate
<1>1. Init => DoneLate
  BY DEF Init, DoneLate
<1>2. TypeOK /\ IInv /\ DoneLate /\ [Next]_vars => DoneLate'
  <2> SUFFICES ASSUME TypeOK, IInv, DoneLate, [Next]_vars
               PROVE  DoneLate'
    OBVIOUS
  <2> USE NumberFacts DEF TypeOK, DoneLate
  <2>1. ASSUME NEW w \in Workers, WorkerStep(w)
        PROVE  DoneLate'
    <3>1. totalWorkDone' >= totalWorkDone
      BY <2>1 DEF WorkerStep, LoopTest, AskLock, AskWait, AskReady, AskRelock, AskTake,
              AskUnlock, AskTell, OpenRejected, Open, Close, Read, FinishLock, FinishCount,
              FinishUnlock, FinishTest, FinishTell
    <3>2. pc'[w] = "done" => totalWorkDone >= numFiles \/ pc[w] = "done"
      BY <2>1 DEF WorkerStep, LoopTest, AskLock, AskWait, AskReady, AskRelock, AskTake,
              AskUnlock, AskTell, OpenRejected, Open, Close, Read, FinishLock, FinishCount,
              FinishUnlock, FinishTest, FinishTell, At, Goto, GiveUp
    <3>3. totalWorkDone' \in Nat
      BY TypeKept DEF IInv
    <3> QED BY <2>1, <3>1, <3>2, <3>3, WorkerFrame
  <2>2. CASE MainStep \/ SpuriousWakeup \/ UNCHANGED vars
    BY <2>2, MainFrame DEF IInv
  <2> QED BY <2>1, <2>2 DEF Next, Terminated
<1> QED BY <1>1, <1>2, Invariance, PTL DEF Spec

\* The file that has left the slot goes to work only after main has been told.
LEMMA LastTakenInvariant == Spec => []LastTaken
<1>1. Init => LastTaken
  BY DEF Init, LastTaken
<1>2. TypeOK /\ IInv /\ LastTaken /\ [Next]_vars => LastTaken'
  <2> SUFFICES ASSUME TypeOK, IInv, LastTaken, [Next]_vars, main' = "slotWait",
                      availableWork' = 0
               PROVE  LastTaken'
    BY DEF LastTaken
  <2> USE DEF TypeOK, LastTaken
  <2>1. ASSUME NEW w \in Workers, WorkerStep(w)
        PROVE  LastTaken'
    <3>1. main = "slotWait" /\ Assigned' = Assigned
      BY <2>1, WorkerFrame DEF Assigned
    <3>2. CASE AskTake(w)
      <4>1. /\ fileToWork \in Assigned \ finished
            /\ \A v \in Busy : workingFileNumber[v] # fileToWork
        BY <3>2 DEF AskTake, At, IInv, InHand, EachFileOnce
      <4> QED BY <3>1, <3>2, <4>1 DEF AskTake, Goto, Busy, BusyLabels
    <3>3. CASE AskTell(w)
      BY <3>1, <3>3 DEF AskTell, At, Goto, GiveUp, slot, Busy, BusyLabels
    <3>4. CASE FinishCount(w)
      BY <3>1, <3>4 DEF FinishCount, At, Goto, slot, Busy, BusyLabels
    <3>5. CASE ~AskTake(w) /\ ~AskTell(w) /\ ~FinishCount(w)
      <4>1. /\ UNCHANGED <<slot, finished>>
            /\ workingFileNumber' = workingFileNumber
        BY <2>1, <3>5 DEF WorkerStep, LoopTest, AskLock, AskWait, AskReady, AskRelock,
              AskUnlock, OpenRejected, Open, Close, Read, FinishLock, FinishUnlock,
              FinishTest, FinishTell
      <4>2. pc'[w] \in BusyLabels =>
              pc[w] \in BusyLabels /\ (pc[w] \in {"taken", "tell"} => pc'[w] \in {"taken", "tell"})
        BY <2>1, <3>5 DEF WorkerStep, LoopTest, AskLock, AskWait, AskReady, AskRelock,
              AskUnlock, OpenRejected, Open, Close, Read, FinishLock, FinishUnlock,
              FinishTest, FinishTell, At, Goto, GiveUp, BusyLabels
      <4> QED BY <2>1, <3>1, <4>1, <4>2, WorkerFrame DEF slot, Busy
    <3> QED BY <3>2, <3>3, <3>4, <3>5
  <2>2. CASE MainStep \/ SpuriousWakeup \/ UNCHANGED vars
    <3>1. main = "slotWait" /\ UNCHANGED slot /\ i' = i
      BY <2>2 DEF MainStep, MainInit, MainSpawn, AssignLock, AssignWait, AssignReady, AssignPost,
              AssignUnlock, AssignTell, AwaitLock, AwaitWait, AwaitReady, AwaitUnlock,
              MainRelock, PrintResults, SpuriousWakeup, vars, mainVars, slot, AtMain,
              GotoMain
    <3>2. /\ UNCHANGED <<finished, workingFileNumber>>
          /\ \A v \in Workers : pc'[v] = pc[v] \/ pc'[v] \notin BusyLabels
      BY <2>2, MainFrame DEF IInv, workerVars, BusyLabels
    <3> QED BY <3>1, <3>2 DEF slot, Busy, Assigned
  <2> QED BY <2>1, <2>2 DEF Next, Terminated
<1> QED BY <1>1, <1>2, Invariance, PTL DEF Spec

\* If nobody can go on, a worker has given up with the mutex, with a file, as the last one,
\* or without telling main that all is done: for every pool, every directory and
\* whatever calls fail.
THEOREM HangTheorem == Spec => []HangNeedsLoss
<1>1. TypeOK /\ IInv /\ HeldBy /\ Started /\ DoneLate /\ LastTaken /\ NoLostWork /\ NoLostMain
        => HangNeedsLoss
  <2> SUFFICES ASSUME TypeOK, IInv, HeldBy, Started, DoneLate, LastTaken, NoLostWork,
                      NoLostMain, Running, ~MainCanGoOn, \A w \in Workers : ~CanGoOn(w),
                      \A w \in Workers : ~(pc[w] = "gone" /\ lock = w),
                      NoFileLost, ~(\A w \in Workers : pc[w] = "gone"),
                      ~(totalWorkDone = numFiles /\ SomeoneGone)
               PROVE  FALSE
    BY DEF HangNeedsLoss
  <2>1. lock = NoThread
    BY ThreadFacts DEF TypeOK, HeldBy, CanGoOn, MainCanGoOn, Running, Over, WorkerInside,
                       MainInside
  <2>2. main \in {"slotWait", "allWait"}
    BY <2>1 DEF MainCanGoOn
  <2>3. \A w \in Workers : pc[w] \in {"askWait", "done", "gone"}
    BY <2>1, <2>2 DEF CanGoOn, Started, Over
  <2>4. Busy = {}
    BY <2>3 DEF Busy, BusyLabels
  <2>5. availableWork = 1 => fileToWork \in Files \ finished
    BY AssignedFacts DEF IInv, InHand, EachFileOnce
  <2>6. availableWork = 1 => \A w \in Workers : pc[w] = "gone"
    <3> SUFFICES ASSUME availableWork = 1, NEW w \in Workers, pc[w] # "gone"
                 PROVE  FALSE
      OBVIOUS
    <3>1. pc[w] = "done"
      BY <2>2, <2>3 DEF NoLostWork
    <3>2. totalWorkDone = numFiles
      BY <3>1, CountFacts, NumberFacts DEF DoneLate, IInv, TypeOK
    <3> QED BY <2>5, <3>2, CountFacts DEF IInv
  <2>7. availableWork = 0
    BY <2>6 DEF TypeOK
  <2>8. Assigned \subseteq finished
    BY <2>2, <2>4, <2>7 DEF NoFileLost
  <2>9. CASE main = "slotWait"
    BY <2>7, <2>8, <2>9 DEF LastTaken
  <2>10. CASE main = "allWait"
    <3>1. finished = Files
      BY <2>8, <2>10 DEF Assigned, TypeOK
    <3>2. totalWorkDone = numFiles
      BY <3>1, CountFacts DEF IInv
    <3> QED BY <2>3, <2>10, <3>2, NumberFacts DEF NoLostMain
  <2> QED BY <2>2, <2>9, <2>10
<1> QED BY <1>1, Invariance, HeldByInvariant, StartedInvariant, DoneLateInvariant,
           LastTakenInvariant, NoLostWorkTheorem, NoLostMainTheorem, PTL

\* A pool with workers of which none gives up never hangs: while the process runs, a
\* worker or main can go on.
THEOREM NoHang ==
    ASSUME NobodyGivesUp, numThreads > 0
    PROVE  Spec => [](Running => MainCanGoOn \/ \E w \in Workers : CanGoOn(w))
<1>1. Init => ~SomeoneGone
  BY DEF Init, SomeoneGone
<1>2. TypeOK /\ IInv /\ ~SomeoneGone /\ [Next]_vars => ~SomeoneGone'
  <2> SUFFICES ASSUME TypeOK, IInv, ~SomeoneGone, [Next]_vars
               PROVE  ~SomeoneGone'
    OBVIOUS
  <2> USE DEF SomeoneGone
  <2>1. ASSUME NEW w \in Workers, WorkerStep(w)
        PROVE  ~SomeoneGone'
    <3>1. w \in Busy => workingFileNumber[w] \in Files
      BY AssignedFacts DEF IInv, InHand
    <3>2. pc'[w] # "gone"
      BY <2>1, <3>1, NobodyGivesUp DEF NobodyGivesUp, TypeOK, WorkerStep, LoopTest, AskLock,
              AskWait, AskReady, AskRelock, AskTake, AskUnlock, AskTell, OpenRejected, Open,
              Close, Read, FinishLock, FinishCount, FinishUnlock, FinishTest, FinishTell, At,
              Goto, GiveUp, Busy, BusyLabels
    <3> QED BY <2>1, <3>2, WorkerFrame
  <2>2. CASE MainStep \/ SpuriousWakeup \/ UNCHANGED vars
    BY <2>2, MainFrame DEF IInv
  <2> QED BY <2>1, <2>2 DEF Next, Terminated
<1>3. HangNeedsLoss /\ NoFileLost /\ ~SomeoneGone =>
        (Running => MainCanGoOn \/ \E w \in Workers : CanGoOn(w))
  <2>1. 0 \in Workers
    BY NumberFacts DEF Workers
  <2> QED BY <2>1 DEF HangNeedsLoss, SomeoneGone
<1>4. Spec => []~SomeoneGone
  BY <1>1, <1>2, Invariance, PTL DEF Spec
<1>5. Spec => []NoFileLost
  BY NoFileLostTheorem
<1> QED BY <1>3, <1>4, <1>5, HangTheorem, PTL

-----------------------------------------------------------------------------
(* The report.                                                               *)

\* What a worker has done with its file is an acceptable answer, and nobody else
\* touches that file's place in the tables.
LEMMA AnswersRight == Spec => []Answered
<1>1. Init => Answered
  BY DEF Init, Answered
<1>2. TypeOK /\ IInv /\ Answered /\ [Next]_vars => Answered'
  <2> SUFFICES ASSUME TypeOK, IInv, Answered, [Next]_vars
               PROVE  Answered'
    OBVIOUS
  <2> USE DEF TypeOK, Answered
  <2>1. ASSUME NEW w \in Workers, WorkerStep(w)
        PROVE  Answered'
    <3>1. pc[w] \in BusyLabels =>
            /\ workingFileNumber[w] \in Files /\ workingFileNumber[w] \notin finished
            /\ \A v \in Workers \ {w} : pc[v] \in BusyLabels =>
                    workingFileNumber[v] # workingFileNumber[w]
      BY AssignedFacts DEF IInv, InHand, EachFileOnce, Busy
    <3>2. \A v \in Workers \ {w} :
            pc'[v] = pc[v] /\ workingFileNumber'[v] = workingFileNumber[v]
      BY <2>1, WorkerFrame
    <3>3. main = "crashed" => main' = "crashed"
      BY <2>1, WorkerFrame
    <3>4. CASE Open(w)
      <4>1. /\ finished' = finished /\ errors' = errors /\ main' = main
            /\ workingFileNumber' = workingFileNumber /\ pc[w] = "open"
        BY <3>4 DEF Open, At, mainVars
      <4>2. \A f \in Files \ {workingFileNumber[w]} : Right(f)' <=> Right(f)
        BY <3>4 DEF Open, Right, Answers
      <4>3. pc'[w] = "close" => Right(workingFileNumber[w])'
        <5>1. CASE FileLength(workingFileNumber[w]) = "zero"
          <6>1. checksums'[workingFileNumber[w]] = 0
            BY <3>1, <3>4, <4>1, <5>1 DEF Open, BusyLabels
          <6>2. 0 \in Answers(workingFileNumber[w])
            BY <5>1, AnswerFacts
          <6> QED BY <4>1, <6>1, <6>2 DEF Right, Answers
        <5>2. CASE FileLength(workingFileNumber[w]) # "zero"
          BY <3>4, <5>2 DEF Open, Goto
        <5> QED BY <5>1, <5>2
      <4>4. pc'[w] \in {"close", "read"}
        BY <3>4 DEF Open, Goto
      <4>5. \A v \in Workers : pc[v] \in BusyLabels => workingFileNumber[v] \in Files
        BY AssignedFacts DEF IInv, InHand, Busy
      <4> QED BY <3>1, <3>2, <4>1, <4>2, <4>3, <4>4, <4>5 DEF BusyLabels
    <3>5. CASE Read(w)
      <4>1. \A f \in Files \ {workingFileNumber[w]} : Right(f)' <=> Right(f)
        BY <3>5 DEF Read, results, Right, Answers
      <4>2. pc'[w] = "finish" => Right(workingFileNumber[w])'
        BY <3>1, <3>5, AnswerFacts DEF Read, results, Right, Answers, At, Goto, GiveUp, BusyLabels
      <4>3. \A f \in Files : errors'[f] = 1 => errors[f] = 1 \/ AccessError \in Answers(f)
        BY <3>1, <3>5, AnswerFacts DEF Read, results, At, BusyLabels
      <4>4. finished' = finished /\ workingFileNumber' = workingFileNumber /\ pc[w] = "read"
              /\ pc'[w] \in {"finish", "gone"} /\ main' = main
        BY <3>5 DEF Read, At, Goto, GiveUp, mainVars
      <4>5. \A v \in Workers : pc[v] \in BusyLabels => workingFileNumber[v] \in Files
        BY AssignedFacts DEF IInv, InHand, Busy
      <4> QED BY <3>1, <3>2, <4>1, <4>2, <4>3, <4>4, <4>5 DEF BusyLabels
    <3>6. CASE OpenRejected(w)
      <4>1. main' = "crashed" /\ checksums' = checksums
              /\ errors' = [errors EXCEPT ![workingFileNumber[w]] = 1]
              /\ pc' = pc /\ workingFileNumber' = workingFileNumber /\ finished' = finished
        BY <3>6 DEF OpenRejected
      <4>2. \A f \in Files : Right(f) => Right(f)'
        BY <4>1 DEF Right
      <4>3. \A v \in Workers : pc[v] \in BusyLabels => workingFileNumber[v] \in Files
        BY AssignedFacts DEF IInv, InHand, Busy
      <4> QED BY <4>1, <4>2, <4>3 DEF BusyLabels
    <3>7. CASE ~Open(w) /\ ~Read(w) /\ ~OpenRejected(w)
      <4>1. checksums' = checksums /\ errors' = errors
        BY <2>1, <3>7 DEF WorkerStep, LoopTest, AskLock, AskWait, AskReady, AskRelock, AskTake,
              AskUnlock, AskTell, Close, FinishLock, FinishCount, FinishUnlock, FinishTest,
              FinishTell, results
      <4>2. \A f \in Files : Right(f)' <=> Right(f)
        BY <4>1 DEF Right
      <4>3. pc'[w] \in {"close", "finish", "inc"} =>
              pc[w] \in {"close", "finish"} /\ workingFileNumber'[w] = workingFileNumber[w]
        BY <2>1, <3>7 DEF WorkerStep, LoopTest, AskLock, AskWait, AskReady, AskRelock, AskTake,
              AskUnlock, AskTell, Close, FinishLock, FinishCount, FinishUnlock, FinishTest,
              FinishTell, At, Goto, GiveUp
      <4>4. finished' = finished \/ (pc[w] = "inc" /\ finished' = finished \cup {workingFileNumber[w]})
        BY <2>1, <3>7 DEF WorkerStep, LoopTest, AskLock, AskWait, AskReady, AskRelock, AskTake,
              AskUnlock, AskTell, Close, FinishLock, FinishCount, FinishUnlock, FinishTest,
              FinishTell, At
      <4>5. \A v \in Workers : pc[v] \in BusyLabels => workingFileNumber[v] \in Files
        BY AssignedFacts DEF IInv, InHand, Busy
      <4> QED BY <3>2, <3>3, <4>1, <4>2, <4>3, <4>4, <4>5 DEF BusyLabels
    <3> QED BY <3>4, <3>5, <3>6, <3>7
  <2>2. CASE MainStep \/ SpuriousWakeup \/ UNCHANGED vars
    <3>1. /\ UNCHANGED <<checksums, errors, workingFileNumber, finished>>
          /\ \A v \in Workers : pc'[v] \in {"close", "finish", "inc"} => pc[v] = pc'[v]
      BY <2>2, MainFrame DEF IInv, workerVars, results
    <3>2. main = "crashed" => main' = "crashed"
      BY <2>2 DEF MainStep, MainInit, MainSpawn, AssignLock, AssignWait, AssignReady, AssignPost,
              AssignUnlock, AssignTell, AwaitLock, AwaitWait, AwaitReady, AwaitUnlock,
              MainRelock, PrintResults, SpuriousWakeup, vars, mainVars, AtMain, At, Running, Over
    <3> QED BY <3>1, <3>2 DEF Right
  <2> QED BY <2>1, <2>2 DEF Next, Terminated
<1> QED BY <1>1, <1>2, Invariance, PTL DEF Spec

\* main prints an acceptable answer of each file, in order.
LEMMA PrintingRight == Spec => []PrintedSoFar
<1>1. Init => PrintedSoFar
  BY DEF Init, PrintedSoFar
<1>2. TypeOK /\ IInv /\ Answered /\ PrintedSoFar /\ [Next]_vars => PrintedSoFar'
  <2> SUFFICES ASSUME TypeOK, IInv, Answered, PrintedSoFar, [Next]_vars
               PROVE  PrintedSoFar'
    OBVIOUS
  <2>1. ASSUME NEW w \in Workers, WorkerStep(w)
        PROVE  PrintedSoFar'
    BY <2>1, WorkerFrame DEF PrintedSoFar
  <2>2. CASE PrintResults
    <3>1. CASE i < numFiles /\ i' = i + 1 /\ main' = main /\ main = "print"
      <4> DEFINE answer == IF errors[i] = 1 THEN AccessError ELSE checksums[i]
      <4>1. i \in Files /\ i \in Nat /\ finished = Files
        BY <3>1, NumberFacts, CountFacts DEF TypeOK, IInv, AllDone
      <4>2. answer \in Answers(i)
        BY <3>1, <4>1 DEF Answered, Right, Answers
      <4>3. printed' = [f \in 0 .. i |-> IF f < i THEN printed[f] ELSE answer]
        BY <2>2, <3>1 DEF PrintResults, AtMain, GotoMain
      <4>4. \A f \in 0 .. i : printed'[f] \in Answers(f)
        <5>1. ASSUME NEW f \in 0 .. i, f < i
              PROVE  printed'[f] \in Answers(f)
          <6>1. f \in 0 .. i - 1 /\ i > 0 /\ printed'[f] = printed[f]
            BY <4>1, <4>3, <5>1
          <6> QED BY <3>1, <6>1 DEF PrintedSoFar
        <5>2. ASSUME NEW f \in 0 .. i, ~(f < i)
              PROVE  printed'[f] \in Answers(f)
          <6>1. f = i /\ printed'[f] = answer
            BY <4>1, <4>3, <5>2
          <6> QED BY <4>2, <6>1
        <5> QED BY <5>1, <5>2
      <4>5. \A f \in 0 .. i : f \in Files
        BY <4>1, NumberFacts DEF Files
      <4>6. printed' \in [0 .. i -> UNION {Answers(f) : f \in Files}]
        BY <4>3, <4>4, <4>5
      <4>7. i' - 1 = i /\ i' # 0
        BY <3>1, <4>1
      <4> QED BY <3>1, <4>4, <4>6, <4>7 DEF PrintedSoFar, Answers
    <3>2. CASE main' = "exited" BY <3>2 DEF PrintedSoFar
    <3> QED BY <2>2, <3>1, <3>2 DEF PrintResults, AtMain, GotoMain
  <2>3. CASE AwaitUnlock
    BY <2>3 DEF AwaitUnlock, AtMain, GotoMain, PrintedSoFar
  <2>4. CASE (MainStep /\ ~PrintResults /\ ~AwaitUnlock) \/ SpuriousWakeup \/ UNCHANGED vars
    <3>1. /\ printed' = printed
          /\ main' = "print" => main = "print" /\ i' = i
          /\ main \in {"print", "exited", "crashed"} => main' = main
      BY <2>4 DEF MainStep, MainInit, MainSpawn, AssignLock, AssignWait, AssignReady, AssignPost,
              AssignUnlock, AssignTell, AwaitLock, AwaitWait, AwaitReady, MainRelock,
              SpuriousWakeup, vars, mainVars, AtMain, GotoMain, At, Running, Over
    <3> QED BY <3>1 DEF PrintedSoFar, Answers
  <2> QED BY <2>1, <2>2, <2>3, <2>4 DEF Next, Terminated
<1> QED BY <1>1, <1>2, Invariance, AnswersRight, PTL DEF Spec

\* The pool implements ChecksumReport: a step that counts a file is Finish, the
\* return of main is Report, everything else stutters.
THEOREM ReportRefinement == Spec => ReportSpec
<1> DEFINE report == IF main = "exited" THEN printed ELSE <<>>
<1>1. Init => Report!Init
  BY DEF Init, Report!Init
<1>2. TypeOK /\ IInv /\ PrintedSoFar /\ [Next]_vars => [Report!Next]_<<finished, report>>
  <2> SUFFICES ASSUME TypeOK, IInv, PrintedSoFar, [Next]_vars
               PROVE  Report!Next \/ UNCHANGED <<finished, report>>
    OBVIOUS
  <2>1. ASSUME NEW w \in Workers, WorkerStep(w)
        PROVE  Report!Next \/ UNCHANGED <<finished, report>>
    <3>1. report' = report
      <4>1. main # "exited"
        BY <2>1 DEF WorkerStep, LoopTest, AskLock, AskWait, AskReady, AskRelock, AskTake,
              AskUnlock, AskTell, OpenRejected, Open, Close, Read, FinishLock, FinishCount,
              FinishUnlock, FinishTest, FinishTell, At, Running, Over
      <4> QED BY <2>1, <4>1, WorkerFrame
    <3>2. CASE FinishCount(w)
      <4>1. workingFileNumber[w] \in Files \ finished
        BY <3>2, AssignedFacts DEF FinishCount, At, IInv, InHand, EachFileOnce, Busy, BusyLabels
      <4> QED BY <3>1, <3>2, <4>1 DEF FinishCount, Report!Next, Report!Finish
    <3>3. CASE ~FinishCount(w)
      BY <2>1, <3>1, <3>3 DEF WorkerStep, LoopTest, AskLock, AskWait, AskReady, AskRelock,
              AskTake, AskUnlock, AskTell, OpenRejected, Open, Close, Read, FinishLock,
              FinishUnlock, FinishTest, FinishTell
    <3> QED BY <3>2, <3>3
  <2>2. CASE MainStep \/ SpuriousWakeup \/ UNCHANGED vars
    <3>1. finished' = finished
      BY <2>2, MainFrame DEF IInv, workerVars
    <3>2. CASE PrintResults /\ main' = "exited"
      <4>1. i = numFiles /\ main = "print" /\ printed' = printed /\ report = <<>>
            /\ report' = printed
        BY <3>2 DEF PrintResults, AtMain
      <4>2. CASE numFiles = 0
        BY <3>1, <4>1, <4>2 DEF PrintedSoFar
      <4>3. CASE numFiles # 0
        <5>1. /\ printed \in [Files -> UNION {Answers(f) : f \in Files}]
              /\ \A f \in Files : printed[f] \in Answers(f)
          BY <4>1, <4>3, NumberFacts DEF PrintedSoFar, Files
        <5>2. finished = Files
          BY <4>1, CountFacts DEF IInv, AllDone
        <5> QED BY <3>1, <4>1, <5>1, <5>2 DEF Report!Next, Report!Report
      <4> QED BY <4>2, <4>3
    <3>3. CASE ~(PrintResults /\ main' = "exited")
      <4>1. (main' = "exited" <=> main = "exited") /\ (main = "exited" => printed' = printed)
        BY <2>2, <3>3 DEF MainStep, MainInit, MainSpawn, AssignLock, AssignWait, AssignReady,
              AssignPost, AssignUnlock, AssignTell, AwaitLock, AwaitWait, AwaitReady,
              AwaitUnlock, MainRelock, PrintResults, SpuriousWakeup, vars, mainVars, AtMain,
              GotoMain, At, Running, Over
      <4> QED BY <3>1, <4>1
    <3> QED BY <3>2, <3>3
  <2> QED BY <2>1, <2>2 DEF Next, Terminated
<1> QED BY <1>1, <1>2, Invariance, PrintingRight, PTL DEF Spec, ReportSpec, Report!Spec

\* No malloc fails, and every file has a length an int can hold and does not change, or
\* cannot be opened.
OrdinaryFiles ==
    /\ ~Fails("malloc")
    /\ \A f \in Files : kind[f] \in {"good", "empty", "noaccess"}

\* Of such a directory the pool prints nothing but the checksum of each file, in the
\* place of that file, whatever else fails: problem_3.c:6.
THEOREM RequiredLinesTheorem == ASSUME OrdinaryFiles PROVE Spec => []RequiredLines
<1> DEFINE LinesRight == \A f \in DOMAIN printed : f \in Files /\ printed[f] \in Answers(f)
<1>1. Init => LinesRight
  BY DEF Init
<1>2. TypeOK /\ IInv /\ Answered /\ PrintedSoFar /\ LinesRight /\ [Next]_vars => LinesRight'
  <2> SUFFICES ASSUME TypeOK, IInv, Answered, PrintedSoFar, LinesRight, [Next]_vars
               PROVE  LinesRight'
    OBVIOUS
  <2>1. CASE PrintResults /\ printed' # printed
    <3>1. /\ i < numFiles /\ main = "print"
          /\ printed' = [f \in 0 .. i |-> IF f < i THEN printed[f]
                                          ELSE IF errors[i] = 1 THEN AccessError
                                          ELSE checksums[i]]
      BY <2>1 DEF PrintResults, AtMain
    <3>2. i \in Files /\ i \in Nat /\ finished = Files
      BY <3>1, NumberFacts, CountFacts DEF TypeOK, IInv, AllDone
    <3>3. (IF errors[i] = 1 THEN AccessError ELSE checksums[i]) \in Answers(i)
      BY <3>1, <3>2 DEF Answered, Right
    <3>4. \A f \in 0 .. i : f \in Files /\ (f < i \/ f = i) /\ (f < i => f \in 0 .. i - 1 /\ i > 0)
      BY <3>2, NumberFacts DEF Files
    <3>5. \A f \in 0 .. i : f < i => printed[f] \in Answers(f)
      BY <3>1, <3>4 DEF PrintedSoFar
    <3>6. \A f \in 0 .. i : printed'[f] \in Answers(f)
      BY <3>1, <3>3, <3>4, <3>5
    <3> QED BY <3>1, <3>4, <3>6 DEF Answers
  <2>2. CASE printed' = printed
    BY <2>2 DEF Answers
  <2>3. PrintResults \/ printed' = printed
    BY WorkerFrame DEF Next, Terminated, MainStep, MainInit, MainSpawn, AssignLock, AssignWait,
              AssignReady, AssignPost, AssignUnlock, AssignTell, AwaitLock, AwaitWait,
              AwaitReady, AwaitUnlock, MainRelock, SpuriousWakeup, vars, mainVars
  <2> QED BY <2>1, <2>2, <2>3
<1>3. LinesRight => RequiredLines
  BY OrdinaryFiles DEF OrdinaryFiles, RequiredLines, Answers
<1> QED BY <1>1, <1>2, <1>3, Invariance, AnswersRight, PrintingRight, PTL DEF Spec
=============================================================================
