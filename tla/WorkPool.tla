------------------------------- MODULE WorkPool -------------------------------
(* assignment4/problem_3.c: main hands the files of a directory one by one to  *)
(* numThreads workers through a one-place slot guarded by a monitor (one       *)
(* mutex, three condition variables), waits until all are done, and prints.    *)
(*                                                                             *)
(* A step is one call of a library or one access to shared data.  Files are    *)
(* numbered as in the program's tables; what is on the disk is a kind per      *)
(* file.  FaultyCalls names the library calls that may fail.  (An error of     *)
(* pthread_cond_wait comes back with the mutex held: the loop tests the same   *)
(* state again and calls again, so the code behind the loops' `if(error)` is   *)
(* never reached.)                                                             *)
EXTENDS Integers, FiniteSets

CONSTANTS numThreads,       \* the command line, 0 .. 99
          numFiles,         \* regular files that scandir finds
          kind,             \* what each file is, see Kinds
          MaxOpen,          \* files the process may have open
          FaultyCalls,      \* library calls that may fail
          MaxSpurious       \* bound: spurious wake-ups, in all

\* A file with contents; one of size 0; one fopen rejects; one whose contents
\* are gone (fread returns 0) or cut short when they are read; and files with more
\* bytes than an int can count, of whose length the int keeps 0, a part, or a
\* negative number.
Kinds == {"good", "empty", "noaccess", "gone", "cut", "wraps", "long", "negative"}

Calls == {"init", "create", "lock", "unlock", "broadcast", "fclose", "malloc"}

ASSUME SizesAssumption == numThreads \in Nat /\ numFiles \in Nat /\ MaxOpen \in Nat
ASSUME FaultsAssumption == FaultyCalls \subseteq Calls
ASSUME SpuriousAssumption == MaxSpurious \in Nat

Workers == 0 .. numThreads - 1
Files == 0 .. numFiles - 1

ASSUME KindAssumption == kind \in [Files -> Kinds]

\* The threads of the process: main and the workers.
Main == -1
NoThread == -2

VARIABLES
    lock,               \* the mutex: the thread that holds it, or NoThread
    availableWork,      \* the slot is full
    fileToWork,         \* what is in the slot
    totalWorkDone,
    checksums,          \* *pChecksums
    errors,             \* *pErrors
    pc,                 \* where each worker is
    workingFileNumber,  \* each worker's file
    main,               \* where main is
    i,                  \* main's loop variable, totalWorkAssigned while assigning
    openFiles,          \* how many files are open
    spurious,           \* spurious wake-ups so far
    finished,           \* history: the files whose worker has counted them
    printed             \* history: what main has printed of each file

slot == <<availableWork, fileToWork>>
results == <<checksums, errors>>
mainVars == <<main, i, printed>>
vars == <<lock, slot, totalWorkDone, results, pc, workingFileNumber, mainVars,
          openFiles, spurious, finished>>

WorkerLabels == {"new", "loop", "ask", "askTest", "askWait", "askRelock", "take", "taken",
                 "tell", "open", "close", "read", "finish", "inc", "incd", "testDone",
                 "tellDone", "done", "gone"}
MainLabels == {"init", "spawn", "assign", "testSlot", "slotWait", "slotRelock", "post",
               "posted", "tellWork", "waitAll", "testAll", "allWait", "allRelock",
               "unlockAll", "print"}

\* The process is over: main has returned, or a thread has dereferenced NULL.
Over == {"exited", "error", "crashed"}
Running == main \notin Over

\* The checksum of the contents of file f, which is 0 if there are none: all that
\* matters is that it is not another file's, nor the 0 the table starts with.
Crc(f) == IF kind[f] = "empty" THEN 0 ELSE f + 1
Prefix(f) == numFiles + f + 1   \* the checksum of only the first bytes of file f
Garbage == -1                   \* that of a buffer that was only partly filled

Init ==
    /\ lock = NoThread
    /\ availableWork = 0
    /\ fileToWork = 0
    /\ totalWorkDone = 0
    /\ checksums = [f \in Files |-> 0]
    /\ errors = [f \in Files |-> 0]
    /\ pc = [w \in Workers |-> "new"]
    /\ workingFileNumber = [w \in Workers |-> 0]
    /\ main = "init"
    /\ i = 0
    /\ openFiles = 0
    /\ spurious = 0
    /\ finished = {}
    /\ printed = <<>>

At(w, l) == Running /\ pc[w] = l
Goto(w, l) == pc' = [pc EXCEPT ![w] = l]
Fails(call) == call \in FaultyCalls

\* pthread_exit after an error: the worker's file, if it has one, is lost.
GiveUp(w) == Goto(w, "gone")

\* Mutant: pthread_cond_signal for pthread_cond_broadcast, one worker wakes up.
MutWakeWorkers(ps, l, m) ==
    [w \in Workers |-> IF ps[w] = l /\ \A v \in Workers : ps[v] = l => w <= v THEN m
                       ELSE ps[w]]

\* Everyone who waits at label l wakes up and has to take the mutex again.
WakeWorkers(ps, l, m) == [w \in Workers |-> IF ps[w] = l THEN m ELSE ps[w]]

-----------------------------------------------------------------------------
(* askForWork, called by worker w.                                           *)

AskLock(w) ==
    /\ At(w, "ask")
    /\ \/ lock = NoThread /\ lock' = w /\ Goto(w, "askTest")
       \/ Fails("lock") /\ GiveUp(w) /\ UNCHANGED lock
    /\ UNCHANGED <<slot, totalWorkDone, results, workingFileNumber, mainVars,
                   openFiles, spurious, finished>>

AskWait(w) ==
    /\ At(w, "askTest")
    /\ availableWork = 0
    /\ lock' = NoThread
    /\ Goto(w, "askWait")
    /\ UNCHANGED <<slot, totalWorkDone, results, workingFileNumber, mainVars,
                   openFiles, spurious, finished>>

AskReady(w) ==
    /\ At(w, "askTest")
    /\ availableWork # 0
    /\ Goto(w, "take")
    /\ UNCHANGED <<lock, slot, totalWorkDone, results, workingFileNumber, mainVars,
                   openFiles, spurious, finished>>

AskRelock(w) ==
    /\ At(w, "askRelock")
    /\ lock = NoThread
    /\ lock' = w
    /\ Goto(w, "askTest")
    /\ UNCHANGED <<slot, totalWorkDone, results, workingFileNumber, mainVars,
                   openFiles, spurious, finished>>

\* Mutant: the slot is not marked empty.
MutAskTake(w) ==
    /\ At(w, "take")
    /\ workingFileNumber' = [workingFileNumber EXCEPT ![w] = fileToWork]
    /\ Goto(w, "taken")
    /\ UNCHANGED <<lock, slot, totalWorkDone, results, mainVars, openFiles, spurious,
                   finished>>

AskTake(w) ==
    /\ At(w, "take")
    /\ workingFileNumber' = [workingFileNumber EXCEPT ![w] = fileToWork]
    /\ availableWork' = 0
    /\ Goto(w, "taken")
    /\ UNCHANGED <<lock, fileToWork, totalWorkDone, results, mainVars, openFiles,
                   spurious, finished>>

AskUnlock(w) ==
    /\ At(w, "taken")
    /\ \/ lock' = NoThread /\ Goto(w, "tell")
       \/ Fails("unlock") /\ GiveUp(w) /\ UNCHANGED lock
    /\ UNCHANGED <<slot, totalWorkDone, results, workingFileNumber, mainVars,
                   openFiles, spurious, finished>>

\* Mutant: the broadcast goes to workAvailable.
MutAskTell(w) ==
    /\ At(w, "tell")
    /\ pc' = WakeWorkers([pc EXCEPT ![w] = "open"], "askWait", "askRelock")
    /\ UNCHANGED <<lock, slot, totalWorkDone, results, workingFileNumber, mainVars,
                   openFiles, spurious, finished>>

\* The broadcast on workReceived, for which only main waits.
AskTell(w) ==
    /\ At(w, "tell")
    /\ \/ /\ main' = IF main = "slotWait" THEN "slotRelock" ELSE main
          /\ Goto(w, "open")
       \/ Fails("broadcast") /\ GiveUp(w) /\ UNCHANGED main
    /\ UNCHANGED <<lock, slot, totalWorkDone, results, workingFileNumber, i, printed,
                   openFiles, spurious, finished>>

-----------------------------------------------------------------------------
(* threadFunction: the loop and the work on a file.                          *)

\* while(totalWorkDone < numFiles), read without the mutex.
LoopTest(w) ==
    /\ At(w, "loop")
    /\ Goto(w, IF totalWorkDone < numFiles THEN "ask" ELSE "done")
    /\ UNCHANGED <<lock, slot, totalWorkDone, results, workingFileNumber, mainVars,
                   openFiles, spurious, finished>>

Rejected(f) == kind[f] = "noaccess" \/ openFiles >= MaxOpen

\* fopen returns NULL: the error is recorded, and fclose(NULL) ends the process.
OpenRejected(w) ==
    LET f == workingFileNumber[w]
    IN  /\ At(w, "open")
        /\ Rejected(f)
        /\ errors' = [errors EXCEPT ![f] = 1]
        /\ main' = "crashed"
        /\ UNCHANGED <<lock, slot, totalWorkDone, checksums, pc, workingFileNumber, i,
                       printed, openFiles, spurious, finished>>

\* What the int fileLength holds of the length ftell returns, a long.
FileLength(f) ==
    CASE kind[f] \in {"empty", "wraps"} -> "zero"
      [] kind[f] = "negative" -> "negative"
      [] OTHER -> "positive"

\* fopen, fseek, ftell.  A file of length 0 gets the checksum 0 and is closed;
\* another one is read.
Open(w) ==
    LET f == workingFileNumber[w]
    IN  /\ At(w, "open")
        /\ ~Rejected(f)
        /\ openFiles' = openFiles + 1
        /\ \/ /\ FileLength(f) = "zero"
              /\ checksums' = [checksums EXCEPT ![f] = 0]
              /\ Goto(w, "close")
           \/ FileLength(f) # "zero" /\ Goto(w, "read") /\ UNCHANGED checksums
        /\ UNCHANGED <<lock, slot, totalWorkDone, errors, workingFileNumber, mainVars,
                       spurious, finished>>

Close(w) ==
    /\ At(w, "close")
    /\ openFiles' = openFiles - 1
    /\ Goto(w, "finish") \/ (Fails("fclose") /\ GiveUp(w))
    /\ UNCHANGED <<lock, slot, totalWorkDone, results, workingFileNumber, mainVars,
                   spurious, finished>>

\* The checksum of the fileLength bytes fread was asked for.
BufferCrc(f) ==
    CASE kind[f] = "good" -> Crc(f)
      [] kind[f] = "long" -> Prefix(f)
      [] kind[f] = "cut" -> Garbage

\* malloc, fread and crc32.  A negative length is, as a size_t, one no malloc can
\* satisfy.  Nothing on these paths closes the file.
Read(w) ==
    LET f == workingFileNumber[w]
    IN  /\ At(w, "read")
        /\ \/ /\ Fails("malloc") \/ FileLength(f) = "negative"
              /\ errors' = [errors EXCEPT ![f] = 1]
              /\ Goto(w, "finish")
              /\ UNCHANGED checksums
           \/ /\ kind[f] = "gone"
              /\ GiveUp(w)
              /\ UNCHANGED results
           \/ /\ kind[f] \in {"good", "long", "cut"}
              /\ checksums' = [checksums EXCEPT ![f] = BufferCrc(f)]
              /\ Goto(w, "finish")
              /\ UNCHANGED errors
        /\ UNCHANGED <<lock, slot, totalWorkDone, workingFileNumber, mainVars,
                       openFiles, spurious, finished>>

-----------------------------------------------------------------------------
(* workFinished, called by worker w.                                         *)

FinishLock(w) ==
    /\ At(w, "finish")
    /\ \/ lock = NoThread /\ lock' = w /\ Goto(w, "inc")
       \/ Fails("lock") /\ GiveUp(w) /\ UNCHANGED lock
    /\ UNCHANGED <<slot, totalWorkDone, results, workingFileNumber, mainVars,
                   openFiles, spurious, finished>>

FinishCount(w) ==
    /\ At(w, "inc")
    /\ totalWorkDone' = totalWorkDone + 1
    /\ finished' = finished \cup {workingFileNumber[w]}
    /\ Goto(w, "incd")
    /\ UNCHANGED <<lock, slot, results, workingFileNumber, mainVars, openFiles,
                   spurious>>

FinishUnlock(w) ==
    /\ At(w, "incd")
    /\ \/ lock' = NoThread /\ Goto(w, "testDone")
       \/ Fails("unlock") /\ GiveUp(w) /\ UNCHANGED lock
    /\ UNCHANGED <<slot, totalWorkDone, results, workingFileNumber, mainVars,
                   openFiles, spurious, finished>>

\* Mutant: the worker's own file is not counted in.
MutFinishTest(w) ==
    /\ At(w, "testDone")
    /\ Goto(w, IF totalWorkDone + 1 = numFiles THEN "tellDone" ELSE "loop")
    /\ UNCHANGED <<lock, slot, totalWorkDone, results, workingFileNumber, mainVars,
                   openFiles, spurious, finished>>

\* totalWorkDone == numFiles, read after the mutex has been given back.
FinishTest(w) ==
    /\ At(w, "testDone")
    /\ Goto(w, IF totalWorkDone = numFiles THEN "tellDone" ELSE "loop")
    /\ UNCHANGED <<lock, slot, totalWorkDone, results, workingFileNumber, mainVars,
                   openFiles, spurious, finished>>

\* The broadcast on allWorkDone, for which only main waits.
FinishTell(w) ==
    /\ At(w, "tellDone")
    /\ \/ /\ main' = IF main = "allWait" THEN "allRelock" ELSE main
          /\ Goto(w, "loop")
       \/ Fails("broadcast") /\ GiveUp(w) /\ UNCHANGED main
    /\ UNCHANGED <<lock, slot, totalWorkDone, results, workingFileNumber, i, printed,
                   openFiles, spurious, finished>>

WorkerStep(w) ==
    \/ LoopTest(w) \/ AskLock(w) \/ AskWait(w) \/ AskReady(w) \/ AskRelock(w) \/ AskTake(w)
    \/ AskUnlock(w) \/ AskTell(w) \/ OpenRejected(w) \/ Open(w) \/ Close(w) \/ Read(w)
    \/ FinishLock(w) \/ FinishCount(w) \/ FinishUnlock(w) \/ FinishTest(w) \/ FinishTell(w)

-----------------------------------------------------------------------------
(* main, with assignWork and waitForAllWorkToFinish.                         *)

AtMain(l) == main = l
GotoMain(l) == main' = l

workerVars == <<results, workingFileNumber, openFiles, finished>>

\* monitorInitialize, after the directory has been scanned.
MainInit ==
    /\ AtMain("init")
    /\ GotoMain("spawn") \/ (Fails("init") /\ GotoMain("error"))
    /\ UNCHANGED <<lock, slot, totalWorkDone, pc, i, printed, spurious, workerVars>>

MainSpawn ==
    /\ AtMain("spawn")
    /\ \/ i < numThreads /\ i' = i + 1 /\ Goto(i, "loop") /\ UNCHANGED main
       \/ i < numThreads /\ Fails("create") /\ GotoMain("error") /\ UNCHANGED <<i, pc>>
       \/ i = numThreads /\ i' = 0 /\ GotoMain("assign") /\ UNCHANGED pc
    /\ UNCHANGED <<lock, slot, totalWorkDone, printed, spurious, workerVars>>

\* The head of the assignment loop and the mutex of assignWork.
AssignLock ==
    /\ AtMain("assign")
    /\ i < numFiles
    /\ \/ lock = NoThread /\ lock' = Main /\ GotoMain("testSlot")
       \/ Fails("lock") /\ GotoMain("error") /\ UNCHANGED lock
    /\ UNCHANGED <<slot, totalWorkDone, pc, i, printed, spurious, workerVars>>

AssignWait ==
    /\ AtMain("testSlot")
    /\ availableWork # 0
    /\ lock' = NoThread
    /\ GotoMain("slotWait")
    /\ UNCHANGED <<slot, totalWorkDone, pc, i, printed, spurious, workerVars>>

\* Mutant: main does not wait until the slot is empty.
MutAssignReady ==
    /\ AtMain("testSlot")
    /\ GotoMain("post")
    /\ UNCHANGED <<lock, slot, totalWorkDone, pc, i, printed, spurious, workerVars>>

AssignReady ==
    /\ AtMain("testSlot")
    /\ availableWork = 0
    /\ GotoMain("post")
    /\ UNCHANGED <<lock, slot, totalWorkDone, pc, i, printed, spurious, workerVars>>

AssignPost ==
    /\ AtMain("post")
    /\ fileToWork' = i
    /\ availableWork' = 1
    /\ GotoMain("posted")
    /\ UNCHANGED <<lock, totalWorkDone, pc, i, printed, spurious, workerVars>>

AssignUnlock ==
    /\ AtMain("posted")
    /\ \/ lock' = NoThread /\ GotoMain("tellWork")
       \/ Fails("unlock") /\ GotoMain("error") /\ UNCHANGED lock
    /\ UNCHANGED <<slot, totalWorkDone, pc, i, printed, spurious, workerVars>>

\* The broadcast on workAvailable and totalWorkAssigned++.
AssignTell ==
    /\ AtMain("tellWork")
    /\ \/ /\ pc' = WakeWorkers(pc, "askWait", "askRelock")
          /\ i' = i + 1
          /\ GotoMain("assign")
       \/ Fails("broadcast") /\ GotoMain("error") /\ UNCHANGED <<i, pc>>
    /\ UNCHANGED <<lock, slot, totalWorkDone, printed, spurious, workerVars>>

AwaitLock ==
    /\ AtMain("assign")
    /\ i = numFiles
    /\ \/ lock = NoThread /\ lock' = Main /\ GotoMain("testAll")
       \/ Fails("lock") /\ GotoMain("error") /\ UNCHANGED lock
    /\ UNCHANGED <<slot, totalWorkDone, pc, i, printed, spurious, workerVars>>

AwaitWait ==
    /\ AtMain("testAll")
    /\ totalWorkDone < numFiles
    /\ lock' = NoThread
    /\ GotoMain("allWait")
    /\ UNCHANGED <<slot, totalWorkDone, pc, i, printed, spurious, workerVars>>

\* Mutant: main waits for all files but one.
MutAwaitReady ==
    /\ AtMain("testAll")
    /\ ~(totalWorkDone < numFiles - 1)
    /\ GotoMain("unlockAll")
    /\ UNCHANGED <<lock, slot, totalWorkDone, pc, i, printed, spurious, workerVars>>

AwaitReady ==
    /\ AtMain("testAll")
    /\ ~(totalWorkDone < numFiles)
    /\ GotoMain("unlockAll")
    /\ UNCHANGED <<lock, slot, totalWorkDone, pc, i, printed, spurious, workerVars>>

AwaitUnlock ==
    /\ AtMain("unlockAll")
    /\ \/ lock' = NoThread /\ i' = 0 /\ GotoMain("print")
       \/ Fails("unlock") /\ GotoMain("error") /\ UNCHANGED <<lock, i>>
    /\ UNCHANGED <<slot, totalWorkDone, pc, printed, spurious, workerVars>>

\* pthread_cond_wait, in either function, takes the mutex back.
MainRelock ==
    /\ \/ AtMain("slotRelock") /\ GotoMain("testSlot")
       \/ AtMain("allRelock") /\ GotoMain("testAll")
    /\ lock = NoThread
    /\ lock' = Main
    /\ UNCHANGED <<slot, totalWorkDone, pc, i, printed, spurious, workerVars>>

AccessError == -2   \* the line "<name> ACCESS ERROR"

\* One round of the loop that prints, and the return that ends the process.
PrintResults ==
    /\ AtMain("print")
    /\ \/ /\ i < numFiles
          /\ printed' = [f \in 0 .. i |-> IF f < i THEN printed[f]
                                          ELSE IF errors[i] = 1 THEN AccessError
                                          ELSE checksums[i]]
          /\ i' = i + 1
          /\ UNCHANGED main
       \/ i = numFiles /\ GotoMain("exited") /\ UNCHANGED <<i, printed>>
    /\ UNCHANGED <<lock, slot, totalWorkDone, pc, spurious, workerVars>>

MainStep ==
    \/ MainInit \/ MainSpawn \/ AssignLock \/ AssignWait \/ AssignReady \/ AssignPost
    \/ AssignUnlock \/ AssignTell \/ AwaitLock \/ AwaitWait \/ AwaitReady \/ AwaitUnlock
    \/ MainRelock \/ PrintResults

\* pthread_cond_wait may return without a broadcast.
SpuriousWakeup ==
    /\ spurious < MaxSpurious
    /\ spurious' = spurious + 1
    /\ \/ \E w \in Workers : At(w, "askWait") /\ Goto(w, "askRelock") /\ UNCHANGED main
       \/ AtMain("slotWait") /\ GotoMain("slotRelock") /\ UNCHANGED pc
       \/ AtMain("allWait") /\ GotoMain("allRelock") /\ UNCHANGED pc
    /\ UNCHANGED <<lock, slot, totalWorkDone, i, printed, workerVars>>

\* The process is over; nothing else stutters, so that a hang is a deadlock.
Terminated == ~Running /\ UNCHANGED vars

Next == \/ \E w \in Workers : WorkerStep(w)
        \/ MainStep
        \/ SpuriousWakeup
        \/ Terminated

Spec == Init /\ [][Next]_vars

\* Every thread that can run does: the scheduler is all the program relies on.
FairSpec == /\ Spec
            /\ \A w \in Workers : WF_vars(WorkerStep(w))
            /\ WF_vars(MainStep)

-----------------------------------------------------------------------------
(* Properties.                                                               *)

\* The variables hold values of their types.
TypeOK ==
    /\ lock \in Workers \cup {Main, NoThread}
    /\ availableWork \in {0, 1}
    /\ fileToWork \in Files \cup {0}
    /\ totalWorkDone \in Nat
    /\ checksums \in [Files -> Int]
    /\ errors \in [Files -> {0, 1}]
    /\ pc \in [Workers -> WorkerLabels]
    /\ workingFileNumber \in [Workers -> Files \cup {0}]
    /\ main \in MainLabels \cup Over
    /\ i \in Nat
    /\ openFiles \in Int
    /\ spurious \in Nat
    /\ finished \subseteq Files

\* The workers that have a file they have not counted yet.
BusyLabels == {"taken", "tell", "open", "close", "read", "finish", "inc"}
Busy == {w \in Workers : pc[w] \in BusyLabels}

\* The files main has put in the slot so far.
Assigned ==
    IF main \in {"init", "spawn"} THEN {}
    ELSE IF main \in {"assign", "testSlot", "slotWait", "slotRelock", "post"} THEN 0 .. i - 1
    ELSE IF main \in {"posted", "tellWork"} THEN 0 .. i
    ELSE Files

\* No file is worked on twice: the slot, the busy workers and the finished files
\* never share a file, however the unlocked broadcasts and wake-ups interleave.
EachFileOnce ==
    /\ \A w \in Busy : workingFileNumber[w] \notin finished
    /\ \A v, w \in Busy : v # w => workingFileNumber[v] # workingFileNumber[w]
    /\ availableWork = 1 => /\ fileToWork \notin finished
                            /\ \A w \in Busy : workingFileNumber[w] # fileToWork

\* No file is lost: what main has handed out is in the slot, with a worker, or
\* finished, unless a worker has given up on it or the process is over early.
NoFileLost ==
    main \notin {"error", "crashed"} =>
        Assigned = finished \cup {workingFileNumber[w] : w \in Busy}
                            \cup (IF availableWork = 1 THEN {fileToWork} ELSE {})

SomeoneGone == \E w \in Workers : pc[w] = "gone"

\* A worker sleeps only while the slot is empty or main is about to wake it.
NoLostWork ==
    (\E w \in Workers : pc[w] = "askWait") =>
        availableWork = 0 \/ main \in {"posted", "tellWork", "error", "crashed"}

\* main sleeps for the slot only while it is full or a worker is about to wake
\* main, and for the end only while work is left or a worker is about to find,
\* reading the counter without the mutex, that its file was the last.
NoLostMain ==
    \/ SomeoneGone
    \/ /\ main = "slotWait" =>
              availableWork = 1 \/ \E w \in Workers : pc[w] \in {"taken", "tell"}
       /\ main = "allWait" =>
              \/ totalWorkDone < numFiles
              \/ \E w \in Workers : pc[w] \in {"incd", "testDone", "tellDone"}

\* Worker w, or main, is neither asleep nor kept out of the mutex.
CanGoOn(w) ==
    /\ pc[w] \notin {"new", "askWait", "done", "gone"}
    /\ pc[w] \in {"ask", "finish"} => lock = NoThread \/ Fails("lock")
    /\ pc[w] = "askRelock" => lock = NoThread

MainCanGoOn ==
    /\ main \notin {"slotWait", "allWait"}
    /\ main = "assign" => lock = NoThread \/ Fails("lock")
    /\ main \in {"slotRelock", "allRelock"} => lock = NoThread

\* The pool hangs for four reasons only, each the trace of a worker that gave up: it
\* kept the mutex, it took a file with it, it was the last one (or there never was
\* one), or the last file has been counted and main was not told.
HangNeedsLoss ==
    Running /\ ~MainCanGoOn /\ (\A w \in Workers : ~CanGoOn(w)) =>
        \/ \E w \in Workers : pc[w] = "gone" /\ lock = w
        \/ ~NoFileLost
        \/ \A w \in Workers : pc[w] = "gone"
        \/ totalWorkDone = numFiles /\ SomeoneGone

\* The tables live in main's stack frame: no worker is at work on a file when
\* main prints the tables and leaves them.
TablesQuiet == main \in {"print", "exited"} => Busy = {}

\* What the requirements say is printed of file f: its checksum, or that it cannot
\* be read.
Required(f) == IF kind[f] \in {"noaccess", "gone"} THEN AccessError ELSE Crc(f)

\* What may be printed of file f: what is required; an access error if there may be
\* no memory for its contents; and, as far as the code falls short of what is
\* required, the checksum of the bytes it takes for the file's.
Answers(f) ==
    {Required(f)}
    \cup (IF Fails("malloc") \/ kind[f] = "negative" THEN {AccessError} ELSE {})
    \cup (IF kind[f] = "wraps" THEN {0} ELSE {})
    \cup (IF kind[f] \in {"long", "cut"} THEN {BufferCrc(f)} ELSE {})

\* The pool implements the report of ChecksumReport: every file is finished at
\* most once, nothing is reported before the last one, and the report has an answer
\* of Answers(f) in the place of file f, never another file's, an older one, or none.
Report == INSTANCE ChecksumReport
              WITH File <- Files, report <- IF main = "exited" THEN printed ELSE <<>>
ReportSpec == Report!Spec

\* The program ends with its report, whatever the order in which threads run.
Finishes == <>(main = "exited")

\* problem_3.c:6: of each file that can be read its own checksum is printed.
RequiredLines == \A f \in DOMAIN printed : printed[f] = Required(f)

\* The program says ACCESS ERROR of a file it cannot open, it does not crash.
NoCrash == main # "crashed"
=============================================================================
