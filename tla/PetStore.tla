------------------------------- MODULE PetStore -------------------------------
(* assignment4/problem_1.c (tests/pet_store.c is the same program): numCats +  *)
(* numDogs + numBirds threads let an animal out to play, over and over, until  *)
(* ten seconds have passed.  A monitor (one mutex, one condition variable per  *)
(* species, one counter per species) keeps cats away from dogs and birds.      *)
(*                                                                             *)
(* A thread's step is one call of the pthread library or one access of the     *)
(* shared counters.  FaultyCalls names the library calls that may return an    *)
(* error; the error paths are the code's.  (An error of pthread_cond_wait      *)
(* returns with the mutex held, so the loop's condition has not changed and    *)
(* the call is made again: the `if(error)` after the loop is never taken.)     *)
EXTENDS Integers, FiniteSets

CONSTANTS numCats, numDogs, numBirds,  \* the command line, 0 .. 99 each
          FaultyCalls,                 \* library calls that may fail
          StaleInts,                   \* what main may read on a dead stack
          MaxPlay,                     \* bound: outings of one animal
          MaxSpurious                  \* bound: spurious wake-ups, in all

Calls == {"init", "create", "join", "lock", "unlock", "broadcast"}

ASSUME CountsAssumption ==
    numCats \in Nat /\ numDogs \in Nat /\ numBirds \in Nat
ASSUME FaultsAssumption == FaultyCalls \subseteq Calls /\ StaleInts \subseteq Int
ASSUME BoundsAssumption == MaxPlay \in Nat /\ MaxSpurious \in Nat

CAT  == "cat"
DOG  == "dog"
BIRD == "bird"
Species == {CAT, DOG, BIRD}

numAnimals == numCats + numDogs + numBirds
Threads == 0 .. numAnimals - 1

\* main's assignment of a species to thread t.
Type(t) == IF t < numCats THEN CAT
           ELSE IF t - numCats < numDogs THEN DOG
           ELSE BIRD

Count(s) == CASE s = CAT -> numCats [] s = DOG -> numDogs [] s = BIRD -> numBirds

\* The counters the while loop of s's enter function looks at.
Rivals(s) == IF s = CAT THEN {DOG, BIRD} ELSE {CAT}

NoThread == -1

VARIABLES
    lock,       \* the mutex: the thread that holds it, or NoThread
    playing,    \* catsPlaying, dogsPlaying, birdsPlaying
    pc,         \* where each thread is
    playTime,   \* threadData[i].playTime
    expired,    \* time(NULL) has reached endTime
    main,       \* where main is
    i,          \* main's loop variable
    total,      \* catPlayTime, dogPlayTime, birdPlayTime
    spurious,   \* spurious wake-ups so far
    inside      \* history: threads past their ++ and not yet past their --

mainVars == <<expired, main, i, total>>

vars == <<lock, playing, pc, playTime, expired, main, i, total, spurious, inside>>

Labels == {"new", "loop", "enter", "check", "wait", "relock", "count", "entered",
           "play", "pair", "exit", "dec", "left", "signal", "signal2",
           "done", "failed"}

\* The process is over when main has returned or an assert has failed.
Over == {"exited", "error", "aborted"}

Running == main \notin Over

Init ==
    /\ lock = NoThread
    /\ playing = [s \in Species |-> 0]
    /\ pc = [t \in Threads |-> "new"]
    /\ playTime = [t \in Threads |-> 0]
    /\ expired = FALSE
    /\ main = "init"
    /\ i = 0
    /\ total = [s \in Species |-> 0]
    /\ spurious = 0
    /\ inside = {}

-----------------------------------------------------------------------------
(* The monitor, called by thread t.                                          *)

At(t, l) == Running /\ pc[t] = l

Goto(t, l) == pc' = [pc EXCEPT ![t] = l]

Fails(call) == call \in FaultyCalls

\* Mutant: || for && in the loop's condition, one rival fewer is enough.
MutClear(s) == \E r \in Rivals(s) : ~(playing[r] > 0)

\* No rival of s is out: the exit condition of the loop in s's enter function.
Clear(s) == \A r \in Rivals(s) : ~(playing[r] > 0)

\* X_enter, pthread_mutex_lock.  On an error X_enter returns -1 at once, but
\* threadFunction looks at the result only after X_exit has overwritten it, so
\* the thread goes on to play without having been counted.
EnterLock(t) ==
    /\ At(t, "enter")
    /\ \/ lock = NoThread /\ lock' = t /\ Goto(t, "check")
       \/ Fails("lock") /\ Goto(t, "play") /\ UNCHANGED lock
    /\ UNCHANGED <<playing, playTime, spurious, inside, mainVars>>

\* The while loop finds a rival: pthread_cond_wait on the species' own variable.
EnterWait(t) ==
    /\ At(t, "check")
    /\ ~Clear(Type(t))
    /\ lock' = NoThread
    /\ Goto(t, "wait")
    /\ UNCHANGED <<playing, playTime, spurious, inside, mainVars>>

\* The loop is over.
EnterClear(t) ==
    /\ At(t, "check")
    /\ Clear(Type(t))
    /\ Goto(t, "count")
    /\ UNCHANGED <<lock, playing, playTime, spurious, inside, mainVars>>

\* The counter of the species goes up.
EnterCount(t) ==
    /\ At(t, "count")
    /\ playing' = [playing EXCEPT ![Type(t)] = @ + 1]
    /\ inside' = inside \cup {t}
    /\ Goto(t, "entered")
    /\ UNCHANGED <<lock, playTime, spurious, mainVars>>

EnterUnlock(t) ==
    /\ At(t, "entered")
    /\ \/ lock' = NoThread
       \/ Fails("unlock") /\ UNCHANGED lock
    /\ Goto(t, "play")
    /\ UNCHANGED <<playing, playTime, spurious, inside, mainVars>>

\* pthread_cond_wait may return without a broadcast.
SpuriousWakeup(t) ==
    /\ At(t, "wait")
    /\ spurious < MaxSpurious
    /\ spurious' = spurious + 1
    /\ Goto(t, "relock")
    /\ UNCHANGED <<lock, playing, playTime, inside, mainVars>>

\* Mutant: `if` for `while`, the counter is not looked at again after the wait.
MutRelock(t) ==
    /\ At(t, "relock")
    /\ lock = NoThread
    /\ lock' = t
    /\ Goto(t, "count")
    /\ UNCHANGED <<playing, playTime, spurious, inside, mainVars>>

\* pthread_cond_wait takes the mutex back before it returns.
Relock(t) ==
    /\ At(t, "relock")
    /\ lock = NoThread
    /\ lock' = t
    /\ Goto(t, "check")
    /\ UNCHANGED <<playing, playTime, spurious, inside, mainVars>>

\* X_exit, pthread_mutex_lock.
ExitLock(t) ==
    /\ At(t, "exit")
    /\ \/ lock = NoThread /\ lock' = t /\ Goto(t, "dec")
       \/ Fails("lock") /\ Goto(t, "failed") /\ UNCHANGED lock
    /\ UNCHANGED <<playing, playTime, spurious, inside, mainVars>>

\* Mutant: cat_exit's line pasted into the other exits.
MutExitCount(t) ==
    /\ At(t, "dec")
    /\ playing' = [playing EXCEPT ![CAT] = @ - 1]
    /\ inside' = inside \ {t}
    /\ Goto(t, "left")
    /\ UNCHANGED <<lock, playTime, spurious, mainVars>>

ExitCount(t) ==
    /\ At(t, "dec")
    /\ playing' = [playing EXCEPT ![Type(t)] = @ - 1]
    /\ inside' = inside \ {t}
    /\ Goto(t, "left")
    /\ UNCHANGED <<lock, playTime, spurious, mainVars>>

ExitUnlock(t) ==
    /\ At(t, "left")
    /\ \/ lock' = NoThread /\ Goto(t, "signal")
       \/ Fails("unlock") /\ Goto(t, "failed") /\ UNCHANGED lock
    /\ UNCHANGED <<playing, playTime, spurious, inside, mainVars>>

\* Mutant: pthread_cond_signal, one thread is enough.
MutBroadcast(t, s, l) ==
    LET asleep == {u \in Threads : pc[u] = "wait" /\ Type(u) = s}
    IN  pc' = [u \in Threads |-> IF u = t THEN l
                                 ELSE IF u \in asleep /\ \A v \in asleep : u <= v THEN "relock"
                                 ELSE pc[u]]

\* Broadcast on s's variable: every waiting thread of species s wakes up, and t
\* goes to label l.
Broadcast(t, s, l) ==
    pc' = [u \in Threads |-> IF u = t THEN l
                             ELSE IF pc[u] = "wait" /\ Type(u) = s THEN "relock"
                             ELSE pc[u]]

\* Mutant: cat_exit broadcasts on cvDog twice.
MutFirstSignal(s) == IF s = CAT THEN DOG ELSE CAT

\* cat_exit wakes the birds and then the dogs; dog_exit and bird_exit wake the
\* cats.  After the last broadcast threadFunction counts the outing.
FirstSignal(s) == IF s = CAT THEN BIRD ELSE CAT

ExitSignal(t) ==
    /\ At(t, "signal")
    /\ \/ /\ Type(t) = CAT
          /\ Broadcast(t, FirstSignal(CAT), "signal2")
          /\ UNCHANGED playTime
       \/ /\ Type(t) # CAT
          /\ Broadcast(t, FirstSignal(Type(t)), "loop")
          /\ playTime' = [playTime EXCEPT ![t] = @ + 1]
       \/ Fails("broadcast") /\ Goto(t, "failed") /\ UNCHANGED playTime
    /\ UNCHANGED <<lock, playing, spurious, inside, mainVars>>

ExitSignalDogs(t) ==
    /\ At(t, "signal2")
    /\ \/ /\ Broadcast(t, DOG, "loop")
          /\ playTime' = [playTime EXCEPT ![t] = @ + 1]
       \/ Fails("broadcast") /\ Goto(t, "failed") /\ UNCHANGED playTime
    /\ UNCHANGED <<lock, playing, spurious, inside, mainVars>>

-----------------------------------------------------------------------------
(* threadFunction and play.                                                  *)

\* while(time(NULL) < endTime).  MaxPlay bounds the outings: a thread that has
\* had its share stays at the loop's test until the time is over.
LoopTest(t) ==
    /\ At(t, "loop")
    /\ \/ ~expired /\ playTime[t] < MaxPlay /\ Goto(t, "enter")
       \/ expired /\ Goto(t, "done")
    /\ UNCHANGED <<lock, playing, playTime, spurious, inside, mainVars>>

InRange == \A s \in Species : playing[s] >= 0 /\ playing[s] <= Count(s)

\* play() reads the counters without the mutex.  Each range assert looks at one
\* counter; the last two look at catsPlaying and then, if that was not 0, at a
\* second counter some time later.  One round stands for the ten: whatever the
\* counters hold while t is at "play" and "pair" may be what a round reads.
PlayRead(t) ==
    /\ At(t, "play")
    /\ InRange
    /\ Goto(t, IF playing[CAT] = 0 THEN "exit" ELSE "pair")
    /\ UNCHANGED <<lock, playing, playTime, spurious, inside, mainVars>>

PlayPair(t) ==
    /\ At(t, "pair")
    /\ \E s \in {DOG, BIRD} : playing[s] = 0
    /\ Goto(t, "exit")
    /\ UNCHANGED <<lock, playing, playTime, spurious, inside, mainVars>>

\* assert calls abort, which ends the process.
AssertFails(t) ==
    /\ \/ At(t, "play") /\ ~InRange
       \/ At(t, "pair") /\ \E s \in {DOG, BIRD} : playing[s] # 0
    /\ main' = "aborted"
    /\ UNCHANGED <<lock, playing, pc, playTime, expired, i, total, spurious, inside>>

ThreadStep(t) ==
    \/ EnterLock(t) \/ EnterWait(t) \/ EnterClear(t) \/ EnterCount(t)
    \/ EnterUnlock(t) \/ Relock(t)
    \/ ExitLock(t) \/ ExitCount(t) \/ ExitUnlock(t) \/ ExitSignal(t) \/ ExitSignalDogs(t)
    \/ LoopTest(t) \/ PlayRead(t) \/ PlayPair(t) \/ AssertFails(t)

-----------------------------------------------------------------------------
(* main and the clock.                                                       *)

Tick == Running /\ ~expired /\ main # "init" /\ expired' = TRUE
        /\ UNCHANGED <<lock, playing, pc, playTime, main, i, total, spurious, inside>>

\* monitorInitialize, after the command line has been accepted.
MainInit ==
    /\ main = "init"
    /\ \/ main' = "spawn"
       \/ Fails("init") /\ main' = "error"
    /\ UNCHANGED <<lock, playing, pc, playTime, expired, i, total, spurious, inside>>

\* Mutant: <= for < in the loop that creates the threads.
MutMainSpawn ==
    /\ main = "spawn"
    /\ i <= numAnimals
    /\ i' = i + 1
    /\ Goto(i, "loop")
    /\ UNCHANGED <<lock, playing, playTime, expired, main, total, spurious, inside>>

\* One round of the loop that creates the threads.
MainSpawn ==
    /\ main = "spawn"
    /\ i < numAnimals
    /\ \/ i' = i + 1 /\ Goto(i, "loop") /\ UNCHANGED main
       \/ Fails("create") /\ main' = "error" /\ UNCHANGED <<i, pc>>
    /\ UNCHANGED <<lock, playing, playTime, expired, total, spurious, inside>>

MainSpawned ==
    /\ main = "spawn"
    /\ i = numAnimals
    /\ main' = "join" /\ i' = 0
    /\ UNCHANGED <<lock, playing, pc, playTime, expired, total, spurious, inside>>

\* What main finds through the pointer thread t passed to pthread_exit: its
\* playTime, or, if t gave up, a word of t's stack, which is gone by then.
Joined(t) == IF pc[t] = "done" THEN {playTime[t]} ELSE StaleInts

\* Mutant: main adds up without waiting for the threads to end.
MutMainJoin ==
    /\ main = "join"
    /\ i < numAnimals
    /\ i' = i + 1
    /\ total' = [total EXCEPT ![Type(i)] = @ + playTime[i]]
    /\ UNCHANGED <<lock, playing, pc, playTime, expired, main, spurious, inside>>

\* One round of the loop that joins the threads and adds up their play times.
MainJoin ==
    /\ main = "join"
    /\ i < numAnimals
    /\ \/ /\ pc[i] \in {"done", "failed"}
          /\ i' = i + 1
          /\ UNCHANGED main
          /\ \E n \in Joined(i) :
                total' = [total EXCEPT ![Type(i)] = @ + n]
       \/ /\ Fails("join")
          /\ main' = "error"
          /\ UNCHANGED <<i, total>>
    /\ UNCHANGED <<lock, playing, pc, playTime, expired, spurious, inside>>

\* The totals are printed and main returns.
MainPrint ==
    /\ main = "join"
    /\ i = numAnimals
    /\ main' = "exited"
    /\ UNCHANGED <<lock, playing, pc, playTime, expired, i, total, spurious, inside>>

MainStep == MainInit \/ MainSpawn \/ MainSpawned \/ MainJoin \/ MainPrint

\* The process is over; nothing else stutters, so that a hang is a deadlock.
Terminated == ~Running /\ UNCHANGED vars

Next == \/ \E t \in Threads : ThreadStep(t) \/ SpuriousWakeup(t)
        \/ MainStep
        \/ Tick
        \/ Terminated

Spec == Init /\ [][Next]_vars

\* Every thread and main keep running and time passes.  Weak fairness is all it
\* takes: the time limit ends every contest for the mutex.
FairSpec == /\ Spec
            /\ \A t \in Threads : WF_vars(ThreadStep(t))
            /\ WF_vars(MainStep)
            /\ WF_vars(Tick)

-----------------------------------------------------------------------------
(* Properties.                                                               *)

\* The variables hold values of their types.
TypeOK ==
    /\ lock \in Threads \cup {NoThread}
    /\ playing \in [Species -> Int]
    /\ pc \in [Threads -> Labels]
    /\ playTime \in [Threads -> Nat]
    /\ expired \in BOOLEAN
    /\ main \in {"init", "spawn", "join"} \cup Over
    /\ i \in 0 .. numAnimals
    /\ total \in [Species -> Int]
    /\ spurious \in 0 .. MaxSpurious
    /\ inside \subseteq Threads

Apart(t, u) == Type(t) \in Rivals(Type(u))

\* The requirement at the head of the file: a cat is never out with a dog or a
\* bird, where an animal is out from its ++ to its --.
Exclusion == \A t, u \in inside : ~Apart(t, u)

\* Each counter is the number of animals of its species that are out, whatever
\* the interleaving of the ++ and -- with the unlocked reads in play().
CountersMatch ==
    \A s \in Species : playing[s] = Cardinality({t \in inside : Type(t) = s})

\* No assert of play() fails, although it reads the counters one after another
\* without the mutex while animals come and go.
NoAssertFails == main # "aborted"

\* u has made room for species s and has not told it yet, or has failed to.
Owes(u, s) ==
    \/ Type(u) \in Rivals(s) /\ pc[u] \in {"left", "signal"}
    \/ Type(u) = CAT /\ s = DOG /\ pc[u] = "signal2"
    \/ pc[u] = "failed"

\* The broadcasts come after the unlock, so the counters can be clear while
\* animals still sleep.  Nobody sleeps without a rival in the room or a thread
\* that is about to wake its species (unless a call has failed).
NoLostWakeup ==
    \A t \in Threads :
        pc[t] = "wait" => ~Clear(Type(t)) \/ \E u \in Threads : Owes(u, Type(t))

\* When a thread can take its next step (ENABLED ThreadStep(t), as its guards have it):
\* at the other labels one of its actions is possible whatever the counters hold.
CanGoOn(t) ==
    /\ Running
    /\ pc[t] \notin {"new", "wait", "done", "failed"}
    /\ pc[t] \in {"enter", "exit"} => lock = NoThread \/ Fails("lock")
    /\ pc[t] = "relock" => lock = NoThread
    /\ pc[t] = "loop" => expired \/ playTime[t] < MaxPlay

\* main waits for a thread, and no thread can go on.
Stuck ==
    /\ main = "join"
    /\ i < numAnimals /\ pc[i] \notin {"done", "failed"}
    /\ \A t \in Threads : ~CanGoOn(t)

\* A program that hangs after its time is over does so for one of two reasons: an
\* unlock has failed and left the mutex locked, or a thread has given up with
\* its counter up or its broadcast not made.  No other path of the errors does
\* it, though some leave the counters wrong.
HangNeedsFailure ==
    Stuck /\ expired => lock # NoThread \/ \E t \in Threads : pc[t] = "failed"

\* The outings of some animals: the k-th one of thread t is <<t, k>>.
Outings(animals) == UNION {{t} \X (1 .. playTime[t]) : t \in animals}

\* What main prints is the number of the outings of each species.  The word of a dead
\* stack that a thread which gave up leaves behind only spoils its own species.
TotalsRight ==
    main = "exited" =>
        \A s \in Species :
            LET animals == {t \in Threads : Type(t) = s}
            IN  (\A t \in animals : pc[t] = "done") =>
                    total[s] = Cardinality(Outings(animals))

\* The pet store implements the room of PlayRoom.
Room == INSTANCE PlayRoom WITH Animal <- Threads, room <- inside
RoomSpec == Room!Spec

\* Every run of the program ends: no animal sleeps for ever, and main joins all.
AllGoHome == <>(main = "exited")

\* An animal that waits gets to play, or the process ends otherwise.
WaiterPlays == \A t \in Threads : pc[t] = "wait" ~> pc[t] = "play"
=============================================================================
