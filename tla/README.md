# Verification of fv_project

This directory holds TLA+ models, TLC configurations and TLAPS proofs for the C
programs of `src/`. The repository is a collection of course programs; the ones
whose correctness is hard to test are the multi-threaded ones.

## 1. Inventory

| Component | Source | State | Operations | Interaction |
|---|---|---|---|---|
| Pet store monitor | `assignment4/problem_1.c`, `tests/pet_store.c` (same program) | mutex `lock`, three condition variables, `catsPlaying`, `dogsPlaying`, `birdsPlaying`, `playTime` of each thread | `cat_enter`/`cat_exit` and the same for dogs and birds, `play`, `threadFunction`, `main` | threads share the monitor; `play` reads the counters without the mutex; `main` joins the threads and reads their `playTime` through a pointer |
| Parallel checksum pool | `assignment4/problem_3.c` | mutex, three condition variables, a one-place slot (`availableWork`, `fileToWork`), `totalWorkDone`, result tables in main's stack frame | `assignWork`, `waitForAllWorkToFinish` (main), `askForWork`, `workFinished` (workers), `threadFunction` | main feeds the workers through the slot; two unlocked reads of `totalWorkDone` |
| Bakery lock | `assignment3/problem_1.c`, `problem_2.c` | `choosing[]`, `number[]`, `in_cs` | take a ticket, wait for the others, critical section, leave | volatile arrays, one writer per cell, one processor |
| Bakery on several processors | `assignment3/problem_3.c` | the same behind store buffers | the same, with `mfence` | x86 memory order |
| Spin locks | `assignment3/problem_4.c`, `problem_5.c` | `value`; or `counter` and `turn` | `spin_lock`, `spin_unlock` | every store of the bakery's arrays is inside a lock |
| Pi estimator | `assignment3/problem_6.c` | `totalPoints`, `numPointsInCircle`, the lock | count a point, compute the estimate | two critical sections per point in the circle; main reads the counters after the joins |
| Sequential checksum | `assignment4/problem_2.c` | open files, buffers | one loop over a directory | none |
| Character devices | `assignment5/sleepy.c`, `shady.c` | region, class, device array, device nodes, open files | init, exit, open, read, write | the kernel calls open while init or exit runs |
| Sorts and list | `assignment1/*.c`, `tests/byte_sort.c`, `nibble_sort.c`, `sorted_ll.c` | an integer; a linked list | `byte_sort`, `nibble_sort`, `add_link`, `is_sorted` | none |
| `name_list`, `draw_me` | `assignment1/assign1.c` | heap nodes; a file and its descriptor | one call each | failing library calls; a file an earlier run has left |
| `convert` | `assignment1/assign1.c` | nibbles, an array of bits | print a value in octal, binary or hex | none |
| First kernel modules | `assignment2/*.c` | none | load, unload | none |

What is hard in them, and what makes each correct:

* **Pet store.** All exit functions broadcast *after* they have given the mutex
  back, the counters are read without it in `play`, an entering animal must look
  again after it has been woken, and every library call has an error path.
  Correct means: never a cat out with a dog or a bird; each counter is the number
  of animals out; no assert fails; nobody sleeps without a reason; the program
  ends with the right totals.
* **Checksum pool.** Same monitor style; in addition `workFinished` tests the
  total after the unlock, workers test it with no lock at all, and the tables are
  in the stack frame of a function that may return. Correct means: every file is
  worked on once, none is lost, main sleeps only while there is something to wait
  for, the report is complete and comes after the last write to the tables.
* **Bakery.** `number[i]` is read twice while the largest ticket is looked for and
  up to three times in the waiting condition. Correct means: mutual exclusion,
  first come first served, nobody starves.
* **The others.** Store buffers and the wrap-around of the ticket lock; the
  unwinding of a half-initialised driver while a process has a device open; what
  is left open or allocated after a failed call; the order and the multiset kept
  by the sorts. `PROJECT.json` lists every hazard at its line.

## 2. Modules

| Module | What it is |
|---|---|
| `PlayRoom` | abstract: animals enter and leave a room, never two that must be kept apart |
| `PetStore` | `assignment4/problem_1.c`; implements `PlayRoom` |
| `ChecksumReport` | abstract: every file finished at most once, then one acceptable report |
| `WorkPool` | `assignment4/problem_3.c`; implements `ChecksumReport` |
| `ChecksumLoop` | `assignment4/problem_2.c`, the same task with one thread; implements `ChecksumReport` as well |
| `FairLock` | abstract: threads come, join the line, go in one at a time, and after those who were in line when they came |
| `Bakery` | `assignment3/problem_1.c`; implements `FairLock` |
| `StoreBuffers` | external: the memory of an x86 machine with several processors |
| `TSOBakery` | `assignment3/problem_3.c`, `problem_4.c`, `problem_5.c`: the bakery and its spin locks on `StoreBuffers`; the bakery and the ticket lock each implement `FairLock` |
| `PiEstimator` | `assignment3/problem_6.c` on `StoreBuffers` |
| `CharDevice` | `assignment5/sleepy.c` (`shady.c` has the same life cycle) |
| `SelectionSort` | `byte_sort` and `nibble_sort` of `assignment1/assign1.c` |
| `Convert` | `convert` of `assignment1/assign1.c` |
| `DrawMe` | `name_list` and `draw_me` of `assignment1/assign1.c` |
| `SortedList` | `assignment1/sorted_ll.c` |
| `MCPetStore`, `MCWorkPool`, `MCBakery`, `MCTSOBakery`, `MCPiEstimator`, `MCCharDevice` | the small instances TLC checks |
| `Powers` | powers of a base, for the masks and shifts of `SelectionSort` and `Convert` |
| `Programs` | the five sequential programs side by side, one of which is chosen and run |
| `MCPrograms` | the small instance of `Programs` |
| `PetStore_proofs`, `WorkPool_proofs`, `Bakery_proofs`, `CharDevice_proofs`, `StoreBuffers_proofs`, `TSOBakery_proofs`, `PiEstimator_proofs`, `Programs_proofs` | theorems about the module of that name |

Operators named `Mut...` stand before the definition they are a faulty version of
(a dropped guard, `if` for `while`, signal for broadcast). The specifications do
not use them. They record, property by property, a plausible bug that the
property catches; `PROJECT.json` pairs them under `mutants`.

### Correspondence: PetStore

A step of a thread is one call into the pthread library or one access to the
shared counters. The three pairs of enter and exit functions differ in the counter
they change, the counters they look at (`Rivals`) and the variables they broadcast
on (`FirstSignal` and, for cats only, `ExitSignalDogs`); the actions are written
once and take the species from the thread.

| Code | Labels of `pc` | Actions |
|---|---|---|
| `while(time(NULL) < endTime)` | `loop` | `LoopTest` |
| `X_enter` | `enter`, `check`, `wait`, `relock`, `count`, `entered` | `EnterLock`, `EnterWait`, `EnterClear`, `Relock`, `EnterCount`, `EnterUnlock` |
| `play` | `play`, `pair` | `PlayRead`, `PlayPair`, `AssertFails` |
| `X_exit` | `exit`, `dec`, `left`, `signal`, `signal2` | `ExitLock`, `ExitCount`, `ExitUnlock`, `ExitSignal`, `ExitSignalDogs` |
| `pthread_exit` | `done`, `failed` | ends of the above |
| `main` | `main`, `i`, `total` | `MainInit`, `MainSpawn`, `MainSpawned`, `MainJoin`, `MainPrint` |

`wait` is a thread inside `pthread_cond_wait`, asleep; `relock` one that has been
woken and wants the mutex. The ten rounds of `play` are one: the reads of a round
happen at arbitrary moments while the thread is at `play` and `pair`, so ten rounds
show no more than one does. The range asserts read one counter each; the last two
read `catsPlaying` first and another counter later, which is the interesting pair.
`inside` is a history variable: the threads past their `++` and not yet past their
`--`.

`FaultyCalls` is the set of library calls that may return an error. The error paths
are the code's: a failing enter sends the thread on to `play` (its result is
overwritten by that of exit), a failing exit ends the thread, a failing call of
main ends the process. A condition wait that fails has no effect the loop does not
undo, see the head of the module. main adds what it finds through the pointer of
`pthread_exit`; after an error this points into a dead stack, hence `StaleInts`.

### Correspondence: WorkPool

Same granularity. `main` is both main's program counter (in `assignWork`,
`waitForAllWorkToFinish` and the loops around them) and the state of the process;
`pc[w]` is a worker's. The file system is a constant: `kind[f]` says what file `f`
is (`good`, `empty`, `noaccess`, `gone`: `fread` returns nothing, `cut`: shorter
than `ftell` said), and `MaxOpen` how many descriptors there are. Line 289 stores the
`long` of `ftell` in an `int`, which has three more kinds of file: `wraps`, a multiple of
4 GiB, of whose length nothing is left; `long`, of whose length a part is left, and only
so many bytes are read; and `negative`, for whose length, a huge `size_t`, `malloc` finds
no memory. `FileLength` is what the `int` holds. `Crc` stands for `crc32` of the whole
file and is 0 for an empty one; `BufferCrc` is what the code computes, which for a `long`
file is the checksum of a `Prefix` and for a `cut` one `Garbage`. All that matters of
these values is which are the same. `Rejected`
leads to `crashed`, as `fclose(NULL)` does. Files that are read are never closed,
files that are empty are.

| Code | Actions |
|---|---|
| `askForWork` | `AskLock`, `AskWait`, `AskReady`, `AskRelock`, `AskTake`, `AskUnlock`, `AskTell` |
| `threadFunction` | `LoopTest`, `OpenRejected`, `Open`, `Close`, `Read` |
| `workFinished` | `FinishLock`, `FinishCount`, `FinishUnlock`, `FinishTest`, `FinishTell` |
| `assignWork` | `AssignLock`, `AssignWait`, `AssignReady`, `AssignPost`, `AssignUnlock`, `AssignTell` |
| `waitForAllWorkToFinish` | `AwaitLock`, `AwaitWait`, `AwaitReady`, `AwaitUnlock` |
| rest of `main` | `MainInit` (anything that fails before the threads exist), `MainSpawn`, `PrintResults` |

The unlocked reads of `totalWorkDone` (lines 224 and 268) are data races. The
variable is an aligned int and each read follows a call the compiler cannot see
through, so a read finds the value of that moment; that is what `FinishTest` and
`LoopTest` do.

### Correspondence: Bakery

One action per read or write of a cell another thread may touch: `Scan` and
`Reread` are the two reads of line 47, `WaitTest`, `WaitLess`, `WaitTie` the three
of lines 57 to 59. `CsStep` is an assert on `in_cs` and the `++` or the assignment after
it in one step, which changes nothing: only the thread inside writes `in_cs`, by
`MutualExclusion`.
`ahead[t]` is a history variable: who had a ticket, and was done choosing, when `t`
came to the bakery, less those who have left since. Memory is sequentially
consistent because line 9 of the program restricts it to one processor. `Spawn`
includes a `pthread_create` that fails and ends the process.

### Correspondence: TSOBakery

The three programs are one module: `method` says which one is running, and the only
difference is what stands around the three stores that take a ticket.

| Code | Label, phase | Actions |
|---|---|---|
| what comes before a store: nothing, `spin_lock` by compare-and-swap, the atomic add of the ticket lock | `choose`, `ticket`, `chosen`; `take` | `Take` |
| `while(me != s->turn)` | phase `spin` | `Spin` |
| `choosing[me] = 1`, `number[me] = max + 1`, `choosing[me] = 0` | phase `store` | `StoreCell` |
| what comes after it: `mfence`, a plain store of 0, an atomic add | phase `give` | `Give`, `NextStage` |
| the scan, the waiting loop, the critical section, the exit | as in `Bakery` | as in `Bakery` |
| the processor (external) | | `Drain`: the oldest store of a buffer reaches the memory |

`Store` appends to the thread's own buffer, `Read` looks there first, and an atomic
instruction or a fence needs the buffer to be empty (`Drained`). The ticket lock's
counters wrap at `Modulus`. `queue` is a history variable: who has drawn a ticket of
that lock, in order; `ahead` is the history variable of `Bakery`.

`FairLock` is implemented twice, with different mappings. For the bakery a thread has come
when it has announced that it chooses, is in line when it has taken that back, and is
inside at the critical section. For the ticket lock coming and joining are the one add on
`counter`, a thread is inside when it has seen its turn, and the line is `queue`; for the
other two programs this mapping is empty.

### Correspondence: CharDevice

A step is one call into the kernel. `loader` is where init, exit or cleanup is,
`pc[p]` where a process is in the file operations, `module` what the kernel thinks of
the module.

| Code | Actions |
|---|---|
| `sleepy_init_module`, `sleepy_construct_device` | `AllocRegion`, `CreateClass`, `AllocDevices`, `AddCdev`, `CreateNode`, `Loaded`; `GiveUp` is `goto fail` from the loop |
| `sleepy_exit_module` | `Exit` |
| `sleepy_cleanup_module`, `sleepy_destroy_device` | `Clean`, `DestroyNode`, `DelCdev`, `FreeDevices`, `DestroyClass`, `UnregisterRegion` |
| the kernel's open (external), `sleepy_open`, `sleepy_release` | `KernelOpen`, `Open`, `Release` |
| `sleepy_read`, `sleepy_write` | `Call`, `Lock`, `ReadEnd`, `WriteEnd` |

A device can be opened from its `cdev_add` on, also while init still works on the
next one, so the processes' steps interleave with all of init and cleanup. The code
does not sleep yet: `sleepy_write` returns once it has converted its argument.
`llseek` does nothing and has no step.

### Correspondence: PiEstimator

The counters are volatile, so `totalPoints++` is a load (`Load`) and a store (`Add`);
`Take` is the compare-and-swap that takes the lock, `Give` the plain store that
releases it, after which a point in the circle goes round a second time for
`totalPoints`. The points are random, so whether one is in the circle is a free choice
of `LoopTest`. `drawn` (how many points each thread has drawn) and `hits` (which of them
were in the circle) are history variables. `Join` waits until the
buffers are empty, as the system calls behind `pthread_join` do. The two counters are
natural numbers here and ints in the code: the model says nothing of a run with 2^31
points.

### Correspondence: the sequential programs

* `SelectionSort`: one action per statement group: `Split` (mask and shift), `Outer`,
  `Inner` and `Swap` (the two loops), `Join`. The digits' number and base are the
  constants in which the two functions differ. `is_sorted` is the oracle of the tests.
* `Convert`: `Switch` (the nibbles), `Fill` and `Pad` (the array of bits of the octal
  mode), `Group` (one octal digit), `PrintNibble`, `EndLine`. Characters are codes, as
  the code computes with them. What an array element holds before it is written is
  `Unset`, which is no code.
* `SortedList`: `AddFirst`, `AddFront` and `AddInside` are the three branches of
  `add_link`, `Advance` and `LinkIn` its loop and what follows it; `CheckNode`,
  `CheckEnd` and `CheckFails` are `is_sorted`. Nodes are numbered in the order `malloc`
  hands them out, and an `int` has `Bits` bits. A failing `malloc` is `NoMemory`, a crash.
* `DrawMe`: `Malloc` and `SetLinks` are `name_list`, the rest is one system call each of
  `draw_me`. The file is created with a mode that does not allow writing, so whether it
  can be opened a second time depends on the user (`privileged`). `Restart` runs the
  program again in the directory the last run has left.
* `ChecksumLoop`: `Skip`, `Name`, `Open`, `Size` and `Sum` are the loop's body in order,
  `Release` what follows it. `entry[f]` says what the directory holds. The length of a file
  is stored in an `int` as in `problem_3.c`, with the same three kinds of file (`wraps`,
  `long`, `negative`); here a `malloc` that fails is only reported, so a `negative` file
  ends the program.

## 3. Runs

| Run | Instance | Checks |
|---|---|---|
| `petstore` | 2 cats, 1 dog, 1 bird, one outing each, 1 spurious wake-up, no faults, fair | type, `CountersMatch`, `NoAssertFails`, `NoLostWakeup`, refinement `RoomSpec`, liveness `AllGoHome`, `WaiterPlays` |
| `petstore_faults` | 1 + 1 + 1, two outings, every call may fail | `HangNeedsFailure`, `TotalsRight` |
| `petstore_lock_fault` | 1 cat, 1 dog, the mutex call may fail | `NoAssertFails` is **violated** |
| `workpool` | 3 workers, 3 files (an ordinary one between a `wraps` and a `negative` one), no faults, fair | `EachFileOnce`, `NoFileLost`, `NoLostWork`, `NoLostMain`, `TablesQuiet`, refinement `ReportSpec`, liveness `Finishes` |
| `workpool_faults` | 2 workers, 4 files (empty, vanishing, too long, cut), 3 descriptors, every call may fail | `HangNeedsLoss`, refinement `ReportSpec` |
| `workpool_noaccess` | 1 worker, 2 files, the second cannot be opened | `NoCrash` is **violated** |
| `bakery` | 2 threads, 2 and 3 entries, fair | `MutualExclusion`, refinement `LockSpec`, liveness `AllEnd`, `EachGetsIn` |
| `tso_bakery` | 2 threads, 2 entries each, all three programs, counters wrap at 3, fair | `NoAssertFails`, `LockExclusion`, `TicketsBounded`, refinements `TicketLockSpec`, `LockSpec`, liveness `AllEnd` |
| `pi` | 2 threads, 3 points each, fair | `EstimateRight`, liveness `AllEnd` |
| `chardevice` | 0, 1 or 3 devices, 3 processes, every call may fail, symmetric processes | `NothingLeft`, `DestroyConstructed`, `NodeHasDevice`, `MutexGivenBack` |
| `chardevice_open` | 2 devices, 1 process, `cdev_add` may fail | `FileKeepsDevice` is **violated** |
| `programs` | sort: all values of 5 digits in base 4; convert: 4 nibbles, all modes; list: all sequences of 5 numbers of a 2-bit int; drawing: 3 runs; checksum: 10 entries, 6 descriptors | `SortsDigits`, `ConvertRight`, `AssertsPass`, `KeepsAll`, `NoTrash`, refinement `SumReport` |

The refinements say more than the invariants named after them, which are therefore not
checked a second time: `RoomSpec` implies `Exclusion`, `LockSpec` implies
`FirstComeFirstServed` and, in `TSOBakery`, `MutualExclusion`, and `TicketLockSpec` implies
`ServedInOrder`. All of these are theorems as well. `TicketsBounded` is proved of both
bakeries and checked of the one with store buffers.

The passing runs of the threaded programs without faults also check for deadlock: only a
process that is over may stutter, so a hang would be one. `petstore_faults` and
`workpool_faults` turn that off, because a failed `unlock` really stops the program, and
so do `chardevice` and `programs`, where a module that is gone and a function that has
returned do nothing more.

**Bounds.** `MaxPlay` and `MaxIterations` bound how often a thread goes round before
the time limit is the only way on; `MaxSpurious` bounds spurious wake-ups. Two cats
are the smallest number for which waking one sleeper is not enough and for which a
cat may enter while another leaves; a dog and a bird are the two rivals whose
difference matters (`cat_exit` broadcasts twice, the others once). Two outings, in
the faults run, let an animal find what its own earlier failure left. Three workers
and three files let two workers compete for the slot while a third is about to
finish, with the last file posted before the first is done. Two bakery
threads, of which one comes back once and the other twice, let a cell change between two
reads of it and let one thread wait for two entries of the other. Two threads show every reordering of a store with a later
read, because such a reordering is between one thread's store and the other's; each
thread draws three tickets of the ticket lock per entry, so counters that wrap at 3 wrap
several times. In `workpool_faults` the empty file is the one that is closed again, so
the other three files can hold every descriptor there is; one more would be the crash of
`workpool_noaccess`.
Three points per thread allow a thread to add to both counters, and to
either one again, while the other thread's stores are still under way. Three devices are
the smallest number with one constructed, one failing and one never tried; three
processes let two contend for one device's mutex while the third has another one open.
Five digits in base four include repeated digits and every relative order of four
different ones. Four nibbles are 16 bits, which like the 64 of a real value are one short of
a multiple of three, so every octal digit straddles the nibbles in every way it can. Five
numbers of a two-bit int, -2 to 1, include `INT_MIN`, repetitions and every place of
insertion (the proofs cover every other size). Three runs of the drawing program let a run meet the file of one that met the
file of another. Ten entries cover every kind but `negative`, which ends the program and is left
to the proof; seven of them can be opened, one more than there are descriptors, so the
last good file is refused and the one before it is not.
What the proofs of section 4 state they state for all other numbers too.

**Fairness.** Weak fairness of each thread, of main, and of the clock: the scheduler
runs every thread that can run. Nothing stronger is assumed of the mutex: in both
monitor programs an execution contends for it only finitely often (the time limit,
the number of files). `FairSpec` of `TSOBakery` adds that stores reach the memory: an x86
store buffer drains; so does that of `PiEstimator`. Their spin locks are entered finitely
often as well, at most three times per entry and twice per point, so weak fairness of the
spinning threads is enough there too.

**Findings.** (1) `threadFunction` of the pet store overwrites the error of an enter
function, so an animal whose `pthread_mutex_lock` failed goes out uncounted, its exit
makes the counter wrong, and an assert fails (`petstore_lock_fault`). (2) A file that
cannot be opened crashes the checksum pool in `fclose(NULL)` instead of being
reported (`workpool_noaccess`). (3) Zero threads are accepted and never end.
(4) A worker whose `fread` finds nothing leaves without counting its file, and main
waits for ever. (5) A device can be opened while init still constructs the next one; if
that fails, init frees the device the open file points to (`chardevice_open`).
(6) `sleepy_write` calls `kstrtol` with its last two arguments swapped, so the value of a
number goes to address 10 while the mutex is held; `WriteEnd` has this outcome, and
`MutexGivenBack` excepts the process it kills. (7) `is_sorted` of `tests/sorted_ll.c`
starts from `LONG_MIN` in an `int`, which is 0, so the test rejects a sorted list with a
negative number; `AssertsPass` holds for the copy in `assignment1`. (8) `draw_me` does not
close its file after a failed write, which its specification asks for; `NoTrash` excepts
this case.
(9) `name_list` writes to what `malloc` returned before it looks whether that is NULL, so
its clean-up is never reached. (10) `problem_2.c` frees an element past the end of its list,
once for each entry (`Release`). (11) It never closes a file, so in a large directory
readable files are reported as `ACCESS ERROR` (`Exhausted`). (12) Both checksum programs
keep the length of a file in an `int`, so a file of 2 GiB or more can get the checksum 0,
that of its first bytes, or, in `problem_3.c`, `ACCESS ERROR`; in `problem_2.c` a negative
length ends the program (`FileLength`, `BufferCrc`).

`RequiredLines`, what the header of both programs asks for, is false of them because of
(11) and (12). `ReportSpec` and `SumReport` say what holds all the same: `Answers(f)` is the
line required of file `f` together with those the code prints instead, so that a corrected
program would satisfy them as well. A wrong line is one of its own file, no file is left
out or looked at twice, and the report comes after the last file. For ordinary directories
`RequiredLines` is a theorem of each program.

## 4. Proofs

All eight proof modules rest on the named assumptions on the constants of the module they
are about (counts are natural numbers, sets of failing calls are sets of calls) and on
nothing else, except where an assumption is named below. TLC evaluates the assumptions in
the runs.

### PetStore

`PetStore_proofs` proves for all numbers of animals and all bounds:

* `TypeCorrect`: `Spec => []TypeOK`, for every set of failing calls. It rests only
  on the three assumptions of `PetStore` on its constants.
* `NoLostWakeupTheorem`: `Spec => []NoLostWakeup`, for every set of failing calls.
  The invariant is inductive together with type correctness and `Unborn` (a thread
  main has not created is at `new`). The argument: only the mutex holder changes a
  counter or falls asleep; a counter that goes to zero is followed by labels from
  which the sleepers of the rival species are owed a broadcast (`Owes`), and a
  thread that owes either broadcasts, hands the debt on to its next label, or ends
  at `failed`. `QuietStep` is the case of all steps that change no counter.
* Under `NoLockFault` (the mutex call does not fail; all others may):
  `CountersMatchTheorem`, `ExclusionTheorem`, `NoAssertFailsTheorem` and
  `RoomRefinement` (`Spec => RoomSpec`). The assumption is needed: the run
  `petstore_lock_fault` is the counterexample without it. The chain is `HoldInvariant`
  (a thread at a label inside the monitor holds the mutex), `InsideInvariant` (who is
  inside is at a label between `++` and `--`, and the other way round),
  `CountersMatchTheorem` (each counter is the cardinality of its set), and
  `SafeInvariant`: a thread at `count` still finds its rivals' counters clear, one at
  `pair` is a rival of nobody counted, and `Exclusion`. Cardinality facts come from
  `FiniteSetTheorems`. The refinement follows step by step: `EnterCount` is `Enter`,
  `ExitCount` is `Leave`, everything else stutters.

* `TotalsTheorem` (`Spec => []TotalsRight`), for every set of failing calls. `TotalInv` says
  that `total` is, species by species, the number of outings of the threads main has
  joined, as far as all of these are at `done`; a thread does not move from there.
* `HangTheorem` (`HangNeedsFailure`), for every set of failing calls: when main still waits
  for a thread after the time is over and no thread can go on, the mutex is held or a
  thread has given up. `CanGoOn` is ENABLED `ThreadStep` with the guards written out; TLC
  finds the two equal in every state of `petstore_faults`. If neither were so, every thread would be
  asleep or done (`Begun`: none is new any more), so by `NoLostWakeup` a rival's counter
  would be positive. But a counter is at most the number of the threads that are counted
  (`NotTooMany`: failing lock calls make it too small and never too large), and those are
  between `++` and `--` or have given up (`StillOut`).
* `NoHang`, under `NoMonitorFault` (lock, unlock and broadcast do not fail): while the
  process runs main or a thread can go on, or there is time left. `Orderly` says that
  nobody gives up then and that the mutex belongs to a thread inside the monitor.

### WorkPool

`WorkPool_proofs` proves for every number of workers, files and descriptors, every
directory and, except where an assumption is named, every set of failing calls:

* `Invariance`: `Spec => [](TypeOK /\ IInv)`. No part of `IInv` is inductive alone.
  `Holds` (who is inside the monitor has the mutex) makes the slot stable between the test
  and the use of it; `InHand` (slot, hands and `finished` hold files main has handed out)
  and `Indices` (how far main's loops are) make a posted file a new one; with them
  `EachFileOnce` is kept when a file is posted, taken and counted. Then `DoneCount` (the
  total is the number of finished files) is kept, because a counted file was not finished
  before, and `AllDone` (main is past its last wait only if the total is complete)
  follows. `Unborn` says that workers start in order.
* `EachFileOnceTheorem`, `TablesQuietTheorem`: consequences. If the total is complete all
  files are finished (`CountFacts`), so nobody can have one in hand.
* `NoLostWorkTheorem`, `NoLostMainTheorem`: invariants relative to `IInv`.
* `NoFileLostTheorem`, if no worker gives up (`NobodyGivesUp`: the calls of the monitor do
  not fail and no file vanishes): a worker that ends with a file in its hands does lose
  it, as finding (4) says.
* `ReportRefinement`: `Spec => ReportSpec`. `AnswersRight` says that the tables hold an
  acceptable answer for each finished file, `PrintingRight` that main has printed one of
  each file before its index. The step that counts a file is `Finish`, main's last one
  `Report`, every other one stutters. The directory may hold files of every kind, and
  `Answers` names the wrong lines they can get.
* `RequiredLinesTheorem` (`Spec => []RequiredLines`), under `OrdinaryFiles`: `malloc` does not
  fail, and each file is an ordinary one, an empty one or one that cannot be opened. Then
  every line is the right one, whatever else fails. Without the assumption finding (12)
  contradicts it.
* `HangTheorem` (`HangNeedsLoss`): a pool in which nobody can go on has lost something: the
  mutex is with a worker that has given up, or a file is, or no worker is left, or the last
  file has been counted by one that did not tell main. The argument needs who holds the
  mutex at every label (`HeldBy`), that main has started all workers before it waits
  (`Started`), that a worker leaves its loop only when everything has been counted
  (`DoneLate`), and who has the file that was last in the slot (`LastTaken`); what remains is
  everybody asleep, which `NoLostWork` and `NoLostMain` exclude.
* `NoHang`: if no worker gives up and there is at least one, the pool never hangs. Without
  the second assumption it does, see finding (3).

### Bakery

`Bakery_proofs` proves for every number of threads and of entries:

* `TypeCorrect`: types, and no index outside the arrays.
* `Exclusion` (`MutualExclusion`) and `NoOvertaking` (`FirstComeFirstServed`). `IInv` has
  five parts: `Unborn` (threads start in order); `Flags` (the labels at which a thread's
  `choosing` and `number` are set); `Order`: a thread that another one has passed in the
  waiting loop, or that came when the other one was in line, is after it, in the order of
  tickets and then of indices, and if it has yet to take a ticket will be
  (`WillFollow`); `AheadInLine`: whoever is in `ahead` of a thread is still in line;
  `Watched`: what a thread between two reads of the waiting condition knows of the
  thread it looks at. `WillFollow` speaks of the `number[i]` a thread in the middle of
  its scan is going to read, not of the one it has read: that is why the two reads of
  line 47 do no harm. Two threads in the critical section would each be before the
  other.
* `AssertsPass`: no assert on `in_cs` fails, from mutual exclusion and the value `in_cs`
  has at each label.
* `LockRefinement` (`Spec => LockSpec`): the bakery implements `FairLock`. Storing
  `choosing[me] = 1` is `Come`, storing 0 again `Join`, the end of the waiting loop `Enter`,
  which is allowed because of `Exclusion` and `NoOvertaking` *after* the step, and resetting
  `number[me]` is `Leave`; everything else stutters.
* `TicketsBoundedTheorem`: no ticket is larger than the number of tickets taken
  (`TicketsInv` adds that no `max` is either). `TicketsTaken` is a set of pairs, so that one
  more ticket is one more element. Tickets start again from 1 only when nobody has one, so
  under contention this is the only bound there is: `int` suffices for 2^31 - 1 entries.

### CharDevice

`CharDevice_proofs` proves for every number of devices and processes and every set of
failing calls: `AccountRight`, the invariant `Acquired`, which says for each point of init,
exit and cleanup what has been acquired: the devices known to the kernel and those with a
node are two intervals whose ends are the loop variables. `NothingLeftTheorem`,
`DestroyTheorem` and `NodeTheorem` follow from it; `MutexTheorem` is inductive by itself.

### StoreBuffers

`StoreBuffers_proofs` holds what the two programs on store buffers need to know of the
memory. What a thread reads of a cell is the last store of it in its own buffer, or else
the memory (`Lookup`). The lemma `LookupFlush`: the oldest store may reach the memory at any time and
its own thread reads the same before and after. `FlushFacts` and `StoreFacts` say what a
step does to what each thread reads and has under way, `FlushOrder` and `StoreOrder` that
it keeps the order of the stores (`Before`) and their number (`Once`).

### TSOBakery

`TSOBakery_proofs` proves for every number of threads and entries, for each of the three
programs, and for every `Modulus` that is at least the number of threads (with fewer values
than threads the ticket lock would give one ticket to two of them; the counters of the
code are ints of 32 bits):

* `TypeCorrect`, with `Started` (what main has not created is at its beginning).
* `LocksExclude` (`LockExclusion`) and `TicketsServed` (`ServedInOrder`). `OwnInv` says for
  each label and phase which cells the thread may still have in its buffer, each once and
  in which order, and what it reads of its own cells. `SpinInv`: the owner of the
  compare-and-swap lock is the thread inside *or the one whose unlock is still under way*.
  `QueueInv`: the tickets of those in the queue are consecutive from `turn` on, modulo
  `Modulus`, so no two are equal.
* `BakeryExcludes` (`MutualExclusion`). The argument is that of `Bakery`, with the stores
  under way added to it. A thread whose reset of `number` has not yet arrived (`Leaving`)
  still counts as in line. `PassedInv` is `Bakery`'s order between a thread and those it has
  passed; `WatchedInv` is what it knows of the thread it looks at; `UnseenInv` says what
  makes the fences necessary: a thread whose `choosing` is not 1 *in the memory* will find
  the tickets of all who are in line.
* `AssertsHold` (`NoAssertFails`), by `CounterInv`. No store of `in_cs` is fenced. It is safe
  because a buffer is first in, first out: whoever sees the ticket returned sees the reset
  of `in_cs` as well.
* `TicketLockRefinement` (`Spec => TicketLockSpec`): by `QueueInv` the thread that sees its
  turn is the first in the queue, so nobody who drew a ticket before it is left.
* `NoOvertaking` (`FirstComeFirstServed`), by `AheadInv`: a thread that came when another one
  was waiting or inside will find that one's ticket, which is in the memory by then. It is
  the same order as `PassedInv`, from the other side, so a thread inside has nobody left
  before it.
* `LockRefinement` (`Spec => LockSpec`): the bakery implements `FairLock` in all three
  programs. A thread leaves the line when it stores its reset of `number`, although others
  may see the ticket for some time still.
* `TicketsBoundedTheorem`: as for `Bakery`, for what any thread reads, in its own buffer or
  in the memory. A ticket that is being given back still counts (`HasTicket`).

### PiEstimator

`PiEstimator_proofs` proves for every number of threads and points: `OneOwner` (`OwnInv`: one
thread at most is inside the lock or has its unlock under way, and every store of a counter
is in the buffer before that unlock), and `EstimateCounts` (`EstimateRight`). `CountInv` says
that what the owner reads of each counter, or the memory if there is no owner, is the number
of the points counted so far; `HandInv` that the point a thread has in hand is one that was
drawn, and in the circle if it is on its first round.

### Programs

`Programs_proofs` proves of each sequential program what the run `programs` checks:

* `ListAlwaysSorted` and `ListKeepsAll`: the nodes form one list that has all of them and is
  in order (`Listed`), or such a list and one new node that belongs behind the place the
  walk has come to (`Placing`). The new node's own `next` is that place.
* `DrawLeavesNoTrash`: `DrawInv` says what is in the directory before each call, and which
  elements `name_list` has and how they are linked; unless the write has failed, the one
  descriptor is open only between `open` and `close`.
* `LoopReports` (`Spec => SumReport`): the loop implements `ChecksumReport`. `SumInv` counts the
  descriptors: as many as there were files before this one that could be opened, at most
  all of them; and it says that each line printed is one of `Answers`, file by file. This
  holds for every directory, also one with files of the kinds `wraps`, `long` and
  `negative`; a program that ends early has no report.
* `RequiredLinesTheorem` (`Spec => []Sum!RequiredLines`), under `OrdinaryEntries`: files are
  ordinary, empty or cannot be opened, and the descriptors suffice. Then every line is the
  one required, from `SumInv`.
* `DigitsSorted`: the prefix is sorted and not larger than the rest (`SortInv`), a swap leaves
  each digit as often as it was (`SwapKeeps`), and the digits that are put together come
  apart again (`JoinedDigits`).
* `ConversionRight`: the array of bits is right from the top down to where the loop is, and
  so is what has been printed (`ConvInv`). A nibble's bits are the value's (`BitsOfNibble`),
  three of the value's bits are its octal digit (`DigitsByBits`), and the two bits that are
  added are ones the value does not have (`NoBit`).

The last two need some arithmetic that the provers do not know: division with remainder
(`DivMod`, `DivModOnly`, `DivDiv`), and that recursive functions such as `Power` exist and
satisfy their equations (`Recursion`). The models use `Power` for `^`, which the prover
leaves uninterpreted.

### Only model-checked

The liveness properties (`AllGoHome`, `WaiterPlays`, `Finishes`, `AllEnd`, `EachGetsIn`): TLAPS
does not prove liveness under fairness. Their safety half for the two monitors, that the
program never gets into a state in which nobody can go on, is `NoHang`. The theorems on
hanging speak of `CanGoOn`, the guards of the steps; that a guard is exactly ENABLED of its
step is beyond TLAPS too and was compared by TLC on the instances of the two faults runs.
Every invariant and every refinement of a passing run is a theorem; the violated properties
have TLC's counterexamples, and `NoAssertFails` of the pet store also has a theorem that
says under which assumption it holds.

## 5. Not modelled

Command-line parsing, `crc32`'s table, file-name assembly and all printing but that of
`convert`; the kernel modules of `assignment2`, which print one line when loaded and one
when unloaded and keep no state; the build files. The header comment of
`assignment3/problem_6.c` is a copy of the bakery's and says nothing of the program; that
it divides zero by zero when no point has been drawn is visible in the model as the pair
`pi = <<0, 0>>`, of which no comment promises anything.

## 6. Plan

1. All components with behaviour are modelled, and every finding of the models is listed
   above: done.
2. Every invariant and every refinement that a passing run checks proved for all values of
   the constants: done.
3. The safety half of liveness for the two monitors (`NoHang`), the fairness of the locks as
   refinements of one abstract lock: done.
4. Left: a measure that each step of a thread brings closer to its end, which with `NoHang`
   would be all of termination but the fairness argument; action properties of the two
   monitors that say more of the order of wake-ups.
