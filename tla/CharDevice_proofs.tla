--------------------------- MODULE CharDevice_proofs ---------------------------
(* Proofs about CharDevice for every number of devices and of processes, and   *)
(* for every set of kernel calls that may fail.                                *)
EXTENDS CharDevice, TLAPS

\* The devices between two indices are known to the kernel, and have nodes.
Added(from, to) == \A k \in Minors : cdev[k] <=> from =< k /\ k < to
Made(from, to) == \A k \in Minors : node[k] <=> from =< k /\ k < to
None == \A k \in Minors : ~cdev[k] /\ ~node[k]

\* What has been acquired, wherever init, exit or cleanup is: it only depends on
\* the place and on the two indices.
Acquired ==
    /\ loader \in {"start", "class"} => class = "null"
    /\ loader \in {"start", "class", "alloc"} => devices = "null" /\ None
    /\ loader \in {"start", "class", "alloc"} => i = 0
    /\ loader \in {"alloc", "construct", "create", "loaded"} => class = "class"
    /\ loader \in {"construct", "create", "loaded", "destroy", "del", "free"} => devices = "live"
    /\ loader = "construct" => Added(0, i) /\ Made(0, i)
    /\ loader = "create" => i < ndevices /\ Added(0, i + 1) /\ Made(0, i)
    /\ loader = "loaded" => Added(0, ndevices) /\ Made(0, ndevices)
    /\ loader = "clean" =>
        /\ devices = "null" => None
        /\ devices # "null" => /\ devices = "live" /\ class = "class"
                               /\ i =< devices_to_destroy
                               /\ Added(i, devices_to_destroy) /\ Made(i, devices_to_destroy)
    /\ loader \in {"destroy", "del"} =>
        i < devices_to_destroy /\ class = "class" /\ Added(i, devices_to_destroy)
    /\ loader = "destroy" => Made(i, devices_to_destroy)
    /\ loader = "del" => Made(i + 1, devices_to_destroy)
    /\ loader \in {"free", "unclass", "unregion", "gone"} => None
    /\ loader \in {"unclass", "unregion", "gone"} => devices # "live"
    /\ loader \in {"unregion", "gone"} => class # "class"
    /\ loader = "gone" => ~region
    /\ module = "gone" => loader = "gone"
    /\ loader = "start" => ~region

-----------------------------------------------------------------------------
(* Type correctness.                                                         *)

\* The minor numbers are those of the devices.
LEMMA MinorsFacts ==
    ASSUME TypeOK
    PROVE  /\ ndevices \in Nat /\ Minors \subseteq Nat
           /\ \A k \in Nat : k < ndevices => k \in Minors
BY SizesAssumption DEF Minors, TypeOK

\* Every step of the module keeps the types: the loop variable stays below the
\* number of devices.
LEMMA LoaderTypes ==
    ASSUME TypeOK, Acquired, LoaderStep
    PROVE  TypeOK'
<1> USE MinorsFacts DEF TypeOK, InitLabels, CleanupLabels, procVars, resources
<1>1. CASE AllocRegion BY <1>1 DEF AllocRegion, Refused
<1>2. CASE CreateClass BY <1>2 DEF CreateClass
<1>3. CASE AllocDevices BY <1>3 DEF AllocDevices
<1>4. CASE AddCdev
  <2>1. i' \in 0 .. ndevices' /\ devices_to_destroy' \in 0 .. ndevices'
    BY <1>4 DEF AddCdev, GiveUp
  <2>2. cdev' \in [Minors -> BOOLEAN] /\ node' \in [Minors -> BOOLEAN]
    BY <1>4 DEF AddCdev, GiveUp
  <2> QED BY <1>4, <2>1, <2>2 DEF AddCdev, GiveUp
<1>5. CASE CreateNode
  <2>1. i' \in 0 .. ndevices' /\ devices_to_destroy' \in 0 .. ndevices'
    BY <1>5 DEF CreateNode, GiveUp, Acquired
  <2>2. cdev' \in [Minors -> BOOLEAN] /\ node' \in [Minors -> BOOLEAN]
    BY <1>5 DEF CreateNode, GiveUp
  <2> QED BY <1>5, <2>1, <2>2 DEF CreateNode, GiveUp
<1>6. CASE Loaded BY <1>6 DEF Loaded
<1>7. CASE Exit BY <1>7 DEF Exit
<1>8. CASE Clean BY <1>8 DEF Clean
<1>9. CASE DestroyNode BY <1>9 DEF DestroyNode
<1>10. CASE DelCdev BY <1>10 DEF DelCdev, Acquired
<1>11. CASE FreeDevices BY <1>11 DEF FreeDevices
<1>12. CASE DestroyClass BY <1>12 DEF DestroyClass
<1>13. CASE UnregisterRegion BY <1>13 DEF UnregisterRegion
<1> QED BY <1>1, <1>2, <1>3, <1>4, <1>5, <1>6, <1>7, <1>8, <1>9, <1>10, <1>11, <1>12,
           <1>13 DEF LoaderStep

\* Every step of a process keeps the types, and touches nothing of the module.
LEMMA ProcTypes ==
    ASSUME TypeOK, NEW p \in Procs, ProcStep(p)
    PROVE  TypeOK' /\ UNCHANGED loaderVars
<1> USE DEF TypeOK, ProcLabels, loaderVars, resources
<1>1. CASE \E k \in Minors : KernelOpen(p, k) BY <1>1 DEF KernelOpen
<1>2. CASE Open(p) BY <1>2 DEF Open
<1>3. CASE Call(p) BY <1>3 DEF Call
<1>4. CASE Lock(p) BY <1>4 DEF Lock
<1>5. CASE ReadEnd(p) BY <1>5 DEF ReadEnd, Unlock
<1>6. CASE WriteEnd(p) BY <1>6 DEF WriteEnd, Unlock
<1>7. CASE Release(p) BY <1>7 DEF Release
<1> QED BY <1>1, <1>2, <1>3, <1>4, <1>5, <1>6, <1>7 DEF ProcStep

-----------------------------------------------------------------------------
(* What init acquires and cleanup gives back.                                *)

\* Every call of init, exit and cleanup keeps the account.
LEMMA AccountKept ==
    ASSUME TypeOK, Acquired, LoaderStep
    PROVE  Acquired'
<1> USE MinorsFacts DEF TypeOK, InitLabels, CleanupLabels, resources, Acquired, None
<1>1. CASE AllocRegion BY <1>1 DEF AllocRegion, Refused
<1>2. CASE CreateClass BY <1>2 DEF CreateClass
<1>3. CASE AllocDevices BY <1>3 DEF AllocDevices, Added, Made
<1>4. CASE AddCdev
  <2>1. CASE loader' = "create" BY <1>4, <2>1 DEF AddCdev, GiveUp, Added, Made
  <2>2. CASE loader' = "clean" BY <1>4, <2>2 DEF AddCdev, GiveUp, Added, Made
  <2> QED BY <1>4, <2>1, <2>2 DEF AddCdev, GiveUp
<1>5. CASE CreateNode
  <2>1. CASE loader' = "construct" BY <1>5, <2>1 DEF CreateNode, GiveUp, Added, Made
  <2>2. CASE loader' = "clean" BY <1>5, <2>2 DEF CreateNode, GiveUp, Added, Made
  <2> QED BY <1>5, <2>1, <2>2 DEF CreateNode, GiveUp
<1>6. CASE Loaded BY <1>6 DEF Loaded, Added, Made
<1>7. CASE Exit BY <1>7 DEF Exit, Added, Made
<1>8. CASE Clean BY <1>8 DEF Clean, Added, Made
<1>9. CASE DestroyNode BY <1>9 DEF DestroyNode, Added, Made
<1>10. CASE DelCdev BY <1>10 DEF DelCdev, Added, Made
<1>11. CASE FreeDevices BY <1>11 DEF FreeDevices
<1>12. CASE DestroyClass BY <1>12 DEF DestroyClass
<1>13. CASE UnregisterRegion BY <1>13 DEF UnregisterRegion
<1> QED BY <1>1, <1>2, <1>3, <1>4, <1>5, <1>6, <1>7, <1>8, <1>9, <1>10, <1>11, <1>12,
           <1>13 DEF LoaderStep

\* The variables hold values of their types, and the account is right.
THEOREM AccountRight == Spec => [](TypeOK /\ Acquired)
<1>1. Init => TypeOK /\ Acquired
  <2> SUFFICES ASSUME Init PROVE TypeOK /\ Acquired
    OBVIOUS
  <2>1. i \in 0 .. ndevices /\ devices_to_destroy \in 0 .. ndevices
    BY SizesAssumption DEF Init
  <2>2. cdev \in [Minors -> BOOLEAN] /\ node \in [Minors -> BOOLEAN]
    BY DEF Init
  <2>3. /\ holder \in [Minors -> Procs \cup {NoProc}]
        /\ pc \in [Procs -> ProcLabels] /\ minor \in [Procs -> Minors \cup {0}]
    BY DEF Init, ProcLabels
  <2>4. TypeOK
    BY <2>1, <2>2, <2>3 DEF Init, TypeOK, InitLabels
  <2>5. Acquired
    BY DEF Init, Acquired, None
  <2> QED BY <2>4, <2>5
<1>2. TypeOK /\ Acquired /\ [Next]_vars => TypeOK' /\ Acquired'
  <2> SUFFICES ASSUME TypeOK, Acquired, [Next]_vars
               PROVE  TypeOK' /\ Acquired'
    OBVIOUS
  <2>1. CASE LoaderStep BY <2>1, LoaderTypes, AccountKept
  <2>2. ASSUME NEW p \in Procs, ProcStep(p)
        PROVE  TypeOK' /\ Acquired'
    <3>1. TypeOK' /\ UNCHANGED loaderVars
      BY <2>2, ProcTypes
    <3> QED BY <3>1 DEF loaderVars, resources, Acquired, None, Added, Made
  <2>3. CASE UNCHANGED vars
    BY <2>3 DEF vars, resources, procVars, TypeOK, Acquired, None, Added, Made
  <2> QED BY <2>1, <2>2, <2>3 DEF Next
<1> QED BY <1>1, <1>2, PTL DEF Spec

-----------------------------------------------------------------------------
(* The theorems.                                                             *)

\* Whatever fails, when the module is gone nothing of it is left.
THEOREM NothingLeftTheorem == Spec => []NothingLeft
<1>1. TypeOK /\ Acquired => NothingLeft
  BY DEF TypeOK, Acquired, NothingLeft, None
<1> QED BY <1>1, AccountRight, PTL

\* Cleanup destroys the devices that were constructed and no others.
THEOREM DestroyTheorem == Spec => []DestroyConstructed
<1>1. TypeOK /\ Acquired => DestroyConstructed
  <2> SUFFICES ASSUME TypeOK, Acquired PROVE DestroyConstructed
    OBVIOUS
  <2>1. ASSUME loader = "destroy"
        PROVE  cdev[i] /\ node[i] /\ class = "class" /\ devices = "live"
    <3>1. i \in Minors /\ i < devices_to_destroy
      BY <2>1, MinorsFacts DEF TypeOK, Acquired
    <3> QED BY <2>1, <3>1, MinorsFacts DEF Acquired, Added, Made
  <2> QED BY <2>1 DEF Acquired, DestroyConstructed, None
<1> QED BY <1>1, AccountRight, PTL

\* No node without its device, half-way through init and cleanup as well.
THEOREM NodeTheorem == Spec => []NodeHasDevice
<1>1. TypeOK /\ Acquired => NodeHasDevice
  <2> SUFFICES ASSUME TypeOK, Acquired, NEW k \in Minors, node[k]
               PROVE  cdev[k] /\ devices = "live" /\ class = "class"
    BY DEF NodeHasDevice
  <2>1. loader \in {"construct", "create", "loaded", "clean", "destroy", "del"}
    BY DEF TypeOK, Acquired, None, InitLabels, CleanupLabels
  <2> QED BY <2>1, MinorsFacts DEF TypeOK, Acquired, Added, Made, None
<1> QED BY <1>1, AccountRight, PTL

\* Every way out of read and write gives the mutex back, or kills the process.
THEOREM MutexTheorem == Spec => []MutexGivenBack
<1>1. Init => MutexGivenBack
  BY DEF Init, MutexGivenBack
<1>2. TypeOK /\ MutexGivenBack /\ [Next]_vars => MutexGivenBack'
  <2> SUFFICES ASSUME TypeOK, MutexGivenBack, [Next]_vars
               PROVE  MutexGivenBack'
    OBVIOUS
  <2> USE DEF TypeOK, MutexGivenBack
  <2>1. ASSUME NEW p \in Procs, ProcStep(p)
        PROVE  MutexGivenBack'
    <3> USE ProcsAssumption
    <3>1. CASE \E k \in Minors : KernelOpen(p, k) BY <3>1 DEF KernelOpen
    <3>2. CASE Open(p) BY <3>2 DEF Open
    <3>3. CASE Call(p) BY <3>3 DEF Call
    <3>4. CASE Lock(p) BY <3>4 DEF Lock
    <3>5. CASE ReadEnd(p) BY <3>5 DEF ReadEnd, Unlock
    <3>6. CASE WriteEnd(p)
      <4>1. CASE Unlock(p) /\ pc' = [pc EXCEPT ![p] = "open"]
        BY <3>6, <4>1 DEF WriteEnd, Unlock
      <4>2. CASE UNCHANGED holder /\ pc' = [pc EXCEPT ![p] = "dead"]
        BY <3>6, <4>2 DEF WriteEnd
      <4> QED BY <3>6, <4>1, <4>2 DEF WriteEnd
    <3>7. CASE Release(p) BY <3>7 DEF Release
    <3> QED BY <2>1, <3>1, <3>2, <3>3, <3>4, <3>5, <3>6, <3>7 DEF ProcStep
  <2>2. CASE LoaderStep
    BY <2>2 DEF LoaderStep, AllocRegion, CreateClass, AllocDevices, AddCdev, CreateNode,
                Loaded, Exit, Clean, DestroyNode, DelCdev, FreeDevices, DestroyClass,
                UnregisterRegion, procVars
  <2>3. CASE UNCHANGED vars BY <2>3 DEF vars, procVars
  <2> QED BY <2>1, <2>2, <2>3 DEF Next
<1> QED BY <1>1, <1>2, AccountRight, PTL DEF Spec
=============================================================================
