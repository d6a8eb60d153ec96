------------------------------ MODULE CharDevice ------------------------------
(* assignment5/sleepy.c (shady.c is the same but for the bodies of read and    *)
(* write): a Linux module that makes ndevices character devices when it is     *)
(* loaded and takes them away when it is unloaded.  Processes open and use a   *)
(* device as soon as the kernel knows it, while init or cleanup is still at    *)
(* work on the others.                                                         *)
(*                                                                             *)
(* A step of the module is one call into the kernel.  FaultyCalls names the    *)
(* calls that may fail.  The kernel's part is external: it finds a device by   *)
(* its cdev, lets no process in while the module is being unloaded, unloads    *)
(* only a module no process uses, but drops one whose init fails all the same. *)
(* What a process finds through a pointer into memory that has been freed is   *)
(* undefined; the model lets it find what was there (see FileKeepsDevice).     *)
EXTENDS Integers, FiniteSets

CONSTANTS Sizes,            \* values of the module parameter sleepy_ndevices
          Procs,            \* processes that use the devices
          FaultyCalls,      \* kernel calls that may fail
          NoProc            \* not a process

Calls == {"region", "class", "alloc", "cdev_add", "device_create", "lock"}

ASSUME SizesAssumption == Sizes \subseteq Nat
ASSUME FaultsAssumption == FaultyCalls \subseteq Calls
ASSUME ProcsAssumption == NoProc \notin Procs

Minors == UNION {0 .. n - 1 : n \in Sizes}

VARIABLES
    ndevices,           \* sleepy_ndevices
    module,             \* what the kernel thinks of the module
    loader,             \* where init, exit or cleanup is
    i,                  \* their loop variable
    devices_to_destroy,
    region,             \* the range of device numbers is ours
    class,              \* sleepy_class
    devices,            \* sleepy_devices
    cdev, node,         \* per device: cdev added, node created
    holder,             \* per device: who holds sleepy_mutex
    pc, minor           \* per process: where it is, which device

resources == <<region, class, devices, cdev, node>>
procVars == <<holder, pc, minor>>
vars == <<ndevices, module, loader, i, devices_to_destroy, resources, procVars>>

InitLabels == {"start", "class", "alloc", "construct", "create"}
CleanupLabels == {"clean", "destroy", "del", "free", "unclass", "unregion"}
ProcLabels == {"idle", "opening", "open", "read", "write", "reading", "writing", "dead"}

Init ==
    /\ ndevices \in Sizes
    /\ module = "coming"
    /\ loader = "start"
    /\ i = 0
    /\ devices_to_destroy = 0
    /\ region = FALSE
    /\ class = "null"
    /\ devices = "null"
    /\ cdev = [k \in Minors |-> FALSE]
    /\ node = [k \in Minors |-> FALSE]
    /\ holder = [k \in Minors |-> NoProc]
    /\ pc = [p \in Procs |-> "idle"]
    /\ minor = [p \in Procs |-> 0]

Fails(call) == call \in FaultyCalls

\* The processes with a file of the module open: its use count.
Users == {p \in Procs : pc[p] \notin {"idle", "dead"}}

-----------------------------------------------------------------------------
(* sleepy_init_module and sleepy_construct_device.                           *)

\* init returns an error and nothing has to be undone.
Refused == loader' = "gone" /\ module' = "gone"

\* sleepy_ndevices is tested, and the range of device numbers allocated.
AllocRegion ==
    /\ loader = "start"
    /\ \/ /\ ndevices <= 0 \/ Fails("region")
          /\ Refused
          /\ UNCHANGED region
       \/ /\ ndevices > 0
          /\ region' = TRUE
          /\ loader' = "class"
          /\ UNCHANGED module
    /\ UNCHANGED <<ndevices, i, devices_to_destroy, class, devices, cdev, node, procVars>>

\* class_create; on an error sleepy_class keeps the error pointer.
CreateClass ==
    /\ loader = "class"
    /\ \/ class' = "class" /\ loader' = "alloc"
       \/ Fails("class") /\ class' = "error" /\ loader' = "clean"
    /\ UNCHANGED <<ndevices, module, i, devices_to_destroy, region, devices, cdev, node, procVars>>

AllocDevices ==
    /\ loader = "alloc"
    /\ \/ devices' = "live" /\ loader' = "construct"
       \/ Fails("alloc") /\ loader' = "clean" /\ UNCHANGED devices
    /\ UNCHANGED <<ndevices, module, i, devices_to_destroy, region, class, cdev, node, procVars>>

\* Mutant: the device that failed is destroyed as well.
MutGiveUp ==
    /\ devices_to_destroy' = i + 1
    /\ i' = 0
    /\ loader' = "clean"

\* goto fail from the loop: the devices before this one are to be destroyed.
GiveUp ==
    /\ devices_to_destroy' = i
    /\ i' = 0
    /\ loader' = "clean"

\* cdev_add of device i, which the kernel may use from here on.
AddCdev ==
    /\ loader = "construct"
    /\ i < ndevices
    /\ \/ /\ cdev' = [cdev EXCEPT ![i] = TRUE]
          /\ loader' = "create"
          /\ UNCHANGED <<i, devices_to_destroy>>
       \/ /\ Fails("cdev_add")
          /\ GiveUp
          /\ UNCHANGED cdev
    /\ UNCHANGED <<ndevices, module, region, class, devices, node, procVars>>

\* Mutant: the cdev is not deleted when the node cannot be made.
MutCreateNode ==
    /\ loader = "create"
    /\ \/ /\ node' = [node EXCEPT ![i] = TRUE]
          /\ i' = i + 1
          /\ loader' = "construct"
          /\ UNCHANGED devices_to_destroy
       \/ /\ Fails("device_create")
          /\ GiveUp
          /\ UNCHANGED node
    /\ UNCHANGED <<ndevices, module, region, class, devices, cdev, procVars>>

\* device_create makes the node; if it fails, cdev_del takes the cdev back.
CreateNode ==
    /\ loader = "create"
    /\ \/ /\ node' = [node EXCEPT ![i] = TRUE]
          /\ i' = i + 1
          /\ loader' = "construct"
          /\ UNCHANGED <<devices_to_destroy, cdev>>
       \/ /\ Fails("device_create")
          /\ cdev' = [cdev EXCEPT ![i] = FALSE]
          /\ GiveUp
          /\ UNCHANGED node
    /\ UNCHANGED <<ndevices, module, region, class, devices, procVars>>

\* init returns 0.
Loaded ==
    /\ loader = "construct"
    /\ i = ndevices
    /\ loader' = "loaded"
    /\ module' = "live"
    /\ UNCHANGED <<ndevices, i, devices_to_destroy, resources, procVars>>

-----------------------------------------------------------------------------
(* sleepy_exit_module, sleepy_cleanup_module and sleepy_destroy_device.      *)

\* The kernel unloads a module nobody uses; exit has all devices destroyed.
Exit ==
    /\ loader = "loaded"
    /\ Users = {}
    /\ module' = "going"
    /\ devices_to_destroy' = ndevices
    /\ i' = 0
    /\ loader' = "clean"
    /\ UNCHANGED <<ndevices, resources, procVars>>

\* if (sleepy_devices), and the head of the loop.
Clean ==
    /\ loader = "clean"
    /\ loader' = IF devices = "null" THEN "unclass"
                 ELSE IF i < devices_to_destroy THEN "destroy" ELSE "free"
    /\ UNCHANGED <<ndevices, module, i, devices_to_destroy, resources, procVars>>

\* Mutant: the cdev goes first, its node is there a little longer.
MutDestroyNode ==
    /\ loader = "destroy"
    /\ cdev' = [cdev EXCEPT ![i] = FALSE]
    /\ loader' = "del"
    /\ UNCHANGED <<ndevices, module, i, devices_to_destroy, region, class, devices, node, procVars>>

DestroyNode ==
    /\ loader = "destroy"
    /\ node' = [node EXCEPT ![i] = FALSE]
    /\ loader' = "del"
    /\ UNCHANGED <<ndevices, module, i, devices_to_destroy, region, class, devices, cdev, procVars>>

DelCdev ==
    /\ loader = "del"
    /\ cdev' = [cdev EXCEPT ![i] = FALSE]
    /\ i' = i + 1
    /\ loader' = "clean"
    /\ UNCHANGED <<ndevices, module, devices_to_destroy, region, class, devices, node, procVars>>

FreeDevices ==
    /\ loader = "free"
    /\ devices' = "freed"
    /\ loader' = "unclass"
    /\ UNCHANGED <<ndevices, module, i, devices_to_destroy, region, class, cdev, node, procVars>>

\* class_destroy of whatever is not NULL: it ignores an error pointer.
DestroyClass ==
    /\ loader = "unclass"
    /\ class' = IF class = "class" THEN "destroyed" ELSE class
    /\ loader' = "unregion"
    /\ UNCHANGED <<ndevices, module, i, devices_to_destroy, region, devices, cdev, node, procVars>>

\* The last call of cleanup; the kernel drops the module.
UnregisterRegion ==
    /\ loader = "unregion"
    /\ region' = FALSE
    /\ loader' = "gone"
    /\ module' = "gone"
    /\ UNCHANGED <<ndevices, i, devices_to_destroy, class, devices, cdev, node, procVars>>

LoaderStep ==
    \/ AllocRegion \/ CreateClass \/ AllocDevices \/ AddCdev \/ CreateNode \/ Loaded
    \/ Exit \/ Clean \/ DestroyNode \/ DelCdev \/ FreeDevices \/ DestroyClass
    \/ UnregisterRegion

-----------------------------------------------------------------------------
(* The file operations.                                                      *)

loaderVars == <<ndevices, module, loader, i, devices_to_destroy, resources>>

\* The kernel finds device k and takes a reference to the module.
KernelOpen(p, k) ==
    /\ pc[p] = "idle"
    /\ cdev[k]
    /\ module \in {"coming", "live"}
    /\ pc' = [pc EXCEPT ![p] = "opening"]
    /\ minor' = [minor EXCEPT ![p] = k]
    /\ UNCHANGED <<holder, loaderVars>>

\* sleepy_open: the device of this minor becomes the file's private data.  The
\* kernel came here by the device's own cdev, so none of the tests fails.
Open(p) ==
    /\ pc[p] = "opening"
    /\ pc' = [pc EXCEPT ![p] = "open"]
    /\ UNCHANGED <<holder, minor, loaderVars>>

\* The process calls read or write.
Call(p) ==
    /\ pc[p] = "open"
    /\ \E op \in {"read", "write"} : pc' = [pc EXCEPT ![p] = op]
    /\ UNCHANGED <<holder, minor, loaderVars>>

\* mutex_lock_killable, which returns an error when the process is killed.
Lock(p) ==
    /\ pc[p] \in {"read", "write"}
    /\ \/ /\ holder[minor[p]] = NoProc
          /\ holder' = [holder EXCEPT ![minor[p]] = p]
          /\ pc' = [pc EXCEPT ![p] = IF pc[p] = "read" THEN "reading" ELSE "writing"]
       \/ /\ Fails("lock")
          /\ pc' = [pc EXCEPT ![p] = "open"]
          /\ UNCHANGED holder
    /\ UNCHANGED <<minor, loaderVars>>

Unlock(p) == holder' = [holder EXCEPT ![minor[p]] = NoProc]

ReadEnd(p) ==
    /\ pc[p] = "reading"
    /\ Unlock(p)
    /\ pc' = [pc EXCEPT ![p] = "open"]
    /\ UNCHANGED <<minor, loaderVars>>

\* Mutant: the early return forgets the mutex.
MutWriteEnd(p) ==
    /\ pc[p] = "writing"
    /\ pc' = [pc EXCEPT ![p] = "open"]
    /\ UNCHANGED <<holder, minor, loaderVars>>

\* Four bytes are expected: another count is an error.  Four bytes go to
\* kstrtol, whose last two arguments are swapped: text it rejects comes back as
\* an error code that is taken for the delay, but the value of a number is
\* stored at address 10.  The kernel kills the process there and closes its
\* file; the mutex stays locked.
WriteEnd(p) ==
    /\ pc[p] = "writing"
    /\ \E data \in {"wrong count", "text", "number"} :
          \/ /\ data # "number"
             /\ Unlock(p)
             /\ pc' = [pc EXCEPT ![p] = "open"]
          \/ /\ data = "number"
             /\ pc' = [pc EXCEPT ![p] = "dead"]
             /\ UNCHANGED holder
    /\ UNCHANGED <<minor, loaderVars>>

\* sleepy_release does nothing; the kernel drops its reference.
Release(p) ==
    /\ pc[p] = "open"
    /\ pc' = [pc EXCEPT ![p] = "idle"]
    /\ UNCHANGED <<holder, minor, loaderVars>>

ProcStep(p) ==
    \/ \E k \in Minors : KernelOpen(p, k)
    \/ Open(p) \/ Call(p) \/ Lock(p) \/ ReadEnd(p) \/ WriteEnd(p) \/ Release(p)

Next == LoaderStep \/ \E p \in Procs : ProcStep(p)

Spec == Init /\ [][Next]_vars

-----------------------------------------------------------------------------
(* Properties.                                                               *)

\* The variables hold values of their types.
TypeOK ==
    /\ ndevices \in Sizes
    /\ module \in {"coming", "live", "going", "gone"}
    /\ loader \in InitLabels \cup CleanupLabels \cup {"loaded", "gone"}
    /\ i \in 0 .. ndevices /\ devices_to_destroy \in 0 .. ndevices
    /\ region \in BOOLEAN
    /\ class \in {"null", "class", "error", "destroyed"}
    /\ devices \in {"null", "live", "freed"}
    /\ cdev \in [Minors -> BOOLEAN] /\ node \in [Minors -> BOOLEAN]
    /\ holder \in [Minors -> Procs \cup {NoProc}]
    /\ pc \in [Procs -> ProcLabels]
    /\ minor \in [Procs -> Minors \cup {0}]

\* Whichever call of init fails, and at whichever device, and after exit,
\* everything that was acquired has been given back.
NothingLeft ==
    module = "gone" =>
        /\ ~region /\ class # "class" /\ devices # "live"
        /\ \A k \in Minors : ~cdev[k] /\ ~node[k]

\* Cleanup destroys exactly the devices that were constructed: none that is not
\* there, and none is left when the array is freed.
DestroyConstructed ==
    /\ loader = "destroy" => cdev[i] /\ node[i] /\ class = "class" /\ devices = "live"
    /\ loader = "free" => \A k \in Minors : ~cdev[k] /\ ~node[k]

\* A node is there only while the kernel can find the device behind it, also
\* half-way through init and cleanup.
NodeHasDevice == \A k \in Minors : node[k] => cdev[k] /\ devices = "live" /\ class = "class"

\* A process that is not in read or write holds no mutex: every way out of them
\* gives it back, but for the one that kills the process.
MutexGivenBack ==
    \A k \in Minors : holder[k] # NoProc =>
        /\ minor[holder[k]] = k
        /\ pc[holder[k]] \in {"reading", "writing", "dead"}

\* The pointer open stores "for other methods" is good as long as the file is
\* open.
FileKeepsDevice == Users # {} => devices = "live"
=============================================================================
