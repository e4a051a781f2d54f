------------------------------ MODULE ZramKernel ------------------------------
(***************************************************************************)
(* The part of the kernel that the module's scripts talk to, modelled from  *)
(* how they use it: the crypto registry with the two same-name drivers of   *)
(* zstd-upgrade-driver.c and lz4-upgrade-driver.c, the sysfs attributes of  *)
(* a zram device, and the swap table.                                       *)
(*                                                                          *)
(* A system call that a script makes is an action here with an Ok and an    *)
(* Err form, so that a script's step reads "the call and what the script    *)
(* does with its exit code".  Calls on a device whose init lock is held     *)
(* (the per-CPU allocation of a disksize write is running) wait.            *)
(***************************************************************************)
EXTENDS Integers, FiniteSets

CONSTANTS
  Procs,        \* the processes that may act: shells, Perfinit
  NoProc,       \* nobody holds an init lock
  Cpus,         \* one compression stream is allocated per CPU
  Devs,         \* the zram devices that may exist
  Zram0,        \* the device the scripts rebuild
  StockSize,    \* the disksize the system gives zram0
  Kernels,      \* the sets of .ko files that a kernel may accept
  Faults        \* the calls that may fail for a reason outside the model

Algos == {"lz4", "zstd"}

\* The compressor a fresh or reset device names in comp_algorithm.
StockAlgo == "lzo-rle"
Names == Algos \cup {StockAlgo}

FaultKinds ==
  {"insmod", "swapoff", "reset", "comp", "disksize", "mkswap", "swapon",
   "hot_add", "hot_remove"}

ASSUME ProcsAssumption == NoProc \notin Procs
ASSUME CpusAssumption  == Cpus # {} /\ IsFiniteSet(Cpus)
ASSUME DevsAssumption  == Zram0 \in Devs /\ IsFiniteSet(Devs)
ASSUME SizeAssumption  == StockSize \in Nat \ {0}
ASSUME KernelsAssumption == Kernels \subseteq SUBSET Algos
ASSUME FaultAssumption == Faults \subseteq FaultKinds

VARIABLES
  accepts,      \* the .ko files this kernel accepts (vermagic, symbol CRCs)
  listed,       \* modules in /proc/modules
  registered,   \* drivers in /proc/crypto
  present,      \* the zram devices that exist
  comp,         \* comp_algorithm of each device
  size,         \* disksize of each device, 0 when it is not initialised
  streams,      \* the driver behind each CPU's stream
  lock,         \* who runs a disksize write on the device
  header,       \* devices that carry a swap signature
  swap,         \* devices in /proc/swaps
  faulted       \* history: some call failed for an outside reason

moduleVars == <<accepts, listed, registered>>
zramVars   == <<present, comp, size, streams, lock, header, swap>>
kernelVars == <<accepts, listed, registered, present, comp, size, streams,
                lock, header, swap, faulted>>

Drivers == {"generic", "new"}
NoStreams == [c \in Cpus |-> "none"]

KernelTypeOK ==
  /\ accepts \subseteq Algos
  /\ listed \subseteq Algos
  /\ registered \subseteq Algos
  /\ present \subseteq Devs
  /\ comp \in [Devs -> Names]
  /\ size \in [Devs -> Nat]
  /\ streams \in [Devs -> [Cpus -> Drivers \cup {"none"}]]
  /\ lock \in [Devs -> Procs \cup {NoProc}]
  /\ header \subseteq Devs
  /\ swap \subseteq Devs
  /\ faulted \in BOOLEAN

-----------------------------------------------------------------------------
(* The crypto registry. *)

\* crypto_alloc_comp(name): the registered driver of highest priority.  The
\* new driver says 100, the built-in one 0 (lzo-rle has no new driver).
Lookup(name) == IF name \in registered THEN "new" ELSE "generic"

\* Some stream is a tfm of the new driver of a.
InUse(a) == \E d \in Devs, c \in Cpus : comp[d] = a /\ streams[d][c] = "new"

\* "refcnt" of the new driver in /proc/crypto is above its resting value 1.
RefcntAboveOne(a) == a \in registered /\ InUse(a)

\* Every CPU of device d compresses with the new driver of a.
ServedByNew(d, a) ==
  comp[d] = a /\ \A c \in Cpus : streams[d][c] = "new"

\* A failure whose cause is outside the model.
Fault(kind) == kind \in Faults /\ faulted' = TRUE

\* insmod: the module is in /proc/modules before its init function runs.
InsmodBegin(a) ==
  /\ a \in accepts /\ a \notin listed
  /\ listed' = listed \cup {a}
  /\ UNCHANGED <<accepts, registered, zramVars, faulted>>

\* The module's init function: crypto_register_alg.
InsmodRegister(a) ==
  /\ registered' = registered \cup {a}
  /\ UNCHANGED <<accepts, listed, zramVars, faulted>>

\* insmod refused: no such file, another vermagic, already loaded, no memory.
InsmodErr(a) ==
  /\ \/ a \notin accepts \ listed /\ UNCHANGED faulted
     \/ a \in accepts \ listed /\ Fault("insmod")
  /\ UNCHANGED <<moduleVars, zramVars>>

\* Broken on purpose: a driver whose cra_module is not set pins nothing.
RmmodUnpinned(a) ==
  /\ a \in listed /\ a \in registered
  /\ listed' = listed \ {a}
  /\ registered' = registered \ {a}
  /\ UNCHANGED <<accepts, zramVars, faulted>>

\* rmmod: cra_module pins the module while a tfm of its driver lives.
RmmodOk(a) ==
  /\ a \in listed /\ a \in registered /\ ~InUse(a)
  /\ listed' = listed \ {a}
  /\ registered' = registered \ {a}
  /\ UNCHANGED <<accepts, zramVars, faulted>>

RmmodErr(a) ==
  /\ ~(a \in listed /\ a \in registered /\ ~InUse(a))
  /\ UNCHANGED kernelVars

-----------------------------------------------------------------------------
(* A zram device. *)

Unlocked(d) == lock[d] = NoProc

\* echo 1 > reset.  A device that is in use as swap is busy.  Whether the
\* reset of an uninitialised device also restores comp_algorithm differs
\* between kernels.
ResetOk(d) ==
  /\ Unlocked(d) /\ d \notin swap
  /\ size' = [size EXCEPT ![d] = 0]
  /\ streams' = [streams EXCEPT ![d] = NoStreams]
  /\ header' = header \ {d}
  /\ \/ comp' = [comp EXCEPT ![d] = StockAlgo]
     \/ size[d] = 0 /\ UNCHANGED comp
  /\ UNCHANGED <<moduleVars, present, lock, swap, faulted>>

ResetErr(d) ==
  /\ Unlocked(d)
  /\ \/ d \in swap /\ UNCHANGED faulted
     \/ d \notin swap /\ Fault("reset")
  /\ UNCHANGED <<moduleVars, zramVars>>

\* echo $ALGO > comp_algorithm: refused once the device is initialised.
CompOk(d, a) ==
  /\ Unlocked(d) /\ size[d] = 0
  /\ comp' = [comp EXCEPT ![d] = a]
  /\ UNCHANGED <<moduleVars, present, size, streams, lock, header, swap, faulted>>

CompErr(d) ==
  /\ Unlocked(d)
  /\ \/ size[d] # 0 /\ UNCHANGED faulted
     \/ size[d] = 0 /\ Fault("comp")
  /\ UNCHANGED <<moduleVars, zramVars>>

\* echo $size > disksize: takes the init lock, allocates one stream per CPU
\* (each a lookup of its own) and then sets the size.
DisksizeLock(p, d) ==
  /\ Unlocked(d) /\ size[d] = 0
  /\ lock' = [lock EXCEPT ![d] = p]
  /\ UNCHANGED <<moduleVars, present, comp, size, streams, header, swap, faulted>>

DisksizeBusy(d) ==
  /\ Unlocked(d) /\ size[d] # 0
  /\ UNCHANGED kernelVars

AllocStream(p, d, c) ==
  /\ lock[d] = p /\ streams[d][c] = "none"
  /\ streams' = [streams EXCEPT ![d][c] = Lookup(comp[d])]
  /\ UNCHANGED <<moduleVars, present, comp, size, lock, header, swap, faulted>>

\* cra_init returned -ENOMEM for some CPU: the streams are freed again.
AllocErr(p, d) ==
  /\ lock[d] = p /\ \E c \in Cpus : streams[d][c] = "none"
  /\ Fault("disksize")
  /\ streams' = [streams EXCEPT ![d] = NoStreams]
  /\ lock' = [lock EXCEPT ![d] = NoProc]
  /\ UNCHANGED <<moduleVars, present, comp, size, header, swap>>

DisksizeDone(p, d, bytes) ==
  /\ lock[d] = p /\ \A c \in Cpus : streams[d][c] # "none"
  /\ size' = [size EXCEPT ![d] = bytes]
  /\ lock' = [lock EXCEPT ![d] = NoProc]
  /\ UNCHANGED <<moduleVars, present, comp, streams, header, swap, faulted>>

-----------------------------------------------------------------------------
(* Swap. *)

MkswapOk(d) ==
  /\ size[d] # 0
  /\ header' = header \cup {d}
  /\ UNCHANGED <<moduleVars, present, comp, size, streams, lock, swap, faulted>>

MkswapErr(d) ==
  /\ \/ size[d] = 0 /\ UNCHANGED faulted
     \/ size[d] # 0 /\ Fault("mkswap")
  /\ UNCHANGED <<moduleVars, zramVars>>

CanSwapon(d) == size[d] # 0 /\ d \in header /\ d \notin swap

SwaponOk(d) ==
  /\ CanSwapon(d)
  /\ swap' = swap \cup {d}
  /\ UNCHANGED <<moduleVars, present, comp, size, streams, lock, header, faulted>>

SwaponErr(d) ==
  /\ \/ ~CanSwapon(d) /\ UNCHANGED faulted
     \/ CanSwapon(d) /\ Fault("swapon")
  /\ UNCHANGED <<moduleVars, zramVars>>

SwapoffOk(d) ==
  /\ d \in swap
  /\ swap' = swap \ {d}
  /\ UNCHANGED <<moduleVars, present, comp, size, streams, lock, header, faulted>>

SwapoffErr(d) ==
  /\ \/ d \notin swap /\ UNCHANGED faulted
     \/ d \in swap /\ Fault("swapoff")
  /\ UNCHANGED <<moduleVars, zramVars>>

-----------------------------------------------------------------------------
(* States the kernel can be in when the scripts start. *)

Absent(d) ==
  /\ d \notin present /\ d \notin header /\ d \notin swap
  /\ size[d] = 0 /\ streams[d] = NoStreams /\ comp[d] = StockAlgo

\* The system's own zram0: active swap, served by the built-in driver.
StockActive(d) ==
  /\ d \in present /\ d \in header /\ d \in swap
  /\ size[d] = StockSize
  /\ streams[d] = [c \in Cpus |-> "generic"]

KernelInit ==
  /\ accepts \in Kernels
  /\ listed = {} /\ registered = {}
  /\ lock = [d \in Devs |-> NoProc]
  /\ faulted = FALSE
=============================================================================
