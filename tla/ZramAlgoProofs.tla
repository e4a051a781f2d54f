---------------------------- MODULE ZramAlgoProofs ----------------------------
(***************************************************************************)
(* Proofs about ZramAlgo, for every set of shells, of CPUs and of devices,  *)
(* every set of possible failures and every set of accepted .ko files.      *)
(***************************************************************************)
EXTENDS ZramAlgo, TLAPS

-----------------------------------------------------------------------------
(* What the kernel's state looks like between two system calls. *)

\* A disksize write runs only on an uninitialised device.
LockedUninitialised == \A d \in Devs : lock[d] # NoProc => size[d] = 0

\* An uninitialised device that nobody initialises has no stream.
IdleWithoutStreams ==
  \A d \in Devs : size[d] = 0 /\ lock[d] = NoProc => streams[d] = NoStreams

\* An initialised device has a stream behind every CPU.
InitialisedComplete ==
  \A d \in Devs : size[d] # 0 => \A c \in Cpus : streams[d][c] # "none"

\* Active swap is initialised and formatted.
SwapBacked == \A d \in swap : size[d] # 0 /\ d \in header

\* A stream of the new driver exists only while that driver is registered,
\* and a driver is registered only while its module is listed.
StreamsRegistered ==
  \A d \in Devs, c \in Cpus : streams[d][c] = "new" => comp[d] \in registered
RegisteredListed == registered \subseteq listed

KernelInv ==
  /\ KernelTypeOK
  /\ LockedUninitialised
  /\ IdleWithoutStreams
  /\ InitialisedComplete
  /\ SwapBacked
  /\ StreamsRegistered
  /\ RegisteredListed

\* The system calls that change the kernel's state.
ModuleCall ==
  \/ \E a \in Algos : InsmodBegin(a) \/ InsmodErr(a) \/ RmmodOk(a) \/ RmmodErr(a)
  \/ \E a \in listed : InsmodRegister(a)
DeviceCall ==
  \E d \in Devs :
    \/ ResetOk(d) \/ ResetErr(d) \/ CompErr(d) \/ DisksizeBusy(d)
    \/ \E a \in Algos : CompOk(d, a)
    \/ \E p \in Procs :
         \/ DisksizeLock(p, d) \/ AllocErr(p, d)
         \/ \E c \in Cpus : AllocStream(p, d, c)
         \/ \E bytes \in Nat \ {0} : DisksizeDone(p, d, bytes)
SwapCall ==
  \E d \in Devs : \/ MkswapOk(d) \/ MkswapErr(d) \/ SwaponOk(d) \/ SwaponErr(d)
                  \/ SwapoffOk(d) \/ SwapoffErr(d)
KernelStep == ModuleCall \/ DeviceCall \/ SwapCall \/ UNCHANGED kernelVars

\* The states the scripts start in satisfy the kernel's invariant.
LEMMA KernelInitInv == Init => KernelInv
<1> SUFFICES ASSUME Init PROVE KernelInv
  OBVIOUS
<1> USE DEF Init, KernelInit, ZramInit, Absent, StockActive, NoStreams
<1>1. KernelTypeOK
  <2>1. size \in [Devs -> Nat]
    BY SizeAssumption
  <2>2. streams \in [Devs -> [Cpus -> Drivers \cup {"none"}]]
    <3>1. \A d \in Devs : streams[d] \in [Cpus -> {"none", "generic"}]
      OBVIOUS
    <3>2. \A f \in [Cpus -> {"none", "generic"}] :
            f \in [Cpus -> Drivers \cup {"none"}]
      BY DEF Drivers
    <3>3. QED
      BY <3>1, <3>2
  <2>3. QED
    BY <2>1, <2>2, KernelsAssumption DEF KernelTypeOK
<1>2. LockedUninitialised /\ IdleWithoutStreams
  BY SizeAssumption DEF LockedUninitialised, IdleWithoutStreams
<1>5. SwapBacked
  BY SizeAssumption DEF SwapBacked
<1>3. InitialisedComplete
  BY DEF InitialisedComplete
<1>4. StreamsRegistered /\ RegisteredListed
  BY DEF StreamsRegistered, RegisteredListed
<1>6. QED
  BY <1>1, <1>2, <1>3, <1>4, <1>5 DEF KernelInv

\* insmod and rmmod keep it: rmmod refuses while a stream of the driver lives.
LEMMA ModuleCallInv == KernelInv /\ ModuleCall => KernelInv'
<1> SUFFICES ASSUME KernelInv, ModuleCall PROVE KernelInv'
  OBVIOUS
<1> USE DEF KernelInv, moduleVars, zramVars, kernelVars
<1>1. ASSUME NEW a \in Algos, InsmodBegin(a) PROVE KernelInv'
  BY <1>1 DEF InsmodBegin, KernelTypeOK, LockedUninitialised,
     IdleWithoutStreams, InitialisedComplete, SwapBacked, StreamsRegistered,
     RegisteredListed
<1>2. ASSUME NEW a \in Algos, InsmodErr(a) \/ RmmodErr(a) PROVE KernelInv'
  BY <1>2 DEF InsmodErr, RmmodErr, Fault, KernelTypeOK, LockedUninitialised,
     IdleWithoutStreams, InitialisedComplete, SwapBacked, StreamsRegistered,
     RegisteredListed
<1>3. ASSUME NEW a \in Algos, RmmodOk(a) PROVE KernelInv'
  BY <1>3 DEF RmmodOk, InUse, KernelTypeOK, LockedUninitialised,
     IdleWithoutStreams, InitialisedComplete, SwapBacked, StreamsRegistered,
     RegisteredListed
<1>4. ASSUME NEW a \in listed, InsmodRegister(a) PROVE KernelInv'
  BY <1>4 DEF InsmodRegister, KernelTypeOK, LockedUninitialised,
     IdleWithoutStreams, InitialisedComplete, SwapBacked, StreamsRegistered,
     RegisteredListed
<1>5. QED
  BY <1>1, <1>2, <1>3, <1>4 DEF ModuleCall

\* So do the writes to zram0's sysfs attributes.
LEMMA DeviceCallInv == KernelInv /\ DeviceCall => KernelInv'
<1> SUFFICES ASSUME KernelInv, NEW d \in Devs,
               \/ ResetOk(d) \/ ResetErr(d) \/ CompErr(d) \/ DisksizeBusy(d)
               \/ \E a \in Algos : CompOk(d, a)
               \/ \E p \in Procs :
                    \/ DisksizeLock(p, d) \/ AllocErr(p, d)
                    \/ \E c \in Cpus : AllocStream(p, d, c)
                    \/ \E bytes \in Nat \ {0} : DisksizeDone(p, d, bytes)
             PROVE  KernelInv'
  BY DEF DeviceCall
<1> USE DEF KernelInv, moduleVars, zramVars, kernelVars, Unlocked
<1>1. CASE ResetOk(d)
  <2>1. KernelTypeOK'
    BY <1>1 DEF ResetOk, KernelTypeOK, NoStreams, Names
  <2>2. QED
    BY <1>1, <2>1, CpusAssumption
       DEF ResetOk, NoStreams, KernelTypeOK,
     LockedUninitialised, IdleWithoutStreams, InitialisedComplete, SwapBacked,
     StreamsRegistered, RegisteredListed
<1>2. CASE ResetErr(d) \/ CompErr(d) \/ DisksizeBusy(d)
  BY <1>2 DEF ResetErr, CompErr, DisksizeBusy, Fault, KernelTypeOK,
     LockedUninitialised, IdleWithoutStreams, InitialisedComplete, SwapBacked,
     StreamsRegistered, RegisteredListed
<1>3. ASSUME NEW a \in Algos, CompOk(d, a) PROVE KernelInv'
  BY <1>3 DEF CompOk, Names, NoStreams, KernelTypeOK,
     LockedUninitialised, IdleWithoutStreams, InitialisedComplete, SwapBacked,
     StreamsRegistered, RegisteredListed
<1>4. ASSUME NEW p \in Procs, DisksizeLock(p, d) PROVE KernelInv'
  BY <1>4, ProcsAssumption DEF DisksizeLock, KernelTypeOK,
     LockedUninitialised, IdleWithoutStreams, InitialisedComplete, SwapBacked,
     StreamsRegistered, RegisteredListed
<1>5. ASSUME NEW p \in Procs, AllocErr(p, d) PROVE KernelInv'
  BY <1>5, ProcsAssumption DEF AllocErr, Fault, NoStreams, KernelTypeOK,
     LockedUninitialised, IdleWithoutStreams, InitialisedComplete, SwapBacked,
     StreamsRegistered, RegisteredListed
<1>6. ASSUME NEW p \in Procs, NEW c \in Cpus, AllocStream(p, d, c)
      PROVE  KernelInv'
  BY <1>6, ProcsAssumption DEF AllocStream, Lookup, Drivers, KernelTypeOK,
     LockedUninitialised, IdleWithoutStreams, InitialisedComplete, SwapBacked,
     StreamsRegistered, RegisteredListed
<1>7. ASSUME NEW p \in Procs, NEW bytes \in Nat \ {0}, DisksizeDone(p, d, bytes)
      PROVE  KernelInv'
  BY <1>7, ProcsAssumption DEF DisksizeDone, KernelTypeOK,
     LockedUninitialised, IdleWithoutStreams, InitialisedComplete, SwapBacked,
     StreamsRegistered, RegisteredListed
<1>8. QED
  BY <1>1, <1>2, <1>3, <1>4, <1>5, <1>6, <1>7

\* So do mkswap, swapon and swapoff.
LEMMA SwapCallInv == KernelInv /\ SwapCall => KernelInv'
<1> SUFFICES ASSUME KernelInv, NEW d \in Devs,
               \/ MkswapOk(d) \/ MkswapErr(d) \/ SwaponOk(d) \/ SwaponErr(d)
               \/ SwapoffOk(d) \/ SwapoffErr(d)
             PROVE  KernelInv'
  BY DEF SwapCall
<1> USE DEF KernelInv, moduleVars, zramVars, CanSwapon, Fault
<1>1. CASE MkswapOk(d) \/ MkswapErr(d)
  BY <1>1 DEF MkswapOk, MkswapErr, KernelTypeOK,
     LockedUninitialised, IdleWithoutStreams, InitialisedComplete, SwapBacked,
     StreamsRegistered, RegisteredListed
<1>2. CASE SwaponOk(d) \/ SwaponErr(d)
  BY <1>2 DEF SwaponOk, SwaponErr, KernelTypeOK,
     LockedUninitialised, IdleWithoutStreams, InitialisedComplete, SwapBacked,
     StreamsRegistered, RegisteredListed
<1>3. CASE SwapoffOk(d) \/ SwapoffErr(d)
  BY <1>3 DEF SwapoffOk, SwapoffErr, KernelTypeOK,
     LockedUninitialised, IdleWithoutStreams, InitialisedComplete, SwapBacked,
     StreamsRegistered, RegisteredListed
<1>4. QED
  BY <1>1, <1>2, <1>3

\* No system call of the scripts breaks the kernel's invariant.
LEMMA KernelStepInv == KernelInv /\ KernelStep => KernelInv'
<1>1. KernelInv /\ UNCHANGED kernelVars => KernelInv'
  BY DEF kernelVars, KernelInv, KernelTypeOK,
     LockedUninitialised, IdleWithoutStreams, InitialisedComplete, SwapBacked,
     StreamsRegistered, RegisteredListed
<1>2. QED
  BY <1>1, ModuleCallInv, DeviceCallInv, SwapCallInv DEF KernelStep

-----------------------------------------------------------------------------
(* What holds of the shells. *)

\* While insmod runs a module's init function, the module is listed and its
\* driver not yet registered; no two shells do so with the same module.
InitPending ==
  \A p \in Procs : at[p] = "init" =>
    /\ on[p] \in listed \ registered
    /\ \A q \in Procs \ {p} : at[q] = "init" => on[q] # on[p]

\* An apply gets past its first check only if zram0 exists.
ReadyPresent ==
  \A p \in Procs :
    pc[p] \in Steps \ ({"idle", "ready"} \cup Endings) => Zram0 \in present

\* An apply knows its target until it has set the algorithm; a rebuild makes at
\* most MaxTries attempts to swapoff and never writes a disksize of 0.
Built == {"disksize", "alloc", "mkswap", "swapon", "report"}
RebuildReady ==
  \A p \in Procs :
    /\ pc[p] \in Steps \ ({"idle"} \cup Built \cup Endings) => want[p] \in Algos
    /\ pc[p] = "swapoff" => tries[p] < MaxTries
    /\ pc[p] \in {"reset", "comp", "disksize", "alloc"} => keep[p] # 0

ScriptInv ==
  /\ CtlTypeOK /\ ApplyTypeOK
  /\ InitPending /\ ReadyPresent /\ RebuildReady

IInv == KernelInv /\ ScriptInv

\* No script has got anywhere at the start.
LEMMA ScriptInitInv == Init => ScriptInv
<1> SUFFICES ASSUME Init PROVE ScriptInv
  OBVIOUS
<1> USE DEF Init
<1>1. CtlTypeOK /\ InitPending
  BY DEF CtlInit, CtlTypeOK, CtlSteps, CtlEndings, Algos, InitPending
<1>2. ApplyTypeOK
  <2>1. named \in [Procs -> BOOLEAN] /\ tuned \in BOOLEAN
    BY Zenon DEF ApplyInit
  <2>2. QED
    BY <2>1, TriesAssumption DEF ApplyInit, ApplyTypeOK, Steps
<1>3. ReadyPresent /\ RebuildReady
  BY DEF ApplyInit, ReadyPresent, RebuildReady
<1>4. QED
  BY <1>1, <1>2, <1>3 DEF ScriptInv

\* Every step of a shell is one system call, or none.
LEMMA StepIsKernelStep ==
  ASSUME IInv, [Next]_vars
  PROVE  KernelStep
<1> USE DEF IInv, KernelStep
<1>1. CASE UNCHANGED vars
  BY <1>1 DEF vars
<1>2. ASSUME NEW p \in Procs, Start(p) PROVE KernelStep
  BY <1>2 DEF Start, Apply, UserCtl
<1>3. ASSUME NEW p \in Procs, CtlStep(p) PROVE KernelStep
  <2>1. on[p] \in Algos
    BY DEF ScriptInv, CtlTypeOK
  <2>2. at[p] = "init" => on[p] \in listed
    BY DEF ScriptInv, InitPending
  <2>3. QED
    BY <1>3, <2>1, <2>2 DEF CtlStep, CheckListed, Insmod, ModuleInit,
       ConfirmRegistered, Rmmod, ModuleCall
<1>4. ASSUME NEW p \in Procs,
        \/ CheckReady(p) \/ EnsureDriver(p) \/ EnsureReturns(p) \/ ReadAlgo(p)
        \/ ReadRefcnt(p) \/ SwapLoop(p) \/ CheckSwap(p) \/ ReadSize(p)
        \/ Report(p) \/ Return(p)
      PROVE  KernelStep
  BY <1>4 DEF CheckReady, EnsureDriver, EnsureReturns, ReadAlgo, ReadRefcnt,
     SwapLoop, CheckSwap, ReadSize, Report, Return
<1>5. ASSUME NEW p \in Procs, Swapoff(p) \/ Mkswap(p) \/ Swapon(p)
      PROVE  KernelStep
  BY <1>5, DevsAssumption DEF Swapoff, Mkswap, Swapon, SwapCall
<1>6. ASSUME NEW p \in Procs,
        Reset(p) \/ SetAlgo(p) \/ SetSize(p) \/ AllocStreams(p)
      PROVE  KernelStep
  <2>1. pc[p] = "comp" => want[p] \in Algos
    BY DEF ScriptInv, RebuildReady, Built, Steps, Endings
  <2>2. pc[p] = "alloc" => keep[p] \in Nat \ {0}
    BY DEF ScriptInv, RebuildReady, ApplyTypeOK
  <2>3. QED
    BY <1>6, <2>1, <2>2, DevsAssumption
       DEF Reset, SetAlgo, SetSize, AllocStreams, DeviceCall
<1>7. QED
  BY <1>1, <1>2, <1>3, <1>4, <1>5, <1>6 DEF Next, Step, RunCtl

\* No script creates or removes zram0, and only insmod and rmmod touch the
\* list of modules and drivers.
LEMMA PresentConstant == KernelStep => present' = present
<1>1. ModuleCall => present' = present
  BY DEF ModuleCall, InsmodBegin, InsmodErr, RmmodOk, RmmodErr, InsmodRegister,
     moduleVars, zramVars, kernelVars
<1>2. DeviceCall => present' = present
  BY DEF DeviceCall, ResetOk, ResetErr, CompErr, DisksizeBusy, CompOk,
     DisksizeLock, AllocErr, AllocStream, DisksizeDone, zramVars, kernelVars
<1>3. SwapCall => present' = present
  BY DEF SwapCall, MkswapOk, MkswapErr, SwaponOk, SwaponErr, SwapoffOk,
     SwapoffErr, zramVars
<1>4. QED
  BY <1>1, <1>2, <1>3 DEF KernelStep, kernelVars

\* A step of zstd-upgrade.sh keeps CtlTypeOK and InitPending.
LEMMA CtlStepInv ==
  ASSUME KernelTypeOK, RegisteredListed, CtlTypeOK, InitPending,
         NEW p \in Procs, CtlStep(p)
  PROVE  CtlTypeOK' /\ InitPending'
<1> USE DEF KernelTypeOK, CtlTypeOK, InitPending, CtlSteps, CtlEndings,
            CtlGoto, CtlExit, NextAlgo, Algos
<1>1. CASE CheckListed(p)
  BY <1>1 DEF CheckListed, kernelVars
<1>2. CASE Insmod(p)
  <2>1. CASE InsmodBegin(on[p]) /\ CtlGoto(p, "init")
    BY <1>2, <2>1 DEF Insmod, InsmodBegin, RegisteredListed
  <2>2. CASE InsmodErr(on[p]) /\ CtlExit(p, "err")
    BY <1>2, <2>2 DEF Insmod, InsmodErr, moduleVars
  <2>3. QED
    BY <1>2, <2>1, <2>2 DEF Insmod
<1>3. CASE ModuleInit(p)
  BY <1>3 DEF ModuleInit, InsmodRegister
<1>4. CASE ConfirmRegistered(p)
  <2>1. at[p] = "confirm" /\ UNCHANGED kernelVars
    BY <1>4 DEF ConfirmRegistered
  <2>2. CASE NextAlgo(p)
    BY <2>1, <2>2 DEF kernelVars
  <2>3. CASE CtlExit(p, "err")
    BY <2>1, <2>3 DEF kernelVars
  <2>4. QED
    BY <1>4, <2>2, <2>3 DEF ConfirmRegistered
<1>5. CASE Rmmod(p)
  <2>1. CASE RmmodOk(on[p]) /\ NextAlgo(p)
    <3>1. at[p] = "rmmod" /\ at'[p] # "init"
      BY <1>5, <2>1 DEF Rmmod
    <3>2. CtlTypeOK'
      BY <2>1
    <3>3. ASSUME NEW q \in Procs, at'[q] = "init"
          PROVE  q # p /\ at[q] = "init" /\ on'[q] = on[q]
      BY <2>1, <3>1, <3>3
    <3>4. \A q \in Procs : at[q] = "init" => on[q] # on[p]
      BY <2>1 DEF RmmodOk
    <3>5. QED
      BY <2>1, <3>2, <3>3, <3>4 DEF RmmodOk
  <2>2. CASE RmmodErr(on[p]) /\ CtlExit(p, "err")
    BY <1>5, <2>2 DEF Rmmod, RmmodErr, kernelVars
  <2>3. QED
    BY <1>5, <2>1, <2>2 DEF Rmmod
<1>6. QED
  BY <1>1, <1>2, <1>3, <1>4, <1>5 DEF CtlStep

\* Starting or ending a run of zstd-upgrade.sh keeps them too.
LEMMA CtlStartReapInv ==
  ASSUME CtlTypeOK, InitPending, UNCHANGED <<listed, registered>>,
         NEW p \in Procs,
         \/ \E cmd \in {"load", "unload"} : CtlStart(p, cmd)
         \/ CtlReap(p)
         \/ UNCHANGED ctlVars
  PROVE  CtlTypeOK' /\ InitPending'
<1> USE DEF CtlTypeOK, InitPending, CtlSteps, CtlEndings, Algos
<1>1. CASE \E cmd \in {"load", "unload"} : CtlStart(p, cmd)
  BY <1>1 DEF CtlStart
<1>2. CASE CtlReap(p)
  BY <1>2 DEF CtlReap
<1>3. CASE UNCHANGED ctlVars
  BY <1>3 DEF ctlVars
<1>4. QED
  BY <1>1, <1>2, <1>3

\* What a shell's own steps do with its variables.
LEMMA ApplyStepInv ==
  ASSUME IInv, present' = present, NEW p \in Procs, Start(p) \/ Step(p)
  PROVE  ApplyTypeOK' /\ ReadyPresent' /\ RebuildReady'
<1> USE DEF IInv, ScriptInv, ApplyTypeOK, ReadyPresent, RebuildReady, Built
<1>1. ASSUME NEW step \in Steps, Goto(p, step),
             step \in {"idle", "ready"} \cup Endings \/ Zram0 \in present,
             step \in {"idle"} \cup Built \cup Endings \/ want[p] \in Algos,
             step = "swapoff" => tries[p] < MaxTries,
             step \in {"reset", "comp", "disksize", "alloc"} => keep[p] # 0
      PROVE  ApplyTypeOK' /\ ReadyPresent' /\ RebuildReady'
  BY <1>1 DEF Goto
<1>2. ASSUME NEW ending \in Endings, Exit(p, ending)
      PROVE  ApplyTypeOK' /\ ReadyPresent' /\ RebuildReady'
  <2>1. ApplyTypeOK'
    <3>1. named' \in [Procs -> BOOLEAN]
      BY <1>2, Zenon DEF Exit
    <3>2. QED
      BY <1>2, <3>1, TriesAssumption DEF Exit, Steps
  <2>2. ReadyPresent' /\ RebuildReady'
    BY <1>2 DEF Exit, Endings
  <2>3. QED
    BY <2>1, <2>2
<1>3. ASSUME NEW algo \in Algos \cup {"default"}, Apply(p, algo)
      PROVE  ApplyTypeOK' /\ ReadyPresent' /\ RebuildReady'
  <2>1. disturbed' \subseteq Procs
    BY <1>3 DEF Apply, NoteOverlap, Others
  <2>2. CASE algo = "default"
    BY <1>3, <2>1, <2>2 DEF Apply, Steps, Endings
  <2>3. CASE algo # "default"
    BY <1>3, <2>1, <2>3 DEF Apply, Steps, Endings
  <2>4. QED
    BY <2>2, <2>3
<1>4. ASSUME NEW cmd \in {"load", "unload"}, UserCtl(p, cmd)
      PROVE  ApplyTypeOK' /\ ReadyPresent' /\ RebuildReady'
  BY <1>4 DEF UserCtl, NoteOverlap, Others, applyVars
<1>5. CASE RunCtl(p)
  BY <1>5 DEF RunCtl, applyVars
<1>6. CASE CheckReady(p) \/ EnsureDriver(p) \/ EnsureReturns(p)
  BY <1>6, <1>1, <1>2 DEF CheckReady, EnsureDriver, EnsureReturns, Steps, Endings
<1>7. CASE SwapLoop(p) \/ CheckSwap(p)
  BY <1>7, <1>1, <1>2 DEF SwapLoop, CheckSwap, Steps, Endings
<1>8. CASE Reset(p) \/ SetAlgo(p) \/ SetSize(p) \/ AllocStreams(p)
  BY <1>8, <1>1, <1>2 DEF Reset, SetAlgo, SetSize, AllocStreams, Steps, Endings
<1>9. CASE Mkswap(p) \/ Swapon(p) \/ Report(p)
  <2>1. CASE Mkswap(p) \/ Swapon(p)
    BY <2>1, <1>1, <1>2 DEF Mkswap, Swapon, Steps, Endings
  <2>2. CASE Report(p)
    BY <2>2, <1>2 DEF Report, Endings
  <2>3. QED
    BY <1>9, <2>1, <2>2
<1>10. CASE ReadAlgo(p)
  <2>1. named' \in [Procs -> BOOLEAN]
    BY <1>10, Zenon DEF ReadAlgo
  <2>2. QED
    BY <1>10, <2>1 DEF ReadAlgo, Steps, Endings
<1>11. CASE ReadRefcnt(p)
  <2>1. CASE Exit(p, "kept")
    BY <2>1, <1>2 DEF Endings
  <2>2. CASE pc' = [pc EXCEPT ![p] = "loop"]
    BY <1>11, <2>2, TriesAssumption DEF ReadRefcnt, Exit, Steps, Endings
  <2>3. QED
    BY <1>11, <2>1, <2>2 DEF ReadRefcnt
<1>12. CASE Swapoff(p)
  BY <1>12, TriesAssumption DEF Swapoff, Steps, Endings
<1>13. CASE ReadSize(p)
  <2>1. size[Zram0] \in Nat
    BY DevsAssumption DEF KernelInv, KernelTypeOK
  <2>2. QED
    BY <1>13, <2>1, DefaultSizeAssumption DEF ReadSize, Steps, Endings
<1>14. CASE Return(p)
  BY <1>14 DEF Return, CtlReap, Steps, Endings
<1>15. ASSUME NEW file \in FileValues, NEW arg \in ArgValues
       PROVE  AlgoOf(file, arg) \in Algos \cup {"default"}
  BY DEF FileValues, ArgValues, AlgoOf, Algos
<1>16. QED
  BY <1>3, <1>4, <1>5, <1>6, <1>7, <1>8, <1>9, <1>10, <1>11, <1>12, <1>13,
     <1>14, <1>15 DEF Start, Step

\* Every step of the system keeps the inductive invariant.
LEMMA StepInv ==
  ASSUME IInv, [Next]_vars
  PROVE  IInv'
<1>1. KernelInv' /\ present' = present
  BY StepIsKernelStep, KernelStepInv, PresentConstant DEF IInv
<1>2. CASE UNCHANGED vars
  BY <1>1, <1>2 DEF IInv, ScriptInv, CtlTypeOK, ApplyTypeOK, InitPending,
     ReadyPresent, RebuildReady, vars, kernelVars, ctlVars, applyVars
<1>3. ASSUME NEW p \in Procs, Start(p) \/ Step(p) PROVE IInv'
  <2>1. ApplyTypeOK' /\ ReadyPresent' /\ RebuildReady'
    BY <1>1, <1>3, ApplyStepInv
  <2>2. CtlTypeOK' /\ InitPending'
    <3>1. CASE RunCtl(p)
      BY <3>1, CtlStepInv DEF RunCtl, IInv, KernelInv, ScriptInv
    <3>2. CASE ~RunCtl(p)
      <4>1. UNCHANGED <<listed, registered>>
        <5>1. CASE Start(p)
          BY <5>1 DEF Start, Apply, UserCtl, kernelVars
        <5>2. CASE CheckReady(p) \/ EnsureDriver(p) \/ EnsureReturns(p)
                   \/ ReadAlgo(p) \/ ReadRefcnt(p) \/ Report(p) \/ Return(p)
          BY <5>2 DEF CheckReady, EnsureDriver, EnsureReturns, ReadAlgo,
             ReadRefcnt, Report, Return, kernelVars
        <5>3. CASE SwapLoop(p) \/ Swapoff(p) \/ CheckSwap(p) \/ ReadSize(p)
          BY <5>3 DEF SwapLoop, Swapoff, CheckSwap, ReadSize, SwapoffOk,
             SwapoffErr, moduleVars, kernelVars
        <5>4. CASE Reset(p) \/ SetAlgo(p) \/ SetSize(p)
          BY <5>4 DEF Reset, SetAlgo, SetSize, ResetOk, ResetErr, CompOk,
             CompErr, DisksizeLock, DisksizeBusy, moduleVars, kernelVars
        <5>5. CASE AllocStreams(p) \/ Mkswap(p) \/ Swapon(p)
          BY <5>5 DEF AllocStreams, Mkswap, Swapon, AllocStream, AllocErr,
             DisksizeDone, MkswapOk, MkswapErr, SwaponOk, SwaponErr, moduleVars
        <5>6. QED
          BY <1>3, <3>2, <5>1, <5>2, <5>3, <5>4, <5>5 DEF Step
      <4>2. \/ \E cmd \in {"load", "unload"} : CtlStart(p, cmd)
            \/ CtlReap(p)
            \/ UNCHANGED ctlVars
        BY <1>3, <3>2 DEF Start, Step, Apply, UserCtl, CheckReady, EnsureDriver,
           EnsureReturns, ReadAlgo, ReadRefcnt, SwapLoop, Swapoff, CheckSwap,
           ReadSize, Reset, SetAlgo, SetSize, AllocStreams, Mkswap, Swapon,
           Report, Return
      <4>3. QED
        BY <4>1, <4>2, CtlStartReapInv DEF IInv, ScriptInv
    <3>3. QED
      BY <3>1, <3>2
  <2>3. QED
    BY <1>1, <2>1, <2>2 DEF IInv, ScriptInv
<1>4. QED
  BY <1>2, <1>3 DEF Next

\* Only a shell that runs has a step to make.
LEMMA StepRuns ==
  ASSUME NEW p \in Procs, Step(p)
  PROVE  Running(p)
<1>1. CASE RunCtl(p)
  BY <1>1 DEF RunCtl, CtlStep, CheckListed, Insmod, ModuleInit,
     ConfirmRegistered, Rmmod, Running
<1>2. CASE Return(p)
  BY <1>2 DEF Return, CtlReap, CtlEndings, Endings, Running
<1>3. QED
  BY <1>1, <1>2 DEF Step, CheckReady, EnsureDriver, EnsureReturns, ReadAlgo,
     ReadRefcnt, SwapLoop, Swapoff, CheckSwap, ReadSize, Reset, SetAlgo,
     SetSize, AllocStreams, Mkswap, Swapon, Report, Running

\* The inductive invariant holds in every reachable state.
THEOREM Invariance == Spec => []IInv
<1>1. Init => IInv
  BY KernelInitInv, ScriptInitInv DEF IInv
<1>2. IInv /\ [Next]_vars => IInv'
  BY StepInv
<1>3. QED
  BY <1>1, <1>2, PTL DEF Spec

\* Every variable keeps to its type; in particular the swapoff loop makes at
\* most MaxTries attempts.
THEOREM TypeCorrect == Spec => []TypeOK
<1>1. IInv => TypeOK
  BY DEF IInv, KernelInv, ScriptInv, TypeOK
<1>2. QED
  BY <1>1, Invariance, PTL

\* No stream outlives the module whose code it runs.
THEOREM StreamsArePinned == Spec => []StreamsPinned
<1>1. IInv => StreamsPinned
  BY DEF IInv, KernelInv, StreamsRegistered, RegisteredListed, StreamsPinned
<1>2. QED
  BY <1>1, Invariance, PTL

-----------------------------------------------------------------------------
(* The swap survives. *)

\* What a step of shell p does to zram0 and to the duty of bringing it back.
Effect(p) ==
  /\ \A q \in Procs \ {p} : pc'[q] = pc[q]
  /\ faulted => faulted'
  \* A restorer stays one, unless the swap is on or a call failed.
  /\ Restorer(p) /\ ~faulted' => Restorer(p)' \/ Zram0 \in swap'
  \* Only a restorer changes the device, and only while the swap is off.
  /\ ~Restorer(p) \/ Zram0 \in swap => UNCHANGED <<comp, size, streams>>
  /\ ~Restorer(p) /\ Zram0 \notin swap => UNCHANGED <<swap, header>>
  \* Who takes the swap down or starts over has the duty to bring it back.
  /\ Zram0 \in swap /\ Zram0 \notin swap' => Restorer(p)' /\ UNCHANGED faulted
  /\ Zram0 \notin swap /\ Zram0 \in swap' =>
       /\ Restorer(p) /\ size[Zram0] # 0
       /\ UNCHANGED <<comp, size, streams, faulted>>
  /\ ~Restorer(p) /\ Restorer(p)' /\ Zram0 \notin swap => UNCHANGED faulted

\* Steps that leave zram0 alone.
LEMMA QuietEffect ==
  ASSUME IInv, NEW p \in Procs,
         \/ Start(p) \/ RunCtl(p) \/ Return(p)
         \/ CheckReady(p) \/ EnsureDriver(p) \/ EnsureReturns(p)
         \/ ReadAlgo(p) \/ ReadRefcnt(p) \/ Report(p)
         \/ SwapLoop(p) \/ CheckSwap(p) \/ ReadSize(p)
  PROVE  Effect(p)
<1> USE DEF IInv, ScriptInv, ApplyTypeOK, Effect, Restorer, Goto, Exit,
            kernelVars, zramVars, Steps, Endings
<1>1. CASE Start(p)
  BY <1>1 DEF Start, Apply, UserCtl, Running, applyVars
<1>2. CASE RunCtl(p)
  <2>1. UNCHANGED <<comp, size, streams, swap, header, pc>>
    BY <1>2 DEF RunCtl, CtlStep, CheckListed, Insmod, ModuleInit,
       ConfirmRegistered, Rmmod, InsmodBegin, InsmodErr, InsmodRegister, RmmodOk,
       RmmodErr, applyVars
  <2>2. faulted => faulted'
    BY <1>2 DEF RunCtl, CtlStep, CheckListed, Insmod, ModuleInit,
       ConfirmRegistered, Rmmod, InsmodBegin, InsmodErr, InsmodRegister, RmmodOk,
       RmmodErr, Fault
  <2>3. QED
    BY <2>1, <2>2
<1>3. CASE Return(p)
  BY <1>3 DEF Return
<1>4. CASE CheckReady(p) \/ EnsureDriver(p) \/ EnsureReturns(p)
  BY <1>4 DEF CheckReady, EnsureDriver, EnsureReturns
<1>5. CASE ReadAlgo(p) \/ ReadRefcnt(p) \/ Report(p)
  BY <1>5 DEF ReadAlgo, ReadRefcnt, Report
<1>6. CASE SwapLoop(p) \/ CheckSwap(p) \/ ReadSize(p)
  BY <1>6 DEF SwapLoop, CheckSwap, ReadSize
<1>7. QED
  BY <1>1, <1>2, <1>3, <1>4, <1>5, <1>6

\* Steps that act on zram0.
LEMMA DeviceEffect ==
  ASSUME IInv, NEW p \in Procs,
         \/ Swapoff(p) \/ Reset(p) \/ SetAlgo(p) \/ SetSize(p)
         \/ AllocStreams(p) \/ Mkswap(p) \/ Swapon(p)
  PROVE  Effect(p)
<1> USE DevsAssumption, ProcsAssumption
    DEF IInv, KernelInv, KernelTypeOK, ScriptInv, ApplyTypeOK, Effect, Restorer,
        Goto, Exit, zramVars, moduleVars, Fault, Unlocked
<1>1. CASE Swapoff(p)
  BY <1>1 DEF Swapoff, SwapoffOk, SwapoffErr
<1>2. CASE Reset(p)
  BY <1>2 DEF Reset, ResetOk, ResetErr
<1>3. CASE SetAlgo(p)
  BY <1>3 DEF SetAlgo, CompOk, CompErr, SwapBacked
<1>4. CASE SetSize(p)
  BY <1>4 DEF SetSize, DisksizeLock, DisksizeBusy, kernelVars
<1>5. CASE AllocStreams(p)
  <2>1. lock[Zram0] = p
    BY <1>5 DEF AllocStreams, AllocStream, AllocErr, DisksizeDone
  <2>2. size[Zram0] = 0 /\ Zram0 \notin swap
    BY <2>1 DEF LockedUninitialised, SwapBacked
  <2>3. keep[p] # 0
    BY <1>5 DEF AllocStreams, RebuildReady
  <2>4. QED
    BY <1>5, <2>2, <2>3 DEF AllocStreams, AllocStream, AllocErr, DisksizeDone
<1>6. CASE Mkswap(p)
  BY <1>6 DEF Mkswap, MkswapOk, MkswapErr
<1>7. CASE Swapon(p)
  BY <1>7 DEF Swapon, SwaponOk, SwaponErr, CanSwapon
<1>8. QED
  BY <1>1, <1>2, <1>3, <1>4, <1>5, <1>6, <1>7

\* Every step of a shell has one of the effects on zram0 that Effect lists.
LEMMA StepEffect ==
  ASSUME IInv, NEW p \in Procs, Start(p) \/ Step(p)
  PROVE  Effect(p)
BY QuietEffect, DeviceEffect DEF Step

\* Somebody has the duty to bring the swap back, or it is on.
Duty == Zram0 \in swap \/ \E p \in Procs : Restorer(p)

\* A step in which no call fails keeps somebody on duty.
LEMMA DutyKept ==
  ASSUME NEW p \in Procs, Effect(p), Duty, ~faulted'
  PROVE  Duty'
<1>1. CASE Zram0 \in swap
  <2>1. CASE Zram0 \in swap'
    BY <2>1 DEF Duty
  <2>2. CASE Zram0 \notin swap'
    BY <1>1, <2>2 DEF Effect, Duty
  <2>3. QED
    BY <2>1, <2>2
<1>2. CASE Restorer(p)
  BY <1>2 DEF Effect, Duty
<1>3. CASE Zram0 \notin swap /\ ~Restorer(p)
  <2>1. PICK q \in Procs \ {p} : Restorer(q)
    BY <1>3 DEF Duty
  <2>2. Restorer(q)'
    BY <1>3, <2>1 DEF Effect, Restorer
  <2>3. QED
    BY <2>2 DEF Duty
<1>4. QED
  BY <1>1, <1>2, <1>3

\* As long as no call fails for an outside reason, the swap is on or some
\* shell is about to bring it back.
THEOREM SwapIsKept == Spec => []SwapSurvives
<1>1. Init => SwapSurvives
  BY DevsAssumption DEF Init, ZramInit, Absent, StockActive, SwapSurvives
<1>2. IInv /\ SwapSurvives /\ [Next]_vars => SwapSurvives'
  <2> SUFFICES ASSUME IInv, SwapSurvives, [Next]_vars,
                      ~faulted', Zram0 \in present'
               PROVE  Duty'
    BY DEF SwapSurvives, Duty
  <2>1. Zram0 \in present
    BY StepIsKernelStep, PresentConstant
  <2>2. CASE UNCHANGED vars
    BY <2>1, <2>2 DEF SwapSurvives, Duty, Restorer, vars, kernelVars, applyVars
  <2>3. ASSUME NEW p \in Procs, Start(p) \/ Step(p) PROVE Duty'
    <3>1. Effect(p)
      BY <2>3, StepEffect
    <3>2. Duty
      BY <2>1, <3>1 DEF Effect, SwapSurvives, Duty
    <3>3. QED
      BY <3>1, <3>2, DutyKept
  <2>4. QED
    BY <2>2, <2>3 DEF Next
<1>3. QED
  BY <1>1, <1>2, Invariance, PTL DEF Spec

-----------------------------------------------------------------------------
(* ZramAlgo implements SwapService. *)

\* zram0 is active swap only if it exists.
SwapPresent == Zram0 \in swap => Zram0 \in present

\* A shell gets into reconfigure() only when zram0 exists.
LEMMA RestorerPresent ==
  ASSUME IInv, NEW p \in Procs, Restorer(p)
  PROVE  Zram0 \in present
BY DEF IInv, ScriptInv, ReadyPresent, Restorer, Steps, Endings

\* No step of a shell makes swap of a device that does not exist.
LEMMA SwapPresentStep ==
  ASSUME IInv, SwapPresent, present' = present,
         NEW p \in Procs, Start(p) \/ Step(p)
  PROVE  SwapPresent'
BY StepEffect, RestorerPresent DEF SwapPresent, Effect

\* A device in /proc/swaps exists, in every reachable state.
LEMMA SwapPresentInv == Spec => []SwapPresent
<1>1. Init => SwapPresent
  BY DEF Init, ZramInit, Absent, StockActive, SwapPresent
<1>2. IInv /\ SwapPresent /\ [Next]_vars => SwapPresent'
  <2> SUFFICES ASSUME IInv, SwapPresent, [Next]_vars PROVE SwapPresent'
    OBVIOUS
  <2>1. present' = present
    BY StepIsKernelStep, PresentConstant
  <2>2. CASE UNCHANGED vars
    BY <2>2 DEF SwapPresent, vars, kernelVars
  <2>3. QED
    BY <2>1, <2>2, SwapPresentStep DEF Next
<1>3. QED
  BY <1>1, <1>2, Invariance, PTL DEF Spec

\* Every step of a shell is a step of SwapService or leaves its state alone.
LEMMA ShellImplements ==
  ASSUME IInv, IInv', SwapPresent, present' = present,
         NEW p \in Procs, Start(p) \/ Step(p)
  PROVE  [Service!Next]_(Service!vars)
<1>1. Effect(p)
  BY StepEffect
<1>2. faulted' = TRUE \/ UNCHANGED faulted
  BY <1>1 DEF Effect, IInv, KernelInv, KernelTypeOK
<1>3. UNCHANGED <<comp, size, streams>> => UNCHANGED Zram0Config
  BY DEF Zram0Config
<1>4. CASE Zram0 \notin present
  <2>1. ~Restorer(p) /\ Zram0 \notin swap
    BY <1>4, RestorerPresent DEF SwapPresent
  <2>2. SwapState = "absent" /\ SwapState' = "absent"
    BY <1>4 DEF SwapState
  <2>3. UNCHANGED Zram0Config
    BY <1>1, <1>3, <2>1 DEF Effect
  <2>4. QED
    BY <1>2, <2>2, <2>3 DEF Service!Next, Service!Fail, Service!vars
<1>5. CASE Zram0 \in present /\ Zram0 \in swap /\ Zram0 \in swap'
  <2>1. SwapState = "on" /\ SwapState' = "on"
    BY <1>5 DEF SwapState
  <2>2. UNCHANGED Zram0Config
    BY <1>1, <1>3, <1>5 DEF Effect
  <2>3. QED
    BY <1>2, <2>1, <2>2 DEF Service!Next, Service!Fail, Service!vars
<1>6. CASE Zram0 \in present /\ Zram0 \in swap /\ Zram0 \notin swap'
  <2>1. SwapState = "on" /\ SwapState' = "rebuilding"
    BY <1>1, <1>6 DEF SwapState, Effect
  <2>2. UNCHANGED <<Zram0Config, faulted>>
    BY <1>1, <1>3, <1>6 DEF Effect
  <2>3. QED
    BY <2>1, <2>2 DEF Service!Next, Service!TakeDown, Service!vars
<1>7. CASE Zram0 \in present /\ Zram0 \notin swap /\ Zram0 \in swap'
  <2>1. SwapState = "rebuilding" /\ SwapState' = "on"
    BY <1>1, <1>7 DEF SwapState, Effect
  <2>2. UNCHANGED <<Zram0Config, faulted>>
    BY <1>1, <1>3, <1>7 DEF Effect
  <2>3. Zram0Config \in CompleteConfigs
    <3>1. streams[Zram0] \in [Cpus -> Drivers]
      BY <1>1, <1>7, DevsAssumption
         DEF Effect, IInv, KernelInv, KernelTypeOK, InitialisedComplete, Drivers
    <3>2. comp[Zram0] \in Names /\ size[Zram0] \in Nat \ {0}
      BY <1>1, <1>7, DevsAssumption DEF Effect, IInv, KernelInv, KernelTypeOK
    <3>3. QED
      BY <3>1, <3>2 DEF Zram0Config, CompleteConfigs
  <2>4. QED
    BY <2>1, <2>2, <2>3 DEF Service!Next, Service!BringBack, Service!vars
<1>8. CASE Zram0 \in present /\ Zram0 \notin swap /\ Zram0 \notin swap' /\ Duty
  <2>1. SwapState = "rebuilding" /\ SwapState' \in {"rebuilding", "lost"}
    BY <1>8 DEF SwapState, Duty
  <2>2. CASE faulted' = TRUE
    BY <2>1, <2>2 DEF Service!Next, Service!Fail, Service!vars
  <2>3. CASE faulted' # TRUE
    <3>1. ~faulted' /\ UNCHANGED faulted
      BY <1>2, <2>3 DEF IInv, KernelInv, KernelTypeOK
    <3>2. SwapState' = "rebuilding"
      BY <1>1, <1>8, <3>1, DutyKept DEF SwapState, Duty
    <3>3. QED
      BY <2>1, <3>1, <3>2 DEF Service!Next, Service!Rebuild, Service!vars
  <2>4. QED
    BY <2>2, <2>3
<1>9. CASE Zram0 \in present /\ Zram0 \notin swap /\ Zram0 \notin swap' /\ ~Duty
  <2>1. ~Restorer(p) /\ SwapState = "lost"
    BY <1>9 DEF SwapState, Duty
  <2>2. UNCHANGED <<comp, size, streams, swap, header>> /\ UNCHANGED Zram0Config
    BY <1>1, <1>3, <1>9, <2>1 DEF Effect
  <2>3. CASE Restorer(p)'
    <3>1. UNCHANGED faulted /\ SwapState' = "rebuilding"
      BY <1>1, <1>9, <2>1, <2>3 DEF Effect, SwapState
    <3>2. QED
      BY <2>1, <2>2, <3>1 DEF Service!Next, Service!Retry, Service!vars
  <2>4. CASE ~Restorer(p)'
    <3>1. ASSUME NEW q \in Procs PROVE ~Restorer(q)'
      <4>1. CASE q = p
        BY <2>4, <4>1
      <4>2. CASE q # p
        BY <1>1, <1>9, <2>2, <4>2 DEF Effect, Restorer, Duty
      <4>3. QED
        BY <4>1, <4>2
    <3>2. SwapState' = "lost"
      BY <1>9, <3>1 DEF SwapState
    <3>3. QED
      BY <1>2, <2>1, <2>2, <3>2 DEF Service!Next, Service!Fail, Service!vars
  <2>5. QED
    BY <2>3, <2>4
<1>10. QED
  BY <1>4, <1>5, <1>6, <1>7, <1>8, <1>9

\* The scripts implement the swap service: under any overlap of shells, the
\* active swap never changes its configuration, comes back only complete and
\* is lost only after an outside failure.
THEOREM ImplementsService == Spec => ServiceSpec
<1>1. Init => Service!Init
  <2> SUFFICES ASSUME Init PROVE Service!Init
    OBVIOUS
  <2>1. KernelInv /\ Zram0 \in Devs
    BY KernelInitInv, DevsAssumption
  <2>2. faulted = FALSE
    BY DEF Init, KernelInit
  <2>3. CASE Zram0 \notin present
    BY <2>2, <2>3 DEF Service!Init, SwapState
  <2>4. CASE Zram0 \in present
    <3>1. StockActive(Zram0)
      BY <2>1, <2>4 DEF Init, ZramInit, Absent
    <3>2. Zram0Config \in CompleteConfigs
      BY <2>1, <3>1, SizeAssumption
         DEF StockActive, KernelInv, KernelTypeOK, Zram0Config, CompleteConfigs,
             Drivers
    <3>3. QED
      BY <2>2, <2>4, <3>1, <3>2 DEF Service!Init, SwapState, StockActive
  <2>5. QED
    BY <2>3, <2>4
<1>2. IInv /\ IInv' /\ SwapPresent /\ [Next]_vars => [Service!Next]_(Service!vars)
  <2> SUFFICES ASSUME IInv, IInv', SwapPresent, [Next]_vars
               PROVE  [Service!Next]_(Service!vars)
    OBVIOUS
  <2>1. present' = present
    BY StepIsKernelStep, PresentConstant
  <2>2. CASE UNCHANGED vars
    BY <2>2 DEF vars, kernelVars, applyVars, Service!vars, SwapState, Restorer,
       Zram0Config
  <2>3. QED
    BY <2>1, <2>2, ShellImplements DEF Next
<1>3. QED
  BY <1>1, <1>2, Invariance, SwapPresentInv, PTL
     DEF Spec, ServiceSpec, Service!Spec

-----------------------------------------------------------------------------
(* What a script that overlaps no other one is promised: the action
   properties of ZramAlgo about undisturbed runs.  Alone, a shell finds the
   kernel as it left it, so each step may rely on what the earlier steps of
   the same script have reached. *)


-----------------------------------------------------------------------------
(* What always holds between scripts. *)

\* A module that is listed and not yet registered is inside some insmod.
ListedPending ==
  \A a \in listed \ registered : \E q \in Procs : at[q] = "init" /\ on[q] = a

\* A shell outside an apply has no target, and runs zstd-upgrade.sh only by
\* itself or, as a load, from ensure_driver.
Apart(q) ==
  /\ pc[q] \in {"idle"} \cup Endings => want[q] = "default"
  /\ at[q] # "off" => pc[q] \in {"idle", "loading"}
  /\ pc[q] = "loading" => op[q] = "load"
ScriptsApart == \A q \in Procs : Apart(q)

Base == IInv /\ ListedPending /\ ScriptsApart

-----------------------------------------------------------------------------
(* What a shell that runs alone has reached at each step. *)

Alone(p) == \A q \in Procs \ {p} : ~Running(q)

\* zstd-upgrade.sh: lz4 is dealt with before zstd.
CtlSolo(p) ==
  /\ at[p] \in {"insmod", "init", "confirm"} => op[p] = "load"
  /\ at[p] = "rmmod" => op[p] = "unload"
  /\ at[p] = "insmod" => on[p] \notin listed
  /\ at[p] = "confirm" => on[p] \in registered
  /\ at[p] # "off" /\ on[p] = "zstd" =>
       IF op[p] = "load" THEN "lz4" \in registered ELSE "lz4" \notin listed
  /\ at[p] = "ok" =>
       IF op[p] = "load" THEN Algos \subseteq registered ELSE listed = {}
  /\ at[p] = "err" /\ op[p] = "load" /\ accepts = Algos => faulted

\* zram-algo.sh: ensure_driver has got the driver, unless a call failed.
AfterEnsure == Steps \ ({"idle", "ready", "ensure", "loading"} \cup Endings)
DriverSolo(p) ==
  pc[p] \in AfterEnsure /\ accepts = Algos /\ ~faulted => want[p] \in registered

\* reconfigure(): the swap is off, the device reset, named and built.
SwapOff == {"check", "size", "reset", "comp", "disksize", "alloc", "mkswap",
            "swapon"}
DeviceSolo(p) ==
  /\ pc[p] = "refcnt" /\ named[p] => comp[Zram0] = want[p]
  /\ pc[p] = "loop" /\ tries[p] > 0 /\ ~faulted => Zram0 \notin swap
  /\ pc[p] \in SwapOff /\ ~faulted => Zram0 \notin swap
  /\ pc[p] \in {"comp", "disksize"} => size[Zram0] = 0
  /\ pc[p] \in Built => comp[Zram0] = want[p]
  /\ pc[p] = "alloc" =>
       \A c \in Cpus : streams[Zram0][c] \in {"none", Lookup(comp[Zram0])}
  /\ pc[p] \in {"mkswap", "swapon", "report"} =>
       \A c \in Cpus : streams[Zram0][c] = Lookup(comp[Zram0])
  /\ pc[p] \in {"mkswap", "swapon"} => size[Zram0] # 0
  /\ pc[p] = "swapon" => Zram0 \in header
  /\ pc[p] = "report" => Zram0 \in swap

SoloFacts(p) == CtlSolo(p) /\ DriverSolo(p) /\ DeviceSolo(p)

SoloInv ==
  \A p \in Procs : Running(p) /\ Solo(p) => Alone(p) /\ SoloFacts(p)

-----------------------------------------------------------------------------
(* The scripts keep these facts. *)

\* Which steps a step of zstd-upgrade.sh leaves for the shell's apply.
LEMMA CtlKeepsApply ==
  ASSUME NEW p \in Procs, RunCtl(p)
  PROVE  UNCHANGED <<pc, want, named, tries, disturbed, comp, size, streams,
                     swap, header, accepts>>
BY DEF RunCtl, CtlStep, CheckListed, Insmod, ModuleInit, ConfirmRegistered,
   Rmmod, InsmodBegin, InsmodErr, InsmodRegister, RmmodOk, RmmodErr, applyVars,
   kernelVars, zramVars, moduleVars

\* Outside zstd-upgrade.sh a shell leaves the modules and drivers alone.
LEMMA OnlyCtlLoads ==
  ASSUME NEW p \in Procs, Start(p) \/ Step(p), ~RunCtl(p)
  PROVE  UNCHANGED <<listed, registered, accepts>>
<1>1. CASE Start(p)
  BY <1>1 DEF Start, Apply, UserCtl, kernelVars
<1>2. CASE CheckReady(p) \/ EnsureDriver(p) \/ EnsureReturns(p)
           \/ ReadAlgo(p) \/ ReadRefcnt(p) \/ Report(p) \/ Return(p)
  BY <1>2 DEF CheckReady, EnsureDriver, EnsureReturns, ReadAlgo, ReadRefcnt,
     Report, Return, kernelVars
<1>3. CASE SwapLoop(p) \/ Swapoff(p) \/ CheckSwap(p) \/ ReadSize(p)
  BY <1>3 DEF SwapLoop, Swapoff, CheckSwap, ReadSize, SwapoffOk, SwapoffErr,
     moduleVars, kernelVars
<1>4. CASE Reset(p) \/ SetAlgo(p) \/ SetSize(p)
  BY <1>4 DEF Reset, SetAlgo, SetSize, ResetOk, ResetErr, CompOk, CompErr,
     DisksizeLock, DisksizeBusy, moduleVars, kernelVars
<1>5. CASE AllocStreams(p) \/ Mkswap(p) \/ Swapon(p)
  BY <1>5 DEF AllocStreams, Mkswap, Swapon, AllocStream, AllocErr, DisksizeDone,
     MkswapOk, MkswapErr, SwaponOk, SwaponErr, moduleVars
<1>6. QED
  BY <1>1, <1>2, <1>3, <1>4, <1>5 DEF Step

\* What becomes of the shell's place in zstd-upgrade.sh outside its own steps.
LEMMA CtlMoves ==
  ASSUME NEW p \in Procs, Start(p) \/ Step(p), ~RunCtl(p)
  PROVE  \/ UNCHANGED ctlVars
         \/ \E cmd \in {"load", "unload"} : CtlStart(p, cmd)
         \/ CtlReap(p)
BY DEF Start, Step, Apply, UserCtl, CheckReady, EnsureDriver, EnsureReturns,
   ReadAlgo, ReadRefcnt, SwapLoop, Swapoff, CheckSwap, ReadSize, Reset, SetAlgo,
   SetSize, AllocStreams, Mkswap, Swapon, Report, Return

\* zstd-upgrade.sh is started only by a shell that is not inside it.
LEMMA CtlOff ==
  ASSUME Base, NEW p \in Procs, Start(p) \/ Step(p), ~RunCtl(p),
         \E cmd \in {"load", "unload"} : CtlStart(p, cmd)
  PROVE  at[p] # "init"
<1> USE DEF Base, IInv, ScriptInv, CtlTypeOK, ScriptsApart, Apart
<1>1. CASE Start(p)
  BY <1>1 DEF Start, Apply, UserCtl, Running
<1>2. CASE EnsureDriver(p)
  BY <1>2 DEF EnsureDriver
<1>3. CASE Start(p) \/ Step(p)
  <2>1. CASE at[p] = "init"
    <3>1. at'[p] = "listed"
      BY DEF CtlStart
    <3>2. ~UNCHANGED ctlVars
      BY <2>1, <3>1 DEF ctlVars
    <3>3. ~CtlReap(p)
      BY <2>1 DEF CtlReap, CtlEndings
    <3>4. Start(p) \/ EnsureDriver(p)
      BY <1>3, <3>2, <3>3 DEF Step, CheckReady, EnsureReturns,
         ReadAlgo, ReadRefcnt, SwapLoop, Swapoff, CheckSwap, ReadSize, Reset,
         SetAlgo, SetSize, AllocStreams, Mkswap, Swapon, Report, Return
    <3>5. QED
      BY <1>1, <1>2, <3>4
  <2>2. QED
    BY <2>1
<1>4. QED
  BY <1>3

\* No step of a shell leaves a listed module without its driver, except inside
\* an insmod.
LEMMA ListedPendingStep ==
  ASSUME Base, NEW p \in Procs, Start(p) \/ Step(p)
  PROVE  ListedPending'
<1> USE DEF Base, IInv, ScriptInv, CtlTypeOK, ListedPending
<1>1. CASE ~RunCtl(p)
  <2>1. UNCHANGED <<listed, registered>>
    BY <1>1, OnlyCtlLoads
  <2>2. \A q \in Procs : at[q] = "init" => at'[q] = "init" /\ on'[q] = on[q]
    <3>1. CASE UNCHANGED ctlVars
      BY <3>1 DEF ctlVars
    <3>2. CASE \E cmd \in {"load", "unload"} : CtlStart(p, cmd)
      <4>1. at[p] # "init"
        BY <1>1, <3>2, CtlOff
      <4>2. QED
        BY <3>2, <4>1 DEF CtlStart
    <3>3. CASE CtlReap(p)
      BY <3>3 DEF CtlReap, CtlEndings
    <3>4. QED
      BY <1>1, <3>1, <3>2, <3>3, CtlMoves
  <2>3. QED
    BY <2>1, <2>2
<1>2. CASE RunCtl(p)
  <2> USE DEF CtlGoto, CtlExit, NextAlgo
  <2>1. CASE CheckListed(p)
    BY <2>1 DEF CheckListed, kernelVars
  <2>2. CASE Insmod(p)
    BY <2>2 DEF Insmod, InsmodBegin, InsmodErr, moduleVars
  <2>3. CASE ModuleInit(p)
    <3>1. at[p] = "init" /\ registered' = registered \cup {on[p]}
      BY <2>3 DEF ModuleInit, InsmodRegister
    <3>2. UNCHANGED <<listed, on>> /\ \A q \in Procs \ {p} : at'[q] = at[q]
      BY <2>3 DEF ModuleInit, InsmodRegister
    <3>3. QED
      BY <3>1, <3>2
  <2>4. CASE ConfirmRegistered(p)
    BY <2>4 DEF ConfirmRegistered, kernelVars
  <2>5. CASE Rmmod(p)
    BY <2>5 DEF Rmmod, RmmodOk, RmmodErr, kernelVars
  <2>6. QED
    BY <1>2, <2>1, <2>2, <2>3, <2>4, <2>5 DEF RunCtl, CtlStep
<1>3. QED
  BY <1>1, <1>2

\* The two scripts of a shell stay apart.
LEMMA ScriptsApartStep ==
  ASSUME Base, NEW p \in Procs, Start(p) \/ Step(p)
  PROVE  ScriptsApart'
<1> USE DEF Base, IInv, ScriptInv, CtlTypeOK, ApplyTypeOK, ScriptsApart, Apart,
            Endings, Goto, Exit
<1>1. CASE Start(p)
  BY <1>1 DEF Start, Apply, UserCtl, CtlStart, Running, applyVars, ctlVars
<1>2. CASE RunCtl(p)
  <2>1. UNCHANGED <<pc, want, op>> /\ \A q \in Procs \ {p} : at'[q] = at[q]
    BY <1>2 DEF RunCtl, CtlStep, CheckListed, Insmod, ModuleInit,
       ConfirmRegistered, Rmmod, applyVars, CtlGoto, CtlExit, NextAlgo
  <2>2. at[p] # "off"
    BY <1>2 DEF RunCtl, CtlStep, CheckListed, Insmod, ModuleInit,
       ConfirmRegistered, Rmmod
  <2>3. QED
    BY <2>1, <2>2
<1>3. CASE CheckReady(p) \/ EnsureDriver(p) \/ EnsureReturns(p)
  BY <1>3 DEF CheckReady, EnsureDriver, EnsureReturns, CtlStart, CtlReap,
     CtlEndings, ctlVars
<1>4. CASE ReadAlgo(p) \/ ReadRefcnt(p) \/ Report(p)
  BY <1>4 DEF ReadAlgo, ReadRefcnt, Report, ctlVars
<1>5. CASE SwapLoop(p) \/ Swapoff(p) \/ CheckSwap(p) \/ ReadSize(p)
  BY <1>5 DEF SwapLoop, Swapoff, CheckSwap, ReadSize, ctlVars
<1>6. CASE Reset(p) \/ SetAlgo(p) \/ SetSize(p)
  BY <1>6 DEF Reset, SetAlgo, SetSize, ctlVars
<1>7. CASE AllocStreams(p) \/ Mkswap(p) \/ Swapon(p)
  BY <1>7 DEF AllocStreams, Mkswap, Swapon, ctlVars
<1>8. CASE Return(p)
  BY <1>8 DEF Return, CtlReap, ctlVars
<1>9. QED
  BY <1>1, <1>2, <1>3, <1>4, <1>5, <1>6, <1>7, <1>8 DEF Step

\* All of it holds in every reachable state.
LEMMA BaseInv == Spec => []Base
<1>1. Init => ListedPending /\ ScriptsApart
  BY DEF Init, KernelInit, CtlInit, ApplyInit, ListedPending, ScriptsApart,
     Apart
<1>2. Base /\ [Next]_vars => (ListedPending /\ ScriptsApart)'
  <2> SUFFICES ASSUME Base, [Next]_vars
               PROVE  ListedPending' /\ ScriptsApart'
    OBVIOUS
  <2>1. CASE UNCHANGED vars
    BY <2>1 DEF Base, ListedPending, ScriptsApart, Apart, vars, kernelVars,
       ctlVars, applyVars
  <2>2. QED
    BY <2>1, ListedPendingStep, ScriptsApartStep DEF Next
<1>3. QED
  BY <1>1, <1>2, Invariance, PTL DEF Spec, Base

-----------------------------------------------------------------------------
(* Alone, a shell keeps what it has reached. *)

\* A script that starts has reached nothing yet.
LEMMA SoloStart ==
  ASSUME Base, NEW p \in Procs, Start(p)
  PROVE  SoloFacts(p)'
<1> USE DEF Base, IInv, ScriptInv, CtlTypeOK, ApplyTypeOK, ScriptsApart, Apart,
            SoloFacts, CtlSolo, DriverSolo, DeviceSolo, AfterEnsure, SwapOff,
            Built, Endings
<1>1. ASSUME NEW cmd \in {"load", "unload"}, UserCtl(p, cmd)
      PROVE  SoloFacts(p)'
  BY <1>1 DEF UserCtl, CtlStart, Running, applyVars
<1>2. ASSUME NEW algo, Apply(p, algo) PROVE SoloFacts(p)'
  <2>1. pc'[p] \in {"default", "ready"} /\ at'[p] = "off"
    BY <1>2 DEF Apply, Running, ctlVars
  <2>2. QED
    BY <2>1
<1>3. QED
  BY <1>1, <1>2 DEF Start

\* No other shell is inside zstd-upgrade.sh.
CtlAlone(p) == \A q \in Procs \ {p} : at[q] = "off"

\* zstd-upgrade.sh finds every listed module registered when no other shell
\* runs it.
LEMMA CtlSoloStep ==
  ASSUME Base, NEW p \in Procs, CtlAlone(p), CtlSolo(p), RunCtl(p)
  PROVE  CtlSolo(p)'
<1> USE DEF Base, IInv, KernelInv, KernelTypeOK, ScriptInv, CtlTypeOK, CtlSolo,
            CtlGoto, CtlExit, NextAlgo, Algos
<1>1. at[p] # "init" => listed = registered
  <2>1. at[p] # "init" => \A q \in Procs : at[q] # "init"
    BY DEF CtlAlone
  <2>2. QED
    BY <2>1 DEF ListedPending, RegisteredListed
<1>2. CASE CheckListed(p)
  BY <1>1, <1>2 DEF CheckListed, kernelVars
<1>3. CASE Insmod(p)
  <2>1. CASE InsmodBegin(on[p]) /\ CtlGoto(p, "init")
    BY <1>3, <2>1 DEF Insmod, InsmodBegin
  <2>2. CASE InsmodErr(on[p]) /\ CtlExit(p, "err")
    BY <1>3, <2>2 DEF Insmod, InsmodErr, Fault, moduleVars
  <2>3. QED
    BY <1>3, <2>1, <2>2 DEF Insmod
<1>4. CASE ModuleInit(p)
  BY <1>4 DEF ModuleInit, InsmodRegister
<1>5. CASE ConfirmRegistered(p)
  BY <1>5 DEF ConfirmRegistered, kernelVars
<1>6. CASE Rmmod(p)
  <2>1. CASE RmmodOk(on[p]) /\ NextAlgo(p)
    <3>1. /\ at[p] = "rmmod" /\ op[p] = "unload"
          /\ listed' = listed \ {on[p]}
          /\ UNCHANGED <<accepts, faulted>>
      BY <1>6, <2>1 DEF Rmmod, RmmodOk
    <3>2. CASE on[p] = "lz4"
      BY <2>1, <3>1, <3>2
    <3>3. CASE on[p] = "zstd"
      <4>1. listed' = {}
        BY <3>1, <3>3
      <4>2. at'[p] = "ok" /\ UNCHANGED <<op, on>>
        BY <2>1, <3>3
      <4>3. QED
        BY <3>1, <3>3, <4>1, <4>2
    <3>4. QED
      BY <3>2, <3>3
  <2>2. CASE RmmodErr(on[p]) /\ CtlExit(p, "err")
    BY <1>6, <2>2 DEF Rmmod, RmmodErr, kernelVars
  <2>3. QED
    BY <1>6, <2>1, <2>2 DEF Rmmod
<1>7. QED
  BY <1>2, <1>3, <1>4, <1>5, <1>6 DEF RunCtl, CtlStep

\* The rest of a shell's steps keep what zstd-upgrade.sh has reached.
LEMMA CtlSoloRest ==
  ASSUME Base, NEW p \in Procs, CtlSolo(p), Step(p), ~RunCtl(p)
  PROVE  CtlSolo(p)'
<1> USE DEF Base, IInv, ScriptInv, CtlTypeOK, CtlSolo
<1>1. UNCHANGED <<listed, registered, accepts>>
  BY OnlyCtlLoads
<1>2. faulted => faulted'
  BY StepEffect DEF Effect
<1>3. CASE UNCHANGED ctlVars
  BY <1>1, <1>2, <1>3 DEF ctlVars
<1>4. CASE \E cmd \in {"load", "unload"} : CtlStart(p, cmd)
  BY <1>4 DEF CtlStart
<1>5. CASE CtlReap(p)
  BY <1>5 DEF CtlReap
<1>6. QED
  BY <1>3, <1>4, <1>5, CtlMoves

\* ensure_driver ends with the wanted driver registered unless a call failed,
\* and nothing takes it away from a script that runs alone.
LEMMA DriverSoloStep ==
  ASSUME Base, NEW p \in Procs, CtlSolo(p), DriverSolo(p), Step(p)
  PROVE  DriverSolo(p)'
<1> USE DEF Base, IInv, ScriptInv, CtlTypeOK, ApplyTypeOK, ScriptsApart, Apart,
            DriverSolo, AfterEnsure, Endings, Goto, Exit
<1>1. faulted => faulted'
  BY StepEffect DEF Effect
<1>2. faulted \in BOOLEAN /\ faulted' \in BOOLEAN
  <2>1. [Next]_vars
    BY DEF Next
  <2>2. QED
    BY <2>1, StepInv DEF KernelInv, KernelTypeOK
<1>3. CASE RunCtl(p)
  <2>1. pc'[p] \in {"idle", "loading"}
    BY <1>3, CtlKeepsApply
       DEF RunCtl, CtlStep, CheckListed, Insmod, ModuleInit, ConfirmRegistered,
           Rmmod
  <2>2. QED
    BY <2>1
<1>4. CASE ~RunCtl(p)
  <2>1. UNCHANGED <<registered, accepts>>
    BY <1>4, OnlyCtlLoads
  <2>2. CASE CheckReady(p) \/ Report(p) \/ Return(p)
    BY <2>2 DEF CheckReady, Report, Return
  <2>3. CASE EnsureDriver(p)
    BY <2>1, <2>3 DEF EnsureDriver
  <2>4. CASE EnsureReturns(p)
    <3>1. op[p] = "load" /\ at[p] \in {"ok", "err"} /\ want' = want
      BY <2>4 DEF EnsureReturns, CtlReap, CtlEndings
    <3>2. want[p] \in Algos
      BY <2>4 DEF EnsureReturns, RebuildReady, Built, Steps
    <3>3. accepts = Algos /\ ~faulted => want[p] \in registered
      BY <3>1, <3>2 DEF CtlSolo
    <3>4. QED
      BY <1>1, <2>1, <3>1, <3>3
  <2>5. CASE ReadAlgo(p) \/ ReadRefcnt(p)
    BY <1>1, <2>1, <2>5 DEF ReadAlgo, ReadRefcnt, Steps
  <2>6. CASE SwapLoop(p) \/ Swapoff(p) \/ CheckSwap(p) \/ ReadSize(p)
    BY <1>1, <2>1, <2>6 DEF SwapLoop, Swapoff, CheckSwap, ReadSize, Steps
  <2>7. CASE Reset(p) \/ SetAlgo(p) \/ SetSize(p)
    BY <1>1, <2>1, <2>7 DEF Reset, SetAlgo, SetSize, Steps
  <2>8. CASE AllocStreams(p) \/ Mkswap(p) \/ Swapon(p)
    BY <1>1, <2>1, <2>8 DEF AllocStreams, Mkswap, Swapon, Steps
  <2>9. QED
    BY <1>4, <2>2, <2>3, <2>4, <2>5, <2>6, <2>7, <2>8 DEF Step
<1>5. QED
  BY <1>3, <1>4

\* reconfigure() finds the device as its last step left it.
LEMMA DeviceSoloStep ==
  ASSUME Base, NEW p \in Procs, DeviceSolo(p), Step(p)
  PROVE  DeviceSolo(p)'
<1> USE DevsAssumption
    DEF Base, IInv, KernelInv, KernelTypeOK, ScriptInv, CtlTypeOK, ApplyTypeOK,
        ScriptsApart, Apart, DeviceSolo, SwapOff, Built, Endings, Goto, Exit
<1>1. CASE RunCtl(p)
  <2>1. pc'[p] \in {"idle", "loading"}
    BY <1>1, CtlKeepsApply
       DEF RunCtl, CtlStep, CheckListed, Insmod, ModuleInit, ConfirmRegistered,
           Rmmod
  <2>2. QED
    BY <2>1
<1>2. CASE CheckReady(p) \/ EnsureDriver(p) \/ EnsureReturns(p) \/ Return(p)
           \/ Report(p)
  <2>1. pc'[p] \in {"idle", "ensure", "loading", "cur"} \cup Endings
    BY <1>2 DEF CheckReady, EnsureDriver, EnsureReturns, Return, Report
  <2>2. QED
    BY <2>1
<1>3. CASE ReadAlgo(p)
  <2>1. pc'[p] = "refcnt" /\ named'[p] = (comp[Zram0] = want[p])
    BY <1>3 DEF ReadAlgo
  <2>2. UNCHANGED <<comp, want>>
    BY <1>3 DEF ReadAlgo, kernelVars
  <2>3. QED
    BY <2>1, <2>2
<1>4. CASE ReadRefcnt(p)
  BY <1>4 DEF ReadRefcnt
<1>5. CASE SwapLoop(p)
  <2>1. CASE Zram0 \in swap /\ tries[p] < MaxTries
    BY <1>5, <2>1 DEF SwapLoop
  <2>2. CASE Zram0 \notin swap
    BY <1>5, <2>2 DEF SwapLoop, kernelVars
  <2>3. CASE Zram0 \in swap /\ ~(tries[p] < MaxTries)
    <3>1. tries[p] > 0
      BY <2>3, TriesAssumption
    <3>2. faulted' /\ pc'[p] = "check"
      BY <1>5, <2>3, <3>1 DEF SwapLoop, kernelVars
    <3>3. QED
      BY <3>2
  <2>4. QED
    BY <2>1, <2>2, <2>3
<1>6. CASE Swapoff(p)
  <2>1. pc'[p] = "loop" /\ (~faulted' => Zram0 \notin swap')
    BY <1>6 DEF Swapoff, SwapoffOk, SwapoffErr, Fault, zramVars
  <2>2. QED
    BY <2>1
<1>7. CASE CheckSwap(p) \/ ReadSize(p)
  BY <1>7 DEF CheckSwap, ReadSize, kernelVars
<1>8. CASE Reset(p)
  BY <1>8 DEF Reset, ResetOk, ResetErr
<1>9. CASE SetAlgo(p)
  BY <1>9 DEF SetAlgo, CompOk, CompErr
<1>10. CASE SetSize(p)
  <2>1. CASE DisksizeLock(p, Zram0) /\ Goto(p, "alloc")
    <3>1. streams[Zram0] = NoStreams
      BY <2>1 DEF DisksizeLock, Unlocked, IdleWithoutStreams
    <3>2. QED
      BY <1>10, <2>1, <3>1 DEF SetSize, DisksizeLock, NoStreams
  <2>2. CASE Exit(p, "failed")
    BY <2>2
  <2>3. QED
    BY <1>10, <2>1, <2>2 DEF SetSize
<1>11. CASE AllocStreams(p)
  <2>1. CASE \E c \in Cpus : AllocStream(p, Zram0, c) /\ Goto(p, "alloc")
    <3>1. PICK c \in Cpus : AllocStream(p, Zram0, c) /\ Goto(p, "alloc")
      BY <2>1
    <3>2. /\ UNCHANGED <<comp, registered, swap, size, header, faulted, want,
                         tries>>
          /\ pc'[p] = "alloc" /\ pc[p] = "alloc"
      BY <1>11, <3>1 DEF AllocStreams, AllocStream, moduleVars
    <3>3. \A b \in Cpus : streams'[Zram0][b] \in
            {"none", Lookup(comp[Zram0])}
      BY <3>1, <3>2 DEF AllocStream
    <3>4. QED
      BY <3>2, <3>3 DEF Lookup
  <2>2. CASE Exit(p, "failed")
    BY <2>2
  <2>3. CASE DisksizeDone(p, Zram0, keep[p]) /\ Goto(p, "mkswap")
    <3>1. keep[p] # 0
      BY <1>11 DEF AllocStreams, RebuildReady
    <3>2. QED
      BY <1>11, <2>3, <3>1
         DEF AllocStreams, DisksizeDone, Lookup, moduleVars
  <2>4. QED
    BY <1>11, <2>1, <2>2, <2>3 DEF AllocStreams
<1>12. CASE Mkswap(p)
  BY <1>12 DEF Mkswap, MkswapOk, MkswapErr, Lookup, moduleVars
<1>13. CASE Swapon(p)
  BY <1>13 DEF Swapon, SwaponOk, SwaponErr, Lookup, moduleVars
<1>14. QED
  BY <1>1, <1>2, <1>3, <1>4, <1>5, <1>6, <1>7, <1>8, <1>9, <1>10, <1>11, <1>12,
     <1>13 DEF Step

\* A step of a shell that runs alone keeps what that shell has reached.
LEMMA SoloStep ==
  ASSUME Base, NEW p \in Procs, Alone(p), SoloFacts(p), Step(p)
  PROVE  SoloFacts(p)'
<1>1. CtlSolo(p)'
  BY CtlSoloStep, CtlSoloRest DEF SoloFacts, CtlAlone, Alone, Running
<1>2. QED
  BY <1>1, DriverSoloStep, DeviceSoloStep DEF SoloFacts

-----------------------------------------------------------------------------
(* A run that overlaps no other one runs alone. *)

\* A step of a shell moves no other shell.
LEMMA OthersStay ==
  ASSUME Base, NEW p \in Procs, Start(p) \/ Step(p), NEW q \in Procs \ {p}
  PROVE  /\ pc'[q] = pc[q] /\ at'[q] = at[q]
         /\ Step(p) => (q \in disturbed <=> q \in disturbed')
<1> USE DEF Base, IInv, ScriptInv, CtlTypeOK, ApplyTypeOK
<1>1. pc'[q] = pc[q]
  BY StepEffect DEF Effect
<1>2. at'[q] = at[q]
  <2>1. CASE RunCtl(p)
    BY <2>1 DEF RunCtl, CtlStep, CheckListed, Insmod, ModuleInit,
       ConfirmRegistered, Rmmod, CtlGoto, CtlExit, NextAlgo
  <2>2. CASE ~RunCtl(p)
    BY <2>2, CtlMoves DEF ctlVars, CtlStart, CtlReap
  <2>3. QED
    BY <2>1, <2>2
<1>3. Step(p) => UNCHANGED disturbed \/ disturbed' = disturbed \ {p}
  BY DEF Step, RunCtl, CheckReady, EnsureDriver, EnsureReturns, ReadAlgo,
     ReadRefcnt, SwapLoop, Swapoff, CheckSwap, ReadSize, Reset, SetAlgo,
     SetSize, AllocStreams, Mkswap, Swapon, Report, Return, Goto, Exit
<1>4. QED
  BY <1>1, <1>2, <1>3

\* The shell that steps keeps the invariant.
LEMMA SoloInvOwn ==
  ASSUME Base, SoloInv, NEW p \in Procs, Start(p) \/ Step(p),
         Running(p)', Solo(p)'
  PROVE  Alone(p)' /\ SoloFacts(p)'
<1>1. Alone(p) => Alone(p)'
  BY OthersStay DEF Alone, Running
<1>2. CASE Start(p)
  <2>1. Others(p) = {}
    BY <1>2 DEF Start, Apply, UserCtl, NoteOverlap, Solo
  <2>2. Alone(p)
    BY <2>1 DEF Others, Alone
  <2>3. QED
    BY <1>1, <1>2, <2>2, SoloStart
<1>3. CASE Step(p)
  <2>1. CASE Return(p)
    <3>1. pc'[p] = "idle" /\ at'[p] = "off"
      BY <2>1 DEF Return, CtlReap, Endings, Base, IInv, ScriptInv, CtlTypeOK,
         ApplyTypeOK, ScriptsApart, Apart, ctlVars
    <3>2. QED
      BY <3>1 DEF Running
  <2>2. CASE ~Return(p)
    <3>1. disturbed' = disturbed
      BY <1>3, <2>2
         DEF Step, RunCtl, CheckReady, EnsureDriver, EnsureReturns, ReadAlgo,
             ReadRefcnt, SwapLoop, Swapoff, CheckSwap, ReadSize, Reset, SetAlgo,
             SetSize, AllocStreams, Mkswap, Swapon, Report, Goto, Exit
    <3>2. Alone(p) /\ SoloFacts(p)
      BY <1>3, <3>1, StepRuns DEF SoloInv, Solo
    <3>3. QED
      BY <1>1, <1>3, <3>2, SoloStep
  <2>3. QED
    BY <2>1, <2>2
<1>4. QED
  BY <1>2, <1>3

\* A shell that does not step and overlaps nobody is not reached by the step.
LEMMA SoloInvOther ==
  ASSUME Base, SoloInv, NEW p \in Procs, Start(p) \/ Step(p),
         NEW q \in Procs \ {p}, Running(q)', Solo(q)'
  PROVE  FALSE
<1>1. Running(q)
  BY OthersStay DEF Running
<1>2. CASE Start(p)
  <2>1. q \in Others(p)
    BY <1>1 DEF Others
  <2>2. q \in disturbed'
    BY <1>2, <2>1 DEF Start, Apply, UserCtl, NoteOverlap
  <2>3. QED
    BY <2>2 DEF Solo
<1>3. CASE Step(p)
  <2>1. Solo(q)
    BY <1>3, OthersStay DEF Solo
  <2>2. ~Running(p)
    BY <1>1, <2>1 DEF SoloInv, Alone
  <2>3. QED
    BY <1>3, <2>2, StepRuns
<1>4. QED
  BY <1>2, <1>3

\* What a run that overlaps no other one may rely on, in every reachable state.
THEOREM SoloRunsAlone == Spec => []SoloInv
<1>1. Init => SoloInv
  BY DEF Init, CtlInit, ApplyInit, SoloInv, Running
<1>2. Base /\ SoloInv /\ [Next]_vars => SoloInv'
  <2> SUFFICES ASSUME Base, SoloInv, [Next]_vars PROVE SoloInv'
    OBVIOUS
  <2>1. CASE UNCHANGED vars
    BY <2>1 DEF SoloInv, Running, Solo, Alone, SoloFacts, CtlSolo, DriverSolo,
       DeviceSolo, Lookup, vars, kernelVars, ctlVars, applyVars
  <2>2. ASSUME NEW p \in Procs, Start(p) \/ Step(p) PROVE SoloInv'
    BY <2>2, SoloInvOwn, SoloInvOther DEF SoloInv
  <2>3. QED
    BY <2>1, <2>2 DEF Next
<1>3. QED
  BY <1>1, <1>2, BaseInv, PTL DEF Spec

-----------------------------------------------------------------------------
(* The promises. *)

\* Alone and without a failure, the swap is on unless the shell is rebuilding.
LEMMA AloneSwap ==
  ASSUME SwapSurvives, NEW p \in Procs, Alone(p), ~Restorer(p), ~faulted,
         Zram0 \in present
  PROVE  Zram0 \in swap
<1>1. \A q \in Procs \ {p} : ~Restorer(q)
  BY DEF Alone, Running, Restorer
<1>2. QED
  BY <1>1 DEF SwapSurvives

\* The ways an apply with a target ends, each from its own step.
LEMMA ExitSteps ==
  ASSUME Base, NEW p \in Procs, Start(p) \/ Step(p), Exits(p), want[p] \in Algos
  PROVE  \/ CheckReady(p) /\ pc'[p] = "failed"
         \/ ReadRefcnt(p) /\ pc'[p] = "kept"
         \/ /\ \/ CheckSwap(p) \/ Reset(p) \/ SetAlgo(p) \/ SetSize(p)
               \/ AllocStreams(p) \/ Mkswap(p) \/ Swapon(p)
            /\ pc'[p] = "failed"
         \/ Report(p)
<1> USE DEF Base, IInv, ScriptInv, ApplyTypeOK, ScriptsApart, Apart, Exits,
            Endings
<1>1. ASSUME NEW step, Goto(p, step) PROVE pc'[p] = step
  BY <1>1 DEF Goto
<1>2. ASSUME NEW ending, Exit(p, ending) PROVE pc'[p] = ending
  BY <1>2 DEF Exit
<1>3. ~Start(p)
  <2>1. ~(\E cmd \in {"load", "unload"} : UserCtl(p, cmd))
    BY DEF UserCtl, applyVars
  <2>2. \A algo : ~Apply(p, algo)
    BY DEF Apply, Running, Algos
  <2>3. QED
    BY <2>1, <2>2 DEF Start
<1>4. ~RunCtl(p) /\ ~Return(p)
  BY DEF RunCtl, applyVars, Return
<1>5. ~EnsureDriver(p) /\ ~EnsureReturns(p) /\ ~ReadAlgo(p)
  BY <1>1 DEF EnsureDriver, EnsureReturns, ReadAlgo
<1>6. ~SwapLoop(p) /\ ~Swapoff(p) /\ ~ReadSize(p)
  BY <1>1 DEF SwapLoop, Swapoff, ReadSize
<1>7. CASE CheckReady(p)
  BY <1>7, <1>1, <1>2 DEF CheckReady
<1>8. CASE ReadRefcnt(p)
  BY <1>8, <1>2 DEF ReadRefcnt
<1>9. CASE CheckSwap(p) \/ Reset(p) \/ SetAlgo(p) \/ SetSize(p)
  BY <1>9, <1>1, <1>2 DEF CheckSwap, Reset, SetAlgo, SetSize
<1>10. CASE AllocStreams(p) \/ Mkswap(p) \/ Swapon(p)
  BY <1>10, <1>1, <1>2 DEF AllocStreams, Mkswap, Swapon
<1>11. QED
  BY <1>3, <1>4, <1>5, <1>6, <1>7, <1>8, <1>9, <1>10 DEF Step

\* A step that reports "served" leaves the swap on with the new driver behind
\* every CPU.
LEMMA ServedStep ==
  ASSUME Base, NEW p \in Procs, SoloFacts(p), Start(p) \/ Step(p), Exits(p),
         NEW a \in Algos, want[p] = a, pc'[p] = "served"
  PROVE  (Zram0 \in swap /\ ServedByNew(Zram0, a))'
<1>1. Report(p)
  BY ExitSteps
<1>2. pc[p] = "report" /\ UNCHANGED kernelVars
  BY <1>1 DEF Report
<1>3. a \in registered
  BY <1>1 DEF Report, Exit, RefcntAboveOne, Base, IInv, ScriptInv, ApplyTypeOK
<1>4. comp[Zram0] = a /\ Zram0 \in swap
  BY <1>2 DEF SoloFacts, DeviceSolo, Built
<1>5. \A c \in Cpus : streams[Zram0][c] = "new"
  BY <1>2, <1>3, <1>4 DEF SoloFacts, DeviceSolo, Lookup
<1>6. QED
  BY <1>2, <1>4, <1>5 DEF ServedByNew, kernelVars

\* Without an outside failure, on a kernel that accepts both .ko files, an
\* apply that runs alone ends in success.
LEMMA SuccessStep ==
  ASSUME Base, SwapSurvives, NEW p \in Procs, Alone(p), SoloFacts(p),
         Start(p) \/ Step(p), Exits(p), NEW a \in Algos, want[p] = a,
         ~faulted', accepts = Algos, Zram0 \in present
  PROVE  /\ pc'[p] \in {"kept", "served"}
         /\ (Zram0 \in swap /\ comp[Zram0] = a /\ InUse(a))'
<1> USE DEF Base, IInv, ScriptInv, ApplyTypeOK
<1>1. ~faulted
  BY StepEffect DEF Effect
<1>2. ~(CheckReady(p) /\ pc'[p] = "failed")
  BY DEF CheckReady, Goto
<1>3. ~((CheckSwap(p) \/ Reset(p) \/ SetAlgo(p) \/ SetSize(p)
           \/ AllocStreams(p) \/ Mkswap(p) \/ Swapon(p)) /\ pc'[p] = "failed")
  <2> USE DEF SoloFacts, DeviceSolo, SwapOff, Goto
  <2>1. ASSUME Fault("reset") \/ Fault("comp") \/ Fault("disksize")
                \/ Fault("mkswap") \/ Fault("swapon")
        PROVE  FALSE
    BY <2>1 DEF Fault
  <2>2. ~(CheckSwap(p) /\ pc'[p] = "failed")
    BY <1>1 DEF CheckSwap
  <2>3. ~(Reset(p) /\ pc'[p] = "failed")
    BY <1>1, <2>1 DEF Reset, ResetErr
  <2>4. ~(SetAlgo(p) /\ pc'[p] = "failed")
    BY <1>1, <2>1 DEF SetAlgo, CompErr
  <2>5. ~(SetSize(p) /\ pc'[p] = "failed")
    BY <1>1, <2>1 DEF SetSize, DisksizeBusy
  <2>6. ~(AllocStreams(p) /\ pc'[p] = "failed")
    BY <1>1, <2>1 DEF AllocStreams, AllocErr
  <2>7. ~(Mkswap(p) /\ pc'[p] = "failed")
    BY <1>1, <2>1 DEF Mkswap, MkswapErr
  <2>8. ~(Swapon(p) /\ pc'[p] = "failed")
    BY <1>1, <2>1 DEF Swapon, SwaponErr, CanSwapon
  <2>9. QED
    BY <2>2, <2>3, <2>4, <2>5, <2>6, <2>7, <2>8
<1>4. CASE ReadRefcnt(p) /\ pc'[p] = "kept"
  <2>1. RefcntAboveOne(a) /\ UNCHANGED kernelVars /\ pc[p] = "refcnt"
    BY <1>4 DEF ReadRefcnt
  <2>2. ~Restorer(p)
    BY <2>1 DEF Restorer
  <2>3. Zram0 \in swap
    BY <1>1, <2>2, AloneSwap
  <2>4. comp[Zram0] = a
    BY <1>4, <2>1 DEF ReadRefcnt, SoloFacts, DeviceSolo, Exit
  <2>5. QED
    BY <1>4, <2>1, <2>3, <2>4 DEF RefcntAboveOne, InUse, kernelVars
<1>5. CASE Report(p)
  <2>1. pc[p] = "report" /\ UNCHANGED kernelVars
    BY <1>5 DEF Report
  <2>2. a \in registered
    BY <1>1, <2>1 DEF SoloFacts, DriverSolo, AfterEnsure, Steps, Endings
  <2>3. comp[Zram0] = a /\ Zram0 \in swap
    BY <2>1 DEF SoloFacts, DeviceSolo, Built
  <2>4. \A c \in Cpus : streams[Zram0][c] = "new"
    BY <2>1, <2>2, <2>3 DEF SoloFacts, DeviceSolo, Lookup
  <2>5. InUse(a)
    BY <2>3, <2>4, CpusAssumption, DevsAssumption DEF InUse
  <2>6. pc'[p] = "served"
    BY <1>5, <2>2, <2>5 DEF Report, Exit, RefcntAboveOne
  <2>7. QED
    BY <2>1, <2>3, <2>5, <2>6 DEF InUse, kernelVars
<1>6. QED
  BY <1>2, <1>3, <1>4, <1>5, ExitSteps

\* Only the shell that steps can exit, and one with a target was running.
LEMMA WhoExits ==
  ASSUME Base, SoloInv, NEW q \in Procs, Start(q) \/ Step(q),
         NEW p \in Procs, Exits(p), want[p] \in Algos, Solo(p)
  PROVE  p = q /\ Alone(p) /\ SoloFacts(p)
<1>1. p = q
  BY OthersStay DEF Exits
<1>2. Running(p)
  BY DEF Base, ScriptsApart, Apart, Running, Algos
<1>3. QED
  BY <1>1, <1>2 DEF SoloInv

\* An apply that overlaps no other script and says that the new driver serves
\* zram0 is right: every CPU uses it, and the swap is on.
THEOREM ServedIsTrue == Spec => ServedMeansNew
<1>1. ASSUME Base, SoloInv, [Next]_vars,
             NEW p \in Procs, NEW a \in Algos,
             Exits(p), Solo(p), want[p] = a, pc'[p] = "served"
      PROVE  (Zram0 \in swap /\ ServedByNew(Zram0, a))'
  <2>1. PICK q \in Procs : Start(q) \/ Step(q)
    BY <1>1 DEF Next, Exits, vars, applyVars
  <2>2. p = q /\ SoloFacts(p)
    BY <1>1, <2>1, WhoExits
  <2>3. QED
    BY <1>1, <2>1, <2>2, ServedStep
<1>2. Base /\ SoloInv /\ [Next]_vars =>
        [\A p \in Procs, a \in Algos :
           Exits(p) /\ Solo(p) /\ want[p] = a /\ pc'[p] = "served" =>
             (Zram0 \in swap /\ ServedByNew(Zram0, a))']_vars
  BY <1>1
<1>3. QED
  BY <1>2, BaseInv, SoloRunsAlone, PTL DEF Spec, ServedMeansNew

\* An apply without overlap and without an outside failure reaches the new
\* driver and leaves the swap on, whenever the kernel accepts both .ko files.
THEOREM SoloApplyIsGood == Spec => SoloApplySucceeds
<1>1. ASSUME Base, SoloInv, SwapSurvives, [Next]_vars,
             NEW p \in Procs, NEW a \in Algos,
             Exits(p), want[p] = a, Solo(p),
             ~faulted', accepts = Algos, Zram0 \in present
      PROVE  pc'[p] \in {"kept", "served"} /\ (Zram0 \in swap /\ InUse(a))'
  <2>1. PICK q \in Procs : Start(q) \/ Step(q)
    BY <1>1 DEF Next, Exits, vars, applyVars
  <2>2. p = q /\ Alone(p) /\ SoloFacts(p)
    BY <1>1, <2>1, WhoExits
  <2>3. QED
    BY <1>1, <2>1, <2>2, SuccessStep
<1>2. Base /\ SoloInv /\ SwapSurvives /\ [Next]_vars =>
        [\A p \in Procs, a \in Algos :
         Exits(p) /\ want[p] = a /\ Solo(p)
             /\ ~faulted' /\ accepts = Algos /\ Zram0 \in present =>
           pc'[p] \in {"kept", "served"} /\ (Zram0 \in swap /\ InUse(a))']_vars
  BY <1>1
<1>3. QED
  BY <1>2, BaseInv, SoloRunsAlone, SwapIsKept, PTL DEF Spec, SoloApplySucceeds

\* An exit 0 of an undisturbed load means both drivers are registered, of an
\* undisturbed unload that both modules are gone.
THEOREM CtlExitIsHonest == Spec => CtlExitHonest
<1>1. ASSUME Base, SoloInv, SoloInv', [Next]_vars,
             NEW p \in Procs, at[p] # "ok", at'[p] = "ok", Solo(p)
      PROVE  IF op[p] = "load" THEN Algos \subseteq registered'
                               ELSE listed' = {}
  <2>1. PICK q \in Procs : Start(q) \/ Step(q)
    BY <1>1 DEF Next, vars, ctlVars
  <2>2. p = q
    BY <1>1, <2>1, OthersStay
  <2>3. RunCtl(p)
    <3>1. ~UNCHANGED ctlVars /\ ~CtlReap(p)
      BY <1>1 DEF ctlVars, CtlReap, Base, IInv, ScriptInv, CtlTypeOK
    <3>2. ~(\E cmd \in {"load", "unload"} : CtlStart(p, cmd))
      BY <1>1 DEF CtlStart, Base, IInv, ScriptInv, CtlTypeOK
    <3>3. QED
      BY <2>1, <2>2, <3>1, <3>2, CtlMoves
  <2>4. Solo(p)' /\ Running(p)' /\ op'[p] = op[p]
    BY <1>1, <2>3 DEF RunCtl, Solo, Running, CtlStep, CheckListed, Insmod,
       ModuleInit, ConfirmRegistered, Rmmod, CtlGoto, CtlExit, NextAlgo
  <2>5. CtlSolo(p)'
    BY <1>1, <2>4 DEF SoloInv, SoloFacts
  <2>6. QED
    BY <1>1, <2>4, <2>5 DEF CtlSolo
<1>2. Base /\ SoloInv /\ SoloInv' /\ [Next]_vars =>
        [\A p \in Procs :
           at[p] # "ok" /\ at'[p] = "ok" /\ Solo(p) =>
             IF op[p] = "load" THEN Algos \subseteq registered'
                               ELSE listed' = {}]_vars
  BY <1>1
<1>3. QED
  BY <1>2, BaseInv, SoloRunsAlone, PTL DEF Spec, CtlExitHonest
=============================================================================
