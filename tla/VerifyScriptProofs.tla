-------------------------- MODULE VerifyScriptProofs --------------------------
(***************************************************************************)
(* Proofs about VerifyScript, for every set of shells, of CPUs and of       *)
(* devices, every set of possible failures and every set of accepted .ko    *)
(* files.  A step of a shell is a step of ZramAlgo and a test of verify.sh  *)
(* is made of the same system calls, so both rest on the lemmas there.      *)
(***************************************************************************)
EXTENDS VerifyScript, ZramAlgoProofs, FiniteSetTheorems

-----------------------------------------------------------------------------
(* The script and its device. *)

VerifyTypeOK ==
  /\ vpc \in VerifySteps /\ test \in Algos /\ pass \in BOOLEAN
  /\ before \in [Algos -> Nat] /\ file \in FileValues
  /\ enabled \in BOOLEAN /\ control \in BOOLEAN
  /\ hit \subseteq Algos /\ met \subseteq Procs

\* The verifier runs no other script.
VerifierOnly == pc[Verifier] = "idle" /\ at[Verifier] = "off"

\* From hot_add to hot_remove.
TestSteps == {"comp", "disksize", "alloc", "after", "reset", "hot_remove"}

\* The temporary device is there only while it is tested, or when a call has
\* failed; it never becomes swap, nobody but verify.sh locks it, and only in
\* the allocation, and when it is gone nothing is left of it.
TempInv ==
  /\ vpc \in TestSteps => Temp \in present
  /\ Temp \in present => \/ vpc \in TestSteps
                         \/ faulted /\ vpc \in {"zram0", "PASS", "FAIL", "off"}
  /\ Temp \notin swap
  /\ vpc = "alloc" => lock[Temp] = Verifier
  /\ vpc # "alloc" => lock[Temp] = NoProc
  /\ Temp \notin present => size[Temp] = 0

VerifyBase == IInv /\ VerifyTypeOK /\ VerifierOnly /\ TempInv

-----------------------------------------------------------------------------
(* A run that overlaps no other. *)

Quiet == Verifier \notin met /\ Verifying
ShellsAtRest == Quiet => \A p \in Shells : ~Running(p)

\* The streams of the new driver of a on the devices D.
NewStreams(D, a) ==
  {s \in D \X Cpus : comp[s[1]] = a /\ streams[s[1]][s[2]] = "new"}

\* What before_z and before_l say: everything but the temporary device.
CountBefore(a) ==
  IF a \in registered THEN 1 + Cardinality(NewStreams(Devs \ {Temp}, a)) ELSE 0
BeforeKnown ==
  Quiet =>
    /\ vpc = "before" /\ test = "lz4" => before["zstd"] = CountBefore("zstd")
    /\ vpc \in TestSteps \cup {"hot_add"} =>
         \A a \in Algos : before[a] = CountBefore(a)

\* All streams of the temporary device come from the same lookup.
Uniform ==
  Quiet /\ vpc \in TestSteps =>
    \A c \in Cpus : streams[Temp][c] \in {"none", Lookup(comp[Temp])}

\* Without a failure the device under test is as far as the test is.
TestReady ==
  Quiet /\ ~faulted =>
    /\ vpc = "comp" => size[Temp] = 0
    /\ vpc = "disksize" => size[Temp] = 0 /\ comp[Temp] = test
    /\ vpc = "alloc" => comp[Temp] = test
    /\ vpc = "after" => size[Temp] # 0 /\ comp[Temp] = test

\* The tests that are over, and what pass says about them.
Tested ==
  IF vpc \in {"hot_remove", "zram0"} THEN Algos
  ELSE IF vpc = "reset" THEN (IF test = "zstd" THEN {"zstd"} ELSE Algos)
  ELSE IF vpc \in TestSteps /\ test = "lz4" THEN {"zstd"} ELSE {}
PassTrue ==
  Quiet =>
    /\ vpc \in TestSteps \cup {"zram0"} /\ pass => Tested \subseteq hit
    /\ vpc \in TestSteps \cup {"crypto", "before", "hot_add", "zram0"}
         /\ ~faulted /\ registered = Algos => pass
    /\ vpc = "hot_add" => test = "zstd"

QuietInv == ShellsAtRest /\ BeforeKnown /\ Uniform /\ TestReady /\ PassTrue
VerifyInv == VerifyBase /\ QuietInv

\* Every script is at rest, the device does not exist, nothing has been said.
LEMMA VerifyInitInv == VerifyInit => VerifyInv
<1> SUFFICES ASSUME VerifyInit PROVE VerifyInv
  OBVIOUS
<1> USE VerifierAssumption DEF VerifyInit
<1>1. IInv
  BY KernelInitInv, ScriptInitInv DEF IInv
<1>2. VerifyTypeOK
  BY DEF VerifyTypeOK, VerifySteps, Verdicts, Algos
<1>3. VerifierOnly
  BY DEF Init, CtlInit, ApplyInit, VerifierOnly
<1>4. TempInv
  BY DEF Init, KernelInit, ZramInit, Absent, TempInv, TestSteps
<1>5. QuietInv
  BY DEF QuietInv, ShellsAtRest, BeforeKnown, Uniform, TestReady, PassTrue,
     Quiet, Verifying
<1>6. QED
  BY <1>1, <1>2, <1>3, <1>4, <1>5 DEF VerifyInv, VerifyBase

-----------------------------------------------------------------------------
(* The shells. *)

\* A shell touches neither the temporary device nor the verifier.
LEMMA ShellKeepsTemp ==
  ASSUME VerifyBase, NEW p \in Shells, Start(p) \/ Step(p)
  PROVE  /\ IInv' /\ VerifierOnly'
         /\ present' = present /\ (Temp \in swap' <=> Temp \in swap)
         /\ comp'[Temp] = comp[Temp] /\ size'[Temp] = size[Temp]
         /\ streams'[Temp] = streams[Temp] /\ lock'[Temp] = lock[Temp]
         /\ faulted => faulted'
<1> USE VerifierAssumption, DevsAssumption
    DEF VerifyBase, IInv, KernelInv, KernelTypeOK, ScriptInv, CtlTypeOK, ApplyTypeOK,
        Shells
<1>1. IInv' /\ present' = present
  BY StepInv, StepIsKernelStep, PresentConstant DEF Next
<1>2. VerifierOnly' /\ (faulted => faulted')
  <2>1. pc'[Verifier] = pc[Verifier] /\ (faulted => faulted')
    BY StepEffect DEF Effect
  <2>2. at'[Verifier] = at[Verifier]
    <3>1. CASE RunCtl(p)
      BY <3>1 DEF RunCtl, CtlStep, CheckListed, Insmod, ModuleInit,
         ConfirmRegistered, Rmmod, NextAlgo, CtlGoto, CtlExit
    <3>2. CASE ~RunCtl(p)
      BY <3>2 DEF Start, Step, Apply, UserCtl, CtlStart, CtlReap, CheckReady,
         EnsureDriver, EnsureReturns, ReadAlgo, ReadRefcnt, SwapLoop, Swapoff,
         CheckSwap, ReadSize, Reset, SetAlgo, SetSize, AllocStreams, Mkswap,
         Swapon, Report, Return, ctlVars
    <3>3. QED
      BY <3>1, <3>2
  <2>3. QED
    BY <2>1, <2>2 DEF VerifierOnly
<1>3. /\ Temp \in swap' <=> Temp \in swap
      /\ comp'[Temp] = comp[Temp] /\ size'[Temp] = size[Temp]
      /\ streams'[Temp] = streams[Temp] /\ lock'[Temp] = lock[Temp]
  <2>1. CASE Start(p)
    BY <2>1 DEF Start, Apply, UserCtl, kernelVars
  <2>2. CASE RunCtl(p)
    BY <2>2 DEF RunCtl, CtlStep, CheckListed, Insmod, ModuleInit,
       ConfirmRegistered, Rmmod, InsmodBegin, InsmodErr, InsmodRegister, RmmodOk,
       RmmodErr, zramVars, kernelVars
  <2>3. CASE CheckReady(p) \/ EnsureDriver(p) \/ EnsureReturns(p) \/ ReadAlgo(p)
             \/ ReadRefcnt(p) \/ Report(p) \/ Return(p) \/ SwapLoop(p)
             \/ CheckSwap(p) \/ ReadSize(p)
    BY <2>3 DEF CheckReady, EnsureDriver, EnsureReturns, ReadAlgo, ReadRefcnt,
       Report, Return, SwapLoop, CheckSwap, ReadSize, kernelVars
  <2>4. CASE Swapoff(p) \/ Mkswap(p) \/ Swapon(p)
    BY <2>4 DEF Swapoff, Mkswap, Swapon, SwapoffOk, SwapoffErr, MkswapOk,
       MkswapErr, SwaponOk, SwaponErr, zramVars
  <2>5. CASE Reset(p) \/ SetAlgo(p) \/ SetSize(p)
    BY <2>5 DEF Reset, SetAlgo, SetSize, ResetOk, ResetErr, CompOk, CompErr,
       DisksizeLock, DisksizeBusy, zramVars, kernelVars
  <2>6. CASE AllocStreams(p)
    BY <2>6 DEF AllocStreams, AllocStream, AllocErr, DisksizeDone, zramVars
  <2>7. QED
    BY <2>1, <2>2, <2>3, <2>4, <2>5, <2>6 DEF Step
<1>4. QED
  BY <1>1, <1>2, <1>3

\* A step of a shell keeps the invariant; a run of verify.sh that it overlaps
\* is not judged.
LEMMA ShellStepInv == VerifyInv /\ ShellStep => VerifyInv'
<1> SUFFICES ASSUME VerifyInv, NEW p \in Shells,
               \/ Start(p) /\ met' = IF Verifying THEN met \cup {p, Verifier}
                                                  ELSE met \ {p}
               \/ Step(p) /\ UNCHANGED met,
               UNCHANGED <<vpc, test, pass, before, file, enabled, control, hit>>
             PROVE  VerifyInv'
  BY DEF ShellStep
<1>1. VerifyBase
  BY DEF VerifyInv
<1>2. IInv' /\ VerifierOnly'
  BY <1>1, ShellKeepsTemp
<1>3. VerifyTypeOK'
  BY <1>1, VerifierAssumption DEF VerifyBase, VerifyTypeOK, Shells
<1>4. TempInv'
  BY <1>1, ShellKeepsTemp DEF VerifyBase, TempInv
<1>5. ~Quiet'
  <2>1. CASE met' = IF Verifying THEN met \cup {p, Verifier} ELSE met \ {p}
    BY <2>1 DEF Quiet, Verifying
  <2>2. CASE Step(p) /\ UNCHANGED met
    BY <2>2, StepRuns DEF VerifyInv, QuietInv, ShellsAtRest, Quiet, Verifying,
       Shells
  <2>3. QED
    BY <2>1, <2>2
<1>6. QuietInv'
  BY <1>5 DEF QuietInv, ShellsAtRest, BeforeKnown, Uniform, TestReady, PassTrue
<1>7. QED
  BY <1>2, <1>3, <1>4, <1>6 DEF VerifyInv, VerifyBase

-----------------------------------------------------------------------------
(* verify.sh: steps that leave the kernel alone. *)

\* The counts before the test depend on the other devices only.
LEMMA CountKept ==
  ASSUME UNCHANGED registered,
         \A d \in Devs \ {Temp} : comp'[d] = comp[d] /\ streams'[d] = streams[d]
  PROVE  \A a \in Algos : CountBefore(a)' = CountBefore(a)
<1>1. \A a \in Algos :
        NewStreams(Devs \ {Temp}, a)' = NewStreams(Devs \ {Temp}, a)
  BY DEF NewStreams
<1>2. QED
  BY <1>1 DEF CountBefore

\* What the script's own steps leave alone.
LEMMA QuietKernel ==
  ASSUME VerifyBase, UNCHANGED vars
  PROVE  IInv' /\ VerifierOnly' /\ (\A a \in Algos : CountBefore(a)' = CountBefore(a))
<1>1. IInv'
  BY StepInv DEF VerifyBase
<1>2. VerifierOnly'
  BY DEF VerifyBase, VerifierOnly, vars, applyVars, ctlVars
<1>3. \A a \in Algos : CountBefore(a)' = CountBefore(a)
  BY CountKept DEF vars, kernelVars
<1>4. QED
  BY <1>1, <1>2, <1>3

\* The refcnt while the temporary device has no stream of the driver.
LEMMA RefcntWithoutTemp ==
  ASSUME NEW a \in Algos,
         \A c \in Cpus : ~(comp[Temp] = a /\ streams[Temp][c] = "new")
  PROVE  Refcnt(a) = CountBefore(a)
<1>1. {s \in Devs \X Cpus : comp[s[1]] = a /\ streams[s[1]][s[2]] = "new"}
        = NewStreams(Devs \ {Temp}, a)
  <2>1. ASSUME NEW s \in Devs \X Cpus, comp[s[1]] = a,
               streams[s[1]][s[2]] = "new"
        PROVE  s \in (Devs \ {Temp}) \X Cpus
    BY <2>1
  <2>2. QED
    BY <2>1 DEF NewStreams
<1>2. QED
  BY <1>1 DEF Refcnt, CountBefore

\* Both counts are finite; a stream of the driver on the temporary device
\* makes the refcnt the greater one.
LEMMA RefcntGrows ==
  ASSUME NEW a \in Algos
  PROVE  /\ Refcnt(a) \in Nat /\ CountBefore(a) \in Nat
         /\ a \in registered => CountBefore(a) # 0
         /\ a \in registered /\ ServedByNew(Temp, a) =>
              Refcnt(a) > CountBefore(a)
<1> DEFINE S == NewStreams(Devs, a)
           T == NewStreams(Devs \ {Temp}, a)
<1>1. IsFiniteSet(Devs \X Cpus)
  BY DevsAssumption, CpusAssumption, FS_Product
<1>2. S \in SUBSET (Devs \X Cpus) /\ T \in SUBSET S
  BY DEF NewStreams
<1>3. IsFiniteSet(S)
  BY <1>1, <1>2, FS_Subset
<1>4. /\ IsFiniteSet(T) /\ Cardinality(T) <= Cardinality(S)
      /\ Cardinality(S) = Cardinality(T) => S = T
  BY <1>2, <1>3, FS_Subset
<1>5. Cardinality(S) \in Nat /\ Cardinality(T) \in Nat
  BY <1>3, <1>4, FS_CardinalityType
<1>6. /\ Refcnt(a) = IF a \in registered THEN 1 + Cardinality(S) ELSE 0
      /\ CountBefore(a) = IF a \in registered THEN 1 + Cardinality(T) ELSE 0
  BY DEF Refcnt, CountBefore, NewStreams
<1>7. ServedByNew(Temp, a) => S # T
  <2> SUFFICES ASSUME ServedByNew(Temp, a) PROVE S # T
    OBVIOUS
  <2>1. PICK c \in Cpus : TRUE
    BY CpusAssumption
  <2>2. <<Temp, c>> \in S
    BY VerifierAssumption, <2>1 DEF NewStreams, ServedByNew
  <2>3. <<Temp, c>> \notin T
    BY DEF NewStreams
  <2>4. QED
    BY <2>2, <2>3
<1> HIDE DEF S, T
<1>8. QED
  BY <1>4, <1>5, <1>6, <1>7

\* The start: a shell that runs already spoils the run.
LEMMA StartInv == VerifyInv /\ VerifyStart => VerifyInv'
<1> SUFFICES ASSUME VerifyInv, VerifyStart PROVE VerifyInv'
  OBVIOUS
<1> USE DEF VerifyInv, VerifyBase, VerifyStart, At
<1>1. IInv' /\ VerifierOnly'
  BY QuietKernel
<1>2. VerifyTypeOK'
  <2>1. pass' \in BOOLEAN /\ enabled' \in BOOLEAN /\ control' \in BOOLEAN
    BY Zenon DEF VerifyTypeOK
  <2>2. QED
    BY <2>1, VerifierAssumption DEF VerifyTypeOK, VerifySteps, Verdicts, Algos,
       Shells
<1>3. TempInv'
  BY DEF TempInv, TestSteps, vars, kernelVars
<1>4. ShellsAtRest'
  BY DEF ShellsAtRest, Quiet, Running, vars, applyVars, ctlVars
<1>5. BeforeKnown' /\ Uniform' /\ TestReady' /\ PassTrue'
  BY DEF BeforeKnown, Uniform, TestReady, PassTrue, TestSteps, Tested
<1>6. QED
  BY <1>1, <1>2, <1>3, <1>4, <1>5 DEF QuietInv

\* Step 2 of the script.
LEMMA CryptoInv == VerifyInv /\ CheckCrypto => VerifyInv'
<1> SUFFICES ASSUME VerifyInv, CheckCrypto PROVE VerifyInv'
  OBVIOUS
<1> USE DEF VerifyInv, VerifyBase, CheckCrypto, At
<1>1. IInv' /\ VerifierOnly'
  BY QuietKernel
<1>2. VerifyTypeOK'
  <2>1. pass' \in BOOLEAN
    BY Zenon DEF VerifyTypeOK
  <2>2. QED
    BY <2>1 DEF VerifyTypeOK, VerifySteps, Verdicts, Algos
<1>3. TempInv'
  BY DEF TempInv, TestSteps, vars, kernelVars
<1>4. ShellsAtRest'
  BY DEF QuietInv, ShellsAtRest, Quiet, Verifying, Running, vars, applyVars,
     ctlVars
<1>5. BeforeKnown' /\ Uniform' /\ TestReady'
  BY DEF BeforeKnown, Uniform, TestReady, TestSteps
<1>6. PassTrue'
  BY DEF QuietInv, PassTrue, Quiet, Verifying, TestSteps, Tested, Algos, vars,
     kernelVars
<1>7. QED
  BY <1>1, <1>2, <1>3, <1>4, <1>5, <1>6 DEF QuietInv

\* before_z and before_l are the refcnts without the temporary device.
LEMMA BeforeInv == VerifyInv /\ ReadBefore => VerifyInv'
<1> SUFFICES ASSUME VerifyInv, ReadBefore PROVE VerifyInv'
  OBVIOUS
<1> USE DEF VerifyInv, VerifyBase, ReadBefore, At
<1>1. IInv' /\ VerifierOnly' /\ (\A a \in Algos : CountBefore(a)' = CountBefore(a))
  BY QuietKernel
<1>2. test \in Algos /\ Refcnt(test) \in Nat
  BY RefcntGrows DEF VerifyTypeOK
<1>3. VerifyTypeOK'
  BY <1>2 DEF VerifyTypeOK, VerifySteps, Verdicts, Algos
<1>4. TempInv'
  BY DEF TempInv, TestSteps, vars, kernelVars
<1>5. Refcnt(test) = CountBefore(test)
  <2>1. Temp \notin present /\ size[Temp] = 0 /\ lock[Temp] = NoProc
    BY DEF TempInv, TestSteps
  <2>2. streams[Temp] = NoStreams
    BY <2>1, VerifierAssumption DEF IInv, KernelInv, IdleWithoutStreams
  <2>3. QED
    BY <1>2, <2>2, RefcntWithoutTemp DEF NoStreams
<1>6. ShellsAtRest'
  BY DEF QuietInv, ShellsAtRest, Quiet, Verifying, Running, vars, applyVars,
     ctlVars
<1>7. BeforeKnown'
  BY <1>1, <1>2, <1>5 DEF VerifyTypeOK, QuietInv, BeforeKnown, Quiet, Verifying,
     TestSteps, Algos
<1>8. Uniform' /\ TestReady'
  BY DEF Uniform, TestReady, TestSteps
<1>9. PassTrue'
  BY DEF QuietInv, PassTrue, Quiet, Verifying, TestSteps, Tested, Algos, vars,
     kernelVars
<1>10. QED
  BY <1>1, <1>3, <1>4, <1>6, <1>7, <1>8, <1>9 DEF QuietInv

\* Step 5, the verdict and the exit.
LEMMA VerdictInv == VerifyInv /\ (CheckZram0 \/ VerifyReturn) => VerifyInv'
<1> SUFFICES ASSUME VerifyInv, CheckZram0 \/ VerifyReturn PROVE VerifyInv'
  OBVIOUS
<1> USE DEF VerifyInv, VerifyBase, CheckZram0, VerifyReturn, At
<1>1. IInv' /\ VerifierOnly'
  BY QuietKernel
<1>2. VerifyTypeOK'
  <2>1. pass' \in BOOLEAN
    BY Zenon DEF VerifyTypeOK
  <2>2. QED
    BY <2>1 DEF VerifyTypeOK, VerifySteps, Verdicts
<1>3. TempInv'
  BY DEF TempInv, TestSteps, Verdicts, vars, kernelVars
<1>4. ShellsAtRest'
  BY DEF QuietInv, ShellsAtRest, Quiet, Verifying, Running, vars, applyVars,
     ctlVars
<1>5. BeforeKnown' /\ Uniform' /\ TestReady' /\ PassTrue'
  BY DEF BeforeKnown, Uniform, TestReady, PassTrue, TestSteps, Quiet, Verifying
<1>6. QED
  BY <1>1, <1>2, <1>3, <1>4, <1>5 DEF QuietInv

-----------------------------------------------------------------------------
(* verify.sh: steps that make a system call. *)

\* What a call of verify.sh must leave alone for the shells.
LEMMA TestKeepsScripts ==
  ASSUME VerifyBase, KernelInv', UNCHANGED <<moduleVars, ctlVars, applyVars, disturbed>>,
         Zram0 \in present => Zram0 \in present'
  PROVE  IInv' /\ VerifierOnly'
BY DEF VerifyBase, IInv, ScriptInv, CtlTypeOK, ApplyTypeOK, InitPending, ReadyPresent,
   RebuildReady, VerifierOnly, moduleVars, ctlVars, applyVars

\* While the shells rest they stay at rest.
LEMMA RestKept ==
  ASSUME ShellsAtRest, Quiet' => Quiet, UNCHANGED <<ctlVars, applyVars>>
  PROVE  ShellsAtRest'
BY DEF ShellsAtRest, Running, ctlVars, applyVars

\* A device that is locked or whose size is 0 is no swap; only the temporary
\* device is locked by verify.sh.
LEMMA TempUnlocked ==
  ASSUME VerifyBase, vpc # "alloc"
  PROVE  Unlocked(Temp) /\ Temp \in Devs
BY VerifierAssumption DEF VerifyBase, TempInv, Unlocked

\* The device that hot_add creates, the temporary one or a new zram0.
LEMMA HotAddInv == VerifyInv /\ HotAdd => VerifyInv'
<1> SUFFICES ASSUME VerifyInv, HotAdd PROVE VerifyInv'
  OBVIOUS
<1> USE VerifierAssumption, DevsAssumption
    DEF VerifyInv, VerifyBase, HotAdd, At, Continue, Fault
<1>1. KernelInv'
  BY DEF IInv, KernelInv, KernelTypeOK, LockedUninitialised,
     IdleWithoutStreams, InitialisedComplete, SwapBacked, StreamsRegistered,
     RegisteredListed, moduleVars
<1>2. IInv' /\ VerifierOnly'
  BY <1>1, TestKeepsScripts
<1>3. VerifyTypeOK'
  BY DEF VerifyTypeOK, VerifySteps, Verdicts
<1>4. TempInv'
  BY DEF TempInv, TestSteps
<1>5. ShellsAtRest'
  BY RestKept DEF QuietInv, Quiet, Verifying
<1>6. BeforeKnown'
  BY CountKept DEF QuietInv, BeforeKnown, Quiet, Verifying, TestSteps, moduleVars
<1>7. Uniform'
  <2>1. Temp \notin present /\ size[Temp] = 0 /\ lock[Temp] = NoProc
    BY DEF TempInv, TestSteps
  <2>2. streams[Temp] = NoStreams
    BY <2>1 DEF IInv, KernelInv, IdleWithoutStreams
  <2>3. QED
    BY <2>2 DEF Uniform, NoStreams
<1>8. TestReady'
  BY DEF TestReady, TempInv, TestSteps
<1>9. PassTrue'
  BY DEF QuietInv, PassTrue, Quiet, Verifying, TestSteps, Tested, moduleVars
<1>10. QED
  BY <1>2, <1>3, <1>4, <1>5, <1>6, <1>7, <1>8, <1>9 DEF QuietInv

\* Selecting the algorithm.
LEMMA CompInv == VerifyInv /\ TestComp => VerifyInv'
<1> SUFFICES ASSUME VerifyInv, TestComp PROVE VerifyInv'
  OBVIOUS
<1> USE VerifierAssumption, DevsAssumption
    DEF VerifyInv, VerifyBase, TestComp, At, Continue, Fails
<1>0. /\ CompOk(Temp, test) \/ CompErr(Temp)
      /\ Temp \in Devs /\ test \in Algos
  BY DEF VerifyTypeOK
<1>1. KernelInv'
  BY <1>0, DeviceCallInv DEF IInv, DeviceCall
<1>2. IInv' /\ VerifierOnly'
  BY <1>0, <1>1, TestKeepsScripts DEF CompOk, CompErr, zramVars, moduleVars
<1>3. VerifyTypeOK'
  BY DEF VerifyTypeOK, VerifySteps, Verdicts
<1>4. TempInv'
  BY DEF TempInv, TestSteps, CompOk, CompErr, zramVars, moduleVars
<1>5. ShellsAtRest'
  BY RestKept DEF QuietInv, Quiet, Verifying
<1>6. BeforeKnown'
  <2>1. /\ UNCHANGED registered
        /\ \A d \in Devs \ {Temp} : comp'[d] = comp[d] /\ streams'[d] = streams[d]
    BY DEF CompOk, CompErr, zramVars, moduleVars, IInv, KernelInv, KernelTypeOK
  <2>2. \A a \in Algos : CountBefore(a)' = CountBefore(a)
    BY <2>1, CountKept
  <2>3. QED
    BY <2>2 DEF QuietInv, BeforeKnown, Quiet, Verifying, TestSteps
<1>7. Uniform'
  <2>1. CASE CompOk(Temp, test)
    <3>1. size[Temp] = 0 /\ lock[Temp] = NoProc /\ UNCHANGED streams
      BY <2>1 DEF CompOk, Unlocked
    <3>2. streams'[Temp] = NoStreams
      BY <3>1 DEF IInv, KernelInv, IdleWithoutStreams
    <3>3. QED
      BY <3>2 DEF Uniform, NoStreams
  <2>2. CASE CompErr(Temp)
    BY <2>2 DEF CompErr, zramVars, moduleVars, QuietInv, Uniform, Quiet,
       Verifying, TestSteps, Lookup
  <2>3. QED
    BY <1>0, <2>1, <2>2
<1>8. TestReady'
  BY DEF QuietInv, TestReady, Quiet, Verifying, CompOk, CompErr, Fault, zramVars,
     moduleVars, IInv, KernelInv, KernelTypeOK
<1>9. PassTrue'
  BY DEF QuietInv, PassTrue, TestReady, Quiet, Verifying, TestSteps, Tested,
     CompOk, CompErr, Fault, moduleVars, IInv, KernelInv, KernelTypeOK
<1>10. QED
  BY <1>2, <1>3, <1>4, <1>5, <1>6, <1>7, <1>8, <1>9 DEF QuietInv

\* The start of the write to disksize.
LEMMA SizeInv == VerifyInv /\ TestSize => VerifyInv'
<1> SUFFICES ASSUME VerifyInv, TestSize PROVE VerifyInv'
  OBVIOUS
<1> USE VerifierAssumption, DevsAssumption
    DEF VerifyInv, VerifyBase, TestSize, At, Continue
<1>0. /\ DisksizeLock(Verifier, Temp) \/ DisksizeBusy(Temp)
      /\ Temp \in Devs /\ Verifier \in Procs
  OBVIOUS
<1>1. KernelInv'
  BY <1>0, DeviceCallInv DEF IInv, DeviceCall
<1>2. IInv' /\ VerifierOnly'
  BY <1>0, <1>1, TestKeepsScripts DEF DisksizeLock, DisksizeBusy, kernelVars,
     moduleVars
<1>3. VerifyTypeOK'
  BY DEF VerifyTypeOK, VerifySteps, Verdicts
<1>4. TempInv'
  BY DEF TempInv, TestSteps, DisksizeLock, DisksizeBusy, kernelVars, IInv,
     KernelInv, KernelTypeOK
<1>5. ShellsAtRest'
  BY RestKept DEF QuietInv, Quiet, Verifying
<1>6. UNCHANGED <<registered, comp, size, streams, faulted>>
  BY DEF DisksizeLock, DisksizeBusy, kernelVars, moduleVars
<1>7. BeforeKnown'
  BY <1>6, CountKept DEF QuietInv, BeforeKnown, Quiet, Verifying, TestSteps
<1>8. Uniform'
  BY <1>6 DEF QuietInv, Uniform, Quiet, Verifying, TestSteps, Lookup
<1>9. TestReady'
  BY <1>6 DEF QuietInv, TestReady, Quiet, Verifying, DisksizeBusy, DisksizeLock
<1>10. PassTrue'
  BY <1>6 DEF QuietInv, PassTrue, Quiet, Verifying, TestSteps, Tested
<1>11. QED
  BY <1>2, <1>3, <1>4, <1>5, <1>7, <1>8, <1>9, <1>10 DEF QuietInv

\* The allocation, one CPU after the other, and its two ends.
LEMMA AllocInv == VerifyInv /\ TestAlloc => VerifyInv'
<1> SUFFICES ASSUME VerifyInv, TestAlloc PROVE VerifyInv'
  OBVIOUS
<1> USE VerifierAssumption, DevsAssumption
    DEF VerifyInv, VerifyBase, TestAlloc, At, Continue
<1>0. /\ \/ (\E c \in Cpus : AllocStream(Verifier, Temp, c)) /\ vpc' = "alloc"
         \/ AllocErr(Verifier, Temp) /\ vpc' = "after"
         \/ DisksizeDone(Verifier, Temp, StockSize) /\ vpc' = "after"
      /\ Temp \in Devs /\ Verifier \in Procs
  OBVIOUS
<1>1. KernelInv'
  BY <1>0, DeviceCallInv, SizeAssumption DEF IInv, DeviceCall
<1>2. UNCHANGED <<moduleVars, present, comp, header, swap>>
  BY DEF AllocStream, AllocErr, DisksizeDone
<1>3. IInv' /\ VerifierOnly'
  BY <1>1, <1>2, TestKeepsScripts
<1>4. VerifyTypeOK'
  BY DEF VerifyTypeOK, VerifySteps, Verdicts
<1>5. TempInv'
  BY <1>0, <1>2 DEF TempInv, TestSteps, AllocStream, AllocErr, DisksizeDone,
     Fault, IInv, KernelInv, KernelTypeOK
<1>6. ShellsAtRest'
  BY RestKept DEF QuietInv, Quiet, Verifying
<1>7. \A d \in Devs \ {Temp} : streams'[d] = streams[d]
  BY DEF AllocStream, AllocErr, DisksizeDone, IInv, KernelInv, KernelTypeOK
<1>8. BeforeKnown'
  BY <1>2, <1>7, CountKept DEF QuietInv, BeforeKnown, Quiet, Verifying,
     TestSteps, moduleVars
<1>9. Uniform'
  <2>1. \A c \in Cpus : streams'[Temp][c] \in
          {"none", streams[Temp][c], Lookup(comp[Temp])}
    BY DEF AllocStream, AllocErr, DisksizeDone, NoStreams, IInv, KernelInv,
       KernelTypeOK
  <2>2. QED
    BY <1>2, <2>1 DEF QuietInv, Uniform, Quiet, Verifying, TestSteps, Lookup,
       moduleVars
<1>10. TestReady'
  BY <1>0, <1>2, SizeAssumption DEF QuietInv, TestReady, Quiet, Verifying,
     AllocStream, AllocErr, DisksizeDone, Fault, IInv, KernelInv, KernelTypeOK
<1>11. PassTrue'
  BY <1>2 DEF QuietInv, PassTrue, Quiet, Verifying, TestSteps, Tested,
     moduleVars, AllocStream, AllocErr, DisksizeDone, Fault
<1>12. QED
  BY <1>3, <1>4, <1>5, <1>6, <1>8, <1>9, <1>10, <1>11 DEF QuietInv

\* The refcnt rises above the count before only when the new driver serves the
\* test device on every CPU.
LEMMA RiseMeansServed ==
  ASSUME VerifyInv, Quiet, At("after"),
         before[test] # 0, Refcnt(test) > before[test]
  PROVE  ServedByNew(Temp, test)
<1> USE VerifierAssumption
    DEF VerifyInv, VerifyBase, VerifyTypeOK, At, QuietInv, BeforeKnown, Uniform,
        TestSteps
<1>1. test \in Algos /\ before[test] = CountBefore(test)
  OBVIOUS
<1>2. Refcnt(test) # CountBefore(test)
  BY <1>1, RefcntGrows
<1>3. PICK c \in Cpus : comp[Temp] = test /\ streams[Temp][c] = "new"
  BY <1>1, <1>2, RefcntWithoutTemp
<1>4. size[Temp] # 0
  <2>1. streams[Temp] # NoStreams
    BY <1>3 DEF NoStreams
  <2>2. lock[Temp] = NoProc
    BY DEF TempInv
  <2>3. QED
    BY <2>1, <2>2 DEF IInv, KernelInv, IdleWithoutStreams
<1>5. \A b \in Cpus : streams[Temp][b] = Lookup(comp[Temp])
  BY <1>4 DEF IInv, KernelInv, InitialisedComplete
<1>6. QED
  BY <1>3, <1>5 DEF ServedByNew

\* Without a failure and with both drivers there the refcnt rises.
LEMMA ServedMeansRise ==
  ASSUME VerifyInv, Quiet, At("after"), ~faulted, registered = Algos
  PROVE  before[test] # 0 /\ Refcnt(test) > before[test]
<1> USE VerifierAssumption
    DEF VerifyInv, VerifyBase, VerifyTypeOK, At, QuietInv, BeforeKnown, Uniform,
        TestReady, TestSteps
<1>1. test \in Algos /\ before[test] = CountBefore(test)
  OBVIOUS
<1>2. size[Temp] # 0 /\ comp[Temp] = test
  OBVIOUS
<1>3. ServedByNew(Temp, test)
  BY <1>1, <1>2 DEF IInv, KernelInv, InitialisedComplete, Lookup, ServedByNew
<1>4. QED
  BY <1>1, <1>3, RefcntGrows

\* Comparing the refcnts.
LEMMA AfterInv == VerifyInv /\ TestAfter => VerifyInv'
<1> SUFFICES ASSUME VerifyInv, TestAfter PROVE VerifyInv'
  OBVIOUS
<1> USE DEF VerifyInv, VerifyBase, TestAfter, At
<1>1. IInv' /\ VerifierOnly' /\ (\A a \in Algos : CountBefore(a)' = CountBefore(a))
  BY QuietKernel
<1>2. VerifyTypeOK'
  <2>1. pass' \in BOOLEAN
    BY Zenon DEF VerifyTypeOK
  <2>2. QED
    BY <2>1 DEF VerifyTypeOK, VerifySteps, Verdicts
<1>3. TempInv'
  BY DEF TempInv, TestSteps, vars, kernelVars
<1>4. ShellsAtRest'
  BY RestKept DEF QuietInv, Quiet, Verifying, vars
<1>5. BeforeKnown'
  BY <1>1 DEF QuietInv, BeforeKnown, Quiet, Verifying, TestSteps
<1>6. Uniform' /\ TestReady'
  BY DEF QuietInv, Uniform, TestReady, Quiet, Verifying, TestSteps, vars,
     kernelVars, Lookup
<1>7. PassTrue'
  <2> SUFFICES ASSUME Quiet'
               PROVE  /\ pass' => Tested' \subseteq hit'
                      /\ ~faulted /\ registered = Algos => pass'
    BY DEF PassTrue, TestSteps, vars, kernelVars
  <2>1. Quiet /\ test \in Algos
    BY DEF Quiet, Verifying, VerifyTypeOK
  <2>2. ASSUME pass' PROVE Tested' \subseteq hit'
    <3>1. pass /\ before[test] # 0 /\ Refcnt(test) > before[test]
      BY <2>2
    <3>2. hit' = hit \cup {test}
      BY <2>1, <3>1, RiseMeansServed
    <3>3. Tested \subseteq hit
      BY <2>1, <3>1 DEF QuietInv, PassTrue, TestSteps
    <3>4. QED
      BY <2>1, <3>2, <3>3 DEF Tested, TestSteps, Algos
  <2>3. ASSUME ~faulted, registered = Algos PROVE pass'
    <3>1. pass
      BY <2>1, <2>3 DEF QuietInv, PassTrue, TestSteps
    <3>2. before[test] # 0 /\ Refcnt(test) > before[test]
      BY <2>1, <2>3, ServedMeansRise
    <3>3. QED
      BY <3>1, <3>2
  <2>4. QED
    BY <2>2, <2>3
<1>8. QED
  BY <1>1, <1>2, <1>3, <1>4, <1>5, <1>6, <1>7 DEF QuietInv

\* Resetting the test device.
LEMMA ResetInv == VerifyInv /\ TestReset => VerifyInv'
<1> SUFFICES ASSUME VerifyInv, TestReset PROVE VerifyInv'
  OBVIOUS
<1> USE VerifierAssumption, DevsAssumption
    DEF VerifyInv, VerifyBase, TestReset, At
<1>0. /\ ResetOk(Temp) \/ ResetErr(Temp)
      /\ Temp \in Devs
  OBVIOUS
<1>1. KernelInv'
  BY <1>0, DeviceCallInv DEF IInv, DeviceCall
<1>2. UNCHANGED <<moduleVars, present, lock, swap>>
  BY DEF ResetOk, ResetErr, zramVars
<1>3. IInv' /\ VerifierOnly'
  BY <1>1, <1>2, TestKeepsScripts
<1>4. VerifyTypeOK'
  BY DEF VerifyTypeOK, VerifySteps, Verdicts, Algos
<1>5. TempInv'
  BY <1>0, <1>2 DEF TempInv, TestSteps, ResetOk, ResetErr, Fault, IInv,
     KernelInv, KernelTypeOK
<1>6. ShellsAtRest'
  BY RestKept DEF QuietInv, Quiet, Verifying
<1>7. \A d \in Devs \ {Temp} : comp'[d] = comp[d] /\ streams'[d] = streams[d]
  BY DEF ResetOk, ResetErr, zramVars, IInv, KernelInv, KernelTypeOK
<1>8. BeforeKnown'
  BY <1>2, <1>7, CountKept DEF QuietInv, BeforeKnown, Quiet, Verifying,
     TestSteps, moduleVars
<1>9. Uniform'
  <2>1. CASE ResetOk(Temp)
    <3>1. streams'[Temp] = NoStreams
      BY <2>1 DEF ResetOk, IInv, KernelInv, KernelTypeOK
    <3>2. QED
      BY <3>1 DEF Uniform, NoStreams
  <2>2. CASE ResetErr(Temp)
    BY <2>2 DEF ResetErr, zramVars, moduleVars, QuietInv, Uniform, Quiet,
       Verifying, TestSteps, Lookup
  <2>3. QED
    BY <1>0, <2>1, <2>2
<1>10. TestReady'
  BY <1>0 DEF TempInv, TestReady, ResetOk, ResetErr, Fault, IInv, KernelInv,
     KernelTypeOK
<1>11. PassTrue'
  <2>1. UNCHANGED <<registered, pass, hit>> /\ (faulted => faulted')
    BY <1>0, <1>2 DEF ResetOk, ResetErr, Fault, moduleVars
  <2>2. Tested' = Tested
    BY DEF Tested, TestSteps
  <2>3. Quiet' => Quiet
    BY DEF Quiet, Verifying
  <2>4. vpc = "reset" /\ vpc' \in {"comp", "hot_remove"}
    OBVIOUS
  <2>5. QED
    BY <2>1, <2>2, <2>3, <2>4 DEF QuietInv, PassTrue, TestSteps
<1>12. QED
  BY <1>3, <1>4, <1>5, <1>6, <1>8, <1>9, <1>10, <1>11 DEF QuietInv

\* Removing the device.
LEMMA HotRemoveInv == VerifyInv /\ HotRemove => VerifyInv'
<1> SUFFICES ASSUME VerifyInv, HotRemove PROVE VerifyInv'
  OBVIOUS
<1> USE VerifierAssumption, DevsAssumption
    DEF VerifyInv, VerifyBase, HotRemove, At, Continue, Fault
<1>1. /\ UNCHANGED <<moduleVars, lock, header, swap>>
      /\ \/ /\ present' = present \ {Temp}
            /\ comp' = [comp EXCEPT ![Temp] = StockAlgo]
            /\ size' = [size EXCEPT ![Temp] = 0]
            /\ streams' = [streams EXCEPT ![Temp] = NoStreams]
            /\ UNCHANGED faulted
         \/ faulted' = TRUE /\ UNCHANGED <<present, comp, size, streams>>
  OBVIOUS
<1>2. KernelInv'
  <2>1. KernelTypeOK'
    <3>1. NoStreams \in [Cpus -> Drivers \cup {"none"}]
      BY DEF NoStreams
    <3>2. /\ comp' \in [Devs -> Names] /\ size' \in [Devs -> Nat]
          /\ streams' \in [Devs -> [Cpus -> Drivers \cup {"none"}]]
      <4>1. CASE /\ comp' = [comp EXCEPT ![Temp] = StockAlgo]
                 /\ size' = [size EXCEPT ![Temp] = 0]
                 /\ streams' = [streams EXCEPT ![Temp] = NoStreams]
        BY <3>1, <4>1 DEF IInv, KernelInv, KernelTypeOK, Names
      <4>2. CASE UNCHANGED <<comp, size, streams>>
        BY <4>2 DEF IInv, KernelInv, KernelTypeOK
      <4>3. QED
        BY <1>1, <4>1, <4>2
    <3>3. QED
      BY <1>1, <3>2 DEF IInv, KernelInv, KernelTypeOK, moduleVars
  <2>2. LockedUninitialised' /\ IdleWithoutStreams' /\ InitialisedComplete'
    BY <1>1 DEF IInv, KernelInv, KernelTypeOK, LockedUninitialised,
       IdleWithoutStreams, InitialisedComplete, NoStreams
  <2>3. SwapBacked' /\ RegisteredListed'
    BY <1>1 DEF IInv, KernelInv, KernelTypeOK, SwapBacked, RegisteredListed,
       TempInv, moduleVars
  <2>4. StreamsRegistered'
    BY <1>1 DEF IInv, KernelInv, KernelTypeOK, StreamsRegistered, NoStreams,
       moduleVars
  <2>5. QED
    BY <2>1, <2>2, <2>3, <2>4 DEF KernelInv
<1>3. IInv' /\ VerifierOnly'
  BY <1>1, <1>2, TestKeepsScripts
<1>4. VerifyTypeOK'
  BY DEF VerifyTypeOK, VerifySteps, Verdicts
<1>5. TempInv'
  BY <1>1 DEF TempInv, TestSteps, IInv, KernelInv, KernelTypeOK
<1>6. ShellsAtRest'
  BY RestKept DEF QuietInv, Quiet, Verifying
<1>7. BeforeKnown' /\ Uniform' /\ TestReady'
  BY DEF BeforeKnown, Uniform, TestReady, TestSteps
<1>8. PassTrue'
  BY <1>1 DEF QuietInv, PassTrue, Quiet, Verifying, TestSteps, Tested,
     moduleVars
<1>9. QED
  BY <1>3, <1>4, <1>5, <1>6, <1>7, <1>8 DEF QuietInv

-----------------------------------------------------------------------------
(* The theorems. *)

\* The invariant holds in every reachable state of verify.sh and the shells.
THEOREM VerifyInvariant == VerifySpec => []VerifyInv
<1>1. VerifyInit => VerifyInv
  BY VerifyInitInv
<1>2. VerifyInv /\ [VerifyNext]_allVars => VerifyInv'
  <2> SUFFICES ASSUME VerifyInv, [VerifyNext]_allVars PROVE VerifyInv'
    OBVIOUS
  <2>1. CASE UNCHANGED allVars
    <3>1. IInv' /\ VerifierOnly' /\ (\A a \in Algos : CountBefore(a)' = CountBefore(a))
      BY <2>1, QuietKernel DEF allVars, VerifyInv
    <3>2. VerifyTypeOK' /\ TempInv'
      BY <2>1 DEF allVars, vars, kernelVars, verifyVars, VerifyInv, VerifyBase,
         VerifyTypeOK, TempInv
    <3>3. ShellsAtRest' /\ BeforeKnown'
      BY <2>1, <3>1 DEF allVars, vars, applyVars, ctlVars, verifyVars,
         VerifyInv, QuietInv, ShellsAtRest, Running, BeforeKnown, Quiet,
         Verifying, Algos
    <3>4. Uniform' /\ TestReady' /\ PassTrue'
      BY <2>1 DEF allVars, vars, kernelVars, verifyVars, VerifyInv, QuietInv,
         Uniform, TestReady, PassTrue, Tested, Quiet, Verifying, Lookup
    <3>5. QED
      BY <3>1, <3>2, <3>3, <3>4 DEF VerifyInv, VerifyBase, QuietInv
  <2>2. CASE VerifyStart \/ ShellStep
    BY <2>2, StartInv, ShellStepInv
  <2>3. CASE VerifyStep
    BY <2>3, CryptoInv, BeforeInv, HotAddInv, CompInv, SizeInv, AllocInv,
       AfterInv, ResetInv, HotRemoveInv, VerdictInv DEF VerifyStep
  <2>4. QED
    BY <2>1, <2>2, <2>3 DEF VerifyNext
<1>3. QED
  BY <1>1, <1>2, PTL DEF VerifySpec

\* verify.sh leaves no device behind, unless a call failed.
THEOREM VerifyLeavesNothing == VerifySpec => []NoTrace
<1>1. VerifyInv => NoTrace
  <2> SUFFICES ASSUME VerifyInv, vpc \in Verdicts \cup {"off"}, ~faulted
               PROVE  Temp \notin present /\ streams[Temp] = NoStreams
    BY DEF NoTrace
  <2>1. Temp \notin present /\ size[Temp] = 0 /\ lock[Temp] = NoProc
    BY DEF VerifyInv, VerifyBase, TempInv, TestSteps, Verdicts
  <2>2. QED
    BY <2>1, VerifierAssumption
       DEF VerifyInv, VerifyBase, IInv, KernelInv, IdleWithoutStreams
<1>2. QED
  BY <1>1, VerifyInvariant, PTL

\* The test device pins the module whose code it runs, like any other.
THEOREM TestStreamsArePinned == VerifySpec => []StreamsPinned
<1>1. VerifyInv => StreamsPinned
  BY DEF VerifyInv, VerifyBase, IInv, KernelInv, StreamsRegistered, RegisteredListed,
     StreamsPinned
<1>2. QED
  BY <1>1, VerifyInvariant, PTL

\* The verdict of a run that overlaps no other: PASS only when both algorithms
\* were served by the new driver on every CPU, FAIL only for a missing driver, a
\* name that is not the file's, or a failed call.
THEOREM VerdictIsTrue == VerifySpec => VerdictTrue
<1>1. VerifyInv /\ [VerifyNext]_allVars =>
        (Verifier \notin met /\ vpc = "zram0"
         => /\ vpc' = "PASS" => hit = Algos
            /\ vpc' = "FAIL" /\ ~faulted =>
                 registered # Algos \/ (file \in Algos /\ ~NamesFile))
  <2> SUFFICES ASSUME VerifyInv, [VerifyNext]_allVars,
                      Verifier \notin met, vpc = "zram0"
               PROVE  /\ vpc' = "PASS" => hit = Algos
                      /\ vpc' = "FAIL" /\ ~faulted =>
                           registered # Algos \/ (file \in Algos /\ ~NamesFile)
    OBVIOUS
  <2>1. Quiet /\ Tested = Algos /\ hit \subseteq Algos
    BY DEF Quiet, Verifying, Tested, VerifyInv, VerifyBase, VerifyTypeOK
  <2>2. pass => hit = Algos
    BY <2>1 DEF VerifyInv, QuietInv, PassTrue
  <2>3. ~faulted /\ registered = Algos => pass
    BY <2>1 DEF VerifyInv, QuietInv, PassTrue
  <2>4. CASE CheckZram0
    BY <2>2, <2>3, <2>4 DEF CheckZram0
  <2>5. CASE ~CheckZram0
    <3>1. vpc' = "zram0"
      BY <2>5 DEF VerifyNext, VerifyStart, VerifyStep, ShellStep, CheckCrypto,
         ReadBefore, HotAdd, TestComp, TestSize, TestAlloc, TestAfter,
         TestReset, HotRemove, VerifyReturn, At, Verdicts, allVars, verifyVars
    <3>2. QED
      BY <3>1
  <2>6. QED
    BY <2>4, <2>5
<1>2. QED
  BY <1>1, VerifyInvariant, PTL DEF VerifySpec, VerdictTrue
===============================================================================
