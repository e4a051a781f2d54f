---------------------------- MODULE BootFlowProofs ----------------------------
(***************************************************************************)
(* Proofs about BootFlow, for every configuration of the module, every set  *)
(* of CPUs and devices, every set of possible failures, and wherever        *)
(* Perfinit starts.  The steps inside the two scripts are those of ZramAlgo *)
(* and rest on its lemmas.                                                  *)
(***************************************************************************)
EXTENDS BootFlow, ZramAlgoProofs, FiniteSetTheorems

-----------------------------------------------------------------------------
(* Where the three processes are. *)

BootTypeOK ==
  /\ enabled \in BOOLEAN /\ matches \in BOOLEAN
  /\ zramAlgo \in FileValues /\ confAlgo \in Algos \cup {"none"}
  /\ bound \in BOOLEAN /\ early \in BOOLEAN /\ late \in BOOLEAN
  /\ postfs \in {"start", "load", "algo", "done"}
  /\ service \in {"start", "load", "wait", "apply", "done"}
  /\ perfinit \in {"waiting", "building", "finished"}

\* post-fs-data.sh never applies; service.sh starts after it has ended.
PostFsAt ==
  /\ pc[PostFs] = "idle"
  /\ postfs # "load" => at[PostFs] = "off"
ServiceAt ==
  /\ service # "start" => postfs = "done"
  /\ service = "apply" => pc[Service_] \notin {"idle", "default"}
  /\ service # "apply" => pc[Service_] = "idle"
  /\ service \notin {"load", "apply"} => at[Service_] = "off"
  /\ service \notin {"apply", "done"} => ~late

\* Perfinit only builds, and only where there is no zram0 yet.
PerfinitAt ==
  /\ at[Perfinit] = "off"
  /\ pc[Perfinit] \in {"idle", "comp", "failed"} \cup Built
  /\ perfinit = "building" <=> pc[Perfinit] # "idle"
  /\ pc[Perfinit] = "comp" => bound /\ want[Perfinit] = confAlgo
  /\ perfinit = "waiting" <=> Zram0 \notin present
  /\ perfinit # "waiting" /\ ~early => postfs = "done"
ZramAbsent ==
  Zram0 \notin present =>
    Zram0 \notin swap /\ size[Zram0] = 0 /\ comp[Zram0] = StockAlgo

\* Nobody unloads during a boot.
NoUnload == \A p \in Procs : op[p] = "load" /\ at[p] # "rmmod"

Control == BootTypeOK /\ PostFsAt /\ ServiceAt /\ PerfinitAt /\ ZramAbsent
           /\ NoUnload

\* What the kernel gate and the file zram_algo keep from happening.
Gate == enabled /\ matches
GateInv ==
  /\ postfs \in {"load", "algo"} \/ service \in {"load", "wait", "apply"} => Gate
  /\ service \in {"wait", "apply"} => ServiceAlgo # "default"
  /\ bound => Gate /\ zramAlgo \in Algos /\ confAlgo \in Algos
                   /\ postfs = "done"
  /\ tuned \/ comp[Zram0] # StockAlgo => Gate /\ zramAlgo # "default"
  /\ ~Gate => listed = {}

\* What a boot that can serve has reached.
NewOnly ==
  /\ Algos \subseteq registered
  /\ \A c \in Cpus : streams[Zram0][c] \in {"none", "new"}
ServeInv ==
  /\ postfs = "load" => CtlSolo(PostFs)
  /\ CanServe /\ ~faulted /\ postfs \in {"algo", "done"} =>
       Algos \subseteq registered
  /\ CanServe /\ ~faulted /\ comp[Zram0] \in Algos => NewOnly
  /\ CanServe /\ service \in {"apply", "done"} => tuned
  /\ ~late /\ (service = "apply" \/ (service = "done" /\ CanServe)) =>
       perfinit = "finished"

\* The apply of service.sh, when Perfinit is out of its way.
ApplyDone == service = "done"
               \/ (service = "apply" /\ pc[Service_] \in Endings)
ApplyInv ==
  /\ service = "apply" /\ pc[Service_] \notin Endings =>
       want[Service_] = ServiceAlgo
  /\ service = "apply" /\ ~late => SoloFacts(Service_)
  /\ CanServe /\ ~faulted /\ ~late /\ ApplyDone =>
       Zram0 \in swap /\ comp[Zram0] = ServiceAlgo

\* A normal boot: Perfinit came after the registration, used the chosen
\* algorithm and is done before the apply.
Normal == CanServe /\ ~faulted /\ ~early /\ ~late /\ bound
            /\ confAlgo = ServiceAlgo
NormalInv ==
  Normal =>
    /\ pc[Perfinit] \in Built \/ Zram0 \in swap => comp[Zram0] = confAlgo
    /\ service = "apply" =>
         /\ Zram0 \in swap
         /\ pc[Service_] \in {"ready", "ensure", "loading", "cur", "refcnt",
                              "kept"}
         /\ pc[Service_] = "refcnt" => named[Service_]

BootInv ==
  /\ Base /\ Control /\ SwapSurvives
  /\ GateInv /\ ServeInv /\ ApplyInv /\ NormalInv

-----------------------------------------------------------------------------
(* The start of a boot. *)

\* The three processes are three.
LEMMA ActorsDistinct ==
  /\ PostFs \in Procs /\ Service_ \in Procs /\ Perfinit \in Procs
  /\ PostFs # Service_ /\ PostFs # Perfinit /\ Service_ # Perfinit
<1>1. \A a, b : Cardinality({a, b}) # 3
  <2> SUFFICES ASSUME NEW a, NEW b PROVE Cardinality({a, b}) # 3
    OBVIOUS
  <2>1. IsFiniteSet({a}) /\ Cardinality({a}) = 1
    BY FS_Singleton
  <2>2. Cardinality({a} \cup {b}) \in {1, 2}
    BY <2>1, FS_AddElement
  <2>3. {a} \cup {b} = {a, b}
    OBVIOUS
  <2>4. QED
    BY <2>2, <2>3
<1>2. ASSUME PostFs = Service_ \/ PostFs = Perfinit \/ Service_ = Perfinit
      PROVE  FALSE
  <2>1. Procs = {PostFs, Perfinit} \/ Procs = {PostFs, Service_}
    BY <1>2, ActorsAssumption
  <2>2. QED
    BY <1>1, <2>1, ActorsAssumption
<1>3. QED
  BY <1>2, ActorsAssumption

\* A boot starts in a state in which the scripts may start.
LEMMA BootInitInv == BootInit => BootInv
<1> SUFFICES ASSUME BootInit PROVE BootInv
  OBVIOUS
<1>1. Init
  BY DEF BootInit, Init
<1>2. Base
  <2>1. IInv
    BY <1>1, KernelInitInv, ScriptInitInv DEF IInv
  <2>2. ListedPending /\ ScriptsApart
    BY <1>1 DEF Init, KernelInit, CtlInit, ApplyInit, ListedPending,
       ScriptsApart, Apart
  <2>3. QED
    BY <2>1, <2>2 DEF Base
<1>3. Absent(Zram0) /\ SwapSurvives
  BY DevsAssumption DEF BootInit, ZramInit, StockActive, SwapSurvives
<1>4. Control
  <2>1. BootTypeOK /\ NoUnload /\ ZramAbsent
    BY <1>3 DEF BootInit, BootTypeOK, CtlInit, NoUnload, Absent, ZramAbsent
  <2>2. PostFsAt /\ ServiceAt /\ PerfinitAt
    BY ActorsDistinct
       DEF BootInit, CtlInit, ApplyInit, PostFsAt, ServiceAt, PerfinitAt
  <2>3. QED
    BY <2>1, <2>2 DEF Control
<1>5. GateInv
  BY <1>3 DEF BootInit, ApplyInit, KernelInit, Absent, GateInv
<1>6. ServeInv
  BY <1>3 DEF BootInit, Absent, ServeInv, Algos, StockAlgo
<1>7. ApplyInv /\ NormalInv
  BY <1>3 DEF BootInit, ApplyInit, ApplyInv, ApplyDone, NormalInv, Normal
<1>8. QED
  BY <1>2, <1>3, <1>4, <1>5, <1>6, <1>7 DEF BootInv

-----------------------------------------------------------------------------
(* The steps of a boot, and what they rest on. *)

\* A step inside one of the two scripts is a step of ZramAlgo.
Move(p) == Start(p) \/ Step(p)

\* Between the scripts: a shell calls zstd-upgrade.sh or takes its exit code.
Boundary(p) ==
  /\ pc[p] = "idle"
  /\ \/ at[p] = "off" /\ CtlStart(p, "load")
     \/ CtlReap(p)
  /\ UNCHANGED <<kernelVars, applyVars, disturbed>>

\* Every step of a boot is one of these.
BootStep ==
  \/ \E p \in {PostFs, Service_} : RunCtl(p) /\ UNCHANGED bootVars
  \/ /\ service = "apply" /\ pc[Service_] \notin Endings /\ Step(Service_)
     /\ UNCHANGED bootVars
  \/ SvApply \/ SvDone
  \/ PerfinitBuild \/ PerfinitStart \/ PerfinitEnd
  \/ Boundary(PostFs) /\ (PfGate \/ PfLoaded)
  \/ Boundary(Service_) /\ (SvGate \/ SvLoaded)
  \/ UNCHANGED vars /\ (PfGate \/ SvGate) /\ ~Gate
  \/ PfBind
  \/ UNCHANGED allVars

\* Every step of the boot is one of the kinds named in BootStep: a step of
\* a script, of Perfinit, or one at the boundary between two scripts.
LEMMA BootStepKinds ==
  ASSUME BootInv, [BootNext]_allVars
  PROVE  BootStep
<1> USE DEF BootStep
<1>1. CASE PostFsStep
  <2>1. PfGate => PfGate /\ (Boundary(PostFs) \/ (UNCHANGED vars /\ ~Gate))
    <3>1. ASSUME PfGate PROVE pc[PostFs] = "idle" /\ at[PostFs] = "off"
      BY <3>1 DEF PfGate, BootInv, Control, PostFsAt
    <3>2. ASSUME PfGate, Gate PROVE Boundary(PostFs)
      BY <3>1, <3>2 DEF PfGate, Gate, Boundary
    <3>3. ASSUME PfGate, ~Gate PROVE UNCHANGED vars
      BY <3>3 DEF PfGate, Gate, vars
    <3>4. QED
      BY <3>2, <3>3
  <2>2. PfLoaded => PfLoaded /\ Boundary(PostFs)
    BY DEF PfLoaded, Boundary, BootInv, Control, PostFsAt
  <2>3. Inside(PostFs) => RunCtl(PostFs) /\ UNCHANGED bootVars
    BY ActorsDistinct DEF Inside
  <2>4. QED
    BY <1>1, <2>1, <2>2, <2>3 DEF PostFsStep
<1>2. CASE ServiceStep
  <2>1. SvGate => SvGate /\ (Boundary(Service_) \/ (UNCHANGED vars /\ ~Gate))
    <3>1. ASSUME SvGate PROVE pc[Service_] = "idle" /\ at[Service_] = "off"
      BY <3>1 DEF SvGate, BootInv, Control, ServiceAt
    <3>2. ASSUME SvGate, Gate PROVE Boundary(Service_)
      BY <3>1, <3>2 DEF SvGate, Gate, Boundary
    <3>3. ASSUME SvGate, ~Gate PROVE UNCHANGED vars
      BY <3>3 DEF SvGate, Gate, vars
    <3>4. QED
      BY <3>2, <3>3
  <2>2. SvLoaded => SvLoaded /\ Boundary(Service_)
    BY DEF SvLoaded, Boundary, BootInv, Control, ServiceAt
  <2>3. Inside(Service_) =>
          \/ RunCtl(Service_) /\ UNCHANGED bootVars
          \/ /\ service = "apply" /\ pc[Service_] \notin Endings
             /\ Step(Service_) /\ UNCHANGED bootVars
    BY DEF Inside
  <2>4. QED
    BY <1>2, <2>1, <2>2, <2>3 DEF ServiceStep
<1>3. CASE PerfinitStart \/ PerfinitStep \/ Booted \/ UNCHANGED allVars
  BY <1>3 DEF PerfinitStep, Booted
<1>4. QED
  BY <1>1, <1>2, <1>3 DEF BootNext

\* Which of them are steps of ZramAlgo.
LEMMA BootMoves ==
  ASSUME BootTypeOK, \/ \E p \in {PostFs, Service_} : RunCtl(p)
                     \/ Step(Service_) \/ SvApply \/ SvDone \/ PerfinitBuild
  PROVE  \E p \in Procs : Move(p)
<1> USE ActorsDistinct DEF Move
<1>1. CASE \E p \in {PostFs, Service_} : RunCtl(p)
  BY <1>1 DEF Step
<1>2. CASE SvApply
  <2>1. "none" \in ArgValues
    BY DEF ArgValues
  <2>2. Start(Service_)
    BY <1>2, <2>1 DEF SvApply, ServiceAlgo, Start, BootTypeOK
  <2>3. QED
    BY <2>2
<1>3. CASE SvDone \/ PerfinitBuild
  BY <1>3 DEF SvDone, PerfinitBuild, Step
<1>4. QED
  BY <1>1, <1>2, <1>3

\* Steps of the scripts keep what holds between scripts.
LEMMA MoveBase ==
  ASSUME Base, NEW p \in Procs, Move(p)
  PROVE  Base' /\ present' = present
<1>1. [Next]_vars
  BY DEF Move, Next
<1>2. IInv' /\ present' = present
  BY <1>1, StepInv, StepIsKernelStep, PresentConstant DEF Base
<1>3. ListedPending' /\ ScriptsApart'
  BY ListedPendingStep, ScriptsApartStep DEF Move
<1>4. QED
  BY <1>2, <1>3 DEF Base

\* So does going into or out of zstd-upgrade.sh.
LEMMA BoundaryBase ==
  ASSUME Base, NEW p \in Procs, Boundary(p)
  PROVE  Base'
<1> USE DEF Base, Boundary
<1>1. CtlTypeOK' /\ InitPending'
  BY CtlStartReapInv DEF kernelVars, IInv, ScriptInv
<1>2. KernelInv'
  BY DEF IInv, kernelVars, KernelInv, KernelTypeOK, LockedUninitialised,
     IdleWithoutStreams, InitialisedComplete, SwapBacked, StreamsRegistered,
     RegisteredListed
<1>3. ApplyTypeOK' /\ ReadyPresent' /\ RebuildReady'
  BY DEF IInv, ScriptInv, ApplyTypeOK, ReadyPresent, RebuildReady, kernelVars,
     applyVars
<1>4. ListedPending' /\ ScriptsApart'
  BY DEF IInv, ScriptInv, CtlTypeOK, ListedPending, ScriptsApart, Apart,
     CtlStart, CtlReap, CtlEndings, kernelVars, applyVars
<1>5. QED
  BY <1>1, <1>2, <1>3, <1>4 DEF IInv, ScriptInv

\* So does Perfinit when it starts.
LEMMA PerfinitStartBase ==
  ASSUME Base, Control, GateInv, PerfinitStart
  PROVE  Base'
<1> USE ActorsDistinct, DevsAssumption, SizeAssumption
    DEF Base, PerfinitStart, Enter
<1>1. KernelInv'
  BY DEF IInv, moduleVars, KernelInv, KernelTypeOK, LockedUninitialised,
     IdleWithoutStreams, InitialisedComplete, SwapBacked, StreamsRegistered,
     RegisteredListed
<1>2. CtlTypeOK' /\ InitPending'
  BY DEF IInv, ScriptInv, CtlTypeOK, InitPending, ctlVars, moduleVars
<1>3. pc[Perfinit] = "idle" /\ want[Perfinit] = "default"
  BY DEF Control, PerfinitAt, ScriptsApart, Apart
<1>4. bound => confAlgo \in Algos
  BY DEF GateInv
<1>5. ApplyTypeOK'
  <2>1. tuned' \in BOOLEAN
    BY DEF IInv, ScriptInv, ApplyTypeOK
  <2>2. QED
    BY <1>4, <2>1 DEF IInv, ScriptInv, ApplyTypeOK, Steps, Endings
<1>6. ReadyPresent' /\ RebuildReady'
  BY <1>4 DEF IInv, ScriptInv, ApplyTypeOK, ReadyPresent, RebuildReady, Built
<1>7. ListedPending' /\ ScriptsApart'
  BY <1>3 DEF IInv, ScriptInv, ApplyTypeOK, ListedPending, ScriptsApart,
     Apart, Endings, ctlVars, moduleVars, Control, PerfinitAt
<1>8. QED
  BY <1>1, <1>2, <1>5, <1>6, <1>7 DEF IInv, ScriptInv

\* And when it ends.
LEMMA PerfinitEndBase ==
  ASSUME Base, PerfinitEnd
  PROVE  Base'
<1> USE ActorsDistinct DEF Base, PerfinitEnd
<1>1. KernelInv'
  BY DEF IInv, kernelVars, KernelInv, KernelTypeOK, LockedUninitialised,
     IdleWithoutStreams, InitialisedComplete, SwapBacked, StreamsRegistered,
     RegisteredListed
<1>2. CtlTypeOK' /\ InitPending' /\ ListedPending'
  BY DEF IInv, ScriptInv, CtlTypeOK, InitPending, ListedPending, ctlVars,
     kernelVars
<1>3. ApplyTypeOK'
  <2>1. named' \in [Procs -> BOOLEAN] /\ tuned' \in BOOLEAN
    BY Zenon DEF Exit, IInv, ScriptInv, ApplyTypeOK
  <2>2. QED
    BY <2>1, TriesAssumption DEF Exit, IInv, ScriptInv, ApplyTypeOK, Steps
<1>4. ReadyPresent' /\ RebuildReady' /\ ScriptsApart'
  BY DEF Exit, IInv, ScriptInv, ApplyTypeOK, ReadyPresent, RebuildReady,
     ScriptsApart, Apart, Endings, kernelVars, ctlVars
<1>5. QED
  BY <1>1, <1>2, <1>3, <1>4 DEF IInv, ScriptInv

\* Every step of a boot keeps what holds between scripts.
LEMMA BootBase ==
  ASSUME BootInv, BootStep
  PROVE  Base'
<1> USE DEF BootInv
<1>1. CASE UNCHANGED vars
  BY <1>1 DEF Base, IInv, KernelInv, KernelTypeOK, LockedUninitialised,
     IdleWithoutStreams, InitialisedComplete, SwapBacked, StreamsRegistered,
     RegisteredListed, ScriptInv, CtlTypeOK, ApplyTypeOK, InitPending,
     ReadyPresent, RebuildReady, ListedPending, ScriptsApart, Apart, vars,
     kernelVars, ctlVars, applyVars
<1>2. CASE Boundary(PostFs) \/ Boundary(Service_)
  BY <1>2, BoundaryBase, ActorsDistinct
<1>3. CASE \E p \in Procs : Move(p)
  BY <1>3, MoveBase
<1>4. QED
  BY <1>1, <1>2, <1>3, BootMoves, PerfinitStartBase, PerfinitEndBase
     DEF BootStep, Control, PfBind, allVars

-----------------------------------------------------------------------------
(* Where the processes get to. *)

\* The files and the kernel do not change during a boot.
LEMMA ConfigConstant == BootStep => UNCHANGED config
BY DEF BootStep, bootVars, SvApply, SvDone, PerfinitBuild, PerfinitStart,
   PerfinitEnd, PfGate, PfLoaded, SvGate, SvLoaded, PfBind, allVars

\* The scripts' places keep to their types.
LEMMA BootTypeStep ==
  ASSUME BootTypeOK, GateInv, BootStep
  PROVE  BootTypeOK'
<1> USE DEF BootTypeOK, Enter
<1>1. enabled' \in BOOLEAN /\ matches' \in BOOLEAN
      /\ zramAlgo' \in FileValues /\ confAlgo' \in Algos \cup {"none"}
  BY ConfigConstant, Zenon DEF config
<1>2. CASE UNCHANGED bootVars
  BY <1>1, <1>2, Zenon DEF bootVars
<1>3. CASE SvApply
  <2>1. late' \in BOOLEAN
    BY <1>3, Zenon DEF SvApply
  <2>2. UNCHANGED <<bound, early, postfs, perfinit>> /\ service' = "apply"
    BY <1>3 DEF SvApply
  <2>3. bound' \in BOOLEAN /\ early' \in BOOLEAN
    BY <2>2, Zenon
  <2>4. QED
    BY <1>1, <2>1, <2>2, <2>3
<1>4. CASE PerfinitStart
  <2>1. early' \in BOOLEAN
    BY <1>4, Zenon DEF PerfinitStart
  <2>2. UNCHANGED <<bound, late, postfs, service>> /\ perfinit' = "building"
    BY <1>4 DEF PerfinitStart
  <2>3. bound' \in BOOLEAN /\ late' \in BOOLEAN
    BY <2>2, Zenon
  <2>4. QED
    BY <1>1, <2>1, <2>2, <2>3
<1>5. CASE SvDone \/ PerfinitEnd \/ PfGate \/ PfLoaded \/ SvGate \/ SvLoaded
  <2>1. UNCHANGED <<bound, early, late>>
    BY <1>5 DEF SvDone, PerfinitEnd, PfGate, PfLoaded, SvGate, SvLoaded
  <2>2. bound' \in BOOLEAN /\ early' \in BOOLEAN /\ late' \in BOOLEAN
    BY <2>1, Zenon
  <2>3. postfs' \in {"start", "load", "algo", "done"}
    BY <1>5 DEF SvDone, PerfinitEnd, PfGate, PfLoaded, SvGate, SvLoaded
  <2>4. service' \in {"start", "load", "wait", "apply", "done"}
    BY <1>5 DEF SvDone, PerfinitEnd, PfGate, PfLoaded, SvGate, SvLoaded
  <2>5. perfinit' \in {"waiting", "building", "finished"}
    BY <1>5 DEF SvDone, PerfinitEnd, PfGate, PfLoaded, SvGate, SvLoaded
  <2>6. QED
    BY <1>1, <2>2, <2>3, <2>4, <2>5
<1>6. CASE PfBind
  <2>1. bound' \in BOOLEAN
    <3>1. bound' = TRUE \/ bound' = bound
      BY <1>6 DEF PfBind
    <3>2. QED
      BY <3>1, Zenon
  <2>2. UNCHANGED <<early, late, service, perfinit>> /\ postfs' = "done"
    BY <1>6 DEF PfBind
  <2>3. early' \in BOOLEAN /\ late' \in BOOLEAN
    BY <2>2, Zenon
  <2>4. QED
    BY <1>1, <2>1, <2>2, <2>3
<1>7. QED
  BY <1>2, <1>3, <1>4, <1>5, <1>6 DEF BootStep, PerfinitBuild, allVars

\* A step inside zstd-upgrade.sh during a boot only adds drivers.
LEMMA LoadOnly ==
  ASSUME Base, NoUnload, NEW p \in Procs, RunCtl(p)
  PROVE  /\ op' = op /\ (\A q \in Procs : at'[q] # "rmmod")
         /\ (\A q \in Procs \ {p} : at'[q] = at[q] /\ on'[q] = on[q])
         /\ at[p] # "off" /\ at'[p] # "off"
         /\ registered \subseteq registered'
<1> USE DEF NoUnload, Base, IInv, ScriptInv, CtlTypeOK, CtlGoto, CtlExit,
            NextAlgo, kernelVars
<1>1. CASE CheckListed(p)
  BY <1>1 DEF CheckListed
<1>2. CASE Insmod(p)
  BY <1>2 DEF Insmod, InsmodBegin, InsmodErr, moduleVars
<1>3. CASE ModuleInit(p)
  BY <1>3 DEF ModuleInit, InsmodRegister
<1>4. CASE ConfirmRegistered(p)
  BY <1>4 DEF ConfirmRegistered
<1>5. ~Rmmod(p)
  BY DEF Rmmod
<1>6. QED
  BY <1>1, <1>2, <1>3, <1>4, <1>5 DEF RunCtl, CtlStep

\* What a step of zram-algo.sh outside zstd-upgrade.sh does to the shell.
LEMMA ApplyFrame ==
  ASSUME Base, NEW p \in Procs, Step(p), ~RunCtl(p),
         pc[p] \notin {"idle"} \cup Endings
  PROVE  /\ pc'[p] \notin {"idle", "default"} /\ tuned' = tuned
         /\ UNCHANGED <<listed, registered, accepts>>
         /\ UNCHANGED ctlVars \/ CtlStart(p, "load") \/ CtlReap(p)
         /\ \A q \in Procs \ {p} : want'[q] = want[q]
         /\ pc'[p] \in Endings \/ want'[p] = want[p]
<1> USE DEF Base, IInv, ScriptInv, ApplyTypeOK, Endings, Goto, Exit
<1>1. UNCHANGED <<listed, registered, accepts>>
  BY OnlyCtlLoads
<1>2. ~Return(p)
  BY DEF Return
<1>3. CASE CheckReady(p) \/ EnsureDriver(p) \/ EnsureReturns(p)
  BY <1>1, <1>3 DEF CheckReady, EnsureDriver, EnsureReturns
<1>4. CASE ReadAlgo(p) \/ ReadRefcnt(p) \/ Report(p)
  BY <1>1, <1>4 DEF ReadAlgo, ReadRefcnt, Report
<1>5. CASE SwapLoop(p) \/ Swapoff(p) \/ CheckSwap(p) \/ ReadSize(p)
  BY <1>1, <1>5 DEF SwapLoop, Swapoff, CheckSwap, ReadSize
<1>6. CASE Reset(p) \/ SetAlgo(p) \/ SetSize(p)
  BY <1>1, <1>6 DEF Reset, SetAlgo, SetSize
<1>7. CASE AllocStreams(p) \/ Mkswap(p) \/ Swapon(p)
  BY <1>1, <1>7 DEF AllocStreams, Mkswap, Swapon
<1>8. QED
  BY <1>2, <1>3, <1>4, <1>5, <1>6, <1>7 DEF Step

\* What a step of Perfinit does.
LEMMA BuildFrame ==
  ASSUME Base, PerfinitBuild
  PROVE  /\ pc[Perfinit] \in {"comp", "disksize", "alloc", "mkswap", "swapon"}
         /\ pc'[Perfinit] \in {"disksize", "alloc", "mkswap", "swapon",
                               "report", "failed"}
         /\ UNCHANGED <<tuned, listed, registered, accepts, ctlVars, bootVars>>
         /\ \A q \in Procs \ {Perfinit} : want'[q] = want[q]
<1> USE DEF Base, IInv, ScriptInv, ApplyTypeOK, Goto, Exit, moduleVars,
            kernelVars
<1>1. CASE SetAlgo(Perfinit)
  <2>1. pc[Perfinit] = "comp" /\ UNCHANGED <<ctlVars, bootVars>>
    BY <1>1 DEF PerfinitBuild, SetAlgo
  <2>2. CASE CompOk(Zram0, want[Perfinit]) /\ Goto(Perfinit, "disksize")
    <3>1. pc'[Perfinit] = "disksize" /\ UNCHANGED <<tuned, want>>
      BY <2>2, ActorsDistinct
    <3>2. UNCHANGED <<listed, registered, accepts>>
      BY <2>2 DEF CompOk
    <3>3. QED
      BY <2>1, <3>1, <3>2
  <2>3. CASE CompErr(Zram0) /\ Exit(Perfinit, "failed")
    <3>1. /\ pc'[Perfinit] = "failed" /\ UNCHANGED tuned
          /\ \A q \in Procs \ {Perfinit} : want'[q] = want[q]
      BY <2>3, ActorsDistinct
    <3>2. UNCHANGED <<listed, registered, accepts>>
      BY <2>3 DEF CompErr
    <3>3. QED
      BY <2>1, <3>1, <3>2
  <2>4. QED
    BY <1>1, <2>2, <2>3 DEF SetAlgo
<1>5. CASE SetSize(Perfinit)
  BY <1>5 DEF PerfinitBuild, SetSize, DisksizeLock, DisksizeBusy
<1>2. CASE AllocStreams(Perfinit)
  BY <1>2 DEF PerfinitBuild, AllocStreams, AllocStream, AllocErr, DisksizeDone
<1>3. CASE Mkswap(Perfinit) \/ Swapon(Perfinit)
  BY <1>3 DEF PerfinitBuild, Mkswap, Swapon, MkswapOk, MkswapErr, SwaponOk,
     SwaponErr
<1>4. QED
  BY <1>1, <1>2, <1>3, <1>5 DEF PerfinitBuild

\* The other processes stay where they are.
LEMMA Stay ==
  ASSUME Base, NEW p \in Procs, Move(p), NEW q \in Procs \ {p}
  PROVE  pc'[q] = pc[q] /\ at'[q] = at[q]
BY OthersStay DEF Move

\* zram0 is built only where it has appeared.
LEMMA AbsentStep ==
  ASSUME Base, ZramAbsent, NEW p \in Procs, Move(p)
  PROVE  ZramAbsent'
<1>1. present' = present
  BY MoveBase
<1>2. Effect(p)
  BY StepEffect DEF Move, Base
<1>3. QED
  BY <1>1, <1>2, RestorerPresent DEF ZramAbsent, Effect, Base

\* A step inside a script leaves every process in its place.
LEMMA ControlInside ==
  ASSUME Base, Control, GateInv, BootTypeOK',
         \/ \E p \in {PostFs, Service_} : RunCtl(p) /\ UNCHANGED bootVars
         \/ /\ service = "apply" /\ pc[Service_] \notin Endings
            /\ Step(Service_) /\ ~RunCtl(Service_) /\ UNCHANGED bootVars
         \/ PerfinitBuild
  PROVE  Control'
<1> USE ActorsDistinct DEF Control, Move
<1>1. CASE \E p \in {PostFs, Service_} : RunCtl(p) /\ UNCHANGED bootVars
  <2>1. PICK p \in {PostFs, Service_} : RunCtl(p) /\ UNCHANGED bootVars
    BY <1>1
  <2>2. Move(p) /\ present' = present /\ ZramAbsent'
    BY <2>1, MoveBase, AbsentStep DEF Step
  <2>3. UNCHANGED <<pc, want, op>> /\ NoUnload'
    BY <2>1, LoadOnly, CtlKeepsApply DEF NoUnload
  <2>4. at[p] # "off" /\ \A q \in Procs \ {p} : at'[q] = at[q]
    BY <2>1, LoadOnly
  <2>5. PostFsAt' /\ ServiceAt' /\ PerfinitAt'
    BY <2>1, <2>2, <2>3, <2>4
       DEF PostFsAt, ServiceAt, PerfinitAt, bootVars, config
  <2>6. QED
    BY <2>2, <2>3, <2>5
<1>2. CASE /\ service = "apply" /\ pc[Service_] \notin Endings
           /\ Step(Service_) /\ ~RunCtl(Service_) /\ UNCHANGED bootVars
  <2>1. Move(Service_) /\ present' = present /\ ZramAbsent'
    BY <1>2, MoveBase, AbsentStep
  <2>2. pc[Service_] \notin {"idle"} \cup Endings
    BY <1>2 DEF ServiceAt
  <2>3. pc'[Service_] \notin {"idle", "default"}
        /\ \A q \in Procs \ {Service_} : want'[q] = want[q]
    BY <1>2, <2>2, ApplyFrame
  <2>4. NoUnload'
    <3>1. UNCHANGED ctlVars \/ CtlStart(Service_, "load") \/ CtlReap(Service_)
      BY <1>2, <2>2, ApplyFrame
    <3>2. QED
      BY <3>1 DEF NoUnload, CtlStart, CtlReap, ctlVars, Base, IInv, ScriptInv,
         CtlTypeOK
  <2>5. \A q \in Procs \ {Service_} : pc'[q] = pc[q] /\ at'[q] = at[q]
    BY <2>1, Stay
  <2>6. PostFsAt' /\ ServiceAt' /\ PerfinitAt'
    BY <1>2, <2>1, <2>3, <2>5
       DEF PostFsAt, ServiceAt, PerfinitAt, bootVars, config
  <2>7. QED
    BY <2>1, <2>4, <2>6
<1>3. CASE PerfinitBuild
  <2>1. Move(Perfinit) /\ present' = present /\ ZramAbsent'
    BY <1>3, MoveBase, AbsentStep DEF PerfinitBuild, Step
  <2>2. \A q \in Procs \ {Perfinit} : pc'[q] = pc[q]
    BY <2>1, Stay
  <2>3. NoUnload'
    BY <1>3, BuildFrame DEF NoUnload, ctlVars
  <2>4. PostFsAt' /\ ServiceAt' /\ PerfinitAt'
    BY <1>3, <2>1, <2>2, BuildFrame
       DEF PostFsAt, ServiceAt, PerfinitAt, bootVars, config, ctlVars, Built
  <2>5. QED
    BY <2>1, <2>3, <2>4
<1>4. QED
  BY <1>1, <1>2, <1>3

\* So do the steps of the boot scripts themselves and of Perfinit's start.
LEMMA ControlBetween ==
  ASSUME Base, Control, GateInv, BootTypeOK',
         \/ SvApply \/ SvDone \/ PerfinitStart \/ PerfinitEnd
         \/ Boundary(PostFs) /\ (PfGate \/ PfLoaded)
         \/ Boundary(Service_) /\ (SvGate \/ SvLoaded)
         \/ UNCHANGED vars /\ (PfGate \/ SvGate) /\ ~Gate
         \/ PfBind
         \/ UNCHANGED allVars
  PROVE  Control'
<1> USE ActorsDistinct
    DEF Control, Enter, Base, IInv, ScriptInv, CtlTypeOK, ApplyTypeOK
<1>1. CASE SvApply
  <2>1. Move(Service_) /\ present' = present /\ ZramAbsent'
    <3>1. "none" \in ArgValues
      BY DEF ArgValues
    <3>2. Start(Service_)
      BY <1>1, <3>1 DEF SvApply, ServiceAlgo, Start, BootTypeOK
    <3>3. QED
      BY <3>2, MoveBase, AbsentStep DEF Move
  <2>2. ServiceAlgo # "default"
    BY <1>1 DEF SvApply, GateInv
  <2>3. /\ pc' = [pc EXCEPT ![Service_] = "ready"]
        /\ want' = [want EXCEPT ![Service_] = ServiceAlgo]
        /\ UNCHANGED ctlVars /\ at[Service_] = "off"
    BY <1>1, <2>2 DEF SvApply, Apply, Running
  <2>4. PostFsAt' /\ ServiceAt' /\ NoUnload'
    BY <1>1, <2>1, <2>3
       DEF SvApply, PostFsAt, ServiceAt, NoUnload, config, ctlVars
  <2>5. PerfinitAt'
    BY <1>1, <2>1, <2>3 DEF SvApply, PerfinitAt, config, ctlVars
  <2>6. QED
    BY <2>1, <2>4, <2>5
<1>2. CASE SvDone
  <2>1. /\ pc' = [pc EXCEPT ![Service_] = "idle"]
        /\ UNCHANGED <<ctlVars, want, kernelVars>> /\ at[Service_] = "off"
    BY <1>2 DEF SvDone, Return, Endings, ScriptsApart, Apart
  <2>2. PostFsAt' /\ ServiceAt' /\ NoUnload' /\ ZramAbsent'
    BY <1>2, <2>1
       DEF SvDone, PostFsAt, ServiceAt, NoUnload, ctlVars, ZramAbsent,
           kernelVars
  <2>3. PerfinitAt'
    BY <1>2, <2>1 DEF SvDone, PerfinitAt, config, ctlVars, kernelVars
  <2>4. QED
    BY <2>2, <2>3
<1>3. CASE PerfinitStart
  <2>1. PostFsAt' /\ ServiceAt' /\ NoUnload' /\ ZramAbsent'
    BY <1>3 DEF PerfinitStart, PostFsAt, ServiceAt, NoUnload, ctlVars,
       ZramAbsent
  <2>2. PerfinitAt'
    BY <1>3 DEF PerfinitStart, PerfinitAt, ctlVars, config, Built, BootTypeOK
  <2>3. QED
    BY <2>1, <2>2
<1>4. CASE PerfinitEnd
  <2>1. PostFsAt' /\ ServiceAt' /\ NoUnload' /\ ZramAbsent'
    BY <1>4 DEF PerfinitEnd, Exit, PostFsAt, ServiceAt, NoUnload, ctlVars,
       ZramAbsent, kernelVars
  <2>2. PerfinitAt'
    BY <1>4 DEF PerfinitEnd, Exit, PerfinitAt, ctlVars, config, kernelVars
  <2>3. QED
    BY <2>1, <2>2
<1>5. CASE Boundary(PostFs) /\ (PfGate \/ PfLoaded)
  <2>1. ZramAbsent' /\ NoUnload'
    BY <1>5 DEF Boundary, CtlStart, CtlReap, NoUnload, ZramAbsent, kernelVars
  <2>2. PostFsAt' /\ ServiceAt'
    <3>1. PfGate => at[PostFs] = "off" /\ CtlStart(PostFs, "load")
      BY <1>5 DEF Boundary, CtlReap, CtlEndings, PfGate, PostFsAt
    <3>2. PfGate => postfs' = "load"
      BY <3>1 DEF PfGate, CtlStart, ctlVars
    <3>3. PfLoaded => postfs' = "algo" /\ at'[PostFs] = "off"
      BY DEF PfLoaded, CtlReap
    <3>4. UNCHANGED <<pc, service>> /\ at'[Service_] = at[Service_]
      BY <1>5 DEF Boundary, CtlStart, CtlReap, PfGate, PfLoaded, applyVars
    <3>5. service = "start" /\ UNCHANGED late
      BY <1>5 DEF PfGate, PfLoaded, ServiceAt
    <3>6. QED
      BY <1>5, <3>2, <3>3, <3>4, <3>5 DEF PostFsAt, ServiceAt
  <2>3. PerfinitAt'
    BY <1>5 DEF Boundary, CtlStart, CtlReap, PfGate, PfLoaded, PerfinitAt,
       applyVars, kernelVars, config
  <2>4. QED
    BY <2>1, <2>2, <2>3
<1>6. CASE Boundary(Service_) /\ (SvGate \/ SvLoaded)
  <2>1. ZramAbsent' /\ NoUnload'
    BY <1>6 DEF Boundary, CtlStart, CtlReap, NoUnload, ZramAbsent, kernelVars
  <2>2. PostFsAt' /\ ServiceAt'
    <3>1. SvGate => at[Service_] = "off" /\ CtlStart(Service_, "load")
      BY <1>6 DEF Boundary, CtlReap, CtlEndings, SvGate, ServiceAt
    <3>2. SvGate => service' = "load" /\ postfs' = "done"
      BY <3>1 DEF SvGate, CtlStart, ctlVars
    <3>3. SvLoaded => /\ service' \in {"wait", "done"} /\ at'[Service_] = "off"
                      /\ postfs' = "done"
      BY DEF SvLoaded, CtlReap, ServiceAt
    <3>4. UNCHANGED <<pc, postfs>> /\ at'[PostFs] = at[PostFs]
      BY <1>6 DEF Boundary, CtlStart, CtlReap, SvGate, SvLoaded, applyVars
    <3>5. pc[Service_] = "idle" /\ UNCHANGED late /\ ~late
      BY <1>6 DEF Boundary, SvGate, SvLoaded, ServiceAt
    <3>6. QED
      BY <1>6, <3>2, <3>3, <3>4, <3>5 DEF PostFsAt, ServiceAt
  <2>3. PerfinitAt'
    BY <1>6 DEF Boundary, CtlStart, CtlReap, SvGate, SvLoaded, PerfinitAt,
       applyVars, kernelVars, config
  <2>4. QED
    BY <2>1, <2>2, <2>3
<1>7. CASE UNCHANGED vars /\ (PfGate \/ SvGate) /\ ~Gate
  <2>1. ZramAbsent' /\ NoUnload'
    BY <1>7 DEF vars, ctlVars, NoUnload, ZramAbsent, kernelVars
  <2>2. PostFsAt' /\ ServiceAt'
    BY <1>7 DEF vars, ctlVars, applyVars, Gate, PfGate, SvGate, PostFsAt,
       ServiceAt
  <2>3. PerfinitAt'
    BY <1>7 DEF vars, ctlVars, applyVars, Gate, PfGate, SvGate, PerfinitAt,
       kernelVars, config
  <2>4. QED
    BY <2>1, <2>2, <2>3
<1>8. CASE PfBind \/ UNCHANGED allVars
  <2>1. UNCHANGED vars
    BY <1>8 DEF PfBind, allVars
  <2>2. ZramAbsent' /\ NoUnload'
    BY <2>1 DEF vars, ctlVars, NoUnload, ZramAbsent, kernelVars
  <2>3. PostFsAt' /\ ServiceAt'
    BY <1>8, <2>1 DEF vars, ctlVars, applyVars, PfBind, PostFsAt, ServiceAt,
       allVars, bootVars
  <2>4. PerfinitAt'
    BY <1>8, <2>1 DEF vars, ctlVars, applyVars, PfBind, PerfinitAt, kernelVars,
       config, allVars, bootVars
  <2>5. QED
    BY <2>2, <2>3, <2>4
<1>9. QED
  BY <1>1, <1>2, <1>3, <1>4, <1>5, <1>6, <1>7, <1>8

\* Every step of a boot keeps every process in its place.
LEMMA ControlStep ==
  ASSUME BootInv, BootStep
  PROVE  Control'
<1>1. BootTypeOK'
  BY BootTypeStep DEF BootInv, Control
<1>2. QED
  BY <1>1, ControlInside, ControlBetween DEF BootInv, BootStep

-----------------------------------------------------------------------------
(* The swap, and the gate. *)

\* A step inside a script keeps the swap or the duty to bring it back.
LEMMA MoveSwap ==
  ASSUME Base, SwapSurvives, NEW p \in Procs, Move(p)
  PROVE  SwapSurvives'
<1> SUFFICES ASSUME ~faulted', Zram0 \in present' PROVE Duty'
  BY DEF SwapSurvives, Duty
<1>1. Effect(p) /\ present' = present
  BY StepEffect, MoveBase DEF Move, Base
<1>2. Duty
  BY <1>1 DEF Effect, SwapSurvives, Duty
<1>3. QED
  BY <1>1, <1>2, DutyKept

\* So does every step of a boot: Perfinit takes the duty up when zram0 appears.
LEMMA BootSwapStep ==
  ASSUME BootInv, BootStep
  PROVE  SwapSurvives'
<1> USE ActorsDistinct DEF BootInv
<1>1. CASE \E p \in Procs : Move(p)
  BY <1>1, MoveSwap
<1>2. CASE UNCHANGED <<kernelVars, pc>>
  BY <1>2 DEF SwapSurvives, Restorer, kernelVars
<1>3. Boundary(PostFs) \/ Boundary(Service_) => UNCHANGED <<kernelVars, pc>>
  BY DEF Boundary, applyVars
<1>4. UNCHANGED vars => UNCHANGED <<kernelVars, pc>>
  BY DEF vars, applyVars
<1>5. CASE PerfinitStart
  <2>1. Zram0 \notin present /\ size[Zram0] = 0
    BY <1>5 DEF PerfinitStart, Enter, Control, PerfinitAt, ZramAbsent
  <2>2. Restorer(Perfinit)'
    BY <1>5, <2>1 DEF PerfinitStart, Restorer, Base, IInv, ScriptInv,
       ApplyTypeOK
  <2>3. QED
    BY <2>2 DEF SwapSurvives
<1>6. CASE PerfinitEnd
  <2>1. ~Restorer(Perfinit)
    BY <1>6 DEF PerfinitEnd, Restorer
  <2>2. \A q \in Procs \ {Perfinit} : Restorer(q) => Restorer(q)'
    BY <1>6 DEF PerfinitEnd, Exit, Restorer, kernelVars, Base, IInv, ScriptInv,
       ApplyTypeOK
  <2>3. QED
    BY <1>6, <2>1, <2>2 DEF PerfinitEnd, SwapSurvives, kernelVars
<1>7. QED
  BY <1>1, <1>2, <1>3, <1>4, <1>5, <1>6, BootMoves
     DEF BootStep, Control, PfBind, allVars

\* What the apply of service.sh aims at.
LEMMA ServiceAlgoType ==
  ASSUME BootTypeOK
  PROVE  /\ ServiceAlgo \in Algos \cup {"default"}
         /\ ServiceAlgo = "default" <=> zramAlgo = "default"
         /\ zramAlgo \in Algos => ServiceAlgo = zramAlgo
BY DEF BootTypeOK, ServiceAlgo, AlgoOf, FileValues, Algos

\* Perfinit names an algorithm only if the module's file is bound.
LEMMA BuildComp ==
  ASSUME Base, PerfinitBuild, pc[Perfinit] # "comp"
  PROVE  comp' = comp
<1> USE DEF PerfinitBuild, moduleVars, kernelVars
<1>1. CASE SetSize(Perfinit)
  BY <1>1 DEF SetSize, DisksizeLock, DisksizeBusy
<1>2. CASE AllocStreams(Perfinit)
  BY <1>2 DEF AllocStreams, AllocStream, AllocErr, DisksizeDone
<1>3. CASE Mkswap(Perfinit) \/ Swapon(Perfinit)
  BY <1>3 DEF Mkswap, Swapon, MkswapOk, MkswapErr, SwaponOk, SwaponErr, zramVars
<1>4. QED
  BY <1>1, <1>2, <1>3 DEF SetAlgo

\* Nothing gets past the gate.
LEMMA GateStep ==
  ASSUME BootInv, BootStep
  PROVE  GateInv'
<1> USE ActorsDistinct DEF BootInv, Control, GateInv, Gate, Enter
<1>1. UNCHANGED config /\ ServiceAlgo' = ServiceAlgo
  BY ConfigConstant DEF config, ServiceAlgo
<1>2. ServiceAlgo = "default" <=> zramAlgo = "default"
  BY ServiceAlgoType
<1>3. CASE \E p \in {PostFs, Service_} : RunCtl(p) /\ UNCHANGED bootVars
  <2>1. PICK p \in {PostFs, Service_} : RunCtl(p) /\ UNCHANGED bootVars
    BY <1>3
  <2>2. at[p] # "off"
    BY <2>1, LoadOnly
  <2>3. Gate
    BY <2>2 DEF PostFsAt, ServiceAt
  <2>4. UNCHANGED <<comp, tuned>>
    BY <2>1, CtlKeepsApply DEF RunCtl, applyVars
  <2>5. QED
    BY <1>1, <2>1, <2>3, <2>4 DEF bootVars, config
<1>4. CASE /\ service = "apply" /\ pc[Service_] \notin Endings
           /\ Step(Service_) /\ UNCHANGED bootVars
  BY <1>1, <1>2, <1>4 DEF bootVars, config
<1>5. CASE SvApply \/ SvDone
  <2>1. CASE SvApply
    BY <1>1, <1>2, <2>1 DEF SvApply, config
  <2>2. CASE SvDone
    BY <1>1, <1>2, <2>2 DEF SvDone, Return, kernelVars, config
  <2>3. QED
    BY <1>5, <2>1, <2>2
<1>6. CASE PerfinitBuild
  <2>1. UNCHANGED <<tuned, listed, bootVars>>
    BY <1>6, BuildFrame
  <2>2. CASE pc[Perfinit] = "comp"
    <3>1. Gate /\ zramAlgo # "default"
      BY <2>2 DEF PerfinitAt, Algos
    <3>2. QED
      BY <1>1, <2>1, <3>1 DEF bootVars, config
  <2>3. CASE pc[Perfinit] # "comp"
    <3>1. comp' = comp
      BY <1>6, <2>3, BuildComp
    <3>2. QED
      BY <1>1, <2>1, <3>1 DEF bootVars, config
  <2>4. QED
    BY <2>2, <2>3
<1>7. CASE PerfinitStart
  <2>1. CASE bound
    BY <1>1, <1>7, <2>1 DEF PerfinitStart, config, moduleVars, Algos
  <2>2. CASE ~bound
    BY <1>1, <1>7, <2>2 DEF PerfinitStart, config, moduleVars
  <2>3. QED
    BY <2>1, <2>2
<1>8. CASE PerfinitEnd
  BY <1>1, <1>8 DEF PerfinitEnd, Exit, config, kernelVars
<1>9. CASE Boundary(PostFs) /\ (PfGate \/ PfLoaded)
  <2>1. UNCHANGED <<tuned, comp, listed, bound, service>>
    BY <1>9 DEF Boundary, applyVars, kernelVars, PfGate, PfLoaded
  <2>2. bound => postfs' = "done"
    BY <1>9 DEF PfGate, PfLoaded
  <2>3. postfs' \in {"load", "algo"} => Gate
    BY <1>9 DEF PfGate, PfLoaded
  <2>4. QED
    BY <1>1, <2>1, <2>2, <2>3 DEF config
<1>10. CASE Boundary(Service_) /\ (SvGate \/ SvLoaded)
  <2>1. UNCHANGED <<tuned, comp, listed, bound, postfs>>
    BY <1>10 DEF Boundary, applyVars, kernelVars, SvGate, SvLoaded
  <2>2. service' \in {"load", "wait", "apply"} => Gate
    BY <1>10 DEF SvGate, SvLoaded
  <2>3. service' \in {"wait", "apply"} => ServiceAlgo # "default"
    BY <1>10 DEF SvGate, SvLoaded
  <2>4. QED
    BY <1>1, <2>1, <2>2, <2>3 DEF config
<1>11. CASE UNCHANGED vars /\ (PfGate \/ SvGate) /\ ~Gate
  <2>1. UNCHANGED <<tuned, comp, listed, bound>>
    BY <1>11 DEF vars, applyVars, kernelVars, PfGate, SvGate
  <2>2. ~bound /\ postfs' \notin {"load", "algo"}
        /\ service' \notin {"load", "wait", "apply"}
    BY <1>11 DEF PfGate, SvGate
  <2>3. QED
    BY <1>1, <2>1, <2>2 DEF config
<1>12. CASE PfBind
  BY <1>1, <1>12 DEF PfBind, vars, applyVars, kernelVars, config, BootTypeOK
<1>13. CASE UNCHANGED allVars
  BY <1>1, <1>13 DEF allVars, bootVars, vars, applyVars, kernelVars, config
<1>14. QED
  BY <1>3, <1>4, <1>5, <1>6, <1>7, <1>8, <1>9, <1>10, <1>11, <1>12, <1>13
     DEF BootStep

-----------------------------------------------------------------------------
(* What a boot that can serve reaches. *)

\* A failure is never forgotten, and a kernel keeps its mind.
LEMMA FaultedStays ==
  ASSUME Base, BootTypeOK, BootStep
  PROVE  (faulted => faulted') /\ accepts' = accepts
<1> USE ActorsDistinct
<1>1. ASSUME NEW p \in Procs, Move(p)
      PROVE  (faulted => faulted') /\ accepts' = accepts
  BY <1>1, StepEffect, CtlKeepsApply, OnlyCtlLoads DEF Move, Effect, Base
<1>2. CASE UNCHANGED kernelVars
  BY <1>2 DEF kernelVars
<1>3. CASE PerfinitStart
  BY <1>3 DEF PerfinitStart, moduleVars
<1>4. QED
  BY <1>1, <1>2, <1>3, BootMoves
     DEF BootStep, Boundary, PerfinitEnd, PfBind, vars, allVars

\* The streams of zram0 after a step of a script: old, freed or looked up.
LEMMA StreamsStep ==
  ASSUME Base, NEW p \in Procs, Step(p), NEW c \in Cpus
  PROVE  \/ /\ comp'[Zram0] = comp[Zram0]
            /\ streams'[Zram0][c] \in
                 {streams[Zram0][c], "none", Lookup(comp[Zram0])}
         \/ streams'[Zram0][c] = "none"
<1> USE DevsAssumption
    DEF Base, IInv, KernelInv, KernelTypeOK, moduleVars, zramVars, NoStreams
<1>1. CASE RunCtl(p)
  BY <1>1, CtlKeepsApply
<1>2. CASE CheckReady(p) \/ EnsureDriver(p) \/ EnsureReturns(p) \/ ReadAlgo(p)
           \/ ReadRefcnt(p) \/ SwapLoop(p) \/ CheckSwap(p) \/ ReadSize(p)
           \/ Report(p) \/ Return(p)
  BY <1>2 DEF CheckReady, EnsureDriver, EnsureReturns, ReadAlgo, ReadRefcnt,
     SwapLoop, CheckSwap, ReadSize, Report, Return, kernelVars
<1>3. CASE Swapoff(p) \/ Mkswap(p) \/ Swapon(p)
  BY <1>3 DEF Swapoff, Mkswap, Swapon, SwapoffOk, SwapoffErr, MkswapOk,
     MkswapErr, SwaponOk, SwaponErr
<1>4. CASE Reset(p)
  BY <1>4 DEF Reset, ResetOk, ResetErr
<1>5. CASE SetAlgo(p)
  <2>1. CASE CompOk(Zram0, want[p])
    BY <2>1 DEF CompOk, Unlocked, IdleWithoutStreams
  <2>2. CASE CompErr(Zram0)
    BY <2>2 DEF CompErr
  <2>3. QED
    BY <1>5, <2>1, <2>2 DEF SetAlgo
<1>6. CASE SetSize(p)
  BY <1>6 DEF SetSize, DisksizeLock, DisksizeBusy, kernelVars
<1>7. CASE AllocStreams(p)
  BY <1>7 DEF AllocStreams, AllocStream, AllocErr, DisksizeDone
<1>8. QED
  BY <1>1, <1>2, <1>3, <1>4, <1>5, <1>6, <1>7 DEF Step

\* The early load, alone in zstd-upgrade.sh, keeps what it has reached.
LEMMA PostFsLoad ==
  ASSUME BootInv, BootStep, postfs' = "load"
  PROVE  CtlSolo(PostFs)'
<1> USE ActorsDistinct DEF BootInv, Control, ServeInv
<1>1. CASE RunCtl(PostFs) /\ UNCHANGED bootVars
  <2>1. postfs = "load" /\ service = "start"
    BY <1>1 DEF bootVars, ServiceAt
  <2>2. CtlAlone(PostFs)
    BY <2>1, ActorsAssumption DEF CtlAlone, ServiceAt, PerfinitAt
  <2>3. QED
    BY <1>1, <2>1, <2>2, CtlSoloStep
<1>2. CASE RunCtl(Service_) /\ UNCHANGED bootVars
  <2>1. at[Service_] # "off"
    BY <1>2, LoadOnly
  <2>2. postfs = "done" /\ postfs' = postfs
    BY <1>2, <2>1 DEF ServiceAt, bootVars
  <2>3. QED
    BY <2>2
<1>3. CASE /\ service = "apply" /\ pc[Service_] \notin Endings
           /\ Step(Service_) /\ UNCHANGED bootVars
  BY <1>3 DEF ServiceAt, bootVars
<1>4. CASE SvApply \/ SvDone \/ PfLoaded \/ SvGate \/ SvLoaded \/ PfBind
  BY <1>4 DEF SvApply, SvDone, PfLoaded, SvGate, SvLoaded, PfBind, Enter,
     ServiceAt
<1>5. CASE PfGate
  <2>1. CtlStart(PostFs, "load")
    BY <1>5 DEF PfGate
  <2>2. QED
    BY <2>1 DEF CtlStart, CtlSolo, Base, IInv, ScriptInv, CtlTypeOK
<1>6. CASE PerfinitBuild \/ PerfinitStart \/ PerfinitEnd \/ UNCHANGED allVars
  <2>1. UNCHANGED <<ctlVars, listed, registered, accepts, postfs>>
    <3>1. CASE PerfinitBuild
      BY <3>1, BuildFrame DEF bootVars
    <3>2. CASE PerfinitStart \/ PerfinitEnd \/ UNCHANGED allVars
      BY <3>2 DEF PerfinitStart, PerfinitEnd, moduleVars, kernelVars, allVars,
         vars, bootVars
    <3>3. QED
      BY <1>6, <3>1, <3>2
  <2>2. faulted => faulted'
    BY FaultedStays
  <2>3. CtlSolo(PostFs)
    BY <2>1
  <2>4. QED
    BY <2>1, <2>2, <2>3 DEF CtlSolo, ctlVars
<1>7. QED
  BY <1>1, <1>2, <1>3, <1>4, <1>5, <1>6 DEF BootStep

\* During a boot a registered driver stays registered.
LEMMA RegisteredStays ==
  ASSUME Base, Control, BootStep
  PROVE  registered \subseteq registered'
<1> USE ActorsDistinct DEF Control
<1>1. CASE \E p \in {PostFs, Service_} : RunCtl(p)
  BY <1>1, LoadOnly
<1>2. CASE /\ service = "apply" /\ pc[Service_] \notin Endings
           /\ Step(Service_) /\ ~RunCtl(Service_)
  BY <1>2, OnlyCtlLoads
<1>3. CASE PerfinitBuild
  BY <1>3, BuildFrame
<1>4. CASE SvApply \/ SvDone \/ PerfinitStart \/ PerfinitEnd \/ PfBind
           \/ Boundary(PostFs) \/ Boundary(Service_) \/ UNCHANGED vars
  BY <1>4 DEF SvApply, Apply, SvDone, Return, PerfinitStart, PerfinitEnd,
     PfBind, Boundary, moduleVars, kernelVars, vars
<1>5. QED
  BY <1>1, <1>2, <1>3, <1>4 DEF BootStep, allVars

\* post-fs-data.sh ends with both drivers registered if nothing fails.
LEMMA EarlyRegistration ==
  ASSUME BootInv, BootStep, CanServe', ~faulted', postfs' \in {"algo", "done"}
  PROVE  Algos \subseteq registered'
<1> USE DEF BootInv, Control
<1>1. UNCHANGED <<enabled, matches, zramAlgo>>
  BY ConfigConstant DEF config
<1>2. ~faulted /\ accepts' = accepts
  BY FaultedStays
<1>3. CanServe
  BY <1>1, <1>2 DEF CanServe, ServiceAlgo
<1>4. CASE postfs \in {"algo", "done"}
  BY <1>2, <1>3, <1>4, RegisteredStays DEF ServeInv
<1>5. CASE postfs \notin {"algo", "done"}
  <2>1. CASE PfGate
    BY <1>3, <1>5, <2>1 DEF PfGate, CanServe
  <2>2. CASE PfLoaded /\ Boundary(PostFs)
    <3>1. CtlSolo(PostFs) /\ accepts = Algos /\ registered' = registered
      BY <1>3, <2>2 DEF PfLoaded, Enter, ServeInv, CanServe, kernelVars
    <3>2. at[PostFs] \in {"ok", "err"} /\ op[PostFs] = "load"
      BY <2>2, ActorsDistinct DEF PfLoaded, CtlReap, CtlEndings, NoUnload
    <3>3. QED
      BY <1>2, <3>1, <3>2 DEF CtlSolo
  <2>3. CASE UNCHANGED postfs
    BY <1>5, <2>3
  <2>4. QED
    BY <1>5, <2>1, <2>2, <2>3, BuildFrame
       DEF BootStep, bootVars, SvApply, SvDone, PerfinitStart, PerfinitEnd,
           SvGate, SvLoaded, PfBind, Enter, allVars
<1>6. QED
  BY <1>4, <1>5

\* Whoever names lz4 or zstd in zram0 then builds it on the new drivers only.
LEMMA NewOnlyStep ==
  ASSUME BootInv, BootStep, CanServe', ~faulted', comp'[Zram0] \in Algos
  PROVE  NewOnly'
<1> USE ActorsDistinct DEF BootInv, Control
<1>1. UNCHANGED <<enabled, matches, zramAlgo>>
  BY ConfigConstant DEF config
<1>2. ~faulted /\ accepts' = accepts /\ registered \subseteq registered'
  BY FaultedStays, RegisteredStays
<1>3. CanServe
  BY <1>1, <1>2 DEF CanServe, ServiceAlgo
<1>4. CASE UNCHANGED <<comp, streams>>
  <2>1. NewOnly
    BY <1>2, <1>3, <1>4 DEF ServeInv
  <2>2. QED
    BY <1>2, <1>4, <2>1 DEF NewOnly
<1>5. ASSUME NEW p \in {Service_, Perfinit}, Step(p),
             postfs = "done" \/ comp' = comp
      PROVE  NewOnly'
  <2>1. Algos \subseteq registered
    BY <1>2, <1>3, <1>5 DEF ServeInv, NewOnly
  <2>2. ASSUME NEW c \in Cpus PROVE streams'[Zram0][c] \in {"none", "new"}
    <3>1. CASE streams'[Zram0][c] = "none"
      BY <3>1
    <3>2. CASE /\ comp'[Zram0] = comp[Zram0]
               /\ streams'[Zram0][c] \in
                    {streams[Zram0][c], "none", Lookup(comp[Zram0])}
      BY <1>2, <1>3, <2>1, <3>2 DEF ServeInv, NewOnly, Lookup
    <3>3. QED
      BY <1>5, <3>1, <3>2, StreamsStep
  <2>3. QED
    BY <1>2, <2>1, <2>2 DEF NewOnly
<1>6. CASE /\ service = "apply" /\ pc[Service_] \notin Endings
           /\ Step(Service_)
  BY <1>5, <1>6 DEF ServiceAt
<1>7. CASE PerfinitBuild
  <2>1. Step(Perfinit)
    BY <1>7 DEF PerfinitBuild, Step
  <2>2. postfs = "done" \/ comp' = comp
    BY <1>7, BuildComp DEF PerfinitAt, GateInv
  <2>3. QED
    BY <1>5, <2>1, <2>2
<1>8. CASE SvApply \/ SvDone \/ PerfinitStart \/ PerfinitEnd \/ PfBind
           \/ Boundary(PostFs) \/ Boundary(Service_) \/ UNCHANGED vars
  <2>1. UNCHANGED <<comp, streams>>
    BY <1>8 DEF SvApply, Apply, SvDone, Return, PerfinitStart, PerfinitEnd,
       PfBind, Boundary, kernelVars, vars
  <2>2. QED
    BY <1>4, <2>1
<1>9. CASE \E p \in {PostFs, Service_} : RunCtl(p)
  BY <1>4, <1>9, CtlKeepsApply
<1>10. QED
  BY <1>6, <1>7, <1>8, <1>9 DEF BootStep, allVars

\* page-cluster stays set, and service.sh applies after Perfinit or is late.
LEMMA TunedAndLate ==
  ASSUME BootInv, BootStep
  PROVE  /\ CanServe' /\ service' \in {"apply", "done"} => tuned'
         /\ ~late' /\ (service' = "apply" \/ (service' = "done" /\ CanServe'))
              => perfinit' = "finished"
<1> USE ActorsDistinct DEF BootInv, Control, Enter
<1>1. UNCHANGED config /\ accepts' = accepts
  BY ConfigConstant, FaultedStays
<1>2. CanServe' = CanServe
  BY <1>1 DEF CanServe, ServiceAlgo, config
<1>3. CASE UNCHANGED <<service, late>> /\ (tuned => tuned')
           /\ (perfinit = "finished" => perfinit' = "finished")
  BY <1>2, <1>3 DEF ServeInv
<1>4. CASE \E p \in {PostFs, Service_} : RunCtl(p) /\ UNCHANGED bootVars
  BY <1>3, <1>4 DEF RunCtl, applyVars, bootVars
<1>5. CASE /\ service = "apply" /\ pc[Service_] \notin Endings
           /\ Step(Service_) /\ UNCHANGED bootVars
  <2>1. CASE RunCtl(Service_)
    BY <1>4, <1>5, <2>1
  <2>2. CASE ~RunCtl(Service_)
    <3>1. tuned' = tuned
      BY <1>5, <2>2, ApplyFrame DEF ServiceAt
    <3>2. QED
      BY <1>3, <1>5, <3>1 DEF bootVars
  <2>3. QED
    BY <2>1, <2>2
<1>6. CASE PerfinitBuild
  BY <1>3, <1>6, BuildFrame DEF bootVars
<1>7. CASE PerfinitStart
  <2>1. (tuned => tuned') /\ UNCHANGED <<service, late>>
    BY <1>7, Zenon DEF PerfinitStart
  <2>2. perfinit # "finished"
    BY <1>7 DEF PerfinitStart
  <2>3. QED
    BY <1>3, <2>1, <2>2
<1>8. CASE PerfinitEnd
  BY <1>3, <1>8 DEF PerfinitEnd, Exit
<1>9. CASE SvApply
  <2>1. service' = "apply" /\ late' = (perfinit # "finished")
        /\ perfinit' = perfinit
    BY <1>9 DEF SvApply
  <2>2. ServiceAlgo # "default" /\ tuned'
    BY <1>9 DEF SvApply, Apply, GateInv
  <2>3. QED
    BY <2>1, <2>2
<1>10. CASE SvDone
  BY <1>2, <1>10 DEF SvDone, Return, ServeInv
<1>11. CASE Boundary(PostFs) /\ (PfGate \/ PfLoaded)
  BY <1>3, <1>11 DEF Boundary, PfGate, PfLoaded, applyVars
<1>12. CASE Boundary(Service_) /\ (SvGate \/ SvLoaded)
  BY <1>2, <1>12 DEF SvGate, SvLoaded, CanServe
<1>13. CASE UNCHANGED vars /\ (PfGate \/ SvGate) /\ ~Gate
  <2>1. \/ ~CanServe /\ service' # "apply"
        \/ UNCHANGED <<service, late, perfinit>>
    BY <1>13 DEF PfGate, SvGate, CanServe, Gate
  <2>2. QED
    BY <1>2, <1>3, <1>13, <2>1 DEF vars, applyVars
<1>14. CASE PfBind \/ UNCHANGED allVars
  BY <1>3, <1>14 DEF PfBind, vars, applyVars, allVars, bootVars
<1>15. QED
  BY <1>4, <1>5, <1>6, <1>7, <1>8, <1>9, <1>10, <1>11, <1>12, <1>13, <1>14
     DEF BootStep

\* Every step of the boot keeps what a boot that can serve has reached.
LEMMA ServeStep ==
  ASSUME BootInv, BootStep
  PROVE  ServeInv'
BY PostFsLoad, EarlyRegistration, NewOnlyStep, TunedAndLate DEF ServeInv

-----------------------------------------------------------------------------
(* The apply of service.sh. *)

\* During the apply only service.sh and Perfinit move, and Perfinit only in a
\* boot in which it was late.
LEMMA ApplyAlone ==
  ASSUME BootInv, service = "apply", ~late
  PROVE  Alone(Service_) /\ perfinit = "finished" /\ Zram0 \in present
<1> USE DEF BootInv, Control
<1>1. perfinit = "finished"
  BY DEF ServeInv
<1>2. postfs = "done"
  BY DEF ServiceAt
<1>3. QED
  BY <1>1, <1>2, ActorsAssumption
     DEF Alone, Running, PostFsAt, PerfinitAt

\* What a step does once service.sh is in its apply.
LEMMA DuringApply ==
  ASSUME BootInv, BootStep, service = "apply"
  PROVE  \/ Step(Service_) /\ pc[Service_] \notin Endings /\ UNCHANGED bootVars
         \/ SvDone
         \/ /\ UNCHANGED <<service, late>> /\ late
            /\ pc'[Service_] = pc[Service_] /\ want'[Service_] = want[Service_]
         \/ UNCHANGED allVars
<1> USE ActorsDistinct DEF BootInv, Control
<1>1. postfs = "done"
  BY DEF ServiceAt
<1>2. CASE RunCtl(PostFs) /\ UNCHANGED bootVars
  BY <1>1, <1>2, LoadOnly DEF PostFsAt
<1>3. CASE RunCtl(Service_) /\ UNCHANGED bootVars
  <2>1. pc[Service_] \notin Endings
    BY <1>3, LoadOnly DEF Base, ScriptsApart, Apart, Endings
  <2>2. QED
    BY <1>3, <2>1 DEF Step
<1>4. CASE PerfinitBuild
  <2>1. perfinit # "finished"
    BY <1>4, BuildFrame DEF PerfinitAt
  <2>2. late
    BY <2>1 DEF ServeInv
  <2>3. Move(Perfinit)
    BY <1>4 DEF PerfinitBuild, Step, Move
  <2>4. pc'[Service_] = pc[Service_]
    BY <2>3, Stay
  <2>5. UNCHANGED bootVars /\ want'[Service_] = want[Service_]
    BY <1>4, BuildFrame
  <2>6. QED
    BY <2>2, <2>4, <2>5 DEF bootVars
<1>5. CASE PerfinitStart
  <2>1. late
    BY <1>5 DEF PerfinitStart, Enter, ServeInv
  <2>2. QED
    BY <1>5, <2>1
       DEF PerfinitStart, Base, IInv, ScriptInv, ApplyTypeOK
<1>6. CASE PerfinitEnd
  <2>1. late
    BY <1>6 DEF PerfinitEnd, ServeInv
  <2>2. QED
    BY <1>6, <2>1 DEF PerfinitEnd, Exit, Base, IInv, ScriptInv, ApplyTypeOK
<1>7. ~SvApply /\ ~PfGate /\ ~PfLoaded /\ ~SvGate /\ ~SvLoaded /\ ~PfBind
  BY <1>1 DEF SvApply, PfGate, PfLoaded, SvGate, SvLoaded, PfBind, Enter
<1>8. QED
  BY <1>2, <1>3, <1>4, <1>5, <1>6, <1>7 DEF BootStep

\* The apply keeps its target until it exits.
LEMMA TargetStep ==
  ASSUME BootInv, BootStep, service' = "apply", pc'[Service_] \notin Endings
  PROVE  want'[Service_] = ServiceAlgo'
<1> USE ActorsDistinct DEF BootInv, Control
<1>1. ServiceAlgo' = ServiceAlgo
  BY ConfigConstant DEF config, ServiceAlgo
<1>2. CASE service # "apply"
  <2>1. SvApply
    BY <1>2, BuildFrame
       DEF BootStep, bootVars, SvDone, PerfinitStart, PerfinitEnd, PfGate,
           PfLoaded, SvGate, SvLoaded, PfBind, allVars, Enter
  <2>2. QED
    BY <1>1, <2>1
       DEF SvApply, Apply, Base, IInv, ScriptInv, ApplyTypeOK
<1>3. CASE service = "apply"
  <2>1. CASE Step(Service_) /\ pc[Service_] \notin Endings
    <3>1. want[Service_] = ServiceAlgo
      BY <1>3, <2>1 DEF ApplyInv
    <3>2. want'[Service_] = want[Service_]
      <4>1. CASE RunCtl(Service_)
        BY <4>1, CtlKeepsApply
      <4>2. CASE ~RunCtl(Service_)
        BY <1>3, <2>1, <4>2, ApplyFrame DEF ServiceAt
      <4>3. QED
        BY <4>1, <4>2
    <3>3. QED
      BY <1>1, <3>1, <3>2
  <2>2. ~SvDone
    BY DEF SvDone, Enter
  <2>3. CASE pc'[Service_] = pc[Service_] /\ want'[Service_] = want[Service_]
    BY <1>1, <1>3, <2>3 DEF ApplyInv
  <2>4. UNCHANGED allVars =>
          pc'[Service_] = pc[Service_] /\ want'[Service_] = want[Service_]
    BY DEF allVars, vars, applyVars
  <2>5. QED
    BY <1>3, <2>1, <2>2, <2>3, <2>4, DuringApply
<1>4. QED
  BY <1>2, <1>3

\* An apply that runs after Perfinit runs alone.
LEMMA ApplySoloStep ==
  ASSUME BootInv, BootStep, service' = "apply", ~late'
  PROVE  SoloFacts(Service_)'
<1> USE ActorsDistinct DEF BootInv, Control
<1>1. CASE service # "apply"
  <2>1. SvApply
    BY <1>1, BuildFrame
       DEF BootStep, bootVars, SvDone, PerfinitStart, PerfinitEnd, PfGate,
           PfLoaded, SvGate, SvLoaded, PfBind, allVars, Enter
  <2>2. "none" \in ArgValues
    BY DEF ArgValues
  <2>3. Start(Service_)
    BY <2>1, <2>2 DEF SvApply, ServiceAlgo, Start, BootTypeOK
  <2>4. QED
    BY <2>3, SoloStart
<1>2. CASE service = "apply"
  <2>1. CASE Step(Service_) /\ UNCHANGED bootVars
    <3>1. ~late
      BY <2>1 DEF bootVars
    <3>2. Alone(Service_) /\ SoloFacts(Service_)
      BY <1>2, <3>1, ApplyAlone DEF ApplyInv
    <3>3. QED
      BY <2>1, <3>2, SoloStep
  <2>2. ~SvDone
    BY DEF SvDone, Enter
  <2>3. CASE UNCHANGED allVars
    <3>1. SoloFacts(Service_)
      BY <1>2, <2>3 DEF ApplyInv, allVars, bootVars
    <3>2. QED
      BY <2>3, <3>1 DEF SoloFacts, CtlSolo, DriverSolo, DeviceSolo, Lookup,
         allVars, vars, kernelVars, ctlVars, applyVars
  <2>4. QED
    BY <1>2, <2>1, <2>2, <2>3, DuringApply
<1>3. QED
  BY <1>1, <1>2

\* And it ends with the swap on and the chosen algorithm named.
LEMMA ApplyDoneStep ==
  ASSUME BootInv, BootStep, CanServe', ~faulted', ~late', ApplyDone'
  PROVE  (Zram0 \in swap /\ comp[Zram0] = ServiceAlgo)'
<1> USE ActorsDistinct DEF BootInv, Control
<1>1. UNCHANGED config /\ accepts' = accepts /\ ~faulted
  BY ConfigConstant, FaultedStays
<1>2. CanServe /\ ServiceAlgo' = ServiceAlgo /\ ServiceAlgo \in Algos
  BY <1>1, ServiceAlgoType DEF CanServe, ServiceAlgo, config
<1>3. CASE UNCHANGED <<swap, comp, late>> /\ ApplyDone
  BY <1>1, <1>2, <1>3 DEF ApplyInv
<1>4. CASE service = "apply"
  <2>1. CASE Step(Service_) /\ pc[Service_] \notin Endings /\ UNCHANGED bootVars
    <3>1. ~late /\ service' = "apply" /\ pc'[Service_] \in Endings
      BY <1>4, <2>1 DEF bootVars, ApplyDone
    <3>2. Alone(Service_) /\ SoloFacts(Service_) /\ Zram0 \in present
      BY <1>4, <3>1, ApplyAlone DEF ApplyInv
    <3>3. want[Service_] = ServiceAlgo /\ Exits(Service_)
      BY <1>4, <2>1, <3>1 DEF ApplyInv, Exits
    <3>4. (Zram0 \in swap /\ comp[Zram0] = ServiceAlgo)'
      BY <1>1, <1>2, <2>1, <3>2, <3>3, SuccessStep DEF CanServe
    <3>5. QED
      BY <3>4
  <2>2. CASE SvDone
    BY <1>3, <1>4, <2>2 DEF SvDone, Return, ApplyDone, kernelVars
  <2>3. CASE UNCHANGED allVars
    <3>1. ApplyDone
      BY <2>3 DEF ApplyDone, allVars, bootVars, vars, applyVars
    <3>2. QED
      BY <1>3, <2>3, <3>1 DEF allVars, bootVars, vars, kernelVars
  <2>4. QED
    BY <1>4, <2>1, <2>2, <2>3, DuringApply
<1>5. CASE service = "done"
  <2>1. service' = "done" /\ UNCHANGED <<late, swap, comp>>
    <3>1. ASSUME \E p \in {PostFs, Service_} : RunCtl(p) /\ UNCHANGED bootVars
          PROVE  FALSE
      <4>1. PICK p \in {PostFs, Service_} : RunCtl(p)
        BY <3>1
      <4>2. at[p] # "off"
        BY <4>1, LoadOnly
      <4>3. QED
        BY <1>5, <4>2 DEF PostFsAt, ServiceAt
    <3>2. ~late => perfinit = "finished"
      BY <1>2, <1>5 DEF ServeInv
    <3>3. postfs = "done"
      BY <1>5 DEF ServiceAt
    <3>4. CASE PerfinitBuild \/ PerfinitStart \/ PerfinitEnd
      <4>1. UNCHANGED late
        BY <3>4, BuildFrame DEF bootVars, PerfinitStart, PerfinitEnd
      <4>2. perfinit # "finished"
        BY <3>4, BuildFrame DEF PerfinitStart, PerfinitEnd, Enter, PerfinitAt
      <4>3. QED
        BY <3>2, <4>1, <4>2
    <3>5. CASE UNCHANGED allVars
      BY <1>5, <3>5 DEF allVars, bootVars, vars, kernelVars
    <3>6. QED
      BY <1>5, <3>1, <3>3, <3>4, <3>5
         DEF BootStep, SvApply, SvDone, PfGate, PfLoaded, SvGate, SvLoaded,
             PfBind, Enter
  <2>2. QED
    BY <1>3, <1>5, <2>1 DEF ApplyDone
<1>6. CASE service \notin {"apply", "done"}
  <2>1. CASE SvApply
    <3>1. pc'[Service_] = "ready" /\ service' = "apply"
      BY <1>2, <2>1 DEF SvApply, Apply, Base, IInv, ScriptInv, ApplyTypeOK,
         CanServe, Algos, Enter
    <3>2. QED
      BY <3>1 DEF ApplyDone, Endings
  <2>2. service' \notin {"apply", "done"} \/ SvApply
    BY <1>2, <1>6, BuildFrame
       DEF BootStep, bootVars, SvDone, PerfinitStart, PerfinitEnd, PfGate,
           PfLoaded, SvGate, SvLoaded, PfBind, allVars, Enter, CanServe
  <2>3. QED
    BY <2>1, <2>2 DEF ApplyDone
<1>7. QED
  BY <1>4, <1>5, <1>6

\* Every step of the boot keeps what the apply of service.sh knows and
\* leaves behind.
LEMMA ApplyStep ==
  ASSUME BootInv, BootStep
  PROVE  ApplyInv'
BY TargetStep, ApplySoloStep, ApplyDoneStep DEF ApplyInv

-----------------------------------------------------------------------------
(* A normal boot rebuilds nothing. *)

\* In a normal boot the apply finds its algorithm in use and stops there.
LEMMA NormalApply ==
  ASSUME BootInv, Normal, service = "apply", pc[Service_] \notin Endings,
         Step(Service_)
  PROVE  /\ pc'[Service_] \in {"ready", "ensure", "loading", "cur", "refcnt",
                               "kept"}
         /\ pc'[Service_] = "refcnt" => named'[Service_]
         /\ Zram0 \in swap' /\ comp' = comp
<1> USE ActorsDistinct, DevsAssumption
    DEF BootInv, Control, Base, IInv, ScriptInv, ApplyTypeOK, Goto
<1> DEFINE p == Service_
<1>1. /\ Zram0 \in swap /\ comp[Zram0] = want[p] /\ want[p] \in Algos
      /\ pc[p] \in {"ready", "ensure", "loading", "cur", "refcnt"}
      /\ pc[p] = "refcnt" => named[p]
  BY ServiceAlgoType DEF NormalInv, Normal, ApplyInv, CanServe, Endings
<1>2. Zram0 \in present /\ postfs = "done"
  BY ApplyAlone DEF Normal, ServiceAt
<1>3. RefcntAboveOne(want[p])
  <2>1. want[p] \in registered
    BY <1>1, <1>2 DEF ServeInv, Normal
  <2>2. size[Zram0] # 0
    BY <1>1 DEF KernelInv, SwapBacked
  <2>3. NewOnly
    BY <1>1 DEF ServeInv, Normal
  <2>4. \A c \in Cpus : streams[Zram0][c] = "new"
    BY <2>2, <2>3 DEF NewOnly, KernelInv, InitialisedComplete
  <2>5. QED
    BY <1>1, <2>1, <2>4, CpusAssumption DEF RefcntAboveOne, InUse
<1>4. /\ pc'[p] \in {"ready", "ensure", "loading", "cur", "refcnt", "kept"}
      /\ pc'[p] = "refcnt" => named'[p]
  <2>1. CASE RunCtl(p)
    BY <1>1, <2>1, CtlKeepsApply
  <2>2. CASE CheckReady(p) \/ EnsureDriver(p) \/ EnsureReturns(p)
    BY <1>1, <1>2, <2>2 DEF CheckReady, EnsureDriver, EnsureReturns
  <2>3. CASE ReadAlgo(p)
    BY <1>1, <2>3 DEF ReadAlgo
  <2>4. CASE ReadRefcnt(p)
    BY <1>1, <1>3, <2>4 DEF ReadRefcnt, Exit
  <2>5. QED
    BY <1>1, <2>1, <2>2, <2>3, <2>4
       DEF Step, SwapLoop, Swapoff, CheckSwap, ReadSize, Reset, SetAlgo, SetSize,
           AllocStreams, Mkswap, Swapon, Report, Return, CtlReap, Endings
<1>5. ~Restorer(p) /\ ~Restorer(p)'
  BY <1>1, <1>4 DEF Restorer
<1>6. Effect(p)
  BY StepEffect
<1>7. QED
  BY <1>1, <1>4, <1>5, <1>6 DEF Effect

\* Perfinit's steps keep the algorithm of the bound file.
LEMMA NormalBuild ==
  ASSUME BootInv, PerfinitBuild, Normal
  PROVE  /\ pc'[Perfinit] \in Built \/ Zram0 \in swap' =>
              comp'[Zram0] = confAlgo
         /\ service # "apply"
<1> USE ActorsDistinct, DevsAssumption
    DEF BootInv, Control, Base, IInv, ScriptInv, ApplyTypeOK, Goto, Exit
<1>1. pc[Perfinit] \in Built \/ Zram0 \in swap => comp[Zram0] = confAlgo
  BY DEF NormalInv
<1>2. service # "apply"
  <2>1. perfinit # "finished"
    BY BuildFrame DEF PerfinitAt
  <2>2. QED
    BY <2>1 DEF Normal, ServeInv
<1>3. CASE pc[Perfinit] = "comp"
  <2>1. SetAlgo(Perfinit) /\ want[Perfinit] = confAlgo
    BY <1>3 DEF PerfinitBuild, SetSize, AllocStreams, Mkswap, Swapon, PerfinitAt
  <2>2. CASE CompOk(Zram0, want[Perfinit])
    BY <1>2, <2>1, <2>2 DEF CompOk, KernelInv, KernelTypeOK
  <2>3. CASE CompErr(Zram0) /\ Exit(Perfinit, "failed")
    BY <1>1, <1>2, <2>1, <2>3 DEF CompErr, zramVars, Built
  <2>4. QED
    BY <2>1, <2>2, <2>3 DEF SetAlgo
<1>4. CASE pc[Perfinit] # "comp"
  <2>1. comp' = comp
    BY <1>4, BuildComp
  <2>2. pc[Perfinit] \in Built
    BY <1>4, BuildFrame DEF Built
  <2>3. QED
    BY <1>1, <1>2, <2>1, <2>2
<1>5. QED
  BY <1>3, <1>4

\* Every step of a boot keeps what makes it normal.
LEMMA NormalStep ==
  ASSUME BootInv, BootStep
  PROVE  NormalInv'
<1> USE ActorsDistinct DEF BootInv, Control
<1>1. SUFFICES ASSUME Normal' PROVE
        /\ pc'[Perfinit] \in Built \/ Zram0 \in swap' =>
             comp'[Zram0] = confAlgo'
        /\ service' = "apply" =>
             /\ Zram0 \in swap'
             /\ pc'[Service_] \in {"ready", "ensure", "loading", "cur",
                                   "refcnt", "kept"}
             /\ pc'[Service_] = "refcnt" => named'[Service_]
  BY DEF NormalInv
<1>2. UNCHANGED config /\ accepts' = accepts /\ ~faulted
  BY <1>1, ConfigConstant, FaultedStays DEF Normal
<1>3. /\ ServiceAlgo' = ServiceAlgo /\ CanServe /\ confAlgo' = confAlgo
      /\ confAlgo = ServiceAlgo
  BY <1>1, <1>2 DEF Normal, CanServe, ServiceAlgo, config
<1>4. CASE /\ UNCHANGED <<comp, swap, service, bound, early, late>>
           /\ pc'[Perfinit] = pc[Perfinit] \/ pc'[Perfinit] = "idle"
           /\ pc'[Service_] = pc[Service_] /\ named'[Service_] = named[Service_]
  <2>1. Normal
    BY <1>1, <1>2, <1>3, <1>4 DEF Normal
  <2>2. "idle" \notin Built
    BY DEF Built
  <2>3. QED
    BY <1>3, <1>4, <2>1, <2>2 DEF NormalInv
<1>5. CASE \E p \in {PostFs, Service_} : RunCtl(p) /\ UNCHANGED bootVars
  BY <1>4, <1>5, CtlKeepsApply DEF bootVars
<1>6. CASE /\ service = "apply" /\ pc[Service_] \notin Endings
           /\ Step(Service_) /\ UNCHANGED bootVars
  <2>1. Normal
    BY <1>1, <1>2, <1>3, <1>6 DEF Normal, bootVars
  <2>2. comp[Zram0] = confAlgo
    BY <1>6, <2>1 DEF NormalInv
  <2>3. QED
    BY <1>3, <1>6, <2>1, <2>2, NormalApply
<1>7. CASE SvApply
  <2>1. perfinit = "finished" /\ service = "wait"
    BY <1>1, <1>7 DEF SvApply, Enter, Normal
  <2>2. Normal
    BY <1>1, <1>2, <1>3, <1>7, <2>1 DEF Normal, SvApply, ServiceAt
  <2>3. \A q \in Procs : pc[q] = "idle"
    BY <2>1, ActorsAssumption DEF PostFsAt, ServiceAt, PerfinitAt
  <2>4. Zram0 \in swap
    BY <1>2, <2>1, <2>3 DEF SwapSurvives, Restorer, PerfinitAt
  <2>5. UNCHANGED <<comp, swap>> /\ pc'[Service_] = "ready"
    BY <1>3, <1>7, ServiceAlgoType
       DEF SvApply, Apply, kernelVars, Base, IInv, ScriptInv, ApplyTypeOK,
           CanServe
  <2>6. QED
    BY <1>3, <2>2, <2>4, <2>5 DEF NormalInv
<1>8. CASE SvDone
  <2>1. Normal
    BY <1>1, <1>2, <1>3, <1>8 DEF Normal, SvDone
  <2>2. UNCHANGED <<comp, swap>> /\ service' = "done"
        /\ pc'[Perfinit] = pc[Perfinit]
    BY <1>8 DEF SvDone, Enter, Return, kernelVars, Base, IInv, ScriptInv,
       ApplyTypeOK
  <2>3. QED
    BY <1>3, <2>1, <2>2 DEF NormalInv
<1>9. CASE PerfinitBuild
  <2>1. UNCHANGED bootVars
    BY <1>9, BuildFrame
  <2>2. Normal
    BY <1>1, <1>2, <1>3, <2>1 DEF Normal, bootVars
  <2>3. QED
    BY <1>3, <1>9, <2>1, <2>2, NormalBuild DEF bootVars
<1>10. CASE PerfinitStart
  <2>1. Zram0 \notin swap /\ bound /\ service # "apply"
    <3>1. Zram0 \notin swap
      BY <1>10 DEF PerfinitStart, Enter, PerfinitAt, ZramAbsent
    <3>2. bound /\ ~late
      BY <1>1, <1>10 DEF PerfinitStart, Normal
    <3>3. service # "apply"
      BY <1>10, <3>2 DEF PerfinitStart, Enter, ServeInv
    <3>4. QED
      BY <3>1, <3>2, <3>3
  <2>2. pc'[Perfinit] = "comp" /\ UNCHANGED <<swap, service>>
    BY <1>10, <2>1 DEF PerfinitStart, Base, IInv, ScriptInv, ApplyTypeOK
  <2>3. QED
    BY <2>1, <2>2 DEF Built
<1>11. CASE PerfinitEnd
  BY <1>4, <1>11
     DEF PerfinitEnd, Exit, kernelVars, Base, IInv, ScriptInv, ApplyTypeOK
<1>12. CASE Boundary(PostFs) /\ (PfGate \/ PfLoaded)
  BY <1>4, <1>12 DEF Boundary, PfGate, PfLoaded, applyVars, kernelVars
<1>13. CASE Boundary(Service_) /\ (SvGate \/ SvLoaded)
  <2>1. Normal
    <3>1. UNCHANGED <<bound, early, late, zramAlgo, confAlgo>>
      <4>1. CASE SvGate
        BY <4>1 DEF SvGate, config
      <4>2. CASE SvLoaded
        BY <4>2 DEF SvLoaded, config
      <4>3. QED
        BY <1>13, <4>1, <4>2
    <3>2. QED
      BY <1>1, <1>2, <1>3, <3>1 DEF Normal, ServiceAlgo
  <2>2. service' # "apply" /\ UNCHANGED <<comp, swap, pc>>
    BY <1>13 DEF Boundary, SvGate, SvLoaded, applyVars, kernelVars
  <2>3. QED
    BY <1>3, <2>1, <2>2 DEF NormalInv
<1>14. ~(UNCHANGED vars /\ (PfGate \/ SvGate) /\ ~Gate)
  BY <1>3 DEF CanServe, Gate
<1>15. CASE PfBind
  <2>1. CASE bound
    <3>1. Normal
      BY <1>1, <1>2, <1>3, <1>15, <2>1 DEF Normal, PfBind
    <3>2. UNCHANGED <<comp, swap, pc, named, service>>
      BY <1>15 DEF PfBind, vars, applyVars, kernelVars
    <3>3. QED
      BY <1>3, <3>1, <3>2 DEF NormalInv
  <2>2. CASE ~bound
    <3>1. perfinit = "waiting"
      BY <1>1, <1>15 DEF Normal, PfBind, Enter, PerfinitAt, BootTypeOK
    <3>2. Zram0 \notin swap /\ pc[Perfinit] = "idle" /\ service # "apply"
      BY <1>15, <3>1 DEF PfBind, Enter, PerfinitAt, ZramAbsent, ServiceAt
    <3>3. UNCHANGED <<swap, pc, service>>
      BY <1>15 DEF PfBind, vars, applyVars, kernelVars
    <3>4. QED
      BY <3>2, <3>3 DEF Built
  <2>3. QED
    BY <2>1, <2>2
<1>16. CASE UNCHANGED allVars
  BY <1>4, <1>16 DEF allVars, bootVars, vars, applyVars, kernelVars
<1>17. QED
  BY <1>5, <1>6, <1>7, <1>8, <1>9, <1>10, <1>11, <1>12, <1>13, <1>14, <1>15,
     <1>16 DEF BootStep

-----------------------------------------------------------------------------
(* The theorems. *)

\* The inductive invariant holds in every state of every boot.
THEOREM BootInvariant == BootSpec => []BootInv
<1>1. BootInv /\ [BootNext]_allVars => BootInv'
  <2> SUFFICES ASSUME BootInv, [BootNext]_allVars PROVE BootInv'
    OBVIOUS
  <2>1. BootStep
    BY BootStepKinds
  <2>2. Base' /\ Control' /\ SwapSurvives'
    BY <2>1, BootBase, ControlStep, BootSwapStep
  <2>3. GateInv' /\ ServeInv' /\ ApplyInv' /\ NormalInv'
    BY <2>1, GateStep, ServeStep, ApplyStep, NormalStep
  <2>4. QED
    BY <2>2, <2>3 DEF BootInv
<1>2. QED
  BY <1>1, BootInitInv, PTL DEF BootSpec

\* With Perfinit building zram0 at the same time, too, the phone is never left
\* without swap unless a call fails.
THEOREM SwapSurvivesBoot == BootSpec => []BootKeepsSwap
<1>1. BootInv => BootKeepsSwap
  BY DEF BootInv, BootKeepsSwap
<1>2. QED
  BY <1>1, BootInvariant, PTL

\* With the kernel gate closed, item 2 off or item 3 on "default", zram0 keeps
\* the system's algorithm and page-cluster is not touched.
THEOREM ClosedGateHandsOff == BootSpec => []HandsOff
<1>1. BootInv => HandsOff
  <2> SUFFICES ASSUME BootInv, ~enabled \/ ~matches \/ zramAlgo = "default"
               PROVE  /\ ~bound /\ ~tuned /\ comp[Zram0] = StockAlgo
                      /\ ~enabled \/ ~matches => listed = {}
    BY DEF HandsOff
  <2>1. GateInv
    BY DEF BootInv
  <2>2. QED
    BY <2>1 DEF GateInv, Gate, Algos
<1>2. QED
  BY <1>1, BootInvariant, PTL

\* After a boot in which no call failed and Perfinit had finished before the
\* apply, zram0 is active swap and every CPU compresses with the chosen
\* algorithm's new driver.
THEOREM BootDelivers == BootSpec => []BootServes
<1>1. BootInv => BootServes
  <2> SUFFICES ASSUME BootInv, service = "done", CanServe, ~faulted, ~late
               PROVE  Zram0 \in swap /\ ServedByNew(Zram0, ServiceAlgo) /\ tuned
    BY DEF BootServes
  <2>1. Zram0 \in swap /\ comp[Zram0] = ServiceAlgo
    BY DEF BootInv, ApplyInv, ApplyDone
  <2>2. ServiceAlgo \in Algos
    BY ServiceAlgoType DEF BootInv, Control, CanServe
  <2>3. NewOnly /\ tuned
    BY <2>1, <2>2 DEF BootInv, ServeInv
  <2>4. \A c \in Cpus : streams[Zram0][c] = "new"
    BY <2>1, <2>3, DevsAssumption
       DEF NewOnly, BootInv, Base, IInv, KernelInv, SwapBacked,
           InitialisedComplete
  <2>5. QED
    BY <2>1, <2>3, <2>4 DEF ServedByNew
<1>2. QED
  BY <1>1, BootInvariant, PTL

\* A step of Perfinit takes no device out of swap.
LEMMA BuildSwap == PerfinitBuild => swap \subseteq swap'
<1> SUFFICES ASSUME PerfinitBuild PROVE swap \subseteq swap'
  OBVIOUS
<1>1. CASE SetAlgo(Perfinit) \/ SetSize(Perfinit)
  BY <1>1 DEF SetAlgo, SetSize, CompOk, CompErr, DisksizeLock, DisksizeBusy,
     zramVars, kernelVars
<1>2. CASE AllocStreams(Perfinit)
  BY <1>2 DEF AllocStreams, AllocStream, AllocErr, DisksizeDone
<1>3. CASE Mkswap(Perfinit) \/ Swapon(Perfinit)
  BY <1>3 DEF Mkswap, Swapon, MkswapOk, MkswapErr, SwaponOk, SwaponErr, zramVars
<1>4. QED
  BY <1>1, <1>2, <1>3 DEF PerfinitBuild

\* A normal boot needs no rebuild: if the registration came before Perfinit and
\* Perfinit used the chosen algorithm, the swap is never taken down.
THEOREM NormalBootRebuildsNothing == BootSpec => NoNeedlessRebuild
<1>1. ASSUME BootInv, [BootNext]_allVars,
             CanServe, ~faulted, ~early, ~late, bound, confAlgo = ServiceAlgo,
             Zram0 \in swap
      PROVE  Zram0 \in swap'
  <2>1. BootStep /\ Normal
    BY <1>1, BootStepKinds DEF Normal
  <2>2. CASE /\ service = "apply" /\ pc[Service_] \notin Endings
             /\ Step(Service_)
    BY <1>1, <2>1, <2>2, NormalApply
  <2>3. CASE PerfinitBuild
    BY <1>1, <2>3, BuildSwap
  <2>4. CASE \E p \in {PostFs, Service_} : RunCtl(p)
    BY <1>1, <2>4, ActorsDistinct, CtlKeepsApply
  <2>5. CASE SvApply \/ SvDone \/ PerfinitStart \/ PerfinitEnd \/ PfBind
             \/ Boundary(PostFs) \/ Boundary(Service_) \/ UNCHANGED vars
    BY <1>1, <2>5 DEF SvApply, Apply, SvDone, Return, PerfinitStart,
       PerfinitEnd, PfBind, Boundary, kernelVars, vars
  <2>6. QED
    BY <2>1, <2>2, <2>3, <2>4, <2>5 DEF BootStep, allVars
<1>2. BootInv /\ [BootNext]_allVars =>
        [CanServe /\ ~faulted /\ ~early /\ ~late /\ bound
           /\ confAlgo = ServiceAlgo
             => (Zram0 \in swap => Zram0 \in swap')]_allVars
  BY <1>1
<1>3. QED
  BY <1>2, BootInvariant, PTL DEF BootSpec, NoNeedlessRebuild
=============================================================================
