------------------------------- MODULE BootFlow -------------------------------
(***************************************************************************)
(* One boot of the phone with the module installed: post-fs-data.sh         *)
(* registers the drivers and binds perfinit.conf, Perfinit (the system's    *)
(* own daemon) builds zram0 from perfinit.conf, service.sh loads again,     *)
(* waits and runs zram-algo.sh apply.  The steps of the scripts that they   *)
(* call, and of Perfinit on zram0, are those of ZramAlgo.                   *)
(*                                                                          *)
(* Perfinit is meant to run after post-fs-data.sh and to be done when the   *)
(* apply starts.  Nothing enforces either, so it may start at any time.     *)
(***************************************************************************)
EXTENDS ZramAlgo

CONSTANTS PostFs, Service_, Perfinit        \* the three processes

ASSUME ActorsAssumption ==
  /\ Procs = {PostFs, Service_, Perfinit}
  /\ Cardinality(Procs) = 3

VARIABLES
  enabled,    \* enable_zram or enable_zstd exists
  matches,    \* kc_check: the kernel's version prefix is that of the .ko
  zramAlgo,   \* content of the file zram_algo
  confAlgo,   \* comp_algo in the module's perfinit.conf, "none": no such file
  bound,      \* that file is mounted over the system's
  postfs,     \* step of post-fs-data.sh
  service,    \* step of service.sh
  perfinit,   \* "waiting", "building" or "finished"
  early,      \* history: Perfinit started before post-fs-data.sh had ended
  late        \* history: Perfinit had not finished when the apply started

config   == <<enabled, matches, zramAlgo, confAlgo>>
bootVars == <<config, bound, postfs, service, perfinit, early, late>>
allVars  == <<vars, bootVars>>

Enter(var, from, to) == var = from /\ var' = to

-----------------------------------------------------------------------------
(* post-fs-data.sh *)

\* Broken on purpose: no early registration, the drivers wait for service.sh.
PfGateNoLoad ==
  /\ postfs = "start"
  /\ postfs' = IF enabled /\ matches THEN "algo" ELSE "done"
  /\ UNCHANGED <<kernelVars, ctlVars, applyVars, disturbed, config, bound,
                 service, perfinit, early, late>>

\* Broken on purpose: only the switch of item 2 is looked at.
PfUngated ==
  /\ postfs = "start"
  /\ \/ ~enabled /\ postfs' = "done" /\ UNCHANGED ctlVars
     \/ enabled /\ postfs' = "load" /\ CtlStart(PostFs, "load")
  /\ UNCHANGED <<kernelVars, applyVars, disturbed, config, bound, service,
                 perfinit, early, late>>

\* Nothing is done unless item 2 is enabled and the kernel matches.
PfGate ==
  /\ postfs = "start"
  /\ \/ ~(enabled /\ matches) /\ postfs' = "done" /\ UNCHANGED ctlVars
     \/ enabled /\ matches /\ postfs' = "load" /\ CtlStart(PostFs, "load")
  /\ UNCHANGED <<kernelVars, applyVars, disturbed, config, bound, service,
                 perfinit, early, late>>

PfLoaded ==
  /\ Enter(postfs, "load", "algo")
  /\ CtlReap(PostFs)
  /\ UNCHANGED <<kernelVars, applyVars, disturbed, config, bound, service,
                 perfinit, early, late>>

\* Only lz4 and zstd bind the file; the mount may fail.
PfBind ==
  /\ Enter(postfs, "algo", "done")
  /\ \/ zramAlgo \in Algos /\ confAlgo # "none" /\ bound' = TRUE
     \/ UNCHANGED bound
  /\ UNCHANGED <<vars, config, service, perfinit, early, late>>

-----------------------------------------------------------------------------
(* Perfinit *)

\* zram0 appears and is set up as perfinit.conf says; the system's own file
\* names no algorithm.
PerfinitStart ==
  /\ Enter(perfinit, "waiting", "building")
  /\ early' = (postfs # "done")
  /\ present' = present \cup {Zram0}
  /\ keep' = [keep EXCEPT ![Perfinit] = StockSize]
  /\ IF bound
       THEN /\ want' = [want EXCEPT ![Perfinit] = confAlgo]
            /\ pc' = [pc EXCEPT ![Perfinit] = "comp"]
            /\ tuned' = TRUE
       ELSE /\ pc' = [pc EXCEPT ![Perfinit] = "disksize"]
            /\ UNCHANGED <<want, tuned>>
  /\ UNCHANGED <<moduleVars, comp, size, streams, lock, header, swap, faulted,
                 ctlVars, named, tries, disturbed, config, bound, postfs,
                 service, late>>

PerfinitBuild ==
  /\ SetAlgo(Perfinit) \/ SetSize(Perfinit) \/ AllocStreams(Perfinit)
     \/ Mkswap(Perfinit) \/ Swapon(Perfinit)
  /\ UNCHANGED bootVars

\* Done, or given up after a call that failed.
PerfinitEnd ==
  /\ perfinit = "building" /\ pc[Perfinit] \in {"report", "failed"}
  /\ perfinit' = "finished"
  /\ Exit(Perfinit, "idle")
  /\ UNCHANGED <<kernelVars, ctlVars, config, bound, postfs, service, early, late>>

-----------------------------------------------------------------------------
(* service.sh *)

\* ALGO as service.sh reads it.
ServiceAlgo == AlgoOf(zramAlgo, "none")

\* The same gate; then the drivers are loaded (again) if item 2 is enabled.
SvGate ==
  /\ postfs = "done" /\ service = "start"
  /\ \/ ~(enabled /\ matches) /\ service' = "done" /\ UNCHANGED ctlVars
     \/ enabled /\ matches /\ service' = "load" /\ CtlStart(Service_, "load")
  /\ UNCHANGED <<kernelVars, applyVars, disturbed, config, bound, postfs,
                 perfinit, early, late>>

SvLoaded ==
  /\ service = "load"
  /\ CtlReap(Service_)
  /\ service' = IF ServiceAlgo = "default" THEN "done" ELSE "wait"
  /\ UNCHANGED <<kernelVars, applyVars, disturbed, config, bound, postfs,
                 perfinit, early, late>>

\* sys.boot_completed or 120 seconds, then 15 more: the apply starts.
SvApply ==
  /\ Enter(service, "wait", "apply")
  /\ Apply(Service_, ServiceAlgo)
  /\ late' = (perfinit # "finished")
  /\ UNCHANGED <<config, bound, postfs, perfinit, early>>

SvDone ==
  /\ Enter(service, "apply", "done")
  /\ pc[Service_] \in Endings /\ Return(Service_)
  /\ UNCHANGED <<config, bound, postfs, perfinit, early, late>>

\* A step inside zstd-upgrade.sh or zram-algo.sh.
Inside(p) ==
  /\ \/ RunCtl(p)
     \/ p = Service_ /\ service = "apply" /\ pc[p] \notin Endings /\ Step(p)
  /\ UNCHANGED bootVars

PostFsStep   == PfGate \/ PfLoaded \/ PfBind \/ Inside(PostFs)
ServiceStep  == SvGate \/ SvLoaded \/ SvApply \/ SvDone \/ Inside(Service_)
PerfinitStep == PerfinitBuild \/ PerfinitEnd

\* The boot is over: nothing is left to do.
Booted ==
  /\ service = "done" /\ perfinit = "finished"
  /\ UNCHANGED allVars

BootNext ==
  PostFsStep \/ ServiceStep \/ PerfinitStart \/ PerfinitStep \/ Booted

BootInit ==
  /\ KernelInit /\ CtlInit /\ ApplyInit /\ ZramInit
  /\ present = {}
  /\ enabled \in BOOLEAN /\ matches \in BOOLEAN
  /\ ~matches => accepts = {}         \* another vermagic: insmod refuses
  /\ zramAlgo \in FileValues
  /\ confAlgo \in Algos \cup {"none"}
  /\ bound = FALSE
  /\ postfs = "start" /\ service = "start" /\ perfinit = "waiting"
  /\ early = FALSE /\ late = FALSE

BootSpec ==
  /\ BootInit /\ [][BootNext]_allVars
  /\ SF_allVars(PostFsStep) /\ SF_allVars(ServiceStep) /\ SF_allVars(PerfinitStep)

-----------------------------------------------------------------------------
(* Properties. *)

\* What the user asked for is possible on this phone.
CanServe == enabled /\ matches /\ accepts = Algos /\ ServiceAlgo # "default"

\* The module's promise: after a boot in which no call failed and Perfinit had
\* finished before the apply, zram0 is active swap and every CPU compresses
\* with the chosen algorithm's new driver.  This holds whether Perfinit came
\* before or after the early registration, with or without the bind, and also
\* when the file zram_algo was edited after the installation.
BootServes ==
  service = "done" /\ CanServe /\ ~faulted /\ ~late =>
    Zram0 \in swap /\ ServedByNew(Zram0, ServiceAlgo) /\ tuned

\* README.md:44-50, 137: with the kernel gate closed, item 2 off or item 3 on
\* "default", zram0 keeps the system's algorithm and page-cluster is not
\* touched; only in the last case are the modules loaded.
HandsOff ==
  ~enabled \/ ~matches \/ zramAlgo = "default" =>
    /\ ~bound /\ ~tuned /\ comp[Zram0] = StockAlgo
    /\ ~enabled \/ ~matches => listed = {}

\* magisk/piano_zram/README.md:150: a normal boot needs no rebuild.  If the
\* early registration came before Perfinit and Perfinit used the chosen
\* algorithm, the swap is never taken down.
NoNeedlessRebuild ==
  [][CanServe /\ ~faulted /\ ~early /\ ~late /\ bound /\ confAlgo = ServiceAlgo
       => (Zram0 \in swap => Zram0 \in swap')]_allVars

\* With Perfinit building zram0 at the same time, too, the phone is never left
\* without swap unless a call fails: SwapSurvives of ZramAlgo.
BootKeepsSwap == SwapSurvives

\* service.sh comes to its end.
BootEnds == <>(service = "done")

\* kernel-check.sh:106-107: if the kernel refuses the .ko files although its
\* version prefix matches, "zram0 is not affected".
RefusedLeavesZram0 ==
  [][accepts = {} => (Zram0 \in swap => Zram0 \in swap')]_allVars

\* post-fs-data.sh:41-45: when zram_algo is neither lz4 nor zstd, item 3 is
\* taken as "leave zram0 alone" for this boot.
NotChosenLeavesZram0 ==
  [][zramAlgo \notin Algos => (Zram0 \in swap => Zram0 \in swap')]_allVars
=============================================================================
