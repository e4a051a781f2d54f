------------------------------- MODULE ZramAlgo -------------------------------
(***************************************************************************)
(* bin/zram-algo.sh apply [lz4|zstd|default], run by any number of shells   *)
(* at once (service.sh at boot, a user's terminal), next to                 *)
(* zstd-upgrade.sh load | unload.  Nothing locks these scripts against each *)
(* other, so every call into the kernel is a step of its own.               *)
(***************************************************************************)
EXTENDS UpgradeCtl

CONSTANTS
  DefaultSize,      \* DEFAULT_SIZE, used when disksize reads 0
  MaxTries          \* the swapoff loop makes at most 5 attempts

ASSUME DefaultSizeAssumption == DefaultSize \in Nat \ {0}
ASSUME TriesAssumption == MaxTries \in Nat \ {0}

VARIABLES
  pc,           \* pc[p]: the step shell p is at, "idle" when no apply runs
  want,         \* want[p]: ALGO
  named,        \* named[p]: the answer of [ "$cur" = "$ALGO" ]
  tries,        \* tries[p]: i of the swapoff loop
  keep,         \* keep[p]: orig_size
  tuned,        \* page-cluster has been set to 0
  disturbed     \* history: shells whose running script overlapped another one

applyVars == <<pc, want, named, tries, keep, tuned>>
vars == <<kernelVars, ctlVars, applyVars, disturbed>>

\* How an apply ends.  "served" and "unconfirmed" are the two messages of an
\* exit 0 after a rebuild, "kept" and "default" the exits 0 without one,
\* "failed" is any exit 1.
Endings  == {"default", "kept", "served", "unconfirmed", "failed"}
ExitZero == {"kept", "served", "unconfirmed"}

Steps == {"idle", "ready", "ensure", "loading", "cur", "refcnt",
          "loop", "swapoff", "check", "size", "reset", "comp", "disksize",
          "alloc", "mkswap", "swapon", "report"} \cup Endings

\* The steps of reconfigure().
RebuildSteps == {"loop", "swapoff", "check", "size", "reset", "comp",
                 "disksize", "alloc", "mkswap", "swapon"}

\* What the file zram_algo and the argument of apply make of ALGO.
FileValues == Algos \cup {"default", "other"}
ArgValues  == Algos \cup {"default", "none"}
AlgoOf(file, arg) ==
  IF arg # "none" THEN arg ELSE IF file = "other" THEN "lz4" ELSE file

-----------------------------------------------------------------------------
Running(p) == pc[p] # "idle" \/ at[p] # "off"
Others(p)  == {q \in Procs \ {p} : Running(q)}

\* A script of p starts: it and the scripts already running overlap.
NoteOverlap(p) ==
  disturbed' = IF Others(p) = {} THEN disturbed \ {p}
               ELSE disturbed \cup Others(p) \cup {p}

Goto(p, step) ==
  /\ pc' = [pc EXCEPT ![p] = step]
  /\ UNCHANGED <<want, named, tries, keep, tuned, disturbed>>

\* exit: the shell's variables are gone.
Exit(p, ending) ==
  /\ pc' = [pc EXCEPT ![p] = ending]
  /\ want' = [want EXCEPT ![p] = "default"]
  /\ named' = [named EXCEPT ![p] = FALSE]
  /\ tries' = [tries EXCEPT ![p] = 0]
  /\ keep' = [keep EXCEPT ![p] = 0]
  /\ UNCHANGED <<tuned, disturbed>>

\* The script starts; "default" leaves page-cluster and zram0 alone.
Apply(p, algo) ==
  /\ ~Running(p)
  /\ want' = [want EXCEPT ![p] = algo]
  /\ NoteOverlap(p)
  /\ \/ /\ algo = "default"
        /\ pc' = [pc EXCEPT ![p] = "default"]
        /\ UNCHANGED tuned
     \/ /\ algo # "default"
        /\ tuned' = TRUE                      \* set_page_cluster
        /\ pc' = [pc EXCEPT ![p] = "ready"]
  /\ UNCHANGED <<kernelVars, ctlVars, named, tries, keep>>

\* [ ! -e "$ZRAM_DIR/comp_algorithm" ]
CheckReady(p) ==
  /\ pc[p] = "ready"
  /\ IF Zram0 \in present THEN Goto(p, "ensure") ELSE Exit(p, "failed")
  /\ UNCHANGED <<kernelVars, ctlVars>>

\* ensure_driver: load both modules when the wanted driver is missing.
EnsureDriver(p) ==
  /\ pc[p] = "ensure"
  /\ \/ want[p] \in registered /\ Goto(p, "cur") /\ UNCHANGED ctlVars
     \/ want[p] \notin registered /\ Goto(p, "loading") /\ CtlStart(p, "load")
  /\ UNCHANGED kernelVars

\* Broken on purpose: ensure_driver insists.
EnsureInsists(p) ==
  /\ pc[p] = "loading" /\ CtlReap(p)
  /\ Goto(p, "ensure")
  /\ UNCHANGED kernelVars

\* The caller ignores what ensure_driver returns.
EnsureReturns(p) ==
  /\ pc[p] = "loading" /\ CtlReap(p)
  /\ Goto(p, "cur")
  /\ UNCHANGED kernelVars

ReadAlgo(p) ==
  /\ pc[p] = "cur"
  /\ named' = [named EXCEPT ![p] = (comp[Zram0] = want[p])]
  /\ pc' = [pc EXCEPT ![p] = "refcnt"]
  /\ UNCHANGED <<kernelVars, ctlVars, want, tries, keep, tuned, disturbed>>

\* Broken on purpose: the name in comp_algorithm is taken as proof.
ReadRefcntByName(p) ==
  /\ pc[p] = "refcnt"
  /\ IF named[p] THEN Exit(p, "kept")
     ELSE /\ pc' = [pc EXCEPT ![p] = "loop"]
          /\ tries' = [tries EXCEPT ![p] = 0]
          /\ UNCHANGED <<want, named, keep, tuned, disturbed>>
  /\ UNCHANGED <<kernelVars, ctlVars>>

\* No rebuild when zram0 names the algorithm and its new driver is in use.
ReadRefcnt(p) ==
  /\ pc[p] = "refcnt"
  /\ \/ /\ named[p] /\ RefcntAboveOne(want[p])
        /\ Exit(p, "kept")
     \/ /\ ~(named[p] /\ RefcntAboveOne(want[p]))
        /\ pc' = [pc EXCEPT ![p] = "loop"]
        /\ tries' = [tries EXCEPT ![p] = 0]
        /\ UNCHANGED <<want, named, keep, tuned, disturbed>>
  /\ UNCHANGED <<kernelVars, ctlVars>>

-----------------------------------------------------------------------------
(* reconfigure() *)

\* Broken on purpose: one attempt too many.
SwapLoopLate(p) ==
  /\ pc[p] = "loop"
  /\ IF Zram0 \in swap /\ tries[p] <= MaxTries
       THEN Goto(p, "swapoff") ELSE Goto(p, "check")
  /\ UNCHANGED <<kernelVars, ctlVars>>

\* while swap_active && [ "$i" -lt 5 ]
SwapLoop(p) ==
  /\ pc[p] = "loop"
  /\ IF Zram0 \in swap /\ tries[p] < MaxTries
       THEN Goto(p, "swapoff") ELSE Goto(p, "check")
  /\ UNCHANGED <<kernelVars, ctlVars>>

Swapoff(p) ==
  /\ pc[p] = "swapoff"
  /\ SwapoffOk(Zram0) \/ SwapoffErr(Zram0)
  /\ tries' = [tries EXCEPT ![p] = @ + 1]
  /\ pc' = [pc EXCEPT ![p] = "loop"]
  /\ UNCHANGED <<ctlVars, want, named, keep, tuned, disturbed>>

CheckSwap(p) ==
  /\ pc[p] = "check"
  /\ IF Zram0 \in swap THEN Exit(p, "failed") ELSE Goto(p, "size")
  /\ UNCHANGED <<kernelVars, ctlVars>>

\* Broken on purpose: no DEFAULT_SIZE for a device that reads 0.
ReadSizeAsIs(p) ==
  /\ pc[p] = "size"
  /\ keep' = [keep EXCEPT ![p] = size[Zram0]]
  /\ pc' = [pc EXCEPT ![p] = "reset"]
  /\ UNCHANGED <<kernelVars, ctlVars, want, named, tries, tuned, disturbed>>

ReadSize(p) ==
  /\ pc[p] = "size"
  /\ keep' = [keep EXCEPT ![p] =
                IF size[Zram0] = 0 THEN DefaultSize ELSE size[Zram0]]
  /\ pc' = [pc EXCEPT ![p] = "reset"]
  /\ UNCHANGED <<kernelVars, ctlVars, want, named, tries, tuned, disturbed>>

Reset(p) ==
  /\ pc[p] = "reset"
  /\ \/ ResetOk(Zram0) /\ Goto(p, "comp")
     \/ ResetErr(Zram0) /\ Exit(p, "failed")
  /\ UNCHANGED ctlVars

SetAlgo(p) ==
  /\ pc[p] = "comp"
  /\ \/ CompOk(Zram0, want[p]) /\ Goto(p, "disksize")
     \/ CompErr(Zram0) /\ Exit(p, "failed")
  /\ UNCHANGED ctlVars

SetSize(p) ==
  /\ pc[p] = "disksize"
  /\ \/ DisksizeLock(p, Zram0) /\ Goto(p, "alloc")
     \/ DisksizeBusy(Zram0) /\ Exit(p, "failed")
  /\ UNCHANGED ctlVars

\* Inside the disksize write: one CPU after the other.
AllocStreams(p) ==
  /\ pc[p] = "alloc"
  /\ \/ (\E c \in Cpus : AllocStream(p, Zram0, c)) /\ Goto(p, "alloc")
     \/ AllocErr(p, Zram0) /\ Exit(p, "failed")
     \/ DisksizeDone(p, Zram0, keep[p]) /\ Goto(p, "mkswap")
  /\ UNCHANGED ctlVars

\* Broken on purpose: the reset has wiped the old swap signature.
MkswapSkipped(p) ==
  /\ pc[p] = "mkswap"
  /\ Goto(p, "swapon")
  /\ UNCHANGED <<kernelVars, ctlVars>>

Mkswap(p) ==
  /\ pc[p] = "mkswap"
  /\ \/ MkswapOk(Zram0) /\ Goto(p, "swapon")
     \/ MkswapErr(Zram0) /\ Exit(p, "failed")
  /\ UNCHANGED ctlVars

Swapon(p) ==
  /\ pc[p] = "swapon"
  /\ \/ SwaponOk(Zram0) /\ Goto(p, "report")
     \/ SwaponErr(Zram0) /\ Exit(p, "failed")
  /\ UNCHANGED ctlVars

\* Broken on purpose: success is reported without reading the refcnt.
ReportBlindly(p) ==
  /\ pc[p] = "report"
  /\ Exit(p, "served")
  /\ UNCHANGED <<kernelVars, ctlVars>>

\* The exit code is 0 whatever the refcnt says now.
Report(p) ==
  /\ pc[p] = "report"
  /\ Exit(p, IF RefcntAboveOne(want[p]) THEN "served" ELSE "unconfirmed")
  /\ UNCHANGED <<kernelVars, ctlVars>>

-----------------------------------------------------------------------------
\* A step of a zstd-upgrade.sh that p runs, called from apply or by itself.
RunCtl(p) == CtlStep(p) /\ UNCHANGED <<applyVars, disturbed>>

\* A user runs zstd-upgrade.sh.
UserCtl(p, cmd) ==
  /\ ~Running(p)
  /\ CtlStart(p, cmd)
  /\ NoteOverlap(p)
  /\ UNCHANGED <<kernelVars, applyVars>>

\* The shell that ran a script is gone.
Return(p) ==
  /\ \/ pc[p] \in Endings /\ pc' = [pc EXCEPT ![p] = "idle"] /\ UNCHANGED ctlVars
     \/ pc[p] = "idle" /\ CtlReap(p) /\ UNCHANGED pc
  /\ disturbed' = disturbed \ {p}
  /\ UNCHANGED <<kernelVars, want, named, tries, keep, tuned>>

\* The steps of a script that is running.
Step(p) ==
  \/ CheckReady(p) \/ EnsureDriver(p) \/ RunCtl(p) \/ EnsureReturns(p)
  \/ ReadAlgo(p) \/ ReadRefcnt(p)
  \/ SwapLoop(p) \/ Swapoff(p) \/ CheckSwap(p) \/ ReadSize(p)
  \/ Reset(p) \/ SetAlgo(p) \/ SetSize(p) \/ AllocStreams(p)
  \/ Mkswap(p) \/ Swapon(p) \/ Report(p) \/ Return(p)

\* What somebody may start at any time.
Start(p) ==
  \/ \E file \in FileValues, arg \in ArgValues : Apply(p, AlgoOf(file, arg))
  \/ \E cmd \in {"load", "unload"} : UserCtl(p, cmd)

Next == \E p \in Procs : Start(p) \/ Step(p)

\* zram0 is absent, or it is the system's active swap.
ZramInit ==
  /\ comp \in [Devs -> Names]
  /\ size \in [Devs -> {0, StockSize}]
  /\ streams \in [Devs -> [Cpus -> {"none", "generic"}]]
  /\ present \in SUBSET Devs /\ header \in SUBSET Devs /\ swap \in SUBSET Devs
  /\ \A d \in Devs : Absent(d) \/ (d = Zram0 /\ StockActive(d))

ApplyInit ==
  /\ pc = [p \in Procs |-> "idle"]
  /\ want = [p \in Procs |-> "default"]
  /\ named = [p \in Procs |-> FALSE]
  /\ tries = [p \in Procs |-> 0]
  /\ keep = [p \in Procs |-> 0]
  /\ tuned = FALSE
  /\ disturbed = {}

Init == KernelInit /\ ZramInit /\ CtlInit /\ ApplyInit

Spec == Init /\ [][Next]_vars

\* A running script is scheduled again and again, and the kernel's rwsem
\* hands the init lock to its waiters in turn: strong fairness per shell.
\* Nothing obliges anybody to start a script.
FairSpec == Spec /\ \A p \in Procs : SF_vars(Step(p))

-----------------------------------------------------------------------------
(* Properties. *)

\* Every variable keeps to its type.
ApplyTypeOK ==
  /\ pc \in [Procs -> Steps]
  /\ want \in [Procs -> Algos \cup {"default"}]
  /\ named \in [Procs -> BOOLEAN]
  /\ tries \in [Procs -> 0..MaxTries]
  /\ keep \in [Procs -> Nat]
  /\ tuned \in BOOLEAN
  /\ disturbed \subseteq Procs
TypeOK == KernelTypeOK /\ CtlTypeOK /\ ApplyTypeOK

\* A page is never compressed by code that has been unloaded: a stream of the
\* new driver pins its module, whatever loads, unloads and rebuilds overlap.
StreamsPinned ==
  \A d \in Devs, c \in Cpus : streams[d][c] = "new" => comp[d] \in listed

\* As long as no call fails for an outside reason, overlapping applies never
\* leave the phone without swap: either it is on, or some shell is still
\* inside reconfigure and has what it needs to bring it back.
Restorer(p) ==
  \/ pc[p] \in {"loop", "swapoff", "check", "size", "reset", "alloc"}
  \/ pc[p] \in {"comp", "disksize"} /\ size[Zram0] = 0
  \/ pc[p] = "mkswap" /\ size[Zram0] # 0
  \/ pc[p] = "swapon" /\ size[Zram0] # 0 /\ Zram0 \in header
SwapSurvives ==
  ~faulted /\ Zram0 \in present =>
    Zram0 \in swap \/ \E p \in Procs : Restorer(p)

\* The same and more as an abstract specification: the configuration of the
\* active swap never changes under it, it comes back only complete, and it
\* is lost only after an outside failure.
SwapState ==
  IF Zram0 \notin present THEN "absent"
  ELSE IF Zram0 \in swap THEN "on"
  ELSE IF \E p \in Procs : Restorer(p) THEN "rebuilding"
  ELSE "lost"

CompleteConfigs ==
  [comp : Names, size : Nat \ {0}, streams : [Cpus -> Drivers]]

Zram0Config ==
  [comp |-> comp[Zram0], size |-> size[Zram0], streams |-> streams[Zram0]]

Service == INSTANCE SwapService WITH
  Complete <- CompleteConfigs, state <- SwapState, config <- Zram0Config

ServiceSpec == Service!Spec

Solo(p) == p \notin disturbed
Exits(p) == pc[p] \notin Endings /\ pc'[p] \in Endings

\* An apply that overlaps no other script does what it says.  If it rebuilt
\* and reports that the new driver serves zram0, every CPU uses that driver
\* and the swap is on.
ServedMeansNew ==
  [][\A p \in Procs, a \in Algos :
       Exits(p) /\ Solo(p) /\ want[p] = a /\ pc'[p] = "served" =>
         (Zram0 \in swap /\ ServedByNew(Zram0, a))']_vars

\* An apply without overlap and without an outside failure reaches the new
\* driver and leaves the swap on, whenever the kernel accepts both .ko files
\* and zram0 exists.
SoloApplySucceeds ==
  [][\A p \in Procs, a \in Algos :
       Exits(p) /\ want[p] = a /\ Solo(p)
           /\ ~faulted' /\ accepts = Algos /\ Zram0 \in present =>
         pc'[p] \in {"kept", "served"} /\ (Zram0 \in swap /\ InUse(a))']_vars

\* The load that EnsureDriver runs is all or nothing only in its order: an
\* exit 0 of an undisturbed load means both drivers are registered, of an
\* undisturbed unload that both modules are gone.
CtlExitHonest ==
  [][\A p \in Procs :
       at[p] # "ok" /\ at'[p] = "ok" /\ Solo(p) =>
         IF op[p] = "load" THEN Algos \subseteq registered'
                           ELSE listed' = {}]_vars

\* Whatever the shells do, every script that runs comes to its end.
ScriptsEnd == \A p \in Procs : Running(p) ~> ~Running(p)

\* README.md:151-152: after a failed rebuild, run "zram-algo.sh apply" again.
\* An apply that exits 0 then leaves zram0 in use as swap.
ExitZeroHasSwap ==
  [][\A p \in Procs : Exits(p) /\ Solo(p) /\ pc'[p] \in ExitZero =>
       Zram0 \in swap']_vars
=============================================================================
