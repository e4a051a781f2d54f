------------------------------ MODULE UpgradeCtl ------------------------------
(***************************************************************************)
(* bin/zstd-upgrade.sh load | unload, as run by any process: lz4 first,     *)
(* then zstd, and the first failure ends the script.                        *)
(***************************************************************************)
EXTENDS ZramKernel

VARIABLES
  op,       \* op[p]: the command, "load" or "unload"
  on,       \* on[p]: the algorithm load_algo / unload_algo works on
  at        \* at[p]: the step it is at, "off" when the script is not running

ctlVars == <<op, on, at>>

\* "ok" and "err": the script has exited with 0 or 1.
CtlEndings == {"ok", "err"}
CtlSteps ==
  {"off", "listed", "insmod", "init", "confirm", "rmmod"} \cup CtlEndings

CtlTypeOK ==
  /\ op \in [Procs -> {"load", "unload"}]
  /\ on \in [Procs -> Algos]
  /\ at \in [Procs -> CtlSteps]

CtlInit ==
  /\ op = [p \in Procs |-> "load"]
  /\ on = [p \in Procs |-> "lz4"]
  /\ at = [p \in Procs |-> "off"]

\* The script starts: sh zstd-upgrade.sh load|unload.
CtlStart(p, cmd) ==
  /\ op' = [op EXCEPT ![p] = cmd]
  /\ on' = [on EXCEPT ![p] = "lz4"]
  /\ at' = [at EXCEPT ![p] = "listed"]

CtlGoto(p, step) ==
  /\ at' = [at EXCEPT ![p] = step]
  /\ UNCHANGED <<op, on>>

CtlExit(p, ending) ==
  /\ at' = [at EXCEPT ![p] = ending]
  /\ UNCHANGED <<op, on>>

\* The caller has seen the exit code.
CtlReap(p) ==
  /\ at[p] \in CtlEndings
  /\ at' = [at EXCEPT ![p] = "off"]
  /\ op' = [op EXCEPT ![p] = "load"]
  /\ on' = [on EXCEPT ![p] = "lz4"]

\* Broken on purpose: the script ends after lz4 in any case.
NextAlgoFirstOnly(p) == CtlExit(p, "ok")

\* The function returned 0: go on with zstd, or end the script.
NextAlgo(p) ==
  \/ /\ on[p] = "lz4"
     /\ on' = [on EXCEPT ![p] = "zstd"]
     /\ at' = [at EXCEPT ![p] = "listed"]
     /\ UNCHANGED op
  \/ on[p] = "zstd" /\ CtlExit(p, "ok")

\* module_is_loaded: load has nothing to do when the module is listed,
\* unload when it is not.
CheckListed(p) ==
  /\ at[p] = "listed"
  /\ \/ op[p] = "load" /\ on[p] \in listed /\ NextAlgo(p)
     \/ op[p] = "load" /\ on[p] \notin listed /\ CtlGoto(p, "insmod")
     \/ op[p] = "unload" /\ on[p] \notin listed /\ NextAlgo(p)
     \/ op[p] = "unload" /\ on[p] \in listed /\ CtlGoto(p, "rmmod")
  /\ UNCHANGED kernelVars

\* Broken on purpose: the exit code of insmod is not looked at.
InsmodUnchecked(p) ==
  /\ at[p] = "insmod"
  /\ \/ InsmodBegin(on[p]) /\ CtlGoto(p, "init")
     \/ InsmodErr(on[p]) /\ NextAlgo(p)

\* insmod "$ko" || return 1 (a missing .ko returns 1 as well).
Insmod(p) ==
  /\ at[p] = "insmod"
  /\ \/ InsmodBegin(on[p]) /\ CtlGoto(p, "init")
     \/ InsmodErr(on[p]) /\ CtlExit(p, "err")

\* Still inside insmod: the module's init function registers the driver.
ModuleInit(p) ==
  /\ at[p] = "init"
  /\ InsmodRegister(on[p])
  /\ CtlGoto(p, "confirm")

\* crypto_driver "$driver": the driver must show in /proc/crypto.
ConfirmRegistered(p) ==
  /\ at[p] = "confirm"
  /\ \/ on[p] \in registered /\ NextAlgo(p)
     \/ on[p] \notin registered /\ CtlExit(p, "err")
  /\ UNCHANGED kernelVars

\* rmmod by either of the module's two names.
Rmmod(p) ==
  /\ at[p] = "rmmod"
  /\ \/ RmmodOk(on[p]) /\ NextAlgo(p)
     \/ RmmodErr(on[p]) /\ CtlExit(p, "err")

CtlStep(p) ==
  \/ CheckListed(p) \/ Insmod(p) \/ ModuleInit(p)
  \/ ConfirmRegistered(p) \/ Rmmod(p)
=============================================================================
