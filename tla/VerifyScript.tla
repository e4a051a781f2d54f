------------------------------ MODULE VerifyScript ------------------------------
(***************************************************************************)
(* bin/verify.sh, run by one process next to the shells of ZramAlgo.  It    *)
(* creates a temporary zram device, sets it up once per algorithm and       *)
(* compares the refcnts of the new drivers before and after.                *)
(***************************************************************************)
EXTENDS ZramAlgo

CONSTANTS
  Verifier,     \* the process that runs verify.sh
  Temp          \* the device that hot_add creates next to zram0

ASSUME VerifierAssumption == Verifier \in Procs /\ Temp \in Devs \ {Zram0}

VARIABLES
  vpc,          \* step of verify.sh, "off" when it does not run
  test,         \* the driver a step is about: zstd comes first, then lz4
  pass,         \* pass
  before,       \* before_z and before_l, 0 for an empty answer
  file,         \* content of the file zram_algo
  enabled,      \* enable_zram or enable_zstd exists
  control,      \* /sys/class/zram-control/hot_add is readable
  hit,          \* history: the algorithms whose test ran on the new driver
  met           \* history: the processes whose run overlapped verify.sh

verifyVars == <<vpc, test, pass, before, file, enabled, control, hit, met>>
allVars == <<vars, verifyVars>>

\* How verify.sh ends: item 2 is off (exit 0), hot_add is not readable (exit
\* 0), hot_add gave no usable id (exit 1), and the two verdicts (exit 0, 1).
Verdicts == {"skipped", "no_hot_add", "bad_id", "PASS", "FAIL"}
VerifySteps ==
  {"off", "crypto", "before", "hot_add", "comp", "disksize", "alloc", "after",
   "reset", "hot_remove", "zram0"} \cup Verdicts

Shells == Procs \ {Verifier}
Verifying == vpc # "off"

\* refcnt_of: 1 for the registration and 1 for every stream.
Refcnt(a) ==
  IF a \in registered
    THEN 1 + Cardinality({s \in Devs \X Cpus :
                            comp[s[1]] = a /\ streams[s[1]][s[2]] = "new"})
    ELSE 0

-----------------------------------------------------------------------------
\* The script goes on with its next step.
At(step) == vpc = step
Continue(step) ==
  /\ vpc' = step
  /\ UNCHANGED <<test, pass, before, file, enabled, control, hit, met>>
Fails(step) ==
  /\ vpc' = step /\ pass' = FALSE
  /\ UNCHANGED <<test, before, file, enabled, control, hit, met>>

\* The script starts (a bound: not again while a device that hot_remove failed
\* to remove is left over, whose successor would need another id).
VerifyStart ==
  /\ At("off") /\ Temp \notin present
  /\ vpc' = IF enabled THEN "crypto" ELSE "skipped"
  /\ test' = "zstd" /\ pass' = TRUE /\ hit' = {}
  /\ before' = [a \in Algos |-> 0]
  /\ LET running == {p \in Shells : Running(p)}
     IN  met' = IF running = {} THEN {} ELSE running \cup {Verifier}
  /\ UNCHANGED <<vars, file, enabled, control>>

\* Step 2: both drivers must show in /proc/crypto.  Then, if hot_add is not
\* readable, the script is over, whatever it has found.
CheckCrypto ==
  /\ At("crypto")
  /\ pass' = (pass /\ test \in registered)
  /\ \/ test = "zstd" /\ test' = "lz4" /\ UNCHANGED vpc
     \/ /\ test = "lz4" /\ test' = "zstd"
        /\ vpc' = IF control THEN "before" ELSE "no_hot_add"
  /\ UNCHANGED <<vars, before, file, enabled, control, hit, met>>

\* before_z, then before_l.
ReadBefore ==
  /\ At("before")
  /\ before' = [before EXCEPT ![test] = Refcnt(test)]
  /\ \/ test = "zstd" /\ test' = "lz4" /\ UNCHANGED vpc
     \/ test = "lz4" /\ test' = "zstd" /\ vpc' = "hot_add"
  /\ UNCHANGED <<vars, pass, file, enabled, control, hit, met>>

\* cat hot_add creates the device with the lowest free id and prints the id;
\* the id 0 is rejected, but the device is there.
HotAdd ==
  /\ At("hot_add")
  /\ \/ /\ LET d == IF Zram0 \in present THEN Temp ELSE Zram0
           IN  /\ present' = present \cup {d}
               /\ Continue(IF d = Temp THEN "comp" ELSE "bad_id")
        /\ UNCHANGED faulted
     \/ Fault("hot_add") /\ Continue("bad_id") /\ UNCHANGED present
  /\ UNCHANGED <<moduleVars, comp, size, streams, lock, header, swap, ctlVars,
                 applyVars, disturbed>>

\* Step 3, once for zstd and once for lz4: select the algorithm, ...
TestComp ==
  /\ At("comp")
  /\ \/ CompOk(Temp, test) /\ Continue("disksize")
     \/ CompErr(Temp) /\ Fails("reset")
  /\ UNCHANGED <<ctlVars, applyVars, disturbed>>

\* ... initialise the device, whatever comes of it, ...
TestSize ==
  /\ At("disksize")
  /\ \/ DisksizeLock(Verifier, Temp) /\ Continue("alloc")
     \/ DisksizeBusy(Temp) /\ Continue("after")
  /\ UNCHANGED <<ctlVars, applyVars, disturbed>>

TestAlloc ==
  /\ At("alloc")
  /\ \/ (\E c \in Cpus : AllocStream(Verifier, Temp, c)) /\ Continue("alloc")
     \/ AllocErr(Verifier, Temp) /\ Continue("after")
     \/ DisksizeDone(Verifier, Temp, StockSize) /\ Continue("after")
  /\ UNCHANGED <<ctlVars, applyVars, disturbed>>

\* Broken on purpose: a driver that is there is taken for a driver that is used.
TestAfterPresent ==
  /\ At("after")
  /\ hit' = IF ServedByNew(Temp, test) THEN hit \cup {test} ELSE hit
  /\ pass' = (pass /\ Refcnt(test) >= before[test])
  /\ vpc' = "reset"
  /\ UNCHANGED <<vars, test, before, file, enabled, control, met>>

\* ... compare the refcnts ...
TestAfter ==
  /\ At("after")
  /\ hit' = IF ServedByNew(Temp, test) THEN hit \cup {test} ELSE hit
  /\ pass' = (pass /\ before[test] # 0 /\ Refcnt(test) > before[test])
  /\ vpc' = "reset"
  /\ UNCHANGED <<vars, test, before, file, enabled, control, met>>

\* ... and reset the device, whatever comes of it.
TestReset ==
  /\ At("reset")
  /\ ResetOk(Temp) \/ ResetErr(Temp)
  /\ \/ test = "zstd" /\ test' = "lz4" /\ vpc' = "comp"
     \/ test = "lz4" /\ vpc' = "hot_remove" /\ UNCHANGED test
  /\ UNCHANGED <<ctlVars, applyVars, disturbed, pass, before, file, enabled,
                 control, hit, met>>

\* Broken on purpose: the device is left behind.
HotRemoveNot ==
  /\ At("hot_remove")
  /\ Continue("zram0")
  /\ UNCHANGED vars

\* echo id > hot_remove: the device goes, with all it has.
HotRemove ==
  /\ At("hot_remove")
  /\ \/ /\ Unlocked(Temp)
        /\ present' = present \ {Temp}
        /\ comp' = [comp EXCEPT ![Temp] = StockAlgo]
        /\ size' = [size EXCEPT ![Temp] = 0]
        /\ streams' = [streams EXCEPT ![Temp] = NoStreams]
        /\ UNCHANGED faulted
     \/ Fault("hot_remove") /\ UNCHANGED <<present, comp, size, streams>>
  /\ Continue("zram0")
  /\ UNCHANGED <<moduleVars, lock, header, swap, ctlVars, applyVars, disturbed>>

NamesFile == Zram0 \in present /\ comp[Zram0] = file

\* Step 5 and the verdict: the name that zram0 shows.
CheckZram0 ==
  /\ At("zram0")
  /\ LET verdict == pass /\ (file \in Algos => NamesFile)
     IN  vpc' = (IF verdict THEN "PASS" ELSE "FAIL") /\ pass' = verdict
  /\ UNCHANGED <<vars, test, before, file, enabled, control, hit, met>>

VerifyReturn ==
  /\ vpc \in Verdicts
  /\ vpc' = "off" /\ met' = met \ {Verifier}
  /\ UNCHANGED <<vars, test, pass, before, file, enabled, control, hit>>

VerifyStep ==
  \/ CheckCrypto \/ ReadBefore \/ HotAdd \/ TestComp \/ TestSize \/ TestAlloc
  \/ TestAfter \/ TestReset \/ HotRemove \/ CheckZram0 \/ VerifyReturn

\* A shell does something; if it starts a script, verify.sh may be running.
ShellStep ==
  \E p \in Shells :
    /\ \/ Start(p) /\ met' = IF Verifying THEN met \cup {p, Verifier} ELSE met \ {p}
       \/ Step(p) /\ UNCHANGED met
    /\ UNCHANGED <<vpc, test, pass, before, file, enabled, control, hit>>

VerifyNext == VerifyStart \/ VerifyStep \/ ShellStep

VerifyInit ==
  /\ Init
  /\ vpc = "off" /\ test = "zstd" /\ pass = TRUE
  /\ before = [a \in Algos |-> 0]
  /\ file \in FileValues /\ enabled \in BOOLEAN /\ control \in BOOLEAN
  /\ hit = {} /\ met = {}

VerifySpec == VerifyInit /\ [][VerifyNext]_allVars

-----------------------------------------------------------------------------
(* Properties. *)

\* The verdict is true of the drivers: PASS without an overlap means that the
\* test device used the new driver on every CPU, for both algorithms; FAIL
\* without an overlap and without a failed call means that a driver is
\* missing or zram0 shows another name than the file.
VerdictTrue ==
  [][/\ Verifier \notin met /\ vpc = "zram0"
     => /\ vpc' = "PASS" => hit = Algos
        /\ vpc' = "FAIL" /\ ~faulted =>
             registered # Algos \/ (file \in Algos /\ ~NamesFile)]_allVars

\* magisk/piano_zram/README.md, "the temporary zram is removed": verify.sh
\* leaves no device behind that would pin a driver against rmmod, unless a
\* call failed.
NoTrace ==
  vpc \in Verdicts \cup {"off"} /\ ~faulted =>
    Temp \notin present /\ streams[Temp] = NoStreams

\* README.md:38: verify.sh judges by the refcnt, not by the name: with PASS,
\* the algorithm in zram_algo is served by the new driver.
PassMeansServed ==
  [][Verifier \notin met /\ file \in Algos /\ vpc = "zram0" /\ vpc' = "PASS" =>
       ServedByNew(Zram0, file)]_allVars

\* zram-algo.sh:154: when apply says that the new driver serves zram0 and no
\* rebuild is needed, it does, if no other apply, load or unload overlaps.
KeptMeansServed ==
  [][\A p \in Shells : Exits(p) /\ Solo(p) /\ pc'[p] = "kept" =>
       \E c \in Cpus : streams[Zram0][c] = "new"]_allVars
=============================================================================
