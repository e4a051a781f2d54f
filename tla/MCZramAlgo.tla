------------------------------ MODULE MCZramAlgo ------------------------------
(***************************************************************************)
(* Instances of ZramAlgo for TLC: two shells, two CPUs, one zram device.    *)
(***************************************************************************)
EXTENDS ZramAlgo, TLC

CONSTANTS boot, user, c1, c2, zram0

MCProcs == {boot, user}
MCCpus  == {c1, c2}
OneCpu == {c1}
OneProc == {boot}
MCDevs  == {zram0}
AnyKernel == SUBSET Algos
TwoKernels == {Algos, {"lz4"}}
NoFaults == {}
AllFaults == FaultKinds
LateFaults == {"mkswap", "swapon"}
ShellSymmetry == Permutations(MCProcs) \cup Permutations(MCCpus)
=============================================================================
