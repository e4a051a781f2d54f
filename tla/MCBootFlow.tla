------------------------------ MODULE MCBootFlow ------------------------------
(***************************************************************************)
(* Instances of BootFlow for TLC: two CPUs, every configuration.            *)
(***************************************************************************)
EXTENDS BootFlow, TLC

CONSTANTS postfsSh, serviceSh, perfinitD, c1, c2, zram0

MCProcs == {postfsSh, serviceSh, perfinitD}
MCCpus  == {c1, c2}
MCDevs  == {zram0}
AnyKernel == SUBSET Algos
NoFaults  == {}
AllFaults == FaultKinds
=============================================================================
