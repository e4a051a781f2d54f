----------------------------- MODULE MCVerifyScript -----------------------------
(***************************************************************************)
(* An instance of VerifyScript for TLC: verify.sh and one shell, two        *)
(* devices, one CPU.                                                        *)
(***************************************************************************)
EXTENDS VerifyScript

CONSTANTS shell, verifier, c1, zram0, zram1

MCProcs == {shell, verifier}
MCCpus  == {c1}
MCDevs  == {zram0, zram1}
BothOrNone == {Algos, {}}
NoFaults == {}
SomeFaults == {"disksize", "reset", "hot_add", "hot_remove"}
=============================================================================
