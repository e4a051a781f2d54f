------------------------------ MODULE ByteFifo ------------------------------
(***************************************************************************)
(* What a pipe of bytes promises.  Bytes are numbered in the order in      *)
(* which they are given; any number of them may be given, or come out, at  *)
(* a time.                                                                 *)
(***************************************************************************)
EXTENDS Integers, Sequences

VARIABLES given, got

FifoInit == given = 0 /\ got = <<>>

Give == given' > given /\ UNCHANGED got

Get ==
    \E n \in 1 .. given - Len(got) :
        /\ got' = got \o [i \in 1 .. n |-> Len(got) + i]
        /\ UNCHANGED given

FifoSpec == FifoInit /\ [][Give \/ Get]_<<given, got>>
=============================================================================
