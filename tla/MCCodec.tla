------------------------------- MODULE MCCodec -------------------------------
(***************************************************************************)
(* Instances of the codecs, which share no state: the two streaming        *)
(* interfaces of zstd with the wire between them, the entropy tables and    *)
(* repeat offsets of its blocks, and the states of lz4.                     *)
(* One run checks both: part says which of them a behaviour is about, and  *)
(* the others stay as they are.                                            *)
(***************************************************************************)
EXTENDS ZstdPipe, Lz4Decoder, ZstdBlocks

VARIABLE part

MCPages ==
    {<<>>, <<0, 1, 0>>, [i \in 1 .. 6 |-> 0], <<0, 1, 0, 1, 0, 1, 0>>,
     <<1, 0, 1, 1, 0, 1, 1, 0>>, [i \in 1 .. 12 |-> 0]}

MCDictionary == <<0, 1, 0, 1, 1, 0, 0>>

MCShortHash == [b \in [1 .. 2 -> {0, 1}] |-> 2 * b[1] + b[2]]
MCLongHash == [b \in [1 .. 3 -> {0, 1}] |-> b[3]]

WithLiterals(o) == [ll0 |-> FALSE, offBase |-> o]
NoLiterals(o) == [ll0 |-> TRUE, offBase |-> o]
MCStores ==
    {<<>>, <<WithLiterals(5)>>, <<WithLiterals(1), WithLiterals(12)>>, <<WithLiterals(5), NoLiterals(1)>>,
     <<WithLiterals(12), NoLiterals(3), WithLiterals(1)>>, <<WithLiterals(5), WithLiterals(3), NoLiterals(2)>>,
     <<NoLiterals(1), WithLiterals(19)>>, <<WithLiterals(2), WithLiterals(2)>>}

CodecInit ==
    /\ PipeInit /\ LzInit /\ BlkInit
    /\ part \in {"pipe", "lz4", "blocks"}
    /\ part # "blocks" =>
          /\ bframe = [strategy |-> "fast", way |-> "whole", blocks |-> 0]
          /\ bprev.entropy = NoEntropy

CodecNext ==
    \/ /\ part = "pipe"
       /\ PipeNext
       /\ UNCHANGED <<part, lzVars, blkVars>>
    \/ /\ part = "lz4"
       /\ LzNext
       /\ UNCHANGED <<part, pipeVars, blkVars>>
    \/ /\ part = "blocks"
       /\ BlkNext
       /\ UNCHANGED <<part, pipeVars, lzVars>>

codecVars == <<part, pipeVars, lzVars, blkVars>>

CodecFairness ==
    /\ WF_codecVars(part = "pipe" /\ PipeCompresses /\ UNCHANGED <<part, lzVars, blkVars>>)
    /\ WF_codecVars(part = "pipe" /\ PipeContinues /\ UNCHANGED <<part, lzVars, blkVars>>)
    /\ WF_codecVars(part = "pipe" /\ Reader /\ UNCHANGED <<part, lzVars, blkVars>>)

CodecSpec == CodecInit /\ [][CodecNext]_codecVars /\ CodecFairness
=============================================================================
