------------------------------ MODULE ZstdWire ------------------------------
(***************************************************************************)
(* What the two streaming interfaces of the embedded zstd say to each      *)
(* other: frames of a header, blocks and a checksum, between which         *)
(* skippable frames may lie.  The wire is counted in units, each of which  *)
(* may arrive alone.  The bytes of the content are numbered in the order   *)
(* in which they were given to the compressor.                             *)
(***************************************************************************)
EXTENDS ZstdCommon, SequencesExt

CONSTANTS
    HeaderSize,      \* units of a frame header
    SkipHeaderSize,  \* ZSTD_SKIPPABLEHEADERSIZE
    WindowSize       \* 1 << windowLog

ASSUME HeaderSizeAssumption ==
    HeaderSize \in Nat \ {0} /\ SkipHeaderSize \in Nat \ {0} /\ WindowSize \in Nat \ {0}

VARIABLE wire        \* what has been written and not been read yet

Unknown == -1        \* ZSTD_CONTENTSIZE_UNKNOWN

\* ZSTD_writeFrameHeader: a frame that fits in the window is a single segment,
\* whose window is its content.
FrameHeader(pledged, checksum) ==
    [i \in 1 .. HeaderSize |->
        [k |-> "head", i |-> i, fcs |-> pledged, checksum |-> checksum,
         window |-> IF pledged # Unknown /\ pledged <= WindowSize THEN pledged ELSE WindowSize]]

\* A block that could not be compressed is sent as it is, a unit for each byte.
BlockUnits(bytes, last, raw) ==
    LET size == IF raw THEN Len(bytes) ELSE 1 IN
    <<[k |-> "block", last |-> last, raw |-> raw, size |-> size, orig |-> Len(bytes)]>>
    \o [i \in 1 .. size |-> [k |-> "body", bytes |-> IF raw THEN <<bytes[i]>> ELSE bytes]]

EmptyLastBlock == BlockUnits(<<>>, TRUE, TRUE)
ChecksumUnit   == [k |-> "sum"]

\* ZSTD_writeSkippableFrame
SkippableFrame(size) ==
    [i \in 1 .. SkipHeaderSize |-> [k |-> "skiphead", i |-> i, size |-> size]]
    \o [i \in 1 .. size |-> [k |-> "skip"]]

Take(s, n) == SubSeq(s, 1, n)
Drop(s, n) == SubSeq(s, n + 1, Len(s))
=============================================================================
