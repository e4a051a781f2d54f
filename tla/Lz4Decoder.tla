----------------------------- MODULE Lz4Decoder -----------------------------
(***************************************************************************)
(* The decoders of the embedded lz4, on what the compressor of Lz4Stream   *)
(* has written.                                                            *)
(***************************************************************************)
EXTENDS Lz4Stream

(***************************************************************************)
(* Decoding.  d is what LZ4_decompress_generic is called with: src, cap,   *)
(* history (the prefix and the dictionary before it), and whether a part   *)
(* is enough.  The result is -1 or the bytes.                              *)
(***************************************************************************)
LzFailed == [ok |-> FALSE, out |-> <<>>]

\* read_variable_length: ip is the position of the first byte, limit the first
\* that must not have been read.
RECURSIVE ReadLength(_, _, _)
ReadLength(src, ip, limit) ==
    IF ip + 1 > limit THEN [ok |-> FALSE, length |-> 0, ip |-> ip]
    ELSE IF src[ip + 1] # ByteMax THEN [ok |-> TRUE, length |-> src[ip + 1], ip |-> ip + 1]
    ELSE LET rest == ReadLength(src, ip + 1, limit) IN [rest EXCEPT !.length = @ + ByteMax]

\* The length that begins with half a token.
FullLength(d, half, ip, limit) ==
    IF half # NibbleMask THEN [ok |-> TRUE, length |-> half, ip |-> ip]
    ELSE LET more == ReadLength(d.src, ip, limit) IN [more EXCEPT !.length = @ + NibbleMask]

\* The bytes a match copies, which may overlap with what it is copied to.
Copied(all, offset, n) ==
    LET from == Len(all) - offset IN [k \in 1 .. n |-> all[from + ((k - 1) % offset) + 1]]

RECURSIVE Sequences(_, _, _)
Sequences(d, ip, out) ==
    LET iend    == Len(d.src)
        oend    == d.cap
        op      == Len(out)
        token   == d.src[ip + 1]
        run     == FullLength(d, token \div (NibbleMask + 1), ip + 1, iend - NibbleMask)
        isLast  == \/ op + run.length > oend - MFLIMIT
                   \/ run.ip + run.length > iend - (OffsetSize + 1 + LASTLITERALS)
        lastRun == MIN(MIN(run.length, iend - run.ip), oend - op)
        lits(n) == out \o SubSeq(d.src, run.ip + 1, run.ip + n)
        \* the match
        at      == run.ip + run.length
        offset  == d.src[at + 1]
        match   == FullLength(d, token % (NibbleMask + 1), at + OffsetSize, iend - LASTLITERALS + 1)
        length  == match.length + MINMATCH
        copied  == IF d.partial THEN MIN(length, oend - (op + run.length)) ELSE length
        next    == lits(run.length) \o Copied(d.history \o lits(run.length), offset, copied)
    IN  IF ~run.ok THEN LzFailed
        ELSE IF isLast /\ ~d.partial
        THEN IF run.ip + run.length # iend \/ op + run.length > oend THEN LzFailed
             ELSE [ok |-> TRUE, out |-> lits(run.length)]
        ELSE IF isLast /\ (op + lastRun = oend \/ run.ip + lastRun >= iend - OffsetSize)
        THEN [ok |-> TRUE, out |-> lits(lastRun)]
        ELSE IF ~match.ok THEN LzFailed
        ELSE IF offset > Len(d.history) + op + run.length THEN LzFailed
        ELSE IF ~d.partial /\ op + run.length + length > oend - LASTLITERALS THEN LzFailed
        ELSE IF d.partial /\ Len(next) = oend THEN [ok |-> TRUE, out |-> next]
        ELSE Sequences(d, match.ip, next)

DecompressBlock(d) ==
    IF d.cap = 0
    THEN IF d.partial \/ d.src = <<0>> THEN [ok |-> TRUE, out |-> <<>>] ELSE LzFailed
    ELSE IF d.src = <<>> THEN LzFailed
    ELSE Sequences(d, 0, <<>>)

\* LZ4_decompress_unsafe_generic, which knows the size of the block (d.cap) and
\* checks nothing of the input.
RECURSIVE UnsafeSequences(_, _, _)
UnsafeSequences(d, ip, out) ==
    LET token  == d.src[ip + 1]
        run    == FullLength(d, token \div (NibbleMask + 1), ip + 1, Len(d.src))
        lits   == out \o SubSeq(d.src, run.ip + 1, run.ip + run.length)
        at     == run.ip + run.length
        match  == FullLength(d, token % (NibbleMask + 1), at + OffsetSize, Len(d.src))
        length == match.length + MINMATCH
        offset == d.src[at + 1]
        next   == lits \o Copied(d.history \o lits, offset, length)
    IN  IF d.cap - Len(out) < run.length THEN LzFailed
        ELSE IF d.cap - Len(lits) < MFLIMIT
        THEN IF Len(lits) = d.cap THEN [ok |-> TRUE, out |-> lits] ELSE LzFailed
        ELSE IF d.cap - Len(lits) < length \/ offset > Len(d.history) + Len(lits) THEN LzFailed
        ELSE IF d.cap - Len(next) < LASTLITERALS THEN LzFailed
        ELSE UnsafeSequences(d, match.ip, next)

(***************************************************************************)
(* Properties.                                                             *)
(***************************************************************************)
Decoding(cap, partial) ==
    DecompressBlock([src |-> last.out, cap |-> cap, history |-> last.history, partial |-> partial])

\* Whatever the hash table holds of earlier pages, streams and dictionaries, every
\* block decodes to the page it was made from: with the decoder the driver uses,
\* with the one that knows the size alone, and from the start up to any length.
DecodesToPage ==
    LET page == SubSeq(last.page, 1, last.consumed)
        size == Len(page)
    IN  last.ok =>
           /\ \A spare \in 0 .. 1 : Decoding(size + spare, FALSE) = [ok |-> TRUE, out |-> page]
           /\ UnsafeSequences([src |-> last.out, cap |-> size, history |-> last.history], 0, <<>>)
                 = [ok |-> TRUE, out |-> page]
           /\ \A n \in 0 .. size : Decoding(n, TRUE) = [ok |-> TRUE, out |-> SubSeq(page, 1, n)]
=============================================================================
