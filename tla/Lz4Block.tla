------------------------------ MODULE Lz4Block ------------------------------
(***************************************************************************)
(* The block compressor of the embedded lz4: how one block is compressed   *)
(* with what the hash table holds, turn by turn of its loop.               *)
(*                                                                         *)
(* The compressor sees memory through indices: the block begins at index   *)
(* start, what it may refer to begins at low <= start, and c.bytes are the *)
(* bytes from low to the end of the block.  The hash table holds indices,  *)
(* any of which may be left from an earlier block.  Where the code keeps   *)
(* the history apart from the block (an external dictionary) its pointers  *)
(* differ, not its indices.                                                *)
(*                                                                         *)
(* A compressed block is a sequence of bytes, except that the first byte   *)
(* of an offset holds all of it.                                           *)
(***************************************************************************)
EXTENDS ZstdCommon, SequencesExt

CONSTANTS
    MINMATCH, LASTLITERALS, MFLIMIT,
    DistanceMax,     \* LZ4_DISTANCE_MAX
    U16Max,          \* the largest index a table of 16 bits holds
    HashSize,        \* LZ4_HASH_SIZE_U32; a table of 16 bits has twice as many cells
    Byte,            \* the bytes there are
    ShortHash,       \* LZ4_hash4: of MINMATCH bytes, for tables of 16 bits
    LongHash,        \* LZ4_hash5: of one more
    SkipTrigger,     \* 1 << LZ4_skipTrigger
    NibbleMask,      \* RUN_MASK and ML_MASK
    ByteMax,         \* 255
    OffsetSize,      \* the bytes of an offset
    CopySize,        \* what LZ4_wildCopy8 copies at once
    WordSize,        \* what LZ4_write32 writes
    LzBoundMargin      \* the 16 of LZ4_COMPRESSBOUND

ASSUME ParsingAssumption ==
    /\ {MINMATCH, LASTLITERALS, OffsetSize, HashSize, SkipTrigger, NibbleMask, CopySize, WordSize}
          \subseteq Nat \ {0}
    /\ {MFLIMIT, DistanceMax, U16Max, ByteMax, LzBoundMargin} \subseteq Nat
    /\ MFLIMIT >= MINMATCH + LASTLITERALS /\ MINMATCH >= 2
    /\ NibbleMask > MFLIMIT - MINMATCH /\ ByteMax >= NibbleMask

\* What the sizes have to do with each other: a match pays for its offset, the token and
\* one byte more of the literals' length (or that byte is the only one to pay for); the
\* bytes that follow the literals are as many as a copy may write too much; and so on.
ASSUME RoomAssumption ==
    /\ \/ MINMATCH >= OffsetSize + 2
       \/ MINMATCH >= OffsetSize + 1 /\ NibbleMask + MINMATCH >= ByteMax
    /\ CopySize <= OffsetSize + 1 + LASTLITERALS
    /\ WordSize <= LASTLITERALS + 2
    /\ LzBoundMargin >= 2

\* Whatever the hash functions compute.
ASSUME HashAssumption ==
    /\ 0 \in Byte /\ Byte \subseteq Nat
    /\ ShortHash \in [[1 .. MINMATCH -> Byte] -> 0 .. 2 * HashSize - 1]
    /\ LongHash \in [[1 .. MINMATCH + 1 -> Byte] -> 0 .. HashSize - 1]

\* tableType_t, without byPtr: the build is for 64 bits.
Cleared == "cleared"
ByU16   == "byU16"
ByU32   == "byU32"

LzCompressBound(size) == size + size \div ByteMax + LzBoundMargin

EmptyTable == [h \in 0 .. 2 * HashSize - 1 |-> 0]

\* The hash functions read four bytes, or five where the cells are of 32 bits.
HashOf(type, bytes) == IF type = ByU16 THEN ShortHash[SubSeq(bytes, 1, MINMATCH)] ELSE LongHash[bytes]

PutIndex(type, table, h, idx) ==
    [table EXCEPT ![h] = IF type = ByU16 THEN idx % (U16Max + 1) ELSE idx]

(***************************************************************************)
(* Compression.  c is what LZ4_compress_generic_validated is called with:  *)
(*   start, low, bytes; type: the tableType; small: dictSmall;             *)
(*   extern: the history is a dictionary elsewhere in memory;              *)
(*   limit: "none", "limited" or "fill"; cap: the room for the output;     *)
(*   speed: the acceleration;                                              *)
(*   dictTable, dictDelta: of the dictionary context, <<>> for none.       *)
(***************************************************************************)
End(c)            == c.low + Len(c.bytes)
ByteAt(c, i)      == c.bytes[i - c.low + 1]
Bytes(c, i, n)    == SubSeq(c.bytes, i - c.low + 1, i - c.low + n)
HashAt(c, i)      == HashOf(c.type, Bytes(c, i, MINMATCH + 1))
MfLimitPlusOne(c) == End(c) - MFLIMIT + 1
MatchLimit(c)     == End(c) - LASTLITERALS

\* LZ4_read32(match) == LZ4_read32(ip).  What lies in memory below the history,
\* or behind an external dictionary, may be anything, so also the same.
ReadsOutside(c, idx) == idx < c.low \/ (c.extern /\ idx < c.start /\ idx + MINMATCH > c.start)
SameStart(c, idx, ip) == ReadsOutside(c, idx) \/ Bytes(c, idx, MINMATCH) = Bytes(c, ip, MINMATCH)

Candidate(c, table, h) ==
    IF c.dictTable # <<>> /\ table[h] < c.start THEN c.dictTable[h] + c.dictDelta ELSE table[h]

\* Broken on purpose: entries from before the history are trusted.
UsableFromAnywhere(c, idx, ip) ==
    /\ c.type = ByU16 \/ idx + DistanceMax >= ip
    /\ SameStart(c, idx, ip)

Usable(c, idx, ip) ==
    /\ c.small => idx >= c.low
    /\ c.type = ByU16 \/ idx + DistanceMax >= ip
    /\ SameStart(c, idx, ip)

\* Step k of a search: they get longer.
StepOf(c, k) == IF k = 0 THEN 1 ELSE (c.speed * SkipTrigger + k - 1) \div SkipTrigger

Same(c, i, j) == i >= c.low /\ ByteAt(c, i) = ByteAt(c, j)

\* How far a match is extended backwards, and forwards from MINMATCH on.
CatchUp(c, anchor, ip, match) ==
    LET lowLimit == IF c.extern /\ match >= c.start THEN c.start ELSE c.low IN
    Max({n \in 0 .. ip - anchor :
            \A k \in 1 .. n : match - k >= lowLimit /\ Same(c, match - k, ip - k)})

Count(c, ip, match) ==
    Max({n \in 0 .. MatchLimit(c) - ip - MINMATCH :
            \A k \in 0 .. n - 1 : Same(c, match + MINMATCH + k, ip + MINMATCH + k)})

\* A length that does not fit in its half of the token goes on in further bytes.
Nibble(n)  == MIN(n, NibbleMask)
Further(n) ==
    IF n < NibbleMask THEN <<>>
    ELSE [i \in 1 .. (n - NibbleMask) \div ByteMax |-> ByteMax] \o <<(n - NibbleMask) % ByteMax>>
Token(lits, match) == lits * (NibbleMask + 1) + match

Literals(lits, matchCode) == <<Token(Nibble(Len(lits)), matchCode)>> \o Further(Len(lits)) \o lits
Offset(n) == [i \in 1 .. OffsetSize |-> IF i = 1 THEN n ELSE 0]

\* What LZ4_wildCopy8 writes to copy n bytes, and LZ4_write32 for a long match.
WildCopied(n) == IF n = 0 THEN CopySize ELSE ((n + CopySize - 1) \div CopySize) * CopySize
WordsWritten(matchCode) ==
    IF matchCode < NibbleMask THEN 0
    ELSE WordSize * ((matchCode - NibbleMask) \div (WordSize * ByteMax)) + WordSize

(***************************************************************************)
(* The loop of LZ4_compress_generic_validated.  s is a call in progress:   *)
(* out is what has been written of the bytes before anchor; at ip a match  *)
(* is searched, in step number step ("search"), or one with the index      *)
(* match has been found there ("match").  top tells how far memory has     *)
(* been written.                                                           *)
(***************************************************************************)
VARIABLES
    lz,              \* LZ4_stream_t_internal
    work             \* the call in progress

LzIdle == [at |-> "idle"]

NoRoom(s) == [s EXCEPT !.at = "done", !.out = <<>>]

\* Broken on purpose: the byte of the token is forgotten.
LastLiteralsTokenless(s) ==
    LET c     == s.c
        all   == End(c) - s.anchor
        tight == Len(s.out) + all + (all + ByteMax - NibbleMask) \div ByteMax > c.cap
        room  == c.cap - Len(s.out) - 1
        run   == IF c.limit = "fill" /\ tight
                 THEN room - (room + ByteMax + 1 - NibbleMask) \div (ByteMax + 1) ELSE all
        out   == s.out \o Literals(Bytes(c, s.anchor, run), 0)
    IN  IF c.limit = "limited" /\ tight THEN NoRoom(s)
        ELSE [s EXCEPT !.at = "done", !.ok = TRUE, !.out = out, !.top = MAX(@, Len(out)),
                       !.consumed = s.anchor + run - c.start]

\* The end of a block.
LastLiterals(s) ==
    LET c     == s.c
        all   == End(c) - s.anchor
        tight == Len(s.out) + all + 1 + (all + ByteMax - NibbleMask) \div ByteMax > c.cap
        room  == c.cap - Len(s.out) - 1
        run   == IF c.limit = "fill" /\ tight
                 THEN room - (room + ByteMax + 1 - NibbleMask) \div (ByteMax + 1) ELSE all
        out   == s.out \o Literals(Bytes(c, s.anchor, run), 0)
    IN  IF c.limit = "limited" /\ tight THEN NoRoom(s)
        ELSE [s EXCEPT !.at = "done", !.ok = TRUE, !.out = out, !.top = MAX(@, Len(out)),
                       !.consumed = s.anchor + run - c.start]

\* A match at ip with what is at index idx: it is extended backwards, and there must be
\* room for the literals before it, which are copied.
Found(s, idx) ==
    LET c      == s.c
        back   == CatchUp(c, s.anchor, s.ip, idx)
        n      == s.ip - back - s.anchor
        op     == Len(s.out) + 1
        copied == op + Len(Further(n)) + WildCopied(n)
    IN  IF c.limit = "limited" /\ op + n + (OffsetSize + 1 + LASTLITERALS) + n \div ByteMax > c.cap
        THEN NoRoom(s)
        ELSE IF c.limit = "fill" /\ op + (n + ByteMax - NibbleMask) \div ByteMax + n
                                    + OffsetSize + 1 + MFLIMIT - MINMATCH > c.cap
        THEN LastLiterals(s)
        ELSE [s EXCEPT !.at = "match", !.ip = @ - back, !.match = idx - back, !.top = MAX(@, copied)]

Searching ==
    LET c     == work.c
        h     == HashAt(c, work.ip)
        idx   == Candidate(c, lz.table, h)
        ahead == work.ip + StepOf(c, work.step)
    IN  /\ work.at = "search"
        /\ \/ /\ ahead > MfLimitPlusOne(c)
              /\ work' = LastLiterals(work)
              /\ UNCHANGED lz
           \/ /\ ahead <= MfLimitPlusOne(c)
              /\ lz' = [lz EXCEPT !.table = PutIndex(c.type, @, h, work.ip)]
              /\ work' = IF Usable(c, idx, work.ip) THEN Found(work, idx)
                         ELSE [work EXCEPT !.step = @ + 1, !.ip = ahead]

\* The sequence of the literals before ip and the match there.  One that does not fit
\* is cut with "fill".  (The code then also takes the entries behind it out of the
\* table, which nobody uses afterwards.)
Op(s)       == Len(s.out) + 1 + Len(Further(s.ip - s.anchor)) + (s.ip - s.anchor) + OffsetSize
Whole(s)    == Count(s.c, s.ip, s.match)
Tight(s)    == Op(s) + (1 + LASTLITERALS) + (Whole(s) + ByteMax - NibbleMask) \div ByteMax > s.c.cap
MatchCode(s) ==
    IF s.c.limit = "fill" /\ Tight(s)
    THEN NibbleMask - 1 + (s.c.cap - Op(s) - 1 - LASTLITERALS) * ByteMax ELSE Whole(s)
SequenceWritten(s) ==
    LET lits == Bytes(s.c, s.anchor, s.ip - s.anchor)
        code == MatchCode(s)
        next == s.ip + MINMATCH + code
        out  == s.out \o Literals(lits, Nibble(code)) \o Offset(s.ip - s.match) \o Further(code)
    IN  [s EXCEPT !.out = out, !.top = MAX(@, MAX(Len(out), Op(s) + WordsWritten(code))),
                  !.anchor = next, !.ip = next]

\* From _next_match on.
NextMatch ==
    LET c      == work.c
        done   == SequenceWritten(work)
        next   == done.ip
        filled == PutIndex(c.type, lz.table, HashAt(c, next - 2), next - 2)
        h      == HashAt(c, next)
        idx    == Candidate(c, filled, h)
    IN  /\ work.at = "match"
        /\ \/ /\ c.limit = "fill" /\ Op(work) + 1 + MFLIMIT - MINMATCH > c.cap
              /\ work' = LastLiterals(work)
              /\ UNCHANGED lz
           \/ /\ c.limit = "limited" /\ Tight(work)
              /\ work' = NoRoom(work)
              /\ UNCHANGED lz
           \/ /\ ~(c.limit = "fill" /\ Op(work) + 1 + MFLIMIT - MINMATCH > c.cap)
              /\ ~(c.limit = "limited" /\ Tight(work))
              /\ IF next >= MfLimitPlusOne(c) THEN work' = LastLiterals(done) /\ UNCHANGED lz
                 ELSE /\ lz' = [lz EXCEPT !.table = PutIndex(c.type, filled, h, next)]
                      /\ work' = IF Usable(c, idx, next) THEN [done EXCEPT !.match = idx]
                                 ELSE [done EXCEPT !.at = "search", !.ip = next + 1, !.step = 0]

\* LZ4_compress_generic is called with c for the page: what becomes of the state s first.
Entered(s, c) ==
    LET size == End(c) - c.start IN
    IF size = 0 \/ (c.limit = "fill" /\ c.cap < 1) THEN s
    ELSE [s EXCEPT !.table    = IF size < MFLIMIT + 1 THEN @
                                ELSE PutIndex(c.type, @, HashAt(c, c.start), c.start),
                   !.offset   = @ + size,
                   !.type     = c.type,
                   !.dictSize = IF c.dictTable # <<>> THEN size ELSE @ + size,
                   !.ctx      = @ /\ c.dictTable = <<>>]

\* A call begins: page is compressed and what follows is done as afterwards says, for a
\* page at the address src.
LzBegun(c, page, afterwards, src) ==
    LET size == End(c) - c.start
        s    == [at |-> "search", c |-> c, page |-> page, afterwards |-> afterwards, src |-> src,
                 anchor |-> c.start, ip |-> c.start + 1, step |-> 0, match |-> 0,
                 out |-> <<>>, top |-> 0, ok |-> FALSE, consumed |-> 0]
    IN  IF c.limit # "none" /\ c.cap < 1 /\ (c.limit = "fill" \/ size = 0) THEN NoRoom(s)
        ELSE IF size = 0 THEN [s EXCEPT !.at = "done", !.ok = TRUE, !.out = <<0>>, !.top = 1]
        ELSE IF size < MFLIMIT + 1 THEN LastLiterals(s)
        ELSE s
=============================================================================
