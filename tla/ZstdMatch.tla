------------------------------ MODULE ZstdMatch ------------------------------
(***************************************************************************)
(* What the match finders share: the block as they see it, reading and     *)
(* comparing, the hash tables, and the sequences they store.               *)
(*                                                                         *)
(* A block is a record x: x.at, the symbols at every index so far, which   *)
(* are those of the block from x.start up to and without x.end; the window *)
(* (x.low, x.dict) with the segment behind [x.low, x.dict); x.prefix and   *)
(* x.least, where the finder takes the current segment and the matches to  *)
(* begin, and x.ext if the segment behind is still of use to it.  The      *)
(* widths of reads are parameters, in the order they have in the code.     *)
(***************************************************************************)
EXTENDS ZstdCommon, SequencesExt, FiniteSetsExt

CONSTANTS
    Short,        \* what MEM_read32 reads, and the least match
    Long,         \* what MEM_read64 reads
    HashRead,     \* HASH_READ_SIZE
    SearchStep,   \* 1 << kSearchStrength
    Buckets,      \* 1 << hashLog
    Chain,        \* 1 << chainLog
    MfWindow      \* 1 << windowLog

\* Behind a match the search goes on after all the finders insert with it.
ASSUME ReadsAssumption ==
    Short \in Nat /\ Long \in Nat /\ HashRead \in Nat /\ 3 <= Short /\ Short < Long /\ Long <= HashRead

Limit(x) == x.end - HashRead

\* ZSTD_getLowestMatchIndex, ZSTD_getLowestPrefixIndex, without a dictionary.
LowestMatch(x, curr)  == MAX(x.low, curr - MfWindow)
LowestPrefix(x, curr) == MAX(x.dict, curr - MfWindow)

(***************************************************************************)
(* Reading.  An index is read in the segment it lies in; what lies outside *)
(* of the window, or behind the end of the segment, may look like anything:*)
(* like what it is compared with.                                          *)
(***************************************************************************)
Known(x, i, k) == x.dict <= i \/ (x.ext /\ x.low <= i /\ i + k < x.dict)

Same(x, i, j, n) == \A k \in 0 .. n - 1 : Known(x, i, k) => x.at[i + k] = x.at[j + k]

Symbol(x, i) == IF Known(x, i, 0) THEN x.at[i] ELSE -1

\* ZSTD_count, ZSTD_count_2segments: what the one at i and the one at j share, up to end.
CountTo(x, i, j, end) ==
    CHOOSE n \in 0 .. end - j :
        /\ \A k \in 0 .. n - 1 : Symbol(x, i + k) = x.at[j + k]
        /\ j + n = end \/ Symbol(x, i + n) # x.at[j + n]

\* How long a match is of which the first n symbols have been compared.
LengthFrom(x, i, j, n) == n + CountTo(x, i + n, j + n, x.end)

\* How far a match of j at i goes back: not in front of the anchor, nor of its segment.
BackTo(x, low, anchor, i, j) ==
    LET room == MAX(MIN(j - anchor, i - low), 0) IN
    CHOOSE n \in 0 .. room :
        /\ \A k \in 1 .. n : x.at[i - k] = x.at[j - k]
        /\ n = room \/ x.at[i - n - 1] # x.at[j - n - 1]

Back(x, anchor, i, j) == BackTo(x, IF i < x.prefix THEN x.least ELSE x.prefix, anchor, i, j)

\* ZSTD_index_overlap_check: a read of four does not cross from one segment to the next.
OverlapCheck(x, i) == i >= x.prefix \/ x.prefix - 1 - i >= Short - 1

\* ZSTD_hashPtr of n symbols.
RECURSIVE HashSum(_, _, _)
HashSum(x, i, n) == IF n = 0 THEN 0 ELSE x.at[i] + 2 * HashSum(x, i + 1, n - 1)

HashPtr(x, i, n, size) == HashSum(x, i, n) % size

(***************************************************************************)
(* The state of a search: the position, the anchor, the last two offsets   *)
(* and those that were too far, the sequences and literals, the tables.    *)
(***************************************************************************)
SearchFrom(x, rep, tables) ==
    [ip |-> x.start, anchor |-> x.start, o1 |-> rep[1], o2 |-> rep[2], saved1 |-> 0, saved2 |-> 0,
     seqs |-> <<>>, lits |-> <<>>, hash |-> tables.hash, chain |-> tables.chain, next |-> tables.next,
     skipping |-> FALSE]

\* Offsets that reach too far are put aside.
OffsetsBelow(s, bound) ==
    [s EXCEPT !.saved2 = IF s.o2 >= bound THEN s.o2 ELSE 0, !.o2 = IF @ >= bound THEN 0 ELSE @,
              !.saved1 = IF s.o1 >= bound THEN s.o1 ELSE 0, !.o1 = IF @ >= bound THEN 0 ELSE @]

\* In one piece: those that reach out of the segment or the window.
PrefixOffsets(x, s) == OffsetsBelow(s, s.ip - LowestPrefix(x, s.ip) + 1)

\* ZSTD_storeSeq
Store(x, s, at, offBase, length) ==
    [s EXCEPT !.seqs = Append(@, [ll |-> at - s.anchor, offBase |-> offBase, ml |-> length]),
              !.lits = @ \o SubSeq(x.at, s.anchor, at - 1),
              !.ip = at + length, !.anchor = at + length]

NewOffset(s, offset) == [s EXCEPT !.o2 = s.o1, !.o1 = offset]
SwapOffsets(s)       == [s EXCEPT !.o1 = s.o2, !.o2 = s.o1]

\* Broken on purpose: an offset that was put aside comes back only where it was.
RepsAfterMistaken(s) ==
    <<IF s.o1 # 0 THEN s.o1 ELSE s.saved1, IF s.o2 # 0 THEN s.o2 ELSE s.saved2>>

\* The offsets for the next block: one that was put aside comes back where it was, or
\* one behind when there is a new one.
RepsAfter(s) ==
    LET saved2 == IF s.saved1 # 0 /\ s.o1 # 0 THEN s.saved1 ELSE s.saved2 IN
    <<IF s.o1 # 0 THEN s.o1 ELSE s.saved1, IF s.o2 # 0 THEN s.o2 ELSE saved2>>

Found(x, s) ==
    [seqs |-> s.seqs, lits |-> s.lits \o SubSeq(x.at, s.anchor, x.end - 1), rep |-> RepsAfter(s),
     tables |-> [hash |-> s.hash, chain |-> s.chain, next |-> s.next]]
=============================================================================
