----------------------------- MODULE ZstdWindow -----------------------------
(***************************************************************************)
(* How the compressor of the embedded zstd keeps its bearings.  Its tables *)
(* hold 32-bit indices, not pointers.  The window says which bytes of      *)
(* memory the indices stand for: those from dictLimit on are counted from  *)
(* base, those from lowLimit to dictLimit (an older segment) from dictBase.*)
(* Nothing below lowLimit may be used.  Input arrives in chunks, anywhere  *)
(* in memory, often over older input (the ring buffer of the streaming     *)
(* interface does that); frames follow each other without the tables being *)
(* cleared; and when the indices get too large, all of them are shifted.   *)
(*                                                                         *)
(* The ghost mem says for each byte of memory which index the last byte    *)
(* written there was given, in today's count; anything too old to matter   *)
(* is Forgotten.  entry is one cell of the tables, any of them: the index  *)
(* stored in it and the index it should stand for by now.                  *)
(***************************************************************************)
EXTENDS ZstdCommon

CONSTANTS
    StartIndex,      \* ZSTD_WINDOW_START_INDEX
    HashReadSize,    \* HASH_READ_SIZE
    CurrentMax,      \* ZSTD_CURRENT_MAX
    CycleSize,       \* 1 << cycleLog, the period of the chain table
    MaxDist,         \* 1 << windowLog
    BlockMax,        \* blockSizeMax
    Margin,          \* ZSTD_INDEXOVERFLOW_MARGIN
    Memory,          \* the input may lie at the addresses 1 .. Memory
    ChunkMax         \* the largest chunk or dictionary that is passed in

\* ZSTD_DUBT_UNSORTED_MARK
UnsortedMark == 1

\* No index is the mark: the code asserts it at compile time.
ASSUME StartIndexAssumption   == StartIndex \in Nat /\ StartIndex > UnsortedMark
ASSUME HashReadSizeAssumption == HashReadSize \in Nat \ {0}
ASSUME CycleAssumption        == CycleSize \in Nat \ {0}
ASSUME DistAssumption         == MaxDist \in Nat \ {0} /\ MAX(MaxDist, CycleSize) % CycleSize = 0
ASSUME BlockAssumption        == BlockMax \in Nat \ {0} /\ ChunkMax \in Nat \ {0} /\ Memory \in Nat
\* The indices go on for long enough that a correction always shifts downwards,
\* and that a whole chunk of input fits in after one.
ASSUME CurrentMaxAssumption ==
    /\ CurrentMax \in Nat
    /\ Margin \in HashReadSize .. CurrentMax - StartIndex
    /\ CurrentMax >= 2 * CycleSize + StartIndex + MAX(MaxDist, CycleSize) + BlockMax + ChunkMax

VARIABLES
    win,            \* ZSTD_window_t
    loadedDictEnd,  \* of ZSTD_MatchState_t
    dms,            \* dictMatchState: the end of its indices, or NoDictionary
    nextToUpdate,   \* up to where the history has been entered in the tables
    forceSegment,   \* forceNonContiguous
    todo,           \* what is left of the chunk: [src, left]
    blk,            \* the indices of the block that was prepared last, [lo, hi)
    entry,          \* a cell of the tables: [idx, of]
    mem,            \* ghost: which index each byte of memory has
    frameStart,     \* ghost: the index at which the frame's own data begins
    open            \* ghost: the frame has just begun

winVars == <<win, loadedDictEnd, dms, nextToUpdate, forceSegment, todo, blk,
             entry, mem, frameStart, open>>

Forgotten == -1
Addresses == 1 .. Memory
NoBlock   == [lo |-> 0, hi |-> 0]
NoDictionary == 0

(***************************************************************************)
(* Operators on the window.                                                *)
(***************************************************************************)
IndexOf(w, address) == address - w.base
End(w)              == IndexOf(w, w.nextSrc)

WindowInit == [base |-> 0, dictBase |-> 0, dictLimit |-> StartIndex,
               lowLimit |-> StartIndex, nextSrc |-> StartIndex]

WindowClear(w) == [w EXCEPT !.lowLimit = End(w), !.dictLimit = End(w)]

\* A chunk that does not follow the last one begins a new segment; the segment
\* before becomes the old one, unless it is too small.
NewSegment(w, src) ==
    LET end == End(w) IN
    [w EXCEPT !.lowLimit  = IF end - w.dictLimit < HashReadSize THEN end ELSE w.dictLimit,
              !.dictLimit = end,
              !.dictBase  = w.base,
              !.base      = src - end]

Contiguous(w, src, force) == src = w.nextSrc /\ ~force

\* Broken on purpose: the old segment is kept where it is overwritten.
WindowUpdateKeeping(w, src, size, force) ==
    IF size = 0 THEN w
    ELSE [(IF Contiguous(w, src, force) THEN w ELSE NewSegment(w, src))
             EXCEPT !.nextSrc = src + size]

\* What the input overwrites of the old segment must not be used, nor what lies
\* below that.
WindowUpdate(w, src, size, force) ==
    LET v    == [(IF Contiguous(w, src, force) THEN w ELSE NewSegment(w, src))
                    EXCEPT !.nextSrc = src + size]
        high == src + size - v.dictBase
    IN  IF size = 0 THEN w
        ELSE IF high > v.lowLimit /\ src < v.dictBase + v.dictLimit
        THEN [v EXCEPT !.lowLimit = MIN(high, v.dictLimit)]
        ELSE v

\* Broken on purpose: off by one.
NeedOverflowCorrectionLate(w, srcEnd) == IndexOf(w, srcEnd) > CurrentMax + 1

NeedOverflowCorrection(w, srcEnd) == IndexOf(w, srcEnd) > CurrentMax

\* The amount by which all indices are shifted down.
Correction(w, src) ==
    LET curr  == IndexOf(w, src)
        cycle == curr % CycleSize
        start == IF cycle < StartIndex THEN MAX(CycleSize, StartIndex) ELSE 0
    IN  curr - (cycle + start + MAX(MaxDist, CycleSize))

ShiftLimit(limit, by) == IF limit < by + StartIndex THEN StartIndex ELSE limit - by

CorrectOverflow(w, by) ==
    [w EXCEPT !.base = @ + by, !.dictBase = @ + by,
              !.lowLimit = ShiftLimit(@, by), !.dictLimit = ShiftLimit(@, by)]

\* Broken on purpose: what is too old is left alone.
ReduceCellYoung(val, by, preserveMark) ==
    IF preserveMark /\ val = UnsortedMark THEN UnsortedMark
    ELSE IF val < by + StartIndex THEN val
    ELSE val - by

\* A cell of the hash table, and one of the chain table of strategy btlazy2,
\* whose mark for what is not sorted yet is not an index.
ReduceCell(val, by, preserveMark) ==
    IF preserveMark /\ val = UnsortedMark THEN UnsortedMark
    ELSE IF val < by + StartIndex THEN 0
    ELSE val - by

\* nextToUpdate, and the limit that keeps it out of what is not valid.
ShiftUpdate(next, by) == IF next < by THEN 0 ELSE next - by

IndexTooCloseToMax(w) == End(w) > CurrentMax - Margin

\* The operators below work on the part [win, dictEnd, dms, next] of the match
\* state, where dictEnd is loadedDictEnd and next is nextToUpdate.
Invalidated(m) == [m EXCEPT !.dictEnd = 0, !.dms = NoDictionary]

\* Returns the match state and the amount by which the cells are to be reduced.
OverflowCorrectIfNeeded(m, ip, iend) ==
    LET by == Correction(m.win, ip) IN
    IF NeedOverflowCorrection(m.win, iend)
    THEN [ms |-> [Invalidated(m) EXCEPT !.win  = CorrectOverflow(m.win, by),
                                        !.next = ShiftUpdate(m.next, by)],
          by |-> by]
    ELSE [ms |-> m, by |-> 0]

CheckDictValidity(m, blockEnd) ==
    IF \/ IndexOf(m.win, blockEnd) > m.dictEnd + MaxDist
       \/ m.dictEnd # m.win.dictLimit
    THEN Invalidated(m) ELSE m

EnforceMaxDist(m, ip) ==
    LET idx == IndexOf(m.win, ip)
        low == MAX(m.win.lowLimit, idx - MaxDist)
    IN  IF idx <= MaxDist + m.dictEnd THEN m
        ELSE [Invalidated(m) EXCEPT !.win.lowLimit  = low,
                                    !.win.dictLimit = MAX(m.win.dictLimit, low)]

\* Broken on purpose: the window is not looked at.
LowestMatchIndexAny(w, dictEnd, curr) == w.lowLimit

LowestMatchIndex(w, dictEnd, curr) ==
    IF dictEnd # 0 \/ curr - w.lowLimit <= MaxDist THEN w.lowLimit ELSE curr - MaxDist

LowestPrefixIndex(w, dictEnd, curr) ==
    IF dictEnd # 0 \/ curr - w.dictLimit <= MaxDist THEN w.dictLimit ELSE curr - MaxDist

(***************************************************************************)
(* The machine.                                                            *)
(***************************************************************************)
State == [win |-> win, dictEnd |-> loadedDictEnd, dms |-> dms, next |-> nextToUpdate]

SetState(m) ==
    /\ win' = m.win
    /\ loadedDictEnd' = m.dictEnd
    /\ dms' = m.dms
    /\ nextToUpdate' = m.next

Empty == [a \in Addresses |-> Forgotten]
Blank == [idx |-> 0, of |-> Forgotten]

WinInit ==
    /\ win = WindowInit
    /\ loadedDictEnd = 0
    /\ dms = NoDictionary
    /\ nextToUpdate = StartIndex
    /\ forceSegment = FALSE
    /\ todo = [src |-> 0, left |-> 0]
    /\ blk = NoBlock
    /\ entry = Blank
    /\ mem = Empty
    /\ frameStart = StartIndex
    /\ open = TRUE

Rebase(index, by) == MAX(index - by, Forgotten)

\* The ghost mem after size bytes have been written at src and indexed by w, and
\* after a shift; what lies below the lowest index that is valid is forgotten.
Written(w, src, size) ==
    [a \in Addresses |-> IF a \in src .. src + size - 1 THEN IndexOf(w, a) ELSE mem[a]]
Shifted(memory, by) == [a \in Addresses |-> Rebase(memory[a], by)]
Remembered(w, memory) ==
    [a \in Addresses |-> IF memory[a] < w.lowLimit THEN Forgotten ELSE memory[a]]

ReducedEntry(by) ==
    {[idx |-> ReduceCell(entry.idx, by, mark), of |-> Rebase(entry.of, by)] : mark \in BOOLEAN}

\* Entering position p reads the memory at base + p.
EntryAt(w, memory, p) ==
    LET a == w.base + p IN
    [idx |-> p, of |-> IF a \in Addresses THEN memory[a] ELSE Forgotten]

\* A frame begins: nothing of the last one may be used, but the tables stay.
\* Where the indices are too close to the end they start again, and the tables
\* are cleared (see Cwksp).
NewFrame(fresh) ==
    LET w == WindowClear(IF fresh THEN WindowInit ELSE win) IN
    /\ todo.left = 0
    /\ IndexTooCloseToMax(win) => fresh
    /\ SetState([win |-> w, dictEnd |-> 0, dms |-> NoDictionary, next |-> w.dictLimit])
    /\ frameStart' = End(w)
    /\ open' = TRUE
    /\ blk' = NoBlock
    /\ entry' = IF fresh THEN Blank ELSE entry
    /\ mem' = Empty
    /\ UNCHANGED <<forceSegment, todo>>

\* ZSTD_loadDictionaryContent: force is the parameter forceWindow, prefix is
\* deterministicRefPrefix.
LoadDictionary(src, size, force, prefix) ==
    LET w      == WindowUpdate(win, src, size, FALSE)
        loaded == [win |-> w, dms |-> dms, next |-> IndexOf(w, src),
                   dictEnd |-> IF force THEN 0 ELSE End(w)]
        fixed  == IF size <= HashReadSize THEN [ms |-> loaded, by |-> 0]
                  ELSE OverflowCorrectIfNeeded(loaded, src, src + size)
        v      == fixed.ms.win
        memory == Shifted(Written(w, src, size), fixed.by)
    IN  /\ open
        /\ src + size - 1 <= Memory
        /\ mem' = Remembered(v, memory)
        /\ frameStart' = End(v)
        /\ IF size <= HashReadSize
           THEN SetState(loaded) /\ UNCHANGED entry
           ELSE /\ SetState([fixed.ms EXCEPT !.next = End(v)])
                /\ entry' \in ReducedEntry(fixed.by)
                       \cup {EntryAt(v, memory, p) : p \in fixed.ms.next .. End(v) - HashReadSize}
        /\ forceSegment' = prefix
        /\ open' = FALSE
        /\ UNCHANGED <<todo, blk>>

\* ZSTD_resetCCtx_byAttachingCDict: a dictionary with tables of its own, whose
\* indices end at cdictEnd.
AttachDictionary(cdictEnd) ==
    LET w == IF win.dictLimit < cdictEnd
             THEN WindowClear([win EXCEPT !.nextSrc = win.base + cdictEnd]) ELSE win
    IN  /\ open
        /\ SetState([State EXCEPT !.win = w, !.dms = cdictEnd, !.dictEnd = w.dictLimit])
        /\ frameStart' = End(w)
        /\ open' = FALSE
        /\ UNCHANGED <<forceSegment, todo, blk, entry, mem>>

\* ZSTD_compressContinue: the user puts a chunk of new bytes at src.
Feed(src, size) ==
    LET w      == WindowUpdate(win, src, size, forceSegment)
        joined == Contiguous(win, src, forceSegment)
    IN  /\ todo.left = 0
        /\ src + size - 1 <= Memory
        /\ SetState([State EXCEPT !.win  = w,
                                  !.next = IF joined THEN nextToUpdate ELSE w.dictLimit])
        /\ forceSegment' = (forceSegment /\ joined)
        /\ todo' = [src |-> src, left |-> size]
        /\ mem' = Remembered(w, Written(w, src, size))
        /\ frameStart' = frameStart
        /\ open' = FALSE
        /\ blk' = NoBlock
        /\ UNCHANGED entry

\* ZSTD_compress_frameChunk, one block of it.  The match finder enters positions
\* from nextToUpdate on; how many, depends on the strategy and on the matches.
Block(size) ==
    LET ip     == todo.src
        fixed  == OverflowCorrectIfNeeded(State, ip, ip + size)
        valid  == CheckDictValidity(fixed.ms, ip + size)
        m      == EnforceMaxDist(valid, ip)
        next   == MAX(m.next, m.win.lowLimit)
        memory == Shifted(mem, fixed.by)
        end    == IndexOf(m.win, ip + size)
    IN  /\ size <= MIN(todo.left, BlockMax)
        /\ mem' = Remembered(m.win, memory)
        /\ frameStart' = Rebase(frameStart, fixed.by)
        /\ entry' \in ReducedEntry(fixed.by) \cup {EntryAt(m.win, memory, p) : p \in next .. end - 1}
        /\ \E n \in {next, end} : SetState([m EXCEPT !.next = n])
        /\ blk' = [lo |-> IndexOf(m.win, ip), hi |-> end]
        /\ todo' = [src |-> ip + size, left |-> todo.left - size]
        /\ UNCHANGED <<forceSegment, open>>

WinNext ==
    \/ \E fresh \in BOOLEAN : NewFrame(fresh)
    \/ \E src \in Addresses, size \in 1 .. ChunkMax :
          \/ Feed(src, size)
          \/ \E force, prefix \in BOOLEAN : LoadDictionary(src, size, force, prefix)
    \/ \E end \in StartIndex + 1 .. StartIndex + ChunkMax : AttachDictionary(end)
    \/ \E size \in 1 .. BlockMax : Block(size)

WinSpec == WinInit /\ [][WinNext]_winVars

(***************************************************************************)
(* Properties.                                                             *)
(***************************************************************************)
AddressOf(index) == IF index >= win.dictLimit THEN win.base + index ELSE win.dictBase + index

\* Where a block is compressed, every index the match finder may use stands for
\* the very byte that was given this index, whatever the input has overwritten,
\* however the segments lay in memory, and however often the indices were shifted.
HistoryIntact ==
    \A i \in win.lowLimit .. blk.hi - 1 :
        AddressOf(i) \in Addresses /\ mem[AddressOf(i)] = i

\* An index taken from the tables is either too low to be used or stands for the
\* position whose bytes were hashed: entries of earlier frames, of overwritten
\* segments and from before a shift never pass for something else.
EntryFaithful == entry.idx >= win.lowLimit => entry.of = entry.idx

\* Every match offset of a block can be decoded: it stays within the window, or it
\* is taken while the frame is no longer than the window, when the whole dictionary
\* may be used; and a dictionary that was attached lies below the frame and is let
\* go before its window has passed.
OffsetsDecodable ==
    /\ \A curr \in blk.lo .. blk.hi - 1 :
          \A low \in {LowestMatchIndex(win, loadedDictEnd, curr),
                     LowestPrefixIndex(win, loadedDictEnd, curr)} :
              curr - low <= MaxDist \/ curr - frameStart < MaxDist
    /\ blk # NoBlock /\ dms # NoDictionary =>
          dms <= win.dictLimit /\ blk.hi - frameStart <= MaxDist

\* The indices stay within their range.
IndicesBounded ==
    /\ blk.hi <= CurrentMax
    /\ todo.left = 0 => End(win) <= CurrentMax
=============================================================================
