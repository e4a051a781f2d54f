------------------------------ MODULE Lz4Stream ------------------------------
(***************************************************************************)
(* One lz4 compression state over its life.  The driver compresses page    *)
(* after page with LZ4_compress_fast_extState_fastReset, which leaves the  *)
(* hash table of the page before in place when it can; other users of the  *)
(* library compress a stream of blocks that refer to each other, wherever  *)
(* in memory they lie, with a dictionary loaded or attached, and give the  *)
(* state back for the next stream.                                         *)
(*                                                                         *)
(* A call begins, its loop turns (Lz4Block), and it returns; last tells of *)
(* the call that has just returned, sent is what a decoder of the stream   *)
(* has by now.  The caller keeps the rules of lz4.h: the state is initialised, *)
(* after an error it is reset, a new stream begins with a reset, and what  *)
(* the state calls its dictionary is not overwritten (but for the case the *)
(* code takes care of, a block that ends inside it).                       *)
(***************************************************************************)
EXTENDS Lz4Block

CONSTANTS
    Window,          \* 64 KB
    SmallPage,       \* 4 KB
    IndexMax,        \* 1 GB, where LZ4_prepareTable clears the table
    RenormMax,       \* 0x80000000, where LZ4_renormDictT shifts it
    HashUnit,        \* HASH_UNIT, what is read to compute a hash
    Lz4Memory,       \* blocks and dictionaries lie at the addresses 1 .. Lz4Memory
    Places,          \* where one may begin, besides right behind the dictionary
    SaveSizes,       \* how much of the history may be saved
    Pages,           \* what is compressed in one call
    Caps,            \* the room for the output, beside the room that is always enough
    Speeds,          \* the accelerations
    Dictionary,      \* the bytes of the dictionary that is loaded or attached
    Calls            \* how many calls the caller makes

ASSUME WindowAssumption ==
    /\ Window \in Nat \ {0} /\ DistanceMax = Window - 1 /\ U16Max = Window - 1
    /\ {HashUnit, IndexMax, RenormMax, SmallPage, Lz4Memory, Calls} \subseteq Nat
    /\ HashUnit > MINMATCH /\ Window >= HashUnit /\ RenormMax >= IndexMax /\ IndexMax > 2 * Window

ASSUME CallsAssumption ==
    /\ Dictionary \in Seq(Byte) /\ \A page \in Pages : page \in Seq(Byte)
    /\ \A page \in Pages : Len(page) + Window <= RenormMax       \* LZ4_MAX_INPUT_SIZE
    /\ Places \subseteq 1 .. Lz4Memory /\ SaveSizes \subseteq Nat
    /\ Caps \subseteq Nat /\ Speeds \subseteq Nat \ {0}

VARIABLES
    room,            \* the memory of the caller
    usage,           \* what the caller may do: "stream", "oneshot" or "broken"
    sent,            \* ghost: the last bytes a decoder of the stream has
    last,            \* ghost: the call that has just returned
    calls            \* the number of calls so far

lzVars == <<lz, work, room, usage, sent, last, calls>>

Nowhere   == 0
Limit64K  == Window + MFLIMIT - 1
LzNoCall    == [ok |-> FALSE, page |-> <<>>, out |-> <<>>, cap |-> 0, bound |-> 0, limit |-> "none",
              history |-> <<>>, consumed |-> 0]

CallMade == work = LzIdle /\ calls < Calls /\ calls' = calls + 1 /\ last' = LzNoCall

\* What LZ4_initStream leaves.
FreshStream == [table |-> EmptyTable, offset |-> 0, type |-> Cleared, dictAt |-> Nowhere,
                dictSize |-> 0, ctx |-> FALSE]

PrepareTable(s, size, type) ==
    LET reset == /\ s.type # Cleared
                 /\ \/ s.type # type
                    \/ type = ByU16 /\ s.offset + size >= U16Max
                    \/ type = ByU32 /\ s.offset > IndexMax
                    \/ size >= SmallPage
        t == IF reset THEN [s EXCEPT !.table = EmptyTable, !.offset = 0, !.type = Cleared] ELSE s
    IN  [t EXCEPT !.offset   = IF @ # 0 /\ type = ByU32 THEN @ + Window ELSE @,
                  !.dictAt   = Nowhere,
                  !.dictSize = 0,
                  !.ctx      = FALSE]

\* What a call to LZ4_compress_generic without a history works on.
Call(s, page, type, limit, cap, speed) ==
    [start |-> s.offset, low |-> s.offset, bytes |-> page, type |-> type, small |-> FALSE,
     extern |-> FALSE, limit |-> limit, cap |-> cap, speed |-> speed,
     dictTable |-> <<>>, dictDelta |-> 0]

\* A call to LZ4_compress_generic in the state s.
Begins(s, c, page, afterwards, src) ==
    /\ CallMade
    /\ lz' = Entered(s, c)
    /\ work' = LzBegun(c, page, afterwards, src)
    /\ UNCHANGED usage

(***************************************************************************)
(* One-shot compression.                                                   *)
(***************************************************************************)
TypeFor(size) == IF size < Limit64K THEN ByU16 ELSE ByU32
LimitFor(size, cap, tight) == IF cap >= LzCompressBound(size) THEN "none" ELSE tight

OneShot(s, page, c, afterwards) ==
    /\ Begins(s, c, page, afterwards, Nowhere)
    /\ sent' = <<>>
    /\ UNCHANGED room

\* LZ4_compress_fast_extState_fastReset, which the driver calls for every page.
Prepared(s, page, cap, speed) ==
    LET type  == TypeFor(Len(page))
        plain == Call(s, page, type, LimitFor(Len(page), cap, "limited"), cap, speed)
    IN  OneShot(s, page, [plain EXCEPT !.small = type = ByU16 /\ s.offset # 0], "oneshot")

FastReset(page, cap, speed) ==
    Prepared(PrepareTable(lz, Len(page), TypeFor(Len(page))), page, cap, speed)

\* LZ4_compress_fast_extState
ExtState(page, cap, speed) ==
    OneShot(FreshStream, page, Call(FreshStream, page, TypeFor(Len(page)),
                                    LimitFor(Len(page), cap, "limited"), cap, speed), "oneshot")

\* LZ4_compress_destSize_extState compresses as much as there is room for, and
\* cleans the state.
DestSize(page, cap, speed) ==
    OneShot(FreshStream, page, Call(FreshStream, page, TypeFor(Len(page)),
                                    LimitFor(Len(page), cap, "fill"), cap, speed), "clean")

(***************************************************************************)
(* Streams of blocks.                                                      *)
(***************************************************************************)
\* LZ4_initStream, LZ4_createStream, LZ4_resetStream
InitStream ==
    /\ CallMade
    /\ lz' = FreshStream
    /\ usage' = "stream"
    /\ sent' = <<>>
    /\ UNCHANGED <<work, room>>

ResetStreamFast ==
    /\ CallMade
    /\ lz' = PrepareTable(lz, 0, ByU32)
    /\ usage' = "stream"
    /\ sent' = <<>>
    /\ UNCHANGED <<work, room>>

Written(memory, at, bytes) ==
    [a \in DOMAIN memory |-> IF a \in at .. at + Len(bytes) - 1 THEN bytes[a - at + 1] ELSE memory[a]]
BytesAt(memory, at, n) == [i \in 1 .. n |-> memory[at + i - 1]]
LastOf(bytes, n) == SubSeq(bytes, MAX(Len(bytes) - n, 0) + 1, Len(bytes))

\* LZ4_loadDict and LZ4_loadDictSlow of bytes at the address at.  Every third
\* position is entered, over the one before in its cell; the slow variant then enters
\* the others where there is nothing yet.
LoadedDict(bytes, at, slow) ==
    LET dict   == LastOf(bytes, Window)
        first  == Window - Len(dict)
        c      == [low |-> first, bytes |-> dict, type |-> ByU32]
        all(h) == {p \in 0 .. Len(dict) - HashUnit : HashAt(c, first + p) = h}
        third(h)  == {p \in all(h) : p % 3 = 0}
        others(h) == {p \in all(h) : first + p # 0}
        fast(h)   == IF third(h) = {} THEN 0 ELSE first + Max(third(h))
        cell(h)   == IF slow /\ fast(h) = 0 /\ others(h) # {} THEN first + Min(others(h)) ELSE fast(h)
    IN  IF Len(bytes) < HashUnit THEN [FreshStream EXCEPT !.offset = Window]
        ELSE [FreshStream EXCEPT !.table = [h \in DOMAIN @ |-> cell(h)], !.offset = Window,
                                 !.type = ByU32, !.dictSize = Len(dict),
                                 !.dictAt = at + Len(bytes) - Len(dict)]

LoadDict(at, slow) ==
    /\ CallMade
    /\ at + Len(Dictionary) - 1 <= Lz4Memory
    /\ room' = Written(room, at, Dictionary)
    /\ lz' = LoadedDict(Dictionary, at, slow)
    /\ usage' = "stream"
    /\ sent' = LastOf(Dictionary, Window)
    /\ UNCHANGED work

\* The dictionary context that may be attached, in memory of its own.
DictCtx == LoadedDict(Dictionary, Nowhere, FALSE)
DictBytes == LastOf(Dictionary, DictCtx.dictSize)

\* LZ4_attach_dictionary to a stream without a history.
AttachDictionary ==
    /\ CallMade
    /\ usage = "stream"
    /\ lz.dictSize = 0
    /\ lz.dictAt = Nowhere
    /\ lz' = [lz EXCEPT !.offset = IF @ = 0 THEN Window ELSE @, !.ctx = DictCtx.dictSize # 0]
    /\ sent' = LastOf(Dictionary, Window)
    /\ UNCHANGED <<work, room, usage>>

RenormDict(s, size) ==
    LET delta == s.offset - Window
        kept  == MIN(s.dictSize, Window)
    IN  IF s.offset + size <= RenormMax THEN s
        ELSE [s EXCEPT !.table    = [h \in DOMAIN @ |-> IF @[h] < delta THEN 0 ELSE @[h] - delta],
                       !.offset   = Window,
                       !.dictAt   = @ + s.dictSize - kept,
                       !.dictSize = kept]

DictEnd(s) == IF s.dictSize = 0 THEN Nowhere ELSE s.dictAt + s.dictSize

\* A dictionary too small to be of use is dropped, as if the block followed it.
WithoutTiny(s, src, size) ==
    IF s.dictSize < MINMATCH /\ DictEnd(s) # src /\ size > 0 /\ ~s.ctx
    THEN [s EXCEPT !.dictSize = 0, !.dictAt = src] ELSE s

\* The beginning of the dictionary that the block has overwritten is cut off.
WithoutOverlap(s, srcEnd) ==
    LET rest == MIN(DictEnd(s) - srcEnd, Window)
        kept == IF rest < MINMATCH THEN 0 ELSE rest
    IN  IF srcEnd > s.dictAt /\ srcEnd < DictEnd(s)
        THEN [s EXCEPT !.dictSize = kept, !.dictAt = DictEnd(s) - kept] ELSE s

\* A call with a history: prefix, external dictionary, dictionary context whose
\* tables are copied first, or consulted.
LinkBlock(s, src, page, plain) ==
    LET follows == ~s.ctx /\ s.dictAt + s.dictSize = src
        history == BytesAt(room', s.dictAt, s.dictSize)
        own == [plain EXCEPT !.low = @ - s.dictSize, !.bytes = history \o page, !.extern = ~follows,
                             !.small = s.dictSize < Window /\ s.dictSize < s.offset]
        dict == [plain EXCEPT !.low = @ - DictCtx.dictSize, !.bytes = DictBytes \o page,
                              !.extern = TRUE]
        big  == Len(page) > SmallPage
        copy == [dict EXCEPT !.start = DictCtx.offset, !.low = DictCtx.offset - DictCtx.dictSize]
        both == [dict EXCEPT !.dictTable = DictCtx.table, !.dictDelta = s.offset - DictCtx.offset]
    IN  \/ ~s.ctx /\ Begins(s, own, page, IF follows THEN "prefix" ELSE "external", src)
        \/ s.ctx /\ big /\ Begins(DictCtx, copy, page, "external", src)
        \/ s.ctx /\ ~big /\ Begins(s, both, page, "external", src)

\* LZ4_compress_fast_continue: the caller has put a block at src.
LzContinue(src, page, cap, speed) ==
    LET size   == Len(page)
        s      == RenormDict(lz, size)
        ready  == WithoutOverlap(WithoutTiny(s, src, size), src + size)
    IN  /\ usage = "stream"
        /\ src + size - 1 <= Lz4Memory
        /\ \/ src + size < lz.dictAt + lz.dictSize   \* it ends before the dictionary does, or inside
           \/ src >= lz.dictAt + lz.dictSize
        /\ room' = Written(room, src, page)
        /\ LinkBlock(ready, src, page, Call(ready, page, ByU32, "limited", cap, speed))
        /\ UNCHANGED sent

\* The call in progress returns.  A linked block that lies elsewhere is the next one's
\* dictionary; after a failure the stream must be reset.
Returns ==
    LET r      == work
        linked == r.afterwards \in {"prefix", "external"}
    IN  /\ work # LzIdle
        /\ r.at = "done"
        /\ work' = LzIdle
        /\ lz' = CASE r.afterwards = "clean"    -> FreshStream
                   [] r.afterwards = "external" -> [lz EXCEPT !.dictAt = r.src, !.dictSize = Len(r.page)]
                   [] OTHER                     -> lz
        /\ usage' = IF r.afterwards = "oneshot" THEN "oneshot"
                    ELSE IF linked /\ ~r.ok THEN "broken" ELSE "stream"
        /\ sent' = IF linked /\ r.ok THEN LastOf(sent \o r.page, Window) ELSE sent
        /\ last' = [ok |-> r.ok, page |-> r.page, out |-> r.out, cap |-> r.c.cap, limit |-> r.c.limit,
                    bound |-> LzCompressBound(Len(r.page)), history |-> sent, consumed |-> r.consumed]
        /\ UNCHANGED <<room, calls>>

\* A turn of its loop.
Turns == (Searching \/ NextMatch) /\ UNCHANGED <<room, usage, sent, last, calls>>

\* The history is moved to where it may stay.
SaveDict(to, size) ==
    LET kept == MIN(size, MIN(Window, lz.dictSize)) IN
    /\ CallMade
    /\ usage = "stream"
    /\ ~lz.ctx
    /\ to + kept - 1 <= Lz4Memory
    /\ room' = Written(room, to, BytesAt(room, lz.dictAt + lz.dictSize - kept, kept))
    /\ lz' = [lz EXCEPT !.dictAt = to, !.dictSize = kept]
    /\ UNCHANGED <<work, usage, sent>>

LzInit ==
    /\ lz = FreshStream
    /\ work = LzIdle
    /\ room = [a \in 1 .. Lz4Memory |-> 0]
    /\ usage = "stream"
    /\ sent = <<>>
    /\ last = LzNoCall
    /\ calls = 0

LzNext ==
    \/ \E page \in Pages, speed \in Speeds :
          \E cap \in Caps \cup {LzCompressBound(Len(page))} :
             \/ FastReset(page, cap, speed)
             \/ ExtState(page, cap, speed)
             \/ DestSize(page, cap, speed)
             \/ \E src \in (Places \cup {DictEnd(lz)}) \ {Nowhere} : LzContinue(src, page, cap, speed)
    \/ InitStream \/ ResetStreamFast \/ AttachDictionary
    \/ \E at \in Places :
          \/ \E slow \in BOOLEAN : LoadDict(at, slow)
          \/ \E size \in SaveSizes : SaveDict(at, size)
    \/ Turns \/ Returns

LzSpec == LzInit /\ [][LzNext]_lzVars

(***************************************************************************)
(* Properties.                                                             *)
(***************************************************************************)
\* Nothing is ever written behind the room for a block, neither by the copies that write
\* more than they were asked for, nor though nothing is checked when the room is
\* LZ4_compressBound; with that much room no call fails, and unless it was asked to a
\* call never leaves a part of the page out.
FitsItsRoom ==
    /\ work # LzIdle => work.top <= work.c.cap
    /\ last # LzNoCall =>
          /\ last.ok => Len(last.out) <= last.cap
          /\ last.cap >= last.bound => last.ok
          /\ last.ok /\ last.limit # "fill" => last.consumed = Len(last.page)

\* Every match that is written lies in the history or before it in the block, at a distance
\* that the format can express, and begins with the same bytes, whatever earlier blocks
\* and streams have left in the table.
MatchesAreReal ==
    LET c == work.c IN
    /\ work # LzIdle
    /\ work.at = "match"
    /\ ~(c.limit = "fill" /\ Op(work) + 1 + MFLIMIT - MINMATCH > c.cap)
    => /\ c.low <= work.match /\ work.match < work.ip /\ work.ip - work.match <= DistanceMax
       /\ Bytes(c, work.match, MINMATCH) = Bytes(c, work.ip, MINMATCH)
=============================================================================
