----------------------------- MODULE ZstdDStream -----------------------------
(***************************************************************************)
(* ZSTD_decompressStream: the user calls it with what has arrived and some *)
(* room for output.  Blocks are decoded into a ring, outBuff, in which the *)
(* last bytes of the frame must stay readable, and flushed from there;     *)
(* a frame that has arrived whole and fits is decoded in one pass.  A call *)
(* begins with DCall, takes a step for each turn of the loop, and returns  *)
(* with the last of them.                                                  *)
(***************************************************************************)
EXTENDS ZstdWire

CONSTANTS
    DBlockSizeMax,   \* ZSTD_BLOCKSIZE_MAX
    MinWindow,       \* 1 << ZSTD_WINDOWLOG_ABSOLUTEMIN
    WildcopyLength,  \* WILDCOPY_OVERLENGTH: a decoder may write that much too far
    DTooLargeFactor, \* ZSTD_WORKSPACETOOLARGE_FACTOR
    DMaxDuration,    \* ZSTD_WORKSPACETOOLARGE_MAXDURATION
    MaxFailures,     \* bound: how often in a row an allocation fails
    DRooms,          \* the sizes an output buffer may have
    Arrivals         \* how many units a call may be shown

\* A reader offers some room whenever he calls.
ASSUME DStreamAssumption ==
    /\ DBlockSizeMax \in Nat \ {0}
    /\ {MinWindow, WildcopyLength, DTooLargeFactor, DMaxDuration, MaxFailures} \subseteq Nat
    /\ DRooms \subseteq Nat \ {0} /\ Arrivals \subseteq Nat

VARIABLES
    ds,              \* ZSTD_DCtx
    dmem,            \* the contents of outBuff, by address
    dcall,           \* the call that is going on, or what the last one returned
    received,        \* what the user has got
    made,            \* ghost: how many bytes have been decoded, and before this frame
    failures         \* ghost: the allocations that failed since the last one that did not

dVars == <<ds, dmem, dcall, received, made, failures>>

NoAddress == 0       \* NULL; outBuff begins at address 1
Garbage   == 0

NoCall == [busy |-> FALSE, left |-> 0, room |-> 0, took |-> 0, put |-> 0, full |-> FALSE, ret |-> 0]

\* A context between two frames: what else is in it is set when the next one begins.
NoFrame ==
    [stage |-> "init", dstage |-> "getHeader", head |-> <<>>, expected |-> 0,
     raw |-> TRUE, inBuff |-> <<>>, inSize |-> 0, outSize |-> 0, outStart |-> 0,
     outEnd |-> 0, hostage |-> FALSE, prefixStart |-> NoAddress, dictEnd |-> NoAddress,
     virtualStart |-> NoAddress, previousDstEnd |-> NoAddress,
     fcs |-> Unknown, window |-> 0, block |-> 0, checksum |-> FALSE,
     oversized |-> 0, idle |-> 0]

KeepBuffers(d) ==
    [NoFrame EXCEPT !.inSize = d.inSize, !.outSize = d.outSize, !.oversized = d.oversized, !.idle = d.idle]

DStreamInit ==
    /\ ds = NoFrame
    /\ dmem = <<>>
    /\ dcall = NoCall
    /\ received = <<>>
    /\ made = [all |-> 0, before |-> 0]
    /\ failures = 0

\* Broken on purpose: room for the window and the block that is being decoded alone.
DecodingBufferSizeTight(window, fcs, blockMax) ==
    LET needed == window + MIN(MIN(window, DBlockSizeMax), blockMax) IN
    IF fcs = Unknown THEN needed ELSE MIN(fcs, needed)

\* ZSTD_decodingBufferSize_internal
DecodingBufferSize(window, fcs, blockMax) ==
    LET block  == MIN(MIN(window, DBlockSizeMax), blockMax)
        needed == window + 2 * block + 2 * WildcopyLength
    IN  IF fcs = Unknown THEN needed ELSE MIN(fcs, needed)

\* Where nothing was shown of a block that may be streamed, one byte is asked for.
NextSrcSize(d, shown) ==
    IF d.dstage \in {"block", "lastBlock"} /\ d.raw
    THEN MAX(1, MIN(shown, d.expected)) ELSE d.expected

Here(d)     == 1 + d.outStart
Room(d)     == d.outSize - d.outStart

\* ZSTD_checkContinuity
CheckContinuity(d, dst, size) ==
    IF dst = d.previousDstEnd \/ size = 0 THEN d
    ELSE [d EXCEPT !.dictEnd = d.previousDstEnd,
                   !.virtualStart = dst - (d.previousDstEnd - d.prefixStart),
                   !.prefixStart = dst, !.previousDstEnd = dst]

EndOfFrame(d) ==
    IF d.checksum THEN [d EXCEPT !.expected = 1, !.dstage = "checksum"]
    ELSE [d EXCEPT !.expected = 0, !.dstage = "getHeader"]

\* ZSTD_decompressContinue; bytes is what is decoded.
DecodeBlockHeader(d, u) ==
    LET next == [d EXCEPT !.expected = u.size, !.raw = u.raw] IN
    IF u.size # 0 THEN [next EXCEPT !.dstage = IF u.last THEN "lastBlock" ELSE "block"]
    ELSE IF u.last THEN EndOfFrame(next)
    ELSE [next EXCEPT !.expected = 1, !.dstage = "blockHeader"]

DecodeBlock(d, units, bytes, dst) ==
    LET left == IF d.raw THEN d.expected - Len(units) ELSE 0
        next == [d EXCEPT !.expected = left, !.previousDstEnd = dst + Len(bytes)]
    IN  IF left > 0 THEN next
        ELSE IF d.dstage = "lastBlock" THEN EndOfFrame(next)
        ELSE [next EXCEPT !.dstage = "blockHeader", !.expected = 1]

Decode(d, units, bytes, dst) ==
    CASE d.dstage = "blockHeader"          -> DecodeBlockHeader(d, units[1])
      [] d.dstage \in {"block", "lastBlock"} -> DecodeBlock(d, units, bytes, dst)
      [] d.dstage \in {"checksum", "skip"} -> [d EXCEPT !.expected = 0, !.dstage = "getHeader"]

BytesOf(d, units) ==
    IF d.dstage \in {"block", "lastBlock"}
    THEN FlattenSeq([i \in DOMAIN units |-> units[i].bytes]) ELSE <<>>

\* A decoder of a compressed block may write anything where the block may lie,
\* and a little further; copying a raw block writes nothing else.
WrittenOver(d) == Here(d) .. Here(d) + MIN(d.block + WildcopyLength, Room(d)) - 1

Stored(d, bytes) ==
    [a \in DOMAIN dmem |->
        IF a \in Here(d) .. Here(d) + Len(bytes) - 1 THEN bytes[a - Here(d) + 1]
        ELSE IF ~d.raw /\ a \in WrittenOver(d) THEN Garbage
        ELSE dmem[a]]

\* ZSTD_decompressContinueStream on units that have been taken already.
ContinueStream(d, units) ==
    LET skip  == d.dstage = "skip"
        bytes == BytesOf(d, units)
        here  == CheckContinuity(d, Here(d), IF skip THEN 0 ELSE Room(d))
        next  == Decode(here, units, bytes, Here(d))
    IN  /\ ds' = IF bytes = <<>> /\ ~skip
                 THEN [next EXCEPT !.stage = "read"]
                 ELSE [next EXCEPT !.outEnd = d.outStart + Len(bytes), !.stage = "flush"]
        /\ dmem' = IF bytes = <<>> THEN dmem ELSE Stored(d, bytes)
        /\ made' = [made EXCEPT !.all = @ + Len(bytes)]

(***************************************************************************)
(* A call and its end.                                                     *)
(***************************************************************************)
DAt(stage) == dcall.busy /\ ds.stage = stage

DCall(shown, room) ==
    /\ ~dcall.busy
    /\ shown > 0 \/ dcall.full
    /\ shown <= Len(wire)
    /\ dcall' = [NoCall EXCEPT !.busy = TRUE, !.left = shown, !.room = room]
    /\ ds' = IF ds.stage # "init" THEN ds
             ELSE [ds EXCEPT !.stage = "loadHeader", !.head = <<>>, !.inBuff = <<>>,
                             !.outStart = 0, !.outEnd = 0, !.hostage = FALSE]
    /\ UNCHANGED <<wire, dmem, received, made, failures>>

\* The call after n units have left the wire, and after n bytes have been put out.
Took(n) == [dcall EXCEPT !.left = @ - n, !.took = @ + n]
Put(c, n) == [c EXCEPT !.room = @ - n, !.put = @ + n]

Returned(c, ret) == [NoCall EXCEPT !.full = c.room = 0, !.ret = ret]

Settled(d) == IF d.stage = "init" THEN KeepBuffers(d) ELSE d

\* The end of a call: while not all of a decoded frame has been flushed its last
\* unit is held back, so that the user calls again.
DReturn(d, c, w) ==
    LET count == [d EXCEPT !.idle = IF c.took + c.put = 0 THEN @ + 1 ELSE 0] IN
    IF d.expected # 0
    THEN ds' = count /\ wire' = w /\ dcall' = Returned(c, d.expected)
    ELSE IF d.outEnd # d.outStart
    THEN /\ ds' = [count EXCEPT !.hostage = TRUE]
         /\ wire' = IF d.hostage THEN w ELSE <<[k |-> "hostage"]>> \o w
         /\ dcall' = Returned(c, 1)
    ELSE IF ~d.hostage
    THEN ds' = Settled(count) /\ wire' = w /\ dcall' = Returned(c, 0)
    ELSE IF c.left = 0
    THEN ds' = [count EXCEPT !.stage = "read"] /\ wire' = w /\ dcall' = Returned(c, 1)
    ELSE ds' = Settled(count) /\ wire' = Tail(w) /\ dcall' = Returned(c, 0)

(***************************************************************************)
(* The header.                                                             *)
(***************************************************************************)
\* ZSTD_getFrameHeader_advanced: how many units it wants to see, 0 for no more.
HeaderNeeds ==
    LET all == IF ds.head = <<>> THEN 1
               ELSE IF ds.head[1].k = "skiphead" THEN SkipHeaderSize ELSE HeaderSize
    IN  IF Len(ds.head) >= all THEN 0 ELSE all

LoadHeader ==
    LET toLoad == HeaderNeeds - Len(ds.head)
        n      == MIN(toLoad, dcall.left)
    IN  /\ DAt("loadHeader")
        /\ HeaderNeeds # 0
        /\ ds' = [ds EXCEPT !.head = @ \o Take(wire, n)]
        /\ wire' = Drop(wire, n)
        /\ dcall' = IF n < toLoad THEN Returned(Took(n), toLoad - n + 1) ELSE Took(n)
        /\ UNCHANGED <<dmem, received, made, failures>>

HeaderDone == DAt("loadHeader") /\ HeaderNeeds = 0
IsSkip     == ds.head[1].k = "skiphead"

\* A frame ends with its last block and the checksum, if it has one.
EndsAt(i) ==
    \E j \in 1 .. i : /\ wire[j].k = "block"
                      /\ wire[j].last
                      /\ i = j + wire[j].size + (IF ds.head[1].checksum THEN 1 ELSE 0)

\* The whole frame is in the input of this call, and fits: it is looked for where
\* that input begins, so the header must be there as well.
SinglePassPossible ==
    /\ ~IsSkip
    /\ ds.head[1].fcs # Unknown
    /\ dcall.room >= ds.head[1].fcs
    /\ dcall.took = HeaderSize
    /\ \E i \in 1 .. dcall.left : EndsAt(i)

\* ZSTD_decompressFrame: what the blocks of a frame decode to, one after the other.
Content(units) ==
    FlattenSeq([i \in DOMAIN units |-> IF units[i].k = "body" THEN units[i].bytes ELSE <<>>])

SinglePass ==
    LET n     == CHOOSE i \in 1 .. dcall.left : EndsAt(i) /\ \A j \in 1 .. i - 1 : ~EndsAt(j)
        bytes == Content(Take(wire, n))
    IN  /\ HeaderDone
        /\ SinglePassPossible
        /\ received' = received \o bytes
        /\ made' = [all |-> made.all + Len(bytes), before |-> made.all + Len(bytes)]
        /\ DReturn([ds EXCEPT !.expected = 0, !.stage = "init"], Put(Took(n), Len(bytes)),
                   Drop(wire, n))
        /\ failures' = 0
        /\ UNCHANGED dmem

\* What the header asks for.
Wanted ==
    LET u      == ds.head[1]
        size   == IF IsSkip THEN 0 ELSE u.window
        window == MAX(size, MinWindow)
        block  == MIN(size, DBlockSizeMax)
        fcs    == IF IsSkip THEN u.size ELSE u.fcs
    IN  [window |-> window, block |-> block, fcs |-> fcs,
         in |-> MAX(block, 1), out |-> DecodingBufferSize(window, fcs, block)]

\* ZSTD_decompressBegin and ZSTD_decodeFrameHeader
Begun ==
    [ds EXCEPT !.previousDstEnd = NoAddress, !.prefixStart = NoAddress,
               !.virtualStart = NoAddress, !.dictEnd = NoAddress,
               !.window = Wanted.window, !.block = Wanted.block, !.fcs = Wanted.fcs,
               !.checksum = ~IsSkip /\ ds.head[1].checksum,
               !.expected = IF IsSkip THEN ds.head[1].size ELSE 1,
               !.dstage = IF IsSkip THEN "skip" ELSE "blockHeader",
               !.oversized = IF ds.inSize + ds.outSize >= (Wanted.in + Wanted.out) * DTooLargeFactor
                             THEN MIN(@ + 1, DMaxDuration) ELSE 0]

ResizeNeeded ==
    \/ ds.inSize < Wanted.in
    \/ ds.outSize < Wanted.out
    \/ Begun.oversized >= DMaxDuration

BeginDecoding ==
    /\ HeaderDone
    /\ ~SinglePassPossible
    /\ ds' = [Begun EXCEPT !.stage = "read", !.head = <<>>,
                           !.inSize  = IF ResizeNeeded THEN Wanted.in ELSE @,
                           !.outSize = IF ResizeNeeded THEN Wanted.out ELSE @]
    /\ dmem' = [a \in 1 .. ds'.outSize |-> Garbage]
    /\ made' = [made EXCEPT !.before = made.all]
    /\ failures' = 0
    /\ UNCHANGED <<wire, dcall, received>>

\* The new buffers cannot be had.  The call reports it and has moved neither of the
\* user's positions; he resets the session and shows the frame again.
NoMemory ==
    /\ HeaderDone
    /\ ~SinglePassPossible
    /\ ResizeNeeded
    /\ failures < MaxFailures
    /\ failures' = failures + 1
    /\ ds' = [NoFrame EXCEPT !.oversized = Begun.oversized]
    /\ dmem' = <<>>
    /\ wire' = ds.head \o wire
    /\ dcall' = NoCall
    /\ UNCHANGED <<received, made>>

(***************************************************************************)
(* The blocks.                                                             *)
(***************************************************************************)
Needed == NextSrcSize(ds, dcall.left)

\* There is all that is needed: it is decoded from where it lies.
ReadDirectly ==
    /\ DAt("read")
    /\ Needed \in 1 .. dcall.left
    /\ ContinueStream(ds, Take(wire, Needed))
    /\ wire' = Drop(wire, Needed)
    /\ dcall' = Took(Needed)
    /\ UNCHANGED <<received, failures>>

\* The frame ends, or there is no more input.
ReadEnds ==
    /\ DAt("read")
    /\ Needed = 0 \/ dcall.left = 0
    /\ DReturn(IF Needed = 0 THEN [ds EXCEPT !.stage = "init"] ELSE ds, dcall, wire)
    /\ UNCHANGED <<dmem, received, made, failures>>

\* Some of what is needed: it is loaded, and decoded when it is complete.
Load ==
    LET n     == MIN(ds.expected - Len(ds.inBuff), dcall.left)
        units == ds.inBuff \o Take(wire, n)
    IN  /\ \/ DAt("load")
           \/ DAt("read") /\ dcall.left \in 1 .. Needed - 1
        /\ IF Len(units) < ds.expected
           THEN /\ DReturn([ds EXCEPT !.stage = "load", !.inBuff = units], Took(n), Drop(wire, n))
                /\ UNCHANGED <<dmem, made>>
           ELSE /\ ContinueStream([ds EXCEPT !.inBuff = <<>>], units)
                /\ wire' = Drop(wire, n)
                /\ dcall' = Took(n)
        /\ UNCHANGED <<received, failures>>

\* Everything that was decoded is flushed before anything else is decoded.  Then the
\* ring starts over when the next block might not fit.
Flush ==
    LET n     == MIN(ds.outEnd - ds.outStart, dcall.room)
        start == ds.outStart + n
        d     == [ds EXCEPT !.outStart = start]
        wraps == /\ (ds.fcs = Unknown \/ ds.outSize < ds.fcs)
                 /\ start + ds.block > ds.outSize
    IN  /\ DAt("flush")
        /\ received' = received \o [i \in 1 .. n |-> dmem[ds.outStart + i]]
        /\ IF start < ds.outEnd
           THEN DReturn(d, Put(dcall, n), wire)
           ELSE /\ ds' = IF wraps THEN [d EXCEPT !.stage = "read", !.outStart = 0, !.outEnd = 0]
                         ELSE [d EXCEPT !.stage = "read"]
                /\ dcall' = Put(dcall, n)
                /\ UNCHANGED wire
        /\ UNCHANGED <<dmem, made, failures>>

DStep ==
    LoadHeader \/ SinglePass \/ BeginDecoding \/ NoMemory \/ ReadDirectly \/ ReadEnds \/ Load \/ Flush

DUser ==
    \E shown \in {MIN(n, Len(wire)) : n \in Arrivals}, room \in DRooms : DCall(shown, room)
=============================================================================
