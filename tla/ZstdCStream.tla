----------------------------- MODULE ZstdCStream -----------------------------
(***************************************************************************)
(* ZSTD_compressStream2: the user calls it with some input, some room for  *)
(* output and a directive.  A call is a loop over three stages; here it    *)
(* begins with CCall, takes a step for each turn of the loop, and returns  *)
(* with the last of them.  Input is loaded into a ring of a window and a   *)
(* block, unless the user promised to keep it in place (stable).           *)
(***************************************************************************)
EXTENDS ZstdWire

CONSTANTS
    BlockSizeMax,    \* ZSTD_BLOCKSIZE_MAX
    BoundMargin,     \* how much ZSTD_compressBound allows for at least
    TotalMax,        \* bound: the bytes that are ever given
    WireMax,         \* bound: no new frame while more than that is under way
    CRooms,          \* the sizes an output buffer may have
    Feeds,           \* the amounts of input a call may add
    SkipSizes        \* what skippable frames may hold

\* ZSTD_compressBound leaves room for a frame of one block at least.
ASSUME CStreamAssumption ==
    /\ BlockSizeMax \in Nat \ {0}
    /\ BoundMargin \in Nat /\ BoundMargin >= HeaderSize + 2
    /\ {TotalMax, WireMax} \subseteq Nat
    /\ CRooms \subseteq Nat /\ Feeds \subseteq Nat /\ SkipSizes \subseteq Nat

VARIABLES
    cs,              \* ZSTD_CCtx as far as the streaming interface uses it
    ip, iend,        \* the user's input: the bytes ip + 1 .. iend are left
    ccall            \* the call that is going on, or what the last one returned

cVars == <<cs, ip, iend, ccall>>

CompressBound(size) == size + BoundMargin

Idle(op, ret) == [busy |-> FALSE, op |-> op, room |-> 0, ret |-> ret]
Failed        == -1

\* A context between two sessions; ZSTD_CCtx_reset(session_only) leaves one.  What
\* else is in it is set when the next session begins.
NoSession(stable) ==
    [stage |-> "init", frame |-> "created", pledged |-> Unknown, consumed |-> 0,
     checksum |-> FALSE, window |-> 0, block |-> 0, inBuff |-> <<>>, pos |-> 0,
     toCompress |-> 0, target |-> 0, outBuff |-> <<>>, ended |-> FALSE,
     notConsumed |-> 0, stable |-> stable]

CStreamInit ==
    /\ \E stable \in BOOLEAN : cs = NoSession(stable)
    /\ ip = 0
    /\ iend = 0
    /\ ccall = Idle("continue", 0)

Numbers(lo, hi) == [i \in 1 .. hi - lo |-> lo + i]

\* ZSTD_compress_frameChunk: a block for each blockSizeMax of the input.
Blocks(bytes, block, last, raw) ==
    LET count == (Len(bytes) + block - 1) \div block
        part(i) == SubSeq(bytes, (i - 1) * block + 1, MIN(i * block, Len(bytes)))
    IN  FlattenSeq([i \in 1 .. count |-> BlockUnits(part(i), last /\ i = count, raw)])

\* ZSTD_compressContinue_internal; the units it writes and the context it leaves.
\* More input than was pledged is an error.
CompressContinue(c, bytes, last, raw) ==
    LET header == IF c.frame = "init" THEN FrameHeader(c.pledged, c.checksum) ELSE <<>>
        used   == c.consumed + Len(bytes)
    IN  [units |-> header \o Blocks(bytes, c.block, last, raw),
         bad   |-> c.pledged # Unknown /\ used > c.pledged,
         ctx   |-> [c EXCEPT !.consumed = used,
                             !.frame = IF last /\ bytes # <<>> THEN "ending" ELSE "ongoing"]]

\* ZSTD_compressEnd_public with ZSTD_writeEpilogue.
CompressEnd(c, bytes, raw) ==
    LET got == CompressContinue(c, bytes, TRUE, raw) IN
    [units |-> got.units
               \o (IF got.ctx.frame # "ending" THEN EmptyLastBlock ELSE <<>>)
               \o (IF c.checksum THEN <<ChecksumUnit>> ELSE <<>>),
     bad   |-> got.bad \/ (c.pledged # Unknown /\ got.ctx.consumed # c.pledged),
     ctx   |-> [got.ctx EXCEPT !.frame = "created"]]

\* ZSTD_CCtx_init_compressStream2, with the sizes ZSTD_resetCCtx_internal takes
\* from the parameters.
InitCompressStream2(c, op, size, checksum) ==
    LET pledged == IF op = "end" THEN size ELSE Unknown
        window  == IF pledged = Unknown THEN WindowSize ELSE MAX(1, MIN(WindowSize, pledged))
        block   == MIN(BlockSizeMax, window)
    IN  [c EXCEPT !.pledged = pledged, !.window = window, !.block = block, !.consumed = 0,
                  !.checksum = checksum, !.frame = "init", !.stage = "load",
                  !.pos = 0, !.toCompress = 0, !.outBuff = <<>>, !.ended = FALSE,
                  !.inBuff = [a \in 0 .. window + block - 1 |-> 0],
                  !.target = IF c.stable THEN 0 ELSE block + (IF block = pledged THEN 1 ELSE 0)]

\* The user: what he asked for he asks for again until the call returns 0, and he
\* adds no input to a frame he is ending.
Allowed(op, added) ==
    ccall.op \in {"flush", "end"} /\ ccall.ret # 0 =>
        op = ccall.op /\ (op = "end" => added = 0)

CCall(op, added, room, checksum) ==
    LET left == iend + added - ip
        size == left + cs.notConsumed
    IN  /\ ~ccall.busy
        /\ ccall.ret # Failed
        /\ Allowed(op, added)
        /\ iend + added <= TotalMax
        /\ iend' = iend + added
        /\ IF cs.stage = "init" /\ cs.stable /\ op = "continue" /\ size < BlockSizeMax
           THEN \* the input is only looked at when there is a whole block of it
                /\ cs' = [cs EXCEPT !.notConsumed = size]
                /\ ip' = iend'
                /\ ccall' = Idle(op, 1)
           ELSE /\ cs.stage = "init" => Len(wire) <= WireMax
                /\ cs' = [(IF cs.stage = "init" THEN InitCompressStream2(cs, op, size, checksum)
                           ELSE cs) EXCEPT !.notConsumed = 0]
                /\ ip' = ip - cs.notConsumed
                /\ ccall' = [busy |-> TRUE, op |-> op, room |-> room, ret |-> 0]
        /\ UNCHANGED wire

\* The end of a call; what is returned is what remains to be flushed.
CReturn(c) == ccall' = Idle(ccall.op, Len(c.outBuff))
CFail      == ccall' = Idle(ccall.op, Failed)
CGoesOn(room) == ccall' = [ccall EXCEPT !.room = room]

AtStage(stage) == ccall.busy /\ cs.stage = stage

Shortcut ==
    /\ ccall.op = "end"
    /\ ccall.room >= CompressBound(iend - ip)
    /\ cs.pos = 0

\* All that is left is compressed directly into the output.
CompressRest(raw) ==
    LET got == CompressEnd(cs, Numbers(ip, iend), raw)
        c   == NoSession(cs.stable)
    IN  /\ AtStage("load")
        /\ Shortcut
        /\ cs' = c
        /\ ip' = iend
        /\ IF got.bad THEN CFail /\ UNCHANGED wire
           ELSE wire' = wire \o got.units /\ CReturn(c)
        /\ UNCHANGED iend

\* Filling the ring up to the target.
Loaded ==
    LET n == MIN(cs.target - cs.pos, iend - ip) IN
    [n |-> n,
     ctx |-> [cs EXCEPT !.pos = cs.pos + n,
                        !.inBuff = [a \in DOMAIN cs.inBuff |->
                            IF a \in cs.pos .. cs.pos + n - 1 THEN ip + 1 + a - cs.pos ELSE cs.inBuff[a]]]]

\* Broken on purpose: a flush waits for a whole block.
NotABlockYetOnFlush ==
    IF cs.stable
    THEN ccall.op \in {"continue", "flush"} /\ iend - ip < cs.block
    ELSE ccall.op \in {"continue", "flush"} /\ Loaded.ctx.pos < cs.target

NotABlockYet ==
    IF cs.stable
    THEN \/ ccall.op = "continue" /\ iend - ip < cs.block
         \/ ccall.op = "flush" /\ ip = iend
    ELSE \/ ccall.op = "continue" /\ Loaded.ctx.pos < cs.target
         \/ ccall.op = "flush" /\ Loaded.ctx.pos = cs.toCompress

\* There is not enough input: the call ends here.
WaitForInput ==
    LET c == IF ~cs.stable THEN Loaded.ctx
             ELSE IF ccall.op = "continue" THEN [cs EXCEPT !.notConsumed = iend - ip]
             ELSE cs
    IN  /\ AtStage("load")
        /\ ~Shortcut
        /\ NotABlockYet
        /\ cs' = c
        /\ ip' = IF cs.stable THEN iend ELSE ip + Loaded.n
        /\ CReturn(c)
        /\ UNCHANGED <<iend, wire>>

\* Broken on purpose: the ring starts over, the block to compress does not.
NextTargetKeepsStart(c) ==
    LET target == c.pos + c.block IN
    IF target > c.window + c.block
    THEN [c EXCEPT !.pos = 0, !.target = c.block]
    ELSE [c EXCEPT !.toCompress = c.pos, !.target = target]

\* After a block in the ring: where the next one goes.
NextTarget(c) ==
    LET target == c.pos + c.block IN
    IF target > c.window + c.block
    THEN [c EXCEPT !.pos = 0, !.toCompress = 0, !.target = c.block]
    ELSE [c EXCEPT !.toCompress = c.pos, !.target = target]

\* A block is compressed, into the output when there is room for whatever it may
\* come to, and into outBuff otherwise.
CompressBlock(raw) ==
    LET c      == IF cs.stable THEN cs ELSE Loaded.ctx
        size   == IF cs.stable THEN MIN(iend - ip, cs.block) ELSE c.pos - c.toCompress
        taken  == IF cs.stable THEN size ELSE Loaded.n
        bytes  == IF cs.stable THEN Numbers(ip, ip + size)
                  ELSE [i \in 1 .. size |-> c.inBuff[c.toCompress + i - 1]]
        last   == ccall.op = "end" /\ ip + taken = iend
        got    == IF last THEN CompressEnd(c, bytes, raw) ELSE CompressContinue(c, bytes, FALSE, raw)
        after  == [(IF cs.stable THEN got.ctx ELSE NextTarget(got.ctx)) EXCEPT !.ended = last]
        direct == ccall.room >= CompressBound(size)
    IN  /\ AtStage("load")
        /\ ~Shortcut
        /\ ~NotABlockYet
        /\ ip' = ip + taken
        /\ IF got.bad THEN cs' = c /\ CFail /\ UNCHANGED wire
           ELSE IF ~direct
           THEN /\ cs' = [after EXCEPT !.outBuff = got.units, !.stage = "flush"]
                /\ UNCHANGED <<wire, ccall>>
           ELSE /\ wire' = wire \o got.units
                /\ cs' = IF last THEN NoSession(cs.stable) ELSE after
                /\ IF last THEN CReturn(after) ELSE CGoesOn(ccall.room - Len(got.units))
        /\ UNCHANGED iend

\* Broken on purpose: after a flush the call does not load again.
FlushOutStays ==
    LET n == MIN(Len(cs.outBuff), ccall.room)
        c == [cs EXCEPT !.outBuff = Drop(@, n)]
    IN  /\ AtStage("flush")
        /\ wire' = wire \o Take(cs.outBuff, n)
        /\ IF c.outBuff # <<>>
           THEN cs' = c /\ CReturn(c)
           ELSE IF c.ended
           THEN cs' = NoSession(cs.stable) /\ CReturn(c)
           ELSE cs' = c /\ CGoesOn(ccall.room - n)
        /\ UNCHANGED <<ip, iend>>

FlushOut ==
    LET n == MIN(Len(cs.outBuff), ccall.room)
        c == [cs EXCEPT !.outBuff = Drop(@, n)]
    IN  /\ AtStage("flush")
        /\ wire' = wire \o Take(cs.outBuff, n)
        /\ IF c.outBuff # <<>>
           THEN cs' = c /\ CReturn(c)
           ELSE IF c.ended
           THEN cs' = NoSession(cs.stable) /\ CReturn(c)
           ELSE cs' = [c EXCEPT !.stage = "load"] /\ CGoesOn(ccall.room - n)
        /\ UNCHANGED <<ip, iend>>

\* Between two frames the user may write a skippable one.
Skippable(size) ==
    /\ ~ccall.busy
    /\ cs.stage = "init"
    /\ Len(wire) <= WireMax
    /\ wire' = wire \o SkippableFrame(size)
    /\ UNCHANGED cVars

CStep ==
    \/ \E raw \in BOOLEAN : CompressRest(raw) \/ CompressBlock(raw)
    \/ WaitForInput
    \/ FlushOut

CUser ==
    \/ \E op \in {"continue", "flush", "end"}, added \in Feeds, room \in CRooms, checksum \in BOOLEAN :
          CCall(op, added, room, checksum)
    \/ \E size \in SkipSizes : Skippable(size)
=============================================================================
