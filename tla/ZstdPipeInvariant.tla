-------------------------- MODULE ZstdPipeInvariant --------------------------
(***************************************************************************)
(* What holds of the two streaming interfaces and the wire between them at *)
(* every step: the writer's buffers, the reader's buffers and his ring,    *)
(* and that what is under way leads from where the reader stands to where  *)
(* the writer stands.                                                      *)
(***************************************************************************)
EXTENDS ZstdPipe

-----------------------------------------------------------------------------
(* What may be under way.  A place is where somebody stands who reads the
   wire: how far he is in a frame, and how many bytes he has passed. *)

Units ==
       [k : {"head"}, i : Nat, fcs : Nat \cup {Unknown}, checksum : BOOLEAN, window : Nat]
  \cup [k : {"block"}, last : BOOLEAN, raw : BOOLEAN, size : Nat, orig : Nat]
  \cup [k : {"body"}, bytes : Seq(Nat)]
  \cup [k : {"skiphead"}, i : Nat, size : Nat]
  \cup [k : {"skip", "sum"}]

\* What may lie on the wire: the unit that is held back as well.
Lyings == Units \cup {[k |-> "hostage"]}

\* In a frame, the bytes that are promised to come fit in it.
Fits(p, more) ==
  /\ p.start <= p.n
  /\ p.fcs # Unknown => p.n + more - p.start <= p.fcs

\* left: the units that are still to come of a header or a block; rest: the bytes of
\* the block, or the units of a skippable frame.
Places ==
  {p \in [at : {"between", "frame", "body", "sum", "skip"}, left : Nat, rest : Nat,
          raw : BOOLEAN, last : BOOLEAN, n : Nat, start : Nat,
          fcs : Nat \cup {Unknown}, sum : BOOLEAN, window : Nat] :
     /\ p.at = "frame" => Fits(p, 0)
     /\ p.at = "body" => /\ Fits(p, p.rest)
                         /\ p.left > 0 /\ p.rest > 0
                         /\ IF p.raw THEN p.rest = p.left ELSE p.left = 1
                         /\ p.rest <= BlockSizeMax /\ p.rest <= p.window
     /\ p.at = "skip" => p.left + p.rest > 0}

SameFrame(p, q) ==
  q.start = p.start /\ q.fcs = p.fcs /\ q.sum = p.sum /\ q.window = p.window

\* Behind a block.
PastBlock(p, last, q) ==
  IF last THEN q.at = IF p.sum THEN "sum" ELSE "between"
  ELSE q.at = "frame" /\ q.left = 0

MovesInSkip(left, rest, q) ==
  /\ q.left = left /\ q.rest = rest
  /\ q.at = IF left + rest = 0 THEN "between" ELSE "skip"

\* From p, past the unit u, to q.
MovesOff(p, u, q) ==
  /\ p.at = "between"
  /\ q.n = p.n
  /\ \/ /\ u.k = "head" 
        /\ q.at = "frame" /\ q.left = HeaderSize - 1 /\ q.start = p.n
        /\ q.fcs = u.fcs /\ q.sum = u.checksum /\ q.window = u.window
     \/ /\ u.k = "skiphead"
        /\ MovesInSkip(SkipHeaderSize - 1, u.size, q)

MovesHead(p, u, q) ==
  /\ p.at = "frame" /\ p.left > 0
  /\ u.k = "head"
  /\ q.at = "frame" /\ q.left = p.left - 1 /\ q.n = p.n
  /\ SameFrame(p, q)

MovesBlock(p, u, q) ==
  /\ p.at = "frame" /\ p.left = 0
  /\ u.k = "block"
  /\ q.n = p.n
  /\ SameFrame(p, q)
  /\ IF u.size = 0 THEN PastBlock(p, u.last, q)
     ELSE /\ q.at = "body" /\ q.left = u.size /\ q.rest = u.orig
          /\ q.raw = u.raw /\ q.last = u.last

MovesBody(p, u, q) ==
  /\ p.at = "body"
  /\ u.k = "body"
  /\ Len(u.bytes) = IF p.raw THEN 1 ELSE p.rest
  /\ u.bytes = Numbers(p.n, p.n + Len(u.bytes))
  /\ q.n = p.n + Len(u.bytes)
  /\ SameFrame(p, q)
  /\ IF p.left = 1 THEN PastBlock(p, p.last, q)
     ELSE /\ q.at = "body" /\ q.left = p.left - 1 /\ q.rest = p.rest - 1
          /\ q.raw = p.raw /\ q.last = p.last

MovesSum(p, u, q) ==
  p.at = "sum" /\ u.k = "sum" /\ q.at = "between" /\ q.n = p.n

MovesSkip(p, u, q) ==
  /\ p.at = "skip"
  /\ q.n = p.n
  /\ IF p.left > 0 THEN u.k = "skiphead" /\ MovesInSkip(p.left - 1, p.rest, q)
     ELSE u.k = "skip" /\ MovesInSkip(0, p.rest - 1, q)

Moves(p, u, q) ==
  /\ p \in Places /\ u \in Units /\ q \in Places
  /\ \/ MovesOff(p, u, q) \/ MovesHead(p, u, q) \/ MovesBlock(p, u, q)
     \/ MovesBody(p, u, q) \/ MovesSum(p, u, q) \/ MovesSkip(p, u, q)

\* From p, past all of these units, to q.
Runs(run, units, p, q) ==
  /\ run[0] = p /\ run[Len(units)] = q
  /\ \A i \in 1 .. Len(units) : Moves(run[i - 1], units[i], run[i])

Parses(p, units, q) ==
  /\ p \in Places /\ units \in Seq(Units) /\ q \in Places
  /\ \E run : Runs(run, units, p, q)

-----------------------------------------------------------------------------
(* The writer between two steps. *)

CSessions ==
  [stage : {"init", "load", "flush"}, frame : {"created", "init", "ongoing"},
   pledged : Nat \cup {Unknown}, consumed : Nat, checksum : BOOLEAN, window : Nat,
   block : Nat, inBuff : UNION {[0 .. m - 1 -> Nat] : m \in Nat}, pos : Nat,
   toCompress : Nat, target : Nat, outBuff : Seq(Units), ended : BOOLEAN,
   notConsumed : Nat, stable : BOOLEAN]

CTypeInv ==
  /\ ip \in Nat /\ iend \in Nat /\ ip <= iend
  /\ ccall \in [busy : BOOLEAN, op : {"continue", "flush", "end"}, room : Nat, ret : Nat]
  /\ cs \in CSessions

\* What is loaded and not compressed yet.
Waiting == cs.pos - cs.toCompress

\* How many bytes are in the units that have been made of them.
Written == ip - cs.notConsumed - Waiting

\* Between two sessions.
CInitInv ==
  cs.stage = "init" =>
    /\ cs = [NoSession(cs.stable) EXCEPT !.notConsumed = cs.notConsumed]
    /\ ~ccall.busy

CStageInv ==
  /\ cs.stage = "load" => cs.frame # "created" /\ ~cs.ended /\ cs.outBuff = <<>>
  /\ cs.stage = "flush" =>
       /\ cs.ended <=> cs.frame = "created"
       /\ cs.frame # "init"
       /\ cs.ended => ccall.op = "end" /\ ip = iend
       /\ cs.notConsumed = 0 /\ Waiting = 0

\* The parameters of a session.
CSizesInv ==
  cs.stage # "init" =>
    /\ cs.window = IF cs.pledged = Unknown THEN WindowSize ELSE MAX(1, MIN(WindowSize, cs.pledged))
    /\ cs.block = MIN(BlockSizeMax, cs.window)
    /\ cs.frame = "init" => cs.consumed = 0

\* The ring.
CRingInv ==
  cs.stage # "init" /\ ~cs.stable =>
    /\ cs.notConsumed = 0
    /\ cs.inBuff \in [0 .. cs.window + cs.block - 1 -> Nat]
    /\ cs.toCompress <= cs.pos /\ cs.pos <= cs.target
    /\ cs.toCompress < cs.target
    /\ cs.target <= cs.window + cs.block
    /\ cs.target <= cs.toCompress + cs.block + (IF cs.block = cs.pledged THEN 1 ELSE 0)
    /\ \A a \in cs.toCompress .. cs.pos - 1 :
         cs.inBuff[a] = ip - Waiting + 1 + a - cs.toCompress

CStableInv ==
  /\ cs.stable => cs.pos = 0 /\ cs.toCompress = 0
  /\ ccall.busy \/ ccall.op # "continue" => cs.notConsumed = 0
  /\ cs.notConsumed + Waiting <= ip

\* What was pledged is what is given.
CPledgedInv ==
  cs.frame # "created" =>
    /\ cs.consumed <= Written
    /\ cs.pledged # Unknown =>
         ccall.op = "end" /\ cs.consumed + Waiting + (iend - ip) = cs.pledged

\* What a call returns.
CReturnInv ==
  ~ccall.busy =>
    /\ cs.stage # "init" /\ ccall.op = "end" => ccall.ret > 0
    /\ ccall.op # "continue" /\ ccall.ret = 0 => cs.outBuff = <<>> /\ Written = iend

CInv ==
  /\ CTypeInv /\ CInitInv /\ CStageInv /\ CSizesInv /\ CRingInv /\ CStableInv
  /\ CPledgedInv /\ CReturnInv

\* Where the units that have been made lead to.
WindowOf(pledged) ==
  IF pledged # Unknown /\ pledged <= WindowSize THEN pledged ELSE WindowSize

LedTo(c, written, q) ==
  /\ q.n = written
  /\ IF c.frame = "ongoing"
     THEN /\ q.at = "frame" /\ q.left = 0 /\ q.start + c.consumed = written
          /\ q.fcs = c.pledged /\ q.sum = c.checksum /\ q.window = WindowOf(c.pledged)
     ELSE q.at = "between"

-----------------------------------------------------------------------------
(* The reader between two steps. *)

DContexts ==
  [stage : {"init", "loadHeader", "read", "load", "flush"},
   dstage : {"getHeader", "blockHeader", "block", "lastBlock", "checksum", "skip"},
   head : Seq(Units), expected : Nat, raw : BOOLEAN, inBuff : Seq(Units),
   inSize : Nat, outSize : Nat, outStart : Nat, outEnd : Nat, hostage : BOOLEAN,
   prefixStart : Int, dictEnd : Int, virtualStart : Int, previousDstEnd : Int,
   fcs : Nat \cup {Unknown}, window : Nat, block : Nat, checksum : BOOLEAN,
   oversized : Nat, idle : Nat]

DTypeInv ==
  /\ ds \in DContexts
  /\ dcall \in [busy : BOOLEAN, left : Nat, room : Nat, took : Nat, put : Nat,
                full : BOOLEAN, ret : Nat]
  /\ made \in [all : Nat, before : Nat]
  /\ failures \in Nat
  /\ ds.stage \in {"read", "load", "flush"} => dmem \in [1 .. ds.outSize -> Nat]

\* The header: all there is of it, at the most.
HeaderAll(head) ==
  IF head = <<>> THEN 1
  ELSE IF head[1].k = "skiphead" THEN SkipHeaderSize ELSE HeaderSize

\* What has been taken and not been dealt with.
Held ==
  IF ds.stage = "loadHeader" THEN ds.head
  ELSE IF ds.stage = "load" THEN ds.inBuff ELSE <<>>

\* What lies on the wire, without the unit that is held back.
Lying == IF ds.hostage THEN Tail(wire) ELSE wire

Underway == Held \o (Lying \o cs.outBuff)

DStageInv ==
  /\ ds.stage \in {"init", "loadHeader"} =>
       ds.dstage = "getHeader" /\ ds.outStart = 0 /\ ds.outEnd = 0
  /\ ds.stage = "init" => ~dcall.busy
  /\ ds.stage = "loadHeader" => Len(ds.head) <= HeaderAll(ds.head)
  /\ ds.stage = "load" => ds.dstage = "skip" /\ Len(ds.inBuff) < ds.expected
  /\ ds.stage # "load" => ds.inBuff = <<>>
  /\ ds.dstage = "skip" => ds.stage # "flush"
  /\ ds.hostage => /\ ds.dstage = "getHeader" /\ ds.stage \in {"flush", "read"}
                   /\ Len(wire) > 0 /\ wire[1].k = "hostage"

InFrame(p) ==
  /\ p.start = made.before
  /\ p.fcs = ds.fcs /\ p.sum = ds.checksum
  /\ ds.window = MAX(p.window, MinWindow)
  /\ ds.block = MIN(p.window, DBlockSizeMax)

\* The decoder's stage is that of the place.
Matches(p) ==
  /\ p.n = made.all
  /\ CASE ds.dstage = "getHeader" ->
             p.at = "between" /\ (ds.stage \notin {"init", "loadHeader"} => ds.expected = 0)
       [] ds.dstage = "blockHeader" ->
             p.at = "frame" /\ p.left = 0 /\ ds.expected = 1 /\ InFrame(p)
       [] ds.dstage \in {"block", "lastBlock"} ->
             /\ p.at = "body" /\ p.left = ds.expected /\ p.raw = ds.raw
             /\ p.last = (ds.dstage = "lastBlock") /\ InFrame(p)
       [] ds.dstage = "checksum" -> p.at = "sum" /\ ds.expected = 1
       [] ds.dstage = "skip" ->
             IF ds.expected = 0 THEN p.at = "between"
             ELSE p.at = "skip" /\ p.left = 0 /\ p.rest = ds.expected

\* What has been decoded and not been flushed.
DFlushInv ==
  /\ Len(received) \in Nat /\ received = Numbers(0, Len(received))
  /\ ds.outStart <= ds.outEnd
  /\ Len(received) + (ds.outEnd - ds.outStart) = made.all
  /\ ds.outEnd <= ds.outSize
  /\ ds.stage # "flush" => ds.outStart = ds.outEnd
  /\ ds.stage = "flush" =>
       \A a \in ds.outStart + 1 .. ds.outEnd : dmem[a] = made.all - (ds.outEnd - a)

\* The calls.
DCallInv ==
  /\ dcall.busy =>
       /\ dcall.left <= Len(wire)
       /\ dcall.room = 0 => dcall.put > 0
       /\ dcall.left = 0 /\ dcall.took + dcall.put = 0 => ds.idle = 0
       /\ ds.stage = "flush" => dcall.took + dcall.put > 0 \/ ds.outStart < ds.outEnd
       /\ ds.stage = "loadHeader" => dcall.put = 0
       /\ ds.stage = "loadHeader" /\ Len(ds.head) > 0 /\ Len(ds.head) = HeaderAll(ds.head) =>
            dcall.took > 0
       /\ ds.stage # "loadHeader" /\ dcall.took + dcall.put = 0 => ds.idle <= 1
  /\ ~dcall.busy =>
       /\ dcall.full => ds.idle = 0
       /\ dcall.ret = 0 => ds.stage = "init"
       /\ ~dcall.full => ds.stage # "flush"
       /\ ds.stage = "flush" => ds.outStart < ds.outEnd
       /\ ds.stage \notin {"init", "loadHeader"} => ds.idle <= 1
       /\ ds.stage = "loadHeader" => Len(ds.head) = 0 \/ Len(ds.head) < HeaderAll(ds.head)
  /\ ds.idle <= 2

\* The ring.
OneSegment == ds.fcs # Unknown /\ ds.fcs <= ds.outSize
Behind == ds.window + ds.block + 2 * WildcopyLength + 2

DRoomInv ==
  IF OneSegment THEN ds.outEnd = made.all - made.before
  ELSE /\ ds.outSize >= ds.window + 2 * ds.block + 2 * WildcopyLength
       /\ ds.stage # "flush" => ds.outEnd + ds.block <= ds.outSize

\* Where the end of the last block is, and where the ring started over.
DSegmentsInv ==
  /\ ds.previousDstEnd = 0 => /\ made.all = made.before /\ ds.outEnd = 0
                              /\ ds.dictEnd = 0 /\ ds.prefixStart = 0
                              /\ ds.stage # "flush"
  /\ ds.previousDstEnd # 0 =>
       /\ ds.prefixStart = 1
       /\ \/ ds.previousDstEnd = 1 + ds.outEnd
          \/ /\ ds.stage # "flush" /\ ~OneSegment
             /\ ds.outEnd = 0 /\ ds.previousDstEnd >= Behind
       /\ ds.previousDstEnd > 0 /\ ds.previousDstEnd <= ds.outSize + 1
  /\ IF ds.dictEnd = 0
     THEN ds.previousDstEnd # 0 =>
             ds.virtualStart = 1 /\ made.all - made.before = ds.previousDstEnd - 1
     ELSE /\ ds.dictEnd >= Behind /\ ds.dictEnd <= ds.outSize + 1
          /\ ds.virtualStart = 2 - ds.dictEnd /\ ~OneSegment

\* The last bytes, in front of that end and, further back, of the other one.
DReach == MIN(ds.window, made.all - made.before)
DAddress(k) ==
  IF k < ds.previousDstEnd THEN ds.previousDstEnd - k
  ELSE ds.dictEnd - (k - (ds.previousDstEnd - 1))

DHistoryInv ==
  \A k \in 1 .. DReach : dmem[DAddress(k)] = made.all - k + 1

DecodingBlocks == ds.dstage \in {"blockHeader", "block", "lastBlock"}

DRingInv == DecodingBlocks => DRoomInv /\ DSegmentsInv /\ DHistoryInv

DInv == DTypeInv /\ DStageInv /\ DFlushInv /\ DCallInv /\ DRingInv

\* What is under way leads from one to the other.
UnderwayInv ==
  /\ wire \in Seq(Lyings)
  /\ Lying \in Seq(Units)
  /\ \E p, q \in Places : Matches(p) /\ Parses(p, Underway, q) /\ LedTo(cs, Written, q)

PipeInv == CInv /\ DInv /\ UnderwayInv
=============================================================================
