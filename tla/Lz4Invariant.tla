---------------------------- MODULE Lz4Invariant ----------------------------
(***************************************************************************)
(* Why the lz4 compressor keeps within its room and why every match that   *)
(* it writes is there: what holds of its state in between any two turns.   *)
(*                                                                         *)
(* Room: what has been written of a block never takes more than its part   *)
(* of LZ4_COMPRESSBOUND (Paid), so that with that much room nothing needs  *)
(* to be checked; with less, each check leaves room for what comes next.   *)
(*                                                                         *)
(* Matches: the table may hold indices of blocks that are long gone.       *)
(* Each of them is one that the loop can tell (its dictSmall or distance   *)
(* check turns it down), or lies in the history of this call (CellSound).  *)
(***************************************************************************)
EXTENDS Lz4Stream

(***************************************************************************)
(* Types.                                                                  *)
(***************************************************************************)
Cells    == 0 .. 2 * HashSize - 1
Tables   == [Cells -> Nat]
Memories == [1 .. Lz4Memory -> Byte]

StreamStates ==
  [table : Tables, offset : Nat, type : {Cleared, ByU16, ByU32}, dictAt : Nat, dictSize : Nat,
   ctx : BOOLEAN]

CallRecords ==
  [start : Nat, low : Nat, bytes : Seq(Byte), type : {ByU16, ByU32}, small : BOOLEAN,
   extern : BOOLEAN, limit : {"none", "limited", "fill"}, cap : Nat, speed : Nat \ {0},
   dictTable : Tables \cup {<<>>}, dictDelta : Nat]

Purposes == {"oneshot", "clean", "prefix", "external"}

WorkRecords ==
  [at : {"search", "match", "done"}, c : CallRecords, page : Seq(Byte),
   afterwards : Purposes, src : Nat, anchor : Nat, ip : Nat,
   step : Nat, match : Int, out : Seq(Int), top : Nat, ok : BOOLEAN, consumed : Int]

(***************************************************************************)
(* Room.                                                                   *)
(***************************************************************************)
CallSound(c) == c \in CallRecords /\ c.low <= c.start /\ c.start <= End(c)

\* The room that was promised, of which no more than that has been written.
RoomSound(s) ==
  /\ Len(s.page) = End(s.c) - s.c.start
  /\ s.top <= s.c.cap
  /\ s.c.limit = "none" => s.c.cap >= LzCompressBound(Len(s.page))
  /\ s.c.limit = "fill" => s.c.cap < LzCompressBound(Len(s.page))

\* What has been written does not take more room than its part of the bound.
Paid(s) ==
  /\ s.c.start <= s.anchor /\ s.anchor <= End(s.c)
  /\ Len(s.out) <= (s.anchor - s.c.start) + (s.anchor - s.c.start) \div ByteMax
  /\ s.c.limit = "fill" => Len(s.out) + 1 <= s.c.cap

LoopSound(s) ==
  /\ s.at \in {"search", "match"}
  /\ s.anchor <= s.ip
  /\ s.at = "search" => s.anchor < s.ip /\ s.ip <= MfLimitPlusOne(s.c)
  /\ s.at = "match" => s.ip < MfLimitPlusOne(s.c)
  /\ Paid(s)

DoneSound(s) ==
  /\ s.at = "done"
  /\ s.ok => Len(s.out) <= s.c.cap
  /\ s.c.cap >= LzCompressBound(Len(s.page)) => s.ok
  /\ s.ok /\ s.c.limit # "fill" => s.consumed = Len(s.page)

Sound(s) ==
  /\ s \in WorkRecords
  /\ CallSound(s.c)
  /\ RoomSound(s)
  /\ LoopSound(s) \/ DoneSound(s)

\* A turn of the loop leaves the call what it is.
SameCall(s, r) ==
  r.c = s.c /\ r.page = s.page /\ r.afterwards = s.afterwards /\ r.src = s.src

(***************************************************************************)
(* Matches.                                                                *)
(***************************************************************************)
\* The table holds no index at which there are not MINMATCH bytes yet.
Behind(table, offset) == \A h \in Cells : table[h] = 0 \/ table[h] + MINMATCH <= offset

\* What a call may rely on: with indices of 16 bits there is no history and the block is
\* short; a history elsewhere in memory is none at all or long enough for a match.
CallReal(c) ==
  /\ c.type = ByU16 =>
        /\ c.low = c.start /\ ~c.extern /\ c.dictTable = <<>>
        /\ c.small \/ c.start = 0
        /\ End(c) - c.start < Limit64K
  /\ c.extern => c.low = c.start \/ c.low + MINMATCH <= c.start

\* An index below the history is one that the loop turns down.
CellSound(c, v) ==
  \/ v < c.low /\ (c.small \/ (c.type = ByU32 /\ v + DistanceMax <= c.start))
  \/ c.low <= v /\ (c.extern /\ v < c.start => v + MINMATCH <= c.start)

\* All that the table offers lies before limit.
TableSound(c, table, limit) ==
  \A h \in Cells : CellSound(c, Candidate(c, table, h)) /\ Candidate(c, table, h) < limit

\* With "fill", when there is no room for another match but only for the last literals.
\* (A match that was cut to fit may end before what the table holds by then.)
Spent(s) == s.c.limit = "fill" /\ Len(s.out) + 1 + LASTLITERALS >= s.c.cap

MatchReal(s) ==
  /\ s.c.low <= s.match /\ s.match < s.ip
  /\ s.ip - s.match <= DistanceMax
  /\ \A k \in 0 .. MINMATCH - 1 : Same(s.c, s.match + k, s.ip + k)

LoopReal(s, table) ==
  /\ s.at = "search" => TableSound(s.c, table, s.ip)
  /\ s.at = "match" => TableSound(s.c, table, s.ip + MINMATCH + Whole(s)) /\ MatchReal(s)

(***************************************************************************)
(* The state between two calls, and the whole.                             *)
(***************************************************************************)
\* What a call of LzContinue finds: its dictionary lies in memory, or there is none.
Ready(s) ==
  /\ s.dictSize > 0 => s.dictAt >= 1 /\ s.dictAt + s.dictSize <= Lz4Memory + 1
  /\ s.dictAt = Nowhere => s.offset = 0 \/ s.offset >= Window
  /\ s.ctx => s.dictSize = 0 /\ s.offset >= Window /\ DictCtx.dictSize # 0

LzTypeInv ==
  /\ lz \in StreamStates /\ lz.dictSize <= lz.offset /\ Behind(lz.table, lz.offset)
  /\ room \in Memories

WorkInv ==
  work # LzIdle =>
     /\ Sound(work)
     /\ work.at # "done" =>
           /\ work.ok = FALSE
           /\ lz.offset = End(work.c)
           /\ CallReal(work.c)
           /\ Spent(work) \/ LoopReal(work, lz.table)

\* What the next block refers to is where it was said to be.
HistoryInv ==
  /\ usage = "stream" /\ work = LzIdle => Ready(lz)
  /\ work # LzIdle /\ work.afterwards = "prefix" => Ready(lz) /\ lz.dictAt >= 1
  /\ work # LzIdle /\ work.afterwards = "external" =>
        /\ work.src >= 1 /\ work.src + Len(work.page) <= Lz4Memory + 1
        /\ Len(work.page) <= lz.offset
        /\ lz.ctx => Len(work.page) = 0 /\ lz.offset >= Window /\ DictCtx.dictSize # 0

LastInv ==
  last # LzNoCall =>
     /\ last.ok => Len(last.out) <= last.cap
     /\ last.cap >= last.bound => last.ok
     /\ last.ok /\ last.limit # "fill" => last.consumed = Len(last.page)

LzInv == LzTypeInv /\ WorkInv /\ HistoryInv /\ LastInv
=============================================================================
