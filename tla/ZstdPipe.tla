------------------------------ MODULE ZstdPipe ------------------------------
(***************************************************************************)
(* The two streaming interfaces of the embedded zstd, one at each end of   *)
(* the wire, each called by a user who decides how much he passes in, how  *)
(* much room he offers, and when a flush or the end of a frame is due.     *)
(***************************************************************************)
EXTENDS ZstdCStream, ZstdDStream

\* Both sides are built with the same ZSTD_BLOCKSIZE_MAX.
ASSUME SameBlockSize == BlockSizeMax = DBlockSizeMax

pipeVars == <<wire, cs, ip, iend, ccall, ds, dmem, dcall, received, made, failures>>

PipeInit == wire = <<>> /\ CStreamInit /\ DStreamInit

\* A call sees what the calls that have returned left on the wire.
Writer == ~dcall.busy /\ (CStep \/ CUser) /\ UNCHANGED dVars
Reader == ~ccall.busy /\ (DStep \/ DUser) /\ UNCHANGED cVars

PipeNext == Writer \/ Reader

\* The writer goes on with what he has asked for until it is done, as zstd_lib.h
\* tells him to, and the reader reads on; nobody has to begin anything.
Continue ==
    /\ ccall.op = "end"
    /\ \E room \in CRooms, checksum \in BOOLEAN : CCall("end", 0, room, checksum)
    /\ UNCHANGED dVars

PipeCompresses == CStep /\ UNCHANGED dVars
PipeContinues  == cs.stage # "init" /\ Continue

PipeFairness ==
    /\ WF_pipeVars(PipeCompresses)
    /\ WF_pipeVars(PipeContinues)
    /\ WF_pipeVars(Reader)

PipeSpec == PipeInit /\ [][PipeNext]_pipeVars /\ PipeFairness

(***************************************************************************)
(* What the pipe promises: what comes out is what went in, in order.       *)
(***************************************************************************)
Fifo == INSTANCE ByteFifo WITH given <- iend, got <- received

\* Whatever the chunks, rooms, directives, buffers and allocations that fail, the
\* reader receives exactly the writer's bytes, in order.
DeliversInOrder == Fifo!FifoSpec

\* What a return value of 0 means.  On the writer's side a flush or the end of a frame
\* is done: a reader who has been shown all of the wire and has room left has got every
\* byte, so that nothing waits in the ring, in outBuff, in the decoder's buffers or with
\* the hostage unit.  On the reader's side a frame is complete and flushed.  No call
\* fails because of the size that was pledged, and a reader who shows something new, or
\* comes back after his room was used up, makes at most two idle calls in a row (16 are
\* an error; releasing the hostage counts as one).
ZeroMeansDone ==
    /\ ccall.ret # Failed
    /\ ~ccall.busy /\ ccall.op \in {"flush", "end"} /\ ccall.ret = 0
       /\ ~dcall.busy /\ wire = <<>> /\ ~dcall.full
       => Len(received) = iend
    /\ ~dcall.busy =>
        /\ dcall.ret = 0 => ds.stage = "init" /\ Len(received) = made.all
        /\ ds.idle <= 2

\* The bytes a block may refer to can be found where the decoder looks for them, in
\* front of the block or in the segment before the ring started over, and the block
\* does not write over them while they are needed.
HistoryHeld ==
    LET d     == CheckContinuity(ds, Here(ds), Room(ds))
        reach == MIN(ds.window, made.all - made.before)
        place(k) == IF k <= Here(d) - d.prefixStart THEN Here(d) - k
                    ELSE d.dictEnd - (k - (Here(d) - d.prefixStart))
    IN  (ds.dstage \in {"block", "lastBlock"} /\ ds.stage \in {"read", "load"}) =>
            /\ \A k \in 1 .. reach :
                  /\ k <= Here(d) - d.virtualStart
                  /\ place(k) \in DOMAIN dmem
                  /\ dmem[place(k)] = made.all - k + 1
                  /\ place(k) \notin WrittenOver(ds)
            /\ ds.fcs = Unknown => ds.block <= Room(ds)

\* The frame with the last byte arrives once its end has been asked for, as long as
\* both users go on calling: neither end waits for the other for ever.
FrameArrives ==
    (ccall.busy /\ ccall.op = "end" /\ iend = TotalMax) ~> Len(received) = TotalMax
=============================================================================
