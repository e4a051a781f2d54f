---------------------------- MODULE ZstdFinders ----------------------------
(***************************************************************************)
(* The match finders from block to block.  They go on with the tables the  *)
(* last block left, or an earlier frame, with the window of the new block, *)
(* which lies behind the last one in memory or elsewhere, and with the     *)
(* last offsets; a block may come out raw after all, and then the decoder  *)
(* sees none of it.  The decoder replays the sequences.                    *)
(***************************************************************************)
EXTENDS ZstdFast, ZstdLazy

CONSTANTS
    FoundTexts,     \* the blocks that may come
    Kinds,          \* the strategies
    StaleCells,     \* what an earlier frame may have left in the tables
    FirstIndex,     \* where the frame begins
    UpdateGap,      \* 384
    UpdateBack,     \* 192
    FoundSize       \* bound: the index up to which input comes

ASSUME FindersAssumption ==
    /\ \A cell \in StaleCells : cell \in 0 .. FirstIndex - 1
    /\ \A text \in FoundTexts : Len(text) >= HashRead

VARIABLES
    fkind,     \* strategy
    fwin,      \* window: low, dict, end
    ftables,   \* hashTable, chainTable, nextToUpdate
    frep,      \* rep of prevCBlock
    ftext,     \* the input, by index
    fdec       \* the decoder: its output, by index, and its last offsets

finVars == <<fkind, fwin, ftables, frep, ftext, fdec>>

Frame == [i \in 1 .. FirstIndex - 1 |-> 0]
Finder(kind) == [tree |-> kind = "btlazy2", depth |-> CASE kind = "greedy" -> 0 [] kind = "lazy" -> 1 [] OTHER -> 2]

RepStart   == <<1, 4, 8>>
FoundStart == [low |-> FirstIndex, dict |-> FirstIndex, end |-> FirstIndex]
Filled(cell) ==
    [hash |-> [h \in 0 .. Buckets - 1 |-> cell], chain |-> [h \in 0 .. Chain - 1 |-> cell], next |-> FirstIndex]

FinInit ==
    /\ fkind \in Kinds
    /\ fwin = FoundStart
    /\ \E cell \in StaleCells : ftables = Filled(cell)
    /\ frep = RepStart
    /\ ftext = Frame
    /\ fdec = [out |-> Frame, rep |-> RepStart]

\* ZSTD_window_update: what does not follow in memory starts a segment of its own.
SegmentFor(w, joined) ==
    IF joined THEN w
    ELSE [w EXCEPT !.low = IF w.end - w.dict < HashRead THEN w.end ELSE w.dict, !.dict = w.end]

\* ZSTD_window_enforceMaxDist
WithinDistance(w) ==
    LET low == MAX(w.low, w.end - MfWindow) IN [w EXCEPT !.low = low, !.dict = MAX(@, low)]

\* ZSTD_buildSeqStore: after a very long match only the end of it is entered.
LimitedUpdate(next, curr) ==
    IF curr > next + UpdateGap THEN curr - MIN(UpdateBack, curr - next - UpdateGap) ELSE next

\* ZSTD_selectBlockCompressor
CompressBlock(kind, x, rep, tables) ==
    CASE kind = "fast"  -> CompressBlockFast(x, rep, tables)
      [] kind = "dfast" -> CompressBlockDoubleFast(x, rep, tables)
      [] OTHER          -> CompressBlockLazy(x, rep, tables)

(***************************************************************************)
(* The decoder: a match that reaches in front of the frame or of the       *)
(* window gives nothing of use.                                            *)
(***************************************************************************)
CopyMatch(out, offset, length) ==
    LET from(n) == n - offset IN
    FoldLeft(LAMBDA o, k : Append(o, IF offset \in 1 .. MIN(MfWindow, Len(o) + 1 - FirstIndex)
                                     THEN o[from(Len(o) + 1)] ELSE -1),
             out, [k \in 1 .. length |-> k])

ExecSequence(d, lits, q) ==
    LET got == DecodeSequence(d.rep, [offBase |-> q.offBase, ll0 |-> q.ll = 0]) IN
    [out |-> CopyMatch(d.out \o SubSeq(lits, d.used + 1, d.used + q.ll), got.offset, q.ml),
     rep |-> got.prev, used |-> d.used + q.ll]

Replayed(d, found) ==
    LET all == FoldLeft(LAMBDA e, q : ExecSequence(e, found.lits, q),
                        [out |-> d.out, rep |-> d.rep, used |-> 0], found.seqs)
    IN [out |-> all.out \o SubSeq(found.lits, all.used + 1, Len(found.lits)), rep |-> all.rep]

-----------------------------------------------------------------------------
FinishBlock(text, found, raw) ==
    /\ ftables' = found.tables
    /\ frep' = IF raw THEN frep ELSE <<found.rep[1], found.rep[2], frep[3]>>
    /\ fdec' = IF raw THEN [fdec EXCEPT !.out = @ \o text] ELSE Replayed(fdec, found)

NextBlock(text, joined, raw) ==
    LET w    == WithinDistance(SegmentFor(fwin, joined))
        from == IF joined THEN ftables.next ELSE w.end
    IN  /\ w.end + Len(text) <= FoundSize
        /\ fwin' = [w EXCEPT !.end = @ + Len(text)]
        /\ ftext' = ftext \o text
        /\ FinishBlock(text,
              CompressBlock(fkind,
                  [at |-> ftext \o text, low |-> w.low, dict |-> w.dict, start |-> w.end, end |-> w.end + Len(text),
                   ext |-> FALSE, prefix |-> w.dict, least |-> w.low, finder |-> Finder(fkind)],
                  frep, [ftables EXCEPT !.next = LimitedUpdate(MAX(from, w.low), w.end)]), raw)
        /\ UNCHANGED fkind

\* The next frame.  With the indices close to their end the tables are cleared for it,
\* and the indices start again.
NextFrame ==
    /\ fwin' = FoundStart
    /\ ftables' = Filled(0)
    /\ frep' = RepStart
    /\ ftext' = Frame
    /\ fdec' = [out |-> Frame, rep |-> RepStart]
    /\ UNCHANGED fkind

FinNext ==
    \/ NextFrame
    \/ \E text \in FoundTexts, joined, raw \in BOOLEAN : NextBlock(text, joined, raw)

FinSpec == FinInit /\ [][FinNext]_finVars

-----------------------------------------------------------------------------
\* Whatever a block's tables, window and last offsets come from, its sequences say to
\* the decoder what was in it, with matches that reach no farther than the frame and
\* the window; and the encoder starts the next block with the decoder's last offsets.
FoundTells ==
    /\ fdec.out = ftext
    /\ frep[1] = fdec.rep[1] /\ frep[2] = fdec.rep[2]
=============================================================================
