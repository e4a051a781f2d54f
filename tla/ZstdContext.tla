----------------------------- MODULE ZstdContext -----------------------------
(***************************************************************************)
(* A compression context of the embedded zstd from its creation to its     *)
(* end, as the driver uses it (one context of each kind for each CPU,      *)
(* allocated with vmalloc, which may fail), as a user of the library uses  *)
(* it with parameters that change from frame to frame, and as a static     *)
(* context in memory that the user provides.                               *)
(*                                                                         *)
(* Every frame begins with a reset: the size of all that the parameters    *)
(* need is estimated, the workspace is replaced when it is too small (or   *)
(* has been far too large for long), and everything is reserved anew.  The *)
(* tables keep what earlier frames left in them, except where that might   *)
(* be mistaken for an index that is not yet valid.                         *)
(*                                                                         *)
(* A profile is what the parameters and the size of the input come down to *)
(* here: the sizes of what has to be reserved.                             *)
(***************************************************************************)
EXTENDS Cwksp, SequencesExt

CONSTANTS
    Profiles,          \* the parameters that frames may have
    SizeofCCtx,        \* sizeof(ZSTD_CCtx)
    SizeofBlockState,  \* sizeof(ZSTD_compressedBlockState_t)
    TmpWorkspaceSize,  \* TMP_WORKSPACE_SIZE
    CellSize,          \* sizeof(U32), of a cell of the tables
    SeqDefSize,        \* sizeof(SeqDef), sizeof(rawSeq), sizeof(ZSTD_Sequence)
    OptSizes,          \* the sizes of the areas of the optimal parser, in order
    WildcopyOverlength,
    Starts             \* the addresses at which an allocation may begin

ASSUME ProfilesAssumption ==
    \A p \in Profiles :
        /\ p \in [hash : Nat \ {0}, chain : Nat, hash3 : Nat, row : BOOLEAN, opt : BOOLEAN,
                  window : Nat \ {0}, blockMax : Nat \ {0}, divider : {3, 4}, buffered : BOOLEAN,
                  ldm : BOOLEAN, ldmHash : Nat \ {0}, ldmBuckets : Nat \ {0}, producer : BOOLEAN]
        /\ \A n \in {p.hash, p.chain, p.hash3} : (n * CellSize) % Alignment = 0
        /\ (p.ldmHash * SeqDefSize) % Alignment = 0

ASSUME ContextSizesAssumption ==
    /\ {SizeofCCtx, SizeofBlockState, TmpWorkspaceSize, CellSize, SeqDefSize} \subseteq Nat \ {0}
    /\ WildcopyOverlength \in Nat
    /\ OptSizes \in Seq(Nat)
    /\ Starts \subseteq Nat \ {0}

(***************************************************************************)
(* How much a profile needs, and what is reserved for it.                  *)
(***************************************************************************)
MaxNbSeq(p, block)   == block \div p.divider
SequenceBound(size)  == (size \div 3 + 1) + (size \div 1024 + 1)
LdmMaxNbSeq(p, block) == IF p.ldm THEN block \div 4 ELSE 0
LdmTableSize(p)      == IF p.ldm THEN p.ldmBuckets + p.ldmHash * SeqDefSize ELSE 0
BlockSize(p)         == MIN(p.blockMax, p.window)
BuffInSize(p)        == IF p.buffered THEN p.window + BlockSize(p) ELSE 0
BuffOutSize(p)       == IF p.buffered THEN BlockSize(p) + 1 ELSE 0

AlignedSum(sizes) == FoldLeft(LAMBDA sum, size : sum + AlignedAllocSize(size), 0, sizes)

\* Broken on purpose: nothing is added for the gaps that alignment leaves.
SizeofMatchStateTight(p) ==
    (p.chain + p.hash + p.hash3) * CellSize
    + (IF p.opt THEN AlignedSum(OptSizes) ELSE 0)
    + (IF p.row THEN AlignedAllocSize(p.hash) ELSE 0)

SizeofMatchState(p) ==
    (p.chain + p.hash + p.hash3) * CellSize
    + (IF p.opt THEN AlignedSum(OptSizes) ELSE 0)
    + SlackSpaceRequired
    + (IF p.row THEN AlignedAllocSize(p.hash) ELSE 0)

EstimateCCtxSize(p, static) ==
    LET block == BlockSize(p) IN
    (IF static THEN SizeofCCtx ELSE 0)
    + TmpWorkspaceSize + 2 * SizeofBlockState
    + LdmTableSize(p)
    + (IF p.ldm THEN AlignedAllocSize(LdmMaxNbSeq(p, block) * SeqDefSize) ELSE 0)
    + SizeofMatchState(p)
    + (WildcopyOverlength + block) + AlignedAllocSize(MaxNbSeq(p, block) * SeqDefSize)
    + 3 * MaxNbSeq(p, block)
    + BuffInSize(p) + BuffOutSize(p)
    + (IF p.producer THEN AlignedAllocSize(SequenceBound(block) * SeqDefSize) ELSE 0)

\* ZSTD_reset_matchState, the part after the tables.
MatchStateRequests(p) ==
    (IF p.row THEN <<[kind |-> "initonce", bytes |-> p.hash]>> ELSE <<>>)
    \o (IF p.opt THEN [i \in DOMAIN OptSizes |-> [kind |-> "aligned", bytes |-> OptSizes[i]]]
        ELSE <<>>)

TableRequests(p) ==
    [i \in 1 .. 3 |-> [kind |-> "table", bytes |-> <<p.hash, p.chain, p.hash3>>[i] * CellSize]]

\* ZSTD_resetCCtx_internal, from the sequences on.
BlockRequests(p) ==
    LET block   == BlockSize(p)
        aligned(n) == [kind |-> "aligned", bytes |-> n * SeqDefSize]
        buffer(n)  == [kind |-> "buffer", bytes |-> n]
        seqs    == MaxNbSeq(p, block)
    IN  <<aligned(seqs)>>
        \o (IF p.ldm THEN <<aligned(p.ldmHash), aligned(LdmMaxNbSeq(p, block))>> ELSE <<>>)
        \o (IF p.producer THEN <<aligned(SequenceBound(block))>> ELSE <<>>)
        \o <<buffer(block + WildcopyOverlength), buffer(BuffInSize(p)), buffer(BuffOutSize(p))>>
        \o (IF p.ldm THEN <<buffer(p.ldmBuckets)>> ELSE <<>>)
        \o <<buffer(seqs), buffer(seqs), buffer(seqs)>>

ObjectRequests ==
    <<[kind |-> "object", bytes |-> SizeofBlockState], [kind |-> "object", bytes |-> SizeofBlockState],
      [kind |-> "object", bytes |-> TmpWorkspaceSize]>>

\* What is kept while requests are served: the workspace, the areas, and whether
\* something that is needed could not be had.
Reserve(w, r) ==
    CASE r.kind = "object"   -> ReserveObject(w, r.bytes)
      [] r.kind = "table"    -> ReserveTable(w, r.bytes)
      [] r.kind = "initonce" -> ReserveAlignedInitOnce(w, r.bytes)
      [] r.kind = "aligned"  -> ReserveAligned64(w, r.bytes)
      [] r.kind = "buffer"   -> ReserveBuffer(w, r.bytes)

LengthOf(r) == IF r.kind \in {"initonce", "aligned"} THEN AlignUp(r.bytes) ELSE r.bytes

Served(acc, r, got) ==
    [ws     |-> got.ws,
     areas  |-> acc.areas \cup {a \in {[kind |-> r.kind, lo |-> got.ptr, hi |-> got.ptr + LengthOf(r)]} :
                                  a.lo # NULL /\ a.hi > a.lo},
     missed |-> acc.missed \/ (got.ptr = NULL /\ r.bytes # 0)]

Serve(acc, r) == Served(acc, r, Reserve(acc.ws, r))

ServeAll(acc, requests) == FoldLeft(Serve, acc, requests)

(***************************************************************************)
(* The machine.                                                            *)
(***************************************************************************)
VARIABLES
    heap,      \* ghost: what has been allocated and not freed yet
    cctx,      \* the compression context
    areas,     \* ghost: the areas its pointers point to
    below,     \* ghost: the addresses known to hold values below the next index
    last       \* ghost: how the last reset ended, and what it needed

ctxVars == <<heap, cctx, areas, below, last>>

\* dctx says whether a decompression context is held beside this one.
NoContext == [alive |-> FALSE, static |-> FALSE, initialized |-> FALSE, dctx |-> FALSE,
              ws |-> NoWorkspace]

NoReset == [how |-> "none", needed |-> 0]

CtxInit ==
    /\ heap = {}
    /\ cctx = NoContext
    /\ areas = {}
    /\ below = {}
    /\ last = NoReset

\* The allocations; where the contexts lie does not matter.
MemAt(what, at) == [what |-> what, at |-> at]
Mem(what)       == MemAt(what, NULL)

FreeWorkspace(h, c) == IF c.ws.workspace = NULL THEN h ELSE h \ {MemAt("workspace", c.ws.workspace)}

\* ZSTD_freeCCtx refuses a static context.
FreeCCtx(h, c) ==
    IF c.static THEN h ELSE FreeWorkspace(h, c) \ {Mem("cctx")}

\* ZSTD_createCCtx_advanced
CreateCCtx(fails) ==
    IF fails THEN [heap |-> heap, ctx |-> NoContext]
    ELSE [heap |-> heap \cup {Mem("cctx")}, ctx |-> [NoContext EXCEPT !.alive = TRUE]]

\* The driver's cra_init.
InitTfm(cctxFails, dctxFails) ==
    LET c == CreateCCtx(cctxFails) IN
    /\ ~cctx.alive
    /\ IF ~c.ctx.alive \/ dctxFails
       THEN /\ heap' = FreeCCtx(c.heap, c.ctx)
            /\ UNCHANGED cctx
       ELSE /\ heap' = c.heap \cup {Mem("dctx")}
            /\ cctx' = [c.ctx EXCEPT !.dctx = TRUE]
    /\ UNCHANGED <<areas, below, last>>

\* The driver's cra_exit, whatever has happened before.
ExitTfm ==
    /\ cctx.alive
    /\ cctx.dctx
    /\ heap' = FreeCCtx(heap \ {Mem("dctx")}, cctx)
    /\ cctx' = NoContext
    /\ areas' = {}
    /\ below' = {}
    /\ last' = NoReset

\* ZSTD_initStaticCCtx in memory that was sized for profile p.
InitStatic(p, start) ==
    LET size  == EstimateCCtxSize(p, TRUE)
        whole == [ws |-> InitWorkspace(start, size), areas |-> {}, missed |-> FALSE]
        got   == ServeAll(whole, <<[kind |-> "object", bytes |-> SizeofCCtx]>> \o ObjectRequests)
    IN  /\ ~cctx.alive
        /\ cctx' = [NoContext EXCEPT !.alive = TRUE, !.static = TRUE, !.ws = got.ws]
        /\ areas' = got.areas
        /\ last' = NoReset
        /\ UNCHANGED <<heap, below>>

\* The user takes the memory of a static context back.
DropStatic ==
    /\ cctx.alive
    /\ cctx.static
    /\ cctx' = NoContext
    /\ areas' = {}
    /\ below' = {}
    /\ last' = NoReset
    /\ UNCHANGED heap

ObjectsOf(as) == {a \in as : a.kind = "object"}

\* ZSTD_resetCCtx_internal from ZSTD_cwksp_clear on.  acc holds the workspace and
\* its objects, known the addresses whose values are below the next index.
\* restart: the indices begin again; clean: the tables are cleaned.
Others(as) == UNION {Cells(a.lo, a.hi) : a \in {a \in as : a.kind # "table"}}

WithBlocks(p, acc, known) ==
    LET got == ServeAll(acc, MatchStateRequests(p) \o BlockRequests(p)) IN
    [got |-> got, below |-> known \ Others(got.areas)]

WithTables(p, acc, known, clean) ==
    IF clean THEN WithBlocks(p, [acc EXCEPT !.ws = CleanTables(@)], known \cup ToClean(acc.ws))
    ELSE WithBlocks(p, acc, known)

\* Broken on purpose: indices that begin again do not make the old tables dirty.
RestartedClean(w, restart) == ClearTables(w)

Restarted(w, restart) == ClearTables(IF restart THEN MarkTablesDirty(w) ELSE w)

Reserved(p, acc, known, restart, clean) ==
    WithTables(p, ServeAll([acc EXCEPT !.ws = Restarted(Clear(acc.ws), restart)], TableRequests(p)),
               IF restart THEN {} ELSE known, clean)

Bumped(c) == IF c.static THEN c.ws ELSE BumpOversizedDuration(c.ws, 0)

ResizeNeeded(w, needed) == SizeOf(w) < needed \/ CheckWasteful(w, needed)

\* Broken on purpose: the pointer to a workspace that could not be replaced stays.
NotResetDangling(h, w, how, needed) ==
    [heap |-> h, ctx |-> cctx, areas |-> areas, below |-> below,
     last |-> [how |-> how, needed |-> needed]]

NotReset(h, w, how, needed) ==
    [heap |-> h, ctx |-> [cctx EXCEPT !.ws = w], areas |-> areas, below |-> below,
     last |-> [how |-> how, needed |-> needed]]

Reset(h, needed, missed, done) ==
    [heap  |-> h,
     ctx   |-> [cctx EXCEPT !.ws = done.got.ws, !.initialized = TRUE],
     areas |-> done.got.areas,
     below |-> done.below,
     last  |-> [how |-> IF missed \/ done.got.missed THEN "short" ELSE "ready", needed |-> needed]]

\* In a new workspace the objects are reserved first.
Replaced(p, needed, at, clean, acc) ==
    Reset(FreeWorkspace(heap, cctx) \cup {MemAt("workspace", at)}, needed, acc.missed,
          Reserved(p, acc, below, TRUE, clean))

\* at is where an allocation will lie, NULL when it fails; tooClose says that the
\* indices are close to their end.
ResetWithin(p, at, tooClose, clean, needed, w) ==
    IF ~ResizeNeeded(w, needed)
    THEN Reset(heap, needed, FALSE,
               Reserved(p, [ws |-> w, areas |-> ObjectsOf(areas), missed |-> FALSE], below,
                        tooClose \/ ~cctx.initialized, clean))
    ELSE IF cctx.static THEN NotReset(heap, w, "refused", needed)
    ELSE IF at = NULL THEN NotReset(FreeWorkspace(heap, cctx), NoWorkspace, "nomem", needed)
    ELSE Replaced(p, needed, at, clean,
                  ServeAll([ws |-> InitWorkspace(at, needed), areas |-> {}, missed |-> FALSE],
                           ObjectRequests))

ResetCCtx(p, at, tooClose, clean) ==
    ResetWithin(p, at, tooClose, clean, EstimateCCtxSize(p, cctx.static), Bumped(cctx))

Settle(r) ==
    /\ heap' = r.heap
    /\ cctx' = r.ctx
    /\ areas' = r.areas
    /\ below' = r.below
    /\ last' = r.last

\* A frame begins, with no dictionary or with one whose tables stay where they are.
BeginFrame(p, at, tooClose) ==
    /\ cctx.alive
    /\ Settle(ResetCCtx(p, at, tooClose, TRUE))

\* ZSTD_resetCCtx_byCopyingCDict: the tables are not cleaned but overwritten with
\* those of the dictionary, and the window goes back to the dictionary's.
Overwritten(r, w) ==
    [r EXCEPT !.ctx.ws = MarkTablesClean(w), !.below = Cells(w.objectEnd, w.tableEnd)]

Copied(r) == IF r.last.how = "ready" THEN Overwritten(r, MarkTablesDirty(r.ctx.ws)) ELSE r

BeginFrameByCopying(p, at, tooClose) ==
    /\ cctx.alive
    /\ Settle(Copied(ResetCCtx(p, at, tooClose, FALSE)))

CtxNext ==
    \/ \E cctxFails, dctxFails \in BOOLEAN : InitTfm(cctxFails, dctxFails)
    \/ ExitTfm
    \/ \E p \in Profiles, at \in Starts : InitStatic(p, at)
    \/ DropStatic
    \/ \E p \in Profiles, at \in Starts \cup {NULL}, tooClose \in BOOLEAN :
          BeginFrame(p, at, tooClose) \/ BeginFrameByCopying(p, at, tooClose)

CtxSpec == CtxInit /\ [][CtxNext]_ctxVars

(***************************************************************************)
(* Properties.                                                             *)
(***************************************************************************)
\* The size that is estimated for a frame is enough for all that is reserved for
\* it, wherever the workspace lies in memory and whatever size it had before, and
\* no more than the slack goes unused.  (Nothing checks this at run time: most of
\* the reservations are not tested for failure.)
EstimateSuffices ==
    /\ last.how # "short"
    /\ last.how = "ready" => EstimateWithinBounds(cctx.ws, last.needed)

\* Once a reset has succeeded the context is fit for the frame, also after resets
\* that failed in between: all its pointers are into its present workspace and to
\* areas that do not overlap, the two block states and the scratch memory among
\* them; and every cell of the tables holds a value below the frame's first index.
ReadyForFrame ==
    last.how = "ready" =>
        /\ \A a \in areas : cctx.ws.workspace <= a.lo /\ a.hi <= cctx.ws.workspaceEnd
        /\ \A a, b \in areas : a # b => a.hi <= b.lo \/ b.hi <= a.lo
        /\ Cardinality(ObjectsOf(areas)) = IF cctx.static THEN 4 ELSE 3
        /\ \A a \in areas : a.kind = "table" => Cells(a.lo, a.hi) \subseteq below

\* What is allocated is what the context owns: nothing leaks, nothing is used or
\* freed after it has been freed, whichever allocation fails.
NothingLeaks ==
    heap = (IF cctx.alive /\ ~cctx.static THEN {Mem("cctx")} ELSE {})
           \cup (IF cctx.dctx THEN {Mem("dctx")} ELSE {})
           \cup (IF cctx.ws # NoWorkspace /\ ~cctx.static THEN {MemAt("workspace", cctx.ws.workspace)} ELSE {})
=============================================================================
