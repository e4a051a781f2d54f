------------------------------ MODULE ZstdBlocks ------------------------------
(***************************************************************************)
(* The blocks of a zstd frame and what each leaves behind for the next:    *)
(* the three last offsets and the entropy tables, of which the encoder     *)
(* (prevCBlock) and the decoder (ZSTD_DCtx) each keep their own copy.  A   *)
(* block may be compressed whole, split after the fact, or written as a    *)
(* superblock of sub-blocks; it may come out raw or as a run of one byte,  *)
(* and then the decoder never sees what the encoder had worked out.        *)
(*                                                                         *)
(* A sequence is a match: whether literals come before it (ll0 when not),  *)
(* and offBase, 1 .. 3 for one of the last offsets and 3 + the offset      *)
(* otherwise.  A table is an identity and the codes it has a symbol for.   *)
(* Match lengths are coded as literal lengths are and are left out.        *)
(***************************************************************************)
EXTENDS ZstdCommon, SequencesExt, FiniteSetsExt

CONSTANTS
    Stores,          \* the lists of sequences that may be found in a block
    FirstReach,      \* the largest offset code in a first block (ZSTD_loadCEntropy)
    DefaultReach,    \* DefaultMaxOff, the largest offset code of the default table
    BasicMax,        \* so many equal codes are coded with the default table
    BlocksMax        \* bound: the blocks of a frame

ASSUME BlocksAssumption ==
    /\ Stores \subseteq Seq([ll0 : BOOLEAN, offBase : Nat \ {0}])
    /\ {FirstReach, DefaultReach, BasicMax, BlocksMax} \subseteq Nat

VARIABLES
    bprev,           \* blockState.prevCBlock
    bdec,            \* the decoder's copy, and whether it has tables at all
    bwork,           \* the block that is being written in parts
    bframe,          \* the strategy and the way blocks are written, the number of blocks
    bwrong           \* ghost: what a decoder has ever met that was wrong

blkVars == <<bprev, bdec, bwork, bframe, bwrong>>

Streams == {"of", "ll"}
Kinds   == Streams \cup {"huf"}

OffCodes == 0 .. 4
Codes(kind) == IF kind = "of" THEN OffCodes ELSE {0, 1}

NoTable      == [id |-> 0, cover |-> {}]
DefaultTable(s) == [id |-> 9, cover |-> IF s = "of" THEN 0 .. DefaultReach ELSE Codes(s)]
RleTable(code)  == [id |-> 10, cover |-> {code}]

\* A table that nobody has yet.
FreshTable(live, need) ==
    [id |-> CHOOSE i \in 1 .. 3 : \A t \in live : t.id # i, cover |-> need]

After(rep, s)        == UpdateRep(rep, s.offBase, s.ll0)
AfterSeqs(rep, seqs) == FoldLeft(After, rep, seqs)

\* What the last offsets are before the sequence i.
Before(rep, seqs, i) == AfterSeqs(rep, SubSeq(seqs, 1, i - 1))

(***************************************************************************)
(* Entropy tables of the encoder.  An entropy is a table for each kind,    *)
(* and its repeat mode: "none", "check" (it may lack a code) or "valid".   *)
(***************************************************************************)
Tables(kind) == {bprev.entropy[kind].table, bdec.table[kind]}

\* ZSTD_compressLiterals and ZSTD_buildBlockEntropyStats_literals: how literals
\* of every code may be written, and what is left for the next block.
LiteralCodings(huf) ==
    {[type |-> "raw", next |-> huf]}     \* or as a run: neither has a table
    \cup (IF huf.mode = "valid" \/ (huf.mode = "check" /\ Codes("huf") \subseteq huf.table.cover)
          THEN {[type |-> "repeat", next |-> huf]} ELSE {})
    \cup {[type |-> "compressed",
           next |-> [table |-> FreshTable(Tables("huf"), Codes("huf")), mode |-> "check"]]}

NeedOf(stream, seqs) ==
    IF stream = "of" THEN {OffCode(seqs[i].offBase) : i \in DOMAIN seqs}
    ELSE {IF seqs[i].ll0 THEN 0 ELSE 1 : i \in DOMAIN seqs}

\* ZSTD_selectEncodingType: the fast strategies decide by rules of thumb, the others
\* by what a choice would cost, of which only what is possible matters here.
SelectEncodingType(strategy, old, need, nbSeq, allowed) ==
    IF Cardinality(need) = 1
    THEN {IF allowed /\ nbSeq <= BasicMax THEN "basic" ELSE "rle"}
    ELSE IF strategy = "fast" /\ allowed /\ old.mode = "valid" THEN {"repeat"}
    ELSE {"compressed"} \cup (IF allowed THEN {"basic"} ELSE {})
         \cup (IF strategy # "fast" /\ old.mode # "none" /\ need \subseteq old.table.cover
               THEN {"repeat"} ELSE {})

\* ZSTD_buildCTable with the repeat mode that was decided on.
BuildCTable(stream, type, old, need) ==
    CASE type = "rle"        -> [table |-> RleTable(CHOOSE c \in need : TRUE), mode |-> "none"]
      [] type = "basic"      -> [table |-> DefaultTable(stream), mode |-> "none"]
      [] type = "repeat"     -> old
      [] type = "compressed" -> [table |-> FreshTable(Tables(stream), need), mode |-> "check"]

\* ZSTD_buildSequencesStatistics
StreamCodings(stream, strategy, old, seqs) ==
    LET need    == NeedOf(stream, seqs)
        allowed == stream = "of" => need \subseteq 0 .. DefaultReach
    IN  {[type |-> t, next |-> BuildCTable(stream, t, old, need)] :
            t \in SelectEncodingType(strategy, old, need, Len(seqs), allowed)}

\* A block without sequences leaves the tables of sequences as they are.
Codings(entropy, seqs, strategy) ==
    LET of(s) == IF seqs = <<>> THEN {[type |-> "none", next |-> entropy[s]]}
                 ELSE StreamCodings(s, strategy, entropy[s], seqs)
    IN  [huf : LiteralCodings(entropy["huf"]), of : of("of"), ll : of("ll")]

\* ZSTD_buildDummySequencesStatistics: in a superblock they are forgotten.
DummyStatistics(old) == [type |-> "none", next |-> [old EXCEPT !.mode = "none"]]

\* ZSTD_buildBlockEntropyStats
SuperCodings(entropy, seqs, strategy) ==
    IF seqs = <<>>
    THEN [huf : LiteralCodings(entropy["huf"]),
          of : {DummyStatistics(entropy["of"])}, ll : {DummyStatistics(entropy["ll"])}]
    ELSE Codings(entropy, seqs, strategy)

NextEntropy(choice) == [k \in Kinds |-> choice[k].next]

\* ZSTD_entropyCompressSeqStore: the block, whose offsets are meant, and what is next.
CompressedBlock(choice, seqs, meant) ==
    [types |-> [k \in Kinds |-> choice[k].type], tables |-> [k \in Kinds |-> choice[k].next.table],
     seqs |-> seqs, meant |-> meant]

(***************************************************************************)
(* The decoder.                                                            *)
(***************************************************************************)
\* ZSTD_decodeLiteralsBlock
DecodeLiterals(d, b) ==
    CASE b.types["huf"] = "raw" -> d
      [] b.types["huf"] = "compressed" ->
            [d EXCEPT !.table["huf"] = b.tables["huf"], !.litEntropy = TRUE]
      [] b.types["huf"] = "repeat" ->
            [d EXCEPT !.wrong = @ \cup (IF d.litEntropy THEN {} ELSE {"no literal table"})]

\* ZSTD_buildSeqTable for both streams, ZSTD_decodeSeqHeaders.
DecodeSeqHeaders(d, b) ==
    [d EXCEPT
        !.table = [k \in Kinds |->
            IF k = "huf" \/ b.types[k] = "repeat" THEN d.table[k]
            ELSE IF b.types[k] = "basic" THEN DefaultTable(k)
            ELSE b.tables[k]],
        !.wrong = @ \cup (IF ~d.fseEntropy /\ \E s \in Streams : b.types[s] = "repeat"
                          THEN {"no sequence table"} ELSE {})]

\* A turn of the loop of ZSTD_decompressSequences
DecodeNext(acc, x) ==
    LET got == DecodeSequence(acc.prev, x.seq) IN
    [prev  |-> got.prev,
     wrong |-> acc.wrong \cup (IF got.offset = x.meant THEN {} ELSE {"offset"})]

DecodeSequences(d, b) ==
    LET pairs == [i \in DOMAIN b.seqs |-> [seq |-> b.seqs[i], meant |-> b.meant[i]]]
        all   == FoldLeft(DecodeNext, [prev |-> d.rep, wrong |-> d.wrong], pairs)
    IN  [d EXCEPT !.rep = all.prev, !.wrong = all.wrong, !.fseEntropy = TRUE]

\* What was coded with one table is read with the same one, and had a symbol in it.
Coded(d, b) ==
    LET used == {s \in Streams : b.seqs # <<>>}
                \cup (IF b.types["huf"] \in {"compressed", "repeat"} THEN {"huf"} ELSE {})
        need(k) == IF k = "huf" THEN Codes(k) ELSE NeedOf(k, b.seqs)
    IN  [d EXCEPT !.wrong = @ \cup
            (IF \E k \in used : d.table[k] # b.tables[k] THEN {"another table"} ELSE {}) \cup
            (IF \E k \in used : ~(need(k) \subseteq b.tables[k].cover) THEN {"no symbol"} ELSE {})]

DecompressBlock_internal(d, b) ==
    LET e == DecodeLiterals(d, b) IN
    IF b.seqs = <<>> THEN Coded(e, b)
    ELSE DecodeSequences(Coded(DecodeSeqHeaders(e, b), b), b)

\* The decoder gets these compressed blocks; others do not concern it.
Sent(blocks) ==
    LET d == FoldLeft(DecompressBlock_internal, [bdec EXCEPT !.wrong = {}], blocks) IN
    /\ bdec' = [d EXCEPT !.wrong = {}]
    /\ bwrong' = bwrong \cup d.wrong

(***************************************************************************)
(* Blocks.                                                                 *)
(***************************************************************************)
\* What a match finder may put together after the history rep: offsets that are not
\* zero, and in a first block none that is out of the dictionary's reach.  The fast
\* one keeps the two last offsets and only ever says that the last one repeats.
Reach(first, base) == first => OffCode(base) <= FirstReach
MayStore(strategy, first, rep, s) ==
    /\ Resolve(rep, s.offBase, s.ll0) > 0
    /\ strategy = "fast" /\ s.offBase <= 3 => s.offBase = 1
    /\ Reach(first, 3 + Resolve(rep, s.offBase, s.ll0))

SeqsFrom(strategy, first, rep) ==
    {q \in Stores :
        \A i \in DOMAIN q : MayStore(strategy, first, Before(rep, q, i), q[i])}

\* rep after a block as the match finder leaves it in nextCBlock: the fast one does not
\* keep the third.
LeftRep(strategy, rep, seqs) ==
    LET r == AfterSeqs(rep, seqs) IN IF strategy = "fast" THEN <<r[1], r[2], rep[3]>> ELSE r

Meant(rep, seqs) ==
    [i \in DOMAIN seqs |-> Resolve(Before(rep, seqs, i), seqs[i].offBase, seqs[i].ll0)]

NoWork == [kind |-> "none"]

\* Offset codes of a dictionary are known to suffice for the first block only.
Downgraded(p) ==
    IF p.entropy["of"].mode = "valid" THEN [p EXCEPT !.entropy["of"].mode = "check"] ELSE p

BlockBegins == bwork = NoWork /\ bframe.blocks < BlocksMax
BlockDone   == bframe' = [bframe EXCEPT !.blocks = @ + 1]

\* ZSTD_compressBlock_internal: a block that does not come out compressed, raw or as a
\* run, is not confirmed.
CompressBlockInternal(seqs) ==
    /\ BlockBegins
    /\ \/ /\ \E choice \in Codings(bprev.entropy, seqs, bframe.strategy) :
                /\ Sent(<<CompressedBlock(choice, seqs, Meant(bprev.rep, seqs))>>)
                /\ bprev' = Downgraded([rep |-> LeftRep(bframe.strategy, bprev.rep, seqs),
                                        entropy |-> NextEntropy(choice)])
       \/ /\ bprev' = Downgraded(bprev)
          /\ UNCHANGED <<bdec, bwrong>>
    /\ BlockDone
    /\ UNCHANGED bwork

(***************************************************************************)
(* ZSTD_compressBlock_splitBlock                                           *)
(***************************************************************************)
\* ZSTD_deriveBlockSplits: where the parts end into which a block of n sequences is cut.
Partitions(n) ==
    {p \in UNION {[1 .. parts -> 1 .. n] : parts \in 2 .. n} :
        /\ \A i \in 1 .. Len(p) - 1 : p[i] < p[i + 1]
        /\ p[Len(p)] = n}

SplitBlock(seqs, partitions) ==
    /\ BlockBegins
    /\ bwork' = [kind |-> "split", seqs |-> seqs, sp |-> 0, partitions |-> partitions,
                 dRep |-> bprev.rep, cRep |-> bprev.rep]
    /\ UNCHANGED <<bprev, bdec, bframe, bwrong>>

\* The sequences from startIdx on up to endIdx, which belongs to the next part.
DeriveSeqStoreChunk(seqs, startIdx, endIdx) == SubSeq(seqs, startIdx + 1, endIdx)

\* A repcode that the decoder would take for something else is replaced by the offset
\* it stands for.
Unmistaken(dRep, cRep, s) ==
    LET meant == Resolve(cRep, s.offBase, s.ll0) IN
    IF s.offBase <= 3 /\ Resolve(dRep, s.offBase, s.ll0) # meant
    THEN [s EXCEPT !.offBase = 3 + meant] ELSE s

\* Broken on purpose: the decoder's history is taken to follow the repcode that was there
\* before it was replaced.
ResolveOffCodeLagging(acc, s) ==
    [dRep |-> After(acc.dRep, s),
     cRep |-> After(acc.cRep, s),
     seqs |-> Append(acc.seqs, Unmistaken(acc.dRep, acc.cRep, s))]

\* A turn of the loop of ZSTD_seqStore_resolveOffCodes
ResolveOffCode(acc, s) ==
    [dRep |-> After(acc.dRep, Unmistaken(acc.dRep, acc.cRep, s)),
     cRep |-> After(acc.cRep, s),
     seqs |-> Append(acc.seqs, Unmistaken(acc.dRep, acc.cRep, s))]

ResolveOffCodes(dRep, cRep, seqs) ==
    FoldLeft(ResolveOffCode, [dRep |-> dRep, cRep |-> cRep, seqs |-> <<>>], seqs)

\* ZSTD_compressSeqStore_singleBlock, for the next part, and the end of the loop.
Chunk ==
    LET end   == Head(bwork.partitions)
        rest  == Tail(bwork.partitions)
        r     == ResolveOffCodes(bwork.dRep, bwork.cRep,
                                 DeriveSeqStoreChunk(bwork.seqs, bwork.sp, end))
        meant == SubSeq(Meant(bprev.rep, bwork.seqs), bwork.sp + 1, end)
        goesOn(p, dRep) ==
            /\ bprev' = Downgraded(IF rest = <<>> THEN [p EXCEPT !.rep = dRep] ELSE p)
            /\ bwork' = IF rest = <<>> THEN NoWork
                        ELSE [bwork EXCEPT !.sp = end, !.partitions = rest,
                                           !.dRep = dRep, !.cRep = r.cRep]
    IN  /\ bwork.kind = "split"
        /\ \/ /\ \E choice \in Codings(bprev.entropy, r.seqs, bframe.strategy) :
                    /\ Sent(<<CompressedBlock(choice, r.seqs, meant)>>)
                    /\ goesOn([bprev EXCEPT !.entropy = NextEntropy(choice)], r.dRep)
           \/ /\ goesOn(bprev, bwork.dRep)
              /\ UNCHANGED <<bdec, bwrong>>
        /\ IF rest = <<>> THEN BlockDone ELSE UNCHANGED bframe

(***************************************************************************)
(* ZSTD_compressBlock_targetCBlockSize: a superblock, whose sub-blocks     *)
(* share the tables, which the first one that is compressed carries.       *)
(***************************************************************************)
SuperBlock(seqs) ==
    /\ BlockBegins
    /\ \E choice \in SuperCodings(bprev.entropy, seqs, bframe.strategy) :
          bwork' = [kind |-> "super", choice |-> choice, seqs |-> seqs, sp |-> 0,
                    writeLit |-> choice.huf.type = "compressed", writeSeq |-> TRUE, out |-> <<>>]
    /\ UNCHANGED <<bprev, bdec, bframe, bwrong>>

\* plain: the literals, or what there is of them, are not worth compressing.
SubBlockLiteral(plain) ==
    IF bwork.choice.huf.type = "raw" \/ plain THEN "raw"
    ELSE IF bwork.writeLit THEN "compressed" ELSE "repeat"

SubBlockSequences(s) == IF bwork.writeSeq THEN bwork.choice[s].type ELSE "repeat"

\* ZSTD_compressSubBlock of the next count sequences.
SubBlock(count, plain) ==
    LET seqs  == SubSeq(bwork.seqs, bwork.sp + 1, bwork.sp + count)
        lit   == SubBlockLiteral(plain)
        meant == Meant(bprev.rep, bwork.seqs)
        block == [types  |-> [k \in Kinds |-> IF k = "huf" THEN lit ELSE SubBlockSequences(k)],
                  tables |-> [k \in Kinds |-> bwork.choice[k].next.table],
                  seqs   |-> seqs,
                  meant  |-> SubSeq(meant, bwork.sp + 1, bwork.sp + count)]
    IN  [bwork EXCEPT !.sp = @ + count, !.out = Append(@, block),
                      !.writeLit = @ /\ lit # "compressed",
                      !.writeSeq = @ /\ seqs = <<>>]

\* A turn of the loop of ZSTD_compressSubBlock_multi that emits a sub-block; one that is
\* not small enough is left for the next turn to do again with more sequences.
EmitSubBlock(count, plain) ==
    /\ bwork.kind = "super"
    /\ bwork.sp + count < Len(bwork.seqs)
    /\ bwork' = SubBlock(count, plain)
    /\ UNCHANGED <<bprev, bdec, bframe, bwrong>>

NeedSequenceEntropyTables(choice) == \E s \in Streams : choice[s].type \in {"compressed", "rle"}

\* The last sub-block is compressed, or what is left is sent raw.  The superblock is
\* given up, and all of it sent raw, when nobody wrote tables that are needed, or when
\* it is not smaller than what it stands for.
LastSubBlock(plain, compressed, small) ==
    LET rest   == Len(bwork.seqs) - bwork.sp
        w      == IF compressed THEN SubBlock(rest, plain) ELSE bwork
        given  == w.writeSeq /\ NeedSequenceEntropyTables(w.choice)
        next   == NextEntropy(w.choice)
        huf    == IF w.writeLit THEN bprev.entropy["huf"] ELSE next["huf"]
        rep    == IF ~compressed /\ rest > 0
                  THEN AfterSeqs(bprev.rep, SubSeq(w.seqs, 1, w.sp))
                  ELSE LeftRep(bframe.strategy, bprev.rep, w.seqs)
    IN  /\ bwork.kind = "super"
        /\ small => w.out # <<>>
        /\ IF small /\ ~given
           THEN /\ Sent(w.out)
                /\ bprev' = Downgraded([rep |-> rep, entropy |-> [next EXCEPT !["huf"] = huf]])
           ELSE /\ bprev' = Downgraded(bprev)
                /\ UNCHANGED <<bdec, bwrong>>
        /\ bwork' = NoWork
        /\ BlockDone

(***************************************************************************)
(* A frame, after a dictionary or without one.                             *)
(***************************************************************************)
NoEntropy == [k \in Kinds |-> [table |-> NoTable, mode |-> "none"]]

\* ZSTD_loadCEntropy, ZSTD_loadDEntropy: a table that has all codes that may be needed
\* is valid, and not looked at again.
DictTable(kind, cover) ==
    LET needed == IF kind = "of" THEN 0 .. FirstReach ELSE Codes(kind) IN
    [table |-> [id |-> 1, cover |-> cover],
     mode  |-> IF needed \subseteq cover THEN "valid" ELSE "check"]

DictEntropies ==
    {[k \in Kinds |-> DictTable(k, IF k = "of" THEN of ELSE Codes(k))] :
        of \in {0 .. FirstReach, {0, 1}}}
    \cup {[k \in Kinds |-> DictTable(k, IF k = "of" THEN OffCodes ELSE {1})]}

BlkInit ==
    /\ bframe \in [strategy : {"fast", "opt"}, way : {"whole", "split", "super"}, blocks : {0}]
    /\ bwork = NoWork
    /\ bwrong = {}
    /\ \E entropy \in {NoEntropy} \cup DictEntropies :
          /\ bprev = [rep |-> <<1, 4, 8>>, entropy |-> entropy]
          /\ bdec = [rep |-> <<1, 4, 8>>, table |-> [k \in Kinds |-> entropy[k].table],
                     litEntropy |-> entropy # NoEntropy, fseEntropy |-> entropy # NoEntropy,
                     wrong |-> {}]

BlkNext ==
    \/ \E seqs \in SeqsFrom(bframe.strategy, bframe.blocks = 0, bprev.rep) :
          /\ BlockBegins
          /\ \/ bframe.way # "super" /\ CompressBlockInternal(seqs)
             \/ bframe.way = "super" /\ SuperBlock(seqs)
             \/ \E partitions \in Partitions(Len(seqs)) :
                   bframe.way = "split" /\ SplitBlock(seqs, partitions)
    \/ Chunk
    \/ \E plain \in BOOLEAN :
          \/ \E count \in 1 .. 2 : EmitSubBlock(count, plain)
          \/ \E compressed, small \in BOOLEAN : LastSubBlock(plain, compressed, small)

BlkSpec == BlkInit /\ [][BlkNext]_blkVars

\* Whatever mixture of compressed, raw and run-length blocks, split blocks and
\* superblocks came before, the decoder has the tables with which a block was coded, each
\* with a symbol for all that was coded with it, takes every repcode for the offset that
\* the encoder meant, and is left with the history the encoder goes on with.
DecoderInStep ==
    /\ bwrong = {}
    /\ bwork.kind # "split" =>
          LET kept == IF bframe.strategy = "fast" THEN 1 .. 2 ELSE 1 .. 3 IN
          \A i \in kept : bdec.rep[i] = bprev.rep[i]
    /\ \A k \in Kinds : bprev.entropy[k].mode # "none" => bdec.table[k] = bprev.entropy[k].table
=============================================================================
