----------------------------- MODULE ZstdLiterals -----------------------------
(***************************************************************************)
(* The literals of the blocks of a frame: compressed with a new table, or  *)
(* that of the block before, or a dictionary's, or not at all; and read    *)
(* again by a decoder that is told no more than the bytes.                 *)
(*                                                                         *)
(* A block whose literals are written is always kept: what happens to the  *)
(* tables when it is not is the matter of ZstdBlocks.  The room for the    *)
(* result is large enough.                                                 *)
(***************************************************************************)
EXTENDS Huf

CONSTANTS
    LitSources,      \* the literals a block may have
    Strategies,      \* strategies of frames, 1 to 9
    DictCounts,      \* counts behind the table of a dictionary, of symbols from 0 on
    SampleSize,      \* SUSPECT_INCOMPRESSIBLE_SAMPLE_SIZE
    SectionsMax      \* bound: the blocks of a frame

ASSUME LiteralsAssumption ==
    /\ Strategies \subseteq 1 .. 9
    /\ \A src \in LitSources : src # <<>> /\ \A i \in DOMAIN src : src[i] \in 0 .. 255
    /\ {SampleSize, SectionsMax} \subseteq Nat

VARIABLES
    lprev,           \* prevCBlock.entropy.huf: the lengths of the table's codes, and repeatMode
    ldec,            \* the decoder's litEntropy and HUFptr: the weights its table is built from
    lframe,          \* the strategy, and how many blocks there were
    lsent,           \* the section on its way and, ghost, its literals
    lread            \* ghost: the last section read, as it was meant and as it was read

litVars == <<lprev, ldec, lframe, lsent, lread>>

(***************************************************************************)
(* Headers.                                                                *)
(***************************************************************************)
LiteralTypes == [basic |-> 0, rle |-> 1, compressed |-> 2, repeat |-> 3]

\* ZSTD_noCompressLiterals and ZSTD_compressRleLiteralsBlock: the header.
PlainHeader(type, size) ==
    Bits(LiteralTypes[type], 2) \o
        (IF size <= 31 THEN Bits(0, 1) \o Bits(size, 5)
         ELSE IF size <= 4095 THEN Bits(1, 2) \o Bits(size, 12)
         ELSE Bits(3, 2) \o Bits(size, 20))

\* The end of ZSTD_compressLiterals: the header.
CodedHeader(type, single, size, coded) ==
    Bits(LiteralTypes[type], 2) \o
        (IF size < 1024 THEN Bits(IF single THEN 0 ELSE 1, 2) \o Bits(size, 10) \o Bits(coded, 10)
         ELSE IF size < 16384 THEN Bits(2, 2) \o Bits(size, 14) \o Bits(coded, 14)
         ELSE Bits(3, 2) \o Bits(size, 18) \o Bits(coded, 18))

\* The first part of ZSTD_decodeLiteralsBlock.
ReadHeader(bits) ==
    LET type == CHOOSE t \in DOMAIN LiteralTypes : LiteralTypes[t] = ReadForward(bits, 0, 2)
        form == ReadForward(bits, 2, 2)
        plain(start, n) == [type |-> type, size |-> ReadForward(bits, start, n), header |-> (start + n) \div 8]
        coded(n) == [type |-> type, single |-> form = 0, size |-> ReadForward(bits, 4, n),
                     coded |-> ReadForward(bits, 4 + n, n), header |-> (4 + 2 * n) \div 8]
    IN  IF type \in {"basic", "rle"}
        THEN IF form \in {0, 2} THEN plain(3, 5) ELSE IF form = 1 THEN plain(4, 12) ELSE plain(4, 20)
        ELSE IF form \in {0, 1} THEN coded(10) ELSE IF form = 2 THEN coded(14) ELSE coded(18)

(***************************************************************************)
(* Compression.                                                            *)
(***************************************************************************)
\* HUF_optimalTableLog: a guess, or for strong strategies the first log behind which
\* sizes grow.
Better(acc, log, size) ==
    IF acc.log > 0 /\ size > acc.size + 1 THEN [acc EXCEPT !.stop = TRUE]
    ELSE IF acc.log = 0 \/ size < acc.size THEN [acc EXCEPT !.log = log, !.size = size]
    ELSE acc
WeighTable(count, acc, log, ct, header) ==
    IF header = FseError THEN acc ELSE Better(acc, log, EstimateSize(ct, count) + Bytes(header.bits))
ProbeTable(count, minLog, acc, log, ct) ==
    IF ct.log < log /\ log > minLog THEN [acc EXCEPT !.stop = TRUE]
    ELSE WeighTable(count, acc, log, ct, WriteHufTable(ct))
ProbeLog(count, minLog, acc, log) ==
    IF acc.stop THEN acc ELSE ProbeTable(count, minLog, acc, log, BuildHufTable(count, log))

BestLog(best) == IF best.log = 0 THEN FastTableLog ELSE best.log
SearchLog(count, minLog) ==
    BestLog(Along(LAMBDA acc, i : ProbeLog(count, minLog, acc, i), [log |-> 0, size |-> 0, stop |-> FALSE],
                  [i \in 1 .. FastTableLog - minLog + 1 |-> minLog + i - 1]))

HufTableLog(count, size, optimal) ==
    IF optimal THEN SearchLog(count, HighBit(Cardinality({s \in DOMAIN count : count[s] > 0})) + 1)
    ELSE TableLogFor(FastTableLog, size, Max(DOMAIN count), 1)

\* Both ends of the source look as if all symbols were as frequent.
LooksIncompressible(src) ==
    LET ends == Largest(CountsOf(SubSeq(src, 1, SampleSize)))
                    + Largest(CountsOf(SubSeq(src, Len(src) - SampleSize + 1, Len(src))))
    IN  Len(src) >= 10 * SampleSize /\ ends <= (2 * SampleSize) \div 128 + 4

\* A table is kept as the lengths of its codes.
Lengths(ct) == [log |-> ct.log, nbBits |-> Tuple([i \in DOMAIN ct.code |-> ct.code[i].nbBits])]
TableOf(prev) == CodesOf(prev.table.nbBits, prev.table.log)

Compressed(bits, table, repeat) == [bits |-> bits, table |-> table, repeat |-> repeat]

\* The old table, which may be used, or the new one, or neither.
WithCheaper(src, single, old, count, kept, usable, new, header) ==
    LET size(bits) == Bytes(bits)
        cheaper == \/ EstimateSize(kept, count) <= size(header.bits) + EstimateSize(new, count)
                   \/ size(header.bits) + 12 >= Len(src)
    IN  IF header = FseError THEN Compressed(<<>>, old.table, usable)
        ELSE IF usable # "none" /\ cheaper
        THEN Compressed(CompressWithTable(kept, src, single, <<>>), old.table, usable)
        ELSE IF size(header.bits) + 12 >= Len(src) THEN Compressed(<<>>, old.table, usable)
        ELSE Compressed(CompressWithTable(new, src, single, header.bits), Lengths(new), "none")

\* HUF_compress_internal: the bits (none when it is not worth it), and the table and its
\* repeatMode after it; opt: prefer the old table, suspect the source, search the log.
WithOld(src, single, old, kept, usable) ==
    Compressed(CompressWithTable(kept, src, single, <<>>), old.table, usable)
WithNew(src, single, old, count, kept, usable, new) ==
    WithCheaper(src, single, old, count, kept, usable, new, WriteHufTable(new))

ChooseTable(src, single, old, opt, count, kept, usable) ==
    IF opt.prefer /\ usable # "none" THEN WithOld(src, single, old, kept, usable)
    ELSE WithNew(src, single, old, count, kept, usable,
                 BuildHufTable(count, HufTableLog(count, Len(src), opt.optimal)))

Usable(old, count, kept) == IF old.repeat = "check" /\ ~ValidTable(kept, count) THEN "none" ELSE old.repeat

CompressCounted(src, single, old, opt, count, kept) ==
    IF Largest(count) = Len(src) THEN Compressed(Bits(src[1], 8), old.table, old.repeat)
    ELSE IF Largest(count) <= Len(src) \div 128 + 4 THEN Compressed(<<>>, old.table, old.repeat)
    ELSE ChooseTable(src, single, old, opt, count, kept, Usable(old, count, kept))

HufCompress(src, single, old, opt) ==
    IF opt.prefer /\ old.repeat = "valid" THEN WithOld(src, single, old, TableOf(old), "valid")
    ELSE IF opt.suspect /\ LooksIncompressible(src) THEN Compressed(<<>>, old.table, old.repeat)
    ELSE CompressCounted(src, single, old, opt, CountsOf(src), TableOf(old))

\* ZSTD_minLiteralsToCompress, ZSTD_minGain
MinLiterals(strategy, repeat) == IF repeat = "valid" THEN 6 ELSE 8 * 2 ^ Min({9 - strategy, 3})
MinGain(size, strategy) == size \div 2 ^ (IF strategy >= 8 THEN strategy - 1 ELSE 6) + 2

PlainSection(src, prev) == [bits |-> PlainHeader("basic", Len(src)) \o Concat([i \in DOMAIN src |-> Bits(src[i], 8)]),
                            next |-> prev]

\* The end of ZSTD_compressLiterals: the section, and the tables it leaves.
CodedSection(src, prev, strategy, single, got, coded, type) ==
    IF got.bits = <<>> \/ coded >= Len(src) - MinGain(Len(src), strategy) THEN PlainSection(src, prev)
    ELSE IF coded = 1 /\ (Len(src) >= 8 \/ Cardinality(ToSet(src)) = 1)
    THEN [bits |-> PlainHeader("rle", Len(src)) \o Bits(src[1], 8), next |-> prev]
    ELSE [bits |-> CodedHeader(type, single, Len(src), coded) \o got.bits,
          next |-> [table |-> got.table, repeat |-> IF type = "compressed" THEN "check" ELSE prev.repeat]]
WriteSection(src, prev, strategy, single, got) ==
    CodedSection(src, prev, strategy, single, got, Bytes(got.bits),
                 IF got.repeat = "none" THEN "compressed" ELSE "repeat")

\* ZSTD_compressLiterals
SingleStream(size, prev) == size < 256 \/ (prev.repeat = "valid" /\ size < 1024)
CompressLiterals(src, prev, strategy, disabled, suspect) ==
    IF disabled \/ Len(src) < MinLiterals(strategy, prev.repeat) THEN PlainSection(src, prev)
    ELSE WriteSection(src, prev, strategy, SingleStream(Len(src), prev),
             HufCompress(src, SingleStream(Len(src), prev), prev,
                 [prefer |-> strategy < 4 /\ Len(src) <= 1024, optimal |-> strategy >= 8, suspect |-> suspect]))

(***************************************************************************)
(* Decompression.                                                          *)
(***************************************************************************)
DTableOf(kept) == IF kept.double THEN DTableX2(kept.stats) ELSE DTableX1(kept.stats)
Decoded(dt, bits, n, single) == IF single THEN Decompress1X(dt, bits, n) ELSE Decompress4X(dt, bits, n)

\* ZSTD_decodeLiteralsBlock: the literals, and the table that is kept.  One stream is
\* decoded with single cells, four as HUF_selectDecoder has it.
DecodeWithTable(h, body, skip, table) ==
    [got |-> Decoded(DTableOf(table), SubBits(body, skip, h.coded - skip), h.size, h.single), dec |-> table]
DecodeNew(h, body, dec, stats) ==
    IF h.coded # Bytes(body) \/ stats = FseError THEN [got |-> FseError, dec |-> dec]
    ELSE DecodeWithTable(h, body, stats.size, [present |-> TRUE, stats |-> stats,
                                               double |-> ~h.single /\ SelectsDouble(h.size, h.coded)])

PlainLiterals(h, body) ==
    IF h.type = "rle" THEN Times(h.size, ReadForward(body, 0, 8))
    ELSE Tuple([i \in 1 .. h.size |-> ReadForward(body, 8 * (i - 1), 8)])

DecodeBody(h, body, dec) ==
    CASE h.type \in {"basic", "rle"} -> [got |-> [out |-> PlainLiterals(h, body)], dec |-> dec]
      [] h.type = "repeat" -> IF dec.present THEN DecodeWithTable(h, body, 0, dec) ELSE [got |-> FseError, dec |-> dec]
      [] h.type = "compressed" -> DecodeNew(h, body, dec, ReadStats(body))

DecodeBehind(h, bits, dec) == DecodeBody(h, SubBits(bits, h.header, Bytes(bits) - h.header), dec)
DecodeLiterals(bits, dec) == DecodeBehind(ReadHeader(bits), bits, dec)

(***************************************************************************)
(* A frame.                                                                *)
(***************************************************************************)
DictTable  == BuildHufTable([s \in 0 .. Len(DictCounts) - 1 |-> DictCounts[s + 1]], FastTableLog)
DictStats  == ReadStats(WriteHufTable(DictTable).bits)
\* A dictionary's table is valid without a look when it has a code for every byte.
DictEntropy(stats) ==
    [table  |-> Lengths(ReadHufTable(stats)),
     repeat |-> IF Len(DictCounts) = 256 /\ \A s \in DOMAIN stats.weight : stats.weight[s] > 0
                THEN "valid" ELSE "check"]

\* ZSTD_reset_compressedBlockState, ZSTD_loadCEntropy, ZSTD_loadDEntropy: of a frame
\* without or with the dictionary.
EncoderStart(dict) == IF dict THEN DictEntropy(DictStats) ELSE [table |-> Nothing, repeat |-> "none"]
DecoderStart(dict) ==
    IF dict THEN [present |-> TRUE, stats |-> DictStats, double |-> TRUE] ELSE [present |-> FALSE]

LitInit ==
    /\ \E dict \in BOOLEAN : lprev = EncoderStart(dict) /\ ldec = DecoderStart(dict)
    /\ lframe \in [strategy : Strategies, sections : {0}]
    /\ lsent = <<>>
    /\ lread = <<>>

SendSection(src, section) ==
    /\ lsent' = <<[bits |-> section.bits, meant |-> src]>>
    /\ lprev' = section.next

SendLiterals ==
    /\ lsent = <<>> /\ lframe.sections < SectionsMax
    /\ \E src \in LitSources, mode \in {"none", "suspect", "auto"} :
          SendSection(src, CompressLiterals(Tuple(src), lprev, lframe.strategy, mode = "none", mode = "suspect"))
    /\ lframe' = [lframe EXCEPT !.sections = @ + 1]
    /\ UNCHANGED <<ldec, lread>>

ReadSent(d) ==
    /\ lread' = <<[meant |-> [out |-> lsent[1].meant], got |-> d.got]>>
    /\ ldec'  = d.dec

ReadLiterals ==
    /\ lsent # <<>>
    /\ ReadSent(DecodeLiterals(lsent[1].bits, ldec))
    /\ lsent' = <<>>
    /\ UNCHANGED <<lprev, lframe>>

\* The next frame, with or without the dictionary.
NextLitFrame ==
    /\ lsent = <<>> /\ lframe.sections > 0
    /\ \E dict \in BOOLEAN : lprev' = EncoderStart(dict) /\ ldec' = DecoderStart(dict)
    /\ lframe' \in [strategy : Strategies, sections : {0}]
    /\ lread' = <<>>
    /\ UNCHANGED lsent

LitNext == SendLiterals \/ ReadLiterals \/ NextLitFrame
LitSpec == LitInit /\ [][LitNext]_litVars

\* What is read are the literals that were meant, whichever table, number of streams,
\* decoder and header were chosen on the way.
LiteralsArrive == \A i \in DOMAIN lread : lread[i].got = lread[i].meant
=============================================================================
