---------------------------- MODULE ZstdSequences ----------------------------
(***************************************************************************)
(* The sequences of a compressed block as they are written: lengths and    *)
(* offsets as a code and some more bits, the codes with three tables in    *)
(* one stream of bits, and the sizes in the headers of the two sections.   *)
(*                                                                         *)
(* The code has two sources for everything here, one in the encoder and    *)
(* one in the decoder: formulas on one side and base values on the other,  *)
(* distributions there and tables that were printed out once here.         *)
(***************************************************************************)
EXTENDS Fse

CONSTANTS
    SeqLists,        \* the sequences a block may have: lengths, and of, the offBase
    SeqStrategies,   \* strategies of frames, 1 to 9
    SeqSectionsMax   \* bound: the blocks of a frame

ASSUME SequencesAssumption ==
    /\ SeqStrategies \subseteq 1 .. 9 /\ SeqSectionsMax \in Nat
    /\ \A seqs \in SeqLists : seqs # <<>> /\ \A i \in DOMAIN seqs :
          seqs[i].ll \in Nat /\ seqs[i].ml >= 3 /\ seqs[i].of \in Nat \ {0}

VARIABLES
    sqprev,          \* prevCBlock.entropy.fse: tables and repeat modes
    sqdec,           \* the decoder's tables; tables are kept as what they are built from
    sqframe,         \* the strategy, and how many blocks there were
    sqsent,          \* the section on its way and, ghost, its sequences
    sqread           \* ghost: the last section read, as it was meant and as it was read

seqVars == <<sqprev, sqdec, sqframe, sqsent, sqread>>

Streams == {"ll", "of", "ml"}

MaxLL == 35
MaxML == 52
Zeros(n) == [i \in 1 .. n |-> 0]
DefaultMaxOff == 28

LL_bits == Zeros(16) \o <<1, 1, 1, 1, 2, 2, 3, 3, 4, 6, 7, 8, 9, 10, 11, 12, 13, 14, 15, 16>>
ML_bits == Zeros(32) \o <<1, 1, 1, 1, 2, 2, 3, 3, 4, 4, 5, 7, 8, 9, 10, 11, 12, 13, 14, 15, 16>>

LL_defaultNorm ==
    <<4, 3, 2, 2, 2, 2, 2, 2, 2, 2, 2, 2, 2, 1, 1, 1, 2, 2, 2, 2, 2, 2, 2, 2, 2, 3, 2, 1, 1, 1,
      1, 1, -1, -1, -1, -1>>
ML_defaultNorm ==
    <<1, 4, 3, 2, 2, 2, 2, 2, 2>> \o [i \in 1 .. 37 |-> 1] \o [i \in 1 .. 7 |-> -1]
OF_defaultNorm ==
    <<1, 1, 1, 1, 1, 1, 2, 2, 2>> \o [i \in 1 .. 15 |-> 1] \o [i \in 1 .. 5 |-> -1]

\* For each stream: its default distribution, and the log of its default table.
DefaultNorm == [ll |-> LL_defaultNorm, ml |-> ML_defaultNorm, of |-> OF_defaultNorm]
DefaultLog  == [ll |-> 6, ml |-> 6, of |-> 5]
\* LLFSELog, MLFSELog, OffFSELog
MaxLog      == [ll |-> 9, ml |-> 9, of |-> 8]
LastSymbol  == [ll |-> MaxLL, ml |-> MaxML, of |-> 31]

(***************************************************************************)
(* Codes of lengths and offsets, of the encoder.                           *)
(***************************************************************************)
\* The tables LL_Code and ML_Code of ZSTD_LLcode and ZSTD_MLcode, by their steps.
LLcode(litLength) ==
    IF litLength > 63 THEN HighBit(litLength) + 19
    ELSE IF litLength < 16 THEN litLength
    ELSE IF litLength < 24 THEN 16 + (litLength - 16) \div 2
    ELSE IF litLength < 32 THEN 20 + (litLength - 24) \div 4
    ELSE IF litLength < 48 THEN 22 + (litLength - 32) \div 8
    ELSE 24

\* Broken on purpose: the table lasts for one length more.
MLcodeOffByOne(mlBase) ==
    IF mlBase > 128 THEN HighBit(mlBase) + 36
    ELSE IF mlBase < 32 THEN mlBase
    ELSE IF mlBase < 40 THEN 32 + (mlBase - 32) \div 2
    ELSE IF mlBase < 48 THEN 36 + (mlBase - 40) \div 4
    ELSE IF mlBase < 64 THEN 38 + (mlBase - 48) \div 8
    ELSE IF mlBase < 96 THEN 40 + (mlBase - 64) \div 16
    ELSE 42

MLcode(mlBase) ==
    IF mlBase > 127 THEN HighBit(mlBase) + 36
    ELSE IF mlBase < 32 THEN mlBase
    ELSE IF mlBase < 40 THEN 32 + (mlBase - 32) \div 2
    ELSE IF mlBase < 48 THEN 36 + (mlBase - 40) \div 4
    ELSE IF mlBase < 64 THEN 38 + (mlBase - 48) \div 8
    ELSE IF mlBase < 96 THEN 40 + (mlBase - 64) \div 16
    ELSE 42

\* A sequence is stored with 16 bits for each length; of one length in a block the store
\* remembers that it is longer than that.
SeqStored(s) == [s EXCEPT !.ll = @ % 2 ^ 16, !.ml = (@ - 3) % 2 ^ 16]

\* ZSTD_seqToCodes
SeqToCodes(s) ==
    [ll |-> IF s.ll >= 2 ^ 16 THEN MaxLL ELSE LLcode(s.ll),
     ml |-> IF s.ml - 3 >= 2 ^ 16 THEN MaxML ELSE MLcode(s.ml - 3),
     of |-> HighBit(s.of)]

(***************************************************************************)
(* Base values and tables, of the decoder.                                 *)
(***************************************************************************)
LL_base == [i \in 1 .. 16 |-> i - 1] \o <<16, 18, 20, 22, 24, 28, 32, 40, 48>> \o [i \in 1 .. 11 |-> 2 ^ (i + 5)]
ML_base ==
    [i \in 1 .. 32 |-> i + 2] \o <<35, 37, 39, 41, 43, 47, 51, 59, 67, 83, 99>>
    \o [i \in 1 .. 10 |-> 2 ^ (i + 6) + 3]
\* OF_base; the 31st is not reached with windows of less than 2^30.
OF_base == <<0, 1>> \o [i \in 1 .. 29 |-> 2 ^ (i + 1) - 3]

BaseOf(stream, code) == CASE stream = "ll" -> LL_base[code + 1]
                        [] stream = "ml" -> ML_base[code + 1]
                        [] stream = "of" -> OF_base[code + 1]
ExtraOf(stream, code) == CASE stream = "ll" -> LL_bits[code + 1]
                         [] stream = "ml" -> ML_bits[code + 1]
                         [] stream = "of" -> code

SymbolCell(stream, code, next, nb) ==
    [next |-> next, extra |-> ExtraOf(stream, code), nbBits |-> nb, base |-> BaseOf(stream, code)]

\* ZSTD_buildFSETable
BuildFSETable(stream, norm, log) ==
    LET dt == BuildDTable(norm, log) IN
    [log  |-> log,
     cell |-> Tuple([u \in 1 .. 2 ^ log |->
                  SymbolCell(stream, dt.cell[u].symbol, dt.cell[u].newState, dt.cell[u].nbBits)])]

\* ZSTD_buildSeqTable_rle: a table of one state.
RleSeqTable(stream, code) == [log |-> 0, cell |-> <<SymbolCell(stream, code, 0, 0)>>]

\* The tables as they were printed out: next state, extra bits, bits, base value.
LL_defaultDTable ==
    <<<<0,0,4,0>>, <<16,0,4,0>>, <<32,0,5,1>>, <<0,0,5,3>>, <<0,0,5,4>>, <<0,0,5,6>>,
      <<0,0,5,7>>, <<0,0,5,9>>, <<0,0,5,10>>, <<0,0,5,12>>, <<0,0,6,14>>, <<0,1,5,16>>,
      <<0,1,5,20>>, <<0,1,5,22>>, <<0,2,5,28>>, <<0,3,5,32>>, <<0,4,5,48>>, <<32,6,5,64>>,
      <<0,7,5,128>>, <<0,8,6,256>>, <<0,10,6,1024>>, <<0,12,6,4096>>, <<32,0,4,0>>,
      <<0,0,4,1>>, <<0,0,5,2>>, <<32,0,5,4>>, <<0,0,5,5>>, <<32,0,5,7>>, <<0,0,5,8>>,
      <<32,0,5,10>>, <<0,0,5,11>>, <<0,0,6,13>>, <<32,1,5,16>>, <<0,1,5,18>>, <<32,1,5,22>>,
      <<0,2,5,24>>, <<32,3,5,32>>, <<0,3,5,40>>, <<0,6,4,64>>, <<16,6,4,64>>, <<32,7,5,128>>,
      <<0,9,6,512>>, <<0,11,6,2048>>, <<48,0,4,0>>, <<16,0,4,1>>, <<32,0,5,2>>, <<32,0,5,3>>,
      <<32,0,5,5>>, <<32,0,5,6>>, <<32,0,5,8>>, <<32,0,5,9>>, <<32,0,5,11>>, <<32,0,5,12>>,
      <<0,0,6,15>>, <<32,1,5,18>>, <<32,1,5,20>>, <<32,2,5,24>>, <<32,2,5,28>>, <<32,3,5,40>>,
      <<32,4,5,48>>, <<0,16,6,65536>>, <<0,15,6,32768>>, <<0,14,6,16384>>, <<0,13,6,8192>>>>

OF_defaultDTable ==
    <<<<0,0,5,0>>, <<0,6,4,61>>, <<0,9,5,509>>, <<0,15,5,32765>>, <<0,21,5,2097149>>,
      <<0,3,5,5>>, <<0,7,4,125>>, <<0,12,5,4093>>, <<0,18,5,262141>>, <<0,23,5,8388605>>,
      <<0,5,5,29>>, <<0,8,4,253>>, <<0,14,5,16381>>, <<0,20,5,1048573>>, <<0,2,5,1>>,
      <<16,7,4,125>>, <<0,11,5,2045>>, <<0,17,5,131069>>, <<0,22,5,4194301>>, <<0,4,5,13>>,
      <<16,8,4,253>>, <<0,13,5,8189>>, <<0,19,5,524285>>, <<0,1,5,1>>, <<16,6,4,61>>,
      <<0,10,5,1021>>, <<0,16,5,65533>>, <<0,28,5,268435453>>, <<0,27,5,134217725>>,
      <<0,26,5,67108861>>, <<0,25,5,33554429>>, <<0,24,5,16777213>>>>

ML_defaultDTable ==
    <<<<0,0,6,3>>, <<0,0,4,4>>, <<32,0,5,5>>, <<0,0,5,6>>, <<0,0,5,8>>, <<0,0,5,9>>,
      <<0,0,5,11>>, <<0,0,6,13>>, <<0,0,6,16>>, <<0,0,6,19>>, <<0,0,6,22>>, <<0,0,6,25>>,
      <<0,0,6,28>>, <<0,0,6,31>>, <<0,0,6,34>>, <<0,1,6,37>>, <<0,1,6,41>>, <<0,2,6,47>>,
      <<0,3,6,59>>, <<0,4,6,83>>, <<0,7,6,131>>, <<0,9,6,515>>, <<16,0,4,4>>, <<0,0,4,5>>,
      <<32,0,5,6>>, <<0,0,5,7>>, <<32,0,5,9>>, <<0,0,5,10>>, <<0,0,6,12>>, <<0,0,6,15>>,
      <<0,0,6,18>>, <<0,0,6,21>>, <<0,0,6,24>>, <<0,0,6,27>>, <<0,0,6,30>>, <<0,0,6,33>>,
      <<0,1,6,35>>, <<0,1,6,39>>, <<0,2,6,43>>, <<0,3,6,51>>, <<0,4,6,67>>, <<0,5,6,99>>,
      <<0,8,6,259>>, <<32,0,4,4>>, <<48,0,4,4>>, <<16,0,4,5>>, <<32,0,5,7>>, <<32,0,5,8>>,
      <<32,0,5,10>>, <<32,0,5,11>>, <<0,0,6,14>>, <<0,0,6,17>>, <<0,0,6,20>>, <<0,0,6,23>>,
      <<0,0,6,26>>, <<0,0,6,29>>, <<0,0,6,32>>, <<0,16,6,65539>>, <<0,15,6,32771>>,
      <<0,14,6,16387>>, <<0,13,6,8195>>, <<0,12,6,4099>>, <<0,11,6,2051>>, <<0,10,6,1027>>>>

DefaultTableOf(stream) ==
    LET rows == CASE stream = "ll" -> LL_defaultDTable [] stream = "ml" -> ML_defaultDTable
                  [] stream = "of" -> OF_defaultDTable
    IN  [log  |-> DefaultLog[stream],
         cell |-> Tuple([u \in DOMAIN rows |->
                      [next |-> rows[u][1], extra |-> rows[u][2], nbBits |-> rows[u][3], base |-> rows[u][4]]])]

(***************************************************************************)
(* The tables a block comes with.  The encoder keeps a table for each      *)
(* stream and whether it may be repeated: "none" or "check", as there is   *)
(* no dictionary here.                                                     *)
(***************************************************************************)
\* A norm is kept as a sequence, and that of a table of one symbol as the symbol.
NormOf(seq)  == Held([s \in 0 .. Len(seq) - 1 |-> seq[s + 1]])
Listed(norm) == Tuple([i \in 1 .. Max(DOMAIN norm) + 1 |-> norm[i - 1]])

\* HIST_countFast of the codes of a stream.
Histogram(codes) ==
    Held([s \in 0 .. Max(ToSet(codes)) |-> Cardinality({i \in DOMAIN codes : codes[i] = s})])
MostFrequent(count) == Max({count[s] : s \in DOMAIN count})

\* FSE_buildCTable_rle
RleCTable(code) ==
    [log |-> 0, state |-> <<0>>, deltaNbBits |-> [s \in {code} |-> 0], deltaFindState |-> [s \in {code} |-> 0]]
DefaultCTable == Held([k \in Streams |-> BuildCTable(NormOf(DefaultNorm[k]), DefaultLog[k])])

CTableOf(stream, t) ==
    CASE t.type = "rle"   -> RleCTable(t.norm[1])
      [] t.type = "basic" -> DefaultCTable[stream]
      [] t.type = "compressed" -> BuildCTable(NormOf(t.norm), t.log)
SeqDTableOf(stream, t) ==
    CASE t.type = "rle"   -> RleSeqTable(stream, t.norm[1])
      [] t.type = "basic" -> DefaultTableOf(stream)
      [] t.type = "compressed" -> BuildFSETable(stream, NormOf(t.norm), t.log)

\* ZSTD_fseBitCost has a price for all of the codes: the table has them.
CanCode(ct, codes) ==
    \A c \in ToSet(codes) : c \in DOMAIN ct.deltaNbBits /\ ct.deltaNbBits[c] < (ct.log + 1) * 2 ^ 16 - 2 ^ ct.log

\* ZSTD_selectEncodingType: the strategies below lazy (4) go by rules of thumb, the
\* others by what a choice would cost, of which only what is possible matters here.
SelectTypes(stream, strategy, old, codes) ==
    LET most    == MostFrequent(Histogram(codes))
        allowed == stream = "of" => Max(ToSet(codes)) <= DefaultMaxOff
        log     == DefaultLog[stream]
        few(n)  == n < (2 ^ log * (10 - strategy)) \div 8 \/ most < n \div 2 ^ (log - 1)
    IN  IF most = Len(codes) THEN {IF allowed /\ Len(codes) <= 2 THEN "basic" ELSE "rle"}
        ELSE IF strategy < 4 THEN {IF allowed /\ few(Len(codes)) THEN "basic" ELSE "compressed"}
        ELSE {"compressed"} \cup (IF allowed THEN {"basic"} ELSE {})
             \cup (IF old.mode = "check" /\ CanCode(CTableOf(stream, old.table), codes) THEN {"repeat"} ELSE {})

\* ZSTD_buildCTable, "compressed".  The last code costs nothing, and does not count when
\* there are more of it.
NewDistribution(stream, codes, final) ==
    LET fewer(all) == IF all[final] > 1 THEN [all EXCEPT ![final] = @ - 1] ELSE all
        build(all, total, log) ==
            [type |-> "compressed", norm |-> Listed(NormalizeCount(log, all, total, total >= 2048)), log |-> log]
        from(all) == build(fewer(all), Len(codes) - (IF all[final] > 1 THEN 1 ELSE 0),
                           OptimalTableLog(MaxLog[stream], Len(codes), Max(DOMAIN all)))
    IN  from(Histogram(codes))

RleDistribution(code) == [type |-> "rle", norm |-> <<code>>, log |-> 0]
BasicDistribution(stream) ==
    [type |-> "basic", norm |-> Tuple(DefaultNorm[stream]), log |-> DefaultLog[stream]]

\* ZSTD_buildCTable: what the encoder has then, and what is written of it.
BuildSeqCTable(stream, type, old, codes) ==
    LET compressed(new) == [next |-> [table |-> new, mode |-> "check"],
                            bits |-> WriteNCount(NormOf(new.norm), new.log).bits]
    IN CASE type = "rle"    -> [next |-> [table |-> RleDistribution(codes[1]), mode |-> "none"], bits |-> Bits(codes[1], 8)]
         [] type = "basic"  -> [next |-> [table |-> BasicDistribution(stream), mode |-> "none"], bits |-> <<>>]
         [] type = "repeat" -> [next |-> old, bits |-> <<>>]
         [] type = "compressed" -> compressed(NewDistribution(stream, codes, Last(codes)))

\* ZSTD_buildSeqTable: the decoder's, and how many bits it took.
BuildSeqTable(stream, type, bits, old) ==
    LET compressed(n) == [table |-> [type |-> "compressed", norm |-> Listed(n.norm), log |-> n.log], size |-> n.size] IN
    CASE type = "rle"    -> [table |-> RleDistribution(ReadForward(bits, 0, 8)), size |-> 8]
      [] type = "basic"  -> [table |-> BasicDistribution(stream), size |-> 0]
      [] type = "repeat" -> [table |-> old, size |-> 0]
      [] type = "compressed" -> compressed(ReadNCount(bits, LastSymbol[stream] + 1))

(***************************************************************************)
(* The stream.                                                             *)
(***************************************************************************)
ExtraBits(s, code) ==
    Bits(SeqStored(s).ll, ExtraOf("ll", code.ll)) \o Bits(SeqStored(s).ml, ExtraOf("ml", code.ml)) \o Bits(s.of, code.of)

\* ZSTD_encodeSequences_body, from the last sequence to the first.
EncodeSequences(ct, seqs) ==
    LET n     == Len(seqs)
        codes == Tuple([i \in 1 .. n |-> SeqToCodes(seqs[i])])
        first == [k \in Streams |-> InitCState(ct[k], codes[n][k])]
        step(acc, back) ==
            LET i  == n - back
                of == EncodeSymbol(ct.of, acc.state.of, codes[i].of)
                ml == EncodeSymbol(ct.ml, acc.state.ml, codes[i].ml)
                ll == EncodeSymbol(ct.ll, acc.state.ll, codes[i].ll)
            IN  [bits  |-> acc.bits \o of.bits \o ml.bits \o ll.bits \o ExtraBits(seqs[i], codes[i]),
                 state |-> [ll |-> ll.value, ml |-> ml.value, of |-> of.value]]
        end   == Along(step, [bits |-> ExtraBits(seqs[n], codes[n]), state |-> first], [b \in 1 .. n - 1 |-> b])
    IN  Close(end.bits \o FlushCState(ct.ml, end.state.ml) \o FlushCState(ct.of, end.state.of)
                       \o FlushCState(ct.ll, end.state.ll))

\* ZSTD_decodeSequence with a stream at d.pos; an offset is one of the last ones, or new.
DecodeOne(dt, bits, d, isLast) ==
    LET ll == dt.ll.cell[d.ll + 1]
        ml == dt.ml.cell[d.ml + 1]
        of == dt.of.cell[d.of + 1]
        p1 == d.pos - of.extra
        p2 == p1 - ml.extra
        p3 == p2 - ll.extra
        p4 == p3 - ll.nbBits
        p5 == p4 - ml.nbBits
        raw == of.base + ReadBack(bits, d.pos, of.extra)
    IN  [seq |-> [ll     |-> ll.base + ReadBack(bits, p2, ll.extra),
                  ml     |-> ml.base + ReadBack(bits, p1, ml.extra),
                  repeat |-> of.extra <= 1,
                  offset |-> raw],
         next |-> IF isLast THEN [d EXCEPT !.pos = p3]
                  ELSE [ll  |-> ll.next + ReadBack(bits, p3, ll.nbBits),
                        ml  |-> ml.next + ReadBack(bits, p4, ml.nbBits),
                        of  |-> of.next + ReadBack(bits, p5, of.nbBits),
                        pos |-> p5 - of.nbBits]]

\* ZSTD_decompressSequences_body: n sequences, and what is left of the stream (nothing).
DecodeStream(dt, bits, n) ==
    LET pos   == StartOf(bits)
        start == [ll  |-> ReadBack(bits, pos, dt.ll.log),
                  of  |-> ReadBack(bits, pos - dt.ll.log, dt.of.log),
                  ml  |-> ReadBack(bits, pos - dt.ll.log - dt.of.log, dt.ml.log),
                  pos |-> pos - dt.ll.log - dt.of.log - dt.ml.log]
        step(acc, i) ==
            LET got == DecodeOne(dt, bits, acc.d, i = n) IN
            [d |-> got.next, seqs |-> Append(acc.seqs, got.seq)]
        end   == Along(step, [d |-> start, seqs |-> <<>>], [i \in 1 .. n |-> i])
    IN  [seqs |-> end.seqs, left |-> end.d.pos]

\* What a sequence says: an offset, or which of the last ones.
Said(s) == [ll |-> s.ll, ml |-> s.ml, repeat |-> s.of <= 3,
            offset |-> IF s.of <= 3 THEN s.of - 1 ELSE s.of - 3]

(***************************************************************************)
(* The section.                                                            *)
(***************************************************************************)
LONGNBSEQ == 32512     \* 0x7F00

\* ZSTD_entropyCompressSeqStore_internal: the number of sequences, in bytes.
WriteNbSeq(n) ==
    IF n < 128 THEN <<n>>
    ELSE IF n < LONGNBSEQ THEN <<n \div 256 + 128, n % 256>>
    ELSE <<255, (n - LONGNBSEQ) % 256, (n - LONGNBSEQ) \div 256>>

\* ZSTD_decodeSeqHeaders: the number, and in how many bytes it was.
ReadNbSeq(b) ==
    IF b[1] <= 127 THEN [n |-> b[1], size |-> 1]
    ELSE IF b[1] = 255 THEN [n |-> b[2] + 256 * b[3] + LONGNBSEQ, size |-> 3]
    ELSE [n |-> (b[1] - 128) * 256 + b[2], size |-> 2]

SymbolTypes == [basic |-> 0, rle |-> 1, compressed |-> 2, repeat |-> 3]
TypeNamed(value) == CHOOSE t \in DOMAIN SymbolTypes : SymbolTypes[t] = value

SeqCodes(seqs, stream) == Tuple([i \in DOMAIN seqs |-> SeqToCodes(seqs[i])[stream]])
CTablesOf(built) == Held([k \in Streams |-> CTableOf(k, built[k].next.table)])

\* Bits of the table that was written last; all of them are there or none.
NewestSize(types, built) ==
    IF types.ml = "compressed" THEN Len(built.ml.bits)
    ELSE IF types.of = "compressed" THEN Len(built.of.bits)
    ELSE IF types.ll = "compressed" THEN Len(built.ll.bits) ELSE 0

\* ZSTD_entropyCompressSeqStore_internal: the number, the types, the tables, the stream.
\* From the reading of 1.3.4 on, a block is not compressed whose last new table and stream
\* are less than 4 bytes.
SectionOf(number, types, built, stream, newest) ==
    [bits |-> Concat([i \in DOMAIN number |-> Bits(number[i], 8)])
                \o Bits(0, 2) \o Bits(SymbolTypes[types.ml], 2) \o Bits(SymbolTypes[types.of], 2)
                \o Bits(SymbolTypes[types.ll], 2)
                \o built.ll.bits \o built.of.bits \o built.ml.bits \o stream,
     kept |-> newest = 0 \/ newest + Len(stream) >= 32,
     next |-> [ll |-> built.ll.next, of |-> built.of.next, ml |-> built.ml.next]]

\* ZSTD_buildSequencesStatistics and ZSTD_encodeSequences, with a choice of types.
EncodeSection(seqs, prev, types) ==
    LET finish(built) == SectionOf(WriteNbSeq(Len(seqs)), types, built, EncodeSequences(CTablesOf(built), seqs),
                                   NewestSize(types, built))
    IN  finish(Held([k \in Streams |-> BuildSeqCTable(k, types[k], prev[k], SeqCodes(seqs, k))]))

From(bits, pos) == SubSeq(bits, pos + 1, Len(bits))

\* ZSTD_decompressSequences with the tables that were read, and the bits behind them.
DecodeWith(new, bits, number) ==
    [got |-> DecodeStream(Held([k \in Streams |-> SeqDTableOf(k, new[k])]), bits, number), dec |-> new]

\* ZSTD_decodeSeqHeaders: one table after the other.
ReadML(bits, type, ll, of, dec, number) ==
    LET end(ml) == DecodeWith([ll |-> ll, of |-> of, ml |-> ml.table], From(bits, ml.size), number) IN
    end(BuildSeqTable("ml", type, bits, dec.ml))
ReadOF(bits, types, ll, dec, number) ==
    LET rest(of) == ReadML(From(bits, of.size), types.ml, ll, of.table, dec, number) IN
    rest(BuildSeqTable("of", types.of, bits, dec.of))
ReadLL(bits, types, dec, number) ==
    LET rest(ll) == ReadOF(From(bits, ll.size), types, ll.table, dec, number) IN
    rest(BuildSeqTable("ll", types.ll, bits, dec.ll))

TypesIn(bits, pos) ==
    [ll |-> TypeNamed(ReadForward(bits, pos + 6, 2)), of |-> TypeNamed(ReadForward(bits, pos + 4, 2)),
     ml |-> TypeNamed(ReadForward(bits, pos + 2, 2))]

\* ZSTD_decodeSeqHeaders and the sequences behind them.
DecodeSection(bits, dec) ==
    LET read(number) == ReadLL(From(bits, 8 * number.size + 8), TypesIn(bits, 8 * number.size), dec, number.n) IN
    read(ReadNbSeq([i \in 1 .. 3 |-> ReadForward(bits, 8 * (i - 1), 8)]))

(***************************************************************************)
(* A frame.                                                                *)
(***************************************************************************)
NoTables == [k \in Streams |-> Nothing]
FreshTables == [k \in Streams |-> [table |-> Nothing, mode |-> "none"]]

SeqInit ==
    /\ sqprev = FreshTables
    /\ sqdec = NoTables
    /\ sqframe \in [strategy : SeqStrategies, sections : {0}]
    /\ sqsent = <<>>
    /\ sqread = <<>>

\* A block is written; when it is not kept, neither are its tables.
KeepSection(seqs, section) ==
    IF section.kept
    THEN /\ sqsent' = <<[bits |-> section.bits, meant |-> seqs]>>
         /\ sqprev' = section.next
    ELSE UNCHANGED <<sqsent, sqprev>>

TypesFor(seqs, stream) == SelectTypes(stream, sqframe.strategy, sqprev[stream], SeqCodes(seqs, stream))

SendSequences ==
    /\ sqsent = <<>> /\ sqframe.sections < SeqSectionsMax
    /\ \E seqs \in SeqLists :
       \E types \in [ll : TypesFor(seqs, "ll"), of : TypesFor(seqs, "of"), ml : TypesFor(seqs, "ml")] :
          KeepSection(seqs, EncodeSection(seqs, sqprev, types))
    /\ sqframe' = [sqframe EXCEPT !.sections = @ + 1]
    /\ UNCHANGED <<sqdec, sqread>>

ReadSection(d) ==
    /\ sqread' = <<[meant |-> sqsent[1].meant, got |-> d.got]>>
    /\ sqdec'  = d.dec

ReadSequences ==
    /\ sqsent # <<>>
    /\ ReadSection(DecodeSection(sqsent[1].bits, sqdec))
    /\ sqsent' = <<>>
    /\ UNCHANGED <<sqprev, sqframe>>

\* The next frame begins without tables.
NextSeqFrame ==
    /\ sqsent = <<>> /\ sqframe.sections > 0
    /\ sqprev' = FreshTables
    /\ sqdec' = NoTables
    /\ sqframe' \in [strategy : SeqStrategies, sections : {0}]
    /\ sqread' = <<>>
    /\ UNCHANGED sqsent

SeqNext == SendSequences \/ ReadSequences \/ NextSeqFrame
SeqSpec == SeqInit /\ [][SeqNext]_seqVars

\* The lengths and offsets that are read are those that were written, in number and in
\* order, and all of the stream is used up: ZSTD_decodeSequence with its printed tables
\* and base values understands ZSTD_encodeSequences with its codes and norms.
SequencesArrive ==
    \A i \in DOMAIN sqread :
        sqread[i].got = [seqs |-> [n \in DOMAIN sqread[i].meant |-> Said(sqread[i].meant[n])], left |-> 0]
=============================================================================
