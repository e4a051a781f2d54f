--------------------------------- MODULE Huf ---------------------------------
(***************************************************************************)
(* Huffman codes of literals: the tree and the limit on its height, the    *)
(* header of weights, one or four streams of bits, and the two tables that *)
(* decode them, with one symbol or up to two to a cell.                    *)
(*                                                                         *)
(* Streams are sequences of bits, the lowest of a byte first.  A stream is *)
(* written from the last symbol to the first and read from its end.        *)
(***************************************************************************)
EXTENDS Fse, TLC

CONSTANTS
    TableLogMax,     \* HUF_TABLELOG_MAX
    FastTableLog     \* HUF_DECODER_FAST_TABLELOG

ASSUME HufAssumption ==
    /\ {TableLogMax, FastTableLog} \subseteq Nat
    /\ FastTableLog < TableLogMax

Times(n, x) == Tuple([i \in 1 .. n |-> x])

Bytes(bits) == Len(bits) \div 8
SubBits(bits, from, n) == SubSeq(bits, 8 * from + 1, 8 * (from + n))

\* HIST_count: how often each byte up to the largest is there.
CountsOf(src) ==
    Along(LAMBDA count, s : [count EXCEPT ![s] = @ + 1], Held([s \in 0 .. Max(ToSet(src)) |-> 0]), src)
Largest(count) == Max({count[s] : s \in DOMAIN count})

(***************************************************************************)
(* The tree.                                                               *)
(***************************************************************************)
\* HUF_sort: from the most frequent to the rarest.  Among equals the order does not
\* matter; it is that of the symbols.
Ranked(count) ==
    SortSeq([i \in 1 .. Cardinality(DOMAIN count) |-> i - 1],
            LAMBDA a, b : count[a] > count[b] \/ (count[a] = count[b] /\ a < b))

\* The rarer of the next leaf and the next node; a node when they are as rare.
TakesLeaf(t) == t.leaves # <<>> /\ (t.nodes = <<>> \/ Last(t.leaves).count < Head(t.nodes).count)
Rarest(t)    == IF TakesLeaf(t) THEN Last(t.leaves) ELSE Head(t.nodes)
WithoutRarest(t) ==
    IF TakesLeaf(t) THEN [t EXCEPT !.leaves = Front(@)] ELSE [t EXCEPT !.nodes = Tail(@)]

\* Of each leaf below a node: its place in the order and how deep it is.
Merged(a, b) ==
    [count |-> a.count + b.count, below |-> {<<leaf[1], leaf[2] + 1>> : leaf \in a.below \cup b.below}]

\* The two rarest become a node.
MergeTwo(t) ==
    LET t1 == WithoutRarest(t) IN
    [WithoutRarest(t1) EXCEPT !.nodes = Append(@, Merged(Rarest(t), Rarest(t1)))]

\* HUF_buildTree: of the symbols that are there, in their order, the count and the
\* number of bits.
BuildTree(count) ==
    LET order == SelectSeq(Ranked(count), LAMBDA s : count[s] > 0)
        leaf(i) == [count |-> count[order[i]], below |-> {<<i, 0>>}]
        root  == Rarest(Along(LAMBDA t, i : MergeTwo(t),
                              [leaves |-> Tuple([i \in DOMAIN order |-> leaf(i)]), nodes |-> <<>>], Tail(order)))
        depth(i) == (CHOOSE p \in root.below : p[1] = i)[2]
    IN  Tuple([i \in DOMAIN order |-> [byte |-> order[i], count |-> count[order[i]], nbBits |-> depth(i)]])

NoSymbol == 0

\* Of each rank below the target, the position of its last node; NoSymbol for none.
RankLast(nodes, target) ==
    [r \in 0 .. TableLogMax + 1 |->
        LET of == {p \in DOMAIN nodes : nodes[p].nbBits = target - r} IN
        IF r = 0 \/ of = {} THEN NoSymbol ELSE Max(of)]

\* Which rank gives up a node to repay cost.
RankToLower(h) ==
    LET start == HighBit(h.cost) + 1
        stops(r) == /\ h.rankLast[r] # NoSymbol
                    /\ \/ h.rankLast[r - 1] = NoSymbol
                       \/ h.nodes[h.rankLast[r]].count <= 2 * h.nodes[h.rankLast[r - 1]].count
        from  == Max({1} \cup {r \in 2 .. start : stops(r)})
    IN  Min({r \in from .. TableLogMax + 1 : r = TableLogMax + 1 \/ h.rankLast[r] # NoSymbol})

RECURSIVE Repay(_, _)
Repay(h, target) ==
    LET r    == RankToLower(h)
        pos  == h.rankLast[r]
        kept == pos # 1 /\ h.nodes[pos - 1].nbBits = target - r
    IN  IF h.cost <= 0 THEN h
        ELSE Repay([h EXCEPT
                !.cost = @ - 2 ^ (r - 1),
                !.nodes[pos].nbBits = @ + 1,
                !.rankLast[r - 1] = IF @ = NoSymbol THEN pos ELSE @,
                !.rankLast[r] = IF kept THEN pos - 1 ELSE NoSymbol], target)

RECURSIVE GiveBack(_, _)
\* What was repaid too much goes to the first nodes of the target's own rank.
GiveBack(h, target) ==
    LET full == Min({p \in DOMAIN h.nodes : \A q \in p .. Len(h.nodes) : h.nodes[q].nbBits = target})
        pos  == IF h.rankLast[1] = NoSymbol THEN full ELSE h.rankLast[1] + 1
    IN  IF h.cost >= 0 THEN h
        ELSE GiveBack([h EXCEPT !.cost = @ + 1, !.nodes[pos].nbBits = @ - 1, !.rankLast[1] = pos], target)

\* HUF_setMaxHeight: nodes that are too deep are raised to the target, and others
\* lowered to pay for it.
SetMaxHeight(nodes, target) ==
    LET largest == Last(nodes).nbBits
        tooDeep == {p \in DOMAIN nodes : nodes[p].nbBits > target}
        owed(p) == 2 ^ (largest - target) - 2 ^ (largest - nodes[p].nbBits)
        raised  == Tuple([p \in DOMAIN nodes |-> IF p \in tooDeep THEN [nodes[p] EXCEPT !.nbBits = target] ELSE nodes[p]])
        start   == [nodes    |-> raised,
                    cost     |-> SumOver(owed, tooDeep) \div 2 ^ (largest - target),
                    rankLast |-> RankLast(raised, target)]
    IN  IF tooDeep = {} THEN nodes ELSE GiveBack(Repay(start, target), target).nodes

(***************************************************************************)
(* Tables of codes.                                                        *)
(***************************************************************************)
\* Codes from their lengths: in a rank they follow the order of symbols, and the ranks
\* each other from the deepest.
CodesOf(nbBits, log) ==
    LET perRank(n) == Cardinality({i \in DOMAIN nbBits : nbBits[i] = n})
        start[n \in 1 .. log] == IF n = log THEN 0 ELSE (start[n + 1] + perRank(n + 1)) \div 2
        step(acc, nb) ==
            IF nb = 0 THEN [acc EXCEPT !.code = Append(@, [nbBits |-> 0, value |-> 0])]
            ELSE [next |-> [acc.next EXCEPT ![nb] = @ + 1],
                  code |-> Append(acc.code, [nbBits |-> nb, value |-> acc.next[nb]])]
    IN  [log  |-> log,
         code |-> Along(step, [next |-> Tuple([n \in 1 .. log |-> start[n]]), code |-> <<>>], nbBits).code]

CodeOf(ct, s) == ct.code[s + 1]

\* HUF_buildCTable_wksp
BuildHufTable(count, maxNbBits) ==
    LET nodes == SetMaxHeight(BuildTree(count), maxNbBits)
        log   == Last(nodes).nbBits
        bits(s) == IF count[s] = 0 THEN 0 ELSE nodes[CHOOSE p \in DOMAIN nodes : nodes[p].byte = s].nbBits
    IN  CodesOf(Tuple([i \in 1 .. Cardinality(DOMAIN count) |-> bits(i - 1)]), log)

\* HUF_estimateCompressedSize, HUF_validateCTable
EstimateSize(ct, count) ==
    SumOver(LAMBDA s : (IF s < Len(ct.code) THEN CodeOf(ct, s).nbBits ELSE 0) * count[s], DOMAIN count) \div 8
ValidTable(ct, count) ==
    \A s \in DOMAIN count : count[s] > 0 => s < Len(ct.code) /\ CodeOf(ct, s).nbBits > 0

(***************************************************************************)
(* The header.                                                             *)
(***************************************************************************)
\* HUF_compressWeights: nothing when they are too different, too few, or all the same.
CompressWeights(weights) ==
    LET header(norm, log) == WriteNCount(norm, log).bits
        with(norm, log) ==
            LET coded == CompressUsingCTable(BuildCTable(norm, log), weights) IN
            IF coded = <<>> THEN <<>> ELSE header(norm, log) \o coded
        code(count, log) ==
            IF Largest(count) \in {1, Len(weights)} THEN <<>>
            ELSE with(NormalizeCount(log, count, Len(weights), FALSE), log)
    IN  IF Len(weights) <= 1 THEN <<>>
        ELSE code(CountsOf(weights), OptimalTableLog(6, Len(weights), Max(ToSet(weights))))

\* HUF_writeCTable_wksp; the last symbol's weight is not written.
WriteHufTable(ct) ==
    LET max      == Len(ct.code) - 1
        weightsOf == [i \in 1 .. max |-> IF ct.code[i].nbBits = 0 THEN 0 ELSE ct.log + 1 - ct.code[i].nbBits]
        nibbles(weights) == [i \in 1 .. (max + 1) \div 2 |->
                       Bits(IF 2 * i <= max THEN weights[2 * i] ELSE 0, 4) \o Bits(weights[2 * i - 1], 4)]
        choose(weights, coded) ==
            IF coded # <<>> /\ Bytes(coded) < max \div 2 THEN [bits |-> Bits(Bytes(coded), 8) \o coded]
            ELSE IF max > 128 THEN FseError
            ELSE [bits |-> Bits(127 + max, 8) \o Concat(nibbles(weights))]
        write(weights) == choose(weights, CompressWeights(weights))
    IN  write(Tuple(weightsOf))

\* The weights that were written, raw or compressed.
RawWeights(n, head) ==
    Tuple([i \in 1 .. n |-> ReadForward(head, 8 * ((i - 1) \div 2) + (IF i % 2 = 1 THEN 4 ELSE 0), 4)])
CodedWeights(ncount, head) ==
    IF ncount = FseError THEN <<>>
    ELSE DecompressUsingDTable(BuildDTable(ncount.norm, ncount.log), SubSeq(head, ncount.size + 1, Len(head)), 255)

\* The last weight makes the sum a power of two; there must be two of the smallest.
CompleteWeights(some, total, size) ==
    LET log    == HighBit(total) + 1
        all(rest) == Append(some, HighBit(rest) + 1)
        stats(rest, weights) ==
            LET ones == Cardinality({i \in DOMAIN weights : weights[i] = 1}) IN
            IF 2 ^ HighBit(rest) # rest \/ ones < 2 \/ ones % 2 = 1 THEN FseError
            ELSE [weight |-> weights, log |-> log, size |-> size]
        complete(rest) == stats(rest, all(rest))
    IN  IF total = 0 \/ log > TableLogMax THEN FseError ELSE complete(2 ^ log - total)

\* HUF_readStats: the table's log and all of the weights.
ReadStats(bits) ==
    LET complete(some, size) ==
            IF \E i \in DOMAIN some : some[i] > TableLogMax THEN FseError
            ELSE CompleteWeights(some, SumOver(LAMBDA i : 2 ^ some[i] \div 2, DOMAIN some), size)
        coded(head) == CodedWeights(ReadNCount(head, 256), head)
        read(size) ==
            IF size >= 128
            THEN complete(RawWeights(size - 127, SubBits(bits, 1, (size - 126) \div 2)), (size - 126) \div 2 + 1)
            ELSE complete(coded(SubBits(bits, 1, size)), size + 1)
    IN  read(ReadForward(bits, 0, 8))

\* HUF_readCTable, which reads the table of a dictionary for the encoder.
ReadHufTable(stats) ==
    CodesOf(Tuple([i \in DOMAIN stats.weight |->
                IF stats.weight[i] = 0 THEN 0 ELSE stats.log + 1 - stats.weight[i]]), stats.log)

(***************************************************************************)
(* Streams.                                                                *)
(***************************************************************************)
\* HUF_compress1X_usingCTable
Compress1X(ct, src) ==
    Close(Concat([i \in DOMAIN src |->
        LET c == CodeOf(ct, src[Len(src) + 1 - i]) IN Bits(c.value, c.nbBits)]))

SegmentSize(n) == (n + 3) \div 4
SegmentEnds(n) == [k \in 0 .. 4 |-> Min({n, k * SegmentSize(n)})]

\* HUF_compress4X_usingCTable: three sizes, four streams.  Nothing for short sources.
Compress4X(ct, src) ==
    LET ends == SegmentEnds(Len(src))
        part == [k \in 1 .. 4 |-> Compress1X(ct, SubSeq(src, ends[k - 1] + 1, ends[k]))]
    IN  IF Len(src) < 12 \/ \E k \in 1 .. 4 : Bytes(part[k]) > 65535 THEN <<>>
        ELSE Bits(Bytes(part[1]), 16) \o Bits(Bytes(part[2]), 16) \o Bits(Bytes(part[3]), 16) \o Concat(part)

\* HUF_compressCTable_internal, behind a header of so many bytes.
CompressWithTable(ct, src, single, header) ==
    LET coded == IF single THEN Compress1X(ct, src) ELSE Compress4X(ct, src) IN
    IF coded = <<>> \/ Bytes(header) + Bytes(coded) >= Len(src) - 1 THEN <<>> ELSE header \o coded

(***************************************************************************)
(* Tables of cells.  A cell is named by the next bits, the first of them   *)
(* the highest.                                                            *)
(***************************************************************************)
\* The symbols of each weight, in their order.
SymbolsByWeight(stats) ==
    Tuple([w \in 1 .. stats.log |->
              SelectSeq(Tuple([i \in DOMAIN stats.weight |-> i - 1]), LAMBDA s : stats.weight[s + 1] = w)])

\* HUF_rescaleStats
Rescaled(stats) ==
    IF stats.log > FastTableLog THEN stats
    ELSE [stats EXCEPT !.log = FastTableLog,
                       !.weight = Tuple([i \in DOMAIN @ |-> IF @[i] = 0 THEN 0 ELSE @[i] + FastTableLog - stats.log])]


\* HUF_readDTableX1: from the lightest symbols on, each with as many cells as it weighs.
SingleCells(by, log) ==
    LET cells(w) == Concat([i \in DOMAIN by[w] |->
                        Times(2 ^ (w - 1), [symbols |-> <<by[w][i]>>, nbBits |-> log + 1 - w])])
    IN  Concat([w \in 1 .. log |-> cells(w)])
DTableX1(read) ==
    LET stats == Rescaled(read) IN
    [log |-> stats.log, double |-> FALSE, cell |-> SingleCells(SymbolsByWeight(stats), stats.log)]

\* The table of two symbols to a cell is built from x: by, the symbols of each weight;
\* log, of the code; target, of the table; maxW, the largest weight.
NbBits(x, w) == x.log + 1 - w

\* Where the cells of a weight begin in a table for what is left after some bits.
RankVal(x, w, consumed) ==
    SumOver(LAMBDA v : Len(x.by[v]) * 2 ^ (v - 1 + x.target - x.log), 1 .. w - 1) \div 2 ^ consumed

\* HUF_fillDTableX2Level2: a symbol and what can follow it; where the second symbol
\* would not fit, the first stands alone.
SecondLevel(x, consumed, first) ==
    LET minWeight == Max({1, consumed + x.log + 1 - x.target})
        alone    == IF minWeight > 1 THEN RankVal(x, minWeight, consumed) ELSE 0
        total(w) == NbBits(x, w) + consumed
        pairs(w) == Concat([i \in DOMAIN x.by[w] |->
                        Times(2 ^ (x.target - total(w)), [symbols |-> <<first, x.by[w][i]>>, nbBits |-> total(w)])])
    IN  Times(alone, [symbols |-> <<first>>, nbBits |-> consumed])
            \o Concat([v \in 1 .. x.maxW + 1 - minWeight |-> pairs(v + minWeight - 1)])

\* HUF_fillDTableX2
DoubleCells(x) ==
    LET nb(w) == NbBits(x, w)
        cells(w) == Concat([i \in DOMAIN x.by[w] |->
                        IF x.target - nb(w) >= nb(x.maxW) THEN SecondLevel(x, nb(w), x.by[w][i])
                        ELSE Times(2 ^ (x.target - nb(w)), [symbols |-> <<x.by[w][i]>>, nbBits |-> nb(w)])])
    IN  Concat([w \in 1 .. x.maxW |-> cells(w)])

\* HUF_readDTableX2 into a table for TableLogMax bits, or FastTableLog when they do.
DTableX2(stats) ==
    LET target == IF stats.log <= FastTableLog THEN FastTableLog ELSE TableLogMax IN
    [log |-> target, double |-> TRUE,
     cell |-> DoubleCells([by |-> SymbolsByWeight(stats), log |-> stats.log, target |-> target,
                           maxW |-> Max({stats.weight[s] : s \in DOMAIN stats.weight})])]

\* HUF_selectDecoder: the table of times, by how well it was compressed.
AlgoTime ==
    <<<<0, 0, 1, 1>>, <<0, 0, 1, 1>>, <<150, 216, 381, 119>>, <<170, 205, 514, 112>>,
      <<177, 199, 539, 110>>, <<197, 194, 644, 107>>, <<221, 192, 735, 107>>, <<256, 189, 881, 106>>,
      <<359, 188, 1167, 109>>, <<582, 187, 1570, 114>>, <<688, 187, 1712, 122>>, <<825, 186, 1965, 136>>,
      <<976, 185, 2131, 150>>, <<1180, 186, 2070, 175>>, <<1377, 185, 1731, 202>>, <<1412, 185, 1695, 202>>>>
SelectsDouble(size, coded) ==
    LET t     == AlgoTime[1 + (IF coded >= size THEN 15 ELSE (coded * 16) \div size)]
        single == t[1] + t[2] * (size \div 256)
        double == t[3] + t[4] * (size \div 256)
    IN  double + double \div 32 < single

(***************************************************************************)
(* Decoding.  d.pos: where the bits end that are left; d.out: the symbols. *)
(* All bits from low on may be looked at.                                  *)
(***************************************************************************)
CellAt(dt, bits, d) == dt.cell[1 + ReadBack(bits, d.pos, dt.log)]

DecodeCell(dt, bits, d) ==
    LET c == CellAt(dt, bits, d) IN [d EXCEPT !.pos = @ - c.nbBits, !.out = @ \o c.symbols]

\* HUF_decodeLastSymbolX2: of two symbols only the first is kept, and the stream does not
\* run over.
DecodeLast(dt, bits, d, start) ==
    LET c == CellAt(dt, bits, d) IN
    [d EXCEPT !.out = Append(@, c.symbols[1]),
              !.pos = IF Len(c.symbols) = 1 THEN @ - c.nbBits ELSE Min({@, Max({start, @ - c.nbBits})})]

\* HUF_decodeStreamX1, HUF_decodeStreamX2: until there are n symbols.
DecodeStreamX(dt, bits, from, n, start) ==
    LET step(d, i) ==
            IF Len(d.out) = n THEN d
            ELSE IF dt.double /\ Len(d.out) = n - 1 THEN DecodeLast(dt, bits, d, start)
            ELSE DecodeCell(dt, bits, d)
    IN  Along(step, from, [i \in 1 .. n - Len(from.out) |-> i])

\* HUF_decompress1X1_usingDTable, HUF_decompress1X2_usingDTable
Decompress1X(dt, bits, n) ==
    LET d == DecodeStreamX(dt, bits, [pos |-> StartOf(bits), out |-> <<>>], n, 0) IN
    IF d.pos # 0 THEN FseError ELSE [out |-> d.out]

\* The sizes in front of four streams, and where each begins and ends, in bytes.
StreamEnds(bits) ==
    LET size(k) == ReadForward(bits, 16 * (k - 1), 16) IN
    [k \in 0 .. 4 |-> CASE k = 0 -> 6 [] k = 1 -> 6 + size(1) [] k = 2 -> 6 + size(1) + size(2)
                        [] k = 3 -> 6 + size(1) + size(2) + size(3) [] k = 4 -> Bytes(bits)]

\* HUF_decompress4X1_usingDTable_internal_default, and that with two symbols to a cell.
Decompress4XSlow(dt, bits, n) ==
    LET ends  == StreamEnds(bits)
        parts == SegmentEnds(n)
        got   == [k \in 1 .. 4 |-> Decompress1X(dt, SubBits(bits, ends[k - 1], ends[k] - ends[k - 1]),
                                               parts[k] - parts[k - 1])]
    IN  IF Bytes(bits) < 10 \/ n < 6 \/ \E k \in 1 .. 4 : got[k] = FseError THEN FseError
        ELSE [out |-> got[1].out \o got[2].out \o got[3].out \o got[4].out]

(***************************************************************************)
(* The fast loop holds 8 bytes of each stream, from ip on, decodes five    *)
(* cells of each, and only then looks where it is.  A stream's bits end at *)
(* pos; out is all of the output, and op where a stream writes next.  A    *)
(* cell of two symbols is written as two bytes even when it has one.       *)
(***************************************************************************)
ReadHeld(bits, ip, pos, n) ==
    LET held == Min({n, pos - 8 * ip}) IN ReadBack(bits, pos, held) * 2 ^ (n - held)

FastCell(dt, bits, f, k) ==
    LET c == dt.cell[1 + ReadHeld(bits, f.ip[k], f.pos[k], dt.log)]
        at == f.op[k] + 1
        g == [f EXCEPT !.pos[k] = @ - c.nbBits, !.op[k] = @ + Len(c.symbols), !.out[at] = c.symbols[1]]
    IN  IF dt.double THEN [g EXCEPT !.out[at + 1] = IF Len(c.symbols) = 2 THEN c.symbols[2] ELSE 0] ELSE g

\* Five cells of each stream, and the bytes that were used up make room.
FastRound(dt, bits, f) ==
    LET g == Along(LAMBDA acc, k : FastCell(dt, bits, acc, k), f, [i \in 1 .. 20 |-> 1 + (i % 4)]) IN
    [g EXCEPT !.ip = Tuple([k \in 1 .. 4 |-> @[k] - (8 * (@[k] + 8) - g.pos[k]) \div 8])]

\* Broken on purpose: a cell may be of two symbols.
SafeRoundsWide(dt, f, parts) ==
    LET room(k) == (parts[k] - f.op[k]) \div 5 IN
    Min({f.ip[1] \div 7} \cup {room(k) : k \in IF dt.double THEN 1 .. 4 ELSE {4}})

\* So many rounds are safe before looking again.
SafeRounds(dt, f, parts) ==
    LET room(k) == (parts[k] - f.op[k]) \div (IF dt.double THEN 10 ELSE 5) IN
    Min({f.ip[1] \div 7} \cup {room(k) : k \in IF dt.double THEN 1 .. 4 ELSE {4}})

RECURSIVE FastRounds(_, _, _, _)
FastRounds(dt, bits, f, olimit) ==
    LET g == FastRound(dt, bits, f) IN
    IF g.op[4] < olimit /\ \A k \in 1 .. 4 : g.ip[k] >= 0 THEN FastRounds(dt, bits, g, olimit) ELSE g

RECURSIVE FastLoop(_, _, _, _)
FastLoop(dt, bits, f, parts) ==
    LET more(rounds) ==
            IF rounds = 0 \/ \E k \in 1 .. 4 : f.ip[k] < 0 \/ (k > 1 /\ f.ip[k] < f.ip[k - 1]) THEN f
            ELSE FastLoop(dt, bits, FastRounds(dt, bits, f, f.op[4] + 5 * rounds), parts)
    IN  more(SafeRounds(dt, f, parts))

\* What the loop leaves of stream k; bits in front of the stream may be looked at.
FinishStream(dt, bits, f, k, parts) ==
    DecodeStreamX(dt, bits, [pos |-> f.pos[k], out |-> SubSeq(f.out, parts[k - 1] + 1, f.op[k])],
                  parts[k] - parts[k - 1], 0)

\* HUF_decompress4X1_usingDTable_internal_fast, and that with two symbols to a cell.
Decompress4XFast(dt, bits, n) ==
    LET start(ends, parts) ==
            [ip  |-> Tuple([k \in 1 .. 4 |-> ends[k] - 8]),
             pos |-> Tuple([k \in 1 .. 4 |-> 8 * ends[k - 1] + StartOf(SubBits(bits, ends[k - 1], ends[k] - ends[k - 1]))]),
             op  |-> Tuple([k \in 1 .. 4 |-> parts[k - 1]]),
             out |-> Times(n, 0)]
        finish(f, ends, parts) ==
            IF \E k \in 1 .. 4 : f.ip[k] < 0 \/ f.op[k] > parts[k] \/ f.ip[k] < ends[k - 1] - 8 THEN FseError
            ELSE [out |-> Concat([k \in 1 .. 4 |-> FinishStream(dt, bits, f, k, parts).out])]
        decode(ends, parts) == finish(FastLoop(dt, bits, start(ends, parts), parts), ends, parts)
    IN  decode(StreamEnds(bits), SegmentEnds(n))

\* HUF_decompress4X1_usingDTable_internal, HUF_decompress4X2_usingDTable_internal: the
\* fast one wants a table of one size, 8 bytes of each stream, and output of each.
Decompress4X(dt, bits, n) ==
    LET ends == StreamEnds(bits) IN
    IF dt.log = FastTableLog /\ SegmentEnds(n)[3] < n /\ \A k \in 1 .. 4 : ends[k] - ends[k - 1] >= 8
    THEN Decompress4XFast(dt, bits, n) ELSE Decompress4XSlow(dt, bits, n)
=============================================================================
