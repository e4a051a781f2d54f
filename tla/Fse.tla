--------------------------------- MODULE Fse ---------------------------------
(***************************************************************************)
(* Finite state entropy: counts of symbols are normalised to a power of    *)
(* two, written as a header, and spread over a table in which the encoder  *)
(* and the decoder each walk, one backwards and one forwards.              *)
(*                                                                         *)
(* Symbols are 0 .. max; counts and norms are functions of them.  Streams  *)
(* are sequences of bits, the lowest of a field first; the decoder of      *)
(* symbols reads from the end.  A buffer is large enough: the paths that   *)
(* give up for want of room are left out.                                  *)
(***************************************************************************)
EXTENDS ZstdCommon, SequencesExt, FiniteSetsExt

CONSTANTS
    MinTableLog,     \* FSE_MIN_TABLELOG
    MaxTableLog      \* FSE_MAX_TABLELOG

FseError == [error |-> TRUE]
Nothing  == [error |-> FALSE]

HighBit(n) == CHOOSE b \in 0 .. 30 : 2 ^ b <= n /\ (b = 30 \/ n < 2 ^ (b + 1))

\* FoldLeft and FlattenSeq for long sequences, by halves.
Along(op(_, _), base, seq) ==
    LET RECURSIVE over(_, _, _)
        over(acc, from, to) ==
            IF from > to THEN acc
            ELSE IF from = to THEN op(acc, seq[from])
            ELSE CHOOSE end \in {over(half, (from + to) \div 2 + 1, to) :
                                    half \in {over(acc, from, (from + to) \div 2)}} : TRUE
    IN  over(base, 1, Len(seq))

Concat(seqs) ==
    LET RECURSIVE over(_, _)
        over(from, to) ==
            IF from > to THEN <<>>
            ELSE IF from = to THEN <<>> \o seqs[from]
            ELSE over(from, (from + to) \div 2) \o over((from + to) \div 2 + 1, to)
    IN  over(1, Len(seqs))

\* A function and a sequence, held in full and not as a formula.
Held(f)  == f @@ <<>>
Tuple(f) == <<>> \o f

\* MapThenSumSet for large sets of numbers.
SumOver(op(_), S) ==
    LET RECURSIVE sum(_, _)
        sum(from, to) ==
            IF from < to THEN sum(from, (from + to) \div 2) + sum((from + to) \div 2 + 1, to)
            ELSE IF from \in S THEN op(from) ELSE 0
    IN  sum(0, Max(S \cup {0}))
SumOf(f, S) == SumOver(LAMBDA s : f[s], S)

(***************************************************************************)
(* Bit streams.                                                            *)
(***************************************************************************)
\* BIT_addBits: the n lowest bits of v.
Bits(v, n) == [i \in 1 .. n |-> (v \div 2 ^ (i - 1)) % 2]

\* n bits after the first pos, and what lies behind the end reads as zero.
RECURSIVE ReadForward(_, _, _)
ReadForward(bits, pos, n) ==
    IF n = 0 \/ pos >= Len(bits) THEN 0 ELSE bits[pos + 1] + 2 * ReadForward(bits, pos + 1, n - 1)

\* BIT_readBits: the n bits that end at pos; there are none before the first.
RECURSIVE ReadBack(_, _, _)
ReadBack(bits, pos, n) ==
    IF n = 0 THEN 0
    ELSE (IF pos - n >= 0 THEN bits[pos - n + 1] ELSE 0) + 2 * ReadBack(bits, pos, n - 1)

\* Zeros up to a whole byte.
Padding(n) == [i \in 1 .. (8 - (n % 8)) % 8 |-> 0]

\* BIT_closeCStream puts a 1 behind the last bit, from which BIT_initDStream begins.
Close(bits) ==
    LET marked == Append(bits, 1) IN
    marked \o Padding(Len(marked))
StartOf(bits) == (CHOOSE p \in DOMAIN bits : bits[p] = 1 /\ \A q \in p + 1 .. Len(bits) : bits[q] = 0) - 1

(***************************************************************************)
(* Normalisation.  The code divides in fixed point with 62 bits; for       *)
(* totals below 2^20 that is the exact quotient, less a fraction too small *)
(* to matter except where the quotient is whole: hence the "- 1"s.         *)
(***************************************************************************)
MinLogFor(total, max) == Min({HighBit(total) + 1, HighBit(max) + 2})

\* FSE_optimalTableLog_internal; the unsigned difference is huge for a small total.
TableLogFor(maxLog, total, max, minus) ==
    LET byTotal == IF HighBit(total - 1) < minus THEN maxLog ELSE Min({maxLog, HighBit(total - 1) - minus})
        enough  == Max({byTotal, MinLogFor(total, max)})
    IN  Min({Max({enough, MinTableLog}), MaxTableLog})
OptimalTableLog(maxLog, total, max) == TableLogFor(maxLog, total, max, 2)

RestToBeat == <<0, 473195, 504333, 520860, 550000, 700000, 750000, 830000>>

Share(c, total, log) ==
    LET whole == c * 2 ^ log - (IF 2 ^ HighBit(total) = total THEN 0 ELSE 1)
        p     == whole \div total
        rest  == (c * 2 ^ log - p * total) * 2 ^ 20
    IN  IF p < 8 /\ rest > RestToBeat[p + 1] * total THEN p + 1 ELSE p

Unassigned == -2

\* The shares of the open symbols, in proportion to their counts, of what is left.
SpreadRest(norm, count, left, rest) ==
    LET open      == {s \in DOMAIN norm : norm[s] = Unassigned}
        mark(c)   == (rest + c * (2 * left + 1) - 1) \div (2 * rest)
        step(acc, s) ==
            IF s \notin open THEN acc
            ELSE [upTo |-> acc.upTo + count[s],
                  weight |-> [acc.weight EXCEPT ![s] = mark(acc.upTo + count[s]) - mark(acc.upTo)]]
        end       == Along(step, [upTo |-> 0, weight |-> Held(norm)], [i \in 1 .. Cardinality(DOMAIN norm) |-> i - 1])
    IN  IF \E s \in open : end.weight[s] < 1 THEN FseError ELSE end.weight

\* What is left goes round among the symbols that have something.
GoRound(norm, left) ==
    LET takers  == {s \in DOMAIN norm : norm[s] > 0}
        turn(s) == Cardinality({t \in takers : t < s})
        extra(n, s) == (left + n - 1 - turn(s)) \div n
    IN  [s \in DOMAIN norm |-> IF s \in takers THEN norm[s] + extra(Cardinality(takers), s) ELSE norm[s]]

MostCounted(count) ==
    CHOOSE s \in DOMAIN count : \A t \in DOMAIN count : count[t] < count[s] \/ (count[t] = count[s] /\ t >= s)

Settled(norm) == {s \in DOMAIN norm : norm[s] \notin {0, Unassigned}}

\* The last part of FSE_normalizeM2, behind the symbols that are settled.
ShareRest(norm, count, left, rest) ==
    IF Settled(norm) = DOMAIN norm THEN [Held(norm) EXCEPT ![MostCounted(count)] = @ + left]
    ELSE IF rest = 0 THEN GoRound(norm, left)
    ELSE SpreadRest(norm, count, left, rest)

\* Symbols that are a bit too rare for a share also get a cell.
SettleRare(norm, count, lowOne, left, rest) ==
    IF rest \div left > lowOne
    THEN [s \in DOMAIN norm |-> IF norm[s] = Unassigned /\ count[s] <= (rest * 3) \div (left * 2) THEN 1 ELSE norm[s]]
    ELSE norm

\* FSE_normalizeM2, for when rounding up has used too much.
NormalizeM2(log, count, total, low) ==
    LET lowOne   == (total * 3) \div 2 ^ (log + 1)
        first(s) == IF count[s] = 0 THEN 0
                    ELSE IF count[s] <= total \div 2 ^ log THEN low
                    ELSE IF count[s] <= lowOne THEN 1 ELSE Unassigned
        left(norm) == 2 ^ log - Cardinality(Settled(norm))
        rest(norm) == total - SumOf(count, Settled(norm))
        finish(norm) == ShareRest(norm, count, left(norm), rest(norm))
        settle(norm) == IF left(norm) = 0 THEN norm
                        ELSE finish(Held(SettleRare(norm, count, lowOne, left(norm), rest(norm))))
    IN  settle(Held([s \in DOMAIN count |-> first(s)]))

\* FSE_normalizeCount; lowProb: symbols too rare for a cell are given -1.  There is no
\* symbol with all of the counts.
NormalizeCount(log, count, total, lowProb) ==
    LET low     == IF lowProb THEN -1 ELSE 1
        rare(s) == count[s] > 0 /\ count[s] <= total \div 2 ^ log
        first(s) == IF count[s] = 0 THEN 0 ELSE IF rare(s) THEN low ELSE Share(count[s], total, log)
        cells(norm) == SumOver(LAMBDA s : IF norm[s] < 0 THEN 1 ELSE norm[s], DOMAIN norm)
        shared(norm) == {s \in DOMAIN norm : count[s] > 0 /\ ~rare(s)}
        largest(norm, S) == IF \A s \in S : norm[s] = 0 THEN 0
                            ELSE CHOOSE s \in S : \A t \in S : norm[t] < norm[s] \/ (norm[t] = norm[s] /\ t >= s)
        adjust(norm, still, top) ==
            IF -still >= norm[top] \div 2 THEN NormalizeM2(log, count, total, low)
            ELSE [norm EXCEPT ![top] = @ + still]
        even(norm) == adjust(norm, 2 ^ log - cells(norm), largest(norm, shared(norm)))
    IN  IF log < MinLogFor(total, Max(DOMAIN count)) THEN FseError
        ELSE even(Held([s \in DOMAIN count |-> first(s)]))

(***************************************************************************)
(* The header.                                                             *)
(***************************************************************************)
\* The longest code of a count stays just long enough for what remains.
Threshold(threshold, remaining) == IF remaining < threshold THEN 2 ^ HighBit(remaining) ELSE threshold

\* A run of zeros after a zero: threes, and the rest.
ZeroRun(zeros) == [i \in 1 .. 2 * (zeros \div 3) |-> 1] \o Bits(zeros % 3, 2)

\* Of a count that may go up to remaining, low values are written with a bit less.
CountBits(count, threshold, remaining) ==
    LET max  == 2 * threshold - 1 - remaining
        code == count + 1 + (IF count + 1 >= threshold THEN max ELSE 0)
    IN  Bits(code, HighBit(threshold) + 1 - (IF code < max THEN 1 ELSE 0))

\* One turn of the loop of FSE_writeNCount_generic; zeros: the run so far, or none.
WriteCount(acc, count) ==
    IF acc.remaining <= 1 THEN acc
    ELSE IF acc.previousIs0 /\ count = 0 THEN [acc EXCEPT !.zeros = @ + 1]
    ELSE LET left == acc.remaining - (IF count < 0 THEN -count ELSE count) IN
         [bits        |-> acc.bits \o (IF acc.previousIs0 THEN ZeroRun(acc.zeros) ELSE <<>>)
                                   \o CountBits(count, acc.threshold, acc.remaining),
          remaining   |-> left,
          threshold   |-> Threshold(acc.threshold, left),
          previousIs0 |-> count = 0,
          zeros       |-> 0]

WriteNCount(norm, log) ==
    LET start == [bits |-> Bits(log - MinTableLog, 4), remaining |-> 2 ^ log + 1, threshold |-> 2 ^ log,
                  previousIs0 |-> FALSE, zeros |-> 0]
        end   == Along(LAMBDA acc, s : WriteCount(acc, norm[s - 1]), start,
                          [i \in 1 .. Max(DOMAIN norm) + 1 |-> i])
    IN  IF end.remaining # 1 THEN FseError
        ELSE [bits |-> end.bits \o Padding(Len(end.bits))]

\* A run of zeros: threes, and the rest.
SkipZeros(bits, acc) ==
    LET threes == CHOOSE n \in 0 .. Len(bits) :
                      /\ \A i \in 1 .. 2 * n : acc.pos + i <= Len(bits) /\ bits[acc.pos + i] = 1
                      /\ ReadForward(bits, acc.pos + 2 * n, 2) # 3
        zeros(n) == 3 * n + ReadForward(bits, acc.pos + 2 * n, 2)
        skip(n)  == [acc EXCEPT !.pos = @ + 2 * n + 2, !.norm = @ \o [i \in 1 .. zeros(n) |-> 0]]
    IN  IF acc.previous0 THEN skip(threes) ELSE acc

\* A count as it was written: low ones have a bit less.
CountRead(short, long, max, threshold) ==
    IF short < max THEN [count |-> short - 1, saved |-> 1]
    ELSE [count |-> (IF long >= threshold THEN long - max ELSE long) - 1, saved |-> 0]

TakeCount(acc, got, left) ==
    [acc EXCEPT !.pos = @ + HighBit(acc.threshold) + 1 - got.saved, !.norm = Append(@, got.count),
                !.remaining = left, !.threshold = Threshold(@, left), !.previous0 = got.count = 0]

ReadCount(bits, acc) ==
    LET max   == 2 * acc.threshold - 1 - acc.remaining
        log   == HighBit(acc.threshold)
        take(got) == TakeCount(acc, got, acc.remaining - (IF got.count < 0 THEN -got.count ELSE got.count))
    IN  take(CountRead(ReadForward(bits, acc.pos, log), ReadForward(bits, acc.pos, log + 1), max, acc.threshold))

RECURSIVE ReadCounts(_, _, _)
\* The loop of FSE_readNCount_body.
ReadCounts(bits, acc, maxSV1) ==
    IF acc.remaining <= 1 THEN acc
    ELSE IF Len(acc.norm) >= maxSV1 THEN FseError
    ELSE LET skipped == SkipZeros(bits, acc) IN
         IF Len(skipped.norm) >= maxSV1 THEN FseError ELSE ReadCounts(bits, ReadCount(bits, skipped), maxSV1)

\* Of a header with at most maxSV1 symbols: the norms of those up to the last that is
\* there, the table log, and how many bits it took.
ReadNCount(bits, maxSV1) ==
    LET log == ReadForward(bits, 0, 4) + MinTableLog
        result(got) ==
            IF got = FseError THEN FseError
            ELSE IF got.remaining # 1 THEN FseError
            ELSE [norm |-> Held([s \in 0 .. Len(got.norm) - 1 |-> got.norm[s + 1]]), log |-> log,
                  size |-> got.pos + Len(Padding(got.pos))]
    IN  result(ReadCounts(bits, [pos |-> 4, norm |-> <<>>, remaining |-> 2 ^ log + 1, threshold |-> 2 ^ log,
                                 previous0 |-> FALSE], maxSV1))

(***************************************************************************)
(* The table of symbols, which the encoder and the decoder build alike.    *)
(***************************************************************************)
TableStep(size) == size \div 2 + size \div 8 + 3

Symbols(norm) == [i \in 1 .. Max(DOMAIN norm) + 1 |-> i - 1]

Spread(norm, log) ==
    LET size == 2 ^ log
        low  == SelectSeq(Symbols(norm), LAMBDA s : norm[s] = -1)
        free == size - Len(low)
        laid == Concat([i \in DOMAIN Symbols(norm) |->
                    [n \in 1 .. Max({norm[i - 1], 0}) |-> i - 1]])
        walk == SelectSeq([i \in 1 .. size |-> ((i - 1) * TableStep(size)) % size], LAMBDA p : p < free)
        start == Tuple([p \in 1 .. size |-> IF p <= free THEN 0 ELSE low[size + 1 - p]])
    IN  Along(LAMBDA table, i : [table EXCEPT ![walk[i] + 1] = laid[i]], start, [i \in 1 .. free |-> i])

\* FSE_buildCTable_wksp: next states in the order of symbols, and for each symbol how
\* many bits a state gives up (in 16ths and below) and where its states begin.
BuildCTable(norm, log) ==
    LET size  == 2 ^ log
        table == Spread(norm, log)
        cells(s) == IF norm[s] = -1 THEN 1 ELSE norm[s]
        before(s) == SumOver(cells, {t \in DOMAIN norm : t < s})
        bitsOut(s) == log - HighBit(norm[s] - 1)
    IN  [log   |-> log,
         state |-> Concat([i \in DOMAIN Symbols(norm) |->
                      SelectSeq([u \in 1 .. size |-> size + u - 1], LAMBDA v : table[v - size + 1] = i - 1)]),
         deltaNbBits |-> Held([s \in DOMAIN norm |->
             IF norm[s] = 0 THEN (log + 1) * 2 ^ 16 - size
             ELSE IF norm[s] \in {-1, 1} THEN log * 2 ^ 16 - size
             ELSE bitsOut(s) * 2 ^ 16 - norm[s] * 2 ^ bitsOut(s)]),
         deltaFindState |-> Held([s \in DOMAIN norm |-> before(s) - cells(s)])]

\* FSE_buildDTable_internal; in fast mode reads of no bits are not allowed.
BuildDTable(norm, log) ==
    LET size  == 2 ^ log
        table == Spread(norm, log)
        first == Held([s \in DOMAIN norm |-> IF norm[s] = -1 THEN 1 ELSE norm[s]])
        step(acc, s) == [next |-> [acc.next EXCEPT ![s] = @ + 1], taken |-> Append(acc.taken, acc.next[s])]
        next  == Along(step, [next |-> first, taken |-> <<>>], table).taken
        nb(u) == log - HighBit(next[u])
    IN  [log  |-> log,
         fast |-> \A s \in DOMAIN norm : norm[s] < 2 ^ (log - 1),
         cell |-> Tuple([u \in 1 .. size |->
                     [symbol |-> table[u], nbBits |-> nb(u), newState |-> next[u] * 2 ^ nb(u) - size]])]

(***************************************************************************)
(* States.                                                                 *)
(***************************************************************************)
StateAt(ct, value, nbBits, symbol) == ct.state[value \div 2 ^ nbBits + ct.deltaFindState[symbol] + 1]

\* FSE_initCState2: the smallest state of a symbol costs nothing.
InitCState(ct, symbol) ==
    LET nb == (ct.deltaNbBits[symbol] + 2 ^ 15) \div 2 ^ 16 IN
    StateAt(ct, nb * 2 ^ 16 - ct.deltaNbBits[symbol], nb, symbol)

\* FSE_encodeSymbol: what it adds to the stream, and the state after it.
EncodeSymbol(ct, value, symbol) ==
    LET nb == (value + ct.deltaNbBits[symbol]) \div 2 ^ 16 IN
    [bits |-> Bits(value, nb), value |-> StateAt(ct, value, nb, symbol)]

FlushCState(ct, value) == Bits(value, ct.log)

\* FSE_compress_usingCTable_generic: two states take turns, from the last symbol.  The
\* states are named by the parity of the symbols they code.
CompressUsingCTable(ct, src) ==
    LET n == Len(src)
        step(acc, i) ==
            LET which == (n - i + 1) % 2     \* the symbol's place, counted from the front
                e     == EncodeSymbol(ct, acc.value[which], src[n - i + 1])
            IN  [bits |-> acc.bits \o e.bits, value |-> [acc.value EXCEPT ![which] = e.value]]
        start == [bits |-> <<>>, value |-> Held([w \in 0 .. 1 |-> InitCState(ct, IF n % 2 = w THEN src[n] ELSE src[n - 1])])]
        end   == Along(step, start, [i \in 1 .. n - 2 |-> i + 2])
    IN  IF n <= 2 THEN <<>>
        ELSE Close(end.bits \o FlushCState(ct, end.value[0]) \o FlushCState(ct, end.value[1]))

\* FSE_decodeSymbol and FSE_decodeSymbolFast: the symbol of a state, the next state, and
\* what is left of the stream.
DecodeSymbol(dt, bits, d) ==
    LET cell == dt.cell[d.state + 1] IN
    [symbol |-> IF dt.fast /\ cell.nbBits = 0 THEN -1 ELSE cell.symbol,
     state  |-> cell.newState + ReadBack(bits, d.pos, cell.nbBits),
     pos    |-> d.pos - cell.nbBits]

\* The states take turns until the stream has run over; then the other one has a symbol
\* left.
DecodeTurn(dt, bits, t) ==
    LET d == DecodeSymbol(dt, bits, [state |-> t.states[1], pos |-> t.pos]) IN
    IF t.ended THEN t
    ELSE IF d.pos < 0
    THEN [t EXCEPT !.ended = TRUE, !.out = @ \o <<d.symbol, dt.cell[t.states[2] + 1].symbol>>]
    ELSE [t EXCEPT !.pos = d.pos, !.states = <<@[2], d.state>>, !.out = Append(@, d.symbol)]

\* FSE_decompress_usingDTable_generic: at most max symbols, or none.
DecompressUsingDTable(dt, bits, max) ==
    LET pos == StartOf(bits)
        end == Along(LAMBDA t, i : DecodeTurn(dt, bits, t),
                     [pos    |-> pos - 2 * dt.log,
                      states |-> <<ReadBack(bits, pos, dt.log), ReadBack(bits, pos - dt.log, dt.log)>>,
                      out    |-> <<>>, ended |-> FALSE],
                     [i \in 1 .. max - 1 |-> i])
    IN  IF end.ended THEN end.out ELSE <<>>
=============================================================================
