------------------------------ MODULE ZstdLazy ------------------------------
(***************************************************************************)
(* ZSTD_greedy, ZSTD_lazy, ZSTD_lazy2 and ZSTD_btlazy2: at a position the  *)
(* best match is searched, in the chain of the positions of the same hash  *)
(* or in a binary tree of them, and then it is seen if one or two further  *)
(* on there is a better one.                                               *)
(*                                                                         *)
(* The tree takes its positions in unsorted, as a chain; the first search  *)
(* that meets them sorts them, the oldest first.  Both links of a position *)
(* are in s.chain: to what is smaller and to what is larger.               *)
(***************************************************************************)
EXTENDS ZstdMatch

CONSTANTS
    Attempts,     \* 1 << searchLog
    LazySkipping, \* kLazySkippingStep
    Unfound       \* what an offBase is as long as nothing is found

\* ZSTD_DUBT_UNSORTED_MARK
Unsorted == 1

Log2(n) == CHOOSE b \in 0 .. 30 : 2 ^ b <= n /\ n < 2 ^ (b + 1)

LazyView(x) == [x EXCEPT !.ext = x.low < x.dict, !.prefix = x.dict, !.least = x.low]

Nowhere(s) == [s |-> s, len |-> 0, offBase |-> Unfound]

-----------------------------------------------------------------------------
(* The hash chain. *)

Linked(x, s, i, h) == [s EXCEPT !.chain[i % Chain] = s.hash[h], !.hash[h] = i, !.next = i + 1]

RECURSIVE LinkedUpTo(_, _, _)
LinkedUpTo(x, s, to) ==
    IF s.next >= to THEN s
    ELSE LinkedUpTo(x, Linked(x, s, s.next, HashPtr(x, s.next, Short, Buckets)), to)

\* ZSTD_insertAndFindFirstIndex_internal: when skipping, one of the positions is enough.
Chained(x, s, ip) ==
    [LinkedUpTo(x, s, IF s.skipping THEN MIN(s.next + 1, ip) ELSE ip) EXCEPT !.next = ip]

\* A candidate of the current segment must be better than the best, others are counted.
HcLength(x, i, ip, best) ==
    IF i >= x.dict
    THEN IF Same(x, i + best - (Short - 1), ip + best - (Short - 1), Short) THEN CountTo(x, i, ip, x.end) ELSE 0
    ELSE IF Same(x, i, ip, Short) THEN LengthFrom(x, i, ip, Short) ELSE 0

HcBest(found, i, ip, len) ==
    IF len > found.len THEN [found EXCEPT !.len = len, !.offBase = ip - i + 3] ELSE found

RECURSIVE HcSearch(_, _, _, _, _), HcOlder(_, _, _, _, _)
HcSearch(x, ip, i, attempts, found) ==
    IF i < LowestMatch(x, ip) \/ attempts = 0 THEN found
    ELSE HcOlder(x, ip, i, attempts, HcBest(found, i, ip, HcLength(x, i, ip, found.len)))

HcOlder(x, ip, i, attempts, found) ==
    IF ip + found.len = x.end \/ i <= MAX(ip - Chain, 0) THEN found
    ELSE HcSearch(x, ip, found.s.chain[i % Chain], attempts - 1, found)

HcFrom(x, s, ip) ==
    HcSearch(x, ip, s.hash[HashPtr(x, ip, Short, Buckets)], Attempts, [s |-> s, len |-> Short - 1, offBase |-> Unfound])

HcFindBestMatch(x, s, ip) == HcFrom(x, Chained(x, s, ip), ip)

-----------------------------------------------------------------------------
(* The binary tree. *)

Smaller(i) == 2 * (i % (Chain \div 2))
Larger(i)  == Smaller(i) + 1
NoCell     == -1
Put(chain, cell, i) == IF cell = NoCell THEN chain ELSE [chain EXCEPT ![cell] = i]

\* ZSTD_updateDUBT
Unsorting(s, i, h) ==
    [s EXCEPT !.chain = Put(Put(@, Smaller(i), s.hash[h]), Larger(i), Unsorted), !.hash[h] = i, !.next = i + 1]

RECURSIVE Entered(_, _, _)
Entered(x, s, to) ==
    IF s.next >= to THEN s ELSE Entered(x, Unsorting(s, s.next, HashPtr(x, s.next, Short, Buckets)), to)

(***************************************************************************)
(* A walk w through the tree, for the position j: the cells that wait for  *)
(* what is smaller and what is larger than j, how much these have in       *)
(* common with it at least, and the next candidate, below which none is    *)
(* valid.                                                                  *)
(***************************************************************************)
Walk(chain, j, i, low, treeLow) ==
    [chain |-> chain, smaller |-> Smaller(j), larger |-> Larger(j), commonSmaller |-> 0, commonLarger |-> 0,
     i |-> i, low |-> low, treeLow |-> treeLow]

WalkLength(x, w, j, end) ==
    LET n == MIN(w.commonSmaller, w.commonLarger) IN n + CountTo(x, w.i + n, j + n, end)

\* The candidate is hung up, and the walk goes on below it unless it is too old.
Below(w, len) ==
    IF w.i <= w.treeLow THEN [w EXCEPT !.smaller = NoCell, !.i = 0]
    ELSE [w EXCEPT !.smaller = Larger(w.i), !.commonSmaller = len, !.i = w.chain[Larger(w.i)]]

Above(w, len) ==
    IF w.i <= w.treeLow THEN [w EXCEPT !.larger = NoCell, !.i = 0]
    ELSE [w EXCEPT !.larger = Smaller(w.i), !.commonLarger = len, !.i = w.chain[Smaller(w.i)]]

Descended(x, w, j, len) ==
    IF x.at[w.i + len] < x.at[j + len] THEN Below([w EXCEPT !.chain = Put(@, w.smaller, w.i)], len)
    ELSE Above([w EXCEPT !.chain = Put(@, w.larger, w.i)], len)

Closed(w) == Put(Put(w.chain, w.larger, 0), w.smaller, 0)

\* ZSTD_insertDUBT1: j is sorted in.  What is equal up to the end is dropped.
RECURSIVE InsertDUBT1(_, _, _, _, _), InsertBelow(_, _, _, _, _, _)
InsertDUBT1(x, w, j, end, compares) ==
    IF compares = 0 \/ w.i <= w.low THEN Closed(w) ELSE InsertBelow(x, w, j, end, compares, WalkLength(x, w, j, end))

InsertBelow(x, w, j, end, compares, len) ==
    IF j + len = end THEN Closed(w) ELSE InsertDUBT1(x, Descended(x, w, j, len), j, end, compares - 1)

\* The candidates that are not sorted yet, turned into a chain of the reverse order.
RECURSIVE Reversed(_, _, _, _, _)
Reversed(chain, i, previous, candidates, low) ==
    IF i > low /\ chain[Larger(i)] = Unsorted
    THEN IF candidates > 1 THEN Reversed(Put(chain, Larger(i), previous), chain[Smaller(i)], i, candidates - 1, low)
         ELSE [chain |-> Put(Put(chain, Smaller(i), 0), Larger(i), 0), i |-> previous, left |-> candidates]
    ELSE [chain |-> chain, i |-> previous, left |-> candidates]

RECURSIVE Sorted(_, _, _, _, _)
Sorted(x, chain, i, compares, low) ==
    IF i = 0 THEN chain
    ELSE Sorted(x, InsertDUBT1(x, Walk(chain, i, chain[Smaller(i)], LowestMatch(x, i), low), i,
                               IF i >= x.dict THEN x.end ELSE x.dict, compares),
                chain[Larger(i)], compares + 1, low)

\* The longest match, unless a shorter one is so much nearer; and ip is sorted in.
BtBetter(found, len, i, ip) ==
    IF 4 * (len - found.len) > Log2(ip - i + 1) - Log2(found.offBase)
    THEN [found EXCEPT !.len = len, !.offBase = ip - i + 3] ELSE found

BtFarther(found, len, i) == [found EXCEPT !.matchEnd = IF len > @ - i THEN i + len ELSE @]

RECURSIVE BtSearch(_, _, _, _, _), BtCompared(_, _, _, _, _, _)
BtSearch(x, w, ip, compares, found) ==
    IF compares = 0 \/ w.i <= w.low THEN [found EXCEPT !.chain = Closed(w)]
    ELSE BtCompared(x, w, ip, compares, found, WalkLength(x, w, ip, x.end))

BtCompared(x, w, ip, compares, found, len) ==
    IF len <= found.len THEN BtSearch(x, Descended(x, w, ip, len), ip, compares - 1, found)
    ELSE IF ip + len = x.end
    THEN [BtBetter(BtFarther(found, len, w.i), len, w.i, ip) EXCEPT !.chain = Closed(w)]
    ELSE BtSearch(x, Descended(x, w, ip, len), ip, compares - 1, BtBetter(BtFarther(found, len, w.i), len, w.i, ip))

\* Where matches repeat themselves the positions are skipped.
BtResult(s, h, ip, found) ==
    [s |-> [s EXCEPT !.hash[h] = ip, !.chain = found.chain, !.next = found.matchEnd - HashRead],
     len |-> found.len, offBase |-> found.offBase]

BtLongest(x, s, h, ip, treeLow, chain) ==
    BtResult(s, h, ip,
        BtSearch(x, Walk(chain, ip, s.hash[h], LowestMatch(x, ip), treeLow), ip, Attempts,
                 [chain |-> chain, len |-> 0, offBase |-> Unfound, matchEnd |-> ip + HashRead + 1]))

BtSorted(x, turned, low) == Sorted(x, turned.chain, turned.i, turned.left, low)

\* ZSTD_DUBT_findBestMatch
DubtFindBestMatch(x, s, h, ip, treeLow, low) ==
    BtLongest(x, s, h, ip, treeLow, BtSorted(x, Reversed(s.chain, s.hash[h], 0, Attempts, low), low))

\* ZSTD_BtFindBestMatch
BtFindBestMatch(x, s, ip) == 
    LET treeLow == MAX(ip - (Chain \div 2 - 1), 0) IN
    IF ip < s.next THEN Nowhere(s)
    ELSE DubtFindBestMatch(x, Entered(x, s, ip), HashPtr(x, ip, Short, Buckets), ip, treeLow, MAX(treeLow, LowestMatch(x, ip)))

-----------------------------------------------------------------------------
(* ZSTD_compressBlock_lazy_generic, ZSTD_compressBlock_lazy_extDict_generic *)

SearchMax(x, s, ip) == IF x.finder.tree THEN BtFindBestMatch(x, s, ip) ELSE HcFindBestMatch(x, s, ip)

\* How long the match of the offset is at j, 0 if it is none.
RepLength(x, offset, j) ==
    IF /\ IF x.ext THEN OverlapCheck(x, j - offset) /\ offset <= j - LowestMatch(x, j) ELSE offset > 0
       /\ Same(x, j - offset, j, Short)
    THEN LengthFrom(x, j - offset, j, Short) ELSE 0

RECURSIVE LazyReps(_, _), LazyRepsFor(_, _, _)
LazyReps(x, s) == IF s.ip <= Limit(x) THEN LazyRepsFor(x, s, RepLength(x, s.o2, s.ip)) ELSE s

LazyRepsFor(x, s, len) == IF len > 0 THEN LazyReps(x, Store(x, SwapOffsets(s), s.ip, 1, len)) ELSE s

\* A match m, with its offset carried back to the anchor, and what follows at once.
Stored(x, s, m, back) ==
    IF m.offBase > 3 THEN Store(x, NewOffset(s, m.offBase - 3), m.start - back, m.offBase, m.len + back)
    ELSE Store(x, s, m.start, m.offBase, m.len)

LazyStored(x, s, m) ==
    LazyReps(x, [Stored(x, s, m, Back(x, s.anchor, m.start - (m.offBase - 3), m.start)) EXCEPT !.skipping = FALSE])

\* Of two matches the second must gain more than the first, which is there already.
Gain(len, offBase, weight) == len * weight - Log2(offBase)

RepBetter(m, ip, weight, len) ==
    IF len >= Short /\ len * weight > Gain(m.len, m.offBase, weight) + 1
    THEN [start |-> ip, len |-> len, offBase |-> 1] ELSE m

SearchBetter(f, m, lead) == f.len >= Short /\ Gain(f.len, f.offBase, 4) > Gain(m.len, m.offBase, 4) + lead

Match(f, ip) == [start |-> ip, len |-> f.len, offBase |-> f.offBase]

\* m is the match so far; ip is where it is looked for a better one, f what a search
\* found there.
RECURSIVE LazyBetter(_, _, _, _), LazyJudged(_, _, _, _), LazyEvenBetter(_, _, _, _)

LazyBetter(x, s, m, ip) ==
    IF x.finder.depth = 0 \/ ip > Limit(x) THEN LazyStored(x, s, m)
    ELSE LazyJudged(x, SearchMax(x, s, ip), RepBetter(m, ip, 3, RepLength(x, s.o1, ip)), ip)

LazyJudged(x, f, m, ip) ==
    IF SearchBetter(f, m, 4) THEN LazyBetter(x, f.s, Match(f, ip), ip + 1)
    ELSE IF x.finder.depth = 2 /\ ip < Limit(x)
    THEN LazyEvenBetter(x, SearchMax(x, f.s, ip + 1), RepBetter(m, ip + 1, 4, RepLength(x, f.s.o1, ip + 1)), ip + 1)
    ELSE LazyStored(x, f.s, m)

LazyEvenBetter(x, f, m, ip) ==
    IF SearchBetter(f, m, 7) THEN LazyBetter(x, f.s, Match(f, ip), ip + 1) ELSE LazyStored(x, f.s, m)

\* Nothing is found: the farther from the anchor the longer the steps.
LazySkip(x, s, step) ==
    [s EXCEPT !.ip = @ + step + 1, !.skipping = (IF x.ext THEN step ELSE step + 1) > LazySkipping]

LazyFound(x, s, m) ==
    IF m.len < Short THEN LazySkip(x, s, (s.ip - s.anchor) \div SearchStep) ELSE LazyBetter(x, s, m, s.ip + 1)

\* The search at ip against the last offset at the next position.
LazySearched(x, f, ip, rep) == LazyFound(x, f.s, IF f.len > rep.len THEN Match(f, ip) ELSE rep)

LazyTurn(x, s, rep) ==
    IF rep.len > 0 /\ x.finder.depth = 0 THEN LazyStored(x, s, rep)
    ELSE LazySearched(x, SearchMax(x, s, s.ip), s.ip, rep)

RECURSIVE LazyFrom(_, _)
LazyFrom(x, s) ==
    IF s.ip >= Limit(x) THEN s
    ELSE LazyFrom(x, LazyTurn(x, s, [start |-> s.ip + 1, len |-> RepLength(x, s.o1, s.ip + 1), offBase |-> 1]))

\* The first symbol of the segment has nothing in front of it.
LazyBegin(x, s) == IF x.ext THEN s ELSE PrefixOffsets(x, s)

LazyRun(x, s) == LazyFrom(x, LazyBegin(x, [s EXCEPT !.ip = IF @ = x.prefix THEN @ + 1 ELSE @]))

CompressBlockLazy(x, rep, tables) == Found(x, LazyRun(LazyView(x), SearchFrom(x, rep, tables)))
=============================================================================
