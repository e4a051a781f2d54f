------------------------------ MODULE ZstdFast ------------------------------
(***************************************************************************)
(* ZSTD_fast and ZSTD_dfast, with the window in one piece and in two: a    *)
(* table of the last place of every hash, or two of them, the long and the *)
(* short.  A search s goes on at its positions p, which are read ahead of  *)
(* each other.  With the segment behind gone out of the window's reach the *)
(* one for two pieces goes on as the one for one.                          *)
(***************************************************************************)
EXTENDS ZstdMatch

CONSTANT StepSize  \* targetLength + 1, at least 2

OnePiece(x)  == [x EXCEPT !.ext = FALSE, !.prefix = LowestPrefix(x, x.end), !.least = LowestPrefix(x, x.end)]
TwoPieces(x) == [x EXCEPT !.ext = TRUE, !.prefix = MAX(x.dict, LowestMatch(x, x.end)), !.least = LowestMatch(x, x.end)]

View(x) == IF x.dict <= LowestMatch(x, x.end) THEN OnePiece(x) ELSE TwoPieces(x)

-----------------------------------------------------------------------------
(* ZSTD_compressBlock_fast_noDict_generic, ZSTD_compressBlock_fast_extDict_generic *)

Insert(x, s, i) == [s EXCEPT !.hash[HashPtr(x, i, Short, Buckets)] = i]
Candidate(x, s, i) == s.hash[HashPtr(x, i, Short, Buckets)]

FastFound(x, i, j) == i >= x.least /\ Same(x, i, j, Short)

\* The last offset at the third position: not for a match that starts the segment.
FastRep(x, offset, j) ==
    /\ offset > 0
    /\ x.ext => j - offset > x.prefix \/ x.prefix - (j - offset) >= Short
    /\ Same(x, j - offset, j, Short)

\* The offset before the last, right behind a match.
RECURSIVE FastReps(_, _)
FastReps(x, s) ==
    IF s.ip <= Limit(x) /\ s.o2 > 0 /\ (x.ext => OverlapCheck(x, s.ip - s.o2)) /\ Same(x, s.ip - s.o2, s.ip, Short)
    THEN FastReps(x, Store(x, SwapOffsets(Insert(x, s, s.ip)), s.ip, 1, LengthFrom(x, s.ip - s.o2, s.ip, Short)))
    ELSE s

FastEnds(x, s, p) ==
    IF s.ip <= Limit(x) THEN FastReps(x, Insert(x, Insert(x, s, p.ip0 + 2), s.ip - 2)) ELSE s

\* With a match stored, the tables get what lies next to its ends; of p.ip1 the hash is
\* at hand; in one piece it is judged before the match is measured.
FastFill(x, s, p, near) ==
    FastEnds(x, IF IF x.ext THEN p.ip1 < s.ip ELSE near THEN Insert(x, s, p.ip1) ELSE s, p)

FastRepMatch(x, s, p, match) ==
    LET back == IF Same(x, match - 1, p.ip2 - 1, 1) THEN 1 ELSE 0
    IN FastFill(x, Store(x, s, p.ip2 - back, 1, back + LengthFrom(x, match, p.ip2, Short)), p, TRUE)

FastOffset(x, s, p, back, near) ==
    FastFill(x, Store(x, NewOffset(s, p.ip0 - p.idx), p.ip0 - back, p.ip0 - p.idx + 3,
                      back + LengthFrom(x, p.idx, p.ip0, Short)), p, near)

\* The position p.ip0 is in the table when it is looked at.
RECURSIVE FastFrom(_, _), FastFirst(_, _, _), FastSecond(_, _, _), FastNext(_, _, _)

FastFrom(x, s) ==
    IF s.ip + StepSize + 1 >= Limit(x) THEN s
    ELSE FastFirst(x, Insert(x, s, s.ip),
                   [ip0 |-> s.ip, ip1 |-> s.ip + 1, ip2 |-> s.ip + StepSize, ip3 |-> s.ip + StepSize + 1,
                    idx |-> Candidate(x, s, s.ip), step |-> StepSize, next |-> s.ip + SearchStep \div 2])

FastFirst(x, s, p) ==
    IF FastRep(x, s.o1, p.ip2) THEN FastFrom(x, FastRepMatch(x, s, p, p.ip2 - s.o1))
    ELSE IF FastFound(x, p.idx, p.ip0)
    THEN FastFrom(x, FastOffset(x, s, p, Back(x, s.anchor, p.idx, p.ip0), TRUE))
    ELSE FastSecond(x, Insert(x, s, p.ip1),
                    [p EXCEPT !.idx = Candidate(x, s, p.ip1), !.ip0 = p.ip1, !.ip1 = p.ip2, !.ip2 = p.ip3])

FastSecond(x, s, p) ==
    IF FastFound(x, p.idx, p.ip0)
    THEN FastFrom(x, FastOffset(x, s, p, Back(x, s.anchor, p.idx, p.ip0), p.step <= Short))
    ELSE FastNext(x, s, [p EXCEPT !.idx = Candidate(x, s, p.ip1), !.ip0 = p.ip1, !.ip1 = p.ip2,
                                  !.ip2 = p.ip1 + p.step, !.ip3 = p.ip2 + p.step])

FastNext(x, s, p) ==
    IF p.ip3 >= Limit(x) THEN s
    ELSE FastFirst(x, Insert(x, s, p.ip0), IF p.ip2 >= p.next THEN [p EXCEPT !.step = @ + 1, !.next = @ + SearchStep \div 2]
                                           ELSE p)

FastBegin(x, s) ==
    IF x.ext THEN OffsetsBelow(s, s.ip - x.least)
    ELSE PrefixOffsets(x, [s EXCEPT !.ip = IF @ = x.prefix THEN @ + 1 ELSE @])

FastRun(x, s) == FastFrom(x, FastBegin(x, s))

CompressBlockFast(x, rep, tables) == Found(x, FastRun(View(x), SearchFrom(x, rep, tables)))

-----------------------------------------------------------------------------
(* ZSTD_compressBlock_doubleFast_noDict_generic *)

InsertLong(x, s, i)  == [s EXCEPT !.hash[HashPtr(x, i, Long, Buckets)] = i]
InsertShort(x, s, i) == [s EXCEPT !.chain[HashPtr(x, i, Short, Chain)] = i]
CandidateLong(x, s, i)  == s.hash[HashPtr(x, i, Long, Buckets)]
CandidateShort(x, s, i) == s.chain[HashPtr(x, i, Short, Chain)]
InsertBoth(x, s, i) == InsertShort(x, InsertLong(x, s, i), i)

DoubleRep(x, offset, j) ==
    IF x.ext THEN /\ OverlapCheck(x, j - offset)
                  /\ offset <= j - x.least
                  /\ Same(x, j - offset, j, Short)
    ELSE offset > 0 /\ Same(x, j - offset, j, Short)

RECURSIVE DoubleReps(_, _)
DoubleReps(x, s) ==
    IF s.ip <= Limit(x) /\ DoubleRep(x, s.o2, s.ip)
    THEN DoubleReps(x, Store(x, SwapOffsets(InsertBoth(x, s, s.ip)), s.ip, 1, LengthFrom(x, s.ip - s.o2, s.ip, Short)))
    ELSE s

DoubleFill(x, s, curr) ==
    IF s.ip <= Limit(x)
    THEN DoubleReps(x, InsertShort(x, InsertShort(x, InsertLong(x, InsertLong(x, s, curr + 2), s.ip - 2), curr + 2), s.ip - 1))
    ELSE s

DoubleRepMatch(x, s, curr) ==
    DoubleFill(x, Store(x, s, curr + 1, 1, LengthFrom(x, curr + 1 - s.o1, curr + 1, Short)), curr)

\* The match of ip at i, of which n symbols have been compared.
DoubleMatch(x, s, i, ip, n, curr) ==
    LET back == Back(x, s.anchor, i, ip) IN
    DoubleFill(x, Store(x, NewOffset(s, ip - i), ip - back, ip - i + 3, back + LengthFrom(x, i, ip, n)), curr)

\* With the step still small the next position goes into the table.
DoubleNext(x, s, p) == IF p.step < Short THEN InsertLong(x, s, p.ip1) ELSE s

\* A short match, or the long one of the position after.
DoubleShort(x, s, p) ==
    IF /\ p.long1 > x.prefix
       /\ Same(x, p.long1, p.ip1, Long)
       /\ LengthFrom(x, p.long1, p.ip1, Long) > LengthFrom(x, p.short, p.ip, Short)
    THEN DoubleMatch(x, s, p.long1, p.ip1, Long, p.ip)
    ELSE DoubleMatch(x, s, p.short, p.ip, Short, p.ip)

RECURSIVE DoubleFrom(_, _), DoubleTurn(_, _, _), DoubleLook(_, _, _), DoubleMove(_, _, _)

DoubleFrom(x, s) ==
    IF s.ip + 1 > Limit(x) THEN s
    ELSE DoubleTurn(x, s, [ip |-> s.ip, ip1 |-> s.ip + 1, step |-> 1, next |-> s.ip + SearchStep,
                           long |-> CandidateLong(x, s, s.ip), long1 |-> 0, short |-> 0])

DoubleTurn(x, s, p) == DoubleLook(x, InsertBoth(x, s, p.ip), [p EXCEPT !.short = CandidateShort(x, s, p.ip)])

DoubleLook(x, s, p) ==
    IF DoubleRep(x, s.o1, p.ip + 1) THEN DoubleFrom(x, DoubleRepMatch(x, s, p.ip))
    ELSE IF p.long >= x.prefix /\ Same(x, p.long, p.ip, Long)
    THEN DoubleFrom(x, DoubleMatch(x, DoubleNext(x, s, p), p.long, p.ip, Long, p.ip))
    ELSE DoubleMove(x, s, [p EXCEPT !.long1 = CandidateLong(x, s, p.ip1)])

DoubleMove(x, s, p) ==
    LET step == IF p.ip1 >= p.next THEN p.step + 1 ELSE p.step IN
    IF p.short >= x.prefix /\ Same(x, p.short, p.ip, Short)
    THEN DoubleFrom(x, DoubleShort(x, DoubleNext(x, s, p), p))
    ELSE IF p.ip1 + step > Limit(x) THEN s
    ELSE DoubleTurn(x, s, [p EXCEPT !.ip = p.ip1, !.ip1 = p.ip1 + step, !.step = step, !.long = p.long1,
                                    !.next = IF p.ip1 >= p.next THEN @ + SearchStep ELSE @])

-----------------------------------------------------------------------------
(* ZSTD_compressBlock_doubleFast_extDict_generic *)

\* The long match of the position after, or the short one; that position goes into the
\* table as well.
DoubleShortTwo(x, s, p) ==
    IF p.long1 > x.least /\ Same(x, p.long1, p.ip + 1, Long) THEN DoubleMatch(x, s, p.long1, p.ip + 1, Long, p.ip)
    ELSE DoubleMatch(x, s, p.short, p.ip, Short, p.ip)

\* One turn at p.ip, with both of its candidates read and it in the tables.
DoubleTurnTwo(x, s, p) ==
    IF DoubleRep(x, s.o1, p.ip + 1) THEN DoubleRepMatch(x, s, p.ip)
    ELSE IF p.long > x.least /\ Same(x, p.long, p.ip, Long) THEN DoubleMatch(x, s, p.long, p.ip, Long, p.ip)
    ELSE IF p.short > x.least /\ Same(x, p.short, p.ip, Short)
    THEN DoubleShortTwo(x, InsertLong(x, s, p.ip + 1), [p EXCEPT !.long1 = CandidateLong(x, s, p.ip + 1)])
    ELSE [s EXCEPT !.ip = p.ip + (p.ip - s.anchor) \div SearchStep + 1]

RECURSIVE DoubleFromTwo(_, _)
DoubleFromTwo(x, s) ==
    IF s.ip >= Limit(x) THEN s
    ELSE DoubleFromTwo(x, DoubleTurnTwo(x, InsertBoth(x, s, s.ip),
                              [ip |-> s.ip, short |-> CandidateShort(x, s, s.ip), long |-> CandidateLong(x, s, s.ip),
                               long1 |-> 0]))

DoubleRun(x, s) == IF x.ext THEN DoubleFromTwo(x, s) ELSE DoubleFrom(x, FastBegin(x, s))

CompressBlockDoubleFast(x, rep, tables) == Found(x, DoubleRun(View(x), SearchFrom(x, rep, tables)))
=============================================================================
