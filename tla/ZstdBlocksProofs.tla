-------------------------- MODULE ZstdBlocksProofs --------------------------
(***************************************************************************)
(* Proofs about ZstdBlocks: for all lists of sequences that may be found   *)
(* in a block, and every dictionary, the decoder has the tables and the    *)
(* last offsets that a block was written with.                             *)
(***************************************************************************)
EXTENDS ZstdBlocks, WellFoundedInduction, FiniteSetTheorems, SequenceTheorems, TLAPS

-----------------------------------------------------------------------------
(* Lists are folded one member after the other.  A fold is followed by a
   function from the number of members folded to what there is then. *)

\* What holds of 0 and is passed on by every number holds of all.
LEMMA CountUp ==
  ASSUME NEW S, 0 \in S, \A k \in Nat : k \in S => k + 1 \in S
  PROVE  Nat \subseteq S
<1> DEFINE T == Nat \ S
           R == OpToRel(<, Nat)
<1>1. SUFFICES ASSUME T # {} PROVE FALSE
  OBVIOUS
<1>2. T \subseteq Nat
  OBVIOUS
<1>3. IsWellFoundedOn(R, Nat)
  BY NatLessThanWellFounded
<1>4. PICK n \in T : \A m \in T : <<m, n>> \notin R
  <2> HIDE DEF T, R
  <2>1. QED
    BY <1>1, <1>2, <1>3, WFMin
<1>5. n # 0 /\ n - 1 \in Nat /\ n - 1 \in T
  OBVIOUS
<1>6. <<n - 1, n>> \in R
  BY <1>5 DEF OpToRel
<1>7. QED
  BY <1>4, <1>5, <1>6

\* A greatest number is the maximum.
LEMMA MaxIs ==
  ASSUME NEW s \in SUBSET Int, NEW m \in s, \A i \in s : i <= m
  PROVE  Max(s) = m
<1>1. \A i \in s : m >= i
  OBVIOUS
<1>2. ASSUME NEW x \in s, \A i \in s : x >= i PROVE x = m
  BY <1>2
<1>3. QED
  BY <1>1, <1>2 DEF Max

\* The folds of the model: what comes after the list of members r, from x on.
Fold(kind, x, r) ==
  IF kind = "rep" THEN After(x, r)
  ELSE IF kind = "resolve" THEN ResolveOffCode(x, r)
  ELSE IF kind = "decode" THEN DecodeNext(x, r)
  ELSE DecompressBlock_internal(x, r)

\* t follows a list from base on: t[k] is what there is after k of its members.
Follows(kind, t, base, list) ==
  /\ t[0] = base
  /\ \A k \in 1 .. Len(list) : t[k] = Fold(kind, t[k - 1], list[k])

\* The function by which FoldLeft is defined.
Iterates(kind, f, n, base, list) ==
  f = [s \in SUBSET (1 .. n) |->
         IF s = {} THEN base ELSE Fold(kind, f[s \ {Max(s)}], list[Max(s)])]

\* It exists for every length of the list.
LEMMA IteratesExists ==
  ASSUME NEW kind, NEW base, NEW list, NEW n \in Nat
  PROVE  \E f : Iterates(kind, f, n, base, list)
<1> DEFINE S == {k \in Nat : \E f : Iterates(kind, f, k, base, list)}
<1>1. 0 \in S
  <2>1. SUBSET (1 .. 0) = {{}}
    OBVIOUS
  <2>2. Iterates(kind, [s \in {{}} |-> base], 0, base, list)
    BY <2>1 DEF Iterates
  <2>3. QED
    BY <2>2
<1>2. ASSUME NEW k \in Nat, k \in S PROVE k + 1 \in S
  <2>1. PICK f : Iterates(kind, f, k, base, list)
    BY <1>2
  <2> DEFINE g == [s \in SUBSET (1 .. k + 1) |->
                     IF k + 1 \in s THEN Fold(kind, f[s \ {k + 1}], list[k + 1]) ELSE f[s]]
             h == [s \in SUBSET (1 .. k + 1) |->
                     IF s = {} THEN base ELSE Fold(kind, g[s \ {Max(s)}], list[Max(s)])]
  <2>2. ASSUME NEW s \in SUBSET (1 .. k + 1) PROVE g[s] = h[s]
    <3>1. CASE k + 1 \in s
      <4>1. Max(s) = k + 1
        BY <3>1, MaxIs
      <4>2. s \ {k + 1} \in SUBSET (1 .. k + 1) /\ k + 1 \notin s \ {k + 1}
        OBVIOUS
      <4>3. g[s \ {k + 1}] = f[s \ {k + 1}]
        BY <4>2
      <4>4. QED
        BY <3>1, <4>1, <4>3
    <3>2. CASE k + 1 \notin s
      <4>1. s \in SUBSET (1 .. k)
        BY <3>2
      <4>2. g[s] = f[s]
        BY <3>2
      <4>3. f[s] = IF s = {} THEN base ELSE Fold(kind, f[s \ {Max(s)}], list[Max(s)])
        BY <2>1, <4>1 DEF Iterates
      <4>4. s \ {Max(s)} \in SUBSET (1 .. k + 1) /\ k + 1 \notin s \ {Max(s)}
        BY <3>2
      <4>5. g[s \ {Max(s)}] = f[s \ {Max(s)}]
        BY <4>4
      <4>6. QED
        BY <4>2, <4>3, <4>5
    <3>3. QED
      BY <3>1, <3>2
  <2>3. g = h
    BY <2>2
  <2>4. Iterates(kind, g, k + 1, base, list)
    <3> HIDE DEF g
    <3>1. QED
      BY <2>3 DEF Iterates
  <2>5. QED
    BY <2>4
<1>3. n \in S
  <2> HIDE DEF S
  <2>1. QED
    BY <1>1, <1>2, CountUp
<1>4. QED
  BY <1>3

\* Its values at the beginnings of the list follow the list.
LEMMA IteratesFollows ==
  ASSUME NEW kind, NEW base, NEW list, NEW n \in Nat, Len(list) = n,
         NEW f, Iterates(kind, f, n, base, list)
  PROVE  Follows(kind, [k \in 0 .. n |-> f[1 .. k]], base, list)
<1> DEFINE t == [k \in 0 .. n |-> f[1 .. k]]
<1>1. t[0] = base
  <2>1. 1 .. 0 = {} /\ {} \in SUBSET (1 .. n)
    OBVIOUS
  <2>2. f[{}] = base
    BY <2>1 DEF Iterates
  <2>3. QED
    BY <2>1, <2>2
<1>2. ASSUME NEW k \in 1 .. n PROVE t[k] = Fold(kind, t[k - 1], list[k])
  <2>1. k \in 1 .. k /\ 1 .. k \in SUBSET Int /\ \A i \in 1 .. k : i <= k
    OBVIOUS
  <2>2. Max(1 .. k) = k
    BY <2>1, MaxIs
  <2>3. (1 .. k) \ {k} = 1 .. (k - 1) /\ 1 .. k \in SUBSET (1 .. n) /\ 1 .. k # {}
    <3>1. (1 .. k) \ {k} = 1 .. (k - 1)
      BY <2>1
    <3>2. \A i \in 1 .. k : i \in 1 .. n
      OBVIOUS
    <3>3. QED
      BY <2>1, <3>1, <3>2
  <2>4. f[1 .. k] = Fold(kind, f[(1 .. k) \ {Max(1 .. k)}], list[Max(1 .. k)])
    BY <2>3 DEF Iterates
  <2>5. f[1 .. k] = Fold(kind, f[1 .. (k - 1)], list[k])
    BY <2>2, <2>3, <2>4
  <2>6. QED
    BY <2>5
<1>3. QED
  BY <1>1, <1>2 DEF Follows

\* The last offsets follow the list of the sequences.
LEMMA RepFolds ==
  ASSUME NEW base, NEW R, NEW list \in Seq(R)
  PROVE  \E t : /\ Follows("rep", t, base, list)
                /\ FoldLeft(After, base, list) = t[Len(list)]
<1> DEFINE n == Len(list)
           f == CHOOSE f : f = [s \in SUBSET (1 .. n) |->
                  IF s = {} THEN base ELSE After(f[s \ {Max(s)}], list[Max(s)])]
<1>1. n \in Nat /\ DOMAIN list = 1 .. n
  OBVIOUS
<1>2. FoldLeft(After, base, list) = f[1 .. n]
  BY <1>1 DEF FoldLeft, MapThenFoldSet
<1>3. \A g : Iterates("rep", g, n, base, list) <=>
               g = [s \in SUBSET (1 .. n) |->
                      IF s = {} THEN base ELSE After(g[s \ {Max(s)}], list[Max(s)])]
  BY DEF Iterates, Fold
<1>4. Iterates("rep", f, n, base, list)
  BY <1>1, <1>3, IteratesExists
<1> HIDE DEF f
<1>5. Follows("rep", [k \in 0 .. n |-> f[1 .. k]], base, list)
  BY <1>1, <1>4, IteratesFollows
<1>6. [k \in 0 .. n |-> f[1 .. k]][n] = f[1 .. n]
  BY <1>1
<1>7. QED
  BY <1>2, <1>5, <1>6

\* So does what becomes of their codes.
LEMMA ResolveFolds ==
  ASSUME NEW base, NEW R, NEW list \in Seq(R)
  PROVE  \E t : /\ Follows("resolve", t, base, list)
                /\ FoldLeft(ResolveOffCode, base, list) = t[Len(list)]
<1> DEFINE n == Len(list)
           f == CHOOSE f : f = [s \in SUBSET (1 .. n) |->
                  IF s = {} THEN base ELSE ResolveOffCode(f[s \ {Max(s)}], list[Max(s)])]
<1>1. n \in Nat /\ DOMAIN list = 1 .. n
  OBVIOUS
<1>2. FoldLeft(ResolveOffCode, base, list) = f[1 .. n]
  BY <1>1 DEF FoldLeft, MapThenFoldSet
<1>3. \A g : Iterates("resolve", g, n, base, list) <=>
               g = [s \in SUBSET (1 .. n) |->
                      IF s = {} THEN base ELSE ResolveOffCode(g[s \ {Max(s)}], list[Max(s)])]
  BY DEF Iterates, Fold
<1>4. Iterates("resolve", f, n, base, list)
  BY <1>1, <1>3, IteratesExists
<1> HIDE DEF f
<1>5. Follows("resolve", [k \in 0 .. n |-> f[1 .. k]], base, list)
  BY <1>1, <1>4, IteratesFollows
<1>6. [k \in 0 .. n |-> f[1 .. k]][n] = f[1 .. n]
  BY <1>1
<1>7. QED
  BY <1>2, <1>5, <1>6

\* And what the decoder has read, with what it found wrong.
LEMMA DecodeFolds ==
  ASSUME NEW base, NEW R, NEW list \in Seq(R)
  PROVE  \E t : /\ Follows("decode", t, base, list)
                /\ FoldLeft(DecodeNext, base, list) = t[Len(list)]
<1> DEFINE n == Len(list)
           f == CHOOSE f : f = [s \in SUBSET (1 .. n) |->
                  IF s = {} THEN base ELSE DecodeNext(f[s \ {Max(s)}], list[Max(s)])]
<1>1. n \in Nat /\ DOMAIN list = 1 .. n
  OBVIOUS
<1>2. FoldLeft(DecodeNext, base, list) = f[1 .. n]
  BY <1>1 DEF FoldLeft, MapThenFoldSet
<1>3. \A g : Iterates("decode", g, n, base, list) <=>
               g = [s \in SUBSET (1 .. n) |->
                      IF s = {} THEN base ELSE DecodeNext(g[s \ {Max(s)}], list[Max(s)])]
  BY DEF Iterates, Fold
<1>4. Iterates("decode", f, n, base, list)
  BY <1>1, <1>3, IteratesExists
<1> HIDE DEF f
<1>5. Follows("decode", [k \in 0 .. n |-> f[1 .. k]], base, list)
  BY <1>1, <1>4, IteratesFollows
<1>6. [k \in 0 .. n |-> f[1 .. k]][n] = f[1 .. n]
  BY <1>1
<1>7. QED
  BY <1>2, <1>5, <1>6

\* And the decoder, block after block.
LEMMA BlockFolds ==
  ASSUME NEW base, NEW R, NEW list \in Seq(R)
  PROVE  \E t : /\ Follows("block", t, base, list)
                /\ FoldLeft(DecompressBlock_internal, base, list) = t[Len(list)]
<1> DEFINE n == Len(list)
           f == CHOOSE f : f = [s \in SUBSET (1 .. n) |->
                  IF s = {} THEN base ELSE DecompressBlock_internal(f[s \ {Max(s)}], list[Max(s)])]
<1>1. n \in Nat /\ DOMAIN list = 1 .. n
  OBVIOUS
<1>2. FoldLeft(DecompressBlock_internal, base, list) = f[1 .. n]
  BY <1>1 DEF FoldLeft, MapThenFoldSet
<1>3. \A g : Iterates("block", g, n, base, list) <=>
               g = [s \in SUBSET (1 .. n) |->
                      IF s = {} THEN base
                      ELSE DecompressBlock_internal(g[s \ {Max(s)}], list[Max(s)])]
  BY DEF Iterates, Fold
<1>4. Iterates("block", f, n, base, list)
  BY <1>1, <1>3, IteratesExists
<1> HIDE DEF f
<1>5. Follows("block", [k \in 0 .. n |-> f[1 .. k]], base, list)
  BY <1>1, <1>4, IteratesFollows
<1>6. [k \in 0 .. n |-> f[1 .. k]][n] = f[1 .. n]
  BY <1>1
<1>7. QED
  BY <1>2, <1>5, <1>6

Sequences == [ll0 : BOOLEAN, offBase : Nat \ {0}]

\* A list can be followed in one way only.
LEMMA FollowsOnce ==
  ASSUME NEW kind, NEW base, NEW R, NEW list \in Seq(R),
         NEW t, Follows(kind, t, base, list), NEW u, Follows(kind, u, base, list),
         NEW m \in 0 .. Len(list)
  PROVE  t[m] = u[m]
<1> DEFINE n == Len(list)
           S == {k \in Nat : k <= n => t[k] = u[k]}
<1>1. n \in Nat
  OBVIOUS
<1>2. 0 \in S
  BY DEF Follows
<1>3. ASSUME NEW k \in Nat, k \in S PROVE k + 1 \in S
  <2>1. SUFFICES ASSUME k + 1 <= n PROVE t[k + 1] = u[k + 1]
    OBVIOUS
  <2>2. k + 1 \in 1 .. n /\ (k + 1) - 1 = k /\ k <= n
    BY <2>1, <1>1
  <2>3. t[k] = u[k]
    BY <1>3, <2>2
  <2>4. QED
    BY <2>2, <2>3 DEF Follows
<1>4. m \in S
  <2> HIDE DEF S
  <2>1. QED
    BY <1>1, <1>2, <1>3, CountUp
<1>5. QED
  BY <1>4

\* What follows a list follows its beginnings.
LEMMA FollowsBeginning ==
  ASSUME NEW kind, NEW base, NEW R, NEW list \in Seq(R),
         NEW t, Follows(kind, t, base, list), NEW m \in 0 .. Len(list)
  PROVE  /\ SubSeq(list, 1, m) \in Seq(R)
         /\ Len(SubSeq(list, 1, m)) = m
         /\ Follows(kind, t, base, SubSeq(list, 1, m))
<1>1. SubSeq(list, 1, m) \in Seq(R) /\ Len(SubSeq(list, 1, m)) = m
  OBVIOUS
<1>2. \A k \in 1 .. m : SubSeq(list, 1, m)[k] = list[k] /\ k \in 1 .. Len(list)
  OBVIOUS
<1>3. QED
  BY <1>1, <1>2 DEF Follows

\* The last offsets before and after each sequence of a list.
LEMMA HistoryIs ==
  ASSUME NEW rep, NEW R, NEW list \in Seq(R), NEW t, Follows("rep", t, rep, list),
         NEW m \in 0 .. Len(list)
  PROVE  AfterSeqs(rep, SubSeq(list, 1, m)) = t[m]
<1> DEFINE part == SubSeq(list, 1, m)
<1>1. part \in Seq(R) /\ Len(part) = m /\ Follows("rep", t, rep, part)
  BY FollowsBeginning
<1>2. m \in 0 .. Len(part)
  BY <1>1
<1>3. AfterSeqs(rep, part) = FoldLeft(After, rep, part)
  BY DEF AfterSeqs
<1> HIDE DEF part
<1>4. PICK u : Follows("rep", u, rep, part) /\ FoldLeft(After, rep, part) = u[m]
  BY <1>1, RepFolds
<1>5. t[m] = u[m]
  BY <1>1, <1>2, <1>4, FollowsOnce
<1>6. QED
  BY <1>3, <1>4, <1>5 DEF part

LEMMA HistoryEnds ==
  ASSUME NEW rep, NEW R, NEW list \in Seq(R)
  PROVE  /\ AfterSeqs(rep, SubSeq(list, 1, 0)) = rep
         /\ AfterSeqs(rep, SubSeq(list, 1, Len(list))) = AfterSeqs(rep, list)
<1>1. PICK t : Follows("rep", t, rep, list)
  BY RepFolds
<1>2. AfterSeqs(rep, SubSeq(list, 1, 0)) = t[0]
  BY <1>1, HistoryIs
<1>3. SubSeq(list, 1, Len(list)) = list
  OBVIOUS
<1>4. QED
  BY <1>1, <1>2, <1>3 DEF Follows

LEMMA HistoryStep ==
  ASSUME NEW rep, NEW R, NEW list \in Seq(R), NEW i \in 1 .. Len(list)
  PROVE  AfterSeqs(rep, SubSeq(list, 1, i)) = After(Before(rep, list, i), list[i])
<1>1. PICK t : Follows("rep", t, rep, list)
  BY RepFolds
<1>2. \A m \in 0 .. Len(list) : AfterSeqs(rep, SubSeq(list, 1, m)) = t[m]
  BY <1>1, HistoryIs
<1>3. i \in 0 .. Len(list) /\ i - 1 \in 0 .. Len(list)
  OBVIOUS
<1>4. t[i] = After(t[i - 1], list[i])
  BY <1>1 DEF Follows, Fold
<1>5. QED
  BY <1>2, <1>3, <1>4 DEF Before

\* The decoder after no block, and after one more.
LEMMA BlocksNone ==
  ASSUME NEW d
  PROVE  FoldLeft(DecompressBlock_internal, d, <<>>) = d
<1>1. <<>> \in Seq({}) /\ Len(<<>>) = 0
  OBVIOUS
<1>2. PICK t : /\ Follows("block", t, d, <<>>)
               /\ FoldLeft(DecompressBlock_internal, d, <<>>) = t[Len(<<>>)]
  BY <1>1, BlockFolds
<1>3. QED
  BY <1>1, <1>2 DEF Follows

LEMMA BlocksAppend ==
  ASSUME NEW d, NEW R, NEW list \in Seq(R), NEW b \in R
  PROVE  FoldLeft(DecompressBlock_internal, d, Append(list, b)) =
           DecompressBlock_internal(FoldLeft(DecompressBlock_internal, d, list), b)
<1> DEFINE n == Len(list)
           more == Append(list, b)
<1>1. /\ n \in Nat /\ more \in Seq(R) /\ Len(more) = n + 1
      /\ more[n + 1] = b /\ SubSeq(more, 1, n) = list
  OBVIOUS
<1> HIDE DEF more
<1>2. PICK t : /\ Follows("block", t, d, more)
               /\ FoldLeft(DecompressBlock_internal, d, more) = t[n + 1]
  BY <1>1, BlockFolds
<1>3. PICK u : /\ Follows("block", u, d, list)
               /\ FoldLeft(DecompressBlock_internal, d, list) = u[n]
  BY BlockFolds
<1>4. n \in 0 .. Len(more) /\ n \in 0 .. Len(list)
  BY <1>1
<1>5. Follows("block", t, d, list)
  <2>1. Follows("block", t, d, SubSeq(more, 1, n))
    <3> HIDE DEF n
    <3>1. QED
      BY <1>1, <1>2, <1>4, FollowsBeginning
  <2>2. QED
    BY <2>1, <1>1
<1>6. t[n] = u[n]
  BY <1>3, <1>4, <1>5, FollowsOnce
<1>7. n + 1 \in 1 .. Len(more) /\ (n + 1) - 1 = n
  BY <1>1
<1>8. t[n + 1] = DecompressBlock_internal(t[n], b)
  BY <1>1, <1>2, <1>7 DEF Follows, Fold
<1>9. QED
  BY <1>2, <1>3, <1>6, <1>8 DEF more

-----------------------------------------------------------------------------
(* Codes of offsets. *)

Power(k) == 2 ^ k
HighBits(n) == {k \in 1 .. 30 : Power(k) <= n}

LEMMA HighBitsFinite ==
  ASSUME NEW n \in Nat, NEW m \in Nat, m <= n
  PROVE  /\ IsFiniteSet(HighBits(n))
         /\ OffCode(n) = Cardinality(HighBits(n))
         /\ OffCode(n) \in Nat
         /\ OffCode(m) <= OffCode(n)
<1>1. IsFiniteSet(1 .. 30)
  <2>1. 1 \in Int /\ 30 \in Int
    OBVIOUS
  <2>2. QED
    BY <2>1, FS_Interval
<1>2. HighBits(n) \subseteq 1 .. 30 /\ HighBits(m) \subseteq 1 .. 30
  BY DEF HighBits
<1>3. IsFiniteSet(HighBits(n)) /\ IsFiniteSet(HighBits(m))
  BY <1>1, <1>2, FS_Subset
<1>4. OffCode(n) = Cardinality(HighBits(n)) /\ OffCode(m) = Cardinality(HighBits(m))
  BY DEF OffCode, HighBits, Power
<1>5. HighBits(m) \subseteq HighBits(n)
  <2>1. ASSUME NEW k \in 1 .. 30 PROVE Power(k) \in Int
    BY DEF Power
  <2>2. QED
    BY <2>1 DEF HighBits
<1>6. Cardinality(HighBits(m)) <= Cardinality(HighBits(n))
  BY <1>3, <1>5, FS_Subset
<1>7. Cardinality(HighBits(n)) \in Nat
  BY <1>3, FS_CardinalityType
<1>8. QED
  BY <1>3, <1>4, <1>6, <1>7

\* The three codes that the decoder tells apart.
LEMMA OffCodeIs ==
  ASSUME NEW n \in Nat \ {0}
  PROVE  /\ OffCode(n) \in Nat
         /\ n = 1 => OffCode(n) = 0
         /\ n \in {2, 3} => OffCode(n) = 1
         /\ n > 3 => OffCode(n) > 1
<1>1. Power(1) = 2 /\ Power(2) = 4
  BY DEF Power
<1>2. ASSUME NEW k \in 3 .. 30 PROVE Power(k) > 3
  <2>1. k \in {3, 4, 5, 6, 7, 8, 9, 10, 11, 12, 13, 14, 15, 16, 17, 18, 19, 20, 21, 22,
               23, 24, 25, 26, 27, 28, 29, 30}
    OBVIOUS
  <2>2. /\ 2 ^ 3 > 3 /\ 2 ^ 4 > 3 /\ 2 ^ 5 > 3 /\ 2 ^ 6 > 3 /\ 2 ^ 7 > 3
      /\ 2 ^ 8 > 3 /\ 2 ^ 9 > 3 /\ 2 ^ 10 > 3 /\ 2 ^ 11 > 3 /\ 2 ^ 12 > 3
      /\ 2 ^ 13 > 3 /\ 2 ^ 14 > 3 /\ 2 ^ 15 > 3 /\ 2 ^ 16 > 3 /\ 2 ^ 17 > 3
      /\ 2 ^ 18 > 3 /\ 2 ^ 19 > 3 /\ 2 ^ 20 > 3 /\ 2 ^ 21 > 3 /\ 2 ^ 22 > 3
      /\ 2 ^ 23 > 3 /\ 2 ^ 24 > 3 /\ 2 ^ 25 > 3 /\ 2 ^ 26 > 3 /\ 2 ^ 27 > 3
      /\ 2 ^ 28 > 3 /\ 2 ^ 29 > 3 /\ 2 ^ 30 > 3
    OBVIOUS
  <2>3. QED
    BY <2>1, <2>2 DEF Power
<1>3. ASSUME NEW k \in 1 .. 30 PROVE Power(k) \in Int /\ Power(k) > 1 /\ (k # 1 => Power(k) > 3)
  <2>1. k = 1 \/ k = 2 \/ k \in 3 .. 30
    OBVIOUS
  <2>2. ASSUME k \in 3 .. 30 PROVE Power(k) > 3
    BY <2>2, <1>2
  <2>3. Power(k) \in Int
    BY DEF Power
  <2>4. QED
    BY <2>1, <2>2, <2>3, <1>1
<1>4. OffCode(n) \in Nat /\ OffCode(n) = Cardinality(HighBits(n)) /\ IsFiniteSet(HighBits(n))
  BY HighBitsFinite
<1>5. ASSUME n = 1 PROVE HighBits(n) = {}
  BY <1>3, <1>5 DEF HighBits
<1>6. ASSUME n \in {2, 3} PROVE HighBits(n) = {1}
  <2>1. 1 \in HighBits(n)
    BY <1>1, <1>6 DEF HighBits
  <2>2. ASSUME NEW k \in HighBits(n) PROVE k = 1
    BY <1>3, <1>6 DEF HighBits
  <2>3. QED
    BY <2>1, <2>2
<1>7. ASSUME n > 3 PROVE {1, 2} \subseteq HighBits(n)
  BY <1>1, <1>7 DEF HighBits
<1>8. Cardinality({}) = 0 /\ Cardinality({1}) = 1
  BY FS_EmptySet, FS_Singleton
<1>9. Cardinality({1, 2}) = 2
  <2>1. IsFiniteSet({1})
    BY FS_Singleton
  <2>2. Cardinality({1} \cup {2}) = Cardinality({1}) + 1
    BY <2>1, FS_AddElement
  <2>3. {1} \cup {2} = {1, 2}
    OBVIOUS
  <2>4. QED
    BY <2>2, <2>3, <1>8
<1>10. ASSUME n > 3 PROVE OffCode(n) > 1
  <2>1. Cardinality({1, 2}) <= Cardinality(HighBits(n))
    BY <1>4, <1>7, <1>10, FS_Subset
  <2>2. QED
    BY <2>1, <1>4, <1>9
<1>11. QED
  BY <1>4, <1>5, <1>6, <1>8, <1>10

-----------------------------------------------------------------------------
(* The last offsets on both sides. *)

Reps == [1 .. 3 -> Int]

\* The fast strategies do not keep the third of the last offsets, and never use it.
Agree(strategy, p, r) ==
  /\ p[1] = r[1]
  /\ p[2] = r[2]
  /\ strategy # "fast" => p[3] = r[3]
Within(strategy, s) == strategy = "fast" /\ s.offBase <= 3 => s.offBase = 1

LEMMA AfterType ==
  ASSUME NEW rep \in Reps, NEW s \in Sequences
  PROVE  After(rep, s) \in Reps
<1>1. \A a, b, c \in Int : <<a, b, c>> \in Reps
  BY DEF Reps
<1>2. s.offBase \in Nat \ {0} /\ s.ll0 \in BOOLEAN
  BY DEF Sequences
<1>3. rep[1] \in Int /\ rep[2] \in Int /\ rep[3] \in Int
  BY DEF Reps
<1>4. CASE s.offBase > 3
  BY <1>1, <1>2, <1>3, <1>4 DEF After, UpdateRep
<1>5. CASE s.offBase <= 3
  <2>1. s.offBase \in {1, 2, 3}
    BY <1>2, <1>5
  <2>2. CASE s.ll0
    BY <1>1, <1>3, <2>1, <2>2 DEF After, UpdateRep
  <2>3. CASE ~s.ll0
    BY <1>1, <1>3, <2>1, <2>3 DEF After, UpdateRep
  <2>4. QED
    BY <1>2, <2>2, <2>3
<1>6. QED
  BY <1>2, <1>4, <1>5

\* A history that agrees on what is kept decodes a sequence as it was meant, and
\* still agrees after it.
LEMMA DecodesAsMeant ==
  ASSUME NEW prev \in Reps, NEW rep \in Reps, NEW s \in Sequences, NEW strategy,
         Agree(strategy, prev, rep), Within(strategy, s)
  PROVE  /\ DecodeSequence(prev, s).offset = Resolve(rep, s.offBase, s.ll0)
         /\ DecodeSequence(prev, s).prev \in Reps
         /\ Agree(strategy, DecodeSequence(prev, s).prev, After(rep, s))
<1>1. \A a, b, c \in Int : <<a, b, c>> \in Reps
  BY DEF Reps
<1>2. s.offBase \in Nat \ {0} /\ s.ll0 \in BOOLEAN
  BY DEF Sequences
<1>3. /\ rep[1] \in Int /\ rep[2] \in Int /\ rep[3] \in Int
      /\ prev[1] \in Int /\ prev[2] \in Int /\ prev[3] \in Int
  BY DEF Reps
<1>4. CASE s.offBase > 3
  <2>1. OffCode(s.offBase) > 1
    BY <1>2, <1>4, OffCodeIs
  <2>2. DecodeSequence(prev, s) = [offset |-> s.offBase - 3,
                                   prev |-> <<s.offBase - 3, prev[1], prev[2]>>]
    BY <2>1 DEF DecodeSequence
  <2>3. Resolve(rep, s.offBase, s.ll0) = s.offBase - 3
    BY <1>2, <1>4 DEF Resolve
  <2>4. After(rep, s) = <<s.offBase - 3, rep[1], rep[2]>>
    BY <1>2, <1>4 DEF After, UpdateRep
  <2>5. QED
    BY <1>1, <1>2, <1>3, <2>2, <2>3, <2>4 DEF Agree
<1>5. CASE s.offBase = 1
  <2>1. OffCode(s.offBase) = 0 /\ ~(OffCode(s.offBase) > 1)
    BY <1>5, OffCodeIs
  <2>2. CASE s.ll0
    <3>1. DecodeSequence(prev, s) = [offset |-> prev[2], prev |-> <<prev[2], prev[1], prev[3]>>]
      BY <2>1, <2>2 DEF DecodeSequence
    <3>2. Resolve(rep, s.offBase, s.ll0) = rep[2]
      BY <1>5, <2>2 DEF Resolve
    <3>3. After(rep, s) = <<rep[2], rep[1], rep[3]>>
      BY <1>5, <2>2 DEF After, UpdateRep
    <3>4. QED
      BY <1>1, <1>3, <3>1, <3>2, <3>3 DEF Agree
  <2>3. CASE ~s.ll0
    <3>1. DecodeSequence(prev, s) = [offset |-> prev[1], prev |-> <<prev[1], prev[2], prev[3]>>]
      BY <2>1, <2>3 DEF DecodeSequence
    <3>2. Resolve(rep, s.offBase, s.ll0) = rep[1]
      BY <1>5, <2>3 DEF Resolve
    <3>3. After(rep, s) = rep
      BY <1>5, <2>3 DEF After, UpdateRep
    <3>4. QED
      BY <1>1, <1>3, <3>1, <3>2, <3>3 DEF Agree
  <2>4. QED
    BY <1>2, <2>2, <2>3
<1>6. CASE s.offBase \in {2, 3}
  <2>1. OffCode(s.offBase) = 1
    BY <1>6, OffCodeIs
  <2>2. strategy # "fast"
    BY <1>6 DEF Within
  <2>3. prev[1] = rep[1] /\ prev[2] = rep[2] /\ prev[3] = rep[3]
    BY <2>2 DEF Agree
  <2> DEFINE which == s.offBase - 1 + (IF s.ll0 THEN 1 ELSE 0)
             temp  == IF which = 3 THEN prev[1] - 1 ELSE prev[which + 1]
  <2>4. which \in {1, 2, 3} /\ temp \in Int
    BY <1>2, <1>3, <1>6
  <2>5. DecodeSequence(prev, s) =
          [offset |-> temp, prev |-> <<temp, prev[1], IF which # 1 THEN prev[2] ELSE prev[3]>>]
    BY <2>1 DEF DecodeSequence
  <2>6. Resolve(rep, s.offBase, s.ll0) = temp
    BY <1>2, <1>6, <2>3, <2>4 DEF Resolve
  <2>7. After(rep, s) = <<temp, rep[1], IF which # 1 THEN rep[2] ELSE rep[3]>>
    BY <1>2, <1>6, <2>3, <2>4 DEF After, UpdateRep
  <2> HIDE DEF temp, which
  <2>8. QED
    BY <1>1, <1>3, <2>3, <2>4, <2>5, <2>6, <2>7 DEF Agree
<1>7. QED
  BY <1>2, <1>4, <1>5, <1>6

\* A list of sequences was meant for the history h, as far as it is kept.
MeantFor(strategy, list, meant, h) ==
  /\ \A k \in 0 .. Len(list) : h[k] \in Reps
  /\ \A k \in 1 .. Len(list) :
        /\ h[k] = After(h[k - 1], list[k])
        /\ meant[k] = Resolve(h[k - 1], list[k].offBase, list[k].ll0)
        /\ Within(strategy, list[k])

MeantBetween(strategy, list, meant, before, after) ==
  \E h : /\ h[0] = before
         /\ h[Len(list)] = after
         /\ MeantFor(strategy, list, meant, h)

\* So does a whole list.
LEMMA SequencesDecode ==
  ASSUME NEW d, d.rep \in Reps, NEW b, b.seqs \in Seq(Sequences), NEW strategy, NEW h,
         Agree(strategy, d.rep, h[0]), MeantFor(strategy, b.seqs, b.meant, h)
  PROVE  \E r \in Reps :
            /\ DecodeSequences(d, b) = [d EXCEPT !.rep = r, !.wrong = d.wrong, !.fseEntropy = TRUE]
            /\ Agree(strategy, r, h[Len(b.seqs)])
<1> DEFINE list  == b.seqs
           meant == b.meant
           n     == Len(list)
           pairs == [i \in DOMAIN list |-> [seq |-> list[i], meant |-> meant[i]]]
           start == [prev |-> d.rep, wrong |-> d.wrong]
           R     == {pairs[i] : i \in 1 .. n}
<1>1. n \in Nat /\ DOMAIN list = 1 .. n
  OBVIOUS
<1>2. pairs \in Seq(R) /\ Len(pairs) = n
  BY <1>1
<1>3. \A i \in 1 .. n : pairs[i].seq = list[i] /\ pairs[i].meant = meant[i]
  BY <1>1
<1>4. DecodeSequences(d, b) =
        [d EXCEPT !.rep = FoldLeft(DecodeNext, start, pairs).prev,
                  !.wrong = FoldLeft(DecodeNext, start, pairs).wrong,
                  !.fseEntropy = TRUE]
  BY DEF DecodeSequences
<1>5. start.prev = d.rep /\ start.wrong = d.wrong
  OBVIOUS
<1>6. /\ \A k \in 0 .. n : h[k] \in Reps
      /\ \A k \in 1 .. n : /\ h[k] = After(h[k - 1], list[k])
                            /\ meant[k] = Resolve(h[k - 1], list[k].offBase, list[k].ll0)
                            /\ Within(strategy, list[k])
  BY DEF MeantFor
<1>7. list \in Seq(Sequences) /\ Agree(strategy, d.rep, h[0])
  OBVIOUS
<1> HIDE DEF pairs, start, R, meant
<1>8. PICK t : /\ Follows("decode", t, start, pairs)
               /\ FoldLeft(DecodeNext, start, pairs) = t[n]
  <2>1. \E t : /\ Follows("decode", t, start, pairs)
               /\ FoldLeft(DecodeNext, start, pairs) = t[Len(pairs)]
    BY <1>2, DecodeFolds
  <2>2. QED
    BY <1>2, <2>1
<1> DEFINE S == {k \in Nat : k <= n =>
                   t[k].prev \in Reps /\ t[k].wrong = d.wrong /\ Agree(strategy, t[k].prev, h[k])}
<1>9. 0 \in S
  BY <1>5, <1>8, <1>7 DEF Follows
<1>10. ASSUME NEW k \in Nat, k \in S PROVE k + 1 \in S
  <2>1. SUFFICES ASSUME k + 1 <= n
                 PROVE  /\ t[k + 1].prev \in Reps
                        /\ t[k + 1].wrong = d.wrong
                        /\ Agree(strategy, t[k + 1].prev, h[k + 1])
    OBVIOUS
  <2>2. k + 1 \in 1 .. n /\ (k + 1) - 1 = k /\ k <= n /\ k \in 0 .. n
    BY <2>1, <1>1
  <2>3. t[k].prev \in Reps /\ t[k].wrong = d.wrong /\ Agree(strategy, t[k].prev, h[k])
    BY <1>10, <2>2
  <2> DEFINE s   == list[k + 1]
             got == DecodeSequence(t[k].prev, s)
  <2>4. s \in Sequences /\ h[k] \in Reps
    BY <1>6, <1>7, <2>2
  <2>5. /\ h[k + 1] = After(h[k], s) /\ meant[k + 1] = Resolve(h[k], s.offBase, s.ll0)
        /\ Within(strategy, s)
    BY <1>6, <2>2
  <2>6. t[k + 1] = DecodeNext(t[k], pairs[k + 1])
    BY <1>2, <1>8, <2>2 DEF Follows, Fold
  <2>7. t[k + 1] = [prev  |-> got.prev,
                    wrong |-> t[k].wrong \cup
                                  (IF got.offset = meant[k + 1] THEN {} ELSE {"offset"})]
    BY <1>3, <2>2, <2>6 DEF DecodeNext
  <2> HIDE DEF s
  <2>8. got.offset = Resolve(h[k], s.offBase, s.ll0) /\ got.prev \in Reps
        /\ Agree(strategy, got.prev, After(h[k], s))
    BY <2>3, <2>4, <2>5, DecodesAsMeant
  <2> HIDE DEF got
  <2>9. QED
    BY <2>3, <2>5, <2>7, <2>8
<1>11. n \in S
  <2> HIDE DEF S
  <2>1. QED
    BY <1>1, <1>9, <1>10, CountUp
<1>12. t[n].prev \in Reps /\ t[n].wrong = d.wrong /\ Agree(strategy, t[n].prev, h[n])
  BY <1>1, <1>11
<1>13. QED
  BY <1>4, <1>8, <1>12

-----------------------------------------------------------------------------
(* Sequences that may be stored, and the codes that replace them when a part of
   a block has not reached the decoder. *)

CodesReach(first, s) == first => OffCode(s.offBase) <= FirstReach
AllReach(first, list) == \A k \in 1 .. Len(list) : CodesReach(first, list[k])

LEMMA ResolveType ==
  ASSUME NEW rep \in Reps, NEW s \in Sequences
  PROVE  Resolve(rep, s.offBase, s.ll0) \in Int
<1>1. s.offBase \in Nat \ {0} /\ s.ll0 \in BOOLEAN
  BY DEF Sequences
<1>2. rep[1] \in Int /\ rep[2] \in Int /\ rep[3] \in Int
  BY DEF Reps
<1>3. CASE s.offBase > 3
  BY <1>1, <1>3 DEF Resolve
<1>4. CASE s.offBase \in {1, 2, 3}
  <2>1. CASE s.ll0
    BY <1>2, <1>4, <2>1 DEF Resolve
  <2>2. CASE ~s.ll0
    BY <1>2, <1>4, <2>2 DEF Resolve
  <2>3. QED
    BY <1>1, <2>1, <2>2
<1>5. QED
  BY <1>1, <1>3, <1>4

LEMMA StoredReach ==
  ASSUME NEW rep \in Reps, NEW s \in Sequences, NEW strategy, NEW first \in BOOLEAN,
         MayStore(strategy, first, rep, s)
  PROVE  /\ Resolve(rep, s.offBase, s.ll0) \in Nat \ {0}
         /\ Within(strategy, s)
         /\ CodesReach(first, s)
         /\ first => OffCode(3 + Resolve(rep, s.offBase, s.ll0)) <= FirstReach
<1> DEFINE meant == Resolve(rep, s.offBase, s.ll0)
<1>1. meant \in Nat \ {0}
  BY ResolveType DEF MayStore
<1>2. Within(strategy, s)
  BY DEF MayStore, Within
<1>3. first => OffCode(3 + meant) <= FirstReach
  BY DEF MayStore, Reach
<1>4. s.offBase \in Nat \ {0}
  BY DEF Sequences
<1>5. s.offBase <= 3 + meant
  <2>1. CASE s.offBase > 3
    BY <1>4, <2>1 DEF Resolve
  <2>2. CASE s.offBase <= 3
    BY <1>1, <1>4, <2>2
  <2>3. QED
    BY <1>4, <2>1, <2>2
<1> HIDE DEF meant
<1>6. OffCode(s.offBase) <= OffCode(3 + meant) /\ OffCode(s.offBase) \in Nat
      /\ OffCode(3 + meant) \in Nat
  BY <1>1, <1>4, <1>5, HighBitsFinite
<1>7. FirstReach \in Nat
  BY BlocksAssumption
<1>8. QED
  BY <1>1, <1>2, <1>3, <1>6, <1>7 DEF CodesReach, meant

\* A code that is left, or replaced, means for the decoder what it meant.
LEMMA UnmistakenMeans ==
  ASSUME NEW dRep \in Reps, NEW rep \in Reps, NEW s \in Sequences, NEW strategy,
         NEW first \in BOOLEAN, MayStore(strategy, first, rep, s)
  PROVE  LET u == Unmistaken(dRep, rep, s) IN
         /\ u \in Sequences
         /\ Resolve(dRep, u.offBase, u.ll0) = Resolve(rep, s.offBase, s.ll0)
         /\ Within(strategy, u)
         /\ CodesReach(first, u)
<1> DEFINE meant == Resolve(rep, s.offBase, s.ll0)
           u     == Unmistaken(dRep, rep, s)
<1>1. /\ meant \in Nat \ {0}
      /\ Within(strategy, s)
      /\ CodesReach(first, s)
      /\ first => OffCode(3 + meant) <= FirstReach
  BY StoredReach
<1>2. s.offBase \in Nat \ {0} /\ s.ll0 \in BOOLEAN
  BY DEF Sequences
<1>3. CASE s.offBase <= 3 /\ Resolve(dRep, s.offBase, s.ll0) # meant
  <2>1. u = [s EXCEPT !.offBase = 3 + meant]
    BY <1>3 DEF Unmistaken
  <2>2. u \in Sequences /\ u.offBase = 3 + meant
    BY <2>1, <1>1 DEF Sequences
  <2> HIDE DEF meant, u
  <2>3. Resolve(dRep, u.offBase, u.ll0) = meant
    BY <2>2, <1>1 DEF Resolve
  <2>4. Within(strategy, u) /\ CodesReach(first, u)
    BY <2>2, <1>1 DEF Within, CodesReach
  <2>5. QED
    BY <2>2, <2>3, <2>4 DEF u, meant
<1>4. CASE ~(s.offBase <= 3 /\ Resolve(dRep, s.offBase, s.ll0) # meant)
  <2>1. u = s
    BY <1>4 DEF Unmistaken
  <2>2. Resolve(dRep, s.offBase, s.ll0) = meant
    <3>1. CASE s.offBase > 3
      BY <1>2, <3>1 DEF Resolve
    <3>2. CASE s.offBase <= 3
      BY <1>4, <3>2
    <3>3. QED
      BY <1>2, <3>1, <3>2
  <2>3. QED
    BY <2>1, <2>2, <1>1
<1>5. QED
  BY <1>3, <1>4

\* The list was found with the history h.
FoundWith(strategy, first, list, h) ==
  \A k \in 1 .. Len(list) : MayStore(strategy, first, h[k - 1], list[k])
FoundBetween(strategy, first, list, meant, before, after) ==
  \E h : /\ h[0] = before
         /\ h[Len(list)] = after
         /\ MeantFor(strategy, list, meant, h)
         /\ FoundWith(strategy, first, list, h)

\* What ZSTD_seqStore_resolveOffCodes makes of a list means the same for the history of
\* the decoder, from dRep to what dRep is left as.
LEMMA ResolvedCodes ==
  ASSUME NEW dRep \in Reps, NEW list \in Seq(Sequences), NEW strategy,
         NEW first \in BOOLEAN, NEW meant, NEW cRep, NEW end,
         FoundBetween(strategy, first, list, meant, cRep, end)
  PROVE  LET r == ResolveOffCodes(dRep, cRep, list) IN
         /\ r.seqs \in Seq(Sequences)
         /\ r.cRep = end
         /\ r.dRep \in Reps
         /\ AllReach(first, r.seqs)
         /\ MeantBetween(strategy, r.seqs, meant, dRep, r.dRep)
<1> DEFINE n     == Len(list)
           start == [dRep |-> dRep, cRep |-> cRep, seqs |-> <<>>]
           r     == ResolveOffCodes(dRep, cRep, list)
<1>1. PICK h : /\ h[0] = cRep
               /\ h[n] = end
               /\ MeantFor(strategy, list, meant, h)
               /\ FoundWith(strategy, first, list, h)
  BY DEF FoundBetween
<1>2. /\ \A k \in 0 .. n : h[k] \in Reps
      /\ \A k \in 1 .. n : /\ h[k] = After(h[k - 1], list[k])
                            /\ meant[k] = Resolve(h[k - 1], list[k].offBase, list[k].ll0)
                            /\ MayStore(strategy, first, h[k - 1], list[k])
  BY <1>1 DEF MeantFor, FoundWith
<1>3. n \in Nat
  OBVIOUS
<1>4. r = FoldLeft(ResolveOffCode, start, list)
  BY DEF ResolveOffCodes
<1>5. start.dRep = dRep /\ start.cRep = cRep /\ start.seqs = <<>>
  OBVIOUS
<1> HIDE DEF start, r
<1>6. PICK t : Follows("resolve", t, start, list) /\ r = t[n]
  BY <1>4, ResolveFolds
<1> DEFINE u == [k \in 1 .. n |-> Unmistaken(t[k - 1].dRep, t[k - 1].cRep, list[k])]
           P(k) == /\ t[k].dRep \in Reps
                   /\ t[k].cRep = h[k]
                   /\ t[k].seqs \in Seq(Sequences)
                   /\ Len(t[k].seqs) = k
                   /\ \A j \in 1 .. k : t[k].seqs[j] = u[j]
           S == {k \in Nat : k <= n => P(k)}
<1>7. 0 \in S
  <2>1. t[0] = start
    BY <1>6 DEF Follows
  <2>2. t[0].dRep \in Reps /\ t[0].cRep = h[0] /\ t[0].seqs = <<>>
    BY <1>5, <1>1, <2>1
  <2>3. <<>> \in Seq(Sequences) /\ Len(<<>>) = 0
    OBVIOUS
  <2>4. P(0)
    <3> HIDE DEF u
    <3>1. QED
      BY <2>2, <2>3
  <2> HIDE DEF P
  <2>5. QED
    BY <2>4
<1>8. ASSUME NEW k \in 1 .. n
      PROVE  t[k] = [dRep |-> After(t[k - 1].dRep, u[k]), cRep |-> After(t[k - 1].cRep, list[k]),
                     seqs |-> Append(t[k - 1].seqs, u[k])]
  <2>1. t[k] = ResolveOffCode(t[k - 1], list[k])
    BY <1>6 DEF Follows, Fold
  <2>2. QED
    BY <2>1 DEF ResolveOffCode
<1>9. ASSUME NEW k \in 1 .. n, t[k - 1].dRep \in Reps, t[k - 1].cRep = h[k - 1]
      PROVE  /\ u[k] \in Sequences
             /\ Resolve(t[k - 1].dRep, u[k].offBase, u[k].ll0) =
                  Resolve(h[k - 1], list[k].offBase, list[k].ll0)
             /\ Within(strategy, u[k])
             /\ CodesReach(first, u[k])
  <2>1. k - 1 \in 0 .. n /\ list[k] \in Sequences
    BY <1>3
  <2>2. h[k - 1] \in Reps /\ MayStore(strategy, first, h[k - 1], list[k])
    BY <1>2, <2>1
  <2>3. u[k] = Unmistaken(t[k - 1].dRep, h[k - 1], list[k])
    BY <1>9
  <2> HIDE DEF u
  <2>4. QED
    BY <1>9, <2>1, <2>2, <2>3, UnmistakenMeans
<1>10. ASSUME NEW k \in Nat, k \in S PROVE k + 1 \in S
  <2>1. SUFFICES ASSUME k + 1 <= n PROVE P(k + 1)
    <3> HIDE DEF P
    <3>1. QED
      OBVIOUS
  <2>2. k + 1 \in 1 .. n /\ (k + 1) - 1 = k /\ k <= n
    BY <2>1, <1>3
  <2>3. /\ t[k].dRep \in Reps
        /\ t[k].cRep = h[k]
        /\ t[k].seqs \in Seq(Sequences)
        /\ Len(t[k].seqs) = k
        /\ \A j \in 1 .. k : t[k].seqs[j] = u[j]
    <3>1. P(k)
      <4> HIDE DEF P
      <4>1. QED
        BY <1>10, <2>2
    <3> HIDE DEF u, S
    <3>2. QED
      BY <3>1
  <2> HIDE DEF u, S
  <2>4. u[k + 1] \in Sequences
    BY <1>9, <2>2, <2>3
  <2>5. t[k + 1] = [dRep |-> After(t[k].dRep, u[k + 1]), cRep |-> After(t[k].cRep, list[k + 1]),
                    seqs |-> Append(t[k].seqs, u[k + 1])]
    BY <1>8, <2>2
  <2>6. t[k + 1].dRep \in Reps
    BY <2>3, <2>4, <2>5, AfterType
  <2>7. h[k + 1] = After(h[k], list[k + 1])
    BY <1>2, <2>2
  <2>8. /\ Append(t[k].seqs, u[k + 1]) \in Seq(Sequences)
        /\ Len(Append(t[k].seqs, u[k + 1])) = k + 1
        /\ \A j \in 1 .. k : Append(t[k].seqs, u[k + 1])[j] = t[k].seqs[j]
        /\ Append(t[k].seqs, u[k + 1])[k + 1] = u[k + 1]
    BY <2>3, <2>4
  <2>9. QED
    BY <2>3, <2>5, <2>6, <2>7, <2>8
<1>11. \A k \in 0 .. n : k \in S
  <2> HIDE DEF S
  <2>1. QED
    BY <1>3, <1>7, <1>10, CountUp
<1>12. \A k \in 0 .. n : t[k].dRep \in Reps /\ t[k].cRep = h[k]
  <2>1. \A k \in 0 .. n : P(k)
    <3> HIDE DEF P
    <3>1. QED
      BY <1>11
  <2> HIDE DEF u, S
  <2>2. QED
    BY <2>1
<1>13. /\ r.seqs \in Seq(Sequences) /\ Len(r.seqs) = n /\ r.cRep = h[n]
       /\ \A j \in 1 .. n : r.seqs[j] = u[j]
  <2>1. P(n)
    <3> HIDE DEF P
    <3>1. QED
      BY <1>3, <1>11
  <2> HIDE DEF u, S
  <2>2. QED
    BY <1>3, <1>6, <2>1
<1> HIDE DEF S, u
<1> DEFINE g == [k \in 0 .. n |-> t[k].dRep]
<1>14. g[0] = dRep /\ g[n] = r.dRep /\ \A k \in 0 .. n : g[k] \in Reps
  <2>1. 0 \in 0 .. n /\ n \in 0 .. n
    BY <1>3
  <2>2. t[0] = start
    BY <1>6 DEF Follows
  <2>3. QED
    BY <1>5, <1>6, <1>12, <2>1, <2>2
<1>15. ASSUME NEW k \in 1 .. n
       PROVE  /\ g[k] = After(g[k - 1], r.seqs[k])
              /\ Resolve(h[k - 1], list[k].offBase, list[k].ll0) =
                   Resolve(g[k - 1], r.seqs[k].offBase, r.seqs[k].ll0)
              /\ Within(strategy, r.seqs[k])
              /\ CodesReach(first, r.seqs[k])
  <2>1. k - 1 \in 0 .. n /\ k \in 0 .. n
    BY <1>3
  <2>2. g[k] = t[k].dRep /\ g[k - 1] = t[k - 1].dRep
    BY <2>1
  <2>3. t[k - 1].dRep \in Reps /\ t[k - 1].cRep = h[k - 1]
    BY <1>12, <2>1
  <2>4. t[k].dRep = After(t[k - 1].dRep, u[k])
    <3>1. t[k] = [dRep |-> After(t[k - 1].dRep, u[k]), cRep |-> After(t[k - 1].cRep, list[k]),
                  seqs |-> Append(t[k - 1].seqs, u[k])]
      BY <1>8
    <3> HIDE DEF g
    <3>2. QED
      BY <3>1
  <2> HIDE DEF g
  <2>5. QED
    BY <1>9, <1>13, <2>2, <2>3, <2>4
<1> HIDE DEF g
<1>16. MeantFor(strategy, r.seqs, meant, g)
  BY <1>13, <1>14, <1>15, <1>2 DEF MeantFor
<1>17. r.dRep \in Reps
  <2>1. n \in 0 .. n
    BY <1>3
  <2>2. QED
    BY <1>14, <2>1
<1>18. MeantBetween(strategy, r.seqs, meant, dRep, r.dRep)
  BY <1>13, <1>14, <1>16 DEF MeantBetween
<1>19. AllReach(first, r.seqs)
  BY <1>13, <1>15 DEF AllReach
<1>20. QED
  BY <1>13, <1>17, <1>1, <1>18, <1>19 DEF r

-----------------------------------------------------------------------------
(* Entropy tables on both sides. *)

Modes     == {"none", "check", "valid"}
Table     == [id : Nat, cover : SUBSET Nat]
Entries   == [table : Table, mode : Modes]
Entropies == [Kinds -> Entries]
Decoders  == [rep : Reps, table : [Kinds -> Table], litEntropy : BOOLEAN,
              fseEntropy : BOOLEAN, wrong : SUBSET STRING]

\* A table called valid has a symbol for all that the next block may need.
Sufficient(entropy, first) ==
  /\ \A k \in {"huf", "ll"} : entropy[k].mode = "valid" => Codes(k) \subseteq entropy[k].table.cover
  /\ entropy["of"].mode = "valid" => first /\ 0 .. FirstReach \subseteq entropy["of"].table.cover

\* The decoder has every table that may be repeated, and knows that it has.
Shared(d, entropy) ==
  \A k \in Kinds : entropy[k].mode # "none" =>
     /\ d.table[k] = entropy[k].table
     /\ IF k = "huf" THEN d.litEntropy ELSE d.fseEntropy

LEMMA KindsAre ==
  /\ Kinds = {"of", "ll", "huf"} /\ Streams = {"of", "ll"}
  /\ Codes("huf") = {0, 1} /\ Codes("ll") = {0, 1}
BY DEF Kinds, Streams, Codes

LEMMA NeedType ==
  ASSUME NEW stream \in Streams, NEW list \in Seq(Sequences)
  PROVE  /\ NeedOf(stream, list) \in SUBSET Nat
         /\ IsFiniteSet(NeedOf(stream, list))
         /\ stream = "ll" => NeedOf(stream, list) \subseteq {0, 1}
         /\ list # <<>> => NeedOf(stream, list) # {}
<1> DEFINE D == DOMAIN list
<1>1. D = 1 .. Len(list) /\ Len(list) \in Nat /\ IsFiniteSet(D)
  <2>1. DOMAIN list = 1 .. Len(list) /\ Len(list) \in Nat
    OBVIOUS
  <2>2. IsFiniteSet(1 .. Len(list))
    <3>1. 1 \in Int /\ Len(list) \in Int
      OBVIOUS
    <3>2. QED
      BY <3>1, FS_Interval
  <2>3. QED
    BY <2>1, <2>2
<1>2. \A i \in D : list[i] \in Sequences
  OBVIOUS
<1>3. list # <<>> => D # {}
  <2>1. list # <<>> => Len(list) # 0
    BY EmptySeq
  <2>2. Len(list) # 0 => 1 \in 1 .. Len(list)
    BY <1>1
  <2>3. QED
    BY <1>1, <2>1, <2>2
<1>4. \A i \in D : list[i].offBase \in Nat \ {0}
  BY <1>2 DEF Sequences
<1>5. CASE stream = "of"
  <2> DEFINE f(i) == OffCode(list[i].offBase)
  <2>1. NeedOf(stream, list) = {f(i) : i \in D}
    BY <1>5 DEF NeedOf
  <2>2. \A i \in D : f(i) \in Nat
    BY <1>4, OffCodeIs
  <2> HIDE DEF f
  <2>3. IsFiniteSet({f(i) : i \in D})
    <3>1. {f(i) : i \in D} = {[j \in D |-> f(j)][i] : i \in D}
      OBVIOUS
    <3> DEFINE F == [i \in D |-> f(i)]
    <3>2. F \in Surjection(D, {F[i] : i \in D})
      BY DEF Surjection
    <3>3. QED
      BY <1>1, <3>1, <3>2, FS_Surjection
  <2>4. QED
    BY <1>5, <1>3, <2>1, <2>2, <2>3
<1>6. CASE stream = "ll"
  <2>1. NeedOf(stream, list) = {IF list[i].ll0 THEN 0 ELSE 1 : i \in D}
    BY <1>6 DEF NeedOf
  <2>2. NeedOf(stream, list) \subseteq {0, 1}
    BY <2>1
  <2>3. IsFiniteSet({0, 1})
    <3>1. IsFiniteSet({0})
      BY FS_Singleton
    <3>2. IsFiniteSet({0} \cup {1})
      BY <3>1, FS_AddElement
    <3>3. {0} \cup {1} = {0, 1}
      OBVIOUS
    <3>4. QED
      BY <3>2, <3>3
  <2>4. IsFiniteSet(NeedOf(stream, list))
    BY <2>2, <2>3, FS_Subset
  <2>5. NeedOf(stream, list) \in SUBSET Nat
    BY <2>2
  <2>6. list # <<>> => NeedOf(stream, list) # {}
    <3> DEFINE f(i) == IF list[i].ll0 THEN 0 ELSE 1
    <3>1. NeedOf(stream, list) = {f(i) : i \in D}
      BY <2>1
    <3> HIDE DEF f
    <3>2. D # {} => {f(i) : i \in D} # {}
      OBVIOUS
    <3>3. QED
      BY <1>3, <3>1, <3>2
  <2>7. QED
    BY <1>6, <2>2, <2>4, <2>5, <2>6
<1>7. QED
  BY <1>5, <1>6, KindsAre

\* Two tables are never all that an identity can be.
LEMMA FreshType ==
  ASSUME NEW s \in Table, NEW t \in Table, NEW need \in SUBSET Nat
  PROVE  FreshTable({s, t}, need) \in Table /\ FreshTable({s, t}, need).cover = need
<1>1. \E i \in 1 .. 3 : s.id # i /\ t.id # i
  <2>1. s.id \in Nat /\ t.id \in Nat
    BY DEF Table
  <2>2. (s.id # 1 /\ t.id # 1) \/ (s.id # 2 /\ t.id # 2) \/ (s.id # 3 /\ t.id # 3)
    BY <2>1
  <2>3. QED
    BY <2>2
<1>2. (CHOOSE i \in 1 .. 3 : \A x \in {s, t} : x.id # i) \in 1 .. 3
  <2>1. \E i \in 1 .. 3 : \A x \in {s, t} : x.id # i
    BY <1>1
  <2>2. QED
    BY <2>1
<1>3. QED
  BY <1>2 DEF FreshTable, Table

LEMMA FreshOf ==
  ASSUME NEW kind \in Kinds, bprev.entropy \in Entropies, bdec \in Decoders,
         NEW need \in SUBSET Nat
  PROVE  FreshTable(Tables(kind), need) \in Table /\ FreshTable(Tables(kind), need).cover = need
<1>1. bprev.entropy[kind].table \in Table /\ bdec.table[kind] \in Table
  BY DEF Entropies, Entries, Decoders
<1>2. QED
  BY <1>1, FreshType DEF Tables

\* How literals may be written, and what that leaves.
LEMMA LiteralChoice ==
  ASSUME bprev.entropy \in Entropies, bdec \in Decoders,
         NEW old \in Entries, old.mode = "valid" => Codes("huf") \subseteq old.table.cover,
         NEW c \in LiteralCodings(old)
  PROVE  /\ c.type \in {"raw", "repeat", "compressed"}
         /\ c.next \in Entries
         /\ c.type = "raw" => c.next = old
         /\ c.type = "repeat" => c.next = old /\ old.mode # "none"
         /\ c.type # "raw" => Codes("huf") \subseteq c.next.table.cover
         /\ c.next.mode = "valid" => c.next = old
<1> DEFINE fresh == FreshTable(Tables("huf"), Codes("huf"))
<1>1. fresh \in Table /\ fresh.cover = Codes("huf")
  <2>1. Codes("huf") \in SUBSET Nat /\ "huf" \in Kinds
    BY KindsAre
  <2>2. QED
    BY <2>1, FreshOf
<1> HIDE DEF fresh
<1>2. \/ c = [type |-> "raw", next |-> old]
      \/ c = [type |-> "repeat", next |-> old]
         /\ (old.mode = "valid" \/ (old.mode = "check" /\ Codes("huf") \subseteq old.table.cover))
      \/ c = [type |-> "compressed", next |-> [table |-> fresh, mode |-> "check"]]
  BY DEF LiteralCodings, fresh
<1>3. [table |-> fresh, mode |-> "check"] \in Entries
  BY <1>1 DEF Entries, Modes
<1>4. QED
  BY <1>1, <1>2, <1>3

StreamChosen(stream, old, list, c) ==
  /\ c.type \in {"rle", "basic", "repeat", "compressed"}
  /\ c.next \in Entries
  /\ NeedOf(stream, list) \subseteq c.next.table.cover
  /\ c.type = "repeat" => c.next = old /\ old.mode # "none"
  /\ c.type = "basic" => c.next.table = DefaultTable(stream)
  /\ c.type \in {"rle", "basic"} => c.next.mode = "none"
  /\ c.next.mode = "valid" => c.next = old

\* How the codes of sequences may be written, and what that leaves: the table has a
\* symbol for each of them, and one that is repeated is there.
LEMMA StreamChoice ==
  ASSUME bprev.entropy \in Entropies, bdec \in Decoders,
         NEW stream \in Streams, NEW strategy, NEW old \in Entries,
         NEW list \in Seq(Sequences), list # <<>>,
         old.mode = "valid" => NeedOf(stream, list) \subseteq old.table.cover,
         NEW c \in StreamCodings(stream, strategy, old, list)
  PROVE  StreamChosen(stream, old, list, c)
<1> DEFINE need    == NeedOf(stream, list)
           allowed == stream = "of" => need \subseteq 0 .. DefaultReach
           fresh   == FreshTable(Tables(stream), need)
           code    == CHOOSE x \in need : TRUE
<1>1. need \in SUBSET Nat /\ IsFiniteSet(need) /\ need # {}
      /\ (stream = "ll" => need \subseteq {0, 1})
  BY NeedType
<1>2. PICK t \in SelectEncodingType(strategy, old, need, Len(list), allowed) :
         c = [type |-> t, next |-> BuildCTable(stream, t, old, need)]
  BY DEF StreamCodings
<1>3. DefaultReach \in Nat
  BY BlocksAssumption
<1> HIDE DEF need
<1>4. \/ t = "rle" /\ Cardinality(need) = 1
      \/ t = "basic" /\ allowed
      \/ t = "repeat" /\ old.mode # "none" /\ (old.mode = "valid" \/ need \subseteq old.table.cover)
      \/ t = "compressed"
  BY <1>2 DEF SelectEncodingType
<1>5. stream \in Kinds
  BY KindsAre
<1>6. CASE t = "rle" /\ Cardinality(need) = 1
  <2>1. \E x : need = {x}
    BY <1>1, <1>6, FS_Singleton
  <2>2. need = {code} /\ code \in Nat
    BY <2>1, <1>1
  <2>3. c = [type |-> "rle", next |-> [table |-> RleTable(code), mode |-> "none"]]
    BY <1>2, <1>6 DEF BuildCTable
  <2> HIDE DEF code
  <2>4. RleTable(code) \in Table /\ RleTable(code).cover = {code}
    BY <2>2 DEF RleTable, Table
  <2>5. c.next \in Entries
    BY <2>3, <2>4 DEF Entries, Modes
  <2>6. QED
    BY <2>2, <2>3, <2>4, <2>5 DEF need, StreamChosen
<1>7. CASE t = "basic" /\ allowed
  <2>1. c = [type |-> "basic", next |-> [table |-> DefaultTable(stream), mode |-> "none"]]
    BY <1>2, <1>7 DEF BuildCTable
  <2>2. DefaultTable(stream) \in Table /\ need \subseteq DefaultTable(stream).cover
    <3>1. CASE stream = "of"
      BY <1>3, <1>7, <3>1 DEF DefaultTable, Table
    <3>2. CASE stream = "ll"
      BY <1>1, <3>2, KindsAre DEF DefaultTable, Table
    <3>3. QED
      BY <3>1, <3>2, KindsAre
  <2>3. c.next \in Entries
    BY <2>1, <2>2 DEF Entries, Modes
  <2>4. QED
    BY <2>1, <2>2, <2>3 DEF need, StreamChosen
<1>8. CASE t = "repeat" /\ old.mode # "none"
           /\ (old.mode = "valid" \/ need \subseteq old.table.cover)
  <2>1. c = [type |-> "repeat", next |-> old]
    BY <1>2, <1>8 DEF BuildCTable
  <2>2. need \subseteq old.table.cover
    BY <1>8 DEF need
  <2>3. QED
    BY <1>8, <2>1, <2>2 DEF need, StreamChosen
<1>9. CASE t = "compressed"
  <2>1. c = [type |-> "compressed", next |-> [table |-> fresh, mode |-> "check"]]
    BY <1>2, <1>9 DEF BuildCTable
  <2>2. fresh \in Table /\ fresh.cover = need
    BY <1>1, <1>5, FreshOf
  <2> HIDE DEF fresh
  <2>3. c.next \in Entries
    BY <2>1, <2>2 DEF Entries, Modes
  <2>4. QED
    BY <2>1, <2>2, <2>3 DEF need, StreamChosen
<1>10. QED
  BY <1>4, <1>6, <1>7, <1>8, <1>9

-----------------------------------------------------------------------------
(* One block, decoded. *)

\* What the decoder needs to have, and the block to say, for its literals and, when it
\* has any, for its sequences.
LiteralsReadable(d, types, tables) ==
  /\ types["huf"] \in {"raw", "compressed", "repeat"}
  /\ types["huf"] = "repeat" => d.litEntropy /\ d.table["huf"] = tables["huf"]
  /\ types["huf"] # "raw" => Codes("huf") \subseteq tables["huf"].cover
SequencesReadable(d, types, tables, list) ==
  \A s \in Streams :
    /\ NeedOf(s, list) \subseteq tables[s].cover
    /\ types[s] = "repeat" => d.fseEntropy /\ d.table[s] = tables[s]
    /\ types[s] = "basic" => tables[s] = DefaultTable(s)

LEMMA LiteralsDecode ==
  ASSUME NEW d \in Decoders, NEW b, b.tables \in [Kinds -> Table],
         LiteralsReadable(d, b.types, b.tables)
  PROVE  LET e == DecodeLiterals(d, b) IN
         /\ e \in Decoders
         /\ e.wrong = d.wrong /\ e.rep = d.rep /\ e.fseEntropy = d.fseEntropy
         /\ e.table["huf"] = IF b.types["huf"] = "compressed" THEN b.tables["huf"]
                             ELSE d.table["huf"]
         /\ \A s \in Streams : e.table[s] = d.table[s]
         /\ d.litEntropy \/ b.types["huf"] = "compressed" => e.litEntropy
<1> DEFINE e == DecodeLiterals(d, b)
           type == b.types["huf"]
           huf == b.tables["huf"]
<1>1. "huf" \in Kinds /\ \A s \in Streams : s \in Kinds /\ s # "huf"
  BY KindsAre
<1>2. /\ d.rep \in Reps /\ d.table \in [Kinds -> Table] /\ d.litEntropy \in BOOLEAN
      /\ d.fseEntropy \in BOOLEAN /\ d.wrong \in SUBSET STRING
      /\ huf \in Table
  BY <1>1 DEF Decoders
<1>3. CASE type = "raw"
  <2>1. e = d
    BY <1>3 DEF DecodeLiterals
  <2>2. QED
    BY <1>3, <2>1
<1>4. CASE type = "compressed"
  <2>1. e = [d EXCEPT !.table["huf"] = huf, !.litEntropy = TRUE]
    BY <1>4 DEF DecodeLiterals
  <2>2. e \in Decoders
    <3> DEFINE table == [d.table EXCEPT !["huf"] = huf]
    <3>1. table \in [Kinds -> Table]
      BY <1>1, <1>2
    <3>2. e = [d EXCEPT !.table = table, !.litEntropy = TRUE]
      BY <2>1 DEF Decoders
    <3> HIDE DEF table, e
    <3>3. QED
      BY <3>1, <3>2 DEF Decoders
  <2>3. /\ e.wrong = d.wrong /\ e.rep = d.rep /\ e.fseEntropy = d.fseEntropy
        /\ e.table = [d.table EXCEPT !["huf"] = huf] /\ e.litEntropy
    BY <2>1 DEF Decoders
  <2>4. e.table["huf"] = huf /\ \A s \in Streams : e.table[s] = d.table[s]
    BY <1>1, <1>2, <2>3
  <2>5. QED
    BY <1>4, <2>2, <2>3, <2>4
<1>5. CASE type = "repeat"
  <2>1. e = [d EXCEPT !.wrong = d.wrong \cup (IF d.litEntropy THEN {} ELSE {"no literal table"})]
    BY <1>5 DEF DecodeLiterals
  <2>2. d.litEntropy
    BY <1>5 DEF LiteralsReadable
  <2>3. e = [d EXCEPT !.wrong = d.wrong]
    BY <2>1, <2>2
  <2>4. e = d
    BY <2>3 DEF Decoders
  <2>5. QED
    BY <1>5, <2>4
<1>6. QED
  BY <1>3, <1>4, <1>5 DEF LiteralsReadable

LEMMA HeadersDecode ==
  ASSUME NEW d \in Decoders, NEW b, b.tables \in [Kinds -> Table], NEW list,
         SequencesReadable(d, b.types, b.tables, list)
  PROVE  LET e == DecodeSeqHeaders(d, b) IN
         /\ e \in Decoders
         /\ e.wrong = d.wrong /\ e.rep = d.rep /\ e.litEntropy = d.litEntropy
         /\ e.table["huf"] = d.table["huf"]
         /\ \A s \in Streams : e.table[s] = b.tables[s]
<1> DEFINE e == DecodeSeqHeaders(d, b)
           table == [k \in Kinds |->
                       IF k = "huf" \/ b.types[k] = "repeat" THEN d.table[k]
                       ELSE IF b.types[k] = "basic" THEN DefaultTable(k)
                       ELSE b.tables[k]]
           missing == ~d.fseEntropy /\ \E s \in Streams : b.types[s] = "repeat"
<1>1. "huf" \in Kinds /\ \A s \in Streams : s \in Kinds /\ s # "huf"
  BY KindsAre
<1>2. /\ d.rep \in Reps /\ d.table \in [Kinds -> Table] /\ d.litEntropy \in BOOLEAN
      /\ d.fseEntropy \in BOOLEAN /\ d.wrong \in SUBSET STRING
  BY DEF Decoders
<1>3. ~missing
  BY DEF SequencesReadable
<1>4. e = [d EXCEPT !.table = table,
                    !.wrong = d.wrong \cup (IF missing THEN {"no sequence table"} ELSE {})]
  BY DEF DecodeSeqHeaders
<1>5. \A s \in Streams : table[s] = b.tables[s]
  BY <1>1 DEF SequencesReadable
<1>6. table["huf"] = d.table["huf"]
  BY <1>1
<1>7. table \in [Kinds -> Table]
  <2>1. \A k \in Kinds : table[k] \in Table
    BY <1>1, <1>2, <1>5, <1>6, KindsAre
  <2>2. table = [k \in Kinds |-> table[k]]
    OBVIOUS
  <2> HIDE DEF table
  <2>3. QED
    BY <2>1, <2>2
<1> HIDE DEF table, missing
<1>8. e = [d EXCEPT !.table = table, !.wrong = d.wrong]
  BY <1>3, <1>4
<1>9. e \in Decoders
  BY <1>2, <1>7, <1>8 DEF Decoders
<1>10. e.wrong = d.wrong /\ e.rep = d.rep /\ e.litEntropy = d.litEntropy /\ e.table = table
  BY <1>8 DEF Decoders
<1>11. QED
  BY <1>5, <1>6, <1>9, <1>10

LEMMA CodedIsRight ==
  ASSUME NEW d \in Decoders, NEW b, b.tables \in [Kinds -> Table], NEW list, b.seqs = list,
         b.types["huf"] # "raw" =>
            d.table["huf"] = b.tables["huf"] /\ Codes("huf") \subseteq b.tables["huf"].cover,
         list # <<>> => \A s \in Streams : d.table[s] = b.tables[s]
                                            /\ NeedOf(s, list) \subseteq b.tables[s].cover
  PROVE  Coded(d, b) = d
<1> DEFINE used == {s \in Streams : list # <<>>}
                   \cup (IF b.types["huf"] \in {"compressed", "repeat"} THEN {"huf"} ELSE {})
           need(k) == IF k = "huf" THEN Codes(k) ELSE NeedOf(k, list)
           another == \E k \in used : d.table[k] # b.tables[k]
           lacking == \E k \in used : ~(need(k) \subseteq b.tables[k].cover)
<1>1. \A s \in Streams : s # "huf"
  BY KindsAre
<1>2. ~another
  OBVIOUS
<1>3. ~lacking
  BY <1>1
<1>4. Coded(d, b) = [d EXCEPT !.wrong = d.wrong \cup (IF another THEN {"another table"} ELSE {})
                                                 \cup (IF lacking THEN {"no symbol"} ELSE {})]
  BY DEF Coded
<1> HIDE DEF another, lacking
<1>5. Coded(d, b) = [d EXCEPT !.wrong = d.wrong]
  BY <1>2, <1>3, <1>4
<1>6. QED
  BY <1>5 DEF Decoders

\* A block that is readable and was meant for a history which the decoder shares is
\* decoded without fault, and the decoder goes on with its tables and history.
LEMMA BlockDecodes ==
  ASSUME NEW d \in Decoders, NEW b, NEW strategy, NEW before, NEW after,
         b.tables \in [Kinds -> Table], b.seqs \in Seq(Sequences),
         LiteralsReadable(d, b.types, b.tables),
         b.seqs # <<>> => SequencesReadable(d, b.types, b.tables, b.seqs),
         MeantBetween(strategy, b.seqs, b.meant, before, after),
         Agree(strategy, d.rep, before)
  PROVE  LET e == DecompressBlock_internal(d, b) IN
         /\ e \in Decoders
         /\ e.wrong = d.wrong
         /\ Agree(strategy, e.rep, after)
         /\ e.table["huf"] = IF b.types["huf"] = "compressed" THEN b.tables["huf"]
                             ELSE d.table["huf"]
         /\ d.litEntropy \/ b.types["huf"] = "compressed" => e.litEntropy
         /\ \A s \in Streams : e.table[s] = IF b.seqs = <<>> THEN d.table[s] ELSE b.tables[s]
         /\ d.fseEntropy \/ b.seqs # <<>> => e.fseEntropy
<1> DEFINE e    == DecompressBlock_internal(d, b)
           list == b.seqs
           l    == DecodeLiterals(d, b)
<1>1. PICK h : /\ h[0] = before
               /\ h[Len(list)] = after
               /\ MeantFor(strategy, list, b.meant, h)
  BY DEF MeantBetween
<1>2. /\ l \in Decoders
      /\ l.wrong = d.wrong /\ l.rep = d.rep /\ l.fseEntropy = d.fseEntropy
      /\ l.table["huf"] = IF b.types["huf"] = "compressed" THEN b.tables["huf"]
                          ELSE d.table["huf"]
      /\ \A s \in Streams : l.table[s] = d.table[s]
      /\ d.litEntropy \/ b.types["huf"] = "compressed" => l.litEntropy
  BY LiteralsDecode
<1>3. b.types["huf"] # "raw" =>
        l.table["huf"] = b.tables["huf"] /\ Codes("huf") \subseteq b.tables["huf"].cover
  BY <1>2 DEF LiteralsReadable
<1>4. Agree(strategy, l.rep, h[0])
  BY <1>2, <1>1
<1> HIDE DEF l
<1>5. CASE list = <<>>
  <2>1. e = Coded(l, b)
    BY <1>5 DEF DecompressBlock_internal, l
  <2>2. Coded(l, b) = l
    BY <1>2, <1>3, <1>5, CodedIsRight
  <2>3. Len(list) = 0
    BY <1>5
  <2>4. QED
    BY <1>2, <1>4, <1>5, <1>1, <2>1, <2>2, <2>3
<1>6. CASE list # <<>>
  <2> DEFINE g == DecodeSeqHeaders(l, b)
  <2>1. SequencesReadable(l, b.types, b.tables, list)
    BY <1>2, <1>6 DEF SequencesReadable
  <2>2. /\ g \in Decoders
        /\ g.wrong = l.wrong /\ g.rep = l.rep /\ g.litEntropy = l.litEntropy
        /\ g.table["huf"] = l.table["huf"]
        /\ \A s \in Streams : g.table[s] = b.tables[s]
    <3>1. l \in Decoders
      BY <1>2
    <3> HIDE DEF g, list
    <3>2. QED
      BY <2>1, <3>1, HeadersDecode DEF g
  <2>3. e = DecodeSequences(Coded(g, b), b)
    BY <1>6 DEF DecompressBlock_internal, l
  <2> HIDE DEF g
  <2>4. Coded(g, b) = g
    <3>1. \A s \in Streams : NeedOf(s, list) \subseteq b.tables[s].cover
      BY <2>1 DEF SequencesReadable
    <3>2. QED
      BY <1>3, <2>2, <3>1, CodedIsRight
  <2>5. PICK r \in Reps :
          /\ DecodeSequences(g, b) = [g EXCEPT !.rep = r, !.wrong = g.wrong, !.fseEntropy = TRUE]
          /\ Agree(strategy, r, h[Len(list)])
    <3>1. g.rep \in Reps /\ Agree(strategy, g.rep, h[0])
      BY <1>4, <2>2 DEF Decoders
    <3>2. QED
      BY <1>1, <3>1, SequencesDecode
  <2>6. e = [g EXCEPT !.rep = r, !.wrong = g.wrong, !.fseEntropy = TRUE]
    BY <2>3, <2>4, <2>5
  <2>7. e \in Decoders
    BY <2>2, <2>6 DEF Decoders
  <2>8. /\ e.wrong = g.wrong /\ e.rep = r /\ e.litEntropy = g.litEntropy
        /\ e.fseEntropy /\ e.table = g.table
    BY <2>2, <2>6 DEF Decoders
  <2>9. QED
    BY <1>2, <1>6, <1>1, <2>2, <2>5, <2>7, <2>8
<1>7. QED
  BY <1>5, <1>6

-----------------------------------------------------------------------------
(* A choice of how to write a block, and what it leaves. *)

\* What is known of every choice for a list after the entropy old.
LiteralsChosen(old, choice) ==
  /\ choice["huf"].type \in {"raw", "repeat", "compressed"}
  /\ choice["huf"].type = "raw" => choice["huf"].next = old["huf"]
  /\ choice["huf"].type = "repeat" => choice["huf"].next = old["huf"] /\ old["huf"].mode # "none"
  /\ choice["huf"].type # "raw" => Codes("huf") \subseteq choice["huf"].next.table.cover
SequencesChosen(old, list, choice) ==
  \A s \in Streams :
    IF list = <<>> THEN choice[s].next = old[s] \/ choice[s].next.mode = "none"
    ELSE /\ choice[s].type \in {"rle", "basic", "repeat", "compressed"}
         /\ NeedOf(s, list) \subseteq choice[s].next.table.cover
         /\ choice[s].type = "repeat" => choice[s].next = old[s] /\ old[s].mode # "none"
         /\ choice[s].type = "basic" => choice[s].next.table = DefaultTable(s)
         /\ choice[s].type \in {"rle", "basic"} => choice[s].next.mode = "none"
NextChosen(old, choice) ==
  \A k \in Kinds : choice[k].next \in Entries
                   /\ (choice[k].next.mode = "valid" => choice[k].next = old[k])

LEMMA ValidCovers ==
  ASSUME NEW old \in Entropies, NEW first \in BOOLEAN, Sufficient(old, first),
         NEW list \in Seq(Sequences), AllReach(first, list),
         NEW s \in Streams, old[s].mode = "valid"
  PROVE  NeedOf(s, list) \subseteq old[s].table.cover
<1>1. CASE s = "of"
  <2>1. first /\ 0 .. FirstReach \subseteq old["of"].table.cover
    BY <1>1 DEF Sufficient
  <2>2. ASSUME NEW i \in DOMAIN list PROVE OffCode(list[i].offBase) \in 0 .. FirstReach
    <3>1. i \in 1 .. Len(list) /\ list[i] \in Sequences
      OBVIOUS
    <3>2. list[i].offBase \in Nat \ {0}
      BY <3>1 DEF Sequences
    <3>3. OffCode(list[i].offBase) \in Nat
      BY <3>2, OffCodeIs
    <3>4. OffCode(list[i].offBase) <= FirstReach
      BY <2>1, <3>1 DEF AllReach, CodesReach
    <3>5. QED
      BY <3>3, <3>4, BlocksAssumption
  <2>3. NeedOf(s, list) = {OffCode(list[i].offBase) : i \in DOMAIN list}
    BY <1>1 DEF NeedOf
  <2>4. QED
    BY <1>1, <2>1, <2>2, <2>3
<1>2. CASE s = "ll"
  <2>1. NeedOf(s, list) \subseteq {0, 1}
    BY <1>2, NeedType
  <2>2. QED
    BY <1>2, <2>1, KindsAre DEF Sufficient
<1>3. QED
  BY <1>1, <1>2, KindsAre

LEMMA ChoiceIs ==
  ASSUME bprev.entropy \in Entropies, bdec \in Decoders,
         NEW old \in Entropies, NEW first \in BOOLEAN, Sufficient(old, first),
         NEW list \in Seq(Sequences), AllReach(first, list),
         NEW strategy,
         NEW choice \in Codings(old, list, strategy) \cup SuperCodings(old, list, strategy)
  PROVE  /\ LiteralsChosen(old, choice)
         /\ SequencesChosen(old, list, choice)
         /\ NextChosen(old, choice)
         /\ DOMAIN choice = Kinds
<1> DEFINE of(s) == IF list = <<>> THEN {[type |-> "none", next |-> old[s]]}
                    ELSE StreamCodings(s, strategy, old[s], list)
           whole == [huf : LiteralCodings(old["huf"]), of : of("of"), ll : of("ll")]
           none  == [huf : LiteralCodings(old["huf"]),
                     of : {DummyStatistics(old["of"])}, ll : {DummyStatistics(old["ll"])}]
<1>1. choice \in whole \/ (list = <<>> /\ choice \in none)
  BY DEF Codings, SuperCodings
<1>2. /\ DOMAIN choice = Kinds
      /\ choice["huf"] \in LiteralCodings(old["huf"])
      /\ \A s \in Streams :
            choice[s] \in of(s) \/ (list = <<>> /\ choice[s] = DummyStatistics(old[s]))
  <2> HIDE DEF of
  <2>1. CASE choice \in whole
    BY <2>1, KindsAre
  <2>2. CASE list = <<>> /\ choice \in none
    BY <2>2, KindsAre
  <2>3. QED
    BY <1>1, <2>1, <2>2
<1>3. \A k \in Kinds : old[k] \in Entries
  BY DEF Entropies
<1>4. LiteralsChosen(old, choice) /\ choice["huf"].next \in Entries
      /\ (choice["huf"].next.mode = "valid" => choice["huf"].next = old["huf"])
  <2>1. /\ old["huf"] \in Entries
        /\ old["huf"].mode = "valid" => Codes("huf") \subseteq old["huf"].table.cover
    BY <1>3, KindsAre DEF Sufficient
  <2> DEFINE huf == old["huf"]
             c   == choice["huf"]
  <2>2. huf \in Entries /\ (huf.mode = "valid" => Codes("huf") \subseteq huf.table.cover)
        /\ c \in LiteralCodings(huf)
    BY <1>2, <2>1
  <2> HIDE DEF huf, c
  <2>3. /\ c.type \in {"raw", "repeat", "compressed"}
        /\ c.next \in Entries
        /\ c.type = "raw" => c.next = huf
        /\ c.type = "repeat" => c.next = huf /\ huf.mode # "none"
        /\ c.type # "raw" => Codes("huf") \subseteq c.next.table.cover
        /\ c.next.mode = "valid" => c.next = huf
    BY <2>2, LiteralChoice
  <2>4. QED
    BY <2>3 DEF LiteralsChosen, huf, c
<1>5. ASSUME NEW s \in Streams, list = <<>>
      PROVE  /\ choice[s].next = old[s] \/ choice[s].next.mode = "none"
             /\ choice[s].next \in Entries
             /\ choice[s].next.mode = "valid" => choice[s].next = old[s]
  <2>1. old[s] \in Entries
    BY <1>3, KindsAre
  <2>2. choice[s] = [type |-> "none", next |-> old[s]] \/ choice[s] = DummyStatistics(old[s])
    BY <1>2, <1>5
  <2>3. CASE choice[s] = DummyStatistics(old[s])
    <3>1. choice[s].next = [old[s] EXCEPT !.mode = "none"]
      BY <2>3 DEF DummyStatistics
    <3>2. choice[s].next \in Entries /\ choice[s].next.mode = "none"
      BY <2>1, <3>1 DEF Entries, Modes
    <3>3. QED
      BY <3>2
  <2>4. CASE choice[s] = [type |-> "none", next |-> old[s]]
    BY <2>1, <2>4
  <2>5. QED
    BY <2>2, <2>3, <2>4
<1>6. ASSUME NEW s \in Streams, list # <<>>
      PROVE  /\ choice[s].type \in {"rle", "basic", "repeat", "compressed"}
             /\ NeedOf(s, list) \subseteq choice[s].next.table.cover
             /\ choice[s].type = "repeat" => choice[s].next = old[s] /\ old[s].mode # "none"
             /\ choice[s].type = "basic" => choice[s].next.table = DefaultTable(s)
             /\ choice[s].type \in {"rle", "basic"} => choice[s].next.mode = "none"
             /\ choice[s].next \in Entries
             /\ choice[s].next.mode = "valid" => choice[s].next = old[s]
  <2> DEFINE had == old[s]
             c   == choice[s]
  <2>1. had \in Entries
    BY <1>3, KindsAre
  <2>2. c \in StreamCodings(s, strategy, had, list)
    BY <1>2, <1>6
  <2>3. had.mode = "valid" => NeedOf(s, list) \subseteq had.table.cover
    BY ValidCovers
  <2> HIDE DEF had, c
  <2>4. StreamChosen(s, had, list, c)
    BY <1>6, <2>1, <2>2, <2>3, StreamChoice
  <2>5. QED
    BY <2>4 DEF StreamChosen, had, c
<1> HIDE DEF of
<1>7. SequencesChosen(old, list, choice)
  BY <1>5, <1>6 DEF SequencesChosen
<1>8. NextChosen(old, choice)
  <2>1. ASSUME NEW s \in Streams
        PROVE  /\ choice[s].next \in Entries
               /\ choice[s].next.mode = "valid" => choice[s].next = old[s]
    BY <1>5, <1>6
  <2>2. QED
    BY <1>4, <2>1, KindsAre DEF NextChosen
<1>9. QED
  BY <1>2, <1>4, <1>7, <1>8

\* What is not called valid by a choice is not called so after it; nothing that is
\* called valid for offsets remains so after a block.
Previous == [rep : Reps, entropy : Entropies]
Covers(entropy) ==
  \A k \in {"huf", "ll"} : entropy[k].mode = "valid" => Codes(k) \subseteq entropy[k].table.cover

LEMMA NextIs ==
  ASSUME NEW old \in Entropies, Covers(old), NEW choice, NextChosen(old, choice)
  PROVE  /\ NextEntropy(choice) \in Entropies
         /\ Covers(NextEntropy(choice))
         /\ \A k \in Kinds : NextEntropy(choice)[k] = choice[k].next
<1>1. \A k \in Kinds : NextEntropy(choice)[k] = choice[k].next
  BY DEF NextEntropy
<1>2. NextEntropy(choice) = [k \in Kinds |-> choice[k].next]
  BY DEF NextEntropy
<1>3. NextEntropy(choice) \in Entropies
  BY <1>2 DEF NextChosen, Entropies
<1>4. Covers(NextEntropy(choice))
  BY <1>1, KindsAre DEF NextChosen, Covers
<1>5. QED
  BY <1>1, <1>3, <1>4

LEMMA DowngradedIs ==
  ASSUME NEW p \in Previous, Covers(p.entropy), NEW first \in BOOLEAN, NEW d,
         Shared(d, p.entropy)
  PROVE  /\ Downgraded(p) \in Previous
         /\ Downgraded(p).rep = p.rep
         /\ Sufficient(Downgraded(p).entropy, first)
         /\ Shared(d, Downgraded(p).entropy)
<1> DEFINE q == Downgraded(p)
           e == p.entropy
<1>1. p.rep \in Reps /\ e \in Entropies
  BY DEF Previous
<1>2. e["of"] \in Entries
  BY <1>1, KindsAre DEF Entropies
<1>3. CASE e["of"].mode = "valid"
  <2>1. q = [p EXCEPT !.entropy["of"].mode = "check"]
    BY <1>3 DEF Downgraded
  <2> DEFINE was == e["of"]
             of  == [was EXCEPT !.mode = "check"]
  <2>2. q = [p EXCEPT !.entropy = [e EXCEPT !["of"] = of]]
    BY <2>1
  <2>3. of \in Entries /\ of.mode = "check" /\ of.table = was.table
    BY <1>2 DEF Entries, Modes
  <2> HIDE DEF q, e, of, was
  <2>4. q.rep = p.rep /\ q.entropy = [e EXCEPT !["of"] = of] /\ q \in Previous
    <3>1. [e EXCEPT !["of"] = of] \in Entropies
      BY <1>1, <2>3 DEF Entropies
    <3> DEFINE new == [e EXCEPT !["of"] = of]
    <3>2. q = [p EXCEPT !.entropy = new] /\ new \in Entropies
      BY <2>2, <3>1
    <3> HIDE DEF new
    <3>3. q.rep = p.rep /\ q.entropy = new /\ q \in Previous
      BY <3>2 DEF Previous
    <3>4. QED
      BY <3>3 DEF new
  <2>5. /\ q.entropy["of"] = of
        /\ \A k \in Kinds : k # "of" => q.entropy[k] = e[k]
    BY <1>1, <2>4, KindsAre DEF Entropies
  <2>6. Sufficient(q.entropy, first)
    BY <2>3, <2>5, KindsAre DEF Sufficient, Covers, e
  <2>7. Shared(d, q.entropy)
    BY <1>3, <2>3, <2>5, KindsAre DEF Shared, was, e
  <2>8. QED
    BY <2>4, <2>6, <2>7 DEF q
<1>4. CASE e["of"].mode # "valid"
  <2>1. q = p
    BY <1>4 DEF Downgraded
  <2>2. QED
    BY <1>4, <2>1 DEF Sufficient, Covers
<1>5. QED
  BY <1>3, <1>4

\* A block that was written by a choice is decoded, and leaves with the decoder the
\* tables that may be repeated.
LEMMA CompressedDecodes ==
  ASSUME NEW old \in Entropies, NEW d \in Decoders, Shared(d, old),
         NEW list \in Seq(Sequences), NEW choice,
         LiteralsChosen(old, choice), SequencesChosen(old, list, choice), NextChosen(old, choice),
         NEW strategy, NEW meant, NEW before, NEW after,
         MeantBetween(strategy, list, meant, before, after), Agree(strategy, d.rep, before)
  PROVE  LET e == DecompressBlock_internal(d, CompressedBlock(choice, list, meant)) IN
         /\ e \in Decoders
         /\ e.wrong = d.wrong
         /\ Agree(strategy, e.rep, after)
         /\ Shared(e, NextEntropy(choice))
<1> DEFINE b == CompressedBlock(choice, list, meant)
           e == DecompressBlock_internal(d, b)
<1>1. /\ b.seqs = list /\ b.meant = meant
      /\ b.types = [k \in Kinds |-> choice[k].type]
      /\ b.tables = [k \in Kinds |-> choice[k].next.table]
  BY DEF CompressedBlock
<1>2. /\ \A k \in Kinds : b.types[k] = choice[k].type /\ b.tables[k] = choice[k].next.table
      /\ "huf" \in Kinds /\ \A s \in Streams : s \in Kinds /\ s # "huf"
  BY <1>1, KindsAre
<1>3. b.tables \in [Kinds -> Table]
  BY <1>1 DEF NextChosen, Entries
<1> HIDE DEF b
<1>4. LiteralsReadable(d, b.types, b.tables)
  BY <1>2 DEF LiteralsReadable, LiteralsChosen, Shared
<1>5. ASSUME list # <<>> PROVE SequencesReadable(d, b.types, b.tables, b.seqs)
  BY <1>1, <1>2, <1>5 DEF SequencesReadable, SequencesChosen, Shared
<1>6. /\ e \in Decoders
      /\ e.wrong = d.wrong
      /\ Agree(strategy, e.rep, after)
      /\ e.table["huf"] = IF b.types["huf"] = "compressed" THEN b.tables["huf"]
                          ELSE d.table["huf"]
      /\ d.litEntropy \/ b.types["huf"] = "compressed" => e.litEntropy
      /\ \A s \in Streams : e.table[s] = IF b.seqs = <<>> THEN d.table[s] ELSE b.tables[s]
      /\ d.fseEntropy \/ b.seqs # <<>> => e.fseEntropy
  BY <1>1, <1>3, <1>4, <1>5, BlockDecodes
<1> HIDE DEF e
<1>7. ASSUME choice["huf"].next.mode # "none"
      PROVE  e.table["huf"] = choice["huf"].next.table /\ e.litEntropy
  BY <1>2, <1>6, <1>7 DEF LiteralsChosen, Shared
<1>8. ASSUME NEW s \in Streams, choice[s].next.mode # "none"
      PROVE  e.table[s] = choice[s].next.table /\ e.fseEntropy
  <2>1. CASE list = <<>>
    <3>1. choice[s].next = old[s]
      BY <1>8, <2>1 DEF SequencesChosen
    <3>2. d.table[s] = old[s].table /\ d.fseEntropy
      BY <1>2, <1>8, <3>1 DEF Shared
    <3>3. QED
      BY <1>1, <1>6, <2>1, <3>1, <3>2
  <2>2. CASE list # <<>>
    BY <1>1, <1>2, <1>6, <2>2
  <2>3. QED
    BY <2>1, <2>2
<1>9. \A k \in Kinds : NextEntropy(choice)[k] = choice[k].next
  BY DEF NextEntropy
<1>10. Shared(e, NextEntropy(choice))
  BY <1>7, <1>8, <1>9, KindsAre DEF Shared
<1>11. QED
  BY <1>1, <1>6, <1>10 DEF e, b

-----------------------------------------------------------------------------
(* A list that may be stored, its histories, and its parts. *)

LEMMA StoredHistory ==
  ASSUME NEW rep \in Reps, NEW strategy, NEW first \in BOOLEAN,
         NEW list \in SeqsFrom(strategy, first, rep)
  PROVE  LET h(m) == AfterSeqs(rep, SubSeq(list, 1, m)) IN
         /\ list \in Seq(Sequences)
         /\ h(0) = rep /\ h(Len(list)) = AfterSeqs(rep, list)
         /\ \A k \in 0 .. Len(list) : h(k) \in Reps
         /\ \A k \in 1 .. Len(list) :
               /\ h(k) = After(h(k - 1), list[k])
               /\ MayStore(strategy, first, h(k - 1), list[k])
               /\ Within(strategy, list[k])
               /\ CodesReach(first, list[k])
               /\ Meant(rep, list)[k] = Resolve(h(k - 1), list[k].offBase, list[k].ll0)
         /\ Meant(rep, list) \in Seq(Int) /\ Len(Meant(rep, list)) = Len(list)
<1> DEFINE h(m) == AfterSeqs(rep, SubSeq(list, 1, m))
           n    == Len(list)
<1>1. list \in Seq(Sequences)
  BY BlocksAssumption DEF SeqsFrom, Sequences
<1>2. n \in Nat /\ DOMAIN list = 1 .. n
  BY <1>1
<1>3. /\ h(0) = rep /\ h(n) = AfterSeqs(rep, list)
      /\ \A k \in 1 .. n : h(k) = After(Before(rep, list, k), list[k])
  <2>1. AfterSeqs(rep, SubSeq(list, 1, 0)) = rep
    BY <1>1, HistoryEnds
  <2>2. AfterSeqs(rep, SubSeq(list, 1, Len(list))) = AfterSeqs(rep, list)
    BY <1>1, HistoryEnds
  <2>3. ASSUME NEW k \in 1 .. Len(list)
        PROVE  AfterSeqs(rep, SubSeq(list, 1, k)) = After(Before(rep, list, k), list[k])
    BY <1>1, HistoryStep
  <2>4. QED
    BY <2>1, <2>2, <2>3
<1>4. \A k \in 1 .. n : Before(rep, list, k) = h(k - 1)
  BY DEF Before
<1>5. \A k \in 1 .. n : MayStore(strategy, first, Before(rep, list, k), list[k])
  BY <1>2 DEF SeqsFrom
<1>6. \A k \in 1 .. n : list[k] \in Sequences
  BY <1>1, <1>2
<1>7. \A k \in 1 .. n :
         Meant(rep, list)[k] = Resolve(Before(rep, list, k), list[k].offBase, list[k].ll0)
  BY <1>2 DEF Meant
<1> HIDE DEF h
<1>8. \A k \in 0 .. n : h(k) \in Reps
  <2> DEFINE S == {k \in Nat : k <= n => h(k) \in Reps}
  <2>1. 0 \in S
    BY <1>3
  <2>2. ASSUME NEW k \in Nat, k \in S PROVE k + 1 \in S
    <3>1. SUFFICES ASSUME k + 1 <= n PROVE h(k + 1) \in Reps
      OBVIOUS
    <3>2. k + 1 \in 1 .. n /\ (k + 1) - 1 = k /\ k <= n
      BY <1>2, <3>1
    <3>3. h(k) \in Reps
      BY <2>2, <3>2
    <3>4. h(k + 1) = After(h(k), list[k + 1]) /\ list[k + 1] \in Sequences
      BY <1>3, <1>4, <1>6, <3>2
    <3>5. QED
      BY <3>3, <3>4, AfterType
  <2>3. \A k \in 0 .. n : k \in S
    <3> HIDE DEF S
    <3>1. QED
      BY <1>2, <2>1, <2>2, CountUp
  <2>4. QED
    BY <2>3
<1>9. ASSUME NEW k \in 1 .. n
      PROVE  /\ h(k) = After(h(k - 1), list[k])
             /\ MayStore(strategy, first, h(k - 1), list[k])
             /\ Within(strategy, list[k])
             /\ CodesReach(first, list[k])
             /\ Meant(rep, list)[k] = Resolve(h(k - 1), list[k].offBase, list[k].ll0)
             /\ Meant(rep, list)[k] \in Int
  <2> DEFINE rep1 == h(k - 1)
             s    == list[k]
  <2>1. rep1 \in Reps
    <3>1. k - 1 \in 0 .. n
      BY <1>2
    <3>2. QED
      BY <1>8, <3>1
  <2>2. s \in Sequences /\ MayStore(strategy, first, rep1, s) /\ h(k) = After(rep1, s)
        /\ Meant(rep, list)[k] = Resolve(rep1, s.offBase, s.ll0)
    BY <1>3, <1>4, <1>5, <1>6, <1>7
  <2> HIDE DEF rep1, s
  <2>3. Within(strategy, s) /\ CodesReach(first, s)
    BY <2>1, <2>2, StoredReach
  <2>4. Resolve(rep1, s.offBase, s.ll0) \in Int
    BY <2>1, <2>2, ResolveType
  <2>5. QED
    BY <2>2, <2>3, <2>4 DEF rep1, s
<1>10. Meant(rep, list) \in Seq(Int) /\ Len(Meant(rep, list)) = n
  <2> DEFINE of(k) == Resolve(Before(rep, list, k), list[k].offBase, list[k].ll0)
  <2>1. \A k \in 1 .. n : of(k) \in Int
    BY <1>7, <1>9
  <2>2. Meant(rep, list) = [k \in 1 .. n |-> of(k)]
    BY <1>2 DEF Meant
  <2> HIDE DEF of
  <2>3. QED
    BY <1>2, <2>1, <2>2
<1>11. QED
  BY <1>1, <1>3, <1>8, <1>9, <1>10 DEF h

\* A part of the list is meant for the part of the histories that belongs to it.
LEMMA PartHistory ==
  ASSUME NEW rep \in Reps, NEW strategy, NEW first \in BOOLEAN,
         NEW list \in SeqsFrom(strategy, first, rep),
         NEW from \in Nat, NEW end \in Nat, from <= end, end <= Len(list)
  PROVE  LET part  == SubSeq(list, from + 1, end)
             meant == SubSeq(Meant(rep, list), from + 1, end)
         IN  /\ part \in Seq(Sequences)
             /\ Len(part) = end - from
             /\ \A s \in Streams : NeedOf(s, part) \subseteq NeedOf(s, list)
             /\ AllReach(first, part)
             /\ FoundBetween(strategy, first, part, meant,
                             AfterSeqs(rep, SubSeq(list, 1, from)),
                             AfterSeqs(rep, SubSeq(list, 1, end)))
<1> DEFINE part  == SubSeq(list, from + 1, end)
           all   == Meant(rep, list)
           meant == SubSeq(all, from + 1, end)
           h(m)  == AfterSeqs(rep, SubSeq(list, 1, m))
           n     == end - from
           g     == [m \in 0 .. n |-> h(from + m)]
<1>1. /\ list \in Seq(Sequences)
      /\ \A k \in 0 .. Len(list) : h(k) \in Reps
      /\ \A k \in 1 .. Len(list) :
            /\ h(k) = After(h(k - 1), list[k])
            /\ MayStore(strategy, first, h(k - 1), list[k])
            /\ Within(strategy, list[k])
            /\ CodesReach(first, list[k])
            /\ all[k] = Resolve(h(k - 1), list[k].offBase, list[k].ll0)
      /\ all \in Seq(Int) /\ Len(all) = Len(list)
  BY StoredHistory
<1> HIDE DEF all, h
<1>2. n \in Nat /\ Len(list) \in Nat
  BY <1>1
<1>3. /\ part \in Seq(Sequences) /\ Len(part) = n
      /\ \A k \in 1 .. n : part[k] = list[from + k]
  BY <1>1, <1>2
<1>4. \A k \in 1 .. n : meant[k] = all[from + k]
  BY <1>1, <1>2
<1>5. \A k \in 1 .. n : from + k \in 1 .. Len(list) /\ (from + k) - 1 = from + (k - 1)
                         /\ k - 1 \in 0 .. n /\ k \in 0 .. n
  BY <1>2
<1>6. \A k \in 0 .. n : from + k \in 0 .. Len(list) /\ g[k] = h(from + k)
  BY <1>2
<1> HIDE DEF part, meant, g
<1>7. ASSUME NEW s \in Streams PROVE NeedOf(s, part) \subseteq NeedOf(s, list)
  <2>1. \A k \in DOMAIN part : \E i \in DOMAIN list : part[k] = list[i]
    <3>1. DOMAIN part = 1 .. n /\ DOMAIN list = 1 .. Len(list)
      BY <1>1, <1>3
    <3>2. QED
      BY <3>1, <1>3, <1>5
  <2>2. QED
    BY <2>1 DEF NeedOf
<1>8. g[0] = h(from) /\ g[n] = h(end)
  <2>1. from + 0 = from /\ from + n = end /\ 0 \in 0 .. n /\ n \in 0 .. n
    BY <1>2
  <2>2. g[0] = h(from + 0) /\ g[n] = h(from + n)
    BY <1>6, <2>1
  <2>3. QED
    BY <2>1, <2>2
<1>9. ASSUME NEW k \in 1 .. n
      PROVE  /\ g[k] = After(g[k - 1], part[k])
             /\ meant[k] = Resolve(g[k - 1], part[k].offBase, part[k].ll0)
             /\ Within(strategy, part[k])
             /\ MayStore(strategy, first, g[k - 1], part[k])
             /\ CodesReach(first, part[k])
  <2> DEFINE i == from + k
  <2>1. i \in 1 .. Len(list) /\ i - 1 = from + (k - 1) /\ k - 1 \in 0 .. n /\ k \in 0 .. n
    BY <1>5
  <2>2. g[k] = h(i) /\ g[k - 1] = h(i - 1)
    <3>1. g[k - 1] = h(from + (k - 1)) /\ g[k] = h(from + k)
      BY <1>6, <2>1
    <3>2. QED
      BY <2>1, <3>1
  <2>3. part[k] = list[i] /\ meant[k] = all[i]
    BY <1>3, <1>4
  <2> HIDE DEF i
  <2>4. QED
    BY <1>1, <2>1, <2>2, <2>3
<1>10. \A k \in 0 .. n : g[k] \in Reps
  BY <1>1, <1>6
<1>11. MeantFor(strategy, part, meant, g)
  BY <1>3, <1>9, <1>10 DEF MeantFor
<1>12. FoundWith(strategy, first, part, g)
  BY <1>3, <1>9 DEF FoundWith
<1>13. FoundBetween(strategy, first, part, meant, h(from), h(end))
  BY <1>3, <1>8, <1>11, <1>12 DEF FoundBetween
<1>14. AllReach(first, part)
  BY <1>3, <1>9 DEF AllReach
<1>15. QED
  BY <1>3, <1>7, <1>13, <1>14 DEF h, part, meant, all

\* The whole of it as well.
LEMMA WholeHistory ==
  ASSUME NEW rep \in Reps, NEW strategy, NEW first \in BOOLEAN,
         NEW list \in SeqsFrom(strategy, first, rep)
  PROVE  /\ list \in Seq(Sequences)
         /\ AllReach(first, list)
         /\ AfterSeqs(rep, list) \in Reps
         /\ MeantBetween(strategy, list, Meant(rep, list), rep, AfterSeqs(rep, list))
<1> DEFINE all == Meant(rep, list)
           n   == Len(list)
           h(m) == AfterSeqs(rep, SubSeq(list, 1, m))
<1>1. /\ list \in Seq(Sequences)
      /\ h(0) = rep /\ h(n) = AfterSeqs(rep, list)
      /\ \A k \in 0 .. n : h(k) \in Reps
      /\ \A k \in 1 .. n : /\ h(k) = After(h(k - 1), list[k])
                           /\ Within(strategy, list[k])
                           /\ CodesReach(first, list[k])
                           /\ all[k] = Resolve(h(k - 1), list[k].offBase, list[k].ll0)
  BY StoredHistory
<1>2. n \in Nat
  BY <1>1
<1> DEFINE g == [m \in 0 .. n |-> h(m)]
<1> HIDE DEF h, all
<1>3. \A k \in 0 .. n : g[k] = h(k)
  OBVIOUS
<1>4. \A k \in 1 .. n : k \in 0 .. n /\ k - 1 \in 0 .. n
  BY <1>2
<1>5. 0 \in 0 .. n /\ n \in 0 .. n
  BY <1>2
<1> HIDE DEF g
<1>6. MeantFor(strategy, list, all, g)
  <2>1. \A k \in 0 .. n : g[k] \in Reps
    BY <1>1, <1>3
  <2>2. ASSUME NEW k \in 1 .. n
        PROVE  /\ g[k] = After(g[k - 1], list[k])
               /\ all[k] = Resolve(g[k - 1], list[k].offBase, list[k].ll0)
               /\ Within(strategy, list[k])
    BY <1>1, <1>3, <1>4
  <2>3. QED
    BY <2>1, <2>2 DEF MeantFor
<1>7. g[0] = rep /\ g[n] = AfterSeqs(rep, list) /\ AfterSeqs(rep, list) \in Reps
  BY <1>1, <1>3, <1>5
<1>8. MeantBetween(strategy, list, all, rep, AfterSeqs(rep, list))
  BY <1>6, <1>7 DEF MeantBetween
<1>9. AllReach(first, list)
  BY <1>1 DEF AllReach
<1>10. QED
  BY <1>1, <1>7, <1>8, <1>9 DEF all

LEMMA LeftAgrees ==
  ASSUME NEW rep \in Reps, NEW strategy, NEW list, AfterSeqs(rep, list) \in Reps, NEW got,
         Agree(strategy, got, AfterSeqs(rep, list))
  PROVE  /\ LeftRep(strategy, rep, list) \in Reps
         /\ Agree(strategy, got, LeftRep(strategy, rep, list))
<1> DEFINE r == AfterSeqs(rep, list)
<1>1. r[1] \in Int /\ r[2] \in Int /\ rep[3] \in Int
  BY DEF Reps
<1>2. \A a, b, c \in Int : <<a, b, c>> \in Reps
  BY DEF Reps
<1>3. LeftRep(strategy, rep, list) = IF strategy = "fast" THEN <<r[1], r[2], rep[3]>> ELSE r
  BY DEF LeftRep
<1> HIDE DEF r
<1>4. CASE strategy = "fast"
  BY <1>1, <1>2, <1>3, <1>4 DEF Agree, r
<1>5. CASE strategy # "fast"
  BY <1>3, <1>5 DEF r
<1>6. QED
  BY <1>4, <1>5

-----------------------------------------------------------------------------
(* The invariant. *)

Frames == [strategy : {"fast", "opt"}, way : {"whole", "split", "super"}, blocks : Nat]
First == bframe.blocks = 0

\* A block that is written in parts: those that are left end one after the other; cRep
\* is the history that the sequences so far were found with and dRep the one that the
\* decoder has, as far as it is kept.
PartsAre(w, rep, d, strategy, first) ==
  /\ w = [kind |-> "split", seqs |-> w.seqs, sp |-> w.sp, partitions |-> w.partitions,
          dRep |-> w.dRep, cRep |-> w.cRep]
  /\ w.seqs \in SeqsFrom(strategy, first, rep)
  /\ w.partitions \in Seq(1 .. Len(w.seqs)) /\ w.partitions # <<>>
  /\ w.sp \in Nat /\ w.sp < w.partitions[1]
  /\ \A i \in 1 .. Len(w.partitions) - 1 : w.partitions[i] < w.partitions[i + 1]
  /\ w.partitions[Len(w.partitions)] = Len(w.seqs)
  /\ w.cRep = AfterSeqs(rep, SubSeq(w.seqs, 1, w.sp))
  /\ w.dRep \in Reps
  /\ Agree(strategy, d.rep, w.dRep)

\* What the decoder will be after the sub-blocks of the superblock w: it has the tables
\* that one of them carried, and the others as they were.
Decoded(d, w) == FoldLeft(DecompressBlock_internal, d, w.out)
HasTables(d, e, w) ==
  /\ IF w.writeLit \/ w.choice["huf"].type # "compressed"
     THEN e.table["huf"] = d.table["huf"] /\ (d.litEntropy => e.litEntropy)
     ELSE e.table["huf"] = w.choice["huf"].next.table /\ e.litEntropy
  /\ IF w.writeSeq
     THEN (\A s \in Streams : e.table[s] = d.table[s]) /\ (d.fseEntropy => e.fseEntropy)
     ELSE (\A s \in Streams : e.table[s] = w.choice[s].next.table) /\ e.fseEntropy
SubBlocksAre(w, p, d, strategy, first) ==
  /\ w = [kind |-> "super", choice |-> w.choice, seqs |-> w.seqs, sp |-> w.sp,
          writeLit |-> w.writeLit, writeSeq |-> w.writeSeq, out |-> w.out]
  /\ w.seqs \in SeqsFrom(strategy, first, p.rep)
  /\ LiteralsChosen(p.entropy, w.choice)
  /\ SequencesChosen(p.entropy, w.seqs, w.choice)
  /\ NextChosen(p.entropy, w.choice)
  /\ DOMAIN w.choice = Kinds
  /\ w.sp \in 0 .. Len(w.seqs)
  /\ w.writeLit \in BOOLEAN /\ w.writeSeq \in BOOLEAN
  /\ w.writeLit => w.choice["huf"].type = "compressed"
  /\ w.writeSeq => w.sp = 0
  /\ w.out \in Seq({w.out[i] : i \in DOMAIN w.out})
  /\ Decoded(d, w) \in Decoders
  /\ Decoded(d, w).wrong = {}
  /\ Agree(strategy, Decoded(d, w).rep, AfterSeqs(p.rep, SubSeq(w.seqs, 1, w.sp)))
  /\ HasTables(d, Decoded(d, w), w)

BlkInv ==
  /\ bprev \in Previous
  /\ bdec \in Decoders /\ bdec.wrong = {}
  /\ bframe \in Frames
  /\ bwrong = {}
  /\ Shared(bdec, bprev.entropy)
  /\ Sufficient(bprev.entropy, First)
  /\ \/ bwork = NoWork
     \/ PartsAre(bwork, bprev.rep, bdec, bframe.strategy, First)
     \/ SubBlocksAre(bwork, bprev, bdec, bframe.strategy, First)
  /\ bwork.kind # "split" => Agree(bframe.strategy, bdec.rep, bprev.rep)

\* The invariant says what the property says.
LEMMA InvSays == BlkInv => DecoderInStep
<1>1. SUFFICES ASSUME BlkInv PROVE DecoderInStep
  OBVIOUS
<1>2. bwrong = {}
  BY <1>1 DEF BlkInv
<1>3. ASSUME bwork.kind # "split",
             NEW i \in IF bframe.strategy = "fast" THEN 1 .. 2 ELSE 1 .. 3
      PROVE  bdec.rep[i] = bprev.rep[i]
  <2>1. Agree(bframe.strategy, bdec.rep, bprev.rep)
    BY <1>1, <1>3 DEF BlkInv
  <2>2. CASE bframe.strategy = "fast"
    <3>1. i = 1 \/ i = 2
      BY <1>3, <2>2
    <3>2. QED
      BY <2>1, <3>1 DEF Agree
  <2>3. CASE bframe.strategy # "fast"
    <3>1. i = 1 \/ i = 2 \/ i = 3
      BY <1>3, <2>3
    <3>2. QED
      BY <2>1, <2>3, <3>1 DEF Agree
  <2>4. QED
    BY <2>2, <2>3
<1>4. \A k \in Kinds : bprev.entropy[k].mode # "none" => bdec.table[k] = bprev.entropy[k].table
  BY <1>1 DEF BlkInv, Shared
<1>5. QED
  BY <1>2, <1>3, <1>4 DEF DecoderInStep

\* A frame may begin with what a dictionary holds.
LEMMA DictionaryIs ==
  ASSUME NEW entropy \in {NoEntropy} \cup DictEntropies
  PROVE  /\ entropy \in Entropies
         /\ Sufficient(entropy, TRUE)
         /\ \A k \in Kinds : entropy[k].mode # "none" => entropy # NoEntropy
<1>1. FirstReach \in Nat
  BY BlocksAssumption
<1>2. \A k \in Kinds : NoEntropy[k] = [table |-> NoTable, mode |-> "none"]
  BY DEF NoEntropy
<1>3. \A k \in Kinds : entropy[k].mode # "none" => entropy # NoEntropy
  BY <1>2
<1>4. CASE entropy = NoEntropy
  <2>1. [table |-> NoTable, mode |-> "none"] \in Entries
    BY DEF NoTable, Entries, Table, Modes
  <2>2. entropy \in Entropies
    BY <1>4, <2>1 DEF NoEntropy, Entropies
  <2>3. Sufficient(entropy, TRUE)
    BY <1>2, <1>4, KindsAre DEF Sufficient
  <2>4. QED
    BY <1>3, <2>2, <2>3
<1>5. CASE entropy \in DictEntropies
  <2>1. \E cover \in [Kinds -> SUBSET Nat] :
           entropy = [k \in Kinds |-> DictTable(k, cover[k])]
    <3>1. ASSUME NEW of \in {0 .. FirstReach, {0, 1}},
                 entropy = [k \in Kinds |-> DictTable(k, IF k = "of" THEN of ELSE Codes(k))]
          PROVE  \E cover \in [Kinds -> SUBSET Nat] :
                    entropy = [k \in Kinds |-> DictTable(k, cover[k])]
      <4> DEFINE cover == [k \in Kinds |-> IF k = "of" THEN of ELSE Codes(k)]
      <4>1. of \in SUBSET Nat
        BY <1>1, <3>1
      <4>2. ASSUME NEW k \in Kinds PROVE (IF k = "of" THEN of ELSE Codes(k)) \in SUBSET Nat
        <5>1. k = "of" \/ (k # "of" /\ Codes(k) = {0, 1})
          BY KindsAre
        <5>2. {0, 1} \in SUBSET Nat
          OBVIOUS
        <5>3. QED
          BY <4>1, <5>1, <5>2
      <4>3. cover \in [Kinds -> SUBSET Nat]
        BY <4>2
      <4>4. entropy = [k \in Kinds |-> DictTable(k, cover[k])]
        BY <3>1
      <4> HIDE DEF cover
      <4>5. QED
        BY <4>3, <4>4
    <3>2. ASSUME entropy = [k \in Kinds |-> DictTable(k, IF k = "of" THEN OffCodes ELSE {1})]
          PROVE  \E cover \in [Kinds -> SUBSET Nat] :
                    entropy = [k \in Kinds |-> DictTable(k, cover[k])]
      <4> DEFINE cover == [k \in Kinds |-> IF k = "of" THEN OffCodes ELSE {1}]
      <4>1. cover \in [Kinds -> SUBSET Nat]
        BY DEF OffCodes
      <4>2. entropy = [k \in Kinds |-> DictTable(k, cover[k])]
        BY <3>2
      <4> HIDE DEF cover
      <4>3. QED
        BY <4>1, <4>2
    <3>3. QED
      BY <1>5, <3>1, <3>2 DEF DictEntropies
  <2>2. PICK cover \in [Kinds -> SUBSET Nat] : entropy = [k \in Kinds |-> DictTable(k, cover[k])]
    BY <2>1
  <2>3. ASSUME NEW k \in Kinds
        PROVE  /\ entropy[k] \in Entries
               /\ entropy[k].mode = "valid" =>
                     (IF k = "of" THEN 0 .. FirstReach ELSE Codes(k))
                         \subseteq entropy[k].table.cover
    <3> DEFINE needed == IF k = "of" THEN 0 .. FirstReach ELSE Codes(k)
    <3>1. entropy[k] = [table |-> [id |-> 1, cover |-> cover[k]],
                        mode |-> IF needed \subseteq cover[k] THEN "valid" ELSE "check"]
      BY <2>2 DEF DictTable
    <3>2. cover[k] \in SUBSET Nat
      OBVIOUS
    <3> HIDE DEF needed
    <3>3. entropy[k] \in Entries
      BY <3>1, <3>2 DEF Entries, Table, Modes
    <3>4. entropy[k].mode = "valid" => needed \subseteq entropy[k].table.cover
      BY <3>1
    <3>5. QED
      BY <3>3, <3>4 DEF needed
  <2>4. entropy \in Entropies
    BY <2>2, <2>3 DEF Entropies
  <2>5. Sufficient(entropy, TRUE)
    BY <2>3, KindsAre DEF Sufficient
  <2>6. QED
    BY <1>3, <2>4, <2>5
<1>6. QED
  BY <1>4, <1>5

LEMMA InitKeeps == BlkInit => BlkInv
<1>1. SUFFICES ASSUME BlkInit PROVE BlkInv
  OBVIOUS
<1>2. /\ bframe \in [strategy : {"fast", "opt"}, way : {"whole", "split", "super"}, blocks : {0}]
      /\ bwork = NoWork
      /\ bwrong = {}
  BY <1>1 DEF BlkInit
<1>3. PICK entropy \in {NoEntropy} \cup DictEntropies :
        /\ bprev = [rep |-> <<1, 4, 8>>, entropy |-> entropy]
        /\ bdec = [rep |-> <<1, 4, 8>>, table |-> [k \in Kinds |-> entropy[k].table],
                   litEntropy |-> entropy # NoEntropy, fseEntropy |-> entropy # NoEntropy,
                   wrong |-> {}]
  BY <1>1 DEF BlkInit
<1>4. /\ entropy \in Entropies
      /\ Sufficient(entropy, TRUE)
      /\ \A k \in Kinds : entropy[k].mode # "none" => entropy # NoEntropy
  BY DictionaryIs
<1>5. bframe \in Frames /\ First
  BY <1>2 DEF Frames, First
<1>6. <<1, 4, 8>> \in Reps
  BY DEF Reps
<1>7. bprev \in Previous
  BY <1>3, <1>4, <1>6 DEF Previous
<1>8. bdec \in Decoders /\ bdec.wrong = {}
  <2> DEFINE table == [k \in Kinds |-> entropy[k].table]
             rep   == <<1, 4, 8>>
             has   == entropy # NoEntropy
  <2>1. table \in [Kinds -> Table]
    BY <1>4 DEF Entropies, Entries
  <2>2. bdec = [rep |-> rep, table |-> table, litEntropy |-> has, fseEntropy |-> has, wrong |-> {}]
    BY <1>3
  <2>3. has \in BOOLEAN /\ rep \in Reps
    BY <1>6
  <2> HIDE DEF table, has, rep
  <2>4. QED
    BY <2>1, <2>2, <2>3 DEF Decoders
<1>9. Shared(bdec, bprev.entropy)
  BY <1>3, <1>4 DEF Shared
<1>10. Sufficient(bprev.entropy, First)
  BY <1>3, <1>4, <1>5 DEF Sufficient
<1>11. Agree(bframe.strategy, bdec.rep, bprev.rep)
  BY <1>3 DEF Agree
<1>12. QED
  BY <1>2, <1>5, <1>7, <1>8, <1>9, <1>10, <1>11 DEF BlkInv

\* What the decoder is sent, and what comes of it.
LEMMA SentIs ==
  ASSUME BlkInv, NEW blocks, Sent(blocks),
         NEW e, e = FoldLeft(DecompressBlock_internal, bdec, blocks),
         e \in Decoders, e.wrong = {}
  PROVE  bdec' = e /\ bwrong' = {}
<1>1. bdec \in Decoders /\ bdec.wrong = {} /\ bwrong = {}
  BY DEF BlkInv
<1>2. [bdec EXCEPT !.wrong = {}] = bdec
  BY <1>1 DEF Decoders
<1>3. [e EXCEPT !.wrong = {}] = e
  BY DEF Decoders
<1>4. bdec' = [e EXCEPT !.wrong = {}] /\ bwrong' = bwrong \cup e.wrong
  BY <1>2 DEF Sent
<1>5. QED
  BY <1>1, <1>3, <1>4

LEMMA OneBlock ==
  ASSUME NEW d, NEW b
  PROVE  FoldLeft(DecompressBlock_internal, d, <<b>>) = DecompressBlock_internal(d, b)
<1> DEFINE R == {b}
<1>1. <<>> \in Seq(R) /\ b \in R /\ Append(<<>>, b) = <<b>>
  OBVIOUS
<1> HIDE DEF R
<1>2. FoldLeft(DecompressBlock_internal, d, Append(<<>>, b)) =
        DecompressBlock_internal(FoldLeft(DecompressBlock_internal, d, <<>>), b)
  BY <1>1, BlocksAppend
<1>3. FoldLeft(DecompressBlock_internal, d, <<>>) = d
  BY BlocksNone
<1>4. QED
  BY <1>1, <1>2, <1>3

\* A block is done, and p is what the next one begins with.
LEMMA Settled ==
  ASSUME BlkInv, BlockDone, NEW p \in Previous, Covers(p.entropy),
         bprev' = Downgraded(p), bwork' = NoWork, bwrong' = {},
         bdec' \in Decoders, bdec'.wrong = {},
         Shared(bdec', p.entropy), Agree(bframe.strategy, bdec'.rep, p.rep)
  PROVE  BlkInv'
<1>1. bframe \in Frames /\ bframe' = [bframe EXCEPT !.blocks = bframe.blocks + 1]
  BY DEF BlkInv, BlockDone
<1>2. bframe' \in Frames /\ bframe'.strategy = bframe.strategy /\ bframe'.blocks # 0
  BY <1>1 DEF Frames
<1>3. /\ Downgraded(p) \in Previous
      /\ Downgraded(p).rep = p.rep
      /\ Sufficient(Downgraded(p).entropy, FALSE)
      /\ Shared(bdec', Downgraded(p).entropy)
  BY DowngradedIs
<1>4. /\ bprev' \in Previous /\ bprev'.rep = p.rep
      /\ Sufficient(bprev'.entropy, FALSE) /\ Shared(bdec', bprev'.entropy)
  BY <1>3
<1>5. First' = FALSE
  BY <1>2 DEF First
<1>6. Agree(bframe'.strategy, bdec'.rep, bprev'.rep)
  BY <1>2, <1>4
<1>7. Sufficient(bprev'.entropy, First')
  BY <1>4, <1>5
<1>8. QED
  BY <1>2, <1>4, <1>6, <1>7 DEF BlkInv

LEMMA InvTypes ==
  ASSUME BlkInv
  PROVE  /\ bprev \in Previous /\ bprev.rep \in Reps /\ bprev.entropy \in Entropies
         /\ Covers(bprev.entropy)
         /\ bdec \in Decoders /\ bdec.wrong = {} /\ bdec.rep \in Reps
         /\ First \in BOOLEAN
<1>1. bprev \in Previous /\ bdec \in Decoders /\ bdec.wrong = {} /\ Sufficient(bprev.entropy, First)
  BY DEF BlkInv
<1>2. bprev.rep \in Reps /\ bprev.entropy \in Entropies /\ bdec.rep \in Reps
  BY <1>1 DEF Previous, Decoders
<1>3. QED
  BY <1>1, <1>2 DEF Covers, Sufficient, First

LEMMA WholeKeeps ==
  ASSUME BlkInv, NEW seqs \in SeqsFrom(bframe.strategy, First, bprev.rep),
         CompressBlockInternal(seqs)
  PROVE  BlkInv'
<1> DEFINE old      == bprev.entropy
           rep      == bprev.rep
           first    == First
           strategy == bframe.strategy
<1>1. /\ bprev \in Previous /\ rep \in Reps /\ old \in Entropies /\ Covers(old)
      /\ bdec \in Decoders /\ bdec.wrong = {} /\ bdec.rep \in Reps /\ first \in BOOLEAN
  BY InvTypes
<1>2. BlockDone /\ bwork = NoWork /\ bwork' = NoWork /\ bwork.kind # "split"
  BY DEF CompressBlockInternal, BlockBegins, NoWork
<1>3. Shared(bdec, old) /\ Sufficient(old, first) /\ Agree(strategy, bdec.rep, rep) /\ bwrong = {}
  BY <1>2 DEF BlkInv
<1>4. seqs \in SeqsFrom(strategy, first, rep)
  OBVIOUS
<1>5. ASSUME bprev' = Downgraded(bprev), UNCHANGED <<bdec, bwrong>>
      PROVE  BlkInv'
  BY <1>1, <1>2, <1>3, <1>5, Settled
<1>6. ASSUME NEW choice \in Codings(old, seqs, strategy),
             Sent(<<CompressedBlock(choice, seqs, Meant(rep, seqs))>>),
             bprev' = Downgraded([rep |-> LeftRep(strategy, rep, seqs),
                                  entropy |-> NextEntropy(choice)])
      PROVE  BlkInv'
  <2> DEFINE meant == Meant(rep, seqs)
             b     == CompressedBlock(choice, seqs, meant)
             e     == DecompressBlock_internal(bdec, b)
             left  == LeftRep(strategy, rep, seqs)
             p     == [rep |-> left, entropy |-> NextEntropy(choice)]
  <2> HIDE DEF old, rep, first, strategy
  <2>1. /\ seqs \in Seq(Sequences)
        /\ AllReach(first, seqs)
        /\ AfterSeqs(rep, seqs) \in Reps
        /\ MeantBetween(strategy, seqs, meant, rep, AfterSeqs(rep, seqs))
    BY <1>1, <1>4, WholeHistory
  <2>2. LiteralsChosen(old, choice) /\ SequencesChosen(old, seqs, choice) /\ NextChosen(old, choice)
    <3>1. bprev.entropy \in Entropies
      BY <1>1 DEF old
    <3>2. choice \in Codings(old, seqs, strategy) \cup SuperCodings(old, seqs, strategy)
      BY <1>6
    <3>3. QED
      BY <1>1, <1>3, <2>1, <3>1, <3>2, ChoiceIs
  <2> HIDE DEF meant
  <2>3. /\ e \in Decoders
        /\ e.wrong = bdec.wrong
        /\ Agree(strategy, e.rep, AfterSeqs(rep, seqs))
        /\ Shared(e, NextEntropy(choice))
    BY <1>1, <1>3, <2>1, <2>2, CompressedDecodes
  <2>4. FoldLeft(DecompressBlock_internal, bdec, <<b>>) = e
    BY OneBlock
  <2>5. Sent(<<b>>)
    BY <1>6 DEF b, meant, rep
  <2> HIDE DEF b, e
  <2>6. bdec' = e /\ bwrong' = {}
    BY <1>1, <2>3, <2>4, <2>5, SentIs
  <2>7. NextEntropy(choice) \in Entropies /\ Covers(NextEntropy(choice))
    BY <1>1, <2>2, NextIs
  <2>8. left \in Reps /\ Agree(strategy, e.rep, left)
    BY <1>1, <2>1, <2>3, LeftAgrees
  <2>9. bprev' = Downgraded(p)
    BY <1>6 DEF rep, strategy
  <2> HIDE DEF left
  <2>10. p \in Previous /\ Covers(p.entropy) /\ Shared(e, p.entropy) /\ p.rep = left
    BY <2>3, <2>7, <2>8 DEF Previous
  <2> HIDE DEF p
  <2>11. QED
    BY <1>1, <1>2, <2>3, <2>6, <2>8, <2>9, <2>10, Settled DEF strategy
<1>7. QED
  BY <1>5, <1>6 DEF CompressBlockInternal

LEMMA SplitKeeps ==
  ASSUME BlkInv, NEW seqs \in SeqsFrom(bframe.strategy, First, bprev.rep),
         NEW partitions \in Partitions(Len(seqs)), SplitBlock(seqs, partitions)
  PROVE  BlkInv'
<1>1. /\ bprev \in Previous /\ bprev.rep \in Reps /\ First \in BOOLEAN
  BY InvTypes
<1>2. /\ bwork = NoWork /\ UNCHANGED <<bprev, bdec, bframe, bwrong>>
      /\ bwork' = [kind |-> "split", seqs |-> seqs, sp |-> 0, partitions |-> partitions,
                   dRep |-> bprev.rep, cRep |-> bprev.rep]
  BY DEF SplitBlock, BlockBegins
<1>3. Agree(bframe.strategy, bdec.rep, bprev.rep)
  BY <1>2 DEF BlkInv, NoWork
<1>4. seqs \in Seq(Sequences) /\ AfterSeqs(bprev.rep, SubSeq(seqs, 1, 0)) = bprev.rep
  <2>1. seqs \in Seq(Sequences)
    BY BlocksAssumption DEF SeqsFrom, Sequences
  <2>2. QED
    BY <2>1, HistoryEnds
<1> DEFINE n == Len(seqs)
<1>5. n \in Nat
  BY <1>4
<1> HIDE DEF n
<1>6. /\ partitions \in Seq(1 .. n) /\ partitions # <<>>
      /\ partitions[1] > 0
      /\ \A i \in 1 .. Len(partitions) - 1 : partitions[i] < partitions[i + 1]
      /\ partitions[Len(partitions)] = n
  <2>1. partitions \in Partitions(n)
    BY DEF n
  <2>2. PICK parts \in 2 .. n : partitions \in [1 .. parts -> 1 .. n]
    BY <2>1 DEF Partitions
  <2>3. partitions \in Seq(1 .. n) /\ Len(partitions) = parts
    BY <1>5, <2>2
  <2>4. 1 \in 1 .. parts /\ parts # 0
    BY <1>5, <2>2
  <2>5. partitions[1] \in 1 .. n
    BY <2>2, <2>4
  <2>6. /\ \A i \in 1 .. Len(partitions) - 1 : partitions[i] < partitions[i + 1]
        /\ partitions[Len(partitions)] = n
    BY <2>1 DEF Partitions
  <2>7. partitions # <<>> /\ partitions[1] > 0
    BY <1>5, <2>3, <2>4, <2>5
  <2>8. QED
    BY <2>3, <2>6, <2>7
<1>7. PartsAre(bwork', bprev.rep, bdec, bframe.strategy, First)
  BY <1>1, <1>2, <1>3, <1>4, <1>6 DEF PartsAre, n
<1>8. First' = First
  BY <1>2 DEF First
<1>9. bwork'.kind = "split"
  BY <1>2
<1>10. QED
  BY <1>2, <1>7, <1>8, <1>9 DEF BlkInv

\* What there is to do of the block at hand.
LEMMA WorkKinds ==
  ASSUME BlkInv
  PROVE  /\ bwork.kind = "split" => PartsAre(bwork, bprev.rep, bdec, bframe.strategy, First)
         /\ bwork.kind = "super" => SubBlocksAre(bwork, bprev, bdec, bframe.strategy, First)
<1>1. bwork = NoWork => bwork.kind = "none"
  BY DEF NoWork
<1>2. PartsAre(bwork, bprev.rep, bdec, bframe.strategy, First) => bwork.kind = "split"
  BY DEF PartsAre
<1>3. SubBlocksAre(bwork, bprev, bdec, bframe.strategy, First) => bwork.kind = "super"
  BY DEF SubBlocksAre
<1>4. QED
  BY <1>1, <1>2, <1>3 DEF BlkInv

\* The next part, compressed or not.
LEMMA ChunkKeeps == ASSUME BlkInv, Chunk PROVE BlkInv'
<1> DEFINE old      == bprev.entropy
           rep      == bprev.rep
           first    == First
           strategy == bframe.strategy
           all      == bwork.seqs
           sp       == bwork.sp
           parts    == bwork.partitions
           dRep     == bwork.dRep
           cRep     == bwork.cRep
           n        == Len(all)
           end      == Head(parts)
           rest     == Tail(parts)
           list     == SubSeq(all, sp + 1, end)
           meant    == SubSeq(Meant(rep, all), sp + 1, end)
           r        == ResolveOffCodes(dRep, cRep, list)
           after(p, d) == IF rest = <<>> THEN [p EXCEPT !.rep = d] ELSE p
           left(d)  == [bwork EXCEPT !.sp = end, !.partitions = rest, !.dRep = d, !.cRep = r.cRep]
           goesOn(p, d) == /\ bprev' = Downgraded(after(p, d))
                           /\ bwork' = IF rest = <<>> THEN NoWork ELSE left(d)
<1>1. /\ bprev \in Previous /\ rep \in Reps /\ old \in Entropies /\ Covers(old)
      /\ bdec \in Decoders /\ bdec.wrong = {} /\ bdec.rep \in Reps /\ first \in BOOLEAN
  BY InvTypes
<1>2. /\ bwork.kind = "split"
      /\ \/ /\ \E choice \in Codings(old, r.seqs, strategy) :
                 /\ Sent(<<CompressedBlock(choice, r.seqs, meant)>>)
                 /\ goesOn([bprev EXCEPT !.entropy = NextEntropy(choice)], r.dRep)
         \/ /\ goesOn(bprev, dRep)
            /\ UNCHANGED <<bdec, bwrong>>
      /\ IF rest = <<>> THEN BlockDone ELSE UNCHANGED bframe
  BY DEF Chunk, DeriveSeqStoreChunk
<1>3. PartsAre(bwork, rep, bdec, strategy, first)
  BY <1>2, WorkKinds
<1>4. Shared(bdec, old) /\ Sufficient(old, first) /\ bwrong = {}
  BY DEF BlkInv
<1> HIDE DEF goesOn, left, after, r, meant, list, rest, end, n, cRep, dRep, parts, sp, all,
             strategy, first, rep, old
<1>5. /\ bwork = [kind |-> "split", seqs |-> all, sp |-> sp, partitions |-> parts,
                  dRep |-> dRep, cRep |-> cRep]
      /\ all \in SeqsFrom(strategy, first, rep)
      /\ parts \in Seq(1 .. n) /\ parts # <<>>
      /\ sp \in Nat /\ sp < parts[1]
      /\ \A i \in 1 .. Len(parts) - 1 : parts[i] < parts[i + 1]
      /\ parts[Len(parts)] = n
      /\ cRep = AfterSeqs(rep, SubSeq(all, 1, sp))
      /\ dRep \in Reps
      /\ Agree(strategy, bdec.rep, dRep)
  BY <1>3 DEF PartsAre, all, sp, parts, dRep, cRep, n
<1>6. /\ end \in 1 .. n /\ end = parts[1] /\ sp < end
      /\ rest \in Seq(1 .. n)
      /\ rest = <<>> => end = n
      /\ rest # <<>> => /\ end < rest[1]
                        /\ \A i \in 1 .. Len(rest) - 1 : rest[i] < rest[i + 1]
                        /\ rest[Len(rest)] = n
  <2> DEFINE m == Len(parts)
  <2>1. m \in Nat /\ m >= 1
    BY <1>5, EmptySeq
  <2>2. /\ end = parts[1] /\ end \in 1 .. n /\ rest \in Seq(1 .. n) /\ Len(rest) = m - 1
        /\ \A i \in 1 .. m - 1 : rest[i] = parts[i + 1]
    <3> DEFINE S == 1 .. n
    <3>1. parts \in Seq(S) /\ parts # <<>>
      BY <1>5
    <3> HIDE DEF S
    <3>2. end = parts[1] /\ parts[1] \in S
      BY <2>1, <3>1 DEF end
    <3>3. rest \in Seq(S) /\ Len(rest) = m - 1
      BY <2>1, <3>1 DEF rest
    <3>4. \A i \in 1 .. m - 1 : rest[i] = parts[i + 1]
      BY <2>1, <3>1 DEF rest
    <3>5. QED
      BY <3>2, <3>3, <3>4 DEF S
  <2>3. ASSUME rest = <<>> PROVE end = n
    <3>1. m = 1
      BY <2>1, <2>2, <2>3
    <3>2. QED
      BY <1>5, <2>2, <3>1
  <2>4. ASSUME rest # <<>>
        PROVE  /\ end < rest[1]
               /\ \A i \in 1 .. Len(rest) - 1 : rest[i] < rest[i + 1]
               /\ rest[Len(rest)] = n
    <3>1. m >= 2
      BY <2>1, <2>2, <2>4, EmptySeq
    <3>2. rest[1] = parts[2] /\ parts[1] < parts[2]
      <4>1. 1 \in 1 .. m - 1 /\ 1 + 1 = 2
        BY <2>1, <3>1
      <4>2. QED
        BY <1>5, <2>2, <4>1
    <3>3. rest[Len(rest)] = parts[m]
      <4>1. m - 1 \in 1 .. m - 1 /\ (m - 1) + 1 = m
        BY <2>1, <3>1
      <4>2. QED
        BY <2>2, <4>1
    <3>4. ASSUME NEW i \in 1 .. Len(rest) - 1 PROVE rest[i] < rest[i + 1]
      <4>1. i \in 1 .. m - 1 /\ i + 1 \in 1 .. m - 1
        BY <2>1, <2>2
      <4>2. rest[i] = parts[i + 1] /\ rest[i + 1] = parts[(i + 1) + 1]
        BY <2>2, <4>1
      <4>3. QED
        BY <1>5, <4>1, <4>2
    <3>5. QED
      BY <1>5, <2>2, <3>2, <3>3, <3>4
  <2>5. QED
    BY <1>5, <2>2, <2>3, <2>4
<1>7. n \in Nat /\ end \in Nat /\ sp <= end /\ end <= n
  <2>1. all \in Seq(Sequences)
    BY <1>5, BlocksAssumption DEF SeqsFrom, Sequences
  <2>2. n \in Nat
    BY <2>1 DEF n
  <2>3. QED
    BY <1>5, <1>6, <2>2
<1>8. list \in Seq(Sequences)
      /\ FoundBetween(strategy, first, list, meant, cRep, AfterSeqs(rep, SubSeq(all, 1, end)))
  BY <1>1, <1>5, <1>7, PartHistory DEF list, meant, n
<1>9. /\ r.seqs \in Seq(Sequences)
      /\ r.cRep = AfterSeqs(rep, SubSeq(all, 1, end))
      /\ r.dRep \in Reps
      /\ AllReach(first, r.seqs)
      /\ MeantBetween(strategy, r.seqs, meant, dRep, r.dRep)
  <2> DEFINE goal == AfterSeqs(rep, SubSeq(all, 1, end))
             x    == ResolveOffCodes(dRep, cRep, list)
  <2>1. FoundBetween(strategy, first, list, meant, cRep, goal) /\ r = x
    BY <1>8 DEF r
  <2> HIDE DEF goal
  <2>2. /\ x.seqs \in Seq(Sequences)
        /\ x.cRep = goal
        /\ x.dRep \in Reps
        /\ AllReach(first, x.seqs)
        /\ MeantBetween(strategy, x.seqs, meant, dRep, x.dRep)
    BY <1>1, <1>5, <1>8, <2>1, ResolvedCodes
  <2> HIDE DEF x
  <2>3. QED
    BY <2>1, <2>2 DEF goal
\* What there is after the part, when p is left of it and the decoder is agreed with.
<1>10. ASSUME NEW p \in Previous, Covers(p.entropy), p.rep = rep,
              NEW d \in Reps, goesOn(p, d),
              bdec' \in Decoders, bdec'.wrong = {}, bwrong' = {},
              Shared(bdec', p.entropy), Agree(strategy, bdec'.rep, d)
       PROVE  BlkInv'
  <2>1. CASE rest = <<>>
    <3> DEFINE q == [p EXCEPT !.rep = d]
    <3>1. q \in Previous /\ q.rep = d /\ q.entropy = p.entropy
      BY <1>10 DEF Previous
    <3>2. bprev' = Downgraded(q) /\ bwork' = NoWork /\ BlockDone
      BY <1>2, <1>10, <2>1 DEF goesOn, after
    <3> HIDE DEF q
    <3>3. QED
      BY <1>10, <3>1, <3>2, Settled DEF strategy
  <2>2. CASE rest # <<>>
    <3>1. bprev' = Downgraded(p) /\ bwork' = left(d) /\ UNCHANGED bframe
      BY <1>2, <1>10, <2>2 DEF goesOn, after
    <3>2. /\ bprev' \in Previous
          /\ bprev'.rep = rep
          /\ Sufficient(bprev'.entropy, first)
          /\ Shared(bdec', bprev'.entropy)
      <4>1. /\ Downgraded(p) \in Previous
            /\ Downgraded(p).rep = p.rep
            /\ Sufficient(Downgraded(p).entropy, first)
            /\ Shared(bdec', Downgraded(p).entropy)
        BY <1>1, <1>10, DowngradedIs
      <4>2. QED
        BY <1>10, <3>1, <4>1
    <3>3. bwork' = [kind |-> "split", seqs |-> all, sp |-> end, partitions |-> rest,
                    dRep |-> d, cRep |-> r.cRep]
      BY <1>5, <3>1 DEF left
    <3>4. PartsAre(bwork', rep, bdec', strategy, first)
      BY <1>5, <1>6, <1>7, <1>9, <1>10, <2>2, <3>3 DEF PartsAre, n
    <3>5. bframe' = bframe /\ First' = First /\ bframe \in Frames
      BY <3>1 DEF First, BlkInv
    <3>6. bwork'.kind = "split"
      BY <3>3
    <3>7. PartsAre(bwork', bprev'.rep, bdec', bframe'.strategy, First')
      BY <3>2, <3>4, <3>5 DEF first, strategy
    <3>8. Sufficient(bprev'.entropy, First')
      BY <3>2, <3>5 DEF first
    <3>9. QED
      BY <1>10, <3>2, <3>5, <3>6, <3>7, <3>8 DEF BlkInv
  <2>3. QED
    BY <2>1, <2>2
<1>11. CASE goesOn(bprev, dRep) /\ UNCHANGED <<bdec, bwrong>>
  <2>1. bprev.rep = rep /\ bprev.entropy = old
    BY DEF rep, old
  <2>2. QED
    BY <1>1, <1>4, <1>5, <1>10, <1>11, <2>1
<1>12. ASSUME NEW choice \in Codings(old, r.seqs, strategy),
              Sent(<<CompressedBlock(choice, r.seqs, meant)>>),
              goesOn([bprev EXCEPT !.entropy = NextEntropy(choice)], r.dRep)
       PROVE  BlkInv'
  <2> DEFINE seqs == r.seqs
             b    == CompressedBlock(choice, seqs, meant)
             e    == DecompressBlock_internal(bdec, b)
             p    == [bprev EXCEPT !.entropy = NextEntropy(choice)]
  <2>1. /\ seqs \in Seq(Sequences)
        /\ AllReach(first, seqs)
        /\ MeantBetween(strategy, seqs, meant, dRep, r.dRep)
    BY <1>9
  <2>2. choice \in Codings(old, seqs, strategy) \cup SuperCodings(old, seqs, strategy)
    BY <1>12
  <2>3. Sent(<<b>>)
    BY <1>12
  <2> HIDE DEF seqs
  <2>4. LiteralsChosen(old, choice) /\ SequencesChosen(old, seqs, choice) /\ NextChosen(old, choice)
    <3>1. bprev.entropy \in Entropies
      BY <1>1 DEF old
    <3>2. QED
      BY <1>1, <1>4, <2>1, <2>2, <3>1, ChoiceIs
  <2>5. /\ e \in Decoders
        /\ e.wrong = bdec.wrong
        /\ Agree(strategy, e.rep, r.dRep)
        /\ Shared(e, NextEntropy(choice))
    <3> DEFINE goal == r.dRep
    <3>1. MeantBetween(strategy, seqs, meant, dRep, goal)
      BY <2>1
    <3> HIDE DEF goal
    <3>2. /\ e \in Decoders
          /\ e.wrong = bdec.wrong
          /\ Agree(strategy, e.rep, goal)
          /\ Shared(e, NextEntropy(choice))
      BY <1>1, <1>4, <1>5, <2>1, <2>4, <3>1, CompressedDecodes
    <3>3. QED
      BY <3>2 DEF goal
  <2>6. FoldLeft(DecompressBlock_internal, bdec, <<b>>) = e
    BY OneBlock
  <2> HIDE DEF b, e
  <2>7. bdec' = e /\ bwrong' = {}
    BY <1>1, <2>3, <2>5, <2>6, SentIs
  <2>8. NextEntropy(choice) \in Entropies /\ Covers(NextEntropy(choice))
    BY <1>1, <2>4, NextIs
  <2>9. goesOn(p, r.dRep)
    BY <1>12
  <2>10. p \in Previous /\ p.entropy = NextEntropy(choice) /\ p.rep = rep
    BY <1>1, <2>8 DEF Previous, rep
  <2> HIDE DEF p
  <2> DEFINE d == r.dRep
  <2>11. d \in Reps /\ goesOn(p, d) /\ Agree(strategy, bdec'.rep, d)
    BY <1>9, <2>1, <2>5, <2>7, <2>9
  <2> HIDE DEF d
  <2>12. QED
    BY <1>1, <1>10, <2>5, <2>7, <2>8, <2>10, <2>11
<1>13. QED
  BY <1>2, <1>11, <1>12

\* A superblock begins without sub-blocks.
LEMMA SuperKeeps ==
  ASSUME BlkInv, NEW seqs \in SeqsFrom(bframe.strategy, First, bprev.rep), SuperBlock(seqs)
  PROVE  BlkInv'
<1> DEFINE old      == bprev.entropy
           rep      == bprev.rep
           first    == First
           strategy == bframe.strategy
<1>1. /\ bprev \in Previous /\ rep \in Reps /\ old \in Entropies /\ Covers(old)
      /\ bdec \in Decoders /\ bdec.wrong = {} /\ bdec.rep \in Reps /\ first \in BOOLEAN
  BY InvTypes
<1>2. bwork = NoWork /\ UNCHANGED <<bprev, bdec, bframe, bwrong>>
  BY DEF SuperBlock, BlockBegins
<1>3. PICK choice \in SuperCodings(old, seqs, strategy) :
        bwork' = [kind |-> "super", choice |-> choice, seqs |-> seqs, sp |-> 0,
                  writeLit |-> choice.huf.type = "compressed", writeSeq |-> TRUE, out |-> <<>>]
  BY DEF SuperBlock
<1>4. Sufficient(old, first) /\ Agree(strategy, bdec.rep, rep)
  BY <1>2 DEF BlkInv, NoWork
<1>5. seqs \in SeqsFrom(strategy, first, rep)
  OBVIOUS
<1> HIDE DEF old, rep, first, strategy
<1>6. seqs \in Seq(Sequences) /\ AllReach(first, seqs)
  BY <1>1, <1>5, WholeHistory
<1>7. /\ LiteralsChosen(old, choice)
      /\ SequencesChosen(old, seqs, choice)
      /\ NextChosen(old, choice)
      /\ DOMAIN choice = Kinds
  <2>1. choice \in Codings(old, seqs, strategy) \cup SuperCodings(old, seqs, strategy)
    BY <1>3
  <2>2. bprev.entropy \in Entropies
    BY <1>1 DEF old
  <2>3. QED
    BY <1>1, <1>4, <1>6, <2>1, <2>2, ChoiceIs
<1>8. AfterSeqs(rep, SubSeq(seqs, 1, 0)) = rep
  BY <1>6, HistoryEnds
<1> DEFINE w == bwork'
<1>9. w = [kind |-> "super", choice |-> choice, seqs |-> seqs, sp |-> 0,
           writeLit |-> choice["huf"].type = "compressed", writeSeq |-> TRUE, out |-> <<>>]
  BY <1>3
<1> HIDE DEF w
<1>10. /\ w.kind = "super" /\ w.choice = choice /\ w.seqs = seqs /\ w.sp = 0
       /\ w.writeLit = (choice["huf"].type = "compressed") /\ w.writeSeq = TRUE /\ w.out = <<>>
  BY <1>9
<1>11. Decoded(bdec, w) = bdec
  BY <1>10, BlocksNone DEF Decoded
<1>12. HasTables(bdec, bdec, w)
  BY <1>10 DEF HasTables
<1>13. w.out \in Seq({w.out[i] : i \in DOMAIN w.out})
  BY <1>10
<1>14. 0 \in 0 .. Len(seqs)
  BY <1>6
<1>15. w = [kind |-> "super", choice |-> w.choice, seqs |-> w.seqs, sp |-> w.sp,
            writeLit |-> w.writeLit, writeSeq |-> w.writeSeq, out |-> w.out]
  BY <1>9
<1>16. SubBlocksAre(w, bprev, bdec, strategy, first)
  BY <1>1, <1>4, <1>5, <1>7, <1>8, <1>10, <1>11, <1>12, <1>13, <1>14, <1>15
     DEF SubBlocksAre, rep, old
<1>17. /\ bprev' = bprev /\ bdec' = bdec /\ bframe' = bframe /\ bwrong' = bwrong
       /\ First' = First
  BY <1>2 DEF First
<1>18. SubBlocksAre(bwork', bprev', bdec', bframe'.strategy, First')
  BY <1>16, <1>17 DEF strategy, first, w
<1>19. Agree(bframe'.strategy, bdec'.rep, bprev'.rep)
  BY <1>4, <1>17 DEF strategy, rep
<1>20. QED
  BY <1>17, <1>18, <1>19 DEF BlkInv

\* One sub-block more.
LEMMA SubBlockIs ==
  ASSUME BlkInv, bwork.kind = "super", NEW count \in Nat, NEW plain \in BOOLEAN,
         bwork.sp + count <= Len(bwork.seqs)
  PROVE  /\ SubBlocksAre(SubBlock(count, plain), bprev, bdec, bframe.strategy, First)
         /\ SubBlock(count, plain).seqs = bwork.seqs
         /\ SubBlock(count, plain).choice = bwork.choice
         /\ SubBlock(count, plain).sp = bwork.sp + count
<1> DEFINE old      == bprev.entropy
           rep      == bprev.rep
           first    == First
           strategy == bframe.strategy
           all      == bwork.seqs
           sp       == bwork.sp
           out      == bwork.out
           choice   == bwork.choice
           seqs     == SubSeq(all, sp + 1, sp + count)
           meant    == SubSeq(Meant(rep, all), sp + 1, sp + count)
           lit      == SubBlockLiteral(plain)
           types    == [k \in Kinds |-> IF k = "huf" THEN lit ELSE SubBlockSequences(k)]
           tables   == [k \in Kinds |-> choice[k].next.table]
           b        == [types |-> types, tables |-> tables, seqs |-> seqs, meant |-> meant]
           w        == SubBlock(count, plain)
           d        == Decoded(bdec, bwork)
           e        == DecompressBlock_internal(d, b)
           end      == sp + count
<1>1. /\ bprev \in Previous /\ rep \in Reps /\ old \in Entropies /\ Covers(old)
      /\ bdec \in Decoders /\ bdec.wrong = {} /\ bdec.rep \in Reps /\ first \in BOOLEAN
  BY InvTypes
<1>2. SubBlocksAre(bwork, bprev, bdec, strategy, first)
  BY WorkKinds
<1>3. Shared(bdec, old)
  BY DEF BlkInv
<1>4. w = [bwork EXCEPT !.sp = sp + count, !.out = Append(out, b),
                        !.writeLit = bwork.writeLit /\ lit # "compressed",
                        !.writeSeq = bwork.writeSeq /\ seqs = <<>>]
  BY DEF SubBlock
<1>5. /\ lit = IF choice.huf.type = "raw" \/ plain THEN "raw"
               ELSE IF bwork.writeLit THEN "compressed" ELSE "repeat"
      /\ \A s \in Streams : types[s] = IF bwork.writeSeq THEN choice[s].type ELSE "repeat"
      /\ types["huf"] = lit
  BY KindsAre DEF SubBlockLiteral, SubBlockSequences
<1> HIDE DEF w, types, lit, e
<1>6. /\ bwork = [kind |-> "super", choice |-> choice, seqs |-> all, sp |-> sp,
                  writeLit |-> bwork.writeLit, writeSeq |-> bwork.writeSeq, out |-> out]
      /\ all \in SeqsFrom(strategy, first, rep)
      /\ LiteralsChosen(old, choice)
      /\ SequencesChosen(old, all, choice)
      /\ NextChosen(old, choice)
      /\ DOMAIN choice = Kinds
      /\ sp \in 0 .. Len(all)
      /\ bwork.writeLit \in BOOLEAN /\ bwork.writeSeq \in BOOLEAN
      /\ bwork.writeLit => choice["huf"].type = "compressed"
      /\ bwork.writeSeq => sp = 0
      /\ out \in Seq({out[i] : i \in DOMAIN out})
      /\ d \in Decoders /\ d.wrong = {}
      /\ Agree(strategy, d.rep, AfterSeqs(rep, SubSeq(all, 1, sp)))
      /\ HasTables(bdec, d, bwork)
  BY <1>2 DEF SubBlocksAre
<1>7. end \in Nat /\ sp \in Nat /\ sp <= end /\ end <= Len(all) /\ end \in 0 .. Len(all)
  <2>1. all \in Seq(Sequences)
    BY <1>6, BlocksAssumption DEF SeqsFrom, Sequences
  <2>2. Len(all) \in Nat
    BY <2>1
  <2>3. QED
    BY <1>6, <2>2
<1>8. d = FoldLeft(DecompressBlock_internal, bdec, out)
  BY DEF Decoded
<1>9. SubSeq(all, sp + 1, end) = seqs /\ SubSeq(Meant(rep, all), sp + 1, end) = meant
  OBVIOUS
<1> HIDE DEF seqs, meant, tables, d, end, choice, out, sp, all, strategy, first, rep, old
<1> DEFINE before == AfterSeqs(rep, SubSeq(all, 1, sp))
           after  == AfterSeqs(rep, SubSeq(all, 1, end))
<1>10. /\ seqs \in Seq(Sequences)
       /\ Len(seqs) = end - sp
       /\ \A s \in Streams : NeedOf(s, seqs) \subseteq NeedOf(s, all)
       /\ FoundBetween(strategy, first, seqs, meant, before, after)
  <2>1. LET part  == SubSeq(all, sp + 1, end)
            right == SubSeq(Meant(rep, all), sp + 1, end)
        IN  /\ part \in Seq(Sequences)
            /\ Len(part) = end - sp
            /\ \A s \in Streams : NeedOf(s, part) \subseteq NeedOf(s, all)
            /\ FoundBetween(strategy, first, part, right, before, after)
    BY <1>1, <1>6, <1>7, PartHistory
  <2>2. QED
    BY <1>9, <2>1
<1>11. MeantBetween(strategy, seqs, meant, before, after)
  BY <1>10 DEF FoundBetween, MeantBetween
<1>12. b.types = types /\ b.tables = tables /\ b.seqs = seqs /\ b.meant = meant
  OBVIOUS
<1>13. /\ tables \in [Kinds -> Table]
       /\ \A k \in Kinds : tables[k] = choice[k].next.table
  BY <1>6 DEF tables, NextChosen, Entries
<1>14. /\ "huf" \in Kinds /\ \A s \in Streams : s \in Kinds /\ s # "huf"
  BY KindsAre
<1>15. LiteralsReadable(d, types, tables)
  <2>1. types["huf"] \in {"raw", "compressed", "repeat"}
    BY <1>5
  <2>2. types["huf"] # "raw" => Codes("huf") \subseteq tables["huf"].cover
    BY <1>5, <1>6, <1>13, <1>14 DEF LiteralsChosen
  <2>3. ASSUME types["huf"] = "repeat" PROVE d.litEntropy /\ d.table["huf"] = tables["huf"]
    <3>1. ~bwork.writeLit /\ choice["huf"].type # "raw"
      BY <1>5, <2>3
    <3>2. CASE choice["huf"].type = "compressed"
      BY <1>6, <1>13, <1>14, <3>1, <3>2 DEF HasTables, choice
    <3>3. CASE choice["huf"].type = "repeat"
      <4>1. choice["huf"].next = old["huf"] /\ old["huf"].mode # "none"
        BY <1>6, <3>3 DEF LiteralsChosen
      <4>2. bdec.table["huf"] = old["huf"].table /\ bdec.litEntropy
        BY <1>3, <1>14, <4>1 DEF Shared
      <4>3. d.table["huf"] = bdec.table["huf"] /\ d.litEntropy
        BY <1>6, <3>3, <4>2 DEF HasTables, choice
      <4>4. QED
        BY <1>13, <1>14, <4>1, <4>2, <4>3
    <3>4. QED
      BY <1>6, <3>1, <3>2, <3>3 DEF LiteralsChosen
  <2>4. QED
    BY <2>1, <2>2, <2>3 DEF LiteralsReadable
<1>16. ASSUME seqs # <<>> PROVE SequencesReadable(d, types, tables, seqs) /\ all # <<>>
  <2>1. all # <<>>
    <3>1. Len(seqs) # 0
      BY <1>10, <1>16, EmptySeq
    <3>2. Len(all) # 0
      BY <1>7, <1>10, <3>1
    <3>3. QED
      BY <3>2
  <2>2. ASSUME NEW s \in Streams
        PROVE  /\ NeedOf(s, seqs) \subseteq tables[s].cover
               /\ types[s] = "repeat" => d.fseEntropy /\ d.table[s] = tables[s]
               /\ types[s] = "basic" => tables[s] = DefaultTable(s)
    <3>1. /\ NeedOf(s, all) \subseteq choice[s].next.table.cover
          /\ choice[s].type = "repeat" => choice[s].next = old[s] /\ old[s].mode # "none"
          /\ choice[s].type = "basic" => choice[s].next.table = DefaultTable(s)
      BY <1>6, <2>1 DEF SequencesChosen
    <3>2. tables[s] = choice[s].next.table /\ s \in Kinds
      BY <1>13, <1>14
    <3>3. CASE bwork.writeSeq
      <4>1. types[s] = choice[s].type
        BY <1>5, <3>3
      <4>2. ASSUME types[s] = "repeat" PROVE d.fseEntropy /\ d.table[s] = tables[s]
        <5>1. choice[s].next = old[s] /\ old[s].mode # "none"
          BY <3>1, <4>1, <4>2
        <5>2. bdec.table[s] = old[s].table /\ bdec.fseEntropy
          BY <1>3, <1>14, <5>1 DEF Shared
        <5>3. d.table[s] = bdec.table[s] /\ d.fseEntropy
          BY <1>6, <3>3, <5>2 DEF HasTables
        <5>4. QED
          BY <3>2, <5>1, <5>2, <5>3
      <4>3. QED
        BY <1>10, <3>1, <3>2, <4>1, <4>2
    <3>4. CASE ~bwork.writeSeq
      <4>1. types[s] = "repeat"
        BY <1>5, <3>4
      <4>2. d.table[s] = choice[s].next.table /\ d.fseEntropy
        BY <1>6, <3>4 DEF HasTables, choice
      <4>3. QED
        BY <1>10, <3>1, <3>2, <4>1, <4>2
    <3>5. QED
      BY <1>6, <3>3, <3>4
  <2>3. QED
    BY <2>1, <2>2 DEF SequencesReadable
<1> HIDE DEF b, before, after
<1>17. /\ e \in Decoders
       /\ e.wrong = d.wrong
       /\ Agree(strategy, e.rep, after)
       /\ e.table["huf"] = IF b.types["huf"] = "compressed" THEN b.tables["huf"]
                           ELSE d.table["huf"]
       /\ d.litEntropy \/ b.types["huf"] = "compressed" => e.litEntropy
       /\ \A s \in Streams : e.table[s] = IF b.seqs = <<>> THEN d.table[s] ELSE b.tables[s]
       /\ d.fseEntropy \/ b.seqs # <<>> => e.fseEntropy
  <2>1. /\ b.tables \in [Kinds -> Table] /\ b.seqs \in Seq(Sequences)
        /\ LiteralsReadable(d, b.types, b.tables)
        /\ b.seqs # <<>> => SequencesReadable(d, b.types, b.tables, b.seqs)
        /\ MeantBetween(strategy, b.seqs, b.meant, before, after)
        /\ Agree(strategy, d.rep, before)
    BY <1>6, <1>10, <1>11, <1>12, <1>13, <1>15, <1>16 DEF before
  <2>2. QED
    BY <1>6, <2>1, BlockDecodes DEF e
<1>18. /\ w.kind = "super" /\ w.choice = choice /\ w.seqs = all /\ w.sp = end
       /\ w.writeLit = (bwork.writeLit /\ lit # "compressed")
       /\ w.writeSeq = (bwork.writeSeq /\ seqs = <<>>) /\ w.out = Append(out, b)
       /\ w = [kind |-> "super", choice |-> w.choice, seqs |-> w.seqs, sp |-> w.sp,
               writeLit |-> w.writeLit, writeSeq |-> w.writeSeq, out |-> w.out]
  <2> DEFINE more == Append(out, b)
             l    == bwork.writeLit /\ lit # "compressed"
             q    == bwork.writeSeq /\ seqs = <<>>
  <2>1. w = [bwork EXCEPT !.sp = end, !.out = more, !.writeLit = l, !.writeSeq = q]
    BY <1>4 DEF end, out
  <2> HIDE DEF more, l, q
  <2>2. w = [kind |-> "super", choice |-> choice, seqs |-> all, sp |-> end,
             writeLit |-> l, writeSeq |-> q, out |-> more]
    <3> DEFINE l0 == bwork.writeLit
               q0 == bwork.writeSeq
    <3>1. bwork = [kind |-> "super", choice |-> choice, seqs |-> all, sp |-> sp,
                   writeLit |-> l0, writeSeq |-> q0, out |-> out]
      BY <1>6
    <3> HIDE DEF l0, q0
    <3>2. QED
      BY <2>1, <3>1
  <2>3. QED
    BY <2>2 DEF more, l, q
<1>19. /\ w.out \in Seq({w.out[i] : i \in DOMAIN w.out})
       /\ Decoded(bdec, w) = e
  <2> DEFINE had  == {out[i] : i \in DOMAIN out}
             R    == had \cup {b}
             more == Append(out, b)
             has  == {more[i] : i \in DOMAIN more}
  <2>1. out \in Seq(had)
    BY <1>6
  <2>2. out \in Seq(R) /\ b \in R
    <3> HIDE DEF had
    <3>1. QED
      BY <2>1
  <2> HIDE DEF had, R
  <2>3. more \in Seq(R)
    BY <2>2
  <2>4. FoldLeft(DecompressBlock_internal, bdec, more) = e
    BY <1>8, <2>2, BlocksAppend DEF e
  <2> HIDE DEF more
  <2>5. more \in Seq(has)
    <3>1. /\ DOMAIN more = 1 .. Len(more)
          /\ Len(more) \in Nat
          /\ more = [i \in 1 .. Len(more) |-> more[i]]
      BY <2>3
    <3>2. \A i \in 1 .. Len(more) : more[i] \in has
      BY <3>1
    <3> HIDE DEF has
    <3>3. QED
      BY <3>1, <3>2
  <2>6. w.out = more
    BY <1>18 DEF more
  <2>7. QED
    BY <2>4, <2>5, <2>6 DEF Decoded
<1>20. HasTables(bdec, e, w)
  <2>1. IF w.writeLit \/ choice["huf"].type # "compressed"
        THEN e.table["huf"] = bdec.table["huf"] /\ (bdec.litEntropy => e.litEntropy)
        ELSE e.table["huf"] = choice["huf"].next.table /\ e.litEntropy
    <3>1. IF bwork.writeLit \/ choice["huf"].type # "compressed"
          THEN d.table["huf"] = bdec.table["huf"] /\ (bdec.litEntropy => d.litEntropy)
          ELSE d.table["huf"] = choice["huf"].next.table /\ d.litEntropy
      BY <1>6 DEF HasTables, choice
    <3>2. /\ e.table["huf"] = IF lit = "compressed" THEN tables["huf"] ELSE d.table["huf"]
          /\ d.litEntropy \/ lit = "compressed" => e.litEntropy
      BY <1>5, <1>12, <1>17
    <3>3. lit = "compressed" => bwork.writeLit /\ choice["huf"].type = "compressed"
      BY <1>5, <1>6
    <3>4. tables["huf"] = choice["huf"].next.table
      BY <1>13, <1>14
    <3>5. CASE lit = "compressed"
      BY <1>18, <3>2, <3>3, <3>4, <3>5
    <3>6. CASE lit # "compressed"
      BY <1>6, <1>18, <3>1, <3>2, <3>6
    <3>7. QED
      BY <3>5, <3>6
  <2>2. IF w.writeSeq
        THEN (\A s \in Streams : e.table[s] = bdec.table[s]) /\ (bdec.fseEntropy => e.fseEntropy)
        ELSE (\A s \in Streams : e.table[s] = choice[s].next.table) /\ e.fseEntropy
    <3>1. IF bwork.writeSeq
          THEN (\A s \in Streams : d.table[s] = bdec.table[s]) /\ (bdec.fseEntropy => d.fseEntropy)
          ELSE (\A s \in Streams : d.table[s] = choice[s].next.table) /\ d.fseEntropy
      BY <1>6 DEF HasTables, choice
    <3>2. /\ \A s \in Streams :
                e.table[s] = IF seqs = <<>> THEN d.table[s] ELSE choice[s].next.table
          /\ d.fseEntropy \/ seqs # <<>> => e.fseEntropy
      BY <1>12, <1>13, <1>14, <1>17
    <3>3. CASE seqs = <<>>
      BY <1>6, <1>18, <3>1, <3>2, <3>3
    <3>4. CASE seqs # <<>>
      BY <1>18, <3>2, <3>4
    <3>5. QED
      BY <3>3, <3>4
  <2>3. QED
    BY <1>18, <2>1, <2>2 DEF HasTables
<1>21. w.writeSeq => w.sp = 0
  <2>1. ASSUME bwork.writeSeq, seqs = <<>> PROVE end = 0
    <3>1. sp = 0 /\ Len(seqs) = 0
      BY <1>6, <2>1
    <3>2. QED
      BY <1>7, <1>10, <3>1
  <2>2. QED
    BY <1>18, <2>1
<1>22. SubBlocksAre(w, bprev, bdec, strategy, first)
  <2>1. w.writeLit \in BOOLEAN /\ w.writeSeq \in BOOLEAN
        /\ (w.writeLit => w.choice["huf"].type = "compressed")
    BY <1>6, <1>18
  <2>2. /\ w.seqs \in SeqsFrom(strategy, first, bprev.rep)
        /\ LiteralsChosen(bprev.entropy, w.choice)
        /\ SequencesChosen(bprev.entropy, w.seqs, w.choice)
        /\ NextChosen(bprev.entropy, w.choice)
        /\ DOMAIN w.choice = Kinds
        /\ w.sp \in 0 .. Len(w.seqs)
    BY <1>6, <1>7, <1>18 DEF rep, old
  <2>3. /\ Decoded(bdec, w) \in Decoders /\ Decoded(bdec, w).wrong = {}
        /\ Agree(strategy, Decoded(bdec, w).rep, AfterSeqs(bprev.rep, SubSeq(w.seqs, 1, w.sp)))
        /\ HasTables(bdec, Decoded(bdec, w), w)
    BY <1>6, <1>17, <1>18, <1>19, <1>20 DEF after, rep
  <2>4. w = [kind |-> "super", choice |-> w.choice, seqs |-> w.seqs, sp |-> w.sp,
             writeLit |-> w.writeLit, writeSeq |-> w.writeSeq, out |-> w.out]
    BY <1>18
  <2>5. w.out \in Seq({w.out[i] : i \in DOMAIN w.out})
    BY <1>19
  <2>6. QED
    BY <1>21, <2>1, <2>2, <2>3, <2>4, <2>5 DEF SubBlocksAre
<1>23. QED
  BY <1>18, <1>22 DEF w, all, choice, end, sp, strategy, first

LEMMA EmitKeeps ==
  ASSUME BlkInv, NEW count \in 1 .. 2, NEW plain \in BOOLEAN, EmitSubBlock(count, plain)
  PROVE  BlkInv'
<1> DEFINE w == SubBlock(count, plain)
<1>1. /\ bwork.kind = "super" /\ bwork.sp + count < Len(bwork.seqs)
      /\ bwork' = w /\ UNCHANGED <<bprev, bdec, bframe, bwrong>>
  BY DEF EmitSubBlock
<1> HIDE DEF w
<1>2. SubBlocksAre(bwork, bprev, bdec, bframe.strategy, First)
  BY <1>1, WorkKinds
<1>3. count \in Nat /\ bwork.sp + count <= Len(bwork.seqs)
  <2>1. bwork.seqs \in Seq(Sequences) /\ bwork.sp \in 0 .. Len(bwork.seqs)
    BY <1>2, BlocksAssumption DEF SubBlocksAre, SeqsFrom, Sequences
  <2>2. Len(bwork.seqs) \in Nat /\ bwork.sp \in Nat
    BY <2>1
  <2>3. QED
    BY <1>1, <2>2
<1>4. SubBlocksAre(w, bprev, bdec, bframe.strategy, First)
  BY <1>1, <1>3, SubBlockIs DEF w
<1>5. /\ bprev' = bprev /\ bdec' = bdec /\ bframe' = bframe /\ bwrong' = bwrong
      /\ First' = First
  BY <1>1 DEF First
<1>6. SubBlocksAre(bwork', bprev', bdec', bframe'.strategy, First')
  BY <1>1, <1>4, <1>5
<1>7. Agree(bframe'.strategy, bdec'.rep, bprev'.rep)
  BY <1>1, <1>5 DEF BlkInv
<1>8. QED
  BY <1>5, <1>6, <1>7 DEF BlkInv

\* The end of a superblock: it is sent with the tables that a sub-block carried, or not
\* at all.
LEMMA LastKeeps ==
  ASSUME BlkInv, NEW plain \in BOOLEAN, NEW compressed \in BOOLEAN, NEW small \in BOOLEAN,
         LastSubBlock(plain, compressed, small)
  PROVE  BlkInv'
<1> DEFINE old      == bprev.entropy
           rep      == bprev.rep
           first    == First
           strategy == bframe.strategy
           all      == bwork.seqs
           n        == Len(all)
           rest     == n - bwork.sp
           w        == IF compressed THEN SubBlock(rest, plain) ELSE bwork
           given    == w.writeSeq /\ NeedSequenceEntropyTables(w.choice)
           next     == NextEntropy(w.choice)
           huf      == IF w.writeLit THEN bprev.entropy["huf"] ELSE next["huf"]
           left     == IF ~compressed /\ rest > 0
                       THEN AfterSeqs(bprev.rep, SubSeq(w.seqs, 1, w.sp))
                       ELSE LeftRep(bframe.strategy, bprev.rep, w.seqs)
           kept     == [next EXCEPT !["huf"] = huf]
<1>1. /\ bprev \in Previous /\ rep \in Reps /\ old \in Entropies /\ Covers(old)
      /\ bdec \in Decoders /\ bdec.wrong = {} /\ bdec.rep \in Reps /\ first \in BOOLEAN
  BY InvTypes
<1>2. /\ bwork.kind = "super" /\ bwork' = NoWork /\ BlockDone
      /\ IF small /\ ~given
         THEN Sent(w.out) /\ bprev' = Downgraded([rep |-> left, entropy |-> kept])
         ELSE bprev' = Downgraded(bprev) /\ UNCHANGED <<bdec, bwrong>>
  BY DEF LastSubBlock
<1>3. Shared(bdec, old) /\ Agree(strategy, bdec.rep, rep) /\ bwrong = {}
  BY <1>2 DEF BlkInv
<1>4. CASE ~(small /\ ~given)
  BY <1>1, <1>2, <1>3, <1>4, Settled
<1>5. CASE small /\ ~given
  <2>1. SubBlocksAre(bwork, bprev, bdec, strategy, first)
    BY <1>2, WorkKinds
  <2>2. /\ all \in SeqsFrom(strategy, first, rep) /\ all \in Seq(Sequences) /\ n \in Nat
        /\ bwork.sp \in 0 .. n
    BY <2>1, BlocksAssumption DEF SubBlocksAre, SeqsFrom, Sequences
  <2>3. rest \in Nat /\ bwork.sp + rest = n
    BY <2>2
  <2> HIDE DEF given, next, huf, left, kept, n
  <2>4. /\ SubBlocksAre(w, bprev, bdec, strategy, first)
        /\ w.seqs = all
        /\ compressed \/ ~(rest > 0) => w.sp = n
    <3>1. CASE compressed
      <4> DEFINE count == rest
      <4>1. count \in Nat /\ bwork.sp + count <= Len(bwork.seqs) /\ bwork.sp + count = n
        BY <2>2, <2>3 DEF n
      <4>2. w = SubBlock(count, plain)
        BY <3>1
      <4> HIDE DEF count, w
      <4>3. QED
        BY <1>2, <4>1, <4>2, SubBlockIs
    <3>2. CASE ~compressed
      BY <2>1, <2>2, <3>2
    <3>3. QED
      BY <3>1, <3>2
  <2> HIDE DEF w, all, rest, strategy, first, rep, old
  <2> DEFINE e == Decoded(bdec, w)
  <2>5. /\ LiteralsChosen(old, w.choice)
        /\ SequencesChosen(old, all, w.choice)
        /\ NextChosen(old, w.choice)
        /\ w.writeLit \in BOOLEAN /\ w.writeSeq \in BOOLEAN
        /\ w.writeLit => w.choice["huf"].type = "compressed"
        /\ e \in Decoders /\ e.wrong = {}
        /\ Agree(strategy, e.rep, AfterSeqs(rep, SubSeq(all, 1, w.sp)))
        /\ HasTables(bdec, e, w)
        /\ w.sp \in 0 .. n
    BY <2>4 DEF SubBlocksAre, old, rep, n
  <2>6. bdec' = e /\ bwrong' = {}
    BY <1>2, <1>5, <2>5, SentIs DEF Decoded
  <2> HIDE DEF e
  <2>7. /\ next \in Entropies /\ Covers(next)
        /\ \A k \in Kinds : next[k] = w.choice[k].next
    BY <1>1, <2>5, NextIs DEF next
  <2>8. huf \in Entries /\ huf = IF w.writeLit THEN old["huf"] ELSE w.choice["huf"].next
    <3>1. huf = IF w.writeLit THEN old["huf"] ELSE w.choice["huf"].next
      BY <2>7, KindsAre DEF huf, old
    <3>2. old["huf"] \in Entries /\ w.choice["huf"].next \in Entries
      BY <1>1, <2>5, KindsAre DEF Entropies, NextChosen
    <3>3. QED
      BY <3>1, <3>2
  <2>9. /\ kept \in Entropies
        /\ kept["huf"] = huf
        /\ \A s \in Streams : kept[s] = w.choice[s].next
    BY <2>7, <2>8, KindsAre DEF kept, Entropies
  <2>10. Covers(kept)
    <3>1. old["huf"].mode = "valid" => Codes("huf") \subseteq old["huf"].table.cover
      BY <1>1 DEF Covers
    <3>2. /\ next["huf"].mode = "valid" => Codes("huf") \subseteq next["huf"].table.cover
          /\ next["ll"].mode = "valid" => Codes("ll") \subseteq next["ll"].table.cover
      BY <2>7 DEF Covers
    <3>3. next["huf"] = w.choice["huf"].next /\ next["ll"] = w.choice["ll"].next
      BY <2>7, KindsAre
    <3>4. kept["huf"] = old["huf"] \/ kept["huf"] = next["huf"]
      BY <2>8, <2>9, <3>3
    <3>5. kept["ll"] = next["ll"]
      BY <2>9, <3>3, KindsAre
    <3>6. QED
      BY <3>1, <3>2, <3>4, <3>5 DEF Covers
  <2>11. ASSUME huf.mode # "none" PROVE e.table["huf"] = huf.table /\ e.litEntropy
    <3>1. /\ IF w.writeLit \/ w.choice["huf"].type # "compressed"
             THEN e.table["huf"] = bdec.table["huf"] /\ (bdec.litEntropy => e.litEntropy)
             ELSE e.table["huf"] = w.choice["huf"].next.table /\ e.litEntropy
      BY <2>5 DEF HasTables
    <3>2. old["huf"].mode # "none" => bdec.table["huf"] = old["huf"].table /\ bdec.litEntropy
      BY <1>3, KindsAre DEF Shared
    <3>3. w.choice["huf"].type # "compressed" => w.choice["huf"].next = old["huf"]
      BY <2>5 DEF LiteralsChosen
    <3>4. CASE w.writeLit
      BY <2>8, <2>11, <3>1, <3>2, <3>4
    <3>5. CASE ~w.writeLit /\ w.choice["huf"].type # "compressed"
      BY <2>8, <2>11, <3>1, <3>2, <3>3, <3>5
    <3>6. CASE ~w.writeLit /\ w.choice["huf"].type = "compressed"
      BY <2>8, <3>1, <3>6
    <3>7. QED
      BY <2>5, <3>4, <3>5, <3>6
  <2>12. ASSUME NEW s \in Streams, w.choice[s].next.mode # "none"
         PROVE  e.table[s] = w.choice[s].next.table /\ e.fseEntropy
    <3>1. /\ w.writeSeq => e.table[s] = bdec.table[s] /\ (bdec.fseEntropy => e.fseEntropy)
          /\ ~w.writeSeq => e.table[s] = w.choice[s].next.table /\ e.fseEntropy
      BY <2>5 DEF HasTables
    <3>2. CASE w.writeSeq
      <4>1. ~(w.choice[s].type \in {"compressed", "rle"})
        BY <1>5, <3>2 DEF given, NeedSequenceEntropyTables
      <4>2. w.choice[s].next = old[s]
        BY <2>5, <2>12, <4>1 DEF SequencesChosen
      <4>3. bdec.table[s] = old[s].table /\ bdec.fseEntropy
        BY <1>3, <2>12, <4>2, KindsAre DEF Shared
      <4>4. QED
        BY <3>1, <3>2, <4>2, <4>3
    <3>3. QED
      BY <2>5, <3>1, <3>2
  <2>13. Shared(e, kept)
    BY <2>9, <2>11, <2>12, KindsAre DEF Shared
  <2>14. AfterSeqs(rep, all) \in Reps
    BY <1>1, <2>2, WholeHistory
  <2>15. left \in Reps /\ Agree(strategy, e.rep, left)
    <3>1. CASE ~compressed /\ rest > 0
      <4>1. left = AfterSeqs(rep, SubSeq(all, 1, w.sp))
        BY <2>4, <3>1 DEF left, rep
      <4>2. AfterSeqs(rep, SubSeq(all, 1, w.sp)) \in Reps
        <5> DEFINE h(m) == AfterSeqs(rep, SubSeq(all, 1, m))
        <5>1. \A k \in 0 .. Len(all) : h(k) \in Reps
          BY <1>1, <2>2, StoredHistory
        <5>2. QED
          BY <2>5, <5>1 DEF n
      <4>3. QED
        BY <2>5, <4>1, <4>2
    <3>2. CASE ~(~compressed /\ rest > 0)
      <4>1. left = LeftRep(strategy, rep, all)
        BY <2>4, <3>2 DEF left, rep, strategy
      <4>2. w.sp = n
        BY <2>4, <3>2
      <4>3. AfterSeqs(rep, SubSeq(all, 1, w.sp)) = AfterSeqs(rep, all)
        BY <2>2, <4>2, HistoryEnds DEF n
      <4>4. QED
        BY <1>1, <2>5, <2>14, <4>1, <4>3, LeftAgrees
    <3>3. QED
      BY <3>1, <3>2
  <2> DEFINE p == [rep |-> left, entropy |-> kept]
  <2>16. p \in Previous /\ p.rep = left /\ p.entropy = kept
    BY <2>9, <2>15 DEF Previous
  <2>17. bprev' = Downgraded(p)
    BY <1>2, <1>5
  <2> HIDE DEF p
  <2>18. QED
    BY <1>2, <2>5, <2>6, <2>10, <2>13, <2>15, <2>16, <2>17, Settled DEF strategy
<1>6. QED
  BY <1>4, <1>5

LEMMA NextKeeps == ASSUME BlkInv, [BlkNext]_blkVars PROVE BlkInv'
<1>1. CASE UNCHANGED blkVars
  <2>1. /\ bprev' = bprev /\ bdec' = bdec /\ bwork' = bwork /\ bframe' = bframe
        /\ bwrong' = bwrong /\ First' = First
    BY <1>1 DEF blkVars, First
  <2>2. QED
    BY <2>1 DEF BlkInv
<1>2. ASSUME NEW seqs \in SeqsFrom(bframe.strategy, bframe.blocks = 0, bprev.rep),
             \/ CompressBlockInternal(seqs)
             \/ SuperBlock(seqs)
             \/ \E partitions \in Partitions(Len(seqs)) : SplitBlock(seqs, partitions)
      PROVE  BlkInv'
  <2>1. seqs \in SeqsFrom(bframe.strategy, First, bprev.rep)
    BY DEF First
  <2>2. QED
    BY <1>2, <2>1, WholeKeeps, SuperKeeps, SplitKeeps
<1>3. CASE Chunk
  BY <1>3, ChunkKeeps
<1>4. ASSUME NEW plain \in BOOLEAN, NEW count \in 1 .. 2, EmitSubBlock(count, plain)
      PROVE  BlkInv'
  BY <1>4, EmitKeeps
<1>5. ASSUME NEW plain \in BOOLEAN, NEW compressed \in BOOLEAN, NEW small \in BOOLEAN,
             LastSubBlock(plain, compressed, small)
      PROVE  BlkInv'
  BY <1>5, LastKeeps
<1>6. QED
  BY <1>1, <1>2, <1>3, <1>4, <1>5 DEF BlkNext

-----------------------------------------------------------------------------
\* Whatever sequences are found, and whatever the dictionary holds: encoder and decoder
\* know the same of tables and last offsets between two blocks, and within one that is
\* written in parts or as a superblock it is known in which way they differ.
THEOREM StepKept == BlkSpec => []BlkInv
BY InitKeeps, NextKeeps, PTL DEF BlkSpec

\* Hence the decoder stays in step: it never misses a table or a symbol, never takes a
\* repcode for another offset, and between blocks has the offsets and the tables that the
\* encoder goes on with (ZSTD_compressBlock_internal, _splitBlock, _targetCBlockSize and
\* ZSTD_decompressBlock_internal).
THEOREM InStep == BlkSpec => []DecoderInStep
<1>1. BlkSpec => []BlkInv
  BY StepKept
<1>2. QED
  BY <1>1, InvSays, PTL
=============================================================================
