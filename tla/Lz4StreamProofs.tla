--------------------------- MODULE Lz4StreamProofs ---------------------------
(***************************************************************************)
(* Proofs about the block compressor of the embedded lz4: whatever is      *)
(* compressed in whatever order, nothing is written behind the room for a  *)
(* block, and every match that is written is one.                          *)
(***************************************************************************)
EXTENDS Lz4Invariant, WellFoundedInduction, SequenceTheorems, TLAPS

-----------------------------------------------------------------------------
(* Numbers. *)

\* Some number is the least one.
LEMMA LeastOf ==
  ASSUME NEW S \in SUBSET Nat, S # {}
  PROVE  \E m \in S : \A k \in S : m <= k
<1> DEFINE R == OpToRel(<, Nat)
<1>1. IsWellFoundedOn(R, Nat)
  BY NatLessThanWellFounded
<1>2. PICK m \in S : \A k \in S : <<k, m>> \notin R
  <2> HIDE DEF R
  <2>1. QED
    BY <1>1, WFMin
<1>3. ASSUME NEW k \in S PROVE m <= k
  <2>1. k \in Nat /\ m \in Nat
    OBVIOUS
  <2>2. k < m => <<k, m>> \in R
    BY <2>1 DEF OpToRel
  <2>3. <<k, m>> \notin R
    BY <1>2
  <2>4. ~(k < m)
    <3> HIDE DEF R
    <3>1. QED
      BY <2>2, <2>3
  <2>5. QED
    BY <2>1, <2>4
<1>4. QED
  BY <1>3

\* The maximum of a set of numbers with a bound.
LEMMA MaxOf ==
  ASSUME NEW n \in Int, NEW S \in SUBSET Nat, S # {}, \A x \in S : x <= n
  PROVE  Max(S) \in S /\ \A x \in S : x <= Max(S)
<1> DEFINE T == {n - x : x \in S}
<1>1. T \in SUBSET Nat /\ T # {}
  <2>1. \A x \in S : x \in Nat /\ n - x \in Nat
    OBVIOUS
  <2>2. QED
    BY <2>1
<1>2. PICK m \in T : \A k \in T : m <= k
  <2> HIDE DEF T
  <2>1. QED
    BY <1>1, LeastOf
<1>3. PICK y \in S : m = n - y
  OBVIOUS
<1>4. \A x \in S : y >= x
  <2>1. TAKE x \in S
  <2>2. n - x \in T
    OBVIOUS
  <2>3. n - y <= n - x
    BY <1>2, <1>3, <2>2
  <2>4. QED
    BY <2>3
<1>5. Max(S) \in S /\ \A x \in S : Max(S) >= x
  BY <1>4 DEF Max
<1>6. QED
  BY <1>5

\* The minimum of a set of numbers is one of them.
LEMMA MinOf ==
  ASSUME NEW S \in SUBSET Nat, S # {}
  PROVE  Min(S) \in S
<1>1. PICK m \in S : \A k \in S : m <= k
  BY LeastOf
<1>2. QED
  BY <1>1 DEF Min

\* Division.
LEMMA DivIs ==
  ASSUME NEW b \in Nat \ {0}, NEW x \in Nat
  PROVE  /\ x \div b \in Nat
         /\ x = b * (x \div b) + (x % b)
         /\ x % b \in 0 .. b - 1
         /\ x \div b <= x
<1>1. x \div b \in Int /\ x % b \in 0 .. b - 1 /\ x = b * (x \div b) + (x % b)
  OBVIOUS
<1>2. x \div b >= 0
  BY <1>1
<1>3. x \div b <= x
  BY <1>1
<1>4. QED
  BY <1>1, <1>2, <1>3

\* The quotient is the greatest q with b * q <= x.
LEMMA DivAtLeast ==
  ASSUME NEW b \in Nat \ {0}, NEW x \in Nat, NEW q \in Nat, b * q <= x
  PROVE  q <= x \div b
<1>1. PICK d \in Nat : d = x \div b
  BY DivIs
<1>2. x < b * d + b
  BY <1>1, DivIs
<1>3. SUFFICES ASSUME q > d PROVE FALSE
  BY <1>1
<1>4. PICK e \in Nat : q = d + 1 + e
  <2>1. q = d + 1 + (q - d - 1) /\ q - d - 1 \in Nat
    BY <1>3
  <2>2. QED
    BY <2>1
<1>5. b * q = b * d + b + b * e
  BY ONLY <1>4, b \in Nat, d \in Nat, e \in Nat
<1>6. b * e >= 0 /\ b * e \in Int /\ b * d \in Int /\ b * q \in Int
  BY ONLY b \in Nat, e \in Nat, d \in Nat, q \in Nat
<1>7. QED
  BY <1>2, <1>5, <1>6

\* Division by a number keeps the order.
LEMMA DivGrows ==
  ASSUME NEW b \in Nat \ {0}, NEW x \in Nat, NEW y \in Nat, x <= y
  PROVE  x \div b <= y \div b
<1>1. PICK q \in Nat : q = x \div b
  BY DivIs
<1>2. b * q <= x /\ b * q \in Int
  BY <1>1, DivIs
<1>3. b * q <= y
  BY <1>2
<1>4. QED
  BY <1>1, <1>3, DivAtLeast

\* The sum of two quotients is at most the quotient of the sum.
LEMMA DivAdds ==
  ASSUME NEW b \in Nat \ {0}, NEW x \in Nat, NEW y \in Nat
  PROVE  (x \div b) + (y \div b) <= (x + y) \div b
<1>1. PICK p \in Nat : p = x \div b
  BY DivIs
<1>2. PICK q \in Nat : q = y \div b
  BY DivIs
<1>3. b * p <= x /\ b * q <= y
  BY <1>1, <1>2, DivIs
<1>4. b * (p + q) = b * p + b * q /\ b * p \in Int /\ b * q \in Int
  BY ONLY b \in Nat, p \in Nat, q \in Nat
<1>5. b * (p + q) <= x + y
  BY <1>3, <1>4
<1>6. p + q \in Nat /\ x + y \in Nat
  OBVIOUS
<1>7. QED
  BY <1>1, <1>2, <1>5, <1>6, DivAtLeast

\* What is less than the divisor has the quotient 0, and one divisor more makes it 1 more.
LEMMA DivSmall ==
  ASSUME NEW b \in Nat \ {0}, NEW x \in Nat
  PROVE  /\ x < b => x \div b = 0
         /\ (x + b) \div b = x \div b + 1
  OBVIOUS

-----------------------------------------------------------------------------
(* The sizes of what is written. *)

\* What is assumed of the sizes, in the form that the proofs use.
LEMMA Sizes ==
  /\ {MINMATCH, LASTLITERALS, OffsetSize, HashSize, SkipTrigger, NibbleMask, CopySize, WordSize,
      ByteMax} \subseteq Nat \ {0}
  /\ {MFLIMIT, DistanceMax, U16Max, LzBoundMargin} \subseteq Nat
  /\ MFLIMIT >= MINMATCH + LASTLITERALS /\ MINMATCH >= 2
  /\ NibbleMask > MFLIMIT - MINMATCH /\ ByteMax >= NibbleMask
  BY ParsingAssumption

\* The bytes that follow the token for a length.
Extra(n) == (n + ByteMax - NibbleMask) \div ByteMax

\* The bytes of a length that do not fit in the token are few.
LEMMA ExtraIs ==
  ASSUME NEW n \in Nat
  PROVE  /\ Extra(n) \in Nat
         /\ n < NibbleMask => Extra(n) = 0
         /\ n >= NibbleMask => n - NibbleMask \in Nat /\ Extra(n) = (n - NibbleMask) \div ByteMax + 1
         /\ Extra(n) <= n \div ByteMax + 1
         /\ Extra(n) <= n
<1>1. PICK b \in Nat \ {0} : b = ByteMax
  BY Sizes
<1>2. PICK k \in Nat \ {0} : k = NibbleMask
  BY Sizes
<1>3. k <= b
  BY <1>1, <1>2, Sizes
<1>4. n + b - k \in Nat
  BY <1>3
<1>5. Extra(n) = (n + b - k) \div b
  BY <1>1, <1>2 DEF Extra
<1>6. (n + b - k) \div b \in Nat
  BY <1>4, DivIs
<1>7. n < k => (n + b - k) \div b = 0
  BY <1>4, DivSmall
<1>8. ASSUME n >= k PROVE n - k \in Nat /\ (n + b - k) \div b = (n - k) \div b + 1 /\ (n - k) \div b \in Nat
                          /\ (n - k) \div b <= n \div b /\ (n - k) \div b <= n - k
  <2>1. n - k \in Nat
    BY <1>8
  <2>2. ((n - k) + b) \div b = (n - k) \div b + 1
    BY <2>1, DivSmall
  <2>3. n + b - k = (n - k) + b
    OBVIOUS
  <2>4. (n - k) \div b \in Nat /\ (n - k) \div b <= n - k
    BY <2>1, DivIs
  <2>5. (n - k) \div b <= n \div b
    BY <2>1, DivGrows
  <2>6. QED
    BY <2>1, <2>2, <2>3, <2>4, <2>5
<1>9. n \div b \in Nat
  BY DivIs
<1>10. (n + b - k) \div b <= n \div b + 1
  BY <1>7, <1>8, <1>9
<1>11. (n + b - k) \div b <= n
  <2>1. CASE n < k
    BY <2>1, <1>7
  <2>2. CASE n >= k
    <3>1. PICK q \in Nat : q = (n - k) \div b
      BY <2>2, <1>8
    <3>2. q <= n - k /\ (n + b - k) \div b = q + 1
      BY <2>2, <3>1, <1>8
    <3>3. QED
      BY <3>2
  <2>3. QED
    BY <2>1, <2>2
<1>12. QED
  BY <1>1, <1>2, <1>5, <1>6, <1>7, <1>8, <1>10, <1>11

\* They are as many as Further says.
LEMMA FurtherIs ==
  ASSUME NEW n \in Nat
  PROVE  Further(n) \in Seq(Nat) /\ Len(Further(n)) = Extra(n)
<1>1. CASE n < NibbleMask
  BY <1>1, ExtraIs DEF Further
<1>2. CASE n >= NibbleMask
  <2>1. n - NibbleMask \in Nat /\ ByteMax \in Nat \ {0}
    BY <1>2, ExtraIs, Sizes
  <2>2. PICK q \in Nat : q = (n - NibbleMask) \div ByteMax
    BY <2>1, DivIs
  <2>3. PICK r \in Nat : r = (n - NibbleMask) % ByteMax
    BY <2>1, DivIs
  <2>4. Further(n) = [i \in 1 .. q |-> ByteMax] \o <<r>>
    <3>1. ~(n < NibbleMask)
      BY <1>2, Sizes
    <3>2. Further(n) = [i \in 1 .. (n - NibbleMask) \div ByteMax |-> ByteMax]
                         \o <<(n - NibbleMask) % ByteMax>>
      BY ONLY <3>1 DEF Further
    <3>3. QED
      BY ONLY <3>2, <2>2, <2>3
  <2>5. [i \in 1 .. q |-> ByteMax] \in Seq(Nat) /\ Len([i \in 1 .. q |-> ByteMax]) = q
    BY <2>1
  <2>6. <<r>> \in Seq(Nat) /\ Len(<<r>>) = 1
    OBVIOUS
  <2>7. Further(n) \in Seq(Nat) /\ Len(Further(n)) = q + 1
    BY <2>4, <2>5, <2>6, ConcatProperties
  <2>8. QED
    BY <1>2, <2>2, <2>7, ExtraIs
<1>3. QED
  BY <1>1, <1>2, Sizes

\* What a sequence takes is not more than what the bound grows by over what it stands for.
LEMMA SequencePays ==
  ASSUME NEW n \in Nat, NEW code \in Nat, NEW m \in Nat, m = n + MINMATCH + code
  PROVE  1 + Extra(n) + n + OffsetSize + Extra(code) <= m + m \div ByteMax
<1>1. PICK b \in Nat \ {0}, k \in Nat \ {0}, mm \in Nat \ {0}, o \in Nat \ {0} :
        b = ByteMax /\ k = NibbleMask /\ mm = MINMATCH /\ o = OffsetSize
  BY Sizes
<1>2. PICK f \in Nat, e \in Nat : f = Extra(n) /\ e = Extra(code)
  BY ExtraIs
<1>3. e <= code
  BY <1>2, ExtraIs
<1>4. PICK d \in Nat : d = m \div b
  BY DivIs
<1>5. \/ mm >= o + 2
      \/ mm >= o + 1 /\ k + mm >= b
  BY <1>1, RoomAssumption
<1>6. f <= d + 1
  <2>1. f <= n \div b + 1 /\ n \div b \in Nat
    BY <1>1, <1>2, ExtraIs, DivIs
  <2>2. n <= m
    BY <1>1
  <2>3. n \div b <= m \div b
    BY <2>2, DivGrows
  <2>4. QED
    BY <1>4, <2>1, <2>3
<1>7. ASSUME k + mm >= b PROVE f <= d
  <2>1. CASE n < k
    BY <2>1, <1>1, <1>2, ExtraIs
  <2>2. CASE n >= k
    <3>1. n - k \in Nat /\ f = (n - k) \div b + 1
      BY <2>2, <1>1, <1>2, ExtraIs
    <3>2. ((n - k) + b) \div b = f
      BY <3>1, DivSmall
    <3>3. (n - k) + b <= m /\ (n - k) + b \in Nat
      BY <1>7, <1>1, <3>1
    <3>4. QED
      BY <3>2, <3>3, <1>4, DivGrows
  <2>3. QED
    BY <2>1, <2>2
<1>8. m = n + mm + code
  BY <1>1
<1>9. 1 + f + n + o + e <= m + d
  BY ONLY <1>3, <1>5, <1>6, <1>7, <1>8, b \in Nat, k \in Nat, mm \in Nat, o \in Nat, f \in Nat,
          e \in Nat, d \in Nat, n \in Nat, code \in Nat, m \in Nat
<1>10. QED
  BY <1>1, <1>2, <1>4, <1>9

\* What LZ4_write32 writes too much is less than what must follow a match.
LEMMA WordsFit ==
  ASSUME NEW code \in Nat
  PROVE  WordsWritten(code) \in Nat /\ WordsWritten(code) <= Extra(code) + LASTLITERALS + 1
<1>1. PICK b \in Nat \ {0}, w \in Nat \ {0}, l \in Nat, k \in Nat \ {0} :
         b = ByteMax /\ w = WordSize /\ l = LASTLITERALS /\ k = NibbleMask
  BY Sizes
<1>2. CASE code < k
  BY <1>1, <1>2, ExtraIs DEF WordsWritten
<1>3. CASE code >= k
  <2>1. PICK x \in Nat : x = code - k
    BY <1>3
  <2>2. PICK v \in Nat \ {0} : v = w * b
    BY ONLY w \in Nat \ {0}, b \in Nat \ {0}
  <2>3. PICK q \in Nat : q = x \div v
    BY DivIs
  <2>4. v * q <= x
    <3>1. v * q \in Nat
      OBVIOUS
    <3>2. QED
      BY <2>3, <3>1, DivIs
  <2>5. w * q \in Nat /\ b * (w * q) = v * q
    BY ONLY w \in Nat, b \in Nat, q \in Nat, <2>2
  <2>6. w * q <= x \div b
    BY <2>4, <2>5, DivAtLeast
  <2>7. PICK d \in Nat : d = x \div b
    BY DivIs
  <2>8. Extra(code) = d + 1
    BY <1>1, <1>3, <2>1, <2>7, ExtraIs
  <2>9. WordsWritten(code) = w * q + w
    BY <1>1, <1>3, <2>1, <2>2, <2>3 DEF WordsWritten
  <2>10. w <= l + 2
    BY <1>1, RoomAssumption
  <2>11. QED
    BY <1>1, <2>5, <2>6, <2>7, <2>8, <2>9, <2>10
<1>4. QED
  BY <1>2, <1>3

\* LZ4_wildCopy8 writes less than CopySize more than it was asked for, or CopySize.
LEMMA WildFits ==
  ASSUME NEW n \in Nat
  PROVE  /\ WildCopied(n) \in Nat
         /\ n = 0 => WildCopied(n) = CopySize
         /\ n # 0 => WildCopied(n) <= n + CopySize - 1
<1>1. PICK c \in Nat \ {0} : c = CopySize
  BY Sizes
<1>2. n + c - 1 \in Nat
  OBVIOUS
<1>3. PICK q \in Nat : q = (n + c - 1) \div c
  BY <1>2, DivIs
<1>4. c * q <= n + c - 1 /\ c * q \in Nat /\ c * q = q * c
  <2>1. c * q <= n + c - 1
    BY <1>2, <1>3, DivIs
  <2>2. QED
    BY <2>1
<1>5. WildCopied(n) = IF n = 0 THEN c ELSE q * c
  BY <1>1, <1>3 DEF WildCopied
<1>6. QED
  BY <1>1, <1>4, <1>5

-----------------------------------------------------------------------------
(* Calls and what they read. *)

\* The types of a call.
LEMMA EndIs ==
  ASSUME NEW c \in CallRecords
  PROVE  /\ c.start \in Nat /\ c.low \in Nat /\ c.cap \in Nat /\ c.bytes \in Seq(Byte)
         /\ Len(c.bytes) \in Nat /\ End(c) \in Nat /\ End(c) = c.low + Len(c.bytes)
  BY DEF CallRecords, End

\* The bytes from an index on.
LEMMA BytesAre ==
  ASSUME NEW c \in CallRecords, NEW i \in Int, NEW n \in Nat, c.low <= i, i + n <= End(c)
  PROVE  /\ Bytes(c, i, n) \in Seq(Byte)
         /\ Len(Bytes(c, i, n)) = n
         /\ \A k \in 1 .. n : Bytes(c, i, n)[k] = ByteAt(c, i + k - 1)
<1>1. PICK s \in Seq(Byte), low \in Nat, l \in Nat : s = c.bytes /\ low = c.low /\ l = Len(s)
  BY EndIs
<1>2. PICK a \in Nat : a = i - low
  BY <1>1
<1>3. a + n <= l
  <2>1. End(c) = low + l
    BY <1>1, EndIs
  <2>2. QED
    BY <1>1, <1>2, <2>1
<1>4. Bytes(c, i, n) = SubSeq(s, a + 1, a + n)
  BY <1>1, <1>2 DEF Bytes
<1>5. \A k \in (a + 1) .. (a + n) : k \in 1 .. Len(s)
  BY <1>1, <1>3
<1>6. /\ SubSeq(s, a + 1, a + n) \in Seq(Byte)
      /\ Len(SubSeq(s, a + 1, a + n)) = n
      /\ \A k \in 1 .. n : SubSeq(s, a + 1, a + n)[k] = s[(a + 1) + k - 1]
  <2>1. a + 1 \in 1 .. Len(s) + 1 /\ a + n \in a .. Len(s)
    BY <1>1, <1>3
  <2>2. QED
    BY <2>1, <1>5, SubSeqProperties
<1>7. ASSUME NEW k \in 1 .. n PROVE s[(a + 1) + k - 1] = ByteAt(c, i + k - 1)
  <2>1. (a + 1) + k - 1 = (i + k - 1) - c.low + 1
    BY <1>1, <1>2
  <2>2. QED
    BY <1>1, <2>1 DEF ByteAt
<1>8. QED
  BY <1>4, <1>6, <1>7

\* A hash is a cell of the table.
LEMMA HashIs ==
  ASSUME NEW c \in CallRecords, NEW i \in Int, c.low <= i, i + MINMATCH + 1 <= End(c)
  PROVE  HashAt(c, i) \in Cells
<1>1. PICK m \in Nat \ {0}, z \in Nat \ {0} : m = MINMATCH /\ z = HashSize
  BY Sizes
<1>2. PICK b : b = Bytes(c, i, m + 1)
  OBVIOUS
<1>3. b \in Seq(Byte) /\ Len(b) = m + 1
  <2>1. i + (m + 1) <= End(c) /\ m + 1 \in Nat
    BY <1>1, EndIs
  <2>2. QED
    BY <1>2, <2>1, BytesAre
<1>4. b \in [1 .. m + 1 -> Byte]
  BY <1>3
<1>5. SubSeq(b, 1, m) \in [1 .. m -> Byte]
  <2>1. SubSeq(b, 1, m) = [k \in 1 .. m |-> b[k]]
    BY <1>3
  <2>2. \A k \in 1 .. m : b[k] \in Byte
    BY <1>4
  <2>3. QED
    BY <2>1, <2>2
<1>6. ShortHash[SubSeq(b, 1, m)] \in 0 .. 2 * z - 1 /\ LongHash[b] \in 0 .. z - 1
  BY <1>1, <1>4, <1>5, HashAssumption
<1>7. HashAt(c, i) = IF c.type = ByU16 THEN ShortHash[SubSeq(b, 1, m)] ELSE LongHash[b]
  BY <1>1, <1>2 DEF HashAt, HashOf
<1>8. 0 .. z - 1 \subseteq 0 .. 2 * z - 1
  OBVIOUS
<1>9. QED
  BY <1>1, <1>6, <1>7, <1>8 DEF Cells

\* A table with another index in one of its cells.
LEMMA PutIs ==
  ASSUME NEW type, NEW table \in Tables, NEW h, NEW idx \in Nat
  PROVE  /\ PutIndex(type, table, h, idx) \in Tables
         /\ \A g \in Cells :
               LET v == PutIndex(type, table, h, idx)[g] IN
               v = table[g] \/ (v <= idx /\ (v = idx \/ type = ByU16))
<1>1. PICK w : w = IF type = ByU16 THEN idx % (U16Max + 1) ELSE idx
  OBVIOUS
<1>2. w \in Nat /\ w <= idx /\ (w = idx \/ type = ByU16)
  <2>1. PICK b \in Nat \ {0} : b = U16Max + 1
    BY Sizes
  <2>2. idx % b \in Nat /\ idx % b <= idx
    <3>1. idx = b * (idx \div b) + (idx % b) /\ idx % b \in 0 .. b - 1 /\ idx \div b \in Nat
      BY DivIs
    <3>2. PICK q \in Nat, r \in Nat : q = idx \div b /\ r = idx % b
      BY <3>1
    <3>3. b * q \in Nat
      BY ONLY b \in Nat, q \in Nat
    <3>4. idx = b * q + r
      BY <3>1, <3>2
    <3>5. QED
      BY <3>2, <3>3, <3>4
  <2>3. QED
    BY <1>1, <2>1, <2>2
<1>3. PutIndex(type, table, h, idx) = [table EXCEPT ![h] = w]
  BY <1>1 DEF PutIndex
<1>4. QED
  BY <1>2, <1>3 DEF Tables

\* What the table or that of the dictionary context offers is an index.
LEMMA CandidateIs ==
  ASSUME NEW c \in CallRecords, NEW table \in Tables, NEW h \in Cells
  PROVE  Candidate(c, table, h) \in Nat
<1>1. c.dictTable \in Tables \cup {<<>>} /\ c.dictDelta \in Nat
  BY DEF CallRecords
<1>2. table[h] \in Nat
  BY DEF Tables
<1>3. c.dictTable # <<>> => c.dictTable[h] \in Nat
  BY <1>1 DEF Tables
<1>4. QED
  BY <1>1, <1>2, <1>3 DEF Candidate

\* A match is extended backwards over bytes that are the same.
LEMMA CatchUpIs ==
  ASSUME NEW c, NEW anchor \in Int, NEW ip \in Int, NEW match, anchor <= ip
  PROVE  LET low == IF c.extern /\ match >= c.start THEN c.start ELSE c.low
             n   == CatchUp(c, anchor, ip, match)
         IN  /\ n \in 0 .. ip - anchor
             /\ \A k \in 1 .. n : match - k >= low /\ Same(c, match - k, ip - k)
<1> DEFINE low == IF c.extern /\ match >= c.start THEN c.start ELSE c.low
           S == {n \in 0 .. ip - anchor : \A k \in 1 .. n : match - k >= low /\ Same(c, match - k, ip - k)}
<1>1. 0 \in S
  OBVIOUS
<1>2. S \in SUBSET Nat /\ \A x \in S : x <= ip - anchor
  OBVIOUS
<1>3. ip - anchor \in Int
  OBVIOUS
<1>4. Max(S) \in S
  <2> HIDE DEF S
  <2>1. QED
    BY <1>1, <1>2, <1>3, MaxOf
<1>5. CatchUp(c, anchor, ip, match) = Max(S)
  BY DEF CatchUp
<1>6. QED
  BY <1>4, <1>5

\* And forwards, as far as they are.
LEMMA CountIs ==
  ASSUME NEW c \in CallRecords, NEW ip \in Int, NEW match, ip + MINMATCH <= MatchLimit(c)
  PROVE  LET n == Count(c, ip, match) IN
         /\ n \in 0 .. MatchLimit(c) - ip - MINMATCH
         /\ \A k \in 0 .. n - 1 : Same(c, match + MINMATCH + k, ip + MINMATCH + k)
         /\ \A x \in 0 .. MatchLimit(c) - ip - MINMATCH :
               (\A k \in 0 .. x - 1 : Same(c, match + MINMATCH + k, ip + MINMATCH + k)) => x <= n
<1>0. PICK e \in Nat, m \in Nat, t \in Nat : e = End(c) /\ m = MINMATCH /\ t = LASTLITERALS
  BY Sizes, EndIs
<1>1. PICK l \in Int : l = MatchLimit(c) - ip - MINMATCH
  BY <1>0 DEF MatchLimit
<1>2. l >= 0
  BY <1>0, <1>1 DEF MatchLimit
<1> DEFINE S == {n \in 0 .. l : \A k \in 0 .. n - 1 : Same(c, match + MINMATCH + k, ip + MINMATCH + k)}
<1>3. 0 \in S
  BY <1>2
<1>4. S \in SUBSET Nat /\ \A x \in S : x <= l
  OBVIOUS
<1>5. Max(S) \in S /\ \A x \in S : x <= Max(S)
  <2> HIDE DEF S
  <2>1. QED
    BY <1>3, <1>4, MaxOf
<1>6. Count(c, ip, match) = Max(S)
  BY <1>1 DEF Count
<1>7. QED
  BY <1>1, <1>5, <1>6

\* A token, the rest of a length, and the literals.
LEMMA LiteralsAre ==
  ASSUME NEW lits \in Seq(Byte), NEW code \in Nat
  PROVE  /\ Literals(lits, code) \in Seq(Int)
         /\ Len(Literals(lits, code)) = 1 + Extra(Len(lits)) + Len(lits)
<1>1. PICK n \in Nat : n = Len(lits)
  OBVIOUS
<1>2. PICK t \in Int : t = Token(Nibble(n), code)
  <2>1. PICK k \in Nat, j \in Nat : k = NibbleMask /\ j = Nibble(n)
    BY Sizes DEF Nibble, MIN
  <2>2. j * (k + 1) + code \in Int
    BY ONLY j \in Nat, k \in Nat, code \in Nat
  <2>3. Token(Nibble(n), code) = j * (k + 1) + code
    BY <2>1 DEF Token
  <2>4. QED
    BY <2>2, <2>3
<1>3. Further(n) \in Seq(Int) /\ Len(Further(n)) = Extra(n) /\ Extra(n) \in Nat
  <2>1. Further(n) \in Seq(Nat) /\ Len(Further(n)) = Extra(n)
    BY FurtherIs
  <2>2. QED
    BY <2>1, ExtraIs
<1>4. lits \in Seq(Int)
  <2>1. Byte \subseteq Int
    BY HashAssumption
  <2>2. QED
    BY <2>1, SeqMonotonic
<1>5. <<t>> \in Seq(Int) /\ Len(<<t>>) = 1
  OBVIOUS
<1>6. PICK f \in Seq(Int) : f = Further(n) /\ Len(f) = Extra(n)
  BY <1>3
<1>7. PICK a : a = <<t>> \o f
  OBVIOUS
<1>8. a \in Seq(Int) /\ Len(a) = 1 + Extra(n)
  BY <1>5, <1>6, <1>7, ConcatProperties
<1>9. a \o lits \in Seq(Int) /\ Len(a \o lits) = (1 + Extra(n)) + n
  BY <1>1, <1>4, <1>8, ConcatProperties
<1>10. Literals(lits, code) = a \o lits
  BY <1>1, <1>2, <1>6, <1>7 DEF Literals
<1>11. QED
  BY <1>1, <1>9, <1>10

\* An offset takes OffsetSize bytes.
LEMMA OffsetIs ==
  ASSUME NEW n \in Int
  PROVE  Offset(n) \in Seq(Int) /\ Len(Offset(n)) = OffsetSize
<1>1. PICK m \in Nat : m = OffsetSize
  BY Sizes
<1>2. Offset(n) = [i \in 1 .. m |-> IF i = 1 THEN n ELSE 0]
  BY <1>1 DEF Offset
<1>3. \A i \in 1 .. m : (IF i = 1 THEN n ELSE 0) \in Int
  OBVIOUS
<1>4. Offset(n) \in [1 .. m -> Int]
  BY <1>2, <1>3
<1>5. QED
  BY <1>1, <1>4

-----------------------------------------------------------------------------
(* Whether there is room. *)

\* The literals at the end of a block fit where there is the bound.
LEMMA LastFits ==
  ASSUME NEW l \in Nat, NEW a \in Nat, NEW all \in Nat, NEW cap \in Nat,
         l <= a + a \div ByteMax, cap >= LzCompressBound(a + all)
  PROVE  l + all + 1 + Extra(all) <= cap
<1>1. PICK b \in Nat \ {0}, g \in Nat : b = ByteMax /\ g = LzBoundMargin
  BY Sizes
<1>2. PICK p \in Nat : p = a \div b
  BY DivIs
<1>3. PICK q \in Nat : q = all \div b
  BY DivIs
<1>4. PICK r \in Nat : r = (a + all) \div b
  <2>1. PICK x \in Nat : x = a + all
    OBVIOUS
  <2>2. x \div b \in Nat
    BY DivIs
  <2>3. QED
    BY <2>1, <2>2
<1>5. p + q <= r
  BY <1>2, <1>3, <1>4, DivAdds
<1>6. PICK e \in Nat : e = Extra(all)
  BY ExtraIs
<1>7. e <= q + 1
  BY <1>1, <1>3, <1>6, ExtraIs
<1>8. g >= 2
  BY <1>1, RoomAssumption
<1>9. cap >= a + all + r + g
  BY <1>1, <1>4 DEF LzCompressBound
<1>10. l <= a + p
  BY <1>1, <1>2
<1>11. l + all + 1 + e <= cap
  BY ONLY <1>5, <1>7, <1>8, <1>9, <1>10, l \in Nat, a \in Nat, all \in Nat, cap \in Nat, g \in Nat,
          p \in Nat, q \in Nat, r \in Nat, e \in Nat
<1>12. QED
  BY <1>6, <1>11

\* A greater length does not take fewer bytes.
LEMMA ExtraGrows ==
  ASSUME NEW m \in Nat, NEW n \in Nat, m <= n
  PROVE  Extra(m) <= Extra(n)
<1>1. PICK b \in Nat \ {0}, k \in Nat : b = ByteMax /\ k = NibbleMask /\ k <= b
  BY Sizes
<1>2. PICK x \in Nat, y \in Nat : x = m + b - k /\ y = n + b - k
  <2>1. m + b - k \in Nat /\ n + b - k \in Nat
    BY <1>1
  <2>2. QED
    BY <2>1
<1>3. x <= y
  BY <1>1, <1>2
<1>4. x \div b <= y \div b
  BY <1>3, DivGrows
<1>5. QED
  BY <1>1, <1>2, <1>4 DEF Extra

\* As many literals as the room takes, with the bytes of their length.
LEMMA FillFits ==
  ASSUME NEW l \in Nat, NEW all \in Nat, NEW cap \in Nat, l + 1 <= cap, l + all + 1 + Extra(all) > cap,
         NEW room0, room0 = cap - l - 1,
         NEW run, run = room0 - (room0 + ByteMax + 1 - NibbleMask) \div (ByteMax + 1)
  PROVE  run \in Nat /\ run <= all /\ l + 1 + Extra(run) + run <= cap
<1>1. PICK b \in Nat \ {0}, k \in Nat \ {0} : b = ByteMax /\ k = NibbleMask /\ k <= b
  BY Sizes
<1>2. PICK r \in Nat : r = room0
  <2>1. cap - l - 1 \in Nat
    OBVIOUS
  <2>2. QED
    BY <2>1
<1>3. PICK x \in Nat : x = r + b + 1 - k
  <2>1. r + b + 1 - k \in Nat
    BY <1>1
  <2>2. QED
    BY <2>1
<1>4. PICK c \in Nat \ {0} : c = b + 1
  OBVIOUS
<1>5. PICK q \in Nat : q = x \div c
  BY DivIs
<1>6. PICK y \in Nat : y = b * q
  <2>1. b * q \in Nat
    BY ONLY b \in Nat, q \in Nat
  <2>2. QED
    BY <2>1
<1>7. c * q = y + q
  BY ONLY <1>4, <1>6, b \in Nat, q \in Nat
<1>8. y + q <= x /\ x < y + q + c
  <2>1. x = c * q + (x % c) /\ x % c \in 0 .. c - 1
    BY <1>5, DivIs
  <2>2. PICK m \in Nat : m = x % c /\ m <= c - 1
    BY <2>1
  <2>3. x = y + q + m
    BY <2>1, <2>2, <1>7
  <2>4. QED
    BY ONLY <2>2, <2>3, x \in Nat, y \in Nat, q \in Nat, c \in Nat, m \in Nat
<1>9. y >= q
  BY ONLY <1>6, b \in Nat \ {0}, q \in Nat
<1>10. q <= r
  <2>1. SUFFICES ASSUME q >= r + 1 PROVE FALSE
    OBVIOUS
  <2>2. PICK d \in Nat : q = r + 1 + d
    <3>1. q = r + 1 + (q - r - 1) /\ q - r - 1 \in Nat
      BY <2>1
    <3>2. QED
      BY <3>1
  <2>3. PICK rd \in Nat : rd = b * (r + d)
    <3>1. b * (r + d) \in Nat
      BY ONLY b \in Nat, r \in Nat, d \in Nat
    <3>2. QED
      BY <3>1
  <2>4. y = rd + b /\ rd >= r + d
    <3>1. y = b * (r + 1 + d)
      BY <1>6, <2>2
    <3>2. QED
      BY ONLY <3>1, <2>3, b \in Nat \ {0}, r \in Nat, d \in Nat
  <2>5. QED
    BY ONLY <2>2, <2>4, <1>8, <1>3, <1>1, b \in Nat, k \in Nat \ {0}, r \in Nat, x \in Nat, y \in Nat,
            q \in Nat, d \in Nat, rd \in Nat
<1>11. PICK n \in Nat : n = r - q
  <2>1. r - q \in Nat
    BY <1>10
  <2>2. QED
    BY <2>1
<1>12. run = n
  BY <1>1, <1>2, <1>3, <1>4, <1>5, <1>11
<1>13. PICK e \in Nat : e = Extra(n)
  BY ExtraIs
<1>14. e <= q
  <2>1. CASE n < k
    BY <2>1, <1>1, <1>13, ExtraIs
  <2>2. CASE n >= k
    <3>1. PICK z \in Nat : z = n - k
      BY <2>2
    <3>2. PICK p \in Nat : p = z \div b
      BY DivIs
    <3>3. e = p + 1
      BY <1>1, <1>13, <2>2, <3>1, <3>2, ExtraIs
    <3>4. z < y
      BY ONLY <1>3, <1>4, <1>8, <1>11, <3>1, x \in Nat, y \in Nat, q \in Nat, c \in Nat, r \in Nat,
              k \in Nat, b \in Nat, n \in Nat, z \in Nat
    <3>5. PICK bp \in Nat : bp = b * p /\ bp <= z
      <4>1. z = b * p + (z % b) /\ z % b \in 0 .. b - 1
        BY <3>2, DivIs
      <4>2. b * p \in Nat
        BY ONLY b \in Nat, p \in Nat
      <4>3. QED
        BY <4>1, <4>2
    <3>6. ~(p >= q)
      <4>1. SUFFICES ASSUME p >= q PROVE FALSE
        OBVIOUS
      <4>2. PICK d \in Nat : p = q + d
        <5>1. p = q + (p - q) /\ p - q \in Nat
          BY <4>1
        <5>2. QED
          BY <5>1
      <4>3. bp >= y
        BY ONLY <4>2, <3>5, <1>6, b \in Nat, q \in Nat, d \in Nat, bp \in Nat, y \in Nat
      <4>4. QED
        BY <4>3, <3>4, <3>5
    <3>7. QED
      BY <3>3, <3>6
  <2>3. QED
    BY <2>1, <2>2
<1>15. l + 1 + e + n <= cap
  BY <1>2, <1>11, <1>14
<1>16. n <= all
  <2>1. SUFFICES ASSUME n > all PROVE FALSE
    OBVIOUS
  <2>2. PICK f \in Nat : f = Extra(all)
    BY ExtraIs
  <2>3. f <= e
    BY <2>1, <2>2, <1>13, ExtraGrows
  <2>4. l + all + 1 + f > cap
    BY <2>2
  <2>5. QED
    BY ONLY <2>1, <2>3, <2>4, <1>15, l \in Nat, all \in Nat, f \in Nat, e \in Nat, n \in Nat, cap \in Nat
<1>17. QED
  BY <1>12, <1>13, <1>15, <1>16

-----------------------------------------------------------------------------
\* LZ4_COMPRESSBOUND is a number.
LEMMA BoundIs ==
  ASSUME NEW n \in Nat
  PROVE  LzCompressBound(n) \in Nat /\ LzCompressBound(n) = n + n \div ByteMax + LzBoundMargin
<1>1. ByteMax \in Nat \ {0} /\ LzBoundMargin \in Nat
  BY Sizes
<1>2. n \div ByteMax \in Nat
  BY <1>1, DivIs
<1>3. QED
  BY <1>1, <1>2 DEF LzCompressBound

\* The output of an empty block.
LEMMA NoBytes ==
  <<>> \in Seq(Int) /\ <<>> \in Seq(Byte) /\ Len(<<>>) = 0 /\ <<0>> \in Seq(Int) /\ Len(<<0>>) = 1
  OBVIOUS

\* A call that gives up had less room than the bound.
LEMMA NoRoomSound ==
  ASSUME NEW s \in WorkRecords, CallSound(s.c), RoomSound(s), s.ok = FALSE,
         s.c.cap < LzCompressBound(Len(s.page))
  PROVE  /\ NoRoom(s) \in WorkRecords /\ SameCall(s, NoRoom(s))
         /\ RoomSound(NoRoom(s)) /\ DoneSound(NoRoom(s))
<1>1. PICK r : r = NoRoom(s)
  OBVIOUS
<1>2. /\ r.at = "done" /\ r.out = <<>> /\ SameCall(s, r) /\ r.top = s.top /\ r.ok = s.ok
  BY <1>1 DEF NoRoom, SameCall, WorkRecords
<1>3. r \in WorkRecords
  <2>1. PICK e \in Seq(Int) : e = <<>>
    BY NoBytes
  <2>2. r = [s EXCEPT !.at = "done", !.out = e]
    BY <1>1, <2>1 DEF NoRoom
  <2>3. QED
    BY ONLY <2>2, s \in WorkRecords, e \in Seq(Int) DEF WorkRecords
<1>4. s.c.cap \in Nat /\ Len(s.page) \in Nat
  BY DEF CallSound, CallRecords, WorkRecords
<1>5. LzCompressBound(Len(s.page)) \in Nat
  BY <1>4, BoundIs
<1>6. RoomSound(r)
  BY <1>2 DEF SameCall, RoomSound
<1>7. DoneSound(r)
  BY <1>2, <1>4, <1>5 DEF SameCall, DoneSound
<1>8. QED
  BY <1>1, <1>2, <1>3, <1>6, <1>7

\* The end of a block fits.
LEMMA LastLiteralsSound ==
  ASSUME NEW s \in WorkRecords, CallSound(s.c), RoomSound(s), Paid(s), s.ok = FALSE
  PROVE  /\ LastLiterals(s) \in WorkRecords /\ SameCall(s, LastLiterals(s))
         /\ RoomSound(LastLiterals(s)) /\ DoneSound(LastLiterals(s))
<1>1. PICK c \in CallRecords : c = s.c
  BY DEF WorkRecords
<1>2. PICK start \in Nat, end \in Nat, anchor \in Nat, cap \in Nat, low \in Nat :
        /\ start = c.start /\ end = End(c) /\ anchor = s.anchor /\ cap = c.cap /\ low = c.low
        /\ low <= start /\ start <= anchor /\ anchor <= end
  BY <1>1, EndIs DEF CallSound, Paid, WorkRecords
<1>3. PICK a \in Nat, all \in Nat : a = anchor - start /\ all = end - anchor
  <2>1. anchor - start \in Nat /\ end - anchor \in Nat
    BY <1>2
  <2>2. QED
    BY <2>1
<1>4. PICK out \in Seq(Int), l \in Nat : out = s.out /\ l = Len(out)
  BY DEF WorkRecords
<1>5. PICK size \in Nat : size = Len(s.page) /\ size = a + all
  <2>1. Len(s.page) = end - start
    BY <1>1, <1>2 DEF RoomSound
  <2>2. a + all = end - start /\ a + all \in Nat
    BY <1>3
  <2>3. QED
    BY <2>1, <2>2
<1>6. l <= a + a \div ByteMax /\ (c.limit = "fill" => l + 1 <= cap)
  BY <1>1, <1>2, <1>3, <1>4 DEF Paid
<1>7. PICK e \in Nat : e = Extra(all)
  BY ExtraIs
<1>8. PICK bound \in Nat : bound = LzCompressBound(size)
  BY BoundIs
<1>9. cap >= bound => l + all + 1 + e <= cap
  BY <1>5, <1>6, <1>7, <1>8, LastFits
<1>10. c.limit \in {"none", "limited", "fill"} /\ (c.limit = "none" => cap >= bound)
       /\ (c.limit = "fill" => cap < bound) /\ s.top \in Nat /\ s.top <= cap
  BY <1>1, <1>2, <1>5, <1>8 DEF RoomSound, CallRecords, WorkRecords
<1>11. PICK tight \in BOOLEAN : tight <=> l + all + 1 + e > cap
  OBVIOUS
<1>12. PICK run : run = IF c.limit = "fill" /\ tight
                        THEN (cap - l - 1) - ((cap - l - 1) + ByteMax + 1 - NibbleMask) \div (ByteMax + 1)
                        ELSE all
  OBVIOUS
<1>13. run \in Nat /\ run <= all
  <2>1. CASE c.limit = "fill" /\ tight
    <3>1. l + 1 <= cap /\ l + all + 1 + Extra(all) > cap
      BY <2>1, <1>6, <1>7, <1>11
    <3>2. PICK room0 : room0 = cap - l - 1
      OBVIOUS
    <3>3. run = room0 - (room0 + ByteMax + 1 - NibbleMask) \div (ByteMax + 1)
      BY <2>1, <1>12, <3>2
    <3>4. QED
      BY <3>1, <3>2, <3>3, FillFits
  <2>2. CASE ~(c.limit = "fill" /\ tight)
    BY <2>2, <1>12
  <2>3. QED
    BY <2>1, <2>2
<1>14. ~(c.limit = "limited" /\ tight) => l + 1 + Extra(run) + run <= cap
  <2>1. CASE c.limit = "fill" /\ tight
    <3>1. l + 1 <= cap /\ l + all + 1 + Extra(all) > cap
      BY <2>1, <1>6, <1>7, <1>11
    <3>2. PICK room0 : room0 = cap - l - 1
      OBVIOUS
    <3>3. run = room0 - (room0 + ByteMax + 1 - NibbleMask) \div (ByteMax + 1)
      BY <2>1, <1>12, <3>2
    <3>4. QED
      BY <3>1, <3>2, <3>3, FillFits
  <2>2. CASE ~(c.limit = "fill" /\ tight)
    <3>1. run = all
      BY <2>2, <1>12
    <3>2. ~tight => l + 1 + e + all <= cap
      BY <1>11
    <3>3. c.limit = "none" => ~tight
      BY <1>9, <1>10, <1>11
    <3>4. QED
      BY <2>2, <3>1, <3>2, <3>3, <1>7, <1>10
  <2>3. QED
    BY <2>1, <2>2
<1>15. PICK lits \in Seq(Byte) : lits = Bytes(c, anchor, run) /\ Len(lits) = run
  <2>1. c.low <= anchor /\ anchor + run <= End(c)
    <3>1. low <= anchor
      BY <1>2
    <3>2. anchor + run <= end
      BY <1>2, <1>3, <1>13
    <3>3. QED
      BY <1>2, <3>1, <3>2
  <2>2. QED
    BY <2>1, <1>13, BytesAre
<1>16. PICK full : full = out \o Literals(lits, 0)
  OBVIOUS
<1>17. full \in Seq(Int) /\ Len(full) = l + (1 + Extra(run) + run)
  <2>1. PICK w \in Seq(Int) : w = Literals(lits, 0) /\ Len(w) = 1 + Extra(run) + run
    BY <1>15, LiteralsAre
  <2>2. QED
    BY <2>1, <1>4, <1>16, ConcatProperties
<1>18. PICK x \in Nat : x = Extra(run)
  BY <1>13, ExtraIs
<1>19. PICK top \in Nat : top = MAX(s.top, Len(full)) /\ (~(c.limit = "limited" /\ tight) => top <= cap)
  <2>1. Len(full) \in Nat
    BY <1>17
  <2>2. ~(c.limit = "limited" /\ tight) => Len(full) <= cap
    BY <1>14, <1>17, <1>18, <1>13
  <2>3. QED
    BY <1>10, <2>1, <2>2 DEF MAX
<1>20. LastLiterals(s) = IF c.limit = "limited" /\ tight THEN NoRoom(s)
                         ELSE [s EXCEPT !.at = "done", !.ok = TRUE, !.out = full, !.top = top,
                                        !.consumed = anchor + run - start]
  <2>1. tight <=> (Len(s.out) + (End(c) - s.anchor) + 1
                   + ((End(c) - s.anchor) + ByteMax - NibbleMask) \div ByteMax > c.cap)
    BY <1>2, <1>3, <1>4, <1>7, <1>11 DEF Extra
  <2>2. full = s.out \o Literals(Bytes(c, s.anchor, run), 0)
    BY <1>2, <1>4, <1>15, <1>16
  <2>3. run = IF c.limit = "fill" /\ tight
              THEN (c.cap - Len(s.out) - 1)
                     - ((c.cap - Len(s.out) - 1) + ByteMax + 1 - NibbleMask) \div (ByteMax + 1)
              ELSE End(c) - s.anchor
    BY <1>2, <1>3, <1>4, <1>12
  <2>4. QED
    BY ONLY <2>1, <2>2, <2>3, <1>1, <1>2, <1>19 DEF LastLiterals
<1>21. CASE c.limit = "limited" /\ tight
  <2>1. cap < bound
    BY <1>21, <1>9, <1>11
  <2>2. LastLiterals(s) = NoRoom(s)
    BY <1>20, <1>21
  <2>3. QED
    BY <1>1, <1>2, <1>5, <1>8, <2>1, <2>2, NoRoomSound
<1>22. CASE ~(c.limit = "limited" /\ tight)
  <2>1. PICK consumed \in Int : consumed = anchor + run - start
    BY <1>13
  <2>2. PICK r : r = [s EXCEPT !.at = "done", !.ok = TRUE, !.out = full, !.top = top,
                               !.consumed = consumed]
    OBVIOUS
  <2>3. LastLiterals(s) = r
    BY <1>20, <1>22, <2>1, <2>2
  <2>4. r \in WorkRecords
    BY <2>2, <1>17, <1>19, <2>1 DEF WorkRecords
  <2>5. r.at = "done" /\ r.ok = TRUE /\ r.out = full /\ r.top = top /\ r.consumed = consumed /\ SameCall(s, r)
    BY <2>2 DEF WorkRecords, SameCall
  <2>6. RoomSound(r)
    BY <2>5, <1>1, <1>2, <1>19, <1>22 DEF RoomSound, SameCall
  <2>7. Len(full) <= cap
    BY <1>14, <1>17, <1>18, <1>13, <1>22
  <2>8. c.limit # "fill" => consumed = size
    <3>1. ASSUME c.limit # "fill" PROVE run = all
      BY <1>12, <3>1
    <3>2. run = all => consumed = a + all
      BY <2>1, <1>3
    <3>3. QED
      BY <3>1, <3>2, <1>5
  <2>9. DoneSound(r)
    BY <2>5, <2>7, <2>8, <1>1, <1>2, <1>5 DEF DoneSound, SameCall
  <2>10. QED
    BY <2>3, <2>4, <2>5, <2>6, <2>9
<1>23. QED
  BY <1>21, <1>22

\* Whatever has been paid for, the bound has room for the rest of the block, and two bytes.
LEMMA BoundPays ==
  ASSUME NEW l \in Nat, NEW a \in Nat, NEW rest \in Nat, NEW cap \in Nat,
         l <= a + a \div ByteMax, cap >= LzCompressBound(a + rest)
  PROVE  l + rest + 2 <= cap
<1>1. PICK b \in Nat \ {0}, g \in Nat : b = ByteMax /\ g = LzBoundMargin /\ g >= 2
  BY Sizes, RoomAssumption
<1>2. PICK p \in Nat : p = a \div b
  BY DivIs
<1>3. PICK x \in Nat : x = a + rest
  OBVIOUS
<1>4. PICK r \in Nat : r = x \div b
  BY DivIs
<1>5. p <= r
  BY <1>2, <1>3, <1>4, DivGrows
<1>6. cap >= x + r + g
  BY <1>1, <1>3, <1>4, BoundIs
<1>7. l <= a + p
  BY <1>1, <1>2
<1>8. QED
  BY ONLY <1>1, <1>3, <1>5, <1>6, <1>7, l \in Nat, a \in Nat, rest \in Nat, cap \in Nat, p \in Nat,
          x \in Nat, r \in Nat

\* Literals that there is room for may be copied by LZ4_wildCopy8.
LEMMA CopyFits ==
  ASSUME NEW l \in Nat, NEW n \in Nat, NEW cap \in Nat,
         \/ l + 1 + n + (OffsetSize + 1 + LASTLITERALS) + n \div ByteMax <= cap
         \/ l + 1 + Extra(n) + n + OffsetSize + 1 + MFLIMIT - MINMATCH <= cap
  PROVE  l + 1 + Extra(n) + WildCopied(n) <= cap
<1>1. PICK b \in Nat \ {0}, o \in Nat, t \in Nat, f \in Nat, m \in Nat, k \in Nat \ {0}, w \in Nat :
        /\ b = ByteMax /\ o = OffsetSize /\ t = LASTLITERALS /\ f = MFLIMIT /\ m = MINMATCH
        /\ k = NibbleMask /\ w = CopySize /\ w <= o + 1 + t /\ f >= m + t
  BY Sizes, RoomAssumption
<1>2. PICK d \in Nat : d = n \div b
  BY DivIs
<1>3. PICK e \in Nat : e = Extra(n) /\ e <= d + 1 /\ (n = 0 => e = 0)
  BY <1>1, <1>2, ExtraIs
<1>4. PICK v \in Nat : v = WildCopied(n) /\ (n = 0 => v = w) /\ (n # 0 => v <= n + w - 1)
  BY <1>1, WildFits
<1>5. \/ l + 1 + n + (o + 1 + t) + d <= cap
      \/ l + 1 + e + n + o + 1 + f - m <= cap
  BY <1>1, <1>2, <1>3
<1>6. l + 1 + e + v <= cap
  BY ONLY <1>1, <1>3, <1>4, <1>5, l \in Nat, n \in Nat, cap \in Nat, d \in Nat, e \in Nat, v \in Nat
<1>7. QED
  BY <1>3, <1>4, <1>6

\* With the bound there is always room for them.
LEMMA BoundTakesLiterals ==
  ASSUME NEW l \in Nat, NEW a \in Nat, NEW n \in Nat, NEW rest \in Nat, NEW cap \in Nat,
         l <= a + a \div ByteMax, MFLIMIT <= rest, cap >= LzCompressBound(a + n + rest)
  PROVE  l + 1 + n + (OffsetSize + 1 + LASTLITERALS) + n \div ByteMax <= cap
<1>1. PICK b \in Nat \ {0}, o \in Nat, t \in Nat, f \in Nat, m \in Nat :
        b = ByteMax /\ o = OffsetSize /\ t = LASTLITERALS /\ f = MFLIMIT /\ m = MINMATCH
  BY Sizes
<1>11. f >= m + t /\ m >= o + 1
  BY <1>1, Sizes, RoomAssumption
<1>2. PICK p \in Nat, q \in Nat : p = a \div b /\ q = n \div b
  BY DivIs
<1>3. PICK x \in Nat : x = a + n
  OBVIOUS
<1>4. PICK r \in Nat : r = x \div b
  BY DivIs
<1>5. p + q <= r
  BY <1>2, <1>3, <1>4, DivAdds
<1>6. PICK y \in Nat : y = l + n + q
  OBVIOUS
<1>7. y <= x + r
  BY <1>1, <1>2, <1>3, <1>5, <1>6
<1>8. y + rest + 2 <= cap
  BY <1>1, <1>3, <1>4, <1>7, BoundPays
<1>9. l + 1 + n + (o + 1 + t) + q <= cap
  BY ONLY <1>1, <1>11, <1>6, <1>8, MFLIMIT <= rest, l \in Nat, n \in Nat, rest \in Nat, cap \in Nat, q \in Nat,
          y \in Nat
<1>10. QED
  BY <1>1, <1>2, <1>9

\* After a match has been found there is room for the literals before it, and for more.
LEMMA FoundSound ==
  ASSUME NEW s \in WorkRecords, CallSound(s.c), RoomSound(s), Paid(s), s.ok = FALSE,
         s.anchor <= s.ip, s.ip < MfLimitPlusOne(s.c), NEW idx \in Int
  PROVE  Sound(Found(s, idx)) /\ SameCall(s, Found(s, idx)) /\ (Found(s, idx).at # "done" => Found(s, idx).ok = FALSE)
<1>1. PICK c \in CallRecords : c = s.c
  BY DEF WorkRecords
<1>2. PICK start \in Nat, end \in Nat, anchor \in Nat, cap \in Nat, low \in Nat, ip \in Nat :
        /\ start = c.start /\ end = End(c) /\ anchor = s.anchor /\ cap = c.cap /\ low = c.low /\ ip = s.ip
        /\ low <= start /\ start <= anchor /\ anchor <= end /\ anchor <= ip
  BY <1>1, EndIs DEF CallSound, Paid, WorkRecords
<1>3. PICK f \in Nat : f = MFLIMIT /\ ip + f <= end
  <2>1. PICK f \in Nat : f = MFLIMIT
    BY Sizes
  <2>2. ip < end - f + 1
    BY <1>1, <1>2, <2>1 DEF MfLimitPlusOne
  <2>3. QED
    BY <2>1, <2>2
<1>4. PICK back \in Nat : back = CatchUp(c, anchor, ip, idx) /\ back <= ip - anchor
  BY <1>2, CatchUpIs
<1>5. PICK n \in Nat, a \in Nat, rest \in Nat :
         n = ip - back - anchor /\ a = anchor - start /\ rest = end - (ip - back) /\ f <= rest
  <2>1. ip - back - anchor \in Nat /\ anchor - start \in Nat /\ end - (ip - back) \in Nat
        /\ f <= end - (ip - back)
    BY <1>2, <1>3, <1>4
  <2>2. QED
    BY <2>1
<1>6. PICK out \in Seq(Int), l \in Nat : out = s.out /\ l = Len(out)
  BY DEF WorkRecords
<1>7. PICK size \in Nat : size = Len(s.page) /\ size = a + n + rest
  <2>1. Len(s.page) = end - start
    BY <1>1, <1>2 DEF RoomSound
  <2>2. a + n + rest = end - start /\ a + n + rest \in Nat
    BY <1>5
  <2>3. QED
    BY <2>1, <2>2
<1>8. l <= a + a \div ByteMax /\ (c.limit = "fill" => l + 1 <= cap)
  BY <1>1, <1>2, <1>5, <1>6 DEF Paid
<1>9. PICK bound \in Nat : bound = LzCompressBound(size)
  BY BoundIs
<1>10. c.limit \in {"none", "limited", "fill"} /\ (c.limit = "none" => cap >= bound)
       /\ (c.limit = "fill" => cap < bound) /\ s.top \in Nat /\ s.top <= cap
  BY <1>1, <1>2, <1>7, <1>9 DEF RoomSound, CallRecords, WorkRecords
<1>11. cap >= bound => l + 1 + n + (OffsetSize + 1 + LASTLITERALS) + n \div ByteMax <= cap
  BY <1>3, <1>5, <1>7, <1>8, <1>9, BoundTakesLiterals
<1>20. l + 1 + n + (OffsetSize + 1 + LASTLITERALS) + n \div ByteMax \in Int
  <2>1. PICK d \in Nat, o \in Nat, t \in Nat : d = n \div ByteMax /\ o = OffsetSize /\ t = LASTLITERALS
    BY Sizes, DivIs
  <2>2. QED
    BY <2>1
<1>12. PICK full \in BOOLEAN :
          full <=> l + 1 + n + (OffsetSize + 1 + LASTLITERALS) + n \div ByteMax > cap
  OBVIOUS
<1>13. PICK over \in BOOLEAN :
          over <=> l + 1 + Extra(n) + n + OffsetSize + 1 + MFLIMIT - MINMATCH > cap
  OBVIOUS
<1>14. PICK copied \in Nat : copied = l + 1 + Extra(n) + WildCopied(n)
  <2>1. Extra(n) \in Nat /\ WildCopied(n) \in Nat
    BY ExtraIs, WildFits
  <2>2. QED
    BY <2>1
<1>15. Found(s, idx) =
         IF c.limit = "limited" /\ full THEN NoRoom(s)
         ELSE IF c.limit = "fill" /\ over THEN LastLiterals(s)
         ELSE [s EXCEPT !.at = "match", !.ip = ip - back, !.match = idx - back, !.top = MAX(s.top, copied)]
  <2>1. back = CatchUp(s.c, s.anchor, s.ip, idx) /\ n = s.ip - back - s.anchor
    BY <1>1, <1>2, <1>4, <1>5
  <2>2. Len(Further(n)) = Extra(n)
    BY FurtherIs
  <2>3. copied = Len(s.out) + 1 + Len(Further(n)) + WildCopied(n)
    BY <2>2, <1>6, <1>14
  <2>4. full <=> Len(s.out) + 1 + n + (OffsetSize + 1 + LASTLITERALS) + n \div ByteMax > s.c.cap
    BY <1>1, <1>2, <1>6, <1>12
  <2>5. over <=> Len(s.out) + 1 + (n + ByteMax - NibbleMask) \div ByteMax + n + OffsetSize + 1
                   + MFLIMIT - MINMATCH > s.c.cap
    BY <1>1, <1>2, <1>6, <1>13 DEF Extra
  <2>6. QED
    BY ONLY <2>1, <2>3, <2>4, <2>5, <1>1, <1>2 DEF Found
<1>16. CASE c.limit = "limited" /\ full
  <2>1. cap < bound
    BY <1>16, <1>11, <1>12, <1>20
  <2>2. Found(s, idx) = NoRoom(s)
    BY <1>15, <1>16
  <2>3. QED
    BY <1>1, <1>2, <1>7, <1>9, <2>1, <2>2, NoRoomSound DEF Sound, SameCall, DoneSound
<1>17. CASE ~(c.limit = "limited" /\ full) /\ c.limit = "fill" /\ over
  <2>1. Found(s, idx) = LastLiterals(s)
    BY <1>15, <1>17
  <2>2. QED
    BY <2>1, LastLiteralsSound DEF Sound, SameCall, DoneSound
<1>18. CASE ~(c.limit = "limited" /\ full) /\ ~(c.limit = "fill" /\ over)
  <2>1. copied <= cap
    <3>1. PICK d \in Nat, e \in Nat, o \in Nat, t \in Nat, m \in Nat :
             d = n \div ByteMax /\ e = Extra(n) /\ o = OffsetSize /\ t = LASTLITERALS /\ m = MINMATCH
      BY Sizes, DivIs, ExtraIs
    <3>2. full <=> l + 1 + n + (o + 1 + t) + d > cap
      BY <1>12, <3>1
    <3>3. over <=> l + 1 + e + n + o + 1 + f - m > cap
      BY <1>13, <1>3, <3>1
    <3>4. ~full => l + 1 + n + (o + 1 + t) + d <= cap
      BY <3>2
    <3>5. ~over => l + 1 + e + n + o + 1 + f - m <= cap
      BY <3>3
    <3>6. cap >= bound => l + 1 + n + (o + 1 + t) + d <= cap
      BY <1>11, <3>1
    <3>7. l + 1 + n + (o + 1 + t) + d <= cap \/ l + 1 + e + n + o + 1 + f - m <= cap
      BY <3>4, <3>5, <3>6, <1>10, <1>18
    <3>8. QED
      BY <1>3, <1>14, <3>1, <3>7, CopyFits
  <2>2. PICK top \in Nat : top = MAX(s.top, copied) /\ top <= cap
    BY <2>1, <1>10 DEF MAX
  <2>3. PICK jp \in Nat, jm \in Int : jp = ip - back /\ jm = idx - back /\ anchor <= jp /\ jp <= ip
    <3>1. back <= ip - anchor /\ anchor <= ip
      BY <1>4, <1>2
    <3>2. ip - back \in Nat /\ idx - back \in Int /\ anchor <= ip - back /\ ip - back <= ip
      BY ONLY <3>1, ip \in Nat, back \in Nat, idx \in Int, anchor \in Nat
    <3>3. QED
      BY <3>2
  <2>4. PICK r : r = [s EXCEPT !.at = "match", !.ip = jp, !.match = jm, !.top = top]
    OBVIOUS
  <2>5. Found(s, idx) = r
    BY <1>15, <1>18, <2>2, <2>3, <2>4
  <2>6. r \in WorkRecords
    BY ONLY <2>4, s \in WorkRecords, jp \in Nat, jm \in Int, top \in Nat DEF WorkRecords
  <2>7. /\ r.at = "match" /\ r.ip = jp /\ r.match = jm /\ r.top = top /\ SameCall(s, r)
        /\ r.anchor = s.anchor /\ r.out = s.out /\ r.ok = s.ok
    BY <2>4 DEF WorkRecords, SameCall
  <2>8. RoomSound(r)
    BY <2>7, <2>2, <1>1, <1>2 DEF RoomSound, SameCall
  <2>9. r.ip < MfLimitPlusOne(r.c)
    <3>1. MfLimitPlusOne(s.c) = end - f + 1
      BY <1>1, <1>2, <1>3 DEF MfLimitPlusOne
    <3>2. QED
      BY <3>1, <2>7, <2>3, <1>3 DEF SameCall
  <2>10. Paid(r)
    BY <2>7 DEF Paid, SameCall
  <2>11. LoopSound(r)
    BY <2>7, <2>9, <2>10, <2>3, <1>2 DEF LoopSound
  <2>12. CallSound(r.c)
    BY <2>7 DEF SameCall
  <2>13. QED
    BY <2>5, <2>6, <2>7, <2>8, <2>11, <2>12 DEF Sound
<1>19. QED
  BY <1>16, <1>17, <1>18

\* What is paid for one after the other is paid for together.
LEMMA PaysAdd ==
  ASSUME NEW l \in Nat, NEW p \in Nat, NEW a \in Nat, NEW m \in Nat,
         l <= a + a \div ByteMax, p <= m + m \div ByteMax
  PROVE  l + p <= (a + m) + (a + m) \div ByteMax
<1>1. PICK b \in Nat \ {0} : b = ByteMax
  BY Sizes
<1>2. PICK y \in Nat, q \in Nat : y = a \div b /\ q = m \div b
  BY DivIs
<1>3. PICK x \in Nat : x = a + m
  OBVIOUS
<1>4. PICK r \in Nat : r = x \div b
  BY DivIs
<1>5. y + q <= r
  BY <1>2, <1>3, <1>4, DivAdds
<1>6. l <= a + y /\ p <= m + q
  BY <1>1, <1>2
<1>7. l + p <= x + r
  BY ONLY <1>3, <1>5, <1>6, l \in Nat, p \in Nat, a \in Nat, m \in Nat, y \in Nat, q \in Nat, x \in Nat, r \in Nat
<1>8. QED
  BY <1>1, <1>3, <1>4, <1>7

\* One that is cut fills the room but for the last literals.
LEMMA CutFits ==
  ASSUME NEW op \in Nat, NEW whole \in Nat, NEW cap \in Nat,
         op + 1 + MFLIMIT - MINMATCH <= cap, op + (1 + LASTLITERALS) + Extra(whole) > cap,
         NEW code, code = NibbleMask - 1 + (cap - op - 1 - LASTLITERALS) * ByteMax
  PROVE  code \in Nat /\ code < whole /\ op + Extra(code) + 1 + LASTLITERALS = cap
<1>1. PICK b \in Nat \ {0}, k \in Nat \ {0}, t \in Nat, f \in Nat, m \in Nat :
        b = ByteMax /\ k = NibbleMask /\ t = LASTLITERALS /\ f = MFLIMIT /\ m = MINMATCH
  BY Sizes
<1>2. f >= m + t
  BY <1>1, Sizes
<1>3. PICK d \in Nat : d = cap - op - 1 - t
  <2>1. op + 1 + f - m <= cap
    BY <1>1
  <2>2. cap - op - 1 - t \in Nat
    BY ONLY <2>1, <1>2, op \in Nat, cap \in Nat, t \in Nat, f \in Nat, m \in Nat
  <2>3. QED
    BY <2>2
<1>4. PICK y \in Nat : y = d * b
  <2>1. d * b \in Nat
    BY ONLY d \in Nat, b \in Nat
  <2>2. QED
    BY <2>1
<1>5. code = k - 1 + y
  BY <1>1, <1>3, <1>4
<1>6. code \in Nat
  BY <1>5
<1>7. code + b - k = y + (b - 1)
  BY <1>5
<1>8. (y + (b - 1)) \div b = d
  <2>1. PICK x \in Nat : x = y + (b - 1)
    <3>1. y + (b - 1) \in Nat
      OBVIOUS
    <3>2. QED
      BY <3>1
  <2>2. b * d = y
    BY <1>4
  <2>3. d <= x \div b
    <3>1. b * d <= x
      BY <2>1, <2>2
    <3>2. QED
      BY <3>1, DivAtLeast
  <2>4. PICK q \in Nat : q = x \div b
    BY DivIs
  <2>5. b * q <= x
    <3>1. b * q \in Nat
      BY ONLY b \in Nat, q \in Nat
    <3>2. QED
      BY <3>1, <2>4, DivIs
  <2>6. ~(q >= d + 1)
    <3>1. SUFFICES ASSUME q >= d + 1 PROVE FALSE
      OBVIOUS
    <3>2. PICK g \in Nat : q = d + 1 + g
      <4>1. q = d + 1 + (q - d - 1) /\ q - d - 1 \in Nat
        BY <3>1
      <4>2. QED
        BY <4>1
    <3>3. PICK bg \in Nat : bg = b * g
      <4>1. b * g \in Nat
        BY ONLY b \in Nat, g \in Nat
      <4>2. QED
        BY <4>1
    <3>4. b * q = b * d + b + bg
      BY ONLY <3>2, <3>3, b \in Nat, d \in Nat, g \in Nat
    <3>5. b * q = y + b + bg
      BY <3>4, <2>2
    <3>6. QED
      BY <3>5, <2>5, <2>1
  <2>7. QED
    BY <2>1, <2>3, <2>4, <2>6
<1>9. Extra(code) = d
  BY <1>1, <1>7, <1>8 DEF Extra
<1>10. op + Extra(code) + 1 + t = cap
  BY <1>3, <1>9
<1>11. code < whole
  <2>1. SUFFICES ASSUME whole <= code PROVE FALSE
    BY <1>6
  <2>2. PICK e \in Nat : e = Extra(whole)
    BY ExtraIs
  <2>3. e <= d
    BY <2>1, <2>2, <1>6, <1>9, ExtraGrows
  <2>4. op + (1 + t) + e > cap
    BY <1>1, <2>2
  <2>5. QED
    BY ONLY <2>3, <2>4, <1>3, op \in Nat, cap \in Nat, t \in Nat, d \in Nat, e \in Nat
<1>12. QED
  BY <1>1, <1>6, <1>10, <1>11

\* The sequence that is written.
LEMMA WrittenSound ==
  ASSUME NEW s \in WorkRecords, CallSound(s.c), RoomSound(s), LoopSound(s), s.at = "match", s.ok = FALSE,
         ~(s.c.limit = "fill" /\ Op(s) + 1 + MFLIMIT - MINMATCH > s.c.cap),
         ~(s.c.limit = "limited" /\ Tight(s))
  PROVE  LET r == SequenceWritten(s) IN
         /\ r \in WorkRecords /\ SameCall(s, r) /\ RoomSound(r) /\ Paid(r)
         /\ r.at = "match" /\ r.ok = FALSE
         /\ Whole(s) \in 0 .. MatchLimit(s.c) - s.ip - MINMATCH
         /\ MatchCode(s) \in 0 .. Whole(s)
         /\ r.ip = s.ip + MINMATCH + MatchCode(s) /\ r.anchor = r.ip /\ r.step = s.step /\ r.match = s.match
         /\ r.ip + LASTLITERALS <= End(s.c)
         /\ r.c.limit = "fill" /\ Tight(s) => Len(r.out) + 1 + LASTLITERALS >= s.c.cap
<1>1. PICK c \in CallRecords : c = s.c
  BY DEF WorkRecords
<1>2. PICK start \in Nat, end \in Nat, anchor \in Nat, cap \in Nat, low \in Nat, ip \in Nat :
        /\ start = c.start /\ end = End(c) /\ anchor = s.anchor /\ cap = c.cap /\ low = c.low /\ ip = s.ip
        /\ low <= start /\ start <= anchor /\ anchor <= end /\ anchor <= ip
  BY <1>1, EndIs DEF CallSound, Paid, WorkRecords, LoopSound
<1>3. PICK f \in Nat, t \in Nat, mm \in Nat : f = MFLIMIT /\ t = LASTLITERALS /\ mm = MINMATCH
  BY Sizes
<1>4. f >= mm + t /\ ip + f <= end
  <2>1. ip < end - f + 1
    BY <1>1, <1>2, <1>3 DEF MfLimitPlusOne, LoopSound
  <2>2. f >= mm + t
    BY <1>3, Sizes
  <2>3. QED
    BY <2>1, <2>2
<1>5. PICK n \in Nat, a \in Nat : n = ip - anchor /\ a = anchor - start
  <2>1. ip - anchor \in Nat /\ anchor - start \in Nat
    BY <1>2
  <2>2. QED
    BY <2>1
<1>6. PICK out \in Seq(Int), l \in Nat : out = s.out /\ l = Len(out)
  BY DEF WorkRecords
<1>7. l <= a + a \div ByteMax /\ (c.limit = "fill" => l + 1 <= cap)
  BY <1>1, <1>2, <1>5, <1>6 DEF Paid, LoopSound
<1>8. PICK op \in Nat : op = Op(s) /\ op = l + 1 + Extra(n) + n + OffsetSize
  <2>1. Len(Further(n)) = Extra(n) /\ Extra(n) \in Nat
    BY FurtherIs, ExtraIs
  <2>2. s.ip - s.anchor = n
    BY <1>2, <1>5
  <2>3. Op(s) = l + 1 + Extra(n) + n + OffsetSize
    BY <2>1, <2>2, <1>6 DEF Op
  <2>4. PICK o \in Nat : o = OffsetSize
    BY Sizes
  <2>5. l + 1 + Extra(n) + n + o \in Nat
    BY <2>1
  <2>6. QED
    BY <2>3, <2>4, <2>5
<1>9. PICK whole \in Nat : whole = Whole(s) /\ whole <= end - t - ip - mm
                           /\ Whole(s) \in 0 .. MatchLimit(s.c) - s.ip - MINMATCH
  <2>1. MatchLimit(c) = end - t
    BY <1>2, <1>3 DEF MatchLimit
  <2>2. ip + MINMATCH <= MatchLimit(c)
    BY <2>1, <1>3, <1>4
  <2>3. Count(c, ip, s.match) \in 0 .. MatchLimit(c) - ip - MINMATCH
    BY <2>2, CountIs
  <2>4. Count(c, ip, s.match) \in Nat /\ Count(c, ip, s.match) <= end - t - ip - mm
    BY <2>1, <2>3, <1>3
  <2>5. QED
    BY <2>3, <2>4, <1>1, <1>2 DEF Whole
<1>10. PICK tight \in BOOLEAN : (tight <=> Tight(s)) /\ (tight <=> op + (1 + LASTLITERALS) + Extra(whole) > cap)
  BY <1>1, <1>2, <1>8, <1>9 DEF Tight, Extra
<1>11. PICK cut : cut = MatchCode(s)
  OBVIOUS
<1>12. cut = IF c.limit = "fill" /\ tight THEN NibbleMask - 1 + (cap - op - 1 - LASTLITERALS) * ByteMax
              ELSE whole
  BY <1>1, <1>2, <1>8, <1>9, <1>10, <1>11 DEF MatchCode
<1>13. c.limit = "fill" => op + 1 + MFLIMIT - MINMATCH <= cap
  <2>1. c.limit = "fill" => ~(op + 1 + MFLIMIT - MINMATCH > cap)
    BY <1>1, <1>2, <1>8
  <2>2. op + 1 + f - mm \in Int
    OBVIOUS
  <2>3. QED
    BY <2>1, <2>2, <1>3
<1>14. /\ cut \in Nat /\ cut <= whole
       /\ c.limit = "fill" /\ tight => op + Extra(cut) + 1 + LASTLITERALS = cap
  <2>1. CASE c.limit = "fill" /\ tight
    <3>1. cut \in Nat /\ cut < whole /\ op + Extra(cut) + 1 + LASTLITERALS = cap
      BY <2>1, <1>10, <1>12, <1>13, CutFits
    <3>2. QED
      BY <3>1
  <2>2. CASE ~(c.limit = "fill" /\ tight)
    BY <2>2, <1>12
  <2>3. QED
    BY <2>1, <2>2
<1>37. PICK code \in Nat : code = cut /\ code <= whole
  BY <1>14
<1>18. PICK e \in Nat : e = Extra(code)
  BY ExtraIs
<1>38. c.limit = "fill" /\ tight => op + e + 1 + t = cap
  BY <1>3, <1>14, <1>18, <1>37
<1>39. code = MatchCode(s) /\ (~(c.limit = "fill" /\ tight) => code = whole)
  BY <1>11, <1>12, <1>37
<1>15. PICK next \in Nat, rest \in Nat : next = ip + mm + code /\ rest = end - next /\ t <= rest
  <2>1. ip + mm + code + t <= end
    BY <1>4, <1>9, <1>37
  <2>2. ip + mm + code \in Nat /\ end - (ip + mm + code) \in Nat /\ t <= end - (ip + mm + code)
    BY <2>1, <1>37
  <2>3. QED
    BY <2>2
<1>16. PICK m \in Nat : m = n + mm + code
  BY <1>37
<1>17. PICK size \in Nat : size = Len(s.page) /\ size = a + m + rest
  <2>1. Len(s.page) = end - start
    BY <1>1, <1>2 DEF RoomSound
  <2>2. a + m + rest = end - start /\ a + m + rest \in Nat
    BY <1>5, <1>15, <1>16, <1>37
  <2>3. QED
    BY <2>1, <2>2
<1>19. /\ op + e <= (a + m) + (a + m) \div ByteMax
       /\ cap >= LzCompressBound(size) => op + e + 1 + t <= cap
  <2>1. PICK g \in Nat, o \in Nat : g = Extra(n) /\ o = OffsetSize
    BY ExtraIs, Sizes
  <2>2. PICK p \in Nat : p = 1 + g + n + o + e
    OBVIOUS
  <2>3. p <= m + m \div ByteMax
    <3>1. m = n + MINMATCH + code
      BY <1>16, <1>3
    <3>2. 1 + Extra(n) + n + OffsetSize + Extra(code) <= m + m \div ByteMax
      BY <3>1, SequencePays
    <3>3. QED
      BY <3>2, <2>1, <2>2, <1>18
  <2>4. l + p <= (a + m) + (a + m) \div ByteMax
    BY <2>3, <1>7, PaysAdd
  <2>5. l + p = op + e
    <3>1. op = l + 1 + g + n + o
      BY <2>1, <1>8
    <3>2. QED
      BY ONLY <3>1, <2>2, l \in Nat, p \in Nat, op \in Nat, e \in Nat, g \in Nat, n \in Nat, o \in Nat
  <2>6. PICK y \in Nat, x \in Nat : y = op + e /\ x = a + m
    OBVIOUS
  <2>7. y <= x + x \div ByteMax
    BY <2>4, <2>5, <2>6
  <2>8. cap >= LzCompressBound(x + rest) => y + rest + 2 <= cap
    BY <2>7, BoundPays
  <2>9. cap >= LzCompressBound(size) => y + 1 + t <= cap
    BY <2>6, <2>8, <1>15, <1>17
  <2>10. QED
    BY <2>6, <2>7, <2>9
<1>20. /\ c.limit \in {"none", "limited", "fill"}
       /\ c.limit = "none" => cap >= LzCompressBound(size)
       /\ c.limit = "limited" => ~tight
       /\ s.top \in Nat /\ s.top <= cap
  BY <1>1, <1>2, <1>17, <1>10 DEF RoomSound, CallRecords, WorkRecords
<1>21. op + e + 1 + t <= cap
  <2>1. CASE c.limit = "none"
    BY <2>1, <1>19, <1>20
  <2>2. CASE c.limit # "none" /\ ~tight
    <3>1. code = whole
      BY <2>2, <1>39
    <3>2. op + (1 + t) + e <= cap
      BY <3>1, <2>2, <1>10, <1>18, <1>3
    <3>3. QED
      BY <3>2
  <2>3. CASE c.limit = "fill" /\ tight
    BY <2>3, <1>38
  <2>4. QED
    BY <2>1, <2>2, <2>3, <1>20
<1>22. PICK lits \in Seq(Byte) : lits = Bytes(c, anchor, n) /\ Len(lits) = n
  <2>1. c.low <= anchor /\ anchor + n <= End(c)
    <3>1. anchor + n = ip /\ ip <= end
      BY <1>4, <1>5
    <3>2. QED
      BY <3>1, <1>2
  <2>2. QED
    BY <2>1, BytesAre
<1>23. PICK full \in Seq(Int) :
         /\ full = out \o Literals(lits, Nibble(code)) \o Offset(s.ip - s.match) \o Further(code)
         /\ Len(full) = op + e
  <2>1. Nibble(code) \in Nat
    <3>1. NibbleMask \in Nat
      BY Sizes
    <3>2. QED
      BY <3>1, <1>37 DEF Nibble, MIN
  <2>2. PICK x \in Seq(Int) : x = Literals(lits, Nibble(code)) /\ Len(x) = 1 + Extra(n) + n
    BY <2>1, <1>22, LiteralsAre
  <2>3. s.ip - s.match \in Int
    BY DEF WorkRecords
  <2>4. PICK y \in Seq(Int), o \in Nat : y = Offset(s.ip - s.match) /\ o = OffsetSize /\ Len(y) = o
    <3>1. Offset(s.ip - s.match) \in Seq(Int) /\ Len(Offset(s.ip - s.match)) = OffsetSize
      BY <2>3, OffsetIs
    <3>2. OffsetSize \in Nat
      BY Sizes
    <3>3. QED
      BY <3>1, <3>2
  <2>5. PICK z \in Seq(Int) : z = Further(code) /\ Len(z) = e
    <3>1. Further(code) \in Seq(Nat) /\ Len(Further(code)) = e
      BY <1>37, <1>18, FurtherIs
    <3>2. Further(code) \in Seq(Int)
      BY <3>1
    <3>3. QED
      BY <3>1, <3>2
  <2>6. PICK g \in Nat : g = Extra(n)
    BY ExtraIs
  <2>7. PICK u \in Seq(Int) : u = out \o x /\ Len(u) = l + (1 + g + n)
    <3>1. out \o x \in Seq(Int) /\ Len(out \o x) = Len(out) + Len(x)
      BY ConcatProperties
    <3>2. QED
      BY <3>1, <2>2, <2>6, <1>6
  <2>8. PICK v \in Seq(Int) : v = u \o y /\ Len(v) = l + (1 + g + n) + o
    <3>1. u \o y \in Seq(Int) /\ Len(u \o y) = Len(u) + Len(y)
      BY ConcatProperties
    <3>2. QED
      BY <3>1, <2>7, <2>4
  <2>9. PICK w \in Seq(Int) : w = v \o z /\ Len(w) = l + (1 + g + n) + o + e
    <3>1. v \o z \in Seq(Int) /\ Len(v \o z) = Len(v) + Len(z)
      BY ConcatProperties
    <3>2. QED
      BY <3>1, <2>8, <2>5
  <2>10. op = l + 1 + g + n + o
    BY <1>8, <2>6, <2>4
  <2>11. Len(w) = op + e
    BY <2>9, <2>10
  <2>12. w = out \o Literals(lits, Nibble(code)) \o Offset(s.ip - s.match) \o Further(code)
    BY <2>2, <2>4, <2>5, <2>7, <2>8, <2>9
  <2>13. QED
    BY <2>11, <2>12
<1>24. PICK words \in Nat : words = WordsWritten(code) /\ words <= e + t + 1
  BY <1>3, <1>37, <1>18, WordsFit
<1>25. PICK top \in Nat : top = MAX(s.top, MAX(Len(full), op + words)) /\ top <= cap
  <2>1. Len(full) \in Nat /\ Len(full) <= cap /\ op + words \in Nat /\ op + words <= cap
    <3>1. op + e <= cap /\ op + words <= cap
      BY ONLY <1>21, <1>24, op \in Nat, e \in Nat, t \in Nat, cap \in Nat, words \in Nat
    <3>2. op + e \in Nat /\ op + words \in Nat
      OBVIOUS
    <3>3. QED
      BY <3>1, <3>2, <1>23
  <2>2. QED
    BY <2>1, <1>20 DEF MAX
<1>26. PICK r : r = [s EXCEPT !.out = full, !.top = top, !.anchor = next, !.ip = next]
  OBVIOUS
<1>27. SequenceWritten(s) = r
  <2>1. /\ s.ip - s.anchor = n
        /\ lits = Bytes(s.c, s.anchor, n)
        /\ next = s.ip + MINMATCH + code
        /\ full = s.out \o Literals(lits, Nibble(code)) \o Offset(s.ip - s.match) \o Further(code)
        /\ top = MAX(s.top, MAX(Len(full), Op(s) + WordsWritten(code)))
    BY <1>1, <1>2, <1>3, <1>5, <1>6, <1>8, <1>15, <1>22, <1>23, <1>24, <1>25
  <2>2. QED
    BY ONLY <2>1, <1>39, <1>26 DEF SequenceWritten
<1>28. r \in WorkRecords
  BY ONLY <1>26, s \in WorkRecords, full \in Seq(Int), top \in Nat, next \in Nat DEF WorkRecords
<1>29. /\ r.at = s.at /\ r.out = full /\ r.top = top /\ r.anchor = next /\ r.ip = next /\ r.ok = s.ok
       /\ r.step = s.step /\ r.match = s.match /\ SameCall(s, r)
  BY <1>26 DEF WorkRecords, SameCall
<1>30. RoomSound(r)
  BY <1>29, <1>25, <1>1, <1>2 DEF RoomSound, SameCall
<1>31. Paid(r)
  <2>1. next - start = a + m
    BY ONLY <1>5, <1>15, <1>16, start \in Nat, anchor \in Nat, ip \in Nat, n \in Nat, a \in Nat,
            next \in Nat, m \in Nat, mm \in Nat, code \in Nat
  <2>2. start <= next /\ next <= end
    <3>1. t <= end - next /\ next = ip + mm + code
      BY <1>15
    <3>2. start <= anchor /\ anchor <= ip
      BY <1>2
    <3>3. QED
      BY ONLY <3>1, <3>2, start \in Nat, anchor \in Nat, ip \in Nat, end \in Nat, t \in Nat,
              next \in Nat, mm \in Nat, code \in Nat
  <2>3. op + e + 1 <= cap
    BY ONLY <1>21, op \in Nat, e \in Nat, t \in Nat, cap \in Nat
  <2>4. QED
    BY <2>1, <2>2, <2>3, <1>1, <1>2, <1>19, <1>23, <1>29 DEF Paid, SameCall
<1>32. r.ip + LASTLITERALS <= End(s.c)
  BY <1>1, <1>2, <1>3, <1>15, <1>29
<1>33. r.c.limit = "fill" /\ Tight(s) => Len(r.out) + 1 + LASTLITERALS >= s.c.cap
  BY <1>1, <1>2, <1>10, <1>38, <1>23, <1>29, <1>3 DEF SameCall
<1>34. MatchCode(s) \in 0 .. Whole(s)
  BY <1>9, <1>39, <1>37
<1>35. r.ip = s.ip + MINMATCH + MatchCode(s)
  BY <1>2, <1>3, <1>39, <1>15, <1>29
<1>36. QED
  BY <1>9, <1>27, <1>28, <1>29, <1>30, <1>31, <1>32, <1>33, <1>34, <1>35

\* With the bound there is room for the whole of any match.
LEMMA BoundNotTight ==
  ASSUME NEW s \in WorkRecords, CallSound(s.c), RoomSound(s), LoopSound(s), s.at = "match",
         s.c.limit = "limited", Tight(s)
  PROVE  s.c.cap < LzCompressBound(Len(s.page))
<1>1. PICK c \in CallRecords : c = s.c
  BY DEF WorkRecords
<1>2. PICK start \in Nat, end \in Nat, anchor \in Nat, cap \in Nat, low \in Nat, ip \in Nat :
        /\ start = c.start /\ end = End(c) /\ anchor = s.anchor /\ cap = c.cap /\ low = c.low /\ ip = s.ip
        /\ low <= start /\ start <= anchor /\ anchor <= end /\ anchor <= ip
  BY <1>1, EndIs DEF CallSound, Paid, WorkRecords, LoopSound
<1>3. PICK f \in Nat, t \in Nat, mm \in Nat, o \in Nat :
        f = MFLIMIT /\ t = LASTLITERALS /\ mm = MINMATCH /\ o = OffsetSize
  BY Sizes
<1>4. f >= mm + t /\ ip + f <= end
  <2>1. ip < end - f + 1
    BY <1>1, <1>2, <1>3 DEF MfLimitPlusOne, LoopSound
  <2>2. f >= mm + t
    BY <1>3, Sizes
  <2>3. QED
    BY <2>1, <2>2
<1>5. PICK n \in Nat, a \in Nat : n = ip - anchor /\ a = anchor - start
  <2>1. ip - anchor \in Nat /\ anchor - start \in Nat
    BY <1>2
  <2>2. QED
    BY <2>1
<1>6. PICK out \in Seq(Int), l \in Nat : out = s.out /\ l = Len(out)
  BY DEF WorkRecords
<1>7. l <= a + a \div ByteMax
  BY <1>1, <1>2, <1>5, <1>6 DEF Paid, LoopSound
<1>8. PICK g \in Nat : g = Extra(n)
  BY ExtraIs
<1>9. PICK op \in Nat : op = Op(s) /\ op = l + 1 + g + n + o
  <2>1. Len(Further(n)) = g
    BY <1>8, FurtherIs
  <2>2. s.ip - s.anchor = n
    BY <1>2, <1>5
  <2>3. Op(s) = l + 1 + g + n + o
    BY <2>1, <2>2, <1>3, <1>6 DEF Op
  <2>4. l + 1 + g + n + o \in Nat
    OBVIOUS
  <2>5. QED
    BY <2>3, <2>4
<1>10. PICK code \in Nat : code = Whole(s) /\ code <= end - t - ip - mm
  <2>1. MatchLimit(c) = end - t
    BY <1>2, <1>3 DEF MatchLimit
  <2>2. ip + MINMATCH <= MatchLimit(c)
    BY <2>1, <1>3, <1>4
  <2>3. Count(c, ip, s.match) \in 0 .. MatchLimit(c) - ip - MINMATCH
    BY <2>2, CountIs
  <2>4. Count(c, ip, s.match) \in Nat /\ Count(c, ip, s.match) <= end - t - ip - mm
    BY <2>1, <2>3, <1>3
  <2>5. QED
    BY <2>4, <1>1, <1>2 DEF Whole
<1>11. PICK e \in Nat : e = Extra(code)
  BY ExtraIs
<1>12. PICK m \in Nat : m = n + mm + code
  OBVIOUS
<1>13. PICK x \in Nat, rest \in Nat : x = a + m /\ rest = end - start - x /\ t <= rest
  <2>1. a + m \in Nat /\ end - start - (a + m) \in Nat /\ t <= end - start - (a + m)
    BY ONLY <1>5, <1>10, <1>12, start \in Nat, anchor \in Nat, ip \in Nat, end \in Nat, n \in Nat, a \in Nat,
            m \in Nat, mm \in Nat, code \in Nat, t \in Nat
  <2>2. QED
    BY <2>1
<1>14. PICK size \in Nat : size = Len(s.page) /\ size = x + rest
  <2>1. Len(s.page) = end - start
    BY <1>1, <1>2 DEF RoomSound
  <2>2. x + rest = end - start /\ x + rest \in Nat
    BY ONLY <1>13, x \in Nat, rest \in Nat, end \in Nat, start \in Nat, t \in Nat
  <2>3. QED
    BY <2>1, <2>2
<1>15. PICK p \in Nat : p = 1 + g + n + o + e
  OBVIOUS
<1>16. p <= m + m \div ByteMax
  <2>1. m = n + MINMATCH + code
    BY <1>12, <1>3
  <2>2. 1 + Extra(n) + n + OffsetSize + Extra(code) <= m + m \div ByteMax
    BY <2>1, SequencePays
  <2>3. QED
    BY <2>2, <1>3, <1>8, <1>11, <1>15
<1>17. l + p <= (a + m) + (a + m) \div ByteMax
  BY <1>16, <1>7, PaysAdd
<1>18. PICK y \in Nat : y = l + p
  OBVIOUS
<1>19. y <= x + x \div ByteMax
  BY <1>17, <1>18, <1>13
<1>20. cap >= LzCompressBound(x + rest) => y + rest + 2 <= cap
  BY <1>19, BoundPays
<1>21. op + (1 + t) + e > cap
  BY <1>1, <1>2, <1>3, <1>9, <1>10, <1>11 DEF Tight, Extra
<1>22. ~(y + rest + 2 <= cap)
  BY ONLY <1>21, <1>9, <1>15, <1>18, <1>13, l \in Nat, p \in Nat, y \in Nat, op \in Nat, e \in Nat, g \in Nat,
          n \in Nat, o \in Nat, rest \in Nat, t \in Nat, cap \in Nat
<1>23. LzCompressBound(size) \in Nat
  BY BoundIs
<1>24. QED
  BY <1>1, <1>2, <1>14, <1>20, <1>22, <1>23

\* The steps of a search go ahead.
LEMMA StepIs ==
  ASSUME NEW c \in CallRecords, NEW k \in Nat
  PROVE  StepOf(c, k) \in Nat \ {0}
<1>1. PICK b \in Nat \ {0}, v \in Nat \ {0} : b = SkipTrigger /\ v = c.speed
  BY Sizes DEF CallRecords
<1>2. CASE k = 0
  BY <1>2 DEF StepOf
<1>3. CASE k # 0
  <2>1. PICK x \in Nat : x = v * b + k - 1 /\ x >= b
    <3>1. PICK w \in Nat : v = w + 1
      <4>1. v - 1 \in Nat /\ v = (v - 1) + 1
        OBVIOUS
      <4>2. QED
        BY <4>1
    <3>2. PICK wb \in Nat : wb = w * b
      <4>1. w * b \in Nat
        BY ONLY w \in Nat, b \in Nat
      <4>2. QED
        BY <4>1
    <3>3. v * b = wb + b
      BY ONLY <3>1, <3>2, w \in Nat, b \in Nat
    <3>4. v * b + k - 1 \in Nat /\ v * b + k - 1 >= b
      BY ONLY <3>3, <1>3, wb \in Nat, b \in Nat, k \in Nat
    <3>5. QED
      BY <3>4
  <2>2. b * 1 <= x
    BY <2>1
  <2>3. 1 <= x \div b
    BY <2>2, DivAtLeast
  <2>4. x \div b \in Nat
    BY DivIs
  <2>5. StepOf(c, k) = x \div b
    BY <1>1, <1>3, <2>1 DEF StepOf
  <2>6. QED
    BY <2>3, <2>4, <2>5
<1>4. QED
  BY <1>2, <1>3

\* A turn of the search.
LEMMA SearchTurns ==
  ASSUME lz \in StreamStates, Sound(work), work.at # "done" => work.ok = FALSE, Searching
  PROVE  /\ Sound(work') /\ (work'.at # "done" => work'.ok = FALSE) /\ SameCall(work, work')
         /\ lz' \in StreamStates
         /\ \E t \in Tables : lz' = [lz EXCEPT !.table = t]
<1>1. PICK s \in WorkRecords : s = work
  BY DEF Sound
<1>2. /\ s.at = "search" /\ s.ok = FALSE /\ CallSound(s.c) /\ RoomSound(s) /\ LoopSound(s) /\ Sound(s)
  BY <1>1 DEF Searching, Sound, DoneSound
<1>3. PICK c \in CallRecords : c = s.c
  BY DEF WorkRecords
<1>4. PICK start \in Nat, end \in Nat, anchor \in Nat, low \in Nat, ip \in Nat, f \in Nat, mm \in Nat :
        /\ start = c.start /\ end = End(c) /\ anchor = s.anchor /\ low = c.low /\ ip = s.ip
        /\ f = MFLIMIT /\ mm = MINMATCH
  BY <1>3, EndIs, Sizes DEF WorkRecords
<1>5. /\ low <= start /\ start <= anchor /\ anchor < ip /\ ip <= end - f + 1 /\ f >= mm + 1
      /\ MfLimitPlusOne(c) = end - f + 1
  <2>1. f >= mm + 1
    BY <1>4, Sizes
  <2>2. MfLimitPlusOne(c) = end - f + 1
    BY <1>4 DEF MfLimitPlusOne
  <2>3. s.anchor < s.ip /\ s.ip <= MfLimitPlusOne(s.c) /\ Paid(s)
    BY <1>2 DEF LoopSound
  <2>4. s.c.low <= s.c.start /\ s.c.start <= s.anchor
    BY <1>2, <2>3 DEF CallSound, Paid
  <2>5. QED
    BY <2>1, <2>2, <2>3, <2>4, <1>3, <1>4
<1>6. PICK k \in Nat : k = s.step
  BY DEF WorkRecords
<1>7. PICK ahead \in Nat : ahead = s.ip + StepOf(c, s.step) /\ ahead > ip
  <2>1. PICK d \in Nat \ {0} : d = StepOf(c, k)
    BY StepIs
  <2>2. ip + d \in Nat /\ ip + d > ip
    OBVIOUS
  <2>3. QED
    BY <2>1, <2>2, <1>4, <1>6
<1>8. lz.table \in Tables
  BY DEF StreamStates
<1>9. CASE ahead > MfLimitPlusOne(c) /\ work' = LastLiterals(work) /\ UNCHANGED lz
  <2>1. Sound(work') /\ SameCall(s, work') /\ work'.at = "done"
    BY <1>1, <1>2, <1>9, LastLiteralsSound DEF Sound, LoopSound, SameCall, DoneSound
  <2>2. lz' = [lz EXCEPT !.table = lz.table]
    BY <1>9 DEF StreamStates
  <2>3. QED
    BY <1>1, <1>8, <1>9, <2>1, <2>2
<1>10. ASSUME NEW h, h = HashAt(c, ip), ahead <= MfLimitPlusOne(c),
              lz' = [lz EXCEPT !.table = PutIndex(c.type, @, h, ip)],
              work' = IF Usable(c, Candidate(c, lz.table, h), ip) THEN Found(s, Candidate(c, lz.table, h))
                      ELSE [s EXCEPT !.step = @ + 1, !.ip = ahead]
       PROVE  /\ Sound(work') /\ (work'.at # "done" => work'.ok = FALSE) /\ SameCall(work, work')
              /\ lz' \in StreamStates
              /\ \E t \in Tables : lz' = [lz EXCEPT !.table = t]
  <2>1. ip + f <= end
    BY ONLY <1>5, <1>7, <1>10, ip \in Nat, ahead \in Nat, end \in Nat, f \in Nat
  <2>2. h \in Cells
    <3>1. c.low <= ip /\ ip + MINMATCH + 1 <= End(c)
      BY <1>4, <1>5, <2>1
    <3>2. QED
      BY <1>10, <3>1, HashIs
  <2>3. PICK t \in Tables : t = PutIndex(c.type, lz.table, h, ip)
    BY <1>8, PutIs
  <2>4. lz' = [lz EXCEPT !.table = t] /\ lz' \in StreamStates
    <3>1. lz' = [lz EXCEPT !.table = t]
      BY <1>10, <2>3
    <3>2. QED
      BY <3>1 DEF StreamStates
  <2>5. PICK idx \in Int : idx = Candidate(c, lz.table, h)
    BY <1>8, <2>2, CandidateIs
  <2>6. CASE Usable(c, Candidate(c, lz.table, h), ip)
    <3>1. work' = Found(s, idx)
      BY <1>10, <2>5, <2>6
    <3>2. s.anchor <= s.ip /\ s.ip < MfLimitPlusOne(s.c)
      BY <1>3, <1>4, <1>5, <2>1
    <3>3. QED
      BY <1>1, <1>2, <2>4, <3>1, <3>2, FoundSound DEF LoopSound
  <2>7. CASE ~Usable(c, Candidate(c, lz.table, h), ip)
    <3>1. PICK r : r = [s EXCEPT !.step = k + 1, !.ip = ahead]
      OBVIOUS
    <3>2. work' = r
      BY <1>6, <1>10, <2>7, <3>1
    <3>3. r \in WorkRecords
      <4>1. PICK j \in Nat : j = k + 1
        OBVIOUS
      <4>2. r = [s EXCEPT !.step = j, !.ip = ahead]
        BY <3>1, <4>1
      <4>3. QED
        BY ONLY <4>2, s \in WorkRecords, j \in Nat, ahead \in Nat DEF WorkRecords
    <3>4. /\ SameCall(s, r) /\ r.at = s.at /\ r.anchor = s.anchor /\ r.ip = ahead /\ r.out = s.out
          /\ r.top = s.top /\ r.ok = s.ok
      BY <3>1 DEF SameCall, WorkRecords
    <3>5. RoomSound(r) /\ Paid(r) /\ CallSound(r.c)
      BY <1>2, <3>4 DEF RoomSound, Paid, SameCall, LoopSound
    <3>6. LoopSound(r)
      BY <1>2, <1>3, <1>4, <1>5, <1>7, <1>10, <3>4, <3>5 DEF LoopSound, SameCall
    <3>7. QED
      BY <1>1, <1>2, <2>4, <3>2, <3>3, <3>4, <3>5, <3>6 DEF Sound
  <2>8. QED
    BY <2>6, <2>7
<1>11. QED
  BY <1>1, <1>3, <1>4, <1>7, <1>9, <1>10 DEF Searching

\* A turn at a match.
LEMMA MatchTurns ==
  ASSUME lz \in StreamStates, Sound(work), work.at # "done" => work.ok = FALSE, NextMatch
  PROVE  /\ Sound(work') /\ (work'.at # "done" => work'.ok = FALSE) /\ SameCall(work, work')
         /\ lz' \in StreamStates
         /\ \E t \in Tables : lz' = [lz EXCEPT !.table = t]
<1>1. PICK s \in WorkRecords : s = work
  BY DEF Sound
<1>2. /\ s.at = "match" /\ s.ok = FALSE /\ CallSound(s.c) /\ RoomSound(s) /\ LoopSound(s) /\ Sound(s)
      /\ Paid(s)
  BY <1>1 DEF NextMatch, Sound, DoneSound, LoopSound
<1>3. PICK c \in CallRecords : c = s.c
  BY DEF WorkRecords
<1>4. lz.table \in Tables
  BY DEF StreamStates
<1>5. lz = [lz EXCEPT !.table = lz.table]
  BY DEF StreamStates
<1>6. ASSUME Paid(s), work' = LastLiterals(s), UNCHANGED lz
      PROVE  /\ Sound(work') /\ (work'.at # "done" => work'.ok = FALSE) /\ SameCall(work, work')
             /\ lz' \in StreamStates
             /\ \E t \in Tables : lz' = [lz EXCEPT !.table = t]
  <2>1. Sound(work') /\ SameCall(s, work') /\ work'.at = "done"
    BY <1>1, <1>2, <1>6, LastLiteralsSound DEF Sound, SameCall, DoneSound
  <2>2. lz' = [lz EXCEPT !.table = lz.table]
    BY <1>5, <1>6
  <2>3. QED
    BY <1>1, <1>4, <1>6, <2>1, <2>2
<1>7. CASE c.limit = "limited" /\ Tight(s) /\ work' = NoRoom(s) /\ UNCHANGED lz
  <2>1. s.c.cap < LzCompressBound(Len(s.page))
    BY <1>2, <1>3, <1>7, BoundNotTight
  <2>2. Sound(work') /\ SameCall(s, work') /\ work'.at = "done"
    BY <1>1, <1>2, <1>7, <2>1, NoRoomSound DEF Sound, SameCall, DoneSound
  <2>3. lz' = [lz EXCEPT !.table = lz.table]
    BY <1>5, <1>7
  <2>4. QED
    BY <1>1, <1>4, <1>7, <2>2, <2>3
<1>8. ASSUME ~(c.limit = "fill" /\ Op(s) + 1 + MFLIMIT - MINMATCH > c.cap),
             ~(c.limit = "limited" /\ Tight(s)),
             NEW done, done = SequenceWritten(s), NEW filled,
             filled = PutIndex(c.type, lz.table, HashAt(c, done.ip - 2), done.ip - 2),
             NEW h, h = HashAt(c, done.ip),
             IF done.ip >= MfLimitPlusOne(c) THEN work' = LastLiterals(done) /\ UNCHANGED lz
             ELSE /\ lz' = [lz EXCEPT !.table = PutIndex(c.type, filled, h, done.ip)]
                  /\ work' = IF Usable(c, Candidate(c, filled, h), done.ip)
                             THEN [done EXCEPT !.match = Candidate(c, filled, h)]
                             ELSE [done EXCEPT !.at = "search", !.ip = done.ip + 1, !.step = 0]
      PROVE  /\ Sound(work') /\ (work'.at # "done" => work'.ok = FALSE) /\ SameCall(work, work')
             /\ lz' \in StreamStates
             /\ \E t \in Tables : lz' = [lz EXCEPT !.table = t]
  <2>1. /\ done \in WorkRecords /\ SameCall(s, done) /\ RoomSound(done) /\ Paid(done)
        /\ done.at = "match" /\ done.ok = FALSE
        /\ done.ip = s.ip + MINMATCH + MatchCode(s) /\ done.anchor = done.ip
        /\ MatchCode(s) \in 0 .. Whole(s)
    BY <1>2, <1>3, <1>8, WrittenSound
  <2>2. CASE done.ip >= MfLimitPlusOne(c)
    <3>1. work' = LastLiterals(done) /\ UNCHANGED lz
      BY <1>8, <2>2
    <3>2. Sound(work') /\ SameCall(done, work') /\ work'.at = "done"
      BY <1>2, <2>1, <3>1, LastLiteralsSound DEF Sound, SameCall, DoneSound
    <3>3. lz' = [lz EXCEPT !.table = lz.table]
      BY <1>5, <3>1
    <3>4. QED
      BY <1>1, <1>4, <2>1, <3>1, <3>2, <3>3 DEF SameCall
  <2>3. CASE ~(done.ip >= MfLimitPlusOne(c))
    <3>1. PICK next \in Nat, end \in Nat, f \in Nat, mm \in Nat, start \in Nat, low \in Nat :
            /\ next = done.ip /\ end = End(c) /\ f = MFLIMIT /\ mm = MINMATCH /\ start = c.start /\ low = c.low
      BY <1>3, <2>1, EndIs, Sizes DEF WorkRecords
    <3>2. f >= mm + 1 /\ mm >= 2 /\ low <= start
      BY <1>2, <1>3, <3>1, Sizes DEF CallSound
    <3>3. next + f <= end
      <4>1. ~(next >= end - f + 1)
        BY <2>3, <3>1 DEF MfLimitPlusOne
      <4>2. QED
        BY <4>1
    <3>4. low + 2 <= next /\ start < next
      <4>1. PICK ip \in Nat, code \in Nat, anchor \in Nat : ip = s.ip /\ code = MatchCode(s) /\ anchor = s.anchor
        <5>1. MatchCode(s) \in Nat
          BY <2>1
        <5>2. s.ip \in Nat /\ s.anchor \in Nat
          BY DEF WorkRecords
        <5>3. QED
          BY <5>1, <5>2
      <4>2. start <= anchor /\ anchor <= ip
        BY <1>2, <1>3, <3>1, <4>1 DEF LoopSound, Paid
      <4>3. next = ip + mm + code
        BY <2>1, <3>1, <4>1
      <4>4. QED
        BY ONLY <3>2, <4>2, <4>3, next \in Nat, ip \in Nat, mm \in Nat, code \in Nat, anchor \in Nat,
                start \in Nat, low \in Nat
    <3>5. PICK before \in Nat : before = next - 2
      BY <3>4
    <3>6. filled \in Tables
      BY <1>4, <1>8, <3>1, <3>5, PutIs
    <3>7. h \in Cells
      <4>1. c.low <= next /\ next + MINMATCH + 1 <= End(c)
        BY <3>1, <3>2, <3>3, <3>4
      <4>2. QED
        BY <1>8, <3>1, <4>1, HashIs
    <3>8. PICK t \in Tables : t = PutIndex(c.type, filled, h, next)
      BY <3>6, PutIs
    <3>9. lz' = [lz EXCEPT !.table = t] /\ lz' \in StreamStates
      <4>1. lz' = [lz EXCEPT !.table = t]
        BY <1>8, <2>3, <3>1, <3>8
      <4>2. QED
        BY <4>1 DEF StreamStates
    <3>10. PICK idx \in Int : idx = Candidate(c, filled, h)
      BY <3>6, <3>7, CandidateIs
    <3>11. CallSound(done.c) /\ done.c = c
      BY <1>2, <1>3, <2>1 DEF SameCall
    <3>12. CASE Usable(c, Candidate(c, filled, h), done.ip)
      <4>1. PICK r : r = [done EXCEPT !.match = idx]
        OBVIOUS
      <4>2. work' = r
        BY <1>8, <2>3, <3>10, <3>12, <4>1
      <4>3. r \in WorkRecords
        BY <2>1, <4>1 DEF WorkRecords
      <4>4. /\ SameCall(done, r) /\ r.at = "match" /\ r.anchor = done.anchor /\ r.ip = done.ip
            /\ r.out = done.out /\ r.top = done.top /\ r.ok = FALSE
        BY <2>1, <4>1 DEF SameCall, WorkRecords
      <4>5. RoomSound(r) /\ Paid(r) /\ CallSound(r.c) /\ r.c = c
        BY <2>1, <3>11, <4>4 DEF RoomSound, Paid, SameCall
      <4>6. LoopSound(r)
        <5>1. r.ip < MfLimitPlusOne(r.c)
          <6>1. MfLimitPlusOne(c) = end - f + 1
            BY <3>1 DEF MfLimitPlusOne
          <6>2. QED
            BY <3>1, <3>3, <4>4, <4>5, <6>1
        <5>2. r.anchor <= r.ip
          BY <2>1, <3>1, <4>4
        <5>3. QED
          BY <4>4, <4>5, <5>1, <5>2 DEF LoopSound
      <4>7. QED
        BY <1>1, <2>1, <3>9, <4>2, <4>3, <4>4, <4>5, <4>6 DEF Sound, SameCall
    <3>13. CASE ~Usable(c, Candidate(c, filled, h), done.ip)
      <4>1. PICK r : r = [done EXCEPT !.at = "search", !.ip = next + 1, !.step = 0]
        OBVIOUS
      <4>2. work' = r
        BY <1>8, <2>3, <3>1, <3>13, <4>1
      <4>3. r \in WorkRecords
        <5>1. PICK j \in Nat, z \in Nat, w \in {"search", "match", "done"} : j = next + 1 /\ z = 0 /\ w = "search"
          OBVIOUS
        <5>2. r = [done EXCEPT !.at = w, !.ip = j, !.step = z]
          BY <4>1, <5>1
        <5>3. done \in WorkRecords
          BY <2>1
        <5>4. QED
          BY ONLY <5>2, <5>3, j \in Nat, z \in Nat, w \in {"search", "match", "done"} DEF WorkRecords
      <4>4. /\ SameCall(done, r) /\ r.at = "search" /\ r.anchor = done.anchor /\ r.ip = next + 1
            /\ r.out = done.out /\ r.top = done.top /\ r.ok = FALSE
        BY <2>1, <4>1 DEF SameCall, WorkRecords
      <4>5. RoomSound(r) /\ Paid(r) /\ CallSound(r.c) /\ r.c = c
        BY <2>1, <3>11, <4>4 DEF RoomSound, Paid, SameCall
      <4>6. LoopSound(r)
        <5>1. r.ip <= MfLimitPlusOne(r.c)
          <6>1. MfLimitPlusOne(c) = end - f + 1
            BY <3>1 DEF MfLimitPlusOne
          <6>2. QED
            BY <3>1, <3>3, <4>4, <4>5, <6>1
        <5>2. r.anchor < r.ip /\ r.anchor <= r.ip
          BY <2>1, <3>1, <4>4
        <5>3. QED
          BY <4>4, <4>5, <5>1, <5>2 DEF LoopSound
      <4>7. QED
        BY <1>1, <2>1, <3>9, <4>2, <4>3, <4>4, <4>5, <4>6 DEF Sound, SameCall
    <3>14. QED
      BY <3>12, <3>13
  <2>4. QED
    BY <2>2, <2>3
<1>9. QED
  <2>1. \/ c.limit = "fill" /\ Op(s) + 1 + MFLIMIT - MINMATCH > c.cap /\ work' = LastLiterals(s) /\ UNCHANGED lz
        \/ c.limit = "limited" /\ Tight(s) /\ work' = NoRoom(s) /\ UNCHANGED lz
        \/ /\ ~(c.limit = "fill" /\ Op(s) + 1 + MFLIMIT - MINMATCH > c.cap)
           /\ ~(c.limit = "limited" /\ Tight(s))
           /\ \E done, filled, h :
                 /\ done = SequenceWritten(s)
                 /\ filled = PutIndex(c.type, lz.table, HashAt(c, done.ip - 2), done.ip - 2)
                 /\ h = HashAt(c, done.ip)
                 /\ IF done.ip >= MfLimitPlusOne(c) THEN work' = LastLiterals(done) /\ UNCHANGED lz
                    ELSE /\ lz' = [lz EXCEPT !.table = PutIndex(c.type, filled, h, done.ip)]
                         /\ work' = IF Usable(c, Candidate(c, filled, h), done.ip)
                                    THEN [done EXCEPT !.match = Candidate(c, filled, h)]
                                    ELSE [done EXCEPT !.at = "search", !.ip = done.ip + 1, !.step = 0]
    BY ONLY <1>1, <1>3, NextMatch DEF NextMatch
  <2>2. QED
    BY <2>1, <1>2, <1>6, <1>7, <1>8

-----------------------------------------------------------------------------
(* Calls that begin. *)

LimitFits(c, size) ==
  /\ c.limit = "none" => c.cap >= LzCompressBound(size)
  /\ c.limit = "fill" => c.cap < LzCompressBound(size)

Begun(r, c, page, afterwards, src) ==
  /\ Sound(r) /\ (r.at # "done" => r.ok = FALSE)
  /\ r.c = c /\ r.page = page /\ r.afterwards = afterwards /\ r.src = src
  /\ r.at # "done" => /\ r.at = "search" /\ r.ip = c.start + 1
                      /\ Len(page) >= MFLIMIT + 1 /\ ~(c.limit = "fill" /\ c.cap < 1)

\* A call begins within its room.
LEMMA BegunSound ==
  ASSUME NEW c \in CallRecords, CallSound(c), NEW page \in Seq(Byte), Len(page) = End(c) - c.start,
         LimitFits(c, Len(page)), NEW afterwards \in Purposes, NEW src \in Nat
  PROVE  Begun(LzBegun(c, page, afterwards, src), c, page, afterwards, src)
<1>1. PICK start \in Nat, end \in Nat, cap \in Nat, low \in Nat, f \in Nat, size \in Nat :
        /\ start = c.start /\ end = End(c) /\ cap = c.cap /\ low = c.low /\ f = MFLIMIT /\ size = Len(page)
  <2>1. c.start \in Nat /\ End(c) \in Nat /\ c.cap \in Nat /\ c.low \in Nat /\ MFLIMIT \in Nat
    BY EndIs, Sizes
  <2>2. Len(page) \in Nat
    OBVIOUS
  <2>3. QED
    BY <2>1, <2>2
<1>2. low <= start /\ start <= end /\ size = end - start
  BY <1>1 DEF CallSound
<1>3. PICK s : s = [at |-> "search", c |-> c, page |-> page, afterwards |-> afterwards, src |-> src,
                    anchor |-> start, ip |-> start + 1, step |-> 0, match |-> 0,
                    out |-> <<>>, top |-> 0, ok |-> FALSE, consumed |-> 0]
  OBVIOUS
<1>4. s \in WorkRecords
  <2>1. <<>> \in Seq(Int)
    BY NoBytes
  <2>2. PICK e \in Seq(Int) : e = <<>>
    BY <2>1
  <2>5. PICK ip \in Nat : ip = start + 1
    OBVIOUS
  <2>3. s = [at |-> "search", c |-> c, page |-> page, afterwards |-> afterwards, src |-> src,
             anchor |-> start, ip |-> ip, step |-> 0, match |-> 0,
             out |-> e, top |-> 0, ok |-> FALSE, consumed |-> 0]
    BY <1>3, <2>2, <2>5
  <2>4. QED
    BY ONLY <2>3, c \in CallRecords, page \in Seq(Byte), src \in Nat, start \in Nat, ip \in Nat, e \in Seq(Int),
            afterwards \in Purposes DEF WorkRecords
<1>5. /\ s.at = "search" /\ s.c = c /\ s.page = page /\ s.afterwards = afterwards /\ s.src = src
      /\ s.anchor = start /\ s.ip = start + 1 /\ s.out = <<>> /\ s.top = 0 /\ s.ok = FALSE
      /\ s.consumed = 0
  BY <1>3
<1>6. RoomSound(s)
  BY <1>1, <1>2, <1>5 DEF RoomSound, LimitFits
<1>7. PICK bound \in Nat : bound = LzCompressBound(size) /\ bound >= 2
  <2>1. PICK d \in Nat, g \in Nat : d = size \div ByteMax /\ g = LzBoundMargin /\ g >= 2
    BY Sizes, DivIs, RoomAssumption
  <2>2. LzCompressBound(size) = size + d + g
    BY <2>1, BoundIs
  <2>3. size + d + g \in Nat /\ size + d + g >= 2
    BY <2>1
  <2>4. QED
    BY <2>2, <2>3
<1>8. c.limit \in {"none", "limited", "fill"}
  BY DEF CallRecords
<1>9. LzBegun(c, page, afterwards, src) =
        IF c.limit # "none" /\ cap < 1 /\ (c.limit = "fill" \/ size = 0) THEN NoRoom(s)
        ELSE IF size = 0 THEN [s EXCEPT !.at = "done", !.ok = TRUE, !.out = <<0>>, !.top = 1]
        ELSE IF size < f + 1 THEN LastLiterals(s) ELSE s
  <2>1. size = End(c) - c.start
    BY <1>1
  <2>2. QED
    BY ONLY <1>1, <1>3, <2>1 DEF LzBegun
<1>10. CASE c.limit # "none" /\ cap < 1 /\ (c.limit = "fill" \/ size = 0)
  <2>1. cap < bound
    BY <1>7, <1>10
  <2>2. NoRoom(s) \in WorkRecords /\ SameCall(s, NoRoom(s)) /\ RoomSound(NoRoom(s)) /\ DoneSound(NoRoom(s))
    BY <1>1, <1>4, <1>5, <1>6, <1>7, <2>1, NoRoomSound
  <2>3. QED
    BY <1>5, <1>9, <1>10, <2>2 DEF Begun, Sound, SameCall, DoneSound
<1>11. CASE ~(c.limit # "none" /\ cap < 1 /\ (c.limit = "fill" \/ size = 0)) /\ size = 0
  <2>1. PICK r : r = [s EXCEPT !.at = "done", !.ok = TRUE, !.out = <<0>>, !.top = 1]
    OBVIOUS
  <2>2. r \in WorkRecords
    <3>1. PICK e \in Seq(Int) : e = <<0>>
      BY NoBytes
    <3>2. r = [s EXCEPT !.at = "done", !.ok = TRUE, !.out = e, !.top = 1]
      BY <2>1, <3>1
    <3>3. QED
      BY ONLY <3>2, <1>4, e \in Seq(Int) DEF WorkRecords
  <2>3. r.at = "done" /\ r.ok = TRUE /\ r.out = <<0>> /\ r.top = 1 /\ SameCall(s, r) /\ r.consumed = 0
    BY <2>1, <1>5, <1>4 DEF SameCall, WorkRecords
  <2>4. cap >= 1
    BY <1>1, <1>7, <1>8, <1>11 DEF LimitFits
  <2>5. RoomSound(r)
    BY <1>1, <1>5, <1>6, <2>3, <2>4 DEF RoomSound, SameCall
  <2>6. Len(<<0>>) = 1
    OBVIOUS
  <2>7. DoneSound(r)
    BY <1>1, <1>5, <1>11, <2>3, <2>4, <2>6 DEF DoneSound, SameCall
  <2>8. QED
    BY <1>5, <1>9, <1>11, <2>1, <2>2, <2>3, <2>5, <2>7 DEF Begun, Sound, SameCall
<1>12. ASSUME ~(c.limit # "none" /\ cap < 1 /\ (c.limit = "fill" \/ size = 0)), size # 0
       PROVE Paid(s)
  <2>1. c.limit = "fill" => 0 + 1 <= cap
    BY <1>12
  <2>2. Len(s.out) = 0 /\ s.anchor - c.start = 0
    BY <1>1, <1>5, NoBytes
  <2>3. 0 \div ByteMax \in Nat
    BY Sizes, DivIs
  <2>4. QED
    BY <1>1, <1>2, <1>5, <2>1, <2>2, <2>3 DEF Paid
<1>13. CASE ~(c.limit # "none" /\ cap < 1 /\ (c.limit = "fill" \/ size = 0)) /\ size # 0 /\ size < f + 1
  <2>1. /\ LastLiterals(s) \in WorkRecords /\ SameCall(s, LastLiterals(s))
        /\ RoomSound(LastLiterals(s)) /\ DoneSound(LastLiterals(s))
    BY <1>4, <1>5, <1>6, <1>12, <1>13, LastLiteralsSound
  <2>2. QED
    BY <1>5, <1>9, <1>13, <2>1 DEF Begun, Sound, SameCall, DoneSound
<1>14. CASE ~(c.limit # "none" /\ cap < 1 /\ (c.limit = "fill" \/ size = 0)) /\ size # 0 /\ ~(size < f + 1)
  <2>1. s.anchor < s.ip /\ s.anchor <= s.ip
    BY <1>5
  <2>2. MfLimitPlusOne(c) = end - f + 1
    BY <1>1 DEF MfLimitPlusOne
  <2>3. start + 1 <= end - f + 1
    BY ONLY <1>2, <1>14, start \in Nat, end \in Nat, f \in Nat, size \in Nat
  <2>4. LoopSound(s)
    BY <1>5, <1>12, <1>14, <2>1, <2>2, <2>3 DEF LoopSound
  <2>5. Len(page) >= MFLIMIT + 1 /\ ~(c.limit = "fill" /\ c.cap < 1)
    BY <1>1, <1>14
  <2>6. QED
    BY <1>1, <1>4, <1>5, <1>6, <1>9, <1>14, <2>4, <2>5 DEF Begun, Sound
<1>15. QED
  BY <1>10, <1>11, <1>13, <1>14 DEF Begun

\* What becomes of the state when a call begins.
LEMMA EnteredIs ==
  ASSUME NEW s \in StreamStates, NEW c \in CallRecords, CallSound(c), s.dictSize <= s.offset,
         NEW size, size = End(c) - c.start
  PROVE  /\ size \in Nat
         /\ Entered(s, c) \in StreamStates
         /\ size = 0 \/ (c.limit = "fill" /\ c.cap < 1) => Entered(s, c) = s
         /\ ~(size = 0 \/ (c.limit = "fill" /\ c.cap < 1)) =>
               /\ Entered(s, c).offset = s.offset + size
               /\ Entered(s, c).type = c.type
               /\ Entered(s, c).dictAt = s.dictAt
               /\ Entered(s, c).dictSize = IF c.dictTable # <<>> THEN size ELSE s.dictSize + size
               /\ Entered(s, c).ctx = (s.ctx /\ c.dictTable = <<>>)
               /\ Entered(s, c).table = IF size < MFLIMIT + 1 THEN s.table
                                        ELSE PutIndex(c.type, s.table, HashAt(c, c.start), c.start)
         /\ Entered(s, c).dictSize <= Entered(s, c).offset
<1>1. PICK start \in Nat, end \in Nat, low \in Nat, f \in Nat, mm \in Nat :
        /\ start = c.start /\ end = End(c) /\ low = c.low /\ f = MFLIMIT /\ mm = MINMATCH
  BY EndIs, Sizes
<1>2. low <= start /\ start <= end /\ size = end - start
  BY <1>1 DEF CallSound
<1>3. size \in Nat
  BY <1>2
<1>4. f >= mm + 1
  BY <1>1, Sizes
<1>5. CASE size = 0 \/ (c.limit = "fill" /\ c.cap < 1)
  BY <1>3, <1>5 DEF Entered
<1>6. CASE ~(size = 0 \/ (c.limit = "fill" /\ c.cap < 1))
  <2>1. PICK offset \in Nat, dictSize \in Nat, dictAt \in Nat, ctx \in BOOLEAN, table \in Tables :
          /\ offset = s.offset /\ dictSize = s.dictSize /\ dictAt = s.dictAt /\ ctx = s.ctx /\ table = s.table
    BY DEF StreamStates
  <2>2. c.type \in {Cleared, ByU16, ByU32}
    BY DEF CallRecords
  <2>3. PICK o \in Nat, d \in Nat, x \in BOOLEAN :
          /\ o = offset + size
          /\ d = IF c.dictTable # <<>> THEN size ELSE dictSize + size
          /\ x = (ctx /\ c.dictTable = <<>>)
    <3>1. offset + size \in Nat /\ dictSize + size \in Nat
      BY <1>3
    <3>2. (ctx /\ c.dictTable = <<>>) \in BOOLEAN
      OBVIOUS
    <3>3. QED
      BY <1>3, <3>1, <3>2
  <2>4. d <= o
    BY <2>1, <2>3, <1>3
  <2>6. PICK t \in Tables :
           t = IF size < f + 1 THEN table ELSE PutIndex(c.type, table, HashAt(c, c.start), c.start)
    <3>1. PutIndex(c.type, table, HashAt(c, c.start), c.start) \in Tables
      BY <1>1, PutIs
    <3>2. QED
      BY <3>1
  <2>7. PICK r : r = [s EXCEPT !.table = t, !.offset = o, !.type = c.type, !.dictSize = d, !.ctx = x]
    OBVIOUS
  <2>8. Entered(s, c) = r
    <3>1. size = End(c) - c.start
      BY <1>1, <1>2
    <3>2. Entered(s, c) = [s EXCEPT !.table = IF size < MFLIMIT + 1 THEN @
                                              ELSE PutIndex(c.type, @, HashAt(c, c.start), c.start),
                                    !.offset = @ + size,
                                    !.type = c.type,
                                    !.dictSize = IF c.dictTable # <<>> THEN size ELSE @ + size,
                                    !.ctx = @ /\ c.dictTable = <<>>]
      BY ONLY <3>1, <1>6 DEF Entered
    <3>3. QED
      BY <3>2, <2>1, <2>3, <2>6, <2>7, <1>1 DEF StreamStates
  <2>9. r \in StreamStates
    BY <2>2, <2>7 DEF StreamStates
  <2>10. r.table = t /\ r.offset = o /\ r.type = c.type /\ r.dictSize = d /\ r.ctx = x /\ r.dictAt = dictAt
    BY <2>7, <2>1 DEF StreamStates
  <2>11. QED
    BY <1>1, <1>3, <1>6, <2>1, <2>3, <2>4, <2>6, <2>8, <2>9, <2>10
<1>7. QED
  BY <1>5, <1>6

-----------------------------------------------------------------------------
(* The states that calls begin with. *)

\* What is assumed of the window, in the form that the proofs use.
LEMMA WindowIs ==
  /\ Window \in Nat \ {0} /\ DistanceMax = Window - 1 /\ U16Max = Window - 1
  /\ {HashUnit, IndexMax, RenormMax, SmallPage, Lz4Memory} \subseteq Nat
  /\ HashUnit > MINMATCH /\ Window >= HashUnit /\ RenormMax >= IndexMax /\ IndexMax > 2 * Window
  BY WindowAssumption

\* The state that LZ4_initStream leaves.
LEMMA EmptyIs ==
  /\ EmptyTable \in Tables
  /\ \A h \in Cells : EmptyTable[h] = 0
  /\ FreshStream \in StreamStates
  /\ FreshStream.table = EmptyTable /\ FreshStream.offset = 0 /\ FreshStream.type = Cleared
  /\ FreshStream.dictAt = Nowhere /\ FreshStream.dictSize = 0 /\ FreshStream.ctx = FALSE
<1>1. EmptyTable \in Tables
  BY DEF EmptyTable, Tables, Cells
<1>2. \A h \in Cells : EmptyTable[h] = 0
  BY DEF EmptyTable, Cells
<1>3. PICK t \in Tables : t = EmptyTable
  BY <1>1
<1>4. FreshStream = [table |-> t, offset |-> 0, type |-> Cleared, dictAt |-> 0, dictSize |-> 0, ctx |-> FALSE]
  BY <1>3 DEF FreshStream, Nowhere
<1>5. QED
  BY <1>2, <1>3, <1>4 DEF StreamStates, Nowhere

\* LZ4_prepareTable: what it leaves in the table is too far away to be used, or there is
\* no history with indices of 16 bits.
LEMMA PrepareIs ==
  ASSUME NEW s \in StreamStates, Behind(s.table, s.offset), NEW size \in Nat, NEW type \in {ByU16, ByU32}
  PROVE  LET r == PrepareTable(s, size, type) IN
         /\ r \in StreamStates /\ r.dictSize = 0 /\ r.dictAt = Nowhere /\ r.ctx = FALSE
         /\ Behind(r.table, r.offset)
         /\ r.offset = 0 => \A h \in Cells : r.table[h] = 0
         /\ type = ByU32 => /\ r.offset = 0 \/ r.offset >= Window
                            /\ \A h \in Cells : r.table[h] = 0 \/ r.table[h] + MINMATCH + Window <= r.offset
<1>1. PICK w \in Nat \ {0}, mm \in Nat \ {0} : w = Window /\ mm = MINMATCH
  BY WindowIs, Sizes
<1>2. PICK reset \in BOOLEAN :
        reset <=> /\ s.type # Cleared
                  /\ \/ s.type # type
                     \/ type = ByU16 /\ s.offset + size >= U16Max
                     \/ type = ByU32 /\ s.offset > IndexMax
                     \/ size >= SmallPage
  OBVIOUS
<1>3. PICK table \in Tables, offset \in Nat, kind \in {Cleared, ByU16, ByU32} :
        /\ table = IF reset THEN EmptyTable ELSE s.table
        /\ offset = IF reset THEN 0 ELSE s.offset
        /\ kind = IF reset THEN Cleared ELSE s.type
  BY EmptyIs DEF StreamStates
<1>4. Behind(table, offset)
  BY <1>3, EmptyIs DEF Behind
<1>5. PICK o \in Nat : o = IF offset # 0 /\ type = ByU32 THEN offset + w ELSE offset
  <2>1. offset + w \in Nat
    OBVIOUS
  <2>2. QED
    BY <2>1
<1>6. PICK t : t = [s EXCEPT !.table = table, !.offset = offset, !.type = kind]
  OBVIOUS
<1>7. t = IF reset THEN [s EXCEPT !.table = EmptyTable, !.offset = 0, !.type = Cleared] ELSE s
  BY <1>3, <1>6 DEF StreamStates
<1>8. t \in StreamStates /\ t.offset = offset /\ t.table = table
  BY <1>6 DEF StreamStates
<1>9. PICK r : r = [t EXCEPT !.offset = o, !.dictAt = 0, !.dictSize = 0, !.ctx = FALSE]
  OBVIOUS
<1>10. PrepareTable(s, size, type) = r
  <2>1. r = [t EXCEPT !.offset = IF @ # 0 /\ type = ByU32 THEN @ + Window ELSE @,
                      !.dictAt = Nowhere, !.dictSize = 0, !.ctx = FALSE]
    BY <1>1, <1>5, <1>8, <1>9 DEF Nowhere, StreamStates
  <2>2. QED
    BY ONLY <2>1, <1>2, <1>7 DEF PrepareTable
<1>11. /\ r \in StreamStates /\ r.dictSize = 0 /\ r.dictAt = Nowhere /\ r.ctx = FALSE
       /\ r.offset = o /\ r.table = table
  BY <1>8, <1>9 DEF StreamStates, Nowhere
<1>12. ASSUME NEW h \in Cells
       PROVE  /\ table[h] = 0 \/ table[h] + mm <= o
              /\ o = 0 => table[h] = 0
              /\ type = ByU32 => table[h] = 0 \/ table[h] + mm + w <= o
  <2>1. PICK v \in Nat : v = table[h]
    BY DEF Tables
  <2>2. v = 0 \/ v + mm <= offset
    BY <1>1, <1>4, <2>1 DEF Behind
  <2>3. QED
    BY <1>5, <2>1, <2>2
<1>13. type = ByU32 => o = 0 \/ o >= w
  BY <1>5
<1>14. QED
  BY <1>1, <1>10, <1>11, <1>12, <1>13 DEF Behind

\* LZ4_loadDict: its entries lie in the dictionary, with room for a match.
LEMMA LoadedIs ==
  ASSUME NEW bytes \in Seq(Byte), NEW at \in Nat, NEW slow \in BOOLEAN
  PROVE  LET r == LoadedDict(bytes, at, slow) IN
         /\ r \in StreamStates /\ r.offset = Window /\ r.ctx = FALSE
         /\ r.dictSize <= Window /\ r.dictSize <= Len(bytes)
         /\ IF r.dictSize = 0 THEN r.dictAt = Nowhere
            ELSE r.dictAt = at + Len(bytes) - r.dictSize /\ r.dictSize > MINMATCH
         /\ \A h \in Cells : r.table[h] = 0 \/ (Window - r.dictSize <= r.table[h] /\ r.table[h] + MINMATCH <= Window)
<1>1. PICK w \in Nat \ {0}, mm \in Nat \ {0}, u \in Nat, l \in Nat :
         w = Window /\ mm = MINMATCH /\ u = HashUnit /\ l = Len(bytes)
  <2>1. Len(bytes) \in Nat
    OBVIOUS
  <2>2. QED
    BY <2>1, WindowIs, Sizes
<1>5. u > mm /\ w >= u
  BY <1>1, WindowIs
<1>2. CASE l < u
  <2>1. PICK r : r = [FreshStream EXCEPT !.offset = w]
    OBVIOUS
  <2>2. LoadedDict(bytes, at, slow) = r
    BY <1>1, <1>2, <2>1 DEF LoadedDict
  <2>3. r \in StreamStates /\ r.offset = w /\ r.ctx = FALSE /\ r.dictSize = 0 /\ r.dictAt = Nowhere
        /\ r.table = EmptyTable
    BY <2>1, EmptyIs DEF StreamStates
  <2>4. QED
    BY <1>1, <2>2, <2>3, EmptyIs
<1>3. CASE l >= u
  <2> DEFINE dict == LastOf(bytes, Window)
  <2>1. PICK d \in Nat : d = Len(dict) /\ d = (IF l <= w THEN l ELSE w)
    <3>1. PICK b \in Nat : b = MAX(l - w, 0) /\ b <= l /\ l - b = (IF l <= w THEN l ELSE w)
      <4>1. CASE l - w > 0
        <5>1. MAX(l - w, 0) = l - w
          BY <4>1 DEF MAX
        <5>2. l - w \in Nat /\ l - w <= l /\ ~(l <= w) /\ l - (l - w) = w
          BY <4>1
        <5>3. QED
          BY <5>1, <5>2
      <4>2. CASE ~(l - w > 0)
        <5>1. MAX(l - w, 0) = 0
          BY <4>2 DEF MAX
        <5>2. l <= w
          BY <4>2
        <5>3. QED
          BY <5>1, <5>2
      <4>3. QED
        BY <4>1, <4>2
    <3>2. dict = SubSeq(bytes, b + 1, l)
      BY <1>1, <3>1 DEF LastOf
    <3>3. b + 1 \in 1 .. l + 1
      BY <3>1
    <3>4. Len(SubSeq(bytes, b + 1, l)) = l - b
      BY <1>1, <3>1
    <3>5. l - b \in Nat
      BY <3>1
    <3>6. QED
      BY <3>1, <3>2, <3>4, <3>5
  <2>2. PICK first \in Nat : first = w - d
    <3>1. w - d \in Nat
      BY <2>1
    <3>2. QED
      BY <3>1
  <2> DEFINE c         == [low |-> first, bytes |-> dict, type |-> ByU32]
             all(h)    == {p \in 0 .. d - u : HashAt(c, first + p) = h}
             third(h)  == {p \in all(h) : p % 3 = 0}
             others(h) == {p \in all(h) : first + p # 0}
             fast(h)   == IF third(h) = {} THEN 0 ELSE first + Max(third(h))
             cell(h)   == IF slow /\ fast(h) = 0 /\ others(h) # {} THEN first + Min(others(h)) ELSE fast(h)
             In(v)     == v \in Nat /\ (v = 0 \/ (first <= v /\ v + u <= w))
  <2>3. ASSUME NEW p \in 0 .. d - u PROVE In(first + p)
    <3>1. first + p \in Nat /\ first <= first + p /\ first + p + u <= w
      BY ONLY <2>2, p \in 0 .. d - u, first \in Nat, d \in Nat, u \in Nat, w \in Nat
    <3>2. QED
      BY <3>1
  <2>4. ASSUME NEW h \in Cells PROVE In(cell(h))
    <3>1. \A p \in all(h) : p \in 0 .. d - u
      OBVIOUS
    <3>2. third(h) # {} => Max(third(h)) \in 0 .. d - u
      <4>1. third(h) \in SUBSET Nat /\ (\A x \in third(h) : x \in all(h) /\ x <= d - u)
        OBVIOUS
      <4>2. d - u \in Int
        OBVIOUS
      <4>3. third(h) # {} => Max(third(h)) \in third(h)
        <5> HIDE DEF third
        <5>1. QED
          BY <4>1, <4>2, MaxOf
      <4>4. \A x \in third(h) : x \in 0 .. d - u
        OBVIOUS
      <4>5. QED
        <5> HIDE DEF third
        <5>1. QED
          BY <4>3, <4>4
    <3>3. others(h) # {} => Min(others(h)) \in 0 .. d - u
      <4>1. others(h) \in SUBSET Nat /\ (\A x \in others(h) : x \in 0 .. d - u)
        OBVIOUS
      <4>2. QED
        <5> HIDE DEF others
        <5>1. QED
          BY <4>1, MinOf
    <3>4. In(fast(h))
      <4> HIDE DEF third, In
      <4>1. CASE third(h) = {}
        BY <4>1 DEF In
      <4>2. CASE third(h) # {}
        BY <4>2, <3>2, <2>3
      <4>3. QED
        BY <4>1, <4>2
    <3>5. CASE slow /\ fast(h) = 0 /\ others(h) # {}
      <4>1. cell(h) = first + Min(others(h))
        BY <3>5
      <4>2. QED
        <5> HIDE DEF others, In, cell
        <5>1. QED
          BY <3>5, <4>1, <3>3, <2>3
    <3>6. CASE ~(slow /\ fast(h) = 0 /\ others(h) # {})
      <4>1. cell(h) = fast(h)
        BY <3>6
      <4>2. QED
        <5> HIDE DEF cell, fast, In
        <5>1. QED
          BY <3>4, <4>1
    <3>7. QED
      BY <3>5, <3>6
  <2>5. PICK table : table = [h \in Cells |-> cell(h)]
    OBVIOUS
  <2>6. table \in Tables /\ \A h \in Cells : In(table[h])
    <3>1. \A h \in Cells : table[h] = cell(h)
      <4> HIDE DEF cell
      <4>1. QED
        BY <2>5
    <3>2. \A h \in Cells : In(table[h]) /\ table[h] \in Nat
      <4> HIDE DEF cell
      <4>1. \A h \in Cells : In(table[h])
        <5> HIDE DEF In
        <5>1. QED
          BY <2>4, <3>1
      <4>2. QED
        BY <4>1
    <3>3. table = [h \in Cells |-> table[h]]
      <4> HIDE DEF cell
      <4>1. QED
        BY <2>5
    <3>4. QED
      BY <3>2, <3>3 DEF Tables
  <2>7. PICK ad \in Nat : ad = at + l - d
    <3>1. at + l - d \in Nat
      BY <2>1
    <3>2. QED
      BY <3>1
  <2>8. PICK r : r = [FreshStream EXCEPT !.table = table, !.offset = w, !.type = ByU32, !.dictSize = d, !.dictAt = ad]
    OBVIOUS
  <2>9. LoadedDict(bytes, at, slow) = r
    <3>1. DOMAIN FreshStream.table = Cells
      BY EmptyIs DEF Tables
    <3>2. ~(Len(bytes) < HashUnit) /\ Len(dict) = d /\ first = Window - Len(dict)
      BY <1>1, <1>3, <2>1, <2>2
    <3>3. r = [FreshStream EXCEPT !.table = [h \in DOMAIN @ |-> cell(h)], !.offset = Window,
                                  !.type = ByU32, !.dictSize = Len(dict),
                                  !.dictAt = at + Len(bytes) - Len(dict)]
      <4> HIDE DEF cell, dict
      <4>1. QED
        BY <3>1, <3>2, <2>5, <2>7, <2>8, <1>1 DEF FreshStream
    <3>4. QED
      BY <3>2, <3>3, <1>1 DEF LoadedDict
  <2>10. /\ r \in StreamStates /\ r.offset = w /\ r.ctx = FALSE /\ r.dictSize = d /\ r.dictAt = ad /\ r.table = table
    BY <2>6, <2>8, EmptyIs DEF StreamStates
  <2>11. d <= w /\ d <= l /\ d > mm /\ d # 0
    BY <1>3, <1>5, <2>1
  <2>12. ASSUME NEW h \in Cells PROVE table[h] = 0 \/ (w - d <= table[h] /\ table[h] + mm <= w)
    <3>1. PICK v \in Nat : v = table[h] /\ (v = 0 \/ (first <= v /\ v + u <= w))
      BY <2>6
    <3>2. QED
      BY <3>1, <2>2, <1>5
  <2>13. r.dictAt = at + l - d
    BY <2>7, <2>10
  <2> HIDE DEF dict, c, all, third, others, fast, cell, In
  <2>14. QED
    BY <1>1, <2>9, <2>10, <2>11, <2>12, <2>13
<1>4. l < u \/ l >= u
  OBVIOUS
<1>6. QED
  BY ONLY <1>2, <1>3, <1>4

\* The last bytes of some.
LEMMA LastOfIs ==
  ASSUME NEW bytes \in Seq(Byte), NEW n \in Nat, n <= Len(bytes)
  PROVE  LastOf(bytes, n) \in Seq(Byte) /\ Len(LastOf(bytes, n)) = n
<1>1. PICK l \in Nat : l = Len(bytes)
  OBVIOUS
<1>2. PICK b \in Nat : b = l - n
  <2>1. l - n \in Nat
    BY <1>1
  <2>2. QED
    BY <2>1
<1>3. MAX(l - n, 0) = b
  BY <1>2 DEF MAX
<1>4. LastOf(bytes, n) = SubSeq(bytes, b + 1, l)
  BY <1>1, <1>3 DEF LastOf
<1>5. \A i \in (b + 1) .. l : i \in 1 .. Len(bytes)
  BY <1>1
<1>6. b + 1 \in 1 .. Len(bytes) + 1 /\ l \in b .. Len(bytes)
  BY <1>1, <1>2
<1>7. SubSeq(bytes, b + 1, l) \in Seq(Byte) /\ Len(SubSeq(bytes, b + 1, l)) = l - b
  BY <1>1, <1>2, <1>5, <1>6, SubSeqProperties
<1>8. QED
  BY <1>2, <1>4, <1>7

\* The dictionary that may be attached.
LEMMA DictIs ==
  /\ DictCtx \in StreamStates /\ DictCtx.offset = Window /\ DictCtx.ctx = FALSE
  /\ DictCtx.dictSize <= Window /\ DictCtx.dictSize <= Len(Dictionary)
  /\ DictCtx.dictSize # 0 => DictCtx.dictSize > MINMATCH
  /\ \A h \in Cells : DictCtx.table[h] = 0 \/ (Window - DictCtx.dictSize <= DictCtx.table[h]
                                               /\ DictCtx.table[h] + MINMATCH <= Window)
  /\ DictBytes \in Seq(Byte) /\ Len(DictBytes) = DictCtx.dictSize
  /\ Dictionary \in Seq(Byte)
<1>1. Dictionary \in Seq(Byte) /\ Nowhere \in Nat /\ FALSE \in BOOLEAN
  BY CallsAssumption DEF Nowhere
<1>2. /\ DictCtx \in StreamStates /\ DictCtx.offset = Window /\ DictCtx.ctx = FALSE
      /\ DictCtx.dictSize <= Window /\ DictCtx.dictSize <= Len(Dictionary)
      /\ IF DictCtx.dictSize = 0 THEN DictCtx.dictAt = Nowhere
         ELSE DictCtx.dictAt = Nowhere + Len(Dictionary) - DictCtx.dictSize /\ DictCtx.dictSize > MINMATCH
      /\ \A h \in Cells : DictCtx.table[h] = 0 \/ (Window - DictCtx.dictSize <= DictCtx.table[h]
                                               /\ DictCtx.table[h] + MINMATCH <= Window)
  BY <1>1, LoadedIs DEF DictCtx
<1>3. PICK d \in Nat, l \in Nat : d = DictCtx.dictSize /\ l = Len(Dictionary) /\ d <= l
  BY <1>1, <1>2 DEF StreamStates
<1>4. DictBytes \in Seq(Byte) /\ Len(DictBytes) = d
  BY <1>1, <1>3, LastOfIs DEF DictBytes
<1>5. QED
  BY <1>1, <1>2, <1>3, <1>4

\* LZ4_renormDictT
LEMMA RenormIs ==
  ASSUME NEW s \in StreamStates, Behind(s.table, s.offset), s.dictSize <= s.offset, Ready(s),
         NEW size \in Nat, size + Window <= RenormMax
  PROVE  LET r == RenormDict(s, size) IN
         /\ r \in StreamStates /\ Behind(r.table, r.offset) /\ r.dictSize <= r.offset /\ Ready(r)
<1>1. PICK w \in Nat \ {0}, mm \in Nat \ {0}, rm \in Nat : w = Window /\ mm = MINMATCH /\ rm = RenormMax
  BY WindowIs, Sizes
<1>2. PICK offset \in Nat, dictSize \in Nat, dictAt \in Nat, table \in Tables :
         offset = s.offset /\ dictSize = s.dictSize /\ dictAt = s.dictAt /\ table = s.table
  BY DEF StreamStates
<1>3. CASE s.offset + size <= RenormMax
  BY <1>3 DEF RenormDict
<1>4. CASE ~(s.offset + size <= RenormMax)
  <2>1. offset > w
    BY <1>1, <1>2, <1>4
  <2>2. PICK delta \in Nat \ {0} : delta = offset - w
    <3>1. offset - w \in Nat \ {0}
      BY <2>1
    <3>2. QED
      BY <3>1
  <2>3. PICK kept \in Nat : kept = MIN(dictSize, w) /\ kept <= dictSize /\ kept <= w /\ (dictSize = 0 => kept = 0)
                            /\ (kept = 0 => dictSize = 0)
    BY DEF MIN
  <2>4. PICK ad \in Nat : ad = dictAt + dictSize - kept
    <3>1. dictAt + dictSize - kept \in Nat
      BY <2>3
    <3>2. QED
      BY <3>1
  <2>5. PICK t : t = [h \in Cells |-> IF table[h] < delta THEN 0 ELSE table[h] - delta]
    OBVIOUS
  <2>6. ASSUME NEW h \in Cells PROVE t[h] \in Nat /\ (t[h] = 0 \/ t[h] + mm <= w)
    <3>1. PICK v \in Nat : v = table[h]
      BY DEF Tables
    <3>2. v = 0 \/ v + mm <= offset
      BY <1>1, <1>2, <3>1 DEF Behind
    <3>3. t[h] = IF v < delta THEN 0 ELSE v - delta
      BY <2>5, <3>1
    <3>4. CASE v < delta
      BY <3>3, <3>4
    <3>5. CASE ~(v < delta)
      <4>1. t[h] = v - delta /\ v - delta \in Nat /\ v # 0
        BY <3>3, <3>5
      <4>2. v - delta + mm <= w
        BY <3>2, <4>1, <2>2
      <4>3. QED
        BY <4>1, <4>2
    <3>6. QED
      BY <3>4, <3>5
  <2>7. t \in Tables
    BY <2>5, <2>6 DEF Tables
  <2>8. PICK r : r = [s EXCEPT !.table = t, !.offset = w, !.dictAt = ad, !.dictSize = kept]
    OBVIOUS
  <2>9. RenormDict(s, size) = r
    <3>1. DOMAIN s.table = Cells
      BY <1>2 DEF Tables
    <3>2. r = [s EXCEPT !.table = [h \in DOMAIN @ |-> IF @[h] < delta THEN 0 ELSE @[h] - delta],
                        !.offset = Window, !.dictAt = @ + s.dictSize - kept, !.dictSize = kept]
      BY <1>1, <1>2, <2>4, <2>5, <2>8, <3>1 DEF StreamStates
    <3>3. delta = s.offset - Window /\ kept = MIN(s.dictSize, Window)
      BY <1>1, <1>2, <2>2, <2>3
    <3>4. QED
      BY ONLY <3>2, <3>3, <1>4 DEF RenormDict
  <2>10. r \in StreamStates /\ r.table = t /\ r.offset = w /\ r.dictAt = ad /\ r.dictSize = kept /\ r.ctx = s.ctx
    BY <2>7, <2>8 DEF StreamStates
  <2>11. Behind(r.table, r.offset)
    BY <2>6, <2>10, <1>1 DEF Behind
  <2>12. Ready(r)
    <3>1. PICK lm \in Nat : lm = Lz4Memory
      BY WindowIs
    <3>2. /\ dictSize > 0 => dictAt >= 1 /\ dictAt + dictSize <= lm + 1
          /\ s.ctx => dictSize = 0 /\ DictCtx.dictSize # 0
      BY <1>2, <3>1 DEF Ready
    <3>3. kept > 0 => ad >= 1 /\ ad + kept <= lm + 1
      BY <3>2, <2>3, <2>4
    <3>4. s.ctx => kept = 0 /\ DictCtx.dictSize # 0
      BY <3>2, <2>3
    <3>5. w >= w
      OBVIOUS
    <3>6. QED
      BY <3>1, <3>3, <3>4, <3>5, <2>10, <1>1 DEF Ready
  <2>13. QED
    BY <2>3, <2>9, <2>10, <2>11, <2>12
<1>5. QED
  BY <1>3, <1>4

\* A dictionary too small to be of use is dropped.
LEMMA TinyIs ==
  ASSUME NEW s \in StreamStates, s.dictSize <= s.offset, Ready(s), NEW src \in Nat \ {0}, NEW size \in Nat
  PROVE  LET r == WithoutTiny(s, src, size) IN
         /\ r \in StreamStates /\ r.table = s.table /\ r.offset = s.offset /\ r.ctx = s.ctx
         /\ r.dictSize <= r.offset /\ Ready(r)
         /\ ~r.ctx /\ size > 0 /\ r.dictAt + r.dictSize # src => r.dictSize >= MINMATCH
<1>1. PICK mm \in Nat \ {0}, dictSize \in Nat, dictAt \in Nat, offset \in Nat :
         mm = MINMATCH /\ dictSize = s.dictSize /\ dictAt = s.dictAt /\ offset = s.offset
  BY Sizes DEF StreamStates
<1>2. CASE s.dictSize < MINMATCH /\ DictEnd(s) # src /\ size > 0 /\ ~s.ctx
  <2>1. PICK r : r = [s EXCEPT !.dictSize = 0, !.dictAt = src]
    OBVIOUS
  <2>2. WithoutTiny(s, src, size) = r
    BY <1>2, <2>1 DEF WithoutTiny
  <2>3. /\ r \in StreamStates /\ r.table = s.table /\ r.offset = s.offset /\ r.ctx = s.ctx
        /\ r.dictSize = 0 /\ r.dictAt = src
    BY <2>1 DEF StreamStates
  <2>4. Ready(r)
    BY <1>2, <2>3 DEF Ready, Nowhere
  <2>5. r.dictAt + r.dictSize = src
    BY <2>3
  <2>6. QED
    BY <1>1, <2>2, <2>3, <2>4, <2>5
<1>3. CASE ~(s.dictSize < MINMATCH /\ DictEnd(s) # src /\ size > 0 /\ ~s.ctx)
  <2>1. WithoutTiny(s, src, size) = s
    BY <1>3 DEF WithoutTiny
  <2>2. ASSUME ~s.ctx, size > 0, s.dictAt + s.dictSize # src PROVE s.dictSize >= MINMATCH
    <3>1. DictEnd(s) # src
      BY <2>2 DEF DictEnd, Nowhere
    <3>2. ~(s.dictSize < MINMATCH)
      BY <1>3, <2>2, <3>1
    <3>3. QED
      BY <3>2, <1>1
  <2>3. QED
    BY <2>1, <2>2
<1>4. QED
  BY <1>2, <1>3

\* The beginning of a dictionary that the block has overwritten is cut off.
LEMMA OverlapIs ==
  ASSUME NEW s \in StreamStates, s.dictSize <= s.offset, Ready(s), NEW end \in Nat
  PROVE  LET r == WithoutOverlap(s, end) IN
         /\ r \in StreamStates /\ r.table = s.table /\ r.offset = s.offset /\ r.ctx = s.ctx
         /\ r.dictSize <= r.offset /\ Ready(r)
         /\ r = s \/ r.dictSize = 0 \/ r.dictSize >= MINMATCH
         /\ r.dictAt = s.dictAt \/ r.dictAt >= 1
<1>1. PICK w \in Nat \ {0}, mm \in Nat \ {0}, dictSize \in Nat, dictAt \in Nat, offset \in Nat, lm \in Nat :
         /\ w = Window /\ mm = MINMATCH /\ dictSize = s.dictSize /\ dictAt = s.dictAt /\ offset = s.offset
         /\ lm = Lz4Memory
  BY WindowIs, Sizes DEF StreamStates
<1>2. CASE end > s.dictAt /\ end < DictEnd(s)
  <2>1. dictSize # 0 /\ DictEnd(s) = dictAt + dictSize
    BY <1>1, <1>2 DEF DictEnd, Nowhere
  <2>2. PICK rest \in Nat : rest = MIN(dictAt + dictSize - end, w) /\ rest <= dictAt + dictSize - end /\ rest < dictSize
    <3>1. PICK x \in Nat : x = dictAt + dictSize - end /\ x < dictSize
      <4>1. dictAt + dictSize - end \in Nat /\ dictAt + dictSize - end < dictSize
        BY <1>1, <1>2, <2>1
      <4>2. QED
        BY <4>1
    <3>2. QED
      BY <3>1 DEF MIN
  <2>3. PICK kept \in Nat : kept = (IF rest < mm THEN 0 ELSE rest) /\ kept <= rest /\ (kept = 0 \/ kept >= mm)
    OBVIOUS
  <2>4. PICK ad \in Nat : ad = dictAt + dictSize - kept /\ ad >= dictAt
    <3>1. dictAt + dictSize - kept \in Nat /\ dictAt + dictSize - kept >= dictAt
      BY <2>2, <2>3
    <3>2. QED
      BY <3>1
  <2>5. PICK r : r = [s EXCEPT !.dictSize = kept, !.dictAt = ad]
    OBVIOUS
  <2>6. WithoutOverlap(s, end) = r
    <3>1. rest = MIN(DictEnd(s) - end, Window) /\ ad = DictEnd(s) - kept /\ kept = (IF rest < MINMATCH THEN 0 ELSE rest)
      BY <1>1, <2>1, <2>2, <2>3, <2>4
    <3>2. QED
      BY ONLY <3>1, <2>5, <1>2 DEF WithoutOverlap
  <2>7. /\ r \in StreamStates /\ r.table = s.table /\ r.offset = s.offset /\ r.ctx = s.ctx
        /\ r.dictSize = kept /\ r.dictAt = ad
    BY <2>5 DEF StreamStates
  <2>8. dictAt >= 1 /\ dictAt + dictSize <= lm + 1
    BY <1>1, <2>1 DEF Ready
  <2>9. ~s.ctx
    BY <1>1, <2>1 DEF Ready
  <2>10. ad >= 1 /\ ad + kept <= lm + 1
    BY <2>4, <2>8
  <2>11. Ready(r)
    BY <2>7, <2>9, <2>10, <1>1 DEF Ready, Nowhere
  <2>12. kept <= offset
    BY <1>1, <2>2, <2>3
  <2>13. QED
    BY <1>1, <2>3, <2>6, <2>7, <2>10, <2>11, <2>12
<1>3. CASE ~(end > s.dictAt /\ end < DictEnd(s))
  BY <1>3 DEF WithoutOverlap
<1>4. QED
  BY <1>2, <1>3

-----------------------------------------------------------------------------
(* Memory. *)

\* Memory in which bytes have been written.
LEMMA WrittenIs ==
  ASSUME NEW memory \in Memories, NEW at \in Nat, NEW bytes \in Seq(Byte)
  PROVE  Written(memory, at, bytes) \in Memories
<1>1. PICK l \in Nat : l = Len(bytes)
  OBVIOUS
<1>2. DOMAIN memory = 1 .. Lz4Memory
  BY DEF Memories
<1>3. Written(memory, at, bytes) =
        [a \in 1 .. Lz4Memory |-> IF a \in at .. at + l - 1 THEN bytes[a - at + 1] ELSE memory[a]]
  BY <1>1, <1>2 DEF Written
<1>4. ASSUME NEW a \in 1 .. Lz4Memory
      PROVE (IF a \in at .. at + l - 1 THEN bytes[a - at + 1] ELSE memory[a]) \in Byte
  <2>1. CASE a \in at .. at + l - 1
    <3>1. a - at + 1 \in 1 .. l
      BY <2>1
    <3>2. QED
      BY <1>1, <2>1, <3>1
  <2>2. CASE ~(a \in at .. at + l - 1)
    BY <2>2 DEF Memories
  <2>3. QED
    BY <2>1, <2>2
<1>5. QED
  BY <1>3, <1>4 DEF Memories

\* The bytes at an address.
LEMMA BytesAtIs ==
  ASSUME NEW memory \in Memories, NEW at \in Nat, NEW n \in Nat, n > 0 => at >= 1 /\ at + n <= Lz4Memory + 1
  PROVE  BytesAt(memory, at, n) \in Seq(Byte) /\ Len(BytesAt(memory, at, n)) = n
<1>1. PICK lm \in Nat : lm = Lz4Memory
  BY WindowIs
<1>2. \A i \in 1 .. n : at + i - 1 \in 1 .. lm
  BY <1>1
<1>3. \A i \in 1 .. n : memory[at + i - 1] \in Byte
  BY <1>1, <1>2 DEF Memories
<1>4. BytesAt(memory, at, n) = [i \in 1 .. n |-> memory[at + i - 1]]
  BY DEF BytesAt
<1>5. BytesAt(memory, at, n) \in [1 .. n -> Byte]
  BY <1>3, <1>4
<1>6. QED
  BY <1>5

-----------------------------------------------------------------------------
(* What the table offers. *)

\* What lies before a limit lies before any later one.
LEMMA TableGrows ==
  ASSUME NEW c \in CallRecords, NEW table \in Tables, NEW limit \in Int, NEW further \in Int,
         limit <= further, TableSound(c, table, limit)
  PROVE  TableSound(c, table, further)
<1>1. ASSUME NEW h \in Cells
      PROVE CellSound(c, Candidate(c, table, h)) /\ Candidate(c, table, h) < further
  <2>1. PICK v \in Nat : v = Candidate(c, table, h)
    BY CandidateIs
  <2>2. CellSound(c, v) /\ v < limit
    BY <2>1 DEF TableSound
  <2>3. v < further
    BY <2>2
  <2>4. QED
    BY <2>1, <2>2, <2>3
<1>2. QED
  BY <1>1 DEF TableSound

\* An index that is entered is one of the block's, and with 16 bits what is left of it is
\* one of the block's or one that the loop turns down.
LEMMA PutKeeps ==
  ASSUME NEW c \in CallRecords, CallSound(c), CallReal(c), NEW table \in Tables, NEW h, NEW idx \in Nat,
         NEW limit \in Int, c.start <= idx, idx < limit, TableSound(c, table, limit)
  PROVE  TableSound(c, PutIndex(c.type, table, h, idx), limit)
<1> DEFINE t == PutIndex(c.type, table, h, idx)
<1>1. t \in Tables
  BY PutIs
<1>2. PICK start \in Nat, low \in Nat : start = c.start /\ low = c.low /\ low <= start
  BY EndIs DEF CallSound
<1>3. ASSUME NEW g \in Cells
      PROVE CellSound(c, Candidate(c, t, g)) /\ Candidate(c, t, g) < limit
  <2>1. t[g] = table[g] \/ (t[g] <= idx /\ (t[g] = idx \/ c.type = ByU16))
    BY PutIs
  <2>2. PICK v \in Nat : v = t[g]
    BY <1>1 DEF Tables
  <2>3. CASE t[g] = table[g]
    <3>1. Candidate(c, t, g) = Candidate(c, table, g)
      BY <2>3 DEF Candidate
    <3>2. QED
      BY <3>1 DEF TableSound
  <2>4. CASE v = idx
    <3>1. ~(v < start)
      BY <2>4, <1>2
    <3>2. Candidate(c, t, g) = v
      BY <3>1, <2>2, <1>2 DEF Candidate
    <3>3. low <= v
      BY <2>4, <1>2
    <3>4. CellSound(c, v)
      BY <3>1, <3>3, <1>2 DEF CellSound
    <3>5. QED
      BY <3>2, <3>4, <2>4
  <2>5. CASE v <= idx /\ c.type = ByU16
    <3>1. c.low = c.start /\ ~c.extern /\ c.dictTable = <<>> /\ (c.small \/ c.start = 0)
      BY <2>5 DEF CallReal
    <3>2. Candidate(c, t, g) = v
      BY <3>1, <2>2 DEF Candidate
    <3>3. v < low \/ low <= v
      BY <1>2
    <3>4. v < low => c.small
      BY <3>1, <1>2
    <3>5. CellSound(c, v)
      BY <3>1, <3>3, <3>4, <1>2 DEF CellSound
    <3>6. v < limit
      BY <2>5
    <3>7. QED
      BY <3>2, <3>5, <3>6
  <2>6. QED
    BY <2>1, <2>2, <2>3, <2>4, <2>5
<1>4. QED
  BY <1>3 DEF TableSound

\* What is entered has the bytes of a match behind it.
LEMMA PutBehind ==
  ASSUME NEW type, NEW table \in Tables, NEW h, NEW idx \in Nat, NEW offset \in Nat,
         Behind(table, offset), idx + MINMATCH <= offset
  PROVE  Behind(PutIndex(type, table, h, idx), offset)
<1> DEFINE t == PutIndex(type, table, h, idx)
<1>1. PICK mm \in Nat : mm = MINMATCH
  BY Sizes
<1>2. ASSUME NEW g \in Cells PROVE t[g] = 0 \/ t[g] + MINMATCH <= offset
  <2>1. t[g] = table[g] \/ t[g] <= idx
    BY PutIs
  <2>2. PICK v \in Nat : v = t[g]
    BY PutIs DEF Tables
  <2>3. CASE t[g] = table[g]
    BY <2>3 DEF Behind
  <2>4. CASE v <= idx
    BY <2>2, <2>4, <1>1
  <2>5. QED
    BY <2>1, <2>2, <2>3, <2>4
<1>3. QED
  BY <1>2 DEF Behind

\* A candidate that the loop takes lies in the history, near enough, and begins with the
\* same bytes.
LEMMA UsableReal ==
  ASSUME NEW c \in CallRecords, CallSound(c), CallReal(c), NEW v \in Nat, NEW ip \in Nat,
         CellSound(c, v), v < ip, c.start < ip, ip < MfLimitPlusOne(c), Usable(c, v, ip)
  PROVE  /\ c.low <= v /\ ip - v <= DistanceMax
         /\ \A k \in 0 .. MINMATCH - 1 : Same(c, v + k, ip + k)
<1>1. PICK start \in Nat, low \in Nat, end \in Nat :
         start = c.start /\ low = c.low /\ end = End(c) /\ low <= start /\ start <= end
  BY EndIs DEF CallSound
<1>2. PICK mm \in Nat \ {0}, ll \in Nat, mf \in Nat, w \in Nat, dm \in Nat :
         /\ mm = MINMATCH /\ ll = LASTLITERALS /\ mf = MFLIMIT /\ w = Window /\ dm = DistanceMax
         /\ dm = w - 1 /\ mf >= mm + ll
  BY Sizes, WindowIs
<1>3. ip < end - mf + 1
  BY <1>1, <1>2 DEF MfLimitPlusOne
<1>4. c.type \in {ByU16, ByU32} /\ ByU16 # ByU32
  BY DEF CallRecords, ByU16, ByU32
<1>5. /\ c.small => v >= low
      /\ c.type = ByU16 \/ v + dm >= ip
      /\ SameStart(c, v, ip)
  BY <1>1, <1>2 DEF Usable
<1>6. low <= v
  <2>1. SUFFICES ASSUME v < low PROVE FALSE
    BY <1>1
  <2>2. c.small \/ (c.type = ByU32 /\ v + dm <= start)
    BY <2>1, <1>1, <1>2 DEF CellSound
  <2>3. ~c.small
    BY <2>1, <1>5, <1>1
  <2>4. c.type = ByU32 /\ v + dm <= start
    BY <2>2, <2>3
  <2>5. v + dm >= ip
    BY <2>4, <1>4, <1>5
  <2>6. start < ip
    BY <1>1
  <2>7. QED
    BY <2>4, <2>5, <2>6, <1>1, <1>2
<1>7. ip - v <= dm
  <2>1. CASE c.type = ByU16
    <3>1. low = start /\ end - start < w + mf - 1
      BY <2>1, <1>1, <1>2 DEF CallReal, Limit64K
    <3>2. QED
      BY ONLY <3>1, <1>3, <1>6, <1>2, ip \in Nat, v \in Nat, <1>1
  <2>2. CASE c.type # ByU16
    BY <2>2, <1>5, <1>2
  <2>3. QED
    BY <2>1, <2>2
<1>8. ~ReadsOutside(c, v)
  <2>1. c.extern /\ v < start => v + mm <= start
    BY <1>6, <1>1, <1>2 DEF CellSound
  <2>2. ~(v < low)
    BY <1>6, <1>1
  <2>3. ~(c.extern /\ v < start /\ v + mm > start)
    BY <2>1, <1>1, <1>2
  <2>4. QED
    BY <2>2, <2>3, <1>1, <1>2 DEF ReadsOutside
<1>9. Bytes(c, v, mm) = Bytes(c, ip, mm)
  BY <1>5, <1>8, <1>2 DEF SameStart
<1>10. low <= v /\ v + mm <= end /\ low <= ip /\ ip + mm <= end
  BY ONLY <1>6, <1>3, <1>2, <1>1, ip \in Nat, v \in Nat, v < ip
<1>11. \A k \in 1 .. mm : Bytes(c, v, mm)[k] = ByteAt(c, v + k - 1) /\ Bytes(c, ip, mm)[k] = ByteAt(c, ip + k - 1)
  <2>1. \A k \in 1 .. mm : Bytes(c, v, mm)[k] = ByteAt(c, v + k - 1)
    BY <1>10, <1>1, BytesAre
  <2>2. \A k \in 1 .. mm : Bytes(c, ip, mm)[k] = ByteAt(c, ip + k - 1)
    BY <1>10, <1>1, BytesAre
  <2>3. QED
    BY <2>1, <2>2
<1>12. ASSUME NEW k \in 0 .. mm - 1 PROVE Same(c, v + k, ip + k)
  <2>1. k + 1 \in 1 .. mm /\ v + (k + 1) - 1 = v + k /\ ip + (k + 1) - 1 = ip + k /\ v + k >= low
    BY <1>6
  <2>2. ByteAt(c, v + k) = ByteAt(c, ip + k)
    <3>1. PICK j \in 1 .. mm : j = k + 1 /\ v + j - 1 = v + k /\ ip + j - 1 = ip + k
      BY <2>1
    <3>2. QED
      BY <3>1, <1>9, <1>11
  <2>3. QED
    BY <2>1, <2>2, <1>1 DEF Same
<1>13. QED
  BY <1>6, <1>7, <1>12, <1>1, <1>2

\* A match that is found is one, and the table still lies before where it ends.
LEMMA FoundReal ==
  ASSUME NEW s \in WorkRecords, CallSound(s.c), CallReal(s.c), RoomSound(s), Paid(s), s.ok = FALSE,
         s.anchor < s.ip, s.ip < MfLimitPlusOne(s.c), NEW idx \in Nat, CellSound(s.c, idx), idx < s.ip,
         Usable(s.c, idx, s.ip), NEW t \in Tables, TableSound(s.c, t, s.ip + 1),
         Found(s, idx).at # "done"
  PROVE  LoopReal(Found(s, idx), t) /\ Found(s, idx).out = s.out
<1>1. PICK c \in CallRecords : c = s.c
  BY DEF WorkRecords
<1>2. PICK start \in Nat, end \in Nat, anchor \in Nat, low \in Nat, ip \in Nat :
        /\ start = c.start /\ end = End(c) /\ anchor = s.anchor /\ low = c.low /\ ip = s.ip
        /\ low <= start /\ start <= anchor /\ anchor < ip
  BY <1>1, EndIs DEF CallSound, Paid, WorkRecords
<1>3. PICK mm \in Nat \ {0}, ll \in Nat, mf \in Nat, dm \in Nat :
         /\ mm = MINMATCH /\ ll = LASTLITERALS /\ mf = MFLIMIT /\ dm = DistanceMax /\ mf >= mm + ll
  BY Sizes
<1>4. ip + mf <= end
  <2>1. ip < end - mf + 1
    BY <1>1, <1>2, <1>3 DEF MfLimitPlusOne
  <2>2. QED
    BY <2>1
<1>5. PICK back \in Nat : back = CatchUp(c, anchor, ip, idx) /\ back <= ip - anchor
                          /\ \A k \in 1 .. back : Same(c, idx - k, ip - k)
  BY <1>2, CatchUpIs
<1>6. PICK jp \in Nat, jm \in Int : jp = ip - back /\ jm = idx - back /\ anchor <= jp /\ jp <= ip
  <2>1. ip - back \in Nat /\ idx - back \in Int /\ anchor <= ip - back /\ ip - back <= ip
    BY <1>2, <1>5
  <2>2. QED
    BY <2>1
<1>7. PICK top, r : r = [s EXCEPT !.at = "match", !.ip = jp, !.match = jm, !.top = top] /\ Found(s, idx) = r
  <2>1. NoRoom(s).at = "done"
    BY DEF NoRoom, WorkRecords
  <2>2. LastLiterals(s).at = "done"
    BY LastLiteralsSound DEF DoneSound
  <2>3. \/ Found(s, idx) = NoRoom(s)
        \/ Found(s, idx) = LastLiterals(s)
        \/ \E top : Found(s, idx) = [s EXCEPT !.at = "match", !.ip = @ - CatchUp(s.c, s.anchor, s.ip, idx),
                                              !.match = idx - CatchUp(s.c, s.anchor, s.ip, idx), !.top = top]
    BY DEF Found
  <2>4. PICK top : Found(s, idx) = [s EXCEPT !.at = "match", !.ip = @ - CatchUp(s.c, s.anchor, s.ip, idx),
                                              !.match = idx - CatchUp(s.c, s.anchor, s.ip, idx), !.top = top]
    BY <2>1, <2>2, <2>3
  <2>5. back = CatchUp(s.c, s.anchor, s.ip, idx)
    BY <1>1, <1>2, <1>5
  <2>6. Found(s, idx) = [s EXCEPT !.at = "match", !.ip = jp, !.match = jm, !.top = top]
    BY <2>4, <2>5, <1>2, <1>6
  <2>7. QED
    BY <2>6
<1>8. r.c = c /\ r.at = "match" /\ r.ip = jp /\ r.match = jm /\ r.out = s.out
  BY <1>1, <1>7 DEF WorkRecords
<1>9. low <= idx /\ ip - idx <= dm /\ \A k \in 0 .. mm - 1 : Same(c, idx + k, ip + k)
  <2>1. start < ip
    BY <1>2
  <2>2. QED
    BY <2>1, <1>1, <1>2, <1>3, UsableReal
<1>10. ASSUME NEW j \in 0 .. back + mm - 1 PROVE Same(c, jm + j, jp + j)
  <2>1. CASE j < back
    <3>1. PICK k \in 1 .. back : k = back - j /\ jm + j = idx - k /\ jp + j = ip - k
      <4>1. back - j \in 1 .. back /\ jm + j = idx - (back - j) /\ jp + j = ip - (back - j)
        BY <2>1, <1>6
      <4>2. QED
        BY <4>1
    <3>2. QED
      BY <3>1, <1>5
  <2>2. CASE ~(j < back)
    <3>1. PICK k \in 0 .. mm - 1 : k = j - back /\ jm + j = idx + k /\ jp + j = ip + k
      <4>1. j - back \in 0 .. mm - 1 /\ jm + j = idx + (j - back) /\ jp + j = ip + (j - back)
        BY <2>2, <1>6
      <4>2. QED
        BY <4>1
    <3>2. QED
      BY <3>1, <1>9
  <2>3. QED
    BY <2>1, <2>2
<1>11. low <= jm
  <2>1. 0 \in 0 .. back + mm - 1 /\ jm + 0 = jm /\ jp + 0 = jp
    BY <1>6
  <2>2. Same(c, jm, jp)
    BY <2>1, <1>10
  <2>3. jm >= low
    BY <2>2, <1>2 DEF Same
  <2>4. QED
    BY <2>3, <1>6
<1>12. MatchReal(r)
  <2>1. jm < jp /\ jp - jm <= dm
    BY <1>6, <1>9, <1>2
  <2>2. \A k \in 0 .. mm - 1 : Same(c, jm + k, jp + k)
    BY <1>10
  <2>3. QED
    BY <1>2, <1>3, <1>8, <1>11, <2>1, <2>2 DEF MatchReal
<1>13. MatchLimit(c) = end - ll /\ jp + mm <= end - ll
  BY <1>2, <1>3, <1>4, <1>6 DEF MatchLimit
<1>14. PICK whole \in Nat : whole = Whole(r) /\ back <= whole
  <2>1. PICK n \in Nat : n = Count(c, jp, jm)
           /\ \A x \in 0 .. end - ll - jp - mm :
                (\A k \in 0 .. x - 1 : Same(c, jm + mm + k, jp + mm + k)) => x <= n
    <3>1. jp \in Int /\ jp + MINMATCH <= MatchLimit(c)
      BY <1>13, <1>3
    <3>2. /\ Count(c, jp, jm) \in 0 .. MatchLimit(c) - jp - MINMATCH
          /\ \A x \in 0 .. MatchLimit(c) - jp - MINMATCH :
                (\A k \in 0 .. x - 1 : Same(c, jm + MINMATCH + k, jp + MINMATCH + k)) => x <= Count(c, jp, jm)
      BY <3>1, CountIs
    <3>3. MatchLimit(c) = end - ll /\ MINMATCH = mm
      BY <1>13, <1>3
    <3>4. Count(c, jp, jm) \in Nat
      BY <3>2
    <3>5. QED
      BY <3>2, <3>3, <3>4
  <2>2. back \in 0 .. end - ll - jp - mm
    BY <1>4, <1>6, <1>3
  <2>3. ASSUME NEW k \in 0 .. back - 1 PROVE Same(c, jm + mm + k, jp + mm + k)
    <3>1. PICK j \in 0 .. back + mm - 1 : j = mm + k /\ jm + j = jm + mm + k /\ jp + j = jp + mm + k
      <4>1. mm + k \in 0 .. back + mm - 1 /\ jm + (mm + k) = jm + mm + k /\ jp + (mm + k) = jp + mm + k
        BY <1>6
      <4>2. QED
        BY <4>1
    <3>2. QED
      BY <3>1, <1>10
  <2>4. back <= n
    BY <2>1, <2>2, <2>3
  <2>5. n = Whole(r)
    BY <2>1, <1>8 DEF Whole
  <2>6. QED
    BY <2>4, <2>5
<1>15. TableSound(c, t, jp + mm + whole)
  <2>1. PICK x \in Int, y \in Int : x = ip + 1 /\ y = jp + mm + whole /\ x <= y
    <3>1. ip + 1 <= jp + mm + whole /\ ip + 1 \in Int /\ jp + mm + whole \in Int
      BY <1>6, <1>14
    <3>2. QED
      BY <3>1
  <2>2. TableSound(c, t, x)
    BY <1>1, <1>2, <2>1
  <2>3. QED
    BY <2>1, <2>2, TableGrows
<1>16. LoopReal(r, t)
  BY <1>3, <1>8, <1>12, <1>14, <1>15 DEF LoopReal
<1>17. QED
  BY <1>7, <1>8, <1>16

\* A search keeps what there is to say of the table and of the match.
LEMMA SearchKeeps ==
  ASSUME lz \in StreamStates, Behind(lz.table, lz.offset), Sound(work), work.at # "done" => work.ok = FALSE,
         lz.offset = End(work.c), CallReal(work.c), Spent(work) \/ LoopReal(work, lz.table), Searching
  PROVE  /\ Behind(lz'.table, lz'.offset) /\ lz'.offset = lz.offset
         /\ work'.at # "done" => Spent(work') \/ LoopReal(work', lz'.table)
<1>1. PICK s \in WorkRecords : s = work
  BY DEF Sound
<1>2. /\ s.at = "search" /\ s.ok = FALSE /\ CallSound(s.c) /\ RoomSound(s) /\ LoopSound(s) /\ Paid(s)
  BY <1>1 DEF Searching, Sound, DoneSound, LoopSound
<1>3. PICK c \in CallRecords : c = s.c
  BY DEF WorkRecords
<1>4. PICK start \in Nat, end \in Nat, anchor \in Nat, low \in Nat, ip \in Nat, mf \in Nat, mm \in Nat :
        /\ start = c.start /\ end = End(c) /\ anchor = s.anchor /\ low = c.low /\ ip = s.ip
        /\ mf = MFLIMIT /\ mm = MINMATCH
  BY <1>3, EndIs, Sizes DEF WorkRecords
<1>5. /\ low <= start /\ start <= anchor /\ anchor < ip /\ ip <= end - mf + 1 /\ mf >= mm + 1
      /\ MfLimitPlusOne(c) = end - mf + 1
  <2>1. mf >= mm + 1
    BY <1>4, Sizes
  <2>2. MfLimitPlusOne(c) = end - mf + 1
    BY <1>4 DEF MfLimitPlusOne
  <2>3. s.anchor < s.ip /\ s.ip <= MfLimitPlusOne(s.c) /\ Paid(s)
    BY <1>2 DEF LoopSound
  <2>4. s.c.low <= s.c.start /\ s.c.start <= s.anchor
    BY <1>2, <2>3 DEF CallSound, Paid
  <2>5. QED
    BY <2>1, <2>2, <2>3, <2>4, <1>3, <1>4
<1>6. PICK k \in Nat : k = s.step
  BY DEF WorkRecords
<1>7. PICK ahead \in Nat : ahead = s.ip + StepOf(c, s.step) /\ ahead > ip
  <2>1. PICK d \in Nat \ {0} : d = StepOf(c, k)
    BY StepIs
  <2>2. ip + d \in Nat /\ ip + d > ip
    OBVIOUS
  <2>3. QED
    BY <2>1, <2>2, <1>4, <1>6
<1>8. PICK table \in Tables : table = lz.table
  BY DEF StreamStates
<1>9. CASE ahead > MfLimitPlusOne(c) /\ work' = LastLiterals(work) /\ UNCHANGED lz
  <2>1. work'.at = "done"
    BY <1>1, <1>2, <1>9, LastLiteralsSound DEF DoneSound
  <2>2. QED
    BY <1>9, <2>1
<1>10. ASSUME NEW h, h = HashAt(c, ip), ahead <= MfLimitPlusOne(c),
              lz' = [lz EXCEPT !.table = PutIndex(c.type, @, h, ip)],
              work' = IF Usable(c, Candidate(c, lz.table, h), ip) THEN Found(s, Candidate(c, lz.table, h))
                      ELSE [s EXCEPT !.step = @ + 1, !.ip = ahead]
       PROVE  /\ Behind(lz'.table, lz'.offset) /\ lz'.offset = lz.offset
              /\ work'.at # "done" => Spent(work') \/ LoopReal(work', lz'.table)
  <2>1. ip + mf <= end
    BY ONLY <1>5, <1>7, <1>10, ip \in Nat, ahead \in Nat, end \in Nat, mf \in Nat
  <2>2. h \in Cells
    <3>1. c.low <= ip /\ ip + MINMATCH + 1 <= End(c)
      BY <1>4, <1>5, <2>1
    <3>2. QED
      BY <1>10, <3>1, HashIs
  <2>3. PICK t \in Tables : t = PutIndex(c.type, table, h, ip)
    BY PutIs
  <2>4. lz'.table = t /\ lz'.offset = lz.offset
    BY <1>8, <1>10, <2>3 DEF StreamStates
  <2>5. Behind(t, end)
    <3>1. ip + MINMATCH <= end /\ Behind(table, end)
      BY <2>1, <1>1, <1>3, <1>4, <1>5, <1>8
    <3>2. QED
      BY <2>3, <3>1, PutBehind
  <2>6. Behind(lz'.table, lz'.offset)
    BY <2>4, <2>5, <1>1, <1>3, <1>4
  <2>7. PICK idx \in Nat : idx = Candidate(c, table, h)
    BY <2>2, CandidateIs
  <2>8. PICK r : r = [s EXCEPT !.step = k + 1, !.ip = ahead]
    OBVIOUS
  <2>9. r.c = c /\ r.at = "search" /\ r.ip = ahead /\ r.out = s.out
    BY <2>8, <1>2, <1>3 DEF WorkRecords
  <2>10. work' = IF Usable(c, idx, ip) THEN Found(s, idx) ELSE r
    BY <1>10, <1>6, <1>8, <2>7, <2>8
  <2>11. CASE Spent(s)
    <3>1. ASSUME Usable(c, idx, ip), Found(s, idx).at # "done" PROVE Found(s, idx).out = s.out /\ Found(s, idx).c = s.c
      <4>1. NoRoom(s).at = "done"
        BY DEF NoRoom, WorkRecords
      <4>2. LastLiterals(s).at = "done"
        BY <1>2, LastLiteralsSound DEF DoneSound
      <4>3. QED
        BY <3>1, <4>1, <4>2 DEF Found, WorkRecords
    <3>2. work'.at # "done" => work'.out = s.out /\ work'.c = s.c
      BY <2>9, <2>10, <3>1, <1>3
    <3>3. work'.at # "done" => Spent(work')
      BY <2>11, <3>2 DEF Spent
    <3>4. QED
      BY <2>4, <2>6, <3>3
  <2>12. CASE LoopReal(s, table)
    <3>1. TableSound(c, table, ip)
      BY <2>12, <1>2, <1>3, <1>4 DEF LoopReal
    <3>2. CellSound(c, idx) /\ idx < ip
      BY <3>1, <2>2, <2>7 DEF TableSound
    <3>3. TableSound(c, t, ip + 1)
      <4>1. PICK x \in Int : x = ip + 1 /\ ip <= x /\ ip < x
        OBVIOUS
      <4>2. TableSound(c, table, x)
        BY <3>1, <4>1, TableGrows
      <4>3. c.start <= ip /\ CallSound(c) /\ CallReal(c)
        BY <1>1, <1>2, <1>3, <1>4, <1>5
      <4>4. QED
        BY <2>3, <4>1, <4>2, <4>3, PutKeeps
    <3>4. CASE Usable(c, idx, ip)
      <4>1. s.anchor < s.ip /\ s.ip < MfLimitPlusOne(s.c)
        BY <1>3, <1>4, <1>5, <2>1
      <4>2. Found(s, idx).at # "done" => LoopReal(Found(s, idx), t)
        BY <3>2, <3>3, <3>4, <4>1, <1>1, <1>2, <1>3, <1>4, FoundReal
      <4>3. QED
        BY <2>4, <2>6, <2>10, <3>4, <4>2
    <3>5. CASE ~Usable(c, idx, ip)
      <4>1. TableSound(c, t, ahead)
        <5>1. PICK x \in Int : x = ip + 1 /\ x <= ahead
          BY <1>7
        <5>2. QED
          BY <3>3, <5>1, TableGrows
      <4>2. LoopReal(r, t)
        BY <2>9, <4>1 DEF LoopReal
      <4>3. QED
        BY <2>4, <2>6, <2>10, <3>5, <4>2
    <3>6. QED
      BY <3>4, <3>5
  <2>13. QED
    BY <2>11, <2>12, <1>1, <1>8
<1>11. QED
  BY <1>1, <1>3, <1>4, <1>7, <1>9, <1>10 DEF Searching

\* When there is room for another match, the rest of the room is not for the last literals.
LEMMA SpareRoom ==
  ASSUME NEW s \in WorkRecords, LoopSound(s), ~(s.c.limit = "fill" /\ Op(s) + 1 + MFLIMIT - MINMATCH > s.c.cap)
  PROVE  ~Spent(s)
<1>1. SUFFICES ASSUME Spent(s) PROVE FALSE
  OBVIOUS
<1>2. PICK c \in CallRecords : c = s.c
  BY DEF WorkRecords
<1>3. PICK out \in Seq(Int), ip \in Nat, anchor \in Nat : out = s.out /\ ip = s.ip /\ anchor = s.anchor
  BY DEF WorkRecords
<1>4. PICK n \in Nat : n = ip - anchor
  <2>1. anchor <= ip
    BY <1>3 DEF LoopSound
  <2>2. ip - anchor \in Nat
    BY <2>1
  <2>3. QED
    BY <2>2
<1>5. PICK l \in Nat, e \in Nat, o \in Nat \ {0}, cap \in Nat :
        l = Len(s.out) /\ e = Len(Further(n)) /\ o = OffsetSize /\ cap = c.cap
  <2>1. Len(Further(n)) \in Nat
    BY FurtherIs, ExtraIs
  <2>2. Len(out) \in Nat
    OBVIOUS
  <2>3. OffsetSize \in Nat \ {0} /\ c.cap \in Nat
    BY Sizes, EndIs
  <2>4. QED
    BY <1>3, <2>1, <2>2, <2>3
<1>6. PICK mf \in Nat, mm \in Nat, ll \in Nat :
        mf = MFLIMIT /\ mm = MINMATCH /\ ll = LASTLITERALS /\ mf >= mm + ll
  BY Sizes
<1>7. Op(s) = l + 1 + e + n + o
  BY <1>3, <1>4, <1>5 DEF Op
<1>8. c.limit = "fill" /\ l + 1 + ll >= cap
  BY <1>1, <1>2, <1>5, <1>6 DEF Spent
<1>9. ~(l + 1 + e + n + o + 1 + mf - mm > cap)
  BY <1>2, <1>5, <1>6, <1>7, <1>8
<1>10. QED
  BY ONLY <1>8, <1>9, <1>6, l \in Nat, e \in Nat, n \in Nat, o \in Nat \ {0}, mf \in Nat, mm \in Nat,
          ll \in Nat, cap \in Nat

\* So does a turn at a match.
LEMMA MatchKeeps ==
  ASSUME lz \in StreamStates, Behind(lz.table, lz.offset), Sound(work), work.at # "done" => work.ok = FALSE,
         lz.offset = End(work.c), CallReal(work.c), Spent(work) \/ LoopReal(work, lz.table), NextMatch
  PROVE  /\ Behind(lz'.table, lz'.offset) /\ lz'.offset = lz.offset
         /\ work'.at # "done" => Spent(work') \/ LoopReal(work', lz'.table)
<1>1. PICK s \in WorkRecords : s = work
  BY DEF Sound
<1>2. /\ s.at = "match" /\ s.ok = FALSE /\ CallSound(s.c) /\ RoomSound(s) /\ LoopSound(s) /\ Paid(s)
  BY <1>1 DEF NextMatch, Sound, DoneSound, LoopSound
<1>3. PICK c \in CallRecords : c = s.c
  BY DEF WorkRecords
<1>4. PICK table \in Tables : table = lz.table
  BY DEF StreamStates
<1>5. ASSUME Paid(s), work' = LastLiterals(s), UNCHANGED lz
      PROVE  /\ Behind(lz'.table, lz'.offset) /\ lz'.offset = lz.offset
             /\ work'.at # "done" => Spent(work') \/ LoopReal(work', lz'.table)
  <2>1. work'.at = "done"
    BY <1>2, <1>5, LastLiteralsSound DEF DoneSound
  <2>2. QED
    BY <1>5, <2>1
<1>6. CASE work' = NoRoom(s) /\ UNCHANGED lz
  <2>1. work'.at = "done"
    BY <1>6 DEF NoRoom, WorkRecords
  <2>2. QED
    BY <1>6, <2>1
<1>7. ASSUME ~(c.limit = "fill" /\ Op(s) + 1 + MFLIMIT - MINMATCH > c.cap),
             ~(c.limit = "limited" /\ Tight(s)),
             NEW done, done = SequenceWritten(s), NEW filled,
             filled = PutIndex(c.type, lz.table, HashAt(c, done.ip - 2), done.ip - 2),
             NEW h, h = HashAt(c, done.ip),
             IF done.ip >= MfLimitPlusOne(c) THEN work' = LastLiterals(done) /\ UNCHANGED lz
             ELSE /\ lz' = [lz EXCEPT !.table = PutIndex(c.type, filled, h, done.ip)]
                  /\ work' = IF Usable(c, Candidate(c, filled, h), done.ip)
                             THEN [done EXCEPT !.match = Candidate(c, filled, h)]
                             ELSE [done EXCEPT !.at = "search", !.ip = done.ip + 1, !.step = 0]
      PROVE  /\ Behind(lz'.table, lz'.offset) /\ lz'.offset = lz.offset
             /\ work'.at # "done" => Spent(work') \/ LoopReal(work', lz'.table)
  <2>1. /\ done \in WorkRecords /\ SameCall(s, done) /\ RoomSound(done) /\ Paid(done)
        /\ done.at = "match" /\ done.ok = FALSE
        /\ done.ip = s.ip + MINMATCH + MatchCode(s)
        /\ MatchCode(s) \in 0 .. Whole(s) /\ Whole(s) \in Nat
        /\ done.c.limit = "fill" /\ Tight(s) => Len(done.out) + 1 + LASTLITERALS >= s.c.cap
    <3>1. /\ ~(s.c.limit = "fill" /\ Op(s) + 1 + MFLIMIT - MINMATCH > s.c.cap)
          /\ ~(s.c.limit = "limited" /\ Tight(s))
      BY <1>3, <1>7
    <3>2. LET r == SequenceWritten(s) IN
          /\ r \in WorkRecords /\ SameCall(s, r) /\ RoomSound(r) /\ Paid(r)
          /\ r.at = "match" /\ r.ok = FALSE
          /\ Whole(s) \in 0 .. MatchLimit(s.c) - s.ip - MINMATCH
          /\ MatchCode(s) \in 0 .. Whole(s)
          /\ r.ip = s.ip + MINMATCH + MatchCode(s)
          /\ r.c.limit = "fill" /\ Tight(s) => Len(r.out) + 1 + LASTLITERALS >= s.c.cap
      BY <1>2, <3>1, WrittenSound
    <3>3. Whole(s) \in Nat
      BY <3>2
    <3>4. QED
      BY <3>2, <3>3, <1>7
  <2>2. CASE done.ip >= MfLimitPlusOne(c)
    <3>1. work' = LastLiterals(done) /\ UNCHANGED lz
      BY <1>7, <2>2
    <3>2. work'.at = "done"
      BY <1>2, <2>1, <3>1, LastLiteralsSound DEF SameCall, DoneSound
    <3>3. QED
      BY <3>1, <3>2
  <2>3. CASE ~(done.ip >= MfLimitPlusOne(c))
    <3>1. PICK next \in Nat, end \in Nat, mf \in Nat, mm \in Nat, ll \in Nat, start \in Nat, low \in Nat :
            /\ next = done.ip /\ end = End(c) /\ mf = MFLIMIT /\ mm = MINMATCH /\ ll = LASTLITERALS
            /\ start = c.start /\ low = c.low
      BY <1>3, <2>1, EndIs, Sizes DEF WorkRecords
    <3>2. mf >= mm + 1 /\ mf >= mm + ll /\ mm >= 2 /\ low <= start
      BY <1>2, <1>3, <3>1, Sizes DEF CallSound
    <3>3. next + mf <= end
      <4>1. ~(next >= end - mf + 1)
        BY <2>3, <3>1 DEF MfLimitPlusOne
      <4>2. QED
        BY <4>1
    <3>4. PICK ip \in Nat, code \in Nat, anchor \in Nat, whole \in Nat :
             /\ ip = s.ip /\ code = MatchCode(s) /\ anchor = s.anchor /\ whole = Whole(s)
             /\ start <= anchor /\ anchor <= ip /\ next = ip + mm + code /\ code <= whole
      <4>1. PICK ip \in Nat, code \in Nat, anchor \in Nat, whole \in Nat :
              ip = s.ip /\ code = MatchCode(s) /\ anchor = s.anchor /\ whole = Whole(s)
        <5>1. MatchCode(s) \in Nat
          BY <2>1
        <5>2. s.ip \in Nat /\ s.anchor \in Nat
          BY DEF WorkRecords
        <5>3. QED
          BY <2>1, <5>1, <5>2
      <4>2. start <= anchor /\ anchor <= ip
        BY <1>2, <1>3, <3>1, <4>1 DEF LoopSound, Paid
      <4>3. next = ip + mm + code /\ code <= whole
        BY <2>1, <3>1, <4>1
      <4>4. QED
        BY <4>1, <4>2, <4>3
    <3>5. PICK before \in Nat : before = next - 2 /\ start <= before /\ before < next /\ before + mm <= end
                                /\ start < next
      <4>1. next - 2 \in Nat /\ start <= next - 2 /\ next - 2 < next /\ next - 2 + mm <= end /\ start < next
        BY ONLY <3>2, <3>3, <3>4, next \in Nat, ip \in Nat, mm \in Nat, code \in Nat, anchor \in Nat,
                start \in Nat, end \in Nat, mf \in Nat
      <4>2. QED
        BY <4>1
    <3>18. PICK hb : hb = HashAt(c, before)
      OBVIOUS
    <3>6. filled \in Tables /\ filled = PutIndex(c.type, table, hb, before)
      <4>1. filled = PutIndex(c.type, table, hb, before)
        BY <1>4, <1>7, <3>1, <3>5, <3>18
      <4>2. QED
        BY <4>1, PutIs
    <3>7. h \in Cells
      <4>1. c.low <= next /\ next + MINMATCH + 1 <= End(c)
        BY <3>1, <3>2, <3>3, <3>5
      <4>2. QED
        BY <1>7, <3>1, <4>1, HashIs
    <3>8. PICK t \in Tables : t = PutIndex(c.type, filled, h, next)
      BY <3>6, PutIs
    <3>9. lz'.table = t /\ lz'.offset = lz.offset
      BY <1>7, <2>3, <3>1, <3>8 DEF StreamStates
    <3>10. Behind(lz'.table, lz'.offset)
      <4>1. Behind(table, end)
        BY <1>1, <1>3, <1>4, <3>1
      <4>2. Behind(filled, end)
        BY <3>1, <3>5, <3>6, <4>1, PutBehind
      <4>3. next + MINMATCH <= end
        BY <3>1, <3>2, <3>3
      <4>4. Behind(t, end)
        BY <3>6, <3>8, <4>2, <4>3, PutBehind
      <4>5. QED
        BY <3>9, <4>4, <1>1, <1>3, <3>1
    <3>11. PICK idx \in Nat : idx = Candidate(c, filled, h)
      BY <3>6, <3>7, CandidateIs
    <3>12. PICK r1, r2 : /\ r1 = [done EXCEPT !.match = idx]
                         /\ r2 = [done EXCEPT !.at = "search", !.ip = next + 1, !.step = 0]
      OBVIOUS
    <3>13. work' = IF Usable(c, idx, next) THEN r1 ELSE r2
      BY <1>7, <2>3, <3>1, <3>11, <3>12
    <3>14. /\ r1.c = c /\ r1.at = "match" /\ r1.ip = next /\ r1.match = idx /\ r1.out = done.out
           /\ r2.c = c /\ r2.at = "search" /\ r2.ip = next + 1 /\ r2.out = done.out
      <4>1. done.c = c
        BY <2>1, <1>3 DEF SameCall
      <4>2. QED
        BY <4>1, <2>1, <3>1, <3>12 DEF WorkRecords
    <3>15. CASE c.limit = "fill" /\ Tight(s)
      <4>1. Len(done.out) + 1 + LASTLITERALS >= c.cap
        BY <2>1, <3>15, <1>3 DEF SameCall
      <4>2. Spent(r1) /\ Spent(r2)
        BY <3>14, <3>15, <4>1 DEF Spent
      <4>3. QED
        BY <3>9, <3>10, <3>13, <4>2
    <3>16. CASE ~(c.limit = "fill" /\ Tight(s))
      <4>1. ~Spent(s)
        BY <1>2, <1>3, <1>7, SpareRoom
      <4>2. LoopReal(s, table)
        BY <4>1, <1>1, <1>4
      <4>3. code = whole
        BY <3>4, <3>16, <1>3 DEF MatchCode
      <4>4. TableSound(c, table, next)
        BY <4>2, <4>3, <1>2, <1>3, <3>1, <3>4 DEF LoopReal
      <4>5. CallSound(c) /\ CallReal(c)
        BY <1>1, <1>2, <1>3
      <4>6. TableSound(c, filled, next)
        <5>1. c.start <= before /\ before < next
          BY <3>1, <3>5
        <5>2. TableSound(c, PutIndex(c.type, table, hb, before), next)
          BY <5>1, <4>4, <4>5, PutKeeps
        <5>3. QED
          BY <5>2, <3>6
      <4>7. CellSound(c, idx) /\ idx < next
        BY <4>6, <3>7, <3>11 DEF TableSound
      <4>8. TableSound(c, t, next + 1)
        <5>1. PICK x \in Int : x = next + 1 /\ next <= x /\ next < x
          OBVIOUS
        <5>2. TableSound(c, filled, x)
          BY <3>6, <4>6, <5>1, TableGrows
        <5>3. c.start <= next
          BY <3>1, <3>5
        <5>4. QED
          BY <3>6, <3>8, <4>5, <5>1, <5>2, <5>3, PutKeeps
      <4>9. LoopReal(r2, t)
        BY <3>14, <4>8 DEF LoopReal
      <4>10. ASSUME Usable(c, idx, next) PROVE LoopReal(r1, t)
        <5>1. next < MfLimitPlusOne(c) /\ c.start < next
          BY <2>3, <3>1, <3>3, <3>5 DEF MfLimitPlusOne
        <5>2. /\ c.low <= idx /\ next - idx <= DistanceMax
              /\ \A k \in 0 .. MINMATCH - 1 : Same(c, idx + k, next + k)
          BY <4>5, <4>7, <4>10, <5>1, UsableReal
        <5>3. MatchReal(r1)
          BY <5>2, <4>7, <3>14 DEF MatchReal
        <5>4. PICK n \in Nat : n = Whole(r1)
          <6>1. MatchLimit(c) = end - ll /\ next + MINMATCH <= MatchLimit(c)
            BY <3>1, <3>2, <3>3 DEF MatchLimit
          <6>2. Count(c, next, idx) \in 0 .. MatchLimit(c) - next - MINMATCH
            BY <6>1, CountIs
          <6>3. Count(c, next, idx) \in Nat
            BY <6>2
          <6>4. QED
            BY <6>3, <3>14 DEF Whole
        <5>5. PICK x \in Int, y \in Int : x = next + 1 /\ y = next + mm + n /\ x <= y
          BY <3>2
        <5>6. TableSound(c, t, y)
          BY <4>8, <5>5, TableGrows
        <5>7. QED
          BY <3>1, <3>14, <5>3, <5>4, <5>5, <5>6 DEF LoopReal
      <4>11. QED
        BY <3>9, <3>10, <3>13, <4>9, <4>10
    <3>17. QED
      BY <3>15, <3>16
  <2>4. QED
    BY <2>2, <2>3
<1>8. QED
  BY <1>1, <1>2, <1>3, <1>5, <1>6, <1>7 DEF NextMatch

-----------------------------------------------------------------------------
(* A call begins. *)

\* When what the table offers to the block is sound, all is as it should be when the
\* call has begun.
LEMMA BeginKeeps ==
  ASSUME NEW s \in StreamStates, s.dictSize <= s.offset, Behind(s.table, s.offset),
         NEW c \in CallRecords, CallSound(c), c.start = s.offset,
         NEW page \in Seq(Byte), Len(page) = End(c) - c.start,
         LimitFits(c, Len(page)),
         Len(page) > 0 => CallReal(c) /\ TableSound(c, s.table, c.start + 1),
         NEW afterwards \in Purposes, NEW src \in Nat,
         lz' = Entered(s, c), work' = LzBegun(c, page, afterwards, src)
  PROVE  /\ lz' \in StreamStates /\ lz'.dictSize <= lz'.offset /\ Behind(lz'.table, lz'.offset)
         /\ WorkInv'
         /\ work' # LzIdle /\ work'.page = page /\ work'.afterwards = afterwards /\ work'.src = src
<1>1. PICK start \in Nat, end \in Nat, size \in Nat, mf \in Nat, mm \in Nat \ {0}, cap \in Nat :
        /\ start = c.start /\ end = End(c) /\ size = Len(page) /\ mf = MFLIMIT /\ mm = MINMATCH /\ mf >= mm
        /\ cap = c.cap
  <2>1. c.start \in Nat /\ End(c) \in Nat /\ Len(page) \in Nat /\ MFLIMIT \in Nat /\ MINMATCH \in Nat \ {0}
        /\ c.cap \in Nat
    <3>1. c.start \in Nat /\ End(c) \in Nat /\ c.cap \in Nat
      BY EndIs
    <3>2. MFLIMIT \in Nat /\ MINMATCH \in Nat \ {0}
      BY Sizes
    <3>3. Len(page) \in Nat
      OBVIOUS
    <3>4. QED
      BY <3>1, <3>2, <3>3
  <2>2. MFLIMIT >= MINMATCH
    <3>1. PICK a \in Nat, b \in Nat, l \in Nat : a = MFLIMIT /\ b = MINMATCH /\ l = LASTLITERALS /\ a >= b + l
      BY Sizes
    <3>2. QED
      BY <3>1
  <2>3. QED
    BY <2>1, <2>2
<1>2. start <= end /\ size = end - start /\ s.offset = start
  BY <1>1 DEF CallSound
<1>16. Begun(LzBegun(c, page, afterwards, src), c, page, afterwards, src)
  BY BegunSound
<1>3. PICK r \in WorkRecords : r = LzBegun(c, page, afterwards, src)
  BY <1>16 DEF Begun, Sound
<1>4. /\ Sound(r) /\ (r.at # "done" => r.ok = FALSE)
      /\ r.c = c /\ r.page = page /\ r.afterwards = afterwards /\ r.src = src
      /\ r.at # "done" => /\ r.at = "search" /\ r.ip = start + 1
                          /\ size >= mf + 1 /\ ~(c.limit = "fill" /\ c.cap < 1)
  BY <1>1, <1>3, <1>16 DEF Begun
<1>5. PICK table \in Tables : table = s.table
  BY DEF StreamStates
<1>6. PICK put : put = PutIndex(c.type, table, HashAt(c, start), start)
  OBVIOUS
<1>7. put \in Tables
  BY <1>6, PutIs
<1>8. PICK e \in StreamStates : e = Entered(s, c)
  BY <1>1, <1>2, EnteredIs
<1>9. /\ size = 0 \/ (c.limit = "fill" /\ cap < 1) => e = s
      /\ ~(size = 0 \/ (c.limit = "fill" /\ cap < 1)) =>
            e.offset = start + size /\ e.table = IF size < mf + 1 THEN table ELSE put
      /\ e.dictSize <= e.offset
  <2>1. size = End(c) - c.start
    BY <1>1, <1>2
  <2>2. /\ size = 0 \/ (c.limit = "fill" /\ c.cap < 1) => Entered(s, c) = s
        /\ ~(size = 0 \/ (c.limit = "fill" /\ c.cap < 1)) =>
               /\ Entered(s, c).offset = s.offset + size
               /\ Entered(s, c).table = IF size < MFLIMIT + 1 THEN s.table
                                        ELSE PutIndex(c.type, s.table, HashAt(c, c.start), c.start)
        /\ Entered(s, c).dictSize <= Entered(s, c).offset
    BY <2>1, EnteredIs
  <2>3. QED
    BY ONLY <2>2, <1>1, <1>2, <1>5, <1>6, <1>8
<1>10. Behind(e.table, e.offset)
  <2>1. CASE size = 0 \/ (c.limit = "fill" /\ cap < 1)
    BY <2>1, <1>9
  <2>2. CASE ~(size = 0 \/ (c.limit = "fill" /\ cap < 1))
    <3>1. PICK o \in Nat : o = start + size /\ e.offset = o /\ start <= o
      BY <2>2, <1>9
    <3>2. Behind(table, o)
      <4>1. ASSUME NEW h \in Cells PROVE table[h] = 0 \/ table[h] + MINMATCH <= o
        <5>1. PICK v \in Nat : v = table[h]
          BY DEF Tables
        <5>2. v = 0 \/ v + mm <= start
          BY <5>1, <1>1, <1>2, <1>5 DEF Behind
        <5>3. v = 0 \/ v + mm <= o
          BY <5>2, <3>1
        <5>4. QED
          BY <5>1, <5>3, <1>1
      <4>2. QED
        BY <4>1 DEF Behind
    <3>3. ~(size < mf + 1) => Behind(put, o)
      <4>1. ASSUME ~(size < mf + 1) PROVE start + MINMATCH <= o
        BY ONLY <4>1, <1>1, <3>1, start \in Nat, size \in Nat, mf \in Nat, mm \in Nat \ {0}, o \in Nat
      <4>2. QED
        BY <3>2, <4>1, <1>6, PutBehind
    <3>4. QED
      BY <2>2, <3>1, <3>2, <3>3, <1>9
  <2>3. QED
    BY <2>1, <2>2
<1>11. ASSUME r.at # "done"
       PROVE  e.offset = End(c) /\ CallReal(c) /\ LoopReal(r, e.table)
  <2>1. r.at = "search" /\ r.ip = start + 1 /\ size >= mf + 1 /\ ~(c.limit = "fill" /\ cap < 1)
    BY <1>1, <1>4, <1>11
  <2>2. size > 0 /\ ~(size < mf + 1)
    BY <2>1
  <2>3. e.offset = start + size /\ e.table = put
    BY <1>9, <2>1, <2>2
  <2>4. start + size = end
    BY <1>2
  <2>5. CallReal(c) /\ TableSound(c, table, start + 1)
    BY <2>2, <1>1, <1>5
  <2>6. TableSound(c, put, start + 1)
    <3>1. PICK x \in Int : x = start + 1 /\ start < x
      OBVIOUS
    <3>2. c.start <= start
      BY <1>1
    <3>3. QED
      BY <2>5, <3>1, <3>2, <1>6, PutKeeps
  <2>7. LoopReal(r, e.table)
    BY <2>1, <2>3, <2>6, <1>4 DEF LoopReal
  <2>8. QED
    BY <2>3, <2>4, <2>5, <2>7, <1>1
<1>12. lz' = e /\ work' = r
  BY <1>3, <1>8
<1>13. r # LzIdle
  <2>1. r.at \in {"search", "match", "done"}
    BY DEF WorkRecords
  <2>2. LzIdle.at = "idle"
    BY DEF LzIdle
  <2>3. QED
    BY <2>1, <2>2
<1>14. WorkInv'
  BY <1>4, <1>11, <1>12 DEF WorkInv
<1>15. QED
  BY <1>4, <1>9, <1>10, <1>12, <1>13, <1>14

\* A call without a history: what is left in the table is never used.
LEMMA PlainReal ==
  ASSUME NEW s \in StreamStates, Behind(s.table, s.offset), NEW page \in Seq(Byte), NEW c \in CallRecords,
         c.start = s.offset, c.low = s.offset, c.bytes = page, c.type = TypeFor(Len(page)),
         c.extern = FALSE, c.dictTable = <<>>, c.type = ByU16 => c.small \/ s.offset = 0,
         c.type = ByU32 => /\ s.offset = 0 \/ s.offset >= Window
                           /\ \A h \in Cells : s.table[h] = 0 \/ s.table[h] + MINMATCH + Window <= s.offset
  PROVE  CallSound(c) /\ Len(page) = End(c) - c.start /\ CallReal(c) /\ TableSound(c, s.table, c.start + 1)
<1>1. PICK start \in Nat, end \in Nat, size \in Nat :
         start = c.start /\ end = End(c) /\ size = Len(page) /\ end = start + size /\ c.low = start /\ s.offset = start
  BY EndIs
<1>2. PICK mm \in Nat \ {0}, w \in Nat \ {0}, dm \in Nat :
         mm = MINMATCH /\ w = Window /\ dm = DistanceMax /\ dm = w - 1
  BY Sizes, WindowIs
<1>3. start <= end /\ end - start = size
  BY <1>1
<1>4. CallSound(c) /\ Len(page) = End(c) - c.start
  BY <1>1, <1>3 DEF CallSound
<1>5. CallReal(c)
  <2>1. c.type = ByU16 => size < Limit64K
    BY <1>1 DEF TypeFor, ByU16, ByU32
  <2>2. QED
    BY <1>1, <1>3, <2>1 DEF CallReal
<1>6. ASSUME NEW h \in Cells
      PROVE  CellSound(c, Candidate(c, s.table, h)) /\ Candidate(c, s.table, h) < start + 1
  <2>1. PICK v \in Nat : v = s.table[h]
    BY DEF StreamStates, Tables
  <2>2. Candidate(c, s.table, h) = v
    BY <2>1 DEF Candidate
  <2>3. v = 0 \/ v + mm <= start
    BY <2>1, <1>1, <1>2 DEF Behind
  <2>4. v < start + 1
    BY <2>3
  <2>5. CASE v < start
    <3>1. CASE c.type = ByU16
      <4>1. start # 0
        BY <2>5
      <4>2. c.small
        BY <3>1, <4>1, <1>1
      <4>3. QED
        BY <4>2, <2>2, <2>4, <2>5, <1>1 DEF CellSound
    <3>2. CASE c.type = ByU32
      <4>1. start >= w
        BY <3>2, <2>5, <1>1, <1>2
      <4>2. v = 0 \/ v + mm + w <= start
        BY <3>2, <2>1, <1>1, <1>2
      <4>3. v + dm <= start
        BY <4>1, <4>2, <1>2
      <4>4. QED
        BY <3>2, <4>3, <2>2, <2>4, <2>5, <1>1, <1>2 DEF CellSound
    <3>3. c.type \in {ByU16, ByU32}
      BY DEF CallRecords
    <3>4. QED
      BY <3>1, <3>2, <3>3
  <2>6. CASE ~(v < start)
    BY <2>2, <2>4, <2>6, <1>1 DEF CellSound
  <2>7. QED
    BY <2>5, <2>6
<1>7. QED
  BY <1>1, <1>4, <1>5, <1>6 DEF TableSound

\* A call with a history of its own, right before the block or elsewhere.
LEMMA OwnReal ==
  ASSUME NEW s \in StreamStates, Behind(s.table, s.offset), s.dictSize <= s.offset,
         NEW page \in Seq(Byte), NEW history \in Seq(Byte), Len(history) = s.dictSize, NEW c \in CallRecords,
         c.start = s.offset, c.low = s.offset - s.dictSize, c.bytes = history \o page, c.type = ByU32,
         c.dictTable = <<>>, c.small = (s.dictSize < Window /\ s.dictSize < s.offset),
         c.extern /\ Len(page) > 0 => s.dictSize = 0 \/ s.dictSize >= MINMATCH
  PROVE  /\ CallSound(c) /\ Len(page) = End(c) - c.start
         /\ Len(page) > 0 => CallReal(c) /\ TableSound(c, s.table, c.start + 1)
<1>1. PICK start \in Nat, low \in Nat, end \in Nat, size \in Nat, ds \in Nat :
         /\ start = c.start /\ low = c.low /\ end = End(c) /\ size = Len(page) /\ ds = s.dictSize
         /\ s.offset = start /\ low = start - ds /\ end = start + size /\ ds <= start
  <2>1. PICK ds \in Nat, size \in Nat, start \in Nat, low \in Nat :
           ds = s.dictSize /\ size = Len(page) /\ start = c.start /\ low = c.low
    BY EndIs DEF StreamStates
  <2>2. Len(history \o page) = ds + size
    <3>1. Len(history \o page) = Len(history) + Len(page)
      BY ConcatProperties
    <3>2. QED
      BY ONLY <2>1, <3>1, Len(history) = s.dictSize
  <2>3. End(c) = low + (ds + size)
    BY <2>1, <2>2 DEF End
  <2>4. s.offset = start /\ low = start - ds /\ ds <= start
    BY <2>1
  <2>5. End(c) = start + size /\ End(c) \in Nat
    BY <2>1, <2>3, <2>4
  <2>6. QED
    BY <2>1, <2>4, <2>5
<1>2. PICK mm \in Nat \ {0}, w \in Nat \ {0}, dm \in Nat :
         mm = MINMATCH /\ w = Window /\ dm = DistanceMax /\ dm = w - 1
  BY Sizes, WindowIs
<1>3. low <= start /\ start <= end /\ end - start = size
  BY <1>1
<1>4. CallSound(c) /\ Len(page) = End(c) - c.start
  BY <1>1, <1>3 DEF CallSound
<1>5. ASSUME size > 0
      PROVE  CallReal(c) /\ TableSound(c, s.table, c.start + 1)
  <2>1. c.extern => ds = 0 \/ ds >= mm
    BY <1>1, <1>2, <1>5
  <2>2. CallReal(c)
    <3>1. c.extern => low = start \/ low + mm <= start
      <4>1. SUFFICES ASSUME c.extern PROVE low = start \/ low + mm <= start
        OBVIOUS
      <4>2. ds = 0 \/ ds >= mm
        BY <2>1, <4>1
      <4>3. low = start - ds
        BY <1>1
      <4>4. QED
        BY ONLY <4>2, <4>3, mm \in Nat \ {0}, low \in Nat, start \in Nat, ds \in Nat
    <3>2. c.type # ByU16
      BY DEF ByU16, ByU32
    <3>3. QED
      BY <3>1, <3>2, <1>1, <1>2 DEF CallReal
  <2>3. ASSUME NEW h \in Cells
        PROVE  CellSound(c, Candidate(c, s.table, h)) /\ Candidate(c, s.table, h) < start + 1
    <3>1. PICK v \in Nat : v = s.table[h]
      BY DEF StreamStates, Tables
    <3>2. Candidate(c, s.table, h) = v
      BY <3>1 DEF Candidate
    <3>3. v = 0 \/ v + mm <= start
      BY <3>1, <1>1, <1>2 DEF Behind
    <3>4. v < start + 1
      BY <3>3
    <3>5. CASE low <= v
      <4>1. c.extern /\ v < start => v + mm <= start
        <5>1. SUFFICES ASSUME c.extern, v < start, v = 0 PROVE mm <= start
          BY <3>3, <1>2
        <5>2. ds = start
          BY <5>1, <3>5, <1>1
        <5>3. ds >= mm
          BY <5>1, <5>2, <2>1
        <5>4. QED
          BY <5>2, <5>3
      <4>2. QED
        BY <3>2, <3>4, <3>5, <4>1, <1>1, <1>2 DEF CellSound
    <3>6. CASE v < low
      <4>1. c.small \/ v + dm <= start
        <5>1. SUFFICES ASSUME ~c.small PROVE v + dm <= start
          OBVIOUS
        <5>2. ~(ds < w /\ ds < start)
          BY <5>1, <1>1, <1>2
        <5>3. ds < start
          BY <3>6, <1>1
        <5>4. ds >= w
          BY <5>2, <5>3
        <5>5. QED
          BY <5>4, <3>6, <1>1, <1>2
      <4>2. QED
        BY <3>2, <3>4, <3>6, <4>1, <1>1, <1>2 DEF CellSound
    <3>7. QED
      BY <3>5, <3>6, <1>1
  <2>4. QED
    BY <2>2, <2>3, <1>1 DEF TableSound
<1>6. QED
  BY <1>1, <1>4, <1>5

\* A call with the attached dictionary, whose table has been copied.
LEMMA CopyReal ==
  ASSUME NEW page \in Seq(Byte), NEW c \in CallRecords, DictCtx.dictSize # 0,
         c.start = Window, c.low = Window - DictCtx.dictSize, c.bytes = DictBytes \o page, c.type = ByU32,
         c.dictTable = <<>>
  PROVE  /\ CallSound(c) /\ Len(page) = End(c) - c.start
         /\ CallReal(c) /\ TableSound(c, DictCtx.table, c.start + 1)
<1>1. PICK w \in Nat \ {0}, dm \in Nat, mm \in Nat \ {0}, ds \in Nat, low \in Nat, size \in Nat :
         /\ w = Window /\ dm = DistanceMax /\ mm = MINMATCH /\ dm = w - 1 /\ ds = DictCtx.dictSize
         /\ low = c.low /\ size = Len(page) /\ ds <= w /\ mm < ds /\ low = w - ds
  <2>1. PICK w \in Nat \ {0}, dm \in Nat, mm \in Nat \ {0}, ds \in Nat, low \in Nat, size \in Nat :
           /\ w = Window /\ dm = DistanceMax /\ mm = MINMATCH /\ ds = DictCtx.dictSize
           /\ low = c.low /\ size = Len(page)
    <3>1. Len(page) \in Nat /\ c.low \in Nat
      BY EndIs
    <3>2. DictCtx.dictSize \in Nat
      BY DictIs DEF StreamStates
    <3>3. QED
      BY <3>1, <3>2, WindowIs, Sizes
  <2>2. dm = w - 1 /\ ds <= w /\ mm < ds /\ low = w - ds
    BY <2>1, WindowIs, DictIs
  <2>3. QED
    BY <2>1, <2>2
<1>8. dm = w - 1 /\ ds <= w /\ mm < ds /\ low = w - ds
  BY <1>1
<1>2. PICK end \in Nat : end = End(c) /\ end = w + size
  <2>1. Len(DictBytes \o page) = ds + size
    <3>1. PICK b \in Seq(Byte) : b = DictBytes /\ Len(b) = ds
      BY <1>1, DictIs
    <3>2. Len(b \o page) = Len(b) + Len(page)
      BY ConcatProperties
    <3>3. QED
      BY ONLY <3>1, <3>2, <1>1
  <2>2. End(c) = low + (ds + size)
    BY <1>1, <2>1 DEF End
  <2>3. End(c) = w + size /\ End(c) \in Nat
    <3>1. low + (ds + size) = w + size /\ w + size \in Nat
      BY ONLY <1>8, w \in Nat, dm \in Nat, mm \in Nat, ds \in Nat, low \in Nat, size \in Nat
    <3>2. QED
      BY ONLY <2>2, <3>1
  <2>4. QED
    BY <2>3
<1>3. low <= w /\ w <= end /\ end - w = size /\ low + mm <= w
  <2>1. end = w + size
    BY <1>2
  <2>2. QED
    BY ONLY <1>8, <2>1, w \in Nat, dm \in Nat, mm \in Nat, ds \in Nat, low \in Nat, size \in Nat, end \in Nat
<1>4. CallSound(c) /\ Len(page) = End(c) - c.start
  BY <1>1, <1>2, <1>3 DEF CallSound
<1>5. CallReal(c)
  <2>1. c.type # ByU16
    BY DEF ByU16, ByU32
  <2>2. QED
    BY <1>1, <1>3, <2>1 DEF CallReal
<1>6. ASSUME NEW h \in Cells
      PROVE  CellSound(c, Candidate(c, DictCtx.table, h)) /\ Candidate(c, DictCtx.table, h) < w + 1
  <2>1. PICK v \in Nat : v = DictCtx.table[h]
    BY DictIs DEF StreamStates, Tables
  <2>2. Candidate(c, DictCtx.table, h) = v
    BY <2>1 DEF Candidate
  <2>3. v = 0 \/ (low <= v /\ v + mm <= w)
    BY <2>1, <1>1, DictIs
  <2>4. v + mm <= w /\ v < w + 1
    BY <2>3, <1>1
  <2>5. v < low => v + dm <= w
    BY <2>3, <1>1
  <2>6. v < low \/ low <= v
    OBVIOUS
  <2>7. CellSound(c, v)
    BY <2>4, <2>5, <2>6, <1>1 DEF CellSound
  <2>8. QED
    BY <2>2, <2>4, <2>7
<1>7. QED
  BY <1>1, <1>4, <1>5, <1>6 DEF TableSound

\* A call that also consults the table of the attached dictionary.
LEMMA BothReal ==
  ASSUME NEW s \in StreamStates, Behind(s.table, s.offset), s.offset >= Window, DictCtx.dictSize # 0,
         NEW page \in Seq(Byte), NEW c \in CallRecords,
         c.start = s.offset, c.low = s.offset - DictCtx.dictSize, c.bytes = DictBytes \o page, c.type = ByU32,
         c.dictTable = DictCtx.table, c.dictDelta = s.offset - Window
  PROVE  /\ CallSound(c) /\ Len(page) = End(c) - c.start
         /\ CallReal(c) /\ TableSound(c, s.table, c.start + 1)
<1>1. PICK w \in Nat \ {0}, dm \in Nat, mm \in Nat \ {0}, ds \in Nat, low \in Nat, size \in Nat, start \in Nat :
         /\ w = Window /\ dm = DistanceMax /\ mm = MINMATCH /\ dm = w - 1 /\ ds = DictCtx.dictSize
         /\ low = c.low /\ size = Len(page) /\ start = c.start /\ s.offset = start
         /\ ds <= w /\ mm < ds /\ low = start - ds /\ w <= start
  <2>1. PICK w \in Nat \ {0}, dm \in Nat, mm \in Nat \ {0}, ds \in Nat, low \in Nat, size \in Nat, start \in Nat :
           /\ w = Window /\ dm = DistanceMax /\ mm = MINMATCH /\ ds = DictCtx.dictSize
           /\ low = c.low /\ size = Len(page) /\ start = c.start
    <3>1. Len(page) \in Nat /\ c.low \in Nat /\ c.start \in Nat
      BY EndIs
    <3>2. DictCtx.dictSize \in Nat
      BY DictIs DEF StreamStates
    <3>3. QED
      BY <3>1, <3>2, WindowIs, Sizes
  <2>2. dm = w - 1 /\ ds <= w /\ mm < ds
    BY <2>1, WindowIs, DictIs
  <2>3. QED
    BY <2>1, <2>2
<1>8. dm = w - 1 /\ ds <= w /\ mm < ds /\ low = start - ds /\ w <= start
  BY <1>1
<1>2. PICK end \in Nat : end = End(c) /\ end = start + size
  <2>1. Len(DictBytes \o page) = ds + size
    <3>1. PICK b \in Seq(Byte) : b = DictBytes /\ Len(b) = ds
      BY <1>1, DictIs
    <3>2. Len(b \o page) = Len(b) + Len(page)
      BY ConcatProperties
    <3>3. QED
      BY ONLY <3>1, <3>2, <1>1
  <2>2. End(c) = low + (ds + size)
    BY <1>1, <2>1 DEF End
  <2>3. End(c) = start + size /\ End(c) \in Nat
    <3>1. low + (ds + size) = start + size /\ start + size \in Nat
      BY ONLY <1>8, w \in Nat, dm \in Nat, mm \in Nat, ds \in Nat, low \in Nat, size \in Nat, start \in Nat
    <3>2. QED
      BY ONLY <2>2, <3>1
  <2>4. QED
    BY <2>3
<1>3. low <= start /\ start <= end /\ end - start = size /\ low + mm <= start
  <2>1. end = start + size
    BY <1>2
  <2>2. QED
    BY ONLY <1>8, <2>1, w \in Nat, dm \in Nat, mm \in Nat, ds \in Nat, low \in Nat, size \in Nat, start \in Nat, end \in Nat
<1>4. CallSound(c) /\ Len(page) = End(c) - c.start
  BY <1>1, <1>2, <1>3 DEF CallSound
<1>5. CallReal(c)
  <2>1. c.type # ByU16
    BY DEF ByU16, ByU32
  <2>2. QED
    BY <1>1, <1>3, <2>1 DEF CallReal
<1>6. ASSUME NEW h \in Cells
      PROVE  CellSound(c, Candidate(c, s.table, h)) /\ Candidate(c, s.table, h) < start + 1
  <2>1. PICK u \in Nat, d \in Nat : u = s.table[h] /\ d = DictCtx.table[h]
    BY DictIs DEF StreamStates, Tables
  <2>2. u < start
    <3>1. u = 0 \/ u + mm <= start
      BY <2>1, <1>1 DEF Behind
    <3>2. start > 0
      BY <1>1
    <3>3. QED
      BY ONLY <3>1, <3>2, u \in Nat, mm \in Nat \ {0}, start \in Nat
  <2>3. PICK v \in Nat : v = d + (start - w)
    <3>1. d + (start - w) \in Nat
      BY <1>1
    <3>2. QED
      BY <3>1
  <2>4. Candidate(c, s.table, h) = v
    <3>1. DictCtx.table # <<>>
      <4>1. DictCtx.table \in Tables
        BY DictIs DEF StreamStates
      <4>2. DOMAIN DictCtx.table = Cells
        BY <4>1 DEF Tables
      <4>3. h \in DOMAIN DictCtx.table /\ DOMAIN <<>> = {}
        BY <4>2
      <4>4. QED
        BY <4>3
    <3>2. QED
      BY <2>1, <2>2, <2>3, <3>1, <1>1 DEF Candidate
  <2>5. d = 0 \/ (w - ds <= d /\ d + mm <= w)
    BY <2>1, <1>1, DictIs
  <2>6. v + mm <= start /\ v < start + 1
    BY ONLY <2>3, <2>5, <1>8, d \in Nat, v \in Nat, w \in Nat, dm \in Nat, mm \in Nat, ds \in Nat, low \in Nat, size \in Nat, start \in Nat
  <2>7. v < low => v + dm <= start
    BY ONLY <2>3, <2>5, <1>8, d \in Nat, v \in Nat, w \in Nat, dm \in Nat, mm \in Nat, ds \in Nat, low \in Nat, size \in Nat, start \in Nat
  <2>8. v < low \/ low <= v
    OBVIOUS
  <2>9. CellSound(c, v)
    BY <2>6, <2>7, <2>8, <1>1 DEF CellSound
  <2>10. QED
    BY <2>4, <2>6, <2>9
<1>7. QED
  BY <1>1, <1>4, <1>5, <1>6 DEF TableSound

-----------------------------------------------------------------------------
(* The actions. *)

\* One-shot compression with what has been prepared.
LEMMA PlainKeeps ==
  ASSUME LzInv, NEW s \in StreamStates, s.dictSize <= s.offset, Behind(s.table, s.offset),
         NEW page \in Seq(Byte), NEW c \in CallRecords,
         c.start = s.offset, c.low = s.offset, c.bytes = page, c.type = TypeFor(Len(page)),
         c.extern = FALSE, c.dictTable = <<>>, c.type = ByU16 => c.small \/ s.offset = 0,
         c.type = ByU32 => /\ s.offset = 0 \/ s.offset >= Window
                           /\ \A h \in Cells : s.table[h] = 0 \/ s.table[h] + MINMATCH + Window <= s.offset,
         LimitFits(c, Len(page)), NEW afterwards \in {"oneshot", "clean"}, OneShot(s, page, c, afterwards)
  PROVE  LzInv'
<1>1. CallSound(c) /\ Len(page) = End(c) - c.start /\ CallReal(c) /\ TableSound(c, s.table, c.start + 1)
  BY PlainReal
<1>2. /\ lz' = Entered(s, c) /\ work' = LzBegun(c, page, afterwards, Nowhere)
      /\ last' = LzNoCall /\ room' = room
  BY DEF OneShot, Begins, CallMade
<1>3. afterwards \in Purposes /\ Nowhere \in Nat
  BY DEF Purposes, Nowhere
<1>4. /\ lz' \in StreamStates /\ lz'.dictSize <= lz'.offset /\ Behind(lz'.table, lz'.offset)
      /\ WorkInv'
      /\ work' # LzIdle /\ work'.page = page /\ work'.afterwards = afterwards /\ work'.src = Nowhere
  BY <1>1, <1>2, <1>3, BeginKeeps
<1>5. LzTypeInv'
  BY <1>2, <1>4 DEF LzInv, LzTypeInv
<1>6. HistoryInv'
  BY <1>4 DEF HistoryInv
<1>7. LastInv'
  BY <1>2 DEF LastInv
<1>8. QED
  BY <1>4, <1>5, <1>6, <1>7 DEF LzInv

\* What the call of a one-shot compression is.
OneCall(s, page, tight, cap, speed, small) ==
  [Call(s, page, TypeFor(Len(page)), LimitFor(Len(page), cap, tight), cap, speed) EXCEPT !.small = small]

IsPlain(c, s, page, small) ==
  /\ c \in CallRecords
  /\ c.start = s.offset /\ c.low = s.offset /\ c.bytes = page /\ c.type = TypeFor(Len(page))
  /\ c.extern = FALSE /\ c.dictTable = <<>> /\ c.small = small
  /\ LimitFits(c, Len(page))

\* A call without a history is plain.
LEMMA CallIs ==
  ASSUME NEW s \in StreamStates, NEW page \in Seq(Byte), NEW tight \in {"limited", "fill"},
         NEW cap \in Nat, NEW speed \in Nat \ {0}, NEW small \in BOOLEAN
  PROVE  IsPlain(OneCall(s, page, tight, cap, speed, small), s, page, small)
<1>1. PICK size \in Nat : size = Len(page)
  OBVIOUS
<1>2. PICK type \in {ByU16, ByU32} : type = TypeFor(size)
  BY DEF TypeFor
<1>3. PICK bound \in Nat : bound = LzCompressBound(size)
  BY BoundIs
<1>4. PICK limit \in {"none", "limited", "fill"} :
         /\ limit = LimitFor(size, cap, tight)
         /\ limit = "none" => cap >= bound
         /\ limit = "fill" => cap < bound
  <2>1. LimitFor(size, cap, tight) = IF cap >= bound THEN "none" ELSE tight
    BY <1>3 DEF LimitFor
  <2>2. QED
    BY <2>1
<1>5. PICK offset \in Nat, empty \in Tables \cup {<<>>} : offset = s.offset /\ empty = <<>>
  BY DEF StreamStates
<1>6. PICK c : c = OneCall(s, page, tight, cap, speed, small)
  OBVIOUS
<1>7. c = [start |-> offset, low |-> offset, bytes |-> page, type |-> type, small |-> small,
           extern |-> FALSE, limit |-> limit, cap |-> cap, speed |-> speed,
           dictTable |-> empty, dictDelta |-> 0]
  BY <1>1, <1>2, <1>4, <1>5, <1>6 DEF Call, OneCall
<1>8. c \in CallRecords
  BY ONLY <1>7, offset \in Nat, page \in Seq(Byte), type \in {ByU16, ByU32}, small \in BOOLEAN,
          limit \in {"none", "limited", "fill"}, cap \in Nat, speed \in Nat \ {0}, empty \in Tables \cup {<<>>}
          DEF CallRecords
<1>9. LimitFits(c, size)
  BY <1>3, <1>4, <1>7 DEF LimitFits
<1>10. QED
  BY <1>1, <1>2, <1>5, <1>6, <1>7, <1>8, <1>9 DEF IsPlain

\* What a caller passes.
LEMMA ArgumentsAre ==
  ASSUME NEW page \in Pages, NEW speed \in Speeds, NEW cap \in Caps \cup {LzCompressBound(Len(page))}
  PROVE  /\ page \in Seq(Byte) /\ Len(page) \in Nat /\ Len(page) + Window <= RenormMax
         /\ speed \in Nat \ {0} /\ cap \in Nat
<1>1. page \in Seq(Byte) /\ Len(page) + Window <= RenormMax /\ speed \in Nat \ {0} /\ Caps \subseteq Nat
  BY CallsAssumption
<1>2. Len(page) \in Nat
  BY <1>1
<1>3. LzCompressBound(Len(page)) \in Nat
  BY <1>2, BoundIs
<1>4. QED
  BY <1>1, <1>2, <1>3

\* LZ4_compress_fast_extState_fastReset keeps everything.
LEMMA FastResetKeeps ==
  ASSUME LzInv, NEW page \in Seq(Byte), NEW cap \in Nat, NEW speed \in Nat \ {0},
         FastReset(page, cap, speed)
  PROVE  LzInv'
<1>1. PICK type \in {ByU16, ByU32} : type = TypeFor(Len(page))
  BY DEF TypeFor
<1>2. PICK s : s = PrepareTable(lz, Len(page), type)
  OBVIOUS
<1>3. lz \in StreamStates /\ Behind(lz.table, lz.offset) /\ Len(page) \in Nat
  BY DEF LzInv, LzTypeInv
<1>4. /\ s \in StreamStates /\ s.dictSize = 0
      /\ Behind(s.table, s.offset)
      /\ type = ByU32 => /\ s.offset = 0 \/ s.offset >= Window
                         /\ \A h \in Cells : s.table[h] = 0 \/ s.table[h] + MINMATCH + Window <= s.offset
  BY <1>2, <1>3, PrepareIs
<1>5. s.dictSize <= s.offset
  BY <1>4 DEF StreamStates
<1>6. PICK small \in BOOLEAN : small <=> (type = ByU16 /\ s.offset # 0)
  OBVIOUS
<1>7. PICK c : c = OneCall(s, page, "limited", cap, speed, small)
  OBVIOUS
<1>8. /\ c \in CallRecords
      /\ c.start = s.offset /\ c.low = s.offset /\ c.bytes = page /\ c.type = TypeFor(Len(page))
      /\ c.extern = FALSE /\ c.dictTable = <<>> /\ c.small = small
      /\ LimitFits(c, Len(page))
  <2>1. IsPlain(c, s, page, small)
    BY <1>4, <1>7, CallIs
  <2>2. QED
    BY <2>1 DEF IsPlain
<1>9. OneShot(s, page, c, "oneshot")
  <2>1. small = (type = ByU16 /\ s.offset # 0)
    BY <1>6
  <2>2. QED
    BY <1>1, <1>2, <1>7, <2>1 DEF FastReset, Prepared, OneCall
<1>10. c.type = ByU16 => c.small \/ s.offset = 0
  BY <1>1, <1>6, <1>8
<1>11. QED
  BY <1>1, <1>4, <1>5, <1>8, <1>9, <1>10, PlainKeeps

\* A block that is compressed with a fresh state.
LEMMA FreshKeeps ==
  ASSUME LzInv, NEW page \in Seq(Byte), NEW cap \in Nat, NEW speed \in Nat \ {0},
         NEW tight \in {"limited", "fill"}, NEW afterwards \in {"oneshot", "clean"},
         OneShot(FreshStream, page, Call(FreshStream, page, TypeFor(Len(page)),
                                         LimitFor(Len(page), cap, tight), cap, speed), afterwards)
  PROVE  LzInv'
<1>1. PICK s \in StreamStates : s = FreshStream
  BY EmptyIs
<1>2. s.offset = 0 /\ s.dictSize = 0 /\ \A h \in Cells : s.table[h] = 0
  BY <1>1, EmptyIs
<1>3. PICK c : c = OneCall(s, page, tight, cap, speed, FALSE)
  OBVIOUS
<1>4. /\ c \in CallRecords
      /\ c.start = s.offset /\ c.low = s.offset /\ c.bytes = page /\ c.type = TypeFor(Len(page))
      /\ c.extern = FALSE /\ c.dictTable = <<>>
      /\ LimitFits(c, Len(page))
  <2>1. IsPlain(c, s, page, FALSE)
    BY <1>3, CallIs
  <2>2. QED
    BY <2>1 DEF IsPlain
<1>5. c = Call(s, page, TypeFor(Len(page)), LimitFor(Len(page), cap, tight), cap, speed)
  BY <1>3 DEF Call, OneCall
<1>6. OneShot(s, page, c, afterwards)
  BY <1>1, <1>5
<1>7. Behind(s.table, s.offset)
  BY <1>2 DEF Behind
<1>8. s.dictSize <= s.offset
  BY <1>2
<1>9. QED
  BY <1>2, <1>4, <1>6, <1>7, <1>8, PlainKeeps

\* LZ4_compress_fast_extState keeps everything.
LEMMA ExtStateKeeps ==
  ASSUME LzInv, NEW page \in Seq(Byte), NEW cap \in Nat, NEW speed \in Nat \ {0},
         ExtState(page, cap, speed)
  PROVE  LzInv'
  BY FreshKeeps DEF ExtState

\* LZ4_compress_destSize_extState keeps everything.
LEMMA DestSizeKeeps ==
  ASSUME LzInv, NEW page \in Seq(Byte), NEW cap \in Nat, NEW speed \in Nat \ {0},
         DestSize(page, cap, speed)
  PROVE  LzInv'
  BY FreshKeeps DEF DestSize

\* A block of a stream with a history of its own.
LEMMA OwnKeeps ==
  ASSUME LzInv, NEW s \in StreamStates, Behind(s.table, s.offset), s.dictSize <= s.offset, Ready(s), ~s.ctx,
         NEW page \in Seq(Byte), NEW src \in Nat \ {0}, src + Len(page) <= Lz4Memory + 1,
         NEW history \in Seq(Byte), Len(history) = s.dictSize, NEW c \in CallRecords,
         c.start = s.offset, c.low = s.offset - s.dictSize, c.bytes = history \o page, c.type = ByU32,
         c.dictTable = <<>>, c.small = (s.dictSize < Window /\ s.dictSize < s.offset), c.limit = "limited",
         c.extern = ~(s.dictAt + s.dictSize = src),
         Len(page) > 0 /\ s.dictAt + s.dictSize # src => s.dictSize = 0 \/ s.dictSize >= MINMATCH,
         lz' = Entered(s, c), last' = LzNoCall, room' \in Memories,
         work' = LzBegun(c, page, IF s.dictAt + s.dictSize = src THEN "prefix" ELSE "external", src)
  PROVE  LzInv'
<1>1. /\ CallSound(c) /\ Len(page) = End(c) - c.start
      /\ Len(page) > 0 => CallReal(c) /\ TableSound(c, s.table, c.start + 1)
  BY OwnReal
<1>2. PICK afterwards \in Purposes : afterwards = IF s.dictAt + s.dictSize = src THEN "prefix" ELSE "external"
  BY DEF Purposes
<1>3. LimitFits(c, Len(page))
  BY DEF LimitFits
<1>4. /\ lz' \in StreamStates /\ lz'.dictSize <= lz'.offset /\ Behind(lz'.table, lz'.offset)
      /\ WorkInv'
      /\ work' # LzIdle /\ work'.page = page /\ work'.afterwards = afterwards /\ work'.src = src
  BY <1>1, <1>2, <1>3, BeginKeeps
<1>5. LzTypeInv' /\ LastInv'
  BY <1>4 DEF LzTypeInv, LastInv
<1>6. PICK size \in Nat, offset \in Nat, dictAt \in Nat, dictSize \in Nat, lm \in Nat :
         /\ size = Len(page) /\ offset = s.offset /\ dictAt = s.dictAt /\ dictSize = s.dictSize /\ lm = Lz4Memory
         /\ src + size <= lm + 1 /\ dictSize <= offset
  <2>1. Len(page) \in Nat /\ s.offset \in Nat /\ s.dictAt \in Nat /\ s.dictSize \in Nat /\ Lz4Memory \in Nat
    BY WindowIs DEF StreamStates
  <2>2. QED
    BY <2>1
<1>7. PICK e \in StreamStates : e = lz'
  BY <1>4
<1>8. /\ size = 0 => e = s
      /\ size # 0 => /\ e.offset = offset + size /\ e.dictAt = dictAt /\ e.dictSize = dictSize + size
                     /\ e.ctx = FALSE
  <2>1. size = End(c) - c.start /\ c.limit # "fill"
    BY <1>1, <1>6
  <2>2. size # 0 => /\ e.offset = s.offset + size /\ e.dictAt = s.dictAt
                     /\ e.dictSize = (IF c.dictTable # <<>> THEN size ELSE s.dictSize + size)
                     /\ e.ctx = (s.ctx /\ c.dictTable = <<>>)
    <3>1. ASSUME size # 0
          PROVE  /\ Entered(s, c).offset = s.offset + size
                 /\ Entered(s, c).dictAt = s.dictAt
                 /\ Entered(s, c).dictSize = IF c.dictTable # <<>> THEN size ELSE s.dictSize + size
                 /\ Entered(s, c).ctx = (s.ctx /\ c.dictTable = <<>>)
      BY ONLY <2>1, <3>1, <1>1, EnteredIs, s \in StreamStates, c \in CallRecords, s.dictSize <= s.offset
    <3>2. QED
      BY <3>1, <1>7
  <2>3. size = 0 => e = s
    BY <2>1, <1>1, <1>6, <1>7, EnteredIs
  <2>4. QED
    BY <2>2, <2>3, <1>6
<1>9. e.ctx = FALSE
  BY <1>8 DEF StreamStates
<1>10. ASSUME dictAt + dictSize = src PROVE Ready(e) /\ e.dictAt >= 1
  <2>1. dictAt >= 1
    <3>1. CASE dictSize = 0
      BY <3>1, <1>10
    <3>2. CASE dictSize # 0
      BY <3>2, <1>6 DEF Ready
    <3>3. QED
      BY <3>1, <3>2
  <2>2. CASE size = 0
    BY <2>1, <2>2, <1>6, <1>8
  <2>3. CASE size # 0
    <3>1. dictAt + (dictSize + size) <= lm + 1
      BY ONLY <1>10, <1>6, size \in Nat, dictAt \in Nat, dictSize \in Nat, src \in Nat, lm \in Nat
    <3>2. e.dictAt = dictAt /\ e.dictSize = dictSize + size
      BY <2>3, <1>8
    <3>3. dictAt # 0
      BY <2>1
    <3>4. Ready(e)
      BY <2>1, <3>1, <3>2, <3>3, <1>6, <1>9 DEF Ready, Nowhere
    <3>5. QED
      BY <2>1, <3>2, <3>4
  <2>4. QED
    BY <2>2, <2>3
<1>11. size <= e.offset
  <2>1. e.offset \in Nat
    BY DEF StreamStates
  <2>2. QED
    BY <2>1, <1>8
<1>12. HistoryInv'
  <2>1. src >= 1
    OBVIOUS
  <2>2. work'.afterwards = "prefix" => Ready(e) /\ e.dictAt >= 1
    BY <1>2, <1>4, <1>6, <1>10
  <2>3. work' # LzIdle /\ work'.src = src /\ work'.page = page /\ lz' = e
    BY <1>4, <1>7
  <2>4. HistoryInv' <=>
          /\ usage' = "stream" /\ work' = LzIdle => Ready(lz')
          /\ work' # LzIdle /\ work'.afterwards = "prefix" => Ready(lz') /\ lz'.dictAt >= 1
          /\ work' # LzIdle /\ work'.afterwards = "external" =>
                /\ work'.src >= 1 /\ work'.src + Len(work'.page) <= Lz4Memory + 1
                /\ Len(work'.page) <= lz'.offset
                /\ lz'.ctx => Len(work'.page) = 0 /\ lz'.offset >= Window /\ DictCtx.dictSize # 0
    BY DEF HistoryInv
  <2>5. QED
    BY <2>1, <2>2, <2>3, <2>4, <1>6, <1>9, <1>11
<1>13. QED
  BY <1>4, <1>5, <1>12 DEF LzInv

\* A block of a stream to which the dictionary context is attached.
LEMMA AttachedKeeps ==
  ASSUME LzInv, NEW s \in StreamStates, Behind(s.table, s.offset), s.dictSize <= s.offset, s.offset >= Window,
         DictCtx.dictSize # 0,
         NEW page \in Seq(Byte), NEW src \in Nat \ {0}, src + Len(page) <= Lz4Memory + 1, NEW c \in CallRecords,
         c.start = s.offset, c.low = s.offset - DictCtx.dictSize, c.bytes = DictBytes \o page, c.type = ByU32,
         c.limit = "limited",
         \/ s = DictCtx /\ c.dictTable = <<>>
         \/ c.dictTable = DictCtx.table /\ c.dictDelta = s.offset - Window,
         lz' = Entered(s, c), last' = LzNoCall, room' \in Memories,
         work' = LzBegun(c, page, "external", src)
  PROVE  LzInv'
<1>1. CallSound(c) /\ Len(page) = End(c) - c.start /\ CallReal(c) /\ TableSound(c, s.table, c.start + 1)
  <2>1. CASE s = DictCtx /\ c.dictTable = <<>>
    <3>1. c.start = Window /\ c.low = Window - DictCtx.dictSize
      BY <2>1, DictIs
    <3>2. QED
      BY <2>1, <3>1, CopyReal
  <2>2. CASE c.dictTable = DictCtx.table /\ c.dictDelta = s.offset - Window
    BY <2>2, BothReal
  <2>3. QED
    BY <2>1, <2>2
<1>2. "external" \in Purposes
  BY DEF Purposes
<1>3. LimitFits(c, Len(page))
  BY DEF LimitFits
<1>4. /\ lz' \in StreamStates /\ lz'.dictSize <= lz'.offset /\ Behind(lz'.table, lz'.offset)
      /\ WorkInv'
      /\ work' # LzIdle /\ work'.page = page /\ work'.afterwards = "external" /\ work'.src = src
  BY <1>1, <1>2, <1>3, BeginKeeps
<1>5. LzTypeInv' /\ LastInv'
  BY <1>4 DEF LzTypeInv, LastInv
<1>6. PICK size \in Nat, offset \in Nat : size = Len(page) /\ offset = s.offset
  <2>1. Len(page) \in Nat /\ s.offset \in Nat
    BY DEF StreamStates
  <2>2. QED
    BY <2>1
<1>7. PICK e \in StreamStates : e = lz'
  BY <1>4
<1>8. /\ size = 0 => e = s
      /\ size # 0 => e.offset = offset + size /\ e.ctx = FALSE
  <2>1. size = End(c) - c.start /\ c.limit # "fill"
    BY <1>1, <1>6
  <2>2. size # 0 => e.offset = offset + size /\ e.ctx = (s.ctx /\ c.dictTable = <<>>)
    BY <2>1, <1>1, <1>6, <1>7, EnteredIs
  <2>3. size = 0 => e = s
    BY <2>1, <1>1, <1>6, <1>7, EnteredIs
  <2>4. ~(s.ctx /\ c.dictTable = <<>>)
    <3>1. CASE s = DictCtx
      BY <3>1, DictIs
    <3>2. CASE c.dictTable = DictCtx.table
      <4>1. DictCtx.table \in Tables
        BY DictIs DEF StreamStates
      <4>2. DOMAIN DictCtx.table = Cells
        BY <4>1 DEF Tables
      <4>3. 0 \in Cells
        <5>1. PICK n \in Nat \ {0} : n = HashSize
          BY Sizes
        <5>2. 0 \in 0 .. 2 * n - 1
          OBVIOUS
        <5>3. QED
          BY <5>1, <5>2 DEF Cells
      <4>4. DOMAIN <<>> = {}
        OBVIOUS
      <4>5. QED
        BY <3>2, <4>2, <4>3, <4>4
    <3>3. QED
      BY <3>1, <3>2
  <2>5. QED
    BY <2>2, <2>3, <2>4
<1>9. e.ctx => size = 0 /\ e.offset >= Window
  BY <1>8
<1>10. size <= e.offset
  <2>1. e.offset \in Nat
    BY DEF StreamStates
  <2>2. QED
    BY <2>1, <1>8
<1>11. HistoryInv'
  <2>1. src >= 1
    OBVIOUS
  <2>2. work' # LzIdle /\ work'.src = src /\ work'.page = page /\ lz' = e /\ work'.afterwards = "external"
    BY <1>4, <1>7
  <2>3. HistoryInv' <=>
          /\ usage' = "stream" /\ work' = LzIdle => Ready(lz')
          /\ work' # LzIdle /\ work'.afterwards = "prefix" => Ready(lz') /\ lz'.dictAt >= 1
          /\ work' # LzIdle /\ work'.afterwards = "external" =>
                /\ work'.src >= 1 /\ work'.src + Len(work'.page) <= Lz4Memory + 1
                /\ Len(work'.page) <= lz'.offset
                /\ lz'.ctx => Len(work'.page) = 0 /\ lz'.offset >= Window /\ DictCtx.dictSize # 0
    BY DEF HistoryInv
  <2>4. QED
    BY <2>1, <2>2, <2>3, <1>6, <1>9, <1>10
<1>12. QED
  BY <1>4, <1>5, <1>11 DEF LzInv

\* The three ways in which a block of a stream is linked to what is before it.
LEMMA LinkKeeps ==
  ASSUME LzInv, NEW s \in StreamStates, Behind(s.table, s.offset), s.dictSize <= s.offset, Ready(s),
         NEW page \in Seq(Byte), NEW src \in Nat \ {0}, src + Len(page) <= Lz4Memory + 1,
         NEW cap \in Nat, NEW speed \in Nat \ {0},
         ~s.ctx /\ Len(page) > 0 /\ s.dictAt + s.dictSize # src => s.dictSize = 0 \/ s.dictSize >= MINMATCH,
         room' \in Memories, LinkBlock(s, src, page, Call(s, page, ByU32, "limited", cap, speed))
  PROVE  LzInv'
<1>1. PICK offset \in Nat, dictAt \in Nat, dictSize \in Nat, lm \in Nat :
         offset = s.offset /\ dictAt = s.dictAt /\ dictSize = s.dictSize /\ lm = Lz4Memory /\ dictSize <= offset
  BY WindowIs DEF StreamStates
<1>2. PICK plain : plain = Call(s, page, ByU32, "limited", cap, speed)
  OBVIOUS
<1>3. PICK empty \in Tables \cup {<<>>}, limit \in {"none", "limited", "fill"}, type \in {ByU16, ByU32} :
         empty = <<>> /\ limit = "limited" /\ type = ByU32
  OBVIOUS
<1>4. plain = [start |-> offset, low |-> offset, bytes |-> page, type |-> type, small |-> FALSE,
               extern |-> FALSE, limit |-> limit, cap |-> cap, speed |-> speed,
               dictTable |-> empty, dictDelta |-> 0]
  BY <1>1, <1>2, <1>3 DEF Call
<1>5. PICK history : history = BytesAt(room', dictAt, dictSize)
  OBVIOUS
<1>6. PICK ds \in Nat, dc \in StreamStates :
         dc = DictCtx /\ ds = dc.dictSize /\ dc.offset = Window /\ dc.ctx = FALSE /\ ds <= Window
  BY DictIs DEF StreamStates
<1>7. CASE ~s.ctx /\ Begins(s, [plain EXCEPT !.low = @ - s.dictSize, !.bytes = history \o page,
                                             !.extern = ~(~s.ctx /\ s.dictAt + s.dictSize = src),
                                             !.small = s.dictSize < Window /\ s.dictSize < s.offset],
                            page, IF ~s.ctx /\ s.dictAt + s.dictSize = src THEN "prefix" ELSE "external", src)
  <2>1. history \in Seq(Byte) /\ Len(history) = dictSize
    <3>1. dictSize > 0 => dictAt >= 1 /\ dictAt + dictSize <= Lz4Memory + 1
      BY <1>1 DEF Ready
    <3>2. QED
      BY <1>5, <3>1, BytesAtIs
  <2>2. PICK low \in Nat : low = offset - dictSize
    <3>1. offset - dictSize \in Nat
      BY <1>1
    <3>2. QED
      BY <3>1
  <2>3. PICK extern \in BOOLEAN, small \in BOOLEAN :
           /\ extern = (~(s.dictAt + s.dictSize = src))
           /\ small = (s.dictSize < Window /\ s.dictSize < s.offset)
    OBVIOUS
  <2>4. PICK bytes \in Seq(Byte) : bytes = history \o page
    BY <2>1, ConcatProperties
  <2>5. PICK c : c = [plain EXCEPT !.low = low, !.bytes = bytes, !.extern = extern, !.small = small]
    OBVIOUS
  <2>6. c = [start |-> offset, low |-> low, bytes |-> bytes, type |-> type, small |-> small,
             extern |-> extern, limit |-> limit, cap |-> cap, speed |-> speed,
             dictTable |-> empty, dictDelta |-> 0]
    BY <1>4, <2>5
  <2>7. c \in CallRecords
    BY ONLY <2>6, offset \in Nat, low \in Nat, bytes \in Seq(Byte), type \in {ByU16, ByU32}, small \in BOOLEAN,
            extern \in BOOLEAN, limit \in {"none", "limited", "fill"}, cap \in Nat, speed \in Nat \ {0},
            empty \in Tables \cup {<<>>} DEF CallRecords
  <2>8. Begins(s, c, page, IF s.dictAt + s.dictSize = src THEN "prefix" ELSE "external", src)
    <3>1. plain.low = offset
      BY <1>4
    <3>2. c = [plain EXCEPT !.low = @ - s.dictSize, !.bytes = history \o page,
                            !.extern = ~(~s.ctx /\ s.dictAt + s.dictSize = src),
                            !.small = s.dictSize < Window /\ s.dictSize < s.offset]
      BY <3>1, <1>1, <1>4, <1>7, <2>2, <2>3, <2>4, <2>5
    <3>3. QED
      BY <3>2, <1>7
  <2>9. /\ c.start = s.offset /\ c.low = s.offset - s.dictSize /\ c.bytes = history \o page /\ c.type = ByU32
        /\ c.dictTable = <<>> /\ c.small = (s.dictSize < Window /\ s.dictSize < s.offset) /\ c.limit = "limited"
        /\ c.extern = ~(s.dictAt + s.dictSize = src)
    BY <1>1, <1>3, <2>2, <2>3, <2>4, <2>6
  <2>10. /\ lz' = Entered(s, c) /\ last' = LzNoCall
         /\ work' = LzBegun(c, page, IF s.dictAt + s.dictSize = src THEN "prefix" ELSE "external", src)
    BY <2>8 DEF Begins, CallMade
  <2>11. ~s.ctx
    BY <1>7
  <2>12. Len(history) = s.dictSize
    BY <2>1, <1>1
  <2>13. QED
    BY <2>1, <2>7, <2>9, <2>10, <2>11, <2>12, OwnKeeps
<1>8. ASSUME NEW b, NEW start \in Nat, NEW table \in Tables \cup {<<>>}, NEW delta \in Nat,
             s.ctx, b \in StreamStates, Behind(b.table, b.offset), b.dictSize <= b.offset, b.offset >= Window,
             start = b.offset,
             \/ b = DictCtx /\ table = <<>>
             \/ table = DictCtx.table /\ delta = b.offset - Window,
             NEW c, Begins(b, c, page, "external", src),
             c = [plain EXCEPT !.start = start, !.low = start - ds, !.bytes = DictBytes \o page, !.extern = TRUE,
                               !.dictTable = table, !.dictDelta = delta]
      PROVE  LzInv'
  <2>1. DictCtx.dictSize # 0
    BY <1>8 DEF Ready
  <2>2. PICK low \in Nat : low = start - ds
    <3>1. PICK w \in Nat : w = Window
      BY WindowIs
    <3>2. ds <= w /\ w <= start
      BY <1>6, <1>8, <3>1
    <3>3. start - ds \in Nat
      BY <3>2
    <3>4. QED
      BY <3>3
  <2>3. PICK bytes \in Seq(Byte) : bytes = DictBytes \o page
    <3>1. PICK d \in Seq(Byte) : d = DictBytes
      BY DictIs
    <3>2. d \o page \in Seq(Byte)
      BY ConcatProperties
    <3>3. QED
      BY <3>1, <3>2
  <2>4. c = [start |-> start, low |-> low, bytes |-> bytes, type |-> type, small |-> FALSE,
             extern |-> TRUE, limit |-> limit, cap |-> cap, speed |-> speed,
             dictTable |-> table, dictDelta |-> delta]
    BY <1>4, <1>8, <2>2, <2>3
  <2>5. c \in CallRecords
    BY ONLY <2>4, start \in Nat, low \in Nat, bytes \in Seq(Byte), type \in {ByU16, ByU32},
            limit \in {"none", "limited", "fill"}, cap \in Nat, speed \in Nat \ {0},
            table \in Tables \cup {<<>>}, delta \in Nat DEF CallRecords
  <2>6. /\ c.start = b.offset /\ c.low = b.offset - DictCtx.dictSize /\ c.bytes = DictBytes \o page
        /\ c.type = ByU32 /\ c.limit = "limited" /\ c.dictTable = table /\ c.dictDelta = delta
    <3>1. /\ c.start = start /\ c.low = low /\ c.bytes = bytes /\ c.type = type /\ c.limit = limit
          /\ c.dictTable = table /\ c.dictDelta = delta
      BY ONLY <2>4
    <3>2. start = b.offset
      BY <1>8
    <3>3. ds = DictCtx.dictSize
      BY <1>6
    <3>4. QED
      BY ONLY <3>1, <3>2, <3>3, <1>3, <2>2, <2>3
  <2>7. lz' = Entered(b, c) /\ last' = LzNoCall /\ work' = LzBegun(c, page, "external", src)
    BY <1>8 DEF Begins, CallMade
  <2>8. \/ b = DictCtx /\ c.dictTable = <<>>
        \/ c.dictTable = DictCtx.table /\ c.dictDelta = b.offset - Window
    BY <1>8, <2>6
  <2>9. QED
    BY <1>8, <2>1, <2>5, <2>6, <2>7, <2>8, AttachedKeeps
<1>9. CASE s.ctx /\ Begins(DictCtx, [[plain EXCEPT !.low = @ - DictCtx.dictSize, !.bytes = DictBytes \o page,
                                                   !.extern = TRUE]
                                        EXCEPT !.start = DictCtx.offset,
                                               !.low = DictCtx.offset - DictCtx.dictSize],
                           page, "external", src)
  <2>1. PICK w \in Nat : w = Window
    BY WindowIs
  <2>2. PICK c : c = [plain EXCEPT !.start = w, !.low = w - ds, !.bytes = DictBytes \o page, !.extern = TRUE,
                                   !.dictTable = empty, !.dictDelta = 0]
    OBVIOUS
  <2>3. c = [[plain EXCEPT !.low = @ - DictCtx.dictSize, !.bytes = DictBytes \o page, !.extern = TRUE]
                EXCEPT !.start = DictCtx.offset, !.low = DictCtx.offset - DictCtx.dictSize]
    <3>1. PICK x, y, z : x = plain.low - DictCtx.dictSize /\ y = w - ds /\ z = DictBytes \o page
      OBVIOUS
    <3>2. DictCtx.offset = w /\ DictCtx.offset - DictCtx.dictSize = y
      BY <2>1, <3>1, <1>6
    <3>3. c = [[plain EXCEPT !.low = x, !.bytes = z, !.extern = TRUE] EXCEPT !.start = w, !.low = y]
      <4>1. c = [plain EXCEPT !.start = w, !.low = y, !.bytes = z, !.extern = TRUE,
                              !.dictTable = empty, !.dictDelta = 0]
        BY ONLY <2>2, <3>1
      <4>2. c = [start |-> w, low |-> y, bytes |-> z, type |-> type, small |-> FALSE, extern |-> TRUE,
                  limit |-> limit, cap |-> cap, speed |-> speed, dictTable |-> empty, dictDelta |-> 0]
        BY ONLY <4>1, <1>4
      <4>5. PICK m : m = [plain EXCEPT !.low = x, !.bytes = z, !.extern = TRUE]
        OBVIOUS
      <4>6. m = [start |-> offset, low |-> x, bytes |-> z, type |-> type, small |-> FALSE, extern |-> TRUE,
                  limit |-> limit, cap |-> cap, speed |-> speed, dictTable |-> empty, dictDelta |-> 0]
        BY ONLY <4>5, <1>4
      <4>8. PICK n : n = [m EXCEPT !.start = w, !.low = y]
        OBVIOUS
      <4>9. n = [start |-> w, low |-> y, bytes |-> z, type |-> type, small |-> FALSE, extern |-> TRUE,
                  limit |-> limit, cap |-> cap, speed |-> speed, dictTable |-> empty, dictDelta |-> 0]
        BY ONLY <4>6, <4>8
      <4>7. [m EXCEPT !.start = w, !.low = y]
              = [start |-> w, low |-> y, bytes |-> z, type |-> type, small |-> FALSE, extern |-> TRUE,
                  limit |-> limit, cap |-> cap, speed |-> speed, dictTable |-> empty, dictDelta |-> 0]
        BY ONLY <4>8, <4>9
      <4>3. [[plain EXCEPT !.low = x, !.bytes = z, !.extern = TRUE] EXCEPT !.start = w, !.low = y]
              = [start |-> w, low |-> y, bytes |-> z, type |-> type, small |-> FALSE, extern |-> TRUE,
                  limit |-> limit, cap |-> cap, speed |-> speed, dictTable |-> empty, dictDelta |-> 0]
        BY ONLY <4>5, <4>7
      <4>4. QED
        BY ONLY <4>2, <4>3
    <3>4. QED
      BY ONLY <3>1, <3>2, <3>3
  <2>4. Begins(dc, c, page, "external", src)
    BY <1>6, <1>9, <2>3
  <2>5. Behind(dc.table, dc.offset)
    BY <1>6, DictIs DEF Behind
  <2>6. dc.dictSize <= dc.offset /\ dc.offset >= Window /\ w = dc.offset
    BY <1>6, <2>1
  <2>7. dc = DictCtx /\ empty = <<>>
    BY <1>3, <1>6
  <2>8. QED
    BY <1>8, <1>9, <2>2, <2>4, <2>5, <2>6, <2>7
<1>10. CASE s.ctx /\ Begins(s, [[plain EXCEPT !.low = @ - DictCtx.dictSize, !.bytes = DictBytes \o page,
                                              !.extern = TRUE]
                                   EXCEPT !.dictTable = DictCtx.table,
                                          !.dictDelta = s.offset - DictCtx.offset],
                            page, "external", src)
  <2>1. offset >= Window
    BY <1>1, <1>10 DEF Ready
  <2>2. PICK delta \in Nat : delta = offset - Window
    <3>1. PICK w \in Nat : w = Window
      BY WindowIs
    <3>2. offset - w \in Nat
      BY <2>1, <3>1
    <3>3. QED
      BY <3>1, <3>2
  <2>3. PICK table \in Tables \cup {<<>>} : table = DictCtx.table
    BY <1>6 DEF StreamStates
  <2>4. PICK c : c = [plain EXCEPT !.start = offset, !.low = offset - ds, !.bytes = DictBytes \o page,
                                   !.extern = TRUE, !.dictTable = table, !.dictDelta = delta]
    OBVIOUS
  <2>5. c = [[plain EXCEPT !.low = @ - DictCtx.dictSize, !.bytes = DictBytes \o page, !.extern = TRUE]
                EXCEPT !.dictTable = DictCtx.table, !.dictDelta = s.offset - DictCtx.offset]
    <3>1. PICK x, z : x = offset - ds /\ z = DictBytes \o page
      OBVIOUS
    <3>2. plain.low = offset
      BY <1>4
    <3>3. plain.low - DictCtx.dictSize = x /\ s.offset - DictCtx.offset = delta
      BY <3>1, <3>2, <2>2, <1>1, <1>6
    <3>4. c = [[plain EXCEPT !.low = x, !.bytes = z, !.extern = TRUE]
                 EXCEPT !.dictTable = table, !.dictDelta = delta]
      <4>1. c = [plain EXCEPT !.start = offset, !.low = x, !.bytes = z, !.extern = TRUE,
                              !.dictTable = table, !.dictDelta = delta]
        BY ONLY <2>4, <3>1
      <4>2. c = [start |-> offset, low |-> x, bytes |-> z, type |-> type, small |-> FALSE, extern |-> TRUE,
                  limit |-> limit, cap |-> cap, speed |-> speed, dictTable |-> table, dictDelta |-> delta]
        BY ONLY <4>1, <1>4
      <4>5. PICK m : m = [plain EXCEPT !.low = x, !.bytes = z, !.extern = TRUE]
        OBVIOUS
      <4>6. m = [start |-> offset, low |-> x, bytes |-> z, type |-> type, small |-> FALSE, extern |-> TRUE,
                  limit |-> limit, cap |-> cap, speed |-> speed, dictTable |-> empty, dictDelta |-> 0]
        BY ONLY <4>5, <1>4
      <4>8. PICK n : n = [m EXCEPT !.dictTable = table, !.dictDelta = delta]
        OBVIOUS
      <4>9. n = [start |-> offset, low |-> x, bytes |-> z, type |-> type, small |-> FALSE, extern |-> TRUE,
                  limit |-> limit, cap |-> cap, speed |-> speed, dictTable |-> table, dictDelta |-> delta]
        BY ONLY <4>6, <4>8
      <4>7. [m EXCEPT !.dictTable = table, !.dictDelta = delta]
              = [start |-> offset, low |-> x, bytes |-> z, type |-> type, small |-> FALSE, extern |-> TRUE,
                  limit |-> limit, cap |-> cap, speed |-> speed, dictTable |-> table, dictDelta |-> delta]
        BY ONLY <4>8, <4>9
      <4>3. [[plain EXCEPT !.low = x, !.bytes = z, !.extern = TRUE] EXCEPT !.dictTable = table, !.dictDelta = delta]
              = [start |-> offset, low |-> x, bytes |-> z, type |-> type, small |-> FALSE, extern |-> TRUE,
                  limit |-> limit, cap |-> cap, speed |-> speed, dictTable |-> table, dictDelta |-> delta]
        BY ONLY <4>5, <4>7
      <4>4. QED
        BY ONLY <4>2, <4>3
    <3>5. QED
      BY ONLY <3>1, <3>3, <3>4, <2>3
  <2>6. Begins(s, c, page, "external", src)
    BY <1>10, <2>5
  <2>7. s.offset >= Window /\ offset = s.offset
    BY <1>1, <2>1
  <2>8. table = DictCtx.table /\ delta = s.offset - Window
    BY <2>2, <2>3, <1>1
  <2>9. QED
    BY <1>8, <1>10, <2>4, <2>6, <2>7, <2>8
<1>11. QED
  <2>1. PICK own : own = [plain EXCEPT !.low = @ - s.dictSize, !.bytes = history \o page,
                                       !.extern = ~(~s.ctx /\ s.dictAt + s.dictSize = src),
                                       !.small = s.dictSize < Window /\ s.dictSize < s.offset]
    OBVIOUS
  <2>2. LinkBlock(s, src, page, plain)
    BY <1>2
  <2>3. history = BytesAt(room', s.dictAt, s.dictSize)
    BY <1>1, <1>5
  <2>4. QED
    BY <2>2, <2>3, <1>7, <1>9, <1>10 DEF LinkBlock

\* LZ4_compress_fast_continue keeps everything.
LEMMA LzContinueKeeps ==
  ASSUME LzInv, NEW page \in Seq(Byte), Len(page) + Window <= RenormMax, NEW src \in Nat \ {0},
         NEW cap \in Nat, NEW speed \in Nat \ {0}, LzContinue(src, page, cap, speed)
  PROVE  LzInv'
<1>1. PICK size \in Nat : size = Len(page)
  OBVIOUS
<1>2. PICK s : s = RenormDict(lz, size)
  OBVIOUS
<1>3. PICK t : t = WithoutTiny(s, src, size)
  OBVIOUS
<1>4. PICK u : u = WithoutOverlap(t, src + size)
  OBVIOUS
<1>5. /\ usage = "stream"
      /\ src + size - 1 <= Lz4Memory
      /\ room' = Written(room, src, page)
      /\ LinkBlock(u, src, page, Call(u, page, ByU32, "limited", cap, speed))
  BY <1>1, <1>2, <1>3, <1>4 DEF LzContinue
<1>6. work = LzIdle
  BY <1>5 DEF LinkBlock, Begins, CallMade
<1>7. /\ lz \in StreamStates /\ lz.dictSize <= lz.offset /\ Behind(lz.table, lz.offset) /\ room \in Memories
      /\ Ready(lz)
  BY <1>5, <1>6 DEF LzInv, LzTypeInv, HistoryInv
<1>8. s \in StreamStates /\ Behind(s.table, s.offset) /\ s.dictSize <= s.offset /\ Ready(s)
  BY <1>1, <1>2, <1>7, RenormIs
<1>9. /\ t \in StreamStates /\ t.table = s.table /\ t.offset = s.offset
      /\ t.dictSize <= t.offset /\ Ready(t)
      /\ ~t.ctx /\ size > 0 /\ t.dictAt + t.dictSize # src => t.dictSize >= MINMATCH
  BY <1>3, <1>8, TinyIs
<1>10. /\ u \in StreamStates /\ u.table = t.table /\ u.offset = t.offset
       /\ u.dictSize <= u.offset /\ Ready(u)
       /\ u = t \/ u.dictSize = 0 \/ u.dictSize >= MINMATCH
  <2>1. PICK end \in Nat : end = src + size
    OBVIOUS
  <2>2. QED
    BY <2>1, <1>4, <1>9, OverlapIs
<1>11. Behind(u.table, u.offset)
  BY <1>8, <1>9, <1>10
<1>12. ~u.ctx /\ Len(page) > 0 /\ u.dictAt + u.dictSize # src => u.dictSize = 0 \/ u.dictSize >= MINMATCH
  BY <1>1, <1>9, <1>10
<1>13. room' \in Memories
  BY <1>5, <1>7, WrittenIs
<1>14. src + Len(page) <= Lz4Memory + 1
  <2>1. PICK lm \in Nat : lm = Lz4Memory
    BY WindowIs
  <2>2. src + size <= lm + 1
    BY <2>1, <1>5
  <2>3. QED
    BY <2>1, <2>2, <1>1
<1>15. QED
  BY <1>5, <1>10, <1>11, <1>12, <1>13, <1>14, LinkKeeps

\* The actions that only change the state between two calls.
LEMMA IdleKeeps ==
  ASSUME LzInv, CallMade, UNCHANGED work, lz' \in StreamStates, lz'.dictSize <= lz'.offset,
         Behind(lz'.table, lz'.offset), room' \in Memories, usage' = "stream" => Ready(lz')
  PROVE  LzInv'
<1>1. work' = LzIdle /\ last' = LzNoCall
  BY DEF CallMade
<1>2. LzTypeInv'
  BY DEF LzTypeInv
<1>3. WorkInv'
  BY <1>1 DEF WorkInv
<1>4. HistoryInv'
  BY <1>1 DEF HistoryInv
<1>5. LastInv'
  BY <1>1 DEF LastInv
<1>6. QED
  BY <1>2, <1>3, <1>4, <1>5 DEF LzInv

\* LZ4_initStream keeps everything.
LEMMA InitStreamKeeps ==
  ASSUME LzInv, InitStream
  PROVE  LzInv'
<1>1. CallMade /\ UNCHANGED work /\ lz' = FreshStream /\ room' \in Memories
  BY DEF InitStream, LzInv, LzTypeInv
<1>2. /\ lz' \in StreamStates /\ lz'.offset = 0 /\ lz'.dictSize = 0 /\ lz'.dictAt = Nowhere /\ lz'.ctx = FALSE
      /\ \A h \in Cells : lz'.table[h] = 0
  BY <1>1, EmptyIs
<1>3. Ready(lz') /\ Behind(lz'.table, lz'.offset) /\ lz'.dictSize <= lz'.offset
  BY <1>2 DEF Ready, Behind
<1>4. QED
  BY <1>1, <1>2, <1>3, IdleKeeps

\* LZ4_resetStream_fast keeps everything.
LEMMA ResetStreamFastKeeps ==
  ASSUME LzInv, ResetStreamFast
  PROVE  LzInv'
<1>1. CallMade /\ UNCHANGED work /\ lz' = PrepareTable(lz, 0, ByU32) /\ room' \in Memories
  BY DEF ResetStreamFast, LzInv, LzTypeInv
<1>2. lz \in StreamStates /\ Behind(lz.table, lz.offset) /\ 0 \in Nat /\ ByU32 \in {ByU16, ByU32}
  BY DEF LzInv, LzTypeInv
<1>3. PICK r : r = PrepareTable(lz, 0, ByU32)
  OBVIOUS
<1>4. /\ r \in StreamStates /\ r.dictSize = 0 /\ r.dictAt = Nowhere /\ r.ctx = FALSE
      /\ Behind(r.table, r.offset)
      /\ r.offset = 0 \/ r.offset >= Window
  BY <1>2, <1>3, PrepareIs
<1>5. r.dictSize <= r.offset
  BY <1>4 DEF StreamStates
<1>6. Ready(r)
  BY <1>4 DEF Ready
<1>7. QED
  BY <1>1, <1>3, <1>4, <1>5, <1>6, IdleKeeps

\* LZ4_loadDict and LZ4_loadDictSlow keep everything.
LEMMA LoadDictKeeps ==
  ASSUME LzInv, NEW at \in Places, NEW slow \in BOOLEAN, LoadDict(at, slow)
  PROVE  LzInv'
<1>1. /\ CallMade /\ UNCHANGED work /\ lz' = LoadedDict(Dictionary, at, slow)
      /\ at + Len(Dictionary) - 1 <= Lz4Memory
      /\ room' = Written(room, at, Dictionary)
  BY DEF LoadDict
<1>2. PICK n \in Nat, lm \in Nat, a \in Nat \ {0}, w \in Nat, mm \in Nat :
         n = Len(Dictionary) /\ lm = Lz4Memory /\ a = at /\ a + n <= lm + 1 /\ w = Window /\ mm = MINMATCH
  <2>1. Lz4Memory \in Nat /\ Window \in Nat /\ MINMATCH \in Nat
    BY WindowIs, Sizes
  <2>2. Len(Dictionary) \in Nat
    BY CallsAssumption
  <2>3. PICK lm \in Nat, n \in Nat : lm = Lz4Memory /\ n = Len(Dictionary)
    BY <2>1, <2>2
  <2>4. at \in 1 .. lm
    BY <2>3, CallsAssumption
  <2>5. at \in Nat \ {0} /\ at + n <= lm + 1
    BY <1>1, <2>3, <2>4
  <2>6. QED
    BY <2>1, <2>3, <2>5
<1>3. PICK r : r = LoadedDict(Dictionary, at, slow)
  OBVIOUS
<1>4. /\ r \in StreamStates /\ r.offset = Window /\ r.ctx = FALSE
      /\ r.dictSize <= Window /\ r.dictSize <= Len(Dictionary)
      /\ IF r.dictSize = 0 THEN r.dictAt = Nowhere
         ELSE r.dictAt = at + Len(Dictionary) - r.dictSize
      /\ \A h \in Cells : r.table[h] = 0 \/ r.table[h] + MINMATCH <= Window
  <2>1. Dictionary \in Seq(Byte)
    BY CallsAssumption
  <2>2. at \in Nat
    BY <1>2
  <2>3. QED
    BY <1>3, <2>1, <2>2, LoadedIs
<1>5. PICK ds \in Nat : ds = r.dictSize /\ ds <= n
  BY <1>2, <1>4 DEF StreamStates
<1>6. Ready(r)
  <2>1. CASE ds = 0
    BY <2>1, <1>4, <1>5, <1>2 DEF Ready
  <2>2. CASE ds # 0
    <3>1. r.dictAt = a + n - ds
      BY <2>2, <1>2, <1>4, <1>5
    <3>2. a + n - ds >= 1 /\ (a + n - ds) + ds <= lm + 1 /\ a + n - ds # 0
      BY <1>2, <1>5
    <3>3. QED
      BY <3>1, <3>2, <1>2, <1>4, <1>5 DEF Ready, Nowhere
  <2>3. QED
    BY <2>1, <2>2
<1>7. Behind(r.table, r.offset) /\ r.dictSize <= r.offset
  BY <1>4 DEF Behind
<1>8. room' \in Memories
  <2>1. room \in Memories /\ Dictionary \in Seq(Byte)
    BY CallsAssumption DEF LzInv, LzTypeInv
  <2>2. QED
    BY <1>1, <1>2, <2>1, WrittenIs
<1>9. QED
  BY <1>1, <1>3, <1>4, <1>6, <1>7, <1>8, IdleKeeps

\* LZ4_attach_dictionary keeps everything.
LEMMA AttachDictionaryKeeps ==
  ASSUME LzInv, AttachDictionary
  PROVE  LzInv'
<1>1. /\ CallMade /\ UNCHANGED work /\ usage = "stream" /\ lz.dictSize = 0 /\ lz.dictAt = Nowhere
      /\ lz' = [lz EXCEPT !.offset = IF @ = 0 THEN Window ELSE @, !.ctx = DictCtx.dictSize # 0]
      /\ room' = room
  BY DEF AttachDictionary
<1>2. /\ lz \in StreamStates /\ Behind(lz.table, lz.offset) /\ room \in Memories /\ Ready(lz)
  BY <1>1 DEF LzInv, LzTypeInv, HistoryInv, CallMade
<1>3. PICK offset \in Nat, w \in Nat \ {0}, mm \in Nat :
         offset = lz.offset /\ w = Window /\ mm = MINMATCH /\ (offset = 0 \/ offset >= w)
  <2>1. PICK offset \in Nat, w \in Nat \ {0}, mm \in Nat : offset = lz.offset /\ w = Window /\ mm = MINMATCH
    BY <1>2, WindowIs, Sizes DEF StreamStates
  <2>2. offset = 0 \/ offset >= w
    BY <1>1, <1>2, <2>1 DEF Ready
  <2>3. QED
    BY <2>1, <2>2
<1>4. PICK o \in Nat : o = (IF offset = 0 THEN w ELSE offset) /\ o >= w /\ o >= offset
  <2>1. CASE offset = 0
    BY <2>1
  <2>2. CASE offset # 0
    BY <2>2, <1>3
  <2>3. QED
    BY <2>1, <2>2
<1>5. PICK ctx \in BOOLEAN : ctx = (DictCtx.dictSize # 0)
  OBVIOUS
<1>6. PICK r : r = [lz EXCEPT !.offset = o, !.ctx = ctx]
  OBVIOUS
<1>7. lz' = r
  BY <1>1, <1>3, <1>4, <1>5, <1>6
<1>8. /\ r \in StreamStates /\ r.table = lz.table /\ r.offset = o /\ r.ctx = ctx /\ r.dictSize = 0
      /\ r.dictAt = Nowhere
  BY <1>1, <1>2, <1>6 DEF StreamStates
<1>9. Ready(r)
  <2>1. r.offset >= Window
    BY <1>3, <1>4, <1>8
  <2>2. ~(r.dictSize > 0)
    BY <1>8
  <2>3. r.ctx => DictCtx.dictSize # 0
    BY <1>5, <1>8
  <2>4. QED
    BY <1>8, <2>1, <2>2, <2>3 DEF Ready
<1>10. Behind(r.table, r.offset)
  <2>1. ASSUME NEW h \in Cells PROVE lz.table[h] = 0 \/ lz.table[h] + MINMATCH <= o
    <3>1. PICK v \in Nat : v = lz.table[h]
      BY <1>2 DEF StreamStates, Tables
    <3>2. v = 0 \/ v + mm <= offset
      BY <3>1, <1>2, <1>3 DEF Behind
    <3>3. v = 0 \/ v + mm <= o
      BY <3>2, <1>4
    <3>4. QED
      BY <3>1, <3>3, <1>3
  <2>2. QED
    BY <2>1, <1>8 DEF Behind
<1>11. r.dictSize <= r.offset
  BY <1>8
<1>12. QED
  BY <1>1, <1>2, <1>7, <1>8, <1>9, <1>10, <1>11, IdleKeeps

\* LZ4_saveDict keeps everything.
LEMMA SaveDictKeeps ==
  ASSUME LzInv, NEW to \in Places, NEW size \in SaveSizes, SaveDict(to, size)
  PROVE  LzInv'
<1>1. PICK n \in Nat, ds \in Nat, dictAt \in Nat, offset \in Nat, lm \in Nat, w \in Nat, a \in Nat \ {0} :
         /\ n = size /\ ds = lz.dictSize /\ dictAt = lz.dictAt /\ offset = lz.offset /\ lm = Lz4Memory
         /\ w = Window /\ a = to
  <2>1. size \in Nat /\ Lz4Memory \in Nat /\ Window \in Nat
    BY WindowIs, CallsAssumption
  <2>2. lz.dictSize \in Nat /\ lz.dictAt \in Nat /\ lz.offset \in Nat
    BY DEF LzInv, LzTypeInv, StreamStates
  <2>3. to \in 1 .. Lz4Memory
    BY CallsAssumption
  <2>4. to \in Nat \ {0}
    BY <2>1, <2>3
  <2>5. QED
    BY <2>1, <2>2, <2>4
<1>2. PICK kept \in Nat : kept = MIN(n, MIN(w, ds)) /\ kept <= ds
  BY DEF MIN
<1>3. /\ CallMade /\ UNCHANGED work /\ usage = "stream" /\ ~lz.ctx
      /\ to + kept - 1 <= Lz4Memory
      /\ room' = Written(room, to, BytesAt(room, lz.dictAt + lz.dictSize - kept, kept))
      /\ lz' = [lz EXCEPT !.dictAt = to, !.dictSize = kept]
  BY <1>1, <1>2 DEF SaveDict
<1>4. /\ lz \in StreamStates /\ Behind(lz.table, lz.offset) /\ room \in Memories /\ Ready(lz) /\ ds <= offset
  BY <1>1, <1>3 DEF LzInv, LzTypeInv, HistoryInv, CallMade
<1>5. PICK r : r = [lz EXCEPT !.dictAt = a, !.dictSize = kept]
  OBVIOUS
<1>6. /\ r \in StreamStates /\ r.table = lz.table /\ r.offset = offset /\ r.ctx = lz.ctx /\ r.dictSize = kept
      /\ r.dictAt = a
  BY <1>1, <1>4, <1>5 DEF StreamStates
<1>7. a + kept <= lm + 1
  BY <1>1, <1>3
<1>8. Ready(r)
  BY <1>1, <1>3, <1>6, <1>7 DEF Ready, Nowhere
<1>9. kept <= offset
  BY <1>2, <1>4, <1>1
<1>10. room' \in Memories
  <2>1. PICK from \in Nat : from = dictAt + ds - kept
    <3>1. dictAt + ds - kept \in Nat
      BY <1>2
    <3>2. QED
      BY <3>1
  <2>2. ASSUME kept > 0 PROVE from >= 1 /\ from + kept <= Lz4Memory + 1
    <3>1. dictAt >= 1 /\ dictAt + ds <= lm + 1
      BY <2>2, <1>1, <1>2, <1>4 DEF Ready
    <3>2. QED
      BY <3>1, <2>1, <1>1, <1>2
  <2>3. PICK bytes \in Seq(Byte) : bytes = BytesAt(room, from, kept)
    BY <2>2, <1>4, BytesAtIs
  <2>4. room' = Written(room, a, bytes)
    BY <1>1, <1>3, <2>1, <2>3
  <2>5. QED
    BY <2>4, <1>4, WrittenIs
<1>11. lz' = r
  BY <1>1, <1>3, <1>5
<1>12. QED
  BY <1>3, <1>4, <1>6, <1>1, <1>8, <1>9, <1>10, <1>11, IdleKeeps

-----------------------------------------------------------------------------
(* A call goes on, and returns. *)

\* A turn of the loop keeps everything.
LEMMA TurnsKeeps ==
  ASSUME LzInv, Turns
  PROVE  LzInv'
<1>1. /\ Searching \/ NextMatch
      /\ room' = room /\ usage' = usage /\ last' = last
  BY DEF Turns
<1>2. work # LzIdle /\ work.at # "done"
  BY <1>1 DEF Searching, NextMatch, LzIdle
<1>3. /\ lz \in StreamStates /\ Behind(lz.table, lz.offset) /\ lz.dictSize <= lz.offset /\ room \in Memories
      /\ Sound(work) /\ work.ok = FALSE /\ lz.offset = End(work.c) /\ CallReal(work.c)
      /\ Spent(work) \/ LoopReal(work, lz.table)
  BY <1>2 DEF LzInv, LzTypeInv, WorkInv
<1>4. /\ Sound(work') /\ (work'.at # "done" => work'.ok = FALSE) /\ SameCall(work, work')
      /\ lz' \in StreamStates
      /\ \E t \in Tables : lz' = [lz EXCEPT !.table = t]
  BY <1>1, <1>3, SearchTurns, MatchTurns
<1>5. /\ Behind(lz'.table, lz'.offset) /\ lz'.offset = lz.offset
      /\ work'.at # "done" => Spent(work') \/ LoopReal(work', lz'.table)
  BY <1>1, <1>3, SearchKeeps, MatchKeeps
<1>6. lz'.dictSize = lz.dictSize /\ lz'.dictAt = lz.dictAt /\ lz'.ctx = lz.ctx
  BY <1>3, <1>4 DEF StreamStates
<1>7. work'.c = work.c /\ work'.page = work.page /\ work'.afterwards = work.afterwards /\ work'.src = work.src
  BY <1>4 DEF SameCall
<1>8. work' # LzIdle
  <2>1. work'.at \in {"search", "match", "done"}
    BY <1>4 DEF Sound, WorkRecords
  <2>2. QED
    BY <2>1 DEF LzIdle
<1>9. LzTypeInv'
  BY <1>1, <1>3, <1>4, <1>5, <1>6 DEF LzTypeInv
<1>10. WorkInv'
  <2>1. lz'.offset = End(work'.c) /\ CallReal(work'.c)
    BY <1>3, <1>5, <1>7
  <2>2. QED
    BY <2>1, <1>4, <1>5, <1>8 DEF WorkInv
<1>11. HistoryInv'
  <2>1. Ready(lz) => Ready(lz')
    BY <1>5, <1>6 DEF Ready
  <2>2. HistoryInv
    BY DEF LzInv
  <2>3. work'.afterwards = "prefix" => Ready(lz') /\ lz'.dictAt >= 1
    BY <2>1, <2>2, <1>2, <1>6, <1>7 DEF HistoryInv
  <2>4. work'.afterwards = "external" =>
        /\ work'.src >= 1 /\ work'.src + Len(work'.page) <= Lz4Memory + 1
        /\ Len(work'.page) <= lz'.offset
        /\ lz'.ctx => Len(work'.page) = 0 /\ lz'.offset >= Window /\ DictCtx.dictSize # 0
    BY <2>2, <1>2, <1>5, <1>6, <1>7 DEF HistoryInv
  <2>5. QED
    BY <2>3, <2>4, <1>8 DEF HistoryInv
<1>12. LastInv'
  BY <1>1 DEF LzInv, LastInv
<1>13. QED
  BY <1>9, <1>10, <1>11, <1>12 DEF LzInv

\* What the stream is when a call has returned.
LEMMA ReturnedIs ==
  ASSUME LzInv, Returns
  PROVE  /\ lz' \in StreamStates /\ lz'.dictSize <= lz'.offset /\ Behind(lz'.table, lz'.offset)
         /\ usage' = "stream" => Ready(lz')
<1>1. PICK r : r = work
  OBVIOUS
<1>2. r # LzIdle /\ r = work
  BY <1>1 DEF Returns
<1>3. /\ lz \in StreamStates /\ lz.dictSize <= lz.offset /\ Behind(lz.table, lz.offset) /\ r \in WorkRecords
  BY <1>2 DEF LzInv, LzTypeInv, WorkInv, Sound
<1>4. r.afterwards \in Purposes
  BY <1>3 DEF WorkRecords
<1>5. CASE r.afterwards = "clean"
  <2>1. PICK f \in StreamStates : f = FreshStream
    BY EmptyIs
  <2>2. lz' = f
    BY <1>2, <1>5, <2>1 DEF Returns
  <2>3. f.offset = 0 /\ f.dictSize = 0 /\ f.dictAt = Nowhere /\ f.ctx = FALSE /\ \A h \in Cells : f.table[h] = 0
    BY <2>1, EmptyIs
  <2>4. Ready(f) /\ Behind(f.table, f.offset) /\ f.dictSize <= f.offset
    BY <2>3 DEF Ready, Behind
  <2>5. QED
    BY <2>2, <2>4
<1>6. CASE r.afterwards = "external"
  <2>1. /\ r.src >= 1 /\ r.src + Len(r.page) <= Lz4Memory + 1
        /\ Len(r.page) <= lz.offset
        /\ lz.ctx => Len(r.page) = 0 /\ lz.offset >= Window /\ DictCtx.dictSize # 0
    BY <1>2, <1>6 DEF LzInv, HistoryInv
  <2>2. PICK src \in Nat, n \in Nat : src = r.src /\ n = Len(r.page)
    BY <1>3 DEF WorkRecords
  <2>3. PICK s : s = [lz EXCEPT !.dictAt = src, !.dictSize = n]
    OBVIOUS
  <2>4. lz' = s
    BY <1>2, <1>6, <2>2, <2>3 DEF Returns
  <2>5. /\ s \in StreamStates /\ s.table = lz.table /\ s.offset = lz.offset /\ s.ctx = lz.ctx /\ s.dictSize = n
        /\ s.dictAt = src
    BY <1>3, <2>3 DEF StreamStates
  <2>6. Ready(s)
    BY <2>1, <2>2, <2>5 DEF Ready, Nowhere
  <2>7. s.dictSize <= s.offset /\ Behind(s.table, s.offset)
    BY <1>3, <2>1, <2>2, <2>5
  <2>8. QED
    BY <2>4, <2>5, <2>6, <2>7
<1>7. CASE r.afterwards = "prefix"
  <2>1. lz' = lz
    BY <1>2, <1>7 DEF Returns
  <2>2. Ready(lz)
    BY <1>2, <1>7 DEF LzInv, HistoryInv
  <2>3. QED
    BY <1>3, <2>1, <2>2
<1>8. CASE r.afterwards = "oneshot"
  <2>1. lz' = lz /\ usage' = "oneshot"
    BY <1>2, <1>8 DEF Returns
  <2>2. QED
    BY <1>3, <2>1
<1>9. QED
  BY <1>4, <1>5, <1>6, <1>7, <1>8 DEF Purposes

\* A call that returns keeps everything.
LEMMA ReturnsKeeps ==
  ASSUME LzInv, Returns
  PROVE  LzInv'
<1>1. PICK r : r = work
  OBVIOUS
<1>2. /\ r # LzIdle /\ r.at = "done" /\ work' = LzIdle /\ room' = room
      /\ last' = [ok |-> r.ok, page |-> r.page, out |-> r.out, cap |-> r.c.cap, limit |-> r.c.limit,
                  bound |-> LzCompressBound(Len(r.page)), history |-> sent, consumed |-> r.consumed]
  BY <1>1 DEF Returns
<1>3. DoneSound(r)
  BY <1>1, <1>2 DEF LzInv, WorkInv, Sound, LoopSound
<1>4. /\ last'.ok = r.ok /\ last'.out = r.out /\ last'.cap = r.c.cap /\ last'.limit = r.c.limit
      /\ last'.bound = LzCompressBound(Len(r.page)) /\ last'.consumed = r.consumed /\ last'.page = r.page
  BY <1>2
<1>5. LastInv'
  BY <1>3, <1>4 DEF LastInv, DoneSound
<1>6. /\ lz' \in StreamStates /\ lz'.dictSize <= lz'.offset /\ Behind(lz'.table, lz'.offset)
      /\ usage' = "stream" => Ready(lz')
  BY ReturnedIs
<1>7. LzTypeInv'
  BY <1>2, <1>6 DEF LzInv, LzTypeInv
<1>8. WorkInv' /\ HistoryInv'
  BY <1>2, <1>6 DEF WorkInv, HistoryInv
<1>9. QED
  BY <1>5, <1>7, <1>8 DEF LzInv

-----------------------------------------------------------------------------
(* The theorems. *)

\* The invariant holds at first.
LEMMA LzInitKeeps ==
  ASSUME LzInit
  PROVE  LzInv
<1>1. lz = FreshStream /\ work = LzIdle /\ room = [a \in 1 .. Lz4Memory |-> 0] /\ last = LzNoCall
  BY DEF LzInit
<1>2. /\ lz \in StreamStates /\ lz.offset = 0 /\ lz.dictSize = 0 /\ lz.dictAt = Nowhere /\ lz.ctx = FALSE
      /\ \A h \in Cells : lz.table[h] = 0
  BY <1>1, EmptyIs
<1>3. Ready(lz) /\ Behind(lz.table, lz.offset) /\ lz.dictSize <= lz.offset
  BY <1>2 DEF Ready, Behind
<1>4. room \in Memories
  BY <1>1, HashAssumption DEF Memories
<1>5. LzTypeInv
  BY <1>2, <1>3, <1>4 DEF LzTypeInv
<1>6. WorkInv /\ HistoryInv /\ LastInv
  BY <1>1, <1>3 DEF WorkInv, HistoryInv, LastInv
<1>7. QED
  BY <1>5, <1>6 DEF LzInv

\* The invariant holds when nothing happens.
LEMMA StutteringKeeps ==
  ASSUME LzInv, UNCHANGED lzVars
  PROVE  LzInv'
<1>1. lz' = lz /\ work' = work /\ room' = room /\ usage' = usage /\ last' = last
  BY DEF lzVars
<1>2. QED
  BY <1>1 DEF LzInv, LzTypeInv, WorkInv, HistoryInv, LastInv

\* Where a block may be put is an address.
LEMMA PlaceIs ==
  ASSUME LzInv, NEW src \in (Places \cup {DictEnd(lz)}) \ {Nowhere}
  PROVE  src \in Nat \ {0}
<1>1. CASE src \in Places
  <2>1. src \in 1 .. Lz4Memory /\ Lz4Memory \in Nat
    BY <1>1, CallsAssumption, WindowIs
  <2>2. QED
    BY <2>1
<1>2. CASE src = DictEnd(lz)
  <2>1. lz.dictSize \in Nat /\ lz.dictAt \in Nat
    BY DEF LzInv, LzTypeInv, StreamStates
  <2>2. src # 0 /\ src \in Nat
    BY <1>2, <2>1 DEF DictEnd, Nowhere
  <2>3. QED
    BY <2>2
<1>3. QED
  BY <1>1, <1>2

\* The invariant holds after every step.
LEMMA LzNextKeeps ==
  ASSUME LzInv, LzNext
  PROVE  LzInv'
<1>1. ASSUME NEW page \in Pages, NEW speed \in Speeds, NEW cap \in Caps \cup {LzCompressBound(Len(page))},
             \/ FastReset(page, cap, speed)
             \/ ExtState(page, cap, speed)
             \/ DestSize(page, cap, speed)
             \/ \E src \in (Places \cup {DictEnd(lz)}) \ {Nowhere} : LzContinue(src, page, cap, speed)
      PROVE  LzInv'
  <2>1. /\ page \in Seq(Byte) /\ Len(page) + Window <= RenormMax
        /\ speed \in Nat \ {0} /\ cap \in Nat
    BY ArgumentsAre
  <2>2. CASE FastReset(page, cap, speed)
    BY <2>1, <2>2, FastResetKeeps
  <2>3. CASE ExtState(page, cap, speed)
    BY <2>1, <2>3, ExtStateKeeps
  <2>4. CASE DestSize(page, cap, speed)
    BY <2>1, <2>4, DestSizeKeeps
  <2>5. ASSUME NEW src \in (Places \cup {DictEnd(lz)}) \ {Nowhere}, LzContinue(src, page, cap, speed)
        PROVE  LzInv'
    <3>1. src \in Nat \ {0}
      BY PlaceIs
    <3>2. QED
      BY <2>1, <2>5, <3>1, LzContinueKeeps
  <2>6. QED
    BY <1>1, <2>2, <2>3, <2>4, <2>5
<1>2. CASE InitStream
  BY <1>2, InitStreamKeeps
<1>3. CASE ResetStreamFast
  BY <1>3, ResetStreamFastKeeps
<1>4. CASE AttachDictionary
  BY <1>4, AttachDictionaryKeeps
<1>5. ASSUME NEW at \in Places, NEW slow \in BOOLEAN, LoadDict(at, slow)
      PROVE  LzInv'
  BY <1>5, LoadDictKeeps
<1>6. ASSUME NEW at \in Places, NEW size \in SaveSizes, SaveDict(at, size)
      PROVE  LzInv'
  BY <1>6, SaveDictKeeps
<1>7. CASE Turns
  BY <1>7, TurnsKeeps
<1>8. CASE Returns
  BY <1>8, ReturnsKeeps
<1>9. QED
  BY <1>1, <1>2, <1>3, <1>4, <1>5, <1>6, <1>7, <1>8 DEF LzNext

\* What holds in between any two turns of any call in the life of a state, for every
\* sequence of calls, every page and dictionary, and all hash functions.
THEOREM LzInvariant == LzSpec => []LzInv
<1>1. LzInit => LzInv
  BY LzInitKeeps
<1>2. LzInv /\ [LzNext]_lzVars => LzInv'
  BY LzNextKeeps, StutteringKeeps
<1>3. QED
  BY <1>1, <1>2, PTL DEF LzSpec

\* Nothing is written behind the room for a block, a call with LZ4_compressBound of room
\* does not fail, and none leaves a part of the page out unless it was asked to.
THEOREM FitsRoom == LzSpec => []FitsItsRoom
<1>1. LzInv => FitsItsRoom
  <2>1. ASSUME LzInv, work # LzIdle PROVE work.top <= work.c.cap
    BY <2>1 DEF LzInv, WorkInv, Sound, RoomSound
  <2>2. QED
    BY <2>1 DEF LzInv, LastInv, FitsItsRoom
<1>2. QED
  BY <1>1, LzInvariant, PTL

\* Every match that is written is one: it lies in the history or before it in the block, no
\* further away than the format can express, and begins with the same bytes.
THEOREM RealMatches == LzSpec => []MatchesAreReal
<1>1. ASSUME LzInv, work # LzIdle, work.at = "match",
             ~(work.c.limit = "fill" /\ Op(work) + 1 + MFLIMIT - MINMATCH > work.c.cap)
      PROVE  /\ work.c.low <= work.match /\ work.match < work.ip /\ work.ip - work.match <= DistanceMax
             /\ Bytes(work.c, work.match, MINMATCH) = Bytes(work.c, work.ip, MINMATCH)
  <2>1. Sound(work) /\ (Spent(work) \/ LoopReal(work, lz.table))
    BY <1>1 DEF LzInv, WorkInv
  <2>2. PICK s \in WorkRecords : s = work /\ LoopSound(s) /\ CallSound(s.c)
    BY <1>1, <2>1 DEF Sound, DoneSound
  <2>3. ~Spent(s)
    BY <1>1, <2>2, SpareRoom
  <2>4. MatchReal(s)
    BY <1>1, <2>1, <2>2, <2>3 DEF LoopReal
  <2>5. PICK c \in CallRecords, ip \in Nat, match \in Int, mm \in Nat, mf \in Nat :
           c = s.c /\ ip = s.ip /\ match = s.match /\ mm = MINMATCH /\ mf = MFLIMIT
    BY <2>2, Sizes DEF WorkRecords
  <2>6. c.low <= match /\ match < ip /\ ip - match <= DistanceMax
    BY <2>4, <2>5 DEF MatchReal
  <2>7. PICK low \in Nat, end \in Nat : low = c.low /\ end = End(c)
    BY EndIs
  <2>8. ip + mm <= end
    <3>1. ip < end - mf + 1
      BY <1>1, <2>2, <2>5, <2>7 DEF LoopSound, MfLimitPlusOne
    <3>2. mf >= mm
      BY <2>5, Sizes
    <3>3. QED
      BY <3>1, <3>2
  <2>9. match + mm <= end /\ low <= match /\ low <= ip
    BY <2>6, <2>7, <2>8
  <2>10. PICK x \in Seq(Byte), y \in Seq(Byte) : x = Bytes(c, match, mm) /\ y = Bytes(c, ip, mm)
    BY <2>7, <2>8, <2>9, BytesAre
  <2>11. /\ Len(x) = mm /\ Len(y) = mm
         /\ \A k \in 1 .. mm : x[k] = ByteAt(c, match + k - 1)
         /\ \A k \in 1 .. mm : y[k] = ByteAt(c, ip + k - 1)
    BY <2>7, <2>8, <2>9, <2>10, BytesAre
  <2>12. ASSUME NEW k \in 1 .. mm PROVE x[k] = y[k]
    <3>1. PICK j \in 0 .. mm - 1 : j = k - 1
      OBVIOUS
    <3>2. ByteAt(c, match + j) = ByteAt(c, ip + j)
      BY <2>4, <2>5 DEF MatchReal, Same
    <3>3. match + k - 1 = match + j /\ ip + k - 1 = ip + j
      BY <3>1
    <3>4. QED
      BY <2>11, <3>2, <3>3
  <2>13. x = y
    BY ONLY <2>11, <2>12, x \in Seq(Byte), y \in Seq(Byte)
  <2>14. QED
    BY <2>2, <2>5, <2>6, <2>10, <2>13
<1>2. LzInv => MatchesAreReal
  BY <1>1 DEF MatchesAreReal
<1>3. QED
  BY <1>2, LzInvariant, PTL
=============================================================================
