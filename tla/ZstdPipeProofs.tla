---------------------------- MODULE ZstdPipeProofs ----------------------------
(***************************************************************************)
(* Proofs about the two streaming interfaces of the embedded zstd: however *)
(* the input is cut up, whatever rooms are offered and whichever           *)
(* allocation fails, what comes out is what went in, a return value of 0   *)
(* means that nothing is left behind, and the decoder finds the history of *)
(* a block where it looks for it.                                          *)
(***************************************************************************)
EXTENDS ZstdPipeInvariant, WellFoundedInduction, SequenceTheorems, TLAPS

-----------------------------------------------------------------------------
(* Counting, and sequences. *)

\* What holds of 0 and is passed on by every number holds of all.
LEMMA CountUp ==
  ASSUME NEW S, 0 \in S, \A k \in Nat : k \in S => k + 1 \in S
  PROVE  Nat \subseteq S
<1> DEFINE T == Nat \ S
           R == OpToRel(<, Nat)
<1>1. SUFFICES ASSUME T # {} PROVE FALSE
  OBVIOUS
<1>2. T \subseteq Nat
  OBVIOUS
<1>3. IsWellFoundedOn(R, Nat)
  BY NatLessThanWellFounded
<1>4. PICK n \in T : \A m \in T : <<m, n>> \notin R
  <2> HIDE DEF T, R
  <2>1. QED
    BY <1>1, <1>2, <1>3, WFMin
<1>5. n # 0 /\ n - 1 \in Nat /\ n - 1 \in T
  OBVIOUS
<1>6. <<n - 1, n>> \in R
  BY <1>5 DEF OpToRel
<1>7. QED
  BY <1>4, <1>5, <1>6

\* What holds of 0 and is passed on below n holds of n.
LEMMA CountTo ==
  ASSUME NEW n \in Nat, NEW S, 0 \in S, \A k \in 0 .. n - 1 : k \in S => k + 1 \in S
  PROVE  n \in S
<1> DEFINE T == {k \in Nat : k <= n => k \in S}
<1>1. 0 \in T
  OBVIOUS
<1>2. \A k \in Nat : k \in T => k + 1 \in T
  OBVIOUS
<1>3. n \in T
  <2> HIDE DEF T
  <2>1. QED
    BY <1>1, <1>2, CountUp
<1>4. QED
  BY <1>3

\* Some number is the least one.
LEMMA LeastOf ==
  ASSUME NEW S \in SUBSET Nat, S # {}
  PROVE  \E m \in S : \A k \in S : m <= k
<1> DEFINE R == OpToRel(<, Nat)
<1>1. IsWellFoundedOn(R, Nat)
  BY NatLessThanWellFounded
<1>2. PICK m \in S : \A k \in S : <<k, m>> \notin R
  <2> HIDE DEF R
  <2>1. QED
    BY <1>1, WFMin
<1>3. ASSUME NEW k \in S PROVE m <= k
  <2>1. k \in Nat /\ m \in Nat
    OBVIOUS
  <2>2. k < m => <<k, m>> \in R
    BY <2>1 DEF OpToRel
  <2>3. <<k, m>> \notin R
    BY <1>2
  <2>4. ~(k < m)
    <3> HIDE DEF R
    <3>1. QED
      BY <2>2, <2>3
  <2>5. QED
    BY <2>1, <2>4
<1>4. QED
  BY <1>3

\* The concatenation of two sequences, member by member.
LEMMA Joined ==
  ASSUME NEW S, NEW s \in Seq(S), NEW t \in Seq(S)
  PROVE  /\ s \o t \in Seq(S)
         /\ Len(s \o t) = Len(s) + Len(t)
         /\ Len(s) \in Nat /\ Len(t) \in Nat
         /\ \A i \in 1 .. Len(s) : (s \o t)[i] = s[i]
         /\ \A i \in 1 .. Len(t) : (s \o t)[Len(s) + i] = t[i]
  BY ConcatProperties, LenProperties

\* The beginning of a sequence and what comes behind it.
LEMMA TakeDrop ==
  ASSUME NEW S, NEW s \in Seq(S), NEW n \in 0 .. Len(s)
  PROVE  /\ Take(s, n) \in Seq(S) /\ Drop(s, n) \in Seq(S)
         /\ Len(Take(s, n)) = n /\ Len(Drop(s, n)) = Len(s) - n
         /\ \A i \in 1 .. n : Take(s, n)[i] = s[i]
         /\ \A i \in 1 .. Len(s) - n : Drop(s, n)[i] = s[n + i]
         /\ Take(s, n) \o Drop(s, n) = s
<1>1. Len(s) \in Nat
  BY LenProperties
<1>2. /\ Take(s, n) \in Seq(S) /\ Len(Take(s, n)) = n
      /\ \A i \in 1 .. n : Take(s, n)[i] = s[i]
  <2>1. CASE n = 0
    BY <2>1, <1>1, SubSeqProperties DEF Take
  <2>2. CASE n # 0
    BY <2>2, <1>1, SubSeqProperties DEF Take
  <2>3. QED
    BY <2>1, <2>2
<1>3. /\ Drop(s, n) \in Seq(S) /\ Len(Drop(s, n)) = Len(s) - n
      /\ \A i \in 1 .. Len(s) - n : Drop(s, n)[i] = s[n + i]
  <2>1. CASE n = Len(s)
    BY <2>1, <1>1, SubSeqProperties DEF Drop
  <2>2. CASE n # Len(s)
    <3>1. n + 1 \in 1 .. Len(s) + 1 /\ Len(s) \in n .. Len(s)
      BY <1>1, <2>2
    <3>2. QED
      BY <3>1, <2>2, <1>1, SubSeqProperties DEF Drop
  <2>3. QED
    BY <2>1, <2>2
<1>4. Take(s, n) \o Drop(s, n) = s
  <2> DEFINE t == Take(s, n)
             d == Drop(s, n)
  <2>1. /\ t \o d \in Seq(S) /\ Len(t \o d) = Len(s)
        /\ \A i \in 1 .. n : (t \o d)[i] = s[i]
        /\ \A i \in 1 .. Len(s) - n : (t \o d)[n + i] = s[n + i]
    <3>1. /\ t \in Seq(S) /\ Len(t) = n /\ \A i \in 1 .. n : t[i] = s[i]
          /\ d \in Seq(S) /\ Len(d) = Len(s) - n
          /\ \A i \in 1 .. Len(s) - n : d[i] = s[n + i]
      BY <1>2, <1>3
    <3> HIDE DEF t, d
    <3>2. /\ t \o d \in Seq(S) /\ Len(t \o d) = Len(t) + Len(d)
          /\ \A i \in 1 .. Len(t) : (t \o d)[i] = t[i]
          /\ \A i \in 1 .. Len(d) : (t \o d)[Len(t) + i] = d[i]
      BY <3>1, Joined
    <3>3. Len(t) + Len(d) = Len(s)
      BY <3>1, <1>1
    <3>4. QED
      BY <3>1, <3>2, <3>3
  <2>2. ASSUME NEW i \in 1 .. Len(s) PROVE (t \o d)[i] = s[i]
    <3> HIDE DEF t, d
    <3>1. CASE i <= n
      BY <3>1, <2>1
    <3>2. CASE i > n
      <4>1. i - n \in 1 .. Len(s) - n /\ n + (i - n) = i
        BY <3>2, <1>1
      <4>2. QED
        BY <4>1, <2>1
    <3>3. i <= n \/ i > n
      BY <1>1
    <3>4. QED
      BY <3>1, <3>2, <3>3
  <2>3. QED
    <3> HIDE DEF t, d
    <3>1. t \o d = s
      BY <2>1, <2>2, SeqEqual
    <3>2. QED
      BY <3>1 DEF t, d
<1>5. QED
  BY <1>2, <1>3, <1>4

-----------------------------------------------------------------------------
(* Passing units. *)

\* Who passes nothing stays where he is.
LEMMA PassNothing ==
  ASSUME NEW p \in Places
  PROVE  Parses(p, <<>>, p)
<1>1. Runs([i \in {0} |-> p], <<>>, p, p)
  BY DEF Runs
<1>2. <<>> \in Seq(Units)
  BY EmptySeq
<1>3. QED
  BY <1>1, <1>2 DEF Parses

\* Whoever has passed nothing stands where he stood.
LEMMA NothingPassed ==
  ASSUME NEW p, NEW q, Parses(p, <<>>, q)
  PROVE  p = q
  BY DEF Parses, Runs

\* One unit is one move.
LEMMA PassOne ==
  ASSUME NEW p, NEW u, NEW q, Moves(p, u, q)
  PROVE  Parses(p, <<u>>, q)
<1> DEFINE run == [i \in 0 .. 1 |-> IF i = 0 THEN p ELSE q]
<1>1. run[0] = p /\ run[1] = q
  OBVIOUS
<1>2. p \in Places /\ q \in Places /\ u \in Units
  BY DEF Moves
<1>3. <<u>> \in Seq(Units) /\ Len(<<u>>) = 1 /\ <<u>>[1] = u
  BY <1>2
<1>4. \A i \in 1 .. 1 : i = 1 /\ i - 1 = 0
  OBVIOUS
<1>5. Runs(run, <<u>>, p, q)
  <2> HIDE DEF run
  <2>1. QED
    BY <1>1, <1>3, <1>4 DEF Runs
<1>6. QED
  BY <1>2, <1>3, <1>5 DEF Parses

\* Every place on the way is a place.
LEMMA OnTheWay ==
  ASSUME NEW run, NEW s \in Seq(Units), NEW p \in Places, NEW q, Runs(run, s, p, q),
         NEW i \in 0 .. Len(s)
  PROVE  run[i] \in Places
<1>1. CASE i = 0
  BY <1>1 DEF Runs
<1>2. CASE i # 0
  <2>1. i \in 1 .. Len(s)
    BY <1>2, LenProperties
  <2>2. Moves(run[i - 1], s[i], run[i])
    BY <2>1 DEF Runs
  <2>3. QED
    BY <2>2 DEF Moves
<1>3. QED
  BY <1>1, <1>2

\* One after the other.
LEMMA PassBoth ==
  ASSUME NEW p, NEW s, NEW q, NEW t, NEW r, Parses(p, s, q), Parses(q, t, r)
  PROVE  Parses(p, s \o t, r)
<1>1. PICK f : Runs(f, s, p, q)
  BY DEF Parses
<1>2. PICK g : Runs(g, t, q, r)
  BY DEF Parses
<1>3. /\ p \in Places /\ s \in Seq(Units) /\ t \in Seq(Units) /\ r \in Places
  BY DEF Parses
<1> DEFINE m == Len(s)
           n == Len(t)
           h == [i \in 0 .. m + n |-> IF i <= m THEN f[i] ELSE g[i - m]]
<1>4. /\ m \in Nat /\ n \in Nat /\ s \o t \in Seq(Units) /\ Len(s \o t) = m + n
      /\ \A i \in 1 .. m : (s \o t)[i] = s[i]
      /\ \A i \in 1 .. n : (s \o t)[m + i] = t[i]
  BY <1>3, Joined
<1>5. /\ f[0] = p /\ f[m] = q /\ g[0] = q /\ g[n] = r
      /\ \A i \in 1 .. m : Moves(f[i - 1], s[i], f[i])
      /\ \A i \in 1 .. n : Moves(g[i - 1], t[i], g[i])
  BY <1>1, <1>2 DEF Runs
<1> HIDE DEF m, n
<1>6. /\ \A i \in 0 .. m : h[i] = f[i]
      /\ \A i \in 0 .. n : h[m + i] = g[i]
  <2>1. ASSUME NEW i \in 0 .. n PROVE h[m + i] = g[i]
    <3>1. CASE i = 0
      BY <3>1, <1>4, <1>5
    <3>2. CASE i # 0
      BY <3>2, <1>4
    <3>3. QED
      BY <3>1, <3>2
  <2>2. \A i \in 0 .. m : h[i] = f[i]
    BY <1>4
  <2>3. QED
    BY <2>1, <2>2
<1>7. ASSUME NEW i \in 1 .. m + n PROVE Moves(h[i - 1], (s \o t)[i], h[i])
  <2> HIDE DEF h
  <2>1. CASE i <= m
    <3>1. i \in 1 .. m /\ i - 1 \in 0 .. m /\ i \in 0 .. m
      BY <2>1, <1>4
    <3>2. QED
      BY <3>1, <1>4, <1>5, <1>6
  <2>2. CASE i > m
    <3>1. /\ i - m \in 1 .. n /\ (i - m) - 1 \in 0 .. n /\ i - m \in 0 .. n
          /\ m + (i - m) = i /\ m + ((i - m) - 1) = i - 1
      BY <2>2, <1>4
    <3>2. Moves(g[(i - m) - 1], t[i - m], g[i - m])
      BY <3>1, <1>5
    <3>3. h[i - 1] = g[(i - m) - 1] /\ h[i] = g[i - m] /\ (s \o t)[i] = t[i - m]
      BY <3>1, <1>4, <1>6
    <3>4. QED
      BY <3>2, <3>3
  <2>3. QED
    BY <2>1, <2>2, <1>4
<1>8. h[0] = p /\ h[m + n] = r
  <2>1. 0 \in 0 .. m /\ n \in 0 .. n
    BY <1>4
  <2> HIDE DEF h
  <2>2. QED
    BY <2>1, <1>5, <1>6
<1>9. Runs(h, s \o t, p, r)
  <2> HIDE DEF h
  <2>1. QED
    BY <1>4, <1>7, <1>8 DEF Runs
<1>10. QED
  BY <1>3, <1>4, <1>9 DEF Parses

\* A stop on the way.
LEMMA RunParts ==
  ASSUME NEW p \in Places, NEW s \in Seq(Units), NEW t \in Seq(Units), NEW r \in Places,
         NEW h, Runs(h, s \o t, p, r)
  PROVE  Parses(p, s, h[Len(s)]) /\ Parses(h[Len(s)], t, r)
<1> DEFINE m == Len(s)
           n == Len(t)
<1>3. /\ m \in Nat /\ n \in Nat /\ s \o t \in Seq(Units) /\ Len(s \o t) = m + n
      /\ \A i \in 1 .. m : (s \o t)[i] = s[i]
      /\ \A i \in 1 .. n : (s \o t)[m + i] = t[i]
  BY Joined
<1>4. /\ h[0] = p /\ h[m + n] = r
      /\ \A i \in 1 .. m + n : Moves(h[i - 1], (s \o t)[i], h[i])
  BY <1>3 DEF Runs
<1> DEFINE g == [i \in 0 .. n |-> h[m + i]]
<1>5. h[m] \in Places
  <2> DEFINE u == s \o t
  <2>1. u \in Seq(Units) /\ m \in 0 .. Len(u) /\ Runs(h, u, p, r)
    BY <1>3
  <2> HIDE DEF u, m, n
  <2>2. QED
    BY <2>1, OnTheWay
<1>6. Runs(h, s, p, h[m])
  <2> HIDE DEF m, n
  <2>1. \A i \in 1 .. m : i \in 1 .. m + n
    BY <1>3
  <2>2. QED
    BY <1>3, <1>4, <2>1 DEF Runs, m
<1>7. Runs(g, t, h[m], r)
  <2> HIDE DEF m, n
  <2>1. g[0] = h[m] /\ g[n] = r
    BY <1>3, <1>4
  <2>2. ASSUME NEW i \in 1 .. n PROVE Moves(g[i - 1], t[i], g[i])
    <3>1. m + i \in 1 .. m + n /\ (m + i) - 1 = m + (i - 1) /\ i - 1 \in 0 .. n /\ i \in 0 .. n
      BY <1>3
    <3>2. Moves(h[(m + i) - 1], (s \o t)[m + i], h[m + i])
      BY <3>1, <1>4
    <3>3. g[i - 1] = h[m + (i - 1)] /\ g[i] = h[m + i] /\ (s \o t)[m + i] = t[i]
      BY <3>1, <1>3
    <3>4. QED
      BY <3>1, <3>2, <3>3
  <2> HIDE DEF g
  <2>3. QED
    BY <2>1, <2>2 DEF Runs, n
<1>8. QED
  BY <1>5, <1>6, <1>7 DEF Parses

\* Whoever has passed two parts has been somewhere between them.
LEMMA PassPart ==
  ASSUME NEW p, NEW s \in Seq(Units), NEW t \in Seq(Units), NEW r, Parses(p, s \o t, r)
  PROVE  \E q \in Places : Parses(p, s, q) /\ Parses(q, t, r)
<1>1. p \in Places /\ r \in Places
  BY DEF Parses
<1>2. PICK h : Runs(h, s \o t, p, r)
  BY DEF Parses
<1>3. Parses(p, s, h[Len(s)]) /\ Parses(h[Len(s)], t, r)
  BY <1>1, <1>2, RunParts
<1>4. h[Len(s)] \in Places
  BY <1>3 DEF Parses
<1>5. QED
  BY <1>3, <1>4

\* The same, after some of the units.
LEMMA RunStops ==
  ASSUME NEW p \in Places, NEW s \in Seq(Units), NEW r \in Places, NEW h, Runs(h, s, p, r),
         NEW n \in 0 .. Len(s)
  PROVE  Parses(p, Take(s, n), h[n]) /\ Parses(h[n], Drop(s, n), r)
<1> DEFINE t == Take(s, n)
           d == Drop(s, n)
<1>1. t \in Seq(Units) /\ d \in Seq(Units) /\ Len(t) = n /\ t \o d = s
  BY TakeDrop
<1>2. Runs(h, t \o d, p, r)
  BY <1>1
<1> HIDE DEF t, d
<1>3. Parses(p, t, h[Len(t)]) /\ Parses(h[Len(t)], d, r)
  BY <1>1, <1>2, RunParts
<1>4. QED
  BY <1>1, <1>3 DEF t, d

-----------------------------------------------------------------------------
(* Sequences of sequences, one behind the other. *)

\* The function by which FlattenSeq is defined.
Flattens(f, n, seqs) ==
  f = [i \in 1 .. n |-> IF i = 1 THEN seqs[i] ELSE f[i - 1] \o seqs[i]]

\* There is a function that puts together the first i of the sequences, for every i.
LEMMA FlattensExists ==
  ASSUME NEW seqs, NEW n \in Nat
  PROVE  \E f : Flattens(f, n, seqs)
<1> DEFINE S == {k \in Nat : \E f : Flattens(f, k, seqs)}
<1>1. 0 \in S
  <2>1. Flattens([i \in {} |-> 0], 0, seqs)
    BY DEF Flattens
  <2>2. QED
    BY <2>1
<1>2. ASSUME NEW k \in Nat, k \in S PROVE k + 1 \in S
  <2>1. PICK f : Flattens(f, k, seqs)
    BY <1>2
  <2> DEFINE g == [i \in 1 .. k + 1 |->
                     IF i <= k THEN f[i] ELSE IF i = 1 THEN seqs[i] ELSE f[i - 1] \o seqs[i]]
             h == [i \in 1 .. k + 1 |-> IF i = 1 THEN seqs[i] ELSE g[i - 1] \o seqs[i]]
  <2>2. ASSUME NEW i \in 1 .. k + 1 PROVE g[i] = h[i]
    <3>1. CASE i = 1
      BY <3>1, <2>1 DEF Flattens
    <3>2. CASE i # 1
      <4>1. i - 1 \in 1 .. k + 1 /\ i - 1 \in 1 .. k
        BY <3>2
      <4>2. g[i - 1] = f[i - 1]
        BY <4>1
      <4>3. CASE i <= k
        <5>1. i \in 1 .. k
          BY <4>3
        <5>2. f[i] = f[i - 1] \o seqs[i]
          BY <3>2, <5>1, <2>1 DEF Flattens
        <5>3. QED
          BY <3>2, <4>2, <4>3, <5>2
      <4>4. CASE i > k
        <5>1. ~(i <= k)
          BY <4>4
        <5>2. g[i] = f[i - 1] \o seqs[i]
          BY <3>2, <5>1
        <5>3. QED
          BY <3>2, <4>2, <5>2
      <4>5. i <= k \/ i > k
        OBVIOUS
      <4>6. QED
        BY <4>3, <4>4, <4>5
    <3>3. QED
      BY <3>1, <3>2
  <2>3. g = h
    BY <2>2
  <2>4. Flattens(g, k + 1, seqs)
    <3> HIDE DEF g
    <3>1. QED
      BY <2>3 DEF Flattens
  <2>5. QED
    BY <2>4
<1>3. n \in S
  <2> HIDE DEF S
  <2>1. QED
    BY <1>1, <1>2, CountUp
<1>4. QED
  BY <1>3

\* t[k] is what the first k of them come to.
Chained(t, seqs) ==
  /\ t[0] = <<>>
  /\ \A i \in 1 .. Len(seqs) : t[i] = t[i - 1] \o seqs[i]

\* FlattenSeq puts the sequences together one by one.
LEMMA Flattened ==
  ASSUME NEW S, NEW seqs \in Seq(Seq(S))
  PROVE  \E t : /\ Chained(t, seqs) /\ FlattenSeq(seqs) = t[Len(seqs)]
                /\ \A i \in 0 .. Len(seqs) : t[i] \in Seq(S)
<1> DEFINE n == Len(seqs)
<1>1. n \in Nat /\ \A i \in 1 .. n : seqs[i] \in Seq(S)
  BY LenProperties, ElementOfSeq
<1>2. CASE n = 0
  <2>1. seqs = <<>>
    BY <1>2, EmptySeq
  <2>2. FlattenSeq(seqs) = <<>>
    BY <1>2, <2>1 DEF FlattenSeq
  <2> DEFINE t == [i \in {0} |-> <<>>]
  <2>3. Chained(t, seqs) /\ t[n] = <<>> /\ \A i \in 0 .. n : t[i] \in Seq(S)
    BY <1>2, EmptySeq DEF Chained
  <2>4. QED
    BY <2>2, <2>3
<1>3. CASE n # 0
  <2> DEFINE f == CHOOSE f : Flattens(f, n, seqs)
  <2>1. Flattens(f, n, seqs)
    BY <1>1, FlattensExists
  <2>2. FlattenSeq(seqs) = f[n]
    BY <1>3 DEF FlattenSeq, Flattens
  <2> DEFINE t == [i \in 0 .. n |-> IF i = 0 THEN <<>> ELSE f[i]]
             R == {k \in Nat : k <= n => t[k] \in Seq(S)}
  <2>3. 0 \in R /\ t[0] = <<>> /\ t[n] = f[n]
    BY <1>1, <1>3, EmptySeq
  <2>4. ASSUME NEW i \in 1 .. n PROVE i = 1 \/ t[i] = t[i - 1] \o seqs[i]
    <3>1. CASE i # 1
      <4>1. i - 1 \in 1 .. n /\ i - 1 # 0 /\ i # 0 /\ i \in 0 .. n /\ i - 1 \in 0 .. n
        BY <3>1, <1>1
      <4>2. t[i] = f[i] /\ t[i - 1] = f[i - 1]
        BY <4>1
      <4>3. f[i] = f[i - 1] \o seqs[i]
        <5> HIDE DEF f
        <5>1. QED
          BY <3>1, <2>1 DEF Flattens
      <4>4. QED
        BY <4>2, <4>3
    <3>2. QED
      BY <3>1
  <2>5. t[1] = t[0] \o seqs[1]
    <3>1. 1 \in 1 .. n
      BY <1>1, <1>3
    <3>2. f[1] = seqs[1]
      <4> HIDE DEF f
      <4>1. QED
        BY <3>1, <2>1 DEF Flattens
    <3>3. <<>> \o seqs[1] = seqs[1]
      BY <3>1, <1>1, ConcatEmptySeq
    <3>4. t[1] = f[1]
      <4> HIDE DEF f
      <4>1. 1 \in 0 .. n /\ 1 # 0
        BY <3>1
      <4>2. QED
        BY <4>1
    <3>5. QED
      <4> HIDE DEF t, f
      <4>1. QED
        BY <3>2, <3>3, <3>4, <2>3
  <2>6. \A i \in 1 .. n : t[i] = t[i - 1] \o seqs[i]
    <3> HIDE DEF t
    <3>1. ASSUME NEW i \in 1 .. n PROVE t[i] = t[i - 1] \o seqs[i]
      <4>1. CASE i = 1
        BY <4>1, <2>5
      <4>2. CASE i # 1
        BY <4>2, <2>4
      <4>3. QED
        BY <4>1, <4>2
    <3>2. QED
      BY <3>1
  <2>7. ASSUME NEW k \in Nat, k \in R PROVE k + 1 \in R
    <3>1. CASE k + 1 <= n
      <4>1. k + 1 \in 1 .. n /\ (k + 1) - 1 = k /\ k <= n
        BY <3>1, <1>1
      <4>2. t[k] \in Seq(S) /\ seqs[k + 1] \in Seq(S)
        BY <4>1, <2>7, <1>1
      <4> HIDE DEF t
      <4>3. t[k + 1] = t[k] \o seqs[k + 1]
        BY <4>1, <2>6
      <4>4. t[k + 1] \in Seq(S)
        BY <4>2, <4>3, ConcatProperties
      <4>5. QED
        BY <4>4
    <3>2. CASE ~(k + 1 <= n)
      BY <3>2
    <3>3. QED
      BY <3>1, <3>2
  <2>8. Nat \subseteq R
    <3> HIDE DEF R
    <3>1. QED
      BY <2>3, <2>7, CountUp
  <2>9. \A i \in 0 .. n : t[i] \in Seq(S)
    <3> HIDE DEF t
    <3>1. \A i \in 0 .. n : i \in Nat /\ i <= n
      BY <1>1
    <3>2. QED
      BY <2>8, <3>1
  <2>10. Chained(t, seqs)
    <3> HIDE DEF t
    <3>1. QED
      BY <2>3, <2>6 DEF Chained
  <2>11. QED
    <3> HIDE DEF t
    <3>1. QED
      BY <2>2, <2>3, <2>9, <2>10
<1>4. QED
  BY <1>2, <1>3

-----------------------------------------------------------------------------
(* The bytes, by their numbers. *)

\* The bytes behind the first lo, up to the one with the number hi.
LEMMA NumbersAre ==
  ASSUME NEW lo \in Nat, NEW hi \in Nat, lo <= hi
  PROVE  /\ Numbers(lo, hi) \in Seq(Nat)
         /\ Len(Numbers(lo, hi)) = hi - lo
         /\ \A i \in 1 .. hi - lo : Numbers(lo, hi)[i] = lo + i
<1>1. hi - lo \in Nat /\ Numbers(lo, hi) = [i \in 1 .. hi - lo |-> lo + i]
  BY DEF Numbers
<1>2. \A i \in 1 .. hi - lo : lo + i \in Nat
  OBVIOUS
<1>3. QED
  BY <1>1, <1>2

\* The c bytes behind the first n.
LEMMA NumbersFrom ==
  ASSUME NEW n \in Nat, NEW c \in Nat
  PROVE  /\ Numbers(n, n + c) \in Seq(Nat)
         /\ Len(Numbers(n, n + c)) = c
         /\ \A i \in 1 .. c : Numbers(n, n + c)[i] = n + i
<1> DEFINE hi == n + c
<1>1. hi \in Nat /\ n <= hi /\ hi - n = c
  OBVIOUS
<1> HIDE DEF hi
<1>2. /\ Numbers(n, hi) \in Seq(Nat) /\ Len(Numbers(n, hi)) = hi - n
      /\ \A i \in 1 .. hi - n : Numbers(n, hi)[i] = n + i
  BY <1>1, NumbersAre
<1>3. QED
  BY <1>1, <1>2 DEF hi

\* From a number to itself there is no byte.
LEMMA NoNumbers ==
  ASSUME NEW lo \in Nat
  PROVE  Numbers(lo, lo) = <<>>
<1>1. Numbers(lo, lo) \in Seq(Nat) /\ Len(Numbers(lo, lo)) = 0
  BY NumbersAre
<1>2. QED
  BY <1>1, EmptySeq

\* A sequence is known by its members.
LEMMA NumbersKnown ==
  ASSUME NEW s \in Seq(Nat), NEW lo \in Nat, \A i \in 1 .. Len(s) : s[i] = lo + i
  PROVE  s = Numbers(lo, lo + Len(s))
<1> DEFINE hi == lo + Len(s)
<1>1. Len(s) \in Nat /\ hi \in Nat /\ lo <= hi /\ hi - lo = Len(s)
  BY LenProperties
<1>2. /\ Numbers(lo, hi) \in Seq(Nat) /\ Len(Numbers(lo, hi)) = Len(s)
      /\ \A i \in 1 .. Len(s) : Numbers(lo, hi)[i] = lo + i
  <2> HIDE DEF hi
  <2>1. QED
    BY <1>1, NumbersAre
<1>3. QED
  <2> HIDE DEF hi
  <2>1. s = Numbers(lo, hi)
    BY <1>2, SeqEqual
  <2>2. QED
    BY <2>1 DEF hi

\* Two stretches of bytes, the second behind the first, are one.
LEMMA NumbersJoined ==
  ASSUME NEW a \in Nat, NEW b \in Nat, NEW c \in Nat, a <= b, b <= c
  PROVE  Numbers(a, b) \o Numbers(b, c) = Numbers(a, c)
<1> DEFINE s == Numbers(a, b)
           t == Numbers(b, c)
<1>1. /\ s \in Seq(Nat) /\ Len(s) = b - a /\ \A i \in 1 .. b - a : s[i] = a + i
      /\ t \in Seq(Nat) /\ Len(t) = c - b /\ \A i \in 1 .. c - b : t[i] = b + i
  BY NumbersAre
<1> HIDE DEF s, t
<1>2. /\ s \o t \in Seq(Nat) /\ Len(s \o t) = c - a
      /\ \A i \in 1 .. b - a : (s \o t)[i] = a + i
      /\ \A i \in 1 .. c - b : (s \o t)[(b - a) + i] = b + i
  <2>0. s \in Seq(Nat) /\ t \in Seq(Nat)
    BY <1>1
  <2>1. /\ s \o t \in Seq(Nat) /\ Len(s \o t) = Len(s) + Len(t)
        /\ \A i \in 1 .. Len(s) : (s \o t)[i] = s[i]
        /\ \A i \in 1 .. Len(t) : (s \o t)[Len(s) + i] = t[i]
    BY ONLY <2>0, Joined
  <2>2. Len(s) + Len(t) = c - a
    BY <1>1
  <2>3. \A i \in 1 .. c - b : (s \o t)[(b - a) + i] = b + i
    BY <1>1, <2>1
  <2>4. QED
    BY <1>1, <2>1, <2>2, <2>3
<1>3. ASSUME NEW i \in 1 .. c - a PROVE (s \o t)[i] = a + i
  <2>1. CASE i <= b - a
    BY <2>1, <1>2
  <2>2. CASE i > b - a
    <3>1. i - (b - a) \in 1 .. c - b /\ (b - a) + (i - (b - a)) = i
          /\ b + (i - (b - a)) = a + i
      BY <2>2
    <3>2. QED
      BY <3>1, <1>2
  <2>3. i <= b - a \/ i > b - a
    OBVIOUS
  <2>4. QED
    BY <2>1, <2>2, <2>3
<1>4. s \o t = Numbers(a, a + (c - a))
  <2>1. \A i \in 1 .. Len(s \o t) : (s \o t)[i] = a + i
    BY <1>2, <1>3
  <2>2. Len(s \o t) = c - a
    BY <1>2
  <2> DEFINE u == s \o t
  <2>3. u \in Seq(Nat) /\ \A i \in 1 .. Len(u) : u[i] = a + i
    BY <1>2, <2>1
  <2> HIDE DEF u
  <2>4. u = Numbers(a, a + Len(u))
    BY <2>3, NumbersKnown
  <2>5. QED
    BY <2>2, <2>4 DEF u
<1>5. a + (c - a) = c
  OBVIOUS
<1>6. QED
  BY <1>4, <1>5 DEF s, t

-----------------------------------------------------------------------------
(* What the moves do. *)

\* The fields of a place.
LEMMA PlaceFields ==
  ASSUME NEW p \in Places
  PROVE  /\ p.at \in {"between", "frame", "body", "sum", "skip"}
         /\ p.left \in Nat /\ p.rest \in Nat /\ p.n \in Nat /\ p.start \in Nat
         /\ p.raw \in BOOLEAN /\ p.last \in BOOLEAN /\ p.sum \in BOOLEAN
         /\ p.window \in Nat /\ p.fcs \in Nat \cup {Unknown}
  BY DEF Places

\* In a block there is something left of it, and it fits.
LEMMA BodyPlace ==
  ASSUME NEW p \in Places, p.at = "body"
  PROVE  /\ p.left > 0 /\ p.rest > 0
         /\ IF p.raw THEN p.rest = p.left ELSE p.left = 1
         /\ p.rest <= BlockSizeMax /\ p.rest <= p.window
         /\ Fits(p, p.rest)
  BY DEF Places

\* What is in a unit of a block.
LEMMA BodyUnit ==
  ASSUME NEW u \in Units, u.k = "body"
  PROVE  u.bytes \in Seq(Nat)
  BY DEF Units

\* The bytes of a unit.
BytesIn(u) == IF u.k = "body" THEN u.bytes ELSE <<>>

\* A move past a unit passes exactly the bytes in it.
LEMMA MoveCounts ==
  ASSUME NEW p, NEW u, NEW q, Moves(p, u, q)
  PROVE  /\ p.n \in Nat /\ q.n \in Nat /\ p.n <= q.n
         /\ BytesIn(u) = Numbers(p.n, q.n)
<1>1. p \in Places /\ q \in Places /\ u \in Units /\ p.n \in Nat /\ q.n \in Nat
  BY PlaceFields DEF Moves
<1>2. CASE MovesBody(p, u, q)
  <2>1. u.bytes \in Seq(Nat) /\ Len(u.bytes) \in Nat
    BY <1>1, <1>2, BodyUnit, LenProperties DEF MovesBody
  <2>2. QED
    BY <1>1, <1>2, <2>1 DEF MovesBody, BytesIn
<1>3. CASE ~MovesBody(p, u, q)
  <2>1. q.n = p.n /\ u.k # "body"
    BY <1>3 DEF Moves, MovesOff, MovesHead, MovesBlock, MovesSum, MovesSkip
  <2>2. QED
    BY <1>1, <2>1, NoNumbers DEF BytesIn
<1>4. QED
  BY <1>2, <1>3

\* Passing units counts the bytes that are in them.
LEMMA PassingCounts ==
  ASSUME NEW p, NEW s, NEW q, Parses(p, s, q)
  PROVE  /\ p.n \in Nat /\ q.n \in Nat /\ p.n <= q.n
         /\ Content(s) = Numbers(p.n, q.n)
<1>1. /\ p \in Places /\ s \in Seq(Units) /\ q \in Places /\ p.n \in Nat /\ q.n \in Nat
  BY PlaceFields DEF Parses
<1>2. PICK run : Runs(run, s, p, q)
  BY DEF Parses
<1> DEFINE n == Len(s)
           seqs == [i \in 1 .. n |-> BytesIn(s[i])]
<1>3. n \in Nat /\ DOMAIN s = 1 .. n /\ \A i \in 1 .. n : s[i] \in Units
  BY <1>1, LenProperties, ElementOfSeq
<1>4. \A i \in 1 .. n : BytesIn(s[i]) \in Seq(Nat)
  BY <1>3, BodyUnit, EmptySeq DEF BytesIn
<1>5. seqs \in Seq(Seq(Nat)) /\ Len(seqs) = n /\ \A i \in 1 .. n : seqs[i] = BytesIn(s[i])
  <2> HIDE DEF n
  <2>1. QED
    BY <1>3, <1>4
<1>6. Content(s) = FlattenSeq(seqs)
  BY <1>3 DEF Content, BytesIn
<1> HIDE DEF seqs
<1>7. PICK t : Chained(t, seqs) /\ FlattenSeq(seqs) = t[n]
  BY <1>5, Flattened
<1> DEFINE S == {k \in Nat : /\ run[k].n \in Nat /\ p.n <= run[k].n
                             /\ t[k] = Numbers(p.n, run[k].n)}
<1>8. 0 \in S
  BY <1>1, <1>2, <1>7, NoNumbers DEF Runs, Chained
<1>9. ASSUME NEW k \in 0 .. n - 1, k \in S PROVE k + 1 \in S
  <2>1. k + 1 \in 1 .. n /\ (k + 1) - 1 = k /\ k + 1 \in Nat
    BY <1>3
  <2>2. Moves(run[k], s[k + 1], run[k + 1])
    BY <2>1, <1>2 DEF Runs
  <2>3. /\ run[k].n \in Nat /\ run[k + 1].n \in Nat /\ run[k].n <= run[k + 1].n
        /\ seqs[k + 1] = Numbers(run[k].n, run[k + 1].n)
    BY <2>1, <2>2, <1>5, MoveCounts
  <2>4. t[k + 1] = t[k] \o seqs[k + 1]
    BY <2>1, <1>5, <1>7 DEF Chained
  <2>5. p.n <= run[k].n /\ t[k] = Numbers(p.n, run[k].n)
    BY <1>9
  <2>6. t[k + 1] = Numbers(p.n, run[k + 1].n)
    <3>1. Numbers(p.n, run[k].n) \o Numbers(run[k].n, run[k + 1].n) = Numbers(p.n, run[k + 1].n)
      BY <2>3, <2>5, <1>1, NumbersJoined
    <3>2. QED
      BY <2>3, <2>4, <2>5, <3>1
  <2>7. p.n <= run[k + 1].n
    BY <2>3, <2>5, <1>1
  <2>8. QED
    BY <2>1, <2>3, <2>6, <2>7
<1>10. n \in S
  <2> HIDE DEF S
  <2>1. QED
    BY <1>3, <1>8, <1>9, CountTo
<1>11. run[n] = q
  BY <1>2 DEF Runs
<1>12. QED
  BY <1>1, <1>6, <1>7, <1>10, <1>11

-----------------------------------------------------------------------------
(* What is passed, from where somebody stands. *)

\* The header of a frame.
LEMMA HeadPassed ==
  ASSUME NEW p, NEW s, NEW q, Parses(p, s, q), p.at = "between",
         Len(s) > 0, s[1].k = "head", Len(s) <= HeaderSize
  PROVE  /\ q.at = "frame" /\ q.left = HeaderSize - Len(s) /\ q.n = p.n /\ q.start = p.n
         /\ q.fcs = s[1].fcs /\ q.sum = s[1].checksum /\ q.window = s[1].window
<1>1. PICK run : Runs(run, s, p, q)
  BY DEF Parses
<1>2. s \in Seq(Units) /\ Len(s) \in Nat
  BY LenProperties DEF Parses
<1> DEFINE Good(k) == /\ run[k].at = "frame" /\ run[k].left = HeaderSize - k
                      /\ run[k].n = p.n /\ run[k].start = p.n /\ run[k].fcs = s[1].fcs
                      /\ run[k].sum = s[1].checksum /\ run[k].window = s[1].window
           S == {k \in Nat : k > 0 => Good(k)}
<1>3. 0 \in S
  OBVIOUS
<1>4. ASSUME NEW k \in 0 .. Len(s) - 1, k \in S PROVE k + 1 \in S
  <2>1. k + 1 \in 1 .. Len(s) /\ (k + 1) - 1 = k /\ k + 1 \in Nat
    BY <1>2
  <2>2. Moves(run[k], s[k + 1], run[k + 1])
    BY <2>1, <1>1 DEF Runs
  <2>3. CASE k = 0
    <3>1. run[0] = p /\ s[1].k = "head" /\ Moves(p, s[1], run[1])
      BY <2>2, <2>3, <1>1 DEF Runs
    <3>2. MovesOff(p, s[1], run[1])
      BY <3>1 DEF Moves, MovesHead, MovesBlock, MovesBody, MovesSum, MovesSkip
    <3>3. Good(1)
      BY <3>1, <3>2 DEF MovesOff
    <3>4. QED
      BY <2>3, <3>3
  <2>4. CASE k # 0
    <3>1. Good(k) /\ run[k].left > 0
      BY <2>4, <1>4, <1>2, HeaderSizeAssumption
    <3>2. MovesHead(run[k], s[k + 1], run[k + 1])
      BY <3>1, <2>2 DEF Moves, MovesOff, MovesBlock, MovesBody, MovesSum, MovesSkip
    <3>3. Good(k + 1)
      BY <3>1, <3>2, HeaderSizeAssumption DEF MovesHead, SameFrame
    <3>4. QED
      BY <2>1, <3>3
  <2>5. QED
    BY <2>3, <2>4
<1>5. Len(s) \in S
  <2> HIDE DEF S
  <2>1. QED
    BY <1>2, <1>3, <1>4, CountTo
<1>6. run[Len(s)] = q
  BY <1>1 DEF Runs
<1>7. QED
  BY <1>5, <1>6

\* The header of a skippable frame.
LEMMA SkipHeadPassed ==
  ASSUME NEW p, NEW s, NEW q, Parses(p, s, q), p.at = "between",
         Len(s) > 0, s[1].k = "skiphead", Len(s) <= SkipHeaderSize
  PROVE  q.n = p.n /\ MovesInSkip(SkipHeaderSize - Len(s), s[1].size, q)
<1>1. PICK run : Runs(run, s, p, q)
  BY DEF Parses
<1>2. /\ s \in Seq(Units) /\ Len(s) \in Nat /\ SkipHeaderSize \in Nat
      /\ s[1] \in Units /\ s[1].size \in Nat
  <2>1. s \in Seq(Units) /\ Len(s) \in Nat
    BY LenProperties DEF Parses
  <2>2. s[1] \in Units
    BY <2>1, ElementOfSeq
  <2>3. s[1].size \in Nat
    BY <2>2 DEF Units
  <2>4. QED
    BY <2>1, <2>2, <2>3, HeaderSizeAssumption
<1> DEFINE Good(k) == run[k].n = p.n /\ MovesInSkip(SkipHeaderSize - k, s[1].size, run[k])
           S == {k \in Nat : k > 0 => Good(k)}
<1>3. 0 \in S
  OBVIOUS
<1>4. ASSUME NEW k \in 0 .. Len(s) - 1, k \in S PROVE k + 1 \in S
  <2>1. k + 1 \in 1 .. Len(s) /\ (k + 1) - 1 = k /\ k + 1 \in Nat
    BY <1>2
  <2>2. Moves(run[k], s[k + 1], run[k + 1])
    BY <2>1, <1>1 DEF Runs
  <2>3. CASE k = 0
    <3>1. run[0] = p /\ s[1].k = "skiphead" /\ Moves(p, s[1], run[1])
      BY <2>2, <2>3, <1>1 DEF Runs
    <3>2. MovesOff(p, s[1], run[1])
      BY <3>1 DEF Moves, MovesHead, MovesBlock, MovesBody, MovesSum, MovesSkip
    <3>3. Good(1)
      BY <3>1, <3>2 DEF MovesOff
    <3>4. QED
      BY <2>3, <3>3
  <2>4. CASE k # 0
    <3>1. Good(k) /\ SkipHeaderSize - k > 0 /\ SkipHeaderSize - k \in Nat
      BY <2>4, <1>4, <1>2
    <3>2. run[k].at = "skip" /\ run[k].left = SkipHeaderSize - k /\ run[k].rest = s[1].size
      BY <3>1, <1>2 DEF MovesInSkip
    <3>3. MovesSkip(run[k], s[k + 1], run[k + 1])
      BY <3>2, <2>2 DEF Moves, MovesOff, MovesHead, MovesBlock, MovesBody, MovesSum
    <3>4. /\ run[k + 1].n = p.n
          /\ MovesInSkip((SkipHeaderSize - k) - 1, s[1].size, run[k + 1])
      BY <3>1, <3>2, <3>3 DEF MovesSkip
    <3>5. (SkipHeaderSize - k) - 1 = SkipHeaderSize - (k + 1)
      BY <1>2
    <3>6. QED
      BY <2>1, <3>4, <3>5
  <2>5. QED
    BY <2>3, <2>4
<1>5. Len(s) \in S
  <2> HIDE DEF S
  <2>1. QED
    BY <1>2, <1>3, <1>4, CountTo
<1>6. run[Len(s)] = q
  BY <1>1 DEF Runs
<1>7. QED
  BY <1>5, <1>6

\* What is to be skipped.
LEMMA SkipPassed ==
  ASSUME NEW p, NEW s, NEW q, Parses(p, s, q), p.at = "skip", p.left = 0,
         Len(s) <= p.rest
  PROVE  q.n = p.n /\ MovesInSkip(0, p.rest - Len(s), q)
<1>1. PICK run : Runs(run, s, p, q)
  BY DEF Parses
<1>2. /\ s \in Seq(Units) /\ Len(s) \in Nat /\ p.rest \in Nat /\ p.rest > 0
  BY LenProperties DEF Parses, Places
<1> DEFINE S == {k \in Nat : run[k].n = p.n /\ MovesInSkip(0, p.rest - k, run[k])}
<1>3. 0 \in S
  BY <1>1, <1>2 DEF Runs, MovesInSkip
<1>4. ASSUME NEW k \in 0 .. Len(s) - 1, k \in S PROVE k + 1 \in S
  <2>1. k + 1 \in 1 .. Len(s) /\ (k + 1) - 1 = k /\ k + 1 \in Nat
    BY <1>2
  <2>2. Moves(run[k], s[k + 1], run[k + 1])
    BY <2>1, <1>1 DEF Runs
  <2>3. run[k].n = p.n /\ MovesInSkip(0, p.rest - k, run[k]) /\ p.rest - k > 0
    BY <1>2, <1>4
  <2>4. run[k].at = "skip" /\ run[k].left = 0 /\ run[k].rest = p.rest - k
    BY <2>3, <1>2 DEF MovesInSkip
  <2>5. MovesSkip(run[k], s[k + 1], run[k + 1])
    BY <2>4, <2>2 DEF Moves, MovesOff, MovesHead, MovesBlock, MovesBody, MovesSum
  <2>6. run[k + 1].n = p.n /\ MovesInSkip(0, (p.rest - k) - 1, run[k + 1])
    BY <2>3, <2>4, <2>5 DEF MovesSkip
  <2>7. (p.rest - k) - 1 = p.rest - (k + 1)
    BY <1>2
  <2>8. QED
    BY <2>1, <2>6, <2>7
<1>5. Len(s) \in S
  <2> HIDE DEF S
  <2>1. QED
    BY <1>2, <1>3, <1>4, CountTo
<1>6. run[Len(s)] = q
  BY <1>1 DEF Runs
<1>7. QED
  BY <1>5, <1>6

\* What is behind k units of a block.
InBody(p, k, r) ==
  /\ SameFrame(p, r)
  /\ IF k = p.left THEN PastBlock(p, p.last, r) /\ r.n = p.n + p.rest
     ELSE /\ r.at = "body" /\ r.left = p.left - k /\ r.rest = p.rest - k
          /\ r.raw = p.raw /\ r.last = p.last /\ r.n = p.n + k

\* One unit of a block after the other.
LEMMA BodyGoesOn ==
  ASSUME NEW p \in Places, p.at = "body", NEW k \in 0 .. p.left - 1,
         NEW r, InBody(p, k, r), NEW u, NEW q, Moves(r, u, q)
  PROVE  u.k = "body" /\ InBody(p, k + 1, q)
<1>1. /\ p.left \in Nat /\ p.rest \in Nat /\ p.n \in Nat
      /\ IF p.raw THEN p.rest = p.left ELSE p.left = 1
  BY PlaceFields, BodyPlace
<1>2. /\ SameFrame(p, r) /\ r.at = "body" /\ r.left = p.left - k /\ r.rest = p.rest - k
      /\ r.raw = p.raw /\ r.last = p.last /\ r.n = p.n + k
  BY <1>1 DEF InBody
<1>3. MovesBody(r, u, q)
  BY <1>2 DEF Moves, MovesOff, MovesHead, MovesBlock, MovesSum, MovesSkip
<1>4. SameFrame(p, q) /\ u.k = "body"
  BY <1>2, <1>3 DEF MovesBody, SameFrame
<1>5. CASE k + 1 = p.left
  <2>1. r.left = 1
    BY <1>1, <1>2, <1>5
  <2>2. PastBlock(r, r.last, q)
    BY <1>3, <2>1 DEF MovesBody
  <2>3. PastBlock(p, p.last, q)
    BY <1>2, <2>2 DEF PastBlock, SameFrame
  <2>4. q.n = p.n + p.rest
    <3>1. CASE p.raw
      BY <1>1, <1>2, <1>3, <1>5, <3>1 DEF MovesBody
    <3>2. CASE ~p.raw
      <4>1. k = 0
        BY <1>1, <1>5, <3>2
      <4>2. QED
        BY <1>1, <1>2, <1>3, <3>2, <4>1 DEF MovesBody
    <3>3. QED
      BY <3>1, <3>2
  <2>5. QED
    BY <1>4, <1>5, <2>3, <2>4 DEF InBody
<1>6. CASE k + 1 # p.left
  <2>1. r.left # 1 /\ p.raw
    BY <1>1, <1>2, <1>6
  <2>2. /\ q.at = "body" /\ q.left = r.left - 1 /\ q.rest = r.rest - 1
        /\ q.raw = r.raw /\ q.last = r.last /\ q.n = r.n + 1
    BY <1>2, <1>3, <2>1 DEF MovesBody
  <2>3. /\ q.left = p.left - (k + 1) /\ q.rest = p.rest - (k + 1) /\ q.n = p.n + (k + 1)
    BY <1>1, <1>2, <2>2
  <2>4. QED
    BY <1>2, <1>4, <1>6, <2>2, <2>3 DEF InBody
<1>7. QED
  BY <1>5, <1>6

\* Before the first unit of a block.
LEMMA BodyStart ==
  ASSUME NEW p \in Places, p.at = "body"
  PROVE  InBody(p, 0, p)
<1>1. p.left \in Nat /\ p.left > 0 /\ p.rest \in Nat /\ p.n \in Nat
  BY PlaceFields, BodyPlace
<1>2. QED
  BY <1>1 DEF InBody, SameFrame

\* From a place in a block on, as far as the block goes.
LEMMA BodyRuns ==
  ASSUME NEW p \in Places, p.at = "body", NEW s \in Seq(Units), NEW m \in Nat,
         NEW run, run[m] = p,
         \A i \in 1 .. Len(s) : Moves(run[i - 1], s[i], run[i]),
         NEW k \in Nat, k <= p.left, m + k <= Len(s)
  PROVE  /\ InBody(p, k, run[m + k])
         /\ k > 0 => s[m + k].k = "body"
<1>1. Len(s) \in Nat /\ p.left \in Nat
  BY LenProperties, PlaceFields
<1> DEFINE S == {i \in Nat : InBody(p, i, run[m + i]) /\ (i > 0 => s[m + i].k = "body")}
<1>2. 0 \in S
  BY BodyStart
<1>3. ASSUME NEW i \in 0 .. k - 1, i \in S PROVE i + 1 \in S
  <2>1. /\ m + i + 1 \in 1 .. Len(s) /\ (m + i + 1) - 1 = m + i /\ i \in 0 .. p.left - 1
        /\ i + 1 \in Nat /\ m + (i + 1) = m + i + 1
    BY <1>1
  <2>2. Moves(run[m + i], s[m + i + 1], run[m + i + 1])
    BY <2>1
  <2>3. InBody(p, i, run[m + i])
    BY <1>3
  <2>4. s[m + i + 1].k = "body" /\ InBody(p, i + 1, run[m + i + 1])
    BY <2>1, <2>2, <2>3, BodyGoesOn
  <2>5. QED
    BY <2>1, <2>4
<1>4. k \in S
  <2> HIDE DEF S
  <2>1. QED
    BY <1>2, <1>3, CountTo
<1>5. QED
  BY <1>4

\* The units of a block.
LEMMA BodyPassed ==
  ASSUME NEW p, NEW s, NEW q, Parses(p, s, q), p.at = "body", Len(s) <= p.left
  PROVE  /\ InBody(p, Len(s), q)
         /\ Content(s) = FlattenSeq([i \in DOMAIN s |-> s[i].bytes])
<1>1. PICK run : Runs(run, s, p, q)
  BY DEF Parses
<1>2. p \in Places /\ s \in Seq(Units) /\ Len(s) \in Nat /\ p.left \in Nat
  BY LenProperties, PlaceFields DEF Parses
<1>3. /\ run[0] = p /\ run[Len(s)] = q
      /\ \A i \in 1 .. Len(s) : Moves(run[i - 1], s[i], run[i])
  BY <1>1 DEF Runs
<1>4. ASSUME NEW k \in 0 .. Len(s)
      PROVE  InBody(p, k, run[k]) /\ (k > 0 => s[k].k = "body")
  <2>1. k \in Nat /\ k <= p.left /\ 0 + k <= Len(s) /\ 0 \in Nat /\ 0 + k = k
    BY <1>2
  <2>2. InBody(p, k, run[0 + k]) /\ (k > 0 => s[0 + k].k = "body")
    BY <1>2, <1>3, <2>1, BodyRuns
  <2>3. QED
    BY <2>1, <2>2
<1>5. InBody(p, Len(s), q)
  BY <1>2, <1>3, <1>4
<1>6. \A i \in DOMAIN s : s[i].k = "body"
  BY <1>2, <1>4, LenProperties
<1>7. QED
  BY <1>5, <1>6 DEF Content

\* How many bytes the first k units of a block hold: one each when it is raw, else all.
LEMMA BodySize ==
  ASSUME NEW p \in Places, p.at = "body", NEW k \in 1 .. p.left, NEW r, InBody(p, k, r)
  PROVE  /\ r.n = p.n + (IF p.raw THEN k ELSE p.rest)
         /\ r.n - p.n >= 1 /\ r.n - p.n <= p.rest
<1>1. /\ p.left \in Nat /\ p.rest \in Nat /\ p.n \in Nat /\ p.rest > 0
      /\ IF p.raw THEN p.rest = p.left ELSE p.left = 1
  BY PlaceFields, BodyPlace
<1>2. CASE k = p.left
  BY <1>1, <1>2 DEF InBody
<1>3. CASE k # p.left
  BY <1>1, <1>3 DEF InBody
<1>4. QED
  BY <1>2, <1>3

-----------------------------------------------------------------------------
(* What is written, from where the units before it lead to. *)

\* A place in the frame f.
At(at, left, rest, raw, last, n, f) ==
  [at |-> at, left |-> left, rest |-> rest, raw |-> raw, last |-> last, n |-> n,
   start |-> f.start, fcs |-> f.fcs, sum |-> f.sum, window |-> f.window]

\* A place can be put together from its fields.
LEMMA AtPlace ==
  ASSUME NEW at \in {"between", "frame", "body", "sum", "skip"}, NEW left \in Nat, NEW rest \in Nat,
         NEW raw \in BOOLEAN, NEW last \in BOOLEAN, NEW n \in Nat, NEW f,
         f.start \in Nat, f.fcs \in Nat \cup {Unknown}, f.sum \in BOOLEAN, f.window \in Nat,
         at \in {"frame", "body"} =>
           /\ f.start <= n
           /\ f.fcs # Unknown => n + (IF at = "body" THEN rest ELSE 0) - f.start <= f.fcs,
         at = "body" => /\ left > 0 /\ rest > 0
                        /\ IF raw THEN rest = left ELSE left = 1
                        /\ rest <= BlockSizeMax /\ rest <= f.window,
         at = "skip" => left + rest > 0
  PROVE  At(at, left, rest, raw, last, n, f) \in Places
<1> DEFINE q == At(at, left, rest, raw, last, n, f)
<1>1. q \in [at : {"between", "frame", "body", "sum", "skip"}, left : Nat, rest : Nat,
             raw : BOOLEAN, last : BOOLEAN, n : Nat, start : Nat,
             fcs : Nat \cup {Unknown}, sum : BOOLEAN, window : Nat]
  BY DEF At
<1>2. /\ q.at = at /\ q.left = left /\ q.rest = rest /\ q.raw = raw /\ q.last = last
      /\ q.n = n /\ q.start = f.start /\ q.fcs = f.fcs /\ q.sum = f.sum /\ q.window = f.window
  BY DEF At
<1> HIDE DEF q
<1>3. q.at = "frame" => Fits(q, 0)
  BY <1>2 DEF Fits
<1>4. q.at = "body" => Fits(q, q.rest)
  BY <1>2 DEF Fits
<1>5. q \in Places
  BY <1>1, <1>2, <1>3, <1>4 DEF Places
<1>6. QED
  BY <1>5 DEF q

\* The header of a frame leads from between two frames to its first block.
LEMMA HeaderPasses ==
  ASSUME NEW p \in Places, p.at = "between", NEW fcs \in Nat \cup {Unknown},
         NEW sum \in BOOLEAN
  PROVE  \E q \in Places :
           /\ Parses(p, FrameHeader(fcs, sum), q)
           /\ q.at = "frame" /\ q.left = 0 /\ q.n = p.n /\ q.start = p.n
           /\ q.fcs = fcs /\ q.sum = sum /\ q.window = WindowOf(fcs)
<1> DEFINE s == FrameHeader(fcs, sum)
           frame == [start |-> p.n, fcs |-> fcs, sum |-> sum, window |-> WindowOf(fcs)]
           f(k) == At("frame", HeaderSize - k, 0, p.raw, p.last, p.n, frame)
           run == [k \in 0 .. HeaderSize |-> IF k = 0 THEN p ELSE f(k)]
<1>1. HeaderSize \in Nat /\ HeaderSize > 0 /\ WindowOf(fcs) \in Nat
  BY HeaderSizeAssumption DEF WindowOf
<1>2. s = [i \in 1 .. HeaderSize |-> [k |-> "head", i |-> i, fcs |-> fcs, checksum |-> sum,
                                     window |-> WindowOf(fcs)]]
  BY DEF FrameHeader, WindowOf
<1>3. \A i \in 1 .. HeaderSize :
        [k |-> "head", i |-> i, fcs |-> fcs, checksum |-> sum, window |-> WindowOf(fcs)] \in Units
  BY <1>1 DEF Units
<1>4. /\ s \in Seq(Units) /\ Len(s) = HeaderSize
      /\ \A i \in 1 .. HeaderSize :
           /\ s[i] \in Units /\ s[i].k = "head" /\ s[i].fcs = fcs /\ s[i].checksum = sum
           /\ s[i].window = WindowOf(fcs)
  BY <1>1, <1>2, <1>3
<1>5. ASSUME NEW k \in 1 .. HeaderSize PROVE
        /\ f(k) \in Places /\ f(k).at = "frame" /\ f(k).left = HeaderSize - k
        /\ f(k).n = p.n /\ f(k).start = p.n /\ f(k).fcs = fcs /\ f(k).sum = sum
        /\ f(k).window = WindowOf(fcs)
  <2>1. HeaderSize - k \in Nat /\ p.n \in Nat /\ p.raw \in BOOLEAN /\ p.last \in BOOLEAN
    BY <1>1, PlaceFields
  <2>2. f(k) \in Places
    <3>1. /\ frame.start \in Nat /\ frame.fcs \in Nat \cup {Unknown} /\ frame.sum \in BOOLEAN
          /\ frame.window \in Nat /\ frame.start <= p.n
          /\ frame.fcs # Unknown => p.n + 0 - frame.start <= frame.fcs
      BY <1>1, <2>1 DEF Unknown
    <3> HIDE DEF frame
    <3>2. QED
      BY <2>1, <3>1, AtPlace
  <2>3. QED
    BY <2>2 DEF At
<1> HIDE DEF s, f
<1>6. run[0] = p /\ \A k \in 1 .. HeaderSize : run[k] = f(k)
  BY <1>1
<1> HIDE DEF run
<1>7. ASSUME NEW i \in 1 .. HeaderSize PROVE Moves(run[i - 1], s[i], run[i])
  <2>1. CASE i = 1
    <3>1. MovesOff(p, s[1], f(1))
      BY <1>1, <1>4, <1>5 DEF MovesOff
    <3>2. Moves(p, s[1], f(1))
      BY <3>1, <1>1, <1>4, <1>5 DEF Moves
    <3>3. QED
      BY <2>1, <3>2, <1>1, <1>6
  <2>2. CASE i # 1
    <3>1. i - 1 \in 1 .. HeaderSize /\ HeaderSize - (i - 1) > 0
          /\ HeaderSize - i = (HeaderSize - (i - 1)) - 1
      BY <2>2, <1>1
    <3>2. MovesHead(f(i - 1), s[i], f(i))
      BY <3>1, <1>4, <1>5 DEF MovesHead, SameFrame
    <3>3. Moves(f(i - 1), s[i], f(i))
      BY <3>1, <3>2, <1>4, <1>5 DEF Moves
    <3>4. QED
      BY <3>1, <3>3, <1>6
  <2>3. QED
    BY <2>1, <2>2
<1>8. Runs(run, s, p, f(HeaderSize))
  BY <1>1, <1>4, <1>6, <1>7 DEF Runs
<1>9. f(HeaderSize) \in Places /\ Parses(p, s, f(HeaderSize)) /\ f(HeaderSize).left = 0
  BY <1>1, <1>4, <1>5, <1>8 DEF Parses
<1>10. QED
  BY <1>1, <1>5, <1>9 DEF s

\* A skippable frame.
LEMMA SkipPasses ==
  ASSUME NEW p \in Places, p.at = "between", NEW size \in Nat
  PROVE  \E q \in Places : Parses(p, SkippableFrame(size), q) /\ q.at = "between" /\ q.n = p.n
<1> DEFINE s == SkippableFrame(size)
           all == SkipHeaderSize + size
           left(k) == IF k < SkipHeaderSize THEN SkipHeaderSize - k ELSE 0
           rest(k) == IF k < SkipHeaderSize THEN size ELSE all - k
           f(k) == At(IF k = all THEN "between" ELSE "skip", left(k), rest(k), p.raw, p.last, p.n, p)
           run == [k \in 0 .. all |-> IF k = 0 THEN p ELSE f(k)]
           heads == [i \in 1 .. SkipHeaderSize |-> [k |-> "skiphead", i |-> i, size |-> size]]
           skips == [i \in 1 .. size |-> [k |-> "skip"]]
<1>1. SkipHeaderSize \in Nat /\ SkipHeaderSize > 0 /\ all \in Nat /\ all > 0
  BY HeaderSizeAssumption
<1>2. s = heads \o skips
  BY DEF SkippableFrame
<1>3. /\ \A i \in 1 .. SkipHeaderSize : [k |-> "skiphead", i |-> i, size |-> size] \in Units
      /\ [k |-> "skip"] \in Units
  BY <1>1 DEF Units
<1>4. /\ heads \in Seq(Units) /\ Len(heads) = SkipHeaderSize
      /\ skips \in Seq(Units) /\ Len(skips) = size
      /\ \A i \in 1 .. SkipHeaderSize : heads[i] \in Units /\ heads[i].k = "skiphead" /\ heads[i].size = size
      /\ \A i \in 1 .. size : skips[i] \in Units /\ skips[i].k = "skip"
  BY <1>1, <1>3
<1> HIDE DEF heads, skips
<1>5. /\ s \in Seq(Units) /\ Len(s) = all
      /\ \A i \in 1 .. SkipHeaderSize : s[i] \in Units /\ s[i].k = "skiphead" /\ s[i].size = size
      /\ \A i \in 1 .. size : s[SkipHeaderSize + i] \in Units /\ s[SkipHeaderSize + i].k = "skip"
  <2>1. /\ s \in Seq(Units) /\ Len(s) = Len(heads) + Len(skips)
        /\ \A i \in 1 .. Len(heads) : s[i] = heads[i]
        /\ \A i \in 1 .. Len(skips) : s[Len(heads) + i] = skips[i]
    <3>1. heads \in Seq(Units) /\ skips \in Seq(Units)
      BY <1>4
    <3> HIDE DEF s
    <3>2. QED
      BY ONLY <1>2, <3>1, Joined
  <2>2. QED
    <3> HIDE DEF s
    <3>1. QED
      BY <2>1, <1>4
<1>6. ASSUME NEW k \in 1 .. all PROVE
        /\ f(k) \in Places /\ f(k).n = p.n
        /\ f(k).at = (IF k = all THEN "between" ELSE "skip")
        /\ f(k).left = left(k) /\ f(k).rest = rest(k)
        /\ left(k) \in Nat /\ rest(k) \in Nat /\ (left(k) + rest(k) = 0 <=> k = all)
  <2>1. left(k) \in Nat /\ rest(k) \in Nat /\ (left(k) + rest(k) = 0 <=> k = all)
    BY <1>1
  <2>2. PICK at : at = IF k = all THEN "between" ELSE "skip"
    OBVIOUS
  <2>3. at \in {"between", "frame", "body", "sum", "skip"} /\ at \notin {"frame", "body"}
    BY <2>2
  <2>4. /\ p.n \in Nat /\ p.start \in Nat /\ p.fcs \in Nat \cup {Unknown} /\ p.sum \in BOOLEAN
        /\ p.window \in Nat /\ p.raw \in BOOLEAN /\ p.last \in BOOLEAN
    BY PlaceFields
  <2>5. at = "skip" => left(k) + rest(k) > 0
    BY <2>1, <2>2
  <2> HIDE DEF left, rest, all
  <2>6. f(k) = At(at, left(k), rest(k), p.raw, p.last, p.n, p)
    BY <2>2
  <2> HIDE DEF f
  <2>7. f(k) \in Places
    <3>1. PICK l \in Nat, r \in Nat : l = left(k) /\ r = rest(k)
      BY <2>1
    <3>2. at = "skip" => l + r > 0
      BY <2>5, <3>1
    <3>3. At(at, l, r, p.raw, p.last, p.n, p) \in Places
      BY <2>3, <2>4, <3>2, AtPlace
    <3>4. QED
      BY <2>6, <3>1, <3>3
  <2>8. /\ f(k).at = at /\ f(k).left = left(k) /\ f(k).rest = rest(k) /\ f(k).n = p.n
    BY <2>6 DEF At
  <2>9. QED
    BY <2>1, <2>2, <2>7, <2>8
<1> HIDE DEF s, f
<1>7. run[0] = p /\ \A k \in 1 .. all : run[k] = f(k)
  BY <1>1
<1> HIDE DEF run
<1>8. ASSUME NEW k \in 1 .. all PROVE MovesInSkip(left(k), rest(k), f(k))
  <2> HIDE DEF left, rest, all
  <2>1. QED
    BY <1>6 DEF MovesInSkip
<1>9. ASSUME NEW i \in 1 .. all PROVE Moves(run[i - 1], s[i], run[i])
  <2>1. CASE i = 1
    <3>1. left(1) = SkipHeaderSize - 1 /\ rest(1) = size
      BY <1>1
    <3>2. MovesOff(p, s[1], f(1))
      <4>1. 1 \in 1 .. all /\ 1 \in 1 .. SkipHeaderSize
        BY <1>1
      <4> HIDE DEF left, rest, all
      <4>2. MovesInSkip(SkipHeaderSize - 1, size, f(1)) /\ f(1).n = p.n
        BY <3>1, <4>1, <1>6, <1>8
      <4>3. QED
        BY <4>1, <4>2, <1>5 DEF MovesOff
    <3>3. 1 \in 1 .. all /\ 1 \in 1 .. SkipHeaderSize
      BY <1>1
    <3> HIDE DEF left, rest, all
    <3>4. Moves(p, s[1], f(1))
      BY <3>2, <3>3, <1>5, <1>6 DEF Moves
    <3>5. QED
      BY <2>1, <3>3, <3>4, <1>7
  <2>2. CASE i # 1
    <3>1. i - 1 \in 1 .. all /\ i - 1 # all
      BY <2>2, <1>1
    <3>2. f(i - 1).at = "skip" /\ f(i - 1).left = left(i - 1) /\ f(i - 1).rest = rest(i - 1)
          /\ f(i - 1) \in Places /\ f(i) \in Places /\ f(i - 1).n = p.n /\ f(i).n = p.n
      <4> HIDE DEF left, rest, all
      <4>1. QED
        BY <3>1, <1>6
    <3>3. s[i] \in Units /\ MovesSkip(f(i - 1), s[i], f(i))
      <4>1. CASE i <= SkipHeaderSize
        <5>1. /\ left(i - 1) > 0 /\ left(i) = left(i - 1) - 1 /\ rest(i) = rest(i - 1)
              /\ i \in 1 .. SkipHeaderSize
          BY <4>1, <3>1, <1>1
        <5> HIDE DEF left, rest, all
        <5>2. QED
          BY <5>1, <3>2, <1>5, <1>8 DEF MovesSkip
      <4>2. CASE i > SkipHeaderSize
        <5>1. /\ left(i - 1) = 0 /\ left(i) = 0 /\ rest(i) = rest(i - 1) - 1
              /\ i - SkipHeaderSize \in 1 .. size /\ SkipHeaderSize + (i - SkipHeaderSize) = i
          BY <4>2, <3>1, <1>1
        <5>2. s[i] \in Units /\ s[i].k = "skip"
          BY <5>1, <1>5
        <5>3. MovesInSkip(0, rest(i - 1) - 1, f(i))
          <6>1. MovesInSkip(left(i), rest(i), f(i))
            BY <1>8
          <6> HIDE DEF left, rest, all
          <6>2. QED
            BY <5>1, <6>1
        <5> HIDE DEF left, rest, all
        <5>4. f(i - 1).left = 0 /\ f(i - 1).rest = rest(i - 1) /\ f(i - 1).at = "skip" /\ f(i).n = f(i - 1).n
          BY <5>1, <3>2
        <5>5. QED
          BY <5>2, <5>3, <5>4 DEF MovesSkip
      <4>3. i <= SkipHeaderSize \/ i > SkipHeaderSize
        BY <1>1
      <4>4. QED
        BY <4>1, <4>2, <4>3
    <3> HIDE DEF left, rest, all
    <3>4. Moves(f(i - 1), s[i], f(i))
      BY <3>2, <3>3 DEF Moves
    <3>5. QED
      BY <3>1, <3>4, <1>7
  <2>3. QED
    BY <2>1, <2>2
<1> HIDE DEF left, rest, all
<1>10. Runs(run, s, p, f(all))
  BY <1>1, <1>5, <1>7, <1>9 DEF Runs
<1>11. f(all) \in Places /\ Parses(p, s, f(all)) /\ f(all).at = "between" /\ f(all).n = p.n
  BY <1>1, <1>5, <1>6, <1>10 DEF Parses
<1>12. QED
  BY <1>11 DEF s

\* One byte.
LEMMA OneNumber ==
  ASSUME NEW n \in Nat
  PROVE  <<n + 1>> = Numbers(n, n + 1)
<1> DEFINE s == <<n + 1>>
<1>1. s \in Seq(Nat) /\ Len(s) = 1 /\ s[1] = n + 1
  OBVIOUS
<1> HIDE DEF s
<1>2. \A i \in 1 .. Len(s) : s[i] = n + i
  BY <1>1
<1>3. s = Numbers(n, n + Len(s))
  BY <1>1, <1>2, NumbersKnown
<1>4. QED
  BY <1>1, <1>3 DEF s

\* A block may follow here: its bytes fit.
MayFollow(q, c) ==
  /\ q.at = "frame" /\ q.left = 0
  /\ c <= BlockSizeMax /\ c <= q.window
  /\ q.fcs # Unknown => q.n + c - q.start <= q.fcs

\* Behind such a block.
Follows(q, c, last, r) ==
  r.n = q.n + c /\ SameFrame(q, r) /\ PastBlock(q, last, r)

\* The units of a block of c bytes lead behind it.
LEMMA BlockPasses ==
  ASSUME NEW q \in Places, NEW c \in Nat, MayFollow(q, c),
         NEW last \in BOOLEAN, NEW raw \in BOOLEAN, c = 0 => raw
  PROVE  /\ Len(BlockUnits(Numbers(q.n, q.n + c), last, raw)) = 1 + (IF raw THEN c ELSE 1)
         /\ \E r \in Places : /\ Parses(q, BlockUnits(Numbers(q.n, q.n + c), last, raw), r)
                              /\ Follows(q, c, last, r)
<1> DEFINE size == IF raw THEN c ELSE 1
           b == Numbers(q.n, q.n + c)
           first == [k |-> "block", last |-> last, raw |-> raw, size |-> size, orig |-> c]
           bodies == [i \in 1 .. size |-> [k |-> "body", bytes |-> IF raw THEN <<b[i]>> ELSE b]]
           s == <<first>> \o bodies
           body(m) == At("body", size - m, c - m, raw, last, q.n + m, q)
           after == IF last THEN IF q.sum THEN "sum" ELSE "between" ELSE "frame"
           end == At(after, 0, 0, raw, last, q.n + c, q)
           run == [i \in 0 .. size + 1 |-> IF i = 0 THEN q ELSE IF i <= size THEN body(i - 1) ELSE end]
<1>1. /\ q.n \in Nat /\ q.start \in Nat /\ q.window \in Nat /\ q.fcs \in Nat \cup {Unknown}
      /\ q.sum \in BOOLEAN /\ q.start <= q.n /\ q.at = "frame" /\ q.left = 0
      /\ c <= BlockSizeMax /\ c <= q.window
      /\ q.fcs # Unknown => q.n + c - q.start <= q.fcs
  BY PlaceFields DEF MayFollow, Places, Fits
<1>2. /\ size \in Nat /\ (size = 0 <=> c = 0) /\ (raw => size = c) /\ (~raw => size = 1 /\ c > 0)
  OBVIOUS
<1>3. b \in Seq(Nat) /\ Len(b) = c /\ \A i \in 1 .. c : b[i] = q.n + i
  BY <1>1, NumbersFrom
<1>4. BlockUnits(b, last, raw) = s
  <2> HIDE DEF b
  <2>1. QED
    BY <1>3 DEF BlockUnits
<1> HIDE DEF size, b
<1>5. first \in Units /\ first.k = "block" /\ first.size = size /\ first.orig = c
      /\ first.raw = raw /\ first.last = last
  BY <1>2 DEF Units
<1>6. ASSUME NEW i \in 1 .. size
      PROVE  /\ bodies[i] \in Units /\ bodies[i].k = "body"
             /\ Len(bodies[i].bytes) = IF raw THEN 1 ELSE c
             /\ bodies[i].bytes = Numbers(q.n + (i - 1), q.n + (i - 1) + (IF raw THEN 1 ELSE c))
  <2>1. bodies[i] = [k |-> "body", bytes |-> IF raw THEN <<b[i]>> ELSE b]
    OBVIOUS
  <2>2. CASE raw
    <3>1. i \in 1 .. c /\ i - 1 \in Nat /\ q.n + (i - 1) \in Nat /\ q.n + (i - 1) + 1 = q.n + i
      BY <2>2, <1>1, <1>2
    <3>2. b[i] = q.n + i
      BY <3>1, <1>3
    <3>3. <<b[i]>> = Numbers(q.n + (i - 1), q.n + (i - 1) + 1)
      BY <3>1, <3>2, OneNumber
    <3>4. <<b[i]>> \in Seq(Nat) /\ Len(<<b[i]>>) = 1
      BY <3>1, <3>2, <1>1
    <3>5. QED
      BY <2>1, <2>2, <3>3, <3>4 DEF Units
  <2>3. CASE ~raw
    <3>1. i = 1 /\ q.n + (i - 1) = q.n
      BY <2>3, <1>1, <1>2
    <3>2. QED
      BY <2>1, <2>3, <3>1, <1>3 DEF Units, b
  <2>4. QED
    BY <2>2, <2>3
<1>7. bodies \in Seq(Units) /\ Len(bodies) = size
  <2>1. \A i \in 1 .. size : bodies[i] \in Units
    BY <1>6
  <2>2. bodies = [i \in 1 .. size |-> bodies[i]]
    OBVIOUS
  <2> HIDE DEF bodies
  <2>3. QED
    BY <2>1, <2>2, <1>2
<1> HIDE DEF first, bodies
<1>8. /\ s \in Seq(Units) /\ Len(s) = 1 + size /\ s[1] = first
      /\ \A i \in 1 .. size : s[1 + i] = bodies[i]
  <2>1. <<first>> \in Seq(Units) /\ Len(<<first>>) = 1 /\ <<first>>[1] = first
    BY <1>5
  <2> DEFINE f == <<first>>
  <2>2. f \in Seq(Units) /\ Len(f) = 1 /\ f[1] = first /\ s = f \o bodies
    BY <2>1
  <2> HIDE DEF f, s
  <2>3. f \in Seq(Units) /\ bodies \in Seq(Units)
    BY <2>2, <1>7
  <2>4. /\ f \o bodies \in Seq(Units) /\ Len(f \o bodies) = Len(f) + Len(bodies)
        /\ \A i \in 1 .. Len(f) : (f \o bodies)[i] = f[i]
        /\ \A i \in 1 .. Len(bodies) : (f \o bodies)[Len(f) + i] = bodies[i]
    BY ONLY <2>3, Joined
  <2>5. QED
    BY <2>2, <2>4, <1>2, <1>7
<1> HIDE DEF s
<1>9. ASSUME NEW m \in 0 .. size - 1
      PROVE  /\ body(m) \in Places /\ body(m).at = "body" /\ body(m).left = size - m
             /\ body(m).rest = c - m /\ body(m).raw = raw /\ body(m).last = last
             /\ body(m).n = q.n + m /\ SameFrame(q, body(m))
  <2>1. /\ size - m \in Nat /\ c - m \in Nat /\ q.n + m \in Nat /\ size - m > 0 /\ c - m > 0
        /\ IF raw THEN c - m = size - m ELSE size - m = 1
        /\ c - m <= BlockSizeMax /\ c - m <= q.window
        /\ q.start <= q.n + m
        /\ q.fcs # Unknown => (q.n + m) + (c - m) - q.start <= q.fcs
    <3>1. /\ size - m \in Nat /\ c - m \in Nat /\ q.n + m \in Nat /\ size - m > 0 /\ c - m > 0
          /\ IF raw THEN c - m = size - m ELSE size - m = 1
      BY <1>1, <1>2
    <3>2. c - m <= BlockSizeMax /\ c - m <= q.window /\ q.start <= q.n + m
      BY <1>1, CStreamAssumption
    <3>3. (q.n + m) + (c - m) = q.n + c
      BY <1>1
    <3>4. QED
      BY <3>1, <3>2, <3>3, <1>1
  <2>2. body(m) \in Places
    <3> HIDE DEF size
    <3>1. QED
      BY <1>1, <2>1, AtPlace
  <2>3. QED
    BY <2>2 DEF At, SameFrame
<1>10. end \in Places /\ Follows(q, c, last, end)
  <2>1. /\ after \in {"between", "frame", "body", "sum", "skip"} /\ after \notin {"body", "skip"}
        /\ q.n + c \in Nat /\ 0 \in Nat
        /\ q.start <= q.n + c
        /\ q.fcs # Unknown => (q.n + c) + 0 - q.start <= q.fcs
    BY <1>1
  <2>2. end \in Places
    <3> HIDE DEF after
    <3>1. QED
      BY <1>1, <2>1, AtPlace
  <2>3. QED
    BY <2>2, <1>1 DEF At, Follows, SameFrame, PastBlock
<1> HIDE DEF body, end
<1>11. /\ run[0] = q /\ \A i \in 1 .. size : run[i] = body(i - 1)
       /\ run[size + 1] = end
  BY <1>2
<1> HIDE DEF run
<1>12. ASSUME NEW i \in 1 .. size + 1 PROVE Moves(run[i - 1], s[i], run[i])
  <2>1. CASE i = 1
    <3>1. CASE size = 0
      <4>1. MovesBlock(q, first, end)
        BY <3>1, <1>1, <1>2, <1>5, <1>10 DEF MovesBlock, Follows
      <4>2. Moves(q, first, end)
        BY <4>1, <1>5, <1>10 DEF Moves
      <4>3. QED
        BY <2>1, <3>1, <4>2, <1>8, <1>11
    <3>2. CASE size # 0
      <4>1. 0 \in 0 .. size - 1 /\ 1 \in 1 .. size /\ size - 0 = size /\ c - 0 = c /\ q.n + 0 = q.n
        BY <3>2, <1>1, <1>2
      <4>2. /\ body(0) \in Places /\ body(0).at = "body" /\ body(0).left = size
            /\ body(0).rest = c /\ body(0).raw = raw /\ body(0).last = last
            /\ body(0).n = q.n /\ SameFrame(q, body(0))
        BY <4>1, <1>9
      <4>3. MovesBlock(q, first, body(0))
        BY <3>2, <4>2, <1>1, <1>5 DEF MovesBlock
      <4>4. Moves(q, first, body(0))
        BY <4>2, <4>3, <1>5 DEF Moves
      <4>5. run[1] = body(0)
        BY <4>1, <1>11
      <4>6. QED
        BY <2>1, <4>4, <4>5, <1>8, <1>11
    <3>3. QED
      BY <3>1, <3>2
  <2>2. CASE i # 1
    <3>1. /\ i - 1 \in 1 .. size /\ 1 + (i - 1) = i /\ i - 2 \in 0 .. size - 1
          /\ (i - 1) - 1 = i - 2
      BY <2>2, <1>2
    <3>2. s[i] = bodies[i - 1] /\ run[i - 1] = body(i - 2)
      BY <3>1, <1>8, <1>11
    <3>3. /\ body(i - 2) \in Places /\ body(i - 2).at = "body" /\ body(i - 2).left = size - (i - 2)
          /\ body(i - 2).rest = c - (i - 2) /\ body(i - 2).raw = raw /\ body(i - 2).last = last
          /\ body(i - 2).n = q.n + (i - 2) /\ SameFrame(q, body(i - 2))
      BY <3>1, <1>9
    <3>4. /\ bodies[i - 1] \in Units /\ bodies[i - 1].k = "body"
          /\ Len(bodies[i - 1].bytes) = IF raw THEN 1 ELSE c
          /\ bodies[i - 1].bytes = Numbers(q.n + (i - 2), q.n + (i - 2) + (IF raw THEN 1 ELSE c))
      BY <3>1, <1>6
    <3>5. ~raw => i = 2
      BY <3>1, <1>2
    <3>6. CASE i = size + 1
      <4>1. body(i - 2).left = 1 /\ run[i] = end
        BY <3>3, <3>6, <1>2, <1>11
      <4>2. end.n = q.n + (i - 2) + (IF raw THEN 1 ELSE c)
        BY <3>5, <3>6, <1>1, <1>2, <1>10 DEF Follows
      <4>3. Len(bodies[i - 1].bytes) = IF raw THEN 1 ELSE body(i - 2).rest
        BY <3>3, <3>4, <3>5
      <4>4. PastBlock(body(i - 2), last, end) /\ SameFrame(body(i - 2), end)
        BY <3>3, <1>10 DEF PastBlock, SameFrame, Follows
      <4>5. MovesBody(body(i - 2), bodies[i - 1], end)
        BY <3>3, <3>4, <4>1, <4>2, <4>3, <4>4 DEF MovesBody
      <4>6. QED
        BY <3>2, <3>3, <3>4, <4>1, <4>5, <1>10 DEF Moves
    <3>7. CASE i # size + 1
      <4>1. raw /\ i \in 1 .. size /\ i - 1 \in 0 .. size - 1 /\ size - (i - 2) # 1
        BY <3>1, <3>5, <3>7, <1>2
      <4>2. run[i] = body(i - 1)
        BY <4>1, <1>11
      <4>3. /\ body(i - 1) \in Places /\ body(i - 1).at = "body" /\ body(i - 1).left = size - (i - 1)
            /\ body(i - 1).rest = c - (i - 1) /\ body(i - 1).raw = raw /\ body(i - 1).last = last
            /\ body(i - 1).n = q.n + (i - 1) /\ SameFrame(q, body(i - 1))
        BY <4>1, <1>9
      <4>4. /\ body(i - 1).left = body(i - 2).left - 1 /\ body(i - 1).rest = body(i - 2).rest - 1
            /\ body(i - 1).n = body(i - 2).n + 1 /\ body(i - 2).left # 1
        BY <3>3, <4>1, <4>3, <1>1, <1>2
      <4>5. SameFrame(body(i - 2), body(i - 1))
        BY <3>3, <4>3 DEF SameFrame
      <4>6. MovesBody(body(i - 2), bodies[i - 1], body(i - 1))
        BY <3>3, <3>4, <4>1, <4>3, <4>4, <4>5 DEF MovesBody
      <4>7. QED
        BY <3>2, <3>3, <3>4, <4>2, <4>3, <4>6 DEF Moves
    <3>8. QED
      BY <3>6, <3>7
  <2>3. QED
    BY <2>1, <2>2
<1>13. Parses(q, s, end)
  <2>1. Runs(run, s, q, end)
    BY <1>2, <1>8, <1>11, <1>12 DEF Runs
  <2>2. QED
    BY <2>1, <1>8, <1>10 DEF Parses
<1>14. Len(BlockUnits(b, last, raw)) = 1 + (IF raw THEN c ELSE 1) /\ Parses(q, BlockUnits(b, last, raw), end)
  BY <1>4, <1>8, <1>13 DEF size
<1>15. QED
  BY <1>10, <1>14 DEF b

\* What BlockUnits returns are units.
LEMMA BlockUnitsAre ==
  ASSUME NEW bytes \in Seq(Nat), NEW last \in BOOLEAN, NEW raw \in BOOLEAN
  PROVE  BlockUnits(bytes, last, raw) \in Seq(Units)
<1> DEFINE size == IF raw THEN Len(bytes) ELSE 1
           first == <<[k |-> "block", last |-> last, raw |-> raw, size |-> size, orig |-> Len(bytes)]>>
           bodies == [i \in 1 .. size |-> [k |-> "body", bytes |-> IF raw THEN <<bytes[i]>> ELSE bytes]]
<1>1. size \in Nat /\ Len(bytes) \in Nat
  BY LenProperties
<1>2. first \in Seq(Units)
  <2>1. [k |-> "block", last |-> last, raw |-> raw, size |-> size, orig |-> Len(bytes)] \in Units
    BY <1>1 DEF Units
  <2>2. QED
    BY <2>1
<1>3. bodies \in Seq(Units)
  <2>1. ASSUME NEW i \in 1 .. size
        PROVE  [k |-> "body", bytes |-> IF raw THEN <<bytes[i]>> ELSE bytes] \in Units
    <3>1. CASE raw
      <4>1. bytes[i] \in Nat
        BY <3>1, ElementOfSeq
      <4>2. <<bytes[i]>> \in Seq(Nat)
        BY <4>1
      <4>3. QED
        BY <3>1, <4>2 DEF Units
    <3>2. CASE ~raw
      BY <3>2 DEF Units
    <3>3. QED
      BY <3>1, <3>2
  <2>2. QED
    <3> HIDE DEF size
    <3>1. QED
      BY <1>1, <2>1
<1>4. BlockUnits(bytes, last, raw) = first \o bodies
  BY DEF BlockUnits
<1>5. QED
  <2> HIDE DEF first, bodies
  <2>1. QED
    BY <1>2, <1>3, <1>4, ConcatProperties

-----------------------------------------------------------------------------
(* A chunk, cut into blocks. *)

Count(len, block) == (len + block - 1) \div block
EndOfPart(i, len, block) == MIN(i * block, len)

\* Cutting len bytes into blocks: how many there are, and that they end where the bytes end.
LEMMA Cut ==
  ASSUME NEW len \in Nat, NEW block \in Nat \ {0}
  PROVE  /\ Count(len, block) \in Nat
         /\ len = 0 => Count(len, block) = 0
         /\ len \in 1 .. block => Count(len, block) = 1
         /\ len # 0 => Count(len, block) # 0
         /\ EndOfPart(0, len, block) = 0
         /\ EndOfPart(Count(len, block), len, block) = len
<1> DEFINE c == Count(len, block)
<1>1. c \in Int /\ c * block <= len + block - 1 /\ len + block - 1 < c * block + block
  BY DEF Count
<1> HIDE DEF c
<1>2. c >= 0
  <2>1. CASE c < 0
    <3>1. c + 1 <= 0
      BY <1>1, <2>1
    <3>2. (c + 1) * block <= 0 * block
      BY <1>1, <3>1
    <3>3. c * block + block <= 0
      BY <1>1, <3>2
    <3>4. QED
      BY <1>1, <3>3
  <2>2. QED
    BY <1>1, <2>1
<1>3. len = 0 => c = 0
  <2>1. CASE len = 0 /\ c >= 1
    <3>1. c * block >= 1 * block
      BY <1>1, <2>1
    <3>2. QED
      BY <1>1, <2>1, <3>1
  <2>2. QED
    BY <1>1, <1>2, <2>1
<1>4. len # 0 => c # 0
  BY <1>1
<1>5. len \in 1 .. block => c = 1
  <2>1. CASE len \in 1 .. block /\ c >= 2
    <3>1. c * block >= 2 * block
      BY <1>1, <2>1
    <3>2. QED
      BY <1>1, <2>1, <3>1
  <2>2. QED
    BY <1>1, <1>2, <1>4, <2>1
<1>6. EndOfPart(0, len, block) = 0
  BY DEF EndOfPart, MIN
<1>7. EndOfPart(c, len, block) = len
  BY <1>1 DEF EndOfPart, MIN
<1>8. QED
  BY <1>1, <1>2, <1>3, <1>4, <1>5, <1>6, <1>7 DEF c

\* Each of these blocks holds something, and no more than a block can.
LEMMA CutParts ==
  ASSUME NEW len \in Nat, NEW block \in Nat \ {0}, NEW k \in Nat, k < Count(len, block)
  PROVE  /\ EndOfPart(k, len, block) = k * block
         /\ EndOfPart(k, len, block) \in Nat /\ EndOfPart(k + 1, len, block) \in Nat
         /\ EndOfPart(k, len, block) < EndOfPart(k + 1, len, block)
         /\ EndOfPart(k + 1, len, block) - EndOfPart(k, len, block) <= block
         /\ EndOfPart(k + 1, len, block) <= len
<1> DEFINE c == Count(len, block)
<1>1. c \in Int /\ c * block <= len + block - 1
  BY DEF Count
<1>2. k < c
  OBVIOUS
<1> HIDE DEF c
<1>3. (k + 1) * block <= c * block
  BY <1>1, <1>2
<1>4. k * block \in Nat /\ (k + 1) * block = k * block + block
  OBVIOUS
<1> DEFINE x == k * block
           y == (k + 1) * block
<1>5. x \in Nat /\ y = x + block /\ x < len
  BY <1>1, <1>3, <1>4
<1>6. EndOfPart(k, len, block) = MIN(x, len) /\ EndOfPart(k + 1, len, block) = MIN(y, len)
  BY DEF EndOfPart
<1> HIDE DEF x, y
<1>7. QED
  BY <1>5, <1>6 DEF MIN, x

\* Behind the first k blocks of a chunk.
InChunk(q, k, len, block, last, r) ==
  /\ r.n = q.n + EndOfPart(k, len, block)
  /\ SameFrame(q, r)
  /\ IF k < Count(len, block) \/ len = 0 THEN r.at = "frame" /\ r.left = 0
     ELSE PastBlock(q, last, r)

\* A chunk may follow here.
ChunkFits(q, len, block) ==
  /\ q.at = "frame" /\ q.left = 0
  /\ block <= BlockSizeMax
  /\ len > 0 => block <= q.window
  /\ q.fcs # Unknown => q.n + len - q.start <= q.fcs

\* The units that a chunk of one block takes at the most.
BlockSpace(len) == IF len = 0 THEN 0 ELSE len + 1

\* ZSTD_compress_frameChunk: the blocks of a chunk lead behind it.
LEMMA BlocksPass ==
  ASSUME NEW q \in Places, NEW len \in Nat, NEW block \in Nat \ {0}, ChunkFits(q, len, block),
         NEW last \in BOOLEAN, NEW raw \in BOOLEAN
  PROVE  /\ \E r \in Places :
              /\ Parses(q, Blocks(Numbers(q.n, q.n + len), block, last, raw), r)
              /\ InChunk(q, Count(len, block), len, block, last, r)
         /\ len <= block => Len(Blocks(Numbers(q.n, q.n + len), block, last, raw)) <= BlockSpace(len)
<1> DEFINE b == Numbers(q.n, q.n + len)
           count == Count(len, block)
           E(k) == EndOfPart(k, len, block)
           part(i) == SubSeq(b, (i - 1) * block + 1, MIN(i * block, len))
           units(i) == BlockUnits(part(i), last /\ i = count, raw)
           seqs == [i \in 1 .. count |-> units(i)]
<1>1. /\ q.n \in Nat /\ q.start \in Nat /\ q.window \in Nat /\ q.fcs \in Nat \cup {Unknown}
      /\ q.at = "frame" /\ q.left = 0 /\ block <= BlockSizeMax
      /\ len > 0 => block <= q.window
      /\ q.fcs # Unknown => q.n + len - q.start <= q.fcs
  BY PlaceFields DEF ChunkFits
<1>2. b \in Seq(Nat) /\ Len(b) = len
  BY <1>1, NumbersFrom
<1>3. /\ count \in Nat /\ E(0) = 0 /\ E(count) = len
      /\ len = 0 => count = 0
      /\ len \in 1 .. block => count = 1
      /\ len # 0 => count # 0
  BY Cut
<1>4. Blocks(b, block, last, raw) = FlattenSeq(seqs)
  BY <1>2 DEF Blocks, Count
<1>5. ASSUME NEW i \in 1 .. count
      PROVE  /\ E(i - 1) \in Nat /\ E(i) \in Nat /\ E(i - 1) < E(i) /\ E(i) - E(i - 1) <= block
             /\ E(i) <= len
             /\ part(i) = Numbers(q.n + E(i - 1), (q.n + E(i - 1)) + (E(i) - E(i - 1)))
             /\ part(i) \in Seq(Nat)
  <2>1. i - 1 \in Nat /\ i - 1 < count /\ (i - 1) + 1 = i
    BY <1>3
  <2>2. /\ E(i - 1) = (i - 1) * block /\ E(i - 1) \in Nat /\ E(i) \in Nat /\ E(i - 1) < E(i)
        /\ E(i) - E(i - 1) <= block /\ E(i) <= len
    BY <2>1, CutParts
  <2>3. part(i) = SubSeq(b, E(i - 1) + 1, E(i))
    BY <2>2 DEF EndOfPart
  <2> HIDE DEF E, part
  <2>4. SubSeq(b, E(i - 1) + 1, E(i)) = Numbers(q.n + E(i - 1), (q.n + E(i - 1)) + (E(i) - E(i - 1)))
    <3>1. PICK lo \in Nat : lo = E(i - 1)
      BY <2>2
    <3>2. PICK hi \in Nat : hi = E(i)
      BY <2>2
    <3>3. PICK c \in Nat \ {0} : c = hi - lo
      BY <2>2, <3>1, <3>2
    <3>4. PICK n \in Nat : n = q.n
      BY <1>1
    <3>5. PICK from \in Nat : from = n + lo
      OBVIOUS
    <3>6. hi = lo + c /\ hi <= len /\ b = Numbers(n, n + len)
      BY <2>2, <3>1, <3>2, <3>3, <3>4 DEF b
    <3> HIDE DEF b
    <3>7. SubSeq(b, lo + 1, hi) = Numbers(from, from + c)
      <4> DEFINE part1 == SubSeq(b, lo + 1, hi)
      <4>1. b \in Seq(Nat) /\ Len(b) = len /\ \A j \in 1 .. len : b[j] = n + j
        BY <3>6, NumbersFrom
      <4>2. lo + 1 \in 1 .. len + 1 /\ hi \in lo .. len /\ hi - lo = c
        BY <3>6
      <4>3. part1 \in Seq(Nat) /\ Len(part1) = hi - lo /\ \A j \in 1 .. hi - lo : part1[j] = b[lo + j]
        BY ONLY <4>1, <4>2, lo \in Nat, hi \in Nat, len \in Nat, SubSeqProperties
      <4> HIDE DEF part1
      <4>4. ASSUME NEW j \in 1 .. Len(part1) PROVE part1[j] = from + j
        <5>1. j \in 1 .. c /\ lo + j \in 1 .. len
          BY <4>2, <4>3
        <5>2. part1[j] = b[lo + j] /\ b[lo + j] = n + (lo + j)
          BY <5>1, <4>1, <4>2, <4>3
        <5>3. QED
          BY <3>5, <5>1, <5>2
      <4>5. part1 = Numbers(from, from + Len(part1))
        BY <4>3, <4>4, NumbersKnown
      <4>6. QED
        BY <4>2, <4>3, <4>5 DEF part1
    <3>8. from = q.n + E(i - 1) /\ c = E(i) - E(i - 1)
      BY <3>1, <3>2, <3>3, <3>4, <3>5
    <3>9. QED
      BY <3>1, <3>2, <3>7, <3>8
  <2>5. q.n + E(i - 1) \in Nat /\ E(i) - E(i - 1) \in Nat
    BY <1>1, <2>2
  <2>6. Numbers(q.n + E(i - 1), (q.n + E(i - 1)) + (E(i) - E(i - 1))) \in Seq(Nat)
    BY <2>5, NumbersFrom
  <2>7. QED
    BY <2>2, <2>3, <2>4, <2>6
<1> HIDE DEF b, part, E, count
<1>6. seqs \in Seq(Seq(Units)) /\ Len(seqs) = count /\ \A i \in 1 .. count : seqs[i] = units(i)
  <2>1. \A i \in 1 .. count : (last /\ i = count) \in BOOLEAN /\ part(i) \in Seq(Nat)
    BY <1>5
  <2>2. ASSUME NEW i \in 1 .. count PROVE units(i) \in Seq(Units)
    <3>1. PICK l \in BOOLEAN : l = (last /\ i = count)
      BY <2>1
    <3>2. BlockUnits(part(i), l, raw) \in Seq(Units)
      BY <2>1, BlockUnitsAre
    <3>3. QED
      BY <3>1, <3>2
  <2> HIDE DEF units
  <2>3. QED
    BY <2>2, <1>3
<1> HIDE DEF seqs
<1>7. PICK t : Chained(t, seqs) /\ FlattenSeq(seqs) = t[count] /\ \A i \in 0 .. count : t[i] \in Seq(Units)
  BY <1>6, Flattened
<1> DEFINE S == {k \in Nat : \E r \in Places : Parses(q, t[k], r) /\ InChunk(q, k, len, block, last, r)}
<1>8. 0 \in S
  <2>1. t[0] = <<>> /\ Parses(q, <<>>, q)
    BY <1>7, PassNothing DEF Chained
  <2>2. InChunk(q, 0, len, block, last, q)
    BY <1>1, <1>3 DEF InChunk, SameFrame, E, count
  <2>3. QED
    BY <2>1, <2>2
<1>9. ASSUME NEW k \in 0 .. count - 1, k \in S
      PROVE  /\ k + 1 \in S
             /\ Len(units(k + 1)) <= (E(k + 1) - E(k)) + 1
  <2>1. k + 1 \in 1 .. count /\ (k + 1) - 1 = k /\ k + 1 \in Nat /\ k < count
    BY <1>3
  <2>2. PICK r \in Places : Parses(q, t[k], r) /\ InChunk(q, k, len, block, last, r)
    BY <1>9
  <2> DEFINE c == E(k + 1) - E(k)
  <2>3. /\ E(k) \in Nat /\ c \in Nat /\ c > 0 /\ c <= block /\ E(k + 1) <= len /\ E(k) + c = E(k + 1)
        /\ part(k + 1) = Numbers(q.n + E(k), (q.n + E(k)) + c)
    BY <2>1, <1>5
  <2>4. r.n = q.n + E(k) /\ SameFrame(q, r) /\ r.at = "frame" /\ r.left = 0
    BY <2>1, <2>2 DEF InChunk, E, count
  <2> HIDE DEF c
  <2>5. MayFollow(r, c)
    <3>1. c <= BlockSizeMax /\ c <= q.window
      BY <2>3, <1>1, CStreamAssumption
    <3>2. q.fcs # Unknown => (q.n + E(k)) + c - q.start <= q.fcs
      BY <2>3, <1>1
    <3>3. QED
      BY <2>4, <3>1, <3>2 DEF MayFollow, SameFrame
  <2>6. PICK l \in BOOLEAN : l = (last /\ k + 1 = count)
    OBVIOUS
  <2>7. /\ Len(BlockUnits(Numbers(r.n, r.n + c), l, raw)) = 1 + (IF raw THEN c ELSE 1)
        /\ \E z \in Places : /\ Parses(r, BlockUnits(Numbers(r.n, r.n + c), l, raw), z)
                             /\ Follows(r, c, l, z)
    BY <2>3, <2>5, BlockPasses
  <2>8. units(k + 1) = BlockUnits(Numbers(r.n, r.n + c), l, raw)
    BY <2>3, <2>4, <2>6
  <2>9. PICK z \in Places : Parses(r, units(k + 1), z) /\ Follows(r, c, l, z)
    BY <2>7, <2>8
  <2>10. t[k + 1] = t[k] \o units(k + 1)
    BY <2>1, <1>6, <1>7 DEF Chained
  <2>11. Parses(q, t[k + 1], z)
    <3> HIDE DEF units
    <3>1. QED
      BY <2>2, <2>9, <2>10, PassBoth
  <2>12. InChunk(q, k + 1, len, block, last, z)
    <3>1. z.n = q.n + E(k + 1) /\ SameFrame(q, z)
      BY <2>3, <2>4, <2>9, <1>1 DEF Follows, SameFrame
    <3>2. len # 0
      BY <2>1, <1>3
    <3>3. IF k + 1 < count THEN z.at = "frame" /\ z.left = 0 ELSE PastBlock(q, last, z)
      <4>1. CASE k + 1 < count
        <5>1. ~(k + 1 = count)
          BY <4>1, <1>3
        <5>2. l = FALSE
          BY <5>1, <2>6, Zenon
        <5>3. PastBlock(r, l, z)
          BY <2>9 DEF Follows
        <5>4. QED
          BY <5>2, <5>3, <4>1 DEF PastBlock
      <4>2. CASE ~(k + 1 < count)
        <5>1. k + 1 = count
          BY <4>2, <2>1, <1>3
        <5>2. l = last
          BY <5>1, <2>6
        <5>3. PastBlock(r, last, z)
          BY <5>2, <2>9 DEF Follows
        <5>4. QED
          BY <4>2, <5>3, <2>4 DEF PastBlock, SameFrame
      <4>3. QED
        BY <4>1, <4>2
    <3>4. QED
      BY <3>1, <3>2, <3>3 DEF InChunk, E, count
  <2>13. Len(units(k + 1)) <= c + 1
    <3> HIDE DEF units
    <3>1. QED
      BY <2>3, <2>7, <2>8
  <2>14. QED
    BY <2>1, <2>11, <2>12, <2>13 DEF c
<1>10. count \in S
  <2> HIDE DEF S
  <2>1. QED
    BY <1>3, <1>8, <1>9, CountTo
<1>11. len <= block => Len(FlattenSeq(seqs)) <= BlockSpace(len)
  <2>1. CASE len = 0
    <3>1. FlattenSeq(seqs) = <<>>
      BY <2>1, <1>3, <1>7 DEF Chained
    <3>2. QED
      BY <2>1, <3>1 DEF BlockSpace
  <2>2. CASE len # 0 /\ len <= block
    <3>1. count = 1 /\ 0 \in 0 .. count - 1
      BY <2>2, <1>3
    <3>2. Len(units(1)) <= (E(1) - E(0)) + 1
      <4> HIDE DEF units, S
      <4>1. Len(units(0 + 1)) <= (E(0 + 1) - E(0)) + 1
        BY <3>1, <1>8, <1>9
      <4>2. QED
        BY <4>1
    <3>3. E(1) - E(0) = len
      BY <3>1, <1>3
    <3>4. t[1] = <<>> \o units(1) /\ units(1) \in Seq(Units)
      <4>1. 1 \in 1 .. count /\ 1 - 1 = 0
        BY <3>1
      <4>2. t[1] = t[0] \o seqs[1] /\ t[0] = <<>> /\ seqs[1] \in Seq(Units) /\ seqs[1] = units(1)
        BY <4>1, <1>6, <1>7, ElementOfSeq DEF Chained
      <4>3. QED
        BY <4>2
    <3> HIDE DEF units
    <3>5. t[1] = units(1)
      BY <3>4, ConcatEmptySeq
    <3>6. QED
      BY <2>2, <3>1, <3>2, <3>3, <3>5, <1>7 DEF BlockSpace
  <2>3. QED
    BY <2>1, <2>2
<1>12. QED
  BY <1>4, <1>7, <1>10, <1>11 DEF b, count

-----------------------------------------------------------------------------
(* A frame that is decoded in one pass. *)

LastBlock(u) == u.k = "block" /\ u.last

\* The end of the frame whose checksum is there or not, when its last block is the j-th unit.
EndBehind(s, j, sum) == j + s[j].size + (IF sum THEN 1 ELSE 0)

FrameEndsAt(s, i, sum) == \E j \in 1 .. i : LastBlock(s[j]) /\ i = EndBehind(s, j, sum)

\* A place in the blocks before the last one.
BeforeLast(p, r) ==
  /\ SameFrame(p, r)
  /\ \/ r.at = "frame" /\ r.left = 0
     \/ r.at = "body" /\ r.last = FALSE

\* Before its last block has been passed nobody has left the frame.
LEMMA BlocksBefore ==
  ASSUME NEW p \in Places, p.at = "frame", p.left = 0, NEW s \in Seq(Units), NEW run, run[0] = p,
         \A i \in 1 .. Len(s) : Moves(run[i - 1], s[i], run[i]),
         NEW j \in 1 .. Len(s), \A i \in 1 .. j - 1 : ~LastBlock(s[i])
  PROVE  BeforeLast(p, run[j - 1])
<1> DEFINE S == {k \in Nat : BeforeLast(p, run[k])}
<1>1. Len(s) \in Nat
  BY LenProperties
<1>2. 0 \in S
  BY DEF BeforeLast, SameFrame
<1>3. ASSUME NEW k \in 0 .. (j - 1) - 1, k \in S PROVE k + 1 \in S
  <2>1. k + 1 \in 1 .. Len(s) /\ (k + 1) - 1 = k /\ k + 1 \in Nat /\ k + 1 \in 1 .. j - 1
    BY <1>1
  <2>2. Moves(run[k], s[k + 1], run[k + 1]) /\ ~LastBlock(s[k + 1])
    BY <2>1
  <2> DEFINE a == run[k]
             b == run[k + 1]
             u == s[k + 1]
  <2>3. BeforeLast(p, a) /\ Moves(a, u, b) /\ ~LastBlock(u)
    BY <1>3, <2>2
  <2> HIDE DEF a, b, u
  <2>4. u \in Units /\ a \in Places
    BY <2>3 DEF Moves
  <2>5. ASSUME a.at = "frame", a.left = 0 PROVE BeforeLast(p, b)
    <3>1. MovesBlock(a, u, b)
      BY <2>3, <2>5 DEF Moves, MovesOff, MovesHead, MovesBody, MovesSum, MovesSkip
    <3>2. u.k = "block" /\ u.last \in BOOLEAN
      BY <3>1, <2>4 DEF MovesBlock, Units
    <3>3. u.last = FALSE
      BY <3>2, <2>3 DEF LastBlock
    <3>4. SameFrame(p, b)
      BY <2>3, <3>1 DEF MovesBlock, SameFrame, BeforeLast
    <3>5. QED
      BY <3>1, <3>3, <3>4 DEF MovesBlock, PastBlock, BeforeLast
  <2>6. ASSUME a.at = "body", a.last = FALSE PROVE BeforeLast(p, b)
    <3>1. MovesBody(a, u, b)
      BY <2>3, <2>6 DEF Moves, MovesOff, MovesHead, MovesBlock, MovesSum, MovesSkip
    <3>2. SameFrame(p, b)
      BY <2>3, <3>1 DEF MovesBody, SameFrame, BeforeLast
    <3>3. QED
      BY <3>1, <3>2, <2>6 DEF MovesBody, PastBlock, BeforeLast
  <2>7. BeforeLast(p, b)
    BY <2>3, <2>5, <2>6 DEF BeforeLast
  <2>8. QED
    BY <2>1, <2>7 DEF b
<1>4. j - 1 \in S
  <2>1. j - 1 \in Nat
    BY <1>1
  <2> HIDE DEF S
  <2>2. QED
    BY <2>1, <1>2, <1>3, CountTo
<1>5. QED
  BY <1>4

\* The last block, and what is behind it.
LEMMA LastBlockRuns ==
  ASSUME NEW p \in Places, p.at = "frame", p.left = 0, NEW s \in Seq(Units), NEW run, run[0] = p,
         \A i \in 1 .. Len(s) : Moves(run[i - 1], s[i], run[i]),
         NEW j \in 1 .. Len(s), LastBlock(s[j]), \A i \in 1 .. j - 1 : ~LastBlock(s[i])
  PROVE  /\ s[j].size \in Nat
         /\ \A i \in 1 .. Len(s) : j < i /\ i <= j + s[j].size => s[i].k = "body"
         /\ j + s[j].size <= Len(s) =>
              PastBlock(p, TRUE, run[j + s[j].size]) /\ SameFrame(p, run[j + s[j].size])
<1> DEFINE a == run[j - 1]
           b == run[j]
           u == s[j]
           size == u.size
<1>1. Len(s) \in Nat
  BY LenProperties
<1>2. BeforeLast(p, a)
  BY BlocksBefore
<1>3. Moves(a, u, b) /\ LastBlock(u)
  OBVIOUS
<1> HIDE DEF a, b, u
<1>4. MovesBlock(a, u, b)
  BY <1>2, <1>3 DEF BeforeLast, Moves, MovesOff, MovesHead, MovesBody, MovesSum, MovesSkip, LastBlock
<1>5. u \in Units /\ a \in Places /\ b \in Places /\ u.k = "block"
  BY <1>3 DEF Moves, LastBlock
<1>6. size \in Nat /\ u.last = TRUE
  BY <1>3, <1>5 DEF Units, LastBlock
<1>7. SameFrame(p, b)
  BY <1>2, <1>4 DEF MovesBlock, SameFrame, BeforeLast
<1>8. CASE size = 0
  <2>1. PastBlock(a, TRUE, b)
    BY <1>4, <1>6, <1>8 DEF MovesBlock
  <2>2. PastBlock(p, TRUE, b)
    BY <1>2, <2>1 DEF PastBlock, SameFrame, BeforeLast
  <2>3. j + size = j
    BY <1>8
  <2>4. \A i \in 1 .. Len(s) : ~(j < i /\ i <= j + size)
    <3> HIDE DEF size
    <3>1. QED
      BY <1>1, <1>8
  <2>5. PastBlock(p, TRUE, run[j + size]) /\ SameFrame(p, run[j + size])
    BY <1>7, <2>2, <2>3 DEF b
  <2>6. QED
    BY <1>6, <2>4, <2>5 DEF u
<1>9. CASE size # 0
  <2>1. b.at = "body" /\ b.left = size /\ b.last = TRUE
    BY <1>4, <1>6, <1>9 DEF MovesBlock
  <2>2. ASSUME NEW k \in Nat, k <= size, j + k <= Len(s)
        PROVE  InBody(b, k, run[j + k]) /\ (k > 0 => s[j + k].k = "body")
    <3>1. run[j] = b /\ j \in Nat
      BY DEF b
    <3> HIDE DEF size
    <3>2. QED
      BY <1>5, <2>1, <2>2, <3>1, BodyRuns
  <2>3. ASSUME NEW i \in 1 .. Len(s), j < i, i <= j + size PROVE s[i].k = "body"
    <3>1. i - j \in Nat /\ i - j <= size /\ j + (i - j) = i /\ i <= Len(s) /\ i - j > 0
      BY <1>1, <1>6, <2>3
    <3>2. i - j > 0 => s[j + (i - j)].k = "body"
      <4>1. PICK k \in Nat : k = i - j
        BY <3>1
      <4>2. k <= size /\ j + k <= Len(s)
        BY <3>1, <4>1
      <4>3. QED
        BY <2>2, <4>1, <4>2
    <3>3. QED
      BY <3>1, <3>2
  <2>4. ASSUME j + size <= Len(s)
        PROVE  PastBlock(p, TRUE, run[j + size]) /\ SameFrame(p, run[j + size])
    <3>1. InBody(b, size, run[j + size])
      <4>1. size \in Nat /\ size <= size /\ j + size <= Len(s)
        BY <1>6, <2>4
      <4> HIDE DEF size
      <4>2. QED
        BY <2>2, <4>1
    <3> DEFINE c == run[j + size]
    <3> HIDE DEF c, size
    <3>2. InBody(b, size, c)
      BY <3>1 DEF c
    <3>3. PastBlock(b, TRUE, c) /\ SameFrame(b, c)
      BY <3>2, <2>1 DEF InBody
    <3>4. PastBlock(p, TRUE, c) /\ SameFrame(p, c)
      BY <3>3, <1>7 DEF PastBlock, SameFrame
    <3>5. QED
      BY <3>4 DEF c
  <2>5. QED
    BY <1>6, <2>3, <2>4 DEF u
<1>10. QED
  BY <1>8, <1>9

\* The first end of a frame that is found on the wire is the end of the frame, and what is in
\* front of it holds the bytes of the frame.
LEMMA OnePass ==
  ASSUME NEW p \in Places, p.at = "frame", p.left = 0, NEW s \in Seq(Units), NEW w, Parses(p, s, w),
         NEW n \in 1 .. Len(s), FrameEndsAt(s, n, p.sum), \A i \in 1 .. n - 1 : ~FrameEndsAt(s, i, p.sum)
  PROVE  \E r \in Places :
           /\ Parses(p, Take(s, n), r) /\ Parses(r, Drop(s, n), w)
           /\ r.at = "between" /\ Content(Take(s, n)) = Numbers(p.n, r.n) /\ p.n <= r.n
<1>1. PICK run : Runs(run, s, p, w)
  BY DEF Parses
<1>2. Len(s) \in Nat /\ p.sum \in BOOLEAN /\ w \in Places
  BY LenProperties, PlaceFields DEF Parses
<1>3. run[0] = p /\ \A i \in 1 .. Len(s) : Moves(run[i - 1], s[i], run[i])
  BY <1>1 DEF Runs
<1> DEFINE plus == IF p.sum THEN 1 ELSE 0
           B == {j \in 1 .. Len(s) : LastBlock(s[j])}
<1>4. PICK j0 \in 1 .. n : LastBlock(s[j0]) /\ n = EndBehind(s, j0, p.sum)
  BY DEF FrameEndsAt
<1>5. j0 \in B /\ B \in SUBSET Nat
  BY <1>2, <1>4
<1>6. PICK j \in B : \A i \in B : j <= i
  <2> HIDE DEF B
  <2>1. QED
    BY <1>5, LeastOf
<1>7. j \in 1 .. Len(s) /\ LastBlock(s[j]) /\ j <= j0
  BY <1>5, <1>6
<1>8. \A i \in 1 .. j - 1 : ~LastBlock(s[i])
  BY <1>2, <1>6, <1>7
<1> HIDE DEF B
<1> DEFINE size == s[j].size
<1>9. /\ size \in Nat
      /\ \A i \in 1 .. Len(s) : j < i /\ i <= j + size => s[i].k = "body"
      /\ j + size <= Len(s) =>
           PastBlock(p, TRUE, run[j + size]) /\ SameFrame(p, run[j + size])
  <2> HIDE DEF size
  <2>1. /\ s[j].size \in Nat
        /\ \A i \in 1 .. Len(s) : j < i /\ i <= j + s[j].size => s[i].k = "body"
        /\ j + s[j].size <= Len(s) =>
             PastBlock(p, TRUE, run[j + s[j].size]) /\ SameFrame(p, run[j + s[j].size])
    BY <1>3, <1>7, <1>8, LastBlockRuns
  <2>2. QED
    BY <2>1 DEF size
<1>10. j + size + plus = n
  <2>1. CASE j = j0
    BY <1>4, <2>1 DEF EndBehind
  <2>2. CASE j # j0
    <3>1. s[j0].k = "block" /\ j0 \in 1 .. Len(s) /\ j < j0
      BY <1>2, <1>4, <1>7, <2>2 DEF LastBlock
    <3>2. j + size < j0
      <4>1. ~(j0 <= j + size)
        BY <1>9, <3>1
      <4> HIDE DEF size
      <4>2. QED
        BY <1>2, <1>7, <1>9, <3>1, <4>1
    <3>3. s[j0] \in Units
      BY <3>1, ElementOfSeq
    <3>4. s[j0].size \in Nat
      BY <3>1, <3>3 DEF Units
    <3>5. n = j0 + s[j0].size + plus
      BY <1>4 DEF EndBehind
    <3>6. j + size + plus < n /\ j + size + plus \in 1 .. n - 1
      <4> HIDE DEF size
      <4>1. plus \in {0, 1}
        OBVIOUS
      <4> HIDE DEF plus
      <4>2. QED
        BY <1>7, <1>9, <3>2, <3>4, <3>5, <4>1
    <3>7. FrameEndsAt(s, j + size + plus, p.sum)
      <4>1. j \in 1 .. j + size + plus /\ j + size + plus = EndBehind(s, j, p.sum)
        BY <3>6, <1>7, <1>9 DEF EndBehind
      <4>2. QED
        BY <4>1, <1>7 DEF FrameEndsAt
    <3>8. QED
      BY <3>6, <3>7
  <2>3. QED
    BY <2>1, <2>2
<1>11. run[n].at = "between"
  <2> DEFINE c == run[j + size]
  <2>1. j + size <= Len(s) /\ j + size \in Nat
    BY <1>2, <1>7, <1>9, <1>10
  <2>2. PastBlock(p, TRUE, c)
    BY <1>9, <2>1
  <2>3. CASE ~p.sum
    <3>1. n = j + size
      <4>1. plus = 0
        BY <2>3
      <4> HIDE DEF size, plus
      <4>2. QED
        BY <1>7, <1>9, <1>10, <4>1
    <3>2. c.at = "between"
      <4> HIDE DEF c
      <4>1. QED
        BY <2>2, <2>3 DEF PastBlock
    <3>3. QED
      BY <3>1, <3>2
  <2>4. CASE p.sum
    <3>1. n = j + size + 1 /\ n - 1 = j + size /\ n \in 1 .. Len(s)
      BY <1>10, <2>4, <2>1
    <3>2. Moves(c, s[n], run[n])
      BY <3>1, <1>3
    <3>3. c.at = "sum"
      <4> HIDE DEF c
      <4>1. QED
        BY <2>2, <2>4 DEF PastBlock
    <3> HIDE DEF c
    <3>4. MovesSum(c, s[n], run[n])
      BY <3>2, <3>3 DEF Moves, MovesOff, MovesHead, MovesBlock, MovesBody, MovesSkip
    <3>5. QED
      BY <3>4 DEF MovesSum
  <2>5. QED
    BY <2>3, <2>4
<1> DEFINE r == run[n]
<1>12. n \in 0 .. Len(s)
  BY <1>2
<1>13. Parses(p, Take(s, n), r) /\ Parses(r, Drop(s, n), w)
  BY <1>1, <1>2, <1>12, RunStops
<1> HIDE DEF r
<1>14. r \in Places
  BY <1>13 DEF Parses
<1>15. p.n <= r.n /\ Content(Take(s, n)) = Numbers(p.n, r.n)
  <2>1. PICK t : t = Take(s, n)
    OBVIOUS
  <2>2. Parses(p, t, r)
    BY <1>13, <2>1
  <2>3. p.n <= r.n /\ Content(t) = Numbers(p.n, r.n)
    BY <2>2, PassingCounts
  <2>4. QED
    BY <2>1, <2>3
<1>16. QED
  BY <1>11, <1>13, <1>14, <1>15 DEF r

-----------------------------------------------------------------------------
(* What the compressor writes for some bytes, from where it stands. *)

\* A compressor that has a session with room for what it is given.
Ready(c, written, len) ==
  /\ c.frame \in {"init", "ongoing"}
  /\ c.pledged \in Nat \cup {Unknown} /\ c.consumed \in Nat /\ c.checksum \in BOOLEAN
  /\ c.frame = "init" => c.consumed = 0
  /\ c.block \in 1 .. BlockSizeMax
  /\ len > 0 => c.block <= WindowOf(c.pledged)
  /\ c.pledged # Unknown => c.consumed + len <= c.pledged

\* In the frame of the session.
OfFrame(c, written, q) ==
  /\ q.n = written /\ q.start + c.consumed = written
  /\ q.fcs = c.pledged /\ q.sum = c.checksum /\ q.window = WindowOf(c.pledged)

HeaderOf(c) == IF c.frame = "init" THEN FrameHeader(c.pledged, c.checksum) ELSE <<>>

\* The header, if it is still to be written, leads to the place of the first block.
LEMMA HeaderLeads ==
  ASSUME NEW c, NEW written \in Nat, NEW len \in Nat, Ready(c, written, len),
         NEW q \in Places, LedTo(c, written, q)
  PROVE  /\ Len(HeaderOf(c)) <= HeaderSize
         /\ \E r \in Places : /\ Parses(q, HeaderOf(c), r)
                              /\ r.at = "frame" /\ r.left = 0 /\ OfFrame(c, written, r)
<1>1. /\ c.frame \in {"init", "ongoing"}
      /\ c.pledged \in Nat \cup {Unknown} /\ c.checksum \in BOOLEAN
      /\ c.frame = "init" => c.consumed = 0
  BY DEF Ready
<1>2. CASE c.frame = "init"
  <2>1. q.at = "between" /\ q.n = written /\ HeaderOf(c) = FrameHeader(c.pledged, c.checksum)
    BY <1>2 DEF LedTo, HeaderOf
  <2>2. PICK r \in Places :
           /\ Parses(q, FrameHeader(c.pledged, c.checksum), r)
           /\ r.at = "frame" /\ r.left = 0 /\ r.n = q.n /\ r.start = q.n
           /\ r.fcs = c.pledged /\ r.sum = c.checksum /\ r.window = WindowOf(c.pledged)
    <3>1. PICK fcs \in Nat \cup {Unknown}, sum \in BOOLEAN : fcs = c.pledged /\ sum = c.checksum
      BY <1>1
    <3>2. \E r \in Places :
             /\ Parses(q, FrameHeader(fcs, sum), r)
             /\ r.at = "frame" /\ r.left = 0 /\ r.n = q.n /\ r.start = q.n
             /\ r.fcs = fcs /\ r.sum = sum /\ r.window = WindowOf(fcs)
      BY <2>1, HeaderPasses
    <3>3. QED
      BY <3>1, <3>2
  <2>3. OfFrame(c, written, r)
    BY <1>1, <1>2, <2>1, <2>2 DEF OfFrame
  <2>4. Len(FrameHeader(c.pledged, c.checksum)) = HeaderSize /\ HeaderSize \in Nat
    BY HeaderSizeAssumption DEF FrameHeader
  <2>5. QED
    BY <2>1, <2>2, <2>3, <2>4
<1>3. CASE c.frame = "ongoing"
  <2>1. HeaderOf(c) = <<>> /\ Parses(q, <<>>, q)
    BY <1>3, PassNothing DEF HeaderOf
  <2>2. q.at = "frame" /\ q.left = 0 /\ OfFrame(c, written, q)
    BY <1>3 DEF LedTo, OfFrame
  <2>3. Len(HeaderOf(c)) = 0 /\ HeaderSize \in Nat
    BY <2>1, HeaderSizeAssumption
  <2>4. QED
    BY <2>1, <2>2, <2>3
<1>4. QED
  BY <1>1, <1>2, <1>3

\* The bytes that come next.
IsChunk(b, written, len) == b = Numbers(written, written + len)

\* A chunk is the next len bytes.
LEMMA ChunkIs ==
  ASSUME NEW written \in Nat, NEW len \in Nat, NEW b, IsChunk(b, written, len)
  PROVE  b = Numbers(written, written + len) /\ Len(b) = len /\ b \in Seq(Nat)
BY NumbersFrom DEF IsChunk

\* Behind the blocks of a chunk.
BehindChunk(c, written, len, last, r) ==
  /\ r.n = written + len
  /\ r.start + c.consumed = written
  /\ r.fcs = c.pledged /\ r.sum = c.checksum /\ r.window = WindowOf(c.pledged)
  /\ IF last /\ len # 0 THEN r.at = IF c.checksum THEN "sum" ELSE "between"
     ELSE r.at = "frame" /\ r.left = 0

\* What it writes for them, when the frame goes on and when it ends.
ContinueLeads(got, c, written, len, last, q) ==
  /\ got.bad = FALSE /\ got.units \in Seq(Units)
  /\ len <= c.block => Len(got.units) <= HeaderSize + BlockSpace(len)
  /\ \E r \in Places : Parses(q, got.units, r) /\ BehindChunk(c, written, len, last, r)

EndLeads(got, c, written, len, q) ==
  /\ got.bad = FALSE /\ got.units \in Seq(Units)
  /\ len <= c.block => Len(got.units) <= HeaderSize + len + 2
  /\ \E r \in Places : Parses(q, got.units, r) /\ r.at = "between" /\ r.n = written + len

\* ZSTD_compressContinue_internal: what it writes leads on by the bytes it was given.
LEMMA ContinuePasses ==
  ASSUME NEW c, NEW written \in Nat, NEW len \in Nat, Ready(c, written, len),
         NEW q \in Places, LedTo(c, written, q), NEW last \in BOOLEAN, NEW raw \in BOOLEAN,
         NEW b, IsChunk(b, written, len)
  PROVE  ContinueLeads(CompressContinue(c, b, last, raw), c, written, len, last, q)
<1> DEFINE got == CompressContinue(c, b, last, raw)
<1> HIDE DEF got
<1> DEFINE blocks == Blocks(b, c.block, last, raw)
<1>1. Len(b) = len /\ b = Numbers(written, written + len)
  BY ChunkIs
<1>2. got.units = HeaderOf(c) \o blocks /\ got.bad = (c.pledged # Unknown /\ c.consumed + len > c.pledged)
  BY <1>1 DEF CompressContinue, HeaderOf, got
<1>3. /\ c.consumed \in Nat /\ c.pledged \in Nat \cup {Unknown}
      /\ c.block \in Nat \ {0} /\ c.block <= BlockSizeMax /\ BlockSizeMax \in Nat
      /\ len > 0 => c.block <= WindowOf(c.pledged)
      /\ c.pledged # Unknown => c.consumed + len <= c.pledged
  BY CStreamAssumption DEF Ready
<1>4. got.bad = FALSE
  <2>1. ~(c.pledged # Unknown /\ c.consumed + len > c.pledged)
    BY <1>3
  <2>2. QED
    BY <1>2, <2>1
<1>5. PICK r \in Places : /\ Parses(q, HeaderOf(c), r)
                          /\ r.at = "frame" /\ r.left = 0 /\ OfFrame(c, written, r)
  BY HeaderLeads
<1>6. ChunkFits(r, len, c.block)
  <2>1. r.n \in Nat /\ r.start \in Nat /\ r.fcs \in Nat \cup {Unknown}
    BY PlaceFields
  <2>2. /\ r.n = written /\ r.start + c.consumed = written /\ r.fcs = c.pledged
        /\ r.window = WindowOf(c.pledged)
    BY <1>5 DEF OfFrame
  <2>3. r.fcs # Unknown => r.n + len - r.start <= r.fcs
    BY <1>3, <2>1, <2>2
  <2>4. QED
    BY <1>3, <1>5, <2>2, <2>3 DEF ChunkFits
<1> HIDE DEF blocks
<1>7. /\ \E z \in Places :
           /\ Parses(r, blocks, z)
           /\ InChunk(r, Count(len, c.block), len, c.block, last, z)
      /\ len <= c.block => Len(blocks) <= BlockSpace(len)
  <2>1. PICK block \in Nat \ {0} : block = c.block
    BY <1>3
  <2>2. ChunkFits(r, len, block)
    BY <1>6, <2>1
  <2>3. /\ \E z \in Places :
             /\ Parses(r, Blocks(Numbers(r.n, r.n + len), block, last, raw), z)
             /\ InChunk(r, Count(len, block), len, block, last, z)
        /\ len <= block => Len(Blocks(Numbers(r.n, r.n + len), block, last, raw)) <= BlockSpace(len)
    BY <2>2, BlocksPass
  <2>4. Blocks(Numbers(r.n, r.n + len), block, last, raw) = blocks
      BY <1>1, <1>5, <2>1 DEF OfFrame, blocks
  <2>5. QED
    BY <2>1, <2>3, <2>4
<1>8. PICK z \in Places : Parses(r, blocks, z) /\ InChunk(r, Count(len, c.block), len, c.block, last, z)
  BY <1>7
<1>9. HeaderOf(c) \in Seq(Units) /\ blocks \in Seq(Units)
  BY <1>5, <1>8 DEF Parses
<1>10. Parses(q, got.units, z)
  BY <1>2, <1>5, <1>8, PassBoth
<1>11. got.units \in Seq(Units) /\ Len(got.units) = Len(HeaderOf(c)) + Len(blocks)
       /\ Len(HeaderOf(c)) \in Nat /\ Len(blocks) \in Nat
  BY ONLY <1>2, <1>9, Joined
<1>12. len <= c.block => Len(got.units) <= HeaderSize + BlockSpace(len)
  <2>1. Len(HeaderOf(c)) <= HeaderSize
    BY HeaderLeads
  <2>2. QED
    BY <1>7, <1>11, <2>1, HeaderSizeAssumption DEF BlockSpace
<1>13. BehindChunk(c, written, len, last, z)
  <2>1. /\ Count(len, c.block) \in Nat
        /\ len = 0 => Count(len, c.block) = 0
        /\ EndOfPart(Count(len, c.block), len, c.block) = len
    <3>1. PICK block \in Nat \ {0} : block = c.block
      BY <1>3
    <3>2. QED
      BY <3>1, Cut
  <2>2. z.n = r.n + len /\ SameFrame(r, z)
    BY <1>8, <2>1 DEF InChunk
  <2>3. IF len = 0 THEN z.at = "frame" /\ z.left = 0 ELSE PastBlock(r, last, z)
    BY <1>8, <2>1 DEF InChunk
  <2>4. /\ r.n = written /\ r.start + c.consumed = written
        /\ r.fcs = c.pledged /\ r.sum = c.checksum /\ r.window = WindowOf(c.pledged)
    BY <1>5 DEF OfFrame
  <2>5. IF last /\ len # 0 THEN z.at = IF c.checksum THEN "sum" ELSE "between"
        ELSE z.at = "frame" /\ z.left = 0
    BY <2>3, <2>4 DEF PastBlock
  <2>6. QED
    BY <2>2, <2>4, <2>5 DEF BehindChunk, SameFrame
<1>14. QED
  BY <1>4, <1>10, <1>11, <1>12, <1>13 DEF ContinueLeads, got

\* An empty last block ends the blocks of a frame.
LEMMA EmptyLastPasses ==
  ASSUME NEW q \in Places, q.at = "frame", q.left = 0
  PROVE  /\ Len(EmptyLastBlock) = 1
         /\ \E r \in Places : /\ Parses(q, EmptyLastBlock, r) /\ r.n = q.n /\ SameFrame(q, r)
                              /\ r.at = IF q.sum THEN "sum" ELSE "between"
<1>1. q.n \in Nat /\ q.start \in Nat /\ q.window \in Nat /\ q.fcs \in Nat \cup {Unknown}
  BY PlaceFields
<1>2. Fits(q, 0)
  BY DEF Places
<1>3. PICK l \in BOOLEAN : l = TRUE
  OBVIOUS
<1>3a. PICK c \in Nat : c = 0
  OBVIOUS
<1>4. MayFollow(q, c)
  BY <1>1, <1>2, <1>3a, CStreamAssumption DEF MayFollow, Fits
<1>5. /\ Len(BlockUnits(Numbers(q.n, q.n + c), l, l)) = 1
      /\ \E r \in Places : /\ Parses(q, BlockUnits(Numbers(q.n, q.n + c), l, l), r)
                           /\ Follows(q, c, l, r)
  <2>1. c = 0 => l
    BY <1>3
  <2>2. /\ Len(BlockUnits(Numbers(q.n, q.n + c), l, l)) = 1 + (IF l THEN c ELSE 1)
        /\ \E r \in Places : /\ Parses(q, BlockUnits(Numbers(q.n, q.n + c), l, l), r)
                             /\ Follows(q, c, l, r)
    BY <1>4, <2>1, BlockPasses
  <2>3. 1 + (IF l THEN c ELSE 1) = 1
    BY <1>3, <1>3a
  <2>4. QED
    BY <2>2, <2>3
<1>6. BlockUnits(Numbers(q.n, q.n + c), l, l) = EmptyLastBlock
  <2>1. Numbers(q.n, q.n + c) = <<>>
    BY <1>1, <1>3a, NoNumbers
  <2>2. QED
    BY <1>3, <2>1 DEF EmptyLastBlock
<1>7. PICK r \in Places : Parses(q, EmptyLastBlock, r) /\ Follows(q, c, l, r)
  BY <1>5, <1>6
<1>8. r.n = q.n /\ SameFrame(q, r) /\ r.at = IF q.sum THEN "sum" ELSE "between"
  BY <1>1, <1>3, <1>3a, <1>7 DEF Follows, PastBlock
<1>9. Len(EmptyLastBlock) = 1
  BY <1>5, <1>6
<1>10. QED
  BY <1>7, <1>8, <1>9

\* The checksum ends a frame.
LEMMA ChecksumPasses ==
  ASSUME NEW q \in Places, q.at = "sum"
  PROVE  \E r \in Places : Parses(q, <<ChecksumUnit>>, r) /\ r.n = q.n /\ r.at = "between"
<1> DEFINE r == At("between", 0, 0, q.raw, q.last, q.n, q)
<1>1. /\ q.n \in Nat /\ q.start \in Nat /\ q.fcs \in Nat \cup {Unknown} /\ q.sum \in BOOLEAN
      /\ q.window \in Nat /\ q.raw \in BOOLEAN /\ q.last \in BOOLEAN
  BY PlaceFields
<1>2. r \in Places
  <2>1. PICK at \in {"between", "frame", "body", "sum", "skip"} : at = "between"
    OBVIOUS
  <2>2. At(at, 0, 0, q.raw, q.last, q.n, q) \in Places
    BY <1>1, <2>1, AtPlace
  <2>3. QED
    BY <2>1, <2>2
<1>3. r.at = "between" /\ r.n = q.n
  BY DEF At
<1> HIDE DEF r
<1>4. ChecksumUnit \in Units /\ ChecksumUnit.k = "sum"
  BY DEF ChecksumUnit, Units
<1>5. Moves(q, ChecksumUnit, r)
  BY <1>2, <1>3, <1>4 DEF Moves, MovesSum
<1>6. QED
  BY <1>2, <1>3, <1>5, PassOne

\* The end of a frame.
LEMMA EndPasses ==
  ASSUME NEW c, NEW written \in Nat, NEW len \in Nat, Ready(c, written, len),
         c.pledged # Unknown => c.consumed + len = c.pledged,
         NEW q \in Places, LedTo(c, written, q), NEW raw \in BOOLEAN,
         NEW b, IsChunk(b, written, len)
  PROVE  EndLeads(CompressEnd(c, b, raw), c, written, len, q)
<1> DEFINE got == CompressEnd(c, b, raw)
<1> HIDE DEF got
<1>1. PICK l \in BOOLEAN : l = TRUE
  OBVIOUS
<1>2. PICK all : all = CompressContinue(c, b, l, raw)
  OBVIOUS
<1>3. /\ all.bad = FALSE /\ all.units \in Seq(Units)
      /\ len <= c.block => Len(all.units) <= HeaderSize + BlockSpace(len)
      /\ \E r \in Places : Parses(q, all.units, r) /\ BehindChunk(c, written, len, l, r)
  <2>1. ContinueLeads(CompressContinue(c, b, l, raw), c, written, len, l, q)
    BY ContinuePasses
  <2>2. ContinueLeads(all, c, written, len, l, q)
    BY <1>2, <2>1
  <2>3. QED
    BY <2>2 DEF ContinueLeads
<1>4. b = <<>> <=> len = 0
  <2>1. Len(b) = len /\ b \in Seq(Nat)
    BY ChunkIs
  <2>2. QED
    BY <2>1, EmptySeq
<1>5. all.ctx.consumed = c.consumed + len /\ (all.ctx.frame # "ending" <=> len = 0)
  <2>1. Len(b) = len
    BY ChunkIs
  <2>2. all.ctx = [c EXCEPT !.consumed = c.consumed + Len(b),
                            !.frame = IF l /\ b # <<>> THEN "ending" ELSE "ongoing"]
    BY <1>2 DEF CompressContinue
  <2>3. QED
    BY <1>1, <1>4, <2>1, <2>2
<1> DEFINE more == IF len = 0 THEN EmptyLastBlock ELSE <<>>
           sum == IF c.checksum THEN <<ChecksumUnit>> ELSE <<>>
<1>6. /\ got.units = (all.units \o more) \o sum
      /\ got.bad = (all.bad \/ (c.pledged # Unknown /\ all.ctx.consumed # c.pledged))
  BY <1>1, <1>2, <1>5 DEF CompressEnd, got
<1>7. got.bad = FALSE
  <2>1. ~(c.pledged # Unknown /\ all.ctx.consumed # c.pledged)
    BY <1>5
  <2>2. QED
    BY <1>3, <1>6, <2>1
<1>8. PICK r \in Places : Parses(q, all.units, r) /\ BehindChunk(c, written, len, l, r)
  BY <1>3
<1>9. /\ r.n = written + len /\ r.sum = c.checksum
      /\ IF len # 0 THEN r.at = IF c.checksum THEN "sum" ELSE "between"
         ELSE r.at = "frame" /\ r.left = 0
  BY <1>1, <1>8 DEF BehindChunk
<1>10. /\ Len(more) <= 1
       /\ len # 0 => Len(more) = 0
       /\ \E z \in Places : /\ Parses(r, more, z) /\ z.n = r.n
                            /\ z.at = IF c.checksum THEN "sum" ELSE "between"
  <2>1. CASE len = 0
    <3>1. more = EmptyLastBlock
      BY <2>1
    <3>2. Len(EmptyLastBlock) = 1
          /\ \E z \in Places : /\ Parses(r, EmptyLastBlock, z) /\ z.n = r.n /\ SameFrame(r, z)
                               /\ z.at = IF r.sum THEN "sum" ELSE "between"
      BY <2>1, <1>9, EmptyLastPasses
    <3> HIDE DEF more
    <3>3. QED
      BY <2>1, <3>1, <3>2, <1>9
  <2>2. CASE len # 0
    BY <2>2, <1>9, PassNothing
  <2>3. QED
    BY <2>1, <2>2
<1>11. PICK z \in Places : /\ Parses(r, more, z) /\ z.n = r.n
                           /\ z.at = IF c.checksum THEN "sum" ELSE "between"
  BY <1>10
<1>12. /\ Len(sum) <= 1
       /\ \E w \in Places : Parses(z, sum, w) /\ w.n = z.n /\ w.at = "between"
  <2>1. CASE c.checksum
    BY <2>1, <1>11, ChecksumPasses
  <2>2. CASE ~c.checksum
    BY <2>2, <1>11, PassNothing
  <2>3. QED
    BY <2>1, <2>2
<1>13. PICK w \in Places : Parses(z, sum, w) /\ w.n = z.n /\ w.at = "between"
  BY <1>12
<1>14. more \in Seq(Units) /\ sum \in Seq(Units)
  BY <1>11, <1>13 DEF Parses
<1> HIDE DEF more, sum
<1>15. Parses(q, all.units \o more, z)
  BY <1>8, <1>11, PassBoth
<1>16. Parses(q, got.units, w)
  BY <1>6, <1>13, <1>15, PassBoth
<1>17. all.units \o more \in Seq(Units) /\ Len(all.units \o more) = Len(all.units) + Len(more)
       /\ Len(all.units) \in Nat /\ Len(more) \in Nat
  BY ONLY <1>3, <1>14, Joined
<1>18. got.units \in Seq(Units) /\ Len(got.units) = (Len(all.units) + Len(more)) + Len(sum)
       /\ Len(sum) \in Nat
  BY ONLY <1>6, <1>14, <1>17, Joined
<1>19. len <= c.block => Len(got.units) <= HeaderSize + len + 2
  <2>1. /\ len <= c.block => Len(all.units) <= HeaderSize + BlockSpace(len)
        /\ Len(more) <= 1 /\ (len # 0 => Len(more) = 0)
        /\ Len(sum) <= 1
    BY <1>3, <1>10, <1>12
  <2>2. HeaderSize \in Nat
    BY HeaderSizeAssumption
  <2>3. QED
    BY <1>17, <1>18, <2>1, <2>2 DEF BlockSpace
<1>20. w.n = written + len
  BY <1>9, <1>11, <1>13
<1>21. QED
  BY <1>7, <1>13, <1>16, <1>18, <1>19, <1>20 DEF EndLeads, got

-----------------------------------------------------------------------------
(* A step of the writer, as the reader sees it. *)

\* The tail of two sequences put together.
LEMMA TailJoined ==
  ASSUME NEW S, NEW s \in Seq(S), NEW t \in Seq(S), s # <<>>
  PROVE  Tail(s \o t) = Tail(s) \o t
<1>1. /\ s \o t \in Seq(S) /\ Len(s \o t) = Len(s) + Len(t)
      /\ \A i \in 1 .. Len(s) + Len(t) : (s \o t)[i] = IF i <= Len(s) THEN s[i] ELSE t[i - Len(s)]
  BY ConcatProperties
<1>2. Len(s) \in Nat /\ Len(t) \in Nat /\ Len(s) > 0
  BY EmptySeq, LenProperties
<1>3. s \o t # <<>>
  BY <1>1, <1>2
<1>4. /\ Tail(s) \in Seq(S) /\ Len(Tail(s)) = Len(s) - 1
      /\ \A i \in 1 .. Len(Tail(s)) : Tail(s)[i] = s[i + 1]
  BY HeadTailProperties
<1> DEFINE a == s \o t
           b == Tail(s) \o t
<1>5. /\ Tail(a) \in Seq(S) /\ Len(Tail(a)) = Len(a) - 1
      /\ \A i \in 1 .. Len(Tail(a)) : Tail(a)[i] = a[i + 1]
  <2> HIDE DEF a
  <2>1. a \in Seq(S) /\ a # <<>>
    BY <1>1, <1>3 DEF a
  <2>2. QED
    BY <2>1, HeadTailProperties
<1>6. /\ b \in Seq(S) /\ Len(b) = Len(Tail(s)) + Len(t)
      /\ \A i \in 1 .. Len(Tail(s)) + Len(t) :
           b[i] = IF i <= Len(Tail(s)) THEN Tail(s)[i] ELSE t[i - Len(Tail(s))]
  BY <1>4, ConcatProperties
<1>7. Len(Tail(a)) = Len(b)
  BY <1>1, <1>2, <1>4, <1>5, <1>6
<1> HIDE DEF b
<1>8. ASSUME NEW i \in 1 .. Len(b) PROVE Tail(a)[i] = b[i]
  <2>1. Tail(a)[i] = a[i + 1]
    BY <1>5, <1>7
  <2>2. i + 1 \in 1 .. Len(s) + Len(t) /\ i \in 1 .. Len(Tail(s)) + Len(t)
    BY <1>2, <1>4, <1>6
  <2>3. CASE i + 1 <= Len(s)
    BY <2>1, <2>2, <2>3, <1>1, <1>2, <1>4, <1>6
  <2>4. CASE ~(i + 1 <= Len(s))
    <3>1. ~(i <= Len(Tail(s))) /\ (i + 1) - Len(s) = i - Len(Tail(s))
      BY <2>2, <2>4, <1>2, <1>4
    <3>2. QED
      BY <2>1, <2>2, <2>4, <3>1, <1>1, <1>6
  <2>5. QED
    BY <2>3, <2>4
<1> HIDE DEF a
<1>9. Tail(a) = b
  BY <1>5, <1>6, <1>7, <1>8, SeqEqual
<1>10. QED
  BY <1>9 DEF a, b

\* Concatenation, by a name that the provers leave alone.
Cat(s, t) == s \o t

\* Cat is associative, and what it returns is a sequence.
LEMMA CatGroups ==
  ASSUME NEW S, NEW s \in Seq(S), NEW t \in Seq(S), NEW u \in Seq(S)
  PROVE  Cat(s, t) \in Seq(S) /\ Cat(Cat(s, t), u) = Cat(s, Cat(t, u))
<1>1. (s \o t) \o u = s \o (t \o u)
  BY ConcatAssociative
<1>2. s \o t \in Seq(S)
  BY ConcatProperties
<1>3. QED
  BY <1>1, <1>2 DEF Cat

\* u goes onto the wire, v is what has been made.
LEMMA WriterKeeps ==
  ASSUME CTypeInv, DInv, UnderwayInv, ~dcall.busy, UNCHANGED dVars,
         NEW u \in Seq(Units), NEW v \in Seq(Units), wire' = Cat(wire, u), cs' \in CSessions,
         Cat(u, cs'.outBuff) = Cat(cs.outBuff, v),
         \A q \in Places : LedTo(cs, Written, q) =>
           \E r \in Places : Parses(q, v, r) /\ LedTo(cs', Written', r)
  PROVE  DInv' /\ UnderwayInv'
<1>0. UNCHANGED <<ds, dmem, dcall, received, made, failures>>
  BY DEF dVars
<1>1. wire \in Seq(Lyings) /\ Lying \in Seq(Units)
  BY DEF UnderwayInv
<1>2. u \in Seq(Lyings)
  <2>1. Units \subseteq Lyings
    BY DEF Lyings
  <2>2. QED
    BY <2>1
<1>3. /\ wire' \in Seq(Lyings) /\ Len(wire') = Len(wire) + Len(u)
      /\ Len(wire) \in Nat /\ Len(u) \in Nat
      /\ \A i \in 1 .. Len(wire) : wire'[i] = wire[i]
  <2>1. wire' = wire \o u
    BY DEF Cat
  <2>2. QED
    BY ONLY <1>1, <1>2, <2>1, Joined
<1>4. DInv'
  <2>1. DTypeInv'
    BY <1>0 DEF DInv, DTypeInv
  <2>2. DStageInv'
    <3>1. ds.hostage => Len(wire') > 0 /\ wire'[1].k = "hostage"
      BY <1>3 DEF DInv, DStageInv
    <3>2. QED
      BY <1>0, <3>1 DEF DInv, DStageInv, HeaderAll
  <2>3. DFlushInv'
    BY <1>0 DEF DInv, DFlushInv
  <2>4. DCallInv'
    BY <1>0 DEF DInv, DCallInv, HeaderAll
  <2>5. DRingInv'
    <3>1. (DecodingBlocks <=> DecodingBlocks') /\ (DRoomInv <=> DRoomInv') /\ (DSegmentsInv <=> DSegmentsInv')
      BY <1>0 DEF DecodingBlocks, DRoomInv, DSegmentsInv, OneSegment, Behind
    <3>2. DHistoryInv <=> DHistoryInv'
      BY <1>0 DEF DHistoryInv, DReach, DAddress
    <3>3. QED
      BY <3>1, <3>2 DEF DInv, DRingInv
  <2>6. QED
    BY <2>1, <2>2, <2>3, <2>4, <2>5 DEF DInv
<1>5. Lying' \in Seq(Units) /\ Lying' = Cat(Lying, u)
  <2>1. Lying' = Cat(Lying, u)
    <3>1. CASE ~ds.hostage
      BY <3>1, <1>0 DEF Lying
    <3>2. CASE ds.hostage
      <4>1. Len(wire) > 0
        BY <3>2 DEF DInv, DStageInv
      <4>2. wire # <<>>
        BY <4>1
      <4>3. Tail(Cat(wire, u)) = Cat(Tail(wire), u)
        BY <1>1, <1>2, <4>2, TailJoined DEF Cat
      <4>4. QED
        BY <3>2, <4>3, <1>0 DEF Lying
    <3>3. QED
      BY <3>1, <3>2
  <2>2. QED
    BY <1>1, <2>1, CatGroups
<1>6. Held \in Seq(Units) /\ Held' = Held /\ cs.outBuff \in Seq(Units) /\ cs'.outBuff \in Seq(Units)
  <2>1. ds.head \in Seq(Units) /\ ds.inBuff \in Seq(Units)
    BY DEF DInv, DTypeInv, DContexts
  <2>2. cs.outBuff \in Seq(Units) /\ cs'.outBuff \in Seq(Units)
    BY DEF CTypeInv, CSessions
  <2>3. QED
    BY <1>0, <2>1, <2>2, EmptySeq DEF Held
<1>7. Underway' = Underway \o v
  <2>2. Cat(Held, Cat(Cat(Lying, u), cs'.outBuff)) = Cat(Cat(Held, Cat(Lying, cs.outBuff)), v)
    <3>1. PICK h \in Seq(Units), l \in Seq(Units), b \in Seq(Units), o \in Seq(Units) :
            h = Held /\ l = Lying /\ b = cs.outBuff /\ o = cs'.outBuff
      BY <1>1, <1>6
    <3>2. Cat(Cat(l, u), o) = Cat(l, Cat(u, o)) /\ Cat(Cat(l, b), v) = Cat(l, Cat(b, v)) /\ Cat(l, b) \in Seq(Units)
      BY CatGroups
    <3>3. Cat(Cat(h, Cat(l, b)), v) = Cat(h, Cat(Cat(l, b), v))
      BY <3>2, CatGroups
    <3>4. QED
      BY <3>1, <3>2, <3>3
  <2>3. Underway = Cat(Held, Cat(Lying, cs.outBuff))
    BY DEF Underway, Cat
  <2>4. Underway' = Cat(Held', Cat(Lying', cs'.outBuff))
    BY DEF Underway, Cat
  <2>5. Underway' = Cat(Underway, v)
    BY <1>5, <1>6, <2>2, <2>3, <2>4
  <2>6. QED
    BY <2>5 DEF Cat
<1>8. PICK p \in Places, q \in Places : Matches(p) /\ Parses(p, Underway, q) /\ LedTo(cs, Written, q)
  BY DEF UnderwayInv
<1>9. PICK r \in Places : Parses(q, v, r) /\ LedTo(cs', Written', r)
  BY <1>8
<1>10. Parses(p, Underway', r)
  BY <1>7, <1>8, <1>9, PassBoth
<1>11. Matches(p)'
  BY <1>0, <1>8 DEF Matches, InFrame
<1>12. LedTo(cs, Written, r)'
  BY <1>9
<1>13. QED
  BY <1>3, <1>4, <1>5, <1>9, <1>10, <1>11, <1>12 DEF UnderwayInv

-----------------------------------------------------------------------------
(* The writer's steps. *)

\* The fields of a compression context.
LEMMA SessionFields ==
  ASSUME NEW c \in CSessions
  PROVE  /\ c.stage \in {"init", "load", "flush"} /\ c.frame \in {"created", "init", "ongoing"}
         /\ c.pledged \in Nat \cup {Unknown} /\ c.consumed \in Nat /\ c.checksum \in BOOLEAN
         /\ c.window \in Nat /\ c.block \in Nat /\ c.pos \in Nat /\ c.toCompress \in Nat
         /\ c.target \in Nat /\ c.outBuff \in Seq(Units) /\ c.ended \in BOOLEAN
         /\ c.notConsumed \in Nat /\ c.stable \in BOOLEAN
         /\ c.inBuff \in UNION {[0 .. m - 1 -> Nat] : m \in Nat}
  BY DEF CSessions

\* Between two sessions.
IsNoSession(c, n) == c = [NoSession(c.stable) EXCEPT !.notConsumed = n]

\* A context between two sessions.
LEMMA NoSessionIs ==
  ASSUME NEW c, NEW n \in Nat, c.stable \in BOOLEAN, IsNoSession(c, n)
  PROVE  /\ c \in CSessions
         /\ c.stage = "init" /\ c.frame = "created" /\ c.consumed = 0 /\ c.pos = 0 /\ c.toCompress = 0
         /\ c.outBuff = <<>> /\ c.ended = FALSE /\ c.notConsumed = n
         /\ c.pledged = Unknown
<1> DEFINE Rings == UNION {[0 .. m - 1 -> Nat] : m \in Nat}
<1>1. <<>> \in Rings
  <2>1. <<>> \in [0 .. 0 - 1 -> Nat]
    OBVIOUS
  <2>2. QED
    BY <2>1
<1>2. <<>> \in Seq(Units)
  BY EmptySeq
<1>3. c = [stage |-> "init", frame |-> "created", pledged |-> Unknown, consumed |-> 0,
           checksum |-> FALSE, window |-> 0, block |-> 0, inBuff |-> <<>>, pos |-> 0,
           toCompress |-> 0, target |-> 0, outBuff |-> <<>>, ended |-> FALSE,
           notConsumed |-> n, stable |-> c.stable]
  BY DEF NoSession, IsNoSession
<1> HIDE DEF Rings
<1>4. [stage |-> "init", frame |-> "created", pledged |-> Unknown, consumed |-> 0,
       checksum |-> FALSE, window |-> 0, block |-> 0, inBuff |-> <<>>, pos |-> 0,
       toCompress |-> 0, target |-> 0, outBuff |-> <<>>, ended |-> FALSE,
       notConsumed |-> n, stable |-> c.stable]
      \in [stage : {"init", "load", "flush"}, frame : {"created", "init", "ongoing"},
           pledged : Nat \cup {Unknown}, consumed : Nat, checksum : BOOLEAN, window : Nat,
           block : Nat, inBuff : Rings, pos : Nat,
           toCompress : Nat, target : Nat, outBuff : Seq(Units), ended : BOOLEAN,
           notConsumed : Nat, stable : BOOLEAN]
  BY <1>1, <1>2
<1>5. c \in CSessions
  BY <1>3, <1>4 DEF CSessions, Rings
<1>6. QED
  BY <1>3, <1>5

\* There all of the invariant is a matter of the input and the call.
LEMMA WithoutSession ==
  ASSUME NEW n \in Nat, CTypeInv', IsNoSession(cs', n),
         ~ccall'.busy, ccall'.op # "continue" => n = 0, n <= ip',
         ccall'.op # "continue" /\ ccall'.ret = 0 => ip' - n = iend'
  PROVE  CInv' /\ Written' = ip' - n
<1>1. cs'.stable \in BOOLEAN /\ ip' \in Nat /\ iend' \in Nat
  BY SessionFields DEF CTypeInv
<1>2. /\ cs'.stage = "init" /\ cs'.frame = "created" /\ cs'.consumed = 0 /\ cs'.pos = 0 /\ cs'.toCompress = 0
      /\ cs'.outBuff = <<>> /\ cs'.ended = FALSE /\ cs'.notConsumed = n
  BY <1>1, NoSessionIs
<1>3. Waiting' = 0 /\ Written' = ip' - n
  BY <1>1, <1>2 DEF Waiting, Written
<1>4. CInitInv' /\ CStageInv' /\ CSizesInv' /\ CRingInv'
  <2>1. cs' = [NoSession(cs'.stable) EXCEPT !.notConsumed = cs'.notConsumed]
    BY <1>2 DEF IsNoSession
  <2>2. QED
    BY <1>2, <2>1 DEF CInitInv, CStageInv, CSizesInv, CRingInv
<1>5. CStableInv' /\ CPledgedInv' /\ CReturnInv'
  <2>1. CStableInv'
    BY <1>1, <1>2, <1>3 DEF CStableInv
  <2>2. CPledgedInv'
    BY <1>2 DEF CPledgedInv
  <2>3. CReturnInv'
    BY <1>2, <1>3 DEF CReturnInv
  <2>4. QED
    BY <2>1, <2>2, <2>3
<1>6. QED
  BY <1>3, <1>4, <1>5 DEF CInv

\* Nothing is made and nothing is written.
LEMMA NothingWritten ==
  ASSUME CTypeInv, DInv, UnderwayInv, ~dcall.busy, UNCHANGED dVars, UNCHANGED wire, cs' \in CSessions,
         cs'.outBuff = cs.outBuff,
         \A q \in Places : LedTo(cs, Written, q) => LedTo(cs', Written', q)
  PROVE  DInv' /\ UnderwayInv'
<1>1. PICK e \in Seq(Units) : e = <<>>
  BY EmptySeq
<1>2. wire \in Seq(Lyings)
  BY DEF UnderwayInv
<1>3. cs.outBuff \in Seq(Units)
  BY SessionFields DEF CTypeInv
<1>4. wire' = Cat(wire, e) /\ Cat(e, cs'.outBuff) = Cat(cs.outBuff, e)
  <2>1. wire \o e = wire
    BY <1>1, <1>2, ConcatEmptySeq
  <2>2. e \o cs.outBuff = cs.outBuff /\ cs.outBuff \o e = cs.outBuff
    BY <1>1, <1>3, ConcatEmptySeq
  <2>3. QED
    BY <2>1, <2>2 DEF Cat
<1>5. ASSUME NEW q \in Places, LedTo(cs, Written, q)
      PROVE  \E r \in Places : Parses(q, e, r) /\ LedTo(cs', Written', r)
  BY <1>1, <1>5, PassNothing
<1>6. QED
  BY <1>4, <1>5, WriterKeeps

WriterOf(Step) == CInv /\ DInv /\ UnderwayInv /\ ~dcall.busy /\ UNCHANGED dVars /\ Step

\* The stable input is only looked at.
CallLooks(op, added) ==
  /\ cs.stage = "init" /\ cs.stable /\ op = "continue"
  /\ cs' = [cs EXCEPT !.notConsumed = iend + added - ip + cs.notConsumed]
  /\ iend' = iend + added /\ ip' = iend' /\ ccall' = Idle(op, 1) /\ UNCHANGED wire

\* A call that only looks at the input keeps the invariant.
LEMMA LooksKeeps ==
  ASSUME NEW added \in Nat, NEW op, WriterOf(CallLooks(op, added))
  PROVE  PipeInv'
<1>1. CInv /\ DInv /\ UnderwayInv /\ ~dcall.busy /\ UNCHANGED dVars /\ CallLooks(op, added)
  BY DEF WriterOf
<1>2. CTypeInv /\ CInitInv /\ CStableInv
  BY <1>1 DEF CInv
<1>3. ip \in Nat /\ iend \in Nat /\ ip <= iend /\ cs \in CSessions /\ cs.notConsumed \in Nat
      /\ cs.stable \in BOOLEAN
  BY <1>2, SessionFields DEF CTypeInv
<1> DEFINE n == iend + added - ip + cs.notConsumed
<1>4. n \in Nat /\ iend + added \in Nat
  BY <1>3
<1>5. IsNoSession(cs, cs.notConsumed)
  BY <1>1, <1>2 DEF CInitInv, CallLooks, IsNoSession
<1>6. /\ cs.frame = "created" /\ cs.pos = 0 /\ cs.toCompress = 0 /\ cs.outBuff = <<>>
  BY <1>3, <1>5, NoSessionIs
<1>7. IsNoSession(cs', n) /\ cs'.stable = cs.stable
  <2>1. cs' = [cs EXCEPT !.notConsumed = n]
    BY <1>1 DEF CallLooks
  <2> HIDE DEF n
  <2>2. cs' = [NoSession(cs.stable) EXCEPT !.notConsumed = n]
    BY <1>5, <2>1 DEF NoSession, IsNoSession
  <2>3. cs'.stable = cs.stable
    BY <2>2 DEF NoSession
  <2>4. QED
    BY <2>2, <2>3 DEF IsNoSession
<1> HIDE DEF n
<1>8. /\ cs' \in CSessions /\ cs'.frame = "created" /\ cs'.outBuff = <<>>
  BY <1>3, <1>4, <1>7, NoSessionIs
<1>9. ip' = iend + added /\ iend' = iend + added
      /\ ccall' = [busy |-> FALSE, op |-> "continue", room |-> 0, ret |-> 1]
  BY <1>1 DEF CallLooks, Idle
<1>10. CTypeInv'
  BY <1>4, <1>8, <1>9 DEF CTypeInv
<1>11. CInv' /\ Written' = ip' - n
  <2>1. n <= ip' /\ ccall'.busy = FALSE /\ ccall'.op = "continue"
    <3>1. n <= iend + added
      BY <1>2, <1>3, <1>6 DEF CStableInv, Waiting, n
    <3>2. QED
      BY <1>9, <3>1
  <2>2. QED
    BY <1>4, <1>7, <1>10, <2>1, WithoutSession
<1>12. Written = ip - cs.notConsumed /\ Written' = Written
  BY <1>3, <1>6, <1>9, <1>11 DEF Written, Waiting, n
<1>13. \A q \in Places : LedTo(cs, Written, q) => LedTo(cs', Written', q)
  BY <1>6, <1>8, <1>12 DEF LedTo
<1>14. UNCHANGED wire
  BY <1>1 DEF CallLooks
<1>15. DInv' /\ UnderwayInv'
  BY <1>1, <1>2, <1>6, <1>8, <1>13, <1>14, NothingWritten
<1>16. QED
  BY <1>11, <1>15 DEF PipeInv

\* A session begins.
CallBegins(op, added, room, checksum) ==
  /\ cs.stage = "init"
  /\ cs' = [InitCompressStream2(cs, op, iend + added - ip + cs.notConsumed, checksum) EXCEPT !.notConsumed = 0]
  /\ iend' = iend + added /\ ip' = ip - cs.notConsumed
  /\ ccall' = [busy |-> TRUE, op |-> op, room |-> room, ret |-> 0]
  /\ UNCHANGED wire

\* A call that begins a session keeps the invariant.
LEMMA BeginsKeeps ==
  ASSUME NEW added \in Nat, NEW op \in {"continue", "flush", "end"}, NEW room \in Nat,
         NEW checksum \in BOOLEAN, WriterOf(CallBegins(op, added, room, checksum))
  PROVE  PipeInv'
<1>1. CInv /\ DInv /\ UnderwayInv /\ ~dcall.busy /\ UNCHANGED dVars /\ CallBegins(op, added, room, checksum)
  BY DEF WriterOf
<1>2. CTypeInv /\ CInitInv /\ CStableInv
  BY <1>1 DEF CInv
<1>3. ip \in Nat /\ iend \in Nat /\ ip <= iend /\ cs \in CSessions /\ cs.notConsumed \in Nat
      /\ cs.stable \in BOOLEAN
  BY <1>2, SessionFields DEF CTypeInv
<1>4. IsNoSession(cs, cs.notConsumed)
  BY <1>1, <1>2 DEF CInitInv, CallBegins, IsNoSession
<1>5. /\ cs.frame = "created" /\ cs.pos = 0 /\ cs.toCompress = 0 /\ cs.outBuff = <<>>
  BY <1>3, <1>4, NoSessionIs
<1>6. cs.notConsumed <= ip
  BY <1>2, <1>3, <1>5 DEF CStableInv, Waiting
<1> DEFINE size == iend + added - ip + cs.notConsumed
           pledged == IF op = "end" THEN size ELSE Unknown
           window == IF pledged = Unknown THEN WindowSize ELSE MAX(1, MIN(WindowSize, pledged))
           block == MIN(BlockSizeMax, window)
           target == IF cs.stable THEN 0 ELSE block + (IF block = pledged THEN 1 ELSE 0)
           ring == [a \in 0 .. window + block - 1 |-> 0]
<1>7. size \in Nat
  BY <1>3
<1>8. /\ cs'.stage = "load" /\ cs'.frame = "init" /\ cs'.pledged = pledged /\ cs'.consumed = 0
      /\ cs'.checksum = checksum /\ cs'.window = window /\ cs'.block = block /\ cs'.inBuff = ring
      /\ cs'.pos = 0 /\ cs'.toCompress = 0 /\ cs'.target = target /\ cs'.outBuff = <<>>
      /\ cs'.ended = FALSE /\ cs'.notConsumed = 0 /\ cs'.stable = cs.stable
      /\ cs' = [stage |-> cs'.stage, frame |-> cs'.frame, pledged |-> cs'.pledged,
                consumed |-> cs'.consumed, checksum |-> cs'.checksum, window |-> cs'.window,
                block |-> cs'.block, inBuff |-> cs'.inBuff, pos |-> cs'.pos,
                toCompress |-> cs'.toCompress, target |-> cs'.target, outBuff |-> cs'.outBuff,
                ended |-> cs'.ended, notConsumed |-> cs'.notConsumed, stable |-> cs'.stable]
  <2>1. cs = [stage |-> "init", frame |-> "created", pledged |-> Unknown, consumed |-> 0,
              checksum |-> FALSE, window |-> 0, block |-> 0, inBuff |-> <<>>, pos |-> 0,
              toCompress |-> 0, target |-> 0, outBuff |-> <<>>, ended |-> FALSE,
              notConsumed |-> cs.notConsumed, stable |-> cs.stable]
    BY <1>4 DEF IsNoSession, NoSession
  <2>2. cs' = [[cs EXCEPT !.pledged = pledged, !.window = window, !.block = block, !.consumed = 0,
                  !.checksum = checksum, !.frame = "init", !.stage = "load",
                  !.pos = 0, !.toCompress = 0, !.outBuff = <<>>, !.ended = FALSE,
                  !.inBuff = ring, !.target = target] EXCEPT !.notConsumed = 0]
    BY <1>1 DEF CallBegins, InitCompressStream2
  <2> HIDE DEF pledged, window, block, ring, target
  <2>3. cs' = [stage |-> "load", frame |-> "init", pledged |-> pledged, consumed |-> 0,
              checksum |-> checksum, window |-> window, block |-> block, inBuff |-> ring, pos |-> 0,
              toCompress |-> 0, target |-> target, outBuff |-> <<>>, ended |-> FALSE,
              notConsumed |-> 0, stable |-> cs.stable]
    BY <2>1, <2>2
  <2>4. QED
    BY <2>3
<1>9. /\ WindowSize \in Nat \ {0} /\ BlockSizeMax \in Nat \ {0} /\ Unknown = -1
  BY HeaderSizeAssumption, CStreamAssumption DEF Unknown
<1>10. pledged \in Nat \cup {Unknown}
  BY <1>7
<1>11. window \in Nat /\ window > 0 /\ block \in Nat /\ block > 0 /\ block <= window
  <2> HIDE DEF pledged
  <2>1. window \in Nat /\ window > 0
    BY <1>9, <1>10 DEF MAX, MIN
  <2> HIDE DEF window
  <2>2. QED
    BY <1>9, <2>1 DEF MIN
<1> HIDE DEF window, block
<1>12. target \in Nat /\ (~cs.stable => target > 0 /\ target <= window + block
                                   /\ target <= block + (IF block = pledged THEN 1 ELSE 0))
  BY <1>11
<1> DEFINE Rings == UNION {[0 .. m - 1 -> Nat] : m \in Nat}
<1>13. ring \in [0 .. window + block - 1 -> Nat] /\ ring \in Rings
  <2>1. window + block \in Nat
    BY <1>11
  <2>2. ring \in [0 .. window + block - 1 -> Nat]
    OBVIOUS
  <2> HIDE DEF ring
  <2>3. PICK m \in Nat : m = window + block
    BY <2>1
  <2>4. 0 .. m - 1 = 0 .. window + block - 1
    BY <1>11, <2>3
  <2>4a. ring \in [0 .. m - 1 -> Nat]
    BY ONLY <2>2, <2>4, Zenon
  <2>5. QED
    BY <2>2, <2>4a
<1> HIDE DEF target, ring, pledged, Rings
<1>14. cs' \in CSessions
  <2>1. <<>> \in Seq(Units)
    BY EmptySeq
  <2>2. /\ cs'.stage \in {"init", "load", "flush"} /\ cs'.frame \in {"created", "init", "ongoing"}
        /\ cs'.pledged \in Nat \cup {Unknown} /\ cs'.consumed \in Nat /\ cs'.checksum \in BOOLEAN
        /\ cs'.window \in Nat /\ cs'.block \in Nat /\ cs'.inBuff \in Rings /\ cs'.pos \in Nat
        /\ cs'.toCompress \in Nat /\ cs'.target \in Nat /\ cs'.outBuff \in Seq(Units)
        /\ cs'.ended \in BOOLEAN /\ cs'.notConsumed \in Nat /\ cs'.stable \in BOOLEAN
    <3>1. /\ cs'.stage \in {"init", "load", "flush"} /\ cs'.frame \in {"created", "init", "ongoing"}
          /\ cs'.pledged \in Nat \cup {Unknown} /\ cs'.consumed \in Nat
          /\ cs'.notConsumed \in Nat
      BY <1>8, <1>10
    <3>1a. cs'.ended \in BOOLEAN /\ cs'.stable \in BOOLEAN
      BY <1>3, <1>8, Zenon
    <3>2. /\ cs'.window \in Nat /\ cs'.block \in Nat /\ cs'.inBuff \in Rings /\ cs'.pos \in Nat
          /\ cs'.toCompress \in Nat /\ cs'.target \in Nat
      BY <1>8, <1>11, <1>12, <1>13
    <3>3. cs'.outBuff \in Seq(Units) /\ cs'.checksum \in BOOLEAN
      BY <1>8, <2>1
    <3>4. QED
      BY <3>1, <3>1a, <3>2, <3>3
  <2>3. [stage |-> cs'.stage, frame |-> cs'.frame, pledged |-> cs'.pledged,
                consumed |-> cs'.consumed, checksum |-> cs'.checksum, window |-> cs'.window,
                block |-> cs'.block, inBuff |-> cs'.inBuff, pos |-> cs'.pos,
                toCompress |-> cs'.toCompress, target |-> cs'.target, outBuff |-> cs'.outBuff,
                ended |-> cs'.ended, notConsumed |-> cs'.notConsumed, stable |-> cs'.stable]
      \in [stage : {"init", "load", "flush"}, frame : {"created", "init", "ongoing"},
           pledged : Nat \cup {Unknown}, consumed : Nat, checksum : BOOLEAN, window : Nat,
           block : Nat, inBuff : Rings, pos : Nat,
           toCompress : Nat, target : Nat, outBuff : Seq(Units), ended : BOOLEAN,
           notConsumed : Nat, stable : BOOLEAN]
    BY <2>2
  <2>4. QED
    BY <1>8, <2>3 DEF CSessions, Rings
<1>15. /\ ip' = ip - cs.notConsumed /\ iend' = iend + added /\ ip' \in Nat /\ iend' \in Nat /\ ip' <= iend'
       /\ ccall' = [busy |-> TRUE, op |-> op, room |-> room, ret |-> 0]
       /\ ccall'.busy = TRUE /\ ccall'.op = op /\ UNCHANGED wire
  BY <1>1, <1>3, <1>6 DEF CallBegins
<1>16. CTypeInv'
  BY <1>14, <1>15 DEF CTypeInv
<1>17. Waiting' = 0 /\ Written' = ip - cs.notConsumed /\ Written = ip - cs.notConsumed
  BY <1>3, <1>5, <1>8, <1>15 DEF Waiting, Written
<1>18. CInitInv' /\ CStageInv'
  BY <1>8 DEF CInitInv, CStageInv
<1>19. CSizesInv'
  BY <1>8 DEF CSizesInv, window, block
<1>20. CRingInv'
  <2>1. cs.stable \/ (/\ cs'.inBuff \in [0 .. cs'.window + cs'.block - 1 -> Nat]
                      /\ cs'.toCompress <= cs'.pos /\ cs'.pos <= cs'.target
                      /\ cs'.toCompress < cs'.target
                      /\ cs'.target <= cs'.window + cs'.block
                      /\ cs'.target <= cs'.toCompress + cs'.block + (IF cs'.block = cs'.pledged THEN 1 ELSE 0))
    BY <1>8, <1>11, <1>12, <1>13
  <2>2. \A a \in cs'.toCompress .. cs'.pos - 1 :
          cs'.inBuff[a] = ip' - Waiting' + 1 + a - cs'.toCompress
    BY <1>8
  <2>3. QED
    BY <1>8, <2>1, <2>2 DEF CRingInv
<1>21. CStableInv'
  BY <1>8, <1>15, <1>17 DEF CStableInv
<1>22. CPledgedInv'
  <2>1. pledged # Unknown => op = "end" /\ iend' - ip' = pledged
    BY <1>3, <1>15 DEF pledged
  <2>2. 0 <= Written'
    BY <1>3, <1>6, <1>17
  <2>3. QED
    BY <1>8, <1>15, <1>17, <2>1, <2>2, <1>10 DEF CPledgedInv
<1>23. CReturnInv'
  BY <1>15 DEF CReturnInv
<1>24. CInv'
  BY <1>16, <1>18, <1>19, <1>20, <1>21, <1>22, <1>23 DEF CInv
<1>25. \A q \in Places : LedTo(cs, Written, q) => LedTo(cs', Written', q)
  BY <1>5, <1>8, <1>17 DEF LedTo
<1>26. DInv' /\ UnderwayInv'
  BY <1>1, <1>2, <1>5, <1>8, <1>14, <1>15, <1>25, NothingWritten
<1>27. QED
  BY <1>24, <1>26 DEF PipeInv

\* A session goes on.
CallGoesOn(op, added, room) ==
  /\ cs.stage # "init" /\ ~ccall.busy
  /\ Allowed(op, added)
  /\ cs' = [cs EXCEPT !.notConsumed = 0]
  /\ iend' = iend + added /\ ip' = ip - cs.notConsumed
  /\ ccall' = [busy |-> TRUE, op |-> op, room |-> room, ret |-> 0]
  /\ UNCHANGED wire

\* A call that goes on with a session keeps the invariant.
LEMMA GoesOnKeeps ==
  ASSUME NEW added \in Nat, NEW op \in {"continue", "flush", "end"}, NEW room \in Nat,
         WriterOf(CallGoesOn(op, added, room))
  PROVE  PipeInv'
<1>1. CInv /\ DInv /\ UnderwayInv /\ ~dcall.busy /\ UNCHANGED dVars /\ CallGoesOn(op, added, room)
  BY DEF WriterOf
<1>2. CTypeInv /\ CStageInv /\ CSizesInv /\ CRingInv /\ CStableInv /\ CPledgedInv /\ CReturnInv
  BY <1>1 DEF CInv
<1>3. ip \in Nat /\ iend \in Nat /\ ip <= iend /\ cs \in CSessions
  BY <1>2 DEF CTypeInv
<1>4. /\ cs.consumed \in Nat /\ cs.pos \in Nat /\ cs.toCompress \in Nat /\ cs.notConsumed \in Nat
      /\ cs.pledged \in Nat \cup {Unknown} /\ cs.stable \in BOOLEAN /\ cs.ended \in BOOLEAN
  BY <1>3, SessionFields
<1>5. /\ cs'.stage = cs.stage /\ cs'.frame = cs.frame /\ cs'.pledged = cs.pledged
      /\ cs'.consumed = cs.consumed /\ cs'.checksum = cs.checksum /\ cs'.window = cs.window
      /\ cs'.block = cs.block /\ cs'.inBuff = cs.inBuff /\ cs'.pos = cs.pos
      /\ cs'.toCompress = cs.toCompress /\ cs'.target = cs.target /\ cs'.outBuff = cs.outBuff
      /\ cs'.ended = cs.ended /\ cs'.notConsumed = 0 /\ cs'.stable = cs.stable
      /\ cs' \in CSessions
  BY <1>1, <1>3 DEF CallGoesOn, CSessions
<1>6. /\ cs.notConsumed + Waiting <= ip /\ Waiting \in Int
      /\ cs.pos >= cs.toCompress
  <2>1. cs.pos >= cs.toCompress
    BY <1>1, <1>2, <1>4 DEF CStableInv, CRingInv, CallGoesOn
  <2>2. QED
    BY <1>2, <1>4, <2>1 DEF CStableInv, Waiting
<1>7. /\ ip' = ip - cs.notConsumed /\ iend' = iend + added /\ ip' \in Nat /\ iend' \in Nat /\ ip' <= iend'
      /\ ccall' = [busy |-> TRUE, op |-> op, room |-> room, ret |-> 0]
      /\ ccall'.busy = TRUE /\ ccall'.op = op /\ UNCHANGED wire
  <2>1. ip - cs.notConsumed \in Nat
    BY <1>3, <1>4, <1>6 DEF Waiting
  <2>2. QED
    BY <1>1, <1>3, <1>4, <2>1 DEF CallGoesOn
<1>8. CTypeInv'
  BY <1>5, <1>7 DEF CTypeInv
<1>9. Waiting' = Waiting /\ Written' = Written /\ Written = ip - cs.notConsumed - Waiting
  BY <1>3, <1>4, <1>5, <1>6, <1>7 DEF Waiting, Written
<1>10. ccall.op = "end" => op = "end" /\ added = 0
  BY <1>1, <1>2 DEF CallGoesOn, CReturnInv, Allowed
<1>11. CInitInv' /\ CSizesInv' /\ CReturnInv'
  <2>1. CInitInv'
    BY <1>1, <1>5 DEF CInitInv, CallGoesOn
  <2>2. CSizesInv'
    BY <1>2, <1>5 DEF CSizesInv
  <2>3. CReturnInv'
    BY <1>7 DEF CReturnInv
  <2>4. QED
    BY <2>1, <2>2, <2>3
<1>12. CStageInv'
  <2>1. cs.stage = "flush" /\ cs.ended => op = "end" /\ ip' = iend'
    BY <1>2, <1>3, <1>7, <1>10 DEF CStageInv
  <2>2. cs.stage = "flush" => Waiting = 0
    BY <1>2 DEF CStageInv
  <2>3. QED
    BY <1>2, <1>5, <1>7, <1>9, <2>1, <2>2 DEF CStageInv
<1>13. CRingInv'
  <2>1. ~cs.stable => ip' = ip
    BY <1>1, <1>2, <1>3, <1>7 DEF CRingInv, CallGoesOn
  <2>2. QED
    BY <1>2, <1>5, <1>9, <2>1 DEF CRingInv
<1>14. CStableInv'
  <2>1. 0 + Waiting <= ip'
    BY <1>3, <1>4, <1>6, <1>7
  <2>2. QED
    BY <1>2, <1>5, <1>9, <2>1 DEF CStableInv
<1>15. CPledgedInv'
  <2>1. ASSUME cs.frame # "created", cs.pledged # Unknown
        PROVE  op = "end" /\ cs.consumed + Waiting + (iend' - ip') = cs.pledged
    <3>1. ccall.op = "end" /\ cs.consumed + Waiting + (iend - ip) = cs.pledged
      BY <1>2, <2>1 DEF CPledgedInv
    <3>2. added = 0 /\ op = "end" /\ cs.notConsumed = 0
      BY <1>2, <1>10, <3>1 DEF CStableInv
    <3>3. QED
      BY <1>3, <1>7, <3>1, <3>2
  <2>2. QED
    BY <1>2, <1>5, <1>7, <1>9, <2>1 DEF CPledgedInv
<1>16. CInv'
  BY <1>8, <1>11, <1>12, <1>13, <1>14, <1>15 DEF CInv
<1>17. \A q \in Places : LedTo(cs, Written, q) => LedTo(cs', Written', q)
  BY <1>5, <1>9 DEF LedTo
<1>18. DInv' /\ UnderwayInv'
  BY <1>1, <1>2, <1>5, <1>7, <1>17, NothingWritten
<1>19. QED
  BY <1>16, <1>18 DEF PipeInv

\* However the user calls, the invariant is kept.
LEMMA CallKeeps ==
  ASSUME NEW op \in {"continue", "flush", "end"}, NEW added \in Feeds, NEW room \in CRooms,
         NEW checksum \in BOOLEAN, WriterOf(CCall(op, added, room, checksum))
  PROVE  PipeInv'
<1>1. added \in Nat /\ room \in Nat
  BY CStreamAssumption
<1>2. CInv /\ DInv /\ UnderwayInv /\ ~dcall.busy /\ UNCHANGED dVars /\ CCall(op, added, room, checksum)
  BY DEF WriterOf
<1>3. ~ccall.busy /\ Allowed(op, added) /\ cs \in CSessions /\ ip \in Nat /\ iend \in Nat
  BY <1>2 DEF CCall, CInv, CTypeInv
<1>4. CallLooks(op, added) \/ CallBegins(op, added, room, checksum) \/ CallGoesOn(op, added, room)
  <2>1. CASE cs.stage = "init" /\ cs.stable /\ op = "continue" /\ iend + added - ip + cs.notConsumed < BlockSizeMax
    BY <1>2, <2>1 DEF CCall, CallLooks
  <2>2. CASE ~(cs.stage = "init" /\ cs.stable /\ op = "continue" /\ iend + added - ip + cs.notConsumed < BlockSizeMax)
    <3>1. CASE cs.stage = "init"
      BY <1>2, <2>2, <3>1 DEF CCall, CallBegins
    <3>2. CASE cs.stage # "init"
      BY <1>2, <1>3, <2>2, <3>2 DEF CCall, CallGoesOn
    <3>3. QED
      BY <3>1, <3>2
  <2>3. QED
    BY <2>1, <2>2
<1>5. QED
  BY <1>1, <1>2, <1>4, LooksKeeps, BeginsKeeps, GoesOnKeeps DEF WriterOf

\* A session that is loading is ready for what it has been promised.
LEMMA SessionReady ==
  ASSUME CInv, cs.stage = "load", NEW c, c.frame = cs.frame, c.pledged = cs.pledged,
         c.consumed = cs.consumed, c.checksum = cs.checksum, c.block = cs.block,
         NEW len \in Nat, NEW written \in Nat,
         cs.pledged # Unknown => cs.consumed + len <= cs.pledged
  PROVE  Ready(c, written, len)
<1>1. /\ cs.frame \in {"created", "init", "ongoing"} /\ cs.pledged \in Nat \cup {Unknown}
      /\ cs.consumed \in Nat /\ cs.checksum \in BOOLEAN
  BY SessionFields DEF CInv, CTypeInv
<1>2. cs.frame # "created"
  BY DEF CInv, CStageInv
<1>3. /\ cs.window = IF cs.pledged = Unknown THEN WindowSize ELSE MAX(1, MIN(WindowSize, cs.pledged))
      /\ cs.block = MIN(BlockSizeMax, cs.window)
      /\ cs.frame = "init" => cs.consumed = 0
  BY DEF CInv, CSizesInv
<1>4. WindowSize \in Nat \ {0} /\ BlockSizeMax \in Nat \ {0} /\ Unknown = -1
  BY HeaderSizeAssumption, CStreamAssumption DEF Unknown
<1>5. cs.window \in Nat /\ cs.window > 0 /\ (len > 0 => cs.window = WindowOf(cs.pledged))
  <2>1. CASE cs.pledged = Unknown
    BY <1>3, <1>4, <2>1 DEF WindowOf
  <2>2. CASE cs.pledged # Unknown
    <3>1. cs.pledged \in Nat /\ (len > 0 => cs.pledged > 0)
      BY <1>1, <2>2
    <3>2. cs.window = MAX(1, MIN(WindowSize, cs.pledged))
      BY <1>3, <2>2
    <3>3. WindowOf(cs.pledged) = IF cs.pledged <= WindowSize THEN cs.pledged ELSE WindowSize
      BY <2>2 DEF WindowOf
    <3>4. QED
      BY <1>4, <3>1, <3>2, <3>3 DEF MAX, MIN
  <2>3. QED
    BY <2>1, <2>2
<1>6. cs.block \in 1 .. BlockSizeMax /\ cs.block <= cs.window
  BY <1>3, <1>4, <1>5 DEF MIN
<1>7. QED
  BY <1>1, <1>2, <1>3, <1>5, <1>6 DEF Ready

\* The context that ZSTD_CCtx_reset leaves is one between two sessions.
LEMMA Between ==
  ASSUME NEW stable \in BOOLEAN
  PROVE  /\ IsNoSession(NoSession(stable), 0) /\ NoSession(stable).stable = stable
         /\ NoSession(stable).outBuff = <<>> /\ NoSession(stable).frame = "created"
         /\ NoSession(stable) \in CSessions
<1>1. NoSession(stable) = [NoSession(stable) EXCEPT !.notConsumed = 0]
  <2>1. PICK c : c = [NoSession(stable) EXCEPT !.notConsumed = 0]
    OBVIOUS
  <2>2. c = [stage |-> "init", frame |-> "created", pledged |-> Unknown, consumed |-> 0,
           checksum |-> FALSE, window |-> 0, block |-> 0, inBuff |-> <<>>, pos |-> 0,
           toCompress |-> 0, target |-> 0, outBuff |-> <<>>, ended |-> FALSE,
           notConsumed |-> 0, stable |-> stable]
    BY <2>1 DEF NoSession
  <2>3. c = NoSession(stable)
    BY <2>2 DEF NoSession
  <2>4. QED
    BY <2>1, <2>3
<1>2. /\ NoSession(stable).stable = stable
      /\ NoSession(stable).outBuff = <<>> /\ NoSession(stable).frame = "created"
  BY DEF NoSession
<1>3. IsNoSession(NoSession(stable), 0)
  BY <1>1, <1>2 DEF IsNoSession
<1>4. NoSession(stable) \in CSessions
  <2>1. PICK c : c = NoSession(stable)
    OBVIOUS
  <2>2. c.stable \in BOOLEAN /\ IsNoSession(c, 0)
    BY <1>2, <1>3, <2>1
  <2>3. c \in CSessions
    BY <2>2, NoSessionIs
  <2>4. QED
    BY <2>1, <2>3
<1>5. QED
  BY <1>2, <1>3, <1>4

\* What a call that compresses finds.
LEMMA Compressing ==
  ASSUME CInv, AtStage("load")
  PROVE  /\ CTypeInv /\ ip \in Nat /\ iend \in Nat /\ ip <= iend /\ cs \in CSessions
         /\ ccall.busy /\ cs.stage = "load" /\ cs.notConsumed = 0 /\ cs.outBuff = <<>>
         /\ cs.frame \in {"init", "ongoing"} /\ cs.pos >= cs.toCompress /\ cs.pos \in Nat
         /\ cs.toCompress \in Nat /\ Waiting \in Nat /\ Written = ip - Waiting /\ Written \in Nat
         /\ cs.consumed \in Nat /\ cs.consumed <= Written
         /\ cs.pledged \in Nat \cup {Unknown}
         /\ cs.pledged # Unknown =>
              ccall.op = "end" /\ cs.consumed + Waiting + (iend - ip) = cs.pledged
<1>1. CTypeInv /\ CStageInv /\ CStableInv /\ CRingInv /\ CPledgedInv /\ ccall.busy /\ cs.stage = "load"
  BY DEF CInv, AtStage
<1>2. ip \in Nat /\ iend \in Nat /\ ip <= iend /\ cs \in CSessions
  BY <1>1 DEF CTypeInv
<1>3. /\ cs.pos \in Nat /\ cs.toCompress \in Nat /\ cs.consumed \in Nat /\ cs.notConsumed \in Nat
      /\ cs.pledged \in Nat \cup {Unknown} /\ cs.frame \in {"created", "init", "ongoing"}
  BY <1>2, SessionFields
<1>4. cs.notConsumed = 0 /\ cs.outBuff = <<>> /\ cs.frame # "created"
  BY <1>1 DEF CStageInv, CStableInv
<1>5. cs.pos >= cs.toCompress
  BY <1>1, <1>3 DEF CStableInv, CRingInv
<1>6. Waiting \in Nat /\ Waiting <= ip
  BY <1>1, <1>3, <1>4, <1>5 DEF Waiting, CStableInv
<1>7. Written = ip - Waiting /\ Written \in Nat
  BY <1>2, <1>4, <1>6 DEF Written
<1>8. QED
  BY <1>1, <1>2, <1>3, <1>4, <1>5, <1>6, <1>7 DEF CPledgedInv

\* Compressing all that is left directly into the output keeps the invariant.
LEMMA RestKeeps ==
  ASSUME NEW raw \in BOOLEAN, WriterOf(CompressRest(raw))
  PROVE  PipeInv'
<1>1. CInv /\ DInv /\ UnderwayInv /\ ~dcall.busy /\ UNCHANGED dVars /\ CompressRest(raw)
  BY DEF WriterOf
<1>2. AtStage("load") /\ Shortcut
  BY <1>1 DEF CompressRest
<1>3. /\ CTypeInv /\ ip \in Nat /\ iend \in Nat /\ ip <= iend /\ cs \in CSessions
      /\ ccall.busy /\ cs.stage = "load" /\ cs.notConsumed = 0 /\ cs.outBuff = <<>>
      /\ cs.frame \in {"init", "ongoing"} /\ cs.pos >= cs.toCompress /\ cs.pos \in Nat
      /\ cs.toCompress \in Nat /\ Waiting \in Nat /\ Written = ip - Waiting /\ Written \in Nat
      /\ cs.consumed \in Nat /\ cs.consumed <= Written
      /\ cs.pledged \in Nat \cup {Unknown}
      /\ cs.pledged # Unknown =>
           ccall.op = "end" /\ cs.consumed + Waiting + (iend - ip) = cs.pledged
  BY <1>1, <1>2, Compressing
<1>4. ccall.op = "end" /\ cs.pos = 0
  BY <1>2 DEF Shortcut
<1>5. Waiting = 0 /\ Written = ip
  BY <1>3, <1>4 DEF Waiting
<1>6. PICK len \in Nat : len = iend - ip
  BY <1>3
<1>7. cs.pledged # Unknown => cs.consumed + len = cs.pledged
  BY <1>3, <1>5, <1>6
<1>8. PICK b : b = Numbers(ip, iend)
  OBVIOUS
<1>9. IsChunk(b, ip, len)
  <2>1. ip + len = iend
    BY <1>3, <1>6
  <2>2. QED
    BY <1>8, <2>1 DEF IsChunk
<1>10. Ready(cs, ip, len)
  <2>1. cs.pledged # Unknown => cs.consumed + len <= cs.pledged
    BY <1>3, <1>6, <1>7
  <2>2. QED
    BY <1>1, <1>3, <2>1, SessionReady
<1>11. PICK got : got = CompressEnd(cs, b, raw)
  OBVIOUS
<1>12. \A q \in Places : LedTo(cs, ip, q) => EndLeads(CompressEnd(cs, b, raw), cs, ip, len, q)
  BY <1>3, <1>7, <1>9, <1>10, EndPasses
<1>13. PICK q0 \in Places : LedTo(cs, ip, q0)
  BY <1>1, <1>5 DEF UnderwayInv
<1>14. got.bad = FALSE /\ got.units \in Seq(Units)
  BY <1>11, <1>12, <1>13 DEF EndLeads
<1>15. PICK stable \in BOOLEAN : stable = cs.stable
  BY <1>3, SessionFields
<1>16. cs' = NoSession(stable) /\ ip' = iend /\ iend' = iend
       /\ wire' = wire \o got.units /\ ccall' = [busy |-> FALSE, op |-> "end", room |-> 0, ret |-> Len(<<>>)]
  <2>1. NoSession(stable).outBuff = <<>>
    BY Between
  <2>2. ~got.bad
    BY <1>14
  <2>3. /\ cs' = NoSession(stable) /\ ip' = iend /\ iend' = iend
        /\ wire' = wire \o got.units /\ CReturn(NoSession(stable))
    BY <1>1, <1>8, <1>11, <1>15, <2>2 DEF CompressRest
  <2>4. QED
    BY <1>4, <2>1, <2>3 DEF CReturn, Idle
<1>17. /\ IsNoSession(cs', 0) /\ cs' \in CSessions /\ cs'.outBuff = <<>> /\ cs'.frame = "created"
  BY <1>16, Between
<1>18. /\ ccall'.busy = FALSE /\ ccall'.op = "end" /\ ccall'.ret = 0
       /\ ccall' \in [busy : BOOLEAN, op : {"continue", "flush", "end"}, room : Nat, ret : Nat]
  BY <1>16
<1>19. CTypeInv'
  BY <1>3, <1>16, <1>17, <1>18 DEF CTypeInv
<1>20. CInv' /\ Written' = iend
  <2>1. PICK n \in Nat : n = 0
    OBVIOUS
  <2>2. IsNoSession(cs', n)
    BY <1>17, <2>1
  <2>3. ip' - n = iend' /\ n <= ip'
    BY <1>3, <1>16, <2>1
  <2>4. CInv' /\ Written' = ip' - n
    BY <1>18, <1>19, <2>1, <2>2, <2>3, WithoutSession
  <2>5. QED
    BY <1>16, <2>3, <2>4
<1>21. ASSUME NEW q \in Places, LedTo(cs, Written, q)
       PROVE  \E r \in Places : Parses(q, got.units, r) /\ LedTo(cs', Written', r)
  <2>1. PICK r \in Places : Parses(q, got.units, r) /\ r.at = "between" /\ r.n = ip + len
    BY <1>5, <1>11, <1>12, <1>21 DEF EndLeads
  <2>2. r.n = iend
    BY <1>3, <1>6, <2>1
  <2>3. LedTo(cs', Written', r)
    BY <1>17, <1>20, <2>1, <2>2 DEF LedTo
  <2>4. QED
    BY <2>1, <2>3
<1>22. wire' = Cat(wire, got.units) /\ Cat(got.units, cs'.outBuff) = Cat(cs.outBuff, got.units)
  <2>1. got.units \o <<>> = got.units /\ <<>> \o got.units = got.units
    BY <1>14, ConcatEmptySeq
  <2>2. Cat(got.units, <<>>) = Cat(<<>>, got.units)
    BY <2>1 DEF Cat
  <2>3. QED
    BY <1>3, <1>16, <1>17, <2>2 DEF Cat
<1>23. DInv' /\ UnderwayInv'
  BY <1>1, <1>3, <1>14, <1>17, <1>21, <1>22, WriterKeeps
<1>24. QED
  BY <1>20, <1>23 DEF PipeInv

\* What is under way of outBuff goes onto the wire.
FlushesOut(out, o, stage) ==
  /\ AtStage("flush") /\ ~(o = <<>> /\ cs.ended)
  /\ cs' = [cs EXCEPT !.outBuff = o, !.stage = stage]
  /\ IF o # <<>> THEN stage = "flush" /\ CReturn([cs EXCEPT !.outBuff = o])
     ELSE stage = "load" /\ \E room \in Nat : CGoesOn(room)
  /\ ip' = ip /\ iend' = iend

\* The writer is in order after a flush of outBuff, and leads to the same place.
LEMMA FlushInvariant ==
  ASSUME CInv, NEW out \in Seq(Units), NEW o \in Seq(Units), NEW stage \in {"flush", "load"},
         FlushesOut(out, o, stage)
  PROVE  CInv' /\ Written' = Written /\ cs' \in CSessions /\ cs'.outBuff = o /\ cs'.frame = cs.frame
         /\ \A q \in Places : LedTo(cs, Written, q) => LedTo(cs', Written', q)
<1>1. CTypeInv /\ CStageInv /\ CSizesInv /\ CRingInv /\ CStableInv /\ CPledgedInv /\ cs.stage = "flush" /\ ccall.busy
  BY DEF CInv, FlushesOut, AtStage
<1>2. ip \in Nat /\ iend \in Nat /\ ip <= iend /\ cs \in CSessions
  BY <1>1 DEF CTypeInv
<1>3. /\ cs'.stage = stage /\ cs'.frame = cs.frame /\ cs'.pledged = cs.pledged
      /\ cs'.consumed = cs.consumed /\ cs'.checksum = cs.checksum /\ cs'.window = cs.window
      /\ cs'.block = cs.block /\ cs'.inBuff = cs.inBuff /\ cs'.pos = cs.pos
      /\ cs'.toCompress = cs.toCompress /\ cs'.target = cs.target /\ cs'.outBuff = o
      /\ cs'.ended = cs.ended /\ cs'.notConsumed = cs.notConsumed /\ cs'.stable = cs.stable
      /\ cs' \in CSessions
  <2>1. cs' = [cs EXCEPT !.outBuff = o, !.stage = stage]
    BY DEF FlushesOut
  <2>2. QED
    BY <1>2, <2>1 DEF CSessions
<1>4. ip' = ip /\ iend' = iend
  BY DEF FlushesOut
<1>5. Waiting' = Waiting /\ Written' = Written
  BY <1>3, <1>4 DEF Waiting, Written
<1>6. /\ ccall'.op = ccall.op
      /\ ccall' \in [busy : BOOLEAN, op : {"continue", "flush", "end"}, room : Nat, ret : Nat]
      /\ o # <<>> => ccall'.ret > 0
      /\ o = <<>> => ccall'.busy = TRUE
  <2>1. ccall \in [busy : BOOLEAN, op : {"continue", "flush", "end"}, room : Nat, ret : Nat]
    BY <1>1 DEF CTypeInv
  <2>2. CASE o # <<>>
    <3>1. cs.outBuff \in Seq(Units) /\ [cs EXCEPT !.outBuff = o].outBuff = o
      BY <1>2 DEF CSessions
    <3>2. ccall' = [busy |-> FALSE, op |-> ccall.op, room |-> 0, ret |-> Len(o)]
      BY <2>2, <3>1 DEF FlushesOut, CReturn, Idle
    <3>3. Len(o) \in Nat /\ Len(o) > 0
      BY <2>2, EmptySeq, LenProperties
    <3>4. QED
      BY <2>1, <2>2, <3>2, <3>3
  <2>3. CASE o = <<>>
    <3>1. PICK room \in Nat : ccall' = [ccall EXCEPT !.room = room]
      BY <2>3 DEF FlushesOut, CGoesOn
    <3>2. ccall'.busy = ccall.busy /\ ccall'.op = ccall.op
          /\ ccall' \in [busy : BOOLEAN, op : {"continue", "flush", "end"}, room : Nat, ret : Nat]
      BY <2>1, <3>1
    <3>3. ccall.busy = TRUE
      BY <1>1, <2>1
    <3>4. QED
      BY <2>3, <3>2, <3>3
  <2>4. QED
    BY <2>2, <2>3
<1>7. CTypeInv'
  BY <1>2, <1>3, <1>4, <1>6 DEF CTypeInv
<1>8. IF o # <<>> THEN stage = "flush" ELSE stage = "load" /\ ~cs.ended
  BY DEF FlushesOut
<1>9. CInitInv' /\ CSizesInv' /\ CRingInv' /\ CStableInv' /\ CPledgedInv'
  <2>1. CInitInv'
    BY <1>3 DEF CInitInv
  <2>2. CSizesInv'
    BY <1>1, <1>3 DEF CSizesInv
  <2>3. CRingInv'
    BY <1>1, <1>3, <1>4, <1>5 DEF CRingInv
  <2>4. CStableInv'
    BY <1>1, <1>3, <1>4, <1>5 DEF CStableInv
  <2>5. CPledgedInv'
    BY <1>1, <1>3, <1>4, <1>5, <1>6 DEF CPledgedInv
  <2>6. QED
    BY <2>1, <2>2, <2>3, <2>4, <2>5
<1>10. CStageInv'
  <2>1. (cs.ended <=> cs.frame = "created") /\ cs.frame # "init"
        /\ (cs.ended => ccall.op = "end" /\ ip = iend)
        /\ cs.notConsumed = 0 /\ Waiting = 0
    BY <1>1 DEF CStageInv
  <2>2. cs'.stage = "load" => cs'.frame # "created" /\ ~cs'.ended /\ cs'.outBuff = <<>>
    BY <1>3, <1>8, <2>1
  <2>3. QED
    BY <1>3, <1>4, <1>5, <1>6, <2>1, <2>2 DEF CStageInv
<1>11. CReturnInv'
  <2>1. ~ccall'.busy => ccall'.ret > 0
    BY <1>6
  <2>2. ccall'.ret > 0 => ccall'.ret # 0
    BY <1>6
  <2>3. QED
    BY <2>1, <2>2 DEF CReturnInv
<1>12. CInv'
  BY <1>7, <1>9, <1>10, <1>11 DEF CInv
<1>13. \A q \in Places : LedTo(cs, Written, q) => LedTo(cs', Written', q)
  BY <1>3, <1>5 DEF LedTo
<1>14. QED
  BY <1>3, <1>5, <1>12, <1>13

\* Flushing outBuff keeps the invariant.
LEMMA FlushOutKeeps ==
  ASSUME WriterOf(FlushOut)
  PROVE  PipeInv'
<1>1. CInv /\ DInv /\ UnderwayInv /\ ~dcall.busy /\ UNCHANGED dVars /\ FlushOut
  BY DEF WriterOf
<1>2. /\ ccall.busy /\ cs.stage = "flush" /\ CTypeInv /\ CStageInv
      /\ cs \in CSessions /\ ip \in Nat /\ iend \in Nat
  BY <1>1 DEF FlushOut, AtStage, CInv, CTypeInv
<1>3. /\ cs.outBuff \in Seq(Units) /\ cs.stable \in BOOLEAN /\ cs.ended \in BOOLEAN
  BY <1>2, SessionFields
<1>4. PICK n \in 0 .. Len(cs.outBuff) : n = MIN(Len(cs.outBuff), ccall.room) /\ n <= ccall.room
  <2>1. Len(cs.outBuff) \in Nat /\ ccall.room \in Nat
    BY <1>2, <1>3, LenProperties DEF CTypeInv
  <2>2. QED
    BY <2>1 DEF MIN
<1>5. PICK out, o : out = Take(cs.outBuff, n) /\ o = Drop(cs.outBuff, n)
  OBVIOUS
<1>6. out \in Seq(Units) /\ o \in Seq(Units) /\ cs.outBuff = out \o o
  BY <1>3, <1>4, <1>5, TakeDrop
<1>7. /\ wire' = wire \o out
      /\ ip' = ip /\ iend' = iend
      /\ IF o # <<>> THEN cs' = [cs EXCEPT !.outBuff = o] /\ CReturn([cs EXCEPT !.outBuff = o])
         ELSE IF cs.ended THEN cs' = NoSession(cs.stable) /\ CReturn([cs EXCEPT !.outBuff = o])
         ELSE cs' = [[cs EXCEPT !.outBuff = o] EXCEPT !.stage = "load"] /\ CGoesOn(ccall.room - n)
  <2>1. [cs EXCEPT !.outBuff = o].outBuff = o /\ [cs EXCEPT !.outBuff = o].ended = cs.ended
    BY <1>2 DEF CSessions
  <2>2. [cs EXCEPT !.outBuff = Drop(@, n)] = [cs EXCEPT !.outBuff = o]
    BY <1>5
  <2>3. QED
    BY <1>1, <1>4, <1>5, <2>1, <2>2 DEF FlushOut
<1>8. CASE ~(o = <<>> /\ cs.ended)
  <2>1. PICK stage \in {"flush", "load"} : stage = IF o # <<>> THEN "flush" ELSE "load"
    OBVIOUS
  <2>2. cs' = [cs EXCEPT !.outBuff = o, !.stage = stage]
    <3>1. CASE o # <<>>
      <4>1. cs' = [cs EXCEPT !.outBuff = o] /\ stage = cs.stage
        BY <1>2, <1>7, <2>1, <3>1
      <4>2. QED
        BY <1>2, <4>1 DEF CSessions
    <3>2. CASE o = <<>>
      <4>1. cs' = [[cs EXCEPT !.outBuff = o] EXCEPT !.stage = stage]
        BY <1>7, <1>8, <2>1, <3>2
      <4>2. QED
        BY <1>2, <4>1 DEF CSessions
    <3>3. QED
      BY <3>1, <3>2
  <2>3. ccall.room - n \in Nat
    <3>1. ccall.room \in Nat
      BY <1>2 DEF CTypeInv
    <3>2. QED
      BY <1>4, <3>1
  <2>4. AtStage("flush")
    BY <1>2 DEF AtStage
  <2>5. FlushesOut(out, o, stage)
    BY <1>7, <1>8, <2>1, <2>2, <2>3, <2>4 DEF FlushesOut
  <2>6. CInv' /\ cs' \in CSessions /\ cs'.outBuff = o
        /\ \A q \in Places : LedTo(cs, Written, q) => LedTo(cs', Written', q)
    BY <1>1, <1>6, <2>5, FlushInvariant
  <2>7. PICK e \in Seq(Units) : e = <<>>
    BY EmptySeq
  <2>8. wire' = Cat(wire, out) /\ Cat(out, cs'.outBuff) = Cat(cs.outBuff, e)
    <3>1. cs.outBuff \o e = cs.outBuff
      BY <1>3, <2>7, ConcatEmptySeq
    <3>2. QED
      BY <1>6, <1>7, <2>6, <3>1 DEF Cat
  <2>9. ASSUME NEW q \in Places, LedTo(cs, Written, q)
        PROVE  \E r \in Places : Parses(q, e, r) /\ LedTo(cs', Written', r)
    BY <2>6, <2>7, <2>9, PassNothing
  <2>10. DInv' /\ UnderwayInv'
    BY <1>1, <1>2, <1>6, <2>6, <2>8, <2>9, WriterKeeps
  <2>11. QED
    BY <2>6, <2>10 DEF PipeInv
<1>9. CASE o = <<>> /\ cs.ended
  <2>1. cs.frame = "created" /\ ccall.op = "end" /\ ip = iend /\ cs.notConsumed = 0 /\ Waiting = 0
    BY <1>2, <1>9 DEF CStageInv
  <2>2. PICK stable \in BOOLEAN : stable = cs.stable
    BY <1>3
  <2>3. cs' = NoSession(stable) /\ CReturn([cs EXCEPT !.outBuff = o])
    BY <1>7, <1>9, <2>2
  <2>4. ccall' = [busy |-> FALSE, op |-> "end", room |-> 0, ret |-> 0]
    <3>1. [cs EXCEPT !.outBuff = o].outBuff = o
      BY <1>2 DEF CSessions
    <3>2. Len(o) = 0
      BY <1>9
    <3>3. QED
      BY <2>1, <2>3, <3>1, <3>2 DEF CReturn, Idle
  <2>5. /\ IsNoSession(cs', 0) /\ cs' \in CSessions /\ cs'.outBuff = <<>> /\ cs'.frame = "created"
    BY <2>3, Between
  <2>6. /\ ccall'.busy = FALSE /\ ccall'.op = "end" /\ ccall'.ret = 0
        /\ ccall' \in [busy : BOOLEAN, op : {"continue", "flush", "end"}, room : Nat, ret : Nat]
    BY <2>4
  <2>7. CTypeInv'
    BY <1>2, <1>7, <2>1, <2>5, <2>6 DEF CTypeInv
  <2>8. CInv' /\ Written' = ip
    <3>1. PICK m \in Nat : m = 0
      OBVIOUS
    <3>2. IsNoSession(cs', m)
      BY <2>5, <3>1
    <3>3. ip' - m = iend' /\ m <= ip' /\ ip' - m = ip
      BY <1>2, <1>7, <2>1, <3>1
    <3>4. CInv' /\ Written' = ip' - m
      BY <2>6, <2>7, <3>1, <3>2, <3>3, WithoutSession
    <3>5. QED
      BY <3>3, <3>4
  <2>9. Written = ip
    BY <1>2, <2>1 DEF Written
  <2>10. PICK e \in Seq(Units) : e = <<>>
    BY EmptySeq
  <2>11. wire' = Cat(wire, out) /\ Cat(out, cs'.outBuff) = Cat(cs.outBuff, e)
    <3>1. cs.outBuff \o e = cs.outBuff
      BY <1>3, <2>10, ConcatEmptySeq
    <3>2. QED
      BY <1>6, <1>7, <1>9, <2>5, <3>1 DEF Cat
  <2>12. ASSUME NEW q \in Places, LedTo(cs, Written, q)
         PROVE  \E r \in Places : Parses(q, e, r) /\ LedTo(cs', Written', r)
    <3>1. LedTo(cs', Written', q)
      BY <2>1, <2>5, <2>8, <2>9, <2>12 DEF LedTo
    <3>2. QED
      BY <2>10, <2>12, <3>1, PassNothing
  <2>13. DInv' /\ UnderwayInv'
    BY <1>1, <1>2, <1>6, <2>5, <2>11, <2>12, WriterKeeps
  <2>14. QED
    BY <2>8, <2>13 DEF PipeInv
<1>10. QED
  BY <1>8, <1>9

\* Writing a skippable frame keeps the invariant.
LEMMA SkippableKeeps ==
  ASSUME NEW size \in SkipSizes, WriterOf(Skippable(size))
  PROVE  PipeInv'
<1>1. CInv /\ DInv /\ UnderwayInv /\ ~dcall.busy /\ UNCHANGED dVars /\ Skippable(size)
  BY DEF WriterOf
<1>2. /\ UNCHANGED <<cs, ip, iend, ccall>> /\ cs.stage = "init" /\ CTypeInv /\ CInitInv
      /\ cs \in CSessions /\ wire' = wire \o SkippableFrame(size) /\ size \in Nat
  BY <1>1, CStreamAssumption DEF Skippable, CInv, CTypeInv, cVars
<1>3. CInv'
  <2>1. CTypeInv' /\ CInitInv' /\ CStageInv' /\ CSizesInv'
    BY <1>1, <1>2 DEF CInv, CTypeInv, CInitInv, CStageInv, CSizesInv, Waiting
  <2>2. CRingInv' /\ CStableInv' /\ CPledgedInv' /\ CReturnInv'
    BY <1>1, <1>2 DEF CInv, CRingInv, CStableInv, CPledgedInv, CReturnInv, Waiting, Written
  <2>3. QED
    BY <2>1, <2>2 DEF CInv
<1>4. Written' = Written
  BY <1>2 DEF Written, Waiting
<1>5. cs.frame = "created" /\ cs.outBuff = <<>> /\ cs.stable \in BOOLEAN /\ cs.notConsumed \in Nat
  <2>1. cs.stable \in BOOLEAN /\ cs.notConsumed \in Nat
    BY <1>2, SessionFields
  <2>2. IsNoSession(cs, cs.notConsumed)
    BY <1>2 DEF CInitInv, IsNoSession
  <2>3. QED
    BY <2>1, <2>2, NoSessionIs
<1>6. \A q \in Places : q.at = "between" =>
         \E r \in Places : Parses(q, SkippableFrame(size), r) /\ r.at = "between" /\ r.n = q.n
  BY <1>2, SkipPasses
<1>7. ASSUME NEW q \in Places, LedTo(cs, Written, q)
      PROVE  \E r \in Places : Parses(q, SkippableFrame(size), r) /\ LedTo(cs', Written', r)
  <2>1. q.at = "between" /\ q.n = Written
    BY <1>5, <1>7 DEF LedTo
  <2>2. PICK r \in Places : Parses(q, SkippableFrame(size), r) /\ r.at = "between" /\ r.n = q.n
    BY <1>6, <2>1
  <2>3. LedTo(cs', Written', r)
    BY <1>2, <1>4, <1>5, <2>1, <2>2 DEF LedTo
  <2>4. QED
    BY <2>2, <2>3
<1>8. SkippableFrame(size) \in Seq(Units)
  <2>1. PICK q \in Places : LedTo(cs, Written, q)
    BY <1>1 DEF UnderwayInv
  <2>2. QED
    BY <1>7, <2>1 DEF Parses
<1>9. PICK u \in Seq(Units) : u = SkippableFrame(size)
  BY <1>8
<1>10. wire' = Cat(wire, u) /\ Cat(u, cs'.outBuff) = Cat(cs.outBuff, u)
  <2>1. u \o <<>> = u /\ <<>> \o u = u
    BY ConcatEmptySeq
  <2>2. QED
    BY <1>2, <1>5, <1>9, <2>1 DEF Cat
<1>11. cs' \in CSessions
  BY <1>2
<1>12. DInv' /\ UnderwayInv'
  BY <1>1, <1>2, <1>7, <1>9, <1>10, <1>11, WriterKeeps
<1>13. QED
  BY <1>3, <1>12 DEF PipeInv

\* A ring of n bytes is one of the rings a context can have.
LEMMA RingFits ==
  ASSUME NEW n \in Nat, NEW f \in [0 .. n - 1 -> Nat]
  PROVE  f \in UNION {[0 .. m - 1 -> Nat] : m \in Nat}
OBVIOUS

\* The ring, and the context with it, when n more bytes are in it.
LoadsTo(c, n) ==
  /\ n \in Nat /\ n <= iend - ip /\ cs.pos + n <= cs.target
  /\ n = cs.target - cs.pos \/ n = iend - ip
  /\ c \in CSessions
  /\ c.stage = "load" /\ c.frame = cs.frame /\ c.pledged = cs.pledged
  /\ c.consumed = cs.consumed /\ c.checksum = cs.checksum /\ c.window = cs.window
  /\ c.block = cs.block /\ c.pos = cs.pos + n
  /\ c.toCompress = cs.toCompress /\ c.target = cs.target /\ c.outBuff = cs.outBuff
  /\ c.ended = cs.ended /\ c.notConsumed = cs.notConsumed /\ c.stable = cs.stable
  /\ c.inBuff \in [0 .. cs.window + cs.block - 1 -> Nat]
  /\ \A a \in cs.toCompress .. c.pos - 1 : c.inBuff[a] = Written + 1 + a - cs.toCompress

\* What the ring is after it has been filled.
LEMMA LoadedIs ==
  ASSUME CInv, AtStage("load"), ~cs.stable
  PROVE  LoadsTo(Loaded.ctx, Loaded.n)
<1>1. /\ ip \in Nat /\ iend \in Nat /\ ip <= iend /\ cs \in CSessions
      /\ cs.stage = "load" /\ Written = ip - Waiting /\ Waiting \in Nat
  BY Compressing
<1>2. /\ cs.pos \in Nat /\ cs.toCompress \in Nat /\ cs.target \in Nat
      /\ cs.window \in Nat /\ cs.block \in Nat
  BY <1>1, SessionFields
<1>3. CRingInv
  BY DEF CInv
<1>4. /\ cs.inBuff \in [0 .. cs.window + cs.block - 1 -> Nat]
      /\ cs.toCompress <= cs.pos /\ cs.pos <= cs.target
      /\ cs.target <= cs.window + cs.block
      /\ \A a \in cs.toCompress .. cs.pos - 1 :
           cs.inBuff[a] = ip - Waiting + 1 + a - cs.toCompress
  BY <1>1, <1>3 DEF CRingInv
<1>5. PICK n : n = MIN(cs.target - cs.pos, iend - ip)
  OBVIOUS
<1>6. /\ n \in Nat /\ n <= iend - ip /\ cs.pos + n <= cs.target
      /\ n = cs.target - cs.pos \/ n = iend - ip
  BY <1>1, <1>2, <1>4, <1>5 DEF MIN
<1>7. PICK w \in Nat : w = cs.window + cs.block
  BY <1>2
<1>7a. 0 .. w - 1 = 0 .. cs.window + cs.block - 1
  BY <1>2, <1>7
<1>8. cs.inBuff \in [0 .. w - 1 -> Nat]
  BY ONLY <1>4, <1>7a, Zenon
<1>9. PICK ring : ring = [a \in 0 .. w - 1 |->
              IF a \in cs.pos .. cs.pos + n - 1 THEN ip + 1 + a - cs.pos ELSE cs.inBuff[a]]
  OBVIOUS
<1>10. ring \in [0 .. w - 1 -> Nat]
  <2>1. ASSUME NEW a \in 0 .. w - 1
        PROVE  (IF a \in cs.pos .. cs.pos + n - 1 THEN ip + 1 + a - cs.pos ELSE cs.inBuff[a]) \in Nat
    <3>1. cs.inBuff[a] \in Nat
      BY <1>8
    <3>2. a \in cs.pos .. cs.pos + n - 1 => ip + 1 + a - cs.pos \in Nat
      BY <1>1, <1>2
    <3>3. QED
      BY <3>1, <3>2
  <2>2. QED
    BY <1>9, <2>1
<1>11. PICK c : c = [cs EXCEPT !.pos = cs.pos + n, !.inBuff = ring]
  OBVIOUS
<1>12. ring \in UNION {[0 .. m - 1 -> Nat] : m \in Nat}
  BY <1>10, RingFits
<1>13. /\ c.stage = cs.stage /\ c.frame = cs.frame /\ c.pledged = cs.pledged
       /\ c.consumed = cs.consumed /\ c.checksum = cs.checksum /\ c.window = cs.window
       /\ c.block = cs.block /\ c.pos = cs.pos + n /\ c.inBuff = ring
       /\ c.toCompress = cs.toCompress /\ c.target = cs.target /\ c.outBuff = cs.outBuff
       /\ c.ended = cs.ended /\ c.notConsumed = cs.notConsumed /\ c.stable = cs.stable
       /\ c \in CSessions
  <2>1. cs.pos + n \in Nat
    BY <1>2, <1>6
  <2>2. PICK pos \in Nat : pos = cs.pos + n
    BY <2>1
  <2> DEFINE Rings == UNION {[0 .. m - 1 -> Nat] : m \in Nat}
  <2>3. ring \in Rings
    BY <1>12
  <2>4. cs \in [stage : {"init", "load", "flush"}, frame : {"created", "init", "ongoing"},
   pledged : Nat \cup {Unknown}, consumed : Nat, checksum : BOOLEAN, window : Nat,
   block : Nat, inBuff : Rings, pos : Nat,
   toCompress : Nat, target : Nat, outBuff : Seq(Units), ended : BOOLEAN,
   notConsumed : Nat, stable : BOOLEAN]
    BY <1>1 DEF CSessions
  <2> HIDE DEF Rings
  <2>5. c = [cs EXCEPT !.pos = pos, !.inBuff = ring]
    BY <1>11, <2>2
  <2>6. c \in [stage : {"init", "load", "flush"}, frame : {"created", "init", "ongoing"},
   pledged : Nat \cup {Unknown}, consumed : Nat, checksum : BOOLEAN, window : Nat,
   block : Nat, inBuff : Rings, pos : Nat,
   toCompress : Nat, target : Nat, outBuff : Seq(Units), ended : BOOLEAN,
   notConsumed : Nat, stable : BOOLEAN]
    BY <2>3, <2>4, <2>5
  <2>7. c \in CSessions
    BY <2>6 DEF CSessions, Rings
  <2>8. /\ c.stage = cs.stage /\ c.frame = cs.frame /\ c.pledged = cs.pledged
       /\ c.consumed = cs.consumed /\ c.checksum = cs.checksum /\ c.window = cs.window
       /\ c.block = cs.block /\ c.pos = pos /\ c.inBuff = ring
       /\ c.toCompress = cs.toCompress /\ c.target = cs.target /\ c.outBuff = cs.outBuff
       /\ c.ended = cs.ended /\ c.notConsumed = cs.notConsumed /\ c.stable = cs.stable
    BY <2>4, <2>5
  <2>9. QED
    BY <2>2, <2>7, <2>8
<1>14. \A a \in cs.toCompress .. c.pos - 1 : c.inBuff[a] = Written + 1 + a - cs.toCompress
  <2>0. SUFFICES ASSUME NEW a \in cs.toCompress .. c.pos - 1
                 PROVE  c.inBuff[a] = Written + 1 + a - cs.toCompress
    OBVIOUS
  <2>1. a \in cs.toCompress .. cs.pos + n - 1
    BY <1>2, <1>6, <1>13
  <2>2. a \in 0 .. w - 1 /\ a \in Nat
    BY <1>2, <1>4, <1>6, <1>7, <2>1
  <2>2a. c.inBuff[a] = ring[a]
    BY <1>13
  <2>3. ring[a] = IF a \in cs.pos .. cs.pos + n - 1 THEN ip + 1 + a - cs.pos ELSE cs.inBuff[a]
    BY <1>9, <2>2
  <2>4. CASE a \in cs.pos .. cs.pos + n - 1
    <3>1. Waiting = cs.pos - cs.toCompress
      BY DEF Waiting
    <3>2. QED
      BY <1>1, <1>2, <2>2, <2>2a, <2>3, <2>4, <3>1
  <2>5. CASE a \notin cs.pos .. cs.pos + n - 1
    <3>1. a \in cs.toCompress .. cs.pos - 1
      BY <1>2, <1>6, <2>1, <2>5
    <3>2. cs.inBuff[a] = ip - Waiting + 1 + a - cs.toCompress
      BY <1>4, <3>1
    <3>3. QED
      BY <1>1, <2>2a, <2>3, <2>5, <3>2
  <2>6. QED
    BY <2>4, <2>5
<1>15. c.inBuff \in [0 .. cs.window + cs.block - 1 -> Nat]
  <2>1. c.inBuff = ring
    BY <1>13
  <2>2. QED
    BY ONLY <1>7a, <1>10, <2>1, Zenon
<1>16. LoadsTo(c, n)
  BY <1>1, <1>6, <1>13, <1>14, <1>15 DEF LoadsTo
<1>17. Loaded.n = n /\ Loaded.ctx = c
  <2>1. DOMAIN cs.inBuff = 0 .. w - 1
    BY <1>8
  <2>2. Loaded.n = n
    BY <1>5 DEF Loaded
  <2>3. Loaded.ctx = [cs EXCEPT !.pos = cs.pos + n,
                        !.inBuff = [a \in DOMAIN cs.inBuff |->
                            IF a \in cs.pos .. cs.pos + n - 1 THEN ip + 1 + a - cs.pos ELSE cs.inBuff[a]]]
    BY <1>5 DEF Loaded
  <2>4. QED
    BY <1>9, <1>11, <2>1, <2>2, <2>3
<1>18. QED
  BY <1>16, <1>17

\* The call returns and there is nothing to be flushed.
Waits ==
  /\ ccall' = [busy |-> FALSE, op |-> ccall.op, room |-> 0, ret |-> 0]
  /\ ccall.op \in {"continue", "flush"}
  /\ iend' = iend

\* Waiting for input that stays in place keeps the invariant.
LEMMA StableWaits ==
  ASSUME NEW n \in Nat,
         WriterOf(/\ AtStage("load") /\ cs.stable /\ Waits
                  /\ cs' = [cs EXCEPT !.notConsumed = n] /\ ip' = ip + n /\ ip' = iend
                  /\ (ccall.op = "flush" => n = 0) /\ UNCHANGED wire)
  PROVE  PipeInv'
<1>1. /\ CInv /\ DInv /\ UnderwayInv /\ ~dcall.busy /\ UNCHANGED dVars /\ UNCHANGED wire
      /\ AtStage("load") /\ cs.stable /\ Waits
      /\ cs' = [cs EXCEPT !.notConsumed = n] /\ ip' = ip + n /\ ip' = iend
      /\ (ccall.op = "flush" => n = 0)
  BY DEF WriterOf
<1>2. /\ CTypeInv /\ ip \in Nat /\ iend \in Nat /\ ip <= iend /\ cs \in CSessions
      /\ ccall.busy /\ cs.stage = "load" /\ cs.notConsumed = 0 /\ cs.outBuff = <<>>
      /\ cs.frame \in {"init", "ongoing"} /\ cs.pos >= cs.toCompress /\ cs.pos \in Nat
      /\ cs.toCompress \in Nat /\ Waiting \in Nat /\ Written = ip - Waiting /\ Written \in Nat
      /\ cs.consumed \in Nat /\ cs.consumed <= Written
      /\ cs.pledged \in Nat \cup {Unknown}
      /\ cs.pledged # Unknown =>
           ccall.op = "end" /\ cs.consumed + Waiting + (iend - ip) = cs.pledged
  BY <1>1, Compressing
<1>3. /\ cs'.stage = cs.stage /\ cs'.frame = cs.frame /\ cs'.pledged = cs.pledged
      /\ cs'.consumed = cs.consumed /\ cs'.checksum = cs.checksum /\ cs'.window = cs.window
      /\ cs'.block = cs.block /\ cs'.inBuff = cs.inBuff /\ cs'.pos = cs.pos
      /\ cs'.toCompress = cs.toCompress /\ cs'.target = cs.target /\ cs'.outBuff = cs.outBuff
      /\ cs'.ended = cs.ended /\ cs'.notConsumed = n /\ cs'.stable = cs.stable
      /\ cs' \in CSessions
  BY <1>1, <1>2 DEF CSessions
<1>4. CStageInv /\ CSizesInv /\ CStableInv
  BY <1>1 DEF CInv
<1>5. cs.pos = 0 /\ cs.toCompress = 0 /\ Waiting = 0
  BY <1>1, <1>2, <1>4 DEF CStableInv, Waiting
<1>6. Waiting' = 0 /\ Written' = Written /\ Written = ip
  BY <1>1, <1>2, <1>3, <1>5 DEF Waiting, Written
<1>7. /\ ccall'.busy = FALSE /\ ccall'.op = ccall.op /\ ccall'.op # "end" /\ iend' = iend
      /\ ccall' \in [busy : BOOLEAN, op : {"continue", "flush", "end"}, room : Nat, ret : Nat]
  BY <1>1 DEF Waits
<1>8. cs.pledged = Unknown
  BY <1>1, <1>2 DEF Waits
<1>9. CTypeInv'
  BY <1>1, <1>2, <1>3, <1>7 DEF CTypeInv
<1>10. CInitInv' /\ CStageInv' /\ CSizesInv' /\ CRingInv'
  <2>1. CInitInv' /\ CStageInv'
    BY <1>2, <1>3, <1>4 DEF CInitInv, CStageInv
  <2>2. CSizesInv'
    BY <1>3, <1>4 DEF CSizesInv
  <2>3. CRingInv'
    BY <1>1, <1>3 DEF CRingInv
  <2>4. QED
    BY <2>1, <2>2, <2>3
<1>11. CStableInv'
  BY <1>1, <1>2, <1>3, <1>5, <1>6, <1>7 DEF CStableInv, Waits
<1>12. CPledgedInv'
  BY <1>2, <1>3, <1>6, <1>8 DEF CPledgedInv
<1>13. CReturnInv'
  <2>1. ccall'.op # "continue" => Written' = iend'
    <3>1. ccall.op # "continue" => n = 0
      BY <1>1 DEF Waits
    <3>2. n = 0 => ip' = Written'
      BY <1>1, <1>2, <1>6
    <3>3. QED
      BY <1>1, <1>7, <3>1, <3>2
  <2>2. QED
    BY <1>2, <1>3, <1>7, <2>1 DEF CReturnInv
<1>14. CInv'
  BY <1>9, <1>10, <1>11, <1>12, <1>13 DEF CInv
<1>15. \A q \in Places : LedTo(cs, Written, q) => LedTo(cs', Written', q)
  BY <1>3, <1>6 DEF LedTo
<1>16. DInv' /\ UnderwayInv'
  BY <1>1, <1>2, <1>3, <1>15, NothingWritten
<1>17. QED
  BY <1>14, <1>16 DEF PipeInv

\* Waiting for input with some of it in the ring keeps the invariant.
LEMMA RingWaits ==
  ASSUME NEW n,
         WriterOf(/\ AtStage("load") /\ ~cs.stable /\ Waits
                  /\ LoadsTo(cs', n) /\ ip' = ip + n
                  /\ (ccall.op = "flush" => cs'.pos = cs.toCompress) /\ UNCHANGED wire)
  PROVE  PipeInv'
<1>1. /\ CInv /\ DInv /\ UnderwayInv /\ ~dcall.busy /\ UNCHANGED dVars /\ UNCHANGED wire
      /\ AtStage("load") /\ ~cs.stable /\ Waits
      /\ LoadsTo(cs', n) /\ ip' = ip + n
      /\ (ccall.op = "flush" => cs'.pos = cs.toCompress)
  BY DEF WriterOf
<1>2. /\ CTypeInv /\ ip \in Nat /\ iend \in Nat /\ ip <= iend /\ cs \in CSessions
      /\ ccall.busy /\ cs.stage = "load" /\ cs.notConsumed = 0 /\ cs.outBuff = <<>>
      /\ cs.frame \in {"init", "ongoing"} /\ cs.pos >= cs.toCompress /\ cs.pos \in Nat
      /\ cs.toCompress \in Nat /\ Waiting \in Nat /\ Written = ip - Waiting /\ Written \in Nat
      /\ cs.consumed \in Nat /\ cs.consumed <= Written
      /\ cs.pledged \in Nat \cup {Unknown}
      /\ cs.pledged # Unknown =>
           ccall.op = "end" /\ cs.consumed + Waiting + (iend - ip) = cs.pledged
  BY <1>1, Compressing
<1>3. /\ n \in Nat /\ n <= iend - ip /\ cs.pos + n <= cs.target
      /\ n = cs.target - cs.pos \/ n = iend - ip
      /\ cs' \in CSessions
      /\ cs'.stage = cs.stage /\ cs'.frame = cs.frame /\ cs'.pledged = cs.pledged
      /\ cs'.consumed = cs.consumed /\ cs'.checksum = cs.checksum /\ cs'.window = cs.window
      /\ cs'.block = cs.block /\ cs'.pos = cs.pos + n
      /\ cs'.toCompress = cs.toCompress /\ cs'.target = cs.target /\ cs'.outBuff = cs.outBuff
      /\ cs'.ended = cs.ended /\ cs'.notConsumed = 0 /\ cs'.stable = cs.stable
      /\ cs'.inBuff \in [0 .. cs.window + cs.block - 1 -> Nat]
      /\ \A a \in cs.toCompress .. cs'.pos - 1 : cs'.inBuff[a] = Written + 1 + a - cs.toCompress
  BY <1>1, <1>2 DEF LoadsTo
<1>4. CStageInv /\ CSizesInv /\ CStableInv /\ CRingInv
  BY <1>1 DEF CInv
<1>5. cs.toCompress < cs.target /\ cs.target \in Nat
      /\ cs.target <= cs.window + cs.block
      /\ cs.target <= cs.toCompress + cs.block + (IF cs.block = cs.pledged THEN 1 ELSE 0)
  BY <1>1, <1>2, <1>4, SessionFields DEF CRingInv
<1>6. Waiting' = Waiting + n /\ Written' = Written /\ ip' - Waiting' = Written /\ Waiting = cs.pos - cs.toCompress
      /\ Waiting' = cs.pos + n - cs.toCompress
  <2>1. Waiting = cs.pos - cs.toCompress
    BY DEF Waiting
  <2>2. Waiting' = Waiting + n
    BY <1>2, <1>3, <2>1 DEF Waiting
  <2>3. QED
    BY <1>1, <1>2, <1>3, <2>1, <2>2 DEF Written
<1>7. /\ ccall'.busy = FALSE /\ ccall'.op = ccall.op /\ ccall'.op # "end" /\ iend' = iend
      /\ ccall' \in [busy : BOOLEAN, op : {"continue", "flush", "end"}, room : Nat, ret : Nat]
  BY <1>1 DEF Waits
<1>8. cs.pledged = Unknown
  BY <1>1, <1>2 DEF Waits
<1>9. CTypeInv'
  <2>1. ip' \in Nat /\ ip' <= iend'
    BY <1>1, <1>2, <1>3, <1>7
  <2>2. QED
    BY <1>2, <1>3, <1>7, <2>1 DEF CTypeInv
<1>10. CInitInv' /\ CStageInv' /\ CSizesInv'
  <2>1. CInitInv' /\ CStageInv'
    BY <1>2, <1>3, <1>4 DEF CInitInv, CStageInv
  <2>2. CSizesInv'
    BY <1>3, <1>4 DEF CSizesInv
  <2>3. QED
    BY <2>1, <2>2
<1>10a. CRingInv'
  <2>1. cs'.inBuff \in [0 .. cs'.window + cs'.block - 1 -> Nat]
    BY <1>3
  <2>2. /\ cs'.toCompress <= cs'.pos /\ cs'.pos <= cs'.target
        /\ cs'.toCompress < cs'.target
        /\ cs'.target <= cs'.window + cs'.block
        /\ cs'.target <= cs'.toCompress + cs'.block + (IF cs'.block = cs'.pledged THEN 1 ELSE 0)
    BY <1>2, <1>3, <1>5
  <2>3. \A a \in cs'.toCompress .. cs'.pos - 1 :
          cs'.inBuff[a] = ip' - Waiting' + 1 + a - cs'.toCompress
    BY <1>3, <1>6
  <2>4. QED
    BY <1>3, <2>1, <2>2, <2>3 DEF CRingInv
<1>11. CStableInv'
  <2>1. 0 + Waiting' <= ip'
    BY <1>1, <1>2, <1>3, <1>6
  <2>2. QED
    BY <1>1, <1>3, <2>1 DEF CStableInv
<1>12. CPledgedInv'
  BY <1>2, <1>3, <1>6, <1>8 DEF CPledgedInv
<1>13. CReturnInv'
  <2>1. ccall'.op # "continue" => Written' = iend'
    <3>1. SUFFICES ASSUME ccall.op = "flush"
                   PROVE  Written' = iend'
      BY <1>1, <1>7 DEF Waits
    <3>2. cs.pos + n = cs.toCompress
      BY <1>1, <1>3, <3>1
    <3>3. n = 0 /\ cs.pos = cs.toCompress
      BY <1>2, <1>3, <3>2
    <3>4. iend = ip
      BY <1>2, <1>3, <1>5, <3>3
    <3>5. QED
      BY <1>2, <1>6, <1>7, <3>3, <3>4
  <2>2. QED
    BY <1>2, <1>3, <1>7, <2>1 DEF CReturnInv
<1>14. CInv'
  BY <1>9, <1>10, <1>10a, <1>11, <1>12, <1>13 DEF CInv
<1>15. \A q \in Places : LedTo(cs, Written, q) => LedTo(cs', Written', q)
  BY <1>3, <1>6 DEF LedTo
<1>16. DInv' /\ UnderwayInv'
  BY <1>1, <1>2, <1>3, <1>15, NothingWritten
<1>17. QED
  BY <1>14, <1>16 DEF PipeInv

\* Waiting for input keeps the invariant.
LEMMA WaitKeeps ==
  ASSUME WriterOf(WaitForInput)
  PROVE  PipeInv'
<1>1. /\ CInv /\ DInv /\ UnderwayInv /\ ~dcall.busy /\ UNCHANGED dVars /\ WaitForInput
  BY DEF WriterOf
<1>2. AtStage("load") /\ NotABlockYet /\ UNCHANGED <<iend, wire>>
  BY <1>1 DEF WaitForInput
<1>3. /\ ip \in Nat /\ iend \in Nat /\ ip <= iend /\ cs \in CSessions
      /\ cs.notConsumed = 0 /\ cs.outBuff = <<>>
  BY <1>1, <1>2, Compressing
<1>4. CASE cs.stable
  <2>1. /\ ccall.op \in {"continue", "flush"}
        /\ ccall.op = "flush" => ip = iend
    BY <1>2, <1>4 DEF NotABlockYet
  <2>2. PICK n \in Nat : n = IF ccall.op = "continue" THEN iend - ip ELSE 0
    BY <1>3
  <2>3. [cs EXCEPT !.notConsumed = 0] = cs
    BY <1>3 DEF CSessions
  <2>4. cs' = [cs EXCEPT !.notConsumed = n] /\ ip' = iend /\ CReturn(cs')
    BY <1>1, <1>4, <2>2, <2>3 DEF WaitForInput
  <2>5. cs'.outBuff = <<>>
    BY <1>3, <2>4 DEF CSessions
  <2>6. Waits
    BY <1>2, <2>1, <2>4, <2>5 DEF CReturn, Idle, Waits
  <2>7. ip' = ip + n
    BY <1>3, <2>1, <2>2, <2>4
  <2>8. WriterOf(/\ AtStage("load") /\ cs.stable /\ Waits
                  /\ cs' = [cs EXCEPT !.notConsumed = n] /\ ip' = ip + n /\ ip' = iend
                  /\ (ccall.op = "flush" => n = 0) /\ UNCHANGED wire)
    BY <1>1, <1>2, <1>4, <2>1, <2>2, <2>4, <2>6, <2>7 DEF WriterOf
  <2>9. QED
    BY <2>8, StableWaits
<1>5. CASE ~cs.stable
  <2>1. LoadsTo(Loaded.ctx, Loaded.n)
    BY <1>1, <1>2, <1>5, LoadedIs
  <2>2. /\ ccall.op \in {"continue", "flush"}
        /\ ccall.op = "flush" => Loaded.ctx.pos = cs.toCompress
    BY <1>2, <1>5 DEF NotABlockYet
  <2>3. cs' = Loaded.ctx /\ ip' = ip + Loaded.n /\ CReturn(cs')
    BY <1>1, <1>5 DEF WaitForInput
  <2>4. PICK n : n = Loaded.n
    OBVIOUS
  <2>5. LoadsTo(cs', n)
    BY <2>1, <2>3, <2>4
  <2>6. Waits
    BY <1>2, <1>3, <2>2, <2>3, <2>5 DEF CReturn, Idle, Waits, LoadsTo
  <2>7. WriterOf(/\ AtStage("load") /\ ~cs.stable /\ Waits
                  /\ LoadsTo(cs', n) /\ ip' = ip + n
                  /\ (ccall.op = "flush" => cs'.pos = cs.toCompress) /\ UNCHANGED wire)
    BY <1>1, <1>2, <1>5, <2>2, <2>3, <2>4, <2>5, <2>6 DEF WriterOf
  <2>8. QED
    BY <2>7, RingWaits
<1>6. QED
  BY <1>4, <1>5

\* What compressing a block makes of the context.
After(a, size, last) ==
  /\ a \in CSessions /\ a.stage = "load" /\ a.outBuff = <<>> /\ a.notConsumed = 0
  /\ a.frame = (IF last THEN "created" ELSE "ongoing")
  /\ a.ended = last /\ a.consumed = cs.consumed + size
  /\ a.pledged = cs.pledged /\ a.checksum = cs.checksum /\ a.window = cs.window
  /\ a.block = cs.block /\ a.stable = cs.stable
  /\ a.pos = a.toCompress
  /\ a.stable => a.pos = 0
  /\ ~a.stable => /\ a.inBuff \in [0 .. a.window + a.block - 1 -> Nat]
                  /\ a.pos < a.target /\ a.target <= a.window + a.block
                  /\ a.target <= a.pos + a.block

\* The units that have been made, and where they lead to.
Made(units, after, size, taken, last) ==
  /\ AtStage("load")
  /\ units \in Seq(Units) /\ last \in BOOLEAN /\ size \in Nat /\ taken \in Nat
  /\ taken <= iend - ip /\ size = Waiting + taken
  /\ last <=> (ccall.op = "end" /\ ip + taken = iend)
  /\ After(after, size, last)
  /\ \A q \in Places : LedTo(cs, Written, q) =>
       \E r \in Places : Parses(q, units, r) /\ LedTo(after, Written + size, r)

\* The call goes on with the context that is left, o in outBuff and in this stage.
Proceeds(after, o, stage, taken) ==
  /\ cs' = [after EXCEPT !.outBuff = o, !.stage = stage] /\ ip' = ip + taken /\ iend' = iend
  /\ ccall' \in [busy : BOOLEAN, op : {"continue", "flush", "end"}, room : Nat, ret : Nat]
  /\ ccall'.busy = TRUE /\ ccall'.op = ccall.op

\* The writer is in order after a block.
LEMMA BlockInvariant ==
  ASSUME CInv, NEW units, NEW after, NEW size, NEW taken, NEW last, Made(units, after, size, taken, last),
         NEW o \in Seq(Units), NEW stage \in {"load", "flush"}, stage = "load" => ~last /\ o = <<>>,
         Proceeds(after, o, stage, taken)
  PROVE  /\ CInv' /\ cs' \in CSessions /\ cs'.outBuff = o
         /\ \A r \in Places : LedTo(after, Written + size, r) => LedTo(cs', Written', r)
<1>1. /\ CTypeInv /\ ip \in Nat /\ iend \in Nat /\ ip <= iend /\ cs \in CSessions
      /\ ccall.busy /\ cs.stage = "load" /\ cs.notConsumed = 0 /\ cs.outBuff = <<>>
      /\ cs.frame \in {"init", "ongoing"} /\ cs.pos >= cs.toCompress /\ cs.pos \in Nat
      /\ cs.toCompress \in Nat /\ Waiting \in Nat /\ Written = ip - Waiting /\ Written \in Nat
      /\ cs.consumed \in Nat /\ cs.consumed <= Written
      /\ cs.pledged \in Nat \cup {Unknown}
      /\ cs.pledged # Unknown =>
           ccall.op = "end" /\ cs.consumed + Waiting + (iend - ip) = cs.pledged
  BY Compressing DEF Made
<1>1a. /\ cs' = [after EXCEPT !.outBuff = o, !.stage = stage] /\ ip' = ip + taken /\ iend' = iend
       /\ ccall' \in [busy : BOOLEAN, op : {"continue", "flush", "end"}, room : Nat, ret : Nat]
       /\ ccall'.busy = TRUE /\ ccall'.op = ccall.op
  BY DEF Proceeds
<1>2. /\ size \in Nat /\ taken \in Nat /\ last \in BOOLEAN
      /\ taken <= iend - ip /\ size = Waiting + taken
      /\ last <=> (ccall.op = "end" /\ ip + taken = iend)
  BY DEF Made
<1>3. After(after, size, last)
  BY DEF Made
<1>4. after \in CSessions
  BY <1>3 DEF After
<1>5. /\ cs'.stage = stage /\ cs'.frame = after.frame /\ cs'.pledged = after.pledged
      /\ cs'.consumed = after.consumed /\ cs'.checksum = after.checksum /\ cs'.window = after.window
      /\ cs'.block = after.block /\ cs'.inBuff = after.inBuff /\ cs'.pos = after.pos
      /\ cs'.toCompress = after.toCompress /\ cs'.target = after.target /\ cs'.outBuff = o
      /\ cs'.ended = after.ended /\ cs'.notConsumed = after.notConsumed /\ cs'.stable = after.stable
      /\ cs' \in CSessions
  BY <1>1a, <1>4 DEF CSessions
<1>6. /\ cs'.notConsumed = 0
      /\ cs'.frame = (IF last THEN "created" ELSE "ongoing")
      /\ cs'.consumed = cs.consumed + size
      /\ cs'.pledged = cs.pledged /\ cs'.window = cs.window
      /\ cs'.block = cs.block
      /\ cs'.pos = cs'.toCompress
      /\ cs'.pos \in Nat /\ cs'.toCompress \in Nat /\ cs'.target \in Nat
  BY <1>3, <1>4, <1>5, SessionFields DEF After
<1>6a. cs'.ended = last /\ cs'.stable = cs.stable
  BY <1>3, <1>5 DEF After
<1>6b. cs.stable => cs'.pos = 0
  BY <1>3, <1>5 DEF After
<1>6c. ~cs.stable =>
          /\ cs'.inBuff \in [0 .. cs'.window + cs'.block - 1 -> Nat]
          /\ cs'.pos < cs'.target /\ cs'.target <= cs'.window + cs'.block
          /\ cs'.target <= cs'.pos + cs'.block
  BY <1>3, <1>5 DEF After
<1>7. Waiting' = 0 /\ Written' = ip' /\ ip' = Written + size /\ ip' \in Nat /\ ip' <= iend'
  <2>1. Waiting' = 0
    BY <1>6 DEF Waiting
  <2>2. ip' = Written + size /\ ip' \in Nat /\ ip' <= iend'
    BY <1>1, <1>1a, <1>2
  <2>3. Written' = ip'
    BY <1>6, <2>1, <2>2 DEF Written
  <2>4. QED
    BY <2>1, <2>2, <2>3
<1>8. CTypeInv'
  BY <1>1, <1>1a, <1>5, <1>7 DEF CTypeInv
<1>9. CInitInv' /\ CReturnInv'
  BY <1>1a, <1>5 DEF CInitInv, CReturnInv
<1>10. CStageInv'
  <2>1. CASE stage = "load"
    <3>1. last = FALSE
      BY <1>2, <2>1
    <3>2. cs'.frame = "ongoing" /\ cs'.ended = FALSE /\ cs'.outBuff = <<>>
      BY <1>5, <1>6, <1>6a, <2>1, <3>1
    <3>3. QED
      BY <1>5, <2>1, <3>2 DEF CStageInv
  <2>2. CASE stage = "flush"
    <3>1. cs'.ended <=> last
      BY <1>6a
    <3>2. (last <=> cs'.frame = "created") /\ cs'.frame # "init"
      BY <1>6
    <3>3. last => ccall'.op = "end" /\ ip' = iend'
      BY <1>1a, <1>2
    <3>4. cs'.stage = "flush" /\ cs'.notConsumed = 0 /\ Waiting' = 0
      BY <1>5, <1>6, <1>7, <2>2
    <3>5. (cs'.ended <=> cs'.frame = "created") /\ (cs'.ended => ccall'.op = "end" /\ ip' = iend')
      BY <3>1, <3>2, <3>3
    <3>6. QED
      BY <3>2, <3>4, <3>5 DEF CStageInv
  <2>3. QED
    BY <2>1, <2>2
<1>11. CSizesInv'
  <2>1. CSizesInv
    BY DEF CInv
  <2>2. cs'.frame # "init"
    BY <1>6
  <2>3. QED
    BY <1>1, <1>6, <2>1, <2>2 DEF CSizesInv
<1>12. CRingInv'
  <2>1. SUFFICES ASSUME ~cs'.stable
        PROVE  /\ cs'.notConsumed = 0
               /\ cs'.inBuff \in [0 .. cs'.window + cs'.block - 1 -> Nat]
               /\ cs'.toCompress <= cs'.pos /\ cs'.pos <= cs'.target
               /\ cs'.toCompress < cs'.target
               /\ cs'.target <= cs'.window + cs'.block
               /\ cs'.target <= cs'.toCompress + cs'.block + (IF cs'.block = cs'.pledged THEN 1 ELSE 0)
               /\ \A a \in cs'.toCompress .. cs'.pos - 1 :
                     cs'.inBuff[a] = ip' - Waiting' + 1 + a - cs'.toCompress
    BY DEF CRingInv
  <2>2. /\ cs'.inBuff \in [0 .. cs'.window + cs'.block - 1 -> Nat]
        /\ cs'.pos < cs'.target /\ cs'.target <= cs'.window + cs'.block
        /\ cs'.target <= cs'.pos + cs'.block
    BY <1>6a, <1>6c, <2>1
  <2>2a. cs'.block \in Nat
    BY <1>1, <1>6, SessionFields
  <2>3. /\ cs'.toCompress <= cs'.pos /\ cs'.pos <= cs'.target
        /\ cs'.toCompress < cs'.target
        /\ cs'.target <= cs'.toCompress + cs'.block + (IF cs'.block = cs'.pledged THEN 1 ELSE 0)
    BY <1>6, <2>2, <2>2a
  <2>4. \A a \in cs'.toCompress .. cs'.pos - 1 :
                     cs'.inBuff[a] = ip' - Waiting' + 1 + a - cs'.toCompress
    BY <1>6
  <2>5. QED
    BY <1>6, <2>2, <2>3, <2>4
<1>13. CStableInv'
  <2>1. cs'.stable => cs'.pos = 0 /\ cs'.toCompress = 0
    BY <1>6, <1>6a, <1>6b
  <2>2. cs'.notConsumed = 0 /\ 0 + Waiting' <= ip'
    BY <1>6, <1>7
  <2>3. cs'.notConsumed + Waiting' <= ip'
    BY <2>2
  <2>4. QED
    BY <2>1, <2>2, <2>3 DEF CStableInv
<1>14. CPledgedInv'
  <2>0. cs'.consumed = cs.consumed + size /\ cs'.pledged = cs.pledged
    BY <1>6
  <2>1. cs'.consumed <= Written'
    <3>0. cs.consumed \in Nat /\ Written \in Nat /\ size \in Nat /\ cs.consumed <= Written
      BY <1>1, <1>2
    <3>1. cs.consumed + size <= Written + size
      BY <3>0
    <3>2. Written' = Written + size
      BY <1>7
    <3>3. QED
      BY <2>0, <3>1, <3>2
  <2>2. cs.pledged # Unknown => (cs.consumed + size) + 0 + (iend - (ip + taken)) = cs.pledged
    <3>1. SUFFICES ASSUME cs.pledged # Unknown
                   PROVE  (cs.consumed + size) + 0 + (iend - (ip + taken)) = cs.pledged
      OBVIOUS
    <3>2. cs.consumed + Waiting + (iend - ip) = cs.pledged
      BY <1>1, <3>1
    <3>3. /\ cs.consumed \in Nat /\ Waiting \in Nat /\ iend \in Nat /\ ip \in Nat
          /\ taken \in Nat /\ size = Waiting + taken
      BY <1>1, <1>2
    <3>4. QED
      BY <3>2, <3>3
  <2>2a. cs'.pledged # Unknown => ccall'.op = "end" /\ cs'.consumed + Waiting' + (iend' - ip') = cs'.pledged
    <3>1. cs.pledged # Unknown => ccall'.op = "end"
      BY <1>1, <1>1a
    <3>2. Waiting' = 0
      BY <1>7
    <3>3. cs.pledged # Unknown => cs'.consumed + Waiting' + (iend' - ip') = cs.pledged
      BY <1>1a, <2>0, <2>2, <3>2
    <3>4. QED
      BY <2>0, <3>1, <3>3
  <2>3. QED
    BY <2>1, <2>2a DEF CPledgedInv
<1>15. CInv'
  BY <1>8, <1>9, <1>10, <1>11, <1>12, <1>13, <1>14 DEF CInv
<1>16. \A r \in Places : LedTo(after, Written + size, r) => LedTo(cs', Written', r)
  BY <1>5, <1>7 DEF LedTo
<1>17. QED
  BY <1>5, <1>15, <1>16

\* The block that comes next: its bytes, and how many of them are taken from the input.
ChunkOf(c, size, taken, b) ==
  /\ size \in Nat /\ taken \in Nat /\ taken <= iend - ip /\ size = Waiting + taken
  /\ size <= cs.block
  /\ IsChunk(b, Written, size)
  /\ c \in CSessions /\ c.stage = "load" /\ c.frame = cs.frame /\ c.pledged = cs.pledged
  /\ c.consumed = cs.consumed /\ c.checksum = cs.checksum /\ c.window = cs.window
  /\ c.block = cs.block /\ c.outBuff = <<>> /\ c.notConsumed = 0 /\ c.stable = cs.stable
  /\ cs.stable => c.pos = 0 /\ c.toCompress = 0
  /\ ~cs.stable => c.inBuff \in [0 .. cs.window + cs.block - 1 -> Nat]

\* While a session goes on a block holds a byte at least, and no more than a window.
LEMMA BlockIsSome ==
  ASSUME CInv, AtStage("load")
  PROVE  cs.block \in Nat /\ cs.block > 0 /\ cs.window \in Nat /\ cs.block <= cs.window
<1>1. CTypeInv /\ CSizesInv /\ cs.stage = "load"
  BY DEF CInv, AtStage
<1>2. cs.pledged \in Nat \cup {Unknown}
  BY <1>1, SessionFields DEF CTypeInv
<1>3. cs.window = (IF cs.pledged = Unknown THEN WindowSize ELSE MAX(1, MIN(WindowSize, cs.pledged)))
      /\ cs.block = MIN(BlockSizeMax, cs.window)
  BY <1>1 DEF CSizesInv
<1>4. WindowSize \in Nat \ {0} /\ BlockSizeMax \in Nat \ {0}
  BY HeaderSizeAssumption, CStreamAssumption
<1>5. cs.window \in Nat /\ cs.window > 0
  BY <1>2, <1>3, <1>4 DEF MAX, MIN
<1>6. QED
  BY <1>3, <1>4, <1>5 DEF MIN

\* What a block is made of when the input stays in place.
LEMMA StableChunk ==
  ASSUME CInv, AtStage("load"), cs.stable, NEW size, size = MIN(iend - ip, cs.block),
         NEW b, b = Numbers(ip, ip + size)
  PROVE  ChunkOf(cs, size, size, b)
<1>1. /\ ip \in Nat /\ iend \in Nat /\ ip <= iend /\ cs \in CSessions
      /\ cs.stage = "load" /\ cs.notConsumed = 0 /\ cs.outBuff = <<>>
      /\ Written = ip - Waiting
  BY Compressing
<1>2. CStableInv
  BY DEF CInv
<1>3. cs.pos = 0 /\ cs.toCompress = 0 /\ Waiting = 0 /\ Written = ip
  BY <1>1, <1>2 DEF CStableInv, Waiting
<1>4. cs.block \in Nat
  BY BlockIsSome
<1>5. size \in Nat /\ size <= iend - ip /\ size <= cs.block /\ size = Waiting + size
  BY <1>1, <1>3, <1>4 DEF MIN
<1>6. IsChunk(b, Written, size)
  BY <1>3 DEF IsChunk
<1>7. QED
  BY <1>1, <1>3, <1>5, <1>6 DEF ChunkOf

\* What a block is made of when the input was loaded into the ring.
LEMMA RingChunk ==
  ASSUME CInv, AtStage("load"), ~cs.stable, NEW c, NEW n, LoadsTo(c, n),
         NEW size, size = c.pos - c.toCompress,
         NEW b, b = [i \in 1 .. size |-> c.inBuff[c.toCompress + i - 1]]
  PROVE  ChunkOf(c, size, n, b)
<1>1. /\ ip \in Nat /\ iend \in Nat /\ ip <= iend /\ cs \in CSessions
      /\ cs.stage = "load" /\ cs.notConsumed = 0 /\ cs.outBuff = <<>>
      /\ cs.pos >= cs.toCompress /\ cs.pos \in Nat
      /\ cs.toCompress \in Nat /\ Waiting \in Nat /\ Written = ip - Waiting /\ Written \in Nat
      /\ cs.consumed \in Nat 
      /\ cs.pledged \in Nat \cup {Unknown}
      /\ cs.pledged # Unknown =>
           ccall.op = "end" /\ cs.consumed + Waiting + (iend - ip) = cs.pledged
  BY Compressing
<1>2. /\ n \in Nat /\ n <= iend - ip /\ cs.pos + n <= cs.target
      /\ c \in CSessions
      /\ c.stage = "load" /\ c.frame = cs.frame /\ c.pledged = cs.pledged
      /\ c.consumed = cs.consumed /\ c.checksum = cs.checksum /\ c.window = cs.window
      /\ c.block = cs.block /\ c.pos = cs.pos + n
      /\ c.toCompress = cs.toCompress /\ c.outBuff = cs.outBuff
      /\ c.notConsumed = cs.notConsumed /\ c.stable = cs.stable
      /\ c.inBuff \in [0 .. cs.window + cs.block - 1 -> Nat]
      /\ \A a \in cs.toCompress .. c.pos - 1 : c.inBuff[a] = Written + 1 + a - cs.toCompress
  BY DEF LoadsTo
<1>3. size \in Nat /\ size = Waiting + n
  BY <1>1, <1>2 DEF Waiting
<1>4. cs.block \in Nat /\ cs.block > 0
  BY BlockIsSome
<1>5. size <= cs.block
  <2>1. cs.target <= cs.toCompress + cs.block + (IF cs.block = cs.pledged THEN 1 ELSE 0)
        /\ cs.target \in Nat
    BY <1>1, SessionFields DEF CInv, CRingInv
  <2>2. CASE cs.block = cs.pledged
    <3>1. cs.pledged # Unknown
      BY <1>4, <2>2 DEF Unknown
    <3>2. cs.consumed + Waiting + (iend - ip) = cs.block
      BY <1>1, <2>2, <3>1
    <3>3. QED
      BY <1>1, <1>2, <1>3, <1>4, <3>2
  <2>3. CASE cs.block # cs.pledged
    <3>1. cs.target <= cs.toCompress + cs.block
      BY <1>1, <1>4, <2>1, <2>3
    <3>2. QED
      BY <1>1, <1>2, <1>4, <2>1, <3>1
  <2>4. QED
    BY <2>2, <2>3
<1>6. IsChunk(b, Written, size)
  <2>1. (Written + size) - Written = size
    BY <1>1, <1>3
  <2>2. ASSUME NEW i \in 1 .. size
        PROVE  c.inBuff[c.toCompress + i - 1] = Written + i
    <3>1. c.toCompress + i - 1 \in cs.toCompress .. c.pos - 1
      BY <1>1, <1>2, <1>3
    <3>2. c.inBuff[c.toCompress + i - 1] = Written + 1 + (c.toCompress + i - 1) - cs.toCompress
      BY <1>2, <3>1
    <3>3. Written + 1 + (c.toCompress + i - 1) - cs.toCompress = Written + i
      BY <1>1, <1>2, <1>3
    <3>4. QED
      BY <3>2, <3>3
  <2>3. Numbers(Written, Written + size) = [i \in 1 .. size |-> Written + i]
    BY <2>1 DEF Numbers
  <2>4. b = [i \in 1 .. size |-> Written + i]
    BY <2>2
  <2>5. QED
    BY <2>3, <2>4 DEF IsChunk
<1>7. QED
  BY <1>1, <1>2, <1>3, <1>5, <1>6 DEF ChunkOf

\* The context with what has been used up, and the frame in this state.
IsUsed(y, c, used, frame) == y = [c EXCEPT !.consumed = used, !.frame = frame]

\* The fields of a context that has used up some input.
LEMMA UsedFields ==
  ASSUME NEW c \in CSessions, NEW used \in Nat, NEW frame \in {"created", "init", "ongoing"},
         NEW y, IsUsed(y, c, used, frame)
  PROVE  /\ y \in CSessions /\ y.frame = frame /\ y.consumed = used
         /\ y.stage = c.stage /\ y.pledged = c.pledged
         /\ y.checksum = c.checksum /\ y.window = c.window
         /\ y.block = c.block /\ y.inBuff = c.inBuff /\ y.pos = c.pos
         /\ y.toCompress = c.toCompress /\ y.target = c.target /\ y.outBuff = c.outBuff
         /\ y.ended = c.ended /\ y.notConsumed = c.notConsumed /\ y.stable = c.stable
BY DEF CSessions, IsUsed

\* The context with the ring at these places.
IsPlaced(y, c, pos, toCompress, target, ended) ==
  y = [c EXCEPT !.pos = pos, !.toCompress = toCompress, !.target = target, !.ended = ended]

\* The fields of a context with the ring at other places.
LEMMA PlacedFields ==
  ASSUME NEW c \in CSessions, NEW pos \in Nat, NEW toCompress \in Nat, NEW target \in Nat,
         NEW ended \in BOOLEAN, NEW y, IsPlaced(y, c, pos, toCompress, target, ended)
  PROVE  
         /\ y \in CSessions /\ y.frame = c.frame /\ y.consumed = c.consumed
         /\ y.stage = c.stage /\ y.pledged = c.pledged
         /\ y.checksum = c.checksum /\ y.window = c.window
         /\ y.block = c.block /\ y.inBuff = c.inBuff /\ y.pos = pos
         /\ y.toCompress = toCompress /\ y.target = target /\ y.outBuff = c.outBuff
         /\ y.ended = ended /\ y.notConsumed = c.notConsumed /\ y.stable = c.stable
BY DEF CSessions, IsPlaced

\* The context after a block: where the next one goes.
LEMMA AfterIs ==
  ASSUME CInv, AtStage("load"), NEW c, NEW size, NEW taken, NEW b, ChunkOf(c, size, taken, b),
         NEW last \in BOOLEAN, NEW frame, frame = (IF last THEN "created" ELSE "ongoing"),
         NEW y, IsUsed(y, c, c.consumed + size, frame)
  PROVE  After([(IF cs.stable THEN y ELSE NextTarget(y)) EXCEPT !.ended = last], size, last)
<1>1. /\ size \in Nat /\ c \in CSessions /\ c.stage = "load" /\ c.pledged = cs.pledged
      /\ c.consumed = cs.consumed /\ c.checksum = cs.checksum /\ c.window = cs.window
      /\ c.block = cs.block /\ c.outBuff = <<>> /\ c.notConsumed = 0 /\ c.stable = cs.stable
      /\ cs.stable => c.pos = 0 /\ c.toCompress = 0
      /\ ~cs.stable => c.inBuff \in [0 .. cs.window + cs.block - 1 -> Nat]
  BY DEF ChunkOf
<1>2. c.consumed \in Nat /\ c.pos \in Nat /\ c.toCompress \in Nat /\ c.target \in Nat
      /\ c.block \in Nat /\ c.window \in Nat
  BY <1>1, SessionFields
<1>3. PICK used \in Nat : used = c.consumed + size
  BY <1>1, <1>2
<1>4. frame \in {"created", "init", "ongoing"}
  OBVIOUS
<1>5. /\ y \in CSessions /\ y.frame = frame /\ y.consumed = used
      /\ y.stage = c.stage /\ y.pledged = c.pledged
      /\ y.checksum = c.checksum /\ y.window = c.window
      /\ y.block = c.block /\ y.inBuff = c.inBuff /\ y.pos = c.pos
      /\ y.toCompress = c.toCompress /\ y.target = c.target /\ y.outBuff = c.outBuff
      /\ y.ended = c.ended /\ y.notConsumed = c.notConsumed /\ y.stable = c.stable
  <2>1. IsUsed(y, c, used, frame)
    BY <1>3
  <2>2. QED
    BY <1>1, <1>4, <2>1, UsedFields
<1>6. cs.block > 0 /\ cs.block <= cs.window
  BY BlockIsSome
<1>7. PICK a : a = [(IF cs.stable THEN y ELSE NextTarget(y)) EXCEPT !.ended = last]
  OBVIOUS
<1>8. PICK pos \in Nat, toCompress \in Nat, target \in Nat :
        /\ IsPlaced(a, y, pos, toCompress, target, last)
        /\ pos = toCompress
        /\ cs.stable => pos = 0
        /\ ~cs.stable => /\ pos < target /\ target <= cs.window + cs.block
                         /\ target <= pos + cs.block
  <2>1. CASE cs.stable
    <3>1. a = [y EXCEPT !.ended = last]
      BY <1>7, <2>1
    <3>2. IsPlaced(a, y, c.pos, c.toCompress, c.target, last)
      BY <1>5, <3>1 DEF CSessions, IsPlaced
    <3>3. QED
      BY <1>1, <1>2, <2>1, <3>2
  <2>2. CASE ~cs.stable /\ c.pos + c.block > c.window + c.block
    <3>1. NextTarget(y) = [y EXCEPT !.pos = 0, !.toCompress = 0, !.target = c.block]
      BY <1>5, <2>2 DEF NextTarget
    <3>2. PICK z \in Nat, t \in Nat : z = 0 /\ t = c.block
      BY <1>2
    <3>3. a = [[y EXCEPT !.pos = z, !.toCompress = z, !.target = t] EXCEPT !.ended = last]
      BY <1>7, <2>2, <3>1, <3>2
    <3>4. IsPlaced(a, y, z, z, t, last)
      BY <1>5, <3>3 DEF IsPlaced
    <3>5. z < t /\ t <= cs.window + cs.block /\ t <= z + cs.block
      BY <1>1, <1>2, <1>6, <3>2
    <3>6. QED
      BY <2>2, <3>4, <3>5
  <2>3. CASE ~cs.stable /\ ~(c.pos + c.block > c.window + c.block)
    <3>1. NextTarget(y) = [y EXCEPT !.toCompress = c.pos, !.target = c.pos + c.block]
      BY <1>5, <2>3 DEF NextTarget
    <3>2. PICK z \in Nat, t \in Nat : z = c.pos /\ t = c.pos + c.block
      BY <1>2
    <3>3. [y EXCEPT !.pos = z] = y
      <4>1. y.pos = z
        BY <1>5, <3>2
      <4>2. QED
        BY <1>5, <4>1 DEF CSessions
    <3>4. a = [[y EXCEPT !.toCompress = z, !.target = t] EXCEPT !.ended = last]
      BY <1>7, <2>3, <3>1, <3>2
    <3>5. a = [[[y EXCEPT !.pos = z] EXCEPT !.toCompress = z, !.target = t] EXCEPT !.ended = last]
      BY <3>3, <3>4, Zenon
    <3>6. IsPlaced(a, y, z, z, t, last)
      BY <3>5 DEF IsPlaced
    <3>7. z < t /\ t <= cs.window + cs.block /\ t <= z + cs.block
      BY <1>1, <1>2, <1>6, <2>3, <3>2
    <3>8. QED
      BY <2>3, <3>6, <3>7
  <2>4. QED
    BY <2>1, <2>2, <2>3
<1>9. /\ a \in CSessions /\ a.frame = y.frame /\ a.consumed = y.consumed
      /\ a.stage = y.stage /\ a.pledged = y.pledged
      /\ a.checksum = y.checksum /\ a.window = y.window
      /\ a.block = y.block /\ a.inBuff = y.inBuff /\ a.pos = pos
      /\ a.toCompress = toCompress /\ a.target = target /\ a.outBuff = y.outBuff
      /\ a.ended = last /\ a.notConsumed = y.notConsumed /\ a.stable = y.stable
  BY <1>5, <1>8, PlacedFields
<1>10. /\ a.stage = "load" /\ a.outBuff = <<>> /\ a.notConsumed = 0
       /\ a.frame = (IF last THEN "created" ELSE "ongoing")
       /\ a.consumed = cs.consumed + size
       /\ a.pledged = cs.pledged /\ a.checksum = cs.checksum /\ a.window = cs.window
       /\ a.block = cs.block
  BY <1>1, <1>3, <1>5, <1>9
<1>11. a.stable = cs.stable /\ a.ended = last
  BY <1>1, <1>5, <1>9
<1>12. a.pos = a.toCompress /\ (a.stable => a.pos = 0)
  BY <1>8, <1>9, <1>11
<1>13. ~a.stable => /\ a.inBuff \in [0 .. a.window + a.block - 1 -> Nat]
                    /\ a.pos < a.target /\ a.target <= a.window + a.block
                    /\ a.target <= a.pos + a.block
  <2>1. SUFFICES ASSUME ~cs.stable
                 PROVE  /\ a.inBuff \in [0 .. a.window + a.block - 1 -> Nat]
                        /\ a.pos < a.target /\ a.target <= a.window + a.block
                        /\ a.target <= a.pos + a.block
    BY <1>11
  <2>2. a.pos < a.target /\ a.target <= a.window + a.block /\ a.target <= a.pos + a.block
    BY <1>8, <1>9, <1>10, <2>1
  <2>3. a.inBuff \in [0 .. cs.window + cs.block - 1 -> Nat]
    BY <1>1, <1>5, <1>9, <2>1
  <2>4. QED
    BY <1>10, <2>2, <2>3
<1>14. After(a, size, last)
  BY <1>9, <1>10, <1>11, <1>12, <1>13 DEF After
<1>15. QED
  BY <1>7, <1>14

\* The context that ZSTD_compressContinue_internal leaves.
LEMMA ContinueContext ==
  ASSUME NEW c \in CSessions, NEW b, NEW raw
  PROVE  IsUsed(CompressContinue(c, b, FALSE, raw).ctx, c, c.consumed + Len(b), "ongoing")
BY DEF CompressContinue, IsUsed

\* The context that ZSTD_compressEnd_public leaves.
LEMMA EndContext ==
  ASSUME NEW c \in CSessions, NEW b, NEW raw
  PROVE  IsUsed(CompressEnd(c, b, raw).ctx, c, c.consumed + Len(b), "created")
<1>1. PICK got : got = CompressContinue(c, b, TRUE, raw)
  OBVIOUS
<1>2. PICK f : f = IF TRUE /\ b # <<>> THEN "ending" ELSE "ongoing"
  OBVIOUS
<1>3. got.ctx = [c EXCEPT !.consumed = c.consumed + Len(b), !.frame = f]
  BY <1>1, <1>2 DEF CompressContinue
<1>4. CompressEnd(c, b, raw).ctx = [got.ctx EXCEPT !.frame = "created"]
  BY <1>1 DEF CompressEnd
<1>5. QED
  BY <1>3, <1>4 DEF IsUsed, CSessions

GotOf(got, c, b, raw, last) ==
  got = IF last THEN CompressEnd(c, b, raw) ELSE CompressContinue(c, b, FALSE, raw)
AfterOf(after, got, last) ==
  after = [(IF cs.stable THEN got.ctx ELSE NextTarget(got.ctx)) EXCEPT !.ended = last]
LastOf(last, taken) == last <=> (ccall.op = "end" /\ ip + taken = iend)

\* A block, or the end of a frame, is made without an error, and leads on by its bytes.
LEMMA BlockMade ==
  ASSUME CInv, UnderwayInv, AtStage("load"), NEW raw \in BOOLEAN,
         NEW c, NEW size, NEW taken, NEW b, ChunkOf(c, size, taken, b),
         NEW last \in BOOLEAN, LastOf(last, taken),
         NEW got, GotOf(got, c, b, raw, last), NEW after, AfterOf(after, got, last)
  PROVE  /\ got.bad = FALSE
         /\ Made(got.units, after, size, taken, last)
         /\ ~last => Len(got.units) <= size + BoundMargin
<1>1. /\ size \in Nat /\ taken \in Nat /\ taken <= iend - ip /\ size = Waiting + taken
      /\ size <= cs.block
      /\ IsChunk(b, Written, size)
      /\ c \in CSessions /\ c.stage = "load" /\ c.frame = cs.frame /\ c.pledged = cs.pledged
      /\ c.consumed = cs.consumed /\ c.checksum = cs.checksum /\ c.window = cs.window
      /\ c.block = cs.block /\ c.outBuff = <<>> /\ c.notConsumed = 0
  BY DEF ChunkOf
<1>1a. /\ last <=> (ccall.op = "end" /\ ip + taken = iend)
       /\ got = IF last THEN CompressEnd(c, b, raw) ELSE CompressContinue(c, b, FALSE, raw)
  BY DEF LastOf, GotOf
<1>2. /\ ip \in Nat /\ iend \in Nat /\ ip <= iend /\ cs \in CSessions
      /\ cs.stage = "load"
      /\ cs.frame \in {"init", "ongoing"}
      /\ Waiting \in Nat /\ Written = ip - Waiting /\ Written \in Nat
      /\ cs.consumed \in Nat 
      /\ cs.pledged \in Nat \cup {Unknown}
      /\ cs.pledged # Unknown =>
           ccall.op = "end" /\ cs.consumed + Waiting + (iend - ip) = cs.pledged
  BY Compressing
<1>3. cs.pledged # Unknown => cs.consumed + size <= cs.pledged /\ (last => cs.consumed + size = cs.pledged)
  <2>1. SUFFICES ASSUME cs.pledged # Unknown
                 PROVE  cs.consumed + size <= cs.pledged /\ (last => cs.consumed + size = cs.pledged)
    OBVIOUS
  <2>2. cs.consumed + Waiting + (iend - ip) = cs.pledged
    BY <1>2, <2>1
  <2>3. cs.consumed \in Nat /\ Waiting \in Nat /\ iend \in Nat /\ ip \in Nat
    BY <1>2
  <2>4. cs.consumed + size <= cs.pledged
    BY <1>1, <2>2, <2>3
  <2>5. last => ip + taken = iend
    BY <1>1a
  <2>6. ip + taken = iend => cs.consumed + size = cs.pledged
    BY <1>1, <2>2, <2>3
  <2>7. QED
    BY <2>4, <2>5, <2>6
<1>4. Ready(c, Written, size)
  BY <1>1, <1>2, <1>3, SessionReady
<1>5. Len(b) = size
  BY <1>1, <1>2, ChunkIs
<1>6. PICK frame : frame = IF last THEN "created" ELSE "ongoing"
  OBVIOUS
<1>7. IsUsed(got.ctx, c, c.consumed + size, frame)
  <2>1. CASE last
    <3>1. IsUsed(CompressEnd(c, b, raw).ctx, c, c.consumed + Len(b), "created")
      BY <1>1, EndContext
    <3>2. got = CompressEnd(c, b, raw) /\ frame = "created"
      BY <1>1a, <1>6, <2>1
    <3>3. QED
      BY <1>5, <3>1, <3>2
  <2>2. CASE ~last
    <3>1. IsUsed(CompressContinue(c, b, FALSE, raw).ctx, c, c.consumed + Len(b), "ongoing")
      BY <1>1, ContinueContext
    <3>2. got = CompressContinue(c, b, FALSE, raw) /\ frame = "ongoing"
      BY <1>1a, <1>6, <2>2
    <3>3. QED
      BY <1>5, <3>1, <3>2
  <2>3. QED
    BY <2>1, <2>2
<1>8. After(after, size, last)
  <2>1. PICK y : y = got.ctx
    OBVIOUS
  <2>2. IsUsed(y, c, c.consumed + size, frame)
    BY <1>7, <2>1
  <2>3. After([(IF cs.stable THEN y ELSE NextTarget(y)) EXCEPT !.ended = last], size, last)
    BY <1>6, <2>2, AfterIs
  <2>4. QED
    BY <2>1, <2>3 DEF AfterOf
<1>9. \A q \in Places : LedTo(cs, Written, q) => LedTo(c, Written, q)
  BY <1>1 DEF LedTo
<1>10. PICK q0 \in Places : LedTo(cs, Written, q0)
  BY DEF UnderwayInv
<1>11. PICK written \in Nat : written = Written
  BY <1>2
<1>12. ASSUME NEW q \in Places, LedTo(cs, Written, q)
       PROVE  /\ got.bad = FALSE /\ got.units \in Seq(Units)
              /\ ~last => Len(got.units) <= size + BoundMargin
              /\ \E r \in Places : Parses(q, got.units, r) /\ LedTo(after, Written + size, r)
  <2>1. LedTo(c, written, q) /\ Ready(c, written, size) /\ IsChunk(b, written, size)
    BY <1>1, <1>4, <1>9, <1>11, <1>12
  <2>2. CASE last
    <3>1. c.pledged # Unknown => c.consumed + size = c.pledged
      BY <1>1, <1>3, <2>2
    <3>2. EndLeads(CompressEnd(c, b, raw), c, written, size, q)
      BY <1>1, <2>1, <3>1, EndPasses
    <3>3. EndLeads(got, c, written, size, q)
      BY <1>1a, <2>2, <3>2
    <3>4. PICK r \in Places : Parses(q, got.units, r) /\ r.at = "between" /\ r.n = written + size
      BY <3>3 DEF EndLeads
    <3>5. after.frame = "created"
      BY <1>8, <2>2 DEF After
    <3>6. LedTo(after, Written + size, r)
      BY <1>11, <3>4, <3>5 DEF LedTo
    <3>7. got.bad = FALSE /\ got.units \in Seq(Units)
      BY <3>3 DEF EndLeads
    <3>8. QED
      BY <2>2, <3>4, <3>6, <3>7
  <2>3. CASE ~last
    <3>1. PICK l \in BOOLEAN : l = FALSE
      OBVIOUS
    <3>2. ContinueLeads(CompressContinue(c, b, l, raw), c, written, size, l, q)
      BY <1>1, <2>1, ContinuePasses
    <3>3. ContinueLeads(got, c, written, size, l, q)
      BY <1>1a, <2>3, <3>1, <3>2
    <3>4. PICK r \in Places : Parses(q, got.units, r) /\ BehindChunk(c, written, size, l, r)
      BY <3>3 DEF ContinueLeads
    <3>5. /\ r.n = written + size /\ r.start + c.consumed = written
          /\ r.fcs = c.pledged /\ r.sum = c.checksum /\ r.window = WindowOf(c.pledged)
          /\ r.at = "frame" /\ r.left = 0
      BY <3>1, <3>4 DEF BehindChunk
    <3>6. /\ after.frame = "ongoing" /\ after.consumed = c.consumed + size
          /\ after.pledged = c.pledged /\ after.checksum = c.checksum
      BY <1>1, <1>8, <2>3 DEF After
    <3>7. r.start \in Nat /\ c.consumed \in Nat /\ size \in Nat /\ written \in Nat
      BY <1>1, <1>2, PlaceFields
    <3>7a. r.start + after.consumed = written + size
      BY ONLY <3>5, <3>6, <3>7
    <3>8. LedTo(after, Written + size, r)
      BY <1>11, <3>5, <3>6, <3>7a DEF LedTo
    <3>9. got.bad = FALSE /\ got.units \in Seq(Units)
          /\ (size <= c.block => Len(got.units) <= HeaderSize + BlockSpace(size))
      BY <3>3 DEF ContinueLeads
    <3>10. Len(got.units) <= size + BoundMargin
      <4>1. Len(got.units) <= HeaderSize + BlockSpace(size)
        BY <1>1, <3>9
      <4>2. Len(got.units) \in Nat
        BY <3>9, LenProperties
      <4>3. BoundMargin \in Nat /\ BoundMargin >= HeaderSize + 2 /\ HeaderSize \in Nat
        BY CStreamAssumption, HeaderSizeAssumption
      <4>4. BlockSpace(size) \in Nat /\ BlockSpace(size) <= size + 1
        BY <1>1 DEF BlockSpace
      <4>5. size \in Nat
        BY <1>1
      <4>6. QED
        BY ONLY <4>1, <4>2, <4>3, <4>4, <4>5
    <3>11. QED
      BY <3>4, <3>8, <3>9, <3>10
  <2>4. QED
    BY <2>2, <2>3
<1>13. Made(got.units, after, size, taken, last)
  BY <1>1, <1>1a, <1>8, <1>10, <1>12 DEF Made
<1>14. QED
  BY <1>10, <1>12, <1>13

\* What becomes of the units: they wait in outBuff, or they are on the wire.
Kept(units, after) ==
  /\ cs' = [after EXCEPT !.outBuff = units, !.stage = "flush"]
  /\ UNCHANGED <<wire, ccall>>

Sent(units, after, last) ==
  /\ wire' = wire \o units
  /\ IF last THEN cs' = NoSession(cs.stable) /\ ccall' = [busy |-> FALSE, op |-> ccall.op, room |-> 0, ret |-> 0]
     ELSE cs' = after /\ \E room \in Nat : CGoesOn(room)

\* Keeping a block in outBuff keeps the invariant.
LEMMA BlockKept ==
  ASSUME NEW units, NEW after, NEW size, NEW taken, NEW last,
         WriterOf(/\ Made(units, after, size, taken, last) /\ ip' = ip + taken /\ iend' = iend
                  /\ Kept(units, after))
  PROVE  PipeInv'
<1>1. /\ CInv /\ DInv /\ UnderwayInv /\ ~dcall.busy /\ UNCHANGED dVars
      /\ Made(units, after, size, taken, last) /\ ip' = ip + taken /\ iend' = iend /\ Kept(units, after)
  BY DEF WriterOf
<1>2. AtStage("load") /\ units \in Seq(Units)
      /\ \A q \in Places : LedTo(cs, Written, q) =>
           \E r \in Places : Parses(q, units, r) /\ LedTo(after, Written + size, r)
  BY <1>1 DEF Made
<1>3. CTypeInv /\ ccall.busy /\ cs.outBuff = <<>>
  BY <1>1, <1>2, Compressing
<1>4. PICK stage \in {"load", "flush"} : stage = "flush"
  OBVIOUS
<1>5. cs' = [after EXCEPT !.outBuff = units, !.stage = stage] /\ ccall' = ccall /\ wire' = wire
  BY <1>1, <1>4 DEF Kept
<1>6. /\ ccall' \in [busy : BOOLEAN, op : {"continue", "flush", "end"}, room : Nat, ret : Nat]
      /\ ccall'.busy = TRUE /\ ccall'.op = ccall.op
  BY <1>3, <1>5 DEF CTypeInv
<1>7. stage = "load" => ~last /\ units = <<>>
  BY <1>4
<1>8. /\ CInv' /\ cs' \in CSessions /\ cs'.outBuff = units
      /\ \A r \in Places : LedTo(after, Written + size, r) => LedTo(cs', Written', r)
  <2>1. Proceeds(after, units, stage, taken)
    BY <1>1, <1>5, <1>6 DEF Proceeds
  <2>2. QED
    BY <1>1, <1>2, <1>7, <2>1, BlockInvariant
<1>9. PICK e \in Seq(Units) : e = <<>>
  BY EmptySeq
<1>10. wire' = Cat(wire, e) /\ Cat(e, cs'.outBuff) = Cat(cs.outBuff, units)
  <2>1. wire \in Seq(Lyings)
    BY <1>1 DEF UnderwayInv
  <2>2. wire \o e = wire
    BY <1>9, <2>1, ConcatEmptySeq
  <2>3. QED
    BY <1>3, <1>5, <1>8, <1>9, <2>2 DEF Cat
<1>11. \A q \in Places : LedTo(cs, Written, q) =>
           \E r \in Places : Parses(q, units, r) /\ LedTo(cs', Written', r)
  BY <1>2, <1>8
<1>12. DInv' /\ UnderwayInv'
  BY <1>1, <1>2, <1>3, <1>8, <1>9, <1>10, <1>11, WriterKeeps
<1>13. QED
  BY <1>8, <1>12 DEF PipeInv

\* Writing a block directly into the output keeps the invariant.
LEMMA BlockSent ==
  ASSUME NEW units, NEW after, NEW size, NEW taken, NEW last,
         WriterOf(/\ Made(units, after, size, taken, last) /\ ip' = ip + taken /\ iend' = iend
                  /\ Sent(units, after, last))
  PROVE  PipeInv'
<1>1. /\ CInv /\ DInv /\ UnderwayInv /\ ~dcall.busy /\ UNCHANGED dVars
      /\ Made(units, after, size, taken, last) /\ ip' = ip + taken /\ iend' = iend /\ Sent(units, after, last)
  BY DEF WriterOf
<1>2. /\ AtStage("load") /\ units \in Seq(Units) /\ last \in BOOLEAN
      /\ size \in Nat /\ taken \in Nat /\ taken <= iend - ip /\ size = Waiting + taken
      /\ last <=> (ccall.op = "end" /\ ip + taken = iend)
      /\ After(after, size, last)
      /\ \A q \in Places : LedTo(cs, Written, q) =>
           \E r \in Places : Parses(q, units, r) /\ LedTo(after, Written + size, r)
  BY <1>1 DEF Made
<1>3. CTypeInv /\ ccall.busy /\ cs.outBuff = <<>> /\ cs \in CSessions /\ ip \in Nat /\ iend \in Nat
      /\ Waiting \in Nat /\ Written = ip - Waiting /\ Written \in Nat
  BY <1>1, <1>2, Compressing
<1>4. /\ after \in CSessions /\ after.stage = "load" /\ after.outBuff = <<>>
      /\ after.frame = (IF last THEN "created" ELSE "ongoing")
  BY <1>2 DEF After
<1>5. /\ CInv' /\ cs' \in CSessions /\ cs'.outBuff = <<>>
      /\ \A r \in Places : LedTo(after, Written + size, r) => LedTo(cs', Written', r)
  <2>1. CASE last
    <3>1. PICK stable \in BOOLEAN : stable = cs.stable
      BY <1>3, SessionFields
    <3>2. cs' = NoSession(stable) /\ ccall' = [busy |-> FALSE, op |-> ccall.op, room |-> 0, ret |-> 0]
      BY <1>1, <2>1, <3>1 DEF Sent
    <3>3. /\ IsNoSession(cs', 0) /\ cs' \in CSessions /\ cs'.outBuff = <<>> /\ cs'.frame = "created"
      BY <3>2, Between
    <3>4. /\ ccall'.busy = FALSE /\ ccall'.op = "end" /\ ccall'.ret = 0
          /\ ccall' \in [busy : BOOLEAN, op : {"continue", "flush", "end"}, room : Nat, ret : Nat]
      BY <1>2, <2>1, <3>2
    <3>5. ip' = iend /\ iend' = iend
      BY <1>1, <1>2, <2>1
    <3>6. CTypeInv'
      BY <1>3, <3>3, <3>4, <3>5 DEF CTypeInv
    <3>7. CInv' /\ Written' = iend
      <4>1. PICK n \in Nat : n = 0
        OBVIOUS
      <4>2. IsNoSession(cs', n)
        BY <3>3, <4>1
      <4>3. ip' - n = iend' /\ n <= ip'
        BY <1>3, <3>5, <4>1
      <4>4. CInv' /\ Written' = ip' - n
        BY <3>4, <3>6, <4>1, <4>2, <4>3, WithoutSession
      <4>5. QED
        BY <3>5, <4>3, <4>4
    <3>8. Written + size = iend
      <4>1. ip + taken = iend
        BY <1>2, <2>1
      <4>2. QED
        BY <1>2, <1>3, <4>1
    <3>9. after.frame = "created"
      BY <1>4, <2>1
    <3>10. \A r \in Places : LedTo(after, Written + size, r) => LedTo(cs', Written', r)
      BY <3>3, <3>7, <3>8, <3>9 DEF LedTo
    <3>11. QED
      BY <3>3, <3>7, <3>10
  <2>2. CASE ~last
    <3>1. PICK room \in Nat : CGoesOn(room)
      BY <1>1, <2>2 DEF Sent
    <3>2. cs' = after
      BY <1>1, <2>2 DEF Sent
    <3>3. ccall' = [ccall EXCEPT !.room = room]
      BY <3>1 DEF CGoesOn
    <3>4. /\ ccall' \in [busy : BOOLEAN, op : {"continue", "flush", "end"}, room : Nat, ret : Nat]
          /\ ccall'.busy = TRUE /\ ccall'.op = ccall.op
      BY <1>3, <3>3 DEF CTypeInv
    <3>5. PICK stage \in {"load", "flush"}, o \in Seq(Units) : stage = "load" /\ o = <<>>
      BY EmptySeq
    <3>6. cs' = [after EXCEPT !.outBuff = o, !.stage = stage]
      <4>1. after.stage = stage /\ after.outBuff = o
        BY <1>4, <3>5
      <4>2. after = [after EXCEPT !.outBuff = o, !.stage = stage]
        BY <1>4, <4>1 DEF CSessions
      <4>3. QED
        BY <3>2, <4>2
    <3>7. /\ CInv' /\ cs' \in CSessions /\ cs'.outBuff = o
          /\ \A r \in Places : LedTo(after, Written + size, r) => LedTo(cs', Written', r)
      <4>1. Proceeds(after, o, stage, taken)
        BY <1>1, <3>4, <3>6 DEF Proceeds
      <4>2. stage = "load" => ~last /\ o = <<>>
        BY <2>2, <3>5
      <4>3. QED
        BY <1>1, <4>1, <4>2, BlockInvariant
    <3>8. QED
      BY <3>5, <3>7
  <2>3. QED
    BY <1>2, <2>1, <2>2
<1>6. wire' = Cat(wire, units) /\ Cat(units, cs'.outBuff) = Cat(cs.outBuff, units)
  <2>1. units \o <<>> = units /\ <<>> \o units = units
    BY <1>2, ConcatEmptySeq
  <2>2. Cat(units, <<>>) = Cat(<<>>, units)
    BY <2>1 DEF Cat
  <2>3. wire' = Cat(wire, units)
    BY <1>1 DEF Sent, Cat
  <2>4. QED
    BY <1>3, <1>5, <2>2, <2>3
<1>7. \A q \in Places : LedTo(cs, Written, q) =>
           \E r \in Places : Parses(q, units, r) /\ LedTo(cs', Written', r)
  BY <1>2, <1>5
<1>8. DInv' /\ UnderwayInv'
  BY <1>1, <1>2, <1>3, <1>5, <1>6, <1>7, WriterKeeps
<1>9. QED
  BY <1>5, <1>8 DEF PipeInv

\* Compressing a block keeps the invariant.
LEMMA BlockKeeps ==
  ASSUME NEW raw \in BOOLEAN, WriterOf(CompressBlock(raw))
  PROVE  PipeInv'
<1>1. /\ CInv /\ DInv /\ UnderwayInv /\ ~dcall.busy /\ UNCHANGED dVars /\ CompressBlock(raw)
  BY DEF WriterOf
<1>2. AtStage("load") /\ iend' = iend
  BY <1>1 DEF CompressBlock
<1>3. CTypeInv
  BY <1>1 DEF CInv
<1>4. PICK c, size, taken, b :
         /\ c = IF cs.stable THEN cs ELSE Loaded.ctx
         /\ size = IF cs.stable THEN MIN(iend - ip, cs.block) ELSE c.pos - c.toCompress
         /\ taken = IF cs.stable THEN size ELSE Loaded.n
         /\ b = IF cs.stable THEN Numbers(ip, ip + size)
                ELSE [i \in 1 .. size |-> c.inBuff[c.toCompress + i - 1]]
  OBVIOUS
<1>5. ChunkOf(c, size, taken, b)
  <2>1. CASE cs.stable
    <3>1. ChunkOf(cs, size, size, b)
      BY <1>1, <1>2, <1>4, <2>1, StableChunk
    <3>2. QED
      BY <1>4, <2>1, <3>1
  <2>2. CASE ~cs.stable
    <3>1. PICK n : n = Loaded.n
      OBVIOUS
    <3>2. LoadsTo(c, n) /\ taken = n
      BY <1>1, <1>2, <1>4, <2>2, <3>1, LoadedIs
    <3>3. size = c.pos - c.toCompress /\ b = [i \in 1 .. size |-> c.inBuff[c.toCompress + i - 1]]
      BY <1>4, <2>2
    <3>4. ChunkOf(c, size, n, b)
      BY <1>1, <1>2, <2>2, <3>2, <3>3, RingChunk
    <3>5. QED
      BY <3>2, <3>4
  <2>3. QED
    BY <2>1, <2>2
<1>6. PICK last \in BOOLEAN : last <=> (ccall.op = "end" /\ ip + taken = iend)
  OBVIOUS
<1>7. PICK got : got = IF last THEN CompressEnd(c, b, raw) ELSE CompressContinue(c, b, FALSE, raw)
  OBVIOUS
<1>8. PICK after : after = [(IF cs.stable THEN got.ctx ELSE NextTarget(got.ctx)) EXCEPT !.ended = last]
  OBVIOUS
<1>9. /\ got.bad = FALSE
      /\ Made(got.units, after, size, taken, last)
      /\ ~last => Len(got.units) <= size + BoundMargin
  <2>1. LastOf(last, taken) /\ GotOf(got, c, b, raw, last) /\ AfterOf(after, got, last)
    BY <1>6, <1>7, <1>8 DEF LastOf, GotOf, AfterOf
  <2>2. QED
    BY <1>1, <1>2, <1>5, <2>1, BlockMade
<1>10. /\ ip' = ip + taken
       /\ IF got.bad THEN cs' = c /\ CFail /\ UNCHANGED wire
          ELSE IF ~(ccall.room >= CompressBound(size))
          THEN /\ cs' = [after EXCEPT !.outBuff = got.units, !.stage = "flush"]
               /\ UNCHANGED <<wire, ccall>>
          ELSE /\ wire' = wire \o got.units
               /\ cs' = IF last THEN NoSession(cs.stable) ELSE after
               /\ IF last THEN CReturn(after) ELSE CGoesOn(ccall.room - Len(got.units))
  <2>1. last = (ccall.op = "end" /\ ip + taken = iend)
    BY <1>6
  <2>2. QED
    BY <1>1, <1>4, <1>7, <1>8, <2>1 DEF CompressBlock
<1>11. PICK units : units = got.units
  OBVIOUS
<1>12. Made(units, after, size, taken, last)
  BY <1>9, <1>11
<1>13. CASE ~(ccall.room >= CompressBound(size))
  <2>1. Kept(units, after)
    BY <1>9, <1>10, <1>11, <1>13 DEF Kept
  <2>2. QED
    BY <1>1, <1>2, <1>10, <1>12, <2>1, BlockKept DEF WriterOf
<1>14. CASE ccall.room >= CompressBound(size)
  <2>1. /\ wire' = wire \o units
        /\ cs' = IF last THEN NoSession(cs.stable) ELSE after
        /\ IF last THEN CReturn(after) ELSE CGoesOn(ccall.room - Len(units))
    BY <1>9, <1>10, <1>11, <1>14
  <2>2. ~last => ccall.room - Len(units) \in Nat
    <3>1. ~last => Len(units) <= size + BoundMargin
      BY <1>9, <1>11
    <3>2. units \in Seq(Units) /\ size \in Nat
      BY <1>12 DEF Made
    <3>3. Len(units) \in Nat /\ ccall.room \in Nat /\ BoundMargin \in Nat
      BY <1>3, <3>2, LenProperties, CStreamAssumption DEF CTypeInv
    <3>4. ccall.room >= size + BoundMargin
      BY <1>14 DEF CompressBound
    <3>5. Len(units) <= size + BoundMargin => ccall.room - Len(units) \in Nat
      BY ONLY <3>2, <3>3, <3>4
    <3>6. QED
      BY <3>1, <3>5
  <2>3. last => ccall' = [busy |-> FALSE, op |-> ccall.op, room |-> 0, ret |-> 0]
    <3>1. Len(after.outBuff) = 0
      BY <1>12 DEF Made, After
    <3>2. QED
      BY <2>1, <3>1 DEF CReturn, Idle
  <2>4. Sent(units, after, last)
    BY <2>1, <2>2, <2>3 DEF Sent
  <2>5. QED
    BY <1>1, <1>2, <1>10, <1>12, <2>4, BlockSent DEF WriterOf
<1>15. QED
  BY <1>13, <1>14

\* A step of the writer or of his user.
LEMMA WriterStepKeeps ==
  ASSUME PipeInv, Writer
  PROVE  PipeInv'
<1>1. CInv /\ DInv /\ UnderwayInv /\ ~dcall.busy /\ UNCHANGED dVars
  BY DEF PipeInv, Writer
<1>2. ASSUME NEW raw \in BOOLEAN, CompressRest(raw) PROVE PipeInv'
  BY <1>1, <1>2, RestKeeps DEF WriterOf
<1>3. ASSUME NEW raw \in BOOLEAN, CompressBlock(raw) PROVE PipeInv'
  BY <1>1, <1>3, BlockKeeps DEF WriterOf
<1>4. ASSUME WaitForInput PROVE PipeInv'
  BY <1>1, <1>4, WaitKeeps DEF WriterOf
<1>5. ASSUME FlushOut PROVE PipeInv'
  BY <1>1, <1>5, FlushOutKeeps DEF WriterOf
<1>6. ASSUME NEW op \in {"continue", "flush", "end"}, NEW added \in Feeds, NEW room \in CRooms,
             NEW checksum \in BOOLEAN, CCall(op, added, room, checksum)
      PROVE  PipeInv'
  BY <1>1, <1>6, CallKeeps DEF WriterOf
<1>7. ASSUME NEW size \in SkipSizes, Skippable(size) PROVE PipeInv'
  BY <1>1, <1>7, SkippableKeeps DEF WriterOf
<1>8. QED
  BY <1>2, <1>3, <1>4, <1>5, <1>6, <1>7 DEF Writer, CStep, CUser

-----------------------------------------------------------------------------
(* The reader.  He leaves the writer alone, and what is under way behind him. *)

\* The reader leaves the writer in order.
LEMMA WriterStays ==
  ASSUME CInv, UNCHANGED cVars
  PROVE  CInv' /\ cs' = cs /\ Written' = Written
<1>1. cs' = cs /\ ip' = ip /\ iend' = iend /\ ccall' = ccall
  BY DEF cVars
<1>2. Waiting' = Waiting /\ Written' = Written
  BY <1>1 DEF Waiting, Written
<1>3. CTypeInv' /\ CInitInv' /\ CStageInv' /\ CSizesInv'
  BY <1>1, <1>2 DEF CInv, CTypeInv, CInitInv, CStageInv, CSizesInv
<1>4. CRingInv' /\ CStableInv' /\ CPledgedInv' /\ CReturnInv'
  BY <1>1, <1>2 DEF CInv, CRingInv, CStableInv, CPledgedInv, CReturnInv
<1>5. QED
  BY <1>1, <1>2, <1>3, <1>4 DEF CInv

\* What is under way, from a new place.
LEMMA UnderwayKeeps ==
  ASSUME CInv, UNCHANGED cVars, wire' \in Seq(Lyings), Lying' \in Seq(Units),
         NEW p \in Places, NEW q \in Places, LedTo(cs, Written, q),
         Matches(p)', Parses(p, Underway', q)
  PROVE  UnderwayInv'
<1>1. cs' = cs /\ Written' = Written
  BY WriterStays
<1>2. LedTo(cs, Written, q)'
  BY <1>1
<1>3. QED
  BY <1>2 DEF UnderwayInv

\* The parts of what is under way.
LEMMA UnderwayParts ==
  ASSUME CInv, DInv, UnderwayInv
  PROVE  /\ wire \in Seq(Lyings) /\ Lying \in Seq(Units) /\ Held \in Seq(Units)
         /\ cs.outBuff \in Seq(Units)
         /\ Underway = Cat(Held, Cat(Lying, cs.outBuff))
<1>1. ds.head \in Seq(Units) /\ ds.inBuff \in Seq(Units)
  BY DEF DInv, DTypeInv, DContexts
<1>2. cs.outBuff \in Seq(Units)
  BY DEF CInv, CTypeInv, CSessions
<1>3. Held \in Seq(Units)
  BY <1>1, EmptySeq DEF Held
<1>4. QED
  BY <1>2, <1>3 DEF UnderwayInv, Underway, Cat

\* A step that leaves the ring and the frame as they are.
RingStays == UNCHANGED <<ds.dstage, ds.fcs, ds.outSize, ds.outEnd, ds.window, ds.block,
                         ds.previousDstEnd, ds.dictEnd, ds.prefixStart, ds.virtualStart, dmem, made>>

\* The ring stays in order.
LEMMA RingKeeps ==
  ASSUME DInv, RingStays, (ds.stage = "flush") <=> (ds.stage' = "flush")
  PROVE  DRingInv'
<1>1. DecodingBlocks' => DRoomInv /\ DSegmentsInv /\ DHistoryInv
  BY DEF DInv, DRingInv, DecodingBlocks, RingStays
<1>2. DRoomInv => DRoomInv'
  BY DEF DRoomInv, OneSegment, RingStays
<1>3. DSegmentsInv => DSegmentsInv'
  BY DEF DSegmentsInv, OneSegment, Behind, RingStays
<1>4. DHistoryInv => DHistoryInv'
  BY DEF DHistoryInv, DReach, DAddress, RingStays
<1>5. QED
  BY <1>1, <1>2, <1>3, <1>4 DEF DRingInv

\* A call begins.
LEMMA DCallKeeps ==
  ASSUME PipeInv, UNCHANGED cVars, NEW shown \in Nat, NEW room \in Nat \ {0}, DCall(shown, room)
  PROVE  PipeInv'
<1>0. CInv /\ DInv /\ UnderwayInv /\ DTypeInv /\ DStageInv /\ DFlushInv /\ DCallInv /\ DRingInv
  BY DEF PipeInv, DInv
<1>1. /\ ~dcall.busy /\ shown <= Len(wire) /\ UNCHANGED <<wire, dmem, received, made, failures>>
      /\ dcall.busy' = TRUE /\ dcall.left' = shown /\ dcall.room' = room
      /\ dcall.took' = 0 /\ dcall.put' = 0 /\ dcall.full' = FALSE /\ dcall.ret' = 0
      /\ shown = 0 => dcall.full
  BY DEF DCall, NoCall
<1>2. dcall' \in [busy : BOOLEAN, left : Nat, room : Nat, took : Nat, put : Nat, full : BOOLEAN, ret : Nat]
  BY DEF DCall, NoCall
<1>3. ds \in DContexts
  BY <1>0 DEF DTypeInv
<1>4. CASE ds.stage # "init"
  <2>1. ds' = ds
    BY <1>4 DEF DCall
  <2>2. DTypeInv'
    BY <1>0, <1>1, <1>2, <2>1 DEF DTypeInv
  <2>3. DStageInv'
    BY <1>0, <1>1, <1>4, <2>1 DEF DStageInv, HeaderAll
  <2>4. DFlushInv'
    BY <1>0, <1>1, <2>1 DEF DFlushInv
  <2>5. DCallInv'
    <3>1. /\ dcall.full => ds.idle = 0
          /\ ~dcall.full => ds.stage # "flush"
          /\ ds.stage = "flush" => ds.outStart < ds.outEnd
          /\ ds.stage \notin {"init", "loadHeader"} => ds.idle <= 1
          /\ ds.stage = "loadHeader" => Len(ds.head) = 0 \/ Len(ds.head) < HeaderAll(ds.head)
          /\ ds.idle <= 2
      BY ONLY <1>0, <1>1 DEF DCallInv
    <3>2. HeaderAll(ds.head)' = HeaderAll(ds.head)
      BY <2>1
    <3>3. ~(Len(ds.head) > 0 /\ Len(ds.head) = HeaderAll(ds.head)) \/ ds.stage # "loadHeader"
      <4>1. PICK a \in Nat : a = Len(ds.head)
        BY <1>3 DEF DContexts
      <4>2. HeaderAll(ds.head) \in Int
        BY HeaderSizeAssumption DEF HeaderAll
      <4>3. QED
        BY <1>1, <3>1, <4>1, <4>2
    <3>4. QED
      BY <1>1, <1>4, <2>1, <3>1, <3>2, <3>3 DEF DCallInv
  <2>6. DRingInv'
    BY <1>0, <1>1, <2>1, RingKeeps DEF RingStays
  <2>7. Lying' = Lying /\ Held' = Held /\ Underway' = Underway
    BY <1>1, <2>1, <1>0, WriterStays DEF Lying, Held, Underway
  <2>8. PICK p \in Places, q \in Places : Matches(p) /\ Parses(p, Underway, q) /\ LedTo(cs, Written, q)
    BY <1>0 DEF UnderwayInv
  <2>9. Matches(p)'
    BY <1>1, <2>1, <2>8 DEF Matches, InFrame
  <2>10. UnderwayInv'
    BY <1>0, <1>1, <2>7, <2>8, <2>9, UnderwayParts, UnderwayKeeps
  <2>11. QED
    BY <1>0, <2>2, <2>3, <2>4, <2>5, <2>6, <2>10, WriterStays DEF PipeInv, DInv
<1>5. CASE ds.stage = "init"
  <2>1. /\ ds' = [ds EXCEPT !.stage = "loadHeader", !.head = <<>>, !.inBuff = <<>>,
                            !.outStart = 0, !.outEnd = 0, !.hostage = FALSE]
        /\ ds.dstage = "getHeader" /\ ds.outStart = 0 /\ ds.outEnd = 0 /\ ~ds.hostage
    BY <1>0, <1>5 DEF DCall, DStageInv
  <2>2. /\ ds' \in DContexts /\ ds'.stage = "loadHeader" /\ ds'.head = <<>> /\ ds'.inBuff = <<>>
        /\ ds'.outStart = 0 /\ ds'.outEnd = 0 /\ ds'.hostage = FALSE /\ ds'.dstage = "getHeader"
        /\ ds'.idle = ds.idle /\ ds'.outSize = ds.outSize
    BY <1>3, <2>1, EmptySeq DEF DContexts
  <2>3. DTypeInv'
    BY <1>0, <1>1, <1>2, <2>2 DEF DTypeInv
  <2>4. DStageInv'
    BY <2>2, HeaderSizeAssumption DEF DStageInv, HeaderAll
  <2>5. DFlushInv'
    BY <1>0, <1>1, <2>1, <2>2 DEF DFlushInv
  <2>6. DCallInv'
    BY <1>0, <1>1, <1>3, <1>5, <2>2 DEF DCallInv, DContexts
  <2>7. DRingInv'
    BY <2>2 DEF DRingInv, DecodingBlocks
  <2>8. Lying' = Lying /\ Held' = Held /\ Underway' = Underway
    BY <1>0, <1>1, <1>5, <2>1, <2>2, WriterStays DEF Lying, Held, Underway
  <2>9. PICK p \in Places, q \in Places : Matches(p) /\ Parses(p, Underway, q) /\ LedTo(cs, Written, q)
    BY <1>0 DEF UnderwayInv
  <2>10. Matches(p)'
    BY <1>1, <2>1, <2>2, <2>9 DEF Matches
  <2>11. UnderwayInv'
    BY <1>0, <1>1, <2>8, <2>9, <2>10, UnderwayParts, UnderwayKeeps
  <2>12. QED
    BY <1>0, <2>3, <2>4, <2>5, <2>6, <2>7, <2>11, WriterStays DEF PipeInv, DInv
<1>6. QED
  BY <1>4, <1>5

\* The first n units that lie on the wire are taken.
LEMMA Taken ==
  ASSUME CInv, DInv, UnderwayInv, ~ds.hostage, NEW n \in Nat, n <= Len(wire)
  PROVE  /\ wire \in Seq(Units) /\ Len(wire) \in Nat
         /\ Take(wire, n) \in Seq(Units) /\ Len(Take(wire, n)) = n
         /\ Drop(wire, n) \in Seq(Units) /\ Drop(wire, n) \in Seq(Lyings)
         /\ Len(Drop(wire, n)) = Len(wire) - n
         /\ \A i \in 1 .. n : Take(wire, n)[i] = wire[i]
         /\ Cat(Held, Take(wire, n)) \in Seq(Units)
         /\ Cat(Drop(wire, n), cs.outBuff) \in Seq(Units)
         /\ Underway = Cat(Cat(Held, Take(wire, n)), Cat(Drop(wire, n), cs.outBuff))
<1>1. /\ Lying \in Seq(Units) /\ Held \in Seq(Units) /\ cs.outBuff \in Seq(Units)
      /\ Underway = Cat(Held, Cat(Lying, cs.outBuff)) /\ Lying = wire
  BY UnderwayParts DEF Lying
<1>2. wire \in Seq(Units) /\ Len(wire) \in Nat /\ n \in 0 .. Len(wire)
  BY <1>1, LenProperties
<1>3. /\ Take(wire, n) \in Seq(Units) /\ Drop(wire, n) \in Seq(Units)
      /\ Len(Take(wire, n)) = n /\ Len(Drop(wire, n)) = Len(wire) - n
      /\ \A i \in 1 .. n : Take(wire, n)[i] = wire[i]
      /\ Take(wire, n) \o Drop(wire, n) = wire
  BY <1>2, TakeDrop
<1>4. Drop(wire, n) \in Seq(Lyings)
  <2>1. Units \subseteq Lyings
    BY DEF Lyings
  <2>2. QED
    BY <1>3, <2>1
<1>5. PICK h \in Seq(Units), t \in Seq(Units), d \in Seq(Units), b \in Seq(Units) :
        h = Held /\ t = Take(wire, n) /\ d = Drop(wire, n) /\ b = cs.outBuff
  BY <1>1, <1>3
<1>6. Cat(t, d) = wire
  BY <1>3, <1>5 DEF Cat
<1>7. /\ Cat(h, t) \in Seq(Units) /\ Cat(d, b) \in Seq(Units)
      /\ Cat(Cat(h, t), Cat(d, b)) = Cat(h, Cat(t, Cat(d, b)))
      /\ Cat(Cat(t, d), b) = Cat(t, Cat(d, b))
  <2>1. Cat(d, b) \in Seq(Units)
    BY CatGroups
  <2>2. QED
    BY <2>1, CatGroups
<1>8. QED
  BY <1>1, <1>2, <1>3, <1>4, <1>5, <1>6, <1>7

\* The header is loaded.
LEMMA HeaderLoads ==
  ASSUME NEW head \in Seq(Units), NEW t \in Seq(Units), NEW n \in Nat, Len(t) = n,
         Len(head) < HeaderAll(head), n <= HeaderAll(head) - Len(head)
  PROVE  /\ Len(Cat(head, t)) = Len(head) + n
         /\ Len(Cat(head, t)) <= HeaderAll(Cat(head, t))
         /\ n < HeaderAll(head) - Len(head) =>
              Len(Cat(head, t)) = 0 \/ Len(Cat(head, t)) < HeaderAll(Cat(head, t))
<1>1. /\ Len(Cat(head, t)) = Len(head) + n /\ Cat(head, t) \in Seq(Units) /\ Len(head) \in Nat
      /\ \A i \in 1 .. Len(head) : Cat(head, t)[i] = head[i]
  BY Joined DEF Cat
<1>2. CASE head = <<>>
  <2>1. Len(head) = 0 /\ HeaderAll(head) = 1 /\ n \in 0 .. 1
    BY <1>2 DEF HeaderAll
  <2>2. Len(Cat(head, t)) <= HeaderAll(Cat(head, t))
    <3>1. HeaderAll(Cat(head, t)) \in Nat \ {0}
      BY HeaderSizeAssumption DEF HeaderAll
    <3>2. QED
      BY <1>1, <2>1, <3>1
  <2>3. QED
    BY <1>1, <2>1, <2>2
<1>3. CASE head # <<>>
  <2>1. Len(head) > 0
    BY <1>1, <1>3, EmptySeq
  <2>2. Cat(head, t)[1] = head[1] /\ Cat(head, t) # <<>>
    BY <1>1, <2>1
  <2>3. HeaderAll(Cat(head, t)) = HeaderAll(head)
    BY <1>3, <2>2 DEF HeaderAll
  <2>4. HeaderAll(head) \in Nat
    BY HeaderSizeAssumption DEF HeaderAll
  <2>5. QED
    BY <1>1, <2>3, <2>4
<1>4. QED
  BY <1>2, <1>3

\* Loading some of a header keeps the invariant.
LEMMA LoadHeaderKeeps ==
  ASSUME PipeInv, UNCHANGED cVars, LoadHeader
  PROVE  PipeInv'
<1>0. CInv /\ DInv /\ UnderwayInv /\ DTypeInv /\ DStageInv /\ DFlushInv /\ DCallInv /\ DRingInv
  BY DEF PipeInv, DInv
<1> DEFINE toLoad == HeaderNeeds - Len(ds.head)
           n      == MIN(toLoad, dcall.left)
<1>1. /\ dcall.busy /\ ds.stage = "loadHeader" /\ HeaderNeeds # 0
      /\ ds' = [ds EXCEPT !.head = @ \o Take(wire, n)]
      /\ wire' = Drop(wire, n)
      /\ dcall' = IF n < toLoad THEN Returned(Took(n), toLoad - n + 1) ELSE Took(n)
      /\ UNCHANGED <<dmem, received, made, failures>>
  BY DEF LoadHeader, DAt
<1>2. /\ ds \in DContexts /\ ds.head \in Seq(Units) /\ Len(ds.head) \in Nat /\ dcall.left \in Nat
      /\ dcall.left <= Len(wire) /\ dcall.took \in Nat /\ dcall.room \in Nat /\ dcall.put \in Nat
      /\ dcall \in [busy : BOOLEAN, left : Nat, room : Nat, took : Nat, put : Nat, full : BOOLEAN, ret : Nat]
  BY <1>0, <1>1, LenProperties DEF DTypeInv, DContexts, DCallInv
<1>3. HeaderAll(ds.head) \in Nat /\ HeaderNeeds = HeaderAll(ds.head) /\ Len(ds.head) < HeaderAll(ds.head)
  <2>1. HeaderAll(ds.head) \in Nat
    BY HeaderSizeAssumption DEF HeaderAll
  <2>2. HeaderNeeds = IF Len(ds.head) >= HeaderAll(ds.head) THEN 0 ELSE HeaderAll(ds.head)
    BY DEF HeaderNeeds, HeaderAll
  <2>3. QED
    BY <1>1, <1>2, <2>1, <2>2
<1>4. /\ toLoad \in Nat /\ toLoad = HeaderAll(ds.head) - Len(ds.head) /\ toLoad > 0
      /\ n \in Nat /\ n <= toLoad /\ n <= dcall.left /\ n <= Len(wire)
      /\ n < toLoad => n = dcall.left
  <2>1. toLoad \in Nat /\ toLoad = HeaderAll(ds.head) - Len(ds.head) /\ toLoad > 0
    BY <1>2, <1>3
  <2> HIDE DEF toLoad
  <2>2. /\ n \in Nat /\ n <= toLoad /\ n <= dcall.left
        /\ n < toLoad => n = dcall.left
    BY <1>2, <2>1 DEF MIN
  <2>3. wire \in Seq(Lyings)
    BY <1>0 DEF UnderwayInv
  <2> HIDE DEF n
  <2>4. Len(wire) \in Nat
    BY <2>3, LenProperties
  <2>5. n <= Len(wire)
    BY <1>2, <2>2, <2>4
  <2>6. QED
    BY <2>1, <2>2, <2>5
<1> HIDE DEF toLoad, n
<1>5. ~ds.hostage /\ ds.dstage = "getHeader" /\ Held = ds.head /\ ds.outStart = 0 /\ ds.outEnd = 0
      /\ ds.inBuff = <<>>
  BY <1>0, <1>1 DEF DStageInv, Held
<1> DEFINE t == Take(wire, n)
<1>6. /\ t \in Seq(Units) /\ Len(t) = n /\ wire' \in Seq(Units) /\ wire' \in Seq(Lyings)
      /\ Len(wire') = Len(wire) - n /\ Len(wire) \in Nat
      /\ Cat(ds.head, t) \in Seq(Units)
      /\ Underway = Cat(Cat(ds.head, t), Cat(wire', cs.outBuff))
  BY <1>0, <1>1, <1>4, <1>5, Taken
<1> HIDE DEF t
<1>7. /\ ds' = [ds EXCEPT !.head = Cat(ds.head, t)]
      /\ Len(Cat(ds.head, t)) = Len(ds.head) + n
      /\ Len(Cat(ds.head, t)) <= HeaderAll(Cat(ds.head, t))
      /\ n < toLoad => Len(Cat(ds.head, t)) = 0 \/ Len(Cat(ds.head, t)) < HeaderAll(Cat(ds.head, t))
  BY <1>1, <1>2, <1>3, <1>4, <1>6, HeaderLoads DEF Cat, t
<1>8. /\ ds' \in DContexts /\ ds'.stage = "loadHeader" /\ ds'.head = Cat(ds.head, t) /\ ds'.inBuff = <<>>
      /\ ds'.outStart = 0 /\ ds'.outEnd = 0 /\ ds'.hostage = FALSE /\ ds'.dstage = "getHeader"
      /\ ds'.idle = ds.idle /\ ds'.outSize = ds.outSize
  <2>1. PICK h \in Seq(Units) : h = Cat(ds.head, t)
    BY <1>6
  <2>2. ds' = [ds EXCEPT !.head = h]
    BY <1>7, <2>1
  <2>3. ds' \in DContexts
    BY ONLY <1>2, <2>2, h \in Seq(Units) DEF DContexts
  <2>4. /\ ds'.stage = ds.stage /\ ds'.head = h /\ ds'.inBuff = ds.inBuff
        /\ ds'.outStart = ds.outStart /\ ds'.outEnd = ds.outEnd /\ ds'.hostage = ds.hostage
        /\ ds'.dstage = ds.dstage /\ ds'.idle = ds.idle /\ ds'.outSize = ds.outSize
    BY ONLY <1>2, <2>2, h \in Seq(Units) DEF DContexts
  <2>5. QED
    BY <1>1, <1>5, <2>1, <2>3, <2>4
<1>9. IF n < toLoad
      THEN /\ dcall' \in [busy : BOOLEAN, left : Nat, room : Nat, took : Nat, put : Nat, full : BOOLEAN, ret : Nat]
           /\ dcall'.busy = FALSE /\ dcall'.full = FALSE /\ dcall'.ret > 0
      ELSE /\ dcall' \in [busy : BOOLEAN, left : Nat, room : Nat, took : Nat, put : Nat, full : BOOLEAN, ret : Nat]
           /\ dcall'.busy = TRUE /\ dcall'.left = dcall.left - n /\ dcall'.room = dcall.room
           /\ dcall'.took = dcall.took + n /\ dcall'.put = dcall.put
  <2>0. dcall.left - n \in Nat /\ dcall.took + n \in Nat
    BY <1>2, <1>4
  <2>1. CASE n < toLoad
    <3>1. dcall.room # 0
      BY <1>0, <1>1 DEF DCallInv
    <3>2. toLoad - n + 1 \in Nat /\ toLoad - n + 1 > 0
      BY <1>4, <2>1
    <3>3. dcall' = [NoCall EXCEPT !.full = (dcall.room = 0), !.ret = toLoad - n + 1]
      BY <1>1, <1>2, <2>1 DEF Returned, Took
    <3>4. QED
      BY <2>1, <3>1, <3>2, <3>3 DEF NoCall
  <2>2. CASE ~(n < toLoad)
    <3>1. dcall' = [dcall EXCEPT !.left = @ - n, !.took = @ + n]
      BY <1>1, <2>2 DEF Took
    <3>2. QED
      BY <1>1, <1>2, <2>0, <2>2, <3>1
  <2>3. QED
    BY <2>1, <2>2
<1>10. DTypeInv'
  BY <1>0, <1>1, <1>8, <1>9 DEF DTypeInv
<1>11. DStageInv'
  BY <1>7, <1>8 DEF DStageInv
<1>12. DFlushInv'
  BY <1>0, <1>1, <1>5, <1>8 DEF DFlushInv
<1>13. DCallInv'
  <2>1. ds'.idle <= 2
    BY <1>0, <1>8 DEF DCallInv
  <2>2. CASE n < toLoad
    BY <1>7, <1>8, <1>9, <2>1, <2>2 DEF DCallInv
  <2>3. CASE ~(n < toLoad)
    <3>1. dcall'.left <= Len(wire')
      BY <1>2, <1>4, <1>6, <1>9, <2>3
    <3>2. dcall'.took > 0
      BY <1>2, <1>4, <1>9, <2>3
    <3>3. dcall'.put = 0 /\ dcall'.room # 0 /\ dcall'.busy = TRUE
      BY <1>0, <1>1, <1>9, <2>3 DEF DCallInv
    <3>4. dcall'.took \in Nat /\ ~(dcall'.took + dcall'.put = 0)
      BY <1>9, <2>3, <3>2, <3>3
    <3>5. QED
      BY <1>8, <2>1, <3>1, <3>2, <3>3, <3>4 DEF DCallInv
  <2>4. QED
    BY <2>2, <2>3
<1>14. DRingInv'
  BY <1>8 DEF DRingInv, DecodingBlocks
<1>15. Lying' = wire' /\ Held' = Cat(ds.head, t) /\ Underway' = Underway
  <2>1. Lying' = wire' /\ Held' = Cat(ds.head, t)
    BY <1>8 DEF Lying, Held
  <2>2. cs' = cs
    BY <1>0, WriterStays
  <2>3. Underway' = Cat(Held', Cat(Lying', cs'.outBuff))
    BY DEF Underway, Cat
  <2>4. QED
    BY <1>6, <2>1, <2>2, <2>3
<1>16. PICK p \in Places, q \in Places : Matches(p) /\ Parses(p, Underway, q) /\ LedTo(cs, Written, q)
  BY <1>0 DEF UnderwayInv
<1>17. Matches(p)'
  BY <1>1, <1>5, <1>8, <1>16 DEF Matches
<1>18. UnderwayInv'
  BY <1>0, <1>6, <1>15, <1>16, <1>17, UnderwayKeeps
<1>19. QED
  BY <1>0, <1>10, <1>11, <1>12, <1>13, <1>14, <1>18, WriterStays DEF PipeInv, DInv

\* Nothing in front.
LEMMA NothingFirst ==
  ASSUME NEW S, NEW s \in Seq(S)
  PROVE  Cat(<<>>, s) = s
  BY ConcatEmptySeq DEF Cat

\* Between two frames.
AtRest(d) ==
  /\ d \in DContexts
  /\ d.stage = "init" /\ d.dstage = "getHeader" /\ d.head = <<>> /\ d.inBuff = <<>>
  /\ d.outStart = 0 /\ d.outEnd = 0 /\ d.hostage = FALSE

\* A new context is at rest.
LEMMA NoFrameRests ==
  AtRest(NoFrame) /\ NoFrame.idle = 0
<1>1. <<>> \in Seq(Units)
  BY EmptySeq
<1>2. NoFrame \in DContexts
  BY <1>1 DEF NoFrame, DContexts, NoAddress
<1>3. QED
  BY <1>2 DEF NoFrame, AtRest

\* A context that keeps nothing but its buffers is at rest.
LEMMA BuffersRest ==
  ASSUME NEW d, d.inSize \in Nat, d.outSize \in Nat, d.oversized \in Nat, d.idle \in Nat
  PROVE  AtRest(KeepBuffers(d)) /\ KeepBuffers(d).idle = d.idle
<1>1. PICK f : f = NoFrame
  OBVIOUS
<1>2. AtRest(f)
  BY <1>1, NoFrameRests
<1>3. KeepBuffers(d) = [f EXCEPT !.inSize = d.inSize, !.outSize = d.outSize, !.oversized = d.oversized,
                                 !.idle = d.idle]
  BY <1>1 DEF KeepBuffers
<1>4. PICK a \in Nat, b \in Nat, c \in Nat, i \in Nat :
        a = d.inSize /\ b = d.outSize /\ c = d.oversized /\ i = d.idle
  OBVIOUS
<1>5. PICK g : g = [f EXCEPT !.inSize = a, !.outSize = b, !.oversized = c, !.idle = i]
  OBVIOUS
<1>6. f \in DContexts
  BY <1>2 DEF AtRest
<1>7. g \in DContexts
  BY ONLY <1>5, <1>6, a \in Nat, b \in Nat, c \in Nat, i \in Nat DEF DContexts
<1>8. /\ g.stage = f.stage /\ g.dstage = f.dstage /\ g.head = f.head /\ g.inBuff = f.inBuff
      /\ g.outStart = f.outStart /\ g.outEnd = f.outEnd /\ g.hostage = f.hostage /\ g.idle = i
  BY ONLY <1>5, <1>6 DEF DContexts
<1>9. AtRest(g)
  BY <1>2, <1>7, <1>8 DEF AtRest
<1>10. QED
  BY <1>3, <1>4, <1>5, <1>8, <1>9

DCalls == [busy : BOOLEAN, left : Nat, room : Nat, took : Nat, put : Nat, full : BOOLEAN, ret : Nat]

\* A call that ends between two frames.
LEMMA ReaderRests ==
  ASSUME CInv, UNCHANGED cVars, AtRest(ds'), ds'.idle <= 2,
         dcall' \in DCalls, ~dcall'.busy, dcall'.full => ds'.idle = 0,
         made' \in [all : Nat, before : Nat], failures' \in Nat,
         received' = Numbers(0, Len(received')), Len(received') = made'.all,
         wire' \in Seq(Units),
         NEW r \in Places, r.at = "between", r.n = made'.all,
         NEW q \in Places, LedTo(cs, Written, q), Parses(r, Cat(wire', cs.outBuff), q)
  PROVE  PipeInv'
<1>1. /\ ds' \in DContexts /\ ds'.stage = "init" /\ ds'.dstage = "getHeader" /\ ds'.head = <<>>
      /\ ds'.inBuff = <<>> /\ ds'.outStart = 0 /\ ds'.outEnd = 0 /\ ds'.hostage = FALSE
      /\ ds'.outSize \in Nat
  BY DEF AtRest, DContexts
<1>2. DTypeInv'
  BY <1>1 DEF DTypeInv, DCalls
<1>3. DStageInv'
  BY <1>1 DEF DStageInv
<1>4. DFlushInv'
  <2>1. made'.all \in Nat
    OBVIOUS
  <2>2. made'.all + (0 - 0) = made'.all
    BY <2>1
  <2>3. QED
    BY <1>1, <2>1, <2>2 DEF DFlushInv
<1>5. DCallInv'
  BY <1>1 DEF DCallInv
<1>6. DRingInv'
  BY <1>1 DEF DRingInv, DecodingBlocks
<1>7. cs' = cs /\ cs.outBuff \in Seq(Units)
  BY WriterStays DEF CInv, CTypeInv, CSessions
<1>8. Lying' = wire' /\ Held' = <<>>
  BY <1>1 DEF Lying, Held
<1>9. Underway' = Cat(<<>>, Cat(wire', cs.outBuff))
  BY <1>7, <1>8 DEF Underway, Cat
<1>10. Underway' = Cat(wire', cs.outBuff)
  <2>1. PICK s : s = Cat(wire', cs.outBuff)
    OBVIOUS
  <2>2. s \in Seq(Units)
    BY <2>1 DEF Parses
  <2>3. Cat(<<>>, s) = s
    BY <2>2, NothingFirst
  <2>4. QED
    BY <1>9, <2>1, <2>3
<1>11. Matches(r)'
  BY <1>1 DEF Matches
<1>12. wire' \in Seq(Lyings)
  <2>1. Units \subseteq Lyings
    BY DEF Lyings
  <2>2. QED
    BY <2>1
<1>13. UnderwayInv'
  BY <1>8, <1>10, <1>11, <1>12, UnderwayKeeps
<1>14. QED
  BY <1>2, <1>3, <1>4, <1>5, <1>6, <1>13, WriterStays DEF PipeInv, DInv

\* ZSTD_DCtx_updateOversizedDuration counts.
LEMMA OversizedCounts ==
  ASSUME DTypeInv
  PROVE  Begun.oversized \in Nat
<1>1. ds \in DContexts /\ ds.oversized \in Nat /\ DMaxDuration \in Nat
  BY DStreamAssumption DEF DTypeInv, DContexts
<1>2. Begun.oversized = IF ds.inSize + ds.outSize >= (Wanted.in + Wanted.out) * DTooLargeFactor
                        THEN MIN(ds.oversized + 1, DMaxDuration) ELSE 0
  BY <1>1 DEF Begun, DContexts
<1>3. MIN(ds.oversized + 1, DMaxDuration) \in Nat
  BY <1>1 DEF MIN
<1>4. QED
  BY <1>2, <1>3

\* When the buffers of a frame cannot be had, the frame is shown again: the invariant is kept.
LEMMA NoMemoryKeeps ==
  ASSUME PipeInv, UNCHANGED cVars, NoMemory
  PROVE  PipeInv'
<1>0. CInv /\ DInv /\ UnderwayInv /\ DTypeInv /\ DStageInv /\ DFlushInv
  BY DEF PipeInv, DInv
<1>1. /\ ds.stage = "loadHeader" /\ ds' = [NoFrame EXCEPT !.oversized = Begun.oversized]
      /\ wire' = Cat(ds.head, wire) /\ dcall' = NoCall /\ failures' = failures + 1
      /\ UNCHANGED <<received, made>>
  BY DEF NoMemory, HeaderDone, DAt, Cat
<1>2. Begun.oversized \in Nat
  BY <1>0, OversizedCounts
<1>3. AtRest(ds') /\ ds'.idle = 0
  <2>1. PICK o \in Nat : o = Begun.oversized
    BY <1>2
  <2>2. PICK f : f = NoFrame
    OBVIOUS
  <2>3. ds' = [f EXCEPT !.oversized = o] /\ AtRest(f) /\ f.idle = 0
    BY <1>1, <2>1, <2>2, NoFrameRests
  <2>4. QED
    BY <2>3 DEF AtRest, DContexts
<1>4. ~ds.hostage /\ Held = ds.head /\ Lying = wire /\ ds.outStart = 0 /\ ds.outEnd = 0
  BY <1>0, <1>1 DEF DStageInv, Held, Lying
<1>5. /\ wire \in Seq(Units) /\ ds.head \in Seq(Units) /\ cs.outBuff \in Seq(Units)
      /\ Underway = Cat(ds.head, Cat(wire, cs.outBuff))
  BY <1>0, <1>4, UnderwayParts
<1>6. wire' \in Seq(Units) /\ Underway = Cat(wire', cs.outBuff)
  <2>1. PICK h \in Seq(Units), w \in Seq(Units), b \in Seq(Units) :
          h = ds.head /\ w = wire /\ b = cs.outBuff
    BY <1>5
  <2>2. Cat(h, w) \in Seq(Units) /\ Cat(Cat(h, w), b) = Cat(h, Cat(w, b))
    BY CatGroups
  <2>3. QED
    BY <1>1, <1>5, <2>1, <2>2
<1>7. PICK p \in Places, q \in Places : Matches(p) /\ Parses(p, Underway, q) /\ LedTo(cs, Written, q)
  BY <1>0 DEF UnderwayInv
<1>8. p.at = "between" /\ p.n = made.all
  BY <1>0, <1>1, <1>7 DEF Matches, DStageInv
<1>9. received' = Numbers(0, Len(received')) /\ Len(received') = made'.all
  <2>1. made.all \in Nat /\ received = Numbers(0, Len(received)) /\ Len(received) + (0 - 0) = made.all
    BY <1>0, <1>4 DEF DFlushInv, DTypeInv
  <2>2. Len(received) = made.all
    <3>1. Len(received) \in Nat
      BY <2>1
    <3>2. QED
      BY <2>1, <3>1
  <2>3. QED
    BY <1>1, <2>1, <2>2
<1>10. /\ dcall' \in DCalls /\ ~dcall'.busy /\ dcall'.full = FALSE
  BY <1>1 DEF NoCall, DCalls
<1>11. made' \in [all : Nat, before : Nat] /\ failures' \in Nat
  BY <1>0, <1>1 DEF DTypeInv
<1>12. QED
  BY <1>0, <1>1, <1>3, <1>6, <1>7, <1>8, <1>9, <1>10, <1>11, ReaderRests

-----------------------------------------------------------------------------
(* A header that is complete. *)

\* What follows between two frames is a header.
LEMMA FirstKind ==
  ASSUME NEW p, NEW s, NEW q, Parses(p, s, q), p.at = "between", Len(s) > 0
  PROVE  s[1].k \in {"head", "skiphead"}
<1>1. PICK run : Runs(run, s, p, q)
  BY DEF Parses
<1>2. s \in Seq(Units) /\ Len(s) \in Nat
  BY LenProperties DEF Parses
<1>3. Moves(run[1 - 1], s[1], run[1])
  BY <1>1, <1>2 DEF Runs
<1>4. Moves(p, s[1], run[1])
  BY <1>1, <1>3 DEF Runs
<1>5. MovesOff(p, s[1], run[1])
  BY <1>4 DEF Moves, MovesHead, MovesBlock, MovesBody, MovesSum, MovesSkip
<1>6. QED
  BY <1>5 DEF MovesOff

\* Where a header leads.
HeaderLeadsTo(p, u, r) ==
  /\ r.n = p.n
  /\ IF u.k = "skiphead" THEN MovesInSkip(0, u.size, r)
     ELSE /\ r.at = "frame" /\ r.left = 0 /\ r.start = p.n
          /\ r.fcs = u.fcs /\ r.sum = u.checksum /\ r.window = u.window

\* A whole header says what follows.
LEMMA HeaderRead ==
  ASSUME NEW p, p.at = "between", NEW h \in Seq(Units), Len(h) = HeaderAll(h),
         NEW s \in Seq(Units), NEW q, Parses(p, Cat(h, s), q)
  PROVE  /\ h[1] \in Units /\ h[1].k \in {"head", "skiphead"}
         /\ \E r \in Places : Parses(r, s, q) /\ HeaderLeadsTo(p, h[1], r)
<1>1. PICK r \in Places : Parses(p, h, r) /\ Parses(r, s, q)
  BY PassPart DEF Cat
<1>2. Len(h) \in Nat /\ h # <<>> /\ Len(h) > 0
  <2>1. Len(h) \in Nat /\ Len(<<>>) = 0
    BY LenProperties, EmptySeq
  <2>2. h # <<>>
    <3>1. SUFFICES ASSUME h = <<>> PROVE FALSE
      OBVIOUS
    <3>2. HeaderAll(h) = 1 /\ Len(h) = 0
      BY <2>1, <3>1 DEF HeaderAll
    <3>3. QED
      BY <3>2
  <2>3. HeaderAll(h) > 0
    BY HeaderSizeAssumption DEF HeaderAll
  <2>4. QED
    BY <2>1, <2>2, <2>3
<1>3. h[1].k \in {"head", "skiphead"} /\ h[1] \in Units
  BY <1>1, <1>2, FirstKind, ElementOfSeq
<1>4. CASE h[1].k = "head"
  <2>1. Len(h) = HeaderSize
    BY <1>2, <1>4 DEF HeaderAll
  <2>2. HeaderSize \in Nat /\ HeaderSize - Len(h) = 0
    BY <2>1, HeaderSizeAssumption
  <2>3. /\ r.at = "frame" /\ r.left = HeaderSize - Len(h) /\ r.n = p.n /\ r.start = p.n
        /\ r.fcs = h[1].fcs /\ r.sum = h[1].checksum /\ r.window = h[1].window
    BY <1>1, <1>2, <1>4, <2>1, <2>2, HeadPassed
  <2>4. HeaderLeadsTo(p, h[1], r)
    BY <1>4, <2>2, <2>3 DEF HeaderLeadsTo
  <2>5. QED
    BY <1>1, <1>3, <2>4
<1>5. CASE h[1].k = "skiphead"
  <2>1. Len(h) = SkipHeaderSize
    BY <1>2, <1>5 DEF HeaderAll
  <2>2. SkipHeaderSize \in Nat /\ SkipHeaderSize - Len(h) = 0
    BY <2>1, HeaderSizeAssumption
  <2>3. r.n = p.n /\ MovesInSkip(SkipHeaderSize - Len(h), h[1].size, r)
    BY <1>1, <1>2, <1>5, <2>1, <2>2, SkipHeadPassed
  <2>4. HeaderLeadsTo(p, h[1], r)
    BY <1>5, <2>2, <2>3 DEF HeaderLeadsTo
  <2>5. QED
    BY <1>1, <1>3, <2>4
<1>6. QED
  BY <1>3, <1>4, <1>5

\* The fields of a header of a frame.
LEMMA HeaderSaysWhat ==
  ASSUME NEW u \in Units, u.k = "head"
  PROVE  u.fcs \in Nat \cup {Unknown} /\ u.checksum \in BOOLEAN /\ u.window \in Nat
  BY DEF Units

\* The field of a header of a skippable frame.
LEMMA SkipHeaderSaysWhat ==
  ASSUME NEW u \in Units, u.k = "skiphead"
  PROVE  u.size \in Nat
  BY DEF Units

\* The beginning of a sequence that goes on.
LEMMA TakeOfCat ==
  ASSUME NEW S, NEW w \in Seq(S), NEW b \in Seq(S), NEW n \in Nat, n <= Len(w)
  PROVE  Take(Cat(w, b), n) = Take(w, n) /\ Drop(Cat(w, b), n) = Cat(Drop(w, n), b)
<1> DEFINE t == Take(w, n)
           d == Drop(w, n)
           s == Cat(w, b)
<1>1. Len(w) \in Nat /\ Len(b) \in Nat /\ n \in 0 .. Len(w)
  BY LenProperties
<1>2. /\ t \in Seq(S) /\ Len(t) = n /\ d \in Seq(S) /\ Len(d) = Len(w) - n
      /\ \A i \in 1 .. n : t[i] = w[i]
      /\ \A i \in 1 .. Len(w) - n : d[i] = w[n + i]
  BY <1>1, TakeDrop
<1>3. /\ s \in Seq(S) /\ Len(s) = Len(w) + Len(b)
      /\ \A i \in 1 .. Len(w) : s[i] = w[i]
      /\ \A i \in 1 .. Len(b) : s[Len(w) + i] = b[i]
  BY Joined DEF Cat
<1>4. n \in 0 .. Len(s)
  BY <1>1, <1>3
<1> DEFINE ts == Take(s, n)
           ds1 == Drop(s, n)
           db == Cat(d, b)
<1> HIDE DEF s, t, d
<1>5. /\ ts \in Seq(S) /\ Len(ts) = n /\ ds1 \in Seq(S) /\ Len(ds1) = Len(s) - n
      /\ \A i \in 1 .. n : ts[i] = s[i]
      /\ \A i \in 1 .. Len(s) - n : ds1[i] = s[n + i]
  BY <1>3, <1>4, TakeDrop
<1>6. /\ db \in Seq(S) /\ Len(db) = Len(d) + Len(b)
      /\ \A i \in 1 .. Len(d) : db[i] = d[i]
      /\ \A i \in 1 .. Len(b) : db[Len(d) + i] = b[i]
  <2>1. d \in Seq(S) /\ b \in Seq(S)
    BY <1>2
  <2>2. QED
    BY ONLY <2>1, Joined DEF Cat
<1> HIDE DEF ts, ds1, db
<1>7. ts = t
  <2>1. ASSUME NEW i \in 1 .. Len(ts) PROVE ts[i] = t[i]
    <3>1. i \in 1 .. n /\ i \in 1 .. Len(w)
      BY <1>1, <1>5
    <3>2. ts[i] = s[i] /\ s[i] = w[i] /\ t[i] = w[i]
      BY <3>1, <1>2, <1>3, <1>5
    <3>3. QED
      BY <3>2
  <2>2. QED
    BY <1>2, <1>5, <2>1, SeqEqual
<1>8. ds1 = db
  <2>1. Len(ds1) = Len(db)
    BY <1>1, <1>2, <1>3, <1>5, <1>6
  <2>2. ASSUME NEW i \in 1 .. Len(ds1) PROVE ds1[i] = db[i]
    <3>1. i \in 1 .. Len(s) - n /\ ds1[i] = s[n + i] /\ i \in 1 .. Len(d) + Len(b)
      BY <1>5, <1>6, <2>1
    <3>2. CASE i <= Len(d)
      <4>1. n + i \in 1 .. Len(w) /\ i \in 1 .. Len(d) /\ i \in 1 .. Len(w) - n
        BY <1>1, <1>2, <3>1, <3>2
      <4>2. s[n + i] = w[n + i] /\ db[i] = d[i] /\ d[i] = w[n + i]
        BY <4>1, <1>2, <1>3, <1>6
      <4>3. QED
        BY <3>1, <4>2
    <3>3. CASE i > Len(d)
      <4>0. i - Len(d) \in 1 .. Len(b)
        BY <1>1, <1>2, <3>1, <3>3
      <4>1. PICK j \in 1 .. Len(b) : j = i - Len(d)
        BY <4>0
      <4>2. n + i = Len(w) + j /\ i = Len(d) + j
        BY <4>1, <1>1, <1>2
      <4>3. s[n + i] = b[j] /\ db[i] = b[j]
        BY <4>1, <4>2, <1>3, <1>6
      <4>4. QED
        BY <3>1, <4>3
    <3>4. i <= Len(d) \/ i > Len(d)
      BY <1>1, <1>2, <3>1
    <3>5. QED
      BY <3>2, <3>3, <3>4
  <2>3. QED
    BY <1>5, <1>6, <2>1, <2>2, SeqEqual
<1>9. QED
  BY <1>7, <1>8 DEF t, d, s, ts, ds1, db

\* The header that the reader holds, and what is behind it.
LEMMA HeaderHeld ==
  ASSUME PipeInv, ds.stage = "loadHeader", HeaderNeeds = 0
  PROVE  /\ ds.head[1] \in Units /\ ds.head[1].k \in {"head", "skiphead"}
         /\ Len(ds.head) = HeaderAll(ds.head)
         /\ \E p \in Places, q \in Places, r \in Places :
              /\ Matches(p) /\ p.at = "between" /\ p.n = made.all
              /\ LedTo(cs, Written, q)
              /\ HeaderLeadsTo(p, ds.head[1], r) /\ Parses(r, Cat(wire, cs.outBuff), q)
<1>0. CInv /\ DInv /\ UnderwayInv /\ DTypeInv /\ DStageInv
  BY DEF PipeInv, DInv
<1>1. ds.head \in Seq(Units) /\ Len(ds.head) \in Nat
  BY <1>0, LenProperties DEF DTypeInv, DContexts
<1>2. Len(ds.head) = HeaderAll(ds.head)
  <2>1. HeaderAll(ds.head) \in Nat \ {0}
    BY HeaderSizeAssumption DEF HeaderAll
  <2>2. HeaderNeeds = IF Len(ds.head) >= HeaderAll(ds.head) THEN 0 ELSE HeaderAll(ds.head)
    BY DEF HeaderNeeds, HeaderAll
  <2>3. Len(ds.head) <= HeaderAll(ds.head)
    BY <1>0 DEF DStageInv
  <2>4. QED
    BY <1>1, <2>1, <2>2, <2>3
<1>3. ~ds.hostage /\ Held = ds.head /\ Lying = wire /\ ds.dstage = "getHeader"
  BY <1>0 DEF DStageInv, Held, Lying
<1>4. /\ wire \in Seq(Units) /\ cs.outBuff \in Seq(Units)
      /\ Underway = Cat(ds.head, Cat(wire, cs.outBuff))
  BY <1>0, <1>3, UnderwayParts
<1>5. PICK p \in Places, q \in Places : Matches(p) /\ Parses(p, Underway, q) /\ LedTo(cs, Written, q)
  BY <1>0 DEF UnderwayInv
<1>6. p.at = "between" /\ p.n = made.all
  BY <1>3, <1>5 DEF Matches
<1>7. PICK s \in Seq(Units) : s = Cat(wire, cs.outBuff)
  BY <1>4, CatGroups
<1>8. Parses(p, Cat(ds.head, s), q)
  BY <1>4, <1>5, <1>7
<1>9. /\ ds.head[1] \in Units /\ ds.head[1].k \in {"head", "skiphead"}
      /\ \E r \in Places : Parses(r, s, q) /\ HeaderLeadsTo(p, ds.head[1], r)
  BY <1>1, <1>2, <1>6, <1>8, HeaderRead
<1>10. QED
  BY <1>2, <1>5, <1>6, <1>7, <1>9

\* All the bytes up to a, and from a to b, are all the bytes up to b.
LEMMA NumbersGoOn ==
  ASSUME NEW a \in Nat, NEW b \in Nat, a <= b
  PROVE  Numbers(0, a) \o Numbers(a, b) = Numbers(0, b) /\ Len(Numbers(0, b)) = b
<1>1. PICK o \in Nat : o = 0
  OBVIOUS
<1>2. o <= a /\ o <= b
  BY <1>1
<1>3. Numbers(o, a) \o Numbers(a, b) = Numbers(o, b)
  BY <1>2, NumbersJoined
<1>4. Len(Numbers(o, b)) = b - o
  BY <1>2, NumbersAre
<1>5. b - o = b
  BY <1>1
<1>6. QED
  BY <1>1, <1>3, <1>4, <1>5

\* A whole frame is decoded in one pass.
LEMMA SinglePassKeeps ==
  ASSUME PipeInv, UNCHANGED cVars, SinglePass
  PROVE  PipeInv' /\ Len(received) <= Len(received')
<1>0. CInv /\ DInv /\ UnderwayInv /\ DTypeInv /\ DStageInv /\ DFlushInv /\ DCallInv
  BY DEF PipeInv, DInv
<1> DEFINE n     == CHOOSE i \in 1 .. dcall.left : EndsAt(i) /\ \A j \in 1 .. i - 1 : ~EndsAt(j)
           bytes == Content(Take(wire, n))
<1>1. /\ ds.stage = "loadHeader" /\ HeaderNeeds = 0 /\ dcall.busy
      /\ ds.head[1].k # "skiphead" /\ dcall.took = HeaderSize
      /\ \E i \in 1 .. dcall.left : EndsAt(i)
      /\ received' = received \o bytes
      /\ made' = [all |-> made.all + Len(bytes), before |-> made.all + Len(bytes)]
      /\ DReturn([ds EXCEPT !.expected = 0, !.stage = "init"], Put(Took(n), Len(bytes)), Drop(wire, n))
      /\ failures' = 0
  BY DEF SinglePass, HeaderDone, DAt, SinglePassPossible, IsSkip
<1>2. /\ n \in 1 .. dcall.left /\ EndsAt(n) /\ \A j \in 1 .. n - 1 : ~EndsAt(j)
  <2> DEFINE S == {i \in 1 .. dcall.left : EndsAt(i)}
  <2>0. dcall.left \in Nat
    BY <1>0 DEF DTypeInv
  <2>1. S \in SUBSET Nat /\ S # {}
    BY <1>1
  <2>2. PICK m \in S : \A k \in S : m <= k
    <3> HIDE DEF S
    <3>1. QED
      BY <2>1, LeastOf
  <2>3. ASSUME NEW j \in 1 .. m - 1 PROVE ~EndsAt(j)
    <3>1. m \in Nat /\ j < m /\ j \in Nat /\ j \in 1 .. dcall.left
      BY <2>0, <2>2
    <3>2. j \in S => m <= j
      BY <2>2
    <3>3. j \notin S
      <4> HIDE DEF S
      <4>1. QED
        BY <3>1, <3>2
    <3>4. QED
      BY <3>1, <3>3
  <2>4. m \in 1 .. dcall.left /\ EndsAt(m) /\ \A j \in 1 .. m - 1 : ~EndsAt(j)
    BY <2>2, <2>3
  <2>5. QED
    BY <2>4, Zenon
<1> HIDE DEF n
<1>3. /\ ds \in DContexts /\ dcall \in DCalls /\ dcall.left \in Nat /\ dcall.left <= Len(wire)
      /\ made.all \in Nat /\ dcall.took \in Nat /\ dcall.put \in Nat /\ dcall.room \in Nat
  BY <1>0, <1>1 DEF DTypeInv, DCallInv, DCalls
<1>4. ~ds.hostage /\ ds.outStart = 0 /\ ds.outEnd = 0 /\ ds.dstage = "getHeader"
  BY <1>0, <1>1 DEF DStageInv
<1>5. n \in Nat /\ n > 0 /\ n <= Len(wire)
  <2>1. Len(wire) \in Nat
    BY <1>0, LenProperties DEF UnderwayInv
  <2>2. QED
    BY <1>2, <1>3, <2>1
<1>6. /\ wire \in Seq(Units) /\ Len(wire) \in Nat /\ Drop(wire, n) \in Seq(Units)
      /\ Len(Drop(wire, n)) = Len(wire) - n
  BY <1>0, <1>4, <1>5, Taken
<1>7. PICK p \in Places, q \in Places, r \in Places :
        /\ p.at = "between" /\ p.n = made.all /\ LedTo(cs, Written, q)
        /\ HeaderLeadsTo(p, ds.head[1], r) /\ Parses(r, Cat(wire, cs.outBuff), q)
  BY <1>1, HeaderHeld
<1>8. /\ r.n = made.all /\ r.at = "frame" /\ r.left = 0 /\ r.sum = ds.head[1].checksum
  BY <1>1, <1>7 DEF HeaderLeadsTo
<1>9. PICK s : s = Cat(wire, cs.outBuff)
  OBVIOUS
<1>10. /\ s \in Seq(Units) /\ Len(s) >= Len(wire) /\ Len(s) \in Nat
       /\ \A i \in 1 .. Len(wire) : s[i] = wire[i]
       /\ Take(s, n) = Take(wire, n) /\ Drop(s, n) = Cat(Drop(wire, n), cs.outBuff)
  <2>1. cs.outBuff \in Seq(Units)
    BY <1>0, UnderwayParts
  <2>2. s \in Seq(Units) /\ Len(s) = Len(wire) + Len(cs.outBuff) /\ Len(cs.outBuff) \in Nat
        /\ \A i \in 1 .. Len(wire) : s[i] = wire[i]
    BY ONLY <1>6, <1>9, <2>1, Joined DEF Cat
  <2>3. Take(s, n) = Take(wire, n) /\ Drop(s, n) = Cat(Drop(wire, n), cs.outBuff)
    BY <1>5, <1>6, <1>9, <2>1, TakeOfCat
  <2>4. QED
    BY <1>6, <2>2, <2>3
<1>11. ASSUME NEW i \in 1 .. Len(wire) PROVE EndsAt(i) <=> FrameEndsAt(s, i, r.sum)
  <2>1. \A j \in 1 .. i : s[j] = wire[j]
    BY <1>6, <1>10
  <2>2. QED
    BY <2>1, <1>8 DEF EndsAt, FrameEndsAt, LastBlock, EndBehind
<1>12. /\ n \in 1 .. Len(s) /\ FrameEndsAt(s, n, r.sum)
       /\ \A i \in 1 .. n - 1 : ~FrameEndsAt(s, i, r.sum)
  <2>1. n \in 1 .. Len(wire) /\ \A i \in 1 .. n - 1 : i \in 1 .. Len(wire)
    BY <1>5, <1>6
  <2>2. QED
    BY <1>2, <1>5, <1>6, <1>10, <1>11, <2>1
<1>13. PICK z \in Places : /\ Parses(z, Drop(s, n), q) /\ z.at = "between"
                           /\ Content(Take(s, n)) = Numbers(r.n, z.n) /\ r.n <= z.n
  <2>1. Parses(r, s, q)
    BY <1>7, <1>9
  <2>2. QED
    BY <1>8, <1>10, <1>12, <2>1, OnePass
<1>14. z.n \in Nat /\ made.all <= z.n /\ bytes = Numbers(made.all, z.n) /\ Len(bytes) = z.n - made.all
       /\ bytes \in Seq(Nat)
  <2>1. z.n \in Nat /\ made.all <= z.n /\ bytes = Numbers(made.all, z.n)
    BY <1>8, <1>10, <1>13, PlaceFields
  <2> HIDE DEF bytes
  <2>2. QED
    BY <2>1, <1>3, NumbersAre
<1> HIDE DEF bytes
<1>15. made'.all = z.n /\ made' \in [all : Nat, before : Nat]
  BY <1>1, <1>3, <1>14
<1>16. received' = Numbers(0, Len(received')) /\ Len(received') = made'.all
  <2>1. received = Numbers(0, Len(received)) /\ Len(received) + (0 - 0) = made.all
    BY <1>0, <1>4 DEF DFlushInv
  <2>2. Len(received) \in Nat
    BY <1>3, <2>1
  <2>3. Len(received) = made.all
    BY <1>3, <2>1, <2>2
  <2>4. received = Numbers(0, made.all)
    BY <2>1, <2>3
  <2>5. received' = Numbers(0, z.n)
    <3>1. Numbers(0, made.all) \o Numbers(made.all, z.n) = Numbers(0, z.n)
      BY <1>3, <1>14, NumbersGoOn
    <3>2. QED
      BY <1>1, <1>14, <2>4, <3>1
  <2>6. Len(Numbers(0, z.n)) = z.n
    BY <1>3, <1>14, NumbersGoOn
  <2>7. QED
    BY <1>15, <2>5, <2>6
<1> DEFINE d == [ds EXCEPT !.expected = 0, !.stage = "init"]
           c == Put(Took(n), Len(bytes))
<1>17. /\ c.took \in Nat /\ c.put \in Nat /\ c.took + c.put # 0
  <2>1. /\ c.took = dcall.took + n /\ c.put = dcall.put + Len(bytes)
    BY <1>3 DEF Took, Put, DCalls
  <2>2. Len(bytes) \in Nat
    BY <1>3, <1>14
  <2> HIDE DEF c
  <2>3. QED
    BY <2>1, <2>2, <1>3, <1>5
<1> DEFINE e == [d EXCEPT !.idle = IF c.took + c.put = 0 THEN @ + 1 ELSE 0]
<1>18. /\ e.inSize \in Nat /\ e.outSize \in Nat /\ e.oversized \in Nat /\ e.idle = 0 /\ e.stage = "init"
       /\ d.expected = 0 /\ d.outEnd = d.outStart /\ d.hostage = FALSE
  <2> HIDE DEF c
  <2>1. /\ e.inSize = ds.inSize /\ e.outSize = ds.outSize /\ e.oversized = ds.oversized /\ e.idle = 0
        /\ e.stage = "init" /\ d.expected = 0 /\ d.outEnd = ds.outEnd /\ d.outStart = ds.outStart
        /\ d.hostage = ds.hostage
    BY <1>3, <1>17 DEF DContexts
  <2> HIDE DEF e, d
  <2>2. QED
    BY <2>1, <1>3, <1>4 DEF DContexts
<1>19. /\ ds' = Settled(e) /\ wire' = Drop(wire, n) /\ dcall' = Returned(c, 0)
  <2>1. DReturn(d, c, Drop(wire, n))
    BY <1>1
  <2>2. /\ d.expected = 0 /\ d.outEnd = d.outStart /\ d.hostage = FALSE
    BY <1>18
  <2> HIDE DEF d, c
  <2>3. QED
    BY <2>1, <2>2 DEF DReturn
<1>20. AtRest(ds') /\ ds'.idle = 0
  <2> HIDE DEF e
  <2>1. ds' = KeepBuffers(e)
    BY <1>18, <1>19 DEF Settled
  <2>2. QED
    BY <1>18, <2>1, BuffersRest
<1>21. dcall' \in DCalls /\ ~dcall'.busy
  BY <1>19 DEF Returned, NoCall, DCalls
<1> HIDE DEF c, d, e
<1>22. Parses(z, Cat(wire', cs.outBuff), q)
  BY <1>10, <1>13, <1>19
<1>23. wire' \in Seq(Units) /\ failures' \in Nat
  BY <1>1, <1>6, <1>19
<1>24. PipeInv'
  BY <1>0, <1>7, <1>13, <1>15, <1>16, <1>20, <1>21, <1>22, <1>23, ReaderRests
<1>25. Len(received) <= Len(received')
  <2>1. Len(received) + (0 - 0) = made.all /\ Len(received) \in Nat
    BY <1>0, <1>4 DEF DFlushInv
  <2>2. Len(received') = z.n /\ made.all <= z.n /\ z.n \in Nat
    BY <1>14, <1>15, <1>16
  <2>3. QED
    BY <1>3, <2>1, <2>2
<1>26. QED
  BY <1>24, <1>25

\* What the header asks for.
LEMMA WantedIs ==
  ASSUME NEW u \in Units, u = ds.head[1], u.k \in {"head", "skiphead"}
  PROVE  /\ IsSkip <=> u.k = "skiphead"
         /\ Wanted.window \in Nat /\ Wanted.block \in Nat /\ Wanted.in \in Nat /\ Wanted.out \in Nat
         /\ Wanted.fcs \in Nat \cup {Unknown}
         /\ u.k = "head" => /\ Wanted.fcs = u.fcs
                            /\ Wanted.window = MAX(u.window, MinWindow)
                            /\ Wanted.block = MIN(u.window, DBlockSizeMax)
         /\ \/ Wanted.fcs # Unknown /\ Wanted.fcs <= Wanted.out
            \/ Wanted.out >= Wanted.window + 2 * Wanted.block + 2 * WildcopyLength
<1> DEFINE size   == IF IsSkip THEN 0 ELSE u.window
           window == MAX(size, MinWindow)
           block  == MIN(size, DBlockSizeMax)
           fcs    == IF IsSkip THEN u.size ELSE u.fcs
<1>1. /\ Wanted.window = window /\ Wanted.block = block /\ Wanted.fcs = fcs
      /\ Wanted.in = MAX(block, 1) /\ Wanted.out = DecodingBufferSize(window, fcs, block)
  BY DEF Wanted
<1>2. IsSkip <=> u.k = "skiphead"
  BY DEF IsSkip
<1>3. size \in Nat /\ fcs \in Nat \cup {Unknown}
  BY <1>2, HeaderSaysWhat, SkipHeaderSaysWhat
<1>4. u.k = "head" => size = u.window /\ fcs = u.fcs
  BY <1>2
<1>5. MinWindow \in Nat /\ DBlockSizeMax \in Nat /\ WildcopyLength \in Nat
  BY DStreamAssumption
<1> HIDE DEF size, fcs
<1>6. /\ window \in Nat /\ block \in Nat /\ window >= size /\ block <= size /\ block <= DBlockSizeMax
      /\ MAX(block, 1) \in Nat
  BY <1>3, <1>5 DEF MAX, MIN
<1> DEFINE least == MIN(MIN(window, DBlockSizeMax), block)
           needed == window + 2 * least + 2 * WildcopyLength
<1>7. least = block
  <2> HIDE DEF window, block
  <2>1. QED
    BY <1>3, <1>5, <1>6 DEF MIN
<1>8. DecodingBufferSize(window, fcs, block) = IF fcs = Unknown THEN needed ELSE MIN(fcs, needed)
  BY DEF DecodingBufferSize
<1> HIDE DEF window, block, least
<1>9. needed \in Nat /\ needed = window + 2 * block + 2 * WildcopyLength
  BY <1>5, <1>6, <1>7
<1> HIDE DEF needed
<1>10. MIN(fcs, needed) = fcs \/ MIN(fcs, needed) = needed
  BY DEF MIN
<1>11. /\ Wanted.out \in Nat
       /\ \/ Wanted.fcs # Unknown /\ Wanted.fcs <= Wanted.out
          \/ Wanted.out >= Wanted.window + 2 * Wanted.block + 2 * WildcopyLength
  <2>1. CASE fcs = Unknown
    BY <1>1, <1>8, <1>9, <2>1
  <2>2. CASE fcs # Unknown
    <3>1. fcs \in Nat
      BY <1>3, <2>2
    <3>2. QED
      BY <1>1, <1>8, <1>9, <1>10, <2>2, <3>1
  <2>3. QED
    BY <2>1, <2>2
<1>12. u.k = "head" => window = MAX(u.window, MinWindow) /\ block = MIN(u.window, DBlockSizeMax)
  BY <1>4 DEF window, block
<1>13. QED
  BY <1>1, <1>2, <1>3, <1>4, <1>6, <1>11, <1>12

\* A frame is begun.
LEMMA BegunIs ==
  ASSUME PipeInv, BeginDecoding
  PROVE  /\ ds' \in DContexts /\ ds'.stage = "read" /\ ds'.head = <<>> /\ ds'.inBuff = <<>>
         /\ ds'.outStart = 0 /\ ds'.outEnd = 0 /\ ds'.hostage = FALSE /\ ds'.idle = ds.idle
         /\ ds'.previousDstEnd = 0 /\ ds'.prefixStart = 0 /\ ds'.virtualStart = 0 /\ ds'.dictEnd = 0
         /\ ds'.window = Wanted.window /\ ds'.block = Wanted.block /\ ds'.fcs = Wanted.fcs
         /\ ds'.checksum = (~IsSkip /\ ds.head[1].checksum)
         /\ ds'.expected = IF IsSkip THEN ds.head[1].size ELSE 1
         /\ ds'.dstage = IF IsSkip THEN "skip" ELSE "blockHeader"
         /\ ds'.outSize >= Wanted.out
         /\ dmem' \in [1 .. ds'.outSize -> Nat]
<1>0. CInv /\ DInv /\ UnderwayInv /\ DTypeInv /\ DStageInv
  BY DEF PipeInv, DInv
<1>1. /\ ds.stage = "loadHeader" /\ HeaderNeeds = 0
      /\ ds' = [Begun EXCEPT !.stage = "read", !.head = <<>>,
                           !.inSize  = IF ResizeNeeded THEN Wanted.in ELSE @,
                           !.outSize = IF ResizeNeeded THEN Wanted.out ELSE @]
      /\ dmem' = [a \in 1 .. ds'.outSize |-> Garbage]
  BY DEF BeginDecoding, HeaderDone, DAt
<1>2. ds \in DContexts /\ ds.outSize \in Nat /\ ds.inSize \in Nat
  BY <1>0 DEF DTypeInv, DContexts
<1>3. PICK u \in Units : u = ds.head[1] /\ u.k \in {"head", "skiphead"}
  BY <1>1, HeaderHeld
<1>4. /\ IsSkip <=> u.k = "skiphead"
      /\ Wanted.window \in Nat /\ Wanted.block \in Nat /\ Wanted.in \in Nat /\ Wanted.out \in Nat
      /\ Wanted.fcs \in Nat \cup {Unknown}
  BY <1>3, WantedIs
<1>5. PICK w \in Nat, b \in Nat, f \in Nat \cup {Unknown}, c \in BOOLEAN, x \in Nat, o \in Nat,
            st \in {"skip", "blockHeader"} :
        /\ w = Wanted.window /\ b = Wanted.block /\ f = Wanted.fcs
        /\ c = (~IsSkip /\ ds.head[1].checksum)
        /\ x = IF IsSkip THEN ds.head[1].size ELSE 1
        /\ o = Begun.oversized
        /\ st = IF IsSkip THEN "skip" ELSE "blockHeader"
  <2>1. (IF IsSkip THEN ds.head[1].size ELSE 1) \in Nat
    BY <1>3, <1>4, SkipHeaderSaysWhat
  <2>2. (~IsSkip /\ ds.head[1].checksum) \in BOOLEAN
    BY <1>3, <1>4, HeaderSaysWhat
  <2>3. Begun.oversized \in Nat
    BY <1>0, OversizedCounts
  <2>4. (IF IsSkip THEN "skip" ELSE "blockHeader") \in {"skip", "blockHeader"}
    OBVIOUS
  <2>5. QED
    BY <1>4, <2>1, <2>2, <2>3, <2>4, Zenon
<1>6. Begun = [ds EXCEPT !.previousDstEnd = 0, !.prefixStart = 0, !.virtualStart = 0, !.dictEnd = 0,
                        !.window = w, !.block = b, !.fcs = f, !.checksum = c,
                        !.expected = x, !.dstage = st, !.oversized = o]
  <2>1. PICK e : e = [ds EXCEPT !.previousDstEnd = 0, !.prefixStart = 0, !.virtualStart = 0, !.dictEnd = 0,
                        !.window = w, !.block = b, !.fcs = f, !.checksum = c,
                        !.expected = x, !.dstage = st]
    OBVIOUS
  <2>2. PICK v : v = IF ds.inSize + ds.outSize >= (Wanted.in + Wanted.out) * DTooLargeFactor
                     THEN MIN(ds.oversized + 1, DMaxDuration) ELSE 0
    OBVIOUS
  <2>3. Begun = [e EXCEPT !.oversized = v]
    BY <1>2, <1>5, <2>1, <2>2 DEF Begun, NoAddress, DContexts
  <2>4. Begun.oversized = v
    BY <1>2, <2>1, <2>3 DEF DContexts
  <2>5. QED
    BY <1>2, <1>5, <2>1, <2>3, <2>4 DEF DContexts
<1>7. PICK g : g = Begun
  OBVIOUS
<1>8. /\ g \in DContexts
      /\ g.previousDstEnd = 0 /\ g.prefixStart = 0 /\ g.virtualStart = 0 /\ g.dictEnd = 0
      /\ g.window = w /\ g.block = b /\ g.fcs = f /\ g.checksum = c /\ g.expected = x /\ g.dstage = st
      /\ g.inSize = ds.inSize /\ g.outSize = ds.outSize /\ g.idle = ds.idle /\ g.inBuff = ds.inBuff
      /\ g.outStart = ds.outStart /\ g.outEnd = ds.outEnd /\ g.hostage = ds.hostage
  <2>1. PICK e : e = [ds EXCEPT !.previousDstEnd = 0, !.prefixStart = 0, !.virtualStart = 0, !.dictEnd = 0,
                               !.window = w, !.block = b]
    OBVIOUS
  <2>2. /\ e \in DContexts
        /\ e.previousDstEnd = 0 /\ e.prefixStart = 0 /\ e.virtualStart = 0 /\ e.dictEnd = 0
        /\ e.window = w /\ e.block = b
        /\ e.inSize = ds.inSize /\ e.outSize = ds.outSize /\ e.idle = ds.idle /\ e.inBuff = ds.inBuff
        /\ e.outStart = ds.outStart /\ e.outEnd = ds.outEnd /\ e.hostage = ds.hostage
    <3>1. PICK z \in Int : z = 0
      OBVIOUS
    <3>2. PICK a : a = [ds EXCEPT !.previousDstEnd = z, !.prefixStart = z, !.virtualStart = z]
      OBVIOUS
    <3>3. /\ a \in DContexts /\ a.previousDstEnd = z /\ a.prefixStart = z /\ a.virtualStart = z
          /\ a.inSize = ds.inSize /\ a.outSize = ds.outSize /\ a.idle = ds.idle /\ a.inBuff = ds.inBuff
          /\ a.outStart = ds.outStart /\ a.outEnd = ds.outEnd /\ a.hostage = ds.hostage
      BY ONLY <1>2, <3>2, z \in Int DEF DContexts
    <3>4. e = [a EXCEPT !.dictEnd = z, !.window = w, !.block = b]
      BY ONLY <2>1, <3>1, <3>2
    <3>5. /\ e \in DContexts
          /\ e.previousDstEnd = a.previousDstEnd /\ e.prefixStart = a.prefixStart
          /\ e.virtualStart = a.virtualStart /\ e.dictEnd = z /\ e.window = w /\ e.block = b
          /\ e.inSize = a.inSize /\ e.outSize = a.outSize /\ e.idle = a.idle /\ e.inBuff = a.inBuff
          /\ e.outStart = a.outStart /\ e.outEnd = a.outEnd /\ e.hostage = a.hostage
      BY ONLY <3>3, <3>4, z \in Int, w \in Nat, b \in Nat DEF DContexts
    <3>6. QED
      BY ONLY <3>1, <3>3, <3>5
  <2>3. g = [e EXCEPT !.fcs = f, !.checksum = c, !.expected = x, !.dstage = st, !.oversized = o]
    BY ONLY <1>6, <1>7, <2>1
  <2>4. st \in {"skip", "blockHeader"} /\ f \in Nat \cup {Unknown} /\ c \in BOOLEAN /\ x \in Nat /\ o \in Nat
    OBVIOUS
  <2>5. /\ g \in DContexts
        /\ g.previousDstEnd = e.previousDstEnd /\ g.prefixStart = e.prefixStart
        /\ g.virtualStart = e.virtualStart /\ g.dictEnd = e.dictEnd
        /\ g.window = e.window /\ g.block = e.block
        /\ g.fcs = f /\ g.checksum = c /\ g.expected = x /\ g.dstage = st
        /\ g.inSize = e.inSize /\ g.outSize = e.outSize /\ g.idle = e.idle /\ g.inBuff = e.inBuff
        /\ g.outStart = e.outStart /\ g.outEnd = e.outEnd /\ g.hostage = e.hostage
    BY ONLY <2>2, <2>3, <2>4 DEF DContexts
  <2>6. QED
    BY ONLY <2>2, <2>5
<1>9. ResizeNeeded \/ ds.outSize >= Wanted.out
  BY <1>2, <1>4 DEF ResizeNeeded
<1>10. PICK i \in Nat, s \in Nat :
         /\ i = IF ResizeNeeded THEN Wanted.in ELSE ds.inSize
         /\ s = IF ResizeNeeded THEN Wanted.out ELSE ds.outSize
  BY <1>2, <1>4
<1>11. ds' = [g EXCEPT !.stage = "read", !.head = <<>>, !.inSize = i, !.outSize = s]
  BY <1>1, <1>7, <1>8, <1>10
<1>12. ds.inBuff = <<>> /\ ds.outStart = 0 /\ ds.outEnd = 0 /\ ds.hostage = FALSE
  BY <1>0, <1>1, <1>2 DEF DStageInv, DContexts
<1>13. <<>> \in Seq(Units)
  BY EmptySeq
<1>14. s >= Wanted.out
  BY <1>4, <1>9, <1>10
<1>15. /\ ds' \in DContexts /\ ds'.stage = "read" /\ ds'.head = <<>> /\ ds'.inBuff = <<>>
         /\ ds'.outStart = 0 /\ ds'.outEnd = 0 /\ ds'.hostage = FALSE /\ ds'.idle = ds.idle
         /\ ds'.previousDstEnd = 0 /\ ds'.prefixStart = 0 /\ ds'.virtualStart = 0 /\ ds'.dictEnd = 0
         /\ ds'.window = w /\ ds'.block = b /\ ds'.fcs = f /\ ds'.checksum = c /\ ds'.expected = x
         /\ ds'.dstage = st /\ ds'.outSize = s
  BY <1>8, <1>11, <1>12, <1>13 DEF DContexts
<1>16. dmem' \in [1 .. ds'.outSize -> Nat]
  BY <1>1 DEF Garbage
<1>17. QED
  BY <1>5, <1>14, <1>15, <1>16

\* Beginning a frame, with its buffers, keeps the invariant.
LEMMA BeginDecodingKeeps ==
  ASSUME PipeInv, UNCHANGED cVars, BeginDecoding
  PROVE  PipeInv'
<1>0. CInv /\ DInv /\ UnderwayInv /\ DTypeInv /\ DStageInv /\ DFlushInv /\ DCallInv
  BY DEF PipeInv, DInv
<1>1. /\ ds.stage = "loadHeader" /\ HeaderNeeds = 0 /\ dcall.busy
      /\ made' = [made EXCEPT !.before = made.all] /\ failures' = 0
      /\ UNCHANGED <<wire, dcall, received>>
  BY DEF BeginDecoding, HeaderDone, DAt
<1>2. /\ ds' \in DContexts /\ ds'.stage = "read" /\ ds'.head = <<>> /\ ds'.inBuff = <<>>
      /\ ds'.outStart = 0 /\ ds'.outEnd = 0 /\ ds'.hostage = FALSE /\ ds'.idle = ds.idle
      /\ ds'.previousDstEnd = 0 /\ ds'.prefixStart = 0 /\ ds'.virtualStart = 0 /\ ds'.dictEnd = 0
      /\ ds'.window = Wanted.window /\ ds'.block = Wanted.block /\ ds'.fcs = Wanted.fcs
      /\ ds'.checksum = (~IsSkip /\ ds.head[1].checksum)
      /\ ds'.expected = IF IsSkip THEN ds.head[1].size ELSE 1
      /\ ds'.dstage = IF IsSkip THEN "skip" ELSE "blockHeader"
      /\ ds'.outSize >= Wanted.out
      /\ dmem' \in [1 .. ds'.outSize -> Nat]
  BY BegunIs
<1>3. PICK u \in Units : u = ds.head[1] /\ u.k \in {"head", "skiphead"}
  BY <1>1, HeaderHeld
<1>4. Len(ds.head) = HeaderAll(ds.head) /\ Len(ds.head) > 0
  <2>1. Len(ds.head) = HeaderAll(ds.head)
    BY <1>1, HeaderHeld
  <2>2. HeaderAll(ds.head) \in Nat \ {0}
    BY HeaderSizeAssumption DEF HeaderAll
  <2>3. QED
    BY <2>1, <2>2
<1>5. PICK p \in Places, q \in Places, r \in Places :
        /\ p.at = "between" /\ p.n = made.all /\ LedTo(cs, Written, q)
        /\ HeaderLeadsTo(p, u, r) /\ Parses(r, Cat(wire, cs.outBuff), q)
  BY <1>1, <1>3, HeaderHeld
<1>6. /\ IsSkip <=> u.k = "skiphead"
      /\ Wanted.window \in Nat /\ Wanted.block \in Nat /\ Wanted.out \in Nat
      /\ Wanted.fcs \in Nat \cup {Unknown}
      /\ u.k = "head" => /\ Wanted.fcs = u.fcs
                         /\ Wanted.window = MAX(u.window, MinWindow)
                         /\ Wanted.block = MIN(u.window, DBlockSizeMax)
      /\ \/ Wanted.fcs # Unknown /\ Wanted.fcs <= Wanted.out
         \/ Wanted.out >= Wanted.window + 2 * Wanted.block + 2 * WildcopyLength
  BY <1>3, WantedIs
<1>7. /\ made \in [all : Nat, before : Nat] /\ made.all \in Nat
      /\ made' \in [all : Nat, before : Nat] /\ made'.all = made.all /\ made'.before = made.all
      /\ ds.outStart = 0 /\ ds.outEnd = 0 /\ ~ds.hostage
  BY <1>0, <1>1 DEF DTypeInv, DStageInv
<1>8. DTypeInv'
  BY <1>0, <1>1, <1>2, <1>7 DEF DTypeInv
<1>9. DStageInv'
  BY <1>2 DEF DStageInv
<1>10. DFlushInv'
  <2>1. ds'.outSize \in Nat
    BY <1>2 DEF DContexts
  <2>2. QED
    BY <1>0, <1>1, <1>2, <1>7, <2>1 DEF DFlushInv
<1>11. DCallInv'
  <2>1. dcall.took > 0 /\ dcall.took \in Nat /\ dcall.put \in Nat
    BY <1>0, <1>1, <1>4 DEF DCallInv, DTypeInv
  <2>2. ~(dcall.took + dcall.put = 0)
    BY <2>1
  <2>3. QED
    BY <1>0, <1>1, <1>2, <2>2 DEF DCallInv
<1>12. DRingInv'
  <2>1. ds'.outSize \in Nat /\ WildcopyLength \in Nat
    BY <1>2, DStreamAssumption DEF DContexts
  <2>2. DRoomInv'
    <3>1. CASE OneSegment'
      BY <1>2, <1>7, <3>1 DEF DRoomInv
    <3>2. CASE ~OneSegment'
      <4>1. ~(Wanted.fcs # Unknown /\ Wanted.fcs <= ds'.outSize)
        BY <1>2, <3>2 DEF OneSegment
      <4>2. ~(Wanted.fcs # Unknown /\ Wanted.fcs <= Wanted.out)
        <5>1. SUFFICES ASSUME Wanted.fcs # Unknown, Wanted.fcs <= Wanted.out PROVE FALSE
          OBVIOUS
        <5>2. Wanted.fcs \in Nat
          BY <1>6, <5>1
        <5>3. QED
          BY <1>2, <1>6, <2>1, <4>1, <5>1, <5>2
      <4>3. Wanted.out >= Wanted.window + 2 * Wanted.block + 2 * WildcopyLength
        BY <1>6, <4>2
      <4>4. PICK w \in Nat, b \in Nat, o \in Nat : w = Wanted.window /\ b = Wanted.block /\ o = Wanted.out
        BY <1>6
      <4>5. ds'.outSize >= w + 2 * b + 2 * WildcopyLength /\ 0 + b <= ds'.outSize
        <5>1. PICK z \in Nat, c \in Nat : z = ds'.outSize /\ c = WildcopyLength
          BY <2>1
        <5>2. z >= o /\ o >= w + 2 * b + 2 * c
          BY <1>2, <4>3, <4>4, <5>1
        <5>3. z >= w + 2 * b + 2 * c /\ 0 + b <= z
          BY ONLY <5>2, z \in Nat, c \in Nat, o \in Nat, w \in Nat, b \in Nat
        <5>4. QED
          BY <5>1, <5>3
      <4>6. ds'.window = w /\ ds'.block = b /\ ds'.outEnd = 0
        BY <1>2, <4>4
      <4>7. QED
        BY <3>2, <4>5, <4>6 DEF DRoomInv
    <3>3. QED
      BY <3>1, <3>2
  <2>3. DSegmentsInv'
    BY <1>2, <1>7 DEF DSegmentsInv
  <2>4. DHistoryInv'
    <3>1. ds'.window \in Nat /\ made'.all - made'.before = 0
      BY <1>2, <1>7 DEF DContexts
    <3>2. DReach' = 0
      BY <3>1 DEF DReach, MIN
    <3>3. QED
      BY <3>2 DEF DHistoryInv
  <2>5. QED
    BY <2>2, <2>3, <2>4 DEF DRingInv
<1>13. Lying = wire /\ Lying' = wire' /\ Held' = <<>>
  BY <1>1, <1>2, <1>7 DEF Lying, Held
<1>14. wire \in Seq(Lyings) /\ wire \in Seq(Units) /\ cs.outBuff \in Seq(Units) /\ cs' = cs
  BY <1>0, <1>13, UnderwayParts, WriterStays
<1>15. Underway' = Cat(wire, cs.outBuff)
  <2>1. Underway' = Cat(<<>>, Cat(wire, cs.outBuff))
    BY <1>1, <1>13, <1>14 DEF Underway, Cat
  <2>2. PICK s \in Seq(Units) : s = Cat(wire, cs.outBuff)
    BY <1>14, CatGroups
  <2>3. Cat(<<>>, s) = s
    BY NothingFirst
  <2>4. QED
    BY <2>1, <2>2, <2>3
<1>16. Matches(r)'
  <2>1. r.n = made'.all
    BY <1>5, <1>7 DEF HeaderLeadsTo
  <2>2. CASE IsSkip
    <3>1. u.size \in Nat /\ MovesInSkip(0, u.size, r)
      BY <1>5, <1>6, <2>2, SkipHeaderSaysWhat DEF HeaderLeadsTo
    <3>2. ds'.dstage = "skip" /\ ds'.expected = u.size
      BY <1>2, <1>3, <2>2
    <3>3. IF u.size = 0 THEN r.at = "between" ELSE r.at = "skip" /\ r.left = 0 /\ r.rest = u.size
      BY <3>1 DEF MovesInSkip
    <3>4. QED
      BY <2>1, <3>2, <3>3 DEF Matches
  <2>3. CASE ~IsSkip
    <3>1. u.k = "head"
      BY <1>3, <1>6, <2>3
    <3>2. /\ r.at = "frame" /\ r.left = 0 /\ r.start = p.n
          /\ r.fcs = u.fcs /\ r.sum = u.checksum /\ r.window = u.window
      BY <1>5, <3>1 DEF HeaderLeadsTo
    <3>3. /\ ds'.dstage = "blockHeader" /\ ds'.expected = 1 /\ ds'.fcs = u.fcs
          /\ ds'.window = MAX(u.window, MinWindow) /\ ds'.block = MIN(u.window, DBlockSizeMax)
      BY <1>2, <1>6, <2>3, <3>1
    <3>4. ds'.checksum = u.checksum
      BY <1>2, <1>3, <2>3, <3>1, HeaderSaysWhat, Zenon
    <3>5. InFrame(r)'
      BY <1>5, <1>7, <3>2, <3>3, <3>4 DEF InFrame
    <3>6. QED
      BY <2>1, <3>2, <3>3, <3>5 DEF Matches
  <2>4. QED
    BY <2>2, <2>3
<1>17. UnderwayInv'
  BY <1>0, <1>1, <1>5, <1>13, <1>14, <1>15, <1>16, UnderwayKeeps
<1>18. QED
  BY <1>0, <1>8, <1>9, <1>10, <1>11, <1>12, <1>17, WriterStays DEF PipeInv, DInv

-----------------------------------------------------------------------------
(* Reading on. *)

\* What is expected, in view of the place.
LEMMA ExpectedIs ==
  ASSUME NEW p \in Places, Matches(p), ds \in DContexts, NEW shown \in Nat
  PROVE  /\ NextSrcSize(ds, shown) \in Nat
         /\ NextSrcSize(ds, shown) = 0 <=> ds.expected = 0
         /\ NextSrcSize(ds, shown) <= MAX(1, ds.expected)
         /\ ds.expected = 0 => p.at = "between" /\ ds.dstage \in {"getHeader", "skip"}
<1>1. ds.expected \in Nat /\ p.left \in Nat
  BY PlaceFields DEF DContexts
<1>2. ds.dstage \in {"block", "lastBlock"} => ds.expected > 0
  <2>1. ASSUME ds.dstage \in {"block", "lastBlock"} PROVE p.at = "body" /\ p.left = ds.expected
    BY <2>1 DEF Matches
  <2>2. QED
    BY <1>1, <2>1, BodyPlace
<1>3. MAX(1, MIN(shown, ds.expected)) \in Nat /\ MAX(1, MIN(shown, ds.expected)) > 0
      /\ MAX(1, MIN(shown, ds.expected)) <= MAX(1, ds.expected)
      /\ ds.expected <= MAX(1, ds.expected)
  BY <1>1 DEF MAX, MIN
<1>4. ASSUME ds.expected = 0 PROVE p.at = "between" /\ ds.dstage \in {"getHeader", "skip"}
  <2>1. ds.dstage \in {"getHeader", "skip"}
    <3>1. ds.dstage \in {"getHeader", "blockHeader", "block", "lastBlock", "checksum", "skip"}
      BY DEF DContexts
    <3>2. ds.dstage # "blockHeader" /\ ds.dstage # "checksum"
      <4>1. ASSUME ds.dstage = "blockHeader" PROVE ds.expected = 1
        BY <4>1 DEF Matches
      <4>2. ASSUME ds.dstage = "checksum" PROVE ds.expected = 1
        BY <4>2 DEF Matches
      <4>3. QED
        BY <1>4, <4>1, <4>2
    <3>3. ~(ds.dstage \in {"block", "lastBlock"})
      BY <1>2, <1>4
    <3>4. QED
      BY <3>1, <3>2, <3>3
  <2>2. CASE ds.dstage = "getHeader"
    BY <2>2 DEF Matches
  <2>3. CASE ds.dstage = "skip"
    BY <1>4, <2>3 DEF Matches
  <2>4. QED
    BY <2>1, <2>2, <2>3
<1>5. CASE ds.dstage \in {"block", "lastBlock"} /\ ds.raw
  BY <1>1, <1>2, <1>3, <1>4, <1>5 DEF NextSrcSize
<1>6. CASE ~(ds.dstage \in {"block", "lastBlock"} /\ ds.raw)
  BY <1>1, <1>3, <1>4, <1>6 DEF NextSrcSize
<1>7. QED
  BY <1>5, <1>6

\* A call that ends where the reader has to read on.
LEMMA CallReturns ==
  ASSUME PipeInv, UNCHANGED cVars, UNCHANGED <<wire, dmem, received, made, failures>>,
         ds.stage = "read", NEW x \in Nat, x <= 1, ds' = [ds EXCEPT !.idle = x],
         dcall' \in DCalls, ~dcall'.busy, dcall'.ret # 0, dcall'.full => x = 0
  PROVE  PipeInv'
<1>0. CInv /\ DInv /\ UnderwayInv /\ DTypeInv /\ DStageInv /\ DFlushInv /\ DCallInv
  BY DEF PipeInv, DInv
<1>1. ds \in DContexts
  BY <1>0 DEF DTypeInv
<1>2. ds' \in DContexts /\ ds'.idle = x
  BY <1>1 DEF DContexts
<1>3. /\ ds'.stage = ds.stage /\ ds'.dstage = ds.dstage /\ ds'.head = ds.head /\ ds'.expected = ds.expected
      /\ ds'.raw = ds.raw /\ ds'.inBuff = ds.inBuff /\ ds'.outSize = ds.outSize
      /\ ds'.outStart = ds.outStart /\ ds'.outEnd = ds.outEnd /\ ds'.hostage = ds.hostage
      /\ ds'.prefixStart = ds.prefixStart /\ ds'.dictEnd = ds.dictEnd
      /\ ds'.virtualStart = ds.virtualStart /\ ds'.previousDstEnd = ds.previousDstEnd
      /\ ds'.fcs = ds.fcs /\ ds'.window = ds.window /\ ds'.block = ds.block /\ ds'.checksum = ds.checksum
  BY <1>1 DEF DContexts
<1>4. DTypeInv'
  BY <1>0, <1>2, <1>3 DEF DTypeInv, DCalls
<1>5. DStageInv'
  BY <1>0, <1>3 DEF DStageInv, HeaderAll
<1>6. DFlushInv'
  BY <1>0, <1>3 DEF DFlushInv
<1>7. DCallInv'
  BY <1>2, <1>3 DEF DCallInv
<1>8. DRingInv'
  BY <1>0, <1>3, RingKeeps DEF RingStays
<1>9. Lying' = Lying /\ Held' = Held /\ cs' = cs /\ wire' = wire
  BY <1>0, <1>3, WriterStays DEF Lying, Held
<1>10. Underway' = Underway
  BY <1>9 DEF Underway
<1>11. PICK p \in Places, q \in Places : Matches(p) /\ Parses(p, Underway, q) /\ LedTo(cs, Written, q)
  BY <1>0 DEF UnderwayInv
<1>12. Matches(p)'
  BY <1>3, <1>11 DEF Matches, InFrame
<1>13. UnderwayInv'
  BY <1>0, <1>9, <1>10, <1>11, <1>12, UnderwayParts, UnderwayKeeps
<1>14. QED
  BY <1>0, <1>4, <1>5, <1>6, <1>7, <1>8, <1>13, WriterStays DEF PipeInv, DInv

\* The calls that do nothing are counted.
IdleAfter(c) == IF c.took + c.put = 0 THEN ds.idle + 1 ELSE 0

\* There are never more than two idle calls in a row.
LEMMA IdleCounts ==
  ASSUME DTypeInv, DCallInv, dcall.busy, ds.stage # "loadHeader"
  PROVE  /\ IdleAfter(dcall) \in Nat /\ IdleAfter(dcall) <= 2
         /\ dcall.left = 0 => IdleAfter(dcall) <= 1
         /\ dcall.room = 0 => IdleAfter(dcall) = 0
<1>1. /\ ds.idle \in Nat /\ dcall.took \in Nat /\ dcall.put \in Nat
  BY DEF DTypeInv, DContexts
<1>2. /\ dcall.room = 0 => dcall.put > 0
      /\ dcall.left = 0 /\ dcall.took + dcall.put = 0 => ds.idle = 0
      /\ dcall.took + dcall.put = 0 => ds.idle <= 1
  BY DEF DCallInv
<1>3. QED
  BY <1>1, <1>2 DEF IdleAfter

\* A call that has returned.
LEMMA ReturnedIs ==
  ASSUME NEW c, NEW ret \in Nat
  PROVE  /\ Returned(c, ret) \in DCalls /\ ~Returned(c, ret).busy
         /\ Returned(c, ret).full <=> c.room = 0
         /\ Returned(c, ret).ret = ret
  BY DEF Returned, NoCall, DCalls

\* The end of a call while reading keeps the invariant.
LEMMA ReadEndsKeeps ==
  ASSUME PipeInv, UNCHANGED cVars, ReadEnds
  PROVE  PipeInv'
<1>0. CInv /\ DInv /\ UnderwayInv /\ DTypeInv /\ DStageInv /\ DFlushInv /\ DCallInv
  BY DEF PipeInv, DInv
<1> DEFINE d == IF Needed = 0 THEN [ds EXCEPT !.stage = "init"] ELSE ds
<1>1. /\ dcall.busy /\ ds.stage = "read" /\ (Needed = 0 \/ dcall.left = 0)
      /\ DReturn(d, dcall, wire)
      /\ UNCHANGED <<dmem, received, made, failures>>
  BY DEF ReadEnds, DAt
<1>2. ds \in DContexts /\ dcall \in DCalls /\ dcall.left \in Nat /\ ds.expected \in Nat /\ ds.hostage \in BOOLEAN
  BY <1>0 DEF DTypeInv, DCalls, DContexts
<1>3. PICK p \in Places, q \in Places : Matches(p) /\ Parses(p, Underway, q) /\ LedTo(cs, Written, q)
  BY <1>0 DEF UnderwayInv
<1>4. /\ Needed = 0 <=> ds.expected = 0
      /\ ds.expected = 0 => p.at = "between" /\ ds.dstage \in {"getHeader", "skip"}
  BY <1>1, <1>2, <1>3, ExpectedIs DEF Needed
<1>5. PICK x \in Nat : /\ x = IdleAfter(dcall) /\ x <= 2 /\ (dcall.left = 0 => x <= 1)
                       /\ (dcall.room = 0 => x = 0)
  BY <1>0, <1>1, IdleCounts
<1> DEFINE count == [d EXCEPT !.idle = IF dcall.took + dcall.put = 0 THEN @ + 1 ELSE 0]
<1>6. /\ d.expected = ds.expected /\ d.outEnd = ds.outEnd /\ d.outStart = ds.outStart
      /\ d.hostage = ds.hostage /\ d.idle = ds.idle
  BY <1>2 DEF DContexts
<1>7. count = [d EXCEPT !.idle = x]
  BY <1>5, <1>6 DEF IdleAfter
<1>8. ds.outEnd = ds.outStart
  BY <1>0, <1>1 DEF DFlushInv
<1>9. IF ds.expected # 0 THEN ds' = count /\ wire' = wire /\ dcall' = Returned(dcall, ds.expected)
      ELSE IF ~ds.hostage THEN ds' = Settled(count) /\ wire' = wire /\ dcall' = Returned(dcall, 0)
      ELSE IF dcall.left = 0
      THEN ds' = [count EXCEPT !.stage = "read"] /\ wire' = wire /\ dcall' = Returned(dcall, 1)
      ELSE ds' = Settled(count) /\ wire' = Tail(wire) /\ dcall' = Returned(dcall, 0)
  <2>1. DReturn(d, dcall, wire)
    BY <1>1
  <2> HIDE DEF d
  <2>2. QED
    BY <2>1, <1>6, <1>8 DEF DReturn
<1> HIDE DEF count
<1>10. CASE ds.expected # 0
  <2>1. Needed # 0 /\ dcall.left = 0
    BY <1>1, <1>4, <1>10
  <2>2. ds' = [ds EXCEPT !.idle = x]
    BY <1>7, <1>9, <1>10, <2>1
  <2>3. dcall' \in DCalls /\ ~dcall'.busy /\ dcall'.ret # 0 /\ (dcall'.full => dcall.room = 0)
    BY <1>2, <1>9, <1>10, ReturnedIs
  <2>4. x <= 1 /\ (dcall'.full => x = 0)
    BY <1>5, <2>1, <2>3
  <2>5. wire' = wire
    BY <1>9, <1>10
  <2>6. QED
    BY <1>1, <2>2, <2>3, <2>4, <2>5, CallReturns
<1>11. CASE ds.expected = 0 /\ ds.hostage /\ dcall.left = 0
  <2>1. Needed = 0
    BY <1>4, <1>11
  <2>2. ds' = [ds EXCEPT !.idle = x]
    <3>1. count = [[ds EXCEPT !.stage = "init"] EXCEPT !.idle = x]
      BY <1>7, <2>1
    <3>2. ds' = [count EXCEPT !.stage = "read"]
      BY <1>9, <1>11
    <3>3. QED
      BY <1>1, <1>2, <3>1, <3>2 DEF DContexts
  <2>3. dcall' \in DCalls /\ ~dcall'.busy /\ dcall'.ret # 0 /\ (dcall'.full => dcall.room = 0)
    <3>1. PICK k \in Nat : k = 1
      OBVIOUS
    <3>2. dcall' = Returned(dcall, k) /\ k # 0
      BY <1>9, <1>11, <3>1
    <3>3. QED
      BY <3>2, ReturnedIs
  <2>4. x <= 1 /\ (dcall'.full => x = 0)
    BY <1>5, <1>11, <2>3
  <2>5. wire' = wire
    BY <1>9, <1>11
  <2>6. QED
    BY <1>1, <2>2, <2>3, <2>4, <2>5, CallReturns
<1>12. CASE ds.expected = 0 /\ (~ds.hostage \/ dcall.left # 0)
  <2>1. Needed = 0
    BY <1>4, <1>12
  <2>2. count = [[ds EXCEPT !.stage = "init"] EXCEPT !.idle = x]
    BY <1>7, <2>1
  <2>3. /\ ds' = Settled(count) /\ dcall' = Returned(dcall, 0)
        /\ wire' = Lying
    BY <1>9, <1>12 DEF Lying
  <2>4. /\ count.stage = "init" /\ count.inSize \in Nat /\ count.outSize \in Nat
        /\ count.oversized \in Nat /\ count.idle = x
    BY <1>2, <2>2 DEF DContexts
  <2>5. AtRest(ds') /\ ds'.idle = x
    BY <2>3, <2>4, BuffersRest DEF Settled
  <2>6. dcall' \in DCalls /\ ~dcall'.busy /\ (dcall'.full => dcall.room = 0)
    <3>1. PICK k \in Nat : k = 0
      OBVIOUS
    <3>2. dcall' = Returned(dcall, k)
      BY <2>3, <3>1
    <3>3. QED
      BY <3>2, ReturnedIs
  <2>7. /\ Lying \in Seq(Units) /\ cs.outBuff \in Seq(Units)
        /\ Underway = Cat(Held, Cat(Lying, cs.outBuff)) /\ Held = <<>>
    BY <1>0, <1>1, UnderwayParts DEF Held
  <2>8. Underway = Cat(wire', cs.outBuff)
    <3>1. PICK s \in Seq(Units) : s = Cat(Lying, cs.outBuff)
      BY <2>7, CatGroups
    <3>2. Cat(<<>>, s) = s
      BY NothingFirst
    <3>3. QED
      BY <2>3, <2>7, <3>1, <3>2
  <2>9. received' = Numbers(0, Len(received')) /\ Len(received') = made'.all
    <3>1. /\ received = Numbers(0, Len(received)) /\ Len(received) + (ds.outEnd - ds.outStart) = made.all
          /\ made.all \in Nat /\ ds.outStart \in Nat
      BY <1>0, <1>2 DEF DFlushInv, DTypeInv, DContexts
    <3>2. ds.outEnd - ds.outStart = 0
      BY <1>8, <3>1
    <3>3. Len(received) \in Nat
      BY <3>1, <3>2
    <3>4. Len(received) = made.all
      BY <3>1, <3>2, <3>3
    <3>5. QED
      BY <1>1, <3>1, <3>4
  <2>10. made' \in [all : Nat, before : Nat] /\ failures' \in Nat
    BY <1>0, <1>1 DEF DTypeInv
  <2>11. p.at = "between" /\ p.n = made'.all
    BY <1>1, <1>3, <1>4, <1>12 DEF Matches
  <2>12. ds'.idle <= 2 /\ (dcall'.full => ds'.idle = 0)
    BY <1>5, <2>5, <2>6
  <2>13. wire' \in Seq(Units) /\ Parses(p, Cat(wire', cs.outBuff), q)
    BY <1>3, <2>3, <2>7, <2>8
  <2>14. QED
    BY <1>0, <1>3, <2>5, <2>6, <2>9, <2>10, <2>11, <2>12, <2>13, ReaderRests
<1>13. QED
  BY <1>10, <1>11, <1>12

-----------------------------------------------------------------------------
(* Flushing. *)

\* What n more bytes of outBuff are.
LEMMA FlushedIs ==
  ASSUME DTypeInv, DFlushInv, ds.stage = "flush", NEW n \in Nat, n <= ds.outEnd - ds.outStart,
         received' = received \o [i \in 1 .. n |-> dmem[ds.outStart + i]]
  PROVE  Len(received') = Len(received) + n /\ received' = Numbers(0, Len(received'))
<1>1. /\ ds.outStart \in Nat /\ ds.outEnd \in Nat /\ made.all \in Nat /\ Len(received) \in Nat
      /\ ds.outEnd <= ds.outSize /\ ds.outSize \in Nat
      /\ received = Numbers(0, Len(received))
      /\ Len(received) + (ds.outEnd - ds.outStart) = made.all
      /\ dmem \in [1 .. ds.outSize -> Nat]
      /\ \A a \in ds.outStart + 1 .. ds.outEnd : dmem[a] = made.all - (ds.outEnd - a)
  BY DEF DTypeInv, DContexts, DFlushInv
<1>2. PICK l \in Nat : l = Len(received)
  BY <1>1
<1> DEFINE s == [i \in 1 .. n |-> dmem[ds.outStart + i]]
<1>3. \A i \in 1 .. n : dmem[ds.outStart + i] = l + i
  <2>1. ASSUME NEW i \in 1 .. n PROVE dmem[ds.outStart + i] = l + i
    <3>1. ds.outStart + i \in ds.outStart + 1 .. ds.outEnd
      BY <1>1
    <3>2. dmem[ds.outStart + i] = made.all - (ds.outEnd - (ds.outStart + i))
      BY <1>1, <3>1
    <3>3. made.all - (ds.outEnd - (ds.outStart + i)) = l + i
      BY <1>1, <1>2
    <3>4. QED
      BY <3>2, <3>3
  <2>2. QED
    BY <2>1
<1>4. s \in Seq(Nat) /\ Len(s) = n /\ \A i \in 1 .. n : s[i] = l + i
  <2>1. \A i \in 1 .. n : dmem[ds.outStart + i] \in Nat
    BY <1>3
  <2>2. QED
    BY <1>3, <2>1
<1> HIDE DEF s
<1>5. s = Numbers(l, l + n)
  BY <1>4, NumbersKnown
<1>6. Numbers(0, l) \o Numbers(l, l + n) = Numbers(0, l + n) /\ Len(Numbers(0, l + n)) = l + n
  <2>1. PICK m \in Nat : m = l + n
    OBVIOUS
  <2>2. l <= m
    BY <2>1
  <2>3. QED
    BY <2>1, <2>2, NumbersGoOn
<1>7. received' = Numbers(0, l + n)
  BY <1>1, <1>2, <1>5, <1>6 DEF s
<1>8. Len(received') = l + n
  BY <1>6, <1>7
<1>9. QED
  BY <1>2, <1>7, <1>8

\* The fields of a context but for outStart, outEnd, stage, hostage and idle.
SameButFlushed(d, e) ==
  /\ e.dstage = d.dstage /\ e.head = d.head /\ e.expected = d.expected
  /\ e.raw = d.raw /\ e.inBuff = d.inBuff /\ e.outSize = d.outSize
  /\ e.prefixStart = d.prefixStart /\ e.dictEnd = d.dictEnd
  /\ e.virtualStart = d.virtualStart /\ e.previousDstEnd = d.previousDstEnd
  /\ e.fcs = d.fcs /\ e.window = d.window /\ e.block = d.block /\ e.checksum = d.checksum

\* The call ends before everything has been flushed.
LEMMA FlushPartKeeps ==
  ASSUME PipeInv, UNCHANGED cVars, UNCHANGED <<dmem, made, failures>>, dcall.busy, ds.stage = "flush",
         NEW n \in Nat, n <= ds.outEnd - ds.outStart, ds.outStart + n < ds.outEnd,
         received' = received \o [i \in 1 .. n |-> dmem[ds.outStart + i]],
         ds' \in DContexts, SameButFlushed(ds, ds'), ds'.stage = "flush", ds'.outStart = ds.outStart + n,
         ds'.outEnd = ds.outEnd, ds'.idle = 0,
         ds'.hostage <=> (ds.hostage \/ ds.expected = 0),
         wire' = IF ds.hostage \/ ds.expected # 0 THEN wire ELSE Cat(<<[k |-> "hostage"]>>, wire),
         dcall' \in DCalls, ~dcall'.busy, dcall'.ret # 0, dcall'.full
  PROVE  PipeInv'
<1>0. CInv /\ DInv /\ UnderwayInv /\ DTypeInv /\ DStageInv /\ DFlushInv /\ DCallInv
  BY DEF PipeInv, DInv
<1>1. /\ ds \in DContexts /\ ds.outStart \in Nat /\ ds.outEnd \in Nat /\ ds.hostage \in BOOLEAN
      /\ made.all \in Nat /\ Len(received) \in Nat /\ ds.expected \in Nat
  BY <1>0 DEF DTypeInv, DContexts, DFlushInv
<1>2. PICK p \in Places, q \in Places : Matches(p) /\ Parses(p, Underway, q) /\ LedTo(cs, Written, q)
  BY <1>0 DEF UnderwayInv
<1>3. ds.expected = 0 => ds.dstage = "getHeader"
  <2>1. ds.dstage # "skip"
    BY <1>0 DEF DStageInv
  <2>2. PICK k \in Nat : k = 0
    OBVIOUS
  <2>3. QED
    BY <1>1, <1>2, <2>1, <2>2, ExpectedIs
<1>4. Len(received') = Len(received) + n /\ received' = Numbers(0, Len(received'))
  BY <1>0, FlushedIs
<1>5. DTypeInv'
  BY <1>0 DEF DTypeInv, DCalls, SameButFlushed
<1>6. /\ wire \in Seq(Lyings) /\ Lying \in Seq(Units) /\ Len(wire) \in Nat
  BY <1>0, LenProperties DEF UnderwayInv
<1>7. /\ wire' \in Seq(Lyings) /\ Lying' = Lying
      /\ ds'.hostage => Len(wire') > 0 /\ wire'[1].k = "hostage"
  <2>1. CASE ds.hostage \/ ds.expected # 0
    <3>1. wire' = wire /\ (ds'.hostage <=> ds.hostage)
      <4>1. ds.hostage => ds.expected = 0
        <5>1. SUFFICES ASSUME ds.hostage PROVE ds.expected = 0
          OBVIOUS
        <5>2. ds.dstage = "getHeader"
          BY <1>0, <5>1 DEF DStageInv
        <5>3. QED
          BY <1>2, <5>2 DEF Matches
      <4>2. QED
        BY <2>1, <4>1
    <3>2. ds.hostage => Len(wire) > 0 /\ wire[1].k = "hostage"
      BY <1>0 DEF DStageInv
    <3>3. QED
      BY <1>6, <3>1, <3>2 DEF Lying
  <2>2. CASE ~ds.hostage /\ ds.expected = 0
    <3>0. PICK u \in Lyings : u = [k |-> "hostage"]
      BY DEF Lyings
    <3>1. PICK h \in Seq(Lyings) : h = <<u>>
      <4>1. <<u>> \in Seq(Lyings)
        BY ONLY u \in Lyings
      <4>2. QED
        BY ONLY <4>1
    <3>2. Len(h) = 1 /\ h[1].k = "hostage" /\ h # <<>>
      BY <3>0, <3>1
    <3>3. wire' = Cat(h, wire)
      BY <2>2, <3>0, <3>1
    <3>4. /\ Cat(h, wire) \in Seq(Lyings) /\ Len(Cat(h, wire)) = Len(h) + Len(wire)
          /\ \A i \in 1 .. Len(h) : Cat(h, wire)[i] = h[i]
      BY ONLY <1>6, h \in Seq(Lyings), Joined DEF Cat
    <3>5. Len(wire') > 0 /\ wire'[1].k = "hostage"
      BY <1>6, <3>2, <3>3, <3>4
    <3>6. Tail(wire') = wire
      <4>1. Tail(Cat(h, wire)) = Cat(Tail(h), wire)
        BY <1>6, <3>2, TailJoined DEF Cat
      <4>2. Tail(h) = <<>>
        BY <3>1
      <4>3. QED
        BY <1>6, <3>3, <4>1, <4>2, NothingFirst
    <3>7. Lying' = wire /\ Lying = wire
      BY <2>2, <3>6 DEF Lying
    <3>8. QED
      BY <3>3, <3>4, <3>5, <3>7
  <2>3. QED
    BY <2>1, <2>2
<1>8. DStageInv'
  BY <1>0, <1>3, <1>7 DEF DStageInv, SameButFlushed
<1>9. DFlushInv'
  <2>1. ds.outEnd <= ds.outSize /\ Len(received) + (ds.outEnd - ds.outStart) = made.all
        /\ \A a \in ds.outStart + 1 .. ds.outEnd : dmem[a] = made.all - (ds.outEnd - a)
    BY <1>0 DEF DFlushInv
  <2>2. \A a \in ds.outStart + n + 1 .. ds.outEnd : a \in ds.outStart + 1 .. ds.outEnd
    BY <1>1
  <2>3. (Len(received) + n) + (ds.outEnd - (ds.outStart + n)) = made.all
    BY <1>1, <2>1
  <2>4. ds.outStart + n <= ds.outEnd /\ Len(received) + n \in Nat
    BY <1>1
  <2>5. ds'.outSize = ds.outSize /\ made' = made /\ dmem' = dmem
    BY DEF SameButFlushed
  <2>6. QED
    BY <1>4, <2>1, <2>2, <2>3, <2>4, <2>5 DEF DFlushInv
<1>10. DCallInv'
  BY <1>1 DEF DCallInv
<1>11. DRingInv'
  BY <1>0, RingKeeps DEF RingStays, SameButFlushed
<1>12. Held = <<>> /\ Held' = <<>> /\ cs' = cs
  BY <1>0, WriterStays DEF Held
<1>13. Underway' = Underway
  BY <1>7, <1>12 DEF Underway
<1>14. Matches(p)'
  BY <1>2 DEF Matches, InFrame, SameButFlushed
<1>15. UnderwayInv'
  BY <1>0, <1>2, <1>6, <1>7, <1>13, <1>14, UnderwayKeeps
<1>16. QED
  BY <1>0, <1>5, <1>8, <1>9, <1>10, <1>11, <1>15, WriterStays DEF PipeInv, DInv

\* In the ring there is room for a block, and for a window behind it when it starts over.
LEMMA RingRoom ==
  ASSUME NEW s \in Nat, NEW w \in Nat, NEW b \in Nat, NEW c \in Nat, s >= w + 2 * b + 2 * c
  PROVE  b <= s /\ \A e \in Nat : e + b > s => 1 + e >= w + b + 2 * c + 2
  OBVIOUS

\* Everything has been flushed.
LEMMA FlushAllKeeps ==
  ASSUME PipeInv, UNCHANGED cVars, UNCHANGED <<dmem, made, failures, wire>>, dcall.busy, ds.stage = "flush",
         NEW n \in Nat, n = ds.outEnd - ds.outStart, n <= dcall.room,
         received' = received \o [i \in 1 .. n |-> dmem[ds.outStart + i]],
         ds' \in DContexts, SameButFlushed(ds, ds'), ds'.stage = "read",
         ds'.hostage = ds.hostage, ds'.idle = ds.idle, ds'.outStart = ds'.outEnd,
         \/ ds'.outEnd = ds.outEnd /\ (OneSegment \/ ds.outEnd + ds.block <= ds.outSize)
         \/ ds'.outEnd = 0 /\ ~OneSegment /\ ds.outEnd + ds.block > ds.outSize,
         dcall' = Put(dcall, n)
  PROVE  PipeInv'
<1>0. CInv /\ DInv /\ UnderwayInv /\ DTypeInv /\ DStageInv /\ DFlushInv /\ DCallInv /\ DRingInv
  BY DEF PipeInv, DInv
<1>1. /\ ds \in DContexts /\ ds.outStart \in Nat /\ ds.outEnd \in Nat /\ ds.outSize \in Nat
      /\ ds.window \in Nat /\ ds.block \in Nat /\ WildcopyLength \in Nat
      /\ made.all \in Nat /\ Len(received) \in Nat
      /\ dcall \in DCalls /\ dcall.room \in Nat /\ dcall.put \in Nat /\ dcall.took \in Nat
      /\ ds.previousDstEnd \in Int
  BY <1>0, DStreamAssumption DEF DTypeInv, DContexts, DFlushInv, DCalls
<1>2. /\ dcall' \in DCalls /\ dcall'.busy = TRUE /\ dcall'.left = dcall.left
      /\ dcall'.took = dcall.took /\ dcall'.room = dcall.room - n /\ dcall'.put = dcall.put + n
  <2>1. dcall' = [dcall EXCEPT !.room = @ - n, !.put = @ + n]
    BY DEF Put
  <2>2. PICK a \in Nat, b \in Nat : a = dcall.room - n /\ b = dcall.put + n
    <3>1. dcall.room \in Nat /\ dcall.put \in Nat
      BY <1>1
    <3>2. dcall.room - n \in Nat /\ dcall.put + n \in Nat
      BY ONLY <3>1, n \in Nat, n <= dcall.room
    <3>3. QED
      BY <3>2
  <2>3. dcall' = [dcall EXCEPT !.room = a, !.put = b]
    BY <1>1, <2>1, <2>2 DEF DCalls
  <2>4. dcall.busy = TRUE
    BY <1>1 DEF DCalls
  <2>5. QED
    BY <1>1, <2>2, <2>3, <2>4 DEF DCalls
<1>3. Len(received') = Len(received) + n /\ received' = Numbers(0, Len(received'))
  <2>1. n <= ds.outEnd - ds.outStart
    BY <1>1
  <2>2. QED
    BY <1>0, <2>1, FlushedIs
<1>4. DTypeInv'
  BY <1>0, <1>2 DEF DTypeInv, DCalls, SameButFlushed
<1>5. DStageInv'
  BY <1>0 DEF DStageInv, SameButFlushed
<1>6. DFlushInv'
  <2>1. ds.outEnd <= ds.outSize /\ Len(received) + (ds.outEnd - ds.outStart) = made.all
    BY <1>0 DEF DFlushInv
  <2>2. Len(received') = made.all /\ Len(received') \in Nat
    BY <1>1, <1>3, <2>1
  <2>3. ds'.outEnd <= ds'.outSize /\ ds'.outEnd \in Nat
    BY <1>1, <2>1 DEF SameButFlushed
  <2>4. ds'.outEnd - ds'.outStart = 0 /\ ds'.outStart <= ds'.outEnd
    BY <2>3
  <2>5. Len(received') + 0 = made'.all
    BY <2>2
  <2>6. QED
    BY <1>3, <2>2, <2>3, <2>4, <2>5 DEF DFlushInv
<1>7. DCallInv'
  <2>1. /\ dcall.left <= Len(wire) /\ (dcall.room = 0 => dcall.put > 0)
        /\ (dcall.left = 0 /\ dcall.took + dcall.put = 0 => ds.idle = 0)
        /\ (dcall.took + dcall.put = 0 => ds.idle <= 1)
        /\ ds.idle <= 2
    BY <1>0 DEF DCallInv
  <2>2. dcall'.room = 0 => dcall'.put > 0
    BY <1>1, <1>2, <2>1
  <2>3. dcall'.took + dcall'.put = 0 => dcall.took + dcall.put = 0
    BY <1>1, <1>2
  <2>4. QED
    BY <1>2, <2>1, <2>2, <2>3 DEF DCallInv
<1>8. DRingInv'
  <2>1. SUFFICES ASSUME DecodingBlocks PROVE DRoomInv' /\ DSegmentsInv' /\ DHistoryInv'
    BY DEF DRingInv, DecodingBlocks, SameButFlushed
  <2>2. DRoomInv /\ DSegmentsInv /\ DHistoryInv
    BY <1>0, <2>1 DEF DRingInv
  <2>3. DHistoryInv'
    BY <2>2 DEF DHistoryInv, DReach, DAddress, SameButFlushed
  <2>4. OneSegment' <=> OneSegment
    BY DEF OneSegment, SameButFlushed
  <2>5. Behind' = Behind
    BY DEF Behind, SameButFlushed
  <2>6. ds'.outSize = ds.outSize /\ ds'.window = ds.window /\ ds'.block = ds.block /\ made' = made
        /\ ds'.prefixStart = ds.prefixStart /\ ds'.dictEnd = ds.dictEnd
        /\ ds'.virtualStart = ds.virtualStart /\ ds'.previousDstEnd = ds.previousDstEnd
    BY DEF SameButFlushed
  <2>7. ~OneSegment => ds.outSize >= ds.window + 2 * ds.block + 2 * WildcopyLength
    BY <2>2 DEF DRoomInv
  <2>8. DRoomInv'
    <3>1. CASE OneSegment
      <4>1. ds.outEnd = made.all - made.before /\ ds'.outEnd = ds.outEnd
        BY <2>2, <3>1 DEF DRoomInv
      <4>2. QED
        BY <2>4, <2>6, <3>1, <4>1 DEF DRoomInv
    <3>2. CASE ~OneSegment
      <4>0. ds.block <= ds.outSize
        BY <1>1, <2>7, <3>2, RingRoom
      <4>1. ds'.outEnd + ds'.block <= ds'.outSize
        <5>1. CASE ds'.outEnd = ds.outEnd /\ (OneSegment \/ ds.outEnd + ds.block <= ds.outSize)
          BY <2>6, <3>2, <5>1
        <5>2. CASE ds'.outEnd = 0 /\ ~OneSegment /\ ds.outEnd + ds.block > ds.outSize
          <6>1. PICK s \in Nat, b \in Nat : s = ds.outSize /\ b = ds.block
            BY <1>1
          <6>2. 0 + b <= s
            BY ONLY <4>0, <6>1, s \in Nat, b \in Nat
          <6>3. QED
            BY <2>6, <5>2, <6>1, <6>2
        <5>3. QED
          BY <5>1, <5>2
      <4>2. QED
        BY <2>4, <2>6, <2>7, <3>2, <4>1 DEF DRoomInv
    <3>3. QED
      BY <3>1, <3>2
  <2>9. /\ ds.previousDstEnd # 0 /\ ds.prefixStart = 1 /\ ds.previousDstEnd = 1 + ds.outEnd
        /\ ds.previousDstEnd > 0 /\ ds.previousDstEnd <= ds.outSize + 1
        /\ IF ds.dictEnd = 0
           THEN ds.virtualStart = 1 /\ made.all - made.before = ds.previousDstEnd - 1
           ELSE /\ ds.dictEnd >= Behind /\ ds.dictEnd <= ds.outSize + 1
                /\ ds.virtualStart = 2 - ds.dictEnd /\ ~OneSegment
    BY <2>2 DEF DSegmentsInv
  <2>10. \/ ds.previousDstEnd = 1 + ds'.outEnd
         \/ ~OneSegment /\ ds'.outEnd = 0 /\ ds.previousDstEnd >= Behind
    <3>1. CASE ds'.outEnd = ds.outEnd
      BY <2>9, <3>1
    <3>2. CASE ds'.outEnd = 0 /\ ~OneSegment /\ ds.outEnd + ds.block > ds.outSize
      <4>1. ds.previousDstEnd >= Behind
        <5>1. PICK s \in Nat, w \in Nat, b \in Nat, c \in Nat, e \in Nat :
                s = ds.outSize /\ w = ds.window /\ b = ds.block /\ c = WildcopyLength /\ e = ds.outEnd
          BY <1>1
        <5>2. s >= w + 2 * b + 2 * c /\ e + b > s
          BY <2>7, <3>2, <5>1
        <5>3. 1 + e >= w + b + 2 * c + 2
          BY ONLY <5>2, RingRoom, s \in Nat, w \in Nat, b \in Nat, c \in Nat, e \in Nat
        <5>4. QED
          BY <2>9, <5>1, <5>3 DEF Behind
      <4>2. QED
        BY <3>2, <4>1
    <3>3. QED
      BY <3>1, <3>2
  <2>11. DSegmentsInv'
    BY <2>4, <2>5, <2>6, <2>9, <2>10 DEF DSegmentsInv
  <2>12. QED
    BY <2>3, <2>8, <2>11
<1>9. Held = <<>> /\ Held' = <<>> /\ cs' = cs /\ Lying' = Lying
  BY <1>0, WriterStays DEF Held, Lying
<1>10. Underway' = Underway
  BY <1>9 DEF Underway
<1>11. PICK p \in Places, q \in Places : Matches(p) /\ Parses(p, Underway, q) /\ LedTo(cs, Written, q)
  BY <1>0 DEF UnderwayInv
<1>12. Matches(p)'
  BY <1>11 DEF Matches, InFrame, SameButFlushed
<1>13. UnderwayInv'
  BY <1>0, <1>9, <1>10, <1>11, <1>12, UnderwayParts, UnderwayKeeps
<1>14. QED
  BY <1>0, <1>4, <1>5, <1>6, <1>7, <1>8, <1>13, WriterStays DEF PipeInv, DInv

\* The call after n bytes have been put out.
LEMMA PutIs ==
  ASSUME NEW c \in DCalls, NEW n \in Nat, n <= c.room
  PROVE  /\ Put(c, n).room = c.room - n /\ Put(c, n).put = c.put + n /\ Put(c, n).took = c.took
         /\ Put(c, n).left = c.left
<1>1. c.room \in Nat /\ c.put \in Nat
  BY DEF DCalls
<1>2. QED
  BY <1>1 DEF Put, DCalls

\* Some of what has been decoded is flushed, or all of it.
LEMMA FlushKeeps ==
  ASSUME PipeInv, UNCHANGED cVars, Flush
  PROVE  PipeInv'
<1>0. CInv /\ DInv /\ UnderwayInv /\ DTypeInv /\ DStageInv /\ DFlushInv /\ DCallInv /\ DRingInv
  BY DEF PipeInv, DInv
<1>1. /\ ds \in DContexts /\ ds.outStart \in Nat /\ ds.outEnd \in Nat /\ ds.outSize \in Nat
      /\ ds.expected \in Nat /\ ds.hostage \in BOOLEAN /\ ds.block \in Nat /\ ds.idle \in Nat
      /\ dcall \in DCalls /\ dcall.room \in Nat /\ dcall.put \in Nat /\ dcall.took \in Nat
      /\ ds.outStart <= ds.outEnd
  BY <1>0 DEF DTypeInv, DContexts, DCalls, DFlushInv
<1>2. PICK n \in Nat : /\ n = MIN(ds.outEnd - ds.outStart, dcall.room)
                       /\ n <= ds.outEnd - ds.outStart /\ n <= dcall.room
                       /\ (n = ds.outEnd - ds.outStart \/ n = dcall.room)
  BY <1>1 DEF MIN
<1>3. PICK start \in Nat : start = ds.outStart + n /\ start <= ds.outEnd
  BY <1>1, <1>2
<1> DEFINE d == [ds EXCEPT !.outStart = start]
           wraps == /\ (ds.fcs = Unknown \/ ds.outSize < ds.fcs)
                    /\ start + ds.block > ds.outSize
<1>4. /\ dcall.busy /\ ds.stage = "flush"
      /\ received' = received \o [i \in 1 .. n |-> dmem[ds.outStart + i]]
      /\ IF start < ds.outEnd
         THEN DReturn(d, Put(dcall, n), wire)
         ELSE /\ ds' = IF wraps THEN [d EXCEPT !.stage = "read", !.outStart = 0, !.outEnd = 0]
                       ELSE [d EXCEPT !.stage = "read"]
              /\ dcall' = Put(dcall, n)
              /\ UNCHANGED wire
      /\ UNCHANGED <<dmem, made, failures>>
  BY <1>2, <1>3 DEF Flush, DAt
<1>5. /\ d \in DContexts /\ d.outStart = start /\ d.outEnd = ds.outEnd /\ d.stage = ds.stage
      /\ d.hostage = ds.hostage /\ d.idle = ds.idle /\ d.expected = ds.expected
      /\ SameButFlushed(ds, d)
  BY <1>1 DEF DContexts, SameButFlushed
<1>6. PICK c : c = Put(dcall, n) /\ c.room = dcall.room - n /\ c.put = dcall.put + n /\ c.took = dcall.took
  BY <1>1, <1>2, PutIs
<1>7. CASE start < ds.outEnd
  <2>1. n = dcall.room /\ c.room = 0
    BY <1>1, <1>2, <1>3, <1>6, <1>7
  <2>2. c.took + c.put # 0
    <3>1. dcall.room = 0 => dcall.put > 0
      BY <1>0, <1>4 DEF DCallInv
    <3>2. QED
      BY <1>1, <1>6, <2>1, <3>1
  <2>3. DReturn(d, c, wire)
    BY <1>4, <1>6, <1>7
  <2> HIDE DEF d
  <2>4. PICK zero \in Nat : zero = 0
    OBVIOUS
  <2> DEFINE count == [d EXCEPT !.idle = zero]
  <2>5. /\ count \in DContexts /\ count.outStart = start /\ count.outEnd = ds.outEnd /\ count.stage = ds.stage
        /\ count.hostage = ds.hostage /\ count.idle = 0 /\ count.expected = ds.expected
        /\ SameButFlushed(ds, count)
    BY <1>5, <2>4 DEF DContexts, SameButFlushed
  <2>6. IF ds.expected # 0
        THEN ds' = count /\ wire' = wire /\ dcall' = Returned(c, ds.expected)
        ELSE /\ ds' = [count EXCEPT !.hostage = TRUE]
             /\ wire' = IF ds.hostage THEN wire ELSE <<[k |-> "hostage"]>> \o wire
             /\ dcall' = Returned(c, 1)
    <3>1. [d EXCEPT !.idle = IF c.took + c.put = 0 THEN @ + 1 ELSE 0] = count
      BY <2>2, <2>4
    <3>2. d.outEnd # d.outStart
      BY <1>1, <1>3, <1>5, <1>7
    <3> HIDE DEF count
    <3>3. QED
      BY <1>5, <2>3, <3>1, <3>2 DEF DReturn
  <2> HIDE DEF count
  <2>7. ds.outStart + n < ds.outEnd
    BY <1>3, <1>7
  <2>8. CASE ds.expected # 0
    <3>1. ds' = count /\ wire' = wire /\ dcall' = Returned(c, ds.expected)
      BY <2>6, <2>8
    <3>2. dcall' \in DCalls /\ ~dcall'.busy /\ dcall'.ret # 0 /\ dcall'.full
      BY <1>1, <2>1, <2>8, <3>1, ReturnedIs
    <3>3. ds' \in DContexts /\ SameButFlushed(ds, ds') /\ ds'.stage = "flush" /\ ds'.outStart = ds.outStart + n
          /\ ds'.outEnd = ds.outEnd /\ ds'.idle = 0 /\ (ds'.hostage <=> (ds.hostage \/ ds.expected = 0))
      BY <1>3, <1>4, <2>5, <2>8, <3>1
    <3>4. wire' = IF ds.hostage \/ ds.expected # 0 THEN wire ELSE Cat(<<[k |-> "hostage"]>>, wire)
      BY <2>8, <3>1
    <3>5. QED
      BY <1>2, <1>4, <2>7, <3>2, <3>3, <3>4, FlushPartKeeps
  <2>9. CASE ds.expected = 0
    <3>0. PICK one \in Nat, yes \in BOOLEAN : one = 1 /\ yes = TRUE
      OBVIOUS
    <3>1. /\ ds' = [count EXCEPT !.hostage = yes]
          /\ wire' = IF ds.hostage THEN wire ELSE <<[k |-> "hostage"]>> \o wire
          /\ dcall' = Returned(c, one)
      BY <2>6, <2>9, <3>0
    <3>2. dcall' \in DCalls /\ ~dcall'.busy /\ dcall'.ret # 0 /\ dcall'.full
      BY <2>1, <3>0, <3>1, ReturnedIs
    <3>3. ds' \in DContexts /\ SameButFlushed(ds, ds') /\ ds'.stage = "flush" /\ ds'.outStart = ds.outStart + n
          /\ ds'.outEnd = ds.outEnd /\ ds'.idle = 0
      BY <1>3, <1>4, <2>5, <3>1 DEF DContexts, SameButFlushed
    <3>4. ds'.hostage
      BY <2>5, <3>0, <3>1 DEF DContexts
    <3>5. wire' = IF ds.hostage \/ ds.expected # 0 THEN wire ELSE Cat(<<[k |-> "hostage"]>>, wire)
      BY <2>9, <3>1 DEF Cat
    <3>6. QED
      BY <1>2, <1>4, <2>7, <2>9, <3>2, <3>3, <3>4, <3>5, FlushPartKeeps
  <2>10. QED
    BY <1>1, <2>8, <2>9
<1>8. CASE ~(start < ds.outEnd)
  <2>1. start = ds.outEnd /\ n = ds.outEnd - ds.outStart
    BY <1>1, <1>3, <1>8
  <2>2. /\ ds' = IF wraps THEN [d EXCEPT !.stage = "read", !.outStart = 0, !.outEnd = 0]
                 ELSE [d EXCEPT !.stage = "read"]
        /\ dcall' = Put(dcall, n) /\ wire' = wire
    BY <1>4, <1>8
  <2>3. (ds.fcs = Unknown \/ ds.outSize < ds.fcs) <=> ~OneSegment
    <3>1. ds.fcs # Unknown => ds.fcs \in Nat
      BY <1>1 DEF DContexts
    <3>2. QED
      BY <1>1, <3>1 DEF OneSegment
  <2> HIDE DEF d
  <2>4. CASE wraps
    <3>0. PICK zero \in Nat : zero = 0
      OBVIOUS
    <3>1. ds' = [d EXCEPT !.stage = "read", !.outStart = zero, !.outEnd = zero]
      BY <2>2, <2>4, <3>0
    <3>2. ds' \in DContexts /\ SameButFlushed(ds, ds') /\ ds'.stage = "read" /\ ds'.hostage = ds.hostage
          /\ ds'.idle = ds.idle /\ ds'.outStart = ds'.outEnd /\ ds'.outEnd = 0
      BY <1>5, <3>0, <3>1 DEF DContexts, SameButFlushed
    <3>3. ~OneSegment /\ ds.outEnd + ds.block > ds.outSize
      BY <2>1, <2>3, <2>4
    <3>4. QED
      BY <1>2, <1>4, <2>1, <2>2, <3>2, <3>3, FlushAllKeeps
  <2>5. CASE ~wraps
    <3>1. ds' = [d EXCEPT !.stage = "read"]
      BY <2>2, <2>5
    <3>2. ds' \in DContexts /\ SameButFlushed(ds, ds') /\ ds'.stage = "read" /\ ds'.hostage = ds.hostage
          /\ ds'.idle = ds.idle /\ ds'.outStart = ds'.outEnd /\ ds'.outEnd = ds.outEnd
      BY <1>5, <2>1, <3>1 DEF DContexts, SameButFlushed
    <3>3. OneSegment \/ ds.outEnd + ds.block <= ds.outSize
      BY <1>1, <2>1, <2>3, <2>5
    <3>4. QED
      BY <1>2, <1>4, <2>1, <2>2, <3>2, <3>3, FlushAllKeeps
  <2>6. QED
    BY <2>4, <2>5
<1>9. QED
  BY <1>7, <1>8

-----------------------------------------------------------------------------
(* Where the decoder goes on in the ring. *)

\* The byte that is k back from the end pde of what has been decoded, when what does
\* not lie in front of it lies in front of dict.
Address(k, pde, dict) == IF k < pde THEN pde - k ELSE dict - (k - (pde - 1))

\* Whatever can be referred to lies in the ring, either in front of the next byte or
\* behind everything that a decoder of a block may write there.
LEMMA AddressIs ==
  ASSUME NEW h \in Nat, NEW dict \in Int, NEW w \in Nat, NEW b \in Nat, NEW c \in Nat, NEW size \in Nat,
         NEW past \in Nat, h <= size,
         IF dict = 0 THEN past = h ELSE dict >= w + b + 2 * c + 2 /\ dict <= size + 1,
         NEW k \in Nat, k >= 1, k <= w, k <= past
  PROVE  /\ Address(k, 1 + h, dict) \in Int
         /\ Address(k, 1 + h, dict) >= 1 /\ Address(k, 1 + h, dict) <= size
         /\ Address(k, 1 + h, dict) <= h \/ Address(k, 1 + h, dict) >= 1 + h + b + c
<1>1. CASE k < 1 + h
  <2>1. Address(k, 1 + h, dict) = 1 + h - k
    BY <1>1 DEF Address
  <2>2. QED
    BY <1>1, <2>1
<1>2. CASE ~(k < 1 + h)
  <2>1. Address(k, 1 + h, dict) = dict - (k - h)
    BY <1>2 DEF Address
  <2>2. dict # 0
    BY <1>2
  <2>3. dict >= w + b + 2 * c + 2 /\ dict <= size + 1
    BY <2>2
  <2>4. QED
    BY <1>2, <2>1, <2>3
<1>3. QED
  BY <1>1, <1>2

\* The same byte, when len more have been decoded.
LEMMA AddressMoves ==
  ASSUME NEW u \in Int, NEW v \in Int, NEW dict \in Int, NEW len \in Nat, v = u + len,
         NEW k \in Int, NEW j \in Int, j = k + len
  PROVE  Address(j, v, dict) = Address(k, u, dict)
<1>1. /\ j < v <=> k < u
      /\ v - j = u - k /\ j - (v - 1) = k - (u - 1)
  OBVIOUS
<1>2. CASE k < u
  BY <1>1, <1>2 DEF Address
<1>3. CASE ~(k < u)
  BY <1>1, <1>3 DEF Address
<1>4. QED
  BY <1>2, <1>3

\* The fields that ZSTD_checkContinuity leaves alone.
SameButSegments(d, e) ==
  /\ e.stage = d.stage /\ e.dstage = d.dstage /\ e.head = d.head /\ e.expected = d.expected
  /\ e.raw = d.raw /\ e.inBuff = d.inBuff /\ e.inSize = d.inSize /\ e.outSize = d.outSize
  /\ e.outStart = d.outStart /\ e.outEnd = d.outEnd /\ e.hostage = d.hostage
  /\ e.fcs = d.fcs /\ e.window = d.window /\ e.block = d.block /\ e.checksum = d.checksum
  /\ e.oversized = d.oversized /\ e.idle = d.idle

\* What ZSTD_checkContinuity leaves alone.
LEMMA CheckFields ==
  ASSUME NEW d \in DContexts, NEW size \in Int
  PROVE  /\ CheckContinuity(d, Here(d), size) \in DContexts
         /\ SameButSegments(d, CheckContinuity(d, Here(d), size))
         /\ size = 0 => CheckContinuity(d, Here(d), size) = d
<1>1. PICK dst \in Int : dst = Here(d)
  BY DEF Here, DContexts
<1>2. /\ d.previousDstEnd \in Int /\ d.prefixStart \in Int
  BY DEF DContexts
<1>3. PICK a \in Int : a = dst - (d.previousDstEnd - d.prefixStart)
  BY <1>2
<1>4. PICK b \in Int : b = d.previousDstEnd
  BY <1>2
<1>5. CASE dst = d.previousDstEnd \/ size = 0
  <2>1. CheckContinuity(d, dst, size) = d
    BY <1>5 DEF CheckContinuity
  <2>2. QED
    BY <1>1, <2>1 DEF SameButSegments
<1>6. CASE ~(dst = d.previousDstEnd \/ size = 0)
  <2>1. CheckContinuity(d, dst, size)
          = [d EXCEPT !.dictEnd = b, !.virtualStart = a, !.prefixStart = dst, !.previousDstEnd = dst]
    BY <1>3, <1>4, <1>6 DEF CheckContinuity
  <2>2. PICK e : e = [d EXCEPT !.dictEnd = b, !.virtualStart = a, !.prefixStart = dst,
                             !.previousDstEnd = dst]
    OBVIOUS
  <2>3. e \in DContexts
    BY ONLY <2>2, d \in DContexts, a \in Int, b \in Int, dst \in Int DEF DContexts
  <2>4. SameButSegments(d, e)
    BY ONLY <2>2, d \in DContexts DEF SameButSegments, DContexts
  <2>5. QED
    BY <1>1, <1>6, <2>1, <2>2, <2>3, <2>4
<1>7. QED
  BY <1>5, <1>6

\* The ring, where the next block goes.
GoesOnHere(e) ==
  /\ e.previousDstEnd = 1 + ds.outEnd /\ e.prefixStart = 1
  /\ IF e.dictEnd = 0 THEN e.virtualStart = 1 /\ made.all - made.before = ds.outEnd
     ELSE /\ e.dictEnd >= Behind /\ e.dictEnd <= ds.outSize + 1
          /\ e.virtualStart = 2 - e.dictEnd /\ ~OneSegment
  /\ \A k \in 1 .. DReach : dmem[Address(k, 1 + ds.outEnd, e.dictEnd)] = made.all - k + 1

\* After ZSTD_checkContinuity the decoder looks for the history where it is.
LEMMA CheckGoesOn ==
  ASSUME DInv, DecodingBlocks, ds.stage \in {"read", "load"}, Room(ds) # 0
  PROVE  GoesOnHere(CheckContinuity(ds, Here(ds), Room(ds)))
<1>0. DTypeInv /\ DFlushInv /\ DRoomInv /\ DSegmentsInv /\ DHistoryInv
  BY DEF DInv, DRingInv
<1>1. /\ ds \in DContexts /\ ds.outStart \in Nat /\ ds.outEnd \in Nat /\ ds.outSize \in Nat
      /\ ds.window \in Nat /\ ds.block \in Nat /\ WildcopyLength \in Nat
      /\ made.all \in Nat /\ made.before \in Nat /\ ds.outStart = ds.outEnd
      /\ ds.previousDstEnd \in Int /\ ds.dictEnd \in Int /\ ds.prefixStart \in Int
  BY <1>0, DStreamAssumption DEF DTypeInv, DContexts, DFlushInv
<1>2. Here(ds) = 1 + ds.outEnd
  BY <1>1 DEF Here
<1>3. PICK e \in DContexts : e = CheckContinuity(ds, Here(ds), Room(ds))
  <2>1. Room(ds) \in Int
    BY <1>1 DEF Room
  <2>2. QED
    BY <1>1, <2>1, CheckFields
<1>4. \A k \in 1 .. DReach : dmem[DAddress(k)] = made.all - k + 1
  BY <1>0 DEF DHistoryInv
<1>5. DReach \in Int /\ DReach <= ds.window /\ DReach <= made.all - made.before
  BY <1>1 DEF DReach, MIN
<1>6. CASE Here(ds) = ds.previousDstEnd
  <2>1. e = ds
    BY <1>3, <1>6 DEF CheckContinuity
  <2>2. ds.previousDstEnd = 1 + ds.outEnd /\ ds.previousDstEnd # 0
    BY <1>1, <1>2, <1>6
  <2>3. \A k \in 1 .. DReach : Address(k, 1 + ds.outEnd, ds.dictEnd) = DAddress(k)
    BY <2>2 DEF Address, DAddress
  <2>4. /\ ds.prefixStart = 1
        /\ IF ds.dictEnd = 0 THEN ds.virtualStart = 1 /\ made.all - made.before = ds.previousDstEnd - 1
           ELSE /\ ds.dictEnd >= Behind /\ ds.dictEnd <= ds.outSize + 1
                /\ ds.virtualStart = 2 - ds.dictEnd /\ ~OneSegment
    BY <1>0, <2>2 DEF DSegmentsInv
  <2>5. ds.previousDstEnd - 1 = ds.outEnd
    BY <1>1, <2>2
  <2>6. GoesOnHere(ds)
    BY <1>4, <2>2, <2>3, <2>4, <2>5 DEF GoesOnHere
  <2>7. QED
    BY <1>3, <2>1, <2>6
<1>7. CASE Here(ds) # ds.previousDstEnd
  <2>1. e = [ds EXCEPT !.dictEnd = ds.previousDstEnd,
                       !.virtualStart = (1 + ds.outEnd) - (ds.previousDstEnd - ds.prefixStart),
                       !.prefixStart = 1 + ds.outEnd, !.previousDstEnd = 1 + ds.outEnd]
    BY <1>2, <1>3, <1>7 DEF CheckContinuity
  <2>2. /\ e.dictEnd = ds.previousDstEnd /\ e.prefixStart = 1 + ds.outEnd
        /\ e.previousDstEnd = 1 + ds.outEnd
        /\ e.virtualStart = (1 + ds.outEnd) - (ds.previousDstEnd - ds.prefixStart)
    BY <1>1, <2>1 DEF DContexts
  <2>3. CASE ds.previousDstEnd = 0
    <3>1. made.all = made.before /\ ds.outEnd = 0 /\ ds.prefixStart = 0
      BY <1>0, <2>3 DEF DSegmentsInv
    <3>2. ~\E k \in 1 .. DReach : TRUE
      BY <1>1, <1>5, <3>1
    <3>3. /\ e.dictEnd = 0 /\ e.prefixStart = 1 /\ e.previousDstEnd = 1 + ds.outEnd /\ e.virtualStart = 1
          /\ made.all - made.before = ds.outEnd
      BY <1>1, <2>2, <2>3, <3>1
    <3>4. GoesOnHere(e)
      BY <3>2, <3>3 DEF GoesOnHere
    <3>5. QED
      BY <1>3, <3>4
  <2>4. CASE ds.previousDstEnd # 0
    <3>1. /\ ds.prefixStart = 1 /\ ds.outEnd = 0 /\ ds.previousDstEnd >= Behind
          /\ ds.previousDstEnd <= ds.outSize + 1 /\ ~OneSegment
      BY <1>0, <1>1, <1>2, <1>7, <2>4 DEF DSegmentsInv
    <3>2. /\ e.dictEnd = ds.previousDstEnd /\ e.prefixStart = 1 /\ e.previousDstEnd = 1 + ds.outEnd
          /\ e.virtualStart = 2 - e.dictEnd
      BY <1>1, <2>2, <3>1
    <3>3. \A k \in 1 .. DReach : Address(k, 1 + ds.outEnd, e.dictEnd) = DAddress(k)
      <4>1. SUFFICES ASSUME NEW k \in 1 .. DReach PROVE Address(k, 1 + ds.outEnd, e.dictEnd) = DAddress(k)
        OBVIOUS
      <4>2. PICK w \in Nat, b \in Nat, c \in Nat, z \in Int :
              w = ds.window /\ b = ds.block /\ c = WildcopyLength /\ z = ds.previousDstEnd
        BY <1>1
      <4>3. z >= w + b + 2 * c + 2
        BY <3>1, <4>2 DEF Behind
      <4>4. k \in Int /\ k >= 1 /\ k <= w
        BY <1>5, <4>2
      <4>5. k < z
        BY ONLY <4>3, <4>4, w \in Nat, b \in Nat, c \in Nat, z \in Int
      <4>6. DAddress(k) = z - k
        BY <4>2, <4>5 DEF DAddress
      <4>7. Address(k, 1 + ds.outEnd, e.dictEnd) = z - (k - ((1 + 0) - 1))
        BY <3>1, <3>2, <4>2, <4>4 DEF Address
      <4>8. QED
        BY <4>4, <4>6, <4>7
    <3>4. GoesOnHere(e)
      BY <1>4, <2>4, <3>1, <3>2, <3>3 DEF GoesOnHere
    <3>5. QED
      BY <1>3, <3>4
  <2>5. QED
    BY <2>3, <2>4
<1>8. QED
  BY <1>6, <1>7

-----------------------------------------------------------------------------
(* Units are taken and decoded. *)

\* Where the units lead that have been taken before and are taken now.
LEMMA UnitsLead ==
  ASSUME PipeInv, ~ds.hostage, NEW n \in Nat, n <= Len(wire)
  PROVE  /\ Cat(Held, Take(wire, n)) \in Seq(Units) /\ Held \in Seq(Units)
         /\ Take(wire, n) \in Seq(Units) /\ Len(Take(wire, n)) = n
         /\ \E p \in Places, q \in Places, r \in Places :
              /\ Matches(p) /\ LedTo(cs, Written, q)
              /\ Parses(p, Cat(Held, Take(wire, n)), r)
              /\ Parses(r, Cat(Drop(wire, n), cs.outBuff), q)
<1>0. CInv /\ DInv /\ UnderwayInv
  BY DEF PipeInv
<1>1. PICK s \in Seq(Units), t \in Seq(Units) :
        s = Cat(Held, Take(wire, n)) /\ t = Cat(Drop(wire, n), cs.outBuff) /\ Underway = Cat(s, t)
  BY <1>0, Taken
<1>2. PICK p \in Places, q \in Places : Matches(p) /\ Parses(p, Underway, q) /\ LedTo(cs, Written, q)
  BY <1>0 DEF UnderwayInv
<1>3. Parses(p, s \o t, q)
  BY <1>1, <1>2 DEF Cat
<1>4. PICK r \in Places : Parses(p, s, r) /\ Parses(r, t, q)
  BY <1>3, PassPart
<1>5. /\ Cat(Held, Take(wire, n)) \in Seq(Units) /\ Held \in Seq(Units)
      /\ Take(wire, n) \in Seq(Units) /\ Len(Take(wire, n)) = n
  BY <1>0, Taken, UnderwayParts
<1>6. QED
  BY <1>1, <1>2, <1>4, <1>5

\* One unit is passed.
LEMMA OneMoves ==
  ASSUME NEW p, NEW s \in Seq(Units), NEW r, Parses(p, s, r), Len(s) = 1
  PROVE  Moves(p, s[1], r)
<1>1. PICK run : Runs(run, s, p, r)
  BY DEF Parses
<1>2. run[0] = p /\ run[1] = r /\ Moves(run[1 - 1], s[1], run[1])
  BY <1>1 DEF Runs
<1>3. QED
  BY <1>2

\* The call after n units have been taken.
LEMMA TookIs ==
  ASSUME dcall \in DCalls, NEW n \in Nat, n <= dcall.left, dcall' = Took(n)
  PROVE  /\ dcall' \in DCalls /\ dcall'.busy = dcall.busy /\ dcall'.left = dcall.left - n
         /\ dcall'.took = dcall.took + n /\ dcall'.room = dcall.room /\ dcall'.put = dcall.put
<1>1. dcall.left \in Nat /\ dcall.took \in Nat
  BY DEF DCalls
<1>2. PICK a \in Nat, b \in Nat : a = dcall.left - n /\ b = dcall.took + n
  BY <1>1
<1>3. dcall' = [dcall EXCEPT !.left = a, !.took = b]
  BY <1>2 DEF Took, DCalls
<1>4. QED
  BY <1>2, <1>3 DEF DCalls

\* All that is left to show is that the ring and the place are right.
LEMMA ContinueKeeps ==
  ASSUME PipeInv, UNCHANGED cVars, UNCHANGED <<received, failures>>, dcall.busy, ~ds.hostage,
         ds.stage \in {"read", "load"},
         NEW n \in Nat, n > 0, n <= dcall.left, wire' = Drop(wire, n), dcall' = Took(n),
         ds' \in DContexts, ds'.stage \in {"read", "flush"}, ds'.dstage # "skip", ds'.inBuff = <<>>,
         ds'.hostage = FALSE, ds'.idle = ds.idle,
         dmem' \in [1 .. ds'.outSize -> Nat], made' \in [all : Nat, before : Nat],
         DFlushInv', DRingInv',
         NEW r \in Places, Matches(r)', NEW q \in Places, LedTo(cs, Written, q),
         Parses(r, Cat(Drop(wire, n), cs.outBuff), q)
  PROVE  PipeInv'
<1>0. CInv /\ DInv /\ UnderwayInv /\ DTypeInv /\ DCallInv
  BY DEF PipeInv, DInv
<1>1. /\ dcall \in DCalls /\ dcall.left \in Nat /\ dcall.took \in Nat /\ dcall.put \in Nat
      /\ dcall.left <= Len(wire)
  BY <1>0 DEF DTypeInv, DCalls, DCallInv
<1>2. /\ dcall' \in DCalls /\ dcall'.busy = dcall.busy /\ dcall'.left = dcall.left - n
      /\ dcall'.took = dcall.took + n /\ dcall'.room = dcall.room /\ dcall'.put = dcall.put
  BY <1>1, TookIs
<1>3. Len(wire) \in Nat
  BY <1>0, LenProperties DEF UnderwayInv
<1>4. /\ wire' \in Seq(Units) /\ wire' \in Seq(Lyings) /\ Len(wire') = Len(wire) - n
  <2>1. n <= Len(wire)
    BY <1>1, <1>3
  <2>2. /\ Drop(wire, n) \in Seq(Units) /\ Drop(wire, n) \in Seq(Lyings)
        /\ Len(Drop(wire, n)) = Len(wire) - n
    BY <1>0, <2>1, Taken
  <2>3. QED
    BY <2>2
<1>5. DTypeInv'
  BY <1>0, <1>2 DEF DTypeInv, DCalls
<1>6. DStageInv'
  BY DEF DStageInv
<1>7. DCallInv'
  <2>1. ds'.idle <= 2 /\ (dcall.room = 0 => dcall.put > 0)
    BY <1>0 DEF DCallInv
  <2>2. dcall'.left <= Len(wire')
    BY <1>1, <1>2, <1>3, <1>4
  <2>3. dcall'.took \in Nat /\ dcall'.put \in Nat /\ dcall'.took + dcall'.put > 0
    BY <1>1, <1>2
  <2>4. dcall'.busy = TRUE
    BY <1>1, <1>2 DEF DCalls
  <2>5. QED
    BY <1>2, <2>1, <2>2, <2>3, <2>4 DEF DCallInv
<1>8. Lying' = wire' /\ Held' = <<>> /\ cs' = cs
  BY <1>0, WriterStays DEF Lying, Held
<1>9. Underway' = Cat(wire', cs.outBuff)
  <2>1. cs.outBuff \in Seq(Units)
    BY <1>0, UnderwayParts
  <2>2. PICK s \in Seq(Units) : s = Cat(wire', cs.outBuff)
    BY <1>4, <2>1, CatGroups
  <2>3. Underway' = Cat(<<>>, s)
    BY <1>8, <2>2 DEF Underway, Cat
  <2>4. QED
    BY <2>2, <2>3, NothingFirst
<1>10. UnderwayInv'
  <2>1. Parses(r, Underway', q)
    BY <1>9
  <2>2. Lying' \in Seq(Units)
    BY <1>4, <1>8
  <2>3. QED
    BY <1>0, <1>4, <2>1, <2>2, UnderwayKeeps
<1>11. QED
  BY <1>0, <1>5, <1>6, <1>7, <1>10, WriterStays DEF PipeInv, DInv

\* The context d goes on in the ring of e.
SameRing(e, d) ==
  /\ d.previousDstEnd = e.previousDstEnd /\ d.prefixStart = e.prefixStart
  /\ d.dictEnd = e.dictEnd /\ d.virtualStart = e.virtualStart
  /\ d.outSize = e.outSize /\ d.outStart = e.outStart
  /\ d.window = e.window /\ d.block = e.block /\ d.fcs = e.fcs /\ d.checksum = e.checksum
  /\ d.hostage = e.hostage /\ d.idle = e.idle /\ d.inBuff = e.inBuff

\* The ring is right behind a header: nothing has been written.
LEMMA RingAgain ==
  ASSUME DInv, DecodingBlocks, ds.stage = "read",
         SameRing(CheckContinuity(ds, Here(ds), Room(ds)), ds'),
         ds'.outEnd = ds.outEnd, ds'.stage = "read", UNCHANGED <<dmem, made>>
  PROVE  DRingInv'
<1>0. DTypeInv /\ DFlushInv /\ DRoomInv /\ DSegmentsInv /\ DHistoryInv
  BY DEF DInv, DRingInv
<1>1. /\ ds \in DContexts /\ ds.outEnd \in Nat /\ ds.outSize \in Nat /\ ds.outStart \in Nat
      /\ ds.outStart = ds.outEnd /\ ds.outEnd <= ds.outSize
  BY <1>0 DEF DTypeInv, DContexts, DFlushInv
<1>2. PICK room \in Int : room = Room(ds)
  BY <1>1 DEF Room
<1>3. PICK e \in DContexts : /\ e = CheckContinuity(ds, Here(ds), Room(ds)) /\ SameButSegments(ds, e)
                             /\ room = 0 => e = ds
  BY <1>1, <1>2, CheckFields
<1>4. SameRing(e, ds')
  BY <1>3
<1>5. /\ ds'.outSize = ds.outSize /\ ds'.window = ds.window /\ ds'.block = ds.block /\ ds'.fcs = ds.fcs
      /\ ds'.previousDstEnd = e.previousDstEnd /\ ds'.prefixStart = e.prefixStart
      /\ ds'.dictEnd = e.dictEnd /\ ds'.virtualStart = e.virtualStart
  BY <1>3, <1>4 DEF SameRing, SameButSegments
<1>6. (OneSegment' <=> OneSegment) /\ Behind' = Behind /\ DReach' = DReach
  BY <1>5 DEF OneSegment, Behind, DReach
<1>7. DRoomInv'
  BY <1>0, <1>5, <1>6 DEF DRoomInv
<1>8. DSegmentsInv' /\ DHistoryInv'
  <2>1. CASE room = 0
    <3>1. DSegmentsInv'
      BY <1>0, <1>3, <1>5, <1>6, <2>1 DEF DSegmentsInv
    <3>2. \A k : DAddress(k)' = DAddress(k)
      BY <1>3, <1>5, <2>1 DEF DAddress
    <3>3. DHistoryInv'
      BY <1>0, <1>6, <3>2 DEF DHistoryInv
    <3>4. QED
      BY <3>1, <3>3
  <2>2. CASE room # 0
    <3>1. GoesOnHere(e)
      BY <1>2, <1>3, <2>2, CheckGoesOn
    <3>2. /\ e.previousDstEnd = 1 + ds.outEnd /\ e.prefixStart = 1
          /\ IF e.dictEnd = 0 THEN e.virtualStart = 1 /\ made.all - made.before = ds.outEnd
             ELSE /\ e.dictEnd >= Behind /\ e.dictEnd <= ds.outSize + 1
                  /\ e.virtualStart = 2 - e.dictEnd /\ ~OneSegment
          /\ \A k \in 1 .. DReach : dmem[Address(k, 1 + ds.outEnd, e.dictEnd)] = made.all - k + 1
      BY <3>1 DEF GoesOnHere
    <3>3. ds'.previousDstEnd = 1 + ds.outEnd /\ ds'.previousDstEnd # 0 /\ ds'.previousDstEnd > 0
          /\ ds'.previousDstEnd <= ds.outSize + 1 /\ ds'.previousDstEnd - 1 = ds.outEnd
      BY <1>1, <1>5, <3>2
    <3>4. DSegmentsInv'
      BY <1>5, <1>6, <3>2, <3>3 DEF DSegmentsInv
    <3>5. \A k \in 1 .. DReach : DAddress(k)' = Address(k, 1 + ds.outEnd, e.dictEnd)
      BY <1>5, <3>3 DEF DAddress, Address
    <3>6. DHistoryInv'
      BY <1>6, <3>2, <3>5 DEF DHistoryInv
    <3>7. QED
      BY <3>4, <3>6
  <2>3. QED
    BY <2>1, <2>2
<1>9. QED
  BY <1>7, <1>8 DEF DRingInv

\* What is known when all that is needed is there.
LEMMA ReadyToRead ==
  ASSUME PipeInv, ReadDirectly
  PROVE  /\ dcall.busy /\ ds.stage = "read" /\ ~ds.hostage /\ ds.expected # 0 /\ Held = <<>>
         /\ Needed \in Nat /\ Needed > 0 /\ Needed <= dcall.left /\ Needed <= Len(wire)
         /\ Needed <= ds.expected
         /\ ~(ds.dstage \in {"block", "lastBlock"} /\ ds.raw) => Needed = ds.expected
         /\ ds.dstage # "getHeader"
         /\ Take(wire, Needed) \in Seq(Units) /\ Len(Take(wire, Needed)) = Needed
         /\ \E p \in Places, q \in Places, r \in Places :
              /\ Matches(p) /\ LedTo(cs, Written, q) /\ Parses(p, Take(wire, Needed), r)
              /\ Parses(r, Cat(Drop(wire, Needed), cs.outBuff), q)
<1>0. CInv /\ DInv /\ UnderwayInv /\ DTypeInv /\ DStageInv /\ DCallInv
  BY DEF PipeInv, DInv
<1>1. /\ dcall.busy /\ ds.stage = "read" /\ Needed \in 1 .. dcall.left
  BY DEF ReadDirectly, DAt
<1>2. ds \in DContexts /\ dcall.left \in Nat /\ ds.expected \in Nat /\ ds.hostage \in BOOLEAN
      /\ dcall.left <= Len(wire)
  BY <1>0, <1>1 DEF DTypeInv, DContexts, DCallInv
<1>3. PICK p \in Places : Matches(p)
  BY <1>0 DEF UnderwayInv
<1>4. /\ Needed \in Nat /\ (Needed = 0 <=> ds.expected = 0) /\ Needed <= MAX(1, ds.expected)
  BY <1>2, <1>3, ExpectedIs DEF Needed
<1>5. ds.expected # 0 /\ Needed > 0 /\ Needed <= dcall.left
  BY <1>1, <1>2, <1>4
<1>6. Needed <= ds.expected
  BY <1>2, <1>4, <1>5 DEF MAX
<1>7. ds.dstage # "getHeader"
  <2>1. ASSUME ds.dstage = "getHeader" PROVE ds.expected = 0
    BY <1>1, <1>3, <2>1 DEF Matches
  <2>2. QED
    BY <1>5, <2>1
<1>8. ~ds.hostage
  BY <1>0, <1>7 DEF DStageInv
<1>9. ~(ds.dstage \in {"block", "lastBlock"} /\ ds.raw) => Needed = ds.expected
  BY DEF Needed, NextSrcSize
<1>10. Held = <<>>
  BY <1>1 DEF Held
<1>11. PICK n \in Nat : n = Needed /\ n <= Len(wire)
  <2>1. Len(wire) \in Nat
    BY <1>0, LenProperties DEF UnderwayInv
  <2>2. QED
    BY <1>2, <1>4, <1>5, <2>1
<1>12. PICK t \in Seq(Units) : t = Take(wire, n) /\ Len(t) = n
  BY <1>8, <1>11, UnitsLead
<1>13. Cat(Held, t) = t
  BY <1>10, <1>12, NothingFirst
<1>14. \E u \in Places, q \in Places, r \in Places :
              /\ Matches(u) /\ LedTo(cs, Written, q)
              /\ Parses(u, Cat(Held, Take(wire, n)), r)
              /\ Parses(r, Cat(Drop(wire, n), cs.outBuff), q)
  BY <1>8, <1>11, UnitsLead
<1>15. QED
  BY <1>1, <1>4, <1>5, <1>6, <1>7, <1>8, <1>9, <1>10, <1>11, <1>12, <1>13, <1>14

\* Only the stage is set.
StageSet(d, s, f) ==
  /\ f \in DContexts /\ f.stage = s /\ SameRing(d, f) /\ f.outEnd = d.outEnd /\ f.head = d.head
  /\ f.expected = d.expected /\ f.raw = d.raw /\ f.dstage = d.dstage

\* A context with another stage.
LEMMA StageIsSet ==
  ASSUME NEW d \in DContexts, NEW s \in {"read", "flush"}
  PROVE  StageSet(d, s, [d EXCEPT !.stage = s])
  BY DEF StageSet, DContexts, SameRing

\* Only what is expected, and the decoder's stage.
ExpectedSet(d, x, s, f) ==
  /\ f \in DContexts /\ f.expected = x /\ f.dstage = s /\ SameRing(d, f) /\ f.outEnd = d.outEnd
  /\ f.head = d.head /\ f.raw = d.raw /\ f.stage = d.stage

\* A context that expects something else.
LEMMA ExpectedIsSet ==
  ASSUME NEW d \in DContexts, NEW x \in Nat,
         NEW s \in {"getHeader", "blockHeader", "block", "lastBlock", "checksum", "skip"}
  PROVE  ExpectedSet(d, x, s, [d EXCEPT !.expected = x, !.dstage = s])
  BY DEF ExpectedSet, DContexts, SameRing

\* Only the decoder's stage.
LEMMA DStageIsSet ==
  ASSUME NEW d \in DContexts,
         NEW s \in {"getHeader", "blockHeader", "block", "lastBlock", "checksum", "skip"}
  PROVE  ExpectedSet(d, d.expected, s, [d EXCEPT !.dstage = s])
  BY DEF ExpectedSet, DContexts, SameRing

\* The header of a block has been read.
BlockBegins(d, u, e) ==
  /\ e.head = d.head
  /\ IF u.size # 0
     THEN e.expected = u.size /\ e.raw = u.raw /\ e.dstage = (IF u.last THEN "lastBlock" ELSE "block")
     ELSE IF ~u.last THEN e.expected = 1 /\ e.dstage = "blockHeader"
     ELSE IF d.checksum THEN e.expected = 1 /\ e.dstage = "checksum"
     ELSE e.expected = 0 /\ e.dstage = "getHeader"

\* The context after the header of a block.
LEMMA BlockHeaderIs ==
  ASSUME NEW d \in DContexts, NEW u, u.size \in Nat, u.raw \in BOOLEAN, u.last \in BOOLEAN
  PROVE  /\ [DecodeBlockHeader(d, u) EXCEPT !.stage = "read"] \in DContexts
         /\ [DecodeBlockHeader(d, u) EXCEPT !.stage = "read"].stage = "read"
         /\ [DecodeBlockHeader(d, u) EXCEPT !.stage = "read"].outEnd = d.outEnd
         /\ SameRing(d, [DecodeBlockHeader(d, u) EXCEPT !.stage = "read"])
         /\ BlockBegins(d, u, [DecodeBlockHeader(d, u) EXCEPT !.stage = "read"])
<1> DEFINE next == [d EXCEPT !.expected = u.size, !.raw = u.raw]
<1>1. /\ next \in DContexts /\ SameRing(d, next) /\ next.outEnd = d.outEnd /\ next.head = d.head
      /\ next.expected = u.size /\ next.raw = u.raw
  BY DEF DContexts, SameRing
<1>2. PICK one \in Nat, zero \in Nat : one = 1 /\ zero = 0
  OBVIOUS
<1>3. DecodeBlockHeader(d, u) =
        IF u.size # 0 THEN [next EXCEPT !.dstage = IF u.last THEN "lastBlock" ELSE "block"]
        ELSE IF u.last THEN EndOfFrame(next)
        ELSE [next EXCEPT !.expected = one, !.dstage = "blockHeader"]
  BY <1>2 DEF DecodeBlockHeader
<1>4. next.checksum = d.checksum
  BY <1>1 DEF SameRing
<1>5. EndOfFrame(next) = IF d.checksum THEN [next EXCEPT !.expected = one, !.dstage = "checksum"]
                         ELSE [next EXCEPT !.expected = zero, !.dstage = "getHeader"]
  BY <1>2, <1>4 DEF EndOfFrame
<1> HIDE DEF next
<1>6. CASE u.size # 0
  <2>1. PICK s \in {"lastBlock", "block"} : s = IF u.last THEN "lastBlock" ELSE "block"
    OBVIOUS
  <2>2. DecodeBlockHeader(d, u) = [next EXCEPT !.dstage = s]
    BY <1>3, <1>6, <2>1
  <2>3. PICK e \in DContexts : e = DecodeBlockHeader(d, u) /\ ExpectedSet(next, next.expected, s, e)
    <3>0. PICK m \in DContexts : m = next
      BY <1>1
    <3>1.  ExpectedSet(next, next.expected, s, DecodeBlockHeader(d, u))
      <4>1. s \in {"getHeader", "blockHeader", "block", "lastBlock", "checksum", "skip"}
        OBVIOUS
      <4>2. ExpectedSet(m, m.expected, s, [m EXCEPT !.dstage = s])
        BY <4>1, DStageIsSet
      <4>3. QED
        BY <2>2, <3>0, <4>2
    <3>2. QED
      BY <3>1 DEF ExpectedSet
  <2>4. PICK f \in DContexts : f = [e EXCEPT !.stage = "read"] /\ StageSet(e, "read", f)
    <3>1. StageSet(e, "read", [e EXCEPT !.stage = "read"])
      BY <2>3, StageIsSet
    <3>2. QED
      BY <3>1 DEF StageSet
  <2>5. SameRing(d, f)
    BY <1>1, <2>3, <2>4 DEF SameRing, ExpectedSet, StageSet
  <2>6. BlockBegins(d, u, f)
    BY <1>1, <1>6, <2>1, <2>3, <2>4 DEF BlockBegins, ExpectedSet, StageSet
  <2>7. QED
    BY <1>1, <2>3, <2>4, <2>5, <2>6 DEF ExpectedSet, StageSet
<1>7. CASE u.size = 0
  <2>1. PICK s \in {"getHeader", "checksum", "blockHeader"}, x \in Nat :
          /\ s = IF ~u.last THEN "blockHeader" ELSE IF d.checksum THEN "checksum" ELSE "getHeader"
          /\ x = IF u.last /\ ~d.checksum THEN 0 ELSE 1
    OBVIOUS
  <2>2. DecodeBlockHeader(d, u) = [next EXCEPT !.expected = x, !.dstage = s]
    <3>1. CASE ~u.last
      BY <1>2, <1>3, <1>7, <2>1, <3>1
    <3>2. CASE u.last /\ d.checksum
      BY <1>2, <1>3, <1>5, <1>7, <2>1, <3>2
    <3>3. CASE u.last /\ ~d.checksum
      BY <1>2, <1>3, <1>5, <1>7, <2>1, <3>3
    <3>4. QED
      BY <3>1, <3>2, <3>3
  <2>3. PICK e \in DContexts : e = DecodeBlockHeader(d, u) /\ ExpectedSet(next, x, s, e)
    <3>0. PICK m \in DContexts : m = next
      BY <1>1
    <3>1.  ExpectedSet(next, x, s, DecodeBlockHeader(d, u))
      <4>1. s \in {"getHeader", "blockHeader", "block", "lastBlock", "checksum", "skip"}
        OBVIOUS
      <4>2. ExpectedSet(m, x, s, [m EXCEPT !.expected = x, !.dstage = s])
        BY <4>1, ExpectedIsSet
      <4>3. QED
        BY <2>2, <3>0, <4>2
    <3>2. QED
      BY <3>1 DEF ExpectedSet
  <2>4. PICK f \in DContexts : f = [e EXCEPT !.stage = "read"] /\ StageSet(e, "read", f)
    <3>1. StageSet(e, "read", [e EXCEPT !.stage = "read"])
      BY <2>3, StageIsSet
    <3>2. QED
      BY <3>1 DEF StageSet
  <2>5. SameRing(d, f)
    BY <1>1, <2>3, <2>4 DEF SameRing, ExpectedSet, StageSet
  <2>6. BlockBegins(d, u, f)
    BY <1>1, <1>7, <2>1, <2>3, <2>4 DEF BlockBegins, ExpectedSet, StageSet
  <2>7. QED
    BY <1>1, <2>3, <2>4, <2>5, <2>6 DEF ExpectedSet, StageSet
<1>8. QED
  BY <1>6, <1>7

\* Decoding the header of a block keeps the invariant.
LEMMA BlockHeaderKeeps ==
  ASSUME PipeInv, UNCHANGED cVars, ReadDirectly, ds.dstage = "blockHeader"
  PROVE  PipeInv'
<1>0. CInv /\ DInv /\ UnderwayInv /\ DTypeInv /\ DStageInv /\ DFlushInv /\ DCallInv
  BY DEF PipeInv, DInv
<1>1. PICK n \in Nat : /\ n = Needed /\ n > 0 /\ n <= dcall.left /\ n = ds.expected
                       /\ dcall.busy /\ ds.stage = "read" /\ ~ds.hostage
  BY ReadyToRead
<1>2. PICK t \in Seq(Units) : t = Take(wire, n) /\ Len(t) = n
  BY <1>1, ReadyToRead
<1>3. PICK p \in Places, q \in Places, r \in Places :
        /\ Matches(p) /\ LedTo(cs, Written, q) /\ Parses(p, t, r)
        /\ Parses(r, Cat(Drop(wire, n), cs.outBuff), q)
  BY <1>1, <1>2, ReadyToRead
<1>4. /\ p.at = "frame" /\ p.left = 0 /\ ds.expected = 1 /\ InFrame(p) /\ p.n = made.all
  BY <1>3 DEF Matches
<1>5. PICK u \in Units : u = t[1] /\ Moves(p, u, r)
  BY <1>1, <1>2, <1>3, <1>4, OneMoves
<1>6. MovesBlock(p, u, r)
  BY <1>4, <1>5 DEF Moves, MovesOff, MovesHead, MovesBody, MovesSum, MovesSkip
<1>7. u.k = "block" /\ r.n = p.n /\ SameFrame(p, r)
      /\ IF u.size = 0 THEN PastBlock(p, u.last, r)
         ELSE /\ r.at = "body" /\ r.left = u.size /\ r.rest = u.orig
              /\ r.raw = u.raw /\ r.last = u.last
  BY <1>6 DEF MovesBlock
<1>8. u.size \in Nat /\ u.raw \in BOOLEAN /\ u.last \in BOOLEAN
  BY <1>7 DEF Units
<1>9. /\ ds \in DContexts /\ ds.outStart = ds.outEnd /\ made \in [all : Nat, before : Nat]
      /\ ds.outEnd \in Nat /\ ds.outSize \in Nat /\ ds.inBuff = <<>> /\ ds.hostage = FALSE
  BY <1>0, <1>1 DEF DTypeInv, DContexts, DFlushInv, DStageInv
<1>10. PICK room \in Int : room = Room(ds)
  BY <1>9 DEF Room, DContexts
<1>11. PICK e \in DContexts : e = CheckContinuity(ds, Here(ds), room) /\ SameButSegments(ds, e)
  BY <1>9, CheckFields
<1>12. /\ ds' = [DecodeBlockHeader(e, u) EXCEPT !.stage = "read"]
       /\ dmem' = dmem /\ made' = made
  <2>1. ContinueStream(ds, t)
    BY <1>1, <1>2 DEF ReadDirectly
  <2>2. BytesOf(ds, t) = <<>>
    BY DEF BytesOf
  <2>3. ds.dstage # "skip"
    OBVIOUS
  <2>4. e = CheckContinuity(ds, Here(ds), IF ds.dstage = "skip" THEN 0 ELSE Room(ds))
    BY <1>10, <1>11, <2>3
  <2>5. e.dstage = "blockHeader"
    BY <1>11 DEF SameButSegments
  <2>6. Decode(e, t, <<>>, Here(ds)) = DecodeBlockHeader(e, u)
    BY <1>5, <2>5 DEF Decode
  <2>7. ds' = [Decode(e, t, <<>>, Here(ds)) EXCEPT !.stage = "read"] /\ dmem' = dmem
        /\ made' = [made EXCEPT !.all = @ + 0]
    BY <2>1, <2>2, <2>3, <2>4 DEF ContinueStream
  <2>8. QED
    BY <1>9, <2>6, <2>7
<1>13. /\ ds' \in DContexts /\ ds'.stage = "read" /\ ds'.outEnd = e.outEnd
       /\ SameRing(e, ds') /\ BlockBegins(e, u, ds')
  BY <1>8, <1>12, BlockHeaderIs
<1>14. /\ ds'.outEnd = ds.outEnd /\ ds'.outStart = ds.outStart /\ ds'.outSize = ds.outSize
       /\ ds'.window = ds.window /\ ds'.block = ds.block /\ ds'.fcs = ds.fcs /\ ds'.checksum = ds.checksum
       /\ ds'.hostage = FALSE /\ ds'.idle = ds.idle /\ ds'.inBuff = <<>> /\ e.checksum = ds.checksum
  BY <1>9, <1>11, <1>13 DEF SameRing, SameButSegments
<1>15. DRingInv'
  BY <1>0, <1>1, <1>10, <1>11, <1>12, <1>13, <1>14, RingAgain DEF DecodingBlocks
<1>16. DFlushInv'
  BY <1>0, <1>1, <1>9, <1>12, <1>13, <1>14, ReadyToRead DEF DFlushInv, ReadDirectly
<1>17. InFrame(p)'
  BY <1>4, <1>12, <1>14 DEF InFrame
<1>18. InFrame(r)'
  BY <1>7, <1>17 DEF InFrame, SameFrame
<1>19. Matches(r)' /\ ds'.dstage # "skip"
  <2>0. r.n = made'.all /\ p.sum = ds.checksum
    BY <1>4, <1>7, <1>12 DEF InFrame
  <2>1. CASE u.size # 0
    <3>1. /\ r.at = "body" /\ r.left = u.size /\ r.raw = u.raw /\ r.last = u.last
      BY <1>7, <2>1
    <3>2. ds'.expected = u.size /\ ds'.raw = u.raw /\ ds'.dstage = (IF u.last THEN "lastBlock" ELSE "block")
      BY <1>13, <2>1 DEF BlockBegins
    <3>3. ds'.dstage \in {"block", "lastBlock"}
      BY <3>2
    <3>4. ds'.dstage = "lastBlock" <=> u.last
      BY <3>2
    <3>5. r.last = (ds'.dstage = "lastBlock")
      BY <1>8, <3>1, <3>4
    <3>6. QED
      BY <1>18, <2>0, <3>1, <3>2, <3>3, <3>5 DEF Matches
  <2>2. CASE u.size = 0 /\ ~u.last
    <3>1. r.at = "frame" /\ r.left = 0
      BY <1>7, <2>2 DEF PastBlock
    <3>2. ds'.expected = 1 /\ ds'.dstage = "blockHeader"
      BY <1>13, <2>2 DEF BlockBegins
    <3>3. QED
      BY <1>18, <2>0, <3>1, <3>2 DEF Matches
  <2>3. CASE u.size = 0 /\ u.last /\ ds.checksum
    <3>1. r.at = "sum"
      BY <1>7, <2>0, <2>3 DEF PastBlock
    <3>2. ds'.expected = 1 /\ ds'.dstage = "checksum"
      BY <1>13, <1>14, <2>3 DEF BlockBegins
    <3>3. QED
      BY <2>0, <3>1, <3>2 DEF Matches
  <2>4. CASE u.size = 0 /\ u.last /\ ~ds.checksum
    <3>1. r.at = "between"
      BY <1>7, <2>0, <2>4 DEF PastBlock
    <3>2. ds'.expected = 0 /\ ds'.dstage = "getHeader"
      BY <1>13, <1>14, <2>4 DEF BlockBegins
    <3>3. QED
      BY <2>0, <3>1, <3>2 DEF Matches
  <2>5. QED
    BY <2>1, <2>2, <2>3, <2>4
<1>20. dmem' \in [1 .. ds'.outSize -> Nat] /\ made' \in [all : Nat, before : Nat]
  BY <1>0, <1>1, <1>9, <1>12, <1>14 DEF DTypeInv
<1>21. wire' = Drop(wire, n) /\ dcall' = Took(n) /\ UNCHANGED <<received, failures>>
  BY <1>1 DEF ReadDirectly
<1>22. QED
  BY <1>1, <1>3, <1>13, <1>14, <1>15, <1>16, <1>19, <1>20, <1>21, ContinueKeeps

\* What is in the ring when a block has been decoded: the block, and what was in front
\* of it and far enough behind.
HoldsBlock(mem, bytes, h, len) ==
  /\ mem \in [1 .. ds.outSize -> Nat]
  /\ \A a \in h + 1 .. h + len : mem[a] = bytes[a - h]
  /\ \A a \in 1 .. ds.outSize :
       a <= h \/ a >= 1 + h + ds.block + WildcopyLength => mem[a] = dmem[a]

\* What the ring holds after a block has been decoded into it.
LEMMA StoredIs ==
  ASSUME ds \in DContexts, dmem \in [1 .. ds.outSize -> Nat], NEW bytes \in Seq(Nat),
         NEW len \in Nat, Len(bytes) = len, NEW h \in Nat, h = ds.outStart,
         h + len <= ds.outSize, len <= ds.block
  PROVE  HoldsBlock(Stored(ds, bytes), bytes, h, len)
<1>1. /\ ds.outSize \in Nat /\ ds.block \in Nat /\ WildcopyLength \in Nat /\ ds.outStart \in Nat
  BY DStreamAssumption DEF DContexts
<1>2. PICK size \in Nat, b \in Nat, c \in Nat : size = ds.outSize /\ b = ds.block /\ c = WildcopyLength
  BY <1>1
<1>3. Here(ds) = 1 + h
  BY <1>1 DEF Here
<1>4. PICK over \in SUBSET Int : /\ over = WrittenOver(ds)
                                 /\ \A a \in over : a >= 1 + h /\ a < 1 + h + b + c
  <2>1. PICK m \in Int : m = MIN(b + c, Room(ds)) /\ m <= b + c
    <3>1. PICK r \in Int : r = Room(ds)
      BY <1>1 DEF Room
    <3>2. MIN(b + c, r) \in Int /\ MIN(b + c, r) <= b + c
      BY ONLY b \in Nat, c \in Nat, r \in Int DEF MIN
    <3>3. QED
      BY <3>1, <3>2
  <2>2. WrittenOver(ds) = 1 + h .. 1 + h + m - 1
    BY <1>2, <1>3, <2>1 DEF WrittenOver
  <2>3. 1 + h .. 1 + h + m - 1 \in SUBSET Int
    BY <2>1
  <2>4. \A a \in 1 + h .. 1 + h + m - 1 : a >= 1 + h /\ a < 1 + h + b + c
    <3>1. m <= b + c
      BY <2>1
    <3>2. QED
      BY ONLY <3>1, h \in Nat, m \in Int, b \in Nat, c \in Nat
  <2>5. QED
    BY <2>2, <2>3, <2>4
<1>5. DOMAIN dmem = 1 .. size
  BY <1>2
<1>6. PICK zero \in Nat : zero = Garbage
  BY DEF Garbage
<1>7. Stored(ds, bytes) = [a \in 1 .. size |->
        IF a \in 1 + h .. 1 + h + len - 1 THEN bytes[a - (1 + h) + 1]
        ELSE IF ~ds.raw /\ a \in over THEN zero ELSE dmem[a]]
  BY <1>3, <1>4, <1>5, <1>6 DEF Stored
<1>8. ASSUME NEW a \in 1 .. size PROVE
        /\ a \in h + 1 .. h + len => Stored(ds, bytes)[a] = bytes[a - h] /\ bytes[a - h] \in Nat
        /\ a <= h \/ a >= 1 + h + b + c => Stored(ds, bytes)[a] = dmem[a]
        /\ Stored(ds, bytes)[a] \in Nat
  <2>1. Stored(ds, bytes)[a] =
          IF a \in 1 + h .. 1 + h + len - 1 THEN bytes[a - (1 + h) + 1]
          ELSE IF ~ds.raw /\ a \in over THEN zero ELSE dmem[a]
    BY <1>7
  <2>2. (a \in h + 1 .. h + len <=> a \in 1 + h .. 1 + h + len - 1) /\ a - (1 + h) + 1 = a - h
    OBVIOUS
  <2>3. a \in h + 1 .. h + len => a - h \in 1 .. Len(bytes)
    OBVIOUS
  <2>4. a \in h + 1 .. h + len => bytes[a - h] \in Nat
    BY <2>3
  <2>5. dmem[a] \in Nat
    BY <1>2
  <2>6. a <= h \/ a >= 1 + h + b + c => ~(a \in 1 + h .. 1 + h + len - 1) /\ ~(a \in over)
    <3>1. ASSUME a <= h \/ a >= 1 + h + b + c PROVE ~(a \in 1 + h .. 1 + h + len - 1)
      <4>1. len <= b /\ c \in Nat
        BY <1>2
      <4>2. QED
        BY ONLY <3>1, <4>1, a \in 1 .. size, size \in Nat, h \in Nat, len \in Nat, b \in Nat
    <3>2. ASSUME a <= h \/ a >= 1 + h + b + c, a \in over PROVE FALSE
      <4>1. a >= 1 + h /\ a < 1 + h + b + c
        BY <1>4, <3>2
      <4>2. QED
        BY ONLY <3>2, <4>1, a \in 1 .. size, size \in Nat, h \in Nat, b \in Nat, c \in Nat
    <3>3. QED
      BY <3>1, <3>2
  <2>7. a \in h + 1 .. h + len => Stored(ds, bytes)[a] = bytes[a - h]
    BY <2>1, <2>2
  <2>8. a <= h \/ a >= 1 + h + b + c => Stored(ds, bytes)[a] = dmem[a]
    BY <2>1, <2>6
  <2>9. Stored(ds, bytes)[a] \in Nat
    <3>1. CASE a \in h + 1 .. h + len
      BY <2>4, <2>7, <3>1
    <3>2. CASE ~(a \in h + 1 .. h + len)
      BY <2>1, <2>2, <2>5, <3>2
    <3>3. QED
      BY <3>1, <3>2
  <2>10. QED
    BY <2>4, <2>7, <2>8, <2>9
<1>9. Stored(ds, bytes) \in [1 .. size -> Nat]
  <2>1. Stored(ds, bytes) = [a \in 1 .. size |-> Stored(ds, bytes)[a]]
    BY <1>7
  <2>2. QED
    BY <1>8, <2>1
<1>10. \A a \in h + 1 .. h + len : a \in 1 .. size
  BY <1>2
<1>11. QED
  BY <1>2, <1>8, <1>9, <1>10 DEF HoldsBlock

\* Where a block, or some of it, has been decoded up to.
AfterBlock(d, left, end, out, f) ==
  /\ f \in DContexts /\ f.stage = "flush" /\ f.outEnd = out /\ f.previousDstEnd = end
  /\ f.prefixStart = d.prefixStart /\ f.dictEnd = d.dictEnd /\ f.virtualStart = d.virtualStart
  /\ f.outSize = d.outSize /\ f.outStart = d.outStart
  /\ f.window = d.window /\ f.block = d.block /\ f.fcs = d.fcs /\ f.checksum = d.checksum
  /\ f.hostage = d.hostage /\ f.idle = d.idle /\ f.inBuff = d.inBuff
  /\ IF left > 0 THEN f.expected = left /\ f.raw = d.raw /\ f.dstage = d.dstage
     ELSE IF d.dstage # "lastBlock" THEN f.expected = 1 /\ f.dstage = "blockHeader"
     ELSE IF d.checksum THEN f.expected = 1 /\ f.dstage = "checksum"
     ELSE f.expected = 0 /\ f.dstage = "getHeader"

\* The context after a block.
LEMMA BlockIs ==
  ASSUME NEW d \in DContexts, NEW units, NEW bytes, NEW dst \in Int, Len(bytes) \in Nat,
         NEW left \in Nat, left = IF d.raw THEN d.expected - Len(units) ELSE 0,
         NEW out \in Nat
  PROVE  AfterBlock(d, left, dst + Len(bytes), out,
                    [DecodeBlock(d, units, bytes, dst) EXCEPT !.outEnd = out, !.stage = "flush"])
<1>1. PICK end \in Int : end = dst + Len(bytes)
  OBVIOUS
<1>2. PICK m \in DContexts :
        /\ m = [d EXCEPT !.expected = left, !.previousDstEnd = end]
        /\ m.expected = left /\ m.previousDstEnd = end
        /\ m.prefixStart = d.prefixStart /\ m.dictEnd = d.dictEnd /\ m.virtualStart = d.virtualStart
        /\ m.outSize = d.outSize /\ m.outStart = d.outStart
        /\ m.window = d.window /\ m.block = d.block /\ m.fcs = d.fcs /\ m.checksum = d.checksum
        /\ m.hostage = d.hostage /\ m.idle = d.idle /\ m.inBuff = d.inBuff /\ m.raw = d.raw
        /\ m.dstage = d.dstage
  <2>1. [d EXCEPT !.expected = left, !.previousDstEnd = end] \in DContexts
    BY ONLY d \in DContexts, left \in Nat, end \in Int DEF DContexts
  <2>2. QED
    BY ONLY <2>1, d \in DContexts, left \in Nat, end \in Int DEF DContexts
<1>3. DecodeBlock(d, units, bytes, dst) =
        IF left > 0 THEN m ELSE IF d.dstage = "lastBlock" THEN EndOfFrame(m)
        ELSE [m EXCEPT !.dstage = "blockHeader", !.expected = 1]
  BY <1>1, <1>2 DEF DecodeBlock
<1>4. PICK s \in {"getHeader", "blockHeader", "block", "lastBlock", "checksum", "skip"}, x \in Nat :
        /\ s = IF left > 0 THEN d.dstage ELSE IF d.dstage # "lastBlock" THEN "blockHeader"
               ELSE IF d.checksum THEN "checksum" ELSE "getHeader"
        /\ x = IF left > 0 THEN left ELSE IF d.dstage = "lastBlock" /\ ~d.checksum THEN 0 ELSE 1
  <2>1. d.dstage \in {"getHeader", "blockHeader", "block", "lastBlock", "checksum", "skip"}
    BY DEF DContexts
  <2>2. QED
    BY <2>1
<1>5. PICK g \in DContexts : g = DecodeBlock(d, units, bytes, dst) /\ g.expected = x /\ g.dstage = s
        /\ SameRing(m, g) /\ g.raw = m.raw
  <2>1. CASE left > 0
    <3>1. DecodeBlock(d, units, bytes, dst) = m
      BY <1>3, <2>1
    <3>2. x = m.expected /\ s = m.dstage
      BY <1>2, <1>4, <2>1
    <3>3. QED
      BY ONLY <3>1, <3>2, m \in DContexts DEF SameRing
  <2>2. CASE ~(left > 0)
    <3>0. PICK one \in Nat, zero \in Nat : one = 1 /\ zero = 0
      OBVIOUS
    <3>1. DecodeBlock(d, units, bytes, dst) = [m EXCEPT !.expected = x, !.dstage = s]
      <4>1. CASE d.dstage # "lastBlock"
        <5>1. DecodeBlock(d, units, bytes, dst) = [m EXCEPT !.dstage = "blockHeader", !.expected = one]
          BY <1>3, <2>2, <3>0, <4>1
        <5>2. x = one /\ s = "blockHeader"
          BY <1>4, <2>2, <3>0, <4>1
        <5>3. [m EXCEPT !.dstage = s, !.expected = x] = [m EXCEPT !.expected = x, !.dstage = s]
          BY ONLY m \in DContexts DEF DContexts
        <5>4. QED
          BY <5>1, <5>2, <5>3
      <4>2. CASE d.dstage = "lastBlock" /\ d.checksum
        BY <1>2, <1>3, <1>4, <2>2, <4>2 DEF EndOfFrame
      <4>3. CASE d.dstage = "lastBlock" /\ ~d.checksum
        BY <1>2, <1>3, <1>4, <2>2, <4>3 DEF EndOfFrame
      <4>4. QED
        BY <4>1, <4>2, <4>3
    <3>2. ExpectedSet(m, x, s, [m EXCEPT !.expected = x, !.dstage = s])
      BY ExpectedIsSet
    <3>3. QED
      BY <3>1, <3>2 DEF ExpectedSet
  <2>3. QED
    BY <2>1, <2>2
<1>6. PICK f \in DContexts : f = [g EXCEPT !.outEnd = out, !.stage = "flush"] /\ f.stage = "flush"
        /\ f.outEnd = out /\ f.expected = g.expected /\ f.dstage = g.dstage /\ f.raw = g.raw /\ SameRing(g, f)
  <2>1. [g EXCEPT !.outEnd = out, !.stage = "flush"] \in DContexts
    BY ONLY g \in DContexts, out \in Nat DEF DContexts
  <2>2. PICK f : f = [g EXCEPT !.outEnd = out, !.stage = "flush"]
    OBVIOUS
  <2>3. /\ f.stage = "flush" /\ f.outEnd = out /\ f.expected = g.expected /\ f.dstage = g.dstage
        /\ f.raw = g.raw
    BY ONLY <2>2, g \in DContexts DEF DContexts
  <2>4. SameRing(g, f)
    BY ONLY <2>2, g \in DContexts DEF DContexts, SameRing
  <2>5. QED
    BY <2>1, <2>2, <2>3, <2>4
<1>7. AfterBlock(d, left, end, out, f)
  BY <1>2, <1>4, <1>5, <1>6 DEF AfterBlock, SameRing
<1>8. QED
  BY <1>1, <1>5, <1>6, <1>7

\* The ring behind a block that has been decoded into it.
LEMMA RingAfterBlock ==
  ASSUME DInv, ds.stage = "read", DecodingBlocks, NEW e \in DContexts, GoesOnHere(e), SameButSegments(ds, e),
         NEW bytes \in Seq(Nat), NEW len \in Nat, len = Len(bytes), len > 0, len <= ds.block,
         ds.outEnd + len <= ds.outSize, \A i \in 1 .. len : bytes[i] = made.all + i,
         NEW left \in Nat, NEW end \in Int, NEW out \in Nat, end = 1 + ds.outEnd + len, out = ds.outEnd + len,
         AfterBlock(e, left, end, out, ds'),
         dmem' = Stored(ds, bytes), made'.all = made.all + len, made'.before = made.before
  PROVE  /\ DRingInv' /\ dmem' \in [1 .. ds'.outSize -> Nat]
         /\ \A a \in ds'.outStart + 1 .. ds'.outEnd : dmem'[a] = made'.all - (ds'.outEnd - a)
<1>0. DTypeInv /\ DFlushInv /\ DRoomInv
  BY DEF DInv, DRingInv
<1>1. /\ ds \in DContexts /\ dmem \in [1 .. ds.outSize -> Nat] /\ ds.outStart = ds.outEnd
      /\ ds.outEnd \in Nat /\ ds.outSize \in Nat /\ ds.window \in Nat /\ ds.block \in Nat
      /\ WildcopyLength \in Nat /\ made.all \in Nat /\ made.before \in Nat
  BY <1>0, DStreamAssumption DEF DTypeInv, DContexts, DFlushInv
<1>2. PICK h \in Nat : h = ds.outEnd /\ h = ds.outStart
  BY <1>1
<1>3. PICK size \in Nat, w \in Nat, b \in Nat, c \in Nat, all \in Nat, before \in Nat :
        /\ size = ds.outSize /\ w = ds.window /\ b = ds.block /\ c = WildcopyLength
        /\ all = made.all /\ before = made.before
  BY <1>1
<1>4. h + len <= ds.outSize /\ h + len <= size
  BY <1>2, <1>3
<1>5. PICK mem \in [1 .. size -> Nat] :
        /\ mem = dmem'
        /\ \A a \in h + 1 .. h + len : mem[a] = bytes[a - h]
        /\ \A a \in 1 .. size : a <= h \/ a >= 1 + h + b + c => mem[a] = dmem[a]
  <2>1. HoldsBlock(Stored(ds, bytes), bytes, h, len)
    <3>1. ds \in DContexts /\ dmem \in [1 .. ds.outSize -> Nat]
      BY <1>1
    <3>2. h = ds.outStart
      BY <1>2
    <3>3. h + len <= ds.outSize
      BY <1>4
    <3>4. QED
      BY <3>1, <3>2, <3>3, StoredIs
  <2>2. PICK mem \in [1 .. ds.outSize -> Nat] : mem = Stored(ds, bytes)
    BY <2>1 DEF HoldsBlock
  <2>3. QED
    BY <1>3, <2>1, <2>2 DEF HoldsBlock
<1>45. end = 1 + h + len /\ out = h + len
  BY <1>2
<1>6. /\ ds'.outSize = ds.outSize /\ ds'.window = ds.window /\ ds'.block = ds.block /\ ds'.fcs = ds.fcs
      /\ ds'.stage = "flush" /\ ds'.outStart = ds.outStart /\ ds'.outEnd = out /\ ds'.previousDstEnd = end
      /\ ds'.prefixStart = e.prefixStart /\ ds'.dictEnd = e.dictEnd /\ ds'.virtualStart = e.virtualStart
  BY DEF AfterBlock, SameButSegments
<1>7. (OneSegment' <=> OneSegment) /\ Behind' = Behind
  BY <1>6 DEF OneSegment, Behind
<1>8. PICK dict \in Int :
        /\ dict = e.dictEnd /\ e.prefixStart = 1
        /\ IF dict = 0 THEN e.virtualStart = 1 /\ all - before = h
           ELSE /\ dict >= Behind /\ dict <= size + 1
                /\ e.virtualStart = 2 - dict /\ ~OneSegment
        /\ \A k \in 1 .. DReach : dmem[Address(k, 1 + h, dict)] = all - k + 1
  <2>1. e.dictEnd \in Int
    BY DEF DContexts
  <2>2. QED
    BY <1>2, <1>3, <2>1 DEF GoesOnHere
<1>9. dmem' \in [1 .. ds'.outSize -> Nat]
  BY <1>3, <1>5, <1>6
<1>10. ASSUME NEW i \in 1 .. len PROVE mem[h + i] = all + i
  <2>1. h + i \in h + 1 .. h + len /\ (h + i) - h = i
    OBVIOUS
  <2>2. mem[h + i] = bytes[(h + i) - h]
    BY <1>5, <2>1
  <2>3. QED
    BY <1>3, <2>1, <2>2
<1>11. \A a \in ds'.outStart + 1 .. ds'.outEnd : dmem'[a] = made'.all - (ds'.outEnd - a)
  <2>1. ASSUME NEW a \in h + 1 .. h + len PROVE mem[a] = (all + len) - ((h + len) - a)
    <3>1. PICK i \in 1 .. len : a = h + i
      <4>1. a - h \in 1 .. len /\ a = h + (a - h)
        OBVIOUS
      <4>2. QED
        BY <4>1
    <3>2. mem[a] = all + i
      BY <1>10, <3>1
    <3>3. all + i = (all + len) - ((h + len) - (h + i))
      BY ONLY all \in Nat, len \in Nat, h \in Nat, i \in 1 .. len
    <3>4. QED
      BY ONLY <3>1, <3>2, <3>3
  <2>2. /\ ds'.outStart = h /\ ds'.outEnd = h + len /\ dmem' = mem /\ made'.all = all + len
    BY <1>2, <1>3, <1>5, <1>45, <1>6
  <2>3. \A a \in h + 1 .. h + len : mem[a] = (all + len) - ((h + len) - a)
    BY <2>1
  <2>4. QED
    BY ONLY <2>2, <2>3
<1>12. DRoomInv'
  <2>1. CASE OneSegment
    <3>1. ds.outEnd = made.all - made.before
      BY <1>0, <2>1 DEF DRoomInv
    <3>2. ds'.outEnd = made'.all - made'.before
      <4>1. h = all - before
        BY <1>2, <1>3, <3>1
      <4>2. ds'.outEnd = h + len /\ made'.all = all + len /\ made'.before = before
        BY <1>2, <1>3, <1>45, <1>6
      <4>3. h + len = (all + len) - before
        BY ONLY <4>1, h \in Nat, len \in Nat, all \in Nat, before \in Nat
      <4>4. QED
        BY ONLY <4>2, <4>3
    <3>3. QED
      BY <1>7, <2>1, <3>2 DEF DRoomInv
  <2>2. CASE ~OneSegment
    <3>1. ds.outSize >= ds.window + 2 * ds.block + 2 * WildcopyLength
      BY <1>0, <2>2 DEF DRoomInv
    <3>2. OneSegment' <=> FALSE
      BY <1>7, <2>2
    <3>3. ds'.outSize >= ds'.window + 2 * ds'.block + 2 * WildcopyLength
      BY <1>6, <3>1
    <3>4. QED
      BY <1>6, <3>2, <3>3 DEF DRoomInv
  <2>3. QED
    BY <2>1, <2>2
<1>13. DSegmentsInv'
  <2>1. /\ end # 0 /\ end > 0 /\ end = 1 + out /\ end <= size + 1
        /\ end - 1 = h + len
    BY ONLY <1>4, <1>45, h \in Nat, len \in Nat, size \in Nat
  <2>2. dict = 0 => made'.all - made'.before = end - 1
    <3>1. dict = 0 => all - before = h
      BY <1>8
    <3>2. made'.all = all + len /\ made'.before = before
      BY <1>3
    <3>3. QED
      BY ONLY <2>1, <3>1, <3>2, h \in Nat, len \in Nat, all \in Nat, before \in Nat
  <2>3. QED
    BY <1>3, <1>6, <1>7, <1>8, <2>1, <2>2 DEF DSegmentsInv
<1>14. DHistoryInv'
  <2>1. PICK reach \in Int : reach = DReach' /\ reach <= w /\ reach <= all + len - before
    <3>1. DReach' = MIN(w, (all + len) - before)
      BY <1>3, <1>6 DEF DReach
    <3>2. QED
      BY <3>1 DEF MIN
  <2>0. PICK far \in Int : far = all - before
    OBVIOUS
  <2>2. PICK past \in Int : past = DReach /\ (w <= past \/ far <= past)
    <3>1. DReach = MIN(w, far)
      BY <1>3, <2>0 DEF DReach
    <3>2. QED
      BY <3>1 DEF MIN
  <2>3. \A k : DAddress(k)' = Address(k, 1 + h + len, dict)
    <3>1. ds'.previousDstEnd = 1 + h + len /\ ds'.dictEnd = dict
      BY <1>2, <1>6, <1>8
    <3>2. QED
      BY <3>1 DEF DAddress, Address
  <2>4. ASSUME NEW k \in 1 .. reach PROVE mem[Address(k, 1 + h + len, dict)] = (all + len) - k + 1
    <3>1. CASE k <= len
      <4>1. PICK i \in 1 .. len : i = len - k + 1
        <5>1. len - k + 1 \in 1 .. len
          BY <3>1
        <5>2. QED
          BY <5>1
      <4>2. Address(k, 1 + h + len, dict) = h + i
        <5>1. k < 1 + h + len /\ 1 + h + len - k = h + i
          BY <3>1, <4>1
        <5>2. QED
          BY <5>1 DEF Address
      <4>3. mem[h + i] = all + i
        BY <1>10
      <4>4. all + i = (all + len) - k + 1
        BY <4>1
      <4>5. QED
        BY <4>2, <4>3, <4>4
    <3>2. CASE ~(k <= len)
      <4>1. PICK j \in Nat : k = j + len /\ j >= 1 /\ k \in Nat
        <5>1. k - len \in Nat /\ k = (k - len) + len /\ k - len >= 1 /\ k \in Nat
          BY <3>2
        <5>2. QED
          BY <5>1
      <4>2. Address(k, 1 + h + len, dict) = Address(j, 1 + h, dict)
        <5>1. PICK u \in Int, v \in Int : u = 1 + h /\ v = 1 + h + len
          OBVIOUS
        <5>2. v = u + len /\ k \in Int /\ j \in Int /\ k = j + len
          BY <4>1, <5>1
        <5>3. Address(k, v, dict) = Address(j, u, dict)
          BY <5>2, AddressMoves
        <5>4. QED
          BY <5>1, <5>3
      <4>3. j <= w /\ j <= all - before
        <5>1. k <= reach
          OBVIOUS
        <5>2. QED
          BY ONLY <2>1, <4>1, <5>1, len \in Nat, j \in Nat, k \in Nat, w \in Nat, all \in Nat, before \in Nat, reach \in Int
      <4>4. j \in 1 .. DReach
        <5>0. j <= w /\ j <= far
          BY <2>0, <4>3
        <5>1. j \in Int /\ j <= past
          BY ONLY <2>2, <5>0, j \in Nat, w \in Nat, far \in Int, past \in Int
        <5>2. QED
          BY <2>2, <4>1, <5>1
      <4>5. dmem[Address(j, 1 + h, dict)] = all - j + 1
        BY <1>8, <4>4
      <4>6. all - before \in Nat
        BY <4>1, <4>3
      <4>7. IF dict = 0 THEN all - before = h ELSE dict >= w + b + 2 * c + 2 /\ dict <= size + 1
        BY <1>3, <1>8 DEF Behind
      <4>8. PICK a \in Int : /\ a = Address(j, 1 + h, dict) /\ a >= 1 /\ a <= size
                             /\ a <= h \/ a >= 1 + h + b + c
        <5>1. h <= size
          BY <1>4
        <5>2. PICK z \in Nat : z = all - before
          BY <4>6
        <5>3. (IF dict = 0 THEN z = h ELSE dict >= w + b + 2 * c + 2 /\ dict <= size + 1) /\ j <= z
          BY <4>3, <4>7, <5>2
        <5>4. /\ Address(j, 1 + h, dict) \in Int
              /\ Address(j, 1 + h, dict) >= 1 /\ Address(j, 1 + h, dict) <= size
              /\ Address(j, 1 + h, dict) <= h \/ Address(j, 1 + h, dict) >= 1 + h + b + c
          BY <4>1, <4>3, <5>1, <5>3, AddressIs
        <5>5. QED
          BY <5>4
      <4>9. mem[a] = dmem[a]
        <5>1. a \in 1 .. size
          BY ONLY <4>8, size \in Nat, a \in Int
        <5>2. QED
          BY <1>5, <4>8, <5>1
      <4>10. all - j + 1 = (all + len) - k + 1
        BY <4>1
      <4>11. QED
        BY <4>2, <4>5, <4>8, <4>9, <4>10
    <3>3. QED
      BY <3>1, <3>2
  <2>5. made'.all = all + len /\ dmem' = mem
    BY <1>3, <1>5
  <2>6. \A k \in 1 .. DReach' : dmem'[DAddress(k)'] = made'.all - k + 1
    BY <2>1, <2>3, <2>4, <2>5
  <2>7. QED
    BY <2>6 DEF DHistoryInv
<1>15. QED
  BY <1>9, <1>11, <1>12, <1>13, <1>14 DEF DRingInv

\* A block, or some of a raw one, is decoded.
LEMMA BodyKeeps ==
  ASSUME PipeInv, UNCHANGED cVars, ReadDirectly, ds.dstage \in {"block", "lastBlock"}
  PROVE  PipeInv'
<1>0. CInv /\ DInv /\ UnderwayInv /\ DTypeInv /\ DStageInv /\ DFlushInv /\ DCallInv /\ DRingInv
  BY DEF PipeInv, DInv
<1>1. PICK n \in Nat : /\ n = Needed /\ n > 0 /\ n <= dcall.left /\ n <= ds.expected
                       /\ ~ds.raw => n = ds.expected
                       /\ dcall.busy /\ ds.stage = "read" /\ ~ds.hostage
  BY ReadyToRead
<1>2. PICK t \in Seq(Units) : t = Take(wire, n) /\ Len(t) = n
  BY <1>1, ReadyToRead
<1>3. PICK p \in Places, q \in Places, r \in Places :
        /\ Matches(p) /\ LedTo(cs, Written, q) /\ Parses(p, t, r)
        /\ Parses(r, Cat(Drop(wire, n), cs.outBuff), q)
  BY <1>1, <1>2, ReadyToRead
<1>4. /\ p.at = "body" /\ p.left = ds.expected /\ p.raw = ds.raw
      /\ p.last = (ds.dstage = "lastBlock") /\ InFrame(p) /\ p.n = made.all
  BY <1>3 DEF Matches
<1>5. /\ p.left \in Nat /\ p.rest \in Nat /\ p.n \in Nat /\ p.start \in Nat /\ p.window \in Nat
      /\ r.n \in Nat /\ p.raw \in BOOLEAN /\ p.last \in BOOLEAN
  BY PlaceFields
<1>6. /\ p.left > 0 /\ p.rest > 0 /\ (IF p.raw THEN p.rest = p.left ELSE p.left = 1)
      /\ p.rest <= BlockSizeMax /\ p.rest <= p.window /\ Fits(p, p.rest)
  BY <1>4, BodyPlace
<1>7. n <= p.left /\ n \in 1 .. p.left
  BY <1>1, <1>4, <1>5
<1>8. /\ InBody(p, n, r)
      /\ Content(t) = FlattenSeq([i \in DOMAIN t |-> t[i].bytes])
  <2>1. Len(t) <= p.left
    BY <1>2, <1>7
  <2>2. /\ InBody(p, Len(t), r)
        /\ Content(t) = FlattenSeq([i \in DOMAIN t |-> t[i].bytes])
    BY <1>3, <1>4, <2>1, BodyPassed
  <2>3. QED
    BY <1>2, <2>2
<1>9. PICK len \in Nat : r.n = made.all + len /\ len > 0 /\ len <= p.rest
  <2>1. r.n - p.n >= 1 /\ r.n - p.n <= p.rest
    BY <1>4, <1>7, <1>8, BodySize
  <2>2. r.n - p.n \in Nat /\ r.n = p.n + (r.n - p.n) /\ r.n - p.n > 0
    BY <1>5, <2>1
  <2>3. QED
    BY <1>4, <2>1, <2>2
<1>10. PICK bytes \in Seq(Nat) : /\ bytes = BytesOf(ds, t) /\ Len(bytes) = len
                                 /\ \A i \in 1 .. len : bytes[i] = made.all + i
  <2>1. BytesOf(ds, t) = Content(t)
    BY <1>8 DEF BytesOf
  <2>2. Content(t) = Numbers(p.n, r.n)
    BY <1>3, PassingCounts
  <2>3. PICK a \in Nat : a = p.n /\ a = made.all
    BY <1>4, <1>5
  <2>4. BytesOf(ds, t) = Numbers(a, a + len)
    BY <1>9, <2>1, <2>2, <2>3
  <2>5. /\ Numbers(a, a + len) \in Seq(Nat) /\ Len(Numbers(a, a + len)) = len
        /\ \A i \in 1 .. len : Numbers(a, a + len)[i] = a + i
    BY NumbersFrom
  <2>6. QED
    BY <2>3, <2>4, <2>5
<1>11. /\ ds \in DContexts /\ ds.outStart = ds.outEnd /\ made \in [all : Nat, before : Nat]
       /\ ds.outEnd \in Nat /\ ds.outSize \in Nat /\ ds.inBuff = <<>> /\ ds.hostage = FALSE
       /\ ds.expected \in Nat /\ ds.raw \in BOOLEAN /\ ds.block \in Nat /\ ds.outEnd <= ds.outSize
  BY <1>0, <1>1 DEF DTypeInv, DContexts, DFlushInv, DStageInv
<1>12. len <= ds.block
  <2>1. ds.block = MIN(p.window, BlockSizeMax)
    BY <1>4, SameBlockSize DEF InFrame
  <2>2. BlockSizeMax \in Nat
    BY CStreamAssumption
  <2>3. QED
    BY <1>5, <1>6, <1>9, <2>1, <2>2 DEF MIN
<1>13. ds.outEnd + len <= ds.outSize
  <2>1. DRoomInv
    BY <1>0 DEF DRingInv, DecodingBlocks
  <2>2. CASE OneSegment
    <3>1. ds.outEnd = made.all - made.before /\ ds.fcs # Unknown /\ ds.fcs <= ds.outSize
      BY <2>1, <2>2 DEF DRoomInv, OneSegment
    <3>2. p.start = made.before /\ p.fcs = ds.fcs
      BY <1>4 DEF InFrame
    <3>3. p.n + p.rest - p.start <= ds.fcs
      BY <1>6, <3>1, <3>2 DEF Fits
    <3>4. ds.fcs \in Nat
      BY <1>11, <3>1 DEF DContexts
    <3>5. PICK z \in Nat, x \in Nat, y \in Nat, a \in Nat, g \in Nat, s \in Nat :
            /\ z = ds.outEnd /\ x = p.rest /\ y = p.start /\ a = made.all /\ g = ds.fcs
            /\ s = ds.outSize
      BY <1>5, <1>11, <3>4
    <3>6. z = a - y /\ g <= s /\ a + x - y <= g /\ len <= x
      BY <1>4, <1>9, <3>1, <3>2, <3>3, <3>5
    <3>7. z + len <= s
      BY ONLY <3>6, z \in Nat, x \in Nat, y \in Nat, a \in Nat, g \in Nat, s \in Nat, len \in Nat
    <3>8. QED
      BY <3>5, <3>7
  <2>3. CASE ~OneSegment
    <3>1. ds.outEnd + ds.block <= ds.outSize
      BY <1>1, <2>1, <2>3 DEF DRoomInv
    <3>2. PICK z \in Nat, b \in Nat, s \in Nat : z = ds.outEnd /\ b = ds.block /\ s = ds.outSize
      BY <1>11
    <3>3. z + b <= s /\ len <= b
      BY <1>12, <3>1, <3>2
    <3>4. z + len <= s
      BY ONLY <3>3, z \in Nat, b \in Nat, s \in Nat, len \in Nat
    <3>5. QED
      BY <3>2, <3>4
  <2>4. QED
    BY <2>2, <2>3
<1>14. PICK room \in Int : room = Room(ds) /\ room # 0
  BY <1>9, <1>11, <1>13 DEF Room
<1>15. PICK e \in DContexts : e = CheckContinuity(ds, Here(ds), room) /\ SameButSegments(ds, e)
  BY <1>11, CheckFields
<1>16. GoesOnHere(e)
  BY <1>0, <1>1, <1>14, <1>15, CheckGoesOn DEF DecodingBlocks
<1>17. PICK out \in Nat, end \in Int : out = ds.outEnd + len /\ end = 1 + ds.outEnd + len
  BY <1>11
<1>18. PICK left \in Nat : left = IF e.raw THEN e.expected - Len(t) ELSE 0
  <2>1. e.expected = ds.expected /\ e.raw = ds.raw
    BY <1>15 DEF SameButSegments
  <2>2. ds.expected - n \in Nat
    BY <1>1, <1>11
  <2>3. QED
    BY <1>2, <2>1, <2>2
<1>19. /\ ds' = [DecodeBlock(e, t, bytes, Here(ds)) EXCEPT !.outEnd = out, !.stage = "flush"]
       /\ dmem' = Stored(ds, bytes) /\ made' = [made EXCEPT !.all = @ + len]
  <2>1. ContinueStream(ds, t)
    BY <1>1, <1>2 DEF ReadDirectly
  <2>2. ds.dstage # "skip" /\ e.dstage \in {"block", "lastBlock"}
    BY <1>15 DEF SameButSegments
  <2>3. e = CheckContinuity(ds, Here(ds), IF ds.dstage = "skip" THEN 0 ELSE Room(ds))
    BY <1>14, <1>15, <2>2
  <2>4. bytes # <<>>
    BY <1>9, <1>10
  <2>5. Decode(e, t, bytes, Here(ds)) = DecodeBlock(e, t, bytes, Here(ds))
    BY <2>2 DEF Decode
  <2>6. ds.outStart + Len(bytes) = out
    BY <1>10, <1>11, <1>17
  <2>7. /\ ds' = [Decode(e, t, bytes, Here(ds)) EXCEPT !.outEnd = ds.outStart + Len(bytes), !.stage = "flush"]
        /\ dmem' = Stored(ds, bytes)
        /\ made' = [made EXCEPT !.all = @ + Len(bytes)]
    BY <1>10, <2>1, <2>2, <2>3, <2>4 DEF ContinueStream
  <2>8. QED
    BY <1>10, <2>5, <2>6, <2>7
<1>20. AfterBlock(e, left, end, out, ds')
  <2>1. PICK dst \in Int : dst = Here(ds) /\ dst = 1 + ds.outEnd
    BY <1>11 DEF Here
  <2>2. Len(bytes) \in Nat /\ dst + Len(bytes) = end
    BY <1>10, <1>11, <1>17, <2>1
  <2>3. AfterBlock(e, left, dst + Len(bytes), out,
                   [DecodeBlock(e, t, bytes, dst) EXCEPT !.outEnd = out, !.stage = "flush"])
    BY <1>18, <2>2, BlockIs
  <2>4. QED
    BY <1>19, <2>1, <2>2, <2>3
<1>21. made'.all = made.all + len /\ made'.before = made.before /\ made' \in [all : Nat, before : Nat]
  <2>1. PICK m \in Nat : m = made.all + len
    BY <1>11
  <2>2. made' = [made EXCEPT !.all = m]
    BY <1>19, <2>1
  <2>3. QED
    BY <1>11, <2>1, <2>2
<1>22. /\ DRingInv' /\ dmem' \in [1 .. ds'.outSize -> Nat]
       /\ \A a \in ds'.outStart + 1 .. ds'.outEnd : dmem'[a] = made'.all - (ds'.outEnd - a)
  <2>1. DecodingBlocks
    BY DEF DecodingBlocks
  <2>2. len = Len(bytes)
    BY <1>10
  <2>3. \A i \in 1 .. len : bytes[i] = made.all + i
    BY <1>10
  <2>4. dmem' = Stored(ds, bytes)
    BY <1>19
  <2>5. QED
    BY <1>0, <1>1, <1>9, <1>12, <1>13, <1>15, <1>16, <1>17, <1>20, <1>21, <2>1, <2>2, <2>3, <2>4, RingAfterBlock
<1>23. /\ ds' \in DContexts /\ ds'.stage = "flush" /\ ds'.outEnd = out /\ ds'.outStart = ds.outStart
       /\ ds'.window = ds.window /\ ds'.block = ds.block /\ ds'.fcs = ds.fcs /\ ds'.checksum = ds.checksum
       /\ ds'.hostage = FALSE /\ ds'.idle = ds.idle /\ ds'.inBuff = <<>> /\ ds'.outSize = ds.outSize
       /\ e.dstage = ds.dstage /\ e.raw = ds.raw /\ e.expected = ds.expected /\ e.checksum = ds.checksum
  BY <1>11, <1>15, <1>20 DEF AfterBlock, SameButSegments
<1>24. IF left > 0 THEN ds'.expected = left /\ ds'.raw = ds.raw /\ ds'.dstage = ds.dstage
       ELSE IF ds.dstage # "lastBlock" THEN ds'.expected = 1 /\ ds'.dstage = "blockHeader"
       ELSE IF ds.checksum THEN ds'.expected = 1 /\ ds'.dstage = "checksum"
       ELSE ds'.expected = 0 /\ ds'.dstage = "getHeader"
  BY <1>20, <1>23 DEF AfterBlock
<1>25. DFlushInv'
  <2>1. Len(received) \in Nat /\ received = Numbers(0, Len(received))
        /\ Len(received) + (ds.outEnd - ds.outStart) = made.all
    BY <1>0 DEF DFlushInv
  <2>2. received' = received
    BY DEF ReadDirectly
  <2>3. ds'.outStart <= ds'.outEnd /\ ds'.outEnd <= ds'.outSize
        /\ Len(received) + (ds'.outEnd - ds'.outStart) = made'.all
    BY <1>11, <1>13, <1>17, <1>21, <1>23, <2>1
  <2>4. QED
    BY <1>22, <1>23, <2>1, <2>2, <2>3 DEF DFlushInv
<1>26. InFrame(p)'
  BY <1>4, <1>21, <1>23 DEF InFrame
<1>27. SameFrame(p, r)
  BY <1>8 DEF InBody
<1>28. InFrame(r)'
  BY <1>26, <1>27 DEF InFrame, SameFrame
<1>29. Matches(r)' /\ ds'.dstage # "skip"
  <2>0. r.n = made'.all /\ p.sum = ds.checksum
    BY <1>4, <1>9, <1>21 DEF InFrame
  <2>1. CASE n = p.left
    <3>1. PastBlock(p, p.last, r)
      BY <1>8, <2>1 DEF InBody
    <3>2. ~(left > 0)
      BY <1>2, <1>4, <1>5, <1>18, <1>23, <2>1
    <3>3. CASE ds.dstage # "lastBlock"
      <4>1. r.at = "frame" /\ r.left = 0
        BY <1>4, <3>1, <3>3 DEF PastBlock
      <4>2. ds'.expected = 1 /\ ds'.dstage = "blockHeader"
        BY <1>24, <3>2, <3>3
      <4>3. QED
        BY <1>28, <2>0, <4>1, <4>2 DEF Matches
    <3>4. CASE ds.dstage = "lastBlock" /\ ds.checksum
      <4>1. r.at = "sum"
        BY <1>4, <2>0, <3>1, <3>4 DEF PastBlock
      <4>2. ds'.expected = 1 /\ ds'.dstage = "checksum"
        BY <1>24, <3>2, <3>4
      <4>3. QED
        BY <2>0, <4>1, <4>2 DEF Matches
    <3>5. CASE ds.dstage = "lastBlock" /\ ~ds.checksum
      <4>1. r.at = "between"
        BY <1>4, <2>0, <3>1, <3>5 DEF PastBlock
      <4>2. ds'.expected = 0 /\ ds'.dstage = "getHeader"
        BY <1>24, <3>2, <3>5
      <4>3. QED
        BY <2>0, <4>1, <4>2 DEF Matches
    <3>6. QED
      BY <3>3, <3>4, <3>5
  <2>2. CASE n # p.left
    <3>1. /\ r.at = "body" /\ r.left = p.left - n /\ r.raw = p.raw /\ r.last = p.last
      BY <1>8, <2>2 DEF InBody
    <3>2. ds.raw
      BY <1>1, <1>4, <2>2
    <3>3. left = p.left - n /\ left > 0
      BY <1>2, <1>4, <1>5, <1>7, <1>18, <1>23, <2>2, <3>2
    <3>4. ds'.expected = left /\ ds'.raw = ds.raw /\ ds'.dstage = ds.dstage
      BY <1>24, <3>3
    <3>5. ds'.dstage \in {"block", "lastBlock"}
      BY <3>4
    <3>6. /\ r.at = "body" /\ r.left = ds'.expected /\ r.raw = ds'.raw
          /\ r.last = (ds'.dstage = "lastBlock")
      BY <1>4, <3>1, <3>3, <3>4
    <3>7. Matches(r)'
      BY ONLY <1>28, <2>0, <3>5, <3>6 DEF Matches
    <3>8. QED
      BY <3>5, <3>7
  <2>3. QED
    BY <2>1, <2>2
<1>30. wire' = Drop(wire, n) /\ dcall' = Took(n) /\ UNCHANGED <<received, failures>>
  BY <1>1 DEF ReadDirectly
<1>31. QED
  BY <1>1, <1>3, <1>21, <1>22, <1>23, <1>25, <1>29, <1>30, ContinueKeeps

\* Nothing is decoded: a checksum is compared, or a skippable frame ends.
LEMMA NothingDecodedKeeps ==
  ASSUME PipeInv, UNCHANGED cVars, UNCHANGED <<received, failures, dmem, made>>, dcall.busy, ~ds.hostage,
         ds.stage \in {"read", "load"},
         NEW n \in Nat, n > 0, n <= dcall.left, wire' = Drop(wire, n), dcall' = Took(n),
         ds' \in DContexts, ds'.stage \in {"read", "flush"}, ds'.dstage = "getHeader", ds'.expected = 0,
         ds'.inBuff = <<>>, ds'.hostage = FALSE, ds'.idle = ds.idle, ds'.outSize = ds.outSize,
         ds'.outStart = ds.outStart, ds'.outEnd = ds.outEnd,
         NEW r \in Places, r.at = "between", r.n = made.all, NEW q \in Places, LedTo(cs, Written, q),
         Parses(r, Cat(Drop(wire, n), cs.outBuff), q)
  PROVE  PipeInv'
<1>0. DTypeInv /\ DFlushInv
  BY DEF PipeInv, DInv
<1>1. ds.outStart = ds.outEnd /\ ds.outEnd \in Nat
  BY <1>0 DEF DTypeInv, DContexts, DFlushInv
<1>2. DFlushInv'
  <2>1. \A a \in ds.outStart + 1 .. ds.outEnd : FALSE
    BY <1>1
  <2>2. QED
    BY <1>0, <1>1, <2>1 DEF DFlushInv
<1>3. DRingInv'
  BY DEF DRingInv, DecodingBlocks
<1>4. Matches(r)'
  BY DEF Matches
<1>5. dmem' \in [1 .. ds'.outSize -> Nat] /\ made' \in [all : Nat, before : Nat]
  BY <1>0 DEF DTypeInv
<1>6. ds'.dstage # "skip"
  OBVIOUS
<1>7. QED
  BY <1>2, <1>3, <1>4, <1>5, <1>6, ContinueKeeps

\* The checksum of a frame is compared.
LEMMA ChecksumKeeps ==
  ASSUME PipeInv, UNCHANGED cVars, ReadDirectly, ds.dstage = "checksum"
  PROVE  PipeInv'
<1>0. CInv /\ DInv /\ UnderwayInv /\ DTypeInv /\ DStageInv /\ DFlushInv
  BY DEF PipeInv, DInv
<1>1. PICK n \in Nat : /\ n = Needed /\ n > 0 /\ n <= dcall.left /\ n = ds.expected
                       /\ dcall.busy /\ ds.stage = "read" /\ ~ds.hostage
  BY ReadyToRead
<1>2. PICK t \in Seq(Units) : t = Take(wire, n) /\ Len(t) = n
  BY <1>1, ReadyToRead
<1>3. PICK p \in Places, q \in Places, r \in Places :
        /\ Matches(p) /\ LedTo(cs, Written, q) /\ Parses(p, t, r)
        /\ Parses(r, Cat(Drop(wire, n), cs.outBuff), q)
  BY <1>1, <1>2, ReadyToRead
<1>4. p.at = "sum" /\ ds.expected = 1 /\ p.n = made.all
  BY <1>3 DEF Matches
<1>5. Moves(p, t[1], r)
  BY <1>1, <1>2, <1>3, <1>4, OneMoves
<1>6. r.at = "between" /\ r.n = made.all
  BY <1>4, <1>5 DEF Moves, MovesOff, MovesHead, MovesBlock, MovesBody, MovesSum, MovesSkip
<1>7. /\ ds \in DContexts /\ made \in [all : Nat, before : Nat]
      /\ ds.inBuff = <<>> /\ ds.hostage = FALSE /\ ds.outEnd \in Nat /\ ds.outSize \in Nat /\ ds.outStart \in Nat
  BY <1>0, <1>1 DEF DTypeInv, DContexts, DStageInv
<1>8. PICK room \in Int : room = Room(ds)
  BY <1>7 DEF Room
<1>9. PICK e \in DContexts : e = CheckContinuity(ds, Here(ds), room) /\ SameButSegments(ds, e)
  BY <1>7, CheckFields
<1>10. PICK zero \in Nat : zero = 0
  OBVIOUS
<1>11. /\ ds' = [[e EXCEPT !.expected = zero, !.dstage = "getHeader"] EXCEPT !.stage = "read"]
       /\ dmem' = dmem /\ made' = made
  <2>1. ContinueStream(ds, t)
    BY <1>1, <1>2 DEF ReadDirectly
  <2>2. BytesOf(ds, t) = <<>>
    BY DEF BytesOf
  <2>3. ds.dstage # "skip"
    OBVIOUS
  <2>4. e = CheckContinuity(ds, Here(ds), IF ds.dstage = "skip" THEN 0 ELSE Room(ds))
    BY <1>8, <1>9, <2>3
  <2>5. e.dstage = "checksum"
    BY <1>9 DEF SameButSegments
  <2>6. Decode(e, t, <<>>, Here(ds)) = [e EXCEPT !.expected = zero, !.dstage = "getHeader"]
    BY <1>10, <2>5 DEF Decode
  <2>7. ds' = [Decode(e, t, <<>>, Here(ds)) EXCEPT !.stage = "read"] /\ dmem' = dmem
        /\ made' = [made EXCEPT !.all = @ + 0]
    BY <2>1, <2>2, <2>3, <2>4 DEF ContinueStream
  <2>8. made' = made
    <3>1. made' = [made EXCEPT !.all = @ + 0]
      BY <2>7
    <3>2. QED
      BY ONLY <1>7, <3>1
  <2>9. QED
    BY <2>6, <2>7, <2>8
<1>12. PICK g \in DContexts : /\ g = [e EXCEPT !.expected = zero, !.dstage = "getHeader"]
                              /\ ExpectedSet(e, zero, "getHeader", g)
  <2>1. ExpectedSet(e, zero, "getHeader", [e EXCEPT !.expected = zero, !.dstage = "getHeader"])
    BY ExpectedIsSet
  <2>2. QED
    BY <2>1 DEF ExpectedSet
<1>13. StageSet(g, "read", ds')
  BY <1>11, <1>12, StageIsSet
<1>14. /\ ds' \in DContexts /\ ds'.stage = "read" /\ ds'.dstage = "getHeader" /\ ds'.expected = 0
       /\ ds'.inBuff = <<>> /\ ds'.hostage = FALSE /\ ds'.idle = ds.idle /\ ds'.outSize = ds.outSize
       /\ ds'.outStart = ds.outStart /\ ds'.outEnd = ds.outEnd
  BY <1>7, <1>9, <1>10, <1>12, <1>13 DEF StageSet, ExpectedSet, SameRing, SameButSegments
<1>15. wire' = Drop(wire, n) /\ dcall' = Took(n) /\ UNCHANGED <<received, failures>>
  BY <1>1 DEF ReadDirectly
<1>16. QED
  BY <1>1, <1>3, <1>6, <1>11, <1>14, <1>15, NothingDecodedKeeps

\* A skippable frame ends.
LEMMA SkipEndsKeeps ==
  ASSUME PipeInv, UNCHANGED cVars, ds.dstage = "skip", ds.stage \in {"read", "load"}, dcall.busy,
         NEW n \in Nat, n > 0, n <= dcall.left, wire' = Drop(wire, n), dcall' = Took(n),
         UNCHANGED <<received, failures>>,
         NEW units, units = Cat(Held, Take(wire, n)), Len(units) = ds.expected,
         NEW d \in DContexts, d = [ds EXCEPT !.inBuff = <<>>], ContinueStream(d, units)
  PROVE  PipeInv'
<1>0. CInv /\ DInv /\ UnderwayInv /\ DTypeInv /\ DStageInv /\ DFlushInv /\ DCallInv
  BY DEF PipeInv, DInv
<1>1. /\ ds \in DContexts /\ made \in [all : Nat, before : Nat] /\ ds.outStart = ds.outEnd
      /\ ds.outEnd \in Nat /\ ds.outSize \in Nat /\ ds.hostage = FALSE
      /\ dcall.left <= Len(wire) /\ dcall.left \in Nat
  BY <1>0 DEF DTypeInv, DContexts, DStageInv, DFlushInv, DCallInv
<1>2. n <= Len(wire)
  <2>1. Len(wire) \in Nat
    BY <1>0, LenProperties DEF UnderwayInv
  <2>2. QED
    BY <1>1, <2>1
<1>3. PICK p \in Places, q \in Places, r \in Places :
        /\ Matches(p) /\ LedTo(cs, Written, q) /\ Parses(p, units, r)
        /\ Parses(r, Cat(Drop(wire, n), cs.outBuff), q)
  BY <1>1, <1>2, UnitsLead
<1>4. p.n = made.all /\ (IF ds.expected = 0 THEN p.at = "between" ELSE p.at = "skip" /\ p.left = 0 /\ p.rest = ds.expected)
  BY <1>3 DEF Matches
<1>5. r.at = "between" /\ r.n = made.all
  <2>0. units \in Seq(Units) /\ ds.expected \in Nat
    BY <1>1, <1>2, UnitsLead DEF DContexts
  <2>1. CASE ds.expected = 0
    <3>1. units = <<>>
      BY <2>0, <2>1, EmptySeq
    <3>2. p = r
      BY <1>3, <3>1, NothingPassed
    <3>3. QED
      BY <1>4, <2>1, <3>2
  <2>2. CASE ds.expected # 0
    <3>1. p.at = "skip" /\ p.left = 0 /\ p.rest = ds.expected /\ Len(units) <= p.rest
      BY <1>4, <2>0, <2>2
    <3>2. r.n = p.n /\ MovesInSkip(0, p.rest - Len(units), r)
      BY <1>3, <3>1, SkipPassed
    <3>3. p.rest - Len(units) = 0
      BY <2>0, <3>1
    <3>4. QED
      BY <1>4, <3>2, <3>3 DEF MovesInSkip
  <2>3. QED
    BY <2>1, <2>2
<1>6. PICK zero \in Nat : zero = 0
  OBVIOUS
<1>7. /\ d.dstage = "skip" /\ d.inBuff = <<>> /\ d.outStart = ds.outStart /\ d.outEnd = ds.outEnd
      /\ d.outSize = ds.outSize /\ d.hostage = FALSE /\ d.idle = ds.idle
  BY <1>1 DEF DContexts
<1>8. /\ ds' = [[d EXCEPT !.expected = zero, !.dstage = "getHeader"]
                   EXCEPT !.outEnd = ds.outStart, !.stage = "flush"]
      /\ dmem' = dmem /\ made' = made
  <2>1. ContinueStream(d, units)
    OBVIOUS
  <2>2. BytesOf(d, units) = <<>>
    BY <1>7 DEF BytesOf
  <2>3. CheckContinuity(d, Here(d), IF d.dstage = "skip" THEN 0 ELSE Room(d)) = d
    <3>1. CheckContinuity(d, Here(d), 0) = d
      BY DEF CheckContinuity
    <3>2. QED
      BY <1>7, <3>1
  <2>4. Decode(d, units, <<>>, Here(d)) = [d EXCEPT !.expected = zero, !.dstage = "getHeader"]
    BY <1>6, <1>7 DEF Decode
  <2>5. PICK x : x = Decode(d, units, <<>>, Here(d))
    OBVIOUS
  <2>6. PICK out : out = d.outStart + Len(<<>>)
    OBVIOUS
  <2>7. out = ds.outStart
    BY <1>1, <1>7, <2>6
  <2>8. ds' = [x EXCEPT !.outEnd = out, !.stage = "flush"]
    <3>1. ds' = IF BytesOf(d, units) = <<>> /\ d.dstage # "skip"
                THEN [x EXCEPT !.stage = "read"] ELSE [x EXCEPT !.outEnd = out, !.stage = "flush"]
      BY <2>1, <2>2, <2>3, <2>5, <2>6 DEF ContinueStream
    <3>2. QED
      BY <1>7, <3>1
  <2>9. made' = made
    <3>1. made' = [made EXCEPT !.all = @ + 0]
      BY <2>1, <2>2 DEF ContinueStream
    <3>2. QED
      BY ONLY <1>1, <3>1
  <2>10. dmem' = dmem
    BY <2>1, <2>2 DEF ContinueStream
  <2>11. QED
    BY <2>4, <2>5, <2>7, <2>8, <2>9, <2>10
<1>9. PICK g \in DContexts : /\ g = [d EXCEPT !.expected = zero, !.dstage = "getHeader"]
                             /\ ExpectedSet(d, zero, "getHeader", g)
  <2>1. ExpectedSet(d, zero, "getHeader", [d EXCEPT !.expected = zero, !.dstage = "getHeader"])
    BY ExpectedIsSet
  <2>2. QED
    BY <2>1 DEF ExpectedSet
<1>10. /\ ds' \in DContexts /\ ds'.stage = "flush" /\ ds'.dstage = g.dstage /\ ds'.expected = g.expected
       /\ ds'.inBuff = g.inBuff /\ ds'.hostage = g.hostage /\ ds'.idle = g.idle /\ ds'.outSize = g.outSize
       /\ ds'.outStart = g.outStart /\ ds'.outEnd = ds.outStart
  <2>1. PICK s \in Nat : s = ds.outStart
    BY <1>1
  <2>2. ds' = [g EXCEPT !.outEnd = s, !.stage = "flush"]
    BY <1>8, <1>9, <2>1
  <2>3. QED
    BY ONLY <2>1, <2>2, g \in DContexts DEF DContexts
<1>11. /\ ds'.dstage = "getHeader" /\ ds'.expected = 0
       /\ ds'.inBuff = <<>> /\ ds'.hostage = FALSE /\ ds'.idle = ds.idle /\ ds'.outSize = ds.outSize
       /\ ds'.outStart = ds.outStart /\ ds'.outEnd = ds.outEnd
  BY <1>1, <1>6, <1>7, <1>9, <1>10 DEF ExpectedSet, SameRing
<1>12. QED
  BY <1>1, <1>3, <1>5, <1>8, <1>10, <1>11, NothingDecodedKeeps

\* All that is needed is there.
LEMMA ReadDirectlyKeeps ==
  ASSUME PipeInv, UNCHANGED cVars, ReadDirectly
  PROVE  PipeInv'
<1>0. CInv /\ DInv /\ UnderwayInv /\ DTypeInv /\ DStageInv
  BY DEF PipeInv, DInv
<1>1. ds \in DContexts
  BY <1>0 DEF DTypeInv
<1>2. ds.dstage \in {"blockHeader", "block", "lastBlock", "checksum", "skip"}
  <2>1. ds.dstage # "getHeader"
    BY ReadyToRead
  <2>2. QED
    BY <1>1, <2>1 DEF DContexts
<1>3. CASE ds.dstage = "skip"
  <2>1. PICK n \in Nat : /\ n = Needed /\ n > 0 /\ n <= dcall.left /\ n = ds.expected
                         /\ dcall.busy /\ ds.stage = "read" /\ Held = <<>>
    BY <1>3, ReadyToRead
  <2>2. PICK t \in Seq(Units) : t = Take(wire, n) /\ Len(t) = n
    BY <2>1, ReadyToRead
  <2>3. t = Cat(Held, Take(wire, n))
    BY <2>1, <2>2, NothingFirst
  <2>4. ds = [ds EXCEPT !.inBuff = <<>>]
    <3>1. ds.inBuff = <<>>
      BY <1>0, <2>1 DEF DStageInv
    <3>2. QED
      BY <1>1, <3>1 DEF DContexts
  <2>5. ContinueStream(ds, t) /\ wire' = Drop(wire, n) /\ dcall' = Took(n) /\ UNCHANGED <<received, failures>>
    BY <2>1, <2>2 DEF ReadDirectly
  <2>6. QED
    BY <1>1, <1>3, <2>1, <2>2, <2>3, <2>4, <2>5, SkipEndsKeeps
<1>4. QED
  BY <1>2, <1>3, BlockHeaderKeeps, BodyKeeps, ChecksumKeeps

\* Some of what is to be skipped is loaded, or all of it.
LEMMA LoadKeeps ==
  ASSUME PipeInv, UNCHANGED cVars, Load
  PROVE  PipeInv'
<1>0. CInv /\ DInv /\ UnderwayInv /\ DTypeInv /\ DStageInv /\ DFlushInv /\ DCallInv
  BY DEF PipeInv, DInv
<1>1. /\ dcall.busy /\ ds.stage \in {"load", "read"}
      /\ ds.stage = "read" => dcall.left \in 1 .. Needed - 1
  BY DEF Load, DAt
<1>2. /\ ds \in DContexts /\ dcall \in DCalls /\ dcall.left \in Nat /\ ds.expected \in Nat
      /\ dcall.left <= Len(wire) /\ ds.inBuff \in Seq(Units) /\ ds.raw \in BOOLEAN
      /\ dcall.took \in Nat /\ dcall.put \in Nat /\ dcall.room \in Nat /\ ds.idle \in Nat
  BY <1>0, <1>1 DEF DTypeInv, DCalls, DContexts, DCallInv
<1>3. ds.stage # "load" => ds.inBuff = <<>>
  BY <1>0 DEF DStageInv
<1>4. Held = ds.inBuff
  BY <1>1, <1>3 DEF Held
<1>5. PICK p \in Places : Matches(p)
  BY <1>0 DEF UnderwayInv
<1>6. ds.dstage = "skip" /\ Len(ds.inBuff) < ds.expected
  <2>1. CASE ds.stage = "load"
    BY <1>0, <2>1 DEF DStageInv
  <2>2. CASE ds.stage = "read"
    <3>1. PICK need \in Nat : need = NextSrcSize(ds, dcall.left) /\ need <= MAX(1, ds.expected)
                              /\ (need = 0 <=> ds.expected = 0)
      BY <1>2, <1>5, ExpectedIs
    <3>2. dcall.left >= 1 /\ dcall.left <= need - 1
      BY <1>1, <1>2, <2>2, <3>1 DEF Needed
    <3>3. ds.expected >= 2
      BY <1>2, <3>1, <3>2 DEF MAX
    <3>4. ds.dstage # "blockHeader" /\ ds.dstage # "checksum" /\ ds.dstage # "getHeader"
      <4>1. ASSUME ds.dstage = "blockHeader" PROVE ds.expected = 1
        BY <1>5, <4>1 DEF Matches
      <4>2. ASSUME ds.dstage = "checksum" PROVE ds.expected = 1
        BY <1>5, <4>2 DEF Matches
      <4>3. ASSUME ds.dstage = "getHeader" PROVE ds.expected = 0
        BY <1>5, <2>2, <4>3 DEF Matches
      <4>4. QED
        BY <3>3, <4>1, <4>2, <4>3
    <3>5. ~(ds.dstage \in {"block", "lastBlock"})
      <4>1. SUFFICES ASSUME ds.dstage \in {"block", "lastBlock"} PROVE FALSE
        OBVIOUS
      <4>2. p.at = "body" /\ p.left = ds.expected /\ p.raw = ds.raw
        BY <1>5, <4>1 DEF Matches
      <4>3. ds.raw
        BY <1>2, <3>3, <4>2, BodyPlace
      <4>4. need = MAX(1, MIN(dcall.left, ds.expected))
        BY <3>1, <4>1, <4>3 DEF NextSrcSize
      <4>5. MAX(1, MIN(dcall.left, ds.expected)) <= dcall.left
        BY <1>2, <3>2, <3>3 DEF MAX, MIN
      <4>6. QED
        BY <1>2, <3>1, <3>2, <4>4, <4>5
    <3>6. ds.dstage = "skip"
      BY <1>2, <3>4, <3>5 DEF DContexts
    <3>7. Len(ds.inBuff) = 0
      BY <1>3, <2>2
    <3>8. QED
      BY <1>2, <3>3, <3>6, <3>7
  <2>3. QED
    BY <1>1, <2>1, <2>2
<1>7. ds.hostage = FALSE
  BY <1>0, <1>2, <1>6 DEF DStageInv, DContexts
<1>8. Len(wire) \in Nat /\ Len(ds.inBuff) \in Nat
  BY <1>0, <1>2, LenProperties DEF UnderwayInv
<1>9. PICK n \in Nat : /\ n = MIN(ds.expected - Len(ds.inBuff), dcall.left)
                       /\ n <= ds.expected - Len(ds.inBuff) /\ n <= dcall.left /\ n <= Len(wire)
                       /\ (n = ds.expected - Len(ds.inBuff) \/ n = dcall.left)
  <2>1. ds.expected - Len(ds.inBuff) \in Nat
    BY <1>2, <1>6, <1>8
  <2>2. QED
    BY <1>2, <1>8, <2>1 DEF MIN
<1>10. PICK units \in Seq(Units) : /\ units = Cat(Held, Take(wire, n))
                                   /\ Len(units) = Len(ds.inBuff) + n
  <2>1. Held \in Seq(Units) /\ Take(wire, n) \in Seq(Units) /\ Len(Take(wire, n)) = n
        /\ Cat(Held, Take(wire, n)) \in Seq(Units)
    BY <1>7, <1>9, UnitsLead
  <2>2. Len(Cat(Held, Take(wire, n))) = Len(Held) + Len(Take(wire, n))
    BY ONLY <2>1, Joined DEF Cat
  <2>3. QED
    BY <1>4, <2>1, <2>2
<1>11. /\ IF Len(units) < ds.expected
          THEN /\ DReturn([ds EXCEPT !.stage = "load", !.inBuff = units], Took(n), Drop(wire, n))
               /\ UNCHANGED <<dmem, made>>
          ELSE /\ ContinueStream([ds EXCEPT !.inBuff = <<>>], units)
               /\ wire' = Drop(wire, n)
               /\ dcall' = Took(n)
       /\ UNCHANGED <<received, failures>>
  <2>1. units = ds.inBuff \o Take(wire, n)
    BY <1>4, <1>10 DEF Cat
  <2>2. QED
    BY <1>9, <2>1 DEF Load
<1>12. CASE Len(units) < ds.expected
  <2>1. n = dcall.left
    BY <1>2, <1>8, <1>9, <1>10, <1>12
  <2>2. PICK c : c = Took(n) /\ c.took = dcall.took + n /\ c.put = dcall.put /\ c.room = dcall.room
    <3>1. PICK a \in Nat, l \in Int : a = dcall.took + n /\ l = dcall.left - n
      BY <1>2
    <3>2. Took(n) = [dcall EXCEPT !.left = l, !.took = a]
      BY <3>1 DEF Took
    <3>3. /\ [dcall EXCEPT !.left = l, !.took = a].took = a
          /\ [dcall EXCEPT !.left = l, !.took = a].put = dcall.put
          /\ [dcall EXCEPT !.left = l, !.took = a].room = dcall.room
      BY ONLY <1>2 DEF DCalls
    <3>4. QED
      BY <3>1, <3>2, <3>3
  <2>3. PICK x \in Nat : /\ x = IF c.took + c.put = 0 THEN ds.idle + 1 ELSE 0
                         /\ x <= 1 /\ (dcall.room = 0 => x = 0)
    <3>1. /\ dcall.left = 0 /\ dcall.took + dcall.put = 0 => ds.idle = 0
          /\ dcall.room = 0 => dcall.put > 0
      BY <1>0, <1>1 DEF DCallInv
    <3>2. CASE c.took + c.put = 0
      <4>1. dcall.left = 0 /\ dcall.took + dcall.put = 0
        BY <1>2, <2>1, <2>2, <3>2
      <4>2. ds.idle = 0 /\ dcall.room # 0
        BY <1>2, <3>1, <4>1
      <4>3. ds.idle + 1 \in Nat /\ ds.idle + 1 <= 1
        BY <4>2
      <4>4. QED
        BY <3>2, <4>2, <4>3
    <3>3. CASE c.took + c.put # 0
      <4>1. PICK x \in Nat : x = 0
        OBVIOUS
      <4>2. x = IF c.took + c.put = 0 THEN ds.idle + 1 ELSE 0
        BY <3>3, <4>1
      <4>3. QED
        BY <4>1, <4>2
    <3>4. QED
      BY <3>2, <3>3
  <2> DEFINE e == [ds EXCEPT !.stage = "load", !.inBuff = units]
  <2>4. e.idle = ds.idle /\ e.expected = ds.expected
    BY <1>2 DEF DContexts
  <2>5. ds' = [e EXCEPT !.idle = x] /\ wire' = Drop(wire, n) /\ dcall' = Returned(c, ds.expected)
    <3>1. DReturn(e, c, Drop(wire, n))
      BY <1>11, <1>12, <2>2
    <3>2. [e EXCEPT !.idle = IF c.took + c.put = 0 THEN @ + 1 ELSE 0] = [e EXCEPT !.idle = x]
      BY <2>3, <2>4
    <3>3. ds.expected # 0
      BY <1>2, <1>6, <1>8
    <3> HIDE DEF e
    <3>4. QED
      BY <2>4, <3>1, <3>2, <3>3 DEF DReturn
  <2>6. /\ ds' \in DContexts /\ ds'.idle = x /\ ds'.stage = "load" /\ ds'.inBuff = units
        /\ ds'.dstage = ds.dstage /\ ds'.head = ds.head /\ ds'.expected = ds.expected
        /\ ds'.raw = ds.raw /\ ds'.outSize = ds.outSize
        /\ ds'.outStart = ds.outStart /\ ds'.outEnd = ds.outEnd /\ ds'.hostage = ds.hostage
    BY <1>2, <2>5 DEF DContexts
  <2>7. dcall' \in DCalls /\ ~dcall'.busy /\ dcall'.ret # 0 /\ (dcall'.full => dcall.room = 0)
    BY <1>2, <1>6, <1>8, <2>2, <2>5, ReturnedIs
  <2>8. UNCHANGED <<dmem, made, received, failures>>
    BY <1>11, <1>12
  <2>9. DTypeInv'
    BY <1>0, <1>1, <2>6, <2>7, <2>8 DEF DTypeInv, DCalls
  <2>10. DStageInv'
    BY <1>6, <1>7, <1>12, <2>6 DEF DStageInv
  <2>11. DFlushInv'
    BY <1>0, <1>1, <2>6, <2>8 DEF DFlushInv
  <2>12. DCallInv'
    BY <2>3, <2>6, <2>7 DEF DCallInv
  <2>13. DRingInv'
    BY <1>6, <2>6 DEF DRingInv, DecodingBlocks
  <2>14. /\ wire' \in Seq(Units) /\ wire' \in Seq(Lyings)
         /\ Underway = Cat(units, Cat(wire', cs.outBuff))
    <3>1. /\ Drop(wire, n) \in Seq(Units) /\ Drop(wire, n) \in Seq(Lyings)
          /\ Underway = Cat(Cat(Held, Take(wire, n)), Cat(Drop(wire, n), cs.outBuff))
      BY <1>0, <1>7, <1>9, Taken
    <3>2. QED
      BY <1>10, <2>5, <3>1
  <2>15. Lying' = wire' /\ Held' = units /\ cs' = cs
    BY <1>0, <1>7, <2>6, WriterStays DEF Lying, Held
  <2>16. Underway' = Underway
    <3>1. Underway' = Cat(Held', Cat(Lying', cs'.outBuff))
      BY DEF Underway, Cat
    <3>2. QED
      BY <2>14, <2>15, <3>1
  <2>17. PICK a \in Places, q \in Places : Matches(a) /\ Parses(a, Underway, q) /\ LedTo(cs, Written, q)
    BY <1>0 DEF UnderwayInv
  <2>18. Matches(a)'
    BY <1>6, <2>6, <2>8, <2>17 DEF Matches
  <2>19. UnderwayInv'
    <3>1. Lying' \in Seq(Units) /\ Parses(a, Underway', q)
      BY <2>14, <2>15, <2>16, <2>17
    <3>2. QED
      BY <1>0, <2>14, <2>17, <2>18, <3>1, UnderwayKeeps
  <2>20. QED
    BY <1>0, <2>9, <2>10, <2>11, <2>12, <2>13, <2>19, WriterStays DEF PipeInv, DInv
<1>13. CASE ~(Len(units) < ds.expected)
  <2>1. Len(units) = ds.expected /\ n > 0
    BY <1>2, <1>6, <1>8, <1>9, <1>10, <1>13
  <2>2. PICK d \in DContexts : d = [ds EXCEPT !.inBuff = <<>>]
    <3>1. PICK none \in Seq(Units) : none = <<>>
      BY EmptySeq
    <3>2. [ds EXCEPT !.inBuff = none] \in DContexts
      BY <1>2 DEF DContexts
    <3>3. QED
      BY <3>1, <3>2
  <2>3. /\ ContinueStream(d, units) /\ wire' = Drop(wire, n) /\ dcall' = Took(n)
        /\ UNCHANGED <<received, failures>>
    BY <1>11, <1>13, <2>2
  <2>4. QED
    BY <1>1, <1>6, <1>9, <1>10, <2>1, <2>2, <2>3, SkipEndsKeeps
<1>14. QED
  BY <1>12, <1>13

-----------------------------------------------------------------------------
(* The pipe. *)

\* A step of the reader or of his user.
LEMMA ReaderStepKeeps ==
  ASSUME PipeInv, Reader
  PROVE  PipeInv'
<1>1. UNCHANGED cVars /\ (DStep \/ DUser)
  BY DEF Reader
<1>2. ASSUME NEW shown \in {MIN(n, Len(wire)) : n \in Arrivals}, NEW room \in DRooms, DCall(shown, room)
      PROVE  PipeInv'
  <2>1. Len(wire) \in Nat
    BY LenProperties DEF PipeInv, UnderwayInv
  <2>2. PICK n \in Arrivals : shown = MIN(n, Len(wire))
    BY <1>2
  <2>3. n \in Nat /\ room \in Nat \ {0}
    BY DStreamAssumption
  <2>4. shown \in Nat
    BY <2>1, <2>2, <2>3 DEF MIN
  <2>5. QED
    BY <1>1, <1>2, <2>3, <2>4, DCallKeeps
<1>3. CASE DUser
  BY <1>2, <1>3 DEF DUser
<1>4. CASE DStep
  BY <1>1, <1>4, LoadHeaderKeeps, SinglePassKeeps, BeginDecodingKeeps, NoMemoryKeeps, ReadDirectlyKeeps,
     ReadEndsKeeps, LoadKeeps, FlushKeeps DEF DStep
<1>5. QED
  BY <1>1, <1>3, <1>4

\* A step that changes nothing.
LEMMA PipeStutters ==
  ASSUME PipeInv, UNCHANGED pipeVars
  PROVE  PipeInv'
<1>0. CInv /\ DInv /\ UnderwayInv
  BY DEF PipeInv
<1>1. /\ wire' = wire /\ cs' = cs /\ ds' = ds /\ dmem' = dmem /\ dcall' = dcall /\ received' = received
      /\ made' = made /\ failures' = failures /\ UNCHANGED cVars
  BY DEF pipeVars, cVars
<1>2. CInv' /\ Written' = Written
  BY <1>0, <1>1, WriterStays
<1>3. DTypeInv' /\ DStageInv' /\ DFlushInv'
  BY <1>0, <1>1 DEF DInv, DTypeInv, DStageInv, DFlushInv, HeaderAll
<1>4. DCallInv'
  BY <1>0, <1>1 DEF DInv, DCallInv, HeaderAll
<1>5. DRingInv'
  BY <1>0, <1>1, RingKeeps DEF RingStays
<1>6. Lying' = Lying /\ Held' = Held
  BY <1>1 DEF Lying, Held
<1>7. Underway' = Underway
  BY <1>1, <1>6 DEF Underway
<1>8. PICK p \in Places, q \in Places : Matches(p) /\ Parses(p, Underway, q) /\ LedTo(cs, Written, q)
  BY <1>0 DEF UnderwayInv
<1>9. Matches(p)'
  BY <1>1, <1>8 DEF Matches, InFrame
<1>10. UnderwayInv'
  <2>1. wire' \in Seq(Lyings) /\ Lying' \in Seq(Units)
    BY <1>0, <1>1, <1>6 DEF UnderwayInv
  <2>2. Parses(p, Underway', q)
    BY <1>7, <1>8
  <2>3. QED
    BY <1>0, <1>1, <1>8, <1>9, <2>1, <2>2, UnderwayKeeps
<1>11. QED
  BY <1>2, <1>3, <1>4, <1>5, <1>10 DEF PipeInv, DInv

\* In the beginning nothing is under way.
LEMMA PipeBegins ==
  ASSUME PipeInit
  PROVE  PipeInv
<1>1. /\ wire = <<>> /\ ip = 0 /\ iend = 0 /\ ccall = Idle("continue", 0)
      /\ ds = NoFrame /\ dmem = <<>> /\ dcall = NoCall /\ received = <<>>
      /\ made = [all |-> 0, before |-> 0] /\ failures = 0
  BY DEF PipeInit, CStreamInit, DStreamInit
<1>2. PICK stable \in BOOLEAN : cs = NoSession(stable)
  BY DEF PipeInit, CStreamInit
<1>3. PICK zero \in Nat : zero = 0
  OBVIOUS
<1>4. cs.stable = stable /\ cs.stable \in BOOLEAN
  BY <1>2 DEF NoSession
<1>5. IsNoSession(cs, zero)
  <2>1. IsNoSession(NoSession(stable), 0)
    BY Between
  <2>2. QED
    BY <1>2, <1>3, <2>1
<1>6. /\ cs \in CSessions
      /\ cs.stage = "init" /\ cs.frame = "created" /\ cs.consumed = 0 /\ cs.pos = 0 /\ cs.toCompress = 0
      /\ cs.outBuff = <<>> /\ cs.ended = FALSE /\ cs.notConsumed = zero
      /\ cs.pledged = Unknown
  BY <1>4, <1>5, NoSessionIs
<1>7. /\ ccall.busy = FALSE /\ ccall.op = "continue" /\ ccall.ret = 0
      /\ ccall \in [busy : BOOLEAN, op : {"continue", "flush", "end"}, room : Nat, ret : Nat]
  BY <1>1 DEF Idle
<1>8. CTypeInv
  BY <1>1, <1>6, <1>7 DEF CTypeInv
<1>9. Waiting = 0 /\ Written = 0
  BY <1>1, <1>3, <1>6 DEF Waiting, Written
<1>10. CInitInv
  BY <1>5, <1>6, <1>7 DEF CInitInv, IsNoSession
<1>11. CStageInv /\ CSizesInv /\ CRingInv
  BY <1>6 DEF CStageInv, CSizesInv, CRingInv
<1>12. CStableInv /\ CPledgedInv /\ CReturnInv
  BY <1>1, <1>3, <1>6, <1>7, <1>9 DEF CStableInv, CPledgedInv, CReturnInv
<1>13. CInv
  BY <1>8, <1>10, <1>11, <1>12 DEF CInv
<1>14. AtRest(ds) /\ ds.idle = 0
  BY <1>1, NoFrameRests
<1>15. /\ ds \in DContexts /\ ds.stage = "init" /\ ds.dstage = "getHeader" /\ ds.head = <<>> /\ ds.inBuff = <<>>
       /\ ds.outStart = 0 /\ ds.outEnd = 0 /\ ds.hostage = FALSE
  BY <1>14 DEF AtRest
<1>16. dcall \in DCalls /\ dcall.busy = FALSE /\ dcall.full = FALSE
  BY <1>1 DEF NoCall, DCalls
<1>17. DTypeInv
  BY <1>1, <1>15, <1>16 DEF DTypeInv, DCalls
<1>18. DStageInv
  BY <1>15, <1>16 DEF DStageInv
<1>19. DFlushInv
  <2>1. received = Numbers(0, 0) /\ Len(received) = 0
    BY <1>1, <1>3, NoNumbers
  <2>2. ds.outEnd <= ds.outSize
    BY <1>15 DEF DContexts
  <2>3. QED
    BY <1>1, <1>15, <2>1, <2>2 DEF DFlushInv
<1>20. DCallInv
  BY <1>14, <1>15, <1>16 DEF DCallInv
<1>21. DRingInv
  BY <1>15 DEF DRingInv, DecodingBlocks
<1>22. Held = <<>> /\ Lying = <<>>
  BY <1>1, <1>15 DEF Held, Lying
<1>23. Underway = <<>>
  <2>1. PICK none \in Seq(Units) : none = <<>>
    BY EmptySeq
  <2>2. Underway = Cat(none, Cat(none, none))
    BY <1>6, <1>22, <2>1 DEF Underway, Cat
  <2>3. QED
    BY <2>1, <2>2, NothingFirst
<1>24. PICK p \in Places : p.at = "between" /\ p.n = 0
  <2>1. PICK f : f = [start |-> zero, fcs |-> zero, sum |-> FALSE, window |-> zero]
    OBVIOUS
  <2>2. f.start \in Nat /\ f.fcs \in Nat \cup {Unknown} /\ f.sum \in BOOLEAN /\ f.window \in Nat
    BY <2>1
  <2>3. PICK no \in BOOLEAN, at \in {"between", "frame", "body", "sum", "skip"} : at = "between"
    OBVIOUS
  <2>4. At(at, zero, zero, no, no, zero, f) \in Places
    BY <2>2, <2>3, AtPlace
  <2>5. QED
    BY <1>3, <2>3, <2>4 DEF At
<1>25. Matches(p)
  BY <1>1, <1>15, <1>24 DEF Matches
<1>26. LedTo(cs, Written, p)
  BY <1>6, <1>9, <1>24 DEF LedTo
<1>27. Parses(p, Underway, p)
  BY <1>23, PassNothing
<1>28. UnderwayInv
  <2>1. <<>> \in Seq(Lyings) /\ <<>> \in Seq(Units)
    BY EmptySeq
  <2>2. QED
    BY <1>1, <1>22, <1>25, <1>26, <1>27, <2>1 DEF UnderwayInv
<1>29. QED
  BY <1>13, <1>17, <1>18, <1>19, <1>20, <1>21, <1>28 DEF PipeInv, DInv

\* The inductive invariant: whatever the chunks, rooms, directives and failing
\* allocations, each side is in order and what is under way leads from the place the
\* reader has got to to the one the writer has.
THEOREM PipeInvariant == PipeSpec => []PipeInv
<1>1. PipeInit => PipeInv
  BY PipeBegins
<1>2. PipeInv /\ [PipeNext]_pipeVars => PipeInv'
  BY WriterStepKeeps, ReaderStepKeeps, PipeStutters DEF PipeNext
<1>3. QED
  BY <1>1, <1>2, PTL DEF PipeSpec

-----------------------------------------------------------------------------
(* What a return value of 0 means. *)

\* What has been taken and not been dealt with, without the end of a header or a
\* skippable frame, holds no bytes.
LEMMA HeldHoldsNothing ==
  ASSUME PipeInv, ~dcall.busy, NEW p \in Places, NEW q \in Places, Matches(p), Parses(p, Held, q)
  PROVE  q.n = p.n
<1>0. DTypeInv /\ DStageInv /\ DCallInv
  BY DEF PipeInv, DInv
<1>1. /\ ds \in DContexts /\ ds.head \in Seq(Units) /\ ds.inBuff \in Seq(Units) /\ ds.expected \in Nat
      /\ Len(ds.head) \in Nat /\ Len(ds.inBuff) \in Nat
  BY <1>0, LenProperties DEF DTypeInv, DContexts
<1>2. CASE Held = <<>>
  BY <1>2, NothingPassed
<1>3. CASE ds.stage = "loadHeader" /\ ds.head # <<>>
  <2>1. Held = ds.head
    BY <1>3 DEF Held
  <2>2. Len(ds.head) > 0
    BY <1>1, <1>3, EmptySeq
  <2>3. Len(ds.head) < HeaderAll(ds.head)
    BY <1>0, <1>3, <2>2 DEF DCallInv
  <2>4. p.at = "between"
    <3>1. ds.dstage = "getHeader"
      BY <1>0, <1>3 DEF DStageInv
    <3>2. QED
      BY <3>1 DEF Matches
  <2>5. ds.head[1].k \in {"head", "skiphead"}
    BY <2>1, <2>2, <2>4, FirstKind
  <2>6. CASE ds.head[1].k = "head"
    <3>1. Len(ds.head) <= HeaderSize
      BY <1>1, <1>3, <2>3, <2>6, HeaderSizeAssumption DEF HeaderAll
    <3>2. QED
      BY <2>1, <2>2, <2>4, <2>6, <3>1, HeadPassed
  <2>7. CASE ds.head[1].k = "skiphead"
    <3>1. Len(ds.head) <= SkipHeaderSize
      BY <1>1, <1>3, <2>3, <2>7, HeaderSizeAssumption DEF HeaderAll
    <3>2. QED
      BY <2>1, <2>2, <2>4, <2>7, <3>1, SkipHeadPassed
  <2>8. QED
    BY <2>5, <2>6, <2>7
<1>4. CASE ds.stage = "load"
  <2>1. Held = ds.inBuff
    BY <1>4 DEF Held
  <2>2. ds.dstage = "skip" /\ Len(ds.inBuff) < ds.expected
    BY <1>0, <1>4 DEF DStageInv
  <2>3. p.at = "skip" /\ p.left = 0 /\ p.rest = ds.expected
    <3>1. ds.expected # 0
      BY <1>1, <2>2
    <3>2. QED
      BY <2>2, <3>1 DEF Matches
  <2>4. Len(ds.inBuff) <= p.rest
    BY <1>1, <2>2, <2>3
  <2>5. QED
    BY <2>1, <2>3, <2>4, SkipPassed
<1>5. QED
  BY <1>2, <1>3, <1>4 DEF Held

\* Whatever the writer has been given has been received, when he has been told that a
\* flush or a frame is done and the reader has been shown it all and has room left.
LEMMA NothingLeftBehind ==
  ASSUME PipeInv, ~ccall.busy, ccall.op \in {"flush", "end"}, ccall.ret = 0,
         ~dcall.busy, wire = <<>>, ~dcall.full
  PROVE  Len(received) = iend
<1>0. CInv /\ DInv /\ UnderwayInv /\ DTypeInv /\ DStageInv /\ DFlushInv /\ DCallInv
  BY DEF PipeInv, DInv
<1>1. cs.outBuff = <<>> /\ Written = iend
  BY <1>0 DEF CInv, CReturnInv
<1>2. Len(received) = made.all
  <2>1. ds.stage # "flush"
    BY <1>0 DEF DCallInv
  <2>2. ds.outStart = ds.outEnd /\ ds.outEnd \in Nat /\ Len(received) \in Nat
        /\ Len(received) + (ds.outEnd - ds.outStart) = made.all
    BY <1>0, <2>1 DEF DFlushInv, DTypeInv, DContexts
  <2>3. QED
    BY <2>2
<1>3. Lying = <<>>
  <2>1. ~ds.hostage
    <3>1. ~(Len(wire) > 0)
      BY EmptySeq
    <3>2. QED
      BY <1>0, <3>1 DEF DStageInv
  <2>2. QED
    BY <2>1 DEF Lying
<1>4. Underway = Held
  <2>1. PICK none \in Seq(Units), held \in Seq(Units) : none = <<>> /\ held = Held
    BY <1>0, EmptySeq DEF Held, DTypeInv, DContexts
  <2>2. Underway = Cat(held, Cat(none, none))
    BY <1>1, <1>3, <2>1 DEF Underway, Cat
  <2>3. Cat(none, none) = none
    BY <2>1, NothingFirst
  <2>4. Cat(held, none) = held
    BY <2>1, ConcatEmptySeq DEF Cat
  <2>5. QED
    BY <2>1, <2>2, <2>3, <2>4
<1>5. PICK p \in Places, q \in Places : Matches(p) /\ Parses(p, Underway, q) /\ LedTo(cs, Written, q)
  BY <1>0 DEF UnderwayInv
<1>6. p.n = made.all /\ q.n = Written
  BY <1>5 DEF Matches, LedTo
<1>7. q.n = p.n
  BY <1>4, <1>5, HeldHoldsNothing
<1>8. QED
  BY <1>1, <1>2, <1>6, <1>7

\* A return value of 0 means that nothing is left behind, on either side; no call
\* fails because of the size that was pledged, and the decoder never makes more than
\* two idle calls in a row.
THEOREM ZeroIsDone == PipeSpec => []ZeroMeansDone
<1>1. PipeInv => ZeroMeansDone
  <2>1. SUFFICES ASSUME PipeInv PROVE ZeroMeansDone
    OBVIOUS
  <2>2. ccall.ret # Failed
    <3>1. ccall.ret \in Nat
      BY <2>1 DEF PipeInv, CInv, CTypeInv
    <3>2. QED
      BY <3>1 DEF Failed
  <2>3. ~ccall.busy /\ ccall.op \in {"flush", "end"} /\ ccall.ret = 0
        /\ ~dcall.busy /\ wire = <<>> /\ ~dcall.full
        => Len(received) = iend
    BY <2>1, NothingLeftBehind
  <2>4. ASSUME ~dcall.busy PROVE ds.idle <= 2 /\ (dcall.ret = 0 => ds.stage = "init" /\ Len(received) = made.all)
    <3>1. DTypeInv /\ DStageInv /\ DCallInv /\ DFlushInv
      BY <2>1 DEF PipeInv, DInv
    <3>2. ds.idle <= 2 /\ (dcall.ret = 0 => ds.stage = "init")
      BY <2>4, <3>1 DEF DCallInv
    <3>3. ASSUME ds.stage = "init" PROVE Len(received) = made.all
      <4>1. ds.outStart = 0 /\ ds.outEnd = 0 /\ Len(received) \in Nat
            /\ Len(received) + (ds.outEnd - ds.outStart) = made.all
        BY <3>1, <3>3 DEF DFlushInv, DStageInv
      <4>2. QED
        BY <4>1
    <3>4. QED
      BY <3>2, <3>3
  <2>5. QED
    BY <2>2, <2>3, <2>4 DEF ZeroMeansDone
<1>2. QED
  BY <1>1, PipeInvariant, PTL

-----------------------------------------------------------------------------
(* Where the decoder looks. *)

\* Whatever a block may refer to, and the block itself, have their place in the ring.
LEMMA RoomForBlock ==
  ASSUME PipeInv, ds.dstage \in {"block", "lastBlock"}, ds.stage \in {"read", "load"}
  PROVE  Room(ds) # 0 /\ (ds.fcs = Unknown => ds.block <= Room(ds))
<1>0. DInv /\ UnderwayInv /\ DTypeInv /\ DFlushInv /\ DRoomInv
  BY DEF PipeInv, DInv, DRingInv, DecodingBlocks
<1>1. PICK p \in Places : Matches(p)
  BY <1>0 DEF UnderwayInv
<1>2. p.at = "body" /\ InFrame(p) /\ p.n = made.all
  BY <1>1 DEF Matches
<1>3. /\ p.left \in Nat /\ p.rest \in Nat /\ p.n \in Nat /\ p.start \in Nat /\ p.window \in Nat
      /\ p.raw \in BOOLEAN /\ p.last \in BOOLEAN
  BY PlaceFields
<1>4. p.rest > 0 /\ p.rest <= BlockSizeMax /\ p.rest <= p.window /\ Fits(p, p.rest)
  BY <1>2, BodyPlace
<1>5. /\ ds \in DContexts /\ ds.outStart = ds.outEnd
      /\ ds.outEnd \in Nat /\ ds.outSize \in Nat /\ ds.block \in Nat /\ ds.fcs \in Nat \cup {Unknown}
  BY <1>0 DEF DTypeInv, DContexts, DFlushInv
<1>6. Room(ds) = ds.outSize - ds.outEnd
  BY <1>5 DEF Room
<1>7. CASE OneSegment
  <2>1. ds.outEnd = made.all - made.before /\ ds.fcs # Unknown /\ ds.fcs <= ds.outSize
    BY <1>0, <1>7 DEF DRoomInv, OneSegment
  <2>2. p.start = made.before /\ p.fcs = ds.fcs
    BY <1>2 DEF InFrame
  <2>3. p.n + p.rest - p.start <= ds.fcs
    BY <1>4, <2>1, <2>2 DEF Fits
  <2>4. ds.fcs \in Nat
    BY <1>5, <2>1
  <2>5. QED
    BY <1>2, <1>3, <1>4, <1>5, <1>6, <2>1, <2>2, <2>3, <2>4
<1>8. CASE ~OneSegment
  <2>1. ds.outEnd + ds.block <= ds.outSize
    BY <1>0, <1>8 DEF DRoomInv
  <2>2. ds.block > 0
    <3>1. ds.block = MIN(p.window, DBlockSizeMax)
      BY <1>2 DEF InFrame
    <3>2. DBlockSizeMax \in Nat /\ DBlockSizeMax > 0
      BY DStreamAssumption
    <3>3. QED
      BY <1>3, <1>4, <3>1, <3>2 DEF MIN
  <2>3. QED
    BY <1>5, <1>6, <2>1, <2>2
<1>9. QED
  BY <1>7, <1>8

\* A byte that can be referred to has an address, holds what it should, and is not
\* written over.
LEMMA ByteIsHeld ==
  ASSUME PipeInv, ds.dstage \in {"block", "lastBlock"}, ds.stage \in {"read", "load"},
         NEW e \in DContexts, e.outStart = ds.outStart, GoesOnHere(e),
         NEW k \in 1 .. DReach, NEW at,
         at = IF k <= Here(e) - e.prefixStart THEN Here(e) - k
              ELSE e.dictEnd - (k - (Here(e) - e.prefixStart))
  PROVE  /\ k <= Here(e) - e.virtualStart
         /\ at \in DOMAIN dmem
         /\ dmem[at] = made.all - k + 1
         /\ at \notin WrittenOver(ds)
<1>0. DTypeInv /\ DFlushInv
  BY DEF PipeInv, DInv
<1>1. /\ ds.outStart = ds.outEnd /\ dmem \in [1 .. ds.outSize -> Nat] /\ ds.outEnd <= ds.outSize
      /\ ds.outEnd \in Nat /\ ds.outSize \in Nat /\ ds.block \in Nat /\ ds.window \in Nat
      /\ made.all \in Nat /\ made.before \in Nat /\ WildcopyLength \in Nat
  BY <1>0, DStreamAssumption DEF DTypeInv, DContexts, DFlushInv
<1>2. PICK h \in Nat, w \in Nat, b \in Nat, c \in Nat, size \in Nat :
        h = ds.outEnd /\ w = ds.window /\ b = ds.block /\ c = WildcopyLength /\ size = ds.outSize
  BY <1>1
<1>3. PICK dict \in Int : dict = e.dictEnd
  BY DEF DContexts
<1>4. Here(e) = 1 + h /\ Here(ds) = 1 + h /\ e.prefixStart = 1 /\ e.previousDstEnd = 1 + h
  BY <1>1, <1>2 DEF Here, GoesOnHere
<1>5. DReach \in Int /\ DReach <= w /\ DReach <= made.all - made.before
  BY <1>1, <1>2 DEF DReach, MIN
<1>6. k \in Nat /\ k >= 1 /\ k <= w /\ k <= made.all - made.before
  BY <1>1, <1>2, <1>5
<1>7. at = Address(k, 1 + h, dict)
  <2>1. at = IF k <= h THEN 1 + h - k ELSE dict - (k - h)
    BY <1>3, <1>4
  <2>2. k < 1 + h <=> k <= h
    BY <1>6
  <2>3. (1 + h) - 1 = h
    OBVIOUS
  <2>4. QED
    BY <2>1, <2>2, <2>3 DEF Address
<1>8. PICK past \in Nat : past = made.all - made.before
  BY <1>1, <1>6
<1>9. IF dict = 0 THEN past = h ELSE dict >= w + b + 2 * c + 2 /\ dict <= size + 1
  BY <1>2, <1>3, <1>8 DEF GoesOnHere, Behind
<1>10. /\ at \in Int /\ at >= 1 /\ at <= size /\ (at <= h \/ at >= 1 + h + b + c)
  <2>1. h <= size
    BY <1>1, <1>2
  <2>2. k <= past
    BY <1>6, <1>8
  <2>3. PICK j \in Nat : j = k
    BY <1>6
  <2>4. j >= 1 /\ j <= w /\ j <= past
    BY <1>6, <2>2, <2>3
  <2>5. /\ Address(j, 1 + h, dict) \in Int
        /\ Address(j, 1 + h, dict) >= 1 /\ Address(j, 1 + h, dict) <= size
        /\ Address(j, 1 + h, dict) <= h \/ Address(j, 1 + h, dict) >= 1 + h + b + c
    BY <1>9, <2>1, <2>4, AddressIs
  <2>6. QED
    BY <1>7, <2>3, <2>5
<1>11. k <= Here(e) - e.virtualStart
  <2>1. CASE dict = 0
    <3>1. e.virtualStart = 1
      BY <1>3, <2>1 DEF GoesOnHere
    <3>2. past = h
      BY <1>9, <2>1
    <3>3. QED
      BY <1>4, <1>6, <1>8, <3>1, <3>2
  <2>2. CASE dict # 0
    <3>1. e.virtualStart = 2 - dict
      BY <1>3, <2>2 DEF GoesOnHere
    <3>2. dict >= w + b + 2 * c + 2
      BY <1>9, <2>2
    <3>3. QED
      BY <1>4, <1>6, <3>1, <3>2
  <2>3. QED
    BY <2>1, <2>2
<1>12. at \in DOMAIN dmem
  BY <1>1, <1>2, <1>10
<1>13. dmem[at] = made.all - k + 1
  BY <1>2, <1>3, <1>7 DEF GoesOnHere
<1>14. at \notin WrittenOver(ds)
  <2>1. PICK room \in Int : room = Room(ds)
    BY <1>1 DEF Room
  <2>2. MIN(b + c, room) <= b + c /\ MIN(b + c, room) \in Int
    BY DEF MIN
  <2>3. WrittenOver(ds) = 1 + h .. 1 + h + MIN(b + c, room) - 1
    BY <1>2, <1>4, <2>1 DEF WrittenOver
  <2>4. QED
    BY <1>10, <2>2, <2>3
<1>15. QED
  BY <1>11, <1>12, <1>13, <1>14

\* A block finds the history it may refer to where the decoder looks for it, in front
\* of the block or in the segment before the ring started over, and the block does not
\* write over it; a block of a frame of unknown size fits.
THEOREM HistoryIsHeld == PipeSpec => []HistoryHeld
<1>1. PipeInv => HistoryHeld
  <2>1. SUFFICES ASSUME PipeInv, ds.dstage \in {"block", "lastBlock"}, ds.stage \in {"read", "load"},
                        NEW e, e = CheckContinuity(ds, Here(ds), Room(ds))
                 PROVE  /\ \A k \in 1 .. DReach :
                             LET at == IF k <= Here(e) - e.prefixStart THEN Here(e) - k
                                       ELSE e.dictEnd - (k - (Here(e) - e.prefixStart))
                             IN  /\ k <= Here(e) - e.virtualStart
                                 /\ at \in DOMAIN dmem
                                 /\ dmem[at] = made.all - k + 1
                                 /\ at \notin WrittenOver(ds)
                        /\ ds.fcs = Unknown => ds.block <= Room(ds)
    BY DEF HistoryHeld, DReach
  <2>2. Room(ds) # 0 /\ (ds.fcs = Unknown => ds.block <= Room(ds))
    BY <2>1, RoomForBlock
  <2>3. e \in DContexts /\ e.outStart = ds.outStart
    <3>1. ds \in DContexts /\ Room(ds) \in Int
      <4>1. ds \in DContexts
        BY <2>1 DEF PipeInv, DInv, DTypeInv
      <4>2. ds.outSize \in Nat /\ ds.outStart \in Nat
        BY ONLY <4>1 DEF DContexts
      <4>3. Room(ds) \in Int
        BY <4>2 DEF Room
      <4>4. QED
        BY <4>1, <4>3
    <3>2. QED
      BY <2>1, <3>1, CheckFields DEF SameButSegments
  <2>4. GoesOnHere(e)
    <3>1. DInv /\ DecodingBlocks
      BY <2>1 DEF PipeInv, DecodingBlocks
    <3>2. QED
      BY <2>1, <2>2, <3>1, CheckGoesOn
  <2>5. ASSUME NEW k \in 1 .. DReach, NEW at,
               at = IF k <= Here(e) - e.prefixStart THEN Here(e) - k
                    ELSE e.dictEnd - (k - (Here(e) - e.prefixStart))
        PROVE  /\ k <= Here(e) - e.virtualStart
               /\ at \in DOMAIN dmem
               /\ dmem[at] = made.all - k + 1
               /\ at \notin WrittenOver(ds)
    BY <2>1, <2>3, <2>4, <2>5, ByteIsHeld
  <2>6. QED
    BY <2>2, <2>5
<1>2. QED
  BY <1>1, PipeInvariant, PTL

-----------------------------------------------------------------------------
(* What comes out is what went in. *)

\* What the writer has been given grows, and nothing comes out meanwhile.
LEMMA WriterGives ==
  ASSUME PipeInv, Writer
  PROVE  received' = received /\ iend' >= iend
<1>1. received' = received /\ (CStep \/ CUser)
  BY DEF Writer, dVars
<1>2. iend \in Nat
  BY DEF PipeInv, CInv, CTypeInv
<1>3. CASE CStep
  <2>1. iend' = iend
    BY <1>3 DEF CStep, CompressRest, CompressBlock, WaitForInput, FlushOut
  <2>2. QED
    BY <1>1, <1>2, <2>1
<1>4. CASE CUser
  <2>1. CASE \E size \in SkipSizes : Skippable(size)
    <3>1. iend' = iend
      BY <2>1 DEF Skippable, cVars
    <3>2. QED
      BY <1>1, <1>2, <3>1
  <2>2. CASE \E op \in {"continue", "flush", "end"}, added \in Feeds, room \in CRooms, checksum \in BOOLEAN :
               CCall(op, added, room, checksum)
    <3>1. PICK added \in Feeds : iend' = iend + added
      BY <2>2 DEF CCall
    <3>2. added \in Nat
      BY CStreamAssumption
    <3>3. QED
      BY <1>1, <1>2, <3>1, <3>2
  <2>3. QED
    BY <1>4, <2>1, <2>2 DEF CUser
<1>5. QED
  BY <1>1, <1>3, <1>4

\* The reader does not give back what he has received, nor does he touch the input.
LEMMA ReaderReceives ==
  ASSUME PipeInv, Reader
  PROVE  iend' = iend /\ Len(received) <= Len(received')
<1>0. DTypeInv /\ DFlushInv
  BY DEF PipeInv, DInv
<1>1. iend' = iend /\ UNCHANGED cVars /\ (DStep \/ DUser)
  BY DEF Reader, cVars
<1>2. Len(received) \in Nat
  BY <1>0 DEF DFlushInv
<1>3. CASE received' = received
  BY <1>1, <1>2, <1>3
<1>4. CASE SinglePass
  BY <1>1, <1>4, SinglePassKeeps
<1>5. CASE Flush
  <2>1. ds.outStart \in Nat /\ ds.outEnd \in Nat /\ dcall.room \in Nat /\ ds.outStart <= ds.outEnd
    BY <1>0 DEF DTypeInv, DContexts, DFlushInv
  <2>2. PICK n \in Nat : n = MIN(ds.outEnd - ds.outStart, dcall.room) /\ n <= ds.outEnd - ds.outStart
    BY <2>1 DEF MIN
  <2>3. ds.stage = "flush" /\ received' = received \o [i \in 1 .. n |-> dmem[ds.outStart + i]]
    BY <1>5, <2>2 DEF Flush, DAt
  <2>4. Len(received') = Len(received) + n
    BY <1>0, <2>2, <2>3, FlushedIs
  <2>5. QED
    BY <1>1, <1>2, <2>4
<1>6. CASE DUser
  <2>1. received' = received
    BY <1>6 DEF DUser, DCall
  <2>2. QED
    BY <1>3, <2>1
<1>7. CASE LoadHeader \/ BeginDecoding \/ NoMemory \/ ReadDirectly \/ ReadEnds \/ Load
  <2>1. received' = received
    BY <1>7 DEF LoadHeader, BeginDecoding, NoMemory, ReadDirectly, ReadEnds, Load
  <2>2. QED
    BY <1>3, <2>1
<1>8. QED
  BY <1>1, <1>4, <1>5, <1>6, <1>7 DEF DStep

\* No more has come out than went in.
NoMoreThanGiven ==
  /\ Len(received) \in Nat /\ received = Numbers(0, Len(received))
  /\ iend \in Nat /\ Len(received) <= iend

\* Every byte that has been received was decoded, every byte that was decoded had been
\* written, and every byte that has been written was given.
LEMMA ReceivedWasGiven ==
  ASSUME PipeInv
  PROVE  NoMoreThanGiven
<1>0. CInv /\ DInv /\ UnderwayInv /\ DTypeInv /\ DFlushInv /\ CTypeInv
  BY DEF PipeInv, DInv, CInv
<1>1. /\ Len(received) \in Nat /\ received = Numbers(0, Len(received))
      /\ Len(received) + (ds.outEnd - ds.outStart) = made.all /\ ds.outStart <= ds.outEnd
      /\ ds.outStart \in Nat /\ ds.outEnd \in Nat /\ made.all \in Nat
  BY <1>0 DEF DFlushInv, DTypeInv, DContexts
<1>2. Len(received) <= made.all
  BY <1>1
<1>3. PICK p \in Places, q \in Places : Matches(p) /\ Parses(p, Underway, q) /\ LedTo(cs, Written, q)
  BY <1>0 DEF UnderwayInv
<1>4. p.n = made.all /\ q.n = Written
  BY <1>3 DEF Matches, LedTo
<1>5. p.n <= q.n
  BY <1>3, PassingCounts
<1>6. ip \in Nat /\ iend \in Nat /\ ip <= iend /\ cs.notConsumed \in Nat /\ cs.pos \in Nat /\ cs.toCompress \in Nat
  BY <1>0 DEF CTypeInv, CSessions
<1>7. Waiting \in Int /\ Waiting >= 0
  <2>1. cs.toCompress <= cs.pos
    <3>1. CASE cs.stable
      BY <1>0, <1>6, <3>1 DEF CInv, CStableInv
    <3>2. CASE cs.stage = "init"
      <4>1. IsNoSession(cs, cs.notConsumed) /\ cs.stable \in BOOLEAN
        BY <1>0, <3>2 DEF CInv, CInitInv, IsNoSession, CTypeInv, CSessions
      <4>2. cs.pos = 0 /\ cs.toCompress = 0
        BY <1>6, <4>1, NoSessionIs
      <4>3. QED
        BY <4>2
    <3>3. CASE ~cs.stable /\ cs.stage # "init"
      BY <1>0, <3>3 DEF CInv, CRingInv
    <3>4. QED
      BY <3>1, <3>2, <3>3
  <2>2. QED
    BY <1>6, <2>1 DEF Waiting
<1>8. Written \in Int /\ Written <= iend
  BY <1>6, <1>7 DEF Written
<1>9. QED
  BY <1>1, <1>2, <1>4, <1>5, <1>6, <1>8 DEF NoMoreThanGiven

\* What comes out in a step is what comes next.
LEMMA NextComesOut ==
  ASSUME NEW a \in Nat, NEW b \in Nat, a < b
  PROVE  Numbers(0, b) = Numbers(0, a) \o [i \in 1 .. b - a |-> a + i]
<1>1. Numbers(0, a) \o Numbers(a, b) = Numbers(0, b)
  <2>1. a <= b
    OBVIOUS
  <2>2. QED
    BY <2>1, NumbersGoOn
<1>2. Numbers(a, b) = [i \in 1 .. b - a |-> a + i]
  BY DEF Numbers
<1>3. QED
  BY <1>1, <1>2

\* The pipe implements a fifo of bytes: every byte the writer is given comes out on the
\* reader's side, once and in order.
THEOREM DeliversBytes == PipeSpec => DeliversInOrder
<1>1. PipeInit => Fifo!FifoInit
  BY DEF PipeInit, CStreamInit, DStreamInit, Fifo!FifoInit
<1>2. PipeInv => NoMoreThanGiven
  BY ReceivedWasGiven
<1>3. PipeInv /\ NoMoreThanGiven /\ NoMoreThanGiven' /\ [PipeNext]_pipeVars => [Fifo!Give \/ Fifo!Get]_<<iend, received>>
  <2>1. SUFFICES ASSUME PipeInv, NoMoreThanGiven, NoMoreThanGiven', [PipeNext]_pipeVars
                 PROVE  Fifo!Give \/ Fifo!Get \/ (iend' = iend /\ received' = received)
    OBVIOUS
  <2>2. CASE UNCHANGED pipeVars
    BY <2>2 DEF pipeVars
  <2>3. CASE Writer
    <3>1. received' = received /\ iend' >= iend /\ iend \in Nat /\ iend' \in Nat
      BY <2>1, <2>3, WriterGives DEF NoMoreThanGiven
    <3>2. CASE iend' > iend
      BY <3>1, <3>2 DEF Fifo!Give
    <3>3. CASE iend' = iend
      BY <3>1, <3>3
    <3>4. QED
      BY <3>1, <3>2, <3>3
  <2>4. CASE Reader
    <3>1. iend' = iend /\ Len(received) <= Len(received')
      BY <2>1, <2>4, ReaderReceives
    <3>2. PICK a \in Nat : a = Len(received) /\ received = Numbers(0, a)
      BY <2>1 DEF NoMoreThanGiven
    <3>3. /\ Len(received') \in Nat /\ received' = Numbers(0, Len(received'))
          /\ iend' \in Nat /\ Len(received') <= iend'
      BY <2>1 DEF NoMoreThanGiven
    <3>4. PICK b \in Nat : b = Len(received') /\ received' = Numbers(0, b) /\ b <= iend /\ a <= b
      BY <3>1, <3>2, <3>3
    <3>5. CASE a = b
      BY <3>1, <3>2, <3>4, <3>5
    <3>6. CASE a < b
      <4>1. received' = received \o [i \in 1 .. b - a |-> a + i]
        BY <3>2, <3>4, <3>6, NextComesOut
      <4>2. b - a \in 1 .. iend - a
        BY <3>3, <3>1, <3>4, <3>6
      <4>3. Fifo!Get
        BY <3>1, <3>2, <4>1, <4>2 DEF Fifo!Get
      <4>4. QED
        BY <4>3
    <3>7. QED
      BY <3>4, <3>5, <3>6
  <2>5. QED
    BY <2>1, <2>2, <2>3, <2>4 DEF PipeNext
<1>4. QED
  BY <1>1, <1>2, <1>3, PipeInvariant, PTL DEF PipeSpec, DeliversInOrder, Fifo!FifoSpec
=============================================================================
