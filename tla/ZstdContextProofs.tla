-------------------------- MODULE ZstdContextProofs --------------------------
(***************************************************************************)
(* Proofs about the memory of a compression.  The context: whatever        *)
(* profiles frames have, wherever the workspace lies and whichever         *)
(* allocation fails, the size that is estimated suffices, a frame begins   *)
(* with sound pointers and tables, and nothing leaks.  The workspace       *)
(* alone, whoever its client is.  The window, for every size of window,    *)
(* block, chunk and memory, and for input of any length: what the indices  *)
(* stand for survives overlapping input, dictionaries, new frames and any  *)
(* number of overflow corrections.                                         *)
(***************************************************************************)
EXTENDS ZstdContext, CwkspClient, ZstdWindow, WellFoundedInduction, FiniteSetTheorems, TLAPS

-----------------------------------------------------------------------------
(* Lists of requests are served one after the other.  A fold is followed by
   a function from the number of requests served to what there is then. *)

\* What holds of 0 and is passed on by every number holds of all.
LEMMA CountUp ==
  ASSUME NEW S, 0 \in S, \A k \in Nat : k \in S => k + 1 \in S
  PROVE  Nat \subseteq S
<1> DEFINE T == Nat \ S
           R == OpToRel(<, Nat)
<1>1. SUFFICES ASSUME T # {} PROVE FALSE
  OBVIOUS
<1>2. T \subseteq Nat
  OBVIOUS
<1>3. IsWellFoundedOn(R, Nat)
  BY NatLessThanWellFounded
<1>4. PICK n \in T : \A m \in T : <<m, n>> \notin R
  <2> HIDE DEF T, R
  <2>1. QED
    BY <1>1, <1>2, <1>3, WFMin
<1>5. n # 0 /\ n - 1 \in Nat /\ n - 1 \in T
  OBVIOUS
<1>6. <<n - 1, n>> \in R
  BY <1>5 DEF OpToRel
<1>7. QED
  BY <1>4, <1>5, <1>6

\* A greatest number is the maximum.
LEMMA MaxIs ==
  ASSUME NEW s \in SUBSET Int, NEW m \in s, \A i \in s : i <= m
  PROVE  Max(s) = m
<1>1. \A i \in s : m >= i
  OBVIOUS
<1>2. ASSUME NEW x \in s, \A i \in s : x >= i PROVE x = m
  BY <1>2
<1>3. QED
  BY <1>1, <1>2 DEF Max

\* The two folds of the model: serving requests, and summing up rounded sizes.
Fold(kind, x, r) == IF kind = "serve" THEN Serve(x, r) ELSE x + AlignedAllocSize(r)

\* t follows a list from base on: t[k] is what there is after k of its members.
Follows(kind, t, base, list) ==
  /\ t[0] = base
  /\ \A k \in 1 .. Len(list) : t[k] = Fold(kind, t[k - 1], list[k])

\* The function by which FoldLeft is defined.
Iterates(kind, f, n, base, list) ==
  f = [s \in SUBSET (1 .. n) |->
         IF s = {} THEN base ELSE Fold(kind, f[s \ {Max(s)}], list[Max(s)])]

\* It exists for every length of the list.
LEMMA IteratesExists ==
  ASSUME NEW kind, NEW base, NEW list, NEW n \in Nat
  PROVE  \E f : Iterates(kind, f, n, base, list)
<1> DEFINE S == {k \in Nat : \E f : Iterates(kind, f, k, base, list)}
<1>1. 0 \in S
  <2>1. SUBSET (1 .. 0) = {{}}
    OBVIOUS
  <2>2. Iterates(kind, [s \in {{}} |-> base], 0, base, list)
    BY <2>1 DEF Iterates
  <2>3. QED
    BY <2>2
<1>2. ASSUME NEW k \in Nat, k \in S PROVE k + 1 \in S
  <2>1. PICK f : Iterates(kind, f, k, base, list)
    BY <1>2
  <2> DEFINE g == [s \in SUBSET (1 .. k + 1) |->
                     IF k + 1 \in s THEN Fold(kind, f[s \ {k + 1}], list[k + 1]) ELSE f[s]]
             h == [s \in SUBSET (1 .. k + 1) |->
                     IF s = {} THEN base ELSE Fold(kind, g[s \ {Max(s)}], list[Max(s)])]
  <2>2. ASSUME NEW s \in SUBSET (1 .. k + 1) PROVE g[s] = h[s]
    <3>1. CASE k + 1 \in s
      <4>1. Max(s) = k + 1
        BY <3>1, MaxIs
      <4>2. s \ {k + 1} \in SUBSET (1 .. k + 1) /\ k + 1 \notin s \ {k + 1}
        OBVIOUS
      <4>3. g[s \ {k + 1}] = f[s \ {k + 1}]
        BY <4>2
      <4>4. QED
        BY <3>1, <4>1, <4>3
    <3>2. CASE k + 1 \notin s
      <4>1. s \in SUBSET (1 .. k)
        BY <3>2
      <4>2. g[s] = f[s]
        BY <3>2
      <4>3. f[s] = IF s = {} THEN base ELSE Fold(kind, f[s \ {Max(s)}], list[Max(s)])
        BY <2>1, <4>1 DEF Iterates
      <4>4. s \ {Max(s)} \in SUBSET (1 .. k + 1) /\ k + 1 \notin s \ {Max(s)}
        BY <3>2
      <4>5. g[s \ {Max(s)}] = f[s \ {Max(s)}]
        BY <4>4
      <4>6. QED
        BY <4>2, <4>3, <4>5
    <3>3. QED
      BY <3>1, <3>2
  <2>3. g = h
    BY <2>2
  <2>4. Iterates(kind, g, k + 1, base, list)
    <3> HIDE DEF g
    <3>1. QED
      BY <2>3 DEF Iterates
  <2>5. QED
    BY <2>4
<1>3. n \in S
  <2> HIDE DEF S
  <2>1. QED
    BY <1>1, <1>2, CountUp
<1>4. QED
  BY <1>3

\* Its values at the beginnings of the list follow the list.
LEMMA IteratesFollows ==
  ASSUME NEW kind, NEW base, NEW list, NEW n \in Nat, Len(list) = n,
         NEW f, Iterates(kind, f, n, base, list)
  PROVE  Follows(kind, [k \in 0 .. n |-> f[1 .. k]], base, list)
<1> DEFINE t == [k \in 0 .. n |-> f[1 .. k]]
<1>1. t[0] = base
  <2>1. 1 .. 0 = {} /\ {} \in SUBSET (1 .. n)
    OBVIOUS
  <2>2. f[{}] = base
    BY <2>1 DEF Iterates
  <2>3. QED
    BY <2>1, <2>2
<1>2. ASSUME NEW k \in 1 .. n PROVE t[k] = Fold(kind, t[k - 1], list[k])
  <2>1. k \in 1 .. k /\ 1 .. k \in SUBSET Int /\ \A i \in 1 .. k : i <= k
    OBVIOUS
  <2>2. Max(1 .. k) = k
    BY <2>1, MaxIs
  <2>3. (1 .. k) \ {k} = 1 .. (k - 1) /\ 1 .. k \in SUBSET (1 .. n) /\ 1 .. k # {}
    <3>1. (1 .. k) \ {k} = 1 .. (k - 1)
      BY <2>1
    <3>2. \A i \in 1 .. k : i \in 1 .. n
      OBVIOUS
    <3>3. QED
      BY <2>1, <3>1, <3>2
  <2>4. f[1 .. k] = Fold(kind, f[(1 .. k) \ {Max(1 .. k)}], list[Max(1 .. k)])
    BY <2>3 DEF Iterates
  <2>5. f[1 .. k] = Fold(kind, f[1 .. (k - 1)], list[k])
    BY <2>2, <2>3, <2>4
  <2>6. QED
    BY <2>5
<1>3. QED
  BY <1>1, <1>2 DEF Follows

\* So there is something that follows a list, and ends with the fold.
LEMMA ServeFollows ==
  ASSUME NEW acc, NEW R, NEW requests \in Seq(R)
  PROVE  \E t : /\ Follows("serve", t, acc, requests)
                /\ ServeAll(acc, requests) = t[Len(requests)]
<1> DEFINE n == Len(requests)
           f == CHOOSE f : f = [s \in SUBSET (1 .. n) |->
                  IF s = {} THEN acc ELSE Serve(f[s \ {Max(s)}], requests[Max(s)])]
<1>1. n \in Nat /\ DOMAIN requests = 1 .. n
  OBVIOUS
<1>2. ServeAll(acc, requests) = f[1 .. n]
  BY <1>1 DEF ServeAll, FoldLeft, MapThenFoldSet
<1>3. \A g : Iterates("serve", g, n, acc, requests) <=>
               g = [s \in SUBSET (1 .. n) |->
                      IF s = {} THEN acc ELSE Serve(g[s \ {Max(s)}], requests[Max(s)])]
  BY DEF Iterates, Fold
<1>4. Iterates("serve", f, n, acc, requests)
  BY <1>1, <1>3, IteratesExists
<1> HIDE DEF f
<1>5. Follows("serve", [k \in 0 .. n |-> f[1 .. k]], acc, requests)
  BY <1>1, <1>4, IteratesFollows
<1>6. [k \in 0 .. n |-> f[1 .. k]][n] = f[1 .. n]
  BY <1>1
<1>7. QED
  BY <1>2, <1>5, <1>6

\* The sum of rounded sizes follows the list of the sizes.
LEMMA SumFollows ==
  ASSUME NEW sizes \in Seq(Nat)
  PROVE  \E t : Follows("sum", t, 0, sizes) /\ AlignedSum(sizes) = t[Len(sizes)]
<1> DEFINE n == Len(sizes)
           f == CHOOSE f : f = [s \in SUBSET (1 .. n) |->
                  IF s = {} THEN 0 ELSE f[s \ {Max(s)}] + AlignedAllocSize(sizes[Max(s)])]
<1>1. n \in Nat /\ DOMAIN sizes = 1 .. n
  OBVIOUS
<1>2. AlignedSum(sizes) = f[1 .. n]
  BY <1>1 DEF AlignedSum, FoldLeft, MapThenFoldSet
<1>3. \A g : Iterates("sum", g, n, 0, sizes) <=>
               g = [s \in SUBSET (1 .. n) |->
                      IF s = {} THEN 0 ELSE g[s \ {Max(s)}] + AlignedAllocSize(sizes[Max(s)])]
  BY DEF Iterates, Fold
<1>4. Iterates("sum", f, n, 0, sizes)
  BY <1>1, <1>3, IteratesExists
<1> HIDE DEF f
<1>5. Follows("sum", [k \in 0 .. n |-> f[1 .. k]], 0, sizes)
  BY <1>1, <1>4, IteratesFollows
<1>6. [k \in 0 .. n |-> f[1 .. k]][n] = f[1 .. n]
  BY <1>1
<1>7. QED
  BY <1>2, <1>5, <1>6

\* And they can be followed in one way only.
LEMMA FollowsOnce ==
  ASSUME NEW acc, NEW R, NEW requests \in Seq(R), NEW t, Follows("serve", t, acc, requests)
  PROVE  ServeAll(acc, requests) = t[Len(requests)]
<1> DEFINE n == Len(requests)
<1>1. PICK u : Follows("serve", u, acc, requests) /\ ServeAll(acc, requests) = u[n]
  BY ServeFollows
<1> DEFINE S == {k \in Nat : k <= n => t[k] = u[k]}
<1>2. n \in Nat
  OBVIOUS
<1>3. 0 \in S
  BY <1>1 DEF Follows, Fold
<1>4. ASSUME NEW k \in Nat, k \in S PROVE k + 1 \in S
  <2>1. SUFFICES ASSUME k + 1 <= n PROVE t[k + 1] = u[k + 1]
    OBVIOUS
  <2>2. k + 1 \in 1 .. n /\ (k + 1) - 1 = k /\ k <= n
    BY <2>1, <1>2
  <2>3. t[k] = u[k]
    BY <1>4, <2>2
  <2>4. QED
    BY <2>2, <2>3, <1>1 DEF Follows, Fold
<1>5. n \in S
  <2> HIDE DEF S
  <2>1. QED
    BY <1>2, <1>3, <1>4, CountUp
<1>6. QED
  BY <1>1, <1>2, <1>5

\* No request, one request, and one list after another.
LEMMA ServeNone ==
  ASSUME NEW acc
  PROVE  ServeAll(acc, <<>>) = acc
<1>1. <<>> \in Seq({}) /\ Len(<<>>) = 0
  OBVIOUS
<1>2. Follows("serve", [k \in {0} |-> acc], acc, <<>>)
  BY <1>1 DEF Follows, Fold
<1>3. QED
  BY <1>1, <1>2, FollowsOnce

\* A list of one request is that request, served.
LEMMA ServeOne ==
  ASSUME NEW acc, NEW r
  PROVE  ServeAll(acc, <<r>>) = Serve(acc, r)
<1> DEFINE t == [k \in {0, 1} |-> IF k = 0 THEN acc ELSE Serve(acc, r)]
<1>1. <<r>> \in Seq({r}) /\ Len(<<r>>) = 1 /\ <<r>>[1] = r
  OBVIOUS
<1>2. t[0] = acc /\ t[1] = Serve(acc, r)
  OBVIOUS
<1>3. Follows("serve", t, acc, <<r>>)
  BY <1>1, <1>2 DEF Follows, Fold
<1>4. QED
  BY <1>1, <1>2, <1>3, FollowsOnce

\* Two lists of requests can be served one after the other.
LEMMA ServeThen ==
  ASSUME NEW acc, NEW R, NEW s \in Seq(R), NEW u \in Seq(R)
  PROVE  ServeAll(acc, s \o u) = ServeAll(ServeAll(acc, s), u)
<1> DEFINE m == Len(s)
           n == Len(u)
<1>1. m \in Nat /\ n \in Nat /\ s \o u \in Seq(R) /\ Len(s \o u) = m + n
  OBVIOUS
<1>2. PICK f : Follows("serve", f, acc, s) /\ ServeAll(acc, s) = f[m]
  BY ServeFollows
<1>3. PICK g : Follows("serve", g, f[m], u) /\ ServeAll(f[m], u) = g[n]
  BY ServeFollows
<1> DEFINE t == [k \in 0 .. m + n |-> IF k <= m THEN f[k] ELSE g[k - m]]
<1>4. t[0] = acc
  BY <1>1, <1>2 DEF Follows, Fold
<1>5. ASSUME NEW k \in 1 .. m + n PROVE t[k] = Serve(t[k - 1], (s \o u)[k])
  <2>1. CASE k <= m
    <3>1. (s \o u)[k] = s[k] /\ t[k] = f[k] /\ t[k - 1] = f[k - 1] /\ k \in 1 .. m
      BY <2>1, <1>1
    <3>2. QED
      BY <3>1, <1>2 DEF Follows, Fold
  <2>2. CASE k > m
    <3>1. (s \o u)[k] = u[k - m] /\ t[k] = g[k - m] /\ k - m \in 1 .. n
      BY <2>2, <1>1
    <3>2. g[k - m] = Serve(g[k - m - 1], u[k - m])
      BY <3>1, <1>3 DEF Follows, Fold
    <3>3. t[k - 1] = g[k - m - 1]
      <4>1. CASE k = m + 1
        BY <4>1, <1>1, <1>3 DEF Follows, Fold
      <4>2. CASE k > m + 1
        BY <4>2, <1>1
      <4>3. QED
        BY <4>1, <4>2, <2>2, <1>1
    <3>4. QED
      BY <3>1, <3>2, <3>3
  <2>3. QED
    BY <2>1, <2>2, <1>1
<1>6. t[m + n] = g[n]
  <2>1. CASE n = 0
    BY <2>1, <1>1, <1>3 DEF Follows, Fold
  <2>2. CASE n > 0
    BY <2>2, <1>1
  <2>3. QED
    BY <2>1, <2>2, <1>1
<1>7. Follows("serve", t, acc, s \o u)
  <2> HIDE DEF t
  <2>1. QED
    BY <1>1, <1>4, <1>5 DEF Follows, Fold
<1>8. QED
  <2> HIDE DEF t
  <2>1. ServeAll(acc, s \o u) = t[m + n]
    BY <1>1, <1>7, FollowsOnce
  <2>2. QED
    BY <2>1, <1>6, <1>2, <1>3

-----------------------------------------------------------------------------
(* One request served. *)

\* Rounding: up and down stay natural, and by less than the alignment.
LEMMA Rounding ==
  ASSUME NEW a \in Nat
  PROVE  /\ AlignUp(a) \in Nat /\ a <= AlignUp(a) /\ AlignUp(a) < a + Alignment
         /\ AlignDown(a) \in Nat /\ AlignDown(a) <= a /\ a < AlignDown(a) + Alignment
BY AlignmentAssumption DEF AlignUp, AlignDown

\* A workspace whose objects are complete: its regions in order, and nothing
\* taken for an old table where memory has been lent from the end.
InOrder(w) ==
  /\ w \in Workspace
  /\ w.phase >= InitOnce
  /\ 0 < w.workspace
  /\ w.workspace <= w.objectEnd
  /\ w.objectEnd <= w.tableEnd
  /\ w.tableEnd <= w.allocStart
  /\ w.allocStart <= InitialAllocStart(w)
  /\ w.tableValidEnd <= w.allocStart

Kinds == {"object", "table", "initonce", "aligned", "buffer"}
Areas == [kind : Kinds, lo : Nat, hi : Nat]

\* An area lies in the region of its kind.
Placed(w, a) ==
  /\ a.lo < a.hi
  /\ a.kind = "object" => w.workspace <= a.lo /\ a.hi <= w.objectEnd
  /\ a.kind = "table" => w.objectEnd <= a.lo /\ a.hi <= w.tableEnd
  /\ a.kind \notin {"object", "table"} => w.allocStart <= a.lo /\ a.hi <= InitialAllocStart(w)

Apart(as) == \A a, b \in as : a # b => a.hi <= b.lo \/ b.hi <= a.lo

\* What holds while requests are served, none of them in vain.
Good(acc) ==
  /\ InOrder(acc.ws)
  /\ acc.areas \subseteq Areas
  /\ \A a \in acc.areas : Placed(acc.ws, a)
  /\ Apart(acc.areas)
  /\ acc.missed = FALSE

\* b is a after so many bytes have been lent from the end, in phases up to ph.
FromEnd(a, b, bytes, ph) ==
  /\ Good(b)
  /\ b.ws.workspace = a.ws.workspace /\ b.ws.workspaceEnd = a.ws.workspaceEnd
  /\ b.ws.objectEnd = a.ws.objectEnd /\ b.ws.tableEnd = a.ws.tableEnd
  /\ b.ws.allocStart = a.ws.allocStart - bytes
  /\ b.ws.tableValidEnd <= a.ws.tableValidEnd
  /\ b.ws.phase <= ph
  /\ ObjectsOf(b.areas) = ObjectsOf(a.areas)

EndKinds == {"initonce", "aligned", "buffer"}
EndRequests == [kind : EndKinds, bytes : Nat]

PhaseOf(kind) ==
  CASE kind = "initonce" -> InitOnce [] kind = "aligned" -> Aligned [] kind = "buffer" -> Buffers

\* A phase that is not left behind, and room enough: the reservation succeeds.
LEMMA ReservesFromEnd ==
  ASSUME NEW w, InOrder(w), NEW bytes \in Nat, NEW ph \in {InitOnce, Aligned, Buffers},
         w.phase <= ph, bytes <= AvailableSpace(w)
  PROVE  LET got == ReserveInternal(w, bytes, ph) IN
         /\ InOrder(got.ws)
         /\ got.ws.workspace = w.workspace /\ got.ws.workspaceEnd = w.workspaceEnd
         /\ got.ws.objectEnd = w.objectEnd /\ got.ws.tableEnd = w.tableEnd
         /\ got.ws.allocStart = w.allocStart - bytes
         /\ got.ws.tableValidEnd <= w.tableValidEnd
         /\ got.ws.phase <= ph
         /\ got.ptr = IF bytes = 0 THEN NULL ELSE w.allocStart - bytes
<1> DEFINE next == AdvancePhase(w, ph)
           got == ReserveInternal(w, bytes, ph)
<1> USE DEF Phases, Objects, InitOnce, Aligned, Buffers
<1>1. w \in Workspace /\ w.phase >= 1
  BY DEF InOrder
<1>2. next = [w EXCEPT !.phase = ph]
  <2>1. CASE ph <= w.phase
    <3>1. w.phase = ph
      BY <2>1, <1>1 DEF Workspace
    <3>2. next = w
      BY <2>1 DEF AdvancePhase
    <3>3. QED
      BY <3>1, <3>2, <1>1 DEF Workspace
  <2>2. CASE ~(ph <= w.phase)
    BY <2>2, <1>1 DEF AdvancePhase, Workspace
  <2>3. QED
    BY <2>1, <2>2
<1>3. CanAdvance(w, ph)
  BY <1>1 DEF CanAdvance
<1>4. /\ next \in Workspace /\ next.phase = ph
      /\ next.workspace = w.workspace /\ next.workspaceEnd = w.workspaceEnd
      /\ next.objectEnd = w.objectEnd /\ next.tableEnd = w.tableEnd
      /\ next.allocStart = w.allocStart /\ next.tableValidEnd = w.tableValidEnd
  BY <1>1, <1>2 DEF Workspace
<1>5. InOrder(next)
  BY <1>4 DEF InOrder, InitialAllocStart
<1>6. CASE bytes = 0
  <2>1. got = [ws |-> next, ptr |-> NULL]
    BY <1>3, <1>6 DEF ReserveInternal
  <2>2. QED
    BY <2>1, <1>1, <1>4, <1>5, <1>6 DEF Workspace
<1>7. CASE bytes # 0
  <2> DEFINE alloc == next.allocStart - bytes
  <2>1. got = ReserveFromEnd(next, bytes)
    BY <1>3, <1>7 DEF ReserveInternal
  <2>2. alloc \in Nat /\ next.tableEnd <= alloc /\ ~(alloc < next.tableEnd)
    BY <1>4, <1>1 DEF AvailableSpace, Workspace
  <2>3. got = [ws |-> [next EXCEPT !.allocStart = alloc,
                                   !.tableValidEnd = MIN(next.tableValidEnd, alloc)],
               ptr |-> alloc]
    BY <2>1, <2>2 DEF ReserveFromEnd
  <2>4. /\ MIN(next.tableValidEnd, alloc) \in Nat
        /\ MIN(next.tableValidEnd, alloc) <= alloc
        /\ MIN(next.tableValidEnd, alloc) <= next.tableValidEnd
    BY <2>2, <1>4 DEF MIN, Workspace
  <2>5. /\ got.ptr = alloc /\ got.ws \in Workspace /\ got.ws.phase = ph
        /\ got.ws.workspace = w.workspace /\ got.ws.workspaceEnd = w.workspaceEnd
        /\ got.ws.objectEnd = w.objectEnd /\ got.ws.tableEnd = w.tableEnd
        /\ got.ws.allocStart = alloc
        /\ got.ws.tableValidEnd <= alloc /\ got.ws.tableValidEnd <= w.tableValidEnd
    <3> DEFINE valid == MIN(next.tableValidEnd, alloc)
    <3>1. /\ got.ptr = alloc
          /\ got.ws = [next EXCEPT !.allocStart = alloc, !.tableValidEnd = valid]
      BY <2>3
    <3>2. alloc \in Nat /\ valid \in Nat /\ valid <= alloc /\ valid <= w.tableValidEnd
      BY <2>2, <2>4, <1>4
    <3> HIDE DEF alloc, next, valid, got, Phases
    <3>3. got.ws \in Workspace
      BY <3>1, <3>2, <1>4 DEF Workspace
    <3>4. /\ got.ws.phase = ph
          /\ got.ws.workspace = w.workspace /\ got.ws.workspaceEnd = w.workspaceEnd
          /\ got.ws.objectEnd = w.objectEnd /\ got.ws.tableEnd = w.tableEnd
          /\ got.ws.allocStart = alloc /\ got.ws.tableValidEnd = valid
      BY <3>1, <1>4 DEF Workspace
    <3>5. QED
      BY <3>1, <3>2, <3>3, <3>4
  <2>6. InitialAllocStart(got.ws) = InitialAllocStart(w) /\ InitialAllocStart(w) \in Nat
    BY <2>5, <1>1, Rounding DEF InitialAllocStart, Workspace
  <2>7. alloc <= InitialAllocStart(w)
    BY <2>2, <2>6, <1>1, <1>4 DEF InOrder, Workspace
  <2>8. InOrder(got.ws)
    <3> HIDE DEF alloc, got
    <3>1. QED
      BY <2>2, <2>5, <2>6, <2>7, <1>4, <1>1 DEF InOrder
  <2>9. QED
    BY <2>5, <2>8, <1>4, <1>7
<1>8. QED
  BY <1>6, <1>7

\* What Served makes of a reservation.
LEMMA ServedIs ==
  ASSUME NEW acc, NEW r, NEW got
  PROVE  LET a == [kind |-> r.kind, lo |-> got.ptr, hi |-> got.ptr + LengthOf(r)]
             n == Served(acc, r, got)
         IN  /\ n.ws = got.ws
             /\ n.areas = acc.areas \cup (IF a.lo # NULL /\ a.hi > a.lo THEN {a} ELSE {})
             /\ n.missed = (acc.missed \/ (got.ptr = NULL /\ r.bytes # 0))
BY DEF Served

\* A request for memory from the end is served.
LEMMA ServesFromEnd ==
  ASSUME NEW acc, Good(acc), NEW r \in EndRequests,
         acc.ws.phase <= PhaseOf(r.kind), LengthOf(r) <= AvailableSpace(acc.ws)
  PROVE  FromEnd(acc, Serve(acc, r), LengthOf(r), PhaseOf(r.kind))
<1> DEFINE w   == acc.ws
           ph  == PhaseOf(r.kind)
           len == LengthOf(r)
           res == ReserveInternal(w, len, ph)
           got == Reserve(w, r)
           n   == Serve(acc, r)
           a   == [kind |-> r.kind, lo |-> got.ptr, hi |-> got.ptr + len]
<1>1. r.kind \in EndKinds /\ r.bytes \in Nat
  BY DEF EndRequests
<1>2. /\ len \in Nat /\ (len = 0 <=> r.bytes = 0)
      /\ ph \in {InitOnce, Aligned, Buffers}
  <2>1. /\ AlignUp(r.bytes) \in Nat
        /\ r.bytes # 0 => AlignUp(r.bytes) # 0
        /\ r.bytes = 0 => AlignUp(r.bytes) = 0
    <3>1. AlignUp(r.bytes) \in Nat /\ r.bytes <= AlignUp(r.bytes)
      BY <1>1, Rounding
    <3>2. r.bytes = 0 => AlignUp(r.bytes) = 0
      BY AlignmentAssumption DEF AlignUp
    <3>3. QED
      BY <3>1, <3>2, <1>1
  <2>2. QED
    BY <1>1, <2>1 DEF LengthOf, PhaseOf, EndKinds
<1>3. InOrder(w) /\ w \in Workspace
  BY DEF Good, InOrder
<1>4. /\ InOrder(res.ws)
      /\ res.ws.workspace = w.workspace /\ res.ws.workspaceEnd = w.workspaceEnd
      /\ res.ws.objectEnd = w.objectEnd /\ res.ws.tableEnd = w.tableEnd
      /\ res.ws.allocStart = w.allocStart - len
      /\ res.ws.tableValidEnd <= w.tableValidEnd
      /\ res.ws.phase <= ph
      /\ res.ptr = IF len = 0 THEN NULL ELSE w.allocStart - len
  <2> HIDE DEF w, ph, len
  <2>1. len <= AvailableSpace(w) /\ w.phase <= ph
    BY DEF w, ph, len
  <2>2. QED
    BY <1>2, <1>3, <2>1, ReservesFromEnd
<1>5. /\ got.ptr = res.ptr
      /\ got.ws = res.ws \/ got.ws = [res.ws EXCEPT !.initOnceStart = res.ptr]
      /\ res.ptr # NULL \/ got.ws = res.ws
  <2>1. CASE r.kind = "initonce"
    <3>1. got = ReserveAlignedInitOnce(w, r.bytes) /\ len = AlignUp(r.bytes) /\ ph = InitOnce
      BY <2>1 DEF Reserve, LengthOf, PhaseOf
    <3>2. got = IF res.ptr # NULL /\ res.ptr < res.ws.initOnceStart
                THEN [res EXCEPT !.ws.initOnceStart = res.ptr] ELSE res
      BY <3>1 DEF ReserveAlignedInitOnce
    <3>3. res \in [ws : {res.ws}, ptr : {res.ptr}]
      BY DEF ReserveInternal, ReserveFromEnd
    <3>4. QED
      <4> HIDE DEF res, got
      <4>1. QED
        BY <3>2, <3>3
  <2>2. CASE r.kind = "aligned"
    BY <2>2 DEF Reserve, LengthOf, PhaseOf, ReserveAligned64
  <2>3. CASE r.kind = "buffer"
    BY <2>3 DEF Reserve, LengthOf, PhaseOf, ReserveBuffer
  <2>4. QED
    BY <2>1, <2>2, <2>3, <1>1 DEF EndKinds
<1> HIDE DEF res
<1>6. /\ InOrder(got.ws)
      /\ got.ws.workspace = w.workspace /\ got.ws.workspaceEnd = w.workspaceEnd
      /\ got.ws.objectEnd = w.objectEnd /\ got.ws.tableEnd = w.tableEnd
      /\ got.ws.allocStart = w.allocStart - len
      /\ got.ws.tableValidEnd <= w.tableValidEnd
      /\ got.ws.phase <= ph
  <2>1. CASE got.ws = res.ws
    BY <2>1, <1>4
  <2>2. CASE got.ws = [res.ws EXCEPT !.initOnceStart = res.ptr] /\ res.ptr # NULL
    <3>1. res.ws \in Workspace /\ res.ptr \in Nat
      <4>1. w.allocStart - len = res.ws.allocStart /\ res.ws \in Workspace
        BY <1>4 DEF InOrder
      <4>2. QED
        BY <4>1, <1>4, <2>2 DEF Workspace
    <3> HIDE DEF got
    <3>2. /\ got.ws \in Workspace
          /\ got.ws.workspace = res.ws.workspace /\ got.ws.workspaceEnd = res.ws.workspaceEnd
          /\ got.ws.objectEnd = res.ws.objectEnd /\ got.ws.tableEnd = res.ws.tableEnd
          /\ got.ws.allocStart = res.ws.allocStart
          /\ got.ws.tableValidEnd = res.ws.tableValidEnd
          /\ got.ws.phase = res.ws.phase
      BY <2>2, <3>1 DEF Workspace
    <3>3. InOrder(got.ws)
      BY <3>2, <1>4 DEF InOrder, InitialAllocStart
    <3>4. QED
      BY <3>2, <3>3, <1>4
  <2>3. QED
    BY <2>1, <2>2, <1>5
<1>7. /\ n.ws = got.ws
      /\ n.areas = acc.areas \cup (IF a.lo # NULL /\ a.hi > a.lo THEN {a} ELSE {})
      /\ n.missed = (acc.missed \/ (got.ptr = NULL /\ r.bytes # 0))
  <2>1. n = Served(acc, r, got)
    BY DEF Serve
  <2> HIDE DEF got, n
  <2>2. QED
    BY <2>1, ServedIs
<1>8. /\ w.allocStart - len \in Nat
      /\ len # 0 => w.allocStart - len > 0 /\ w.tableEnd <= w.allocStart - len
  BY <1>2, <1>3 DEF InOrder, AvailableSpace, Workspace
<1>9. n.missed = FALSE
  <2>1. ~(got.ptr = NULL /\ r.bytes # 0)
    BY <1>2, <1>4, <1>5, <1>8 DEF NULL
  <2>2. acc.missed = FALSE
    BY DEF Good
  <2> HIDE DEF got, n
  <2>3. QED
    BY <2>1, <2>2, <1>7
<1>10. a.lo # NULL => /\ len # 0 /\ a.lo = w.allocStart - len /\ a.hi = w.allocStart
                      /\ a \in Areas
  <2>1. SUFFICES ASSUME got.ptr # NULL
                 PROVE  /\ len # 0 /\ a.lo = w.allocStart - len /\ a.hi = w.allocStart
                        /\ a \in Areas
    OBVIOUS
  <2>2. len # 0 /\ got.ptr = w.allocStart - len /\ got.ptr \in Nat
    BY <2>1, <1>4, <1>5, <1>8
  <2>3. got.ptr + len = w.allocStart
    BY <2>2, <1>2, <1>3 DEF Workspace
  <2>4. w.allocStart \in Nat /\ r.kind \in Kinds
    BY <1>1, <1>3 DEF Workspace, EndKinds, Kinds
  <2> HIDE DEF got, len, w
  <2>5. QED
    BY <2>2, <2>3, <2>4 DEF Areas
<1> HIDE DEF w, got, len, n, ph
<1>11. n.areas \subseteq Areas
  <2>1. acc.areas \subseteq Areas
    BY DEF Good
  <2>2. QED
    BY <2>1, <1>7, <1>10
<1>12. InitialAllocStart(n.ws) = InitialAllocStart(w)
  BY <1>6, <1>7 DEF InitialAllocStart
<1>13. \A b \in acc.areas : Placed(w, b) /\ b \in Areas
  BY DEF Good, w
<1>14. \A b \in n.areas : Placed(n.ws, b)
  <2>1. ASSUME NEW b \in acc.areas PROVE Placed(n.ws, b)
    <3>1. n.ws.allocStart <= w.allocStart
      BY <1>2, <1>3, <1>6, <1>7 DEF Workspace
    <3>2. b.lo \in Nat /\ w.allocStart \in Nat /\ n.ws.allocStart \in Nat
      BY <1>13, <1>3, <1>6, <1>7 DEF Areas, Workspace, InOrder
    <3>3. QED
      BY <3>1, <3>2, <1>6, <1>7, <1>12, <1>13 DEF Placed
  <2>2. ASSUME a.lo # NULL PROVE Placed(n.ws, a)
    <3>1. /\ a.lo = n.ws.allocStart /\ a.hi = w.allocStart /\ a.lo < a.hi
          /\ a.kind \notin {"object", "table"}
      BY <2>2, <1>1, <1>2, <1>3, <1>6, <1>7, <1>10 DEF Workspace, EndKinds
    <3>2. w.allocStart <= InitialAllocStart(w)
      BY <1>3 DEF InOrder
    <3>3. n.ws.allocStart \in Nat
      BY <1>6, <1>7 DEF InOrder, Workspace
    <3>4. QED
      BY <3>1, <3>2, <3>3, <1>12 DEF Placed
  <2>3. QED
    BY <2>1, <2>2, <1>7
<1>15. Apart(n.areas)
  <2>1. Apart(acc.areas)
    BY DEF Good
  <2>2. ASSUME NEW b \in acc.areas, a.lo # NULL PROVE a.hi <= b.lo \/ b.hi <= a.lo
    <3>1. a.lo = w.allocStart - len /\ a.hi = w.allocStart /\ w.tableEnd <= a.lo
      BY <2>2, <1>8, <1>10
    <3>2. b \in Areas /\ Placed(w, b) /\ w.objectEnd <= w.tableEnd
      BY <1>3, <1>13 DEF InOrder
    <3>3. w.objectEnd \in Nat /\ w.tableEnd \in Nat /\ w.allocStart \in Nat /\ a.lo \in Nat
      BY <1>3, <1>8, <3>1 DEF Workspace
    <3>4. b.lo \in Nat /\ b.hi \in Nat
      BY <3>2 DEF Areas
    <3>5. QED
      BY <3>1, <3>2, <3>3, <3>4 DEF Placed
  <2>3. QED
    BY <2>1, <2>2, <1>7 DEF Apart
<1>16. ObjectsOf(n.areas) = ObjectsOf(acc.areas)
  BY <1>1, <1>7 DEF ObjectsOf, EndKinds
<1>17. Good(n)
  BY <1>6, <1>7, <1>9, <1>11, <1>14, <1>15 DEF Good
<1>18. FromEnd(acc, n, len, ph)
  BY <1>6, <1>7, <1>16, <1>17 DEF FromEnd, w
<1>19. QED
  BY <1>18 DEF n, len, ph

\* One after the other.
LEMMA FromEndThen ==
  ASSUME NEW a, NEW b, NEW c, NEW m \in Nat, NEW n \in Nat, NEW ph \in Phases, NEW ph2 \in Phases,
         Good(a), FromEnd(a, b, m, ph), FromEnd(b, c, n, ph2)
  PROVE  FromEnd(a, c, m + n, ph2)
<1>1. /\ a.ws.allocStart \in Nat /\ a.ws.tableValidEnd \in Nat
      /\ b.ws.tableValidEnd \in Nat /\ c.ws.tableValidEnd \in Nat
  BY DEF Good, FromEnd, InOrder, Workspace
<1>2. c.ws.allocStart = a.ws.allocStart - (m + n)
  BY <1>1 DEF FromEnd
<1>3. c.ws.tableValidEnd <= a.ws.tableValidEnd
  BY <1>1 DEF FromEnd
<1>4. QED
  BY <1>2, <1>3 DEF FromEnd

\* A sum of sizes is a natural number.
LEMMA SumNat == AlignedSum(OptSizes) \in Nat
<1> DEFINE n == Len(OptSizes)
<1>1. OptSizes \in Seq(Nat) /\ n \in Nat
  BY ContextSizesAssumption
<1>2. PICK u : Follows("sum", u, 0, OptSizes) /\ AlignedSum(OptSizes) = u[n]
  BY <1>1, SumFollows
<1> DEFINE S == {k \in Nat : k <= n => u[k] \in Nat}
<1>3. 0 \in S
  BY <1>2 DEF Follows
<1>4. ASSUME NEW k \in Nat, k \in S PROVE k + 1 \in S
  <2>1. SUFFICES ASSUME k + 1 <= n PROVE u[k + 1] \in Nat
    OBVIOUS
  <2>2. k + 1 \in 1 .. n /\ (k + 1) - 1 = k /\ u[k] \in Nat /\ OptSizes[k + 1] \in Nat
    BY <2>1, <1>1, <1>4
  <2>3. u[k + 1] = u[(k + 1) - 1] + AlignUp(OptSizes[k + 1])
    BY <2>2, <1>2 DEF Follows, Fold, AlignedAllocSize
  <2>4. AlignUp(OptSizes[k + 1]) \in Nat
    BY <2>2, Rounding
  <2>5. QED
    BY <2>2, <2>3, <2>4
<1>5. n \in S
  <2> HIDE DEF S
  <2>1. QED
    BY <1>1, <1>3, <1>4, CountUp
<1>6. QED
  BY <1>1, <1>2, <1>5

\* The areas of the optimal parser, as many as there are: they take what
\* AlignedSum says.
OptRequests == [i \in DOMAIN OptSizes |-> [kind |-> "aligned", bytes |-> OptSizes[i]]]

\* Serving them takes AlignedSum(OptSizes) from the end, and in the phase of aligned
\* memory.
LEMMA ServesOpt ==
  ASSUME NEW acc, Good(acc), acc.ws.phase <= Aligned,
         AlignedSum(OptSizes) <= AvailableSpace(acc.ws)
  PROVE  /\ AlignedSum(OptSizes) \in Nat
         /\ FromEnd(acc, ServeAll(acc, OptRequests), AlignedSum(OptSizes), Aligned)
<1> DEFINE n == Len(OptSizes)
           Requests == [kind : {"aligned"}, bytes : Nat]
<1>1. /\ OptSizes \in Seq(Nat) /\ n \in Nat /\ DOMAIN OptSizes = 1 .. n
      /\ OptRequests \in Seq(Requests) /\ Len(OptRequests) = n
  <2>1. OptSizes \in Seq(Nat) /\ n \in Nat /\ DOMAIN OptSizes = 1 .. n
    BY ContextSizesAssumption
  <2>2. OptRequests = [i \in 1 .. n |-> [kind |-> "aligned", bytes |-> OptSizes[i]]]
    BY <2>1 DEF OptRequests
  <2>3. \A i \in 1 .. n : [kind |-> "aligned", bytes |-> OptSizes[i]] \in Requests
    BY <2>1
  <2> HIDE DEF n, Requests
  <2>4. QED
    BY <2>1, <2>2, <2>3
<1>2. PICK t : Follows("serve", t, acc, OptRequests) /\ ServeAll(acc, OptRequests) = t[n]
  <2> HIDE DEF Requests
  <2>1. QED
    BY <1>1, ServeFollows
<1>3. PICK u : Follows("sum", u, 0, OptSizes) /\ AlignedSum(OptSizes) = u[n]
  BY <1>1, SumFollows
<1>4. \A k \in 1 .. n : /\ OptRequests[k] = [kind |-> "aligned", bytes |-> OptSizes[k]]
                        /\ OptSizes[k] \in Nat
                        /\ AlignUp(OptSizes[k]) \in Nat
                        /\ u[k] = u[k - 1] + AlignUp(OptSizes[k])
                        /\ t[k] = Serve(t[k - 1], OptRequests[k])
  <2>1. TAKE k \in 1 .. n
  <2>2. OptSizes[k] \in Nat
    BY <1>1
  <2>3. QED
    BY <2>2, <1>1, <1>2, <1>3, Rounding DEF Follows, Fold, OptRequests, AlignedAllocSize
<1>5. \* The sums are natural and grow.
      /\ \A k \in 0 .. n : u[k] \in Nat
      /\ \A k \in 0 .. n : u[k] <= u[n]
  <2> DEFINE S == {k \in Nat : k <= n => u[k] \in Nat}
             D == {k \in Nat : k <= n => u[n - k] <= u[n]}
  <2>1. 0 \in S
    BY <1>3 DEF Follows
  <2>2. ASSUME NEW k \in Nat, k \in S PROVE k + 1 \in S
    <3>1. SUFFICES ASSUME k + 1 <= n PROVE u[k + 1] \in Nat
      OBVIOUS
    <3>2. k + 1 \in 1 .. n /\ (k + 1) - 1 = k /\ u[k] \in Nat
      BY <3>1, <2>2, <1>1
    <3>3. /\ u[k + 1] = u[(k + 1) - 1] + AlignUp(OptSizes[k + 1])
          /\ AlignUp(OptSizes[k + 1]) \in Nat
      BY <3>2, <1>4
    <3>4. QED
      BY <3>2, <3>3
  <2>3. Nat \subseteq S
    <3> HIDE DEF S
    <3>1. QED
      BY <2>1, <2>2, CountUp
  <2>4. \A k \in 0 .. n : u[k] \in Nat
    BY <2>3
  <2>5. 0 \in D
    <3>1. n - 0 = n /\ u[n] \in Nat
      BY <2>4, <1>1
    <3>2. QED
      BY <3>1
  <2>6. ASSUME NEW k \in Nat, k \in D PROVE k + 1 \in D
    <3>1. SUFFICES ASSUME k + 1 <= n PROVE u[n - (k + 1)] <= u[n]
      OBVIOUS
    <3>2. n - k \in 1 .. n /\ (n - k) - 1 = n - (k + 1) /\ n - (k + 1) \in 0 .. n /\ n - k \in 0 .. n
      BY <3>1, <1>1
    <3>3. u[n - k] = u[n - (k + 1)] + AlignUp(OptSizes[n - k]) /\ AlignUp(OptSizes[n - k]) \in Nat
      BY <3>2, <1>4
    <3>4. u[n - k] <= u[n]
      BY <2>6, <3>1, <1>1
    <3>5. u[n - k] \in Nat /\ u[n - (k + 1)] \in Nat /\ u[n] \in Nat
      BY <3>2, <2>4, <1>1
    <3>6. QED
      BY <3>3, <3>4, <3>5
  <2>7. Nat \subseteq D
    <3> HIDE DEF D
    <3>1. QED
      BY <2>5, <2>6, CountUp
  <2>8. ASSUME NEW k \in 0 .. n PROVE u[k] <= u[n]
    <3>1. n - k \in D /\ n - k <= n /\ n - (n - k) = k
      BY <2>7, <1>1
    <3>2. QED
      BY <3>1
  <2>9. QED
    BY <2>4, <2>8
<1> DEFINE Done == {k \in Nat : k <= n => FromEnd(acc, t[k], u[k], Aligned)}
<1>6. 0 \in Done
  <2>1. t[0] = acc /\ u[0] = 0
    BY <1>2, <1>3 DEF Follows
  <2>2. acc.ws.allocStart \in Nat /\ acc.ws.tableValidEnd \in Nat
    BY DEF Good, InOrder, Workspace
  <2>3. QED
    BY <2>1, <2>2 DEF FromEnd
<1>7. ASSUME NEW k \in Nat, k \in Done PROVE k + 1 \in Done
  <2>1. SUFFICES ASSUME k + 1 <= n PROVE FromEnd(acc, t[k + 1], u[k + 1], Aligned)
    OBVIOUS
  <2>2. k + 1 \in 1 .. n /\ (k + 1) - 1 = k /\ k \in 0 .. n /\ k + 1 \in 0 .. n
    BY <2>1, <1>1
  <2> DEFINE r == [kind |-> "aligned", bytes |-> OptSizes[k + 1]]
             len == AlignUp(OptSizes[k + 1])
  <2>3. /\ t[k + 1] = Serve(t[k], r) /\ u[k + 1] = u[k] + len
        /\ len \in Nat /\ OptSizes[k + 1] \in Nat
    BY <2>2, <1>4
  <2>4. r \in EndRequests /\ PhaseOf(r.kind) = Aligned /\ LengthOf(r) = len
    BY <2>3 DEF EndRequests, EndKinds, PhaseOf, LengthOf
  <2>5. FromEnd(acc, t[k], u[k], Aligned) /\ Good(t[k])
    BY <1>7, <2>1 DEF FromEnd
  <2>6. len <= AvailableSpace(t[k].ws)
    <3>1. u[k + 1] <= u[n] /\ u[k] \in Nat /\ u[n] \in Nat
      BY <2>2, <1>5, <1>1
    <3>2. AvailableSpace(t[k].ws) = AvailableSpace(acc.ws) - u[k]
      <4>1. /\ acc.ws.allocStart \in Nat /\ acc.ws.tableEnd \in Nat
            /\ t[k].ws.allocStart = acc.ws.allocStart - u[k] /\ t[k].ws.tableEnd = acc.ws.tableEnd
        BY <2>5 DEF FromEnd, Good, InOrder, Workspace
      <4>2. QED
        BY <4>1, <3>1 DEF AvailableSpace
    <3>3. AvailableSpace(acc.ws) \in Int
      BY DEF Good, InOrder, Workspace, AvailableSpace
    <3>4. QED
      BY <2>3, <3>1, <3>2, <3>3, <1>3
  <2>7. FromEnd(t[k], t[k + 1], len, Aligned)
    <3>1. t[k].ws.phase <= Aligned
      BY <2>5 DEF FromEnd
    <3> HIDE DEF r, len
    <3>2. QED
      BY <2>3, <2>4, <2>5, <2>6, <3>1, ServesFromEnd
  <2>8. Aligned \in Phases /\ u[k] \in Nat
    BY <2>2, <1>5 DEF Phases, Objects, InitOnce, Aligned, Buffers
  <2> HIDE DEF r, len
  <2>9. QED
    BY <2>3, <2>5, <2>7, <2>8, FromEndThen
<1>8. n \in Done
  <2> HIDE DEF Done
  <2>1. QED
    BY <1>1, <1>6, <1>7, CountUp
<1>9. QED
  BY <1>1, <1>2, <1>3, <1>5, <1>8

-----------------------------------------------------------------------------
(* The tables. *)

\* b is a after so many bytes of tables.
FromTables(a, b, bytes) ==
  /\ Good(b)
  /\ b.ws.workspace = a.ws.workspace /\ b.ws.workspaceEnd = a.ws.workspaceEnd
  /\ b.ws.objectEnd = a.ws.objectEnd /\ b.ws.tableEnd = a.ws.tableEnd + bytes
  /\ b.ws.allocStart = a.ws.allocStart
  /\ b.ws.tableValidEnd = a.ws.tableValidEnd
  /\ b.ws.phase = InitOnce
  /\ ObjectsOf(b.areas) = ObjectsOf(a.areas)

\* A request for a table is served while nothing but init-once memory has been
\* reserved from the end.
LEMMA ServesTable ==
  ASSUME NEW acc, Good(acc), acc.ws.phase = InitOnce,
         NEW bytes \in Nat, bytes <= AvailableSpace(acc.ws)
  PROVE  FromTables(acc, Serve(acc, [kind |-> "table", bytes |-> bytes]), bytes)
<1> DEFINE w   == acc.ws
           r   == [kind |-> "table", bytes |-> bytes]
           got == Reserve(w, r)
           n   == Serve(acc, r)
           a   == [kind |-> "table", lo |-> got.ptr, hi |-> got.ptr + bytes]
           end == w.tableEnd + bytes
<1>1. InOrder(w) /\ w \in Workspace
  BY DEF Good, InOrder
<1>2. AdvancePhase(w, InitOnce) = w /\ CanAdvance(w, InitOnce)
  BY <1>1 DEF AdvancePhase, CanAdvance, InitOnce
<1>3. end \in Nat /\ ~(end > w.allocStart) /\ w.tableEnd > 0 /\ end <= w.allocStart
  BY <1>1 DEF AvailableSpace, Workspace, InOrder
<1>4. got = [ws |-> [w EXCEPT !.tableEnd = end], ptr |-> w.tableEnd]
  BY <1>2, <1>3 DEF Reserve, ReserveTable
<1>5. /\ got.ptr = w.tableEnd /\ got.ws \in Workspace /\ got.ws.tableEnd = end
      /\ got.ws.workspace = w.workspace /\ got.ws.workspaceEnd = w.workspaceEnd
      /\ got.ws.objectEnd = w.objectEnd /\ got.ws.allocStart = w.allocStart
      /\ got.ws.tableValidEnd = w.tableValidEnd /\ got.ws.phase = w.phase
  <2> HIDE DEF end
  <2>1. QED
    BY <1>1, <1>3, <1>4 DEF Workspace
<1>6. InitialAllocStart(got.ws) = InitialAllocStart(w)
  BY <1>5 DEF InitialAllocStart
<1>7. InOrder(got.ws)
  <2>1. w.objectEnd <= end
    BY <1>1 DEF InOrder, Workspace
  <2> HIDE DEF got, end
  <2>2. QED
    BY <2>1, <1>1, <1>3, <1>5, <1>6 DEF InOrder
<1>8. /\ n.ws = got.ws
      /\ n.areas = acc.areas \cup (IF a.lo # NULL /\ a.hi > a.lo THEN {a} ELSE {})
      /\ n.missed = (acc.missed \/ (got.ptr = NULL /\ r.bytes # 0))
  <2>1. n = Served(acc, r, got) /\ r.kind = "table" /\ LengthOf(r) = bytes
    BY DEF Serve, LengthOf
  <2> HIDE DEF got, n, r
  <2>2. QED
    BY <2>1, ServedIs
<1>9. n.missed = FALSE
  <2>1. got.ptr # NULL
    BY <1>3, <1>5 DEF NULL
  <2>2. acc.missed = FALSE
    BY DEF Good
  <2> HIDE DEF got, n
  <2>3. QED
    BY <2>1, <2>2, <1>8
<1>10. a.lo = w.tableEnd /\ a.hi = end /\ a.kind = "table" /\ a \in Areas
  <2>1. "table" \in Kinds /\ w.tableEnd \in Nat
    BY <1>1 DEF Kinds, Workspace
  <2> HIDE DEF got
  <2>2. QED
    BY <2>1, <1>3, <1>5 DEF Areas
<1> HIDE DEF w, got, n, r, a, end
<1>11. n.areas \subseteq Areas
  <2>1. acc.areas \subseteq Areas
    BY DEF Good
  <2>2. QED
    BY <2>1, <1>8, <1>10
<1>12. \A b \in acc.areas : Placed(w, b) /\ b \in Areas
  BY DEF Good, w
<1>13. w.tableEnd \in Nat /\ w.tableEnd <= end
  BY <1>1 DEF Workspace, end
<1>14. \A b \in n.areas : Placed(n.ws, b)
  <2>1. ASSUME NEW b \in acc.areas PROVE Placed(n.ws, b)
    <3>1. b.hi \in Nat
      BY <1>12 DEF Areas
    <3>2. QED
      BY <3>1, <1>3, <1>5, <1>6, <1>8, <1>12, <1>13 DEF Placed
  <2>2. ASSUME a.hi > a.lo PROVE Placed(n.ws, a)
    <3>1. a.lo < a.hi
      BY <2>2, <1>3, <1>10, <1>13
    <3>2. n.ws.objectEnd <= a.lo /\ a.hi <= n.ws.tableEnd
      BY <1>1, <1>3, <1>5, <1>8, <1>10 DEF InOrder
    <3>3. QED
      BY <3>1, <3>2, <1>10 DEF Placed
  <2>3. QED
    BY <2>1, <2>2, <1>8
<1>15. Apart(n.areas)
  <2>1. Apart(acc.areas)
    BY DEF Good
  <2>2. ASSUME NEW b \in acc.areas PROVE a.hi <= b.lo \/ b.hi <= a.lo
    <3>1. b \in Areas /\ Placed(w, b) /\ w.objectEnd <= w.tableEnd /\ end <= w.allocStart
      BY <1>1, <1>3, <1>12 DEF InOrder
    <3>2. w.objectEnd \in Nat /\ w.tableEnd \in Nat /\ w.allocStart \in Nat /\ end \in Nat
      BY <1>1, <1>3 DEF Workspace
    <3>3. b.lo \in Nat /\ b.hi \in Nat
      BY <3>1 DEF Areas
    <3>4. QED
      BY <3>1, <3>2, <3>3, <1>10 DEF Placed
  <2>3. QED
    BY <2>1, <2>2, <1>8 DEF Apart
<1>16. ObjectsOf(n.areas) = ObjectsOf(acc.areas)
  BY <1>8, <1>10 DEF ObjectsOf
<1>17. Good(n)
  BY <1>5, <1>7, <1>8, <1>9, <1>11, <1>14, <1>15 DEF Good
<1>18. FromTables(acc, n, bytes)
  BY <1>5, <1>8, <1>16, <1>17 DEF FromTables, w, end
<1>19. QED
  BY <1>18 DEF n, r

-----------------------------------------------------------------------------
(* The objects, and the workspace before its tables. *)

\* How much memory the objects of a context take.
ObjBytes(static) == (IF static THEN SizeofCCtx ELSE 0) + 2 * SizeofBlockState + TmpWorkspaceSize

\* There are objects in every workspace.
LEMMA ObjBytesNat == ASSUME NEW static \in BOOLEAN PROVE ObjBytes(static) \in Nat \ {0}
BY ContextSizesAssumption DEF ObjBytes

\* The area of an object.
Object(lo, bytes) == [kind |-> "object", lo |-> lo, hi |-> lo + bytes]

\* The areas of the objects that a workspace at at begins with.
ObjectAreas(at, static) ==
  LET first == IF static THEN at + SizeofCCtx ELSE at IN
  (IF static THEN {Object(at, SizeofCCtx)} ELSE {})
  \cup {Object(first, SizeofBlockState), Object(first + SizeofBlockState, SizeofBlockState),
        Object(first + 2 * SizeofBlockState, TmpWorkspaceSize)}

\* A workspace with its objects and with room for the gaps of alignment.  The
\* objects end at an aligned address once anything else has been reserved.
Based(w, static) ==
  LET objs == w.workspace + ObjBytes(static) IN
  /\ w \in Workspace
  /\ 0 < w.workspace
  /\ SizeOf(w) >= ObjBytes(static) + SlackSpaceRequired
  /\ w.objectEnd = IF w.phase = Objects THEN objs ELSE AlignUp(objs)
  /\ w.phase = Objects => w.tableValidEnd <= objs

\* As ZSTD_cwksp_clear leaves it.
Cleared(w, static) ==
  /\ Based(w, static)
  /\ w.phase <= InitOnce
  /\ w.tableEnd = w.objectEnd
  /\ w.allocStart = InitialAllocStart(w)
  /\ w.tableValidEnd <= w.allocStart

\* The workspace after the first step out of the phase of objects.
LEMMA Advanced ==
  ASSUME NEW static \in BOOLEAN, NEW w, Cleared(w, static)
  PROVE  LET n == AdvancePhase(w, InitOnce) IN
         /\ CanAdvance(w, InitOnce)
         /\ AdvancePhase(n, InitOnce) = n /\ CanAdvance(n, InitOnce)
         /\ InOrder(n) /\ n.phase = InitOnce
         /\ n.workspace = w.workspace /\ n.workspaceEnd = w.workspaceEnd
         /\ n.objectEnd = AlignUp(w.workspace + ObjBytes(static)) /\ n.tableEnd = n.objectEnd
         /\ n.allocStart = InitialAllocStart(w)
         /\ Cells(n.objectEnd, n.tableValidEnd) \subseteq Cells(w.objectEnd, w.tableValidEnd)
         /\ w.objectEnd <= n.objectEnd
<1> USE DEF Phases, Objects, InitOnce, Aligned, Buffers
<1> DEFINE n    == AdvancePhase(w, InitOnce)
           objs == w.workspace + ObjBytes(static)
           up   == AlignUp(objs)
           down == InitialAllocStart(w)
<1>1. w \in Workspace /\ 0 < w.workspace /\ objs \in Nat /\ ObjBytes(static) \in Nat
  BY ObjBytesNat DEF Cleared, Based, Workspace
<1>2. /\ up \in Nat /\ objs <= up /\ up < objs + Alignment
      /\ down \in Nat /\ down <= w.workspaceEnd /\ w.workspaceEnd < down + Alignment
  <2> HIDE DEF objs
  <2>1. QED
    BY <1>1, Rounding DEF InitialAllocStart, Workspace
<1>3. up <= down /\ up <= w.workspaceEnd
  <2>1. w.workspaceEnd - w.workspace >= ObjBytes(static) + 2 * Alignment
    BY DEF Cleared, Based, SizeOf, SlackSpaceRequired
  <2> HIDE DEF up, down
  <2>2. QED
    BY <2>1, <1>1, <1>2, AlignmentAssumption DEF Workspace
<1>4. CASE w.phase = Objects
  <2>1. w.phase = 0 /\ w.objectEnd = objs /\ ~(w.phase >= 1) /\ w.tableValidEnd <= objs
    BY <1>4 DEF Cleared, Based
  <2>2. AlignUp(w.objectEnd) = up
    BY <2>1
  <2> HIDE DEF up, objs, down
  <2>3. CanAdvance(w, InitOnce)
    BY <1>3, <2>2 DEF CanAdvance
  <2>4. n = [w EXCEPT !.tableValidEnd = up, !.initOnceStart = down,
                      !.objectEnd = up, !.tableEnd = up, !.phase = InitOnce]
    <3>1. n = [[w EXCEPT !.tableValidEnd = w.objectEnd, !.initOnceStart = down]
                 EXCEPT !.objectEnd = up, !.tableEnd = up, !.tableValidEnd = up, !.phase = InitOnce]
      BY <2>1, <2>2, <2>3 DEF AdvancePhase, down
    <3>2. QED
      BY <3>1, <1>1 DEF Workspace
  <2>5. /\ n \in Workspace /\ n.phase = InitOnce
        /\ n.workspace = w.workspace /\ n.workspaceEnd = w.workspaceEnd
        /\ n.objectEnd = up /\ n.tableEnd = up /\ n.tableValidEnd = up
        /\ n.allocStart = w.allocStart
    <3>1. InitOnce \in Phases
      OBVIOUS
    <3> HIDE DEF n, Phases, InitOnce
    <3>2. n \in Workspace
      BY <2>4, <3>1, <1>1, <1>2 DEF Workspace
    <3>3. QED
      BY <2>4, <3>2, <1>1 DEF Workspace
  <2>6. InitialAllocStart(n) = down
    BY <2>5 DEF InitialAllocStart, down
  <2>7. w.allocStart = down
    BY DEF Cleared, down
  <2>8. w.workspace <= up
    BY <1>1, <1>2 DEF objs, Workspace
  <2>9. InOrder(n)
    BY <2>5, <2>6, <2>7, <2>8, <1>1, <1>2, <1>3 DEF InOrder
  <2>10. Cells(n.objectEnd, n.tableValidEnd) = {}
    <3> HIDE DEF n
    <3>1. QED
      BY <2>5, <1>2 DEF Cells
  <2>11. AdvancePhase(n, InitOnce) = n /\ CanAdvance(n, InitOnce)
    <3> HIDE DEF n
    <3>1. QED
      BY <2>5 DEF AdvancePhase, CanAdvance
  <2>12. QED
    BY <2>1, <2>3, <2>5, <2>7, <2>9, <2>10, <2>11, <1>2 DEF up, objs, down
<1>5. CASE w.phase # Objects
  <2>1. w.phase = InitOnce
    BY <1>5, <1>1 DEF Cleared, Workspace
  <2>2. n = w /\ CanAdvance(w, InitOnce)
    BY <2>1 DEF AdvancePhase, CanAdvance
  <2>3. w.objectEnd = up /\ w.tableEnd = w.objectEnd /\ w.allocStart = down /\ w.tableValidEnd <= down
    BY <1>5 DEF Cleared, Based
  <2>4. w.workspace <= up
    BY <1>1, <1>2 DEF Workspace
  <2>5. InOrder(w)
    <3> HIDE DEF up, down
    <3>1. QED
      BY <2>1, <2>3, <2>4, <1>1, <1>2, <1>3 DEF InOrder, down
  <2>6. QED
    BY <2>1, <2>2, <2>3, <2>5, <1>2
<1>6. QED
  BY <1>4, <1>5

\* Three requests.
LEMMA ServeThree ==
  ASSUME NEW acc, NEW r1, NEW r2, NEW r3
  PROVE  ServeAll(acc, <<r1, r2, r3>>) = Serve(Serve(Serve(acc, r1), r2), r3)
<1> DEFINE s == <<r1, r2, r3>>
<1>1. s \in Seq({r1, r2, r3}) /\ Len(s) = 3 /\ s[1] = r1 /\ s[2] = r2 /\ s[3] = r3
  OBVIOUS
<1>2. PICK t : Follows("serve", t, acc, s) /\ ServeAll(acc, s) = t[Len(s)]
  <2> HIDE DEF s
  <2>1. QED
    BY <1>1, ServeFollows
<1>3. /\ t[0] = acc /\ t[1] = Serve(t[0], r1)
      /\ t[2] = Serve(t[1], r2) /\ t[3] = Serve(t[2], r3)
  <2> HIDE DEF s
  <2>1. t[0] = acc /\ \A k \in 1 .. 3 : t[k] = Fold("serve", t[k - 1], s[k])
    BY <1>1, <1>2 DEF Follows
  <2>2. t[1] = Fold("serve", t[0], s[1]) /\ t[2] = Fold("serve", t[1], s[2])
        /\ t[3] = Fold("serve", t[2], s[3])
    BY <2>1
  <2>3. QED
    BY <1>1, <2>1, <2>2 DEF Fold
<1>4. QED
  BY <1>1, <1>2, <1>3

\* They lie side by side from at on: three, or four in a static context.
LEMMA ObjectsPlaced ==
  ASSUME NEW at \in Nat \ {0}, NEW static \in BOOLEAN
  PROVE  LET as == ObjectAreas(at, static) IN
         /\ as \subseteq Areas
         /\ \A a \in as : a.kind = "object" /\ a.lo < a.hi /\ at <= a.lo
                          /\ a.hi <= at + ObjBytes(static)
         /\ Apart(as)
         /\ ObjectsOf(as) = as
         /\ Cardinality(as) = IF static THEN 4 ELSE 3
<1> DEFINE as == ObjectAreas(at, static)
           C == SizeofCCtx
           B == SizeofBlockState
           T == TmpWorkspaceSize
           first == IF static THEN at + C ELSE at
           b1 == Object(first, B)
           b2 == Object(first + B, B)
           b3 == Object(first + 2 * B, T)
           b0 == Object(at, C)
<1>1. C \in Nat \ {0} /\ B \in Nat \ {0} /\ T \in Nat \ {0} /\ first \in Nat
  BY ContextSizesAssumption
<1>2. as = (IF static THEN {b0} ELSE {}) \cup {b1, b2, b3}
  BY DEF ObjectAreas
<1>3. /\ b0.kind = "object" /\ b0.lo = at /\ b0.hi = at + C
      /\ b1.kind = "object" /\ b1.lo = first /\ b1.hi = first + B
      /\ b2.kind = "object" /\ b2.lo = first + B /\ b2.hi = first + 2 * B
      /\ b3.kind = "object" /\ b3.lo = first + 2 * B /\ b3.hi = first + 2 * B + T
  BY <1>1 DEF Object
<1>4. {b0, b1, b2, b3} \subseteq Areas
  <2>1. "object" \in Kinds
    BY DEF Kinds
  <2> HIDE DEF first, B, C, T
  <2>2. first + B \in Nat /\ first + 2 * B \in Nat /\ first + 2 * B + T \in Nat
        /\ first + B + B = first + 2 * B /\ at + C \in Nat
    BY <1>1
  <2>3. QED
    BY <2>1, <2>2, <1>1 DEF Areas, Object
<1>5. static => first = at + C
  OBVIOUS
<1>6. ~static => first = at
  OBVIOUS
<1>7. ObjBytes(static) = (IF static THEN C ELSE 0) + 2 * B + T
  BY DEF ObjBytes
<1> HIDE DEF as, C, B, T, first, b0, b1, b2, b3
<1>8. as \subseteq Areas
  BY <1>2, <1>4
<1>9. \A a \in as : a.kind = "object" /\ a.lo < a.hi /\ at <= a.lo /\ a.hi <= at + ObjBytes(static)
  <2> DEFINE Fits(a) == /\ a.kind = "object" /\ a.lo < a.hi /\ at <= a.lo
                        /\ a.hi <= at + ObjBytes(static)
  <2>1. CASE static
    <3>1. ObjBytes(static) = C + 2 * B + T /\ first = at + C
      BY <2>1, <1>5, <1>7
    <3>2. Fits(b0) /\ Fits(b1)
      BY <3>1, <1>1, <1>3
    <3>3. Fits(b2) /\ Fits(b3)
      BY <3>1, <1>1, <1>3
    <3> HIDE DEF Fits
    <3>4. \A a \in as : Fits(a)
      BY <2>1, <3>2, <3>3, <1>2
    <3>5. QED
      BY <3>4 DEF Fits
  <2>2. CASE ~static
    BY <2>2, <1>1, <1>2, <1>3, <1>6, <1>7
  <2>3. QED
    BY <2>1, <2>2
<1>10. Apart(as)
  <2>1. CASE static
    BY <2>1, <1>1, <1>2, <1>3, <1>5 DEF Apart
  <2>2. CASE ~static
    BY <2>2, <1>1, <1>2, <1>3, <1>6 DEF Apart
  <2>3. QED
    BY <2>1, <2>2
<1>11. ObjectsOf(as) = as
  BY <1>9 DEF ObjectsOf
<1>12. /\ IsFiniteSet({b1}) /\ Cardinality({b1}) = 1
       /\ b2 \notin {b1} /\ b3 \notin {b1, b2} /\ (static => b0 \notin {b1, b2, b3})
  <2>1. b1.lo < b2.lo /\ b2.lo < b3.lo /\ (static => b0.lo < b1.lo)
    BY <1>1, <1>3, <1>5
  <2>2. b1.lo \in Nat /\ b2.lo \in Nat /\ b3.lo \in Nat /\ b0.lo \in Nat
    BY <1>1, <1>3
  <2>3. b1 # b2 /\ b2 # b3 /\ b1 # b3 /\ (static => b0 # b1 /\ b0 # b2 /\ b0 # b3)
    BY <2>1, <2>2
  <2>4. QED
    BY <2>3, FS_Singleton
<1>13. IsFiniteSet({b1, b2}) /\ Cardinality({b1, b2}) = 2
  <2>1. {b1, b2} = {b1} \cup {b2}
    OBVIOUS
  <2>2. QED
    BY <2>1, <1>12, FS_AddElement
<1>14. IsFiniteSet({b1, b2, b3}) /\ Cardinality({b1, b2, b3}) = 3
  <2>1. {b1, b2, b3} = {b1, b2} \cup {b3}
    OBVIOUS
  <2>2. QED
    BY <2>1, <1>12, <1>13, FS_AddElement
<1>15. static => Cardinality({b1, b2, b3} \cup {b0}) = 4
  BY <1>12, <1>14, FS_AddElement
<1>16. Cardinality(as) = IF static THEN 4 ELSE 3
  <2>1. static => as = {b1, b2, b3} \cup {b0}
    BY <1>2
  <2>2. ~static => as = {b1, b2, b3}
    BY <1>2
  <2>3. QED
    BY <2>1, <2>2, <1>14, <1>15
<1>17. QED
  BY <1>8, <1>9, <1>10, <1>11, <1>16 DEF as

TableBytes(p) == (p.chain + p.hash + p.hash3) * CellSize

\* Where the tables of a workspace begin, and where all that is reserved from
\* its end ends.
TablesFrom(w, static) == AlignUp(w.workspace + ObjBytes(static))

\* The objects of a cleared workspace are good to go on from.
LEMMA ClearedIsGood ==
  ASSUME NEW static \in BOOLEAN, NEW w, Cleared(w, static)
  PROVE  Good([ws |-> AdvancePhase(w, InitOnce),
               areas |-> ObjectAreas(w.workspace, static), missed |-> FALSE])
<1> DEFINE n  == AdvancePhase(w, InitOnce)
           as == ObjectAreas(w.workspace, static)
           acc == [ws |-> n, areas |-> as, missed |-> FALSE]
<1>1. /\ InOrder(n) /\ n.workspace = w.workspace
      /\ n.objectEnd = AlignUp(w.workspace + ObjBytes(static))
  BY Advanced
<1>2. w.workspace \in Nat \ {0} /\ ObjBytes(static) \in Nat
  BY ObjBytesNat DEF Cleared, Based, Workspace
<1>3. w.workspace + ObjBytes(static) \in Nat
  BY <1>2
<1> HIDE DEF n, as
<1>4. /\ as \subseteq Areas
      /\ \A a \in as : a.kind = "object" /\ a.lo < a.hi /\ w.workspace <= a.lo
                       /\ a.hi <= w.workspace + ObjBytes(static)
      /\ Apart(as)
  BY <1>2, ObjectsPlaced DEF as
<1>5. w.workspace + ObjBytes(static) <= n.objectEnd /\ n.objectEnd \in Nat
  BY <1>1, <1>3, Rounding
<1>6. \A a \in as : Placed(n, a)
  <2>1. TAKE a \in as
  <2>2. a \in Areas /\ a.hi <= w.workspace + ObjBytes(static)
    BY <1>4
  <2>3. a.hi <= n.objectEnd
    BY <2>2, <1>3, <1>5 DEF Areas
  <2>4. QED
    BY <2>3, <1>1, <1>4 DEF Placed
<1>7. QED
  BY <1>1, <1>4, <1>6 DEF Good, n, as

\* All three tables are served when there is room for them.
LEMMA ServesTables ==
  ASSUME NEW static \in BOOLEAN, NEW w, Cleared(w, static), NEW p \in Profiles,
         TablesFrom(w, static) + TableBytes(p) <= InitialAllocStart(w)
  PROVE  LET t == ServeAll([ws |-> w, areas |-> ObjectAreas(w.workspace, static), missed |-> FALSE],
                           TableRequests(p))
         IN  /\ TableBytes(p) \in Nat
             /\ t = [ws |-> t.ws, areas |-> t.areas, missed |-> t.missed]
             /\ Good(t)
             /\ t.ws.workspace = w.workspace /\ t.ws.workspaceEnd = w.workspaceEnd
             /\ t.ws.objectEnd = TablesFrom(w, static)
             /\ t.ws.tableEnd = TablesFrom(w, static) + TableBytes(p)
             /\ t.ws.allocStart = InitialAllocStart(w)
             /\ t.ws.phase = InitOnce
             /\ ObjectsOf(t.areas) = ObjectAreas(w.workspace, static)
             /\ Cells(t.ws.objectEnd, t.ws.tableValidEnd)
                  \subseteq Cells(w.objectEnd, w.tableValidEnd)
<1> DEFINE as == ObjectAreas(w.workspace, static)
           n  == AdvancePhase(w, InitOnce)
           acc0 == [ws |-> w, areas |-> as, missed |-> FALSE]
           acc  == [ws |-> n, areas |-> as, missed |-> FALSE]
           b1 == p.hash * CellSize
           b2 == p.chain * CellSize
           b3 == p.hash3 * CellSize
           Table(b) == [kind |-> "table", bytes |-> b]
           t1 == Serve(acc, Table(b1))
           t2 == Serve(t1, Table(b2))
           t3 == Serve(t2, Table(b3))
<1>1. /\ p.hash \in Nat /\ p.chain \in Nat /\ p.hash3 \in Nat /\ CellSize \in Nat
      /\ b1 \in Nat /\ b2 \in Nat /\ b3 \in Nat
      /\ TableBytes(p) = b1 + b2 + b3
  <2>1. p.hash \in Nat /\ p.chain \in Nat /\ p.hash3 \in Nat /\ CellSize \in Nat
    BY ProfilesAssumption, ContextSizesAssumption
  <2>2. TableBytes(p) = b1 + b2 + b3 /\ b1 \in Nat /\ b2 \in Nat /\ b3 \in Nat
    BY <2>1 DEF TableBytes
  <2>3. QED
    BY <2>1, <2>2
<1>2. /\ CanAdvance(w, InitOnce) /\ AdvancePhase(n, InitOnce) = n /\ CanAdvance(n, InitOnce)
      /\ InOrder(n) /\ n.phase = InitOnce
      /\ n.workspace = w.workspace /\ n.workspaceEnd = w.workspaceEnd
      /\ n.objectEnd = TablesFrom(w, static) /\ n.tableEnd = n.objectEnd
      /\ n.allocStart = InitialAllocStart(w)
      /\ Cells(n.objectEnd, n.tableValidEnd) \subseteq Cells(w.objectEnd, w.tableValidEnd)
  BY Advanced DEF TablesFrom
<1>3. ObjectsOf(as) = as
  <2>1. w.workspace \in Nat \ {0}
    BY DEF Cleared, Based, Workspace
  <2>2. QED
    BY <2>1, ObjectsPlaced
<1>4. Serve(acc0, Table(b1)) = t1
  <2>1. Reserve(w, Table(b1)) = Reserve(n, Table(b1))
    BY <1>2 DEF Reserve, ReserveTable
  <2>2. QED
    BY <2>1 DEF Serve, Served
<1>5. TableRequests(p) = <<Table(b1), Table(b2), Table(b3)>>
  <2>1. \A i \in 1 .. 3 : <<p.hash, p.chain, p.hash3>>[i] * CellSize = <<b1, b2, b3>>[i]
    OBVIOUS
  <2> HIDE DEF b1, b2, b3
  <2>2. TableRequests(p) = [i \in 1 .. 3 |-> Table(<<b1, b2, b3>>[i])]
    BY <2>1 DEF TableRequests
  <2>3. QED
    BY <2>2
<1>6. Good(acc)
  BY ClearedIsGood
<1> HIDE DEF b1, b2, b3, Table, n, as
<1>7. ServeAll(acc0, TableRequests(p)) = t3
  BY <1>4, <1>5, ServeThree
<1>19. t3 = [ws |-> t3.ws, areas |-> t3.areas, missed |-> t3.missed]
  <2> HIDE DEF t2
  <2>1. QED
    BY DEF Serve, Served
<1> HIDE DEF acc0
<1>8. n.tableEnd \in Nat /\ n.allocStart \in Nat /\ n.tableValidEnd \in Nat
  BY <1>2 DEF InOrder, Workspace
<1>9. FromTables(acc, t1, b1)
  <2>1. b1 <= AvailableSpace(acc.ws)
    BY <1>1, <1>2, <1>8 DEF AvailableSpace
  <2>2. acc.ws.phase = InitOnce
    BY <1>2
  <2> HIDE DEF acc
  <2>3. QED
    BY <2>1, <2>2, <1>1, <1>6, ServesTable DEF Table
<1>10. FromTables(t1, t2, b2)
  <2>1. b2 <= AvailableSpace(t1.ws)
    BY <1>1, <1>2, <1>8, <1>9 DEF AvailableSpace, FromTables
  <2> HIDE DEF t1, acc
  <2>2. QED
    BY <2>1, <1>1, <1>9, ServesTable DEF Table, FromTables
<1>11. FromTables(t2, t3, b3)
  <2>1. b3 <= AvailableSpace(t2.ws)
    BY <1>1, <1>2, <1>8, <1>9, <1>10 DEF AvailableSpace, FromTables
  <2> HIDE DEF t2, t1
  <2>2. QED
    BY <2>1, <1>1, <1>10, ServesTable DEF Table, FromTables
<1> HIDE DEF t1, t2, t3
<1>12. t3.ws.tableEnd = TablesFrom(w, static) + TableBytes(p)
  BY <1>1, <1>2, <1>8, <1>9, <1>10, <1>11 DEF FromTables
<1>13. /\ Good(t3)
       /\ t3.ws.workspace = w.workspace /\ t3.ws.workspaceEnd = w.workspaceEnd
       /\ t3.ws.objectEnd = TablesFrom(w, static)
       /\ t3.ws.allocStart = InitialAllocStart(w)
       /\ t3.ws.phase = InitOnce /\ t3.ws.tableValidEnd = n.tableValidEnd
       /\ ObjectsOf(t3.areas) = as
  BY <1>2, <1>3, <1>9, <1>10, <1>11 DEF FromTables
<1>14. Cells(t3.ws.objectEnd, t3.ws.tableValidEnd) \subseteq Cells(w.objectEnd, w.tableValidEnd)
  BY <1>2, <1>13
<1>15. ServeAll([ws |-> w, areas |-> ObjectAreas(w.workspace, static), missed |-> FALSE],
                TableRequests(p)) = t3
  BY <1>7 DEF acc0, as
<1>16. ObjectsOf(t3.areas) = ObjectAreas(w.workspace, static)
  BY <1>13 DEF as
<1>17. TableBytes(p) \in Nat
  BY <1>1
<1>18. QED
  BY <1>12, <1>13, <1>14, <1>15, <1>16, <1>17, <1>19

-----------------------------------------------------------------------------
(* What is reserved from the end. *)

\* One more request, after m bytes.
LEMMA ServesMore ==
  ASSUME NEW a, Good(a), NEW b, NEW m \in Nat, NEW ph \in Phases, FromEnd(a, b, m, ph),
         NEW r \in EndRequests, ph <= PhaseOf(r.kind),
         m + LengthOf(r) <= AvailableSpace(a.ws)
  PROVE  /\ LengthOf(r) \in Nat
         /\ FromEnd(a, Serve(b, r), m + LengthOf(r), PhaseOf(r.kind))
<1>1. PhaseOf(r.kind) \in Phases
  BY DEF EndRequests, EndKinds, PhaseOf, Phases, Objects, InitOnce, Aligned, Buffers
<1>2. LengthOf(r) \in Nat
  <2>1. r.bytes \in Nat
    BY DEF EndRequests
  <2>2. QED
    BY <2>1, Rounding DEF LengthOf
<1>3. b.ws.phase <= PhaseOf(r.kind) /\ Good(b)
  <2>1. b.ws.phase \in Nat /\ ph \in Nat /\ PhaseOf(r.kind) \in Nat
    BY <1>1 DEF FromEnd, Good, InOrder, Workspace, Phases, Objects, Buffers
  <2>2. QED
    BY <2>1 DEF FromEnd
<1>4. LengthOf(r) <= AvailableSpace(b.ws)
  <2>1. /\ a.ws.allocStart \in Nat /\ a.ws.tableEnd \in Nat
        /\ b.ws.allocStart = a.ws.allocStart - m /\ b.ws.tableEnd = a.ws.tableEnd
    BY DEF Good, InOrder, Workspace, FromEnd
  <2>2. QED
    BY <2>1, <1>2 DEF AvailableSpace
<1>5. FromEnd(b, Serve(b, r), LengthOf(r), PhaseOf(r.kind))
  BY <1>3, <1>4, ServesFromEnd
<1>6. QED
  BY <1>1, <1>2, <1>5, FromEndThen

\* A request that is made only if c.
If(c, r) == IF c THEN <<r>> ELSE <<>>

\* A request from the end that is made only if c takes what it asks for, or nothing.
LEMMA ServesIf ==
  ASSUME NEW a, Good(a), NEW b, NEW m \in Nat, NEW ph \in Phases, FromEnd(a, b, m, ph),
         NEW c \in BOOLEAN, NEW r \in EndRequests, ph <= PhaseOf(r.kind),
         m + (IF c THEN LengthOf(r) ELSE 0) <= AvailableSpace(a.ws)
  PROVE  /\ m + (IF c THEN LengthOf(r) ELSE 0) \in Nat
         /\ FromEnd(a, ServeAll(b, If(c, r)), m + (IF c THEN LengthOf(r) ELSE 0),
                    PhaseOf(r.kind))
<1>1. CASE c
  <2>1. ServeAll(b, If(c, r)) = Serve(b, r)
    BY <1>1, ServeOne DEF If
  <2>2. m + LengthOf(r) <= AvailableSpace(a.ws)
    BY <1>1
  <2>3. LengthOf(r) \in Nat /\ FromEnd(a, Serve(b, r), m + LengthOf(r), PhaseOf(r.kind))
    BY <2>2, ServesMore
  <2>4. (IF c THEN LengthOf(r) ELSE 0) = LengthOf(r)
    BY <1>1
  <2>5. QED
    BY <2>1, <2>3, <2>4
<1>2. CASE ~c
  <2>1. ServeAll(b, If(c, r)) = b
    BY <1>2, ServeNone DEF If
  <2>2. b.ws.phase <= PhaseOf(r.kind)
    <3>1. PhaseOf(r.kind) \in Nat
      BY DEF EndRequests, EndKinds, PhaseOf, InitOnce, Aligned, Buffers
    <3>2. b.ws.phase \in Nat /\ ph \in Nat
      BY DEF FromEnd, Good, InOrder, Workspace, Phases, Objects, Buffers
    <3>3. QED
      BY <3>1, <3>2 DEF FromEnd
  <2>3. QED
    BY <1>2, <2>1, <2>2 DEF FromEnd
<1>3. QED
  BY <1>1, <1>2

\* All that is reserved from the end for a profile.
Seqs(p) == MaxNbSeq(p, BlockSize(p))

MatchBytes(p) ==
  (IF p.row THEN AlignUp(p.hash) ELSE 0) + (IF p.opt THEN AlignedSum(OptSizes) ELSE 0)

BlockBytes(p) ==
  AlignUp(Seqs(p) * SeqDefSize)
  + (IF p.ldm THEN p.ldmHash * SeqDefSize ELSE 0)
  + (IF p.ldm THEN AlignUp(LdmMaxNbSeq(p, BlockSize(p)) * SeqDefSize) ELSE 0)
  + (IF p.producer THEN AlignUp(SequenceBound(BlockSize(p)) * SeqDefSize) ELSE 0)
  + (BlockSize(p) + WildcopyOverlength) + BuffInSize(p) + BuffOutSize(p)
  + (IF p.ldm THEN p.ldmBuckets ELSE 0)
  + Seqs(p) + Seqs(p) + Seqs(p)

\* A multiple of the alignment is aligned from both sides.
LEMMA MultipleUp ==
  ASSUME NEW x \in Nat, x % Alignment = 0
  PROVE  (-x) % Alignment = 0
<1>1. PICK q \in Int : x = q * Alignment
  <2>1. x = (x \div Alignment) * Alignment + (x % Alignment) /\ x \div Alignment \in Int
    BY AlignmentAssumption
  <2>2. x = (x \div Alignment) * Alignment
    <3>1. (x \div Alignment) * Alignment \in Int
      BY <2>1, AlignmentAssumption
    <3>2. QED
      BY <2>1, <3>1
  <2>3. QED
    BY <2>1, <2>2
<1>2. PICK d \in Int : -x = d * Alignment + ((-x) % Alignment)
  <2>1. -x = ((-x) \div Alignment) * Alignment + ((-x) % Alignment) /\ (-x) \div Alignment \in Int
    BY AlignmentAssumption
  <2>2. QED
    BY <2>1
<1>3. (-x) % Alignment \in Nat /\ (-x) % Alignment < Alignment
  BY AlignmentAssumption
<1>4. PICK r \in Nat : r = (-x) % Alignment
  BY <1>3
<1>5. PICK e \in Int : e = -q - d
  <2>1. -q - d \in Int
    OBVIOUS
  <2>2. QED
    BY <2>1
<1>6. r = e * Alignment /\ r < Alignment
  BY <1>1, <1>2, <1>3, <1>4, <1>5, AlignmentAssumption
<1>7. e >= 1 => e * Alignment >= Alignment
  BY AlignmentAssumption
<1>8. e <= -1 => e * Alignment < 0
  BY AlignmentAssumption
<1>9. e = 0
  BY <1>6, <1>7, <1>8, AlignmentAssumption
<1>10. QED
  BY <1>4, <1>6, <1>9, AlignmentAssumption

\* The sizes of a profile are natural numbers.
LEMMA ProfileSizes ==
  ASSUME NEW p \in Profiles
  PROVE  /\ p.row \in BOOLEAN /\ p.opt \in BOOLEAN /\ p.ldm \in BOOLEAN
         /\ p.producer \in BOOLEAN /\ p.buffered \in BOOLEAN
         /\ p.hash \in Nat /\ p.ldmHash \in Nat /\ p.ldmBuckets \in Nat
         /\ BlockSize(p) \in Nat /\ Seqs(p) \in Nat
         /\ BuffInSize(p) \in Nat /\ BuffOutSize(p) \in Nat
         /\ Seqs(p) * SeqDefSize \in Nat /\ p.ldmHash * SeqDefSize \in Nat
         /\ AlignUp(p.ldmHash * SeqDefSize) = p.ldmHash * SeqDefSize
         /\ LdmMaxNbSeq(p, BlockSize(p)) * SeqDefSize \in Nat
         /\ SequenceBound(BlockSize(p)) * SeqDefSize \in Nat
<1>1. /\ p.row \in BOOLEAN /\ p.opt \in BOOLEAN /\ p.ldm \in BOOLEAN
      /\ p.producer \in BOOLEAN /\ p.buffered \in BOOLEAN
      /\ p.hash \in Nat /\ p.ldmHash \in Nat /\ p.ldmBuckets \in Nat
      /\ p.window \in Nat /\ p.blockMax \in Nat /\ p.divider \in {3, 4}
      /\ (p.ldmHash * SeqDefSize) % Alignment = 0
  BY ProfilesAssumption
<1>2. BlockSize(p) \in Nat
  BY <1>1 DEF BlockSize, MIN
<1>3. SeqDefSize \in Nat
  BY ContextSizesAssumption
<1>4. \A n \in Nat : n * SeqDefSize \in Nat
  BY <1>3
<1>5. Seqs(p) \in Nat /\ LdmMaxNbSeq(p, BlockSize(p)) \in Nat /\ SequenceBound(BlockSize(p)) \in Nat
  BY <1>1, <1>2 DEF Seqs, MaxNbSeq, LdmMaxNbSeq, SequenceBound
<1>6. BuffInSize(p) \in Nat /\ BuffOutSize(p) \in Nat
  BY <1>1, <1>2 DEF BuffInSize, BuffOutSize
<1>7. AlignUp(p.ldmHash * SeqDefSize) = p.ldmHash * SeqDefSize
  <2> DEFINE x == p.ldmHash * SeqDefSize
  <2>1. x \in Nat /\ x % Alignment = 0
    BY <1>1, <1>4
  <2> HIDE DEF x
  <2>2. (-x) % Alignment = 0
    BY <2>1, MultipleUp
  <2>3. AlignUp(x) = x
    BY <2>1, <2>2 DEF AlignUp
  <2>4. QED
    BY <2>3 DEF x
<1>8. QED
  BY <1>1, <1>2, <1>4, <1>5, <1>6, <1>7

\* A later phase is a weaker claim.
LEMMA FromEndLater ==
  ASSUME NEW a, NEW b, NEW m, NEW ph \in Phases, NEW ph2 \in Phases, ph <= ph2,
         FromEnd(a, b, m, ph)
  PROVE  FromEnd(a, b, m, ph2)
<1>1. b.ws.phase \in Nat /\ ph \in Nat /\ ph2 \in Nat
  BY DEF FromEnd, Good, InOrder, Workspace, Phases, Objects, Buffers
<1>2. QED
  BY <1>1 DEF FromEnd

\* What is reserved from the end for a profile is served when there is room.
LEMMA ServesFrame ==
  ASSUME NEW acc, Good(acc), acc.ws.phase = InitOnce, NEW p \in Profiles,
         MatchBytes(p) + BlockBytes(p) <= AvailableSpace(acc.ws)
  PROVE  LET n == ServeAll(acc, MatchStateRequests(p) \o BlockRequests(p)) IN
         /\ MatchBytes(p) + BlockBytes(p) \in Nat
         /\ FromEnd(acc, n, MatchBytes(p) + BlockBytes(p), Buffers)
<1> DEFINE R == EndRequests
           A(n) == [kind |-> "aligned", bytes |-> n]
           B(n) == [kind |-> "buffer", bytes |-> n]
           once == [kind |-> "initonce", bytes |-> p.hash]
           opt  == IF p.opt THEN OptRequests ELSE <<>>
           block == BlockSize(p)
           seqs == Seqs(p)
           ldm  == LdmMaxNbSeq(p, block)
           bound == SequenceBound(block)
           ldmTables == IF p.ldm THEN <<A(p.ldmHash * SeqDefSize), A(ldm * SeqDefSize)>> ELSE <<>>
           b1 == B(block + WildcopyOverlength)
           b2 == B(BuffInSize(p))
           b3 == B(BuffOutSize(p))
           avail == AvailableSpace(acc.ws)
<1>1. /\ p.row \in BOOLEAN /\ p.opt \in BOOLEAN /\ p.ldm \in BOOLEAN
      /\ p.producer \in BOOLEAN
      /\ p.hash \in Nat /\ p.ldmHash \in Nat /\ p.ldmBuckets \in Nat
      /\ block \in Nat /\ seqs \in Nat
      /\ BuffInSize(p) \in Nat /\ BuffOutSize(p) \in Nat
      /\ seqs * SeqDefSize \in Nat /\ p.ldmHash * SeqDefSize \in Nat
      /\ AlignUp(p.ldmHash * SeqDefSize) = p.ldmHash * SeqDefSize
      /\ ldm * SeqDefSize \in Nat
      /\ bound * SeqDefSize \in Nat
      /\ block + WildcopyOverlength \in Nat
  BY ProfileSizes, ContextSizesAssumption
<1>2. \* The requests, one piece after the other.
      /\ MatchStateRequests(p) = If(p.row, once) \o opt
      /\ BlockRequests(p) = <<A(seqs * SeqDefSize)>> \o ldmTables
                            \o If(p.producer, A(bound * SeqDefSize))
                            \o <<b1, b2, b3>> \o If(p.ldm, B(p.ldmBuckets))
                            \o <<B(seqs), B(seqs), B(seqs)>>
  BY DEF MatchStateRequests, BlockRequests, OptRequests, If, Seqs
<1>3. \* All of them are for memory from the end.
      /\ once \in R /\ b1 \in R /\ b2 \in R /\ b3 \in R
      /\ \A n \in Nat : A(n) \in R /\ B(n) \in R
  BY <1>1 DEF EndRequests, EndKinds
<1>4. /\ \A n \in Nat : /\ PhaseOf(A(n).kind) = Aligned /\ LengthOf(A(n)) = AlignUp(n)
                        /\ PhaseOf(B(n).kind) = Buffers /\ LengthOf(B(n)) = n
      /\ PhaseOf(once.kind) = InitOnce /\ LengthOf(once) = AlignUp(p.hash)
  BY DEF PhaseOf, LengthOf
<1>5. opt \in Seq(R) /\ OptRequests \in Seq(R)
  <2> DEFINE n == Len(OptSizes)
  <2>1. OptSizes \in Seq(Nat) /\ n \in Nat /\ DOMAIN OptSizes = 1 .. n
    BY ContextSizesAssumption
  <2>2. OptRequests = [i \in 1 .. n |-> A(OptSizes[i])]
    BY <2>1 DEF OptRequests
  <2>3. \A i \in 1 .. n : A(OptSizes[i]) \in R
    <3>1. TAKE i \in 1 .. n
    <3>2. OptSizes[i] \in Nat
      BY <2>1
    <3> HIDE DEF A, R
    <3>3. QED
      BY <3>2, <1>3
  <2> HIDE DEF A, R, n
  <2>4. OptRequests \in Seq(R)
    BY <2>1, <2>2, <2>3
  <2>5. QED
    BY <2>4
<1> HIDE DEF R, A, B, once, opt, block, seqs, ldm, bound, b1, b2, b3
<1>6. ldmTables \in Seq(R)
  BY <1>1, <1>3
<1>7. \A r \in R, c \in BOOLEAN : If(c, r) \in Seq(R)
  BY DEF If
<1>8. /\ A(seqs * SeqDefSize) \in R /\ A(p.ldmHash * SeqDefSize) \in R
      /\ A(ldm * SeqDefSize) \in R /\ A(bound * SeqDefSize) \in R
      /\ B(p.ldmBuckets) \in R /\ B(seqs) \in R
  BY <1>1, <1>3
<1> HIDE DEF ldmTables
<1>9. /\ If(p.row, once) \in Seq(R) /\ If(p.producer, A(bound * SeqDefSize)) \in Seq(R)
      /\ If(p.ldm, B(p.ldmBuckets)) \in Seq(R)
      /\ <<A(seqs * SeqDefSize)>> \in Seq(R) /\ <<b1, b2, b3>> \in Seq(R)
      /\ <<B(seqs), B(seqs), B(seqs)>> \in Seq(R)
  BY <1>1, <1>3, <1>7, <1>8
<1> DEFINE n1 == ServeAll(acc, If(p.row, once))
           n2 == ServeAll(n1, opt)
           n3 == Serve(n2, A(seqs * SeqDefSize))
           n4 == ServeAll(n3, ldmTables)
           n5 == ServeAll(n4, If(p.producer, A(bound * SeqDefSize)))
           n6 == Serve(Serve(Serve(n5, b1), b2), b3)
           n7 == ServeAll(n6, If(p.ldm, B(p.ldmBuckets)))
           n8 == Serve(Serve(Serve(n7, B(seqs)), B(seqs)), B(seqs))
<1>10. ServeAll(acc, MatchStateRequests(p) \o BlockRequests(p)) = n8
  <2> DEFINE s1 == If(p.row, once)
             s3 == <<A(seqs * SeqDefSize)>>
             s5 == If(p.producer, A(bound * SeqDefSize))
             s6 == <<b1, b2, b3>>
             s7 == If(p.ldm, B(p.ldmBuckets))
             s8 == <<B(seqs), B(seqs), B(seqs)>>
             m == s1 \o opt
             k4 == s3 \o ldmTables
             k5 == k4 \o s5
             k6 == k5 \o s6
             k7 == k6 \o s7
             k8 == k7 \o s8
  <2>1. /\ s1 \in Seq(R) /\ s3 \in Seq(R) /\ s5 \in Seq(R)
        /\ s6 \in Seq(R) /\ s7 \in Seq(R) /\ s8 \in Seq(R)
    BY <1>9
  <2>2. MatchStateRequests(p) = m /\ BlockRequests(p) = k8
    BY <1>2
  <2>3. ServeAll(n2, s3) = n3 /\ ServeAll(n5, s6) = n6 /\ ServeAll(n7, s8) = n8
    BY ServeOne, ServeThree
  <2>4. n1 = ServeAll(acc, s1) /\ n5 = ServeAll(n4, s5) /\ n7 = ServeAll(n6, s7)
    OBVIOUS
  <2> HIDE DEF s1, s3, s5, s6, s7, s8, n1, n2, n3, n4, n5, n6, n7, n8
  <2>5. /\ m \in Seq(R) /\ k4 \in Seq(R) /\ k5 \in Seq(R) /\ k6 \in Seq(R)
        /\ k7 \in Seq(R) /\ k8 \in Seq(R)
    BY <2>1, <1>5, <1>6
  <2> HIDE DEF R
  <2>6. ServeAll(acc, m) = n2
    BY <2>1, <2>4, <1>5, ServeThen DEF n2
  <2>7. ServeAll(n2, k4) = n4
    BY <2>1, <2>3, <1>6, ServeThen DEF n4
  <2>8. ServeAll(n2, k5) = n5
    <3> HIDE DEF k4
    <3>1. QED
      BY <2>1, <2>4, <2>5, <2>7, ServeThen
  <2>9. ServeAll(n2, k6) = n6
    <3> HIDE DEF k5
    <3>1. QED
      BY <2>1, <2>3, <2>5, <2>8, ServeThen
  <2>10. ServeAll(n2, k7) = n7
    <3> HIDE DEF k6
    <3>1. QED
      BY <2>1, <2>4, <2>5, <2>9, ServeThen
  <2>11. ServeAll(n2, k8) = n8
    <3> HIDE DEF k7
    <3>1. QED
      BY <2>1, <2>3, <2>5, <2>10, ServeThen
  <2>12. ServeAll(acc, m \o k8) = n8
    <3> HIDE DEF m, k8
    <3>1. QED
      BY <2>5, <2>6, <2>11, ServeThen
  <2>13. QED
    BY <2>2, <2>12
<1> DEFINE len3 == AlignUp(seqs * SeqDefSize)
           len4 == p.ldmHash * SeqDefSize
           len5 == AlignUp(ldm * SeqDefSize)
           len6 == AlignUp(bound * SeqDefSize)
           m1 == IF p.row THEN AlignUp(p.hash) ELSE 0
           m2 == m1 + (IF p.opt THEN AlignedSum(OptSizes) ELSE 0)
           m3 == m2 + len3
           m4 == m3 + (IF p.ldm THEN len4 ELSE 0) + (IF p.ldm THEN len5 ELSE 0)
           m5 == m4 + (IF p.producer THEN len6 ELSE 0)
           m6 == m5 + (block + WildcopyOverlength) + BuffInSize(p) + BuffOutSize(p)
           m7 == m6 + (IF p.ldm THEN p.ldmBuckets ELSE 0)
           m8 == m7 + seqs + seqs + seqs
<1>11. /\ len3 \in Nat /\ len4 \in Nat /\ len5 \in Nat /\ len6 \in Nat
       /\ AlignUp(p.hash) \in Nat /\ AlignedSum(OptSizes) \in Nat
  BY <1>1, Rounding, SumNat
<1>12. m8 = MatchBytes(p) + BlockBytes(p)
  <2> DEFINE x1 == m1
             x2 == IF p.opt THEN AlignedSum(OptSizes) ELSE 0
             x4 == IF p.ldm THEN len4 ELSE 0
             x5 == IF p.ldm THEN len5 ELSE 0
             x6 == IF p.producer THEN len6 ELSE 0
             x7 == IF p.ldm THEN p.ldmBuckets ELSE 0
             x8 == block + WildcopyOverlength
  <2>1. /\ x1 \in Nat /\ x2 \in Nat /\ x4 \in Nat /\ x5 \in Nat /\ x6 \in Nat /\ x7 \in Nat
        /\ x8 \in Nat
    BY <1>1, <1>11
  <2>2. MatchBytes(p) = x1 + x2
    BY DEF MatchBytes
  <2>3. BlockBytes(p) = len3 + x4 + x5 + x6 + x8 + BuffInSize(p) + BuffOutSize(p) + x7
                        + seqs + seqs + seqs
    BY DEF BlockBytes, seqs, block, ldm, bound
  <2>4. m8 = x1 + x2 + len3 + x4 + x5 + x6 + x8 + BuffInSize(p) + BuffOutSize(p) + x7
             + seqs + seqs + seqs
    BY DEF m8
  <2> HIDE DEF x1, x2, x4, x5, x6, x7, x8, m8, len3
  <2>5. QED
    BY <2>1, <2>2, <2>3, <2>4, <1>1, <1>11
<1>13. /\ m1 \in Nat /\ m2 \in Nat /\ m3 \in Nat /\ m4 \in Nat /\ m5 \in Nat /\ m6 \in Nat
       /\ m7 \in Nat /\ m8 \in Nat
       /\ m1 <= m8 /\ m2 <= m8 /\ m3 <= m8 /\ m4 <= m8 /\ m5 <= m8 /\ m6 <= m8 /\ m7 <= m8
  <2> HIDE DEF len3, len4, len5, len6
  <2>1. m1 \in Nat /\ m2 \in Nat /\ m1 <= m2
    BY <1>11
  <2> HIDE DEF m1, m2
  <2>2. m3 \in Nat /\ m2 <= m3 /\ m4 \in Nat /\ m3 <= m4
    BY <2>1, <1>11
  <2> HIDE DEF m3, m4
  <2>3. m5 \in Nat /\ m4 <= m5 /\ m6 \in Nat /\ m5 <= m6
    BY <2>2, <1>1, <1>11
  <2> HIDE DEF m5, m6
  <2>4. m7 \in Nat /\ m6 <= m7 /\ m8 \in Nat /\ m7 <= m8
    BY <2>3, <1>1
  <2> HIDE DEF m7, m8
  <2>5. QED
    BY <2>1, <2>2, <2>3, <2>4
<1>14. m8 <= avail /\ avail \in Int
  BY <1>12 DEF Good, InOrder, Workspace, AvailableSpace
<1>15. InitOnce \in Phases /\ Aligned \in Phases /\ Buffers \in Phases
       /\ InitOnce <= InitOnce /\ InitOnce <= Aligned /\ Aligned <= Aligned
       /\ Aligned <= Buffers /\ Buffers <= Buffers
  BY DEF Phases, Objects, InitOnce, Aligned, Buffers
<1> HIDE DEF len3, len4, len5, len6, avail
<1>16. FromEnd(acc, n1, m1, InitOnce)
  <2>1. FromEnd(acc, acc, 0, InitOnce)
    BY <1>15 DEF FromEnd, Good, InOrder, Workspace
  <2>2. 0 + (IF p.row THEN LengthOf(once) ELSE 0) = m1
    BY <1>4, <1>11
  <2>3. m1 <= avail
    BY <1>13, <1>14
  <2> HIDE DEF m1
  <2>4. QED
    BY <2>1, <2>2, <2>3, <1>1, <1>3, <1>4, <1>15, ServesIf DEF avail, R
<1> HIDE DEF n1
<1>17. FromEnd(acc, n2, m2, Aligned)
  <2>1. CASE p.opt
    <3>1. n2 = ServeAll(n1, OptRequests) /\ m2 = m1 + AlignedSum(OptSizes)
      BY <2>1 DEF opt
    <3>2. /\ acc.ws.allocStart \in Nat /\ acc.ws.tableEnd \in Nat
          /\ n1.ws.allocStart = acc.ws.allocStart - m1 /\ n1.ws.tableEnd = acc.ws.tableEnd
          /\ Good(n1) /\ n1.ws.phase <= InitOnce /\ n1.ws.phase \in Nat
      BY <1>16 DEF Good, InOrder, Workspace, FromEnd, Phases, Objects, Buffers
    <3> HIDE DEF n2, m1
    <3>3. AlignedSum(OptSizes) <= AvailableSpace(n1.ws)
      BY <3>1, <3>2, <1>11, <1>13, <1>14 DEF AvailableSpace, avail
    <3>4. n1.ws.phase <= Aligned
      BY <3>2 DEF InitOnce, Aligned
    <3>5. FromEnd(n1, n2, AlignedSum(OptSizes), Aligned)
      BY <3>1, <3>2, <3>3, <3>4, ServesOpt
    <3> HIDE DEF m2
    <3>6. QED
      BY <3>1, <3>5, <1>11, <1>13, <1>15, <1>16, FromEndThen
  <2>2. CASE ~p.opt
    <3>1. n2 = n1 /\ m2 = m1
      BY <2>2, <1>11, ServeNone DEF opt
    <3> HIDE DEF n2, m1, m2
    <3>2. QED
      BY <3>1, <1>15, <1>16, FromEndLater
  <2>3. QED
    BY <2>1, <2>2, <1>1
<1> HIDE DEF n2, m1
<1>18. FromEnd(acc, n3, m3, Aligned)
  <2>1. LengthOf(A(seqs * SeqDefSize)) = len3 /\ PhaseOf(A(seqs * SeqDefSize).kind) = Aligned
    BY <1>1, <1>4 DEF len3
  <2>2. m2 + len3 = m3 /\ m3 <= avail
    BY <1>13, <1>14
  <2> HIDE DEF m2, m3
  <2>3. QED
    BY <2>1, <2>2, <1>8, <1>13, <1>15, <1>17, ServesMore DEF avail, R
<1> HIDE DEF n3, m2
<1>19. FromEnd(acc, n4, m4, Aligned)
  <2> DEFINE r1 == A(p.ldmHash * SeqDefSize)
             r2 == A(ldm * SeqDefSize)
  <2>1. /\ LengthOf(r1) = len4 /\ PhaseOf(r1.kind) = Aligned /\ r1 \in R
        /\ LengthOf(r2) = len5 /\ PhaseOf(r2.kind) = Aligned /\ r2 \in R
    BY <1>1, <1>4, <1>8 DEF len4, len5
  <2>2. m4 <= avail
    BY <1>13, <1>14
  <2> HIDE DEF r1, r2, m3
  <2>3. CASE p.ldm
    <3>1. n4 = Serve(Serve(n3, r1), r2)
      <4> DEFINE s1 == <<r1>>
                 s2 == <<r2>>
      <4>1. ldmTables = s1 \o s2 /\ s1 \in Seq(R) /\ s2 \in Seq(R)
        BY <2>1, <2>3 DEF ldmTables, r1, r2
      <4>2. ServeAll(n3, s1) = Serve(n3, r1) /\ ServeAll(Serve(n3, r1), s2) = Serve(Serve(n3, r1), r2)
        BY ServeOne
      <4> HIDE DEF s1, s2
      <4>3. ServeAll(n3, s1 \o s2) = ServeAll(ServeAll(n3, s1), s2)
        BY <4>1, ServeThen
      <4>4. QED
        BY <4>1, <4>2, <4>3
    <3>2. m4 = m3 + len4 + len5 /\ m3 + len4 \in Nat /\ m3 + len4 <= m4
      BY <2>3, <1>11, <1>13
    <3> DEFINE k == m3 + len4
               x == Serve(n3, r1)
    <3> HIDE DEF m4
    <3>3. k <= avail
      BY <2>2, <3>2, <1>13, <1>14
    <3>4. FromEnd(acc, x, k, Aligned)
      BY <2>1, <3>3, <1>13, <1>15, <1>18, ServesMore DEF avail, R
    <3>5. k \in Nat /\ k + len5 <= avail
      BY <2>2, <3>2
    <3>6. m4 = k + len5 /\ n4 = Serve(x, r2)
      BY <3>1, <3>2
    <3> HIDE DEF k, x, n4
    <3>7. QED
      BY <2>1, <3>4, <3>5, <3>6, <1>15, ServesMore DEF avail, R
  <2>4. CASE ~p.ldm
    <3>1. n4 = n3 /\ m4 = m3
      BY <2>4, <1>13, ServeNone DEF ldmTables
    <3>2. QED
      BY <3>1, <1>18
  <2>5. QED
    BY <2>3, <2>4, <1>1
<1> HIDE DEF n4, m3
<1>20. FromEnd(acc, n5, m5, Aligned)
  <2> DEFINE r == A(bound * SeqDefSize)
  <2>1. LengthOf(r) = len6 /\ PhaseOf(r.kind) = Aligned /\ r \in R
    BY <1>1, <1>4, <1>8 DEF len6
  <2>2. m5 <= avail /\ m5 = m4 + (IF p.producer THEN LengthOf(r) ELSE 0)
    BY <2>1, <1>13, <1>14
  <2> HIDE DEF r, m4, m5
  <2>3. n5 = ServeAll(n4, If(p.producer, r))
    BY DEF r
  <2> HIDE DEF n5
  <2>4. QED
    BY <2>1, <2>2, <2>3, <1>1, <1>13, <1>15, <1>19, ServesIf DEF avail, R
<1> HIDE DEF n5, m4
<1>21. FromEnd(acc, n6, m6, Buffers)
  <2> DEFINE l1 == block + WildcopyOverlength
             l2 == BuffInSize(p)
             l3 == BuffOutSize(p)
             k1 == m5 + l1
             k2 == k1 + l2
             x1 == Serve(n5, b1)
             x2 == Serve(x1, b2)
  <2>1. /\ LengthOf(b1) = l1 /\ PhaseOf(b1.kind) = Buffers
        /\ LengthOf(b2) = l2 /\ PhaseOf(b2.kind) = Buffers
        /\ LengthOf(b3) = l3 /\ PhaseOf(b3.kind) = Buffers
    BY <1>1, <1>4 DEF b1, b2, b3
  <2>2. /\ m6 = k2 + l3 /\ k1 \in Nat /\ k2 \in Nat
        /\ k1 <= avail /\ k2 <= avail /\ m6 <= avail
    <3>1. l1 \in Nat /\ l2 \in Nat /\ l3 \in Nat /\ m5 \in Nat /\ m6 \in Nat /\ m6 <= avail
      BY <1>1, <1>13, <1>14
    <3>2. m6 = m5 + l1 + l2 + l3
      OBVIOUS
    <3> HIDE DEF l1, l2, l3, m5, m6
    <3>3. QED
      BY <3>1, <3>2, <1>14
  <2>3. n6 = Serve(x2, b3)
    OBVIOUS
  <2> HIDE DEF l1, l2, l3, m5, m6
  <2>4. FromEnd(acc, x1, k1, Buffers)
    BY <2>1, <2>2, <1>3, <1>13, <1>15, <1>20, ServesMore DEF avail, R
  <2> HIDE DEF x1, k1
  <2>5. FromEnd(acc, x2, k2, Buffers)
    BY <2>1, <2>2, <2>4, <1>3, <1>15, ServesMore DEF avail, R
  <2> HIDE DEF x2, k2, n6
  <2>6. QED
    BY <2>1, <2>2, <2>3, <2>5, <1>3, <1>15, ServesMore DEF avail, R
<1> HIDE DEF n6, m5
<1>22. FromEnd(acc, n7, m7, Buffers)
  <2> DEFINE r == B(p.ldmBuckets)
  <2>1. LengthOf(r) = p.ldmBuckets /\ PhaseOf(r.kind) = Buffers /\ r \in R
    BY <1>1, <1>4, <1>8
  <2>2. m7 <= avail /\ m7 = m6 + (IF p.ldm THEN LengthOf(r) ELSE 0)
    BY <2>1, <1>13, <1>14
  <2>3. n7 = ServeAll(n6, If(p.ldm, r))
    OBVIOUS
  <2> HIDE DEF r, m6, m7, n7
  <2>4. QED
    BY <2>1, <2>2, <2>3, <1>1, <1>13, <1>15, <1>21, ServesIf DEF avail, R
<1> HIDE DEF n7, m6
<1>23. FromEnd(acc, n8, m8, Buffers)
  <2> DEFINE r  == B(seqs)
             k1 == m7 + seqs
             k2 == k1 + seqs
             x1 == Serve(n7, r)
             x2 == Serve(x1, r)
  <2>1. LengthOf(r) = seqs /\ PhaseOf(r.kind) = Buffers /\ r \in R
    BY <1>1, <1>4, <1>8
  <2>2. /\ m8 = k2 + seqs /\ k1 \in Nat /\ k2 \in Nat
        /\ k1 <= avail /\ k2 <= avail /\ m8 <= avail
    <3>1. m7 \in Nat /\ m8 \in Nat /\ m8 <= avail /\ m8 = m7 + seqs + seqs + seqs
      BY <1>13, <1>14
    <3> HIDE DEF m7, m8
    <3>2. QED
      BY <3>1, <1>1, <1>14
  <2>3. n8 = Serve(x2, r)
    OBVIOUS
  <2> HIDE DEF m7, m8, r
  <2>4. FromEnd(acc, x1, k1, Buffers)
    BY <2>1, <2>2, <1>13, <1>15, <1>22, ServesMore DEF avail, R
  <2> HIDE DEF x1, k1
  <2>5. FromEnd(acc, x2, k2, Buffers)
    BY <2>1, <2>2, <2>4, <1>15, ServesMore DEF avail, R
  <2> HIDE DEF x2, k2, n8
  <2>6. QED
    BY <2>1, <2>2, <2>3, <2>5, <1>15, ServesMore DEF avail, R
<1> HIDE DEF n8, m8, m7
<1>24. QED
  BY <1>10, <1>12, <1>13, <1>23

-----------------------------------------------------------------------------
(* The size that is estimated. *)

\* It is what is reserved, and the slack for the gaps of alignment.
LEMMA EstimateIs ==
  ASSUME NEW p \in Profiles, NEW static \in BOOLEAN
  PROVE  /\ EstimateCCtxSize(p, static) =
              ObjBytes(static) + TableBytes(p) + MatchBytes(p) + BlockBytes(p) + SlackSpaceRequired
         /\ TableBytes(p) \in Nat /\ MatchBytes(p) \in Nat /\ BlockBytes(p) \in Nat
         /\ EstimateCCtxSize(p, static) \in Nat
<1> DEFINE block == BlockSize(p)
           o  == ObjBytes(static)
           t  == TableBytes(p)
           r  == IF p.row THEN AlignUp(p.hash) ELSE 0
           q  == IF p.opt THEN AlignedSum(OptSizes) ELSE 0
           s  == AlignUp(Seqs(p) * SeqDefSize)
           lh == p.ldmHash * SeqDefSize
           ls == AlignUp(LdmMaxNbSeq(p, block) * SeqDefSize)
           x4 == IF p.ldm THEN lh ELSE 0
           x5 == IF p.ldm THEN ls ELSE 0
           x6 == IF p.producer THEN AlignUp(SequenceBound(block) * SeqDefSize) ELSE 0
           x7 == IF p.ldm THEN p.ldmBuckets ELSE 0
           bi == BuffInSize(p)
           bo == BuffOutSize(p)
           n  == Seqs(p)
<1>1. /\ p.row \in BOOLEAN /\ p.opt \in BOOLEAN /\ p.ldm \in BOOLEAN /\ p.producer \in BOOLEAN
      /\ p.hash \in Nat /\ p.ldmHash \in Nat /\ p.ldmBuckets \in Nat
      /\ block \in Nat /\ n \in Nat /\ bi \in Nat /\ bo \in Nat
      /\ n * SeqDefSize \in Nat /\ lh \in Nat
      /\ LdmMaxNbSeq(p, block) * SeqDefSize \in Nat
      /\ SequenceBound(block) * SeqDefSize \in Nat
  BY ProfileSizes
<1>2. /\ r \in Nat /\ q \in Nat /\ s \in Nat /\ x4 \in Nat /\ x5 \in Nat /\ x6 \in Nat /\ x7 \in Nat
  BY <1>1, Rounding, SumNat
<1>3. o \in Nat /\ WildcopyOverlength \in Nat /\ Alignment \in Nat
  BY ObjBytesNat, ContextSizesAssumption, AlignmentAssumption
<1>4. t \in Nat
  <2>1. p.hash \in Nat /\ p.chain \in Nat /\ p.hash3 \in Nat /\ CellSize \in Nat
    BY ProfilesAssumption, ContextSizesAssumption
  <2>2. QED
    BY <2>1 DEF TableBytes
<1>5. MatchBytes(p) = r + q
  BY DEF MatchBytes
<1>6. BlockBytes(p) = s + x4 + x5 + x6 + (block + WildcopyOverlength) + bi + bo + x7 + n + n + n
  BY DEF BlockBytes
<1>7. EstimateCCtxSize(p, static) =
        o + (x7 + x4) + x5 + (t + q + SlackSpaceRequired + r)
        + (WildcopyOverlength + block) + s + 3 * n + bi + bo + x6
  <2>1. o = (IF static THEN SizeofCCtx ELSE 0) + TmpWorkspaceSize + 2 * SizeofBlockState
    BY ContextSizesAssumption DEF ObjBytes
  <2>2. SizeofMatchState(p) = t + q + SlackSpaceRequired + r
    BY DEF SizeofMatchState, TableBytes, AlignedAllocSize
  <2>3. LdmTableSize(p) = x7 + x4
    BY <1>1 DEF LdmTableSize
  <2>4. /\ (IF p.ldm THEN AlignedAllocSize(LdmMaxNbSeq(p, block) * SeqDefSize) ELSE 0) = x5
        /\ (IF p.producer THEN AlignedAllocSize(SequenceBound(block) * SeqDefSize) ELSE 0) = x6
        /\ AlignedAllocSize(MaxNbSeq(p, block) * SeqDefSize) = s /\ MaxNbSeq(p, block) = n
    BY DEF AlignedAllocSize, Seqs
  <2> HIDE DEF block, o, t, r, q, s, lh, ls, x4, x5, x6, x7, bi, bo, n
  <2>5. EstimateCCtxSize(p, static) =
          (IF static THEN SizeofCCtx ELSE 0)
          + TmpWorkspaceSize + 2 * SizeofBlockState + LdmTableSize(p) + x5 + SizeofMatchState(p)
          + (WildcopyOverlength + block) + s + 3 * n + bi + bo + x6
    BY <2>4 DEF EstimateCCtxSize, block, bi, bo
  <2>6. QED
    BY <2>1, <2>2, <2>3, <2>5
<1> HIDE DEF block, o, t, r, q, s, lh, ls, x4, x5, x6, x7, bi, bo, n
<1>8. SlackSpaceRequired \in Nat
  BY <1>3 DEF SlackSpaceRequired
<1>9. EstimateCCtxSize(p, static) = o + t + (r + q) + (s + x4 + x5 + x6 + (block + WildcopyOverlength)
                                     + bi + bo + x7 + n + n + n) + SlackSpaceRequired
  BY <1>1, <1>2, <1>3, <1>4, <1>7, <1>8
<1>10. QED
  BY <1>1, <1>2, <1>3, <1>4, <1>5, <1>6, <1>8, <1>9 DEF o, t

-----------------------------------------------------------------------------
(* A frame's reservations, from ZSTD_cwksp_clear on. *)

\* A workspace that a frame may begin with.
Usable(w, static) ==
  /\ Based(w, static)
  /\ w.tableValidEnd <= InitialAllocStart(w)

\* Clearing it gives the frame an empty workspace; of the old tables nothing is
\* trusted when the indices begin again.
LEMMA RestartedIsCleared ==
  ASSUME NEW static \in BOOLEAN, NEW w, Usable(w, static), NEW restart \in BOOLEAN
  PROVE  LET n == Restarted(Clear(w), restart) IN
         /\ Cleared(n, static)
         /\ n.workspace = w.workspace /\ n.workspaceEnd = w.workspaceEnd
         /\ n.objectEnd = w.objectEnd
         /\ n.tableValidEnd = IF restart THEN w.objectEnd ELSE w.tableValidEnd
<1> USE DEF Phases, Objects, InitOnce, Aligned, Buffers
<1> DEFINE n    == Restarted(Clear(w), restart)
           c    == Clear(w)
           objs == w.workspace + ObjBytes(static)
           up   == AlignUp(objs)
           down == InitialAllocStart(w)
           ph   == MIN(w.phase, InitOnce)
           valid == IF restart THEN w.objectEnd ELSE w.tableValidEnd
<1>1. w \in Workspace /\ 0 < w.workspace /\ objs \in Nat /\ ObjBytes(static) \in Nat
  BY ObjBytesNat DEF Usable, Based, Workspace
<1>2. /\ up \in Nat /\ objs <= up /\ up < objs + Alignment
      /\ down \in Nat /\ down <= w.workspaceEnd /\ w.workspaceEnd < down + Alignment
  <2> HIDE DEF objs
  <2>1. QED
    BY <1>1, Rounding DEF InitialAllocStart, Workspace
<1>3. up <= down
  <2>1. w.workspaceEnd - w.workspace >= ObjBytes(static) + 2 * Alignment
    BY DEF Usable, Based, SizeOf, SlackSpaceRequired
  <2> HIDE DEF up, down
  <2>2. QED
    BY <2>1, <1>1, <1>2, AlignmentAssumption DEF Workspace
<1>4. w.objectEnd = (IF w.phase = Objects THEN objs ELSE up) /\ w.objectEnd <= down
  <2>1. w.objectEnd = (IF w.phase = Objects THEN objs ELSE up)
    BY DEF Usable, Based
  <2> HIDE DEF up, objs, down
  <2>2. QED
    BY <2>1, <1>1, <1>2, <1>3
<1>5. /\ ph \in {Objects, InitOnce} /\ ph <= InitOnce
      /\ ph = Objects <=> w.phase = Objects
  BY <1>1 DEF MIN, Workspace
<1> HIDE DEF down, ph, up, objs
<1>6. c = [w EXCEPT !.tableEnd = w.objectEnd, !.allocStart = down, !.allocFailed = FALSE, !.phase = ph]
  BY DEF Clear, down, ph
<1>7. n = [w EXCEPT !.tableEnd = w.objectEnd, !.allocStart = down, !.allocFailed = FALSE, !.phase = ph,
                    !.tableValidEnd = valid]
  <2>1. w.objectEnd \in Nat /\ w.tableValidEnd \in Nat
    BY <1>1 DEF Workspace
  <2> HIDE DEF c
  <2>2. CASE restart
    <3>1. n = ClearTables(MarkTablesDirty(c))
      BY <2>2 DEF Restarted, c
    <3>2. MarkTablesDirty(c) = [w EXCEPT !.tableEnd = w.objectEnd, !.allocStart = down,
                                 !.allocFailed = FALSE, !.phase = ph, !.tableValidEnd = w.objectEnd]
      BY <1>1, <1>6 DEF MarkTablesDirty, Workspace
    <3>3. QED
      BY <2>2, <3>1, <3>2, <1>1 DEF ClearTables, Workspace
  <2>3. CASE ~restart
    <3>1. n = ClearTables(c)
      BY <2>3 DEF Restarted, c
    <3>2. QED
      BY <2>3, <3>1, <1>1, <1>6 DEF ClearTables, Workspace
  <2>4. QED
    BY <2>2, <2>3
<1>8. /\ n \in Workspace /\ n.phase = ph
      /\ n.workspace = w.workspace /\ n.workspaceEnd = w.workspaceEnd
      /\ n.objectEnd = w.objectEnd /\ n.tableEnd = w.objectEnd
      /\ n.allocStart = down /\ n.tableValidEnd = valid
  <2>1. ph \in Phases /\ valid \in Nat /\ w.objectEnd \in Nat
    BY <1>1, <1>5 DEF Workspace
  <2> HIDE DEF n, Phases, valid
  <2>2. n \in Workspace
    BY <2>1, <1>1, <1>2, <1>7 DEF Workspace
  <2>3. QED
    BY <2>2, <1>1, <1>7 DEF Workspace
<1>9. InitialAllocStart(n) = down
  BY <1>8 DEF InitialAllocStart, down
<1>10. valid <= down
  BY <1>4 DEF Usable, down
<1>11. Based(n, static)
  <2>1. SizeOf(n) >= ObjBytes(static) + SlackSpaceRequired
    BY <1>8 DEF Usable, Based, SizeOf
  <2>2. n.objectEnd = IF n.phase = Objects THEN n.workspace + ObjBytes(static)
                      ELSE AlignUp(n.workspace + ObjBytes(static))
    BY <1>4, <1>5, <1>8 DEF objs, up
  <2>3. n.phase = Objects => n.tableValidEnd <= n.workspace + ObjBytes(static)
    <3>1. SUFFICES ASSUME w.phase = Objects PROVE valid <= objs
      BY <1>5, <1>8 DEF objs
    <3>2. w.objectEnd = objs /\ w.tableValidEnd <= objs
      BY <3>1, <1>4 DEF Usable, Based, objs
    <3>3. QED
      BY <3>2, <1>1
  <2> HIDE DEF n
  <2>4. QED
    BY <2>1, <2>2, <2>3, <1>1, <1>8 DEF Based
<1>12. Cleared(n, static)
  BY <1>5, <1>8, <1>9, <1>10, <1>11 DEF Cleared
<1>13. QED
  BY <1>8, <1>12

\* Memory that is lent as anything but a table is not taken from the tables, nor
\* from what is left of earlier ones.
LEMMA OthersApart ==
  ASSUME NEW acc, Good(acc)
  PROVE  /\ Cells(acc.ws.objectEnd, acc.ws.tableEnd) \cap Others(acc.areas) = {}
         /\ Cells(acc.ws.objectEnd, acc.ws.tableValidEnd) \cap Others(acc.areas) = {}
<1> DEFINE w == acc.ws
<1>1. /\ w.objectEnd \in Nat /\ w.tableEnd \in Nat /\ w.tableValidEnd \in Nat /\ w.allocStart \in Nat
      /\ w.tableEnd <= w.allocStart /\ w.tableValidEnd <= w.allocStart
  BY DEF Good, InOrder, Workspace
<1>2. ASSUME NEW x \in Others(acc.areas), x \in Int
      PROVE  x < w.objectEnd \/ w.allocStart <= x
  <2>1. PICK a \in acc.areas : a.kind # "table" /\ x \in Cells(a.lo, a.hi)
    BY DEF Others
  <2>2. Placed(w, a) /\ a \in Areas
    BY DEF Good
  <2>3. a.lo \in Nat /\ a.hi \in Nat /\ a.lo <= x /\ x < a.hi
    BY <2>1, <2>2 DEF Areas, Cells
  <2>4. CASE a.kind = "object"
    BY <2>2, <2>3, <2>4, <1>1, <1>2 DEF Placed
  <2>5. CASE a.kind # "object"
    BY <2>1, <2>2, <2>3, <2>5, <1>1, <1>2 DEF Placed
  <2>6. QED
    BY <2>4, <2>5
<1>3. ASSUME NEW x \in Cells(w.objectEnd, w.tableEnd) PROVE x \notin Others(acc.areas)
  BY <1>1, <1>2, <1>3 DEF Cells
<1>4. ASSUME NEW x \in Cells(w.objectEnd, w.tableValidEnd) PROVE x \notin Others(acc.areas)
  BY <1>1, <1>2, <1>4 DEF Cells
<1>5. QED
  BY <1>3, <1>4

\* Replacing the workspace leaves the rest of an accumulator alone.
LEMMA WsReplaced ==
  ASSUME NEW acc, acc = [ws |-> acc.ws, areas |-> acc.areas, missed |-> acc.missed], NEW c
  PROVE  [acc EXCEPT !.ws = c] = [ws |-> c, areas |-> acc.areas, missed |-> acc.missed]
OBVIOUS

\* A workspace that holds its objects and nothing else.
Whole(w, static) == [ws |-> w, areas |-> ObjectAreas(w.workspace, static), missed |-> FALSE]

\* What has been reserved is what a frame of profile p needs of workspace w; when
\* the tables have been cleaned every cell of them is known.
FitFor(done, w, static, p, clean) ==
  LET n == done.got.ws IN
  /\ Good(done.got)
  /\ n.workspace = w.workspace /\ n.workspaceEnd = w.workspaceEnd
  /\ Usable(n, static)
  /\ ObjectsOf(done.got.areas) = ObjectAreas(w.workspace, static)
  /\ Cells(n.objectEnd, n.tableValidEnd) \subseteq done.below
  /\ clean => Cells(n.objectEnd, n.tableEnd) \subseteq done.below
  /\ EstimateWithinBounds(n, EstimateCCtxSize(p, static))

\* What a frame's reservations come to in a workspace that is large enough.
LEMMA ReservedIsReady ==
  ASSUME NEW static \in BOOLEAN, NEW w, Usable(w, static), NEW p \in Profiles,
         SizeOf(w) >= EstimateCCtxSize(p, static),
         NEW fresh, NEW restart \in BOOLEAN, NEW clean \in BOOLEAN,
         restart \/ Cells(w.objectEnd, w.tableValidEnd) \subseteq fresh
  PROVE  FitFor(Reserved(p, Whole(w, static), fresh, restart, clean), w, static, p, clean)
<1> DEFINE as    == ObjectAreas(w.workspace, static)
           acc   == [ws |-> w, areas |-> as, missed |-> FALSE]
           c     == Restarted(Clear(w), restart)
           acc1  == [ws |-> c, areas |-> as, missed |-> FALSE]
           t     == ServeAll(acc1, TableRequests(p))
           k0    == IF restart THEN {} ELSE fresh
           acc2  == IF clean THEN [t EXCEPT !.ws = CleanTables(@)] ELSE t
           k     == IF clean THEN k0 \cup ToClean(t.ws) ELSE k0
           g     == ServeAll(acc2, MatchStateRequests(p) \o BlockRequests(p))
           done  == Reserved(p, acc, fresh, restart, clean)
           o     == ObjBytes(static)
           tb    == TableBytes(p)
           eb    == MatchBytes(p) + BlockBytes(p)
           up    == TablesFrom(w, static)
           down  == InitialAllocStart(w)
<1>1. done.got = g /\ done.below = k \ Others(g.areas)
  <2>1. [acc EXCEPT !.ws = c] = acc1
    <3>1. acc = [ws |-> acc.ws, areas |-> acc.areas, missed |-> acc.missed]
          /\ acc.areas = as /\ acc.missed = FALSE
      OBVIOUS
    <3> HIDE DEF acc
    <3>2. QED
      BY <3>1, WsReplaced
  <2>2. done = WithTables(p, t, k0, clean)
    BY <2>1 DEF Reserved
  <2> HIDE DEF t, c, acc
  <2>3. CASE clean
    BY <2>2, <2>3 DEF WithTables, WithBlocks
  <2>4. CASE ~clean
    BY <2>2, <2>4 DEF WithTables, WithBlocks
  <2>5. QED
    BY <2>3, <2>4
<1>2. /\ w \in Workspace /\ o \in Nat /\ w.workspace \in Nat /\ w.workspaceEnd \in Nat
      /\ w.workspace + o \in Nat
  BY ObjBytesNat DEF Usable, Based, Workspace
<1>3. /\ up \in Nat /\ w.workspace + o <= up /\ up < w.workspace + o + Alignment
      /\ down \in Nat /\ down <= w.workspaceEnd /\ w.workspaceEnd < down + Alignment
  <2> HIDE DEF o
  <2>1. QED
    BY <1>2, Rounding DEF InitialAllocStart, TablesFrom, o
<1>4. /\ EstimateCCtxSize(p, static) = o + tb + eb + 2 * Alignment
      /\ tb \in Nat /\ eb \in Nat
  <2>1. /\ EstimateCCtxSize(p, static) = o + tb + MatchBytes(p) + BlockBytes(p) + 2 * Alignment
        /\ tb \in Nat /\ MatchBytes(p) \in Nat /\ BlockBytes(p) \in Nat
    BY EstimateIs DEF SlackSpaceRequired
  <2> HIDE DEF o, tb
  <2>2. QED
    BY <2>1, <1>2, AlignmentAssumption
<1>5. w.workspaceEnd - w.workspace >= o + tb + eb + 2 * Alignment
  BY <1>4 DEF SizeOf
<1> HIDE DEF o, tb, eb, up, down
<1>6. up + tb + eb <= down /\ up + tb <= down /\ up <= down
  BY <1>2, <1>3, <1>4, <1>5, AlignmentAssumption
<1>7. /\ Cleared(c, static)
      /\ c.workspace = w.workspace /\ c.workspaceEnd = w.workspaceEnd
      /\ c.objectEnd = w.objectEnd
      /\ c.tableValidEnd = IF restart THEN w.objectEnd ELSE w.tableValidEnd
  BY RestartedIsCleared
<1> HIDE DEF c
<1>8. Cells(c.objectEnd, c.tableValidEnd) \subseteq k0
  <2>1. CASE restart
    BY <2>1, <1>2, <1>7 DEF Cells, Workspace
  <2>2. CASE ~restart
    BY <2>2, <1>7
  <2>3. QED
    BY <2>1, <2>2
<1>9. TablesFrom(c, static) = up /\ InitialAllocStart(c) = down
  BY <1>7 DEF TablesFrom, InitialAllocStart, up, down
<1>10. /\ t = [ws |-> t.ws, areas |-> t.areas, missed |-> t.missed]
       /\ Good(t)
       /\ t.ws.workspace = w.workspace /\ t.ws.workspaceEnd = w.workspaceEnd
       /\ t.ws.objectEnd = up /\ t.ws.tableEnd = up + tb
       /\ t.ws.allocStart = down /\ t.ws.phase = InitOnce
       /\ ObjectsOf(t.areas) = as
       /\ Cells(t.ws.objectEnd, t.ws.tableValidEnd) \subseteq k0
  <2>1. TablesFrom(c, static) + TableBytes(p) <= InitialAllocStart(c)
    BY <1>6, <1>9 DEF tb
  <2>2. acc1 = [ws |-> c, areas |-> ObjectAreas(c.workspace, static), missed |-> FALSE]
    BY <1>7
  <2> HIDE DEF acc1
  <2>3. /\ t = [ws |-> t.ws, areas |-> t.areas, missed |-> t.missed]
        /\ Good(t)
        /\ t.ws.workspace = c.workspace /\ t.ws.workspaceEnd = c.workspaceEnd
        /\ t.ws.objectEnd = TablesFrom(c, static)
        /\ t.ws.tableEnd = TablesFrom(c, static) + TableBytes(p)
        /\ t.ws.allocStart = InitialAllocStart(c)
        /\ t.ws.phase = InitOnce
        /\ ObjectsOf(t.areas) = ObjectAreas(c.workspace, static)
        /\ Cells(t.ws.objectEnd, t.ws.tableValidEnd) \subseteq Cells(c.objectEnd, c.tableValidEnd)
    BY <2>1, <2>2, <1>7, ServesTables
  <2> HIDE DEF t
  <2>4. QED
    BY <2>3, <1>7, <1>8, <1>9 DEF tb
<1> HIDE DEF t
<1>11. /\ Good(acc2)
       /\ acc2.ws.workspace = w.workspace /\ acc2.ws.workspaceEnd = w.workspaceEnd
       /\ acc2.ws.objectEnd = up /\ acc2.ws.tableEnd = up + tb
       /\ acc2.ws.allocStart = down /\ acc2.ws.phase = InitOnce
       /\ ObjectsOf(acc2.areas) = as
       /\ Cells(acc2.ws.objectEnd, acc2.ws.tableValidEnd) \subseteq k
       /\ clean => Cells(acc2.ws.objectEnd, acc2.ws.tableEnd) \subseteq k
  <2>1. CASE clean
    <3> DEFINE x == CleanTables(t.ws)
               valid == MAX(t.ws.tableValidEnd, t.ws.tableEnd)
    <3>1. acc2 = [ws |-> x, areas |-> t.areas, missed |-> t.missed]
      <4> HIDE DEF x
      <4>1. acc2 = [t EXCEPT !.ws = x]
        BY <2>1 DEF x
      <4>2. QED
        BY <4>1, <1>10
    <3>2. t.ws \in Workspace /\ InOrder(t.ws)
      BY <1>10 DEF Good, InOrder
    <3>3. /\ valid \in Nat /\ valid <= t.ws.allocStart
          /\ t.ws.tableEnd <= valid /\ t.ws.tableValidEnd <= valid
          /\ valid = t.ws.tableEnd \/ valid = t.ws.tableValidEnd
      BY <3>2 DEF MAX, Workspace, InOrder
    <3>4. x = [t.ws EXCEPT !.tableValidEnd = valid]
      BY DEF CleanTables, MarkTablesClean
    <3> HIDE DEF x, valid
    <3>5. /\ x \in Workspace /\ x.tableValidEnd = valid
          /\ x.workspace = t.ws.workspace /\ x.workspaceEnd = t.ws.workspaceEnd
          /\ x.objectEnd = t.ws.objectEnd /\ x.tableEnd = t.ws.tableEnd
          /\ x.allocStart = t.ws.allocStart /\ x.phase = t.ws.phase
      BY <3>2, <3>3, <3>4 DEF Workspace
    <3>6. InitialAllocStart(x) = InitialAllocStart(t.ws)
      BY <3>5 DEF InitialAllocStart
    <3>7. InOrder(x)
      BY <3>2, <3>3, <3>5, <3>6 DEF InOrder
    <3>8. Good(acc2)
      <4>1. \A a \in t.areas : Placed(x, a)
        BY <3>5, <3>6, <1>10 DEF Good, Placed
      <4> HIDE DEF acc2
      <4>2. QED
        BY <3>1, <3>7, <4>1, <1>10 DEF Good
    <3>9. t.ws.objectEnd \in Nat /\ t.ws.tableEnd \in Nat /\ t.ws.tableValidEnd \in Nat
      BY <3>2 DEF Workspace
    <3>10. Cells(x.objectEnd, x.tableEnd) \subseteq k
      <4>1. Cells(t.ws.objectEnd, t.ws.tableEnd)
              \subseteq Cells(t.ws.objectEnd, t.ws.tableValidEnd) \cup ToClean(t.ws)
        BY <3>9 DEF Cells, ToClean
      <4>2. QED
        BY <4>1, <2>1, <3>5, <1>10
    <3>11. Cells(x.objectEnd, x.tableValidEnd) \subseteq k
      <4>1. CASE valid = t.ws.tableEnd
        BY <4>1, <3>5, <3>10
      <4>2. CASE valid = t.ws.tableValidEnd
        BY <4>2, <2>1, <3>5, <1>10
      <4>3. QED
        BY <4>1, <4>2, <3>3
    <3> HIDE DEF acc2, k
    <3>12. QED
      BY <3>1, <3>5, <3>8, <3>10, <3>11, <1>10
  <2>2. CASE ~clean
    BY <2>2, <1>10
  <2>3. QED
    BY <2>1, <2>2
<1> HIDE DEF acc2, k
<1>12. FromEnd(acc2, g, eb, Buffers)
  <2>1. eb <= AvailableSpace(acc2.ws)
    BY <1>3, <1>4, <1>6, <1>11 DEF AvailableSpace
  <2>2. QED
    BY <2>1, <1>11, ServesFrame DEF eb
<1> HIDE DEF g
<1>13. /\ Good(g)
       /\ g.ws.workspace = w.workspace /\ g.ws.workspaceEnd = w.workspaceEnd
       /\ g.ws.objectEnd = up /\ g.ws.tableEnd = up + tb
       /\ g.ws.allocStart = down - eb
       /\ g.ws.tableValidEnd <= acc2.ws.tableValidEnd
       /\ ObjectsOf(g.areas) = as
  BY <1>11, <1>12 DEF FromEnd
<1>14. /\ g.ws \in Workspace /\ InOrder(g.ws) /\ acc2.ws.tableValidEnd \in Nat
  BY <1>11, <1>13 DEF Good, InOrder, Workspace
<1>15. Usable(g.ws, static)
  <2>1. g.ws.phase # Objects /\ 0 < g.ws.workspace
    BY <1>14 DEF InOrder, Objects, InitOnce
  <2>2. SizeOf(g.ws) >= ObjBytes(static) + SlackSpaceRequired
    BY <1>13 DEF Usable, Based, SizeOf
  <2>3. g.ws.objectEnd = AlignUp(g.ws.workspace + ObjBytes(static))
    BY <1>13 DEF up, TablesFrom
  <2>4. g.ws.tableValidEnd <= InitialAllocStart(g.ws)
    <3>1. InitialAllocStart(g.ws) = down
      BY <1>13 DEF InitialAllocStart, down
    <3>2. g.ws.tableValidEnd <= g.ws.allocStart /\ g.ws.allocStart <= InitialAllocStart(g.ws)
      BY <1>14 DEF InOrder
    <3>3. QED
      BY <3>1, <3>2, <1>3, <1>14 DEF Workspace
  <2>5. QED
    BY <2>1, <2>2, <2>3, <2>4, <1>14 DEF Usable, Based
<1>16. Cells(g.ws.objectEnd, g.ws.tableValidEnd) \subseteq k
  <2>1. Cells(g.ws.objectEnd, g.ws.tableValidEnd)
          \subseteq Cells(acc2.ws.objectEnd, acc2.ws.tableValidEnd)
    <3>1. g.ws.objectEnd = acc2.ws.objectEnd /\ g.ws.objectEnd \in Nat /\ g.ws.tableValidEnd \in Nat
      BY <1>11, <1>13, <1>14 DEF Workspace
    <3>2. QED
      BY <3>1, <1>13, <1>14 DEF Cells
  <2>2. QED
    BY <2>1, <1>11
<1>17. clean => Cells(g.ws.objectEnd, g.ws.tableEnd) \subseteq k
  BY <1>11, <1>13
<1>18. EstimateWithinBounds(g.ws, EstimateCCtxSize(p, static))
  <2>1. Used(g.ws) = (up + tb - w.workspace) + (w.workspaceEnd - (down - eb))
    BY <1>2, <1>3, <1>4, <1>13, <1>14 DEF Used, Workspace
  <2>2. QED
    BY <2>1, <1>2, <1>3, <1>4, AlignmentAssumption DEF EstimateWithinBounds, SlackSpaceRequired
<1>19. /\ Cells(g.ws.objectEnd, g.ws.tableValidEnd) \subseteq done.below
       /\ clean => Cells(g.ws.objectEnd, g.ws.tableEnd) \subseteq done.below
  <2> HIDE DEF done
  <2>1. QED
    BY <1>1, <1>13, <1>16, <1>17, OthersApart
<1> HIDE DEF done
<1>20. FitFor(done, w, static, p, clean)
  BY <1>1, <1>13, <1>15, <1>18, <1>19 DEF FitFor, as
<1>21. done = Reserved(p, Whole(w, static), fresh, restart, clean)
  BY DEF done, acc, as, Whole
<1>22. QED
  BY <1>20, <1>21

-----------------------------------------------------------------------------
(* The objects of a new workspace. *)

\* A workspace at at, of size bytes, of which used are objects, and nothing else.
Beginning(w, at, size, used) ==
  /\ w \in Workspace
  /\ w.workspace = at /\ w.workspaceEnd = at + size
  /\ w.objectEnd = at + used /\ w.tableEnd = at + used /\ w.tableValidEnd = at + used
  /\ w.phase = Objects

\* ZSTD_cwksp_init leaves a workspace in which nothing has been lent.
LEMMA InitWorkspaceBegins ==
  ASSUME NEW at \in Nat, NEW size \in Nat
  PROVE  Beginning(InitWorkspace(at, size), at, size, 0)
<1> DEFINE down == AlignDown(at + size)
           n == InitWorkspace(at, size)
<1>1. at + size \in Nat /\ down \in Nat
  <2>1. at + size \in Nat
    OBVIOUS
  <2>2. QED
    BY <2>1, Rounding
<1>2. MIN(Objects, InitOnce) = Objects /\ Objects \in Phases
  BY DEF MIN, Objects, InitOnce, Phases, Buffers
<1>3. n = [workspace |-> at, workspaceEnd |-> at + size,
           objectEnd |-> at, tableEnd |-> at, tableValidEnd |-> at,
           allocStart |-> down, initOnceStart |-> down,
           allocFailed |-> FALSE, oversizedDuration |-> 0, phase |-> Objects]
  <2> DEFINE w == [workspace |-> at, workspaceEnd |-> at + size,
                   objectEnd |-> at, tableEnd |-> at, tableValidEnd |-> at,
                   allocStart |-> at, initOnceStart |-> down,
                   allocFailed |-> FALSE, oversizedDuration |-> 0, phase |-> Objects]
  <2>1. /\ w.objectEnd = at /\ w.phase = Objects /\ InitialAllocStart(w) = down
    BY DEF InitialAllocStart
  <2>2. n = [w EXCEPT !.tableEnd = at, !.allocStart = down, !.allocFailed = FALSE, !.phase = Objects]
    BY <2>1, <1>2 DEF InitWorkspace, Clear
  <2>3. w \in Workspace
    BY <1>1, <1>2 DEF Workspace
  <2>4. QED
    BY <2>2
<1> HIDE DEF n, down, Phases
<1>4. n \in Workspace
  BY <1>1, <1>2, <1>3 DEF Workspace
<1>5. /\ n.workspace = at /\ n.workspaceEnd = at + size /\ n.objectEnd = at
      /\ n.tableEnd = at /\ n.tableValidEnd = at /\ n.phase = Objects
  BY <1>3
<1>6. at + 0 = at
  OBVIOUS
<1>7. Beginning(n, at, size, 0)
  BY <1>4, <1>5, <1>6 DEF Beginning
<1>8. QED
  BY <1>7 DEF n

\* A workspace at the beginning of which, and nowhere else, memory has been lent.
Started(acc, at, size, used) == Beginning(acc.ws, at, size, used) /\ acc.missed = FALSE

AsksForObject == [kind : {"object"}, bytes : Nat \ {0}]

\* What it means that n is acc with one more object, of the size bytes.
OneMore(acc, n, at, size, used, bytes) ==
  /\ Started(n, at, size, used + bytes)
  /\ n.areas = acc.areas \cup {Object(at + used, bytes)}
  /\ n = [ws |-> n.ws, areas |-> n.areas, missed |-> n.missed]

\* An object is lent just behind those before it.
LEMMA ServesObject ==
  ASSUME NEW acc, NEW at \in Nat \ {0}, NEW size \in Nat, NEW used \in Nat,
         Started(acc, at, size, used),
         NEW r \in AsksForObject, used + r.bytes <= size
  PROVE  OneMore(acc, Serve(acc, r), at, size, used, r.bytes)
<1> DEFINE w   == acc.ws
           bytes == r.bytes
           got == Reserve(w, r)
           n   == Serve(acc, r)
           end == at + used + bytes
           a   == [kind |-> "object", lo |-> got.ptr, hi |-> got.ptr + bytes]
<1>0. bytes \in Nat \ {0} /\ used + bytes <= size /\ r.kind = "object"
      /\ at + used \in Nat \ {0} /\ at + used + bytes > at + used
  BY DEF AsksForObject
<1>1. /\ w \in Workspace /\ w.workspace = at /\ w.workspaceEnd = at + size
      /\ w.objectEnd = at + used /\ w.tableEnd = at + used /\ w.tableValidEnd = at + used
      /\ w.phase = Objects
  BY DEF Started, Beginning
<1>2. w.objectEnd + bytes = end /\ end \in Nat /\ ~(end > w.workspaceEnd)
  BY <1>0, <1>1
<1>3. got = [ws |-> [w EXCEPT !.objectEnd = end, !.tableEnd = end, !.tableValidEnd = end],
             ptr |-> w.objectEnd]
  BY <1>0, <1>1, <1>2 DEF Reserve, ReserveObject
<1>4. /\ got.ws \in Workspace /\ got.ptr = at + used
      /\ got.ws.workspace = at /\ got.ws.workspaceEnd = at + size
      /\ got.ws.objectEnd = end /\ got.ws.tableEnd = end /\ got.ws.tableValidEnd = end
      /\ got.ws.phase = Objects
  <2> HIDE DEF end, got, Phases
  <2>1. got.ws = [w EXCEPT !.objectEnd = end, !.tableEnd = end, !.tableValidEnd = end]
        /\ got.ptr = w.objectEnd
    BY <1>3
  <2>2. got.ws \in Workspace
    BY <2>1, <1>1, <1>2 DEF Workspace
  <2>3. /\ got.ws.workspace = w.workspace /\ got.ws.workspaceEnd = w.workspaceEnd
        /\ got.ws.objectEnd = end /\ got.ws.tableEnd = end /\ got.ws.tableValidEnd = end
        /\ got.ws.phase = w.phase
    BY <2>1, <1>1 DEF Workspace
  <2>4. QED
    BY <2>1, <2>2, <2>3, <1>1
<1>5. n = Served(acc, r, got) /\ r.kind = "object" /\ LengthOf(r) = bytes /\ r.bytes = bytes
  BY <1>0 DEF Serve, LengthOf
<1> HIDE DEF got, n, bytes
<1>6. n = [ws |-> n.ws, areas |-> n.areas, missed |-> n.missed]
  <2>1. QED
    BY <1>5 DEF Served
<1>7. /\ n.ws = got.ws
      /\ n.areas = acc.areas \cup (IF a.lo # NULL /\ a.hi > a.lo THEN {a} ELSE {})
      /\ n.missed = (acc.missed \/ (got.ptr = NULL /\ r.bytes # 0))
  <2>1. QED
    BY <1>5, ServedIs
<1>8. a = Object(at + used, bytes) /\ a.lo # NULL /\ a.hi > a.lo
  BY <1>0, <1>4 DEF Object, NULL
<1>9. n.missed = FALSE
  <2>1. got.ptr # NULL
    BY <1>8
  <2>2. acc.missed = FALSE
    BY DEF Started
  <2>3. QED
    BY <2>1, <2>2, <1>7
<1>10. Beginning(n.ws, at, size, used + bytes)
  <2>1. end = at + (used + bytes)
    BY <1>0
  <2> HIDE DEF end
  <2>2. QED
    BY <2>1, <1>4, <1>7 DEF Beginning
<1>11. n.areas = acc.areas \cup {Object(at + used, bytes)}
  <2> HIDE DEF a
  <2>1. n.areas = acc.areas \cup {a}
    BY <1>7, <1>8
  <2>2. QED
    BY <2>1, <1>8
<1>12. QED
  BY <1>6, <1>9, <1>10, <1>11 DEF n, bytes, Started, OneMore

\* The three objects of a context are lent one behind the other.
LEMMA ServesObjects ==
  ASSUME NEW acc, NEW at \in Nat \ {0}, NEW size \in Nat, NEW used \in Nat,
         Started(acc, at, size, used), used + ObjBytes(FALSE) <= size
  PROVE  LET n == ServeAll(acc, ObjectRequests)
             first == at + used
         IN  /\ Started(n, at, size, used + ObjBytes(FALSE))
             /\ n.areas = acc.areas \cup
                  {Object(first, SizeofBlockState), Object(first + SizeofBlockState, SizeofBlockState),
                   Object(first + 2 * SizeofBlockState, TmpWorkspaceSize)}
             /\ n = [ws |-> n.ws, areas |-> n.areas, missed |-> n.missed]
<1> DEFINE s  == SizeofBlockState
           t  == TmpWorkspaceSize
           r1 == [kind |-> "object", bytes |-> s]
           r3 == [kind |-> "object", bytes |-> t]
           n1 == Serve(acc, r1)
           n2 == Serve(n1, r1)
           n  == Serve(n2, r3)
           first == at + used
<1>1. /\ s \in Nat \ {0} /\ t \in Nat \ {0} /\ ObjBytes(FALSE) = 2 * s + t
      /\ used + s <= size /\ (used + s) + s <= size /\ (used + 2 * s) + t <= size
      /\ used + s \in Nat /\ used + 2 * s \in Nat
  <2>1. s \in Nat \ {0} /\ t \in Nat \ {0}
    BY ContextSizesAssumption
  <2>2. ObjBytes(FALSE) = 2 * s + t
    BY <2>1 DEF ObjBytes
  <2>3. used + ((2 * s) + t) <= size /\ used \in Nat /\ size \in Nat
    BY <2>2
  <2> HIDE DEF s, t
  <2>4. /\ used + s <= size /\ (used + s) + s <= size /\ (used + 2 * s) + t <= size
        /\ used + s \in Nat /\ used + 2 * s \in Nat
    BY <2>1, <2>3
  <2>5. QED
    BY <2>1, <2>2, <2>4
<1>2. ServeAll(acc, ObjectRequests) = n
  BY ServeThree DEF ObjectRequests
<1>3. /\ r1 \in AsksForObject /\ r1.bytes = s
      /\ r3 \in AsksForObject /\ r3.bytes = t
  BY <1>1 DEF AsksForObject
<1> HIDE DEF s, t, r1, r3, n, n1, n2
<1>4. OneMore(acc, n1, at, size, used, s)
  BY <1>1, <1>3, ServesObject DEF n1
<1>5. (used + s) + s = used + 2 * s /\ at + (used + s) = first + s
      /\ at + (used + 2 * s) = first + 2 * s /\ (used + 2 * s) + t = used + (2 * s + t)
  BY <1>1
<1>6. OneMore(n1, n2, at, size, used + s, s)
  <2>1. Started(n1, at, size, used + s)
    BY <1>4 DEF OneMore
  <2>2. QED
    BY <2>1, <1>1, <1>3, ServesObject DEF n2
<1>7. OneMore(n2, n, at, size, used + 2 * s, t)
  <2>1. Started(n2, at, size, used + 2 * s)
    BY <1>5, <1>6 DEF OneMore
  <2>2. QED
    BY <2>1, <1>1, <1>3, ServesObject DEF n
<1>8. n.areas = acc.areas \cup {Object(first, s), Object(first + s, s), Object(first + 2 * s, t)}
  <2>1. n.areas = ((acc.areas \cup {Object(at + used, s)}) \cup {Object(at + (used + s), s)})
                     \cup {Object(at + (used + 2 * s), t)}
    BY <1>4, <1>6, <1>7 DEF OneMore
  <2>2. QED
    BY <2>1, <1>5
<1>9. /\ Started(n, at, size, used + ObjBytes(FALSE))
      /\ n = [ws |-> n.ws, areas |-> n.areas, missed |-> n.missed]
  BY <1>1, <1>5, <1>7 DEF OneMore
<1>10. QED
  BY <1>2, <1>8, <1>9 DEF s, t, r1, r3, n, n1, n2

\* The workspace of a context that is not static, when it is new.
LEMMA NewWorkspace ==
  ASSUME NEW at \in Nat \ {0}, NEW size \in Nat, ObjBytes(FALSE) <= size
  PROVE  LET n == ServeAll([ws |-> InitWorkspace(at, size), areas |-> {}, missed |-> FALSE],
                           ObjectRequests)
         IN  /\ Beginning(n.ws, at, size, ObjBytes(FALSE))
             /\ n = [ws |-> n.ws, areas |-> ObjectAreas(at, FALSE), missed |-> FALSE]
<1> DEFINE acc == [ws |-> InitWorkspace(at, size), areas |-> {}, missed |-> FALSE]
           n   == ServeAll(acc, ObjectRequests)
<1>1. Started(acc, at, size, 0) /\ acc.areas = {}
  BY InitWorkspaceBegins DEF Started
<1>2. 0 + ObjBytes(FALSE) = ObjBytes(FALSE) /\ at + 0 = at
  BY ContextSizesAssumption DEF ObjBytes
<1> HIDE DEF acc
<1>3. /\ Started(n, at, size, 0 + ObjBytes(FALSE))
      /\ n.areas = acc.areas \cup
           {Object(at + 0, SizeofBlockState), Object(at + 0 + SizeofBlockState, SizeofBlockState),
            Object(at + 0 + 2 * SizeofBlockState, TmpWorkspaceSize)}
      /\ n = [ws |-> n.ws, areas |-> n.areas, missed |-> n.missed]
  BY <1>1, <1>2, ServesObjects
<1> HIDE DEF n
<1>4. n.areas = ObjectAreas(at, FALSE)
  BY <1>1, <1>2, <1>3 DEF ObjectAreas
<1>5. Beginning(n.ws, at, size, ObjBytes(FALSE)) /\ n.missed = FALSE
  BY <1>2, <1>3 DEF Started
<1>6. n = [ws |-> n.ws, areas |-> ObjectAreas(at, FALSE), missed |-> FALSE]
  BY <1>3, <1>4, <1>5
<1>7. QED
  BY <1>5, <1>6 DEF n, acc

\* What ZSTD_initStaticCCtx reserves.
StaticRequests == <<[kind |-> "object", bytes |-> SizeofCCtx]>> \o ObjectRequests

\* The workspace of a static context: the context itself comes first.
LEMMA NewStatic ==
  ASSUME NEW at \in Nat \ {0}, NEW size \in Nat, ObjBytes(TRUE) <= size
  PROVE  LET n == ServeAll([ws |-> InitWorkspace(at, size), areas |-> {}, missed |-> FALSE],
                           StaticRequests)
         IN  /\ Beginning(n.ws, at, size, ObjBytes(TRUE))
             /\ n = [ws |-> n.ws, areas |-> ObjectAreas(at, TRUE), missed |-> FALSE]
<1> DEFINE acc == [ws |-> InitWorkspace(at, size), areas |-> {}, missed |-> FALSE]
           r   == [kind |-> "object", bytes |-> SizeofCCtx]
           one == <<r>>
           rs  == ObjectRequests
           m   == Serve(acc, r)
           n   == ServeAll(acc, one \o rs)
<1>1. SizeofCCtx \in Nat \ {0} /\ ObjBytes(TRUE) = SizeofCCtx + ObjBytes(FALSE)
      /\ 0 + SizeofCCtx <= size /\ 0 + SizeofCCtx = SizeofCCtx /\ at + 0 = at
      /\ SizeofCCtx + ObjBytes(FALSE) <= size
  BY ContextSizesAssumption DEF ObjBytes
<1>2. one \in Seq(AsksForObject) /\ rs \in Seq(AsksForObject)
      /\ r \in AsksForObject /\ r.bytes = SizeofCCtx
  BY ContextSizesAssumption DEF ObjectRequests, AsksForObject
<1>3. ServeAll(acc, one) = m
  BY ServeOne
<1>4. Started(acc, at, size, 0) /\ acc.areas = {}
  BY InitWorkspaceBegins DEF Started
<1> HIDE DEF acc, one, rs, r, m, n
<1>5. n = ServeAll(m, rs)
  BY <1>2, <1>3, ServeThen DEF n
<1>6. OneMore(acc, m, at, size, 0, SizeofCCtx)
  BY <1>1, <1>2, <1>4, ServesObject DEF m
<1>7. /\ Started(n, at, size, SizeofCCtx + ObjBytes(FALSE))
      /\ n.areas = m.areas \cup
           {Object(at + SizeofCCtx, SizeofBlockState),
            Object(at + SizeofCCtx + SizeofBlockState, SizeofBlockState),
            Object(at + SizeofCCtx + 2 * SizeofBlockState, TmpWorkspaceSize)}
      /\ n = [ws |-> n.ws, areas |-> n.areas, missed |-> n.missed]
  <2>1. Started(m, at, size, SizeofCCtx)
    BY <1>1, <1>6 DEF OneMore
  <2>2. SizeofCCtx \in Nat /\ n = ServeAll(m, ObjectRequests)
    BY <1>1, <1>5 DEF rs
  <2> DEFINE used == SizeofCCtx
  <2> HIDE DEF used
  <2>3. /\ used \in Nat /\ Started(m, at, size, used) /\ used + ObjBytes(FALSE) <= size
    BY <2>1, <2>2, <1>1 DEF used
  <2>4. /\ Started(n, at, size, used + ObjBytes(FALSE))
        /\ n.areas = m.areas \cup
             {Object(at + used, SizeofBlockState),
              Object(at + used + SizeofBlockState, SizeofBlockState),
              Object(at + used + 2 * SizeofBlockState, TmpWorkspaceSize)}
        /\ n = [ws |-> n.ws, areas |-> n.areas, missed |-> n.missed]
    BY <2>2, <2>3, ServesObjects
  <2>5. QED
    BY <2>4 DEF used
<1>8. n.areas = ObjectAreas(at, TRUE)
  <2>1. m.areas = {Object(at, SizeofCCtx)}
    BY <1>1, <1>4, <1>6 DEF OneMore
  <2>2. QED
    BY <2>1, <1>7 DEF ObjectAreas
<1>9. Beginning(n.ws, at, size, ObjBytes(TRUE)) /\ n.missed = FALSE
  BY <1>1, <1>7 DEF Started
<1>10. n = [ws |-> n.ws, areas |-> ObjectAreas(at, TRUE), missed |-> FALSE]
  BY <1>7, <1>8, <1>9
<1>11. QED
  BY <1>9, <1>10 DEF n, acc, one, rs, r, StaticRequests

\* A new workspace can be used, and none of its cells holds anything.
LEMMA BeginningIsUsable ==
  ASSUME NEW static \in BOOLEAN, NEW at \in Nat \ {0}, NEW size \in Nat,
         ObjBytes(static) + SlackSpaceRequired <= size,
         NEW w, Beginning(w, at, size, ObjBytes(static))
  PROVE  Usable(w, static) /\ SizeOf(w) = size /\ w.workspace = at
         /\ Cells(w.objectEnd, w.tableValidEnd) = {}
<1> DEFINE o == ObjBytes(static)
           down == AlignDown(at + size)
<1>1. o \in Nat /\ at + size \in Nat
  BY ObjBytesNat
<1>2. down \in Nat /\ at + size < down + Alignment
  <2> DEFINE e == at + size
  <2>1. e \in Nat
    BY <1>1
  <2> HIDE DEF e
  <2>2. AlignDown(e) \in Nat /\ e < AlignDown(e) + Alignment
    BY <2>1, Rounding
  <2>3. QED
    BY <2>2 DEF e
<1>3. InitialAllocStart(w) = down
  BY DEF Beginning, InitialAllocStart
<1> HIDE DEF o, down
<1>4. at + o <= down
  BY <1>1, <1>2, AlignmentAssumption DEF SlackSpaceRequired, o
<1>5. /\ w \in Workspace /\ w.workspace = at /\ w.workspaceEnd = at + size
      /\ w.objectEnd = at + o /\ w.tableValidEnd = at + o /\ w.phase = Objects
  BY DEF Beginning, o
<1>6. SizeOf(w) = size
  BY <1>5 DEF SizeOf
<1>7. Cells(w.objectEnd, w.tableValidEnd) = {}
  <2>1. at + o \in Nat
    BY <1>1
  <2> DEFINE e == at + o
  <2> HIDE DEF e
  <2>2. e .. e - 1 = {}
    BY <2>1 DEF e
  <2>3. QED
    BY <2>2, <1>5 DEF Cells, e
<1>8. Based(w, static)
  <2>1. ObjBytes(static) + SlackSpaceRequired <= SizeOf(w)
    BY <1>6
  <2>2. w.tableValidEnd <= at + o
    BY <1>1, <1>5
  <2>3. QED
    BY <2>1, <2>2, <1>1, <1>5, <1>6, AlignmentAssumption DEF Based, o, SlackSpaceRequired
<1>9. QED
  BY <1>3, <1>4, <1>5, <1>6, <1>7, <1>8 DEF Usable


(***************************************************************************)
(* The inductive invariant.                                                *)
(***************************************************************************)
Outcomes == {"none", "ready", "short", "refused", "nomem"}

CtxTypeOK ==
  /\ cctx \in [alive : BOOLEAN, static : BOOLEAN, initialized : BOOLEAN, dctx : BOOLEAN,
               ws : Workspace]
  /\ last \in [how : Outcomes, needed : Nat]

\* Where there is no context nothing of one is left.
AbsentInv == ~cctx.alive => cctx = NoContext /\ areas = {} /\ last = NoReset

\* A context is the driver's, with a context for decompression beside it, or is
\* static, and then it has always a workspace; or neither.
OwnerInv ==
  /\ cctx.dctx => ~cctx.static
  /\ cctx.static => cctx.ws # NoWorkspace

\* A workspace that a context has can be used, whatever the last reset came to:
\* its objects are still those it began with, and of the cells up to
\* tableValidEnd it is known that they hold values below the next index.
WorkspaceInv ==
  /\ cctx.ws # NoWorkspace =>
       Usable(cctx.ws, cctx.static)
       /\ ObjectsOf(areas) = ObjectAreas(cctx.ws.workspace, cctx.static)
  /\ Cells(cctx.ws.objectEnd, cctx.ws.tableValidEnd) \subseteq below

\* What has been reserved for a frame is in order, every cell of its tables is
\* known, and the estimate was right.
FrameInv ==
  /\ last.how # "short"
  /\ last.how = "ready" =>
       /\ cctx.ws # NoWorkspace
       /\ Good([ws |-> cctx.ws, areas |-> areas, missed |-> FALSE])
       /\ Cells(cctx.ws.objectEnd, cctx.ws.tableEnd) \subseteq below
       /\ EstimateWithinBounds(cctx.ws, last.needed)

CtxInv ==
  /\ CtxTypeOK
  /\ AbsentInv
  /\ OwnerInv
  /\ WorkspaceInv
  /\ FrameInv
  /\ NothingLeaks

(***************************************************************************)
(* What a reset comes to.                                                  *)
(***************************************************************************)
\* What is allocated for a context.
Owned(c) ==
  (IF c.alive /\ ~c.static THEN {Mem("cctx")} ELSE {})
  \cup (IF c.dctx THEN {Mem("dctx")} ELSE {})
  \cup (IF c.ws # NoWorkspace /\ ~c.static THEN {MemAt("workspace", c.ws.workspace)} ELSE {})

\* What a frame is given after a successful reset.
Ready(r, clean) ==
  LET w == r.ctx.ws IN
  /\ w # NoWorkspace
  /\ Good([ws |-> w, areas |-> r.areas, missed |-> FALSE])
  /\ clean => Cells(w.objectEnd, w.tableEnd) \subseteq r.below
  /\ EstimateWithinBounds(w, r.last.needed)

\* The invariant for the context after a reset; of the tables it speaks only where
\* they have been cleaned.
Outcome(r, clean) ==
  LET w == r.ctx.ws IN
  /\ r.ctx \in [alive : BOOLEAN, static : BOOLEAN, initialized : BOOLEAN, dctx : BOOLEAN,
                ws : Workspace]
  /\ r.ctx.alive /\ r.ctx.static = cctx.static /\ r.ctx.dctx = cctx.dctx
  /\ r.last \in [how : Outcomes, needed : Nat]
  /\ r.last.how # "short"
  /\ r.ctx.static => w # NoWorkspace
  /\ w # NoWorkspace =>
       Usable(w, r.ctx.static) /\ ObjectsOf(r.areas) = ObjectAreas(w.workspace, r.ctx.static)
  /\ Cells(w.objectEnd, w.tableValidEnd) \subseteq r.below
  /\ r.last.how = "ready" => Ready(r, clean)
  /\ r.heap = Owned(r.ctx)

\* The counter of ZSTD_cwksp_bump_oversized_duration is all that changes.
LEMMA BumpKeeps ==
  ASSUME NEW w \in Workspace
  PROVE  LET b == BumpOversizedDuration(w, 0) IN
         /\ b \in Workspace
         /\ b.workspace = w.workspace /\ b.workspaceEnd = w.workspaceEnd
         /\ b.objectEnd = w.objectEnd /\ b.tableValidEnd = w.tableValidEnd
         /\ b.phase = w.phase
<1> DEFINE d == IF CheckTooLarge(w, 0) THEN MIN(w.oversizedDuration + 1, MaxDuration + 1) ELSE 0
           b == BumpOversizedDuration(w, 0)
<1>1. d \in Nat
  BY TooLargeAssumption DEF MIN, Workspace
<1>2. b = [w EXCEPT !.oversizedDuration = d]
  BY DEF BumpOversizedDuration
<1> HIDE DEF d, b, Phases
<1>3. b \in Workspace
  BY <1>1, <1>2 DEF Workspace
<1>4. QED
  BY <1>2, <1>3 DEF Workspace, b

\* A workspace remains usable when its counter changes.
LEMMA BumpIsUsable ==
  ASSUME NEW static \in BOOLEAN, NEW w, Usable(w, static)
  PROVE  Usable(BumpOversizedDuration(w, 0), static)
<1> DEFINE b == BumpOversizedDuration(w, 0)
<1>1. w \in Workspace
  BY DEF Usable, Based
<1>2. /\ b \in Workspace
      /\ b.workspace = w.workspace /\ b.workspaceEnd = w.workspaceEnd
      /\ b.objectEnd = w.objectEnd /\ b.tableValidEnd = w.tableValidEnd
      /\ b.phase = w.phase
  BY <1>1, BumpKeeps
<1> HIDE DEF b
<1>3. SizeOf(b) = SizeOf(w) /\ InitialAllocStart(b) = InitialAllocStart(w)
  BY <1>2 DEF SizeOf, InitialAllocStart
<1>4. Usable(b, static)
  BY <1>2, <1>3 DEF Usable, Based
<1>5. QED
  BY <1>4 DEF b

\* No workspace is where nothing is.
LEMMA UsableIsSome ==
  ASSUME NEW static, NEW w, Usable(w, static)
  PROVE  w # NoWorkspace /\ w.workspace # NULL
BY DEF Usable, Based, NoWorkspace, NULL

\* Whenever everything is reserved in a workspace that is large enough, the reset
\* succeeds and the context is fit for the frame.
LEMMA ReservedOutcome ==
  ASSUME CtxTypeOK, OwnerInv, cctx.alive,
         NEW w, Usable(w, cctx.static), NEW p \in Profiles,
         SizeOf(w) >= EstimateCCtxSize(p, cctx.static),
         NEW fresh, NEW restart \in BOOLEAN, NEW clean \in BOOLEAN,
         restart \/ Cells(w.objectEnd, w.tableValidEnd) \subseteq fresh,
         NEW h,
         h = Owned([cctx EXCEPT !.ws = w])
  PROVE  Outcome(Reset(h, EstimateCCtxSize(p, cctx.static), FALSE,
                       Reserved(p, Whole(w, cctx.static), fresh, restart, clean)), clean)
<1> DEFINE needed == EstimateCCtxSize(p, cctx.static)
           done   == Reserved(p, Whole(w, cctx.static), fresh, restart, clean)
           n      == done.got.ws
           r      == Reset(h, needed, FALSE, done)
           C      == [alive : BOOLEAN, static : BOOLEAN, initialized : BOOLEAN, dctx : BOOLEAN,
                      ws : Workspace]
<1>1. cctx \in C /\ cctx.static \in BOOLEAN
  BY DEF CtxTypeOK
<1>2. /\ Good(done.got)
      /\ n.workspace = w.workspace /\ n.workspaceEnd = w.workspaceEnd
      /\ Usable(n, cctx.static)
      /\ ObjectsOf(done.got.areas) = ObjectAreas(w.workspace, cctx.static)
      /\ Cells(n.objectEnd, n.tableValidEnd) \subseteq done.below
      /\ clean => Cells(n.objectEnd, n.tableEnd) \subseteq done.below
      /\ EstimateWithinBounds(n, needed)
  <2>1. FitFor(done, w, cctx.static, p, clean)
    BY <1>1, ReservedIsReady
  <2> HIDE DEF done
  <2>2. QED
    BY <2>1 DEF FitFor
<1>3. needed \in Nat
  BY <1>1, EstimateIs
<1> HIDE DEF needed, done
<1>4. n \in Workspace /\ n # NoWorkspace /\ w # NoWorkspace
  BY <1>2, UsableIsSome DEF Usable, Based
<1>5. done.got.missed = FALSE
  BY <1>2 DEF Good
<1> DEFINE c == [cctx EXCEPT !.ws = n, !.initialized = TRUE]
           l == [how |-> "ready", needed |-> needed]
<1>6. r = [heap |-> h, ctx |-> c, areas |-> done.got.areas, below |-> done.below, last |-> l]
  <2>1. (IF FALSE \/ done.got.missed THEN "short" ELSE "ready") = "ready"
    BY <1>5
  <2>2. QED
    BY <2>1 DEF Reset
<1> HIDE DEF n, r, C
<1>7. /\ c.alive = cctx.alive /\ c.static = cctx.static /\ c.dctx = cctx.dctx /\ c.ws = n
      /\ c \in C
  BY <1>1, <1>4 DEF C
<1>8. /\ r.heap = h /\ r.ctx = c /\ r.areas = done.got.areas /\ r.below = done.below
      /\ r.last = l
  BY <1>6
<1>9. l \in [how : Outcomes, needed : Nat] /\ l.how = "ready" /\ l.needed = needed
  BY <1>3 DEF Outcomes
<1> HIDE DEF c, l
<1>10. Owned(c) = h
  <2> DEFINE o == [cctx EXCEPT !.ws = w]
  <2>1. o.alive = cctx.alive /\ o.static = cctx.static /\ o.dctx = cctx.dctx /\ o.ws = w
    BY <1>1 DEF C
  <2> HIDE DEF o
  <2>2. Owned(c) = Owned(o)
    BY <2>1, <1>2, <1>4, <1>7 DEF Owned
  <2>3. QED
    BY <2>2 DEF o
<1>11. Good([ws |-> n, areas |-> done.got.areas, missed |-> FALSE])
  BY <1>2 DEF Good, n
<1>12. Ready(r, clean)
  BY <1>2, <1>4, <1>7, <1>8, <1>9, <1>11 DEF Ready
<1>13. Outcome(r, clean)
  <2>1. /\ r.ctx \in C /\ r.ctx.alive /\ r.ctx.static = cctx.static /\ r.ctx.dctx = cctx.dctx
        /\ r.ctx.ws = n /\ r.heap = Owned(r.ctx)
    BY <1>7, <1>8, <1>10
  <2>2. /\ r.last \in [how : Outcomes, needed : Nat] /\ r.last.how # "short"
    BY <1>8, <1>9
  <2>3. Usable(n, r.ctx.static) /\ ObjectsOf(r.areas) = ObjectAreas(n.workspace, r.ctx.static)
    BY <2>1, <1>2, <1>8
  <2>4. Cells(n.objectEnd, n.tableValidEnd) \subseteq r.below
    BY <1>2, <1>8
  <2>5. QED
    BY <2>1, <2>2, <2>3, <2>4, <1>4, <1>12 DEF Outcome, C
<1>14. QED
  BY <1>13 DEF r, done, needed

\* Freeing the workspace leaves what a context without one owns.
LEMMA FreedIsOwned ==
  ASSUME WorkspaceInv, heap = Owned(cctx), ~cctx.static,
         NEW c, c.alive = cctx.alive, c.static = cctx.static, c.dctx = cctx.dctx,
         c.ws = NoWorkspace
  PROVE  FreeWorkspace(heap, cctx) = Owned(c)
<1> DEFINE m == MemAt("workspace", cctx.ws.workspace)
<1>1. cctx.ws # NoWorkspace => cctx.ws.workspace # NULL
  BY UsableIsSome DEF WorkspaceInv
<1>2. cctx.ws = NoWorkspace => cctx.ws.workspace = NULL
  BY DEF NoWorkspace
<1>3. m # Mem("cctx") /\ m # Mem("dctx")
  BY DEF Mem, MemAt
<1> HIDE DEF m
<1>4. CASE cctx.ws = NoWorkspace
  BY <1>2, <1>4 DEF FreeWorkspace, Owned
<1>5. CASE cctx.ws # NoWorkspace
  <2>1. FreeWorkspace(heap, cctx) = heap \ {m}
    BY <1>1, <1>5 DEF FreeWorkspace, m
  <2>2. Owned(cctx) = Owned(c) \cup {m}
    BY <1>5 DEF Owned, m
  <2>3. m \notin Owned(c)
    BY <1>3 DEF Owned
  <2>4. QED
    BY <2>1, <2>2, <2>3
<1>6. QED
  BY <1>4, <1>5

\* The context's workspace as a reset finds it.
LEMMA FoundWorkspace ==
  ASSUME CtxTypeOK, OwnerInv, WorkspaceInv
  PROVE  LET w == Bumped(cctx) IN
         /\ w \in Workspace
         /\ w.workspace = cctx.ws.workspace /\ SizeOf(w) = SizeOf(cctx.ws)
         /\ w.objectEnd = cctx.ws.objectEnd /\ w.tableValidEnd = cctx.ws.tableValidEnd
         /\ cctx.ws # NoWorkspace => Usable(w, cctx.static)
         /\ cctx.static => w = cctx.ws
<1> DEFINE w == Bumped(cctx)
           b == BumpOversizedDuration(cctx.ws, 0)
<1>1. cctx.ws \in Workspace /\ cctx.static \in BOOLEAN
  BY DEF CtxTypeOK
<1>2. cctx.ws # NoWorkspace => Usable(cctx.ws, cctx.static)
  BY DEF WorkspaceInv
<1>3. CASE cctx.static
  <2>1. w = cctx.ws
    BY <1>3 DEF Bumped
  <2> HIDE DEF w
  <2>2. QED
    BY <2>1, <1>1, <1>2 DEF w
<1>4. CASE ~cctx.static
  <2>1. w = b
    BY <1>4 DEF Bumped
  <2>2. /\ b \in Workspace
        /\ b.workspace = cctx.ws.workspace /\ b.workspaceEnd = cctx.ws.workspaceEnd
        /\ b.objectEnd = cctx.ws.objectEnd /\ b.tableValidEnd = cctx.ws.tableValidEnd
    BY <1>1, BumpKeeps
  <2>3. cctx.ws # NoWorkspace => Usable(b, cctx.static)
    BY <1>1, <1>2, BumpIsUsable
  <2> HIDE DEF w, b
  <2>4. SizeOf(b) = SizeOf(cctx.ws)
    BY <2>2 DEF SizeOf
  <2>5. QED
    BY <2>1, <2>2, <2>3, <2>4, <1>4 DEF w
<1>5. QED
  BY <1>3, <1>4

\* However a reset ends the context is left in order, and what it owns is what is
\* allocated.
LEMMA ResetOutcome ==
  ASSUME CtxInv, cctx.alive, NEW p \in Profiles, NEW at \in Starts \cup {NULL},
         NEW tooClose \in BOOLEAN, NEW clean \in BOOLEAN
  PROVE  Outcome(ResetCCtx(p, at, tooClose, clean), clean)
<1> DEFINE static == cctx.static
           needed == EstimateCCtxSize(p, static)
           w      == Bumped(cctx)
           r      == ResetCCtx(p, at, tooClose, clean)
           C      == [alive : BOOLEAN, static : BOOLEAN, initialized : BOOLEAN, dctx : BOOLEAN,
                      ws : Workspace]
<1>1. CtxTypeOK /\ OwnerInv /\ WorkspaceInv /\ heap = Owned(cctx)
  BY DEF CtxInv, NothingLeaks, Owned
<1>2. cctx \in C /\ static \in BOOLEAN /\ cctx.ws \in Workspace
  BY <1>1 DEF CtxTypeOK
<1>3. /\ w \in Workspace
      /\ w.workspace = cctx.ws.workspace /\ SizeOf(w) = SizeOf(cctx.ws)
      /\ w.objectEnd = cctx.ws.objectEnd /\ w.tableValidEnd = cctx.ws.tableValidEnd
      /\ cctx.ws # NoWorkspace => Usable(w, static)
      /\ static => w = cctx.ws
  BY <1>1, FoundWorkspace
<1>4. /\ needed \in Nat /\ SizeOf(w) \in Int
      /\ needed >= ObjBytes(static) + SlackSpaceRequired /\ ObjBytes(static) \in Nat \ {0}
      /\ SlackSpaceRequired \in Nat
  <2>1. SizeOf(w) \in Int
    BY <1>3 DEF SizeOf, Workspace
  <2>2. SlackSpaceRequired \in Nat
    BY AlignmentAssumption DEF SlackSpaceRequired
  <2>3. ObjBytes(static) \in Nat \ {0}
    BY <1>2, ObjBytesNat
  <2>4. /\ needed = ObjBytes(static) + TableBytes(p) + MatchBytes(p) + BlockBytes(p) + SlackSpaceRequired
        /\ TableBytes(p) \in Nat /\ MatchBytes(p) \in Nat /\ BlockBytes(p) \in Nat
    BY <1>2, EstimateIs
  <2> HIDE DEF needed
  <2>5. QED
    BY <2>1, <2>2, <2>3, <2>4
<1>5. /\ cctx.ws # NoWorkspace => ObjectsOf(areas) = ObjectAreas(cctx.ws.workspace, static)
      /\ Cells(w.objectEnd, w.tableValidEnd) \subseteq below
  BY <1>1, <1>3 DEF WorkspaceInv
<1>6. r = ResetWithin(p, at, tooClose, clean, needed, w)
  BY DEF ResetCCtx
<1>7. CASE ~ResizeNeeded(w, needed)
  <2>1. SizeOf(w) >= needed
    <3> HIDE DEF w, needed
    <3>1. ~(SizeOf(w) < needed)
      BY <1>7 DEF ResizeNeeded
    <3>2. QED
      BY <3>1, <1>4
  <2>2. cctx.ws # NoWorkspace
    <3>1. SUFFICES ASSUME cctx.ws = NoWorkspace PROVE FALSE
      OBVIOUS
    <3>2. SizeOf(cctx.ws) = 0
      BY <3>1 DEF SizeOf, NoWorkspace, NULL
    <3> HIDE DEF w, needed, static
    <3>3. QED
      BY <3>2, <2>1, <1>3, <1>4
  <2> DEFINE restart == tooClose \/ ~cctx.initialized
  <2>3. restart \in BOOLEAN
    BY <1>2
  <2>4. [ws |-> w, areas |-> ObjectsOf(areas), missed |-> FALSE] = Whole(w, static)
    BY <2>2, <1>3, <1>5 DEF Whole
  <2>5. r = Reset(heap, needed, FALSE, Reserved(p, Whole(w, static), below, restart, clean))
    BY <2>4, <1>6, <1>7 DEF ResetWithin
  <2>6. heap = Owned([cctx EXCEPT !.ws = w])
    <3> DEFINE o == [cctx EXCEPT !.ws = w]
    <3>1. o.alive = cctx.alive /\ o.static = cctx.static /\ o.dctx = cctx.dctx /\ o.ws = w
      BY <1>2
    <3> HIDE DEF o
    <3>2. w # NoWorkspace
      BY <2>2, <1>2, <1>3, UsableIsSome
    <3> HIDE DEF w
    <3>3. Owned(o) = Owned(cctx)
      BY <3>1, <3>2, <2>2, <1>3 DEF Owned
    <3>4. QED
      BY <3>3, <1>1 DEF o
  <2> HIDE DEF w, restart, r
  <2>7. Usable(w, static)
    BY <2>2, <1>3
  <2>8. restart \/ Cells(w.objectEnd, w.tableValidEnd) \subseteq below
    BY <1>5
  <2>9. Outcome(r, clean)
    BY <2>1, <2>3, <2>5, <2>6, <2>7, <2>8, <1>1, ReservedOutcome
  <2>10. QED
    BY <2>9 DEF r
<1>8. CASE ResizeNeeded(w, needed) /\ static
  <2>1. r = NotReset(heap, w, "refused", needed) /\ w = cctx.ws
    BY <1>3, <1>6, <1>8 DEF ResetWithin
  <2> HIDE DEF w, r, needed
  <2>2. /\ r.heap = heap /\ r.ctx = cctx /\ r.areas = areas /\ r.below = below
        /\ r.last = [how |-> "refused", needed |-> needed]
    BY <2>1, <1>2 DEF NotReset
  <2>3. r.last \in [how : Outcomes, needed : Nat] /\ r.last.how = "refused"
    BY <2>2, <1>4 DEF Outcomes
  <2>4. Outcome(r, clean)
    BY <2>2, <2>3, <1>1, <1>2, <1>8 DEF Outcome, OwnerInv, WorkspaceInv
  <2>5. QED
    BY <2>4 DEF r
<1>9. CASE ResizeNeeded(w, needed) /\ ~static /\ at = NULL
  <2>1. r = NotReset(FreeWorkspace(heap, cctx), NoWorkspace, "nomem", needed)
    BY <1>6, <1>9 DEF ResetWithin
  <2> DEFINE c == [cctx EXCEPT !.ws = NoWorkspace]
             l == [how |-> "nomem", needed |-> needed]
  <2>2. NoWorkspace \in Workspace
    BY DEF NoWorkspace, Workspace, NULL, Phases, Objects, Buffers
  <2>3. /\ r.heap = FreeWorkspace(heap, cctx) /\ r.ctx = c /\ r.below = below /\ r.last = l
    BY <2>1 DEF NotReset
  <2>4. /\ c \in C /\ c.alive = cctx.alive /\ c.static = cctx.static /\ c.dctx = cctx.dctx
        /\ c.ws = NoWorkspace
    BY <2>2, <1>2
  <2>5. l \in [how : Outcomes, needed : Nat] /\ l.how = "nomem"
    BY <1>4 DEF Outcomes
  <2>6. Cells(NoWorkspace.objectEnd, NoWorkspace.tableValidEnd) = {}
    BY DEF Cells, NoWorkspace, NULL
  <2> HIDE DEF c, l, r
  <2>7. FreeWorkspace(heap, cctx) = Owned(c)
    BY <2>4, <1>1, <1>9, FreedIsOwned
  <2>8. Outcome(r, clean)
    BY <2>3, <2>4, <2>5, <2>6, <2>7, <1>9 DEF Outcome
  <2>9. QED
    BY <2>8 DEF r
<1>10. CASE ResizeNeeded(w, needed) /\ ~static /\ at # NULL
  <2> DEFINE acc == ServeAll([ws |-> InitWorkspace(at, needed), areas |-> {}, missed |-> FALSE],
                             ObjectRequests)
             n   == acc.ws
             h   == FreeWorkspace(heap, cctx) \cup {MemAt("workspace", at)}
  <2>1. at \in Nat \ {0} /\ static = FALSE
    BY <1>2, <1>10, ContextSizesAssumption DEF NULL
  <2>2. ObjBytes(FALSE) <= needed /\ ObjBytes(FALSE) + SlackSpaceRequired <= needed
    <3> HIDE DEF needed
    <3>1. ObjBytes(static) <= needed /\ ObjBytes(static) + SlackSpaceRequired <= needed
      BY <1>4
    <3>2. QED
      BY <3>1, <2>1
  <2> HIDE DEF needed
  <2>3. /\ Beginning(n, at, needed, ObjBytes(FALSE))
        /\ acc = [ws |-> n, areas |-> ObjectAreas(at, FALSE), missed |-> FALSE]
    BY <2>1, <2>2, <1>4, NewWorkspace
  <2>4. r = Reset(h, needed, acc.missed, Reserved(p, acc, below, TRUE, clean))
    BY <1>6, <1>10 DEF ResetWithin, Replaced
  <2> HIDE DEF acc
  <2>5. acc.missed = FALSE
    BY <2>3
  <2> HIDE DEF n, r, h
  <2>6. /\ Usable(n, FALSE) /\ SizeOf(n) = needed /\ n.workspace = at
    BY <2>1, <2>2, <2>3, <1>4, BeginningIsUsable
  <2>7. acc = Whole(n, static)
    BY <2>1, <2>3, <2>6 DEF Whole
  <2>8. r = Reset(h, needed, FALSE, Reserved(p, Whole(n, static), below, TRUE, clean))
    BY <2>4, <2>5, <2>7
  <2>9. h = Owned([cctx EXCEPT !.ws = n])
    <3> DEFINE o == [cctx EXCEPT !.ws = n]
    <3>1. o.alive = cctx.alive /\ o.static = cctx.static /\ o.dctx = cctx.dctx /\ o.ws = n
      BY <1>2
    <3> DEFINE c == [cctx EXCEPT !.ws = NoWorkspace]
    <3>2. c.alive = cctx.alive /\ c.static = cctx.static /\ c.dctx = cctx.dctx
          /\ c.ws = NoWorkspace
      BY <1>2
    <3> HIDE DEF o, c
    <3>3. FreeWorkspace(heap, cctx) = Owned(c)
      BY <3>2, <1>1, <1>10, FreedIsOwned
    <3>4. n # NoWorkspace
      BY <2>6, UsableIsSome
    <3>5. Owned(o) = Owned(c) \cup {MemAt("workspace", at)}
      BY <3>1, <3>2, <3>4, <2>6, <1>10 DEF Owned
    <3>6. QED
      BY <3>3, <3>5 DEF h, o
  <2>10. Usable(n, static) /\ SizeOf(n) >= needed
    <3>1. Usable(n, static)
      <4> HIDE DEF static
      <4>1. QED
        BY <2>1, <2>6, Zenon
    <3>2. SizeOf(n) >= needed
      BY <2>6, <1>4 DEF needed
    <3>3. QED
      BY <3>1, <3>2
  <2>11. Outcome(r, clean)
    BY <2>8, <2>9, <2>10, <1>1, ReservedOutcome DEF needed
  <2>12. QED
    BY <2>11 DEF r
<1>11. QED
  BY <1>7, <1>8, <1>9, <1>10

\* The tables of a dictionary make all cells known.
LEMMA CopiedOutcome ==
  ASSUME NEW r, Outcome(r, FALSE),
         r = [heap |-> r.heap, ctx |-> r.ctx, areas |-> r.areas, below |-> r.below, last |-> r.last]
  PROVE  Outcome(Copied(r), TRUE)
<1> DEFINE C == [alive : BOOLEAN, static : BOOLEAN, initialized : BOOLEAN, dctx : BOOLEAN,
                 ws : Workspace]
           w == r.ctx.ws
<1>1. r.ctx \in C /\ w \in Workspace
  BY DEF Outcome
<1>2. CASE r.last.how # "ready"
  <2>1. Copied(r) = r
    BY <1>2 DEF Copied
  <2>2. Outcome(r, TRUE)
    BY <1>2 DEF Outcome
  <2>3. QED
    BY <2>1, <2>2
<1>3. CASE r.last.how = "ready"
  <2> DEFINE dirty == MarkTablesDirty(w)
             d     == MarkTablesClean(dirty)
             b     == Cells(dirty.objectEnd, dirty.tableEnd)
             c     == [r.ctx EXCEPT !.ws = d]
             n     == Copied(r)
  <2>1. /\ w # NoWorkspace
        /\ Good([ws |-> w, areas |-> r.areas, missed |-> FALSE])
        /\ EstimateWithinBounds(w, r.last.needed)
    BY <1>3 DEF Outcome, Ready
  <2>2. /\ w.phase >= InitOnce /\ w.objectEnd <= w.tableEnd
        /\ w.tableEnd <= w.allocStart /\ w.allocStart <= InitialAllocStart(w)
        /\ InOrder(w)
    BY <2>1 DEF Good, InOrder
  <2>3. dirty = [w EXCEPT !.tableValidEnd = w.objectEnd]
    BY DEF MarkTablesDirty
  <2>4. /\ dirty \in Workspace /\ dirty.objectEnd = w.objectEnd /\ dirty.tableEnd = w.tableEnd
        /\ dirty.tableValidEnd = w.objectEnd
    <3> HIDE DEF w, dirty, Phases
    <3>1. QED
      BY <2>3, <1>1 DEF Workspace
  <2>5. MAX(dirty.tableValidEnd, dirty.tableEnd) = w.tableEnd
    <3> HIDE DEF dirty
    <3>1. w.objectEnd \in Nat /\ w.tableEnd \in Nat
      BY <1>1 DEF Workspace
    <3>2. QED
      BY <3>1, <2>2, <2>4 DEF MAX
  <2>6. d = [w EXCEPT !.tableValidEnd = w.tableEnd]
    <3>1. d = [dirty EXCEPT !.tableValidEnd = w.tableEnd]
      BY <2>5 DEF MarkTablesClean
    <3> HIDE DEF w, dirty, d
    <3>2. QED
      BY <3>1, <2>3, <1>1 DEF Workspace
  <2> HIDE DEF w, d, Phases
  <2>7. /\ d \in Workspace
        /\ d.workspace = w.workspace /\ d.workspaceEnd = w.workspaceEnd
        /\ d.objectEnd = w.objectEnd /\ d.tableEnd = w.tableEnd /\ d.tableValidEnd = w.tableEnd
        /\ d.allocStart = w.allocStart /\ d.phase = w.phase
    BY <2>6, <1>1 DEF Workspace
  <2>8. InitialAllocStart(d) = InitialAllocStart(w) /\ SizeOf(d) = SizeOf(w) /\ Used(d) = Used(w)
    BY <2>7 DEF InitialAllocStart, SizeOf, Used
  <2>9. b = Cells(d.objectEnd, d.tableEnd)
    BY <2>4, <2>7
  <2>10. n = [heap |-> r.heap, ctx |-> c, areas |-> r.areas, below |-> b, last |-> r.last]
    <3>1. n = Overwritten(r, dirty)
      BY <1>3 DEF Copied, w
    <3> HIDE DEF dirty, n
    <3>2. QED
      BY <3>1 DEF Overwritten, d
  <2> HIDE DEF b, n, dirty
  <2>11. /\ c \in C /\ c.alive = r.ctx.alive /\ c.static = r.ctx.static /\ c.dctx = r.ctx.dctx
         /\ c.ws = d
    BY <1>1, <2>7
  <2> HIDE DEF c
  <2>12. /\ n.heap = r.heap /\ n.ctx = c /\ n.areas = r.areas /\ n.below = b /\ n.last = r.last
    BY <2>10
  <2>13. InOrder(d)
    <3>1. InitialAllocStart(w) \in Int /\ w.allocStart \in Nat /\ w.tableEnd \in Nat
      BY <1>1, AlignmentAssumption DEF InitialAllocStart, AlignDown, Workspace
    <3>2. QED
      BY <3>1, <2>2, <2>7, <2>8 DEF InOrder
  <2>14. Good([ws |-> d, areas |-> r.areas, missed |-> FALSE])
    <3>1. /\ r.areas \subseteq Areas /\ Apart(r.areas)
          /\ \A a \in r.areas : Placed(w, a)
      BY <2>1 DEF Good
    <3>2. ASSUME NEW a \in r.areas, Placed(w, a) PROVE Placed(d, a)
      BY <3>2, <2>7, <2>8 DEF Placed
    <3>3. QED
      BY <3>1, <3>2, <2>13 DEF Good
  <2>15. Usable(d, r.ctx.static)
    <3>1. Usable(w, r.ctx.static)
      BY <2>1 DEF Outcome, w
    <3>2. d.tableValidEnd <= InitialAllocStart(d)
      <4>1. InitialAllocStart(w) \in Int /\ w.allocStart \in Nat /\ w.tableEnd \in Nat
        BY <1>1, AlignmentAssumption DEF InitialAllocStart, AlignDown, Workspace
      <4>2. QED
        BY <4>1, <2>2, <2>7, <2>8
    <3>3. w.phase # Objects
      BY <2>2 DEF Objects, InitOnce
    <3>4. QED
      BY <3>1, <3>2, <3>3, <2>7, <2>8 DEF Usable, Based
  <2>16. d # NoWorkspace
    BY <2>15, UsableIsSome
  <2>17. EstimateWithinBounds(d, r.last.needed)
    BY <2>1, <2>8 DEF EstimateWithinBounds
  <2>18. Ready(n, TRUE)
    BY <2>9, <2>11, <2>12, <2>14, <2>16, <2>17 DEF Ready
  <2>19. Owned(c) = Owned(r.ctx)
    BY <2>1, <2>7, <2>11, <2>16 DEF Owned, w
  <2>20. ObjectsOf(r.areas) = ObjectAreas(d.workspace, r.ctx.static)
    BY <2>1, <2>7 DEF Outcome, w
  <2>21. Cells(d.objectEnd, d.tableValidEnd) = b
    BY <2>7, <2>9
  <2>22. /\ r.ctx.alive /\ r.ctx.static = cctx.static /\ r.ctx.dctx = cctx.dctx
         /\ r.last \in [how : Outcomes, needed : Nat] /\ r.last.how # "short"
         /\ r.heap = Owned(r.ctx)
    BY DEF Outcome
  <2>23. Outcome(n, TRUE)
    BY <2>11, <2>12, <2>15, <2>16, <2>18, <2>19, <2>20, <2>21, <2>22 DEF Outcome
  <2>24. QED
    BY <2>23 DEF n
<1>4. QED
  BY <1>2, <1>3

\* What a reset returns has all the fields that are settled.
FieldsOnly(r) ==
  r = [heap |-> r.heap, ctx |-> r.ctx, areas |-> r.areas, below |-> r.below, last |-> r.last]

LEMMA ResetIsRecord ==
  ASSUME NEW p, NEW at, NEW tooClose, NEW clean
  PROVE  LET r == ResetCCtx(p, at, tooClose, clean) IN
         r = [heap |-> r.heap, ctx |-> r.ctx, areas |-> r.areas, below |-> r.below, last |-> r.last]
<1>1. ASSUME NEW h, NEW needed, NEW missed, NEW done
      PROVE  FieldsOnly(Reset(h, needed, missed, done))
  BY DEF Reset, FieldsOnly
<1>2. ASSUME NEW h, NEW w, NEW how, NEW needed
      PROVE  FieldsOnly(NotReset(h, w, how, needed))
  BY DEF NotReset, FieldsOnly
<1>3. ASSUME NEW needed, NEW acc
      PROVE  FieldsOnly(Replaced(p, needed, at, clean, acc))
  BY <1>1 DEF Replaced
<1>4. ASSUME NEW needed, NEW w
      PROVE  FieldsOnly(ResetWithin(p, at, tooClose, clean, needed, w))
  <2>1. CASE ~ResizeNeeded(w, needed)
    BY <1>1, <2>1 DEF ResetWithin
  <2>2. CASE ResizeNeeded(w, needed) /\ (cctx.static \/ at = NULL)
    BY <1>2, <2>2 DEF ResetWithin
  <2>3. CASE ResizeNeeded(w, needed) /\ ~(cctx.static \/ at = NULL)
    BY <1>3, <2>3 DEF ResetWithin
  <2>4. QED
    BY <2>1, <2>2, <2>3
<1>5. FieldsOnly(ResetCCtx(p, at, tooClose, clean))
  BY <1>4 DEF ResetCCtx
<1>6. QED
  BY <1>5 DEF FieldsOnly

\* A context that has come out of a reset satisfies the invariant.
LEMMA SettledIsSound ==
  ASSUME CtxInv, cctx.alive, NEW r, Outcome(r, TRUE), Settle(r)
  PROVE  CtxInv'
<1>1. /\ heap' = r.heap /\ cctx' = r.ctx /\ areas' = r.areas /\ below' = r.below /\ last' = r.last
  BY DEF Settle
<1>2. CtxTypeOK'
  BY <1>1 DEF Outcome, CtxTypeOK
<1>3. AbsentInv'
  BY <1>1 DEF Outcome, AbsentInv
<1>4. OwnerInv'
  BY <1>1 DEF Outcome, OwnerInv, CtxInv
<1>5. WorkspaceInv'
  BY <1>1 DEF Outcome, WorkspaceInv
<1>6. FrameInv'
  BY <1>1 DEF Outcome, Ready, FrameInv
<1>7. NothingLeaks'
  BY <1>1 DEF Outcome, Owned, NothingLeaks
<1>8. QED
  BY <1>2, <1>3, <1>4, <1>5, <1>6, <1>7 DEF CtxInv

(***************************************************************************)
(* The theorems.                                                           *)
(***************************************************************************)
\* Where there is no context nothing is allocated and there is no workspace.
LEMMA AbsentIsEmpty ==
  ASSUME CtxInv, ~cctx.alive
  PROVE  cctx = NoContext /\ areas = {} /\ last = NoReset /\ heap = {}
<1>1. cctx = NoContext /\ areas = {} /\ last = NoReset
  BY DEF CtxInv, AbsentInv
<1>2. heap = {}
  BY <1>1 DEF CtxInv, NothingLeaks, NoContext
<1>3. QED
  BY <1>1, <1>2

\* With no context and no reset there is nothing to be said but that nothing leaks.
LEMMA AbsentIsSound ==
  ASSUME cctx' = NoContext, areas' = {}, last' = NoReset, heap' = {}
  PROVE  CtxInv'
<1>1. NoWorkspace \in Workspace
  BY DEF NoWorkspace, Workspace, NULL, Phases, Objects, Buffers
<1>2. Cells(NoWorkspace.objectEnd, NoWorkspace.tableValidEnd) = {}
  BY DEF Cells, NoWorkspace, NULL
<1>3. CtxTypeOK' /\ AbsentInv' /\ OwnerInv'
  BY <1>1 DEF CtxTypeOK, AbsentInv, OwnerInv, NoContext, NoReset, Outcomes
<1>4. WorkspaceInv' /\ FrameInv' /\ NothingLeaks'
  BY <1>2 DEF WorkspaceInv, FrameInv, NothingLeaks, NoContext, NoReset
<1>5. QED
  BY <1>3, <1>4 DEF CtxInv

\* The invariant holds of every reachable state, whatever the sizes and profiles.
THEOREM ContextInvariant == CtxSpec => []CtxInv
<1>1. CtxInit => CtxInv
  <2>1. SUFFICES ASSUME CtxInit PROVE CtxInv
    OBVIOUS
  <2>2. NoWorkspace \in Workspace
    BY DEF NoWorkspace, Workspace, NULL, Phases, Objects, Buffers
  <2>3. Cells(NoWorkspace.objectEnd, NoWorkspace.tableValidEnd) = {}
    BY DEF Cells, NoWorkspace, NULL
  <2>4. CtxTypeOK /\ AbsentInv /\ OwnerInv
    BY <2>1, <2>2 DEF CtxInit, CtxTypeOK, AbsentInv, OwnerInv, NoContext, NoReset, Outcomes
  <2>5. WorkspaceInv /\ FrameInv /\ NothingLeaks
    BY <2>1, <2>3 DEF CtxInit, WorkspaceInv, FrameInv, NothingLeaks, NoContext, NoReset
  <2>6. QED
    BY <2>4, <2>5 DEF CtxInv
<1>2. CtxInv /\ [CtxNext]_ctxVars => CtxInv'
  <2>1. SUFFICES ASSUME CtxInv, [CtxNext]_ctxVars PROVE CtxInv'
    OBVIOUS
  <2>2. CASE UNCHANGED ctxVars
    BY <2>1, <2>2 DEF ctxVars, CtxInv, CtxTypeOK, AbsentInv, OwnerInv, WorkspaceInv, FrameInv,
                      NothingLeaks
  <2>3. ASSUME NEW cctxFails \in BOOLEAN, NEW dctxFails \in BOOLEAN, InitTfm(cctxFails, dctxFails)
        PROVE  CtxInv'
    <3>1. ~cctx.alive
      BY <2>3 DEF InitTfm
    <3>2. cctx = NoContext /\ areas = {} /\ last = NoReset /\ heap = {}
      BY <2>1, <3>1, AbsentIsEmpty
    <3>3. areas' = {} /\ last' = NoReset /\ below' = below
      BY <2>3, <3>2 DEF InitTfm
    <3> DEFINE new == [NoContext EXCEPT !.alive = TRUE]
               c   == CreateCCtx(cctxFails)
    <3>4. CASE cctxFails \/ dctxFails
      <4>1. ~c.ctx.alive \/ dctxFails
        BY <3>4 DEF CreateCCtx, NoContext
      <4>2. cctx' = cctx /\ heap' = FreeCCtx(c.heap, c.ctx)
        BY <2>3, <4>1 DEF InitTfm
      <4>3. CASE cctxFails
        <5>1. c = [heap |-> {}, ctx |-> NoContext]
          BY <4>3, <3>2 DEF CreateCCtx
        <5>2. FreeCCtx({}, NoContext) = {}
          BY DEF FreeCCtx, FreeWorkspace, NoContext, NoWorkspace
        <5>3. heap' = {}
          BY <4>2, <5>1, <5>2
        <5>4. QED
          BY <5>3, <4>2, <3>2, <3>3, AbsentIsSound
      <4>4. CASE ~cctxFails
        <5>1. c = [heap |-> {Mem("cctx")}, ctx |-> new]
          BY <4>4, <3>2 DEF CreateCCtx
        <5>2. FreeCCtx({Mem("cctx")}, new) = {}
          BY DEF FreeCCtx, FreeWorkspace, NoContext, NoWorkspace
        <5> HIDE DEF c, new
        <5>3. c.heap = {Mem("cctx")} /\ c.ctx = new
          BY <5>1
        <5>4. heap' = {}
          BY <4>2, <5>2, <5>3
        <5>5. QED
          BY <5>4, <4>2, <3>2, <3>3, AbsentIsSound
      <4>5. QED
        BY <4>3, <4>4
    <3>5. CASE ~(cctxFails \/ dctxFails)
      <4> DEFINE n == [new EXCEPT !.dctx = TRUE]
      <4>1. c = [heap |-> {Mem("cctx")}, ctx |-> new]
        BY <3>5, <3>2 DEF CreateCCtx
      <4>2. cctx' = n /\ heap' = {Mem("cctx")} \cup {Mem("dctx")}
        BY <2>3, <3>5, <4>1 DEF InitTfm, NoContext
      <4>3. NoWorkspace \in Workspace
        BY DEF NoWorkspace, Workspace, NULL, Phases, Objects, Buffers
      <4>4. /\ n \in [alive : BOOLEAN, static : BOOLEAN, initialized : BOOLEAN, dctx : BOOLEAN,
                      ws : Workspace]
            /\ n.alive /\ ~n.static /\ n.dctx /\ n.ws = NoWorkspace
        <5>1. /\ NoContext \in [alive : BOOLEAN, static : BOOLEAN, initialized : BOOLEAN,
                                dctx : BOOLEAN, ws : Workspace]
              /\ ~NoContext.static /\ NoContext.ws = NoWorkspace
          BY <4>3 DEF NoContext
        <5>2. QED
          BY <5>1
      <4>5. Cells(NoWorkspace.objectEnd, NoWorkspace.tableValidEnd) = {}
        BY DEF Cells, NoWorkspace, NULL
      <4> HIDE DEF n
      <4>6. CtxTypeOK' /\ AbsentInv' /\ OwnerInv'
        BY <4>2, <4>3, <4>4, <3>3 DEF CtxTypeOK, AbsentInv, OwnerInv, NoReset, Outcomes
      <4>7. WorkspaceInv' /\ FrameInv'
        BY <4>2, <4>4, <4>5, <3>3 DEF WorkspaceInv, FrameInv, NoReset
      <4>8. NothingLeaks'
        BY <4>2, <4>4 DEF NothingLeaks
      <4>9. QED
        BY <4>6, <4>7, <4>8 DEF CtxInv
    <3>6. QED
      BY <3>4, <3>5
  <2>4. CASE ExitTfm
    <3>1. /\ cctx.alive /\ cctx.dctx /\ heap' = FreeCCtx(heap \ {Mem("dctx")}, cctx)
          /\ cctx' = NoContext /\ areas' = {} /\ last' = NoReset
      BY <2>4 DEF ExitTfm
    <3>2. ~cctx.static /\ heap = Owned(cctx) /\ WorkspaceInv
      BY <2>1, <3>1 DEF CtxInv, OwnerInv, NothingLeaks, Owned
    <3>3. cctx.ws # NoWorkspace => cctx.ws.workspace # NULL
      BY <3>2, UsableIsSome DEF WorkspaceInv
    <3>4. heap' = {}
      <4>1. CASE cctx.ws = NoWorkspace
        <5>1. cctx.ws.workspace = NULL /\ heap = {Mem("cctx")} \cup {Mem("dctx")}
          BY <3>1, <3>2, <4>1 DEF Owned, NoWorkspace
        <5>2. QED
          BY <5>1, <3>1, <3>2 DEF FreeCCtx, FreeWorkspace
      <4>2. CASE cctx.ws # NoWorkspace
        <5>1. heap = {Mem("cctx")} \cup {Mem("dctx")} \cup {MemAt("workspace", cctx.ws.workspace)}
          BY <3>1, <3>2, <4>2 DEF Owned
        <5>2. QED
          BY <5>1, <3>1, <3>2, <3>3, <4>2 DEF FreeCCtx, FreeWorkspace
      <4>3. QED
        BY <4>1, <4>2
    <3>5. QED
      BY <3>1, <3>4, AbsentIsSound
  <2>5. ASSUME NEW p \in Profiles, NEW at \in Starts, InitStatic(p, at)
        PROVE  CtxInv'
    <3> DEFINE size == EstimateCCtxSize(p, TRUE)
               got  == ServeAll([ws |-> InitWorkspace(at, size), areas |-> {}, missed |-> FALSE],
                                StaticRequests)
               w    == got.ws
               n    == [NoContext EXCEPT !.alive = TRUE, !.static = TRUE, !.ws = w]
    <3>1. /\ ~cctx.alive /\ cctx' = n /\ areas' = got.areas /\ last' = NoReset
          /\ heap' = heap /\ below' = below
      BY <2>5 DEF InitStatic, StaticRequests
    <3>2. heap = {}
      BY <2>1, <3>1, AbsentIsEmpty
    <3>3. at \in Nat \ {0}
      BY ContextSizesAssumption
    <3>4. /\ size \in Nat /\ ObjBytes(TRUE) <= size
          /\ ObjBytes(TRUE) + SlackSpaceRequired <= size
      <4>1. /\ size = ObjBytes(TRUE) + TableBytes(p) + MatchBytes(p) + BlockBytes(p) + SlackSpaceRequired
            /\ TableBytes(p) \in Nat /\ MatchBytes(p) \in Nat /\ BlockBytes(p) \in Nat
        BY EstimateIs
      <4>2. ObjBytes(TRUE) \in Nat /\ SlackSpaceRequired \in Nat
        BY ContextSizesAssumption, AlignmentAssumption DEF ObjBytes, SlackSpaceRequired
      <4> DEFINE o == ObjBytes(TRUE)
                 sp == SlackSpaceRequired
      <4>3. /\ size = o + TableBytes(p) + MatchBytes(p) + BlockBytes(p) + sp
            /\ TableBytes(p) \in Nat /\ MatchBytes(p) \in Nat /\ BlockBytes(p) \in Nat
            /\ o \in Nat /\ sp \in Nat
        BY <4>1, <4>2
      <4> HIDE DEF size, o, sp
      <4>4. size \in Nat /\ o <= size /\ o + sp <= size
        BY <4>3
      <4>5. QED
        BY <4>4 DEF o, sp
    <3> HIDE DEF size
    <3>5. /\ Beginning(w, at, size, ObjBytes(TRUE))
          /\ got.areas = ObjectAreas(at, TRUE)
      <4>1. /\ Beginning(w, at, size, ObjBytes(TRUE))
            /\ got = [ws |-> w, areas |-> ObjectAreas(at, TRUE), missed |-> FALSE]
        BY <3>3, <3>4, NewStatic
      <4> HIDE DEF got, w
      <4>2. got.areas = ObjectAreas(at, TRUE)
        BY <4>1
      <4>3. QED
        BY <4>1, <4>2, Zenon
    <3> HIDE DEF got
    <3>6. /\ Usable(w, TRUE) /\ w.workspace = at /\ Cells(w.objectEnd, w.tableValidEnd) = {}
      BY <3>3, <3>4, <3>5, BeginningIsUsable
    <3>7. ObjectsOf(ObjectAreas(at, TRUE)) = ObjectAreas(at, TRUE)
      BY <3>3, ObjectsPlaced
    <3> HIDE DEF w
    <3>8. /\ n.alive /\ n.static /\ ~n.dctx /\ n.ws = w
          /\ w \in Workspace => n \in [alive : BOOLEAN, static : BOOLEAN, initialized : BOOLEAN,
                                       dctx : BOOLEAN, ws : Workspace]
      <4>1. NoWorkspace \in Workspace
        BY DEF NoWorkspace, Workspace, NULL, Phases, Objects, Buffers
      <4>2. /\ NoContext \in [alive : BOOLEAN, static : BOOLEAN, initialized : BOOLEAN,
                              dctx : BOOLEAN, ws : Workspace]
            /\ ~NoContext.dctx
        BY <4>1 DEF NoContext
      <4>3. QED
        BY <4>2
    <3>9. w \in Workspace /\ w # NoWorkspace
      BY <3>6, UsableIsSome DEF Usable, Based
    <3> HIDE DEF n
    <3>10. CtxTypeOK' /\ AbsentInv' /\ OwnerInv'
      BY <3>1, <3>8, <3>9 DEF CtxTypeOK, AbsentInv, OwnerInv, NoReset, Outcomes
    <3>11. WorkspaceInv'
      <4>1. cctx'.ws = w /\ cctx'.static = TRUE /\ areas' = ObjectAreas(at, TRUE)
        BY <3>1, <3>5, <3>8
      <4>2. Usable(cctx'.ws, cctx'.static)
        BY <3>6, <4>1, Zenon
      <4>3. ObjectsOf(areas') = ObjectAreas(cctx'.ws.workspace, cctx'.static)
        BY <3>6, <3>7, <4>1, Zenon
      <4>4. Cells(cctx'.ws.objectEnd, cctx'.ws.tableValidEnd) = {}
        BY <3>6, <4>1
      <4>5. QED
        BY <4>2, <4>3, <4>4 DEF WorkspaceInv
    <3>12. FrameInv' /\ NothingLeaks'
      BY <3>1, <3>2, <3>8 DEF FrameInv, NothingLeaks, NoReset
    <3>13. QED
      BY <3>10, <3>11, <3>12 DEF CtxInv
  <2>6. CASE DropStatic
    <3>1. /\ cctx.static /\ heap' = heap
          /\ cctx' = NoContext /\ areas' = {} /\ last' = NoReset
      BY <2>6 DEF DropStatic
    <3>2. heap = {}
      BY <2>1, <3>1 DEF CtxInv, OwnerInv, NothingLeaks
    <3>3. QED
      BY <3>1, <3>2, AbsentIsSound
  <2>7. ASSUME NEW p \in Profiles, NEW at \in Starts \cup {NULL}, NEW tooClose \in BOOLEAN,
               BeginFrame(p, at, tooClose)
        PROVE  CtxInv'
    <3> DEFINE r == ResetCCtx(p, at, tooClose, TRUE)
    <3>1. cctx.alive /\ Settle(r)
      BY <2>7 DEF BeginFrame
    <3>2. Outcome(r, TRUE)
      BY <2>1, <3>1, ResetOutcome
    <3> HIDE DEF r
    <3>3. QED
      BY <2>1, <3>1, <3>2, SettledIsSound
  <2>8. ASSUME NEW p \in Profiles, NEW at \in Starts \cup {NULL}, NEW tooClose \in BOOLEAN,
               BeginFrameByCopying(p, at, tooClose)
        PROVE  CtxInv'
    <3> DEFINE r == ResetCCtx(p, at, tooClose, FALSE)
    <3>1. cctx.alive /\ Settle(Copied(r))
      BY <2>8 DEF BeginFrameByCopying
    <3>2. Outcome(r, FALSE)
      BY <2>1, <3>1, ResetOutcome
    <3>3. r = [heap |-> r.heap, ctx |-> r.ctx, areas |-> r.areas, below |-> r.below,
               last |-> r.last]
      BY ResetIsRecord
    <3> HIDE DEF r
    <3>4. Outcome(Copied(r), TRUE)
      BY <3>2, <3>3, CopiedOutcome
    <3>5. QED
      BY <2>1, <3>1, <3>4, SettledIsSound
  <2>9. QED
    BY <2>1, <2>2, <2>3, <2>4, <2>5, <2>6, <2>7, <2>8 DEF CtxNext
<1>3. QED
  BY <1>1, <1>2, PTL DEF CtxSpec

\* The size that is estimated for a frame is enough for all its reservations, and
\* is right up to the slack for alignment.
THEOREM EstimateIsEnough == CtxSpec => []EstimateSuffices
<1>1. CtxInv => EstimateSuffices
  BY DEF CtxInv, FrameInv, EstimateSuffices
<1>2. QED
  BY <1>1, ContextInvariant, PTL

\* After a successful reset every pointer is into the present workspace, no two
\* areas overlap, the objects are all there, and no cell of the tables holds an
\* index that the frame has yet to reach.
THEOREM FrameIsReady == CtxSpec => []ReadyForFrame
<1>1. CtxInv => ReadyForFrame
  <2>1. SUFFICES ASSUME CtxInv, last.how = "ready" PROVE ReadyForFrame
    BY DEF ReadyForFrame
  <2> DEFINE w == cctx.ws
  <2>2. /\ w # NoWorkspace /\ InOrder(w) /\ areas \subseteq Areas
        /\ \A a \in areas : Placed(w, a)
        /\ Apart(areas)
        /\ Cells(w.objectEnd, w.tableEnd) \subseteq below
    BY <2>1 DEF CtxInv, FrameInv, Good
  <2>3. ObjectsOf(areas) = ObjectAreas(w.workspace, cctx.static) /\ cctx.static \in BOOLEAN
        /\ w.workspace \in Nat \ {0}
    BY <2>1, <2>2 DEF CtxInv, WorkspaceInv, CtxTypeOK, InOrder, Workspace
  <2>4. /\ w \in Workspace
        /\ w.workspace <= w.objectEnd /\ w.objectEnd <= w.tableEnd /\ w.tableEnd <= w.allocStart
        /\ w.allocStart <= InitialAllocStart(w)
    BY <2>2 DEF InOrder
  <2>5. InitialAllocStart(w) \in Nat /\ InitialAllocStart(w) <= w.workspaceEnd
    BY <2>4, Rounding DEF InitialAllocStart, Workspace
  <2> HIDE DEF w
  <2>6. ASSUME NEW a \in areas
        PROVE  /\ w.workspace <= a.lo /\ a.hi <= w.workspaceEnd
               /\ a.kind = "table" => Cells(a.lo, a.hi) \subseteq below
    <3>1. a.lo \in Nat /\ a.hi \in Nat /\ Placed(w, a)
      BY <2>2 DEF Areas
    <3>2. w.workspace <= a.lo /\ a.hi <= w.workspaceEnd
      BY <3>1, <2>4, <2>5 DEF Placed, Workspace
    <3>3. ASSUME a.kind = "table" PROVE Cells(a.lo, a.hi) \subseteq Cells(w.objectEnd, w.tableEnd)
      BY <3>1, <3>3, <2>4 DEF Placed, Cells, Workspace
    <3>4. QED
      BY <3>2, <3>3, <2>2
  <2>7. Cardinality(ObjectsOf(areas)) = IF cctx.static THEN 4 ELSE 3
    BY <2>3, ObjectsPlaced
  <2>8. QED
    BY <2>2, <2>6, <2>7 DEF ReadyForFrame, Apart, w
<1>2. QED
  BY <1>1, ContextInvariant, PTL

\* Whichever allocation fails, what is allocated is what the context owns.
THEOREM ContextLeaksNothing == CtxSpec => []NothingLeaks
<1>1. CtxInv => NothingLeaks
  BY DEF CtxInv
<1>2. QED
  BY <1>1, ContextInvariant, PTL

-----------------------------------------------------------------------------
(* The workspace, for every alignment, address, capacity and size a client
   may ask for, and for call sequences of any length: the inductive invariant. *)

\* The three regions in order.  Before the phase of objects has ended there are
\* no tables and nothing is reserved from the end, but the objects may reach
\* above allocStart, which is rounded down.
Shape(w) ==
  /\ w \in Workspace
  /\ w.workspace <= w.objectEnd
  /\ w.objectEnd <= w.tableEnd
  /\ w.tableEnd <= w.workspaceEnd
  /\ w.allocStart <= InitialAllocStart(w)
  /\ w.initOnceStart <= InitialAllocStart(w)
  /\ w.phase = Objects => /\ w.tableEnd = w.objectEnd
                          /\ w.allocStart = InitialAllocStart(w)
  /\ w.phase >= InitOnce => w.tableEnd <= w.allocStart

\* Until aligned areas are reserved, all that is reserved is "init once".
Layout(w) == Shape(w) /\ (w.phase <= InitOnce => w.initOnceStart <= w.allocStart)

\* Each area lies in the region of its kind.
Within(w, r) ==
  CASE r.kind = "object" -> w.workspace <= r.lo /\ r.hi <= w.objectEnd
    [] r.kind = "table"  -> /\ w.phase >= InitOnce
                            /\ w.objectEnd <= r.lo /\ r.hi <= w.tableEnd
    [] OTHER             -> /\ w.phase >= InitOnce
                            /\ w.allocStart <= r.lo
                            /\ r.hi <= InitialAllocStart(w)

LentAreas == [kind : {"object", "table", "buffer", "aligned", "initonce"},
          lo : Nat, hi : Nat]
AreasWithin(w) == \A r \in live : r.lo < r.hi /\ Within(w, r)
AreasApart == \A r, s \in live : r # s => r.hi <= s.lo \/ s.hi <= r.lo

\* The first half of ContentsKnown, and: memory above initOnceStart was written.
TablesKnown(w) == Cells(w.objectEnd, w.tableValidEnd) \subseteq known
OnceWritten(w) == Cells(w.initOnceStart, InitialAllocStart(w)) \subseteq touched

Fits(w) == /\ Layout(w)
           /\ AreasWithin(w)
           /\ TablesKnown(w)
           /\ OnceWritten(w)

CwkspInv ==
  /\ Fits(ws)
  /\ ws = NoWorkspace \/ ws.workspace > 0
  /\ live \subseteq LentAreas
  /\ AreasApart
  /\ \A r \in live : r.kind = "initonce" => Cells(r.lo, r.hi) \subseteq touched

-----------------------------------------------------------------------------
(* The operators of the workspace. *)

\* Rounding: up and down stay natural, and what is rounded up below an end is
\* below the rounded-down end.
LEMMA RoundedBelow ==
  ASSUME NEW a \in Nat
  PROVE  /\ AlignUp(a) \in Nat /\ a <= AlignUp(a)
         /\ AlignDown(a) \in Nat /\ AlignDown(a) <= a
         /\ \A b \in Nat : AlignUp(a) <= b => AlignUp(a) <= AlignDown(b)
<1>1. AlignUp(a) \in Nat /\ a <= AlignUp(a) /\ AlignDown(a) \in Nat /\ AlignDown(a) <= a
  BY AlignmentAssumption DEF AlignUp, AlignDown
<1>2. \E i \in Int : AlignUp(a) = i * Alignment
  <2>1. /\ (-a) \div Alignment \in Int
        /\ -a = ((-a) \div Alignment) * Alignment + ((-a) % Alignment)
    BY AlignmentAssumption
  <2>2. AlignUp(a) = (-((-a) \div Alignment)) * Alignment
    BY <2>1, AlignmentAssumption DEF AlignUp
  <2>3. QED
    BY <2>1, <2>2
<1>3. ASSUME NEW b \in Nat, AlignUp(a) <= b PROVE AlignUp(a) <= AlignDown(b)
  <2>1. PICK i \in Int : AlignUp(a) = i * Alignment
    BY <1>2
  <2>2. PICK j \in Int : AlignDown(b) = j * Alignment /\ b < j * Alignment + Alignment
    BY AlignmentAssumption DEF AlignDown
  <2>3. i <= j
    BY <2>1, <2>2, <1>3, AlignmentAssumption
  <2>4. i * Alignment <= j * Alignment
    BY <2>3, AlignmentAssumption
  <2>5. QED
    BY <2>1, <2>2, <2>4
<1>4. QED
  BY <1>1, <1>3

\* How a workspace may change while areas in it are lent out.
Grows(w, n) ==
  /\ n.workspace = w.workspace /\ n.workspaceEnd = w.workspaceEnd
  /\ w.phase <= n.phase
  /\ w.objectEnd <= n.objectEnd
  /\ w.phase >= InitOnce => n.objectEnd = w.objectEnd
  /\ w.tableEnd <= n.tableEnd
  /\ n.allocStart <= w.allocStart

\* An area within its region stays within it when the regions grow.
LEMMA WithinGrows ==
  ASSUME NEW w \in Workspace, NEW n \in Workspace, Grows(w, n),
         NEW r \in LentAreas, Within(w, r)
  PROVE  Within(n, r)
<1>1. InitialAllocStart(n) = InitialAllocStart(w)
  BY DEF Grows, InitialAllocStart
<1>2. QED
  BY <1>1 DEF LentAreas, Within, Grows, Workspace, Phases, Objects, InitOnce, Aligned, Buffers

\* Leaving the phase of objects keeps the layout; what was known to be
\* below tableValidEnd stays, or nothing is claimed any more.
LEMMA AdvanceKeeps ==
  ASSUME NEW w, Layout(w), NEW p \in {InitOnce, Aligned, Buffers}
  PROVE  LET n == AdvancePhase(w, p) IN
         /\ Layout(n) /\ Grows(w, n)
         /\ CanAdvance(w, p) => n.phase >= p
         /\ n.phase = w.phase \/ n.phase = p
         /\ n.tableValidEnd <= n.objectEnd \/ n = w \/ n = [w EXCEPT !.phase = p]
         /\ \/ n.initOnceStart = w.initOnceStart
            \/ n.initOnceStart = InitialAllocStart(w)
         /\ w.phase >= InitOnce => n.initOnceStart = w.initOnceStart
<1> DEFINE n == AdvancePhase(w, p)
           up == AlignUp(w.objectEnd)
           down == InitialAllocStart(w)
<1>0. w \in Workspace
  BY DEF Layout, Shape
<1>1. /\ up \in Nat /\ w.objectEnd <= up
      /\ up <= w.workspaceEnd => up <= down
      /\ down \in Nat /\ down <= w.workspaceEnd
  BY <1>0, RoundedBelow DEF InitialAllocStart, Workspace
<1> USE DEF Phases, Objects, InitOnce, Aligned, Buffers
<1>2. CASE p <= w.phase
  <2>1. n = w
    BY <1>2 DEF AdvancePhase
  <2>2. QED
    BY <2>1, <1>2, <1>0 DEF Grows, Workspace
<1>3. CASE p > w.phase /\ w.phase >= InitOnce
  <2>1. n = [w EXCEPT !.phase = p]
    BY <1>3, <1>0 DEF AdvancePhase, Workspace
  <2>2. InitialAllocStart(n) = down
    BY <2>1, <1>0 DEF InitialAllocStart, Workspace
  <2>3. Layout(n)
    BY <2>1, <2>2, <1>0, <1>3 DEF Layout, Shape, Workspace
  <2>4. QED
    BY <2>1, <2>3, <1>0, <1>3 DEF Grows, Workspace
<1>4. CASE w.phase = Objects /\ ~CanAdvance(w, p)
  <2>1. n = [w EXCEPT !.tableValidEnd = w.objectEnd, !.initOnceStart = down]
    BY <1>4, <1>0 DEF AdvancePhase, Workspace
  <2>2. InitialAllocStart(n) = down
    BY <2>1, <1>0 DEF InitialAllocStart, Workspace
  <2>3. Layout(n)
    <3>1. n \in Workspace
      BY <2>1, <1>0, <1>1 DEF Workspace
    <3>2. /\ n.workspace = w.workspace /\ n.workspaceEnd = w.workspaceEnd
          /\ n.objectEnd = w.objectEnd /\ n.tableEnd = w.tableEnd
          /\ n.allocStart = w.allocStart /\ n.phase = w.phase /\ n.initOnceStart = down
      BY <2>1, <1>0 DEF Workspace
    <3>3. Shape(w)
      BY DEF Layout
    <3>4. down \in Nat
      BY <1>0, <1>1
    <3> HIDE DEF n, down
    <3>5. Shape(n)
      <4>1. n.phase = Objects /\ n.allocStart <= down /\ n.allocStart = down
        BY <3>2, <3>3, <3>4, <1>4 DEF Shape, down
      <4>2. n.workspace <= n.objectEnd /\ n.tableEnd = n.objectEnd /\ n.tableEnd <= n.workspaceEnd
        BY <3>2, <3>3, <1>4 DEF Shape
      <4>3. n.objectEnd <= n.tableEnd /\ n.initOnceStart <= down /\ ~(n.phase >= InitOnce)
        BY <3>1, <3>2, <3>4, <4>1, <4>2 DEF Workspace
      <4>4. QED
        BY <3>1, <4>1, <4>2, <4>3, <2>2 DEF Shape
    <3>6. w.allocStart = down
      BY <3>3, <1>4 DEF Shape, down
    <3>7. QED
      BY <3>2, <3>4, <3>5, <3>6 DEF Layout
  <2>4. QED
    BY <2>1, <2>3, <1>0, <1>4 DEF Grows, Workspace
<1>5. CASE w.phase = Objects /\ CanAdvance(w, p)
  <2>1. w.phase = 0 /\ p > 0 /\ ~(p < 1) /\ ~(w.phase >= 1)
    BY <1>5
  <2>2. AlignUp(w.objectEnd) <= w.workspaceEnd
    BY <2>1, <1>5 DEF CanAdvance
  <2>3. up <= down
    BY <2>2, <1>1
  <2>4. n = [w EXCEPT !.tableValidEnd = up, !.initOnceStart = down,
                      !.objectEnd = up, !.tableEnd = up, !.phase = p]
    <3>1. n = [[w EXCEPT !.tableValidEnd = w.objectEnd, !.initOnceStart = down]
                 EXCEPT !.objectEnd = up, !.tableEnd = up,
                        !.tableValidEnd = up, !.phase = p]
      BY <2>1, <1>5 DEF AdvancePhase
    <3>2. QED
      BY <3>1, <1>0 DEF Workspace
  <2>5. InitialAllocStart(n) = down
    BY <2>4, <1>0 DEF InitialAllocStart, Workspace
  <2>6. Layout(n)
    <3>0. p \in Phases /\ up \in Nat /\ down \in Nat
      BY <1>1
    <3>1. n \in Workspace /\ n.phase = p
      <4> HIDE DEF n, up, down, Phases
      <4>1. QED
        BY <2>4, <3>0, <1>0 DEF Workspace
    <3>2. /\ n.workspace = w.workspace /\ n.workspaceEnd = w.workspaceEnd
          /\ n.objectEnd = up /\ n.tableEnd = up /\ n.allocStart = w.allocStart
          /\ n.initOnceStart = down
      BY <2>4, <1>0 DEF Workspace
    <3>3. w.allocStart = down /\ w.workspace <= w.objectEnd
      BY <2>1 DEF Layout, Shape
    <3>4. n.phase # Objects
      BY <3>1
    <3>5. w.workspace <= up
      BY <3>3, <1>1, <1>0 DEF Workspace
    <3>6. QED
      BY <3>1, <3>2, <3>3, <3>4, <3>5, <2>2, <2>3, <2>5, <1>1 DEF Layout, Shape
  <2>7. QED
    BY <2>4, <2>6, <1>1, <1>0, <2>1 DEF Grows, Workspace, Layout, Shape
<1>6. QED
  BY <1>2, <1>3, <1>4, <1>5, <1>0 DEF Workspace

\* So all that is known of a workspace survives it.
LEMMA AdvanceFits ==
  ASSUME NEW w, Fits(w), live \subseteq LentAreas, NEW p \in {InitOnce, Aligned, Buffers}
  PROVE  LET n == AdvancePhase(w, p) IN
         /\ Fits(n) /\ n.workspace = w.workspace
         /\ CanAdvance(w, p) => n.phase >= p
         /\ n.phase = w.phase \/ n.phase = p
         /\ n = w \/ w.phase < n.phase \/ n.phase = Objects
<1> DEFINE n == AdvancePhase(w, p)
<1>1. Layout(w) /\ w \in Workspace
  BY DEF Fits, Layout, Shape
<1>2. /\ Layout(n) /\ Grows(w, n)
      /\ CanAdvance(w, p) => n.phase >= p
      /\ n.phase = w.phase \/ n.phase = p
      /\ n.tableValidEnd <= n.objectEnd \/ n = w \/ n = [w EXCEPT !.phase = p]
      /\ \/ n.initOnceStart = w.initOnceStart
         \/ n.initOnceStart = InitialAllocStart(w)
  BY <1>1, AdvanceKeeps
<1>3. n \in Workspace /\ InitialAllocStart(n) = InitialAllocStart(w)
  BY <1>2 DEF Layout, Shape, Grows, InitialAllocStart
<1> HIDE DEF n
<1>4. AreasWithin(n)
  BY <1>1, <1>2, <1>3, WithinGrows DEF AreasWithin, Fits
<1>5. TablesKnown(n)
  <2>1. CASE n.tableValidEnd <= n.objectEnd
    BY <2>1, <1>3 DEF TablesKnown, Cells, Workspace
  <2>2. CASE n = w \/ n = [w EXCEPT !.phase = p]
    BY <2>2, <1>1 DEF Fits, TablesKnown, Workspace
  <2>3. QED
    BY <2>1, <2>2, <1>2
<1>6. OnceWritten(n)
  <2>1. CASE n.initOnceStart = w.initOnceStart
    BY <2>1, <1>3 DEF Fits, OnceWritten
  <2>2. CASE n.initOnceStart = InitialAllocStart(w)
    BY <2>2, <1>3 DEF OnceWritten, Cells, Workspace
  <2>3. QED
    BY <2>1, <2>2, <1>2
<1>7. n = w \/ w.phase < n.phase \/ n.phase = Objects
  BY <1>1 DEF n, AdvancePhase, Workspace, Phases, Objects, InitOnce, Aligned, Buffers
<1>8. QED
  BY <1>2, <1>4, <1>5, <1>6, <1>7 DEF Fits, Grows, n

\* A reservation from the end fails, or lends what lies just below allocStart
\* and withdraws tableValidEnd to it.
LEMMA LowersEnd ==
  ASSUME NEW w, Layout(w), w.phase >= InitOnce, w.workspace > 0,
         NEW bytes \in Nat \ {0}
  PROVE  LET got == ReserveFromEnd(w, bytes)  n == got.ws IN
         /\ Shape(n) /\ Grows(w, n)
         /\ n.phase = w.phase /\ n.initOnceStart = w.initOnceStart
         /\ n.objectEnd = w.objectEnd /\ n.tableEnd = w.tableEnd
         /\ n.tableValidEnd <= w.tableValidEnd
         /\ \/ got.ptr = NULL /\ n = [w EXCEPT !.allocFailed = TRUE]
            \/ /\ got.ptr \in Nat \ {0} /\ got.ptr + bytes = w.allocStart
               /\ n.allocStart = got.ptr /\ n.tableValidEnd <= got.ptr
               /\ w.tableEnd <= got.ptr
<1> DEFINE got == ReserveFromEnd(w, bytes)
           n == got.ws
           alloc == w.allocStart - bytes
<1>1. w \in Workspace
  BY DEF Layout, Shape
<1> USE DEF Phases, Objects, InitOnce, Aligned, Buffers
<1>2. CASE alloc < w.tableEnd
  <2>1. got.ptr = NULL /\ n = [w EXCEPT !.allocFailed = TRUE]
    BY <1>2 DEF ReserveFromEnd
  <2>2. InitialAllocStart(n) = InitialAllocStart(w)
    BY <2>1, <1>1 DEF InitialAllocStart, Workspace
  <2>3. n \in Workspace /\ Shape(n)
    BY <2>1, <2>2, <1>1 DEF Layout, Shape, Workspace
  <2>4. QED
    BY <2>1, <2>3, <1>1 DEF Grows, Workspace
<1>3. CASE ~(alloc < w.tableEnd)
  <2>1. /\ got.ptr = alloc
        /\ n = [w EXCEPT !.allocStart = alloc,
                         !.tableValidEnd = MIN(w.tableValidEnd, alloc)]
    BY <1>3 DEF ReserveFromEnd
  <2>2. /\ alloc \in Nat \ {0} /\ alloc + bytes = w.allocStart
        /\ w.tableEnd <= alloc /\ alloc <= w.allocStart
    BY <1>1, <1>3 DEF Layout, Shape, Workspace
  <2>3. /\ MIN(w.tableValidEnd, alloc) \in Nat
        /\ MIN(w.tableValidEnd, alloc) <= alloc
        /\ MIN(w.tableValidEnd, alloc) <= w.tableValidEnd
    BY <2>2, <1>1 DEF MIN, Workspace
  <2> HIDE DEF alloc
  <2>4. n \in Workspace /\ InitialAllocStart(n) = InitialAllocStart(w)
    BY <2>1, <2>2, <2>3, <1>1 DEF InitialAllocStart, Workspace
  <2>5. InitialAllocStart(w) \in Nat
    BY <1>1, RoundedBelow DEF InitialAllocStart, Workspace
  <2>6. Shape(n)
    BY <2>1, <2>2, <2>4, <2>5, <1>1 DEF Layout, Shape, Workspace
  <2>7. QED
    BY <2>1, <2>2, <2>3, <2>6, <1>1 DEF Grows, Workspace
<1>4. QED
  BY <1>2, <1>3

-----------------------------------------------------------------------------
(* Steps that lend memory. *)

\* An area beside all others can be added.
LEMMA AreaAdded ==
  ASSUME live \subseteq LentAreas, AreasApart, NEW r \in LentAreas,
         \A s \in live : s.hi <= r.lo \/ r.hi <= s.lo,
         live' = live \cup {r}
  PROVE  live' \subseteq LentAreas /\ AreasApart'
BY DEF AreasApart, LentAreas

\* A reservation from the end lies beside everything lent out so far.
LEMMA EndFits ==
  ASSUME NEW w, Fits(w), w.phase >= InitOnce, w.workspace > 0,
         NEW bytes \in Nat \ {0}, live \subseteq LentAreas,
         NEW kind \in {"buffer", "aligned", "initonce"},
         ReserveFromEnd(w, bytes).ptr # NULL
  PROVE  LET got == ReserveFromEnd(w, bytes)
             r   == [kind |-> kind, lo |-> got.ptr, hi |-> got.ptr + bytes]
         IN  /\ r \in LentAreas /\ r.lo < r.hi
             /\ \A s \in live \cup {r} : s.lo < s.hi /\ Within(got.ws, s)
             /\ \A s \in live : s.hi <= r.lo \/ r.hi <= s.lo
             /\ Cells(got.ws.objectEnd, got.ws.tableValidEnd)
                  \subseteq known \ Cells(got.ptr, got.ptr + bytes)
<1> DEFINE got == ReserveFromEnd(w, bytes)
           n == got.ws
           r == [kind |-> kind, lo |-> got.ptr, hi |-> got.ptr + bytes]
<1>1. Layout(w) /\ w \in Workspace
  BY DEF Fits, Layout, Shape
<1>2. /\ Shape(n) /\ Grows(w, n)
      /\ n.phase = w.phase /\ n.objectEnd = w.objectEnd /\ n.tableEnd = w.tableEnd
      /\ n.tableValidEnd <= w.tableValidEnd
      /\ got.ptr \in Nat \ {0} /\ got.ptr + bytes = w.allocStart
      /\ n.allocStart = got.ptr /\ n.tableValidEnd <= got.ptr
      /\ w.tableEnd <= got.ptr
  BY <1>1, LowersEnd
<1> HIDE DEF got
<1>3. n \in Workspace /\ InitialAllocStart(n) = InitialAllocStart(w)
  BY <1>2 DEF Shape, Grows, InitialAllocStart
<1>4. r \in LentAreas /\ r.lo < r.hi
  BY <1>2 DEF LentAreas
<1>5. \A s \in live : s.lo < s.hi /\ Within(n, s)
  BY <1>1, <1>2, <1>3, WithinGrows DEF AreasWithin, Fits
<1>6. Within(n, r)
  <2>1. InitialAllocStart(w) \in Nat
    BY <1>1, RoundedBelow DEF InitialAllocStart, Workspace
  <2>2. r.hi <= InitialAllocStart(n)
    BY <1>2, <1>3, <1>1 DEF Layout, Shape
  <2>3. QED
    BY <2>2, <1>2 DEF Within
<1>7. \A s \in live : s.hi <= r.lo \/ r.hi <= s.lo
  <2>1. TAKE s \in live
  <2>2. Within(w, s) /\ s \in LentAreas
    BY DEF Fits, AreasWithin
  <2>3. w.objectEnd <= w.tableEnd
    BY <1>1 DEF Layout, Shape
  <2>4. QED
    BY <2>2, <2>3, <1>1, <1>2 DEF Within, LentAreas, Workspace
<1>8. Cells(n.objectEnd, n.tableValidEnd) \subseteq known \ Cells(got.ptr, got.ptr + bytes)
  BY <1>1, <1>2, <1>3 DEF Fits, TablesKnown, Cells, Workspace
<1>9. QED
  BY <1>4, <1>5, <1>6, <1>7, <1>8 DEF got

\* The same for memory that its owner writes at once.
LEMMA LendFromEnd ==
  ASSUME CwkspInv, ws # NoWorkspace, NEW bytes \in Nat \ {0},
         NEW p \in {Aligned, Buffers}, NEW kind \in {"buffer", "aligned"},
         Lend(ReserveInternal(ws, bytes, p), kind, bytes)
  PROVE  CwkspInv'
<1> DEFINE next == AdvancePhase(ws, p)
           got  == ReserveFromEnd(next, bytes)
<1>1. Fits(ws) /\ live \subseteq LentAreas /\ ws.workspace > 0 /\ Layout(ws)
  BY DEF CwkspInv, Fits
<1>2. /\ Fits(next) /\ next.workspace = ws.workspace
      /\ CanAdvance(ws, p) => next.phase >= p
  BY <1>1, AdvanceFits
<1>3. CASE ~CanAdvance(ws, p)
  <2>1. ws' = next /\ UNCHANGED <<live, known, touched>>
    BY <1>3 DEF Lend, ReserveInternal
  <2>2. ws'.workspace > 0
    BY <1>1, <1>2, <2>1
  <2>3. Fits(ws)'
    BY <1>2, <2>1 DEF Fits, AreasWithin, TablesKnown, OnceWritten
  <2>4. QED
    BY <2>1, <2>2, <2>3 DEF CwkspInv, AreasApart
<1>4. CASE CanAdvance(ws, p)
  <2>1. Lend(got, kind, bytes)
    BY <1>4 DEF ReserveInternal
  <2>2. Layout(next) /\ next \in Workspace /\ next.phase >= InitOnce /\ next.phase >= Aligned
    BY <1>2, <1>4 DEF Fits, Layout, Shape, Workspace, Phases, Objects, InitOnce,
                      Aligned, Buffers
  <2>3. /\ Shape(got.ws) /\ Grows(next, got.ws)
        /\ got.ws.phase = next.phase
        /\ got.ws.initOnceStart = next.initOnceStart
        /\ got.ws.objectEnd = next.objectEnd
        /\ got.ptr = NULL \/ got.ptr \in Nat \ {0}
        /\ got.ptr = NULL => got.ws = [next EXCEPT !.allocFailed = TRUE]
    <3> HIDE DEF next
    <3>1. QED
      BY <2>2, <1>1, <1>2, LowersEnd DEF NULL
  <2> HIDE DEF next, got
  <2>4. /\ InitialAllocStart(got.ws) = InitialAllocStart(next)
        /\ got.ws \in Workspace /\ Layout(got.ws) /\ got.ws.workspace > 0
    BY <2>2, <2>3, <1>1, <1>2 DEF Layout, Shape, Grows, InitialAllocStart,
         InitOnce, Aligned, Workspace, Phases
  <2>5. touched \subseteq touched'
    BY <2>1 DEF Lend
  <2>6. OnceWritten(ws)' /\ ws' = got.ws
    BY <2>1, <2>3, <2>4, <2>5, <1>2 DEF Fits, OnceWritten, Lend
  <2>7. CASE got.ptr = NULL
    <3>1. UNCHANGED <<live, known, touched>> /\ got.ws.tableValidEnd = next.tableValidEnd
      BY <2>1, <2>7, <2>3, <2>2 DEF Lend, Workspace
    <3>2. TablesKnown(ws)'
      BY <3>1, <2>6, <2>3, <1>2 DEF Fits, TablesKnown
    <3>3. AreasWithin(ws)'
      BY <3>1, <2>2, <2>3, <2>4, <2>6, <1>1, <1>2, WithinGrows DEF AreasWithin, Fits
    <3>4. QED
      BY <3>1, <3>2, <3>3, <2>4, <2>6, <1>1 DEF CwkspInv, Fits, AreasApart
  <2>8. CASE got.ptr # NULL
    <3> DEFINE r == [kind |-> kind, lo |-> got.ptr, hi |-> got.ptr + bytes]
    <3>1. /\ live' = live \cup {r}
          /\ known' = known \ Cells(got.ptr, got.ptr + bytes)
      BY <2>1, <2>8 DEF Lend
    <3>2. /\ r \in LentAreas /\ r.lo < r.hi
          /\ \A s \in live \cup {r} : s.lo < s.hi /\ Within(got.ws, s)
          /\ \A s \in live : s.hi <= r.lo \/ r.hi <= s.lo
          /\ Cells(got.ws.objectEnd, got.ws.tableValidEnd)
               \subseteq known \ Cells(got.ptr, got.ptr + bytes)
      BY <2>2, <2>8, <1>1, <1>2, EndFits DEF got
    <3>3. live' \subseteq LentAreas /\ AreasApart'
      BY <3>1, <3>2, <1>1, AreaAdded DEF CwkspInv
    <3>4. AreasWithin(ws)' /\ TablesKnown(ws)'
      BY <3>1, <3>2, <2>6 DEF AreasWithin, TablesKnown
    <3>5. \A s \in live' : s.kind = "initonce" => Cells(s.lo, s.hi) \subseteq touched'
      BY <3>1, <2>5 DEF CwkspInv
    <3>6. QED
      BY <3>3, <3>4, <3>5, <2>4, <2>6 DEF CwkspInv, Fits
  <2>9. QED
    BY <2>7, <2>8
<1>5. QED
  BY <1>3, <1>4

\* ZSTD_cwksp_reserve_buffer keeps the invariant.
LEMMA BufferInv == \A bytes \in Sizes : CwkspInv /\ TakeBuffer(bytes) => CwkspInv'
  BY SizesAssumption, LendFromEnd DEF TakeBuffer, ReserveBuffer

\* ZSTD_cwksp_reserve_aligned64 keeps the invariant.
LEMMA AlignedInv == \A bytes \in Sizes : CwkspInv /\ TakeAligned(bytes) => CwkspInv'
<1> SUFFICES ASSUME NEW bytes \in Sizes, CwkspInv, TakeAligned(bytes) PROVE CwkspInv'
  OBVIOUS
<1>1. AlignUp(bytes) \in Nat \ {0}
  BY SizesAssumption, RoundedBelow
<1>2. QED
  BY <1>1, LendFromEnd DEF TakeAligned, ReserveAligned64

\* An object extends the region of objects; there is nothing else yet.
LEMMA ObjectInv == \A bytes \in Sizes : CwkspInv /\ TakeObject(bytes) => CwkspInv'
<1> SUFFICES ASSUME NEW bytes \in Sizes, CwkspInv, TakeObject(bytes) PROVE CwkspInv'
  OBVIOUS
<1> DEFINE got == ReserveObject(ws, bytes)
           end == ws.objectEnd + bytes
           r   == [kind |-> "object", lo |-> ws.objectEnd, hi |-> end]
<1> USE DEF Phases, Objects, InitOnce, Aligned, Buffers
<1>1. /\ bytes \in Nat \ {0} /\ ws \in Workspace /\ ws.workspace > 0
      /\ ws.phase = Objects /\ Lend(got, "object", bytes) /\ Shape(ws)
  BY SizesAssumption DEF TakeObject, CwkspInv, Fits, Layout, Shape
<1>2. CASE end > ws.workspaceEnd
  <2>1. ws' = [ws EXCEPT !.allocFailed = TRUE] /\ UNCHANGED <<live, known, touched>>
    BY <1>1, <1>2 DEF ReserveObject, Lend
  <2>2. /\ ws' \in Workspace /\ Grows(ws, ws')
        /\ InitialAllocStart(ws') = InitialAllocStart(ws)
    <3>1. ws' \in Workspace
      BY <2>1, <1>1 DEF Workspace
    <3>2. Grows(ws, ws')
      BY <2>1, <1>1 DEF Grows, Workspace
    <3>3. QED
      BY <3>1, <3>2 DEF Grows, InitialAllocStart
  <2>3. Layout(ws')
    BY <2>1, <2>2, <1>1 DEF CwkspInv, Fits, Layout, Shape, Workspace
  <2>4. AreasWithin(ws)' /\ AreasApart' /\ live' \subseteq LentAreas
    BY <2>1, <2>2, <1>1, WithinGrows DEF CwkspInv, Fits, AreasWithin, AreasApart
  <2>5. TablesKnown(ws)' /\ OnceWritten(ws)' /\ ws'.workspace > 0
    BY <2>1, <2>2, <1>1 DEF CwkspInv, Fits, TablesKnown, OnceWritten, Workspace
  <2>6. QED
    BY <2>1, <2>3, <2>4, <2>5 DEF CwkspInv, Fits
<1>3. CASE ~(end > ws.workspaceEnd)
  <2>1. /\ ws' = [ws EXCEPT !.objectEnd = end, !.tableEnd = end, !.tableValidEnd = end]
        /\ got.ptr = ws.objectEnd
    BY <1>1, <1>3 DEF ReserveObject, Lend
  <2>2. /\ got.ptr # NULL /\ end \in Nat /\ ws.objectEnd < end /\ ws.workspace <= end
        /\ end <= ws.workspaceEnd
    BY <2>1, <1>1, <1>3 DEF Shape, NULL, Workspace
  <2>3. live' = live \cup {r} /\ touched \subseteq touched'
    BY <2>1, <2>2, <1>1 DEF Lend
  <2> HIDE DEF end
  <2>4. /\ ws' \in Workspace /\ Grows(ws, ws')
        /\ InitialAllocStart(ws') = InitialAllocStart(ws)
    <3>1. ws' \in Workspace
      BY <2>1, <2>2, <1>1 DEF Workspace
    <3>2. Grows(ws, ws')
      BY <2>1, <2>2, <1>1 DEF Shape, Grows, Workspace
    <3>3. QED
      BY <3>1, <3>2 DEF Grows, InitialAllocStart
  <2>5. Layout(ws')
    BY <2>1, <2>2, <2>4, <1>1 DEF CwkspInv, Fits, Layout, Shape, Workspace
  <2>6. r \in LentAreas /\ r.lo < r.hi /\ Within(ws', r)
    BY <2>1, <2>2, <1>1 DEF LentAreas, Within, Shape, Workspace
  <2>7. \A s \in live : s.lo < s.hi /\ Within(ws', s) /\ s.hi <= r.lo
    <3>1. TAKE s \in live
    <3>2. s \in LentAreas /\ s.lo < s.hi /\ Within(ws, s)
      BY DEF CwkspInv, Fits, AreasWithin
    <3>3. s.hi <= r.lo
      BY <3>2, <1>1 DEF Within, LentAreas, Workspace
    <3>4. QED
      BY <3>2, <3>3, <2>4, <1>1, WithinGrows
  <2>8. AreasWithin(ws)'
    BY <2>3, <2>6, <2>7 DEF AreasWithin
  <2>9. live' \subseteq LentAreas /\ AreasApart'
    BY <2>3, <2>6, <2>7, AreaAdded DEF CwkspInv
  <2>10. TablesKnown(ws)'
    BY <2>1, <2>2, <1>1 DEF TablesKnown, Cells, Workspace
  <2>11. OnceWritten(ws)' /\ ws'.workspace > 0
    BY <2>1, <2>3, <2>4, <1>1 DEF CwkspInv, Fits, OnceWritten, Workspace
  <2>12. \A s \in live' : s.kind = "initonce" => Cells(s.lo, s.hi) \subseteq touched'
    BY <2>3 DEF CwkspInv
  <2>13. QED
    BY <2>5, <2>8, <2>9, <2>10, <2>11, <2>12 DEF CwkspInv, Fits
<1>4. QED
  BY <1>2, <1>3

\* An area of "init once" is zeroed as far as it has never been written: below
\* initOnceStart, for above it everything has been.
LEMMA InitOnceInv == \A bytes \in Sizes : CwkspInv /\ TakeInitOnce(bytes) => CwkspInv'
<1> SUFFICES ASSUME NEW bytes \in Sizes, CwkspInv, TakeInitOnce(bytes) PROVE CwkspInv'
  OBVIOUS
<1> DEFINE next == AdvancePhase(ws, InitOnce)
           size == AlignUp(bytes)
           got  == ReserveFromEnd(next, size)
           r    == [kind |-> "initonce", lo |-> got.ptr, hi |-> got.ptr + size]
<1>1. /\ Fits(ws) /\ live \subseteq LentAreas /\ ws.workspace > 0 /\ ws.phase <= InitOnce
      /\ bytes \in Nat \ {0} /\ size \in Nat \ {0} /\ ws \in Workspace
  BY SizesAssumption, RoundedBelow DEF TakeInitOnce, CwkspInv, Fits, Layout, Shape
<1>2. /\ Fits(next) /\ next.workspace = ws.workspace
      /\ CanAdvance(ws, InitOnce) => next.phase >= InitOnce
      /\ next.phase = ws.phase \/ next.phase = InitOnce
  BY <1>1, AdvanceFits
<1>3. CASE ~CanAdvance(ws, InitOnce)
  <2>1. ReserveAlignedInitOnce(ws, bytes) = [ws |-> next, ptr |-> NULL]
    BY <1>3 DEF ReserveAlignedInitOnce, ReserveInternal
  <2>2. ws' = next /\ UNCHANGED <<live, known, touched>>
    BY <2>1 DEF TakeInitOnce
  <2>3. ws'.workspace > 0
    BY <1>1, <1>2, <2>2
  <2>4. Fits(ws)'
    BY <1>2, <2>2 DEF Fits, AreasWithin, TablesKnown, OnceWritten
  <2>5. QED
    BY <2>2, <2>3, <2>4 DEF CwkspInv, AreasApart
<1>4. CASE CanAdvance(ws, InitOnce)
  <2>1. ReserveInternal(ws, size, InitOnce) = got
    BY <1>1, <1>4 DEF ReserveInternal
  <2>2. /\ Layout(next) /\ next \in Workspace /\ next.phase = InitOnce
        /\ next.initOnceStart <= next.allocStart
    BY <1>1, <1>2, <1>4 DEF Fits, Layout, Shape, Workspace, Phases, Objects,
         InitOnce, Aligned, Buffers
  <2>3. /\ Shape(got.ws) /\ Grows(next, got.ws)
        /\ got.ws.phase = InitOnce
        /\ got.ws.initOnceStart = next.initOnceStart
        /\ got.ptr = NULL => got.ws = [next EXCEPT !.allocFailed = TRUE]
        /\ got.ptr # NULL => /\ got.ptr \in Nat /\ got.ptr + size = next.allocStart
                             /\ got.ws.allocStart = got.ptr
    <3> HIDE DEF next, size
    <3>1. QED
      BY <2>2, <1>1, <1>2, LowersEnd DEF NULL, InitOnce
  <2>4. AdvancePhase(ws, InitOnce).initOnceStart = next.initOnceStart
    OBVIOUS
  <2>5. InitialAllocStart(next) \in Nat
    BY <2>2, RoundedBelow DEF InitialAllocStart, Workspace
  <2>6. CASE got.ptr = NULL
    <3>1. ReserveAlignedInitOnce(ws, bytes) = got
      BY <2>1, <2>6 DEF ReserveAlignedInitOnce
    <3>2. ws' = got.ws /\ UNCHANGED <<live, known, touched>>
      BY <2>6, <3>1 DEF TakeInitOnce
    <3> HIDE DEF next, got
    <3>3. /\ got.ws \in Workspace /\ InitialAllocStart(got.ws) = InitialAllocStart(next)
          /\ got.ws.workspace = next.workspace
      BY <2>3 DEF Shape, Grows, InitialAllocStart
    <3>4. /\ got.ws.allocStart = next.allocStart /\ got.ws.objectEnd = next.objectEnd
          /\ got.ws.tableValidEnd = next.tableValidEnd
      BY <2>6, <2>3, <2>2 DEF Workspace
    <3>5. Layout(ws')
      BY <2>2, <2>3, <3>2, <3>4 DEF Layout
    <3>6. AreasWithin(ws)' /\ AreasApart'
      BY <3>2, <3>3, <2>2, <2>3, <1>1, <1>2, WithinGrows
         DEF AreasWithin, AreasApart, Fits, CwkspInv
    <3>7. TablesKnown(ws)' /\ OnceWritten(ws)'
      BY <3>2, <3>3, <3>4, <2>3, <1>2 DEF TablesKnown, OnceWritten, Fits
    <3>8. QED
      BY <3>2, <3>3, <3>5, <3>6, <3>7, <1>1, <1>2 DEF CwkspInv, Fits
  <2>7. CASE got.ptr # NULL
    <3> DEFINE start == IF got.ptr < next.initOnceStart THEN got.ptr
                                                        ELSE next.initOnceStart
               zeroed == IF got.ptr < next.initOnceStart
                         THEN Cells(got.ptr, ZeroedEnd(next, bytes, got.ptr)) ELSE {}
    <3>0. /\ got.ptr \in Nat /\ got.ptr + size = next.allocStart
          /\ next.initOnceStart \in Nat /\ next.initOnceStart <= got.ptr + size
          /\ next.allocStart <= InitialAllocStart(next)
      BY <2>2, <2>3, <2>7 DEF Layout, Shape, Workspace
    <3>1. /\ ReserveAlignedInitOnce(ws, bytes).ptr = got.ptr
          /\ ReserveAlignedInitOnce(ws, bytes).ws = [got.ws EXCEPT !.initOnceStart = start]
      <4>1. got.ws \in Workspace
        BY <2>3 DEF Shape
      <4> DEFINE q == ReserveInternal(ws, size, InitOnce)
      <4>2. q = got
        BY <2>1
      <4>3. got = [ws |-> got.ws, ptr |-> got.ptr]
        BY DEF ReserveFromEnd
      <4> HIDE DEF got, q, next
      <4>4. ReserveAlignedInitOnce(ws, bytes)
              = IF q.ptr # NULL /\ q.ptr < q.ws.initOnceStart
                THEN [q EXCEPT !.ws.initOnceStart = q.ptr] ELSE q
        BY DEF ReserveAlignedInitOnce, q
      <4>5. got.ws = [got.ws EXCEPT !.initOnceStart = next.initOnceStart]
        BY <4>1, <2>3 DEF Workspace
      <4>6. CASE got.ptr < next.initOnceStart
        <5>1. ReserveAlignedInitOnce(ws, bytes) = [got EXCEPT !.ws.initOnceStart = got.ptr]
          BY <4>2, <4>4, <4>6, <2>3, <2>7
        <5>2. QED
          BY <5>1, <4>1, <4>3, <4>6
      <4>7. CASE ~(got.ptr < next.initOnceStart)
        BY <4>2, <4>4, <4>5, <4>7, <2>3
      <4>8. QED
        BY <4>6, <4>7
    <3>2. /\ ws' = [got.ws EXCEPT !.initOnceStart = start]
          /\ live' = live \cup {r}
          /\ known' = known \ Cells(got.ptr, got.ptr + size)
          /\ touched' = touched \cup zeroed
      BY <3>1, <2>7 DEF TakeInitOnce
    <3>3. /\ r \in LentAreas /\ r.lo < r.hi
          /\ \A s \in live \cup {r} : s.lo < s.hi /\ Within(got.ws, s)
          /\ \A s \in live : s.hi <= r.lo \/ r.hi <= s.lo
          /\ Cells(got.ws.objectEnd, got.ws.tableValidEnd)
               \subseteq known \ Cells(got.ptr, got.ptr + size)
      <4> HIDE DEF next, size
      <4>1. next.phase >= InitOnce /\ next.workspace > 0
        BY <2>2, <1>1, <1>2 DEF InitOnce
      <4>2. QED
        BY <4>1, <2>7, <1>1, <1>2, EndFits
    <3>4. Cells(start, InitialAllocStart(next)) \subseteq touched'
      <4>1. Cells(next.initOnceStart, InitialAllocStart(next)) \subseteq touched
        BY <1>2 DEF Fits, OnceWritten
      <4>2. CASE got.ptr < next.initOnceStart
        <5>1. ZeroedEnd(next, bytes, got.ptr) = next.initOnceStart
          <6>1. ZeroedEnd(next, bytes, got.ptr) = MIN(next.initOnceStart, got.ptr + size)
            BY DEF ZeroedEnd
          <6> HIDE DEF next, got, size
          <6>2. QED
            BY <6>1, <3>0, <1>1 DEF MIN
        <5>2. QED
          BY <4>1, <4>2, <5>1, <3>0, <3>2, <2>5 DEF Cells
      <4>3. CASE ~(got.ptr < next.initOnceStart)
        BY <4>1, <4>3, <3>2
      <4>4. QED
        BY <4>2, <4>3
    <3> HIDE DEF next, got, start, zeroed, size
    <3>5. start \in Nat /\ start <= got.ptr /\ start <= InitialAllocStart(next)
      BY <3>0, <2>5, <1>1 DEF start
    <3>6. Cells(r.lo, r.hi) \subseteq touched'
      BY <3>4, <3>0, <3>5, <2>5, <1>1 DEF Cells
    <3>7. got.ws \in Workspace /\ InitialAllocStart(got.ws) = InitialAllocStart(next)
      BY <2>3 DEF Shape, Grows, InitialAllocStart
    <3>8. /\ ws' \in Workspace /\ InitialAllocStart(ws') = InitialAllocStart(next)
          /\ ws'.workspace = got.ws.workspace /\ ws'.workspaceEnd = got.ws.workspaceEnd
          /\ ws'.objectEnd = got.ws.objectEnd /\ ws'.tableEnd = got.ws.tableEnd
          /\ ws'.tableValidEnd = got.ws.tableValidEnd
          /\ ws'.allocStart = got.ws.allocStart /\ ws'.phase = got.ws.phase
          /\ ws'.initOnceStart = start
      BY <3>2, <3>5, <3>7 DEF Workspace, InitialAllocStart
    <3>9. Layout(ws')
      BY <3>5, <3>7, <3>8, <2>3, <2>7 DEF Layout, Shape
    <3>10. AreasWithin(ws)'
      BY <3>2, <3>3, <3>7, <3>8 DEF AreasWithin, Within
    <3>11. TablesKnown(ws)' /\ OnceWritten(ws)'
      BY <3>2, <3>3, <3>4, <3>8 DEF TablesKnown, OnceWritten
    <3>12. live' \subseteq LentAreas /\ AreasApart'
      BY <3>2, <3>3, <1>1, AreaAdded DEF CwkspInv
    <3>13. \A s \in live' : s.kind = "initonce" => Cells(s.lo, s.hi) \subseteq touched'
      BY <3>2, <3>6 DEF CwkspInv
    <3>14. ws'.workspace > 0
      BY <3>8, <2>3, <1>1, <1>2 DEF Grows
    <3>15. QED
      BY <3>9, <3>10, <3>11, <3>12, <3>13, <3>14 DEF CwkspInv, Fits
  <2>8. QED
    BY <2>6, <2>7
<1>5. QED
  BY <1>3, <1>4

\* Tables grow towards what is reserved from the end.
LEMMA TableInv == \A bytes \in Sizes : CwkspInv /\ TakeTable(bytes) => CwkspInv'
<1> SUFFICES ASSUME NEW bytes \in Sizes, CwkspInv, TakeTable(bytes) PROVE CwkspInv'
  OBVIOUS
<1> DEFINE next == AdvancePhase(ws, InitOnce)
           end  == next.tableEnd + bytes
           r    == [kind |-> "table", lo |-> next.tableEnd, hi |-> end]
<1>1. /\ Fits(ws) /\ live \subseteq LentAreas /\ ws.workspace > 0
      /\ bytes \in Nat \ {0} /\ ws \in Workspace
  BY SizesAssumption DEF TakeTable, CwkspInv, Fits, Layout, Shape
<1>2. /\ Fits(next) /\ next.workspace = ws.workspace
      /\ CanAdvance(ws, InitOnce) => next.phase >= InitOnce
      /\ next \in Workspace /\ Layout(next)
  BY <1>1, AdvanceFits DEF Fits, Layout, Shape
<1>3. CASE ~CanAdvance(ws, InitOnce)
  <2>1. ws' = next /\ UNCHANGED <<live, known, touched>>
    BY <1>3 DEF TakeTable, ReserveTable
  <2>2. Fits(ws)' /\ ws'.workspace > 0
    BY <1>1, <1>2, <2>1 DEF Fits, AreasWithin, TablesKnown, OnceWritten
  <2>3. QED
    BY <2>1, <2>2 DEF CwkspInv, AreasApart
<1>4. CASE CanAdvance(ws, InitOnce) /\ end > next.allocStart
  <2>1. ws' = [next EXCEPT !.allocFailed = TRUE] /\ UNCHANGED <<live, known, touched>>
    BY <1>4 DEF TakeTable, ReserveTable
  <2> HIDE DEF next
  <2>2. ws' \in Workspace /\ Grows(next, ws')
    <3>1. ws' \in Workspace
      BY <2>1, <1>2 DEF Workspace
    <3>2. QED
      BY <3>1, <2>1, <1>2 DEF Grows, Workspace, Phases, Objects, Buffers
  <2>3. InitialAllocStart(ws') = InitialAllocStart(next)
    BY <2>2 DEF Grows, InitialAllocStart
  <2>4. Layout(ws')
    BY <2>1, <2>2, <2>3, <1>2 DEF Layout, Shape, Workspace
  <2>5. AreasWithin(ws)'
    BY <2>1, <2>2, <1>1, <1>2, WithinGrows DEF Fits, AreasWithin
  <2>6. TablesKnown(ws)' /\ OnceWritten(ws)' /\ ws'.workspace > 0
    BY <2>1, <2>3, <1>1, <1>2 DEF Fits, TablesKnown, OnceWritten, Workspace
  <2>7. QED
    BY <2>1, <2>4, <2>5, <2>6 DEF CwkspInv, Fits, AreasApart
<1>5. CASE CanAdvance(ws, InitOnce) /\ ~(end > next.allocStart)
  <2> HIDE DEF next
  <2>1. /\ next.phase >= InitOnce /\ next.workspace > 0 /\ end \in Nat
        /\ next.tableEnd < end /\ end <= next.allocStart
        /\ next.workspace <= next.objectEnd /\ next.objectEnd <= next.tableEnd
        /\ next.tableEnd <= next.allocStart
    BY <1>1, <1>2, <1>5 DEF Layout, Shape, Workspace
  <2>2. ReserveTable(ws, bytes) = [ws |-> [next EXCEPT !.tableEnd = end],
                                   ptr |-> next.tableEnd]
    BY <1>5 DEF ReserveTable, next
  <2>3. next.tableEnd # NULL
    BY <2>1, <1>2 DEF NULL, Workspace
  <2>4. /\ ws' = [next EXCEPT !.tableEnd = end] /\ live' = live \cup {r}
        /\ UNCHANGED <<known, touched>>
    BY <2>2, <2>3 DEF TakeTable
  <2> HIDE DEF end
  <2>5. ws' \in Workspace /\ Grows(next, ws')
    BY <2>1, <2>4, <1>2 DEF Grows, Workspace, Phases, Objects, Buffers
  <2>6. InitialAllocStart(ws') = InitialAllocStart(next)
    BY <2>5 DEF Grows, InitialAllocStart
  <2>7. InitialAllocStart(next) \in Nat /\ InitialAllocStart(next) <= next.workspaceEnd
    BY <1>2, RoundedBelow DEF InitialAllocStart, Workspace
  <2>8. Layout(ws')
    BY <2>1, <2>4, <2>5, <2>6, <2>7, <1>2
       DEF Layout, Shape, Workspace, Objects, InitOnce
  <2>9. r \in LentAreas /\ r.lo < r.hi /\ Within(ws', r)
    BY <2>1, <2>4, <1>2 DEF LentAreas, Within, Workspace
  <2>10. \A s \in live : s.lo < s.hi /\ Within(ws', s) /\ (s.hi <= r.lo \/ r.hi <= s.lo)
    <3>1. TAKE s \in live
    <3>2. s \in LentAreas /\ s.lo < s.hi /\ Within(next, s)
      BY <1>1, <1>2 DEF Fits, AreasWithin
    <3>3. s.hi <= r.lo \/ r.hi <= s.lo
      BY <3>2, <2>1, <1>2 DEF Within, LentAreas, Workspace
    <3>4. QED
      BY <3>2, <3>3, <2>5, <1>2, WithinGrows
  <2>11. AreasWithin(ws)' /\ live' \subseteq LentAreas /\ AreasApart'
    BY <2>4, <2>9, <2>10, <1>1, AreaAdded DEF CwkspInv, AreasWithin
  <2>12. TablesKnown(ws)' /\ OnceWritten(ws)' /\ ws'.workspace > 0
    BY <2>4, <2>6, <2>1, <1>2 DEF Fits, TablesKnown, OnceWritten, Workspace
  <2>13. \A s \in live' : s.kind = "initonce" => Cells(s.lo, s.hi) \subseteq touched'
    BY <2>4 DEF CwkspInv
  <2>14. QED
    BY <2>8, <2>11, <2>12, <2>13 DEF CwkspInv, Fits
<1>6. QED
  BY <1>3, <1>4, <1>5

-----------------------------------------------------------------------------
(* Steps on the tables, and the life of the workspace. *)

\* A step that changes no more than tableValidEnd of the workspace.
LEMMA OnlyValidEnd ==
  ASSUME CwkspInv, ws.phase >= InitOnce, NEW end \in Nat,
         ws' = [ws EXCEPT !.tableValidEnd = end], live' = live,
         touched \subseteq touched',
         Cells(ws.objectEnd, end) \subseteq known'
  PROVE  CwkspInv'
<1>1. ws \in Workspace /\ Layout(ws)
  BY DEF CwkspInv, Fits, Layout, Shape
<1>2. /\ ws' \in Workspace /\ Grows(ws, ws')
      /\ ws'.objectEnd = ws.objectEnd /\ ws'.initOnceStart = ws.initOnceStart
      /\ ws'.tableValidEnd = end
  <2>1. ws' \in Workspace
    BY <1>1 DEF Workspace
  <2>2. QED
    BY <2>1, <1>1 DEF Grows, Workspace, Phases, Objects, Buffers
<1>3. InitialAllocStart(ws') = InitialAllocStart(ws)
  BY <1>2 DEF Grows, InitialAllocStart
<1>4. Layout(ws')
  BY <1>1, <1>2, <1>3 DEF Layout, Shape, Workspace
<1>5. AreasWithin(ws)'
  BY <1>1, <1>2, WithinGrows DEF CwkspInv, Fits, AreasWithin
<1>6. TablesKnown(ws)' /\ OnceWritten(ws)'
  BY <1>2, <1>3 DEF CwkspInv, Fits, TablesKnown, OnceWritten
<1>7. ws'.workspace > 0
  <2>1. ws.workspace > 0
    BY DEF CwkspInv, NoWorkspace, Objects, InitOnce
  <2>2. QED
    BY <2>1, <1>2 DEF Grows
<1>8. QED
  BY <1>4, <1>5, <1>6, <1>7 DEF CwkspInv, Fits, AreasApart

\* ZSTD_cwksp_clean_tables keeps the invariant: what it calls clean is.
LEMMA CleanInv == CwkspInv /\ Clean => CwkspInv'
<1> SUFFICES ASSUME CwkspInv, Clean PROVE CwkspInv'
  OBVIOUS
<1> DEFINE end == MAX(ws.tableValidEnd, ws.tableEnd)
<1>1. ws \in Workspace
  BY DEF CwkspInv, Fits, Layout, Shape
<1>2. end \in Nat /\ ws' = [ws EXCEPT !.tableValidEnd = end]
  BY <1>1 DEF Clean, CleanTables, MarkTablesClean, MAX, Workspace
<1>3. Cells(ws.objectEnd, end) \subseteq known'
  BY <1>1 DEF Clean, ToClean, Cells, MAX, CwkspInv, Fits, TablesKnown, Workspace
<1>4. QED
  BY <1>2, <1>3, OnlyValidEnd DEF Clean

\* After "dirty" and "clean" the tables are claimed, and nothing above them.
LEMMA DirtyClean ==
  ASSUME NEW w \in Workspace, w.objectEnd <= w.tableEnd
  PROVE  MarkTablesClean(MarkTablesDirty(w)) = [w EXCEPT !.tableValidEnd = w.tableEnd]
<1> DEFINE d == [w EXCEPT !.tableValidEnd = w.objectEnd]
<1>1. /\ d \in Workspace /\ d.tableEnd = w.tableEnd /\ d.tableValidEnd = w.objectEnd
      /\ w.objectEnd \in Nat /\ w.tableEnd \in Nat
  BY DEF Workspace
<1>2. MAX(d.tableValidEnd, d.tableEnd) = w.tableEnd
  BY <1>1 DEF MAX
<1>3. MarkTablesClean(MarkTablesDirty(w)) = [d EXCEPT !.tableValidEnd = w.tableEnd]
  BY <1>2 DEF MarkTablesClean, MarkTablesDirty
<1>4. QED
  BY <1>3 DEF Workspace

\* Copying, reducing and dirtying the tables keeps the invariant.
LEMMA TablesInv == CwkspInv /\ (CopyTables \/ ReduceTables \/ ResetIndices) => CwkspInv'
<1> SUFFICES ASSUME CwkspInv, CopyTables \/ ReduceTables \/ ResetIndices PROVE CwkspInv'
  OBVIOUS
<1>1. /\ ws \in Workspace /\ ws.objectEnd <= ws.tableEnd
      /\ ws.objectEnd \in Nat /\ ws.tableEnd \in Nat
  BY DEF CwkspInv, Fits, Layout, Shape, Workspace
<1>2. CASE CopyTables
  <2>1. ws' = [ws EXCEPT !.tableValidEnd = ws.tableEnd]
    BY <1>1, <1>2, DirtyClean DEF CopyTables
  <2>2. QED
    BY <1>1, <1>2, <2>1, OnlyValidEnd DEF CopyTables
<1>3. CASE ReduceTables
  <2>1. ws' = [ws EXCEPT !.tableValidEnd = ws.tableEnd]
    BY <1>1, <1>3, DirtyClean DEF ReduceTables
  <2>2. QED
    BY <1>1, <1>3, <2>1, OnlyValidEnd DEF ReduceTables
<1>4. CASE ResetIndices
  <2>1. Cells(ws.objectEnd, ws.objectEnd) = {}
    BY <1>1 DEF Cells
  <2>2. QED
    BY <1>1, <1>4, <2>1, OnlyValidEnd DEF ResetIndices, MarkTablesDirty
<1>5. QED
  BY <1>2, <1>3, <1>4

\* A step that takes tables, or all that is no object, back.  What is known of
\* the contents stays, for a later table may lie there again.
LEMMA DropInv == CwkspInv /\ DropTables => CwkspInv'
<1> SUFFICES ASSUME CwkspInv, DropTables PROVE CwkspInv'
  OBVIOUS
<1>1. ws \in Workspace /\ Layout(ws) /\ ws.phase >= InitOnce /\ ws.workspace > 0
  BY DEF CwkspInv, Fits, Layout, Shape, DropTables, NoWorkspace, Objects, InitOnce
<1>2. /\ ws' = [ws EXCEPT !.tableEnd = ws.objectEnd]
      /\ live' = {r \in live : r.kind # "table"}
      /\ UNCHANGED <<known, touched>>
  BY DEF DropTables, ClearTables, Tables
<1>3. ws' \in Workspace /\ InitialAllocStart(ws') = InitialAllocStart(ws)
  BY <1>1, <1>2 DEF Workspace, InitialAllocStart
<1>4. Layout(ws')
  BY <1>1, <1>2, <1>3 DEF Layout, Shape, Workspace, Objects, InitOnce
<1>5. AreasWithin(ws)' /\ live' \subseteq LentAreas /\ AreasApart'
  BY <1>1, <1>2, <1>3 DEF CwkspInv, Fits, AreasWithin, AreasApart, Within, Workspace
<1>6. TablesKnown(ws)' /\ OnceWritten(ws)' /\ ws'.workspace > 0
  BY <1>1, <1>2, <1>3 DEF CwkspInv, Fits, TablesKnown, OnceWritten, Workspace
<1>7. QED
  BY <1>2, <1>4, <1>5, <1>6 DEF CwkspInv, Fits

\* ZSTD_cwksp_clear keeps the invariant: what it gives back is lent to nobody.
LEMMA RestartInv == CwkspInv /\ Restart => CwkspInv'
<1> SUFFICES ASSUME CwkspInv, Restart PROVE CwkspInv'
  OBVIOUS
<1> DEFINE down == InitialAllocStart(ws)
<1>1. ws \in Workspace /\ Layout(ws) /\ ws.workspace > 0 /\ down \in Nat
  BY RoundedBelow DEF CwkspInv, Fits, Layout, Shape, Restart, InitialAllocStart, Workspace
<1>2. /\ ws' = [ws EXCEPT !.tableEnd = ws.objectEnd, !.allocStart = down,
                          !.allocFailed = FALSE, !.phase = MIN(ws.phase, InitOnce)]
      /\ live' = {r \in live : r.kind = "object"}
      /\ UNCHANGED <<known, touched>>
  BY DEF Restart, Clear
<1>3. /\ MIN(ws.phase, InitOnce) \in Phases
      /\ MIN(ws.phase, InitOnce) = Objects <=> ws.phase = Objects
      /\ ws.phase # Objects => ws.phase >= InitOnce
  BY <1>1 DEF MIN, Workspace, Phases, Objects, InitOnce, Aligned, Buffers
<1> HIDE DEF down
<1>4. /\ ws' \in Workspace
      /\ ws'.workspace = ws.workspace /\ ws'.workspaceEnd = ws.workspaceEnd
      /\ ws'.objectEnd = ws.objectEnd /\ ws'.tableEnd = ws.objectEnd
      /\ ws'.tableValidEnd = ws.tableValidEnd
      /\ ws'.initOnceStart = ws.initOnceStart /\ ws'.allocStart = down
      /\ ws'.phase = Objects <=> ws.phase = Objects
  BY <1>1, <1>2, <1>3 DEF Workspace
<1>5. InitialAllocStart(ws') = down
  BY <1>4 DEF InitialAllocStart, down
<1>6. Layout(ws')
  <2>1. /\ ws.workspace <= ws.objectEnd /\ ws.objectEnd <= ws.workspaceEnd
        /\ ws.initOnceStart <= down
        /\ ws.phase # Objects => ws.objectEnd <= down
    BY <1>1, <1>3 DEF Layout, Shape, Workspace, down
  <2>2. ws'.phase >= InitOnce => ws'.phase # Objects
    BY DEF Objects, InitOnce
  <2>3. QED
    BY <1>1, <1>4, <1>5, <2>1, <2>2 DEF Layout, Shape, Workspace
<1>7. AreasWithin(ws)' /\ live' \subseteq LentAreas /\ AreasApart'
  BY <1>2, <1>4 DEF CwkspInv, Fits, AreasWithin, AreasApart, Within
<1>8. TablesKnown(ws)' /\ OnceWritten(ws)' /\ ws'.workspace > 0
  BY <1>1, <1>2, <1>4, <1>5 DEF CwkspInv, Fits, TablesKnown, OnceWritten, down
<1>9. QED
  BY <1>2, <1>6, <1>7, <1>8 DEF CwkspInv, Fits

\* A workspace begins and ends with nothing lent out.
LEMMA FreeInv == CwkspInv /\ Free => CwkspInv'
<1> SUFFICES ASSUME CwkspInv, Free PROVE CwkspInv'
  OBVIOUS
<1> USE DEF Phases, Objects, InitOnce, Aligned, Buffers, NULL
<1>1. ws' = NoWorkspace /\ live' = {} /\ known' = {} /\ touched' = {}
  BY DEF Free
<1>2. InitialAllocStart(NoWorkspace) = 0
  BY AlignmentAssumption DEF InitialAllocStart, NoWorkspace, AlignDown
<1>3. Layout(NoWorkspace)
  BY <1>2 DEF Layout, Shape, NoWorkspace, Workspace
<1>4. Fits(ws)'
  BY <1>1, <1>2, <1>3
     DEF Fits, AreasWithin, TablesKnown, OnceWritten, NoWorkspace, Cells
<1>5. QED
  BY <1>1, <1>4 DEF CwkspInv, AreasApart

\* ZSTD_cwksp_create establishes the invariant anew, whatever the memory holds.
LEMMA CreateInv == \A size \in Capacity : CwkspInv /\ Create(size) => CwkspInv'
<1> SUFFICES ASSUME NEW size \in Capacity, CwkspInv, Create(size) PROVE CwkspInv'
  OBVIOUS
<1> USE DEF Phases, Objects, InitOnce, Aligned, Buffers, NULL
<1>1. live = {}
  <2>1. InitialAllocStart(NoWorkspace) = 0
    BY AlignmentAssumption DEF InitialAllocStart, NoWorkspace, AlignDown
  <2>2. ASSUME NEW r \in live PROVE FALSE
    <3>1. ws = NoWorkspace /\ r \in LentAreas /\ r.lo < r.hi /\ Within(ws, r)
      BY DEF Create, CwkspInv, Fits, AreasWithin
    <3>2. QED
      BY <3>1, <2>1 DEF Within, LentAreas, NoWorkspace
  <2>3. QED
    BY <2>2
<1> DEFINE down == AlignDown(Base + size)
<1>2. /\ Base \in Nat \ {0} /\ size \in Nat /\ Base + size \in Nat
      /\ down \in Nat /\ down <= Base + size
  BY BaseAssumption, CapacityAssumption, RoundedBelow
<1> DEFINE w == [workspace |-> Base, workspaceEnd |-> Base + size,
                 objectEnd |-> Base, tableEnd |-> Base, tableValidEnd |-> Base,
                 allocStart |-> Base, initOnceStart |-> down,
                 allocFailed |-> FALSE, oversizedDuration |-> 0, phase |-> Objects]
<1> DEFINE v == [workspace |-> Base, workspaceEnd |-> Base + size,
                 objectEnd |-> Base, tableEnd |-> Base, tableValidEnd |-> Base,
                 allocStart |-> down, initOnceStart |-> down,
                 allocFailed |-> FALSE, oversizedDuration |-> 0, phase |-> 0]
<1>3. w.phase = 0 /\ MIN(w.phase, InitOnce) = 0 /\ InitialAllocStart(w) = down
  BY DEF InitialAllocStart, MIN
<1>4. ws' = v /\ UNCHANGED <<live, known, touched>>
  <2>1. Clear(w) = [w EXCEPT !.tableEnd = Base, !.allocStart = down,
                             !.allocFailed = FALSE, !.phase = 0]
    <3> w.objectEnd = Base
      OBVIOUS
    <3> HIDE DEF w, down
    <3>1. QED
      BY <1>3 DEF Clear
  <2>2. Clear(w) = v
    BY <2>1
  <2>3. QED
    BY <2>2 DEF Create, InitWorkspace
<1> HIDE DEF down
<1>5. /\ ws' \in Workspace /\ InitialAllocStart(ws') = down /\ ws'.workspace > 0
      /\ ws'.initOnceStart = down /\ ws'.tableValidEnd = ws'.objectEnd
      /\ ws'.objectEnd \in Nat
  <2>1. v \in Workspace
    BY <1>2 DEF Workspace
  <2>2. QED
    BY <2>1, <1>2, <1>4 DEF InitialAllocStart, down
<1> HIDE DEF v
<1>6. ws'.objectEnd = Base
  BY <1>4 DEF v
<1>7. Layout(ws')
  BY <1>2, <1>4, <1>5 DEF Layout, Shape, v
<1>8. Fits(ws)'
  <2>1. Cells(Base, Base) = {} /\ Cells(down, down) = {}
    BY <1>2 DEF Cells
  <2>2. TablesKnown(ws)' /\ OnceWritten(ws)'
    BY <1>5, <1>6, <2>1 DEF TablesKnown, OnceWritten
  <2>3. QED
    BY <1>1, <1>4, <1>7, <2>2 DEF Fits, AreasWithin
<1>9. QED
  BY <1>1, <1>4, <1>5, <1>8 DEF CwkspInv, AreasApart

-----------------------------------------------------------------------------
(* The theorems. *)

\* The invariant holds in every state of every client.
THEOREM CwkspInvariant == CwkspSpec => []CwkspInv
<1>1. CwkspInit => CwkspInv
  <2> SUFFICES ASSUME CwkspInit PROVE CwkspInv
    OBVIOUS
  <2> USE DEF Phases, Objects, InitOnce, Aligned, Buffers, NULL
  <2>1. InitialAllocStart(NoWorkspace) = 0
    BY AlignmentAssumption DEF InitialAllocStart, NoWorkspace, AlignDown
  <2>2. Layout(NoWorkspace)
    BY <2>1 DEF Layout, Shape, NoWorkspace, Workspace
  <2>3. Fits(ws)
    BY <2>1, <2>2 DEF CwkspInit, Fits, AreasWithin, TablesKnown, OnceWritten,
                      NoWorkspace, Cells
  <2>4. QED
    BY <2>3 DEF CwkspInit, CwkspInv, AreasApart
<1>2. CwkspInv /\ [CwkspNext]_cwkspVars => CwkspInv'
  <2> SUFFICES ASSUME CwkspInv, [CwkspNext]_cwkspVars PROVE CwkspInv'
    OBVIOUS
  <2>1. CASE UNCHANGED cwkspVars
    BY <2>1 DEF cwkspVars, CwkspInv, Fits, AreasWithin, TablesKnown, OnceWritten, AreasApart
  <2>2. ASSUME NEW bytes \in Sizes,
               \/ TakeObject(bytes)  \/ TakeBuffer(bytes) \/ TakeAligned(bytes)
               \/ TakeInitOnce(bytes) \/ TakeTable(bytes)
        PROVE  CwkspInv'
    BY <2>2, ObjectInv, BufferInv, AlignedInv, InitOnceInv, TableInv
  <2>3. QED
    BY <2>1, <2>2, CreateInv, FreeInv, CleanInv, TablesInv, DropInv, RestartInv
       DEF CwkspNext
<1>3. QED
  BY <1>1, <1>2, PTL DEF CwkspSpec

\* No two areas lent out overlap, and all lie within the workspace.
THEOREM WorkspaceDisjoint == CwkspSpec => []Disjoint
<1>1. CwkspInv => Disjoint
  <2> SUFFICES ASSUME CwkspInv PROVE Disjoint
    OBVIOUS
  <2>1. /\ ws \in Workspace /\ live \subseteq LentAreas
        /\ ws.workspace <= ws.objectEnd /\ ws.objectEnd <= ws.tableEnd
        /\ ws.tableEnd <= ws.workspaceEnd
        /\ ws.phase >= InitOnce => ws.tableEnd <= ws.allocStart
        /\ InitialAllocStart(ws) \in Nat /\ InitialAllocStart(ws) <= ws.workspaceEnd
    BY RoundedBelow DEF CwkspInv, Fits, Layout, Shape, Workspace, InitialAllocStart
  <2>2. ASSUME NEW r \in live
        PROVE  ws.workspace <= r.lo /\ r.lo < r.hi /\ r.hi <= ws.workspaceEnd
    <3>1. r \in LentAreas /\ r.lo < r.hi /\ Within(ws, r)
      BY <2>1 DEF CwkspInv, Fits, AreasWithin
    <3>2. QED
      BY <3>1, <2>1 DEF Within, LentAreas, Workspace
  <2>3. QED
    BY <2>2 DEF Disjoint, CwkspInv, AreasApart
<1>2. QED
  BY <1>1, CwkspInvariant, PTL

\* What the workspace says of its contents is true.
THEOREM WorkspaceContentsKnown == CwkspSpec => []ContentsKnown
<1>1. CwkspInv => ContentsKnown
  BY DEF CwkspInv, Fits, TablesKnown, ContentsKnown
<1>2. QED
  BY <1>1, CwkspInvariant, PTL


-----------------------------------------------------------------------------
(* The window.  The inductive invariant. *)

Window == [base : Int, dictBase : Int, dictLimit : Int, lowLimit : Int,
           nextSrc : Int]
Memories == [Addresses -> Int]

WinTypeOK ==
  /\ win \in Window
  /\ loadedDictEnd \in Int
  /\ dms \in Int
  /\ nextToUpdate \in Nat
  /\ forceSegment \in BOOLEAN
  /\ todo \in [src : Int, left : Nat]
  /\ blk \in [lo : Int, hi : Int]
  /\ entry \in [idx : Int, of : Int]
  /\ mem \in Memories
  /\ frameStart \in Int
  /\ open \in BOOLEAN

\* The segments in order: the older one, then the one that grows.
Ordered(w) ==
  /\ w \in Window
  /\ StartIndex <= w.lowLimit
  /\ w.lowLimit <= w.dictLimit
  /\ w.dictLimit <= End(w)

AddressIn(w, i) == IF i >= w.dictLimit THEN w.base + i ELSE w.dictBase + i

\* HistoryIntact for all that is in the window, not only up to the block.
Intact(w, memory) ==
  \A i \in Int : w.lowLimit <= i /\ i < End(w) =>
    /\ AddressIn(w, i) \in Addresses
    /\ memory[AddressIn(w, i)] = i

\* What is left of the chunk is the end of the window, and it is all in the
\* segment that grows.
ChunkInv ==
  todo.left > 0 =>
    /\ todo.src + todo.left = win.nextSrc
    /\ win.dictLimit <= IndexOf(win, todo.src)

\* Positions that are entered in the tables from nextToUpdate on never lie in
\* the older segment, whose bytes are not found at base.
UpdateInv == win.dictLimit <= MAX(nextToUpdate, win.lowLimit)

\* No cell points beyond the window: a new frame puts all of them out of reach.
EntryInv == EntryFaithful /\ entry.idx < End(win)

\* Before the frame has any data the window is empty, and not too close to the
\* end for a dictionary that is too short to be entered.
OpenInv ==
  open => /\ todo.left = 0 /\ blk = NoBlock
          /\ win.lowLimit = End(win)
          /\ loadedDictEnd = 0 /\ dms = NoDictionary
          /\ End(win) <= CurrentMax - Margin

\* A dictionary that may be used ends where the frame begins.
DictInv ==
  /\ loadedDictEnd # 0 => frameStart = loadedDictEnd
  /\ dms # NoDictionary => loadedDictEnd # 0 /\ dms <= loadedDictEnd

BlockInv ==
  blk # NoBlock =>
    /\ blk.hi <= End(win)
    /\ loadedDictEnd # 0 => /\ loadedDictEnd = win.dictLimit
                            /\ blk.hi <= loadedDictEnd + MaxDist

WinInv ==
  /\ WinTypeOK
  /\ Ordered(win)
  /\ Intact(win, mem)
  /\ ChunkInv
  /\ UpdateInv
  /\ EntryInv
  /\ OpenInv
  /\ DictInv
  /\ BlockInv
  /\ IndicesBounded

-----------------------------------------------------------------------------
(* The operators. *)

\* ZSTD_window_update: the window stays in order, only grows at its end, and
\* every index that is still valid stands for the byte it was given to, also
\* where the chunk lies over the older segment.
LEMMA UpdateKeeps ==
  ASSUME win \in Window, mem \in Memories, Ordered(win), Intact(win, mem),
         NEW src \in Addresses, NEW size \in Nat, size > 0,
         src + size - 1 <= Memory, NEW force,
         NEW v, v = WindowUpdate(win, src, size, force)
  PROVE  /\ Ordered(v)
         /\ v.nextSrc = src + size
         /\ IndexOf(v, src) = End(win)
         /\ End(v) = End(win) + size
         /\ win.lowLimit <= v.lowLimit
         /\ v.dictLimit <= End(win)
         /\ Contiguous(win, src, force) => v.dictLimit = win.dictLimit
         /\ Written(v, src, size) \in Memories
         /\ Intact(v, Written(v, src, size))
<1> DEFINE u == [(IF Contiguous(win, src, force) THEN win
                  ELSE NewSegment(win, src)) EXCEPT !.nextSrc = src + size]
<1> DEFINE high == src + size - u.dictBase
<1>1. src \in Int /\ Memory \in Int /\ 1 <= src /\ src <= Memory
  BY BlockAssumption DEF Addresses
<1>2. /\ win.base \in Int /\ win.dictBase \in Int /\ win.dictLimit \in Int
      /\ win.lowLimit \in Int /\ win.nextSrc \in Int
  BY DEF Window
<1>3. u \in Window /\ u.nextSrc = src + size
  <2>1. NewSegment(win, src) \in Window
    <3> DEFINE e == End(win)
    <3> DEFINE low == IF e - win.dictLimit < HashReadSize THEN e
                      ELSE win.dictLimit
    <3>1. e \in Int /\ low \in Int /\ src - e \in Int
      BY <1>1, <1>2, HashReadSizeAssumption DEF End, IndexOf
    <3>2. NewSegment(win, src) =
            [win EXCEPT !.lowLimit = low, !.dictLimit = e,
                        !.dictBase = win.base, !.base = src - e]
      BY DEF NewSegment
    <3> HIDE DEF e, low
    <3>3. QED
      BY <1>2, <3>1, <3>2 DEF Window
  <2>2. QED
    BY <1>1, <2>1 DEF Window
<1>4. ASSUME Contiguous(win, src, force)
      PROVE  /\ src = win.nextSrc /\ u.base = win.base
             /\ u.dictBase = win.dictBase /\ u.dictLimit = win.dictLimit
             /\ u.lowLimit = win.lowLimit
  BY <1>2, <1>4 DEF Contiguous, Window
<1>5. ASSUME ~Contiguous(win, src, force)
      PROVE  /\ u.base = src - End(win) /\ u.dictBase = win.base
             /\ u.dictLimit = End(win)
             /\ u.lowLimit \in {win.dictLimit, End(win)}
  BY <1>2, <1>5 DEF NewSegment, Window
<1>6. high \in Int /\ End(win) \in Int /\ HashReadSize \in Int
  BY <1>1, <1>2, <1>3, HashReadSizeAssumption DEF Window, End, IndexOf
<1>7. /\ u.base = src - End(win)
      /\ StartIndex <= u.lowLimit /\ u.lowLimit <= u.dictLimit
      /\ u.dictLimit <= End(win) /\ win.lowLimit <= u.lowLimit
  BY <1>1, <1>2, <1>4, <1>5, StartIndexAssumption DEF Ordered, End, IndexOf
<1>8. v = IF high > u.lowLimit /\ src < u.dictBase + u.dictLimit
          THEN [u EXCEPT !.lowLimit = MIN(high, u.dictLimit)] ELSE u
  BY <1>1 DEF WindowUpdate
<1> HIDE DEF u
<1>9. /\ v \in Window /\ v.base = u.base /\ v.dictBase = u.dictBase
      /\ v.dictLimit = u.dictLimit /\ v.nextSrc = u.nextSrc
  BY <1>3, <1>6, <1>8 DEF Window, MIN
<1>10. v.lowLimit = IF high > u.lowLimit /\ src < u.dictBase + u.dictLimit
                    THEN MIN(high, u.dictLimit) ELSE u.lowLimit
  BY <1>3, <1>8 DEF Window
<1>11. /\ u.lowLimit \in Int /\ u.dictLimit \in Int /\ u.base \in Int
       /\ u.dictBase \in Int /\ v.lowLimit \in Int
  BY <1>3, <1>9 DEF Window
<1>12. u.lowLimit <= v.lowLimit /\ v.lowLimit <= u.dictLimit
  BY <1>6, <1>7, <1>10, <1>11 DEF MIN
<1>13. End(v) = End(win) + size /\ IndexOf(v, src) = End(win)
  BY <1>1, <1>3, <1>6, <1>7, <1>9, <1>11 DEF End, IndexOf
<1>14. Ordered(v) /\ win.lowLimit <= v.lowLimit /\ v.dictLimit <= End(win)
  BY <1>2, <1>6, <1>7, <1>9, <1>11, <1>12, <1>13, StartIndexAssumption
     DEF Ordered
<1>15. Written(v, src, size) \in Memories
  BY <1>1, <1>9, <1>11 DEF Written, Memories, IndexOf, Addresses
<1>16. ASSUME NEW i \in Int, v.lowLimit <= i, i < End(v)
       PROVE  /\ AddressIn(v, i) \in Addresses
              /\ Written(v, src, size)[AddressIn(v, i)] = i
  <2>1. CASE i >= End(win)
    <3>1. AddressIn(v, i) = v.base + i
      BY <1>6, <1>7, <1>9, <1>11, <2>1 DEF AddressIn
    <3>2. v.base + i \in src .. src + size - 1
      BY <1>1, <1>6, <1>7, <1>9, <1>11, <1>13, <1>16, <2>1
    <3>3. v.base + i \in Addresses
      BY <1>1, <3>2 DEF Addresses
    <3>4. IndexOf(v, v.base + i) = i
      BY <1>9, <1>11 DEF IndexOf
    <3>5. QED
      BY <3>1, <3>2, <3>3, <3>4 DEF Written
  <2>2. CASE i < End(win)
    <3>1. /\ AddressIn(win, i) \in Addresses
          /\ mem[AddressIn(win, i)] = i
      BY <1>2, <1>11, <1>14, <1>16, <2>2 DEF Intact
    <3>2. AddressIn(v, i) = AddressIn(win, i)
      BY <1>1, <1>2, <1>4, <1>5, <1>6, <1>7, <1>9, <1>11, <1>12, <1>16, <2>2
         DEF AddressIn, Ordered, End, IndexOf
    <3>3. AddressIn(v, i) \notin src .. src + size - 1
      <4>1. CASE i >= v.dictLimit
        <5>1. Contiguous(win, src, force)
          BY <1>5, <1>6, <1>9, <2>2, <4>1
        <5>2. QED
          BY <1>1, <1>2, <1>4, <1>9, <2>2, <4>1, <5>1
             DEF AddressIn, End, IndexOf
      <4>2. CASE i < v.dictLimit
        <5>1. AddressIn(v, i) = u.dictBase + i
          BY <1>9, <1>11, <4>2 DEF AddressIn
        <5>2. high <= i \/ u.dictBase + u.dictLimit <= src
          BY <1>1, <1>6, <1>9, <1>10, <1>11, <1>16, <4>2 DEF MIN
        <5>3. QED
          BY <1>1, <1>9, <1>11, <4>2, <5>1, <5>2
      <4>3. QED
        BY <1>9, <1>11, <4>1, <4>2
    <3>4. QED
      BY <3>1, <3>2, <3>3 DEF Written
  <2>3. QED
    BY <1>6, <2>1, <2>2
<1>17. Contiguous(win, src, force) => v.dictLimit = win.dictLimit
  BY <1>4, <1>9
<1>18. QED
  BY <1>3, <1>9, <1>13, <1>14, <1>15, <1>16, <1>17 DEF Intact

\* What lies below lowLimit may be forgotten.
LEMMA RememberedKeeps ==
  ASSUME NEW w, Ordered(w), NEW memory \in Memories, Intact(w, memory)
  PROVE  /\ Remembered(w, memory) \in Memories
         /\ Intact(w, Remembered(w, memory))
<1>1. w.lowLimit \in Int
  BY DEF Ordered, Window
<1>2. \A a \in Addresses : memory[a] \in Int
  BY DEF Memories
<1>3. Remembered(w, memory) \in Memories
  BY <1>2 DEF Remembered, Memories, Forgotten
<1>4. ASSUME NEW i \in Int, w.lowLimit <= i, i < End(w)
      PROVE  /\ AddressIn(w, i) \in Addresses
             /\ Remembered(w, memory)[AddressIn(w, i)] = i
  <2>1. AddressIn(w, i) \in Addresses /\ memory[AddressIn(w, i)] = i
    BY <1>4 DEF Intact
  <2>2. QED
    BY <1>1, <1>4, <2>1 DEF Remembered
<1>5. QED
  BY <1>3, <1>4 DEF Intact

\* ZSTD_window_correctOverflow: the amount is not negative, it leaves the index
\* of the input at StartIndex or above, and as much input as may come in one
\* piece then fits below the limit.
LEMMA CorrectionBounds ==
  ASSUME NEW w \in Window, NEW ip \in Int, NEW size \in Nat,
         size <= BlockMax \/ size <= ChunkMax,
         NeedOverflowCorrection(w, ip + size)
  PROVE  /\ Correction(w, ip) \in Nat
         /\ StartIndex <= IndexOf(w, ip) - Correction(w, ip)
         /\ IndexOf(w, ip) - Correction(w, ip) + size <= CurrentMax
<1> DEFINE curr == IndexOf(w, ip)
<1> DEFINE cycle == curr % CycleSize
<1> DEFINE start == IF cycle < StartIndex THEN MAX(CycleSize, StartIndex) ELSE 0
<1> DEFINE far == MAX(MaxDist, CycleSize)
<1>1. /\ StartIndex \in Int /\ 1 < StartIndex /\ CycleSize \in Int
      /\ 1 <= CycleSize /\ MaxDist \in Int /\ 1 <= MaxDist
      /\ BlockMax \in Int /\ ChunkMax \in Int /\ 1 <= BlockMax /\ 1 <= ChunkMax
      /\ CurrentMax \in Int
  BY StartIndexAssumption, CycleAssumption, DistAssumption, BlockAssumption,
     CurrentMaxAssumption DEF UnsortedMark
<1>2. curr \in Int /\ IndexOf(w, ip + size) = curr + size
  BY DEF Window, IndexOf
<1>3. cycle \in Int /\ 0 <= cycle /\ cycle < CycleSize
  BY <1>1, <1>2
<1>4. far \in Int /\ 1 <= far
  BY <1>1 DEF MAX
<1>5. /\ start \in Int /\ 0 <= start /\ start <= CycleSize + StartIndex
      /\ StartIndex <= cycle + start
  BY <1>1, <1>3 DEF MAX
<1>6. CurrentMax >= 2 * CycleSize + StartIndex + far + BlockMax + ChunkMax
  BY CurrentMaxAssumption
<1>7. Correction(w, ip) = curr - (cycle + start + far)
  BY DEF Correction
<1>8. curr + size > CurrentMax
  BY <1>2 DEF NeedOverflowCorrection
<1> HIDE DEF curr, cycle, start, far
<1>9. curr - (cycle + start + far) \in Nat
  BY <1>1, <1>2, <1>3, <1>4, <1>5, <1>6, <1>8
<1>10. StartIndex <= cycle + start + far
       /\ cycle + start + far + size <= CurrentMax
  BY <1>1, <1>2, <1>3, <1>4, <1>5, <1>6
<1>11. QED
  BY <1>2, <1>3, <1>4, <1>5, <1>7, <1>9, <1>10 DEF curr

\* ZSTD_window_correctOverflow: an index that is still valid afterwards was valid
\* before, and stands for the same byte.
LEMMA ShiftKeeps ==
  ASSUME NEW w, Ordered(w), NEW memory \in Memories, Intact(w, memory),
         NEW by \in Nat, StartIndex <= End(w) - by,
         NEW v, v = CorrectOverflow(w, by)
  PROVE  /\ Ordered(v)
         /\ End(v) = End(w) - by
         /\ v.base = w.base + by /\ v.nextSrc = w.nextSrc
         /\ v.lowLimit = ShiftLimit(w.lowLimit, by)
         /\ v.dictLimit = ShiftLimit(w.dictLimit, by)
         /\ Shifted(memory, by) \in Memories
         /\ Intact(v, Shifted(memory, by))
<1>1. /\ w.base \in Int /\ w.dictBase \in Int /\ w.dictLimit \in Int
      /\ w.lowLimit \in Int /\ w.nextSrc \in Int /\ End(w) \in Int
      /\ StartIndex <= w.lowLimit /\ w.lowLimit <= w.dictLimit
      /\ w.dictLimit <= End(w) /\ StartIndex \in Int /\ 0 < StartIndex
      /\ w \in Window /\ w.base + by \in Int /\ w.dictBase + by \in Int
  BY StartIndexAssumption DEF Ordered, Window, End, IndexOf, UnsortedMark
<1> DEFINE low == ShiftLimit(w.lowLimit, by)
<1> DEFINE dict == ShiftLimit(w.dictLimit, by)
<1>2. low \in Int /\ dict \in Int
  BY <1>1 DEF ShiftLimit
<1>3. v = [w EXCEPT !.base = w.base + by, !.dictBase = w.dictBase + by,
                    !.lowLimit = low, !.dictLimit = dict]
  BY DEF CorrectOverflow, Ordered, Window
<1>4. StartIndex <= low /\ low <= dict /\ dict <= End(w) - by
  BY <1>1 DEF ShiftLimit
<1>5. /\ \A i \in Int : low <= i => w.lowLimit <= i + by
      /\ \A i \in Int : low <= i => (dict <= i <=> w.dictLimit <= i + by)
  BY <1>1, <1>4 DEF ShiftLimit
<1> HIDE DEF low, dict
<1>6. /\ v \in Window /\ v.base = w.base + by /\ v.dictBase = w.dictBase + by
      /\ v.nextSrc = w.nextSrc /\ v.lowLimit = low /\ v.dictLimit = dict
  BY <1>1, <1>2, <1>3 DEF Window
<1>7. End(v) = End(w) - by
  BY <1>1, <1>6 DEF End, IndexOf
<1>8. Ordered(v)
  BY <1>4, <1>6, <1>7 DEF Ordered
<1>9. \A a \in Addresses : memory[a] \in Int
  BY DEF Memories
<1>10. Shifted(memory, by) \in Memories
  BY <1>9 DEF Shifted, Memories, Rebase, MAX, Forgotten
<1>11. ASSUME NEW i \in Int, v.lowLimit <= i, i < End(v)
       PROVE  /\ AddressIn(v, i) \in Addresses
              /\ Shifted(memory, by)[AddressIn(v, i)] = i
  <2>1. w.lowLimit <= i + by /\ i + by < End(w) /\ i + by \in Int
    BY <1>1, <1>5, <1>6, <1>7, <1>11
  <2>2. AddressIn(v, i) = AddressIn(w, i + by)
    BY <1>1, <1>2, <1>5, <1>6, <1>11 DEF AddressIn
  <2>3. /\ AddressIn(w, i + by) \in Addresses
        /\ memory[AddressIn(w, i + by)] = i + by
    BY <2>1 DEF Intact
  <2>4. Rebase(i + by, by) = i
    BY <1>1, <1>2, <1>4, <1>6, <1>11 DEF Rebase, MAX, Forgotten
  <2>5. QED
    BY <2>2, <2>3, <2>4 DEF Shifted
<1>12. QED
  BY <1>6, <1>7, <1>8, <1>10, <1>11 DEF Intact, low, dict

\* ZSTD_reduceTable_internal: a cell that is too old to be shifted becomes 0 or
\* keeps the mark, and neither is an index; any other still tells the truth.
LEMMA ReducedFaithful ==
  ASSUME NEW by \in Nat, Ordered(win), StartIndex <= End(win) - by,
         entry \in [idx : Int, of : Int], EntryInv,
         NEW c \in ReducedEntry(by)
  PROVE  /\ c \in [idx : Int, of : Int]
         /\ ShiftLimit(win.lowLimit, by) <= c.idx => c.of = c.idx
         /\ c.idx < End(win) - by
<1>1. PICK mark \in BOOLEAN :
        c = [idx |-> ReduceCell(entry.idx, by, mark), of |-> Rebase(entry.of, by)]
  BY DEF ReducedEntry
<1>2. /\ c.idx = ReduceCell(entry.idx, by, mark)
      /\ c.of = Rebase(entry.of, by)
  BY <1>1
<1>3. /\ entry.idx \in Int /\ entry.of \in Int /\ win.lowLimit \in Int
      /\ End(win) \in Int /\ StartIndex \in Int /\ 1 < StartIndex
      /\ StartIndex <= win.lowLimit
  BY StartIndexAssumption DEF Ordered, Window, End, IndexOf, UnsortedMark
<1>4. c \in [idx : Int, of : Int]
  <2>1. ReduceCell(entry.idx, by, mark) \in Int /\ Rebase(entry.of, by) \in Int
    BY <1>3 DEF ReduceCell, Rebase, MAX, Forgotten, UnsortedMark
  <2>2. QED
    BY <1>1, <2>1
<1>5. c.idx < End(win) - by
  BY <1>2, <1>3 DEF ReduceCell, UnsortedMark, EntryInv
<1>6. ASSUME ShiftLimit(win.lowLimit, by) <= c.idx PROVE c.of = c.idx
  <2>1. StartIndex <= c.idx
    BY <1>3, <1>4, <1>6 DEF ShiftLimit
  <2>2. by + StartIndex <= entry.idx /\ c.idx = entry.idx - by
    BY <1>2, <1>3, <2>1 DEF ReduceCell, UnsortedMark
  <2>3. win.lowLimit <= entry.idx
    BY <1>3, <1>6, <2>2 DEF ShiftLimit
  <2>4. entry.of = entry.idx
    BY <1>3, <2>3 DEF EntryInv, EntryFaithful
  <2>5. QED
    BY <1>2, <1>3, <2>2, <2>4 DEF Rebase, MAX, Forgotten
<1>7. QED
  BY <1>4, <1>5, <1>6

\* ZSTD_overflowCorrectIfNeeded, for a chunk in the segment that grows.
LEMMA OverflowKeeps ==
  ASSUME NEW w, Ordered(w), NEW memory \in Memories, Intact(w, memory),
         NEW d \in Int, NEW s \in Int, NEW n \in Nat,
         w.dictLimit <= MAX(n, w.lowLimit),
         NEW ip \in Int, NEW size \in Nat, size <= BlockMax \/ size <= ChunkMax,
         w.dictLimit <= IndexOf(w, ip), ip + size <= w.nextSrc,
         NEW f, f = OverflowCorrectIfNeeded(
                      [win |-> w, dictEnd |-> d, dms |-> s, next |-> n],
                      ip, ip + size)
  PROVE  /\ f.by \in Nat
         /\ StartIndex <= IndexOf(w, ip) - f.by
         /\ StartIndex <= End(w) - f.by
         /\ Ordered(f.ms.win)
         /\ Shifted(memory, f.by) \in Memories
         /\ Intact(f.ms.win, Shifted(memory, f.by))
         /\ f.ms.win.base = w.base + f.by
         /\ f.ms.win.nextSrc = w.nextSrc
         /\ f.ms.win.lowLimit = ShiftLimit(w.lowLimit, f.by)
         /\ f.ms.win.dictLimit <= IndexOf(f.ms.win, ip)
         /\ f.ms.win.dictLimit <= MAX(f.ms.next, f.ms.win.lowLimit)
         /\ f.ms.next = ShiftUpdate(n, f.by)
         /\ IndexOf(f.ms.win, ip + size) <= CurrentMax
         /\ \/ f.by = 0 /\ f.ms.dictEnd = d /\ f.ms.dms = s
            \/ f.ms.dictEnd = 0 /\ f.ms.dms = NoDictionary
         /\ f.ms = [win |-> f.ms.win, dictEnd |-> f.ms.dictEnd,
                    dms |-> f.ms.dms, next |-> f.ms.next]
<1> DEFINE m == [win |-> w, dictEnd |-> d, dms |-> s, next |-> n]
<1> DEFINE by == Correction(w, ip)
<1>1. /\ w.base \in Int /\ w.dictLimit \in Int /\ w.lowLimit \in Int
      /\ w.nextSrc \in Int /\ w \in Window /\ End(w) \in Int
      /\ StartIndex <= w.lowLimit /\ w.lowLimit <= w.dictLimit
      /\ StartIndex \in Int /\ 1 < StartIndex /\ CurrentMax \in Int
  BY StartIndexAssumption, CurrentMaxAssumption
     DEF Ordered, Window, End, IndexOf, UnsortedMark
<1>2. IndexOf(w, ip) \in Int /\ IndexOf(w, ip) <= End(w)
      /\ IndexOf(w, ip + size) = IndexOf(w, ip) + size
  BY <1>1 DEF IndexOf, End
<1>3. CASE ~NeedOverflowCorrection(w, ip + size)
  <2>1. f = [ms |-> m, by |-> 0]
    BY <1>3 DEF OverflowCorrectIfNeeded
  <2>2. f.by = 0 /\ f.ms = m /\ f.ms.win = w /\ f.ms.dictEnd = d /\ f.ms.dms = s
        /\ f.ms.next = n
    BY <2>1
  <2>3. StartIndex <= IndexOf(w, ip)
    BY <1>1, <1>2
  <2>4. Shifted(memory, 0) \in Memories
    BY DEF Memories, Shifted, Rebase, MAX, Forgotten
  <2>5. Intact(w, Shifted(memory, 0))
    <3>1. ASSUME NEW i \in Int, w.lowLimit <= i, i < End(w)
          PROVE  /\ AddressIn(w, i) \in Addresses
                 /\ Shifted(memory, 0)[AddressIn(w, i)] = i
      <4>1. AddressIn(w, i) \in Addresses /\ memory[AddressIn(w, i)] = i
        BY <3>1 DEF Intact
      <4>2. Rebase(i, 0) = i
        BY <1>1, <3>1 DEF Rebase, MAX, Forgotten
      <4>3. QED
        BY <4>1, <4>2 DEF Shifted
    <3>2. QED
      BY <3>1 DEF Intact
  <2>6. ShiftLimit(w.lowLimit, 0) = w.lowLimit /\ ShiftUpdate(n, 0) = n
    BY <1>1 DEF ShiftLimit, ShiftUpdate
  <2>7. IndexOf(w, ip + size) <= CurrentMax
    BY <1>1, <1>2, <1>3 DEF NeedOverflowCorrection
  <2>8. w.base = w.base + 0 /\ StartIndex <= IndexOf(w, ip) - 0
        /\ StartIndex <= End(w) - 0
    BY <1>1, <1>2, <2>3
  <2>9. QED
    BY <2>2, <2>4, <2>5, <2>6, <2>7, <2>8
<1>4. CASE NeedOverflowCorrection(w, ip + size)
  <2> DEFINE v == CorrectOverflow(w, by)
  <2> DEFINE g == [win |-> v, dictEnd |-> 0, dms |-> NoDictionary,
                   next |-> ShiftUpdate(n, by)]
  <2>1. f = [ms |-> g, by |-> by]
    BY <1>4 DEF OverflowCorrectIfNeeded, Invalidated
  <2>2. f.by = by /\ f.ms = g /\ f.ms.win = v /\ f.ms.dictEnd = 0
        /\ f.ms.dms = NoDictionary /\ f.ms.next = ShiftUpdate(n, by)
    BY <2>1
  <2>3. /\ by \in Nat /\ StartIndex <= IndexOf(w, ip) - by
        /\ IndexOf(w, ip) - by + size <= CurrentMax
    BY <1>1, <1>4, CorrectionBounds
  <2> HIDE DEF by, g
  <2>4. StartIndex <= End(w) - by
    BY <1>1, <1>2, <2>3
  <2>5. /\ Ordered(v)
        /\ End(v) = End(w) - by
        /\ v.base = w.base + by /\ v.nextSrc = w.nextSrc
        /\ v.lowLimit = ShiftLimit(w.lowLimit, by)
        /\ v.dictLimit = ShiftLimit(w.dictLimit, by)
        /\ Shifted(memory, by) \in Memories
        /\ Intact(v, Shifted(memory, by))
    BY <2>3, <2>4, ShiftKeeps
  <2> HIDE DEF v
  <2>6. IndexOf(v, ip) = IndexOf(w, ip) - by
        /\ IndexOf(v, ip + size) = IndexOf(w, ip) - by + size
    BY <1>1, <1>2, <2>3, <2>5 DEF IndexOf
  <2>7. v.dictLimit <= IndexOf(v, ip)
    BY <1>1, <1>2, <2>3, <2>5, <2>6 DEF ShiftLimit
  <2>8. v.dictLimit <= MAX(ShiftUpdate(n, by), v.lowLimit)
    BY <1>1, <2>3, <2>5 DEF ShiftLimit, ShiftUpdate, MAX
  <2>9. QED
    BY <2>2, <2>3, <2>4, <2>5, <2>6, <2>7, <2>8 DEF g
<1>5. QED
  BY <1>3, <1>4

\* ZSTD_checkDictValidity and ZSTD_window_enforceMaxDist: what is left of the
\* window is still intact, and a dictionary that is still used is at most a
\* window away from the end of the block.
LEMMA EnforceKeeps ==
  ASSUME NEW w, Ordered(w), NEW memory \in Memories, Intact(w, memory),
         NEW d \in Int, NEW s \in Int, NEW n \in Nat,
         w.dictLimit <= MAX(n, w.lowLimit),
         NEW ip \in Int, NEW size \in Nat,
         w.dictLimit <= IndexOf(w, ip), ip + size <= w.nextSrc,
         NEW m, m = EnforceMaxDist(CheckDictValidity(
                      [win |-> w, dictEnd |-> d, dms |-> s, next |-> n],
                      ip + size), ip)
  PROVE  /\ Ordered(m.win)
         /\ Intact(m.win, memory)
         /\ m.win.base = w.base /\ m.win.nextSrc = w.nextSrc
         /\ w.lowLimit <= m.win.lowLimit
         /\ m.win.dictLimit <= IndexOf(w, ip)
         /\ m.win.dictLimit <= MAX(n, m.win.lowLimit)
         /\ m.next = n
         /\ \/ /\ m.dictEnd = d /\ m.dms = s
               /\ m.dictEnd = m.win.dictLimit
               /\ IndexOf(w, ip + size) <= m.dictEnd + MaxDist
            \/ m.dictEnd = 0 /\ m.dms = NoDictionary
<1> DEFINE r == [win |-> w, dictEnd |-> d, dms |-> s, next |-> n]
<1> DEFINE k == CheckDictValidity(r, ip + size)
<1> DEFINE idx == IndexOf(w, ip)
<1> DEFINE low == MAX(w.lowLimit, idx - MaxDist)
<1> DEFINE dict == MAX(w.dictLimit, low)
<1>1. /\ w.base \in Int /\ w.dictBase \in Int /\ w.dictLimit \in Int
      /\ w.lowLimit \in Int /\ w.nextSrc \in Int /\ w \in Window
      /\ End(w) \in Int /\ idx \in Int /\ MaxDist \in Int /\ 1 <= MaxDist
      /\ w.lowLimit <= w.dictLimit
  BY DistAssumption DEF Ordered, Window, End, IndexOf
<1>2. idx <= End(w) /\ IndexOf(w, ip + size) = idx + size
  BY <1>1 DEF IndexOf, End
<1>3. /\ k.win = w /\ k.next = n
      /\ k = [win |-> w, dictEnd |-> k.dictEnd, dms |-> k.dms, next |-> n]
      /\ \/ /\ k.dictEnd = d /\ k.dms = s
            /\ d = w.dictLimit /\ idx + size <= d + MaxDist
         \/ k.dictEnd = 0 /\ k.dms = NoDictionary
  <2>1. CASE idx + size > d + MaxDist \/ d # w.dictLimit
    <3>1. k = [win |-> w, dictEnd |-> 0, dms |-> NoDictionary, next |-> n]
      BY <1>2, <2>1 DEF CheckDictValidity, Invalidated
    <3>2. QED
      BY <3>1
  <2>2. CASE ~(idx + size > d + MaxDist \/ d # w.dictLimit)
    <3>1. k = r
      BY <1>2, <2>2 DEF CheckDictValidity
    <3>2. idx + size <= d + MaxDist /\ d = w.dictLimit
      BY <1>1, <2>2
    <3>3. QED
      BY <3>1, <3>2
  <2>3. QED
    BY <2>1, <2>2
<1>7. m = EnforceMaxDist(k, ip)
  OBVIOUS
<1> HIDE DEF k
<1>4. CASE idx <= MaxDist + k.dictEnd
  <2>1. m = k
    BY <1>3, <1>4, <1>7 DEF EnforceMaxDist
  <2>2. QED
    BY <1>1, <1>2, <1>3, <2>1
<1>5. CASE ~(idx <= MaxDist + k.dictEnd)
  <2> DEFINE v == [w EXCEPT !.lowLimit = low, !.dictLimit = dict]
  <2>1. m.win = v /\ m.dictEnd = 0 /\ m.dms = NoDictionary /\ m.next = n
    <3>1. Invalidated(k) = [win |-> w, dictEnd |-> 0, dms |-> NoDictionary,
                            next |-> n]
      <4>1. \A a, b :
              Invalidated([win |-> w, dictEnd |-> a, dms |-> b, next |-> n])
                = [win |-> w, dictEnd |-> 0, dms |-> NoDictionary, next |-> n]
        <5>1. TAKE a, b
        <5>2. [[win |-> w, dictEnd |-> a, dms |-> b, next |-> n]
                 EXCEPT !.dictEnd = 0]
                = [win |-> w, dictEnd |-> 0, dms |-> b, next |-> n]
          OBVIOUS
        <5>3. [[win |-> w, dictEnd |-> 0, dms |-> b, next |-> n]
                 EXCEPT !.dms = NoDictionary]
                = [win |-> w, dictEnd |-> 0, dms |-> NoDictionary, next |-> n]
          OBVIOUS
        <5>4. QED
          BY <5>2, <5>3 DEF Invalidated
      <4>2. QED
        BY <1>3, <4>1
    <3>2. m = [Invalidated(k) EXCEPT !.win.lowLimit = low,
                                     !.win.dictLimit = dict]
      BY <1>3, <1>5, <1>7 DEF EnforceMaxDist
    <3>3. low \in Int /\ dict \in Int
      BY <1>1 DEF MAX
    <3> HIDE DEF low, dict
    <3>4. m = [[win |-> w, dictEnd |-> 0, dms |-> NoDictionary, next |-> n]
                 EXCEPT !.win.lowLimit = low, !.win.dictLimit = dict]
      BY <3>1, <3>2
    <3>5. QED
      BY <1>1, <3>3, <3>4 DEF Window, NoDictionary
  <2>2. /\ low \in Int /\ dict \in Int /\ w.lowLimit <= low /\ low <= dict
        /\ dict <= idx /\ dict <= MAX(n, low)
        /\ w.dictLimit <= dict /\ (dict = w.dictLimit \/ dict = low)
    BY <1>1 DEF MAX
  <2> HIDE DEF low, dict
  <2>3. /\ v \in Window /\ v.base = w.base /\ v.dictBase = w.dictBase
        /\ v.nextSrc = w.nextSrc /\ v.lowLimit = low /\ v.dictLimit = dict
    BY <1>1, <2>2 DEF Window
  <2> HIDE DEF v
  <2>4. End(v) = End(w)
    BY <2>3 DEF End, IndexOf
  <2>5. Ordered(v)
    BY <1>1, <1>2, <2>2, <2>3, <2>4, StartIndexAssumption DEF Ordered
  <2>6. ASSUME NEW i \in Int, v.lowLimit <= i, i < End(v)
        PROVE  AddressIn(v, i) \in Addresses /\ memory[AddressIn(v, i)] = i
    <3>1. w.lowLimit <= i /\ i < End(w)
      BY <1>1, <2>2, <2>3, <2>4, <2>6
    <3>2. AddressIn(v, i) = AddressIn(w, i)
      BY <1>1, <2>2, <2>3, <2>6 DEF AddressIn
    <3>3. QED
      BY <3>1, <3>2 DEF Intact
  <2>7. QED
    BY <2>1, <2>2, <2>3, <2>5, <2>6 DEF Intact
<1>6. QED
  BY <1>4, <1>5

\* A shift by nothing.
LEMMA UnshiftedKeeps ==
  ASSUME NEW w, Ordered(w), NEW memory \in Memories, Intact(w, memory)
  PROVE  Shifted(memory, 0) \in Memories /\ Intact(w, Shifted(memory, 0))
<1>1. Shifted(memory, 0) \in Memories
  BY DEF Memories, Shifted, Rebase, MAX, Forgotten
<1>2. ASSUME NEW i \in Int, w.lowLimit <= i, i < End(w)
      PROVE  /\ AddressIn(w, i) \in Addresses
             /\ Shifted(memory, 0)[AddressIn(w, i)] = i
  <2>1. AddressIn(w, i) \in Addresses /\ memory[AddressIn(w, i)] = i
    BY <1>2 DEF Intact
  <2>2. Rebase(i, 0) = i
    BY <1>2, StartIndexAssumption
       DEF Rebase, MAX, Forgotten, Ordered, Window, UnsortedMark
  <2>3. QED
    BY <2>1, <2>2 DEF Shifted
<1>3. QED
  BY <1>1, <1>2 DEF Intact

\* ZSTD_window_clear: nothing in the window may be used any more.
LEMMA ClearKeeps ==
  ASSUME NEW x \in Window, StartIndex <= End(x), NEW memory
  PROVE  /\ Ordered(WindowClear(x))
         /\ Intact(WindowClear(x), memory)
         /\ End(WindowClear(x)) = End(x)
         /\ WindowClear(x).lowLimit = End(x)
         /\ WindowClear(x).dictLimit = End(x)
<1> DEFINE v == WindowClear(x)
<1>1. x.base \in Int /\ x.nextSrc \in Int /\ End(x) \in Int
  BY DEF Window, End, IndexOf
<1>2. v = [x EXCEPT !.lowLimit = End(x), !.dictLimit = End(x)]
  BY DEF WindowClear
<1> HIDE DEF v
<1>3. /\ v \in Window /\ v.base = x.base /\ v.nextSrc = x.nextSrc
      /\ v.lowLimit = End(x) /\ v.dictLimit = End(x)
  BY <1>1, <1>2 DEF Window
<1>4. End(v) = End(x)
  BY <1>1, <1>3 DEF End, IndexOf
<1>5. Ordered(v)
  BY <1>1, <1>3, <1>4 DEF Ordered
<1>6. Intact(v, memory)
  BY <1>1, <1>3, <1>4 DEF Intact
<1>7. QED
  BY <1>3, <1>4, <1>5, <1>6 DEF v

\* The position that is entered next has its bytes where the window says.
LEMMA EnteredFaithful ==
  ASSUME NEW w, Ordered(w), NEW memory \in Memories, Intact(w, memory),
         NEW p \in Int, w.dictLimit <= p, p < End(w)
  PROVE  /\ EntryAt(w, memory, p) \in [idx : Int, of : Int]
         /\ EntryAt(w, memory, p).idx = p
         /\ EntryAt(w, memory, p).of = p
<1>1. w.lowLimit <= p /\ AddressIn(w, p) = w.base + p
  BY DEF Ordered, Window, AddressIn
<1>2. w.base + p \in Addresses /\ memory[w.base + p] = p
  BY <1>1 DEF Intact
<1>3. EntryAt(w, memory, p) = [idx |-> p, of |-> p]
  BY <1>2 DEF EntryAt
<1>4. QED
  BY <1>3

\* The constants' types, as the steps below need them.
LEMMA ConstantTypes ==
  /\ StartIndex \in Nat /\ 1 < StartIndex
  /\ HashReadSize \in Nat /\ 0 < HashReadSize
  /\ CurrentMax \in Nat /\ Margin \in Nat /\ HashReadSize <= Margin
  /\ MaxDist \in Nat /\ 0 < MaxDist
  /\ BlockMax \in Nat /\ ChunkMax \in Nat /\ Memory \in Nat
  /\ StartIndex <= CurrentMax - Margin
  /\ StartIndex + ChunkMax <= CurrentMax
<1>1. CycleSize \in Nat /\ 0 < CycleSize /\ MaxDist \in Nat /\ 0 < MaxDist
  BY CycleAssumption, DistAssumption
<1>2. MAX(MaxDist, CycleSize) \in Nat
  BY <1>1 DEF MAX
<1>3. QED
  BY <1>1, <1>2, StartIndexAssumption, HashReadSizeAssumption, BlockAssumption,
     CurrentMaxAssumption DEF UnsortedMark

-----------------------------------------------------------------------------
(* The invariant is inductive. *)

\* The window of a new context.
LEMMA WinInitInv == WinInit => WinInv
<1> SUFFICES ASSUME WinInit PROVE WinInv
  OBVIOUS
<1> USE DEF WinInit
<1>1. /\ win \in Window /\ End(win) = StartIndex
      /\ win.lowLimit = StartIndex /\ win.dictLimit = StartIndex
  BY ConstantTypes DEF WindowInit, Window, End, IndexOf
<1>2. WinTypeOK
  <2>1. Empty \in Memories /\ NoBlock \in [lo : Int, hi : Int]
        /\ Blank \in [idx : Int, of : Int]
    BY DEF Empty, Memories, Forgotten, NoBlock, Blank
  <2>2. forceSegment \in BOOLEAN /\ open \in BOOLEAN
    OBVIOUS
  <2>3. todo \in [src : Int, left : Nat]
    OBVIOUS
  <2>4. QED
    BY <1>1, <2>1, <2>2, <2>3, ConstantTypes DEF WinTypeOK, NoDictionary
<1>3. Ordered(win) /\ Intact(win, mem)
  BY <1>1, ConstantTypes DEF Ordered, Intact
<1>4. ChunkInv /\ DictInv /\ BlockInv
  BY DEF ChunkInv, DictInv, BlockInv
<1>5. UpdateInv
  BY <1>1, ConstantTypes DEF UpdateInv, MAX
<1>6. EntryInv
  BY <1>1, ConstantTypes DEF EntryInv, EntryFaithful, Blank
<1>7. OpenInv /\ IndicesBounded
  BY <1>1, ConstantTypes DEF OpenInv, IndicesBounded, NoBlock
<1>8. QED
  BY <1>2, <1>3, <1>4, <1>5, <1>6, <1>7 DEF WinInv

\* ZSTD_resetCCtx_internal, the match state's part.
LEMMA NewFrameStep ==
  ASSUME WinInv, NEW fresh \in BOOLEAN, NewFrame(fresh)
  PROVE  WinInv'
<1> DEFINE x == IF fresh THEN WindowInit ELSE win
<1> DEFINE w == WindowClear(x)
<1>1. /\ x \in Window /\ StartIndex <= End(x)
      /\ fresh => End(x) = StartIndex
      /\ ~fresh => End(x) = End(win)
  BY ConstantTypes DEF WindowInit, Window, End, IndexOf, WinInv, Ordered
<1> HIDE DEF x
<1>2. /\ win' = w /\ loadedDictEnd' = 0 /\ dms' = NoDictionary
      /\ nextToUpdate' = w.dictLimit /\ frameStart' = End(w) /\ open' = TRUE
      /\ blk' = NoBlock /\ mem' = Empty /\ todo' = todo /\ todo.left = 0
      /\ entry' = (IF fresh THEN Blank ELSE entry)
      /\ forceSegment' = forceSegment
      /\ IndexTooCloseToMax(win) => fresh
  BY DEF NewFrame, SetState, x
<1>3. /\ Ordered(w) /\ Intact(w, Empty) /\ End(w) = End(x)
      /\ w.lowLimit = End(x) /\ w.dictLimit = End(x)
  BY <1>1, ClearKeeps
<1>4. End(x) \in Int
  BY <1>1 DEF Window, End, IndexOf
<1> HIDE DEF w
<1>5. End(win) \in Int
  BY DEF WinInv, WinTypeOK, Window, End, IndexOf
<1>6. WinTypeOK'
  <2>1. Empty \in Memories /\ NoBlock \in [lo : Int, hi : Int]
        /\ Blank \in [idx : Int, of : Int]
    BY DEF Empty, Memories, Forgotten, NoBlock, Blank
  <2>2. w \in Window /\ End(x) \in Nat
    BY <1>1, <1>3, <1>4, ConstantTypes DEF Ordered
  <2>3. QED
    BY <1>2, <1>3, <2>1, <2>2 DEF WinTypeOK, WinInv, NoDictionary
<1>7. ChunkInv' /\ BlockInv' /\ DictInv'
  BY <1>2 DEF ChunkInv, BlockInv, DictInv
<1>8. UpdateInv'
  BY <1>2, <1>3, <1>4 DEF UpdateInv, MAX
<1>9. EntryInv'
  <2>1. CASE fresh
    BY <1>1, <1>2, <1>3, <1>4, <2>1, ConstantTypes
       DEF EntryInv, EntryFaithful, Blank
  <2>2. CASE ~fresh
    BY <1>1, <1>2, <1>3, <1>4, <2>2
       DEF EntryInv, EntryFaithful, WinInv, WinTypeOK
  <2>3. QED
    BY <2>1, <2>2
<1>10. End(w) <= CurrentMax - Margin
  BY <1>1, <1>2, <1>3, <1>5, ConstantTypes DEF IndexTooCloseToMax
<1>11. OpenInv' /\ IndicesBounded'
  BY <1>2, <1>3, <1>4, <1>10, ConstantTypes DEF OpenInv, IndicesBounded, NoBlock
<1>12. QED
  BY <1>2, <1>3, <1>6, <1>7, <1>8, <1>9, <1>11 DEF WinInv

\* ZSTD_resetCCtx_byAttachingCDict.
LEMMA AttachDictionaryStep ==
  ASSUME WinInv, NEW cdictEnd \in StartIndex + 1 .. StartIndex + ChunkMax,
         AttachDictionary(cdictEnd)
  PROVE  WinInv'
<1> DEFINE moved == [win EXCEPT !.nextSrc = win.base + cdictEnd]
<1> DEFINE w == IF win.dictLimit < cdictEnd THEN WindowClear(moved) ELSE win
<1>1. /\ win \in Window /\ Ordered(win) /\ Intact(win, mem)
      /\ open /\ todo.left = 0 /\ blk = NoBlock /\ win.lowLimit = End(win)
      /\ win.dictLimit = End(win) /\ End(win) \in Int
  BY DEF AttachDictionary, WinInv, OpenInv, Ordered, Window, End, IndexOf
<1>2. cdictEnd \in Nat /\ StartIndex < cdictEnd
      /\ cdictEnd <= StartIndex + ChunkMax
  BY ConstantTypes
<1>3. /\ win' = w /\ loadedDictEnd' = w.dictLimit /\ dms' = cdictEnd
      /\ nextToUpdate' = nextToUpdate /\ frameStart' = End(w)
      /\ open' = FALSE
      /\ UNCHANGED <<forceSegment, todo, blk, entry, mem>>
  BY <1>1 DEF AttachDictionary, SetState, State, Window
<1>4. moved \in Window /\ End(moved) = cdictEnd
  BY <1>1, <1>2 DEF Window, End, IndexOf
<1> HIDE DEF moved
<1>5. /\ Ordered(w) /\ Intact(w, mem)
      /\ w.lowLimit = End(w) /\ w.dictLimit = End(w)
      /\ cdictEnd <= End(w) /\ End(win) <= End(w)
      /\ End(w) = cdictEnd \/ End(w) = End(win)
  <2>1. CASE win.dictLimit < cdictEnd
    BY <1>1, <1>2, <1>4, <2>1, ClearKeeps, ConstantTypes
  <2>2. CASE ~(win.dictLimit < cdictEnd)
    BY <1>1, <1>2, <2>2
  <2>3. QED
    BY <2>1, <2>2
<1> HIDE DEF w
<1>6. w \in Window /\ End(w) \in Int
  BY <1>5 DEF Ordered, Window, End, IndexOf
<1>7. WinTypeOK'
  <2>1. loadedDictEnd' \in Int /\ dms' \in Int /\ frameStart' \in Int
    BY <1>2, <1>3, <1>5, <1>6
  <2>2. open' \in BOOLEAN /\ forceSegment' \in BOOLEAN
    BY <1>3 DEF WinInv, WinTypeOK
  <2>3. QED
    BY <1>3, <1>6, <2>1, <2>2 DEF WinInv, WinTypeOK
<1>8. ChunkInv' /\ BlockInv' /\ OpenInv'
  BY <1>1, <1>3 DEF ChunkInv, BlockInv, OpenInv
<1>9. UpdateInv'
  BY <1>3, <1>5, <1>6 DEF UpdateInv, MAX, WinInv, WinTypeOK
<1>10. EntryInv'
  BY <1>1, <1>3, <1>5, <1>6 DEF EntryInv, EntryFaithful, WinInv, WinTypeOK
<1>11. DictInv'
  BY <1>2, <1>3, <1>5, <1>6, ConstantTypes DEF DictInv
<1>12. IndicesBounded'
  BY <1>1, <1>2, <1>3, <1>5, <1>6, ConstantTypes
     DEF IndicesBounded, WinInv, NoBlock
<1>13. QED
  BY <1>3, <1>5, <1>7, <1>8, <1>9, <1>10, <1>11, <1>12 DEF WinInv

\* ZSTD_compressContinue_internal, the window's part.
LEMMA FeedStep ==
  ASSUME WinInv, NEW src \in Addresses, NEW size \in 1 .. ChunkMax,
         Feed(src, size)
  PROVE  WinInv'
<1> DEFINE w == WindowUpdate(win, src, size, forceSegment)
<1> DEFINE joined == Contiguous(win, src, forceSegment)
<1> DEFINE memory == Written(w, src, size)
<1>1. size \in Nat /\ 0 < size /\ src \in Int /\ src + size - 1 <= Memory
  BY ConstantTypes DEF Feed, Addresses
<1>2. /\ win' = w /\ loadedDictEnd' = loadedDictEnd /\ dms' = dms
      /\ nextToUpdate' = (IF joined THEN nextToUpdate ELSE w.dictLimit)
      /\ forceSegment' = (forceSegment /\ joined)
      /\ todo' = [src |-> src, left |-> size]
      /\ mem' = Remembered(w, memory)
      /\ frameStart' = frameStart /\ open' = FALSE /\ blk' = NoBlock
      /\ entry' = entry /\ todo.left = 0
  BY DEF Feed, SetState, State
<1>3. /\ win \in Window /\ mem \in Memories /\ Ordered(win)
      /\ Intact(win, mem) /\ forceSegment \in BOOLEAN /\ End(win) \in Int
  BY DEF WinInv, WinTypeOK, Window, End, IndexOf
<1>4. /\ Ordered(w)
      /\ w.nextSrc = src + size
      /\ IndexOf(w, src) = End(win)
      /\ End(w) = End(win) + size
      /\ win.lowLimit <= w.lowLimit
      /\ w.dictLimit <= End(win)
      /\ joined => w.dictLimit = win.dictLimit
      /\ memory \in Memories
      /\ Intact(w, memory)
  BY <1>1, <1>3, UpdateKeeps
<1>5. /\ Remembered(w, memory) \in Memories
      /\ Intact(w, Remembered(w, memory))
  BY <1>4, RememberedKeeps
<1> HIDE DEF w, memory
<1>6. /\ w \in Window /\ w.dictLimit \in Nat /\ w.lowLimit \in Int
      /\ win.lowLimit \in Int /\ win.dictLimit \in Int
      /\ w.lowLimit <= w.dictLimit
  BY <1>3, <1>4, ConstantTypes DEF Ordered, Window
<1>7. WinTypeOK'
  <2>1. nextToUpdate' \in Nat
    BY <1>2, <1>6 DEF WinInv, WinTypeOK
  <2>2. forceSegment' \in BOOLEAN
    BY <1>2, <1>3
  <2>3. todo' \in [src : Int, left : Nat]
    BY <1>1, <1>2
  <2>4. NoBlock \in [lo : Int, hi : Int]
    BY DEF NoBlock
  <2>5. QED
    BY <1>2, <1>5, <1>6, <2>1, <2>2, <2>3, <2>4 DEF WinInv, WinTypeOK
<1>8. ChunkInv'
  BY <1>1, <1>2, <1>3, <1>4 DEF ChunkInv
<1>9. UpdateInv'
  <2>1. win.dictLimit <= MAX(nextToUpdate, win.lowLimit)
        /\ nextToUpdate \in Nat
    BY DEF WinInv, UpdateInv, WinTypeOK
  <2>2. w.dictLimit <= MAX(nextToUpdate', w.lowLimit)
    BY <1>2, <1>4, <1>6, <2>1 DEF MAX
  <2>3. QED
    BY <1>2, <2>2 DEF UpdateInv
<1>10. EntryInv'
  BY <1>1, <1>2, <1>3, <1>4, <1>6 DEF EntryInv, EntryFaithful, WinInv, WinTypeOK
<1>11. OpenInv' /\ DictInv' /\ BlockInv'
  BY <1>2 DEF OpenInv, DictInv, BlockInv, WinInv
<1>12. IndicesBounded'
  BY <1>1, <1>2, ConstantTypes DEF IndicesBounded, NoBlock
<1>13. QED
  BY <1>2, <1>4, <1>5, <1>7, <1>8, <1>9, <1>10, <1>11, <1>12 DEF WinInv

\* ZSTD_loadDictionaryContent.
LEMMA LoadDictionaryStep ==
  ASSUME WinInv, NEW src \in Addresses, NEW size \in 1 .. ChunkMax,
         NEW force \in BOOLEAN, NEW prefix \in BOOLEAN,
         LoadDictionary(src, size, force, prefix)
  PROVE  WinInv'
<1> DEFINE w == WindowUpdate(win, src, size, FALSE)
<1> DEFINE d == IF force THEN 0 ELSE End(w)
<1> DEFINE n == IndexOf(w, src)
<1> DEFINE loaded == [win |-> w, dms |-> dms, next |-> n, dictEnd |-> d]
<1> DEFINE W == Written(w, src, size)
<1>1. size \in Nat /\ 0 < size /\ src \in Int /\ src + size - 1 <= Memory
      /\ size <= ChunkMax
  BY ConstantTypes DEF LoadDictionary, Addresses
<1>2. /\ win \in Window /\ mem \in Memories /\ Ordered(win)
      /\ Intact(win, mem) /\ End(win) \in Int
      /\ open /\ todo.left = 0 /\ blk = NoBlock /\ dms = NoDictionary
      /\ End(win) <= CurrentMax - Margin
  BY DEF LoadDictionary, WinInv, WinTypeOK, OpenInv, Window, End, IndexOf
<1>3. /\ Ordered(w)
      /\ w.nextSrc = src + size
      /\ n = End(win)
      /\ End(w) = End(win) + size
      /\ win.lowLimit <= w.lowLimit
      /\ w.dictLimit <= End(win)
      /\ W \in Memories
      /\ Intact(w, W)
  <2>1. PICK no : no = FALSE
    OBVIOUS
  <2>2. w = WindowUpdate(win, src, size, no)
    BY <2>1
  <2> HIDE DEF w
  <2>3. QED
    BY <1>1, <1>2, <2>2, UpdateKeeps
<1> HIDE DEF w, W, n, d
<1>4. /\ w \in Window /\ w.dictLimit \in Int /\ w.lowLimit \in Int
      /\ win.lowLimit \in Int /\ StartIndex <= w.lowLimit
      /\ w.lowLimit <= w.dictLimit /\ End(w) \in Int
  BY <1>2, <1>3 DEF Ordered, Window, End, IndexOf
<1>5. n \in Nat /\ d \in Int
  BY <1>2, <1>3, <1>4, ConstantTypes DEF d
<1>6. /\ forceSegment' = prefix /\ open' = FALSE /\ todo' = todo /\ blk' = blk
  BY DEF LoadDictionary
<1>7. CASE size <= HashReadSize
  <2>1. /\ win' = w /\ loadedDictEnd' = d /\ dms' = dms /\ nextToUpdate' = n
        /\ entry' = entry /\ frameStart' = End(w)
        /\ mem' = Remembered(w, Shifted(W, 0))
    BY <1>7 DEF LoadDictionary, SetState, w, W, n, d
  <2>2. Shifted(W, 0) \in Memories /\ Intact(w, Shifted(W, 0))
    BY <1>3, UnshiftedKeeps
  <2>3. mem' \in Memories /\ Intact(w, mem')
    BY <1>3, <2>1, <2>2, RememberedKeeps
  <2>4. WinTypeOK'
    <3>1. forceSegment' \in BOOLEAN /\ open' \in BOOLEAN
      BY <1>6
    <3>2. QED
      BY <1>4, <1>5, <1>6, <2>1, <2>3, <3>1 DEF WinInv, WinTypeOK
  <2>5. ChunkInv' /\ BlockInv' /\ OpenInv'
    BY <1>2, <1>6 DEF ChunkInv, BlockInv, OpenInv
  <2>6. UpdateInv'
    BY <1>2, <1>3, <1>4, <1>5, <2>1 DEF UpdateInv, MAX
  <2>7. EntryInv'
    BY <1>1, <1>2, <1>3, <1>4, <2>1
       DEF EntryInv, EntryFaithful, WinInv, WinTypeOK
  <2>8. DictInv'
    BY <1>2, <2>1 DEF DictInv, d
  <2>9. IndicesBounded'
    BY <1>1, <1>2, <1>3, <1>6, <1>7, <2>1, ConstantTypes
       DEF IndicesBounded, NoBlock
  <2>10. QED
    BY <1>3, <2>1, <2>3, <2>4, <2>5, <2>6, <2>7, <2>8, <2>9 DEF WinInv
<1>8. CASE ~(size <= HashReadSize)
  <2> DEFINE f == OverflowCorrectIfNeeded(loaded, src, src + size)
  <2> DEFINE v == f.ms.win
  <2> DEFINE by == f.by
  <2> DEFINE memory == Shifted(W, by)
  <2>1. /\ mem' = Remembered(v, memory) /\ frameStart' = End(v)
        /\ SetState([f.ms EXCEPT !.next = End(v)])
        /\ entry' \in ReducedEntry(by) \cup
             {EntryAt(v, memory, p) : p \in f.ms.next .. End(v) - HashReadSize}
    BY <1>8 DEF LoadDictionary, w, W, n, d
  <2>2. loaded = [win |-> w, dictEnd |-> d, dms |-> dms, next |-> n]
    OBVIOUS
  <2>3. dms \in Int /\ w.dictLimit <= MAX(n, w.lowLimit)
    BY <1>2, <1>3, <1>4, <1>5 DEF MAX, NoDictionary
  <2> HIDE DEF loaded
  <2>4. /\ by \in Nat
        /\ StartIndex <= n - by
        /\ Ordered(v)
        /\ memory \in Memories
        /\ Intact(v, memory)
        /\ v.base = w.base + by
        /\ v.nextSrc = w.nextSrc
        /\ v.lowLimit = ShiftLimit(w.lowLimit, by)
        /\ v.dictLimit <= IndexOf(v, src)
        /\ f.ms.next = ShiftUpdate(n, by)
        /\ IndexOf(v, src + size) <= CurrentMax
        /\ \/ by = 0 /\ f.ms.dictEnd = d /\ f.ms.dms = dms
           \/ f.ms.dictEnd = 0 /\ f.ms.dms = NoDictionary
        /\ f.ms = [win |-> v, dictEnd |-> f.ms.dictEnd,
                   dms |-> f.ms.dms, next |-> f.ms.next]
    <3>1. f = OverflowCorrectIfNeeded(
                [win |-> w, dictEnd |-> d, dms |-> dms, next |-> n],
                src, src + size)
      BY <2>2
    <3>2. /\ Ordered(w) /\ W \in Memories /\ Intact(w, W)
          /\ d \in Int /\ dms \in Int /\ n \in Nat
          /\ w.dictLimit <= MAX(n, w.lowLimit)
          /\ src \in Int /\ size \in Nat /\ size <= ChunkMax
      BY <1>1, <1>3, <1>5, <2>3
    <3>3. IndexOf(w, src) = n
      BY DEF n
    <3>4. w.dictLimit <= IndexOf(w, src) /\ src + size <= w.nextSrc
      BY <1>1, <1>3, <3>3
    <3> HIDE DEF f
    <3>5. /\ f.by \in Nat
          /\ StartIndex <= IndexOf(w, src) - f.by
          /\ Ordered(f.ms.win)
          /\ Shifted(W, f.by) \in Memories
          /\ Intact(f.ms.win, Shifted(W, f.by))
          /\ f.ms.win.base = w.base + f.by
          /\ f.ms.win.nextSrc = w.nextSrc
          /\ f.ms.win.lowLimit = ShiftLimit(w.lowLimit, f.by)
          /\ f.ms.win.dictLimit <= IndexOf(f.ms.win, src)
          /\ f.ms.next = ShiftUpdate(n, f.by)
          /\ IndexOf(f.ms.win, src + size) <= CurrentMax
          /\ \/ f.by = 0 /\ f.ms.dictEnd = d /\ f.ms.dms = dms
             \/ f.ms.dictEnd = 0 /\ f.ms.dms = NoDictionary
          /\ f.ms = [win |-> f.ms.win, dictEnd |-> f.ms.dictEnd,
                     dms |-> f.ms.dms, next |-> f.ms.next]
      BY <3>1, <3>2, <3>4, OverflowKeeps
    <3>6. QED
      BY <3>3, <3>5
  <2> HIDE DEF f, v, by, memory
  <2>5. /\ win' = v /\ loadedDictEnd' = f.ms.dictEnd /\ dms' = f.ms.dms
        /\ nextToUpdate' = End(v)
    BY <2>1, <2>4 DEF SetState
  <2>6. /\ v \in Window /\ End(v) \in Int /\ v.lowLimit \in Int
        /\ v.dictLimit \in Int /\ StartIndex <= v.lowLimit
        /\ v.lowLimit <= v.dictLimit /\ v.dictLimit <= End(v)
    BY <2>4 DEF Ordered, Window, End, IndexOf
  <2>7. /\ IndexOf(v, src) = n - by /\ End(v) = End(w) - by
        /\ End(v) <= CurrentMax
    BY <1>1, <1>3, <1>4, <1>5, <2>4, <2>6 DEF Window, End, IndexOf, n
  <2>8. f.ms.next = n - by
    BY <1>5, <2>4, ConstantTypes DEF ShiftUpdate
  <2>9. /\ entry' \in [idx : Int, of : Int]
        /\ v.lowLimit <= entry'.idx => entry'.of = entry'.idx
        /\ entry'.idx < End(v)
    <3>1. CASE entry' \in ReducedEntry(by)
      <4>1. StartIndex <= End(win) - by
        BY <1>3, <2>4
      <4>2. entry \in [idx : Int, of : Int] /\ EntryInv
        BY DEF WinInv, WinTypeOK
      <4>3. /\ entry' \in [idx : Int, of : Int]
            /\ ShiftLimit(win.lowLimit, by) <= entry'.idx
                 => entry'.of = entry'.idx
            /\ entry'.idx < End(win) - by
        BY <1>2, <2>4, <3>1, <4>1, <4>2, ReducedFaithful
      <4>4. ShiftLimit(win.lowLimit, by) <= v.lowLimit
        BY <1>3, <1>4, <2>4, ConstantTypes DEF ShiftLimit
      <4>5. End(win) - by < End(v)
        BY <1>1, <1>2, <1>3, <2>4, <2>7
      <4>6. ShiftLimit(win.lowLimit, by) \in Int
        BY <1>4, <2>4, ConstantTypes DEF ShiftLimit
      <4>7. QED
        BY <1>2, <2>4, <2>6, <4>3, <4>4, <4>5, <4>6
    <3>2. CASE entry' \notin ReducedEntry(by)
      <4>1. PICK p \in f.ms.next .. End(v) - HashReadSize :
              entry' = EntryAt(v, memory, p)
        BY <2>1, <3>2
      <4>2. p \in Int /\ v.dictLimit <= p /\ p < End(v)
        BY <1>5, <2>4, <2>6, <2>7, <2>8, ConstantTypes
      <4>3. QED
        BY <2>4, <4>1, <4>2, EnteredFaithful
    <3>3. QED
      BY <3>1, <3>2
  <2>10. mem' \in Memories /\ Intact(v, mem')
    BY <2>1, <2>4, RememberedKeeps
  <2>11. WinTypeOK'
    <3>1. forceSegment' \in BOOLEAN /\ open' \in BOOLEAN
      BY <1>6
    <3>2. loadedDictEnd' \in Int /\ dms' \in Int /\ nextToUpdate' \in Nat
      BY <1>5, <2>3, <2>4, <2>5, <2>6, ConstantTypes DEF NoDictionary
    <3>3. QED
      BY <1>6, <2>1, <2>5, <2>6, <2>9, <2>10, <3>1, <3>2 DEF WinInv, WinTypeOK
  <2>12. ChunkInv' /\ BlockInv' /\ OpenInv'
    BY <1>2, <1>6 DEF ChunkInv, BlockInv, OpenInv
  <2>13. UpdateInv'
    BY <2>5, <2>6 DEF UpdateInv, MAX
  <2>14. EntryInv'
    BY <2>5, <2>9 DEF EntryInv, EntryFaithful
  <2>15. DictInv'
    <3>1. d \in {0, End(w)}
      BY DEF d
    <3>2. f.ms.dictEnd # 0 => f.ms.dictEnd = End(v)
      BY <1>4, <2>4, <2>7, <3>1
    <3>3. dms' = NoDictionary
      BY <1>2, <2>4, <2>5
    <3>4. QED
      BY <2>1, <2>5, <3>2, <3>3 DEF DictInv
  <2>16. IndicesBounded'
    BY <1>2, <1>6, <2>5, <2>7, ConstantTypes DEF IndicesBounded, NoBlock
  <2>17. QED
    BY <2>4, <2>5, <2>10, <2>11, <2>12, <2>13, <2>14, <2>15, <2>16 DEF WinInv
<1>9. QED
  BY <1>7, <1>8

\* ZSTD_compress_frameChunk, one block of it.
LEMMA BlockStep ==
  ASSUME WinInv, NEW size \in 1 .. BlockMax, Block(size)
  PROVE  WinInv'
<1> DEFINE ip == todo.src
<1> DEFINE f == OverflowCorrectIfNeeded(State, ip, ip + size)
<1> DEFINE by == f.by
<1> DEFINE valid == CheckDictValidity(f.ms, ip + size)
<1> DEFINE m == EnforceMaxDist(valid, ip)
<1> DEFINE v == m.win
<1> DEFINE next == MAX(m.next, v.lowLimit)
<1> DEFINE memory == Shifted(mem, by)
<1> DEFINE end == IndexOf(v, ip + size)
<1>1. /\ size \in Nat /\ 0 < size /\ size <= BlockMax /\ size <= todo.left
      /\ ip \in Int /\ todo.left \in Nat
  BY ConstantTypes DEF Block, MIN, WinInv, WinTypeOK
<1>2. /\ mem' = Remembered(v, memory)
      /\ frameStart' = Rebase(frameStart, by)
      /\ entry' \in ReducedEntry(by)
           \cup {EntryAt(v, memory, p) : p \in next .. end - 1}
      /\ \E n \in {next, end} : SetState([m EXCEPT !.next = n])
      /\ blk' = [lo |-> IndexOf(v, ip), hi |-> end]
      /\ todo' = [src |-> ip + size, left |-> todo.left - size]
      /\ UNCHANGED <<forceSegment, open>>
  BY DEF Block
<1>3. /\ win \in Window /\ Ordered(win) /\ mem \in Memories /\ Intact(win, mem)
      /\ loadedDictEnd \in Int /\ dms \in Int /\ nextToUpdate \in Nat
      /\ frameStart \in Int
      /\ win.dictLimit <= MAX(nextToUpdate, win.lowLimit)
  BY DEF WinInv, WinTypeOK, UpdateInv
<1>4. /\ ip + todo.left = win.nextSrc /\ win.dictLimit <= IndexOf(win, ip)
      /\ ip + size <= win.nextSrc /\ ~open
  BY <1>1, <1>3 DEF WinInv, ChunkInv, OpenInv, Window
<1>5. State = [win |-> win, dictEnd |-> loadedDictEnd, dms |-> dms,
               next |-> nextToUpdate]
  BY DEF State
<1> HIDE DEF ip
<1>6. /\ by \in Nat
      /\ StartIndex <= IndexOf(win, ip) - by
      /\ StartIndex <= End(win) - by
      /\ Ordered(f.ms.win)
      /\ memory \in Memories
      /\ Intact(f.ms.win, memory)
      /\ f.ms.win.base = win.base + by
      /\ f.ms.win.nextSrc = win.nextSrc
      /\ f.ms.win.lowLimit = ShiftLimit(win.lowLimit, by)
      /\ f.ms.win.dictLimit <= IndexOf(f.ms.win, ip)
      /\ f.ms.win.dictLimit <= MAX(f.ms.next, f.ms.win.lowLimit)
      /\ f.ms.next = ShiftUpdate(nextToUpdate, by)
      /\ IndexOf(f.ms.win, ip + size) <= CurrentMax
      /\ \/ by = 0 /\ f.ms.dictEnd = loadedDictEnd /\ f.ms.dms = dms
         \/ f.ms.dictEnd = 0 /\ f.ms.dms = NoDictionary
      /\ f.ms = [win |-> f.ms.win, dictEnd |-> f.ms.dictEnd,
                 dms |-> f.ms.dms, next |-> f.ms.next]
  BY <1>1, <1>3, <1>4, <1>5, OverflowKeeps
<1> HIDE DEF f, by, memory
<1>7. /\ f.ms.dictEnd \in Int /\ f.ms.dms \in Int /\ f.ms.next \in Nat
  BY <1>3, <1>6 DEF ShiftUpdate, NoDictionary
<1>8. m = EnforceMaxDist(CheckDictValidity(
            [win |-> f.ms.win, dictEnd |-> f.ms.dictEnd,
             dms |-> f.ms.dms, next |-> f.ms.next], ip + size), ip)
  BY <1>6
<1>9. ip + size <= f.ms.win.nextSrc
  BY <1>4, <1>6
<1> HIDE DEF m
<1>10. /\ Ordered(v)
       /\ Intact(v, memory)
       /\ v.base = f.ms.win.base /\ v.nextSrc = f.ms.win.nextSrc
       /\ f.ms.win.lowLimit <= v.lowLimit
       /\ v.dictLimit <= IndexOf(f.ms.win, ip)
       /\ v.dictLimit <= MAX(f.ms.next, v.lowLimit)
       /\ m.next = f.ms.next
       /\ \/ /\ m.dictEnd = f.ms.dictEnd /\ m.dms = f.ms.dms
             /\ m.dictEnd = v.dictLimit
             /\ IndexOf(f.ms.win, ip + size) <= m.dictEnd + MaxDist
          \/ m.dictEnd = 0 /\ m.dms = NoDictionary
  <2>1. PICK u, d, s, n :
          u = f.ms.win /\ d = f.ms.dictEnd /\ s = f.ms.dms /\ n = f.ms.next
    OBVIOUS
  <2>2. m = EnforceMaxDist(CheckDictValidity(
              [win |-> u, dictEnd |-> d, dms |-> s, next |-> n],
              ip + size), ip)
    BY <1>8, <2>1
  <2>3. /\ Ordered(u) /\ memory \in Memories /\ Intact(u, memory)
        /\ d \in Int /\ s \in Int /\ n \in Nat
        /\ u.dictLimit <= MAX(n, u.lowLimit)
        /\ u.dictLimit <= IndexOf(u, ip) /\ ip + size <= u.nextSrc
    BY <1>6, <1>7, <1>9, <2>1
  <2>4. /\ Ordered(m.win)
        /\ Intact(m.win, memory)
        /\ m.win.base = u.base /\ m.win.nextSrc = u.nextSrc
        /\ u.lowLimit <= m.win.lowLimit
        /\ m.win.dictLimit <= IndexOf(u, ip)
        /\ m.win.dictLimit <= MAX(n, m.win.lowLimit)
        /\ m.next = n
        /\ \/ /\ m.dictEnd = d /\ m.dms = s
              /\ m.dictEnd = m.win.dictLimit
              /\ IndexOf(u, ip + size) <= m.dictEnd + MaxDist
           \/ m.dictEnd = 0 /\ m.dms = NoDictionary
    BY <1>1, <2>2, <2>3, EnforceKeeps
  <2>5. QED
    BY <2>1, <2>4
<1> HIDE DEF v, valid
<1>11. /\ v \in Window /\ v.base \in Int /\ v.nextSrc \in Int
       /\ v.lowLimit \in Int /\ v.dictLimit \in Int /\ End(v) \in Int
       /\ StartIndex <= v.lowLimit /\ v.lowLimit <= v.dictLimit
       /\ win.base \in Int /\ win.nextSrc \in Int /\ win.lowLimit \in Int
       /\ End(win) \in Int
  BY <1>3, <1>10 DEF Ordered, Window, End, IndexOf
<1>12. /\ end = IndexOf(f.ms.win, ip + size) /\ end <= CurrentMax
       /\ end \in Int /\ IndexOf(v, ip) \in Int
       /\ end = IndexOf(v, ip) + size
       /\ v.dictLimit <= IndexOf(v, ip)
       /\ end <= End(v) /\ End(v) = End(win) - by
       /\ size = todo.left => end = End(v)
  BY <1>1, <1>4, <1>6, <1>9, <1>10, <1>11 DEF IndexOf, End
<1>13. next \in Nat /\ v.lowLimit <= next /\ v.dictLimit <= next
  BY <1>7, <1>10, <1>11, ConstantTypes DEF MAX
<1> HIDE DEF next, end
<1>14. /\ win' = v /\ loadedDictEnd' = m.dictEnd /\ dms' = m.dms
       /\ nextToUpdate' \in {next, end}
  <2>1. PICK n \in {next, end} : SetState([m EXCEPT !.next = n])
    BY <1>2
  <2>2. m.win = v
    BY DEF v
  <2>3. QED
    BY <2>1, <2>2 DEF SetState
<1>15. /\ entry' \in [idx : Int, of : Int]
       /\ v.lowLimit <= entry'.idx => entry'.of = entry'.idx
       /\ entry'.idx < End(v)
  <2>1. CASE entry' \in ReducedEntry(by)
    <3>1. entry \in [idx : Int, of : Int] /\ EntryInv
      BY DEF WinInv, WinTypeOK
    <3>2. /\ entry' \in [idx : Int, of : Int]
          /\ ShiftLimit(win.lowLimit, by) <= entry'.idx
               => entry'.of = entry'.idx
          /\ entry'.idx < End(win) - by
      BY <1>3, <1>6, <2>1, <3>1, ReducedFaithful
    <3>3. ShiftLimit(win.lowLimit, by) \in Int
      BY <1>6, <1>11, ConstantTypes DEF ShiftLimit
    <3>4. QED
      BY <1>6, <1>10, <1>11, <1>12, <3>2, <3>3
  <2>2. CASE entry' \notin ReducedEntry(by)
    <3>1. PICK p \in next .. end - 1 : entry' = EntryAt(v, memory, p)
      BY <1>2, <2>2
    <3>2. p \in Int /\ v.dictLimit <= p /\ p < End(v)
      BY <1>11, <1>12, <1>13
    <3>3. QED
      BY <1>6, <1>10, <3>1, <3>2, EnteredFaithful
  <2>3. QED
    BY <2>1, <2>2
<1>16. mem' \in Memories /\ Intact(v, mem')
  BY <1>2, <1>6, <1>10, RememberedKeeps
<1>17. todo'.src = ip + size /\ todo'.left = todo.left - size
       /\ todo' \in [src : Int, left : Nat]
  BY <1>1, <1>2
<1>18. blk'.lo = IndexOf(v, ip) /\ blk'.hi = end
       /\ blk' \in [lo : Int, hi : Int]
  BY <1>2, <1>12
<1>19. WinTypeOK'
  <2>1. nextToUpdate' \in Nat
    BY <1>11, <1>12, <1>13, <1>14, ConstantTypes
  <2>2. loadedDictEnd' \in Int /\ dms' \in Int
    BY <1>7, <1>10, <1>14 DEF NoDictionary
  <2>3. frameStart' \in Int
    BY <1>2, <1>3, <1>6 DEF Rebase, MAX, Forgotten
  <2>4. forceSegment' \in BOOLEAN /\ open' \in BOOLEAN
    BY <1>2 DEF WinInv, WinTypeOK
  <2>5. QED
    BY <1>11, <1>14, <1>15, <1>16, <1>17, <1>18, <2>1, <2>2, <2>3, <2>4
       DEF WinTypeOK
<1>20. ChunkInv'
  BY <1>1, <1>4, <1>6, <1>10, <1>11, <1>12, <1>14, <1>17
     DEF ChunkInv, IndexOf, end
<1>21. UpdateInv'
  BY <1>1, <1>11, <1>12, <1>13, <1>14 DEF UpdateInv, MAX
<1>22. EntryInv'
  BY <1>14, <1>15 DEF EntryInv, EntryFaithful
<1>23. OpenInv'
  BY <1>2, <1>4 DEF OpenInv
<1>24. m.dictEnd # 0 =>
         /\ by = 0 /\ m.dictEnd = loadedDictEnd /\ m.dms = dms
         /\ m.dictEnd = v.dictLimit /\ end <= m.dictEnd + MaxDist
  BY <1>6, <1>10, <1>12
<1>25. m.dictEnd = 0 => m.dms = NoDictionary
  BY <1>10, <1>11, ConstantTypes
<1>26. DictInv'
  <2>1. DictInv
    BY DEF WinInv
  <2>2. m.dictEnd # 0 => frameStart' = m.dictEnd
    BY <1>2, <1>3, <1>11, <1>24, <2>1, ConstantTypes
       DEF DictInv, Rebase, MAX, Forgotten
  <2>3. QED
    BY <1>14, <1>24, <1>25, <2>1, <2>2 DEF DictInv
<1>27. BlockInv'
  BY <1>12, <1>14, <1>18, <1>24 DEF BlockInv
<1>28. IndicesBounded'
  BY <1>1, <1>12, <1>14, <1>17, <1>18 DEF IndicesBounded
<1>29. QED
  BY <1>10, <1>14, <1>16, <1>19, <1>20, <1>21, <1>22, <1>23, <1>26, <1>27,
     <1>28 DEF WinInv

-----------------------------------------------------------------------------
(* The theorems. *)

\* The invariant of the window: its segments are in order and intact, the
\* cells of the tables tell the truth, and a dictionary ends where its frame
\* begins, whatever the compressor does.
THEOREM WindowInvariant == WinSpec => []WinInv
<1>1. WinInit => WinInv
  BY WinInitInv
<1>2. WinInv /\ [WinNext]_winVars => WinInv'
  <2> SUFFICES ASSUME WinInv, [WinNext]_winVars PROVE WinInv'
    OBVIOUS
  <2>1. CASE UNCHANGED winVars
    BY <2>1
       DEF winVars, WinInv, WinTypeOK, ChunkInv, UpdateInv, EntryInv,
           EntryFaithful, OpenInv, DictInv, BlockInv, IndicesBounded
  <2>2. CASE \E fresh \in BOOLEAN : NewFrame(fresh)
    BY <2>2, NewFrameStep
  <2>3. CASE \E src \in Addresses, size \in 1 .. ChunkMax : Feed(src, size)
    BY <2>3, FeedStep
  <2>4. CASE \E src \in Addresses, size \in 1 .. ChunkMax :
               \E force, prefix \in BOOLEAN :
                 LoadDictionary(src, size, force, prefix)
    BY <2>4, LoadDictionaryStep
  <2>5. CASE \E end \in StartIndex + 1 .. StartIndex + ChunkMax :
               AttachDictionary(end)
    BY <2>5, AttachDictionaryStep
  <2>6. CASE \E size \in 1 .. BlockMax : Block(size)
    BY <2>6, BlockStep
  <2>7. QED
    BY <2>1, <2>2, <2>3, <2>4, <2>5, <2>6 DEF WinNext
<1>3. QED
  BY <1>1, <1>2, PTL DEF WinSpec

\* Every index the match finder may use in a block stands for the byte that was
\* given this index: for any number of segments, frames and corrections.
THEOREM HistoryStaysIntact == WinSpec => []HistoryIntact
<1>1. WinInv => HistoryIntact
  <2> SUFFICES ASSUME WinInv, NEW i \in win.lowLimit .. blk.hi - 1
               PROVE  /\ AddressOf(i) \in Addresses
                      /\ mem[AddressOf(i)] = i
    BY DEF HistoryIntact
  <2>1. /\ win.lowLimit \in Int /\ blk.hi \in Int /\ End(win) \in Int
        /\ 0 < win.lowLimit
    BY ConstantTypes DEF WinInv, WinTypeOK, Ordered, Window, End, IndexOf
  <2>2. i \in Int /\ win.lowLimit <= i /\ i < blk.hi
    BY <2>1
  <2>3. blk.hi <= End(win)
    BY <2>1, <2>2 DEF WinInv, BlockInv, NoBlock
  <2>4. /\ AddressIn(win, i) \in Addresses /\ mem[AddressIn(win, i)] = i
    BY <2>1, <2>2, <2>3 DEF WinInv, Intact
  <2>5. QED
    BY <2>4 DEF AddressOf, AddressIn
<1>2. QED
  BY <1>1, WindowInvariant, PTL

\* An index found in a table never passes for another position: not after a
\* new frame with the old tables, nor after the old segment was overwritten, nor
\* after a correction.
THEOREM EntriesStayFaithful == WinSpec => []EntryFaithful
<1>1. WinInv => EntryFaithful
  BY DEF WinInv, EntryInv
<1>2. QED
  BY <1>1, WindowInvariant, PTL

\* The decoder can follow every offset, for every size of window, block and
\* dictionary.
THEOREM OffsetsStayDecodable == WinSpec => []OffsetsDecodable
<1>1. WinInv => OffsetsDecodable
  <2> SUFFICES ASSUME WinInv PROVE OffsetsDecodable
    OBVIOUS
  <2>1. /\ win.lowLimit \in Int /\ win.dictLimit \in Int /\ blk.lo \in Int
        /\ blk.hi \in Int /\ loadedDictEnd \in Int /\ dms \in Int
        /\ frameStart \in Int
    BY DEF WinInv, WinTypeOK, Window
  <2>2. DictInv /\ BlockInv
    BY DEF WinInv
  <2>3. ASSUME NEW curr \in blk.lo .. blk.hi - 1,
               NEW low \in {LowestMatchIndex(win, loadedDictEnd, curr),
                            LowestPrefixIndex(win, loadedDictEnd, curr)}
        PROVE  curr - low <= MaxDist \/ curr - frameStart < MaxDist
    <3>1. curr \in Int /\ curr < blk.hi /\ blk.lo <= curr
      BY <2>1
    <3>2. blk # NoBlock
      BY <3>1 DEF NoBlock
    <3>3. CASE loadedDictEnd = 0
      BY <2>1, <3>1, <3>3, ConstantTypes DEF LowestMatchIndex, LowestPrefixIndex
    <3>4. CASE loadedDictEnd # 0
      BY <2>1, <2>2, <3>1, <3>2, <3>4, ConstantTypes DEF DictInv, BlockInv
    <3>5. QED
      BY <3>3, <3>4
  <2>4. ASSUME blk # NoBlock, dms # NoDictionary
        PROVE  dms <= win.dictLimit /\ blk.hi - frameStart <= MaxDist
    BY <2>1, <2>2, <2>4, ConstantTypes DEF DictInv, BlockInv
  <2>5. QED
    BY <2>3, <2>4 DEF OffsetsDecodable
<1>2. QED
  BY <1>1, WindowInvariant, PTL

\* No index ever exceeds ZSTD_CURRENT_MAX, so none wraps around.
THEOREM IndicesStayBounded == WinSpec => []IndicesBounded
<1>1. WinInv => IndicesBounded
  BY DEF WinInv
<1>2. QED
  BY <1>1, WindowInvariant, PTL
=============================================================================
