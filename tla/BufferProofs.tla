---------------------------- MODULE BufferProofs ----------------------------
(***************************************************************************)
(* Facts about the operators SlidingWindow is built from: the ring buffer, *)
(* the early arrival queue, and the extrema both use.                      *)
(***************************************************************************)
EXTENDS RingBuffer, EarlyArrivals, WellFoundedInduction, TLAPS

-----------------------------------------------------------------------------
(* Extrema of sets of naturals.                                            *)

\* A non-empty set of naturals has a least element.
LEMMA LeastNat ==
  ASSUME NEW T, T \subseteq Nat, T # {}
  PROVE  \E x \in T : \A y \in T : x <= y
  <1> DEFINE R == {ss \in Nat \X Nat : ss[1] < ss[2]}
  <1>1. IsWellFoundedOn(R, Nat)
    BY Zenon, NatLessThanWellFounded DEF OpToRel
  <1> HIDE DEF R
  <1>2. PICK x \in T : \A y \in T : ~ (<<y, x>> \in R)
    BY Zenon, <1>1, WFMin
  <1>3. ASSUME NEW y \in T PROVE x <= y
    <2>1. ~ (<<y, x>> \in R) BY Zenon, <1>2
    <2>2. y \in Nat /\ x \in Nat BY Zenon
    <2>3. ~ (y < x) BY Zenon, <2>1, <2>2 DEF R
    <2> QED BY <2>2, <2>3
  <1> QED BY Zenon, <1>3

\* A non-empty bounded set of naturals has a greatest element.
LEMMA GreatestNat ==
  ASSUME NEW n \in Nat, NEW T, T \subseteq 0 .. n, T # {}
  PROVE  \E x \in T : \A y \in T : x >= y
  <1> DEFINE U == {k \in Nat : n - k \in T}
  <1>1. PICK t \in T : TRUE BY Zenon
  <1>2. n - t \in U /\ U \subseteq Nat BY <1>1
  <1> HIDE DEF U
  <1>3. PICK x \in U : \A y \in U : x <= y BY Zenon, <1>2, LeastNat
  <1>4. n - x \in T /\ x \in Nat BY Zenon, <1>3 DEF U
  <1>5. ASSUME NEW y \in T PROVE n - x >= y
    <2>1. y \in 0 .. n BY Zenon
    <2>2. n - y \in U BY <2>1 DEF U
    <2>3. x <= n - y BY Zenon, <1>3, <2>2
    <2> QED BY <2>1, <2>3, <1>4
  <1> QED BY Zenon, <1>4, <1>5

\* Max and Min return the extremum the definitions choose.
LEMMA MaxIs ==
  ASSUME NEW n \in Nat, NEW T, T \subseteq 0 .. n, T # {}
  PROVE  Max(T) \in T /\ \A y \in T : Max(T) >= y
  BY Zenon, GreatestNat DEF Max

LEMMA MinIs ==
  ASSUME NEW T, T \subseteq Nat, T # {}
  PROVE  Min(T) \in T /\ \A y \in T : Min(T) <= y
  BY Zenon, LeastNat DEF Min

\* Min of tcp_handler_utils.go is the smaller of its arguments.
LEMMA Min2Is ==
  ASSUME NEW a \in Int, NEW b \in Int
  PROVE  /\ Min2(a, b) \in {a, b}
         /\ Min2(a, b) <= a /\ Min2(a, b) <= b
  BY DEF Min2

-----------------------------------------------------------------------------
(* The ring buffer.                                                        *)

\* A sequence number has a slot.
LEMMA SlotType ==
  ASSUME NEW p \in Int
  PROVE  SequenceToBufferInd(p) \in Slots
  BY BufferAssumption DEF SequenceToBufferInd, Slots

\* Two sequence numbers less than a buffer apart never share a slot.
LEMMA SlotInjective ==
  ASSUME NEW p \in Int, NEW q \in Int, p < q, q < p + MAX_BUF_SIZE
  PROVE  SequenceToBufferInd(p) # SequenceToBufferInd(q)
  <1> DEFINE B == MAX_BUF_SIZE
             a == p \div B
             b == q \div B
             r == p % B
  <1> SUFFICES ASSUME p % B = q % B PROVE FALSE
    BY Zenon DEF SequenceToBufferInd
  <1>0. B \in Nat /\ B > 0
    BY BufferAssumption
  <1>1. a \in Int /\ b \in Int /\ r \in Int /\ p = B * a + r /\ q = B * b + r
    BY <1>0
  <1>2. p < q /\ q < p + B
    BY Zenon
  <1> HIDE DEF a, b, r, B
  <1>3. 0 < B * (b - a) /\ B * (b - a) < B
    BY <1>0, <1>1, <1>2
  <1>4. CASE b - a <= 0
    BY <1>0, <1>1, <1>3, <1>4
  <1>5. CASE b - a >= 1
    BY <1>0, <1>1, <1>3, <1>5
  <1> QED BY <1>1, <1>4, <1>5

\* A payload of len bytes from lo on, each the one its number says.
Carries(payload, lo, len) ==
    /\ DOMAIN payload = lo .. lo + len - 1
    /\ \A p \in lo .. lo + len - 1 : payload[p] = p

\* A buffer that differs from another one in those bytes only, as far as the
\* MAX_BUF_SIZE sequence numbers from w on are concerned.
Overwritten(new, buffer, S, w, lo, len) ==
    /\ new \in [Slots -> S]
    /\ \A q \in w .. w + MAX_BUF_SIZE - 1 :
          new[SequenceToBufferInd(q)] =
              IF q \in lo .. lo + len - 1 THEN q ELSE buffer[SequenceToBufferInd(q)]

\* CopyIn overwrites what it is given and, since slots are injective on a
\* window of MAX_BUF_SIZE sequence numbers, nothing else of the window.
LEMMA CopyInIs ==
  ASSUME NEW S, NEW buffer \in [Slots -> S],
         NEW w \in Int, NEW lo \in Int, NEW len \in Nat,
         w <= lo, lo + len <= w + MAX_BUF_SIZE, lo .. lo + len - 1 \subseteq S,
         NEW payload, Carries(payload, lo, len)
  PROVE  Overwritten(CopyIn(buffer, payload), buffer, S, w, lo, len)
  <1> USE DEF Carries, Overwritten
  <1> DEFINE hit(slot) == \E p \in lo .. lo + len - 1 : SequenceToBufferInd(p) = slot
             src(slot) == CHOOSE p \in lo .. lo + len - 1 : SequenceToBufferInd(p) = slot
             new == CopyIn(buffer, payload)
  <1>1. new = [slot \in Slots |-> IF hit(slot) THEN payload[src(slot)] ELSE buffer[slot]]
    BY Zenon DEF CopyIn
  <1>2. \A slot \in Slots : hit(slot) =>
           src(slot) \in lo .. lo + len - 1 /\ SequenceToBufferInd(src(slot)) = slot
    BY Zenon
  <1> HIDE DEF src
  <1>3. new \in [Slots -> S]
    <2> SUFFICES ASSUME NEW slot \in Slots
                 PROVE  (IF hit(slot) THEN payload[src(slot)] ELSE buffer[slot]) \in S
      BY Zenon, <1>1
    <2>1. CASE hit(slot) BY Zenon, <1>2, <2>1
    <2>2. CASE ~ hit(slot) BY Zenon, <2>2
    <2> QED BY Zenon, <2>1, <2>2
  <1>4. ASSUME NEW q \in w .. w + MAX_BUF_SIZE - 1
        PROVE  new[SequenceToBufferInd(q)] =
                   IF q \in lo .. lo + len - 1 THEN q ELSE buffer[SequenceToBufferInd(q)]
    <2> DEFINE slot == SequenceToBufferInd(q)
    <2>0. MAX_BUF_SIZE \in Nat /\ q \in Int BY BufferAssumption
    <2>1. slot \in Slots BY Zenon, <2>0, SlotType
    <2>2. new[slot] = IF hit(slot) THEN payload[src(slot)] ELSE buffer[slot]
      BY Zenon, <1>1, <2>1
    <2>3. ASSUME NEW p \in lo .. lo + len - 1, SequenceToBufferInd(p) = slot PROVE p = q
      <3>1. p \in Int /\ p < q + MAX_BUF_SIZE /\ q < p + MAX_BUF_SIZE BY <2>0
      <3>2. ~ (p < q) BY Zenon, <3>1, <2>3, <2>0, SlotInjective
      <3>3. ~ (q < p) BY Zenon, <3>1, <2>3, <2>0, SlotInjective
      <3> QED BY <3>1, <3>2, <3>3, <2>0
    <2>4. CASE q \in lo .. lo + len - 1
      <3>1. hit(slot) BY Zenon, <2>4
      <3>2. src(slot) = q BY Zenon, <3>1, <1>2, <2>1, <2>3
      <3> QED BY Zenon, <3>1, <3>2, <2>2, <2>4
    <2>5. CASE q \notin lo .. lo + len - 1
      <3>1. ~ hit(slot) BY Zenon, <2>3, <2>5
      <3> QED BY Zenon, <3>1, <2>2, <2>5
    <2> QED BY Zenon, <2>4, <2>5
  <1> QED BY Zenon, <1>3, <1>4

-----------------------------------------------------------------------------
(* The early arrival queue.                                                *)

\* What is left of a sequence after its first k elements.
LEMMA SuffixIs ==
  ASSUME NEW S, NEW s \in Seq(S), NEW k \in 0 .. Len(s)
  PROVE  /\ SubSeq(s, k + 1, Len(s)) \in Seq(S)
         /\ Len(SubSeq(s, k + 1, Len(s))) = Len(s) - k
         /\ \A j \in 1 .. Len(s) - k : SubSeq(s, k + 1, Len(s))[j] = s[k + j]
  <1>1. SubSeq(s, k + 1, Len(s)) \in Seq(S) OBVIOUS
  <1>2. Len(SubSeq(s, k + 1, Len(s))) = Len(s) - k OBVIOUS
  <1>3. ASSUME NEW j \in 1 .. Len(s) - k PROVE SubSeq(s, k + 1, Len(s))[j] = s[k + j]
    <2>1. k + j \in 1 .. Len(s) /\ (k + 1) + j - 1 = k + j OBVIOUS
    <2>2. Len(s) - (k + 1) + 1 = Len(s) - k OBVIOUS
    <2> QED BY <2>1, <2>2
  <1> QED BY Zenon, <1>1, <1>2, <1>3

\* Where the elements are after an insertion.
LEMMA InsertAtIs ==
  ASSUME NEW S, NEW s \in Seq(S), NEW e \in S, NEW i \in 1 .. Len(s)
  PROVE  /\ InsertAt(s, i, e) \in Seq(S)
         /\ Len(InsertAt(s, i, e)) = Len(s) + 1
         /\ \A j \in 1 .. Len(s) + 1 : InsertAt(s, i, e)[j] =
                IF j < i THEN s[j] ELSE IF j = i THEN e ELSE s[j - 1]
  <1> DEFINE a == SubSeq(s, 1, i - 1)
             b == a \o <<e>>
             c == SubSeq(s, i, Len(s))
  <1>1. /\ a \in Seq(S) /\ Len(a) = i - 1
        /\ \A j \in 1 .. i - 1 : a[j] = s[j]
    OBVIOUS
  <1>2. /\ c \in Seq(S) /\ Len(c) = Len(s) - i + 1
        /\ \A j \in 1 .. Len(s) - i + 1 : c[j] = s[i + j - 1]
    OBVIOUS
  <1> HIDE DEF a, c
  <1>3. /\ b \in Seq(S) /\ Len(b) = i
        /\ \A j \in 1 .. i : b[j] = IF j < i THEN s[j] ELSE e
    <2>1. <<e>> \in Seq(S) /\ Len(<<e>>) = 1 /\ <<e>>[1] = e OBVIOUS
    <2>2. b \in Seq(S) /\ Len(b) = i BY <1>1, <2>1
    <2>3. ASSUME NEW j \in 1 .. i - 1 PROVE b[j] = s[j] BY <1>1, <2>1
    <2>4. b[i] = e BY <1>1, <2>1
    <2>5. \A j \in 1 .. i : j = i \/ (j \in 1 .. i - 1 /\ j < i) OBVIOUS
    <2> HIDE DEF b
    <2>6. ~(i < i) OBVIOUS
    <2> QED BY Zenon, <2>2, <2>3, <2>4, <2>5, <2>6
  <1> HIDE DEF b
  <1>4. InsertAt(s, i, e) = b \o c
    BY Zenon DEF InsertAt, a, b, c
  <1>5. b \o c \in Seq(S) /\ Len(b \o c) = Len(s) + 1
    <2>1. b \in Seq(S) /\ c \in Seq(S) BY Zenon, <1>2, <1>3
    <2>2. b \o c \in Seq(S) /\ Len(b \o c) = Len(b) + Len(c) BY <2>1
    <2> QED BY <2>2, <1>2, <1>3
  <1>6. ASSUME NEW j \in 1 .. Len(s) + 1
        PROVE  (b \o c)[j] = IF j < i THEN s[j] ELSE IF j = i THEN e ELSE s[j - 1]
    <2>1. (b \o c)[j] = IF j <= i THEN b[j] ELSE c[j - i]
      BY SMTT(30), <1>2, <1>3
    <2>2. CASE j <= i
      BY <2>1, <2>2, <1>3
    <2>3. CASE j > i
      <3>1. j - i \in 1 .. Len(s) - i + 1 /\ i + (j - i) - 1 = j - 1 BY <2>3
      <3>2. c[j - i] = s[i + (j - i) - 1] BY Zenon, <3>1, <1>2
      <3> QED BY <2>1, <2>3, <3>1, <3>2
    <2>4. j <= i \/ j > i OBVIOUS
    <2> QED BY Zenon, <2>2, <2>3, <2>4
  <1> QED BY Zenon, <1>4, <1>5, <1>6

\* All entries of r are entries of q or e.
Pushed(q, S, e, r) ==
    /\ r \in Seq(S)
    /\ \A j \in 1 .. Len(r) : r[j] = e \/ \E i \in 1 .. Len(q) : r[j] = q[i]

\* Push keeps every entry and adds the new one.
LEMMA PushIs ==
  ASSUME NEW S, NEW q \in Seq(S), NEW e \in S
  PROVE  Pushed(q, S, e, Push(q, e))
  <1> DEFINE later == {i \in 1 .. Len(q) : EndOf(e) <= q[i].SequenceNum}
  <1>1. CASE later = {}
    <2>1. Push(q, e) = Append(q, e) BY Zenon, <1>1 DEF Push
    <2> QED BY <2>1 DEF Pushed
  <1>2. CASE later # {}
    <2>1. Push(q, e) = InsertAt(q, Min(later), e) BY Zenon, <1>2 DEF Push
    <2>2. later \subseteq Nat OBVIOUS
    <2>3. Min(later) \in later BY Zenon, <1>2, <2>2, MinIs
    <2>4. Min(later) \in 1 .. Len(q) BY Zenon, <2>3
    <2> HIDE DEF later
    <2>5. PICK m \in 1 .. Len(q) : m = Min(later) BY Zenon, <2>4
    <2>6. /\ InsertAt(q, m, e) \in Seq(S)
          /\ Len(InsertAt(q, m, e)) = Len(q) + 1
          /\ \A j \in 1 .. Len(q) + 1 : InsertAt(q, m, e)[j] =
                 IF j < m THEN q[j] ELSE IF j = m THEN e ELSE q[j - 1]
      BY SMTT(30), InsertAtIs
    <2>7. ASSUME NEW j \in 1 .. Len(q) + 1
          PROVE  InsertAt(q, m, e)[j] = e \/ \E i \in 1 .. Len(q) : InsertAt(q, m, e)[j] = q[i]
      <3>1. CASE j < m
        <4>1. j \in 1 .. Len(q) BY <3>1
        <4>2. InsertAt(q, m, e)[j] = q[j] BY Zenon, <3>1, <2>6
        <4> QED BY Zenon, <4>1, <4>2
      <3>2. CASE j = m BY Zenon, <3>2, <2>6
      <3>3. CASE j > m
        <4>1. j - 1 \in 1 .. Len(q) BY <3>3
        <4>2. InsertAt(q, m, e)[j] = q[j - 1] BY <3>3, <2>6
        <4> QED BY Zenon, <4>1, <4>2
      <3> QED BY <3>1, <3>2, <3>3
    <2> QED BY <2>1, <2>5, <2>6, <2>7 DEF Pushed
  <1> QED BY Zenon, <1>1, <1>2

\* updateAckNum pops a contiguous prefix.
LEMMA PoppedIs ==
  ASSUME NEW S, NEW q \in Seq(S), NEW a \in Int
  PROVE  Popped(q, a) \in 0 .. Len(q) /\ Contiguous(q, a, Popped(q, a))
  <1> DEFINE T == {k \in 0 .. Len(q) : Contiguous(q, a, k)}
  <1>1. 0 \in T BY DEF Contiguous
  <1>2. T \subseteq 0 .. Len(q) /\ Len(q) \in Nat OBVIOUS
  <1> HIDE DEF T
  <1>3. Max(T) \in T BY Zenon, <1>1, <1>2, MaxIs
  <1> QED BY Zenon, <1>3 DEF Popped, T

\* The entries of a contiguous prefix cover everything up to the end of its
\* last one. (The least index whose end is past p is the one that covers p.)
LEMMA PrefixCovers ==
  ASSUME NEW S, S \subseteq [SequenceNum : Int, PayloadLen : Nat],
         NEW q \in Seq(S), NEW a \in Int, NEW k \in 1 .. Len(q), Contiguous(q, a, k),
         NEW p \in Int, a <= p, p < EndOf(q[k])
  PROVE  \E i \in 1 .. Len(q) : q[i].SequenceNum <= p /\ p < EndOf(q[i])
  <1> DEFINE T == {i \in 1 .. k : p < EndOf(q[i])}
  <1>1. k \in T /\ T \subseteq Nat OBVIOUS
  <1>2. PICK i \in T : \A j \in T : i <= j BY Zenon, <1>1, LeastNat
  <1>3. i \in 1 .. k /\ i \in 1 .. Len(q) /\ p < EndOf(q[i]) BY <1>2
  <1>4. q[i].SequenceNum = IF i = 1 THEN a ELSE EndOf(q[i - 1])
    BY Zenon, <1>3 DEF Contiguous
  <1>5. CASE i = 1 BY Zenon, <1>3, <1>4, <1>5
  <1>6. CASE i # 1
    <2>1. i - 1 \in 1 .. k /\ i - 1 \in 1 .. Len(q) BY <1>3, <1>6
    <2>2. i - 1 \notin T
      <3>1. ~ (i <= i - 1) BY <1>3
      <3> HIDE DEF T
      <3> QED BY Zenon, <1>2, <3>1
    <2>3. ~ (p < EndOf(q[i - 1])) BY Zenon, <2>1, <2>2
    <2>4. q[i - 1] \in S BY <2>1
    <2>5. EndOf(q[i - 1]) \in Int BY <2>4 DEF EndOf
    <2>6. q[i].SequenceNum <= p BY <2>3, <2>5, <1>4, <1>6
    <2> QED BY Zenon, <2>6, <1>3
  <1> QED BY Zenon, <1>5, <1>6

\* num is a, or the end of an entry that contiguous entries lead to from a, and
\* rest holds entries of q only.
Merged(q, S, a, num, rest) ==
    /\ num \in Int /\ num >= a
    /\ num = a \/ \E i \in 1 .. Len(q) : num = EndOf(q[i])
    /\ \A p \in Int : a <= p /\ p < num =>
          \E i \in 1 .. Len(q) : q[i].SequenceNum <= p /\ p < EndOf(q[i])
    /\ rest \in Seq(S)
    /\ \A j \in 1 .. Len(rest) : \E i \in 1 .. Len(q) : rest[j] = q[i]

\* What updateAckNum returns: never before nextAck, the end of an entry unless
\* it is nextAck itself, and with every byte in between held by some entry.
\* What it leaves in the queue was there before.
LEMMA UpdateAckNumIs ==
  ASSUME NEW S, S \subseteq [SequenceNum : Int, PayloadLen : Nat],
         NEW q \in Seq(S), NEW a \in Int
  PROVE  Merged(q, S, a, AckNumAfter(q, a), QueueAfter(q, a))
  <1>1. PICK k \in 0 .. Len(q) : k = Popped(q, a) /\ Contiguous(q, a, k)
    BY Zenon, PoppedIs
  <1>2. /\ QueueAfter(q, a) \in Seq(S)
        /\ \A j \in 1 .. Len(QueueAfter(q, a)) :
              \E i \in 1 .. Len(q) : QueueAfter(q, a)[j] = q[i]
    <2>1. QueueAfter(q, a) = SubSeq(q, k + 1, Len(q)) BY Zenon, <1>1 DEF QueueAfter
    <2>2. /\ SubSeq(q, k + 1, Len(q)) \in Seq(S)
          /\ Len(SubSeq(q, k + 1, Len(q))) = Len(q) - k
          /\ \A j \in 1 .. Len(q) - k : SubSeq(q, k + 1, Len(q))[j] = q[k + j]
      BY Zenon, SuffixIs
    <2>3. \A j \in 1 .. Len(q) - k : k + j \in 1 .. Len(q) OBVIOUS
    <2> QED BY Zenon, <2>1, <2>2, <2>3
  <1>3. CASE k = 0
    <2>1. AckNumAfter(q, a) = a BY Zenon, <1>1, <1>3 DEF AckNumAfter
    <2> QED BY <2>1, <1>2 DEF Merged
  <1>4. CASE k # 0
    <2>1. k \in 1 .. Len(q) /\ AckNumAfter(q, a) = EndOf(q[k]) BY <1>1, <1>4 DEF AckNumAfter
    <2>2. \A i \in 1 .. Len(q) : q[i].SequenceNum \in Int /\ q[i].PayloadLen \in Nat
                                 /\ EndOf(q[i]) \in Int /\ EndOf(q[i]) >= q[i].SequenceNum
      <3> TAKE i \in 1 .. Len(q)
      <3>1. q[i] \in S OBVIOUS
      <3> QED BY <3>1 DEF EndOf
    <2>3. \A p \in Int : a <= p /\ p < EndOf(q[k]) =>
             \E i \in 1 .. Len(q) : q[i].SequenceNum <= p /\ p < EndOf(q[i])
      BY Zenon, <2>1, <1>1, PrefixCovers
    <2>4. EndOf(q[k]) >= a
      <3> SUFFICES ASSUME EndOf(q[k]) < a PROVE FALSE BY SMTT(30), <2>1, <2>2
      <3> DEFINE F == {i \in 1 .. k : EndOf(q[i]) < a}
      <3>0. F \subseteq Nat /\ k \in F BY <2>1
      <3>1. PICK i \in F : \A j \in F : i <= j
        <4> HIDE DEF F
        <4> QED BY Zenon, <3>0, LeastNat
      <3>2. i \in 1 .. k /\ i \in 1 .. Len(q) /\ EndOf(q[i]) < a BY <2>1, <3>1
      <3> HIDE DEF F
      <3>3. q[i].SequenceNum = IF i = 1 THEN a ELSE EndOf(q[i - 1])
        BY Zenon, <3>2, <1>1 DEF Contiguous
      <3>6. EndOf(q[i]) \in Int /\ q[i].SequenceNum \in Int /\ EndOf(q[i]) >= q[i].SequenceNum
        BY Zenon, <3>2, <2>2
      <3>4. CASE i = 1 BY <3>2, <3>3, <3>4, <3>6
      <3>5. CASE i # 1
        <4>1. i - 1 \in 1 .. k /\ i - 1 \in 1 .. Len(q) BY <3>2, <3>5, <2>1
        <4>2. i - 1 \notin F
          <5>1. ~ (i <= i - 1) BY <3>2
          <5> QED BY Zenon, <3>1, <5>1
        <4>3. ~ (EndOf(q[i - 1]) < a) BY Zenon, <4>1, <4>2 DEF F
        <4>4. EndOf(q[i - 1]) \in Int BY Zenon, <4>1, <2>2
        <4>5. q[i].SequenceNum = EndOf(q[i - 1]) BY Zenon, <3>3, <3>5
        <4> QED BY <4>3, <4>4, <4>5, <3>2, <3>6
      <3> QED BY Zenon, <3>4, <3>5
    <2> QED BY Zenon, <2>1, <2>2, <2>3, <2>4, <1>2 DEF Merged
  <1> QED BY Zenon, <1>3, <1>4
=============================================================================
