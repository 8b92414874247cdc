-------------------------- MODULE CongestionProofs --------------------------
(***************************************************************************)
(* For every value of the constants: whatever congestion control does to   *)
(* the window, Send keeps to the buffer of the receiver, and what fast     *)
(* retransmit sends again is the segment the receiver waits for.           *)
(*                                                                         *)
(* The reason is the retransmission queue: its segments tile what is in    *)
(* flight, from UNA to NXT. A segment or an early arrival is one of them   *)
(* or older than UNA, so an acknowledgment number is the end of one of     *)
(* them or not above UNA, and an accepted one cuts the queue between two.  *)
(***************************************************************************)
EXTENDS CongestionControl, BufferProofs

EntrySet == [SequenceNum : Int, PayloadLen : 1 .. MSS_DATA]

TCBs == [UNA : Int, NXT : Int, LBW : Int, CWND : Nat, SSTHRESH : Nat,
         CControlEnabled : BOOLEAN, CurrentAck : Int, CurrentAckFreq : Nat,
         RetransmissionQueue : Seq(EntrySet), RetransmitCounter : 0 .. MAX_RETRANSMISSIONS,
         TimeoutCancelled : BOOLEAN, send : {"loop", "data1", "data2", "window", "emit"},
         asleep : BOOLEAN, toSend : Nat]

RCVs == [NXT : Int, EarlyArrivalQueue : Seq(EntrySet), chatter : Nat]

TypeInv ==
    /\ tcb \in TCBs /\ rcv \in RCVs
    /\ setting \in {"no", "stored", "done"} /\ tcb.CControlEnabled = (setting # "no")
    /\ DOMAIN segs \subseteq EntrySet /\ DOMAIN acks \subseteq Int
    /\ lost \in 0 .. LossMax

\* The order of the pointers of both ends, and the burst that Send is at.
PointerInv ==
    /\ FirstByte <= tcb.UNA /\ tcb.UNA <= rcv.NXT /\ rcv.NXT <= tcb.NXT
    /\ tcb.NXT + tcb.toSend <= tcb.LBW
    /\ tcb.LBW <= tcb.UNA + MAX_BUF_SIZE /\ tcb.LBW <= LastSeq
    /\ tcb.send = "emit" => tcb.toSend > 0

\* The window that congestion control keeps, and the number it counts.
CountInv ==
    /\ tcb.CWND >= INIT_CWND
    /\ tcb.CurrentAck \in {0, tcb.UNA}
    /\ ~tcb.CControlEnabled => tcb.CurrentAck = 0

\* The segments of the queue tile what is in flight.
Tiles(q, una, nxt) ==
    /\ \A i \in 1 .. Len(q) : una <= q[i].SequenceNum /\ EndOf(q[i]) <= nxt
    /\ \A i, j \in 1 .. Len(q) : i < j => EndOf(q[i]) <= q[j].SequenceNum
    /\ \A i, j \in 1 .. Len(q) : j = i + 1 => q[j].SequenceNum = EndOf(q[i])
    /\ q = <<>> => una = nxt
    /\ q # <<>> => q[1].SequenceNum = una /\ EndOf(q[Len(q)]) = nxt

QueueInv == Tiles(tcb.RetransmissionQueue, tcb.UNA, tcb.NXT)

\* A segment is in the queue, or acknowledged.
Known(q, una, e) == EndOf(e) <= una \/ \E i \in 1 .. Len(q) : e = q[i]

\* A number is where a segment of the queue ends, or acknowledged.
Edge(q, una, a) == a <= una \/ \E i \in 1 .. Len(q) : a = EndOf(q[i])

FlightInv ==
    /\ \A e \in DOMAIN segs :
          FirstByte <= e.SequenceNum /\ Known(tcb.RetransmissionQueue, tcb.UNA, e)
    /\ \A i \in 1 .. Len(rcv.EarlyArrivalQueue) :
          Known(tcb.RetransmissionQueue, tcb.UNA, rcv.EarlyArrivalQueue[i])
    /\ Edge(tcb.RetransmissionQueue, tcb.UNA, rcv.NXT)
    /\ \A a \in DOMAIN acks :
          FirstByte <= a /\ a <= rcv.NXT /\ Edge(tcb.RetransmissionQueue, tcb.UNA, a)

CCInv == TypeInv /\ PointerInv /\ CountInv /\ QueueInv /\ FlightInv

-----------------------------------------------------------------------------
(* Constants, arithmetic and packets.                                      *)

LEMMA Consts ==
  /\ MAX_BUF_SIZE \in Nat /\ MSS_DATA \in Nat /\ 1 <= MSS_DATA /\ MSS_DATA <= MAX_BUF_SIZE
  /\ MaxBytes \in Nat /\ LastSeq \in Nat /\ FirstByte = 1 /\ INIT_CWND = MSS_DATA
  /\ Word \in Nat /\ Word > 2 * MAX_BUF_SIZE /\ INIT_THRESHOLD \in Nat
  /\ MAX_RETRANSMISSIONS \in Nat /\ LossMax \in Nat /\ ChatterMax \in Nat
  BY CongestionAssumption, BufferAssumption DEF LastSeq, FirstByte, INIT_CWND

\* Subtraction modulo Word is a natural number, and the difference where that is one.
LEMMA SubNat ==
  ASSUME NEW a \in Int, NEW b \in Int PROVE Sub(a, b) \in Nat
  BY Consts DEF Sub

LEMMA SubIs ==
  ASSUME NEW a \in Int, NEW b \in Int, b <= a, a - b < Word
  PROVE  Sub(a, b) = a - b
  BY Consts DEF Sub

LEMMA Quotient ==
  ASSUME NEW a \in Nat, NEW b \in Nat, b > 0
  PROVE  a \div b \in Nat
  OBVIOUS

LEMMA InFlightIs ==
  ASSUME NEW b, NEW m PROVE DOMAIN InFlight(b, m) = DOMAIN b \cup {m}
  BY Zenon DEF InFlight

LEMMA WithoutIs ==
  ASSUME NEW b, NEW m PROVE DOMAIN Without(b, m) \subseteq DOMAIN b
  BY Zenon DEF Without

LEMMA EntryIs ==
  ASSUME NEW e \in EntrySet
  PROVE  /\ e.SequenceNum \in Int /\ e.PayloadLen \in Nat /\ e.PayloadLen > 0
         /\ EndOf(e) = e.SequenceNum + e.PayloadLen
         /\ EndOf(e) \in Int /\ EndOf(e) > e.SequenceNum
  BY Consts DEF EntrySet, EndOf

-----------------------------------------------------------------------------
(* The tiling.                                                             *)

\* A segment that is appended continues the tiling.
LEMMA AppendTiles ==
  ASSUME NEW q \in Seq(EntrySet), NEW una \in Int, NEW nxt \in Int, una <= nxt,
         Tiles(q, una, nxt), NEW e \in EntrySet, e.SequenceNum = nxt
  PROVE  /\ Append(q, e) \in Seq(EntrySet)
         /\ Tiles(Append(q, e), una, EndOf(e))
         /\ \A x : Known(q, una, x) => Known(Append(q, e), una, x)
         /\ \A x : Edge(q, una, x) => Edge(Append(q, e), una, x)
         /\ Known(Append(q, e), una, e)
  <1> DEFINE r == Append(q, e)
  <1>1. /\ r \in Seq(EntrySet) /\ Len(q) \in Nat /\ Len(r) = Len(q) + 1
        /\ \A i \in 1 .. Len(q) : r[i] = q[i]
        /\ r[Len(r)] = e
    OBVIOUS
  <1>2. \A i \in 1 .. Len(r) : i \in 1 .. Len(q) \/ i = Len(r) BY <1>1
  <1>3. \A i \in 1 .. Len(q) : i \in 1 .. Len(r) /\ i < Len(r) BY <1>1
  <1>4. Len(r) \in 1 .. Len(r) /\ r # <<>> BY <1>1
  <1>5. EndOf(e) \in Int /\ EndOf(e) > nxt BY Zenon, EntryIs
  <1>6. \A i \in 1 .. Len(q) : EndOf(q[i]) \in Int /\ q[i].SequenceNum \in Int
    <2> TAKE i \in 1 .. Len(q)
    <2>1. q[i] \in EntrySet OBVIOUS
    <2> QED BY Zenon, <2>1, EntryIs
  <1> HIDE DEF r
  <1>7. \A i \in 1 .. Len(r) : una <= r[i].SequenceNum /\ EndOf(r[i]) <= EndOf(e)
    <2> TAKE i \in 1 .. Len(r)
    <2>1. CASE i \in 1 .. Len(q)
      <3>1. una <= q[i].SequenceNum /\ EndOf(q[i]) <= nxt BY Zenon, <2>1 DEF Tiles
      <3>2. EndOf(q[i]) <= EndOf(e) BY <3>1, <1>5, <1>6, <2>1
      <3> QED BY Zenon, <3>1, <3>2, <2>1, <1>1
    <2>2. CASE i = Len(r) BY <2>2, <1>1, <1>5
    <2> QED BY Zenon, <2>1, <2>2, <1>2
  <1>8. \A i, j \in 1 .. Len(r) : i < j => EndOf(r[i]) <= r[j].SequenceNum
    <2> SUFFICES ASSUME NEW i \in 1 .. Len(r), NEW j \in 1 .. Len(r), i < j
                 PROVE  EndOf(r[i]) <= r[j].SequenceNum
      BY Zenon
    <2>1. i \in 1 .. Len(q) BY <1>1
    <2>2. CASE j \in 1 .. Len(q) BY Zenon, <2>1, <2>2, <1>1 DEF Tiles
    <2>3. CASE j = Len(r) BY Zenon, <2>1, <2>3, <1>1 DEF Tiles
    <2> QED BY Zenon, <2>2, <2>3, <1>2
  <1>9. \A i, j \in 1 .. Len(r) : j = i + 1 => r[j].SequenceNum = EndOf(r[i])
    <2> SUFFICES ASSUME NEW i \in 1 .. Len(r), NEW j \in 1 .. Len(r), j = i + 1
                 PROVE  r[j].SequenceNum = EndOf(r[i])
      BY Zenon
    <2>1. i \in 1 .. Len(q) BY <1>1
    <2>2. CASE j \in 1 .. Len(q) BY SMTT(30), <2>1, <2>2, <1>1 DEF Tiles
    <2>3. CASE j = Len(r)
      <3>1. i = Len(q) /\ q # <<>> BY <2>1, <2>3, <1>1
      <3> QED BY Zenon, <3>1, <2>1, <2>3, <1>1 DEF Tiles
    <2> QED BY Zenon, <2>2, <2>3, <1>2
  <1>10. r[1].SequenceNum = una
    <2>1. CASE q = <<>> BY <2>1, <1>1 DEF Tiles
    <2>2. CASE q # <<>>
      <3>1. 1 \in 1 .. Len(q) BY <2>2
      <3> QED BY Zenon, <2>2, <3>1, <1>1 DEF Tiles
    <2> QED BY Zenon, <2>1, <2>2
  <1>11. Tiles(r, una, EndOf(e)) BY Zenon, <1>1, <1>4, <1>7, <1>8, <1>9, <1>10 DEF Tiles
  <1>12. \A x : Known(q, una, x) => Known(r, una, x) BY Zenon, <1>1, <1>3 DEF Known
  <1>13. \A x : Edge(q, una, x) => Edge(r, una, x) BY Zenon, <1>1, <1>3 DEF Edge
  <1>14. Known(r, una, e) BY Zenon, <1>1, <1>4 DEF Known
  <1> QED BY Zenon, <1>1, <1>11, <1>12, <1>13, <1>14 DEF r

\* removeFromRetransmissionQueue: an edge above UNA cuts the tiling between two
\* segments, and what is cut off is acknowledged.
LEMMA AckedIs ==
  ASSUME NEW q \in Seq(EntrySet), NEW a \in Int
  PROVE  /\ Acked(q, a) \in 0 .. Len(q)
         /\ \A i \in 1 .. Acked(q, a) : q[i].SequenceNum < a
         /\ Acked(q, a) < Len(q) => ~(q[Acked(q, a) + 1].SequenceNum < a)
  <1> DEFINE T == {k \in 0 .. Len(q) : \A i \in 1 .. k : q[i].SequenceNum < a}
             m == Max(T)
  <1>1. Len(q) \in Nat /\ 0 \in T /\ T \subseteq 0 .. Len(q) OBVIOUS
  <1>2. m \in T /\ \A y \in T : m >= y
    <2> HIDE DEF T
    <2> QED BY <1>1, MaxIs, ZenonT(30)
  <1>3. m \in 0 .. Len(q) /\ \A i \in 1 .. m : q[i].SequenceNum < a BY Zenon, <1>2
  <1>4. ASSUME m < Len(q), q[m + 1].SequenceNum < a PROVE FALSE
    <2> HIDE DEF m
    <2>1. m + 1 \in 0 .. Len(q) /\ \A i \in 1 .. m + 1 : i \in 1 .. m \/ i = m + 1
      BY <1>1, <1>3, <1>4
    <2>2. m + 1 \in T BY Zenon, <1>3, <1>4, <2>1
    <2> HIDE DEF T
    <2> QED BY <1>1, <1>2, <1>3, <2>2
  <1> HIDE DEF T
  <1>5. Acked(q, a) = m BY Zenon DEF Acked, T
  <1> HIDE DEF m
  <1> QED BY Zenon, <1>3, <1>4, <1>5

LEMMA CutTiles ==
  ASSUME NEW q \in Seq(EntrySet), NEW una \in Int, NEW nxt \in Int,
         Tiles(q, una, nxt), NEW a \in Int, una < a, Edge(q, una, a)
  PROVE  /\ Unacked(q, a) \in Seq(EntrySet)
         /\ Tiles(Unacked(q, a), a, nxt)
         /\ \A x \in EntrySet : Known(q, una, x) => Known(Unacked(q, a), a, x)
         /\ \A x \in Int : Edge(q, una, x) => Edge(Unacked(q, a), a, x)
  <1> DEFINE k == Acked(q, a)
             r == Unacked(q, a)
  <1>1. k \in 0 .. Len(q) /\ Len(q) \in Nat BY AckedIs
  <1>2. /\ \A i \in 1 .. k : q[i].SequenceNum < a
        /\ k < Len(q) => ~(q[k + 1].SequenceNum < a)
    BY Zenon, AckedIs
  <1>3. \A i \in 1 .. Len(q) : /\ EndOf(q[i]) \in Int /\ q[i].SequenceNum \in Int
                               /\ EndOf(q[i]) > q[i].SequenceNum
    <2> TAKE i \in 1 .. Len(q)
    <2>1. q[i] \in EntrySet OBVIOUS
    <2> QED BY Zenon, <2>1, EntryIs
  <1>4. r = SubSeq(q, k + 1, Len(q)) BY Zenon DEF Unacked
  <1> HIDE DEF k, r
  <1>5. PICK i \in 1 .. Len(q) : a = EndOf(q[i]) BY DEF Edge
  <1>6. i = k
    <2>1. CASE k < i
      <3>1. k + 1 \in 1 .. Len(q) /\ k < Len(q) /\ (k + 1 < i \/ k + 1 = i) BY <1>1, <2>1
      <3>2. ~(q[k + 1].SequenceNum < a) BY Zenon, <1>2, <3>1
      <3>3. q[i].SequenceNum < a BY Zenon, <1>3, <1>5
      <3>4. CASE k + 1 < i
        <4>1. EndOf(q[k + 1]) <= q[i].SequenceNum BY Zenon, <3>1, <3>4 DEF Tiles
        <4> QED BY SMTT(30), <4>1, <3>1, <3>2, <3>3, <1>3
      <3> QED BY Zenon, <3>1, <3>2, <3>3, <3>4
    <2>2. CASE i < k
      <3>1. k \in 1 .. Len(q) /\ k \in 1 .. k BY <1>1, <2>2
      <3>2. EndOf(q[i]) <= q[k].SequenceNum BY Zenon, <2>2, <3>1 DEF Tiles
      <3>3. q[k].SequenceNum < a BY Zenon, <1>2, <3>1
      <3> QED BY <3>1, <3>2, <3>3, <1>3, <1>5
    <2> QED BY <1>1, <2>1, <2>2
  <1>7. k \in 1 .. Len(q) /\ a = EndOf(q[k]) BY Zenon, <1>5, <1>6
  <1>8. /\ r \in Seq(EntrySet) /\ Len(r) = Len(q) - k
        /\ \A j \in 1 .. Len(q) - k : r[j] = q[k + j]
    BY <1>1, <1>4
  <1>9. \A j \in 1 .. Len(r) : k + j \in 1 .. Len(q) /\ k < k + j /\ r[j] = q[k + j]
    BY SMTT(30), <1>1, <1>8
  <1>10. \A j \in 1 .. Len(r) : a <= r[j].SequenceNum /\ EndOf(r[j]) <= nxt
    BY Zenon, <1>7, <1>9 DEF Tiles
  <1>11. \A m, n \in 1 .. Len(r) : m < n => EndOf(r[m]) <= r[n].SequenceNum
    <2> SUFFICES ASSUME NEW m \in 1 .. Len(r), NEW n \in 1 .. Len(r), m < n
                 PROVE  EndOf(r[m]) <= r[n].SequenceNum
      BY Zenon
    <2>1. k + m < k + n BY <1>1
    <2> QED BY Zenon, <2>1, <1>9 DEF Tiles
  <1>12. \A m, n \in 1 .. Len(r) : n = m + 1 => r[n].SequenceNum = EndOf(r[m])
    <2> SUFFICES ASSUME NEW m \in 1 .. Len(r), NEW n \in 1 .. Len(r), n = m + 1
                 PROVE  r[n].SequenceNum = EndOf(r[m])
      BY Zenon
    <2>1. k + n = (k + m) + 1 BY <1>1
    <2>2. k + m \in 1 .. Len(q) /\ k + n \in 1 .. Len(q) /\ r[m] = q[k + m] /\ r[n] = q[k + n]
      BY Zenon, <1>9
    <2>3. q[k + n].SequenceNum = EndOf(q[k + m]) BY Zenon, <2>1, <2>2 DEF Tiles
    <2> QED BY Zenon, <2>2, <2>3
  <1>13. q # <<>> BY <1>7
  <1>14. ASSUME r = <<>> PROVE a = nxt
    <2>1. k = Len(q) BY <1>1, <1>8, <1>14
    <2> QED BY Zenon, <2>1, <1>7, <1>13 DEF Tiles
  <1>15. ASSUME r # <<>> PROVE r[1].SequenceNum = a /\ EndOf(r[Len(r)]) = nxt
    <2>1. 1 \in 1 .. Len(r) /\ Len(r) \in 1 .. Len(r) BY <1>8, <1>15
    <2>2. r[1] = q[k + 1] /\ k + 1 \in 1 .. Len(q) BY Zenon, <2>1, <1>9
    <2>3. k + Len(r) = Len(q) BY <1>1, <1>8
    <2>4. r[Len(r)] = q[Len(q)] BY Zenon, <2>1, <2>3, <1>9
    <2>5. r[1].SequenceNum = a BY <2>2, <1>7 DEF Tiles
    <2> QED BY Zenon, <2>4, <2>5, <1>13 DEF Tiles
  <1>16. Tiles(r, a, nxt) BY Zenon, <1>10, <1>11, <1>12, <1>14, <1>15 DEF Tiles
  <1>17. \A j \in 1 .. Len(q) : EndOf(q[j]) <= a \/ (j - k \in 1 .. Len(r) /\ q[j] = r[j - k])
    <2> TAKE j \in 1 .. Len(q)
    <2>1. CASE j = k BY <2>1, <1>3, <1>7
    <2>2. CASE j < k
      <3>1. EndOf(q[j]) <= q[k].SequenceNum BY Zenon, <2>2, <1>7 DEF Tiles
      <3> QED BY SMTT(30), <3>1, <1>3, <1>7
    <2>3. CASE j > k
      <3>1. j - k \in 1 .. Len(r) /\ k + (j - k) = j BY <2>3, <1>1, <1>8
      <3> QED BY Zenon, <3>1, <1>9
    <2> QED BY <1>1, <2>1, <2>2, <2>3
  <1>18. ASSUME NEW x \in EntrySet, Known(q, una, x) PROVE Known(r, a, x)
    <2>1. CASE EndOf(x) <= una
      <3>1. EndOf(x) <= a BY <2>1, EntryIs
      <3> QED BY Zenon, <3>1 DEF Known
    <2>2. CASE \E j \in 1 .. Len(q) : x = q[j] BY Zenon, <2>2, <1>17 DEF Known
    <2> QED BY Zenon, <1>18, <2>1, <2>2 DEF Known
  <1>19. ASSUME NEW x \in Int, Edge(q, una, x) PROVE Edge(r, a, x)
    <2>1. CASE x <= una
      <3>1. x <= a BY <2>1
      <3> QED BY Zenon, <3>1 DEF Edge
    <2>2. CASE \E j \in 1 .. Len(q) : x = EndOf(q[j]) BY Zenon, <2>2, <1>17 DEF Edge
    <2> QED BY Zenon, <1>19, <2>1, <2>2 DEF Edge
  <1> QED BY Zenon, <1>8, <1>16, <1>18, <1>19 DEF r

\* The end of a known segment is an edge inside what was sent.
LEMMA KnownEnd ==
  ASSUME CCInv, NEW e \in EntrySet, Known(tcb.RetransmissionQueue, tcb.UNA, e)
  PROVE  Edge(tcb.RetransmissionQueue, tcb.UNA, EndOf(e)) /\ EndOf(e) <= tcb.NXT
  <1>1. tcb.UNA \in Int /\ tcb.NXT \in Int /\ rcv.NXT \in Int /\ EndOf(e) \in Int
    BY Zenon, EntryIs DEF CCInv, TypeInv, TCBs, RCVs
  <1>2. tcb.UNA <= tcb.NXT BY <1>1 DEF CCInv, PointerInv
  <1>3. CASE EndOf(e) <= tcb.UNA
    BY <1>1, <1>2, <1>3 DEF Edge
  <1>4. CASE \E i \in 1 .. Len(tcb.RetransmissionQueue) : e = tcb.RetransmissionQueue[i]
    BY Zenon, <1>4 DEF CCInv, QueueInv, Tiles, Edge
  <1> QED BY Zenon, <1>3, <1>4 DEF Known

\* A step that leaves the queue and the pointers it tiles alone, sends only what
\* is in the queue and acknowledges only what the receiver is at.
Quiet ==
    /\ tcb'.UNA = tcb.UNA /\ tcb'.NXT = tcb.NXT
    /\ tcb'.RetransmissionQueue = tcb.RetransmissionQueue
    /\ rcv'.NXT = rcv.NXT /\ rcv'.EarlyArrivalQueue = rcv.EarlyArrivalQueue
    /\ \A e \in DOMAIN segs' : \/ e \in DOMAIN segs
                               \/ \E i \in 1 .. Len(tcb.RetransmissionQueue) :
                                     e = tcb.RetransmissionQueue[i]
    /\ \A a \in DOMAIN acks' : a \in DOMAIN acks \/ a = rcv.NXT

LEMMA QuietKeeps ==
  ASSUME CCInv, Quiet PROVE QueueInv' /\ FlightInv'
  <1>1. QueueInv' BY DEF CCInv, QueueInv, Quiet, Tiles, EndOf
  <1>2. ASSUME NEW e \in DOMAIN segs'
        PROVE  FirstByte <= e.SequenceNum /\ Known(tcb.RetransmissionQueue, tcb.UNA, e)
    <2>1. CASE e \in DOMAIN segs BY Zenon, <2>1 DEF CCInv, FlightInv
    <2>2. CASE \E i \in 1 .. Len(tcb.RetransmissionQueue) : e = tcb.RetransmissionQueue[i]
      <3>1. PICK i \in 1 .. Len(tcb.RetransmissionQueue) : e = tcb.RetransmissionQueue[i] BY Zenon, <2>2
      <3>2. tcb.RetransmissionQueue \in Seq(EntrySet) /\ tcb.UNA \in Int
        BY Zenon DEF CCInv, TypeInv, TCBs
      <3>3. e.SequenceNum \in Int BY <3>1, <3>2, EntryIs
      <3>4. FirstByte <= tcb.UNA /\ tcb.UNA <= e.SequenceNum
        BY Zenon, <3>1 DEF CCInv, PointerInv, QueueInv, Tiles
      <3> QED BY <3>1, <3>2, <3>3, <3>4, Consts DEF Known
    <2> QED BY Zenon, <2>1, <2>2 DEF Quiet
  <1>3. ASSUME NEW a \in DOMAIN acks'
        PROVE  FirstByte <= a /\ a <= rcv.NXT /\ Edge(tcb.RetransmissionQueue, tcb.UNA, a)
    <2>1. CASE a \in DOMAIN acks BY Zenon, <2>1 DEF CCInv, FlightInv
    <2>2. CASE a = rcv.NXT
      <3>1. rcv.NXT \in Int /\ tcb.UNA \in Int BY Zenon DEF CCInv, TypeInv, TCBs, RCVs
      <3> QED BY <2>2, <3>1, Consts DEF CCInv, PointerInv, FlightInv
    <2> QED BY Zenon, <2>1, <2>2 DEF Quiet
  <1>4. FlightInv' BY <1>2, <1>3 DEF CCInv, FlightInv, Quiet, Known, Edge, EndOf
  <1> QED BY Zenon, <1>1, <1>4

-----------------------------------------------------------------------------
(* The actions that leave the queue alone.                                 *)

\* The types of the pointers and counters, and how far apart they are.
LEMMA Fields ==
  ASSUME CCInv
  PROVE  /\ tcb.UNA \in Int /\ tcb.NXT \in Int /\ tcb.LBW \in Int /\ rcv.NXT \in Int
         /\ tcb.CWND \in Nat /\ tcb.SSTHRESH \in Nat /\ tcb.toSend \in Nat
         /\ tcb.UNA <= rcv.NXT /\ rcv.NXT <= tcb.NXT /\ tcb.NXT + tcb.toSend <= tcb.LBW
         /\ tcb.LBW <= tcb.UNA + MAX_BUF_SIZE /\ tcb.LBW <= LastSeq
         /\ 1 <= tcb.UNA /\ tcb.CWND >= MSS_DATA
  <1>1. /\ tcb.UNA \in Int /\ tcb.NXT \in Int /\ tcb.LBW \in Int /\ rcv.NXT \in Int
        /\ tcb.CWND \in Nat /\ tcb.SSTHRESH \in Nat /\ tcb.toSend \in Nat
    BY Zenon DEF CCInv, TypeInv, TCBs, RCVs
  <1>2. /\ tcb.UNA <= rcv.NXT /\ rcv.NXT <= tcb.NXT /\ tcb.NXT + tcb.toSend <= tcb.LBW
        /\ tcb.LBW <= tcb.UNA + MAX_BUF_SIZE /\ tcb.LBW <= LastSeq
        /\ 1 <= tcb.UNA /\ tcb.CWND >= MSS_DATA
    BY Zenon DEF CCInv, PointerInv, CountInv, INIT_CWND, FirstByte
  <1> QED BY Zenon, <1>1, <1>2

LEMMA Queues ==
  ASSUME CCInv
  PROVE  /\ tcb.RetransmissionQueue \in Seq(EntrySet)
         /\ rcv.EarlyArrivalQueue \in Seq(EntrySet)
  BY Zenon DEF CCInv, TypeInv, TCBs, RCVs

\* What is written and not acknowledged fits the buffer, so differences of the
\* pointers do not wrap.
LEMMA Differences ==
  ASSUME CCInv
  PROVE  /\ Sub(tcb.LBW, tcb.UNA) = tcb.LBW - tcb.UNA
         /\ Sub(tcb.NXT, tcb.UNA) = tcb.NXT - tcb.UNA
         /\ Sub(tcb.LBW, tcb.NXT) = tcb.LBW - tcb.NXT
  <1> DEFINE una == tcb.UNA
             nxt == tcb.NXT
             lbw == tcb.LBW
  <1>1. /\ una \in Int /\ nxt \in Int /\ lbw \in Int
        /\ una <= nxt /\ nxt <= lbw /\ lbw <= una + MAX_BUF_SIZE
    BY Fields
  <1>2. MAX_BUF_SIZE \in Nat /\ Word \in Nat /\ MAX_BUF_SIZE < Word BY Consts
  <1> HIDE DEF una, nxt, lbw
  <1>a. una <= lbw /\ lbw - una < Word BY <1>1, <1>2
  <1>b. nxt - una < Word /\ lbw - nxt < Word BY <1>1, <1>2
  <1>3. Sub(lbw, una) = lbw - una BY Zenon, <1>1, <1>a, SubIs
  <1>4. Sub(nxt, una) = nxt - una BY Zenon, <1>1, <1>b, SubIs
  <1>5. Sub(lbw, nxt) = lbw - nxt BY Zenon, <1>1, <1>b, SubIs
  <1> QED BY Zenon, <1>3, <1>4, <1>5 DEF una, nxt, lbw

LEMMA EnableInv ==
  ASSUME CCInv, EnableCC \/ SetCCForSocket PROVE CCInv'
  <1>1. TypeInv' BY Consts, ZenonT(30) DEF CCInv, TypeInv, TCBs, EnableCC, SetCCForSocket
  <1>2. Quiet BY Zenon DEF CCInv, TypeInv, TCBs, EnableCC, SetCCForSocket, Quiet
  <1>3. /\ tcb'.UNA = tcb.UNA /\ tcb'.NXT = tcb.NXT /\ tcb'.LBW = tcb.LBW /\ rcv' = rcv
        /\ tcb'.toSend = tcb.toSend /\ tcb'.send = tcb.send /\ tcb'.CControlEnabled
        /\ tcb'.CurrentAck = tcb.CurrentAck /\ tcb'.CWND \in {tcb.CWND, INIT_CWND}
    BY ZenonT(30) DEF CCInv, TypeInv, TCBs, EnableCC, SetCCForSocket
  <1>4. PointerInv' BY Zenon, <1>3 DEF CCInv, PointerInv
  <1>5. CountInv' BY <1>3, Consts DEF CCInv, CountInv
  <1> QED BY Zenon, <1>1, <1>2, <1>4, <1>5, QuietKeeps DEF CCInv

LEMMA WriteInv ==
  ASSUME CCInv, NEW n \in 1 .. MAX_BUF_SIZE, Write(n) PROVE CCInv'
  <1>0. n \in Nat /\ MAX_BUF_SIZE \in Nat BY Consts
  <1>a. n <= MAX_BUF_SIZE - (tcb.LBW - tcb.UNA) /\ tcb.LBW + n <= LastSeq
    BY Zenon, Differences DEF Write, Room
  <1>b. tcb.LBW + n <= tcb.UNA + MAX_BUF_SIZE /\ tcb.NXT + tcb.toSend <= tcb.LBW + n
    BY <1>0, <1>a, Fields
  <1>c. /\ tcb' = [tcb EXCEPT !.LBW = tcb.LBW + n, !.asleep = Signal(tcb)]
        /\ UNCHANGED <<setting, rcv, segs, acks, lost>>
    BY Zenon DEF Write
  <1>d. tcb.LBW + n \in Int /\ Signal(tcb) \in BOOLEAN BY <1>0, Fields DEF Signal
  <1>1. TypeInv' BY <1>c, <1>d, ZenonT(30) DEF CCInv, TypeInv, TCBs
  <1>2. /\ tcb'.UNA = tcb.UNA /\ tcb'.NXT = tcb.NXT /\ tcb'.LBW = tcb.LBW + n
        /\ tcb'.toSend = tcb.toSend /\ tcb'.send = tcb.send
        /\ tcb'.CControlEnabled = tcb.CControlEnabled
        /\ tcb'.CurrentAck = tcb.CurrentAck /\ tcb'.CWND = tcb.CWND
        /\ tcb'.RetransmissionQueue = tcb.RetransmissionQueue
    BY Zenon, <1>c DEF CCInv, TypeInv, TCBs
  <1>3. Quiet BY Zenon, <1>2, <1>c DEF Quiet
  <1>5. PointerInv' BY Zenon, <1>2, <1>a, <1>b, <1>c DEF CCInv, PointerInv
  <1>6. CountInv' BY Zenon, <1>2 DEF CCInv, CountInv
  <1> QED BY Zenon, <1>1, <1>3, <1>5, <1>6, QuietKeeps DEF CCInv

LEMMA PeerInv ==
  ASSUME CCInv, PeerWrites PROVE CCInv'
  <1>0. DOMAIN acks' = DOMAIN acks \cup {rcv.NXT} BY Zenon, InFlightIs DEF PeerWrites
  <1>1. TypeInv'
    <2>1. rcv' \in RCVs BY DEF CCInv, TypeInv, RCVs, PeerWrites
    <2>2. DOMAIN acks' \subseteq Int BY Zenon, <1>0, Fields DEF CCInv, TypeInv
    <2> QED BY Zenon, <2>1, <2>2 DEF CCInv, TypeInv, PeerWrites
  <1>2. rcv'.NXT = rcv.NXT /\ rcv'.EarlyArrivalQueue = rcv.EarlyArrivalQueue
    BY Zenon DEF CCInv, TypeInv, RCVs, PeerWrites
  <1>3. UNCHANGED <<tcb, segs>> BY Zenon DEF PeerWrites
  <1>4. Quiet BY Zenon, <1>0, <1>2, <1>3 DEF Quiet
  <1>5. PointerInv' /\ CountInv' BY Zenon, <1>2, <1>3 DEF CCInv, PointerInv, CountInv
  <1> QED BY Zenon, <1>1, <1>4, <1>5, QuietKeeps DEF CCInv

LEMMA LoseInv ==
  ASSUME CCInv, Lose PROVE CCInv'
  <1>0. DOMAIN acks' \subseteq DOMAIN acks /\ DOMAIN segs' \subseteq DOMAIN segs
    BY Zenon, WithoutIs DEF Lose
  <1>1. TypeInv' BY <1>0, Consts DEF CCInv, TypeInv, Lose
  <1>2. Quiet BY Zenon, <1>0 DEF Lose, Quiet
  <1>3. PointerInv' /\ CountInv' BY Zenon DEF CCInv, Lose, PointerInv, CountInv
  <1> QED BY Zenon, <1>1, <1>2, <1>3, QuietKeeps DEF CCInv

\* What the part of Send under the lock may change: its place and its plan.
LEMMA SendOutcome ==
  ASSUME CCInv, SendLocked
  PROVE  \E pc \in {"loop", "data1", "data2", "window", "emit"}, zzz \in BOOLEAN, n \in Nat :
            /\ tcb' = [tcb EXCEPT !.send = pc, !.asleep = zzz, !.toSend = n]
            /\ tcb.NXT + n <= tcb.LBW
            /\ pc = "emit" => n > 0
  <1> DEFINE Result(t) == \E pc \in {"loop", "data1", "data2", "window", "emit"},
                             zzz \in BOOLEAN, n \in Nat :
                /\ t = [tcb EXCEPT !.send = pc, !.asleep = zzz, !.toSend = n]
                /\ tcb.NXT + n <= tcb.LBW
                /\ pc = "emit" => n > 0
  <1>1. tcb \in TCBs BY Zenon DEF CCInv, TypeInv
  <1>2. /\ tcb.asleep \in BOOLEAN /\ tcb.toSend \in Nat /\ tcb.NXT + tcb.toSend <= tcb.LBW
    BY Zenon, <1>1, Fields DEF TCBs
  <1>3. ASSUME NEW pc \in {"data1", "data2", "window"} PROVE Result(Sleep(tcb, pc))
    <2>1. Sleep(tcb, pc) = [tcb EXCEPT !.send = pc, !.asleep = TRUE, !.toSend = tcb.toSend]
      BY <1>1, ZenonT(30) DEF Sleep, TCBs
    <2>2. pc # "emit" BY Zenon
    <2> QED BY Zenon, <1>2, <2>1, <2>2
  <1>4. Result([tcb EXCEPT !.send = "loop"])
    <2>1. [tcb EXCEPT !.send = "loop"]
          = [tcb EXCEPT !.send = "loop", !.asleep = tcb.asleep, !.toSend = tcb.toSend]
      BY <1>1, ZenonT(30) DEF TCBs
    <2>2. "loop" # "emit" BY Zenon
    <2> QED BY Zenon, <1>2, <2>1, <2>2
  <1>5. Result(Plan(tcb))
    <2> DEFINE n == Min2(Sub(tcb.UNA + Window(tcb), tcb.NXT), Sub(tcb.LBW, tcb.NXT))
               pc == IF n = 0 THEN "loop" ELSE "emit"
    <2>0. MAX_BUF_SIZE \in Nat BY Zenon, Consts
    <2>1. Window(tcb) \in Int BY <2>0, Fields, Min2Is DEF Window, WND
    <2>2. tcb.UNA + Window(tcb) \in Int BY <2>1, Fields
    <2>3. Sub(tcb.UNA + Window(tcb), tcb.NXT) \in Nat BY <2>2, Fields, SubNat, ZenonT(30)
    <2>4. Sub(tcb.LBW, tcb.NXT) \in Nat BY Fields, SubNat, ZenonT(30)
    <2>5. n \in Nat /\ n <= Sub(tcb.LBW, tcb.NXT) BY <2>3, <2>4, Min2Is
    <2>6. Plan(tcb) = [tcb EXCEPT !.send = pc, !.asleep = tcb.asleep, !.toSend = n]
      BY <1>1, ZenonT(30) DEF Plan, TCBs
    <2> HIDE DEF n
    <2>7. tcb.NXT + n <= tcb.LBW BY <2>5, Differences, Fields
    <2>8. pc \in {"loop", "data1", "data2", "window", "emit"} /\ (pc = "emit" => n > 0) BY <2>5
    <2> HIDE DEF pc
    <2> QED BY Zenon, <1>2, <2>5, <2>6, <2>7, <2>8
  <1> HIDE DEF Result
  <1>6. Result(SendInner(tcb)) BY Zenon, <1>3, <1>5 DEF SendInner
  <1>7. Result(SendOuter(tcb)) BY Zenon, <1>3, <1>4 DEF SendOuter
  <1>8. Result(tcb') BY Zenon, <1>3, <1>4, <1>6, <1>7 DEF SendLocked
  <1> QED BY Zenon, <1>8 DEF Result

LEMMA SendInv ==
  ASSUME CCInv, SendLocked PROVE CCInv'
  <1>1. PICK pc \in {"loop", "data1", "data2", "window", "emit"}, zzz \in BOOLEAN, n \in Nat :
            /\ tcb' = [tcb EXCEPT !.send = pc, !.asleep = zzz, !.toSend = n]
            /\ tcb.NXT + n <= tcb.LBW
            /\ pc = "emit" => n > 0
    BY Zenon, SendOutcome
  <1>2. UNCHANGED <<setting, rcv, segs, acks, lost>> BY Zenon DEF SendLocked
  <1>3. TypeInv' BY <1>1, <1>2, ZenonT(30) DEF CCInv, TypeInv, TCBs
  <1>4. /\ tcb'.UNA = tcb.UNA /\ tcb'.NXT = tcb.NXT /\ tcb'.LBW = tcb.LBW
        /\ tcb'.toSend = n /\ tcb'.send = pc
        /\ tcb'.CControlEnabled = tcb.CControlEnabled
        /\ tcb'.CurrentAck = tcb.CurrentAck /\ tcb'.CWND = tcb.CWND
        /\ tcb'.RetransmissionQueue = tcb.RetransmissionQueue
    BY Zenon, <1>1 DEF CCInv, TypeInv, TCBs
  <1>5. Quiet BY Zenon, <1>2, <1>4 DEF Quiet
  <1>6. PointerInv' BY Zenon, <1>1, <1>2, <1>4 DEF CCInv, PointerInv
  <1>7. CountInv' BY Zenon, <1>4 DEF CCInv, CountInv
  <1> QED BY Zenon, <1>3, <1>5, <1>6, <1>7, QuietKeeps DEF CCInv

\* AfterLoss closes the window to one segment and leaves the rest alone.
LEMMA LossIs ==
  ASSUME CCInv
  PROVE  \E w \in Nat, s \in Nat :
            AfterLoss(tcb) = [tcb EXCEPT !.SSTHRESH = s, !.CWND = w] /\ w >= INIT_CWND
  <1>1. tcb.CWND \div 2 \in Nat BY Fields, Quotient
  <1>2. INIT_CWND \in Nat /\ INIT_CWND >= INIT_CWND BY Consts
  <1> QED BY Zenon, <1>1, <1>2 DEF AfterLoss

LEMMA HeadIs ==
  ASSUME CCInv, tcb.RetransmissionQueue # <<>>
  PROVE  /\ Head(tcb.RetransmissionQueue) = tcb.RetransmissionQueue[1]
         /\ Len(tcb.RetransmissionQueue) \in Nat /\ 1 \in 1 .. Len(tcb.RetransmissionQueue)
         /\ tcb.RetransmissionQueue[1] \in EntrySet
  BY Queues

\* A step that changes only the congestion window and counters, and may send the
\* head of the queue again.
LEMMA CountersInv ==
  ASSUME CCInv, tcb' \in TCBs, UNCHANGED <<setting, rcv, lost>>,
         NEW w \in Nat, w >= INIT_CWND, NEW s \in Nat, NEW c \in Nat,
         NEW f \in Nat, NEW tc \in BOOLEAN,
         tcb' = [tcb EXCEPT !.SSTHRESH = s, !.CWND = w, !.RetransmitCounter = c,
                            !.CurrentAckFreq = f, !.TimeoutCancelled = tc],
         \/ segs' = segs
         \/ /\ tcb.RetransmissionQueue # <<>>
            /\ segs' = InFlight(segs, Head(tcb.RetransmissionQueue)),
         DOMAIN acks' \subseteq DOMAIN acks
  PROVE  CCInv'
  <1>1. /\ tcb'.UNA = tcb.UNA /\ tcb'.NXT = tcb.NXT /\ tcb'.LBW = tcb.LBW
        /\ tcb'.toSend = tcb.toSend /\ tcb'.send = tcb.send
        /\ tcb'.CControlEnabled = tcb.CControlEnabled
        /\ tcb'.CurrentAck = tcb.CurrentAck /\ tcb'.CWND = w
        /\ tcb'.RetransmissionQueue = tcb.RetransmissionQueue
    BY DEF CCInv, TypeInv, TCBs
  <1>2. \A e \in DOMAIN segs' :
           \/ e \in DOMAIN segs
           \/ \E i \in 1 .. Len(tcb.RetransmissionQueue) : e = tcb.RetransmissionQueue[i]
    <2>1. CASE segs' = segs BY Zenon, <2>1
    <2>2. CASE /\ tcb.RetransmissionQueue # <<>>
               /\ segs' = InFlight(segs, Head(tcb.RetransmissionQueue))
      <3>1. DOMAIN segs' = DOMAIN segs \cup {tcb.RetransmissionQueue[1]}
        BY <2>2, HeadIs, InFlightIs, ZenonT(30)
      <3> QED BY Zenon, <2>2, <3>1, HeadIs
    <2> QED BY Zenon, <2>1, <2>2
  <1>3. DOMAIN segs' \subseteq EntrySet
    <2>1. \A i \in 1 .. Len(tcb.RetransmissionQueue) : tcb.RetransmissionQueue[i] \in EntrySet
      BY Queues
    <2> QED BY Zenon, <1>2, <2>1 DEF CCInv, TypeInv
  <1>4. TypeInv' BY Zenon, <1>1, <1>3 DEF CCInv, TypeInv
  <1>5. Quiet BY Zenon, <1>1, <1>2 DEF Quiet
  <1>6. PointerInv' BY Zenon, <1>1 DEF CCInv, PointerInv
  <1>7. CountInv' BY Zenon, <1>1 DEF CCInv, CountInv
  <1> QED BY Zenon, <1>4, <1>5, <1>6, <1>7, QuietKeeps DEF CCInv

LEMMA TimeoutInv ==
  ASSUME CCInv, Timeout PROVE CCInv'
  <1>1. tcb \in TCBs /\ tcb.CurrentAckFreq \in Nat /\ tcb.RetransmitCounter \in Nat
        /\ tcb.RetransmitCounter <= MAX_RETRANSMISSIONS /\ tcb.TimeoutCancelled \in BOOLEAN
    BY Consts DEF CCInv, TypeInv, TCBs
  <1>2. tcb.CWND \in Nat /\ tcb.CWND >= INIT_CWND /\ tcb.SSTHRESH \in Nat
    BY Zenon, Fields DEF INIT_CWND
  <1>3. UNCHANGED <<setting, rcv, acks, lost>> /\ tcb.RetransmissionQueue # <<>> BY Zenon DEF Timeout
  <1>4. CASE tcb.RetransmitCounter = MAX_RETRANSMISSIONS
    <2>1. tcb' = [tcb EXCEPT !.SSTHRESH = tcb.SSTHRESH, !.CWND = tcb.CWND,
                             !.RetransmitCounter = tcb.RetransmitCounter,
                             !.CurrentAckFreq = tcb.CurrentAckFreq, !.TimeoutCancelled = TRUE]
      BY <1>1, <1>4, ZenonT(30) DEF Timeout, TCBs
    <2>2. tcb' \in TCBs /\ segs' = segs BY <1>1, <1>4, ZenonT(30) DEF Timeout, TCBs
    <2> QED BY Zenon, <1>1, <1>2, <1>3, <2>1, <2>2, CountersInv
  <1>5. CASE tcb.RetransmitCounter # MAX_RETRANSMISSIONS
    <2> DEFINE c == tcb.RetransmitCounter + 1
    <2>0. c \in Nat /\ c \in 0 .. MAX_RETRANSMISSIONS BY SMTT(30), <1>1, <1>5, Consts
    <2>1. \E w \in Nat, s \in Nat :
             OneLoss(tcb) = [tcb EXCEPT !.SSTHRESH = s, !.CWND = w] /\ w >= INIT_CWND
      <3>1. tcb = [tcb EXCEPT !.SSTHRESH = tcb.SSTHRESH, !.CWND = tcb.CWND] BY <1>1, ZenonT(30) DEF TCBs
      <3> QED BY Zenon, <1>2, <3>1, LossIs DEF OneLoss
    <2>2. PICK w \in Nat, s \in Nat :
             OneLoss(tcb) = [tcb EXCEPT !.SSTHRESH = s, !.CWND = w] /\ w >= INIT_CWND
      BY Zenon, <2>1
    <2>3. tcb' = [OneLoss(tcb) EXCEPT !.RetransmitCounter = @ + 1] BY Zenon, <1>5 DEF Timeout
    <2>4. tcb' = [tcb EXCEPT !.SSTHRESH = s, !.CWND = w, !.RetransmitCounter = c,
                             !.CurrentAckFreq = tcb.CurrentAckFreq,
                             !.TimeoutCancelled = tcb.TimeoutCancelled]
      BY <1>1, <2>2, <2>3, ZenonT(30) DEF TCBs
    <2> HIDE DEF c
    <2>5. tcb' \in TCBs BY <1>1, <2>0, <2>4, ZenonT(30) DEF TCBs
    <2>6. segs' = InFlight(segs, Head(tcb.RetransmissionQueue)) BY Zenon, <1>5 DEF Timeout
    <2> QED BY ZenonT(90), <1>1, <1>3, <2>0, <2>2, <2>4, <2>5, <2>6, CountersInv
  <1> QED BY Zenon, <1>4, <1>5

LEMMA OldAckInv ==
  ASSUME CCInv, NEW a, FastRetransmit(a) \/ AckOld(a),
         DOMAIN acks' \subseteq DOMAIN acks, UNCHANGED <<setting, rcv, lost>>
  PROVE  CCInv'
  <1>1. tcb \in TCBs /\ tcb.CurrentAckFreq \in Nat /\ tcb.RetransmitCounter \in Nat
        /\ tcb.TimeoutCancelled \in BOOLEAN
    BY Consts DEF CCInv, TypeInv, TCBs
  <1>2. tcb.CWND \in Nat /\ tcb.CWND >= INIT_CWND /\ tcb.SSTHRESH \in Nat
    BY Zenon, Fields DEF INIT_CWND
  <1>3. CASE FastRetransmit(a)
    <2>1. PICK w \in Nat, s \in Nat :
             AfterLoss(tcb) = [tcb EXCEPT !.SSTHRESH = s, !.CWND = w] /\ w >= INIT_CWND
      BY Zenon, LossIs
    <2>2. tcb' = [AfterLoss(tcb) EXCEPT !.CurrentAckFreq = 0] BY Zenon, <1>3 DEF FastRetransmit
    <2>3. tcb' = [tcb EXCEPT !.SSTHRESH = s, !.CWND = w,
                             !.RetransmitCounter = tcb.RetransmitCounter,
                             !.CurrentAckFreq = 0, !.TimeoutCancelled = tcb.TimeoutCancelled]
      BY <1>1, <2>1, <2>2, ZenonT(30) DEF TCBs
    <2>4. tcb' \in TCBs BY <1>1, <2>3, ZenonT(30) DEF TCBs
    <2>5. /\ tcb.RetransmissionQueue # <<>>
          /\ segs' = InFlight(segs, Head(tcb.RetransmissionQueue))
      BY Zenon, <1>3 DEF FastRetransmit, Third, Retransmitted
    <2> QED BY Zenon, <1>1, <2>1, <2>3, <2>4, <2>5, CountersInv
  <1>4. CASE AckOld(a)
    <2> DEFINE f == tcb.CurrentAckFreq + IF Duplicate(tcb, a) THEN 1 ELSE 0
    <2>0. f \in Nat BY <1>1
    <2>1. tcb' = [tcb EXCEPT !.CurrentAckFreq = f] /\ segs' = segs BY Zenon, <1>4 DEF AckOld
    <2> HIDE DEF f
    <2>2. tcb' = [tcb EXCEPT !.SSTHRESH = tcb.SSTHRESH, !.CWND = tcb.CWND,
                             !.RetransmitCounter = tcb.RetransmitCounter,
                             !.CurrentAckFreq = f, !.TimeoutCancelled = tcb.TimeoutCancelled]
      BY <1>1, <2>1, ZenonT(30) DEF TCBs
    <2>3. tcb' \in TCBs BY <1>1, <2>0, <2>1, ZenonT(30) DEF TCBs
    <2>4. segs' = segs BY Zenon, <2>1
    <2> QED BY Zenon, <1>1, <1>2, <2>0, <2>2, <2>3, <2>4, CountersInv
  <1> QED BY Zenon, <1>3, <1>4

-----------------------------------------------------------------------------
(* The actions that change the queue, or what the receiver is at.          *)

LEMMA EmitInv ==
  ASSUME CCInv, SendEmit PROVE CCInv'
  <1> DEFINE q == tcb.RetransmissionQueue
             n == Min2(tcb.toSend, MSS_DATA)
             e == Entry(tcb.NXT, n)
             pc == IF tcb.toSend = n THEN "loop" ELSE "emit"
  <1>1. /\ tcb.UNA \in Int /\ tcb.NXT \in Int /\ tcb.UNA <= tcb.NXT /\ tcb.toSend \in Nat
        /\ tcb.NXT + tcb.toSend <= tcb.LBW /\ tcb.LBW \in Int /\ rcv.NXT \in Int
        /\ rcv.NXT <= tcb.NXT /\ 1 <= tcb.UNA
    BY Fields
  <1>2. tcb.toSend > 0 BY Zenon DEF CCInv, PointerInv, SendEmit
  <1>3. MSS_DATA \in Nat /\ MSS_DATA >= 1 BY Zenon, Consts
  <1>4. n \in 1 .. MSS_DATA /\ n \in Nat /\ n <= tcb.toSend BY SMTT(30), <1>1, <1>2, <1>3, Min2Is
  <1>5. /\ segs' = InFlight(segs, e)
        /\ tcb' = [tcb EXCEPT !.RetransmissionQueue = Append(q, e),
                              !.NXT = tcb.NXT + n, !.toSend = tcb.toSend - n, !.send = pc]
        /\ UNCHANGED <<setting, rcv, acks, lost>>
    BY Zenon DEF SendEmit
  <1> HIDE DEF n
  <1>6. e \in EntrySet /\ e.SequenceNum = tcb.NXT /\ EndOf(e) = tcb.NXT + n
    BY Zenon, <1>1, <1>4 DEF Entry, EntrySet, EndOf
  <1> HIDE DEF e
  <1>7. q \in Seq(EntrySet) /\ Tiles(q, tcb.UNA, tcb.NXT) BY Zenon, Queues DEF CCInv, QueueInv
  <1> HIDE DEF q
  <1>8. /\ Append(q, e) \in Seq(EntrySet)
        /\ Tiles(Append(q, e), tcb.UNA, EndOf(e))
        /\ \A x : Known(q, tcb.UNA, x) => Known(Append(q, e), tcb.UNA, x)
        /\ \A x : Edge(q, tcb.UNA, x) => Edge(Append(q, e), tcb.UNA, x)
        /\ Known(Append(q, e), tcb.UNA, e)
    BY Zenon, <1>1, <1>6, <1>7, AppendTiles
  <1>9. /\ tcb.NXT + n \in Int /\ tcb.toSend - n \in Nat /\ pc \in {"loop", "emit"}
        /\ (pc = "emit" => tcb.toSend - n > 0)
        /\ (tcb.NXT + n) + (tcb.toSend - n) <= tcb.LBW /\ rcv.NXT <= tcb.NXT + n
    BY <1>1, <1>4
  <1> HIDE DEF pc
  <1>10. /\ tcb' \in TCBs /\ tcb'.UNA = tcb.UNA /\ tcb'.NXT = tcb.NXT + n /\ tcb'.LBW = tcb.LBW
         /\ tcb'.toSend = tcb.toSend - n /\ tcb'.send = pc
         /\ tcb'.CControlEnabled = tcb.CControlEnabled
         /\ tcb'.CurrentAck = tcb.CurrentAck /\ tcb'.CWND = tcb.CWND
         /\ tcb'.RetransmissionQueue = Append(q, e)
    BY <1>5, <1>8, <1>9, ZenonT(30) DEF CCInv, TypeInv, TCBs
  <1>11. DOMAIN segs' = DOMAIN segs \cup {e} BY Zenon, <1>5, InFlightIs
  <1>12. TypeInv' BY Zenon, <1>5, <1>6, <1>10, <1>11 DEF CCInv, TypeInv
  <1>13. PointerInv' BY Zenon, <1>5, <1>9, <1>10 DEF CCInv, PointerInv
  <1>14. CountInv' BY Zenon, <1>10 DEF CCInv, CountInv
  <1>15. QueueInv' BY Zenon, <1>6, <1>8, <1>10 DEF QueueInv
  <1>16. FlightInv'
    <2>1. FirstByte <= e.SequenceNum BY SMTT(30), <1>1, <1>6 DEF FirstByte
    <2>2. \A x \in DOMAIN segs' : FirstByte <= x.SequenceNum /\ Known(Append(q, e), tcb.UNA, x)
      BY Zenon, <1>8, <1>11, <2>1 DEF CCInv, FlightInv, q
    <2>3. /\ \A i \in 1 .. Len(rcv.EarlyArrivalQueue) :
                Known(Append(q, e), tcb.UNA, rcv.EarlyArrivalQueue[i])
          /\ Edge(Append(q, e), tcb.UNA, rcv.NXT)
          /\ \A a \in DOMAIN acks : FirstByte <= a /\ a <= rcv.NXT /\ Edge(Append(q, e), tcb.UNA, a)
      BY Zenon, <1>8 DEF CCInv, FlightInv, q
    <2> QED BY Zenon, <1>5, <1>10, <2>2, <2>3 DEF FlightInv
  <1> QED BY Zenon, <1>12, <1>13, <1>14, <1>15, <1>16 DEF CCInv

\* updateAckNum and Push: the receiver moves to the end of a known segment.
LEMMA DataInv ==
  ASSUME CCInv, NEW m \in DOMAIN segs, ReceiveData(m) PROVE CCInv'
  <1> DEFINE q == rcv.EarlyArrivalQueue
             num == AckNumAfter(q, EndOf(m))
             rest == QueueAfter(q, EndOf(m))
             K(x) == Known(tcb.RetransmissionQueue, tcb.UNA, x)
             E(x) == Edge(tcb.RetransmissionQueue, tcb.UNA, x)
  <1>1. m \in EntrySet /\ K(m) BY Zenon DEF CCInv, TypeInv, FlightInv
  <1>2. /\ rcv \in RCVs /\ q \in Seq(EntrySet) /\ rcv.NXT \in Int /\ rcv.NXT <= tcb.NXT
        /\ E(rcv.NXT) /\ \A i \in 1 .. Len(q) : K(q[i])
        /\ tcb.UNA \in Int /\ tcb.NXT \in Int /\ 1 <= tcb.UNA /\ tcb.UNA <= rcv.NXT
    BY Zenon, Fields, Queues DEF CCInv, TypeInv, FlightInv
  <1>3. \A x \in EntrySet : K(x) => E(EndOf(x)) /\ EndOf(x) <= tcb.NXT BY Zenon, KnownEnd
  <1>4. EndOf(m) \in Int /\ EndOf(m) > m.SequenceNum /\ m.SequenceNum \in Int BY Zenon, <1>1, EntryIs
  <1>5. EntrySet \subseteq [SequenceNum : Int, PayloadLen : Nat]
    BY Consts DEF EntrySet
  <1>6. Merged(q, EntrySet, EndOf(m), num, rest) BY Zenon, <1>2, <1>4, <1>5, UpdateAckNumIs
  <1>7. Pushed(q, EntrySet, m, Push(q, m)) BY Zenon, <1>1, <1>2, PushIs
  <1> HIDE DEF q, num, rest, K, E
  <1>8. /\ num \in Int /\ num >= EndOf(m) /\ E(num) /\ num <= tcb.NXT
        /\ rest \in Seq(EntrySet) /\ \A j \in 1 .. Len(rest) : K(rest[j])
    <2>1. \A i \in 1 .. Len(q) : q[i] \in EntrySet BY <1>2
    <2> QED BY Zenon, <1>1, <1>2, <1>3, <1>6, <2>1 DEF Merged
  <1>9. Push(q, m) \in Seq(EntrySet) /\ \A j \in 1 .. Len(Push(q, m)) : K(Push(q, m)[j])
    BY Zenon, <1>1, <1>2, <1>7 DEF Pushed
  <1>10. /\ rcv' \in RCVs /\ rcv'.NXT \in Int /\ rcv.NXT <= rcv'.NXT /\ rcv'.NXT <= tcb.NXT
         /\ E(rcv'.NXT)
         /\ \A j \in 1 .. Len(rcv'.EarlyArrivalQueue) : K(rcv'.EarlyArrivalQueue[j])
    <2>1. CASE rcv' = rcv BY <1>2, <2>1 DEF q
    <2>2. CASE /\ m.SequenceNum = rcv.NXT
               /\ rcv' = [rcv EXCEPT !.NXT = num, !.EarlyArrivalQueue = rest]
      <3>1. rcv.NXT <= num BY SMTT(30), <1>2, <1>4, <1>8, <2>2
      <3>2. rcv' \in RCVs /\ rcv'.NXT = num /\ rcv'.EarlyArrivalQueue = rest
        BY <1>2, <1>8, <2>2, ZenonT(30) DEF RCVs
      <3> QED BY Zenon, <1>8, <3>1, <3>2
    <2>3. CASE rcv' = [rcv EXCEPT !.EarlyArrivalQueue = Push(q, m)]
      <3>1. rcv' \in RCVs /\ rcv'.NXT = rcv.NXT /\ rcv'.EarlyArrivalQueue = Push(q, m)
        BY Zenon, <1>2, <1>9, <2>3 DEF RCVs
      <3> QED BY <1>2, <1>9, <3>1
    <2>4. \/ rcv' = rcv
          \/ /\ m.SequenceNum = rcv.NXT
             /\ rcv' = [rcv EXCEPT !.NXT = num, !.EarlyArrivalQueue = rest]
          \/ rcv' = [rcv EXCEPT !.EarlyArrivalQueue = Push(q, m)]
      BY Zenon DEF ReceiveData, q, num, rest
    <2> QED BY Zenon, <2>1, <2>2, <2>3, <2>4
  <1>11. /\ DOMAIN segs' \subseteq DOMAIN segs /\ DOMAIN acks' = DOMAIN acks \cup {rcv'.NXT}
         /\ UNCHANGED <<tcb, setting, lost>>
    BY Zenon, WithoutIs, InFlightIs DEF ReceiveData
  <1>12. TypeInv' BY Zenon, <1>10, <1>11 DEF CCInv, TypeInv
  <1>13. PointerInv'
    <2>1. tcb.UNA <= rcv'.NXT BY <1>2, <1>10
    <2> QED BY Zenon, <1>10, <1>11, <2>1 DEF CCInv, PointerInv
  <1>14. CountInv' /\ QueueInv' BY Zenon, <1>11 DEF CCInv, CountInv, QueueInv
  <1>15. FlightInv'
    <2>1. \A a \in DOMAIN acks : a \in Int /\ FirstByte <= a /\ a <= rcv.NXT /\ E(a)
      BY Zenon DEF CCInv, TypeInv, FlightInv, E
    <2>2. \A a \in DOMAIN acks : a <= rcv'.NXT BY SMTT(30), <1>2, <1>10, <2>1
    <2>3. FirstByte <= rcv'.NXT BY <1>2, <1>10 DEF FirstByte
    <2>4. \A a \in DOMAIN acks' : FirstByte <= a /\ a <= rcv'.NXT /\ E(a)
      BY SMTT(30), <1>10, <1>11, <2>1, <2>2, <2>3
    <2> QED BY Zenon, <1>10, <1>11, <2>4 DEF CCInv, FlightInv, K, E
  <1> QED BY Zenon, <1>12, <1>13, <1>14, <1>15 DEF CCInv

\* UpdateCWNDWindow never closes the window.
LEMMA CountedIs ==
  ASSUME CCInv, NEW a \in Int
  PROVE  \E w \in Nat, c \in Int, f \in Nat :
            /\ Counted(tcb, a) = [tcb EXCEPT !.CWND = w, !.CurrentAck = c, !.CurrentAckFreq = f]
            /\ w >= INIT_CWND
            /\ c = IF tcb.CControlEnabled THEN a ELSE tcb.CurrentAck
  <1>1. tcb \in TCBs /\ tcb.CurrentAck \in Int /\ tcb.CurrentAckFreq \in Nat
    BY Zenon DEF CCInv, TypeInv, TCBs
  <1>2. tcb.CWND \in Nat /\ tcb.CWND >= MSS_DATA /\ MSS_DATA \in Nat /\ MSS_DATA >= 1
        /\ INIT_CWND = MSS_DATA
    BY Zenon, Fields, Consts
  <1>3. CASE tcb.CControlEnabled
    <2> DEFINE d == IF tcb.CWND < tcb.SSTHRESH THEN MSS_DATA
                    ELSE (MSS_DATA * MSS_DATA) \div tcb.CWND
               w == tcb.CWND + d
    <2>1. MSS_DATA * MSS_DATA \in Nat /\ tcb.CWND > 0 BY <1>2
    <2>2. (MSS_DATA * MSS_DATA) \div tcb.CWND \in Nat BY Zenon, <1>2, <2>1, Quotient
    <2>3. d \in Nat BY Zenon, <1>2, <2>2
    <2>4. UpdateCWNDWindow(tcb) = [tcb EXCEPT !.CWND = w] BY Zenon, <1>1 DEF UpdateCWNDWindow, TCBs
    <2> HIDE DEF d
    <2>5. w \in Nat /\ w >= INIT_CWND BY <1>2, <2>3
    <2> HIDE DEF w
    <2>6. Counted(tcb, a) = [tcb EXCEPT !.CWND = w, !.CurrentAck = a, !.CurrentAckFreq = 1]
      BY Zenon, <1>1, <1>3, <2>4 DEF Counted, TCBs
    <2> QED BY Zenon, <1>3, <2>5, <2>6
  <1>4. CASE ~tcb.CControlEnabled
    <2>1. Counted(tcb, a) = [tcb EXCEPT !.CWND = tcb.CWND, !.CurrentAck = tcb.CurrentAck,
                                        !.CurrentAckFreq = tcb.CurrentAckFreq]
      BY <1>1, <1>4, ZenonT(30) DEF Counted, TCBs
    <2> QED BY Zenon, <1>1, <1>2, <1>4, <2>1
  <1> QED BY Zenon, <1>3, <1>4

\* An acknowledgment that is accepted cuts the queue between two segments.
LEMMA NewAckInv ==
  ASSUME CCInv, NEW a \in DOMAIN acks, AckNew(a),
         DOMAIN acks' \subseteq DOMAIN acks, UNCHANGED <<setting, rcv, lost>>
  PROVE  CCInv'
  <1> DEFINE q == tcb.RetransmissionQueue
             r == Unacked(q, a)
             n == IF r = q THEN tcb.RetransmitCounter ELSE 0
             zzz == Broadcast(tcb)
  <1>1. a \in Int /\ Edge(q, tcb.UNA, a) /\ a <= rcv.NXT BY Zenon DEF CCInv, TypeInv, FlightInv
  <1>2. /\ tcb.UNA \in Int /\ tcb.NXT \in Int /\ tcb.LBW \in Int /\ rcv.NXT \in Int
        /\ 1 <= tcb.UNA /\ tcb.LBW <= tcb.UNA + MAX_BUF_SIZE /\ MAX_BUF_SIZE \in Nat
    BY Zenon, Fields, Consts
  <1>3. tcb.UNA < a BY <1>1, <1>2 DEF AckNew
  <1>4. q \in Seq(EntrySet) /\ Tiles(q, tcb.UNA, tcb.NXT) BY Zenon, Queues DEF CCInv, QueueInv
  <1>5. tcb \in TCBs /\ tcb.RetransmitCounter \in 0 .. MAX_RETRANSMISSIONS
    BY Zenon DEF CCInv, TypeInv, TCBs
  <1>6. zzz \in BOOLEAN /\ n \in 0 .. MAX_RETRANSMISSIONS BY SMTT(30), <1>5, Consts DEF Broadcast
  <1>7. PICK w \in Nat, c \in Int, f \in Nat :
            /\ Counted(tcb, a) = [tcb EXCEPT !.CWND = w, !.CurrentAck = c, !.CurrentAckFreq = f]
            /\ w >= INIT_CWND
            /\ c = IF tcb.CControlEnabled THEN a ELSE tcb.CurrentAck
    BY Zenon, <1>1, CountedIs
  <1>8. /\ tcb' = [Counted(tcb, a) EXCEPT
                      !.RetransmissionQueue = r,
                      !.RetransmitCounter = IF r = q THEN @ ELSE 0,
                      !.UNA = a, !.asleep = zzz]
        /\ segs' = segs
    BY Zenon DEF AckNew
  <1> HIDE DEF q
  <1>9. /\ r \in Seq(EntrySet) /\ Tiles(r, a, tcb.NXT)
        /\ \A x \in EntrySet : Known(q, tcb.UNA, x) => Known(r, a, x)
        /\ \A x \in Int : Edge(q, tcb.UNA, x) => Edge(r, a, x)
    BY Zenon, <1>1, <1>2, <1>3, <1>4, CutTiles
  <1> HIDE DEF r, zzz
  <1>10. tcb' = [tcb EXCEPT !.CWND = w, !.CurrentAck = c, !.CurrentAckFreq = f,
                            !.RetransmissionQueue = r, !.RetransmitCounter = n,
                            !.UNA = a, !.asleep = zzz]
    BY <1>5, <1>7, <1>8, ZenonT(30) DEF TCBs
  <1> HIDE DEF n
  <1>11. /\ tcb' \in TCBs /\ tcb'.UNA = a /\ tcb'.NXT = tcb.NXT /\ tcb'.LBW = tcb.LBW
         /\ tcb'.toSend = tcb.toSend /\ tcb'.send = tcb.send
         /\ tcb'.CControlEnabled = tcb.CControlEnabled
         /\ tcb'.CurrentAck = c /\ tcb'.CWND = w
         /\ tcb'.RetransmissionQueue = r
    BY <1>1, <1>5, <1>6, <1>9, <1>10, ZenonT(30) DEF TCBs
  <1>12. TypeInv' BY Zenon, <1>8, <1>11 DEF CCInv, TypeInv
  <1>13. PointerInv'
    <2>1. 1 <= a /\ tcb.LBW <= a + MAX_BUF_SIZE BY <1>1, <1>2, <1>3
    <2> QED BY Zenon, <1>1, <1>11, <2>1 DEF CCInv, PointerInv, FirstByte
  <1>14. CountInv'
    <2>1. ~tcb.CControlEnabled => tcb.CurrentAck = 0 BY Zenon DEF CCInv, CountInv
    <2>2. c \in {0, a} /\ (~tcb.CControlEnabled => c = 0) BY Zenon, <1>7, <2>1
    <2> QED BY Zenon, <1>7, <1>11, <2>2 DEF CountInv
  <1>15. QueueInv' BY Zenon, <1>9, <1>11 DEF QueueInv
  <1>16. FlightInv'
    <2>1. \A x \in DOMAIN segs : FirstByte <= x.SequenceNum /\ Known(r, a, x)
      BY Zenon, <1>9 DEF CCInv, TypeInv, FlightInv, q
    <2>2. \A i \in 1 .. Len(rcv.EarlyArrivalQueue) : Known(r, a, rcv.EarlyArrivalQueue[i])
      <3>1. \A i \in 1 .. Len(rcv.EarlyArrivalQueue) : rcv.EarlyArrivalQueue[i] \in EntrySet
        BY SMTT(30), Queues
      <3> QED BY Zenon, <1>9, <3>1 DEF CCInv, FlightInv, q
    <2>3. /\ Edge(r, a, rcv.NXT)
          /\ \A x \in DOMAIN acks : FirstByte <= x /\ x <= rcv.NXT /\ Edge(r, a, x)
      BY Zenon, <1>2, <1>9 DEF CCInv, TypeInv, FlightInv, q
    <2> QED BY Zenon, <1>8, <1>11, <2>1, <2>2, <2>3 DEF FlightInv
  <1> QED BY Zenon, <1>12, <1>13, <1>14, <1>15, <1>16 DEF CCInv

-----------------------------------------------------------------------------
(* The theorems.                                                           *)

LEMMA InitCC == Init => CCInv
  <1> SUFFICES ASSUME Init PROVE CCInv BY Zenon
  <1>1. /\ tcb = [UNA |-> 1, NXT |-> 1, LBW |-> 1, CWND |-> MAX_BUF_SIZE, SSTHRESH |-> 0,
                  CControlEnabled |-> FALSE, CurrentAck |-> 0, CurrentAckFreq |-> 0,
                  RetransmissionQueue |-> <<>>, RetransmitCounter |-> 0,
                  TimeoutCancelled |-> FALSE, send |-> "loop", asleep |-> FALSE, toSend |-> 0]
        /\ rcv = [NXT |-> 1, EarlyArrivalQueue |-> <<>>, chatter |-> 0]
        /\ setting = "no" /\ lost = 0
    BY Zenon DEF Init, FirstByte
  <1>2. DOMAIN segs = {} /\ DOMAIN acks = {} BY Zenon DEF Init, NoPackets
  <1>3. <<>> \in Seq(EntrySet) /\ Len(<<>>) = 0 BY SMTT(30)
  <1>4. tcb \in TCBs BY <1>1, <1>3, Consts DEF TCBs
  <1>5. TypeInv
    <2>1. rcv \in RCVs BY <1>1, <1>3 DEF RCVs
    <2>2. setting \in {"no", "stored", "done"} /\ tcb.CControlEnabled = (setting # "no")
      BY <1>1, ZenonT(30)
    <2>3. lost \in 0 .. LossMax BY SMTT(30), <1>1, Consts
    <2> QED BY Zenon, <1>2, <1>4, <2>1, <2>2, <2>3 DEF TypeInv
  <1>6. PointerInv BY SMTT(30), <1>1, Consts DEF PointerInv, LastSeq
  <1>7. CountInv BY Zenon, <1>1, Consts DEF CountInv
  <1>8. QueueInv
    <2>1. tcb.RetransmissionQueue = <<>> /\ tcb.UNA = 1 /\ tcb.NXT = 1 BY Zenon, <1>1
    <2>2. 1 .. Len(tcb.RetransmissionQueue) = {} BY SMTT(30), <1>3, <2>1
    <2> QED BY Zenon, <2>1, <2>2 DEF QueueInv, Tiles
  <1>9. FlightInv BY <1>1, <1>2, <1>3 DEF FlightInv, Edge
  <1> QED BY Zenon, <1>5, <1>6, <1>7, <1>8, <1>9 DEF CCInv

LEMMA NextCC == CCInv /\ [Next]_vars => CCInv'
  <1> SUFFICES ASSUME CCInv, [Next]_vars PROVE CCInv' BY Zenon
  <1>1. CASE EnableCC \/ SetCCForSocket BY Zenon, <1>1, EnableInv
  <1>2. CASE \E n \in 1 .. MAX_BUF_SIZE : Write(n) BY Zenon, <1>2, WriteInv
  <1>3. CASE SendLocked BY Zenon, <1>3, SendInv
  <1>4. CASE SendEmit BY Zenon, <1>4, EmitInv
  <1>5. CASE Timeout BY Zenon, <1>5, TimeoutInv
  <1>6. CASE DataArrives BY Zenon, <1>6, DataInv DEF DataArrives
  <1>7. CASE AckArrives
    <2>1. PICK a \in DOMAIN acks : ReceiveAck(a) BY Zenon, <1>7 DEF AckArrives
    <2>2. DOMAIN acks' \subseteq DOMAIN acks /\ UNCHANGED <<setting, rcv, lost>>
      BY Zenon, <2>1, WithoutIs DEF ReceiveAck
    <2>3. CASE FastRetransmit(a) \/ AckOld(a) BY Zenon, <2>2, <2>3, OldAckInv
    <2>4. CASE AckNew(a) BY Zenon, <2>2, <2>4, NewAckInv
    <2> QED BY Zenon, <2>1, <2>3, <2>4 DEF ReceiveAck
  <1>8. CASE PeerWrites BY Zenon, <1>8, PeerInv
  <1>9. CASE Lose BY Zenon, <1>9, LoseInv
  <1>10. CASE UNCHANGED vars
    BY Zenon, <1>10 DEF vars, CCInv, TypeInv, PointerInv, CountInv, QueueInv, FlightInv
  <1> QED BY SMTT(30), <1>1, <1>2, <1>3, <1>4, <1>5, <1>6, <1>7, <1>8, <1>9, <1>10 DEF Next, Sending

\* The queue tiles what is in flight, whatever SetCCForSocket, the timer, the
\* network and the order of the acknowledgments do.
THEOREM QueueTiles == Spec => []CCInv
  <1> QED BY InitCC, NextCC, PTL DEF Spec

\* Every field of the TCB keeps its type; CWND never falls below one segment, so
\* UpdateCWNDWindow divides by no zero.
THEOREM TypesHold == Spec => []TypeOK
  <1>1. ASSUME CCInv PROVE TypeOK
    <2> DEFINE q == tcb.RetransmissionQueue
    <2>1. {tcb.UNA, tcb.NXT, tcb.LBW, rcv.NXT} \subseteq Seqs
      BY <1>1, Fields, Consts DEF Seqs
    <2>2. ASSUME NEW e \in EntrySet, FirstByte <= e.SequenceNum, EndOf(e) <= tcb.NXT
          PROVE  e \in Entries
      <3>1. e.SequenceNum \in Int /\ EndOf(e) \in Int /\ e.SequenceNum < EndOf(e) BY Zenon, EntryIs
      <3>2. tcb.NXT \in Int /\ LastSeq \in Int /\ tcb.NXT <= LastSeq
        BY SMTT(30), <1>1, Fields, Consts
      <3>3. e.SequenceNum \in Seqs BY <2>2, <3>1, <3>2, Consts DEF Seqs
      <3> QED BY Zenon, <3>3 DEF Entries, EntrySet
    <2>3. \A i \in 1 .. Len(q) : q[i] \in Entries
      <3> TAKE i \in 1 .. Len(q)
      <3>1. q[i] \in EntrySet BY <1>1, Queues
      <3>2. tcb.UNA <= q[i].SequenceNum /\ EndOf(q[i]) <= tcb.NXT
        BY Zenon, <1>1 DEF CCInv, QueueInv, Tiles
      <3>3. q[i].SequenceNum \in Int BY Zenon, <3>1, EntryIs
      <3>4. FirstByte <= q[i].SequenceNum BY SMTT(30), <1>1, <3>2, <3>3, Fields DEF FirstByte
      <3> QED BY Zenon, <3>1, <3>2, <3>4, <2>2
    <2>4. DOMAIN segs \subseteq Entries
      <3> SUFFICES ASSUME NEW e \in DOMAIN segs PROVE e \in Entries BY Zenon
      <3>1. /\ e \in EntrySet /\ FirstByte <= e.SequenceNum
            /\ Known(tcb.RetransmissionQueue, tcb.UNA, e)
        BY Zenon, <1>1 DEF CCInv, TypeInv, FlightInv
      <3> QED BY Zenon, <1>1, <3>1, <2>2, KnownEnd
    <2>5. DOMAIN acks \subseteq Seqs
      <3> SUFFICES ASSUME NEW a \in DOMAIN acks PROVE a \in Seqs BY Zenon
      <3>1. a \in Int /\ FirstByte <= a /\ a <= rcv.NXT BY Zenon, <1>1 DEF CCInv, TypeInv, FlightInv
      <3>2. a <= LastSeq BY SMTT(30), <1>1, <3>1, Fields, Consts
      <3> QED BY <3>1, <3>2, Consts DEF Seqs
    <2>6. tcb.toSend \in 0 .. MAX_BUF_SIZE BY <1>1, Fields, Consts
    <2>7. tcb.CurrentAck \in {0} \cup Seqs BY Zenon, <1>1, <2>1 DEF CCInv, CountInv
    <2>8. tcb.CWND >= INIT_CWND BY Zenon, <1>1 DEF CCInv, CountInv
    <2>9. /\ tcb.SSTHRESH \in Nat /\ tcb.CurrentAckFreq \in Nat
          /\ tcb.RetransmitCounter \in 0 .. MAX_RETRANSMISSIONS
          /\ {tcb.TimeoutCancelled, tcb.asleep} \subseteq BOOLEAN
          /\ tcb.send \in {"loop", "data1", "data2", "window", "emit"}
          /\ setting \in {"no", "stored", "done"} /\ lost \in 0 .. LossMax
      BY Zenon, <1>1 DEF CCInv, TypeInv, TCBs
    <2>10. tcb.CControlEnabled = (setting # "no") BY Zenon, <1>1 DEF CCInv, TypeInv
    <2> QED BY SMTT(30), <2>1, <2>3, <2>4, <2>5, <2>6, <2>7, <2>8, <2>9, <2>10 DEF TypeOK
  <1> QED BY <1>1, QueueTiles, PTL

\* What Send has in flight or plans to send fits the buffer of the receiver, also
\* where the subtraction of line 653 wraps.
THEOREM BurstsFit == Spec => []BurstFits
  <1>1. ASSUME CCInv PROVE BurstFits BY <1>1, Fields, Consts DEF BurstFits
  <1> QED BY <1>1, QueueTiles, PTL

\* fastRetransmit sends the segment that starts at the repeated number.
THEOREM GapResent == Spec => ResendsTheGap
  <1>1. ASSUME CCInv, NEW a \in DOMAIN acks, FastRetransmit(a)
        PROVE  Retransmitted(tcb).SequenceNum = a
    <2>1. a \in Int /\ FirstByte <= a BY Zenon, <1>1 DEF CCInv, TypeInv, FlightInv
    <2>2. a = tcb.CurrentAck /\ tcb.RetransmissionQueue # <<>>
      BY Zenon, <1>1 DEF FastRetransmit, Duplicate, Third
    <2>3. a = tcb.UNA BY SMTT(30), <1>1, <2>1, <2>2, Consts DEF CCInv, CountInv
    <2>4. tcb.RetransmissionQueue[1].SequenceNum = tcb.UNA
      BY Zenon, <1>1, <2>2 DEF CCInv, QueueInv, Tiles
    <2> QED BY Zenon, <1>1, <2>2, <2>3, <2>4, HeadIs DEF Retransmitted
  <1>2. CCInv => [\A a \in DOMAIN acks :
                     FastRetransmit(a) => Retransmitted(tcb).SequenceNum = a]_vars
    BY Zenon, <1>1
  <1> QED BY <1>2, QueueTiles, PTL DEF ResendsTheGap
=============================================================================
