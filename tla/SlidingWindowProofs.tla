------------------------ MODULE SlidingWindowProofs -------------------------
(***************************************************************************)
(* IndInv is an inductive invariant of SlidingWindow for every buffer      *)
(* size, segment size, retransmission limit and amount of data, as long as *)
(* no race of Races loses an update. The safety properties follow from it. *)
(* WholeInv adds that the two queues tile what they cover: what is not     *)
(* acknowledged can be sent again, and what arrived early is acknowledged  *)
(* as far as it reaches.                                                   *)
(***************************************************************************)
EXTENDS WindowSteps

-----------------------------------------------------------------------------
(* The invariant, and what follows from it.                                *)

LEMMA InitInv ==
  ASSUME Init
  PROVE  IndInv
  <1> USE Constants DEF Init
  <1>0. \A slot \in Slots : 0 \in Bytes BY DEF Bytes
  <1>s. Sent = FirstByte BY DEF Sent
  <1>1. ControlInv
    <2>1. RetransmitCounter \in 0 .. MAX_RETRANSMISSIONS /\ dups \in 0 .. MaxDups
      BY WindowAssumption
    <2>2. /\ TimeoutCancelled \in BOOLEAN /\ lockLeaked \in BOOLEAN
          /\ asleep \subseteq {"send", "write", "read"} BY Zenon
    <2> QED BY ZenonT(60), <2>1, <2>2 DEF ControlInv
  <1>2. OrderInv BY <1>s DEF OrderInv
  <1>3. WindowInv BY <1>s DEF WindowInv
  <1>4. AckInv BY Zenon DEF AckInv
  <1>5. QueueInv BY DEF QueueInv
  <1>6. EarlyInv BY DEF EarlyInv
  <1>7. SegmentInv BY Zenon DEF SegmentInv
  <1>8. SendBufferInv BY <1>0 DEF SendBufferInv
  <1>9. ReceiveBufferInv
    <2>1. rcvBuffer \in [Slots -> Bytes] BY Zenon, <1>0
    <2>2. \A p \in rcvLBR .. rcvLBR + MAX_BUF_SIZE - 1 : ~ Held(p) BY DEF Held
    <2> QED BY ZenonT(60), <2>1, <2>2 DEF ReceiveBufferInv
  <1>10. GotInv BY Zenon DEF GotInv
  <1> QED BY SMTT(30), <1>1, <1>2, <1>3, <1>4, <1>5, <1>6, <1>7, <1>8, <1>9, <1>10 DEF IndInv

LEMMA StutterInv ==
  ASSUME IndInv, UNCHANGED vars
  PROVE  IndInv'
  <1> USE DEF vars, writerSide, rtqVars, connVars, sendVars, writeVars, netVars
  <1>1. ControlInv' BY ZenonT(60) DEF IndInv, ControlInv, readerSide, rcvVars, readVars
  <1>2. writePC # "idle" => toWrite > 0 BY ZenonT(60) DEF IndInv, OrderInv
  <1> QED BY ZenonT(60), <1>1, <1>2, Quiet

\* One step of any thread or of the network keeps the invariant.
LEMMA NextInv ==
  ASSUME Races = {}, IndInv, [Next]_vars
  PROVE  IndInv'
  <1>1. CASE \E n \in 1 .. MaxBytes : WriteCall(n) BY ZenonT(60), <1>1, WriteCallInv
  <1>2. CASE WriteTop \/ WriteWoken BY ZenonT(60), <1>2, WriteInv
  <1>3. CASE SendLocked BY ZenonT(60), <1>3, SendLockedInv
  <1>4. CASE SendCancel BY Zenon, <1>4, SendCancelInv
  <1>5. CASE SendEmit BY ZenonT(60), <1>5, SendEmitInv
  <1>6. CASE SendAdvance BY ZenonT(60), <1>6, SendAdvanceInv
  <1>7. CASE Probe BY ZenonT(60), <1>7, ProbeInv
  <1>8. CASE Retransmit BY ZenonT(60), <1>8, RetransmitInv
  <1>9. CASE GiveUp BY ZenonT(60), <1>9, GiveUpInv
  <1>10. CASE \E m \in acks : ReceiveAck(m) BY ZenonT(60), <1>10, ReceiveAckInv
  <1>11. CASE \E m \in segs : ReceiveData(m) BY ZenonT(60), <1>11, ReceiveDataInv
  <1>12. CASE ReadSleep BY ZenonT(60), <1>12, ReadSleepInv
  <1>13. CASE \E n \in 1 .. MAX_BUF_SIZE : ReadBegin(n) BY ZenonT(60), <1>13, ReadBeginInv
  <1>14. CASE ReadEnd BY ZenonT(60), <1>14, ReadEndInv
  <1>15. CASE Lose BY ZenonT(60), <1>15, LoseInv
  <1>16. CASE UNCHANGED vars BY ZenonT(60), <1>16, StutterInv
  <1> QED BY SMTT(30), <1>1, <1>2, <1>3, <1>4, <1>5, <1>6, <1>7, <1>8, <1>9, <1>10, <1>11,
             <1>12, <1>13, <1>14, <1>15, <1>16 DEF Next

\* The invariant of Send, Receive, Read, Write and waitTimeout: the pointers of
\* both TCBs stay in order, the windows bound what is in flight, and every
\* buffer slot that matters holds the byte it should.
THEOREM Invariance ==
  ASSUME Races = {}
  PROVE  Spec => []IndInv
  <1>1. Init => IndInv BY Zenon, InitInv
  <1>2. IndInv /\ [Next]_vars => IndInv' BY Zenon, NextInv
  <1> QED BY <1>1, <1>2, PTL DEF Spec

\* Every variable keeps its type.
THEOREM TypeCorrect ==
  ASSUME Races = {}
  PROVE  Spec => []TypeOK
  <1>1. ASSUME IndInv PROVE TypeOK
    <2>1. /\ Sent \in Int /\ sndNXT <= Sent /\ Sent <= sndLBW /\ sndLBW <= LastSeq
          /\ sndUNA \in Int /\ sndNXT \in Int /\ sndLBW \in Int /\ rcvNXT \in Int /\ rcvLBR \in Int
          /\ ISS <= sndUNA /\ sndUNA <= rcvNXT /\ FirstByte <= rcvLBR /\ rcvLBR <= rcvNXT
          /\ FirstByte <= sndNXT /\ rcvNXT <= Sent
          /\ rcvNXT - rcvLBR <= MAX_BUF_SIZE
          /\ toWrite \in Nat /\ sndLBW + toWrite <= LastSeq
          /\ reading \in Nat /\ rcvLBR + reading <= rcvNXT
      <3>1. OrderInv BY Zenon, <1>1 DEF IndInv
      <3>2. toWrite \in Nat /\ sndLBW \in Int /\ sndLBW + toWrite <= LastSeq BY Zenon, <3>1 DEF OrderInv
      <3>3. sndLBW <= LastSeq BY <3>2, Constants
      <3>4. rcvNXT - rcvLBR <= MAX_BUF_SIZE BY <1>1, ReceivePointers, Constants
      <3> QED BY ZenonT(60), <1>1, <3>1, <3>3, <3>4, SentInt DEF OrderInv
    <2>2. /\ sndUNA \in ISS .. LastSeq /\ sndNXT \in FirstByte .. LastSeq
          /\ sndLBW \in FirstByte .. LastSeq
          /\ rcvNXT \in FirstByte .. LastSeq /\ rcvLBR \in FirstByte .. LastSeq
          /\ toWrite \in 0 .. MaxBytes /\ reading \in 0 .. MAX_BUF_SIZE
      BY SMTT(30), <2>1, Constants
    <2>3. sndWND \in 0 .. MAX_BUF_SIZE /\ rcvWND \in 0 .. MAX_BUF_SIZE /\ toSend \in Nat
      BY SMTT(30), <1>1, <2>1, Constants DEF IndInv, WindowInv
    <2>4. got \in [FirstByte .. rcvLBR - 1 -> Bytes]
      <3>1. FirstByte .. rcvLBR - 1 \subseteq Bytes BY <2>2, Constants DEF Bytes
      <3> QED BY ZenonT(60), <1>1, <3>1 DEF IndInv, GotInv
    <2>5. \A m \in segs : /\ m.seq \in FirstByte .. LastSeq
                          /\ m.len \in 1 .. MSS_DATA
                          /\ m.data \in [m.seq .. m.seq + m.len - 1 -> Bytes]
                          /\ m = Segment(m.seq, m.len, m.data)
      <3> TAKE m \in segs
      <3>1. SegmentOK(m) BY ZenonT(60), <1>1 DEF IndInv, SegmentInv
      <3>2. /\ m.seq \in Int /\ m.len \in 1 .. MSS_DATA /\ FirstByte <= m.seq /\ m.seq + m.len <= Sent
            /\ m.data \in [m.seq .. m.seq + m.len - 1 -> Bytes]
            /\ m = Segment(m.seq, m.len, m.data)
        BY Zenon, <3>1 DEF SegmentOK
      <3>0. Sent \in Int /\ Sent <= LastSeq /\ FirstByte \in Int /\ LastSeq \in Int
        BY SMTT(30), <2>1, Constants
      <3>3. m.seq <= LastSeq BY SMTT(30), <3>0, <3>2
      <3>4. m.seq \in FirstByte .. LastSeq BY <3>0, <3>2, <3>3
      <3> QED BY ZenonT(60), <3>2, <3>4
    <2>6. acks \subseteq AckSet
      <3> SUFFICES ASSUME NEW m \in acks PROVE m \in AckSet BY ZenonT(60)
      <3>1. m \in [ack : Int, wnd : 0 .. MAX_BUF_SIZE] /\ FirstByte <= m.ack /\ m.ack <= rcvNXT
        BY ZenonT(60), <1>1 DEF IndInv, AckInv
      <3>2. m.ack \in FirstByte .. LastSeq BY SMTT(30), <3>1, <2>1, Constants
      <3> QED BY ZenonT(60), <3>1, <3>2 DEF AckSet
    <2>7. /\ RetransmissionQueue \in Seq(EntrySet) /\ EarlyArrivalQueue \in Seq(EntrySet)
          /\ sndBuffer \in [Slots -> Bytes] /\ rcvBuffer \in [Slots -> Bytes]
      BY Zenon, <1>1 DEF IndInv, QueueInv, EarlyInv, SendBufferInv, ReceiveBufferInv
    <2>8. ControlInv /\ seenQueue \in Seq(EntrySet) /\ seenWND \in 0 .. MAX_BUF_SIZE
      BY SMTT(30), <1>1, Constants DEF IndInv, ControlInv
    <2> QED BY ZenonT(30), <2>2, <2>3, <2>4, <2>5, <2>6, <2>7, <2>8 DEF TypeOK, ControlInv
  <1> QED BY <1>1, Invariance, PTL

\* Read returns the bytes Write was given, in order: nothing lost, repeated or
\* taken from a slot that Receive or Write reused.
THEOREM InOrder ==
  ASSUME Races = {}
  PROVE  Spec => []BytesInOrder
  <1>1. IndInv => BytesInOrder BY Zenon DEF IndInv, GotInv, BytesInOrder
  <1> QED BY <1>1, Invariance, PTL

\* RCV.WND is the free space of the receive buffer at every step of Receive
\* and Read.
THEOREM Conserved ==
  ASSUME Races = {}
  PROVE  Spec => []WindowConserved
  <1>1. IndInv => WindowConserved BY Zenon DEF IndInv, WindowInv, WindowConserved
  <1> QED BY <1>1, Invariance, PTL

\* Receive always has room for the whole of a segment it accepts, so its copy
\* loop ends.
THEOREM Fitting ==
  ASSUME Races = {}
  PROVE  Spec => []SegmentsFit
  <1>1. IndInv => SegmentsFit BY Zenon, SegmentFits DEF SegmentsFit
  <1> QED BY <1>1, Invariance, PTL

\* Send's uint32 differences never wrap: NXT is between UNA and UNA + WND.
THEOREM InWindow ==
  ASSUME Races = {}
  PROVE  Spec => []SendInWindow
  <1>1. ASSUME IndInv PROVE SendInWindow
    <2>1. ASSUME sendPC \in {"loop", "data1", "data2", "window", "emit", "cancel"}
          PROVE  /\ sndUNA <= sndNXT
                 /\ sndNXT + (IF sendPC = "emit" THEN toSend ELSE 0) <= sndUNA + sndWND
      <3>1. Sent = sndNXT /\ sndUNA <= sndNXT BY ZenonT(60), <1>1, <2>1, SendPointers
      <3>2. sndNXT <= sndUNA + sndWND BY ZenonT(60), <1>1, <2>1, <3>1 DEF IndInv, WindowInv
      <3>3. sendPC = "emit" => sndNXT + toSend <= sndUNA + sndWND
        BY ZenonT(60), <1>1 DEF IndInv, WindowInv
      <3> QED BY SMTT(30), <1>1, <3>1, <3>2, <3>3, SendPointers
    <2> QED BY Zenon, <2>1 DEF SendInWindow
  <1> QED BY <1>1, Invariance, PTL

\* Send's NXT += 1 after zero-window probing accounts for exactly the byte the
\* probe carried.
THEOREM Probing ==
  ASSUME Races = {}
  PROVE  Spec => []ProbeAccounted
  <1>1. IndInv => ProbeAccounted BY ZenonT(60) DEF IndInv, WindowInv, ProbeAccounted
  <1> QED BY <1>1, Invariance, PTL
\* Only an acknowledgment moves UNA or WND; only Write moves LBW, and only the
\* end of a Read moves LBR and hands bytes over.
LEMMA WhoMoves ==
  ASSUME [Next]_vars
  PROVE  /\ \/ \E m \in acks : ReceiveAck(m)
            \/ UNCHANGED <<sndUNA, sndWND>>
         /\ \/ WriteTop \/ WriteWoken
            \/ ReadEnd
            \/ UNCHANGED <<sndLBW, rcvLBR, got>>
  <1> USE DEF vars, writerSide, readerSide, sndVars, rcvVars, readVars, SendLocked, SendInner,
          SendOuter, SendZero, SendPlan, SendSleep, SendGoto, SendFullWindow, SendZeroDone
  <1>1. CASE \E n \in 1 .. MaxBytes : WriteCall(n) BY ZenonT(60), <1>1 DEF WriteCall
  <1>2. CASE WriteTop \/ WriteWoken
    BY ZenonT(60), <1>2 DEF WriteTop, WriteWoken, WriteSome, WriteSleep, WriteCopy, WriteError
  <1>3. CASE SendLocked BY ZenonT(60), <1>3
  <1>4. CASE SendCancel BY ZenonT(60), <1>4 DEF SendCancel
  <1>5. CASE SendEmit BY ZenonT(60), <1>5 DEF SendEmit
  <1>6. CASE SendAdvance BY ZenonT(60), <1>6 DEF SendAdvance
  <1>7. CASE Probe \/ Retransmit \/ GiveUp
    <2>1. CASE Probe BY ZenonT(60), <2>1 DEF Probe
    <2>2. CASE Retransmit BY ZenonT(60), <2>2 DEF Retransmit
    <2>3. CASE GiveUp BY ZenonT(60), <2>3 DEF GiveUp
    <2> QED BY ZenonT(60), <1>7, <2>1, <2>2, <2>3
  <1>8. CASE \E m \in acks : ReceiveAck(m) BY ZenonT(60), <1>8 DEF ReceiveAck
  <1>9. CASE \E m \in segs : ReceiveData(m)
    BY ZenonT(60), <1>9 DEF ReceiveData, ReceiveReject, ReceiveInOrder, ReceiveEarly, ReceiveCopy
  <1>10. CASE ReadSleep \/ Lose BY ZenonT(60), <1>10 DEF ReadSleep, Lose
  <1>11. CASE \E n \in 1 .. MAX_BUF_SIZE : ReadBegin(n) BY ZenonT(60), <1>11 DEF ReadBegin
  <1>12. CASE ReadEnd BY ZenonT(60), <1>12 DEF ReadEnd
  <1>13. CASE UNCHANGED vars BY ZenonT(60), <1>13
  <1> QED BY Zenon, <1>1, <1>2, <1>3, <1>4, <1>5, <1>6, <1>7, <1>8, <1>9, <1>10, <1>11, <1>12,
             <1>13 DEF Next

\* No order of arrival of the acknowledgments takes the right edge of the send
\* window back.
THEOREM NeverShrinks ==
  ASSUME Races = {}
  PROVE  Spec => WindowNeverShrinks
  <1>1. ASSUME IndInv, [Next]_vars PROVE sndUNA' + sndWND' >= sndUNA + sndWND
    <2>1. sndUNA \in Int /\ sndWND \in Int BY SMTT(30), <1>1, Constants DEF IndInv, OrderInv, WindowInv
    <2>2. CASE UNCHANGED <<sndUNA, sndWND>> BY <2>1, <2>2
    <2>3. ASSUME NEW m \in acks, ReceiveAck(m) PROVE sndUNA' + sndWND' >= sndUNA + sndWND
      <3>1. CASE ~AckRejected(m) /\ sndUNA' = m.ack /\ sndWND' = m.wnd
        <4>1. m.ack + m.wnd >= sndUNA + sndWND BY ZenonT(60), <1>1, <3>1, AcceptedAck
        <4> QED BY ZenonT(60), <3>1, <4>1
      <3> QED BY ZenonT(60), <2>2, <2>3, <3>1 DEF ReceiveAck, writerSide, sndVars
    <2> QED BY ZenonT(60), <1>1, <2>2, <2>3, WhoMoves
  <1> QED BY <1>1, Invariance, PTL DEF Spec, WindowNeverShrinks

\* Write, Send, Receive and Read implement the abstract byte stream: a copy into
\* the send buffer is Put, the end of a Read is Take, anything else a stutter.
THEOREM Refinement ==
  ASSUME Races = {}
  PROVE  Spec => ImplementsStream
  <1>1. Init => Stream!StreamInit
    BY Zenon, Constants DEF Init, Stream!StreamInit, Stream!Prefix
  <1>2. ASSUME IndInv, IndInv', [Next]_vars
        PROVE  [Stream!Put \/ Stream!Take]_(Stream!streamVars)
    <2> USE DEF Stream!streamVars
    <2>o. /\ sndLBW \in Int /\ rcvLBR \in Int /\ rcvNXT \in Int /\ sndUNA \in Int
          /\ sndUNA <= rcvNXT /\ sndLBW <= sndUNA + MAX_BUF_SIZE
          /\ rcvNXT - rcvLBR <= MAX_BUF_SIZE /\ rcvNXT <= sndLBW
          /\ reading \in Nat /\ rcvLBR + reading <= rcvNXT
      <3>1. OrderInv BY Zenon, <1>2 DEF IndInv
      <3>2. rcvNXT - rcvLBR <= MAX_BUF_SIZE /\ rcvNXT <= sndLBW
        BY <1>2, ReceivePointers, SendPointers, Constants
      <3> QED BY ZenonT(60), <3>1, <3>2 DEF OrderInv
    <2>1. CASE UNCHANGED <<sndLBW, rcvLBR, got>> BY Zenon, <2>1
    <2>2. CASE WriteCopy /\ writePC # "idle" /\ ~BufferFull
      <3> DEFINE n == Min2(MAX_BUF_SIZE - Sub(sndLBW, sndUNA), toWrite)
      <3>1. n \in Nat /\ n > 0 /\ sndLBW + n <= sndUNA + MAX_BUF_SIZE
        BY ZenonT(60), <1>2, <2>2, WriteCopyAmount
      <3>2. sndLBW' = sndLBW + n /\ UNCHANGED <<rcvLBR, got>>
        BY Zenon, <2>2 DEF WriteCopy, readerSide, rcvVars, readVars
      <3> HIDE DEF n
      <3>3. n \in 1 .. 2 * MAX_BUF_SIZE /\ sndLBW' - rcvLBR <= 2 * MAX_BUF_SIZE
        BY SMTT(30), <2>o, <3>1, <3>2, Constants
      <3> QED BY ZenonT(60), <3>2, <3>3 DEF Stream!Put
    <2>3. CASE ReadEnd
      <3>1. reading > 0 /\ rcvLBR' = rcvLBR + reading /\ UNCHANGED sndLBW
        BY Zenon, <2>3 DEF ReadEnd, writerSide, sndVars
      <3>2. reading \in 1 .. 2 * MAX_BUF_SIZE /\ rcvLBR' <= sndLBW
        BY SMTT(30), <2>o, <3>1, Constants
      <3>3. got' = [p \in FirstByte .. rcvLBR' - 1 |-> p] BY Zenon, <1>2 DEF IndInv, GotInv
      <3> QED BY ZenonT(60), <3>1, <3>2, <3>3 DEF Stream!Take, Stream!Prefix
    <2>4. CASE WriteTop \/ WriteWoken
      <3>1. CASE UNCHANGED <<sndVars, readerSide>>
        BY Zenon, <2>1, <3>1 DEF sndVars, readerSide, rcvVars, readVars
      <3> QED BY ZenonT(60), <2>2, <2>4, <3>1
            DEF WriteTop, WriteWoken, WriteSome, WriteSleep, WriteError
    <2> QED BY ZenonT(60), <1>2, <2>1, <2>3, <2>4, WhoMoves
  <1> QED BY <1>1, <1>2, Invariance, PTL DEF Spec, ImplementsStream, Stream!StreamSpec

-----------------------------------------------------------------------------
(* Push and updateAckNum on a queue in order.                              *)

\* Where the new entry goes: behind what ends before it, ahead of the rest.
LEMMA PushSorted ==
  ASSUME NEW q \in Seq(EntrySet), NEW e \in EntrySet, Sorted(q),
         \A i \in 1 .. Len(q) : EndOf(q[i]) <= e.SequenceNum \/ EndOf(e) <= q[i].SequenceNum
  PROVE  Sorted(Push(q, e))
  <1>0. \A x \in EntrySet : x.SequenceNum \in Int /\ EndOf(x) \in Int /\ x.SequenceNum < EndOf(x)
    BY Constants DEF EntrySet, EndOf
  <1>1. \A i \in 1 .. Len(q) : q[i] \in EntrySet OBVIOUS
  <1>2. Len(q) \in Nat OBVIOUS
  <1> DEFINE later == {i \in 1 .. Len(q) : EndOf(e) <= q[i].SequenceNum}
  <1>3. CASE later = {}
    <2>1. Push(q, e) = Append(q, e) BY Zenon, <1>3 DEF Push
    <2>2. PICK r : r = Append(q, e) BY Zenon
    <2>3. Len(r) = Len(q) + 1 /\ r[Len(q) + 1] = e /\ \A i \in 1 .. Len(q) : r[i] = q[i]
      BY <2>2, AppendIs
    <2>4. \A i \in 1 .. Len(q) : EndOf(q[i]) <= e.SequenceNum BY Zenon, <1>3
    <2> HIDE DEF later
    <2>5. ASSUME NEW i \in 1 .. Len(r), NEW j \in 1 .. Len(r), i < j
          PROVE  EndOf(r[i]) <= r[j].SequenceNum
      <3>1. i \in 1 .. Len(q) /\ r[i] = q[i] BY SMTT(30), <1>2, <2>3, <2>5
      <3>2. CASE j = Len(q) + 1 BY Zenon, <3>1, <3>2, <2>3, <2>4
      <3>3. CASE j \in 1 .. Len(q) BY Zenon, <3>1, <3>3, <2>3, <2>5 DEF Sorted
      <3> QED BY SMTT(30), <3>2, <3>3, <2>3, <1>2
    <2> QED BY ZenonT(60), <2>1, <2>2, <2>5 DEF Sorted
  <1>4. CASE later # {}
    <2>1. Push(q, e) = InsertAt(q, Min(later), e) BY ZenonT(60), <1>4 DEF Push
    <2>2. later \subseteq Nat OBVIOUS
    <2>3. Min(later) \in later /\ \A y \in later : Min(later) <= y BY ZenonT(60), <1>4, <2>2, MinIs
    <2>4. PICK m : m = Min(later) BY Zenon
    <2>5. m \in 1 .. Len(q) /\ EndOf(e) <= q[m].SequenceNum BY ZenonT(60), <2>3, <2>4
    <2>6. ASSUME NEW i \in 1 .. Len(q), i < m PROVE EndOf(q[i]) <= e.SequenceNum
      <3>1. i \notin later BY SMTT(30), <2>3, <2>4, <2>5, <2>6
      <3> QED BY ZenonT(60), <3>1
    <2> HIDE DEF later
    <2>7. ASSUME NEW i \in 1 .. Len(q), i >= m PROVE EndOf(e) <= q[i].SequenceNum
      <3>1. CASE i = m BY ZenonT(60), <3>1, <2>5
      <3>2. CASE i > m
        <4>1. EndOf(q[m]) <= q[i].SequenceNum BY ZenonT(60), <3>2, <2>5 DEF Sorted
        <4> QED BY SMTT(30), <4>1, <2>5, <1>0, <1>1
      <3> QED BY SMTT(30), <3>1, <3>2, <2>5, <2>7
    <2>8. PICK r : r = InsertAt(q, m, e) BY Zenon
    <2>9. /\ Len(r) = Len(q) + 1
          /\ \A j \in 1 .. Len(q) + 1 : r[j] = IF j < m THEN q[j] ELSE IF j = m THEN e ELSE q[j - 1]
      BY SMTT(30), <2>5, <2>8, InsertAtIs
    <2>10. ASSUME NEW i \in 1 .. Len(r), NEW j \in 1 .. Len(r), i < j
           PROVE  EndOf(r[i]) <= r[j].SequenceNum
      <3>0. m \in Int /\ i \in Int /\ j \in Int BY <2>5
      <3>1. CASE j < m
        <4>1. r[i] = q[i] /\ r[j] = q[j] /\ i \in 1 .. Len(q) /\ j \in 1 .. Len(q)
          BY SMTT(30), <3>0, <3>1, <2>5, <2>9, <2>10
        <4> QED BY Zenon, <4>1, <2>10 DEF Sorted
      <3>2. CASE j = m
        <4>1. r[i] = q[i] /\ r[j] = e /\ i \in 1 .. Len(q) BY SMTT(30), <3>0, <3>2, <2>5, <2>9, <2>10
        <4> QED BY ZenonT(60), <4>1, <3>2, <2>6, <2>10
      <3>3. CASE j > m
        <4>1. r[j] = q[j - 1] /\ j - 1 \in 1 .. Len(q) /\ j - 1 >= m BY SMTT(30), <3>0, <3>3, <2>5, <2>9
        <4>2. CASE i < m
          <5>1. r[i] = q[i] /\ i \in 1 .. Len(q) /\ i < j - 1 BY SMTT(30), <3>0, <3>3, <4>2, <2>5, <2>9
          <5> QED BY ZenonT(60), <4>1, <5>1 DEF Sorted
        <4>3. CASE i = m
          <5>1. r[i] = e BY <4>3, <2>9
          <5> QED BY ZenonT(60), <4>1, <5>1, <2>7
        <4>4. CASE i > m
          <5>1. r[i] = q[i - 1] /\ i - 1 \in 1 .. Len(q) /\ i - 1 < j - 1
            BY SMTT(30), <3>0, <4>4, <2>5, <2>9, <2>10
          <5> QED BY ZenonT(60), <4>1, <5>1 DEF Sorted
        <4> QED BY SMTT(30), <3>0, <4>2, <4>3, <4>4
      <3> QED BY SMTT(30), <3>0, <3>1, <3>2, <3>3
    <2> QED BY ZenonT(60), <2>1, <2>4, <2>8, <2>10 DEF Sorted
  <1> QED BY Zenon, <1>3, <1>4

\* updateAckNum stops only where it must: from a queue in order that starts at or
\* after nextAck it leaves entries in order past the number it returns.
LEMMA MergeAhead ==
  ASSUME NEW q \in Seq(EntrySet), NEW a \in Int, Sorted(q),
         \A i \in 1 .. Len(q) : a <= q[i].SequenceNum
  PROVE  /\ Sorted(QueueAfter(q, a))
         /\ \A j \in 1 .. Len(QueueAfter(q, a)) :
               QueueAfter(q, a)[j].SequenceNum > AckNumAfter(q, a)
  <1>0. \A x \in EntrySet : x.SequenceNum \in Int /\ EndOf(x) \in Int /\ x.SequenceNum < EndOf(x)
    BY Constants DEF EntrySet, EndOf
  <1>1. Len(q) \in Nat /\ \A i \in 1 .. Len(q) : q[i] \in EntrySet OBVIOUS
  <1> DEFINE T == {k \in 0 .. Len(q) : Contiguous(q, a, k)}
  <1>2. 0 \in T /\ T \subseteq 0 .. Len(q) BY <1>1 DEF Contiguous
  <1>3. PICK k : k = Max(T) BY Zenon
  <1>4. k \in T /\ \A y \in T : k >= y
    <2> HIDE DEF T
    <2> QED BY Zenon, <1>1, <1>2, <1>3, MaxIs
  <1>5. k = Popped(q, a) BY Zenon, <1>3 DEF Popped
  <1>6. k \in 0 .. Len(q) /\ Contiguous(q, a, k) BY Zenon, <1>4
  <1> DEFINE num == IF k = 0 THEN a ELSE EndOf(q[k])
  <1>7. num = AckNumAfter(q, a) BY Zenon, <1>5 DEF AckNumAfter
  <1>8. num \in Int
    <2>1. CASE k = 0 BY ZenonT(60), <2>1
    <2>2. CASE k # 0
      <3>1. k \in 1 .. Len(q) BY SMTT(30), <2>2, <1>6
      <3> QED BY ZenonT(60), <2>2, <3>1, <1>0, <1>1
    <2> QED BY Zenon, <2>1, <2>2
  <1>9. ASSUME k < Len(q) PROVE q[k + 1].SequenceNum > num
    <2>1. k + 1 \in 1 .. Len(q) /\ q[k + 1] \in EntrySet BY <1>6, <1>9
    <2>2. q[k + 1].SequenceNum >= num
      <3>1. CASE k = 0 BY ZenonT(60), <2>1, <3>1
      <3>2. CASE k # 0
        <4>1. k \in 1 .. Len(q) /\ k < k + 1 BY SMTT(30), <3>2, <1>6
        <4> QED BY ZenonT(60), <2>1, <4>1, <3>2, <1>0 DEF Sorted
      <3> QED BY ZenonT(60), <3>1, <3>2
    <2>3. ASSUME q[k + 1].SequenceNum = num PROVE FALSE
      <3>1. ASSUME NEW i \in 1 .. k + 1
            PROVE  q[i].SequenceNum = IF i = 1 THEN a ELSE EndOf(q[i - 1])
        <4>1. CASE i = k + 1
          <5>1. CASE k = 0
            <6>1. i = 1 BY SMTT(30), <4>1, <5>1
            <6> QED BY ZenonT(60), <4>1, <5>1, <6>1, <2>3
          <5>2. CASE k # 0
            <6>1. i # 1 /\ i - 1 = k BY SMTT(30), <4>1, <5>2, <1>6
            <6> QED BY ZenonT(60), <4>1, <5>2, <6>1, <2>3
          <5> QED BY ZenonT(60), <5>1, <5>2
        <4>2. CASE i # k + 1
          <5>1. i \in 1 .. k BY SMTT(30), <4>2, <1>6
          <5> QED BY ZenonT(60), <5>1, <1>6 DEF Contiguous
        <4> QED BY ZenonT(60), <4>1, <4>2
      <3>2. k + 1 \in T BY <3>1, <2>1, <1>6 DEF Contiguous
      <3> QED BY SMTT(30), <3>2, <1>4, <1>6
    <2> QED BY SMTT(30), <2>1, <2>2, <2>3, <1>0, <1>8
  <1> HIDE DEF T, num
  <1>10. PICK r : r = QueueAfter(q, a) BY Zenon
  <1>11. r = SubSeq(q, k + 1, Len(q)) BY Zenon, <1>5, <1>10 DEF QueueAfter
  <1>12. Len(r) = Len(q) - k /\ \A j \in 1 .. Len(q) - k : r[j] = q[k + j]
    BY <1>1, <1>6, <1>11
  <1>13. ASSUME NEW i \in 1 .. Len(r), NEW j \in 1 .. Len(r), i < j
         PROVE  EndOf(r[i]) <= r[j].SequenceNum
    <2>1. k + i \in 1 .. Len(q) /\ k + j \in 1 .. Len(q) /\ k + i < k + j
      BY SMTT(30), <1>6, <1>12, <1>13
    <2>2. r[i] = q[k + i] /\ r[j] = q[k + j] BY ZenonT(60), <1>12
    <2> QED BY Zenon, <2>1, <2>2 DEF Sorted
  <1>14. ASSUME NEW j \in 1 .. Len(r) PROVE r[j].SequenceNum > num
    <2>1. /\ k + j \in 1 .. Len(q) /\ k + 1 \in 1 .. Len(q) /\ k < Len(q) /\ r[j] = q[k + j]
      BY SMTT(30), <1>6, <1>12
    <2>2. q[k + 1] \in EntrySet /\ q[k + j] \in EntrySet BY <2>1
    <2>3. CASE j = 1 BY ZenonT(60), <2>1, <2>3, <1>9
    <2>4. CASE j # 1
      <3>1. k + 1 < k + j BY <2>4, <1>6
      <3>2. EndOf(q[k + 1]) <= q[k + j].SequenceNum BY ZenonT(60), <2>1, <3>1 DEF Sorted
      <3> QED BY SMTT(30), <2>1, <2>2, <3>2, <1>0, <1>8, <1>9
    <2> QED BY ZenonT(60), <2>3, <2>4
  <1> QED BY ZenonT(60), <1>7, <1>10, <1>13, <1>14 DEF Sorted
-----------------------------------------------------------------------------
(* The tiling of the stream by the retransmission queue.                   *)

LEMMA EntryIs ==
  ASSUME NEW e \in EntrySet
  PROVE  /\ e.SequenceNum \in Int /\ e.PayloadLen \in Int /\ 1 <= e.PayloadLen
         /\ EndOf(e) \in Int /\ e.SequenceNum < EndOf(e)
         /\ Entry(e.SequenceNum, e.PayloadLen) = e
  BY Constants DEF EntrySet, EndOf, Entry

\* The entries of the retransmission queue.
LEMMA QueueIs ==
  ASSUME IndInv
  PROVE  /\ RetransmissionQueue \in Seq(EntrySet) /\ Len(RetransmissionQueue) \in Nat
         /\ \A i \in 1 .. Len(RetransmissionQueue) :
               /\ RetransmissionQueue[i] \in EntrySet
               /\ EndOf(RetransmissionQueue[i]) <= Sent
               /\ sndUNA <= RetransmissionQueue[i].SequenceNum
  BY DEF IndInv, QueueInv, EntryOK

\* The entries of the early arrival queue.
LEMMA EarlyIs ==
  ASSUME IndInv
  PROVE  /\ EarlyArrivalQueue \in Seq(EntrySet)
         /\ \A i \in 1 .. Len(EarlyArrivalQueue) :
               EarlyArrivalQueue[i] \in EntrySet /\ EndOf(EarlyArrivalQueue[i]) <= Sent
  <1>1. EarlyArrivalQueue \in Seq(EntrySet) BY Zenon DEF IndInv, EarlyInv
  <1>2. \A i \in 1 .. Len(EarlyArrivalQueue) : EarlyArrivalQueue[i] \in EntrySet BY <1>1
  <1>3. \A i \in 1 .. Len(EarlyArrivalQueue) : EndOf(EarlyArrivalQueue[i]) <= Sent
    BY Zenon DEF IndInv, EarlyInv, EntryOK
  <1> QED BY Zenon, <1>1, <1>2, <1>3

\* Every edge is at or before the end of what was sent.
LEMMA EdgesSent ==
  ASSUME IndInv
  PROVE  \A n \in Edges : n \in Int /\ n <= Sent
  <1>1. rcvNXT \in Int /\ rcvNXT <= Sent /\ Sent \in Int BY ZenonT(60), SentInt DEF IndInv, OrderInv
  <1>2. \A m \in acks : m.ack \in Int /\ m.ack <= rcvNXT BY ZenonT(60) DEF IndInv, AckInv
  <1>3. ASSUME NEW m \in segs PROVE m.seq + m.len \in Int /\ m.seq + m.len <= Sent
    <2>1. SegmentOK(m) BY ZenonT(60) DEF IndInv, SegmentInv
    <2>2. m.seq \in Int /\ m.len \in 1 .. MSS_DATA /\ m.seq + m.len <= Sent BY ZenonT(60), <2>1 DEF SegmentOK
    <2> QED BY SMTT(30), <2>2, Constants
  <1>4. ASSUME NEW i \in 1 .. Len(EarlyArrivalQueue)
        PROVE  EndOf(EarlyArrivalQueue[i]) \in Int /\ EndOf(EarlyArrivalQueue[i]) <= Sent
    <2>1. EarlyArrivalQueue[i] \in EntrySet BY Zenon, EarlyIs
    <2>2. EndOf(EarlyArrivalQueue[i]) \in Int BY ZenonT(60), <2>1, EntryIs
    <2> QED BY ZenonT(60), <2>2 DEF IndInv, EarlyInv, EntryOK
  <1>5. ASSUME NEW n \in Edges PROVE n \in Int /\ n <= Sent
    <2>1. CASE n = rcvNXT BY ZenonT(60), <1>1, <2>1
    <2>2. ASSUME NEW m \in acks, n = m.ack PROVE n \in Int /\ n <= Sent BY SMTT(30), <1>1, <1>2, <2>2
    <2>3. ASSUME NEW m \in segs, n = m.seq + m.len PROVE n \in Int /\ n <= Sent BY ZenonT(60), <1>3, <2>3
    <2>4. ASSUME NEW i \in 1 .. Len(EarlyArrivalQueue), n = EndOf(EarlyArrivalQueue[i])
          PROVE  n \in Int /\ n <= Sent
      BY ZenonT(60), <1>4, <2>4
    <2> QED BY <1>5, <2>1, <2>2, <2>3, <2>4, Zenon DEF Edges
  <1> QED BY ZenonT(60), <1>5

\* A step that leaves the retransmission queue alone and adds no edge that cuts it.
LEMMA SameQueue ==
  ASSUME TilingInv, UNCHANGED <<RetransmissionQueue, sndUNA, QueuedEnd>>,
         \A n \in Edges' : n \in Edges \/ Uncut(n)
  PROVE  TilingInv'
  <1>1. Sorted(RetransmissionQueue)' BY Zenon DEF TilingInv, Sorted
  <1>2. \A p \in FirstByte .. QueuedEnd' - 1 : p >= sndUNA' =>
          \E i \in 1 .. Len(RetransmissionQueue') : Covers(RetransmissionQueue'[i], p)
    BY Zenon DEF TilingInv
  <1>3. ASSUME NEW n \in Edges' PROVE Uncut(n)'
    <2>1. Uncut(n) BY Zenon DEF TilingInv
    <2> QED BY ZenonT(60), <2>1 DEF Uncut
  <1> QED BY ZenonT(60), <1>1, <1>2, <1>3 DEF TilingInv

\* A step that does not even touch the reader, and at most loses packets.
LEMMA SameTiling ==
  ASSUME TilingInv, AheadInv,
         UNCHANGED <<RetransmissionQueue, sndUNA, QueuedEnd, rcvNXT, EarlyArrivalQueue>>,
         segs' \subseteq segs, acks' \subseteq acks, dups' = 0 => dups = 0
  PROVE  TilingInv' /\ AheadInv'
  <1>1. Edges' \subseteq Edges BY Zenon DEF Edges
  <1>2. TilingInv' BY ZenonT(60), <1>1, SameQueue
  <1>3. \A e : InQueue(e)' <=> InQueue(e) BY Zenon DEF InQueue
  <1>4. AheadInv' BY ZenonT(60), <1>3 DEF AheadInv, Sorted
  <1> QED BY ZenonT(60), <1>2, <1>4

\* SendLocked leaves the queue alone. NXT moves over the probed byte only after it
\* was acknowledged.
LEMMA SendLockedTiling ==
  ASSUME IndInv, TilingInv, AheadInv, SendLocked
  PROVE  TilingInv' /\ AheadInv'
  <1>1. /\ UNCHANGED <<RetransmissionQueue, sndUNA, rcvNXT, EarlyArrivalQueue, segs, acks, dups>>
        /\ sendPC # "advance"
    BY ZenonT(60) DEF SendLocked, rtqVars, readerSide, rcvVars, netVars
  <1>2. sendPC' # "advance"
    BY ZenonT(60) DEF SendLocked, SendInner, SendOuter, SendZero, SendPlan, SendSleep, SendGoto,
           SendFullWindow, SendZeroDone
  <1>3. sndNXT' = sndNXT \/ (sndNXT' = sndNXT + 1 /\ sndUNA = sndNXT + 1)
    <2>1. CASE sendPC = "zero" /\ sndWND # 0 /\ SendZeroDone
      BY ZenonT(60), <2>1 DEF IndInv, WindowInv, SendZeroDone
    <2> QED BY ZenonT(60), <2>1 DEF SendLocked, SendInner, SendOuter, SendZero, SendPlan, SendSleep, SendGoto,
                        SendFullWindow
  <1>4. QueuedEnd = sndNXT /\ QueuedEnd' = sndNXT' /\ sndNXT \in Int
    BY SMTT(30), <1>1, <1>2, <1>3, SendPointers DEF QueuedEnd
  <1>5. CASE sndNXT' = sndNXT
    <2>1. UNCHANGED QueuedEnd BY ZenonT(60), <1>4, <1>5
    <2> QED BY ZenonT(60), <1>1, <2>1, SameTiling
  <1>6. CASE sndNXT' = sndNXT + 1 /\ sndUNA = sndNXT + 1
    <2>1. \A e : InQueue(e)' <=> InQueue(e) BY ZenonT(60), <1>1 DEF InQueue
    <2>2. AheadInv' BY ZenonT(60), <1>1, <2>1 DEF AheadInv, Sorted
    <2>3. Edges' = Edges BY ZenonT(60), <1>1 DEF Edges
    <2>4. \A n \in Edges : Uncut(n)' BY ZenonT(60), <1>1 DEF TilingInv, Uncut
    <2>5. Sorted(RetransmissionQueue)' BY ZenonT(60), <1>1 DEF TilingInv, Sorted
    <2>6. \A p \in FirstByte .. QueuedEnd' - 1 : ~ (p >= sndUNA')
      BY SMTT(30), <1>1, <1>4, <1>6, Constants
    <2> QED BY ZenonT(60), <2>2, <2>3, <2>4, <2>5, <2>6 DEF TilingInv
  <1> QED BY ZenonT(60), <1>3, <1>5, <1>6
\* Send appends a segment behind everything that was sent.
LEMMA SendEmitTiling ==
  ASSUME IndInv, IndInv', TilingInv, AheadInv, SendEmit, Races = {}
  PROVE  TilingInv' /\ AheadInv'
  <1> DEFINE n == Min2(toSend, MSS_DATA)
             q == RetransmissionQueue
  <1>1. PICK e : e = Entry(sndNXT, n) BY Zenon
  <1>2. PICK seg : seg = Segment(sndNXT, n, CopyOut(sndBuffer, sndNXT, n)) BY Zenon
  <1>3. /\ sendPC = "emit" /\ sendPC' = "advance"
        /\ q' = Append(q, e) /\ segs' = segs \cup {seg}
        /\ UNCHANGED <<sndUNA, sndNXT, toSend, rcvNXT, EarlyArrivalQueue, acks, dups>>
    BY ZenonT(60), <1>1, <1>2 DEF SendEmit, sndVars, readerSide, rcvVars
  <1>4. n \in 1 .. MSS_DATA /\ n \in Int
    <2>1. toSend \in Nat /\ toSend > 0 BY ZenonT(60), <1>3 DEF IndInv, WindowInv
    <2> QED BY SMTT(30), <2>1, Constants DEF Min2
  <1>5. /\ sndNXT \in Int /\ Sent = sndNXT /\ QueuedEnd = sndNXT /\ QueuedEnd' = sndNXT + n
        /\ Sent' = sndNXT + n
    BY ZenonT(60), <1>3, SendPointers DEF QueuedEnd, Sent
  <1>6. /\ e.SequenceNum = sndNXT /\ EndOf(e) = sndNXT + n /\ seg.seq = sndNXT /\ seg.len = n
    BY ZenonT(60), <1>1, <1>2 DEF Entry, EndOf, Segment
  <1> HIDE DEF n
  <1>7. e \in EntrySet
    <2>1. sndNXT \in FirstByte .. LastSeq
      BY <1>5, SendPointers, ReceivePointers, Constants
    <2> QED BY ZenonT(60), <1>1, <1>4, <2>1 DEF Entry, EntrySet
  <1>8. /\ Len(q) \in Nat /\ Len(q') = Len(q) + 1 /\ q'[Len(q) + 1] = e
        /\ \A i \in 1 .. Len(q) : q'[i] = q[i]
    <2>1. q \in Seq(EntrySet) BY Zenon, QueueIs
    <2> QED BY SMTT(30), <2>1, <1>3, <1>7, AppendIs
  <1>9. \A i \in 1 .. Len(q) : q[i] \in EntrySet /\ EndOf(q[i]) <= sndNXT BY Zenon, <1>5, QueueIs
  <1> HIDE DEF q
  <1>10. Sorted(q)'
    <2>1. ASSUME NEW i \in 1 .. Len(q'), NEW j \in 1 .. Len(q'), i < j
          PROVE  EndOf(q'[i]) <= q'[j].SequenceNum
      <3>1. i \in 1 .. Len(q) /\ q'[i] = q[i] BY SMTT(30), <1>8, <2>1
      <3>2. CASE j = Len(q) + 1 BY ZenonT(60), <3>1, <3>2, <1>6, <1>8, <1>9
      <3>3. CASE j \in 1 .. Len(q) BY ZenonT(60), <3>1, <3>3, <1>8, <2>1 DEF TilingInv, Sorted, q
      <3> QED BY SMTT(30), <3>2, <3>3, <1>8
    <2> QED BY Zenon, <2>1 DEF Sorted
  <1>11. ASSUME NEW p \in FirstByte .. QueuedEnd' - 1, p >= sndUNA'
         PROVE  \E i \in 1 .. Len(q') : Covers(q'[i], p)
    <2>0. p \in Int BY SMTT(30), Constants
    <2>1. CASE p < sndNXT
      <3>1. p \in FirstByte .. QueuedEnd - 1 BY SMTT(30), <2>0, <2>1, <1>5, Constants
      <3>2. PICK i \in 1 .. Len(q) : Covers(q[i], p) BY ZenonT(60), <3>1, <1>3, <1>11 DEF TilingInv, q
      <3> QED BY SMTT(30), <3>2, <1>8
    <2>2. CASE p >= sndNXT
      <3>1. Covers(q'[Len(q) + 1], p) BY SMTT(30), <2>0, <2>2, <1>5, <1>6, <1>8, <1>4, Constants DEF Covers
      <3> QED BY SMTT(30), <3>1, <1>8
    <2> QED BY SMTT(30), <2>0, <2>1, <2>2, <1>5
  <1>12. ASSUME NEW x \in Edges' PROVE Uncut(x)'
    <2>1. CASE x \in Edges
      <3>1. x \in Int /\ x <= sndNXT /\ Uncut(x) BY ZenonT(60), <2>1, <1>5, EdgesSent DEF TilingInv
      <3>2. ASSUME NEW i \in 1 .. Len(q') PROVE x <= q'[i].SequenceNum \/ EndOf(q'[i]) <= x
        <4>1. CASE i = Len(q) + 1 BY ZenonT(60), <4>1, <3>1, <1>6, <1>8
        <4>2. CASE i \in 1 .. Len(q) BY ZenonT(60), <4>2, <3>1, <1>8 DEF Uncut, q
        <4> QED BY SMTT(30), <4>1, <4>2, <1>8
      <3> QED BY ZenonT(60), <3>2 DEF Uncut, q
    <2>2. CASE x = sndNXT + n
      <3>1. ASSUME NEW i \in 1 .. Len(q') PROVE EndOf(q'[i]) <= x
        <4>1. CASE i = Len(q) + 1 BY SMTT(30), <4>1, <2>2, <1>4, <1>5, <1>6, <1>8
        <4>2. CASE i \in 1 .. Len(q)
          <5>1. q'[i] = q[i] /\ EndOf(q[i]) <= sndNXT /\ EndOf(q[i]) \in Int
            BY ZenonT(60), <4>2, <1>8, <1>9, EntryIs
          <5> QED BY SMTT(30), <5>1, <2>2, <1>4, <1>5, Constants
        <4> QED BY SMTT(30), <4>1, <4>2, <1>8
      <3> QED BY ZenonT(60), <3>1 DEF Uncut, q
    <2>3. x \in Edges \/ x = sndNXT + n BY ZenonT(60), <1>3, <1>6 DEF Edges
    <2> QED BY ZenonT(60), <2>1, <2>2, <2>3
  <1>13. /\ InQueue(e)'
         /\ \A f : InQueue(f) => InQueue(f)'
    <2>1. InQueue(e)' BY <1>8 DEF InQueue, q
    <2>2. ASSUME NEW f, InQueue(f) PROVE InQueue(f)'
      <3>1. PICK i \in 1 .. Len(q) : q[i] = f BY ZenonT(60), <2>2 DEF InQueue, q
      <3>2. i \in 1 .. Len(q') /\ q'[i] = f BY SMTT(30), <3>1, <1>8
      <3> QED BY ZenonT(60), <3>2 DEF InQueue, q
    <2> QED BY ZenonT(60), <2>1, <2>2
  <1>14. ASSUME NEW m \in segs', m.seq >= rcvNXT'
         PROVE  InQueue(Entry(m.seq, m.len))' \/ (m.len = 1 /\ m.seq = rcvNXT')
    <2>1. CASE m = seg BY ZenonT(60), <2>1, <1>1, <1>6, <1>13
    <2>2. CASE m \in segs BY ZenonT(60), <2>2, <1>3, <1>13, <1>14 DEF AheadInv
    <2> QED BY ZenonT(60), <2>1, <2>2, <1>3
  <1>15. ASSUME dups' = 0, NEW i \in 1 .. Len(EarlyArrivalQueue')
         PROVE  /\ EarlyArrivalQueue'[i].SequenceNum > rcvNXT'
                /\ InQueue(EarlyArrivalQueue[i])'
                /\ \A m \in segs' : m.seq # EarlyArrivalQueue'[i].SequenceNum
    <2>1. PICK f : f = EarlyArrivalQueue[i] BY ZenonT(60)
    <2>2. f.SequenceNum > rcvNXT /\ InQueue(f) /\ \A m \in segs : m.seq # f.SequenceNum
      BY ZenonT(60), <2>1, <1>3, <1>15 DEF AheadInv
    <2>3. f \in EntrySet /\ EndOf(f) <= sndNXT
      BY Zenon, <2>1, <1>3, <1>5, <1>15, EarlyIs
    <2>4. f.SequenceNum # seg.seq BY SMTT(30), <2>3, <1>5, <1>6, EntryIs
    <2>5. InQueue(f)' BY ZenonT(60), <2>2, <1>13
    <2>6. EarlyArrivalQueue'[i] = f BY ZenonT(60), <2>1, <1>3
    <2>7. InQueue(EarlyArrivalQueue[i])' BY ZenonT(60), <2>5, <2>6 DEF InQueue
    <2> QED BY ZenonT(60), <2>2, <2>4, <2>6, <2>7, <1>3
  <1>16. dups' = 0 => Sorted(EarlyArrivalQueue)' BY ZenonT(60), <1>3 DEF AheadInv, Sorted
  <1>17. TilingInv' BY ZenonT(60), <1>10, <1>11, <1>12 DEF TilingInv, q
  <1>18. AheadInv' BY ZenonT(60), <1>14, <1>15, <1>16 DEF AheadInv
  <1> QED BY ZenonT(60), <1>17, <1>18

\* A probe of a byte past the window repeats nothing that is queued.
LEMMA ProbeTiling ==
  ASSUME IndInv, TilingInv, AheadInv, Probe, Races = {}
  PROVE  TilingInv' /\ AheadInv'
  <1>1. PICK seg : seg = Segment(sndNXT, 1, CopyOut(sndBuffer, sndNXT, 1)) BY Zenon
  <1>2. /\ sendPC = "zero" /\ segs' = segs \cup {seg}
        /\ UNCHANGED <<RetransmissionQueue, sndUNA, sndNXT, sendPC, toSend, rcvNXT, EarlyArrivalQueue,
                       acks, dups>>
    BY ZenonT(60), <1>1 DEF Probe, ProbeTicks, writerSide, sndVars, rtqVars, sendVars, readerSide, rcvVars
  <1>3. seg.seq = sndNXT /\ seg.len = 1 BY ZenonT(60), <1>1 DEF Segment
  <1>4. /\ sndNXT \in Int /\ rcvNXT \in Int /\ sndNXT <= rcvNXT /\ Sent = sndNXT + 1
    <2>1. sndNXT \in Int /\ rcvNXT \in Int BY ZenonT(60), SendPointers DEF IndInv, OrderInv
    <2>2. WindowInv /\ OrderInv BY Zenon DEF IndInv
    <2>3. Sent = sndNXT + 1 BY Zenon, <1>2 DEF Sent
    <2> QED BY SMTT(30), <1>2, <2>1, <2>2, <2>3 DEF WindowInv, OrderInv
  <1>5. UNCHANGED QueuedEnd BY Zenon, <1>2 DEF QueuedEnd
  <1>6. Uncut(sndNXT + 1) BY ZenonT(60), <1>4, QueueIs DEF Uncut
  <1>7. \A x \in Edges' : x \in Edges \/ x = sndNXT + 1 BY ZenonT(60), <1>2, <1>3 DEF Edges
  <1>8. TilingInv' BY ZenonT(60), <1>2, <1>5, <1>6, <1>7, SameQueue
  <1>9. \A f : InQueue(f)' <=> InQueue(f) BY ZenonT(60), <1>2 DEF InQueue
  <1>10. ASSUME NEW m \in segs', m.seq >= rcvNXT'
         PROVE  InQueue(Entry(m.seq, m.len))' \/ (m.len = 1 /\ m.seq = rcvNXT')
    <2>1. CASE m = seg BY SMTT(30), <2>1, <1>2, <1>3, <1>4, <1>10
    <2>2. CASE m \in segs BY ZenonT(60), <2>2, <1>2, <1>9, <1>10 DEF AheadInv
    <2> QED BY ZenonT(60), <2>1, <2>2, <1>2
  <1>11. ASSUME dups' = 0, NEW i \in 1 .. Len(EarlyArrivalQueue')
         PROVE  /\ EarlyArrivalQueue'[i].SequenceNum > rcvNXT'
                /\ InQueue(EarlyArrivalQueue[i])'
                /\ \A m \in segs' : m.seq # EarlyArrivalQueue'[i].SequenceNum
    <2>1. PICK f : f = EarlyArrivalQueue[i] BY Zenon
    <2>2. f.SequenceNum > rcvNXT /\ InQueue(f) /\ \A m \in segs : m.seq # f.SequenceNum
      BY ZenonT(60), <2>1, <1>2, <1>11 DEF AheadInv
    <2>3. f \in EntrySet BY Zenon, <2>1, <1>2, EarlyIs
    <2>4. f.SequenceNum # seg.seq BY SMTT(30), <2>2, <2>3, <1>3, <1>4, EntryIs
    <2>5. EarlyArrivalQueue'[i] = f BY ZenonT(60), <2>1, <1>2
    <2>6. InQueue(EarlyArrivalQueue[i])' BY ZenonT(60), <2>2, <2>5, <1>9 DEF InQueue
    <2> QED BY ZenonT(60), <2>2, <2>4, <2>5, <2>6, <1>2
  <1>12. dups' = 0 => Sorted(EarlyArrivalQueue)' BY ZenonT(60), <1>2 DEF AheadInv, Sorted
  <1>13. AheadInv' BY ZenonT(60), <1>10, <1>11, <1>12 DEF AheadInv
  <1> QED BY ZenonT(60), <1>8, <1>13
\* Of two queued segments the one that starts first ends before the other.
LEMMA QueuedApart ==
  ASSUME IndInv, TilingInv, NEW x, NEW y, InQueue(x), InQueue(y)
  PROVE  /\ x \in EntrySet /\ y \in EntrySet
         /\ x.SequenceNum < y.SequenceNum => EndOf(x) <= y.SequenceNum
         /\ x.SequenceNum = y.SequenceNum => x = y
  <1> DEFINE q == RetransmissionQueue
  <1>1. PICK i \in 1 .. Len(q) : q[i] = x BY Zenon DEF InQueue
  <1>2. PICK j \in 1 .. Len(q) : q[j] = y BY Zenon DEF InQueue
  <1>3. x \in EntrySet /\ y \in EntrySet BY ZenonT(60), <1>1, <1>2, QueueIs
  <1>4. /\ x.SequenceNum \in Int /\ y.SequenceNum \in Int /\ EndOf(x) \in Int /\ EndOf(y) \in Int
        /\ x.SequenceNum < EndOf(x) /\ y.SequenceNum < EndOf(y)
    BY ZenonT(60), <1>3, EntryIs
  <1>5. (i < j => EndOf(x) <= y.SequenceNum) /\ (j < i => EndOf(y) <= x.SequenceNum)
    BY ZenonT(60), <1>1, <1>2 DEF TilingInv, Sorted
  <1>6. i \in Int /\ j \in Int /\ (i = j => x = y) BY SMTT(30), <1>1, <1>2
  <1> HIDE DEF q
  <1> QED BY SMTT(30), <1>3, <1>4, <1>5, <1>6

\* The first queued segment starts at or before what the reader waits for: what
\* waitTimeout sends again is no early arrival.
LEMMA HeadIsNext ==
  ASSUME IndInv, TilingInv, RetransmissionQueue # <<>>
  PROVE  /\ 1 \in 1 .. Len(RetransmissionQueue) /\ RetransmissionQueue[1] \in EntrySet
         /\ RetransmissionQueue[1].SequenceNum <= rcvNXT
  <1> DEFINE q == RetransmissionQueue
  <1>1. q \in Seq(EntrySet) /\ Len(q) \in Nat BY ZenonT(60), QueueIs
  <1>2. 1 \in 1 .. Len(q) /\ q[1] \in EntrySet /\ EndOf(q[1]) <= Sent BY SMTT(30), <1>1, QueueIs
  <1>3. /\ q[1].SequenceNum \in Int /\ EndOf(q[1]) \in Int /\ q[1].SequenceNum < EndOf(q[1])
    BY ZenonT(60), <1>2, EntryIs
  <1>4. /\ rcvNXT \in Int /\ sndUNA \in Int /\ sndNXT \in Int /\ Sent \in Int
        /\ sndUNA <= rcvNXT /\ FirstByte <= rcvNXT
    BY SMTT(30), SendPointers, ReceivePointers, Constants
  <1>5. ASSUME rcvNXT < q[1].SequenceNum PROVE FALSE
    <2>1. CASE sendPC = "zero"
      <3>1. Sent = sndNXT + 1 /\ sndNXT <= sndUNA
        <4>1. sndUNA = IF sndWND = 0 THEN sndNXT ELSE sndNXT + 1 BY Zenon, <2>1 DEF IndInv, WindowInv
        <4>2. sndNXT <= sndUNA BY <4>1, <1>4
        <4> QED BY Zenon, <2>1, <4>2 DEF Sent
      <3> QED BY SMTT(30), <3>1, <1>2, <1>3, <1>4, <1>5
    <2>2. CASE sendPC # "zero"
      <3>1. QueuedEnd = Sent BY Zenon, <2>2 DEF QueuedEnd, Sent
      <3>2. rcvNXT \in FirstByte .. QueuedEnd - 1
        BY SMTT(30), <3>1, <1>2, <1>3, <1>4, <1>5, Constants
      <3>3. PICK i \in 1 .. Len(q) : Covers(q[i], rcvNXT) BY Zenon, <3>2, <1>4 DEF TilingInv
      <3>4. q[i] \in EntrySet /\ q[i].SequenceNum <= rcvNXT BY Zenon, <3>3, QueueIs DEF Covers
      <3>5. q[i].SequenceNum \in Int BY Zenon, <3>4, EntryIs
      <3>6. CASE i = 1 BY SMTT(30), <3>4, <3>6, <1>3, <1>4, <1>5
      <3>7. CASE i # 1
        <4>1. 1 < i BY SMTT(30), <3>7, <1>1
        <4>2. EndOf(q[1]) <= q[i].SequenceNum BY ZenonT(60), <4>1, <1>2 DEF TilingInv, Sorted
        <4> QED BY SMTT(30), <4>2, <3>4, <3>5, <1>3, <1>4, <1>5
      <3> QED BY Zenon, <3>6, <3>7
    <2> QED BY Zenon, <2>1, <2>2
  <1> QED BY SMTT(30), <1>2, <1>3, <1>4, <1>5

LEMMA RetransmitTiling ==
  ASSUME IndInv, TilingInv, AheadInv, Retransmit
  PROVE  TilingInv' /\ AheadInv'
  <1>1. PICK e : e = RetransmissionQueue[1] BY Zenon
  <1>2. /\ RetransmissionQueue # <<>> /\ 1 \in 1 .. Len(RetransmissionQueue)
        /\ e \in EntrySet /\ e.SequenceNum <= rcvNXT
    BY Zenon, <1>1, HeadIsNext DEF Retransmit
  <1>3. Head(RetransmissionQueue) = e BY SMTT(30), <1>1, <1>2, QueueIs
  <1>4. PICK seg : seg = Segment(e.SequenceNum, e.PayloadLen,
                                 CopyOut(sndBuffer, e.SequenceNum, e.PayloadLen)) BY Zenon
  <1>5. /\ segs' = segs \cup {seg}
        /\ UNCHANGED <<RetransmissionQueue, sndUNA, sndNXT, sendPC, toSend, rcvNXT, EarlyArrivalQueue,
                       acks, dups>>
    BY ZenonT(60), <1>3, <1>4 DEF Retransmit, sndVars, sendVars, readerSide, rcvVars
  <1>6. seg.seq = e.SequenceNum /\ seg.len = e.PayloadLen /\ seg.seq + seg.len = EndOf(e)
    BY Zenon, <1>4 DEF Segment, EndOf
  <1>7. InQueue(e) /\ Entry(seg.seq, seg.len) = e BY ZenonT(60), <1>1, <1>2, <1>6, EntryIs DEF InQueue
  <1>8. UNCHANGED QueuedEnd BY Zenon, <1>5 DEF QueuedEnd
  <1>9. Uncut(EndOf(e))
    <2>1. ASSUME NEW i \in 1 .. Len(RetransmissionQueue)
          PROVE  EndOf(e) <= RetransmissionQueue[i].SequenceNum
                 \/ EndOf(RetransmissionQueue[i]) <= EndOf(e)
      <3>1. CASE i = 1 BY SMTT(30), <3>1, <1>1, <1>2, EntryIs
      <3>2. CASE i # 1
        <4>1. 1 < i BY SMTT(30), <3>2
        <4> QED BY Zenon, <4>1, <1>1, <1>2 DEF TilingInv, Sorted
      <3> QED BY Zenon, <3>1, <3>2
    <2> QED BY Zenon, <2>1 DEF Uncut
  <1>10. \A x \in Edges' : x \in Edges \/ x = EndOf(e) BY Zenon, <1>5, <1>6 DEF Edges
  <1>11. TilingInv' BY Zenon, <1>5, <1>8, <1>9, <1>10, SameQueue
  <1>12. \A f : InQueue(f)' <=> InQueue(f) BY Zenon, <1>5 DEF InQueue
  <1>13. ASSUME NEW m \in segs', m.seq >= rcvNXT'
         PROVE  InQueue(Entry(m.seq, m.len))' \/ (m.len = 1 /\ m.seq = rcvNXT')
    <2>1. CASE m = seg BY ZenonT(60), <2>1, <1>7, <1>12
    <2>2. CASE m \in segs BY ZenonT(60), <2>2, <1>5, <1>12, <1>13 DEF AheadInv
    <2> QED BY Zenon, <2>1, <2>2, <1>5
  <1>14. ASSUME dups' = 0, NEW i \in 1 .. Len(EarlyArrivalQueue')
         PROVE  /\ EarlyArrivalQueue'[i].SequenceNum > rcvNXT'
                /\ InQueue(EarlyArrivalQueue[i])'
                /\ \A m \in segs' : m.seq # EarlyArrivalQueue'[i].SequenceNum
    <2>1. PICK f : f = EarlyArrivalQueue[i] BY Zenon
    <2>2. f.SequenceNum > rcvNXT /\ InQueue(f) /\ \A m \in segs : m.seq # f.SequenceNum
      BY ZenonT(60), <2>1, <1>5, <1>14 DEF AheadInv
    <2>3. f \in EntrySet /\ rcvNXT \in Int BY Zenon, <2>1, <1>5, EarlyIs, ReceivePointers
    <2>4. f.SequenceNum # seg.seq
      <3>1. f.SequenceNum \in Int /\ e.SequenceNum \in Int BY ZenonT(60), <2>3, <1>2, EntryIs
      <3> QED BY SMTT(30), <2>2, <2>3, <3>1, <1>2, <1>6
    <2>5. EarlyArrivalQueue'[i] = f BY Zenon, <2>1, <1>5
    <2>6. InQueue(EarlyArrivalQueue[i])' BY ZenonT(60), <2>2, <2>5, <1>12 DEF InQueue
    <2> QED BY ZenonT(60), <2>2, <2>4, <2>5, <2>6, <1>5
  <1>15. dups' = 0 => Sorted(EarlyArrivalQueue)' BY Zenon, <1>5 DEF AheadInv, Sorted
  <1>16. AheadInv' BY ZenonT(60), <1>13, <1>14, <1>15 DEF AheadInv
  <1> QED BY Zenon, <1>11, <1>16

\* removeFromRetransmissionQueue drops whole segments that are acknowledged, and
\* none that is ahead of the reader.
LEMMA ReceiveAckTiling ==
  ASSUME IndInv, TilingInv, AheadInv, NEW m \in acks, ReceiveAck(m)
  PROVE  TilingInv' /\ AheadInv'
  <1>0. /\ acks' \subseteq acks /\ (dups' = 0 => dups = 0)
        /\ UNCHANGED <<rcvNXT, EarlyArrivalQueue, segs>>
    <2>1. dups \in Nat BY SMTT(30), Constants DEF IndInv, ControlInv
    <2> QED BY SMTT(30), <2>1 DEF ReceiveAck, Delivered, readerSide, rcvVars
  <1>1. CASE UNCHANGED <<writerSide, asleep>>
    <2>1. UNCHANGED <<RetransmissionQueue, sndUNA, QueuedEnd>>
      BY Zenon, <1>1 DEF writerSide, sndVars, rtqVars, sendVars, QueuedEnd
    <2>2. segs' \subseteq segs BY Zenon, <1>0
    <2> QED BY Zenon, <1>0, <2>1, <2>2, SameTiling
  <1>2. CASE ~UNCHANGED <<writerSide, asleep>>
    <2> DEFINE q == RetransmissionQueue
    <2>1. PICK k : k = Acked(q, m.ack) BY Zenon
    <2>2. /\ ~AckRejected(m) /\ q' = SubSeq(q, k + 1, Len(q)) /\ sndUNA' = m.ack
          /\ UNCHANGED <<sndNXT, sendPC, toSend>>
      BY Zenon, <1>2, <2>1 DEF ReceiveAck, sendVars
    <2>3. m.ack \in Int /\ m.ack <= rcvNXT /\ sndUNA < m.ack /\ rcvNXT \in Int /\ sndUNA \in Int
      BY ZenonT(60), <2>2, AcceptedAck DEF IndInv, OrderInv
    <2>4. Uncut(m.ack) BY Zenon DEF TilingInv, Edges
    <2>5. q \in Seq(EntrySet) /\ Len(q) \in Nat /\ \A i \in 1 .. Len(q) : q[i] \in EntrySet BY Zenon, QueueIs
    <2>6. k \in 0 .. Len(q) /\ \A i \in 1 .. k : q[i].SequenceNum < m.ack
      BY ZenonT(60), <2>1, <2>3, <2>5, AckedIs
    <2>7. /\ Len(q') = Len(q) - k
          /\ \A i \in 1 .. Len(q) - k : q'[i] = q[k + i]
      BY SMTT(30), <2>2, <2>5, <2>6
    <2> HIDE DEF q
    <2>8. \A i \in 1 .. Len(q') : k + i \in 1 .. Len(q) /\ q'[i] = q[k + i]
      BY SMTT(30), <2>5, <2>6, <2>7
    <2>9. ASSUME NEW j \in 1 .. Len(q), j > k
          PROVE  j - k \in 1 .. Len(q') /\ q'[j - k] = q[j]
      <3>1. j - k \in 1 .. Len(q) - k /\ k + (j - k) = j BY SMTT(30), <2>5, <2>6, <2>9
      <3> QED BY ZenonT(60), <3>1, <2>7
    <2>10. Sorted(q)'
      <3>1. ASSUME NEW i \in 1 .. Len(q'), NEW j \in 1 .. Len(q'), i < j
            PROVE  EndOf(q'[i]) <= q'[j].SequenceNum
        <4>1. k + i < k + j BY SMTT(30), <2>6, <3>1
        <4> QED BY ZenonT(60), <4>1, <2>8 DEF TilingInv, Sorted, q
      <3> QED BY ZenonT(60), <3>1 DEF Sorted
    <2>11. UNCHANGED QueuedEnd BY ZenonT(60), <2>2 DEF QueuedEnd
    <2>12. ASSUME NEW p \in FirstByte .. QueuedEnd' - 1, p >= sndUNA'
           PROVE  \E i \in 1 .. Len(q') : Covers(q'[i], p)
      <3>0. p \in Int BY SMTT(30), Constants
      <3>1. PICK j \in 1 .. Len(q) : Covers(q[j], p)
        BY SMTT(30), <3>0, <2>2, <2>3, <2>11, <2>12 DEF TilingInv, q
      <3>2. q[j].SequenceNum \in Int /\ EndOf(q[j]) \in Int /\ p < EndOf(q[j])
        BY ZenonT(60), <3>1, <2>5, EntryIs DEF Covers
      <3>3. m.ack <= q[j].SequenceNum \/ EndOf(q[j]) <= m.ack BY Zenon, <2>4 DEF Uncut, q
      <3>4. ~ (EndOf(q[j]) <= m.ack) BY SMTT(30), <3>0, <3>2, <2>2, <2>3, <2>12
      <3>5. j > k BY SMTT(30), <3>2, <3>3, <3>4, <2>3, <2>6
      <3> QED BY ZenonT(60), <3>1, <3>5, <2>9
    <2>13. ASSUME NEW x \in Edges' PROVE Uncut(x)'
      <3>1. x \in Edges BY Zenon, <1>0, <2>13 DEF Edges
      <3>2. Uncut(x) BY Zenon, <3>1 DEF TilingInv
      <3>3. ASSUME NEW i \in 1 .. Len(q') PROVE x <= q'[i].SequenceNum \/ EndOf(q'[i]) <= x
        BY ZenonT(60), <3>2, <2>8 DEF Uncut, q
      <3> QED BY Zenon, <3>3 DEF Uncut, q
    <2>14. TilingInv' BY ZenonT(60), <2>10, <2>12, <2>13 DEF TilingInv, q
    <2>15. ASSUME NEW f, InQueue(f), f.SequenceNum >= rcvNXT PROVE InQueue(f)'
      <3>1. PICK j \in 1 .. Len(q) : q[j] = f BY Zenon, <2>15 DEF InQueue, q
      <3>2. f.SequenceNum \in Int BY ZenonT(60), <3>1, <2>5, EntryIs
      <3>3. j > k BY SMTT(30), <3>1, <3>2, <2>3, <2>6, <2>15
      <3>4. j - k \in 1 .. Len(q') /\ q'[j - k] = f BY ZenonT(60), <3>1, <3>3, <2>9
      <3> QED BY Zenon, <3>4 DEF InQueue, q
    <2>16. ASSUME NEW s \in segs', s.seq >= rcvNXT'
           PROVE  InQueue(Entry(s.seq, s.len))' \/ (s.len = 1 /\ s.seq = rcvNXT')
      <3>1. Entry(s.seq, s.len).SequenceNum = s.seq BY Zenon DEF Entry
      <3> QED BY ZenonT(60), <3>1, <2>15, <2>16, <1>0 DEF AheadInv
    <2>17. ASSUME dups' = 0, NEW i \in 1 .. Len(EarlyArrivalQueue')
           PROVE  /\ EarlyArrivalQueue'[i].SequenceNum > rcvNXT'
                  /\ InQueue(EarlyArrivalQueue[i])'
                  /\ \A s \in segs' : s.seq # EarlyArrivalQueue'[i].SequenceNum
      <3>1. PICK f : f = EarlyArrivalQueue[i] BY Zenon
      <3>2. f.SequenceNum > rcvNXT /\ InQueue(f) /\ \A s \in segs : s.seq # f.SequenceNum
        BY ZenonT(60), <3>1, <1>0, <2>17 DEF AheadInv
      <3>3. f \in EntrySet BY Zenon, <3>1, <1>0, EarlyIs
      <3>4. f.SequenceNum >= rcvNXT BY SMTT(30), <3>2, <3>3, <2>3, EntryIs
      <3>5. EarlyArrivalQueue'[i] = f BY ZenonT(60), <3>1, <1>0
      <3>6. InQueue(f)' BY ZenonT(60), <3>2, <3>4, <2>15
      <3>7. InQueue(EarlyArrivalQueue[i])' BY ZenonT(60), <3>5, <3>6 DEF InQueue
      <3>8. EarlyArrivalQueue'[i].SequenceNum > rcvNXT' BY ZenonT(60), <3>2, <3>5, <1>0
      <3>9. \A s \in segs' : s.seq # EarlyArrivalQueue'[i].SequenceNum BY ZenonT(60), <3>2, <3>5, <1>0
      <3> QED BY ZenonT(60), <3>7, <3>8, <3>9
    <2>18. dups' = 0 => Sorted(EarlyArrivalQueue)' BY ZenonT(60), <1>0 DEF AheadInv, Sorted
    <2>19. AheadInv' BY ZenonT(60), <2>16, <2>17, <2>18 DEF AheadInv
    <2> QED BY Zenon, <2>14, <2>19
  <1> QED BY Zenon, <1>1, <1>2
\* Receive answers a segment outside the window with an edge it already has.
LEMMA ReceiveRejectTiling ==
  ASSUME IndInv, TilingInv, AheadInv, NEW m \in segs, ReceiveReject(m),
         UNCHANGED <<RetransmissionQueue, sndUNA, QueuedEnd>>,
         segs' \subseteq segs, dups' = 0 => dups = 0
  PROVE  TilingInv' /\ AheadInv'
  <1>1. UNCHANGED <<rcvNXT, EarlyArrivalQueue>> BY Zenon DEF ReceiveReject, rcvVars
  <1>2. PICK a : a = Ack(rcvNXT, rcvWND % (MAX_BUF_SIZE + 1)) BY Zenon
  <1>3. acks' = acks \cup {a} /\ a.ack = rcvNXT BY Zenon, <1>2 DEF ReceiveReject, SendAck, Ack
  <1>4. Edges' \subseteq Edges BY ZenonT(60), <1>1, <1>3 DEF Edges
  <1>5. TilingInv' BY ZenonT(60), <1>4, SameQueue
  <1>6. \A e : InQueue(e)' <=> InQueue(e) BY Zenon DEF InQueue
  <1>7. AheadInv' BY ZenonT(60), <1>1, <1>6 DEF AheadInv, Sorted
  <1> QED BY ZenonT(60), <1>5, <1>7

\* Receive on the next segment: RCV.NXT moves to the end of a segment or of an
\* early arrival and leaves none behind it.
LEMMA ReceiveInOrderTiling ==
  ASSUME IndInv, TilingInv, AheadInv, NEW m \in segs, ReceiveInOrder(m),
         UNCHANGED <<RetransmissionQueue, sndUNA, QueuedEnd>>,
         segs' \subseteq segs, dups' = 0 => dups = 0
  PROVE  TilingInv' /\ AheadInv'
  <1> DEFINE q == EarlyArrivalQueue
             next == m.seq + m.len
  <1>m. /\ Copied(m) = m.len /\ Fits(m) /\ m.seq \in Int /\ m.len \in 1 .. MSS_DATA /\ m.len \in Nat
    BY ZenonT(60), SegmentFits DEF ReceiveInOrder, ReceiveCopy
  <1>1. /\ m.seq = rcvNXT /\ rcvNXT' = AckNumAfter(q, next) /\ q' = QueueAfter(q, next)
        /\ SendAck(rcvNXT', rcvWND')
    BY ZenonT(60), <1>m DEF ReceiveInOrder, ReceiveCopy
  <1>2. next \in Int /\ rcvNXT < next /\ rcvNXT \in Int BY SMTT(30), <1>1, <1>m, Constants
  <1>3. q \in Seq(EntrySet) /\ \A i \in 1 .. Len(q) : q[i] \in EntrySet BY Zenon, EarlyIs
  <1>n. next \in Edges BY Zenon DEF Edges
  <1> HIDE DEF next
  <1>4. /\ rcvNXT' \in Int /\ rcvNXT' >= next
        /\ rcvNXT' = next \/ \E i \in 1 .. Len(q) : rcvNXT' = EndOf(q[i])
        /\ \A j \in 1 .. Len(q') : \E i \in 1 .. Len(q) : q'[j] = q[i]
    <2>1. Merged(q, EntrySet, next, AckNumAfter(q, next), QueueAfter(q, next))
      <3>1. q \in Seq(EntrySet) BY ZenonT(60), <1>3
      <3> HIDE DEF q
      <3> QED BY ZenonT(60), <1>2, <3>1, EntrySetIs, UpdateAckNumIs
    <2>2. Merged(q, EntrySet, next, rcvNXT', q') BY ZenonT(60), <2>1, <1>1
    <2> QED BY ZenonT(60), <2>2 DEF Merged
  <1>5. rcvNXT' \in Edges BY ZenonT(60), <1>4, <1>n DEF Edges
  <1>6. Edges' \subseteq Edges
    <2>1. PICK a : a = Ack(rcvNXT', rcvWND' % (MAX_BUF_SIZE + 1)) BY Zenon
    <2>2. acks' = acks \cup {a} /\ a.ack = rcvNXT' BY ZenonT(60), <2>1, <1>1 DEF SendAck, Ack
    <2>3. ASSUME NEW j \in 1 .. Len(q') PROVE EndOf(q'[j]) \in Edges BY ZenonT(60), <1>4 DEF Edges
    <2>4. \A s \in segs' : s.seq + s.len \in Edges BY Zenon DEF Edges
    <2>5. \A s \in acks' : s.ack \in Edges BY ZenonT(60), <2>2, <1>5 DEF Edges
    <2> QED BY ZenonT(60), <2>3, <2>4, <2>5, <1>5 DEF Edges
  <1>7. TilingInv' BY ZenonT(60), <1>6, SameQueue
  <1>8. \A e : InQueue(e)' <=> InQueue(e) BY Zenon DEF InQueue
  <1>9. ASSUME NEW s \in segs', s.seq >= rcvNXT'
        PROVE  InQueue(Entry(s.seq, s.len))'
    <2>1. s.seq \in Int BY ZenonT(60) DEF IndInv, SegmentInv, SegmentOK
    <2>2. s.seq > rcvNXT BY SMTT(30), <2>1, <1>2, <1>4, <1>9
    <2>3. s.seq >= rcvNXT /\ s.seq # rcvNXT BY <2>1, <2>2, <1>2
    <2> QED BY ZenonT(60), <2>3, <1>8 DEF AheadInv
  <1>10. ASSUME dups' = 0
         PROVE  /\ Sorted(q)'
                /\ \A j \in 1 .. Len(q') : q'[j].SequenceNum > rcvNXT'
                /\ \A j \in 1 .. Len(q') : InQueue(q[j])'
                /\ \A j \in 1 .. Len(q') : \A s \in segs' : s.seq # q'[j].SequenceNum
    <2>1. /\ Sorted(q) /\ \A i \in 1 .. Len(q) : /\ q[i].SequenceNum > rcvNXT /\ InQueue(q[i])
                                                 /\ \A s \in segs : s.seq # q[i].SequenceNum
      BY ZenonT(60), <1>10 DEF AheadInv
    <2>2. ASSUME NEW i \in 1 .. Len(q) PROVE next <= q[i].SequenceNum
      <3>1. q[i].SequenceNum \in Int BY ZenonT(60), <1>3, EntryIs
      <3>2. CASE m.len = 1
        <4>1. next = rcvNXT + 1 BY ZenonT(60), <3>2, <1>1 DEF next
        <4>2. q[i].SequenceNum > rcvNXT BY Zenon, <2>1
        <4> QED BY <4>1, <4>2, <3>1, <1>2
      <3>3. CASE InQueue(Entry(m.seq, m.len))
        <4>1. PICK e : e = Entry(m.seq, m.len) BY Zenon
        <4>2. e.SequenceNum = rcvNXT /\ EndOf(e) = next BY ZenonT(60), <4>1, <1>1 DEF Entry, EndOf, next
        <4>3. InQueue(e) /\ InQueue(q[i]) /\ e.SequenceNum < q[i].SequenceNum
          <5>1. InQueue(q[i]) /\ q[i].SequenceNum > rcvNXT BY Zenon, <2>1
          <5>2. InQueue(e) BY ZenonT(60), <4>1, <3>3
          <5>3. rcvNXT < q[i].SequenceNum BY ZenonT(60), <5>1, <3>1, <1>2
          <5> QED BY ZenonT(60), <5>1, <5>2, <5>3, <4>2
        <4> QED BY ZenonT(60), <4>2, <4>3, QueuedApart
      <3>4. m.seq >= rcvNXT BY <1>1, <1>2
      <3>5. m.len = 1 \/ InQueue(Entry(m.seq, m.len)) BY ZenonT(60), <3>4 DEF AheadInv
      <3> QED BY ZenonT(60), <3>2, <3>3, <3>5
    <2>3. /\ Sorted(q') /\ \A j \in 1 .. Len(q') : q'[j].SequenceNum > rcvNXT'
      <3>1. q \in Seq(EntrySet) /\ next \in Int BY ZenonT(60), <1>2, <1>3
      <3>2. q' = QueueAfter(q, next) /\ rcvNXT' = AckNumAfter(q, next) BY ZenonT(60), <1>1
      <3> HIDE DEF q
      <3> QED BY ZenonT(60), <2>1, <2>2, <3>1, <3>2, MergeAhead
    <2>4. ASSUME NEW j \in 1 .. Len(q')
          PROVE  InQueue(q[j])' /\ \A s \in segs' : s.seq # q'[j].SequenceNum
      <3>1. PICK i \in 1 .. Len(q) : q'[j] = q[i] BY ZenonT(60), <1>4
      <3>3. PICK f : f = q[i] BY Zenon
      <3>4. InQueue(f) /\ \A s \in segs : s.seq # f.SequenceNum BY ZenonT(60), <2>1, <3>3
      <3>5. q'[j] = f BY ZenonT(60), <3>1, <3>3
      <3>6. InQueue(q[j])' BY ZenonT(60), <3>4, <3>5 DEF InQueue
      <3> QED BY ZenonT(60), <3>4, <3>5, <3>6
    <2> QED BY ZenonT(60), <2>3, <2>4 DEF Sorted
  <1>11. AheadInv' BY ZenonT(60), <1>9, <1>10 DEF AheadInv
  <1> QED BY ZenonT(60), <1>7, <1>11

\* Receive on a segment ahead of the next: it was sent once, so it is apart from
\* every early arrival and Push keeps them in order.
LEMMA ReceiveEarlyTiling ==
  ASSUME IndInv, TilingInv, AheadInv, NEW m \in segs, ReceiveEarly(m),
         UNCHANGED <<RetransmissionQueue, sndUNA, QueuedEnd>>,
         segs' \subseteq segs, dups' = 0 => dups = 0 /\ m \notin segs'
  PROVE  TilingInv' /\ AheadInv'
  <1> DEFINE q == EarlyArrivalQueue
  <1>m. /\ Fits(m) /\ m.seq \in Int /\ m.len \in 1 .. MSS_DATA
        /\ FirstByte <= m.seq /\ m.seq + m.len <= Sent
    BY ZenonT(60), SegmentFits DEF ReceiveEarly, ReceiveCopy
  <1>e. PICK e : e = Entry(m.seq, m.len) BY Zenon
  <1>1. m.seq > rcvNXT /\ q' = Push(q, e) /\ UNCHANGED rcvNXT /\ SendAck(rcvNXT', rcvWND')
    BY ZenonT(60), <1>m, <1>e DEF ReceiveEarly, ReceiveCopy
  <1>2. e.SequenceNum = m.seq /\ EndOf(e) = m.seq + m.len BY ZenonT(60), <1>e DEF Entry, EndOf
  <1>3. rcvNXT \in Int /\ sndUNA \in Int /\ sndUNA <= rcvNXT BY ZenonT(60) DEF IndInv, OrderInv
  <1>4. InQueue(e)
    <2>1. m.seq >= rcvNXT /\ m.seq # rcvNXT BY <1>1, <1>3, <1>m
    <2> QED BY ZenonT(60), <2>1, <1>e DEF AheadInv
  <1>5. e \in EntrySet BY ZenonT(60), <1>4, QueuedApart
  <1>6. q \in Seq(EntrySet) /\ \A i \in 1 .. Len(q) : q[i] \in EntrySet BY Zenon, EarlyIs
  <1>7. \A j \in 1 .. Len(q') : q'[j] = e \/ \E i \in 1 .. Len(q) : q'[j] = q[i]
    <2>1. Pushed(q, EntrySet, e, Push(q, e))
      <3>1. q \in Seq(EntrySet) BY ZenonT(60), <1>6
      <3> HIDE DEF q
      <3> QED BY ZenonT(60), <1>5, <3>1, PushIs
    <2> QED BY ZenonT(60), <2>1, <1>1 DEF Pushed
  <1>8. Edges' \subseteq Edges
    <2>1. PICK a : a = Ack(rcvNXT', rcvWND' % (MAX_BUF_SIZE + 1)) BY Zenon
    <2>2. acks' = acks \cup {a} /\ a.ack = rcvNXT BY ZenonT(60), <2>1, <1>1 DEF SendAck, Ack
    <2>3. ASSUME NEW j \in 1 .. Len(q') PROVE EndOf(q'[j]) \in Edges
      <3>1. CASE q'[j] = e BY ZenonT(60), <3>1, <1>2 DEF Edges
      <3>2. CASE \E i \in 1 .. Len(q) : q'[j] = q[i] BY ZenonT(60), <3>2 DEF Edges
      <3> QED BY ZenonT(60), <3>1, <3>2, <1>7
    <2>4. \A s \in segs' : s.seq + s.len \in Edges BY Zenon DEF Edges
    <2>5. \A s \in acks' : s.ack \in Edges BY ZenonT(60), <2>2 DEF Edges
    <2>6. rcvNXT' \in Edges BY ZenonT(60), <1>1 DEF Edges
    <2>7. ASSUME NEW x \in Edges' PROVE x \in Edges BY ZenonT(60), <2>3, <2>4, <2>5, <2>6, <2>7 DEF Edges
    <2> QED BY ZenonT(60), <2>7
  <1>9. TilingInv' BY ZenonT(60), <1>8, SameQueue
  <1>10. \A f : InQueue(f)' <=> InQueue(f) BY Zenon DEF InQueue
  <1>11. ASSUME NEW s \in segs', s.seq >= rcvNXT'
         PROVE  InQueue(Entry(s.seq, s.len))' \/ (s.len = 1 /\ s.seq = rcvNXT')
    BY ZenonT(60), <1>1, <1>10, <1>11 DEF AheadInv
  <1>12. ASSUME dups' = 0
         PROVE  /\ Sorted(q)'
                /\ \A j \in 1 .. Len(q') : q'[j].SequenceNum > rcvNXT'
                /\ \A j \in 1 .. Len(q') : InQueue(q[j])'
                /\ \A j \in 1 .. Len(q') : \A s \in segs' : s.seq # q'[j].SequenceNum
    <2>1. /\ Sorted(q) /\ \A i \in 1 .. Len(q) : /\ q[i].SequenceNum > rcvNXT /\ InQueue(q[i])
                                                 /\ \A s \in segs : s.seq # q[i].SequenceNum
      BY ZenonT(60), <1>12 DEF AheadInv
    <2>2. ASSUME NEW i \in 1 .. Len(q)
          PROVE  EndOf(q[i]) <= e.SequenceNum \/ EndOf(e) <= q[i].SequenceNum
      <3>1. PICK f : f = q[i] BY Zenon
      <3>2. InQueue(f) /\ f.SequenceNum # e.SequenceNum /\ f \in EntrySet
        BY ZenonT(60), <3>1, <2>1, <1>2, <1>6
      <3>3. f.SequenceNum \in Int BY ZenonT(60), <3>2, EntryIs
      <3>4. f.SequenceNum < e.SequenceNum \/ e.SequenceNum < f.SequenceNum
        BY SMTT(30), <3>2, <3>3, <1>2, <1>m
      <3>5. EndOf(f) <= e.SequenceNum \/ EndOf(e) <= f.SequenceNum
        BY ZenonT(60), <3>2, <3>4, <1>4, QueuedApart
      <3> QED BY ZenonT(60), <3>1, <3>5
    <2>3. Sorted(q')
      <3>1. q \in Seq(EntrySet) BY ZenonT(60), <1>6
      <3>2. q' = Push(q, e) BY ZenonT(60), <1>1
      <3> HIDE DEF q
      <3> QED BY ZenonT(60), <2>1, <2>2, <3>1, <3>2, <1>5, PushSorted
    <2>4. ASSUME NEW s \in segs' PROVE s.seq # m.seq
      <3>1. SUFFICES ASSUME s.seq = m.seq PROVE FALSE BY Zenon
      <3>2. InQueue(Entry(s.seq, s.len))
        <4>1. s.seq >= rcvNXT /\ s.seq # rcvNXT BY <3>1, <1>1, <1>3, <1>m
        <4> QED BY ZenonT(60), <4>1 DEF AheadInv
      <3>3. PICK f : f = Entry(s.seq, s.len) BY Zenon
      <3>4. f.SequenceNum = s.seq /\ f.PayloadLen = s.len /\ e.PayloadLen = m.len
        BY ZenonT(60), <3>3, <1>e DEF Entry
      <3>5. f = e BY ZenonT(60), <3>1, <3>2, <3>3, <3>4, <1>2, <1>4, QueuedApart
      <3>6. s.len = m.len BY ZenonT(60), <3>4, <3>5
      <3>7. SegmentOK(s) /\ SegmentOK(m) BY ZenonT(60) DEF IndInv, SegmentInv
      <3>8. ~ (m.seq < sndUNA) BY SMTT(30), <1>1, <1>3, <1>m
      <3>9. s.data = m.data BY ZenonT(60), <3>1, <3>6, <3>7, <3>8 DEF SegmentOK
      <3>10. s = m BY ZenonT(60), <3>1, <3>6, <3>7, <3>9 DEF SegmentOK
      <3> QED BY ZenonT(60), <3>10, <1>12
    <2>5. ASSUME NEW j \in 1 .. Len(q')
          PROVE  /\ q'[j].SequenceNum > rcvNXT' /\ InQueue(q[j])'
                 /\ \A s \in segs' : s.seq # q'[j].SequenceNum
      <3>1. PICK f : f = q'[j] BY Zenon
      <3>2. CASE f = e
        <4>1. f.SequenceNum > rcvNXT' /\ InQueue(f)' /\ \A s \in segs' : s.seq # f.SequenceNum
          BY ZenonT(60), <3>2, <2>4, <1>1, <1>2, <1>4, <1>10
        <4> QED BY ZenonT(60), <3>1, <4>1 DEF InQueue
      <3>3. CASE \E i \in 1 .. Len(q) : f = q[i]
        <4>1. f.SequenceNum > rcvNXT' /\ InQueue(f)' /\ \A s \in segs' : s.seq # f.SequenceNum
          <5>1. PICK i \in 1 .. Len(q) : f = q[i] BY ZenonT(60), <3>3
          <5>2. f.SequenceNum > rcvNXT /\ InQueue(f) /\ \A s \in segs : s.seq # f.SequenceNum
            BY ZenonT(60), <5>1, <2>1
          <5>3. f.SequenceNum > rcvNXT' BY ZenonT(60), <5>2, <1>1
          <5> QED BY ZenonT(60), <5>2, <5>3, <1>10
        <4> QED BY ZenonT(60), <3>1, <4>1 DEF InQueue
      <3> QED BY ZenonT(60), <3>1, <3>2, <3>3, <1>7
    <2>6. Sorted(q)' BY ZenonT(60), <2>3 DEF Sorted
    <2> QED BY ZenonT(60), <2>5, <2>6
  <1>13. AheadInv' BY ZenonT(60), <1>11, <1>12 DEF AheadInv
  <1> QED BY ZenonT(60), <1>9, <1>13

LEMMA ReceiveDataTiling ==
  ASSUME IndInv, TilingInv, AheadInv, NEW m \in segs, ReceiveData(m)
  PROVE  TilingInv' /\ AheadInv'
  <1>1. dups \in Nat BY SMTT(30), Constants DEF IndInv, ControlInv
  <1>2. segs' \subseteq segs /\ (dups' = 0 => dups = 0 /\ m \notin segs')
    BY <1>1 DEF ReceiveData, Delivered
  <1>3. UNCHANGED <<RetransmissionQueue, sndUNA, QueuedEnd>>
    BY Zenon DEF ReceiveData, writerSide, sndVars, rtqVars, sendVars, QueuedEnd
  <1>4. CASE ReceiveReject(m) BY Zenon, <1>2, <1>3, <1>4, ReceiveRejectTiling
  <1>5. CASE ReceiveInOrder(m) BY Zenon, <1>2, <1>3, <1>5, ReceiveInOrderTiling
  <1>6. CASE ReceiveEarly(m) BY ZenonT(60), <1>2, <1>3, <1>6, ReceiveEarlyTiling
  <1> QED BY ZenonT(60), <1>4, <1>5, <1>6 DEF ReceiveData

-----------------------------------------------------------------------------
(* The whole invariant.                                                    *)

\* One step of any thread or of the network keeps the tiling.
LEMMA NextTiling ==
  ASSUME Races = {}, WholeInv, [Next]_vars
  PROVE  WholeInv'
  <1>0. IndInv /\ IndInv' /\ TilingInv /\ AheadInv BY ZenonT(60), NextInv DEF WholeInv
  <1>s. SUFFICES TilingInv' /\ AheadInv' BY ZenonT(60), <1>0 DEF WholeInv
  <1>q. ASSUME UNCHANGED <<RetransmissionQueue, sndUNA, sndNXT, toSend, sendPC, rcvNXT,
                           EarlyArrivalQueue>>,
               segs' \subseteq segs, acks' \subseteq acks, UNCHANGED dups
        PROVE  TilingInv' /\ AheadInv'
    <2>1. UNCHANGED QueuedEnd BY ZenonT(60), <1>q DEF QueuedEnd
    <2> QED BY ZenonT(60), <1>0, <1>q, <2>1, SameTiling
  <1> USE DEF sndVars, rtqVars, sendVars, readerSide, rcvVars, netVars
  <1>1. CASE \E n \in 1 .. MaxBytes : WriteCall(n) BY ZenonT(60), <1>1, <1>q DEF WriteCall
  <1>2. CASE WriteTop \/ WriteWoken
    <2>1. WriteCopy \/ WriteSleep \/ WriteError(TRUE) \/ WriteError(FALSE)
      BY ZenonT(60), <1>2 DEF WriteTop, WriteWoken, WriteSome
    <2>2. CASE WriteCopy BY ZenonT(60), <2>2, <1>q DEF WriteCopy
    <2>3. CASE WriteSleep BY ZenonT(60), <2>3, <1>q DEF WriteSleep
    <2>4. ASSUME NEW leak, WriteError(leak) PROVE TilingInv' /\ AheadInv'
      BY ZenonT(60), <2>4, <1>q DEF WriteError
    <2> QED BY ZenonT(60), <2>1, <2>2, <2>3, <2>4
  <1>3. CASE SendLocked BY ZenonT(60), <1>0, <1>3, SendLockedTiling
  <1>4. CASE SendCancel
    <2>1. /\ sendPC # "advance" /\ sendPC' # "advance" /\ UNCHANGED sndNXT
          /\ UNCHANGED <<RetransmissionQueue, sndUNA, rcvNXT, EarlyArrivalQueue, segs, acks, dups>>
      BY ZenonT(60), <1>4 DEF SendCancel, SendFullWindow, SendSleep, SendGoto
    <2>2. UNCHANGED QueuedEnd BY ZenonT(60), <2>1 DEF QueuedEnd
    <2> QED BY ZenonT(60), <1>0, <2>1, <2>2, SameTiling
  <1>5. CASE SendEmit BY ZenonT(60), <1>0, <1>5, SendEmitTiling
  <1>6. CASE SendAdvance
    <2>1. /\ sendPC = "advance" /\ sendPC' # "advance" /\ sndNXT' = sndNXT + Min2(toSend, MSS_DATA)
          /\ UNCHANGED <<RetransmissionQueue, sndUNA, rcvNXT, EarlyArrivalQueue, segs, acks, dups>>
      BY ZenonT(60), <1>6 DEF SendAdvance
    <2>2. sndNXT \in Int /\ Min2(toSend, MSS_DATA) \in Int BY SMTT(30), <1>0, SendPointers, Constants DEF Min2
    <2>3. UNCHANGED QueuedEnd BY SMTT(30), <2>1, <2>2 DEF QueuedEnd
    <2> QED BY ZenonT(60), <1>0, <2>1, <2>3, SameTiling
  <1>7. CASE Probe BY ZenonT(60), <1>0, <1>7, ProbeTiling
  <1>8. CASE Retransmit BY ZenonT(60), <1>0, <1>8, RetransmitTiling
  <1>9. CASE GiveUp BY ZenonT(60), <1>9, <1>q DEF GiveUp
  <1>10. CASE \E m \in acks : ReceiveAck(m) BY ZenonT(60), <1>0, <1>10, ReceiveAckTiling
  <1>11. CASE \E m \in segs : ReceiveData(m) BY ZenonT(60), <1>0, <1>11, ReceiveDataTiling
  <1>12. CASE ReadSleep BY ZenonT(60), <1>12, <1>q DEF ReadSleep, writerSide
  <1>13. CASE \E n \in 1 .. MAX_BUF_SIZE : ReadBegin(n) BY ZenonT(60), <1>13, <1>q DEF ReadBegin, writerSide
  <1>14. CASE ReadEnd BY ZenonT(60), <1>14, <1>q DEF ReadEnd, writerSide
  <1>15. CASE Lose BY ZenonT(60), <1>15, <1>q DEF Lose, writerSide
  <1>16. CASE UNCHANGED vars BY ZenonT(60), <1>16, <1>q DEF vars, writerSide
  <1> QED BY SMTT(30), <1>1, <1>2, <1>3, <1>4, <1>5, <1>6, <1>7, <1>8, <1>9, <1>10, <1>11,
             <1>12, <1>13, <1>14, <1>15, <1>16 DEF Next

\* The retransmission queue tiles what is sent and not acknowledged, and with no
\* duplicate in the network the early arrivals are segments of it ahead of RCV.NXT.
THEOREM WholeInvariance ==
  ASSUME Races = {}
  PROVE  Spec => []WholeInv
  <1>1. ASSUME Init PROVE WholeInv
    <2>1. IndInv BY ZenonT(60), <1>1, InitInv
    <2> USE <1>1 DEF Init
    <2>2. Edges = {FirstByte} BY SMTT(30) DEF Edges
    <2>3. QueuedEnd = FirstByte BY SMTT(30), Constants DEF QueuedEnd
    <2>4. TilingInv BY SMTT(30), <2>2, <2>3, Constants DEF TilingInv, Sorted, Uncut
    <2>5. AheadInv BY DEF AheadInv, Sorted
    <2> QED BY ZenonT(60), <2>1, <2>4, <2>5 DEF WholeInv
  <1>2. WholeInv /\ [Next]_vars => WholeInv' BY ZenonT(60), NextTiling
  <1> QED BY <1>1, <1>2, PTL DEF Spec

\* Every byte sent and not acknowledged is in a segment that waitTimeout can
\* rebuild from the send buffer.
THEOREM CanRetransmit ==
  ASSUME Races = {}
  PROVE  Spec => []Retransmittable
  <1>1. ASSUME WholeInv PROVE Retransmittable
    <2> DEFINE q == RetransmissionQueue
    <2>0. IndInv /\ TilingInv BY ZenonT(60), <1>1 DEF WholeInv
    <2>1. ASSUME NEW p \in FirstByte .. sndNXT - 1, p >= sndUNA
          PROVE  \E i \in 1 .. Len(q) : Covers(q[i], p)
      <3>1. sndNXT \in Int /\ toSend \in Nat BY ZenonT(60), <2>0, SendPointers
      <3>2. QueuedEnd \in Int /\ sndNXT <= QueuedEnd BY SMTT(30), <3>1, Constants DEF QueuedEnd, Min2
      <3>3. p \in FirstByte .. QueuedEnd - 1 BY SMTT(30), <3>1, <3>2, Constants
      <3> QED BY ZenonT(60), <2>0, <2>1, <3>3 DEF TilingInv
    <2>2. ASSUME NEW i \in 1 .. Len(q), NEW p \in q[i].SequenceNum .. EndOf(q[i]) - 1
          PROVE  sndBuffer[SequenceToBufferInd(p)] = p
      <3>1. /\ q[i] \in EntrySet /\ EndOf(q[i]) <= Sent /\ sndUNA <= q[i].SequenceNum
            /\ FirstByte <= q[i].SequenceNum
        BY ZenonT(60), <2>0, QueueIs DEF IndInv, QueueInv, EntryOK
      <3>2. q[i].SequenceNum \in Int /\ EndOf(q[i]) \in Int BY ZenonT(60), <3>1, EntryIs
      <3>3. /\ sndUNA \in Int /\ sndLBW \in Int /\ Sent \in Int /\ Sent <= sndLBW
            /\ sndLBW <= sndUNA + MAX_BUF_SIZE
        BY ZenonT(60), <2>0, SendPointers, SentInt
      <3>4. p \in Int /\ q[i].SequenceNum <= p /\ p < EndOf(q[i]) BY SMTT(30), <3>2
      <3> HIDE DEF q
      <3>5. p \in FirstByte .. sndLBW - 1 /\ sndLBW - MAX_BUF_SIZE <= p
        BY SMTT(30), <3>1, <3>2, <3>3, <3>4, Constants
      <3> QED BY ZenonT(60), <2>0, <3>5 DEF IndInv, SendBufferInv
    <2> QED BY ZenonT(60), <2>1, <2>2 DEF Retransmittable
  <1> QED BY <1>1, WholeInvariance, PTL

\* RCV.NXT is the highest acknowledgment number updateAckNum could give, as long
\* as no packet is duplicated.
THEOREM Highest ==
  ASSUME Races = {}
  PROVE  Spec => []HighestAck
  <1>1. WholeInv => HighestAck BY Zenon DEF WholeInv, AheadInv, HighestAck
  <1> QED BY <1>1, WholeInvariance, PTL

=============================================================================
