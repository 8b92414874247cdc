---------------------------- MODULE WindowSteps -----------------------------
(***************************************************************************)
(* Every action of SlidingWindow keeps its inductive invariant. First the  *)
(* facts about the constants, pointers, segments and buffers that these    *)
(* proofs share.                                                           *)
(***************************************************************************)
EXTENDS SlidingWindowInv, BufferProofs

-----------------------------------------------------------------------------
(* Shared facts.                                                           *)

LEMMA Constants ==
    /\ MAX_BUF_SIZE \in Nat /\ MAX_BUF_SIZE > 0
    /\ MSS_DATA \in Nat /\ 0 < MSS_DATA /\ MSS_DATA <= MAX_BUF_SIZE
    /\ MAX_RETRANSMISSIONS \in Nat /\ ISS \in Nat /\ MaxBytes \in Nat /\ MaxDups \in Nat
    /\ FirstByte \in Nat /\ FirstByte = ISS + 1
    /\ LastSeq \in Nat /\ LastSeq = FirstByte + MaxBytes
    /\ Word \in Nat /\ Word > LastSeq + 2 * MAX_BUF_SIZE
  BY BufferAssumption, WindowAssumption DEF FirstByte, LastSeq

\* A uint32 difference of sequence numbers in order does not wrap.
LEMMA SubIs ==
  ASSUME NEW a \in Int, NEW b \in Int, b <= a, a - b < Word
  PROVE  Sub(a, b) = a - b
  BY Constants DEF Sub

\* The 16-bit window field carries every window a buffer can have.
LEMMA WindowField ==
  ASSUME NEW w \in 0 .. MAX_BUF_SIZE
  PROVE  w % (MAX_BUF_SIZE + 1) = w
  BY Constants

\* Sent is a sequence number at or after NXT.
LEMMA SentInt ==
  ASSUME IndInv
  PROVE  Sent \in Int /\ sndNXT <= Sent
  BY Constants DEF IndInv, OrderInv, WindowInv, Sent, Min2

\* Pointers move forward only.
Progress ==
    /\ Sent \in Int /\ Sent' \in Int /\ Sent <= Sent'
    /\ rcvLBR \in Int /\ rcvLBR' \in Int /\ rcvLBR <= rcvLBR'
    /\ sndUNA \in Int /\ sndUNA' \in Int /\ sndUNA <= sndUNA'

\* What holds of a queued or a flying segment keeps holding as pointers move.
LEMMA EntryProgress ==
  ASSUME Progress, NEW e \in EntrySet, EntryOK(e)
  PROVE  EntryOK(e)'
  BY Constants DEF Progress, EntryOK, EntrySet, EndOf

LEMMA SegmentProgress ==
  ASSUME Progress, NEW m, SegmentOK(m)
  PROVE  SegmentOK(m)'
  <1>0. m.seq \in Int /\ m.len \in 1 .. MSS_DATA BY Zenon DEF SegmentOK
  <1>1. m.seq \in Int /\ m.len \in Int BY <1>0
  <1> USE DEF SegmentOK, Progress
  <1>2. m = Segment(m.seq, m.len, m.data) /\ m.len \in 1 .. MSS_DATA BY Zenon
  <1>3. FirstByte <= m.seq /\ m.seq + m.len <= Sent' BY <1>1
  <1>4. m.len = 1 \/ m.seq + m.len <= rcvLBR' + MAX_BUF_SIZE BY <1>1, Constants, SMTT(30)
  <1>5. m.data \in [m.seq .. m.seq + m.len - 1 -> Bytes] BY Zenon
  <1>6. m.seq < sndUNA' \/ m.data = [p \in m.seq .. m.seq + m.len - 1 |-> p] BY <1>1
  <1> QED BY ZenonT(60), <1>1, <1>2, <1>3, <1>4, <1>5, <1>6

\* A step that moves no pointer and at most drops packets keeps the invariant
\* if it keeps the control state and the bytes left to write in order.
LEMMA Quiet ==
  ASSUME IndInv, ControlInv',
         UNCHANGED <<sndVars, RetransmissionQueue, sendPC, toSend, readerSide>>,
         segs' \subseteq segs, acks' \subseteq acks,
         toWrite' = 0 \/ toWrite' = toWrite, writePC' # "idle" => toWrite' > 0
  PROVE  IndInv'
  <1> USE DEF IndInv, sndVars, readerSide, rcvVars, readVars
  <1>s. UNCHANGED Sent BY Zenon DEF Sent
  <1>2. OrderInv'
    <2>1. CASE toWrite' = 0 BY <1>s, <2>1, Constants DEF OrderInv
    <2>2. CASE toWrite' = toWrite BY Zenon, <1>s, <2>2 DEF OrderInv
    <2> QED BY Zenon, <2>1, <2>2
  <1>3. WindowInv' BY Zenon, <1>s DEF WindowInv
  <1>4. AckInv' BY Zenon DEF AckInv
  <1>5. QueueInv' BY Zenon, <1>s DEF QueueInv, EntryOK
  <1>6. EarlyInv' BY Zenon, <1>s DEF EarlyInv, EntryOK
  <1>7. SegmentInv' BY Zenon, <1>s DEF SegmentInv, SegmentOK
  <1>8. SendBufferInv' BY Zenon DEF SendBufferInv
  <1>9. ReceiveBufferInv' BY Zenon DEF ReceiveBufferInv, Held
  <1>10. GotInv' BY Zenon DEF GotInv
  <1> QED BY Zenon, <1>2, <1>3, <1>4, <1>5, <1>6, <1>7, <1>8, <1>9, <1>10

\* The pointers where Send looks at them.
LEMMA SendPointers ==
  ASSUME IndInv
  PROVE  /\ sndUNA \in Int /\ sndNXT \in Int /\ sndLBW \in Int /\ sndWND \in Nat /\ toSend \in Nat
         /\ sndWND <= MAX_BUF_SIZE /\ sndUNA <= Sent /\ Sent <= sndLBW
         /\ sndLBW <= sndUNA + MAX_BUF_SIZE /\ FirstByte <= sndNXT
         /\ sendPC \notin {"advance", "zero"} => Sent = sndNXT
  BY SentInt, Constants DEF IndInv, OrderInv, WindowInv, Sent

\* The pointers where the reader looks at them.
LEMMA ReceivePointers ==
  ASSUME IndInv
  PROVE  /\ rcvNXT \in Int /\ rcvLBR \in Int /\ FirstByte <= rcvLBR /\ rcvLBR <= rcvNXT
         /\ rcvNXT <= Sent /\ Sent \in Int /\ Sent <= LastSeq
         /\ rcvNXT <= rcvLBR + MAX_BUF_SIZE /\ rcvWND = rcvLBR + MAX_BUF_SIZE - rcvNXT
         /\ rcvNXT + rcvWND = rcvLBR + MAX_BUF_SIZE
         /\ sndUNA \in Int /\ sndWND \in Int /\ sndUNA <= rcvNXT
         /\ sndUNA + sndWND <= rcvLBR + MAX_BUF_SIZE
  BY SentInt, Constants DEF IndInv, OrderInv, WindowInv

\* The bytes Send, the probe and waitTimeout take from the send buffer are the
\* ones their sequence numbers say.
LEMMA CopyOutIs ==
  ASSUME IndInv, NEW s \in Int, NEW n \in Nat,
         FirstByte <= s, s + n <= sndLBW, sndLBW <= s + MAX_BUF_SIZE
  PROVE  CopyOut(sndBuffer, s, n) = [p \in s .. s + n - 1 |-> p]
  <1>1. ASSUME NEW p \in s .. s + n - 1 PROVE sndBuffer[SequenceToBufferInd(p)] = p
    <2>1. sndLBW \in Int BY Zenon DEF IndInv, OrderInv
    <2>2. p \in FirstByte .. sndLBW - 1 /\ sndLBW - MAX_BUF_SIZE <= p BY <2>1, Constants
    <2> QED BY Zenon, <2>2 DEF IndInv, SendBufferInv
  <1> QED BY Zenon, <1>1 DEF CopyOut

\* A new segment is as SegmentInv wants it.
LEMMA NewSegment ==
  ASSUME NEW s \in Int, NEW n \in 1 .. MSS_DATA, NEW d,
         d \in [s .. s + n - 1 -> Bytes],
         FirstByte <= s, s + n <= Sent, n = 1 \/ s + n <= rcvLBR + MAX_BUF_SIZE,
         s < sndUNA \/ d = [p \in s .. s + n - 1 |-> p]
  PROVE  SegmentOK(Segment(s, n, d))
  BY Zenon DEF SegmentOK, Segment

LEMMA CopyOutType ==
  ASSUME IndInv, NEW s \in Int, NEW n \in Nat
  PROVE  CopyOut(sndBuffer, s, n) \in [s .. s + n - 1 -> Bytes]
  <1>1. ASSUME NEW p \in s .. s + n - 1 PROVE sndBuffer[SequenceToBufferInd(p)] \in Bytes
    <2>1. SequenceToBufferInd(p) \in Slots BY SlotType
    <2> QED BY Zenon, <2>1 DEF IndInv, SendBufferInv
  <1> QED BY Zenon, <1>1 DEF CopyOut
-----------------------------------------------------------------------------
(* Read.                                                                   *)

LEMMA ReadSleepInv ==
  ASSUME IndInv, ReadSleep
  PROVE  IndInv'
  <1> USE DEF ReadSleep, writerSide, rtqVars, connVars, sendVars, writeVars, netVars
  <1>1. ControlInv' BY Zenon DEF IndInv, ControlInv, readerSide, rcvVars, readVars
  <1>2. writePC # "idle" => toWrite > 0 BY Zenon DEF IndInv, OrderInv
  <1> QED BY Zenon, <1>1, <1>2, Quiet

LEMMA ReadBeginInv ==
  ASSUME IndInv, NEW n \in 1 .. MAX_BUF_SIZE, ReadBegin(n), Races = {}
  PROVE  IndInv'
  <1>u. /\ reading' = Readable(n) /\ seenWND' = 0
        /\ UNCHANGED <<writerSide, rcvVars, got, asleep, netVars>>
    BY Zenon DEF ReadBegin
  <1>r. reading' \in Nat /\ rcvLBR + reading' <= rcvNXT
    <2>1. /\ rcvNXT \in Int /\ rcvLBR \in Int /\ rcvLBR <= rcvNXT /\ rcvNXT - rcvLBR <= MAX_BUF_SIZE
      BY Constants DEF IndInv, OrderInv, WindowInv
    <2>2. Sub(rcvNXT, rcvLBR) = rcvNXT - rcvLBR BY <2>1, SubIs, Constants
    <2> QED BY <1>u, <2>1, <2>2, Constants DEF Readable, Min2
  <1> USE DEF writerSide, sndVars, rtqVars, connVars, sendVars, writeVars, rcvVars, netVars
  <1>s. UNCHANGED Sent BY Zenon, <1>u DEF Sent
  <1>1. ControlInv' BY Zenon, <1>u DEF IndInv, ControlInv
  <1>2. OrderInv' BY ZenonT(60), <1>u, <1>r, <1>s DEF IndInv, OrderInv
  <1>3. WindowInv' BY Zenon, <1>u, <1>s DEF IndInv, WindowInv
  <1>4. AckInv' BY Zenon, <1>u DEF IndInv, AckInv
  <1>5. QueueInv' BY Zenon, <1>u, <1>s DEF IndInv, QueueInv, EntryOK
  <1>6. EarlyInv' BY Zenon, <1>u, <1>s DEF IndInv, EarlyInv, EntryOK
  <1>7. SegmentInv' BY Zenon, <1>u, <1>s DEF IndInv, SegmentInv, SegmentOK
  <1>8. SendBufferInv' BY Zenon, <1>u DEF IndInv, SendBufferInv
  <1>9. ReceiveBufferInv' BY Zenon, <1>u DEF IndInv, ReceiveBufferInv, Held
  <1>10. GotInv' BY Zenon, <1>u DEF IndInv, GotInv
  <1> QED BY ZenonT(60), <1>1, <1>2, <1>3, <1>4, <1>5, <1>6, <1>7, <1>8, <1>9, <1>10 DEF IndInv

LEMMA ReadEndInv ==
  ASSUME IndInv, ReadEnd, Races = {}
  PROVE  IndInv'
  <1>u. /\ reading > 0 /\ rcvLBR' = rcvLBR + reading /\ rcvWND' = rcvWND + reading
        /\ reading' = 0 /\ seenWND' = 0
        /\ got' = [p \in FirstByte .. rcvLBR + reading - 1 |->
                      IF p < rcvLBR THEN got[p] ELSE rcvBuffer[SequenceToBufferInd(p)]]
        /\ UNCHANGED <<writerSide, rcvNXT, rcvBuffer, EarlyArrivalQueue, spinning, asleep, netVars>>
    BY Zenon DEF ReadEnd
  <1>r. /\ rcvLBR \in Int /\ rcvNXT \in Int /\ reading \in Nat /\ FirstByte <= rcvLBR
        /\ rcvLBR + reading <= rcvNXT /\ rcvNXT <= rcvLBR + MAX_BUF_SIZE
    BY Constants DEF IndInv, OrderInv, WindowInv
  <1>l. rcvLBR' = rcvLBR + reading /\ rcvLBR' \in Int /\ rcvLBR <= rcvLBR' /\ rcvLBR' <= rcvNXT
    BY <1>u, <1>r
  <1> USE DEF writerSide, sndVars, rtqVars, connVars, sendVars, writeVars, netVars
  <1>s. UNCHANGED Sent BY Zenon, <1>u DEF Sent
  <1>p. Progress BY SMTT(30), <1>u, <1>r, <1>s, SentInt DEF Progress, IndInv, OrderInv
  <1>1. ControlInv' BY Zenon, <1>u DEF IndInv, ControlInv
  <1>2. OrderInv' BY SMTT(30), <1>u, <1>r, <1>s, Constants DEF IndInv, OrderInv
  <1>3. WindowInv' BY SMTT(30), <1>u, <1>r, <1>s, Constants DEF IndInv, WindowInv, OrderInv
  <1>4. AckInv'
    <2>1. \A m \in acks : m.ack + m.wnd <= rcvLBR' + MAX_BUF_SIZE
      <3> TAKE m \in acks
      <3>1. m.ack \in Int /\ m.wnd \in Int /\ m.ack + m.wnd <= rcvLBR + MAX_BUF_SIZE
        BY SMTT(30) DEF IndInv, AckInv
      <3> QED BY <3>1, <1>l, <1>r, Constants
    <2> QED BY Zenon, <1>u, <2>1 DEF IndInv, AckInv
  <1>5. QueueInv' BY SMTT(30), <1>u, <1>p, EntryProgress DEF IndInv, QueueInv
  <1>6. EarlyInv' BY SMTT(30), <1>u, <1>p, EntryProgress DEF IndInv, EarlyInv
  <1>7. SegmentInv' BY ZenonT(60), <1>u, <1>p, SegmentProgress DEF IndInv, SegmentInv
  <1>8. SendBufferInv' BY Zenon, <1>u DEF IndInv, SendBufferInv
  <1>9. ReceiveBufferInv'
    <2>1. rcvBuffer' \in [Slots -> Bytes] BY Zenon, <1>u DEF IndInv, ReceiveBufferInv
    <2>2. ASSUME NEW p \in rcvLBR' .. rcvLBR' + MAX_BUF_SIZE - 1, Held(p)'
          PROVE  rcvBuffer'[SequenceToBufferInd(p)] = p
      <3>1. Held(p) BY Zenon, <2>2, <1>u DEF Held
      <3>2. CASE p < rcvLBR + MAX_BUF_SIZE
        <4>1. p \in rcvLBR .. rcvLBR + MAX_BUF_SIZE - 1 BY SMTT(30), <3>2, <1>u, <1>r, Constants
        <4> QED BY ZenonT(60), <3>1, <4>1, <1>u DEF IndInv, ReceiveBufferInv
      <3>3. CASE p >= rcvLBR + MAX_BUF_SIZE
        <4>1. ~ (p < rcvNXT) BY <3>3, <1>l, <1>r, Constants
        <4>2. PICK i \in 1 .. Len(EarlyArrivalQueue) : Covers(EarlyArrivalQueue[i], p)
          BY Zenon, <3>1, <4>1 DEF Held
        <4>3. EarlyArrivalQueue[i] \in EntrySet /\ EntryOK(EarlyArrivalQueue[i])
          BY <4>2 DEF IndInv, EarlyInv
        <4>4. EndOf(EarlyArrivalQueue[i]) \in Int BY <4>3, Constants DEF EntrySet, EndOf
        <4> QED BY SMTT(30), <3>3, <4>2, <4>3, <4>4, <1>r, <1>u, Constants DEF Covers, EntryOK
      <3> QED BY SMTT(30), <3>2, <3>3, <1>u, <1>r, Constants
    <2> QED BY Zenon, <2>1, <2>2 DEF ReceiveBufferInv
  <1>10. GotInv'
    <2>1. got = [p \in FirstByte .. rcvLBR - 1 |-> p] BY Zenon DEF IndInv, GotInv
    <2>2. ASSUME NEW p \in FirstByte .. rcvLBR + reading - 1
          PROVE  (IF p < rcvLBR THEN got[p] ELSE rcvBuffer[SequenceToBufferInd(p)]) = p
      <3>1. CASE p < rcvLBR
        <4>1. p \in FirstByte .. rcvLBR - 1 BY <3>1, <1>r, Constants
        <4> QED BY ZenonT(60), <4>1, <3>1, <2>1
      <3>2. CASE ~ (p < rcvLBR)
        <4>1. p \in rcvLBR .. rcvLBR + MAX_BUF_SIZE - 1 /\ p < rcvNXT BY <3>2, <1>r, Constants
        <4>2. rcvBuffer[SequenceToBufferInd(p)] = p BY Zenon, <4>1 DEF IndInv, ReceiveBufferInv, Held
        <4> QED BY Zenon, <3>2, <4>2
      <3> QED BY Zenon, <3>1, <3>2
    <2> DEFINE D == FirstByte .. rcvLBR + reading - 1
               f == [p \in D |-> IF p < rcvLBR THEN got[p] ELSE rcvBuffer[SequenceToBufferInd(p)]]
    <2>3. f = [p \in D |-> p] BY Zenon, <2>2
    <2>4. got' = f BY Zenon, <1>u
    <2>5. D = FirstByte .. rcvLBR' - 1 BY <1>l, <1>r, Constants
    <2> HIDE DEF D, f
    <2>6. got' = [p \in FirstByte .. rcvLBR' - 1 |-> p] BY ZenonT(60), <2>3, <2>4, <2>5
    <2> QED BY Zenon, <2>6 DEF GotInv
  <1> QED BY ZenonT(60), <1>1, <1>2, <1>3, <1>4, <1>5, <1>6, <1>7, <1>8, <1>9, <1>10 DEF IndInv

-----------------------------------------------------------------------------
(* The writing end: Write and Send.                                        *)

\* What the append of Send to the retransmission queue yields: the queue with one
\* entry behind it.
LEMMA AppendIs ==
  ASSUME NEW S, NEW s \in Seq(S), NEW x \in S
  PROVE  /\ Append(s, x) \in Seq(S) /\ Len(Append(s, x)) = Len(s) + 1
         /\ Append(s, x)[Len(s) + 1] = x
         /\ \A i \in 1 .. Len(s) : Append(s, x)[i] = s[i]
  OBVIOUS

-----------------------------------------------------------------------------
(* Write.                                                                  *)

LEMMA WriteCallInv ==
  ASSUME IndInv, NEW n \in 1 .. MaxBytes, WriteCall(n)
  PROVE  IndInv'
  <1> USE DEF IndInv, WriteCall, sndVars, rtqVars, connVars, sendVars, readerSide, rcvVars, readVars, netVars
  <1>s. UNCHANGED Sent BY Zenon DEF Sent
  <1>1. ControlInv' BY Zenon DEF ControlInv
  <1>2. OrderInv' BY <1>s, Constants DEF OrderInv
  <1>3. WindowInv' BY Zenon, <1>s DEF WindowInv
  <1>4. AckInv' BY Zenon DEF AckInv
  <1>5. QueueInv' BY Zenon, <1>s DEF QueueInv, EntryOK
  <1>6. EarlyInv' BY Zenon, <1>s DEF EarlyInv, EntryOK
  <1>7. SegmentInv' BY Zenon, <1>s DEF SegmentInv, SegmentOK
  <1>8. SendBufferInv' BY Zenon DEF SendBufferInv
  <1>9. ReceiveBufferInv' BY Zenon DEF ReceiveBufferInv, Held
  <1>10. GotInv' BY Zenon DEF GotInv
  <1> QED BY ZenonT(60), <1>1, <1>2, <1>3, <1>4, <1>5, <1>6, <1>7, <1>8, <1>9, <1>10

LEMMA WriteErrorInv ==
  ASSUME IndInv, NEW leak \in BOOLEAN, WriteError(leak)
  PROVE  IndInv'
  <1>1. ControlInv'
    BY Zenon DEF IndInv, ControlInv, WriteError, rtqVars, sendVars, readerSide, rcvVars, readVars, netVars
  <1>2. toWrite \in Nat /\ toWrite' = 0 /\ writePC' = "idle"
    BY Zenon DEF IndInv, OrderInv, WriteError
  <1>3. /\ UNCHANGED <<sndVars, RetransmissionQueue, sendPC, toSend, readerSide>>
        /\ segs' \subseteq segs /\ acks' \subseteq acks
    BY Zenon DEF WriteError, rtqVars, sendVars, netVars
  <1> QED BY Zenon, <1>1, <1>2, <1>3, Quiet

LEMMA WriteSleepInv ==
  ASSUME IndInv, WriteSleep, writePC # "idle"
  PROVE  IndInv'
  <1>1. ControlInv'
    BY Zenon DEF IndInv, ControlInv, WriteSleep, rtqVars, connVars, sendVars, readerSide, rcvVars, readVars, netVars
  <1>2. toWrite \in Nat /\ toWrite' = toWrite /\ toWrite > 0
    BY Zenon DEF IndInv, OrderInv, WriteSleep
  <1>3. /\ UNCHANGED <<sndVars, RetransmissionQueue, sendPC, toSend, readerSide>>
        /\ segs' \subseteq segs /\ acks' \subseteq acks
    BY Zenon DEF WriteSleep, rtqVars, sendVars, netVars
  <1> QED BY Zenon, <1>1, <1>2, <1>3, Quiet

\* How much Write copies: something, and no more than the space that is free.
LEMMA WriteCopyAmount ==
  ASSUME IndInv, writePC # "idle", ~BufferFull
  PROVE  LET n == Min2(MAX_BUF_SIZE - Sub(sndLBW, sndUNA), toWrite)
         IN  n \in Nat /\ n > 0 /\ n <= toWrite /\ sndLBW + n <= sndUNA + MAX_BUF_SIZE
  <1>1. /\ sndLBW \in Int /\ sndUNA \in Int /\ toWrite \in Nat /\ toWrite > 0
        /\ sndUNA <= sndLBW /\ sndLBW <= sndUNA + MAX_BUF_SIZE
    BY SentInt, Constants DEF IndInv, OrderInv
  <1>2. Sub(sndLBW, sndUNA) = sndLBW - sndUNA
    BY <1>1, Constants, SubIs
  <1>3. sndLBW - sndUNA # MAX_BUF_SIZE
    BY Zenon, <1>2 DEF BufferFull
  <1> QED BY SMTT(30), <1>1, <1>2, <1>3, Constants DEF Min2

LEMMA WriteCopyInv ==
  ASSUME IndInv, WriteCopy, writePC # "idle", ~BufferFull
  PROVE  IndInv'
  <1> DEFINE n == Min2(MAX_BUF_SIZE - Sub(sndLBW, sndUNA), toWrite)
  <1>n. n \in Nat /\ n > 0 /\ n <= toWrite /\ sndLBW + n <= sndUNA + MAX_BUF_SIZE
    BY Zenon, WriteCopyAmount
  <1>u. /\ sndLBW' = sndLBW + n /\ toWrite' = toWrite - n
        /\ writePC' = IF toWrite = n THEN "idle" ELSE "top"
        /\ sndBuffer' = CopyIn(sndBuffer, [p \in sndLBW .. sndLBW + n - 1 |-> p])
        /\ asleep' \subseteq asleep
        /\ UNCHANGED <<sndUNA, sndNXT, sndWND, rtqVars, connVars, sendVars, readerSide, netVars>>
    BY Zenon DEF WriteCopy
  <1> HIDE DEF n
  <1> USE DEF IndInv, rtqVars, connVars, sendVars, readerSide, rcvVars, readVars, netVars
  <1>s. UNCHANGED Sent BY Zenon, <1>u DEF Sent
  <1>1. ControlInv' BY Zenon, <1>u DEF ControlInv
  <1>2. OrderInv' BY SMTT(30), <1>s, <1>n, <1>u, Constants, SentInt DEF OrderInv
  <1>3. WindowInv' BY SMTT(30), <1>s, <1>n, <1>u, Constants DEF WindowInv, OrderInv
  <1>4. AckInv' BY Zenon, <1>u DEF AckInv
  <1>5. QueueInv' BY ZenonT(60), <1>s, <1>u DEF QueueInv, EntryOK
  <1>6. EarlyInv' BY Zenon, <1>s, <1>u DEF EarlyInv, EntryOK
  <1>7. SegmentInv' BY Zenon, <1>s, <1>u DEF SegmentInv, SegmentOK
  <1>8. SendBufferInv'
    <2> DEFINE w == sndLBW + n - MAX_BUF_SIZE
    <2>0. sndLBW \in Int /\ sndBuffer \in [Slots -> Bytes] /\ FirstByte <= sndLBW
          /\ sndLBW + n <= LastSeq /\ n <= MAX_BUF_SIZE
      BY SMTT(30), <1>n, SentInt, Constants DEF OrderInv, SendBufferInv
    <2>1. w \in Int /\ w <= sndLBW /\ sndLBW + n <= w + MAX_BUF_SIZE
      BY <2>0, <1>n, Constants
    <2>2. sndLBW .. sndLBW + n - 1 \subseteq Bytes
      BY <2>0, <1>n, Constants DEF Bytes
    <2>3. Overwritten(sndBuffer', sndBuffer, Bytes, w, sndLBW, n)
      <3> DEFINE payload == [p \in sndLBW .. sndLBW + n - 1 |-> p]
      <3>1. Carries(payload, sndLBW, n) BY Zenon DEF Carries
      <3>2. sndBuffer' = CopyIn(sndBuffer, payload) BY Zenon, <1>u
      <3> HIDE DEF w, payload
      <3> QED BY Zenon, <2>0, <2>1, <2>2, <3>1, <3>2, <1>n, CopyInIs
    <2>4. ASSUME NEW p \in FirstByte .. sndLBW' - 1, sndLBW' - MAX_BUF_SIZE <= p
          PROVE  sndBuffer'[SequenceToBufferInd(p)] = p
      <3>1. p \in w .. w + MAX_BUF_SIZE - 1
        BY <2>0, <2>4, <1>n, <1>u, Constants
      <3>2. CASE p \in sndLBW .. sndLBW + n - 1
        BY Zenon, <3>1, <3>2, <2>3 DEF Overwritten
      <3>3. CASE p \notin sndLBW .. sndLBW + n - 1
        <4>1. p \in FirstByte .. sndLBW - 1 /\ sndLBW - MAX_BUF_SIZE <= p
          BY SMTT(30), <3>3, <2>0, <2>4, <1>n, <1>u, Constants
        <4>2. sndBuffer[SequenceToBufferInd(p)] = p
          BY Zenon, <4>1 DEF SendBufferInv
        <4> QED BY Zenon, <4>2, <3>1, <3>3, <2>3 DEF Overwritten
      <3> QED BY Zenon, <3>2, <3>3
    <2> QED BY Zenon, <2>3, <2>4 DEF SendBufferInv, Overwritten
  <1>9. ReceiveBufferInv' BY Zenon, <1>u DEF ReceiveBufferInv, Held
  <1>10. GotInv' BY Zenon, <1>u DEF GotInv
  <1> QED BY ZenonT(60), <1>1, <1>2, <1>3, <1>4, <1>5, <1>6, <1>7, <1>8, <1>9, <1>10

LEMMA WriteInv ==
  ASSUME IndInv, WriteTop \/ WriteWoken
  PROVE  IndInv'
  <1>1. writePC # "idle" BY Zenon DEF WriteTop, WriteWoken
  <1>2. CASE WriteError(TRUE) \/ WriteError(FALSE) BY Zenon, <1>2, WriteErrorInv
  <1>3. CASE WriteSleep BY Zenon, <1>1, <1>3, WriteSleepInv
  <1>4. CASE WriteCopy /\ ~BufferFull BY Zenon, <1>1, <1>4, WriteCopyInv
  <1> QED BY Zenon, <1>2, <1>3, <1>4 DEF WriteTop, WriteWoken, WriteSome

-----------------------------------------------------------------------------
(* Send. Outside "advance" and "zero", what is sent is what is before NXT, *)
(* and NXT is between UNA and the right edge of the window.                *)

\* A step of Send that emits nothing keeps the invariant if the window
\* conditions of the place it goes to hold.
LEMMA SendStep ==
  ASSUME IndInv, ControlInv', WindowInv',
         UNCHANGED <<sndUNA, sndWND, sndLBW, sndBuffer, rtqVars, connVars, writeVars, readerSide, netVars>>,
         sndNXT' \in Int, FirstByte <= sndNXT', Sent' \in Int, Sent <= Sent', Sent' <= sndLBW
  PROVE  IndInv'
  <1> USE DEF IndInv, rtqVars, connVars, writeVars, readerSide, rcvVars, readVars, netVars
  <1>p. Progress BY SMTT(30), SentInt DEF Progress, OrderInv
  <1>2. OrderInv' BY SentInt, Constants DEF OrderInv
  <1>4. AckInv' BY Zenon DEF AckInv
  <1>5. QueueInv' BY SMTT(30), <1>p, EntryProgress DEF QueueInv
  <1>6. EarlyInv' BY <1>p, EntryProgress DEF EarlyInv
  <1>7. SegmentInv' BY Zenon, <1>p, SegmentProgress DEF SegmentInv
  <1>8. SendBufferInv' BY Zenon DEF SendBufferInv
  <1>9. ReceiveBufferInv' BY Zenon DEF ReceiveBufferInv, Held
  <1>10. GotInv' BY Zenon DEF GotInv
  <1> QED BY ZenonT(60), <1>2, <1>4, <1>5, <1>6, <1>7, <1>8, <1>9, <1>10

\* the variables SendLocked and SendCancel leave alone
SendFrame ==
    UNCHANGED <<sndUNA, sndWND, sndLBW, sndBuffer, rtqVars, connVars, writeVars, readerSide, netVars>>

LEMMA SendFullWindowInv ==
  ASSUME IndInv, SendFrame, SendFullWindow, sendPC \notin {"advance", "zero"}
  PROVE  IndInv'
  <1>1. /\ sendPC' \in {"loop", "window"} /\ UNCHANGED <<sndNXT, toSend, seenQueue>>
        /\ asleep' \subseteq asleep \cup {"send"}
    BY Zenon DEF SendFullWindow, SendSleep, SendGoto
  <1> USE DEF SendFrame, rtqVars, connVars, writeVars, readerSide, rcvVars, readVars, netVars
  <1>2. Sent = sndNXT /\ Sent' = sndNXT BY Zenon, <1>1, SendPointers DEF Sent
  <1>3. ControlInv' BY Zenon, <1>1 DEF IndInv, ControlInv
  <1>4. WindowInv' BY Zenon, <1>1, <1>2 DEF IndInv, WindowInv
  <1> QED BY SMTT(30), <1>1, <1>2, <1>3, <1>4, SendPointers, SendStep

\* Plan what to send: something, and inside the window.
LEMMA SendInnerInv ==
  ASSUME IndInv, SendFrame, SendInner, Races = {}, sendPC \in {"loop", "data1"},
         sndNXT < sndUNA + sndWND
  PROVE  IndInv'
  <1>p. Sent = sndNXT BY Zenon, SendPointers
  <1> USE DEF SendFrame, rtqVars, connVars, writeVars, readerSide, rcvVars, readVars, netVars
  <1>1. CASE sndNXT = sndLBW /\ SendSleep("data1")
    <2>1. sendPC' = "data1" /\ UNCHANGED <<sndNXT, toSend, seenQueue>> /\ asleep' = asleep \cup {"send"}
      BY Zenon, <1>1 DEF SendSleep
    <2>2. Sent' = sndNXT BY Zenon, <2>1, SendPointers DEF Sent
    <2>3. ControlInv' BY Zenon, <2>1 DEF IndInv, ControlInv
    <2>4. WindowInv' BY ZenonT(60), <1>p, <2>1, <2>2 DEF IndInv, WindowInv
    <2> QED BY SMTT(30), <1>p, <2>1, <2>2, <2>3, <2>4, SendPointers, SendStep
  <1>2. CASE sndNXT # sndLBW /\ SendPlan
    <2>1. /\ sendPC' = "emit" /\ UNCHANGED <<sndNXT, asleep>>
          /\ toSend' = Min2(Sub(sndUNA + sndWND, sndNXT), Sub(sndLBW, sndNXT))
          /\ seenQueue' = <<>>
      BY Zenon, <1>2 DEF SendPlan, SeenQueue
    <2>2. Sent' = sndNXT BY Zenon, <2>1, SendPointers DEF Sent
    <2>3. ControlInv' BY Zenon, <2>1 DEF IndInv, ControlInv
    <2>4. sndLBW <= LastSeq BY Constants DEF IndInv, OrderInv
    <2>5. Sub(sndUNA + sndWND, sndNXT) = sndUNA + sndWND - sndNXT
      BY SMTT(30), <1>p, <2>4, SendPointers, SubIs, Constants
    <2>6. Sub(sndLBW, sndNXT) = sndLBW - sndNXT
      BY SMTT(30), <1>p, <2>4, SendPointers, SubIs, Constants
    <2>7. toSend' \in Nat /\ toSend' > 0 /\ sndNXT + toSend' <= sndUNA + sndWND
          /\ sndNXT + toSend' <= sndLBW
      BY SMTT(30), <1>2, <1>p, <2>1, <2>5, <2>6, SendPointers DEF Min2
    <2>8. WindowInv' BY Zenon, <1>p, <2>1, <2>2, <2>7 DEF IndInv, WindowInv
    <2> QED BY SMTT(30), <1>p, <2>1, <2>2, <2>3, <2>8, SendPointers, SendStep
  <1> QED BY Zenon, <1>1, <1>2 DEF SendInner

\* Enter, or stay in, zero-window probing; leave it with the byte accounted.
LEMMA SendZeroInv ==
  ASSUME IndInv, SendFrame, SendZero,
         \/ sendPC = "zero"
         \/ sendPC \in {"loop", "data2"} /\ sndWND = 0 /\ sndLBW > sndNXT
  PROVE  IndInv'
  <1> USE DEF SendFrame, rtqVars, connVars, writeVars, readerSide, rcvVars, readVars, netVars
  <1>1. CASE sndWND = 0 /\ SendSleep("zero")
    <2>1. sendPC' = "zero" /\ UNCHANGED <<sndNXT, toSend, seenQueue>> /\ asleep' = asleep \cup {"send"}
      BY Zenon, <1>1 DEF SendSleep
    <2>2. Sent' = sndNXT + 1 BY Zenon, <2>1 DEF Sent
    <2>3. ControlInv' BY Zenon, <2>1 DEF IndInv, ControlInv
    <2>4. sndUNA = sndNXT /\ Sent <= sndNXT + 1 /\ sndNXT + 1 <= sndLBW
      <3>1. CASE sendPC = "zero"
        <4>1. Sent = sndNXT + 1 BY Zenon, <3>1 DEF Sent
        <4> QED BY SMTT(30), <1>1, <3>1, <4>1, SendPointers DEF IndInv, WindowInv
      <3>2. CASE sendPC # "zero"
        <4>1. Sent <= sndUNA + sndWND BY ZenonT(60), <3>2 DEF IndInv, WindowInv
        <4> QED BY SMTT(30), <1>1, <3>2, <4>1, SendPointers
      <3> QED BY Zenon, <3>1, <3>2
    <2>5. WindowInv' BY ZenonT(60), <1>1, <2>1, <2>4 DEF IndInv, WindowInv
    <2> QED BY SMTT(30), <2>1, <2>2, <2>3, <2>4, <2>5, SendPointers, SendStep
  <1>2. CASE sndWND # 0 /\ SendZeroDone
    <2>1. sendPC' = "cancel" /\ sndNXT' = sndNXT + 1 /\ UNCHANGED <<toSend, seenQueue, asleep>>
      BY Zenon, <1>2 DEF SendZeroDone
    <2>2. Sent' = sndNXT + 1 /\ Sent = sndNXT + 1 BY SMTT(30), <1>2, <2>1 DEF Sent
    <2>3. ControlInv' BY ZenonT(60), <2>1 DEF IndInv, ControlInv
    <2>4. sndUNA = sndNXT + 1 BY Zenon, <1>2 DEF IndInv, WindowInv
    <2>5. sndUNA + sndWND >= sndNXT + 1 BY SMTT(30), <2>4, SendPointers
    <2>6. WindowInv' BY ZenonT(60), <2>1, <2>2, <2>5 DEF IndInv, WindowInv
    <2> QED BY SMTT(30), <2>1, <2>2, <2>3, <2>6, SendPointers, Constants, SendStep
  <1> QED BY Zenon, <1>1, <1>2 DEF SendZero

LEMMA SendOuterInv ==
  ASSUME IndInv, SendFrame, SendOuter, sendPC \in {"loop", "data2"}
  PROVE  IndInv'
  <1>1. CASE sndNXT = sndLBW /\ SendSleep("data2")
    <2> USE DEF SendFrame, rtqVars, connVars, writeVars, readerSide, rcvVars, readVars, netVars
    <2>1. sendPC' = "data2" /\ UNCHANGED <<sndNXT, toSend, seenQueue>> /\ asleep' = asleep \cup {"send"}
      BY Zenon, <1>1 DEF SendSleep
    <2>2. Sent' = sndNXT /\ Sent = sndNXT BY ZenonT(60), <2>1, SendPointers DEF Sent
    <2>3. ControlInv' BY ZenonT(60), <2>1 DEF IndInv, ControlInv
    <2>4. WindowInv' BY ZenonT(60), <2>1, <2>2 DEF IndInv, WindowInv
    <2> QED BY SMTT(30), <2>1, <2>2, <2>3, <2>4, SendPointers, SendStep
  <1>2. CASE sndWND = 0 /\ sndLBW > sndNXT /\ SendZero BY Zenon, <1>2, SendZeroInv
  <1>3. CASE SendFullWindow BY Zenon, <1>3, SendFullWindowInv
  <1> QED BY Zenon, <1>1, <1>2, <1>3 DEF SendOuter

LEMMA SendLockedInv ==
  ASSUME IndInv, SendLocked, Races = {}
  PROVE  IndInv'
  <1>f. SendFrame BY Zenon DEF SendLocked, SendFrame
  <1>1. CASE sendPC = "loop" /\ Sub(sndNXT, sndUNA) < sndWND /\ SendInner
    <2>1. sndUNA <= sndNXT /\ sndNXT <= sndUNA + MAX_BUF_SIZE BY SMTT(30), <1>1, SendPointers, Constants
    <2>2. Sub(sndNXT, sndUNA) = sndNXT - sndUNA BY SMTT(30), <2>1, SendPointers, SubIs, Constants
    <2>3. sndNXT < sndUNA + sndWND BY <1>1, <2>2, SendPointers
    <2> QED BY ZenonT(60), <1>f, <1>1, <2>3, SendInnerInv
  <1>2. CASE sendPC = "loop" /\ SendOuter BY Zenon, <1>f, <1>2, SendOuterInv
  <1>3. CASE sendPC = "data1" /\ SendInner
    <2>1. sndNXT < sndUNA + sndWND BY Zenon, <1>3 DEF IndInv, WindowInv
    <2> QED BY Zenon, <1>f, <1>3, <2>1, SendInnerInv
  <1>4. CASE sendPC = "data2" /\ SendOuter BY Zenon, <1>f, <1>4, SendOuterInv
  <1>5. CASE sendPC = "zero" /\ SendZero BY ZenonT(60), <1>f, <1>5, SendZeroInv
  <1>6. CASE sendPC = "window" /\ SendFullWindow BY ZenonT(60), <1>f, <1>6, SendFullWindowInv
  <1> QED BY ZenonT(60), <1>1, <1>2, <1>3, <1>4, <1>5, <1>6 DEF SendLocked

LEMMA SendCancelInv ==
  ASSUME IndInv, SendCancel
  PROVE  IndInv'
  <1>1. SendFrame /\ SendFullWindow /\ sendPC = "cancel" BY Zenon DEF SendCancel, SendFrame
  <1> QED BY Zenon, <1>1, SendFullWindowInv

LEMMA SendEmitInv ==
  ASSUME IndInv, SendEmit, Races = {}
  PROVE  IndInv'
  <1> DEFINE n   == Min2(toSend, MSS_DATA)
             e   == Entry(sndNXT, n)
             d   == CopyOut(sndBuffer, sndNXT, n)
             seg == Segment(sndNXT, n, d)
  <1>u. /\ sendPC = "emit" /\ sendPC' = "advance"
        /\ RetransmissionQueue' = Append(RetransmissionQueue, e)
        /\ segs' = segs \cup {seg}
        /\ UNCHANGED <<sndVars, RetransmitCounter, connVars, toSend, seenQueue, writeVars,
                       readerSide, asleep, acks, dups>>
    BY Zenon DEF SendEmit
  <1>n. n \in 1 .. MSS_DATA /\ n <= toSend /\ n \in Nat
    <2>1. toSend \in Nat /\ toSend > 0 BY ZenonT(60), <1>u DEF IndInv, WindowInv
    <2> QED BY SMTT(30), <2>1, Constants DEF Min2
  <1>t. Sent' = sndNXT + n BY ZenonT(60), <1>u DEF Sent, sndVars
  <1> HIDE DEF n, d, e, seg
  <1> USE DEF sndVars, connVars, writeVars, readerSide, rcvVars, readVars
  <1>w. /\ Sent = sndNXT /\ sndNXT + n <= sndUNA + sndWND /\ sndNXT + n <= sndLBW
        /\ sndNXT + n <= rcvLBR + MAX_BUF_SIZE /\ rcvLBR \in Int /\ sndLBW <= LastSeq
        /\ sndLBW <= sndNXT + MAX_BUF_SIZE /\ sndUNA <= sndNXT
    <2>1. /\ toSend > 0 /\ sndNXT + toSend <= sndUNA + sndWND /\ sndNXT + toSend <= sndLBW
          /\ toWrite \in Nat /\ sndLBW + toWrite <= LastSeq /\ Sent = sndNXT
      BY ZenonT(60), <1>u, SendPointers DEF IndInv, WindowInv, OrderInv
    <2> QED BY SMTT(30), <2>1, <1>n, SendPointers, ReceivePointers, Constants
  <1>p. Progress BY SMTT(30), <1>t, <1>u, <1>w, <1>n, SendPointers DEF Progress
  <1>1. ControlInv' BY ZenonT(60), <1>u DEF IndInv, ControlInv
  <1>2. OrderInv' BY SMTT(30), <1>t, <1>u, <1>w, <1>n, SendPointers, Constants DEF IndInv, OrderInv
  <1>3. WindowInv' BY ZenonT(60), <1>t, <1>u, <1>w, <1>n DEF IndInv, WindowInv
  <1>4. AckInv' BY Zenon, <1>u DEF IndInv, AckInv
  <1>5. QueueInv'
    <2> DEFINE q == RetransmissionQueue
    <2>1. /\ q \in Seq(EntrySet)
          /\ \A i \in 1 .. Len(q) : EntryOK(q[i]) /\ sndUNA <= q[i].SequenceNum
          /\ \A i, j \in 1 .. Len(q) : i < j => q[i].SequenceNum < q[j].SequenceNum
      BY Zenon DEF IndInv, QueueInv
    <2>2. PICK f : f = e BY Zenon
    <2>3. f \in EntrySet /\ f.SequenceNum = sndNXT /\ EndOf(f) = sndNXT + n
      BY SMTT(30), <2>2, <1>n, <1>w, SendPointers, Constants DEF e, Entry, EntrySet, EndOf
    <2>4. EntryOK(f)' BY SMTT(30), <2>3, <1>t, <1>u, <1>w, SendPointers DEF EntryOK
    <2>5. \A i \in 1 .. Len(q) : q[i].SequenceNum < sndNXT
      <3> TAKE i \in 1 .. Len(q)
      <3>1. q[i] \in EntrySet /\ EntryOK(q[i]) BY SMTT(30), <2>1
      <3>2. q[i].SequenceNum \in Int /\ q[i].PayloadLen \in Int /\ q[i].PayloadLen >= 1
        BY SMTT(30), <3>1, Constants DEF EntrySet
      <3>3. EndOf(q[i]) <= sndNXT BY Zenon, <3>1, <1>w DEF EntryOK
      <3> QED BY SMTT(30), <3>2, <3>3, SendPointers DEF EndOf
    <2>6. /\ q' \in Seq(EntrySet) /\ Len(q') = Len(q) + 1 /\ q'[Len(q) + 1] = f
          /\ \A i \in 1 .. Len(q) : q'[i] = q[i]
      <3>1. q' = Append(q, f) BY Zenon, <1>u, <2>2
      <3> HIDE DEF q
      <3> QED BY SMTT(30), <3>1, <2>1, <2>3, AppendIs
    <2>7. ASSUME NEW i \in 1 .. Len(q')
          PROVE  EntryOK(q[i])' /\ sndUNA <= q'[i].SequenceNum
      <3>1. CASE i = Len(q) + 1
        BY Zenon, <3>1, <2>3, <2>4, <2>6, <1>u, <1>w DEF EntryOK
      <3>2. CASE i \in 1 .. Len(q)
        <4>1. PICK g : g = q[i] BY Zenon
        <4>2. g \in EntrySet /\ EntryOK(g) /\ sndUNA <= g.SequenceNum BY SMTT(30), <4>1, <3>2, <2>1
        <4>3. EntryOK(g)' BY ZenonT(60), <4>2, <1>p, EntryProgress
        <4> QED BY Zenon, <4>1, <4>2, <4>3, <3>2, <2>6 DEF EntryOK
      <3> QED BY SMTT(30), <3>1, <3>2, <2>1, <2>6
    <2>8. ASSUME NEW i \in 1 .. Len(q'), NEW j \in 1 .. Len(q'), i < j
          PROVE  q'[i].SequenceNum < q'[j].SequenceNum
      <3>0. Len(q) \in Nat /\ i \in 1 .. Len(q) BY SMTT(30), <2>1, <2>6, <2>8
      <3>1. CASE j = Len(q) + 1 BY ZenonT(60), <3>0, <3>1, <2>3, <2>5, <2>6
      <3>2. CASE j \in 1 .. Len(q) BY ZenonT(60), <3>0, <3>2, <2>1, <2>6, <2>8
      <3> QED BY SMTT(30), <3>0, <3>1, <3>2, <2>6
    <2> HIDE DEF q
    <2> QED BY ZenonT(60), <1>u, <2>6, <2>7, <2>8 DEF QueueInv, q
  <1>6. EarlyInv' BY SMTT(30), <1>u, <1>p, EntryProgress DEF IndInv, EarlyInv
  <1>7. SegmentInv'
    <2>1. d = [p \in sndNXT .. sndNXT + n - 1 |-> p]
      BY ZenonT(60), <1>n, <1>w, SendPointers, CopyOutIs DEF d
    <2>2. d \in [sndNXT .. sndNXT + n - 1 -> Bytes]
      BY ZenonT(60), <1>n, SendPointers, CopyOutType DEF d
    <2>3. PICK m : m = seg BY Zenon
    <2>4. /\ m = Segment(m.seq, m.len, m.data)
          /\ m.seq = sndNXT /\ m.len = n /\ m.data = d
      BY ZenonT(60), <2>3 DEF seg, Segment
    <2>5. SegmentOK(m)'
      <3>1. m.data \in [m.seq .. m.seq + m.len - 1 -> Bytes] BY ZenonT(60), <2>2, <2>4
      <3>2. m.data = [p \in m.seq .. m.seq + m.len - 1 |-> p] BY ZenonT(60), <2>1, <2>4
      <3> QED BY <2>4, <3>1, <3>2, <1>n, <1>t, <1>u, <1>w, SendPointers, SMTT(30) DEF SegmentOK
    <2>6. segs' = segs \cup {m} BY ZenonT(60), <2>3, <1>u
    <2>7. ASSUME NEW x \in segs PROVE SegmentOK(x)'
      BY ZenonT(60), <1>p, SegmentProgress DEF IndInv, SegmentInv
    <2> QED BY ZenonT(60), <2>5, <2>6, <2>7 DEF SegmentInv
  <1>8. SendBufferInv' BY ZenonT(60), <1>u DEF IndInv, SendBufferInv
  <1>9. ReceiveBufferInv' BY ZenonT(60), <1>u DEF IndInv, ReceiveBufferInv, Held
  <1>10. GotInv' BY Zenon, <1>u DEF IndInv, GotInv
  <1> QED BY ZenonT(60), <1>1, <1>2, <1>3, <1>4, <1>5, <1>6, <1>7, <1>8, <1>9, <1>10 DEF IndInv

LEMMA SendAdvanceInv ==
  ASSUME IndInv, SendAdvance, Races = {}
  PROVE  IndInv'
  <1> DEFINE n == Min2(toSend, MSS_DATA)
  <1>u. /\ sendPC = "advance" /\ sndNXT' = sndNXT + n /\ toSend' = toSend - n
        /\ seenQueue' = <<>> /\ sendPC' \in {"emit", "loop", "stuck"}
        /\ sendPC' = "emit" => toSend > n
        /\ asleep' = asleep
        /\ UNCHANGED <<sndUNA, sndWND, sndLBW, sndBuffer, rtqVars, connVars, writeVars,
                       readerSide, netVars>>
    BY Zenon DEF SendAdvance, SeenQueue
  <1>n. n \in Nat /\ n > 0 /\ n <= toSend /\ toSend \in Nat
    <2>1. toSend \in Nat /\ toSend > 0 BY ZenonT(60), <1>u DEF IndInv, WindowInv
    <2> QED BY SMTT(30), <2>1, Constants DEF Min2
  <1>s. Sent = sndNXT + n BY Zenon, <1>u DEF Sent
  <1> HIDE DEF n
  <1>t. Sent' = sndNXT + n BY SMTT(30), <1>u, <1>n, SendPointers DEF Sent
  <1> USE DEF rtqVars, connVars, writeVars, readerSide, rcvVars, readVars, netVars
  <1>1. ControlInv' BY ZenonT(60), <1>u DEF IndInv, ControlInv
  <1>2. WindowInv' BY SMTT(30), <1>u, <1>n, <1>s, <1>t, SendPointers DEF IndInv, WindowInv
  <1> QED BY SMTT(30), <1>1, <1>2, <1>u, <1>n, <1>s, <1>t, SendPointers, Constants, SendStep

-----------------------------------------------------------------------------
(* Probes, retransmissions, acknowledgments and losses.                    *)

\* A probe carries one byte past NXT; if the byte has been acknowledged, its
\* slot may hold a newer one, and the reader drops it.
LEMMA ProbeInv ==
  ASSUME IndInv, Probe, Races = {}
  PROVE  IndInv'
  <1> DEFINE d == CopyOut(sndBuffer, sndNXT, 1)
             seg == Segment(sndNXT, 1, d)
  <1>u. /\ sendPC = "zero" /\ segs' = segs \cup {seg}
        /\ UNCHANGED <<writerSide, readerSide, asleep, acks, dups>>
    BY Zenon DEF Probe, ProbeTicks
  <1> HIDE DEF d, seg
  <1> USE DEF writerSide, readerSide, sndVars, rtqVars, connVars, sendVars, writeVars, rcvVars, readVars
  <1>s. UNCHANGED Sent BY Zenon, <1>u DEF Sent
  <1>t. Sent = sndNXT + 1 BY ZenonT(60), <1>u DEF Sent
  <1>1. ControlInv' BY ZenonT(60), <1>u DEF IndInv, ControlInv
  <1>2. OrderInv' BY ZenonT(60), <1>u, <1>s DEF IndInv, OrderInv
  <1>3. WindowInv' BY ZenonT(60), <1>u, <1>s DEF IndInv, WindowInv
  <1>4. AckInv' BY ZenonT(60), <1>u DEF IndInv, AckInv
  <1>5. QueueInv' BY ZenonT(60), <1>u, <1>s DEF IndInv, QueueInv, EntryOK
  <1>6. EarlyInv' BY ZenonT(60), <1>u, <1>s DEF IndInv, EarlyInv, EntryOK
  <1>7. SegmentInv'
    <2>1. d \in [sndNXT .. sndNXT + 1 - 1 -> Bytes]
      BY ZenonT(60), SendPointers, CopyOutType DEF d
    <2>2. sndNXT < sndUNA \/ d = [p \in sndNXT .. sndNXT + 1 - 1 |-> p]
      <3>1. CASE sndUNA = sndNXT BY ZenonT(60), <3>1, <1>t, SendPointers, CopyOutIs DEF d
      <3>2. CASE sndUNA = sndNXT + 1 BY SMTT(30), <3>2, SendPointers
      <3> QED BY ZenonT(60), <1>u, <3>1, <3>2 DEF IndInv, WindowInv
    <2>3. 1 \in 1 .. MSS_DATA BY SMTT(30), Constants
    <2>4. SegmentOK(seg) BY SMTT(30), <2>1, <2>2, <2>3, <1>t, SendPointers, NewSegment DEF seg
    <2>5. Progress BY SMTT(30), <1>u, <1>s, SentInt DEF Progress, IndInv, OrderInv
    <2> QED BY ZenonT(60), <2>4, <2>5, <1>u, SegmentProgress DEF IndInv, SegmentInv
  <1>8. SendBufferInv' BY Zenon, <1>u DEF IndInv, SendBufferInv
  <1>9. ReceiveBufferInv' BY ZenonT(60), <1>u DEF IndInv, ReceiveBufferInv, Held
  <1>10. GotInv' BY ZenonT(60), <1>u DEF IndInv, GotInv
  <1> QED BY SMTT(30), <1>1, <1>2, <1>3, <1>4, <1>5, <1>6, <1>7, <1>8, <1>9, <1>10 DEF IndInv

-----------------------------------------------------------------------------
(* waitTimeout.                                                            *)

LEMMA RetransmitInv ==
  ASSUME IndInv, Retransmit
  PROVE  IndInv'
  <1> DEFINE e == RetransmissionQueue[1]
             d == CopyOut(sndBuffer, e.SequenceNum, e.PayloadLen)
             seg == Segment(e.SequenceNum, e.PayloadLen, d)
  <1>q. RetransmissionQueue \in Seq(EntrySet) /\ RetransmissionQueue # <<>>
    BY Zenon DEF IndInv, QueueInv, Retransmit
  <1>e. /\ 1 \in 1 .. Len(RetransmissionQueue) /\ Head(RetransmissionQueue) = e /\ e \in EntrySet
    BY <1>q
  <1>u. /\ RetransmitCounter' = RetransmitCounter + 1 /\ RetransmitCounter < MAX_RETRANSMISSIONS
        /\ segs' = segs \cup {seg}
        /\ UNCHANGED <<sndVars, RetransmissionQueue, connVars, sendVars, writeVars,
                       readerSide, asleep, acks, dups>>
    BY ZenonT(60), <1>e DEF Retransmit, MayRetransmit
  <1>o. /\ EntryOK(e) /\ sndUNA <= e.SequenceNum
    BY ZenonT(60), <1>e DEF IndInv, QueueInv
  <1> HIDE DEF e, d, seg
  <1> USE DEF sndVars, rtqVars, connVars, sendVars, writeVars, readerSide, rcvVars, readVars
  <1>s. UNCHANGED Sent BY ZenonT(60), <1>u DEF Sent
  <1>1. ControlInv' BY SMTT(30), <1>u, Constants DEF IndInv, ControlInv
  <1>2. OrderInv' BY Zenon, <1>u, <1>s DEF IndInv, OrderInv
  <1>3. WindowInv' BY Zenon, <1>u, <1>s DEF IndInv, WindowInv
  <1>4. AckInv' BY Zenon, <1>u DEF IndInv, AckInv
  <1>5. QueueInv' BY ZenonT(60), <1>u, <1>s DEF IndInv, QueueInv, EntryOK
  <1>6. EarlyInv' BY ZenonT(60), <1>u, <1>s DEF IndInv, EarlyInv, EntryOK
  <1>7. SegmentInv'
    <2>1. /\ e.SequenceNum \in Int /\ e.PayloadLen \in 1 .. MSS_DATA /\ e.PayloadLen \in Nat
      BY <1>e, Constants DEF EntrySet
    <2>2. /\ FirstByte <= e.SequenceNum
          /\ e.SequenceNum + e.PayloadLen <= Sent
          /\ e.SequenceNum + e.PayloadLen <= rcvLBR + MAX_BUF_SIZE
      BY Zenon, <1>o DEF EntryOK, EndOf
    <2>3. /\ e.SequenceNum + e.PayloadLen <= sndLBW
          /\ sndLBW <= e.SequenceNum + MAX_BUF_SIZE
      BY SMTT(30), <1>o, <2>1, <2>2, SentInt, SendPointers, Constants
    <2>4. d = [p \in e.SequenceNum .. e.SequenceNum + e.PayloadLen - 1 |-> p]
      BY ZenonT(60), <2>1, <2>2, <2>3, CopyOutIs DEF d
    <2>5. d \in [e.SequenceNum .. e.SequenceNum + e.PayloadLen - 1 -> Bytes]
      BY ZenonT(60), <2>1, CopyOutType DEF d
    <2>6. SegmentOK(seg) BY ZenonT(60), <2>1, <2>2, <2>4, <2>5, NewSegment DEF seg
    <2>7. Progress
      <3>1. UNCHANGED <<Sent, rcvLBR, sndUNA>> BY Zenon, <1>u, <1>s
      <3>2. Sent <= Sent /\ rcvLBR <= rcvLBR /\ sndUNA <= sndUNA BY ReceivePointers
      <3> QED BY Zenon, <3>1, <3>2, ReceivePointers DEF Progress
    <2> QED BY ZenonT(60), <2>6, <2>7, <1>u, SegmentProgress DEF IndInv, SegmentInv
  <1>8. SendBufferInv' BY ZenonT(60), <1>u DEF IndInv, SendBufferInv
  <1>9. ReceiveBufferInv' BY ZenonT(60), <1>u DEF IndInv, ReceiveBufferInv, Held
  <1>10. GotInv' BY Zenon, <1>u DEF IndInv, GotInv
  <1> QED BY SMTT(30), <1>1, <1>2, <1>3, <1>4, <1>5, <1>6, <1>7, <1>8, <1>9, <1>10 DEF IndInv

LEMMA GiveUpInv ==
  ASSUME IndInv, GiveUp
  PROVE  IndInv'
  <1>0. asleep' \subseteq asleep BY Zenon DEF GiveUp
  <1>1. ControlInv'
    BY ZenonT(60), <1>0 DEF IndInv, ControlInv, GiveUp, rtqVars, sendVars, writeVars, readerSide, rcvVars, readVars, netVars
  <1>2. /\ UNCHANGED <<sndVars, RetransmissionQueue, sendPC, toSend, readerSide, toWrite, writePC>>
        /\ segs' \subseteq segs /\ acks' \subseteq acks
    BY Zenon DEF GiveUp, rtqVars, sendVars, writeVars, netVars
  <1>3. writePC # "idle" => toWrite > 0 BY Zenon DEF IndInv, OrderInv
  <1> QED BY ZenonT(60), <1>1, <1>2, <1>3, Quiet
-----------------------------------------------------------------------------
(* Receive, on acknowledgments.                                            *)

\* removeFromRetransmissionQueue drops exactly the leading segments that start
\* below the acknowledgment number.
LEMMA AckedIs ==
  ASSUME NEW q \in Seq(EntrySet), NEW a \in Int
  PROVE  /\ Acked(q, a) \in 0 .. Len(q)
         /\ \A i \in 1 .. Acked(q, a) : q[i].SequenceNum < a
         /\ Acked(q, a) < Len(q) => q[Acked(q, a) + 1].SequenceNum >= a
  <1> DEFINE T == {k \in 0 .. Len(q) : \A i \in 1 .. k : q[i].SequenceNum < a}
  <1>1. T \subseteq 0 .. Len(q) /\ Len(q) \in Nat /\ 0 \in T OBVIOUS
  <1>2. PICK k : k = Max(T) BY Zenon
  <1> HIDE DEF T
  <1>3. k \in T /\ \A y \in T : k >= y BY Zenon, <1>1, <1>2, MaxIs
  <1> USE DEF T
  <1>4. k = Acked(q, a) BY Zenon, <1>2 DEF Acked
  <1>5. k \in 0 .. Len(q) /\ \A i \in 1 .. k : q[i].SequenceNum < a BY Zenon, <1>3
  <1>6. ASSUME k < Len(q), q[k + 1].SequenceNum < a PROVE FALSE
    <2>1. k + 1 \in 0 .. Len(q) BY SMTT(30), <1>5, <1>6
    <2>2. \A i \in 1 .. k + 1 : q[i].SequenceNum < a BY <1>5, <1>6
    <2>3. k + 1 \in T BY Zenon, <2>1, <2>2
    <2> QED BY SMTT(30), <2>3, <1>3, <1>5
  <1>7. ASSUME k < Len(q) PROVE q[k + 1].SequenceNum \in Int
    <2>1. k + 1 \in 1 .. Len(q) BY <1>5, <1>7
    <2>2. q[k + 1] \in EntrySet BY <2>1
    <2> QED BY SMTT(30), <2>2, Constants DEF EntrySet
  <1> QED BY SMTT(30), <1>4, <1>5, <1>6, <1>7

\* An accepted acknowledgment is new, inside what was sent and, if it closes
\* the window or answers a probe, exactly where ProbeAccounted needs it.
LEMMA AcceptedAck ==
  ASSUME IndInv, NEW m \in acks, ~AckRejected(m)
  PROVE  /\ m.ack \in Int /\ m.wnd \in 0 .. MAX_BUF_SIZE
         /\ sndUNA < m.ack /\ m.ack <= rcvNXT
         /\ m.ack + m.wnd <= rcvLBR + MAX_BUF_SIZE
         /\ m.ack + m.wnd >= sndUNA + sndWND
         /\ sendPC = "zero" => m.ack = sndNXT + 1 /\ m.wnd # 0
  <1>1. /\ m.ack \in Int /\ m.wnd \in 0 .. MAX_BUF_SIZE /\ m.ack <= rcvNXT
        /\ m.ack + m.wnd <= rcvLBR + MAX_BUF_SIZE
        /\ m.ack > sndUNA => m.ack + m.wnd >= sndUNA + sndWND
    BY Zenon DEF IndInv, AckInv
  <1>2. sndUNA < m.ack BY <1>1, SendPointers DEF AckRejected
  <1>3. ASSUME sendPC = "zero" PROVE m.ack = sndNXT + 1 /\ m.wnd # 0
    <2>1. Sent = sndNXT + 1 BY ZenonT(60), <1>3 DEF Sent
    <2>2. m.ack <= sndNXT + 1 BY <1>1, <2>1, ReceivePointers
    <2>3. sndNXT <= sndUNA
      <3>1. sndUNA = IF sndWND = 0 THEN sndNXT ELSE sndNXT + 1 BY Zenon, <1>3 DEF IndInv, WindowInv
      <3> QED BY <3>1, SendPointers
    <2>4. m.ack = sndNXT + 1 BY SMTT(30), <1>1, <1>2, <2>2, <2>3, SendPointers
    <2>5. m.wnd # 0 BY <2>4, SendPointers DEF AckRejected
    <2> QED BY ZenonT(60), <2>4, <2>5
  <1> QED BY ZenonT(60), <1>1, <1>2, <1>3

LEMMA ReceiveAckInv ==
  ASSUME IndInv, NEW m \in acks, ReceiveAck(m)
  PROVE  IndInv'
  <1>a. acks' \subseteq acks /\ dups' \in 0 .. MaxDups /\ UNCHANGED <<readerSide, segs>>
    <2>1. dups \in 0 .. MaxDups BY Zenon DEF IndInv, ControlInv
    <2>2. dups < MaxDups => dups + 1 \in 0 .. MaxDups BY <2>1, Constants
    <2> QED BY ZenonT(60), <2>1, <2>2 DEF ReceiveAck, Delivered
  <1>1. CASE UNCHANGED <<writerSide, asleep>>
    <2> USE DEF writerSide, rtqVars, connVars, sendVars, writeVars
    <2>1. ControlInv' BY Zenon, <1>a, <1>1 DEF IndInv, ControlInv, readerSide, rcvVars, readVars
    <2>2. writePC # "idle" => toWrite > 0 BY Zenon DEF IndInv, OrderInv
    <2>3. segs' \subseteq segs BY Zenon, <1>a
    <2>4. UNCHANGED <<sndVars, RetransmissionQueue, sendPC, toSend, readerSide, toWrite, writePC>>
      BY ZenonT(60), <1>a, <1>1
    <2> QED BY Zenon, <1>a, <2>1, <2>2, <2>3, <2>4, Quiet
  <1>2. CASE ~UNCHANGED <<writerSide, asleep>>
    <2> DEFINE q == RetransmissionQueue
               k == Acked(q, m.ack)
    <2>u. /\ ~AckRejected(m)
          /\ RetransmissionQueue' = SubSeq(q, k + 1, Len(q))
          /\ RetransmitCounter' = RetransmitCounter \/ RetransmitCounter' = 0
          /\ sndWND' = m.wnd /\ sndUNA' = m.ack /\ asleep' \subseteq asleep
          /\ UNCHANGED <<sndNXT, sndLBW, sndBuffer, connVars, sendVars, writeVars>>
      BY Zenon, <1>2 DEF ReceiveAck
    <2>m. /\ m.ack \in Int /\ m.wnd \in 0 .. MAX_BUF_SIZE
          /\ sndUNA < m.ack /\ m.ack <= rcvNXT
          /\ m.ack + m.wnd <= rcvLBR + MAX_BUF_SIZE
          /\ m.ack + m.wnd >= sndUNA + sndWND
          /\ sendPC = "zero" => m.ack = sndNXT + 1 /\ m.wnd # 0
      BY ZenonT(60), <2>u, AcceptedAck
    <2> HIDE DEF k
    <2> USE DEF connVars, sendVars, writeVars, readerSide, rcvVars, readVars
    <2>s. UNCHANGED Sent BY Zenon, <2>u DEF Sent
    <2>v. /\ sndUNA' = m.ack /\ sndWND' = m.wnd
          /\ UNCHANGED <<sndNXT, sndLBW, toSend, sendPC, rcvNXT, rcvLBR, rcvWND>>
      BY ZenonT(60), <1>a, <2>u
    <2>p. Progress
      <3>1. sndUNA <= m.ack BY <2>m, SendPointers
      <3>2. Sent <= Sent /\ rcvLBR <= rcvLBR BY ReceivePointers
      <3> QED BY ZenonT(60), <3>1, <3>2, <2>v, <2>m, <2>s, ReceivePointers DEF Progress
    <2>1. ControlInv'
      <3>1. 0 \in 0 .. MAX_RETRANSMISSIONS BY Constants
      <3> QED BY ZenonT(60), <3>1, <1>a, <2>u DEF IndInv, ControlInv
    <2>2. OrderInv'
      <3>1. ISS <= sndUNA BY Zenon DEF IndInv, OrderInv
      <3>2. ISS <= m.ack /\ sndLBW <= m.ack + MAX_BUF_SIZE BY <3>1, <2>m, SendPointers, Constants
      <3> QED BY ZenonT(60), <3>2, <1>a, <2>u, <2>m, <2>s DEF IndInv, OrderInv
    <2>3. WindowInv'
      <3>1. WindowInv BY Zenon DEF IndInv
      <3>2. sendPC = "zero" => sndUNA' = IF sndWND' = 0 THEN sndNXT' ELSE sndNXT' + 1
        BY ZenonT(60), <2>v, <2>m
      <3>3. /\ sendPC # "zero" => Sent' <= sndUNA' + sndWND'
            /\ sendPC = "data1" => sndNXT' < sndUNA' + sndWND'
            /\ sendPC \in {"emit", "advance"} => sndNXT' + toSend' <= sndUNA' + sndWND'
        <4>1. /\ sendPC # "zero" => Sent <= sndUNA + sndWND
              /\ sendPC = "data1" => sndNXT < sndUNA + sndWND
              /\ sendPC \in {"emit", "advance"} => sndNXT + toSend <= sndUNA + sndWND
          BY ZenonT(60), <3>1 DEF WindowInv
        <4>2. sndUNA + sndWND <= sndUNA' + sndWND' /\ sndUNA' + sndWND' \in Int
          BY SMTT(30), <2>v, <2>m, Constants
        <4> HIDE DEF q
        <4> QED BY SMTT(30), <4>1, <4>2, <2>v, <2>s, SentInt, SendPointers
      <3> QED BY Zenon, <3>1, <3>2, <3>3, <2>v, <2>m DEF WindowInv
    <2>4. AckInv'
      <3>1. /\ acks \subseteq [ack : Int, wnd : 0 .. MAX_BUF_SIZE]
            /\ \A x \in acks : /\ FirstByte <= x.ack /\ x.ack <= rcvNXT
                               /\ x.ack + x.wnd <= rcvLBR + MAX_BUF_SIZE
            /\ \A x, y \in acks : x.ack < y.ack => x.ack + x.wnd <= y.ack + y.wnd
        BY ZenonT(60) DEF IndInv, AckInv
      <3>2. \A x \in acks : x.ack > m.ack => x.ack + x.wnd >= m.ack + m.wnd
        <4> TAKE x \in acks
        <4>1. x.ack \in Int /\ x.wnd \in Int BY <3>1
        <4> QED BY ZenonT(60), <3>1, <4>1, <2>m
      <3> QED BY ZenonT(60), <1>a, <2>u, <3>1, <3>2 DEF AckInv
    <2>5. QueueInv'
      <3>1. /\ q \in Seq(EntrySet)
            /\ \A i \in 1 .. Len(q) : EntryOK(q[i]) /\ sndUNA <= q[i].SequenceNum
            /\ \A i, j \in 1 .. Len(q) : i < j => q[i].SequenceNum < q[j].SequenceNum
        BY Zenon DEF IndInv, QueueInv
      <3>2. k \in 0 .. Len(q) /\ (k < Len(q) => q[k + 1].SequenceNum >= m.ack)
        BY ZenonT(60), <3>1, <2>m, AckedIs DEF k
      <3>3. /\ q' \in Seq(EntrySet) /\ Len(q') = Len(q) - k
            /\ \A i \in 1 .. Len(q) - k : q'[i] = q[k + i]
        BY SMTT(30), <2>u, <3>1, <3>2
      <3>4. \A i \in 1 .. Len(q') : k + i \in 1 .. Len(q)
        BY SMTT(30), <3>1, <3>2, <3>3
      <3>5. ASSUME NEW i \in 1 .. Len(q')
            PROVE  EntryOK(q[i])' /\ sndUNA' <= q'[i].SequenceNum
        <4>1. PICK g : g = q[k + i] BY Zenon
        <4>2. k + i \in 1 .. Len(q) /\ k + 1 \in 1 .. Len(q) /\ k < Len(q)
          BY SMTT(30), <3>1, <3>2, <3>3, <3>4
        <4>3. g \in EntrySet /\ EntryOK(g) BY SMTT(30), <4>1, <4>2, <3>1
        <4>4. EntryOK(g)' BY ZenonT(60), <4>3, <2>p, EntryProgress
        <4>5. q'[i] = g BY ZenonT(60), <4>1, <3>1, <3>2, <3>3
        <4>6. q[k + 1] \in EntrySet BY SMTT(30), <4>2, <3>1
        <4>7. g.SequenceNum \in Int /\ q[k + 1].SequenceNum \in Int
          BY <4>3, <4>6, Constants DEF EntrySet
        <4>8. q[k + 1].SequenceNum <= g.SequenceNum
          <5>1. CASE i = 1 BY SMTT(30), <5>1, <4>1, <4>7
          <5>2. CASE i # 1
            <6>1. k + 1 < k + i BY SMTT(30), <5>2, <3>2
            <6> QED BY SMTT(30), <6>1, <4>1, <4>2, <4>7, <3>1
          <5> QED BY ZenonT(60), <5>1, <5>2
        <4>9. m.ack <= g.SequenceNum BY SMTT(30), <4>2, <4>7, <4>8, <3>2, <2>m
        <4> QED BY ZenonT(60), <4>4, <4>5, <4>9, <2>u DEF EntryOK
      <3>6. ASSUME NEW i \in 1 .. Len(q'), NEW j \in 1 .. Len(q'), i < j
            PROVE  q'[i].SequenceNum < q'[j].SequenceNum
        <4>1. k + i \in 1 .. Len(q) /\ k + j \in 1 .. Len(q) /\ k + i < k + j
          BY SMTT(30), <3>2, <3>4, <3>6
        <4>2. q'[i] = q[k + i] /\ q'[j] = q[k + j] BY ZenonT(60), <3>3
        <4> QED BY ZenonT(60), <4>1, <4>2, <3>1
      <3> HIDE DEF q
      <3> QED BY ZenonT(60), <3>3, <3>5, <3>6 DEF QueueInv, q
    <2>6. EarlyInv' BY SMTT(30), <1>a, <2>p, EntryProgress DEF IndInv, EarlyInv
    <2>7. SegmentInv' BY ZenonT(60), <1>a, <2>p, SegmentProgress DEF IndInv, SegmentInv
    <2>8. SendBufferInv' BY ZenonT(60), <2>u DEF IndInv, SendBufferInv
    <2>9. ReceiveBufferInv' BY ZenonT(60), <1>a DEF IndInv, ReceiveBufferInv, Held
    <2>10. GotInv' BY Zenon, <1>a DEF IndInv, GotInv
    <2> QED BY SMTT(30), <2>1, <2>2, <2>3, <2>4, <2>5, <2>6, <2>7, <2>8, <2>9, <2>10 DEF IndInv
  <1> QED BY ZenonT(60), <1>1, <1>2

LEMMA LoseInv ==
  ASSUME IndInv, Lose
  PROVE  IndInv'
  <1>1. /\ segs' \subseteq segs /\ acks' \subseteq acks
        /\ UNCHANGED <<writerSide, readerSide, asleep, dups>>
    BY Zenon DEF Lose
  <1> USE DEF writerSide, rtqVars, connVars, sendVars, writeVars
  <1>2. ControlInv' BY ZenonT(60), <1>1 DEF IndInv, ControlInv, readerSide, rcvVars, readVars
  <1>3. writePC # "idle" => toWrite > 0 BY Zenon DEF IndInv, OrderInv
  <1> QED BY Zenon, <1>1, <1>2, <1>3, Quiet

-----------------------------------------------------------------------------
(* The reading end: Receive on a segment.                                  *)

\* A segment that starts in the window fits the buffer and is intact.
LEMMA SegmentFits ==
  ASSUME IndInv, NEW m \in segs, ~OutOfWindow(m)
  PROVE  /\ Copied(m) = m.len /\ Fits(m)
         /\ m.seq \in Int /\ m.len \in 1 .. MSS_DATA /\ m.len \in Nat
         /\ rcvNXT <= m.seq /\ m.seq + m.len <= rcvLBR + MAX_BUF_SIZE
         /\ FirstByte <= m.seq /\ m.seq + m.len <= Sent
         /\ m.data = [p \in m.seq .. m.seq + m.len - 1 |-> p]
  <1>1. SegmentOK(m) BY Zenon DEF IndInv, SegmentInv
  <1>2. /\ m.seq \in Int /\ m.len \in 1 .. MSS_DATA /\ m.len \in Nat
        /\ FirstByte <= m.seq /\ m.seq + m.len <= Sent
        /\ m.len = 1 \/ m.seq + m.len <= rcvLBR + MAX_BUF_SIZE
    BY SMTT(30), <1>1, Constants DEF SegmentOK
  <1>3. /\ rcvNXT \in Int /\ rcvLBR \in Int /\ rcvLBR <= rcvNXT /\ sndUNA \in Int /\ sndUNA <= rcvNXT
        /\ rcvNXT + rcvWND = rcvLBR + MAX_BUF_SIZE
    BY Zenon, ReceivePointers
  <1>4. rcvNXT <= m.seq /\ m.seq < rcvLBR + MAX_BUF_SIZE
    BY SMTT(30), <1>2, <1>3, Constants DEF OutOfWindow
  <1>5. m.seq + m.len <= rcvLBR + MAX_BUF_SIZE BY SMTT(30), <1>2, <1>3, <1>4, Constants
  <1>6. Sub(m.seq, rcvLBR) = m.seq - rcvLBR BY SMTT(30), <1>2, <1>3, <1>4, SubIs, Constants
  <1>7. Sub(MAX_BUF_SIZE, m.seq - rcvLBR) = MAX_BUF_SIZE - (m.seq - rcvLBR)
    BY SMTT(30), <1>2, <1>3, <1>4, SubIs, Constants
  <1>8. Copied(m) = m.len
    <2>1. m.len <= MAX_BUF_SIZE - (m.seq - rcvLBR) BY <1>2, <1>3, <1>5, Constants
    <2> QED BY SMTT(30), <2>1, <1>2, <1>3, <1>6, <1>7, Constants DEF Copied, Min2
  <1>9. m.data = [p \in m.seq .. m.seq + m.len - 1 |-> p]
    <2>1. ~ (m.seq < sndUNA) BY SMTT(30), <1>2, <1>3, <1>4
    <2> QED BY ZenonT(60), <1>1, <2>1 DEF SegmentOK
  <1> QED BY ZenonT(60), <1>2, <1>4, <1>5, <1>8, <1>9 DEF Fits

\* The window that goes with a RCV.NXT.
LEMMA WindowIs ==
  ASSUME NEW l \in Int, NEW x \in Int, NEW w, w = l + MAX_BUF_SIZE - x,
         l <= x, x <= l + MAX_BUF_SIZE
  PROVE  /\ w \in 0 .. MAX_BUF_SIZE /\ w \in Int /\ w >= 0
         /\ x + w = l + MAX_BUF_SIZE /\ w = MAX_BUF_SIZE - (x - l)
  BY SMTT(30), Constants

\* Subtracting what was taken leaves the window that goes with the new RCV.NXT.
LEMMA WindowAfter ==
  ASSUME NEW l \in Int, NEW x \in Int, NEW y \in Int, NEW w, w = l + MAX_BUF_SIZE - x,
         l <= x, x <= y, y <= l + MAX_BUF_SIZE
  PROVE  Sub(w, y - x) = l + MAX_BUF_SIZE - y
  <1>1. w \in Int /\ y - x \in Int /\ y - x <= w /\ w - (y - x) < Word BY Constants
  <1>2. Sub(w, y - x) = w - (y - x) BY ZenonT(60), <1>1, SubIs
  <1> QED BY SMTT(30), <1>2, Constants

\* An acknowledgment of the present state has the largest number and the
\* rightmost edge of all in flight.
LEMMA NewAck ==
  ASSUME IndInv, UNCHANGED <<sndUNA, sndWND, rcvLBR>>,
         rcvNXT' \in Int, rcvNXT <= rcvNXT', rcvNXT' <= rcvLBR + MAX_BUF_SIZE,
         rcvWND' = rcvLBR + MAX_BUF_SIZE - rcvNXT',
         SendAck(rcvNXT', rcvWND')
  PROVE  AckInv'
  <1>1. /\ rcvNXT \in Int /\ rcvLBR \in Int /\ rcvLBR <= rcvNXT /\ FirstByte <= rcvLBR
        /\ sndUNA \in Int /\ sndWND \in Int /\ sndUNA + sndWND <= rcvLBR + MAX_BUF_SIZE
    BY Zenon, ReceivePointers
  <1>2. rcvWND' \in 0 .. MAX_BUF_SIZE /\ rcvWND' \in Int /\ rcvNXT' + rcvWND' = rcvLBR + MAX_BUF_SIZE
    <2>1. rcvLBR <= rcvNXT' BY <1>1
    <2> QED BY ZenonT(60), <2>1, <1>1, WindowIs
  <1>3. PICK a : a = Ack(rcvNXT', rcvWND') BY Zenon
  <1>4. acks' = acks \cup {a} BY Zenon, <1>2, <1>3, WindowField DEF SendAck
  <1>5. /\ a \in [ack : Int, wnd : 0 .. MAX_BUF_SIZE]
        /\ a.ack = rcvNXT' /\ a.ack \in Int /\ a.wnd \in Int
        /\ a.ack + a.wnd = rcvLBR + MAX_BUF_SIZE
    BY ZenonT(60), <1>2, <1>3 DEF Ack
  <1>6. \A x \in acks : /\ x \in [ack : Int, wnd : 0 .. MAX_BUF_SIZE]
                        /\ x.ack \in Int /\ x.wnd \in Int
                        /\ FirstByte <= x.ack /\ x.ack <= rcvNXT'
                        /\ x.ack + x.wnd <= rcvLBR + MAX_BUF_SIZE
                        /\ x.ack > sndUNA => x.ack + x.wnd >= sndUNA + sndWND
    <2> TAKE x \in acks
    <2>1. /\ x \in [ack : Int, wnd : 0 .. MAX_BUF_SIZE]
          /\ FirstByte <= x.ack /\ x.ack <= rcvNXT
          /\ x.ack + x.wnd <= rcvLBR + MAX_BUF_SIZE
          /\ x.ack > sndUNA => x.ack + x.wnd >= sndUNA + sndWND
      BY Zenon DEF IndInv, AckInv
    <2>2. x.ack \in Int /\ x.wnd \in Int BY <2>1
    <2> QED BY SMTT(30), <2>1, <2>2, <1>1
  <1>7. \A x, y \in acks : x.ack < y.ack => x.ack + x.wnd <= y.ack + y.wnd
    BY Zenon DEF IndInv, AckInv
  <1>8. /\ FirstByte <= a.ack /\ a.ack <= rcvNXT'
        /\ a.ack + a.wnd >= sndUNA + sndWND
    BY SMTT(30), <1>1, <1>5, Constants
  <1>9. acks' \subseteq [ack : Int, wnd : 0 .. MAX_BUF_SIZE] BY ZenonT(60), <1>4, <1>5, <1>6
  <1>10. ASSUME NEW x \in acks'
         PROVE  /\ FirstByte <= x.ack /\ x.ack <= rcvNXT'
                /\ x.ack + x.wnd <= rcvLBR + MAX_BUF_SIZE
                /\ x.ack > sndUNA => x.ack + x.wnd >= sndUNA + sndWND
    <2>1. CASE x \in acks BY ZenonT(60), <2>1, <1>6
    <2>2. CASE x = a BY SMTT(30), <2>2, <1>5, <1>8, <1>1, Constants
    <2> QED BY ZenonT(60), <2>1, <2>2, <1>4
  <1>11. ASSUME NEW x \in acks', NEW y \in acks', x.ack < y.ack
         PROVE  x.ack + x.wnd <= y.ack + y.wnd
    <2>1. CASE x \in acks /\ y \in acks BY ZenonT(60), <2>1, <1>7, <1>11
    <2>2. CASE x \in acks /\ y = a BY ZenonT(60), <2>2, <1>5, <1>6
    <2>3. CASE x = a /\ y \in acks BY SMTT(30), <2>3, <1>5, <1>6, <1>11
    <2>4. CASE x = a /\ y = a BY SMTT(30), <2>4, <1>5, <1>11
    <2> QED BY ZenonT(60), <2>1, <2>2, <2>3, <2>4, <1>4
  <1> QED BY ZenonT(60), <1>9, <1>10, <1>11 DEF AckInv

\* the variables a delivery to the reader leaves alone, or only shrinks
ReceiveFrame ==
    /\ segs' \subseteq segs /\ dups' \in 0 .. MaxDups
    /\ UNCHANGED <<writerSide, readVars>>

\* The bytes of an accepted segment are put in place, the others stay.
LEMMA ReceiveCopyIs ==
  ASSUME IndInv, NEW m \in segs, ReceiveCopy(m)
  PROVE  /\ Overwritten(rcvBuffer', rcvBuffer, Bytes, rcvLBR, m.seq, m.len)
         /\ spinning' = FALSE /\ asleep' \subseteq asleep
         /\ SendAck(rcvNXT', rcvWND') /\ rcvLBR' = rcvLBR
  <1>1. ~OutOfWindow(m) BY Zenon DEF ReceiveCopy
  <1>2. /\ Copied(m) = m.len /\ Fits(m)
        /\ m.seq \in Int /\ m.len \in 1 .. MSS_DATA /\ m.len \in Nat
        /\ rcvNXT <= m.seq /\ m.seq + m.len <= rcvLBR + MAX_BUF_SIZE
        /\ FirstByte <= m.seq /\ m.seq + m.len <= Sent
        /\ m.data = [p \in m.seq .. m.seq + m.len - 1 |-> p]
    BY ZenonT(60), <1>1, SegmentFits
  <1> DEFINE payload == Restrict(m.data, m.seq .. m.seq + m.len - 1)
  <1>3. rcvBuffer' = CopyIn(rcvBuffer, payload) BY Zenon, <1>2 DEF ReceiveCopy
  <1>4. Carries(payload, m.seq, m.len) BY ZenonT(60), <1>2 DEF Carries, Restrict
  <1>5. rcvBuffer \in [Slots -> Bytes] /\ rcvLBR \in Int /\ rcvLBR <= m.seq
    <2>1. rcvBuffer \in [Slots -> Bytes] BY Zenon DEF IndInv, ReceiveBufferInv
    <2>2. m.seq \in Int /\ rcvNXT <= m.seq BY Zenon, <1>2
    <2>3. rcvLBR <= m.seq BY <2>2, ReceivePointers
    <2> QED BY Zenon, <2>1, <2>3, ReceivePointers
  <1>6. m.seq .. m.seq + m.len - 1 \subseteq Bytes
    <2>1. Sent \in Int /\ Sent <= LastSeq BY Zenon, ReceivePointers
    <2>2. /\ m.seq \in Int /\ m.len \in Nat /\ FirstByte <= m.seq /\ m.seq + m.len <= Sent
      BY Zenon, <1>2
    <2> QED BY SMTT(30), <2>1, <2>2, Constants DEF Bytes
  <1> HIDE DEF payload
  <1>7. Overwritten(rcvBuffer', rcvBuffer, Bytes, rcvLBR, m.seq, m.len)
    BY Zenon, <1>2, <1>3, <1>4, <1>5, <1>6, CopyInIs
  <1> QED BY ZenonT(60), <1>2, <1>7 DEF ReceiveCopy

\* Every part of the invariant but EarlyInv and ReceiveBufferInv, once the new
\* RCV.NXT and RCV.WND are known to be right.
LEMMA ReceiveStep ==
  ASSUME IndInv, ReceiveFrame, EarlyInv', ReceiveBufferInv', AckInv',
         rcvNXT' \in Int, rcvNXT <= rcvNXT', rcvNXT' <= Sent, rcvNXT' <= rcvLBR + MAX_BUF_SIZE,
         rcvWND' = rcvLBR + MAX_BUF_SIZE - rcvNXT', rcvLBR' = rcvLBR,
         spinning' = FALSE, asleep' \subseteq asleep
  PROVE  IndInv'
  <1> USE DEF ReceiveFrame, writerSide, sndVars, rtqVars, connVars, sendVars, writeVars, readVars
  <1>s. UNCHANGED Sent BY Zenon DEF Sent
  <1>1. ControlInv' BY ZenonT(60) DEF IndInv, ControlInv
  <1>n. rcvLBR <= rcvNXT' /\ sndUNA <= rcvNXT' BY ReceivePointers
  <1>2. OrderInv'
    <2>1. reading \in Nat /\ rcvLBR + reading <= rcvNXT BY Zenon DEF IndInv, OrderInv
    <2>2. rcvLBR + reading <= rcvNXT' BY <2>1, ReceivePointers
    <2> QED BY ZenonT(60), <1>s, <1>n, <2>2 DEF IndInv, OrderInv
  <1>3. WindowInv'
    <2>1. rcvLBR \in Int BY ZenonT(60) DEF IndInv, OrderInv
    <2>2. rcvLBR <= rcvNXT' BY Zenon, <1>n
    <2>3. rcvWND' = MAX_BUF_SIZE - (rcvNXT' - rcvLBR) /\ rcvWND' >= 0 BY ZenonT(60), <2>1, <2>2, WindowIs
    <2> QED BY ZenonT(60), <1>s, <2>3 DEF IndInv, WindowInv
  <1>5. QueueInv' BY ZenonT(60), <1>s DEF IndInv, QueueInv, EntryOK
  <1>7. SegmentInv' BY ZenonT(60), <1>s DEF IndInv, SegmentInv, SegmentOK
  <1>8. SendBufferInv' BY ZenonT(60) DEF IndInv, SendBufferInv
  <1>10. GotInv' BY Zenon DEF IndInv, GotInv
  <1> QED BY ZenonT(60), <1>1, <1>2, <1>3, <1>5, <1>7, <1>8, <1>10 DEF IndInv

LEMMA ReceiveRejectInv ==
  ASSUME IndInv, ReceiveFrame, NEW m \in segs, ReceiveReject(m)
  PROVE  IndInv'
  <1>u. UNCHANGED <<rcvNXT, rcvWND, rcvLBR, rcvBuffer, EarlyArrivalQueue, spinning, asleep>>
        /\ SendAck(rcvNXT', rcvWND')
    BY ZenonT(60) DEF ReceiveReject, rcvVars
  <1>1. /\ rcvNXT \in Int /\ rcvLBR \in Int /\ rcvNXT <= Sent
        /\ rcvNXT <= rcvLBR + MAX_BUF_SIZE
        /\ rcvWND = rcvLBR + MAX_BUF_SIZE - rcvNXT
    BY Zenon, ReceivePointers
  <1>s. UNCHANGED <<Sent, sndUNA, sndWND>> BY Zenon DEF Sent, ReceiveFrame, writerSide, sndVars, sendVars
  <1>2. AckInv' BY SMTT(30), <1>u, <1>1, <1>s, NewAck
  <1>3. EarlyInv' BY ZenonT(60), <1>u, <1>s DEF IndInv, EarlyInv, EntryOK
  <1>4. ReceiveBufferInv' BY ZenonT(60), <1>u DEF IndInv, ReceiveBufferInv, Held
  <1>5. spinning = FALSE BY Zenon DEF IndInv, ControlInv
  <1>6. /\ rcvNXT' \in Int /\ rcvNXT <= rcvNXT' /\ rcvNXT' <= Sent /\ rcvNXT' <= rcvLBR + MAX_BUF_SIZE
        /\ rcvWND' = rcvLBR + MAX_BUF_SIZE - rcvNXT' /\ rcvLBR' = rcvLBR
        /\ spinning' = FALSE /\ asleep' \subseteq asleep
    BY SMTT(30), <1>u, <1>1, <1>5
  <1> QED BY ZenonT(60), <1>2, <1>3, <1>4, <1>6, ReceiveStep

\* A byte the reader holds after an accepted segment was held before, or is a
\* byte of the segment: then the receive buffer is as ReceiveBufferInv says.
LEMMA HeldStep ==
  ASSUME IndInv, NEW m, Overwritten(rcvBuffer', rcvBuffer, Bytes, rcvLBR, m.seq, m.len),
         rcvLBR' = rcvLBR,
         \A p \in Int : Held(p)' => Held(p) \/ p \in m.seq .. m.seq + m.len - 1
  PROVE  ReceiveBufferInv'
  <1>1. rcvBuffer' \in [Slots -> Bytes] BY Zenon DEF Overwritten
  <1>2. ASSUME NEW p \in rcvLBR .. rcvLBR + MAX_BUF_SIZE - 1, Held(p)'
        PROVE  rcvBuffer'[SequenceToBufferInd(p)] = p
    <2>0. p \in Int BY SMTT(30), Constants DEF IndInv, OrderInv
    <2>1. CASE p \in m.seq .. m.seq + m.len - 1 BY ZenonT(60), <2>1 DEF Overwritten
    <2>2. CASE p \notin m.seq .. m.seq + m.len - 1
      <3>1. Held(p) BY ZenonT(60), <2>0, <2>2, <1>2
      <3>2. rcvBuffer[SequenceToBufferInd(p)] = p BY ZenonT(60), <3>1 DEF IndInv, ReceiveBufferInv
      <3> QED BY ZenonT(60), <2>2, <3>2 DEF Overwritten
    <2> QED BY ZenonT(60), <2>1, <2>2
  <1> QED BY ZenonT(60), <1>1, <1>2 DEF ReceiveBufferInv

LEMMA EntrySetIs == EntrySet \subseteq [SequenceNum : Int, PayloadLen : Nat]
  BY Constants DEF EntrySet

LEMMA ReceiveInOrderInv ==
  ASSUME IndInv, ReceiveFrame, NEW m \in segs, ReceiveInOrder(m)
  PROVE  IndInv'
  <1> DEFINE q == EarlyArrivalQueue
             next == rcvNXT + m.len
  <1>c. /\ Overwritten(rcvBuffer', rcvBuffer, Bytes, rcvLBR, m.seq, m.len)
        /\ spinning' = FALSE /\ asleep' \subseteq asleep
        /\ SendAck(rcvNXT', rcvWND') /\ rcvLBR' = rcvLBR
    BY Zenon, ReceiveCopyIs DEF ReceiveInOrder
  <1>m. /\ Copied(m) = m.len /\ Fits(m)
        /\ m.seq \in Int /\ m.len \in 1 .. MSS_DATA /\ m.len \in Nat
        /\ m.seq + m.len <= rcvLBR + MAX_BUF_SIZE /\ m.seq + m.len <= Sent
    BY Zenon, SegmentFits DEF ReceiveInOrder, ReceiveCopy
  <1>u. /\ m.seq = rcvNXT
        /\ rcvNXT' = AckNumAfter(q, next)
        /\ rcvWND' = Sub(rcvWND, rcvNXT' - rcvNXT)
        /\ EarlyArrivalQueue' = QueueAfter(q, next)
    BY Zenon, <1>m DEF ReceiveInOrder
  <1>n. next \in Int /\ rcvNXT < next /\ next <= Sent /\ next <= rcvLBR + MAX_BUF_SIZE
    BY SMTT(30), <1>m, <1>u, Constants
  <1>q. q \in Seq(EntrySet) /\ \A i \in 1 .. Len(q) : EntryOK(q[i])
    BY Zenon DEF IndInv, EarlyInv
  <1> HIDE DEF next
  <1>a. /\ rcvNXT' \in Int /\ rcvNXT' >= next
        /\ rcvNXT' = next \/ \E i \in 1 .. Len(q) : rcvNXT' = EndOf(q[i])
        /\ \A p \in Int : next <= p /\ p < rcvNXT' =>
              \E i \in 1 .. Len(q) : q[i].SequenceNum <= p /\ p < EndOf(q[i])
        /\ q' \in Seq(EntrySet)
        /\ \A j \in 1 .. Len(q') : \E i \in 1 .. Len(q) : q'[j] = q[i]
    <2>1. Merged(q, EntrySet, next, AckNumAfter(q, next), QueueAfter(q, next))
      <3>1. next \in Int BY Zenon, <1>n
      <3>2. q \in Seq(EntrySet) BY ZenonT(60), <1>q
      <3> HIDE DEF q
      <3> QED BY ZenonT(60), <3>1, <3>2, EntrySetIs, UpdateAckNumIs
    <2>2. Merged(q, EntrySet, next, rcvNXT', q') BY ZenonT(60), <2>1, <1>u
    <2> QED BY ZenonT(60), <2>2 DEF Merged
  <1>1. rcvNXT' <= Sent /\ rcvNXT' <= rcvLBR + MAX_BUF_SIZE
    BY ZenonT(60), <1>a, <1>n, <1>q DEF EntryOK
  <1>2. /\ rcvNXT \in Int /\ rcvLBR \in Int /\ rcvLBR <= rcvNXT
        /\ rcvWND = rcvLBR + MAX_BUF_SIZE - rcvNXT /\ rcvNXT <= rcvNXT'
    <2>1. rcvNXT' \in Int /\ rcvNXT <= rcvNXT' BY <1>a, <1>n, ReceivePointers
    <2> QED BY Zenon, <2>1, ReceivePointers
  <1>3. rcvWND' = rcvLBR + MAX_BUF_SIZE - rcvNXT'
    <2>1. rcvNXT' \in Int BY Zenon, <1>a
    <2>2. rcvWND' = Sub(rcvWND, rcvNXT' - rcvNXT) BY Zenon, <1>u
    <2> QED BY SMTT(30), <2>1, <2>2, <1>1, <1>2, WindowAfter
  <1>s. UNCHANGED <<Sent, sndUNA, sndWND>> BY Zenon DEF Sent, ReceiveFrame, writerSide, sndVars, sendVars
  <1>4. AckInv' BY ZenonT(60), <1>1, <1>2, <1>3, <1>a, <1>c, <1>s, NewAck
  <1>5. EarlyInv' BY ZenonT(60), <1>a, <1>q, <1>s, <1>c DEF EarlyInv, EntryOK
  <1>6. ReceiveBufferInv'
    <2>1. ASSUME NEW p \in Int, Held(p)'
          PROVE  Held(p) \/ p \in m.seq .. m.seq + m.len - 1
      <3>1. CASE p < rcvNXT'
        <4>1. CASE p < rcvNXT BY Zenon, <4>1 DEF Held
        <4>2. CASE rcvNXT <= p /\ p < next BY SMTT(30), <4>2, <1>m, <1>u DEF next
        <4>3. CASE next <= p BY ZenonT(60), <3>1, <4>3, <1>a DEF Held, Covers
        <4> QED BY SMTT(30), <4>1, <4>2, <4>3, <1>2, <1>n
      <3>2. CASE ~ (p < rcvNXT')
        <4>1. PICK j \in 1 .. Len(q') : Covers(q'[j], p) BY ZenonT(60), <2>1, <3>2 DEF Held, Covers, EndOf
        <4>2. PICK i \in 1 .. Len(q) : q'[j] = q[i] BY ZenonT(60), <1>a
        <4> QED BY ZenonT(60), <4>1, <4>2 DEF Held
      <3> QED BY ZenonT(60), <3>1, <3>2
    <2> QED BY ZenonT(60), <2>1, <1>c, HeldStep
  <1> QED BY Zenon, <1>1, <1>2, <1>3, <1>4, <1>5, <1>6, <1>a, <1>c, ReceiveStep

LEMMA ReceiveEarlyInv ==
  ASSUME IndInv, ReceiveFrame, NEW m \in segs, ReceiveEarly(m)
  PROVE  IndInv'
  <1> DEFINE q == EarlyArrivalQueue
  <1>c. /\ Overwritten(rcvBuffer', rcvBuffer, Bytes, rcvLBR, m.seq, m.len)
        /\ spinning' = FALSE /\ asleep' \subseteq asleep
        /\ SendAck(rcvNXT', rcvWND') /\ rcvLBR' = rcvLBR
    BY ZenonT(60), ReceiveCopyIs DEF ReceiveEarly
  <1>m. /\ Fits(m) /\ m.seq \in Int /\ m.len \in 1 .. MSS_DATA /\ m.len \in Nat
        /\ FirstByte <= m.seq
        /\ m.seq + m.len <= rcvLBR + MAX_BUF_SIZE /\ m.seq + m.len <= Sent
    BY Zenon, SegmentFits DEF ReceiveEarly, ReceiveCopy
  <1>e. PICK e : e = Entry(m.seq, m.len) BY Zenon
  <1>u. EarlyArrivalQueue' = Push(q, e) /\ UNCHANGED <<rcvNXT, rcvWND>>
    BY ZenonT(60), <1>m, <1>e DEF ReceiveEarly
  <1>1. /\ rcvNXT \in Int /\ rcvLBR \in Int /\ rcvNXT <= Sent
        /\ rcvNXT <= rcvLBR + MAX_BUF_SIZE
        /\ rcvWND = rcvLBR + MAX_BUF_SIZE - rcvNXT
    BY Zenon, ReceivePointers
  <1>s. UNCHANGED <<Sent, sndUNA, sndWND>> BY Zenon DEF Sent, ReceiveFrame, writerSide, sndVars, sendVars
  <1>2. e \in EntrySet /\ EntryOK(e) /\ e.SequenceNum = m.seq /\ EndOf(e) = m.seq + m.len
    <2>1. Sent \in Int /\ Sent <= LastSeq BY Zenon, ReceivePointers
    <2>2. e.SequenceNum = m.seq /\ EndOf(e) = m.seq + m.len BY ZenonT(60), <1>e DEF Entry, EndOf
    <2>3. m.seq \in FirstByte .. LastSeq BY SMTT(30), <1>m, <2>1, Constants
    <2>4. e \in EntrySet BY ZenonT(60), <1>e, <1>m, <2>3 DEF Entry, EntrySet
    <2> QED BY ZenonT(60), <2>2, <2>4, <1>m DEF EntryOK
  <1>q. q \in Seq(EntrySet) /\ \A i \in 1 .. Len(q) : EntryOK(q[i])
    BY Zenon DEF IndInv, EarlyInv
  <1>p. /\ q' \in Seq(EntrySet)
        /\ \A j \in 1 .. Len(q') : q'[j] = e \/ \E i \in 1 .. Len(q) : q'[j] = q[i]
    <2>1. Pushed(q, EntrySet, e, Push(q, e))
      <3>1. e \in EntrySet BY ZenonT(60), <1>2
      <3>2. q \in Seq(EntrySet) BY ZenonT(60), <1>q
      <3> HIDE DEF q
      <3> QED BY ZenonT(60), <3>1, <3>2, PushIs
    <2>2. Pushed(q, EntrySet, e, q') BY ZenonT(60), <2>1, <1>u
    <2> QED BY ZenonT(60), <2>2 DEF Pushed
  <1>3. AckInv' BY SMTT(30), <1>1, <1>u, <1>c, <1>s, NewAck
  <1>4. EarlyInv' BY ZenonT(60), <1>p, <1>q, <1>2, <1>s, <1>c DEF EarlyInv, EntryOK
  <1>5. ReceiveBufferInv'
    <2>1. ASSUME NEW p \in Int, Held(p)'
          PROVE  Held(p) \/ p \in m.seq .. m.seq + m.len - 1
      <3>1. CASE p < rcvNXT BY ZenonT(60), <3>1 DEF Held
      <3>2. CASE ~ (p < rcvNXT)
        <4>1. PICK j \in 1 .. Len(q') : Covers(q'[j], p) BY ZenonT(60), <2>1, <3>2, <1>u DEF Held, Covers, EndOf
        <4>2. CASE q'[j] = e
          <5>1. Covers(e, p) BY ZenonT(60), <4>1, <4>2
          <5> QED BY <5>1, <1>2, <1>m DEF Covers
        <4>3. CASE \E i \in 1 .. Len(q) : q'[j] = q[i] BY Zenon, <4>1, <4>3 DEF Held
        <4> QED BY ZenonT(60), <4>2, <4>3, <1>p
      <3> QED BY ZenonT(60), <3>1, <3>2
    <2> QED BY ZenonT(60), <2>1, <1>c, HeldStep
  <1>6. /\ rcvNXT' \in Int /\ rcvNXT <= rcvNXT' /\ rcvNXT' <= Sent /\ rcvNXT' <= rcvLBR + MAX_BUF_SIZE
        /\ rcvWND' = rcvLBR + MAX_BUF_SIZE - rcvNXT'
    BY <1>u, <1>1
  <1> QED BY ZenonT(60), <1>3, <1>4, <1>5, <1>6, <1>c, ReceiveStep

LEMMA ReceiveDataInv ==
  ASSUME IndInv, NEW m \in segs, ReceiveData(m)
  PROVE  IndInv'
  <1>1. ReceiveFrame
    <2>1. dups \in 0 .. MaxDups BY Zenon DEF IndInv, ControlInv
    <2>2. dups < MaxDups => dups + 1 \in 0 .. MaxDups BY <2>1, Constants
    <2> QED BY ZenonT(60), <2>1, <2>2 DEF ReceiveData, Delivered, ReceiveFrame
  <1> QED BY ZenonT(60), <1>1, ReceiveRejectInv, ReceiveInOrderInv, ReceiveEarlyInv DEF ReceiveData

=============================================================================
