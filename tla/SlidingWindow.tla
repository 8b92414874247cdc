--------------------------- MODULE SlidingWindow ---------------------------
(***************************************************************************)
(* One direction of an ESTABLISHED connection: the TCB of the side that    *)
(* writes (Write, the Send goroutine and its zero-window probe, waitTimeout*)
(* and the acknowledgment half of Receive), the TCB of the side that reads *)
(* (the data half of Receive, the early arrival queue and Read), and a     *)
(* network that loses, reorders and, MaxDups times, duplicates packets.    *)
(*                                                                         *)
(* A critical section of TCBLock is one action. Send and Read also work on *)
(* the TCB without the lock; every such section is an action of its own.   *)
(* What an unsynchronised update may lose is a choice of its action, made  *)
(* only if the race is in the constant Races.                              *)
(***************************************************************************)
EXTENDS RingBuffer, EarlyArrivals

CONSTANTS MSS_DATA,             \* largest payload of a segment
          MAX_RETRANSMISSIONS,  \* retransmissions before the connection is given up
          ISS,                  \* the writer's initial sequence number
          Word,                 \* 2^32: sequence arithmetic is modulo Word
          MaxBytes,             \* bound: bytes the application writes in all
          MaxDups,              \* bound: packets the network duplicates in all
          Races                 \* the data races whose bad outcome may happen

RaceNames == {"readWindow", "queueAppend", "lateProbe"}

FirstByte == ISS + 1
LastSeq   == ISS + 1 + MaxBytes

ASSUME WindowAssumption ==
    /\ MSS_DATA \in 1 .. MAX_BUF_SIZE
    /\ MAX_RETRANSMISSIONS \in Nat
    /\ ISS \in Nat
    /\ MaxBytes \in Nat
    /\ Word \in Nat /\ Word > LastSeq + 2 * MAX_BUF_SIZE
    /\ MaxDups \in Nat
    /\ Races \subseteq RaceNames

VARIABLES
    sndUNA, sndNXT, sndWND, sndLBW, sndBuffer,
    RetransmissionQueue, RetransmitCounter,
    TimeoutCancelled,   \* waitTimeout gave up: State = CLOSED, TCB out of the table
    lockLeaked,         \* Write returned without unlocking TCBLock
    sendPC,             \* where the Send goroutine is
    toSend,             \* Send: amountToSend - amountSent
    seenQueue,          \* Send: the queue append loaded, if that race may happen
    writePC, toWrite,   \* Write: where it is, amountToWrite - amountWritten
    asleep,             \* the threads in a Cond.Wait, not signalled yet
    rcvNXT, rcvWND, rcvLBR, rcvBuffer, EarlyArrivalQueue,
    reading,            \* Read: bytesToRead of the unlocked copy, 0 outside it
    seenWND,            \* Read: the RCV.WND its += loaded, if that race may happen
    spinning,           \* Receive is in its copy loop for ever, holding TCBLock
    got,                \* the bytes handed to the reading application
    segs, acks,         \* packets in flight in either direction
    dups                \* how many copies the network has made

sndVars   == <<sndUNA, sndNXT, sndWND, sndLBW, sndBuffer>>
rtqVars   == <<RetransmissionQueue, RetransmitCounter>>
connVars  == <<TimeoutCancelled, lockLeaked>>
sendVars  == <<sendPC, toSend, seenQueue>>
writeVars == <<writePC, toWrite>>
rcvVars   == <<rcvNXT, rcvWND, rcvLBR, rcvBuffer, EarlyArrivalQueue, spinning>>
readVars  == <<reading, seenWND, got>>
netVars   == <<segs, acks, dups>>

writerSide == <<sndVars, rtqVars, connVars, sendVars, writeVars>>
readerSide == <<rcvVars, readVars>>
vars == <<writerSide, readerSide, asleep, netVars>>

Sub(a, b) == (a - b) % Word     \* uint32 subtraction

Segment(seq, len, data) == [seq |-> seq, len |-> len, data |-> data]
Ack(num, wnd) == [ack |-> num, wnd |-> wnd]

\* The handshake is over. The side that called Connect has taken UNA from the
\* SYN-ACK; the accepting side still has it at its own SYN.
Init ==
    /\ sndUNA \in {ISS, FirstByte}
    /\ sndNXT = FirstByte /\ sndLBW = FirstByte
    /\ sndWND = MAX_BUF_SIZE
    /\ sndBuffer = [slot \in Slots |-> 0]
    /\ RetransmissionQueue = <<>> /\ RetransmitCounter = 0
    /\ TimeoutCancelled = FALSE /\ lockLeaked = FALSE
    /\ sendPC = "loop" /\ toSend = 0 /\ seenQueue = <<>>
    /\ writePC = "idle" /\ toWrite = 0
    /\ asleep = {}
    /\ rcvNXT = FirstByte /\ rcvLBR = FirstByte /\ rcvWND = MAX_BUF_SIZE
    /\ rcvBuffer = [slot \in Slots |-> 0]
    /\ EarlyArrivalQueue = <<>>
    /\ spinning = FALSE
    /\ reading = 0 /\ seenWND = 0
    /\ got = [p \in FirstByte .. FirstByte - 1 |-> p]
    /\ segs = {} /\ acks = {} /\ dups = 0

-----------------------------------------------------------------------------
(* Locks and condition variables of the writing TCB.                       *)

\* Send holds TCBLock while it waits for the probe goroutine at cancelChan.
LockFree == ~lockLeaked /\ sendPC # "cancel"

\* The condition variable Send sleeps on at each of its Wait calls.
SendSleepsOn(cond) ==
    \/ cond = "SendBlockedCond"  /\ sendPC \in {"data1", "data2"}
    \/ cond = "ZeroBlockedCond"  /\ sendPC = "zero"
    \/ cond = "WriteBlockedCond" /\ sendPC = "window"

Woken(conds) ==
    {t \in asleep : \/ t = "send" /\ \E c \in conds : SendSleepsOn(c)
                    \/ t = "write" /\ "WriteBlockedCond" \in conds}

-----------------------------------------------------------------------------
(* Write.                                                                  *)

WriteCall(n) ==
    /\ writePC = "idle"
    /\ ~TimeoutCancelled
    /\ sndLBW + n <= LastSeq
    /\ writePC' = "top" /\ toWrite' = n
    /\ UNCHANGED <<sndVars, rtqVars, connVars, sendVars, readerSide, asleep, netVars>>

\* Mutation of WriteCopy: takes the free space from NXT instead of UNA.
WriteCopyFromNXT ==
    LET n == Min2(MAX_BUF_SIZE - Sub(sndLBW, sndNXT), toWrite)
    IN  /\ sndBuffer' = CopyIn(sndBuffer, [p \in sndLBW .. sndLBW + n - 1 |-> p])
        /\ sndLBW' = sndLBW + n
        /\ toWrite' = toWrite - n
        /\ writePC' = IF toWrite = n THEN "idle" ELSE "top"
        /\ asleep' = asleep \ Woken({"SendBlockedCond"})
        /\ UNCHANGED <<sndUNA, sndNXT, sndWND, rtqVars, connVars, sendVars, readerSide, netVars>>

WriteCopy ==
    LET n == Min2(MAX_BUF_SIZE - Sub(sndLBW, sndUNA), toWrite)
    IN  /\ sndBuffer' = CopyIn(sndBuffer, [p \in sndLBW .. sndLBW + n - 1 |-> p])
        /\ sndLBW' = sndLBW + n
        /\ toWrite' = toWrite - n
        /\ writePC' = IF toWrite = n THEN "idle" ELSE "top"
        /\ asleep' = asleep \ Woken({"SendBlockedCond"})
        /\ UNCHANGED <<sndUNA, sndNXT, sndWND, rtqVars, connVars, sendVars, readerSide, netVars>>

BufferFull == Sub(sndLBW, sndUNA) = MAX_BUF_SIZE

WriteSleep ==
    /\ writePC' = "space" /\ asleep' = asleep \cup {"write"}
    /\ UNCHANGED <<sndVars, rtqVars, connVars, sendVars, toWrite, readerSide, netVars>>

\* an error return; at the top of the loop it keeps TCBLock
WriteError(leak) ==
    /\ writePC' = "idle" /\ toWrite' = 0 /\ lockLeaked' = leak
    /\ UNCHANGED <<sndVars, rtqVars, TimeoutCancelled, sendVars, readerSide, asleep, netVars>>

WriteSome == (BufferFull /\ WriteSleep) \/ (~BufferFull /\ WriteCopy)

WriteTop ==
    /\ writePC = "top" /\ LockFree
    /\ (TimeoutCancelled /\ WriteError(TRUE)) \/ (~TimeoutCancelled /\ WriteSome)

WriteWoken ==
    /\ writePC = "space" /\ "write" \notin asleep /\ LockFree
    /\ (TimeoutCancelled /\ WriteError(FALSE)) \/ (~TimeoutCancelled /\ WriteSome)

-----------------------------------------------------------------------------
(* The Send goroutine. CControlEnabled is false, so CWND is MAX_BUF_SIZE   *)
(* and Min(WND, CWND) is WND.                                              *)

SendSleep(pc) ==
    /\ sendPC' = pc /\ asleep' = asleep \cup {"send"}
    /\ UNCHANGED <<sndNXT, toSend, seenQueue>>

SendGoto(pc) ==
    /\ sendPC' = pc
    /\ UNCHANGED <<sndNXT, toSend, seenQueue, asleep>>

SeenQueue(queue) == IF "queueAppend" \in Races THEN queue ELSE <<>>

\* Mutation of SendPlan: sends all that is written, whatever the window.
SendPlanAll ==
    /\ sendPC' = "emit"
    /\ toSend' = Sub(sndLBW, sndNXT)
    /\ seenQueue' = SeenQueue(RetransmissionQueue)
    /\ UNCHANGED <<sndNXT, asleep>>

\* line 652: the window is read again after the wait for data
SendPlan ==
    /\ sendPC' = "emit"
    /\ toSend' = Min2(Sub(sndUNA + sndWND, sndNXT), Sub(sndLBW, sndNXT))
    /\ seenQueue' = SeenQueue(RetransmissionQueue)
    /\ UNCHANGED <<sndNXT, asleep>>

\* wait for data inside the loop over the window ...
SendInner ==
    \/ sndNXT = sndLBW /\ SendSleep("data1")
    \/ sndNXT # sndLBW /\ SendPlan

SendFullWindow ==
    \/ /\ Sub(sndNXT, sndUNA) = sndWND /\ sndWND # 0
       /\ SendSleep("window")
    \/ /\ ~(Sub(sndNXT, sndUNA) = sndWND /\ sndWND # 0)
       /\ SendGoto("loop")

SendZeroDone ==
    /\ sendPC' = "cancel" /\ sndNXT' = sndNXT + 1
    /\ UNCHANGED <<toSend, seenQueue, asleep>>

SendZero ==
    \/ sndWND = 0 /\ SendSleep("zero")
    \/ sndWND # 0 /\ SendZeroDone

\* ... and after it, then probe a zero window or wait for acknowledgments
SendOuter ==
    \/ sndNXT = sndLBW /\ SendSleep("data2")
    \/ sndNXT # sndLBW /\ sndWND = 0 /\ sndLBW > sndNXT /\ SendZero
    \/ sndNXT # sndLBW /\ ~(sndWND = 0 /\ sndLBW > sndNXT) /\ SendFullWindow

SendLocked ==
    /\ "send" \notin asleep /\ LockFree
    /\ \/ sendPC = "loop" /\ Sub(sndNXT, sndUNA) < sndWND /\ SendInner
       \/ sendPC = "loop" /\ ~(Sub(sndNXT, sndUNA) < sndWND) /\ SendOuter
       \/ sendPC = "data1" /\ SendInner
       \/ sendPC = "data2" /\ SendOuter
       \/ sendPC = "zero" /\ SendZero
       \/ sendPC = "window" /\ SendFullWindow
    /\ UNCHANGED <<sndUNA, sndWND, sndLBW, sndBuffer, rtqVars, connVars, writeVars, readerSide, netVars>>

\* The rendezvous on cancelChan ends the probe goroutine.
SendCancel ==
    /\ sendPC = "cancel"
    /\ SendFullWindow
    /\ UNCHANGED <<sndUNA, sndWND, sndLBW, sndBuffer, rtqVars, connVars, writeVars, readerSide, netVars>>

\* One segment, built and sent without the lock. The append to the queue may
\* lose a removal made since it loaded the queue, or be lost to it.
SendEmit ==
    /\ sendPC = "emit"
    /\ LET n   == Min2(toSend, MSS_DATA)
           seg == Entry(sndNXT, n)
           appended == {Append(RetransmissionQueue, seg)} \cup
                       IF seenQueue # RetransmissionQueue /\ "queueAppend" \in Races
                       THEN {Append(seenQueue, seg), RetransmissionQueue} ELSE {}
       IN  /\ RetransmissionQueue' \in appended
           /\ segs' = segs \cup {Segment(sndNXT, n, CopyOut(sndBuffer, sndNXT, n))}
    /\ sendPC' = "advance"
    /\ UNCHANGED <<sndVars, RetransmitCounter, connVars, toSend, seenQueue, writeVars,
                   readerSide, asleep, acks, dups>>

\* NXT moves only after the segment is on its way. Once waitTimeout has
\* returned nobody receives from RTOTimeoutChan: Send stays there, at once if
\* the channel has no buffer (Connect), when it is full on the accepting side.
SendAdvance ==
    /\ sendPC = "advance"
    /\ LET n == Min2(toSend, MSS_DATA)
       IN  /\ sndNXT' = sndNXT + n
           /\ toSend' = toSend - n
           /\ seenQueue' = SeenQueue(RetransmissionQueue)
           /\ sendPC' \in {IF toSend > n THEN "emit" ELSE "loop"} \cup
                          IF TimeoutCancelled THEN {"stuck"} ELSE {}
    /\ UNCHANGED <<sndUNA, sndWND, sndLBW, sndBuffer, rtqVars, connVars, writeVars,
                   readerSide, asleep, netVars>>

\* The probe goroutine: one byte at NXT on every tick. It reads NXT without
\* the lock; a tick that wins the select against cancelChan reads the new NXT.
ProbeTicks == {"zero"} \cup IF "lateProbe" \in Races THEN {"cancel"} ELSE {}

Probe ==
    /\ sendPC \in ProbeTicks
    /\ segs' = segs \cup {Segment(sndNXT, 1, CopyOut(sndBuffer, sndNXT, 1))}
    /\ UNCHANGED <<writerSide, readerSide, asleep, acks, dups>>

-----------------------------------------------------------------------------
(* waitTimeout. The timer may fire at any time.                            *)

MayRetransmit == RetransmitCounter < MAX_RETRANSMISSIONS

Retransmit ==
    /\ LockFree /\ ~TimeoutCancelled /\ RetransmissionQueue # <<>>
    /\ MayRetransmit
    /\ RetransmitCounter' = RetransmitCounter + 1
    /\ LET e == Head(RetransmissionQueue)
       IN  segs' = segs \cup {Segment(e.SequenceNum, e.PayloadLen,
                                CopyOut(sndBuffer, e.SequenceNum, e.PayloadLen))}
    /\ UNCHANGED <<sndVars, RetransmissionQueue, connVars, sendVars, writeVars,
                   readerSide, asleep, acks, dups>>

\* Mutation of GiveUpWakes: leaves a blocked Write asleep.
GiveUpWakesSend == {"SendBlockedCond"}

GiveUpWakes == {"WriteBlockedCond", "SendBlockedCond"}

GiveUp ==
    /\ LockFree /\ ~TimeoutCancelled /\ RetransmissionQueue # <<>>
    /\ RetransmitCounter = MAX_RETRANSMISSIONS
    /\ TimeoutCancelled' = TRUE
    /\ asleep' = asleep \ Woken(GiveUpWakes)
    /\ UNCHANGED <<sndVars, rtqVars, lockLeaked, sendVars, writeVars, readerSide, netVars>>

-----------------------------------------------------------------------------
(* Receive, on the acknowledgments that reach the writer.                  *)

\* Mutation of AckRejected: accepts an acknowledgment older than UNA.
AckRejectedFuture(m) ==
    \/ m.wnd = 0 /\ m.ack > sndNXT
    \/ m.wnd # 0 /\ m.ack > sndUNA + sndWND /\ sndWND # 0

AckRejected(m) ==
    \/ m.wnd = 0 /\ (m.ack <= sndUNA \/ m.ack > sndNXT)
    \/ m.wnd # 0 /\ (m.ack <= sndUNA \/ (m.ack > sndUNA + sndWND /\ sndWND # 0))

\* Mutation of Acked: also drops the segment that starts at ackNum.
AckedOneMore(queue, ackNum) ==
    Max({k \in 0 .. Len(queue) : \A i \in 1 .. k : queue[i].SequenceNum <= ackNum})

\* removeFromRetransmissionQueue: how many leading segments start below ackNum
Acked(queue, ackNum) ==
    Max({k \in 0 .. Len(queue) : \A i \in 1 .. k : queue[i].SequenceNum < ackNum})

\* Mutation of AckWakes: a reopened window does not end the probing.
AckWakesWriters(m) == {"WriteBlockedCond"}

\* the condition variables an accepted acknowledgment signals
AckWakes(m) == {"WriteBlockedCond"} \cup IF m.wnd > 0 THEN {"ZeroBlockedCond"} ELSE {}

\* what a delivery leaves in flight: nothing, or a copy while copies are left
Delivered(m, before, after) ==
    \/ after = before \ {m} /\ UNCHANGED dups
    \/ after = before /\ dups < MaxDups /\ dups' = dups + 1

ReceiveAck(m) ==
    /\ m \in acks /\ LockFree
    /\ Delivered(m, acks, acks')
    /\ \/ /\ TimeoutCancelled \/ AckRejected(m)
          /\ UNCHANGED <<writerSide, asleep>>
       \/ /\ ~TimeoutCancelled /\ ~AckRejected(m)
          /\ LET k == Acked(RetransmissionQueue, m.ack)
             IN  /\ RetransmissionQueue' =
                        SubSeq(RetransmissionQueue, k + 1, Len(RetransmissionQueue))
                 /\ RetransmitCounter' = IF k = 0 THEN RetransmitCounter ELSE 0
          /\ sndWND' = m.wnd
          /\ sndUNA' = m.ack
          /\ asleep' = asleep \ Woken(AckWakes(m))
          /\ UNCHANGED <<sndNXT, sndLBW, sndBuffer, connVars, sendVars, writeVars>>
    /\ UNCHANGED <<readerSide, segs>>

-----------------------------------------------------------------------------
(* Receive, on the segments that reach the reader.                         *)

\* the window field of the header is 16 bits wide, as wide as a full buffer
SendAck(num, wnd) == acks' = acks \cup {Ack(num, wnd % (MAX_BUF_SIZE + 1))}

OutOfWindow(m) == m.seq < rcvNXT \/ m.seq >= rcvNXT + rcvWND

\* What the copy loop copies. When the buffer fills up before the payload is
\* used up it turns, TCBLock held, until a Read already past its unlock makes
\* room; without such a Read it turns for ever.
Copied(m) == Min2(Sub(MAX_BUF_SIZE, Sub(m.seq, rcvLBR)), m.len)
Fits(m) == Copied(m) = m.len

ReceiveReject(m) ==
    /\ OutOfWindow(m)
    /\ SendAck(rcvNXT, rcvWND)
    /\ UNCHANGED <<rcvVars, asleep>>

ReceiveCopy(m) ==
    /\ ~OutOfWindow(m)
    /\ Fits(m) \/ reading = 0
    /\ rcvBuffer' = CopyIn(rcvBuffer, Restrict(m.data, m.seq .. m.seq + Copied(m) - 1))
    /\ spinning' = ~Fits(m)
    /\ asleep' = IF Fits(m) THEN asleep \ {"read"} ELSE asleep
    /\ IF Fits(m) THEN SendAck(rcvNXT', rcvWND') ELSE UNCHANGED acks
    /\ UNCHANGED rcvLBR

\* Mutation of ReceiveInOrder: the merged early arrivals stay in the window.
ReceiveInOrderKeepWindow(m) ==
    /\ m.seq = rcvNXT
    /\ LET nextAck == rcvNXT + Copied(m)
       IN  /\ rcvNXT' = IF Fits(m) THEN AckNumAfter(EarlyArrivalQueue, nextAck) ELSE nextAck
           /\ rcvWND' = Sub(rcvWND, Copied(m))
           /\ EarlyArrivalQueue' = IF Fits(m) THEN QueueAfter(EarlyArrivalQueue, nextAck)
                                   ELSE EarlyArrivalQueue
    /\ ReceiveCopy(m)

ReceiveInOrder(m) ==
    /\ m.seq = rcvNXT
    /\ LET nextAck == rcvNXT + Copied(m)
       IN  /\ rcvNXT' = IF Fits(m) THEN AckNumAfter(EarlyArrivalQueue, nextAck) ELSE nextAck
           /\ rcvWND' = Sub(rcvWND, rcvNXT' - rcvNXT)
           /\ EarlyArrivalQueue' = IF Fits(m) THEN QueueAfter(EarlyArrivalQueue, nextAck)
                                   ELSE EarlyArrivalQueue
    /\ ReceiveCopy(m)

ReceiveEarly(m) ==
    /\ m.seq > rcvNXT
    /\ EarlyArrivalQueue' = IF Fits(m) THEN Push(EarlyArrivalQueue, Entry(m.seq, m.len))
                            ELSE EarlyArrivalQueue
    /\ UNCHANGED <<rcvNXT, rcvWND>>
    /\ ReceiveCopy(m)

ReceiveData(m) ==
    /\ m \in segs /\ ~spinning
    /\ Delivered(m, segs, segs')
    /\ ReceiveReject(m) \/ ReceiveInOrder(m) \/ ReceiveEarly(m)
    /\ UNCHANGED <<writerSide, readVars>>

-----------------------------------------------------------------------------
(* Read. The caller asks for any number of bytes.                          *)

ReadSleep ==
    /\ reading = 0 /\ "read" \notin asleep /\ ~spinning
    /\ rcvLBR = rcvNXT
    /\ asleep' = asleep \cup {"read"}
    /\ UNCHANGED <<writerSide, readerSide, netVars>>

\* Mutation of Readable: reads as much as the caller asks for.
ReadableAll(n) == n

\* bytesToRead
Readable(n) == Min2(n, Sub(rcvNXT, rcvLBR))

ReadBegin(n) ==
    /\ reading = 0 /\ "read" \notin asleep /\ ~spinning
    /\ rcvLBR # rcvNXT
    /\ reading' = Readable(n)
    /\ seenWND' = IF "readWindow" \in Races THEN rcvWND ELSE 0
    /\ UNCHANGED <<writerSide, rcvVars, got, asleep, netVars>>

\* The copy and both increments run without the lock. A Receive that changed
\* WND meanwhile may be overwritten, or may overwrite the increment.
ReadEnd ==
    /\ reading > 0
    /\ got' = [p \in FirstByte .. rcvLBR + reading - 1 |->
                  IF p < rcvLBR THEN got[p] ELSE rcvBuffer[SequenceToBufferInd(p)]]
    /\ rcvLBR' = rcvLBR + reading
    /\ rcvWND' \in {rcvWND + reading} \cup
                   IF "readWindow" \in Races /\ seenWND # rcvWND
                   THEN {seenWND + reading, rcvWND} ELSE {}
    /\ reading' = 0 /\ seenWND' = 0
    /\ UNCHANGED <<writerSide, rcvNXT, rcvBuffer, EarlyArrivalQueue, spinning, asleep, netVars>>

-----------------------------------------------------------------------------
Lose ==
    /\ \/ \E m \in segs : segs' = segs \ {m} /\ UNCHANGED acks
       \/ \E m \in acks : acks' = acks \ {m} /\ UNCHANGED segs
    /\ UNCHANGED <<writerSide, readerSide, asleep, dups>>

Next ==
    \/ \E n \in 1 .. MaxBytes : WriteCall(n)
    \/ WriteTop
    \/ WriteWoken
    \/ SendLocked
    \/ SendCancel
    \/ SendEmit
    \/ SendAdvance
    \/ Probe
    \/ Retransmit
    \/ GiveUp
    \/ \E m \in acks : ReceiveAck(m)
    \/ \E m \in segs : ReceiveData(m)
    \/ ReadSleep
    \/ \E n \in 1 .. MAX_BUF_SIZE : ReadBegin(n)
    \/ ReadEnd
    \/ Lose

Spec == Init /\ [][Next]_vars

(***************************************************************************)
(* Scheduling. The goroutines run, the timers and tickers fire, the reader *)
(* keeps reading, and a packet sent again and again gets through: the      *)
(* segment the reader waits for, a repeated one, and an acknowledgment the *)
(* writer can use.                                                         *)
(***************************************************************************)
Fairness ==
    /\ WF_vars(WriteTop \/ WriteWoken)
    /\ WF_vars(SendLocked \/ SendCancel \/ SendEmit \/ SendAdvance)
    /\ WF_vars(Probe)
    /\ WF_vars(Retransmit \/ GiveUp)
    /\ WF_vars(ReadEnd \/ \E n \in 1 .. MAX_BUF_SIZE : ReadBegin(n))
    /\ SF_vars(\E m \in segs : m.seq = rcvNXT /\ ReceiveData(m))
    /\ SF_vars(\E m \in segs : m.seq < rcvNXT /\ ReceiveData(m))
    /\ SF_vars(\E m \in acks : ~AckRejected(m) /\ ReceiveAck(m))

FairSpec == Spec /\ Fairness

-----------------------------------------------------------------------------
(* Properties.                                                             *)

Bytes == 0 .. LastSeq
AckSet == [ack : FirstByte .. LastSeq, wnd : 0 .. MAX_BUF_SIZE]
EntrySet == [SequenceNum : FirstByte .. LastSeq, PayloadLen : 1 .. MSS_DATA]

\* The type of every variable.
TypeOK ==
    /\ sndUNA \in ISS .. LastSeq /\ sndNXT \in FirstByte .. LastSeq
    /\ sndLBW \in FirstByte .. LastSeq /\ sndWND \in 0 .. MAX_BUF_SIZE
    /\ sndBuffer \in [Slots -> Bytes]
    /\ RetransmissionQueue \in Seq(EntrySet) /\ seenQueue \in Seq(EntrySet)
    /\ RetransmitCounter \in 0 .. MAX_RETRANSMISSIONS
    /\ TimeoutCancelled \in BOOLEAN /\ lockLeaked \in BOOLEAN /\ spinning \in BOOLEAN
    /\ sendPC \in {"loop", "data1", "data2", "zero", "cancel", "window", "emit", "advance", "stuck"}
    /\ toSend \in Nat
    /\ writePC \in {"idle", "top", "space"} /\ toWrite \in 0 .. MaxBytes
    /\ asleep \subseteq {"send", "write", "read"}
    /\ rcvNXT \in FirstByte .. LastSeq /\ rcvLBR \in FirstByte .. LastSeq
    /\ rcvWND \in 0 .. MAX_BUF_SIZE /\ seenWND \in 0 .. MAX_BUF_SIZE
    /\ rcvBuffer \in [Slots -> Bytes]
    /\ EarlyArrivalQueue \in Seq(EntrySet)
    /\ reading \in 0 .. MAX_BUF_SIZE
    /\ got \in [FirstByte .. rcvLBR - 1 -> Bytes]
    /\ \A m \in segs : /\ m.seq \in FirstByte .. LastSeq
                       /\ m.len \in 1 .. MSS_DATA
                       /\ m.data \in [m.seq .. m.seq + m.len - 1 -> Bytes]
                       /\ m = Segment(m.seq, m.len, m.data)
    /\ acks \subseteq AckSet
    /\ dups \in 0 .. MaxDups

\* The window Receive advertises is exactly the free space of the receive
\* buffer, although Receive and Read each update WND on their own.
WindowConserved == rcvWND = MAX_BUF_SIZE - (rcvNXT - rcvLBR)

\* What Read hands to the application is what Write was given, byte by byte:
\* nothing is lost, repeated, reordered or taken from a reused buffer slot.
BytesInOrder == \A p \in DOMAIN got : got[p] = p

\* No segment in flight starts inside the receive window and ends outside it,
\* so the copy loop of Receive never runs out of room with TCBLock held.
SegmentsFit == \A m \in segs : ~OutOfWindow(m) => Fits(m)

\* Whenever Send evaluates NXT-UNA or plans what to send, UNA <= NXT and NXT
\* stays inside the peer's window: the uint32 differences never wrap.
SendInWindow ==
    sendPC \in {"loop", "data1", "data2", "window", "emit", "cancel"} =>
        /\ sndUNA <= sndNXT
        /\ sndNXT + (IF sendPC = "emit" THEN toSend ELSE 0) <= sndUNA + sndWND

\* The unconditional NXT += 1 after zero-window probing is right: the window
\* reopens exactly when the probed byte, and nothing else, was acknowledged.
ProbeAccounted ==
    sendPC = "zero" => sndUNA = IF sndWND = 0 THEN sndNXT ELSE sndNXT + 1

Covers(e, p) == e.SequenceNum <= p /\ p < EndOf(e)

\* Every byte sent and not acknowledged is in the retransmission queue, and
\* its segment can be rebuilt from the send buffer (README, "Handling
\* Timeout/Retransmissions").
Retransmittable ==
    /\ \A p \in FirstByte .. sndNXT - 1 : p >= sndUNA => \E i \in 1 .. Len(RetransmissionQueue) :
          Covers(RetransmissionQueue[i], p)
    /\ \A i \in 1 .. Len(RetransmissionQueue) :
          \A p \in RetransmissionQueue[i].SequenceNum .. EndOf(RetransmissionQueue[i]) - 1 :
             sndBuffer[SequenceToBufferInd(p)] = p

\* RCV.NXT is past every segment that could be merged: no early arrival
\* starts at or before it (README, "Early Arrivals": the highest ACK num), as
\* long as the network duplicates no packet.
HighestAck ==
    dups = 0 => \A i \in 1 .. Len(EarlyArrivalQueue) : EarlyArrivalQueue[i].SequenceNum > rcvNXT

\* The right edge of the send window never moves back, whatever order the
\* acknowledgments arrive in.
WindowNeverShrinks == [][sndUNA' + sndWND' >= sndUNA + sndWND]_vars

\* Write, Send, Receive and Read together are a bounded FIFO byte stream.
Stream == INSTANCE ByteStream WITH First <- FirstByte, Capacity <- 2 * MAX_BUF_SIZE,
                                   written <- sndLBW, read <- rcvLBR, taken <- got
ImplementsStream == Stream!StreamSpec

\* Every byte written is read in the end and Send goes on behind it, unless
\* waitTimeout gives up: no wakeup, window update or retransmission the transfer
\* needs is missing, and Send is not left probing for a byte that has arrived.
AllRead ==
    \A p \in FirstByte .. LastSeq - 1 :
        (sndLBW > p) ~> ((rcvLBR > p /\ sndNXT > p) \/ TimeoutCancelled)

\* A Write call ends: it fits its bytes or learns that the connection died.
WriteReturns == (writePC # "idle") ~> (writePC = "idle")

-----------------------------------------------------------------------------
(* What a comment says and the race of Read with Receive breaks.           *)

\* tcp_handler_core.go:335: "If there is no more space remaining in the buffer,
\* then block until data has been read by the application layer": Receive gives
\* the reader the lock it needs to make that space.
CopyLoopEnds == ~spinning
=============================================================================
