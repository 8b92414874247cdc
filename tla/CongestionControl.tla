------------------------- MODULE CongestionControl -------------------------
(***************************************************************************)
(* TCP Tahoe on the writing TCB of an ESTABLISHED connection: the user     *)
(* enables it at any moment (SetCCForSocket), and again; from then on the  *)
(* acknowledgments open the congestion window, the third duplicate of one  *)
(* or a timeout closes it, and Send keeps to the smaller of the two        *)
(* windows. SlidingWindow has the same threads without it.                 *)
(*                                                                         *)
(* The peer reads at once, so it advertises MAX_BUF_SIZE all the time and  *)
(* nothing probes. What it writes itself (ChatterMax segments) repeats its *)
(* acknowledgment number. Bytes are only counted. The model ends when      *)
(* waitTimeout gives up.                                                   *)
(***************************************************************************)
EXTENDS RingBuffer, EarlyArrivals

CONSTANTS MSS_DATA, MAX_RETRANSMISSIONS,
          INIT_THRESHOLD,   \* the first SSTHRESH
          Word,             \* 2^32: sequence arithmetic is modulo Word
          MaxBytes,         \* bound: bytes the application writes in all
          ChatterMax,       \* bound: segments the peer writes in all
          LossMax           \* bound: packets the network loses in all

INIT_CWND == MSS_DATA
FirstByte == 1
LastSeq == FirstByte + MaxBytes

ASSUME CongestionAssumption ==
    /\ MSS_DATA \in 1 .. MAX_BUF_SIZE /\ INIT_THRESHOLD \in Nat
    /\ {MAX_RETRANSMISSIONS, MaxBytes, ChatterMax, LossMax} \subseteq Nat
    /\ Word \in Nat /\ Word > LastSeq + 2 * MAX_BUF_SIZE

VARIABLES tcb,          \* the TCB that writes, and its Send goroutine
          setting,      \* SetCCForSocket: not called, past its Store, returned
          rcv,          \* the TCB that reads
          segs, acks,   \* bags of packets in flight
          lost          \* how many packets the network has lost

vars == <<tcb, setting, rcv, segs, acks, lost>>

Sub(a, b) == (a - b) % Word
WND == MAX_BUF_SIZE
Window(t) == Min2(WND, t.CWND)

\* Packets in flight are a bag: how often each is there. (Bags has it, too; its
\* other definitions slow the proofs down.)
NoPackets == [m \in {} |-> 0]
InFlight(bag, m) ==
    [x \in DOMAIN bag \cup {m} |->
        (IF x \in DOMAIN bag THEN bag[x] ELSE 0) + (IF x = m THEN 1 ELSE 0)]
Without(bag, m) ==
    IF bag[m] = 1 THEN [x \in DOMAIN bag \ {m} |-> bag[x]] ELSE [bag EXCEPT ![m] = @ - 1]

\* SSTHRESH, CurrentAck and CurrentAckFreq start as the zero values of a TCB
Init ==
    /\ tcb = [UNA |-> FirstByte, NXT |-> FirstByte, LBW |-> FirstByte,
              CWND |-> MAX_BUF_SIZE, SSTHRESH |-> 0, CControlEnabled |-> FALSE,
              CurrentAck |-> 0, CurrentAckFreq |-> 0,
              RetransmissionQueue |-> <<>>, RetransmitCounter |-> 0,
              TimeoutCancelled |-> FALSE,
              send |-> "loop", asleep |-> FALSE, toSend |-> 0]
    /\ setting = "no"
    /\ rcv = [NXT |-> FirstByte, EarlyArrivalQueue |-> <<>>, chatter |-> 0]
    /\ segs = NoPackets /\ acks = NoPackets /\ lost = 0

-----------------------------------------------------------------------------
(* SetCCForSocket.                                                         *)

\* CControlEnabled is set before the lock is taken. The user may give the command
\* again, and so put the windows back to their first values.
EnableCC ==
    /\ setting # "stored" /\ ~tcb.TimeoutCancelled
    /\ setting' = "stored"
    /\ tcb' = [tcb EXCEPT !.CControlEnabled = TRUE]
    /\ UNCHANGED <<rcv, segs, acks, lost>>

SetCCForSocket ==
    /\ setting = "stored" /\ ~tcb.TimeoutCancelled
    /\ setting' = "done"
    /\ tcb' = [tcb EXCEPT !.CWND = INIT_CWND, !.SSTHRESH = INIT_THRESHOLD]
    /\ UNCHANGED <<rcv, segs, acks, lost>>

-----------------------------------------------------------------------------
(* The congestion window.                                                  *)

\* slow start below SSTHRESH, congestion avoidance above it
UpdateCWNDWindow(t) ==
    [t EXCEPT !.CWND = @ + IF @ < t.SSTHRESH THEN MSS_DATA ELSE (MSS_DATA * MSS_DATA) \div @]

\* Mutation of AfterLoss: restarts from the halved window.
AfterLossHalved(t) == [t EXCEPT !.SSTHRESH = t.CWND \div 2, !.CWND = t.CWND \div 2]

AfterLoss(t) == [t EXCEPT !.SSTHRESH = t.CWND \div 2, !.CWND = INIT_CWND]

-----------------------------------------------------------------------------
(* Write and the Send goroutine.                                           *)

Room(t) == MAX_BUF_SIZE - Sub(t.LBW, t.UNA)

\* Mutation of Signal: Send is woken at the first of its two waits only.
SignalFirst(t) == t.asleep /\ t.send # "data1"

\* whether Send sleeps on after the signal on SendBlockedCond
Signal(t) == t.asleep /\ t.send \notin {"data1", "data2"}

Write(n) ==
    /\ n <= Room(tcb) /\ tcb.LBW + n <= LastSeq
    /\ tcb' = [tcb EXCEPT !.LBW = @ + n, !.asleep = Signal(tcb)]
    /\ UNCHANGED <<setting, rcv, segs, acks, lost>>

Sleep(t, pc) == [t EXCEPT !.send = pc, !.asleep = TRUE]

\* Mutation of Plan: what is written is counted from UNA.
PlanFromUNA(t) ==
    LET amountToSend == Min2(Sub(t.UNA + Window(t), t.NXT), Sub(t.LBW, t.UNA))
    IN  [t EXCEPT !.send = IF amountToSend = 0 THEN "loop" ELSE "emit",
                  !.toSend = amountToSend]

\* lines 652 and 653; the window may have closed while Send waited for data,
\* and then the subtraction wraps
Plan(t) ==
    LET amountToSend == Min2(Sub(t.UNA + Window(t), t.NXT), Sub(t.LBW, t.NXT))
    IN  [t EXCEPT !.send = IF amountToSend = 0 THEN "loop" ELSE "emit",
                  !.toSend = amountToSend]

SendInner(t) == IF t.NXT = t.LBW THEN Sleep(t, "data1") ELSE Plan(t)

\* with more in flight than a window that has closed, Send turns without waiting
Full(t) == Sub(t.NXT, t.UNA) = Window(t)

SendOuter(t) ==
    IF t.NXT = t.LBW THEN Sleep(t, "data2")
    ELSE IF Full(t) THEN Sleep(t, "window") ELSE [t EXCEPT !.send = "loop"]

SendLocked ==
    /\ ~tcb.asleep
    /\ \/ /\ tcb.send = "loop" /\ Sub(tcb.NXT, tcb.UNA) < Window(tcb)
          /\ tcb' = SendInner(tcb)
       \/ /\ tcb.send = "loop" /\ ~(Sub(tcb.NXT, tcb.UNA) < Window(tcb))
          /\ tcb' = SendOuter(tcb)
       \/ tcb.send = "data1" /\ tcb' = SendInner(tcb)
       \/ tcb.send = "data2" /\ tcb' = SendOuter(tcb)
       \/ tcb.send = "window" /\ tcb' = IF Full(tcb) THEN Sleep(tcb, "window")
                                        ELSE [tcb EXCEPT !.send = "loop"]
    /\ UNCHANGED <<setting, rcv, segs, acks, lost>>

\* one segment, without the lock
SendEmit ==
    /\ tcb.send = "emit"
    /\ LET n == Min2(tcb.toSend, MSS_DATA)
       IN  /\ segs' = InFlight(segs, Entry(tcb.NXT, n))
           /\ tcb' = [tcb EXCEPT !.RetransmissionQueue = Append(@, Entry(tcb.NXT, n)),
                                 !.NXT = @ + n, !.toSend = @ - n,
                                 !.send = IF tcb.toSend = n THEN "loop" ELSE "emit"]
    /\ UNCHANGED <<setting, rcv, acks, lost>>

-----------------------------------------------------------------------------
(* waitTimeout.                                                            *)

OneLoss(t) == IF t.CControlEnabled THEN AfterLoss(t) ELSE t

Timeout ==
    /\ ~tcb.TimeoutCancelled /\ tcb.RetransmissionQueue # <<>>
    /\ \/ /\ tcb.RetransmitCounter = MAX_RETRANSMISSIONS
          /\ tcb' = [tcb EXCEPT !.TimeoutCancelled = TRUE]
          /\ UNCHANGED segs
       \/ /\ tcb.RetransmitCounter # MAX_RETRANSMISSIONS
          /\ tcb' = [OneLoss(tcb) EXCEPT !.RetransmitCounter = @ + 1]
          /\ segs' = InFlight(segs, Head(tcb.RetransmissionQueue))
    /\ UNCHANGED <<setting, rcv, acks, lost>>

-----------------------------------------------------------------------------
(* Receive, on what reaches the writer.                                    *)

Duplicate(t, ackNum) == t.CControlEnabled /\ ackNum = t.CurrentAck
Third(t) == t.CurrentAckFreq = 3 /\ t.RetransmissionQueue # <<>>

\* Mutation of Retransmitted: the newest segment is sent again.
RetransmittedNewest(t) == t.RetransmissionQueue[Len(t.RetransmissionQueue)]

Retransmitted(t) == Head(t.RetransmissionQueue)

FastRetransmit(ackNum) ==
    /\ Duplicate(tcb, ackNum) /\ Third(tcb)
    /\ tcb' = [AfterLoss(tcb) EXCEPT !.CurrentAckFreq = 0]
    /\ segs' = InFlight(segs, Retransmitted(tcb))

\* a number that is not new is only counted
AckOld(ackNum) ==
    /\ ackNum <= tcb.UNA \/ ackNum > tcb.UNA + WND
    /\ ~(Duplicate(tcb, ackNum) /\ Third(tcb))
    /\ tcb' = [tcb EXCEPT !.CurrentAckFreq = @ + IF Duplicate(tcb, ackNum) THEN 1 ELSE 0]
    /\ UNCHANGED segs

\* removeFromRetransmissionQueue: how many leading segments start below ackNum
Acked(queue, ackNum) ==
    Max({k \in 0 .. Len(queue) : \A i \in 1 .. k : queue[i].SequenceNum < ackNum})

Unacked(queue, ackNum) == SubSeq(queue, Acked(queue, ackNum) + 1, Len(queue))

Counted(t, ackNum) ==
    IF ~t.CControlEnabled THEN t
    ELSE [UpdateCWNDWindow(t) EXCEPT !.CurrentAck = ackNum, !.CurrentAckFreq = 1]

\* whether Send sleeps on after the broadcast on WriteBlockedCond
Broadcast(t) == t.asleep /\ t.send # "window"

AckNew(ackNum) ==
    /\ ~(ackNum <= tcb.UNA \/ ackNum > tcb.UNA + WND)
    /\ LET queue == Unacked(tcb.RetransmissionQueue, ackNum)
       IN  tcb' = [Counted(tcb, ackNum) EXCEPT
                      !.RetransmissionQueue = queue,
                      !.RetransmitCounter = IF queue = tcb.RetransmissionQueue THEN @ ELSE 0,
                      !.UNA = ackNum, !.asleep = Broadcast(tcb)]
    /\ UNCHANGED segs

ReceiveAck(ackNum) ==
    /\ acks' = Without(acks, ackNum)
    /\ FastRetransmit(ackNum) \/ AckOld(ackNum) \/ AckNew(ackNum)
    /\ UNCHANGED <<setting, rcv, lost>>

-----------------------------------------------------------------------------
(* The peer, and the network.                                              *)

\* every segment is answered, also one outside the window
ReceiveData(m) ==
    /\ segs' = Without(segs, m)
    /\ rcv' = IF m.SequenceNum < rcv.NXT \/ m.SequenceNum >= rcv.NXT + WND THEN rcv
              ELSE IF m.SequenceNum = rcv.NXT
              THEN [rcv EXCEPT !.NXT = AckNumAfter(rcv.EarlyArrivalQueue, EndOf(m)),
                               !.EarlyArrivalQueue = QueueAfter(@, EndOf(m))]
              ELSE [rcv EXCEPT !.EarlyArrivalQueue = Push(@, m)]
    /\ acks' = InFlight(acks, rcv'.NXT)
    /\ UNCHANGED <<tcb, setting, lost>>

\* a segment the peer writes carries its acknowledgment number
PeerWrites ==
    /\ rcv.chatter < ChatterMax
    /\ rcv' = [rcv EXCEPT !.chatter = @ + 1]
    /\ acks' = InFlight(acks, rcv.NXT)
    /\ UNCHANGED <<tcb, setting, segs, lost>>

Lose ==
    /\ \/ \E m \in DOMAIN segs : segs' = Without(segs, m) /\ UNCHANGED acks
       \/ \E a \in DOMAIN acks : acks' = Without(acks, a) /\ UNCHANGED segs
    /\ lost < LossMax /\ lost' = lost + 1
    /\ UNCHANGED <<tcb, setting, rcv>>

-----------------------------------------------------------------------------
Open == ~tcb.TimeoutCancelled
Sending == Open /\ (SendLocked \/ SendEmit)
DataArrives == Open /\ \E m \in DOMAIN segs : ReceiveData(m)
AckArrives == Open /\ \E a \in DOMAIN acks : ReceiveAck(a)

Next ==
    \/ EnableCC \/ SetCCForSocket
    \/ Open /\ \E n \in 1 .. MAX_BUF_SIZE : Write(n)
    \/ Sending \/ Timeout \/ DataArrives \/ AckArrives
    \/ Open /\ (PeerWrites \/ Lose)

Spec == Init /\ [][Next]_vars

\* The goroutines run and the timer fires, and the network delivers what it does
\* not lose; it may lose LossMax packets.
FairSpec == Spec /\ WF_vars(SetCCForSocket) /\ WF_vars(Sending) /\ WF_vars(Timeout)
                 /\ WF_vars(DataArrives) /\ WF_vars(AckArrives)

-----------------------------------------------------------------------------
(* Properties.                                                             *)

Seqs == FirstByte .. LastSeq
Entries == [SequenceNum : Seqs, PayloadLen : 1 .. MSS_DATA]

\* The type of every field. CWND is at least one segment: the division of
\* UpdateCWNDWindow has no zero to divide by, and Send may always send.
TypeOK ==
    /\ {tcb.UNA, tcb.NXT, tcb.LBW, rcv.NXT} \subseteq Seqs
    /\ tcb.CWND >= INIT_CWND /\ tcb.SSTHRESH \in Nat
    /\ tcb.CControlEnabled = (setting # "no")
    /\ tcb.CurrentAck \in {0} \cup Seqs /\ tcb.CurrentAckFreq \in Nat
    /\ \A i \in 1 .. Len(tcb.RetransmissionQueue) : tcb.RetransmissionQueue[i] \in Entries
    /\ tcb.RetransmitCounter \in 0 .. MAX_RETRANSMISSIONS
    /\ {tcb.TimeoutCancelled, tcb.asleep} \subseteq BOOLEAN
    /\ tcb.send \in {"loop", "data1", "data2", "window", "emit"}
    /\ tcb.toSend \in 0 .. MAX_BUF_SIZE
    /\ setting \in {"no", "stored", "done"}
    /\ DOMAIN segs \subseteq Entries /\ DOMAIN acks \subseteq Seqs
    /\ lost \in 0 .. LossMax

\* tcp_timeout.go:105: fastRetransmit "should only be called in the event that
\* three duplicate ACKs are received in which case we retransmit the first in the
\* retransmit queue": that first segment starts at the repeated number, so it is
\* the one the receiver waits for, although acknowledgments arrive in any order.
ResendsTheGap ==
    [][\A a \in DOMAIN acks :
          FastRetransmit(a) => Retransmitted(tcb).SequenceNum = a]_vars

\* What is in flight or about to be sent fits the buffer of the receiver, also
\* when the window closed under a waiting Send and line 653 wraps.
BurstFits == tcb.NXT + tcb.toSend - tcb.UNA <= MAX_BUF_SIZE

\* README.md:102: the window that Send uses is "the minimum between the
\* advertised window and the `cwnd`".
KeepsToCwnd ==
    [][tcb.send # "emit" /\ tcb'.send = "emit"
       => tcb'.NXT + tcb'.toSend - tcb'.UNA <= Window(tcb)]_vars

\* Slow start and Send's turning without a wait never keep written bytes from
\* the receiver, unless the retransmissions run out.
AllDelivered ==
    \A n \in FirstByte + 1 .. LastSeq :
        (tcb.LBW >= n) ~> (rcv.NXT >= n \/ tcb.TimeoutCancelled)
=============================================================================
