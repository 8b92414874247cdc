------------------------------ MODULE Teardown ------------------------------
(***************************************************************************)
(* Closing a connection: both TCBs from ESTABLISHED on, with the threads   *)
(* that meet there: VClose and VShutdown (Close), Write, Read, the Send    *)
(* goroutine, waitTimeout, WaitForClosed, and one handler goroutine per    *)
(* packet that arrives.                                                    *)
(*                                                                         *)
(* Each application writes at most one segment of one byte, so the windows *)
(* never fill up and no data arrives early; a FIN may. A critical section  *)
(* of TCBLock is one action; a thread that blocks on a channel with the    *)
(* lock held shows in the field lock.                                      *)
(***************************************************************************)
EXTENDS Integers, Sequences

CONSTANTS MAX_RETRANSMISSIONS,
          Scenarios,    \* what the applications of the two ends do
          Faults        \* bound: packets the network loses or delivers twice, in all

\* "client" called Connect, "server" was accepted
Ends == {"client", "server"}
Peer(i) == IF i = "client" THEN "server" ELSE "client"

States == {"ESTABLISHED", "FIN_WAIT_1", "FIN_WAIT_2", "CLOSING", "TIME_WAIT",
           "CLOSE_WAIT", "LAST_ACK", "CLOSED"}

\* dispatch: ReceivePacket reads State without the lock and its handler runs
\*           only when State has changed
\* timeout:  a packet is lost, or slow, and the timer of waitTimeout fires
\* timer:    the timer of waitTimeout fires while Close is between its Unlock
\*           and its send on RTOTimeoutChan
\* msl:      2*MSL pass although the peer's FIN is still on its way
RaceNames == {"dispatch", "timeout", "timer", "msl"}

\* An application: whether it writes a byte, whether it reads until it gets an
\* error, in which states it closes; and the unlucky schedules its node may have.
App == [writes : BOOLEAN, reads : BOOLEAN, closes : SUBSET States, races : SUBSET RaceNames]

ISS == 1
FirstByte == ISS + 1

ASSUME TeardownAssumption ==
    /\ MAX_RETRANSMISSIONS \in Nat /\ Faults \in Nat
    /\ Scenarios \subseteq [Ends -> App]

VARIABLES tcb,      \* the TCB of each end and the threads that work on it
          net,      \* packets in flight, or with a handler that waits for TCBLock
          faults

vars == <<tcb, net, faults>>

\* at: on the wire, or the handler that has it: the State that ReceivePacket
\* read, or RECEIVE when the handler has gone on to Receive
Packet(i, seq, ack, len, fin) ==
    [to |-> Peer(i), at |-> "wire", seq |-> seq, ack |-> ack, len |-> len, fin |-> fin]

\* RTOTimeoutChan of an accepted connection has a buffer, that of Connect has none
Buffered(i) == i = "server"

Init ==
    /\ \E scenario \in Scenarios : tcb = [i \in Ends |->
        [app |-> scenario[i],
         State |-> "ESTABLISHED",
         UNA |-> IF i = "client" THEN FirstByte ELSE ISS,
         NXT |-> FirstByte, LBW |-> FirstByte,
         RCVNXT |-> FirstByte, LBR |-> FirstByte, PendingReceivedFin |-> 0,
         Queue |-> <<>>, RetransmitCounter |-> 0,
         Cancelled |-> FALSE, TimeoutCancelled |-> FALSE, PendingSendingFin |-> FALSE,
         ReadCancelled |-> FALSE, WriteCancelled |-> FALSE,
         ResetWaitChan |-> FALSE,   \* has been made
         inTable |-> TRUE,
         lock |-> "free",           \* or why a thread blocks, or returned, with it
         send |-> "run", close |-> "no", write |-> "no", read |-> "run",
         timer |-> "select",        \* waitTimeout: in select, after its timer, returned
         waiting |-> 0,             \* WaitForClosed goroutines in their select
         expired |-> 0]]            \* and those past it, that want TCBLock
    /\ net = {} /\ faults = 0

Unlucky(i, race) == race \in tcb[i].app.races
Free(i) == tcb[i].lock = "free"
Update(i, t) == tcb' = [tcb EXCEPT ![i] = t]

-----------------------------------------------------------------------------
(* Write, and the Send goroutine.                                          *)

WriteEnter(i) ==
    /\ tcb[i].app.writes /\ tcb[i].write = "no"
    /\ ~tcb[i].WriteCancelled /\ tcb[i].inTable /\ ~tcb[i].TimeoutCancelled
    /\ Update(i, [tcb[i] EXCEPT !.write = "entered"])
    /\ UNCHANGED <<net, faults>>

WakeSend(pc) == IF pc = "asleep" THEN "run" ELSE pc

\* the return at line 838 keeps the lock
WriteLocked(i) ==
    /\ tcb[i].write = "entered" /\ Free(i)
    /\ IF tcb[i].State \in {"ESTABLISHED", "CLOSE_WAIT"}
       THEN Update(i, [tcb[i] EXCEPT !.write = "done", !.LBW = @ + 1, !.send = WakeSend(@)])
       ELSE Update(i, [tcb[i] EXCEPT !.write = "done", !.lock = "leaked"])
    /\ UNCHANGED <<net, faults>>

\* NXT = LBW: hand over to Close, stop, or wait for data
SendIdle(i) ==
    /\ tcb[i].send = "run" /\ Free(i) /\ tcb[i].NXT = tcb[i].LBW
    /\ IF tcb[i].PendingSendingFin
       THEN Update(i, [tcb[i] EXCEPT !.send = "exit",
                                     !.close = IF @ = "data" THEN "woken" ELSE @])
       ELSE Update(i, [tcb[i] EXCEPT !.send = IF tcb[i].Cancelled THEN "exit" ELSE "asleep"])
    /\ UNCHANGED <<net, faults>>

\* after the FIN, NXT is past LBW and only Cancelled keeps Send from sending
SendCancelled(i) ==
    /\ tcb[i].send = "run" /\ Free(i) /\ tcb[i].NXT # tcb[i].LBW /\ tcb[i].Cancelled
    /\ Update(i, [tcb[i] EXCEPT !.send = "exit"])
    /\ UNCHANGED <<net, faults>>

\* a send on RTOTimeoutChan goes through, at once but for the race of the timer
ChanReady(i) == Buffered(i) \/ tcb[i].timer = "select"
ResetThen(i, pc) == IF ChanReady(i) /\ (Buffered(i) \/ ~Unlucky(i, "timer")) THEN pc ELSE "rto"

SendData(i) ==
    /\ tcb[i].send = "run" /\ Free(i) /\ tcb[i].NXT # tcb[i].LBW /\ ~tcb[i].Cancelled
    /\ LET m == Packet(i, tcb[i].NXT, tcb[i].RCVNXT, 1, FALSE)
       IN  /\ net' = net \cup {m}
           /\ Update(i, [tcb[i] EXCEPT !.Queue = Append(@, m), !.NXT = @ + 1,
                                         !.send = ResetThen(i, "run")])
    /\ UNCHANGED faults

SendReset(i) ==
    /\ tcb[i].send = "rto" /\ ChanReady(i)
    /\ Update(i, [tcb[i] EXCEPT !.send = "run"])
    /\ UNCHANGED <<net, faults>>

-----------------------------------------------------------------------------
(* VShutdown(1), and with readToo VClose: both call Close.                 *)

\* Close takes the TCB from the socket table without a test that it is there.
CloseCall(i, readToo) ==
    /\ tcb[i].close = "no" /\ tcb[i].State \in tcb[i].app.closes
    /\ Update(i, [tcb[i] EXCEPT !.WriteCancelled = TRUE, !.ReadCancelled = readToo,
                                !.close = IF tcb[i].inTable THEN "enter" ELSE "panic"])
    /\ UNCHANGED <<net, faults>>

CloseLocks(i) == tcb[i].close \in {"enter", "woken"} /\ Free(i)

CloseWaitData(i) ==
    /\ CloseLocks(i) /\ tcb[i].NXT # tcb[i].LBW
    /\ Update(i, [tcb[i] EXCEPT !.PendingSendingFin = TRUE, !.close = "data"])
    /\ UNCHANGED <<net, faults>>

\* Mutation of AllSent: the FIN overtakes the bytes Send has not sent yet.
AllSentIgnored(t) == TRUE

AllSent(t) == t.NXT = t.LBW

CloseFin(i) ==
    /\ CloseLocks(i) /\ AllSent(tcb[i])
    /\ LET passive == tcb[i].State = "CLOSE_WAIT"
           m == Packet(i, tcb[i].NXT, tcb[i].RCVNXT + IF passive THEN 1 ELSE 0, 0, TRUE)
       IN  /\ net' = net \cup {m}
           /\ Update(i, [tcb[i] EXCEPT
                  !.PendingSendingFin = TRUE, !.Cancelled = TRUE, !.send = WakeSend(@),
                  !.State = IF passive THEN "LAST_ACK" ELSE "FIN_WAIT_1",
                  !.NXT = @ + 1, !.Queue = Append(@, m), !.close = ResetThen(i, "chan")])
    /\ UNCHANGED faults

CloseReset(i) ==
    /\ tcb[i].close = "rto" /\ ChanReady(i)
    /\ Update(i, [tcb[i] EXCEPT !.close = "chan"])
    /\ UNCHANGED <<net, faults>>

\* HandleLastAck or WaitForClosed, the lock held, meets Close at ReceiveChan
CloseReturn(i) ==
    /\ tcb[i].lock = "notify" /\ tcb[i].close = "chan"
    /\ Update(i, [tcb[i] EXCEPT !.lock = "free", !.close = "done", !.inTable = FALSE])
    /\ UNCHANGED <<net, faults>>

-----------------------------------------------------------------------------
(* The handler goroutine of a packet m. rest is what else is in flight.    *)

WakeRead(pc) == IF pc = "asleep" THEN "woken" ELSE pc

\* removeFromRetransmissionQueue drops the leading packets that start below ack:
\* how many there are, and the TCB without them
Acked(t, ack) ==
    {n \in 0 .. Len(t.Queue) : /\ \A k \in 1 .. n : t.Queue[k].seq < ack
                               /\ n = Len(t.Queue) \/ t.Queue[n + 1].seq >= ack}
Trim(t, n) ==
    [t EXCEPT !.Queue = SubSeq(t.Queue, n + 1, Len(t.Queue)),
              !.RetransmitCounter = IF n = 0 THEN @ ELSE 0]

\* Receive: the data, the early FIN it may complete, then the acknowledgment
TakeData(t, m) ==
    IF m.len = 0 \/ m.seq < t.RCVNXT THEN t
    ELSE [t EXCEPT !.RCVNXT = @ + 1, !.read = WakeRead(@),
                   !.State = IF t.RCVNXT + 1 = t.PendingReceivedFin THEN "CLOSE_WAIT" ELSE @]

TakeAck(t, m, n) == IF m.ack <= t.UNA THEN t ELSE [Trim(t, n) EXCEPT !.UNA = m.ack]

DataReply(i, t, m) ==
    IF m.len = 0 THEN {}
    ELSE LET u == TakeData(t, m)
             finToo == m.seq >= t.RCVNXT /\ u.RCVNXT = t.PendingReceivedFin
         IN  {Packet(i, t.NXT, u.RCVNXT + IF finToo THEN 1 ELSE 0, 0, FALSE)}

Receive(i, m, rest) ==
    /\ \E n \in Acked(tcb[i], m.ack) : Update(i, TakeAck(TakeData(tcb[i], m), m, n))
    /\ net' = rest \cup DataReply(i, tcb[i], m)

\* a FIN below RCV.NXT is answered with the zero value of nxtToSend
ReceiveFin(i, m, rest) ==
    LET t == tcb[i]
        inOrder == m.seq = t.RCVNXT
        early == m.seq > t.RCVNXT
    IN  /\ Update(i, [t EXCEPT
               !.State = IF inOrder THEN "CLOSE_WAIT" ELSE @,
               !.read = IF inOrder THEN WakeRead(@) ELSE @,
               !.PendingReceivedFin = IF early THEN m.seq ELSE @])
        /\ net' = rest \cup {Packet(i, t.NXT, IF inOrder THEN t.RCVNXT + 1
                                             ELSE IF early THEN t.RCVNXT ELSE 0, 0, FALSE)}

HandleEstablished(i, m, rest) == IF m.fin THEN ReceiveFin(i, m, rest) ELSE Receive(i, m, rest)

\* Receive then takes the lock again
ThenReceive(m, rest) == net' = rest \cup {[m EXCEPT !.at = "RECEIVE"]}

\* Mutation of HandleFinWait1: an acknowledgment of the data before the FIN
\* counts for the FIN.
HandleFinWait1Lax(i, m, rest) ==
    IF m.ack >= tcb[i].NXT - 1
    THEN Update(i, [tcb[i] EXCEPT !.State = "FIN_WAIT_2"]) /\ ThenReceive(m, rest)
    ELSE ThenReceive(m, rest) /\ UNCHANGED tcb

\* the FIN of a packet that acknowledges ours is not looked at
HandleFinWait1(i, m, rest) ==
    LET t == tcb[i]
        acked == m.ack = t.NXT
        next == IF m.ack = t.NXT - 1 THEN "CLOSING" ELSE "TIME_WAIT"
    IN  \/ /\ acked
           /\ Update(i, [t EXCEPT !.State = "FIN_WAIT_2"])
           /\ ThenReceive(m, rest)
        \/ /\ ~acked /\ m.fin
           /\ Update(i, [t EXCEPT !.State = next, !.RCVNXT = @ + 1,
                                  !.waiting = IF next = "TIME_WAIT" THEN @ + 1 ELSE @])
           /\ net' = rest \cup {Packet(i, t.NXT, t.RCVNXT + 1, 0, FALSE)}
        \/ /\ ~acked /\ ~m.fin
           /\ ThenReceive(m, rest) /\ UNCHANGED tcb

\* Mutation of HandleFinWait2: packets are handled as in ESTABLISHED.
HandleFinWait2AsEstablished(i, m, rest) == HandleEstablished(i, m, rest)

\* Mutation of HandleFinWait2: a FIN is taken whatever its sequence number.
HandleFinWait2Any(i, m, rest) ==
    LET t == tcb[i]
    IN  IF m.fin
        THEN /\ Update(i, [t EXCEPT !.State = "TIME_WAIT", !.RCVNXT = @ + 1,
                                    !.ResetWaitChan = TRUE, !.waiting = @ + 1])
             /\ net' = rest \cup {Packet(i, t.NXT, t.RCVNXT + 1, 0, FALSE)}
        ELSE Receive(i, m, rest)

HandleFinWait2(i, m, rest) ==
    LET t == tcb[i]
    IN  IF ~m.fin THEN Receive(i, m, rest)
        ELSE IF m.seq # t.RCVNXT THEN net' = rest /\ UNCHANGED tcb
        ELSE /\ Update(i, [t EXCEPT !.State = "TIME_WAIT", !.RCVNXT = @ + 1,
                                    !.ResetWaitChan = TRUE, !.waiting = @ + 1])
             /\ net' = rest \cup {Packet(i, t.NXT, t.RCVNXT + 1, 0, FALSE)}

HandleClosing(i, m, rest) ==
    /\ IF m.ack = tcb[i].NXT
       THEN Update(i, [tcb[i] EXCEPT !.State = "TIME_WAIT", !.waiting = @ + 1])
       ELSE UNCHANGED tcb
    /\ net' = rest

AckNow(i, rest) == net' = rest \cup {Packet(i, tcb[i].NXT, tcb[i].RCVNXT, 0, FALSE)}

\* the handler keeps the lock until WaitForClosed takes the reset
HandleTimeWait(i, m, rest) ==
    /\ IF m.fin THEN AckNow(i, rest) /\ Update(i, [tcb[i] EXCEPT !.lock = "reset"])
       ELSE net' = rest /\ UNCHANGED tcb

HandleCloseWait(i, m, rest) ==
    /\ IF m.fin THEN AckNow(i, rest) ELSE net' = rest
    /\ UNCHANGED tcb

\* Mutation of HandleLastAck: Close is not told.
HandleLastAckSilent(i, m, rest) ==
    /\ IF m.ack = tcb[i].NXT
       THEN \E n \in Acked(tcb[i], m.ack) : Update(i, [Trim(tcb[i], n) EXCEPT !.State = "CLOSED"])
       ELSE UNCHANGED tcb
    /\ net' = rest

\* the handler keeps the lock until Close takes the notification
HandleLastAck(i, m, rest) ==
    /\ IF m.ack = tcb[i].NXT
       THEN \E n \in Acked(tcb[i], m.ack) :
               Update(i, [Trim(tcb[i], n) EXCEPT !.State = "CLOSED", !.lock = "notify"])
       ELSE UNCHANGED tcb
    /\ net' = rest

\* the switch of ReceivePacket, on the State s that it read
Handle(s, m, rest) ==
    LET i == m.to
    IN  \/ s = "ESTABLISHED" /\ HandleEstablished(i, m, rest)
        \/ s = "FIN_WAIT_1"  /\ HandleFinWait1(i, m, rest)
        \/ s = "FIN_WAIT_2"  /\ HandleFinWait2(i, m, rest)
        \/ s = "CLOSING"     /\ HandleClosing(i, m, rest)
        \/ s = "TIME_WAIT"   /\ HandleTimeWait(i, m, rest)
        \/ s = "CLOSE_WAIT"  /\ HandleCloseWait(i, m, rest)
        \/ s = "LAST_ACK"    /\ HandleLastAck(i, m, rest)
        \/ s = "CLOSED"      /\ net' = rest /\ UNCHANGED tcb
        \/ s = "RECEIVE"     /\ Receive(i, m, rest)

\* a packet for a connection that is not in the table is dropped
ReceivePacket(m) ==
    /\ m.at = "wire"
    /\ \E rest \in {net \ {m}, net} :
          /\ faults' = faults + IF rest = net THEN 1 ELSE 0
          /\ faults' <= Faults
          /\ \/ tcb[m.to].inTable /\ Free(m.to) /\ Handle(tcb[m.to].State, m, rest)
             \/ ~tcb[m.to].inTable /\ rest # net /\ net' = rest /\ UNCHANGED tcb

Dispatch(m) ==
    /\ Unlucky(m.to, "dispatch")
    /\ m.at = "wire" /\ tcb[m.to].inTable
    /\ net' = (net \ {m}) \cup {[m EXCEPT !.at = tcb[m.to].State]}
    /\ UNCHANGED <<tcb, faults>>

HandlerLocks(m) ==
    /\ m.at # "wire" /\ Free(m.to)
    /\ Handle(m.at, m, net \ {m})
    /\ UNCHANGED faults

-----------------------------------------------------------------------------
(* waitTimeout. A timeout that finds the queue empty changes nothing.      *)

TimerFires(i) ==
    /\ {"timeout", "timer"} \subseteq tcb[i].app.races
    /\ tcb[i].timer = "select" /\ tcb[i].Queue # <<>>
    /\ Update(i, [tcb[i] EXCEPT !.timer = "fired"])
    /\ UNCHANGED <<net, faults>>

TimerLocks(i) ==
    /\ Free(i) /\ Unlucky(i, "timeout")
    /\ tcb[i].timer = IF Unlucky(i, "timer") THEN "fired" ELSE "select"

Finalizing(t) == t.State \in {"TIME_WAIT", "CLOSED"}

TimerExits(i) ==
    /\ tcb[i].timer = "fired" /\ Free(i) /\ Finalizing(tcb[i])
    /\ Update(i, [tcb[i] EXCEPT !.timer = "exit"])
    /\ UNCHANGED <<net, faults>>

\* Mutation of Retransmit: the limit is not tested.
RetransmitForever(i) ==
    /\ TimerLocks(i) /\ ~Finalizing(tcb[i]) /\ tcb[i].Queue # <<>>
    /\ Update(i, [tcb[i] EXCEPT !.RetransmitCounter = @ + 1, !.timer = "select"])
    /\ net' = net \cup {Head(tcb[i].Queue)}
    /\ UNCHANGED faults

Retransmit(i) ==
    /\ TimerLocks(i) /\ ~Finalizing(tcb[i]) /\ tcb[i].Queue # <<>>
    /\ tcb[i].RetransmitCounter # MAX_RETRANSMISSIONS
    /\ Update(i, [tcb[i] EXCEPT !.RetransmitCounter = @ + 1, !.timer = "select"])
    /\ net' = net \cup {Head(tcb[i].Queue)}
    /\ UNCHANGED faults

\* an acknowledgment emptied the queue before the lock was free
TimerTooLate(i) ==
    /\ tcb[i].timer = "fired" /\ Free(i) /\ ~Finalizing(tcb[i]) /\ tcb[i].Queue = <<>>
    /\ Update(i, [tcb[i] EXCEPT !.timer = "select"])
    /\ UNCHANGED <<net, faults>>

\* neither a Close nor ZeroBlockedCond is told
GiveUp(i) ==
    /\ TimerLocks(i) /\ ~Finalizing(tcb[i]) /\ tcb[i].Queue # <<>>
    /\ tcb[i].RetransmitCounter = MAX_RETRANSMISSIONS
    /\ Update(i, [tcb[i] EXCEPT !.State = "CLOSED", !.TimeoutCancelled = TRUE,
                     !.send = WakeSend(@), !.read = WakeRead(@),
                     !.inTable = FALSE, !.timer = "exit"])
    /\ UNCHANGED <<net, faults>>

-----------------------------------------------------------------------------
(* WaitForClosed.                                                          *)

\* 2*MSL outlast every packet and, for a peer whose waitTimeout still runs, its
\* own retransmissions
MSLElapsed(i) ==
    LET p == tcb[Peer(i)]
    IN  /\ \A m \in net : m.to # i
        /\ ~Free(Peer(i)) \/ Finalizing(p) \/ \A k \in 1 .. Len(p.Queue) : ~p.Queue[k].fin

WaitExpires(i) ==
    /\ Unlucky(i, "msl") /\ tcb[i].waiting > 0
    /\ Update(i, [tcb[i] EXCEPT !.waiting = @ - 1, !.expired = @ + 1])
    /\ UNCHANGED <<net, faults>>

WaitClosed(i) ==
    /\ Free(i)
    /\ \/ /\ tcb[i].expired > 0
          /\ Update(i, [tcb[i] EXCEPT !.expired = @ - 1, !.State = "CLOSED", !.lock = "notify"])
       \/ /\ tcb[i].waiting > 0 /\ MSLElapsed(i)
          /\ Update(i, [tcb[i] EXCEPT !.waiting = @ - 1, !.State = "CLOSED", !.lock = "notify"])
    /\ UNCHANGED <<net, faults>>

\* the handler of a repeated FIN meets WaitForClosed at ResetWaitChan
WaitReset(i) ==
    /\ tcb[i].lock = "reset" /\ tcb[i].ResetWaitChan /\ tcb[i].waiting > 0
    /\ Update(i, [tcb[i] EXCEPT !.lock = "free"])
    /\ UNCHANGED <<net, faults>>

-----------------------------------------------------------------------------
(* Read, one byte at a time.                                               *)

\* Mutation of Eof: bytes that are there to be read are not looked at.
EofAtOnce(t) == t.State = "CLOSE_WAIT" \/ t.TimeoutCancelled

Eof(t) == t.LBR = t.RCVNXT /\ (t.State = "CLOSE_WAIT" \/ t.TimeoutCancelled)

Read(i) ==
    /\ tcb[i].app.reads /\ tcb[i].read \in {"run", "woken"}
    /\ LET t == tcb[i]
           end == IF t.read = "run" /\ (t.ReadCancelled \/ ~t.inTable \/ t.TimeoutCancelled)
                  THEN "error"
                  ELSE IF Eof(t) THEN "eof"
                  ELSE IF t.LBR # t.RCVNXT THEN "run" ELSE "asleep"
       IN  /\ Free(i) \/ (t.read = "run" /\ (t.ReadCancelled \/ ~t.inTable))
           /\ Update(i, [t EXCEPT !.read = end, !.LBR = IF end = "run" THEN @ + 1 ELSE @])
    /\ UNCHANGED <<net, faults>>

Lose(m) ==
    /\ m.at = "wire" /\ faults < Faults
    /\ net' = net \ {m} /\ faults' = faults + 1
    /\ UNCHANGED tcb

-----------------------------------------------------------------------------
Writing(i) == WriteEnter(i) \/ WriteLocked(i)
Sending(i) == SendIdle(i) \/ SendCancelled(i) \/ SendData(i) \/ SendReset(i)
Closing(i) == \/ \E readToo \in {~tcb[i].app.reads, TRUE} : CloseCall(i, readToo)
              \/ CloseWaitData(i) \/ CloseFin(i) \/ CloseReset(i) \/ CloseReturn(i)
Timing(i)  == TimerFires(i) \/ TimerExits(i) \/ Retransmit(i) \/ TimerTooLate(i) \/ GiveUp(i)
Waiting(i) == WaitExpires(i) \/ WaitClosed(i) \/ WaitReset(i)
Arriving(i) == \E m \in net : m.to = i /\ (ReceivePacket(m) \/ HandlerLocks(m))

Next ==
    \/ \E i \in Ends : Writing(i) \/ Sending(i) \/ Closing(i) \/ Timing(i) \/ Waiting(i)
                       \/ Arriving(i) \/ Read(i)
    \/ \E m \in net : Dispatch(m) \/ Lose(m)

Spec == Init /\ [][Next]_vars

\* Every goroutine runs, and the applications do close, in the states of app.closes.
FairSpec ==
    /\ Spec
    /\ \A i \in Ends : /\ WF_vars(WriteLocked(i)) /\ WF_vars(Sending(i)) /\ WF_vars(Closing(i))
                       /\ WF_vars(Timing(i)) /\ WF_vars(Waiting(i)) /\ WF_vars(Arriving(i))
                       /\ WF_vars(Read(i))
-----------------------------------------------------------------------------
(* Properties.                                                             *)

Seqs == FirstByte .. FirstByte + 3

PacketType ==
    [to : Ends, at : {"wire", "RECEIVE"} \cup States, seq : Seqs, ack : Seqs \cup {0},
     len : {0, 1}, fin : BOOLEAN]

\* The type of every field and of every packet.
TypeOK ==
    /\ DOMAIN tcb = Ends
    /\ \A i \in Ends : LET t == tcb[i] IN
        /\ t.app \in App /\ t.State \in States
        /\ t.UNA \in {ISS} \cup Seqs
        /\ {t.NXT, t.LBW, t.RCVNXT, t.LBR} \subseteq Seqs
        /\ t.PendingReceivedFin \in {0} \cup Seqs
        /\ \A k \in 1 .. Len(t.Queue) : t.Queue[k] \in PacketType
        /\ t.RetransmitCounter \in 0 .. MAX_RETRANSMISSIONS
        /\ {t.Cancelled, t.TimeoutCancelled, t.PendingSendingFin, t.ReadCancelled,
            t.WriteCancelled, t.ResetWaitChan, t.inTable} \subseteq BOOLEAN
        /\ t.lock \in {"free", "leaked", "reset", "notify"}
        /\ t.send \in {"run", "asleep", "rto", "exit"}
        /\ t.close \in {"no", "enter", "data", "woken", "rto", "chan", "done", "panic"}
        /\ t.write \in {"no", "entered", "done"}
        /\ t.read \in {"run", "asleep", "woken", "eof", "error"}
        /\ t.timer \in {"select", "fired", "exit"}
        /\ t.waiting \in 0 .. 2 /\ t.expired \in 0 .. 2
    /\ net \subseteq PacketType
    /\ faults \in 0 .. Faults

\* A FIN comes after every byte the application has written and Close waits for
\* Send to send them: no Write slips in behind the FIN. The exception is left to
\* two ends that both write and both may close first: an end that has sent its FIN
\* and then takes an early one with the data it missed is back in CLOSE_WAIT
\* (core:472-476), where a Write that was waiting for the lock is accepted.
FinAfterData == \A m \in net : m.fin => m.seq = tcb[Peer(m.to)].LBW

\* Read reports the end of the data only when it has handed over all the bytes
\* the peer wrote before it closed (or the connection has timed out).
EofAfterData ==
    \A i \in Ends : tcb[i].read = "eof"
                    => tcb[i].LBR = tcb[Peer(i)].LBW \/ tcb[i].TimeoutCancelled

\* An end that took the FIN of its peer in ESTABLISHED, in FIN_WAIT_2 or with the
\* data that Receive was missing has every byte the peer wrote, and RCV.NXT counts
\* the FIN in TIME_WAIT only: a FIN that overtakes data is put off or dropped.
\* HandleFinWait1 is the exception: it takes a FIN without a look at its sequence
\* number (lines 222-233), on the way to CLOSING or to a TIME_WAIT without a
\* ResetWaitChan, and RCV.NXT may then count the FIN in the place of a byte.
FinCompletes ==
    \A i \in Ends :
        LET bytes == tcb[i].RCVNXT - tcb[Peer(i)].LBW
        IN  /\ tcb[i].State \in {"CLOSE_WAIT", "LAST_ACK"} => bytes = 0
            /\ tcb[i].State = "TIME_WAIT" /\ tcb[i].ResetWaitChan => bytes = 1
            /\ tcb[i].State \in {"CLOSING", "TIME_WAIT"} => bytes \in {0, 1}

\* the peer has the bytes and the FIN of end i
FinReceived(i) ==
    LET p == tcb[Peer(i)]
    IN  /\ p.State \notin {"ESTABLISHED", "FIN_WAIT_1", "FIN_WAIT_2"}
        /\ p.RCVNXT >= tcb[i].LBW + IF p.State \in {"CLOSING", "TIME_WAIT"} THEN 1 ELSE 0

\* the moves of an end that takes an acknowledgment for the one of its FIN
FinAcked == {<<"FIN_WAIT_1", "FIN_WAIT_2">>, <<"CLOSING", "TIME_WAIT">>, <<"LAST_ACK", "CLOSED">>}

\* The handlers that compare an acknowledgment with SND.NXT conclude rightly that
\* it is the one of the FIN: when HandleFinWait1 goes to FIN_WAIT_2, HandleClosing
\* to TIME_WAIT or HandleLastAck to CLOSED, the peer has every byte and the FIN
\* (unless an end gave up: Close then starts over from CLOSED).
AckedWhenReceived ==
    [][\A i \in Ends :
          /\ <<tcb[i].State, tcb'[i].State>> \in FinAcked
          /\ \A j \in Ends : ~tcb'[j].TimeoutCancelled
          => FinReceived(i)]_vars

\* tcp_segment_receive.go:227: "the receiver ACK'd our FIN, go straight to TIME
\* WAIT (no more data on either side)". Retransmissions stop in TIME_WAIT, so the
\* peer should have every byte and the FIN by then. Violated where both ends close
\* first with a byte in flight: the acknowledgment that HandleFinWait1 takes for
\* one of the FIN is any that is neither NXT nor NXT - 1.
DoneWhenReceived == \A i \in Ends : tcb[i].State = "TIME_WAIT" => FinReceived(i)

Diagram ==
    {<<"ESTABLISHED", "FIN_WAIT_1">>, <<"ESTABLISHED", "CLOSE_WAIT">>,
     <<"FIN_WAIT_1", "FIN_WAIT_2">>, <<"FIN_WAIT_1", "CLOSING">>, <<"FIN_WAIT_1", "TIME_WAIT">>,
     <<"FIN_WAIT_2", "TIME_WAIT">>, <<"CLOSING", "TIME_WAIT">>, <<"TIME_WAIT", "CLOSED">>,
     <<"CLOSE_WAIT", "LAST_ACK">>, <<"LAST_ACK", "CLOSED">>}

\* Receive takes an early FIN in whatever state the missing data arrives (core:472-476)
EarlyFinMoves == {<<"FIN_WAIT_1", "CLOSE_WAIT">>, <<"FIN_WAIT_2", "CLOSE_WAIT">>}

\* a handler that runs late at the end that closes second: ReceiveFin in a state
\* after CLOSE_WAIT, and HandleLastAck after that
LateMoves == {<<"LAST_ACK", "CLOSE_WAIT">>, <<"CLOSED", "CLOSE_WAIT">>, <<"CLOSE_WAIT", "CLOSED">>}

\* tcp_handler.go:129: ReceivePacket "implements the TCP state machine diagram". It
\* does, but for two sets of moves: from FIN_WAIT_1 or FIN_WAIT_2 to CLOSE_WAIT, by
\* an end that has set aside an early FIN; and, where handlers run late, back to
\* CLOSE_WAIT and from there to CLOSED. CLOSED is also reached by giving up.
FollowsDiagram ==
    [][\A i \in Ends :
          LET move == <<tcb[i].State, tcb'[i].State>>
          IN  \/ tcb[i].State = tcb'[i].State
              \/ move \in Diagram
              \/ move \in EarlyFinMoves /\ tcb[i].PendingReceivedFin # 0
              \/ move \in LateMoves /\ Unlucky(i, "dispatch")
              \/ tcb'[i].TimeoutCancelled]_vars

\* TCBLock is never released again: by a Write that returned with it (line 838), or
\* by the handler of a FIN that sends on the nil ResetWaitChan of a TIME_WAIT entered
\* from FIN_WAIT_1 or CLOSING (line 348)
Wedged(t) == t.lock = "leaked" \/ (t.lock = "reset" /\ ~t.ResetWaitChan)

\* The end has stopped retransmitting with its peer short of a byte or of the FIN:
\* what DoneWhenReceived rules out and HandleFinWait1 does.
StoppedEarly(i) == tcb[i].State \in {"TIME_WAIT", "CLOSED"} /\ ~FinReceived(i)

\* tcp_close.go:78: Close waits "to get notification that we have finally reached
\* the CLOSED state", and it comes, also when both ends close at once and when a
\* packet is lost or repeated, unless an end has given up, has stopped early or
\* has its lock wedged.
CloseNotified ==
    \A i \in Ends :
        (tcb[i].close = "enter")
        ~> \/ tcb[i].close = "done"
           \/ \E j \in Ends : tcb[j].TimeoutCancelled \/ Wedged(tcb[j]) \/ StoppedEarly(j)
=============================================================================
