-------------------------- MODULE SlidingWindowInv --------------------------
(***************************************************************************)
(* The inductive invariant of SlidingWindow, for Races = {}: what each     *)
(* pointer, queue, buffer and packet may be when the unlocked sections do  *)
(* not lose an update.                                                     *)
(***************************************************************************)
EXTENDS SlidingWindow

\* The first sequence number that is on no packet yet: past NXT while a
\* segment is sent before NXT moves, and while a zero-window probe is out.
Sent ==
    sndNXT + IF sendPC = "advance" THEN Min2(toSend, MSS_DATA)
             ELSE IF sendPC = "zero" THEN 1 ELSE 0

\* Where the threads are, and the locals they carry.
ControlInv ==
    /\ sendPC \in {"loop", "data1", "data2", "zero", "cancel", "window", "emit", "advance", "stuck"}
    /\ writePC \in {"idle", "top", "space"}
    /\ asleep \subseteq {"send", "write", "read"}
    /\ TimeoutCancelled \in BOOLEAN /\ lockLeaked \in BOOLEAN
    /\ spinning = FALSE
    /\ RetransmitCounter \in 0 .. MAX_RETRANSMISSIONS
    /\ seenQueue = <<>> /\ seenWND = 0
    /\ dups \in 0 .. MaxDups

\* The order of the pointers of both ends, and the writer's room.
OrderInv ==
    /\ sndUNA \in Int /\ sndNXT \in Int /\ sndLBW \in Int
    /\ rcvNXT \in Int /\ rcvLBR \in Int
    /\ ISS <= sndUNA /\ sndUNA <= rcvNXT
    /\ FirstByte <= rcvLBR /\ rcvLBR <= rcvNXT
    /\ FirstByte <= sndNXT /\ rcvNXT <= Sent /\ Sent <= sndLBW
    /\ sndLBW <= sndUNA + MAX_BUF_SIZE
    /\ toWrite \in Nat /\ sndLBW + toWrite <= LastSeq
    /\ writePC # "idle" => toWrite > 0
    /\ reading \in Nat /\ rcvLBR + reading <= rcvNXT

\* The windows: the reader's own, the one the writer knows of, and how far
\* Send may be for each place it is at.
WindowInv ==
    /\ rcvWND = MAX_BUF_SIZE - (rcvNXT - rcvLBR) /\ rcvWND >= 0
    /\ sndWND \in 0 .. MAX_BUF_SIZE
    /\ sndUNA + sndWND <= rcvLBR + MAX_BUF_SIZE
    /\ toSend \in Nat
    /\ sendPC = "zero" => sndUNA = IF sndWND = 0 THEN sndNXT ELSE sndNXT + 1
    /\ sendPC # "zero" => Sent <= sndUNA + sndWND
    /\ sendPC = "data1" => sndNXT < sndUNA + sndWND
    /\ sendPC \in {"emit", "advance"} =>
          toSend > 0 /\ sndNXT + toSend <= sndUNA + sndWND /\ sndNXT + toSend <= sndLBW

\* Acknowledgments in flight: a later one never has a smaller right edge, and
\* what the writer has taken is one of them.
AckInv ==
    /\ acks \subseteq [ack : Int, wnd : 0 .. MAX_BUF_SIZE]
    /\ \A m \in acks : /\ FirstByte <= m.ack /\ m.ack <= rcvNXT
                       /\ m.ack + m.wnd <= rcvLBR + MAX_BUF_SIZE
                       /\ m.ack > sndUNA => m.ack + m.wnd >= sndUNA + sndWND
    /\ \A m1, m2 \in acks : m1.ack < m2.ack => m1.ack + m1.wnd <= m2.ack + m2.wnd

\* An entry of either queue stands for bytes sent that fit the read buffer.
EntryOK(e) ==
    /\ FirstByte <= e.SequenceNum
    /\ EndOf(e) <= Sent
    /\ EndOf(e) <= rcvLBR + MAX_BUF_SIZE

\* The retransmission queue is in order and starts at or after UNA.
QueueInv ==
    /\ RetransmissionQueue \in Seq(EntrySet)
    /\ \A i \in 1 .. Len(RetransmissionQueue) :
          /\ EntryOK(RetransmissionQueue[i])
          /\ sndUNA <= RetransmissionQueue[i].SequenceNum
    /\ \A i, j \in 1 .. Len(RetransmissionQueue) :
          i < j => RetransmissionQueue[i].SequenceNum < RetransmissionQueue[j].SequenceNum

EarlyInv ==
    /\ EarlyArrivalQueue \in Seq(EntrySet)
    /\ \A i \in 1 .. Len(EarlyArrivalQueue) : EntryOK(EarlyArrivalQueue[i])

\* A segment in flight carries the bytes its sequence numbers say, but for a
\* probe of the byte just acknowledged, whose slot Write may have filled again;
\* unless it is a one-byte probe it ends inside the window of the reader.
SegmentOK(m) ==
    /\ m = Segment(m.seq, m.len, m.data)
    /\ m.seq \in Int /\ m.len \in 1 .. MSS_DATA
    /\ FirstByte <= m.seq /\ m.seq + m.len <= Sent
    /\ m.len = 1 \/ m.seq + m.len <= rcvLBR + MAX_BUF_SIZE
    /\ m.data \in [m.seq .. m.seq + m.len - 1 -> Bytes]
    /\ m.seq < sndUNA \/ m.data = [p \in m.seq .. m.seq + m.len - 1 |-> p]

SegmentInv == \A m \in segs : SegmentOK(m)

\* The send buffer holds the last MAX_BUF_SIZE bytes written.
SendBufferInv ==
    /\ sndBuffer \in [Slots -> Bytes]
    /\ \A p \in FirstByte .. sndLBW - 1 :
          sndLBW - MAX_BUF_SIZE <= p => sndBuffer[SequenceToBufferInd(p)] = p

\* The receive buffer holds the unread bytes and the early arrivals.
Held(p) ==
    p < rcvNXT \/ \E i \in 1 .. Len(EarlyArrivalQueue) : Covers(EarlyArrivalQueue[i], p)

ReceiveBufferInv ==
    /\ rcvBuffer \in [Slots -> Bytes]
    /\ \A p \in rcvLBR .. rcvLBR + MAX_BUF_SIZE - 1 :
          Held(p) => rcvBuffer[SequenceToBufferInd(p)] = p

GotInv == got = [p \in FirstByte .. rcvLBR - 1 |-> p]

\* The conjunction is inductive: the windows bound what Send may emit, which
\* bounds what the reader accepts, which keeps a slot from being reused early.
IndInv ==
    /\ ControlInv /\ OrderInv /\ WindowInv /\ AckInv /\ QueueInv /\ EarlyInv
    /\ SegmentInv /\ SendBufferInv /\ ReceiveBufferInv /\ GotInv
-----------------------------------------------------------------------------
(* How the segments divide the stream. IndInv does not need it.            *)

\* The end of what Send has put on the retransmission queue; a probe is not.
QueuedEnd == sndNXT + IF sendPC = "advance" THEN Min2(toSend, MSS_DATA) ELSE 0

InQueue(e) == \E i \in 1 .. Len(RetransmissionQueue) : RetransmissionQueue[i] = e

\* The entries of a queue are in order and disjoint.
Sorted(queue) ==
    \A i, j \in 1 .. Len(queue) : i < j => EndOf(queue[i]) <= queue[j].SequenceNum

\* No queued segment has bytes on both sides of the sequence number n.
Uncut(n) ==
    \A i \in 1 .. Len(RetransmissionQueue) :
        n <= RetransmissionQueue[i].SequenceNum \/ EndOf(RetransmissionQueue[i]) <= n

\* What is or may become an acknowledgment number.
Edges ==
    {rcvNXT} \cup {m.ack : m \in acks} \cup {m.seq + m.len : m \in segs}
    \cup {EndOf(EarlyArrivalQueue[i]) : i \in 1 .. Len(EarlyArrivalQueue)}

\* The queued segments are disjoint, hold all that is sent and not acknowledged,
\* and no acknowledgment cuts one: removing the acknowledged ones loses no other.
TilingInv ==
    /\ Sorted(RetransmissionQueue)
    /\ \A p \in FirstByte .. QueuedEnd - 1 : p >= sndUNA =>
          \E i \in 1 .. Len(RetransmissionQueue) : Covers(RetransmissionQueue[i], p)
    /\ \A n \in Edges : Uncut(n)

\* What is in flight ahead of RCV.NXT is a queued segment, and so is, as long
\* as the network duplicates nothing, an early arrival. Those are in order,
\* past RCV.NXT, and have no second copy in flight, since only the segment at
\* UNA is ever sent again.
AheadInv ==
    /\ \A m \in segs : m.seq >= rcvNXT =>
          InQueue(Entry(m.seq, m.len)) \/ (m.len = 1 /\ m.seq = rcvNXT)
    /\ dups = 0 =>
          /\ \A i \in 1 .. Len(EarlyArrivalQueue) :
                /\ EarlyArrivalQueue[i].SequenceNum > rcvNXT
                /\ InQueue(EarlyArrivalQueue[i])
                /\ \A m \in segs : m.seq # EarlyArrivalQueue[i].SequenceNum
          /\ Sorted(EarlyArrivalQueue)

\* All of it: inductive as well.
WholeInv == IndInv /\ TilingInv /\ AheadInv
=============================================================================
