--------------------------- MODULE EarlyArrivals ---------------------------
(***************************************************************************)
(* The early arrival queue of a receiving TCB: the segments that arrived   *)
(* inside the window but past RCV.NXT, as <sequence number, length> pairs  *)
(* whose bytes are already in the receive buffer.                          *)
(***************************************************************************)
EXTENDS Integers, Sequences, FiniteSetsExt

Entry(seq, len) == [SequenceNum |-> seq, PayloadLen |-> len]

EndOf(e) == e.SequenceNum + e.PayloadLen

\* (SequencesExt has it, too; its other definitions slow the proofs down)
InsertAt(s, i, e) == SubSeq(s, 1, i - 1) \o <<e>> \o SubSeq(s, i, Len(s))

\* Push: before the first entry that starts at or after the end of the new
\* one, at the back if there is none
Push(queue, new) ==
    LET later == {i \in 1 .. Len(queue) : EndOf(new) <= queue[i].SequenceNum}
    IN  IF later = {} THEN Append(queue, new) ELSE InsertAt(queue, Min(later), new)

\* the first k entries continue the stream from nextAck without a gap
Contiguous(queue, nextAck, k) ==
    \A i \in 1 .. k :
        queue[i].SequenceNum = IF i = 1 THEN nextAck ELSE EndOf(queue[i-1])

\* Mutation of Popped: the last entry is never popped.
PoppedButLast(queue, nextAck) ==
    Max({0} \cup {k \in 0 .. Len(queue) - 1 : Contiguous(queue, nextAck, k)})

\* how many entries the loop of updateAckNum pops
Popped(queue, nextAck) ==
    Max({k \in 0 .. Len(queue) : Contiguous(queue, nextAck, k)})

\* updateAckNum: the acknowledgment number after merging, and what is left
AckNumAfter(queue, nextAck) ==
    LET k == Popped(queue, nextAck)
    IN  IF k = 0 THEN nextAck ELSE EndOf(queue[k])

QueueAfter(queue, nextAck) ==
    SubSeq(queue, Popped(queue, nextAck) + 1, Len(queue))
=============================================================================
