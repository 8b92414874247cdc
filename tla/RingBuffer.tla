----------------------------- MODULE RingBuffer -----------------------------
(***************************************************************************)
(* The circular byte buffers of a TCB (Send.Buffer and Receive.Buffer).    *)
(*                                                                         *)
(* A byte is identified with the sequence number it was written at, so a   *)
(* buffer is a function from slots to sequence numbers and a payload is a  *)
(* function from the sequence numbers it covers to the bytes it carries:   *)
(* payload[p] = p exactly when the right byte is in the right place.       *)
(* Sequence numbers do not wrap here (see README, "Bounds").               *)
(***************************************************************************)
EXTENDS Integers

CONSTANT MAX_BUF_SIZE    \* capacity of each buffer, in bytes

ASSUME BufferAssumption == MAX_BUF_SIZE \in Nat \ {0}

\* SequenceToBufferInd: the slot of a sequence number
SequenceToBufferInd(seq) == seq % MAX_BUF_SIZE

Slots == 0 .. MAX_BUF_SIZE - 1

\* The two-part copies at the end of the buffer are one copy modulo its size.
CopyIn(buffer, payload) ==
    [slot \in Slots |->
        IF \E p \in DOMAIN payload : SequenceToBufferInd(p) = slot
        THEN payload[CHOOSE p \in DOMAIN payload : SequenceToBufferInd(p) = slot]
        ELSE buffer[slot]]

CopyOut(buffer, seq, len) ==
    [p \in seq .. seq + len - 1 |-> buffer[SequenceToBufferInd(p)]]

\* Min of tcp_handler_utils.go
Min2(a, b) == IF a < b THEN a ELSE b
=============================================================================
