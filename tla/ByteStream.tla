----------------------------- MODULE ByteStream -----------------------------
(***************************************************************************)
(* What VWrite on one end and VRead on the other promise: the reader gets  *)
(* the written bytes, each once, in the order they were written, and the   *)
(* writer is never more than Capacity bytes ahead of the reader.           *)
(***************************************************************************)
EXTENDS Integers

CONSTANTS First,      \* sequence number of the first byte
          Capacity    \* bytes that may be written and not read yet

VARIABLES written,    \* sequence number of the next byte to be written
          read,       \* sequence number of the next byte to be read
          taken       \* the bytes read so far, by sequence number

streamVars == <<written, read, taken>>

\* A byte is named by the sequence number it is written at.
Prefix(to) == [p \in First .. to - 1 |-> p]

StreamInit == written = First /\ read = First /\ taken = Prefix(First)

Put ==
    /\ \E n \in 1 .. Capacity : written' = written + n
    /\ written' - read <= Capacity
    /\ UNCHANGED <<read, taken>>

Take ==
    /\ \E n \in 1 .. Capacity : read' = read + n
    /\ read' <= written
    /\ taken' = Prefix(read')
    /\ UNCHANGED written

StreamSpec == StreamInit /\ [][Put \/ Take]_streamVars
=============================================================================
