----------------------------- MODULE MCTeardown -----------------------------
(***************************************************************************)
(* Who writes, reads and closes, for Teardown.                             *)
(***************************************************************************)
EXTENDS Teardown

Does(writes, reads, closes, races) ==
    [writes |-> writes, reads |-> reads, closes |-> closes, races |-> races]
Pair(client, server) == [i \in Ends |-> IF i = "client" THEN client ELSE server]

Active  == {"ESTABLISHED"}
Passive == {"CLOSE_WAIT"}
Always  == Active \cup Passive

Slow == {"timeout"}
Worst == {"timeout", "timer", "msl"}

\* the client writes and closes, the server reads to the end and closes
ClientFirst == Pair(Does(TRUE, FALSE, Active, Slow), Does(FALSE, TRUE, Passive, Slow))

\* the server closes with the client's byte still to come; the client's timer fires late
ServerFirst == Pair(Does(TRUE, FALSE, Passive, {"timeout", "timer"}), Does(FALSE, TRUE, Active, {}))

\* handlers of the server that run with a State of the past
LateHandlers == Pair(Does(TRUE, FALSE, Active, Slow), Does(FALSE, TRUE, Passive, {"dispatch"}))

\* both close at any time, also at once; timers fire when it suits least
Together == Pair(Does(FALSE, FALSE, Always, Worst), Does(FALSE, FALSE, Always, Worst))

\* the client writes and either may close first, or both
Crossing == Pair(Does(TRUE, FALSE, Always, Slow), Does(FALSE, FALSE, Always, Slow))

\* nothing but the closing, in any order
Either == Pair(Does(FALSE, FALSE, Always, Slow), Does(FALSE, FALSE, Always, Slow))

\* the client writes and closes first
WriterFirst == Pair(Does(TRUE, FALSE, Active, Slow), Does(FALSE, FALSE, Passive, Slow))

Orders == {ClientFirst, ServerFirst, LateHandlers, Together, Crossing}
Closings == {Either, WriterFirst}
WriteAndClose == {Crossing}
=============================================================================
