---------------------------- MODULE MCHandshake ----------------------------
(***************************************************************************)
(* Clients and schedules for Handshake.                                    *)
(***************************************************************************)
EXTENDS Handshake, TLC

CONSTANTS c1, c2

Both(closes, races) == [connect |-> {c1, c2}, closes |-> closes, races |-> races]
One(races) == {[connect |-> {c}, closes |-> FALSE, races |-> races] : c \in {c1, c2}}

\* two clients with timeouts at any time, or a listener that is closed; one
\* client with the other unlucky schedules
Schedules == {Both(FALSE, {"slow"}), Both(TRUE, {})} \cup One({"slow", "resend"})
             \cup One({"dispatch", "append", "resend"})

\* two clients, and packets are late only when they are lost
Calm == {Both(FALSE, {})}

Symmetry == Permutations({c1, c2})
=============================================================================
