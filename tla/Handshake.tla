------------------------------ MODULE Handshake ------------------------------
(***************************************************************************)
(* Opening connections: Connect on the clients; the listener of a server   *)
(* with HandleStateListen, HandleStateSynReceived, WaitForAckReceiver, the *)
(* loop that calls Accept, and CloseListener. None of this code takes      *)
(* TCBLock; PendingConnMutex guards only the waiting of Accept.            *)
(*                                                                         *)
(* A connection is a client port, so one call of Connect. The server may   *)
(* make more than one TCB for it; the k-th has its own ISS, which a packet *)
(* shows in the field k.                                                   *)
(***************************************************************************)
EXTENDS Integers, Sequences, FiniteSets, Functions

CONSTANTS Conns,
          MAX_RETRANSMISSIONS,
          MaxTCBs,      \* bound: TCBs that the server makes for one connection
          Faults,       \* bound: packets the network loses or delivers twice, in all
          IPErrors,     \* bound: calls of Connect that the IP layer has no route for
          Scenarios     \* what the applications do and which schedules they meet

\* slow:     a timeout although the packet it waits for is still on its way
\* dispatch: ReceivePacket looks up table and State, its handler runs later
\* resend:   WaitForAckReceiver is busy with a retransmission when the ACK comes
\* append:   two goroutines update PendingConnections at once
RaceNames == {"slow", "dispatch", "resend", "append"}

\* connect: the clients that call Connect; closes: whether the server's
\* application closes the listener; races: the unlucky schedules that may happen
Scenario == [connect : SUBSET Conns, closes : BOOLEAN, races : SUBSET RaceNames]

ASSUME HandshakeAssumption ==
    /\ IsFiniteSet(Conns)
    /\ {MAX_RETRANSMISSIONS, MaxTCBs, Faults, IPErrors} \subseteq Nat
    /\ Scenarios \subseteq Scenario

VARIABLES client,   \* per connection: the TCB of the client and its Connect
          server,   \* per connection: the TCBs that the server made for it
          table,    \* per connection: the one in the SocketTable, or 0
          listener, \* the TCB of the listener, CloseListener, and the handlers at work on it
          accept,   \* the goroutine of acceptHelper
          net, faults

vars == <<client, server, table, listener, accept, net, faults>>

\* at: on the wire, or the State that ReceivePacket found; on: the TCB it found
Packet(c, flags, k) == [c |-> c, flags |-> flags, k |-> k, at |-> "wire", on |-> 0]

Init ==
    /\ client = [c \in Conns |-> [State |-> "CLOSED", connect |-> "no", RetransmitCounter |-> 0,
                                  peer |-> 0,           \* whose ISS is in RCV.NXT
                                  offers |-> {}]]       \* handlers at ReceiveChan
    /\ server = [c \in Conns |-> <<>>]
    /\ table = [c \in Conns |-> 0]
    /\ listener \in {[scenario |-> s, inTable |-> TRUE, Cancelled |-> FALSE, PendingConnections |-> <<>>,
                   mutex |-> "free", close |-> "no", crashed |-> FALSE,
                   appending |-> {},    \* handlers that have read PendingConnections
                   signals |-> 0]       \* handlers that are about to signal
                     : s \in Scenarios}
    /\ accept = [pc |-> "call", conns |-> <<>>]
    /\ net = {} /\ faults = 0

serverVars == <<server, table, listener, accept>>

Unlucky(race) == race \in listener.scenario.races

\* RTO_UPPER, one second, is longer than a packet takes
TimeoutFor(c) == Unlucky("slow") \/ \A m \in net : m.c # c

-----------------------------------------------------------------------------
(* Connect.                                                                *)

Connect(c) ==
    /\ client[c].connect = "no" /\ c \in listener.scenario.connect
    /\ client' = [client EXCEPT ![c].State = "SYN_SENT", ![c].connect = "select"]
    /\ net' = net \cup {Packet(c, "SYN", 0)}
    /\ UNCHANGED <<serverVars, faults>>

\* ReadFromHandler found no route and returns: the SYN is not sent, the TCB stays
ConnectError(c) ==
    /\ client[c].connect = "no" /\ c \in listener.scenario.connect
    /\ Cardinality({d \in Conns : client[d].connect \in {"unreachable", "hangs"}}) < IPErrors
    /\ client' = [client EXCEPT ![c].State = "SYN_SENT", ![c].connect = "unreachable"]
    /\ UNCHANGED <<serverVars, net, faults>>

\* the next Connect on that node, with a port of its own, stays at its send to
\* IPLayerChannel, which nobody reads any more
ConnectHangs(c) ==
    /\ client[c].connect = "unreachable"
    /\ client' = [client EXCEPT ![c].connect = "hangs"]
    /\ UNCHANGED <<serverVars, net, faults>>

ConnectResend(c) ==
    /\ client[c].connect = "select" /\ TimeoutFor(c)
    /\ client[c].RetransmitCounter # MAX_RETRANSMISSIONS
    /\ client' = [client EXCEPT ![c].RetransmitCounter = @ + 1]
    /\ net' = net \cup {Packet(c, "SYN", 0)}
    /\ UNCHANGED <<serverVars, faults>>

\* Mutation of ConnectTimesOut: the limit is off by one and never met.
ConnectTimesOutLate(c) ==
    /\ client[c].connect = "select" /\ TimeoutFor(c)
    /\ client[c].RetransmitCounter = MAX_RETRANSMISSIONS + 1
    /\ client' = [client EXCEPT ![c].State = "CLOSED", ![c].connect = "error"]
    /\ UNCHANGED <<serverVars, net, faults>>

ConnectTimesOut(c) ==
    /\ client[c].connect = "select" /\ TimeoutFor(c)
    /\ client[c].RetransmitCounter = MAX_RETRANSMISSIONS
    /\ client' = [client EXCEPT ![c].State = "CLOSED", ![c].connect = "error"]
    /\ UNCHANGED <<serverVars, net, faults>>

\* Connect meets the handler of a SYN|ACK at ReceiveChan; the handler then
\* sends the ACK and starts Send and waitTimeout
ConnectReturns(c) ==
    /\ client[c].connect = "select"
    /\ \E k \in client[c].offers :
          /\ client' = [client EXCEPT ![c].RetransmitCounter = 0, ![c].connect = "done",
                                      ![c].offers = @ \ {k}]
          /\ net' = net \cup {Packet(c, "ACK", k)}
    /\ UNCHANGED <<serverVars, faults>>

-----------------------------------------------------------------------------
(* The handlers. rest is what else is in flight.                           *)

\* the check of the acknowledgment number against SND.ISS, which an earlier
\* handler has replaced by a random number
HandleStateSynSent(m, rest) ==
    /\ \/ client' = [client EXCEPT ![m.c].State = "ESTABLISHED", ![m.c].peer = m.k,
                                   ![m.c].offers = @ \cup {m.k}]
       \/ client[m.c].peer # 0 /\ UNCHANGED client
    /\ net' = rest
    /\ UNCHANGED serverVars

NewTCB == [State |-> "SYN_RECEIVED", RetransmitCounter |-> 0,
           wait |-> "select",   \* WaitForAckReceiver: in select, retransmitting, returned
           token |-> 0,         \* in the buffer of RTOTimeoutChan
           waitTimeout |-> FALSE]

HandleStateListen(m, rest) ==
    /\ IF m.flags = "SYN"
       THEN /\ Len(server[m.c]) < MaxTCBs
            /\ server' = [server EXCEPT ![m.c] = Append(@, NewTCB)]
            /\ table' = [table EXCEPT ![m.c] = Len(server[m.c]) + 1]
            /\ net' = rest \cup {Packet(m.c, "SYN|ACK", Len(server[m.c]) + 1)}
       ELSE net' = rest /\ UNCHANGED <<server, table>>
    /\ UNCHANGED <<client, listener, accept>>

\* Mutation of Acknowledged: WaitForAckReceiver is not told.
AcknowledgedSilently(t) == [t EXCEPT !.State = "ESTABLISHED", !.waitTimeout = TRUE]

\* the token ends WaitForAckReceiver if that is in its select, and stays in the
\* buffer if not
Acknowledged(t) ==
    LET u == [t EXCEPT !.State = "ESTABLISHED", !.waitTimeout = TRUE]
    IN  IF t.wait = "select" THEN [u EXCEPT !.wait = "exit", !.RetransmitCounter = 0]
        ELSE [u EXCEPT !.token = @ + 1]

\* Mutation of NewPending: the queue holds one connection.
NewPendingOverwrites(l, c) ==
    IF ~l.inTable THEN [l EXCEPT !.crashed = TRUE]
    ELSE [l EXCEPT !.PendingConnections = <<c>>, !.signals = @ + 1]

\* the listener is looked up without a test that it is still there
NewPending(l, c) ==
    IF ~l.inTable THEN [l EXCEPT !.crashed = TRUE]
    ELSE IF Unlucky("append")
    THEN [l EXCEPT !.appending = @ \cup {[c |-> c, old |-> l.PendingConnections]}]
    ELSE [l EXCEPT !.PendingConnections = Append(@, c), !.signals = @ + 1]

\* Mutation of HandleStateSynReceived: the acknowledgment number is not checked.
HandleStateSynReceivedAny(m, k, rest) ==
    \/ /\ m.flags = "SYN"
       /\ net' = rest \cup {Packet(m.c, "SYN|ACK", k)}
       /\ UNCHANGED <<client, serverVars>>
    \/ /\ m.flags = "ACK"
       /\ server' = [server EXCEPT ![m.c][k] = Acknowledged(@)]
       /\ listener' = NewPending(listener, m.c)
       /\ net' = rest
       /\ UNCHANGED <<client, table, accept>>

HandleStateSynReceived(m, k, rest) ==
    \/ /\ m.flags = "SYN"
       /\ net' = rest \cup {Packet(m.c, "SYN|ACK", k)}
       /\ UNCHANGED <<client, serverVars>>
    \/ /\ m.flags = "ACK" /\ m.k = k
       /\ server' = [server EXCEPT ![m.c][k] = Acknowledged(@)]
       /\ listener' = NewPending(listener, m.c)
       /\ net' = rest
       /\ UNCHANGED <<client, table, accept>>
    \/ /\ m.flags = "ACK" /\ m.k # k
       /\ net' = rest
       /\ UNCHANGED <<client, serverVars>>

\* the State that ReceivePacket finds; a SYN|ACK goes to the client
Lookup(m) ==
    IF m.flags = "SYN|ACK" THEN client[m.c].State
    ELSE IF table[m.c] # 0 THEN server[m.c][table[m.c]].State
    ELSE IF listener.inTable THEN "LISTEN" ELSE "CLOSED"

\* Receive ignores a packet of the handshake: it has no data and no news
Handle(state, m, k, rest) ==
    \/ state = "SYN_SENT"     /\ HandleStateSynSent(m, rest)
    \/ state = "LISTEN"       /\ HandleStateListen(m, rest)
    \/ state = "SYN_RECEIVED" /\ HandleStateSynReceived(m, k, rest)
    \/ state \in {"ESTABLISHED", "CLOSED"} /\ net' = rest /\ UNCHANGED <<client, serverVars>>

ReceivePacket(m) ==
    /\ m.at = "wire"
    /\ \E rest \in {net \ {m}, net} :
          /\ faults' = faults + IF rest = net THEN 1 ELSE 0
          /\ faults' <= Faults
          /\ Handle(Lookup(m), m, table[m.c], rest)

Dispatch(m) ==
    /\ Unlucky("dispatch") /\ m.at = "wire"
    /\ \E rest \in {net \ {m}, net} :
          /\ faults' = faults + IF rest = net THEN 1 ELSE 0
          /\ faults' <= Faults
          /\ net' = rest \cup {[m EXCEPT !.at = Lookup(m), !.on = table[m.c]]}
    /\ UNCHANGED <<client, serverVars>>

HandlerRuns(m) ==
    /\ m.at # "wire"
    /\ Handle(m.at, m, m.on, net \ {m})
    /\ UNCHANGED faults

Lose(m) ==
    /\ m.at = "wire" /\ faults < Faults
    /\ net' = net \ {m} /\ faults' = faults + 1
    /\ UNCHANGED <<client, serverVars>>

-----------------------------------------------------------------------------
(* WaitForAckReceiver of the k-th TCB, and waitTimeout beside it.          *)

Waits(c, k) == k \in 1 .. Len(server[c]) /\ server[c][k].wait = "select" /\ TimeoutFor(c)

\* Mutation of AckResend: the limit is not tested.
AckResendForever(c, k) ==
    /\ Waits(c, k)
    /\ server' = [server EXCEPT ![c][k].RetransmitCounter = @ + 1]
    /\ net' = net \cup {Packet(c, "SYN|ACK", k)}
    /\ UNCHANGED <<client, table, listener, accept, faults>>

\* the counter is up, and the SYN|ACK waits for IPLayerChannel
Resending(t) == [t EXCEPT !.RetransmitCounter = @ + 1, !.wait = "resend"]

AckResend(c, k) ==
    /\ Waits(c, k) /\ server[c][k].RetransmitCounter # MAX_RETRANSMISSIONS
    /\ \/ /\ ~Unlucky("resend")
          /\ server' = [server EXCEPT ![c][k].RetransmitCounter = @ + 1]
          /\ net' = net \cup {Packet(c, "SYN|ACK", k)}
       \/ /\ Unlucky("resend")
          /\ server' = [server EXCEPT ![c][k] = Resending(@)]
          /\ UNCHANGED net
    /\ UNCHANGED <<client, table, listener, accept, faults>>

\* back in its select, it takes a token that is there
Resent(t) ==
    IF t.token > 0 THEN [t EXCEPT !.wait = "exit", !.RetransmitCounter = 0, !.token = @ - 1]
    ELSE [t EXCEPT !.wait = "select"]

AckResent(c, k) ==
    /\ k \in 1 .. Len(server[c]) /\ server[c][k].wait = "resend"
    /\ server' = [server EXCEPT ![c][k] = Resent(@)]
    /\ net' = net \cup {Packet(c, "SYN|ACK", k)}
    /\ UNCHANGED <<client, table, listener, accept, faults>>

\* waitTimeout takes the token to restart its timer
TokenTaken(c, k) ==
    /\ k \in 1 .. Len(server[c]) /\ server[c][k].waitTimeout /\ server[c][k].token > 0
    /\ server' = [server EXCEPT ![c][k].token = @ - 1]
    /\ UNCHANGED <<client, table, listener, accept, net, faults>>

\* deletes what is in the table for the connection
AckTimesOut(c, k) ==
    /\ Waits(c, k) /\ server[c][k].RetransmitCounter = MAX_RETRANSMISSIONS
    /\ server' = [server EXCEPT ![c][k].State = "CLOSED", ![c][k].wait = "exit"]
    /\ table' = [table EXCEPT ![c] = 0]
    /\ UNCHANGED <<client, listener, accept, net, faults>>

-----------------------------------------------------------------------------
(* The pending connections, Accept and CloseListener.                      *)

\* the second half of the append of HandleStateSynReceived
AppendPending(a) ==
    /\ listener' = [listener EXCEPT !.appending = @ \ {a}, !.signals = @ + 1,
                                    !.PendingConnections = Append(a.old, a.c)]
    /\ UNCHANGED <<client, server, table, accept, net, faults>>

WakeAccept == [accept EXCEPT !.pc = IF @ = "asleep" THEN "woken" ELSE @]

SignalPending ==
    /\ listener.signals > 0 /\ listener.mutex = "free"
    /\ listener' = [listener EXCEPT !.signals = @ - 1]
    /\ accept' = WakeAccept
    /\ UNCHANGED <<client, server, table, net, faults>>

\* Mutation of Pop: the connection stays in the queue.
PopKeeps ==
    /\ accept' = [pc |-> "call", conns |-> Append(accept.conns, Head(listener.PendingConnections))]
    /\ Len(accept.conns) < 3 /\ UNCHANGED listener

Pop ==
    /\ listener' = [listener EXCEPT !.PendingConnections = Tail(@)]
    /\ accept' = [pc |-> "call", conns |-> Append(accept.conns, Head(listener.PendingConnections))]

\* the loop of acceptHelper calls Accept until it returns an error
AcceptCall ==
    /\ accept.pc = "call"
    /\ \/ /\ ~listener.inTable
          /\ accept' = [accept EXCEPT !.pc = "exit"] /\ UNCHANGED listener
       \/ /\ listener.inTable /\ listener.PendingConnections # <<>>
          /\ Pop
       \/ /\ listener.inTable /\ listener.PendingConnections = <<>>
          /\ accept' = [accept EXCEPT !.pc = "lock"] /\ UNCHANGED listener
    /\ UNCHANGED <<client, server, table, net, faults>>

\* Mutation of AcceptLocked: the queue is not looked at again under the mutex.
AcceptLockedBlind ==
    /\ accept.pc \in {"lock", "woken"} /\ listener.mutex = "free"
    /\ \/ accept.pc = "woken" /\ listener.PendingConnections # <<>> /\ Pop
       \/ /\ accept.pc = "lock" \/ listener.PendingConnections = <<>>
          /\ accept' = [accept EXCEPT !.pc = "asleep"] /\ UNCHANGED listener
    /\ UNCHANGED <<client, server, table, net, faults>>

\* the error return at line 211 keeps the mutex
AcceptLocked ==
    /\ accept.pc \in {"lock", "woken"} /\ listener.mutex = "free"
    /\ LET cancelled == accept.pc = "woken" /\ listener.Cancelled
       IN  \/ /\ cancelled
              /\ accept' = [accept EXCEPT !.pc = "exit"]
              /\ listener' = [listener EXCEPT !.mutex = "leaked"]
           \/ /\ ~cancelled /\ listener.PendingConnections # <<>>
              /\ Pop
           \/ /\ ~cancelled /\ listener.PendingConnections = <<>>
              /\ accept' = [accept EXCEPT !.pc = "asleep"] /\ UNCHANGED listener
    /\ UNCHANGED <<client, server, table, net, faults>>

CloseListener ==
    /\ listener.scenario.closes /\ listener.close = "no"
    /\ listener' = [listener EXCEPT !.Cancelled = TRUE, !.close = "signal"]
    /\ UNCHANGED <<client, server, table, accept, net, faults>>

CloseSignals ==
    /\ listener.close = "signal" /\ listener.mutex = "free"
    /\ listener' = [listener EXCEPT !.close = "delete"]
    /\ accept' = WakeAccept
    /\ UNCHANGED <<client, server, table, net, faults>>

CloseDeletes ==
    /\ listener.close = "delete"
    /\ listener' = [listener EXCEPT !.close = "done", !.inTable = FALSE]
    /\ UNCHANGED <<client, server, table, accept, net, faults>>

-----------------------------------------------------------------------------
Connecting(c) == \/ Connect(c) \/ ConnectError(c) \/ ConnectHangs(c)
                 \/ ConnectResend(c) \/ ConnectTimesOut(c) \/ ConnectReturns(c)
WaitForAckReceiver(c, k) == AckResend(c, k) \/ AckResent(c, k) \/ AckTimesOut(c, k)
Accepting == AcceptCall \/ AcceptLocked
Pending == SignalPending \/ \E a \in listener.appending : AppendPending(a)
Closing == CloseSignals \/ CloseDeletes
Arriving(c) == \E m \in net : m.c = c /\ (ReceivePacket(m) \/ HandlerRuns(m))

\* a nil dereference stops the whole server
Next ==
    /\ ~listener.crashed
    /\ \/ \E c \in Conns : Connecting(c) \/ Arriving(c)
       \/ \E c \in Conns, k \in 1 .. MaxTCBs : WaitForAckReceiver(c, k) \/ TokenTaken(c, k)
       \/ Accepting \/ Pending \/ CloseListener \/ Closing
       \/ \E m \in net : Dispatch(m) \/ Lose(m)

Spec == Init /\ [][Next]_vars

\* Every goroutine runs; nobody need call Connect or CloseListener.
FairSpec ==
    /\ Spec
    /\ WF_vars(Accepting) /\ WF_vars(Pending) /\ WF_vars(Closing)
    /\ \A c \in Conns : /\ WF_vars(Connecting(c) /\ client[c].connect = "select")
                        /\ WF_vars(Arriving(c))
                        /\ \A k \in 1 .. MaxTCBs : WF_vars(WaitForAckReceiver(c, k))

-----------------------------------------------------------------------------
(* Properties.                                                             *)

ConnStates == {"CLOSED", "SYN_SENT", "SYN_RECEIVED", "ESTABLISHED", "LISTEN"}
Indices == 1 .. MaxTCBs

\* The type of every variable.
TypeOK ==
    /\ client \in [Conns -> [State : ConnStates, peer : {0} \cup Indices, offers : SUBSET Indices,
                             connect : {"no", "select", "done", "error", "unreachable", "hangs"},
                             RetransmitCounter : 0 .. MAX_RETRANSMISSIONS]]
    /\ \A c \in Conns : \A k \in 1 .. Len(server[c]) :
          server[c][k] \in [State : ConnStates, RetransmitCounter : 0 .. MAX_RETRANSMISSIONS,
                            wait : {"select", "resend", "exit"}, token : Nat,
                            waitTimeout : BOOLEAN]
    /\ \A c \in Conns : table[c] \in 0 .. Len(server[c])
    /\ \A m \in net : m.k \in {0} \cup Indices /\ m.flags \in {"SYN", "SYN|ACK", "ACK"}
    /\ accept.pc \in {"call", "lock", "asleep", "woken", "exit"}
    /\ listener.mutex \in {"free", "leaked"}
    /\ listener.close \in {"no", "signal", "delete", "done"}

Established(c) == table[c] # 0 /\ server[c][table[c]].State = "ESTABLISHED"
Queued(c) == c \in Range(listener.PendingConnections) \cup {a.c : a \in listener.appending}
Accepted(c) == c \in Range(accept.conns)

\* Accept hands out a connection once, and never while it is pending still, as
\* long as the handler of an ACK runs before the State it was chosen for changes.
AcceptedOnce ==
    LET all == accept.conns \o listener.PendingConnections
    IN  Unlucky("dispatch") \/ \A i, j \in 1 .. Len(all) : all[i] = all[j] => i = j

\* README.md:39: the listener "keeps track of pending connections": one that is
\* established is queued until Accept has returned it, also when handlers run
\* late and tokens go astray. (The ACK that comes after CloseListener has
\* removed the listener stops the node.)
NothingLost == \A c \in Conns : Established(c) => Queued(c) \/ Accepted(c) \/ listener.crashed

\* The server has a connection established only with a client whose Connect
\* returned it, and the two have the same TCB in mind, as long as no two SYNs
\* are handled at once.
SamePeer ==
    \A c \in Conns : \A k \in 1 .. Len(server[c]) :
        server[c][k].State = "ESTABLISHED" /\ ~Unlucky("dispatch")
          => client[c].connect = "done" /\ client[c].peer = k

\* WaitForAckReceiver of the TCB in the table is over
Returned(c) == server[c][table[c]].wait = "exit"

\* tcp_segment_receive.go:171: the token is to "signal to goroutine that we have
\* received ACK and can return": an established connection is neither closed nor
\* taken out of the table by a timer, a handler or a late packet. Two exceptions:
\* handlers that run late ("dispatch"); and a WaitForAckReceiver that was busy
\* with a retransmission when the token came, until it has returned: waitTimeout
\* may take the token, and then it closes the connection.
EstablishedStays ==
    [][\A c \in Conns : Established(c) /\ ~Unlucky("dispatch") /\ (Unlucky("resend") => Returned(c))
                          => Established(c)' /\ table'[c] = table[c]]_vars

\* tcp_handler_core.go:26: "VConnect MUST block until the connection is established,
\* or an error occurs": one of the two happens once the SYN was handed to the IP
\* layer. (After an error nobody takes the SYN of a later call: ConnectHangs.)
ConnectEnds == \A c \in Conns : (client[c].connect = "select") ~> (client[c].connect \in {"done", "error"})

\* README.md:41: Accept is "signaled to when a new connection has been
\* established and added to the queue": no signal is lost.
AllAccepted == \A c \in Conns : Established(c) ~> Accepted(c)
=============================================================================
