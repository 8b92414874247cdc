----------------------------- MODULE Forwarding -----------------------------
(***************************************************************************)
(* The IP layer of a network of nodes whose routing tables stand still:    *)
(* ReadFromLinkLayer with the goroutines it starts, the ICMP handler and   *)
(* ReadEchoPacket at every node; the commands send and traceroute, and     *)
(* ReadFromHandler with a RIP and a TCP handler above it, at Origin.       *)
(*                                                                         *)
(* An address stands for its node. The tables are any of Tables, also ones *)
(* that RIP holds only for a while, with loops and dead ends. The network  *)
(* loses nothing. Versions, checksums and payloads are left out.           *)
(***************************************************************************)
EXTENDS Integers, Sequences, Functions

CONSTANTS Nodes,
          Origin,       \* the node whose user sends and traces
          Tables,       \* the routing tables there may be
          TTL_MAX, INFINITY,
          MaxInputs     \* bound: commands, and messages from above, in all

Entry(hop, cost) == [NextHop |-> hop, Cost |-> cost]

\* the table of a node has an entry of cost 0 for the node itself; a packet has
\* hops enough for every cost but INFINITY (both are 16 in the code)
ASSUME ForwardingAssumption ==
    /\ Origin \in Nodes
    /\ {TTL_MAX, INFINITY, MaxInputs} \subseteq Nat
    /\ 1 < INFINITY /\ INFINITY <= TTL_MAX
    /\ \A t \in Tables : \A n \in Nodes :
          /\ n \in DOMAIN t[n] /\ DOMAIN t[n] \subseteq Nodes /\ t[n][n] = Entry(n, 0)
          /\ \A d \in DOMAIN t[n] : t[n][d].Cost \in 0 .. INFINITY
          /\ \A d \in DOMAIN t[n] \ {n} : t[n][d].NextHop \in Nodes \ {n}

VARIABLES RoutingTable,
          wire,         \* how many of each packet are on their way to the node in its field at
          trace,        \* SendTraceroutePacket: where it is, and its variables
          HandleRoute,  \* set by AddChanRoutine of the handler at Origin
          RouteChan,    \* how many handlers wait to send each NextHopMsg
          reader,       \* ReadFromHandler of Origin
          fromRIP,      \* an update waits at MessageChannel
          crashed,      \* nodes that dereferenced a nil entry
          inputs,       \* commands and messages so far
          sent, arrived \* where the command send reported no error; who has printed

vars == <<RoutingTable, wire, trace, HandleRoute, RouteChan, reader, fromRIP, crashed,
          inputs, sent, arrived>>

\* b has the number of each packet. (Bags has these, too; its theorems would be
\* in the way of every proof.)
Empty == [x \in {} |-> 1]
Put(b, new) ==
    [x \in DOMAIN b \cup new |-> IF x \notin DOMAIN b THEN 1 ELSE IF x \in new THEN b[x] + 1 ELSE b[x]]
Take(b, x) ==
    [y \in {y \in DOMAIN b : y = x => b[y] > 1} |-> IF y = x THEN b[y] - 1 ELSE b[y]]

Packet(src, dst, kind, ttl) == [at |-> src, src |-> src, dst |-> dst, kind |-> kind, ttl |-> ttl]

Init ==
    /\ RoutingTable \in Tables
    /\ wire = Empty /\ RouteChan = Empty
    /\ trace = [pc |-> "idle", dst |-> Origin, currTTL |-> 1, path |-> <<>>]
    /\ HandleRoute = FALSE
    /\ reader = "run" /\ fromRIP = FALSE
    /\ crashed = {}
    /\ inputs = 0
    /\ sent = {} /\ arrived = {}

HasEntry(n, d) == d \in DOMAIN RoutingTable[n]
Reach(n, d) == HasEntry(n, d) /\ RoutingTable[n][d].Cost # INFINITY

\* What SendToLinkLayer sends, a packet or nothing. RemoteDestination has the
\* neighbours only: a packet with the own address as next hop is not sent.
Out(n, p) ==
    LET hop == RoutingTable[n][p.dst].NextHop
    IN  IF hop = n THEN {} ELSE {[p EXCEPT !.at = hop]}

\* Mutation of OutIfReachable: the longest route counts as none.
OutIfCloser(n, p) ==
    IF Reach(n, p.dst) /\ RoutingTable[n][p.dst].Cost < INFINITY - 1 THEN Out(n, p) ELSE {}

OutIfReachable(n, p) == IF Reach(n, p.dst) THEN Out(n, p) ELSE {}

-----------------------------------------------------------------------------
(* ReadFromLinkLayer, and the handlers it starts. rest: the other packets. *)

\* sendICMPTimeExceeded
TimeExceeded(n, p) == OutIfReachable(n, Packet(n, p.src, "exceeded", TTL_MAX))

\* Mutation of Forward: a packet with one hop left is announced as expired, too.
ForwardWarned(n, p) ==
    (IF p.ttl - 1 <= 1 THEN TimeExceeded(n, p) ELSE {})
    \cup IF p.ttl - 1 = 0 THEN {} ELSE OutIfReachable(n, [p EXCEPT !.ttl = @ - 1])

\* Mutation of Forward: the TTL is not tested.
ForwardAnyway(n, p) == OutIfReachable(n, [p EXCEPT !.ttl = @ - 1])

\* SendToLinkLayer, unless the TTL is used up
Forward(n, p) ==
    IF p.ttl - 1 = 0 THEN TimeExceeded(n, p)
    ELSE OutIfReachable(n, [p EXCEPT !.ttl = @ - 1])

\* Mutation of EchoReply: the reply has the TTL of the echo.
EchoReplyShort(p) == Packet(p.dst, p.src, "reply", p.ttl)

EchoReply(p) == Packet(p.dst, p.src, "reply", TTL_MAX)

\* ReadEchoPacket, which takes CheckRoute's nil for an entry
Echo(n, p, rest) ==
    \/ /\ HasEntry(n, p.src)
       /\ wire' = Put(rest, Out(n, EchoReply(p)))
       /\ UNCHANGED crashed
    \/ /\ ~HasEntry(n, p.src)
       /\ wire' = rest /\ crashed' = crashed \cup {n}

ToRouteChan(found, p) == RouteChan' = Put(RouteChan, {[Found |-> found, NextHop |-> p.src]})

\* ReceivePacket of the TracerouteHandler; the other handlers take the packet
Deliver(n, p, rest) ==
    \/ p.kind = "echo" /\ Echo(n, p, rest) /\ UNCHANGED <<RouteChan, arrived>>
    \/ /\ p.kind = "reply" /\ ToRouteChan(TRUE, p)
       /\ wire' = rest /\ UNCHANGED <<crashed, arrived>>
    \/ /\ p.kind = "exceeded" /\ wire' = rest
       /\ IF n = Origin /\ HandleRoute THEN ToRouteChan(FALSE, p) ELSE UNCHANGED RouteChan
       /\ UNCHANGED <<crashed, arrived>>
    \/ /\ p.kind = "data" /\ arrived' = arrived \cup {n}
       /\ wire' = rest /\ UNCHANGED <<crashed, RouteChan>>
    \/ /\ p.kind \in {"tcp", "rip"}
       /\ wire' = rest /\ UNCHANGED <<crashed, RouteChan, arrived>>

ReadFromLinkLayer(p) ==
    /\ p.at \notin crashed
    /\ LET rest == Take(wire, p)
       IN  \/ p.at = p.dst /\ Deliver(p.at, p, rest)
           \/ /\ p.at # p.dst /\ wire' = Put(rest, Forward(p.at, p))
              /\ UNCHANGED <<crashed, RouteChan, arrived>>
    /\ UNCHANGED <<RoutingTable, trace, HandleRoute, reader, fromRIP, inputs, sent>>

-----------------------------------------------------------------------------
(* The user of Origin. The commands run one after the other.               *)

Prompt == Origin \notin crashed /\ trace.pc \in {"idle", "done"}

\* a packet for the node itself goes to its own PacketChannel
SendPacket(d) ==
    /\ Prompt /\ inputs < MaxInputs
    /\ inputs' = inputs + 1
    /\ LET p == Packet(Origin, d, "data", TTL_MAX)
       IN  wire' = Put(wire, IF d = Origin THEN {p} ELSE OutIfReachable(Origin, p))
    /\ sent' = IF Reach(Origin, d) THEN sent \cup {d} ELSE sent
    /\ UNCHANGED <<RoutingTable, trace, HandleRoute, RouteChan, reader, fromRIP, crashed, arrived>>

\* the command Traceroute deals with the node's own addresses itself
Traceroute(d) ==
    /\ Prompt /\ inputs < MaxInputs /\ d # Origin
    /\ inputs' = inputs + 1
    /\ trace' = [pc |-> IF Reach(Origin, d) THEN "send" ELSE "done",
                 dst |-> d, currTTL |-> 1, path |-> <<>>]
    /\ HandleRoute' = (HandleRoute \/ Reach(Origin, d))     \* AddChanRoutine
    /\ UNCHANGED <<RoutingTable, wire, RouteChan, reader, fromRIP, crashed, sent, arrived>>

TraceEcho ==
    /\ Origin \notin crashed /\ trace.pc = "send"
    /\ trace' = [trace EXCEPT !.pc = IF trace.currTTL <= INFINITY THEN "wait" ELSE "done"]
    /\ wire' = IF trace.currTTL > INFINITY THEN wire
               ELSE Put(wire, Out(Origin, Packet(Origin, trace.dst, "echo", trace.currTTL)))
    /\ UNCHANGED <<RoutingTable, HandleRoute, RouteChan, reader, fromRIP, crashed, inputs, sent, arrived>>

\* Mutation of Answered: after a hop the TTL grows by two.
AnsweredTwice(t, msg) ==
    [t EXCEPT !.path = Append(@, msg.NextHop), !.currTTL = @ + IF msg.Found THEN 0 ELSE 2,
              !.pc = IF msg.Found THEN "done" ELSE "send"]

\* what the loop makes of an answer
Answered(t, msg) ==
    [t EXCEPT !.path = Append(@, msg.NextHop), !.currTTL = @ + IF msg.Found THEN 0 ELSE 1,
              !.pc = IF msg.Found THEN "done" ELSE "send"]

TraceHop(msg) ==
    /\ Origin \notin crashed /\ trace.pc = "wait"
    /\ RouteChan' = Take(RouteChan, msg)
    /\ trace' = Answered(trace, msg)
    /\ HandleRoute' = (HandleRoute /\ ~msg.Found)           \* RemoveChanRoutine
    /\ UNCHANGED <<RoutingTable, wire, reader, fromRIP, crashed, inputs, sent, arrived>>

-----------------------------------------------------------------------------
(* ReadFromHandler of Origin.                                              *)

UpdateDue ==
    /\ ~fromRIP /\ inputs < MaxInputs
    /\ fromRIP' = TRUE /\ inputs' = inputs + 1
    /\ UNCHANGED <<RoutingTable, wire, trace, HandleRoute, RouteChan, reader, crashed, sent, arrived>>

\* SendToNeighbor: a RIP message goes to the neighbour whatever the table says
ReadRIP(neighbor) ==
    /\ Origin \notin crashed /\ reader = "run" /\ fromRIP
    /\ fromRIP' = FALSE
    /\ wire' = Put(wire, {[Packet(Origin, neighbor, "rip", TTL_MAX) EXCEPT !.at = neighbor]})
    /\ UNCHANGED <<RoutingTable, trace, HandleRoute, RouteChan, reader, crashed, inputs, sent, arrived>>

\* A cost of INFINITY is not looked at. Without an entry the goroutine offers an
\* error, which only a Connect takes, and then returns.
ReadTCP(d) ==
    /\ Origin \notin crashed /\ reader = "run" /\ inputs < MaxInputs
    /\ inputs' = inputs + 1
    /\ reader' = IF HasEntry(Origin, d) THEN "run" ELSE "stopped"
    /\ wire' = Put(wire, IF HasEntry(Origin, d) THEN Out(Origin, Packet(Origin, d, "tcp", TTL_MAX))
                          ELSE {})
    /\ UNCHANGED <<RoutingTable, trace, HandleRoute, RouteChan, fromRIP, crashed, sent, arrived>>

-----------------------------------------------------------------------------
Neighbors == {n \in Nodes \ {Origin} : \E t \in Tables : \E d \in DOMAIN t[Origin] :
                                          t[Origin][d].NextHop = n}

Arriving == \E p \in DOMAIN wire : ReadFromLinkLayer(p)
Tracing  == TraceEcho \/ \E msg \in DOMAIN RouteChan : TraceHop(msg)
Updating == \E n \in Neighbors : ReadRIP(n)

Next ==
    \/ \E d \in Nodes : SendPacket(d) \/ Traceroute(d) \/ ReadTCP(d)
    \/ Arriving \/ Tracing \/ UpdateDue \/ Updating

\* The goroutines run and UDP delivers; nobody has to give a command.
Spec == Init /\ [][Next]_vars /\ WF_vars(Arriving) /\ WF_vars(Tracing) /\ WF_vars(Updating)

-----------------------------------------------------------------------------
(* Properties.                                                             *)

Packets == [at : Nodes, src : Nodes, dst : Nodes, ttl : 1 .. TTL_MAX,
            kind : {"echo", "reply", "exceeded", "data", "tcp", "rip"}]

\* The type of every variable. A packet on the wire has a TTL of at least 1: the
\* test for 0 in ReadFromLinkLayer, an equality, is never jumped over.
TypeOK ==
    /\ RoutingTable \in Tables
    /\ DOMAIN wire \subseteq Packets
    /\ trace.pc \in {"idle", "send", "wait", "done"} /\ trace.dst \in Nodes
    /\ trace.currTTL \in 1 .. INFINITY + 1
    /\ Len(trace.path) <= INFINITY /\ \A i \in 1 .. Len(trace.path) : trace.path[i] \in Nodes
    /\ {HandleRoute, fromRIP} \subseteq BOOLEAN
    /\ DOMAIN RouteChan \subseteq [Found : BOOLEAN, NextHop : Nodes]
    /\ reader \in {"run", "stopped"} /\ crashed \subseteq Nodes
    /\ inputs \in 0 .. MaxInputs
    /\ sent \subseteq Nodes /\ arrived \subseteq Nodes

\* What RIP reaches when no interface has changed for long enough: the routes to
\* an address come one hop closer at each node, and a node that reaches another
\* one is reached by it and by all that do.
Settled ==
    /\ \A n \in Nodes : \A d \in Nodes \ {n} :
          Reach(n, d) => LET e == RoutingTable[n][d]
                         IN  Reach(e.NextHop, d) /\ RoutingTable[e.NextHop][d].Cost = e.Cost - 1
    /\ \A m, n, k \in Nodes : Reach(m, n) /\ Reach(n, k) => Reach(n, m) /\ Reach(m, k)

\* node_ip_commands.go:73, Traceroute prints "the shortest route": the nodes that
\* a packet for the destination passes, in order, and nothing when there is none.
PathIsRoute ==
    Settled /\ trace.pc = "done" =>
        LET hops == <<Origin>> \o trace.path
            n == Len(trace.path)
        IN  /\ n = IF Reach(Origin, trace.dst) THEN RoutingTable[Origin][trace.dst].Cost ELSE 0
            /\ \A i \in 1 .. n : RoutingTable[hops[i]][trace.dst].NextHop = hops[i + 1]

\* how many handlers wait at RouteChan
Plus(m, n) == m + n
Waiting == FoldFunction(Plus, 0, RouteChan)

\* README.md:281: AddChanRoutine and RemoveChanRoutine are there so that for a
\* message that is not "due to a traceroute command [...] the routine doesn't hang
\* or block". They do not quite: a traceroute that ends at INFINITY hops leaves
\* HandleRoute set (host.go:144-146), and one that took a stray time exceeded for
\* a hop leaves the answer it did not wait for. Whatever the tables, what stays
\* blocked when no traceroute is running is at most one handler for each packet of
\* the other commands and TCP messages, the traceroute's own echoes never adding
\* one; where the tables have settled, none.
HandlersLeft ==
    trace.pc \in {"idle", "done"} => Waiting = 0 \/ (~Settled /\ Waiting < inputs)

\* README.md:279: traceroute sends "echo packets of increasing TTL and after
\* sending each packet will wait for a response": each one comes, and it ends.
TraceEnds == Settled /\ trace.pc = "wait" ~> trace.pc = "done"

\* A packet of the command send arrives where there is a route, however long:
\* TTL_MAX hops are enough for every cost below INFINITY.
SendsArrive ==
    \A d \in Nodes : Settled /\ d \in sent ~> d \in arrived
=============================================================================
