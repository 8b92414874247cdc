-------------------------- MODULE ForwardingProofs --------------------------
(***************************************************************************)
(* For every network and all its tables: packets are well-formed and keep  *)
(* a TTL of at least 1. Where the tables have settled, traceroute prints   *)
(* the route of packets to the destination and leaves no handler behind.   *)
(***************************************************************************)
EXTENDS Forwarding, TLAPS

-----------------------------------------------------------------------------
(* The inductive invariant.                                                *)

CostOf(n, d) == RoutingTable[n][d].Cost
HopOf(n, d) == RoutingTable[n][d].NextHop

Messages == [Found : BOOLEAN, NextHop : Nodes]
Active == trace.pc \in {"send", "wait"}

IsBag(b) == b \in [DOMAIN b -> Nat \ {0}]
Only(x) == [y \in {x} |-> 1]

\* Each step of a traceroute asks for the node one hop further.
TypeInv ==
    /\ RoutingTable \in Tables
    /\ IsBag(wire) /\ DOMAIN wire \subseteq Packets
    /\ IsBag(RouteChan) /\ DOMAIN RouteChan \subseteq Messages
    /\ trace \in [pc : {"idle", "send", "wait", "done"}, dst : Nodes,
                  currTTL : 1 .. INFINITY + 1, path : Seq(Nodes)]
    /\ Len(trace.path) <= INFINITY
    /\ Active => /\ trace.dst # Origin /\ Reach(Origin, trace.dst)
                 /\ Len(trace.path) = trace.currTTL - 1
    /\ trace.pc = "wait" => trace.currTTL <= INFINITY
    /\ HandleRoute \in BOOLEAN /\ fromRIP \in BOOLEAN
    /\ reader \in {"run", "stopped"} /\ crashed \subseteq Nodes
    /\ inputs \in 0 .. MaxInputs
    /\ sent \subseteq Nodes /\ arrived \subseteq Nodes

\* The TTL of a packet that is no echo lasts to its destination. A TCP message
\* may start without a route; its first hop then drops it, or has one.
FarEnough(p) == IF Reach(p.at, p.dst) THEN CostOf(p.at, p.dst) < p.ttl ELSE p.ttl = TTL_MAX
FarOver(b) == \A p \in DOMAIN b : p.kind # "echo" => FarEnough(p)

\* the node i hops from Origin, as far as traceroute has come
Hop(i) == IF i = 0 THEN Origin ELSE trace.path[i]

\* The path so far is the beginning of the route.
RouteInv ==
    /\ \A i \in 1 .. Len(trace.path) :
         /\ Hop(i) = HopOf(Hop(i - 1), trace.dst)
         /\ Reach(Hop(i), trace.dst) /\ CostOf(Hop(i), trace.dst) = CostOf(Origin, trace.dst) - i
         /\ Active => Hop(i) # trace.dst
    /\ trace.pc = "done" =>
         IF Reach(Origin, trace.dst) THEN Hop(Len(trace.path)) = trace.dst ELSE trace.path = <<>>

\* the node that traceroute asks for
Ahead == HopOf(Hop(Len(trace.path)), trace.dst)

Probes(b) == {p \in DOMAIN b : p.kind \in {"echo", "reply", "exceeded"}}

\* An echo is at the node its TTL says; a reply or time exceeded message comes
\* from the node ahead and has a way back.
OnWay(p) ==
    \/ /\ p.kind = "echo" /\ p.src = Origin /\ p.dst = trace.dst /\ p.ttl <= trace.currTTL
       /\ p.at = HopOf(Hop(trace.currTTL - p.ttl), trace.dst)
    \/ /\ p.kind = IF Ahead = trace.dst THEN "reply" ELSE "exceeded"
       /\ p.dst = Origin /\ p.src = Ahead /\ Reach(p.at, Origin)

Answer(msg) == msg.NextHop = Ahead /\ (msg.Found <=> Ahead = trace.dst)

\* At most one packet, or one handler, is at work for the traceroute, and only
\* while it waits.
TokenInv ==
    \/ Probes(wire) = {} /\ RouteChan = Empty
    \/ /\ trace.pc = "wait" /\ RouteChan = Empty
       /\ \E p \in DOMAIN wire : Probes(wire) = {p} /\ wire[p] = 1 /\ OnWay(p)
    \/ /\ trace.pc = "wait" /\ Probes(wire) = {}
       /\ \E msg \in Messages : RouteChan = Only(msg) /\ Answer(msg)

SettledInv == FarOver(wire) /\ RouteInv /\ TokenInv

FWDInv == TypeInv /\ (Settled => SettledInv)

-----------------------------------------------------------------------------
(* Put and Take.                                                           *)

LEMMA PutIs ==
  ASSUME NEW b, IsBag(b), NEW x
  PROVE  /\ IsBag(Put(b, {x}))
         /\ DOMAIN Put(b, {x}) = DOMAIN b \cup {x}
         /\ \A y \in DOMAIN b : Put(b, {x})[y] = b[y] + IF y = x THEN 1 ELSE 0
         /\ x \notin DOMAIN b => Put(b, {x})[x] = 1
  BY DEF IsBag, Put

LEMMA PutNone ==
  ASSUME NEW b, IsBag(b) PROVE Put(b, {}) = b
  BY Zenon DEF IsBag, Put

LEMMA EmptyIs == IsBag(Empty) /\ DOMAIN Empty = {}
  BY Zenon DEF IsBag, Empty

LEMMA OneIs ==
  ASSUME NEW x
  PROVE  /\ DOMAIN Only(x) = {x} /\ Put(Empty, {x}) = Only(x)
         /\ Take(Only(x), x) = Empty
  BY DEF Only, Empty, Put, Take

LEMMA TakeIs ==
  ASSUME NEW b, IsBag(b), NEW x \in DOMAIN b
  PROVE  /\ IsBag(Take(b, x))
         /\ \A y : y \in DOMAIN Take(b, x) <=> y \in DOMAIN b /\ (y = x => b[x] > 1)
         /\ \A y \in DOMAIN Take(b, x) :
              Take(b, x)[y] = b[y] - IF y = x THEN 1 ELSE 0
  BY DEF IsBag, Take

\* A bag over S stays one when nothing or one element of S is put into it.

LEMMA PutOver ==
  ASSUME NEW b, IsBag(b), NEW S, DOMAIN b \subseteq S, NEW x,
         x = {} \/ \E y \in S : x = {y}
  PROVE  IsBag(Put(b, x)) /\ DOMAIN Put(b, x) \subseteq S
  <1>1. CASE x = {}
    <2>1. Put(b, x) = b BY Zenon, <1>1, PutNone
    <2> QED BY Zenon, <2>1
  <1>2. CASE \E y \in S : x = {y}
    <2>1. PICK y \in S : x = {y} BY Zenon, <1>2
    <2>2. IsBag(Put(b, x)) /\ DOMAIN Put(b, x) = DOMAIN b \cup {y} BY Zenon, <2>1, PutIs
    <2> QED BY Zenon, <2>2
  <1> QED BY Zenon, <1>1, <1>2

-----------------------------------------------------------------------------
(* Tables and packets.                                                     *)

LEMMA LimitsAre ==
    /\ INFINITY \in Nat /\ TTL_MAX \in Nat /\ MaxInputs \in Nat /\ Origin \in Nodes
    /\ 1 < INFINITY /\ INFINITY <= TTL_MAX
    /\ TTL_MAX \in 1 .. TTL_MAX /\ \A k \in 1 .. INFINITY : k \in 1 .. TTL_MAX
  BY ForwardingAssumption

LEMMA TableIs ==
  ASSUME TypeInv, NEW n \in Nodes
  PROVE  /\ Reach(n, n) /\ CostOf(n, n) = 0 /\ HopOf(n, n) = n
         /\ \A d : HasEntry(n, d) => d \in Nodes /\ CostOf(n, d) \in 0 .. INFINITY
         /\ \A d : HasEntry(n, d) /\ d # n => HopOf(n, d) \in Nodes \ {n}
  <1>1. RoutingTable \in Tables BY Zenon DEF TypeInv
  <1>2. /\ n \in DOMAIN RoutingTable[n] /\ DOMAIN RoutingTable[n] \subseteq Nodes
        /\ RoutingTable[n][n] = Entry(n, 0)
        /\ \A d \in DOMAIN RoutingTable[n] : RoutingTable[n][d].Cost \in 0 .. INFINITY
        /\ \A d \in DOMAIN RoutingTable[n] \ {n} : RoutingTable[n][d].NextHop \in Nodes \ {n}
    BY Zenon, <1>1, ForwardingAssumption
  <1>3. RoutingTable[n][n].Cost = 0 /\ RoutingTable[n][n].NextHop = n BY <1>2 DEF Entry
  <1>4. 0 # INFINITY BY ForwardingAssumption
  <1> QED BY Zenon, <1>2, <1>3, <1>4 DEF Reach, HasEntry, CostOf, HopOf

LEMMA PacketIs ==
  ASSUME NEW src \in Nodes, NEW dst \in Nodes, NEW ttl \in 1 .. TTL_MAX,
         NEW kind \in {"echo", "reply", "exceeded", "data", "tcp", "rip"}
  PROVE  /\ Packet(src, dst, kind, ttl) \in Packets
         /\ Packet(src, dst, kind, ttl).at = src /\ Packet(src, dst, kind, ttl).src = src
         /\ Packet(src, dst, kind, ttl).dst = dst /\ Packet(src, dst, kind, ttl).kind = kind
         /\ Packet(src, dst, kind, ttl).ttl = ttl
  BY Zenon DEF Packet, Packets

\* what a node makes of p: a packet like it, one hop further
Moved(p, q, n, ttl) ==
    /\ q.at = HopOf(n, p.dst) /\ q.src = p.src /\ q.dst = p.dst /\ q.kind = p.kind
    /\ q.ttl = ttl

LEMMA OutIs ==
  ASSUME TypeInv, NEW n \in Nodes, NEW p \in Packets, HasEntry(n, p.dst)
  PROVE  \/ n = p.dst /\ Out(n, p) = {}
         \/ n # p.dst /\ \E q \in Packets : Out(n, p) = {q} /\ Moved(p, q, n, p.ttl)
  <1> DEFINE q == [p EXCEPT !.at = HopOf(n, p.dst)]
  <1>1. CASE n = p.dst BY Zenon, <1>1, TableIs DEF Out, HopOf
  <1>2. CASE n # p.dst
    <2>1. HopOf(n, p.dst) \in Nodes \ {n} BY Zenon, <1>2, TableIs
    <2>2. q \in Packets /\ Moved(p, q, n, p.ttl) BY Zenon, <2>1 DEF Packets, Moved
    <2>3. Out(n, p) = {q} BY Zenon, <2>1 DEF Out, HopOf
    <2> QED BY Zenon, <1>2, <2>2, <2>3
  <1> QED BY Zenon, <1>1, <1>2

\* the packet as ReadFromLinkLayer forwards it
LEMMA LessIs ==
  ASSUME NEW p \in Packets, p.ttl # 1
  PROVE  LET r == [p EXCEPT !.ttl = @ - 1]
         IN  /\ r \in Packets /\ r.at = p.at /\ r.src = p.src /\ r.dst = p.dst
             /\ r.kind = p.kind /\ r.ttl = p.ttl - 1
  BY ForwardingAssumption DEF Packets

\* Forward puts nothing, a packet with less TTL, or a time exceeded message out.
LEMMA ForwardIs ==
  ASSUME TypeInv, NEW p \in Packets, p.at # p.dst
  PROVE  \/ Forward(p.at, p) = {}
         \/ /\ p.ttl # 1 /\ Reach(p.at, p.dst)
            /\ \E q \in Packets : Forward(p.at, p) = {q} /\ Moved(p, q, p.at, p.ttl - 1)
         \/ /\ p.ttl = 1 /\ Reach(p.at, p.src) /\ p.at # p.src
            /\ \E q \in Packets :
                 /\ Forward(p.at, p) = {q} /\ q.kind = "exceeded" /\ q.ttl = TTL_MAX
                 /\ q.src = p.at /\ q.dst = p.src /\ q.at = HopOf(p.at, p.src)
  <1> DEFINE n == p.at
             r == [p EXCEPT !.ttl = @ - 1]
             e == Packet(n, p.src, "exceeded", TTL_MAX)
  <1>1. n \in Nodes /\ p.src \in Nodes /\ p.ttl \in 1 .. TTL_MAX BY Zenon DEF Packets
  <1>2. CASE p.ttl = 1
    <2>1. Forward(n, p) = IF Reach(n, e.dst) THEN Out(n, e) ELSE {}
      BY <1>2 DEF Forward, TimeExceeded, OutIfReachable
    <2>2. /\ e \in Packets /\ e.src = n /\ e.dst = p.src /\ e.kind = "exceeded" /\ e.ttl = TTL_MAX
      BY Zenon, <1>1, LimitsAre DEF Packet, Packets
    <2>3. CASE ~Reach(n, p.src) BY Zenon, <2>1, <2>2, <2>3
    <2>4. CASE Reach(n, p.src)
      <3>1. Forward(n, p) = Out(n, e) /\ HasEntry(n, e.dst) BY Zenon, <2>1, <2>2, <2>4 DEF Reach
      <3>2. CASE n = e.dst
        <4>1. Out(n, e) = {} BY Zenon, <1>1, <2>2, <3>1, <3>2, OutIs
        <4> QED BY Zenon, <3>1, <4>1
      <3>3. CASE n # e.dst
        <4>1. PICK q \in Packets : Out(n, e) = {q} /\ Moved(e, q, n, e.ttl)
          BY Zenon, <1>1, <2>2, <3>1, <3>3, OutIs
        <4> QED BY ZenonT(60), <1>2, <2>2, <2>4, <3>1, <3>3, <4>1 DEF Moved
      <3> QED BY Zenon, <3>2, <3>3
    <2> QED BY Zenon, <2>3, <2>4
  <1>3. CASE p.ttl # 1
    <2>1. Forward(n, p) = IF Reach(n, r.dst) THEN Out(n, r) ELSE {}
      BY <1>1, <1>3 DEF Forward, OutIfReachable
    <2>2. /\ r \in Packets /\ r.src = p.src /\ r.dst = p.dst /\ r.kind = p.kind
          /\ r.ttl = p.ttl - 1
      BY Zenon, <1>3, LessIs
    <2>3. CASE ~Reach(n, p.dst) BY Zenon, <2>1, <2>2, <2>3
    <2>4. CASE Reach(n, p.dst)
      <3>1. Forward(n, p) = Out(n, r) /\ HasEntry(n, r.dst) BY Zenon, <2>1, <2>2, <2>4 DEF Reach
      <3>2. PICK q \in Packets : Out(n, r) = {q} /\ Moved(r, q, n, r.ttl)
        BY Zenon, <1>1, <2>2, <3>1, OutIs
      <3>3. Moved(p, q, n, p.ttl - 1) BY Zenon, <2>2, <3>2 DEF Moved
      <3> QED BY Zenon, <1>3, <2>4, <3>1, <3>2, <3>3
    <2> QED BY Zenon, <2>3, <2>4
  <1> QED BY Zenon, <1>2, <1>3

-----------------------------------------------------------------------------
(* Types.                                                                  *)

\* what a step may add to the wire
Puts(x) == x = {} \/ \E q \in Packets : x = {q}

LEMMA OutPuts ==
  ASSUME TypeInv, NEW n \in Nodes, NEW p \in Packets
  PROVE  /\ HasEntry(n, p.dst) => Puts(Out(n, p))
         /\ Puts(OutIfReachable(n, p))
  BY Zenon, OutIs DEF Puts, OutIfReachable, Reach

\* the part of TypeInv that is about the wire
WireType(b) == IsBag(b) /\ DOMAIN b \subseteq Packets

LEMMA PutsType ==
  ASSUME NEW b, WireType(b), NEW x, Puts(x) PROVE WireType(Put(b, x))
  BY Zenon, PutOver DEF WireType, Puts

LEMMA RestType ==
  ASSUME TypeInv, NEW p \in DOMAIN wire
  PROVE  WireType(Take(wire, p)) /\ p \in Packets
  BY Zenon, TakeIs DEF TypeInv, WireType

\* Steps that leave the tables, the traceroute and RouteChan alone.
LEMMA OthersType ==
  ASSUME TypeInv, WireType(wire'), UNCHANGED <<RoutingTable, trace, RouteChan>>,
         HandleRoute' \in BOOLEAN, fromRIP' \in BOOLEAN, reader' \in {"run", "stopped"},
         crashed' \subseteq Nodes, inputs' \in 0 .. MaxInputs, sent' \subseteq Nodes,
         arrived' \subseteq Nodes
  PROVE  TypeInv'
  BY Zenon DEF TypeInv, WireType, Active, Reach, HasEntry

LEMMA InitType == Init => TypeInv
  <1> SUFFICES ASSUME Init PROVE TypeInv BY Zenon
  <1>1. trace \in [pc : {"idle", "send", "wait", "done"}, dst : Nodes,
                   currTTL : 1 .. INFINITY + 1, path : Seq(Nodes)]
    BY LimitsAre DEF Init
  <1>2. Len(trace.path) <= INFINITY /\ trace.pc = "idle" BY LimitsAre DEF Init
  <1>3. inputs \in 0 .. MaxInputs BY LimitsAre DEF Init
  <1> QED BY Zenon, <1>1, <1>2, <1>3, EmptyIs DEF Init, TypeInv, Active

LEMMA SendPacketType ==
  ASSUME TypeInv, NEW d \in Nodes, SendPacket(d) PROVE TypeInv'
  <1> DEFINE p == Packet(Origin, d, "data", TTL_MAX)
             x == IF d = Origin THEN {p} ELSE OutIfReachable(Origin, p)
  <1>1. p \in Packets BY Zenon, LimitsAre DEF Packet, Packets
  <1>2. Puts(x) BY ZenonT(60), <1>1, OutPuts, LimitsAre DEF Puts
  <1>3. WireType(wire') BY Zenon, <1>2, PutsType DEF SendPacket, TypeInv, WireType
  <1>4. inputs' \in 0 .. MaxInputs BY LimitsAre DEF SendPacket, TypeInv
  <1>5. sent' \subseteq Nodes BY Zenon DEF SendPacket, TypeInv
  <1> QED BY Zenon, <1>3, <1>4, <1>5, OthersType DEF SendPacket, TypeInv

LEMMA TracerouteType ==
  ASSUME TypeInv, NEW d \in Nodes, Traceroute(d) PROVE TypeInv'
  <1>1. trace' \in [pc : {"idle", "send", "wait", "done"}, dst : Nodes,
                    currTTL : 1 .. INFINITY + 1, path : Seq(Nodes)]
    BY LimitsAre DEF Traceroute
  <1>2. /\ trace'.dst = d /\ trace'.currTTL = 1 /\ trace'.path = <<>> /\ d # Origin
        /\ trace'.pc # "wait" /\ (trace'.pc = "send" => Reach(Origin, d))
    BY Zenon DEF Traceroute
  <1>3. Len(trace'.path) = 0 BY <1>2
  <1>4. inputs' \in 0 .. MaxInputs BY LimitsAre DEF Traceroute, TypeInv
  <1>5. UNCHANGED <<RoutingTable, wire, RouteChan, reader, fromRIP, crashed, sent, arrived>>
    BY Zenon DEF Traceroute
  <1>6. HandleRoute' \in BOOLEAN BY Zenon DEF Traceroute, TypeInv
  <1>7. Reach(Origin, d)' <=> Reach(Origin, d) BY Zenon, <1>5 DEF Reach, HasEntry
  <1> QED BY SMTT(30), <1>1, <1>2, <1>3, <1>4, <1>5, <1>6, <1>7, LimitsAre
          DEF TypeInv, Active, Reach, HasEntry

LEMMA ReadTCPType ==
  ASSUME TypeInv, NEW d \in Nodes, ReadTCP(d) PROVE TypeInv'
  <1> DEFINE p == Packet(Origin, d, "tcp", TTL_MAX)
             x == IF HasEntry(Origin, d) THEN Out(Origin, p) ELSE {}
  <1>1. p \in Packets /\ p.dst = d BY Zenon, LimitsAre DEF Packet, Packets
  <1>2. Puts(x) BY <1>1, OutPuts, LimitsAre DEF Puts
  <1>3. WireType(wire') BY Zenon, <1>2, PutsType DEF ReadTCP, TypeInv, WireType
  <1>4. inputs' \in 0 .. MaxInputs BY LimitsAre DEF ReadTCP, TypeInv
  <1> QED BY Zenon, <1>3, <1>4, OthersType DEF ReadTCP, TypeInv

LEMMA UpdateDueType ==
  ASSUME TypeInv, UpdateDue PROVE TypeInv'
  <1>1. inputs' \in 0 .. MaxInputs BY LimitsAre DEF UpdateDue, TypeInv
  <1> QED BY Zenon, <1>1, OthersType DEF UpdateDue, TypeInv, WireType

LEMMA ReadRIPType ==
  ASSUME TypeInv, NEW n \in Neighbors, ReadRIP(n) PROVE TypeInv'
  <1> DEFINE p == [Packet(Origin, n, "rip", TTL_MAX) EXCEPT !.at = n]
  <1>1. p \in Packets BY Zenon, LimitsAre DEF Packet, Packets, Neighbors
  <1>2. Puts({p}) BY Zenon, <1>1 DEF Puts
  <1>3. WireType(wire') BY Zenon, <1>2, PutsType DEF ReadRIP, TypeInv, WireType
  <1> QED BY Zenon, <1>3, OthersType DEF ReadRIP, TypeInv

LEMMA TraceEchoType ==
  ASSUME TypeInv, TraceEcho PROVE TypeInv'
  <1> DEFINE p == Packet(Origin, trace.dst, "echo", trace.currTTL)
  <1>1. /\ trace.dst \in Nodes /\ trace.currTTL \in 1 .. INFINITY + 1 /\ trace.pc = "send"
        /\ HasEntry(Origin, trace.dst) /\ WireType(wire)
    BY Zenon DEF TraceEcho, TypeInv, Active, Reach, WireType
  <1>2. WireType(wire')
    <2>1. CASE trace.currTTL > INFINITY BY Zenon, <1>1, <2>1 DEF TraceEcho
    <2>2. CASE ~(trace.currTTL > INFINITY)
      <3>1. p \in Packets /\ p.dst = trace.dst BY <1>1, <2>2, LimitsAre DEF Packet, Packets
      <3>2. Puts(Out(Origin, p)) BY Zenon, <1>1, <3>1, OutPuts, LimitsAre
      <3>3. wire' = Put(wire, Out(Origin, p)) BY Zenon, <2>2 DEF TraceEcho
      <3> QED BY Zenon, <1>1, <3>2, <3>3, PutsType
    <2> QED BY Zenon, <2>1, <2>2
  <1>3. /\ trace' \in [pc : {"idle", "send", "wait", "done"}, dst : Nodes,
                       currTTL : 1 .. INFINITY + 1, path : Seq(Nodes)]
        /\ trace'.dst = trace.dst /\ trace'.currTTL = trace.currTTL /\ trace'.path = trace.path
        /\ trace'.pc = IF trace.currTTL <= INFINITY THEN "wait" ELSE "done"
    BY Zenon DEF TraceEcho, TypeInv
  <1>4. UNCHANGED <<RoutingTable, HandleRoute, RouteChan, reader, fromRIP, crashed, inputs, sent,
                    arrived>>
    BY Zenon DEF TraceEcho
  <1> QED BY Zenon, <1>1, <1>2, <1>3, <1>4 DEF TypeInv, WireType, Active, Reach, HasEntry

LEMMA AnsweredIs ==
  ASSUME TypeInv, NEW msg \in Messages, trace.pc = "wait", trace' = Answered(trace, msg)
  PROVE  /\ trace' \in [pc : {"idle", "send", "wait", "done"}, dst : Nodes,
                        currTTL : 1 .. INFINITY + 1, path : Seq(Nodes)]
         /\ trace'.dst = trace.dst /\ trace'.path = Append(trace.path, msg.NextHop)
         /\ Len(trace'.path) = Len(trace.path) + 1
         /\ trace'.currTTL = trace.currTTL + IF msg.Found THEN 0 ELSE 1
         /\ trace'.pc = IF msg.Found THEN "done" ELSE "send"
  <1> DEFINE path == Append(trace.path, msg.NextHop)
             ttl == trace.currTTL + IF msg.Found THEN 0 ELSE 1
             pc == IF msg.Found THEN "done" ELSE "send"
  <1>1. /\ trace \in [pc : {"idle", "send", "wait", "done"}, dst : Nodes,
                      currTTL : 1 .. INFINITY + 1, path : Seq(Nodes)]
        /\ trace.currTTL <= INFINITY
    BY Zenon DEF TypeInv
  <1>2. trace.path \in Seq(Nodes) /\ msg.NextHop \in Nodes BY Zenon, <1>1 DEF Messages
  <1>3. /\ path \in Seq(Nodes) /\ Len(path) = Len(trace.path) + 1 BY <1>2
  <1>4. ttl \in 1 .. INFINITY + 1 BY <1>1, LimitsAre
  <1>5. trace' = [pc |-> pc, dst |-> trace.dst, currTTL |-> ttl, path |-> path]
    BY Zenon, <1>1 DEF Answered
  <1>6. pc \in {"idle", "send", "wait", "done"} /\ trace.dst \in Nodes BY Zenon, <1>1
  <1> HIDE DEF path, ttl, pc
  <1>7. /\ trace' \in [pc : {"idle", "send", "wait", "done"}, dst : Nodes,
                       currTTL : 1 .. INFINITY + 1, path : Seq(Nodes)]
        /\ trace'.dst = trace.dst /\ trace'.path = path /\ trace'.currTTL = ttl /\ trace'.pc = pc
    BY <1>3, <1>4, <1>5, <1>6
  <1> QED BY Zenon, <1>3, <1>7 DEF path, ttl, pc

LEMMA TraceHopType ==
  ASSUME TypeInv, NEW msg \in DOMAIN RouteChan, TraceHop(msg) PROVE TypeInv'
  <1>1. msg \in Messages /\ trace.pc = "wait" /\ trace' = Answered(trace, msg)
    BY Zenon DEF TypeInv, TraceHop
  <1>2. IsBag(RouteChan') /\ DOMAIN RouteChan' \subseteq Messages
    BY Zenon, TakeIs DEF TypeInv, TraceHop
  <1>3. /\ trace.dst # Origin /\ Reach(Origin, trace.dst) /\ Len(trace.path) = trace.currTTL - 1
        /\ trace.currTTL <= INFINITY /\ trace.currTTL \in Nat
    BY <1>1 DEF TypeInv, Active
  <1>4. Len(trace'.path) <= INFINITY BY <1>1, <1>3, AnsweredIs, LimitsAre
  <1>5. trace'.pc # "wait" BY Zenon, <1>1, AnsweredIs
  <1>6. trace'.pc = "send" => Len(trace'.path) = trace'.currTTL - 1 BY <1>1, <1>3, AnsweredIs
  <1>7. HandleRoute' \in BOOLEAN BY Zenon, <1>1 DEF TraceHop, TypeInv, Messages
  <1>8. UNCHANGED <<RoutingTable, wire, reader, fromRIP, crashed, inputs, sent, arrived>>
    BY Zenon DEF TraceHop
  <1>9. /\ trace'.dst # Origin /\ Reach(Origin, trace.dst)'
        /\ trace' \in [pc : {"idle", "send", "wait", "done"}, dst : Nodes,
                       currTTL : 1 .. INFINITY + 1, path : Seq(Nodes)]
    BY Zenon, <1>1, <1>3, <1>8, AnsweredIs DEF Reach, HasEntry
  <1> QED BY Zenon, <1>2, <1>4, <1>5, <1>6, <1>7, <1>8, <1>9 DEF TypeInv, Active

\* What ReadFromLinkLayer does with p: nothing more; a reply goes out; a handler
\* waits with a message; or the packet is forwarded.
LEMMA ReadIs ==
  ASSUME TypeInv, NEW p \in DOMAIN wire, ReadFromLinkLayer(p)
  PROVE  LET rest == Take(wire, p)
         IN  \/ wire' = rest /\ UNCHANGED RouteChan
             \/ /\ p.kind = "echo" /\ p.at = p.dst /\ HasEntry(p.at, p.src)
                /\ wire' = Put(rest, Out(p.at, EchoReply(p))) /\ UNCHANGED RouteChan
             \/ /\ p.kind \in {"reply", "exceeded"} /\ p.at = p.dst /\ wire' = rest
                /\ RouteChan' = Put(RouteChan, {[Found |-> p.kind = "reply", NextHop |-> p.src]})
             \/ /\ p.at # p.dst /\ wire' = Put(rest, Forward(p.at, p)) /\ UNCHANGED RouteChan
  <1> DEFINE rest == Take(wire, p)
  <1> HIDE DEF rest
  <1>1. CASE p.at = p.dst /\ Deliver(p.at, p, rest)
    <2>1. CASE p.kind = "echo" /\ Echo(p.at, p, rest) /\ UNCHANGED RouteChan
      BY Zenon, <1>1, <2>1 DEF Echo, rest
    <2>2. CASE p.kind = "reply" /\ ToRouteChan(TRUE, p) /\ wire' = rest
      <3>1. (p.kind = "reply") = TRUE BY Zenon, <2>2
      <3> QED BY Zenon, <1>1, <2>2, <3>1 DEF ToRouteChan, rest
    <2>3. CASE p.kind = "exceeded" /\ ToRouteChan(FALSE, p) /\ wire' = rest
      <3>1. (p.kind = "reply") = FALSE BY Zenon, <2>3
      <3> QED BY Zenon, <1>1, <2>3, <3>1 DEF ToRouteChan, rest
    <2>4. CASE wire' = rest /\ UNCHANGED RouteChan BY Zenon, <2>4 DEF rest
    <2> QED BY Zenon, <1>1, <2>1, <2>2, <2>3, <2>4 DEF Deliver
  <1>2. CASE p.at # p.dst /\ wire' = Put(rest, Forward(p.at, p)) /\ UNCHANGED RouteChan
    BY Zenon, <1>2 DEF rest
  <1> QED BY Zenon, <1>1, <1>2 DEF ReadFromLinkLayer, rest

LEMMA EchoReplyIs ==
  ASSUME NEW p \in Packets
  PROVE  /\ EchoReply(p) \in Packets /\ EchoReply(p).src = p.dst /\ EchoReply(p).dst = p.src
         /\ EchoReply(p).kind = "reply" /\ EchoReply(p).ttl = TTL_MAX
  BY Zenon, LimitsAre DEF EchoReply, Packet, Packets

LEMMA ReadType ==
  ASSUME TypeInv, NEW p \in DOMAIN wire, ReadFromLinkLayer(p) PROVE TypeInv'
  <1> DEFINE rest == Take(wire, p)
             msg == [Found |-> p.kind = "reply", NextHop |-> p.src]
  <1>1. WireType(rest) /\ p \in Packets BY Zenon, RestType
  <1>2. p.at \in Nodes /\ p.src \in Nodes BY Zenon, <1>1 DEF Packets
  <1> HIDE DEF rest
  <1>3. WireType(wire')
    <2>1. CASE wire' = rest BY Zenon, <1>1, <2>1
    <2>2. CASE HasEntry(p.at, p.src) /\ wire' = Put(rest, Out(p.at, EchoReply(p)))
      <3>1. Puts(Out(p.at, EchoReply(p))) BY Zenon, <1>1, <1>2, <2>2, EchoReplyIs, OutPuts
      <3> QED BY Zenon, <1>1, <2>2, <3>1, PutsType
    <2>3. CASE p.at # p.dst /\ wire' = Put(rest, Forward(p.at, p))
      <3>1. Puts(Forward(p.at, p)) BY Zenon, <1>1, <2>3, ForwardIs DEF Puts
      <3> QED BY Zenon, <1>1, <2>3, <3>1, PutsType
    <2> QED BY Zenon, <2>1, <2>2, <2>3, ReadIs DEF rest
  <1>4. IsBag(RouteChan') /\ DOMAIN RouteChan' \subseteq Messages
    <2>1. CASE UNCHANGED RouteChan BY Zenon, <2>1 DEF TypeInv
    <2>2. CASE RouteChan' = Put(RouteChan, {msg})
      <3>1. msg \in Messages BY Zenon, <1>2 DEF Messages
      <3>2. IsBag(RouteChan) /\ DOMAIN RouteChan \subseteq Messages BY Zenon DEF TypeInv
      <3> HIDE DEF msg
      <3>3. IsBag(RouteChan') /\ DOMAIN RouteChan' = DOMAIN RouteChan \cup {msg}
        BY Zenon, <2>2, <3>2, PutIs
      <3> QED BY Zenon, <3>1, <3>2, <3>3
    <2> QED BY Zenon, <2>1, <2>2, ReadIs
  <1>5. crashed' \subseteq Nodes /\ arrived' \subseteq Nodes
    BY Zenon, <1>2 DEF TypeInv, ReadFromLinkLayer, Deliver, Echo
  <1>6. UNCHANGED <<RoutingTable, trace, HandleRoute, reader, fromRIP, inputs, sent>>
    BY Zenon DEF ReadFromLinkLayer
  <1> QED BY Zenon, <1>3, <1>4, <1>5, <1>6 DEF TypeInv, WireType, Active, Reach, HasEntry

LEMMA NextType == TypeInv /\ [Next]_vars => TypeInv'
  <1> SUFFICES ASSUME TypeInv, [Next]_vars PROVE TypeInv' BY Zenon
  <1>1. ASSUME NEW d \in Nodes, SendPacket(d) PROVE TypeInv' BY Zenon, <1>1, SendPacketType
  <1>2. ASSUME NEW d \in Nodes, Traceroute(d) PROVE TypeInv' BY Zenon, <1>2, TracerouteType
  <1>3. ASSUME NEW d \in Nodes, ReadTCP(d) PROVE TypeInv' BY Zenon, <1>3, ReadTCPType
  <1>4. ASSUME Arriving PROVE TypeInv' BY Zenon, <1>4, ReadType DEF Arriving
  <1>5. ASSUME Tracing PROVE TypeInv' BY Zenon, <1>5, TraceEchoType, TraceHopType DEF Tracing
  <1>6. ASSUME UpdateDue PROVE TypeInv' BY Zenon, <1>6, UpdateDueType
  <1>7. ASSUME Updating PROVE TypeInv' BY Zenon, <1>7, ReadRIPType DEF Updating
  <1>8. ASSUME UNCHANGED vars PROVE TypeInv' BY Zenon, <1>8 DEF vars, TypeInv, Active, Reach, HasEntry
  <1> QED BY Zenon, <1>1, <1>2, <1>3, <1>4, <1>5, <1>6, <1>7, <1>8 DEF Next

LEMMA TypeInvIsTypeOK == TypeInv => TypeOK
  BY DEF TypeInv, TypeOK, Messages

\* Whatever the tables hold, loops and dead ends included: every packet on the wire
\* has a TTL of at least 1, so that the test for 0 in ReadFromLinkLayer is never
\* jumped over, and traceroute asks for at most INFINITY hops.
THEOREM TypeCorrect == Spec => []TypeOK
  <1>1. Spec => []TypeInv BY InitType, NextType, PTL DEF Spec
  <1> QED BY <1>1, TypeInvIsTypeOK, PTL

-----------------------------------------------------------------------------
(* Settled tables.                                                         *)

LEMMA FixedTables ==
  ASSUME UNCHANGED RoutingTable
  PROVE  /\ Settled' <=> Settled
         /\ \A n, d : (Reach(n, d)' <=> Reach(n, d)) /\ HopOf(n, d)' = HopOf(n, d)
                      /\ CostOf(n, d)' = CostOf(n, d)
         /\ \A p : FarEnough(p)' <=> FarEnough(p)
  BY DEF Settled, Reach, HasEntry, HopOf, CostOf, FarEnough

LEMMA CloserIs ==
  ASSUME TypeInv, Settled, NEW n \in Nodes, NEW d \in Nodes, n # d, Reach(n, d)
  PROVE  /\ HopOf(n, d) \in Nodes \ {n} /\ Reach(HopOf(n, d), d)
         /\ CostOf(HopOf(n, d), d) = CostOf(n, d) - 1
         /\ CostOf(n, d) \in 1 .. INFINITY - 1
  <1> DEFINE h == HopOf(n, d)
  <1>1. h \in Nodes \ {n} BY Zenon, TableIs DEF Reach
  <1>2. Reach(h, d) /\ CostOf(h, d) = CostOf(n, d) - 1 BY Zenon DEF Settled, HopOf, CostOf
  <1>3. CostOf(n, d) \in 0 .. INFINITY /\ CostOf(h, d) \in 0 .. INFINITY
    BY Zenon, <1>1, <1>2, TableIs DEF Reach
  <1>4. CostOf(n, d) # INFINITY BY Zenon DEF Reach, CostOf
  <1> QED BY <1>1, <1>2, <1>3, <1>4, LimitsAre

LEMMA BackIs ==
  ASSUME TypeInv, Settled, NEW n \in Nodes, NEW d \in Nodes, Reach(n, d)
  PROVE  Reach(d, n)
  BY Zenon, TableIs DEF Settled

LEMMA FullFar ==
  ASSUME TypeInv, NEW p \in Packets, p.ttl = TTL_MAX PROVE FarEnough(p)
  <1>1. CASE ~Reach(p.at, p.dst) BY Zenon, <1>1 DEF FarEnough
  <1>2. CASE Reach(p.at, p.dst)
    <2>1. p.at \in Nodes BY Zenon DEF Packets
    <2>2. CostOf(p.at, p.dst) \in 0 .. INFINITY /\ CostOf(p.at, p.dst) # INFINITY
      BY Zenon, <1>2, <2>1, TableIs DEF Reach, CostOf
    <2> QED BY <1>2, <2>2, LimitsAre DEF FarEnough
  <1> QED BY Zenon, <1>1, <1>2

\* In settled tables only an echo runs out of hops, and what is forwarded has
\* hops enough again.
LEMMA ForwardFar ==
  ASSUME TypeInv, Settled, NEW p \in Packets, p.at # p.dst, p.kind # "echo", FarEnough(p)
  PROVE  /\ p.ttl # 1
         /\ \A q \in Packets : Reach(p.at, p.dst) /\ Moved(p, q, p.at, p.ttl - 1) => FarEnough(q)
  <1>1. p.at \in Nodes /\ p.dst \in Nodes /\ p.ttl \in Nat BY DEF Packets
  <1>2. CASE ~Reach(p.at, p.dst) BY <1>2, LimitsAre DEF FarEnough
  <1>3. CASE Reach(p.at, p.dst)
    <2>1. /\ CostOf(p.at, p.dst) \in 1 .. INFINITY - 1 /\ Reach(HopOf(p.at, p.dst), p.dst)
          /\ CostOf(HopOf(p.at, p.dst), p.dst) = CostOf(p.at, p.dst) - 1
      BY Zenon, <1>1, <1>3, CloserIs
    <2>2. CostOf(p.at, p.dst) < p.ttl BY Zenon, <1>3 DEF FarEnough
    <2>3. p.ttl # 1 BY <2>1, <2>2, LimitsAre
    <2>4. ASSUME NEW q \in Packets, Moved(p, q, p.at, p.ttl - 1) PROVE FarEnough(q)
      <3>1. q.at = HopOf(p.at, p.dst) /\ q.dst = p.dst /\ q.ttl = p.ttl - 1
        BY Zenon, <2>4 DEF Moved
      <3>2. CostOf(q.at, q.dst) < q.ttl BY <1>1, <2>1, <2>2, <3>1, LimitsAre
      <3> QED BY Zenon, <2>1, <3>1, <3>2 DEF FarEnough
    <2> QED BY Zenon, <2>3, <2>4
  <1> QED BY Zenon, <1>2, <1>3

-----------------------------------------------------------------------------
(* Steps that are not about the traceroute.                                *)

Probe(p) == p.kind \in {"echo", "reply", "exceeded"}

\* b and c hold the same packets of a traceroute
Quiet(b, c) == Probes(c) = Probes(b) /\ \A p \in Probes(b) : c[p] = b[p]

LEMMA QuietPut ==
  ASSUME NEW b, IsBag(b), NEW q, ~Probe(q)
  PROVE  Quiet(b, Put(b, {q}))
  <1> DEFINE c == Put(b, {q})
  <1>1. DOMAIN c = DOMAIN b \cup {q} BY Zenon, PutIs
  <1>2. Probes(c) = Probes(b) BY Zenon, <1>1 DEF Probes, Probe
  <1>3. ASSUME NEW p \in Probes(b) PROVE c[p] = b[p]
    <2>1. p \in DOMAIN b /\ p # q BY Zenon, <1>3 DEF Probes, Probe
    <2> QED BY Zenon, <2>1 DEF Put
  <1> QED BY Zenon, <1>2, <1>3 DEF Quiet

LEMMA QuietTake ==
  ASSUME NEW b, IsBag(b), NEW q \in DOMAIN b, ~Probe(q)
  PROVE  Quiet(b, Take(b, q))
  <1> DEFINE c == Take(b, q)
  <1>1. \A y : y \in DOMAIN c <=> y \in DOMAIN b /\ (y = q => b[q] > 1) BY Zenon, TakeIs
  <1>2. Probes(c) = Probes(b) BY Zenon, <1>1 DEF Probes, Probe
  <1>3. ASSUME NEW p \in Probes(b) PROVE c[p] = b[p]
    <2>1. p \in DOMAIN b /\ p # q BY Zenon, <1>3 DEF Probes, Probe
    <2>2. p \in DOMAIN c BY Zenon, <1>1, <2>1
    <2>3. c[p] = b[p] - 0 BY Zenon, <2>1, <2>2, TakeIs
    <2>4. b[p] \in Nat BY Zenon, <2>1 DEF IsBag
    <2> QED BY <2>3, <2>4
  <1> QED BY Zenon, <1>2, <1>3 DEF Quiet

LEMMA QuietTwice ==
  ASSUME NEW a, NEW b, NEW c, Quiet(a, b), Quiet(b, c) PROVE Quiet(a, c)
  BY Zenon DEF Quiet

LEMMA QuietToken ==
  ASSUME TokenInv, Quiet(wire, wire'), UNCHANGED <<RoutingTable, trace, RouteChan>>
  PROVE  TokenInv'
  <1>1. Probes(wire') = Probes(wire) /\ \A p \in Probes(wire) : wire'[p] = wire[p] BY Zenon DEF Quiet
  <1>2. Ahead' = Ahead /\ \A i : Hop(i)' = Hop(i) BY Zenon DEF Ahead, Hop, HopOf
  <1>3. /\ \A p : OnWay(p) => OnWay(p)'
        /\ \A msg : Answer(msg) => Answer(msg)'
    BY Zenon, <1>2 DEF OnWay, Answer, HopOf, Reach, HasEntry
  <1>4. CASE Probes(wire) = {} /\ RouteChan = Empty BY Zenon, <1>1, <1>4 DEF TokenInv
  <1>5. CASE /\ trace.pc = "wait" /\ RouteChan = Empty
             /\ \E p \in DOMAIN wire : Probes(wire) = {p} /\ wire[p] = 1 /\ OnWay(p)
    <2>1. PICK p \in DOMAIN wire : Probes(wire) = {p} /\ wire[p] = 1 /\ OnWay(p) BY Zenon, <1>5
    <2>2. Probes(wire') = {p} /\ wire'[p] = 1 /\ OnWay(p)' BY Zenon, <1>1, <1>3, <2>1
    <2>3. p \in DOMAIN wire' BY Zenon, <2>2 DEF Probes
    <2> QED BY Zenon, <1>5, <2>2, <2>3 DEF TokenInv
  <1>6. CASE /\ trace.pc = "wait" /\ Probes(wire) = {}
             /\ \E msg \in Messages : RouteChan = Only(msg) /\ Answer(msg)
    BY Zenon, <1>1, <1>3, <1>6 DEF TokenInv
  <1> QED BY Zenon, <1>4, <1>5, <1>6 DEF TokenInv

LEMMA FixedRoute ==
  ASSUME RouteInv, UNCHANGED <<RoutingTable, trace>> PROVE RouteInv'
  BY ZenonT(60) DEF RouteInv, Hop, HopOf, CostOf, Reach, HasEntry, Active

\* what a step that is not about the traceroute may put on the wire
Plain(x) == x = {} \/ \E q \in Packets : x = {q} /\ ~Probe(q) /\ FarEnough(q)

LEMMA PlainPut ==
  ASSUME NEW b, IsBag(b), FarOver(b), NEW x, Plain(x)
  PROVE  FarOver(Put(b, x)) /\ Quiet(b, Put(b, x))
  <1>1. CASE x = {}
    <2>1. Put(b, x) = b BY Zenon, <1>1, PutNone
    <2> QED BY Zenon, <2>1 DEF Quiet
  <1>2. CASE \E q \in Packets : x = {q} /\ ~Probe(q) /\ FarEnough(q)
    <2>1. PICK q \in Packets : x = {q} /\ ~Probe(q) /\ FarEnough(q) BY Zenon, <1>2
    <2>2. DOMAIN Put(b, x) = DOMAIN b \cup {q} BY Zenon, <2>1, PutIs
    <2>3. FarOver(Put(b, x)) BY Zenon, <2>1, <2>2 DEF FarOver
    <2>4. Quiet(b, Put(b, x)) BY Zenon, <2>1, QuietPut
    <2> QED BY Zenon, <2>3, <2>4
  <1> QED BY Zenon, <1>1, <1>2 DEF Plain

LEMMA PlainStep ==
  ASSUME TypeInv, SettledInv, NEW x, Plain(x), wire' = Put(wire, x),
         UNCHANGED <<RoutingTable, trace, RouteChan>>
  PROVE  SettledInv'
  <1>1. FarOver(Put(wire, x)) /\ Quiet(wire, Put(wire, x)) BY Zenon, PlainPut DEF TypeInv, SettledInv
  <1>2. FarOver(wire)'
    <2>1. \A p : FarEnough(p)' <=> FarEnough(p) BY Zenon, FixedTables
    <2> QED BY Zenon, <1>1, <2>1 DEF FarOver
  <1>3. TokenInv' BY Zenon, <1>1, QuietToken DEF SettledInv
  <1>4. RouteInv' BY Zenon, FixedRoute DEF SettledInv
  <1> QED BY Zenon, <1>2, <1>3, <1>4 DEF SettledInv

\* A packet that Origin sends with the whole TTL is plain, unless it is a probe.
LEMMA OutPlain ==
  ASSUME TypeInv, NEW n \in Nodes, NEW p \in Packets, p.ttl = TTL_MAX, ~Probe(p)
  PROVE  /\ HasEntry(n, p.dst) => Plain(Out(n, p))
         /\ Plain(OutIfReachable(n, p)) /\ Plain({p})
  <1>1. ASSUME HasEntry(n, p.dst) PROVE Plain(Out(n, p))
    <2>1. CASE Out(n, p) = {} BY Zenon, <2>1 DEF Plain
    <2>2. CASE \E q \in Packets : Out(n, p) = {q} /\ Moved(p, q, n, p.ttl)
      <3>1. PICK q \in Packets : Out(n, p) = {q} /\ Moved(p, q, n, p.ttl) BY Zenon, <2>2
      <3>2. ~Probe(q) /\ q.ttl = TTL_MAX BY Zenon, <3>1 DEF Moved, Probe
      <3> QED BY Zenon, <3>1, <3>2, FullFar DEF Plain
    <2> QED BY Zenon, <1>1, <2>1, <2>2, OutIs
  <1>2. Plain(OutIfReachable(n, p)) BY Zenon, <1>1 DEF OutIfReachable, Reach, Plain
  <1>3. Plain({p}) BY Zenon, FullFar DEF Plain
  <1> QED BY Zenon, <1>1, <1>2, <1>3

LEMMA SendPacketRoute ==
  ASSUME TypeInv, SettledInv, NEW d \in Nodes, SendPacket(d) PROVE SettledInv'
  <1> DEFINE p == Packet(Origin, d, "data", TTL_MAX)
             x == IF d = Origin THEN {p} ELSE OutIfReachable(Origin, p)
  <1>1. p \in Packets /\ p.ttl = TTL_MAX /\ ~Probe(p) BY Zenon, LimitsAre DEF Packet, Packets, Probe
  <1>2. wire' = Put(wire, x) /\ UNCHANGED <<RoutingTable, trace, RouteChan>> BY Zenon DEF SendPacket
  <1>3. Plain(x)
    <2> HIDE DEF p
    <2> QED BY Zenon, <1>1, OutPlain, LimitsAre
  <1> HIDE DEF x
  <1> QED BY Zenon, <1>2, <1>3, PlainStep

LEMMA ReadTCPRoute ==
  ASSUME TypeInv, SettledInv, NEW d \in Nodes, ReadTCP(d) PROVE SettledInv'
  <1> DEFINE p == Packet(Origin, d, "tcp", TTL_MAX)
             x == IF HasEntry(Origin, d) THEN Out(Origin, p) ELSE {}
  <1>1. p \in Packets /\ p.ttl = TTL_MAX /\ ~Probe(p) /\ p.dst = d
    BY Zenon, LimitsAre DEF Packet, Packets, Probe
  <1>2. wire' = Put(wire, x) /\ UNCHANGED <<RoutingTable, trace, RouteChan>> BY Zenon DEF ReadTCP
  <1>3. Plain(x)
    <2> HIDE DEF p
    <2>1. CASE HasEntry(Origin, d) BY Zenon, <1>1, <2>1, OutPlain, LimitsAre
    <2>2. CASE ~HasEntry(Origin, d) BY Zenon, <2>2 DEF Plain
    <2> QED BY Zenon, <2>1, <2>2
  <1> HIDE DEF x
  <1> QED BY Zenon, <1>2, <1>3, PlainStep

LEMMA ReadRIPRoute ==
  ASSUME TypeInv, SettledInv, NEW n \in Neighbors, ReadRIP(n) PROVE SettledInv'
  <1> DEFINE p == [Packet(Origin, n, "rip", TTL_MAX) EXCEPT !.at = n]
  <1>1. p \in Packets /\ p.ttl = TTL_MAX /\ ~Probe(p)
    BY Zenon, LimitsAre DEF Packet, Packets, Probe, Neighbors
  <1>2. wire' = Put(wire, {p}) /\ UNCHANGED <<RoutingTable, trace, RouteChan>>
    BY Zenon DEF ReadRIP
  <1> HIDE DEF p
  <1>3. Plain({p}) BY Zenon, <1>1, OutPlain, LimitsAre
  <1> QED BY Zenon, <1>2, <1>3, PlainStep

\* A packet that is no probe: handlers take it, or it goes on.
LEMMA ReadPlain ==
  ASSUME TypeInv, Settled, SettledInv, NEW p \in DOMAIN wire, ReadFromLinkLayer(p), ~Probe(p)
  PROVE  SettledInv'
  <1> DEFINE rest == Take(wire, p)
  <1>1. IsBag(rest) /\ DOMAIN rest \subseteq DOMAIN wire /\ p \in Packets
    BY Zenon, TakeIs, RestType DEF TypeInv, WireType
  <1>2. FarOver(rest) /\ Quiet(wire, rest) BY Zenon, <1>1, QuietTake DEF SettledInv, FarOver, TypeInv
  <1>3. FarEnough(p) BY Zenon DEF SettledInv, FarOver, Probe
  <1>4. UNCHANGED <<RoutingTable, trace>> BY Zenon DEF ReadFromLinkLayer
  <1>5. /\ UNCHANGED RouteChan
        /\ wire' = rest \/ (p.at # p.dst /\ wire' = Put(rest, Forward(p.at, p)))
    BY Zenon, ReadIs DEF Probe
  <1> HIDE DEF rest
  <1>6. FarOver(wire') /\ Quiet(wire, wire')
    <2>1. CASE wire' = rest BY Zenon, <1>2, <2>1
    <2>2. CASE p.at # p.dst /\ wire' = Put(rest, Forward(p.at, p))
      <3>1. p.ttl # 1 BY Zenon, <1>1, <1>3, <2>2, ForwardFar DEF Probe
      <3>2. Plain(Forward(p.at, p))
        <4>1. CASE Forward(p.at, p) = {} BY Zenon, <4>1 DEF Plain
        <4>2. CASE /\ Reach(p.at, p.dst)
                   /\ \E q \in Packets :
                        Forward(p.at, p) = {q} /\ Moved(p, q, p.at, p.ttl - 1)
          <5>1. PICK q \in Packets :
                   Forward(p.at, p) = {q} /\ Moved(p, q, p.at, p.ttl - 1)
            BY Zenon, <4>2
          <5>2. ~Probe(q) BY Zenon, <5>1 DEF Moved, Probe
          <5>3. FarEnough(q) BY Zenon, <1>1, <1>3, <2>2, <4>2, <5>1, ForwardFar DEF Probe
          <5> QED BY Zenon, <5>1, <5>2, <5>3 DEF Plain
        <4> QED BY Zenon, <1>1, <2>2, <3>1, <4>1, <4>2, ForwardIs
      <3> QED BY Zenon, <1>1, <1>2, <2>2, <3>2, PlainPut, QuietTwice
    <2> QED BY Zenon, <1>5, <2>1, <2>2
  <1>7. FarOver(wire)'
    <2>1. \A y : FarEnough(y)' <=> FarEnough(y) BY Zenon, <1>4, FixedTables
    <2> QED BY Zenon, <1>6, <2>1 DEF FarOver
  <1>8. TokenInv' BY Zenon, <1>4, <1>5, <1>6, QuietToken DEF SettledInv
  <1>9. RouteInv' BY Zenon, <1>4, FixedRoute DEF SettledInv
  <1> QED BY Zenon, <1>7, <1>8, <1>9 DEF SettledInv

-----------------------------------------------------------------------------
(* Steps of the traceroute.                                                *)

\* While a traceroute runs, its last hop reaches the destination and is not it.
LEMMA LastHop ==
  ASSUME TypeInv, Settled, RouteInv, Active
  PROVE  LET h == Hop(Len(trace.path))
         IN  /\ h \in Nodes /\ Reach(h, trace.dst) /\ h # trace.dst
             /\ CostOf(h, trace.dst) = CostOf(Origin, trace.dst) - Len(trace.path)
             /\ Ahead \in Nodes /\ Reach(Ahead, trace.dst)
             /\ CostOf(Ahead, trace.dst) = CostOf(Origin, trace.dst) - (Len(trace.path) + 1)
             /\ Len(trace.path) < INFINITY
  <1> DEFINE n == Len(trace.path)
             h == Hop(n)
             d == trace.dst
  <1>1. /\ d \in Nodes /\ d # Origin /\ Reach(Origin, d) /\ trace.path \in Seq(Nodes)
    BY Zenon DEF TypeInv
  <1>2. n \in Nat BY <1>1
  <1>3. CostOf(Origin, d) \in 1 .. INFINITY - 1 BY Zenon, <1>1, LimitsAre, CloserIs
  <1>4. h \in Nodes /\ Reach(h, d) /\ h # d /\ CostOf(h, d) = CostOf(Origin, d) - n
    <2>1. CASE n = 0 BY <1>1, <1>3, <2>1, LimitsAre DEF Hop
    <2>2. CASE n # 0
      <3>1. n \in 1 .. n BY <1>2, <2>2
      <3>2. h \in Nodes BY SMTT(30), <1>1, <2>2, <3>1 DEF Hop
      <3> QED BY Zenon, <3>1, <3>2 DEF RouteInv
    <2> QED BY Zenon, <2>1, <2>2
  <1>5. /\ Ahead \in Nodes /\ Reach(Ahead, d) /\ CostOf(Ahead, d) = CostOf(h, d) - 1
        /\ CostOf(h, d) \in 1 .. INFINITY - 1
    BY Zenon, <1>1, <1>4, CloserIs DEF Ahead
  <1>6. n < INFINITY /\ CostOf(Ahead, d) = CostOf(Origin, d) - (n + 1)
    BY <1>2, <1>3, <1>4, <1>5, LimitsAre
  <1> QED BY Zenon, <1>4, <1>5, <1>6

LEMMA TracerouteRoute ==
  ASSUME TypeInv, SettledInv, NEW d \in Nodes, Traceroute(d) PROVE SettledInv'
  <1>1. /\ trace'.path = <<>> /\ trace'.dst = d
        /\ trace'.pc = IF Reach(Origin, d) THEN "send" ELSE "done"
        /\ UNCHANGED <<RoutingTable, wire, RouteChan>> /\ trace.pc # "wait"
    BY Zenon DEF Traceroute, Prompt
  <1>2. Reach(Origin, d)' <=> Reach(Origin, d) BY Zenon, <1>1, FixedTables
  <1>3. RouteInv'
    <2>1. 1 .. Len(trace'.path) = {} BY SMTT(30), <1>1
    <2>2. trace'.pc = "done" => ~Reach(Origin, trace.dst)' BY Zenon, <1>1, <1>2 DEF Reach, HasEntry
    <2> QED BY Zenon, <1>1, <2>1, <2>2 DEF RouteInv
  <1>4. FarOver(wire)' BY Zenon, <1>1, FixedTables DEF SettledInv, FarOver
  <1>5. TokenInv' BY Zenon, <1>1 DEF SettledInv, TokenInv
  <1> QED BY Zenon, <1>3, <1>4, <1>5 DEF SettledInv

\* One probe among packets that are none.
LEMMA ProbePut ==
  ASSUME NEW b, IsBag(b), Probes(b) = {}, NEW q, Probe(q)
  PROVE  LET c == Put(b, {q})
         IN  q \in DOMAIN c /\ Probes(c) = {q} /\ c[q] = 1
  <1> DEFINE c == Put(b, {q})
  <1>1. q \notin DOMAIN b BY Zenon DEF Probes, Probe
  <1>2. DOMAIN c = DOMAIN b \cup {q} /\ c[q] = 1 BY Zenon, <1>1, PutIs
  <1>3. Probes(c) = {q} BY Zenon, <1>2 DEF Probes, Probe
  <1> QED BY Zenon, <1>2, <1>3

\* The rest of the wire without the only probe.
LEMMA ProbeTake ==
  ASSUME NEW b, IsBag(b), NEW p \in DOMAIN b, Probes(b) = {p}, b[p] = 1
  PROVE  LET rest == Take(b, p)
         IN  IsBag(rest) /\ DOMAIN rest \subseteq DOMAIN b /\ Probes(rest) = {}
  <1> DEFINE rest == Take(b, p)
  <1>1. /\ IsBag(rest)
        /\ \A y : y \in DOMAIN rest <=> y \in DOMAIN b /\ (y = p => b[p] > 1)
    BY Zenon, TakeIs
  <1>2. p \notin DOMAIN rest BY <1>1
  <1> HIDE DEF rest
  <1>3. DOMAIN rest \subseteq DOMAIN b BY Zenon, <1>1
  <1>4. Probes(rest) = {} BY Zenon, <1>2, <1>3 DEF Probes
  <1> QED BY Zenon, <1>1, <1>3, <1>4 DEF rest

\* A step that puts a probe on a wire without one.
LEMMA ProbeStep ==
  ASSUME NEW b, IsBag(b), Probes(b) = {}, FarOver(b), NEW q, Probe(q),
         q.kind # "echo" => FarEnough(q), wire' = Put(b, {q}),
         UNCHANGED RoutingTable, RouteChan' = Empty, trace'.pc = "wait", OnWay(q)', RouteInv'
  PROVE  SettledInv'
  <1>1. q \in DOMAIN wire' /\ Probes(wire') = {q} /\ wire'[q] = 1 BY Zenon, ProbePut
  <1>2. TokenInv' BY Zenon, <1>1 DEF TokenInv
  <1>3. DOMAIN wire' = DOMAIN b \cup {q} BY Zenon, PutIs
  <1>4. \A y : FarEnough(y)' <=> FarEnough(y) BY Zenon, FixedTables
  <1>5. FarOver(wire)' BY Zenon, <1>3, <1>4 DEF FarOver
  <1> QED BY Zenon, <1>2, <1>5 DEF SettledInv

LEMMA TraceEchoRoute ==
  ASSUME TypeInv, Settled, SettledInv, TraceEcho PROVE SettledInv'
  <1> DEFINE p == Packet(Origin, trace.dst, "echo", trace.currTTL)
  <1>1. /\ trace.dst \in Nodes /\ trace.currTTL \in 1 .. INFINITY + 1 /\ trace.pc = "send"
        /\ HasEntry(Origin, trace.dst) /\ trace.dst # Origin /\ Active
        /\ Len(trace.path) = trace.currTTL - 1
    BY Zenon DEF TraceEcho, TypeInv, Active, Reach
  <1>2. trace.currTTL <= INFINITY
    <2>1. Len(trace.path) < INFINITY BY Zenon, <1>1, LastHop DEF SettledInv
    <2> QED BY <1>1, <2>1, LimitsAre
  <1>3. /\ p \in Packets /\ p.src = Origin /\ p.dst = trace.dst /\ p.kind = "echo"
        /\ p.ttl = trace.currTTL
    BY <1>1, <1>2, LimitsAre DEF Packet, Packets
  <1>4. /\ wire' = Put(wire, Out(Origin, p)) /\ UNCHANGED <<RoutingTable, RouteChan>>
        /\ trace' = [trace EXCEPT !.pc = "wait"]
    BY <1>1, <1>2, LimitsAre DEF TraceEcho
  <1>5. /\ trace'.pc = "wait" /\ trace'.dst = trace.dst /\ trace'.currTTL = trace.currTTL
        /\ trace'.path = trace.path
    BY Zenon, <1>4 DEF TypeInv
  <1> HIDE DEF p
  <1>6. PICK q \in Packets : Out(Origin, p) = {q} /\ Moved(p, q, Origin, p.ttl)
    BY Zenon, <1>1, <1>3, OutIs, LimitsAre
  <1>7. /\ q.kind = "echo" /\ q.src = Origin /\ q.dst = trace.dst /\ q.ttl = trace.currTTL
        /\ q.at = HopOf(Origin, trace.dst)
    BY Zenon, <1>3, <1>6 DEF Moved
  <1>8. OnWay(q)'
    <2>1. trace'.currTTL - q.ttl = 0 /\ q.ttl <= trace'.currTTL BY <1>1, <1>5, <1>7
    <2>2. Hop(trace.currTTL - q.ttl)' = Origin BY Zenon, <2>1 DEF Hop
    <2> QED BY Zenon, <1>4, <1>5, <1>7, <2>1, <2>2 DEF OnWay, HopOf
  <1>9. RouteInv' BY <1>1, <1>4, <1>5 DEF SettledInv, RouteInv, Hop, HopOf, CostOf, Reach, HasEntry, Active
  <1>10. Probes(wire) = {} /\ RouteChan = Empty BY Zenon, <1>1 DEF SettledInv, TokenInv
  <1>11. Probe(q) /\ IsBag(wire) /\ FarOver(wire) BY Zenon, <1>7 DEF Probe, TypeInv, SettledInv
  <1> QED BY ZenonT(60), <1>4, <1>5, <1>6, <1>7, <1>8, <1>9, <1>10, <1>11, ProbeStep

\* A token that is gone: no packet and no handler is at work.
LEMMA TokenGone ==
  ASSUME NEW b, FarOver(b), Probes(b) = {}, wire' = b, RouteChan' = Empty,
         UNCHANGED RoutingTable, RouteInv'
  PROVE  SettledInv'
  <1>1. \A y : FarEnough(y)' <=> FarEnough(y) BY Zenon, FixedTables
  <1> QED BY Zenon, <1>1 DEF SettledInv, FarOver, TokenInv

\* An echo is at the node after the hop that its TTL says: the node ahead if it
\* is the last hop, else the next of the path, which is not the destination.
LEMMA EchoAt ==
  ASSUME TypeInv, RouteInv, Active, NEW p \in Packets, p.kind = "echo", OnWay(p)
  PROVE  /\ p.ttl = 1 => p.at = Ahead
         /\ p.ttl # 1 => p.at = Hop(trace.currTTL - (p.ttl - 1)) /\ p.at # trace.dst
         /\ p.at = trace.dst => p.at = Ahead
  <1> DEFINE i == trace.currTTL - p.ttl
  <1>1. /\ Len(trace.path) = trace.currTTL - 1 /\ trace.currTTL \in Nat /\ p.ttl \in Nat \ {0}
    BY DEF TypeInv, Packets
  <1>2. p.at = HopOf(Hop(i), trace.dst) /\ p.ttl <= trace.currTTL BY Zenon DEF OnWay
  <1>3. CASE p.ttl = 1
    <2>1. i = Len(trace.path) BY Zenon, <1>1, <1>3
    <2> QED BY Zenon, <1>2, <1>3, <2>1 DEF Ahead
  <1>4. CASE p.ttl # 1
    <2>1. i + 1 \in 1 .. Len(trace.path) /\ (i + 1) - 1 = i BY SMTT(30), <1>1, <1>2, <1>4
    <2>2. Hop(i + 1) = HopOf(Hop(i), trace.dst) /\ Hop(i + 1) # trace.dst
      BY Zenon, <2>1 DEF RouteInv
    <2>3. trace.currTTL - (p.ttl - 1) = i + 1 BY SMTT(30), <1>1
    <2> QED BY Zenon, <1>2, <1>4, <2>2, <2>3
  <1> QED BY Zenon, <1>3, <1>4

\* A probe: the echo goes on, or the node ahead answers; the answer goes on, or a
\* handler of Origin waits with it.
LEMMA ReadProbe ==
  ASSUME TypeInv, Settled, SettledInv, NEW p \in DOMAIN wire, ReadFromLinkLayer(p), Probe(p)
  PROVE  SettledInv'
  <1> DEFINE rest == Take(wire, p)
             msg == [Found |-> p.kind = "reply", NextHop |-> p.src]
  <1>1. /\ trace.pc = "wait" /\ RouteChan = Empty /\ Active
        /\ Probes(wire) = {p} /\ wire[p] = 1 /\ OnWay(p)
    <2>1. p \in Probes(wire) BY Zenon DEF Probes, Probe
    <2>2. /\ trace.pc = "wait" /\ RouteChan = Empty
          /\ \E q \in DOMAIN wire : Probes(wire) = {q} /\ wire[q] = 1 /\ OnWay(q)
      BY Zenon, <2>1 DEF SettledInv, TokenInv
    <2> QED BY Zenon, <2>1, <2>2 DEF Active
  <1>2. /\ p \in Packets /\ IsBag(rest) /\ Probes(rest) = {}
        /\ DOMAIN rest \subseteq DOMAIN wire
    BY Zenon, <1>1, ProbeTake DEF TypeInv
  <1>3. FarOver(rest) BY Zenon, <1>2 DEF SettledInv, FarOver
  <1>4. UNCHANGED <<RoutingTable, trace>> BY Zenon DEF ReadFromLinkLayer
  <1>5. RouteInv /\ RouteInv' BY Zenon, <1>4, FixedRoute DEF SettledInv
  <1>6. /\ p.at \in Nodes /\ p.src \in Nodes /\ p.dst \in Nodes /\ p.ttl \in 1 .. TTL_MAX
        /\ trace.dst \in Nodes /\ Reach(Origin, trace.dst) /\ trace.dst # Origin
        /\ Origin \in Nodes
    BY Zenon, <1>1, <1>2, LimitsAre DEF TypeInv, Packets
  <1>7. \A q : OnWay(q)' <=> OnWay(q)
    BY ZenonT(60), <1>4 DEF OnWay, Ahead, Hop, HopOf, Reach, HasEntry
  <1> HIDE DEF rest
  <1>8. CASE wire' = rest /\ UNCHANGED RouteChan
    BY Zenon, <1>1, <1>2, <1>3, <1>4, <1>5, <1>8, TokenGone
  <1>9. ASSUME NEW q \in Packets, wire' = Put(rest, {q}), UNCHANGED RouteChan,
               Probe(q), OnWay(q), q.kind # "echo" => FarEnough(q)
        PROVE  SettledInv'
    BY Zenon, <1>1, <1>2, <1>3, <1>4, <1>5, <1>7, <1>9, ProbeStep
  <1>10. ASSUME wire' = Put(rest, {}), UNCHANGED RouteChan PROVE SettledInv'
    <2>1. wire' = rest BY Zenon, <1>2, <1>10, PutNone
    <2> QED BY Zenon, <1>8, <1>10, <2>1
  <1>11. CASE /\ p.kind = "echo" /\ p.at = p.dst /\ HasEntry(p.at, p.src)
              /\ wire' = Put(rest, Out(p.at, EchoReply(p))) /\ UNCHANGED RouteChan
    <2> DEFINE e == EchoReply(p)
    <2>1. p.src = Origin /\ p.dst = trace.dst BY Zenon, <1>1, <1>11 DEF OnWay
    <2>2. Ahead = trace.dst BY Zenon, <1>1, <1>2, <1>5, <1>11, <2>1, EchoAt
    <2>3. /\ e \in Packets /\ e.src = trace.dst /\ e.dst = Origin /\ e.kind = "reply"
          /\ e.ttl = TTL_MAX
      BY Zenon, <1>2, <2>1, EchoReplyIs
    <2> HIDE DEF e
    <2>4. PICK q \in Packets : Out(p.at, e) = {q} /\ Moved(e, q, p.at, e.ttl)
      BY Zenon, <1>6, <1>11, <2>1, <2>3, OutIs
    <2>5. /\ q.at = HopOf(trace.dst, Origin) /\ q.src = trace.dst /\ q.dst = Origin
          /\ q.kind = "reply" /\ q.ttl = TTL_MAX
      BY Zenon, <1>11, <2>1, <2>3, <2>4 DEF Moved
    <2>6. Reach(trace.dst, Origin) BY Zenon, <1>6, BackIs
    <2>7. Reach(q.at, Origin) BY <1>6, <2>5, <2>6, CloserIs
    <2>8. OnWay(q) /\ Probe(q) BY Zenon, <2>2, <2>5, <2>7 DEF OnWay, Probe
    <2>9. FarEnough(q) BY Zenon, <2>5, FullFar
    <2> QED BY Zenon, <1>9, <1>11, <2>4, <2>8, <2>9 DEF e
  <1>12. CASE /\ p.kind \in {"reply", "exceeded"} /\ p.at = p.dst /\ wire' = rest
              /\ RouteChan' = Put(RouteChan, {msg})
    <2>1. p.src = Ahead /\ p.kind = IF Ahead = trace.dst THEN "reply" ELSE "exceeded"
      BY Zenon, <1>1, <1>12 DEF OnWay
    <2>2. msg \in Messages /\ msg.NextHop = p.src /\ (msg.Found <=> p.kind = "reply")
      BY Zenon, <1>6 DEF Messages
    <2> HIDE DEF msg
    <2>3. Answer(msg) BY Zenon, <2>1, <2>2 DEF Answer
    <2>4. RouteChan' = Only(msg) BY Zenon, <1>1, <1>12, OneIs
    <2>5. Answer(msg)' <=> Answer(msg) BY Zenon, <1>4 DEF Answer, Ahead, Hop, HopOf, msg
    <2>6. TokenInv' BY Zenon, <1>1, <1>2, <1>4, <1>12, <2>2, <2>3, <2>4, <2>5 DEF TokenInv
    <2>7. FarOver(wire)'
      <3>1. \A y : FarEnough(y)' <=> FarEnough(y) BY Zenon, <1>4, FixedTables
      <3> QED BY Zenon, <1>3, <1>12, <3>1 DEF FarOver
    <2> QED BY Zenon, <1>5, <2>6, <2>7 DEF SettledInv
  <1>13. CASE p.at # p.dst /\ wire' = Put(rest, Forward(p.at, p)) /\ UNCHANGED RouteChan
    <2>1. CASE Forward(p.at, p) = {} BY Zenon, <1>10, <1>13, <2>1
    <2>2. CASE /\ p.ttl # 1 /\ Reach(p.at, p.dst)
               /\ \E q \in Packets :
                    Forward(p.at, p) = {q} /\ Moved(p, q, p.at, p.ttl - 1)
      <3>1. PICK q \in Packets : Forward(p.at, p) = {q} /\ Moved(p, q, p.at, p.ttl - 1)
        BY Zenon, <2>2
      <3>2. /\ q.at = HopOf(p.at, p.dst) /\ q.src = p.src /\ q.dst = p.dst /\ q.kind = p.kind
            /\ q.ttl = p.ttl - 1 /\ Probe(q)
        BY Zenon, <3>1 DEF Moved, Probe
      <3>3. CASE p.kind = "echo"
        <4>1. p.src = Origin /\ p.dst = trace.dst /\ p.ttl <= trace.currTTL
          BY Zenon, <1>1, <3>3 DEF OnWay
        <4>2. p.at = Hop(trace.currTTL - q.ttl) BY Zenon, <1>1, <1>2, <1>5, <2>2, <3>2, <3>3, EchoAt
        <4>3. q.ttl <= trace.currTTL
          <5>1. trace.currTTL \in Nat BY DEF TypeInv
          <5> QED BY <1>6, <3>2, <4>1, <5>1
        <4>4. OnWay(q) BY Zenon, <3>2, <3>3, <4>1, <4>2, <4>3 DEF OnWay
        <4> QED BY Zenon, <1>9, <1>13, <3>1, <3>2, <3>3, <4>4
      <3>4. CASE p.kind # "echo"
        <4>1. /\ p.kind = IF Ahead = trace.dst THEN "reply" ELSE "exceeded"
              /\ p.dst = Origin /\ p.src = Ahead
          BY Zenon, <1>1, <3>4 DEF OnWay
        <4>2. Reach(q.at, Origin) BY SMTT(30), <1>6, <1>13, <2>2, <3>2, <4>1, CloserIs
        <4>3. OnWay(q) BY Zenon, <3>2, <4>1, <4>2 DEF OnWay
        <4>4. FarEnough(p) BY Zenon, <3>4 DEF SettledInv, FarOver
        <4>5. FarEnough(q) BY Zenon, <1>2, <1>13, <2>2, <3>1, <3>4, <4>4, ForwardFar
        <4> QED BY Zenon, <1>9, <1>13, <3>1, <3>2, <4>3, <4>5
      <3> QED BY Zenon, <3>3, <3>4
    <2>3. CASE /\ p.ttl = 1 /\ Reach(p.at, p.src) /\ p.at # p.src
               /\ \E q \in Packets :
                    /\ Forward(p.at, p) = {q} /\ q.kind = "exceeded" /\ q.ttl = TTL_MAX
                    /\ q.src = p.at /\ q.dst = p.src /\ q.at = HopOf(p.at, p.src)
      <3>1. PICK q \in Packets :
                    /\ Forward(p.at, p) = {q} /\ q.kind = "exceeded" /\ q.ttl = TTL_MAX
                    /\ q.src = p.at /\ q.dst = p.src /\ q.at = HopOf(p.at, p.src)
        BY Zenon, <2>3
      <3>2. p.kind = "echo"
        <4> SUFFICES ASSUME p.kind # "echo" PROVE FALSE BY Zenon
        <4>1. FarEnough(p) BY Zenon DEF SettledInv, FarOver
        <4> QED BY Zenon, <1>2, <1>13, <2>3, <4>1, ForwardFar
      <3>3. p.src = Origin /\ p.dst = trace.dst BY Zenon, <1>1, <3>2 DEF OnWay
      <3>4. p.at = Ahead /\ Ahead # trace.dst
        BY ZenonT(60), <1>1, <1>2, <1>5, <1>13, <2>3, <3>2, <3>3, EchoAt
      <3>5. Reach(q.at, Origin) BY SMTT(30), <1>6, <2>3, <3>1, <3>3, CloserIs
      <3>6. OnWay(q) /\ Probe(q) BY Zenon, <3>1, <3>3, <3>4, <3>5 DEF OnWay, Probe
      <3>7. FarEnough(q) BY Zenon, <3>1, FullFar
      <3> QED BY Zenon, <1>9, <1>13, <3>1, <3>6, <3>7
    <2> QED BY Zenon, <1>2, <1>13, <2>1, <2>2, <2>3, ForwardIs
  <1> QED BY Zenon, <1>8, <1>11, <1>12, <1>13, ReadIs DEF rest

LEMMA TraceHopRoute ==
  ASSUME TypeInv, Settled, SettledInv, NEW msg \in DOMAIN RouteChan, TraceHop(msg)
  PROVE  SettledInv'
  <1>a. PICK n, d : n = Len(trace.path) /\ d = trace.dst BY Zenon
  <1>1. /\ msg \in Messages /\ trace.pc = "wait" /\ Active /\ trace' = Answered(trace, msg)
        /\ RouteChan' = Take(RouteChan, msg) /\ UNCHANGED <<RoutingTable, wire>>
    BY Zenon DEF TypeInv, TraceHop, Active
  <1>2. Probes(wire) = {} /\ RouteChan = Only(msg) /\ Answer(msg)
    <2>1. RouteChan # Empty BY Zenon, EmptyIs
    <2>2. /\ Probes(wire) = {}
          /\ \E m \in Messages : RouteChan = Only(m) /\ Answer(m)
      BY Zenon, <2>1 DEF SettledInv, TokenInv
    <2>3. PICK m \in Messages : RouteChan = Only(m) /\ Answer(m) BY Zenon, <2>2
    <2>4. msg = m BY Zenon, <2>3, OneIs
    <2> QED BY Zenon, <2>2, <2>3, <2>4
  <1>3. RouteChan' = Empty BY Zenon, <1>1, <1>2, OneIs
  <1>4. /\ trace'.dst = d /\ trace'.path = Append(trace.path, Ahead) /\ Len(trace'.path) = n + 1
        /\ trace'.pc = IF Ahead = d THEN "done" ELSE "send"
    BY Zenon, <1>1, <1>2, <1>a, AnsweredIs DEF Answer
  <1>5. /\ trace.path \in Seq(Nodes) /\ n \in Nat /\ Reach(Origin, d) BY <1>1, <1>a DEF TypeInv
  <1>6. Hop(n + 1)' = Ahead /\ \A i \in 0 .. n : Hop(i)' = Hop(i)
    <2>1. Append(trace.path, Ahead)[n + 1] = Ahead BY <1>5, <1>a
    <2>2. \A i \in 1 .. n : Append(trace.path, Ahead)[i] = trace.path[i] BY <1>5, <1>a
    <2>3. n + 1 # 0 BY <1>5
    <2>4. Hop(n + 1)' = Ahead BY Zenon, <1>4, <2>1, <2>3 DEF Hop
    <2>5. ASSUME NEW i \in 0 .. n PROVE Hop(i)' = Hop(i)
      <3>1. CASE i = 0 BY Zenon, <3>1 DEF Hop
      <3>2. CASE i # 0
        <4>1. i \in 1 .. n BY <1>5, <3>2
        <4> QED BY Zenon, <1>4, <2>2, <3>2, <4>1 DEF Hop
      <3> QED BY Zenon, <3>1, <3>2
    <2> QED BY Zenon, <2>4, <2>5
  <1>7. /\ Reach(Ahead, d) /\ CostOf(Ahead, d) = CostOf(Origin, d) - (n + 1)
        /\ Ahead = HopOf(Hop(n), d)
    BY Zenon, <1>1, <1>a, LastHop DEF SettledInv, Ahead
  <1>8. \A k : /\ Reach(k, d)' <=> Reach(k, d)
               /\ HopOf(k, d)' = HopOf(k, d) /\ CostOf(k, d)' = CostOf(k, d)
    BY Zenon, <1>1 DEF Reach, HasEntry, HopOf, CostOf
  <1>9. ASSUME NEW i \in 1 .. n + 1
        PROVE  /\ Hop(i)' = HopOf(Hop(i - 1), d)' /\ Reach(Hop(i), d)'
               /\ CostOf(Hop(i), d)' = CostOf(Origin, d)' - i
               /\ Active' => Hop(i)' # d
    <2>1. CASE i = n + 1
      <3>1. i - 1 = n /\ n \in 0 .. n BY <1>5, <2>1
      <3>2. Hop(i)' = Ahead /\ Hop(i - 1)' = Hop(n) BY Zenon, <1>6, <2>1, <3>1
      <3>3. Active' => Ahead # d BY Zenon, <1>4 DEF Active
      <3> QED BY Zenon, <1>1, <1>7, <2>1, <3>2, <3>3 DEF Reach, HasEntry, HopOf, CostOf
    <2>2. CASE i \in 1 .. n
      <3>1. Hop(i)' = Hop(i) /\ Hop(i - 1)' = Hop(i - 1)
        <4>1. i \in 0 .. n /\ i - 1 \in 0 .. n BY SMTT(30), <1>5, <2>2
        <4> QED BY Zenon, <1>6, <4>1
      <3>2. /\ Hop(i) = HopOf(Hop(i - 1), d) /\ Reach(Hop(i), d)
            /\ CostOf(Hop(i), d) = CostOf(Origin, d) - i /\ Hop(i) # d
        BY Zenon, <1>1, <1>a, <2>2 DEF SettledInv, RouteInv
      <3> QED BY Zenon, <1>1, <3>1, <3>2 DEF Reach, HasEntry, HopOf, CostOf
    <2> QED BY SMTT(30), <1>5, <2>1, <2>2
  <1>10. trace'.pc = "done" => Reach(Origin, d)' /\ Hop(n + 1)' = d
    BY Zenon, <1>4, <1>5, <1>6, <1>8
  <1>11. RouteInv' BY Zenon, <1>4, <1>9, <1>10 DEF RouteInv
  <1>12. FarOver(wire)'
    <2>1. \A y : FarEnough(y)' <=> FarEnough(y) BY Zenon, <1>1, FixedTables
    <2> QED BY Zenon, <1>1, <2>1 DEF SettledInv, FarOver
  <1>13. TokenInv' BY Zenon, <1>1, <1>2, <1>3 DEF TokenInv, Probes
  <1> QED BY Zenon, <1>11, <1>12, <1>13 DEF SettledInv

-----------------------------------------------------------------------------
LEMMA InitFWD == Init => FWDInv
  <1> SUFFICES ASSUME Init PROVE FWDInv BY Zenon
  <1>1. TypeInv BY Zenon, InitType
  <1>2. FarOver(wire) /\ Probes(wire) = {} BY Zenon, EmptyIs DEF Init, FarOver, Probes
  <1>3. TokenInv BY Zenon, <1>2 DEF Init, TokenInv
  <1>4. trace.path = <<>> /\ trace.pc = "idle" BY Zenon DEF Init
  <1>5. 1 .. Len(trace.path) = {} BY <1>4
  <1>6. RouteInv BY Zenon, <1>4, <1>5 DEF RouteInv
  <1> QED BY Zenon, <1>1, <1>2, <1>3, <1>6 DEF FWDInv, SettledInv

LEMMA NextFWD == FWDInv /\ [Next]_vars => FWDInv'
  <1> SUFFICES ASSUME FWDInv, [Next]_vars, Settled' PROVE SettledInv'
    BY Zenon, NextType DEF FWDInv
  <1>1. UNCHANGED RoutingTable
    BY Zenon DEF Next, SendPacket, Traceroute, ReadTCP, Arriving, ReadFromLinkLayer, Tracing, TraceEcho,
           TraceHop, UpdateDue, Updating, ReadRIP, vars
  <1>2. TypeInv /\ Settled /\ SettledInv BY Zenon, <1>1, FixedTables DEF FWDInv
  <1>3. ASSUME NEW d \in Nodes, SendPacket(d) PROVE SettledInv' BY Zenon, <1>2, <1>3, SendPacketRoute
  <1>4. ASSUME NEW d \in Nodes, Traceroute(d) PROVE SettledInv' BY Zenon, <1>2, <1>4, TracerouteRoute
  <1>5. ASSUME NEW d \in Nodes, ReadTCP(d) PROVE SettledInv' BY Zenon, <1>2, <1>5, ReadTCPRoute
  <1>6. ASSUME Arriving PROVE SettledInv' BY Zenon, <1>2, <1>6, ReadPlain, ReadProbe DEF Arriving
  <1>7. ASSUME Tracing PROVE SettledInv' BY Zenon, <1>2, <1>7, TraceEchoRoute, TraceHopRoute DEF Tracing
  <1>8. ASSUME Updating PROVE SettledInv' BY Zenon, <1>2, <1>8, ReadRIPRoute DEF Updating
  <1>9. ASSUME UNCHANGED <<RoutingTable, wire, trace, RouteChan>> PROVE SettledInv'
    <2>1. RouteInv' BY Zenon, <1>2, <1>9, FixedRoute DEF SettledInv
    <2>2. TokenInv' BY Zenon, <1>2, <1>9, QuietToken DEF SettledInv, Quiet
    <2>3. FarOver(wire)' BY Zenon, <1>2, <1>9, FixedTables DEF SettledInv, FarOver
    <2> QED BY Zenon, <2>1, <2>2, <2>3 DEF SettledInv
  <1> QED BY Zenon, <1>3, <1>4, <1>5, <1>6, <1>7, <1>8, <1>9 DEF Next, UpdateDue, vars

\* The inductive invariant: in settled tables a traceroute has one packet or one
\* handler at work, which is where its TTL says, and its path begins the route.
THEOREM Inductive == Spec => []FWDInv
  BY InitFWD, NextFWD, PTL DEF Spec

LEMMA RouteFound == FWDInv => PathIsRoute
  <1> SUFFICES ASSUME TypeInv, Settled, SettledInv, trace.pc = "done"
               PROVE  LET hops == <<Origin>> \o trace.path
                          n == Len(trace.path)
                      IN  /\ n = IF Reach(Origin, trace.dst) THEN CostOf(Origin, trace.dst) ELSE 0
                          /\ \A i \in 1 .. n : HopOf(hops[i], trace.dst) = hops[i + 1]
    BY Zenon DEF FWDInv, PathIsRoute, CostOf, HopOf
  <1> DEFINE hops == <<Origin>> \o trace.path
             n == Len(trace.path)
             d == trace.dst
  <1>1. d \in Nodes /\ trace.path \in Seq(Nodes) /\ n \in Nat /\ Origin \in Nodes
    BY LimitsAre DEF TypeInv
  <1>2. /\ \A i \in 1 .. n : /\ Hop(i) = HopOf(Hop(i - 1), d)
                             /\ CostOf(Hop(i), d) = CostOf(Origin, d) - i
        /\ IF Reach(Origin, d) THEN Hop(n) = d ELSE trace.path = <<>>
    BY Zenon DEF SettledInv, RouteInv
  <1>3. n = IF Reach(Origin, d) THEN CostOf(Origin, d) ELSE 0
    <2>1. CASE ~Reach(Origin, d) BY Zenon, <1>2, <2>1
    <2>2. CASE Reach(Origin, d)
      <3>1. CostOf(d, d) = 0 /\ Hop(n) = d BY Zenon, <1>1, <1>2, <2>2, TableIs
      <3>2. CostOf(Origin, d) \in Nat BY <1>1, <2>2, TableIs, LimitsAre DEF Reach
      <3>3. CASE n = 0 BY Zenon, <2>2, <3>1, <3>3 DEF Hop
      <3>4. CASE n # 0
        <4>1. n \in 1 .. n BY SMTT(30), <1>1, <3>4
        <4>2. CostOf(Hop(n), d) = CostOf(Origin, d) - n BY Zenon, <1>2, <4>1
        <4> QED BY <1>1, <2>2, <3>1, <3>2, <4>2
      <3> QED BY Zenon, <3>3, <3>4
    <2> QED BY Zenon, <2>1, <2>2
  <1>4. ASSUME NEW i \in 1 .. n PROVE HopOf(hops[i], d) = hops[i + 1]
    <2>1. hops[i] = Hop(i - 1)
      <3>1. CASE i = 1 BY <1>1, <3>1 DEF Hop
      <3>2. CASE i # 1 BY <1>1, <3>2 DEF Hop
      <3> QED BY Zenon, <3>1, <3>2
    <2>2. hops[i + 1] = Hop(i) BY <1>1 DEF Hop
    <2> HIDE DEF hops
    <2> QED BY Zenon, <1>2, <2>1, <2>2
  <1> QED BY Zenon, <1>3, <1>4

\* For every network and all its settled tables, whatever is sent meanwhile: the
\* path that Traceroute prints is the route that packets for the destination take,
\* hop by hop and with as many hops as the cost says, and empty without a route.
THEOREM TracesRoute == Spec => []PathIsRoute
  BY Inductive, RouteFound, PTL

\* HandlersLeft where the tables have settled
NoHandlerLeft ==
    Settled /\ trace.pc \in {"idle", "done"} => RouteChan = Empty

LEMMA HandlersGone == FWDInv => NoHandlerLeft
  BY Zenon DEF FWDInv, SettledInv, TokenInv, NoHandlerLeft

\* In settled tables no handler waits at RouteChan once its traceroute is over:
\* each echo gets at most one answer, and the loop takes it before it goes on.
THEOREM NoHandlerWaits == Spec => []NoHandlerLeft
  BY Inductive, HandlersGone, PTL
=============================================================================
