--------------------------------- MODULE RIP ---------------------------------
(***************************************************************************)
(* The RIP handlers of a network: the route of every node to one address,  *)
(* which belongs to an interface of Owner. The entries of a message are    *)
(* handled one by one and each changes the route to its own address only,  *)
(* so one address shows what happens to all of them. A neighbour stands    *)
(* for the address of its interface.                                       *)
(*                                                                         *)
(* Time passes in rounds of UPDATE_FREQ, in which each node updates each   *)
(* neighbour once. TIMEOUT is more than two rounds and less than three, so *)
(* a route ends when it has missed two updates; a new entry has 20 seconds,*)
(* one round more.                                                         *)
(***************************************************************************)
EXTENDS Integers, FiniteSets

CONSTANTS Nodes,
          Links,        \* a set of two-element sets of nodes
          Owner,        \* the node that has the address
          OwnerPeer,    \* the neighbour on the interface with the address
          INFINITY,
          Commands,     \* bound: interfaces taken down or up, in all
          Losses,       \* bound: messages that UDP loses, in all
          Races         \* the unlucky schedules that may happen

\* check: two handlers find no entry, then both add one
\* late:  a handler of a packet that came before DownInterface runs after it
RaceNames == {"check", "late"}

ASSUME RIPAssumption ==
    /\ IsFiniteSet(Nodes) /\ Owner \in Nodes /\ "none" \notin Nodes
    /\ Links \subseteq {{n, m} : n, m \in Nodes}
    /\ {Owner, OwnerPeer} \in Links /\ OwnerPeer # Owner
    /\ INFINITY \in Nat \ {0} /\ Commands \in Nat /\ Losses \in Nat
    /\ Races \subseteq RaceNames

Neighbors == [n \in Nodes |-> {m \in Nodes \ {n} : {n, m} \in Links}]

VARIABLES table,    \* the entry of each node for the address
          timers,   \* per node: the goroutines that run waitForUpdates
          started,
          stopped,  \* <<n, m>>: the interface of n towards m is down
          sent,     \* <<n, m>>: the update of n for m in this round is out
          net,      \* messages: on the wire, in a handler, or past its check
          commands, losses

vars == <<table, timers, started, stopped, sent, net, commands, losses>>

NoEntry == [Cost |-> INFINITY, NextHop |-> "none"]

\* Command is 1 in the messages of InitHandler and 2 in updates
Message(n, m, command, costs) ==
    [from |-> n, to |-> m, at |-> "wire", Command |-> command, entries |-> costs]

Init ==
    /\ table = [n \in Nodes |-> NoEntry]
    /\ timers = [n \in Nodes |-> {}]
    /\ started = {} /\ stopped = {} /\ sent = {} /\ net = {}
    /\ commands = 0 /\ losses = 0

\* LinkInterface.Send; a message with no entries changes nothing
Send(a) == IF <<a.from, a.to>> \in stopped \/ a.entries = {} THEN {} ELSE {a}

-----------------------------------------------------------------------------
(* Sending.                                                                *)

GetAllEntries(entry) == IF entry.Cost = INFINITY THEN {} ELSE {entry.Cost}

GetSpecificEntries(n, m) ==
    IF table[n].Cost = INFINITY THEN {}
    ELSE IF table[n].NextHop = m THEN {INFINITY} ELSE {table[n].Cost}

\* InitRoutingTable, then the first messages of InitHandler
Start(n) ==
    /\ n \notin started
    /\ started' = started \cup {n}
    /\ table' = [table EXCEPT ![n] = IF n = Owner THEN [Cost |-> 0, NextHop |-> n] ELSE @]
    /\ net' = net \cup UNION {Send(Message(n, m, 1, GetAllEntries(table'[n]))) : m \in Neighbors[n]}
    /\ UNCHANGED <<timers, stopped, sent, commands, losses>>

\* one neighbour in the loop of SendUpdatesToNeighbors
SendUpdate(n, m) ==
    /\ n \in started /\ m \in Neighbors[n] /\ <<n, m>> \notin sent
    /\ net' = net \cup Send(Message(n, m, 2, GetSpecificEntries(n, m)))
    /\ sent' = sent \cup {<<n, m>>}
    /\ UNCHANGED <<table, timers, started, stopped, commands, losses>>

\* binary.Write refuses a RIPMessage, whose size is not fixed, and writes nothing
SendTriggeredUpdates(n) == UNION {Send(Message(n, m, 2, {})) : m \in Neighbors[n]}

-----------------------------------------------------------------------------
(* Receiving.                                                              *)

\* ReadFromLinkLayer hands a message to a goroutine unless the interface is down
Accepted(a) == a.to \in started /\ <<a.to, a.from>> \notin stopped

HandlerRuns(a) ==
    /\ "late" \in Races
    /\ a \in net /\ a.at = "wire" /\ Accepted(a)
    /\ net' = (net \ {a}) \cup {[a EXCEPT !.at = "handler"]}
    /\ UNCHANGED <<table, timers, started, stopped, sent, commands, losses>>

InHandler(a) ==
    a \in net /\ (a.at = "handler" \/ (a.at = "wire" /\ Accepted(a) /\ "late" \notin Races))

Usable(a) == a.entries \ {INFINITY}

\* the interface was down, or every entry is INFINITY
Discard(a) ==
    /\ a \in net
    /\ (a.at = "wire" /\ ~Accepted(a)) \/ (InHandler(a) /\ Usable(a) = {})
    /\ net' = net \ {a}
    /\ UNCHANGED <<table, timers, started, stopped, sent, commands, losses>>

\* the goroutine that reads the channel of the entry starts its timer again;
\* none reads that of an address of the host itself
Refreshed(n) ==
    IF n = Owner THEN timers[n]
    ELSE {IF t.live THEN [t EXCEPT !.age = 0] ELSE t : t \in timers[n]}

\* the goroutine of an entry that was there before is left without a sender
Added(n, hop) ==
    {[t EXCEPT !.live = FALSE] : t \in timers[n]} \cup {[hop |-> hop, age |-> -1, live |-> TRUE]}

\* Mutation of AddRoute: the destination of the message becomes the next hop.
AddRouteToSelf(a, cost) ==
    /\ table' = [table EXCEPT ![a.to] = [Cost |-> cost, NextHop |-> a.to]]
    /\ timers' = [timers EXCEPT ![a.to] = Added(a.to, a.from)]
    /\ net' = (net \ {a}) \cup SendTriggeredUpdates(a.to)

AddRoute(a, cost) ==
    /\ table' = [table EXCEPT ![a.to] = [Cost |-> cost, NextHop |-> a.from]]
    /\ timers' = [timers EXCEPT ![a.to] = Added(a.to, a.from)]
    /\ net' = (net \ {a}) \cup SendTriggeredUpdates(a.to)

Better(old, cost, hop) == cost < old.Cost \/ (cost > old.Cost /\ old.NextHop = hop)

\* Mutation of CostOver: a link costs nothing.
CostOverFree(cost) == cost

CostOver(cost) == cost + 1

ReceivePacket(a) ==
    /\ InHandler(a)
    /\ \E received \in Usable(a) :
         LET n == a.to
             cost == CostOver(received)
             old == table[n]
         IN  \/ /\ old = NoEntry /\ "check" \notin Races
                /\ AddRoute(a, cost)
             \/ /\ old = NoEntry /\ "check" \in Races
                /\ net' = (net \ {a}) \cup {[a EXCEPT !.at = "add"]}
                /\ UNCHANGED <<table, timers>>
             \/ /\ old # NoEntry /\ Better(old, cost, a.from)
                /\ table' = [table EXCEPT ![n] = [Cost |-> cost, NextHop |-> a.from]]
                /\ timers' = [timers EXCEPT ![n] = Refreshed(n)]
                /\ net' = (net \ {a}) \cup SendTriggeredUpdates(n)
             \/ /\ old # NoEntry /\ ~Better(old, cost, a.from) /\ cost > old.Cost
                /\ net' = net \ {a}
                /\ UNCHANGED <<table, timers>>
             \/ /\ old # NoEntry /\ cost = old.Cost
                /\ timers' = [timers EXCEPT ![n] = Refreshed(n)]
                /\ net' = net \ {a}
                /\ UNCHANGED table
    /\ UNCHANGED <<started, stopped, sent, commands, losses>>

\* the rest of ReceivePacket, when another handler ran after CheckRoute
LateAdd(a) ==
    /\ a \in net /\ a.at = "add"
    /\ \E received \in Usable(a) : AddRoute(a, CostOver(received))
    /\ UNCHANGED <<started, stopped, sent, commands, losses>>

-----------------------------------------------------------------------------
(* Time.                                                                   *)

\* nothing more comes to n in this round
Quiet(n) ==
    /\ \A m \in Neighbors[n] \cap started : <<m, n>> \in sent
    /\ \A a \in net : a.to # n

Missed == 2

\* Mutation of Expire: a timer that ends too early.
ExpireEarly(n, t) ==
    /\ t \in timers[n] /\ t.age >= Missed - 1 /\ Quiet(n)
    /\ table' = [table EXCEPT ![n] = [Cost |-> INFINITY, NextHop |-> t.hop]]
    /\ timers' = [timers EXCEPT ![n] = (@ \ {t}) \cup {[t EXCEPT !.age = 0]}]
    /\ UNCHANGED <<started, stopped, sent, net, commands, losses>>

\* Mutation of Expire: the goroutine ends and the entry keeps its cost.
ExpireSilently(n, t) ==
    /\ t \in timers[n] /\ t.age = Missed /\ Quiet(n)
    /\ timers' = [timers EXCEPT ![n] = @ \ {t}]
    /\ UNCHANGED <<table, started, stopped, sent, net, commands, losses>>

\* the timeout of waitForUpdates: the entry gets the hop it was made with
Expire(n, t) ==
    /\ t \in timers[n] /\ t.age = Missed /\ Quiet(n)
    /\ table' = [table EXCEPT ![n] = [Cost |-> INFINITY, NextHop |-> t.hop]]
    /\ timers' = [timers EXCEPT ![n] = (@ \ {t}) \cup {[t EXCEPT !.age = 0]}]
    /\ UNCHANGED <<started, stopped, sent, net, commands, losses>>

\* the next tick of every ticker
Tick ==
    /\ net = {} /\ \A n \in started : \A m \in Neighbors[n] : <<n, m>> \in sent
    /\ sent # {}
    /\ \A n \in Nodes : \A t \in timers[n] : t.age < Missed
    /\ timers' = [n \in Nodes |-> {[t EXCEPT !.age = @ + 1] : t \in timers[n]}]
    /\ sent' = {}
    /\ UNCHANGED <<table, started, stopped, net, commands, losses>>

-----------------------------------------------------------------------------
(* The commands down and up, and a network that loses messages.            *)

\* the address is the one of the interface of n towards m
IsOwn(n, m) == n = Owner /\ m = OwnerPeer

RemoveNextHops(n, m) ==
    IF table[n].NextHop = m \/ (IsOwn(n, m) /\ table[n].NextHop = n)
    THEN [table EXCEPT ![n].Cost = INFINITY] ELSE table

DownInterface(n, m) ==
    /\ commands < Commands /\ commands' = commands + 1
    /\ n \in started /\ m \in Neighbors[n] /\ <<n, m>> \notin stopped
    /\ stopped' = stopped \cup {<<n, m>>}
    /\ table' = RemoveNextHops(n, m)
    /\ UNCHANGED <<timers, started, sent, net, losses>>

UpInterface(n, m) ==
    /\ commands < Commands /\ commands' = commands + 1
    /\ n \in started /\ <<n, m>> \in stopped
    /\ stopped' = stopped \ {<<n, m>>}
    /\ table' = IF IsOwn(n, m) THEN [table EXCEPT ![n] = [Cost |-> 0, NextHop |-> n]] ELSE table
    /\ UNCHANGED <<timers, started, sent, net, losses>>

Lose(a) ==
    /\ losses < Losses /\ losses' = losses + 1
    /\ a \in net /\ a.at = "wire" /\ net' = net \ {a}
    /\ UNCHANGED <<table, timers, started, stopped, sent, commands>>

Work ==
    \/ \E n, m \in Nodes : SendUpdate(n, m)
    \/ \E a \in net : HandlerRuns(a) \/ Discard(a) \/ ReceivePacket(a) \/ LateAdd(a)
    \/ \E n \in Nodes : \E t \in timers[n] : Expire(n, t)
    \/ Tick

Next ==
    \/ \E n \in Nodes : Start(n)
    \/ Work
    \/ \E n, m \in Nodes : DownInterface(n, m) \/ UpInterface(n, m)
    \/ \E a \in net : Lose(a)

Spec == Init /\ [][Next]_vars

\* Every node is started; goroutines, tickers and timers run on.
FairSpec == Spec /\ (\A n \in Nodes : WF_vars(Start(n))) /\ WF_vars(Work)

-----------------------------------------------------------------------------
(* Properties.                                                             *)

\* the nodes of near and those a link away from one of them
OneMore(near, up) == near \cup {n \in Nodes : \E m \in near : {n, m} \in up}

\* the length of each node's shortest path to Owner over the links of up,
\* INFINITY if there is none
DistanceOver(up) ==
    LET Within[k \in 0 .. Cardinality(Nodes)] ==
            IF k = 0 THEN {Owner} ELSE OneMore(Within[k - 1], up)
        lengths(n) == {k \in 0 .. Cardinality(Nodes) : n \in Within[k]} \cup {INFINITY}
    IN  [n \in Nodes |-> CHOOSE k \in lengths(n) : \A l \in lengths(n) : k <= l]

Distance == DistanceOver(Links)

UpLinks == {l \in Links : \A n, m \in l : <<n, m>> \notin stopped}

\* Costs stay between 0 and INFINITY, timers within what TIMEOUT allows, and a
\* next hop is a neighbour or the node itself.
TypeOK ==
    /\ \A n \in Nodes :
         /\ table[n].Cost \in 0 .. INFINITY
         /\ table[n].NextHop \in Neighbors[n] \cup {"none"} \cup (IF n = Owner THEN {n} ELSE {})
         /\ \A t \in timers[n] : t.age \in -1 .. Missed /\ t.hop \in Neighbors[n]
    /\ started \subseteq Nodes
    /\ stopped \subseteq Nodes \X Nodes /\ sent \subseteq Nodes \X Nodes
    /\ \A a \in net : a.to \in Neighbors[a.from] /\ a.Command \in {1, 2} /\ a.entries \subseteq 0 .. INFINITY
    /\ commands \in 0 .. Commands /\ losses \in 0 .. Losses

\* the lower bounds on the distance from Owner: they grow by at most one over
\* a link; the largest of them is the distance
LowerBounds ==
    {d \in [Nodes -> 0 .. INFINITY] :
        d[Owner] = 0 /\ \A n, m \in Nodes : {n, m} \in Links => d[n] <= d[m] + 1}

\* No route claims to be shorter than the network is: whatever is lost, timed
\* out or taken down, the cost of ReceivePacket is never below the distance.
NeverTooGood == \A d \in LowerBounds : \A n \in Nodes : table[n].Cost >= d[n]

\* a waitForUpdates whose entry a second AddRoute has replaced: nobody sends on its
\* channel, so every TIMEOUT it sets the cost to INFINITY (lines 284-288)
Orphaned == \E n \in Nodes : \E t \in timers[n] : ~t.live

Undisturbed == commands = 0 /\ ~Orphaned

\* Until an interface goes down or an entry is added twice, following NextHop gets
\* nearer to the address at every node, however the handlers interleave: the costs
\* along a route fall, so packets do not circle.
NoLoops ==
    Undisturbed =>
        \A n \in Nodes \ {Owner} :
            table[n].Cost < INFINITY => table[table[n].NextHop].Cost < table[n].Cost

\* Until then, one lost update does not end a route or make it longer: TIMEOUT
\* leaves time for a second one.
RoutesStay ==
    [][Undisturbed' =>
          \A n \in Nodes : table[n].Cost < INFINITY => table'[n].Cost <= table[n].Cost]_vars

\* In the end every node has the shortest route over the interfaces that are up,
\* and INFINITY when there is none: periodic updates, poisoned reverse and the
\* timers of waitForUpdates get rid of every other route. Unless two handlers have
\* added the same entry: the timer that is left over ends the route for ever.
Settles ==
    <>[](\/ Orphaned
         \/ \A n \in Nodes :
               table[n].Cost = IF <<Owner, OwnerPeer>> \in stopped THEN INFINITY
                               ELSE DistanceOver(UpLinks)[n])
=============================================================================
