----------------------------- MODULE RIPProofs ------------------------------
(***************************************************************************)
(* For every network, and whatever is lost, delayed or taken down: no      *)
(* routing table claims a route shorter than the distance, and tables,     *)
(* timers and messages stay well-formed. The invariant adds the costs in   *)
(* flight to those in the tables. Where at most one message is lost, and   *)
(* until an interface is taken down or an entry is added twice, routes     *)
(* neither loop nor go.                                                    *)
(***************************************************************************)
EXTENDS RIP, TLAPS

\* A cost that node n may have or tell: not below any lower bound.
Honest(n, cost) == cost \in 0 .. INFINITY /\ \A d \in LowerBounds : cost >= d[n]

HonestTables == table \in [Nodes -> [Cost : 0 .. INFINITY, NextHop : Nodes \cup {"none"}]]
                /\ \A n \in Nodes : Honest(n, table[n].Cost)

HonestMessage(a) ==
    /\ a = [from |-> a.from, to |-> a.to, at |-> a.at, Command |-> a.Command, entries |-> a.entries]
    /\ a.Command \in {1, 2}
    /\ a.from \in Nodes /\ a.to \in Neighbors[a.from]
    /\ \A cost \in a.entries : Honest(a.from, cost)

\* The costs in the tables and in the messages are honest, and a timer has
\* a next hop to put back.
CostInv ==
    /\ HonestTables
    /\ \A a \in net : HonestMessage(a)
    /\ timers \in [Nodes -> SUBSET [hop : Nodes, age : Int, live : BOOLEAN]]

\* The cost of an address that cannot be reached is honest everywhere.
LEMMA InfinityHonest ==
  ASSUME NEW n \in Nodes
  PROVE  Honest(n, INFINITY)
  BY RIPAssumption DEF Honest, LowerBounds

\* At Owner, so is 0.
LEMMA ZeroHonest == Honest(Owner, 0)
  BY RIPAssumption DEF Honest, LowerBounds

\* An honest cost of a neighbour and one for the link is honest here.
LEMMA OneLinkMore ==
  ASSUME NEW n \in Nodes, NEW m \in Neighbors[n], NEW cost, Honest(n, cost), cost # INFINITY
  PROVE  m \in Nodes /\ Honest(m, CostOver(cost))
  <1>1. m \in Nodes /\ {n, m} \in Links BY Zenon DEF Neighbors
  <1>2. cost + 1 \in 0 .. INFINITY BY RIPAssumption DEF Honest
  <1>3. ASSUME NEW d \in LowerBounds PROVE cost + 1 >= d[m]
    <2>1. d[n] \in Int /\ d[m] \in Int BY RIPAssumption, <1>1 DEF LowerBounds
    <2>2. {m, n} \in Links BY Zenon, <1>1
    <2>3. d[m] <= d[n] + 1 BY Zenon, <2>2, <1>1 DEF LowerBounds
    <2> QED BY <2>1, <2>3 DEF Honest
  <1> QED BY Zenon, <1>1, <1>2, <1>3 DEF Honest, CostOver

\* What Send puts on the wire.
LEMMA SendIs ==
  ASSUME NEW n, NEW m, NEW command, NEW costs
  PROVE  Send(Message(n, m, command, costs)) \subseteq {Message(n, m, command, costs)}
  BY Zenon DEF Send

LEMMA InitCosts ==
  ASSUME Init
  PROVE  CostInv
  <1>1. \A n \in Nodes : table[n] = NoEntry BY Zenon DEF Init
  <1>2. NoEntry \in [Cost : 0 .. INFINITY, NextHop : Nodes \cup {"none"}]
    BY RIPAssumption DEF NoEntry
  <1>3. HonestTables BY Zenon, <1>1, <1>2, InfinityHonest DEF HonestTables, Init, NoEntry
  <1> QED BY Zenon, <1>3 DEF CostInv, Init

\* A message of n that tells what its table has, or INFINITY.
LEMMA TellsHonestly ==
  ASSUME NEW n \in Nodes, NEW m \in Neighbors[n], NEW costs, NEW command \in {1, 2},
         \A cost \in costs : Honest(n, cost), NEW a \in Send(Message(n, m, command, costs))
  PROVE  HonestMessage(a)
  <1>1. a = Message(n, m, command, costs) BY Zenon, SendIs
  <1> QED BY Zenon, <1>1 DEF Message, HonestMessage

LEMMA StartCosts ==
  ASSUME CostInv, NEW n \in Nodes, Start(n)
  PROVE  CostInv'
  <1>1. HonestTables'
    <2>1. CASE n = Owner
      <3>1. table' = [table EXCEPT ![n] = [Cost |-> 0, NextHop |-> n]] BY Zenon, <2>1 DEF Start
      <3>2. [Cost |-> 0, NextHop |-> n] \in [Cost : 0 .. INFINITY, NextHop : Nodes \cup {"none"}]
        BY RIPAssumption
      <3> QED BY Zenon, <3>1, <3>2, <2>1, ZeroHonest DEF CostInv, HonestTables, Honest
    <2>2. CASE n # Owner
      <3>1. table' = table BY Zenon, <2>2 DEF Start, CostInv, HonestTables
      <3> QED BY Zenon, <3>1 DEF CostInv, HonestTables, Honest
    <2> QED BY Zenon, <2>1, <2>2
  <1>2. ASSUME NEW a \in net' PROVE HonestMessage(a)
    <2>1. CASE a \in net BY Zenon, <2>1 DEF CostInv
    <2>2. CASE a \notin net
      <3>1. PICK m \in Neighbors[n] : a \in Send(Message(n, m, 1, GetAllEntries(table'[n])))
        BY Zenon, <2>2 DEF Start
      <3>2. \A cost \in GetAllEntries(table'[n]) : Honest(n, cost)
        BY Zenon, <1>1 DEF GetAllEntries, HonestTables, Honest
      <3> QED BY Zenon, <3>1, <3>2, TellsHonestly
    <2> QED BY Zenon, <2>1, <2>2
  <1> QED BY Zenon, <1>1, <1>2 DEF CostInv, Start, HonestMessage, Honest

LEMMA UpdateCosts ==
  ASSUME CostInv, NEW n \in Nodes, NEW m \in Nodes, SendUpdate(n, m)
  PROVE  CostInv'
  <1>1. HonestTables' BY Zenon DEF SendUpdate, CostInv, HonestTables, Honest
  <1>2. ASSUME NEW a \in net' PROVE HonestMessage(a)
    <2>1. CASE a \in net BY Zenon, <2>1 DEF CostInv
    <2>2. CASE a \notin net
      <3>1. a \in Send(Message(n, m, 2, GetSpecificEntries(n, m))) /\ m \in Neighbors[n]
        BY Zenon, <2>2 DEF SendUpdate
      <3>2. \A cost \in GetSpecificEntries(n, m) : Honest(n, cost)
        BY Zenon, InfinityHonest DEF GetSpecificEntries, CostInv, HonestTables
      <3> QED BY Zenon, <3>1, <3>2, TellsHonestly
    <2> QED BY Zenon, <2>1, <2>2
  <1> QED BY Zenon, <1>1, <1>2 DEF CostInv, SendUpdate, HonestMessage, Honest

\* A step that leaves the tables as they are, and whose messages are those
\* that were there, or one of them further on in its handler.
LEMMA NothingNew ==
  ASSUME CostInv, UNCHANGED <<table, timers>>,
         \A a \in net' : a \in net \/ \E b \in net, at \in {"handler", "add"} : a = [b EXCEPT !.at = at]
  PROVE  CostInv'
  <1>1. ASSUME NEW a \in net' PROVE HonestMessage(a)
    <2>1. ASSUME NEW b \in net, NEW at, a = [b EXCEPT !.at = at] PROVE HonestMessage(a)
      <3>1. HonestMessage(b) BY Zenon DEF CostInv
      <3>2. a = [from |-> b.from, to |-> b.to, at |-> at, Command |-> b.Command, entries |-> b.entries]
        BY Zenon, <2>1, <3>1 DEF HonestMessage
      <3> QED BY Zenon, <3>1, <3>2 DEF HonestMessage
    <2> QED BY Zenon, <2>1 DEF CostInv
  <1> QED BY Zenon, <1>1 DEF CostInv, HonestTables, HonestMessage, Honest

\* A step that gives one node an honest cost and takes messages off the net.
LEMMA NewCost ==
  ASSUME CostInv, NEW n \in Nodes, NEW cost, NEW hop \in Nodes, Honest(n, cost),
         table' = [table EXCEPT ![n] = [Cost |-> cost, NextHop |-> hop]], net' \subseteq net,
         timers' \in [Nodes -> SUBSET [hop : Nodes, age : Int, live : BOOLEAN]]
  PROVE  CostInv'
  <1>1. [Cost |-> cost, NextHop |-> hop] \in [Cost : 0 .. INFINITY, NextHop : Nodes \cup {"none"}]
    BY Zenon DEF Honest
  <1>2. HonestTables' BY Zenon, <1>1 DEF CostInv, HonestTables, Honest
  <1> QED BY Zenon, <1>2 DEF CostInv, HonestMessage, Honest

LEMMA NoTriggeredUpdates == \A n \in Nodes : SendTriggeredUpdates(n) = {}
  BY Zenon DEF SendTriggeredUpdates, Send, Message

\* The timers of a node stay timers when an entry is added or refreshed.
LEMMA TimersKeep ==
  ASSUME CostInv, NEW n \in Nodes, NEW hop \in Nodes
  PROVE  /\ Refreshed(n) \in SUBSET [hop : Nodes, age : Int, live : BOOLEAN]
         /\ Added(n, hop) \in SUBSET [hop : Nodes, age : Int, live : BOOLEAN]
  <1> DEFINE Timer == [hop : Nodes, age : Int, live : BOOLEAN]
  <1>1. ASSUME NEW t \in timers[n]
        PROVE  t \in Timer /\ [t EXCEPT !.age = 0] \in Timer /\ [t EXCEPT !.live = FALSE] \in Timer
    <2>1. t \in Timer BY Zenon DEF CostInv
    <2>2. [t EXCEPT !.age = 0] \in Timer BY <2>1
    <2>3. [t EXCEPT !.live = FALSE] \in Timer BY <2>1, Zenon
    <2> QED BY Zenon, <2>1, <2>2, <2>3
  <1>2. [hop |-> hop, age |-> -1, live |-> TRUE] \in Timer OBVIOUS
  <1> HIDE DEF Timer
  <1>3. Refreshed(n) \in SUBSET Timer BY Zenon, <1>1 DEF Refreshed
  <1>4. Added(n, hop) \in SUBSET Timer BY Zenon, <1>1, <1>2 DEF Added
  <1> QED BY Zenon, <1>3, <1>4 DEF Timer

LEMMA AddCosts ==
  ASSUME CostInv, NEW a \in net, NEW received \in Usable(a), AddRoute(a, CostOver(received))
  PROVE  CostInv'
  <1>1. HonestMessage(a) BY Zenon DEF CostInv
  <1>2. a.from \in Nodes /\ a.to \in Neighbors[a.from] /\ Honest(a.from, received)
        /\ received # INFINITY
    BY Zenon, <1>1 DEF HonestMessage, Usable
  <1>3. a.to \in Nodes /\ Honest(a.to, CostOver(received)) BY Zenon, <1>2, OneLinkMore
  <1>4. net' \subseteq net BY Zenon, <1>3, NoTriggeredUpdates DEF AddRoute
  <1>5. timers' \in [Nodes -> SUBSET [hop : Nodes, age : Int, live : BOOLEAN]]
    BY Zenon, <1>2, <1>3, TimersKeep DEF AddRoute, CostInv
  <1> QED BY Zenon, <1>2, <1>3, <1>4, <1>5, NewCost DEF AddRoute

LEMMA ReceiveCosts ==
  ASSUME CostInv, NEW a \in net, ReceivePacket(a)
  PROVE  CostInv'
  <1>1. HonestMessage(a) BY Zenon DEF CostInv
  <1>2. PICK received \in Usable(a) :
          LET n == a.to
              cost == CostOver(received)
              old == table[n]
          IN  \/ AddRoute(a, cost)
              \/ /\ net' = (net \ {a}) \cup {[a EXCEPT !.at = "add"]}
                 /\ UNCHANGED <<table, timers>>
              \/ /\ table' = [table EXCEPT ![n] = [Cost |-> cost, NextHop |-> a.from]]
                 /\ timers' = [timers EXCEPT ![n] = Refreshed(n)]
                 /\ net' = (net \ {a}) \cup SendTriggeredUpdates(n)
              \/ net' = net \ {a} /\ UNCHANGED <<table, timers>>
              \/ /\ timers' = [timers EXCEPT ![n] = Refreshed(n)]
                 /\ net' = net \ {a} /\ UNCHANGED table
    BY Zenon DEF ReceivePacket
  <1>3. a.from \in Nodes /\ a.to \in Neighbors[a.from] /\ Honest(a.from, received)
        /\ received # INFINITY
    BY Zenon, <1>1 DEF HonestMessage, Usable
  <1>4. a.to \in Nodes /\ Honest(a.to, CostOver(received)) BY Zenon, <1>3, OneLinkMore
  <1>5. [timers EXCEPT ![a.to] = Refreshed(a.to)]
          \in [Nodes -> SUBSET [hop : Nodes, age : Int, live : BOOLEAN]]
    BY Zenon, <1>3, <1>4, TimersKeep DEF CostInv
  <1>6. CASE AddRoute(a, CostOver(received)) BY Zenon, <1>6, AddCosts
  <1>7. CASE net' = (net \ {a}) \cup {[a EXCEPT !.at = "add"]} /\ UNCHANGED <<table, timers>>
    BY Zenon, <1>7, NothingNew
  <1>8. CASE /\ table' = [table EXCEPT ![a.to] = [Cost |-> CostOver(received), NextHop |-> a.from]]
             /\ timers' = [timers EXCEPT ![a.to] = Refreshed(a.to)]
             /\ net' = (net \ {a}) \cup SendTriggeredUpdates(a.to)
    <2>1. net' \subseteq net BY Zenon, <1>8, <1>4, NoTriggeredUpdates
    <2> QED BY Zenon, <1>8, <2>1, <1>3, <1>4, <1>5, NewCost
  <1>9. CASE net' = net \ {a} /\ UNCHANGED <<table, timers>> BY Zenon, <1>9, NothingNew
  <1>10. CASE /\ timers' = [timers EXCEPT ![a.to] = Refreshed(a.to)]
              /\ net' = net \ {a} /\ UNCHANGED table
    BY Zenon, <1>10, <1>5 DEF CostInv, HonestTables, HonestMessage, Honest
  <1> QED BY Zenon, <1>2, <1>6, <1>7, <1>8, <1>9, <1>10

\* A timer puts INFINITY, which is honest, and its own hop into the table.
LEMMA ExpireCosts ==
  ASSUME CostInv, NEW n \in Nodes, NEW t \in timers[n], Expire(n, t)
  PROVE  CostInv'
  <1>1. t \in [hop : Nodes, age : Int, live : BOOLEAN] BY Zenon DEF CostInv
  <1>2. timers' \in [Nodes -> SUBSET [hop : Nodes, age : Int, live : BOOLEAN]]
    <2>1. [t EXCEPT !.age = 0] \in [hop : Nodes, age : Int, live : BOOLEAN] BY <1>1
    <2> QED BY Zenon, <2>1 DEF Expire, CostInv
  <1>3. Honest(n, INFINITY) /\ t.hop \in Nodes BY Zenon, <1>1, InfinityHonest
  <1>4. net' \subseteq net BY Zenon DEF Expire
  <1> QED BY Zenon, <1>2, <1>3, <1>4, NewCost DEF Expire

LEMMA TickCosts ==
  ASSUME CostInv, Tick
  PROVE  CostInv'
  <1>1. ASSUME NEW n \in Nodes, NEW t \in timers[n]
        PROVE  [t EXCEPT !.age = @ + 1] \in [hop : Nodes, age : Int, live : BOOLEAN]
    <2>1. t \in [hop : Nodes, age : Int, live : BOOLEAN] BY Zenon DEF CostInv
    <2> QED BY <2>1
  <1>2. timers' \in [Nodes -> SUBSET [hop : Nodes, age : Int, live : BOOLEAN]] BY <1>1 DEF Tick
  <1> QED BY Zenon, <1>2 DEF Tick, CostInv, HonestTables, HonestMessage, Honest

\* RemoveNextHops puts INFINITY, UpInterface 0 at Owner.
LEMMA CommandCosts ==
  ASSUME CostInv, NEW n \in Nodes, NEW m \in Nodes, DownInterface(n, m) \/ UpInterface(n, m)
  PROVE  CostInv'
  <1>1. UNCHANGED <<net, timers>> BY Zenon DEF DownInterface, UpInterface
  <1>2. HonestTables'
    <2>1. CASE table' = table BY Zenon, <2>1 DEF CostInv, HonestTables, Honest
    <2>2. CASE table' = [table EXCEPT ![n].Cost = INFINITY]
      <3>1. INFINITY \in 0 .. INFINITY BY RIPAssumption
      <3>2. table' \in [Nodes -> [Cost : 0 .. INFINITY, NextHop : Nodes \cup {"none"}]]
        BY Zenon, <3>1, <2>2 DEF CostInv, HonestTables
      <3>3. \A k \in Nodes : table'[k].Cost = IF k = n THEN INFINITY ELSE table[k].Cost
        BY Zenon, <2>2 DEF CostInv, HonestTables
      <3> QED BY Zenon, <3>2, <3>3, InfinityHonest DEF CostInv, HonestTables, Honest
    <2>3. CASE IsOwn(n, m) /\ table' = [table EXCEPT ![n] = [Cost |-> 0, NextHop |-> n]]
      <3>1. [Cost |-> 0, NextHop |-> n] \in [Cost : 0 .. INFINITY, NextHop : Nodes \cup {"none"}]
        BY RIPAssumption
      <3>2. Honest(n, 0) BY Zenon, <2>3, ZeroHonest DEF IsOwn
      <3> QED BY Zenon, <2>3, <3>1, <3>2 DEF CostInv, HonestTables, Honest
    <2> QED BY Zenon, <2>1, <2>2, <2>3 DEF DownInterface, UpInterface, RemoveNextHops
  <1> QED BY Zenon, <1>1, <1>2 DEF CostInv, HonestMessage, Honest

LEMMA NextCosts ==
  ASSUME CostInv, [Next]_vars
  PROVE  CostInv'
  <1>1. CASE \E n \in Nodes : Start(n) BY Zenon, <1>1, StartCosts
  <1>2. CASE \E n, m \in Nodes : SendUpdate(n, m) BY Zenon, <1>2, UpdateCosts
  <1>3. CASE \E a \in net : HandlerRuns(a) \/ Discard(a) \/ Lose(a)
    BY Zenon, <1>3, NothingNew DEF HandlerRuns, Discard, Lose
  <1>4. CASE \E a \in net : ReceivePacket(a) BY Zenon, <1>4, ReceiveCosts
  <1>5. CASE \E a \in net : LateAdd(a) BY Zenon, <1>5, AddCosts DEF LateAdd
  <1>6. CASE \E n \in Nodes : \E t \in timers[n] : Expire(n, t) BY Zenon, <1>6, ExpireCosts
  <1>7. CASE Tick BY Zenon, <1>7, TickCosts
  <1>8. CASE \E n, m \in Nodes : DownInterface(n, m) \/ UpInterface(n, m) BY Zenon, <1>8, CommandCosts
  <1>9. CASE UNCHANGED vars BY Zenon, <1>9, NothingNew DEF vars
  <1> QED BY Zenon, <1>1, <1>2, <1>3, <1>4, <1>5, <1>6, <1>7, <1>8, <1>9 DEF Next, Work

\* No route of any node of any network is ever shorter than the distance,
\* whatever messages are lost, handled late or added twice, whichever
\* timers end and whatever interfaces are taken down and up.
THEOREM CostsAreHonest == Spec => []NeverTooGood
  <1>1. Init => CostInv BY Zenon, InitCosts
  <1>2. CostInv /\ [Next]_vars => CostInv' BY Zenon, NextCosts
  <1>3. CostInv => NeverTooGood BY Zenon DEF CostInv, HonestTables, Honest, NeverTooGood
  <1> QED BY <1>1, <1>2, <1>3, PTL DEF Spec
-----------------------------------------------------------------------------
(* Types.                                                                  *)

HopOK(n, hop) == hop \in Neighbors[n] \cup {"none"} \cup (IF n = Owner THEN {n} ELSE {})
AgesOK(n, ts) == \A t \in ts : t.age \in -1 .. Missed /\ t.hop \in Neighbors[n]

\* The ends of a message.
LEMMA EndsOf ==
  ASSUME NEW a, HonestMessage(a)
  PROVE  /\ a.from \in Nodes /\ a.to \in Nodes /\ a.from # a.to
         /\ a.to \in Neighbors[a.from] /\ a.from \in Neighbors[a.to]
         /\ a.entries \subseteq 0 .. INFINITY
  <1>1. a.from \in Nodes /\ a.to \in Neighbors[a.from] BY Zenon DEF HonestMessage
  <1>2. a.to \in Nodes /\ a.to # a.from /\ {a.from, a.to} \in Links BY Zenon, <1>1 DEF Neighbors
  <1>3. {a.to, a.from} = {a.from, a.to} BY Zenon
  <1>4. a.from \in Neighbors[a.to] BY Zenon, <1>1, <1>2, <1>3 DEF Neighbors
  <1>5. a.entries \subseteq 0 .. INFINITY BY Zenon DEF HonestMessage, Honest
  <1> QED BY Zenon, <1>1, <1>2, <1>4, <1>5

LEMMA AgesKeep ==
  ASSUME CostInv, NEW n \in Nodes, NEW hop \in Neighbors[n], AgesOK(n, timers[n])
  PROVE  AgesOK(n, Refreshed(n)) /\ AgesOK(n, Added(n, hop))
  <1>1. ASSUME NEW t \in timers[n]
        PROVE  /\ [t EXCEPT !.age = 0].age \in -1 .. Missed /\ [t EXCEPT !.age = 0].hop \in Neighbors[n]
               /\ [t EXCEPT !.live = FALSE].age \in -1 .. Missed
               /\ [t EXCEPT !.live = FALSE].hop \in Neighbors[n]
    <2>1. t \in [hop : Nodes, age : Int, live : BOOLEAN] BY Zenon DEF CostInv
    <2> QED BY <2>1 DEF AgesOK, Missed
  <1>2. AgesOK(n, Refreshed(n))
    <2>1. ASSUME NEW u \in Refreshed(n) PROVE u.age \in -1 .. Missed /\ u.hop \in Neighbors[n]
      <3>1. PICK t \in timers[n] : u = t \/ u = [t EXCEPT !.age = 0] BY Zenon DEF Refreshed
      <3> QED BY Zenon, <1>1, <3>1 DEF AgesOK
    <2> QED BY Zenon, <2>1 DEF AgesOK
  <1>3. AgesOK(n, Added(n, hop))
    <2>1. ASSUME NEW u \in Added(n, hop) PROVE u.age \in -1 .. Missed /\ u.hop \in Neighbors[n]
      <3>1. \/ \E t \in timers[n] : u = [t EXCEPT !.live = FALSE]
            \/ u = [hop |-> hop, age |-> -1, live |-> TRUE]
        BY Zenon DEF Added
      <3>2. CASE u = [hop |-> hop, age |-> -1, live |-> TRUE] BY <3>2 DEF Missed
      <3> QED BY Zenon, <1>1, <3>1, <3>2
    <2> QED BY Zenon, <2>1 DEF AgesOK
  <1> QED BY Zenon, <1>2, <1>3

\* What TypeOK says besides CostInv.
PlaceInv ==
    /\ \A n \in Nodes : HopOK(n, table[n].NextHop) /\ AgesOK(n, timers[n])
    /\ started \subseteq Nodes /\ stopped \subseteq Nodes \X Nodes /\ sent \subseteq Nodes \X Nodes
    /\ commands \in 0 .. Commands /\ losses \in 0 .. Losses

\* A step that changes the entry and the timers of one node at most.
LEMMA PlaceKeeps ==
  ASSUME CostInv, PlaceInv, NEW n \in Nodes, NEW entry, NEW ts,
         HopOK(n, entry.NextHop), AgesOK(n, ts),
         table' = [table EXCEPT ![n] = entry], timers' = [timers EXCEPT ![n] = ts],
         started' \subseteq Nodes, stopped' \subseteq Nodes \X Nodes, sent' \subseteq Nodes \X Nodes,
         commands' \in 0 .. Commands, losses' \in 0 .. Losses
  PROVE  PlaceInv'
  <1>1. \A k \in Nodes : /\ table'[k] = IF k = n THEN entry ELSE table[k]
                         /\ timers'[k] = IF k = n THEN ts ELSE timers[k]
    BY Zenon DEF CostInv, HonestTables
  <1>2. ASSUME NEW k \in Nodes PROVE HopOK(k, table'[k].NextHop) /\ AgesOK(k, timers'[k])
    BY Zenon, <1>1 DEF PlaceInv
  <1> QED BY Zenon, <1>2 DEF PlaceInv, HopOK, AgesOK

\* A step that changes no entry and no timer.
LEMMA PlaceSame ==
  ASSUME PlaceInv, UNCHANGED <<table, timers>>,
         started' \subseteq Nodes, stopped' \subseteq Nodes \X Nodes, sent' \subseteq Nodes \X Nodes,
         commands' \in 0 .. Commands, losses' \in 0 .. Losses
  PROVE  PlaceInv'
  BY Zenon DEF PlaceInv, HopOK, AgesOK

LEMMA ReceivePlaces ==
  ASSUME CostInv, PlaceInv, NEW a \in net, ReceivePacket(a) \/ LateAdd(a)
  PROVE  PlaceInv'
  <1>1. HonestMessage(a) BY Zenon DEF CostInv
  <1>2. PICK n \in Nodes : n = a.to /\ a.from \in Neighbors[n] BY Zenon, <1>1, EndsOf
  <1>3. AgesOK(n, Refreshed(n)) /\ AgesOK(n, Added(n, a.from)) /\ AgesOK(n, timers[n])
        /\ HopOK(n, table[n].NextHop)
    BY Zenon, <1>2, AgesKeep DEF PlaceInv
  <1>4. UNCHANGED <<started, stopped, sent, commands, losses>> BY Zenon DEF ReceivePacket, LateAdd
  <1>5. PICK cost : \/ AddRoute(a, cost)
                    \/ UNCHANGED <<table, timers>>
                    \/ /\ table' = [table EXCEPT ![n] = [Cost |-> cost, NextHop |-> a.from]]
                       /\ timers' = [timers EXCEPT ![n] = Refreshed(n)]
                    \/ timers' = [timers EXCEPT ![n] = Refreshed(n)] /\ UNCHANGED table
    <2>1. CASE ReceivePacket(a)
      <3>1. PICK received \in Usable(a) :
              \/ AddRoute(a, CostOver(received))
              \/ UNCHANGED <<table, timers>>
              \/ /\ table' = [table EXCEPT ![n] = [Cost |-> CostOver(received), NextHop |-> a.from]]
                 /\ timers' = [timers EXCEPT ![n] = Refreshed(n)]
              \/ timers' = [timers EXCEPT ![n] = Refreshed(n)] /\ UNCHANGED table
        BY Zenon, <1>2, <2>1 DEF ReceivePacket
      <3> QED BY Zenon, <3>1
    <2>2. CASE LateAdd(a) BY Zenon, <2>2 DEF LateAdd
    <2> QED BY Zenon, <2>1, <2>2
  <1>6. PICK entry : entry = [Cost |-> cost, NextHop |-> a.from] BY Zenon
  <1>7. HopOK(n, entry.NextHop) BY Zenon, <1>2, <1>6 DEF HopOK
  <1>8. CASE AddRoute(a, cost)
    <2>1. table' = [table EXCEPT ![n] = entry] /\ timers' = [timers EXCEPT ![n] = Added(n, a.from)]
      BY Zenon, <1>2, <1>6, <1>8 DEF AddRoute
    <2> QED BY Zenon, <1>3, <1>4, <1>7, <2>1, PlaceKeeps DEF PlaceInv
  <1>9. CASE UNCHANGED <<table, timers>> BY Zenon, <1>4, <1>9, PlaceSame DEF PlaceInv
  <1>10. CASE /\ table' = [table EXCEPT ![n] = [Cost |-> cost, NextHop |-> a.from]]
              /\ timers' = [timers EXCEPT ![n] = Refreshed(n)]
    BY Zenon, <1>3, <1>4, <1>6, <1>7, <1>10, PlaceKeeps DEF PlaceInv
  <1>11. CASE timers' = [timers EXCEPT ![n] = Refreshed(n)] /\ UNCHANGED table
    <2>1. table' = [table EXCEPT ![n] = table[n]] BY Zenon, <1>11 DEF CostInv, HonestTables
    <2> QED BY Zenon, <1>3, <1>4, <1>11, <2>1, PlaceKeeps DEF PlaceInv
  <1> QED BY Zenon, <1>5, <1>8, <1>9, <1>10, <1>11

LEMMA CommandPlaces ==
  ASSUME CostInv, PlaceInv, NEW n \in Nodes, NEW m \in Nodes, DownInterface(n, m) \/ UpInterface(n, m)
  PROVE  PlaceInv'
  <1>1. /\ UNCHANGED <<timers, started, sent, losses>>
        /\ stopped' \subseteq Nodes \X Nodes /\ commands' \in 0 .. Commands
    BY RIPAssumption DEF DownInterface, UpInterface, PlaceInv
  <1>2. ASSUME NEW k \in Nodes PROVE HopOK(k, table'[k].NextHop)
    <2>1. HopOK(k, table[k].NextHop) BY Zenon DEF PlaceInv
    <2>2. table' = table \/ table' = [table EXCEPT ![n].Cost = INFINITY]
          \/ (n = Owner /\ table' = [table EXCEPT ![n] = [Cost |-> 0, NextHop |-> n]])
      BY Zenon DEF DownInterface, UpInterface, RemoveNextHops, IsOwn
    <2>3. \/ table'[k].NextHop = table[k].NextHop
          \/ k = Owner /\ table'[k].NextHop = k
      BY SMTT(30), <2>2 DEF CostInv, HonestTables
    <2> QED BY Zenon, <2>1, <2>3 DEF HopOK
  <1> QED BY Zenon, <1>1, <1>2 DEF PlaceInv, HopOK, AgesOK

LEMMA NextPlaces ==
  ASSUME CostInv, PlaceInv, [Next]_vars
  PROVE  PlaceInv'
  <1>1. CASE \E n \in Nodes : Start(n)
    <2>1. PICK n \in Nodes : Start(n) BY Zenon, <1>1
    <2>2. PICK entry : entry = IF n = Owner THEN [Cost |-> 0, NextHop |-> n] ELSE table[n] BY Zenon
    <2>3. HopOK(n, entry.NextHop) /\ AgesOK(n, timers[n]) BY Zenon, <2>2 DEF PlaceInv, HopOK
    <2>4. table' = [table EXCEPT ![n] = entry] BY Zenon, <2>1, <2>2 DEF Start
    <2>5. timers' = [timers EXCEPT ![n] = timers[n]] BY Zenon, <2>1 DEF Start, CostInv
    <2> QED BY Zenon, <2>1, <2>3, <2>4, <2>5, PlaceKeeps DEF Start, PlaceInv
  <1>2. CASE \E n, m \in Nodes : SendUpdate(n, m) BY <1>2, PlaceSame DEF SendUpdate, PlaceInv
  <1>3. CASE \E a \in net : HandlerRuns(a) \/ Discard(a)
    BY Zenon, <1>3, PlaceSame DEF HandlerRuns, Discard, PlaceInv
  <1>4. CASE \E a \in net : Lose(a) BY <1>4, RIPAssumption, PlaceSame DEF Lose, PlaceInv
  <1>5. CASE \E a \in net : ReceivePacket(a) \/ LateAdd(a) BY Zenon, <1>5, ReceivePlaces
  <1>6. CASE \E n \in Nodes : \E t \in timers[n] : Expire(n, t)
    <2>n. PICK n \in Nodes : \E t \in timers[n] : Expire(n, t) BY Zenon, <1>6
    <2>1. PICK t \in timers[n] : Expire(n, t) BY Zenon, <2>n
    <2>2. t \in [hop : Nodes, age : Int, live : BOOLEAN] /\ t.hop \in Neighbors[n]
      BY Zenon DEF CostInv, PlaceInv, AgesOK
    <2>3. PICK u : u = [t EXCEPT !.age = 0] BY Zenon
    <2>4. u.age \in -1 .. Missed /\ u.hop \in Neighbors[n] BY <2>2, <2>3 DEF Missed
    <2>5. PICK ts : ts = (timers[n] \ {t}) \cup {u} BY Zenon
    <2>6. AgesOK(n, ts) BY Zenon, <2>4, <2>5 DEF AgesOK, PlaceInv
    <2>7. PICK entry : entry = [Cost |-> INFINITY, NextHop |-> t.hop] BY Zenon
    <2>8. HopOK(n, entry.NextHop) BY Zenon, <2>2, <2>7 DEF HopOK
    <2>9. table' = [table EXCEPT ![n] = entry] /\ timers' = [timers EXCEPT ![n] = ts]
      BY Zenon, <2>1, <2>3, <2>5, <2>7 DEF Expire
    <2> QED BY Zenon, <2>1, <2>6, <2>8, <2>9, PlaceKeeps DEF Expire, PlaceInv
  <1>7. CASE Tick
    <2>1. ASSUME NEW n \in Nodes PROVE AgesOK(n, timers'[n])
      <3>1. ASSUME NEW u \in timers'[n] PROVE u.age \in -1 .. Missed /\ u.hop \in Neighbors[n]
        <4>1. PICK t \in timers[n] : u = [t EXCEPT !.age = t.age + 1] BY Zenon, <1>7 DEF Tick
        <4>2. t \in [hop : Nodes, age : Int, live : BOOLEAN] BY Zenon DEF CostInv
        <4>3. t.age \in -1 .. Missed /\ t.age < Missed /\ t.hop \in Neighbors[n]
          BY Zenon, <1>7 DEF Tick, PlaceInv, AgesOK
        <4> QED BY <4>1, <4>2, <4>3 DEF Missed
      <3> QED BY Zenon, <3>1 DEF AgesOK
    <2> QED BY Zenon, <1>7, <2>1 DEF Tick, PlaceInv, HopOK, AgesOK
  <1>8. CASE \E n, m \in Nodes : DownInterface(n, m) \/ UpInterface(n, m) BY Zenon, <1>8, CommandPlaces
  <1>9. CASE UNCHANGED vars BY Zenon, <1>9, PlaceSame DEF vars, PlaceInv
  <1> QED BY Zenon, <1>1, <1>2, <1>3, <1>4, <1>5, <1>6, <1>7, <1>8, <1>9 DEF Next, Work

LEMMA InitPlaces ==
  ASSUME Init PROVE PlaceInv
  <1>1. \A n \in Nodes : table[n] = NoEntry /\ timers[n] = {} BY Zenon DEF Init
  <1>2. \A n \in Nodes : HopOK(n, table[n].NextHop) /\ AgesOK(n, timers[n])
    BY <1>1 DEF HopOK, AgesOK, NoEntry
  <1> QED BY <1>2, RIPAssumption DEF PlaceInv, Init

LEMMA TypesFollow ==
  ASSUME CostInv, PlaceInv PROVE TypeOK
  <1>1. \A n \in Nodes : table[n].Cost \in 0 .. INFINITY BY Zenon DEF CostInv, HonestTables
  <1>2. \A a \in net : a.to \in Neighbors[a.from] /\ a.entries \subseteq 0 .. INFINITY
    BY Zenon, EndsOf DEF CostInv
  <1>3. \A a \in net : a.Command \in {1, 2} BY Zenon DEF CostInv, HonestMessage
  <1> QED BY Zenon, <1>1, <1>2, <1>3 DEF PlaceInv, HopOK, AgesOK, TypeOK

\* Costs stay between 0 and INFINITY, a next hop is a neighbour, and no timer
\* of waitForUpdates outlives TIMEOUT, whatever is lost, delayed or taken down.
THEOREM RIPTypes == Spec => []TypeOK
  <1>1. Init => CostInv /\ PlaceInv BY Zenon, InitCosts, InitPlaces
  <1>2. CostInv /\ PlaceInv /\ [Next]_vars => (CostInv /\ PlaceInv)' BY Zenon, NextCosts, NextPlaces
  <1>3. CostInv /\ PlaceInv => TypeOK BY Zenon, TypesFollow
  <1> QED BY <1>1, <1>2, <1>3, PTL DEF Spec
-----------------------------------------------------------------------------
(* One message is lost at most. Until an interface goes down or an entry   *)
(* is added twice, routes stay and they have no loops, also when handlers  *)
(* overtake one another.                                                   *)

Calm == Losses \in {0, 1}

\* one of the messages ms brings a finite cost from m to n
Coming(ms, m, n) == \E a \in ms : a.from = m /\ a.to = n /\ Usable(a) # {}

\* Nobody has a route before Start; the route of Owner is its own.
StartedInv ==
    /\ \A n \in Nodes \ started : table[n] = NoEntry
    /\ Owner \in started => table[Owner] = [Cost |-> 0, NextHop |-> Owner]

\* The next hop is nearer to Owner.
NearerInv ==
    \A n \in Nodes \ {Owner} :
        table[n] # NoEntry => table[n].NextHop \in Neighbors[n] /\ table[table[n].NextHop].Cost < table[n].Cost

\* What is on its way tells no less than its sender has now, nor more than the
\* receiver learned from the same sender before; except from Owner, there is one
\* message in a round.
ComingInv ==
    /\ \A a \in net : /\ a.at # "wire" => a.to \in started
                      /\ a.at = "add" => a.to # Owner
                      /\ a.from # Owner => <<a.from, a.to>> \in sent
                      /\ \A cost \in Usable(a) :
                            /\ table[a.from].Cost <= cost
                            /\ a.from = Owner => cost = 0
                            /\ table[a.to].NextHop = a.from => cost + 1 <= table[a.to].Cost
    /\ \A a, b \in net : a.from = b.from /\ a.to = b.to /\ a.from # Owner => a = b

\* An entry has a timer, and one that has missed an update has missed a lost one.
TimerInv ==
    /\ timers[Owner] = {}
    /\ \A n \in Nodes \ {Owner} : table[n] # NoEntry => timers[n] # {}
    /\ \A n \in Nodes : \A t \in timers[n] :
         /\ t.live /\ table[n] # NoEntry
         /\ t.age >= 1 => losses >= t.age - 1
         /\ t.age >= 1 /\ <<table[n].NextHop, n>> \in sent /\ ~Coming(net, table[n].NextHop, n)
              => losses >= t.age

CalmInv ==
    /\ CostInv /\ PlaceInv
    /\ commands = 0 /\ stopped = {}
    /\ StartedInv /\ NearerInv /\ ComingInv /\ TimerInv

\* What the invariant says of one node, of one message and of one cost.
LEMMA CalmIs ==
  ASSUME Calm, CalmInv
  PROVE  /\ INFINITY \in Nat /\ INFINITY > 0 /\ stopped = {} /\ losses \in Nat /\ losses <= 1
         /\ Owner \in Nodes
         /\ \A n \in Nodes : /\ table[n].Cost \in 0 .. INFINITY
                             /\ table[n].NextHop \in Nodes \cup {"none"}
                             /\ table[n].NextHop \in Nodes => table[n] # NoEntry
                             /\ table[n].Cost # INFINITY => table[n] # NoEntry
                             /\ timers[n] \in SUBSET [hop : Nodes, age : Int, live : BOOLEAN]
  <1>1. losses \in Nat /\ losses <= 1 BY DEF Calm, CalmInv, PlaceInv
  <1>2. ASSUME NEW n \in Nodes
        PROVE  /\ table[n].Cost \in 0 .. INFINITY
               /\ table[n].NextHop \in Nodes \cup {"none"}
               /\ timers[n] \in SUBSET [hop : Nodes, age : Int, live : BOOLEAN]
    BY Zenon DEF CalmInv, CostInv, HonestTables
  <1>3. NoEntry.Cost = INFINITY /\ NoEntry.NextHop = "none" BY Zenon DEF NoEntry
  <1> QED BY <1>1, <1>2, <1>3, RIPAssumption DEF CalmInv

\* A node with a next hop: the hop has been started, has a cost, and tells it.
LEMMA HopTells ==
  ASSUME Calm, CalmInv, NEW n \in Nodes, n # Owner, table[n] # NoEntry, NEW m, m = table[n].NextHop
  PROVE  /\ m \in Nodes /\ m # n /\ m \in Neighbors[n] /\ n \in Neighbors[m] /\ m \in started
         /\ table[m].Cost < table[n].Cost /\ table[m].Cost # INFINITY /\ table[m].NextHop # n
  <1>1. m \in Neighbors[n] /\ table[m].Cost < table[n].Cost BY Zenon DEF CalmInv, NearerInv
  <1>2. m \in Nodes /\ m # n /\ {n, m} \in Links BY Zenon, <1>1 DEF Neighbors
  <1>3. {m, n} = {n, m} BY Zenon
  <1>4. n \in Neighbors[m] BY Zenon, <1>2, <1>3 DEF Neighbors
  <1>5. table[m].Cost \in 0 .. INFINITY /\ table[n].Cost \in 0 .. INFINITY /\ INFINITY \in Nat BY Zenon, <1>2, CalmIs
  <1>6. table[m].Cost # INFINITY BY <1>1, <1>5
  <1>7. table[m] # NoEntry BY Zenon, <1>2, <1>6, CalmIs
  <1>8. m \in started BY Zenon, <1>2, <1>7 DEF CalmInv, StartedInv
  <1>9. table[m].NextHop # n
    <2>1. CASE m = Owner
      <3>1. table[m] = [Cost |-> 0, NextHop |-> Owner] BY Zenon, <1>8, <2>1 DEF CalmInv, StartedInv
      <3> QED BY <3>1
    <2>2. CASE m # Owner
      <3>1. table[table[m].NextHop].Cost < table[m].Cost BY Zenon, <1>2, <1>7, <2>2 DEF CalmInv, NearerInv
      <3> QED BY SMTT(30), <1>1, <1>5, <3>1
    <2> QED BY Zenon, <2>1, <2>2
  <1> QED BY Zenon, <1>1, <1>2, <1>4, <1>6, <1>8, <1>9

\* A message, and a cost it carries.
LEMMA MessageIs ==
  ASSUME Calm, CalmInv, NEW a \in net
  PROVE  /\ (a.at # "wire" => a.to \in started) /\ (a.at = "add" => a.to # Owner)
         /\ a.from \in Nodes /\ a.to \in Nodes /\ a.from # a.to
         /\ a.to \in Neighbors[a.from] /\ a.from \in Neighbors[a.to]
         /\ a.from # Owner => <<a.from, a.to>> \in sent
         /\ \A cost \in Usable(a) : /\ cost \in Nat /\ cost < INFINITY
                                    /\ table[a.from].Cost <= cost
                                    /\ a.from = Owner => cost = 0
                                    /\ table[a.to].NextHop = a.from => cost + 1 <= table[a.to].Cost
  <1>1. HonestMessage(a) BY Zenon DEF CalmInv, CostInv
  <1>2. \A cost \in Usable(a) : cost \in Nat /\ cost < INFINITY BY <1>1, EndsOf, RIPAssumption DEF Usable
  <1> QED BY Zenon, <1>1, <1>2, EndsOf DEF CalmInv, ComingInv

\* No cost rises.
NoneWorse == \A n \in Nodes : table'[n].Cost <= table[n].Cost

LEMMA SameCosts ==
  ASSUME Calm, CalmInv, UNCHANGED table PROVE NoneWorse
  BY SMTT(30), CalmIs DEF NoneWorse

\* A step that leaves the tables and takes messages off the net.
LEMMA FewerMessages ==
  ASSUME CalmInv, UNCHANGED <<table, started, stopped, sent>>, net' \subseteq net
  PROVE  stopped' = {} /\ StartedInv' /\ NearerInv' /\ ComingInv'
  BY Zenon DEF CalmInv, StartedInv, NearerInv, ComingInv, Usable

\* The timers stay, and a message that another node waits for is not gone
\* unless it was lost.
LEMMA TimersStay ==
  ASSUME Calm, CalmInv, UNCHANGED <<table, timers, sent>>,
         \/ UNCHANGED losses /\ \A n \in Nodes : timers[n] # {} /\ Coming(net, table[n].NextHop, n)
                                                  => Coming(net', table[n].NextHop, n)
         \/ losses' = losses + 1
  PROVE  TimerInv'
  <1>1. timers'[Owner] = {} BY Zenon DEF CalmInv, TimerInv
  <1>2. ASSUME NEW n \in Nodes, NEW t \in timers[n]
        PROVE  /\ t.live /\ table[n] # NoEntry
               /\ t.age >= 1 => losses' >= t.age - 1
               /\ t.age >= 1 /\ <<table[n].NextHop, n>> \in sent /\ ~Coming(net', table[n].NextHop, n)
                    => losses' >= t.age
    <2>1. t.age \in Int /\ losses \in Nat BY Zenon, CalmIs
    <2>2. /\ t.live /\ table[n] # NoEntry
          /\ t.age >= 1 => losses >= t.age - 1
          /\ t.age >= 1 /\ <<table[n].NextHop, n>> \in sent /\ ~Coming(net, table[n].NextHop, n)
               => losses >= t.age
      BY Zenon DEF CalmInv, TimerInv
    <2> QED BY <2>1, <2>2
  <1>3. \A n \in Nodes \ {Owner} : table'[n] # NoEntry => timers'[n] # {} BY Zenon DEF CalmInv, TimerInv
  <1> QED BY Zenon, <1>1, <1>2, <1>3 DEF TimerInv, Coming

\* A handler goes on with a message.
LEMMA HandlerMoves ==
  ASSUME Calm, CalmInv, NEW a \in net, NEW at, a.to \in started, at = "add" => a.to # Owner,
         net' = (net \ {a}) \cup {[a EXCEPT !.at = at]},
         UNCHANGED <<table, timers, started, stopped, sent, losses>>
  PROVE  stopped' = {} /\ StartedInv' /\ NearerInv' /\ ComingInv' /\ TimerInv' /\ NoneWorse
  <1>1. PICK x : x = [a EXCEPT !.at = at] BY Zenon
  <1>2. HonestMessage(a) BY Zenon DEF CalmInv, CostInv
  <1>3. x = [from |-> a.from, to |-> a.to, at |-> at, Command |-> a.Command, entries |-> a.entries]
    BY Zenon, <1>1, <1>2 DEF HonestMessage
  <1>4. x.from = a.from /\ x.to = a.to /\ x.at = at /\ Usable(x) = Usable(a) BY Zenon, <1>3 DEF Usable
  <1>5. ASSUME NEW b \in net'
        PROVE  /\ b.at # "wire" => b.to \in started
               /\ b.at = "add" => b.to # Owner
               /\ b.from # Owner => <<b.from, b.to>> \in sent
               /\ \A cost \in Usable(b) :
                     /\ table[b.from].Cost <= cost
                     /\ b.from = Owner => cost = 0
                     /\ table[b.to].NextHop = b.from => cost + 1 <= table[b.to].Cost
    <2>1. CASE b \in net BY Zenon, <2>1, MessageIs
    <2>2. CASE b = x BY Zenon, <1>4, <2>2, MessageIs
    <2> QED BY Zenon, <1>1, <2>1, <2>2
  <1>6. ASSUME NEW b \in net', NEW c \in net', b.from = c.from, b.to = c.to, b.from # Owner PROVE b = c
    <2>1. \A d \in net \ {a} : d.from = a.from /\ d.to = a.to => a.from = Owner
      BY Zenon DEF CalmInv, ComingInv
    <2>2. CASE b \in net \ {a} /\ c \in net \ {a} BY Zenon, <1>6, <2>2 DEF CalmInv, ComingInv
    <2> QED BY Zenon, <1>1, <1>4, <1>6, <2>1, <2>2
  <1>7. \A b \in net' : Usable(b)' = Usable(b) BY Zenon DEF Usable
  <1>8. ComingInv' BY Zenon, <1>5, <1>6, <1>7 DEF ComingInv
  <1>9. \A n \in Nodes : Coming(net, table[n].NextHop, n) => Coming(net', table[n].NextHop, n)
    BY Zenon, <1>1, <1>4 DEF Coming
  <1>10. TimerInv' BY Zenon, <1>9, TimersStay
  <1>11. stopped' = {} /\ StartedInv' /\ NearerInv' BY Zenon DEF CalmInv, StartedInv, NearerInv
  <1> QED BY Zenon, <1>8, <1>10, <1>11, SameCosts

LEMMA StartCalm ==
  ASSUME Calm, CalmInv, NEW n \in Nodes, Start(n)
  PROVE  stopped' = {} /\ StartedInv' /\ NearerInv' /\ ComingInv' /\ TimerInv' /\ NoneWorse
  <1>1. /\ n \notin started /\ started' = started \cup {n} /\ table[n] = NoEntry
        /\ UNCHANGED <<timers, stopped, sent, commands, losses>>
    BY Zenon DEF Start, CalmInv, StartedInv
  <1>2. CASE n # Owner
    <2>1. table' = table BY Zenon, <1>2 DEF Start, CalmInv, CostInv, HonestTables
    <2>2. GetAllEntries(table'[n]) = {} BY SMTT(30), <1>1, <2>1 DEF GetAllEntries, NoEntry
    <2>3. net' = net
      <3>1. \A m \in Neighbors[n] : Send(Message(n, m, 1, GetAllEntries(table'[n]))) = {}
        BY Zenon, <2>2 DEF Send, Message
      <3> QED BY <3>1 DEF Start
    <2>4. NearerInv' /\ ComingInv' BY Zenon, <1>1, <2>1, <2>3 DEF CalmInv, NearerInv, ComingInv, Usable
    <2>5. TimerInv' BY SMTT(30), <1>1, <2>1, <2>3 DEF CalmInv, TimerInv, Coming, Usable
    <2>6. StartedInv' /\ stopped' = {} BY Zenon, <1>1, <1>2, <2>1 DEF CalmInv, StartedInv
    <2> QED BY Zenon, <2>1, <2>4, <2>5, <2>6, SameCosts
  <1>3. CASE n = Owner
    <2>1. PICK own : own = [Cost |-> 0, NextHop |-> Owner] BY Zenon
    <2>2. table' = [table EXCEPT ![Owner] = own] BY Zenon, <1>3, <2>1 DEF Start
    <2>3. \A k \in Nodes : table'[k] = IF k = Owner THEN own ELSE table[k]
      BY Zenon, <2>2 DEF CalmInv, CostInv, HonestTables
    <2>4. own.Cost = 0 /\ table[Owner].Cost = INFINITY /\ INFINITY > 0 /\ INFINITY \in Nat
      BY Zenon, <1>1, <1>3, <2>1, CalmIs DEF NoEntry
    <2>5. NoneWorse BY <2>3, <2>4, CalmIs DEF NoneWorse
    <2>6. \A k \in Nodes : table'[k].Cost \in Int /\ table[k].Cost \in Int BY <2>3, <2>4, CalmIs
    <2>7. ASSUME NEW k \in Nodes \ {Owner}, table[k] # NoEntry PROVE table[k].NextHop # Owner
      BY Zenon, <2>4, <2>7, HopTells
    <2>8. NearerInv'
      <3>1. ASSUME NEW k \in Nodes \ {Owner}, table'[k] # NoEntry
            PROVE  /\ table'[k].NextHop \in Neighbors[k]
                   /\ table'[table'[k].NextHop].Cost < table'[k].Cost
        <4>1. table'[k] = table[k] BY Zenon, <2>3
        <4>2. table[k].NextHop \in Nodes /\ table[k].NextHop \in Neighbors[k]
              /\ table[table[k].NextHop].Cost < table[k].Cost
          BY Zenon, <3>1, <4>1, HopTells
        <4> QED BY Zenon, <2>3, <2>7, <3>1, <4>1, <4>2
      <3> QED BY Zenon, <3>1 DEF NearerInv
    <2>9. StartedInv' /\ stopped' = {} BY Zenon, <1>1, <1>3, <2>1, <2>3 DEF CalmInv, StartedInv
    <2>10. ASSUME NEW b \in net', b \notin net
           PROVE  b.from = Owner /\ b.to \in Nodes \ {Owner} /\ b.at = "wire" /\ Usable(b) = {0}
      <3>1. PICK m \in Neighbors[n] : b \in Send(Message(n, m, 1, GetAllEntries(table'[n])))
        BY Zenon, <2>10 DEF Start
      <3>2. GetAllEntries(table'[n]) = {0} BY <1>3, <2>3, <2>4 DEF GetAllEntries
      <3>3. b = Message(n, m, 1, {0}) BY Zenon, <3>1, <3>2 DEF Send
      <3>4. m \in Nodes \ {n} BY Zenon, <3>1 DEF Neighbors
      <3> QED BY <1>3, <2>4, <3>3, <3>4 DEF Message, Usable
    <2>11. net \subseteq net' BY Zenon DEF Start
    <2>12. ComingInv'
      <3>1. ASSUME NEW b \in net', b \in net, NEW cost \in Usable(b)
            PROVE  /\ table'[b.from].Cost <= cost
                   /\ b.from = Owner => cost = 0
                   /\ table'[b.to].NextHop = b.from => cost + 1 <= table'[b.to].Cost
        <4>1. /\ b.from \in Nodes /\ b.to \in Nodes /\ b.from # b.to /\ cost \in Nat /\ cost < INFINITY
              /\ table[b.from].Cost <= cost /\ (b.from = Owner => cost = 0)
              /\ table[b.to].NextHop = b.from => cost + 1 <= table[b.to].Cost
          BY Zenon, <3>1, MessageIs
        <4>2. table'[b.from].Cost <= cost BY <2>3, <2>4, <4>1
        <4>3. CASE b.to = Owner BY <2>1, <2>3, <4>1, <4>2, <4>3
        <4>4. CASE b.to # Owner BY Zenon, <2>3, <4>1, <4>2, <4>4
        <4> QED BY Zenon, <4>3, <4>4
      <3>2. ASSUME NEW b \in net', b \notin net, NEW cost \in Usable(b)
            PROVE  /\ table'[b.from].Cost <= cost
                   /\ b.from = Owner => cost = 0
                   /\ table'[b.to].NextHop = b.from => cost + 1 <= table'[b.to].Cost
        <4>1. b.from = Owner /\ b.to \in Nodes \ {Owner} /\ cost = 0 BY <2>10, <3>2
        <4>2. table'[b.to] = table[b.to] BY Zenon, <2>3, <4>1
        <4>3. table[b.to].NextHop # Owner
          <5>1. CASE table[b.to] = NoEntry BY <5>1, RIPAssumption DEF NoEntry
          <5>2. CASE table[b.to] # NoEntry BY Zenon, <2>7, <4>1, <5>2
          <5> QED BY Zenon, <5>1, <5>2
        <4> QED BY <2>3, <2>4, <4>1, <4>2, <4>3, CalmIs
      <3>3. ASSUME NEW b \in net'
            PROVE  /\ b.at # "wire" => b.to \in started'
                   /\ b.at = "add" => b.to # Owner
                   /\ b.from # Owner => <<b.from, b.to>> \in sent'
        BY Zenon, <1>1, <2>10, MessageIs
      <3>4. ASSUME NEW b \in net', NEW c \in net', b.from = c.from, b.to = c.to, b.from # Owner
            PROVE  b = c
        <4>1. b \in net /\ c \in net BY Zenon, <2>10, <3>4
        <4> QED BY Zenon, <3>4, <4>1 DEF CalmInv, ComingInv
      <3>5. \A b \in net' : Usable(b)' = Usable(b) BY Zenon DEF Usable
      <3> QED BY Zenon, <3>1, <3>2, <3>3, <3>4, <3>5 DEF ComingInv
    <2>13. TimerInv'
      <3>1. timers'[Owner] = {} BY Zenon, <1>1 DEF CalmInv, TimerInv
      <3>2. ASSUME NEW k \in Nodes, NEW t \in timers'[k]
            PROVE  /\ t.live /\ table'[k] # NoEntry
                   /\ t.age >= 1 => losses' >= t.age - 1
                   /\ t.age >= 1 /\ <<table'[k].NextHop, k>> \in sent' /\ ~Coming(net', table'[k].NextHop, k)
                        => losses' >= t.age
        <4>1. k # Owner /\ t \in timers[k] BY Zenon, <1>1, <3>1
        <4>2. table'[k] = table[k] BY Zenon, <2>3, <4>1
        <4>3. Coming(net, table[k].NextHop, k) => Coming(net', table[k].NextHop, k) BY Zenon, <2>11 DEF Coming, Usable
        <4> QED BY <1>1, <4>1, <4>2, <4>3 DEF CalmInv, TimerInv, Coming
      <3>3. \A k \in Nodes \ {Owner} : table'[k] # NoEntry => timers'[k] # {}
        BY Zenon, <1>1, <2>3 DEF CalmInv, TimerInv
      <3> QED BY Zenon, <3>1, <3>2, <3>3 DEF TimerInv
    <2> QED BY Zenon, <2>5, <2>8, <2>9, <2>12, <2>13
  <1> QED BY Zenon, <1>2, <1>3

\* A node tells what it has, and its table has not risen since it last told:
\* that is no more than the receiver may have from it.
LEMMA SendCalm ==
  ASSUME Calm, CalmInv, NEW n \in Nodes, NEW m \in Nodes, SendUpdate(n, m)
  PROVE  stopped' = {} /\ StartedInv' /\ NearerInv' /\ ComingInv' /\ TimerInv' /\ NoneWorse
  <1>1. /\ n \in started /\ m \in Neighbors[n] /\ <<n, m>> \notin sent /\ sent' = sent \cup {<<n, m>>}
        /\ UNCHANGED <<table, timers, started, stopped, commands, losses>> /\ m # n
    BY Zenon DEF SendUpdate, Neighbors
  <1>2. PICK x : x = Message(n, m, 2, GetSpecificEntries(n, m)) BY Zenon
  <1>3. net' = net \cup Send(x) BY Zenon, <1>2 DEF SendUpdate
  <1>4. Send(x) \subseteq {x} BY Zenon, <1>2, SendIs
  <1>5. x.from = n /\ x.to = m /\ x.at = "wire" /\ x.entries = GetSpecificEntries(n, m) BY Zenon, <1>2 DEF Message
  <1>6. INFINITY \in Nat /\ table[n].Cost \in 0 .. INFINITY /\ table[m].Cost \in 0 .. INFINITY BY Zenon, CalmIs
  <1>7. ASSUME NEW cost \in Usable(x)
        PROVE  /\ cost = table[n].Cost /\ (n = Owner => cost = 0)
               /\ table[m].NextHop = n => cost + 1 <= table[m].Cost
    <2>1. cost = table[n].Cost BY Zenon, <1>5 DEF Usable, GetSpecificEntries
    <2>2. n = Owner => cost = 0 BY <1>1, <2>1 DEF CalmInv, StartedInv
    <2>3. ASSUME table[m].NextHop = n PROVE cost + 1 <= table[m].Cost
      <3>1. table[m] # NoEntry BY Zenon, <2>3, CalmIs
      <3>2. CASE m = Owner
        <4>1. m \in started BY Zenon, <3>1 DEF CalmInv, StartedInv
        <4>2. table[m].NextHop = Owner BY <3>2, <4>1 DEF CalmInv, StartedInv
        <4> QED BY Zenon, <1>1, <2>3, <3>2, <4>2
      <3>3. CASE m # Owner
        <4>1. table[n].Cost < table[m].Cost BY Zenon, <2>3, <3>1, <3>3, HopTells
        <4> QED BY <1>6, <2>1, <4>1
      <3> QED BY Zenon, <3>2, <3>3
    <2> QED BY Zenon, <2>1, <2>2, <2>3
  <1>8. ComingInv'
    <2>1. ASSUME NEW a \in net'
          PROVE  /\ a.at # "wire" => a.to \in started
                 /\ a.at = "add" => a.to # Owner
                 /\ a.from # Owner => <<a.from, a.to>> \in sent'
                 /\ \A cost \in Usable(a) :
                       /\ table[a.from].Cost <= cost
                       /\ a.from = Owner => cost = 0
                       /\ table[a.to].NextHop = a.from => cost + 1 <= table[a.to].Cost
      <3>1. CASE a \in net BY Zenon, <1>1, <3>1, MessageIs
      <3>2. CASE a = x BY <1>1, <1>5, <1>6, <1>7, <3>2
      <3> QED BY Zenon, <1>3, <1>4, <3>1, <3>2
    <2>2. ASSUME NEW a \in net', NEW b \in net', a.from = b.from, a.to = b.to, a.from # Owner
          PROVE  a = b
      <3>1. CASE a \in net /\ b \in net BY Zenon, <2>2, <3>1 DEF CalmInv, ComingInv
      <3>2. ASSUME NEW c \in net, c.from = n, c.to = m, n # Owner PROVE FALSE BY Zenon, <1>1, <3>2, MessageIs
      <3> QED BY Zenon, <1>3, <1>4, <1>5, <2>2, <3>1, <3>2
    <2>3. \A a \in net' : Usable(a)' = Usable(a) BY Zenon DEF Usable
    <2> QED BY Zenon, <1>1, <2>1, <2>2, <2>3 DEF ComingInv
  <1>9. TimerInv'
    <2>1. timers'[Owner] = {} BY Zenon, <1>1 DEF CalmInv, TimerInv
    <2>2. ASSUME NEW k \in Nodes, NEW t \in timers[k]
          PROVE  /\ t.live /\ table[k] # NoEntry
                 /\ t.age >= 1 => losses >= t.age - 1
                 /\ t.age >= 1 /\ <<table[k].NextHop, k>> \in sent' /\ ~Coming(net', table[k].NextHop, k)
                      => losses >= t.age
      <3>1. /\ t.live /\ table[k] # NoEntry
            /\ t.age >= 1 => losses >= t.age - 1
            /\ t.age >= 1 /\ <<table[k].NextHop, k>> \in sent /\ ~Coming(net, table[k].NextHop, k)
                 => losses >= t.age
        BY Zenon DEF CalmInv, TimerInv
      <3>2. Coming(net, table[k].NextHop, k) => Coming(net', table[k].NextHop, k) BY Zenon, <1>3 DEF Coming
      <3>3. CASE k = m /\ table[k].NextHop = n
        <4>1. k # Owner BY Zenon, <2>1, <1>1
        <4>2. table[n].Cost # INFINITY /\ table[n].NextHop # m BY Zenon, <3>1, <3>3, <4>1, HopTells
        <4>3. x.entries = {table[n].Cost} BY Zenon, <1>5, <4>2 DEF GetSpecificEntries
        <4>4. Send(x) = {x} BY Zenon, <4>3 DEF Send, CalmInv
        <4>5. Usable(x) # {} BY Zenon, <4>2, <4>3 DEF Usable
        <4>6. Coming(net', n, m) BY Zenon, <1>3, <1>5, <4>4, <4>5 DEF Coming
        <4> QED BY Zenon, <3>1, <3>3, <4>6
      <3>4. CASE ~(k = m /\ table[k].NextHop = n)
        <4>1. <<table[k].NextHop, k>> \in sent' => <<table[k].NextHop, k>> \in sent BY Zenon, <1>1, <3>4
        <4> QED BY Zenon, <3>1, <3>2, <4>1
      <3> QED BY Zenon, <3>3, <3>4
    <2>3. UNCHANGED <<table, timers, losses>> BY Zenon, <1>1
    <2>4. \A k \in Nodes \ {Owner} : table'[k] # NoEntry => timers'[k] # {}
      BY Zenon, <2>3 DEF CalmInv, TimerInv
    <2> QED BY SMTT(30), <2>1, <2>2, <2>3, <2>4 DEF TimerInv, Coming, Usable
  <1>10. stopped' = {} /\ StartedInv' /\ NearerInv' BY Zenon, <1>1 DEF CalmInv, StartedInv, NearerInv
  <1> QED BY Zenon, <1>1, <1>8, <1>9, <1>10, SameCosts

\* A node other than Owner learns a lower cost from one of its neighbours.
LEMMA LearnCalm ==
  ASSUME Calm, CalmInv, NEW a \in net, NEW received \in Usable(a), NEW n, NEW m, NEW cost, NEW ts,
         n = a.to, m = a.from, cost = received + 1, n # Owner, n \in started,
         table[n] = NoEntry \/ cost < table[n].Cost,
         table' = [table EXCEPT ![n] = [Cost |-> cost, NextHop |-> m]],
         timers' = [timers EXCEPT ![n] = ts], ts # {}, \A t \in ts : t.live /\ ~(t.age >= 1),
         net' = net \ {a}, UNCHANGED <<started, stopped, sent, losses>>
  PROVE  stopped' = {} /\ StartedInv' /\ NearerInv' /\ ComingInv' /\ TimerInv' /\ NoneWorse
  <1>1. /\ n \in Nodes /\ m \in Nodes /\ n # m /\ m \in Neighbors[n] /\ received \in Nat
        /\ received < INFINITY /\ table[m].Cost <= received /\ (m = Owner => received = 0)
    BY Zenon, MessageIs
  <1>2. PICK entry : entry = [Cost |-> cost, NextHop |-> m] BY Zenon
  <1>3. entry.Cost = cost /\ entry.NextHop = m /\ entry # NoEntry
    BY <1>1, <1>2, RIPAssumption DEF NoEntry
  <1>4. \A k \in Nodes : /\ table'[k] = IF k = n THEN entry ELSE table[k]
                         /\ timers'[k] = IF k = n THEN ts ELSE timers[k]
    BY Zenon, <1>1, <1>2 DEF CalmInv, CostInv, HonestTables
  <1>5. INFINITY \in Nat /\ \A k \in Nodes : table[k].Cost \in 0 .. INFINITY BY Zenon, CalmIs
  <1>6. cost \in Nat /\ cost <= table[n].Cost
    <2>1. CASE table[n] = NoEntry BY SMTT(30), <1>1, <1>5, <2>1 DEF NoEntry
    <2>2. CASE cost < table[n].Cost BY SMTT(30), <1>1, <1>5, <2>2
    <2> QED BY Zenon, <1>1, <2>1, <2>2
  <1>7. NoneWorse
    <2>1. ASSUME NEW k \in Nodes PROVE table'[k].Cost <= table[k].Cost BY SMTT(30), <1>3, <1>4, <1>5, <1>6
    <2> QED BY Zenon, <2>1 DEF NoneWorse
  <1>8. StartedInv' /\ stopped' = {} BY SMTT(30), <1>1, <1>4 DEF CalmInv, StartedInv
  <1>9. NearerInv'
    <2>1. ASSUME NEW k \in Nodes \ {Owner}, table'[k] # NoEntry
          PROVE  /\ table'[k].NextHop \in Neighbors[k]
                 /\ table'[table'[k].NextHop].Cost < table'[k].Cost
      <3>1. CASE k = n
        <4>1. table'[m] = table[m] BY Zenon, <1>1, <1>4
        <4> QED BY SMTT(30), <1>1, <1>3, <1>4, <1>5, <3>1, <4>1
      <3>2. CASE k # n
        <4>1. table'[k] = table[k] BY Zenon, <1>4, <3>2
        <4>2. PICK h \in Nodes : h = table[k].NextHop /\ h \in Neighbors[k] /\ table[h].Cost < table[k].Cost
          BY Zenon, <2>1, <4>1, HopTells
        <4>3. table'[h].Cost <= table[h].Cost /\ table'[h].Cost \in Int BY SMTT(30), <1>3, <1>4, <1>5, <1>6
        <4> QED BY SMTT(30), <1>5, <4>1, <4>2, <4>3
      <3> QED BY Zenon, <3>1, <3>2
    <2> QED BY Zenon, <2>1 DEF NearerInv
  <1>10. ComingInv'
    <2>1. ASSUME NEW b \in net', NEW c \in Usable(b)
          PROVE  /\ table'[b.from].Cost <= c
                 /\ b.from = Owner => c = 0
                 /\ table'[b.to].NextHop = b.from => c + 1 <= table'[b.to].Cost
      <3>1. /\ b \in net /\ b # a /\ b.from \in Nodes /\ b.to \in Nodes /\ c \in Nat /\ table[b.from].Cost <= c
            /\ (b.from = Owner => c = 0)
            /\ table[b.to].NextHop = b.from => c + 1 <= table[b.to].Cost
        BY Zenon, MessageIs
      <3>2. table'[b.from].Cost <= c BY <1>3, <1>4, <1>5, <1>6, <3>1
      <3>3. CASE b.to = n
        <4>1. table'[b.to] = entry BY Zenon, <1>4, <3>1, <3>3
        <4>2. ASSUME b.from = m PROVE c = 0 /\ received = 0
          <5>1. m = Owner BY Zenon, <3>1, <3>3, <4>2 DEF CalmInv, ComingInv
          <5> QED BY Zenon, <1>1, <3>1, <4>2, <5>1
        <4> QED BY <1>3, <3>1, <3>2, <4>1, <4>2
      <3>4. CASE b.to # n BY Zenon, <1>4, <3>1, <3>2, <3>4
      <3> QED BY Zenon, <3>3, <3>4
    <2>2. \A b \in net' : Usable(b)' = Usable(b) BY Zenon DEF Usable
    <2>3. \A b \in net' : /\ b.at # "wire" => b.to \in started'
                          /\ b.at = "add" => b.to # Owner
                          /\ b.from # Owner => <<b.from, b.to>> \in sent'
      BY Zenon, MessageIs
    <2>4. \A b, c \in net' : b.from = c.from /\ b.to = c.to /\ b.from # Owner => b = c
      BY Zenon DEF CalmInv, ComingInv
    <2> QED BY Zenon, <2>1, <2>2, <2>3, <2>4 DEF ComingInv
  <1>11. TimerInv'
    <2>1. timers'[Owner] = {} BY Zenon, <1>4, CalmIs DEF CalmInv, TimerInv
    <2>2. ASSUME NEW k \in Nodes, NEW t \in timers'[k]
          PROVE  /\ t.live /\ table'[k] # NoEntry
                 /\ t.age >= 1 => losses' >= t.age - 1
                 /\ t.age >= 1 /\ <<table'[k].NextHop, k>> \in sent' /\ ~Coming(net', table'[k].NextHop, k)
                      => losses' >= t.age
      <3>1. CASE k = n BY SMTT(30), <1>3, <1>4, <3>1
      <3>2. CASE k # n
        <4>1. table'[k] = table[k] /\ t \in timers[k] BY Zenon, <1>4, <3>2
        <4>2. Coming(net, table[k].NextHop, k) => Coming(net', table[k].NextHop, k) BY Zenon, <3>2 DEF Coming
        <4>3. /\ t.live /\ table[k] # NoEntry
              /\ t.age >= 1 => losses >= t.age - 1
              /\ t.age >= 1 /\ <<table[k].NextHop, k>> \in sent /\ ~Coming(net, table[k].NextHop, k)
                   => losses >= t.age
          BY Zenon, <4>1 DEF CalmInv, TimerInv
        <4> QED BY SMTT(30), <4>1, <4>2, <4>3
      <3> QED BY Zenon, <3>1, <3>2
    <2>3. ASSUME NEW k \in Nodes \ {Owner}, table'[k] # NoEntry PROVE timers'[k] # {}
      <3>1. CASE k = n BY Zenon, <1>4, <3>1
      <3>2. CASE k # n
        <4>1. table'[k] = table[k] /\ timers'[k] = timers[k] BY Zenon, <1>4, <3>2
        <4> QED BY Zenon, <2>3, <4>1 DEF CalmInv, TimerInv
      <3> QED BY Zenon, <3>1, <3>2
    <2> QED BY Zenon, <2>1, <2>2, <2>3 DEF TimerInv, Coming, Usable
  <1> QED BY Zenon, <1>7, <1>8, <1>9, <1>10, <1>11

LEMMA ReceiveCalm ==
  ASSUME Calm, CalmInv, NEW a \in net, ReceivePacket(a)
  PROVE  stopped' = {} /\ StartedInv' /\ NearerInv' /\ ComingInv' /\ TimerInv' /\ NoneWorse
  <1>1. PICK n, m : n = a.to /\ m = a.from BY Zenon
  <1>2. n \in Nodes /\ m \in Nodes /\ n # m /\ m \in Neighbors[n] BY Zenon, <1>1, MessageIs
  <1>3. n \in started /\ UNCHANGED <<started, stopped, sent, commands, losses>>
    BY Zenon, <1>1, MessageIs DEF ReceivePacket, InHandler, Accepted
  <1>4. PICK received \in Usable(a) :
          \/ /\ table[n] = NoEntry
             /\ AddRoute(a, CostOver(received))
          \/ /\ table[n] = NoEntry
             /\ net' = (net \ {a}) \cup {[a EXCEPT !.at = "add"]}
             /\ UNCHANGED <<table, timers>>
          \/ /\ table[n] # NoEntry /\ Better(table[n], CostOver(received), m)
             /\ table' = [table EXCEPT ![n] = [Cost |-> CostOver(received), NextHop |-> m]]
             /\ timers' = [timers EXCEPT ![n] = Refreshed(n)]
             /\ net' = (net \ {a}) \cup SendTriggeredUpdates(n)
          \/ /\ table[n] # NoEntry /\ ~Better(table[n], CostOver(received), m)
             /\ CostOver(received) > table[n].Cost
             /\ net' = net \ {a}
             /\ UNCHANGED <<table, timers>>
          \/ /\ table[n] # NoEntry /\ CostOver(received) = table[n].Cost
             /\ timers' = [timers EXCEPT ![n] = Refreshed(n)]
             /\ net' = net \ {a}
             /\ UNCHANGED table
    BY Zenon, <1>1 DEF ReceivePacket
  <1>5. PICK cost : cost = CostOver(received) /\ cost = received + 1 BY Zenon DEF CostOver
  <1>6. /\ received \in Nat /\ table[m].Cost <= received /\ INFINITY \in Nat
        /\ table[n].NextHop = m => cost <= table[n].Cost
        /\ table[n].Cost \in 0 .. INFINITY
    BY Zenon, <1>1, <1>2, <1>5, MessageIs, CalmIs
  <1>7. SendTriggeredUpdates(n) = {} BY Zenon, <1>2, NoTriggeredUpdates
  <1>8. n = Owner => table[n] # NoEntry /\ table[n].Cost = 0 /\ table[n].NextHop = n
    BY <1>3, RIPAssumption DEF CalmInv, StartedInv, NoEntry
  <1>9. n # Owner => \A t \in Refreshed(n) : t.live /\ ~(t.age >= 1)
    <2>1. ASSUME n # Owner, NEW u \in Refreshed(n) PROVE u.live /\ ~(u.age >= 1)
      <3>1. PICK t \in timers[n] : u = IF t.live THEN [t EXCEPT !.age = 0] ELSE t BY Zenon, <2>1 DEF Refreshed
      <3>2. t.live /\ t \in [hop : Nodes, age : Int, live : BOOLEAN]
        BY Zenon, <1>2, CalmIs DEF CalmInv, TimerInv
      <3>3. u = [t EXCEPT !.age = 0] BY Zenon, <3>1, <3>2
      <3>4. u.live = t.live /\ u.age = 0 BY Zenon, <3>2, <3>3
      <3> QED BY <3>2, <3>4
    <2> QED BY Zenon, <2>1
  <1>10. CASE table[n] = NoEntry /\ AddRoute(a, CostOver(received))
    <2>1. n # Owner BY Zenon, <1>8, <1>10
    <2>2. timers[n] = {} BY Zenon, <1>2, <1>10 DEF CalmInv, TimerInv
    <2>3. PICK ts : ts = Added(n, m) BY Zenon
    <2>4. \A t \in ts : t = [hop |-> m, age |-> -1, live |-> TRUE] BY Zenon, <2>2, <2>3 DEF Added
    <2>5. (\A t \in ts : t.live /\ ~(t.age >= 1)) /\ ts # {}
      <3>1. \A t \in ts : t.live /\ ~(t.age >= 1) BY SMTT(30), <2>4
      <3> QED BY Zenon, <2>3, <3>1 DEF Added
    <2>6. /\ table' = [table EXCEPT ![n] = [Cost |-> cost, NextHop |-> m]]
          /\ timers' = [timers EXCEPT ![n] = ts] /\ net' = net \ {a}
      BY Zenon, <1>1, <1>5, <1>7, <1>10, <2>3 DEF AddRoute
    <2> QED BY Zenon, <1>1, <1>3, <1>5, <1>10, <2>1, <2>5, <2>6, LearnCalm
  <1>11. CASE /\ table[n] # NoEntry /\ Better(table[n], CostOver(received), m)
              /\ table' = [table EXCEPT ![n] = [Cost |-> CostOver(received), NextHop |-> m]]
              /\ timers' = [timers EXCEPT ![n] = Refreshed(n)]
              /\ net' = (net \ {a}) \cup SendTriggeredUpdates(n)
    <2>1. cost < table[n].Cost BY <1>5, <1>6, <1>11 DEF Better
    <2>2. n # Owner BY SMTT(30), <1>5, <1>6, <1>8, <2>1
    <2>3. /\ table' = [table EXCEPT ![n] = [Cost |-> cost, NextHop |-> m]]
          /\ timers' = [timers EXCEPT ![n] = Refreshed(n)] /\ net' = net \ {a}
      BY Zenon, <1>5, <1>7, <1>11
    <2>4. Refreshed(n) # {} BY Zenon, <1>2, <1>11, <2>2 DEF CalmInv, TimerInv, Refreshed
    <2> QED BY Zenon, <1>1, <1>3, <1>5, <1>9, <2>1, <2>2, <2>3, <2>4, LearnCalm
  <1>12. CASE /\ ~Better(table[n], CostOver(received), m) /\ CostOver(received) > table[n].Cost
              /\ net' = net \ {a} /\ UNCHANGED <<table, timers>>
    <2>1. table[n].NextHop # m BY Zenon, <1>12 DEF Better
    <2>2. \A k \in Nodes : Coming(net, table[k].NextHop, k) => Coming(net', table[k].NextHop, k)
      BY Zenon, <1>1, <1>12, <2>1 DEF Coming
    <2>3. TimerInv' BY Zenon, <1>3, <1>12, <2>2, TimersStay
    <2> QED BY Zenon, <1>3, <1>12, <2>3, FewerMessages, SameCosts
  <1>13. CASE /\ table[n] # NoEntry /\ CostOver(received) = table[n].Cost
              /\ timers' = [timers EXCEPT ![n] = Refreshed(n)]
              /\ net' = net \ {a} /\ UNCHANGED table
    <2>c. table[n].Cost = received + 1 BY Zenon, <1>5, <1>13
    <2>1. n # Owner BY <1>6, <1>8, <2>c
    <2>2. \A k \in Nodes : timers'[k] = IF k = n THEN Refreshed(n) ELSE timers[k]
      BY Zenon, <1>13 DEF CalmInv, CostInv
    <2>3. timers'[Owner] = {} BY Zenon, <2>1, <2>2, CalmIs DEF CalmInv, TimerInv
    <2>4. ASSUME NEW k \in Nodes, NEW t \in timers'[k]
          PROVE  /\ t.live /\ table[k] # NoEntry
                 /\ t.age >= 1 => losses >= t.age - 1
                 /\ t.age >= 1 /\ <<table[k].NextHop, k>> \in sent /\ ~Coming(net', table[k].NextHop, k)
                      => losses >= t.age
      <3>1. CASE k = n
        <4>1. t \in Refreshed(n) BY Zenon, <2>2, <3>1
        <4> QED BY Zenon, <1>9, <1>13, <2>1, <3>1, <4>1
      <3>2. CASE k # n
        <4>1. t \in timers[k] BY Zenon, <2>2, <3>2
        <4>2. Coming(net, table[k].NextHop, k) => Coming(net', table[k].NextHop, k)
          BY Zenon, <1>1, <1>13, <3>2 DEF Coming
        <4> QED BY Zenon, <4>1, <4>2 DEF CalmInv, TimerInv
      <3> QED BY Zenon, <3>1, <3>2
    <2>5. ASSUME NEW k \in Nodes \ {Owner}, table'[k] # NoEntry PROVE timers'[k] # {}
      <3>1. timers[k] # {} BY Zenon, <1>13, <2>5 DEF CalmInv, TimerInv
      <3>2. Refreshed(k) # {} BY Zenon, <3>1 DEF Refreshed
      <3> QED BY Zenon, <2>2, <3>1, <3>2
    <2>6. TimerInv' BY SMTT(30), <1>3, <1>13, <2>3, <2>4, <2>5 DEF TimerInv, Coming, Usable
    <2> QED BY Zenon, <1>3, <1>13, <2>6, FewerMessages, SameCosts
  <1>14. CASE /\ table[n] = NoEntry /\ net' = (net \ {a}) \cup {[a EXCEPT !.at = "add"]}
              /\ UNCHANGED <<table, timers>>
    BY Zenon, <1>1, <1>3, <1>8, <1>14, HandlerMoves
  <1> QED BY Zenon, <1>4, <1>10, <1>11, <1>12, <1>13, <1>14

\* A late AddRoute adds the entry, or replaces one whose timer it leaves over.
LEMMA LateCalm ==
  ASSUME Calm, CalmInv, NEW a \in net, LateAdd(a), ~Orphaned'
  PROVE  stopped' = {} /\ StartedInv' /\ NearerInv' /\ ComingInv' /\ TimerInv' /\ NoneWorse
  <1>1. PICK n, m : n = a.to /\ m = a.from BY Zenon
  <1>2. n \in Nodes /\ n \in started /\ n # Owner BY Zenon, <1>1, MessageIs DEF LateAdd
  <1>3. PICK received \in Usable(a) : AddRoute(a, CostOver(received)) BY Zenon DEF LateAdd
  <1>4. PICK cost : cost = CostOver(received) /\ cost = received + 1 BY Zenon DEF CostOver
  <1>5. PICK ts : ts = Added(n, m) BY Zenon
  <1>6. /\ table' = [table EXCEPT ![n] = [Cost |-> cost, NextHop |-> m]]
        /\ timers' = [timers EXCEPT ![n] = ts] /\ net' = net \ {a}
        /\ UNCHANGED <<started, stopped, sent, losses>>
    <2>1. SendTriggeredUpdates(n) = {} BY Zenon, <1>2, NoTriggeredUpdates
    <2> QED BY Zenon, <1>1, <1>3, <1>4, <1>5, <2>1 DEF AddRoute, LateAdd
  <1>7. timers'[n] = ts BY Zenon, <1>2, <1>6 DEF CalmInv, CostInv
  <1>8. timers[n] = {}
    <2>1. SUFFICES ASSUME NEW t \in timers[n] PROVE FALSE BY Zenon
    <2>2. PICK u : u = [t EXCEPT !.live = FALSE] BY Zenon
    <2>3. t \in [hop : Nodes, age : Int, live : BOOLEAN] BY Zenon, <1>2, CalmIs
    <2>4. ~u.live BY Zenon, <2>2, <2>3
    <2>5. u \in timers'[n] BY Zenon, <1>5, <1>7, <2>2 DEF Added
    <2> QED BY Zenon, <1>2, <2>4, <2>5 DEF Orphaned
  <1>9. table[n] = NoEntry BY Zenon, <1>2, <1>8 DEF CalmInv, TimerInv
  <1>10. \A t \in ts : t = [hop |-> m, age |-> -1, live |-> TRUE] BY Zenon, <1>5, <1>8 DEF Added
  <1>11. \A t \in ts : t.live /\ ~(t.age >= 1) BY SMTT(30), <1>10
  <1>12. ts # {} BY Zenon, <1>5 DEF Added
  <1> QED BY Zenon, <1>1, <1>2, <1>4, <1>6, <1>9, <1>11, <1>12, LearnCalm

\* A message that is discarded was for nobody who waits for it.
LEMMA DropCalm ==
  ASSUME Calm, CalmInv, NEW a \in net, Discard(a) \/ Lose(a)
  PROVE  stopped' = {} /\ StartedInv' /\ NearerInv' /\ ComingInv' /\ TimerInv' /\ NoneWorse
  <1>1. UNCHANGED <<table, timers, started, stopped, sent, commands>> /\ net' = net \ {a}
    BY Zenon DEF Discard, Lose
  <1>2. CASE Lose(a)
    <2>1. losses' = losses + 1 BY Zenon, <1>2 DEF Lose
    <2> QED BY Zenon, <1>1, <2>1, FewerMessages, TimersStay, SameCosts
  <1>3. CASE Discard(a)
    <2>1. a.to \notin started \/ Usable(a) = {} BY Zenon, <1>3 DEF Discard, Accepted, CalmInv
    <2>2. ASSUME NEW n \in Nodes, timers[n] # {}, Coming(net, table[n].NextHop, n)
          PROVE  Coming(net', table[n].NextHop, n)
      <3>1. table[n] # NoEntry BY Zenon, <2>2 DEF CalmInv, TimerInv
      <3>2. n \in started BY Zenon, <3>1 DEF CalmInv, StartedInv
      <3> QED BY Zenon, <1>1, <2>1, <2>2, <3>2 DEF Coming
    <2>3. UNCHANGED losses BY Zenon, <1>3 DEF Discard
    <2> QED BY Zenon, <1>1, <2>2, <2>3, FewerMessages, TimersStay, SameCosts
  <1> QED BY Zenon, <1>2, <1>3

\* What Tick finds: every update of the round has been sent and handled, or
\* the one that has not was lost.
LEMMA TickCalm ==
  ASSUME Calm, CalmInv, Tick
  PROVE  stopped' = {} /\ StartedInv' /\ NearerInv' /\ ComingInv' /\ TimerInv' /\ NoneWorse
  <1>1. /\ UNCHANGED <<table, started, stopped, net, commands, losses>> /\ net = {} /\ sent' = {}
        /\ \A n \in started : \A m \in Neighbors[n] : <<n, m>> \in sent
        /\ timers' = [n \in Nodes |-> {[t EXCEPT !.age = t.age + 1] : t \in timers[n]}]
    BY Zenon DEF Tick
  <1>2. stopped' = {} /\ StartedInv' /\ NearerInv' /\ ComingInv'
    BY Zenon, <1>1 DEF CalmInv, StartedInv, NearerInv, ComingInv
  <1>3. ASSUME NEW n \in Nodes, NEW u \in timers'[n]
        PROVE  n # Owner /\ u.live /\ table[n] # NoEntry /\ (u.age >= 1 => losses >= u.age - 1)
    <2>1. PICK t \in timers[n] : u = [t EXCEPT !.age = t.age + 1] BY Zenon, <1>1
    <2>2. t \in [hop : Nodes, age : Int, live : BOOLEAN] /\ losses \in Nat BY Zenon, CalmIs
    <2>3. u.live = t.live /\ u.age = t.age + 1 BY Zenon, <2>1, <2>2
    <2>4. n # Owner /\ t.live /\ table[n] # NoEntry BY Zenon DEF CalmInv, TimerInv
    <2>5. ASSUME t.age >= 1 PROVE losses >= t.age
      <3>1. PICK m : m = table[n].NextHop BY Zenon
      <3>2. m \in started /\ n \in Neighbors[m] BY Zenon, <2>4, <3>1, HopTells
      <3>3. <<m, n>> \in sent /\ ~Coming(net, m, n) BY Zenon, <1>1, <3>2 DEF Coming
      <3> QED BY Zenon, <2>5, <3>1, <3>3 DEF CalmInv, TimerInv
    <2> QED BY <2>2, <2>3, <2>4, <2>5
  <1>4. timers'[Owner] = {} BY Zenon, <1>3, CalmIs
  <1>5. \A n \in Nodes \ {Owner} : table'[n] # NoEntry => timers'[n] # {} BY Zenon, <1>1 DEF CalmInv, TimerInv
  <1>6. TimerInv' BY Zenon, <1>1, <1>3, <1>4, <1>5 DEF TimerInv, Coming
  <1> QED BY Zenon, <1>1, <1>2, <1>6, SameCosts

\* Two updates in a row would have to be lost.
LEMMA NoneExpires ==
  ASSUME Calm, CalmInv, NEW n \in Nodes, NEW t \in timers[n]
  PROVE  ~Expire(n, t)
  <1>1. SUFFICES ASSUME t.age = 2, Quiet(n) PROVE FALSE BY Zenon DEF Expire, Missed
  <1>2. n # Owner /\ table[n] # NoEntry BY Zenon DEF CalmInv, TimerInv
  <1>3. PICK m : m = table[n].NextHop BY Zenon
  <1>4. m \in started /\ m \in Neighbors[n] BY Zenon, <1>2, <1>3, HopTells
  <1>5. <<m, n>> \in sent /\ ~Coming(net, m, n) BY Zenon, <1>1, <1>4 DEF Quiet, Coming
  <1>6. losses >= 2 BY <1>1, <1>3, <1>5 DEF CalmInv, TimerInv
  <1> QED BY <1>6, CalmIs

LEMMA NextCalm ==
  ASSUME Calm, CalmInv, [Next]_vars, Undisturbed'
  PROVE  CalmInv' /\ NoneWorse
  <1>u. commands' = 0 /\ ~Orphaned' BY Zenon DEF Undisturbed
  <1>1. stopped' = {} /\ StartedInv' /\ NearerInv' /\ ComingInv' /\ TimerInv' /\ NoneWorse
    <2>1. CASE \E n \in Nodes : Start(n) BY Zenon, <2>1, StartCalm
    <2>2. CASE \E n, m \in Nodes : SendUpdate(n, m) BY Zenon, <2>2, SendCalm
    <2>3. CASE \E a \in net : HandlerRuns(a)
      BY Zenon, <2>3, HandlerMoves DEF HandlerRuns, Accepted
    <2>4. CASE \E a \in net : Discard(a) \/ Lose(a) BY Zenon, <2>4, DropCalm
    <2>5. CASE \E a \in net : ReceivePacket(a) BY Zenon, <2>5, ReceiveCalm
    <2>6. CASE \E n \in Nodes : \E t \in timers[n] : Expire(n, t) BY Zenon, <2>6, NoneExpires
    <2>7. CASE Tick BY Zenon, <2>7, TickCalm
    <2>8. CASE \E n, m \in Nodes : DownInterface(n, m) \/ UpInterface(n, m)
      <3>1. commands' = commands + 1 /\ commands = 0 BY Zenon, <2>8 DEF DownInterface, UpInterface, CalmInv
      <3> QED BY <1>u, <3>1
    <2>9. CASE UNCHANGED vars
      <3>1. TimerInv' BY Zenon, <2>9 DEF vars, CalmInv, TimerInv, Coming, Usable
      <3> QED BY Zenon, <2>9, <3>1, FewerMessages, SameCosts DEF vars
    <2>10. CASE \E a \in net : LateAdd(a) BY Zenon, <1>u, <2>10, LateCalm
    <2> QED BY Zenon, <2>1, <2>2, <2>3, <2>4, <2>5, <2>6, <2>7, <2>8, <2>9, <2>10 DEF Next, Work
  <1>2. CostInv' /\ PlaceInv' BY Zenon, NextCosts, NextPlaces DEF CalmInv
  <1> QED BY Zenon, <1>u, <1>1, <1>2 DEF CalmInv

\* A timer that is left over stays so.
LEMMA OrphansStay ==
  ASSUME CostInv, Orphaned, [Next]_vars PROVE Orphaned'
  <1>1. PICK n \in Nodes : \E t \in timers[n] : ~t.live BY Zenon DEF Orphaned
  <1>2. PICK t \in timers[n] : ~t.live BY Zenon, <1>1
  <1>3. \A k \in Nodes : timers[k] \subseteq [hop : Nodes, age : Int, live : BOOLEAN] BY Zenon DEF CostInv
  <1>4. SUFFICES \E u \in timers'[n] : ~u.live BY Zenon, <1>4 DEF Orphaned
  <1>5. CASE UNCHANGED timers BY Zenon, <1>2, <1>5
  <1>6. ASSUME NEW k \in Nodes, timers' = [timers EXCEPT ![k] = Refreshed(k)]
        PROVE  \E u \in timers'[n] : ~u.live
    <2>1. t \in Refreshed(n) BY Zenon, <1>2 DEF Refreshed
    <2>2. timers'[n] \in {timers[n], Refreshed(n)} BY Zenon, <1>6 DEF CostInv
    <2> QED BY Zenon, <1>2, <2>1, <2>2
  <1>7. ASSUME NEW k \in Nodes, NEW hop, timers' = [timers EXCEPT ![k] = Added(k, hop)]
        PROVE  \E u \in timers'[n] : ~u.live
    <2>1. PICK u : u = [t EXCEPT !.live = FALSE] BY Zenon
    <2>2. ~u.live BY Zenon, <1>3, <2>1
    <2>3. u \in Added(n, hop) BY Zenon, <2>1 DEF Added
    <2>4. timers'[n] = timers[n] \/ timers'[n] = Added(n, hop) BY Zenon, <1>7 DEF CostInv
    <2> QED BY Zenon, <1>2, <2>2, <2>3, <2>4
  <1>8. ASSUME NEW k \in Nodes, NEW x \in timers[k], Expire(k, x)
        PROVE  \E u \in timers'[n] : ~u.live
    <2>1. PICK y : y = [x EXCEPT !.age = 0] BY Zenon
    <2>2. y.live = x.live BY Zenon, <1>3, <2>1
    <2>3. timers'[n] = timers[n] \/ (k = n /\ timers'[n] = (timers[n] \ {x}) \cup {y})
      BY Zenon, <1>8, <2>1 DEF Expire, CostInv
    <2> QED BY Zenon, <1>2, <2>2, <2>3
  <1>9. CASE Tick
    <2>1. PICK u : u = [t EXCEPT !.age = t.age + 1] BY Zenon
    <2>2. u.live = t.live BY Zenon, <1>3, <2>1
    <2>3. u \in timers'[n] BY Zenon, <1>9, <2>1 DEF Tick
    <2> QED BY Zenon, <1>2, <2>2, <2>3
  <1>10. ASSUME NEW a \in net, ReceivePacket(a) \/ LateAdd(a)
         PROVE  \E u \in timers'[n] : ~u.live
    <2>1. a.to \in Nodes BY Zenon, EndsOf DEF CostInv
    <2>2. \/ UNCHANGED timers
          \/ timers' = [timers EXCEPT ![a.to] = Refreshed(a.to)]
          \/ timers' = [timers EXCEPT ![a.to] = Added(a.to, a.from)]
      BY Zenon, <1>10 DEF ReceivePacket, LateAdd, AddRoute
    <2> QED BY Zenon, <1>5, <1>6, <1>7, <2>1, <2>2
  <1> QED
    BY ZenonT(60), <1>5, <1>8, <1>9, <1>10
    DEF Next, Work, vars, Start, SendUpdate, HandlerRuns, Discard, Lose, DownInterface, UpInterface

LEMMA StaysUndisturbed ==
  ASSUME CostInv, PlaceInv, [Next]_vars, Undisturbed' PROVE Undisturbed
  <1>1. ~Orphaned BY Zenon, OrphansStay DEF Undisturbed
  <1>2. commands' = commands \/ commands' = commands + 1
    BY Zenon DEF Next, Work, vars, Start, SendUpdate, HandlerRuns, Discard, ReceivePacket, LateAdd,
                 Expire, Tick, DownInterface, UpInterface, Lose
  <1>3. commands \in Nat /\ commands' = 0 BY RIPAssumption DEF PlaceInv, Undisturbed
  <1>4. commands = 0 BY <1>2, <1>3
  <1> QED BY Zenon, <1>1, <1>4 DEF Undisturbed

RouteInv == CostInv /\ PlaceInv /\ (Undisturbed => CalmInv)

LEMMA NextRoutes ==
  ASSUME Calm, RouteInv, [Next]_vars PROVE RouteInv'
  <1>1. CostInv' /\ PlaceInv' BY Zenon, NextCosts, NextPlaces DEF RouteInv
  <1>2. Undisturbed' => CalmInv' BY Zenon, StaysUndisturbed, NextCalm DEF RouteInv
  <1> QED BY Zenon, <1>1, <1>2 DEF RouteInv

LEMMA InitRoutes ==
  ASSUME Init PROVE RouteInv
  <1>1. CostInv /\ PlaceInv BY Zenon, InitCosts, InitPlaces
  <1>2. /\ \A n \in Nodes : table[n] = NoEntry /\ timers[n] = {}
        /\ started = {} /\ stopped = {} /\ net = {} /\ commands = 0
    BY Zenon DEF Init
  <1>3. StartedInv /\ NearerInv /\ ComingInv /\ TimerInv
    BY <1>2, RIPAssumption DEF StartedInv, NearerInv, ComingInv, TimerInv
  <1> QED BY Zenon, <1>1, <1>2, <1>3 DEF CalmInv, RouteInv

\* In every network, of any size, in which one message is lost at most: until an
\* interface goes down or two handlers add the same entry, the costs fall along
\* the next hops of every route.
THEOREM RoutesHaveNoLoops ==
  ASSUME Calm PROVE Spec => []NoLoops
  <1>1. Init => RouteInv BY Zenon, InitRoutes
  <1>2. RouteInv /\ [Next]_vars => RouteInv' BY Zenon, NextRoutes
  <1>3. RouteInv => NoLoops
    <2>1. ASSUME CalmInv, NEW n \in Nodes \ {Owner}, table[n].Cost < INFINITY
          PROVE  table[table[n].NextHop].Cost < table[n].Cost
      <3>1. INFINITY \in Nat /\ (table[n].Cost # INFINITY => table[n] # NoEntry) BY Zenon, <2>1, CalmIs
      <3>2. table[n] # NoEntry BY <2>1, <3>1
      <3> QED BY Zenon, <2>1, <3>2, HopTells
    <2> QED BY Zenon, <2>1 DEF NoLoops, RouteInv
  <1> QED BY <1>1, <1>2, <1>3, PTL DEF Spec

\* In such a network, until then, no route gets worse or ends: the timer of a route
\* that has missed one update is restarted by the next.
THEOREM RoutesRemain ==
  ASSUME Calm PROVE Spec => RoutesStay
  <1>1. Init => RouteInv BY Zenon, InitRoutes
  <1>2. RouteInv /\ [Next]_vars => RouteInv' BY Zenon, NextRoutes
  <1>3. ASSUME RouteInv, [Next]_vars
        PROVE  [Undisturbed' =>
                   \A n \in Nodes : table[n].Cost < INFINITY => table'[n].Cost <= table[n].Cost]_vars
    BY Zenon, <1>3, StaysUndisturbed, NextCalm DEF NoneWorse, RouteInv
  <1> QED BY <1>1, <1>2, <1>3, PTL DEF Spec, RoutesStay
=============================================================================
