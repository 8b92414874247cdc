--------------------------- MODULE HandshakeProofs ---------------------------
(***************************************************************************)
(* Opening connections, for every number of clients, of packets lost or    *)
(* delivered twice, and of TCBs: an established connection is queued until *)
(* Accept returns it, and once; both ends have the same TCB in mind; and   *)
(* WaitForAckReceiver leaves an established connection alone once it has   *)
(* its token.                                                              *)
(***************************************************************************)
EXTENDS Handshake, TLAPS

-----------------------------------------------------------------------------
(* The inductive invariant.                                                *)

ClientTCB == [State : {"CLOSED", "SYN_SENT", "ESTABLISHED"}, peer : {0} \cup Indices,
              connect : {"no", "select", "done", "error", "unreachable", "hangs"},
              offers : SUBSET Indices, RetransmitCounter : 0 .. MAX_RETRANSMISSIONS]

ServerTCB == [State : {"SYN_RECEIVED", "ESTABLISHED", "CLOSED"}, token : Nat,
              RetransmitCounter : 0 .. MAX_RETRANSMISSIONS,
              wait : {"select", "resend", "exit"}, waitTimeout : BOOLEAN]

Listener == [scenario : Scenarios, inTable : BOOLEAN, Cancelled : BOOLEAN,
             PendingConnections : Seq(Conns), mutex : {"free", "leaked"},
             close : {"no", "signal", "delete", "done"}, crashed : BOOLEAN,
             appending : SUBSET [c : Conns, old : Seq(Conns)], signals : Nat]

Acceptor == [pc : {"call", "lock", "asleep", "woken", "exit"}, conns : Seq(Conns)]

PacketSet == [c : Conns, flags : {"SYN", "SYN|ACK", "ACK"}, k : {0} \cup Indices,
              at : {"wire"} \cup ConnStates, on : Nat]

\* a handler finds its TCB at the end it works for
Routed(m) ==
    /\ m.flags = "SYN|ACK" => m.k \in 1 .. Len(server[m.c]) /\ m.at \notin {"LISTEN", "SYN_RECEIVED"}
    /\ m.flags # "SYN|ACK" => m.at # "SYN_SENT"
    /\ m.at = "SYN_RECEIVED" => m.on \in 1 .. Len(server[m.c])

TypeInv ==
    /\ client \in [Conns -> ClientTCB]
    /\ server \in [Conns -> Seq(ServerTCB)] /\ table \in [Conns -> Nat]
    /\ \A c \in Conns : Len(server[c]) <= MaxTCBs /\ table[c] <= Len(server[c])
    /\ listener \in Listener /\ accept \in Acceptor
    /\ net \subseteq PacketSet /\ \A m \in net : Routed(m)

StateOf(c, k) == server[c][k].State
TCBs(c) == 1 .. Len(server[c])

\* only the clients of the scenario are met
MemberInv ==
    LET members == listener.scenario.connect
    IN  /\ \A m \in net : m.c \in members
        /\ \A c \in Conns : TCBs(c) # {} \/ client[c].connect # "no" => c \in members
        /\ \A a \in listener.appending : a.c \in members /\ Range(a.old) \subseteq members
        /\ Range(listener.PendingConnections) \cup Range(accept.conns) \subseteq members
        /\ listener.appending # {} => Unlucky("append")

LostInv ==
    \A c \in Conns : \A k \in TCBs(c) :
        StateOf(c, k) = "ESTABLISHED" => Queued(c) \/ Accepted(c) \/ listener.crashed

\* a client has one peer from its first SYN|ACK on
PeerInv ==
    /\ \A m \in net : m.at = "wire"
    /\ \A c \in Conns : /\ client[c].connect = "no" => client[c].peer = 0
                        /\ client[c].State = "SYN_SENT"
                             => client[c].peer = 0 /\ client[c].connect \in {"select", "unreachable", "hangs"}
                        /\ client[c].offers \subseteq {client[c].peer}
                        /\ client[c].peer <= Len(server[c])
    /\ \A m \in net : m.flags = "ACK" => client[m.c].connect = "done" /\ client[m.c].peer = m.k
    /\ \A c \in Conns : \A k \in TCBs(c) :
          StateOf(c, k) = "ESTABLISHED" => client[c].connect = "done" /\ client[c].peer = k

Distinct(s) == \A i, j \in 1 .. Len(s) : s[i] = s[j] => i = j

\* a connection that is queued or accepted is past SYN_RECEIVED
OnceInv ==
    /\ Distinct(accept.conns) /\ Distinct(listener.PendingConnections)
    /\ Range(accept.conns) \cap Range(listener.PendingConnections) = {}
    /\ \A c \in Conns : Queued(c) \/ Accepted(c)
                        => client[c].peer \in TCBs(c) /\ StateOf(c, client[c].peer) # "SYN_RECEIVED"
    /\ \A a \in listener.appending :
          a.old = <<>> /\ listener.PendingConnections = <<>> /\ accept.conns = <<>>

\* WaitForAckReceiver waits for the TCB in the table
HeldInv ==
    \A c \in Conns : \A k \in TCBs(c) : server[c][k].wait # "exit" => k = table[c]

\* ... which is not established yet
StayInv ==
    \A c \in Conns : \A k \in TCBs(c) :
        /\ server[c][k].wait \in {"select", "exit"}
        /\ server[c][k].wait = "select" => StateOf(c, k) = "SYN_RECEIVED"

HSInv ==
    /\ TypeInv /\ MemberInv /\ LostInv
    /\ ~Unlucky("dispatch") => PeerInv /\ OnceInv /\ HeldInv
    /\ ~Unlucky("dispatch") /\ ~Unlucky("resend") => StayInv
-----------------------------------------------------------------------------
(* Sequences.                                                              *)

LEMMA AppendIs ==
  ASSUME NEW S, NEW s \in Seq(S), NEW x \in S
  PROVE  /\ Append(s, x) \in Seq(S) /\ Range(Append(s, x)) = Range(s) \cup {x}
         /\ Len(Append(s, x)) = Len(s) + 1 /\ Append(s, x)[Len(s) + 1] = x
         /\ \A i \in 1 .. Len(s) : Append(s, x)[i] = s[i]
  <1>1. /\ Append(s, x) \in Seq(S) /\ Len(s) \in Nat /\ Len(Append(s, x)) = Len(s) + 1
        /\ Append(s, x)[Len(s) + 1] = x /\ \A i \in 1 .. Len(s) : Append(s, x)[i] = s[i]
    OBVIOUS
  <1>2. DOMAIN s = 1 .. Len(s) /\ DOMAIN Append(s, x) = 1 .. Len(s) + 1 BY <1>1
  <1>3. Range(Append(s, x)) \subseteq Range(s) \cup {x}
    <2> SUFFICES ASSUME NEW i \in 1 .. Len(s) + 1
                 PROVE  Append(s, x)[i] \in Range(s) \cup {x}
      BY Zenon, <1>2 DEF Range
    <2>1. CASE i = Len(s) + 1 BY Zenon, <1>1, <2>1
    <2>2. CASE i \in 1 .. Len(s) BY Zenon, <1>1, <1>2, <2>2 DEF Range
    <2> QED BY <1>1, <2>1, <2>2
  <1>4. Range(s) \subseteq Range(Append(s, x))
    <2> SUFFICES ASSUME NEW i \in 1 .. Len(s) PROVE s[i] \in Range(Append(s, x)) BY Zenon, <1>2 DEF Range
    <2>1. i \in 1 .. Len(s) + 1 BY <1>1
    <2> QED BY Zenon, <1>1, <1>2, <2>1 DEF Range
  <1>5. x \in Range(Append(s, x))
    <2>1. Len(s) + 1 \in 1 .. Len(s) + 1 BY <1>1
    <2> QED BY Zenon, <1>1, <1>2, <2>1 DEF Range
  <1> QED BY Zenon, <1>1, <1>3, <1>4, <1>5

LEMMA EmptyIs ==
  ASSUME NEW S, NEW s \in Seq(S), Range(s) = {}
  PROVE  s = <<>>
  <1>1. Len(s) \in Nat /\ DOMAIN s = 1 .. Len(s) OBVIOUS
  <1>2. 1 \notin 1 .. Len(s) BY Zenon, <1>1 DEF Range
  <1>3. Len(s) = 0 BY <1>1, <1>2
  <1> QED BY <1>3

LEMMA AppendDistinct ==
  ASSUME NEW S, NEW s \in Seq(S), NEW x \in S, Distinct(s), x \notin Range(s)
  PROVE  Distinct(Append(s, x))
  <1> DEFINE t == Append(s, x)
  <1>1. /\ Len(t) = Len(s) + 1 /\ t[Len(s) + 1] = x /\ \A i \in 1 .. Len(s) : t[i] = s[i]
        /\ Len(s) \in Nat
    BY AppendIs
  <1>2. \A i \in 1 .. Len(s) : t[i] # x BY <1>1 DEF Range
  <1> HIDE DEF t
  <1>3. ASSUME NEW i \in 1 .. Len(t), NEW j \in 1 .. Len(t), t[i] = t[j] PROVE i = j
    <2>1. i \in 1 .. Len(s) \/ i = Len(s) + 1 BY <1>1
    <2>2. j \in 1 .. Len(s) \/ j = Len(s) + 1 BY <1>1
    <2> QED BY Zenon, <1>1, <1>2, <1>3, <2>1, <2>2 DEF Distinct
  <1>4. Distinct(t) BY Zenon, <1>3 DEF Distinct
  <1> QED BY Zenon, <1>4 DEF t

LEMMA PopIs ==
  ASSUME NEW S, NEW s \in Seq(S), s # <<>>
  PROVE  /\ Head(s) \in S /\ Tail(s) \in Seq(S)
         /\ Range(s) = {Head(s)} \cup Range(Tail(s))
         /\ Distinct(s) => Distinct(Tail(s)) /\ Head(s) \notin Range(Tail(s))
  <1> DEFINE t == Tail(s)
  <1>1. /\ Head(s) \in S /\ t \in Seq(S) /\ Len(s) \in Nat /\ Len(s) >= 1 /\ Head(s) = s[1]
        /\ Len(t) = Len(s) - 1 /\ \A i \in 1 .. Len(t) : t[i] = s[i + 1]
    OBVIOUS
  <1> HIDE DEF t
  <1>2. DOMAIN s = 1 .. Len(s) /\ DOMAIN t = 1 .. Len(t) BY <1>1
  <1>3. Range(s) \subseteq {Head(s)} \cup Range(t)
    <2> SUFFICES ASSUME NEW i \in 1 .. Len(s), i # 1 PROVE s[i] \in Range(t) BY <1>1, <1>2 DEF Range
    <2>1. i - 1 \in 1 .. Len(t) /\ (i - 1) + 1 = i BY <1>1
    <2>2. t[i - 1] = s[i] BY Zenon, <1>1, <2>1
    <2> QED BY Zenon, <1>2, <2>1, <2>2 DEF Range
  <1>4. {Head(s)} \cup Range(t) \subseteq Range(s)
    <2>1. 1 \in 1 .. Len(s) BY <1>1
    <2>2. ASSUME NEW i \in 1 .. Len(t) PROVE t[i] \in Range(s)
      <3>1. i + 1 \in 1 .. Len(s) BY <1>1
      <3> QED BY Zenon, <1>1, <1>2, <3>1 DEF Range
    <2> QED BY Zenon, <1>1, <1>2, <2>1, <2>2 DEF Range
  <1>5. ASSUME Distinct(s) PROVE Distinct(t) /\ Head(s) \notin Range(t)
    <2>1. ASSUME NEW i \in 1 .. Len(t), NEW j \in 1 .. Len(t), t[i] = t[j] PROVE i = j
      <3>1. i + 1 \in 1 .. Len(s) /\ j + 1 \in 1 .. Len(s) BY <1>1
      <3>2. s[i + 1] = s[j + 1] BY Zenon, <1>1, <2>1
      <3>3. i + 1 = j + 1 BY Zenon, <1>5, <3>1, <3>2 DEF Distinct
      <3> QED BY <3>3
    <2>2. ASSUME NEW i \in 1 .. Len(t), t[i] = Head(s) PROVE FALSE
      <3>1. i + 1 \in 1 .. Len(s) /\ 1 \in 1 .. Len(s) /\ i + 1 # 1 BY <1>1
      <3>2. s[i + 1] = s[1] BY Zenon, <1>1, <2>2
      <3> QED BY Zenon, <1>5, <3>1, <3>2 DEF Distinct
    <2> QED BY Zenon, <1>2, <2>1, <2>2 DEF Distinct, Range
  <1> QED BY Zenon, <1>1, <1>3, <1>4, <1>5 DEF t
-----------------------------------------------------------------------------
(* What a step that leaves a part alone keeps.                             *)

LEMMA Counts == /\ MAX_RETRANSMISSIONS \in Nat /\ MaxTCBs \in Nat /\ Faults \in Nat
                /\ Scenarios \subseteq Scenario
  BY Zenon, HandshakeAssumption

\* The packets in flight keep their TCBs.
LEMMA NetKept ==
  ASSUME TypeInv, \A c \in Conns : Len(server'[c]) \in Nat /\ Len(server[c]) <= Len(server'[c]),
         net' \subseteq net
  PROVE  net' \subseteq PacketSet /\ \A m \in net' : Routed(m)'
  <1>1. net' \subseteq PacketSet BY Zenon DEF TypeInv
  <1>2. ASSUME NEW m \in net' PROVE Routed(m)'
    <2>1. Routed(m) /\ m.c \in Conns BY Zenon DEF TypeInv, PacketSet
    <2>2. Len(server[m.c]) \in Nat BY <2>1 DEF TypeInv
    <2>3. \A n : n \in 1 .. Len(server[m.c]) => n \in 1 .. Len(server'[m.c]) BY <2>1, <2>2
    <2> QED BY Zenon, <2>1, <2>3 DEF Routed
  <1> QED BY Zenon, <1>1, <1>2

\* A packet that is sent is on the wire.
LEMMA NetSent ==
  ASSUME TypeInv, \A c \in Conns : Len(server'[c]) \in Nat /\ Len(server[c]) <= Len(server'[c]),
         NEW m \in PacketSet, m.at = "wire", m.flags = "SYN|ACK" => m.k \in 1 .. Len(server'[m.c]),
         NEW rest \in SUBSET net, net' = rest \cup {m}
  PROVE  net' \subseteq PacketSet /\ \A n \in net' : Routed(n)'
  <1>1. net' \subseteq PacketSet BY Zenon DEF TypeInv
  <1>2. ASSUME NEW n \in rest PROVE Routed(n)'
    <2>1. Routed(n) /\ n.c \in Conns BY Zenon DEF TypeInv, PacketSet
    <2>2. Len(server[n.c]) \in Nat BY <2>1 DEF TypeInv
    <2>3. \A j : j \in 1 .. Len(server[n.c]) => j \in 1 .. Len(server'[n.c]) BY <2>1, <2>2
    <2> QED BY Zenon, <2>1, <2>3 DEF Routed
  <1>3. Routed(m)' BY Zenon DEF Routed
  <1> QED BY Zenon, <1>1, <1>2, <1>3

LEMMA PacketIs ==
  ASSUME NEW c \in Conns, NEW flags \in {"SYN", "SYN|ACK", "ACK"}, NEW k \in {0} \cup Indices
  PROVE  /\ Packet(c, flags, k) \in PacketSet
         /\ Packet(c, flags, k).c = c /\ Packet(c, flags, k).flags = flags
         /\ Packet(c, flags, k).k = k /\ Packet(c, flags, k).at = "wire"
  BY Zenon DEF Packet, PacketSet

\* A step of a client that sends at most one packet, of no new connection.
ClientStep(c) ==
    /\ UNCHANGED serverVars
    /\ client'[c] \in ClientTCB
    /\ client' = [client EXCEPT ![c] = client'[c]]
    /\ c \in listener.scenario.connect /\ \A m \in net' : m \in net \/ m.c = c

LEMMA ClientFrame ==
  ASSUME HSInv, NEW c \in Conns, ClientStep(c), net' \subseteq PacketSet, \A m \in net' : Routed(m)',
         ~Unlucky("dispatch") => PeerInv' /\ (client'[c].peer = client[c].peer \/ client[c].peer = 0)
  PROVE  HSInv'
  <1> USE DEF serverVars, ClientStep
  <1>1. TypeInv' BY Zenon DEF HSInv, TypeInv
  <1>2. MemberInv'
    <2>1. MemberInv BY Zenon DEF HSInv
    <2>2. \A d \in Conns : d = c \/ client'[d] = client[d] BY Zenon DEF HSInv, TypeInv
    <2>3. \A d \in Conns : TCBs(d)' # {} \/ client'[d].connect # "no" => d \in listener.scenario.connect
      BY Zenon, <2>1, <2>2 DEF MemberInv, TCBs
    <2>4. \A m \in net' : m.c \in listener.scenario.connect BY Zenon, <2>1 DEF MemberInv
    <2> QED BY Zenon, <2>1, <2>3, <2>4 DEF MemberInv, TCBs, Unlucky
  <1>3. LostInv' BY Zenon DEF HSInv, LostInv, TCBs, StateOf, Queued, Accepted
  <1>4. ASSUME ~Unlucky("dispatch") PROVE OnceInv'
    <2>1. OnceInv BY Zenon, <1>4 DEF HSInv
    <2>2. ASSUME NEW d \in Conns, Queued(d) \/ Accepted(d)
          PROVE  /\ client'[d].peer \in TCBs(d)
                 /\ StateOf(d, client'[d].peer) # "SYN_RECEIVED"
      <3>1. client[d].peer \in TCBs(d) /\ StateOf(d, client[d].peer) # "SYN_RECEIVED"
        BY Zenon, <2>1, <2>2 DEF OnceInv
      <3>2. client[d].peer # 0 BY <3>1 DEF TCBs
      <3>3. client'[d].peer = client[d].peer
        <4>1. CASE d = c BY Zenon, <1>4, <3>2, <4>1
        <4>2. CASE d # c BY Zenon, <4>2 DEF HSInv, TypeInv
        <4> QED BY Zenon, <4>1, <4>2
      <3> QED BY Zenon, <3>1, <3>3
    <2>3. \A d \in Conns : (Queued(d)' <=> Queued(d)) /\ (Accepted(d)' <=> Accepted(d))
      BY Zenon DEF Queued, Accepted
    <2> QED BY Zenon, <2>1, <2>2, <2>3 DEF OnceInv, TCBs, StateOf
  <1>h. ASSUME ~Unlucky("dispatch") PROVE HeldInv'
    BY Zenon, <1>h DEF HSInv, HeldInv, TCBs
  <1>5. ASSUME ~Unlucky("dispatch"), ~Unlucky("resend") PROVE StayInv'
    BY Zenon, <1>5 DEF HSInv, StayInv, TCBs, StateOf
  <1>6. \A race : Unlucky(race)' <=> Unlucky(race) BY Zenon DEF Unlucky
  <1> QED BY Zenon, <1>1, <1>2, <1>3, <1>4, <1>h, <1>5, <1>6 DEF HSInv

\* What keeps PeerInv: a client that has returned from Connect keeps its peer.
LEMMA PeerKept ==
  ASSUME TypeInv, PeerInv, NEW c \in Conns, ClientStep(c), NEW t, t = client'[c],
         \A m \in net' : /\ m.at = "wire"
                         /\ m.flags = "ACK" => m \in net \/ (m.c = c /\ t.connect = "done" /\ t.peer = m.k),
         t.connect = "no" => t.peer = 0,
         t.State = "SYN_SENT" => t.peer = 0 /\ t.connect \in {"select", "unreachable", "hangs"},
         t.offers \subseteq {t.peer}, t.peer <= Len(server[c]),
         client[c].connect = "done" => t.connect = "done" /\ t.peer = client[c].peer,
         net' \subseteq PacketSet
  PROVE  PeerInv'
  <1> USE DEF ClientStep, serverVars
  <1>1. client'[c] = t /\ \A d \in Conns : d # c => client'[d] = client[d] BY Zenon DEF TypeInv
  <1>2. ASSUME NEW d \in Conns
        PROVE  /\ client'[d].connect = "no" => client'[d].peer = 0
               /\ client'[d].State = "SYN_SENT"
                    => client'[d].peer = 0 /\ client'[d].connect \in {"select", "unreachable", "hangs"}
               /\ client'[d].offers \subseteq {client'[d].peer}
               /\ client'[d].peer <= Len(server'[d])
    <2>1. CASE d = c BY Zenon, <1>1, <2>1
    <2>2. CASE d # c BY <1>1, <2>2 DEF PeerInv
    <2> QED BY Zenon, <2>1, <2>2
  <1>3. ASSUME NEW m \in net', m.flags = "ACK"
        PROVE  client'[m.c].connect = "done" /\ client'[m.c].peer = m.k
    <2>0. m.c \in Conns BY Zenon DEF PacketSet
    <2>1. CASE m.c = c /\ t.connect = "done" /\ t.peer = m.k BY Zenon, <1>1, <2>1
    <2>2. CASE m \in net
      <3>1. client[m.c].connect = "done" /\ client[m.c].peer = m.k BY Zenon, <1>3, <2>2 DEF PeerInv
      <3> QED BY Zenon, <1>1, <2>0, <3>1
    <2> QED BY Zenon, <1>3, <2>1, <2>2
  <1>4. ASSUME NEW d \in Conns, NEW k \in TCBs(d), StateOf(d, k) = "ESTABLISHED"
        PROVE  client'[d].connect = "done" /\ client'[d].peer = k
    <2>1. client[d].connect = "done" /\ client[d].peer = k BY Zenon, <1>4 DEF PeerInv
    <2> QED BY Zenon, <1>1, <2>1
  <1> QED BY Zenon, <1>2, <1>3, <1>4 DEF PeerInv, TCBs, StateOf

\* The facts about a client that its actions need.
LEMMA ClientIs ==
  ASSUME HSInv, NEW c \in Conns
  PROVE  /\ client[c] \in ClientTCB /\ client[c].RetransmitCounter \in 0 .. MAX_RETRANSMISSIONS
         /\ Len(server[c]) \in Nat /\ client[c].peer \in Nat /\ client[c].offers \subseteq Indices
         /\ ~Unlucky("dispatch")
              => /\ PeerInv /\ client[c].peer <= Len(server[c]) /\ client[c].offers \subseteq {client[c].peer}
                 /\ client[c].connect = "no" => client[c].peer = 0
                 /\ client[c].State = "SYN_SENT"
                      => client[c].peer = 0 /\ client[c].connect \in {"select", "unreachable", "hangs"}
  BY DEF HSInv, TypeInv, ClientTCB, PeerInv, Indices

-----------------------------------------------------------------------------
(* The steps of Connect.                                                   *)

LEMMA ConnectInv ==
  ASSUME HSInv, NEW c \in Conns, Connect(c) \/ ConnectError(c)
  PROVE  HSInv'
  <1> DEFINE t == client'[c]
             m == Packet(c, "SYN", 0)
  <1>1. UNCHANGED serverVars /\ c \in listener.scenario.connect /\ client[c].connect = "no"
    BY Zenon DEF Connect, ConnectError
  <1>2. PICK how \in {"select", "unreachable"} :
           client' = [client EXCEPT ![c].State = "SYN_SENT", ![c].connect = how]
    BY Zenon DEF Connect, ConnectError
  <1>3. /\ t \in ClientTCB /\ client' = [client EXCEPT ![c] = t] /\ t.connect = how
        /\ t.State = "SYN_SENT" /\ t.peer = client[c].peer /\ t.offers = client[c].offers
    BY ZenonT(90), <1>2, ClientIs DEF HSInv, TypeInv, ClientTCB
  <1> HIDE DEF t
  <1>4. net' = net \/ net' = net \cup {m} BY Zenon DEF Connect, ConnectError
  <1>5. m \in PacketSet /\ m.c = c /\ m.flags = "SYN" /\ m.at = "wire" BY PacketIs
  <1> HIDE DEF m
  <1>6. ClientStep(c) BY Zenon, <1>1, <1>3, <1>4, <1>5 DEF ClientStep, t
  <1>7. TypeInv /\ \A d \in Conns : Len(server'[d]) \in Nat /\ Len(server[d]) <= Len(server'[d])
    BY <1>1 DEF HSInv, TypeInv, serverVars
  <1>8. net' \subseteq PacketSet /\ \A n \in net' : Routed(n)'
    <2>1. CASE net' = net BY Zenon, <1>7, <2>1, NetKept
    <2>2. CASE net' = net \cup {m} BY Zenon, <1>5, <1>7, <2>2, NetSent
    <2> QED BY Zenon, <1>4, <2>1, <2>2
  <1>9. ASSUME ~Unlucky("dispatch") PROVE PeerInv'
    <2>1. PeerInv /\ client[c].peer <= Len(server[c]) /\ client[c].offers \subseteq {client[c].peer}
      BY Zenon, <1>9, ClientIs
    <2>2. \A n \in net' : n.at = "wire" /\ (n.flags = "ACK" => n \in net)
      BY <2>1, <1>4, <1>5 DEF PeerInv
    <2>3. client[c].peer = 0 BY Zenon, <1>1, <1>9, ClientIs
    <2> QED BY Zenon, <1>1, <1>3, <1>6, <1>7, <1>8, <2>1, <2>2, <2>3, PeerKept DEF t
  <1> QED BY Zenon, <1>3, <1>6, <1>8, <1>9, ClientFrame DEF t

LEMMA ConnectResendInv ==
  ASSUME HSInv, NEW c \in Conns, ConnectResend(c) \/ ConnectTimesOut(c) \/ ConnectHangs(c)
  PROVE  HSInv'
  <1> DEFINE t == client'[c]
             m == Packet(c, "SYN", 0)
  <1>1. UNCHANGED serverVars /\ client[c].connect \in {"select", "unreachable"}
    BY Zenon DEF ConnectResend, ConnectTimesOut, ConnectHangs
  <1>2. /\ t \in ClientTCB /\ client' = [client EXCEPT ![c] = t] /\ t.connect # "no"
        /\ t.State \in {client[c].State, "CLOSED"} /\ t.peer = client[c].peer
        /\ t.offers = client[c].offers /\ (t.State = "SYN_SENT" => t.connect \in {"select", "hangs"})
    <2>1. CASE ConnectResend(c)
      <3>1. client[c].RetransmitCounter + 1 \in 0 .. MAX_RETRANSMISSIONS
        BY SMTT(30), <2>1, ClientIs, Counts DEF ConnectResend
      <3>2. client' = [client EXCEPT ![c].RetransmitCounter = client[c].RetransmitCounter + 1]
        BY Zenon, <2>1 DEF ConnectResend, HSInv, TypeInv
      <3>3. client[c].connect = "select" BY Zenon, <2>1 DEF ConnectResend
      <3> QED BY Zenon, <3>1, <3>2, <3>3, ClientIs DEF HSInv, TypeInv, ClientTCB
    <2>2. CASE ConnectTimesOut(c)
      BY ZenonT(90), <2>2, ClientIs DEF ConnectTimesOut, HSInv, TypeInv, ClientTCB
    <2>3. CASE ConnectHangs(c)
      BY ZenonT(90), <2>3, ClientIs DEF ConnectHangs, HSInv, TypeInv, ClientTCB
    <2> QED BY Zenon, <2>1, <2>2, <2>3
  <1> HIDE DEF t
  <1>3. net' = net \/ net' = net \cup {m} BY Zenon DEF ConnectResend, ConnectTimesOut, ConnectHangs
  <1>4. m \in PacketSet /\ m.c = c /\ m.flags = "SYN" /\ m.at = "wire" BY PacketIs
  <1> HIDE DEF m
  <1>5. c \in listener.scenario.connect BY Zenon, <1>1 DEF HSInv, MemberInv
  <1>6. ClientStep(c) BY Zenon, <1>1, <1>2, <1>3, <1>4, <1>5 DEF ClientStep, t
  <1>7. TypeInv /\ \A d \in Conns : Len(server'[d]) \in Nat /\ Len(server[d]) <= Len(server'[d])
    BY <1>1 DEF HSInv, TypeInv, serverVars
  <1>8. net' \subseteq PacketSet /\ \A n \in net' : Routed(n)'
    <2>1. CASE net' = net BY Zenon, <1>7, <2>1, NetKept
    <2>2. CASE net' = net \cup {m} BY Zenon, <1>4, <1>7, <2>2, NetSent
    <2> QED BY Zenon, <1>3, <2>1, <2>2
  <1>9. ASSUME ~Unlucky("dispatch") PROVE PeerInv'
    <2>1. /\ PeerInv /\ client[c].peer <= Len(server[c]) /\ client[c].offers \subseteq {client[c].peer}
          /\ client[c].State = "SYN_SENT" => client[c].peer = 0
      BY Zenon, <1>9, ClientIs
    <2>2. \A n \in net' : n.at = "wire" /\ (n.flags = "ACK" => n \in net)
      BY <2>1, <1>3, <1>4 DEF PeerInv
    <2> QED BY <1>1, <1>2, <1>6, <1>7, <1>8, <2>1, <2>2, PeerKept DEF t
  <1> QED BY Zenon, <1>2, <1>6, <1>8, <1>9, ClientFrame DEF t

LEMMA ConnectReturnsInv ==
  ASSUME HSInv, NEW c \in Conns, ConnectReturns(c)
  PROVE  HSInv'
  <1> DEFINE t == client'[c]
  <1>1. PICK k \in client[c].offers :
           /\ client' = [client EXCEPT ![c].RetransmitCounter = 0, ![c].connect = "done",
                                       ![c].offers = client[c].offers \ {k}]
           /\ net' = net \cup {Packet(c, "ACK", k)}
    BY Zenon DEF ConnectReturns, HSInv, TypeInv
  <1>2. UNCHANGED serverVars /\ client[c].connect = "select" BY Zenon DEF ConnectReturns
  <1>3. k \in Indices BY Zenon, <1>1, ClientIs
  <1>4. /\ t \in ClientTCB /\ client' = [client EXCEPT ![c] = t] /\ t.connect = "done"
        /\ t.State = client[c].State /\ t.peer = client[c].peer /\ t.offers \subseteq client[c].offers
    <2>1. PICK r : r = client[c] BY Zenon
    <2>2. PICK u : u = [r EXCEPT !.RetransmitCounter = 0, !.connect = "done", !.offers = r.offers \ {k}]
      BY Zenon
    <2>3. r \in ClientTCB /\ 0 \in 0 .. MAX_RETRANSMISSIONS BY <2>1, ClientIs, Counts
    <2>4. /\ u \in ClientTCB /\ u.connect = "done" /\ u.State = r.State /\ u.peer = r.peer
          /\ u.offers \subseteq r.offers
      BY Zenon, <2>2, <2>3 DEF ClientTCB
    <2>5. client' = [client EXCEPT ![c] = u] BY Zenon, <1>1, <2>1, <2>2
    <2>6. t = u BY Zenon, <2>5 DEF HSInv, TypeInv
    <2> QED BY Zenon, <2>1, <2>4, <2>5, <2>6
  <1> HIDE DEF t
  <1>5. PICK m : m = Packet(c, "ACK", k) BY Zenon
  <1>6. m \in PacketSet /\ m.c = c /\ m.flags = "ACK" /\ m.at = "wire" /\ m.k = k /\ net' = net \cup {m}
    BY <1>1, <1>3, <1>5, PacketIs
  <1>7. c \in listener.scenario.connect BY Zenon, <1>2 DEF HSInv, MemberInv
  <1>8. ClientStep(c) BY Zenon, <1>2, <1>4, <1>6, <1>7 DEF ClientStep, t
  <1>9. TypeInv /\ \A d \in Conns : Len(server'[d]) \in Nat /\ Len(server[d]) <= Len(server'[d])
    BY <1>2 DEF HSInv, TypeInv, serverVars
  <1>10. net' \subseteq PacketSet /\ \A n \in net' : Routed(n)' BY Zenon, <1>6, <1>9, NetSent
  <1>11. ASSUME ~Unlucky("dispatch") PROVE PeerInv'
    <2>1. /\ PeerInv /\ client[c].peer <= Len(server[c]) /\ client[c].offers \subseteq {client[c].peer}
          /\ client[c].State = "SYN_SENT" => client[c].peer = 0
      BY Zenon, <1>11, ClientIs
    <2>2. client[c].peer = k BY Zenon, <2>1, <1>1
    <2>3. \A n \in net' : /\ n.at = "wire"
                          /\ n.flags = "ACK" => n \in net \/ (n.c = c /\ t.connect = "done" /\ t.peer = n.k)
      BY <1>4, <1>6, <2>1, <2>2 DEF PeerInv
    <2>4. t.State # "SYN_SENT" BY <1>3, <1>4, <2>1, <2>2, Counts DEF Indices
    <2>5. t.offers \subseteq {t.peer} /\ t.peer <= Len(server[c]) BY Zenon, <1>4, <2>1
    <2> QED BY Zenon, <1>2, <1>4, <1>8, <1>9, <1>10, <2>1, <2>3, <2>4, <2>5, PeerKept DEF t
  <1> QED BY Zenon, <1>4, <1>8, <1>10, <1>11, ClientFrame DEF t

-----------------------------------------------------------------------------
(* The handlers. Chosen: why ReceivePacket calls the one of state for m.   *)

Chosen(state, m, k) ==
    /\ m \in net
    /\ state = "SYN_SENT" => /\ m.flags = "SYN|ACK"
                             /\ ~Unlucky("dispatch") => client[m.c].State = "SYN_SENT"
    /\ state = "LISTEN" => /\ m.flags # "SYN|ACK"
                           /\ ~Unlucky("dispatch") => table[m.c] = 0
    /\ state = "SYN_RECEIVED"
         => /\ m.flags # "SYN|ACK" /\ k \in TCBs(m.c)
            /\ ~Unlucky("dispatch") => k = table[m.c] /\ StateOf(m.c, k) = "SYN_RECEIVED"

LEMMA ChosenAtOnce ==
  ASSUME HSInv, NEW m \in net
  PROVE  Chosen(Lookup(m), m, table[m.c])
  <1>1. /\ m.c \in Conns /\ table[m.c] \in Nat /\ table[m.c] <= Len(server[m.c])
        /\ Len(server[m.c]) \in Nat
    BY DEF HSInv, TypeInv, PacketSet
  <1>2. CASE m.flags = "SYN|ACK"
    <2>1. Lookup(m) = client[m.c].State /\ client[m.c].State \in {"CLOSED", "SYN_SENT", "ESTABLISHED"}
      BY Zenon, <1>1, <1>2 DEF Lookup, HSInv, TypeInv, ClientTCB
    <2> QED BY Zenon, <1>2, <2>1 DEF Chosen
  <1>3. CASE m.flags # "SYN|ACK" /\ table[m.c] # 0
    <2>1. table[m.c] \in TCBs(m.c) BY <1>1, <1>3 DEF TCBs
    <2>2. server[m.c][table[m.c]] \in ServerTCB BY <1>1, <2>1 DEF HSInv, TypeInv, TCBs
    <2>3. /\ Lookup(m) = StateOf(m.c, table[m.c])
          /\ Lookup(m) \in {"SYN_RECEIVED", "ESTABLISHED", "CLOSED"}
      BY Zenon, <1>3, <2>2 DEF Lookup, StateOf, ServerTCB
    <2> QED BY Zenon, <1>3, <2>1, <2>3 DEF Chosen
  <1>4. CASE m.flags # "SYN|ACK" /\ table[m.c] = 0
    BY Zenon, <1>4 DEF Lookup, Chosen
  <1> QED BY Zenon, <1>2, <1>3, <1>4

LEMMA ChosenBefore ==
  ASSUME HSInv, NEW m \in net, m.at # "wire"
  PROVE  Chosen(m.at, m, m.on)
  BY Zenon DEF HSInv, TypeInv, Routed, PeerInv, Chosen, TCBs

LEMMA SynSentInv ==
  ASSUME HSInv, NEW m, NEW k, Chosen("SYN_SENT", m, k), NEW rest \in SUBSET net,
         HandleStateSynSent(m, rest)
  PROVE  HSInv'
  <1> DEFINE c == m.c
             t == client'[c]
  <1>1. /\ m \in net /\ m.flags = "SYN|ACK" /\ c \in Conns /\ c \in listener.scenario.connect
        /\ m.k \in 1 .. Len(server[c]) /\ Len(server[c]) \in Nat /\ Len(server[c]) <= MaxTCBs
    BY DEF Chosen, HSInv, TypeInv, Routed, PacketSet, MemberInv
  <1> HIDE DEF c
  <1>2. UNCHANGED serverVars /\ net' = rest BY Zenon DEF HandleStateSynSent
  <1>3. m.k \in Indices BY <1>1, Counts DEF Indices
  <1>4. \/ client' = [client EXCEPT ![c].State = "ESTABLISHED", ![c].peer = m.k,
                                    ![c].offers = client[c].offers \cup {m.k}]
        \/ client[c].peer # 0 /\ UNCHANGED client
    BY Zenon, <1>1 DEF HandleStateSynSent, c, HSInv, TypeInv
  <1>5. t \in ClientTCB /\ client' = [client EXCEPT ![c] = t]
    <2>1. PICK r : r = client[c] BY Zenon
    <2>2. PICK u : u = [r EXCEPT !.State = "ESTABLISHED", !.peer = m.k, !.offers = r.offers \cup {m.k}]
      BY Zenon
    <2>3. r \in ClientTCB BY Zenon, <1>1, <2>1, ClientIs
    <2>4. u \in ClientTCB BY Zenon, <1>3, <2>2, <2>3 DEF ClientTCB
    <2>5. CASE client' = [client EXCEPT ![c] = u] BY Zenon, <1>1, <2>4, <2>5 DEF HSInv, TypeInv
    <2>6. CASE UNCHANGED client BY Zenon, <1>1, <2>1, <2>3, <2>6 DEF HSInv, TypeInv
    <2> QED BY Zenon, <1>4, <2>1, <2>2, <2>5, <2>6
  <1>6. ClientStep(c) BY Zenon, <1>1, <1>2, <1>5 DEF ClientStep
  <1>7. TypeInv /\ \A d \in Conns : Len(server'[d]) \in Nat /\ Len(server[d]) <= Len(server'[d])
    BY <1>2 DEF HSInv, TypeInv, serverVars
  <1>8. net' \subseteq PacketSet /\ \A n \in net' : Routed(n)' BY Zenon, <1>2, <1>7, NetKept
  <1>9. ASSUME ~Unlucky("dispatch") PROVE PeerInv' /\ client[c].peer = 0
    <2>1. /\ PeerInv /\ client[c].offers \subseteq {client[c].peer} /\ client[c].peer = 0
          /\ client[c].offers \subseteq Indices
      BY Zenon, <1>1, <1>9, ClientIs DEF Chosen, c
    <2>2. client[c].offers = {} BY <2>1, Counts DEF Indices
    <2>3. t.State = "ESTABLISHED" /\ t.peer = m.k /\ t.offers = {m.k} /\ t.connect = client[c].connect
      BY <1>1, <1>4, <2>1, <2>2, ClientIs DEF HSInv, TypeInv, ClientTCB
    <2>4. client[c].connect \notin {"no", "done"} BY Zenon, <1>1, <1>9, ClientIs DEF Chosen, c
    <2>5. \A n \in net' : n.at = "wire" /\ (n.flags = "ACK" => n \in net) BY Zenon, <1>2, <2>1 DEF PeerInv
    <2>6. PeerInv' BY <1>1, <1>6, <1>7, <1>8, <2>1, <2>3, <2>4, <2>5, PeerKept
    <2> QED BY Zenon, <2>1, <2>6
  <1> QED BY Zenon, <1>1, <1>6, <1>8, <1>9, ClientFrame
\* A step that moves packets only.
LEMMA NetFrame ==
  ASSUME HSInv, UNCHANGED <<client, serverVars>>, net' \subseteq PacketSet, \A n \in net' : Routed(n)',
         \A n \in net' : /\ n.c \in listener.scenario.connect
                         /\ ~Unlucky("dispatch") => n.at = "wire" /\ (n.flags = "ACK" => n \in net)
  PROVE  HSInv'
  <1> USE DEF serverVars
  <1>1. TypeInv' BY Zenon DEF HSInv, TypeInv
  <1>2. MemberInv' BY Zenon DEF HSInv, MemberInv, TCBs, Unlucky
  <1>3. LostInv' BY Zenon DEF HSInv, LostInv, TCBs, StateOf, Queued, Accepted
  <1>4. ASSUME ~Unlucky("dispatch") PROVE PeerInv' /\ OnceInv'
    <2>1. PeerInv /\ OnceInv BY Zenon, <1>4 DEF HSInv
    <2>2. PeerInv' BY Zenon, <1>4, <2>1 DEF PeerInv, TCBs, StateOf
    <2>3. OnceInv' BY Zenon, <2>1 DEF OnceInv, TCBs, StateOf, Queued, Accepted
    <2> QED BY Zenon, <2>2, <2>3
  <1>h. ASSUME ~Unlucky("dispatch") PROVE HeldInv'
    BY Zenon, <1>h DEF HSInv, HeldInv, TCBs
  <1>5. ASSUME ~Unlucky("dispatch"), ~Unlucky("resend") PROVE StayInv'
    BY Zenon, <1>5 DEF HSInv, StayInv, TCBs, StateOf
  <1>6. \A race : Unlucky(race)' <=> Unlucky(race) BY Zenon DEF Unlucky
  <1> QED BY Zenon, <1>1, <1>2, <1>3, <1>4, <1>h, <1>5, <1>6 DEF HSInv

LEMMA DropInv ==
  ASSUME HSInv, net' \subseteq net, UNCHANGED <<client, serverVars>>
  PROVE  HSInv'
  <1>1. TypeInv /\ \A d \in Conns : Len(server'[d]) \in Nat /\ Len(server[d]) <= Len(server'[d])
    BY DEF HSInv, TypeInv, serverVars
  <1>2. net' \subseteq PacketSet /\ \A n \in net' : Routed(n)' BY Zenon, <1>1, NetKept
  <1>3. \A n \in net' : /\ n.c \in listener.scenario.connect
                        /\ ~Unlucky("dispatch") => n.at = "wire" /\ (n.flags = "ACK" => n \in net)
    BY Zenon DEF HSInv, MemberInv, PeerInv
  <1> QED BY Zenon, <1>2, <1>3, NetFrame

\* A SYN|ACK of a TCB that is there.
LEMMA AnswerInv ==
  ASSUME HSInv, NEW rest \in SUBSET net, NEW c \in Conns, NEW k \in TCBs(c),
         net' = rest \cup {Packet(c, "SYN|ACK", k)}, UNCHANGED <<client, serverVars>>
  PROVE  HSInv'
  <1>1. TypeInv /\ \A d \in Conns : Len(server'[d]) \in Nat /\ Len(server[d]) <= Len(server'[d])
    BY DEF HSInv, TypeInv, serverVars
  <1>2. k \in Indices /\ k \in 1 .. Len(server'[c]) BY <1>1, Counts DEF TypeInv, TCBs, Indices, serverVars
  <1>3. PICK m : m = Packet(c, "SYN|ACK", k) BY Zenon
  <1>4. m \in PacketSet /\ m.c = c /\ m.flags = "SYN|ACK" /\ m.k = k /\ m.at = "wire"
    BY <1>2, <1>3, PacketIs
  <1>5. net' = rest \cup {m} BY Zenon, <1>3
  <1>6. net' \subseteq PacketSet /\ \A n \in net' : Routed(n)' BY Zenon, <1>1, <1>2, <1>4, <1>5, NetSent
  <1>7. c \in listener.scenario.connect BY Zenon DEF HSInv, MemberInv
  <1>8. \A n \in net' : /\ n.c \in listener.scenario.connect
                        /\ ~Unlucky("dispatch") => n.at = "wire" /\ (n.flags = "ACK" => n \in net)
    BY Zenon, <1>4, <1>5, <1>7 DEF HSInv, MemberInv, PeerInv
  <1> QED BY Zenon, <1>6, <1>8, NetFrame

\* HandleStateListen makes a TCB, in SYN_RECEIVED, and puts it into the table.
LEMMA NewTCBInv ==
  ASSUME HSInv, NEW m, NEW k, Chosen("LISTEN", m, k), NEW rest \in SUBSET net,
         m.flags = "SYN", HandleStateListen(m, rest)
  PROVE  HSInv'
  <1> DEFINE c == m.c
             n == Len(server[c]) + 1
  <1>1. /\ c \in Conns /\ c \in listener.scenario.connect /\ Len(server[c]) \in Nat
        /\ n <= MaxTCBs /\ server[c] \in Seq(ServerTCB)
    BY Counts DEF Chosen, HSInv, TypeInv, PacketSet, MemberInv, HandleStateListen
  <1>2. /\ server' = [server EXCEPT ![c] = Append(server[c], NewTCB)]
        /\ table' = [table EXCEPT ![c] = n]
        /\ net' = rest \cup {Packet(c, "SYN|ACK", n)}
        /\ UNCHANGED <<client, listener, accept>>
    BY Zenon DEF HandleStateListen, HSInv, TypeInv
  <1>t. ~Unlucky("dispatch") => table[c] = 0 BY Zenon DEF Chosen
  <1> HIDE DEF c, n
  <1>n. n = Len(server[c]) + 1 BY Zenon DEF n
  <1>3. PICK u : u = NewTCB BY Zenon
  <1>4. u \in ServerTCB /\ u.State = "SYN_RECEIVED" /\ u.wait = "select"
    BY <1>3, Counts DEF NewTCB, ServerTCB
  <1>5. PICK s : s = Append(server[c], u) BY Zenon
  <1>6. /\ s \in Seq(ServerTCB) /\ Len(s) = n /\ s[n] = u /\ \A i \in 1 .. n - 1 : s[i] = server[c][i]
    BY <1>1, <1>n, <1>4, <1>5, AppendIs
  <1>7. server' = [server EXCEPT ![c] = s] BY Zenon, <1>2, <1>3, <1>5
  <1>8. /\ server'[c] = s /\ table'[c] = n
        /\ \A d \in Conns : d # c => server'[d] = server[d] /\ table'[d] = table[d]
    BY Zenon, <1>1, <1>2, <1>7 DEF HSInv, TypeInv
  <1>9. \A d \in Conns : /\ Len(server[d]) \in Nat /\ Len(server'[d]) \in Nat
                         /\ Len(server[d]) <= Len(server'[d])
                         /\ \A j \in TCBs(d) : j \in TCBs(d)' /\ server'[d][j] = server[d][j]
                         /\ \A j \in TCBs(d)' : j \in TCBs(d) \/ (d = c /\ j = n)
    <2> TAKE d \in Conns
    <2>0. Len(server[d]) \in Nat BY DEF HSInv, TypeInv
    <2>1. CASE d = c BY <1>1, <1>n, <1>6, <1>8, <2>1 DEF TCBs
    <2>2. CASE d # c BY <1>8, <2>0, <2>2 DEF TCBs
    <2> QED BY Zenon, <2>1, <2>2
  <1>10. server'[c][n] = u /\ n \in Indices /\ n \in 1 .. Len(server'[c])
    BY <1>1, <1>n, <1>6, <1>8, Counts DEF Indices
  <1>11. PICK a : a = Packet(c, "SYN|ACK", n) BY Zenon
  <1>12. a \in PacketSet /\ a.c = c /\ a.flags = "SYN|ACK" /\ a.k = n /\ a.at = "wire"
    BY <1>1, <1>10, <1>11, PacketIs
  <1>13. net' = rest \cup {a} BY Zenon, <1>2, <1>11
  <1>14. TypeInv'
    <2>1. net' \subseteq PacketSet /\ \A x \in net' : Routed(x)'
      BY Zenon, <1>9, <1>10, <1>12, <1>13, NetSent DEF HSInv
    <2>2. server' \in [Conns -> Seq(ServerTCB)] BY Zenon, <1>1, <1>6, <1>7 DEF HSInv, TypeInv
    <2>3. table' \in [Conns -> Nat] BY <1>1, <1>2, <1>n DEF HSInv, TypeInv
    <2>4. \A d \in Conns : Len(server'[d]) <= MaxTCBs /\ table'[d] <= Len(server'[d])
      <3> TAKE d \in Conns
      <3>1. CASE d = c BY <1>1, <1>n, <1>6, <1>8, <3>1
      <3>2. CASE d # c BY Zenon, <1>8, <3>2 DEF HSInv, TypeInv
      <3> QED BY Zenon, <3>1, <3>2
    <2> QED BY Zenon, <1>2, <2>1, <2>2, <2>3, <2>4 DEF HSInv, TypeInv
  <1>15. MemberInv'
    <2>1. MemberInv BY Zenon DEF HSInv
    <2>2. \A d \in Conns : TCBs(d)' # {} \/ client'[d].connect # "no" => d \in listener.scenario.connect
      <3> SUFFICES ASSUME NEW d \in Conns, TCBs(d)' # {} \/ client'[d].connect # "no", d # c
                   PROVE  d \in listener.scenario.connect
        BY Zenon, <1>1
      <3> QED BY Zenon, <1>2, <1>8, <2>1 DEF MemberInv, TCBs
    <2>3. \A x \in net' : x.c \in listener.scenario.connect BY Zenon, <1>1, <1>12, <1>13, <2>1 DEF MemberInv
    <2> QED BY Zenon, <1>2, <2>1, <2>2, <2>3 DEF MemberInv, Unlucky
  <1>16. LostInv'
    <2> SUFFICES ASSUME NEW d \in Conns, NEW j \in TCBs(d)', server'[d][j].State = "ESTABLISHED"
                 PROVE  Queued(d) \/ Accepted(d) \/ listener.crashed
      BY Zenon, <1>2 DEF LostInv, StateOf, Queued, Accepted
    <2>1. j \in TCBs(d) /\ server[d][j].State = "ESTABLISHED" BY Zenon, <1>4, <1>9, <1>10
    <2> QED BY Zenon, <2>1 DEF HSInv, LostInv, StateOf
  <1>17. ASSUME ~Unlucky("dispatch") PROVE PeerInv'
    <2>1. PeerInv BY Zenon, <1>17 DEF HSInv
    <2>2. ASSUME NEW d \in Conns, NEW j \in TCBs(d)', server'[d][j].State = "ESTABLISHED"
          PROVE  client[d].connect = "done" /\ client[d].peer = j
      <3>1. j \in TCBs(d) /\ server[d][j].State = "ESTABLISHED" BY Zenon, <1>4, <1>9, <1>10, <2>2
      <3> QED BY Zenon, <2>1, <3>1 DEF PeerInv, StateOf
    <2>3. \A d \in Conns : client[d].peer <= Len(server'[d])
      <3> TAKE d \in Conns
      <3>1. client[d].peer \in Nat BY Zenon, ClientIs
      <3>2. client[d].peer <= Len(server[d]) BY Zenon, <2>1 DEF PeerInv
      <3> QED BY <1>9, <3>1, <3>2
    <2>4. \A x \in net' : x.at = "wire" /\ (x.flags = "ACK" => x \in net)
      BY Zenon, <1>12, <1>13, <2>1 DEF PeerInv
    <2> QED BY ZenonT(90), <1>2, <2>1, <2>2, <2>3, <2>4 DEF PeerInv, StateOf
  <1>18. ASSUME ~Unlucky("dispatch") PROVE OnceInv'
    <2>1. OnceInv BY Zenon, <1>18 DEF HSInv
    <2>2. \A d \in Conns : Queued(d) \/ Accepted(d)
             => client[d].peer \in TCBs(d)' /\ server'[d][client[d].peer].State # "SYN_RECEIVED"
      BY Zenon, <1>9, <2>1 DEF OnceInv, StateOf
    <2> QED BY Zenon, <1>2, <2>1, <2>2 DEF OnceInv, StateOf, Queued, Accepted
  <1>h. ASSUME ~Unlucky("dispatch") PROVE HeldInv'
    <2>1. HeldInv /\ table[c] = 0 BY Zenon, <1>t, <1>h DEF HSInv
    <2>2. ASSUME NEW d \in Conns, NEW j \in TCBs(d)', server'[d][j].wait # "exit" PROVE j = table'[d]
      <3>1. CASE d = c /\ j = n BY Zenon, <1>8, <3>1
      <3>2. CASE j \in TCBs(d)
        <4>1. j # 0 /\ server[d][j].wait # "exit" BY <1>9, <2>2, <3>2 DEF TCBs
        <4>2. j = table[d] BY Zenon, <2>1, <3>2, <4>1 DEF HeldInv
        <4> QED BY Zenon, <1>8, <2>1, <4>1, <4>2
      <3> QED BY Zenon, <1>9, <3>1, <3>2
    <2> QED BY Zenon, <2>2 DEF HeldInv
  <1>19. ASSUME ~Unlucky("dispatch"), ~Unlucky("resend") PROVE StayInv'
    <2>1. StayInv BY Zenon, <1>19 DEF HSInv
    <2>2. ASSUME NEW d \in Conns, NEW j \in TCBs(d)'
          PROVE  /\ server'[d][j].wait \in {"select", "exit"}
                 /\ server'[d][j].wait = "select" => server'[d][j].State = "SYN_RECEIVED"
      <3>1. CASE d = c /\ j = n BY Zenon, <1>4, <1>10, <3>1
      <3>2. CASE j \in TCBs(d) BY Zenon, <1>9, <2>1, <3>2 DEF StayInv, StateOf
      <3> QED BY Zenon, <1>9, <3>1, <3>2
    <2> QED BY Zenon, <2>2 DEF StayInv, StateOf
  <1>20. \A race : Unlucky(race)' <=> Unlucky(race) BY Zenon, <1>2 DEF Unlucky
  <1> QED BY Zenon, <1>14, <1>15, <1>16, <1>17, <1>18, <1>h, <1>19, <1>20 DEF HSInv
-----------------------------------------------------------------------------
(* Steps that change one TCB of the server.                                *)

LEMMA TCBIs ==
  ASSUME HSInv, NEW c \in Conns, NEW k \in TCBs(c)
  PROVE  /\ server[c][k] \in ServerTCB /\ server[c][k].token \in Nat
         /\ server[c][k].RetransmitCounter \in 0 .. MAX_RETRANSMISSIONS
  <1>1. server[c] \in Seq(ServerTCB) /\ k \in 1 .. Len(server[c]) BY Zenon DEF HSInv, TypeInv, TCBs
  <1>2. server[c][k] \in ServerTCB BY <1>1
  <1> QED BY Zenon, <1>2 DEF ServerTCB

\* u takes the place of the k-th TCB of c
Replaced(c, k, u) ==
    /\ server' \in [Conns -> Seq(ServerTCB)]
    /\ \A d \in Conns : Len(server'[d]) = Len(server[d]) /\ TCBs(d)' = TCBs(d)
    /\ server'[c][k] = u
    /\ \A d \in Conns : \A j \in TCBs(d) : d # c \/ j # k => server'[d][j] = server[d][j]

LEMMA ReplacedIs ==
  ASSUME HSInv, NEW c \in Conns, NEW k \in TCBs(c), NEW u \in ServerTCB,
         server' = [server EXCEPT ![c][k] = u]
  PROVE  Replaced(c, k, u)
  <1>1. PICK s : s = server[c] BY Zenon
  <1>2. PICK r : r = [s EXCEPT ![k] = u] BY Zenon
  <1>3. s \in Seq(ServerTCB) /\ k \in 1 .. Len(s) BY Zenon, <1>1 DEF HSInv, TypeInv, TCBs
  <1>4. /\ r \in Seq(ServerTCB) /\ Len(r) = Len(s) /\ r[k] = u
        /\ \A j \in 1 .. Len(s) : j # k => r[j] = s[j]
    BY <1>2, <1>3
  <1>5. server' = [server EXCEPT ![c] = r] BY Zenon, <1>1, <1>2
  <1>6. server'[c] = r /\ \A d \in Conns : d # c => server'[d] = server[d] BY Zenon, <1>5 DEF HSInv, TypeInv
  <1>7. server' \in [Conns -> Seq(ServerTCB)] BY Zenon, <1>4, <1>5 DEF HSInv, TypeInv
  <1>8. ASSUME NEW d \in Conns
        PROVE  /\ Len(server'[d]) = Len(server[d]) /\ TCBs(d)' = TCBs(d)
               /\ \A j \in TCBs(d) : d # c \/ j # k => server'[d][j] = server[d][j]
    <2>1. CASE d = c BY <1>1, <1>4, <1>6, <2>1 DEF TCBs
    <2>2. CASE d # c BY Zenon, <1>6, <2>2 DEF TCBs
    <2> QED BY Zenon, <2>1, <2>2
  <1> QED BY Zenon, <1>4, <1>6, <1>7, <1>8 DEF Replaced

\* What a timer of WaitForAckReceiver or waitTimeout may do to a TCB.
LEMMA TCBFrame ==
  ASSUME HSInv, NEW c \in Conns, NEW k \in TCBs(c), NEW u \in ServerTCB,
         Replaced(c, k, u), u.State \in {StateOf(c, k), "CLOSED"},
         table' \in [Conns -> Nat], \A d \in Conns : table'[d] = table[d] \/ table'[d] = 0,
         net' = net \/ net' = net \cup {Packet(c, "SYN|ACK", k)},
         UNCHANGED <<client, listener, accept>>,
         ~Unlucky("dispatch") => HeldInv', ~Unlucky("dispatch") /\ ~Unlucky("resend") => StayInv'
  PROVE  HSInv'
  <1>0. /\ TypeInv /\ \A d \in Conns : Len(server[d]) \in Nat BY DEF HSInv, TypeInv
  <1>1. /\ server' \in [Conns -> Seq(ServerTCB)]
        /\ \A d \in Conns : Len(server'[d]) = Len(server[d]) /\ TCBs(d)' = TCBs(d)
        /\ server'[c][k] = u
        /\ \A d \in Conns : \A j \in TCBs(d) : d # c \/ j # k => server'[d][j] = server[d][j]
    BY Zenon DEF Replaced
  <1>2. \A d \in Conns : \A j \in TCBs(d) : StateOf(d, j)' \in {StateOf(d, j), "CLOSED"}
    <2> TAKE d \in Conns
    <2> TAKE j \in TCBs(d)
    <2>1. CASE d = c /\ j = k BY Zenon, <1>1, <2>1 DEF StateOf
    <2>2. CASE d # c \/ j # k BY Zenon, <1>1, <2>2 DEF StateOf
    <2> QED BY Zenon, <2>1, <2>2
  <1>3. k \in Indices /\ k \in 1 .. Len(server'[c]) BY <1>0, <1>1, Counts DEF TypeInv, TCBs, Indices
  <1>4. PICK m : m = Packet(c, "SYN|ACK", k) BY Zenon
  <1>5. m \in PacketSet /\ m.c = c /\ m.flags = "SYN|ACK" /\ m.k = k /\ m.at = "wire"
    BY <1>3, <1>4, PacketIs
  <1>6. net' = net \/ net' = net \cup {m} BY Zenon, <1>4
  <1>7. TypeInv'
    <2>1. \A d \in Conns : Len(server'[d]) \in Nat /\ Len(server[d]) <= Len(server'[d]) BY <1>0, <1>1
    <2>2. net' \subseteq PacketSet /\ \A n \in net' : Routed(n)'
      <3>1. CASE net' = net BY Zenon, <1>0, <2>1, <3>1, NetKept
      <3>2. CASE net' = net \cup {m} BY Zenon, <1>0, <1>3, <1>5, <2>1, <3>2, NetSent
      <3> QED BY Zenon, <1>6, <3>1, <3>2
    <2>3. \A d \in Conns : Len(server'[d]) <= MaxTCBs /\ table'[d] <= Len(server'[d])
      <3> TAKE d \in Conns
      <3>1. Len(server[d]) <= MaxTCBs /\ table[d] <= Len(server[d]) BY Zenon, <1>0 DEF TypeInv
      <3>2. Len(server'[d]) = Len(server[d]) /\ Len(server[d]) \in Nat BY Zenon, <1>0, <1>1
      <3>3. table'[d] = table[d] \/ table'[d] = 0 BY Zenon
      <3> QED BY <3>1, <3>2, <3>3
    <2> QED BY Zenon, <1>0, <1>1, <2>2, <2>3 DEF TypeInv
  <1>8. c \in listener.scenario.connect BY Zenon DEF HSInv, MemberInv
  <1>9. MemberInv'
    <2>1. MemberInv BY Zenon DEF HSInv
    <2>2. \A n \in net' : n.c \in listener.scenario.connect BY Zenon, <1>5, <1>6, <1>8, <2>1 DEF MemberInv
    <2> QED BY Zenon, <1>1, <2>1, <2>2 DEF MemberInv, Unlucky
  <1>10. LostInv'
    <2>1. ASSUME NEW d \in Conns, NEW j \in TCBs(d), StateOf(d, j)' = "ESTABLISHED"
          PROVE  Queued(d) \/ Accepted(d) \/ listener.crashed
      BY Zenon, <1>2, <2>1 DEF HSInv, LostInv
    <2> QED BY <1>1, <2>1 DEF LostInv, Queued, Accepted
  <1>11. ASSUME ~Unlucky("dispatch") PROVE PeerInv' /\ OnceInv'
    <2>1. PeerInv /\ OnceInv BY Zenon, <1>11 DEF HSInv
    <2>2. \A n \in net' : n.at = "wire" /\ (n.flags = "ACK" => n \in net)
      BY SMTT(30), <1>5, <1>6, <2>1 DEF PeerInv
    <2>3. \A d \in Conns : \A j \in TCBs(d)' :
             StateOf(d, j)' = "ESTABLISHED" => client'[d].connect = "done" /\ client'[d].peer = j
      BY SMTT(30), <1>1, <1>2, <2>1 DEF PeerInv
    <2>4. PeerInv' BY ZenonT(90), <1>1, <2>1, <2>2, <2>3 DEF PeerInv
    <2>5. \A d \in Conns : Queued(d) \/ Accepted(d)
             => client[d].peer \in TCBs(d) /\ StateOf(d, client[d].peer)' # "SYN_RECEIVED"
      BY Zenon, <1>2, <2>1 DEF OnceInv
    <2>6. OnceInv' BY <1>1, <2>1, <2>5 DEF OnceInv, Queued, Accepted, StateOf
    <2> QED BY Zenon, <2>4, <2>6
  <1>12. \A race : Unlucky(race)' <=> Unlucky(race) BY Zenon DEF Unlucky
  <1> QED BY Zenon, <1>7, <1>9, <1>10, <1>11, <1>12 DEF HSInv

\* ... and WaitForAckReceiver stays with the TCB in the table.
LEMMA HeldStep ==
  ASSUME TypeInv, HeldInv, NEW c \in Conns, NEW k \in TCBs(c), NEW u \in ServerTCB,
         Replaced(c, k, u), u.wait = "exit" \/ k = table'[c],
         \A d \in Conns : table'[d] = table[d] \/ (d = c /\ k = table[c])
  PROVE  HeldInv'
  <1>1. /\ \A d \in Conns : TCBs(d)' = TCBs(d)
        /\ server'[c][k] = u
        /\ \A d \in Conns : \A j \in TCBs(d) : d # c \/ j # k => server'[d][j] = server[d][j]
    BY Zenon DEF Replaced
  <1>2. ASSUME NEW d \in Conns, NEW j \in TCBs(d), server'[d][j].wait # "exit" PROVE j = table'[d]
    <2>1. CASE d = c /\ j = k BY Zenon, <1>1, <1>2, <2>1
    <2>2. CASE d # c \/ j # k
      <3>1. server'[d][j] = server[d][j] BY Zenon, <1>1, <2>2
      <3>2. j = table[d] BY Zenon, <1>2, <3>1 DEF HeldInv
      <3> QED BY Zenon, <2>2, <3>2
    <2> QED BY Zenon, <2>1, <2>2
  <1> QED BY <1>1, <1>2 DEF HeldInv

LEMMA StayStep ==
  ASSUME TypeInv, StayInv, NEW c \in Conns, NEW k \in TCBs(c), NEW u \in ServerTCB,
         Replaced(c, k, u), u.wait = "exit" \/ (u.wait = "select" /\ u.State = "SYN_RECEIVED")
  PROVE  StayInv'
  <1>1. /\ \A d \in Conns : TCBs(d)' = TCBs(d)
        /\ server'[c][k] = u
        /\ \A d \in Conns : \A j \in TCBs(d) : d # c \/ j # k => server'[d][j] = server[d][j]
    BY Zenon DEF Replaced
  <1>2. ASSUME NEW d \in Conns, NEW j \in TCBs(d)
        PROVE  /\ server'[d][j].wait \in {"select", "exit"}
               /\ server'[d][j].wait = "select" => server'[d][j].State = "SYN_RECEIVED"
    <2>1. CASE d = c /\ j = k BY Zenon, <1>1, <2>1
    <2>2. CASE d # c \/ j # k BY Zenon, <1>1, <2>2 DEF StayInv, StateOf
    <2> QED BY Zenon, <2>1, <2>2
  <1> QED BY <1>1, <1>2 DEF StayInv, StateOf

LEMMA AckResendInv ==
  ASSUME HSInv, NEW c \in Conns, NEW k \in Nat, AckResend(c, k)
  PROVE  HSInv'
  <1>1. k \in TCBs(c) /\ server[c][k].wait = "select" BY Zenon DEF AckResend, Waits, TCBs
  <1>2. PICK t : t = server[c][k] BY Zenon
  <1>3. t \in ServerTCB /\ t.RetransmitCounter \in 0 .. MAX_RETRANSMISSIONS
    BY Zenon, <1>1, <1>2, TCBIs
  <1>4. t.RetransmitCounter + 1 \in 0 .. MAX_RETRANSMISSIONS BY <1>2, <1>3, Counts DEF AckResend
  <1>5. PICK wait \in {"select", "resend"} : wait = IF Unlucky("resend") THEN "resend" ELSE "select"
    BY Zenon
  <1>6. PICK u : u = [t EXCEPT !.RetransmitCounter = t.RetransmitCounter + 1, !.wait = wait] BY Zenon
  <1>7. u \in ServerTCB /\ u.State = t.State /\ u.wait = wait BY Zenon, <1>3, <1>4, <1>6 DEF ServerTCB
  <1>8. Replaced(c, k, u)
    <2>1. server' = [server EXCEPT ![c][k] = u]
      <3>1. CASE ~Unlucky("resend")
        <4>1. u = [t EXCEPT !.RetransmitCounter = t.RetransmitCounter + 1]
          BY Zenon, <1>1, <1>2, <1>3, <1>5, <1>6, <3>1 DEF ServerTCB
        <4> QED BY Zenon, <1>2, <4>1, <3>1 DEF AckResend
      <3>2. CASE Unlucky("resend")
        <4>1. u = Resending(t) BY Zenon, <1>5, <1>6, <3>2 DEF Resending
        <4> QED BY Zenon, <1>2, <4>1, <3>2 DEF AckResend
      <3> QED BY Zenon, <3>1, <3>2
    <2> QED BY Zenon, <1>1, <1>7, <2>1, ReplacedIs
  <1>9. /\ UNCHANGED <<client, table, listener, accept>>
        /\ net' = net \/ net' = net \cup {Packet(c, "SYN|ACK", k)}
    BY Zenon DEF AckResend
  <1>h. ASSUME ~Unlucky("dispatch") PROVE HeldInv'
    <2>1. TypeInv /\ HeldInv BY Zenon, <1>h DEF HSInv
    <2>2. k = table[c] BY Zenon, <1>1, <2>1 DEF HeldInv
    <2> QED BY Zenon, <1>1, <1>7, <1>8, <1>9, <2>1, <2>2, HeldStep
  <1>10. ASSUME ~Unlucky("dispatch"), ~Unlucky("resend") PROVE StayInv'
    <2>1. TypeInv /\ StayInv BY Zenon, <1>10 DEF HSInv
    <2>2. t.State = "SYN_RECEIVED" BY Zenon, <1>1, <1>2, <2>1 DEF StayInv, StateOf
    <2> QED BY Zenon, <1>1, <1>5, <1>7, <1>8, <1>10, <2>1, <2>2, StayStep
  <1>11. table' \in [Conns -> Nat] BY Zenon, <1>9 DEF HSInv, TypeInv
  <1>12. u.State = StateOf(c, k) BY Zenon, <1>2, <1>7 DEF StateOf
  <1> QED BY Zenon, <1>1, <1>7, <1>8, <1>9, <1>h, <1>10, <1>11, <1>12, TCBFrame

LEMMA AckResentInv ==
  ASSUME HSInv, NEW c \in Conns, NEW k \in Nat, AckResent(c, k)
  PROVE  HSInv'
  <1>1. k \in TCBs(c) /\ server[c][k].wait = "resend" BY Zenon DEF AckResent, TCBs
  <1>2. PICK t : t = server[c][k] BY Zenon
  <1>3. t \in ServerTCB /\ t.token \in Nat BY Zenon, <1>1, <1>2, TCBIs
  <1>4. PICK u : u = Resent(t) BY Zenon
  <1>5. u \in ServerTCB /\ u.State = t.State
    <2>1. CASE t.token > 0
      <3>1. t.token - 1 \in Nat /\ 0 \in 0 .. MAX_RETRANSMISSIONS BY <1>3, <2>1, Counts
      <3> QED BY Zenon, <1>3, <1>4, <2>1, <3>1 DEF ServerTCB, Resent
    <2>2. CASE ~(t.token > 0) BY Zenon, <1>3, <1>4, <2>2 DEF ServerTCB, Resent
    <2> QED BY Zenon, <2>1, <2>2
  <1>6. Replaced(c, k, u)
    <2>1. server' = [server EXCEPT ![c][k] = u] BY Zenon, <1>2, <1>4 DEF AckResent
    <2> QED BY Zenon, <1>1, <1>5, <2>1, ReplacedIs
  <1>7. UNCHANGED <<client, table, listener, accept>> /\ net' = net \cup {Packet(c, "SYN|ACK", k)}
    BY Zenon DEF AckResent
  <1>h. ASSUME ~Unlucky("dispatch") PROVE HeldInv'
    <2>1. TypeInv /\ HeldInv BY Zenon, <1>h DEF HSInv
    <2>2. k = table[c] BY Zenon, <1>1, <2>1 DEF HeldInv
    <2> QED BY Zenon, <1>1, <1>5, <1>6, <1>7, <2>1, <2>2, HeldStep
  <1>8. Unlucky("dispatch") \/ Unlucky("resend") BY Zenon, <1>1 DEF HSInv, StayInv
  <1>9. table' \in [Conns -> Nat] BY Zenon, <1>7 DEF HSInv, TypeInv
  <1>10. u.State = StateOf(c, k) BY Zenon, <1>2, <1>5 DEF StateOf
  <1> QED BY Zenon, <1>1, <1>5, <1>6, <1>7, <1>h, <1>8, <1>9, <1>10, TCBFrame

LEMMA TokenTakenInv ==
  ASSUME HSInv, NEW c \in Conns, NEW k \in Nat, TokenTaken(c, k)
  PROVE  HSInv'
  <1>1. k \in TCBs(c) /\ server[c][k].token > 0 BY Zenon DEF TokenTaken, TCBs
  <1>2. PICK t : t = server[c][k] BY Zenon
  <1>3. t \in ServerTCB /\ t.token - 1 \in Nat BY <1>1, <1>2, TCBIs
  <1>4. PICK u : u = [t EXCEPT !.token = t.token - 1] BY Zenon
  <1>5. u \in ServerTCB /\ u.State = t.State /\ u.wait = t.wait BY Zenon, <1>3, <1>4 DEF ServerTCB
  <1>6. Replaced(c, k, u)
    <2>1. server' = [server EXCEPT ![c][k] = u] BY Zenon, <1>2, <1>4 DEF TokenTaken
    <2> QED BY Zenon, <1>1, <1>5, <2>1, ReplacedIs
  <1>7. UNCHANGED <<client, table, listener, accept, net>> BY Zenon DEF TokenTaken
  <1>h. ASSUME ~Unlucky("dispatch") PROVE HeldInv'
    <2>1. TypeInv /\ HeldInv BY Zenon, <1>h DEF HSInv
    <2>2. t.wait = "exit" \/ k = table[c] BY Zenon, <1>1, <1>2, <2>1 DEF HeldInv
    <2> QED BY Zenon, <1>1, <1>5, <1>6, <1>7, <2>1, <2>2, HeldStep
  <1>8. ASSUME ~Unlucky("dispatch"), ~Unlucky("resend") PROVE StayInv'
    <2>1. TypeInv /\ StayInv BY Zenon, <1>8 DEF HSInv
    <2>2. /\ t.wait \in {"select", "exit"}
          /\ t.wait = "select" => t.State = "SYN_RECEIVED"
      BY Zenon, <1>1, <1>2, <2>1 DEF StayInv, StateOf
    <2> QED BY Zenon, <1>1, <1>5, <1>6, <2>1, <2>2, StayStep
  <1>9. table' \in [Conns -> Nat] BY Zenon, <1>7 DEF HSInv, TypeInv
  <1>10. u.State = StateOf(c, k) BY Zenon, <1>2, <1>5 DEF StateOf
  <1> QED BY Zenon, <1>1, <1>5, <1>6, <1>7, <1>h, <1>8, <1>9, <1>10, TCBFrame

LEMMA AckTimesOutInv ==
  ASSUME HSInv, NEW c \in Conns, NEW k \in Nat, AckTimesOut(c, k)
  PROVE  HSInv'
  <1>1. k \in TCBs(c) /\ server[c][k].wait = "select" BY Zenon DEF AckTimesOut, Waits, TCBs
  <1>2. PICK t : t = server[c][k] BY Zenon
  <1>3. t \in ServerTCB /\ t.token \in Nat BY Zenon, <1>1, <1>2, TCBIs
  <1>4. PICK u : u = [t EXCEPT !.State = "CLOSED", !.wait = "exit"] BY Zenon
  <1>5. u \in ServerTCB /\ u.State = "CLOSED" /\ u.wait = "exit" BY Zenon, <1>3, <1>4 DEF ServerTCB
  <1>6. Replaced(c, k, u)
    <2>1. server' = [server EXCEPT ![c][k] = u] BY Zenon, <1>2, <1>4 DEF AckTimesOut
    <2> QED BY Zenon, <1>1, <1>5, <2>1, ReplacedIs
  <1>7. UNCHANGED <<client, listener, accept, net>> /\ table' = [table EXCEPT ![c] = 0]
    BY Zenon DEF AckTimesOut
  <1>8. /\ table' \in [Conns -> Nat] /\ table'[c] = 0
        /\ \A d \in Conns : table'[d] = table[d] \/ (d = c /\ table'[d] = 0)
    BY Zenon, <1>7 DEF HSInv, TypeInv
  <1>h. ASSUME ~Unlucky("dispatch") PROVE HeldInv'
    <2>1. TypeInv /\ HeldInv BY Zenon, <1>h DEF HSInv
    <2>2. k = table[c] BY Zenon, <1>1, <2>1 DEF HeldInv
    <2> QED BY Zenon, <1>1, <1>5, <1>6, <1>8, <2>1, <2>2, HeldStep
  <1>9. ASSUME ~Unlucky("dispatch"), ~Unlucky("resend") PROVE StayInv'
    BY Zenon, <1>1, <1>5, <1>6, <1>9, StayStep DEF HSInv
  <1> QED BY Zenon, <1>1, <1>5, <1>6, <1>7, <1>8, <1>h, <1>9, TCBFrame
-----------------------------------------------------------------------------
(* The pending connections.                                                *)

\* Two handlers that update PendingConnections at once are of one connection.
OneAppends == \A s \in Scenarios : "append" \in s.races => \A c, d \in s.connect : c = d

LEMMA ListenerIs ==
  ASSUME HSInv
  PROVE  /\ listener \in Listener /\ accept \in Acceptor
         /\ listener.PendingConnections \in Seq(Conns) /\ accept.conns \in Seq(Conns)
         /\ listener.scenario \in Scenarios /\ listener.signals \in Nat
         /\ listener.appending \subseteq [c : Conns, old : Seq(Conns)]
  BY Zenon DEF HSInv, TypeInv, Listener, Acceptor

\* NewPending queues c, or starts to, unless the listener is gone.
LEMMA NewPendingIs ==
  ASSUME HSInv, NEW c \in Conns, NEW l, l = NewPending(listener, c)
  PROVE  /\ l \in Listener /\ l.scenario = listener.scenario
         /\ \/ /\ l.crashed /\ l.PendingConnections = listener.PendingConnections
               /\ l.appending = listener.appending
            \/ /\ l.crashed = listener.crashed /\ l.appending = listener.appending
               /\ l.PendingConnections = Append(listener.PendingConnections, c)
               /\ ~Unlucky("append")
            \/ /\ l.crashed = listener.crashed /\ Unlucky("append")
               /\ l.PendingConnections = listener.PendingConnections
               /\ l.appending = listener.appending \cup {[c |-> c, old |-> listener.PendingConnections]}
  <1>1. listener \in Listener BY Zenon DEF HSInv, TypeInv
  <1>2. CASE ~listener.inTable
    <2>1. l = [listener EXCEPT !.crashed = TRUE] BY Zenon, <1>2 DEF NewPending
    <2> QED BY Zenon, <1>1, <2>1 DEF Listener
  <1>3. CASE listener.inTable /\ Unlucky("append")
    <2>1. PICK a : a = [c |-> c, old |-> listener.PendingConnections] BY Zenon
    <2>2. l = [listener EXCEPT !.appending = listener.appending \cup {a}]
      BY Zenon, <1>3, <2>1 DEF NewPending
    <2>3. a \in [c : Conns, old : Seq(Conns)] BY Zenon, <2>1, ListenerIs
    <2> QED BY SMTT(30), <1>1, <1>3, <2>1, <2>2, <2>3 DEF Listener
  <1>4. CASE listener.inTable /\ ~Unlucky("append")
    <2>1. PICK p : p = Append(listener.PendingConnections, c) BY Zenon
    <2>2. p \in Seq(Conns) /\ listener.signals + 1 \in Nat BY <2>1, ListenerIs
    <2>3. l = [listener EXCEPT !.PendingConnections = p, !.signals = listener.signals + 1]
      BY Zenon, <1>4, <2>1 DEF NewPending
    <2> QED BY Zenon, <1>1, <1>4, <2>1, <2>2, <2>3 DEF Listener
  <1> QED BY Zenon, <1>2, <1>3, <1>4

LEMMA AcknowledgedIs ==
  ASSUME NEW t \in ServerTCB
  PROVE  /\ Acknowledged(t) \in ServerTCB /\ Acknowledged(t).State = "ESTABLISHED"
         /\ Acknowledged(t).wait = IF t.wait = "select" THEN "exit" ELSE t.wait
  <1>1. PICK u : u = [t EXCEPT !.State = "ESTABLISHED", !.waitTimeout = TRUE] BY Zenon
  <1>2. /\ u \in ServerTCB /\ u.State = "ESTABLISHED" /\ u.wait = t.wait /\ u.token \in Nat
    BY Zenon, <1>1 DEF ServerTCB
  <1>3. CASE t.wait = "select"
    <2>1. Acknowledged(t) = [u EXCEPT !.wait = "exit", !.RetransmitCounter = 0]
      BY Zenon, <1>1, <1>3 DEF Acknowledged
    <2>2. 0 \in 0 .. MAX_RETRANSMISSIONS BY Counts
    <2>3. Acknowledged(t) \in ServerTCB BY Zenon, <1>2, <2>1, <2>2 DEF ServerTCB
    <2> QED BY Zenon, <1>2, <1>3, <2>1, <2>3 DEF ServerTCB
  <1>4. CASE t.wait # "select"
    <2>1. Acknowledged(t) = [u EXCEPT !.token = u.token + 1]
      BY Zenon, <1>1, <1>4 DEF Acknowledged
    <2> QED BY <1>2, <1>4, <2>1 DEF ServerTCB
  <1> QED BY Zenon, <1>3, <1>4

\* HandleStateSynReceived: the ACK of the client establishes the connection.
LEMMA EstablishInv ==
  ASSUME HSInv, OneAppends, NEW m, NEW k, Chosen("SYN_RECEIVED", m, k), NEW rest \in SUBSET net,
         m.flags = "ACK", m.k = k, net' = rest,
         server' = [server EXCEPT ![m.c][k] = Acknowledged(@)],
         listener' = NewPending(listener, m.c), UNCHANGED <<client, table, accept>>
  PROVE  HSInv'
  <1> DEFINE c == m.c
             P == listener.PendingConnections
  <1>1. m \in net /\ c \in Conns /\ k \in TCBs(c) /\ c \in listener.scenario.connect
    BY Zenon DEF Chosen, HSInv, TypeInv, PacketSet, MemberInv
  <1>2. PICK t : t = server[c][k] BY Zenon
  <1>3. PICK u : u = Acknowledged(t) BY Zenon
  <1>4. t \in ServerTCB BY Zenon, <1>1, <1>2, TCBIs
  <1>5. /\ u \in ServerTCB /\ u.State = "ESTABLISHED"
        /\ u.wait = IF t.wait = "select" THEN "exit" ELSE t.wait
    BY Zenon, <1>3, <1>4, AcknowledgedIs
  <1>6. server' = [server EXCEPT ![c][k] = u] BY Zenon, <1>2, <1>3
  <1>7. Replaced(c, k, u) BY Zenon, <1>1, <1>5, <1>6, ReplacedIs
  <1>c. ~Unlucky("dispatch") => k = table[c] /\ StateOf(c, k) = "SYN_RECEIVED" BY Zenon DEF Chosen
  <1>l. listener' = NewPending(listener, c) BY Zenon
  <1> HIDE DEF c, P
  <1>8. /\ server' \in [Conns -> Seq(ServerTCB)] /\ StateOf(c, k)' = "ESTABLISHED"
        /\ \A d \in Conns : Len(server'[d]) = Len(server[d]) /\ TCBs(d)' = TCBs(d)
        /\ \A d \in Conns : \A j \in TCBs(d) : d # c \/ j # k => StateOf(d, j)' = StateOf(d, j)
    BY Zenon, <1>5, <1>7 DEF Replaced, StateOf
  <1>9. /\ listener' \in Listener /\ listener'.scenario = listener.scenario
        /\ \/ /\ listener'.crashed /\ listener'.PendingConnections = P
              /\ listener'.appending = listener.appending
           \/ /\ listener'.crashed = listener.crashed /\ listener'.appending = listener.appending
              /\ listener'.PendingConnections = Append(P, c) /\ ~Unlucky("append")
           \/ /\ listener'.crashed = listener.crashed /\ Unlucky("append")
              /\ listener'.PendingConnections = P
              /\ listener'.appending = listener.appending \cup {[c |-> c, old |-> P]}
    BY Zenon, <1>1, <1>l, NewPendingIs DEF P
  <1>10. /\ P \in Seq(Conns) /\ Append(P, c) \in Seq(Conns) /\ Range(Append(P, c)) = Range(P) \cup {c}
    BY <1>1, ListenerIs, AppendIs DEF P
  <1>11. PICK a : a = [c |-> c, old |-> P] BY Zenon
  <1>12. a.c = c /\ a.old = P BY Zenon, <1>11
  <1>13. /\ \A d : Queued(d)' => Queued(d) \/ d = c
         /\ \A d : Queued(d) => Queued(d)'
         /\ listener'.crashed \/ (listener'.crashed = listener.crashed /\ Queued(c)')
    <2>1. CASE listener'.crashed /\ listener'.PendingConnections = P
               /\ listener'.appending = listener.appending
      BY Zenon, <2>1 DEF Queued, P
    <2>2. CASE /\ listener'.crashed = listener.crashed /\ listener'.appending = listener.appending
               /\ listener'.PendingConnections = Append(P, c)
      <3>1. \A d : Queued(d)' <=> Queued(d) \/ d = c BY Zenon, <1>10, <2>2 DEF Queued, P
      <3> QED BY Zenon, <2>2, <3>1
    <2>3. CASE /\ listener'.crashed = listener.crashed /\ listener'.PendingConnections = P
               /\ listener'.appending = listener.appending \cup {a}
      <3>1. \A d : d \in {b.c : b \in listener'.appending}
                    <=> d \in {b.c : b \in listener.appending} \/ d = c
        BY Zenon, <1>12, <2>3
      <3>2. \A d : Queued(d)' <=> Queued(d) \/ d = c BY Zenon, <2>3, <3>1 DEF Queued, P
      <3> QED BY Zenon, <2>3, <3>2
    <2> QED BY Zenon, <1>9, <1>11, <2>1, <2>2, <2>3
  <1>14. TypeInv'
    <2>1. TypeInv /\ \A d \in Conns : Len(server[d]) \in Nat BY SMTT(30) DEF HSInv, TypeInv
    <2>2. \A d \in Conns : Len(server'[d]) \in Nat /\ Len(server[d]) <= Len(server'[d]) BY <1>8, <2>1
    <2>3. net' \subseteq PacketSet /\ \A n \in net' : Routed(n)' BY Zenon, <2>1, <2>2, NetKept
    <2> QED BY Zenon, <1>8, <1>9, <2>1, <2>3 DEF TypeInv
  <1>15. MemberInv'
    <2>1. MemberInv BY Zenon DEF HSInv
    <2>2. Range(P) \subseteq listener.scenario.connect BY Zenon, <2>1 DEF MemberInv, P
    <2>3. \A b \in listener'.appending : /\ b.c \in listener.scenario.connect
                                         /\ Range(b.old) \subseteq listener.scenario.connect
      BY Zenon, <1>1, <1>9, <1>11, <1>12, <2>1, <2>2 DEF MemberInv
    <2>4. Range(listener'.PendingConnections) \subseteq listener.scenario.connect
      BY Zenon, <1>1, <1>9, <1>10, <2>2
    <2>5. listener'.appending # {} => Unlucky("append") BY Zenon, <1>9, <2>1 DEF MemberInv
    <2>6. Unlucky("append")' <=> Unlucky("append") BY Zenon, <1>9 DEF Unlucky
    <2>7. \A d \in Conns : TCBs(d)' # {} \/ client'[d].connect # "no" => d \in listener.scenario.connect
      BY Zenon, <1>8, <2>1 DEF MemberInv
    <2>8. Range(accept'.conns) \subseteq listener.scenario.connect BY Zenon, <2>1 DEF MemberInv
    <2>9. \A n \in net' : n.c \in listener.scenario.connect BY Zenon, <2>1 DEF MemberInv
    <2> QED BY Zenon, <1>9, <2>3, <2>4, <2>5, <2>6, <2>7, <2>8, <2>9 DEF MemberInv
  <1>16. LostInv'
    <2>1. ASSUME NEW d \in Conns, NEW j \in TCBs(d), StateOf(d, j)' = "ESTABLISHED"
          PROVE  Queued(d)' \/ Accepted(d)' \/ listener'.crashed
      <3>1. CASE d = c BY Zenon, <1>13, <3>1
      <3>2. CASE d # c
        <4>1. Queued(d) \/ Accepted(d) \/ listener.crashed BY Zenon, <1>8, <2>1, <3>2 DEF HSInv, LostInv
        <4> QED BY Zenon, <1>13, <4>1 DEF Accepted
      <3> QED BY Zenon, <3>1, <3>2
    <2> QED BY <1>8, <2>1 DEF LostInv
  <1>17. ASSUME ~Unlucky("dispatch") PROVE PeerInv'
    <2>1. PeerInv BY Zenon, <1>17 DEF HSInv
    <2>2. client[c].connect = "done" /\ client[c].peer = k BY Zenon, <1>1, <2>1 DEF PeerInv, c
    <2>3. ASSUME NEW d \in Conns, NEW j \in TCBs(d), StateOf(d, j)' = "ESTABLISHED"
          PROVE  client[d].connect = "done" /\ client[d].peer = j
      <3>1. CASE d = c /\ j = k BY Zenon, <2>2, <3>1
      <3>2. CASE d # c \/ j # k BY <1>8, <2>1, <2>3, <3>2 DEF PeerInv
      <3> QED BY Zenon, <3>1, <3>2
    <2>4. \A n \in net' : n \in net BY Zenon
    <2> QED BY <1>8, <2>1, <2>3, <2>4 DEF PeerInv
  <1>18. ASSUME ~Unlucky("dispatch") PROVE OnceInv'
    <2>1. PeerInv /\ OnceInv /\ MemberInv BY Zenon, <1>18 DEF HSInv
    <2>2. client[c].peer = k BY Zenon, <1>1, <2>1 DEF PeerInv, c
    <2>3. ~Queued(c) /\ ~Accepted(c) BY Zenon, <1>1, <1>c, <1>18, <2>1, <2>2 DEF OnceInv
    <2>4. ASSUME NEW d \in Conns, Queued(d)' \/ Accepted(d)'
          PROVE  client[d].peer \in TCBs(d) /\ StateOf(d, client[d].peer)' # "SYN_RECEIVED"
      <3>1. CASE d = c BY Zenon, <1>1, <1>8, <2>2, <3>1
      <3>2. CASE d # c
        <4>1. Queued(d) \/ Accepted(d) BY Zenon, <1>13, <2>4, <3>2 DEF Accepted
        <4> QED BY Zenon, <1>8, <2>1, <3>2, <4>1 DEF OnceInv
      <3> QED BY Zenon, <3>1, <3>2
    <2>5. c \notin Range(P) /\ c \notin Range(accept.conns) BY Zenon, <2>3 DEF Queued, Accepted, P
    <2>6. /\ Distinct(listener'.PendingConnections)
          /\ Range(accept.conns) \cap Range(listener'.PendingConnections) = {}
      <3>1. Distinct(P) /\ Range(accept.conns) \cap Range(P) = {} BY Zenon, <2>1 DEF OnceInv, P
      <3>2. Distinct(Append(P, c)) BY Zenon, <1>1, <1>10, <2>5, <3>1, AppendDistinct
      <3> QED BY Zenon, <1>9, <1>10, <2>5, <3>1, <3>2
    <2>7. ASSUME Unlucky("append") PROVE P = <<>> /\ accept.conns = <<>>
      <3>1. \A d \in listener.scenario.connect : d = c
        BY Zenon, <1>1, <2>7, ListenerIs DEF OneAppends, Unlucky
      <3>2. Range(P) = {} /\ Range(accept.conns) = {}
        BY Zenon, <2>1, <2>5, <3>1 DEF MemberInv, P
      <3>3. accept.conns \in Seq(Conns) BY Zenon, ListenerIs
      <3> QED BY Zenon, <1>10, <3>2, <3>3, EmptyIs
    <2>8. ASSUME NEW b \in listener'.appending
          PROVE  b.old = <<>> /\ listener'.PendingConnections = <<>> /\ accept.conns = <<>>
      <3>1. Unlucky("append") BY Zenon, <1>15, <1>9 DEF MemberInv, Unlucky
      <3>2. b \in listener.appending \/ b = a BY Zenon, <1>9, <1>11
      <3>3. b.old = <<>> BY Zenon, <1>12, <2>1, <2>7, <3>1, <3>2 DEF OnceInv
      <3> QED BY Zenon, <1>9, <2>7, <3>1, <3>3
    <2>9. \A d \in Conns : Queued(d)' \/ Accepted(d)'
             => client'[d].peer \in TCBs(d)' /\ StateOf(d, client[d].peer)' # "SYN_RECEIVED"
      BY <1>8, <2>4
    <2> QED BY Zenon, <2>1, <2>6, <2>8, <2>9 DEF OnceInv, StateOf
  <1>h. ASSUME ~Unlucky("dispatch") PROVE HeldInv'
    <2>1. TypeInv /\ HeldInv BY Zenon, <1>h DEF HSInv
    <2>2. server[c][k].wait = "exit" \/ k = table[c] BY Zenon, <1>1, <2>1 DEF HeldInv
    <2> QED BY Zenon, <1>1, <1>2, <1>5, <1>7, <2>1, <2>2, HeldStep
  <1>19. ASSUME ~Unlucky("dispatch"), ~Unlucky("resend") PROVE StayInv'
    <2>1. TypeInv /\ StayInv BY Zenon, <1>19 DEF HSInv
    <2>2. u.wait = "exit" BY Zenon, <1>1, <1>2, <1>5, <2>1 DEF StayInv
    <2> QED BY Zenon, <1>1, <1>5, <1>7, <2>1, <2>2, StayStep
  <1>20. \A race : Unlucky(race)' <=> Unlucky(race) BY Zenon, <1>9 DEF Unlucky
  <1> QED BY Zenon, <1>14, <1>15, <1>16, <1>17, <1>18, <1>h, <1>19, <1>20 DEF HSInv
-----------------------------------------------------------------------------
(* A packet arrives, a handler runs.                                       *)

LEMMA HandleInv ==
  ASSUME HSInv, OneAppends, NEW state, NEW m, NEW k, Chosen(state, m, k), NEW rest \in SUBSET net,
         Handle(state, m, k, rest)
  PROVE  HSInv'
  <1>1. m \in net /\ m.c \in Conns /\ m.flags \in {"SYN", "SYN|ACK", "ACK"}
    BY Zenon DEF Chosen, HSInv, TypeInv, PacketSet
  <1>2. CASE state = "SYN_SENT" /\ HandleStateSynSent(m, rest)
    <2>1. Chosen("SYN_SENT", m, k) BY Zenon, <1>2
    <2> QED BY Zenon, <1>2, <2>1, SynSentInv
  <1>3. CASE state = "LISTEN" /\ HandleStateListen(m, rest)
    <2>1. Chosen("LISTEN", m, k) BY Zenon, <1>3
    <2>2. CASE m.flags = "SYN" BY Zenon, <1>3, <2>1, <2>2, NewTCBInv
    <2>3. CASE m.flags # "SYN"
      <3>1. net' \subseteq net /\ UNCHANGED <<client, serverVars>>
        BY Zenon, <1>3, <2>3 DEF HandleStateListen, serverVars
      <3> QED BY Zenon, <3>1, DropInv
    <2> QED BY Zenon, <2>2, <2>3
  <1>4. CASE state = "SYN_RECEIVED" /\ HandleStateSynReceived(m, k, rest)
    <2>1. Chosen("SYN_RECEIVED", m, k) /\ k \in TCBs(m.c) BY Zenon, <1>4 DEF Chosen
    <2>2. CASE m.flags = "SYN"
      <3>1. net' = rest \cup {Packet(m.c, "SYN|ACK", k)} /\ UNCHANGED <<client, serverVars>>
        BY Zenon, <1>4, <2>2 DEF HandleStateSynReceived
      <3> QED BY Zenon, <1>1, <2>1, <3>1, AnswerInv
    <2>3. CASE m.flags = "ACK" /\ m.k = k
      <3>1. /\ net' = rest /\ server' = [server EXCEPT ![m.c][k] = Acknowledged(@)]
            /\ listener' = NewPending(listener, m.c) /\ UNCHANGED <<client, table, accept>>
        BY Zenon, <1>4, <2>3 DEF HandleStateSynReceived
      <3> QED BY Zenon, <2>1, <2>3, <3>1, EstablishInv
    <2>4. CASE m.flags = "ACK" /\ m.k # k
      <3>1. net' \subseteq net /\ UNCHANGED <<client, serverVars>>
        BY Zenon, <1>4, <2>4 DEF HandleStateSynReceived
      <3> QED BY Zenon, <3>1, DropInv
    <2> QED BY Zenon, <1>4, <2>2, <2>3, <2>4 DEF HandleStateSynReceived
  <1>5. CASE net' = rest /\ UNCHANGED <<client, serverVars>> BY Zenon, <1>5, DropInv
  <1> QED BY Zenon, <1>2, <1>3, <1>4, <1>5 DEF Handle

LEMMA ArrivingInv ==
  ASSUME HSInv, OneAppends, NEW c \in Conns, Arriving(c)
  PROVE  HSInv'
  <1>1. PICK m \in net : ReceivePacket(m) \/ HandlerRuns(m) BY Zenon DEF Arriving
  <1>2. CASE ReceivePacket(m)
    <2>1. PICK rest \in {net \ {m}, net} : Handle(Lookup(m), m, table[m.c], rest)
      BY Zenon, <1>2 DEF ReceivePacket
    <2>2. Chosen(Lookup(m), m, table[m.c]) BY Zenon, ChosenAtOnce
    <2> QED BY Zenon, <2>1, <2>2, HandleInv
  <1>3. CASE HandlerRuns(m)
    <2>1. m.at # "wire" /\ Handle(m.at, m, m.on, net \ {m}) BY Zenon, <1>3 DEF HandlerRuns
    <2>2. Chosen(m.at, m, m.on) BY Zenon, <2>1, ChosenBefore
    <2> QED BY Zenon, <2>1, <2>2, HandleInv
  <1> QED BY Zenon, <1>1, <1>2, <1>3

LEMMA DispatchInv ==
  ASSUME HSInv, NEW m \in net, Dispatch(m) PROVE HSInv'
  <1>1. PICK rest \in SUBSET net :
          net' = rest \cup {[m EXCEPT !.at = Lookup(m), !.on = table[m.c]]}
    BY Zenon DEF Dispatch
  <1>2. PICK n : n = [m EXCEPT !.at = Lookup(m), !.on = table[m.c]] BY Zenon
  <1>3. /\ Unlucky("dispatch") /\ UNCHANGED <<client, serverVars>> BY Zenon DEF Dispatch
  <1>4. TypeInv /\ MemberInv /\ m \in PacketSet /\ Routed(m) /\ m.c \in Conns
    BY Zenon DEF HSInv, TypeInv, PacketSet
  <1>5. /\ table[m.c] \in Nat /\ Len(server[m.c]) \in Nat /\ table[m.c] <= Len(server[m.c])
        /\ client[m.c].State \in {"CLOSED", "SYN_SENT", "ESTABLISHED"}
    BY <1>4 DEF TypeInv, ClientTCB
  <1>6. ASSUME table[m.c] # 0
        PROVE  /\ table[m.c] \in TCBs(m.c)
               /\ server[m.c][table[m.c]].State \in {"SYN_RECEIVED", "ESTABLISHED", "CLOSED"}
    <2>1. table[m.c] \in TCBs(m.c) BY <1>5, <1>6 DEF TCBs
    <2>2. server[m.c][table[m.c]] \in ServerTCB BY Zenon, <1>4, <2>1, TCBIs
    <2> QED BY Zenon, <2>1, <2>2 DEF ServerTCB
  <1>7. /\ Lookup(m) \in ConnStates
        /\ m.flags = "SYN|ACK" => Lookup(m) \notin {"LISTEN", "SYN_RECEIVED"}
        /\ m.flags # "SYN|ACK" => Lookup(m) # "SYN_SENT"
        /\ Lookup(m) = "SYN_RECEIVED" => table[m.c] \in TCBs(m.c)
    BY Zenon, <1>5, <1>6 DEF Lookup, ConnStates
  <1>8. /\ n \in PacketSet /\ n.c = m.c /\ n.flags = m.flags /\ n.k = m.k
        /\ n.at = Lookup(m) /\ n.on = table[m.c]
    BY Zenon, <1>2, <1>4, <1>5, <1>7 DEF PacketSet
  <1>9. Routed(n)' BY Zenon, <1>3, <1>4, <1>7, <1>8 DEF Routed, TCBs, serverVars
  <1>10. \A d \in Conns : Len(server'[d]) \in Nat /\ Len(server[d]) <= Len(server'[d])
    BY <1>3, <1>4 DEF TypeInv, serverVars
  <1>11. \A p \in net' : p \in PacketSet /\ Routed(p)' /\ p.c \in listener.scenario.connect
    <2>1. ASSUME NEW p \in rest PROVE p \in PacketSet /\ Routed(p)' /\ p.c \in listener.scenario.connect
      BY Zenon, <1>3, <1>4 DEF TypeInv, Routed, MemberInv, serverVars
    <2>2. n.c \in listener.scenario.connect BY Zenon, <1>4, <1>8 DEF MemberInv
    <2> QED BY Zenon, <1>1, <1>2, <1>8, <1>9, <2>1, <2>2
  <1> QED BY Zenon, <1>3, <1>11, NetFrame

-----------------------------------------------------------------------------
(* The goroutine of acceptHelper and CloseListener.                        *)

\* A step that leaves the queue and what Accept has returned alone.
LEMMA QuietInv ==
  ASSUME HSInv, UNCHANGED <<client, server, table, net>>,
         listener' \in Listener, accept' \in Acceptor, listener'.scenario = listener.scenario,
         listener'.PendingConnections = listener.PendingConnections,
         listener'.appending = listener.appending, listener'.crashed = listener.crashed,
         accept'.conns = accept.conns
  PROVE  HSInv'
  <1>1. TypeInv' BY Zenon DEF HSInv, TypeInv, Routed
  <1>2. \A race : Unlucky(race)' <=> Unlucky(race) BY Zenon DEF Unlucky
  <1>3. MemberInv' BY Zenon, <1>2 DEF HSInv, MemberInv, TCBs
  <1>4. \A c : (Queued(c)' <=> Queued(c)) /\ (Accepted(c)' <=> Accepted(c)) BY Zenon DEF Queued, Accepted
  <1>5. LostInv' BY Zenon, <1>4 DEF HSInv, LostInv, TCBs, StateOf
  <1>6. ASSUME ~Unlucky("dispatch") PROVE PeerInv' /\ OnceInv'
    <2>1. PeerInv /\ OnceInv BY Zenon, <1>6 DEF HSInv
    <2>2. PeerInv' BY Zenon, <2>1 DEF PeerInv, TCBs, StateOf
    <2>3. OnceInv' BY Zenon, <1>4, <2>1 DEF OnceInv, TCBs, StateOf
    <2> QED BY Zenon, <2>2, <2>3
  <1>h. ASSUME ~Unlucky("dispatch") PROVE HeldInv'
    BY Zenon, <1>h DEF HSInv, HeldInv, TCBs
  <1>7. ASSUME ~Unlucky("dispatch"), ~Unlucky("resend") PROVE StayInv'
    BY Zenon, <1>7 DEF HSInv, StayInv, TCBs, StateOf
  <1> QED BY Zenon, <1>1, <1>2, <1>3, <1>5, <1>6, <1>h, <1>7 DEF HSInv

\* Accept returns the connection at the head of the queue.
LEMMA PopInv ==
  ASSUME HSInv, Pop, listener.PendingConnections # <<>>, UNCHANGED <<client, server, table, net>>
  PROVE  HSInv'
  <1> DEFINE P == listener.PendingConnections
             A == accept.conns
             c == Head(P)
  <1>1. P \in Seq(Conns) /\ A \in Seq(Conns) /\ listener \in Listener BY Zenon, ListenerIs
  <1>2. /\ c \in Conns /\ Tail(P) \in Seq(Conns) /\ Range(P) = {c} \cup Range(Tail(P))
        /\ Distinct(P) => Distinct(Tail(P)) /\ c \notin Range(Tail(P))
    BY Zenon, <1>1, PopIs
  <1>3. PICK t : t = Tail(P) BY Zenon
  <1>4. PICK b : b = Append(A, c) BY Zenon
  <1>5. b \in Seq(Conns) /\ Range(b) = Range(A) \cup {c} BY <1>1, <1>2, <1>4, AppendIs
  <1>6. listener' = [listener EXCEPT !.PendingConnections = t] /\ accept' = [pc |-> "call", conns |-> b]
    BY Zenon, <1>3, <1>4 DEF Pop
  <1>s. ~(Distinct(A) /\ c \notin Range(A)) \/ Distinct(b) BY Zenon, <1>1, <1>2, <1>4, AppendDistinct
  <1>7. /\ listener' \in Listener /\ listener'.PendingConnections = t
        /\ listener'.scenario = listener.scenario /\ listener'.appending = listener.appending
        /\ listener'.crashed = listener.crashed
    BY Zenon, <1>1, <1>2, <1>3, <1>6 DEF Listener
  <1>8. accept' \in Acceptor /\ accept'.conns = b BY Zenon, <1>5, <1>6 DEF Acceptor
  <1> HIDE DEF P, A, c
  <1>9. /\ Range(P) = {c} \cup Range(t)
        /\ Distinct(P) => Distinct(t) /\ c \notin Range(t)
    BY Zenon, <1>2, <1>3
  <1>10. TypeInv' BY Zenon, <1>7, <1>8 DEF HSInv, TypeInv, Routed
  <1>11. \A race : Unlucky(race)' <=> Unlucky(race) BY Zenon, <1>7 DEF Unlucky
  <1>12. MemberInv'
    <2>1. MemberInv /\ Range(P) \cup Range(A) \subseteq listener.scenario.connect
      BY Zenon DEF HSInv, MemberInv, P, A
    <2>2. Range(t) \cup Range(b) \subseteq listener.scenario.connect BY Zenon, <1>5, <1>9, <2>1
    <2> QED BY Zenon, <1>7, <1>8, <1>11, <2>1, <2>2 DEF MemberInv, TCBs
  <1>13. \A d : Queued(d)' \/ Accepted(d)' <=> Queued(d) \/ Accepted(d)
    BY Zenon, <1>5, <1>7, <1>8, <1>9 DEF Queued, Accepted, P, A
  <1>14. LostInv' BY Zenon, <1>7, <1>13 DEF HSInv, LostInv, TCBs, StateOf
  <1>15. ASSUME ~Unlucky("dispatch") PROVE PeerInv' /\ OnceInv'
    <2>1. PeerInv /\ OnceInv BY Zenon, <1>15 DEF HSInv
    <2>2. PeerInv' BY Zenon, <2>1 DEF PeerInv, TCBs, StateOf
    <2>3. Distinct(A) /\ Distinct(P) /\ Range(A) \cap Range(P) = {} BY Zenon, <2>1 DEF OnceInv, A, P
    <2>4. c \notin Range(A) /\ Distinct(t) /\ c \notin Range(t) BY Zenon, <1>9, <2>3
    <2>5. Distinct(b) /\ Range(b) \cap Range(t) = {} BY Zenon, <1>5, <1>9, <1>s, <2>3, <2>4
    <2>6. listener.appending = {}
      <3>1. P # <<>> BY Zenon DEF P
      <3> QED BY Zenon, <2>1, <3>1 DEF OnceInv, P
    <2>7. \A d \in Conns : (Queued(d) \/ Accepted(d))'
              => client'[d].peer \in TCBs(d)' /\ StateOf(d, client[d].peer)' # "SYN_RECEIVED"
      BY Zenon, <1>13, <2>1 DEF OnceInv, TCBs, StateOf
    <2>8. /\ Distinct(accept'.conns) /\ Distinct(listener'.PendingConnections)
          /\ Range(accept'.conns) \cap Range(listener'.PendingConnections) = {}
          /\ listener'.appending = {}
      BY Zenon, <1>7, <1>8, <2>4, <2>5, <2>6
    <2>9. OnceInv' BY Zenon, <2>7, <2>8 DEF OnceInv, StateOf
    <2> QED BY Zenon, <2>2, <2>9
  <1>h. ASSUME ~Unlucky("dispatch") PROVE HeldInv'
    BY Zenon, <1>h DEF HSInv, HeldInv, TCBs
  <1>16. ASSUME ~Unlucky("dispatch"), ~Unlucky("resend") PROVE StayInv'
    BY Zenon, <1>16 DEF HSInv, StayInv, TCBs, StateOf
  <1> QED BY Zenon, <1>10, <1>11, <1>12, <1>14, <1>15, <1>h, <1>16 DEF HSInv

\* The second half of a late append, of the only connection there is.
LEMMA AppendPendingInv ==
  ASSUME HSInv, OneAppends, NEW a \in listener.appending, AppendPending(a)
  PROVE  HSInv'
  <1> DEFINE P == listener.PendingConnections
             c == a.c
             Q == Append(a.old, c)
  <1>1. /\ listener \in Listener /\ a \in [c : Conns, old : Seq(Conns)] /\ listener.signals \in Nat
    BY Zenon, ListenerIs
  <1>2. c \in Conns /\ a.old \in Seq(Conns) /\ a = [c |-> c, old |-> a.old] BY Zenon, <1>1
  <1>3. Q \in Seq(Conns) /\ Range(Q) = Range(a.old) \cup {c} BY <1>2, AppendIs
  <1>4. PICK q : q = Q BY Zenon
  <1>5. listener' = [listener EXCEPT !.appending = listener.appending \ {a},
                                     !.signals = listener.signals + 1, !.PendingConnections = q]
    BY Zenon, <1>4 DEF AppendPending
  <1>6. UNCHANGED <<client, server, table, accept, net>> BY Zenon DEF AppendPending
  <1>7. /\ listener' \in Listener /\ listener'.PendingConnections = q
        /\ listener'.scenario = listener.scenario /\ listener'.appending = listener.appending \ {a}
        /\ listener'.crashed = listener.crashed
    <2>1. /\ q \in Seq(Conns) /\ listener.signals + 1 \in Nat
          /\ listener.appending \ {a} \in SUBSET [c : Conns, old : Seq(Conns)]
      BY <1>1, <1>3, <1>4, ListenerIs
    <2>2. listener' \in Listener BY Zenon, <1>1, <1>5, <2>1 DEF Listener
    <2> QED BY Zenon, <1>1, <1>5, <2>2 DEF Listener
  <1>d. ~(Distinct(a.old) /\ c \notin Range(a.old)) \/ Distinct(q) BY Zenon, <1>2, <1>4, AppendDistinct
  <1>r. Range(q) = Range(a.old) \cup {c} BY Zenon, <1>3, <1>4
  <1>m. MemberInv /\ c \in listener.scenario.connect /\ Range(a.old) \subseteq listener.scenario.connect
    BY Zenon DEF HSInv, MemberInv
  <1>8. \A d \in listener.scenario.connect : d = c
    <2>1. listener.scenario \in Scenarios /\ Unlucky("append") BY Zenon, <1>m, ListenerIs DEF MemberInv
    <2> QED BY Zenon, <1>m, <2>1 DEF OneAppends, Unlucky
  <1> HIDE DEF P, c, Q
  <1>9. TypeInv' BY Zenon, <1>6, <1>7 DEF HSInv, TypeInv, Routed
  <1>10. \A race : Unlucky(race)' <=> Unlucky(race) BY Zenon, <1>7 DEF Unlucky
  <1>11. MemberInv' BY Zenon, <1>6, <1>7, <1>10, <1>m, <1>r DEF MemberInv, TCBs
  <1>12. \A d \in Conns : Queued(d) => d = c
    <2>1. \A d \in Conns : Queued(d) => d \in listener.scenario.connect BY Zenon, <1>m DEF MemberInv, Queued
    <2> QED BY Zenon, <1>8, <2>1
  <1>13. Queued(c)' /\ Queued(c) BY Zenon, <1>7, <1>r DEF Queued, c
  <1>14. LostInv' BY Zenon, <1>6, <1>7, <1>12, <1>13 DEF HSInv, LostInv, TCBs, StateOf, Accepted
  <1>15. ASSUME ~Unlucky("dispatch") PROVE PeerInv' /\ OnceInv'
    <2>1. PeerInv /\ OnceInv BY Zenon, <1>15 DEF HSInv
    <2>2. PeerInv' BY Zenon, <1>6, <2>1 DEF PeerInv, TCBs, StateOf
    <2>3. a.old = <<>> /\ accept.conns = <<>> BY Zenon, <2>1 DEF OnceInv
    <2>4. Range(a.old) = {} /\ Distinct(a.old) /\ Range(accept.conns) = {} BY <2>3 DEF Range, Distinct
    <2>5. Distinct(q) BY Zenon, <1>d, <2>4
    <2>6. ASSUME NEW b \in listener.appending PROVE b = a
      <3>1. b.old = <<>> /\ b.c \in listener.scenario.connect BY Zenon, <1>m, <2>1 DEF OnceInv, MemberInv
      <3>2. b \in [c : Conns, old : Seq(Conns)] BY Zenon, ListenerIs
      <3>3. b.c = a.c BY Zenon, <1>8, <3>1 DEF c
      <3> QED BY <1>1, <2>3, <3>1, <3>2, <3>3
    <2>7. listener'.appending = {} BY Zenon, <1>7, <2>6
    <2>8. \A d \in Conns : Queued(d)' \/ Accepted(d)' => Queued(d)
      BY Zenon, <1>6, <1>7, <1>13, <1>r, <2>4, <2>7 DEF Queued, Accepted
    <2>9. OnceInv' BY Zenon, <1>6, <1>7, <2>1, <2>4, <2>5, <2>7, <2>8 DEF OnceInv, TCBs, StateOf
    <2> QED BY Zenon, <2>2, <2>9
  <1>h. ASSUME ~Unlucky("dispatch") PROVE HeldInv'
    BY Zenon, <1>6, <1>h DEF HSInv, HeldInv, TCBs
  <1>16. ASSUME ~Unlucky("dispatch"), ~Unlucky("resend") PROVE StayInv'
    BY Zenon, <1>6, <1>16 DEF HSInv, StayInv, TCBs, StateOf
  <1> QED BY Zenon, <1>9, <1>10, <1>11, <1>14, <1>15, <1>h, <1>16 DEF HSInv

LEMMA AcceptingInv ==
  ASSUME HSInv, Accepting PROVE HSInv'
  <1>1. UNCHANGED <<client, server, table, net>> BY Zenon DEF Accepting, AcceptCall, AcceptLocked
  <1>2. listener \in Listener /\ accept \in Acceptor BY Zenon, ListenerIs
  <1>3. CASE Pop /\ listener.PendingConnections # <<>> BY Zenon, <1>1, <1>3, PopInv
  <1>4. ASSUME NEW pc \in {"call", "lock", "asleep", "woken", "exit"}, NEW mutex \in {"free", "leaked"},
               accept' = [accept EXCEPT !.pc = pc], listener' = [listener EXCEPT !.mutex = mutex]
        PROVE  HSInv'
    <2>1. accept' \in Acceptor /\ accept'.conns = accept.conns BY Zenon, <1>2, <1>4 DEF Acceptor
    <2>2. /\ listener' \in Listener /\ listener'.scenario = listener.scenario
          /\ listener'.PendingConnections = listener.PendingConnections
          /\ listener'.appending = listener.appending /\ listener'.crashed = listener.crashed
      BY Zenon, <1>2, <1>4 DEF Listener
    <2> QED BY Zenon, <1>1, <2>1, <2>2, QuietInv
  <1>5. /\ listener.mutex \in {"free", "leaked"}
        /\ listener = [listener EXCEPT !.mutex = listener.mutex]
    BY Zenon, <1>2 DEF Listener
  <1>6. CASE \E pc \in {"lock", "asleep", "exit"} :
                accept' = [accept EXCEPT !.pc = pc] /\ UNCHANGED listener
    BY Zenon, <1>4, <1>5, <1>6
  <1>7. CASE accept' = [accept EXCEPT !.pc = "exit"] /\ listener' = [listener EXCEPT !.mutex = "leaked"]
    BY Zenon, <1>4, <1>7
  <1> QED BY Zenon, <1>3, <1>6, <1>7 DEF Accepting, AcceptCall, AcceptLocked

LEMMA WakeIs ==
  ASSUME HSInv PROVE WakeAccept \in Acceptor /\ WakeAccept.conns = accept.conns
  <1>1. accept \in Acceptor BY Zenon, ListenerIs
  <1>2. PICK pc : pc = IF accept.pc = "asleep" THEN "woken" ELSE accept.pc BY Zenon
  <1>3. pc \in {"call", "lock", "asleep", "woken", "exit"} BY Zenon, <1>1, <1>2 DEF Acceptor
  <1>4. WakeAccept = [accept EXCEPT !.pc = pc] BY Zenon, <1>2 DEF WakeAccept
  <1> QED BY Zenon, <1>1, <1>3, <1>4 DEF Acceptor

LEMMA PendingInv ==
  ASSUME HSInv, OneAppends, Pending PROVE HSInv'
  <1>1. CASE SignalPending
    <2>1. listener' = [listener EXCEPT !.signals = listener.signals - 1] /\ listener.signals > 0
      BY Zenon, <1>1 DEF SignalPending
    <2>2. listener \in Listener /\ listener.signals - 1 \in Nat BY <2>1, ListenerIs
    <2>3. /\ listener' \in Listener /\ listener'.scenario = listener.scenario
          /\ listener'.PendingConnections = listener.PendingConnections
          /\ listener'.appending = listener.appending /\ listener'.crashed = listener.crashed
      BY Zenon, <2>1, <2>2 DEF Listener
    <2>4. accept' \in Acceptor /\ accept'.conns = accept.conns BY Zenon, <1>1, WakeIs DEF SignalPending
    <2>5. UNCHANGED <<client, server, table, net>> BY Zenon, <1>1 DEF SignalPending
    <2> QED BY Zenon, <2>3, <2>4, <2>5, QuietInv
  <1>2. CASE \E a \in listener.appending : AppendPending(a) BY Zenon, <1>2, AppendPendingInv
  <1> QED BY Zenon, <1>1, <1>2 DEF Pending

LEMMA ClosingInv ==
  ASSUME HSInv, CloseListener \/ Closing PROVE HSInv'
  <1>1. listener \in Listener /\ accept \in Acceptor BY Zenon, ListenerIs
  <1>2. UNCHANGED <<client, server, table, net>> BY Zenon DEF CloseListener, Closing, CloseSignals, CloseDeletes
  <1>3. accept' \in Acceptor /\ accept'.conns = accept.conns
    BY Zenon, <1>1, WakeIs DEF CloseListener, Closing, CloseSignals, CloseDeletes
  <1>4. \/ listener' = [listener EXCEPT !.Cancelled = TRUE, !.close = "signal"]
        \/ listener' = [listener EXCEPT !.close = "delete"]
        \/ listener' = [listener EXCEPT !.close = "done", !.inTable = FALSE]
    BY Zenon DEF CloseListener, Closing, CloseSignals, CloseDeletes
  <1>5. /\ listener' \in Listener /\ listener'.scenario = listener.scenario
        /\ listener'.PendingConnections = listener.PendingConnections
        /\ listener'.appending = listener.appending /\ listener'.crashed = listener.crashed
    BY ZenonT(90), <1>1, <1>4 DEF Listener
  <1> QED BY Zenon, <1>2, <1>3, <1>5, QuietInv

-----------------------------------------------------------------------------
(* The theorems.                                                           *)

LEMMA InitHS ==
  ASSUME Init PROVE HSInv
  <1>1. PICK s \in Scenarios :
          listener = [scenario |-> s, inTable |-> TRUE, Cancelled |-> FALSE, PendingConnections |-> <<>>,
                      mutex |-> "free", close |-> "no", crashed |-> FALSE, appending |-> {}, signals |-> 0]
    BY Zenon DEF Init
  <1>2. \A c \in Conns : TCBs(c) = {} BY DEF Init, TCBs
  <1>3. TypeInv
    <2>1. 0 \in 0 .. MAX_RETRANSMISSIONS BY Counts
    <2>2. client \in [Conns -> ClientTCB] BY Zenon, <2>1 DEF Init, ClientTCB
    <2>3. server \in [Conns -> Seq(ServerTCB)] /\ \A c \in Conns : Len(server[c]) = 0 BY DEF Init
    <2>4. table \in [Conns -> Nat] /\ \A c \in Conns : table[c] = 0 BY Zenon DEF Init
    <2>5. listener \in Listener BY SMTT(30), <1>1 DEF Listener
    <2>6. accept \in Acceptor BY DEF Init, Acceptor
    <2>7. \A c \in Conns : Len(server[c]) <= MaxTCBs /\ table[c] <= Len(server[c])
      BY <2>3, <2>4, Counts
    <2> QED BY Zenon, <2>2, <2>3, <2>4, <2>5, <2>6, <2>7 DEF TypeInv, Init
  <1>4. listener.PendingConnections = <<>> /\ listener.appending = {} /\ accept.conns = <<>> /\ net = {}
    BY Zenon, <1>1 DEF Init
  <1>5. Range(<<>>) = {} /\ Distinct(<<>>) BY DEF Range, Distinct
  <1>6. MemberInv BY Zenon, <1>2, <1>4, <1>5 DEF MemberInv, Init
  <1>7. LostInv BY Zenon, <1>2 DEF LostInv
  <1>8. PeerInv
    <2>1. \A c \in Conns : /\ client[c].connect = "no" /\ client[c].peer = 0 /\ client[c].State = "CLOSED"
                           /\ client[c].offers = {} /\ Len(server[c]) = 0
      BY Zenon DEF Init
    <2> QED BY <1>2, <1>4, <2>1 DEF PeerInv
  <1>9. OnceInv BY Zenon, <1>4, <1>5 DEF OnceInv, Queued, Accepted
  <1>10. HeldInv /\ StayInv BY Zenon, <1>2 DEF HeldInv, StayInv
  <1> QED BY Zenon, <1>3, <1>6, <1>7, <1>8, <1>9, <1>10 DEF HSInv

LEMMA NextHS ==
  ASSUME HSInv, OneAppends, [Next]_vars PROVE HSInv'
  <1>1. CASE UNCHANGED vars
    <2>1. UNCHANGED <<client, serverVars>> /\ net' \subseteq net BY Zenon, <1>1 DEF vars, serverVars
    <2> QED BY Zenon, <2>1, DropInv
  <1>2. ASSUME NEW c \in Conns, Connecting(c) PROVE HSInv'
    BY Zenon, <1>2, ConnectInv, ConnectResendInv, ConnectReturnsInv DEF Connecting
  <1>3. ASSUME NEW c \in Conns, Arriving(c) PROVE HSInv' BY Zenon, <1>3, ArrivingInv
  <1>4. ASSUME NEW c \in Conns, NEW k \in 1 .. MaxTCBs, WaitForAckReceiver(c, k) \/ TokenTaken(c, k)
        PROVE  HSInv'
    <2>1. k \in Nat BY Counts
    <2> QED BY Zenon, <1>4, <2>1, AckResendInv, AckResentInv, AckTimesOutInv, TokenTakenInv DEF WaitForAckReceiver
  <1>5. CASE Accepting BY Zenon, <1>5, AcceptingInv
  <1>6. CASE Pending BY Zenon, <1>6, PendingInv
  <1>7. CASE CloseListener \/ Closing BY Zenon, <1>7, ClosingInv
  <1>8. ASSUME NEW m \in net, Dispatch(m) PROVE HSInv' BY Zenon, <1>8, DispatchInv
  <1>9. ASSUME NEW m \in net, Lose(m) PROVE HSInv'
    <2>1. UNCHANGED <<client, serverVars>> /\ net' \subseteq net BY Zenon, <1>9 DEF Lose
    <2> QED BY Zenon, <2>1, DropInv
  <1> QED BY Zenon, <1>1, <1>2, <1>3, <1>4, <1>5, <1>6, <1>7, <1>8, <1>9 DEF Next
\* Whatever the schedule, the invariant holds when only one connection at a
\* time is added to PendingConnections.
THEOREM HandshakeInvariance ==
  ASSUME OneAppends PROVE Spec => []HSInv
  <1>1. Init => HSInv BY Zenon, InitHS
  <1>2. HSInv /\ [Next]_vars => HSInv' BY Zenon, NextHS
  <1> QED BY <1>1, <1>2, PTL DEF Spec

\* The TCBs of both ends, the table and the packets are of their types, the
\* retransmission counters of Connect and WaitForAckReceiver stay within
\* MAX_RETRANSMISSIONS.
THEOREM HandshakeTypes ==
  ASSUME OneAppends PROVE Spec => []TypeOK
  <1>1. ASSUME HSInv PROVE TypeOK
    <2>1. TypeInv BY Zenon, <1>1 DEF HSInv
    <2>2. client \in [Conns -> [State : ConnStates, peer : {0} \cup Indices, offers : SUBSET Indices,
                                connect : {"no", "select", "done", "error", "unreachable", "hangs"},
                                RetransmitCounter : 0 .. MAX_RETRANSMISSIONS]]
      BY Zenon, <2>1 DEF TypeInv, ClientTCB, ConnStates
    <2>3. ASSUME NEW c \in Conns, NEW k \in 1 .. Len(server[c])
          PROVE  server[c][k] \in [State : ConnStates, RetransmitCounter : 0 .. MAX_RETRANSMISSIONS,
                                   wait : {"select", "resend", "exit"}, token : Nat,
                                   waitTimeout : BOOLEAN]
      <3>1. server[c][k] \in ServerTCB BY Zenon, <1>1, TCBIs DEF TCBs
      <3> QED BY Zenon, <3>1 DEF ServerTCB, ConnStates
    <2>4. \A c \in Conns : table[c] \in 0 .. Len(server[c]) BY <2>1 DEF TypeInv
    <2>5. \A m \in net : m.k \in {0} \cup Indices /\ m.flags \in {"SYN", "SYN|ACK", "ACK"}
      BY Zenon, <2>1 DEF TypeInv, PacketSet
    <2>6. /\ accept.pc \in {"call", "lock", "asleep", "woken", "exit"}
          /\ listener.mutex \in {"free", "leaked"}
          /\ listener.close \in {"no", "signal", "delete", "done"}
      BY Zenon, <2>1 DEF TypeInv, Acceptor, Listener
    <2> QED BY Zenon, <2>2, <2>3, <2>4, <2>5, <2>6 DEF TypeOK
  <1> QED BY <1>1, HandshakeInvariance, PTL

\* A connection that is established is queued until Accept has returned it,
\* unless its ACK came after the listener was gone.
THEOREM NoneLost ==
  ASSUME OneAppends PROVE Spec => []NothingLost
  <1>1. ASSUME HSInv PROVE NothingLost
    <2> SUFFICES ASSUME NEW c \in Conns, Established(c)
                 PROVE  Queued(c) \/ Accepted(c) \/ listener.crashed
      BY Zenon DEF NothingLost
    <2>1. table[c] \in TCBs(c) BY <1>1 DEF HSInv, TypeInv, TCBs, Established
    <2> QED BY Zenon, <1>1, <2>1 DEF HSInv, LostInv, StateOf, Established
  <1> QED BY <1>1, HandshakeInvariance, PTL

\* The server's established TCB is the one that the client acknowledged.
THEOREM PeersAgree ==
  ASSUME OneAppends PROVE Spec => []SamePeer
  <1>1. ASSUME HSInv PROVE SamePeer
    BY Zenon, <1>1 DEF HSInv, PeerInv, StateOf, TCBs, SamePeer
  <1> QED BY <1>1, HandshakeInvariance, PTL

\* Accept returns a connection once.
THEOREM ReturnedOnce ==
  ASSUME OneAppends PROVE Spec => []AcceptedOnce
  <1>1. ASSUME HSInv, ~Unlucky("dispatch"), NEW i, NEW j,
               i \in 1 .. Len(accept.conns \o listener.PendingConnections),
               j \in 1 .. Len(accept.conns \o listener.PendingConnections),
               (accept.conns \o listener.PendingConnections)[i]
                 = (accept.conns \o listener.PendingConnections)[j]
        PROVE  i = j
    <2>1. PICK A \in Seq(Conns) : A = accept.conns BY Zenon, <1>1, ListenerIs
    <2>2. PICK P \in Seq(Conns) : P = listener.PendingConnections BY Zenon, <1>1, ListenerIs
    <2>3. Distinct(A) /\ Distinct(P) /\ Range(A) \cap Range(P) = {}
      BY Zenon, <1>1, <2>1, <2>2 DEF HSInv, OnceInv
    <2>4. /\ Len(A) \in Nat /\ Len(P) \in Nat /\ Len(A \o P) = Len(A) + Len(P)
          /\ \A n \in 1 .. Len(A) : (A \o P)[n] = A[n] /\ A[n] \in Range(A)
          /\ \A n \in 1 .. Len(P) : P[n] \in Range(P)
      BY DEF Range
    <2>5. \A n \in 1 .. Len(A \o P) : n \notin 1 .. Len(A)
             => (A \o P)[n] = P[n - Len(A)] /\ n - Len(A) \in 1 .. Len(P)
      BY <2>4
    <2>6. i \in 1 .. Len(A \o P) /\ j \in 1 .. Len(A \o P) /\ (A \o P)[i] = (A \o P)[j]
      BY Zenon, <1>1, <2>1, <2>2
    <2>7. CASE i \in 1 .. Len(A) /\ j \in 1 .. Len(A) BY Zenon, <2>3, <2>4, <2>6, <2>7 DEF Distinct
    <2>8. CASE i \notin 1 .. Len(A) /\ j \notin 1 .. Len(A)
      <3>1. i - Len(A) = j - Len(A) BY Zenon, <2>3, <2>5, <2>6, <2>8 DEF Distinct
      <3> QED BY <2>4, <2>6, <3>1
    <2>9. CASE i \in 1 .. Len(A) /\ j \notin 1 .. Len(A) BY Zenon, <2>3, <2>4, <2>5, <2>6, <2>9
    <2>10. CASE i \notin 1 .. Len(A) /\ j \in 1 .. Len(A) BY Zenon, <2>3, <2>4, <2>5, <2>6, <2>10
    <2> QED BY Zenon, <2>7, <2>8, <2>9, <2>10
  <1>2. ASSUME HSInv PROVE AcceptedOnce BY Zenon, <1>1, <1>2 DEF AcceptedOnce
  <1> QED BY <1>2, HandshakeInvariance, PTL
\* Whatever becomes of one TCB, the others stay.
LEMMA OthersStay ==
  ASSUME HSInv, NEW d \in Conns, NEW j, NEW u, server' = [server EXCEPT ![d][j] = u],
         NEW c \in Conns, NEW k \in TCBs(c), c # d \/ k # j
  PROVE  server'[c][k] = server[c][k]
  <1>1. server \in [Conns -> Seq(ServerTCB)] BY Zenon DEF HSInv, TypeInv
  <1>2. CASE c # d BY Zenon, <1>1, <1>2
  <1>3. CASE c = d /\ k # j
    <2>1. PICK s \in Seq(ServerTCB) : s = server[d] BY Zenon, <1>1
    <2>2. server'[c] = [s EXCEPT ![j] = u] BY Zenon, <1>1, <1>3, <2>1
    <2>3. k \in DOMAIN s BY <1>3, <2>1 DEF TCBs
    <2> QED BY Zenon, <1>3, <2>1, <2>2, <2>3
  <1> QED BY Zenon, <1>2, <1>3

\* No step takes an established connection out of the table, or closes it.
LEMMA StaysStep ==
  ASSUME HSInv, [Next]_vars, NEW c \in Conns, Established(c), ~Unlucky("dispatch"),
         Unlucky("resend") => Returned(c)
  PROVE  Established(c)' /\ table'[c] = table[c]
  <1>1. PICK k : k = table[c] BY Zenon
  <1>2. /\ k \in TCBs(c) /\ server[c][k].State = "ESTABLISHED" /\ server[c][k].wait = "exit"
        /\ HeldInv /\ TypeInv /\ k # 0
    <2>1. k \in TCBs(c) /\ server[c][k].State = "ESTABLISHED" /\ k # 0
      BY <1>1 DEF HSInv, TypeInv, TCBs, Established
    <2>2. CASE Unlucky("resend") BY Zenon, <1>1, <2>1, <2>2 DEF HSInv, Returned
    <2>3. CASE ~Unlucky("resend") BY Zenon, <2>1, <2>3 DEF HSInv, StayInv, StateOf
    <2> QED BY Zenon, <2>1, <2>2, <2>3
  <1> SUFFICES server'[c][k].State = "ESTABLISHED" /\ table'[c] = table[c] BY Zenon, <1>1, <1>2 DEF Established
  <1>3. CASE UNCHANGED <<server, table>> BY Zenon, <1>2, <1>3
  <1>4. ASSUME NEW d \in Conns, NEW j, NEW u, server' = [server EXCEPT ![d][j] = u],
               d # c \/ j # k, table'[c] = table[c]
        PROVE  server'[c][k].State = "ESTABLISHED" /\ table'[c] = table[c]
    BY <1>2, <1>4, OthersStay
  <1>5. ASSUME NEW d \in Conns, NEW j \in 1 .. MaxTCBs, WaitForAckReceiver(d, j)
        PROVE  server'[c][k].State = "ESTABLISHED" /\ table'[c] = table[c]
    <2>1. /\ j \in TCBs(d) /\ server[d][j].wait # "exit"
          /\ \E u : server' = [server EXCEPT ![d][j] = u]
      BY SMTT(30), <1>5 DEF WaitForAckReceiver, AckResend, AckResent, AckTimesOut, Waits, TCBs
    <2>2. d # c \/ j # k BY Zenon, <1>2, <2>1
    <2>3. j = table[d] BY Zenon, <1>2, <2>1 DEF HeldInv
    <2>4. table' = table \/ table' = [table EXCEPT ![d] = 0]
      BY Zenon, <1>5 DEF WaitForAckReceiver, AckResend, AckResent, AckTimesOut
    <2>5. table'[c] = table[c] BY Zenon, <1>1, <1>2, <2>2, <2>3, <2>4 DEF TypeInv
    <2> QED BY Zenon, <1>4, <2>1, <2>2, <2>5
  <1>6. ASSUME NEW d \in Conns, NEW j \in 1 .. MaxTCBs, TokenTaken(d, j)
        PROVE  server'[c][k].State = "ESTABLISHED" /\ table'[c] = table[c]
    <2>1. PICK u : u = [server[d][j] EXCEPT !.token = server[d][j].token - 1] BY Zenon
    <2>2. server' = [server EXCEPT ![d][j] = u] /\ table' = table /\ j \in TCBs(d)
      BY Zenon, <1>6, <2>1 DEF TokenTaken, TCBs
    <2>3. CASE d = c /\ j = k
      <3>1. PICK s \in Seq(ServerTCB) : s = server[c] BY Zenon, <1>2 DEF TypeInv
      <3>2. server'[c] = [s EXCEPT ![k] = u] BY Zenon, <1>2, <2>2, <2>3, <3>1 DEF TypeInv
      <3>3. k \in DOMAIN s BY <1>2, <3>1 DEF TCBs
      <3>4. server'[c][k] = u BY Zenon, <3>1, <3>2, <3>3
      <3>5. server[c][k] \in ServerTCB BY Zenon, <1>2, TCBIs
      <3>6. u.State = server[c][k].State BY Zenon, <2>1, <2>3, <3>5 DEF ServerTCB
      <3> QED BY Zenon, <1>2, <2>2, <3>4, <3>6
    <2>4. CASE d # c \/ j # k BY Zenon, <1>4, <2>2, <2>4
    <2> QED BY Zenon, <2>3, <2>4
  <1>7. ASSUME NEW m, NEW j, NEW state, NEW rest, Chosen(state, m, j), Handle(state, m, j, rest)
        PROVE  server'[c][k].State = "ESTABLISHED" /\ table'[c] = table[c]
    <2>1. m.c \in Conns BY Zenon, <1>7 DEF Chosen, HSInv, TypeInv, PacketSet
    <2>2. CASE state = "SYN_SENT" /\ HandleStateSynSent(m, rest)
      BY Zenon, <1>3, <2>2 DEF HandleStateSynSent, serverVars
    <2>3. CASE state = "LISTEN" /\ HandleStateListen(m, rest)
      <3>1. CASE UNCHANGED <<server, table>> BY Zenon, <1>3, <3>1
      <3>2. CASE /\ server' = [server EXCEPT ![m.c] = Append(@, NewTCB)]
                 /\ table' = [table EXCEPT ![m.c] = Len(server[m.c]) + 1]
        <4>1. m.c # c BY Zenon, <1>1, <1>2, <1>7, <2>3 DEF Chosen
        <4>2. server'[c] = server[c] /\ table'[c] = table[c] BY Zenon, <1>2, <2>1, <3>2, <4>1 DEF TypeInv
        <4> QED BY Zenon, <1>2, <4>2
      <3> QED BY Zenon, <2>3, <3>1, <3>2 DEF HandleStateListen
    <2>4. CASE state = "SYN_RECEIVED" /\ HandleStateSynReceived(m, j, rest)
      <3>1. CASE UNCHANGED <<server, table>> BY Zenon, <1>3, <3>1
      <3>2. CASE server' = [server EXCEPT ![m.c][j] = Acknowledged(@)] /\ table' = table
        <4>1. server[m.c][j].State = "SYN_RECEIVED" BY Zenon, <1>7, <2>4 DEF Chosen, StateOf
        <4>2. m.c # c \/ j # k BY Zenon, <1>2, <4>1
        <4>3. PICK u : u = Acknowledged(server[m.c][j]) BY Zenon
        <4>4. server' = [server EXCEPT ![m.c][j] = u] BY Zenon, <3>2, <4>3
        <4> QED BY Zenon, <1>4, <2>1, <3>2, <4>2, <4>4
      <3> QED BY Zenon, <2>4, <3>1, <3>2 DEF HandleStateSynReceived, serverVars
    <2>5. CASE UNCHANGED serverVars BY Zenon, <1>3, <2>5 DEF serverVars
    <2> QED BY Zenon, <1>7, <2>2, <2>3, <2>4, <2>5 DEF Handle
  <1>8. ASSUME NEW d \in Conns, Arriving(d)
        PROVE  server'[c][k].State = "ESTABLISHED" /\ table'[c] = table[c]
    <2>1. PICK m \in net : ReceivePacket(m) \/ HandlerRuns(m) BY Zenon, <1>8 DEF Arriving
    <2>2. CASE ReceivePacket(m)
      <3>1. PICK rest \in {net \ {m}, net} : Handle(Lookup(m), m, table[m.c], rest)
        BY Zenon, <2>2 DEF ReceivePacket
      <3> QED BY Zenon, <1>7, <3>1, ChosenAtOnce
    <2>3. CASE HandlerRuns(m)
      <3>1. m.at # "wire" /\ Handle(m.at, m, m.on, net \ {m}) BY Zenon, <2>3 DEF HandlerRuns
      <3> QED BY Zenon, <1>7, <3>1, ChosenBefore
    <2> QED BY Zenon, <2>1, <2>2, <2>3
  <1>9. CASE UNCHANGED vars BY Zenon, <1>3, <1>9 DEF vars
  <1>10. ASSUME NEW d \in Conns, Connecting(d) PROVE UNCHANGED <<server, table>>
    BY Zenon, <1>10 DEF Connecting, Connect, ConnectError, ConnectHangs, ConnectResend, ConnectTimesOut,
                        ConnectReturns, serverVars
  <1>11. ASSUME Accepting \/ Pending \/ CloseListener \/ Closing PROVE UNCHANGED <<server, table>>
    BY Zenon, <1>11 DEF Accepting, AcceptCall, AcceptLocked, Pending, SignalPending, AppendPending,
                 CloseListener, Closing, CloseSignals, CloseDeletes
  <1>12. ASSUME NEW m \in net, Dispatch(m) \/ Lose(m) PROVE UNCHANGED <<server, table>>
    BY Zenon, <1>12 DEF Dispatch, Lose, serverVars
  <1> QED BY Zenon, <1>3, <1>5, <1>6, <1>8, <1>9, <1>10, <1>11, <1>12 DEF Next

\* No timer, handler or packet takes an established connection out of the table or
\* closes it, where handlers do not run late ("dispatch") and WaitForAckReceiver
\* has returned or no retransmission of it can miss the token ("resend").
THEOREM Stays ==
  ASSUME OneAppends PROVE Spec => EstablishedStays
  <1>1. ASSUME HSInv, [Next]_vars
        PROVE  [\A c \in Conns : Established(c) /\ ~Unlucky("dispatch") /\ (Unlucky("resend") => Returned(c))
                                   => Established(c)' /\ table'[c] = table[c]]_vars
    BY Zenon, <1>1, StaysStep
  <1> QED BY <1>1, HandshakeInvariance, PTL DEF Spec, EstablishedStays
=============================================================================
