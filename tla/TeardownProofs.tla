--------------------------- MODULE TeardownProofs ---------------------------
(***************************************************************************)
(* Closing connections, for every number of retransmissions and of faults  *)
(* of the network: the FIN comes after the data at either end, an          *)
(* acknowledgment that is taken for one of the FIN is one, and the states  *)
(* follow the diagram but for the moves that FollowsDiagram lists.         *)
(***************************************************************************)
EXTENDS Teardown, TLAPS

-----------------------------------------------------------------------------
(* The scenarios. Either end may close first, or both, but of two that may *)
(* at most one writes: otherwise an early FIN can take an end from         *)
(* FIN_WAIT_1 to CLOSE_WAIT, where a Write appends behind its own FIN.     *)
(* Handlers run late only at an end that neither writes nor closes first.  *)

Late(t) == "dispatch" \in t.app.races
MayCloseFirst(app) == "ESTABLISHED" \in app.closes

Orderly ==
    \A s \in Scenarios : \A i \in Ends :
        /\ MayCloseFirst(s[i]) /\ MayCloseFirst(s[Peer(i)]) => ~s[i].writes \/ ~s[Peer(i)].writes
        /\ "dispatch" \in s[i].races => ~s[i].writes /\ ~MayCloseFirst(s[i])

-----------------------------------------------------------------------------
(* The inductive invariant.                                                *)

PacketSet == [to : Ends, at : {"wire", "RECEIVE"} \cup States, seq : Nat, ack : Nat,
              len : {0, 1}, fin : BOOLEAN]

FromISS == {ISS} \cup Seqs

TCB == [app : App, State : States, UNA : FromISS, NXT : Nat, LBW : Nat, RCVNXT : Nat,
        LBR : Seqs, PendingReceivedFin : Nat, Queue : Seq(PacketSet),
        RetransmitCounter : 0 .. MAX_RETRANSMISSIONS,
        Cancelled : BOOLEAN, TimeoutCancelled : BOOLEAN, PendingSendingFin : BOOLEAN,
        ReadCancelled : BOOLEAN, WriteCancelled : BOOLEAN, ResetWaitChan : BOOLEAN,
        inTable : BOOLEAN, lock : {"free", "leaked", "reset", "notify"},
        send : {"run", "asleep", "rto", "exit"},
        close : {"no", "enter", "data", "woken", "rto", "chan", "done", "panic"},
        write : {"no", "entered", "done"}, read : {"run", "asleep", "woken", "eof", "error"},
        timer : {"select", "fired", "exit"}, waiting : Nat, expired : Nat]

FinSent(t) == t.close \in {"rto", "chan", "done"}
CloseCalled(t) == t.close \notin {"no", "panic"}
Open == {"ESTABLISHED", "FIN_WAIT_1", "FIN_WAIT_2"}
Ending == {"CLOSING", "TIME_WAIT"}

\* what an end knows by itself
Own(t) ==
    /\ t.LBW \in {FirstByte, FirstByte + 1} /\ t.LBR <= t.RCVNXT
    /\ t.write # "done" => t.LBW = FirstByte
    /\ t.write # "no" => t.app.writes
    /\ FinSent(t) => t.NXT = t.LBW + 1 /\ t.Cancelled /\ t.State # "ESTABLISHED"
    /\ FinSent(t) /\ t.State = "CLOSE_WAIT"
         => Late(t) \/ (t.PendingReceivedFin # 0 /\ MayCloseFirst(t.app))
    /\ ~FinSent(t) => /\ t.NXT >= FirstByte /\ t.NXT <= t.LBW
                      /\ \/ t.State \in {"ESTABLISHED", "CLOSE_WAIT"}
                         \/ t.State = "CLOSED" /\ t.TimeoutCancelled
    /\ t.TimeoutCancelled => ~t.inTable
    /\ Late(t) => /\ t.State \in {"ESTABLISHED", "CLOSE_WAIT", "LAST_ACK", "CLOSED"}
                  /\ t.State = "CLOSED" => FinSent(t)
    /\ t.waiting + t.expired = IF t.State = "TIME_WAIT" THEN 1 ELSE 0
    /\ CloseCalled(t) /\ t.State = "ESTABLISHED" => MayCloseFirst(t.app)

\* what end t knows about its peer p
Cross(t, p) ==
    /\ t.RCVNXT >= FirstByte /\ t.RCVNXT <= p.LBW + 1
    /\ t.State \in Open \/ ~FinSent(t) \/ ~FinSent(p) => t.RCVNXT <= p.LBW
    /\ t.State \in {"CLOSE_WAIT", "LAST_ACK"} \/ (Late(t) /\ t.State # "ESTABLISHED")
         => t.RCVNXT = p.LBW /\ FinSent(p)
    /\ t.State \in Ending \/ (t.State = "CLOSED" /\ ~t.TimeoutCancelled)
         => t.RCVNXT >= p.LBW /\ FinSent(p)
    /\ t.ResetWaitChan => t.RCVNXT = p.LBW + 1 /\ FinSent(p)
    /\ CloseCalled(t) => \/ MayCloseFirst(t.app)
                         \/ FinSent(p) /\ MayCloseFirst(p.app) /\ t.RCVNXT >= p.LBW
    /\ t.PendingReceivedFin # 0
         => /\ t.PendingReceivedFin = p.LBW /\ p.LBW > FirstByte
            /\ FinSent(p) /\ MayCloseFirst(p.app)
    /\ t.read = "eof" /\ ~t.TimeoutCancelled => FinSent(p) /\ t.LBR = p.LBW

\* a packet that s has sent to d
Sent(m, s, d) ==
    /\ m.seq >= FirstByte /\ m.seq <= s.LBW + 1
    /\ m.ack = 0 \/ m.ack >= FirstByte
    /\ m.ack <= d.LBW + 1
    /\ ~FinSent(d) => m.ack <= d.LBW
    /\ m.len = 1 => ~m.fin /\ m.seq = FirstByte /\ s.LBW = FirstByte + 1
    /\ m.fin => FinSent(s) /\ m.seq = s.LBW /\ m.ack # 0

\* a handler at work for d
At(m, d) ==
    /\ m.at = "RECEIVE" => ~Late(d) /\ FinSent(d)
    /\ m.at \in States => /\ Late(d) /\ m.at \in {"ESTABLISHED", "CLOSE_WAIT", "LAST_ACK", "CLOSED"}
                          /\ m.at = "LAST_ACK" => FinSent(d)

QueueOf(i) == \A k \in 1 .. Len(tcb[i].Queue) :
    LET m == tcb[i].Queue[k]
    IN  m.to = Peer(i) /\ m.at = "wire" /\ (m.len = 1 \/ m.fin) /\ Sent(m, tcb[i], tcb[Peer(i)])

\* p has all that t sent
Got(t, p) == /\ FinSent(t) /\ p.State \notin Open
             /\ p.RCVNXT >= t.LBW + IF p.State \in Ending THEN 1 ELSE 0

\* what an acknowledgment of the FIN means while nobody has given up
SentDone(m, s, d) == m.ack = d.LBW + 1 => Got(d, s)

TypeInv == /\ tcb \in [Ends -> TCB] /\ net \subseteq PacketSet /\ faults \in 0 .. Faults
           /\ \E s \in Scenarios : \A i \in Ends : tcb[i].app = s[i]

NoneGaveUp == \A i \in Ends : ~tcb[i].TimeoutCancelled

DoneInv ==
    /\ \A i \in Ends : \A k \in 1 .. Len(tcb[i].Queue) :
          SentDone(tcb[i].Queue[k], tcb[i], tcb[Peer(i)])
    /\ \A m \in net : SentDone(m, tcb[Peer(m.to)], tcb[m.to])

TDInv ==
    /\ TypeInv
    /\ \A i \in Ends : Own(tcb[i]) /\ Cross(tcb[i], tcb[Peer(i)]) /\ QueueOf(i)
    /\ \A m \in net : Sent(m, tcb[Peer(m.to)], tcb[m.to]) /\ At(m, tcb[m.to])
    /\ NoneGaveUp => DoneInv

-----------------------------------------------------------------------------
(* The types of the fields.                                                *)

LEMMA RCVNXTType ==
  ASSUME NEW t \in TCB, NEW n \in Nat PROVE [t EXCEPT !.RCVNXT = n] \in TCB
  BY ZenonT(60) DEF TCB
LEMMA NXTType ==
  ASSUME NEW t \in TCB, NEW n \in Nat PROVE [t EXCEPT !.NXT = n] \in TCB
  BY ZenonT(60) DEF TCB
LEMMA LBRType ==
  ASSUME NEW t \in TCB, NEW n \in Seqs PROVE [t EXCEPT !.LBR = n] \in TCB
  BY ZenonT(60) DEF TCB
LEMMA UNAType ==
  ASSUME NEW t \in TCB, NEW n \in FromISS PROVE [t EXCEPT !.UNA = n] \in TCB
  BY ZenonT(60) DEF TCB
LEMMA FinType ==
  ASSUME NEW t \in TCB, NEW n \in Nat PROVE [t EXCEPT !.PendingReceivedFin = n] \in TCB
  BY ZenonT(60) DEF TCB
LEMMA WaitingType ==
  ASSUME NEW t \in TCB, NEW n \in Nat PROVE [t EXCEPT !.waiting = n] \in TCB
  BY ZenonT(60) DEF TCB
LEMMA CounterType ==
  ASSUME NEW t \in TCB, NEW n \in 0 .. MAX_RETRANSMISSIONS PROVE [t EXCEPT !.RetransmitCounter = n] \in TCB
  BY ZenonT(60) DEF TCB
LEMMA QueueType ==
  ASSUME NEW t \in TCB, NEW q \in Seq(PacketSet) PROVE [t EXCEPT !.Queue = q] \in TCB
  BY ZenonT(60) DEF TCB
LEMMA StateType ==
  ASSUME NEW t \in TCB, NEW s \in States PROVE [t EXCEPT !.State = s] \in TCB
  BY ZenonT(60) DEF TCB
LEMMA ReadType ==
  ASSUME NEW t \in TCB, NEW r \in {"run", "asleep", "woken", "eof", "error"} PROVE [t EXCEPT !.read = r] \in TCB
  BY SMTT(30) DEF TCB
LEMMA LockType ==
  ASSUME NEW t \in TCB, NEW l \in {"free", "leaked", "reset", "notify"} PROVE [t EXCEPT !.lock = l] \in TCB
  BY ZenonT(60) DEF TCB
LEMMA SendType ==
  ASSUME NEW t \in TCB, NEW x \in {"run", "asleep", "rto", "exit"} PROVE [t EXCEPT !.send = x] \in TCB
  BY ZenonT(60) DEF TCB
LEMMA CloseType ==
  ASSUME NEW t \in TCB, NEW c \in {"no", "enter", "data", "woken", "rto", "chan", "done", "panic"} PROVE [t EXCEPT !.close = c] \in TCB
  BY SMTT(30) DEF TCB
LEMMA TimerType ==
  ASSUME NEW t \in TCB, NEW x \in {"select", "fired", "exit"} PROVE [t EXCEPT !.timer = x] \in TCB
  BY SMTT(30) DEF TCB
LEMMA TableType ==
  ASSUME NEW t \in TCB, NEW b \in BOOLEAN PROVE [t EXCEPT !.inTable = b] \in TCB
  BY ZenonT(60) DEF TCB
LEMMA ResetType ==
  ASSUME NEW t \in TCB, NEW b \in BOOLEAN PROVE [t EXCEPT !.ResetWaitChan = b] \in TCB
  BY ZenonT(60) DEF TCB

-----------------------------------------------------------------------------
(* One end takes a step.                                                   *)

Nobody(t, p) == ~t.TimeoutCancelled /\ ~p.TimeoutCancelled

\* what the peer and the packets need of a step from t to u
Mono(t, u) ==
    /\ u.app = t.app /\ t.LBW <= u.LBW /\ t.RCVNXT <= u.RCVNXT
    /\ t.TimeoutCancelled => u.TimeoutCancelled
    /\ FinSent(t) => FinSent(u) /\ u.LBW = t.LBW
    /\ ~u.TimeoutCancelled /\ t.State \notin Open
         => u.State \notin Open /\ (u.State \in Ending => t.State \in Ending)

\* a packet that is new at end u of i, from it or back to one of its handlers
Out(m, i, u, p) == /\ m.to = Peer(i) /\ m.at = "wire" /\ Sent(m, u, p)
                   /\ Nobody(u, p) => SentDone(m, u, p)
Back(m, i, u, p) == /\ m.to = i /\ Sent(m, p, u) /\ At(m, u)
                    /\ Nobody(u, p) => SentDone(m, p, u)

GoodEnd(i, u) ==
    LET t == tcb[i]
        p == tcb[Peer(i)]
    IN  /\ u \in TCB /\ Mono(t, u) /\ Own(u) /\ Cross(u, p)
        /\ \A k \in 1 .. Len(u.Queue) :
              \/ \E n \in 1 .. Len(t.Queue) : u.Queue[k] = t.Queue[n]
              \/ Out(u.Queue[k], i, u, p) /\ (u.Queue[k].len = 1 \/ u.Queue[k].fin)

GoodNet(i, u) ==
    /\ net' \subseteq PacketSet
    /\ \A m \in net' : m \in net \/ Out(m, i, u, tcb[Peer(i)]) \/ Back(m, i, u, tcb[Peer(i)])

LEMMA PeerIs ==
  ASSUME NEW i \in Ends
  PROVE  /\ Peer(i) \in Ends /\ Peer(i) # i /\ Peer(Peer(i)) = i
         /\ \A j \in Ends : j = i \/ j = Peer(i)
  BY Zenon DEF Peer, Ends

LEMMA CrossKept ==
  ASSUME NEW t \in TCB, NEW u \in TCB, NEW p \in TCB, Mono(t, u), Cross(p, t)
  PROVE  Cross(p, u)
  <1>1. t.LBW \in Nat /\ u.LBW \in Nat /\ p.RCVNXT \in Nat /\ p.PendingReceivedFin \in Nat
    BY Zenon DEF TCB
  <1> QED BY <1>1 DEF Mono, Cross, FirstByte, ISS

LEMMA SentFromKept ==
  ASSUME NEW t \in TCB, NEW u \in TCB, NEW d, NEW m \in PacketSet, Mono(t, u), Own(u), Sent(m, t, d)
  PROVE  Sent(m, u, d)
  <1>1. t.LBW \in Nat /\ u.LBW \in Nat /\ m.seq \in Nat BY Zenon DEF TCB, PacketSet
  <1> QED BY <1>1 DEF Mono, Sent, Own, FirstByte, ISS

LEMMA SentToKept ==
  ASSUME NEW t \in TCB, NEW u \in TCB, NEW s, NEW m \in PacketSet, Mono(t, u), Sent(m, s, t)
  PROVE  Sent(m, s, u)
  <1>1. t.LBW \in Nat /\ u.LBW \in Nat /\ m.ack \in Nat BY Zenon DEF TCB, PacketSet
  <1> QED BY <1>1 DEF Mono, Sent

LEMMA AtKept ==
  ASSUME NEW t, NEW u, NEW m, Mono(t, u), At(m, t)
  PROVE  At(m, u)
  BY Zenon DEF Mono, At, Late

LEMMA GotKept ==
  ASSUME NEW t \in TCB, NEW u \in TCB, NEW d, Mono(t, u), ~u.TimeoutCancelled
  PROVE  (Got(d, t) => d.LBW \notin Nat \/ Got(d, u)) /\ (Got(t, d) => Got(u, d))
  <1>1. t.RCVNXT \in Nat /\ u.RCVNXT \in Nat BY Zenon DEF TCB
  <1> QED BY <1>1 DEF Mono, Got

LEMMA SentDoneKept ==
  ASSUME NEW t \in TCB, NEW u \in TCB, NEW p \in TCB, NEW m \in PacketSet, Mono(t, u), ~u.TimeoutCancelled
  PROVE  /\ SentDone(m, t, p) => SentDone(m, u, p)
         /\ Sent(m, p, t) /\ SentDone(m, p, t) => SentDone(m, p, u)
  <1>1. p.LBW \in Nat /\ t.LBW \in Nat /\ u.LBW \in Nat /\ m.ack \in Nat BY ZenonT(60) DEF TCB, PacketSet
  <1>2. SentDone(m, t, p) => SentDone(m, u, p) BY Zenon, <1>1, GotKept DEF Mono, SentDone
  <1>3. ASSUME Sent(m, p, t), SentDone(m, p, t) PROVE SentDone(m, p, u)
    <2>1. m.ack = u.LBW + 1 => FinSent(t) /\ m.ack = t.LBW + 1 BY <1>1, <1>3 DEF Mono, Sent
    <2>2. m.ack = t.LBW + 1 => FinSent(t) BY <1>1, <1>3 DEF Sent
    <2> QED BY Zenon, <1>1, <1>3, <2>1, <2>2, GotKept DEF Mono, SentDone
  <1> QED BY Zenon, <1>2, <1>3

LEMMA UpdateIs ==
  ASSUME TDInv, NEW i \in Ends, NEW u, Update(i, u)
  PROVE  /\ tcb'[i] = u /\ tcb'[Peer(i)] = tcb[Peer(i)]
         /\ u \in TCB => tcb' \in [Ends -> TCB]
  BY Zenon, PeerIs DEF TDInv, TypeInv, Update

LEMMA StepInv ==
  ASSUME TDInv, NEW i \in Ends, NEW u, Update(i, u), GoodEnd(i, u), GoodNet(i, u), faults' \in 0 .. Faults
  PROVE  TDInv'
  <1>1. PICK t : t = tcb[i] BY Zenon
  <1>2. PICK j : j = Peer(i) BY Zenon
  <1>3. PICK p : p = tcb[j] BY Zenon
  <1>4. /\ i \in Ends /\ j \in Ends /\ j # i /\ Peer(j) = i /\ Peer(i) = j
        /\ \A n \in Ends : n = i \/ n = j
    BY Zenon, <1>2, PeerIs
  <1>5. t \in TCB /\ p \in TCB /\ u \in TCB BY Zenon, <1>1, <1>3, <1>4 DEF TDInv, TypeInv, GoodEnd
  <1>6. tcb'[i] = u /\ tcb'[j] = p /\ tcb' \in [Ends -> TCB] BY Zenon, <1>2, <1>3, <1>5, UpdateIs
  <1>7. Mono(t, u) /\ Own(u) /\ Cross(u, p)
    BY Zenon, <1>1, <1>2, <1>3 DEF GoodEnd
  <1>8. /\ Own(p) /\ Cross(p, t) /\ Own(t) BY Zenon, <1>1, <1>3, <1>4 DEF TDInv
  <1>9. NoneGaveUp' <=> Nobody(u, p) BY Zenon, <1>4, <1>6 DEF NoneGaveUp, Nobody
  <1>10. ASSUME Nobody(u, p) PROVE DoneInv
    <2>1. ~t.TimeoutCancelled BY Zenon, <1>5, <1>7, <1>10 DEF Mono, Nobody
    <2>2. NoneGaveUp BY Zenon, <1>1, <1>3, <1>4, <1>10, <2>1 DEF NoneGaveUp, Nobody
    <2> QED BY Zenon, <2>2 DEF TDInv
  <1>11. TypeInv'
    <2>1. PICK s \in Scenarios : \A n \in Ends : tcb[n].app = s[n] BY Zenon DEF TDInv, TypeInv
    <2>2. \A n \in Ends : tcb'[n].app = s[n] BY ZenonT(60), <1>1, <1>3, <1>4, <1>6, <1>7, <2>1 DEF Mono
    <2> QED BY Zenon, <1>6, <2>2 DEF TypeInv, GoodNet
  <1>12. Cross(p, u) BY Zenon, <1>5, <1>7, <1>8, CrossKept
  <1>13. ASSUME NEW m \in net
         PROVE  /\ Sent(m, tcb'[Peer(m.to)], tcb'[m.to]) /\ At(m, tcb'[m.to])
                /\ Nobody(u, p) => SentDone(m, tcb'[Peer(m.to)], tcb'[m.to])
    <2>1. m \in PacketSet /\ m.to \in Ends BY Zenon DEF TDInv, TypeInv, PacketSet
    <2>2. Sent(m, tcb[Peer(m.to)], tcb[m.to]) /\ At(m, tcb[m.to]) BY Zenon DEF TDInv
    <2>3. Nobody(u, p) => SentDone(m, tcb[Peer(m.to)], tcb[m.to]) BY Zenon, <1>10 DEF DoneInv
    <2>4. CASE m.to = i
      <3>1. Sent(m, p, t) /\ At(m, t) /\ (Nobody(u, p) => SentDone(m, p, t))
        BY Zenon, <1>1, <1>2, <1>3, <2>2, <2>3, <2>4
      <3>2. Sent(m, p, u) /\ At(m, u) BY Zenon, <1>5, <1>7, <2>1, <3>1, SentToKept, AtKept
      <3>3. Nobody(u, p) => SentDone(m, p, u) BY Zenon, <1>5, <1>7, <2>1, <3>1, SentDoneKept DEF Nobody
      <3> QED BY Zenon, <1>2, <1>6, <2>4, <3>2, <3>3
    <2>5. CASE m.to = j
      <3>1. Sent(m, t, p) /\ At(m, p) /\ (Nobody(u, p) => SentDone(m, t, p))
        BY Zenon, <1>1, <1>3, <1>4, <2>2, <2>3, <2>5
      <3>2. Sent(m, u, p) BY Zenon, <1>5, <1>7, <2>1, <3>1, SentFromKept
      <3>3. Nobody(u, p) => SentDone(m, u, p) BY Zenon, <1>5, <1>7, <2>1, <3>1, SentDoneKept DEF Nobody
      <3> QED BY Zenon, <1>4, <1>6, <2>5, <3>1, <3>2, <3>3
    <2> QED BY Zenon, <1>4, <2>1, <2>4, <2>5
  <1>14. ASSUME NEW m \in net'
         PROVE  /\ Sent(m, tcb'[Peer(m.to)], tcb'[m.to]) /\ At(m, tcb'[m.to])
                /\ Nobody(u, p) => SentDone(m, tcb'[Peer(m.to)], tcb'[m.to])
    <2>1. CASE m \in net BY Zenon, <1>13, <2>1
    <2>2. CASE Out(m, i, u, p)
      <3>1. At(m, p) BY Zenon, <2>2 DEF Out, At, States
      <3> QED BY Zenon, <1>4, <1>6, <2>2, <3>1 DEF Out
    <2>3. CASE Back(m, i, u, p) BY Zenon, <1>4, <1>6, <2>3 DEF Back
    <2> QED BY Zenon, <1>2, <1>3, <2>1, <2>2, <2>3 DEF GoodNet
  <1>15. ASSUME NEW k \in 1 .. Len(u.Queue)
         PROVE  LET m == u.Queue[k]
                IN  /\ m.to = j /\ m.at = "wire" /\ (m.len = 1 \/ m.fin) /\ Sent(m, u, p)
                    /\ Nobody(u, p) => SentDone(m, u, p)
    <2>1. CASE \E n \in 1 .. Len(t.Queue) : u.Queue[k] = t.Queue[n]
      <3>1. PICK n \in 1 .. Len(t.Queue) : u.Queue[k] = t.Queue[n] BY Zenon, <2>1
      <3>2. PICK m : m = t.Queue[n] BY Zenon
      <3>3. m \in PacketSet
        <4>1. t.Queue \in Seq(PacketSet) BY Zenon, <1>5 DEF TCB
        <4> QED BY <3>2, <4>1
      <3>4. m.to = j /\ m.at = "wire" /\ (m.len = 1 \/ m.fin) /\ Sent(m, t, p)
        BY Zenon, <1>1, <1>2, <1>3, <3>2 DEF TDInv, QueueOf
      <3>5. Nobody(u, p) => SentDone(m, t, p) BY Zenon, <1>1, <1>2, <1>3, <1>10, <3>2 DEF DoneInv
      <3>6. Sent(m, u, p) BY Zenon, <1>5, <1>7, <3>3, <3>4, SentFromKept
      <3>7. Nobody(u, p) => SentDone(m, u, p) BY Zenon, <1>5, <1>7, <3>3, <3>5, SentDoneKept DEF Nobody
      <3> QED BY Zenon, <3>1, <3>2, <3>4, <3>6, <3>7
    <2>2. CASE Out(u.Queue[k], i, u, p) /\ (u.Queue[k].len = 1 \/ u.Queue[k].fin)
      BY Zenon, <1>4, <2>2 DEF Out
    <2> QED BY Zenon, <1>1, <1>2, <1>3, <2>1, <2>2 DEF GoodEnd
  <1>16. ASSUME NEW k \in 1 .. Len(p.Queue)
         PROVE  LET m == p.Queue[k]
                IN  /\ m.to = i /\ m.at = "wire" /\ (m.len = 1 \/ m.fin) /\ Sent(m, p, u)
                    /\ Nobody(u, p) => SentDone(m, p, u)
    <2>1. PICK m : m = p.Queue[k] BY Zenon
    <2>2. m \in PacketSet
      <3>1. p.Queue \in Seq(PacketSet) BY Zenon, <1>5 DEF TCB
      <3> QED BY <2>1, <3>1
    <2>3. m.to = i /\ m.at = "wire" /\ (m.len = 1 \/ m.fin) /\ Sent(m, p, t)
      BY Zenon, <1>1, <1>3, <1>4, <2>1 DEF TDInv, QueueOf
    <2>4. Nobody(u, p) => SentDone(m, p, t) BY Zenon, <1>1, <1>3, <1>4, <1>10, <2>1 DEF DoneInv
    <2>5. Sent(m, p, u) BY Zenon, <1>5, <1>7, <2>2, <2>3, SentToKept
    <2>6. Nobody(u, p) => SentDone(m, p, u) BY Zenon, <1>5, <1>7, <2>2, <2>3, <2>4, SentDoneKept DEF Nobody
    <2> QED BY Zenon, <2>1, <2>3, <2>5, <2>6
  <1>17. QueueOf(i)' /\ QueueOf(j)' BY Zenon, <1>4, <1>6, <1>15, <1>16 DEF QueueOf
  <1>18. ASSUME Nobody(u, p) PROVE DoneInv'
    <2>3. ASSUME NEW n \in Ends
          PROVE  \A k \in 1 .. Len(tcb'[n].Queue) : SentDone(tcb'[n].Queue[k], tcb'[n], tcb'[Peer(n)])
      <3>1. CASE n = i BY Zenon, <1>4, <1>6, <1>15, <1>18, <3>1
      <3>2. CASE n = j BY Zenon, <1>4, <1>6, <1>16, <1>18, <3>2
      <3> QED BY Zenon, <1>4, <3>1, <3>2
    <2> QED BY Zenon, <1>14, <1>18, <2>3 DEF DoneInv
  <1>19. \A n \in Ends : (Own(tcb[n]) /\ Cross(tcb[n], tcb[Peer(n)]) /\ QueueOf(n))'
    BY Zenon, <1>4, <1>6, <1>7, <1>8, <1>12, <1>17
  <1>20. \A m \in net' : (Sent(m, tcb[Peer(m.to)], tcb[m.to]) /\ At(m, tcb[m.to]))' BY Zenon, <1>14
  <1> QED BY Zenon, <1>9, <1>11, <1>18, <1>19, <1>20 DEF TDInv
-----------------------------------------------------------------------------
(* Steps that the invariant hardly notices.                                *)

Alike(t, u) ==
    /\ u.app = t.app /\ u.State = t.State /\ u.NXT = t.NXT /\ u.LBW = t.LBW /\ u.RCVNXT = t.RCVNXT
    /\ u.PendingReceivedFin = t.PendingReceivedFin /\ u.Queue = t.Queue /\ u.LBR = t.LBR
    /\ u.TimeoutCancelled = t.TimeoutCancelled /\ u.Cancelled = t.Cancelled
    /\ u.waiting + u.expired = t.waiting + t.expired /\ u.ResetWaitChan = t.ResetWaitChan
    /\ u.read = "eof" => t.read = "eof"
    /\ u.inTable => t.inTable
    /\ u.write # t.write => u.write # "no" /\ t.app.writes
    /\ u.write # "done" => t.write # "done"
    /\ FinSent(u) <=> FinSent(t)
    /\ CloseCalled(u) => CloseCalled(t)

LEMMA QuietInv ==
  ASSUME TDInv, NEW i \in Ends, NEW u, GoodEnd(i, u), Update(i, u), UNCHANGED <<net, faults>>
  PROVE  TDInv'
  <1>1. GoodNet(i, u) /\ faults' \in 0 .. Faults BY Zenon DEF TDInv, TypeInv, GoodNet
  <1> QED BY Zenon, <1>1, StepInv

LEMMA DoneIs ==
  ASSUME TDInv, NEW i \in Ends, Nobody(tcb[i], tcb[Peer(i)])
  PROVE  DoneInv
  <1>1. NoneGaveUp BY Zenon, PeerIs DEF Nobody, NoneGaveUp
  <1> QED BY Zenon, <1>1 DEF TDInv

LEMMA AlikeGood ==
  ASSUME TDInv, NEW i \in Ends, NEW u \in TCB, Alike(tcb[i], u)
  PROVE  GoodEnd(i, u)
  <1>1. PICK t : t = tcb[i] BY Zenon
  <1>2. PICK p : p = tcb[Peer(i)] BY Zenon
  <1>3. t \in TCB /\ p \in TCB BY Zenon, <1>1, <1>2, PeerIs DEF TDInv, TypeInv
  <1>4. Own(t) /\ Cross(t, p) BY Zenon, <1>1, <1>2 DEF TDInv
  <1>5. Alike(t, u) BY Zenon, <1>1
  <1>n. /\ t.LBW \in Nat /\ t.RCVNXT \in Nat /\ t.NXT \in Nat /\ t.waiting \in Nat
        /\ t.expired \in Nat /\ u.waiting \in Nat /\ u.expired \in Nat /\ t.PendingReceivedFin \in Nat
    BY Zenon, <1>3 DEF TCB
  <1>6. Mono(t, u) BY SMTT(30), <1>5, <1>n DEF Alike, Mono
  <1>7. Own(u) BY SMTT(30), <1>4, <1>5, <1>n DEF Alike, Own, Late
  <1>8. Cross(u, p) BY <1>4, <1>5 DEF Alike, Cross, Late
  <1>10. \A k \in 1 .. Len(u.Queue) : \E n \in 1 .. Len(t.Queue) : u.Queue[k] = t.Queue[n]
    BY Zenon, <1>5 DEF Alike
  <1> QED BY Zenon, <1>1, <1>2, <1>6, <1>7, <1>8, <1>10 DEF GoodEnd

\* A step that neither sends nor receives.
LEMMA AlikeInv ==
  ASSUME TDInv, NEW i \in Ends, NEW u \in TCB, Alike(tcb[i], u), Update(i, u), UNCHANGED <<net, faults>>
  PROVE  TDInv'
  BY Zenon, AlikeGood, QuietInv

LEMMA EndIs ==
  ASSUME TDInv, NEW i \in Ends
  PROVE  /\ tcb[i] \in TCB /\ Own(tcb[i]) /\ Cross(tcb[i], tcb[Peer(i)])
         /\ tcb[i].waiting \in Nat /\ tcb[i].expired \in Nat /\ tcb[i].Queue \in Seq(PacketSet)
         /\ tcb[i].NXT \in Nat /\ tcb[i].LBW \in Nat /\ tcb[i].RCVNXT \in Nat /\ tcb[i].LBR \in Nat
         /\ tcb[i].RetransmitCounter \in 0 .. MAX_RETRANSMISSIONS /\ tcb[i].PendingReceivedFin \in Nat
  <1>1. tcb[i] \in TCB /\ Own(tcb[i]) /\ Cross(tcb[i], tcb[Peer(i)]) BY Zenon DEF TDInv, TypeInv
  <1>2. tcb[i].LBR \in Seqs BY Zenon, <1>1 DEF TCB
  <1>3. tcb[i].LBR \in Nat BY <1>2 DEF Seqs, FirstByte, ISS
  <1> QED BY Zenon, <1>1, <1>3 DEF TCB

\* Write that finds the connection closing, Send that stops or waits, Close on
\* its way, the timers, and WaitForClosed before it has the lock.
LEMMA MinorInv ==
  ASSUME TDInv, NEW i \in Ends,
         \/ WriteEnter(i) \/ SendIdle(i) \/ SendCancelled(i) \/ SendReset(i)
         \/ CloseWaitData(i) \/ CloseReset(i) \/ CloseReturn(i)
         \/ TimerFires(i) \/ TimerExits(i) \/ TimerTooLate(i)
         \/ WaitExpires(i) \/ WaitReset(i)
  PROVE  TDInv'
  <1> DEFINE Step(u) == Update(i, u) /\ UNCHANGED <<net, faults>>
  <1>1. PICK t : t = tcb[i] BY Zenon
  <1>2. t \in TCB /\ Own(t) /\ t.waiting \in Nat /\ t.expired \in Nat BY Zenon, <1>1, EndIs
  <1>3. SUFFICES \E u \in TCB : Step(u) /\ Alike(t, u) BY Zenon, <1>1, AlikeInv
  <1> USE DEF FinSent, CloseCalled
  <1>4. CASE WriteEnter(i)
    <2>1. PICK u : u = [t EXCEPT !.write = "entered"] BY Zenon
    <2>2. Step(u) /\ t.app.writes /\ t.write = "no" BY Zenon, <1>1, <1>4, <2>1 DEF WriteEnter
    <2>3. u \in TCB BY SMTT(30), <1>2, <2>1 DEF TCB
    <2>4. Alike(t, u) BY ZenonT(60), <1>2, <2>1, <2>2 DEF TCB, Alike, Own
    <2> QED BY Zenon, <2>2, <2>3, <2>4
  <1>5. CASE SendIdle(i)
    <2>1. CASE t.PendingSendingFin
      <3>1. PICK c : c = IF t.close = "data" THEN "woken" ELSE t.close BY Zenon
      <3>2. PICK u : u = [t EXCEPT !.send = "exit", !.close = c] BY Zenon
      <3>3. Step(u) BY Zenon, <1>1, <1>5, <2>1, <3>1, <3>2 DEF SendIdle
      <3>c. c \in {"no", "enter", "data", "woken", "rto", "chan", "done", "panic"}
        BY Zenon, <1>2, <3>1 DEF TCB
      <3>4. u \in TCB BY ZenonT(90), <1>2, <3>c, <3>2 DEF TCB
      <3>5. Alike(t, u) BY <1>2, <3>1, <3>2 DEF TCB, Alike, Own
      <3> QED BY Zenon, <3>3, <3>4, <3>5
    <2>2. CASE ~t.PendingSendingFin
      <3>1. PICK c : c = IF t.Cancelled THEN "exit" ELSE "asleep" BY Zenon
      <3>2. PICK u : u = [t EXCEPT !.send = c] BY Zenon
      <3>3. Step(u) BY Zenon, <1>1, <1>5, <2>2, <3>1, <3>2 DEF SendIdle
      <3>4. u \in TCB BY ZenonT(90), <1>2, <3>1, <3>2 DEF TCB
      <3>5. Alike(t, u) BY ZenonT(60), <1>2, <3>1, <3>2 DEF TCB, Alike, Own
      <3> QED BY Zenon, <3>3, <3>4, <3>5
    <2> QED BY Zenon, <2>1, <2>2
  <1>6. CASE SendCancelled(i) \/ SendReset(i)
    <2>1. PICK x \in {"exit", "run"} : Step([t EXCEPT !.send = x])
      BY Zenon, <1>1, <1>6 DEF SendCancelled, SendReset
    <2>2. PICK u : u = [t EXCEPT !.send = x] BY Zenon
    <2>3. u \in TCB BY SMTT(30), <1>2, <2>2 DEF TCB
    <2>4. Alike(t, u) BY ZenonT(60), <1>2, <2>2 DEF TCB, Alike, Own
    <2> QED BY Zenon, <2>1, <2>2, <2>3, <2>4
  <1>7. CASE CloseWaitData(i)
    <2>1. PICK u : u = [t EXCEPT !.PendingSendingFin = TRUE, !.close = "data"] BY Zenon
    <2>2. Step(u) /\ t.close \in {"enter", "woken"} BY Zenon, <1>1, <1>7, <2>1 DEF CloseWaitData, CloseLocks
    <2>3. u \in TCB BY ZenonT(90), <1>2, <2>1 DEF TCB
    <2>4. Alike(t, u) BY <1>2, <2>1, <2>2 DEF TCB, Alike, Own
    <2> QED BY Zenon, <2>2, <2>3, <2>4
  <1>8. CASE CloseReset(i)
    <2>1. PICK u : u = [t EXCEPT !.close = "chan"] BY Zenon
    <2>2. Step(u) /\ t.close = "rto" BY Zenon, <1>1, <1>8, <2>1 DEF CloseReset
    <2>3. u \in TCB BY SMTT(30), <1>2, <2>1 DEF TCB
    <2>4. Alike(t, u) BY ZenonT(60), <1>2, <2>1, <2>2 DEF TCB, Alike, Own
    <2> QED BY Zenon, <2>2, <2>3, <2>4
  <1>9. CASE CloseReturn(i)
    <2>1. PICK u : u = [t EXCEPT !.lock = "free", !.close = "done", !.inTable = FALSE] BY Zenon
    <2>2. Step(u) /\ t.close = "chan" BY Zenon, <1>1, <1>9, <2>1 DEF CloseReturn
    <2>3. u \in TCB
      <3>1. PICK y : y = [t EXCEPT !.lock = "free"] BY Zenon
      <3>2. y \in TCB BY Zenon, <1>2, <3>1, LockType
      <3>3. PICK z : z = [y EXCEPT !.close = "done"] BY Zenon
      <3>4. z \in TCB BY Zenon, <3>2, <3>3, CloseType
      <3>5. u = [z EXCEPT !.inTable = FALSE] BY Zenon, <1>2, <2>1, <3>1, <3>3 DEF TCB
      <3> QED BY Zenon, <3>4, <3>5, TableType
    <2>4. Alike(t, u) BY ZenonT(60), <1>2, <2>1, <2>2 DEF TCB, Alike, Own
    <2> QED BY Zenon, <2>2, <2>3, <2>4
  <1>10. CASE TimerFires(i) \/ TimerExits(i) \/ TimerTooLate(i)
    <2>1. PICK u : Step(u) /\ \E x \in {"fired", "exit", "select"} : u = [t EXCEPT !.timer = x]
      BY Zenon, <1>1, <1>10 DEF TimerFires, TimerExits, TimerTooLate
    <2>2. u \in TCB BY SMTT(30), <1>2, <2>1 DEF TCB
    <2>3. Alike(t, u) BY <1>2, <2>1 DEF TCB, Alike, Own
    <2> QED BY Zenon, <2>1, <2>2, <2>3
  <1>11. CASE WaitExpires(i)
    <2>1. PICK u : u = [t EXCEPT !.waiting = t.waiting - 1, !.expired = t.expired + 1] BY Zenon
    <2>2. Step(u) /\ t.waiting > 0 /\ "msl" \in t.app.races
      BY Zenon, <1>1, <1>11, <2>1 DEF WaitExpires, Unlucky
    <2>3. t.waiting - 1 \in Nat /\ t.expired + 1 \in Nat BY <1>2, <2>2
    <2>4. u \in TCB BY ZenonT(90), <1>2, <2>1, <2>3 DEF TCB
    <2>5. u.waiting = t.waiting - 1 /\ u.expired = t.expired + 1 BY Zenon, <1>2, <2>1 DEF TCB
    <2>6. u.waiting + u.expired = t.waiting + t.expired BY <1>2, <2>5
    <2>7. Alike(t, u) BY <1>2, <2>1, <2>2, <2>6 DEF TCB, Alike, Own
    <2> QED BY Zenon, <2>2, <2>4, <2>7
  <1>12. CASE WaitReset(i)
    <2>1. PICK u : u = [t EXCEPT !.lock = "free"] BY Zenon
    <2>2. Step(u) BY Zenon, <1>1, <1>12, <2>1 DEF WaitReset
    <2>3. u \in TCB BY ZenonT(90), <1>2, <2>1 DEF TCB
    <2>4. Alike(t, u) BY ZenonT(60), <1>2, <2>1, <2>2 DEF TCB, Alike, Own
    <2> QED BY Zenon, <2>2, <2>3, <2>4
  <1> QED BY ZenonT(60), <1>4, <1>5, <1>6, <1>7, <1>8, <1>9, <1>10, <1>11, <1>12

\* waitTimeout sends the head of the queue again.
LEMMA RetransmitInv ==
  ASSUME TDInv, NEW i \in Ends, Retransmit(i) PROVE TDInv'
  <1>1. PICK t : t = tcb[i] BY Zenon
  <1>2. /\ t \in TCB /\ Own(t) /\ t.Queue \in Seq(PacketSet)
        /\ t.RetransmitCounter \in 0 .. MAX_RETRANSMISSIONS
    BY Zenon, <1>1, EndIs
  <1>3. PICK u : u = [t EXCEPT !.RetransmitCounter = t.RetransmitCounter + 1, !.timer = "select"] BY Zenon
  <1>4. /\ Update(i, u) /\ t.Queue # <<>> /\ t.RetransmitCounter # MAX_RETRANSMISSIONS
        /\ net' = net \cup {Head(t.Queue)} /\ UNCHANGED faults
    BY Zenon, <1>1, <1>3 DEF Retransmit
  <1>5. t.RetransmitCounter + 1 \in 0 .. MAX_RETRANSMISSIONS BY <1>2, <1>4, TeardownAssumption
  <1>6. u \in TCB
    <2>1. PICK c \in 0 .. MAX_RETRANSMISSIONS : c = t.RetransmitCounter + 1 BY Zenon, <1>5
    <2>2. PICK y : y = [t EXCEPT !.RetransmitCounter = c] BY Zenon
    <2>3. y \in TCB BY Zenon, <1>2, <2>2, CounterType
    <2>4. u = [y EXCEPT !.timer = "select"] BY Zenon, <1>2, <1>3, <2>1, <2>2 DEF TCB
    <2> QED BY Zenon, <2>3, <2>4, TimerType
  <1>7. Alike(t, u) BY <1>2, <1>3 DEF TCB, Alike, Own, FinSent, CloseCalled
  <1>8. GoodEnd(i, u) BY Zenon, <1>1, <1>6, <1>7, AlikeGood
  <1>9. PICK m : m = Head(t.Queue) BY Zenon
  <1>10. m = t.Queue[1] /\ 1 \in 1 .. Len(t.Queue) /\ m \in PacketSet BY <1>2, <1>4, <1>9
  <1>11. m.to = Peer(i) /\ m.at = "wire" /\ Sent(m, t, tcb[Peer(i)])
    BY Zenon, <1>1, <1>10 DEF TDInv, QueueOf
  <1>12. tcb[Peer(i)] \in TCB BY Zenon, PeerIs, EndIs
  <1>13. Mono(t, u) /\ Own(u) BY Zenon, <1>1, <1>8 DEF GoodEnd
  <1>14. Sent(m, u, tcb[Peer(i)]) BY Zenon, <1>2, <1>6, <1>10, <1>11, <1>13, SentFromKept
  <1>15. ASSUME Nobody(u, tcb[Peer(i)]) PROVE SentDone(m, u, tcb[Peer(i)])
    <2>1. NoneGaveUp BY Zenon, <1>1, <1>7, <1>15, PeerIs DEF Alike, Nobody, NoneGaveUp
    <2>2. SentDone(m, t, tcb[Peer(i)]) BY Zenon, <1>1, <1>10, <2>1 DEF TDInv, DoneInv
    <2> QED BY <1>2, <1>6, <1>10, <1>12, <1>13, <1>15, <2>2, SentDoneKept DEF Nobody
  <1>16. GoodNet(i, u)
    BY ZenonT(60), <1>4, <1>9, <1>10, <1>11, <1>14, <1>15 DEF GoodNet, Out, TDInv, TypeInv
  <1>17. faults' \in 0 .. Faults BY Zenon, <1>4 DEF TDInv, TypeInv
  <1> QED BY Zenon, <1>4, <1>8, <1>16, <1>17, StepInv

-----------------------------------------------------------------------------
(* Write, Send, Close, the end of the retransmissions and Read.            *)

LEMMA AppsAre ==
  ASSUME TDInv, Orderly, NEW i \in Ends
  PROVE  /\ Late(tcb[i]) => ~tcb[i].app.writes /\ ~MayCloseFirst(tcb[i].app)
         /\ MayCloseFirst(tcb[i].app) /\ MayCloseFirst(tcb[Peer(i)].app) /\ tcb[i].app.writes
              => tcb[Peer(i)].LBW = FirstByte
  <1>1. PICK s \in Scenarios : \A n \in Ends : tcb[n].app = s[n] BY Zenon DEF TDInv, TypeInv
  <1>2. Own(tcb[Peer(i)]) /\ Peer(i) \in Ends BY Zenon, PeerIs DEF TDInv
  <1>3. ~tcb[Peer(i)].app.writes => tcb[Peer(i)].LBW = FirstByte BY Zenon, <1>2 DEF Own
  <1>4. MayCloseFirst(s[i]) /\ MayCloseFirst(s[Peer(i)]) => ~s[i].writes \/ ~s[Peer(i)].writes
    BY Zenon DEF Orderly
  <1>5. Late(tcb[i]) => ~tcb[i].app.writes /\ ~MayCloseFirst(tcb[i].app) BY Zenon, <1>1 DEF Orderly, Late
  <1> QED BY Zenon, <1>1, <1>2, <1>3, <1>4, <1>5

LEMMA WriteLockedInv ==
  ASSUME TDInv, Orderly, NEW i \in Ends, WriteLocked(i) PROVE TDInv'
  <1>1. PICK t : t = tcb[i] BY Zenon
  <1>2. PICK p : p = tcb[Peer(i)] BY Zenon
  <1>3. /\ t \in TCB /\ Own(t) /\ Cross(t, p) /\ t.LBW \in Nat /\ t.NXT \in Nat
        /\ t.write = "entered" /\ t.lock = "free"
    BY Zenon, <1>1, <1>2, EndIs DEF WriteLocked, Free
  <1>4. CASE t.State \in {"ESTABLISHED", "CLOSE_WAIT"}
    <2>1. PICK w : w = WakeSend(t.send) BY Zenon
    <2>2. w \in {"run", "asleep", "rto", "exit"} BY Zenon, <1>3, <2>1 DEF TCB, WakeSend
    <2>3. PICK u : u = [t EXCEPT !.write = "done", !.LBW = t.LBW + 1, !.send = w] BY Zenon
    <2>4. Update(i, u) /\ UNCHANGED <<net, faults>> BY Zenon, <1>1, <1>4, <2>1, <2>3 DEF WriteLocked
    <2>n. t.LBW + 1 \in Nat BY <1>3
    <2>5. u \in TCB BY ZenonT(90), <1>3, <2>2, <2>3, <2>n DEF TCB
    <2>6. ~FinSent(t)
      <3>1. t.app.writes /\ ~Late(t) BY Zenon, <1>1, <1>3, AppsAre DEF Own
      <3>2. p.LBW \in Nat BY Zenon, <1>2, EndIs, PeerIs
      <3>3. t.PendingReceivedFin # 0 => MayCloseFirst(p.app) /\ p.LBW # FirstByte
        BY SMTT(30), <1>3, <3>2 DEF Cross, FirstByte, ISS
      <3>4. t.PendingReceivedFin = 0 \/ ~MayCloseFirst(t.app) BY Zenon, <1>1, <1>2, <3>1, <3>3, AppsAre
      <3> QED BY Zenon, <1>3, <1>4, <3>1, <3>4 DEF Own
    <2>7. ~FinSent(u) /\ u.State = t.State BY ZenonT(60), <1>3, <2>3, <2>6 DEF TCB, FinSent
    <2>8. Mono(t, u) BY <1>3, <2>3, <2>6 DEF TCB, Mono
    <2>9. Own(u) BY <1>3, <2>3, <2>6, <2>7 DEF TCB, Own, Late, CloseCalled, FirstByte, ISS
    <2>10. Cross(u, p) BY <1>3, <2>3, <2>6, <2>7 DEF TCB, Cross, Late, CloseCalled
    <2>12. u.Queue = t.Queue BY Zenon, <1>3, <2>3 DEF TCB
    <2>13. GoodEnd(i, u) BY Zenon, <1>1, <1>2, <2>5, <2>8, <2>9, <2>10, <2>12 DEF GoodEnd
    <2> QED BY Zenon, <2>4, <2>13, QuietInv
  <1>5. CASE t.State \notin {"ESTABLISHED", "CLOSE_WAIT"}
    <2>1. PICK u : u = [t EXCEPT !.write = "done", !.lock = "leaked"] BY Zenon
    <2>2. Update(i, u) /\ UNCHANGED <<net, faults>> BY Zenon, <1>1, <1>5, <2>1 DEF WriteLocked
    <2>3. u \in TCB BY ZenonT(90), <1>3, <2>1 DEF TCB
    <2>4. Alike(t, u) BY <1>3, <2>1 DEF TCB, Alike, Own, FinSent, CloseCalled
    <2> QED BY Zenon, <1>1, <2>2, <2>3, <2>4, AlikeInv
  <1> QED BY Zenon, <1>4, <1>5

LEMMA AppendIs ==
  ASSUME NEW q \in Seq(PacketSet), NEW m \in PacketSet
  PROVE  /\ Append(q, m) \in Seq(PacketSet)
         /\ \A k \in 1 .. Len(Append(q, m)) :
               Append(q, m)[k] = m \/ \E n \in 1 .. Len(q) : Append(q, m)[k] = q[n]
  <1>1. Append(q, m) \in Seq(PacketSet) /\ Len(Append(q, m)) = Len(q) + 1 /\ Len(q) \in Nat OBVIOUS
  <1>2. ASSUME NEW k \in 1 .. Len(Append(q, m))
        PROVE  Append(q, m)[k] = m \/ \E n \in 1 .. Len(q) : Append(q, m)[k] = q[n]
    <2>1. k \in 1 .. Len(q) \/ k = Len(q) + 1 BY <1>1
    <2> QED BY <2>1
  <1> QED BY Zenon, <1>1, <1>2

\* An end appends a packet that it sends to its queue.
LEMMA EmitInv ==
  ASSUME TDInv, NEW i \in Ends, NEW u \in TCB, NEW m \in PacketSet,
         u.Queue = Append(tcb[i].Queue, m), Update(i, u), net' = net \cup {m}, UNCHANGED faults,
         Mono(tcb[i], u), Own(u), Cross(u, tcb[Peer(i)]),
         Out(m, i, u, tcb[Peer(i)]), m.len = 1 \/ m.fin
  PROVE  TDInv'
  <1>1. tcb[i].Queue \in Seq(PacketSet) BY Zenon, EndIs
  <1>2. PICK q : q = tcb[i].Queue BY Zenon
  <1>3. \A k \in 1 .. Len(u.Queue) : u.Queue[k] = m \/ \E n \in 1 .. Len(q) : u.Queue[k] = q[n]
    BY <1>1, <1>2, AppendIs
  <1>4. GoodEnd(i, u) BY Zenon, <1>2, <1>3 DEF GoodEnd
  <1>5. GoodNet(i, u) BY Zenon DEF GoodNet, TDInv, TypeInv
  <1>6. faults' \in 0 .. Faults BY Zenon DEF TDInv, TypeInv
  <1> QED BY Zenon, <1>4, <1>5, <1>6, StepInv

LEMMA ResetThenIs ==
  ASSUME NEW i, NEW pc PROVE ResetThen(i, pc) \in {pc, "rto"}
  BY Zenon DEF ResetThen

LEMMA SendDataInv ==
  ASSUME TDInv, NEW i \in Ends, SendData(i) PROVE TDInv'
  <1>1. PICK t : t = tcb[i] BY Zenon
  <1>2. PICK p : p = tcb[Peer(i)] BY Zenon
  <1>3. /\ t \in TCB /\ Own(t) /\ Cross(t, p) /\ t.LBW \in Nat /\ t.NXT \in Nat /\ t.RCVNXT \in Nat
        /\ t.Queue \in Seq(PacketSet) /\ p.LBW \in Nat
    BY Zenon, <1>1, <1>2, EndIs, PeerIs
  <1>4. PICK m : m = Packet(i, t.NXT, t.RCVNXT, 1, FALSE) BY Zenon
  <1>5. /\ m \in PacketSet /\ m.to = Peer(i) /\ m.at = "wire"
        /\ m.seq = t.NXT /\ m.ack = t.RCVNXT /\ m.len = 1 /\ m.fin = FALSE
    BY Zenon, <1>3, <1>4, PeerIs DEF Packet, PacketSet
  <1>6. PICK w : w = ResetThen(i, "run") BY Zenon
  <1>7. w \in {"run", "rto"} BY Zenon, <1>6, ResetThenIs
  <1>8. PICK q : q = Append(t.Queue, m) BY Zenon
  <1>9. q \in Seq(PacketSet) BY <1>3, <1>5, <1>8
  <1>10. PICK u : u = [t EXCEPT !.Queue = q, !.NXT = t.NXT + 1, !.send = w] BY Zenon
  <1>11. /\ Update(i, u) /\ net' = net \cup {m} /\ UNCHANGED faults
         /\ t.NXT # t.LBW /\ ~t.Cancelled
    BY Zenon, <1>1, <1>4, <1>6, <1>8, <1>10 DEF SendData
  <1>n. t.NXT + 1 \in Nat BY <1>3
  <1>12. u \in TCB BY ZenonT(90), <1>3, <1>7, <1>9, <1>10, <1>n DEF TCB
  <1>13. ~FinSent(t) /\ t.NXT = FirstByte /\ t.LBW = FirstByte + 1
    BY <1>3, <1>11 DEF Own, FirstByte, ISS
  <1>14. ~FinSent(u) /\ u.Queue = q BY ZenonT(60), <1>3, <1>10, <1>13 DEF TCB, FinSent
  <1>15. Mono(t, u) BY <1>3, <1>10, <1>13 DEF TCB, Mono
  <1>16. Own(u) BY <1>3, <1>10, <1>13, <1>14 DEF TCB, Own, Late, CloseCalled, FirstByte, ISS
  <1>17. Cross(u, p) BY <1>3, <1>10, <1>13, <1>14 DEF TCB, Cross, Late, CloseCalled
  <1>18. u.TimeoutCancelled = t.TimeoutCancelled /\ u.State = t.State /\ u.LBW = t.LBW
         /\ u.RCVNXT = t.RCVNXT /\ u.app = t.app
    BY Zenon, <1>3, <1>10 DEF TCB
  <1>20. t.RCVNXT <= p.LBW BY Zenon, <1>3, <1>13 DEF Cross
  <1>21. Sent(m, u, p) BY <1>3, <1>5, <1>13, <1>18, <1>20 DEF Sent, Cross, FirstByte, ISS
  <1>22. SentDone(m, u, p) BY <1>3, <1>5, <1>20 DEF SentDone
  <1>23. Out(m, i, u, p) BY Zenon, <1>5, <1>21, <1>22 DEF Out
  <1> QED
    BY Zenon, <1>1, <1>2, <1>5, <1>8, <1>11, <1>12, <1>14, <1>15, <1>16, <1>17, <1>23, EmitInv

\* An application closes an open connection only where it may.
LEMMA CloseCallInv ==
  ASSUME TDInv, Orderly, NEW i \in Ends, NEW readToo \in BOOLEAN, CloseCall(i, readToo) PROVE TDInv'
  <1>1. PICK t : t = tcb[i] BY Zenon
  <1>2. PICK p : p = tcb[Peer(i)] BY Zenon
  <1>3. /\ t \in TCB /\ Own(t) /\ Cross(t, p) /\ t.LBW \in Nat /\ t.NXT \in Nat /\ t.RCVNXT \in Nat
        /\ t.PendingReceivedFin \in Nat /\ p.LBW \in Nat /\ Cross(p, t)
    BY Zenon, <1>1, <1>2, EndIs, PeerIs
  <1>4. PICK c : c = IF t.inTable THEN "enter" ELSE "panic" BY Zenon
  <1>5. PICK u : u = [t EXCEPT !.WriteCancelled = TRUE, !.ReadCancelled = readToo, !.close = c] BY Zenon
  <1>6. Update(i, u) /\ UNCHANGED <<net, faults>> /\ t.close = "no" /\ t.State \in t.app.closes
    BY Zenon, <1>1, <1>4, <1>5 DEF CloseCall
  <1>c. c \in {"enter", "panic"} BY Zenon, <1>4
  <1>7. u \in TCB BY ZenonT(90), <1>3, <1>5, <1>c DEF TCB
  <1>8. ~FinSent(t) /\ ~FinSent(u) /\ ~CloseCalled(t) /\ (CloseCalled(u) => t.inTable)
    BY Zenon, <1>3, <1>4, <1>5, <1>6 DEF TCB, FinSent, CloseCalled
  <1>9. t.inTable => t.State \in {"ESTABLISHED", "CLOSE_WAIT"} BY Zenon, <1>3, <1>8 DEF Own
  <1>10. t.State = "ESTABLISHED" => MayCloseFirst(t.app) BY Zenon, <1>6 DEF MayCloseFirst
  <1>11. ASSUME t.inTable
         PROVE  \/ MayCloseFirst(t.app)
                \/ FinSent(p) /\ MayCloseFirst(p.app) /\ t.RCVNXT >= p.LBW
    <2>1. CASE t.State = "ESTABLISHED" BY Zenon, <1>10, <2>1
    <2>2. CASE t.State = "CLOSE_WAIT"
      <3>1. t.RCVNXT = p.LBW /\ FinSent(p) BY Zenon, <1>3, <2>2 DEF Cross
      <3>2. t.RCVNXT >= p.LBW BY <1>3, <3>1
      <3>3. MayCloseFirst(p.app) BY Zenon, <1>3, <1>8, <3>1 DEF Cross, CloseCalled, FinSent
      <3> QED BY Zenon, <3>1, <3>2, <3>3
    <2> QED BY Zenon, <1>9, <1>11, <2>1, <2>2
  <1>12. Mono(t, u) BY <1>3, <1>5, <1>8 DEF TCB, Mono
  <1>13. Own(u) BY <1>3, <1>5, <1>8, <1>10, <1>11 DEF TCB, Own, Late
  <1>14. Cross(u, p) BY <1>3, <1>5, <1>8, <1>11 DEF TCB, Cross, Late
  <1>15. u.TimeoutCancelled = t.TimeoutCancelled /\ u.State = t.State /\ u.LBW = t.LBW
         /\ u.RCVNXT = t.RCVNXT /\ u.app = t.app /\ u.Queue = t.Queue
    BY Zenon, <1>3, <1>5 DEF TCB
  <1>17. GoodEnd(i, u) BY Zenon, <1>1, <1>2, <1>7, <1>12, <1>13, <1>14, <1>15 DEF GoodEnd
  <1> QED BY Zenon, <1>6, <1>17, QuietInv
LEMMA CloseFinInv ==
  ASSUME TDInv, Orderly, NEW i \in Ends, CloseFin(i) PROVE TDInv'
  <1>1. PICK t : t = tcb[i] BY Zenon
  <1>2. PICK p : p = tcb[Peer(i)] BY Zenon
  <1>3. /\ t \in TCB /\ Own(t) /\ Cross(t, p) /\ t.LBW \in Nat /\ t.NXT \in Nat /\ t.RCVNXT \in Nat
        /\ t.Queue \in Seq(PacketSet) /\ p.LBW \in Nat /\ t.waiting \in Nat /\ t.expired \in Nat
    BY Zenon, <1>1, <1>2, EndIs, PeerIs
  <1>4. PICK passive \in BOOLEAN : passive <=> t.State = "CLOSE_WAIT" BY Zenon
  <1>5. PICK a \in Nat : a = t.RCVNXT + IF passive THEN 1 ELSE 0 BY <1>3
  <1>6. PICK m : m = Packet(i, t.NXT, a, 0, TRUE) BY Zenon
  <1>7. /\ m \in PacketSet /\ m.to = Peer(i) /\ m.at = "wire"
        /\ m.seq = t.NXT /\ m.ack = a /\ m.len = 0 /\ m.fin = TRUE
    BY Zenon, <1>3, <1>6, PeerIs DEF Packet, PacketSet
  <1>8. PICK c \in {"chan", "rto"} : c = ResetThen(i, "chan") BY Zenon, ResetThenIs
  <1>9. PICK w \in {"run", "asleep", "rto", "exit"} : w = WakeSend(t.send) BY Zenon, <1>3 DEF TCB, WakeSend
  <1>10. PICK q : q = Append(t.Queue, m) BY Zenon
  <1>11. q \in Seq(PacketSet) BY <1>3, <1>7, <1>10
  <1>12. PICK s \in {"LAST_ACK", "FIN_WAIT_1"} : s = IF passive THEN "LAST_ACK" ELSE "FIN_WAIT_1" BY Zenon
  <1>13. PICK u : u = [t EXCEPT !.PendingSendingFin = TRUE, !.Cancelled = TRUE, !.send = w,
                                !.State = s, !.NXT = t.NXT + 1, !.Queue = q, !.close = c]
    BY Zenon
  <1>14. /\ Update(i, u) /\ net' = net \cup {m} /\ UNCHANGED faults
         /\ t.NXT = t.LBW /\ t.close \in {"enter", "woken"} /\ t.lock = "free"
    <2>1. /\ net' = net \cup {Packet(i, t.NXT, t.RCVNXT + IF t.State = "CLOSE_WAIT" THEN 1 ELSE 0, 0, TRUE)}
          /\ Update(i, [t EXCEPT
                  !.PendingSendingFin = TRUE, !.Cancelled = TRUE, !.send = WakeSend(t.send),
                  !.State = IF t.State = "CLOSE_WAIT" THEN "LAST_ACK" ELSE "FIN_WAIT_1",
                  !.NXT = t.NXT + 1,
                  !.Queue = Append(t.Queue, Packet(i, t.NXT,
                               t.RCVNXT + IF t.State = "CLOSE_WAIT" THEN 1 ELSE 0, 0, TRUE)),
                  !.close = ResetThen(i, "chan")])
          /\ UNCHANGED faults
          /\ t.NXT = t.LBW /\ t.close \in {"enter", "woken"} /\ t.lock = "free"
      BY Zenon, <1>1 DEF CloseFin, CloseLocks, AllSent, Free
    <2> QED BY Zenon, <1>4, <1>5, <1>6, <1>8, <1>9, <1>10, <1>12, <1>13, <2>1
  <1>15. u \in TCB
    <2>1. PICK n \in Nat : n = t.NXT + 1 BY <1>3
    <2>2. PICK y : y = [t EXCEPT !.PendingSendingFin = TRUE, !.Cancelled = TRUE] BY Zenon
    <2>3. y \in TCB BY ZenonT(90), <1>3, <2>2 DEF TCB
    <2>4. PICK z : z = [y EXCEPT !.send = w] BY Zenon
    <2>5. z \in TCB BY Zenon, <2>3, <2>4, SendType
    <2>6. PICK v : v = [z EXCEPT !.State = s] BY Zenon
    <2>7. v \in TCB BY Zenon, <2>5, <2>6, StateType DEF States
    <2>8. PICK x : x = [v EXCEPT !.NXT = n] BY Zenon
    <2>9. x \in TCB BY Zenon, <2>7, <2>8, NXTType
    <2>10. PICK k : k = [x EXCEPT !.Queue = q] BY Zenon
    <2>11. k \in TCB BY Zenon, <1>11, <2>9, <2>10, QueueType
    <2>12. u = [k EXCEPT !.close = c]
      BY ZenonT(60), <1>3, <1>13, <2>1, <2>2, <2>4, <2>6, <2>8, <2>10 DEF TCB
    <2> QED BY Zenon, <2>11, <2>12, CloseType
  <1>16. ~FinSent(t) /\ CloseCalled(t) /\ FinSent(u) /\ CloseCalled(u)
    BY Zenon, <1>3, <1>13, <1>14 DEF TCB, FinSent, CloseCalled
  <1>17. /\ u.app = t.app /\ u.LBW = t.LBW /\ u.RCVNXT = t.RCVNXT /\ u.State = s /\ u.Queue = q
         /\ u.TimeoutCancelled = t.TimeoutCancelled /\ u.NXT = t.LBW + 1 /\ u.Cancelled
         /\ u.waiting = t.waiting /\ u.expired = t.expired /\ u.lock = t.lock /\ u.LBR = t.LBR
         /\ u.write = t.write /\ u.inTable = t.inTable /\ u.read = t.read
         /\ u.PendingReceivedFin = t.PendingReceivedFin /\ u.ResetWaitChan = t.ResetWaitChan
    BY ZenonT(60), <1>3, <1>13, <1>14 DEF TCB
  <1>18. /\ t.State \in {"ESTABLISHED", "CLOSE_WAIT"} \/ (t.State = "CLOSED" /\ t.TimeoutCancelled)
         /\ Late(t) => passive
         /\ t.State = "ESTABLISHED" => MayCloseFirst(t.app)
    <2>1. t.State \in {"ESTABLISHED", "CLOSE_WAIT"} \/ (t.State = "CLOSED" /\ t.TimeoutCancelled)
      BY Zenon, <1>3, <1>16 DEF Own
    <2>2. t.State = "ESTABLISHED" => MayCloseFirst(t.app) BY Zenon, <1>3, <1>16 DEF Own
    <2>3. Late(t) => t.State # "CLOSED" BY Zenon, <1>3, <1>16 DEF Own
    <2>4. Late(t) => ~MayCloseFirst(t.app) BY Zenon, <1>1, AppsAre
    <2> QED BY Zenon, <1>4, <2>1, <2>2, <2>3, <2>4
  <1>19. passive => t.RCVNXT = p.LBW /\ FinSent(p) BY Zenon, <1>3, <1>4 DEF Cross
  <1>20. t.RCVNXT <= p.LBW BY Zenon, <1>3, <1>16 DEF Cross
  <1>21. Mono(t, u) BY SMTT(30), <1>3, <1>12, <1>16, <1>17, <1>18, <1>4 DEF Mono, Open, Ending
  <1>22. Own(u)
    <2>1. t.State # "TIME_WAIT" /\ u.State # "TIME_WAIT" BY Zenon, <1>17, <1>18
    <2>2. Late(u) => u.State = "LAST_ACK" BY Zenon, <1>12, <1>17, <1>18 DEF Late
    <2>3. u.State # "CLOSE_WAIT" BY Zenon, <1>12, <1>17
    <2> QED BY ZenonT(60), <1>3, <1>14, <1>16, <1>17, <2>1, <2>2, <2>3 DEF Own
  <1>23. Cross(u, p)
    <2>1. u.State \in {"CLOSE_WAIT", "LAST_ACK"} \/ Late(u) => passive BY Zenon, <1>12, <1>17, <1>18 DEF Late
    <2>2. u.State \notin Ending /\ u.State # "CLOSED" BY Zenon, <1>12, <1>17 DEF Ending
    <2> QED BY ZenonT(60), <1>3, <1>16, <1>17, <1>19, <1>20, <2>1, <2>2 DEF Cross, Late
  <1>25. Sent(m, u, p)
    BY SMTT(30), <1>3, <1>5, <1>7, <1>14, <1>16, <1>17, <1>19, <1>20 DEF Sent, Own, Cross, FirstByte, ISS
  <1>26. ASSUME Nobody(u, p) PROVE SentDone(m, u, p)
    <2>1. CASE passive
      <3>1. a = p.LBW + 1 /\ s = "LAST_ACK" BY Zenon, <1>3, <1>5, <1>12, <1>19, <2>1
      <3> QED BY <1>3, <1>7, <1>17, <1>19, <2>1, <3>1 DEF SentDone, Got, Open, Ending
    <2>2. CASE ~passive
      <3>1. a <= p.LBW BY <1>3, <1>5, <1>20, <2>2
      <3> QED BY SMTT(30), <1>3, <1>7, <3>1 DEF SentDone
    <2> QED BY Zenon, <2>1, <2>2
  <1>27. Out(m, i, u, p) BY Zenon, <1>7, <1>25, <1>26 DEF Out
  <1> QED
    BY SMTT(30), <1>1, <1>2, <1>7, <1>10, <1>14, <1>15, <1>17, <1>21, <1>22, <1>23, <1>27, EmitInv

LEMMA GiveUpInv ==
  ASSUME TDInv, Orderly, NEW i \in Ends, GiveUp(i) PROVE TDInv'
  <1>1. PICK t : t = tcb[i] BY Zenon
  <1>2. PICK p : p = tcb[Peer(i)] BY Zenon
  <1>3. /\ t \in TCB /\ Own(t) /\ Cross(t, p) /\ t.LBW \in Nat /\ t.NXT \in Nat /\ t.RCVNXT \in Nat
        /\ t.Queue \in Seq(PacketSet) /\ p.LBW \in Nat /\ t.waiting \in Nat /\ t.expired \in Nat
    BY Zenon, <1>1, <1>2, EndIs, PeerIs
  <1>4. PICK w \in {"run", "asleep", "rto", "exit"} : w = WakeSend(t.send) BY Zenon, <1>3 DEF TCB, WakeSend
  <1>5. PICK r \in {"run", "asleep", "woken", "eof", "error"} : r = WakeRead(t.read)
    BY Zenon, <1>3 DEF TCB, WakeRead
  <1>6. PICK u : u = [t EXCEPT !.State = "CLOSED", !.TimeoutCancelled = TRUE, !.send = w,
                               !.read = r, !.inTable = FALSE, !.timer = "exit"]
    BY Zenon
  <1>7. /\ Update(i, u) /\ UNCHANGED <<net, faults>> /\ t.Queue # <<>> /\ t.lock = "free"
        /\ t.State \notin {"TIME_WAIT", "CLOSED"}
    BY Zenon, <1>1, <1>4, <1>5, <1>6 DEF GiveUp, TimerLocks, Free, Finalizing
  <1>8. u \in TCB
    <2>1. "CLOSED" \in States BY Zenon DEF States
    <2>2. PICK v : v = [t EXCEPT !.State = "CLOSED", !.TimeoutCancelled = TRUE, !.send = w] BY Zenon
    <2>3. v \in TCB BY ZenonT(90), <1>3, <2>1, <2>2 DEF TCB
    <2>4. PICK z : z = [v EXCEPT !.read = r] BY Zenon
    <2>5. z \in TCB BY Zenon, <2>3, <2>4, ReadType
    <2>6. u = [z EXCEPT !.inTable = FALSE, !.timer = "exit"] BY Zenon, <1>3, <1>6, <2>2, <2>4 DEF TCB
    <2>7. PICK y : y = [z EXCEPT !.inTable = FALSE] BY Zenon
    <2>8. y \in TCB BY Zenon, <2>5, <2>7, TableType
    <2>9. u = [y EXCEPT !.timer = "exit"] BY Zenon, <2>5, <2>6, <2>7 DEF TCB
    <2> QED BY Zenon, <2>8, <2>9, TimerType
  <1>9. /\ u.app = t.app /\ u.LBW = t.LBW /\ u.RCVNXT = t.RCVNXT /\ u.State = "CLOSED"
        /\ u.TimeoutCancelled /\ u.NXT = t.NXT /\ u.Cancelled = t.Cancelled /\ ~u.inTable
        /\ u.waiting = t.waiting /\ u.expired = t.expired /\ u.lock = t.lock /\ u.LBR = t.LBR
        /\ u.write = t.write /\ u.Queue = t.Queue /\ u.close = t.close
        /\ u.PendingReceivedFin = t.PendingReceivedFin /\ u.ResetWaitChan = t.ResetWaitChan
    BY <1>3, <1>6 DEF TCB
  <1>10. (FinSent(u) <=> FinSent(t)) /\ (CloseCalled(u) <=> CloseCalled(t)) /\ (Late(u) <=> Late(t))
    BY Zenon, <1>9 DEF FinSent, CloseCalled, Late
  <1>11. Late(t) => FinSent(t)
    <2>1. PICK m : m = t.Queue[1] BY Zenon
    <2>2. 1 \in 1 .. Len(t.Queue) BY <1>3, <1>7
    <2>3. (m.len = 1 \/ m.fin) /\ Sent(m, t, p) BY Zenon, <1>1, <1>2, <2>1, <2>2 DEF TDInv, QueueOf
    <2>4. m.fin => FinSent(t) BY Zenon, <2>3 DEF Sent
    <2>5. m.len = 1 => t.LBW = FirstByte + 1 BY Zenon, <2>3 DEF Sent
    <2>6. t.LBW = FirstByte + 1 => t.app.writes BY <1>3 DEF Own, FirstByte, ISS
    <2>7. Late(t) => ~t.app.writes BY Zenon, <1>1, AppsAre
    <2> QED BY Zenon, <2>3, <2>4, <2>5, <2>6, <2>7
  <1>12. Late(t) => t.RCVNXT = p.LBW /\ FinSent(p) BY Zenon, <1>3, <1>11 DEF Own, Cross
  <1>13. Mono(t, u) BY <1>3, <1>9, <1>10 DEF Mono
  <1>14. Own(u) BY ZenonT(60), <1>3, <1>7, <1>9, <1>10, <1>11 DEF Own
  <1>15. Cross(u, p) BY Zenon, <1>3, <1>9, <1>10, <1>12 DEF Cross, Open, Ending
  <1>16. ~Nobody(u, p) BY Zenon, <1>9 DEF Nobody
  <1>17. GoodEnd(i, u) BY Zenon, <1>1, <1>2, <1>8, <1>9, <1>13, <1>14, <1>15, <1>16 DEF GoodEnd
  <1> QED BY Zenon, <1>7, <1>17, QuietInv

LEMMA WaitClosedInv ==
  ASSUME TDInv, NEW i \in Ends, WaitClosed(i) PROVE TDInv'
  <1>1. PICK t : t = tcb[i] BY Zenon
  <1>2. PICK p : p = tcb[Peer(i)] BY Zenon
  <1>3. /\ t \in TCB /\ Own(t) /\ Cross(t, p) /\ t.LBW \in Nat /\ t.RCVNXT \in Nat
        /\ p.LBW \in Nat /\ t.waiting \in Nat /\ t.expired \in Nat
    BY Zenon, <1>1, <1>2, EndIs, PeerIs
  <1>4. PICK x, y : /\ \/ x = t.waiting /\ y = t.expired - 1 /\ t.expired > 0
                       \/ x = t.waiting - 1 /\ y = t.expired /\ t.waiting > 0
                    /\ Update(i, [t EXCEPT !.waiting = x, !.expired = y, !.State = "CLOSED",
                                           !.lock = "notify"])
    <2>1. [t EXCEPT !.expired = t.expired - 1, !.State = "CLOSED", !.lock = "notify"]
            = [t EXCEPT !.waiting = t.waiting, !.expired = t.expired - 1, !.State = "CLOSED",
                        !.lock = "notify"]
      BY ZenonT(60), <1>3 DEF TCB
    <2>2. [t EXCEPT !.waiting = t.waiting - 1, !.State = "CLOSED", !.lock = "notify"]
            = [t EXCEPT !.waiting = t.waiting - 1, !.expired = t.expired, !.State = "CLOSED",
                        !.lock = "notify"]
      BY ZenonT(60), <1>3 DEF TCB
    <2>3. \/ /\ t.expired > 0
             /\ Update(i, [t EXCEPT !.expired = t.expired - 1, !.State = "CLOSED", !.lock = "notify"])
          \/ /\ t.waiting > 0
             /\ Update(i, [t EXCEPT !.waiting = t.waiting - 1, !.State = "CLOSED", !.lock = "notify"])
      BY Zenon, <1>1 DEF WaitClosed
    <2>4. CASE /\ t.expired > 0
               /\ Update(i, [t EXCEPT !.expired = t.expired - 1, !.State = "CLOSED", !.lock = "notify"])
      BY Zenon, <2>1, <2>4
    <2>5. CASE /\ t.waiting > 0
               /\ Update(i, [t EXCEPT !.waiting = t.waiting - 1, !.State = "CLOSED", !.lock = "notify"])
      BY Zenon, <2>2, <2>5
    <2> QED BY Zenon, <2>3, <2>4, <2>5
  <1>5. PICK u : u = [t EXCEPT !.waiting = x, !.expired = y, !.State = "CLOSED", !.lock = "notify"] BY Zenon
  <1>6. Update(i, u) /\ UNCHANGED <<net, faults>> BY Zenon, <1>4, <1>5 DEF WaitClosed
  <1>7. t.State = "TIME_WAIT" /\ t.waiting + t.expired = 1
    <2>1. t.waiting + t.expired # 0 BY <1>3, <1>4
    <2> QED BY Zenon, <1>3, <2>1 DEF Own
  <1>8. x \in Nat /\ y \in Nat /\ x + y = 0 BY <1>3, <1>4, <1>7
  <1>9. u \in TCB
    <2>1. "CLOSED" \in States BY Zenon DEF States
    <2> QED BY ZenonT(90), <1>3, <1>5, <1>8, <2>1 DEF TCB
  <1>10. /\ u.app = t.app /\ u.LBW = t.LBW /\ u.RCVNXT = t.RCVNXT /\ u.State = "CLOSED"
         /\ u.TimeoutCancelled = t.TimeoutCancelled /\ u.NXT = t.NXT /\ u.Cancelled = t.Cancelled
         /\ u.waiting = x /\ u.expired = y /\ u.lock = "notify" /\ u.LBR = t.LBR
         /\ u.write = t.write /\ u.Queue = t.Queue /\ u.close = t.close /\ u.inTable = t.inTable
         /\ u.PendingReceivedFin = t.PendingReceivedFin /\ u.read = t.read
         /\ u.ResetWaitChan = t.ResetWaitChan
    BY ZenonT(60), <1>3, <1>5 DEF TCB
  <1>11. (FinSent(u) <=> FinSent(t)) /\ (CloseCalled(u) <=> CloseCalled(t)) /\ (Late(u) <=> Late(t))
    BY Zenon, <1>10 DEF FinSent, CloseCalled, Late
  <1>12. FinSent(t) /\ ~Late(t) BY Zenon, <1>3, <1>7 DEF Own
  <1>13. Mono(t, u) BY <1>3, <1>10, <1>11 DEF Mono, Open, Ending
  <1>14. Own(u) BY <1>3, <1>8, <1>10, <1>11, <1>12 DEF Own
  <1>15. Cross(u, p) BY ZenonT(60), <1>3, <1>7, <1>10, <1>11, <1>12 DEF Cross, Open, Ending
  <1>17. GoodEnd(i, u) BY Zenon, <1>1, <1>2, <1>9, <1>10, <1>13, <1>14, <1>15 DEF GoodEnd
  <1> QED BY Zenon, <1>6, <1>17, QuietInv

LEMMA ReadInv ==
  ASSUME TDInv, NEW i \in Ends, Read(i) PROVE TDInv'
  <1>1. PICK t : t = tcb[i] BY Zenon
  <1>2. PICK p : p = tcb[Peer(i)] BY Zenon
  <1>3. /\ t \in TCB /\ Own(t) /\ Cross(t, p) /\ t.LBW \in Nat /\ t.RCVNXT \in Nat /\ t.LBR \in Nat
        /\ p.LBW \in Nat /\ t.waiting \in Nat /\ t.expired \in Nat
    BY Zenon, <1>1, <1>2, EndIs, PeerIs
  <1>4. PICK e \in {"error", "eof", "run", "asleep"} :
            /\ e = "eof" => Eof(t)
            /\ e = "run" => t.LBR # t.RCVNXT
            /\ Update(i, [t EXCEPT !.read = e, !.LBR = IF e = "run" THEN t.LBR + 1 ELSE t.LBR])
            /\ UNCHANGED <<net, faults>>
    <2>1. PICK e : e = IF t.read = "run" /\ (t.ReadCancelled \/ ~t.inTable \/ t.TimeoutCancelled)
                       THEN "error"
                       ELSE IF Eof(t) THEN "eof"
                       ELSE IF t.LBR # t.RCVNXT THEN "run" ELSE "asleep"
      BY Zenon
    <2>2. /\ Update(i, [t EXCEPT !.read = e, !.LBR = IF e = "run" THEN t.LBR + 1 ELSE t.LBR])
          /\ UNCHANGED <<net, faults>>
      BY Zenon, <1>1, <2>1 DEF Read
    <2> QED BY Zenon, <2>1, <2>2
  <1>5. PICK l \in Nat : l = IF e = "run" THEN t.LBR + 1 ELSE t.LBR BY <1>3
  <1>11. l <= t.RCVNXT BY <1>3, <1>4, <1>5 DEF Own
  <1>l. l \in Seqs
    <2>1. Own(p) /\ t.LBR \in Seqs BY Zenon, <1>2, <1>3, EndIs, PeerIs DEF TCB
    <2>2. l <= FirstByte + 2 BY <1>3, <1>5, <1>11, <2>1 DEF Own, Cross, FirstByte, ISS
    <2> QED BY <1>3, <1>5, <2>1, <2>2 DEF Seqs, FirstByte, ISS
  <1>6. PICK u : u = [t EXCEPT !.read = e, !.LBR = l] BY Zenon
  <1>7. Update(i, u) BY Zenon, <1>4, <1>5, <1>6
  <1>r. e \in {"run", "asleep", "woken", "eof", "error"} BY Zenon, <1>4
  <1>8. u \in TCB
    <2>1. PICK y : y = [t EXCEPT !.read = e] BY Zenon
    <2>2. y \in TCB BY Zenon, <1>3, <1>r, <2>1, ReadType
    <2>3. u = [y EXCEPT !.LBR = l] BY Zenon, <1>3, <1>6, <2>1 DEF TCB
    <2> QED BY Zenon, <1>l, <2>2, <2>3, LBRType
  <1>9. /\ u.app = t.app /\ u.LBW = t.LBW /\ u.RCVNXT = t.RCVNXT /\ u.State = t.State
        /\ u.TimeoutCancelled = t.TimeoutCancelled /\ u.NXT = t.NXT /\ u.Cancelled = t.Cancelled
        /\ u.waiting = t.waiting /\ u.expired = t.expired /\ u.lock = t.lock /\ u.LBR = l
        /\ u.write = t.write /\ u.Queue = t.Queue /\ u.close = t.close /\ u.inTable = t.inTable
        /\ u.PendingReceivedFin = t.PendingReceivedFin /\ u.read = e
        /\ u.ResetWaitChan = t.ResetWaitChan
    BY ZenonT(60), <1>3, <1>6 DEF TCB
  <1>10. (FinSent(u) <=> FinSent(t)) /\ (CloseCalled(u) <=> CloseCalled(t)) /\ (Late(u) <=> Late(t))
    BY Zenon, <1>9 DEF FinSent, CloseCalled, Late
  <1>12. e = "eof" /\ ~t.TimeoutCancelled => FinSent(p) /\ l = p.LBW
    BY Zenon, <1>3, <1>4, <1>5 DEF Eof, Cross
  <1>13. Mono(t, u) BY SMTT(30), <1>3, <1>9, <1>10 DEF Mono
  <1>14. Own(u) BY <1>3, <1>9, <1>10, <1>11 DEF Own
  <1>15. Cross(u, p) BY Zenon, <1>3, <1>9, <1>10, <1>12 DEF Cross
  <1>17. GoodEnd(i, u) BY Zenon, <1>1, <1>2, <1>8, <1>9, <1>13, <1>14, <1>15 DEF GoodEnd
  <1> QED BY Zenon, <1>4, <1>7, <1>17, QuietInv

-----------------------------------------------------------------------------
(* The handlers. m is the packet, u what becomes of the TCB.               *)

LEMMA ArrivedIs ==
  ASSUME TDInv, NEW m \in net
  PROVE  /\ m \in PacketSet /\ m.to \in Ends /\ m.seq \in Nat /\ m.ack \in Nat
         /\ Sent(m, tcb[Peer(m.to)], tcb[m.to]) /\ At(m, tcb[m.to])
         /\ Nobody(tcb[m.to], tcb[Peer(m.to)]) => SentDone(m, tcb[Peer(m.to)], tcb[m.to])
  <1>1. m \in PacketSet BY Zenon DEF TDInv, TypeInv
  <1>2. m.to \in Ends /\ m.seq \in Nat /\ m.ack \in Nat BY Zenon, <1>1 DEF PacketSet
  <1>3. Nobody(tcb[m.to], tcb[Peer(m.to)]) => SentDone(m, tcb[Peer(m.to)], tcb[m.to])
    BY Zenon, <1>2, DoneIs DEF DoneInv
  <1> QED BY Zenon, <1>1, <1>2, <1>3 DEF TDInv

LEMMA ReplyInv ==
  ASSUME TDInv, NEW i \in Ends, NEW u, NEW rest, rest \subseteq net, NEW x \in PacketSet,
         net' = rest \cup {x}, Out(x, i, u, tcb[Peer(i)]) \/ Back(x, i, u, tcb[Peer(i)]),
         Update(i, u), GoodEnd(i, u), faults' \in 0 .. Faults
  PROVE  TDInv'
  <1>1. GoodNet(i, u) BY Zenon DEF GoodNet, TDInv, TypeInv
  <1> QED BY Zenon, <1>1, StepInv

LEMMA DropInv ==
  ASSUME TDInv, NEW i \in Ends, NEW u, net' \subseteq net, Update(i, u), GoodEnd(i, u),
         faults' \in 0 .. Faults
  PROVE  TDInv'
  <1>1. GoodNet(i, u) BY Zenon DEF GoodNet, TDInv, TypeInv
  <1> QED BY Zenon, <1>1, StepInv

LEMMA StillGood ==
  ASSUME TDInv, NEW i \in Ends, UNCHANGED tcb
  PROVE  Update(i, tcb[i]) /\ GoodEnd(i, tcb[i])
  <1>1. Update(i, tcb[i]) BY Zenon DEF TDInv, TypeInv, Update
  <1>2. tcb[i] \in TCB /\ Own(tcb[i]) BY Zenon, EndIs
  <1>3. Alike(tcb[i], tcb[i]) BY Zenon, <1>2 DEF Alike, Own
  <1> QED BY Zenon, <1>1, <1>2, <1>3, AlikeGood

LEMMA NxtIs ==
  ASSUME NEW u \in TCB, Own(u)
  PROVE  u.NXT \in Nat /\ u.NXT >= FirstByte /\ u.NXT <= u.LBW + 1
  <1>1. u.NXT \in Nat /\ u.LBW \in Nat BY Zenon DEF TCB
  <1> QED BY <1>1 DEF Own, FirstByte, ISS

\* an acknowledgment of what has been received in order
LEMMA AckOut ==
  ASSUME TDInv, NEW i \in Ends, NEW u \in TCB, NEW n \in Nat,
         n >= FirstByte, n <= u.LBW + 1, Cross(u, tcb[Peer(i)])
  PROVE  /\ Packet(i, n, u.RCVNXT, 0, FALSE) \in PacketSet
         /\ Out(Packet(i, n, u.RCVNXT, 0, FALSE), i, u, tcb[Peer(i)])
  <1>1. PICK p : p = tcb[Peer(i)] BY Zenon
  <1>2. u.RCVNXT \in Nat /\ u.LBW \in Nat BY Zenon DEF TCB
  <1>3. p.LBW \in Nat BY Zenon, <1>1, PeerIs, EndIs
  <1>4. PICK m : m = Packet(i, n, u.RCVNXT, 0, FALSE) BY Zenon
  <1>5. /\ m \in PacketSet /\ m.to = Peer(i) /\ m.at = "wire"
        /\ m.seq = n /\ m.ack = u.RCVNXT /\ m.len = 0 /\ m.fin = FALSE
    BY Zenon, <1>2, <1>4, PeerIs DEF Packet, PacketSet
  <1>6. Sent(m, u, p) BY SMTT(30), <1>1, <1>2, <1>3, <1>5 DEF Sent, Cross
  <1>7. SentDone(m, u, p)
    <2>1. u.RCVNXT = p.LBW + 1 => FinSent(p) /\ u.State \notin Open BY <1>1, <1>2, <1>3 DEF Cross
    <2> QED BY SMTT(30), <1>2, <1>3, <1>5, <2>1 DEF SentDone, Got
  <1> QED BY Zenon, <1>1, <1>4, <1>5, <1>6, <1>7 DEF Out

\* an acknowledgment of the FIN as well
LEMMA FinAckOut ==
  ASSUME TDInv, NEW i \in Ends, NEW u \in TCB, NEW n \in Nat,
         n >= FirstByte, n <= u.LBW + 1, Cross(u, tcb[Peer(i)]), u.State \in {"CLOSE_WAIT", "LAST_ACK"}
  PROVE  /\ Packet(i, n, u.RCVNXT + 1, 0, FALSE) \in PacketSet
         /\ Out(Packet(i, n, u.RCVNXT + 1, 0, FALSE), i, u, tcb[Peer(i)])
  <1>1. PICK p : p = tcb[Peer(i)] BY Zenon
  <1>2. u.RCVNXT \in Nat /\ u.LBW \in Nat BY Zenon DEF TCB
  <1>3. p.LBW \in Nat BY Zenon, <1>1, PeerIs, EndIs
  <1>4. PICK a \in Nat : a = u.RCVNXT + 1 BY <1>2
  <1>5. PICK m : m = Packet(i, n, a, 0, FALSE) BY Zenon
  <1>6. /\ m \in PacketSet /\ m.to = Peer(i) /\ m.at = "wire"
        /\ m.seq = n /\ m.ack = a /\ m.len = 0 /\ m.fin = FALSE
    BY Zenon, <1>2, <1>5, PeerIs DEF Packet, PacketSet
  <1>7. u.RCVNXT = p.LBW /\ FinSent(p) /\ u.RCVNXT >= FirstByte BY Zenon, <1>1 DEF Cross
  <1>8. Sent(m, u, p) BY SMTT(30), <1>2, <1>3, <1>4, <1>6, <1>7 DEF Sent, FirstByte, ISS
  <1>9. SentDone(m, u, p) BY <1>2, <1>3, <1>4, <1>6, <1>7 DEF SentDone, Got, Open, Ending
  <1> QED BY Zenon, <1>1, <1>4, <1>5, <1>6, <1>8, <1>9 DEF Out

\* the packet goes on to Receive
LEMMA ReceiveBack ==
  ASSUME TDInv, NEW m \in net, NEW u \in TCB, Mono(tcb[m.to], u), FinSent(u), ~Late(u)
  PROVE  /\ [m EXCEPT !.at = "RECEIVE"] \in PacketSet
         /\ Back([m EXCEPT !.at = "RECEIVE"], m.to, u, tcb[Peer(m.to)])
  <1>1. PICK i : i = m.to BY Zenon
  <1>2. PICK t : t = tcb[i] BY Zenon
  <1>3. PICK p : p = tcb[Peer(i)] BY Zenon
  <1>4. m \in PacketSet /\ i \in Ends /\ Sent(m, p, t) /\ (Nobody(t, p) => SentDone(m, p, t))
    BY Zenon, <1>1, <1>2, <1>3, ArrivedIs
  <1>5. t \in TCB /\ p \in TCB BY Zenon, <1>2, <1>3, <1>4, EndIs, PeerIs
  <1>6. Sent(m, p, u) BY Zenon, <1>1, <1>2, <1>4, <1>5, SentToKept
  <1>7. Nobody(u, p) => SentDone(m, p, u)
    <2>1. Nobody(u, p) => Nobody(t, p) BY Zenon, <1>1, <1>2 DEF Mono, Nobody
    <2> QED BY Zenon, <1>1, <1>2, <1>4, <1>5, <2>1, SentDoneKept DEF Nobody
  <1>8. PICK x : x = [m EXCEPT !.at = "RECEIVE"] BY Zenon
  <1>9. /\ x \in PacketSet /\ x.to = i /\ x.at = "RECEIVE" /\ x.seq = m.seq /\ x.ack = m.ack
        /\ x.len = m.len /\ x.fin = m.fin
    BY Zenon, <1>1, <1>4, <1>8 DEF PacketSet
  <1>10. Sent(x, p, u) BY Zenon, <1>6, <1>9 DEF Sent
  <1>11. Nobody(u, p) => SentDone(x, p, u) BY Zenon, <1>7, <1>9 DEF SentDone
  <1>12. At(x, u) BY Zenon, <1>9 DEF At, States
  <1> QED BY Zenon, <1>1, <1>3, <1>8, <1>9, <1>10, <1>11, <1>12 DEF Back

-----------------------------------------------------------------------------
(* Receive.                                                                *)

Trimmed(t, u) ==
    /\ u.app = t.app /\ u.State = t.State /\ u.NXT = t.NXT /\ u.LBW = t.LBW /\ u.RCVNXT = t.RCVNXT
    /\ u.PendingReceivedFin = t.PendingReceivedFin /\ u.LBR = t.LBR /\ u.Cancelled = t.Cancelled
    /\ u.TimeoutCancelled = t.TimeoutCancelled /\ u.waiting = t.waiting /\ u.expired = t.expired
    /\ u.read = t.read /\ u.inTable = t.inTable /\ u.lock = t.lock /\ u.write = t.write
    /\ u.close = t.close /\ u.ResetWaitChan = t.ResetWaitChan
    /\ \A k \in 1 .. Len(u.Queue) : \E n \in 1 .. Len(t.Queue) : u.Queue[k] = t.Queue[n]

\* removeFromRetransmissionQueue only removes.
LEMMA TrimIs ==
  ASSUME NEW t \in TCB, NEW n \in 0 .. Len(t.Queue)
  PROVE  Trim(t, n) \in TCB /\ Trimmed(t, Trim(t, n))
  <1>1. t.Queue \in Seq(PacketSet) /\ t.RetransmitCounter \in 0 .. MAX_RETRANSMISSIONS BY Zenon DEF TCB
  <1>2. PICK s : s = t.Queue BY Zenon
  <1>3. s \in Seq(PacketSet) /\ Len(s) \in Nat /\ n \in Nat BY <1>1, <1>2
  <1>4. PICK q : q = SubSeq(s, n + 1, Len(s)) BY Zenon
  <1>5. \A k \in 1 .. Len(q) : k + n \in 1 .. Len(s) /\ q[k] = s[k + n] BY <1>3, <1>4
  <1>6. q \in Seq(PacketSet) BY <1>3, <1>4
  <1>7. PICK c : c = IF n = 0 THEN t.RetransmitCounter ELSE 0 BY Zenon
  <1>8. c \in 0 .. MAX_RETRANSMISSIONS BY <1>1, <1>7, TeardownAssumption
  <1>9. PICK u : u = [t EXCEPT !.Queue = q, !.RetransmitCounter = c] BY Zenon
  <1>10. u = Trim(t, n) BY Zenon, <1>2, <1>4, <1>7, <1>9 DEF Trim
  <1>11. u \in TCB /\ u.Queue = q
    <2>1. PICK y : y = [t EXCEPT !.Queue = q] BY Zenon
    <2>2. y \in TCB BY Zenon, <1>6, <2>1, QueueType
    <2>3. u = [y EXCEPT !.RetransmitCounter = c] /\ u.Queue = q BY Zenon, <1>9, <2>1 DEF TCB
    <2> QED BY Zenon, <1>8, <2>2, <2>3, CounterType
  <1>12. \A k \in 1 .. Len(u.Queue) : \E j \in 1 .. Len(t.Queue) : u.Queue[k] = t.Queue[j]
    BY Zenon, <1>2, <1>5, <1>11
  <1>13. Trimmed(t, u) BY ZenonT(60), <1>9, <1>12 DEF TCB, Trimmed
  <1> QED BY Zenon, <1>10, <1>11, <1>13

LEMMA TakeAckIs ==
  ASSUME NEW t \in TCB, NEW m \in PacketSet, m.ack \in {0} \cup Seqs, NEW n \in 0 .. Len(t.Queue)
  PROVE  TakeAck(t, m, n) \in TCB /\ Trimmed(t, TakeAck(t, m, n))
  <1>1. PICK u : u = TakeAck(t, m, n) BY Zenon
  <1>2. CASE m.ack <= t.UNA BY Zenon, <1>1, <1>2 DEF TakeAck, Trimmed
  <1>3. CASE ~(m.ack <= t.UNA)
    <2>1. PICK v : v = Trim(t, n) BY Zenon
    <2>2. v \in TCB /\ Trimmed(t, v) BY Zenon, <2>1, TrimIs
    <2>3. PICK a \in Seqs : a = m.ack
      <3>1. t.UNA \in FromISS BY Zenon DEF TCB
      <3> QED BY <1>3, <3>1 DEF FromISS, Seqs, FirstByte, ISS
    <2>4. u = [v EXCEPT !.UNA = a] BY Zenon, <1>1, <1>3, <2>1, <2>3 DEF TakeAck
    <2>5. u \in TCB
      <3>1. a \in FromISS BY Zenon, <2>3 DEF FromISS
      <3> QED BY Zenon, <2>2, <2>4, <3>1, UNAType
    <2>6. u.Queue = v.Queue BY Zenon, <2>2, <2>4 DEF TCB
    <2>7. Trimmed(t, u) BY <2>2, <2>4, <2>6 DEF TCB, Trimmed
    <2> QED BY Zenon, <1>1, <2>5, <2>7
  <1> QED BY Zenon, <1>2, <1>3

LEMMA TrimmedGood ==
  ASSUME TDInv, NEW i \in Ends, NEW v, GoodEnd(i, v), v.Queue = tcb[i].Queue, NEW u \in TCB, Trimmed(v, u)
  PROVE  GoodEnd(i, u)
  <1>1. PICK t : t = tcb[i] BY Zenon
  <1>2. PICK p : p = tcb[Peer(i)] BY Zenon
  <1>3. /\ v \in TCB /\ Mono(t, v) /\ Own(v) /\ Cross(v, p)
    BY Zenon, <1>1, <1>2 DEF GoodEnd
  <1>4. /\ FinSent(u) <=> FinSent(v)
        /\ CloseCalled(u) <=> CloseCalled(v)
        /\ Late(u) <=> Late(v)
    BY Zenon DEF Trimmed, FinSent, CloseCalled, Late
  <1>5. Mono(t, u) BY Zenon, <1>3, <1>4 DEF Trimmed, Mono
  <1>6. Own(u) BY <1>3, <1>4 DEF Trimmed, Own
  <1>7. Cross(u, p) BY Zenon, <1>3, <1>4 DEF Trimmed, Cross
  <1>9. \A k \in 1 .. Len(u.Queue) : \E n \in 1 .. Len(t.Queue) : u.Queue[k] = t.Queue[n]
    BY <1>1 DEF Trimmed
  <1> QED BY Zenon, <1>1, <1>2, <1>5, <1>6, <1>7, <1>9 DEF GoodEnd

\* Receive takes the byte that it expects, and the early FIN after it.
LEMMA TakeDataGood ==
  ASSUME TDInv, NEW m \in net, NEW t, t = tcb[m.to]
  PROVE  /\ GoodEnd(m.to, TakeData(t, m)) /\ TakeData(t, m).Queue = t.Queue
         /\ TakeData(t, m).LBW = t.LBW
         /\ m.len = 1 /\ m.seq >= t.RCVNXT
              => /\ TakeData(t, m).RCVNXT = t.RCVNXT + 1
                 /\ t.RCVNXT + 1 = t.PendingReceivedFin => TakeData(t, m).State = "CLOSE_WAIT"
  <1>1. PICK i \in Ends : i = m.to BY Zenon, ArrivedIs
  <1>2. PICK p : p = tcb[Peer(i)] BY Zenon
  <1>3. /\ t \in TCB /\ Own(t) /\ Cross(t, p) /\ t.LBW \in Nat /\ t.NXT \in Nat /\ t.RCVNXT \in Nat
        /\ p.LBW \in Nat /\ t.waiting \in Nat /\ t.expired \in Nat /\ t.PendingReceivedFin \in Nat
        /\ t.LBR \in Nat
    BY Zenon, <1>1, <1>2, EndIs, PeerIs
  <1>4. m \in PacketSet /\ m.seq \in Nat /\ Sent(m, p, t) /\ m.len \in {0, 1}
    BY Zenon, <1>1, <1>2, ArrivedIs DEF PacketSet
  <1>5. CASE m.len = 0 \/ m.seq < t.RCVNXT
    <2>1. TakeData(t, m) = t /\ ~(m.len = 1 /\ m.seq >= t.RCVNXT) BY <1>3, <1>4, <1>5 DEF TakeData
    <2>2. Alike(t, t) BY Zenon, <1>3 DEF Alike, Own
    <2> QED BY Zenon, <1>1, <1>3, <2>1, <2>2, AlikeGood
  <1>6. CASE ~(m.len = 0 \/ m.seq < t.RCVNXT)
    <2>1. t.RCVNXT = FirstByte /\ p.LBW = FirstByte + 1
      BY <1>3, <1>4, <1>6 DEF Sent, Cross
    <2>2. PICK r \in {"run", "asleep", "woken", "eof", "error"} :
            r = WakeRead(t.read) /\ (r = "eof" => t.read = "eof")
      BY ZenonT(60), <1>3 DEF TCB, WakeRead
    <2>3. PICK s : s = IF t.RCVNXT + 1 = t.PendingReceivedFin THEN "CLOSE_WAIT" ELSE t.State BY Zenon
    <2>4. s \in States BY Zenon, <1>3, <2>3 DEF TCB, States
    <2>5. PICK u : u = [t EXCEPT !.RCVNXT = t.RCVNXT + 1, !.read = r, !.State = s] BY Zenon
    <2>6. u = TakeData(t, m) BY Zenon, <1>6, <2>2, <2>3, <2>5 DEF TakeData
    <2>n. t.RCVNXT + 1 \in Nat BY <1>3
    <2>7. u \in TCB
      <3>n. PICK n \in Nat : n = t.RCVNXT + 1 BY Zenon, <2>n
      <3>1. PICK y : y = [t EXCEPT !.RCVNXT = n] BY Zenon
      <3>2. y \in TCB BY Zenon, <1>3, <3>1, RCVNXTType
      <3>3. PICK z : z = [y EXCEPT !.read = r] BY Zenon
      <3>4. z \in TCB BY Zenon, <3>2, <3>3, ReadType
      <3>5. u = [z EXCEPT !.State = s] BY ZenonT(60), <1>3, <2>5, <3>n, <3>1, <3>3 DEF TCB
      <3> QED BY Zenon, <2>4, <3>4, <3>5, StateType
    <2>8. /\ u.app = t.app /\ u.LBW = t.LBW /\ u.RCVNXT = t.RCVNXT + 1 /\ u.State = s
          /\ u.TimeoutCancelled = t.TimeoutCancelled /\ u.NXT = t.NXT /\ u.Cancelled = t.Cancelled
          /\ u.waiting = t.waiting /\ u.expired = t.expired /\ u.lock = t.lock /\ u.LBR = t.LBR
          /\ u.write = t.write /\ u.Queue = t.Queue /\ u.close = t.close /\ u.inTable = t.inTable
          /\ u.PendingReceivedFin = t.PendingReceivedFin /\ u.read = r
          /\ u.ResetWaitChan = t.ResetWaitChan
      BY <1>3, <2>5 DEF TCB
    <2>9. /\ FinSent(u) <=> FinSent(t)
          /\ CloseCalled(u) <=> CloseCalled(t)
          /\ Late(u) <=> Late(t)
      BY Zenon, <2>8 DEF FinSent, CloseCalled, Late
    <2>10. /\ t.State \notin {"CLOSE_WAIT", "LAST_ACK"} /\ (Late(t) => t.State = "ESTABLISHED")
           /\ t.State \notin Ending /\ (t.State = "CLOSED" => t.TimeoutCancelled) /\ ~t.ResetWaitChan
           /\ CloseCalled(t) => MayCloseFirst(t.app)
      BY SMTT(30), <1>3, <2>1 DEF Cross, FirstByte, ISS
    <2>11. ASSUME s # t.State
           PROVE  s = "CLOSE_WAIT" /\ t.PendingReceivedFin # 0 /\ FinSent(p)
      <3>1. s = "CLOSE_WAIT" /\ t.RCVNXT + 1 = t.PendingReceivedFin BY Zenon, <2>3, <2>11
      <3>2. t.PendingReceivedFin # 0 BY <1>3, <3>1
      <3>3. FinSent(p) BY Zenon, <1>3, <3>2 DEF Cross
      <3> QED BY Zenon, <3>1, <3>2, <3>3
    <2>12. Mono(t, u) BY SMTT(30), <1>3, <2>8, <2>9, <2>11 DEF Mono, Open, Ending
    <2>13. Own(u)
      <3>1. Late(u) => u.State \in {"ESTABLISHED", "CLOSE_WAIT"} BY Zenon, <2>8, <2>9, <2>10, <2>11
      <3>2. ~FinSent(u) => /\ u.NXT >= FirstByte /\ u.NXT <= u.LBW
                           /\ \/ u.State \in {"ESTABLISHED", "CLOSE_WAIT"}
                              \/ u.State = "CLOSED" /\ u.TimeoutCancelled
        BY Zenon, <1>3, <2>8, <2>9, <2>11 DEF Own
      <3>3. u.State # t.State => u.State = "CLOSE_WAIT" BY Zenon, <2>8, <2>11
      <3>4. t.State # "TIME_WAIT" BY Zenon, <2>10 DEF Ending
      <3>5. u.LBR <= u.RCVNXT
        <4>1. t.LBR <= t.RCVNXT BY Zenon, <1>3 DEF Own
        <4> QED BY SMTT(30), <1>3, <2>8, <4>1
      <3>6. u.waiting + u.expired = IF u.State = "TIME_WAIT" THEN 1 ELSE 0
        <4>1. t.waiting + t.expired = IF t.State = "TIME_WAIT" THEN 1 ELSE 0 BY Zenon, <1>3 DEF Own
        <4> QED BY Zenon, <2>8, <3>3, <3>4, <4>1
      <3>7. /\ u.LBW \in {FirstByte, FirstByte + 1}
            /\ u.write # "done" => u.LBW = FirstByte
            /\ u.write # "no" => u.app.writes
            /\ u.TimeoutCancelled => ~u.inTable
        BY ZenonT(60), <1>3, <2>8 DEF Own
      <3>8. FinSent(u) => u.NXT = u.LBW + 1 /\ u.Cancelled /\ u.State # "ESTABLISHED"
        BY ZenonT(60), <1>3, <2>8, <2>9, <3>3 DEF Own
      <3>9. /\ FinSent(u) /\ u.State = "CLOSE_WAIT"
                => Late(u) \/ (u.PendingReceivedFin # 0 /\ MayCloseFirst(u.app))
            /\ CloseCalled(u) /\ u.State = "ESTABLISHED" => MayCloseFirst(u.app)
        <4>1. FinSent(t) => CloseCalled(t) BY Zenon DEF FinSent, CloseCalled
        <4> QED BY ZenonT(60), <2>8, <2>9, <2>10, <2>11, <4>1
      <3> QED BY ZenonT(60), <3>1, <3>2, <3>5, <3>6, <3>7, <3>8, <3>9 DEF Own
    <2>14. Cross(u, p)
      <3>1. u.RCVNXT = p.LBW /\ u.RCVNXT >= FirstByte BY <2>1, <2>8 DEF FirstByte, ISS
      <3>2. u.State \in {"CLOSE_WAIT", "LAST_ACK"} \/ (Late(u) /\ u.State # "ESTABLISHED") => FinSent(p)
        BY Zenon, <2>8, <2>9, <2>10, <2>11
      <3>3. u.RCVNXT <= p.LBW + 1 /\ u.RCVNXT <= p.LBW BY <1>3, <3>1
      <3>4. u.State \notin Ending /\ (u.State = "CLOSED" => u.TimeoutCancelled) /\ ~u.ResetWaitChan
        BY Zenon, <2>8, <2>10, <2>11 DEF Ending
      <3>5. CloseCalled(u) => MayCloseFirst(u.app) BY Zenon, <2>8, <2>9, <2>10
      <3> QED BY ZenonT(60), <1>3, <2>2, <2>8, <3>1, <3>2, <3>3, <3>4, <3>5 DEF Cross
    <2>16. GoodEnd(i, u) BY Zenon, <1>1, <1>2, <2>7, <2>8, <2>12, <2>13, <2>14 DEF GoodEnd
    <2> QED BY Zenon, <1>1, <2>3, <2>6, <2>8, <2>16
  <1> QED BY Zenon, <1>5, <1>6

LEMMA ReceiveInv ==
  ASSUME TDInv, NEW m \in net, NEW rest, rest \subseteq net, Receive(m.to, m, rest),
         faults' \in 0 .. Faults
  PROVE  TDInv'
  <1>1. PICK i \in Ends : i = m.to BY Zenon, ArrivedIs
  <1>2. PICK t : t = tcb[i] BY Zenon
  <1>3. PICK p : p = tcb[Peer(i)] BY Zenon
  <1>4. PICK v : v = TakeData(t, m) BY Zenon
  <1>5. /\ GoodEnd(i, v) /\ v.Queue = t.Queue /\ v.LBW = t.LBW
        /\ m.len = 1 /\ m.seq >= t.RCVNXT
              => v.RCVNXT = t.RCVNXT + 1 /\ (t.RCVNXT + 1 = t.PendingReceivedFin => v.State = "CLOSE_WAIT")
    BY ZenonT(60), <1>1, <1>2, <1>4, TakeDataGood
  <1>6. v \in TCB /\ m \in PacketSet BY Zenon, <1>5, ArrivedIs DEF GoodEnd
  <1>n. PICK n \in 0 .. Len(t.Queue) : Update(i, TakeAck(v, m, n))
    BY Zenon, <1>1, <1>2, <1>4 DEF Receive, Acked
  <1>7. PICK u : u = TakeAck(v, m, n) BY Zenon
  <1>a. m.ack \in {0} \cup Seqs
    <2>1. Own(t) /\ Sent(m, p, t) /\ m.ack \in Nat BY Zenon, <1>1, <1>2, <1>3, EndIs, ArrivedIs
    <2> QED BY SMTT(30), <2>1 DEF Own, Sent, Seqs, FirstByte, ISS
  <1>8. u \in TCB /\ Trimmed(v, u) BY Zenon, <1>5, <1>6, <1>7, <1>a, TakeAckIs
  <1>9. GoodEnd(i, u) BY Zenon, <1>2, <1>5, <1>8, TrimmedGood
  <1>10. Update(i, u) /\ net' = rest \cup DataReply(i, t, m) BY Zenon, <1>1, <1>2, <1>n, <1>7 DEF Receive
  <1>11. Cross(u, p) BY Zenon, <1>3, <1>9 DEF GoodEnd
  <1>12. t.NXT \in Nat /\ t.NXT >= FirstByte /\ t.NXT <= u.LBW + 1
    <2>1. t \in TCB /\ Own(t) BY Zenon, <1>2, EndIs
    <2> QED BY Zenon, <1>5, <1>8, <2>1, NxtIs DEF Trimmed
  <1>13. CASE m.len = 0
    <2>1. net' \subseteq net BY Zenon, <1>10, <1>13 DEF DataReply
    <2> QED BY Zenon, <1>9, <1>10, <2>1, DropInv
  <1>14. CASE m.len # 0
    <2>1. PICK finToo : finToo = (m.seq >= t.RCVNXT /\ v.RCVNXT = t.PendingReceivedFin) BY Zenon
    <2>a. PICK a : a = v.RCVNXT + IF finToo THEN 1 ELSE 0 BY Zenon
    <2>2. PICK x : x = Packet(i, t.NXT, a, 0, FALSE) BY Zenon
    <2>3. net' = rest \cup {x} BY ZenonT(60), <1>4, <1>10, <1>14, <2>1, <2>a, <2>2 DEF DataReply
    <2>4. u.RCVNXT = v.RCVNXT /\ u.State = v.State /\ v.RCVNXT \in Nat BY Zenon, <1>6, <1>8 DEF Trimmed, TCB
    <2>5. CASE finToo
      <3>1. m.len = 1 /\ m.seq >= t.RCVNXT /\ v.RCVNXT = t.PendingReceivedFin
        BY Zenon, <1>6, <1>14, <2>1, <2>5 DEF PacketSet
      <3>2. u.State = "CLOSE_WAIT" BY Zenon, <1>5, <2>4, <3>1
      <3>3. x = Packet(i, t.NXT, u.RCVNXT + 1, 0, FALSE) BY Zenon, <2>a, <2>2, <2>4, <2>5
      <3>4. x \in PacketSet /\ Out(x, i, u, p) BY ZenonT(60), <1>3, <1>8, <1>11, <1>12, <3>2, <3>3, FinAckOut
      <3> QED BY ZenonT(60), <1>3, <1>9, <1>10, <2>3, <3>4, ReplyInv
    <2>6. CASE ~finToo
      <3>a. a = u.RCVNXT BY <2>a, <2>4, <2>6
      <3>1. x = Packet(i, t.NXT, u.RCVNXT, 0, FALSE) BY Zenon, <2>2, <3>a
      <3>2. x \in PacketSet /\ Out(x, i, u, p) BY ZenonT(60), <1>3, <1>8, <1>11, <1>12, <3>1, AckOut
      <3> QED BY ZenonT(60), <1>3, <1>9, <1>10, <2>3, <3>2, ReplyInv
    <2> QED BY Zenon, <2>5, <2>6
  <1> QED BY Zenon, <1>13, <1>14
-----------------------------------------------------------------------------
(* The handlers that move on after the FIN has been sent.                  *)

Frame(t, u) ==
    /\ u.app = t.app /\ u.NXT = t.NXT /\ u.LBW = t.LBW /\ u.LBR = t.LBR /\ u.read = t.read
    /\ u.PendingReceivedFin = t.PendingReceivedFin /\ u.TimeoutCancelled = t.TimeoutCancelled
    /\ u.Cancelled = t.Cancelled /\ u.inTable = t.inTable /\ u.write = t.write /\ u.close = t.close
    /\ \A k \in 1 .. Len(u.Queue) : \E n \in 1 .. Len(t.Queue) : u.Queue[k] = t.Queue[n]

LEMMA MoveGood ==
  ASSUME TDInv, NEW i \in Ends, NEW u \in TCB, NEW t, t = tcb[i], NEW p, p = tcb[Peer(i)],
         FinSent(t), Frame(t, u), u.State \notin {"ESTABLISHED", "CLOSE_WAIT", "LAST_ACK"},
         Late(t) => u.State = "CLOSED" /\ u.RCVNXT = t.RCVNXT,
         \/ u.RCVNXT = t.RCVNXT /\ u.ResetWaitChan = t.ResetWaitChan
         \/ /\ u.RCVNXT = t.RCVNXT + 1 /\ t.RCVNXT <= p.LBW /\ FinSent(p) /\ u.State \notin Open
            /\ u.ResetWaitChan => t.ResetWaitChan \/ t.RCVNXT = p.LBW,
         u.State \in Open => t.State \in Open,
         u.State \in Ending => t.State \in Open \cup Ending,
         u.State \in Ending \cup {"CLOSED"} => u.RCVNXT >= p.LBW /\ FinSent(p),
         u.waiting + u.expired = IF u.State = "TIME_WAIT" THEN 1 ELSE 0
  PROVE  GoodEnd(i, u)
  <1>1. /\ t \in TCB /\ Own(t) /\ Cross(t, p) /\ t.LBW \in Nat /\ t.NXT \in Nat /\ t.RCVNXT \in Nat
        /\ p.LBW \in Nat /\ t.LBR \in Nat /\ t.PendingReceivedFin \in Nat
    BY Zenon, EndIs, PeerIs
  <1>2. FinSent(u) /\ (CloseCalled(u) <=> CloseCalled(t)) /\ (Late(u) <=> Late(t))
    BY Zenon DEF Frame, FinSent, CloseCalled, Late
  <1>3. t.RCVNXT <= u.RCVNXT /\ u.RCVNXT \in Nat BY SMTT(30), <1>1
  <1>4. Mono(t, u) BY SMTT(30), <1>1, <1>2, <1>3 DEF Mono, Frame
  <1>5. Own(u)
    <2>1. u.LBR <= u.RCVNXT
      <3>1. t.LBR <= t.RCVNXT /\ u.LBR = t.LBR BY Zenon, <1>1 DEF Own, Frame
      <3> QED BY SMTT(30), <1>1, <1>3, <3>1
    <2>2. /\ u.LBW \in {FirstByte, FirstByte + 1}
          /\ u.write # "done" => u.LBW = FirstByte
          /\ u.write # "no" => u.app.writes
          /\ u.TimeoutCancelled => ~u.inTable
          /\ u.NXT = u.LBW + 1 /\ u.Cancelled
      BY ZenonT(60), <1>1, <1>2 DEF Own, Frame
    <2> QED BY ZenonT(60), <1>2, <2>1, <2>2 DEF Own
  <1>6. Cross(u, p)
    <2>1. u.RCVNXT >= FirstByte /\ u.RCVNXT <= p.LBW + 1 BY <1>1, <1>3 DEF Cross, FirstByte, ISS
    <2>2. u.State \in Open \/ ~FinSent(p) => u.RCVNXT <= p.LBW BY Zenon, <1>1 DEF Cross
    <2>3. Late(t) => u.RCVNXT = p.LBW /\ FinSent(p) BY Zenon, <1>1 DEF Cross, Own
    <2>4. u.ResetWaitChan => u.RCVNXT = p.LBW + 1 /\ FinSent(p)
      <3>1. t.ResetWaitChan => t.RCVNXT = p.LBW + 1 /\ FinSent(p) BY Zenon, <1>1 DEF Cross
      <3>2. ~(t.RCVNXT = p.LBW + 1 /\ t.RCVNXT <= p.LBW) BY <1>1
      <3> QED BY Zenon, <3>1, <3>2
    <2>5. CloseCalled(u) => \/ MayCloseFirst(u.app)
                            \/ FinSent(p) /\ MayCloseFirst(p.app) /\ u.RCVNXT >= p.LBW
      <3>1. CloseCalled(t) => \/ MayCloseFirst(t.app)
                              \/ FinSent(p) /\ MayCloseFirst(p.app) /\ t.RCVNXT >= p.LBW
        BY Zenon, <1>1 DEF Cross
      <3>2. u.app = t.app BY Zenon DEF Frame
      <3> QED BY SMTT(30), <1>1, <1>2, <1>3, <3>1, <3>2
    <2> QED BY ZenonT(60), <1>1, <1>2, <2>1, <2>2, <2>3, <2>4, <2>5 DEF Cross, Frame
  <1> QED BY Zenon, <1>4, <1>5, <1>6 DEF GoodEnd, Frame

LEMMA ActiveIs ==
  ASSUME TDInv, NEW i \in Ends,
         tcb[i].State \in {"FIN_WAIT_1", "FIN_WAIT_2", "CLOSING"}
  PROVE  /\ FinSent(tcb[i]) /\ ~Late(tcb[i]) /\ tcb[i].NXT = tcb[i].LBW + 1
         /\ tcb[i].waiting = 0 /\ tcb[i].expired = 0
         /\ tcb[i].State # "CLOSING" => tcb[i].RCVNXT <= tcb[Peer(i)].LBW
  <1>1. /\ Own(tcb[i]) /\ Cross(tcb[i], tcb[Peer(i)]) /\ tcb[i].waiting \in Nat /\ tcb[i].expired \in Nat
    BY Zenon, EndIs
  <1>2. FinSent(tcb[i]) BY Zenon, <1>1 DEF Own
  <1>3. tcb[i].waiting + tcb[i].expired = 0 BY Zenon, <1>1 DEF Own
  <1>4. tcb[i].waiting = 0 /\ tcb[i].expired = 0 BY <1>1, <1>3
  <1> QED BY Zenon, <1>1, <1>2, <1>4 DEF Own, Cross, Open

LEMMA FinWait1Inv ==
  ASSUME TDInv, NEW m \in net, NEW rest, rest \subseteq net, tcb[m.to].State = "FIN_WAIT_1",
         HandleFinWait1(m.to, m, rest), faults' \in 0 .. Faults
  PROVE  TDInv'
  <1>1. PICK i \in Ends : i = m.to BY Zenon, ArrivedIs
  <1>2. PICK t : t = tcb[i] BY Zenon
  <1>3. PICK p : p = tcb[Peer(i)] BY Zenon
  <1>4. /\ t \in TCB /\ Own(t) /\ Cross(t, p) /\ t.LBW \in Nat /\ t.NXT \in Nat /\ t.RCVNXT \in Nat
        /\ p.LBW \in Nat /\ t.waiting \in Nat /\ t.expired \in Nat /\ t.State = "FIN_WAIT_1"
    BY Zenon, <1>1, <1>2, <1>3, EndIs, PeerIs
  <1>5. m \in PacketSet /\ Sent(m, p, t)
    BY Zenon, <1>1, <1>2, <1>3, ArrivedIs
  <1>6. /\ FinSent(t) /\ ~Late(t) /\ t.NXT = t.LBW + 1 /\ t.waiting = 0 /\ t.expired = 0
        /\ t.RCVNXT <= p.LBW
    BY Zenon, <1>1, <1>2, <1>3, <1>4, ActiveIs
  <1>8. PICK next \in {"CLOSING", "TIME_WAIT"} :
            next = IF m.ack = t.NXT - 1 THEN "CLOSING" ELSE "TIME_WAIT"
    BY Zenon
  <1>9. \/ /\ m.ack = t.NXT
           /\ Update(i, [t EXCEPT !.State = "FIN_WAIT_2"])
           /\ ThenReceive(m, rest)
        \/ /\ m.ack # t.NXT /\ m.fin
           /\ Update(i, [t EXCEPT !.State = next, !.RCVNXT = t.RCVNXT + 1,
                           !.waiting = IF next = "TIME_WAIT" THEN t.waiting + 1 ELSE t.waiting])
           /\ net' = rest \cup {Packet(i, t.NXT, t.RCVNXT + 1, 0, FALSE)}
        \/ ThenReceive(m, rest) /\ UNCHANGED tcb
    BY Zenon, <1>1, <1>2, <1>8 DEF HandleFinWait1
  <1>10. CASE /\ m.ack = t.NXT
              /\ Update(i, [t EXCEPT !.State = "FIN_WAIT_2"])
              /\ ThenReceive(m, rest)
    <2>1. PICK u : u = [t EXCEPT !.State = "FIN_WAIT_2"] BY Zenon
    <2>2. u \in TCB BY Zenon, <1>4, <2>1, StateType DEF States
    <2>3. Frame(t, u) BY Zenon, <1>4, <2>1 DEF TCB, Frame
    <2>4. /\ u.State = "FIN_WAIT_2" /\ u.RCVNXT = t.RCVNXT /\ u.waiting = t.waiting
          /\ u.expired = t.expired /\ u.ResetWaitChan = t.ResetWaitChan
      BY Zenon, <1>4, <2>1 DEF TCB
    <2>6. GoodEnd(i, u)
      <3>1. u.State \in Open /\ t.State \in Open /\ u.State \notin Ending BY Zenon, <1>4, <2>4 DEF Open, Ending
      <3> QED BY SMTT(30), <1>2, <1>3, <1>4, <1>6, <2>2, <2>3, <2>4, <3>1, MoveGood
    <2>7. Mono(t, u) BY Zenon, <1>2, <2>6 DEF GoodEnd
    <2>8. FinSent(u) /\ ~Late(u) BY Zenon, <1>6, <2>3 DEF Frame, FinSent, Late
    <2>9. PICK x : x = [m EXCEPT !.at = "RECEIVE"] BY Zenon
    <2>10. x \in PacketSet /\ Back(x, i, u, p)
      BY ZenonT(60), <1>1, <1>2, <1>3, <2>2, <2>7, <2>8, <2>9, ReceiveBack
    <2> QED BY ZenonT(60), <1>3, <1>10, <2>1, <2>6, <2>9, <2>10, ReplyInv DEF ThenReceive
  <1>11. CASE /\ m.ack # t.NXT /\ m.fin
              /\ Update(i, [t EXCEPT !.State = next, !.RCVNXT = t.RCVNXT + 1,
                              !.waiting = IF next = "TIME_WAIT" THEN t.waiting + 1 ELSE t.waiting])
              /\ net' = rest \cup {Packet(i, t.NXT, t.RCVNXT + 1, 0, FALSE)}
    <2>1. PICK n \in Nat : n = t.RCVNXT + 1 BY <1>4
    <2>2. PICK w \in Nat : w = IF next = "TIME_WAIT" THEN t.waiting + 1 ELSE t.waiting BY <1>4
    <2>3. PICK u : u = [t EXCEPT !.State = next, !.RCVNXT = n, !.waiting = w] BY Zenon
    <2>4. u \in TCB
      <3>1. PICK y : y = [t EXCEPT !.State = next] BY Zenon
      <3>2. y \in TCB BY Zenon, <1>4, <3>1, StateType DEF States
      <3>3. PICK z : z = [y EXCEPT !.RCVNXT = n] BY Zenon
      <3>4. z \in TCB BY Zenon, <3>2, <3>3, RCVNXTType
      <3>5. u = [z EXCEPT !.waiting = w] BY ZenonT(60), <1>4, <2>3, <3>1, <3>3 DEF TCB
      <3> QED BY Zenon, <3>4, <3>5, WaitingType
    <2>5. Frame(t, u) BY ZenonT(60), <1>4, <2>3 DEF TCB, Frame
    <2>6. /\ u.State = next /\ u.RCVNXT = n /\ u.waiting = w /\ u.expired = t.expired
          /\ u.ResetWaitChan = t.ResetWaitChan
      BY ZenonT(60), <1>4, <2>3 DEF TCB
    <2>7. FinSent(p) BY Zenon, <1>5, <1>11 DEF Sent
    <2>8. n >= p.LBW
      <3>1. p.LBW \in {FirstByte, FirstByte + 1} BY Zenon, <1>3, EndIs, PeerIs DEF Own
      <3>2. t.RCVNXT >= FirstByte BY Zenon, <1>4 DEF Cross
      <3> QED BY SMTT(30), <1>4, <2>1, <3>1, <3>2 DEF FirstByte, ISS
    <2>9. u.waiting + u.expired = IF u.State = "TIME_WAIT" THEN 1 ELSE 0 BY SMTT(30), <1>6, <2>2, <2>6
    <2>10. GoodEnd(i, u)
      <3>1. /\ next \notin Open /\ next \notin {"ESTABLISHED", "CLOSE_WAIT", "LAST_ACK"}
            /\ t.State \in Open
        BY Zenon, <1>4 DEF Open
      <3> QED BY ZenonT(60), <1>2, <1>3, <1>6, <2>1, <2>4, <2>5, <2>6, <2>7, <2>8, <2>9, <3>1, MoveGood
    <2>11. PICK x : x = Packet(i, t.NXT, u.RCVNXT, 0, FALSE) BY Zenon
    <2>12. x \in PacketSet /\ Out(x, i, u, p)
      <3>1. Cross(u, p) BY Zenon, <1>3, <2>10 DEF GoodEnd
      <3>2. t.NXT >= FirstByte /\ t.NXT <= u.LBW + 1 BY Zenon, <1>4, <2>5, NxtIs DEF Frame
      <3> QED BY ZenonT(60), <1>3, <1>4, <2>4, <2>11, <3>1, <3>2, AckOut
    <2>13. net' = rest \cup {x} BY Zenon, <1>11, <2>1, <2>6, <2>11
    <2>14. Update(i, u) BY Zenon, <1>11, <2>1, <2>2, <2>3
    <2> QED BY ZenonT(60), <1>3, <2>10, <2>12, <2>13, <2>14, ReplyInv
  <1>12. CASE ThenReceive(m, rest) /\ UNCHANGED tcb
    <2>1. Update(i, t) /\ GoodEnd(i, t) BY Zenon, <1>2, <1>12, StillGood
    <2>2. Mono(t, t) BY Zenon, <1>2, <2>1 DEF GoodEnd
    <2>3. PICK x : x = [m EXCEPT !.at = "RECEIVE"] BY Zenon
    <2>4. x \in PacketSet /\ Back(x, i, t, p)
      BY ZenonT(60), <1>1, <1>2, <1>3, <1>4, <1>6, <2>2, <2>3, ReceiveBack
    <2> QED BY ZenonT(60), <1>3, <1>12, <2>1, <2>3, <2>4, ReplyInv DEF ThenReceive
  <1> QED BY Zenon, <1>9, <1>10, <1>11, <1>12

LEMMA FinWait2Inv ==
  ASSUME TDInv, NEW m \in net, NEW rest, rest \subseteq net, tcb[m.to].State = "FIN_WAIT_2",
         HandleFinWait2(m.to, m, rest), faults' \in 0 .. Faults
  PROVE  TDInv'
  <1>1. PICK i \in Ends : i = m.to BY Zenon, ArrivedIs
  <1>2. PICK t : t = tcb[i] BY Zenon
  <1>3. PICK p : p = tcb[Peer(i)] BY Zenon
  <1>4. /\ t \in TCB /\ Own(t) /\ Cross(t, p) /\ t.LBW \in Nat /\ t.NXT \in Nat /\ t.RCVNXT \in Nat
        /\ p.LBW \in Nat /\ t.waiting \in Nat /\ t.expired \in Nat /\ t.State = "FIN_WAIT_2"
    BY Zenon, <1>1, <1>2, <1>3, EndIs, PeerIs
  <1>5. m \in PacketSet /\ Sent(m, p, t) BY Zenon, <1>1, <1>2, <1>3, ArrivedIs
  <1>6. /\ FinSent(t) /\ ~Late(t) /\ t.waiting = 0 /\ t.expired = 0
        /\ t.RCVNXT <= p.LBW
    BY Zenon, <1>1, <1>2, <1>3, <1>4, ActiveIs
  <1>7. CASE ~m.fin
    <2>1. Receive(m.to, m, rest) BY Zenon, <1>7 DEF HandleFinWait2
    <2> QED BY Zenon, <2>1, ReceiveInv
  <1>8. CASE m.fin /\ m.seq # t.RCVNXT
    <2>1. net' = rest /\ UNCHANGED tcb BY Zenon, <1>1, <1>2, <1>8 DEF HandleFinWait2
    <2> QED BY Zenon, <1>2, <2>1, StillGood, DropInv
  <1>9. CASE m.fin /\ m.seq = t.RCVNXT
    <2>1. PICK n \in Nat : n = t.RCVNXT + 1 BY <1>4
    <2>2. PICK w \in Nat : w = t.waiting + 1 BY <1>4
    <2>3. PICK u : u = [t EXCEPT !.State = "TIME_WAIT", !.RCVNXT = n, !.ResetWaitChan = TRUE,
                                 !.waiting = w]
      BY Zenon
    <2>4. u \in TCB
      <3>1. PICK y : y = [t EXCEPT !.State = "TIME_WAIT"] BY Zenon
      <3>2. y \in TCB BY Zenon, <1>4, <3>1, StateType DEF States
      <3>3. PICK z : z = [y EXCEPT !.RCVNXT = n] BY Zenon
      <3>4. z \in TCB BY Zenon, <3>2, <3>3, RCVNXTType
      <3>5. PICK v : v = [z EXCEPT !.ResetWaitChan = TRUE] BY Zenon
      <3>6. v \in TCB BY Zenon, <3>4, <3>5, ResetType
      <3>7. u = [v EXCEPT !.waiting = w] BY Zenon, <1>4, <2>3, <3>1, <3>3, <3>5 DEF TCB
      <3> QED BY Zenon, <3>6, <3>7, WaitingType
    <2>5. Frame(t, u) BY ZenonT(60), <1>4, <2>3 DEF TCB, Frame
    <2>6. u.State = "TIME_WAIT" /\ u.RCVNXT = n /\ u.waiting = w /\ u.expired = t.expired
      BY ZenonT(60), <1>4, <2>3 DEF TCB
    <2>7. FinSent(p) /\ t.RCVNXT = p.LBW BY Zenon, <1>5, <1>9 DEF Sent
    <2>8. n >= p.LBW /\ u.State \notin Open /\ t.State \in Open BY <1>4, <2>1, <2>6, <2>7 DEF Open
    <2>9. u.waiting + u.expired = 1 BY SMTT(30), <1>6, <2>2, <2>6
    <2>10. GoodEnd(i, u)
      BY ZenonT(60), <1>2, <1>3, <1>6, <2>1, <2>4, <2>5, <2>6, <2>7, <2>8, <2>9, MoveGood
    <2>11. PICK x : x = Packet(i, t.NXT, u.RCVNXT, 0, FALSE) BY Zenon
    <2>12. x \in PacketSet /\ Out(x, i, u, p)
      <3>1. Cross(u, p) BY Zenon, <1>3, <2>10 DEF GoodEnd
      <3>2. t.NXT >= FirstByte /\ t.NXT <= u.LBW + 1 BY Zenon, <1>4, <2>5, NxtIs DEF Frame
      <3> QED BY Zenon, <1>3, <1>4, <2>4, <2>11, <3>1, <3>2, AckOut
    <2>13. net' = rest \cup {x} /\ Update(i, u)
      BY ZenonT(60), <1>1, <1>2, <1>9, <2>1, <2>2, <2>3, <2>6, <2>11 DEF HandleFinWait2
    <2> QED BY Zenon, <1>3, <2>10, <2>12, <2>13, ReplyInv
  <1> QED BY Zenon, <1>7, <1>8, <1>9

LEMMA ClosingInv ==
  ASSUME TDInv, NEW m \in net, NEW rest, rest \subseteq net, tcb[m.to].State = "CLOSING",
         HandleClosing(m.to, m, rest), faults' \in 0 .. Faults
  PROVE  TDInv'
  <1>1. PICK i \in Ends : i = m.to BY Zenon, ArrivedIs
  <1>2. PICK t : t = tcb[i] BY Zenon
  <1>3. PICK p : p = tcb[Peer(i)] BY Zenon
  <1>4. t \in TCB /\ t.waiting \in Nat /\ t.State = "CLOSING" BY Zenon, <1>1, <1>2, EndIs
  <1>5. t.RCVNXT >= p.LBW /\ FinSent(p) BY Zenon, <1>2, <1>3, <1>4, EndIs DEF Cross, Ending
  <1>6. FinSent(t) /\ ~Late(t) /\ t.waiting = 0 /\ t.expired = 0 BY Zenon, <1>1, <1>2, <1>4, ActiveIs
  <1>7. CASE m.ack = t.NXT
    <2>1. PICK w \in Nat : w = t.waiting + 1 BY <1>4
    <2>2. PICK u : u = [t EXCEPT !.State = "TIME_WAIT", !.waiting = w] BY Zenon
    <2>3. u \in TCB
      <3>1. PICK y : y = [t EXCEPT !.State = "TIME_WAIT"] BY Zenon
      <3>2. y \in TCB BY Zenon, <1>4, <3>1, StateType DEF States
      <3>3. u = [y EXCEPT !.waiting = w] BY Zenon, <1>4, <2>2, <3>1 DEF TCB
      <3> QED BY Zenon, <3>2, <3>3, WaitingType
    <2>4. Frame(t, u) BY ZenonT(60), <1>4, <2>2 DEF TCB, Frame
    <2>5. /\ u.State = "TIME_WAIT" /\ u.RCVNXT = t.RCVNXT /\ u.waiting = w /\ u.expired = t.expired
          /\ u.ResetWaitChan = t.ResetWaitChan
      BY Zenon, <1>4, <2>2 DEF TCB
    <2>6. u.State \notin Open /\ t.State \in Ending BY Zenon, <1>4, <2>5 DEF Open, Ending
    <2>7. u.waiting + u.expired = 1 BY <1>6, <2>1, <2>5
    <2>8. GoodEnd(i, u) BY ZenonT(60), <1>2, <1>3, <1>5, <1>6, <2>3, <2>4, <2>5, <2>6, <2>7, MoveGood
    <2>9. Update(i, u) /\ net' = rest BY Zenon, <1>1, <1>2, <1>7, <2>1, <2>2 DEF HandleClosing
    <2> QED BY Zenon, <2>8, <2>9, DropInv
  <1>8. CASE m.ack # t.NXT
    <2>1. net' = rest /\ UNCHANGED tcb BY Zenon, <1>1, <1>2, <1>8 DEF HandleClosing
    <2> QED BY Zenon, <1>2, <2>1, StillGood, DropInv
  <1> QED BY Zenon, <1>7, <1>8

LEMMA AckNowInv ==
  ASSUME TDInv, NEW i \in Ends, NEW u, NEW rest, rest \subseteq net, AckNow(i, rest),
         Update(i, u), GoodEnd(i, u), u.NXT = tcb[i].NXT, u.RCVNXT = tcb[i].RCVNXT, faults' \in 0 .. Faults
  PROVE  TDInv'
  <1>1. u \in TCB /\ Own(u) /\ Cross(u, tcb[Peer(i)]) BY Zenon DEF GoodEnd
  <1>2. PICK x : x = Packet(i, u.NXT, u.RCVNXT, 0, FALSE) BY Zenon
  <1>3. net' = rest \cup {x} BY Zenon, <1>2 DEF AckNow
  <1>4. x \in PacketSet /\ Out(x, i, u, tcb[Peer(i)]) BY Zenon, <1>1, <1>2, NxtIs, AckOut
  <1> QED BY Zenon, <1>3, <1>4, ReplyInv

LEMMA TimeWaitInv ==
  ASSUME TDInv, NEW m \in net, NEW rest, rest \subseteq net, tcb[m.to].State = "TIME_WAIT",
         HandleTimeWait(m.to, m, rest), faults' \in 0 .. Faults
  PROVE  TDInv'
  <1>1. PICK i \in Ends : i = m.to BY Zenon, ArrivedIs
  <1>2. PICK t : t = tcb[i] BY Zenon
  <1>3. t \in TCB /\ Own(t) /\ t.State = "TIME_WAIT" BY Zenon, <1>1, <1>2, EndIs
  <1>4. CASE m.fin
    <2>1. PICK u : u = [t EXCEPT !.lock = "reset"] BY Zenon
    <2>2. u \in TCB BY Zenon, <1>3, <2>1, LockType
    <2>3. Alike(t, u) BY ZenonT(60), <1>3, <2>1 DEF TCB, Alike, FinSent, CloseCalled
    <2>4. GoodEnd(i, u) BY Zenon, <1>2, <2>2, <2>3, AlikeGood
    <2>5. Update(i, u) /\ AckNow(i, rest) BY Zenon, <1>1, <1>2, <1>4, <2>1 DEF HandleTimeWait
    <2> QED BY Zenon, <1>2, <2>3, <2>4, <2>5, AckNowInv DEF Alike
  <1>5. CASE ~m.fin
    <2>1. net' = rest /\ UNCHANGED tcb BY Zenon, <1>5 DEF HandleTimeWait
    <2> QED BY Zenon, <1>2, <2>1, StillGood, DropInv
  <1> QED BY Zenon, <1>4, <1>5

LEMMA CloseWaitInv ==
  ASSUME TDInv, NEW m \in net, NEW rest, rest \subseteq net, HandleCloseWait(m.to, m, rest),
         faults' \in 0 .. Faults
  PROVE  TDInv'
  <1>1. PICK i \in Ends : i = m.to BY Zenon, ArrivedIs
  <1>2. PICK t : t = tcb[i] BY Zenon
  <1>3. Update(i, t) /\ GoodEnd(i, t) BY Zenon, <1>2, StillGood DEF HandleCloseWait
  <1>4. CASE m.fin
    <2>1. AckNow(i, rest) BY Zenon, <1>1, <1>4 DEF HandleCloseWait
    <2> QED BY Zenon, <1>2, <1>3, <2>1, AckNowInv
  <1>5. CASE ~m.fin
    <2>1. net' = rest BY Zenon, <1>5 DEF HandleCloseWait
    <2> QED BY Zenon, <1>3, <2>1, DropInv
  <1> QED BY Zenon, <1>4, <1>5

\* HandleLastAck, also when it comes late.
LEMMA LastAckInv ==
  ASSUME TDInv, NEW m \in net, NEW rest, rest \subseteq net,
         tcb[m.to].State = "LAST_ACK" \/ (Late(tcb[m.to]) /\ FinSent(tcb[m.to])),
         HandleLastAck(m.to, m, rest), faults' \in 0 .. Faults
  PROVE  TDInv'
  <1>1. PICK i \in Ends : i = m.to BY Zenon, ArrivedIs
  <1>2. PICK t : t = tcb[i] BY Zenon
  <1>3. PICK p : p = tcb[Peer(i)] BY Zenon
  <1>4. /\ t \in TCB /\ Own(t) /\ Cross(t, p) /\ t.waiting \in Nat /\ t.expired \in Nat
        /\ t.LBW \in Nat /\ t.RCVNXT \in Nat
    BY Zenon, <1>1, <1>2, <1>3, EndIs
  <1>6. t.State = "LAST_ACK" \/ (Late(t) /\ FinSent(t)) BY Zenon, <1>1, <1>2
  <1>7. /\ FinSent(t) /\ t.NXT = t.LBW + 1 /\ t.State # "TIME_WAIT" /\ t.State # "ESTABLISHED"
    BY Zenon, <1>4, <1>6 DEF Own
  <1>8. t.RCVNXT = p.LBW /\ FinSent(p) BY Zenon, <1>4, <1>6, <1>7 DEF Cross
  <1>9. t.waiting + t.expired = 0 BY Zenon, <1>4, <1>7 DEF Own
  <1>10. CASE m.ack = t.NXT
    <2>n. PICK n \in 0 .. Len(t.Queue) :
             Update(i, [Trim(t, n) EXCEPT !.State = "CLOSED", !.lock = "notify"])
      BY Zenon, <1>1, <1>2, <1>10 DEF HandleLastAck, Acked
    <2>1. PICK v : v = Trim(t, n) BY Zenon
    <2>2. v \in TCB /\ Trimmed(t, v) BY Zenon, <1>4, <2>1, TrimIs
    <2>3. PICK u : u = [v EXCEPT !.State = "CLOSED", !.lock = "notify"] BY Zenon
    <2>4. u \in TCB
      <3>1. PICK y : y = [v EXCEPT !.State = "CLOSED"] BY Zenon
      <3>2. y \in TCB BY Zenon, <2>2, <3>1, StateType DEF States
      <3>3. u = [y EXCEPT !.lock = "notify"] BY Zenon, <2>2, <2>3, <3>1 DEF TCB
      <3> QED BY Zenon, <3>2, <3>3, LockType
    <2>5. u.Queue = v.Queue BY Zenon, <2>2, <2>3 DEF TCB
    <2>6. Frame(t, u) BY <2>2, <2>3, <2>5 DEF TCB, Frame, Trimmed
    <2>7. /\ u.State = "CLOSED" /\ u.RCVNXT = t.RCVNXT /\ u.waiting = t.waiting
          /\ u.expired = t.expired /\ u.ResetWaitChan = t.ResetWaitChan
      BY Zenon, <2>2, <2>3 DEF TCB, Trimmed
    <2>8. u.State \notin Open /\ u.State \notin Ending /\ u.RCVNXT >= p.LBW
      BY <1>4, <1>8, <2>7 DEF Open, Ending
    <2>10. GoodEnd(i, u) BY ZenonT(60), <1>2, <1>3, <1>7, <1>8, <1>9, <2>4, <2>6, <2>7, <2>8, MoveGood
    <2>11. Update(i, u) /\ net' = rest BY ZenonT(60), <1>1, <1>2, <1>10, <2>n, <2>1, <2>3 DEF HandleLastAck
    <2> QED BY Zenon, <2>10, <2>11, DropInv
  <1>11. CASE m.ack # t.NXT
    <2>1. net' = rest /\ UNCHANGED tcb BY Zenon, <1>1, <1>2, <1>11 DEF HandleLastAck
    <2> QED BY Zenon, <1>2, <2>1, StillGood, DropInv
  <1> QED BY Zenon, <1>10, <1>11

\* The FIN of the peer in ESTABLISHED, also when the handler comes late.
LEMMA ReceiveFinInv ==
  ASSUME TDInv, NEW m \in net, NEW rest, rest \subseteq net, m.fin,
         tcb[m.to].State = "ESTABLISHED" \/ Late(tcb[m.to]),
         ReceiveFin(m.to, m, rest), faults' \in 0 .. Faults
  PROVE  TDInv'
  <1>1. PICK i \in Ends : i = m.to BY Zenon, ArrivedIs
  <1>2. PICK t : t = tcb[i] BY Zenon
  <1>3. PICK p : p = tcb[Peer(i)] BY Zenon
  <1>4. /\ t \in TCB /\ Own(t) /\ Cross(t, p) /\ t.waiting \in Nat /\ t.expired \in Nat
        /\ t.LBW \in Nat /\ t.RCVNXT \in Nat /\ t.NXT \in Nat /\ p.LBW \in Nat
        /\ t.PendingReceivedFin \in Nat /\ t.NXT >= FirstByte /\ t.NXT <= t.LBW + 1
    BY ZenonT(60), <1>1, <1>2, <1>3, EndIs, PeerIs, NxtIs
  <1>5. m \in PacketSet /\ FinSent(p) /\ m.seq = p.LBW BY Zenon, <1>1, <1>2, <1>3, ArrivedIs DEF Sent
  <1>6. t.State = "ESTABLISHED" \/ Late(t) BY Zenon, <1>1, <1>2
  <1>7. t.State # "TIME_WAIT" BY Zenon, <1>4, <1>6 DEF Own
  <1>s. PICK s, e, f, a :
          /\ s = IF m.seq = t.RCVNXT THEN "CLOSE_WAIT" ELSE t.State
          /\ e = IF m.seq = t.RCVNXT THEN WakeRead(t.read) ELSE t.read
          /\ f = IF m.seq > t.RCVNXT THEN m.seq ELSE t.PendingReceivedFin
          /\ a = IF m.seq = t.RCVNXT THEN t.RCVNXT + 1 ELSE IF m.seq > t.RCVNXT THEN t.RCVNXT ELSE 0
          /\ Update(i, [t EXCEPT !.State = s, !.read = e, !.PendingReceivedFin = f])
          /\ net' = rest \cup {Packet(i, t.NXT, a, 0, FALSE)}
    BY ZenonT(60), <1>1, <1>2 DEF ReceiveFin
  <1>8. CASE p.LBW = t.RCVNXT
    <2>1. PICK r \in {"run", "asleep", "woken", "eof", "error"} :
            r = WakeRead(t.read) /\ (r = "eof" => t.read = "eof")
      BY Zenon, <1>4 DEF TCB, WakeRead
    <2>2. PICK u : u = [t EXCEPT !.State = "CLOSE_WAIT", !.read = r] BY Zenon
    <2>3. u \in TCB
      <3>1. PICK y : y = [t EXCEPT !.State = "CLOSE_WAIT"] BY Zenon
      <3>2. y \in TCB BY Zenon, <1>4, <3>1, StateType DEF States
      <3>3. u = [y EXCEPT !.read = r] BY Zenon, <1>4, <2>2, <3>1 DEF TCB
      <3> QED BY Zenon, <3>2, <3>3, ReadType
    <2>4. /\ u.app = t.app /\ u.LBW = t.LBW /\ u.RCVNXT = t.RCVNXT /\ u.State = "CLOSE_WAIT"
          /\ u.TimeoutCancelled = t.TimeoutCancelled /\ u.NXT = t.NXT /\ u.Cancelled = t.Cancelled
          /\ u.waiting = t.waiting /\ u.expired = t.expired /\ u.lock = t.lock /\ u.LBR = t.LBR
          /\ u.write = t.write /\ u.Queue = t.Queue /\ u.close = t.close /\ u.inTable = t.inTable
          /\ u.PendingReceivedFin = t.PendingReceivedFin /\ u.read = r
          /\ u.ResetWaitChan = t.ResetWaitChan
      BY ZenonT(60), <1>4, <2>2 DEF TCB
    <2>5. /\ FinSent(u) <=> FinSent(t)
          /\ CloseCalled(u) <=> CloseCalled(t)
          /\ Late(u) <=> Late(t)
      BY Zenon, <2>4 DEF FinSent, CloseCalled, Late
    <2>6. FinSent(t) => Late(t) BY Zenon, <1>4, <1>6 DEF Own
    <2>7. Mono(t, u) BY SMTT(30), <1>4, <2>4, <2>5 DEF Mono, Open, Ending
    <2>8. Own(u) BY ZenonT(60), <1>4, <1>7, <2>4, <2>5, <2>6 DEF Own
    <2>9. Cross(u, p)
      <3>1. /\ u.RCVNXT >= FirstByte /\ u.RCVNXT = p.LBW /\ FinSent(p)
        BY Zenon, <1>4, <1>5, <1>8, <2>4 DEF Cross
      <3>2. u.RCVNXT <= p.LBW + 1 /\ u.RCVNXT <= p.LBW BY <1>4, <3>1
      <3>3. CloseCalled(u) => \/ MayCloseFirst(u.app)
                              \/ FinSent(p) /\ MayCloseFirst(p.app) /\ u.RCVNXT >= p.LBW
        BY Zenon, <1>4, <2>4, <2>5 DEF Cross
      <3>4. u.PendingReceivedFin # 0
              => /\ u.PendingReceivedFin = p.LBW /\ p.LBW > FirstByte
                 /\ FinSent(p) /\ MayCloseFirst(p.app)
        BY Zenon, <1>4, <2>4 DEF Cross
      <3>5. u.read = "eof" /\ ~u.TimeoutCancelled => FinSent(p) /\ u.LBR = p.LBW
        BY Zenon, <1>4, <2>1, <2>4 DEF Cross
      <3>6. u.State \notin Ending /\ u.State # "CLOSED" BY Zenon, <2>4 DEF Ending
      <3>7. u.ResetWaitChan => u.RCVNXT = p.LBW + 1 BY Zenon, <1>4, <2>4 DEF Cross
      <3> QED BY Zenon, <3>1, <3>2, <3>3, <3>4, <3>5, <3>6, <3>7 DEF Cross
    <2>11. GoodEnd(i, u) BY ZenonT(60), <1>2, <1>3, <2>3, <2>4, <2>7, <2>8, <2>9 DEF GoodEnd
    <2>12. PICK x : x = Packet(i, t.NXT, u.RCVNXT + 1, 0, FALSE) BY Zenon
    <2>13. x \in PacketSet /\ Out(x, i, u, p)
      BY ZenonT(60), <1>3, <1>4, <2>3, <2>4, <2>9, <2>12, FinAckOut
    <2>14. net' = rest \cup {x} /\ Update(i, u)
      <3>1. s = "CLOSE_WAIT" /\ e = r /\ f = t.PendingReceivedFin /\ a = t.RCVNXT + 1
        BY SMTT(30), <1>4, <1>5, <1>8, <1>s, <2>1
      <3>2. u = [t EXCEPT !.State = s, !.read = e, !.PendingReceivedFin = f]
        BY Zenon, <1>4, <2>2, <3>1 DEF TCB
      <3> QED BY ZenonT(60), <1>s, <2>4, <2>12, <3>1, <3>2
    <2> QED BY Zenon, <1>3, <2>11, <2>13, <2>14, ReplyInv
  <1>9. CASE p.LBW > t.RCVNXT
    <2>1. PICK u : u = [t EXCEPT !.PendingReceivedFin = p.LBW] BY Zenon
    <2>2. u \in TCB BY Zenon, <1>4, <2>1, FinType
    <2>3. /\ u.app = t.app /\ u.LBW = t.LBW /\ u.RCVNXT = t.RCVNXT /\ u.State = t.State
          /\ u.TimeoutCancelled = t.TimeoutCancelled /\ u.NXT = t.NXT /\ u.Cancelled = t.Cancelled
          /\ u.waiting = t.waiting /\ u.expired = t.expired /\ u.lock = t.lock /\ u.LBR = t.LBR
          /\ u.write = t.write /\ u.Queue = t.Queue /\ u.close = t.close /\ u.inTable = t.inTable
          /\ u.PendingReceivedFin = p.LBW /\ u.read = t.read /\ u.ResetWaitChan = t.ResetWaitChan
      BY ZenonT(60), <1>4, <2>1 DEF TCB
    <2>4. /\ FinSent(u) <=> FinSent(t)
          /\ CloseCalled(u) <=> CloseCalled(t)
          /\ Late(u) <=> Late(t)
      BY Zenon, <2>3 DEF FinSent, CloseCalled, Late
    <2>5. t.State = "ESTABLISHED" BY SMTT(30), <1>4, <1>6, <1>9 DEF Cross
    <2>6. ~FinSent(t) /\ p.LBW > FirstByte BY SMTT(30), <1>4, <1>9, <2>5 DEF Own, Cross, FirstByte, ISS
    <2>7. MayCloseFirst(p.app)
      <3>1. CloseCalled(p) BY Zenon, <1>5 DEF FinSent, CloseCalled
      <3>2. Cross(p, t) BY Zenon, <1>2, <1>3, PeerIs, EndIs
      <3> QED BY Zenon, <2>6, <3>1, <3>2 DEF Cross
    <2>9. Mono(t, u) BY SMTT(30), <1>4, <2>3, <2>4 DEF Mono
    <2>10. Own(u) BY <1>4, <2>3, <2>4, <2>5 DEF Own
    <2>11. Cross(u, p) BY Zenon, <1>4, <1>5, <2>3, <2>4, <2>6, <2>7 DEF Cross
    <2>13. GoodEnd(i, u) BY Zenon, <1>2, <1>3, <2>2, <2>3, <2>9, <2>10, <2>11 DEF GoodEnd
    <2>14. PICK x : x = Packet(i, t.NXT, u.RCVNXT, 0, FALSE) BY Zenon
    <2>15. x \in PacketSet /\ Out(x, i, u, p) BY ZenonT(60), <1>3, <1>4, <2>2, <2>3, <2>11, <2>14, AckOut
    <2>16. net' = rest \cup {x} /\ Update(i, u)
      <3>1. s = t.State /\ e = t.read /\ f = p.LBW /\ a = t.RCVNXT BY <1>4, <1>5, <1>9, <1>s
      <3>2. u = [t EXCEPT !.State = s, !.read = e, !.PendingReceivedFin = f]
        BY Zenon, <1>4, <2>1, <3>1 DEF TCB
      <3> QED BY ZenonT(60), <1>s, <2>3, <2>14, <3>1, <3>2
    <2> QED BY ZenonT(60), <1>3, <2>13, <2>15, <2>16, ReplyInv
  <1>10. CASE p.LBW < t.RCVNXT
    <2>1. t.State \in Open \/ (Late(t) /\ t.State # "ESTABLISHED") BY Zenon, <1>6 DEF Open
    <2> QED BY <1>4, <1>10, <2>1 DEF Cross
  <1> QED BY <1>4, <1>8, <1>9, <1>10
-----------------------------------------------------------------------------
(* ReceivePacket, and every step.                                          *)

LEMMA HandleInv ==
  ASSUME TDInv, Orderly, NEW m \in net, NEW rest, rest \subseteq net, NEW s,
         \/ s = tcb[m.to].State
         \/ s = "RECEIVE"
         \/ /\ Late(tcb[m.to]) /\ s \in {"ESTABLISHED", "CLOSE_WAIT", "LAST_ACK", "CLOSED"}
            /\ s = "LAST_ACK" => FinSent(tcb[m.to]),
         Handle(s, m, rest), faults' \in 0 .. Faults
  PROVE  TDInv'
  <1>1. m.to \in Ends BY Zenon, ArrivedIs
  <1>2. CASE s = "ESTABLISHED" /\ HandleEstablished(m.to, m, rest)
    <2>1. tcb[m.to].State = "ESTABLISHED" \/ Late(tcb[m.to]) BY Zenon, <1>2
    <2>2. CASE m.fin
      <3>1. ReceiveFin(m.to, m, rest) BY Zenon, <1>2, <2>2 DEF HandleEstablished
      <3> QED BY Zenon, <2>1, <2>2, <3>1, ReceiveFinInv
    <2>3. CASE ~m.fin
      <3>1. Receive(m.to, m, rest) BY Zenon, <1>2, <2>3 DEF HandleEstablished
      <3> QED BY Zenon, <3>1, ReceiveInv
    <2> QED BY Zenon, <2>2, <2>3
  <1>3. CASE s = "FIN_WAIT_1" /\ HandleFinWait1(m.to, m, rest) BY Zenon, <1>3, FinWait1Inv
  <1>4. CASE s = "FIN_WAIT_2" /\ HandleFinWait2(m.to, m, rest) BY Zenon, <1>4, FinWait2Inv
  <1>5. CASE s = "CLOSING" /\ HandleClosing(m.to, m, rest) BY Zenon, <1>5, ClosingInv
  <1>6. CASE s = "TIME_WAIT" /\ HandleTimeWait(m.to, m, rest) BY Zenon, <1>6, TimeWaitInv
  <1>7. CASE s = "CLOSE_WAIT" /\ HandleCloseWait(m.to, m, rest) BY Zenon, <1>7, CloseWaitInv
  <1>8. CASE s = "LAST_ACK" /\ HandleLastAck(m.to, m, rest) BY Zenon, <1>8, LastAckInv
  <1>9. CASE s = "CLOSED" /\ net' = rest /\ UNCHANGED tcb BY Zenon, <1>1, <1>9, StillGood, DropInv
  <1>10. CASE s = "RECEIVE" /\ Receive(m.to, m, rest) BY Zenon, <1>10, ReceiveInv
  <1> QED BY ZenonT(60), <1>2, <1>3, <1>4, <1>5, <1>6, <1>7, <1>8, <1>9, <1>10 DEF Handle

\* A packet arrives, its handler gets the lock, or its handler has read the State.
LEMMA ArrivingInv ==
  ASSUME TDInv, Orderly, NEW m \in net,
         ReceivePacket(m) \/ HandlerLocks(m) \/ Dispatch(m) \/ Lose(m)
  PROVE  TDInv'
  <1>1. m.to \in Ends /\ At(m, tcb[m.to]) /\ m \in PacketSet BY Zenon, ArrivedIs
  <1>2. faults \in Nat /\ faults \in 0 .. Faults BY TeardownAssumption DEF TDInv, TypeInv
  <1>3. CASE ReceivePacket(m)
    <2>1. PICK rest \in {net \ {m}, net} :
            /\ faults' = faults + IF rest = net THEN 1 ELSE 0
            /\ faults' <= Faults
            /\ \/ Handle(tcb[m.to].State, m, rest)
               \/ net' = rest /\ UNCHANGED tcb
      BY Zenon, <1>3 DEF ReceivePacket
    <2>2. faults' \in 0 .. Faults BY <1>2, <2>1, TeardownAssumption
    <2>3. rest \subseteq net BY Zenon
    <2>4. CASE Handle(tcb[m.to].State, m, rest) BY Zenon, <2>2, <2>3, <2>4, HandleInv
    <2>5. CASE net' = rest /\ UNCHANGED tcb BY ZenonT(60), <1>1, <2>2, <2>3, <2>5, StillGood, DropInv
    <2> QED BY Zenon, <2>1, <2>4, <2>5
  <1>4. CASE HandlerLocks(m)
    <2>1. PICK rest : rest = net \ {m} BY Zenon
    <2>2. m.at # "wire" /\ Handle(m.at, m, rest) /\ UNCHANGED faults BY Zenon, <1>4, <2>1 DEF HandlerLocks
    <2>3. m.at = "RECEIVE" \/ m.at \in States BY Zenon, <1>1, <2>2 DEF PacketSet
    <2>4. \/ m.at = "RECEIVE"
          \/ /\ Late(tcb[m.to]) /\ m.at \in {"ESTABLISHED", "CLOSE_WAIT", "LAST_ACK", "CLOSED"}
             /\ m.at = "LAST_ACK" => FinSent(tcb[m.to])
      BY Zenon, <1>1, <2>3 DEF At
    <2>5. rest \subseteq net BY Zenon, <2>1
    <2> QED BY ZenonT(60), <1>2, <2>2, <2>4, <2>5, HandleInv
  <1>5. CASE Dispatch(m)
    <2>1. PICK i \in Ends : i = m.to BY Zenon, <1>1
    <2>2. PICK t : t = tcb[i] BY Zenon
    <2>3. PICK x : x = [m EXCEPT !.at = t.State] BY Zenon
    <2>4. PICK rest : rest = net \ {m} BY Zenon
    <2>5. Late(t) /\ net' = rest \cup {x} /\ UNCHANGED <<tcb, faults>>
      BY ZenonT(60), <1>5, <2>1, <2>2, <2>3, <2>4 DEF Dispatch, Unlucky, Late
    <2>6. t \in TCB /\ Own(t) BY Zenon, <2>2, EndIs
    <2>7. t.State \in States BY Zenon, <2>6 DEF TCB
    <2>8. /\ x \in PacketSet /\ x.to = i /\ x.at = t.State /\ x.seq = m.seq /\ x.ack = m.ack
          /\ x.len = m.len /\ x.fin = m.fin
      BY Zenon, <1>1, <2>1, <2>3, <2>7 DEF PacketSet
    <2>9. /\ t.State \in {"ESTABLISHED", "CLOSE_WAIT", "LAST_ACK", "CLOSED"}
          /\ t.State = "LAST_ACK" => FinSent(t)
      BY Zenon, <2>5, <2>6 DEF Own
    <2>10. At(x, t) BY Zenon, <2>5, <2>8, <2>9 DEF At
    <2>11. PICK p : p = tcb[Peer(i)] BY Zenon
    <2>12. Sent(m, p, t) /\ (Nobody(t, p) => SentDone(m, p, t)) BY Zenon, <2>1, <2>2, <2>11, ArrivedIs
    <2>13. Back(x, i, t, p) BY Zenon, <2>8, <2>10, <2>12 DEF Back, Sent, SentDone
    <2>14. Update(i, t) /\ GoodEnd(i, t) BY Zenon, <2>2, <2>5, StillGood
    <2>15. rest \subseteq net BY Zenon, <2>4
    <2> QED BY ZenonT(60), <1>2, <2>5, <2>8, <2>11, <2>13, <2>14, <2>15, ReplyInv
  <1>6. CASE Lose(m)
    <2>1. net' \subseteq net /\ faults' \in 0 .. Faults /\ UNCHANGED tcb
      BY <1>2, <1>6, TeardownAssumption DEF Lose
    <2> QED BY Zenon, <1>1, <2>1, StillGood, DropInv
  <1> QED BY Zenon, <1>3, <1>4, <1>5, <1>6

\* An end when the handshake has completed.
Begin(i, app) ==
    [app |-> app, State |-> "ESTABLISHED",
     UNA |-> IF i = "client" THEN FirstByte ELSE ISS,
     NXT |-> FirstByte, LBW |-> FirstByte,
     RCVNXT |-> FirstByte, LBR |-> FirstByte, PendingReceivedFin |-> 0,
     Queue |-> <<>>, RetransmitCounter |-> 0,
     Cancelled |-> FALSE, TimeoutCancelled |-> FALSE, PendingSendingFin |-> FALSE,
     ReadCancelled |-> FALSE, WriteCancelled |-> FALSE, ResetWaitChan |-> FALSE,
     inTable |-> TRUE, lock |-> "free",
     send |-> "run", close |-> "no", write |-> "no", read |-> "run",
     timer |-> "select", waiting |-> 0, expired |-> 0]

LEMMA BeginIs ==
  ASSUME NEW i \in Ends, NEW app \in App PROVE Begin(i, app) \in TCB
  <1>1. PICK una \in FromISS : una = IF i = "client" THEN FirstByte ELSE ISS
    BY DEF FirstByte, ISS, Seqs, FromISS
  <1>2. FirstByte \in Nat /\ FirstByte \in Seqs BY DEF FirstByte, ISS, Seqs
  <1>3. "ESTABLISHED" \in States /\ <<>> \in Seq(PacketSet) /\ 0 \in 0 .. MAX_RETRANSMISSIONS
    BY TeardownAssumption DEF States
  <1> QED BY <1>1, <1>2, <1>3, ZenonT(60) DEF TCB, Begin

LEMMA InitInv ==
  ASSUME Init PROVE TDInv
  <1>1. PICK scenario \in Scenarios : tcb = [i \in Ends |-> Begin(i, scenario[i])]
    BY Zenon DEF Init, Begin
  <1>2. FirstByte \in Nat /\ FirstByte \in Seqs /\ FirstByte \in FromISS /\ ISS \in FromISS
    BY DEF FirstByte, ISS, Seqs, FromISS
  <1>3. ASSUME NEW i \in Ends PROVE tcb[i] \in TCB
    <2>1. PICK app \in App : app = scenario[i] BY Zenon, TeardownAssumption
    <2> QED BY Zenon, <1>1, <2>1, BeginIs
  <1>4. ASSUME NEW i \in Ends
        PROVE  /\ tcb[i].State = "ESTABLISHED" /\ tcb[i].NXT = FirstByte /\ tcb[i].LBW = FirstByte
               /\ tcb[i].RCVNXT = FirstByte /\ tcb[i].LBR = FirstByte /\ tcb[i].PendingReceivedFin = 0
               /\ tcb[i].Queue = <<>> /\ ~tcb[i].TimeoutCancelled /\ tcb[i].close = "no"
               /\ tcb[i].write = "no" /\ tcb[i].lock = "free" /\ tcb[i].read = "run"
               /\ tcb[i].waiting = 0 /\ tcb[i].expired = 0 /\ tcb[i].app = scenario[i]
               /\ ~tcb[i].ResetWaitChan
    BY Zenon, <1>1 DEF Begin
  <1>5. TypeInv
    <2>1. tcb \in [Ends -> TCB] BY Zenon, <1>3 DEF Init
    <2>2. net \subseteq PacketSet /\ faults \in 0 .. Faults BY TeardownAssumption DEF Init
    <2> QED BY ZenonT(60), <1>4, <2>1, <2>2 DEF TypeInv
  <1>6. ASSUME NEW i \in Ends
        PROVE  Own(tcb[i]) /\ Cross(tcb[i], tcb[Peer(i)]) /\ QueueOf(i)
    <2>1. Peer(i) \in Ends BY Zenon, PeerIs
    <2>2. ~FinSent(tcb[i]) /\ ~CloseCalled(tcb[i]) BY Zenon, <1>4 DEF FinSent, CloseCalled
    <2>3. Own(tcb[i]) BY SMTT(30), <1>4, <2>2 DEF Own, FirstByte, ISS
    <2>4. Cross(tcb[i], tcb[Peer(i)]) BY SMTT(30), <1>4, <2>1, <2>2 DEF Cross, Ending, FirstByte, ISS
    <2>5. QueueOf(i) BY <1>4 DEF QueueOf
    <2> QED BY Zenon, <2>3, <2>4, <2>5
  <1>7. DoneInv
    <2>1. ASSUME NEW i \in Ends PROVE 1 .. Len(tcb[i].Queue) = {} BY <1>4
    <2>2. net = {} BY Zenon DEF Init
    <2> QED BY Zenon, <2>1, <2>2 DEF DoneInv
  <1> QED BY Zenon, <1>5, <1>6, <1>7 DEF TDInv, Init

LEMMA NextInv ==
  ASSUME TDInv, Orderly, [Next]_vars PROVE TDInv'
  <1>1. CASE UNCHANGED vars
    BY Zenon, <1>1 DEF vars, TDInv, TypeInv, QueueOf, NoneGaveUp, DoneInv
  <1>2. ASSUME NEW i \in Ends, Writing(i) PROVE TDInv'
    BY Zenon, <1>2, MinorInv, WriteLockedInv DEF Writing
  <1>3. ASSUME NEW i \in Ends, Sending(i) PROVE TDInv'
    BY Zenon, <1>3, MinorInv, SendDataInv DEF Sending
  <1>4. ASSUME NEW i \in Ends, Closing(i) PROVE TDInv'
    <2>1. ASSUME NEW readToo \in {~tcb[i].app.reads, TRUE}, CloseCall(i, readToo) PROVE TDInv'
      <3>1. readToo \in BOOLEAN BY Zenon
      <3> QED BY Zenon, <2>1, <3>1, CloseCallInv
    <2> QED BY Zenon, <1>4, <2>1, MinorInv, CloseFinInv DEF Closing
  <1>5. ASSUME NEW i \in Ends, Timing(i) PROVE TDInv'
    BY Zenon, <1>5, MinorInv, RetransmitInv, GiveUpInv DEF Timing
  <1>6. ASSUME NEW i \in Ends, Waiting(i) PROVE TDInv'
    BY Zenon, <1>6, MinorInv, WaitClosedInv DEF Waiting
  <1>7. ASSUME NEW i \in Ends, Arriving(i) PROVE TDInv'
    BY Zenon, <1>7, ArrivingInv DEF Arriving
  <1> QED BY Zenon, <1>1, <1>2, <1>3, <1>4, <1>5, <1>6, <1>7, ReadInv, ArrivingInv DEF Next

\* The invariant of both ends and of every packet on its way, whatever the
\* network loses or repeats and however the threads of an end interleave.
THEOREM TeardownInvariance ==
  ASSUME Orderly PROVE Spec => []TDInv
  <1>1. Init => TDInv BY Zenon, InitInv
  <1>2. TDInv /\ [Next]_vars => TDInv' BY Zenon, NextInv
  <1> QED BY <1>1, <1>2, PTL DEF Spec

-----------------------------------------------------------------------------
(* The changes of State.                                                   *)

Allowed(t, u) ==
    \/ t.State = u.State
    \/ <<t.State, u.State>> \in Diagram
    \/ <<t.State, u.State>> \in EarlyFinMoves /\ t.PendingReceivedFin # 0
    \/ <<t.State, u.State>> \in LateMoves /\ Late(t)
    \/ u.TimeoutCancelled

\* a step of an end from t to u while its peer is p
Move(t, u, p) ==
    Allowed(t, u) /\ (<<t.State, u.State>> \in FinAcked /\ Nobody(u, p) => Got(t, p))

Moves == \A i \in Ends :
    /\ Allowed(tcb[i], tcb'[i])
    /\ <<tcb[i].State, tcb'[i].State>> \in FinAcked /\ Nobody(tcb'[i], tcb'[Peer(i)])
         => Got(tcb[i], tcb[Peer(i)])

LEMMA NotAcked ==
  ASSUME NEW s, NEW r, s = r \/ r \in {"CLOSE_WAIT", "FIN_WAIT_1", "LAST_ACK", "CLOSING"}
                       \/ s \in {"FIN_WAIT_2", "TIME_WAIT"}
                       \/ (s = "FIN_WAIT_1" /\ r = "TIME_WAIT")
  PROVE  <<s, r>> \notin FinAcked
  BY SMT DEF FinAcked

LEMMA KeptMove ==
  ASSUME NEW t, NEW u, NEW p, u.State = t.State PROVE Move(t, u, p)
  <1>1. <<t.State, u.State>> \notin FinAcked BY Zenon, NotAcked
  <1> QED BY Zenon, <1>1 DEF Move, Allowed

LEMMA UpdateMoves ==
  ASSUME TDInv, NEW i \in Ends, NEW u, Update(i, u), Move(tcb[i], u, tcb[Peer(i)])
  PROVE  Moves
  <1>1. tcb'[i] = u /\ tcb'[Peer(i)] = tcb[Peer(i)] /\ Peer(Peer(i)) = i BY Zenon, UpdateIs, PeerIs
  <1>2. Move(tcb[Peer(i)], tcb'[Peer(i)], tcb[i]) BY Zenon, <1>1, KeptMove
  <1>3. <<tcb[Peer(i)].State, tcb'[Peer(i)].State>> \notin FinAcked BY Zenon, <1>1, NotAcked
  <1>4. ASSUME NEW j \in Ends
        PROVE  /\ Allowed(tcb[j], tcb'[j])
               /\ <<tcb[j].State, tcb'[j].State>> \in FinAcked /\ Nobody(tcb'[j], tcb'[Peer(j)])
                    => Got(tcb[j], tcb[Peer(j)])
    <2>1. CASE j = i BY Zenon, <1>1, <2>1 DEF Move
    <2>2. CASE j = Peer(i) BY Zenon, <1>2, <1>3, <2>2 DEF Move
    <2> QED BY Zenon, <2>1, <2>2, PeerIs
  <1> QED BY Zenon, <1>4 DEF Moves

LEMMA SameMoves ==
  ASSUME TDInv, UNCHANGED tcb PROVE Moves
  <1>1. ASSUME NEW j \in Ends
        PROVE  Allowed(tcb[j], tcb'[j]) /\ <<tcb[j].State, tcb'[j].State>> \notin FinAcked
    BY Zenon, NotAcked DEF Allowed
  <1> QED BY Zenon, <1>1 DEF Moves

\* The steps of an end by itself that leave State as it is.
LEMMA StateKept ==
  ASSUME TDInv, NEW i \in Ends,
         \/ Writing(i) \/ Sending(i) \/ CloseWaitData(i) \/ CloseReset(i) \/ CloseReturn(i)
         \/ \E readToo \in BOOLEAN : CloseCall(i, readToo)
         \/ TimerFires(i) \/ TimerExits(i) \/ Retransmit(i) \/ TimerTooLate(i)
         \/ WaitExpires(i) \/ WaitReset(i) \/ Read(i)
  PROVE  Moves
  <1>1. PICK t : t = tcb[i] BY Zenon
  <1>2. t \in TCB BY Zenon, <1>1, EndIs
  <1>3. SUFFICES \E u : Update(i, u) /\ u.State = t.State BY Zenon, <1>1, UpdateMoves, KeptMove
  <1>4. CASE WriteEnter(i)
    <2>1. PICK u : u = [t EXCEPT !.write = "entered"] BY Zenon
    <2>2. Update(i, u) BY Zenon, <1>1, <1>4, <2>1 DEF WriteEnter
    <2>3. u.State = t.State BY Zenon, <1>2, <2>1 DEF TCB
    <2> QED BY Zenon, <2>2, <2>3
  <1>5. CASE WriteLocked(i)
    <2>1. CASE t.State \in {"ESTABLISHED", "CLOSE_WAIT"}
      <3>1. PICK w : w = WakeSend(t.send) BY Zenon
      <3>2. PICK u : u = [t EXCEPT !.write = "done", !.LBW = t.LBW + 1, !.send = w] BY Zenon
      <3>3. Update(i, u) BY ZenonT(60), <1>1, <1>5, <2>1, <3>1, <3>2 DEF WriteLocked
      <3>4. u.State = t.State BY Zenon, <1>2, <3>2 DEF TCB
      <3> QED BY Zenon, <3>3, <3>4
    <2>2. CASE ~(t.State \in {"ESTABLISHED", "CLOSE_WAIT"})
      <3>1. PICK u : u = [t EXCEPT !.write = "done", !.lock = "leaked"] BY Zenon
      <3>2. Update(i, u) BY ZenonT(60), <1>1, <1>5, <2>2, <3>1 DEF WriteLocked
      <3>3. u.State = t.State BY Zenon, <1>2, <3>1 DEF TCB
      <3> QED BY Zenon, <3>2, <3>3
    <2> QED BY Zenon, <2>1, <2>2
  <1>6. CASE SendIdle(i)
    <2>1. CASE t.PendingSendingFin
      <3>1. PICK c : c = IF t.close = "data" THEN "woken" ELSE t.close BY Zenon
      <3>2. PICK u : u = [t EXCEPT !.send = "exit", !.close = c] BY Zenon
      <3>3. Update(i, u) BY ZenonT(60), <1>1, <1>6, <2>1, <3>1, <3>2 DEF SendIdle
      <3>4. u.State = t.State BY Zenon, <1>2, <3>2 DEF TCB
      <3> QED BY Zenon, <3>3, <3>4
    <2>2. CASE ~(t.PendingSendingFin)
      <3>1. PICK c : c = IF t.Cancelled THEN "exit" ELSE "asleep" BY Zenon
      <3>2. PICK u : u = [t EXCEPT !.send = c] BY Zenon
      <3>3. Update(i, u) BY ZenonT(60), <1>1, <1>6, <2>2, <3>1, <3>2 DEF SendIdle
      <3>4. u.State = t.State BY Zenon, <1>2, <3>2 DEF TCB
      <3> QED BY Zenon, <3>3, <3>4
    <2> QED BY Zenon, <2>1, <2>2
  <1>7. CASE SendCancelled(i)
    <2>1. PICK u : u = [t EXCEPT !.send = "exit"] BY Zenon
    <2>2. Update(i, u) BY Zenon, <1>1, <1>7, <2>1 DEF SendCancelled
    <2>3. u.State = t.State BY Zenon, <1>2, <2>1 DEF TCB
    <2> QED BY Zenon, <2>2, <2>3
  <1>8. CASE SendData(i)
    <2>1. PICK w : w = ResetThen(i, "run") BY Zenon
    <2>2. PICK q : q = Append(t.Queue, Packet(i, t.NXT, t.RCVNXT, 1, FALSE)) BY Zenon
    <2>3. PICK u : u = [t EXCEPT !.Queue = q, !.NXT = t.NXT + 1, !.send = w] BY Zenon
    <2>4. Update(i, u) BY ZenonT(60), <1>1, <1>8, <2>1, <2>2, <2>3 DEF SendData
    <2>5. u.State = t.State BY Zenon, <1>2, <2>3 DEF TCB
    <2> QED BY Zenon, <2>4, <2>5
  <1>9. CASE SendReset(i)
    <2>1. PICK u : u = [t EXCEPT !.send = "run"] BY Zenon
    <2>2. Update(i, u) BY Zenon, <1>1, <1>9, <2>1 DEF SendReset
    <2>3. u.State = t.State BY Zenon, <1>2, <2>1 DEF TCB
    <2> QED BY Zenon, <2>2, <2>3
  <1>10. CASE CloseWaitData(i)
    <2>1. PICK u : u = [t EXCEPT !.PendingSendingFin = TRUE, !.close = "data"] BY Zenon
    <2>2. Update(i, u) BY Zenon, <1>1, <1>10, <2>1 DEF CloseWaitData
    <2>3. u.State = t.State BY Zenon, <1>2, <2>1 DEF TCB
    <2> QED BY Zenon, <2>2, <2>3
  <1>11. CASE CloseReset(i)
    <2>1. PICK u : u = [t EXCEPT !.close = "chan"] BY Zenon
    <2>2. Update(i, u) BY Zenon, <1>1, <1>11, <2>1 DEF CloseReset
    <2>3. u.State = t.State BY Zenon, <1>2, <2>1 DEF TCB
    <2> QED BY Zenon, <2>2, <2>3
  <1>12. CASE CloseReturn(i)
    <2>1. PICK u : u = [t EXCEPT !.lock = "free", !.close = "done", !.inTable = FALSE] BY Zenon
    <2>2. Update(i, u) BY Zenon, <1>1, <1>12, <2>1 DEF CloseReturn
    <2>3. u.State = t.State BY Zenon, <1>2, <2>1 DEF TCB
    <2> QED BY Zenon, <2>2, <2>3
  <1>13. CASE \E readToo \in BOOLEAN : CloseCall(i, readToo)
    <2>1. PICK readToo \in BOOLEAN : CloseCall(i, readToo) BY Zenon, <1>13
    <2>2. PICK c : c = IF t.inTable THEN "enter" ELSE "panic" BY Zenon
    <2>3. PICK u : u = [t EXCEPT !.WriteCancelled = TRUE, !.ReadCancelled = readToo, !.close = c] BY Zenon
    <2>4. Update(i, u) BY Zenon, <1>1, <2>1, <2>2, <2>3 DEF CloseCall
    <2>5. u.State = t.State BY Zenon, <1>2, <2>3 DEF TCB
    <2> QED BY Zenon, <2>4, <2>5
  <1>14. CASE TimerFires(i)
    <2>1. PICK u : u = [t EXCEPT !.timer = "fired"] BY Zenon
    <2>2. Update(i, u) BY Zenon, <1>1, <1>14, <2>1 DEF TimerFires
    <2>3. u.State = t.State BY Zenon, <1>2, <2>1 DEF TCB
    <2> QED BY Zenon, <2>2, <2>3
  <1>15. CASE TimerExits(i)
    <2>1. PICK u : u = [t EXCEPT !.timer = "exit"] BY Zenon
    <2>2. Update(i, u) BY Zenon, <1>1, <1>15, <2>1 DEF TimerExits
    <2>3. u.State = t.State BY Zenon, <1>2, <2>1 DEF TCB
    <2> QED BY Zenon, <2>2, <2>3
  <1>16. CASE Retransmit(i)
    <2>1. PICK u : u = [t EXCEPT !.RetransmitCounter = t.RetransmitCounter + 1, !.timer = "select"] BY Zenon
    <2>2. Update(i, u) BY Zenon, <1>1, <1>16, <2>1 DEF Retransmit
    <2>3. u.State = t.State BY Zenon, <1>2, <2>1 DEF TCB
    <2> QED BY Zenon, <2>2, <2>3
  <1>17. CASE TimerTooLate(i)
    <2>1. PICK u : u = [t EXCEPT !.timer = "select"] BY Zenon
    <2>2. Update(i, u) BY Zenon, <1>1, <1>17, <2>1 DEF TimerTooLate
    <2>3. u.State = t.State BY Zenon, <1>2, <2>1 DEF TCB
    <2> QED BY Zenon, <2>2, <2>3
  <1>18. CASE WaitExpires(i)
    <2>1. PICK u : u = [t EXCEPT !.waiting = t.waiting - 1, !.expired = t.expired + 1] BY Zenon
    <2>2. Update(i, u) BY Zenon, <1>1, <1>18, <2>1 DEF WaitExpires
    <2>3. u.State = t.State BY Zenon, <1>2, <2>1 DEF TCB
    <2> QED BY Zenon, <2>2, <2>3
  <1>19. CASE WaitReset(i)
    <2>1. PICK u : u = [t EXCEPT !.lock = "free"] BY Zenon
    <2>2. Update(i, u) BY Zenon, <1>1, <1>19, <2>1 DEF WaitReset
    <2>3. u.State = t.State BY Zenon, <1>2, <2>1 DEF TCB
    <2> QED BY Zenon, <2>2, <2>3
  <1>20. CASE Read(i)
    <2>1. PICK e : e = IF t.read = "run" /\ (t.ReadCancelled \/ ~t.inTable \/ t.TimeoutCancelled)
                       THEN "error"
                       ELSE IF Eof(t) THEN "eof"
                       ELSE IF t.LBR # t.RCVNXT THEN "run" ELSE "asleep"
      BY Zenon
    <2>2. PICK l : l = IF e = "run" THEN t.LBR + 1 ELSE t.LBR BY Zenon
    <2>3. PICK u : u = [t EXCEPT !.read = e, !.LBR = l] BY Zenon
    <2>4. Update(i, u) BY ZenonT(60), <1>1, <1>20, <2>1, <2>2, <2>3 DEF Read
    <2>5. u.State = t.State BY Zenon, <1>2, <2>3 DEF TCB
    <2> QED BY Zenon, <2>4, <2>5
  <1> QED
    BY ZenonT(60), <1>4, <1>5, <1>6, <1>7, <1>8, <1>9, <1>10, <1>11, <1>12, <1>13,
       <1>14, <1>15, <1>16, <1>17, <1>18, <1>19, <1>20
    DEF Writing, Sending

\* Close sends its FIN from ESTABLISHED and from CLOSE_WAIT only, or too late.
LEMMA CloseFinMoves ==
  ASSUME TDInv, NEW i \in Ends, CloseFin(i) PROVE Moves
  <1>1. PICK t : t = tcb[i] BY Zenon
  <1>2. t \in TCB /\ Own(t) BY Zenon, <1>1, EndIs
  <1>3. PICK s : s = IF t.State = "CLOSE_WAIT" THEN "LAST_ACK" ELSE "FIN_WAIT_1" BY Zenon
  <1>4. PICK m : m = Packet(i, t.NXT, t.RCVNXT + IF t.State = "CLOSE_WAIT" THEN 1 ELSE 0, 0, TRUE)
    BY Zenon
  <1>5. PICK w, c, q : w = WakeSend(t.send) /\ c = ResetThen(i, "chan") /\ q = Append(t.Queue, m)
    BY Zenon
  <1>6. PICK u : u = [t EXCEPT !.PendingSendingFin = TRUE, !.Cancelled = TRUE, !.send = w,
                                !.State = s, !.NXT = t.NXT + 1, !.Queue = q, !.close = c]
    BY Zenon
  <1>7. Update(i, u) /\ t.close \in {"enter", "woken"}
    BY ZenonT(60), <1>1, <1>3, <1>4, <1>5, <1>6 DEF CloseFin, CloseLocks
  <1>8. u.State = s /\ u.TimeoutCancelled = t.TimeoutCancelled BY Zenon, <1>2, <1>6 DEF TCB
  <1>9. ~FinSent(t) BY Zenon, <1>7 DEF FinSent
  <1>10. t.State \in {"ESTABLISHED", "CLOSE_WAIT"} \/ t.TimeoutCancelled BY Zenon, <1>2, <1>9 DEF Own
  <1>11. Allowed(t, u) BY Zenon, <1>3, <1>8, <1>10 DEF Allowed, Diagram
  <1>12. <<t.State, u.State>> \notin FinAcked BY Zenon, <1>3, <1>8, NotAcked
  <1> QED BY Zenon, <1>1, <1>7, <1>11, <1>12, UpdateMoves DEF Move

LEMMA GiveUpMoves ==
  ASSUME TDInv, NEW i \in Ends, GiveUp(i) PROVE Moves
  <1>1. PICK t : t = tcb[i] BY Zenon
  <1>2. t \in TCB BY Zenon, <1>1, EndIs
  <1>3. PICK w, r : w = WakeSend(t.send) /\ r = WakeRead(t.read) BY Zenon
  <1>4. PICK u : u = [t EXCEPT !.State = "CLOSED", !.TimeoutCancelled = TRUE, !.send = w,
                               !.read = r, !.inTable = FALSE, !.timer = "exit"]
    BY Zenon
  <1>5. Update(i, u) BY Zenon, <1>1, <1>3, <1>4 DEF GiveUp
  <1>6. u.TimeoutCancelled BY Zenon, <1>2, <1>4 DEF TCB
  <1> QED BY Zenon, <1>1, <1>5, <1>6, UpdateMoves DEF Move, Allowed, Nobody

\* Only an end in TIME_WAIT has a WaitForClosed.
LEMMA WaitClosedMoves ==
  ASSUME TDInv, NEW i \in Ends, WaitClosed(i) PROVE Moves
  <1>1. PICK t : t = tcb[i] BY Zenon
  <1>2. t \in TCB /\ Own(t) /\ t.waiting \in Nat /\ t.expired \in Nat BY Zenon, <1>1, EndIs
  <1>3. PICK v : v = [t EXCEPT !.expired = t.expired - 1, !.State = "CLOSED", !.lock = "notify"] BY Zenon
  <1>4. PICK w : w = [t EXCEPT !.waiting = t.waiting - 1, !.State = "CLOSED", !.lock = "notify"] BY Zenon
  <1>5. \/ t.expired > 0 /\ Update(i, v)
        \/ t.waiting > 0 /\ Update(i, w)
    BY Zenon, <1>1, <1>3, <1>4 DEF WaitClosed
  <1>6. v.State = "CLOSED" /\ w.State = "CLOSED" BY Zenon, <1>2, <1>3, <1>4 DEF TCB
  <1>7. t.State = "TIME_WAIT" BY <1>2, <1>5 DEF Own
  <1>8. Allowed(t, v) /\ Allowed(t, w) BY Zenon, <1>6, <1>7 DEF Allowed, Diagram
  <1>9. <<t.State, v.State>> \notin FinAcked /\ <<t.State, w.State>> \notin FinAcked
    BY Zenon, <1>7, NotAcked
  <1> QED BY Zenon, <1>1, <1>5, <1>8, <1>9, UpdateMoves DEF Move

\* The FIN that Receive finds complete was set aside by ReceiveFin in ESTABLISHED.
\* A byte before it is missing, so the end has taken no FIN since.
LEMMA ReceiveMoves ==
  ASSUME TDInv, NEW m \in net, NEW rest, Receive(m.to, m, rest) PROVE Moves
  <1>1. PICK i \in Ends : i = m.to BY Zenon, ArrivedIs
  <1>2. PICK t : t = tcb[i] BY Zenon
  <1>3. PICK p : p = tcb[Peer(i)] BY Zenon
  <1>4. /\ t \in TCB /\ Own(t) /\ Cross(t, p) /\ t.RCVNXT \in Nat /\ t.PendingReceivedFin \in Nat
        /\ m \in PacketSet /\ Sent(m, p, t) /\ m.ack \in Nat /\ p.LBW \in Nat
    BY ZenonT(60), <1>1, <1>2, <1>3, EndIs, ArrivedIs, PeerIs
  <1>5. PICK v : v = TakeData(t, m) BY Zenon
  <1>6. GoodEnd(i, v) /\ v.Queue = t.Queue BY Zenon, <1>1, <1>2, <1>5, TakeDataGood
  <1>7. PICK n \in 0 .. Len(t.Queue) : Update(i, TakeAck(v, m, n)) BY Zenon, <1>1, <1>2, <1>5 DEF Receive, Acked
  <1>8. m.ack \in {0} \cup Seqs BY SMTT(30), <1>4 DEF Own, Sent, Seqs, FirstByte, ISS
  <1>9. PICK u : u = TakeAck(v, m, n) BY Zenon
  <1>10. Trimmed(v, u) BY Zenon, <1>4, <1>6, <1>8, <1>9, TakeAckIs DEF GoodEnd
  <1>11. v.State = t.State \/ (v.State = "CLOSE_WAIT" /\ t.RCVNXT + 1 = t.PendingReceivedFin)
    <2>1. CASE m.len = 0 \/ m.seq < t.RCVNXT BY Zenon, <1>5, <2>1 DEF TakeData
    <2>2. CASE ~(m.len = 0 \/ m.seq < t.RCVNXT)
      <3>1. PICK s : s = IF t.RCVNXT + 1 = t.PendingReceivedFin THEN "CLOSE_WAIT" ELSE t.State BY Zenon
      <3>2. PICK r : r = WakeRead(t.read) BY Zenon
      <3>3. v = [t EXCEPT !.RCVNXT = t.RCVNXT + 1, !.read = r, !.State = s]
        BY Zenon, <1>5, <2>2, <3>1, <3>2 DEF TakeData
      <3>4. v.State = s BY Zenon, <1>4, <3>3 DEF TCB
      <3> QED BY Zenon, <3>1, <3>4
    <2> QED BY Zenon, <2>1, <2>2
  <1>12. v.TimeoutCancelled = t.TimeoutCancelled
    <2>1. CASE m.len = 0 \/ m.seq < t.RCVNXT BY Zenon, <1>5, <2>1 DEF TakeData
    <2>2. CASE ~(m.len = 0 \/ m.seq < t.RCVNXT)
      <3>1. PICK s, r, n1 : v = [t EXCEPT !.RCVNXT = n1, !.read = r, !.State = s]
        BY Zenon, <1>5, <2>2 DEF TakeData
      <3> QED BY Zenon, <1>4, <3>1 DEF TCB
    <2> QED BY Zenon, <2>1, <2>2
  <1>13. t.RCVNXT + 1 = t.PendingReceivedFin
           => t.PendingReceivedFin # 0 /\ (t.State \in Open \/ t.TimeoutCancelled)
    <2>1. ASSUME t.RCVNXT + 1 = t.PendingReceivedFin
          PROVE  t.PendingReceivedFin # 0 /\ t.RCVNXT < p.LBW
      <3>1. t.PendingReceivedFin # 0 BY <1>4, <2>1
      <3>2. t.PendingReceivedFin = p.LBW BY Zenon, <1>4, <3>1 DEF Cross
      <3> QED BY <1>4, <2>1, <3>1, <3>2
    <2>2. t.RCVNXT < p.LBW => /\ t.State \notin {"CLOSE_WAIT", "LAST_ACK"} \cup Ending
                              /\ t.State = "CLOSED" => t.TimeoutCancelled
      BY SMTT(30), <1>4 DEF Cross
    <2>3. t.State \in States BY Zenon, <1>4 DEF TCB
    <2>4. t.State \in Open \cup {"CLOSE_WAIT", "LAST_ACK", "CLOSED"} \cup Ending
      BY Zenon, <2>3 DEF States, Open, Ending
    <2> QED BY Zenon, <2>1, <2>2, <2>4
  <1>14. u.State = v.State /\ u.TimeoutCancelled = v.TimeoutCancelled BY Zenon, <1>10 DEF Trimmed
  <1>15. Allowed(t, u) BY Zenon, <1>11, <1>12, <1>13, <1>14 DEF Allowed, Diagram, EarlyFinMoves, Open
  <1>16. <<t.State, u.State>> \notin FinAcked BY Zenon, <1>11, <1>14, NotAcked
  <1>17. Move(t, u, p) BY Zenon, <1>15, <1>16 DEF Move
  <1> QED BY ZenonT(60), <1>2, <1>3, <1>7, <1>9, <1>17, UpdateMoves

LEMMA HandleMoves ==
  ASSUME TDInv, NEW m \in net, NEW rest, NEW s, Handle(s, m, rest),
         \/ s = tcb[m.to].State
         \/ s = "RECEIVE"
         \/ /\ Late(tcb[m.to]) /\ s \in {"ESTABLISHED", "CLOSE_WAIT", "LAST_ACK", "CLOSED"}
            /\ s = "LAST_ACK" => FinSent(tcb[m.to])
  PROVE  Moves
  <1>1. PICK i \in Ends : i = m.to BY Zenon, ArrivedIs
  <1>2. PICK t : t = tcb[i] BY Zenon
  <1>3. t \in TCB /\ Own(t) /\ t.Queue \in Seq(PacketSet) BY Zenon, <1>2, EndIs
  <1>p. PICK p : p = tcb[Peer(i)] BY Zenon
  <1>4. Nobody(t, p) => SentDone(m, p, t) BY Zenon, <1>1, <1>2, <1>p, ArrivedIs
  <1>5. CASE s = "ESTABLISHED" /\ HandleEstablished(i, m, rest)
    <2>1. CASE m.fin
      <3>1. ReceiveFin(i, m, rest) BY Zenon, <1>5, <2>1 DEF HandleEstablished
      <3>2. PICK x, e, f :
              /\ x = IF m.seq = t.RCVNXT THEN "CLOSE_WAIT" ELSE t.State
              /\ e = IF m.seq = t.RCVNXT THEN WakeRead(t.read) ELSE t.read
              /\ f = IF m.seq > t.RCVNXT THEN m.seq ELSE t.PendingReceivedFin
              /\ Update(i, [t EXCEPT !.State = x, !.read = e, !.PendingReceivedFin = f])
        BY Zenon, <1>2, <3>1 DEF ReceiveFin
      <3>3. PICK u : u = [t EXCEPT !.State = x, !.read = e, !.PendingReceivedFin = f] BY Zenon
      <3>4. u.State = x BY Zenon, <1>3, <3>3 DEF TCB
      <3>5. t.State = "ESTABLISHED" \/ (Late(t) /\ t.State \in {"CLOSE_WAIT", "LAST_ACK", "CLOSED"})
        BY ZenonT(60), <1>1, <1>2, <1>3, <1>5 DEF Own
      <3>6. u.State \in {"CLOSE_WAIT", t.State} BY Zenon, <3>2, <3>4
      <3>7. Allowed(t, u) BY ZenonT(60), <3>5, <3>6 DEF Allowed, Diagram, LateMoves
      <3>8. <<t.State, u.State>> \notin FinAcked BY Zenon, <3>6, NotAcked
      <3>9. Move(t, u, p) BY Zenon, <3>7, <3>8 DEF Move
      <3> QED BY ZenonT(60), <1>2, <1>p, <3>2, <3>3, <3>9, UpdateMoves
    <2>2. CASE ~m.fin
      <3>1. Receive(m.to, m, rest) BY Zenon, <1>1, <1>5, <2>2 DEF HandleEstablished
      <3> QED BY Zenon, <3>1, ReceiveMoves
    <2> QED BY Zenon, <2>1, <2>2
  <1>6. CASE s = "FIN_WAIT_1" /\ HandleFinWait1(i, m, rest)
    <2>1. PICK next \in {"CLOSING", "TIME_WAIT"} :
            next = IF m.ack = t.NXT - 1 THEN "CLOSING" ELSE "TIME_WAIT"
      BY Zenon
    <2>2. PICK n : n = IF next = "TIME_WAIT" THEN t.waiting + 1 ELSE t.waiting BY Zenon
    <2>3. PICK v : v = [t EXCEPT !.State = "FIN_WAIT_2"] BY Zenon
    <2>4. PICK w : w = [t EXCEPT !.State = next, !.RCVNXT = t.RCVNXT + 1, !.waiting = n] BY Zenon
    <2>5. (Update(i, v) /\ m.ack = t.NXT) \/ Update(i, w) \/ UNCHANGED tcb
      BY ZenonT(60), <1>2, <1>6, <2>1, <2>2, <2>3, <2>4 DEF HandleFinWait1
    <2>6. v.State = "FIN_WAIT_2" /\ w.State = next /\ v.TimeoutCancelled = t.TimeoutCancelled
      BY ZenonT(60), <1>3, <2>3, <2>4 DEF TCB
    <2>7. t.State = "FIN_WAIT_1" BY Zenon, <1>1, <1>2, <1>6
    <2>8. t.NXT = t.LBW + 1 BY Zenon, <1>2, <2>7, ActiveIs
    <2>9. Allowed(t, v) /\ Allowed(t, w) BY ZenonT(60), <2>1, <2>6, <2>7 DEF Allowed, Diagram
    <2>10. <<t.State, w.State>> \notin FinAcked BY Zenon, <2>1, <2>6, <2>7, NotAcked
    <2>11. m.ack = t.NXT => Move(t, v, p) BY Zenon, <1>4, <2>6, <2>8, <2>9 DEF Move, SentDone, Nobody
    <2>12. Move(t, w, p) BY Zenon, <2>9, <2>10 DEF Move
    <2> QED BY ZenonT(60), <1>2, <1>p, <2>5, <2>11, <2>12, UpdateMoves, SameMoves
  <1>7. CASE s = "FIN_WAIT_2" /\ HandleFinWait2(i, m, rest)
    <2>1. CASE ~m.fin
      <3>1. Receive(m.to, m, rest) BY Zenon, <1>1, <1>7, <2>1 DEF HandleFinWait2
      <3> QED BY Zenon, <3>1, ReceiveMoves
    <2>2. CASE m.fin
      <3>1. PICK u : u = [t EXCEPT !.State = "TIME_WAIT", !.RCVNXT = t.RCVNXT + 1,
                                   !.ResetWaitChan = TRUE, !.waiting = t.waiting + 1]
        BY Zenon
      <3>2. Update(i, u) \/ UNCHANGED tcb BY ZenonT(60), <1>2, <1>7, <2>2, <3>1 DEF HandleFinWait2
      <3>3. u.State = "TIME_WAIT" BY Zenon, <1>3, <3>1 DEF TCB
      <3>4. t.State = "FIN_WAIT_2" BY Zenon, <1>1, <1>2, <1>7
      <3>5. Allowed(t, u) BY Zenon, <3>3, <3>4 DEF Allowed, Diagram
      <3>6. <<t.State, u.State>> \notin FinAcked BY Zenon, <3>4, NotAcked
      <3>7. Move(t, u, p) BY Zenon, <3>5, <3>6 DEF Move
      <3> QED BY ZenonT(60), <1>2, <1>p, <3>2, <3>7, UpdateMoves, SameMoves
    <2> QED BY Zenon, <2>1, <2>2
  <1>8. CASE s = "CLOSING" /\ HandleClosing(i, m, rest)
    <2>1. PICK u : u = [t EXCEPT !.State = "TIME_WAIT", !.waiting = t.waiting + 1] BY Zenon
    <2>2. (Update(i, u) /\ m.ack = t.NXT) \/ UNCHANGED tcb BY Zenon, <1>2, <1>8, <2>1 DEF HandleClosing
    <2>3. u.State = "TIME_WAIT" /\ u.TimeoutCancelled = t.TimeoutCancelled BY Zenon, <1>3, <2>1 DEF TCB
    <2>4. t.State = "CLOSING" BY Zenon, <1>1, <1>2, <1>8
    <2>5. t.NXT = t.LBW + 1 BY Zenon, <1>2, <2>4, ActiveIs
    <2>6. Allowed(t, u) BY Zenon, <2>3, <2>4 DEF Allowed, Diagram
    <2>7. m.ack = t.NXT => Move(t, u, p) BY Zenon, <1>4, <2>3, <2>5, <2>6 DEF Move, SentDone, Nobody
    <2> QED BY ZenonT(60), <1>2, <1>p, <2>2, <2>7, UpdateMoves, SameMoves
  <1>9. CASE s = "TIME_WAIT" /\ HandleTimeWait(i, m, rest)
    <2>1. PICK u : u = [t EXCEPT !.lock = "reset"] BY Zenon
    <2>2. Update(i, u) \/ UNCHANGED tcb BY Zenon, <1>2, <1>9, <2>1 DEF HandleTimeWait
    <2>3. u.State = t.State BY Zenon, <1>3, <2>1 DEF TCB
    <2> QED BY Zenon, <1>2, <2>2, <2>3, UpdateMoves, SameMoves, KeptMove
  <1>10. CASE s = "LAST_ACK" /\ HandleLastAck(i, m, rest)
    <2>1. CASE m.ack = t.NXT
      <3>1. PICK n \in 0 .. Len(t.Queue) :
              Update(i, [Trim(t, n) EXCEPT !.State = "CLOSED", !.lock = "notify"])
        BY Zenon, <1>2, <1>10, <2>1 DEF HandleLastAck, Acked
      <3>2. PICK v : v = Trim(t, n) BY Zenon
      <3>3. v \in TCB /\ v.TimeoutCancelled = t.TimeoutCancelled BY Zenon, <1>3, <3>2, TrimIs DEF Trimmed
      <3>4. PICK u : u = [v EXCEPT !.State = "CLOSED", !.lock = "notify"] BY Zenon
      <3>5. u.State = "CLOSED" /\ u.TimeoutCancelled = t.TimeoutCancelled BY Zenon, <3>3, <3>4 DEF TCB
      <3>6. FinSent(t) BY ZenonT(60), <1>1, <1>2, <1>3, <1>10 DEF Own
      <3>7. t.State = "LAST_ACK" \/ (Late(t) /\ t.State \in {"CLOSE_WAIT", "CLOSED"})
        BY ZenonT(60), <1>1, <1>2, <1>3, <1>10, <3>6 DEF Own
      <3>8. t.NXT = t.LBW + 1 BY Zenon, <1>3, <3>6 DEF Own
      <3>9. Allowed(t, u) BY ZenonT(60), <3>5, <3>7 DEF Allowed, Diagram, LateMoves
      <3>10. Move(t, u, p) BY Zenon, <1>4, <2>1, <3>5, <3>8, <3>9 DEF Move, SentDone, Nobody
      <3> QED BY ZenonT(60), <1>2, <1>p, <3>1, <3>2, <3>4, <3>10, UpdateMoves
    <2>2. CASE m.ack # t.NXT
      <3>1. UNCHANGED tcb BY Zenon, <1>2, <1>10, <2>2 DEF HandleLastAck
      <3> QED BY Zenon, <3>1, SameMoves
    <2> QED BY Zenon, <2>1, <2>2
  <1>11. CASE UNCHANGED tcb BY Zenon, <1>11, SameMoves
  <1>12. CASE s = "RECEIVE" /\ Receive(m.to, m, rest) BY Zenon, <1>12, ReceiveMoves
  <1> QED
    BY Zenon, <1>1, <1>5, <1>6, <1>7, <1>8, <1>9, <1>10, <1>11, <1>12 DEF Handle, HandleCloseWait

LEMMA ArrivingMoves ==
  ASSUME TDInv, NEW m \in net, ReceivePacket(m) \/ HandlerLocks(m) \/ Dispatch(m) \/ Lose(m)
  PROVE  Moves
  <1>1. m \in PacketSet /\ At(m, tcb[m.to]) BY Zenon, ArrivedIs
  <1>2. CASE ReceivePacket(m)
    <2>1. PICK rest : Handle(tcb[m.to].State, m, rest) \/ UNCHANGED tcb BY Zenon, <1>2 DEF ReceivePacket
    <2> QED BY Zenon, <2>1, HandleMoves, SameMoves
  <1>3. CASE HandlerLocks(m)
    <2>1. PICK rest : Handle(m.at, m, rest) /\ m.at # "wire" BY Zenon, <1>3 DEF HandlerLocks
    <2>2. \/ m.at = "RECEIVE"
          \/ /\ Late(tcb[m.to]) /\ m.at \in {"ESTABLISHED", "CLOSE_WAIT", "LAST_ACK", "CLOSED"}
             /\ m.at = "LAST_ACK" => FinSent(tcb[m.to])
      BY Zenon, <1>1, <2>1 DEF PacketSet, At
    <2> QED BY Zenon, <2>1, <2>2, HandleMoves
  <1>4. CASE Dispatch(m) \/ Lose(m) BY Zenon, <1>4, SameMoves DEF Dispatch, Lose
  <1> QED BY Zenon, <1>2, <1>3, <1>4

LEMMA NextMoves ==
  ASSUME TDInv, [Next]_vars PROVE Moves
  <1>1. CASE UNCHANGED vars BY Zenon, <1>1, SameMoves DEF vars
  <1>2. ASSUME NEW i \in Ends, Closing(i) PROVE Moves
    <2>1. ASSUME NEW readToo \in {~tcb[i].app.reads, TRUE}, CloseCall(i, readToo) PROVE Moves
      <3>1. readToo \in BOOLEAN BY Zenon
      <3> QED BY Zenon, <2>1, <3>1, StateKept
    <2> QED BY Zenon, <1>2, <2>1, StateKept, CloseFinMoves DEF Closing
  <1>3. ASSUME NEW i \in Ends, Timing(i) PROVE Moves BY Zenon, <1>3, StateKept, GiveUpMoves DEF Timing
  <1>4. ASSUME NEW i \in Ends, Waiting(i) PROVE Moves BY Zenon, <1>4, StateKept, WaitClosedMoves DEF Waiting
  <1>5. ASSUME NEW i \in Ends, Arriving(i) PROVE Moves BY Zenon, <1>5, ArrivingMoves DEF Arriving
  <1> QED BY ZenonT(60), <1>1, <1>2, <1>3, <1>4, <1>5, StateKept, ArrivingMoves DEF Next

-----------------------------------------------------------------------------
(* What the runs check.                                                    *)

LEMMA TypesFollow ==
  ASSUME TDInv PROVE TypeOK
  <1>1. ASSUME NEW i \in Ends
        PROVE  /\ {tcb[i].NXT, tcb[i].LBW, tcb[i].RCVNXT, tcb[i].LBR} \subseteq Seqs
               /\ tcb[i].PendingReceivedFin \in {0} \cup Seqs
               /\ tcb[i].waiting \in 0 .. 2 /\ tcb[i].expired \in 0 .. 2
               /\ tcb[i].UNA \in {ISS} \cup Seqs
    <2>1. PICK t : t = tcb[i] BY Zenon
    <2>2. PICK p : p = tcb[Peer(i)] BY Zenon
    <2>3. /\ t \in TCB /\ Own(t) /\ Own(p) /\ Cross(t, p) /\ t.NXT \in Nat /\ t.LBW \in Nat
          /\ t.RCVNXT \in Nat /\ t.waiting \in Nat /\ t.expired \in Nat /\ p.LBW \in Nat
      BY Zenon, <2>1, <2>2, EndIs, PeerIs
    <2>4. t.LBR \in Seqs /\ t.UNA \in FromISS BY Zenon, <2>3 DEF TCB
    <2>5. t.LBW \in Seqs /\ p.LBW \in Seqs /\ t.RCVNXT \in Seqs
      BY SMTT(30), <2>3 DEF Own, Cross, Seqs, FirstByte, ISS
    <2>6. t.NXT \in Seqs BY <2>3 DEF Own, Seqs, FirstByte, ISS
    <2>7. t.PendingReceivedFin \in {0} \cup Seqs BY Zenon, <2>3, <2>5 DEF Cross
    <2>8. t.waiting \in 0 .. 2 /\ t.expired \in 0 .. 2 BY <2>3 DEF Own
    <2> QED BY Zenon, <2>1, <2>4, <2>5, <2>6, <2>7, <2>8 DEF FromISS
  <1>2. ASSUME NEW i \in Ends, NEW m \in PacketSet, Sent(m, tcb[i], tcb[Peer(i)])
        PROVE  m \in PacketType
    <2>1. Own(tcb[i]) /\ Own(tcb[Peer(i)]) BY Zenon, EndIs, PeerIs
    <2>2. m.seq \in Nat /\ m.ack \in Nat BY Zenon DEF PacketSet
    <2>3. tcb[i].LBW \in {2, 3} /\ tcb[Peer(i)].LBW \in {2, 3}
      <3>1. /\ tcb[i].LBW \in {FirstByte, FirstByte + 1}
            /\ tcb[Peer(i)].LBW \in {FirstByte, FirstByte + 1}
        BY Zenon, <2>1 DEF Own
      <3>2. FirstByte = 2 /\ FirstByte + 1 = 3 BY DEF FirstByte, ISS
      <3> QED BY Zenon, <3>1, <3>2
    <2>4. /\ m.seq >= 2 /\ m.seq <= tcb[i].LBW + 1
          /\ m.ack = 0 \/ m.ack >= 2
          /\ m.ack <= tcb[Peer(i)].LBW + 1
      BY <1>2 DEF Sent, FirstByte, ISS
    <2>5. m.seq \in Seqs /\ m.ack \in Seqs \cup {0} BY <2>2, <2>3, <2>4 DEF Seqs, FirstByte, ISS
    <2> QED BY Zenon, <2>5 DEF PacketSet, PacketType
  <1>3. net \subseteq PacketType
    <2>1. ASSUME NEW m \in net PROVE m \in PacketType
      <3>1. /\ m \in PacketSet /\ m.to \in Ends /\ Peer(m.to) \in Ends /\ Peer(Peer(m.to)) = m.to
            /\ Sent(m, tcb[Peer(m.to)], tcb[m.to])
        BY Zenon, ArrivedIs, PeerIs
      <3> QED BY Zenon, <1>2, <3>1
    <2> QED BY Zenon, <2>1
  <1>4. ASSUME NEW i \in Ends, NEW k \in 1 .. Len(tcb[i].Queue) PROVE tcb[i].Queue[k] \in PacketType
    <2>1. tcb[i].Queue \in Seq(PacketSet) /\ QueueOf(i) BY Zenon, EndIs DEF TDInv
    <2>2. tcb[i].Queue[k] \in PacketSet BY <2>1
    <2> QED BY Zenon, <1>2, <2>1, <2>2 DEF QueueOf
  <1>5. DOMAIN tcb = Ends /\ faults \in 0 .. Faults BY Zenon DEF TDInv, TypeInv
  <1>6. ASSUME NEW i \in Ends
        PROVE  /\ tcb[i].app \in App /\ tcb[i].State \in States
               /\ tcb[i].RetransmitCounter \in 0 .. MAX_RETRANSMISSIONS
               /\ {tcb[i].Cancelled, tcb[i].TimeoutCancelled, tcb[i].PendingSendingFin,
                   tcb[i].ReadCancelled, tcb[i].WriteCancelled, tcb[i].ResetWaitChan,
                   tcb[i].inTable} \subseteq BOOLEAN
               /\ tcb[i].lock \in {"free", "leaked", "reset", "notify"}
               /\ tcb[i].send \in {"run", "asleep", "rto", "exit"}
               /\ tcb[i].close \in {"no", "enter", "data", "woken", "rto", "chan", "done", "panic"}
               /\ tcb[i].write \in {"no", "entered", "done"}
               /\ tcb[i].read \in {"run", "asleep", "woken", "eof", "error"}
               /\ tcb[i].timer \in {"select", "fired", "exit"}
    <2>1. tcb[i] \in TCB BY Zenon, EndIs
    <2> QED BY ZenonT(60), <2>1 DEF TCB
  <1> QED BY SMTT(30), <1>1, <1>3, <1>4, <1>5, <1>6 DEF TypeOK

LEMMA SafetyFollows ==
  ASSUME TDInv PROVE FinAfterData /\ EofAfterData /\ FinCompletes
  <1>1. FinAfterData
    <2>1. ASSUME NEW m \in net, m.fin PROVE m.seq = tcb[Peer(m.to)].LBW
      BY Zenon, <2>1, ArrivedIs DEF Sent
    <2> QED BY Zenon, <2>1 DEF FinAfterData
  <1>2. EofAfterData
    <2>1. ASSUME NEW i \in Ends, tcb[i].read = "eof", ~tcb[i].TimeoutCancelled
          PROVE  tcb[i].LBR = tcb[Peer(i)].LBW
      BY Zenon, <2>1, EndIs DEF Cross
    <2> QED BY Zenon, <2>1 DEF EofAfterData
  <1>3. FinCompletes
    <2>1. ASSUME NEW i \in Ends
          PROVE  LET bytes == tcb[i].RCVNXT - tcb[Peer(i)].LBW
                 IN  /\ tcb[i].State \in {"CLOSE_WAIT", "LAST_ACK"} => bytes = 0
                     /\ tcb[i].State = "TIME_WAIT" /\ tcb[i].ResetWaitChan => bytes = 1
                     /\ tcb[i].State \in {"CLOSING", "TIME_WAIT"} => bytes \in {0, 1}
      <3>1. Cross(tcb[i], tcb[Peer(i)]) /\ tcb[i].RCVNXT \in Nat /\ tcb[Peer(i)].LBW \in Nat
        BY Zenon, EndIs, PeerIs
      <3> QED BY SMTT(30), <3>1 DEF Cross, Ending
    <2> QED BY Zenon, <2>1 DEF FinCompletes
  <1> QED BY Zenon, <1>1, <1>2, <1>3

\* Every sequence number, state and thread stays within the range TypeOK gives.
THEOREM TeardownTypes ==
  ASSUME Orderly PROVE Spec => []TypeOK
  <1>1. TDInv => TypeOK BY Zenon, TypesFollow
  <1> QED BY <1>1, TeardownInvariance, PTL

\* The FIN that Close puts on the wire, the first time and in every
\* retransmission, stands behind the last byte Write has accepted, in every
\* scenario but the one Orderly leaves out: two ends that both write and may both
\* close first, where an early FIN takes FIN_WAIT_1 back to CLOSE_WAIT (core:472-476)
\* and Write accepts a byte behind the FIN.
THEOREM FinLast ==
  ASSUME Orderly PROVE Spec => []FinAfterData
  <1>1. TDInv => FinAfterData BY Zenon, SafetyFollows
  <1> QED BY <1>1, TeardownInvariance, PTL

\* Read returns io.EOF only behind the last byte the peer has written, or
\* after waitTimeout has given the connection up (Orderly scenarios).
THEOREM EofLast ==
  ASSUME Orderly PROVE Spec => []EofAfterData
  <1>1. TDInv => EofAfterData BY Zenon, SafetyFollows
  <1> QED BY <1>1, TeardownInvariance, PTL

\* An end that has taken the FIN in CLOSE_WAIT, in LAST_ACK or through FIN_WAIT_2
\* has every byte of the peer; one that took it in FIN_WAIT_1, whatever its
\* sequence number (line 222), has the FIN or the last byte, and may lack one of
\* them (Orderly scenarios).
THEOREM FinComplete ==
  ASSUME Orderly PROVE Spec => []FinCompletes
  <1>1. TDInv => FinCompletes BY Zenon, SafetyFollows
  <1> QED BY <1>1, TeardownInvariance, PTL

\* HandleFinWait1, HandleClosing and HandleLastAck take an acknowledgment for the
\* one of the FIN only when the peer has every byte and the FIN, both ends closing
\* first with data in flight and handlers that run late included, until an end
\* gives up (Orderly scenarios).
THEOREM AckedReceived ==
  ASSUME Orderly PROVE Spec => AckedWhenReceived
  <1>1. ASSUME TDInv, [Next]_vars
        PROVE  [\A i \in Ends :
                   /\ <<tcb[i].State, tcb'[i].State>> \in FinAcked
                   /\ \A j \in Ends : ~tcb'[j].TimeoutCancelled
                   => FinReceived(i)]_vars
    <2>1. Moves BY Zenon, <1>1, NextMoves
    <2>2. ASSUME NEW i \in Ends, <<tcb[i].State, tcb'[i].State>> \in FinAcked,
                 \A j \in Ends : ~tcb'[j].TimeoutCancelled
          PROVE  FinReceived(i)
      <3>1. Nobody(tcb'[i], tcb'[Peer(i)]) BY Zenon, <2>2, PeerIs DEF Nobody
      <3>2. Got(tcb[i], tcb[Peer(i)]) BY Zenon, <2>1, <2>2, <3>1 DEF Moves
      <3> QED BY Zenon, <3>2 DEF Got, FinReceived, Open, Ending
    <2> QED BY Zenon, <2>2
  <1> QED BY <1>1, TeardownInvariance, PTL DEF Spec, AckedWhenReceived

\* State changes along the edges of the TCP diagram and along the extra moves that
\* FollowsDiagram lists, and no others: an early FIN that is completed in FIN_WAIT_1
\* or FIN_WAIT_2, a handler that runs late, giving up (Orderly scenarios).
THEOREM AlongDiagram ==
  ASSUME Orderly PROVE Spec => FollowsDiagram
  <1>1. ASSUME TDInv, [Next]_vars
        PROVE  [\A i \in Ends :
                  LET move == <<tcb[i].State, tcb'[i].State>>
                  IN  \/ tcb[i].State = tcb'[i].State
                      \/ move \in Diagram
                      \/ move \in EarlyFinMoves /\ tcb[i].PendingReceivedFin # 0
                      \/ move \in LateMoves /\ Unlucky(i, "dispatch")
                      \/ tcb'[i].TimeoutCancelled]_vars
    <2>1. Moves BY Zenon, <1>1, NextMoves
    <2> QED BY Zenon, <2>1 DEF Moves, Allowed, Late, Unlucky
  <1> QED BY <1>1, TeardownInvariance, PTL DEF Spec, FollowsDiagram
=============================================================================
