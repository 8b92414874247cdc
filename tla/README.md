# Verification of the TCP/IP stack

TLA+ models of the node in this repository: its TCP (data transfer, connection
setup and teardown, congestion control), its RIP routing and its IP forwarding
with the commands `send` and `traceroute`. The modules are translated from the
Go code; `PROJECT.json` maps every definition to the lines it stands for, lists
what in this code is hard to test, and says which property watches over it.

## The system and its modules

A node is one process. `Host` reads UDP packets, forwards them or hands each to
a handler in a goroutine of its own; so two packets of one connection may be
handled in either order, and together with the application's calls. The TCP
handler keeps one TCB per connection, with a goroutine that sends (`Send`) and
one that retransmits (`waitTimeout`); `TCBLock` guards most of the TCB. The RIP
handler shares the routing table with the forwarding code.

| Module | Code | What it models |
|---|---|---|
| `RingBuffer` | `tcp_handler_utils.go`, copies in `tcp_handler_core.go` | the send and receive buffers as functions from slots |
| `EarlyArrivals` | `tcp_early_arrivals.go` | `Push`, `updateAckNum` |
| `SlidingWindow` | `Write`, `Send`, `Receive`, `Read`, `waitTimeout` | one direction of an ESTABLISHED connection |
| `ByteStream` | (what the four promise) | an abstract bounded FIFO of bytes |
| `SlidingWindowInv` | | the inductive invariants of `SlidingWindow` |
| `CongestionControl` | `tcp_handler_cc.go`, `fastRetransmit`, and what depends on CWND in `Send`, `Receive`, `waitTimeout` | the writer of an ESTABLISHED connection with TCP Tahoe |
| `Handshake`, `MCHandshake` | `Connect`, `Listen`, `Accept`, `CloseListener`, three handlers of `tcp_segment_receive.go`, `WaitForAckReceiver` | clients that connect to one listener |
| `Teardown`, `MCTeardown` | `Close`, `ReceiveFin`, the other handlers of `tcp_segment_receive.go`, `WaitForClosed` | both ends of one connection from ESTABLISHED to CLOSED |
| `RIP`, `MCRIP` | `rip_handler.go`, `routing_table.go`, `DownInterface`, `UpInterface` | the routes of a network to one address |
| `Forwarding`, `MCForwarding` | `host.go`, `traceroute_handler.go`, the commands | the IP layer of a network over given tables |

`BufferProofs`, `WindowSteps`, `SlidingWindowProofs`, `CongestionProofs`,
`HandshakeProofs`, `TeardownProofs`, `RIPProofs` and `ForwardingProofs` hold the
proofs.

The models meet at their edges. `SlidingWindow` is one of the two directions of
the connection that `Handshake` ends with and `Teardown` starts from; `Teardown`
has a Send, a Write and a Read that are reduced to one segment.
`CongestionControl` uses the same `RingBuffer` and `EarlyArrivals` as
`SlidingWindow`. `Forwarding` takes for its tables what `RIP` may hold: settled
ones, and those of a network that has not settled.

### How state and actions correspond to the code

*Locks.* A critical section of `TCBLock` (or `TableLock`, `PendingConnMutex`) is
one action. Where a thread works on shared state without the lock, that section
is an action of its own; where it reads and writes a variable other threads
write, the lost update is an alternative of the action, switched on by a name in
the constant `Races`. With `Races = {}` the models say what the code does when
these races go well, and the runs and proofs with `Races = {}` say no more than
that; a run with a race shows what one bad outcome leads to.

*Scenarios.* In `Teardown` and `Handshake` what the applications do, and which
races their nodes meet, is a record that `Init` picks from the constant
`Scenarios`. One run so covers several orders of calls; the MC modules name them.

*Condition variables.* A thread in `Wait` is in a set (`asleep`) or has the value
"asleep"; a `Signal` takes it out, and it then competes for the lock again.

*Channels.* A send on an unbuffered channel is one step of both sides; a thread
that blocks on a channel with a lock held shows in the field `lock`.

*The network* is a set of packets, or has the number of copies of each: any of
them may be delivered next, any may be lost, and, where it is a set, up to a
bound, delivered and kept. A packet whose checksum fails is a lost one.

*Time.* A timer may fire whenever it is running. In `Handshake`, `Teardown` and
`RIP`, where a comparison of durations decides what happens (`RTO_UPPER`
against a round trip, 2*MSL against the life of a packet, TIMEOUT against
UPDATE_FREQ), the guard states the comparison, and a race name drops it.

### SlidingWindow

Both TCBs of one direction: `sndUNA`, `sndNXT`, `sndWND`, `sndLBW` and the send
buffer of the writer, `rcvNXT`, `rcvWND`, `rcvLBR`, the receive buffer and the
early arrival queue of the reader. `WriteCall`, `WriteTop`, `WriteWoken` are
`Write`; `SendLocked`, `SendCancel`, `SendEmit`, `SendAdvance` are the loop of
`Send`, which emits a segment and advances NXT outside the lock; `Probe` is the
zero-window goroutine, `Retransmit` and `GiveUp` are `waitTimeout`,
`ReceiveAck` and `ReceiveData` are `Receive`, `ReadSleep`, `ReadBegin` and
`ReadEnd` are `Read`. A byte's value is its sequence number, so that any
mix-up shows. Subtractions are modulo `Word`, as the code's `uint32`.

### CongestionControl

The record `tcb` has the pointers, CWND, SSTHRESH, CurrentAck, CurrentAckFreq
and the retransmission queue of the writer, and the place its `Send` is at.
`EnableCC` and `SetCCForSocket` are the unlocked and the locked half of
`SetCCForSocket`; `SendLocked` plans a burst, `SendEmit` sends one segment of
it; `Timeout` is `waitTimeout`; `ReceiveAck` is one of `FastRetransmit`, `AckOld`
and `AckNew`. The peer reads at once, so the advertised window is MAX_BUF_SIZE
and nothing probes; what it writes itself (`PeerWrites`) repeats its
acknowledgment number. Bytes are only counted, and `SendEmit` is one step: the
races of `Send` are in `SlidingWindow`.

### Handshake

One listener, its queue and its mutex, the goroutine of `acceptHelper`, and for
each connection (a client port) the client's `Connect` and the TCBs the server
makes for it. Each client is a node of its own: the command line waits for a
Connect before it reads the next command. `RTOTimeoutChan` is the field `token`:
it has two readers, as in the code. A Connect that finds no route (`ConnectError`)
also ends `ReadFromHandler`, and the next one on that node stays at its send to
the IP layer (`ConnectHangs`).

### Teardown

Two TCBs as records, with the position of each thread (`send`, `close`,
`write`, `read`, `timer`, `waiting`) as a field. A handler that has read State
but not yet taken the lock is a packet with that State in its field `at`.

### RIP

Each node has one entry, for one address, and the timers of `waitForUpdates`
for it; the code treats addresses independently. Between the test of the entry
and `AddRoute` a handler is a message of its own, told apart by its sender and its
Command (1 at the start, 2 later), so two of them may add one entry. A round is one tick of
`SendUpdatesToNeighbors` at every node; a timer ends after it has missed two.

### Forwarding

`ReadFromLinkLayer` takes a packet of `wire` at the node it has reached: it is
delivered (`Deliver`: the echo, the reply, the time exceeded message, or what
another handler takes), forwarded, or answered with time exceeded. `SendPacket`,
`Traceroute`, `TraceEcho` and `TraceHop` are the commands at one node, `Origin`;
the handlers that wait to send on `RouteChan` are counted in the variable of that
name, as the copies of a packet are in `wire` (`Put`, `Take`). `ReadRIP` and
`ReadTCP` are `ReadFromHandler`, which ends (`reader`) at a TCP message without
an entry. The tables stand still while packets travel.

## What the runs check

`tlc -config <cfg> <module>`. Passing runs:

| Run | Checks | Shows |
|---|---|---|
| `SW.cfg` (SlidingWindowInv) | `BytesInOrder`, `SegmentsFit`, `SendInWindow`, `Retransmittable`, `HighestAck`, `WholeInv`, `WindowNeverShrinks`, `ImplementsStream` | Over a network that loses, reorders and duplicates, with no data race going wrong, the four operations are a bounded FIFO of bytes. A segment that is accepted fits the buffer, what is unacknowledged can be retransmitted, and a stale acknowledgment never takes the window back. `WholeInv` is the invariant of the proofs; it implies `TypeOK`, `WindowConserved` and `ProbeAccounted`. |
| `SWLive.cfg` (SlidingWindowInv) | `AllRead`, `WriteReturns` | Every byte written is read, `Send` goes on behind it, and every Write returns, unless the retransmissions run out; this takes the zero-window probe and all the wake-ups. |
| `CC.cfg` (CongestionControl) | `TypeOK`, `BurstFits`, `ResendsTheGap`, `AllDelivered` | Whenever congestion control is switched on, once or again, with a lost packet and acknowledgments out of order, CWND keeps one segment at least, a burst fits the receiver's buffer, fast retransmit sends the segment the receiver waits for, and all is delivered unless the retransmissions run out. |
| `HS.cfg` (MCHandshake) | `TypeOK`, `AcceptedOnce`, `NothingLost`, `SamePeer`, `EstablishedStays` | Two clients connect over a network that loses and repeats packets, timeouts fire at any time, the listener may be closed: an established connection is in the queue or handed to Accept, once, and stays; a client and the TCB it talks to agree on each other. With handlers that run late only `NothingLost` holds, and `EstablishedStays` has a second exception: a token taken from a `WaitForAckReceiver` that was resending, until that has returned. |
| `HSLive.cfg` (MCHandshake) | `AllAccepted`, `ConnectEnds` | Every connection that gets established is returned by Accept, and a Connect whose SYN was handed to the IP layer returns, with a connection or an error, whatever is lost. |
| `TD.cfg` (MCTeardown) | `TypeOK`, `FinAfterData`, `EofAfterData`, `FinCompletes`, `AckedWhenReceived`, `FollowsDiagram` | Client first, server first, both at once, both at once with a byte in flight, with timeouts and with handlers that run late: the FIN follows the data; a Read sees the end only after all bytes; a FIN is taken ahead of data by `HandleFinWait1` only; what the handlers take for an acknowledgment of the FIN is one in FIN_WAIT_1 (towards FIN_WAIT_2), CLOSING and LAST_ACK; the states follow the diagram of RFC 793, except for two sets of moves that `FollowsDiagram` lists. |
| `TDLive.cfg` (MCTeardown) | `CloseNotified` | Close returns when the ends close in any order without data, or the writer closes first, although a packet is lost or repeated, unless an end gives up, has stopped retransmitting too early (`StoppedEarly`) or has its lock taken for ever (`Wedged`). |
| `RIPLine.cfg` (MCRIP) | `TypeOK`, `NeverTooGood`, `NoLoops`, `RoutesStay`, `Settles` | Two commands at any time, a lost message, late handlers, entries added twice: no route ever claims to be shorter than the network is. Until the first command or the second adding of an entry, routes have no loop and none gets worse. Unless an entry was added twice, every node of a line ends up with the shortest route over the interfaces that are up, or with none. |
| `FWD.cfg` (MCForwarding) | `TypeOK`, `PathIsRoute`, `HandlersLeft`, `TraceEnds`, `SendsArrive` | Over settled tables a packet reaches every node that has a route, also the longest one, and traceroute ends, prints the nodes that packets pass, and leaves no handler behind. Over any tables the TTL keeps a packet from travelling for ever, and the handlers left at `RouteChan` are at most one for each packet that other commands and TCP have sent. |

Three runs find what the code does against its documentation:

| Run | Shows |
|---|---|
| `SWRace.cfg` (SlidingWindowInv): `CopyLoopEnds` | A lost update of RCV.WND in the unlocked part of `Read` lets a segment in that does not fit: the copy loop of `Receive` turns for ever with TCBLock held. |
| `TDCross.cfg` (MCTeardown): `DoneWhenReceived` | Both ends close first with a byte in flight. `HandleFinWait1` takes every acknowledgment but NXT and NXT - 1 for one of the FIN, and enters TIME_WAIT, where nothing is retransmitted, with its byte not received. |
| `CCBurst.cfg` (CongestionControl): `KeepsToCwnd` | `Send` tests the window, waits for data, and CWND is closed meanwhile: the `uint32` subtraction wraps and a burst past CWND goes out. (`BurstFits`: never past the receiver's buffer.) |

### Bounds

Every bound is a constant of a module. They are the smallest with which the
cases below occur, and so does a violation by each mutated definition
(the operators with "Mutation of" in their comment).

- *SlidingWindow*: buffers of 2 bytes and 3 bytes written, so that both fill, wrap and
  reuse a slot, the window closes and is probed; segments of up to 2 bytes
  (`SW`), so that a segment may be split, overlap another one or arrive early; one
  retransmission of a segment before the connection is given up; one packet
  delivered twice. `SWLive` has segments of 1 byte and no duplicate (with one it passes, in 8
  minutes); `SWRace` one
  byte more and all races. `SWLive` ends with the byte that is probed, so no later
  byte shows that the probing ended; `AllRead` asks for NXT to move past it. A
  buffer of 1 byte would be too small for liveness: on the accepting side UNA
  starts at the SYN, which takes a slot until the first acknowledgment.
- *CongestionControl*: 3 segments of one byte, which may all be in flight, one
  packet lost and one segment from the peer: with it, the fourth acknowledgment
  of one number arrives and starts a fast retransmit. SSTHRESH starts at 3, so
  CWND passes from slow start to congestion avoidance.
- *Handshake*: two clients, two TCBs per connection (a repeated SYN makes a second
  one), one lost or repeated packet (`HSLive`: two, so that a Connect or a
  `WaitForAckReceiver` runs out of retransmissions), one call without a route. The clients are
  symmetric in `HS`; `HSLive` uses no symmetry, which would be unsound for
  liveness.
- *Teardown*: one byte in one direction, or none. `TD` has five scenarios, with
  timeouts at any time in place of losses (a retransmission beside the packet it
  repeats is what a loss or a copy leads to); `TDLive` loses or repeats a packet.
  `TDLive` leaves out the two closings that cross with a byte in flight
  (`WriteAndClose`) for its size: `CloseNotified` holds there too, in 19 minutes.
- *RIP*: three nodes in a line, INFINITY 4: a count to infinity has room for more
  than one exchange. Two commands: down and up again. `NoLoops` and `RoutesStay`
  also hold on a ring of three nodes with a lost message, both races and no
  command, in 2.4 million states.
- *Forwarding*: a line of four nodes with TTL_MAX = INFINITY = 4, so the longest
  route has one hop less than the TTL, as in the code (16 and 16); the line whole
  or cut anywhere, and all tables in which the routes to its two ends are missing,
  dead, or point to either neighbour, loops included. Two inputs.
- *Sequence numbers* start low and never reach `Word`; differences are taken modulo
  `Word`, so a negative one shows as a huge one, as in the code.

### Fairness

Goroutines run (weak fairness of each one's steps) and a running timer fires.
The application owes nothing except where a property is about it: it reads
(`SWLive`), and once it called Close, Connect or Accept the call goes on.
The network may lose what it likes up to the bound, or for ever, where
`MAX_RETRANSMISSIONS` ends the connection and the properties say so; what it
does not lose it delivers. In
`SlidingWindow`, whose network is a set without a bound on losses, strong
fairness says that a useful packet that is sent again and again is delivered at
some time. `RIP` requires only that nodes start and rounds pass. `Forwarding`
loses nothing; the commands are not fair.

CHECK_DEADLOCK is off where the system may stop: all is read, closed or
accepted, or the bound on inputs is reached.

## What is proved

For every value of the constants, from the named assumptions in the modules.

**`SlidingWindowProofs`**, from `BufferAssumption` (a buffer is not empty) and
`WindowAssumption` (a segment has at least one byte; no sequence number reaches
`Word`), each theorem also from `Races = {}`:

| Theorem | States |
|---|---|
| `Invariance`, `WholeInvariance`, `TypeCorrect` | `IndInv`, `WholeInv` and the types hold in every state |
| `InOrder` | Read returns the bytes Write was given, in order |
| `Conserved` | RCV.WND is the free space of the receive buffer |
| `Fitting` | a segment that Receive accepts fits the buffer |
| `InWindow` | NXT is between UNA and UNA + WND where Send subtracts them |
| `Probing` | the `NXT += 1` after probing accounts for the probed byte |
| `NeverShrinks` | the right edge of the send window never moves back |
| `CanRetransmit` | every byte sent and not acknowledged is in the retransmission queue, and its segment still in the send buffer (`Retransmittable`) |
| `Highest` | RCV.NXT is past every early arrival that could be merged, until the network duplicates a packet (`HighestAck`) |
| `Refinement` | Write, Send, Receive and Read implement `ByteStream` |

None of these is inductive: that Read returns the right byte depends on its slot
not having been reused, which depends on what Receive lets in, on what Send
emits, and on the window of each acknowledgment under way. `IndInv` closes the
circle: the order of the pointers of both ends (`OrderInv`) and the windows
(`WindowInv`, `AckInv`) bound what Send may emit (`QueueInv`, `SegmentInv`); that
bounds what the reader accepts (`EarlyInv`); so no slot of either buffer is
reused before its byte is acknowledged or read (`SendBufferInv`,
`ReceiveBufferInv`), and what was read is right (`GotInv`). `BufferProofs` has
the lemmas on slots, `Push` and `updateAckNum`, `WindowSteps` what follows from
the invariant alone and one lemma per action. `Refinement` maps a copy into the
send buffer to Put and the end of a Read to Take.

`CanRetransmit` and `Highest` need to know how segments divide the stream, since
`removeFromRetransmissionQueue` and `updateAckNum` drop and merge whole segments.
`WholeInv` adds `TilingInv` (the queued segments are disjoint, cover what is not
acknowledged, and no acknowledgment under way cuts one) and `AheadInv` (what is
ahead of RCV.NXT is a queued segment; without duplicates an early arrival has no
second copy in flight).

**`CongestionProofs`**, from `BufferAssumption` and `CongestionAssumption`:
`TypesHold` (`TypeOK`, with CWND of at least one segment), `BurstsFit`
(`BurstFits`) and `GapResent` (`ResendsTheGap`). The invariant, `CCInv`, is that
the segments of the retransmission queue tile what is in flight from UNA to NXT;
every segment and early arrival is one of them or older, so every acknowledgment
number is the end of one of them or old, and an accepted one cuts the queue
between two segments. Without the tiling the head of the queue might start below
UNA after a cut, and fast retransmit would send the wrong bytes.

**`HandshakeProofs`**, for every set of clients, number of TCBs, lost and repeated
packets, and set of scenarios with `OneAppends`: in a scenario with the race
`append` there is one client. Without that hypothesis `NothingLost` is false (see
below).

| Theorem | States |
|---|---|
| `HandshakeInvariance`, `HandshakeTypes` | `HSInv` and `TypeOK` hold in every state |
| `NoneLost` | an established connection is queued or accepted (`NothingLost`) |
| `ReturnedOnce` | it is returned by Accept at most once (`AcceptedOnce`) |
| `PeersAgree` | a client and the TCB it talks to agree (`SamePeer`) |
| `Stays` | an established connection stays in the table and established, with the two exceptions of `EstablishedStays` |

`HSInv` ties the packets to the TCBs they are about: a SYN|ACK names a TCB that
exists, a client that was offered one keeps to it (`PeerInv`), a connection is in
the queue only if one of its TCBs has been established, which happens once
(`OnceInv`), and `WaitForAckReceiver` waits only for the TCB of the table
(`HeldInv`), and only until it is established (`StayInv`). The last four fail when
a handler runs late (`dispatch`), and `StayInv` also when a token is taken by the
other reader (`resend`); the properties have the same exceptions.

**`TeardownProofs`**, for every number of faults and retransmissions and every
set of scenarios that is `Orderly`: of two ends that may both close first at most
one writes, and handlers run late only at an end that neither writes nor closes
first. The scenarios of all three runs are. Without the hypothesis `FinLast`,
`FinComplete`, `AckedReceived` and `AlongDiagram` are false (see below).

| Theorem | States |
|---|---|
| `TeardownInvariance`, `TeardownTypes` | `TDInv` and `TypeOK` hold in every state |
| `FinLast` | the FIN is numbered behind all data (`FinAfterData`) |
| `EofLast` | Read reports the end only after the last byte (`EofAfterData`) |
| `FinComplete` | a FIN is taken only when all before it has arrived, except by `HandleFinWait1` (`FinCompletes`) |
| `AckedReceived` | an acknowledgment taken for the one of the FIN is one, except on the way from FIN_WAIT_1 to TIME_WAIT (`AckedWhenReceived`) |
| `AlongDiagram` | a change of State is an arrow of the diagram or one of the moves listed (`FollowsDiagram`) |

`TDInv` says what an end knows by itself (`Own`), what it may conclude about the
other (`Cross`: which states imply that the peer has sent its FIN, and how far
RCV.NXT may be), what every packet under way and every queued one says about
sender and receiver (`Sent`, `QueueOf`), and which handlers may be at work
(`At`). `DoneInv` holds besides while neither end has given up: an
acknowledgment of the FIN means that the peer has everything.

**`RIPProofs`**, for every network:

| Theorem | From | States |
|---|---|---|
| `CostsAreHonest` | | no route is shorter than the distance (`NeverTooGood`), whatever is lost, late, added twice or taken down |
| `RIPTypes` | | costs, next hops, timers and messages are well-formed (`TypeOK`) |
| `RoutesHaveNoLoops` | `Calm` | following the next hops never leads round (`NoLoops`) |
| `RoutesRemain` | `Calm` | no route gets worse (`RoutesStay`) |

`CostInv` adds to `NeverTooGood` that every cost in a message is at least the
distance of its sender; `PlaceInv`, for the types, that next hops and timers name
neighbours. `Calm` is that at most one message is lost; handlers may be late and
entries added twice. Both properties speak of the time until an interface is taken
down or an entry is added twice (`Undisturbed`), and until then `CalmInv` holds: the
next hop of a route is nearer than the node itself, a message tells a cost its
sender still has or has improved on, and each timer has been refreshed, or its
refresh is under way, in every round but the one in which the message was lost: so
none runs out. An orphaned timer stays one (`OrphansStay`), so what is disturbed
stays so.

**`ForwardingProofs`**, for every set of nodes and every set of tables, from
`ForwardingAssumption`: a node's table has an entry of cost 0 for the node itself,
costs are at most INFINITY, other entries point to another node, and TTL_MAX is at
least INFINITY.

| Theorem | States |
|---|---|
| `TypeCorrect` | over any tables, loops included, packets are well-formed and have a TTL of at least 1 (`TypeOK`) |
| `Inductive` | `FWDInv` holds in every state |
| `TracesRoute` | over settled tables traceroute prints the route of the packets (`PathIsRoute`) |
| `NoHandlerWaits` | over settled tables it leaves no handler at `RouteChan` (`HandlersLeft` where the tables have settled) |

Neither of the last two is inductive: what `TraceHop` appends is whatever a handler
was given. `FWDInv` follows the one echo of a traceroute. Its TTL says at which
node of the route it is (`OnWay`), so it runs out at the node ahead, or arrives
there; the node ahead sends one answer, and nothing else is under way for the
traceroute, nor waits at `RouteChan`, until the loop takes it (`TokenInv`). That
a second answer never comes needs `FarOver`: no packet but an echo runs out of
hops, since its TTL exceeds the cost at every node it passes. `RouteInv` is the
property for a path that is not yet complete.

**Only model-checked**: liveness (`AllRead`, `WriteReturns`, `AllDelivered`,
`AllAccepted`, `ConnectEnds`, `CloseNotified`, `Settles`, `TraceEnds`,
`SendsArrive`), which the prover does not handle, and `HandlersLeft` over tables
that have not settled, which counts the elements of a bag. Every other invariant and
every action property of the runs that pass has a theorem.

## What the models show besides

Behaviour of the code that the models reproduce and that no property of the runs
above forbids, since the property says "unless", or the schedule is left out of
its run:

- *Data transfer.* A duplicated early arrival leaves an entry below RCV.NXT at the
  head of the early arrival queue, and nothing behind it is merged any more
  (`HighestAck` excludes duplicates); retransmission still gets the bytes across.
  The unlocked append of `Send` may bring acknowledged segments back into the
  retransmission queue (race `queueAppend`), and a probe tick between `NXT += 1`
  and the cancellation sends a byte nobody wrote (`lateProbe`).
- *Congestion control.* With more in flight than a window that has closed, `Send`
  turns without waiting until acknowledgments arrive.
- *Handshake.* If the last ACK is lost the client does not answer the repeated
  SYN|ACK and the server gives up. `waitTimeout` may take the token meant for
  `WaitForAckReceiver`, which then closes an established connection. Two copies of
  a SYN handled at once make two TCBs. A signal that comes while `CloseListener`
  is under way makes Accept return with the mutex held. Two handlers that append
  to PendingConnections at once lose one connection (`append`).
- *Teardown.* A FIN that `HandleFinWait1` takes ahead of data counts in RCV.NXT in
  the place of a byte, and the byte is then dropped. An early FIN takes an end from
  FIN_WAIT_1 or FIN_WAIT_2 to CLOSE_WAIT; when both ends write and both may close
  first, a Write that was waiting for the lock is accepted there, behind the own
  FIN, and `FinAfterData`, `FinCompletes` and `AckedWhenReceived` fail. A handler
  chosen by a State that has changed since may take a transition that no TCP has
  (`dispatch`; `FollowsDiagram` lists those of an end that closes second).
  ResetWaitChan is nil in a TIME_WAIT entered from FIN_WAIT_1 or CLOSING: a FIN that
  is repeated there blocks its handler with TCBLock, and Close does not return. The
  same lock is kept by a Write that finds the State changed. A Close whose FIN is
  given up is never notified. The FIN is counted in RCV.NXT, so a later Read finds
  one byte more.
- *RIP.* In a ring of more nodes the updates of one neighbour restart the timer of a
  route of equal cost over another, dead one. Two handlers that add an address
  leave a timer that nobody resets, and every TIMEOUT it sets the cost to INFINITY:
  the route flaps for ever, and `Settles` excludes it. Triggered updates carry no
  entries; the periodic ones make up for it.
- *Forwarding.* After a TCP message without an entry `ReadFromHandler` returns, the
  node sends no more, neither TCP nor RIP, and a later Connect never returns. An echo
  without a way back dereferences nil (`crashed`). Over tables with loops traceroute
  may wait for ever, take a stray time exceeded message for a hop, or leave
  HandleRoute set. Time exceeded is also sent about a time exceeded message.

## Not modelled

- *Retransmission timeout estimation* (SRTT, RTO): floating point wall-clock values.
  The models let a timer fire at any time, so nothing rests on them.
- *Headers, checksums, the test protocol*: encoding and output.
- *Sequence numbers that wrap.* The code compares them with `<` and `<=`; the models
  stay below the wrap.
- *Simultaneous open*: the branch of `HandleStateSynSent` for a SYN without an ACK
  (`tcp_segment_receive.go:122-134`). It takes two nodes that connect to each
  other's client ports; the clients of `Handshake` connect to a listener, which
  answers with SYN|ACK.
- *Both ends writing and closing first*, and late handlers at an end that closes
  first: `Teardown` has them, the runs and the proofs do not.
- *Command line, start-up, SocketIndexTable*: parsing, printing and files. The
  commands that change the protocol's state are actions of the models.
- *UDP sockets and `ListenOnPort`*: input and output; the state of an interface
  (stopped or not) is in `RIP`.
- *The network tools*: test scaffolding.
- `VShutdown(0)` and the other one-line wrappers of the socket API.
