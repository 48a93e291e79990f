# TLA+ models of CMine

CMine is the core of a Minecraft: Bedrock server: a RakNet-style protocol over
UDP, a thread pool, and a server that owns both. This directory holds TLA+
models of its core logic, TLC configurations that check them on small
instances, and proofs, checked by TLAPS, of what matters most for all
instances. Paths below are relative to `src/src/`.

## The system

| component | state | operations | interacts with | hard behaviour |
|---|---|---|---|---|
| `ReliabilityLayer`, receive path (`network/ReliabilityLayer.cpp:6-93`, driven by `Session.cpp:36-56`, `96-142`) | ACK and NACK queues, largest number seen, message indices seen, per channel the next index and the parked packets | `handleDatagram`, `handleEncapsulated`, release of parked packets, flush | called by the receive thread and by the updater under the session mutex; hands packets to the pool | loss, repetition, reordering; loops whose end depends on the data |
| `ReliabilityLayer`, send path (`144-255`) | next numbers and indices, two queues, recovery queue | `sendEncapsulated`, `sendDatagram`, ACK and NACK handling | called by pool tasks without a mutex, and by the updater with it | size limits that must agree; retransmission against late ACKs |
| `Acknowledge<T>` (`network/protocol/Acknowledge.h`) | a list of numbers | `encodePayload`, `decodePayload` | carries the queues above over the wire | runs, repeats, unsigned wrap |
| `ThreadManager` (`thread/`) | task queue, mutex, condition variable, threads, `enabled` | `addTask`, `run`, destructor | runs `Socket::receive`, `SessionManager::updateSessions` and one task per datagram | lost wakeups, shutdown |
| `Session` (`network/Session.cpp`) | mutex, state, last update, its reliability layer | `receivePacket`, `update`, `handleRawPacket`, `disconnect` | between socket, manager, layer and pool | its life against the threads that hold a pointer to it; `handleRawPacket` without a lock beside `update` and itself |
| `SessionManager` (`network/SessionManager.cpp`) | list of sessions, mutex | `createSession`, `getSession`, `closeSession` (3), `updateSessions` | receive thread and updater | lock order, erase during iteration, self-deadlock |
| `Socket` (`network/Socket.cpp`) | descriptor, future of the updater | `create`, `receive`, `close` | dispatches by packet ID | exceptions in the loop |
| `Server` (`Server.cpp`) | state, future of the receive task | `start`, `shutdown` | owns the socket, starts the pool | a start that fails half-way |
| packets (`network/protocol/`) | fields | `encodePayload`, `decodePayload` | socket and session read and write them | what is read must be what was written, also when the end is missing |
| `BinaryStream`, `PacketSerializer` | a buffer that grows, a position | `put`, reads | under every packet | sizes kept by hand; ownership of the buffer, shallow copies |
| `Logger`, `InternetAddress`, exceptions | – | – | everybody | none |

What makes each correct:

- receive path: a reliable packet is handed on at most once and, once recorded,
  not lost; ordered channels deliver in order without a gap; sequenced channels
  never go back; ACKs and NACKs tell the truth; a datagram gives the mutex back;
- send path: nothing goes out twice under two numbers, datagrams keep to the MTU,
  parts of a split packet are complete, a number names one datagram for ever, what
  the peer has not acknowledged can be sent again, unless it named the number before
  it was sent, and what is acknowledged is released;
- `Acknowledge`: the message means the list; the decoder invents nothing and
  reads a bounded amount;
- `ThreadManager`: a task that is added is started, once, in its turn; a shutdown
  ends and leaves no thread and no waiting future;
- sessions: a pointer is used only while its session lives, no threads wait in a
  circle, an address keeps its session, the updater comes round to everybody;
- handshake and pings: a client has the sessions it was promised, each overlap of
  threads costs the number of one datagram at most, a ping is answered once, in its
  turn, at last;
- packets: what is put stays, what is read is what was written, a packet without its
  end is not taken for a whole one, the size that is reckoned is the size it has;
- `Server`: the manager outlives the loops that use it, and a stop ends.

## Modules

| module | stands for |
|---|---|
| `PacketReliability` | the reliability of a packet (`protocol/PacketReliability.h`); extended by both paths |
| `ReliabilityReceive` | the receive path |
| `ReliabilitySend` | the send path |
| `Acknowledge` | encoder and decoder |
| `TaskPool` | what the pool promises (abstract) |
| `ThreadManager` | the pool, with `Server` as the program that uses it; implements `TaskPool` |
| `SessionLife` | start and stop of the server, and the life of sessions under the two kinds of mutex |
| `Connection` | from a client's first packet to its pings: the answers of the socket, and workers and updater at one session without a common lock |
| `BinaryStream` | the buffer, its growth, the values in it; no state of its own |
| `Wire` | every packet as bytes: written, cut off, read |
| `MC*` | sets of packets, calls and tasks for TLC |
| `*Proofs` | theorems about the module they are named for; `ReliabilityReceiveProofs` has the types and the numbers, `ReliabilityDeliveryProofs` extends it with delivery |

A definition marked *faulty variant* is a plausible bug in the definition that
follows it. No specification uses it: it is there so that each property can be
shown to notice the bug, by putting it in the place of the right definition.

### ReliabilityReceive

The variables keep the names of the C++ members. `pc`, `channel`, `pending` and
`handledPackets` are the position of the receive thread in `receivePacket`; while
`pc` is not `"idle"` it holds the session mutex, so `Update` (the first part of
`Session::update`) waits. One action is one round of a loop, because the purge
loop need not end. `received`, `acked`, `nacked` and `delivered` are history.
A datagram arrives with any number and any packets, so loss, repetition and
reordering need no network of their own.

What the code does that a reader might not expect, and the model keeps:

- `std::vector<uint32_t> x{MAX_ORDER_CHANNELS}` is a vector of one cell that
  holds 32. Channel 0 starts at index 32 (here `MAX_ORDER_CHANNELS`), and the
  other channels read beyond the end: each starts with any value of
  `GarbageIndex`. That the cells then behave as memory of their own is the best
  case of that undefined behaviour.
- `minOrderedIndex` starts its minimum at 0, so it yields 0 for every map.
- the message index is recorded before the packet may still be dropped.
- `decode` compares a bit of weight 16 with 1, so `hasSplit` is never set and
  `handleSplit` never called. Neither is modelled.

### ReliabilitySend

`SendEncapsulated(c)` is a call with arguments `c`; the split loop is the actions
`SendPart`, `SplitThrows` and `EndSplit`. `SendDatagram(q)` is the operator the
actions share: it takes from the front of `q` what fits and uses up a number in
any case. `lost` records the packets that are destroyed without being sent.
`i` counts modulo `Word`, as the loop's `size_t` does: after a short last part it
wraps and the next read throws, and `splitID` counts modulo `SplitWord`. The payload
of a packet is the number of its call.

An ACK or a NACK names any numbers of `Named`, as often and as late as the peer likes,
and also before a datagram has that number (`early`). The code looks each of them up
with `operator[]`, which leaves a null entry (`NullDatagram`) where there was none. The
`insert` of `ReliabilityLayer.cpp:245` leaves an entry that is there as it is, so the
datagram that gets that number is not kept, and no NACK brings it back.

### Acknowledge

`InitMessage` is a list to encode, which is then decoded; `InitWire` is any other
message. `Truncated` is the exception of a read beyond the end. The number of records
travels as a short with a sign (`AsShort`): the decoder finds no record where it is below 0.

### ThreadManager and TaskPool

`pc` is the position of each thread in `run`, `waiting` the threads in
`cv_pool.wait`, `holder` the thread that has the mutex. `mainPc` is the position
of `Server` and then of the destructor. The refinement maps `taskPool` to the
queue, the tasks of `func` to those that run, the futures to `ready` and `broken`,
and the pool is open until the destructor has cleared the queue.

### SessionLife

`at` is the position of the three threads that matter: main in `Server::start` and
`Server::shutdown`, the receiver in `Socket::receive`, the updater in
`SessionManager::updateSessions`. The pool threads that are left run
`handleRawPacket`; each has its `job`, or none. `sessions` is the list of the manager,
as places in memory: `index` is the updater's iterator in it, `target` the session
the updater is in, `packet.found` the pointer that `getSession` returned. Steps end
where a lock is taken or given back, or a pointer is passed on.

| definitions | code |
|---|---|
| `Start` ... `Exit` | `Server.cpp:16-81`, `Socket.cpp:20-78` and `211-225`, `ThreadManager.cpp:15-29` |
| `UpdaterCheck` ... `UpdaterMisuses` | `SessionManager.cpp:83-98` with `Session.cpp:36-68` |
| `ReceiverCheck` ... `ReceiverSpins` | `Socket.cpp:80-193` with `createSession`, `getSession`, `closeSession(const Session*)`, `Session::receivePacket` |
| `WorkerTakes` ... `WorkerReturns` | the task of `Session.cpp:138-142` and `handleRawPacket` |

What the code does that a reader might not expect, and the model keeps:

- A place may be used again by the next session. `born`, which the program does
  not have, tells the two apart. A step that uses a destroyed session is
  undefined: the process ends, nothing comes of it, or it acts on the session
  that is in the place now.
- `closeSession(const Session*)` takes no lock. While the updater holds the mutex,
  the erase is a race on the list, and may end the process too. If it does not, the
  places behind the erased one move up under the updater's iterator. `shifted` records
  that this happened at a place the round had reached; the list of the round is then not
  what the updater takes it for (`RoundOnList`).
- A session that times out closes itself by address, which locks the mutex that
  `updateSessions` holds: the updater waits for itself (`"lock again"`) and has no
  step from there. `SessionManager::mutex` is a `std::mutex`, for which this is
  undefined; waiting for ever is what the builds do.
- `readAddress` throws `std::runtime_error`, which the receive loop does not catch:
  its task ends (`"failed"`), and so does the process when `shutdown` asks for its
  result. The same happens when `Socket::create` has failed (`GetThrows`).
- `"purge for ever"` is the loop of `DrainReachesGap`, with the session mutex held.
- A second request creates a session even if its address has one; `getSession` finds
  the first.

What becomes of packets inside a session is left out: `ReceivePacket` adds a task or
none, `UpdaterSends` changes nothing here. Time passes for any live session at any
moment, and a received packet sets it back.

### Connection

Where `SessionLife` has the locks, this module has what the threads do with what they
hold. The receiver's work on a packet is one step, with the reply it sends; a worker
runs `handleRawPacket` packet by packet; the updater is in `Session::update`. The n-th
session that was created is `session[n]`, and `sessions` lists those that live.

| definitions | code |
|---|---|
| `PingArrives` ... `DatagramArrives` | `Socket.cpp:92-187`, with `createSession`, `getSession`, `closeSession` |
| `WorkerTakes` ... `WorkerReturns` | `Session.cpp:138-142` and `148-206` |
| `AcceptBegins`, `AcceptEnds` | `sendDatagram`, cut between the load and the store of `sendSequenceNumber` |
| `FlushBegins`, `FlushEnds` | `Session.cpp:57-61`, cut at the same place |
| `UpdaterTimesOut` | `Session.cpp:38-39` and `64-68`, with `SessionManager.cpp:53-54` |
| `ReceiverSpins` | `Session.cpp:123-135`, the loop of `DrainReachesGap` |
| `Stop` | `Server.cpp:49-57`, where the module ends |

What the code does that a reader might not expect, and the model keeps:

- The lock of `handleRawPacket` is commented out (`Session.cpp:164`). The increment of
  `sendSequenceNumber` is a load and a store, and others may come between; two
  `push_back` at once may lose one of the packets (`PingsCollide`). `raced` records the
  sessions where that has happened, and `overlaps` counts how often a thread loaded
  the number of a session while another had yet to store the next one. A broken
  container is `"undefined"`.
- The loops come to a halt as in `SessionLife`: the updater waits for itself in a session
  that has timed out (`timedOut`), the receiver keeps the mutex of the session that it
  purges for ever (`purging`). What needs those mutexes stops, and the workers go on.
- The receiver may close a session on a DISCONNECT while the updater goes along the
  list; the process may end of that.
- `createSession` throws what its own handler does not catch: `operator<<` of a
  `SocketException` yields its base class. So a refused MTU gets no reply, by accident.
- `update` sends one datagram and clears the queue. The pongs that did not fit are
  lost, and so are those a worker adds meanwhile.
- A packet whose `decode` throws ends the task, and the rest of its datagram is
  `dropped`, acknowledged as it is.
- An empty packet is handled as whatever byte lies behind its array.
- An immediate send destroys its packet twice, which may end the process (`AcceptEnds`).

What is left out: a packet that makes the receive loop throw and changes nothing, and
how the loops and the sessions end after a stop, which is in `SessionLife`.
An immediate send does not fail for its size: 96 bytes fit any MTU from 576 on.

### BinaryStream and Wire

A stream is a record of its members. `Put(s, data)` is `put`, and `putByte` for one
byte: it moves the contents to a larger array when they do not fit. `Wire` writes
a message call by call, lets any end of it be missing, and reads it field by field
or packet by packet. Each simple packet is a `Layout`: the fields `encodePayload` writes
and those `decodePayload` reads, which differ for `OpenConnectionRequest1` (padding
against MTU) and `ConnectionRequestAccepted`. A value of 64 bits is the sequence of
its bytes. `Header`, `PacketIn` and `GetLength` are `encode`, `decode` and `getLength` of
`EncapsulatedPacket`, three functions that must agree about one layout.

What the code does that a reader might not expect, and the model keeps:

- Indices count modulo `0xF000000` and travel modulo 2^24.
- `decode` never sees the split flag, so the split header of a part is taken for its
  payload, and what follows in the datagram is read from a wrong place.
- `readMagic` moves the position without looking, so a packet that ends within the
  magic is noticed by the next read only.
- The bytes of an address are read by the operands of one expression, in an order
  the language leaves open: `ReadOrder` has those a build may choose.

## Runs

| run | config | asks |
|---|---|---|
| `receive_numbers` | `ReceiveNumbers` | `NumbersExact` (no false NACK, gaps reported, ACKs complete), `NackedOnce`; with fairness `AckedOnceQuiet`, `MutexReleased` |
| `receive_packets` | `ReceivePackets` | `TypeOK`, `ReliableOnce`, `OrderedContiguous`, `RecordedNotLost`, `SequencedIncreasing` |
| `receive_drain` | `ReceiveDrain` | violated: `DrainReachesGap` |
| `ack_messages` | `AcknowledgeMessages` | `RecordsExact`, `NothingInvented`, `DecodeBounded` |
| `ack_round_trip` | `AcknowledgeRoundTrip` | violated: `AllDecoded` |
| `send_packets` | `SendPackets` | `TypeOK`, `SentOnce`, `PartsComplete`, `LossesKnown` |
| `send_recovery` | `SendRecovery` | `NumberNamesDatagram`, `RecoveryExact` |
| `send_parts` | `SendParts` | violated: `PartsFit` |
| `pool` | `Pool` | `TypeOK`, `NoLostWakeup`, `PoolSpec`; with fairness `TaskStarts`, `Stops` |
| `session_life` | `SessionLife` | `TypeOK`, `PointerStaysGood`, `RoundOnList`, `NoCircle`, `RouteStable`; with fairness `StopEnds`, `UpdatedAgain` |
| `connection` | `Connection` | `TypeOK`, `SessionsAsReplied`, `CollisionsBounded`, `PongsAccounted`, `PongsInOrder`; with fairness `PingAnswered` |
| `wire` | `Wire` | `PutsKept`, `LengthExact`, `ReadsAsSent`, `CutNoticed` |

The properties of `Connection` say what holds although the lock is missing.
`CollisionsBounded` counts what the overlaps cost (`overlaps`). Those about pongs name the
circumstance in which they do not hold (`raced`, `together`, `crowded`, `dropped`), and
`PingAnswered` also a halt, a stop and the end of the process: nothing else among the
steps this module has breaks them.

Deadlock is not checked where a run may really stop: a decoded message, calls and
acknowledgements that are used up, a server that has exited, crashed or hangs.

The runs that are violated show where the code departs from its comments:

- `DrainReachesGap` ("until we reach the next gap", `Session.cpp:126`): one ordered
  packet that comes early, on a channel that waits for an index above 0, keeps
  the receive thread in `while (minOrderedIndex(i) < ...) erase(...)` for ever.
- `AllDecoded` ("Record type range", `Acknowledge.h:56`): the decoder leaves out the
  last number of every run.
- `PartsFit` (`ReliabilityLayer.cpp:167`): a part with the longest header does not
  pass the test of `sendDatagram` and is destroyed, its indices used up.

### Bounds, and why they are enough

- `ReceiveNumbers`: numbers 0 to 3. A gap of two numbers, a late datagram inside
  it, a repeated one and an update before or after each fit; the proofs cover
  the rest. Two packets are delivered, so that datagrams with and without
  packets, and several datagrams one after the other, occur.
- `ReceivePackets`: nine packets of all kinds on two channels. Channel 0 waits
  for index 2, so index 1 is old, 2 is due, 3 and 4 are early; two packets to a
  datagram and three deliveries allow early, due, late and repeated in any
  order. Only one number, as numbers and packets do not interact in the code.
- `AcknowledgeMessages`: all sorted lists of up to 5 numbers from 0 to 6 (two gaps,
  runs, repeats), ranges of at most 3; all messages of up to 2 arbitrary records.
  `MaxRange` 3 stands for 512 and `Word` 16 for 2^32: only their order matters,
  and the proofs hold for any. `CountWord` 8 stands for 2^16, so that the count of the
  four ranges of 0, 2, 4, 6 arrives below 0.
- `SendPackets`: MTU 64, so that a part has 4 bytes and a datagram room for three
  small packets or one large one. Three calls fill a queue, overflow it and split
  packets of two parts with a full or a short last one. `SplitWord` 2 stands for 2^16:
  the third split packet gets the ID of the first.
- `SendRecovery`: three calls, up to six datagrams, ACKs and NACKs of one or two of
  the numbers 0 to 3 each: numbers in use, released ones, and ones that a later
  datagram gets.
- `Pool`: three threads, two long tasks and two others: the long ones leave one
  thread, so tasks queue up behind each other. One spurious wakeup.
- `SessionLife`: two addresses and two places, so that an address has two sessions,
  two addresses one each, and a place is used again; three packets, so that a
  session is created, used and closed, or two created, while the loops go round
  and a task of the first waits. One worker: `Connection` has two. Sizes around both
  limits of the MTU. The proofs cover any number of each.
- `Connection`: two clients, two workers as in the code, three packets: a session, and
  two datagrams that are handled at once; or two sessions of one address, or one
  that is closed while its datagram waits. `Room` 1 stands for the 26 pongs that fit
  the smallest MTU, so that two pings crowd a datagram. Two requests in a datagram, so
  that a late store sets the number back below one that is in use. One refused MTU,
  above the limit.
- `Wire`: each simple packet once, with values whose bytes differ, an address of another
  version, and every datagram of one packet, or of one and one of two others; all
  reliabilities, indices of 25 bits, an empty packet, one whose length takes
  two bytes, and a part. Each is cut off at every place.
- Numbers are natural numbers. The 24-bit wrap of datagram numbers and message
  indices is not reached by the state machines; `Wire` has it as a conversion.

### Fairness

- `FairSpec` of `ReliabilityReceive`: the receive thread goes on while it holds the
  mutex, and the updater comes round in its loop. Weak fairness of the updater
  is enough for `AckedOnceQuiet`, whose premise is that the peer is quiet and the
  mutex free; no fairness of the mutex is assumed.
- `FairSpec` of `ThreadManager`: each thread is scheduled, a task that need not go
  on returns, and main goes on once it is told to stop. Nobody is bound to add a
  task or to shut down. Weak fairness of a thread covers its `Lock` because
  holders of the pool mutex give it back and are finitely many in a behaviour
  with finitely many tasks.
- `FairSpec` of `SessionLife`: main goes on except at the console, both loops run and
  tasks return. Weak fairness is all: no order of locks is assumed, and the
  receiver may lose every race against the updater. Nobody is bound to send or
  to type `stop`. What the properties exclude by name (`Hangs`, a process that is
  not running) is the timeout, the purge loop and the ends above.
- `FairSpec` of `Connection` assumes of the threads what the other modules show: workers
  go on (`TaskStarts` of `ThreadManager`, weak fairness), and the updater comes to every
  session again and again (`UpdatedAgain` of `SessionLife`, hence strong fairness of
  `FlushBegins`, which waits while the updater is elsewhere). `UpdatedAgain` excepts a
  timeout, the purge loop, a stop and the end of the process, so the fairness of
  `FlushBegins` ends with each of them (`Hangs`, `process`), and `PingAnswered` excepts
  the same. Nobody is bound to send.
- `Stops` of `ThreadManager` rests on long tasks that return once they are told to. Those
  of a server that hangs do not, as `StopEnds` of `SessionLife` says.
- Undefined behaviour in the code (double ownership of packets, shallow copies of
  buffers) may end the process. Safety holds of every prefix; the liveness
  properties speak of a process that survives.

## Proofs

| theorem | module | says |
|---|---|---|
| `TypeCorrect`, `NumbersCorrect`, `NacksOnce` | `ReliabilityReceiveProofs` | `TypeOK`; `NumbersExact`; `NackedOnce` |
| `ReliableDeliveredOnce`, `OrderedDelivery`, `SequencedDelivery`, `NoRecordedLoss` | `ReliabilityDeliveryProofs` | the four delivery properties |
| `EncoderExact`, `DecoderSound`, `DecoderBounded` | `AcknowledgeProofs` | the three properties of messages |
| `TypeCorrect`, `NumbersUnique`, `RecoveryKept` | `ReliabilitySendProofs` | `TypeOK` and the recovery queue |
| `NothingSentTwice`, `PartsAreComplete`, `LossesAreKnown` | `ReliabilitySendProofs` | `SentOnce`; `PartsComplete`; `LossesKnown` |
| `TypeCorrect`, `WakeupsKept`, `ImplementsPool` | `ThreadManagerProofs` | `TypeOK`; `NoLostWakeup`; `PoolSpec`, the refinement of `TaskPool` |
| `TypeCorrect`, `PointersGood`, `RoundsOnList`, `LoopsServed`, `NoCircularWait`, `RouteKept` | `SessionLifeProofs` | every safety property of `SessionLife`; `LoopsOutlived`, which no run lists, since `RoundOnList` says as much of the updater and more |
| `TypeCorrect`, `CollisionsAreBounded` | `ConnectionProofs` | `TypeOK`; `CollisionsBounded` |
| `PongsAreAccounted`, `PongsLeaveInOrder`, `SessionsAreAsReplied` | `ConnectionProofs` | `PongsAccounted`; `PongsInOrder`; `SessionsAsReplied` |
| `PutsStay`, `LengthsAreExact` | `WireProofs` | `PutsKept`; `LengthExact` |
| `FieldsAreAsSent`, `CutsAreNoticed` | `WireProofs` | `ReadsAsSent`; `CutNoticed` |

Assumptions are the ASSUMEs of the modules. The ones with content: a message
index names one packet of the peer, channel `MAX_ORDER_CHANNELS` itself is not
used (it passes the range check and indexes past the end), the MTU is above 60
(the manager accepts no less), the word is wider than the values that are
subtracted in it, and the members of what is encoded have their C++ types: a
payload has the packet's length (every packet that is sent takes its length from its
buffer) and less than 8192 bytes (the manager accepts no MTU above 1500,
`SessionManager.h:16`), so that its length in bits fits the 16 bits it travels in.
An order of evaluation takes each byte of an address once. All packets, calls, bounds and
garbage values are arbitrary.

The arguments:

- numbers (`NumberInv`): every number in a queue or history lies below or at the
  largest number seen, and the NACK queue, the received and the numbers asked
  for are disjoint or cover as stated. `NackedOnce` needs that what was asked
  for lies below the largest number, for a gap is opened only above it.
- once (`OnceInv`): an accepted reliable packet has its index recorded, and a parked
  packet is recorded and not among the accepted. Without the parked packets the
  property is not inductive: the release accepts without a look at the record.
- order (`OrderedInv`): the accepted places of a channel lie below the index it
  waits for, and between the first of them and that index none is missing. A
  release takes the index that is due, and no other.
- sequenced (`SequencedInv`): what was accepted lies below the next index.
- loss (`LossInv`): channel 0 has accepted every place from its first index to the one
  it waits for, so a place the code drops as old, or purges, is an accepted one.
- encoder (`ScanInv`, `EncodeInv`): the closed records and the open run hold the
  numbers looked at, and the open run lies beyond the records. The decoder
  (`DecodeInv`, `BoundInv`): what is read lies in the records, at most `MaxRange` for
  each; the clamp lemma shows when the wrapping subtraction compares as meant.
- recovery (`RecoveryInv`): what the queue holds is on the wire under that number, and the
  numbers of what is on the wire lie below the next one. From the next number on, the
  queue has entries exactly where the peer named the number before, so `insert` finds a
  free place unless it did. The peer names any numbers.
- one way (`OnceInv`): a packet is new, then waits in one queue, then is on the wire or
  given up, and what a call has yet to make is none of these. The part numbers below
  `partIndex` tell the parts of the call in hand from the ones it still makes.
- parts (`PartsInv`): while a packet is split, the parts below `partIndex` exist, no two
  with the same number or message index, and the counter is the length less
  `partIndex` parts, until the last short part makes it wrap. So at the end there are as
  many as each of them says, whether the loop ends or the read throws. IDs count modulo
  `SplitWord`: `Lapsed` says how far the count has come since a part got its ID, and the
  same ID comes back only after a whole round.
- losses: `normalQueue` always fits a datagram (`FullQueueFits`, inductive, as a packet is
  added only when the sum stays below the limit), any part of a queue that fits does,
  and a packet alone fits unless it is a part with an order. The length of a
  queue is a recursive function, `PacketsLength`; that such a function exists for every queue,
  and that queues that agree have the same sums, is proved from the least natural
  number for which it fails.
- pool (`IInv` of `ThreadManagerProofs`): a thread that goes to wait holds the mutex, so the
  queue is still empty (`DozeInv`); `MainInv` says how far the destructor is, and
  `TaskInv` that a task is in one place, its future pending. `NoLostWakeup` counts: while a
  thread waits there are at least as many threads on their way as tasks; `addTask` adds one to
  both, and a thread that takes a task leaves both. The refinement maps `addTask` to
  `Add`, the front of the queue taken to `Start`, the return of a task to `Finish`, the
  destructor's clearing to `Close`, all else to a stutter. That no more than
  `ThreadCount` tasks run follows as the threads that are busy map onto them.
- sessions (`IInv` of `SessionLifeProofs`): `PointerStaysGood` is not inductive alone. Only
  `DestroyManager` and the receiver itself take sessions off the list, and main
  destroys the manager only when the receiver has ended, which `Phases` (how far
  the loops are at each place of main) carries. `LoopsOutlived` follows from `Phases`.
  `RoundOnList` is inductive with the types and with `InOrder`, that a round begins at
  the first session: a session that is created comes behind the iterator, and one that is
  erased behind it leaves what the round has reached (`RoundStep`).
  `LocksOK`, in the type invariant, ties each mutex to the places where a thread holds
  it; so the receiver waits for the updater only, and the updater never for a
  receiver that waits (`NoCircle`). `RouteStable` rests on two lemmas on the first
  session of an address: appending leaves it the first, and erasing another moves
  it by at most one place.

- numbers without a lock (`CollisionsInv` of `ConnectionProofs`): the numbers below the one
  that is stored are in use, and so are those below every one a thread has loaded, so a
  late store never sets the counter to more than one above a used number. The datagrams
  that are out, and the threads on their way to one, less one, are at most as many as
  the number and the overlaps (`Within`); a thread that loads while others have yet to
  store adds itself to one side and an overlap to the other. Counting the numbers in
  use gives `CollisionsBounded`. Workers have to be finitely many for this.
- numbers without an overlap (`NInv`): of a session where no thread got in another's way,
  whoever has loaded the number has the one that is stored (`Loaded`), and is alone with
  it (`Alone`); every number that was sent lies below it (`SentBelow`). `PongsInOrder`
  rests on this.
- pongs (`PInv`): a packet is with the tasks, with one worker, or used up, and what is used
  up waits, was sent or was lost, once (`TasksInv`, `JobsInv`, `QueuesInv`). For
  `PongsInOrder`, `OrderInv` orders what a session has sent, what its datagram in the making
  holds, what waits, and what its workers have left: each lies before the next.
  The numbers of the datagrams rise by `SentBelow`, so the theorem rests on `NInv`.
- sessions as replied (`RepliesInv`): the replies to an address that promise a session
  are appended to, and the sessions of an address appended to or taken from the
  front, as the erased session is the first that the address matches. No address
  has closed more than it was promised. `Selected` and its lemmas are about
  any sequence: what appending to it and taking from it does to the selection.
- streams (`PutAppends`): the array a `put` makes begins with the old contents and the data,
  and one that is large enough keeps what lies before the size. This is an
  argument about the members alone; it holds for data of any length.

- what was put (`WritingInv`): the calls of `put` so far spell the bytes that were written,
  `Spells` saying of any sequence of pieces that it covers the bytes without a hole. When all
  calls are done, so do the fields, or the packets, of the message. Where each piece begins
  is `Offsets`; `HeaderIs` finds the places of the parts of a header, for each reliability
  and for parts of split packets, and with them that `getLength` counts them.
- what is read (`ReadingInv`): what arrived is the beginning of what was written (`Arrived`);
  after some fields or packets the reader stands at the place of the next, and has got
  the values that were sent (`FieldsRead`, `DatagramRead`). `ReadsAsSent` alone is not
  inductive: without the place nothing is known of the next read. Each step rests
  on a lemma that reading undoes writing: `FieldBack` for every kind of field (64 bits as 8
  bytes, addresses in any order of evaluation), `PacketReads` for `decode` against `encode`.
  A part of a split packet ends what is claimed of a datagram (`Broken`).
- what was cut: a reader that has got every field stands at the end of the last one, which
  is the end of the message, and that last read looked whether its bytes are there. This
  needs that no layout ends with the magic, whose read does not look. A datagram is read
  while there are bytes, so a whole one to the end of its last packet.

Nothing here is proved by induction over data, which is out of the prover's reach: that offsets
and sums exist for every sequence follows from the least natural number for which they would
not, and a reader moves one piece at each step of the specification.

Model-checked only: liveness (`AckedOnceQuiet`, `MutexReleased`, `TaskStarts`, `Stops`,
`StopEnds`, `UpdatedAgain`, `PingAnswered`), which is out of the prover's reach with the ENABLED
of its fairness.

## Not modelled

- `handleSplit`: never reached, as `decode` never sets `hasSplit`.
- A packet on channel 32: no outcome can be described.
- Who owns a buffer. A copy of a `BinaryStream` shares its array and both delete it, and
  `sendDatagram(EncapsulatedPacket*)` deletes its caller's packet. What follows is up to the
  allocator; `Connection` has the end of the process as an outcome, the other models take
  every prefix of such a run.
- `LENDIAN`, which only `changeEndian` sets, and nobody calls that.
- The overloads of `closeSession` and `getSession` by GUID, which have no caller.
- The wraps of counters at `0xF000000`, which no small instance reaches.
- `InternetAddress`, the exception classes and `Logger`: values and output.
- `recvfrom`, `sendto` and `bind`; the build.

The sender and the receiver are not joined to one channel: the repository has no client,
so a session's peer is another program. The receive path meets any datagrams, and the
send path ACKs and NACKs of any numbers, within the bounds above where TLC checks them.

## Plan

Done, in this order: `ReliabilityReceive`, `Acknowledge`, `ReliabilitySend`, `TaskPool` and
`ThreadManager`, `SessionLife`, `BinaryStream`, `Wire` and `Connection`, each with its proofs: every
safety property of a run that passes is a theorem. What only TLC shows is liveness, and the three
runs that are violated. A next step would be what their fairness rests on: that the
fairness `Connection` assumes of its workers and updater follows from the other modules
is argued in this text, not in one model.
