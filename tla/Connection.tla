------------------------------ MODULE Connection ------------------------------
(***************************************************************************)
(* From the first packet of a client to its pings: what Socket::receive    *)
(* answers itself, the sessions that OPEN_CONNECTION_REQUEST_2 makes, and  *)
(* what the pool threads in Session::handleRawPacket and the updater in    *)
(* Session::update do with the same session.                               *)
(*                                                                         *)
(* The workers hold no lock.  They share with the updater updateQueue and  *)
(* sendSequenceNumber, whose increment is a load and a store.  Where       *)
(* threads get in each other's way the steps below show updates that are   *)
(* lost; the containers may break as well, which is the process becoming   *)
(* "undefined".  So is every use of a destroyed session, which SessionLife *)
(* looks into, and the end of each immediate send, which destroys its      *)
(* packet twice.                                                           *)
(*                                                                         *)
(* The updater may come to a halt in a session that times out, and the     *)
(* receiver in the purge loop; the server may be told to stop, and the     *)
(* module ends there: how the loops and the sessions end is in SessionLife.*)
(*                                                                         *)
(* The receiver's work on a packet is one step: SessionLife has its locks, *)
(* ReliabilityReceive what the reliability layer refuses, ReliabilitySend  *)
(* the ACKs and NACKs.  A packet that is too short, or from an address     *)
(* without a session, makes it throw; nothing changes, and it is left out. *)
(***************************************************************************)
EXTENDS Integers, Sequences, FiniteSets, SequencesExt

CONSTANTS
  Address,      \* the addresses of the clients
  Worker,       \* pool threads that run the tasks of sessions (2 in the code)
  MTUs,         \* the MTUs that clients ask for
  Sizes,        \* the sizes of first requests
  MIN_MTU_SIZE, MAX_MTU_SIZE,
  Room,         \* the pongs that fit into a datagram: 26 with the smallest MTU
  Contents,     \* what is in a datagram, as sequences of kinds of packets
  MaxArrivals   \* bound on the packets that arrive

\* A short packet is one that its decode finds too short, and an empty one has
\* no byte at all.
Kind == {"request", "incoming", "ping", "pong", "other", "short", "empty"}

ASSUME ConnectionAssumption ==
  /\ IsFiniteSet(Worker)
  /\ MTUs \subseteq Nat /\ Sizes \subseteq Nat
  /\ MIN_MTU_SIZE \in Nat /\ MAX_MTU_SIZE \in Nat
  /\ Room \in Nat \ {0}
  /\ Contents \subseteq Seq(Kind) \ {<<>>}
  /\ MaxArrivals \in Nat

VARIABLES
  process,   \* running, stopping, or undefined from here on
  sessions,  \* SessionManager::sessions: the numbers of those that live
  session,   \* the n-th session that was created
  tasks,     \* the queue of the pool
  job,       \* what each worker is at
  flush,     \* what Session::update is at
  timedOut,  \* the updater waits for itself in a session that has timed out
  purging,   \* the session whose queue the receiver purges without an end
  (* history *)
  arrived,   \* packets so far
  replies,   \* what Socket::receive has answered to each address
  closed,    \* the sessions of each address that a DISCONNECT has closed
  wire,      \* datagrams sent
  lost,      \* pongs that update has thrown away
  dropped,   \* packets behind one whose decode has thrown
  raced,     \* sessions in which a thread got in the way of another
  overlaps,  \* how often a thread began to send in the n-th session while
             \* another had yet to store the next number
  together,  \* sessions of which two datagrams were handled at once
  crowded    \* sessions in which more pongs waited than a datagram holds

poolVars == <<tasks, job>>
sentVars == <<wire, lost>>
receiverVars == <<arrived, replies, closed>>
overlapVars == <<raced, overlaps, together, crowded>>
haltVars == <<timedOut, purging>>
vars == <<process, sessions, session, poolVars, flush, haltVars, receiverVars,
          sentVars, dropped, overlapVars>>

NoNumber == -1
NoSession == 0
NoJob == [session |-> NoSession, packets |-> <<>>, number |-> NoNumber]
NoFlush == [session |-> NoSession, packets |-> <<>>, number |-> NoNumber]

Init ==
  /\ process = "running"
  /\ sessions = <<>> /\ session = <<>>
  /\ tasks = <<>> /\ job = [w \in Worker |-> NoJob] /\ flush = NoFlush
  /\ timedOut = FALSE /\ purging = NoSession
  /\ arrived = 0
  /\ replies = [a \in Address |-> <<>>] /\ closed = [a \in Address |-> 0]
  /\ wire = {} /\ lost = {} /\ dropped = {}
  /\ raced = {} /\ overlaps = <<>> /\ together = {} /\ crowded = {}

Live == ToSet(sessions)

\* getSession finds the k-th session of the list for the address a.
Finds(a, k) ==
  /\ session[sessions[k]].address = a
  /\ \A j \in 1 .. k - 1 : session[sessions[j]].address # a

-----------------------------------------------------------------------------
(* The receiver: Socket::receive *)

Arrives == arrived < MaxArrivals /\ arrived' = arrived + 1  \* bound of the model

Reply(a, packet) == replies' = [replies EXCEPT ![a] = Append(@, packet)]

\* UNCONNECTED_PING, with open connections or not; there is no difference.
PingArrives(a) ==
  /\ Arrives
  /\ Reply(a, [name |-> "UnconnectedPong"])
  /\ UNCHANGED <<process, sessions, session, poolVars, flush, haltVars, closed, sentVars,
                 dropped, overlapVars>>

\* OpenConnectionRequest1's MTU is the size of the request less its fields.
OfferedMTU(size) == (size - 18) + 46

\* OPEN_CONNECTION_REQUEST_1 of this protocol version, or of another.
Request1Arrives(a) ==
  /\ Arrives
  /\ \/ \E size \in Sizes :
          Reply(a, [name |-> "OpenConnectionReply1", MTU |-> OfferedMTU(size)])
     \/ Reply(a, [name |-> "IncompatibleProtocol"])
  /\ UNCHANGED <<process, sessions, session, poolVars, flush, haltVars, closed, sentVars,
                 dropped, overlapVars>>

\* Faulty variant: the upper limit is not checked.
GoodMTUBelow(mtu) == mtu >= MIN_MTU_SIZE

GoodMTU(mtu) == mtu \in MIN_MTU_SIZE .. MAX_MTU_SIZE

\* Faulty variant: createSession catches what it throws.
CaughtInside(mtu) == FALSE

\* createSession throws an Exception, which its handler of SocketExceptions
\* lets pass; the receive loop catches it.
Escapes(mtu) == ~GoodMTU(mtu)

PutLast(s) == Append(sessions, s)

NewSession(a, mtu) ==
  [address |-> a, MTU |-> mtu, state |-> "CONNECTING",
   sendSequenceNumber |-> 0, updateQueue |-> <<>>]

\* OPEN_CONNECTION_REQUEST_2, the answer to which is sent last.
Request2Arrives(a, mtu) ==
  /\ Arrives
  /\ IF GoodMTU(mtu)
     THEN /\ flush = NoFlush  \* or else the updater has the mutex of the manager
          /\ session' = Append(session, NewSession(a, mtu))
          /\ ~timedOut
          /\ sessions' = PutLast(Len(session) + 1)
          /\ overlaps' = Append(overlaps, 0)
     ELSE UNCHANGED <<session, sessions, overlaps>>
  /\ IF Escapes(mtu) THEN UNCHANGED replies
     ELSE Reply(a, [name |-> "OpenConnectionReply2", MTU |-> mtu])
  /\ UNCHANGED <<process, poolVars, flush, haltVars, closed, sentVars, dropped,
                 raced, together, crowded>>

\* DISCONNECT closes the first session of its sender.  It needs no lock for that,
\* and has looked the session up before the updater took the mutex of the manager,
\* if it has that; then the updater may follow its iterator to nowhere.
DisconnectArrives(a) ==
  /\ Arrives
  /\ \E k \in 1 .. Len(sessions) : Finds(a, k) /\ sessions' = RemoveAt(sessions, k)
  /\ closed' = [closed EXCEPT ![a] = @ + 1]
  /\ process' \in {"running", "undefined"}
  /\ UNCHANGED <<session, poolVars, flush, haltVars, replies, sentVars, dropped,
                 overlapVars>>

\* Packets are told apart by the datagram they come with and their place in it.
PacketsOf(kinds) ==
  [k \in DOMAIN kinds |-> [kind |-> kinds[k], id |-> <<arrived, k>>]]

\* A datagram, with the packets that the reliability layer leaves in it.
DatagramArrives(a, kinds) ==
  /\ Arrives
  /\ flush = NoFlush /\ ~timedOut  \* or else the updater has the mutexes
  /\ \E k \in 1 .. Len(sessions) :
       /\ Finds(a, k)
       /\ tasks' = Append(tasks, [session |-> sessions[k], packets |-> PacketsOf(kinds)])
  /\ UNCHANGED <<process, sessions, session, job, flush, haltVars, replies, closed,
                 sentVars, dropped, overlapVars>>

\* A datagram that the purge loop of receivePacket never gets done with
\* (ReliabilityReceive, Spin); the receiver keeps the mutex of the session.
ReceiverSpins(a) ==
  /\ Arrives
  /\ flush = NoFlush /\ ~timedOut
  /\ \E k \in 1 .. Len(sessions) : Finds(a, k) /\ purging' = sessions[k]
  /\ UNCHANGED <<process, sessions, session, poolVars, flush, timedOut, replies,
                 closed, sentVars, dropped, overlapVars>>

Receive(a) ==
  \/ PingArrives(a) \/ Request1Arrives(a) \/ DisconnectArrives(a)
  \/ \E mtu \in MTUs : Request2Arrives(a, mtu)
  \/ \E kinds \in Contents : DatagramArrives(a, kinds)
  \/ ReceiverSpins(a)

-----------------------------------------------------------------------------
(* The workers: handleRawPacket *)

\* Faulty variant: the queue is taken from its end.
LastPlace == Len(tasks)

FirstPlace == 1

WorkerTakes(w) ==
  /\ job[w] = NoJob /\ tasks # <<>>
  /\ LET task == tasks[FirstPlace]
     IN  /\ job' = [job EXCEPT ![w] = [session |-> task.session,
                      packets |-> task.packets, number |-> NoNumber]]
         /\ together' = together \cup
              {s \in {task.session} : \E v \in Worker : job[v].session = s}
  /\ tasks' = RemoveAt(tasks, FirstPlace)
  /\ UNCHANGED <<process, sessions, session, flush, haltVars, receiverVars, sentVars,
                 dropped, raced, overlaps, crowded>>

\* Worker w is at a packet of one of the kinds.
IsAt(w, kinds) == job[w].packets # <<>> /\ Head(job[w].packets).kind \in kinds

\* So it is, and the session is alive.
IsIn(w, s, kinds) == IsAt(w, kinds) /\ job[w].session = s /\ s \in Live

\* Faulty variant: one packet of each datagram is handled.
DoneWithDatagram(w) == job' = [job EXCEPT ![w] = NoJob]

\* Faulty variant: the next packet is sent with the number that was loaded.
NumberKept(j) == [j EXCEPT !.packets = Tail(@)]

AfterPacket(j) == [j EXCEPT !.packets = Tail(@), !.number = NoNumber]

Done(w) == job' = [job EXCEPT ![w] = AfterPacket(@)]

\* A thread is between the load and the store of the session's number.
IsSending(s) ==
  flush.session = s \/ \E w \in Worker : job[w].session = s /\ job[w].number # NoNumber

\* A thread begins to send, perhaps while another is at it.
Overlap(s) ==
  /\ raced' = raced \cup {x \in {s} : IsSending(x)}
  /\ overlaps' = IF IsSending(s) THEN [overlaps EXCEPT ![s] = @ + 1] ELSE overlaps

\* Lines 152-165, up to the load in sendDatagram.
AcceptBegins(w, s) ==
  /\ IsIn(w, s, {"request"}) /\ job[w].number = NoNumber
  /\ job' = [job EXCEPT ![w].number = session[s].sendSequenceNumber]
  /\ Overlap(s)
  /\ UNCHANGED <<process, sessions, session, tasks, flush, haltVars, receiverVars,
                 sentVars, dropped, together, crowded>>

NextNumber(n) == n + 1

Datagram(s, n, packets) == [session |-> s, number |-> n, packets |-> packets]

\* The rest of sendDatagram, and the packet is destroyed twice.
AcceptEnds(w, s) ==
  /\ IsIn(w, s, {"request"}) /\ job[w].number # NoNumber
  /\ session' = [session EXCEPT ![s].sendSequenceNumber = NextNumber(job[w].number)]
  /\ wire' = wire \cup
       {Datagram(s, job[w].number, <<[kind |-> "accepted", id |-> Head(job[w].packets).id]>>)}
  /\ Done(w)
  /\ process' \in {"running", "undefined"}
  /\ UNCHANGED <<sessions, tasks, flush, haltVars, receiverVars, lost, dropped, overlapVars>>

\* Line 170.
WorkerConnects(w, s) ==
  /\ IsIn(w, s, {"incoming", "empty"})
  /\ session' = [session EXCEPT ![s].state = "CONNECTED"]
  /\ Done(w)
  /\ UNCHANGED <<process, sessions, tasks, flush, haltVars, receiverVars, sentVars,
                 dropped, overlapVars>>

\* Lines 177-188: the pong waits for the updater, which may be at the queue.
AnswerPing(w, s) ==
  /\ IsIn(w, s, {"ping"})
  /\ session' = [session EXCEPT ![s].updateQueue = Append(@, Head(job[w].packets).id)]
  /\ Done(w)
  /\ raced' = raced \cup {x \in {s} : flush.session = x}
  /\ \/ UNCHANGED process
     \/ flush.session = s /\ process' = "undefined"
  /\ UNCHANGED <<sessions, tasks, flush, haltVars, receiverVars, sentVars, dropped,
                 overlaps, together, crowded>>

\* Two workers add to the queue at once, and a pong is lost.
PingsCollide(w, v, s) ==
  /\ w # v /\ IsIn(w, s, {"ping"}) /\ IsIn(v, s, {"ping"})
  /\ session' = [session EXCEPT ![s].updateQueue = Append(@, Head(job[w].packets).id)]
  /\ lost' = lost \cup {[session |-> s, id |-> Head(job[v].packets).id]}
  /\ job' = [job EXCEPT ![w] = AfterPacket(@), ![v] = AfterPacket(@)]
  /\ raced' = raced \cup {s}
  /\ process' \in {"running", "undefined"}
  /\ UNCHANGED <<sessions, tasks, flush, haltVars, receiverVars, wire, dropped,
                 overlaps, together, crowded>>

\* Lines 189-204 do no more than write to the log; so may an empty packet, whose
\* ID is whatever lies behind it.
Passes(w) ==
  /\ IsAt(w, {"pong", "other", "empty"})
  /\ Done(w)
  /\ UNCHANGED <<process, sessions, session, tasks, flush, haltVars, receiverVars,
                 sentVars, dropped, overlapVars>>

\* decode throws: the task ends, and with it what is left of the datagram.
DecodeThrows(w) ==
  /\ IsAt(w, {"short", "empty"})
  /\ job' = [job EXCEPT ![w] = NoJob]
  /\ dropped' = dropped \cup {p.id : p \in ToSet(Tail(job[w].packets))}
  /\ UNCHANGED <<process, sessions, session, tasks, flush, haltVars, receiverVars,
                 sentVars, overlapVars>>

\* The session was destroyed while its task waited or ran.
WorkerMisuses(w) ==
  /\ IsAt(w, Kind \ {"other", "short"})
  /\ job[w].session \notin Live
  /\ process' = "undefined"
  /\ UNCHANGED <<sessions, session, poolVars, flush, haltVars, receiverVars, sentVars,
                 dropped, overlapVars>>

WorkerReturns(w) ==
  /\ job[w] # NoJob /\ job[w].packets = <<>>
  /\ job' = [job EXCEPT ![w] = NoJob]
  /\ UNCHANGED <<process, sessions, session, tasks, flush, haltVars, receiverVars,
                 sentVars, dropped, overlapVars>>

HandleRawPacket(w) ==
  \/ \E s \in Live : \/ AcceptBegins(w, s) \/ AcceptEnds(w, s)
                     \/ WorkerConnects(w, s) \/ AnswerPing(w, s)
                     \/ \E v \in Worker : PingsCollide(w, v, s)
  \/ Passes(w) \/ DecodeThrows(w) \/ WorkerMisuses(w)

WorkerStep(w) == WorkerTakes(w) \/ HandleRawPacket(w) \/ WorkerReturns(w)

-----------------------------------------------------------------------------
(* The updater: Session::update *)

\* The updater is free to enter the session s.
Enters(s) == flush = NoFlush /\ ~timedOut /\ s \in Live /\ s # purging

\* Lines 38-39: closeSession waits for the mutex that updateSessions holds.
UpdaterTimesOut(s) ==
  /\ Enters(s)
  /\ session' = [session EXCEPT ![s].state = "DISCONNECTED"]
  /\ timedOut' = TRUE
  /\ UNCHANGED <<process, sessions, poolVars, flush, purging, receiverVars,
                 sentVars, dropped, overlapVars>>

Smaller(m, n) == IF m < n THEN m ELSE n

\* How many pongs sendDatagram takes from the front.
Fitting(q) == Smaller(Room, Len(q))

\* Line 58, sendDatagram up to the load of the number.
FlushBegins(s) ==
  /\ Enters(s) /\ session[s].updateQueue # <<>>
  /\ LET q == session[s].updateQueue
     IN  /\ flush' = [session |-> s, packets |-> SubSeq(q, 1, Fitting(q)),
                      number |-> session[s].sendSequenceNumber]
         /\ session' = [session EXCEPT ![s].updateQueue =
              SubSeq(q, Fitting(q) + 1, Len(q))]
         /\ crowded' = crowded \cup {x \in {s} : Len(q) > Room}
  /\ Overlap(s)
  /\ UNCHANGED <<process, sessions, poolVars, haltVars, receiverVars, sentVars, dropped,
                 together>>

\* Faulty variant: what was sent goes back into the queue.
Requeued(s) == flush.packets \o session[s].updateQueue

\* Line 59.
Cleared(s) == <<>>

\* The rest of sendDatagram, and updateQueue.clear().
FlushEnds ==
  LET s == flush.session
  IN  /\ s \in Live
      /\ session' = [session EXCEPT ![s].sendSequenceNumber = NextNumber(flush.number),
                                    ![s].updateQueue = Cleared(s)]
      /\ wire' = wire \cup {Datagram(s, flush.number,
           [k \in DOMAIN flush.packets |-> [kind |-> "pong", id |-> flush.packets[k]]])}
      /\ lost' = lost \cup {[session |-> s, id |-> id] : id \in ToSet(session[s].updateQueue)}
      /\ flush' = NoFlush
      /\ \/ UNCHANGED process
         \/ s \in raced /\ process' = "undefined"
      /\ UNCHANGED <<sessions, poolVars, haltVars, receiverVars, dropped, overlapVars>>

UpdaterMisuses ==
  /\ flush # NoFlush /\ flush.session \notin Live
  /\ process' = "undefined"
  /\ UNCHANGED <<sessions, session, poolVars, flush, haltVars, receiverVars, sentVars,
                 dropped, overlapVars>>

-----------------------------------------------------------------------------
\* The command stop.
Stop ==
  /\ process' = "stopping"
  /\ UNCHANGED <<sessions, session, poolVars, flush, haltVars, receiverVars, sentVars,
                 dropped, overlapVars>>

Next ==
  /\ process = "running"
  /\ \/ purging = NoSession /\ \E a \in Address : Receive(a)
     \/ \E w \in Worker : WorkerStep(w)
     \/ \E s \in Live : UpdaterTimesOut(s) \/ FlushBegins(s)
     \/ FlushEnds \/ UpdaterMisuses
     \/ Stop

Spec == Init /\ [][Next]_vars

\* The server has come to a halt: a timeout, or the purge loop.
Hangs == timedOut \/ purging # NoSession

\* The pool starts every task (ThreadManager, TaskStarts), and the updater comes
\* round to every session again and again, with the exceptions that SessionLife
\* makes (UpdatedAgain): a halt, a stop, a crash.
FairSpec ==
  /\ Spec
  /\ \A w \in Worker : WF_vars(process = "running" /\ WorkerStep(w))
  /\ \A s \in 1 .. MaxArrivals :
       SF_vars(process = "running" /\ ~Hangs /\ FlushBegins(s))
  /\ WF_vars(process = "running" /\ (FlushEnds \/ UpdaterMisuses))

-----------------------------------------------------------------------------
(* Properties *)

IdType == Nat \X Nat

PacketsType == Seq([kind : Kind, id : IdType])

SessionType ==
  [address : Address, MTU : MIN_MTU_SIZE .. MAX_MTU_SIZE,
   state : {"CONNECTING", "CONNECTED", "DISCONNECTED"}, sendSequenceNumber : Nat,
   updateQueue : Seq(IdType)]

\* Every variable has its type, and what the list names and the threads are at
\* are sessions that were created.
TypeOK ==
  /\ process \in {"running", "stopping", "undefined"}
  /\ session \in Seq(SessionType) /\ timedOut \in BOOLEAN
  /\ overlaps \in Seq(Nat) /\ Len(overlaps) = Len(session)
  /\ LET Created == 1 .. Len(session)
     IN  /\ sessions \in Seq(Created)
         /\ tasks \in Seq([session : Created, packets : PacketsType])
         /\ \A w \in Worker : job[w] = NoJob \/
              job[w] \in [session : Created, packets : PacketsType, number : Nat \cup {NoNumber}]
         /\ flush = NoFlush \/
              flush \in [session : Created, packets : Seq(IdType), number : Nat]
         /\ purging \in Created \cup {NoSession}
         /\ lost \subseteq [session : Created, id : IdType]
         /\ raced \cup together \cup crowded \subseteq Created
         /\ \A d \in wire : d.session \in Created /\ d.number \in Nat
  /\ arrived \in Nat /\ closed \in [Address -> Nat] /\ dropped \subseteq IdType
  /\ DOMAIN replies = Address

\* The elements of q that are in T, in the order of q.
Selected(q, T) ==
  LET part[k \in 0 .. Len(q)] ==
        IF k = 0 THEN <<>>
        ELSE IF q[k] \in T THEN Append(part[k - 1], q[k]) ELSE part[k - 1]
  IN  part[Len(q)]

SessionReply == [name : {"OpenConnectionReply2"}, MTU : MTUs]

\* The MTUs of the replies that promised the address a session.
Promised(a) ==
  LET agreed == Selected(replies[a], SessionReply)
  IN  [k \in DOMAIN agreed |-> agreed[k].MTU]

\* The sessions of the address a, in the order of the list.
SessionsOf(a) == Selected(sessions, {s \in 1 .. Len(session) : session[s].address = a})

\* A client has a session for every OPEN_CONNECTION_REPLY_2 it got, with the MTU
\* that was confirmed to it, in the order of the replies, less those it has
\* closed: no reply is sent for a session that was not created (Socket.cpp:162-168,
\* SessionManager.cpp:12-24), and DISCONNECT closes the one in use.
SessionsAsReplied ==
  \A a \in Address :
    [k \in DOMAIN SessionsOf(a) |-> session[SessionsOf(a)[k]].MTU] =
      SubSeq(Promised(a), closed[a] + 1, Len(Promised(a)))

Datagrams(s) == {d \in wire : d.session = s}

Numbers(s) == {d.number : d \in Datagrams(s)}

\* What the missing lock costs the numbers of a session is bounded: for each time
\* a thread loads the counter while another has yet to store it, at most one more
\* datagram goes out under a number that another has, although a late store sets
\* the counter back below numbers that are in use (ReliabilityLayer.cpp:229,
\* Session.cpp:164).
CollisionsBounded ==
  \A s \in 1 .. Len(session) :
    Cardinality(Datagrams(s)) <= Cardinality(Numbers(s)) + overlaps[s]

Pongs(d) == {p.id : p \in {q \in ToSet(d.packets) : q.kind = "pong"}}

Answered == UNION {Pongs(d) : d \in wire}

Waiting == UNION {ToSet(session[s].updateQueue) : s \in 1 .. Len(session)}

Lost == {l.id : l \in lost}

\* A pong is sent once: it is in one datagram, or in the one that is put together,
\* or waits, or is lost.  It is lost only if more waited than a datagram holds, or
\* a worker added it while another thread was at the queue (Session.cpp:57-61, 188).
PongsAccounted ==
  /\ \A d, e \in wire : Pongs(d) \cap Pongs(e) # {} => d = e
  /\ Answered \cap (ToSet(flush.packets) \cup Waiting \cup Lost) = {}
  /\ ToSet(flush.packets) \cap (Waiting \cup Lost) = {} /\ Waiting \cap Lost = {}
  /\ \A l \in lost : l.session \in crowded \cup raced

Earlier(x, y) == x[1] < y[1] \/ (x[1] = y[1] /\ x[2] < y[2])

\* The pongs of a session leave in the order in which its pings came, in
\* datagrams whose numbers rise, unless two of its datagrams were handled at once
\* or threads were in sendDatagram at once (Session.cpp:139).
PongsInOrder ==
  \A d \in wire : d.session \notin raced \cup together =>
    /\ \A k \in 1 .. Len(d.packets) - 1 : Earlier(d.packets[k].id, d.packets[k + 1].id)
    /\ \A e \in wire :
         d.session = e.session /\ d.number < e.number =>
           \A x \in Pongs(d), y \in Pongs(e) : Earlier(x, y)

\* A ping is on its way through the server.
Pending(x) ==
  \/ \E t \in ToSet(tasks) \cup Range(job) : [kind |-> "ping", id |-> x] \in ToSet(t.packets)
  \/ \E s \in Live : x \in ToSet(session[s].updateQueue)

\* Its pong was lost, or its datagram given up, or its session closed.
Forgone(x) ==
  \/ x \in Lost \cup dropped
  \/ \E s \in 1 .. Len(session) : s \notin Live /\ x \in ToSet(session[s].updateQueue)

Ping ==
  (1 .. MaxArrivals - 1) \X
    UNION {{k \in DOMAIN kinds : kinds[k] = "ping"} : kinds \in Contents}

\* Every ping that is handed to the pool is answered, if nothing of the above
\* becomes of it and the server runs on.
PingAnswered ==
  \A x \in Ping :
    Pending(x) ~> x \in Answered \/ Forgone(x) \/ Hangs \/ process # "running"
=============================================================================
