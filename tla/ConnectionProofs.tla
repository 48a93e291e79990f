--------------------------- MODULE ConnectionProofs ---------------------------
(***************************************************************************)
(* Proofs about Connection, for any number of clients, workers and         *)
(* packets: types; that every overlap in sendDatagram costs a session the  *)
(* number of at most one datagram; that a pong is in one place, and leaves *)
(* in order unless threads overlap; and that the sessions of a client are  *)
(* those that it was promised.                                             *)
(***************************************************************************)
EXTENDS Connection, SequenceTheorems, FiniteSetTheorems, WellFoundedInduction, TLAPS

-----------------------------------------------------------------------------
(* Sequences *)

LEMMA RemoveAtType ==
  ASSUME NEW S, NEW q \in Seq(S), NEW k \in 1 .. Len(q)
  PROVE  RemoveAt(q, k) \in Seq(S)
<1>1. SubSeq(q, 1, k - 1) \in Seq(S) /\ SubSeq(q, k + 1, Len(q)) \in Seq(S)
  OBVIOUS
<1> QED
  BY <1>1, ConcatProperties DEF RemoveAt

LEMMA SeqOfMore ==
  ASSUME NEW S, NEW T, S \subseteq T, NEW q \in Seq(S)
  PROVE  q \in Seq(T)
<1>1. q \in [1 .. Len(q) -> T] /\ Len(q) \in Nat
  OBVIOUS
<1> QED
  BY <1>1

LEMMA HeadAndTail ==
  ASSUME NEW S, NEW q \in Seq(S), q # <<>>
  PROVE  Head(q) \in S /\ Tail(q) \in Seq(S)
OBVIOUS

LEMMA ElementsIn ==
  ASSUME NEW S, NEW q \in Seq(S)
  PROVE  \A x \in ToSet(q) : x \in S
BY DEF ToSet

LEMMA MadeSeq ==
  ASSUME NEW S, NEW n \in Nat, NEW f \in [1 .. n -> S]
  PROVE  f \in Seq(S) /\ Len(f) = n
OBVIOUS

-----------------------------------------------------------------------------
(* Types *)

Created == 1 .. Len(session)

TaskType == [session : Created, packets : PacketsType]
JobType == [session : Created, packets : PacketsType, number : Nat \cup {NoNumber}]
FlushType == [session : Created, packets : Seq(IdType), number : Nat]

\* TypeOK, part by part.
SessionsOK == session \in Seq(SessionType) /\ sessions \in Seq(Created)
PoolOK == tasks \in Seq(TaskType) /\ \A w \in Worker : job[w] = NoJob \/ job[w] \in JobType
FlushOK == flush = NoFlush \/ flush \in FlushType
OverlapOK == raced \cup together \cup crowded \subseteq Created
WireOK == /\ lost \subseteq [session : Created, id : IdType]
          /\ \A d \in wire : d.session \in Created /\ d.number \in Nat
RestOK == /\ process \in {"running", "stopping", "undefined"}
          /\ arrived \in Nat /\ closed \in [Address -> Nat] /\ dropped \subseteq IdType
          /\ DOMAIN replies = Address

TInv == /\ SessionsOK /\ PoolOK /\ FlushOK /\ OverlapOK /\ WireOK /\ RestOK
        /\ DOMAIN job = Worker

LEMMA Start_TInv == Init => TInv
<1> SUFFICES ASSUME Init PROVE TInv
  OBVIOUS
<1>1. Created = {}
  BY DEF Init, Created
<1>2. SessionsOK /\ PoolOK /\ FlushOK /\ OverlapOK /\ WireOK
  BY <1>1 DEF Init, SessionsOK, PoolOK, FlushOK, OverlapOK, WireOK
<1>3. RestOK /\ DOMAIN job = Worker
  BY DEF Init, RestOK
<1> QED
  BY <1>2, <1>3 DEF TInv

LEMMA LiveCreated == ASSUME SessionsOK PROVE Live \subseteq Created
BY DEF SessionsOK, Live, ToSet

\* A step that creates no session keeps the types of what it does not touch.
LEMMA SameSessions ==
  ASSUME TInv, Len(session') = Len(session)
  PROVE  /\ Created' = Created /\ TaskType' = TaskType /\ JobType' = JobType
         /\ FlushType' = FlushType
         /\ UNCHANGED sessions /\ session' \in Seq(SessionType) => SessionsOK'
         /\ UNCHANGED <<tasks, job>> => PoolOK'
         /\ UNCHANGED flush => FlushOK'
         /\ UNCHANGED <<raced, together, crowded>> => OverlapOK'
         /\ UNCHANGED <<lost, wire>> => WireOK'
BY DEF TInv, SessionsOK, PoolOK, FlushOK, OverlapOK, WireOK, Created, TaskType,
       JobType, FlushType

\* An update of the record of one session.
LEMMA SessionUpdate ==
  ASSUME SessionsOK, NEW s \in Live,
         NEW new \in SessionType, session' = [session EXCEPT ![s] = new]
  PROVE  session' \in Seq(SessionType) /\ Len(session') = Len(session)
<1>1. s \in 1 .. Len(session)
  BY LiveCreated DEF Created
<1> QED
  BY <1>1 DEF SessionsOK

LEMMA QueueUpdate ==
  ASSUME NEW r \in SessionType, NEW id \in IdType
  PROVE  [r EXCEPT !.updateQueue = Append(@, id)] \in SessionType
<1>1. r.updateQueue \in Seq(IdType)
  BY DEF SessionType
<1>2. Append(r.updateQueue, id) \in Seq(IdType)
  BY <1>1
<1> QED
  BY <1>2 DEF SessionType

\* What a worker is at: a job of the type, whose first packet has the type.
LEMMA JobOfWorker ==
  ASSUME TInv, NEW w \in Worker, job[w].packets # <<>>
  PROVE  /\ job[w] \in JobType
         /\ Head(job[w].packets) \in [kind : Kind, id : IdType]
         /\ Tail(job[w].packets) \in PacketsType
         /\ AfterPacket(job[w]) \in JobType
<1>1. job[w] \in JobType
  BY DEF TInv, PoolOK, NoJob
<1>2. job[w].packets \in PacketsType /\ job[w].packets # <<>>
  BY <1>1 DEF JobType
<1>3. /\ Head(job[w].packets) \in [kind : Kind, id : IdType]
      /\ Tail(job[w].packets) \in PacketsType
  BY <1>2, HeadAndTail DEF PacketsType
<1>4. AfterPacket(job[w]) \in JobType
  BY <1>1, <1>3 DEF AfterPacket, JobType, NoNumber
<1> QED
  BY <1>1, <1>3, <1>4

\* The worker's job changes, and no other.
LEMMA JobUpdate ==
  ASSUME TInv, NEW w \in Worker, NEW j,
         j = NoJob \/ j \in JobType,
         job' = [job EXCEPT ![w] = j], tasks' = tasks, Len(session') = Len(session)
  PROVE  PoolOK' /\ DOMAIN job' = Worker
<1>1. JobType' = JobType /\ TaskType' = TaskType
  BY SameSessions
<1>2. \A v \in Worker : job'[v] = NoJob \/ job'[v] \in JobType
  BY DEF TInv, PoolOK
<1> QED
  BY <1>1, <1>2 DEF TInv, PoolOK

\* A worker leaves its packet.
LEMMA DoneUpdate ==
  ASSUME TInv, NEW w \in Worker, job[w].packets # <<>>, Done(w), tasks' = tasks,
         Len(session') = Len(session)
  PROVE  PoolOK' /\ DOMAIN job' = Worker
<1>1. job' = [job EXCEPT ![w] = AfterPacket(job[w])]
  BY DEF Done
<1> QED
  BY <1>1, JobOfWorker, JobUpdate

-----------------------------------------------------------------------------
(* Types of the steps *)

LEMMA ReceiveTypes ==
  ASSUME TInv, NEW a \in Address, Receive(a)
  PROVE  TInv'
<1>1. CASE PingArrives(a) \/ Request1Arrives(a)
  <2>1. UNCHANGED <<process, sessions, session, poolVars, flush, closed, sentVars,
                    dropped, overlapVars>>
    BY <1>1 DEF PingArrives, Request1Arrives
  <2>2. arrived' = arrived + 1 /\ DOMAIN replies' = DOMAIN replies
    BY <1>1 DEF PingArrives, Request1Arrives, Arrives, Reply
  <2>3. SessionsOK' /\ PoolOK' /\ FlushOK' /\ OverlapOK' /\ WireOK'
    BY <2>1, SameSessions DEF TInv, SessionsOK, poolVars, sentVars, overlapVars
  <2> QED
    BY <2>1, <2>2, <2>3 DEF TInv, RestOK, poolVars
<1>2. ASSUME NEW mtu \in MTUs, Request2Arrives(a, mtu) PROVE TInv'
  <2>1. UNCHANGED <<process, poolVars, flush, closed, sentVars, dropped, raced,
                    together, crowded>>
    BY <1>2 DEF Request2Arrives
  <2>2. arrived' = arrived + 1 /\ DOMAIN replies' = DOMAIN replies
    BY <1>2 DEF Request2Arrives, Arrives, Reply
  <2>3. RestOK' /\ DOMAIN job' = Worker
    BY <2>1, <2>2 DEF TInv, RestOK, poolVars
  <2>4. CASE ~GoodMTU(mtu)
    <3>1. UNCHANGED <<session, sessions>>
      BY <1>2, <2>4 DEF Request2Arrives
    <3>2. SessionsOK' /\ PoolOK' /\ FlushOK' /\ OverlapOK' /\ WireOK'
      BY <2>1, <3>1, SameSessions DEF TInv, SessionsOK, poolVars, sentVars, overlapVars
    <3> QED
      BY <2>3, <3>2 DEF TInv
  <2>5. CASE GoodMTU(mtu)
    <3> DEFINE n == Len(session) + 1
    <3>1. session' = Append(session, NewSession(a, mtu)) /\ sessions' = Append(sessions, n)
      BY <1>2, <2>5 DEF Request2Arrives, PutLast
    <3>2. NewSession(a, mtu) \in SessionType
      <4>1. mtu \in MIN_MTU_SIZE .. MAX_MTU_SIZE
        BY <2>5 DEF GoodMTU
      <4>2. <<>> \in Seq(IdType)
        OBVIOUS
      <4> QED
        BY <4>1, <4>2 DEF NewSession, SessionType
    <3>3. session' \in Seq(SessionType) /\ Len(session') = n /\ Len(session) \in Nat
      BY <3>1, <3>2 DEF TInv, SessionsOK
    <3>4. Created \subseteq Created' /\ n \in Created'
      BY <3>3 DEF Created
    <3>5. sessions' \in Seq(Created')
      <4>1. sessions \in Seq(Created')
        BY <3>4, SeqOfMore DEF TInv, SessionsOK
      <4> QED
        BY <3>1, <3>4, <4>1
    <3>6. TaskType \subseteq TaskType' /\ JobType \subseteq JobType'
          /\ FlushType \subseteq FlushType'
      BY <3>4 DEF TaskType, JobType, FlushType
    <3>7. PoolOK'
      <4>1. tasks \in Seq(TaskType')
        BY <3>6, SeqOfMore DEF TInv, PoolOK
      <4> QED
        BY <2>1, <3>6, <4>1 DEF TInv, PoolOK, poolVars
    <3>8. FlushOK' /\ OverlapOK' /\ WireOK'
      BY <2>1, <3>4, <3>6 DEF TInv, FlushOK, OverlapOK, WireOK, sentVars, overlapVars
    <3> QED
      BY <2>3, <3>3, <3>5, <3>7, <3>8 DEF TInv, SessionsOK
  <2> QED
    BY <2>4, <2>5
<1>3. CASE DisconnectArrives(a)
  <2>1. /\ process' \in {"running", "undefined"}
        /\ UNCHANGED <<session, poolVars, flush, replies, sentVars, dropped, overlapVars>>
    BY <1>3 DEF DisconnectArrives
  <2>2. arrived' = arrived + 1 /\ closed' = [closed EXCEPT ![a] = @ + 1]
    BY <1>3 DEF DisconnectArrives, Arrives
  <2>3. sessions' \in Seq(Created)
    <3>1. PICK k \in 1 .. Len(sessions) : sessions' = RemoveAt(sessions, k)
      BY <1>3 DEF DisconnectArrives
    <3> QED
      BY <3>1, RemoveAtType DEF TInv, SessionsOK
  <2>4. SessionsOK' /\ PoolOK' /\ FlushOK' /\ OverlapOK' /\ WireOK'
    <3>1. Created' = Created
      BY <2>1 DEF Created
    <3>2. SessionsOK'
      BY <2>1, <2>3, <3>1 DEF TInv, SessionsOK
    <3> QED
      BY <2>1, <3>2, SameSessions DEF poolVars, sentVars, overlapVars
  <2>5. closed' \in [Address -> Nat]
    BY <2>2 DEF TInv, RestOK
  <2> QED
    BY <2>1, <2>2, <2>4, <2>5 DEF TInv, RestOK, poolVars
<1>4. ASSUME NEW kinds \in Contents, DatagramArrives(a, kinds) PROVE TInv'
  <2>1. UNCHANGED <<process, sessions, session, job, flush, replies, closed, sentVars,
                    dropped, overlapVars>>
    BY <1>4 DEF DatagramArrives
  <2>2. arrived' = arrived + 1
    BY <1>4 DEF DatagramArrives, Arrives
  <2>3. PICK n \in 1 .. Len(sessions) :
          tasks' = Append(tasks, [session |-> sessions[n], packets |-> PacketsOf(kinds)])
    BY <1>4 DEF DatagramArrives
  <2> DEFINE s == sessions[n]
             packets == PacketsOf(kinds)
  <2>4. s \in Created
    BY DEF TInv, SessionsOK
  <2>5. packets \in PacketsType
    <3>1. kinds \in Seq(Kind) /\ Len(kinds) \in Nat /\ DOMAIN kinds = 1 .. Len(kinds)
      BY ConnectionAssumption
    <3>2. \A k \in 1 .. Len(kinds) : packets[k] \in [kind : Kind, id : IdType]
      <4> SUFFICES ASSUME NEW k \in 1 .. Len(kinds)
                   PROVE  packets[k] \in [kind : Kind, id : IdType]
        OBVIOUS
      <4>1. packets[k] = [kind |-> kinds[k], id |-> <<arrived, k>>]
        BY <3>1 DEF PacketsOf
      <4>2. kinds[k] \in Kind
        BY <3>1
      <4>3. <<arrived, k>> \in IdType
        BY DEF IdType, TInv, RestOK
      <4> QED
        BY <4>1, <4>2, <4>3
    <3>3. packets \in [1 .. Len(kinds) -> [kind : Kind, id : IdType]]
      BY <3>1, <3>2 DEF PacketsOf
    <3> QED
      BY <3>1, <3>3, MadeSeq DEF PacketsType
  <2>6. PoolOK'
    <3>1. TaskType' = TaskType /\ JobType' = JobType
      BY <2>1, SameSessions
    <3>2. [session |-> s, packets |-> packets] \in TaskType
      BY <2>4, <2>5 DEF TaskType
    <3>3. tasks' \in Seq(TaskType)
      BY <2>3, <3>2 DEF TInv, PoolOK
    <3> QED
      BY <2>1, <3>1, <3>3 DEF TInv, PoolOK
  <2>7. SessionsOK' /\ FlushOK' /\ OverlapOK' /\ WireOK'
    BY <2>1, SameSessions DEF TInv, SessionsOK, sentVars, overlapVars
  <2> QED
    BY <2>1, <2>2, <2>6, <2>7 DEF TInv, RestOK
<1>5. CASE ReceiverSpins(a)
  <2>1. /\ arrived' = arrived + 1
        /\ UNCHANGED <<process, sessions, session, poolVars, flush, replies, closed,
                       sentVars, dropped, overlapVars>>
    BY <1>5 DEF ReceiverSpins, Arrives
  <2>2. SessionsOK' /\ PoolOK' /\ FlushOK' /\ OverlapOK' /\ WireOK'
    BY <2>1, SameSessions DEF TInv, SessionsOK, poolVars, sentVars, overlapVars
  <2> QED
    BY <2>1, <2>2 DEF TInv, RestOK, poolVars
<1> QED
  BY <1>1, <1>2, <1>3, <1>4, <1>5 DEF Receive

LEMMA WorkerTypes ==
  ASSUME TInv, NEW w \in Worker, WorkerStep(w)
  PROVE  TInv'
<1>1. CASE WorkerTakes(w)
  <2> DEFINE task == tasks[FirstPlace]
             new == [session |-> task.session, packets |-> task.packets, number |-> NoNumber]
  <2>1. /\ job' = [job EXCEPT ![w] = new] /\ tasks' = RemoveAt(tasks, FirstPlace)
        /\ together' \subseteq together \cup {task.session}
        /\ UNCHANGED <<process, sessions, session, flush, receiverVars, sentVars,
                       dropped, raced, crowded>>
    BY <1>1 DEF WorkerTakes
  <2>2. FirstPlace \in 1 .. Len(tasks) /\ tasks \in Seq(TaskType)
    BY <1>1 DEF WorkerTakes, TInv, PoolOK, FirstPlace
  <2>3. task \in TaskType
    BY <2>2
  <2>4. new \in JobType /\ task.session \in Created
    BY <2>3 DEF JobType, TaskType
  <2>5. PoolOK' /\ DOMAIN job' = Worker
    <3>1. TaskType' = TaskType /\ JobType' = JobType
      BY <2>1, SameSessions
    <3>2. tasks' \in Seq(TaskType)
      BY <2>1, <2>2, RemoveAtType
    <3>3. \A v \in Worker : job'[v] = NoJob \/ job'[v] \in JobType
      BY <2>1, <2>4 DEF TInv, PoolOK
    <3> QED
      BY <2>1, <3>1, <3>2, <3>3 DEF TInv, PoolOK
  <2>6. OverlapOK'
    BY <2>1, <2>4 DEF TInv, OverlapOK, Created
  <2>7. SessionsOK' /\ FlushOK' /\ WireOK'
    BY <2>1, SameSessions DEF TInv, SessionsOK, sentVars
  <2> QED
    BY <2>1, <2>5, <2>6, <2>7 DEF TInv, RestOK, receiverVars
<1>2. ASSUME NEW s \in Live, AcceptBegins(w, s) PROVE TInv'
  <2>1. /\ job' = [job EXCEPT ![w].number = session[s].sendSequenceNumber]
        /\ raced' \subseteq raced \cup {s} /\ job[w].packets # <<>>
        /\ UNCHANGED <<process, sessions, session, tasks, flush, receiverVars,
                       sentVars, dropped, together, crowded>>
    BY <1>2 DEF AcceptBegins, Overlap, IsIn, IsAt
  <2>2. s \in Created /\ session[s] \in SessionType
    BY LiveCreated DEF TInv, SessionsOK, Created
  <2>3. [job[w] EXCEPT !.number = session[s].sendSequenceNumber] \in JobType
    BY <2>1, <2>2, JobOfWorker DEF JobType, SessionType
  <2>4. PoolOK' /\ DOMAIN job' = Worker
    BY <2>1, <2>3, JobUpdate
  <2>5. OverlapOK'
    BY <2>1, <2>2 DEF TInv, OverlapOK, Created
  <2>6. SessionsOK' /\ FlushOK' /\ WireOK'
    BY <2>1, SameSessions DEF TInv, SessionsOK, sentVars
  <2> QED
    BY <2>1, <2>4, <2>5, <2>6 DEF TInv, RestOK, receiverVars
<1>3. ASSUME NEW s \in Live, AcceptEnds(w, s) PROVE TInv'
  <2> DEFINE n == job[w].number
             d == Datagram(s, n, <<[kind |-> "accepted", id |-> Head(job[w].packets).id]>>)
  <2>1. /\ session' = [session EXCEPT ![s].sendSequenceNumber = NextNumber(n)]
        /\ wire' = wire \cup {d} /\ Done(w) /\ process' \in {"running", "undefined"}
        /\ job[w].packets # <<>> /\ n # NoNumber
        /\ UNCHANGED <<sessions, tasks, flush, receiverVars, lost, dropped, overlapVars>>
    BY <1>3 DEF AcceptEnds, IsIn, IsAt
  <2>2. s \in Created /\ session[s] \in SessionType
    BY LiveCreated DEF TInv, SessionsOK, Created
  <2>3. n \in Nat
    BY <2>1, JobOfWorker DEF JobType
  <2>4. [session[s] EXCEPT !.sendSequenceNumber = NextNumber(n)] \in SessionType
    BY <2>2, <2>3 DEF SessionType, NextNumber
  <2>5. session' \in Seq(SessionType) /\ Len(session') = Len(session)
    BY <2>1, <2>4, SessionUpdate DEF TInv
  <2>6. PoolOK' /\ DOMAIN job' = Worker
    BY <2>1, <2>5, DoneUpdate
  <2>7. SessionsOK' /\ FlushOK' /\ OverlapOK'
    BY <2>1, <2>5, SameSessions DEF overlapVars
  <2>8. WireOK'
    <3>1. Created' = Created
      BY <2>5, SameSessions
    <3>2. d.session \in Created /\ d.number \in Nat
      BY <2>2, <2>3 DEF Datagram
    <3> QED
      BY <2>1, <3>1, <3>2 DEF TInv, WireOK
  <2> QED
    BY <2>1, <2>6, <2>7, <2>8 DEF TInv, RestOK, receiverVars
<1>4. ASSUME NEW s \in Live, WorkerConnects(w, s) PROVE TInv'
  <2>1. /\ session' = [session EXCEPT ![s].state = "CONNECTED"]
        /\ Done(w) /\ job[w].packets # <<>>
        /\ UNCHANGED <<process, sessions, tasks, flush, receiverVars, sentVars,
                       dropped, overlapVars>>
    BY <1>4 DEF WorkerConnects, IsIn, IsAt
  <2>2. session[s] \in SessionType
    BY LiveCreated DEF TInv, SessionsOK, Created
  <2>3. [session[s] EXCEPT !.state = "CONNECTED"] \in SessionType
    BY <2>2 DEF SessionType
  <2>4. session' \in Seq(SessionType) /\ Len(session') = Len(session)
    BY <2>1, <2>3, SessionUpdate DEF TInv
  <2>5. PoolOK' /\ DOMAIN job' = Worker
    BY <2>1, <2>4, DoneUpdate
  <2>6. SessionsOK' /\ FlushOK' /\ OverlapOK' /\ WireOK'
    BY <2>1, <2>4, SameSessions DEF overlapVars, sentVars
  <2> QED
    BY <2>1, <2>5, <2>6 DEF TInv, RestOK, receiverVars
<1>5. ASSUME NEW s \in Live, AnswerPing(w, s) PROVE TInv'
  <2> DEFINE id == Head(job[w].packets).id
  <2>1. /\ session' = [session EXCEPT ![s].updateQueue = Append(@, id)]
        /\ raced' \subseteq raced \cup {s}
        /\ Done(w) /\ job[w].packets # <<>>
        /\ process' = process \/ process' = "undefined"
        /\ UNCHANGED <<sessions, tasks, flush, receiverVars, sentVars, dropped,
                       together, crowded>>
    BY <1>5 DEF AnswerPing, IsIn, IsAt
  <2>2. s \in Created /\ session[s] \in SessionType
    BY LiveCreated DEF TInv, SessionsOK, Created
  <2>3. id \in IdType
    BY <2>1, JobOfWorker
  <2>4. [session[s] EXCEPT !.updateQueue = Append(@, id)] \in SessionType
    BY <2>2, <2>3, QueueUpdate
  <2>5. session' \in Seq(SessionType) /\ Len(session') = Len(session)
    BY <2>1, <2>4, SessionUpdate DEF TInv
  <2>6. PoolOK' /\ DOMAIN job' = Worker
    BY <2>1, <2>5, DoneUpdate
  <2>7. SessionsOK' /\ FlushOK' /\ WireOK'
    BY <2>1, <2>5, SameSessions DEF sentVars
  <2>8. OverlapOK'
    BY <2>1, <2>2, <2>5 DEF TInv, OverlapOK, Created
  <2> QED
    BY <2>1, <2>6, <2>7, <2>8 DEF TInv, RestOK, receiverVars
<1>6. ASSUME NEW s \in Live, NEW v \in Worker, PingsCollide(w, v, s) PROVE TInv'
  <2> DEFINE id == Head(job[w].packets).id
             other == Head(job[v].packets).id
  <2>1. /\ session' = [session EXCEPT ![s].updateQueue = Append(@, id)]
        /\ lost' = lost \cup {[session |-> s, id |-> other]}
        /\ job' = [job EXCEPT ![w] = AfterPacket(job[w]), ![v] = AfterPacket(job[v])]
        /\ raced' = raced \cup {s} /\ process' \in {"running", "undefined"}
        /\ v # w /\ job[w].packets # <<>> /\ job[v].packets # <<>>
        /\ UNCHANGED <<sessions, tasks, flush, receiverVars, wire, dropped, together, crowded>>
    BY <1>6 DEF PingsCollide, IsIn, IsAt
  <2>2. s \in Created /\ session[s] \in SessionType
    BY LiveCreated DEF TInv, SessionsOK, Created
  <2>3. id \in IdType /\ other \in IdType
    BY <2>1, JobOfWorker
  <2>4. [session[s] EXCEPT !.updateQueue = Append(@, id)] \in SessionType
    BY <2>2, <2>3, QueueUpdate
  <2>5. session' \in Seq(SessionType) /\ Len(session') = Len(session)
    BY <2>1, <2>4, SessionUpdate DEF TInv
  <2>6. PoolOK' /\ DOMAIN job' = Worker
    <3>1. JobType' = JobType /\ TaskType' = TaskType
      BY <2>5, SameSessions
    <3>2. AfterPacket(job[w]) \in JobType /\ AfterPacket(job[v]) \in JobType
      BY <2>1, JobOfWorker
    <3>3. \A x \in Worker : job'[x] = NoJob \/ job'[x] \in JobType
      BY <2>1, <3>2 DEF TInv, PoolOK
    <3> QED
      BY <2>1, <3>1, <3>3 DEF TInv, PoolOK
  <2>7. SessionsOK' /\ FlushOK'
    BY <2>1, <2>5, SameSessions
  <2>8. OverlapOK' /\ WireOK'
    BY <2>1, <2>2, <2>3, <2>5 DEF TInv, OverlapOK, WireOK, Created
  <2> QED
    BY <2>1, <2>6, <2>7, <2>8 DEF TInv, RestOK, receiverVars
<1>7. CASE Passes(w)
  <2>1. /\ Done(w) /\ job[w].packets # <<>>
        /\ UNCHANGED <<process, sessions, session, tasks, flush, receiverVars,
                       sentVars, dropped, overlapVars>>
    BY <1>7 DEF Passes, IsAt
  <2>2. PoolOK' /\ DOMAIN job' = Worker
    BY <2>1, DoneUpdate
  <2>3. SessionsOK' /\ FlushOK' /\ OverlapOK' /\ WireOK'
    BY <2>1, SameSessions DEF TInv, SessionsOK, overlapVars, sentVars
  <2> QED
    BY <2>1, <2>2, <2>3 DEF TInv, RestOK, receiverVars
<1>8. CASE DecodeThrows(w) \/ WorkerReturns(w)
  <2>1. /\ job' = [job EXCEPT ![w] = NoJob]
        /\ UNCHANGED <<process, sessions, session, tasks, flush, receiverVars,
                       sentVars, overlapVars>>
    BY <1>8 DEF DecodeThrows, WorkerReturns
  <2>2. dropped' \subseteq IdType
    <3>1. CASE WorkerReturns(w)
      BY <3>1 DEF WorkerReturns, TInv, RestOK
    <3>2. CASE DecodeThrows(w)
      <4>1. job[w].packets # <<>>
        BY <3>2 DEF DecodeThrows, IsAt
      <4>2. Tail(job[w].packets) \in Seq([kind : Kind, id : IdType])
        BY <4>1, JobOfWorker DEF PacketsType
      <4>3. \A p \in ToSet(Tail(job[w].packets)) : p \in [kind : Kind, id : IdType]
        BY <4>2, ElementsIn
      <4>4. dropped' = dropped \cup {p.id : p \in ToSet(Tail(job[w].packets))}
        BY <3>2 DEF DecodeThrows
      <4>5. {p.id : p \in ToSet(Tail(job[w].packets))} \subseteq IdType
        BY <4>3
      <4> QED
        BY <4>4, <4>5 DEF TInv, RestOK
    <3> QED
      BY <1>8, <3>1, <3>2
  <2>3. PoolOK' /\ DOMAIN job' = Worker
    BY <2>1, JobUpdate
  <2>4. SessionsOK' /\ FlushOK' /\ OverlapOK' /\ WireOK'
    BY <2>1, SameSessions DEF TInv, SessionsOK, overlapVars, sentVars
  <2> QED
    BY <2>1, <2>2, <2>3, <2>4 DEF TInv, RestOK, receiverVars
<1>9. CASE WorkerMisuses(w)
  <2>1. /\ process' = "undefined"
        /\ UNCHANGED <<sessions, session, poolVars, flush, receiverVars, sentVars,
                       dropped, overlapVars>>
    BY <1>9 DEF WorkerMisuses
  <2>2. SessionsOK' /\ PoolOK' /\ FlushOK' /\ OverlapOK' /\ WireOK'
    BY <2>1, SameSessions DEF TInv, SessionsOK, overlapVars, sentVars, poolVars
  <2> QED
    BY <2>1, <2>2 DEF TInv, RestOK, receiverVars, poolVars
<1> QED
  BY <1>1, <1>2, <1>3, <1>4, <1>5, <1>6, <1>7, <1>8, <1>9 DEF WorkerStep, HandleRawPacket

LEMMA UpdaterTypes ==
  ASSUME TInv,
         \/ \E s \in Live : UpdaterTimesOut(s) \/ FlushBegins(s)
         \/ FlushEnds \/ UpdaterMisuses \/ Stop
  PROVE  TInv'
<1>1. ASSUME NEW s \in Live, FlushBegins(s) PROVE TInv'
  <2> DEFINE q == session[s].updateQueue
             new == [session |-> s, packets |-> SubSeq(q, 1, Fitting(q)),
                     number |-> session[s].sendSequenceNumber]
             rest == SubSeq(q, Fitting(q) + 1, Len(q))
  <2>1. /\ flush' = new /\ session' = [session EXCEPT ![s].updateQueue = rest]
        /\ crowded' \subseteq crowded \cup {s} /\ raced' \subseteq raced \cup {s}
        /\ UNCHANGED <<process, sessions, poolVars, receiverVars, sentVars, dropped, together>>
    BY <1>1 DEF FlushBegins, Enters, Overlap
  <2>2. s \in Created /\ session[s] \in SessionType
    BY LiveCreated DEF TInv, SessionsOK, Created
  <2>3. q \in Seq(IdType) /\ session[s].sendSequenceNumber \in Nat
    BY <2>2 DEF SessionType
  <2>4. Fitting(q) \in Nat /\ Fitting(q) <= Len(q)
    BY <2>3, ConnectionAssumption DEF Fitting, Smaller
  <2>5. rest \in Seq(IdType) /\ SubSeq(q, 1, Fitting(q)) \in Seq(IdType)
    BY <2>3, <2>4
  <2> HIDE DEF q, rest
  <2>6. [session[s] EXCEPT !.updateQueue = rest] \in SessionType
    BY <2>2, <2>5 DEF SessionType
  <2>7. session' \in Seq(SessionType) /\ Len(session') = Len(session)
    BY <2>1, <2>6, SessionUpdate DEF TInv
  <2>8. FlushOK'
    <3>1. new \in FlushType
      BY <2>2, <2>3, <2>5 DEF FlushType
    <3> QED
      BY <2>1, <2>7, <3>1, SameSessions DEF FlushOK
  <2>9. OverlapOK'
    BY <2>1, <2>2, <2>7 DEF TInv, OverlapOK, Created
  <2>10. SessionsOK' /\ PoolOK' /\ WireOK'
    BY <2>1, <2>7, SameSessions DEF poolVars, sentVars
  <2> QED
    BY <2>1, <2>8, <2>9, <2>10 DEF TInv, RestOK, receiverVars, poolVars
<1>2. CASE FlushEnds
  <2> DEFINE s == flush.session
             d == Datagram(s, flush.number,
                    [k \in DOMAIN flush.packets |-> [kind |-> "pong", id |-> flush.packets[k]]])
             q == session[s].updateQueue
  <2>1. /\ s \in Live
        /\ session' = [session EXCEPT ![s].sendSequenceNumber = NextNumber(flush.number),
                                      ![s].updateQueue = Cleared(s)]
        /\ wire' = wire \cup {d} /\ flush' = NoFlush
        /\ lost' = lost \cup {[session |-> s, id |-> id] : id \in ToSet(q)}
        /\ process' = process \/ process' = "undefined"
        /\ UNCHANGED <<sessions, poolVars, receiverVars, dropped, overlapVars>>
    BY <1>2 DEF FlushEnds
  <2>2. s \in Created /\ session[s] \in SessionType
    BY <2>1, LiveCreated DEF TInv, SessionsOK, Created
  <2>3. flush.number \in Nat
    <3>1. flush # NoFlush
      BY <2>2 DEF NoFlush, NoSession, Created
    <3> QED
      BY <3>1 DEF TInv, FlushOK, FlushType
  <2>4. \A id \in ToSet(q) : id \in IdType
    <3>1. q \in Seq(IdType)
      BY <2>2 DEF SessionType
    <3> QED
      BY <3>1, ElementsIn
  <2>5. [session[s] EXCEPT !.sendSequenceNumber = NextNumber(flush.number),
                           !.updateQueue = Cleared(s)] \in SessionType
    <3>1. NextNumber(flush.number) \in Nat /\ Cleared(s) \in Seq(IdType)
      BY <2>3 DEF NextNumber, Cleared
    <3> QED
      BY <2>2, <3>1 DEF SessionType
  <2>6. session' \in Seq(SessionType) /\ Len(session') = Len(session)
    BY <2>1, <2>5, SessionUpdate DEF TInv
  <2>7. FlushOK' /\ SessionsOK' /\ PoolOK' /\ OverlapOK'
    BY <2>1, <2>6, SameSessions DEF FlushOK, poolVars, overlapVars
  <2>8. WireOK'
    <3>1. Created' = Created
      BY <2>6, SameSessions
    <3>2. d.session \in Created /\ d.number \in Nat
      BY <2>2, <2>3 DEF Datagram
    <3>3. lost' \subseteq [session : Created, id : IdType]
      BY <2>1, <2>2, <2>4 DEF TInv, WireOK
    <3> QED
      BY <2>1, <3>1, <3>2, <3>3 DEF TInv, WireOK
  <2> QED
    BY <2>1, <2>7, <2>8 DEF TInv, RestOK, receiverVars, poolVars
<1>3. CASE UpdaterMisuses \/ Stop
  <2>1. /\ process' \in {"stopping", "undefined"}
        /\ UNCHANGED <<sessions, session, poolVars, flush, receiverVars, sentVars,
                       dropped, overlapVars>>
    BY <1>3 DEF UpdaterMisuses, Stop
  <2>2. SessionsOK' /\ PoolOK' /\ FlushOK' /\ OverlapOK' /\ WireOK'
    BY <2>1, SameSessions DEF TInv, SessionsOK, overlapVars, sentVars, poolVars
  <2> QED
    BY <2>1, <2>2 DEF TInv, RestOK, receiverVars, poolVars
<1>4. ASSUME NEW s \in Live, UpdaterTimesOut(s) PROVE TInv'
  <2>1. /\ session' = [session EXCEPT ![s].state = "DISCONNECTED"]
        /\ UNCHANGED <<process, sessions, poolVars, flush, receiverVars, sentVars,
                       dropped, overlapVars>>
    BY <1>4 DEF UpdaterTimesOut
  <2>2. [session[s] EXCEPT !.state = "DISCONNECTED"] \in SessionType
    <3>1. session[s] \in SessionType
      BY LiveCreated DEF TInv, SessionsOK, Created
    <3> QED
      BY <3>1 DEF SessionType
  <2>3. session' \in Seq(SessionType) /\ Len(session') = Len(session)
    BY <2>1, <2>2, SessionUpdate DEF TInv
  <2>4. SessionsOK' /\ PoolOK' /\ FlushOK' /\ OverlapOK' /\ WireOK'
    BY <2>1, <2>3, SameSessions DEF overlapVars, sentVars, poolVars
  <2> QED
    BY <2>1, <2>4 DEF TInv, RestOK, receiverVars, poolVars
<1> QED
  BY <1>1, <1>2, <1>3, <1>4

LEMMA Step_TInv == TInv /\ [Next]_vars => TInv'
<1> SUFFICES ASSUME TInv, [Next]_vars PROVE TInv'
  OBVIOUS
<1>1. CASE Next
  BY <1>1, ReceiveTypes, WorkerTypes, UpdaterTypes DEF Next
<1>2. CASE UNCHANGED vars
  <2>1. SessionsOK' /\ PoolOK' /\ FlushOK' /\ OverlapOK' /\ WireOK'
    BY <1>2, SameSessions DEF vars, TInv, SessionsOK, overlapVars, sentVars, poolVars
  <2> QED
    BY <1>2, <2>1 DEF vars, TInv, RestOK, receiverVars, poolVars
<1> QED
  BY <1>1, <1>2

\* The two halts, and the count of overlaps, which goes with the sessions.
MInv == /\ timedOut \in BOOLEAN /\ purging \in Created \cup {NoSession}
        /\ overlaps \in Seq(Nat) /\ Len(overlaps) = Len(session)

LEMMA TypesTypeOK == TInv /\ MInv => TypeOK
BY DEF TInv, MInv, TypeOK, SessionsOK, PoolOK, FlushOK, OverlapOK, WireOK, RestOK,
       Created, TaskType, JobType, FlushType

LEMMA Start_MInv == Init => MInv
<1> SUFFICES ASSUME Init PROVE MInv
  OBVIOUS
<1>1. overlaps = <<>> /\ session = <<>> /\ timedOut = FALSE /\ purging = NoSession
  BY DEF Init
<1>2. overlaps \in Seq(Nat) /\ Len(overlaps) = Len(session)
  BY <1>1
<1> QED
  BY <1>1, <1>2 DEF MInv

LEMMA SameLength ==
  ASSUME NEW S, NEW T, NEW q \in Seq(S), NEW r \in Seq(T), DOMAIN r = DOMAIN q
  PROVE  Len(r) = Len(q)
<1>1. DOMAIN q = 1 .. Len(q) /\ DOMAIN r = 1 .. Len(r) /\ Len(q) \in Nat /\ Len(r) \in Nat
  OBVIOUS
<1> QED
  BY <1>1

\* What a step does to the sessions and to their overlaps: one more session, or
\* the same, and then at most one of them gets one more overlap.
LEMMA StepSessions ==
  ASSUME TInv, TInv', [Next]_vars
  PROVE  \/ Len(session') = Len(session) + 1 /\ overlaps' = Append(overlaps, 0)
         \/ /\ Len(session') = Len(session)
            /\ \/ UNCHANGED overlaps
               \/ \E s \in Created : overlaps' = [overlaps EXCEPT ![s] = @ + 1]
<1>1. session \in Seq(SessionType) /\ session' \in Seq(SessionType)
  BY DEF TInv, SessionsOK
<1>2. DOMAIN session' = DOMAIN session => Len(session') = Len(session)
  BY <1>1, SameLength
<1>3. Live \subseteq Created
  BY LiveCreated DEF TInv
<1>4. ASSUME NEW a \in Address, Receive(a) PROVE
        \/ session' = session /\ UNCHANGED overlaps
        \/ /\ \E mtu : session' = Append(session, NewSession(a, mtu))
           /\ overlaps' = Append(overlaps, 0)
  BY <1>4 DEF Receive, PingArrives, Request1Arrives, DisconnectArrives, Request2Arrives,
              DatagramArrives, ReceiverSpins, overlapVars
<1>5. ASSUME NEW w \in Worker, WorkerStep(w) PROVE
        /\ DOMAIN session' = DOMAIN session
        /\ \/ UNCHANGED overlaps
           \/ \E s \in Created : overlaps' = [overlaps EXCEPT ![s] = @ + 1]
  <2>1. CASE \E s \in Live : AcceptBegins(w, s)
    BY <1>3, <2>1 DEF AcceptBegins, Overlap
  <2>2. CASE \E s \in Live : \/ AcceptEnds(w, s) \/ WorkerConnects(w, s) \/ AnswerPing(w, s)
                             \/ \E v \in Worker : PingsCollide(w, v, s)
    BY <2>2 DEF AcceptEnds, WorkerConnects, AnswerPing, PingsCollide, overlapVars
  <2>3. CASE \/ WorkerTakes(w) \/ Passes(w) \/ DecodeThrows(w) \/ WorkerMisuses(w)
             \/ WorkerReturns(w)
    BY <2>3 DEF WorkerTakes, Passes, DecodeThrows, WorkerMisuses, WorkerReturns, overlapVars
  <2> QED
    BY <1>5, <2>1, <2>2, <2>3 DEF WorkerStep, HandleRawPacket
<1>6. ASSUME \/ \E s \in Live : UpdaterTimesOut(s) \/ FlushBegins(s)
             \/ FlushEnds \/ UpdaterMisuses \/ Stop \/ UNCHANGED vars
      PROVE  /\ DOMAIN session' = DOMAIN session
             /\ \/ UNCHANGED overlaps
                \/ \E s \in Created : overlaps' = [overlaps EXCEPT ![s] = @ + 1]
  <2>1. CASE \E s \in Live : FlushBegins(s)
    BY <1>3, <2>1 DEF FlushBegins, Overlap
  <2>2. CASE (\E s \in Live : UpdaterTimesOut(s)) \/ FlushEnds
    BY <2>2 DEF UpdaterTimesOut, FlushEnds, overlapVars
  <2>3. CASE UpdaterMisuses \/ Stop \/ UNCHANGED vars
    BY <2>3 DEF UpdaterMisuses, Stop, vars, overlapVars
  <2> QED
    BY <1>6, <2>1, <2>2, <2>3
<1>7. \A a, mtu : session' = Append(session, NewSession(a, mtu)) =>
                    Len(session') = Len(session) + 1
  BY <1>1
<1> QED
  BY <1>2, <1>4, <1>5, <1>6, <1>7 DEF Next

LEMMA OneMoreOverlap ==
  ASSUME NEW q \in Seq(Nat), NEW s \in 1 .. Len(q), NEW r, r = [q EXCEPT ![s] = @ + 1]
  PROVE  r \in Seq(Nat) /\ Len(r) = Len(q)
OBVIOUS

LEMMA Step_MInv == TInv /\ MInv /\ [Next]_vars => MInv'
<1> SUFFICES ASSUME TInv, MInv, [Next]_vars PROVE MInv'
  OBVIOUS
<1>1. TInv'
  BY Step_TInv
<1>2. overlaps' \in Seq(Nat) /\ Len(overlaps') = Len(session')
  <2>1. CASE Len(session') = Len(session) + 1 /\ overlaps' = Append(overlaps, 0)
    <3>1. Append(overlaps, 0) \in Seq(Nat) /\ Len(Append(overlaps, 0)) = Len(overlaps) + 1
      BY DEF MInv
    <3> QED
      BY <2>1, <3>1 DEF MInv
  <2>2. CASE Len(session') = Len(session) /\ UNCHANGED overlaps
    BY <2>2 DEF MInv
  <2>3. ASSUME NEW s \in Created, Len(session') = Len(session),
               overlaps' = [overlaps EXCEPT ![s] = @ + 1]
        PROVE  overlaps' \in Seq(Nat) /\ Len(overlaps') = Len(session')
    <3>1. s \in 1 .. Len(overlaps)
      BY DEF MInv, Created
    <3>2. overlaps' \in Seq(Nat) /\ Len(overlaps') = Len(overlaps)
      BY <2>3, <3>1, OneMoreOverlap DEF MInv
    <3> QED
      BY <2>3, <3>2 DEF MInv
  <2> QED
    BY <1>1, <2>1, <2>2, <2>3, StepSessions
<1>3. Created \subseteq Created'
  <2>1. Len(session') \in {Len(session), Len(session) + 1}
    BY <1>1, StepSessions
  <2>2. Len(session) \in Nat
    BY DEF TInv, SessionsOK
  <2> QED
    BY <2>1, <2>2 DEF Created
<1>4. \/ UNCHANGED haltVars
      \/ timedOut' = TRUE /\ purging' = purging
      \/ timedOut' = timedOut /\ \E a \in Address : ReceiverSpins(a)
  <2>1. ASSUME NEW a \in Address, Receive(a)
        PROVE  \/ UNCHANGED haltVars
               \/ timedOut' = timedOut /\ ReceiverSpins(a)
    BY <2>1 DEF Receive, PingArrives, Request1Arrives, DisconnectArrives, Request2Arrives,
                DatagramArrives, ReceiverSpins
  <2>2. ASSUME NEW w \in Worker, WorkerStep(w) PROVE UNCHANGED haltVars
    BY <2>2 DEF WorkerStep, WorkerTakes, HandleRawPacket, AcceptBegins, AcceptEnds,
                WorkerConnects, AnswerPing, PingsCollide, Passes, DecodeThrows,
                WorkerMisuses, WorkerReturns
  <2>3. ASSUME NEW s \in Live, UpdaterTimesOut(s) \/ FlushBegins(s)
        PROVE  UNCHANGED haltVars \/ (timedOut' = TRUE /\ purging' = purging)
    BY <2>3 DEF UpdaterTimesOut, FlushBegins
  <2>4. CASE FlushEnds \/ UpdaterMisuses \/ Stop \/ UNCHANGED vars
    BY <2>4 DEF FlushEnds, UpdaterMisuses, Stop, vars
  <2> QED
    BY <2>1, <2>2, <2>3, <2>4 DEF Next
<1>5. purging' \in Created \cup {NoSession}
  <2>1. ASSUME NEW a \in Address, ReceiverSpins(a) PROVE purging' \in Created
    <3>1. PICK k \in 1 .. Len(sessions) : purging' = sessions[k]
      BY <2>1 DEF ReceiverSpins
    <3> QED
      BY <3>1 DEF TInv, SessionsOK
  <2> QED
    BY <1>4, <2>1 DEF MInv, haltVars
<1> QED
  BY <1>2, <1>3, <1>4, <1>5 DEF MInv, haltVars

\* Every variable keeps its type (Session.h, ReliabilityLayer.h:48-59), and no
\* thread is ever at a session that was not created.
THEOREM TypeCorrect == Spec => []TypeOK
BY Start_TInv, Step_TInv, Start_MInv, Step_MInv, TypesTypeOK, PTL DEF Spec

-----------------------------------------------------------------------------
(* Numbers *)

\* Worker w is between the load and the store of the number of session s.
Sending(w, s) == job[w].session = s /\ job[w].number # NoNumber

\* Who has loaded the number of s has the one that is stored, and is alone.
Loaded(s) ==
  /\ \A w \in Worker : Sending(w, s) => job[w].number = session[s].sendSequenceNumber
  /\ flush.session = s => flush.number = session[s].sendSequenceNumber

Alone(s) ==
  /\ \A w, v \in Worker : Sending(w, s) /\ Sending(v, s) => w = v
  /\ \A w \in Worker : Sending(w, s) => flush.session # s

SentBelow(s) ==
  \A d \in wire : d.session = s => d.number < session[s].sendSequenceNumber

NumbersInv == \A s \in Created \ raced : Loaded(s) /\ Alone(s) /\ SentBelow(s)

\* The threads are at sessions that were created.
LEMMA AtCreated ==
  ASSUME TInv
  PROVE  /\ \A w \in Worker : \A s : Sending(w, s) => s \in Created
         /\ flush.session \in Created \cup {NoSession}
         /\ \A w \in Worker : job[w].number \in Int
         /\ \A s \in Created : session[s].sendSequenceNumber \in Nat /\ s # NoSession
         /\ \A d \in wire : d.session \in Created /\ d.number \in Nat
<1>1. \A w \in Worker : job[w] = NoJob \/ job[w] \in JobType
  BY DEF TInv, PoolOK
<1>2. \A w \in Worker : \A s : Sending(w, s) => s \in Created
  BY <1>1 DEF Sending, NoJob, JobType
<1>3. \A w \in Worker : job[w].number \in Int
  BY <1>1 DEF NoJob, JobType, NoNumber
<1>4. flush.session \in Created \cup {NoSession}
  BY DEF TInv, FlushOK, FlushType, NoFlush
<1>5. \A s \in Created : session[s].sendSequenceNumber \in Nat /\ s # NoSession
  <2>1. \A s \in Created : session[s] \in SessionType
    BY DEF TInv, SessionsOK, Created
  <2> QED
    BY <2>1 DEF SessionType, Created, NoSession
<1> QED
  BY <1>2, <1>3, <1>4, <1>5 DEF TInv, WireOK

\* A step by which nobody sends: no number is loaded or stored.
LEMMA QuietStep ==
  ASSUME TInv, NumbersInv, Created \subseteq Created', raced \subseteq raced',
         \A s \in Created :
           session'[s].sendSequenceNumber = session[s].sendSequenceNumber,
         \A w \in Worker : job'[w].number # NoNumber => job'[w] = job[w],
         flush' = flush, wire' = wire,
         \A s \in Created' \ Created : session'[s].sendSequenceNumber = 0
  PROVE  NumbersInv'
<1> SUFFICES ASSUME NEW s \in Created' \ raced'
             PROVE  Loaded(s)' /\ Alone(s)' /\ SentBelow(s)'
  BY DEF NumbersInv
<1>1. \A w \in Worker : Sending(w, s)' => Sending(w, s) /\ job'[w] = job[w]
  BY DEF Sending
<1>2. CASE s \in Created
  BY <1>1, <1>2 DEF NumbersInv, Loaded, Alone, SentBelow
<1>3. CASE s \notin Created
  <2>1. /\ \A w \in Worker : ~Sending(w, s)
        /\ \A d \in wire : d.session # s
    BY <1>3, AtCreated
  <2>2. flush.session # s
    <3>1. s # NoSession
      BY DEF Created, NoSession
    <3> QED
      BY <1>3, <3>1, AtCreated
  <2> QED
    BY <1>1, <2>1, <2>2 DEF Loaded, Alone, SentBelow
<1> QED
  BY <1>2, <1>3

\* The end of sendDatagram, by a worker or by the updater: the number that was
\* loaded goes out, and the next one is stored.
LEMMA SendStep ==
  ASSUME TInv, NumbersInv, NEW s \in Created, NEW n \in Nat, NEW packets,
         s \notin raced => n = session[s].sendSequenceNumber,
         Created' = Created, raced' = raced,
         wire' = wire \cup {Datagram(s, n, packets)},
         session'[s].sendSequenceNumber = NextNumber(n),
         \A x \in Created \ {s} :
           session'[x].sendSequenceNumber = session[x].sendSequenceNumber,
         \A w \in Worker : job'[w].number # NoNumber => job'[w] = job[w],
         flush' \in {flush, NoFlush},
         s \notin raced => flush'.session # s /\ \A w \in Worker : ~Sending(w, s)'
  PROVE  NumbersInv'
<1> DEFINE d == Datagram(s, n, packets)
<1>1. d.session = s /\ d.number = n
  BY DEF Datagram
<1> HIDE DEF d
<1> SUFFICES ASSUME NEW x \in Created \ raced
             PROVE  Loaded(x)' /\ Alone(x)' /\ SentBelow(x)'
  BY DEF NumbersInv
<1>2. Loaded(x) /\ Alone(x) /\ SentBelow(x)
  BY DEF NumbersInv
<1>3. CASE x = s
  <2>1. Loaded(x)' /\ Alone(x)'
    BY <1>3 DEF Loaded, Alone
  <2>2. SentBelow(x)'
    BY <1>1, <1>2, <1>3, AtCreated DEF SentBelow, NextNumber, d
  <2> QED
    BY <2>1, <2>2
<1>4. CASE x # s
  <2>1. \A w \in Worker : Sending(w, x)' => Sending(w, x) /\ job'[w] = job[w]
    BY DEF Sending
  <2>2. flush'.session = x => flush' = flush
    BY AtCreated DEF NoFlush
  <2>3. session'[x].sendSequenceNumber = session[x].sendSequenceNumber
    BY <1>4
  <2>4. Loaded(x)' /\ Alone(x)'
    BY <1>2, <2>1, <2>2, <2>3 DEF Loaded, Alone
  <2>5. SentBelow(x)'
    BY <1>1, <1>2, <1>4, <2>3 DEF SentBelow, d
  <2> QED
    BY <2>4, <2>5
<1> QED
  BY <1>3, <1>4

LEMMA ReceiveNumbers ==
  ASSUME TInv, NumbersInv, NEW a \in Address, Receive(a)
  PROVE  NumbersInv' /\ wire' = wire /\ raced' = raced
<1>1. UNCHANGED <<job, flush, wire, raced>>
  BY DEF Receive, PingArrives, Request1Arrives, DisconnectArrives, Request2Arrives,
         DatagramArrives, ReceiverSpins, poolVars, sentVars, overlapVars
<1>2. CASE UNCHANGED session
  <2>1. Created' = Created
    BY <1>2 DEF Created
  <2> QED
    BY <1>1, <1>2, <2>1, QuietStep
<1>3. ASSUME NEW mtu, session' = Append(session, NewSession(a, mtu)) PROVE NumbersInv'
  <2>1. session \in Seq(SessionType)
    BY DEF TInv, SessionsOK
  <2>2. \A s \in Created : session'[s] = session[s]
    BY <1>3, <2>1 DEF Created
  <2>3. Created' = 1 .. Len(session) + 1 /\ Len(session) \in Nat
    BY <1>3, <2>1 DEF Created
  <2>4. \A s \in Created' \ Created : session'[s].sendSequenceNumber = 0
    BY <1>3, <2>1, <2>3 DEF Created, NewSession
  <2>5. Created \subseteq Created'
    BY <2>3 DEF Created
  <2> QED
    BY <1>1, <2>2, <2>4, <2>5, QuietStep
<1>4. UNCHANGED session \/ \E mtu : session' = Append(session, NewSession(a, mtu))
  BY DEF Receive, PingArrives, Request1Arrives, DisconnectArrives, Request2Arrives,
         DatagramArrives, ReceiverSpins
<1> QED
  BY <1>1, <1>2, <1>3, <1>4

LEMMA NoNumberAfter ==
  ASSUME TInv, NEW w \in Worker
  PROVE  AfterPacket(job[w]).number = NoNumber
<1>1. job[w] = NoJob \/ job[w] \in JobType
  BY DEF TInv, PoolOK
<1> QED
  BY <1>1 DEF AfterPacket, NoJob, JobType

\* Only one field of the record of a session is changed, and not the number.
LEMMA OtherField ==
  ASSUME SessionsOK, NEW s \in Live,
         \/ \E x : session' = [session EXCEPT ![s].state = x]
         \/ \E x : session' = [session EXCEPT ![s].updateQueue = x]
  PROVE  /\ Created' = Created
         /\ \A x \in Created :
              session'[x].sendSequenceNumber = session[x].sendSequenceNumber
<1>1. session \in Seq(SessionType) /\ s \in 1 .. Len(session)
  BY LiveCreated DEF SessionsOK, Created
<1>2. session[s] \in SessionType
  BY <1>1
<1>3. CASE \E x : session' = [session EXCEPT ![s].state = x]
  BY <1>1, <1>2, <1>3 DEF SessionType, Created
<1>4. CASE \E x : session' = [session EXCEPT ![s].updateQueue = x]
  BY <1>1, <1>2, <1>4 DEF SessionType, Created
<1> QED
  BY <1>3, <1>4

\* What a worker does when it leaves its packet to the next, or all of them.
LEMMA LeaveNumbers ==
  ASSUME TInv, NEW w \in Worker, Done(w) \/ job' = [job EXCEPT ![w] = NoJob]
  PROVE  \A v \in Worker : job'[v].number # NoNumber => v # w /\ job'[v] = job[v]
<1>1. \/ job' = [job EXCEPT ![w] = AfterPacket(job[w])]
      \/ job' = [job EXCEPT ![w] = NoJob]
  BY DEF Done
<1>2. AfterPacket(job[w]).number = NoNumber /\ NoJob.number = NoNumber
  BY NoNumberAfter DEF NoJob
<1> QED
  BY <1>1, <1>2 DEF TInv

LEMMA WorkerNumbers ==
  ASSUME TInv, NumbersInv, NEW w \in Worker, WorkerStep(w)
  PROVE  NumbersInv' /\ raced \subseteq raced'
<1>0. \/ UNCHANGED wire /\ raced \subseteq raced' /\ NumbersInv'
      \/ \E s \in Live : AcceptEnds(w, s)
  <2>1. CASE WorkerTakes(w)
    <3>1. UNCHANGED <<session, flush, wire, raced>> /\ Created' = Created
      BY <2>1 DEF WorkerTakes, sentVars, Created
    <3>2. \A v \in Worker : job'[v].number # NoNumber => job'[v] = job[v]
      BY <2>1 DEF WorkerTakes, TInv
    <3> QED
      BY <3>1, <3>2, QuietStep
  <2>2. ASSUME NEW s \in Live, AcceptBegins(w, s)
        PROVE  UNCHANGED wire /\ raced \subseteq raced' /\ NumbersInv'
    <3>1. /\ job' = [job EXCEPT ![w].number = session[s].sendSequenceNumber]
          /\ raced' = raced \cup {x \in {s} : IsSending(x)} /\ job[w].session = s
          /\ UNCHANGED <<session, flush, wire>> /\ Created' = Created
      BY <2>2 DEF AcceptBegins, Overlap, IsIn, sentVars, Created
    <3> SUFFICES ASSUME NEW x \in Created \ raced'
                 PROVE  Loaded(x)' /\ Alone(x)' /\ SentBelow(x)'
      BY <3>1 DEF NumbersInv
    <3>2. Loaded(x) /\ Alone(x) /\ SentBelow(x)
      BY <3>1 DEF NumbersInv
    <3>3. \A v \in Worker \ {w} : job'[v] = job[v]
      BY <3>1 DEF TInv
    <3>4. job'[w].session = s /\ job'[w].number = session[s].sendSequenceNumber
      BY <3>1 DEF TInv
    <3>5. CASE x = s
      <4>1. flush.session # s /\ \A v \in Worker : ~Sending(v, s)
        BY <3>1, <3>5 DEF IsSending, Sending
      <4> QED
        BY <3>1, <3>2, <3>3, <3>4, <3>5, <4>1 DEF Sending, Loaded, Alone, SentBelow
    <3>6. CASE x # s
      BY <3>1, <3>2, <3>3, <3>4, <3>6 DEF Sending, Loaded, Alone, SentBelow
    <3> QED
      BY <3>5, <3>6
  <2>3. ASSUME NEW s \in Live, WorkerConnects(w, s) \/ AnswerPing(w, s)
        PROVE  UNCHANGED wire /\ raced \subseteq raced' /\ NumbersInv'
    <3>1. UNCHANGED <<flush, wire>> /\ raced \subseteq raced' /\ Done(w)
      BY <2>3 DEF WorkerConnects, AnswerPing, sentVars, overlapVars
    <3>2. \/ \E x : session' = [session EXCEPT ![s].state = x]
          \/ \E x : session' = [session EXCEPT ![s].updateQueue = x]
      BY <2>3 DEF WorkerConnects, AnswerPing
    <3> QED
      BY <3>1, <3>2, OtherField, LeaveNumbers, QuietStep DEF TInv
  <2>4. ASSUME NEW s \in Live, NEW v \in Worker, PingsCollide(w, v, s)
        PROVE  UNCHANGED wire /\ raced \subseteq raced' /\ NumbersInv'
    <3>1. /\ UNCHANGED <<flush, wire>> /\ raced \subseteq raced'
          /\ job' = [job EXCEPT ![w] = AfterPacket(job[w]), ![v] = AfterPacket(job[v])]
      BY <2>4 DEF PingsCollide
    <3>2. \E x : session' = [session EXCEPT ![s].updateQueue = x]
      BY <2>4 DEF PingsCollide
    <3>3. \A x \in Worker : job'[x].number # NoNumber => job'[x] = job[x]
      BY <3>1, NoNumberAfter DEF TInv
    <3> QED
      BY <3>1, <3>2, <3>3, OtherField, QuietStep DEF TInv
  <2>5. CASE Passes(w) \/ DecodeThrows(w) \/ WorkerReturns(w)
    <3>1. /\ UNCHANGED <<session, flush, wire, raced>> /\ Created' = Created
          /\ Done(w) \/ job' = [job EXCEPT ![w] = NoJob]
      BY <2>5 DEF Passes, DecodeThrows, WorkerReturns, sentVars, overlapVars, Created
    <3> QED
      BY <3>1, LeaveNumbers, QuietStep
  <2>6. CASE WorkerMisuses(w)
    <3>1. UNCHANGED <<session, flush, wire, raced, job>> /\ Created' = Created
      BY <2>6 DEF WorkerMisuses, sentVars, overlapVars, poolVars, Created
    <3> QED
      BY <3>1, QuietStep
  <2> QED
    BY <2>1, <2>2, <2>3, <2>4, <2>5, <2>6 DEF WorkerStep, HandleRawPacket
<1>1. CASE UNCHANGED wire /\ raced \subseteq raced' /\ NumbersInv'
  BY <1>1
<1>2. ASSUME NEW s \in Live, AcceptEnds(w, s)
      PROVE  NumbersInv' /\ raced \subseteq raced'
  <2> DEFINE n == job[w].number
             packets == <<[kind |-> "accepted", id |-> Head(job[w].packets).id]>>
  <2>1. /\ session' = [session EXCEPT ![s].sendSequenceNumber = NextNumber(n)]
        /\ wire' = wire \cup {Datagram(s, n, packets)} /\ Done(w)
        /\ job[w].packets # <<>> /\ Sending(w, s)
        /\ UNCHANGED <<flush, raced>>
    BY <1>2 DEF AcceptEnds, IsIn, IsAt, Sending, overlapVars
  <2>2. session \in Seq(SessionType) /\ s \in Created /\ session[s] \in SessionType
    BY LiveCreated DEF TInv, SessionsOK, Created
  <2>3. /\ session'[s].sendSequenceNumber = NextNumber(n) /\ Created' = Created
        /\ \A x \in Created \ {s} :
             session'[x].sendSequenceNumber = session[x].sendSequenceNumber
    BY <2>1, <2>2 DEF SessionType, Created
  <2>4. n \in Nat
    BY <2>1, JobOfWorker DEF JobType, Sending
  <2>5. \A v \in Worker : job'[v].number # NoNumber => v # w /\ job'[v] = job[v]
    BY <2>1, LeaveNumbers
  <2>6. s \notin raced => n = session[s].sendSequenceNumber
    BY <2>1, <2>2 DEF NumbersInv, Loaded
  <2>7. s \notin raced => flush'.session # s /\ \A v \in Worker : ~Sending(v, s)'
    BY <2>1, <2>2, <2>5 DEF NumbersInv, Alone, Sending
  <2> HIDE DEF n, packets
  <2> QED
    BY <2>1, <2>2, <2>3, <2>4, <2>5, <2>6, <2>7, SendStep
<1> QED
  BY <1>0, <1>1, <1>2

LEMMA UpdaterNumbers ==
  ASSUME TInv, NumbersInv,
         \/ \E s \in Live : UpdaterTimesOut(s) \/ FlushBegins(s)
         \/ FlushEnds \/ UpdaterMisuses \/ Stop
  PROVE  NumbersInv' /\ raced \subseteq raced'
<1>1. ASSUME NEW s \in Live, FlushBegins(s)
      PROVE  NumbersInv' /\ raced \subseteq raced' /\ UNCHANGED wire
  <2>1. /\ \E packets : flush' = [session |-> s, packets |-> packets,
                                  number |-> session[s].sendSequenceNumber]
        /\ \E x : session' = [session EXCEPT ![s].updateQueue = x]
        /\ raced' = raced \cup {x \in {s} : IsSending(x)}
        /\ UNCHANGED <<job, wire>>
    BY <1>1 DEF FlushBegins, Enters, Overlap, poolVars, sentVars
  <2>3. /\ \A x \in Created :
             session'[x].sendSequenceNumber = session[x].sendSequenceNumber
        /\ Created' = Created
    BY <2>1, OtherField DEF TInv
  <2>4. flush'.session = s /\ flush'.number = session[s].sendSequenceNumber
    BY <2>1
  <2>5. ASSUME NEW x \in Created \ raced' PROVE Loaded(x)' /\ Alone(x)' /\ SentBelow(x)'
    <3>1. Loaded(x) /\ Alone(x) /\ SentBelow(x)
      BY <2>1, <2>5 DEF NumbersInv
    <3>2. x = s => \A w \in Worker : ~Sending(w, x)
      BY <2>1, <2>5 DEF IsSending, Sending
    <3> QED
      BY <2>1, <2>3, <2>4, <2>5, <3>1, <3>2 DEF Sending, Loaded, Alone, SentBelow
  <2> QED
    BY <2>1, <2>3, <2>5 DEF NumbersInv
<1>2. CASE FlushEnds
  <2>1. PICK s \in Created : s = flush.session
    BY <1>2, LiveCreated DEF FlushEnds, TInv
  <2> DEFINE n == flush.number
             packets == [k \in DOMAIN flush.packets |->
                           [kind |-> "pong", id |-> flush.packets[k]]]
  <2>2. /\ session' = [session EXCEPT ![s].sendSequenceNumber = NextNumber(n),
                                      ![s].updateQueue = Cleared(s)]
        /\ wire' = wire \cup {Datagram(s, n, packets)} /\ flush' = NoFlush
        /\ UNCHANGED <<job, raced>>
    BY <1>2, <2>1 DEF FlushEnds, poolVars, overlapVars
  <2>3. session \in Seq(SessionType) /\ session[s] \in SessionType
    BY DEF TInv, SessionsOK, Created
  <2>4. /\ session'[s].sendSequenceNumber = NextNumber(n) /\ Created' = Created
        /\ \A x \in Created \ {s} :
             session'[x].sendSequenceNumber = session[x].sendSequenceNumber
    BY <2>2, <2>3, SMTT(30) DEF SessionType, Created
  <2>5. n \in Nat /\ s # NoSession
    <3>1. flush # NoFlush
      BY <2>1 DEF NoFlush, NoSession, Created
    <3> QED
      BY <3>1, AtCreated DEF TInv, FlushOK, FlushType
  <2>6. s \notin raced => n = session[s].sendSequenceNumber
    BY <2>1 DEF NumbersInv, Loaded
  <2>7. s \notin raced => flush'.session # s /\ \A v \in Worker : ~Sending(v, s)'
    <3>1. flush'.session # s
      BY <2>2, <2>5 DEF NoFlush
    <3>2. s \notin raced => \A v \in Worker : ~Sending(v, s)
      BY <2>1 DEF NumbersInv, Alone
    <3> QED
      BY <2>2, <3>1, <3>2 DEF Sending
  <2>8. \A v \in Worker : job'[v].number # NoNumber => job'[v] = job[v]
    BY <2>2
  <2> HIDE DEF n, packets
  <2> QED
    BY <2>2, <2>4, <2>5, <2>6, <2>7, <2>8, SendStep
<1>3. CASE UpdaterMisuses \/ Stop
  <2>1. UNCHANGED <<session, flush, wire, raced, job>> /\ Created' = Created
    BY <1>3 DEF UpdaterMisuses, Stop, poolVars, sentVars, overlapVars, Created
  <2> QED
    BY <2>1, QuietStep
<1>4. ASSUME NEW s \in Live, UpdaterTimesOut(s)
      PROVE  NumbersInv' /\ raced \subseteq raced'
  <2>1. /\ UNCHANGED <<flush, wire, raced, job>>
        /\ \E x : session' = [session EXCEPT ![s].state = x]
    BY <1>4 DEF UpdaterTimesOut, poolVars, sentVars, overlapVars
  <2> QED
    BY <2>1, OtherField, QuietStep DEF TInv
<1> QED
  BY <1>1, <1>2, <1>3, <1>4

NInv == TInv /\ NumbersInv

LEMMA Start_NInv == Init => NInv
<1> SUFFICES ASSUME Init PROVE NInv
  OBVIOUS
<1>1. Created = {} /\ wire = {}
  BY DEF Init, Created
<1> QED
  BY <1>1, Start_TInv DEF NInv, NumbersInv

LEMMA Step_NInv == NInv /\ [Next]_vars => NInv'
<1> SUFFICES ASSUME TInv, NumbersInv, [Next]_vars PROVE TInv' /\ NumbersInv'
  BY DEF NInv
<1>1. TInv'
  BY Step_TInv
<1>2. CASE UNCHANGED vars
  <2>1. UNCHANGED <<session, job, flush, wire, raced>> /\ Created' = Created
    BY <1>2 DEF vars, poolVars, sentVars, overlapVars, Created
  <2> QED
    BY <1>1, <2>1, QuietStep
<1> QED
  BY <1>1, <1>2, ReceiveNumbers, WorkerNumbers, UpdaterNumbers DEF Next

-----------------------------------------------------------------------------
(* Numbers that collide *)

Number(s) == session[s].sendSequenceNumber

\* The workers, and how many threads, between a load and its store in session s.
Senders(s) == {w \in Worker : Sending(w, s)}

Busy(s) == Cardinality(Senders(s)) + IF flush.session = s THEN 1 ELSE 0

\* The numbers that they have loaded.
InHand(s) == {job[w].number : w \in Senders(s)}
               \cup IF flush.session = s THEN {flush.number} ELSE {}

\* The numbers below n have all been used in s, and if one of its threads goes on
\* from n when k others have sent as well, the datagrams are not too many.
Within(s, n, k) ==
  /\ \A i \in 0 .. n - 1 : i \in Numbers(s)
  /\ Cardinality(Datagrams(s)) + k <= n + overlaps[s]

Others(k) == IF k = 0 THEN 0 ELSE k - 1

CollisionsInv ==
  /\ IsFiniteSet(wire)
  /\ \A s \in Created : /\ Within(s, Number(s), Others(Busy(s)))
                        /\ \A n \in InHand(s) : Within(s, n, Busy(s) - 1)

BusyType ==
  \A s \in Created :
    /\ IsFiniteSet(Senders(s)) /\ Cardinality(Senders(s)) \in Nat
    /\ Busy(s) \in Nat /\ (Busy(s) = 0 <=> ~IsSending(s))
    /\ Number(s) \in Nat /\ InHand(s) \subseteq Nat

LEMMA BusyTypes == TInv => BusyType
<1> SUFFICES ASSUME TInv, NEW s \in Created
             PROVE  /\ IsFiniteSet(Senders(s)) /\ Cardinality(Senders(s)) \in Nat
                    /\ Busy(s) \in Nat /\ (Busy(s) = 0 <=> ~IsSending(s))
                    /\ Number(s) \in Nat /\ InHand(s) \subseteq Nat
  BY DEF BusyType
<1>1. IsFiniteSet(Senders(s))
  BY ConnectionAssumption, FS_Subset DEF Senders
<1>2. Cardinality(Senders(s)) \in Nat /\ (Cardinality(Senders(s)) = 0 <=> Senders(s) = {})
  BY <1>1, FS_CardinalityType, FS_EmptySet
<1>3. Senders(s) = {} <=> \A w \in Worker : ~Sending(w, s)
  BY DEF Senders
<1>4. Busy(s) \in Nat /\ (Busy(s) = 0 <=> ~IsSending(s))
  BY <1>2, <1>3 DEF Busy, IsSending, Sending
<1>5. \A w \in Senders(s) : job[w].number \in Nat
  BY DEF Senders, Sending, TInv, PoolOK, JobType, NoJob
<1>6. flush.session = s => flush.number \in Nat
  <2>1. s # NoSession
    BY AtCreated
  <2> QED
    BY <2>1 DEF TInv, FlushOK, FlushType, NoFlush
<1> QED
  BY <1>1, <1>2, <1>4, <1>5, <1>6, AtCreated DEF Number, InHand

LEMMA BusyTypesNext == TInv' => BusyType'
BY BusyTypes, PTL

LEMMA DatagramsType ==
  ASSUME TInv, IsFiniteSet(wire), NEW s
  PROVE  /\ IsFiniteSet(Datagrams(s)) /\ Cardinality(Datagrams(s)) \in Nat
         /\ Numbers(s) \subseteq Nat
<1>1. IsFiniteSet(Datagrams(s))
  BY FS_Subset DEF Datagrams
<1> QED
  BY <1>1, FS_CardinalityType, AtCreated DEF Numbers, Datagrams

LEMMA OverlapsType == ASSUME MInv, NEW s \in Created PROVE overlaps[s] \in Nat
BY DEF MInv, Created

LEMMA CollisionsInvBounds ==
  ASSUME TInv, MInv, CollisionsInv
  PROVE  CollisionsBounded
<1> SUFFICES ASSUME NEW s \in Created
             PROVE  Cardinality(Datagrams(s)) <= Cardinality(Numbers(s)) + overlaps[s]
  BY DEF CollisionsBounded, Created
<1> DEFINE f == [d \in Datagrams(s) |-> d.number]
<1>1. f \in Surjection(Datagrams(s), Numbers(s))
  BY DEF Surjection, Numbers
<1> HIDE DEF f
<1>2. IsFiniteSet(Numbers(s)) /\ Cardinality(Numbers(s)) \in Nat
  BY <1>1, DatagramsType, FS_Surjection, FS_CardinalityType DEF CollisionsInv
<1>3. 0 .. Number(s) - 1 \subseteq Numbers(s) /\ Number(s) \in Nat
  BY BusyTypes DEF BusyType, CollisionsInv, Within
<1>4. Cardinality(0 .. Number(s) - 1) = Number(s)
  BY <1>3, FS_Interval
<1>5. Number(s) <= Cardinality(Numbers(s))
  BY <1>2, <1>3, <1>4, FS_Subset
<1>6. Cardinality(Datagrams(s)) + Others(Busy(s)) <= Number(s) + overlaps[s]
  BY DEF CollisionsInv, Within
<1>7. Others(Busy(s)) \in Nat
  BY BusyTypes DEF BusyType, Others
<1> QED
  BY <1>2, <1>3, <1>5, <1>6, <1>7, DatagramsType, OverlapsType DEF CollisionsInv

-----------------------------------------------------------------------------
(* Steps between a load and a store *)

\* How many threads are between a load and its store is what counts, not which.
LEMMA FewerSenders ==
  ASSUME TInv, TInv', NEW s \in Created, s \in Created',
         \A w \in Worker : job'[w].number # NoNumber => job'[w] = job[w],
         flush'.session = s => flush' = flush
  PROVE  Busy(s)' <= Busy(s) /\ InHand(s)' \subseteq InHand(s)
<1>1. Senders(s)' \subseteq Senders(s) /\ \A w \in Senders(s)' : job'[w] = job[w]
  BY DEF Senders, Sending
<1>2. Cardinality(Senders(s)') <= Cardinality(Senders(s))
  BY <1>1, BusyTypes, FS_Subset DEF BusyType
<1>3. Cardinality(Senders(s)') \in Nat /\ Cardinality(Senders(s)) \in Nat
  BY BusyTypes, BusyTypesNext DEF BusyType
<1>4. Busy(s)' <= Busy(s)
  BY <1>2, <1>3 DEF Busy
<1> QED
  BY <1>1, <1>4 DEF InHand

\* Less is at hand in the session s, and nothing of it was sent.
LEMMA QuietWithin ==
  ASSUME TInv, TInv', MInv, CollisionsInv, NEW s \in Created, s \in Created',
         Datagrams(s)' = Datagrams(s), Number(s)' = Number(s), overlaps'[s] = overlaps[s],
         Busy(s)' <= Busy(s), InHand(s)' \subseteq InHand(s)
  PROVE  /\ Within(s, Number(s), Others(Busy(s)))'
         /\ \A n \in InHand(s)' : Within(s, n, Busy(s) - 1)'
<1>1. Datagrams(s)' = Datagrams(s) /\ Numbers(s)' = Numbers(s)
  BY DEF Numbers
<1>2. /\ Busy(s) \in Nat /\ Busy(s)' \in Nat /\ overlaps[s] \in Nat
      /\ Cardinality(Datagrams(s)) \in Nat /\ Number(s) \in Nat /\ InHand(s) \subseteq Nat
  BY BusyTypes, BusyTypesNext, OverlapsType, DatagramsType DEF BusyType, CollisionsInv
<1>3. Others(Busy(s)') <= Others(Busy(s)) /\ Others(Busy(s)') \in Nat /\ Others(Busy(s)) \in Nat
  BY <1>2 DEF Others
<1>4. ASSUME NEW n \in Nat, NEW k \in Int, NEW j \in Int, j <= k, Within(s, n, k)
      PROVE  Cardinality(Datagrams(s)) + j <= n + overlaps[s]
  BY <1>2, <1>4 DEF Within
<1>5. Within(s, Number(s), Others(Busy(s)))'
  <2>1. Within(s, Number(s), Others(Busy(s)))
    BY DEF CollisionsInv
  <2>2. Cardinality(Datagrams(s)) + Others(Busy(s)') <= Number(s) + overlaps[s]
    BY <1>2, <1>3, <1>4, <2>1
  <2> QED
    BY <1>1, <2>1, <2>2 DEF Within, Others
<1>6. ASSUME NEW n \in InHand(s)' PROVE Within(s, n, Busy(s) - 1)'
  <2>1. Within(s, n, Busy(s) - 1) /\ n \in Nat
    BY <1>2 DEF CollisionsInv
  <2>2. Cardinality(Datagrams(s)) + (Busy(s)' - 1) <= n + overlaps[s]
    BY <1>2, <1>4, <2>1
  <2> QED
    BY <1>1, <2>1, <2>2 DEF Within
<1> QED
  BY <1>5, <1>6

\* A thread loads the number of s, while others are at it or not.
LEMMA LoadWithin ==
  ASSUME TInv, TInv', MInv, CollisionsInv, NEW s \in Created, s \in Created',
         wire' = wire, Number(s)' = Number(s),
         overlaps'[s] = overlaps[s] + IF IsSending(s) THEN 1 ELSE 0,
         Busy(s)' = Busy(s) + 1, InHand(s)' \subseteq InHand(s) \cup {Number(s)}
  PROVE  /\ Within(s, Number(s), Others(Busy(s)))'
         /\ \A n \in InHand(s)' : Within(s, n, Busy(s) - 1)'
<1>1. Datagrams(s)' = Datagrams(s) /\ Numbers(s)' = Numbers(s)
  BY DEF Datagrams, Numbers
<1>2. /\ Busy(s) \in Nat /\ Busy(s)' \in Nat /\ overlaps[s] \in Nat
      /\ Cardinality(Datagrams(s)) \in Nat /\ Number(s) \in Nat /\ InHand(s) \subseteq Nat
      /\ Busy(s) = 0 <=> ~IsSending(s)
  BY BusyTypes, BusyTypesNext, OverlapsType, DatagramsType DEF BusyType, CollisionsInv
<1>3. overlaps'[s] = overlaps[s] + Busy(s) - Others(Busy(s))
  BY <1>2 DEF Others
<1>4. Within(s, Number(s), Others(Busy(s)))
  BY DEF CollisionsInv
<1>5. Cardinality(Datagrams(s)) + Busy(s) <= Number(s) + overlaps'[s]
  BY <1>2, <1>3, <1>4 DEF Within, Others
<1>6. Within(s, Number(s), Others(Busy(s)))'
  <2>1. Others(Busy(s))' = Busy(s)
    BY <1>2 DEF Others
  <2> QED
    BY <1>1, <1>4, <1>5, <2>1 DEF Within
<1>7. ASSUME NEW n \in InHand(s)' PROVE Within(s, n, Busy(s) - 1)'
  <2>1. CASE n = Number(s)
    BY <1>1, <1>2, <1>4, <1>5, <2>1 DEF Within
  <2>2. CASE n # Number(s)
    <3>1. Within(s, n, Busy(s) - 1) /\ n \in Nat
      BY <1>2, <2>2 DEF CollisionsInv
    <3>2. Busy(s) # 0
      <4>1. \A w \in Senders(s) : w \in Worker /\ Sending(w, s)
        BY DEF Senders
      <4>2. IsSending(s)
        BY <2>2, <4>1 DEF InHand, IsSending, Sending
      <4> QED
        BY <1>2, <4>2
    <3>3. overlaps'[s] = overlaps[s] + 1
      BY <1>2, <3>2
    <3>4. Cardinality(Datagrams(s)) + (Busy(s)' - 1) <= n + overlaps'[s]
      BY <1>2, <3>1, <3>3 DEF Within
    <3> QED
      BY <1>1, <3>1, <3>4 DEF Within
  <2> QED
    BY <2>1, <2>2
<1> QED
  BY <1>6, <1>7

\* A thread sends with the number that it has loaded, and stores the next one.
LEMMA SendWithin ==
  ASSUME TInv, TInv', MInv, CollisionsInv, NEW s \in Created, s \in Created',
         NEW n \in InHand(s), NEW packets,
         wire' = wire \cup {Datagram(s, n, packets)}, Number(s)' = NextNumber(n),
         overlaps'[s] = overlaps[s], Busy(s)' = Busy(s) - 1, InHand(s)' \subseteq InHand(s)
  PROVE  /\ Within(s, Number(s), Others(Busy(s)))'
         /\ \A m \in InHand(s)' : Within(s, m, Busy(s) - 1)'
<1> DEFINE d == Datagram(s, n, packets)
<1>1. d.session = s /\ d.number = n
  BY DEF Datagram
<1> HIDE DEF d
<1>2. Datagrams(s)' = Datagrams(s) \cup {d} /\ Numbers(s)' = Numbers(s) \cup {n}
  BY <1>1 DEF Datagrams, Numbers, d
<1>3. /\ Busy(s) \in Nat /\ Busy(s)' \in Nat /\ overlaps[s] \in Nat
      /\ Cardinality(Datagrams(s)) \in Nat /\ IsFiniteSet(Datagrams(s))
      /\ InHand(s) \subseteq Nat
  BY BusyTypes, BusyTypesNext, OverlapsType, DatagramsType DEF BusyType, CollisionsInv
<1>4. Cardinality(Datagrams(s)') <= Cardinality(Datagrams(s)) + 1
  <2>1. PICK c \in Nat : c = Cardinality(Datagrams(s))
    BY <1>3
  <2>2. Cardinality(Datagrams(s) \cup {d}) = IF d \in Datagrams(s) THEN c ELSE c + 1
    BY <1>3, <2>1, FS_AddElement, Zenon
  <2> QED
    BY <1>2, <2>1, <2>2
<1>5. Cardinality(Datagrams(s)') \in Nat
  BY <1>2, <1>3, FS_AddElement, FS_CardinalityType
<1>6. Within(s, n, Busy(s) - 1)
  BY DEF CollisionsInv
<1>7. Within(s, Number(s), Others(Busy(s)))'
  <2>1. Number(s)' = n + 1 /\ n \in Nat
    BY <1>3 DEF NextNumber
  <2>2. \A i \in 0 .. n : i \in Numbers(s)'
    BY <1>2, <1>6, <2>1 DEF Within
  <2>3. Cardinality(Datagrams(s)) + (Busy(s) - 1) <= n + overlaps[s]
    BY <1>6 DEF Within
  <2>4. Others(Busy(s)') <= Busy(s) - 1 /\ Others(Busy(s)') \in Nat
    BY <1>3 DEF Others
  <2>5. Cardinality(Datagrams(s)') + Others(Busy(s)') <= (n + 1) + overlaps[s]
    BY <1>3, <1>4, <1>5, <2>1, <2>3, <2>4
  <2> QED
    BY <2>1, <2>2, <2>5 DEF Within, Others
<1>8. ASSUME NEW m \in InHand(s)' PROVE Within(s, m, Busy(s) - 1)'
  <2>1. Within(s, m, Busy(s) - 1) /\ m \in Nat
    BY <1>3 DEF CollisionsInv
  <2>2. Cardinality(Datagrams(s)') + (Busy(s)' - 1) <= m + overlaps[s]
    BY <1>3, <1>4, <1>5, <2>1 DEF Within
  <2> QED
    BY <1>2, <2>1, <2>2 DEF Within
<1> QED
  BY <1>7, <1>8

-----------------------------------------------------------------------------
(* The steps on numbers that collide *)

\* The steps by which no thread loads or stores a number.
Quiet ==
  /\ UNCHANGED <<flush, wire, overlaps>> /\ Created' = Created
  /\ \A w \in Worker : job'[w].number # NoNumber => job'[w] = job[w]
  /\ \A s \in Created : Number(s)' = Number(s)

LEMMA QuietCollisions ==
  ASSUME TInv, TInv', MInv, CollisionsInv, Quiet
  PROVE  CollisionsInv'
<1>1. ASSUME NEW s \in Created
      PROVE  /\ Within(s, Number(s), Others(Busy(s)))'
             /\ \A n \in InHand(s)' : Within(s, n, Busy(s) - 1)'
  <2>1. Busy(s)' <= Busy(s) /\ InHand(s)' \subseteq InHand(s)
    BY FewerSenders DEF Quiet
  <2>2. s \in Created' /\ Datagrams(s)' = Datagrams(s) /\ Number(s)' = Number(s) /\ overlaps'[s] = overlaps[s]
    BY DEF Quiet, Datagrams
  <2> QED
    BY <2>1, <2>2, QuietWithin
<1>2. IsFiniteSet(wire') /\ Created' = Created
  BY DEF Quiet, CollisionsInv
<1> QED
  BY <1>1, <1>2 DEF CollisionsInv

\* A session is created.
LEMMA CreateCollisions ==
  ASSUME TInv, TInv', MInv, CollisionsInv, NEW a, NEW mtu,
         session' = Append(session, NewSession(a, mtu)), overlaps' = Append(overlaps, 0),
         UNCHANGED <<flush, wire, job>>
  PROVE  CollisionsInv'
<1>1. session \in Seq(SessionType) /\ Len(session) \in Nat
      /\ overlaps \in Seq(Nat) /\ Len(overlaps) = Len(session)
  BY DEF TInv, SessionsOK, MInv
<1>0. PICK new \in Nat : new = Len(session) + 1
  BY <1>1
<1>2. Created' = Created \cup {new} /\ new \notin Created
  BY <1>0, <1>1 DEF Created
<1>3. ASSUME NEW s \in Created
      PROVE  /\ Within(s, Number(s), Others(Busy(s)))'
             /\ \A n \in InHand(s)' : Within(s, n, Busy(s) - 1)'
  <2>1. s \in Created' /\ overlaps'[s] = overlaps[s] /\ Number(s)' = Number(s)
        /\ Datagrams(s)' = Datagrams(s)
    BY <1>1, <1>2 DEF Created, Number, Datagrams
  <2>2. Busy(s)' <= Busy(s) /\ InHand(s)' \subseteq InHand(s)
    BY <2>1, FewerSenders
  <2> QED
    BY <2>1, <2>2, QuietWithin
<1>4. Number(new)' = 0 /\ overlaps'[new] = 0
  BY <1>0, <1>1 DEF Number, NewSession
<1>5. /\ Senders(new)' = {} /\ flush'.session # new /\ Datagrams(new)' = {}
  <2>1. new # NoSession /\ new \notin Created
    BY <1>0, <1>1, <1>2 DEF NoSession
  <2>2. flush.session # new
    BY <2>1, AtCreated
  <2>3. \A w \in Worker : ~Sending(w, new)
    BY <2>1, AtCreated
  <2>4. \A d \in wire : d.session # new
    BY <2>1, AtCreated
  <2>5. Senders(new)' = {}
    BY <2>3 DEF Senders, Sending
  <2>6. Datagrams(new)' = {}
    BY <2>4 DEF Datagrams
  <2> QED
    BY <2>2, <2>5, <2>6
<1>6. Busy(new)' = 0 /\ InHand(new)' = {}
  <2>1. Cardinality(Senders(new)') = 0
    BY <1>5, FS_EmptySet
  <2>2. Busy(new)' = 0
    BY <1>5, <2>1 DEF Busy
  <2> QED
    BY <1>5, <2>2 DEF InHand
<1>7. Within(new, Number(new), Others(Busy(new)))'
  <2>1. PICK n, c, o, k : /\ n = Number(new)' /\ c = Cardinality(Datagrams(new)')
                          /\ o = overlaps'[new] /\ k = Others(Busy(new)')
    OBVIOUS
  <2>2. n = 0 /\ c = 0 /\ o = 0 /\ k = 0
    BY <1>4, <1>5, <1>6, <2>1, FS_EmptySet DEF Others
  <2>3. (\A i \in 0 .. n - 1 : FALSE) /\ c + k <= n + o
    BY ONLY <2>2
  <2> QED
    BY <2>1, <2>3, Zenon DEF Within, Others
<1>8. IsFiniteSet(wire')
  BY DEF CollisionsInv
<1> QED
  BY <1>2, <1>3, <1>6, <1>7, <1>8 DEF CollisionsInv

\* A worker loads the number of the session that it is at.
LEMMA WorkerLoads ==
  ASSUME TInv, TInv', MInv, CollisionsInv, NEW w \in Worker, NEW s \in Live,
         AcceptBegins(w, s)
  PROVE  CollisionsInv'
<1>1. /\ job' = [job EXCEPT ![w].number = Number(s)]
      /\ overlaps' = IF IsSending(s) THEN [overlaps EXCEPT ![s] = @ + 1] ELSE overlaps
      /\ job[w].session = s /\ job[w].number = NoNumber
      /\ UNCHANGED <<session, flush, wire>> /\ Created' = Created
  BY DEF AcceptBegins, Overlap, IsIn, sentVars, Created, Number
<1>2. s \in Created
  BY LiveCreated DEF TInv
<1>3. Number(s) \in Nat /\ Number(s) # NoNumber
  BY <1>2, AtCreated DEF Number, NoNumber
<1>4. /\ \A v \in Worker \ {w} : job'[v] = job[v]
      /\ job'[w].session = s /\ job'[w].number = Number(s)
  BY <1>1 DEF TInv
<1>5. w \notin Senders(s) /\ Senders(s)' = Senders(s) \cup {w}
  BY <1>1, <1>3, <1>4 DEF Senders, Sending
<1>6. Busy(s)' = Busy(s) + 1
  <2>1. Cardinality(Senders(s)') = Cardinality(Senders(s)) + 1
    <3>1. PICK c \in Nat : c = Cardinality(Senders(s))
      BY <1>2, BusyTypes DEF BusyType
    <3>2. IsFiniteSet(Senders(s))
      BY <1>2, BusyTypes DEF BusyType
    <3>3. Cardinality(Senders(s) \cup {w}) = IF w \in Senders(s) THEN c ELSE c + 1
      BY <3>1, <3>2, FS_AddElement, Zenon
    <3> QED
      BY <1>5, <3>1, <3>3
  <2>2. Cardinality(Senders(s)) \in Nat
    BY <1>2, BusyTypes DEF BusyType
  <2> QED
    BY <1>1, <2>1, <2>2 DEF Busy
<1>7. InHand(s)' \subseteq InHand(s) \cup {Number(s)}
  BY <1>1, <1>4, <1>5 DEF InHand
<1>8. overlaps \in Seq(Nat) /\ Len(overlaps) = Len(session)
  BY DEF MInv
<1>9. ASSUME NEW x \in Created
      PROVE  /\ Within(x, Number(x), Others(Busy(x)))'
             /\ \A n \in InHand(x)' : Within(x, n, Busy(x) - 1)'
  <2>1. Number(x)' = Number(x) /\ Datagrams(x)' = Datagrams(x)
    BY <1>1 DEF Number, Datagrams
  <2>2. CASE x = s
    <3>1. overlaps'[s] = overlaps[s] + IF IsSending(s) THEN 1 ELSE 0
      BY <1>1, <1>2, <1>8, OverlapsType DEF Created
    <3> QED
      BY <1>1, <1>2, <1>6, <1>7, <2>1, <2>2, <3>1, LoadWithin
  <2>3. CASE x # s
    <3>1. overlaps'[x] = overlaps[x]
      BY <1>1, <1>8, <2>3 DEF Created
    <3>2. Senders(x)' = Senders(x) /\ \A v \in Senders(x) : job'[v] = job[v]
      BY <1>1, <1>4, <2>3 DEF Senders, Sending
    <3>3. Busy(x)' = Busy(x) /\ InHand(x)' = InHand(x)
      BY <1>1, <3>2 DEF Busy, InHand
    <3>4. Busy(x) \in Nat
      BY BusyTypes DEF BusyType
    <3> QED
      BY <1>1, <2>1, <3>1, <3>3, <3>4, QuietWithin
  <2> QED
    BY <2>2, <2>3
<1> QED
  BY <1>1, <1>9 DEF CollisionsInv

\* The updater does.
LEMMA UpdaterLoads ==
  ASSUME TInv, TInv', MInv, CollisionsInv, NEW s \in Live, FlushBegins(s)
  PROVE  CollisionsInv'
<1>1. /\ \E packets : flush' = [session |-> s, packets |-> packets, number |-> Number(s)]
      /\ overlaps' = IF IsSending(s) THEN [overlaps EXCEPT ![s] = @ + 1] ELSE overlaps
      /\ flush = NoFlush
      /\ \E x : session' = [session EXCEPT ![s].updateQueue = x]
      /\ UNCHANGED <<job, wire>>
  BY DEF FlushBegins, Enters, Overlap, poolVars, sentVars, Number
<1>2. s \in Created
  BY LiveCreated DEF TInv
<1>3. Created' = Created /\ \A x \in Created : Number(x)' = Number(x)
  BY <1>1, OtherField DEF TInv, Number
<1>4. flush'.session = s /\ flush'.number = Number(s)
  BY <1>1
<1>5. \A x \in Created : flush.session # x
  BY <1>1, AtCreated DEF NoFlush
<1>6. \A x \in Created : Senders(x)' = Senders(x)
  BY <1>1 DEF Senders, Sending
<1>7. overlaps \in Seq(Nat) /\ Len(overlaps) = Len(session)
  BY DEF MInv
<1>8. ASSUME NEW x \in Created
      PROVE  /\ Within(x, Number(x), Others(Busy(x)))'
             /\ \A n \in InHand(x)' : Within(x, n, Busy(x) - 1)'
  <2>1. /\ Cardinality(Senders(x)) \in Nat /\ Busy(x) \in Nat
        /\ Datagrams(x)' = Datagrams(x)
    BY <1>1, BusyTypes DEF BusyType, Datagrams
  <2>2. CASE x = s
    <3>1. overlaps'[s] = overlaps[s] + IF IsSending(s) THEN 1 ELSE 0
      BY <1>1, <1>2, <1>7, OverlapsType DEF Created
    <3>2. Busy(s)' = Busy(s) + 1
      BY <1>2, <1>4, <1>5, <1>6, <2>1, <2>2 DEF Busy
    <3>3. InHand(s)' \subseteq InHand(s) \cup {Number(s)}
      BY <1>1, <1>2, <1>4, <1>6 DEF InHand
    <3> QED
      BY <1>1, <1>2, <1>3, <2>2, <3>1, <3>2, <3>3, LoadWithin
  <2>3. CASE x # s
    <3>1. overlaps'[x] = overlaps[x]
      BY <1>1, <1>7, <2>3 DEF Created
    <3>2. Busy(x)' = Busy(x) /\ InHand(x)' = InHand(x)
      BY <1>1, <1>4, <1>5, <1>6, <2>3 DEF Busy, InHand
    <3> QED
      BY <1>1, <1>3, <2>1, <3>1, <3>2, QuietWithin
  <2> QED
    BY <2>2, <2>3
<1> QED
  BY <1>1, <1>3, <1>8 DEF CollisionsInv

\* A thread sends and stores; it is no longer among those that do.
LEMMA SendCollisions ==
  ASSUME TInv, TInv', MInv, CollisionsInv, NEW s \in Created, NEW n \in InHand(s),
         NEW packets, Created' = Created, overlaps' = overlaps,
         wire' = wire \cup {Datagram(s, n, packets)}, Number(s)' = NextNumber(n),
         Busy(s)' = Busy(s) - 1, InHand(s)' \subseteq InHand(s),
         \A x \in Created \ {s} : /\ Number(x)' = Number(x)
                                  /\ Busy(x)' <= Busy(x) /\ InHand(x)' \subseteq InHand(x)
  PROVE  CollisionsInv'
<1> DEFINE d == Datagram(s, n, packets)
<1>1. d.session = s
  BY DEF Datagram
<1> HIDE DEF d
<1>2. IsFiniteSet(wire')
  BY FS_AddElement DEF CollisionsInv
<1>3. ASSUME NEW x \in Created \ {s}
      PROVE  /\ Within(x, Number(x), Others(Busy(x)))'
             /\ \A m \in InHand(x)' : Within(x, m, Busy(x) - 1)'
  <2>1. Datagrams(x)' = Datagrams(x)
    BY <1>1 DEF Datagrams, d
  <2> QED
    BY <2>1, QuietWithin
<1>4. /\ Within(s, Number(s), Others(Busy(s)))'
      /\ \A m \in InHand(s)' : Within(s, m, Busy(s) - 1)'
  BY SendWithin
<1> QED
  BY <1>2, <1>3, <1>4 DEF CollisionsInv

LEMMA WorkerStores ==
  ASSUME TInv, TInv', MInv, CollisionsInv, NEW w \in Worker, NEW s \in Live,
         AcceptEnds(w, s)
  PROVE  CollisionsInv'
<1> DEFINE n == job[w].number
           packets == <<[kind |-> "accepted", id |-> Head(job[w].packets).id]>>
<1>1. /\ session' = [session EXCEPT ![s].sendSequenceNumber = NextNumber(n)]
      /\ wire' = wire \cup {Datagram(s, n, packets)} /\ Done(w)
      /\ w \in Senders(s) /\ UNCHANGED <<flush, overlaps>>
  BY DEF AcceptEnds, IsIn, IsAt, Senders, Sending, overlapVars
<1>2. session \in Seq(SessionType) /\ s \in Created /\ session[s] \in SessionType
  BY LiveCreated DEF TInv, SessionsOK, Created
<1>3. /\ Number(s)' = NextNumber(n) /\ Created' = Created
      /\ \A x \in Created \ {s} : Number(x)' = Number(x)
  BY <1>1, <1>2 DEF SessionType, Created, Number
<1>4. n \in InHand(s)
  BY <1>1 DEF InHand
<1>5. \A v \in Worker : job'[v].number # NoNumber => v # w /\ job'[v] = job[v]
  BY <1>1, LeaveNumbers
<1>6. job'[w].number = NoNumber /\ \A v \in Worker \ {w} : job'[v] = job[v]
  BY <1>1, <1>5 DEF TInv, Done
<1>7. Senders(s)' = Senders(s) \ {w}
  BY <1>6 DEF Senders, Sending
<1>8. Busy(s)' = Busy(s) - 1
  <2>1. Cardinality(Senders(s)) \in Nat /\ IsFiniteSet(Senders(s))
    BY <1>2, BusyTypes DEF BusyType
  <2>2. Cardinality(Senders(s)') = Cardinality(Senders(s)) - 1
    <3>1. PICK c \in Nat : c = Cardinality(Senders(s))
      BY <2>1
    <3>2. Cardinality(Senders(s) \ {w}) = IF w \in Senders(s) THEN c - 1 ELSE c
      BY <2>1, <3>1, FS_RemoveElement, Zenon
    <3> QED
      BY <1>1, <1>7, <3>1, <3>2
  <2> QED
    BY <1>1, <2>1, <2>2 DEF Busy
<1>9. \A x \in Created : Busy(x)' <= Busy(x) /\ InHand(x)' \subseteq InHand(x)
  BY <1>1, <1>3, <1>5, FewerSenders
<1> HIDE DEF n, packets
<1> QED
  BY <1>1, <1>2, <1>3, <1>4, <1>8, <1>9, SendCollisions

LEMMA UpdaterStores ==
  ASSUME TInv, TInv', MInv, CollisionsInv, FlushEnds
  PROVE  CollisionsInv'
<1>1. PICK s \in Created : s = flush.session
  BY LiveCreated DEF FlushEnds, TInv
<1> DEFINE n == flush.number
           packets == [k \in DOMAIN flush.packets |->
                         [kind |-> "pong", id |-> flush.packets[k]]]
<1>2. /\ session' = [session EXCEPT ![s].sendSequenceNumber = NextNumber(n),
                                    ![s].updateQueue = Cleared(s)]
      /\ wire' = wire \cup {Datagram(s, n, packets)} /\ flush' = NoFlush
      /\ UNCHANGED <<job, overlaps>>
  BY <1>1 DEF FlushEnds, poolVars, overlapVars
<1>3. session \in Seq(SessionType) /\ session[s] \in SessionType
  BY DEF TInv, SessionsOK, Created
<1>4. /\ Number(s)' = NextNumber(n) /\ Created' = Created
      /\ \A x \in Created \ {s} : Number(x)' = Number(x)
  BY <1>2, <1>3, SMTT(30) DEF SessionType, Created, Number
<1>5. n \in InHand(s)
  BY <1>1 DEF InHand
<1>6. \A x \in Created : flush'.session # x
  BY <1>2, AtCreated DEF NoFlush
<1>7. \A x \in Created : Senders(x)' = Senders(x)
  BY <1>2 DEF Senders, Sending
<1>8. \A x \in Created : Cardinality(Senders(x)) \in Nat
  BY BusyTypes DEF BusyType
<1>9. Busy(s)' = Busy(s) - 1
  BY <1>1, <1>6, <1>7, <1>8 DEF Busy
<1>10. \A x \in Created : Busy(x)' <= Busy(x) /\ InHand(x)' \subseteq InHand(x)
  <2>1. \A x \in Created : flush'.session = x => flush' = flush
    BY <1>6
  <2> QED
    BY <1>2, <1>4, <2>1, FewerSenders
<1> HIDE DEF n, packets
<1> QED
  BY <1>2, <1>4, <1>5, <1>9, <1>10, SendCollisions

LEMMA WorkerCollisions ==
  ASSUME TInv, TInv', MInv, CollisionsInv, NEW w \in Worker, WorkerStep(w)
  PROVE  CollisionsInv'
<1>1. CASE WorkerTakes(w)
  BY <1>1, QuietCollisions DEF WorkerTakes, TInv, Quiet, sentVars, Created, Number
<1>2. ASSUME NEW s \in Live, WorkerConnects(w, s) \/ AnswerPing(w, s) PROVE CollisionsInv'
  <2>1. UNCHANGED <<flush, wire, overlaps>> /\ Done(w)
    BY <1>2 DEF WorkerConnects, AnswerPing, sentVars, overlapVars
  <2>2. \/ \E x : session' = [session EXCEPT ![s].state = x]
        \/ \E x : session' = [session EXCEPT ![s].updateQueue = x]
    BY <1>2 DEF WorkerConnects, AnswerPing
  <2>3. Quiet
    BY <2>1, <2>2, OtherField, LeaveNumbers DEF TInv, Quiet, Number
  <2> QED
    BY <2>3, QuietCollisions
<1>3. ASSUME NEW s \in Live, NEW v \in Worker, PingsCollide(w, v, s) PROVE CollisionsInv'
  <2>1. /\ UNCHANGED <<flush, wire, overlaps>>
        /\ job' = [job EXCEPT ![w] = AfterPacket(job[w]), ![v] = AfterPacket(job[v])]
        /\ \E x : session' = [session EXCEPT ![s].updateQueue = x]
    BY <1>3 DEF PingsCollide
  <2>2. \A x \in Worker : job'[x].number # NoNumber => job'[x] = job[x]
    BY <2>1, NoNumberAfter DEF TInv
  <2>3. Quiet
    BY <2>1, <2>2, OtherField DEF TInv, Quiet, Number
  <2> QED
    BY <2>3, QuietCollisions
<1>4. CASE Passes(w) \/ DecodeThrows(w) \/ WorkerReturns(w)
  <2>1. /\ UNCHANGED <<session, flush, wire, overlaps>>
        /\ Done(w) \/ job' = [job EXCEPT ![w] = NoJob]
    BY <1>4 DEF Passes, DecodeThrows, WorkerReturns, sentVars, overlapVars
  <2>2. Quiet
    BY <2>1, LeaveNumbers DEF Quiet, Created, Number
  <2> QED
    BY <2>2, QuietCollisions
<1>5. CASE WorkerMisuses(w)
  <2>1. UNCHANGED <<session, flush, wire, overlaps, job>>
    BY <1>5 DEF WorkerMisuses, sentVars, overlapVars, poolVars
  <2> QED
    BY <2>1, QuietCollisions DEF Quiet, Created, Number
<1> QED
  BY <1>1, <1>2, <1>3, <1>4, <1>5, WorkerLoads, WorkerStores DEF WorkerStep, HandleRawPacket

LEMMA Step_CollisionsInv == TInv /\ MInv /\ CollisionsInv /\ [Next]_vars => CollisionsInv'
<1> SUFFICES ASSUME TInv, MInv, CollisionsInv, [Next]_vars PROVE CollisionsInv'
  OBVIOUS
<1>1. TInv'
  BY Step_TInv
<1>2. ASSUME NEW a \in Address, Receive(a) PROVE CollisionsInv'
  <2>1. UNCHANGED <<job, flush, wire>>
    BY <1>2 DEF Receive, PingArrives, Request1Arrives, DisconnectArrives, Request2Arrives,
                DatagramArrives, ReceiverSpins, poolVars, sentVars
  <2>2. \/ UNCHANGED <<session, overlaps>>
        \/ /\ \E mtu : session' = Append(session, NewSession(a, mtu))
           /\ overlaps' = Append(overlaps, 0)
    BY <1>2 DEF Receive, PingArrives, Request1Arrives, DisconnectArrives, Request2Arrives,
                DatagramArrives, ReceiverSpins, overlapVars
  <2>3. CASE UNCHANGED <<session, overlaps>>
    BY <1>1, <2>1, <2>3, QuietCollisions DEF Quiet, Created, Number
  <2> QED
    BY <1>1, <2>1, <2>2, <2>3, CreateCollisions
<1>3. ASSUME NEW s \in Live, UpdaterTimesOut(s) PROVE CollisionsInv'
  <2>1. /\ UNCHANGED <<flush, wire, overlaps, job>>
        /\ \E x : session' = [session EXCEPT ![s].state = x]
    BY <1>3 DEF UpdaterTimesOut, poolVars, sentVars, overlapVars
  <2>2. Quiet
    BY <2>1, OtherField DEF TInv, Quiet, Number
  <2> QED
    BY <1>1, <2>2, QuietCollisions
<1>4. CASE UpdaterMisuses \/ Stop \/ UNCHANGED vars
  <2>1. UNCHANGED <<session, flush, wire, overlaps, job>>
    BY <1>4 DEF UpdaterMisuses, Stop, vars, poolVars, sentVars, overlapVars
  <2> QED
    BY <1>1, <2>1, QuietCollisions DEF Quiet, Created, Number
<1> QED
  BY <1>1, <1>2, <1>3, <1>4, WorkerCollisions, UpdaterLoads, UpdaterStores DEF Next

LEMMA Start_CollisionsInv == Init => CollisionsInv
BY FS_EmptySet DEF Init, CollisionsInv, Created

\* For each time that a thread loads the number of a session while another has yet
\* to store it, at most one more datagram of the session goes out under a number
\* that another has, however the workers and the updater interleave
\* (ReliabilityLayer.cpp:229).
THEOREM CollisionsAreBounded == Spec => []CollisionsBounded
BY Start_TInv, Step_TInv, Start_MInv, Step_MInv, Start_CollisionsInv, Step_CollisionsInv,
   CollisionsInvBounds, PTL DEF Spec

-----------------------------------------------------------------------------
(* Where a pong is *)

Queue(s) == session[s].updateQueue

Ids(packets) == {p.id : p \in ToSet(packets)}

\* Pongs that are somewhere behind handleRawPacket, and packets that are at it.
Used == Answered \cup ToSet(flush.packets) \cup Waiting \cup Lost

InJobs == UNION {Ids(job[w].packets) : w \in Worker}

AllEarlier(S, T) == \A x \in S : \A y \in T : Earlier(x, y)

Rising(q) == \A i, j \in 1 .. Len(q) : i < j => Earlier(q[i], q[j])

InOrder(packets) == \A i, j \in 1 .. Len(packets) : i < j => Earlier(packets[i].id, packets[j].id)

Distinct(q) == \A i, j \in 1 .. Len(q) : i # j => q[i] # q[j]

\* The packets of tasks[i] come behind all that were taken before.
TaskInv(i) ==
  /\ InOrder(tasks[i].packets)
  /\ AllEarlier(Used \cup InJobs, Ids(tasks[i].packets))
  /\ \A j \in 1 .. Len(tasks) : i < j => AllEarlier(Ids(tasks[i].packets), Ids(tasks[j].packets))
  /\ \A x \in Ids(tasks[i].packets) : x[1] < arrived

TasksInv ==
  /\ \A i \in 1 .. Len(tasks) : TaskInv(i)
  /\ \A x \in Used \cup InJobs : x \in IdType /\ x[1] < arrived

\* A packet is at one worker, and what it asks for is still to be done.
JobsInv ==
  \A w \in Worker :
    /\ InOrder(job[w].packets) /\ Ids(job[w].packets) \cap Used = {}
    /\ \A v \in Worker \ {w} : Ids(job[w].packets) \cap Ids(job[v].packets) = {}

\* A pong waits once; and none waits at the session that is being flushed, if no
\* thread got in the way and the datagram had room for all.
QueuesInv ==
  /\ \A s \in Created : Distinct(Queue(s))
  /\ \A s, t \in Created : s # t => ToSet(Queue(s)) \cap ToSet(Queue(t)) = {}
  /\ flush.session \in Created \ (raced \cup crowded) => Queue(flush.session) = <<>>

LEMMA WhatIsUsed ==
  /\ \A x : x \in Answered <=> \E d \in wire : x \in Pongs(d)
  /\ \A x : x \in Waiting <=> \E s \in Created : x \in ToSet(Queue(s))
  /\ \A x : x \in Lost <=> \E l \in lost : x = l.id
  /\ \A x : x \in InJobs <=> \E w \in Worker : x \in Ids(job[w].packets)
BY DEF Answered, Waiting, Lost, InJobs, Created, Queue

LEMMA NoIds == Ids(<<>>) = {} /\ ToSet(<<>>) = {} /\ InOrder(<<>>) /\ Rising(<<>>) /\ Distinct(<<>>)
BY DEF Ids, ToSet, InOrder, Rising, Distinct

\* What is left when the first packet is done.
LEMMA NextPackets ==
  ASSUME NEW packets \in PacketsType, packets # <<>>
  PROVE  /\ Head(packets).id \in Ids(packets) /\ Ids(Tail(packets)) \subseteq Ids(packets)
         /\ InOrder(packets) => InOrder(Tail(packets))
                                /\ AllEarlier({Head(packets).id}, Ids(Tail(packets)))
<1>1. /\ Len(packets) \in Nat \ {0} /\ Head(packets) = packets[1]
      /\ Len(Tail(packets)) = Len(packets) - 1
      /\ \A k \in 1 .. Len(packets) - 1 : Tail(packets)[k] = packets[k + 1]
  BY DEF PacketsType
<1>2. DOMAIN packets = 1 .. Len(packets) /\ DOMAIN Tail(packets) = 1 .. Len(packets) - 1
  BY <1>1 DEF PacketsType
<1>3. Head(packets).id \in Ids(packets)
  BY <1>1, <1>2 DEF Ids, ToSet
<1>4. \A x \in Ids(Tail(packets)) : \E k \in 2 .. Len(packets) : x = packets[k].id
  BY <1>1, <1>2 DEF Ids, ToSet
<1>5. Ids(Tail(packets)) \subseteq Ids(packets)
  BY <1>1, <1>2, <1>4 DEF Ids, ToSet
<1>6. ASSUME InOrder(packets) PROVE AllEarlier({Head(packets).id}, Ids(Tail(packets)))
  BY <1>1, <1>4, <1>6 DEF InOrder, AllEarlier
<1>7. ASSUME InOrder(packets) PROVE InOrder(Tail(packets))
  BY <1>1, <1>7 DEF InOrder
<1> QED
  BY <1>3, <1>5, <1>6, <1>7

\* The packets that the worker is at have types, and so do their names.
LEMMA PacketsAt ==
  ASSUME TInv
  PROVE  /\ \A w \in Worker : job[w].packets \in PacketsType
         /\ \A i \in 1 .. Len(tasks) : tasks[i].packets \in PacketsType
         /\ \A packets \in PacketsType : \A x \in Ids(packets) : x \in IdType
<1>1. <<>> \in PacketsType
  BY DEF PacketsType
<1>2. \A w \in Worker : job[w].packets \in PacketsType
  BY <1>1 DEF TInv, PoolOK, NoJob, JobType
<1>3. \A i \in 1 .. Len(tasks) : tasks[i].packets \in PacketsType
  <2>1. tasks \in Seq(TaskType)
    BY DEF TInv, PoolOK
  <2>2. \A i \in 1 .. Len(tasks) : tasks[i] \in TaskType
    BY <2>1
  <2> QED
    BY <2>2 DEF TaskType
<1>4. ASSUME NEW packets \in PacketsType, NEW x \in Ids(packets) PROVE x \in IdType
  <2>1. packets \in Seq([kind : Kind, id : IdType])
    BY DEF PacketsType
  <2>2. \A p \in ToSet(packets) : p \in [kind : Kind, id : IdType]
    BY <2>1, ElementsIn
  <2>3. PICK p \in ToSet(packets) : x = p.id
    BY DEF Ids
  <2> QED
    BY <2>2, <2>3
<1> QED
  BY <1>2, <1>3, <1>4

\* No packet comes before itself.
LEMMA NotBeforeItself == \A x \in IdType : ~Earlier(x, x)
BY DEF IdType, Earlier

\* What becomes of the jobs when no worker takes a task: packets are left behind.
JobsShrink ==
  /\ \A w \in Worker : /\ Ids(job'[w].packets) \subseteq Ids(job[w].packets)
                       /\ InOrder(job[w].packets) => InOrder(job'[w].packets)
                       /\ job'[w].session \in {job[w].session, NoSession}

LEMMA NoChangeShrinks == ASSUME UNCHANGED job PROVE JobsShrink
BY DEF JobsShrink

LEMMA ReturnShrinks ==
  ASSUME TInv, NEW w \in Worker, job' = [job EXCEPT ![w] = NoJob]
  PROVE  JobsShrink
<1>1. job'[w] = NoJob /\ \A v \in Worker \ {w} : job'[v] = job[v]
  BY DEF TInv
<1> QED
  BY <1>1, NoIds DEF JobsShrink, NoJob

LEMMA AfterShrinks ==
  ASSUME TInv, NEW w \in Worker, job[w].packets # <<>>
  PROVE  /\ AfterPacket(job[w]).packets = Tail(job[w].packets)
         /\ AfterPacket(job[w]).session = job[w].session
<1>1. job[w] \in JobType
  BY JobOfWorker
<1> QED
  BY <1>1 DEF AfterPacket, JobType

LEMMA DoneShrinks ==
  ASSUME TInv, NEW w \in Worker, job[w].packets # <<>>, Done(w)
  PROVE  /\ JobsShrink
         /\ job'[w].packets = Tail(job[w].packets) /\ job'[w].session = job[w].session
         /\ \A v \in Worker \ {w} : job'[v] = job[v]
<1>1. job'[w] = AfterPacket(job[w]) /\ \A v \in Worker \ {w} : job'[v] = job[v]
  BY DEF TInv, Done
<1>2. job'[w].packets = Tail(job[w].packets) /\ job'[w].session = job[w].session
  BY <1>1, AfterShrinks
<1>3. job[w].packets \in PacketsType
  BY PacketsAt
<1> QED
  BY <1>1, <1>2, <1>3, NextPackets DEF JobsShrink

\* Nothing is used but what a worker has left behind.
LEMMA JobsGoOn ==
  ASSUME TInv, TasksInv, JobsInv, JobsShrink, tasks' = tasks,
         arrived' \in Nat, arrived <= arrived',
         NEW N, N \subseteq InJobs, Used' \subseteq Used \cup N,
         \A w \in Worker : N \cap Ids(job'[w].packets) = {}
  PROVE  TasksInv' /\ JobsInv'
<1>1. InJobs' \subseteq InJobs
  BY DEF InJobs, JobsShrink
<1>2. Used' \cup InJobs' \subseteq Used \cup InJobs
  BY <1>1
<1>3. \A x \in Used \cup InJobs : x \in IdType /\ x[1] < arrived
  BY DEF TasksInv
<1>4. \A x \in IdType : x[1] \in Nat
  BY DEF IdType
<1>5. arrived \in Nat
  BY DEF TInv, RestOK
<1>6. \A x \in IdType : x[1] < arrived => x[1] < arrived'
  BY <1>4, <1>5
<1>7. ASSUME NEW i \in 1 .. Len(tasks') PROVE TaskInv(i)'
  <2>1. TaskInv(i)
    BY <1>7 DEF TasksInv
  <2>2. \A x \in Ids(tasks[i].packets) : x \in IdType
    BY <1>7, PacketsAt
  <2>3. InOrder(tasks[i].packets)'
    BY <2>1 DEF TaskInv
  <2>4. AllEarlier(Used \cup InJobs, Ids(tasks[i].packets))'
    BY <1>2, <2>1 DEF TaskInv, AllEarlier
  <2>5. \A j \in 1 .. Len(tasks') : i < j =>
          AllEarlier(Ids(tasks[i].packets), Ids(tasks[j].packets))'
    BY <2>1 DEF TaskInv
  <2>6. \A x \in Ids(tasks'[i].packets) : x[1] < arrived'
    BY <1>6, <2>1, <2>2 DEF TaskInv
  <2> QED
    BY <2>3, <2>4, <2>5, <2>6 DEF TaskInv
<1>8. TasksInv'
  BY <1>2, <1>3, <1>6, <1>7 DEF TasksInv
<1>9. JobsInv'
  BY DEF JobsInv, JobsShrink
<1> QED
  BY <1>8, <1>9
\* The queues when one field of a session is changed.
LEMMA QueueChange ==
  ASSUME SessionsOK, NEW s \in Live, NEW q, session' = [session EXCEPT ![s].updateQueue = q]
  PROVE  /\ Created' = Created /\ s \in Created /\ Queue(s)' = q
         /\ \A x \in Created \ {s} : Queue(x)' = Queue(x)
<1>1. session \in Seq(SessionType) /\ s \in 1 .. Len(session)
  BY LiveCreated DEF SessionsOK, Created
<1>2. session[s] \in SessionType
  BY <1>1
<1> QED
  BY <1>1, <1>2 DEF SessionType, Created, Queue

LEMMA OtherChange ==
  ASSUME SessionsOK, NEW s \in Live,
         \/ \E x : session' = [session EXCEPT ![s].state = x]
         \/ \E x : session' = [session EXCEPT ![s].sendSequenceNumber = x]
  PROVE  /\ Created' = Created
         /\ \A x \in Created : Queue(x)' = Queue(x)
<1>1. session \in Seq(SessionType) /\ s \in 1 .. Len(session)
  BY LiveCreated DEF SessionsOK, Created
<1>2. session[s] \in SessionType
  BY <1>1
<1>3. CASE \E x : session' = [session EXCEPT ![s].state = x]
  BY <1>1, <1>2, <1>3 DEF SessionType, Created, Queue
<1>4. CASE \E x : session' = [session EXCEPT ![s].sendSequenceNumber = x]
  BY <1>1, <1>2, <1>4 DEF SessionType, Created, Queue
<1> QED
  BY <1>3, <1>4

LEMMA QueueType == ASSUME TInv, NEW s \in Created PROVE Queue(s) \in Seq(IdType)
<1>1. session[s] \in SessionType
  BY DEF TInv, SessionsOK, Created
<1> QED
  BY <1>1 DEF SessionType, Queue

LEMMA Appended ==
  ASSUME NEW q \in Seq(IdType), NEW id \in IdType, NEW r, r = Append(q, id)
  PROVE  /\ r \in Seq(IdType) /\ ToSet(r) = ToSet(q) \cup {id}
         /\ Distinct(q) /\ id \notin ToSet(q) => Distinct(r)
         /\ Rising(q) /\ AllEarlier(ToSet(q), {id}) => Rising(r)
<1>1. /\ Len(q) \in Nat /\ Len(r) = Len(q) + 1 /\ r[Len(q) + 1] = id
      /\ \A k \in 1 .. Len(q) : r[k] = q[k]
  OBVIOUS
<1>2. DOMAIN r = 1 .. Len(q) + 1 /\ DOMAIN q = 1 .. Len(q)
  OBVIOUS
<1>3. ToSet(r) = ToSet(q) \cup {id}
  BY <1>1, <1>2 DEF ToSet
<1>4. ASSUME Distinct(q), id \notin ToSet(q) PROVE Distinct(r)
  BY <1>1, <1>2, <1>4 DEF Distinct, ToSet
<1>5. ASSUME Rising(q), AllEarlier(ToSet(q), {id}) PROVE Rising(r)
  BY <1>1, <1>2, <1>5 DEF Rising, ToSet, AllEarlier
<1> QED
  BY <1>3, <1>4, <1>5

\* A queue is cut behind its n-th pong.
LEMMA Cut ==
  ASSUME NEW q \in Seq(IdType), NEW n \in 0 .. Len(q),
         NEW front, front = SubSeq(q, 1, n), NEW rest, rest = SubSeq(q, n + 1, Len(q))
  PROVE  /\ ToSet(front) \cup ToSet(rest) = ToSet(q)
         /\ Distinct(q) => Distinct(rest) /\ ToSet(front) \cap ToSet(rest) = {}
         /\ Rising(q) => Rising(front) /\ Rising(rest) /\ AllEarlier(ToSet(front), ToSet(rest))
         /\ n = Len(q) => rest = <<>>
<1>1. Len(q) \in Nat /\ n \in Nat /\ n <= Len(q)
  OBVIOUS
<1>2. DOMAIN q = 1 .. Len(q) /\ DOMAIN front = 1 .. n /\ DOMAIN rest = 1 .. Len(q) - n
  OBVIOUS
<1>3. /\ \A k \in 1 .. n : front[k] = q[k]
      /\ \A k \in 1 .. Len(q) - n : rest[k] = q[n + k]
      /\ Len(front) = n /\ Len(rest) = Len(q) - n /\ rest \in Seq(IdType)
  OBVIOUS
<1>4. \A x \in ToSet(front) : \E k \in 1 .. n : x = q[k]
  BY <1>2, <1>3 DEF ToSet
<1>5. ASSUME NEW x \in ToSet(rest) PROVE \E k \in n + 1 .. Len(q) : x = q[k]
  <2>1. PICK k \in 1 .. Len(q) - n : x = rest[k]
    BY <1>2 DEF ToSet
  <2>2. n + k \in n + 1 .. Len(q) /\ rest[k] = q[n + k]
    BY <1>1, <1>3
  <2> QED
    BY <2>1, <2>2
<1>6. \A k \in 1 .. n : q[k] \in ToSet(front)
  BY <1>2, <1>3 DEF ToSet
<1>7. ASSUME NEW k \in n + 1 .. Len(q) PROVE q[k] \in ToSet(rest)
  <2>1. k - n \in 1 .. Len(q) - n /\ n + (k - n) = k
    BY <1>1
  <2>2. rest[k - n] = q[k]
    BY <1>3, <2>1
  <2> QED
    BY <1>2, <2>1, <2>2 DEF ToSet
<1>8. \A k \in 1 .. Len(q) : k \in 1 .. n \/ k \in n + 1 .. Len(q)
  BY <1>1
<1>9. \A x \in ToSet(q) : \E k \in 1 .. Len(q) : x = q[k]
  BY <1>2 DEF ToSet
<1>10. \A k \in 1 .. Len(q) : q[k] \in ToSet(q)
  BY <1>2 DEF ToSet
<1>11. 1 .. n \subseteq 1 .. Len(q) /\ n + 1 .. Len(q) \subseteq 1 .. Len(q)
  BY <1>1
<1>12. ToSet(front) \cup ToSet(rest) = ToSet(q)
  <2>1. ToSet(q) \subseteq ToSet(front) \cup ToSet(rest)
    BY <1>6, <1>7, <1>8, <1>9
  <2>2. ToSet(front) \cup ToSet(rest) \subseteq ToSet(q)
    BY <1>4, <1>5, <1>10, <1>11
  <2> QED
    BY <2>1, <2>2
<1>13. \A k \in 1 .. n : \A i \in n + 1 .. Len(q) : k < i
  BY <1>1
<1>14. ASSUME Distinct(q) PROVE Distinct(rest) /\ ToSet(front) \cap ToSet(rest) = {}
  <2>1. ToSet(front) \cap ToSet(rest) = {}
    <3> SUFFICES ASSUME NEW k \in 1 .. n, NEW i \in n + 1 .. Len(q) PROVE q[k] # q[i]
      BY <1>4, <1>5
    <3>1. k \in 1 .. Len(q) /\ i \in 1 .. Len(q) /\ k # i
      BY <1>11, <1>13
    <3> QED
      BY <1>14, <3>1 DEF Distinct
  <2>2. Distinct(rest)
    <3> SUFFICES ASSUME NEW i \in 1 .. Len(q) - n, NEW j \in 1 .. Len(q) - n, i # j
                 PROVE  rest[i] # rest[j]
      BY <1>3 DEF Distinct
    <3>1. n + i \in 1 .. Len(q) /\ n + j \in 1 .. Len(q) /\ n + i # n + j
      BY <1>1
    <3> QED
      BY <1>3, <1>14, <3>1 DEF Distinct
  <2> QED
    BY <2>1, <2>2
<1>15. ASSUME Rising(q)
      PROVE  Rising(front) /\ Rising(rest) /\ AllEarlier(ToSet(front), ToSet(rest))
  <2>1. AllEarlier(ToSet(front), ToSet(rest))
    <3> SUFFICES ASSUME NEW k \in 1 .. n, NEW i \in n + 1 .. Len(q) PROVE Earlier(q[k], q[i])
      BY <1>4, <1>5 DEF AllEarlier
    <3>1. k \in 1 .. Len(q) /\ i \in 1 .. Len(q) /\ k < i
      BY <1>11, <1>13
    <3> QED
      BY <1>15, <3>1 DEF Rising
  <2>2. Rising(rest)
    <3> SUFFICES ASSUME NEW i \in 1 .. Len(q) - n, NEW j \in 1 .. Len(q) - n, i < j
                 PROVE  Earlier(rest[i], rest[j])
      BY <1>3 DEF Rising
    <3>1. n + i \in 1 .. Len(q) /\ n + j \in 1 .. Len(q) /\ n + i < n + j
      BY <1>1
    <3> QED
      BY <1>3, <1>15, <3>1 DEF Rising
  <2>3. Rising(front)
    BY <1>11, <1>15, <1>3 DEF Rising
  <2> QED
    BY <2>1, <2>2, <2>3
<1>16. n = Len(q) => rest = <<>>
  BY <1>1, <1>3
<1> QED
  BY <1>12, <1>14, <1>15, <1>16

\* Nothing happens to the pongs, but a datagram without any may be sent.
SamePongs ==
  /\ Created \subseteq Created' /\ flush' = flush /\ lost' = lost
  /\ raced \subseteq raced' /\ together \subseteq together' /\ crowded \subseteq crowded'
  /\ \A s \in Created : Queue(s)' = Queue(s)
  /\ \A s \in Created' \ Created : Queue(s)' = <<>>
  /\ \/ wire' = wire
     \/ \E d : wire' = wire \cup {d} /\ Pongs(d) = {} /\ Len(d.packets) = 1

LEMMA SamePlaces ==
  ASSUME TInv, SamePongs
  PROVE  Answered' = Answered /\ Waiting' = Waiting /\ Lost' = Lost /\ Used' = Used
<1>1. Answered' = Answered
  BY DEF SamePongs, Answered
<1>2. Waiting' = Waiting
  <2>1. Waiting = UNION {ToSet(Queue(s)) : s \in Created}
    BY DEF Waiting, Queue, Created
  <2>2. Waiting' = UNION {ToSet(Queue(s)') : s \in Created'}
    BY DEF Waiting, Queue, Created
  <2>3. \A s \in Created' : ToSet(Queue(s)') = IF s \in Created THEN ToSet(Queue(s)) ELSE {}
    BY NoIds DEF SamePongs
  <2>4. Created \subseteq Created'
    BY DEF SamePongs
  <2>5. ASSUME NEW x PROVE x \in Waiting' <=> x \in Waiting
    BY <2>1, <2>2, <2>3, <2>4
  <2> QED
    BY <2>5
<1>3. Lost' = Lost
  BY DEF SamePongs, Lost
<1> QED
  BY <1>1, <1>2, <1>3 DEF Used, SamePongs

LEMMA QuietPlaces ==
  ASSUME TInv, PongsAccounted, QueuesInv, SamePongs
  PROVE  PongsAccounted' /\ QueuesInv'
<1>1. Answered' = Answered /\ Waiting' = Waiting /\ Lost' = Lost
  BY SamePlaces
<1>2. PongsAccounted'
  <2>1. \A d, e \in wire' : Pongs(d) \cap Pongs(e) # {} => d = e
    BY DEF PongsAccounted, SamePongs
  <2>2. \A l \in lost' : l.session \in crowded' \cup raced'
    BY DEF PongsAccounted, SamePongs
  <2> QED
    BY <1>1, <2>1, <2>2 DEF PongsAccounted, SamePongs
<1>3. \A s \in Created' : Distinct(Queue(s)')
  BY NoIds DEF QueuesInv, SamePongs
<1>4. \A s, t \in Created' : s # t => ToSet(Queue(s)') \cap ToSet(Queue(t)') = {}
  BY NoIds DEF QueuesInv, SamePongs
<1>5. flush'.session \in Created' \ (raced' \cup crowded') => Queue(flush.session)' = <<>>
  BY DEF QueuesInv, SamePongs
<1> QED
  BY <1>2, <1>3, <1>4, <1>5 DEF QueuesInv, SamePongs
LEMMA WhereUsed ==
  ASSUME JobsInv, NEW w \in Worker, NEW x \in Ids(job[w].packets)
  PROVE  /\ x \notin Answered /\ x \notin ToSet(flush.packets)
         /\ x \notin Waiting /\ x \notin Lost
         /\ \A s \in Created : x \notin ToSet(Queue(s))
BY WhatIsUsed DEF JobsInv, Used

\* The pong id comes into the queue of s.
Grows(s, id) ==
  /\ Created' = Created /\ s \in Created
  /\ \A x \in Created \ {s} : Queue(x)' = Queue(x)
  /\ ToSet(Queue(s)') = ToSet(Queue(s)) \cup {id}
  /\ Distinct(Queue(s)) /\ id \notin ToSet(Queue(s)) => Distinct(Queue(s)')
  /\ Rising(Queue(s)) /\ AllEarlier(ToSet(Queue(s)), {id}) => Rising(Queue(s)')

LEMMA QueueGrows ==
  ASSUME TInv, NEW s \in Live, NEW id \in IdType,
         session' = [session EXCEPT ![s].updateQueue = Append(@, id)]
  PROVE  Grows(s, id)
<1>1. session' = [session EXCEPT ![s].updateQueue = Append(session[s].updateQueue, id)]
  BY LiveCreated DEF TInv, SessionsOK
<1>2. /\ Created' = Created /\ s \in Created /\ Queue(s)' = Append(Queue(s), id)
      /\ \A x \in Created \ {s} : Queue(x)' = Queue(x)
  BY <1>1, QueueChange DEF TInv, Queue
<1>3. Queue(s) \in Seq(IdType)
  BY <1>2, QueueType
<1>4. /\ ToSet(Queue(s)') = ToSet(Queue(s)) \cup {id}
      /\ Distinct(Queue(s)) /\ id \notin ToSet(Queue(s)) => Distinct(Queue(s)')
      /\ Rising(Queue(s)) /\ AllEarlier(ToSet(Queue(s)), {id}) => Rising(Queue(s)')
  BY <1>2, <1>3, Appended, Zenon
<1> QED
  BY <1>2, <1>4 DEF Grows

\* A pong is put into the queue of s, and perhaps another is lost there.
LEMMA PongQueued ==
  ASSUME TInv, JobsInv, PongsAccounted, QueuesInv,
         NEW s \in Created, NEW w \in Worker, NEW v \in Worker,
         NEW id \in Ids(job[w].packets), NEW other \in Ids(job[v].packets),
         Grows(s, id), raced \subseteq raced', flush.session = s => s \in raced',
         lost \subseteq lost',
         \A l \in lost' \ lost : l.id = other /\ l.session = s /\ w # v /\ s \in raced',
         UNCHANGED <<flush, wire, crowded>>
  PROVE  PongsAccounted' /\ QueuesInv' /\ Used' \subseteq Used \cup {id, other}
<1>1. /\ Created' = Created /\ s \in Created
      /\ \A x \in Created \ {s} : Queue(x)' = Queue(x)
  BY DEF Grows
<1>2. id \in Ids(job[w].packets) /\ other \in Ids(job[v].packets)
  OBVIOUS
<1>3. id \in IdType
  BY <1>2, PacketsAt
<1>4. /\ id \notin Answered /\ id \notin ToSet(flush.packets) /\ id \notin Waiting
      /\ id \notin Lost /\ \A x \in Created : id \notin ToSet(Queue(x))
  BY <1>2, WhereUsed
<1>5. /\ other \notin Answered /\ other \notin ToSet(flush.packets)
      /\ other \notin Waiting /\ other \notin Lost
  BY <1>2, WhereUsed
<1>6. w # v => id # other
  BY <1>2 DEF JobsInv
<1>7. /\ ToSet(Queue(s)') = ToSet(Queue(s)) \cup {id}
      /\ Distinct(Queue(s)) => Distinct(Queue(s)')
  BY <1>1, <1>4 DEF Grows
<1>8. Waiting' = Waiting \cup {id}
  <2>1. \A x : x \in Waiting' <=> \E y \in Created : x \in ToSet(Queue(y)')
    BY <1>1 DEF Waiting, Created, Queue
  <2>2. ASSUME NEW x PROVE x \in Waiting' <=> x \in Waiting \cup {id}
    BY <1>1, <1>7, <2>1, WhatIsUsed
  <2> QED
    BY <2>2
<1>9. Answered' = Answered
  BY DEF Answered
<1>10. Lost \subseteq Lost' /\ Lost' \subseteq Lost \cup {x \in {other} : w # v}
  BY DEF Lost
<1>11. Used' \subseteq Used \cup {id, other}
  BY <1>8, <1>9, <1>10 DEF Used
<1>12. PongsAccounted'
  <2>1. \A d, e \in wire' : Pongs(d) \cap Pongs(e) # {} => d = e
    BY DEF PongsAccounted
  <2>2. Answered' \cap (ToSet(flush'.packets) \cup Waiting' \cup Lost') = {}
    BY <1>4, <1>5, <1>8, <1>9, <1>10 DEF PongsAccounted
  <2>3. ToSet(flush'.packets) \cap (Waiting' \cup Lost') = {} /\ Waiting' \cap Lost' = {}
    BY <1>4, <1>5, <1>6, <1>8, <1>10 DEF PongsAccounted
  <2>4. \A l \in lost' : l.session \in crowded' \cup raced'
    BY DEF PongsAccounted
  <2> QED
    BY <2>1, <2>2, <2>3, <2>4 DEF PongsAccounted
<1>13. QueuesInv'
  <2>1. ASSUME NEW x \in Created' PROVE Distinct(Queue(x))'
    BY <1>1, <1>4, <1>7 DEF QueuesInv
  <2>2. ASSUME NEW x \in Created', NEW y \in Created', x # y
        PROVE  (ToSet(Queue(x)) \cap ToSet(Queue(y)) = {})'
    <3>1. ToSet(Queue(x)) \cap ToSet(Queue(y)) = {} /\ id \notin ToSet(Queue(x)) \cup ToSet(Queue(y))
      BY <1>1, <1>4, <2>2 DEF QueuesInv
    <3>2. /\ ToSet(Queue(x)') \subseteq ToSet(Queue(x)) \cup {z \in {id} : x = s}
          /\ ToSet(Queue(y)') \subseteq ToSet(Queue(y)) \cup {z \in {id} : y = s}
      BY <1>1, <1>7, <2>2
    <3>3. ToSet(Queue(x)') \cap ToSet(Queue(y)') = {}
      BY <2>2, <3>1, <3>2
    <3> QED
      BY <3>3
  <2>3. flush'.session \in Created' \ (raced' \cup crowded') => (Queue(flush.session) = <<>>)'
    BY <1>1 DEF QueuesInv
  <2> QED
    BY <2>1, <2>2, <2>3 DEF QueuesInv
<1> QED
  BY <1>1, <1>11, <1>12, <1>13

\* The updater begins with session s: the front of its queue is on its way.
LEMMA FlushBegun ==
  ASSUME TInv, NEW s \in Live, FlushBegins(s)
  PROVE  /\ Created' = Created /\ s \in Created
         /\ flush.packets = <<>> /\ flush'.session = s
         /\ \A x \in Created \ {s} : Queue(x)' = Queue(x)
         /\ ToSet(flush'.packets) \cup ToSet(Queue(s)') = ToSet(Queue(s))
         /\ Distinct(Queue(s)) =>
              Distinct(Queue(s)') /\ ToSet(flush'.packets) \cap ToSet(Queue(s)') = {}
         /\ Rising(Queue(s)) =>
              /\ Rising(flush'.packets) /\ Rising(Queue(s)')
              /\ AllEarlier(ToSet(flush'.packets), ToSet(Queue(s)'))
         /\ s \notin crowded' => Queue(s)' = <<>>
         /\ raced \subseteq raced' /\ crowded \subseteq crowded'
         /\ UNCHANGED <<job, tasks, arrived, wire, lost, together>>
<1> DEFINE q == Queue(s)
           n == Fitting(q)
           front == SubSeq(q, 1, n)
           rest == SubSeq(q, n + 1, Len(q))
<1>1. /\ flush = NoFlush /\ flush'.session = s /\ flush'.packets = front
      /\ session' = [session EXCEPT ![s].updateQueue = rest]
      /\ crowded' = crowded \cup {x \in {s} : Len(q) > Room}
      /\ raced \subseteq raced' /\ crowded \subseteq crowded'
      /\ UNCHANGED <<job, tasks, arrived, wire, lost, together>>
  BY DEF FlushBegins, Enters, Overlap, Queue, poolVars, receiverVars, sentVars
<1>2. /\ Created' = Created /\ s \in Created /\ Queue(s)' = rest
      /\ \A x \in Created \ {s} : Queue(x)' = Queue(x)
  BY <1>1, QueueChange DEF TInv
<1>3. q \in Seq(IdType) /\ Room \in Nat
  BY <1>2, QueueType, ConnectionAssumption
<1> HIDE DEF q
<1>4. n \in 0 .. Len(q) /\ (Len(q) <= Room => n = Len(q))
  BY <1>3 DEF Fitting, Smaller
<1>5. s \notin crowded' => n = Len(q)
  BY <1>1, <1>3, <1>4
<1> HIDE DEF n
<1>6. \A x, y : x = front /\ y = rest =>
        /\ ToSet(x) \cup ToSet(y) = ToSet(q)
        /\ Distinct(q) => Distinct(y) /\ ToSet(x) \cap ToSet(y) = {}
        /\ Rising(q) => Rising(x) /\ Rising(y) /\ AllEarlier(ToSet(x), ToSet(y))
        /\ n = Len(q) => y = <<>>
  BY <1>3, <1>4, Cut, Zenon
<1> HIDE DEF front, rest
<1> QED
  BY <1>1, <1>2, <1>5, <1>6 DEF q, NoFlush

LEMMA BeginPlaces ==
  ASSUME TInv, PongsAccounted, QueuesInv, NEW s \in Live, FlushBegins(s)
  PROVE  PongsAccounted' /\ QueuesInv' /\ Used' = Used
<1> DEFINE F == ToSet(flush'.packets)
           R == ToSet(Queue(s)')
<1>1. /\ Created' = Created /\ s \in Created /\ ToSet(flush.packets) = {}
      /\ F \cup R = ToSet(Queue(s)) /\ F \cap R = {}
      /\ Distinct(Queue(s)') /\ flush'.session = s /\ (s \notin crowded' => Queue(s)' = <<>>)
  BY FlushBegun, NoIds DEF QueuesInv
<1>2. \A x \in Created \ {s} : Queue(x)' = Queue(x) /\ F \cap ToSet(Queue(x)) = {}
  <2>1. \A x \in Created \ {s} : Queue(x)' = Queue(x)
    BY FlushBegun
  <2>2. \A x \in Created \ {s} : ToSet(Queue(s)) \cap ToSet(Queue(x)) = {}
    BY <1>1 DEF QueuesInv
  <2> QED
    BY <1>1, <2>1, <2>2
<1>3. UNCHANGED <<wire, lost>> /\ raced \subseteq raced' /\ crowded \subseteq crowded'
  BY FlushBegun
<1>4. Answered' = Answered /\ Lost' = Lost
  BY <1>3 DEF Answered, Lost
<1>5. Waiting' \cup F = Waiting /\ Waiting' \cap F = {}
  <2>1. \A x : x \in Waiting' <=> \E y \in Created : x \in ToSet(Queue(y)')
    BY <1>1 DEF Waiting, Created, Queue
  <2>2. ASSUME NEW x PROVE x \in Waiting' <=> x \in Waiting \ F
    BY <1>1, <1>2, <2>1, WhatIsUsed
  <2>3. F \subseteq Waiting
    BY <1>1, WhatIsUsed
  <2> QED
    BY <2>2, <2>3
<1>6. Used' = Used
  BY <1>1, <1>4, <1>5 DEF Used
<1>7. PongsAccounted'
  <2>1. \A d, e \in wire' : Pongs(d) \cap Pongs(e) # {} => d = e
    BY <1>3 DEF PongsAccounted
  <2>2. Answered \cap Waiting = {} /\ Answered \cap Lost = {} /\ Waiting \cap Lost = {}
    BY DEF PongsAccounted
  <2>3. Answered' \cap (F \cup Waiting' \cup Lost') = {}
    BY <1>4, <1>5, <2>2
  <2>4. F \cap (Waiting' \cup Lost') = {} /\ Waiting' \cap Lost' = {}
    BY <1>4, <1>5, <2>2
  <2>5. \A l \in lost' : l.session \in crowded' \cup raced'
    BY <1>3 DEF PongsAccounted
  <2> QED
    BY <2>1, <2>3, <2>4, <2>5 DEF PongsAccounted
<1>8. QueuesInv'
  <2>1. ASSUME NEW x \in Created PROVE Distinct(Queue(x)')
    BY <1>1, <1>2 DEF QueuesInv
  <2>2. ASSUME NEW x \in Created, NEW y \in Created, x # y
        PROVE  ToSet(Queue(x)') \cap ToSet(Queue(y)') = {}
    <3>1. ToSet(Queue(x)) \cap ToSet(Queue(y)) = {}
      BY <2>2 DEF QueuesInv
    <3>2. \A z \in Created : ToSet(Queue(z)') \subseteq ToSet(Queue(z))
      BY <1>1, <1>2
    <3> QED
      BY <3>1, <3>2
  <2>3. flush'.session \in Created \ (raced' \cup crowded') => Queue(flush.session)' = <<>>
    BY <1>1
  <2> QED
    BY <1>1, <2>1, <2>2, <2>3 DEF QueuesInv
<1> QED
  BY <1>6, <1>7, <1>8

\* The updater is done: the pongs go out in a datagram, and the queue is cleared.
FlushDatagram ==
  Datagram(flush.session, flush.number,
           [k \in DOMAIN flush.packets |-> [kind |-> "pong", id |-> flush.packets[k]]])

LEMMA FlushEnded ==
  ASSUME TInv, FlushEnds, NEW s, s = flush.session
  PROVE  /\ Created' = Created /\ s \in Created
         /\ flush' = NoFlush /\ Queue(s)' = <<>>
         /\ \A x \in Created \ {s} : Queue(x)' = Queue(x)
         /\ wire' = wire \cup {FlushDatagram} /\ Pongs(FlushDatagram) = ToSet(flush.packets)
         /\ FlushDatagram.session = s /\ FlushDatagram.number = flush.number
         /\ Len(FlushDatagram.packets) = Len(flush.packets)
         /\ \A k \in 1 .. Len(flush.packets) : FlushDatagram.packets[k].id = flush.packets[k]
         /\ lost \subseteq lost'
         /\ \A l \in lost' \ lost : l.session = s /\ l.id \in ToSet(Queue(s))
         /\ \A id \in ToSet(Queue(s)) : \E l \in lost' : l.id = id
         /\ UNCHANGED <<job, tasks, arrived, raced, together, crowded>>
<1> DEFINE packets == [k \in DOMAIN flush.packets |->
                          [kind |-> "pong", id |-> flush.packets[k]]]
<1>1. /\ s \in Live /\ flush' = NoFlush /\ wire' = wire \cup {FlushDatagram}
      /\ session' = [session EXCEPT ![s].sendSequenceNumber = NextNumber(flush.number),
                                    ![s].updateQueue = <<>>]
      /\ lost' = lost \cup {[session |-> s, id |-> id] : id \in ToSet(Queue(s))}
      /\ UNCHANGED <<job, tasks, arrived, raced, together, crowded>>
  BY DEF FlushEnds, FlushDatagram, Queue, Cleared, poolVars, receiverVars, overlapVars
<1>2. session \in Seq(SessionType) /\ s \in 1 .. Len(session)
  BY <1>1, LiveCreated DEF TInv, SessionsOK, Created
<1>3. session[s] \in SessionType
  BY <1>2
<1>4. /\ Created' = Created /\ s \in Created /\ Queue(s)' = <<>>
      /\ \A x \in Created \ {s} : Queue(x)' = Queue(x)
  BY <1>1, <1>2, <1>3, SMTT(30) DEF SessionType, Created, Queue
<1>5. /\ FlushDatagram.session = s /\ FlushDatagram.number = flush.number
      /\ FlushDatagram.packets = packets
  BY DEF FlushDatagram, Datagram
<1>6. /\ DOMAIN packets = DOMAIN flush.packets
      /\ \A k \in DOMAIN flush.packets : packets[k].kind = "pong" /\ packets[k].id = flush.packets[k]
      /\ DOMAIN flush.packets = 1 .. Len(flush.packets) /\ Len(packets) = Len(flush.packets)
  <2>1. flush.packets \in Seq(IdType)
    <3>1. flush # NoFlush
      BY <1>4 DEF NoFlush, NoSession, Created
    <3> QED
      BY <3>1 DEF TInv, FlushOK, FlushType
  <2>2. packets \in [1 .. Len(flush.packets) -> [kind : Kind, id : IdType]]
    BY <2>1 DEF Kind
  <2>3. Len(packets) = Len(flush.packets)
    BY <2>1, <2>2, MadeSeq
  <2> QED
    BY <2>1, <2>3
<1> HIDE DEF packets
<1>7. Pongs(FlushDatagram) = ToSet(flush.packets)
  <2>1. Pongs(FlushDatagram) = {packets[k].id : k \in DOMAIN flush.packets}
    BY <1>5, <1>6 DEF Pongs, ToSet
  <2> QED
    BY <1>6, <2>1 DEF ToSet
<1>8. \A l \in lost' \ lost : l.session = s /\ l.id \in ToSet(Queue(s))
  BY <1>1
<1>9. ASSUME NEW id \in ToSet(Queue(s)) PROVE \E l \in lost' : l.id = id
  <2>1. [session |-> s, id |-> id] \in lost'
    BY <1>1
  <2> QED
    BY <2>1
<1> QED
  BY <1>1, <1>4, <1>5, <1>6, <1>7, <1>8, <1>9

LEMMA EndPlaces ==
  ASSUME TInv, PongsAccounted, QueuesInv, FlushEnds
  PROVE  PongsAccounted' /\ QueuesInv' /\ Used' = Used
<1>0. PICK s : s = flush.session
  OBVIOUS
<1> DEFINE F == ToSet(flush.packets)
           R == ToSet(Queue(s))
<1>1. /\ Created' = Created /\ s \in Created
      /\ flush'.session = NoSession /\ ToSet(flush'.packets) = {} /\ Queue(s)' = <<>>
      /\ UNCHANGED <<raced, crowded>>
  BY <1>0, FlushEnded, NoIds DEF NoFlush
<1>2. \A x \in Created \ {s} : Queue(x)' = Queue(x) /\ R \cap ToSet(Queue(x)) = {}
  BY <1>0, FlushEnded DEF QueuesInv
<1>3. /\ Answered \cap F = {} /\ Answered \cap Waiting = {} /\ Answered \cap Lost = {}
      /\ F \cap Waiting = {} /\ F \cap Lost = {} /\ Waiting \cap Lost = {}
  BY DEF PongsAccounted
<1>4. wire' = wire \cup {FlushDatagram} /\ Pongs(FlushDatagram) = F
  BY FlushEnded
<1>5. Answered' = Answered \cup F
  <2>1. ASSUME NEW x PROVE x \in Answered' <=> x \in Answered \cup F
    BY <1>4 DEF Answered
  <2> QED
    BY <2>1
<1>6. Waiting' = Waiting \ R /\ R \subseteq Waiting
  <2>1. \A x : x \in Waiting' <=> \E y \in Created : x \in ToSet(Queue(y)')
    BY <1>1 DEF Waiting, Created, Queue
  <2>2. ASSUME NEW x PROVE x \in Waiting' <=> x \in Waiting \ R
    BY <1>1, <1>2, <2>1, WhatIsUsed, NoIds
  <2>3. R \subseteq Waiting
    BY <1>1, WhatIsUsed
  <2> QED
    BY <2>2, <2>3
<1>7. /\ lost \subseteq lost' /\ \A l \in lost' \ lost : l.session = s /\ l.id \in R
      /\ \A id \in R : \E l \in lost' : l.id = id
  BY <1>0, FlushEnded
<1>8. Lost' = Lost \cup R
  <2>1. ASSUME NEW x PROVE x \in Lost' <=> x \in Lost \cup R
    BY <1>7 DEF Lost
  <2> QED
    BY <2>1
<1>9. Used' = Used
  BY <1>1, <1>5, <1>6, <1>8 DEF Used
<1>10. PongsAccounted'
  <2>1. ASSUME NEW d \in wire', NEW e \in wire', Pongs(d) \cap Pongs(e) # {} PROVE d = e
    <3>1. \A f \in wire : Pongs(f) \cap F = {}
      BY <1>3, WhatIsUsed
    <3>2. CASE d \in wire /\ e \in wire
      BY <2>1, <3>2 DEF PongsAccounted
    <3> QED
      BY <1>4, <2>1, <3>1, <3>2
  <2>2. Answered' \cap (ToSet(flush'.packets) \cup Waiting' \cup Lost') = {}
    BY <1>1, <1>3, <1>5, <1>6, <1>8
  <2>3. ToSet(flush'.packets) \cap (Waiting' \cup Lost') = {} /\ Waiting' \cap Lost' = {}
    BY <1>1, <1>3, <1>6, <1>8
  <2>4. ASSUME NEW l \in lost' PROVE l.session \in crowded' \cup raced'
    <3>1. CASE l \in lost
      BY <1>1, <3>1 DEF PongsAccounted
    <3>2. CASE l \notin lost
      <4>1. l.session = s /\ R # {}
        BY <1>7, <3>2
      <4>2. Queue(s) # <<>>
        BY <4>1, NoIds
      <4> QED
        BY <1>0, <1>1, <4>1, <4>2 DEF QueuesInv
    <3> QED
      BY <3>1, <3>2
  <2> QED
    BY <2>1, <2>2, <2>3, <2>4 DEF PongsAccounted
<1>11. QueuesInv'
  <2>1. ASSUME NEW x \in Created PROVE Distinct(Queue(x)')
    BY <1>1, <1>2, NoIds DEF QueuesInv
  <2>2. ASSUME NEW x \in Created, NEW y \in Created, x # y
        PROVE  ToSet(Queue(x)') \cap ToSet(Queue(y)') = {}
    <3>1. ToSet(Queue(x)) \cap ToSet(Queue(y)) = {}
      BY <2>2 DEF QueuesInv
    <3>2. \A z \in Created : ToSet(Queue(z)') \subseteq ToSet(Queue(z))
      BY <1>1, <1>2, NoIds
    <3> QED
      BY <3>1, <3>2
  <2>3. flush'.session \notin Created
    BY <1>1 DEF Created, NoSession
  <2> QED
    BY <1>1, <2>1, <2>2, <2>3 DEF QueuesInv
<1> QED
  BY <1>9, <1>10, <1>11

-----------------------------------------------------------------------------
(* The order of pongs *)

PongsOf(s) == UNION {Pongs(d) : d \in {e \in wire : e.session = s}}

Flushed(s) == IF flush.session = s THEN flush.packets ELSE <<>>

Behind(s) == PongsOf(s) \cup ToSet(Flushed(s)) \cup ToSet(Queue(s))

\* The pongs of s are in order, from the wire to the worker that is at its datagram.
OrderOf(s) ==
  /\ \A w, v \in Worker : job[w].session = s /\ job[v].session = s => w = v
  /\ Rising(Flushed(s)) /\ Rising(Queue(s))
  /\ AllEarlier(PongsOf(s), ToSet(Flushed(s)))
  /\ AllEarlier(PongsOf(s) \cup ToSet(Flushed(s)), ToSet(Queue(s)))
  /\ \A w \in Worker : job[w].session = s => AllEarlier(Behind(s), Ids(job[w].packets))

OrderInv == \A s \in Created \ (raced \cup together) : OrderOf(s)

LEMMA JobSessions ==
  ASSUME TInv
  PROVE  /\ \A w \in Worker : job[w].session \in Created \cup {NoSession}
         /\ flush.session \in Created \cup {NoSession} /\ NoSession \notin Created
<1>1. \A w \in Worker : job[w] = NoJob \/ job[w] \in JobType
  BY DEF TInv, PoolOK
<1>2. \A w \in Worker : job[w].session \in Created \cup {NoSession}
  BY <1>1 DEF NoJob, JobType
<1> QED
  BY <1>2, AtCreated DEF Created, NoSession

LEMMA BehindUsed == ASSUME NEW s \in Created PROVE Behind(s) \subseteq Used
<1>1. PongsOf(s) \subseteq Answered
  BY DEF PongsOf, Answered
<1>2. ToSet(Flushed(s)) \subseteq ToSet(flush.packets)
  BY NoIds DEF Flushed
<1>3. ToSet(Queue(s)) \subseteq Waiting
  BY WhatIsUsed
<1> QED
  BY <1>1, <1>2, <1>3 DEF Behind, Used

\* Nothing is new in session s, but that packets are left behind.
LEMMA OrderSame ==
  ASSUME NEW s, OrderOf(s), PongsOf(s)' = PongsOf(s), Flushed(s)' = Flushed(s),
         Queue(s)' = Queue(s),
         \A w \in Worker : job'[w].session = s =>
           job[w].session = s /\ Ids(job'[w].packets) \subseteq Ids(job[w].packets)
  PROVE  OrderOf(s)'
<1>1. Behind(s)' = Behind(s)
  BY DEF Behind
<1>2. \A w, v \in Worker : job'[w].session = s /\ job'[v].session = s => w = v
  BY DEF OrderOf
<1>3. ASSUME NEW w \in Worker, job'[w].session = s
      PROVE  AllEarlier(Behind(s), Ids(job'[w].packets))
  BY <1>3 DEF OrderOf, AllEarlier
<1> QED
  BY <1>1, <1>2, <1>3 DEF OrderOf

LEMMA WireGrows ==
  ASSUME NEW d, wire' = wire \cup {d}
  PROVE  /\ \A s : d.session # s => PongsOf(s)' = PongsOf(s)
         /\ \A s : d.session = s => PongsOf(s)' = PongsOf(s) \cup Pongs(d)
<1>1. ASSUME NEW s, d.session # s PROVE PongsOf(s)' = PongsOf(s)
  BY <1>1 DEF PongsOf
<1>2. ASSUME NEW s, d.session = s PROVE PongsOf(s)' = PongsOf(s) \cup Pongs(d)
  <2>1. ASSUME NEW x PROVE x \in PongsOf(s)' <=> x \in PongsOf(s) \cup Pongs(d)
    BY <1>2 DEF PongsOf
  <2> QED
    BY <2>1
<1> QED
  BY <1>1, <1>2

LEMMA SamePongsOf ==
  ASSUME SamePongs, NEW s
  PROVE  PongsOf(s)' = PongsOf(s) /\ Flushed(s)' = Flushed(s)
<1>1. CASE wire' = wire
  BY <1>1 DEF SamePongs, PongsOf, Flushed
<1>2. ASSUME NEW d, wire' = wire \cup {d}, Pongs(d) = {}
      PROVE  PongsOf(s)' = PongsOf(s)
  BY <1>2, WireGrows
<1> QED
  BY <1>1, <1>2 DEF SamePongs, Flushed

PInv ==
  /\ TasksInv /\ JobsInv /\ PongsAccounted /\ QueuesInv /\ OrderInv /\ PongsInOrder

LEMMA QuietOrder ==
  ASSUME TInv, OrderInv, SamePongs, JobsShrink
  PROVE  OrderInv'
<1> SUFFICES ASSUME NEW s \in Created', s \notin raced' \cup together'
             PROVE  OrderOf(s)'
  BY DEF OrderInv
<1>1. s # NoSession
  BY DEF Created, NoSession
<1>2. CASE s \in Created
  <2>1. OrderOf(s)
    BY <1>2 DEF OrderInv, SamePongs
  <2>2. PongsOf(s)' = PongsOf(s) /\ Flushed(s)' = Flushed(s) /\ Queue(s)' = Queue(s)
    BY <1>2, SamePongsOf DEF SamePongs
  <2> QED
    BY <1>1, <2>1, <2>2, OrderSame DEF JobsShrink
<1>3. CASE s \notin Created
  <2>1. \A w \in Worker : job'[w].session # s
    BY <1>1, <1>3, JobSessions DEF JobsShrink
  <2>2. PongsOf(s)' = {}
    <3>1. PongsOf(s)' = PongsOf(s)
      BY SamePongsOf
    <3>2. \A d \in wire : d.session # s
      BY <1>3 DEF TInv, WireOK
    <3> QED
      BY <3>1, <3>2 DEF PongsOf
  <2>3. Flushed(s)' = <<>> /\ Queue(s)' = <<>>
    <3>1. flush.session # s
      BY <1>1, <1>3, JobSessions
    <3> QED
      BY <1>3, <3>1 DEF Flushed, SamePongs
  <2> QED
    BY <2>1, <2>2, <2>3, NoIds DEF OrderOf, AllEarlier
<1> QED
  BY <1>2, <1>3

LEMMA QuietInOrder ==
  ASSUME TInv, PongsInOrder, SamePongs
  PROVE  PongsInOrder'
<1> SUFFICES ASSUME NEW d \in wire', d.session \notin raced' \cup together'
             PROVE  /\ \A k \in 1 .. Len(d.packets) - 1 :
                         Earlier(d.packets[k].id, d.packets[k + 1].id)
                    /\ \A e \in wire' : d.session = e.session /\ d.number < e.number =>
                         \A x \in Pongs(d), y \in Pongs(e) : Earlier(x, y)
  BY DEF PongsInOrder
<1>1. raced \subseteq raced' /\ together \subseteq together'
  BY DEF SamePongs
<1>2. ASSUME NEW new, wire' = wire \cup {new}, Pongs(new) = {}, Len(new.packets) = 1
      PROVE  /\ \A k \in 1 .. Len(d.packets) - 1 :
                  Earlier(d.packets[k].id, d.packets[k + 1].id)
             /\ \A e \in wire' : d.session = e.session /\ d.number < e.number =>
                  \A x \in Pongs(d), y \in Pongs(e) : Earlier(x, y)
  <2>1. CASE d = new
    BY <1>2, <2>1
  <2>2. CASE d \in wire
    BY <1>1, <1>2, <2>2 DEF PongsInOrder
  <2> QED
    BY <1>2, <2>1, <2>2
<1>3. CASE wire' = wire
  BY <1>1, <1>3 DEF PongsInOrder
<1> QED
  BY <1>2, <1>3 DEF SamePongs

LEMMA QuietPongs ==
  ASSUME TInv, PInv, SamePongs, JobsShrink, tasks' = tasks,
         arrived' \in Nat, arrived <= arrived'
  PROVE  PInv'
<1>1. TasksInv' /\ JobsInv'
  <2>1. Used' = Used
    BY SamePlaces
  <2>2. {} \subseteq InJobs /\ Used' \subseteq Used \cup {}
        /\ \A w \in Worker : {} \cap Ids(job'[w].packets) = {}
    BY <2>1
  <2> QED
    BY <2>2, JobsGoOn DEF PInv
<1> QED
  BY <1>1, QuietPlaces, QuietOrder, QuietInOrder DEF PInv

-----------------------------------------------------------------------------
(* The steps that move packets and pongs *)

\* A datagram comes behind all that came before.
LEMMA NewPackets ==
  ASSUME TInv, NEW kinds \in Contents
  PROVE  /\ InOrder(PacketsOf(kinds)) /\ PacketsOf(kinds) \in PacketsType
         /\ \A x \in Ids(PacketsOf(kinds)) : x \in IdType /\ x[1] = arrived
<1>1. kinds \in Seq(Kind) /\ Len(kinds) \in Nat /\ DOMAIN kinds = 1 .. Len(kinds)
  BY ConnectionAssumption
<1> DEFINE packets == PacketsOf(kinds)
<1>2. /\ DOMAIN packets = 1 .. Len(kinds)
      /\ \A k \in 1 .. Len(kinds) : packets[k] = [kind |-> kinds[k], id |-> <<arrived, k>>]
  BY <1>1 DEF PacketsOf
<1>3. \A k \in 1 .. Len(kinds) : /\ packets[k].id = <<arrived, k>> /\ packets[k].id \in IdType
                                 /\ packets[k] \in [kind : Kind, id : IdType]
  BY <1>1, <1>2 DEF IdType, TInv, RestOK
<1>4. packets \in [1 .. Len(kinds) -> [kind : Kind, id : IdType]]
  BY <1>1, <1>3 DEF PacketsOf
<1> HIDE DEF packets
<1>5. packets \in PacketsType /\ Len(packets) = Len(kinds)
  BY <1>1, <1>4, MadeSeq DEF PacketsType
<1>6. InOrder(packets)
  BY <1>1, <1>3, <1>5 DEF InOrder, Earlier
<1>7. \A x \in Ids(packets) : \E k \in 1 .. Len(kinds) : x = packets[k].id
  BY <1>2 DEF Ids, ToSet
<1>8. \A x \in Ids(packets) : x \in IdType /\ x[1] = arrived
  BY <1>3, <1>7
<1> QED
  BY <1>5, <1>6, <1>8 DEF packets

LEMMA DatagramPongs ==
  ASSUME TInv, PInv, NEW a \in Address, NEW kinds \in Contents, DatagramArrives(a, kinds)
  PROVE  PInv'
<1>0. PICK n : n = Len(tasks)
  OBVIOUS
<1> DEFINE new == PacketsOf(kinds)
<1>1. /\ arrived' = arrived + 1 /\ arrived \in Nat
      /\ UNCHANGED <<session, job, flush, wire, lost, raced, together, crowded>>
  BY DEF DatagramArrives, Arrives, sentVars, overlapVars, TInv, RestOK
<1>2. PICK s : tasks' = Append(tasks, [session |-> s, packets |-> new])
  BY DEF DatagramArrives
<1>3. /\ n \in Nat /\ Len(tasks') = n + 1 /\ tasks'[n + 1].packets = new
      /\ \A i \in 1 .. n : tasks'[i] = tasks[i]
  BY <1>0, <1>2 DEF TInv, PoolOK
<1>4. SamePongs /\ JobsShrink
  BY <1>1, NoChangeShrinks DEF SamePongs, Created, Queue
<1>5. Used' = Used /\ InJobs' = InJobs
  BY <1>1, <1>4, SamePlaces DEF InJobs
<1>6. InOrder(new) /\ \A x \in Ids(new) : x \in IdType /\ x[1] = arrived
  BY NewPackets
<1> HIDE DEF new
<1>7. \A x \in Used \cup InJobs : x \in IdType /\ x[1] < arrived
  BY DEF PInv, TasksInv
<1>8. \A x \in IdType : x[1] \in Nat
  BY DEF IdType
<1>9. \A x \in IdType : \A y \in IdType : x[1] < arrived /\ y[1] = arrived => Earlier(x, y)
  BY <1>8 DEF Earlier
<1>10. \A x \in IdType : x[1] <= arrived => x[1] < arrived'
  BY <1>1, <1>8
<1>11. \A x \in IdType : x[1] < arrived => x[1] <= arrived
  BY <1>1, <1>8
<1>12. ASSUME NEW i \in 1 .. n PROVE TaskInv(i)'
  <2>1. TaskInv(i) /\ tasks'[i] = tasks[i]
    BY <1>0, <1>3, <1>12 DEF PInv, TasksInv
  <2>2. \A x \in Ids(tasks[i].packets) : x \in IdType /\ x[1] < arrived
    BY <1>0, <1>12, <2>1, PacketsAt DEF TaskInv
  <2>3. InOrder(tasks'[i].packets) /\ AllEarlier(Used' \cup InJobs', Ids(tasks'[i].packets))
    BY <1>5, <2>1 DEF TaskInv
  <2>4. \A x \in Ids(tasks'[i].packets) : x[1] < arrived'
    BY <1>10, <1>11, <2>1, <2>2
  <2>5. ASSUME NEW j \in 1 .. n + 1, i < j
        PROVE  AllEarlier(Ids(tasks'[i].packets), Ids(tasks'[j].packets))
    <3>1. CASE j = n + 1
      BY <1>3, <1>6, <1>9, <2>1, <2>2, <3>1 DEF AllEarlier
    <3>2. CASE j # n + 1
      <4>1. j \in 1 .. Len(tasks) /\ tasks'[j] = tasks[j]
        BY <1>0, <1>3, <3>2
      <4> QED
        BY <2>1, <2>5, <4>1 DEF TaskInv
    <3> QED
      BY <3>1, <3>2
  <2> QED
    BY <1>3, <2>3, <2>4, <2>5 DEF TaskInv
<1>13. TaskInv(n + 1)'
  <2>1. InOrder(tasks'[n + 1].packets) /\ \A x \in Ids(tasks'[n + 1].packets) : x[1] < arrived'
    BY <1>1, <1>3, <1>6
  <2>2. AllEarlier(Used' \cup InJobs', Ids(tasks'[n + 1].packets))
    BY <1>3, <1>5, <1>6, <1>7, <1>9 DEF AllEarlier
  <2>3. \A j \in 1 .. Len(tasks') : ~(n + 1 < j)
    BY <1>3
  <2> QED
    BY <1>3, <2>1, <2>2, <2>3 DEF TaskInv
<1>14. TasksInv'
  <2>1. \A i \in 1 .. Len(tasks') : i \in 1 .. n \/ i = n + 1
    BY <1>3
  <2>2. \A x \in Used' \cup InJobs' : x \in IdType /\ x[1] < arrived'
    BY <1>5, <1>7, <1>10, <1>11
  <2> QED
    BY <1>12, <1>13, <2>1, <2>2 DEF TasksInv
<1>15. JobsInv'
  BY <1>1, <1>5 DEF PInv, JobsInv
<1> QED
  BY <1>4, <1>14, <1>15, QuietPlaces, QuietOrder, QuietInOrder DEF PInv

\* The first task is taken.
LEMMA Rest ==
  ASSUME NEW S, NEW q \in Seq(S), q # <<>>
  PROVE  /\ 1 \in 1 .. Len(q) /\ Len(RemoveAt(q, 1)) = Len(q) - 1 /\ Len(q) \in Nat
         /\ \A i \in 1 .. Len(q) - 1 : RemoveAt(q, 1)[i] = q[i + 1]
<1>1. SubSeq(q, 1, 0) = <<>>
  OBVIOUS
<1>2. RemoveAt(q, 1) = SubSeq(q, 2, Len(q))
  BY <1>1 DEF RemoveAt
<1> QED
  BY <1>2

LEMMA TakePongs ==
  ASSUME TInv, PInv, NEW w \in Worker, WorkerTakes(w)
  PROVE  PInv'
<1> DEFINE new == tasks[1].packets
           n == Len(tasks)
<1>1. /\ job[w] = NoJob /\ tasks # <<>> /\ tasks' = RemoveAt(tasks, 1)
      /\ job' = [job EXCEPT ![w] = [session |-> tasks[1].session, packets |-> new,
                                    number |-> NoNumber]]
      /\ together' = together \cup
           {s \in {tasks[1].session} : \E v \in Worker : job[v].session = s}
      /\ UNCHANGED <<session, flush, arrived, wire, lost, raced, crowded>>
  BY DEF WorkerTakes, FirstPlace, receiverVars, sentVars
<1>2. /\ job'[w].session = tasks[1].session /\ job'[w].packets = new
      /\ \A v \in Worker \ {w} : job'[v] = job[v]
      /\ Ids(job[w].packets) = {}
  BY <1>1, NoIds DEF TInv, NoJob
<1>3. /\ 1 \in 1 .. n /\ Len(tasks') = n - 1 /\ n \in Nat
      /\ \A i \in 1 .. n - 1 : tasks'[i] = tasks[i + 1]
  BY <1>1, Rest DEF TInv, PoolOK
<1>4. SamePongs
  BY <1>1 DEF SamePongs, Created, Queue
<1>5. Used' = Used
  BY <1>4, SamePlaces
<1>6. InJobs' \subseteq InJobs \cup Ids(new)
  BY <1>2 DEF InJobs
<1>7. TaskInv(1) /\ \A x \in Ids(new) : x \in IdType /\ x[1] < arrived
  BY <1>3, PacketsAt DEF PInv, TasksInv, TaskInv
<1>8. \A x \in Ids(new) : x \notin Used /\ x \notin InJobs
  BY <1>7, NotBeforeItself DEF TaskInv, AllEarlier
<1>9. JobsInv'
  <2> SUFFICES ASSUME NEW v \in Worker
               PROVE  /\ InOrder(job'[v].packets) /\ Ids(job'[v].packets) \cap Used = {}
                      /\ \A u \in Worker \ {v} : Ids(job'[v].packets) \cap Ids(job'[u].packets) = {}
    BY <1>5 DEF JobsInv
  <2>1. CASE v = w
    <3>1. InOrder(job'[v].packets) /\ Ids(job'[v].packets) \cap Used = {}
      BY <1>2, <1>7, <1>8, <2>1 DEF TaskInv
    <3>2. \A u \in Worker \ {v} : Ids(job'[v].packets) \cap Ids(job'[u].packets) = {}
      BY <1>2, <1>8, <2>1 DEF InJobs
    <3> QED
      BY <3>1, <3>2
  <2>2. CASE v # w
    <3>1. job'[v] = job[v] /\ Ids(job[v].packets) \cap Ids(new) = {}
      BY <1>2, <1>8, <2>2 DEF InJobs
    <3> QED
      BY <1>2, <2>2, <3>1 DEF PInv, JobsInv
  <2> QED
    BY <2>1, <2>2
<1>10. ASSUME NEW i \in 1 .. n - 1 PROVE TaskInv(i)'
  <2> DEFINE i1 == i + 1
  <2>1. i1 \in 1 .. n /\ 1 < i1 /\ tasks'[i] = tasks[i1]
    BY <1>3
  <2>2. TaskInv(i1)
    BY <2>1 DEF PInv, TasksInv
  <2>3. InOrder(tasks'[i].packets) /\ \A x \in Ids(tasks'[i].packets) : x[1] < arrived'
    BY <1>1, <2>1, <2>2 DEF TaskInv
  <2>4. AllEarlier(Used' \cup InJobs', Ids(tasks'[i].packets))
    <3>1. AllEarlier(Ids(new), Ids(tasks[i1].packets))
      BY <1>7, <2>1 DEF TaskInv
    <3> QED
      BY <1>5, <1>6, <2>1, <2>2, <3>1 DEF TaskInv, AllEarlier
  <2>5. ASSUME NEW j \in 1 .. n - 1, i < j
        PROVE  AllEarlier(Ids(tasks'[i].packets), Ids(tasks'[j].packets))
    <3>1. j + 1 \in 1 .. n /\ i1 < j + 1 /\ tasks'[j] = tasks[j + 1]
      BY <1>3, <2>5
    <3> QED
      BY <2>1, <2>2, <3>1 DEF TaskInv
  <2> QED
    BY <1>3, <2>3, <2>4, <2>5 DEF TaskInv
<1>11. TasksInv'
  <2>1. \A x \in Used' \cup InJobs' : x \in IdType /\ x[1] < arrived'
    BY <1>1, <1>5, <1>6, <1>7 DEF PInv, TasksInv
  <2> QED
    BY <1>3, <1>10, <2>1 DEF TasksInv
<1>12. OrderInv'
  <2> SUFFICES ASSUME NEW s \in Created', s \notin raced' \cup together'
               PROVE  OrderOf(s)'
    BY DEF OrderInv
  <2>1. s \in Created /\ OrderOf(s)
    BY <1>1 DEF PInv, OrderInv, Created
  <2>2. PongsOf(s)' = PongsOf(s) /\ Flushed(s)' = Flushed(s) /\ Queue(s)' = Queue(s)
    BY <1>4, <2>1, SamePongsOf DEF SamePongs
  <2>3. CASE tasks[1].session # s
    <3>1. \A v \in Worker : job'[v].session = s =>
            job[v].session = s /\ Ids(job'[v].packets) \subseteq Ids(job[v].packets)
      BY <1>2, <2>3
    <3> QED
      BY <2>1, <2>2, <3>1, OrderSame
  <2>4. CASE tasks[1].session = s
    <3>1. \A v \in Worker : job[v].session # s
      BY <1>1, <2>4
    <3>2. \A v \in Worker : job'[v].session = s => v = w
      BY <1>2, <3>1
    <3>3. Behind(s)' = Behind(s)
      BY <2>2 DEF Behind
    <3>4. AllEarlier(Behind(s), Ids(new))
      BY <1>7, <2>1, BehindUsed DEF TaskInv, AllEarlier
    <3>5. \A v \in Worker : job'[v].session = s => AllEarlier(Behind(s)', Ids(job'[v].packets))
      BY <1>2, <3>2, <3>3, <3>4
    <3> QED
      BY <2>1, <2>2, <3>2, <3>5 DEF OrderOf
  <2> QED
    BY <2>3, <2>4
<1> QED
  BY <1>4, <1>9, <1>11, <1>12, QuietPlaces, QuietInOrder DEF PInv

\* The packet that a worker leaves behind is nowhere among those that are left.
LEMMA GoneFromJobs ==
  ASSUME TInv, JobsInv, NEW w \in Worker, job[w].packets # <<>>, JobsShrink,
         job'[w].packets = Tail(job[w].packets)
  PROVE  /\ Head(job[w].packets).id \in InJobs /\ Head(job[w].packets).id \in IdType
         /\ AllEarlier({Head(job[w].packets).id}, Ids(job'[w].packets))
         /\ \A v \in Worker : Head(job[w].packets).id \notin Ids(job'[v].packets)
<1> DEFINE id == Head(job[w].packets).id
<1>1. job[w].packets \in PacketsType /\ InOrder(job[w].packets)
  BY PacketsAt DEF JobsInv
<1>2. id \in Ids(job[w].packets) /\ AllEarlier({id}, Ids(Tail(job[w].packets)))
  BY <1>1, NextPackets
<1>3. id \in IdType
  BY <1>1, <1>2, PacketsAt
<1> HIDE DEF id
<1>4. id \notin Ids(job'[w].packets)
  BY <1>2, <1>3, NotBeforeItself DEF AllEarlier
<1>5. \A v \in Worker \ {w} : id \notin Ids(job'[v].packets)
  BY <1>2 DEF JobsInv, JobsShrink
<1>6. id \in InJobs
  BY <1>2, WhatIsUsed
<1> QED
  BY <1>2, <1>3, <1>4, <1>5, <1>6 DEF id

LEMMA AnswerPongs ==
  ASSUME TInv, PInv, NEW w \in Worker, NEW s \in Live, AnswerPing(w, s)
  PROVE  PInv'
<1>0. PICK id : id = Head(job[w].packets).id
  OBVIOUS
<1>1. /\ job[w].packets # <<>> /\ job[w].session = s /\ Done(w)
      /\ session' = [session EXCEPT ![s].updateQueue = Append(@, id)]
      /\ raced \subseteq raced' /\ (flush.session = s => s \in raced')
      /\ UNCHANGED <<tasks, flush, arrived, wire, lost, together, crowded>>
  BY <1>0 DEF AnswerPing, IsIn, IsAt, receiverVars, sentVars
<1>2. /\ JobsShrink /\ job'[w].packets = Tail(job[w].packets) /\ job'[w].session = s
      /\ \A v \in Worker \ {w} : job'[v] = job[v]
  BY <1>1, DoneShrinks
<1>3. /\ id \in InJobs /\ id \in IdType /\ AllEarlier({id}, Ids(job'[w].packets))
      /\ \A v \in Worker : id \notin Ids(job'[v].packets)
  BY <1>0, <1>1, <1>2, GoneFromJobs DEF PInv
<1>4. /\ PongsAccounted' /\ QueuesInv' /\ Used' \subseteq Used \cup {id}
      /\ Grows(s, id) /\ Created' = Created
      /\ \A x \in Created \ {s} : Queue(x)' = Queue(x)
  <2>1. Grows(s, id) /\ s \in Created
    BY <1>1, <1>3, QueueGrows DEF Grows
  <2>2. id \in Ids(job[w].packets)
    BY <1>0, <1>1, PacketsAt, NextPackets
  <2>3. PongsAccounted' /\ QueuesInv' /\ Used' \subseteq Used \cup {id, id}
    <3>1. lost \subseteq lost' /\ \A l \in lost' \ lost : FALSE
      BY <1>1
    <3>2. /\ raced \subseteq raced' /\ (flush.session = s => s \in raced')
          /\ UNCHANGED <<flush, wire, crowded>>
      BY <1>1
    <3> QED
      BY <2>1, <2>2, <3>1, <3>2, PongQueued DEF PInv
  <2> QED
    BY <2>1, <2>3 DEF Grows
<1>5. TasksInv' /\ JobsInv'
  <2>1. arrived' \in Nat /\ arrived <= arrived'
    BY <1>1 DEF TInv, RestOK
  <2>2. {id} \subseteq InJobs /\ \A v \in Worker : {id} \cap Ids(job'[v].packets) = {}
    BY <1>3
  <2> QED
    BY <1>1, <1>2, <1>4, <2>1, <2>2, JobsGoOn DEF PInv
<1>6. PongsInOrder'
  BY <1>1 DEF PInv, PongsInOrder
<1>7. OrderInv'
  <2> SUFFICES ASSUME NEW x \in Created', x \notin raced' \cup together'
               PROVE  OrderOf(x)'
    BY DEF OrderInv
  <2>1. x \in Created /\ OrderOf(x)
    BY <1>1, <1>4 DEF PInv, OrderInv
  <2>2. PongsOf(x)' = PongsOf(x) /\ Flushed(x)' = Flushed(x)
    BY <1>1 DEF PongsOf, Flushed
  <2>3. CASE x # s
    <3>1. Queue(x)' = Queue(x) /\ x # NoSession
      BY <1>4, <2>1, <2>3, JobSessions
    <3> QED
      BY <1>2, <2>1, <2>2, <3>1, OrderSame DEF JobsShrink
  <2>4. CASE x = s
    <3>1. AllEarlier(Behind(s), {id}) /\ \A v \in Worker \ {w} : job[v].session # s
      <4>1. id \in Ids(job[w].packets)
        BY <1>0, <1>1, PacketsAt, NextPackets
      <4> QED
        BY <1>1, <2>1, <2>4, <4>1 DEF OrderOf, AllEarlier
    <3>2. Flushed(s) = <<>> /\ Flushed(s)' = <<>>
      BY <1>1, <2>4 DEF Flushed
    <3>3. ToSet(Queue(s)') = ToSet(Queue(s)) \cup {id} /\ Rising(Queue(s)')
      <4>1. Rising(Queue(s)) /\ AllEarlier(ToSet(Queue(s)), {id})
        BY <2>1, <2>4, <3>1 DEF OrderOf, Behind, AllEarlier
      <4> QED
        BY <1>4, <4>1 DEF Grows
    <3>4. AllEarlier(PongsOf(s)' \cup ToSet(Flushed(s)'), ToSet(Queue(s)'))
      BY <2>1, <2>2, <2>4, <3>1, <3>3 DEF OrderOf, Behind, AllEarlier
    <3>5. Behind(s)' = Behind(s) \cup {id}
      BY <2>2, <2>4, <3>3 DEF Behind
    <3>6. ASSUME NEW v \in Worker, job'[v].session = s
          PROVE  v = w /\ AllEarlier(Behind(s)', Ids(job'[v].packets))
      <4>1. v = w
        BY <1>2, <3>1, <3>6
      <4>2. Ids(job'[w].packets) \subseteq Ids(job[w].packets)
        BY <1>2 DEF JobsShrink
      <4> QED
        BY <1>1, <1>3, <2>1, <2>4, <3>5, <4>1, <4>2 DEF OrderOf, AllEarlier
    <3>7. AllEarlier(PongsOf(s)', ToSet(Flushed(s)')) /\ Rising(Flushed(s)')
      BY <3>2, NoIds DEF AllEarlier
    <3> QED
      BY <2>4, <3>3, <3>4, <3>6, <3>7 DEF OrderOf
  <2> QED
    BY <2>3, <2>4
<1> QED
  BY <1>4, <1>5, <1>6, <1>7 DEF PInv

LEMMA CollidePongs ==
  ASSUME TInv, PInv, NEW w \in Worker, NEW v \in Worker, NEW s \in Live, PingsCollide(w, v, s)
  PROVE  PInv'
<1>0. PICK id, other : id = Head(job[w].packets).id /\ other = Head(job[v].packets).id
  OBVIOUS
<1>1. /\ w # v /\ job[w].packets # <<>> /\ job[v].packets # <<>>
      /\ session' = [session EXCEPT ![s].updateQueue = Append(@, id)]
      /\ lost' = lost \cup {[session |-> s, id |-> other]}
      /\ job' = [job EXCEPT ![w] = AfterPacket(job[w]), ![v] = AfterPacket(job[v])]
      /\ raced' = raced \cup {s}
      /\ UNCHANGED <<tasks, flush, arrived, wire, together, crowded>>
  BY <1>0 DEF PingsCollide, IsIn, IsAt, receiverVars
<1>2. /\ job'[w].packets = Tail(job[w].packets) /\ job'[v].packets = Tail(job[v].packets)
      /\ job'[w].session = job[w].session /\ job'[v].session = job[v].session
      /\ \A u \in Worker \ {w, v} : job'[u] = job[u]
  BY <1>1, AfterShrinks DEF TInv
<1>3. JobsShrink
  BY <1>1, <1>2, PacketsAt, NextPackets DEF JobsShrink
<1>4. /\ {id, other} \subseteq InJobs
      /\ \A u \in Worker : {id, other} \cap Ids(job'[u].packets) = {}
  BY <1>0, <1>1, <1>2, <1>3, GoneFromJobs DEF PInv
<1>5. /\ PongsAccounted' /\ QueuesInv' /\ Used' \subseteq Used \cup {id, other}
      /\ Created' = Created /\ \A x \in Created \ {s} : Queue(x)' = Queue(x)
  <2>1. s \in raced' /\ raced \subseteq raced'
    BY <1>1
  <2>2. /\ PongsAccounted' /\ QueuesInv'
        /\ Used' \subseteq Used \cup {id, other}
        /\ Created' = Created /\ \A x \in Created \ {s} : Queue(x)' = Queue(x)
    <3>1. Grows(s, id) /\ s \in Created
      <4>1. id \in IdType
        BY <1>0, <1>1, <1>2, <1>3, GoneFromJobs DEF PInv
      <4> QED
        BY <1>1, <4>1, QueueGrows DEF Grows
    <3>2. id \in Ids(job[w].packets) /\ other \in Ids(job[v].packets)
      BY <1>0, <1>1, PacketsAt, NextPackets
    <3>3. /\ lost \subseteq lost'
          /\ \A l \in lost' \ lost : l.id = other /\ l.session = s /\ w # v /\ s \in raced'
      BY <1>1
    <3>4. UNCHANGED <<flush, wire, crowded>>
      BY <1>1
    <3>5. PongsAccounted' /\ QueuesInv' /\ Used' \subseteq Used \cup {id, other}
      BY <2>1, <3>1, <3>2, <3>3, <3>4, PongQueued DEF PInv
    <3> QED
      BY <3>1, <3>5 DEF Grows
  <2> QED
    BY <2>2
<1>6. TasksInv' /\ JobsInv'
  <2>1. arrived' \in Nat /\ arrived <= arrived'
    BY <1>1 DEF TInv, RestOK
  <2> QED
    BY <1>1, <1>3, <1>4, <1>5, <2>1, JobsGoOn DEF PInv
<1>7. PongsInOrder'
  BY <1>1 DEF PInv, PongsInOrder
<1>8. OrderInv'
  <2> SUFFICES ASSUME NEW x \in Created', x \notin raced' \cup together'
               PROVE  OrderOf(x)'
    BY DEF OrderInv
  <2>1. x \in Created /\ OrderOf(x) /\ x # s
    BY <1>1, <1>5 DEF PInv, OrderInv
  <2>2. PongsOf(x)' = PongsOf(x) /\ Flushed(x)' = Flushed(x)
    BY <1>1 DEF PongsOf, Flushed
  <2>3. Queue(x)' = Queue(x) /\ x # NoSession
    BY <1>5, <2>1, JobSessions
  <2> QED
    BY <1>3, <2>1, <2>2, <2>3, OrderSame DEF JobsShrink
<1> QED
  BY <1>5, <1>6, <1>7, <1>8 DEF PInv

LEMMA BeginPongs ==
  ASSUME TInv, PInv, NEW s \in Live, FlushBegins(s)
  PROVE  PInv'
<1>1. UNCHANGED <<job, tasks, arrived, wire, lost, together>> /\ raced \subseteq raced'
  BY FlushBegun
<1>2. PongsAccounted' /\ QueuesInv' /\ Used' = Used
  BY BeginPlaces DEF PInv
<1>3. JobsShrink
  BY <1>1, NoChangeShrinks
<1>4. TasksInv' /\ JobsInv'
  <2>1. arrived' \in Nat /\ arrived <= arrived'
    BY <1>1 DEF TInv, RestOK
  <2>2. {} \subseteq InJobs /\ Used' \subseteq Used \cup {}
        /\ \A w \in Worker : {} \cap Ids(job'[w].packets) = {}
    BY <1>2
  <2> QED
    BY <1>1, <1>3, <2>1, <2>2, JobsGoOn DEF PInv
<1>5. PongsInOrder'
  BY <1>1 DEF PInv, PongsInOrder
<1>6. OrderInv'
  <2> SUFFICES ASSUME NEW x \in Created', x \notin raced' \cup together'
               PROVE  OrderOf(x)'
    BY DEF OrderInv
  <2>1. /\ x \in Created /\ OrderOf(x) /\ PongsOf(x)' = PongsOf(x)
        /\ flush.packets = <<>> /\ flush'.session = s
    BY <1>1, FlushBegun DEF PInv, OrderInv, PongsOf
  <2>2. Flushed(x) = <<>>
    BY <2>1 DEF Flushed
  <2>3. CASE x # s
    <3>1. Queue(x)' = Queue(x) /\ Flushed(x)' = <<>>
      BY <2>1, <2>3, FlushBegun DEF Flushed
    <3> QED
      BY <1>1, <2>1, <2>2, <3>1, OrderSame
  <2>4. CASE x = s
    <3>1. Flushed(s)' = flush'.packets
      BY <2>1 DEF Flushed
    <3>2. ToSet(Flushed(s)') \cup ToSet(Queue(s)') = ToSet(Queue(s))
      BY <3>1, FlushBegun
    <3>3. /\ Rising(Flushed(s)') /\ Rising(Queue(s)')
          /\ AllEarlier(ToSet(Flushed(s)'), ToSet(Queue(s)'))
      BY <2>1, <2>4, <3>1, FlushBegun DEF OrderOf
    <3>4. AllEarlier(PongsOf(s), ToSet(Queue(s)))
      BY <2>1, <2>4 DEF OrderOf, AllEarlier
    <3>5. Behind(s)' = Behind(s)
      BY <2>1, <2>2, <2>4, <3>2, NoIds DEF Behind
    <3>6. /\ AllEarlier(PongsOf(s)', ToSet(Flushed(s)'))
          /\ AllEarlier(PongsOf(s)' \cup ToSet(Flushed(s)'), ToSet(Queue(s)'))
      BY <2>1, <2>4, <3>2, <3>3, <3>4 DEF AllEarlier
    <3> QED
      BY <1>1, <2>1, <2>4, <3>3, <3>5, <3>6 DEF OrderOf
  <2> QED
    BY <2>3, <2>4
<1> QED
  BY <1>2, <1>4, <1>5, <1>6 DEF PInv

LEMMA EndPongs ==
  ASSUME TInv, NumbersInv, PInv, FlushEnds
  PROVE  PInv'
<1>0. PICK s : s = flush.session
  OBVIOUS
<1> DEFINE d == FlushDatagram
           F == ToSet(flush.packets)
<1>1. /\ UNCHANGED <<job, tasks, arrived, raced, together>>
      /\ Created' = Created /\ s \in Created /\ flush' = NoFlush /\ Queue(s)' = <<>>
      /\ \A x \in Created \ {s} : Queue(x)' = Queue(x)
  BY <1>0, FlushEnded
<1>2. /\ wire' = wire \cup {d} /\ Pongs(d) = F /\ d.session = s /\ d.number = flush.number
      /\ Len(d.packets) = Len(flush.packets)
      /\ \A k \in 1 .. Len(flush.packets) : d.packets[k].id = flush.packets[k]
  BY <1>0, FlushEnded
<1>3. PongsAccounted' /\ QueuesInv' /\ Used' = Used
  BY EndPlaces DEF PInv
<1>4. JobsShrink
  BY <1>1, NoChangeShrinks
<1>5. TasksInv' /\ JobsInv'
  <2>1. arrived' \in Nat /\ arrived <= arrived'
    BY <1>1 DEF TInv, RestOK
  <2>2. {} \subseteq InJobs /\ Used' \subseteq Used \cup {}
        /\ \A w \in Worker : {} \cap Ids(job'[w].packets) = {}
    BY <1>3
  <2> QED
    BY <1>1, <1>4, <2>1, <2>2, JobsGoOn DEF PInv
<1>6. Flushed(s) = flush.packets
  BY <1>0 DEF Flushed
<1> HIDE DEF d
<1>7. OrderInv'
  <2> SUFFICES ASSUME NEW x \in Created', x \notin raced' \cup together'
               PROVE  OrderOf(x)'
    BY DEF OrderInv
  <2>1. x \in Created /\ OrderOf(x) /\ x # NoSession
    BY <1>1, JobSessions DEF PInv, OrderInv
  <2>2. Flushed(x)' = <<>>
    BY <1>1 DEF Flushed, NoFlush
  <2>3. CASE x # s
    <3>1. Flushed(x) = <<>> /\ Queue(x)' = Queue(x) /\ PongsOf(x)' = PongsOf(x)
      <4>1. Flushed(x) = <<>>
        BY <1>0, <2>3 DEF Flushed
      <4> QED
        BY <1>1, <1>2, <2>1, <2>3, <4>1, WireGrows
    <3> QED
      BY <1>1, <2>1, <2>2, <3>1, OrderSame
  <2>4. CASE x = s
    <3>1. PongsOf(s)' = PongsOf(s) \cup F
      BY <1>2, WireGrows
    <3>2. Behind(s)' \subseteq Behind(s)
      BY <1>1, <1>6, <2>2, <2>4, <3>1, NoIds DEF Behind
    <3>3. /\ Rising(Flushed(s)') /\ Rising(Queue(s)')
          /\ AllEarlier(PongsOf(s)', ToSet(Flushed(s)'))
          /\ AllEarlier(PongsOf(s)' \cup ToSet(Flushed(s)'), ToSet(Queue(s)'))
      BY <1>1, <2>2, <2>4, NoIds DEF AllEarlier
    <3>4. \A w \in Worker : job'[w].session = s => AllEarlier(Behind(s)', Ids(job'[w].packets))
      BY <1>1, <2>1, <2>4, <3>2 DEF OrderOf, AllEarlier
    <3> QED
      BY <1>1, <2>1, <2>4, <3>3, <3>4 DEF OrderOf
  <2> QED
    BY <2>3, <2>4
<1>8. PongsInOrder'
  <2> SUFFICES ASSUME NEW e \in wire', e.session \notin raced' \cup together'
               PROVE  /\ \A k \in 1 .. Len(e.packets) - 1 :
                           Earlier(e.packets[k].id, e.packets[k + 1].id)
                      /\ \A f \in wire' : e.session = f.session /\ e.number < f.number =>
                           \A x \in Pongs(e), y \in Pongs(f) : Earlier(x, y)
    BY DEF PongsInOrder
  <2>1. ASSUME s \notin raced \cup together
        PROVE  /\ OrderOf(s) /\ d.number \in Int
               /\ \A f \in wire : f.session = s => f.number < d.number /\ f.number \in Int
    <3>1. OrderOf(s)
      BY <1>1, <2>1 DEF PInv, OrderInv
    <3>2. d.number = session[s].sendSequenceNumber
      BY <1>0, <1>1, <1>2, <2>1 DEF NumbersInv, Loaded
    <3>3. \A f \in wire : f.session = s => f.number < d.number
      BY <1>1, <2>1, <3>2 DEF NumbersInv, SentBelow
    <3> QED
      BY <1>1, <3>1, <3>2, <3>3, AtCreated
  <2>2. CASE e \in wire
    <3>1. \A f \in wire : e.session = f.session /\ e.number < f.number =>
            \A x \in Pongs(e), y \in Pongs(f) : Earlier(x, y)
      BY <1>1, <2>2 DEF PInv, PongsInOrder
    <3>2. ASSUME e.session = s PROVE \A x \in Pongs(e), y \in F : Earlier(x, y)
      <4>1. OrderOf(s)
        BY <1>1, <2>1, <3>2
      <4>2. Pongs(e) \subseteq PongsOf(s)
        BY <2>2, <3>2 DEF PongsOf
      <4> QED
        BY <1>6, <4>1, <4>2 DEF OrderOf, AllEarlier
    <3>3. \A k \in 1 .. Len(e.packets) - 1 : Earlier(e.packets[k].id, e.packets[k + 1].id)
      BY <1>1, <2>2 DEF PInv, PongsInOrder
    <3> QED
      BY <1>2, <3>1, <3>2, <3>3
  <2>3. CASE e = d
    <3>1. OrderOf(s) /\ d.number \in Int
          /\ \A f \in wire : f.session = s => f.number < d.number /\ f.number \in Int
      BY <1>1, <1>2, <2>1, <2>3
    <3>2. \A f \in wire' : ~(d.session = f.session /\ d.number < f.number)
      BY <1>2, <3>1
    <3>3. Rising(flush.packets)
      BY <1>6, <3>1 DEF OrderOf
    <3>4. flush.packets \in Seq(IdType)
      BY <1>0, <1>1, JobSessions DEF TInv, FlushOK, FlushType, NoFlush
    <3>5. ASSUME NEW k \in 1 .. Len(d.packets) - 1
          PROVE  Earlier(d.packets[k].id, d.packets[k + 1].id)
      <4>1. k \in 1 .. Len(flush.packets) /\ k + 1 \in 1 .. Len(flush.packets) /\ k < k + 1
        BY <1>2, <3>4, <3>5
      <4>2. Earlier(flush.packets[k], flush.packets[k + 1])
        BY <3>3, <4>1 DEF Rising
      <4> QED
        BY <1>2, <4>1, <4>2
    <3> QED
      BY <2>3, <3>2, <3>5
  <2> QED
    BY <1>2, <2>2, <2>3
<1> QED
  BY <1>3, <1>5, <1>7, <1>8 DEF PInv

LEMMA ReceivePongs ==
  ASSUME TInv, PInv, NEW a \in Address, Receive(a)
  PROVE  PInv'
<1>1. CASE \E kinds \in Contents : DatagramArrives(a, kinds)
  BY <1>1, DatagramPongs
<1>2. CASE ~\E kinds \in Contents : DatagramArrives(a, kinds)
  <2>1. /\ UNCHANGED <<tasks, job, flush, wire, lost, raced, together, crowded>>
        /\ arrived' = arrived + 1
        /\ UNCHANGED session \/ \E mtu : session' = Append(session, NewSession(a, mtu))
    BY <1>2 DEF Receive, PingArrives, Request1Arrives, DisconnectArrives, Request2Arrives,
                ReceiverSpins, Arrives, poolVars, sentVars, overlapVars
  <2>2. arrived' \in Nat /\ arrived <= arrived'
    BY <2>1 DEF TInv, RestOK
  <2>3. /\ Created \subseteq Created' /\ \A s \in Created : Queue(s)' = Queue(s)
        /\ \A s \in Created' \ Created : Queue(s)' = <<>>
    <3>1. session \in Seq(SessionType)
      BY DEF TInv, SessionsOK
    <3>2. CASE UNCHANGED session
      BY <3>2 DEF Created, Queue
    <3>3. ASSUME NEW mtu, session' = Append(session, NewSession(a, mtu))
          PROVE  /\ Created \subseteq Created' /\ \A s \in Created : Queue(s)' = Queue(s)
                 /\ \A s \in Created' \ Created : Queue(s)' = <<>>
      <4>1. /\ Len(session) \in Nat /\ Len(session') = Len(session) + 1
            /\ session'[Len(session) + 1] = NewSession(a, mtu)
            /\ \A s \in 1 .. Len(session) : session'[s] = session[s]
        BY <3>1, <3>3
      <4>2. \A s \in Created' \ Created : s = Len(session) + 1
        BY <4>1 DEF Created
      <4> QED
        BY <4>1, <4>2 DEF Created, Queue, NewSession
    <3> QED
      BY <2>1, <3>2, <3>3
  <2>4. SamePongs
    BY <2>1, <2>3 DEF SamePongs
  <2> QED
    BY <2>1, <2>2, <2>4, NoChangeShrinks, QuietPongs
<1> QED
  BY <1>1, <1>2

LEMMA WorkerPongs ==
  ASSUME TInv, PInv, NEW w \in Worker, WorkerStep(w)
  PROVE  PInv'
<1>0. arrived \in Nat
  BY DEF TInv, RestOK
<1>1. ASSUME NEW s \in Live, AcceptBegins(w, s) PROVE PInv'
  <2>1. /\ job' = [job EXCEPT ![w].number = session[s].sendSequenceNumber]
        /\ raced \subseteq raced' /\ job[w].packets # <<>>
        /\ UNCHANGED <<session, tasks, flush, arrived, wire, lost, together, crowded>>
    BY <1>1 DEF AcceptBegins, Overlap, IsIn, IsAt, receiverVars, sentVars
  <2>2. job'[w].packets = job[w].packets /\ job'[w].session = job[w].session
        /\ \A v \in Worker \ {w} : job'[v] = job[v]
    BY <2>1, JobOfWorker DEF TInv, JobType
  <2>3. SamePongs /\ JobsShrink
    BY <2>1, <2>2 DEF SamePongs, JobsShrink, Created, Queue
  <2> QED
    BY <1>0, <2>1, <2>3, QuietPongs
<1>2. ASSUME NEW s \in Live, AcceptEnds(w, s) PROVE PInv'
  <2> DEFINE packets == <<[kind |-> "accepted", id |-> Head(job[w].packets).id]>>
             d == Datagram(s, job[w].number, packets)
  <2>1. /\ session' = [session EXCEPT ![s].sendSequenceNumber = NextNumber(job[w].number)]
        /\ wire' = wire \cup {d} /\ Done(w) /\ job[w].packets # <<>>
        /\ UNCHANGED <<tasks, flush, arrived, lost, raced, together, crowded>>
    BY <1>2 DEF AcceptEnds, IsIn, IsAt, receiverVars, overlapVars
  <2>2. Pongs(d) = {} /\ Len(d.packets) = 1
    <3>1. d.packets = packets /\ Len(packets) = 1 /\ DOMAIN packets = {1}
          /\ packets[1].kind = "accepted"
      BY DEF Datagram
    <3> HIDE DEF packets
    <3>2. \A p \in ToSet(d.packets) : p.kind = "accepted"
      BY <3>1 DEF ToSet
    <3> QED
      BY <3>1, <3>2 DEF Pongs
  <2> HIDE DEF d
  <2>3. Created' = Created /\ \A x \in Created : Queue(x)' = Queue(x)
    BY <2>1, OtherChange DEF TInv
  <2>4. SamePongs /\ JobsShrink
    BY <2>1, <2>2, <2>3, DoneShrinks DEF SamePongs
  <2> QED
    BY <1>0, <2>1, <2>4, QuietPongs
<1>3. ASSUME NEW s \in Live, WorkerConnects(w, s) PROVE PInv'
  <2>1. /\ session' = [session EXCEPT ![s].state = "CONNECTED"]
        /\ Done(w) /\ job[w].packets # <<>>
        /\ UNCHANGED <<tasks, flush, arrived, wire, lost, raced, together, crowded>>
    BY <1>3 DEF WorkerConnects, IsIn, IsAt, receiverVars, sentVars, overlapVars
  <2>2. Created' = Created /\ \A x \in Created : Queue(x)' = Queue(x)
    BY <2>1, OtherChange DEF TInv
  <2>3. SamePongs /\ JobsShrink
    BY <2>1, <2>2, DoneShrinks DEF SamePongs
  <2> QED
    BY <1>0, <2>1, <2>3, QuietPongs
<1>4. CASE Passes(w) \/ DecodeThrows(w) \/ WorkerReturns(w)
  <2>1. /\ (Done(w) /\ job[w].packets # <<>>) \/ job' = [job EXCEPT ![w] = NoJob]
        /\ UNCHANGED <<session, tasks, flush, arrived, wire, lost, raced, together, crowded>>
    BY <1>4 DEF Passes, IsAt, DecodeThrows, WorkerReturns, receiverVars, sentVars, overlapVars
  <2>2. SamePongs /\ JobsShrink
    BY <2>1, DoneShrinks, ReturnShrinks DEF SamePongs, Created, Queue
  <2> QED
    BY <1>0, <2>1, <2>2, QuietPongs
<1>5. CASE WorkerMisuses(w)
  <2>1. UNCHANGED <<session, tasks, job, flush, arrived, wire, lost, raced, together, crowded>>
    BY <1>5 DEF WorkerMisuses, poolVars, receiverVars, sentVars, overlapVars
  <2>2. SamePongs /\ JobsShrink
    BY <2>1, NoChangeShrinks DEF SamePongs, Created, Queue
  <2> QED
    BY <1>0, <2>1, <2>2, QuietPongs
<1> QED
  BY <1>1, <1>2, <1>3, <1>4, <1>5, TakePongs, AnswerPongs, CollidePongs
  DEF WorkerStep, HandleRawPacket

LEMMA SamePInv == ASSUME TInv, PInv, UNCHANGED vars \/ UpdaterMisuses \/ Stop PROVE PInv'
<1>1. UNCHANGED <<session, tasks, job, flush, arrived, wire, lost, raced, together, crowded>>
  BY DEF UpdaterMisuses, Stop, vars, poolVars, receiverVars, sentVars, overlapVars
<1>2. SamePongs /\ JobsShrink
  BY <1>1, NoChangeShrinks DEF SamePongs, Created, Queue
<1>3. arrived \in Nat
  BY DEF TInv, RestOK
<1> QED
  BY <1>1, <1>2, <1>3, QuietPongs

LEMMA TimesOutPongs ==
  ASSUME TInv, PInv, NEW s \in Live, UpdaterTimesOut(s)
  PROVE  PInv'
<1>1. /\ session' = [session EXCEPT ![s].state = "DISCONNECTED"]
      /\ UNCHANGED <<tasks, job, flush, arrived, wire, lost, raced, together, crowded>>
  BY DEF UpdaterTimesOut, poolVars, receiverVars, sentVars, overlapVars
<1>2. Created' = Created /\ \A x \in Created : Queue(x)' = Queue(x)
  BY <1>1, OtherChange DEF TInv
<1>3. SamePongs /\ JobsShrink
  BY <1>1, <1>2, NoChangeShrinks DEF SamePongs
<1>4. arrived \in Nat
  BY DEF TInv, RestOK
<1> QED
  BY <1>1, <1>3, <1>4, QuietPongs

LEMMA Start_PInv == Init => PInv
<1> SUFFICES ASSUME Init PROVE PInv
  OBVIOUS
<1>1. /\ Created = {} /\ wire = {} /\ lost = {} /\ tasks = <<>> /\ arrived = 0
      /\ flush.packets = <<>> /\ flush.session = NoSession
      /\ \A w \in Worker : job[w].packets = <<>>
  BY DEF Init, Created, NoFlush, NoJob
<1>2. Answered = {} /\ Waiting = {} /\ Lost = {} /\ ToSet(flush.packets) = {}
  BY <1>1, NoIds DEF Answered, Waiting, Lost, Created
<1>3. Used = {} /\ InJobs = {}
  BY <1>1, <1>2, NoIds DEF Used, InJobs
<1>4. TasksInv /\ JobsInv
  BY <1>1, <1>3, NoIds DEF TasksInv, JobsInv
<1>5. PongsAccounted /\ QueuesInv
  BY <1>1, <1>2 DEF PongsAccounted, QueuesInv
<1>6. OrderInv /\ PongsInOrder
  BY <1>1 DEF OrderInv, PongsInOrder
<1> QED
  BY <1>4, <1>5, <1>6 DEF PInv

LEMMA Step_PInv == NInv /\ PInv /\ [Next]_vars => PInv'
<1> SUFFICES ASSUME TInv, NumbersInv, PInv, [Next]_vars PROVE PInv'
  BY DEF NInv
<1>1. CASE Next
  BY <1>1, ReceivePongs, WorkerPongs, TimesOutPongs, BeginPongs, EndPongs, SamePInv DEF Next
<1> QED
  BY <1>1, SamePInv

\* However the receiver, the workers and the updater interleave, a pong is in one
\* place: sent once, on its way, waiting, or lost because more waited than a
\* datagram holds or a thread got in the way (Session.cpp:57-61, 188).
THEOREM PongsAreAccounted == Spec => []PongsAccounted
<1>1. PInv => PongsAccounted
  BY DEF PInv
<1> QED
  BY <1>1, Start_NInv, Step_NInv, Start_PInv, Step_PInv, PTL DEF Spec

\* The pongs of a session leave in the order in which its pings came, in
\* datagrams whose numbers rise, unless two of its datagrams were handled at once
\* or threads were in sendDatagram at once (Session.cpp:139).
THEOREM PongsLeaveInOrder == Spec => []PongsInOrder
<1>1. PInv => PongsInOrder
  BY DEF PInv
<1> QED
  BY <1>1, Start_NInv, Step_NInv, Start_PInv, Step_PInv, PTL DEF Spec

-----------------------------------------------------------------------------
(* Selections from a sequence *)

LEMMA LeastNatural ==
  ASSUME NEW T \in SUBSET Nat, T # {}
  PROVE  \E m \in T : \A y \in T : m <= y
<1>1. PICK m \in T : \A y \in T : ~(<<y, m>> \in OpToRel(<, Nat))
  <2>1. T \subseteq Nat /\ T # {}
    OBVIOUS
  <2> QED
    BY <2>1, NatLessThanWellFounded, WFMin
<1>2. \A y \in T : ~(y < m)
  BY <1>1 DEF OpToRel
<1>3. \A y \in T : m <= y
  BY <1>2
<1> QED
  BY <1>3
\* The selections from the prefixes of q: the recursion of Selected.
IsSelection(f, q, T) ==
  /\ DOMAIN f = 0 .. Len(q)
  /\ f[0] = <<>>
  /\ \A k \in 1 .. Len(q) :
       f[k] = IF q[k] \in T THEN Append(f[k - 1], q[k]) ELSE f[k - 1]

\* The same in one equation.
Recurs(f, q, T) ==
  f = [k \in 0 .. Len(q) |->
         IF k = 0 THEN <<>>
         ELSE IF q[k] \in T THEN Append(f[k - 1], q[k]) ELSE f[k - 1]]

LEMMA SelectionExists ==
  ASSUME NEW q, Len(q) \in Nat, NEW T
  PROVE  \E f : Recurs(f, q, T)
<1> DEFINE Step(f, k) == IF q[k] \in T THEN Append(f[k - 1], q[k]) ELSE f[k - 1]
           Good(m) == \E f : f = [k \in 0 .. m |-> IF k = 0 THEN <<>> ELSE Step(f, k)]
           Bad == {m \in Nat : ~Good(m)}
<1>1. SUFFICES ASSUME Bad # {} PROVE FALSE
  BY <1>1 DEF Recurs
<1>2. PICK m \in Bad : \A y \in Bad : m <= y
  <2>1. Bad \in SUBSET Nat
    OBVIOUS
  <2> HIDE DEF Bad
  <2> QED
    BY <1>1, <2>1, LeastNatural
<1>3. CASE m = 0
  <2> DEFINE f == [k \in 0 .. 0 |-> <<>>]
  <2>1. f = [k \in 0 .. 0 |-> IF k = 0 THEN <<>> ELSE Step(f, k)]
    OBVIOUS
  <2> QED
    BY <1>3, <2>1
<1>4. CASE m # 0
  <2>1. m - 1 \in Nat /\ ~(m <= m - 1)
    BY <1>4
  <2>2. Good(m - 1)
    BY <1>2, <2>1
  <2>3. PICK f : f = [k \in 0 .. m - 1 |-> IF k = 0 THEN <<>> ELSE Step(f, k)]
    BY <2>2
  <2> DEFINE h == [k \in 0 .. m |-> IF k = m THEN Step(f, m) ELSE f[k]]
  <2>4. \A k \in 0 .. m : h[k] = IF k = 0 THEN <<>> ELSE Step(h, k)
    <3> SUFFICES ASSUME NEW k \in 0 .. m
                 PROVE  h[k] = IF k = 0 THEN <<>> ELSE Step(h, k)
      OBVIOUS
    <3>1. CASE k = m
      <4>1. h[k] = Step(f, m) /\ h[m - 1] = f[m - 1]
        BY <1>4, <2>1, <3>1
      <4> QED
        BY <1>4, <3>1, <4>1
    <3>2. CASE k # m /\ k # 0
      <4>1. k \in 0 .. m - 1 /\ k - 1 \in 0 .. m - 1 /\ k - 1 # m /\ k - 1 \in 0 .. m
        BY <2>1, <3>2
      <4>2. f[k] = Step(f, k)
        BY <2>3, <3>2, <4>1
      <4>3. h[k] = f[k] /\ h[k - 1] = f[k - 1]
        BY <3>2, <4>1
      <4> QED
        BY <3>2, <4>2, <4>3
    <3>3. CASE k = 0
      <4>1. 0 \in 0 .. m - 1
        BY <2>1
      <4>2. f[0] = <<>>
        BY <2>3, <4>1
      <4> QED
        BY <1>4, <3>3, <4>2
    <3> QED
      BY <3>1, <3>2, <3>3
  <2> DEFINE g == [k \in 0 .. m |-> IF k = 0 THEN <<>> ELSE Step(h, k)]
  <2>5. h = g
    BY <2>4
  <2> QED
    BY <2>5
<1> QED
  BY <1>3, <1>4

LEMMA SelectedIs ==
  ASSUME NEW q, Len(q) \in Nat, NEW T
  PROVE  \E f : IsSelection(f, q, T) /\ Selected(q, T) = f[Len(q)]
<1> DEFINE s == CHOOSE f : f = [k \in 0 .. Len(q) |->
                       IF k = 0 THEN <<>>
                       ELSE IF q[k] \in T THEN Append(f[k - 1], q[k]) ELSE f[k - 1]]
<1>1. Selected(q, T) = s[Len(q)]
  BY DEF Selected
<1>2. Recurs(s, q, T)
  <2>1. \E f : Recurs(f, q, T)
    BY SelectionExists
  <2> QED
    BY <2>1 DEF Recurs
<1> HIDE DEF s
<1>3. IsSelection(s, q, T)
  <2>1. \A k \in 0 .. Len(q) :
          s[k] = IF k = 0 THEN <<>>
                 ELSE IF q[k] \in T THEN Append(s[k - 1], q[k]) ELSE s[k - 1]
    BY <1>2 DEF Recurs
  <2>2. DOMAIN s = 0 .. Len(q)
    BY <1>2 DEF Recurs
  <2>3. s[0] = <<>>
    BY <2>1
  <2>4. \A k \in 1 .. Len(q) :
          s[k] = IF q[k] \in T THEN Append(s[k - 1], q[k]) ELSE s[k - 1]
    <3> SUFFICES ASSUME NEW k \in 1 .. Len(q)
                 PROVE  s[k] = IF q[k] \in T THEN Append(s[k - 1], q[k]) ELSE s[k - 1]
      OBVIOUS
    <3>1. k \in 0 .. Len(q) /\ k # 0
      OBVIOUS
    <3> QED
      BY <2>1, <3>1
  <2> QED
    BY <2>2, <2>3, <2>4 DEF IsSelection
<1> QED
  BY <1>1, <1>3

\* Selections from sequences that agree so far agree so far.
LEMMA SelectionsAgree ==
  ASSUME NEW q, NEW r, NEW T, NEW U, NEW f, NEW h, NEW n \in Nat,
         Len(q) \in Nat, Len(r) \in Nat, n <= Len(q), n <= Len(r),
         IsSelection(f, q, T), IsSelection(h, r, U),
         \A k \in 1 .. n : q[k] = r[k] /\ (q[k] \in T <=> r[k] \in U)
  PROVE  \A k \in 0 .. n : f[k] = h[k]
<1> DEFINE Bad == {k \in 0 .. n : f[k] # h[k]}
<1>1. SUFFICES ASSUME Bad # {} PROVE FALSE
  BY <1>1
<1>2. PICK m \in Bad : \A y \in Bad : m <= y
  <2>1. Bad \in SUBSET Nat
    OBVIOUS
  <2> HIDE DEF Bad
  <2> QED
    BY <1>1, <2>1, LeastNatural
<1>3. m # 0
  BY DEF IsSelection
<1>4. /\ m \in 1 .. n /\ m \in 1 .. Len(q) /\ m \in 1 .. Len(r)
      /\ m - 1 \in 0 .. n /\ ~(m <= m - 1)
  BY <1>3
<1>5. f[m - 1] = h[m - 1]
  BY <1>2, <1>4
<1>6. /\ f[m] = IF q[m] \in T THEN Append(f[m - 1], q[m]) ELSE f[m - 1]
      /\ h[m] = IF r[m] \in U THEN Append(h[m - 1], r[m]) ELSE h[m - 1]
  BY <1>4 DEF IsSelection
<1> QED
  BY <1>4, <1>5, <1>6

\* What is selected are elements of T.
LEMMA SelectionType ==
  ASSUME NEW q, Len(q) \in Nat, NEW T, NEW f, IsSelection(f, q, T)
  PROVE  \A k \in 0 .. Len(q) : f[k] \in Seq(T)
<1> DEFINE Bad == {k \in 0 .. Len(q) : f[k] \notin Seq(T)}
<1>1. SUFFICES ASSUME Bad # {} PROVE FALSE
  BY <1>1
<1>2. PICK m \in Bad : \A y \in Bad : m <= y
  <2>1. Bad \in SUBSET Nat
    OBVIOUS
  <2> HIDE DEF Bad
  <2> QED
    BY <1>1, <2>1, LeastNatural
<1>3. m # 0
  <2>1. <<>> \in Seq(T)
    OBVIOUS
  <2> QED
    BY <2>1 DEF IsSelection
<1>4. m \in 1 .. Len(q) /\ m - 1 \in 0 .. Len(q) /\ ~(m <= m - 1)
  BY <1>3
<1>5. f[m - 1] \in Seq(T)
  BY <1>2, <1>4
<1>6. f[m] = IF q[m] \in T THEN Append(f[m - 1], q[m]) ELSE f[m - 1]
  BY <1>4 DEF IsSelection
<1>7. CASE q[m] \in T
  <2>1. PICK y \in T : y = q[m]
    BY <1>7
  <2>2. PICK s \in Seq(T) : s = f[m - 1]
    BY <1>5
  <2>3. Append(s, y) \in Seq(T)
    OBVIOUS
  <2> QED
    BY <1>6, <1>7, <2>1, <2>2, <2>3
<1> QED
  BY <1>5, <1>6, <1>7

LEMMA SelectedType ==
  ASSUME NEW q, Len(q) \in Nat, NEW T
  PROVE  Selected(q, T) \in Seq(T)
<1>1. PICK f : IsSelection(f, q, T) /\ Selected(q, T) = f[Len(q)]
  BY SelectedIs
<1> QED
  BY <1>1, SelectionType

\* One more element is selected or not.
LEMMA SelectedAppend ==
  ASSUME NEW q, NEW r, NEW x, NEW T,
         Len(q) \in Nat, Len(r) = Len(q) + 1, r[Len(q) + 1] = x,
         \A k \in 1 .. Len(q) : r[k] = q[k]
  PROVE  Selected(r, T) = IF x \in T THEN Append(Selected(q, T), x) ELSE Selected(q, T)
<1>1. PICK f : IsSelection(f, q, T) /\ Selected(q, T) = f[Len(q)]
  BY SelectedIs
<1>2. PICK h : IsSelection(h, r, T) /\ Selected(r, T) = h[Len(r)]
  BY SelectedIs
<1>3. f[Len(q)] = h[Len(q)]
  <2>1. \A k \in 0 .. Len(q) : f[k] = h[k]
    BY <1>1, <1>2, SelectionsAgree
  <2> QED
    BY <2>1
<1>4. Len(q) + 1 \in 1 .. Len(r) /\ (Len(q) + 1) - 1 = Len(q)
  OBVIOUS
<1>5. h[Len(q) + 1] = IF x \in T THEN Append(h[Len(q)], x) ELSE h[Len(q)]
  BY <1>2, <1>4 DEF IsSelection
<1> QED
  BY <1>1, <1>2, <1>3, <1>5

\* The selection depends on what T has of the sequence.
LEMMA SelectedSame ==
  ASSUME NEW q, Len(q) \in Nat, NEW T, NEW U,
         \A k \in 1 .. Len(q) : q[k] \in T <=> q[k] \in U
  PROVE  Selected(q, T) = Selected(q, U)
<1>1. PICK f : IsSelection(f, q, T) /\ Selected(q, T) = f[Len(q)]
  BY SelectedIs
<1>2. PICK h : IsSelection(h, q, U) /\ Selected(q, U) = h[Len(q)]
  BY SelectedIs
<1>3. \A k \in 0 .. Len(q) : f[k] = h[k]
  BY <1>1, <1>2, SelectionsAgree
<1> QED
  BY <1>1, <1>2, <1>3

\* r is q without its place p.
Without(q, p, r) ==
  /\ Len(r) = Len(q) - 1
  /\ \A k \in 1 .. p - 1 : r[k] = q[k]
  /\ \A k \in p .. Len(q) - 1 : r[k] = q[k + 1]

LEMMA SelectedOther ==
  ASSUME NEW q, NEW r, NEW T, NEW p \in 1 .. Len(q), Len(q) \in Nat,
         Without(q, p, r), q[p] \notin T
  PROVE  Selected(r, T) = Selected(q, T)
<1>1. Len(r) \in Nat /\ Len(r) = Len(q) - 1 /\ p - 1 \in Nat
  BY DEF Without
<1>2. PICK f : IsSelection(f, q, T) /\ Selected(q, T) = f[Len(q)]
  BY SelectedIs
<1>3. PICK h : IsSelection(h, r, T) /\ Selected(r, T) = h[Len(r)]
  BY <1>1, SelectedIs
<1>4. h[p - 1] = f[p - 1]
  <2>1. \A k \in 1 .. p - 1 : r[k] = q[k] /\ (r[k] \in T <=> q[k] \in T)
    BY DEF Without
  <2>2. \A k \in 0 .. p - 1 : h[k] = f[k]
    BY <1>1, <1>2, <1>3, <2>1, SelectionsAgree
  <2> QED
    BY <1>1, <2>2
<1>5. f[p] = f[p - 1]
  BY <1>2 DEF IsSelection
<1> DEFINE Bad == {k \in p - 1 .. Len(r) : h[k] # f[k + 1]}
<1>6. SUFFICES ASSUME Bad # {} PROVE FALSE
  BY <1>1, <1>2, <1>3, <1>6
<1>7. PICK m \in Bad : \A y \in Bad : m <= y
  <2>1. Bad \in SUBSET Nat
    BY <1>1
  <2> HIDE DEF Bad
  <2> QED
    BY <1>6, <2>1, LeastNatural
<1>8. m # p - 1
  BY <1>4, <1>5
<1>9. /\ m \in 1 .. Len(r) /\ m + 1 \in 1 .. Len(q) /\ m \in p .. Len(q) - 1
      /\ m - 1 \in p - 1 .. Len(r) /\ ~(m <= m - 1) /\ (m - 1) + 1 = m /\ (m + 1) - 1 = m
  BY <1>1, <1>8
<1>10. h[m - 1] = f[m]
  BY <1>7, <1>9
<1>11. /\ h[m] = IF r[m] \in T THEN Append(h[m - 1], r[m]) ELSE h[m - 1]
       /\ f[m + 1] = IF q[m + 1] \in T THEN Append(f[m], q[m + 1]) ELSE f[m]
       /\ r[m] = q[m + 1]
  BY <1>2, <1>3, <1>9 DEF IsSelection, Without
<1> QED
  BY <1>10, <1>11

\* Without the first element that is selected, the rest is.
LEMMA SelectedFirst ==
  ASSUME NEW q, NEW r, NEW T, NEW p \in 1 .. Len(q), Len(q) \in Nat,
         Without(q, p, r), q[p] \in T, \A k \in 1 .. p - 1 : q[k] \notin T
  PROVE  /\ Selected(q, T) # <<>>
         /\ Selected(r, T) = Tail(Selected(q, T))
<1>1. Len(r) \in Nat /\ Len(r) = Len(q) - 1 /\ p - 1 \in Nat
  BY DEF Without
<1>2. PICK f : IsSelection(f, q, T) /\ Selected(q, T) = f[Len(q)]
  BY SelectedIs
<1>3. PICK h : IsSelection(h, r, T) /\ Selected(r, T) = h[Len(r)]
  BY <1>1, SelectedIs
<1>4. f[p - 1] = <<>>
  <2> DEFINE Bad == {k \in 0 .. p - 1 : f[k] # <<>>}
  <2>1. SUFFICES ASSUME Bad # {} PROVE FALSE
    BY <1>1, <2>1
  <2>2. PICK m \in Bad : \A y \in Bad : m <= y
    <3>1. Bad \in SUBSET Nat
      OBVIOUS
    <3> HIDE DEF Bad
    <3> QED
      BY <2>1, <3>1, LeastNatural
  <2>3. m # 0
    BY <1>2 DEF IsSelection
  <2>4. m \in 1 .. Len(q) /\ m \in 1 .. p - 1 /\ m - 1 \in 0 .. p - 1 /\ ~(m <= m - 1)
    BY <2>3
  <2> QED
    BY <1>2, <2>2, <2>4 DEF IsSelection
<1>5. h[p - 1] = <<>>
  <2>1. \A k \in 1 .. p - 1 : r[k] = q[k] /\ (r[k] \in T <=> q[k] \in T)
    BY DEF Without
  <2>2. \A k \in 0 .. p - 1 : h[k] = f[k]
    BY <1>1, <1>2, <1>3, <2>1, SelectionsAgree
  <2> QED
    BY <1>1, <1>4, <2>2
<1>6. PICK x \in T : x = q[p] /\ f[p] = Append(<<>>, x)
  BY <1>2, <1>4 DEF IsSelection
<1>7. \A k \in 0 .. Len(q) : f[k] \in Seq(T)
  BY <1>2, SelectionType
<1> DEFINE Bad == {k \in p - 1 .. Len(r) : ~(f[k + 1] # <<>> /\ h[k] = Tail(f[k + 1]))}
<1>8. SUFFICES ASSUME Bad # {} PROVE FALSE
  BY <1>1, <1>2, <1>3, <1>8
<1>9. PICK m \in Bad : \A y \in Bad : m <= y
  <2>1. Bad \in SUBSET Nat
    BY <1>1
  <2> HIDE DEF Bad
  <2> QED
    BY <1>8, <2>1, LeastNatural
<1>10. m # p - 1
  <2>1. (p - 1) + 1 = p
    BY <1>1
  <2>2. Append(<<>>, x) # <<>> /\ Tail(Append(<<>>, x)) = <<>>
    OBVIOUS
  <2> QED
    BY <1>5, <1>6, <2>1, <2>2
<1>11. /\ m \in 1 .. Len(r) /\ m + 1 \in 1 .. Len(q) /\ m \in p .. Len(q) - 1
       /\ m - 1 \in p - 1 .. Len(r) /\ ~(m <= m - 1) /\ (m - 1) + 1 = m /\ (m + 1) - 1 = m
       /\ m \in 0 .. Len(q)
  BY <1>1, <1>10
<1>12. f[m] # <<>> /\ h[m - 1] = Tail(f[m])
  BY <1>9, <1>11
<1>13. /\ h[m] = IF r[m] \in T THEN Append(h[m - 1], r[m]) ELSE h[m - 1]
       /\ f[m + 1] = IF q[m + 1] \in T THEN Append(f[m], q[m + 1]) ELSE f[m]
       /\ r[m] = q[m + 1]
  BY <1>2, <1>3, <1>11 DEF IsSelection, Without
<1>14. PICK s : s = f[m]
  OBVIOUS
<1>15. s \in Seq(T) /\ s # <<>>
  BY <1>7, <1>11, <1>12, <1>14
<1>16. CASE q[m + 1] \in T
  <2>1. PICK y \in T : y = q[m + 1]
    BY <1>16
  <2>2. Append(s, y) # <<>> /\ Append(Tail(s), y) = Tail(Append(s, y))
    BY <1>15
  <2> QED
    BY <1>12, <1>13, <1>14, <1>16, <2>1, <2>2
<1>17. CASE q[m + 1] \notin T
  BY <1>12, <1>13, <1>17
<1> QED
  BY <1>16, <1>17

LEMMA SubSeqAppend ==
  ASSUME NEW S, NEW p \in Seq(S), NEW x \in S, NEW c \in Nat, c <= Len(p)
  PROVE  /\ Append(p, x) \in Seq(S) /\ Len(Append(p, x)) = Len(p) + 1
         /\ SubSeq(Append(p, x), c + 1, Len(p) + 1) = Append(SubSeq(p, c + 1, Len(p)), x)
<1>1. PICK n \in Nat : n = Len(p)
  OBVIOUS
<1>2. PICK q : q = Append(p, x)
  OBVIOUS
<1>3. /\ q \in Seq(S) /\ Len(q) = n + 1 /\ q[n + 1] = x
      /\ \A k \in 1 .. n : q[k] = p[k]
  BY <1>1, <1>2
<1>4. PICK l : l = SubSeq(q, c + 1, n + 1)
  OBVIOUS
<1>5. PICK m : m = SubSeq(p, c + 1, n)
  OBVIOUS
<1>6. /\ l \in Seq(S) /\ Len(l) = n + 1 - c
      /\ \A k \in 1 .. n + 1 - c : l[k] = q[k + c]
  BY <1>1, <1>3, <1>4
<1>7. /\ m \in Seq(S) /\ Len(m) = n - c
      /\ \A k \in 1 .. n - c : m[k] = p[k + c]
  BY <1>1, <1>5
<1>8. PICK r : r = Append(m, x)
  OBVIOUS
<1>9. /\ r \in Seq(S) /\ Len(r) = n - c + 1 /\ r[n - c + 1] = x
      /\ \A k \in 1 .. n - c : r[k] = m[k]
  <2>1. m \in Seq(S)
    BY <1>7
  <2>2. /\ Append(m, x) \in Seq(S) /\ Len(Append(m, x)) = Len(m) + 1
        /\ \A k \in 1 .. Len(m) : Append(m, x)[k] = m[k]
        /\ Append(m, x)[Len(m) + 1] = x
    <3>1. Append(m, x) \in Seq(S)
      BY <2>1, AppendProperties, Zenon
    <3>2. Len(Append(m, x)) = Len(m) + 1
      BY <2>1, AppendProperties, Zenon
    <3>3. \A k \in 1 .. Len(m) : Append(m, x)[k] = m[k]
      BY <2>1
    <3>4. Append(m, x)[Len(m) + 1] = x
      BY <2>1, AppendProperties, Zenon
    <3> QED
      BY <3>1, <3>2, <3>3, <3>4
  <2>3. Len(m) = n - c
    BY <1>7
  <2> QED
    BY <1>8, <2>2, <2>3, Zenon
<1>10. \A k \in 1 .. n + 1 - c : l[k] = r[k]
  <2> SUFFICES ASSUME NEW k \in 1 .. n + 1 - c PROVE l[k] = r[k]
    OBVIOUS
  <2>1. CASE k = n + 1 - c
    BY <1>1, <1>3, <1>6, <1>9, <2>1
  <2>2. CASE k # n + 1 - c
    <3>1. k \in 1 .. n - c /\ k + c \in 1 .. n
      BY <1>1, <2>2
    <3> QED
      BY <1>3, <1>6, <1>7, <1>9, <3>1
  <2> QED
    BY <2>1, <2>2
<1>11. l = r
  <2>1. Len(l) = Len(r)
    BY <1>6, <1>9
  <2>2. \A k \in 1 .. Len(l) : l[k] = r[k]
    BY <1>6, <1>10
  <2> QED
    BY <1>6, <1>9, <2>1, <2>2, SeqEqual
<1> QED
  BY <1>1, <1>2, <1>3, <1>4, <1>5, <1>8, <1>11

LEMMA SubSeqTail ==
  ASSUME NEW S, NEW p \in Seq(S), NEW c \in Nat, c < Len(p)
  PROVE  SubSeq(p, c + 2, Len(p)) = Tail(SubSeq(p, c + 1, Len(p)))
OBVIOUS

LEMMA RemoveAtIs ==
  ASSUME NEW S, NEW q \in Seq(S), NEW k \in 1 .. Len(q)
  PROVE  Without(q, k, RemoveAt(q, k))
<1>1. PICK l \in Seq(S) : l = SubSeq(q, 1, k - 1)
  <2>1. SubSeq(q, 1, k - 1) \in Seq(S)
    OBVIOUS
  <2> QED
    BY <2>1
<1>2. PICK m \in Seq(S) : m = SubSeq(q, k + 1, Len(q))
  <2>1. SubSeq(q, k + 1, Len(q)) \in Seq(S)
    OBVIOUS
  <2> QED
    BY <2>1
<1>3. PICK r : r = l \o m
  OBVIOUS
<1>4. Len(l) = k - 1 /\ \A i \in 1 .. k - 1 : l[i] = q[i]
  BY <1>1
<1>5. Len(m) = Len(q) - k /\ \A i \in 1 .. Len(q) - k : m[i] = q[i + k]
  BY <1>2
<1>6. /\ Len(r) = Len(q) - 1
      /\ \A i \in 1 .. k - 1 : r[i] = l[i]
      /\ \A i \in k .. Len(q) - 1 : r[i] = m[i - (k - 1)]
  <2>1. /\ Len(r) = Len(l) + Len(m)
        /\ \A i \in 1 .. Len(l) + Len(m) :
             r[i] = IF i <= Len(l) THEN l[i] ELSE m[i - Len(l)]
    <3>1. l \in Seq(S) /\ m \in Seq(S)
      BY <1>1, <1>2
    <3> QED
      BY <1>3, <3>1, ConcatProperties, Zenon
  <2>2. Len(l) = k - 1 /\ Len(l) + Len(m) = Len(q) - 1
    BY <1>4, <1>5
  <2>3. \A i \in 1 .. Len(q) - 1 : r[i] = IF i <= k - 1 THEN l[i] ELSE m[i - (k - 1)]
    BY <2>1, <2>2, Zenon
  <2>4. \A i \in 1 .. k - 1 : i \in 1 .. Len(q) - 1 /\ i <= k - 1
    OBVIOUS
  <2>5. \A i \in k .. Len(q) - 1 : i \in 1 .. Len(q) - 1 /\ ~(i <= k - 1)
    OBVIOUS
  <2> QED
    BY <2>1, <2>2, <2>3, <2>4, <2>5, Zenon
<1>7. \A i \in k .. Len(q) - 1 : r[i] = q[i + 1]
  <2> SUFFICES ASSUME NEW i \in k .. Len(q) - 1 PROVE r[i] = q[i + 1]
    OBVIOUS
  <2>1. i - (k - 1) \in 1 .. Len(q) - k /\ (i - (k - 1)) + k = i + 1
    OBVIOUS
  <2> QED
    BY <1>5, <1>6, <2>1
<1> QED
  BY <1>1, <1>2, <1>3, <1>4, <1>6, <1>7 DEF RemoveAt, Without

-----------------------------------------------------------------------------
(* The sessions that were promised *)

ReplyType ==
  [name : {"UnconnectedPong", "IncompatibleProtocol"}]
    \cup [name : {"OpenConnectionReply1"}, MTU : Int] \cup SessionReply

\* What a reply promises and what the list has are compared where both are whole.
RepliesInv ==
  /\ replies \in [Address -> Seq(ReplyType)]
  /\ \A a \in Address : closed[a] <= Len(Promised(a))
  /\ SessionsAsReplied

OfAddress(a) == {s \in 1 .. Len(session) : session[s].address = a}
MTUsOf(a) == [k \in DOMAIN SessionsOf(a) |-> session[SessionsOf(a)[k]].MTU]

LEMMA PromisedType ==
  ASSUME RepliesInv, NEW a \in Address
  PROVE  /\ Promised(a) \in Seq(MTUs) /\ Len(Promised(a)) \in Nat
         /\ Len(Promised(a)) = Len(Selected(replies[a], SessionReply))
         /\ \A k \in 1 .. Len(Promised(a)) :
              Promised(a)[k] = Selected(replies[a], SessionReply)[k].MTU
<1>1. PICK q : q = Selected(replies[a], SessionReply)
  OBVIOUS
<1>2. q \in Seq(SessionReply)
  <2>1. replies[a] \in Seq(ReplyType) /\ Len(replies[a]) \in Nat
    BY DEF RepliesInv
  <2> QED
    BY <1>1, <2>1, SelectedType
<1>3. Promised(a) = [k \in DOMAIN q |-> q[k].MTU]
  BY <1>1 DEF Promised
<1>4. DOMAIN q = 1 .. Len(q) /\ Len(q) \in Nat /\ \A k \in 1 .. Len(q) : q[k].MTU \in MTUs
  <2>1. \A k \in 1 .. Len(q) : q[k] \in SessionReply
    BY <1>2
  <2> QED
    BY <1>2, <2>1 DEF SessionReply
<1>5. Promised(a) \in Seq(MTUs) /\ Len(Promised(a)) = Len(q)
  BY <1>3, <1>4, MadeSeq
<1> QED
  BY <1>1, <1>3, <1>4, <1>5

LEMMA SessionsOfType ==
  ASSUME SessionsOK, NEW a \in Address
  PROVE  /\ SessionsOf(a) \in Seq(OfAddress(a)) /\ SessionsOf(a) \in Seq(Created)
         /\ MTUsOf(a) \in Seq(Nat) /\ Len(MTUsOf(a)) = Len(SessionsOf(a))
         /\ Len(MTUsOf(a)) \in Nat
         /\ \A k \in 1 .. Len(MTUsOf(a)) : MTUsOf(a)[k] = session[SessionsOf(a)[k]].MTU
<1>1. PICK q : q = SessionsOf(a)
  OBVIOUS
<1>2. q \in Seq(OfAddress(a))
  <2>1. Len(sessions) \in Nat
    BY DEF SessionsOK
  <2>2. q = Selected(sessions, OfAddress(a))
    BY <1>1 DEF SessionsOf, OfAddress
  <2> QED
    BY <2>1, <2>2, SelectedType
<1>3. OfAddress(a) \subseteq Created
  BY DEF OfAddress, Created
<1>4. q \in Seq(Created)
  BY <1>2, <1>3, SeqOfMore
<1>5. DOMAIN q = 1 .. Len(q) /\ Len(q) \in Nat /\ \A k \in 1 .. Len(q) : session[q[k]].MTU \in Nat
  <2>1. \A k \in 1 .. Len(q) : q[k] \in 1 .. Len(session)
    BY <1>4 DEF Created
  <2>2. \A k \in 1 .. Len(session) : session[k] \in SessionType
    BY DEF SessionsOK
  <2>3. \A r \in SessionType : r.MTU \in Nat
    BY ConnectionAssumption DEF SessionType
  <2> QED
    BY <1>4, <2>1, <2>2, <2>3
<1>6. MTUsOf(a) = [k \in 1 .. Len(q) |-> session[q[k]].MTU]
  BY <1>1, <1>5 DEF MTUsOf
<1>7. MTUsOf(a) \in Seq(Nat) /\ Len(MTUsOf(a)) = Len(q)
  BY <1>5, <1>6, MadeSeq
<1> QED
  BY <1>1, <1>2, <1>4, <1>5, <1>6, <1>7

\* A step that promises nothing and leaves the sessions' addresses and MTUs alone.
LEMMA RepliesStay ==
  ASSUME TInv, TInv', RepliesInv, UNCHANGED <<sessions, closed>>,
         replies' \in [Address -> Seq(ReplyType)],
         \A a \in Address :
           Selected(replies'[a], SessionReply) = Selected(replies[a], SessionReply),
         Len(session') = Len(session),
         \A s \in Created : /\ session'[s].address = session[s].address
                            /\ session'[s].MTU = session[s].MTU
  PROVE  RepliesInv'
<1>1. \A a \in Address : Promised(a)' = Promised(a)
  BY DEF Promised
<1>2. ASSUME NEW a \in Address PROVE SessionsOf(a)' = SessionsOf(a) /\ MTUsOf(a)' = MTUsOf(a)
  <2>1. OfAddress(a)' = OfAddress(a)
    BY DEF OfAddress, Created
  <2>2. SessionsOf(a)' = SessionsOf(a)
    BY <2>1 DEF SessionsOf, OfAddress
  <2>3. PICK q \in Seq(Created) : q = SessionsOf(a)
    BY SessionsOfType DEF TInv
  <2>4. \A k \in DOMAIN q : q[k] \in Created
    OBVIOUS
  <2>5. [k \in DOMAIN q |-> session'[q[k]].MTU] = [k \in DOMAIN q |-> session[q[k]].MTU]
    BY <2>4
  <2> QED
    BY <2>2, <2>3, <2>5 DEF MTUsOf
<1>3. \A a \in Address : MTUsOf(a)' = SubSeq(Promised(a), closed[a] + 1, Len(Promised(a)))
  BY <1>2 DEF RepliesInv, SessionsAsReplied, MTUsOf
<1>4. SessionsAsReplied'
  BY <1>1, <1>3 DEF SessionsAsReplied, MTUsOf
<1> QED
  BY <1>1, <1>4 DEF RepliesInv

LEMMA QuietReplies ==
  ASSUME TInv, TInv', RepliesInv, UNCHANGED <<sessions, closed, replies>>,
         Len(session') = Len(session),
         \A s \in Created : /\ session'[s].address = session[s].address
                            /\ session'[s].MTU = session[s].MTU
  PROVE  RepliesInv'
<1>1. replies' \in [Address -> Seq(ReplyType)]
  BY DEF RepliesInv
<1>2. \A a \in Address :
        Selected(replies'[a], SessionReply) = Selected(replies[a], SessionReply)
  OBVIOUS
<1> QED
  BY <1>1, <1>2, RepliesStay

\* One more reply to a.
LEMMA ReplyAppended ==
  ASSUME RepliesInv, NEW a \in Address, NEW x \in ReplyType, Reply(a, x)
  PROVE  /\ replies' \in [Address -> Seq(ReplyType)]
         /\ \A b \in Address \ {a} : replies'[b] = replies[b]
         /\ Selected(replies'[a], SessionReply) =
              IF x \in SessionReply THEN Append(Selected(replies[a], SessionReply), x)
              ELSE Selected(replies[a], SessionReply)
<1>1. PICK q \in Seq(ReplyType) : q = replies[a]
  BY DEF RepliesInv
<1>2. PICK r : r = Append(q, x)
  OBVIOUS
<1>3. /\ r \in Seq(ReplyType) /\ Len(q) \in Nat /\ Len(r) = Len(q) + 1
      /\ r[Len(q) + 1] = x /\ \A k \in 1 .. Len(q) : r[k] = q[k]
  BY <1>1, <1>2
<1>4. replies' = [replies EXCEPT ![a] = r]
  BY <1>1, <1>2 DEF Reply
<1>5. Selected(r, SessionReply) =
        IF x \in SessionReply THEN Append(Selected(q, SessionReply), x)
        ELSE Selected(q, SessionReply)
  BY <1>3, SelectedAppend
<1> QED
  BY <1>1, <1>3, <1>4, <1>5 DEF RepliesInv

LEMMA OtherReply ==
  ASSUME TInv, TInv', RepliesInv, NEW a \in Address, NEW x \in ReplyType \ SessionReply,
         Reply(a, x), UNCHANGED <<sessions, session, closed>>
  PROVE  RepliesInv'
<1>1. /\ replies' \in [Address -> Seq(ReplyType)]
      /\ \A b \in Address :
           Selected(replies'[b], SessionReply) = Selected(replies[b], SessionReply)
  BY ReplyAppended
<1> QED
  BY <1>1, RepliesStay

LEMMA Request2Replies ==
  ASSUME TInv, TInv', RepliesInv, NEW a \in Address, NEW mtu \in MTUs, Request2Arrives(a, mtu)
  PROVE  RepliesInv'
<1>1. CASE ~GoodMTU(mtu)
  <2>1. UNCHANGED <<sessions, session, closed, replies>>
    BY <1>1 DEF Request2Arrives, Escapes
  <2> QED
    BY <2>1, QuietReplies
<1>2. CASE GoodMTU(mtu)
  <2> DEFINE x == [name |-> "OpenConnectionReply2", MTU |-> mtu]
             n == Len(session) + 1
  <2>1. /\ session' = Append(session, NewSession(a, mtu)) /\ sessions' = Append(sessions, n)
        /\ Reply(a, x) /\ closed' = closed
    BY <1>2 DEF Request2Arrives, Escapes, PutLast
  <2>2. x \in SessionReply /\ x \in ReplyType
    BY DEF SessionReply, ReplyType
  <2> HIDE DEF x
  <2>3. /\ replies' \in [Address -> Seq(ReplyType)]
        /\ \A b \in Address \ {a} : Promised(b)' = Promised(b)
        /\ Selected(replies'[a], SessionReply) = Append(Selected(replies[a], SessionReply), x)
    BY <2>1, <2>2, ReplyAppended DEF Promised
  <2>4. Promised(a)' = Append(Promised(a), mtu)
    <3>1. PICK q : q = Selected(replies[a], SessionReply)
      OBVIOUS
    <3>2. q \in Seq(SessionReply)
      <4>1. replies[a] \in Seq(ReplyType) /\ Len(replies[a]) \in Nat
        BY DEF RepliesInv
      <4> QED
        BY <3>1, <4>1, SelectedType
    <3>3. PICK r : r = Append(q, x)
      OBVIOUS
    <3>4. /\ r \in Seq(SessionReply) /\ Len(r) = Len(q) + 1 /\ r[Len(q) + 1] = x
          /\ \A k \in 1 .. Len(q) : r[k] = q[k]
      BY <2>2, <3>2, <3>3
    <3>5. Promised(a)' = [k \in 1 .. Len(q) + 1 |-> r[k].MTU]
      <4>1. PICK z : z = Selected(replies'[a], SessionReply)
        OBVIOUS
      <4>2. Promised(a)' = [k \in DOMAIN z |-> z[k].MTU]
        BY <4>1 DEF Promised
      <4>3. z = r /\ DOMAIN r = 1 .. Len(q) + 1
        BY <2>3, <3>1, <3>2, <3>3, <3>4, <4>1
      <4> QED
        BY <4>2, <4>3
    <3>6. Promised(a) = [k \in 1 .. Len(q) |-> q[k].MTU]
      BY <3>1, <3>2 DEF Promised
    <3>7. x.MTU = mtu
      BY DEF x
    <3>8. PICK p \in Seq(MTUs) : p = Promised(a)
      BY PromisedType
    <3>9. PICK u : u = Append(p, mtu)
      OBVIOUS
    <3>10. /\ u \in Seq(MTUs) /\ Len(u) = Len(p) + 1 /\ u[Len(p) + 1] = mtu
           /\ \A k \in 1 .. Len(p) : u[k] = p[k]
      BY <3>9
    <3>11. Len(p) = Len(q)
      BY <3>1, <3>8, PromisedType
    <3>12. PICK v : v = Promised(a)'
      OBVIOUS
    <3>13. \A k \in 1 .. Len(q) + 1 : v[k] = u[k]
      <4> SUFFICES ASSUME NEW k \in 1 .. Len(q) + 1 PROVE v[k] = u[k]
        OBVIOUS
      <4>1. Len(q) \in Nat
        BY <3>2
      <4>2. CASE k = Len(q) + 1
        BY <3>4, <3>5, <3>7, <3>10, <3>11, <3>12, <4>2
      <4>3. CASE k # Len(q) + 1
        <5>1. k \in 1 .. Len(q)
          BY <4>1, <4>3
        <5>2. v[k] = q[k].MTU
          BY <3>4, <3>5, <3>12, <5>1
        <5>3. u[k] = p[k]
          BY <3>10, <3>11, <5>1
        <5> QED
          BY <3>6, <3>8, <5>1, <5>2, <5>3
      <4> QED
        BY <4>2, <4>3
    <3>14. v = [k \in 1 .. Len(q) + 1 |-> v[k]] /\ u = [k \in 1 .. Len(q) + 1 |-> u[k]]
      BY <3>5, <3>10, <3>11, <3>12
    <3> QED
      BY <3>8, <3>9, <3>12, <3>13, <3>14
  <2>5. PICK q \in Seq(Created) : q = sessions
    BY DEF TInv, SessionsOK
  <2>6. PICK r : r = Append(q, n)
    OBVIOUS
  <2>7. PICK m \in Nat : m = Len(session)
    BY DEF TInv, SessionsOK
  <2>8. /\ r \in Seq(1 .. m + 1) /\ Len(q) \in Nat /\ Len(r) = Len(q) + 1 /\ r[Len(q) + 1] = m + 1
        /\ \A k \in 1 .. Len(q) : r[k] = q[k] /\ q[k] \in 1 .. m
    <3>1. q \in Seq(1 .. m + 1) /\ \A k \in 1 .. Len(q) : q[k] \in 1 .. m
      BY <2>5, <2>7, SeqOfMore DEF Created
    <3> QED
      BY <2>6, <2>7, <3>1
  <2>9. /\ Len(session') = m + 1 /\ session'[m + 1] = NewSession(a, mtu)
        /\ \A s \in 1 .. m : session'[s] = session[s]
    <3>1. session \in Seq(SessionType)
      BY DEF TInv, SessionsOK
    <3> QED
      BY <2>1, <2>7, <3>1
  <2>10. ASSUME NEW b \in Address
         PROVE  /\ (m + 1 \in OfAddress(b)') <=> (b = a)
                /\ \A s \in 1 .. m : s \in OfAddress(b) <=> s \in OfAddress(b)'
    BY <2>7, <2>9 DEF OfAddress, NewSession
  <2>11. ASSUME NEW b \in Address
         PROVE  SessionsOf(b)' = IF b = a THEN Append(SessionsOf(b), n) ELSE SessionsOf(b)
    <3>1. PICK T : T = OfAddress(b)
      OBVIOUS
    <3>2. PICK U : U = OfAddress(b)'
      OBVIOUS
    <3>3. \A k \in 1 .. Len(q) : q[k] \in T <=> q[k] \in U
      BY <2>8, <2>10, <3>1, <3>2
    <3>4. Selected(q, T) = Selected(q, U)
      BY <2>8, <3>3, SelectedSame
    <3>5. Selected(r, U) = IF m + 1 \in U THEN Append(Selected(q, U), m + 1) ELSE Selected(q, U)
      <4>1. PICK y : y = m + 1
        OBVIOUS
      <4>2. /\ Len(q) \in Nat /\ Len(r) = Len(q) + 1 /\ r[Len(q) + 1] = y
            /\ \A k \in 1 .. Len(q) : r[k] = q[k]
        BY <2>8, <4>1
      <4>3. Selected(r, U) = IF y \in U THEN Append(Selected(q, U), y) ELSE Selected(q, U)
        BY ONLY <4>2, SelectedAppend
      <4> QED
        BY <4>1, <4>3, Zenon
    <3>6. SessionsOf(b) = Selected(q, T)
      BY <2>5, <3>1 DEF SessionsOf, OfAddress
    <3>7. SessionsOf(b)' = Selected(r, U)
      BY <2>1, <2>5, <2>6, <3>2 DEF SessionsOf, OfAddress
    <3>8. m + 1 \in U <=> b = a
      BY <2>10, <3>2
    <3> QED
      BY <2>7, <3>4, <3>5, <3>6, <3>7, <3>8
  <2>12. ASSUME NEW b \in Address
         PROVE  MTUsOf(b)' = IF b = a THEN Append(MTUsOf(b), mtu) ELSE MTUsOf(b)
    <3>1. PICK p \in Seq(1 .. m) : p = SessionsOf(b)
      BY <2>7, SessionsOfType DEF TInv, Created
    <3>2. Len(p) \in Nat /\ DOMAIN p = 1 .. Len(p) /\ \A k \in 1 .. Len(p) : p[k] \in 1 .. m
      BY <3>1
    <3>3. MTUsOf(b) = [k \in 1 .. Len(p) |-> session[p[k]].MTU]
      BY <3>1, <3>2 DEF MTUsOf
    <3>4. CASE b # a
      <4>1. MTUsOf(b)' = [k \in 1 .. Len(p) |-> session'[p[k]].MTU]
        BY <2>11, <3>1, <3>2, <3>4 DEF MTUsOf
      <4> QED
        BY <2>9, <3>2, <3>3, <3>4, <4>1
    <3>5. CASE b = a
      <4>1. PICK u : u = Append(p, n)
        OBVIOUS
      <4>2. p \in Seq(1 .. m + 1) /\ n = m + 1
        BY <2>7, <3>1, SeqOfMore
      <4>3. /\ DOMAIN u = 1 .. Len(p) + 1 /\ u[Len(p) + 1] = m + 1
            /\ \A k \in 1 .. Len(p) : u[k] = p[k]
        BY <4>1, <4>2
      <4>4. MTUsOf(b)' = [k \in 1 .. Len(p) + 1 |-> session'[u[k]].MTU]
        BY <2>11, <3>1, <3>5, <4>1, <4>3 DEF MTUsOf
      <4>5. PICK w \in Seq(Nat) : w = MTUsOf(b)
        BY SessionsOfType DEF TInv
      <4>6. PICK v : v = Append(w, mtu)
        OBVIOUS
      <4>7. Len(w) = Len(p)
        BY <3>1, <4>5, SessionsOfType DEF TInv
      <4>8. /\ v = [k \in 1 .. Len(p) + 1 |-> v[k]] /\ v[Len(p) + 1] = mtu
            /\ \A k \in 1 .. Len(p) : v[k] = w[k]
        <5>1. mtu \in Nat
          BY ConnectionAssumption
        <5>2. /\ v \in Seq(Nat) /\ Len(v) = Len(w) + 1 /\ v[Len(w) + 1] = mtu
              /\ \A k \in 1 .. Len(w) : v[k] = w[k]
          BY <4>5, <4>6, <5>1
        <5>3. v = [k \in 1 .. Len(v) |-> v[k]]
          BY <5>2
        <5> QED
          BY <4>7, <5>2, <5>3
      <4>9. ASSUME NEW k \in 1 .. Len(p) + 1 PROVE session'[u[k]].MTU = v[k]
        <5>1. CASE k = Len(p) + 1
          BY <2>9, <4>3, <4>8, <5>1 DEF NewSession
        <5>2. CASE k # Len(p) + 1
          <6>1. k \in 1 .. Len(p)
            BY <3>2, <5>2
          <6>2. u[k] = p[k] /\ v[k] = w[k]
            BY <4>3, <4>8, <6>1
          <6>3. session'[p[k]] = session[p[k]]
            BY <2>9, <3>2, <6>1
          <6>4. w[k] = session[p[k]].MTU
            BY <3>3, <4>5, <6>1
          <6> QED
            BY <6>2, <6>3, <6>4
        <5> QED
          BY <5>1, <5>2
      <4> QED
        BY <3>5, <4>4, <4>5, <4>6, <4>8, <4>9
    <3> QED
      BY <3>4, <3>5
  <2>13. \A b \in Address : closed'[b] <= Len(Promised(b)')
    <3> SUFFICES ASSUME NEW b \in Address PROVE closed'[b] <= Len(Promised(b)')
      OBVIOUS
    <3>1. closed[b] \in Nat /\ closed[b] <= Len(Promised(b))
      BY DEF RepliesInv, TInv, RestOK
    <3>2. PICK p \in Seq(MTUs) : p = Promised(b)
      BY PromisedType
    <3>3. Len(Append(p, mtu)) = Len(p) + 1 /\ Len(p) \in Nat
      OBVIOUS
    <3>4. Promised(b)' = p \/ Promised(b)' = Append(p, mtu)
      BY <2>3, <2>4, <3>2
    <3> QED
      BY <2>1, <3>1, <3>2, <3>3, <3>4
  <2>14. SessionsAsReplied'
    <3> SUFFICES ASSUME NEW b \in Address
                 PROVE  MTUsOf(b)' = SubSeq(Promised(b)', closed'[b] + 1, Len(Promised(b)'))
      BY DEF SessionsAsReplied, MTUsOf
    <3>1. MTUsOf(b) = SubSeq(Promised(b), closed[b] + 1, Len(Promised(b)))
      BY DEF RepliesInv, SessionsAsReplied, MTUsOf
    <3>2. CASE b # a
      BY <2>1, <2>3, <2>12, <3>1, <3>2
    <3>3. CASE b = a
      <4>1. PICK p \in Seq(MTUs) : p = Promised(a)
        BY PromisedType
      <4>2. PICK c \in Nat : c = closed[a] /\ c <= Len(p)
        BY <4>1 DEF RepliesInv, TInv, RestOK
      <4>3. /\ Len(Append(p, mtu)) = Len(p) + 1
            /\ SubSeq(Append(p, mtu), c + 1, Len(p) + 1) = Append(SubSeq(p, c + 1, Len(p)), mtu)
        <5>1. PICK y \in MTUs : y = mtu
          OBVIOUS
        <5>2. p \in Seq(MTUs) /\ y \in MTUs /\ c \in Nat /\ c <= Len(p)
          BY <4>2
        <5>3. /\ Len(Append(p, y)) = Len(p) + 1
              /\ SubSeq(Append(p, y), c + 1, Len(p) + 1) = Append(SubSeq(p, c + 1, Len(p)), y)
          BY ONLY <5>2, SubSeqAppend, ZenonT(60)
        <5> QED
          BY <5>1, <5>3, Zenon
      <4> QED
        BY <2>1, <2>4, <2>12, <3>1, <3>3, <4>1, <4>2, <4>3
    <3> QED
      BY <3>2, <3>3
  <2> QED
    BY <2>3, <2>13, <2>14 DEF RepliesInv
<1> QED
  BY <1>1, <1>2

LEMMA DisconnectReplies ==
  ASSUME TInv, TInv', RepliesInv, NEW a \in Address, DisconnectArrives(a)
  PROVE  RepliesInv'
<1>1. PICK p \in 1 .. Len(sessions) : Finds(a, p) /\ sessions' = RemoveAt(sessions, p)
  BY DEF DisconnectArrives
<1>2. UNCHANGED <<session, replies>> /\ closed' = [closed EXCEPT ![a] = @ + 1]
  BY DEF DisconnectArrives
<1>3. PICK q \in Seq(Created) : q = sessions
  BY DEF TInv, SessionsOK
<1>4. PICK r : r = RemoveAt(q, p)
  OBVIOUS
<1>5. /\ Len(q) \in Nat /\ p \in 1 .. Len(q) /\ Without(q, p, r)
      /\ \A k \in 1 .. Len(q) : q[k] \in Created
  <2>1. p \in 1 .. Len(q)
    BY <1>3
  <2> QED
    BY <1>4, <2>1, RemoveAtIs
<1>6. /\ session[q[p]].address = a
      /\ \A k \in 1 .. p - 1 : session[q[k]].address # a
  BY <1>1, <1>3 DEF Finds
<1>7. \A b \in Address : Promised(b)' = Promised(b) /\ OfAddress(b)' = OfAddress(b)
  BY <1>2 DEF Promised, OfAddress
<1>8. ASSUME NEW b \in Address
      PROVE  /\ SessionsOf(b) = Selected(q, OfAddress(b))
             /\ SessionsOf(b)' = Selected(r, OfAddress(b))
  <2>1. SessionsOf(b) = Selected(q, OfAddress(b))
    BY <1>3 DEF SessionsOf, OfAddress
  <2>2. SessionsOf(b)' = Selected(r, OfAddress(b)')
    BY <1>1, <1>3, <1>4 DEF SessionsOf, OfAddress
  <2> QED
    BY <1>7, <2>1, <2>2
<1>9. ASSUME NEW b \in Address \ {a}
      PROVE  MTUsOf(b)' = MTUsOf(b)
  <2>1. PICK T : T = OfAddress(b)
    OBVIOUS
  <2>2. q[p] \notin T
    BY <1>6, <2>1 DEF OfAddress
  <2>3. Selected(r, T) = Selected(q, T)
    BY <1>5, <2>2, SelectedOther
  <2>4. SessionsOf(b)' = SessionsOf(b)
    BY <1>8, <2>1, <2>3
  <2> QED
    BY <1>2, <2>4 DEF MTUsOf
<1>10. PICK z \in Seq(Created) : z = SessionsOf(a)
  BY SessionsOfType DEF TInv
<1>11. z # <<>> /\ SessionsOf(a)' = Tail(z)
  <2>1. PICK T : T = OfAddress(a)
    OBVIOUS
  <2>2. q[p] \in T /\ \A k \in 1 .. p - 1 : q[k] \notin T
    BY <1>5, <1>6, <2>1 DEF OfAddress, Created
  <2>3. Selected(q, T) # <<>> /\ Selected(r, T) = Tail(Selected(q, T))
    BY <1>5, <2>2, SelectedFirst
  <2> QED
    BY <1>8, <1>10, <2>1, <2>3
<1>12. PICK c \in Nat : c = closed[a]
  BY DEF TInv, RestOK
<1>13. PICK w \in Seq(MTUs) : w = Promised(a) /\ c <= Len(w)
  BY <1>12, PromisedType DEF RepliesInv
<1>14. PICK m \in Seq(Nat) : m = MTUsOf(a)
  BY SessionsOfType DEF TInv
<1>15. m = SubSeq(w, c + 1, Len(w)) /\ Len(m) = Len(z) /\ Len(z) \in Nat /\ Len(z) # 0
  <2>1. m = SubSeq(w, c + 1, Len(w))
    BY <1>12, <1>13, <1>14 DEF RepliesInv, SessionsAsReplied, MTUsOf
  <2>2. Len(m) = Len(z)
    BY <1>10, <1>14, SessionsOfType DEF TInv
  <2> QED
    BY <1>10, <1>11, <2>1, <2>2
<1>16. c < Len(w)
  <2>1. ASSUME c = Len(w) PROVE FALSE
    <3>1. Len(SubSeq(w, c + 1, Len(w))) = 0
      BY <1>13, <2>1
    <3> QED
      BY <1>15, <3>1
  <2>2. Len(w) \in Nat
    BY <1>13
  <2> QED
    BY <1>12, <1>13, <2>1, <2>2
<1>17. MTUsOf(a)' = Tail(m)
  <2>1. PICK t : t = Tail(z)
    OBVIOUS
  <2>2. /\ DOMAIN t = 1 .. Len(z) - 1
        /\ \A k \in 1 .. Len(z) - 1 : t[k] = z[k + 1] /\ k + 1 \in 1 .. Len(z)
    BY <1>10, <1>11, <2>1
  <2>3. MTUsOf(a)' = [k \in 1 .. Len(z) - 1 |-> session[t[k]].MTU]
    BY <1>2, <1>11, <2>1, <2>2 DEF MTUsOf
  <2>4. \A k \in 1 .. Len(z) : m[k] = session[z[k]].MTU
    BY <1>10, <1>14, <1>15, SessionsOfType DEF TInv
  <2>5. PICK u : u = Tail(m)
    OBVIOUS
  <2>6. /\ u \in Seq(Nat) /\ Len(u) = Len(z) - 1
        /\ \A k \in 1 .. Len(z) - 1 : u[k] = m[k + 1]
    <3>1. m # <<>>
      BY <1>14, <1>15
    <3>2. /\ u \in Seq(Nat) /\ Len(u) = Len(m) - 1
          /\ \A k \in 1 .. Len(u) : u[k] = m[k + 1]
      BY <1>14, <2>5, <3>1, HeadTailProperties
    <3> QED
      BY <1>15, <3>2
  <2>7. \A k \in 1 .. Len(z) - 1 : u[k] = session[t[k]].MTU
    BY <2>2, <2>4, <2>6
  <2>8. u = [k \in 1 .. Len(z) - 1 |-> u[k]]
    BY <2>6
  <2> QED
    BY <2>3, <2>5, <2>7, <2>8
<1>18. SubSeq(w, c + 2, Len(w)) = Tail(SubSeq(w, c + 1, Len(w)))
  BY <1>13, <1>16, SubSeqTail
<1>19. SessionsAsReplied'
  <2> SUFFICES ASSUME NEW b \in Address
               PROVE  MTUsOf(b)' = SubSeq(Promised(b)', closed'[b] + 1, Len(Promised(b)'))
    BY DEF SessionsAsReplied, MTUsOf
  <2>1. CASE b # a
    <3>1. closed'[b] = closed[b]
      BY <1>2, <2>1 DEF TInv, RestOK
    <3>2. MTUsOf(b) = SubSeq(Promised(b), closed[b] + 1, Len(Promised(b)))
      BY DEF RepliesInv, SessionsAsReplied, MTUsOf
    <3> QED
      BY <1>7, <1>9, <2>1, <3>1, <3>2
  <2>2. CASE b = a
    <3>1. closed'[a] + 1 = c + 2
      BY <1>2, <1>12 DEF TInv, RestOK
    <3> QED
      BY <1>7, <1>13, <1>15, <1>17, <1>18, <2>2, <3>1
  <2> QED
    BY <2>1, <2>2
<1>20. \A b \in Address : closed'[b] <= Len(Promised(b)')
  <2>1. \A b \in Address \ {a} : closed'[b] = closed[b]
    BY <1>2 DEF TInv, RestOK
  <2>2. closed'[a] = c + 1
    BY <1>2, <1>12 DEF TInv, RestOK
  <2>3. c + 1 <= Len(w)
    BY <1>13, <1>16
  <2> QED
    BY <1>7, <1>13, <2>1, <2>2, <2>3 DEF RepliesInv
<1> QED
  BY <1>2, <1>19, <1>20 DEF RepliesInv

LEMMA Step_RepliesInv == TInv /\ RepliesInv /\ [Next]_vars => RepliesInv'
<1> SUFFICES ASSUME TInv, RepliesInv, [Next]_vars PROVE RepliesInv'
  OBVIOUS
<1>1. TInv'
  BY Step_TInv
<1>2. ASSUME NEW a \in Address, Receive(a) PROVE RepliesInv'
  <2>1. CASE PingArrives(a)
    <3>1. [name |-> "UnconnectedPong"] \in ReplyType \ SessionReply
      BY DEF ReplyType, SessionReply
    <3>2. Reply(a, [name |-> "UnconnectedPong"]) /\ UNCHANGED <<sessions, session, closed>>
      BY <2>1 DEF PingArrives
    <3> QED
      BY <1>1, <3>1, <3>2, OtherReply
  <2>2. CASE Request1Arrives(a)
    <3>1. [name |-> "IncompatibleProtocol"] \in ReplyType \ SessionReply
      BY DEF ReplyType, SessionReply
    <3>2. \A size \in Sizes :
            [name |-> "OpenConnectionReply1", MTU |-> OfferedMTU(size)]
              \in ReplyType \ SessionReply
      BY ConnectionAssumption DEF ReplyType, SessionReply, OfferedMTU
    <3>3. \E x \in ReplyType \ SessionReply : Reply(a, x)
      BY <2>2, <3>1, <3>2 DEF Request1Arrives
    <3>4. UNCHANGED <<sessions, session, closed>>
      BY <2>2 DEF Request1Arrives
    <3> QED
      BY <1>1, <3>3, <3>4, OtherReply
  <2>3. ASSUME NEW kinds \in Contents, DatagramArrives(a, kinds) PROVE RepliesInv'
    BY <1>1, <2>3, QuietReplies DEF DatagramArrives
  <2>4. CASE ReceiverSpins(a)
    BY <1>1, <2>4, QuietReplies DEF ReceiverSpins
  <2> QED
    BY <1>1, <1>2, <2>1, <2>2, <2>3, <2>4, Request2Replies, DisconnectReplies DEF Receive
<1>3. \A s \in Live : s \in 1 .. Len(session)
  BY LiveCreated DEF TInv, Created
<1>4. ASSUME NEW s \in Live, NEW x, NEW y,
             \/ session' = [session EXCEPT ![s].sendSequenceNumber = x]
             \/ session' = [session EXCEPT ![s].state = x]
             \/ session' = [session EXCEPT ![s].updateQueue = y]
             \/ session' = [session EXCEPT ![s].sendSequenceNumber = x, ![s].updateQueue = y]
      PROVE  /\ Len(session') = Len(session)
             /\ \A c \in Created : /\ session'[c].address = session[c].address
                                   /\ session'[c].MTU = session[c].MTU
  <2>1. /\ session \in Seq(SessionType) /\ Len(session) \in Nat
        /\ DOMAIN session = 1 .. Len(session) /\ s \in DOMAIN session
        /\ session[s] \in SessionType
    BY <1>3 DEF TInv, SessionsOK
  <2>2. DOMAIN session[s] =
          {"address", "MTU", "state", "sendSequenceNumber", "updateQueue"}
    BY <2>1 DEF SessionType
  <2>3. PICK r : /\ session' = [session EXCEPT ![s] = r]
                 /\ r.address = session[s].address /\ r.MTU = session[s].MTU
    <3>1. CASE session' = [session EXCEPT ![s].sendSequenceNumber = x]
      <4> DEFINE r == [session[s] EXCEPT !.sendSequenceNumber = x]
      <4>1. r.address = session[s].address /\ r.MTU = session[s].MTU
        BY <2>2
      <4> QED
        BY <3>1, <4>1
    <3>2. CASE session' = [session EXCEPT ![s].state = x]
      <4> DEFINE r == [session[s] EXCEPT !.state = x]
      <4>1. r.address = session[s].address /\ r.MTU = session[s].MTU
        BY <2>2
      <4> QED
        BY <3>2, <4>1
    <3>3. CASE session' = [session EXCEPT ![s].updateQueue = y]
      <4> DEFINE r == [session[s] EXCEPT !.updateQueue = y]
      <4>1. r.address = session[s].address /\ r.MTU = session[s].MTU
        BY <2>2
      <4> QED
        BY <3>3, <4>1
    <3>4. CASE session' = [session EXCEPT ![s].sendSequenceNumber = x, ![s].updateQueue = y]
      <4> DEFINE r == [session[s] EXCEPT !.sendSequenceNumber = x, !.updateQueue = y]
      <4>1. r.address = session[s].address /\ r.MTU = session[s].MTU
        BY <2>2
      <4>2. session' = [session EXCEPT ![s] = r]
        BY <2>1, <3>4
      <4> QED
        BY <4>1, <4>2
    <3> QED
      BY <1>4, <3>1, <3>2, <3>3, <3>4
  <2>4. DOMAIN session' = DOMAIN session
        /\ \A c \in DOMAIN session : session'[c] = IF c = s THEN r ELSE session[c]
    BY <2>1, <2>3
  <2>5. Len(session') = Len(session)
    BY <2>1, <2>3
  <2> QED
    BY <2>1, <2>3, <2>4, <2>5 DEF Created
<1>5. ASSUME NEW w \in Worker, WorkerStep(w) PROVE RepliesInv'
  <2>1. UNCHANGED <<sessions, closed, replies>>
    BY <1>5 DEF WorkerStep, WorkerTakes, HandleRawPacket, AcceptBegins, Overlap, AcceptEnds,
                WorkerConnects, AnswerPing, PingsCollide, Passes, DecodeThrows,
                WorkerMisuses, WorkerReturns, receiverVars
  <2>2. \/ UNCHANGED session
        \/ \E s \in Live : \E x : \/ session' = [session EXCEPT ![s].sendSequenceNumber = x]
                                  \/ session' = [session EXCEPT ![s].state = x]
                                  \/ session' = [session EXCEPT ![s].updateQueue = x]
    BY <1>5 DEF WorkerStep, WorkerTakes, HandleRawPacket, AcceptBegins, Overlap, AcceptEnds,
                WorkerConnects, AnswerPing, PingsCollide, Passes, DecodeThrows,
                WorkerMisuses, WorkerReturns
  <2>3. /\ Len(session') = Len(session)
        /\ \A s \in Created : /\ session'[s].address = session[s].address
                              /\ session'[s].MTU = session[s].MTU
    BY <1>4, <2>2
  <2> QED
    BY <1>1, <2>1, <2>3, QuietReplies
<1>6. CASE (\E s \in Live : UpdaterTimesOut(s) \/ FlushBegins(s)) \/ FlushEnds
  <2>1. UNCHANGED <<sessions, closed, replies>>
    BY <1>6 DEF UpdaterTimesOut, FlushBegins, FlushEnds, receiverVars
  <2>2. \E s \in Live : \E x, y : \/ session' = [session EXCEPT ![s].state = x]
                                  \/ session' = [session EXCEPT ![s].updateQueue = y]
                                  \/ session' = [session EXCEPT ![s].sendSequenceNumber = x,
                                                                ![s].updateQueue = y]
    BY <1>6 DEF UpdaterTimesOut, FlushBegins, FlushEnds
  <2>3. /\ Len(session') = Len(session)
        /\ \A s \in Created : /\ session'[s].address = session[s].address
                              /\ session'[s].MTU = session[s].MTU
    BY <1>4, <2>2
  <2> QED
    BY <1>1, <2>1, <2>3, QuietReplies
<1>7. CASE UpdaterMisuses \/ Stop \/ UNCHANGED vars
  <2>1. UNCHANGED <<sessions, session, closed, replies>>
    BY <1>7 DEF UpdaterMisuses, Stop, receiverVars, vars
  <2> QED
    BY <1>1, <2>1, QuietReplies
<1> QED
  BY <1>2, <1>5, <1>6, <1>7 DEF Next

LEMMA Start_RepliesInv == Init => RepliesInv
<1> SUFFICES ASSUME Init PROVE RepliesInv
  OBVIOUS
<1>1. \A T : Selected(<<>>, T) = <<>>
  <2> SUFFICES ASSUME NEW T PROVE Selected(<<>>, T) = <<>>
    OBVIOUS
  <2>1. PICK f : IsSelection(f, <<>>, T) /\ Selected(<<>>, T) = f[Len(<<>>)]
    BY SelectedIs
  <2> QED
    BY <2>1 DEF IsSelection
<1>2. ASSUME NEW a \in Address
      PROVE  Promised(a) = <<>> /\ SessionsOf(a) = <<>> /\ closed[a] = 0
  BY <1>1 DEF Init, Promised, SessionsOf
<1>3. replies \in [Address -> Seq(ReplyType)]
  BY DEF Init
<1>4. SessionsAsReplied
  BY <1>2 DEF SessionsAsReplied
<1>5. \A a \in Address : closed[a] <= Len(Promised(a))
  BY <1>2
<1> QED
  BY <1>3, <1>4, <1>5 DEF RepliesInv

\* A client has a session for every reply that promised it one, with the MTU that
\* was confirmed to it, in the order of the replies, less those that it has closed
\* (Socket.cpp:162-168, SessionManager.cpp:12-24).
THEOREM SessionsAreAsReplied == Spec => []SessionsAsReplied
<1>1. RepliesInv => SessionsAsReplied
  BY DEF RepliesInv
<1> QED
  BY <1>1, Start_TInv, Step_TInv, Start_RepliesInv, Step_RepliesInv, PTL DEF Spec
=============================================================================
