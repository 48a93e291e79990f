----------------------------- MODULE SessionLife -----------------------------
(***************************************************************************)
(* The life of the server and of its sessions: Server, Socket,             *)
(* SessionManager and Session under the manager's mutex and one mutex per  *)
(* session.                                                                *)
(*                                                                         *)
(* Main runs Server::start and Server::shutdown, the receiver is the pool  *)
(* thread in Socket::receive, the updater the one in                       *)
(* SessionManager::updateSessions, and the workers are the others, which   *)
(* run handleRawPacket.  Sessions are handed round as raw pointers, so a   *)
(* session is a place in memory: a pointer to one that was destroyed may   *)
(* come to name the next one that is put there.  born counts the sessions  *)
(* a place has held; the program does not see it.                          *)
(*                                                                         *)
(* A step that uses a destroyed session is undefined: the process ends, or *)
(* the step does no harm, or it does to the next session what was meant    *)
(* for the first.  What the sessions' reliability layers do is left out;   *)
(* ReliabilityReceive and ReliabilitySend are about them.                  *)
(***************************************************************************)
EXTENDS Naturals, Sequences, FiniteSets, SequencesExt

CONSTANTS
  Address,     \* the addresses of the clients
  Slot,        \* places in memory for sessions: bound on the sessions at once
  Worker,      \* pool threads that run the tasks of sessions (2 in the code)
  MTUs,        \* the MTUs that clients ask for
  MIN_MTU_SIZE, MAX_MTU_SIZE,
  MaxPackets   \* bound on the packets that arrive

ASSUME SizeAssumption ==
  /\ Address # {}
  /\ MTUs \subseteq Nat
  /\ MIN_MTU_SIZE \in Nat /\ MAX_MTU_SIZE \in Nat
  /\ MaxPackets \in Nat

Thread == {"main", "receiver", "updater"}

VARIABLES
  server,        \* Server::state
  process,       \* how the process is: running, exited, terminated by an
                 \* exception that nobody catches, or crashed
  at,            \* where main, the receiver and the updater are
  manager,       \* Socket::sessionManager: none, live or destroyed
  sessions,      \* SessionManager::sessions, as the places of the sessions
  managerMutex,  \* who holds SessionManager::mutex
  session,       \* what is in each place
  sessionMutex,  \* who holds the mutex of each session
  idle,          \* the sessions whose lastUpdate is more than 5000 s ago
  index, target, \* updateSessions: its iterator, and the session it is in
  packet,        \* receive: the sender of the packet and the session found
  tasks, job,    \* the queue of the pool, and the task of each worker
  arrived,       \* packets so far
  (* history *)
  shifted        \* a DISCONNECT has erased a session that the updater's round
                 \* had reached

listVars == <<manager, sessions, managerMutex>>
sessionVars == <<session, sessionMutex, idle>>
updaterVars == <<index, target>>
receiverVars == <<packet, arrived>>
poolVars == <<tasks, job>>
historyVars == <<shifted>>
worldVars == <<listVars, sessionVars, updaterVars, receiverVars, poolVars, historyVars>>
vars == <<server, process, at, worldVars>>

Nobody == "nobody"
NoSlot == "no slot"

ASSUME NameAssumption == NoSlot \notin Slot /\ Nobody \notin Thread

NoJob == [slot |-> NoSlot, born |-> 0]

SomeAddress == CHOOSE a \in Address : TRUE

NoPacket == [sender |-> SomeAddress, errand |-> "none", found |-> NoSlot]

\* The places whose session has not been destroyed.
Live == ToSet(sessions)

Init ==
  /\ server = "STOPPED" /\ process = "running"
  /\ at = [t \in Thread |-> IF t = "main" THEN "start" ELSE "not added"]
  /\ manager = "none" /\ sessions = <<>> /\ managerMutex = Nobody
  /\ session = [s \in Slot |-> [address |-> SomeAddress, state |-> "CONNECTING", born |-> 0]]
  /\ sessionMutex = [s \in Slot |-> Nobody]
  /\ idle = {} /\ index = 1 /\ target = NoSlot
  /\ packet = NoPacket
  /\ tasks = <<>> /\ job = [w \in Worker |-> NoJob]
  /\ arrived = 0
  /\ shifted = FALSE

Goto(t, place) == at' = [at EXCEPT ![t] = place]

\* Faulty variant: a server that is stopping is not shut down yet.
IsStopped == server = "STOPPED"

IsShutdown == server \in {"STOPPED", "STOPPING"}

-----------------------------------------------------------------------------
(* Main: start and shutdown *)

Start ==
  /\ at["main"] = "start"
  /\ server' = "RUNNING"
  /\ Goto("main", "create")
  /\ UNCHANGED <<process, worldVars>>

\* socket, bind or fcntl fails: the constructor of Server catches the exception.
CreateFails ==
  /\ at["main"] = "create"
  /\ Goto("main", "shutdown")
  /\ UNCHANGED <<server, process, worldVars>>

Create ==
  /\ at["main"] = "create"
  /\ manager' = "live"
  /\ at' = [at EXCEPT !["main"] = "listen", !["updater"] = "check"]
  /\ UNCHANGED <<server, process, sessions, managerMutex, sessionVars,
                 updaterVars, receiverVars, poolVars, historyVars>>

Listen ==
  /\ at["main"] = "listen"
  /\ server' = "STARTED"
  /\ at' = [at EXCEPT !["main"] = "console", !["receiver"] = "check"]
  /\ UNCHANGED <<process, worldVars>>

\* The command stop.
Stop ==
  /\ at["main"] = "console"
  /\ Goto("main", "shutdown")
  /\ UNCHANGED <<server, process, worldVars>>

Shutdown ==
  /\ at["main"] = "shutdown"
  /\ server' = "STOPPING"
  /\ Goto("main", "await receiver")
  /\ UNCHANGED <<process, worldVars>>

Returned(t) == at[t] = "ended"

AwaitReceiver ==
  /\ at["main"] = "await receiver"
  /\ Returned("receiver")
  /\ Goto("main", "await updater")
  /\ UNCHANGED <<server, process, worldVars>>

\* get throws: the task was never added, or has ended by an exception.
GetThrows ==
  /\ at["main"] = "await receiver"
  /\ at["receiver"] \in {"not added", "failed"}
  /\ process' = "terminated"
  /\ UNCHANGED <<server, at, worldVars>>

AwaitUpdater ==
  /\ at["main"] = "await updater"
  /\ Returned("updater")
  /\ Goto("main", "destroy")
  /\ UNCHANGED <<server, process, worldVars>>

\* The manager and all sessions with it; tasks of theirs may be left.
DestroyManager ==
  /\ at["main"] = "destroy"
  /\ manager' = "destroyed" /\ sessions' = <<>> /\ idle' = {}
  /\ server' = "STOPPED"
  /\ Goto("main", "return")
  /\ UNCHANGED <<process, managerMutex, session, sessionMutex, updaterVars,
                 receiverVars, poolVars, historyVars>>

\* The destructor of ThreadManager, which runs after main has returned.
DropTasks ==
  /\ at["main"] = "return"
  /\ tasks' = <<>>
  /\ Goto("main", "join")
  /\ UNCHANGED <<server, process, listVars, sessionVars, updaterVars,
                 receiverVars, job, historyVars>>

Exit ==
  /\ at["main"] = "join"
  /\ \A w \in Worker : job[w] = NoJob
  /\ process' = "exited"
  /\ UNCHANGED <<server, at, worldVars>>

MainStep ==
  \/ Start \/ CreateFails \/ Create \/ Listen
  \/ Shutdown \/ AwaitReceiver \/ GetThrows \/ AwaitUpdater
  \/ DestroyManager \/ DropTasks \/ Exit

-----------------------------------------------------------------------------
(* The updater: updateSessions and Session::update *)

\* Line 84; the iterator begins anew with every round.
UpdaterCheck ==
  /\ at["updater"] = "check"
  /\ Goto("updater", IF IsShutdown THEN "ended" ELSE "lock")
  /\ UNCHANGED <<server, process, worldVars>>

\* Lines 85 and 93.
UpdaterLock ==
  /\ at["updater"] = "lock"
  /\ managerMutex = Nobody
  /\ managerMutex' = "updater"
  /\ Goto("updater", "visit")
  /\ UNCHANGED <<server, process, manager, sessions, updaterVars, sessionVars,
                 receiverVars, poolVars, historyVars>>

\* Faulty variant: it goes on with the mutex locked when there are no sessions.
KeepWhenEmpty ==
  managerMutex' = IF sessions = <<>> THEN managerMutex ELSE Nobody

Unlock == managerMutex' = Nobody

\* Faulty variant: the next round goes on where this one ended.
NotBegun == index

Begun == 1

\* Lines 87-91, and 93 and 96 at the end of the list.
UpdaterLeave ==
  /\ at["updater"] = "visit"
  /\ index = Len(sessions) + 1
  /\ Unlock
  /\ index' = Begun /\ target' = NoSlot
  /\ shifted' = FALSE
  /\ Goto("updater", "check")
  /\ UNCHANGED <<server, process, manager, sessions, sessionVars, receiverVars,
                 poolVars>>

\* Line 93: the list has become shorter, and the iterator has passed its end.
UpdaterOverruns ==
  /\ at["updater"] = "visit"
  /\ index > Len(sessions) + 1
  /\ process' = "crashed"
  /\ UNCHANGED <<server, at, worldVars>>

\* Line 94.
UpdaterVisit ==
  /\ at["updater"] = "visit"
  /\ index <= Len(sessions)
  /\ target' = sessions[index]
  /\ Goto("updater", "enter")
  /\ UNCHANGED <<server, process, listVars, sessionVars, index, receiverVars,
                 poolVars, historyVars>>

\* Session.cpp:37.
UpdaterEnter ==
  /\ at["updater"] = "enter"
  /\ target \in Live
  /\ sessionMutex[target] = Nobody
  /\ sessionMutex' = [sessionMutex EXCEPT ![target] = "updater"]
  /\ Goto("updater", "update")
  /\ UNCHANGED <<server, process, listVars, session, idle, updaterVars,
                 receiverVars, poolVars, historyVars>>

\* Faulty variant: the session is closed by its pointer, without the lock.
CloseUnlocked(s) ==
  /\ sessions' = Remove(sessions, s)
  /\ idle' = idle \ {s}
  /\ UNCHANGED at

\* Session.cpp:66-67, SessionManager.cpp:54: closeSession locks the mutex that
\* updateSessions holds, and the updater waits for itself.
CloseLocked(s) ==
  /\ Goto("updater", "lock again")
  /\ UNCHANGED <<sessions, idle>>

\* Session.cpp:38-39.
UpdaterTimesOut ==
  /\ at["updater"] = "update"
  /\ target \in Live \cap idle
  /\ session' = [session EXCEPT ![target].state = "DISCONNECTED"]
  /\ CloseLocked(target)
  /\ UNCHANGED <<server, process, manager, managerMutex, sessionMutex,
                 updaterVars, receiverVars, poolVars, historyVars>>

\* Session.cpp:41-61: whatever waits is sent; nothing of it belongs here.
UpdaterSends ==
  /\ at["updater"] = "update"
  /\ target \in Live \ idle
  /\ sessionMutex' = [sessionMutex EXCEPT ![target] = Nobody]
  /\ index' = index + 1
  /\ Goto("updater", "visit")
  /\ UNCHANGED <<server, process, listVars, session, idle, target,
                 receiverVars, poolVars, historyVars>>

\* The session has been destroyed since the updater took its pointer.
UpdaterMisuses ==
  /\ at["updater"] \in {"enter", "update"}
  /\ target \notin Live
  /\ \/ process' = "crashed" /\ UNCHANGED <<at, index>>
     \/ /\ index' = index + 1
        /\ Goto("updater", "visit")
        /\ UNCHANGED process
  /\ UNCHANGED <<server, listVars, sessionVars, target, receiverVars, poolVars,
                 historyVars>>

UpdaterStep ==
  \/ UpdaterCheck \/ UpdaterLock \/ UpdaterLeave \/ UpdaterOverruns
  \/ UpdaterVisit \/ UpdaterEnter \/ UpdaterTimesOut \/ UpdaterSends
  \/ UpdaterMisuses

\* time(0) goes on.
TimePasses ==
  /\ \E s \in Live : idle' = idle \cup {s}
  /\ UNCHANGED <<server, process, at, listVars, session, sessionMutex,
                 updaterVars, receiverVars, poolVars, historyVars>>

-----------------------------------------------------------------------------
(* The receiver: Socket::receive *)

\* Line 81.
ReceiverCheck ==
  /\ at["receiver"] = "check"
  /\ packet' = NoPacket
  /\ Goto("receiver", IF IsShutdown THEN "ended" ELSE "recvfrom")
  /\ UNCHANGED <<server, process, listVars, sessionVars, updaterVars, arrived,
                 poolVars, historyVars>>

\* No packet, or one that touches no session: a ping, a first request.
NothingArrives ==
  /\ at["receiver"] = "recvfrom"
  /\ Goto("receiver", "check")
  /\ UNCHANGED <<server, process, worldVars>>

Arrives(errand, place) ==
  /\ at["receiver"] = "recvfrom"
  /\ arrived < MaxPackets  \* bound of the model
  /\ arrived' = arrived + 1
  /\ \E a \in Address : packet' = [sender |-> a, errand |-> errand, found |-> NoSlot]
  /\ Goto("receiver", place)
  /\ UNCHANGED <<server, process, listVars, sessionVars, updaterVars, poolVars,
                 historyVars>>

GoodMTU(mtu) == mtu \in MIN_MTU_SIZE .. MAX_MTU_SIZE

\* A second request; with a bad MTU createSession throws (line 14) and the
\* receiver goes on (Socket.cpp:188).
RequestArrives ==
  \E mtu \in MTUs :
    \/ /\ GoodMTU(mtu)
       /\ Slot \ Live # {}  \* bound of the model
       /\ Arrives("create", "lock")
    \/ ~GoodMTU(mtu) /\ Arrives("none", "check")

\* readAddress throws what the loop does not catch: the task ends.
BadRequestArrives == Arrives("none", "failed")

DisconnectArrives == Arrives("close", "lock")

\* Anything else is for a session.
PacketArrives == Arrives("receive", "lock")

\* SessionManager.cpp:17 and 27.
ReceiverLock ==
  /\ at["receiver"] = "lock"
  /\ managerMutex = Nobody
  /\ managerMutex' = "receiver"
  /\ Goto("receiver", IF packet.errand = "create" THEN "create" ELSE "find")
  /\ UNCHANGED <<server, process, manager, sessions, sessionVars, updaterVars,
                 receiverVars, poolVars, historyVars>>

\* Faulty variant: the new session comes first.
PutFirst(s) == <<s>> \o sessions

PutLast(s) == Append(sessions, s)

\* SessionManager.cpp:18-19: the address may have a session already.
CreateSession ==
  /\ at["receiver"] = "create"
  /\ \E s \in Slot \ Live :
       /\ sessions' = PutLast(s)
       /\ session' = [session EXCEPT ![s] =
            [address |-> packet.sender, state |-> "CONNECTING", born |-> @.born + 1]]
       /\ sessionMutex' = [sessionMutex EXCEPT ![s] = Nobody]
  /\ managerMutex' = Nobody
  /\ Goto("receiver", "check")
  /\ UNCHANGED <<server, process, manager, idle, updaterVars, receiverVars,
                 poolVars, historyVars>>

\* The first session of the address a; NoSlot when there is none.
SessionOf(a) ==
  LET places == {k \in 1 .. Len(sessions) : session[sessions[k]].address = a}
  IN  IF places = {} THEN NoSlot
      ELSE sessions[CHOOSE k \in places : \A j \in places : k <= j]

\* SessionManager.cpp:28-32; Socket.cpp:172 and 178 throw when it is NoSlot.
GetSession ==
  /\ at["receiver"] = "find"
  /\ packet' = [packet EXCEPT !.found = SessionOf(packet.sender)]
  /\ Goto("receiver", IF SessionOf(packet.sender) = NoSlot THEN "check" ELSE packet.errand)
  /\ managerMutex' = Nobody
  /\ UNCHANGED <<server, process, manager, sessions, sessionVars, updaterVars,
                 arrived, poolVars, historyVars>>

\* The iterator of the round is at the place k, or beyond it.
Reached(k) == IF at["updater"] = "visit" THEN k < index ELSE k <= index

\* SessionManager.cpp:44-51, without the mutex: a race with the updater, if it
\* holds the mutex, which may also end the process.
CloseSession ==
  /\ at["receiver"] = "close"
  /\ \E k \in 1 .. Len(sessions) :
       /\ sessions[k] = packet.found
       /\ sessions' = RemoveAt(sessions, k)
       /\ shifted' = (shifted \/ (managerMutex = "updater" /\ Reached(k)))
  /\ idle' = idle \ {packet.found}
  /\ Goto("receiver", "check")
  /\ \/ UNCHANGED process
     \/ managerMutex = "updater" /\ process' = "crashed"
  /\ UNCHANGED <<server, manager, managerMutex, session, sessionMutex,
                 updaterVars, receiverVars, poolVars>>

\* Session.cpp:71-72.
ReceiverEnter ==
  /\ at["receiver"] = "receive"
  /\ sessionMutex[packet.found] = Nobody
  /\ sessionMutex' = [sessionMutex EXCEPT ![packet.found] = "receiver"]
  /\ idle' = idle \ {packet.found}
  /\ Goto("receiver", "in session")
  /\ UNCHANGED <<server, process, listVars, session, updaterVars, receiverVars,
                 poolVars, historyVars>>

\* Session.cpp:74-145: a datagram with packets to hand over becomes a task;
\* acknowledgements, other datagrams and unknown packets (line 144) do not.
ReceivePacket ==
  /\ at["receiver"] = "in session"
  /\ \/ tasks' = Append(tasks, [slot |-> packet.found, born |-> session[packet.found].born])
     \/ UNCHANGED tasks
  /\ sessionMutex' = [sessionMutex EXCEPT ![packet.found] = Nobody]
  /\ Goto("receiver", "check")
  /\ UNCHANGED <<server, process, listVars, session, idle, updaterVars,
                 receiverVars, job, historyVars>>

\* Session.cpp:123: the purge loop need not end (ReliabilityReceive, Spin).
ReceiverSpins ==
  /\ at["receiver"] = "in session"
  /\ Goto("receiver", "purge for ever")
  /\ UNCHANGED <<server, process, worldVars>>

ReceiverStep ==
  \/ ReceiverCheck \/ NothingArrives \/ RequestArrives \/ BadRequestArrives
  \/ DisconnectArrives \/ PacketArrives \/ ReceiverLock \/ CreateSession
  \/ GetSession \/ CloseSession \/ ReceiverEnter \/ ReceivePacket
  \/ ReceiverSpins

-----------------------------------------------------------------------------
(* The workers: handleRawPacket, which takes no lock *)

WorkerTakes(w) ==
  /\ job[w] = NoJob /\ tasks # <<>>
  /\ job' = [job EXCEPT ![w] = Head(tasks)]
  /\ tasks' = Tail(tasks)
  /\ UNCHANGED <<server, process, at, listVars, sessionVars, updaterVars,
                 receiverVars, historyVars>>

\* The session that the task was made for is still there.
IsCurrent(j) == j.slot \in Live /\ session[j.slot].born = j.born

\* Session.cpp:170.
Connected(s) == session' = [session EXCEPT ![s].state = "CONNECTED"]

WorkerConnects(w) ==
  /\ job[w] # NoJob /\ IsCurrent(job[w])
  /\ Connected(job[w].slot)
  /\ UNCHANGED <<server, process, at, listVars, sessionMutex, idle,
                 updaterVars, receiverVars, poolVars, historyVars>>

WorkerMisuses(w) ==
  /\ job[w] # NoJob /\ ~IsCurrent(job[w])
  /\ \/ process' = "crashed" /\ UNCHANGED session
     \/ UNCHANGED <<process, session>>
     \/ /\ job[w].slot \in Live
        /\ Connected(job[w].slot)
        /\ UNCHANGED process
  /\ UNCHANGED <<server, at, listVars, sessionMutex, idle, updaterVars,
                 receiverVars, poolVars, historyVars>>

\* The end of the datagram, or an exception of decode, which the task keeps.
WorkerReturns(w) ==
  /\ job[w] # NoJob
  /\ job' = [job EXCEPT ![w] = NoJob]
  /\ UNCHANGED <<server, process, at, listVars, sessionVars, updaterVars,
                 receiverVars, tasks, historyVars>>

WorkerStep(w) ==
  WorkerTakes(w) \/ WorkerConnects(w) \/ WorkerMisuses(w) \/ WorkerReturns(w)

-----------------------------------------------------------------------------
Next ==
  /\ process = "running"
  /\ \/ MainStep
     \/ Stop
     \/ UpdaterStep
     \/ TimePasses
     \/ ReceiverStep
     \/ \E w \in Worker : WorkerStep(w)

Spec == Init /\ [][Next]_vars

\* The threads run; nobody is bound to send a packet or to type stop, and no
\* lock is handed out in any order.
FairSpec ==
  /\ Spec
  /\ WF_vars(process = "running" /\ MainStep)
  /\ WF_vars(process = "running" /\ UpdaterStep)
  /\ WF_vars(process = "running" /\ ReceiverStep)
  /\ \A w \in Worker : WF_vars(process = "running" /\ WorkerReturns(w))

-----------------------------------------------------------------------------
(* Properties *)

MainPlaces == {"start", "create", "listen", "console", "shutdown", "await receiver",
               "await updater", "destroy", "return", "join"}

UpdaterPlaces == {"not added", "check", "lock", "visit", "enter", "update",
                  "lock again", "ended"}

ReceiverPlaces == {"not added", "check", "recvfrom", "lock", "create", "find",
                   "close", "receive", "in session", "purge for ever", "failed", "ended"}

TaskType == [slot : Slot, born : Nat]

\* The list names no place twice.
ListOK ==
  /\ sessions \in Seq(Slot) /\ IsInjective(sessions)
  /\ session \in [Slot -> [address : Address, born : Nat,
                           state : {"CONNECTING", "CONNECTED", "DISCONNECTED"}]]
  /\ idle \subseteq Live

\* A mutex is locked exactly while a thread is where it holds it.
LocksOK ==
  /\ managerMutex \in {"updater", "receiver", Nobody}
  /\ managerMutex = "updater" <=> at["updater"] \in {"visit", "enter", "update", "lock again"}
  /\ managerMutex = "receiver" <=> at["receiver"] \in {"create", "find"}
  /\ sessionMutex \in [Slot -> {"updater", "receiver", Nobody}]
  /\ \A s \in Live :
       /\ sessionMutex[s] = "updater" <=>
            at["updater"] \in {"update", "lock again"} /\ target = s
       /\ sessionMutex[s] = "receiver" <=>
            at["receiver"] \in {"in session", "purge for ever"} /\ packet.found = s

PlacesOK ==
  /\ at \in [Thread -> MainPlaces \cup UpdaterPlaces \cup ReceiverPlaces]
  /\ at["main"] \in MainPlaces
  /\ at["updater"] \in UpdaterPlaces
  /\ at["receiver"] \in ReceiverPlaces

UpdaterOK ==
  /\ index \in Nat \ {0} /\ target \in Slot \cup {NoSlot}
  /\ at["updater"] \in {"enter", "update", "lock again"} => target \in Slot

ReceiverOK ==
  /\ packet \in [sender : Address, errand : {"none", "create", "close", "receive"},
                 found : Slot \cup {NoSlot}]
  /\ arrived \in Nat

PoolOK ==
  tasks \in Seq(TaskType) /\ job \in [Worker -> TaskType \cup {NoJob}]

\* Every variable has its type, and the locks agree with where the threads are
\* (the scoped locks of SessionManager and Session).
TypeOK ==
  /\ server \in {"STOPPED", "RUNNING", "STARTED", "STOPPING"}
  /\ process \in {"running", "exited", "terminated", "crashed"}
  /\ manager \in {"none", "live", "destroyed"}
  /\ shifted \in BOOLEAN
  /\ PlacesOK /\ ListOK /\ LocksOK /\ UpdaterOK /\ ReceiverOK /\ PoolOK

\* The pointer that getSession returns is used after the mutex is given back;
\* until receivePacket has returned, or closeSession has erased it, it points
\* to a live session of the sender (Socket.cpp:171-181).
PointerStaysGood ==
  at["receiver"] \in {"close", "receive", "in session", "purge for ever"} =>
    packet.found \in Live /\ session[packet.found].address = packet.sender

\* Both loops find the manager alive for as long as they run, however the
\* server is started and stopped (Server::shutdown, Socket::close).
LoopsOutlived ==
  \A t \in {"updater", "receiver"} :
    at[t] \notin {"not added", "ended", "failed"} => manager = "live"

InRound == at["updater"] \in {"visit", "enter", "update", "lock again"}

\* A round of the updater goes along a list that is what the round takes it for:
\* the iterator does not pass the end, and the session it is in is the one in that
\* place.  Sessions that are created, time out or go with the manager, and those
\* that a DISCONNECT erases further on, do no harm; only one erased in a place that
\* the round had reached does (SessionManager.cpp:85-96, 17-19 and 44-51).
RoundOnList ==
  InRound =>
    /\ manager = "live"
    /\ \/ shifted
       \/ at["updater"] = "visit" /\ index <= Len(sessions) + 1
       \/ index <= Len(sessions) /\ sessions[index] = target

Holder(m) == {m} \ {Nobody}

\* The threads whose step thread t waits for.
WaitsFor(t) ==
  CASE t = "updater" /\ at[t] \in {"lock", "lock again"} -> Holder(managerMutex)
    [] t = "updater" /\ at[t] = "enter" /\ target \in Live -> Holder(sessionMutex[target])
    [] t = "receiver" /\ at[t] = "lock" -> Holder(managerMutex)
    [] t = "receiver" /\ at[t] = "receive" -> Holder(sessionMutex[packet.found])
    [] t = "main" /\ at[t] = "await receiver" -> {"receiver"}
    [] t = "main" /\ at[t] = "await updater" -> {"updater"}
    [] OTHER -> {}

\* No threads wait for each other in a circle, whatever the order in which
\* they take the two kinds of mutex; only a timeout makes one
\* (SessionManager.cpp:85 and 54).
NoCircle ==
  at["updater"] # "lock again" =>
    \A T \in (SUBSET Thread) \ {{}} : \E t \in T : WaitsFor(t) \cap T = {}

\* Once an address has a session, its packets go to that session until it is
\* destroyed, however often the client repeats its request.
RouteStable ==
  [][\A a \in Address :
       SessionOf(a) # NoSlot /\ SessionOf(a) \in ToSet(sessions')
         => SessionOf(a)' = SessionOf(a)]_vars

\* The server has come to a halt: a timeout, or the purge loop.
Hangs == at["updater"] = "lock again" \/ at["receiver"] = "purge for ever"

\* The server stops once it is told to, although the receiver may lose every
\* race for the manager's mutex: the updater leaves first.
StopEnds ==
  server = "STOPPING" ~> server = "STOPPED" \/ Hangs \/ process # "running"

\* The updater comes round to every session again, however the list changes
\* under it, until the server stops.
UpdatedAgain ==
  \A s \in Slot :
    s \in Live ~> \/ at["updater"] = "update" /\ target = s
                  \/ s \notin Live
                  \/ IsShutdown \/ Hangs \/ process # "running"
=============================================================================
