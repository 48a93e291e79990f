-------------------------- MODULE SessionLifeProofs --------------------------
(***************************************************************************)
(* Proofs about SessionLife: types and locks, the order of start and       *)
(* shutdown, the pointers, and that no threads wait in a circle, for any   *)
(* number of clients, sessions, workers and packets.                       *)
(***************************************************************************)
EXTENDS SessionLife, SequenceTheorems, WellFoundedInduction, TLAPS

-----------------------------------------------------------------------------
(* The list of sessions *)

LEMMA SetOfAppend ==
  ASSUME NEW S, NEW q \in Seq(S), NEW s \in S
  PROVE  /\ Append(q, s) \in Seq(S)
         /\ ToSet(Append(q, s)) = ToSet(q) \cup {s}
         /\ IsInjective(q) /\ s \notin ToSet(q) => IsInjective(Append(q, s))
<1>1. Append(q, s) \in Seq(S) /\ Len(Append(q, s)) = Len(q) + 1
  OBVIOUS
<1>2. \A k \in 1 .. Len(q) : Append(q, s)[k] = q[k]
  OBVIOUS
<1>3. Append(q, s)[Len(q) + 1] = s
  OBVIOUS
<1>4. ToSet(Append(q, s)) = ToSet(q) \cup {s}
  BY <1>1, <1>2, <1>3 DEF ToSet
<1>5. ASSUME IsInjective(q), s \notin ToSet(q)
      PROVE  IsInjective(Append(q, s))
  BY <1>1, <1>2, <1>3, <1>5 DEF IsInjective, ToSet
<1> QED
  BY <1>1, <1>4, <1>5

\* RemoveAt moves what comes later one place down.
LEMMA RemovedPlaces ==
  ASSUME NEW S, NEW q \in Seq(S), NEW k \in 1 .. Len(q)
  PROVE  /\ RemoveAt(q, k) \in Seq(S)
         /\ Len(RemoveAt(q, k)) = Len(q) - 1
         /\ \A i \in 1 .. Len(q) - 1 :
              RemoveAt(q, k)[i] = IF i < k THEN q[i] ELSE q[i + 1]
<1> DEFINE a == SubSeq(q, 1, k - 1)
           b == SubSeq(q, k + 1, Len(q))
<1>0. Len(q) \in Nat /\ k \in Nat /\ 1 <= k /\ k <= Len(q)
  OBVIOUS
<1>1. a \in Seq(S) /\ Len(a) = k - 1 /\ \A i \in 1 .. k - 1 : a[i] = q[i]
  OBVIOUS
<1>2. b \in Seq(S) /\ Len(b) = Len(q) - k /\ \A i \in 1 .. Len(q) - k : b[i] = q[k + i]
  OBVIOUS
<1>3. RemoveAt(q, k) = a \o b
  BY DEF RemoveAt
<1> HIDE DEF a, b
<1>4. a \o b \in Seq(S) /\ Len(a \o b) = Len(q) - 1
  <2>1. a \o b \in Seq(S) /\ Len(a \o b) = Len(a) + Len(b)
    BY <1>1, <1>2, ConcatProperties
  <2>2. Len(a) = k - 1 /\ Len(b) = Len(q) - k
    BY <1>1, <1>2
  <2>3. (k - 1) + (Len(q) - k) = Len(q) - 1
    BY <1>0
  <2> QED
    BY <2>1, <2>2, <2>3
<1>5. ASSUME NEW i \in 1 .. Len(q) - 1
      PROVE  (a \o b)[i] = IF i < k THEN q[i] ELSE q[i + 1]
  <2>1. CASE i < k
    <3>1. (a \o b)[i] = a[i]
      BY <1>1, <1>2, <2>1
    <3> QED
      BY <1>1, <2>1, <3>1
  <2>2. CASE i >= k
    <3>1. (a \o b)[i] = b[i - (k - 1)]
      BY <1>1, <1>2, <2>2
    <3>2. i - (k - 1) \in 1 .. Len(q) - k /\ k + (i - (k - 1)) = i + 1
      BY <2>2
    <3> QED
      BY <1>2, <2>2, <3>1, <3>2
  <2> QED
    <3>1. i < k \/ i >= k
      BY <1>0
    <3> QED
      BY <2>1, <2>2, <3>1
<1> QED
  BY <1>3, <1>4, <1>5

LEMMA SetOfRemoved ==
  ASSUME NEW S, NEW q \in Seq(S), NEW k \in 1 .. Len(q), IsInjective(q)
  PROVE  /\ RemoveAt(q, k) \in Seq(S)
         /\ IsInjective(RemoveAt(q, k))
         /\ ToSet(RemoveAt(q, k)) = ToSet(q) \ {q[k]}
<1> DEFINE r == RemoveAt(q, k)
<1>1. /\ r \in Seq(S) /\ Len(r) = Len(q) - 1
      /\ \A i \in 1 .. Len(q) - 1 : r[i] = IF i < k THEN q[i] ELSE q[i + 1]
  BY RemovedPlaces
<1> HIDE DEF r
<1>2. IsInjective(r)
  <2>1. DOMAIN r = 1 .. Len(q) - 1 /\ DOMAIN q = 1 .. Len(q)
        /\ Len(q) \in Nat /\ k \in Nat
    BY <1>1
  <2>2. SUFFICES ASSUME NEW i \in 1 .. Len(q) - 1, NEW j \in 1 .. Len(q) - 1,
                        r[i] = r[j]
                 PROVE  i = j
    BY <2>1 DEF IsInjective
  <2>3. \A x, y \in 1 .. Len(q) : q[x] = q[y] => x = y
    BY <2>1 DEF IsInjective
  <2> QED
    BY <1>1, <2>1, <2>2, <2>3
<1>3. ToSet(r) \subseteq ToSet(q) \ {q[k]}
  BY <1>1 DEF IsInjective, ToSet
<1>4. ASSUME NEW x \in ToSet(q) \ {q[k]}
      PROVE  x \in ToSet(r)
  <2>1. PICK j \in 1 .. Len(q) : q[j] = x
    BY DEF ToSet
  <2>2. CASE j < k
    BY <1>1, <2>1, <2>2 DEF ToSet
  <2>3. CASE j > k
    <3>1. j - 1 \in 1 .. Len(q) - 1 /\ r[j - 1] = q[j]
      BY <1>1, <2>3
    <3> QED
      BY <1>1, <2>1, <3>1 DEF ToSet
  <2> QED
    BY <2>1, <2>2, <2>3
<1> QED
  BY <1>1, <1>2, <1>3, <1>4 DEF r

-----------------------------------------------------------------------------
(* getSession *)

\* k is the first place of a session of the address a.
IsFirst(a, k) ==
  /\ k \in 1 .. Len(sessions)
  /\ session[sessions[k]].address = a
  /\ \A j \in 1 .. Len(sessions) : session[sessions[j]].address = a => k <= j

\* SessionOf finds a session of the address, the first, if there is one.
LEMMA SessionOfFound ==
  ASSUME NEW a, sessions \in Seq(Slot), SessionOf(a) # NoSlot
  PROVE  \E k \in 1 .. Len(sessions) : IsFirst(a, k) /\ SessionOf(a) = sessions[k]
<1> DEFINE places == {k \in 1 .. Len(sessions) : session[sessions[k]].address = a}
<1>1. places # {} /\ places \subseteq Nat
  BY DEF SessionOf
<1>2. \E k \in places : \A j \in places : k <= j
  <2> HIDE DEF places
  <2>1. PICK k \in places : \A j \in places : ~(<<j, k>> \in OpToRel(<, Nat))
    BY <1>1, NatLessThanWellFounded, WFMin
  <2>2. \A j \in places : ~(j < k)
    BY <1>1, <2>1 DEF OpToRel
  <2> QED
    BY <1>1, <2>2
<1>3. SessionOf(a) = sessions[CHOOSE k \in places : \A j \in places : k <= j]
  BY <1>1 DEF SessionOf
<1>4. PICK k \in places : (\A j \in places : k <= j) /\ SessionOf(a) = sessions[k]
  <2> HIDE DEF places
  <2> QED
    BY <1>2, <1>3
<1> QED
  BY <1>4 DEF IsFirst

\* SessionOf and IsFirst, with the list and the places as parameters.
SessionIn(q, f, a) ==
  LET places == {k \in 1 .. Len(q) : f[q[k]].address = a}
  IN  IF places = {} THEN NoSlot
      ELSE q[CHOOSE k \in places : \A j \in places : k <= j]

FirstIn(q, f, a, k) ==
  /\ k \in 1 .. Len(q)
  /\ f[q[k]].address = a
  /\ \A j \in 1 .. Len(q) : f[q[j]].address = a => k <= j

LEMMA SessionInFirst ==
  ASSUME NEW S, NEW q \in Seq(S), NEW f, NEW a, NEW k, FirstIn(q, f, a, k)
  PROVE  SessionIn(q, f, a) = q[k]
<1> DEFINE places == {j \in 1 .. Len(q) : f[q[j]].address = a}
<1>1. /\ k \in places /\ \A j \in places : k <= j
      /\ places \subseteq Nat
  BY DEF FirstIn
<1>2. SessionIn(q, f, a) = q[CHOOSE i \in places : \A j \in places : i <= j]
  BY <1>1 DEF SessionIn
<1> HIDE DEF places
<1>3. (CHOOSE i \in places : \A j \in places : i <= j) = k
  <2>1. PICK i \in places : /\ i = (CHOOSE x \in places : \A j \in places : x <= j)
                            /\ \A j \in places : i <= j
    BY <1>1
  <2>2. i <= k /\ k <= i /\ i \in Nat /\ k \in Nat
    BY <1>1, <2>1
  <2> QED
    BY <2>1, <2>2
<1> QED
  BY <1>2, <1>3

\* The first session stays the first when another is put last.
LEMMA FirstAfterAppend ==
  ASSUME NEW S, NEW q \in Seq(S), NEW s \in S, NEW f, NEW g, NEW a, NEW k,
         FirstIn(q, f, a, k),
         \A j \in 1 .. Len(q) : g[q[j]].address = f[q[j]].address
  PROVE  FirstIn(Append(q, s), g, a, k) /\ Append(q, s)[k] = q[k]
<1>1. k \in 1 .. Len(q) /\ Len(q) \in Nat
  BY DEF FirstIn
<1>2. /\ Len(Append(q, s)) = Len(q) + 1
      /\ \A j \in 1 .. Len(q) : Append(q, s)[j] = q[j]
  OBVIOUS
<1>3. ASSUME NEW j \in 1 .. Len(q) + 1, g[Append(q, s)[j]].address = a
      PROVE  k <= j
  <2>1. CASE j \in 1 .. Len(q)
    BY <1>2, <1>3, <2>1 DEF FirstIn
  <2>2. CASE j = Len(q) + 1
    BY <1>1, <2>2
  <2> QED
    BY <1>1, <2>1, <2>2
<1>4. k \in 1 .. Len(q) + 1
  BY <1>1
<1>5. Append(q, s)[k] = q[k] /\ g[q[k]].address = a
  BY <1>1, <1>2 DEF FirstIn
<1> QED
  BY <1>2, <1>3, <1>4, <1>5 DEF FirstIn

\* It stays the first when another is erased, one place down if that came before.
LEMMA FirstAfterRemove ==
  ASSUME NEW S, NEW q \in Seq(S), NEW f, NEW a, NEW k, FirstIn(q, f, a, k),
         NEW i \in 1 .. Len(q), i # k
  PROVE  \E n \in 1 .. Len(q) - 1 :
           FirstIn(RemoveAt(q, i), f, a, n) /\ RemoveAt(q, i)[n] = q[k]
<1> DEFINE r == RemoveAt(q, i)
           n == IF i < k THEN k - 1 ELSE k
<1>1. /\ k \in 1 .. Len(q) /\ Len(q) \in Nat /\ i \in Nat /\ k \in Nat
      /\ f[q[k]].address = a
      /\ \A j \in 1 .. Len(q) : f[q[j]].address = a => k <= j
  BY DEF FirstIn
<1>2. /\ Len(r) = Len(q) - 1
      /\ \A j \in 1 .. Len(q) - 1 : r[j] = IF j < i THEN q[j] ELSE q[j + 1]
  BY RemovedPlaces
<1> HIDE DEF r
<1>3. n \in 1 .. Len(q) - 1 /\ n \in Nat
  BY <1>1
<1>4. r[n] = q[k]
  <2>1. CASE i < k
    <3>1. n = k - 1 /\ ~(k - 1 < i) /\ (k - 1) + 1 = k
      BY <1>1, <2>1
    <3> QED
      BY <1>2, <1>3, <3>1
  <2>2. CASE ~(i < k)
    <3>1. n = k /\ k < i
      BY <1>1, <2>2
    <3> QED
      BY <1>2, <1>3, <3>1
  <2> QED
    BY <2>1, <2>2
<1>5. ASSUME NEW j \in 1 .. Len(q) - 1, f[r[j]].address = a
      PROVE  n <= j
  <2>1. CASE j < i
    <3>1. r[j] = q[j] /\ j \in 1 .. Len(q)
      BY <1>1, <1>2, <2>1
    <3>2. k <= j
      BY <1>1, <1>5, <3>1
    <3> QED
      BY <1>1, <3>2
  <2>2. CASE ~(j < i)
    <3>1. r[j] = q[j + 1] /\ j + 1 \in 1 .. Len(q)
      BY <1>1, <1>2, <2>2
    <3>2. k <= j + 1
      BY <1>1, <1>5, <3>1
    <3> QED
      BY <1>1, <2>2, <3>2
  <2> QED
    BY <2>1, <2>2
<1>6. FirstIn(r, f, a, n)
  <2> HIDE DEF n
  <2> QED
    BY <1>1, <1>2, <1>3, <1>4, <1>5 DEF FirstIn
<1> QED
  BY <1>3, <1>4, <1>6 DEF r

-----------------------------------------------------------------------------
(* The invariant *)

Unstarted == at["updater"] = "not added" /\ at["receiver"] = "not added"

\* How far the loops and the manager are at each place of main.
Phases ==
  /\ at["main"] \in {"start", "create"} => manager = "none" /\ Unstarted
  /\ at["main"] = "listen" => manager = "live" /\ at["receiver"] = "not added"
  /\ at["main"] = "console" => manager = "live"
  /\ at["main"] \in {"shutdown", "await receiver"} => manager = "live" \/ Unstarted
  /\ at["main"] = "await updater" => manager = "live" /\ at["receiver"] = "ended"
  /\ at["main"] \in {"destroy", "return", "join"} =>
       at["receiver"] = "ended" /\ at["updater"] = "ended"

\* A round begins at the first session, and a packet that looks for the manager
\* has an errand there.
InOrder ==
  /\ at["updater"] \in {"not added", "check", "lock"} => index = 1
  /\ at["receiver"] = "lock" => packet.errand \in {"create", "close", "receive"}
  /\ at["receiver"] = "find" => packet.errand \in {"close", "receive"}

\* The iterator is where the round takes it to be, unless an erasure moved the
\* list under it.
Follows ==
  \/ shifted
  \/ at["updater"] = "visit" /\ index <= Len(sessions) + 1
  \/ index <= Len(sessions) /\ sessions[index] = target

IInv ==
  /\ TypeOK /\ Phases /\ InOrder /\ PointerStaysGood
  /\ InRound => Follows

-----------------------------------------------------------------------------
(* Types and locks *)

LEMMA LiveType ==
  ASSUME ListOK
  PROVE  Live \subseteq Slot
BY DEF ListOK, Live, ToSet

\* One thread moves on.
LEMMA MainMoves ==
  ASSUME PlacesOK, NEW p \in MainPlaces, Goto("main", p)
  PROVE  /\ PlacesOK' /\ at'["main"] = p
         /\ at'["updater"] = at["updater"] /\ at'["receiver"] = at["receiver"]
BY DEF PlacesOK, Goto, Thread

LEMMA UpdaterMoves ==
  ASSUME PlacesOK, NEW p \in UpdaterPlaces, Goto("updater", p)
  PROVE  /\ PlacesOK' /\ at'["updater"] = p
         /\ at'["main"] = at["main"] /\ at'["receiver"] = at["receiver"]
BY DEF PlacesOK, Goto, Thread

LEMMA ReceiverMoves ==
  ASSUME PlacesOK, NEW p \in ReceiverPlaces, Goto("receiver", p)
  PROVE  /\ PlacesOK' /\ at'["receiver"] = p
         /\ at'["main"] = at["main"] /\ at'["updater"] = at["updater"]
BY DEF PlacesOK, Goto, Thread

LEMMA StepMoves ==
  ASSUME PlacesOK, InOrder, Next
  PROVE  \/ UNCHANGED at
         \/ \E p \in MainPlaces : Goto("main", p)
         \/ \E p \in UpdaterPlaces : Goto("updater", p)
         \/ \E p \in ReceiverPlaces : Goto("receiver", p)
         \/ Create \/ Listen
<1>1. CASE MainStep \/ Stop
  BY <1>1 DEF MainStep, Start, CreateFails, Stop, Shutdown, AwaitReceiver,
       GetThrows, AwaitUpdater, DestroyManager, DropTasks, Exit, MainPlaces
<1>2. CASE UpdaterStep
  BY <1>2 DEF UpdaterStep, UpdaterCheck, UpdaterLock, UpdaterLeave,
       UpdaterOverruns, UpdaterVisit, UpdaterEnter, UpdaterTimesOut,
       UpdaterSends, UpdaterMisuses, CloseLocked, UpdaterPlaces
<1>3. CASE ReceiverStep
  BY <1>3 DEF ReceiverStep, ReceiverCheck, NothingArrives, RequestArrives,
       BadRequestArrives, DisconnectArrives, PacketArrives, Arrives,
       ReceiverLock, CreateSession, GetSession, CloseSession, ReceiverEnter,
       ReceivePacket, ReceiverSpins, InOrder, ReceiverPlaces
<1>4. CASE TimePasses \/ \E w \in Worker : WorkerStep(w)
  BY <1>4 DEF TimePasses, WorkerStep, WorkerTakes, WorkerConnects,
       WorkerMisuses, WorkerReturns
<1> QED
  BY <1>1, <1>2, <1>3, <1>4 DEF Next

LEMMA PlacesStep ==
  ASSUME PlacesOK, InOrder, Next
  PROVE  PlacesOK'
<1>1. CASE Create
  BY <1>1 DEF Create, PlacesOK, Thread, MainPlaces, UpdaterPlaces
<1>2. CASE Listen
  BY <1>2 DEF Listen, PlacesOK, Thread, MainPlaces, ReceiverPlaces
<1>3. CASE UNCHANGED at
  BY <1>3 DEF PlacesOK
<1> QED
  BY <1>1, <1>2, <1>3, StepMoves, MainMoves, UpdaterMoves, ReceiverMoves

\* What the steps leave alone that are not named here.
LEMMA ListFrame ==
  ASSUME Next
  PROVE  \/ UNCHANGED <<sessions, session, idle>>
         \/ DestroyManager \/ TimePasses \/ UpdaterTimesOut
         \/ CreateSession \/ CloseSession \/ ReceiverEnter
         \/ \E w \in Worker : WorkerConnects(w) \/ WorkerMisuses(w)
<1> USE DEF worldVars, listVars, sessionVars
<1>1. CASE MainStep \/ Stop
  BY <1>1 DEF MainStep, Start, CreateFails, Create, Listen, Stop, Shutdown,
       AwaitReceiver, GetThrows, AwaitUpdater, DropTasks, Exit
<1>2. CASE UpdaterStep
  BY <1>2 DEF UpdaterStep, UpdaterCheck, UpdaterLock, UpdaterLeave,
       UpdaterOverruns, UpdaterVisit, UpdaterEnter, UpdaterSends, UpdaterMisuses
<1>3. CASE ReceiverStep
  BY <1>3 DEF ReceiverStep, ReceiverCheck, NothingArrives, RequestArrives,
       BadRequestArrives, DisconnectArrives, PacketArrives, Arrives,
       ReceiverLock, GetSession, ReceivePacket, ReceiverSpins
<1>4. CASE \E w \in Worker : WorkerStep(w)
  BY <1>4 DEF WorkerStep, WorkerTakes, WorkerReturns
<1> QED
  BY <1>1, <1>2, <1>3, <1>4 DEF Next

SessionType == [address : Address, born : Nat,
                state : {"CONNECTING", "CONNECTED", "DISCONNECTED"}]

LEMMA ListStep ==
  ASSUME TypeOK, PointerStaysGood, Next
  PROVE  ListOK'
<1>0. /\ ListOK /\ Live \subseteq Slot
      /\ target \in Slot \cup {NoSlot} /\ packet.sender \in Address
  BY LiveType DEF TypeOK, UpdaterOK, ReceiverOK
<1>1. CASE UNCHANGED <<sessions, session, idle>>
  BY <1>0, <1>1 DEF ListOK, Live
<1>2. CASE DestroyManager
  <2>1. sessions' \in Seq(Slot) /\ IsInjective(sessions') /\ UNCHANGED session
    BY <1>2 DEF DestroyManager, IsInjective
  <2> QED
    BY <1>0, <1>2, <2>1 DEF DestroyManager, ListOK
<1>3. CASE TimePasses
  BY <1>0, <1>3 DEF TimePasses, ListOK, Live, worldVars, listVars
<1>4. CASE UpdaterTimesOut
  <2>1. target \in Slot /\ UNCHANGED <<sessions, idle>>
    BY <1>0, <1>4 DEF UpdaterTimesOut, CloseLocked
  <2>2. session' \in [Slot -> SessionType]
    BY <1>0, <1>4, <2>1 DEF UpdaterTimesOut, ListOK, SessionType
  <2> QED
    BY <1>0, <2>1, <2>2 DEF ListOK, Live, SessionType
<1>5. CASE CreateSession
  <2>1. PICK s \in Slot \ Live :
          /\ sessions' = Append(sessions, s)
          /\ session' = [session EXCEPT ![s] =
               [address |-> packet.sender, state |-> "CONNECTING", born |-> @.born + 1]]
    BY <1>5 DEF CreateSession, PutLast
  <2>2. sessions' \in Seq(Slot) /\ IsInjective(sessions') /\ Live' = Live \cup {s}
    BY <1>0, <2>1, SetOfAppend DEF ListOK, Live
  <2>3. session' \in [Slot -> SessionType]
    BY <1>0, <2>1 DEF ListOK, SessionType
  <2> QED
    BY <1>0, <1>5, <2>2, <2>3 DEF CreateSession, ListOK, SessionType
<1>6. CASE CloseSession
  <2>1. PICK k \in 1 .. Len(sessions) :
          sessions[k] = packet.found /\ sessions' = RemoveAt(sessions, k)
    BY <1>6 DEF CloseSession
  <2>2. /\ sessions' \in Seq(Slot) /\ IsInjective(sessions')
        /\ Live' = Live \ {packet.found}
    BY <1>0, <2>1, SetOfRemoved DEF ListOK, Live
  <2> QED
    BY <1>0, <1>6, <2>2 DEF CloseSession, ListOK
<1>7. CASE ReceiverEnter
  BY <1>0, <1>7 DEF ReceiverEnter, ListOK, Live, worldVars, listVars
<1>8. CASE \E w \in Worker : WorkerConnects(w) \/ WorkerMisuses(w)
  <2>1. PICK w \in Worker : WorkerConnects(w) \/ WorkerMisuses(w)
    BY <1>8
  <2>2. UNCHANGED <<sessions, idle>>
    BY <2>1 DEF WorkerConnects, WorkerMisuses, worldVars, listVars
  <2>3. session' \in [Slot -> SessionType]
    BY <1>0, <2>1 DEF WorkerConnects, WorkerMisuses, Connected, IsCurrent,
         ListOK, SessionType
  <2> QED
    BY <1>0, <2>2, <2>3 DEF ListOK, Live, SessionType
<1> QED
  BY <1>1, <1>2, <1>3, <1>4, <1>5, <1>6, <1>7, <1>8, ListFrame

\* Which of the places a step leaves alone.
LEMMA MainLeaves ==
  ASSUME PlacesOK, MainStep \/ Stop
  PROVE  \/ at'["updater"] = at["updater"] /\ at'["receiver"] = at["receiver"]
         \/ /\ Create
            /\ at'["updater"] = "check" /\ at'["receiver"] = at["receiver"]
         \/ /\ Listen
            /\ at'["receiver"] = "check" /\ at'["updater"] = at["updater"]
<1>1. CASE Create
  BY <1>1 DEF Create, PlacesOK, Thread
<1>2. CASE Listen
  BY <1>2 DEF Listen, PlacesOK, Thread
<1>3. ASSUME ~Create, ~Listen
      PROVE  UNCHANGED at \/ \E p \in MainPlaces : Goto("main", p)
  BY <1>3 DEF MainStep, Start, CreateFails, Stop, Shutdown, AwaitReceiver,
       GetThrows, AwaitUpdater, DestroyManager, DropTasks, Exit, MainPlaces
<1> QED
  BY <1>1, <1>2, <1>3, MainMoves

LEMMA UpdaterLeaves ==
  ASSUME PlacesOK, UpdaterStep
  PROVE  at'["main"] = at["main"] /\ at'["receiver"] = at["receiver"]
<1>1. UNCHANGED at \/ \E p \in UpdaterPlaces : Goto("updater", p)
  BY DEF UpdaterStep, UpdaterCheck, UpdaterLock, UpdaterLeave,
       UpdaterOverruns, UpdaterVisit, UpdaterEnter, UpdaterTimesOut,
       UpdaterSends, UpdaterMisuses, CloseLocked, UpdaterPlaces
<1> QED
  BY <1>1, UpdaterMoves

LEMMA ReceiverLeaves ==
  ASSUME PlacesOK, InOrder, ReceiverStep
  PROVE  at'["main"] = at["main"] /\ at'["updater"] = at["updater"]
<1>1. UNCHANGED at \/ \E p \in ReceiverPlaces : Goto("receiver", p)
  BY DEF ReceiverStep, ReceiverCheck, NothingArrives, RequestArrives,
       BadRequestArrives, DisconnectArrives, PacketArrives, Arrives,
       ReceiverLock, CreateSession, GetSession, CloseSession, ReceiverEnter,
       ReceivePacket, ReceiverSpins, InOrder, ReceiverPlaces
<1> QED
  BY <1>1, ReceiverMoves

LEMMA WorkerLeaves ==
  ASSUME TimePasses \/ \E w \in Worker : WorkerStep(w)
  PROVE  UNCHANGED <<server, at, manager, sessions, managerMutex, sessionMutex,
                     updaterVars, receiverVars, shifted>>
BY DEF TimePasses, WorkerStep, WorkerTakes, WorkerConnects, WorkerMisuses,
       WorkerReturns, worldVars, listVars, sessionVars, historyVars

\* What main leaves alone.
LEMMA MainFrame ==
  ASSUME MainStep \/ Stop
  PROVE  /\ UNCHANGED <<managerMutex, session, sessionMutex, updaterVars,
                        receiverVars, job, shifted>>
         /\ UNCHANGED <<sessions, idle>> \/ DestroyManager
         /\ UNCHANGED tasks \/ DropTasks
BY DEF MainStep, Start, CreateFails, Create, Listen, Stop, Shutdown,
       AwaitReceiver, GetThrows, AwaitUpdater, DestroyManager, DropTasks, Exit,
       worldVars, listVars, sessionVars, poolVars, historyVars

LEMMA UpdaterTypeStep ==
  ASSUME TypeOK, InOrder, Next
  PROVE  UpdaterOK'
<1>0. PlacesOK /\ UpdaterOK /\ sessions \in Seq(Slot) /\ Live \subseteq Slot
  BY LiveType DEF TypeOK, ListOK
<1>1. CASE MainStep \/ Stop
  <2>1. UNCHANGED <<index, target>>
    BY <1>1, MainFrame DEF updaterVars
  <2> QED
    BY <1>0, <1>1, <2>1, MainLeaves DEF UpdaterOK
<1>2. CASE UpdaterCheck \/ UpdaterLock \/ UpdaterOverruns
  <2>1. UNCHANGED <<index, target>>
    BY <1>2 DEF UpdaterCheck, UpdaterLock, UpdaterOverruns, worldVars,
         updaterVars
  <2>2. UNCHANGED at \/ \E p \in {"ended", "lock", "visit"} : Goto("updater", p)
    BY <1>2 DEF UpdaterCheck, UpdaterLock, UpdaterOverruns
  <2> QED
    BY <1>0, <2>1, <2>2, UpdaterMoves DEF UpdaterOK, UpdaterPlaces
<1>3. CASE UpdaterLeave
  <2>1. at'["updater"] = "check"
    BY <1>0, <1>3, UpdaterMoves DEF UpdaterLeave, UpdaterPlaces
  <2> QED
    BY <1>0, <1>3, <2>1 DEF UpdaterLeave, Begun, UpdaterOK
<1>4. CASE UpdaterVisit
  <2>1. sessions[index] \in Slot
    BY <1>0, <1>4 DEF UpdaterVisit, UpdaterOK
  <2> QED
    BY <1>0, <1>4, <2>1 DEF UpdaterVisit, updaterVars, UpdaterOK
<1>5. CASE UpdaterEnter \/ UpdaterTimesOut
  <2>1. target \in Slot /\ UNCHANGED <<index, target>>
    BY <1>0, <1>5 DEF UpdaterEnter, UpdaterTimesOut, updaterVars
  <2> QED
    BY <1>0, <2>1 DEF UpdaterOK
<1>6. CASE UpdaterSends \/ UpdaterMisuses
  <2>1. target' = target /\ (index' = index \/ index' = index + 1)
    BY <1>6 DEF UpdaterSends, UpdaterMisuses
  <2>2. target \in Slot
    BY <1>0, <1>6 DEF UpdaterSends, UpdaterMisuses, UpdaterOK
  <2>3. index' \in Nat \ {0}
    <3>1. index \in Nat \ {0}
      BY <1>0 DEF UpdaterOK
    <3> QED
      BY <2>1, <3>1
  <2> QED
    BY <2>1, <2>2, <2>3 DEF UpdaterOK
<1>7. CASE ReceiverStep
  <2>1. UNCHANGED <<index, target>>
    BY <1>7 DEF ReceiverStep, ReceiverCheck, NothingArrives, RequestArrives,
         BadRequestArrives, DisconnectArrives, PacketArrives, Arrives,
         ReceiverLock, CreateSession, GetSession, CloseSession, ReceiverEnter,
         ReceivePacket, ReceiverSpins, worldVars, updaterVars
  <2> QED
    BY <1>0, <1>7, <2>1, ReceiverLeaves DEF UpdaterOK
<1>8. CASE TimePasses \/ \E w \in Worker : WorkerStep(w)
  BY <1>0, <1>8, WorkerLeaves DEF updaterVars, UpdaterOK
<1> QED
  BY <1>1, <1>2, <1>3, <1>4, <1>5, <1>6, <1>7, <1>8 DEF Next, UpdaterStep

LEMMA ReceiverTypeStep ==
  ASSUME TypeOK, Next
  PROVE  ReceiverOK'
<1>0. ReceiverOK /\ sessions \in Seq(Slot)
  BY DEF TypeOK, ListOK
<1>1. CASE UNCHANGED <<packet, arrived>>
  BY <1>0, <1>1 DEF ReceiverOK
<1>2. CASE ReceiverCheck
  <2>1. SomeAddress \in Address
    BY SizeAssumption DEF SomeAddress
  <2> QED
    BY <1>0, <1>2, <2>1 DEF ReceiverCheck, NoPacket, ReceiverOK
<1>3. ASSUME NEW errand \in {"none", "create", "close", "receive"}, NEW place,
             Arrives(errand, place)
      PROVE  ReceiverOK'
  <2>1. PICK a \in Address :
          packet' = [sender |-> a, errand |-> errand, found |-> NoSlot]
    BY <1>3 DEF Arrives
  <2>2. arrived' = arrived + 1
    BY <1>3 DEF Arrives
  <2> QED
    BY <1>0, <1>3, <2>1, <2>2 DEF ReceiverOK
<1>4. CASE GetSession
  <2>1. SessionOf(packet.sender) \in Slot \cup {NoSlot}
    BY <1>0, SessionOfFound
  <2> QED
    BY <1>0, <1>4, <2>1 DEF GetSession, ReceiverOK
<1>5. ReceiverStep => \/ UNCHANGED <<packet, arrived>> \/ ReceiverCheck \/ GetSession
                      \/ \E errand \in {"none", "create", "close", "receive"} :
                           \E place \in ReceiverPlaces : Arrives(errand, place)
  <2>1. RequestArrives \/ BadRequestArrives \/ DisconnectArrives \/ PacketArrives =>
          \E errand \in {"none", "create", "close", "receive"} :
            \E place \in ReceiverPlaces : Arrives(errand, place)
    BY DEF RequestArrives, BadRequestArrives, DisconnectArrives, PacketArrives,
         ReceiverPlaces
  <2>2. NothingArrives \/ ReceiverLock \/ CreateSession \/ CloseSession
          \/ ReceiverEnter \/ ReceivePacket \/ ReceiverSpins
          => UNCHANGED <<packet, arrived>>
    BY DEF NothingArrives, ReceiverLock, CreateSession, CloseSession,
         ReceiverEnter, ReceivePacket, ReceiverSpins, worldVars, receiverVars
  <2> QED
    BY <2>1, <2>2 DEF ReceiverStep
<1>6. MainStep \/ Stop => UNCHANGED <<packet, arrived>>
  BY MainFrame DEF receiverVars
<1>7. UpdaterStep => UNCHANGED <<packet, arrived>>
  BY DEF UpdaterStep, UpdaterCheck, UpdaterLock, UpdaterLeave, UpdaterOverruns,
       UpdaterVisit, UpdaterEnter, UpdaterTimesOut, UpdaterSends,
       UpdaterMisuses, worldVars, receiverVars
<1>8. TimePasses \/ (\E w \in Worker : WorkerStep(w)) => UNCHANGED <<packet, arrived>>
  BY WorkerLeaves DEF receiverVars
<1> QED
  BY <1>1, <1>2, <1>3, <1>4, <1>5, <1>6, <1>7, <1>8 DEF Next

LEMMA PoolTypeStep ==
  ASSUME TypeOK, PointerStaysGood, Next
  PROVE  PoolOK'
<1>0. /\ tasks \in Seq(TaskType) /\ job \in [Worker -> TaskType \cup {NoJob}]
      /\ session \in [Slot -> SessionType] /\ Live \subseteq Slot
  BY LiveType DEF TypeOK, PoolOK, ListOK, SessionType
<1>1. CASE UNCHANGED poolVars
  BY <1>0, <1>1 DEF poolVars, PoolOK
<1>2. CASE DropTasks
  BY <1>0, <1>2 DEF DropTasks, PoolOK
<1>3. CASE ReceivePacket
  <2>1. packet.found \in Slot
    BY <1>0, <1>3 DEF ReceivePacket, PointerStaysGood
  <2>2. [slot |-> packet.found, born |-> session[packet.found].born] \in TaskType
    BY <1>0, <2>1 DEF SessionType, TaskType
  <2>3. tasks' \in Seq(TaskType)
    <3> DEFINE t == [slot |-> packet.found, born |-> session[packet.found].born]
    <3>1. tasks' = tasks \/ tasks' = Append(tasks, t)
      BY <1>3 DEF ReceivePacket
    <3>2. t \in TaskType
      BY <2>2
    <3> HIDE DEF t
    <3> QED
      BY <1>0, <3>1, <3>2
  <2>4. job' = job
    BY <1>3 DEF ReceivePacket
  <2> QED
    BY <1>0, <2>3, <2>4 DEF PoolOK
<1>4. ASSUME NEW w \in Worker, WorkerTakes(w)
      PROVE  PoolOK'
  <2>1. Head(tasks) \in TaskType /\ Tail(tasks) \in Seq(TaskType)
    BY <1>0, <1>4 DEF WorkerTakes
  <2> QED
    BY <1>0, <1>4, <2>1 DEF WorkerTakes, PoolOK
<1>5. ASSUME NEW w \in Worker, WorkerReturns(w)
      PROVE  PoolOK'
  BY <1>0, <1>5 DEF WorkerReturns, PoolOK
<1>6. MainStep \/ Stop => UNCHANGED poolVars \/ DropTasks
  BY MainFrame DEF poolVars
<1>7. UpdaterStep \/ TimePasses => UNCHANGED poolVars
  BY DEF UpdaterStep, UpdaterCheck, UpdaterLock, UpdaterLeave, UpdaterOverruns,
       UpdaterVisit, UpdaterEnter, UpdaterTimesOut, UpdaterSends,
       UpdaterMisuses, TimePasses, worldVars
<1>8. ReceiverStep => UNCHANGED poolVars \/ ReceivePacket
  BY DEF ReceiverStep, ReceiverCheck, NothingArrives, RequestArrives,
       BadRequestArrives, DisconnectArrives, PacketArrives, Arrives,
       ReceiverLock, CreateSession, GetSession, CloseSession, ReceiverEnter,
       ReceiverSpins, worldVars
<1>9. ASSUME NEW w \in Worker, WorkerConnects(w) \/ WorkerMisuses(w)
      PROVE  UNCHANGED poolVars
  BY <1>9 DEF WorkerConnects, WorkerMisuses
<1> QED
  BY <1>1, <1>2, <1>3, <1>4, <1>5, <1>6, <1>7, <1>8, <1>9 DEF Next, WorkerStep

\* The threads move as Phases says; the rest are types.
LEMMA LocksStep ==
  ASSUME TypeOK, Phases, InOrder, PointerStaysGood, Next
  PROVE  LocksOK'
<1>0. /\ PlacesOK /\ LocksOK /\ Live \subseteq Slot
      /\ target \in Slot \cup {NoSlot}
  BY LiveType DEF TypeOK, UpdaterOK
<1>1. CASE MainStep \/ Stop
  <2>1. UNCHANGED <<managerMutex, sessionMutex, target, packet>>
    BY <1>1, MainFrame DEF updaterVars, receiverVars
  <2>2. Live' \subseteq Live
    BY <1>1, MainFrame DEF DestroyManager, Live, ToSet
  <2>3. /\ Create => at["updater"] = "not added"
        /\ Listen => at["receiver"] = "not added"
    BY DEF Create, Listen, Phases, Unstarted
  <2> QED
    BY <1>0, <1>1, <2>1, <2>2, <2>3, MainLeaves DEF LocksOK
<1>2. CASE TimePasses \/ \E w \in Worker : WorkerStep(w)
  BY <1>0, <1>2, WorkerLeaves DEF updaterVars, receiverVars, LocksOK, Live
<1>3. CASE UpdaterStep
  <2>0. at'["receiver"] = at["receiver"] /\ UNCHANGED <<sessions, packet>>
    BY <1>0, <1>3, UpdaterLeaves DEF UpdaterStep, UpdaterCheck, UpdaterLock,
         UpdaterLeave, UpdaterOverruns, UpdaterVisit, UpdaterEnter,
         UpdaterTimesOut, UpdaterSends, UpdaterMisuses, CloseLocked,
         receiverVars, worldVars, listVars
  <2>1. CASE UpdaterCheck
    <3>1. at'["updater"] \in {"ended", "lock"}
      BY <1>0, <2>1, UpdaterMoves DEF UpdaterCheck, UpdaterPlaces
    <3> QED
      BY <1>0, <2>0, <2>1, <3>1 DEF UpdaterCheck, LocksOK, Live, worldVars, listVars,
           sessionVars, updaterVars
  <2>2. CASE UpdaterLock
    <3>1. at'["updater"] = "visit"
      BY <1>0, <2>2, UpdaterMoves DEF UpdaterLock, UpdaterPlaces
    <3> QED
      BY <1>0, <2>0, <2>2, <3>1, NameAssumption DEF UpdaterLock, LocksOK, Live,
           sessionVars, updaterVars, Thread
  <2>3. CASE UpdaterLeave
    <3>1. at'["updater"] = "check"
      BY <1>0, <2>3, UpdaterMoves DEF UpdaterLeave, UpdaterPlaces
    <3> QED
      BY <1>0, <2>0, <2>3, <3>1, NameAssumption DEF UpdaterLeave, Unlock, LocksOK,
           Live, sessionVars, Thread
  <2>4. CASE UpdaterOverruns
    BY <1>0, <2>4 DEF UpdaterOverruns, LocksOK, Live, worldVars, listVars, sessionVars,
         updaterVars, receiverVars
  <2>5. CASE UpdaterVisit
    <3>1. at'["updater"] = "enter"
      BY <1>0, <2>5, UpdaterMoves DEF UpdaterVisit, UpdaterPlaces
    <3> QED
      BY <1>0, <2>0, <2>5, <3>1 DEF UpdaterVisit, LocksOK, Live, worldVars, listVars, sessionVars
  <2>6. CASE UpdaterEnter
    <3>1. at'["updater"] = "update"
      BY <1>0, <2>6, UpdaterMoves DEF UpdaterEnter, UpdaterPlaces
    <3> QED
      BY <1>0, <2>0, <2>6, <3>1, NameAssumption DEF UpdaterEnter, LocksOK, Live,
           worldVars, listVars, updaterVars, Thread
  <2>7. CASE UpdaterTimesOut
    <3>1. at'["updater"] = "lock again"
      BY <1>0, <2>7, UpdaterMoves DEF UpdaterTimesOut, CloseLocked, UpdaterPlaces
    <3> QED
      BY <1>0, <2>0, <2>7, <3>1 DEF UpdaterTimesOut, LocksOK, Live, updaterVars
  <2>8. CASE UpdaterSends
    <3>1. at'["updater"] = "visit"
      BY <1>0, <2>8, UpdaterMoves DEF UpdaterSends, UpdaterPlaces
    <3> QED
      BY <1>0, <2>0, <2>8, <3>1, NameAssumption DEF UpdaterSends, LocksOK, Live,
           worldVars, listVars, Thread
  <2>9. CASE UpdaterMisuses
    <3>1. UNCHANGED at \/ at'["updater"] = "visit"
      BY <1>0, <2>9, UpdaterMoves DEF UpdaterMisuses, UpdaterPlaces
    <3> QED
      BY <1>0, <2>0, <2>9, <3>1 DEF UpdaterMisuses, LocksOK, Live, worldVars, listVars, sessionVars
  <2> QED
    BY <1>3, <2>1, <2>2, <2>3, <2>4, <2>5, <2>6, <2>7, <2>8, <2>9 DEF UpdaterStep
<1>4. CASE ReceiverStep
  <2>0. at'["updater"] = at["updater"] /\ target' = target
    BY <1>0, <1>4, ReceiverLeaves DEF ReceiverStep, ReceiverCheck,
         NothingArrives, RequestArrives, BadRequestArrives, DisconnectArrives,
         PacketArrives, Arrives, ReceiverLock, CreateSession, GetSession,
         CloseSession, ReceiverEnter, ReceivePacket, ReceiverSpins, worldVars, updaterVars
  <2>1. ASSUME UNCHANGED <<managerMutex, sessionMutex>>, Live' \subseteq Live,
               at["receiver"] \notin {"create", "find", "in session", "purge for ever"},
               at'["receiver"] \notin {"create", "find", "in session", "purge for ever"}
        PROVE  LocksOK'
    BY <1>0, <2>0, <2>1 DEF LocksOK
  <2>2. CASE ReceiverCheck \/ NothingArrives
    <3>1. at'["receiver"] \in {"ended", "recvfrom", "check"}
      BY <1>0, <2>2, ReceiverMoves DEF ReceiverCheck, NothingArrives, ReceiverPlaces
    <3>2. Live' = Live /\ UNCHANGED <<managerMutex, sessionMutex>>
      BY <2>2 DEF ReceiverCheck, NothingArrives, worldVars, listVars, sessionVars, Live
    <3> QED
      BY <2>1, <2>2, <3>1, <3>2 DEF ReceiverCheck, NothingArrives
  <2>3. ASSUME NEW errand, NEW place \in {"lock", "check", "failed"}, Arrives(errand, place)
        PROVE  LocksOK'
    <3>1. at'["receiver"] = place
      BY <1>0, <2>3, ReceiverMoves DEF Arrives, ReceiverPlaces
    <3>2. Live' = Live /\ UNCHANGED <<managerMutex, sessionMutex>>
      BY <2>3 DEF Arrives, worldVars, listVars, sessionVars, Live
    <3> QED
      BY <2>1, <2>3, <3>1, <3>2 DEF Arrives
  <2>4. CASE ReceiverLock
    <3>1. at'["receiver"] \in {"create", "find"}
      BY <1>0, <2>4, ReceiverMoves DEF ReceiverLock, ReceiverPlaces
    <3>2. UNCHANGED <<sessions, sessionMutex, packet>>
      BY <2>4 DEF ReceiverLock, sessionVars, receiverVars
    <3> QED
      BY <1>0, <2>0, <2>4, <3>1, <3>2, NameAssumption DEF ReceiverLock, LocksOK,
           Live, Thread
  <2>5. CASE CreateSession
    <3>1. PICK s \in Slot \ Live :
            /\ sessions' = Append(sessions, s)
            /\ sessionMutex' = [sessionMutex EXCEPT ![s] = Nobody]
      BY <2>5 DEF CreateSession, PutLast
    <3>2. Live' = Live \cup {s}
      BY <3>1, SetOfAppend DEF Live, TypeOK, ListOK
    <3>3. at'["receiver"] = "check"
      BY <1>0, <2>5, ReceiverMoves DEF CreateSession, ReceiverPlaces
    <3>4. at["updater"] \notin {"visit", "enter", "update", "lock again"}
      BY <1>0, <2>5 DEF CreateSession, LocksOK
    <3>5. managerMutex' = Nobody
      BY <2>5 DEF CreateSession
    <3>6. /\ sessionMutex' \in [Slot -> {"updater", "receiver", Nobody}]
          /\ \A p \in Live' : sessionMutex'[p] = Nobody
      <4>1. at["receiver"] = "create"
        BY <2>5 DEF CreateSession
      <4>2. \A p \in Live : sessionMutex[p] = Nobody
        BY <1>0, <3>4, <4>1 DEF LocksOK
      <4>3. sessionMutex \in [Slot -> {"updater", "receiver", Nobody}]
        BY <1>0 DEF LocksOK
      <4> QED
        BY <1>0, <3>1, <3>2, <4>2, <4>3
    <3> QED
      BY <1>0, <2>0, <3>3, <3>4, <3>5, <3>6, NameAssumption DEF LocksOK, Thread
  <2>6. CASE GetSession
    <3>1. at'["receiver"] \in {"check", "close", "receive"}
      BY <1>0, <2>6, ReceiverMoves DEF GetSession, InOrder, ReceiverPlaces
    <3>2. /\ UNCHANGED <<sessions, sessionMutex>>
          /\ managerMutex' = Nobody /\ at["receiver"] = "find"
      BY <2>6 DEF GetSession, sessionVars
    <3> QED
      BY <1>0, <2>0, <3>1, <3>2, NameAssumption DEF LocksOK, Live, Thread
  <2>7. CASE CloseSession
    <3>1. at'["receiver"] = "check"
      BY <1>0, <2>7, ReceiverMoves DEF CloseSession, ReceiverPlaces
    <3>2. Live' \subseteq Live
      BY <2>7, SetOfRemoved DEF CloseSession, Live, TypeOK, ListOK
    <3> QED
      BY <2>1, <2>7, <3>1, <3>2 DEF CloseSession
  <2>8. CASE ReceiverEnter
    <3>1. at'["receiver"] = "in session"
      BY <1>0, <2>8, ReceiverMoves DEF ReceiverEnter, ReceiverPlaces
    <3>2. packet.found \in Slot
      BY <1>0, <2>8 DEF ReceiverEnter, PointerStaysGood
    <3> QED
      BY <1>0, <2>0, <2>8, <3>1, <3>2, NameAssumption DEF ReceiverEnter, LocksOK,
           Live, worldVars, listVars, receiverVars, Thread
  <2>9. CASE ReceivePacket
    <3>1. at'["receiver"] = "check"
      BY <1>0, <2>9, ReceiverMoves DEF ReceivePacket, ReceiverPlaces
    <3>2. packet.found \in Live
      BY <2>9 DEF ReceivePacket, PointerStaysGood
    <3> QED
      BY <1>0, <2>0, <2>9, <3>1, <3>2, NameAssumption DEF ReceivePacket, LocksOK,
           Live, worldVars, listVars, receiverVars, Thread
  <2>10. CASE ReceiverSpins
    <3>1. at'["receiver"] = "purge for ever"
      BY <1>0, <2>10, ReceiverMoves DEF ReceiverSpins, ReceiverPlaces
    <3> QED
      BY <1>0, <2>0, <2>10, <3>1 DEF ReceiverSpins, LocksOK, Live, worldVars, listVars,
           sessionVars, receiverVars
  <2> QED
    BY <1>4, <2>2, <2>3, <2>4, <2>5, <2>6, <2>7, <2>8, <2>9, <2>10
       DEF ReceiverStep, RequestArrives, BadRequestArrives, DisconnectArrives,
           PacketArrives
<1> QED
  BY <1>1, <1>2, <1>3, <1>4 DEF Next

\* What becomes of the manager, and when the history changes.
LEMMA Histories ==
  ASSUME Next
  PROVE  /\ manager' = manager \/ Create \/ DestroyManager
         /\ shifted' = shifted \/ UpdaterLeave \/ CloseSession
<1> USE DEF worldVars, listVars, historyVars
<1>1. CASE MainStep \/ Stop
  BY <1>1 DEF MainStep, Start, CreateFails, Create, Listen, Stop, Shutdown,
       AwaitReceiver, GetThrows, AwaitUpdater, DestroyManager, DropTasks, Exit
<1>2. CASE UpdaterStep
  BY <1>2 DEF UpdaterStep, UpdaterCheck, UpdaterLock, UpdaterLeave,
       UpdaterOverruns, UpdaterVisit, UpdaterEnter, UpdaterTimesOut,
       UpdaterSends, UpdaterMisuses
<1>3. CASE ReceiverStep
  BY <1>3 DEF ReceiverStep, ReceiverCheck, NothingArrives, RequestArrives,
       BadRequestArrives, DisconnectArrives, PacketArrives, Arrives,
       ReceiverLock, CreateSession, GetSession, CloseSession, ReceiverEnter,
       ReceivePacket, ReceiverSpins
<1>4. CASE TimePasses \/ \E w \in Worker : WorkerStep(w)
  BY <1>4 DEF TimePasses, WorkerStep, WorkerTakes, WorkerConnects,
       WorkerMisuses, WorkerReturns
<1> QED
  BY <1>1, <1>2, <1>3, <1>4 DEF Next

LEMMA TypeStep ==
  ASSUME IInv, Next
  PROVE  TypeOK'
<1> USE DEF IInv
<1>1. server' \in {"STOPPED", "RUNNING", "STARTED", "STOPPING"}
  <2>1. server' \in {server, "STOPPED", "RUNNING", "STARTED", "STOPPING"}
    BY DEF Next, MainStep, Start, CreateFails, Create, Listen, Stop, Shutdown,
       AwaitReceiver, GetThrows, AwaitUpdater, DestroyManager, DropTasks, Exit,
       UpdaterStep, UpdaterCheck, UpdaterLock, UpdaterLeave, UpdaterOverruns,
       UpdaterVisit, UpdaterEnter, UpdaterTimesOut, UpdaterSends,
       UpdaterMisuses, ReceiverStep, ReceiverCheck, NothingArrives,
       RequestArrives, BadRequestArrives, DisconnectArrives, PacketArrives,
       Arrives, ReceiverLock, CreateSession, GetSession, CloseSession,
       ReceiverEnter, ReceivePacket, ReceiverSpins, TimePasses, WorkerStep,
       WorkerTakes, WorkerConnects, WorkerMisuses, WorkerReturns
  <2> QED
    BY <2>1 DEF TypeOK
<1>2. process' \in {"running", "exited", "terminated", "crashed"}
  <2>1. process' \in {process, "exited", "terminated", "crashed"}
    BY DEF Next, MainStep, Start, CreateFails, Create, Listen, Stop, Shutdown,
       AwaitReceiver, GetThrows, AwaitUpdater, DestroyManager, DropTasks, Exit,
       UpdaterStep, UpdaterCheck, UpdaterLock, UpdaterLeave, UpdaterOverruns,
       UpdaterVisit, UpdaterEnter, UpdaterTimesOut, UpdaterSends,
       UpdaterMisuses, ReceiverStep, ReceiverCheck, NothingArrives,
       RequestArrives, BadRequestArrives, DisconnectArrives, PacketArrives,
       Arrives, ReceiverLock, CreateSession, GetSession, CloseSession,
       ReceiverEnter, ReceivePacket, ReceiverSpins, TimePasses, WorkerStep,
       WorkerTakes, WorkerConnects, WorkerMisuses, WorkerReturns
  <2> QED
    BY <2>1 DEF TypeOK
<1>3. manager' \in {"none", "live", "destroyed"} /\ shifted' \in BOOLEAN
  BY Histories DEF TypeOK, Create, DestroyManager, UpdaterLeave, CloseSession
<1> QED
  BY <1>1, <1>2, <1>3, PlacesStep, ListStep, LocksStep, UpdaterTypeStep,
     ReceiverTypeStep, PoolTypeStep DEF TypeOK

-----------------------------------------------------------------------------
(* The order of start and shutdown *)

\* A loop that is not running takes no step, and no loop touches the manager.
LEMMA LoopSteps ==
  /\ UpdaterStep => /\ at["updater"] \notin {"not added", "ended", "lock again"}
                    /\ manager' = manager
  /\ ReceiverStep => /\ at["receiver"] \notin {"not added", "ended", "failed"}
                     /\ manager' = manager
<1> USE DEF worldVars, listVars
<1>1. ASSUME UpdaterStep
      PROVE  at["updater"] \notin {"not added", "ended", "lock again"} /\ manager' = manager
  BY <1>1 DEF UpdaterStep, UpdaterCheck, UpdaterLock, UpdaterLeave,
       UpdaterOverruns, UpdaterVisit, UpdaterEnter, UpdaterTimesOut,
       UpdaterSends, UpdaterMisuses
<1>2. ASSUME ReceiverStep
      PROVE  at["receiver"] \notin {"not added", "ended", "failed"} /\ manager' = manager
  BY <1>2 DEF ReceiverStep, ReceiverCheck, NothingArrives, RequestArrives,
       BadRequestArrives, DisconnectArrives, PacketArrives, Arrives,
       ReceiverLock, CreateSession, GetSession, CloseSession, ReceiverEnter,
       ReceivePacket, ReceiverSpins
<1> QED
  BY <1>1, <1>2

LEMMA PhasesStep ==
  ASSUME PlacesOK, InOrder, Phases, Next
  PROVE  Phases'
<1>1. CASE Create
  <2>1. /\ at["main"] = "create" /\ manager' = "live"
        /\ at' = [at EXCEPT !["main"] = "listen", !["updater"] = "check"]
    BY <1>1 DEF Create
  <2>2. at'["main"] = "listen" /\ at'["receiver"] = at["receiver"]
    BY <2>1 DEF PlacesOK, Thread
  <2> QED
    BY <2>1, <2>2 DEF Phases, Unstarted
<1>2. CASE Listen
  <2>1. /\ at["main"] = "listen" /\ manager' = manager
        /\ at' = [at EXCEPT !["main"] = "console", !["receiver"] = "check"]
    BY <1>2 DEF Listen, worldVars, listVars
  <2>2. at'["main"] = "console"
    BY <2>1 DEF PlacesOK, Thread
  <2> QED
    BY <2>1, <2>2 DEF Phases
<1>3. CASE DestroyManager
  <2>1. at'["main"] = "return" /\ at["main"] = "destroy"
    BY <1>3, MainMoves DEF DestroyManager, MainPlaces
  <2> QED
    BY <1>3, <2>1, MainLeaves DEF MainStep, Create, Listen, Phases
<1>4. CASE GetThrows
  BY <1>4 DEF GetThrows, Phases, Unstarted, worldVars, listVars
<1>5. ASSUME NEW p \in MainPlaces, Goto("main", p), manager' = manager,
             \/ <<at["main"], p>> \in
                  {<<"start", "create">>, <<"create", "shutdown">>,
                   <<"console", "shutdown">>, <<"shutdown", "await receiver">>,
                   <<"return", "join">>}
             \/ <<at["main"], p>> = <<"await receiver", "await updater">>
                /\ at["receiver"] = "ended"
             \/ <<at["main"], p>> = <<"await updater", "destroy">>
                /\ at["updater"] = "ended"
             \/ at["main"] = "join" /\ p = "join"
      PROVE  Phases'
  BY <1>5, MainMoves DEF Phases, Unstarted
<1>6. CASE Start \/ CreateFails \/ Stop \/ Shutdown \/ AwaitReceiver
           \/ AwaitUpdater \/ DropTasks
  <2>1. PICK p \in MainPlaces : Goto("main", p)
             /\ \/ <<at["main"], p>> \in
                     {<<"start", "create">>, <<"create", "shutdown">>,
                      <<"console", "shutdown">>, <<"shutdown", "await receiver">>,
                      <<"return", "join">>}
                \/ <<at["main"], p>> = <<"await receiver", "await updater">>
                   /\ at["receiver"] = "ended"
                \/ <<at["main"], p>> = <<"await updater", "destroy">>
                   /\ at["updater"] = "ended"
    BY <1>6 DEF Start, CreateFails, Stop, Shutdown, AwaitReceiver,
         AwaitUpdater, DropTasks, Returned, MainPlaces
  <2>2. manager' = manager
    BY <1>6 DEF Start, CreateFails, Stop, Shutdown, AwaitReceiver,
         AwaitUpdater, DropTasks, worldVars, listVars
  <2> QED
    BY <1>5, <2>1, <2>2
<1>7. CASE Exit
  BY <1>7 DEF Exit, Phases, Unstarted, worldVars, listVars
<1>8. CASE UpdaterStep
  BY <1>8, LoopSteps, UpdaterLeaves DEF Phases, Unstarted
<1>9. CASE ReceiverStep
  BY <1>9, LoopSteps, ReceiverLeaves DEF Phases, Unstarted
<1>10. CASE TimePasses \/ \E w \in Worker : WorkerStep(w)
  BY <1>10, WorkerLeaves DEF Phases, Unstarted
<1> QED
  BY <1>1, <1>2, <1>3, <1>4, <1>6, <1>7, <1>8, <1>9, <1>10 DEF Next, MainStep

LEMMA InOrderStep ==
  ASSUME TypeOK, InOrder, Phases, Next
  PROVE  InOrder'
<1>0. PlacesOK
  BY DEF TypeOK
<1>1. CASE MainStep \/ Stop
  <2>1. UNCHANGED <<index, packet>>
    BY <1>1, MainFrame DEF updaterVars, receiverVars
  <2>2. Create => at["updater"] = "not added"
    BY DEF Create, Phases, Unstarted
  <2> QED
    BY <1>0, <1>1, <2>1, <2>2, MainLeaves DEF InOrder
<1>2. CASE TimePasses \/ \E w \in Worker : WorkerStep(w)
  BY <1>2, WorkerLeaves DEF updaterVars, receiverVars, InOrder
<1>3. CASE UpdaterStep
  <2>1. at'["receiver"] = at["receiver"] /\ UNCHANGED packet
    BY <1>0, <1>3, UpdaterLeaves DEF UpdaterStep, UpdaterCheck, UpdaterLock,
         UpdaterLeave, UpdaterOverruns, UpdaterVisit, UpdaterEnter,
         UpdaterTimesOut, UpdaterSends, UpdaterMisuses, receiverVars, worldVars
  <2>2. CASE UpdaterCheck
    BY <2>1, <2>2 DEF UpdaterCheck, worldVars, updaterVars, InOrder
  <2>3. CASE UpdaterLeave
    BY <2>1, <2>3 DEF UpdaterLeave, Begun, InOrder
  <2>4. CASE UpdaterOverruns
    BY <2>1, <2>4 DEF UpdaterOverruns, updaterVars, InOrder
  <2>5. ASSUME NEW p \in {"visit", "enter", "update", "lock again"}, Goto("updater", p)
        PROVE  InOrder'
    <3>1. p \in UpdaterPlaces
      BY DEF UpdaterPlaces
    <3>2. at'["updater"] = p
      BY <1>0, <2>5, <3>1, UpdaterMoves
    <3> QED
      BY <2>1, <2>5, <3>2 DEF InOrder
  <2>6. UpdaterLock \/ UpdaterVisit \/ UpdaterEnter \/ UpdaterTimesOut
          \/ UpdaterSends \/ UpdaterMisuses =>
          \/ at["updater"] \in {"enter", "update"} /\ at' = at
          \/ \E p \in {"visit", "enter", "update", "lock again"} : Goto("updater", p)
    BY DEF UpdaterLock, UpdaterVisit, UpdaterEnter, UpdaterTimesOut,
         UpdaterSends, UpdaterMisuses, CloseLocked
  <2>7. ASSUME at["updater"] \in {"enter", "update"}, at' = at
        PROVE  InOrder'
    BY <2>1, <2>7 DEF InOrder
  <2> QED
    BY <1>3, <2>2, <2>3, <2>4, <2>5, <2>6, <2>7 DEF UpdaterStep
<1>4. CASE ReceiverStep
  <2>1. at'["updater"] = at["updater"] /\ index' = index
    BY <1>0, <1>4, ReceiverLeaves DEF ReceiverStep, ReceiverCheck,
         NothingArrives, RequestArrives, BadRequestArrives, DisconnectArrives,
         PacketArrives, Arrives, ReceiverLock, CreateSession, GetSession,
         CloseSession, ReceiverEnter, ReceivePacket, ReceiverSpins, worldVars,
         updaterVars
  <2>2. ASSUME NEW p \in ReceiverPlaces \ {"lock", "find"}, Goto("receiver", p)
        PROVE  InOrder'
    BY <1>0, <2>1, <2>2, ReceiverMoves DEF InOrder
  <2>3. CASE ReceiverLock
    <3>1. packet' = packet
      BY <2>3 DEF ReceiverLock, receiverVars
    <3>2. CASE packet.errand = "create"
      BY <2>2, <2>3, <3>2 DEF ReceiverLock, ReceiverPlaces
    <3>3. CASE packet.errand # "create"
      <4>1. at'["receiver"] = "find" /\ packet.errand \in {"close", "receive"}
        BY <1>0, <2>3, <3>3, ReceiverMoves DEF ReceiverLock, ReceiverPlaces, InOrder
      <4> QED
        BY <2>1, <3>1, <4>1 DEF InOrder
    <3> QED
      BY <3>2, <3>3
  <2>4. ASSUME NEW errand \in {"create", "close", "receive"}, Arrives(errand, "lock")
        PROVE  InOrder'
    <3>1. at'["receiver"] = "lock"
      BY <1>0, <2>4, ReceiverMoves DEF Arrives, ReceiverPlaces
    <3>2. packet'.errand = errand
      BY <2>4 DEF Arrives
    <3> QED
      BY <2>1, <3>1, <3>2 DEF InOrder
  <2>5. ASSUME NEW place \in {"check", "failed"}, Arrives("none", place)
        PROVE  InOrder'
    BY <2>2, <2>5 DEF Arrives, ReceiverPlaces
  <2>6. CASE ReceiverCheck \/ NothingArrives \/ CreateSession \/ GetSession
             \/ CloseSession \/ ReceiverEnter \/ ReceivePacket \/ ReceiverSpins
    <3>1. \E p \in ReceiverPlaces \ {"lock", "find"} : Goto("receiver", p)
      BY <2>6 DEF ReceiverCheck, NothingArrives, CreateSession, GetSession,
           CloseSession, ReceiverEnter, ReceivePacket, ReceiverSpins, InOrder,
           ReceiverPlaces
    <3> QED
      BY <2>2, <3>1
  <2> QED
    BY <1>4, <2>3, <2>4, <2>5, <2>6 DEF ReceiverStep, RequestArrives,
       BadRequestArrives, DisconnectArrives, PacketArrives
<1> QED
  BY <1>1, <1>2, <1>3, <1>4 DEF Next

-----------------------------------------------------------------------------
(* The pointers *)

\* Only main and the receiver change the list, and only a new session changes
\* the address of a place.
LEMMA AddressesStay ==
  ASSUME TypeOK, Next
  PROVE  /\ \/ sessions' = sessions
            \/ DestroyManager \/ CreateSession \/ CloseSession
         /\ \/ \A s \in Slot : session'[s].address = session[s].address
            \/ CreateSession
<1>0. session \in [Slot -> SessionType]
  BY DEF TypeOK, ListOK, SessionType
<1>1. CASE UNCHANGED <<sessions, session, idle>>
  BY <1>1
<1>2. CASE DestroyManager \/ TimePasses
  BY <1>2 DEF DestroyManager, TimePasses, listVars
<1>3. CASE UpdaterTimesOut
  <2>1. /\ sessions' = sessions
        /\ session' = [session EXCEPT ![target].state = "DISCONNECTED"]
    BY <1>3 DEF UpdaterTimesOut, CloseLocked
  <2> QED
    BY <1>0, <2>1 DEF SessionType
<1>4. CASE CloseSession \/ ReceiverEnter
  BY <1>4 DEF CloseSession, ReceiverEnter, listVars
<1>5. ASSUME NEW w \in Worker, WorkerConnects(w) \/ WorkerMisuses(w)
      PROVE  /\ sessions' = sessions
             /\ \A s \in Slot : session'[s].address = session[s].address
  <2>1. /\ sessions' = sessions
        /\ session' = session \/ session' = [session EXCEPT ![job[w].slot].state = "CONNECTED"]
    BY <1>5 DEF WorkerConnects, WorkerMisuses, Connected, listVars
  <2> QED
    BY <1>0, <2>1 DEF SessionType
<1> QED
  BY <1>1, <1>2, <1>3, <1>4, <1>5, ListFrame

LEMMA PointerStep ==
  ASSUME TypeOK, Phases, InOrder, PointerStaysGood, Next
  PROVE  PointerStaysGood'
<1>0. PlacesOK /\ sessions \in Seq(Slot) /\ Live \subseteq Slot
  BY LiveType DEF TypeOK, ListOK
<1>1. ASSUME packet' = packet, at'["receiver"] = at["receiver"],
             sessions' = sessions,
             \A s \in Slot : session'[s].address = session[s].address
      PROVE  PointerStaysGood'
  BY <1>0, <1>1 DEF PointerStaysGood, Live
<1>2. CASE MainStep \/ Stop
  <2>1. UNCHANGED <<session, packet>>
    BY <1>2, MainFrame DEF receiverVars
  <2>2. CASE DestroyManager
    <3>1. at["receiver"] = "ended"
      BY <2>2 DEF DestroyManager, Phases
    <3>2. at'["receiver"] = "ended"
      BY <1>0, <2>2, <3>1, MainMoves DEF DestroyManager, MainPlaces
    <3> QED
      BY <3>2 DEF PointerStaysGood
  <2>3. CASE ~DestroyManager
    <3>1. sessions' = sessions
      BY <1>2, <2>3, MainFrame
    <3>2. CASE at'["receiver"] = at["receiver"]
      BY <1>1, <2>1, <3>1, <3>2
    <3>3. CASE at'["receiver"] = "check"
      BY <3>3 DEF PointerStaysGood
    <3> QED
      BY <1>0, <1>2, <3>2, <3>3, MainLeaves
  <2> QED
    BY <2>2, <2>3
<1>3. CASE UpdaterStep
  <2>1. at'["receiver"] = at["receiver"] /\ UNCHANGED packet
    BY <1>0, <1>3, UpdaterLeaves DEF UpdaterStep, UpdaterCheck, UpdaterLock,
         UpdaterLeave, UpdaterOverruns, UpdaterVisit, UpdaterEnter,
         UpdaterTimesOut, UpdaterSends, UpdaterMisuses, receiverVars, worldVars
  <2>2. ~CreateSession /\ ~CloseSession /\ ~DestroyManager
    <3>1. CreateSession \/ CloseSession => at'["receiver"] = "check"
      BY <1>0, ReceiverMoves DEF CreateSession, CloseSession, ReceiverPlaces
    <3>2. CreateSession \/ CloseSession => at["receiver"] \in {"create", "close"}
      BY DEF CreateSession, CloseSession
    <3>3. DestroyManager => at'["main"] = "return" /\ at["main"] = "destroy"
      BY <1>0, MainMoves DEF DestroyManager, MainPlaces
    <3>4. at'["main"] = at["main"]
      BY <1>0, <1>3, UpdaterLeaves
    <3> QED
      BY <2>1, <3>1, <3>2, <3>3, <3>4
  <2> QED
    BY <1>1, <2>1, <2>2, AddressesStay
<1>4. CASE TimePasses \/ \E w \in Worker : WorkerStep(w)
  <2>1. at' = at /\ sessions' = sessions /\ packet' = packet
    BY <1>4, WorkerLeaves DEF receiverVars
  <2>2. ~CreateSession
    BY <1>0, <2>1, ReceiverMoves DEF CreateSession, ReceiverPlaces
  <2> QED
    BY <1>1, <2>1, <2>2, AddressesStay
<1>5. CASE ReceiverStep
  <2>1. ASSUME NEW p \in ReceiverPlaces
                 \ {"close", "receive", "in session", "purge for ever"},
               Goto("receiver", p)
        PROVE  PointerStaysGood'
    BY <1>0, <2>1, ReceiverMoves DEF PointerStaysGood
  <2>2. CASE GetSession
    <3>1. CASE SessionOf(packet.sender) = NoSlot
      BY <2>1, <2>2, <3>1 DEF GetSession, ReceiverPlaces
    <3>2. CASE SessionOf(packet.sender) # NoSlot
      <4>1. PICK k \in 1 .. Len(sessions) :
              IsFirst(packet.sender, k) /\ SessionOf(packet.sender) = sessions[k]
        BY <1>0, <3>2, SessionOfFound
      <4>2. packet' = [packet EXCEPT !.found = sessions[k]]
        BY <2>2, <4>1 DEF GetSession
      <4>3. packet'.found = sessions[k] /\ packet'.sender = packet.sender
        BY <4>2 DEF TypeOK, ReceiverOK
      <4>4. UNCHANGED <<sessions, session>>
        BY <2>2 DEF GetSession, sessionVars
      <4>5. sessions[k] \in Live
        BY <1>0 DEF Live, ToSet
      <4> QED
        BY <4>1, <4>3, <4>4, <4>5 DEF IsFirst, PointerStaysGood, Live
    <3> QED
      BY <3>1, <3>2
  <2>3. CASE ReceiverEnter \/ ReceiverSpins
    <3>1. UNCHANGED <<sessions, session, packet>>
      BY <2>3 DEF ReceiverEnter, ReceiverSpins, worldVars, listVars,
           sessionVars, receiverVars
    <3>2. at["receiver"] \in {"receive", "in session"}
      BY <2>3 DEF ReceiverEnter, ReceiverSpins
    <3> QED
      BY <3>1, <3>2 DEF PointerStaysGood, Live
  <2>4. CASE ReceiverCheck \/ NothingArrives \/ ReceiverLock \/ CreateSession
             \/ CloseSession \/ ReceivePacket
    <3>1. \E p \in ReceiverPlaces \ {"close", "receive", "in session", "purge for ever"} :
            Goto("receiver", p)
      BY <2>4 DEF ReceiverCheck, NothingArrives, ReceiverLock, CreateSession,
           CloseSession, ReceivePacket, ReceiverPlaces
    <3> QED
      BY <2>1, <3>1
  <2>5. ASSUME NEW errand, NEW place \in {"lock", "check", "failed"}, Arrives(errand, place)
        PROVE  PointerStaysGood'
    BY <2>1, <2>5 DEF Arrives, ReceiverPlaces
  <2> QED
    BY <1>5, <2>2, <2>3, <2>4, <2>5 DEF ReceiverStep, RequestArrives,
       BadRequestArrives, DisconnectArrives, PacketArrives
<1> QED
  BY <1>2, <1>3, <1>4, <1>5 DEF Next

-----------------------------------------------------------------------------
(* The round of the updater *)

\* While the updater goes its round, only a DISCONNECT changes the list.
LEMMA RoundStep ==
  ASSUME TypeOK, Phases, InOrder, InRound => Follows, Next
  PROVE  (InRound => Follows)'
<1>0. /\ PlacesOK /\ LocksOK /\ UpdaterOK
      /\ sessions \in Seq(Slot) /\ Len(sessions) \in Nat
      /\ index \in Nat \ {0} /\ shifted \in BOOLEAN
  <2>1. /\ PlacesOK /\ LocksOK /\ UpdaterOK
        /\ sessions \in Seq(Slot) /\ shifted \in BOOLEAN
    BY DEF TypeOK, ListOK
  <2>2. index \in Nat \ {0}
    BY <2>1 DEF UpdaterOK
  <2>3. Len(sessions) \in Nat
    BY <2>1
  <2> QED
    BY <2>1, <2>2, <2>3
<1>1. ASSUME at'["updater"] = at["updater"],
             UNCHANGED <<sessions, index, target, shifted>>
      PROVE  (InRound => Follows)'
  BY <1>1 DEF InRound, Follows
<1>2. ASSUME at'["updater"] \notin {"visit", "enter", "update", "lock again"}
      PROVE  (InRound => Follows)'
  BY <1>2 DEF InRound
<1>3. CASE MainStep \/ Stop
  <2>1. UNCHANGED <<index, target, shifted>>
    BY <1>3, MainFrame DEF updaterVars
  <2>2. CASE DestroyManager
    <3>1. at["updater"] = "ended"
      BY <2>2 DEF DestroyManager, Phases
    <3>2. at'["updater"] = "ended"
      BY <1>0, <2>2, <3>1, MainMoves DEF DestroyManager, MainPlaces
    <3> QED
      BY <1>2, <3>2
  <2>3. CASE ~DestroyManager
    <3>1. sessions' = sessions
      BY <1>3, <2>3, MainFrame
    <3>2. at'["updater"] \in {at["updater"], "check"}
      BY <1>0, <1>3, MainLeaves
    <3> QED
      BY <1>1, <1>2, <2>1, <3>1, <3>2
  <2> QED
    BY <2>2, <2>3
<1>4. CASE TimePasses \/ \E w \in Worker : WorkerStep(w)
  BY <1>1, <1>4, WorkerLeaves DEF updaterVars
<1>5. CASE ReceiverStep
  <2>1. at'["updater"] = at["updater"] /\ UNCHANGED <<index, target>>
    BY <1>0, <1>5, ReceiverLeaves DEF ReceiverStep, ReceiverCheck,
         NothingArrives, RequestArrives, BadRequestArrives, DisconnectArrives,
         PacketArrives, Arrives, ReceiverLock, CreateSession, GetSession,
         CloseSession, ReceiverEnter, ReceivePacket, ReceiverSpins, worldVars,
         updaterVars
  <2>2. CASE ~InRound
    BY <2>1, <2>2 DEF InRound
  <2>3. CASE InRound /\ CreateSession
    <3>1. managerMutex = "updater" /\ managerMutex = "receiver"
      BY <1>0, <2>3 DEF InRound, CreateSession, LocksOK
    <3> QED
      BY <3>1
  <2>4. CASE InRound /\ CloseSession
    <3>1. managerMutex = "updater" /\ Follows
      BY <1>0, <2>4 DEF InRound, LocksOK
    <3>2. PICK k \in 1 .. Len(sessions) :
            /\ sessions' = RemoveAt(sessions, k)
            /\ shifted' = (shifted \/ Reached(k))
      BY <2>4, <3>1 DEF CloseSession
    <3>3. /\ Len(sessions') = Len(sessions) - 1
          /\ \A i \in 1 .. Len(sessions) - 1 :
               sessions'[i] = IF i < k THEN sessions[i] ELSE sessions[i + 1]
      BY <1>0, <3>2, RemovedPlaces
    <3>4. CASE shifted'
      BY <3>4 DEF Follows
    <3>7. ASSUME ~shifted'
          PROVE  ~shifted /\ ~Reached(k)
      BY <3>2, <3>7
    <3>5. CASE ~shifted' /\ at["updater"] = "visit"
      <4>1. index <= k
        BY <1>0, <3>5, <3>7 DEF Reached
      <4>2. index' <= Len(sessions') + 1
        BY <1>0, <2>1, <3>3, <4>1
      <4> QED
        BY <2>1, <3>5, <4>2 DEF Follows
    <3>6. CASE ~shifted' /\ at["updater"] # "visit"
      <4>1. index < k /\ ~shifted
        BY <1>0, <3>6, <3>7 DEF Reached
      <4>2. sessions[index] = target
        BY <3>1, <3>6, <4>1 DEF Follows
      <4>3. index \in 1 .. Len(sessions) - 1
        BY <1>0, <4>1
      <4>4. index <= Len(sessions') /\ sessions'[index] = target
        BY <1>0, <3>3, <4>1, <4>2, <4>3
      <4> QED
        BY <2>1, <4>4 DEF Follows
    <3> QED
      BY <3>4, <3>5, <3>6
  <2>5. CASE ~CreateSession /\ ~CloseSession
    <3>1. UNCHANGED <<sessions, shifted>>
      BY <1>5, <2>5 DEF ReceiverStep, ReceiverCheck, NothingArrives,
           RequestArrives, BadRequestArrives, DisconnectArrives, PacketArrives,
           Arrives, ReceiverLock, GetSession, ReceiverEnter, ReceivePacket,
           ReceiverSpins, worldVars, listVars, historyVars
    <3> QED
      BY <1>1, <2>1, <3>1
  <2> QED
    BY <2>2, <2>3, <2>4, <2>5
<1>6. CASE UpdaterCheck \/ UpdaterLeave
  <2>1. at'["updater"] \in {"ended", "lock", "check"}
    BY <1>0, <1>6, UpdaterMoves DEF UpdaterCheck, UpdaterLeave, UpdaterPlaces
  <2> QED
    BY <1>2, <2>1
<1>7. CASE UpdaterLock
  <2>1. at'["updater"] = "visit" /\ UNCHANGED <<index, sessions>>
    BY <1>0, <1>7, UpdaterMoves DEF UpdaterLock, UpdaterPlaces, updaterVars
  <2>2. index = 1
    BY <1>7 DEF UpdaterLock, InOrder
  <2> QED
    BY <1>0, <2>1, <2>2 DEF Follows
<1>8. CASE UpdaterOverruns
  BY <1>1, <1>8 DEF UpdaterOverruns, worldVars, listVars, updaterVars, historyVars
<1>9. CASE UpdaterVisit
  <2>1. /\ index <= Len(sessions) /\ target' = sessions[index]
        /\ UNCHANGED <<index, sessions>>
    BY <1>9 DEF UpdaterVisit, listVars
  <2> QED
    BY <2>1 DEF Follows
<1>10. CASE UpdaterEnter \/ UpdaterTimesOut
  <2>1. at["updater"] \in {"enter", "update"}
    BY <1>10 DEF UpdaterEnter, UpdaterTimesOut
  <2>2. UNCHANGED <<sessions, index, target, shifted>>
    BY <1>10 DEF UpdaterEnter, UpdaterTimesOut, CloseLocked, listVars,
         updaterVars, historyVars
  <2> QED
    BY <2>1, <2>2 DEF InRound, Follows
<1>11. CASE UpdaterSends
  <2>1. /\ at["updater"] = "update" /\ index' = index + 1
        /\ UNCHANGED <<sessions, shifted>>
    BY <1>11 DEF UpdaterSends, listVars, historyVars
  <2>2. at'["updater"] = "visit"
    BY <1>0, <1>11, UpdaterMoves DEF UpdaterSends, UpdaterPlaces
  <2>3. shifted \/ index <= Len(sessions)
    BY <2>1 DEF InRound, Follows
  <2> QED
    BY <1>0, <2>1, <2>2, <2>3 DEF Follows
<1>12. CASE UpdaterMisuses
  <2>1. at["updater"] \in {"enter", "update"} /\ target \notin Live /\ shifted' = shifted
    BY <1>12 DEF UpdaterMisuses, historyVars
  <2>2. ASSUME index <= Len(sessions)
        PROVE  sessions[index] \in Live
    BY <1>0, <2>2 DEF Live, ToSet
  <2>3. shifted
    BY <2>1, <2>2 DEF InRound, Follows
  <2> QED
    BY <2>1, <2>3 DEF Follows
<1> QED
  BY <1>3, <1>4, <1>5, <1>6, <1>7, <1>8, <1>9, <1>10, <1>11, <1>12
     DEF Next, UpdaterStep

-----------------------------------------------------------------------------
(* Theorems *)

LEMMA Start_IInv ==
  Init => IInv
<1> SUFFICES ASSUME Init PROVE IInv
  OBVIOUS
<1>0. SomeAddress \in Address
  BY SizeAssumption DEF SomeAddress
<1>1. /\ at = [t \in Thread |-> IF t = "main" THEN "start" ELSE "not added"]
      /\ at["main"] = "start"
      /\ at["updater"] = "not added" /\ at["receiver"] = "not added"
  BY DEF Init, Thread
<1>2. /\ sessions = <<>> /\ managerMutex = Nobody /\ idle = {}
      /\ session = [s \in Slot |-> [address |-> SomeAddress, state |-> "CONNECTING", born |-> 0]]
      /\ sessionMutex = [s \in Slot |-> Nobody]
  BY DEF Init
<1>3. /\ index = 1 /\ target = NoSlot /\ packet = NoPacket /\ arrived = 0
      /\ tasks = <<>> /\ job = [w \in Worker |-> NoJob]
  BY DEF Init
<1>4. TypeOK
  <2>1. PlacesOK
    BY <1>1 DEF PlacesOK, MainPlaces, UpdaterPlaces, ReceiverPlaces
  <2>2. Live = {}
    BY <1>2 DEF Live, ToSet
  <2>3. ListOK
    <3>1. IsInjective(sessions)
      BY <1>2 DEF IsInjective
    <3>2. session \in [Slot -> SessionType]
      BY <1>0, <1>2 DEF SessionType
    <3> QED
      BY <1>2, <3>1, <3>2 DEF ListOK, SessionType
  <2>4. LocksOK
    BY <1>1, <1>2, <2>2, NameAssumption DEF LocksOK, Thread
  <2>5. UpdaterOK
    <3>1. index \in Nat \ {0} /\ target \in Slot \cup {NoSlot}
      BY <1>3
    <3> QED
      BY <1>1, <3>1 DEF UpdaterOK
  <2>6. ReceiverOK
    BY <1>0, <1>3 DEF NoPacket, ReceiverOK
  <2>7. PoolOK
    BY <1>3 DEF PoolOK
  <2> QED
    BY <2>1, <2>3, <2>4, <2>5, <2>6, <2>7 DEF Init, TypeOK
<1>5. Phases /\ InOrder /\ PointerStaysGood
  BY <1>1, <1>3 DEF Init, Phases, Unstarted, InOrder, PointerStaysGood
<1>6. ~InRound
  BY <1>1 DEF InRound
<1> QED
  BY <1>4, <1>5, <1>6 DEF IInv

LEMMA Step_IInv ==
  IInv /\ [Next]_vars => IInv'
<1>1. ASSUME IInv, Next
      PROVE  IInv'
  <2>1. TypeOK' /\ (InRound => Follows)'
    BY <1>1, TypeStep, RoundStep DEF IInv
  <2>2. Phases' /\ InOrder' /\ PointerStaysGood'
    BY <1>1, PhasesStep, InOrderStep, PointerStep DEF IInv, TypeOK
  <2> QED
    BY <2>1, <2>2 DEF IInv
<1>2. ASSUME IInv, UNCHANGED vars
      PROVE  IInv'
  <2>1. UNCHANGED <<server, process, at, manager, sessions, managerMutex,
                    session, sessionMutex, idle, index, target, packet, arrived,
                    tasks, job, shifted>>
    BY <1>2 DEF vars, worldVars, listVars, sessionVars, updaterVars,
       receiverVars, poolVars, historyVars
  <2>2. TypeOK'
    <3>1. TypeOK
      BY <1>2 DEF IInv
    <3>2. PlacesOK' /\ ListOK' /\ LocksOK'
      BY <2>1, <3>1 DEF TypeOK, PlacesOK, ListOK, LocksOK, Live
    <3>3. UpdaterOK' /\ ReceiverOK' /\ PoolOK'
      BY <2>1, <3>1 DEF TypeOK, UpdaterOK, ReceiverOK, PoolOK
    <3>4. shifted' \in BOOLEAN
      BY <2>1, <3>1 DEF TypeOK
    <3> QED
      BY <2>1, <3>1, <3>2, <3>3, <3>4 DEF TypeOK
  <2>3. Phases' /\ InOrder' /\ PointerStaysGood'
    BY <1>2, <2>1 DEF IInv, Phases, Unstarted, InOrder, PointerStaysGood, Live
  <2>4. (InRound => Follows)'
    BY <1>2, <2>1 DEF IInv, InRound, Follows
  <2> QED
    BY <2>2, <2>3, <2>4 DEF IInv
<1> QED
  BY <1>1, <1>2

THEOREM Invariant ==
  Spec => []IInv
BY Start_IInv, Step_IInv, PTL DEF Spec

\* Every variable has its type, and a mutex is locked exactly while a thread
\* is where it holds it: the locks of SessionManager and Session are never
\* held twice, and none is left locked behind a thread that has gone on.
THEOREM TypeCorrect ==
  Spec => []TypeOK
<1>1. IInv => TypeOK
  BY DEF IInv
<1> QED
  BY Invariant, <1>1, PTL

\* The pointer of getSession stays good in Socket::receive, although the
\* manager's mutex is given back before it is used.
THEOREM PointersGood ==
  Spec => []PointerStaysGood
<1>1. IInv => PointerStaysGood
  BY DEF IInv
<1> QED
  BY Invariant, <1>1, PTL

\* However sessions are created, time out and are erased under it, a round of
\* the updater goes along the list: it never passes the end, and the session it
\* is in is the one at its iterator; only a DISCONNECT that erases a session in
\* a place already reached takes that from it.
THEOREM RoundsOnList ==
  Spec => []RoundOnList
<1>1. ASSUME IInv, InRound
      PROVE  manager = "live"
  <2>1. Phases /\ at["main"] \in MainPlaces
    BY <1>1 DEF IInv, TypeOK, PlacesOK
  <2> QED
    BY <1>1, <2>1 DEF InRound, Phases, Unstarted, MainPlaces
<1>2. IInv => RoundOnList
  BY <1>1 DEF IInv, RoundOnList, Follows
<1> QED
  BY Invariant, <1>2, PTL

\* The manager outlives both loops.
THEOREM LoopsServed ==
  Spec => []LoopsOutlived
<1>1. ASSUME IInv
      PROVE  LoopsOutlived
  <2>1. Phases /\ at["main"] \in MainPlaces
    BY <1>1 DEF IInv, TypeOK, PlacesOK
  <2>2. CASE at["main"] \in {"destroy", "return", "join"}
    BY <2>1, <2>2 DEF Phases, LoopsOutlived
  <2>3. CASE Unstarted
    BY <2>3 DEF Unstarted, LoopsOutlived
  <2>4. CASE at["main"] \notin {"destroy", "return", "join"} /\ ~Unstarted
    <3>1. manager = "live"
      BY <2>1, <2>4 DEF Phases, MainPlaces
    <3> QED
      BY <3>1 DEF LoopsOutlived
  <2> QED
    BY <2>2, <2>3, <2>4
<1> QED
  BY Invariant, <1>1, PTL

\* Main waits for the loops, the receiver for the updater, and the updater for
\* nobody who waits for it.
THEOREM NoCircularWait ==
  Spec => []NoCircle
<1>1. ASSUME IInv, at["updater"] # "lock again",
             NEW T \in (SUBSET Thread) \ {{}}
      PROVE  \E t \in T : WaitsFor(t) \cap T = {}
  <2>0. /\ LocksOK /\ UpdaterOK /\ PointerStaysGood /\ Live \subseteq Slot
        /\ at["updater"] \in UpdaterPlaces
    BY <1>1, LiveType DEF IInv, TypeOK, PlacesOK
  <2>1. WaitsFor("receiver") \subseteq {"updater"}
    <3>1. CASE at["receiver"] = "lock"
      BY <2>0, <3>1 DEF WaitsFor, Holder, LocksOK
    <3>2. CASE at["receiver"] = "receive"
      BY <2>0, <3>2 DEF WaitsFor, Holder, LocksOK, PointerStaysGood
    <3>3. CASE at["receiver"] \notin {"lock", "receive"}
      BY <3>3 DEF WaitsFor
    <3> QED
      BY <3>1, <3>2, <3>3
  <2>2. \/ WaitsFor("updater") = {}
        \/ WaitsFor("updater") = {"receiver"} /\ WaitsFor("receiver") = {}
    <3>1. CASE at["updater"] = "lock"
      <4>1. managerMutex \in {"receiver", Nobody}
        BY <2>0, <3>1 DEF LocksOK
      <4>2. managerMutex = "receiver" => at["receiver"] \in {"create", "find"}
        BY <2>0 DEF LocksOK
      <4> QED
        BY <3>1, <4>1, <4>2, NameAssumption DEF WaitsFor, Holder, Thread
    <3>2. CASE at["updater"] = "enter" /\ target \in Live
      <4>1. sessionMutex[target] \in {"receiver", Nobody}
        BY <2>0, <3>2 DEF LocksOK
      <4>2. sessionMutex[target] = "receiver" =>
              at["receiver"] \in {"in session", "purge for ever"}
        BY <2>0, <3>2 DEF LocksOK
      <4> QED
        BY <3>2, <4>1, <4>2, NameAssumption DEF WaitsFor, Holder, Thread
    <3>3. CASE at["updater"] # "lock" /\ ~(at["updater"] = "enter" /\ target \in Live)
      BY <1>1, <3>3 DEF WaitsFor
    <3> QED
      BY <3>1, <3>2, <3>3
  <2>3. WaitsFor("main") \subseteq {"receiver", "updater"}
    BY DEF WaitsFor
  <2>4. T \subseteq {"main", "receiver", "updater"} /\ T # {}
    BY <1>1 DEF Thread
  <2>5. CASE "updater" \in T
    BY <2>1, <2>2, <2>4, <2>5
  <2>6. CASE "updater" \notin T /\ "receiver" \in T
    BY <2>1, <2>6
  <2>7. CASE "updater" \notin T /\ "receiver" \notin T
    <3>1. "main" \in T
      BY <2>4, <2>7
    <3> QED
      BY <2>3, <2>7, <3>1
  <2> QED
    BY <2>5, <2>6, <2>7
<1>2. IInv => NoCircle
  BY <1>1 DEF NoCircle
<1> QED
  BY Invariant, <1>2, PTL

\* What a step does to the first session of an address.
LEMMA RouteStep ==
  ASSUME IInv, Next, NEW a,
         SessionOf(a) # NoSlot, SessionOf(a) \in ToSet(sessions')
  PROVE  SessionOf(a)' = SessionOf(a)
<1>0. /\ TypeOK /\ Live \subseteq Slot
      /\ sessions \in Seq(Slot) /\ IsInjective(sessions)
      /\ sessions' \in Seq(Slot)
  BY LiveType, TypeStep DEF IInv, TypeOK, ListOK
<1>1. PICK k \in 1 .. Len(sessions) :
        FirstIn(sessions, session, a, k) /\ SessionOf(a) = sessions[k]
  BY <1>0, SessionOfFound DEF IsFirst, FirstIn
<1>2. SessionOf(a)' = SessionIn(sessions', session', a)
  BY DEF SessionOf, SessionIn
<1>3. ASSUME NEW n, FirstIn(sessions', session', a, n), sessions'[n] = sessions[k]
      PROVE  SessionOf(a)' = SessionOf(a)
  BY <1>0, <1>1, <1>2, <1>3, SessionInFirst
<1>4. ~DestroyManager
  BY DEF DestroyManager, ToSet
<1>5. CASE CreateSession
  <2>1. PICK s \in Slot \ Live :
          /\ sessions' = Append(sessions, s)
          /\ session' = [session EXCEPT ![s] =
               [address |-> packet.sender, state |-> "CONNECTING", born |-> @.born + 1]]
    BY <1>5 DEF CreateSession, PutLast
  <2>2. \A j \in 1 .. Len(sessions) : sessions[j] \in Live
    BY <1>0 DEF Live, ToSet
  <2>3. session \in [Slot -> SessionType]
    BY <1>0 DEF TypeOK, ListOK, SessionType
  <2>4. \A j \in 1 .. Len(sessions) : session'[sessions[j]].address = session[sessions[j]].address
    BY <1>0, <2>1, <2>2, <2>3
  <2>5. FirstIn(sessions', session', a, k) /\ sessions'[k] = sessions[k]
    <3>1. s \in Slot /\ FirstIn(sessions, session, a, k)
      BY <1>1
    <3> DEFINE g == session'
    <3>2. \A j \in 1 .. Len(sessions) : g[sessions[j]].address = session[sessions[j]].address
      BY <2>4
    <3> HIDE DEF g
    <3>3. FirstIn(Append(sessions, s), g, a, k) /\ Append(sessions, s)[k] = sessions[k]
      <4>1. sessions \in Seq(Slot)
        BY <1>0
      <4> QED
        BY <3>1, <3>2, <4>1, FirstAfterAppend
    <3> QED
      BY <2>1, <3>3 DEF g
  <2> QED
    BY <1>3, <2>5
<1>6. CASE CloseSession
  <2>1. PICK i \in 1 .. Len(sessions) : sessions' = RemoveAt(sessions, i)
    BY <1>6 DEF CloseSession
  <2>2. session' = session
    BY <1>6 DEF CloseSession
  <2>3. i # k
    BY <1>0, <1>1, <2>1, SetOfRemoved
  <2>4. \E n \in 1 .. Len(sessions) - 1 :
          FirstIn(sessions', session', a, n) /\ sessions'[n] = sessions[k]
    BY <1>0, <1>1, <2>1, <2>2, <2>3, FirstAfterRemove
  <2> QED
    BY <1>3, <2>4
<1>7. CASE ~CreateSession /\ ~CloseSession
  <2>1. sessions' = sessions /\ \A s \in Slot : session'[s].address = session[s].address
    BY <1>0, <1>4, <1>7, AddressesStay
  <2>2. FirstIn(sessions', session', a, k)
    BY <1>0, <1>1, <2>1 DEF FirstIn
  <2> QED
    BY <1>1, <1>3, <2>1, <2>2
<1> QED
  BY <1>5, <1>6, <1>7

\* The packets of an address go to the same session for as long as it lives.
THEOREM RouteKept ==
  Spec => RouteStable
<1> DEFINE Kept == \A a \in Address :
             SessionOf(a) # NoSlot /\ SessionOf(a) \in ToSet(sessions')
               => SessionOf(a)' = SessionOf(a)
<1>1. ASSUME IInv, Next
      PROVE  Kept
  BY <1>1, RouteStep
<1> QED
  BY Invariant, <1>1, PTL DEF Spec, RouteStable
=============================================================================
