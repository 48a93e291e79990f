------------------------- MODULE ThreadManagerProofs -------------------------
(***************************************************************************)
(* Proofs about ThreadManager: types, that no wakeup is lost, and that it  *)
(* implements TaskPool, for any number of threads and any tasks.           *)
(***************************************************************************)
EXTENDS ThreadManager, FiniteSetTheorems, SequenceTheorems, TLAPS

-----------------------------------------------------------------------------
(* The inductive invariant *)

\* How far Main is: it joins a thread only if one is left, the destructor has
\* cleared enabled before it has the mutex, and the long tasks have returned
\* before it begins.
MainInv ==
  /\ mainPc = "join" => joined < ThreadCount
  /\ mainPc \in {"clear", "notify", "join", "ended"} => ~enabled
  /\ mainPc \notin {"run", "await"} => \A t \in LongTask : future[t] = "ready"

\* A thread that goes to wait holds the mutex, so nothing has been added since
\* it looked.
DozeInv == \A w \in Thread : pc[w] = "doze" => taskPool = <<>>

\* A task that waits or runs does so in one place, and its future is pending.
TaskInv ==
  /\ \A j, k \in 1 .. Len(taskPool) : taskPool[j] = taskPool[k] => j = k
  /\ \A k \in 1 .. Len(taskPool) : future[taskPool[k]] = "pending"
  /\ \A w \in Thread : func[w] # NoTask => future[func[w]] = "pending"
  /\ \A w \in Thread : \A k \in 1 .. Len(taskPool) : func[w] # taskPool[k]
  /\ \A v, w \in Thread : func[v] = func[w] /\ func[v] # NoTask => v = w

SafeInv == TypeOK /\ MainInv /\ DozeInv

IInv == SafeInv /\ NoLostWakeup /\ TaskInv

\* Threads are numbered from 1, so 0 is none of them; there are finitely many.
LEMMA Threads == 
  /\ 0 \notin Thread /\ ThreadCount \in Nat \ {0}
  /\ IsFiniteSet(Thread) /\ Cardinality(Thread) = ThreadCount
<1>1. IsFiniteSet(1 .. ThreadCount) /\ Cardinality(1 .. ThreadCount) = ThreadCount
  BY PoolAssumption, FS_Interval
<1> QED
  BY <1>1, PoolAssumption DEF Thread

LEMMA Start_SafeInv == Init => SafeInv
<1> SUFFICES ASSUME Init PROVE SafeInv
  OBVIOUS
<1>1. taskPool \in Seq(Task) /\ started \in Seq(Task) /\ joined \in 0 .. ThreadCount
  BY Threads DEF Init
<1>2. pc \in [Thread -> Places] /\ func \in [Thread -> Task \cup {NoTask}]
  BY DEF Init, Places
<1>3. TypeOK
  BY <1>1, <1>2, Threads DEF Init, TypeOK
<1> QED
  BY <1>3 DEF Init, SafeInv, MainInv, DozeInv

-----------------------------------------------------------------------------
(* Types, the place of Main, and what is known of a thread that dozes *)

\* One task comes in, for a thread that waits, if any does.
LEMMA AddTask_SafeInv ==
  ASSUME SafeInv, NEW t \in Task, AddTask(t) PROVE SafeInv'
<1> USE DEF SafeInv, TypeOK, AddTask, mainVars
<1>1. taskPool' \in Seq(Task) /\ future' \in [Task -> {"none", "pending", "ready", "broken"}]
  OBVIOUS
<1>2. \A w \in Thread : pc[w] \notin {"predicate", "doze"}
  BY Threads DEF MutexFree
<1>3. /\ pc' \in [Thread -> Places]
      /\ \A w \in Thread : pc'[w] \in {"predicate", "doze"} <=> holder' = w
      /\ waiting' = {w \in Thread : pc'[w] = "wait"}
      /\ \A w \in Thread : pc'[w] = "func" <=> pc[w] = "func"
      /\ \A w \in Thread : pc'[w] # "doze"
  <2>1. CASE waiting = {}
    BY <1>2, <2>1 DEF NotifyOne
  <2>2. ASSUME NEW w \in waiting, waiting' = waiting \ {w}, Goto(w, "lock")
        PROVE  <1>3!:
    BY <1>2, <2>2 DEF Goto, Places
  <2> QED
    BY <2>1, <2>2 DEF NotifyOne
<1>4. MainInv'
  BY PoolAssumption DEF MainInv
<1>5. DozeInv'
  BY <1>3 DEF DozeInv
<1> QED
  BY <1>1, <1>3, <1>4, <1>5

\* A thread goes from one place of run to another.
LEMMA ThreadStep_SafeInv ==
  ASSUME SafeInv, NEW w \in Thread, ThreadStep(w) \/ WakeSpuriously(w) PROVE SafeInv'
<1> USE DEF SafeInv, TypeOK, Goto, Places, mainVars, poolVars
<1>1. CASE Loop(w)
  BY <1>1 DEF Loop, MainInv, DozeInv
<1>2. CASE Lock(w)
  BY <1>2, Threads DEF Lock, MutexFree, MainInv, DozeInv
<1>3. CASE Doze(w)
  BY <1>3, Threads DEF Doze, MainInv, DozeInv
<1>4. CASE Wait(w)
  BY <1>4, Threads DEF Wait, MainInv, DozeInv
<1>5. CASE GoOn(w)
  BY <1>5, Threads DEF GoOn, MainInv, DozeInv
<1>6. CASE Take(w)
  <2>1. Head(taskPool) \in Task /\ taskPool' \in Seq(Task) /\ started' \in Seq(Task)
    BY <1>6 DEF Take, Popped
  <2> QED
    BY <1>6, <2>1, Threads, PoolAssumption DEF Take, MainInv, DozeInv
<1>7. CASE Finish(w)
  BY <1>7, PoolAssumption DEF Finish, MainInv, DozeInv
<1>8. CASE WakeSpuriously(w)
  BY <1>8 DEF WakeSpuriously, MainInv, DozeInv
<1> QED
  BY <1>1, <1>2, <1>3, <1>4, <1>5, <1>6, <1>7, <1>8 DEF ThreadStep

\* What the queue held has its promises broken; nothing that was ready is lost.
LEMMA ClearedFutures ==
  ASSUME SafeInv, TaskInv, Clear
  PROVE  /\ future' \in [Task -> {"none", "pending", "ready", "broken"}]
         /\ \A t \in Task : future[t] # "pending" => future'[t] = future[t]
         /\ \A t \in Task : t \notin ToSet(taskPool) => future'[t] = future[t]
         /\ \A k \in 1 .. Len(taskPool) : future'[taskPool[k]] = "broken"
BY DEF SafeInv, TypeOK, TaskInv, Clear, ToSet

LEMMA MainStep_SafeInv ==
  ASSUME SafeInv, TaskInv, Shutdown \/ AwaitTasks \/ DestructorStep PROVE SafeInv'
<1> USE DEF SafeInv, TypeOK, poolVars, threadVars
<1>1. CASE Shutdown
  BY <1>1 DEF Shutdown, MainInv, DozeInv
<1>2. CASE AwaitTasks
  BY <1>2 DEF AwaitTasks, MainInv, DozeInv
<1>3. CASE Disable
  BY <1>3 DEF Disable, MainInv, DozeInv
<1>4. CASE Clear
  BY <1>4, ClearedFutures, PoolAssumption DEF Clear, MainInv, DozeInv
<1>5. CASE NotifyAll
  BY <1>5 DEF NotifyAll, MainInv, DozeInv, Places
<1>6. CASE Join
  BY <1>6, Threads DEF Join, MainInv, DozeInv
<1>7. CASE Destroyed
  BY <1>7 DEF Destroyed, MainInv, DozeInv
<1> QED
  BY <1>1, <1>2, <1>3, <1>4, <1>5, <1>6, <1>7 DEF DestructorStep

-----------------------------------------------------------------------------
(* No wakeup is lost *)

LEMMA AwakeCounts ==
  /\ IsFiniteSet(Awake) /\ Cardinality(Awake) \in Nat
  /\ \A w : /\ Cardinality(Awake \cup {w}) =
                 IF w \in Awake THEN Cardinality(Awake) ELSE Cardinality(Awake) + 1
            /\ Cardinality(Awake \ {w}) =
                 IF w \in Awake THEN Cardinality(Awake) - 1 ELSE Cardinality(Awake)
<1>1. Awake \in SUBSET Thread
  BY DEF Awake
<1>2. IsFiniteSet(Awake)
  BY <1>1, Threads, FS_Subset
<1> QED
  BY <1>2, FS_CardinalityType, FS_AddElement, FS_RemoveElement

\* A task more, and if a thread waits, a thread more that is on its way.
LEMMA AddTask_NoLostWakeup ==
  ASSUME SafeInv, NoLostWakeup, NEW t \in Task, AddTask(t) PROVE NoLostWakeup'
<1> USE DEF AddTask, mainVars
<1>1. CASE waiting = {}
  BY <1>1 DEF NotifyOne, NoLostWakeup, WorkHasThread, NoneDozesOff
<1>2. ASSUME NEW w \in waiting, waiting' = waiting \ {w}, Goto(w, "lock")
      PROVE  NoLostWakeup'
  <2>1. pc \in [Thread -> Places] /\ w \in Thread /\ pc[w] = "wait"
    BY <1>2 DEF SafeInv, TypeOK
  <2>2. Awake' = Awake \cup {w} /\ w \notin Awake
    BY <1>2, <2>1 DEF Goto, Awake
  <2>3. Cardinality(Awake') = Cardinality(Awake) + 1
    BY <2>2, AwakeCounts
  <2>4. Len(taskPool') = Len(taskPool) + 1 /\ Len(taskPool) \in Nat
    BY DEF SafeInv, TypeOK
  <2>5. WorkHasThread'
    BY <1>2, <2>3, <2>4, AwakeCounts DEF NoLostWakeup, WorkHasThread
  <2>6. NoneDozesOff'
    BY <1>2, <2>1 DEF NoLostWakeup, NoneDozesOff, Goto
  <2> QED
    BY <2>5, <2>6 DEF NoLostWakeup
<1> QED
  BY <1>1, <1>2 DEF NotifyOne

\* A thread that leaves the way to the queue takes a task with it, finds none, or
\* ends because the pool is closed.
LEMMA ThreadStep_NoLostWakeup ==
  ASSUME SafeInv, NoLostWakeup, NEW w \in Thread, ThreadStep(w) \/ WakeSpuriously(w)
  PROVE  NoLostWakeup'
<1> USE DEF Goto, mainVars, poolVars
<1>0. /\ pc \in [Thread -> Places] /\ taskPool \in Seq(Task) /\ Len(taskPool) \in Nat
      /\ waiting = {v \in Thread : pc[v] = "wait"}
  BY DEF SafeInv, TypeOK
<1>1. NoneDozesOff'
  BY <1>0 DEF ThreadStep, WakeSpuriously, Loop, Lock, Doze, Wait, GoOn, Take, Finish,
              SafeInv, MainInv, NoLostWakeup, NoneDozesOff
<1>2. CASE Loop(w)
  <2>1. enabled' => Awake' = Awake /\ UNCHANGED <<enabled, waiting, taskPool>>
    BY <1>0, <1>2 DEF Loop, Awake
  <2> QED
    BY <2>1, <1>1 DEF NoLostWakeup, WorkHasThread
<1>3. CASE Lock(w) \/ GoOn(w)
  <2>1. Awake' = Awake /\ UNCHANGED <<enabled, waiting, taskPool>>
    BY <1>0, <1>3 DEF Lock, GoOn, Awake
  <2> QED
    BY <2>1, <1>1 DEF NoLostWakeup, WorkHasThread
<1>4. CASE Doze(w) \/ Wait(w)
  <2>1. taskPool' = <<>>
    BY <1>4 DEF Doze, Wait, SafeInv, DozeInv
  <2>2. Cardinality(Awake') \in Nat
    <3>1. pc' \in [Thread -> Places] /\ Awake' \subseteq Awake
      BY <1>0, <1>4 DEF Doze, Wait, Awake, Places
    <3> QED
      BY <3>1, AwakeCounts, FS_Subset, FS_CardinalityType
  <2> QED
    BY <2>1, <2>2, <1>1 DEF NoLostWakeup, WorkHasThread
<1>5. CASE Take(w)
  <2>1. Awake' = Awake \ {w} /\ w \in Awake
    BY <1>0, <1>5 DEF Take, Awake
  <2>2. Len(taskPool') = Len(taskPool) - 1
    BY <1>0, <1>5 DEF Take, Popped
  <2>3. UNCHANGED <<enabled, waiting>>
    BY <1>5 DEF Take
  <2> QED
    BY <2>1, <2>2, <2>3, <1>0, <1>1, AwakeCounts DEF NoLostWakeup, WorkHasThread
<1>6. CASE Finish(w) \/ WakeSpuriously(w)
  <2>1. Awake' = Awake \cup {w} /\ w \notin Awake
    BY <1>0, <1>6 DEF Finish, WakeSpuriously, Awake
  <2>2. UNCHANGED <<enabled, taskPool>> /\ waiting' \subseteq waiting
    BY <1>6 DEF Finish, WakeSpuriously
  <2> QED
    BY <2>1, <2>2, <1>0, <1>1, AwakeCounts DEF NoLostWakeup, WorkHasThread
<1> QED
  BY <1>2, <1>3, <1>4, <1>5, <1>6 DEF ThreadStep

\* The destructor gets the mutex, so no thread dozes then, and none will.
LEMMA MainStep_NoLostWakeup ==
  ASSUME SafeInv, NoLostWakeup, Shutdown \/ AwaitTasks \/ DestructorStep
  PROVE  NoLostWakeup'
<1> USE DEF poolVars, threadVars
<1>1. CASE Shutdown \/ AwaitTasks \/ Disable \/ Join \/ Destroyed
  <2>1. Awake' = Awake /\ UNCHANGED <<pc, waiting, taskPool>> /\ (enabled' => enabled)
    BY <1>1 DEF Shutdown, AwaitTasks, Disable, Join, Destroyed, Awake
  <2>2. mainPc' \in {"notify", "join", "ended"} => mainPc \in {"notify", "join", "ended"}
    BY <1>1 DEF Shutdown, AwaitTasks, Disable, Join, Destroyed
  <2> QED
    BY <2>1, <2>2 DEF NoLostWakeup, WorkHasThread, NoneDozesOff
<1>2. CASE Clear
  <2>1. \A w \in Thread : pc[w] # "doze"
    BY <1>2, Threads DEF Clear, MayClear, MutexFree, SafeInv, TypeOK
  <2> QED
    BY <1>2, <2>1 DEF Clear, SafeInv, MainInv, NoLostWakeup, WorkHasThread, NoneDozesOff
<1>3. CASE NotifyAll
  BY <1>3 DEF NotifyAll, SafeInv, TypeOK, NoLostWakeup, WorkHasThread, NoneDozesOff
<1> QED
  BY <1>1, <1>2, <1>3 DEF DestructorStep

-----------------------------------------------------------------------------
(* Each task is in one place *)

LEMMA AddTask_TaskInv ==
  ASSUME SafeInv, TaskInv, NEW t \in Task, AddTask(t) PROVE TaskInv'
<1>1. /\ taskPool \in Seq(Task) /\ func \in [Thread -> Task \cup {NoTask}]
      /\ future \in [Task -> {"none", "pending", "ready", "broken"}]
  BY DEF SafeInv, TypeOK
<1>2. /\ taskPool' = Append(taskPool, t) /\ future[t] = "none"
      /\ future' = [future EXCEPT ![t] = "pending"] /\ func' = func
  BY DEF AddTask
<1>3. /\ Len(taskPool') = Len(taskPool) + 1 /\ taskPool'[Len(taskPool) + 1] = t
      /\ \A k \in 1 .. Len(taskPool) : taskPool'[k] = taskPool[k] /\ taskPool[k] \in Task
      /\ Len(taskPool) \in Nat
  BY <1>1, <1>2
<1>4. \A k \in 1 .. Len(taskPool') : k = Len(taskPool) + 1 \/ k \in 1 .. Len(taskPool)
  BY <1>3
<1>5. /\ \A k \in 1 .. Len(taskPool) : taskPool[k] # t
      /\ \A w \in Thread : func[w] # t
  BY <1>2, PoolAssumption DEF TaskInv
<1> QED
  BY <1>1, <1>2, <1>3, <1>4, <1>5 DEF TaskInv

LEMMA ThreadStep_TaskInv ==
  ASSUME SafeInv, TaskInv, NEW w \in Thread, ThreadStep(w) \/ WakeSpuriously(w)
  PROVE  TaskInv'
<1>1. /\ taskPool \in Seq(Task) /\ func \in [Thread -> Task \cup {NoTask}]
      /\ future \in [Task -> {"none", "pending", "ready", "broken"}]
      /\ Len(taskPool) \in Nat
  BY DEF SafeInv, TypeOK
<1>2. CASE Take(w)
  <2>1. /\ taskPool # <<>> /\ taskPool' = Tail(taskPool) /\ future' = future
        /\ func' = [func EXCEPT ![w] = Head(taskPool)]
    BY <1>2 DEF Take, Popped
  <2>2. /\ Len(taskPool') = Len(taskPool) - 1 /\ Head(taskPool) = taskPool[1]
        /\ \A k \in 1 .. Len(taskPool') :
             taskPool'[k] = taskPool[k + 1] /\ k + 1 \in 1 .. Len(taskPool) /\ k + 1 # 1
        /\ 1 \in 1 .. Len(taskPool) /\ \A k \in 1 .. Len(taskPool) : k \in Int
    BY <1>1, <2>1
  <2>3. \A v \in Thread : func'[v] = IF v = w THEN taskPool[1] ELSE func[v]
    BY <1>1, <2>1, <2>2
  <2>4. \A j, k \in 1 .. Len(taskPool') : taskPool'[j] = taskPool'[k] => j = k
    BY <2>2 DEF TaskInv
  <2>5. \A k \in 1 .. Len(taskPool') : taskPool'[k] # taskPool[1]
    BY <2>2 DEF TaskInv
  <2> QED
    BY <2>1, <2>2, <2>3, <2>4, <2>5 DEF TaskInv
<1>3. CASE Finish(w)
  <2>1. /\ taskPool' = taskPool /\ func[w] # NoTask
        /\ func' = [func EXCEPT ![w] = NoTask]
        /\ future' = [future EXCEPT ![func[w]] = "ready"]
    BY <1>3 DEF Finish, SafeInv, TypeOK
  <2>2. /\ \A v \in Thread : func'[v] = IF v = w THEN NoTask ELSE func[v]
        /\ \A t \in Task : t # func[w] => future'[t] = future[t]
        /\ \A k \in 1 .. Len(taskPool) : taskPool[k] \in Task
    BY <1>1, <2>1
  <2> QED
    BY <1>1, <2>1, <2>2, PoolAssumption DEF TaskInv
<1>4. CASE UNCHANGED <<taskPool, func, future>>
  BY <1>4 DEF TaskInv
<1>5. Take(w) \/ Finish(w) \/ UNCHANGED <<taskPool, func, future>>
  BY DEF ThreadStep, WakeSpuriously, Loop, Lock, Doze, Wait, GoOn, poolVars
<1> QED
  BY <1>2, <1>3, <1>4, <1>5

LEMMA MainStep_TaskInv ==
  ASSUME SafeInv, TaskInv, Shutdown \/ AwaitTasks \/ DestructorStep PROVE TaskInv'
<1>1. CASE Clear
  <2>1. taskPool' = <<>> /\ func' = func
    BY <1>1 DEF Clear, threadVars
  <2>2. /\ \A w \in Thread : func[w] \in Task \cup {NoTask}
        /\ \A w \in Thread : func[w] \notin ToSet(taskPool)
    BY DEF SafeInv, TypeOK, TaskInv, ToSet
  <2>3. \A w \in Thread : func[w] # NoTask => future'[func[w]] = "pending"
    BY <1>1, <2>2, ClearedFutures DEF TaskInv
  <2> QED
    BY <2>1, <2>3 DEF TaskInv
<1>2. CASE UNCHANGED <<taskPool, func, future>>
  BY <1>2 DEF TaskInv
<1>3. Clear \/ UNCHANGED <<taskPool, func, future>>
  BY DEF DestructorStep, Shutdown, AwaitTasks, Disable, NotifyAll, Join, Destroyed,
         poolVars, threadVars
<1> QED
  BY <1>1, <1>2, <1>3

-----------------------------------------------------------------------------
(* The invariant holds *)

LEMMA AddsOnly ==
  \A w \in Thread : AddFromTask(w) => \E t \in Task : AddTask(t)
BY DEF AddFromTask

LEMMA Start_IInv == Init => IInv
<1> SUFFICES ASSUME Init PROVE IInv
  OBVIOUS
<1>1. SafeInv
  BY Start_SafeInv
<1>2. NoLostWakeup
  BY DEF Init, NoLostWakeup, WorkHasThread, NoneDozesOff
<1>3. TaskInv
  BY DEF Init, TaskInv
<1> QED
  BY <1>1, <1>2, <1>3 DEF IInv

LEMMA Step_IInv == IInv /\ [Next]_vars => IInv'
<1> SUFFICES ASSUME IInv, [Next]_vars PROVE IInv'
  OBVIOUS
<1>1. SafeInv /\ NoLostWakeup /\ TaskInv
  BY DEF IInv
<1>2. ASSUME NEW t \in Task, AddTask(t) PROVE IInv'
  BY <1>1, <1>2, AddTask_SafeInv, AddTask_NoLostWakeup, AddTask_TaskInv DEF IInv
<1>3. ASSUME NEW w \in Thread, ThreadStep(w) \/ WakeSpuriously(w) PROVE IInv'
  BY <1>1, <1>3, ThreadStep_SafeInv, ThreadStep_NoLostWakeup, ThreadStep_TaskInv DEF IInv
<1>4. CASE Shutdown \/ AwaitTasks \/ DestructorStep
  BY <1>1, <1>4, MainStep_SafeInv, MainStep_NoLostWakeup, MainStep_TaskInv DEF IInv
<1>5. CASE UNCHANGED vars
  <2>1. SafeInv'
    BY <1>1, <1>5 DEF vars, poolVars, threadVars, mainVars, SafeInv, TypeOK, MainInv, DozeInv
  <2>2. NoLostWakeup' /\ TaskInv'
    BY <1>1, <1>5 DEF vars, poolVars, threadVars, mainVars, NoLostWakeup, WorkHasThread,
                      NoneDozesOff, Awake, TaskInv
  <2> QED
    BY <2>1, <2>2 DEF IInv
<1> QED
  BY <1>2, <1>3, <1>4, <1>5, AddsOnly DEF Next, AddFromMain

LEMMA Always_IInv == Spec => []IInv
BY Start_IInv, Step_IInv, PTL DEF Spec

\* Every variable has its type, and the mutex, the wait set and the tasks that run
\* agree with where the threads are, for any number of threads (run, lines 52-67).
THEOREM TypeCorrect == Spec => []TypeOK
<1>1. IInv => TypeOK
  BY DEF IInv, SafeInv
<1> QED
  BY <1>1, Always_IInv, PTL

\* While a thread waits, every task in the queue has a thread that is on its way to
\* it, and no thread goes to wait once the destructor has had the mutex (addTask's
\* notify_one; run, line 56; lines 16-23).
THEOREM WakeupsKept == Spec => []NoLostWakeup
<1>1. IInv => NoLostWakeup
  BY DEF IInv
<1> QED
  BY <1>1, Always_IInv, PTL

-----------------------------------------------------------------------------
(* ThreadManager implements TaskPool *)

Running == {func[w] : w \in Thread} \ {NoTask}
Ready == {t \in Task : future[t] = "ready"}
Broken == {t \in Task : future[t] = "broken"}
Open == mainPc \notin {"notify", "join", "ended"}

LEMMA Start_Pool == Init => Pool!Init
BY Threads DEF Init, Pool!Init

\* A thread that is not at a task leaves fewer tasks running than there are threads.
LEMMA RunningFewer ==
  ASSUME TypeOK, NEW w \in Thread, func[w] = NoTask
  PROVE  Cardinality(Running) < ThreadCount
<1> DEFINE Busy == {v \in Thread : func[v] # NoTask}
           at == [v \in Busy |-> func[v]]
<1>1. Busy \in SUBSET (Thread \ {w})
  OBVIOUS
<1>2. IsFiniteSet(Thread \ {w}) /\ Cardinality(Thread \ {w}) = ThreadCount - 1
  BY Threads, FS_RemoveElement
<1>3. IsFiniteSet(Busy) /\ Cardinality(Busy) <= ThreadCount - 1
  BY <1>1, <1>2, FS_Subset
<1>4. at \in Surjection(Busy, Running)
  BY DEF Surjection, Running
<1>5. IsFiniteSet(Running) /\ Cardinality(Running) <= Cardinality(Busy)
  BY <1>3, <1>4, FS_Surjection
<1>6. Cardinality(Running) \in Nat /\ Cardinality(Busy) \in Nat
  BY <1>3, <1>5, FS_CardinalityType
<1> QED
  BY <1>3, <1>5, <1>6, Threads

\* What becomes of a task that is not in the queue and does not run can be told from
\* its future.
LEMMA KnownTasks ==
  ASSUME SafeInv, TaskInv
  PROVE  \A t \in Pool!Known : future[t] # "none"
<1>1. \A t \in Pool!Waiting : future[t] = "pending"
  BY DEF Pool!Waiting, TaskInv
<1>2. \A t \in Running : future[t] = "pending"
  BY DEF Running, TaskInv
<1> QED
  BY <1>1, <1>2 DEF Pool!Known, Running

\* addTask is Add: a task is added once, and only while the pool is open.
LEMMA AddTask_Pool ==
  ASSUME SafeInv, TaskInv, Open, NEW t \in Task, AddTask(t) PROVE Pool!Add(t)
<1>1. future[t] = "none" /\ future' = [future EXCEPT ![t] = "pending"]
  BY DEF AddTask
<1>2. t \notin Pool!Known
  BY <1>1, KnownTasks
<1>3. Ready' = Ready /\ Broken' = Broken
  BY <1>1 DEF Ready, Broken, SafeInv, TypeOK
<1>4. Running' = Running /\ Open' = Open
  BY DEF AddTask, mainVars, Running, Open
<1>5. taskPool' = Append(taskPool, t)
  BY DEF AddTask
<1> QED
  BY <1>2, <1>3, <1>4, <1>5 DEF Pool!Add, Running, Ready, Broken, Open

\* Taking a task from the queue is Start.
LEMMA Take_Pool ==
  ASSUME SafeInv, NEW w \in Thread, Take(w) PROVE Pool!Start
<1>1. func[w] = NoTask /\ taskPool # <<>> /\ func \in [Thread -> Task \cup {NoTask}]
  BY DEF SafeInv, TypeOK, Take
<1>2. Cardinality(Running) < ThreadCount
  BY <1>1, RunningFewer DEF SafeInv
<1>3. Head(taskPool) \in Task
  BY <1>1 DEF SafeInv, TypeOK
<1>4. \A v \in Thread : func'[v] = IF v = w THEN Head(taskPool) ELSE func[v]
  BY <1>1 DEF Take
<1>5. Running' = Running \cup {Head(taskPool)}
  BY <1>1, <1>3, <1>4, PoolAssumption DEF Running
<1>6. taskPool' = Tail(taskPool)
  BY DEF Take, Popped
<1>7. Ready' = Ready /\ Broken' = Broken /\ Open' = Open
  BY DEF Take, mainVars, Ready, Broken, Open
<1>8. Pool!Cardinality(Running) = Cardinality(Running)
  BY DEF Pool!Cardinality, Cardinality
<1> QED
  BY <1>1, <1>2, <1>5, <1>6, <1>7, <1>8 DEF Pool!Start, Running, Ready, Broken, Open

\* The end of a task is Finish: no other thread runs the same one.
LEMMA Finish_Pool ==
  ASSUME SafeInv, TaskInv, NEW w \in Thread, Finish(w)
  PROVE  \E t \in Task : Pool!Finish(t)
<1>1. /\ func[w] \in Task /\ func[w] # NoTask /\ func \in [Thread -> Task \cup {NoTask}]
      /\ future \in [Task -> {"none", "pending", "ready", "broken"}]
      /\ future[func[w]] = "pending"
  BY DEF SafeInv, TypeOK, TaskInv, Finish
<1>2. /\ future' = [future EXCEPT ![func[w]] = "ready"]
      /\ func' = [func EXCEPT ![w] = NoTask] /\ taskPool' = taskPool
  BY DEF Finish
<1>3. \A v \in Thread : func'[v] = IF v = w THEN NoTask ELSE func[v]
  BY <1>1, <1>2
<1>4. Running' = Running \ {func[w]} /\ func[w] \in Running
  BY <1>1, <1>3 DEF Running, TaskInv
<1>5. Ready' = Ready \cup {func[w]} /\ Broken' = Broken
  BY <1>1, <1>2 DEF Ready, Broken
<1>6. Open' = Open
  BY DEF Finish, mainVars, Open
<1> SUFFICES ASSUME NEW t \in Task, t = func[w] PROVE Pool!Finish(t)
  BY <1>1
<1> QED
  BY <1>2, <1>4, <1>5, <1>6 DEF Pool!Finish, Running, Ready, Broken, Open

\* The destructor's clear is Close.
LEMMA Clear_Pool ==
  ASSUME SafeInv, TaskInv, Clear PROVE Pool!Close
<1>1. taskPool' = <<>> /\ Running' = Running /\ Open /\ ~Open'
  BY DEF Clear, threadVars, Running, Open
<1>2. /\ taskPool \in Seq(Task)
      /\ future \in [Task -> {"none", "pending", "ready", "broken"}]
  BY DEF SafeInv, TypeOK
<1>3. Ready' = Ready
  BY <1>2, ClearedFutures DEF Ready, ToSet, TaskInv
<1>4. Broken' = Broken \cup Pool!Waiting
  BY <1>2, ClearedFutures DEF Broken, ToSet, Pool!Waiting
<1> QED
  BY <1>1, <1>3, <1>4 DEF Pool!Close, Running, Ready, Broken, Open

LEMMA Step_Pool == IInv /\ [Next]_vars => [Pool!Next]_(Pool!vars)
<1> SUFFICES ASSUME IInv, [Next]_vars PROVE Pool!Next \/ UNCHANGED Pool!vars
  OBVIOUS
<1>0. SafeInv /\ TaskInv
  BY DEF IInv
<1>1. CASE AddFromMain
  BY <1>0, <1>1, AddTask_Pool DEF AddFromMain, Open, Pool!Next
<1>2. ASSUME NEW w \in Thread, AddFromTask(w) PROVE Pool!Next
  <2>1. Open
    BY <1>0, <1>2, PoolAssumption
    DEF AddFromTask, TaskInv, SafeInv, TypeOK, MainInv, Open
  <2> QED
    BY <1>0, <1>2, <2>1, AddTask_Pool DEF AddFromTask, Pool!Next
<1>3. ASSUME NEW w \in Thread, Take(w) PROVE Pool!Next
  BY <1>0, <1>3, Take_Pool DEF Pool!Next
<1>4. ASSUME NEW w \in Thread, Finish(w) PROVE Pool!Next
  BY <1>0, <1>4, Finish_Pool DEF Pool!Next
<1>5. CASE Clear
  BY <1>0, <1>5, Clear_Pool DEF Pool!Next
<1>6. CASE UNCHANGED <<taskPool, func, future, Open>>
  BY <1>6 DEF Pool!vars, Open
<1>7. ASSUME NEW w \in Thread, ThreadStep(w) \/ WakeSpuriously(w)
      PROVE  Take(w) \/ Finish(w) \/ UNCHANGED <<taskPool, func, future, Open>>
  BY <1>7 DEF ThreadStep, WakeSpuriously, Loop, Lock, Doze, Wait, GoOn, Open,
              poolVars, mainVars
<1>8. ASSUME Shutdown \/ AwaitTasks \/ DestructorStep \/ UNCHANGED vars
      PROVE  Clear \/ UNCHANGED <<taskPool, func, future, Open>>
  BY <1>8 DEF DestructorStep, Shutdown, AwaitTasks, Disable, NotifyAll, Join, Destroyed,
              Open, vars, poolVars, threadVars, mainVars
<1> QED
  BY <1>1, <1>2, <1>3, <1>4, <1>5, <1>6, <1>7, <1>8 DEF Next

\* ThreadManager implements TaskPool: tasks are started once, in their turn, by at
\* most ThreadCount threads, their futures become ready, and the destructor breaks
\* the promises of those that wait (ThreadManager.cpp:15-67).
THEOREM ImplementsPool == Spec => PoolSpec
BY Always_IInv, Start_Pool, Step_Pool, PTL DEF Spec, PoolSpec, Pool!Spec
=============================================================================
