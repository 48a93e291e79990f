---------------------------- MODULE ThreadManager ----------------------------
(***************************************************************************)
(* ThreadManager: a queue of tasks under a mutex, a condition variable,    *)
(* and the threads that run the tasks; and the program that uses it as     *)
(* Server does.                                                            *)
(*                                                                         *)
(* Main adds tasks, asks the long ones to stop (Server::shutdown), waits   *)
(* for their futures and destroys the pool when it returns.  Long tasks    *)
(* (Socket::receive, SessionManager::updateSessions) run until they are    *)
(* asked to stop and may add tasks themselves, as receivePacket does.      *)
(*                                                                         *)
(* Whoever needs the mutex for one indivisible change takes it and gives   *)
(* it back in a single step; a pool thread holds it over several, because  *)
(* enabled is written without it in between.                               *)
(***************************************************************************)
EXTENDS Naturals, Sequences, FiniteSets, SequencesExt

CONSTANTS
  Task,         \* the tasks that may be added, each of them once
  LongTask,     \* those that run until they are asked to stop
  NoTask,
  ThreadCount,  \* 4 in the code
  MaxSpurious   \* bound on the wakeups without a notification

Thread == 1 .. ThreadCount

\* Fewer long tasks than threads (2 and 4): a thread is left for the others.
ASSUME PoolAssumption ==
  /\ ThreadCount \in Nat \ {0}
  /\ LongTask \subseteq Task /\ IsFiniteSet(LongTask)
  /\ Cardinality(LongTask) < ThreadCount
  /\ NoTask \notin Task
  /\ MaxSpurious \in Nat

VARIABLES
  enabled, taskPool,
  holder,     \* the pool thread that holds mutex_pool; 0 for none
  waiting,    \* the threads that wait on cv_pool
  pc,         \* where each thread is
  func,       \* the task each thread runs
  mainPc,     \* where Main is
  joined,     \* how many threads the destructor has joined
  isShutdown, \* the long tasks were asked to stop
  future,     \* the future of each task
  spurious,   \* wakeups without a notification so far
  (* history *)
  started  \* tasks in the order they were started

poolVars == <<taskPool, waiting, started, future>>
threadVars == <<holder, pc, func, spurious>>
mainVars == <<enabled, mainPc, joined, isShutdown>>
vars == <<poolVars, threadVars, mainVars>>

Init ==
  /\ enabled = TRUE /\ taskPool = <<>>
  /\ holder = 0 /\ waiting = {}
  /\ pc = [w \in Thread |-> "loop"] /\ func = [w \in Thread |-> NoTask]
  /\ mainPc = "run" /\ joined = 0 /\ isShutdown = FALSE
  /\ future = [t \in Task |-> "none"] /\ spurious = 0
  /\ started = <<>>

\* Faulty variant: the mutex does not exclude anybody.
MutexIgnored == TRUE

MutexFree == holder = 0

Goto(w, place) == pc' = [pc EXCEPT ![w] = place]

-----------------------------------------------------------------------------
(* addTask *)

\* Faulty variant: nobody is notified.
NotifyNobody == UNCHANGED <<waiting, pc>>

\* One of the threads that wait, if any does.
NotifyOne ==
  IF waiting = {}
  THEN UNCHANGED <<waiting, pc>>
  ELSE \E w \in waiting : waiting' = waiting \ {w} /\ Goto(w, "lock")

AddTask(t) ==
  /\ future[t] = "none"
  /\ MutexFree
  /\ taskPool' = Append(taskPool, t)
  /\ NotifyOne
  /\ future' = [future EXCEPT ![t] = "pending"]
  /\ UNCHANGED <<started, holder, func, spurious, mainVars>>

-----------------------------------------------------------------------------
(* run, by thread w *)

\* Line 53.
Loop(w) ==
  /\ pc[w] = "loop"
  /\ Goto(w, IF enabled THEN "lock" ELSE "ended")
  /\ UNCHANGED <<poolVars, holder, func, spurious, mainVars>>

\* Line 54, and the end of a wait.
Lock(w) ==
  /\ pc[w] = "lock"
  /\ MutexFree
  /\ holder' = w
  /\ Goto(w, "predicate")
  /\ UNCHANGED <<poolVars, func, spurious, mainVars>>

\* Line 56, the predicate: nothing to do, so the thread is going to wait.
Doze(w) ==
  /\ pc[w] = "predicate"
  /\ taskPool = <<>> /\ enabled
  /\ Goto(w, "doze")
  /\ UNCHANGED <<poolVars, holder, func, spurious, mainVars>>

\* Line 56: the mutex is given back and the wait begins, as one step.
Wait(w) ==
  /\ pc[w] = "doze"
  /\ waiting' = waiting \cup {w}
  /\ holder' = 0
  /\ Goto(w, "wait")
  /\ UNCHANGED <<taskPool, started, future, func, spurious, mainVars>>

WakeSpuriously(w) ==
  /\ w \in waiting
  /\ spurious < MaxSpurious  \* bound of the model
  /\ spurious' = spurious + 1
  /\ waiting' = waiting \ {w}
  /\ Goto(w, "lock")
  /\ UNCHANGED <<taskPool, started, future, holder, func, mainVars>>

\* Lines 58-59.
GoOn(w) ==
  /\ pc[w] = "predicate"
  /\ taskPool = <<>> /\ ~enabled
  /\ holder' = 0
  /\ Goto(w, "loop")
  /\ UNCHANGED <<poolVars, func, spurious, mainVars>>

\* Faulty variant: the task is copied and not taken out.
Kept == taskPool

Popped == Tail(taskPool)

\* Lines 61-63.
Take(w) ==
  /\ pc[w] = "predicate"
  /\ taskPool # <<>>
  /\ func' = [func EXCEPT ![w] = Head(taskPool)]
  /\ taskPool' = Popped
  /\ started' = Append(started, Head(taskPool))
  /\ holder' = 0
  /\ Goto(w, "func")
  /\ UNCHANGED <<waiting, future, spurious, mainVars>>

\* Line 65: a long task adds one of its own.
AddFromTask(w) ==
  /\ pc[w] = "func" /\ func[w] \in LongTask
  /\ \E t \in Task \ LongTask : AddTask(t)

\* Line 65: the task returns, or throws; the future is ready in either case.
Finish(w) ==
  /\ pc[w] = "func"
  /\ func[w] \in LongTask => isShutdown
  /\ future' = [future EXCEPT ![func[w]] = "ready"]
  /\ func' = [func EXCEPT ![w] = NoTask]
  /\ Goto(w, "loop")
  /\ UNCHANGED <<taskPool, waiting, started, holder, spurious, mainVars>>

ThreadStep(w) ==
  \/ Loop(w) \/ Lock(w) \/ Doze(w) \/ Wait(w) \/ GoOn(w) \/ Take(w) \/ Finish(w)

-----------------------------------------------------------------------------
(* Main: Server, and the destructor of the ThreadManager *)

AddFromMain ==
  /\ mainPc = "run"
  /\ \E t \in Task : AddTask(t)

\* Server::start has added the long tasks before it reads a command.
Shutdown ==
  /\ mainPc = "run"
  /\ \A t \in LongTask : future[t] # "none"
  /\ isShutdown' = TRUE
  /\ mainPc' = "await"
  /\ UNCHANGED <<poolVars, threadVars, enabled, joined>>

\* recvSocket.get() and handleSessions.get()
AwaitTasks ==
  /\ mainPc = "await"
  /\ \A t \in LongTask : future[t] = "ready"
  /\ mainPc' = "destroy"
  /\ UNCHANGED <<poolVars, threadVars, enabled, joined, isShutdown>>

\* Line 16, without the mutex.
Disable ==
  /\ mainPc = "destroy"
  /\ enabled' = FALSE
  /\ mainPc' = "clear"
  /\ UNCHANGED <<poolVars, threadVars, joined, isShutdown>>

\* Faulty variant: the queue is cleared without the mutex.
ClearsAtOnce == TRUE

MayClear == MutexFree

\* Lines 18-20.
Clear ==
  /\ mainPc = "clear"
  /\ MayClear
  /\ taskPool' = <<>>
  /\ future' = [t \in Task |-> IF t \in ToSet(taskPool) THEN "broken" ELSE future[t]]
  /\ mainPc' = "notify"
  /\ UNCHANGED <<waiting, started, threadVars, enabled, joined, isShutdown>>

\* Line 23.
NotifyAll ==
  /\ mainPc = "notify"
  /\ joined < ThreadCount
  /\ waiting' = {}
  /\ pc' = [w \in Thread |-> IF w \in waiting THEN "lock" ELSE pc[w]]
  /\ mainPc' = "join"
  /\ UNCHANGED <<taskPool, started, future, holder, func, spurious,
                 enabled, joined, isShutdown>>

Joinable == pc[joined + 1] = "ended"

\* Line 24.
Join ==
  /\ mainPc = "join"
  /\ Joinable
  /\ joined' = joined + 1
  /\ mainPc' = "notify"
  /\ UNCHANGED <<poolVars, threadVars, enabled, isShutdown>>

\* Lines 27-29.
Destroyed ==
  /\ mainPc = "notify"
  /\ joined = ThreadCount
  /\ mainPc' = "ended"
  /\ UNCHANGED <<poolVars, threadVars, enabled, joined, isShutdown>>

DestructorStep == Disable \/ Clear \/ NotifyAll \/ Join \/ Destroyed

-----------------------------------------------------------------------------
Next ==
  \/ \E w \in Thread : ThreadStep(w) \/ WakeSpuriously(w) \/ AddFromTask(w)
  \/ AddFromMain
  \/ Shutdown
  \/ AwaitTasks
  \/ DestructorStep

Spec == Init /\ [][Next]_vars

\* Every thread is scheduled again and again, and a task that need not run on
\* returns.  Nobody is bound to add a task or to shut the server down.
FairSpec ==
  /\ Spec
  /\ \A w \in Thread : WF_vars(ThreadStep(w))
  /\ WF_vars(AwaitTasks \/ DestructorStep)

-----------------------------------------------------------------------------
(* Properties *)

Places == {"loop", "lock", "predicate", "doze", "wait", "func", "ended"}

\* Every variable has its type, and the mutex, the wait set and the tasks that
\* run agree with where the threads are (run, lines 52-67).
TypeOK ==
  /\ enabled \in BOOLEAN /\ isShutdown \in BOOLEAN
  /\ taskPool \in Seq(Task) /\ started \in Seq(Task)
  /\ holder \in Thread \cup {0}
  /\ pc \in [Thread -> Places]
  /\ \A w \in Thread : pc[w] \in {"predicate", "doze"} <=> holder = w
  /\ waiting = {w \in Thread : pc[w] = "wait"}
  /\ func \in [Thread -> Task \cup {NoTask}]
  /\ \A w \in Thread : pc[w] = "func" <=> func[w] # NoTask
  /\ mainPc \in {"run", "await", "destroy", "clear", "notify", "join", "ended"}
  /\ joined \in 0 .. ThreadCount
  /\ future \in [Task -> {"none", "pending", "ready", "broken"}]
  /\ spurious \in Nat

Awake == {w \in Thread : pc[w] \in {"loop", "lock", "predicate"}}

\* No wakeup is lost to a task: as long as a thread waits, every task in the
\* queue has a thread of its own that is on its way to it (addToQueue's
\* notify_one under the mutex; run, line 56).
WorkHasThread == enabled /\ waiting # {} => Len(taskPool) <= Cardinality(Awake)

\* No wakeup is lost to the destructor: once it has had the mutex, no thread
\* goes to wait because of what it read before (lines 16-23).
NoneDozesOff ==
  mainPc \in {"notify", "join", "ended"} => \A w \in Thread : pc[w] # "doze"

NoLostWakeup == WorkHasThread /\ NoneDozesOff

\* A task that was added is started, unless the pool is destroyed first, even
\* while the long tasks keep their threads (run; Server::start, line 35).
TaskStarts ==
  \A t \in Task :
    future[t] = "pending" ~> (\E k \in 1 .. Len(started) : started[k] = t) \/ ~enabled

\* The server stops once it is told to: the long tasks return, every thread
\* that waits is woken, and the destructor returns (lines 15-29).
Stops == isShutdown ~> mainPc = "ended"

-----------------------------------------------------------------------------
\* ThreadManager keeps the promises of TaskPool.
Pool == INSTANCE TaskPool WITH
  queue <- taskPool,
  running <- {func[w] : w \in Thread} \ {NoTask},
  ready <- {t \in Task : future[t] = "ready"},
  broken <- {t \in Task : future[t] = "broken"},
  open <- mainPc \notin {"notify", "join", "ended"}

PoolSpec == Pool!Spec
=============================================================================
