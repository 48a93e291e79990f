------------------------------ MODULE TaskPool ------------------------------
(***************************************************************************)
(* What ThreadManager promises its callers: a task that is added waits in  *)
(* a queue, is started once and in its turn by one of a number of threads, *)
(* and its future becomes ready; unless the pool is closed first, which    *)
(* breaks the promises of the tasks that still wait.                       *)
(***************************************************************************)
EXTENDS Naturals, Sequences, FiniteSets

CONSTANTS Task, ThreadCount

VARIABLES
  queue,     \* the tasks that wait, oldest first
  running, ready, broken,
  open

vars == <<queue, running, ready, broken, open>>

Waiting == {queue[k] : k \in 1 .. Len(queue)}

Known == Waiting \cup running \cup ready \cup broken

Init ==
  /\ queue = <<>>
  /\ running = {} /\ ready = {} /\ broken = {}
  /\ open = TRUE

Add(t) ==
  /\ open
  /\ t \notin Known
  /\ queue' = Append(queue, t)
  /\ UNCHANGED <<running, ready, broken, open>>

Start ==
  /\ queue # <<>>
  /\ Cardinality(running) < ThreadCount
  /\ queue' = Tail(queue)
  /\ running' = running \cup {Head(queue)}
  /\ UNCHANGED <<ready, broken, open>>

Finish(t) ==
  /\ t \in running
  /\ running' = running \ {t}
  /\ ready' = ready \cup {t}
  /\ UNCHANGED <<queue, broken, open>>

Close ==
  /\ open
  /\ open' = FALSE
  /\ queue' = <<>>
  /\ broken' = broken \cup Waiting
  /\ UNCHANGED <<running, ready>>

Next ==
  \/ \E t \in Task : Add(t) \/ Finish(t)
  \/ Start
  \/ Close

Spec == Init /\ [][Next]_vars
=============================================================================
