----------------------------- MODULE ThreadPool -----------------------------
(***************************************************************************)
(* The ThreadPool of code/alimama/util.h: worker threads, a FIFO of tasks, *)
(* one mutex, one condition variable and a stop flag.  doSearch hands its  *)
(* sub-requests to it, and blocks on the futures it gets back.             *)
(*                                                                         *)
(* Every section the code runs under queue_mutex touches only data that    *)
(* queue_mutex guards, so a section is one action.  The two notify calls   *)
(* are made after the mutex is released: they are actions of their own,    *)
(* and any thread may run between an update of the queue and its notify.   *)
(***************************************************************************)
EXTENDS Naturals, Sequences, FiniteSets

CONSTANTS
  Workers,  \* the threads the constructor starts
  Callers,  \* the threads that call enqueue
  Tasks,    \* the tasks they may enqueue: bounds the model
  NoTask    \* the job of a worker that runs nothing

ASSUME ThreadsAssumption ==
  /\ IsFiniteSet(Workers) /\ Workers # {}
  /\ IsFiniteSet(Callers)

ASSUME NoTaskAssumption == NoTask \notin Tasks

VARIABLES
  tasks,     \* std::queue<std::function<void()>> tasks
  stop,      \* bool stop
  worker,    \* where each worker is in its loop
  job,       \* the task a worker has moved out of the queue
  caller,    \* whether a caller still owes its notify_one
  executed,  \* tasks that ran: their futures are ready
  rejected,  \* tasks whose enqueue threw
  destroyer  \* progress of ~ThreadPool

vars == <<tasks, stop, worker, job, caller, executed, rejected, destroyer>>

\* "testing": at the predicate of condition.wait; "waiting": blocked in it.
WorkerStates == {"testing", "waiting", "running", "exited"}
CallerStates == {"idle", "notifying"}
DestroyerStates == {"alive", "notifying", "joining", "destroyed"}

Queued == {tasks[i] : i \in 1..Len(tasks)}
Active == {job[w] : w \in {v \in Workers : worker[v] = "running"}}
InState(s) == {w \in Workers : worker[w] = s}
Owing == {c \in Callers : caller[c] = "notifying"}
Fresh == Tasks \ (Queued \cup Active \cup executed \cup rejected)

TypeOK ==
  /\ tasks \in Seq(Tasks)
  /\ stop \in BOOLEAN
  /\ worker \in [Workers -> WorkerStates]
  /\ job \in [Workers -> Tasks \cup {NoTask}]
  /\ \A w \in Workers : worker[w] = "running" <=> job[w] # NoTask
  /\ caller \in [Callers -> CallerStates]
  /\ executed \subseteq Tasks
  /\ rejected \subseteq Tasks
  /\ destroyer \in DestroyerStates

Init ==
  /\ tasks = <<>>
  /\ stop = FALSE
  /\ worker = [w \in Workers |-> "testing"]
  /\ job = [w \in Workers |-> NoTask]
  /\ caller = [c \in Callers |-> "idle"]
  /\ executed = {}
  /\ rejected = {}
  /\ destroyer = "alive"

-----------------------------------------------------------------------------
(* The loop of a worker. *)

Block(w) ==
  /\ worker[w] = "testing"
  /\ ~stop
  /\ tasks = <<>>
  /\ worker' = [worker EXCEPT ![w] = "waiting"]
  /\ UNCHANGED <<tasks, stop, job, caller, executed, rejected, destroyer>>

\* A bug Exit could have: the worker leaves as soon as stop is set.
ExitOnStop(w) ==
  /\ worker[w] = "testing"
  /\ stop
  /\ worker' = [worker EXCEPT ![w] = "exited"]
  /\ UNCHANGED <<tasks, stop, job, caller, executed, rejected, destroyer>>

Exit(w) ==
  /\ worker[w] = "testing"
  /\ stop
  /\ tasks = <<>>
  /\ worker' = [worker EXCEPT ![w] = "exited"]
  /\ UNCHANGED <<tasks, stop, job, caller, executed, rejected, destroyer>>

\* Bugs Take could have: the front is not popped; the newest task is taken.
TakeWithoutPop(w) ==
  /\ worker[w] = "testing"
  /\ tasks # <<>>
  /\ job' = [job EXCEPT ![w] = Head(tasks)]
  /\ worker' = [worker EXCEPT ![w] = "running"]
  /\ UNCHANGED <<tasks, stop, caller, executed, rejected, destroyer>>

TakeNewest(w) ==
  /\ worker[w] = "testing"
  /\ tasks # <<>>
  /\ job' = [job EXCEPT ![w] = tasks[Len(tasks)]]
  /\ tasks' = SubSeq(tasks, 1, Len(tasks) - 1)
  /\ worker' = [worker EXCEPT ![w] = "running"]
  /\ UNCHANGED <<stop, caller, executed, rejected, destroyer>>

Take(w) ==
  /\ worker[w] = "testing"
  /\ tasks # <<>>
  /\ job' = [job EXCEPT ![w] = Head(tasks)]
  /\ tasks' = Tail(tasks)
  /\ worker' = [worker EXCEPT ![w] = "running"]
  /\ UNCHANGED <<stop, caller, executed, rejected, destroyer>>

\* A bug Execute could have: the local variable task outlives its iteration.
ExecuteKeepsJob(w) ==
  /\ worker[w] = "running"
  /\ executed' = executed \cup {job[w]}
  /\ worker' = [worker EXCEPT ![w] = "testing"]
  /\ UNCHANGED <<tasks, stop, job, caller, rejected, destroyer>>

Execute(w) ==
  /\ worker[w] = "running"
  /\ executed' = executed \cup {job[w]}
  /\ job' = [job EXCEPT ![w] = NoTask]
  /\ worker' = [worker EXCEPT ![w] = "testing"]
  /\ UNCHANGED <<tasks, stop, caller, rejected, destroyer>>

\* A condition variable may wake a thread nobody notified.
SpuriousWakeup(w) ==
  /\ worker[w] = "waiting"
  /\ worker' = [worker EXCEPT ![w] = "testing"]
  /\ UNCHANGED <<tasks, stop, job, caller, executed, rejected, destroyer>>

-----------------------------------------------------------------------------
(* enqueue.  No call starts once the destructor has returned. *)

\* Bugs Enqueue could have: it notifies only when the queue was empty; it
\* never notifies.
EnqueueNotifiesWhenEmpty(c, t) ==
  /\ caller[c] = "idle"
  /\ destroyer # "destroyed"
  /\ ~stop
  /\ tasks' = Append(tasks, t)
  /\ caller' = IF tasks = <<>> THEN [caller EXCEPT ![c] = "notifying"] ELSE caller
  /\ UNCHANGED <<stop, worker, job, executed, rejected, destroyer>>

EnqueueForgetsNotify(c, t) ==
  /\ caller[c] = "idle"
  /\ destroyer # "destroyed"
  /\ ~stop
  /\ tasks' = Append(tasks, t)
  /\ UNCHANGED <<stop, worker, job, caller, executed, rejected, destroyer>>

Enqueue(c, t) ==
  /\ caller[c] = "idle"
  /\ destroyer # "destroyed"
  /\ ~stop
  /\ tasks' = Append(tasks, t)
  /\ caller' = [caller EXCEPT ![c] = "notifying"]
  /\ UNCHANGED <<stop, worker, job, executed, rejected, destroyer>>

EnqueueThrows(c, t) ==
  /\ caller[c] = "idle"
  /\ destroyer # "destroyed"
  /\ stop
  /\ rejected' = rejected \cup {t}
  /\ UNCHANGED <<tasks, stop, worker, job, caller, executed, destroyer>>

NotifyOne(c) ==
  /\ caller[c] = "notifying"
  /\ caller' = [caller EXCEPT ![c] = "idle"]
  /\ \/ \E w \in InState("waiting") : worker' = [worker EXCEPT ![w] = "testing"]
     \/ InState("waiting") = {} /\ UNCHANGED worker
  /\ UNCHANGED <<tasks, stop, job, executed, rejected, destroyer>>

-----------------------------------------------------------------------------
(* ~ThreadPool *)

SetStop ==
  /\ destroyer = "alive"
  /\ stop' = TRUE
  /\ destroyer' = "notifying"
  /\ UNCHANGED <<tasks, worker, job, caller, executed, rejected>>

\* A bug NotifyAll could have: notify_one in its place.
NotifyOnlyOne ==
  /\ destroyer = "notifying"
  /\ \/ \E w \in InState("waiting") : worker' = [worker EXCEPT ![w] = "testing"]
     \/ InState("waiting") = {} /\ UNCHANGED worker
  /\ destroyer' = "joining"
  /\ UNCHANGED <<tasks, stop, job, caller, executed, rejected>>

NotifyAll ==
  /\ destroyer = "notifying"
  /\ worker' = [w \in Workers |-> IF worker[w] = "waiting" THEN "testing" ELSE worker[w]]
  /\ destroyer' = "joining"
  /\ UNCHANGED <<tasks, stop, job, caller, executed, rejected>>

JoinAll ==
  /\ destroyer = "joining"
  /\ \A w \in Workers : worker[w] = "exited"
  /\ destroyer' = "destroyed"
  /\ UNCHANGED <<tasks, stop, worker, job, caller, executed, rejected>>

-----------------------------------------------------------------------------

WorkerStep(w) == Block(w) \/ Exit(w) \/ Take(w) \/ Execute(w)

Destroy == SetStop \/ NotifyAll \/ JoinAll

Next ==
  \/ \E w \in Workers : WorkerStep(w) \/ SpuriousWakeup(w)
  \/ \E c \in Callers, t \in Fresh : Enqueue(c, t) \/ EnqueueThrows(c, t)
  \/ \E c \in Callers : NotifyOne(c)
  \/ Destroy

Spec == Init /\ [][Next]_vars

\* Threads that can run are scheduled, tasks terminate, and a destructor
\* that has begun goes on.  Nothing forces a caller to enqueue, the
\* destructor to begin, or a condition variable to wake up spuriously.
Fairness ==
  /\ \A w \in Workers : WF_vars(WorkerStep(w))
  /\ \A c \in Callers : WF_vars(NotifyOne(c))
  /\ WF_vars(NotifyAll)
  /\ WF_vars(JoinAll)

FairSpec == Spec /\ Fairness

-----------------------------------------------------------------------------
(* Correctness. *)

\* No task is lost between the queue and a worker, and none is run twice:
\* the std::move out of the front of the queue (util.h:292) and the pop
\* leave each task with exactly one owner.
ExactlyOnce ==
  /\ \A i, j \in 1..Len(tasks) : i # j => tasks[i] # tasks[j]
  /\ \A v, w \in Workers :
       v # w /\ worker[v] = "running" /\ worker[w] = "running" => job[v] # job[w]
  /\ Queued \cap Active = {}
  /\ (Queued \cup Active) \cap (executed \cup rejected) = {}
  /\ executed \cap rejected = {}

\* No lost wake-up: although notify_one is called after the mutex is
\* released (util.h:316), a worker stays blocked only while every queued
\* task already has a notification on its way or a worker about to look.
NoLostWakeup ==
  InState("waiting") # {} =>
    Len(tasks) <= Cardinality(Owing) + Cardinality(InState("testing"))

\* Workers leave their loop only when stop is set and the queue is empty
\* (util.h:290), so a destructor that has returned has drained the pool.
NothingAbandoned ==
  /\ InState("exited") # {} => stop /\ tasks = <<>>
  /\ stop /\ InState("waiting") # {} => destroyer = "notifying"
  /\ destroyer = "destroyed" => tasks = <<>> /\ Active = {}

\* What doSearch relies on when it blocks on its futures: a task accepted by
\* enqueue is executed, whatever the destructor does meanwhile.
AcceptedIsExecuted == \A t \in Tasks : t \in Queued ~> t \in executed

\* ~ThreadPool terminates: no worker it joins stays blocked.
DestructorReturns == destroyer = "notifying" ~> destroyer = "destroyed"

\* The pool implements the promise of TaskPool.
Abstract == INSTANCE TaskPool WITH
  pending <- tasks, active <- Active, finished <- executed,
  open <- ~stop, joined <- destroyer = "destroyed"

AbstractSpec == Abstract!Spec
=============================================================================
