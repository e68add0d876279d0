-------------------------- MODULE ConcurrentQueue ---------------------------
(***************************************************************************)
(* ConcurrentQueue of testbench/src/concurent_queue.h: a queue that may be *)
(* bounded, one mutex, a condition variable for each side, and a flag      *)
(* closed_ that Close sets without taking the mutex.                       *)
(*                                                                         *)
(* What a thread does between taking mutex_ and releasing it is one        *)
(* action, with one exception: between the test of a wait's predicate and  *)
(* the moment the thread is blocked the mutex is held, but Close does not  *)
(* need it.  A thread in between is "deciding" and is the holder.          *)
(***************************************************************************)
EXTENDS Naturals, FiniteSets

CONSTANTS
  Producers,  \* threads that call Push
  Consumers,  \* threads that call WaitAndPop or TryPop
  Capacity,   \* capacity_; 0 is no bound
  MaxItems,   \* how many elements are pushed: bounds the model
  Nobody      \* the holder of a free mutex

ASSUME ThreadsAssumption ==
  /\ IsFiniteSet(Producers) /\ IsFiniteSet(Consumers)
  /\ Producers \cap Consumers = {}
  /\ Nobody \notin Producers \cup Consumers

ASSUME BoundsAssumption == Capacity \in Nat /\ MaxItems \in Nat

VARIABLES
  size,    \* q_.size(): the elements do not matter
  pushed,  \* how many were ever pushed
  closed,  \* closed_
  thread,  \* where a producer or a consumer is
  holder,  \* the thread that holds mutex_ while it is about to block
  closer,  \* progress of Close
  late     \* threads that were about to block when closed_ was set

vars == <<size, pushed, closed, thread, holder, closer, late>>

Threads == Producers \cup Consumers
ThreadStates == {"idle", "testing", "deciding", "blocked", "notifying"}
CloserStates == {"open", "stored", "pushers told", "done"}

ProducersIn(s) == {p \in Producers : thread[p] = s}
ConsumersIn(s) == {c \in Consumers : thread[c] = s}

TypeOK ==
  /\ size \in Nat
  /\ Capacity # 0 => size <= Capacity
  /\ pushed \in 0..MaxItems
  /\ closed \in BOOLEAN
  /\ thread \in [Threads -> ThreadStates]
  /\ holder \in Threads \cup {Nobody}
  /\ \A t \in Threads : thread[t] = "deciding" <=> holder = t
  /\ closer \in CloserStates
  /\ late \subseteq Threads

Init ==
  /\ size = 0
  /\ pushed = 0
  /\ closed = FALSE
  /\ thread = [t \in Threads |-> "idle"]
  /\ holder = Nobody
  /\ closer = "open"
  /\ late = {}

\* notify_one: a thread blocked on the condition variable, if there is one,
\* tests its predicate again.
WakeOne(states, waiters) ==
  IF waiters = {} THEN {states}
  ELSE {[states EXCEPT ![t] = "testing"] : t \in waiters}

WakeAll(waiters) ==
  [t \in Threads |-> IF t \in waiters THEN "testing" ELSE thread[t]]

-----------------------------------------------------------------------------
(* Push. *)

\* A bug Full could have: one element more is let in.
FullOffByOne == Capacity # 0 /\ size > Capacity

Full == Capacity # 0 /\ size >= Capacity

Call(t) ==
  /\ thread[t] = "idle"
  /\ thread' = [thread EXCEPT ![t] = "testing"]
  /\ UNCHANGED <<size, pushed, closed, holder, closer, late>>

PushMustWait(p) ==
  /\ thread[p] = "testing" /\ holder = Nobody
  /\ Full /\ ~closed
  /\ thread' = [thread EXCEPT ![p] = "deciding"]
  /\ holder' = p
  /\ UNCHANGED <<size, pushed, closed, closer, late>>

\* A bug PushAppends could have: cv_pop_ is notified only when the queue was
\* empty.
PushAppendsNotifiesWhenEmpty(p) ==
  /\ thread[p] = "testing" /\ holder = Nobody
  /\ ~Full /\ ~closed
  /\ pushed < MaxItems
  /\ size' = size + 1
  /\ pushed' = pushed + 1
  /\ thread' = [thread EXCEPT ![p] = IF size = 0 THEN "notifying" ELSE "idle"]
  /\ UNCHANGED <<closed, holder, closer, late>>

PushAppends(p) ==
  /\ thread[p] = "testing" /\ holder = Nobody
  /\ ~Full /\ ~closed
  /\ pushed < MaxItems
  /\ size' = size + 1
  /\ pushed' = pushed + 1
  /\ thread' = [thread EXCEPT ![p] = "notifying"]
  /\ UNCHANGED <<closed, holder, closer, late>>

\* The mutex is released by then.
NotifyPop(p) ==
  /\ thread[p] = "notifying"
  /\ thread' \in WakeOne([thread EXCEPT ![p] = "idle"], ConsumersIn("blocked"))
  /\ UNCHANGED <<size, pushed, closed, holder, closer, late>>

-----------------------------------------------------------------------------
(* WaitAndPop and TryPop. *)

PopMustWait(c) ==
  /\ thread[c] = "testing" /\ holder = Nobody
  /\ size = 0 /\ ~closed
  /\ thread' = [thread EXCEPT ![c] = "deciding"]
  /\ holder' = c
  /\ UNCHANGED <<size, pushed, closed, closer, late>>

\* A bug PopFront could have: cv_push_ is not notified.
PopFrontSilently(c, from) ==
  /\ thread[c] = from /\ holder = Nobody
  /\ size > 0 /\ ~closed
  /\ size' = size - 1
  /\ thread' = [thread EXCEPT ![c] = "idle"]
  /\ UNCHANGED <<pushed, closed, holder, closer, late>>

\* cv_push_ is notified under the mutex.  TryPop calls from "idle".
PopFront(c, from) ==
  /\ thread[c] = from /\ holder = Nobody
  /\ size > 0 /\ ~closed
  /\ size' = size - 1
  /\ thread' \in WakeOne([thread EXCEPT ![c] = "idle"], ProducersIn("blocked"))
  /\ UNCHANGED <<pushed, closed, holder, closer, late>>

WaitAndPop(c) == PopFront(c, "testing")
TryPop(c) == PopFront(c, "idle")

-----------------------------------------------------------------------------
(* Either side. *)

Block(t) ==
  /\ thread[t] = "deciding"
  /\ thread' = [thread EXCEPT ![t] = "blocked"]
  /\ holder' = Nobody
  /\ UNCHANGED <<size, pushed, closed, closer, late>>

\* Closed is returned, whatever the queue still holds.
ReturnClosed(t) ==
  /\ thread[t] = "testing" /\ holder = Nobody
  /\ closed
  /\ thread' = [thread EXCEPT ![t] = "idle"]
  /\ UNCHANGED <<size, pushed, closed, holder, closer, late>>

SpuriousWakeup(t) ==
  /\ thread[t] = "blocked"
  /\ thread' = [thread EXCEPT ![t] = "testing"]
  /\ UNCHANGED <<size, pushed, closed, holder, closer, late>>

-----------------------------------------------------------------------------
(* Close, which takes no lock. *)

StoreClosed ==
  /\ closer = "open"
  /\ closed' = TRUE
  /\ late' = IF holder = Nobody THEN {} ELSE {holder}
  /\ closer' = "stored"
  /\ UNCHANGED <<size, pushed, thread, holder>>

NotifyPushers ==
  /\ closer = "stored"
  /\ thread' = WakeAll(ProducersIn("blocked"))
  /\ closer' = "pushers told"
  /\ UNCHANGED <<size, pushed, closed, holder, late>>

\* A bug NotifyPoppers could have: notify_one in its place.
NotifyOnePopper ==
  /\ closer = "pushers told"
  /\ thread' \in WakeOne(thread, ConsumersIn("blocked"))
  /\ closer' = "done"
  /\ UNCHANGED <<size, pushed, closed, holder, late>>

NotifyPoppers ==
  /\ closer = "pushers told"
  /\ thread' = WakeAll(ConsumersIn("blocked"))
  /\ closer' = "done"
  /\ UNCHANGED <<size, pushed, closed, holder, late>>

-----------------------------------------------------------------------------

ProducerStep(p) ==
  \/ PushMustWait(p) \/ PushAppends(p) \/ NotifyPop(p)
  \/ Block(p) \/ ReturnClosed(p)

ConsumerStep(c) ==
  \/ PopMustWait(c) \/ WaitAndPop(c)
  \/ Block(c) \/ ReturnClosed(c)

Next ==
  \/ \E p \in Producers : ProducerStep(p)
  \/ \E c \in Consumers : ConsumerStep(c) \/ TryPop(c)
  \/ \E t \in Threads : Call(t) \/ SpuriousWakeup(t)
  \/ StoreClosed \/ NotifyPushers \/ NotifyPoppers

Spec == Init /\ [][Next]_vars

\* A thread inside a call goes on when it can.  Nothing makes one call, makes
\* anybody close the queue, or wakes a condition variable spuriously.
Fairness ==
  /\ \A p \in Producers : WF_vars(ProducerStep(p))
  /\ \A c \in Consumers : WF_vars(ConsumerStep(c))
  /\ WF_vars(NotifyPushers)
  /\ WF_vars(NotifyPoppers)

FairSpec == Spec /\ Fairness

-----------------------------------------------------------------------------
(* Correctness. *)

\* No lost wake-up on a queue that is open: a consumer stays blocked only
\* while every element has a notify_one on its way, after the mutex was
\* released (concurent_queue.h:39), or a consumer about to look.
PopNotLost ==
  ~closed /\ ConsumersIn("blocked") # {} =>
    size <= Cardinality(ProducersIn("notifying")) + Cardinality(ConsumersIn("testing"))

\* The same for producers of a bounded queue: a free place has a producer
\* about to take it (concurent_queue.h:54, 65 notify one of them per place).
PushNotLost ==
  ~closed /\ ProducersIn("blocked") # {} =>
    Capacity - size <= Cardinality(ProducersIn("testing"))

\* Close releases everyone who is in a call, but for one thread: the one
\* that had read closed_ as false and was not blocked yet, which Close, as
\* it takes no lock (concurent_queue.h:69-74), does not wait for.
CloseReleases ==
  \A t \in Threads : closer = "done" ~> thread[t] = "idle" \/ t \in late
=============================================================================
