-------------------------- MODULE ThreadPoolProofs --------------------------
(***************************************************************************)
(* Proofs about ThreadPool for any number of workers, callers and tasks:   *)
(* its types, its three safety invariants, and that it implements TaskPool.*)
(***************************************************************************)
EXTENDS ThreadPool, FiniteSetTheorems, TLAPS

-----------------------------------------------------------------------------
(* What the queue operations do to the set of the elements of a sequence. *)

\* Append adds its element and nothing else.
LEMMA AppendElements ==
  ASSUME NEW S, NEW s \in Seq(S), NEW e \in S
  PROVE  /\ Append(s, e) \in Seq(S)
         /\ Len(Append(s, e)) = Len(s) + 1
         /\ \A i \in 1..Len(s) : Append(s, e)[i] = s[i]
         /\ Append(s, e)[Len(s) + 1] = e
OBVIOUS

\* Tail shifts every element one place to the front.
LEMMA TailElements ==
  ASSUME NEW S, NEW s \in Seq(S), s # <<>>
  PROVE  /\ Head(s) = s[1]
         /\ Head(s) \in S
         /\ Tail(s) \in Seq(S)
         /\ Len(s) \in Nat \ {0}
         /\ Len(Tail(s)) = Len(s) - 1
         /\ \A i \in 1..Len(Tail(s)) : Tail(s)[i] = s[i + 1]
OBVIOUS

-----------------------------------------------------------------------------
(* Types. *)

\* The type invariant of the pool: a worker holds a task exactly while it
\* runs one (util.h:284-295).
THEOREM TypeCorrect == Spec => []TypeOK
<1>1. Init => TypeOK
  <2> SUFFICES ASSUME Init PROVE TypeOK
    OBVIOUS
  <2>1. tasks \in Seq(Tasks) /\ executed \subseteq Tasks /\ rejected \subseteq Tasks
    BY DEF Init
  <2>2. \A w \in Workers : worker[w] = "testing" /\ job[w] = NoTask
    BY DEF Init
  <2>3. QED
    BY <2>1, <2>2 DEF Init, TypeOK, WorkerStates, CallerStates, DestroyerStates
<1>2. TypeOK /\ [Next]_vars => TypeOK'
  <2> SUFFICES ASSUME TypeOK, [Next]_vars PROVE TypeOK'
    OBVIOUS
  <2> USE DEF TypeOK, WorkerStates, CallerStates, DestroyerStates
  <2>1. ASSUME NEW w \in Workers, Block(w) \/ Exit(w) \/ SpuriousWakeup(w)
        PROVE  TypeOK'
    BY <2>1 DEF Block, Exit, SpuriousWakeup
  <2>2. ASSUME NEW w \in Workers, Take(w) PROVE TypeOK'
    BY <2>2, TailElements, NoTaskAssumption DEF Take
  <2>3. ASSUME NEW w \in Workers, Execute(w) PROVE TypeOK'
    BY <2>3 DEF Execute
  <2>4. ASSUME NEW c \in Callers, NEW t \in Fresh, Enqueue(c, t) PROVE TypeOK'
    BY <2>4, AppendElements DEF Enqueue, Fresh
  <2>5. ASSUME NEW c \in Callers, NEW t \in Fresh, EnqueueThrows(c, t) PROVE TypeOK'
    BY <2>5 DEF EnqueueThrows, Fresh
  <2>6. ASSUME NEW c \in Callers, NotifyOne(c) PROVE TypeOK'
    BY <2>6 DEF NotifyOne, InState
  <2>7. CASE Destroy
    BY <2>7 DEF Destroy, SetStop, NotifyAll, JoinAll
  <2>8. CASE UNCHANGED vars
    BY <2>8 DEF vars
  <2>9. QED
    BY <2>1, <2>2, <2>3, <2>4, <2>5, <2>6, <2>7, <2>8 DEF Next, WorkerStep
<1>3. QED
  BY <1>1, <1>2, PTL DEF Spec

-----------------------------------------------------------------------------
(* What each step does to the sets of queued and of running tasks. *)

\* A step that touches neither the queue nor a running worker moves no task.
LEMMA TasksStay ==
  ASSUME TypeOK, TypeOK', UNCHANGED <<tasks, job>>
  PROVE  Queued' = Queued /\ Active' = Active
<1>1. Queued' = Queued
  BY DEF Queued
<1>2. \A w \in Workers : worker'[w] = "running" <=> worker[w] = "running"
  BY DEF TypeOK
<1>3. QED
  BY <1>1, <1>2 DEF Active

\* enqueue puts a task that is nowhere yet at the back of the queue.
LEMMA EnqueueEffect ==
  ASSUME TypeOK, NEW c \in Callers, NEW t \in Fresh, Enqueue(c, t)
  PROVE  Queued' = Queued \cup {t} /\ Active' = Active
<1>1. t \in Tasks /\ tasks \in Seq(Tasks)
  BY DEF Fresh, TypeOK
<1>2. Queued' = Queued \cup {t}
  BY <1>1, AppendElements DEF Enqueue, Queued
<1>3. Active' = Active
  BY DEF Enqueue, Active
<1>4. QED
  BY <1>2, <1>3

\* A worker that takes the front of the queue becomes its only owner.
LEMMA TakeEffect ==
  ASSUME TypeOK, ExactlyOnce, NEW w \in Workers, Take(w)
  PROVE  /\ Head(tasks) \in Queued
         /\ Queued' = Queued \ {Head(tasks)}
         /\ Active' = Active \cup {Head(tasks)}
<1>1. tasks \in Seq(Tasks) /\ tasks # <<>> /\ tasks' = Tail(tasks)
  BY DEF TypeOK, Take
<1>2. Head(tasks) \in Queued
  BY <1>1, TailElements DEF Queued
<1>3. Queued' \subseteq Queued \ {Head(tasks)}
  BY <1>1, TailElements DEF Queued, ExactlyOnce
<1>4. Queued \ {Head(tasks)} \subseteq Queued'
  <2> SUFFICES ASSUME NEW i \in 1..Len(tasks), tasks[i] # Head(tasks)
               PROVE  \E k \in 1..Len(Tail(tasks)) : Tail(tasks)[k] = tasks[i]
    BY <1>1 DEF Queued
  <2>1. i - 1 \in 1..Len(Tail(tasks)) /\ (i - 1) + 1 = i
    BY <1>1, TailElements
  <2>2. QED
    BY <2>1, <1>1, TailElements
<1>5. Active' = Active \cup {Head(tasks)}
  BY DEF Take, Active, TypeOK
<1>6. QED
  BY <1>2, <1>3, <1>4, <1>5

\* A worker that finishes gives up its task, which no other worker holds.
LEMMA ExecuteEffect ==
  ASSUME TypeOK, ExactlyOnce, NEW w \in Workers, Execute(w)
  PROVE  /\ job[w] \in Active
         /\ Queued' = Queued
         /\ Active' = Active \ {job[w]}
<1>1. job[w] \in Active
  BY DEF Execute, Active
<1>2. Queued' = Queued
  BY DEF Execute, Queued
<1>3. \A v \in Workers : worker'[v] = "running" <=> v # w /\ worker[v] = "running"
  BY DEF Execute, TypeOK
<1>4. \A v \in Workers : v # w => job'[v] = job[v]
  BY DEF Execute, TypeOK
<1>5. \A v \in Workers : v # w /\ worker[v] = "running" => job[v] # job[w]
  BY DEF ExactlyOnce, Execute
<1>6. Active' = Active \ {job[w]}
  BY <1>3, <1>4, <1>5 DEF Active
<1>7. QED
  BY <1>1, <1>2, <1>6

-----------------------------------------------------------------------------
(* Every task has one owner. *)

LEMMA ExactlyOnceStep ==
  ASSUME TypeOK, TypeOK', ExactlyOnce, [Next]_vars
  PROVE  ExactlyOnce'
<1>1. ASSUME NEW w \in Workers, Block(w) \/ Exit(w) \/ SpuriousWakeup(w)
      PROVE  ExactlyOnce'
  <2>1. UNCHANGED <<tasks, job, executed, rejected>>
    BY <1>1 DEF Block, Exit, SpuriousWakeup
  <2>2. \A v \in Workers : worker'[v] = "running" <=> worker[v] = "running"
    BY <2>1 DEF TypeOK
  <2>3. QED
    BY <2>1, <2>2, TasksStay DEF ExactlyOnce
<1>2. ASSUME NEW w \in Workers, Take(w) PROVE ExactlyOnce'
  <2>1. tasks \in Seq(Tasks) /\ tasks # <<>> /\ tasks' = Tail(tasks)
    BY <1>2 DEF TypeOK, Take
  <2>2. \A i, j \in 1..Len(tasks') : i # j => tasks'[i] # tasks'[j]
    BY <2>1, TailElements DEF ExactlyOnce
  <2>3. \A u, v \in Workers :
          u # v /\ worker'[u] = "running" /\ worker'[v] = "running" => job'[u] # job'[v]
    <3>1. Head(tasks) \notin Active
      BY <1>2, TakeEffect DEF ExactlyOnce
    <3>2. \A v \in Workers : v # w /\ worker'[v] = "running" => job'[v] \in Active
      BY <1>2 DEF Take, TypeOK, Active
    <3>3. job'[w] = Head(tasks)
      BY <1>2 DEF Take, TypeOK
    <3>4. \A u, v \in Workers :
            u # v /\ u # w /\ v # w /\ worker'[u] = "running" /\ worker'[v] = "running"
              => job'[u] # job'[v]
      BY <1>2 DEF Take, TypeOK, ExactlyOnce
    <3>5. QED
      BY <3>1, <3>2, <3>3, <3>4
  <2>4. executed' = executed /\ rejected' = rejected
    BY <1>2 DEF Take
  <2>5. QED
    BY <1>2, <2>2, <2>3, <2>4, TakeEffect DEF ExactlyOnce
<1>3. ASSUME NEW w \in Workers, Execute(w) PROVE ExactlyOnce'
  <2>1. executed' = executed \cup {job[w]} /\ UNCHANGED <<tasks, rejected>>
    BY <1>3 DEF Execute
  <2>2. \A v \in Workers : worker'[v] = "running" => worker[v] = "running" /\ job'[v] = job[v]
    BY <1>3 DEF Execute, TypeOK
  <2>3. QED
    BY <1>3, <2>1, <2>2, ExecuteEffect DEF ExactlyOnce
<1>4. ASSUME NEW c \in Callers, NEW t \in Fresh, Enqueue(c, t) PROVE ExactlyOnce'
  <2>1. t \in Tasks /\ t \notin Queued /\ t \notin Active \cup executed \cup rejected
    BY DEF Fresh
  <2>2. tasks \in Seq(Tasks) /\ tasks' = Append(tasks, t)
    BY <1>4 DEF Enqueue, TypeOK
  <2>3. \A i, j \in 1..Len(tasks') : i # j => tasks'[i] # tasks'[j]
    BY <2>1, <2>2, AppendElements DEF ExactlyOnce, Queued
  <2>4. UNCHANGED <<worker, job, executed, rejected>>
    BY <1>4 DEF Enqueue
  <2>5. QED
    BY <1>4, <2>1, <2>3, <2>4, EnqueueEffect DEF ExactlyOnce
<1>5. ASSUME NEW c \in Callers, NEW t \in Fresh, EnqueueThrows(c, t) PROVE ExactlyOnce'
  <2>1. rejected' = rejected \cup {t} /\ UNCHANGED <<tasks, worker, job, executed>>
    BY <1>5 DEF EnqueueThrows
  <2>2. t \notin Queued \cup Active \cup executed
    BY DEF Fresh
  <2>3. QED
    BY <2>1, <2>2, TasksStay DEF ExactlyOnce
<1>6. ASSUME NEW c \in Callers, NotifyOne(c) PROVE ExactlyOnce'
  <2>1. UNCHANGED <<tasks, job, executed, rejected>>
    BY <1>6 DEF NotifyOne
  <2>2. \A v \in Workers : worker'[v] = "running" <=> worker[v] = "running"
    BY <2>1 DEF TypeOK
  <2>3. QED
    BY <2>1, <2>2, TasksStay DEF ExactlyOnce
<1>7. CASE Destroy
  <2>1. UNCHANGED <<tasks, job, executed, rejected>>
    BY <1>7 DEF Destroy, SetStop, NotifyAll, JoinAll
  <2>2. \A v \in Workers : worker'[v] = "running" <=> worker[v] = "running"
    BY <2>1 DEF TypeOK
  <2>3. QED
    BY <2>1, <2>2, TasksStay DEF ExactlyOnce
<1>8. CASE UNCHANGED vars
  BY <1>8 DEF vars, ExactlyOnce, Queued, Active
<1>9. QED
  BY <1>1, <1>2, <1>3, <1>4, <1>5, <1>6, <1>7, <1>8 DEF Next, WorkerStep

\* The hand-over from the queue to a worker neither loses nor duplicates a
\* task (util.h:292-293).
THEOREM HandOverCorrect == Spec => []ExactlyOnce
<1>1. Init => ExactlyOnce
  BY DEF Init, ExactlyOnce, Queued, Active
<1>2. TypeOK /\ TypeOK' /\ ExactlyOnce /\ [Next]_vars => ExactlyOnce'
  BY ExactlyOnceStep
<1>3. QED
  BY <1>1, <1>2, TypeCorrect, PTL DEF Spec

-----------------------------------------------------------------------------
(* The destructor. *)

\* stop is set by the destructor's first step and never reset.
StopIffDestroying == stop <=> destroyer # "alive"

LEMMA StopStep ==
  ASSUME TypeOK, StopIffDestroying, [Next]_vars
  PROVE  StopIffDestroying'
  BY DEF StopIffDestroying, Next, vars, WorkerStep, Block, Exit, Take, Execute,
         SpuriousWakeup, Enqueue, EnqueueThrows, NotifyOne, Destroy, SetStop,
         NotifyAll, JoinAll

LEMMA NothingAbandonedStep ==
  ASSUME TypeOK, TypeOK', NothingAbandoned, [Next]_vars
  PROVE  NothingAbandoned'
<1>1. /\ worker \in [Workers -> WorkerStates] /\ worker' \in [Workers -> WorkerStates]
      /\ UNCHANGED <<tasks, job>> => Active' = Active
  BY TasksStay DEF TypeOK
<1>2. ASSUME NEW w \in Workers, WorkerStep(w) \/ SpuriousWakeup(w)
      PROVE  NothingAbandoned'
  <2>1. CASE Block(w)
    BY <1>1, <2>1 DEF Block, NothingAbandoned, InState
  <2>2. CASE Exit(w)
    BY <1>1, <2>2 DEF Exit, NothingAbandoned, InState
  <2>3. CASE Take(w)
    BY <1>1, <2>3 DEF Take, NothingAbandoned, InState
  <2>4. CASE Execute(w)
    <3>1. destroyer # "destroyed"
      BY <2>4 DEF Execute, NothingAbandoned, Active
    <3>2. UNCHANGED <<tasks, stop, destroyer>>
      BY <2>4 DEF Execute
    <3>3. \A v \in Workers : worker'[v] \in {"exited", "waiting"} => worker'[v] = worker[v]
      BY <1>1, <2>4 DEF Execute
    <3>4. QED
      BY <3>1, <3>2, <3>3 DEF NothingAbandoned, InState
  <2>5. CASE SpuriousWakeup(w)
    BY <1>1, <2>5 DEF SpuriousWakeup, NothingAbandoned, InState
  <2>6. QED
    BY <1>2, <2>1, <2>2, <2>3, <2>4, <2>5 DEF WorkerStep
<1>3. ASSUME NEW c \in Callers, NEW t \in Fresh, Enqueue(c, t) PROVE NothingAbandoned'
  BY <1>3 DEF Enqueue, NothingAbandoned, InState
<1>4. ASSUME NEW c \in Callers, NEW t \in Fresh, EnqueueThrows(c, t) PROVE NothingAbandoned'
  BY <1>1, <1>4 DEF EnqueueThrows, NothingAbandoned, InState
<1>5. ASSUME NEW c \in Callers, NotifyOne(c) PROVE NothingAbandoned'
  <2>1. UNCHANGED <<tasks, stop, job, destroyer>>
    BY <1>5 DEF NotifyOne
  <2>2. \A v \in Workers : worker'[v] \in {"exited", "waiting"} => worker'[v] = worker[v]
    BY <1>1, <1>5 DEF NotifyOne, InState
  <2>3. QED
    BY <1>1, <2>1, <2>2 DEF NothingAbandoned, InState
<1>6. CASE SetStop
  BY <1>1, <1>6 DEF SetStop, NothingAbandoned, InState
<1>7. CASE NotifyAll
  <2>1. \A v \in Workers : worker'[v] = "exited" => worker[v] = "exited"
    BY <1>1, <1>7 DEF NotifyAll
  <2>2. InState("waiting")' = {}
    BY <1>1, <1>7 DEF NotifyAll, InState
  <2>3. QED
    BY <1>1, <1>7, <2>1, <2>2 DEF NotifyAll, NothingAbandoned, InState
<1>8. CASE JoinAll
  <2>1. Active' = {} /\ InState("exited") # {}
    BY <1>8, ThreadsAssumption DEF JoinAll, Active, InState
  <2>2. QED
    BY <1>8, <2>1 DEF JoinAll, NothingAbandoned, InState
<1>9. CASE UNCHANGED vars
  BY <1>1, <1>9 DEF vars, NothingAbandoned, InState
<1>10. QED
  BY <1>2, <1>3, <1>4, <1>5, <1>6, <1>7, <1>8, <1>9 DEF Next, Destroy

\* ~ThreadPool (util.h:320-328) returns only when everything enqueue accepted
\* has run.
THEOREM DestructorDrains == Spec => []NothingAbandoned
<1>1. Init => NothingAbandoned
  BY ThreadsAssumption DEF Init, NothingAbandoned, InState
<1>2. TypeOK /\ TypeOK' /\ NothingAbandoned /\ [Next]_vars => NothingAbandoned'
  BY NothingAbandonedStep
<1>3. QED
  BY <1>1, <1>2, TypeCorrect, PTL DEF Spec

-----------------------------------------------------------------------------
(* No wake-up is lost. *)

\* InState is monotone in the workers it counts, and finite.
LEMMA CountsAreNaturals ==
  ASSUME NEW s
  PROVE  /\ IsFiniteSet(InState(s)) /\ Cardinality(InState(s)) \in Nat
         /\ IsFiniteSet(Owing) /\ Cardinality(Owing) \in Nat
<1>1. InState(s) \subseteq Workers /\ Owing \subseteq Callers
  BY DEF InState, Owing
<1>2. QED
  BY <1>1, ThreadsAssumption, FS_Subset, FS_CardinalityType

LEMMA NoLostWakeupStep ==
  ASSUME TypeOK, TypeOK', NoLostWakeup, [Next]_vars
  PROVE  NoLostWakeup'
<1> DEFINE T == InState("testing")
           W == InState("waiting")
<1>1. /\ worker \in [Workers -> WorkerStates] /\ worker' \in [Workers -> WorkerStates]
      /\ caller \in [Callers -> CallerStates] /\ caller' \in [Callers -> CallerStates]
      /\ tasks \in Seq(Tasks) /\ tasks' \in Seq(Tasks)
      /\ Len(tasks) \in Nat /\ Len(tasks') \in Nat
  BY DEF TypeOK
<1>2. /\ IsFiniteSet(T) /\ Cardinality(T) \in Nat
      /\ IsFiniteSet(Owing) /\ Cardinality(Owing) \in Nat
  BY CountsAreNaturals
<1>3. Cardinality(T') \in Nat /\ Cardinality(Owing') \in Nat
  <2>1. T' \subseteq Workers /\ Owing' \subseteq Callers
    BY DEF InState, Owing
  <2>2. QED
    BY <2>1, ThreadsAssumption, FS_Subset, FS_CardinalityType
<1>4. ASSUME NEW w \in Workers, Block(w) \/ Exit(w) PROVE NoLostWakeup'
  <2>1. Len(tasks') = 0
    BY <1>4 DEF Block, Exit
  <2>2. QED
    BY <1>3, <2>1 DEF NoLostWakeup
<1>5. ASSUME NEW w \in Workers, Take(w) PROVE NoLostWakeup'
  <2>1. w \in T /\ T' = T \ {w} /\ W' = W /\ Owing' = Owing
    BY <1>1, <1>5 DEF Take, InState, Owing
  <2>2. Len(tasks') = Len(tasks) - 1
    BY <1>1, <1>5, TailElements DEF Take
  <2>3. Cardinality(T') = Cardinality(T) - 1
    BY <1>2, <2>1, FS_RemoveElement
  <2>4. QED
    BY <1>1, <1>2, <2>1, <2>2, <2>3 DEF NoLostWakeup
<1>6. ASSUME NEW w \in Workers, Execute(w) \/ SpuriousWakeup(w) PROVE NoLostWakeup'
  <2>1. w \notin T /\ T' = T \cup {w} /\ W' \subseteq W /\ Owing' = Owing /\ tasks' = tasks
    BY <1>1, <1>6 DEF Execute, SpuriousWakeup, InState, Owing
  <2>2. Cardinality(T') = Cardinality(T) + 1
    BY <1>2, <2>1, FS_AddElement
  <2>3. QED
    BY <1>1, <1>2, <2>1, <2>2 DEF NoLostWakeup
<1>7. ASSUME NEW c \in Callers, NEW t \in Fresh, Enqueue(c, t) PROVE NoLostWakeup'
  <2>1. c \notin Owing /\ Owing' = Owing \cup {c} /\ T' = T /\ W' = W
    BY <1>1, <1>7 DEF Enqueue, InState, Owing
  <2>2. Len(tasks') = Len(tasks) + 1
    BY <1>1, <1>7, AppendElements DEF Enqueue, Fresh
  <2>3. Cardinality(Owing') = Cardinality(Owing) + 1
    BY <1>2, <2>1, FS_AddElement
  <2>4. QED
    BY <1>1, <1>2, <2>1, <2>2, <2>3 DEF NoLostWakeup
<1>8. ASSUME NEW c \in Callers, NotifyOne(c) PROVE NoLostWakeup'
  <2>1. c \in Owing /\ Owing' = Owing \ {c} /\ tasks' = tasks
    BY <1>1, <1>8 DEF NotifyOne, Owing
  <2>2. Cardinality(Owing') = Cardinality(Owing) - 1
    BY <1>2, <2>1, FS_RemoveElement
  <2>3. CASE W = {} /\ UNCHANGED worker
    BY <2>3 DEF NoLostWakeup, InState
  <2>4. ASSUME NEW w \in W, worker' = [worker EXCEPT ![w] = "testing"]
        PROVE  NoLostWakeup'
    <3>1. w \notin T /\ T' = T \cup {w} /\ W # {}
      BY <1>1, <2>4 DEF InState
    <3>2. Cardinality(T') = Cardinality(T) + 1
      BY <1>2, <3>1, FS_AddElement
    <3>3. QED
      BY <1>1, <1>2, <2>1, <2>2, <3>1, <3>2 DEF NoLostWakeup
  <2>5. QED
    BY <1>8, <2>3, <2>4 DEF NotifyOne
<1>9. CASE NotifyAll
  <2>1. W' = {}
    BY <1>1, <1>9 DEF NotifyAll, InState
  <2>2. QED
    BY <2>1 DEF NoLostWakeup
<1>10. ASSUME UNCHANGED <<tasks, worker, caller>> PROVE NoLostWakeup'
  BY <1>10 DEF NoLostWakeup, InState, Owing
<1>11. ASSUME NEW c \in Callers, NEW t \in Fresh, EnqueueThrows(c, t) PROVE NoLostWakeup'
  BY <1>10, <1>11 DEF EnqueueThrows
<1>12. CASE SetStop \/ JoinAll \/ UNCHANGED vars
  BY <1>10, <1>12 DEF SetStop, JoinAll, vars
<1>13. QED
  BY <1>4, <1>5, <1>6, <1>7, <1>8, <1>9, <1>11, <1>12 DEF Next, WorkerStep, Destroy

\* Notifying after the mutex is released (util.h:314-316) is safe: a blocked
\* worker never hides a queued task that nobody is about to look at.
THEOREM NotifyCorrect == Spec => []NoLostWakeup
<1>1. Init => NoLostWakeup
  BY DEF Init, NoLostWakeup, InState
<1>2. TypeOK /\ TypeOK' /\ NoLostWakeup /\ [Next]_vars => NoLostWakeup'
  BY NoLostWakeupStep
<1>3. QED
  BY <1>1, <1>2, TypeCorrect, PTL DEF Spec

-----------------------------------------------------------------------------
(* The pool implements TaskPool. *)

LEMMA RefinementInit == Init => Abstract!Init
  BY DEF Init, Abstract!Init, Active

LEMMA RefinementStep ==
  ASSUME TypeOK, TypeOK', ExactlyOnce, NothingAbandoned, StopIffDestroying, [Next]_vars
  PROVE  [Abstract!Next]_(Abstract!apVars)
<1> USE DEF Abstract!Next, Abstract!apVars
<1>1. ASSUME UNCHANGED <<tasks, stop, job, executed>>,
             destroyer' = "destroyed" <=> destroyer = "destroyed"
      PROVE  UNCHANGED Abstract!apVars
  BY <1>1, TasksStay
<1>2. ASSUME NEW w \in Workers, WorkerStep(w) \/ SpuriousWakeup(w)
      PROVE  Abstract!Next \/ UNCHANGED Abstract!apVars
  <2>1. CASE Block(w) \/ Exit(w) \/ SpuriousWakeup(w)
    BY <1>1, <2>1 DEF Block, Exit, SpuriousWakeup
  <2>2. CASE Take(w)
    <3>1. destroyer # "destroyed"
      BY <2>2 DEF Take, NothingAbandoned
    <3>2. Abstract!Start
      BY <2>2, <3>1, TakeEffect DEF Take, Abstract!Start
    <3>3. QED
      BY <3>2
  <2>3. CASE Execute(w)
    <3>1. job[w] \in Tasks
      BY <2>3 DEF Execute, TypeOK
    <3>2. Abstract!Finish(job[w])
      BY <2>3, ExecuteEffect DEF Execute, Abstract!Finish
    <3>3. QED
      BY <3>1, <3>2
  <2>4. QED
    BY <1>2, <2>1, <2>2, <2>3 DEF WorkerStep
<1>3. ASSUME NEW c \in Callers, NEW t \in Fresh, Enqueue(c, t) PROVE Abstract!Next
  <2>1. t \in Tasks /\ t \notin Abstract!Elements(tasks) \cup Active \cup executed
    BY DEF Fresh, Queued, Abstract!Elements
  <2>2. Abstract!Accept(t)
    BY <1>3, <2>1, EnqueueEffect DEF Enqueue, Abstract!Accept
  <2>3. QED
    BY <2>1, <2>2
<1>4. ASSUME NEW c \in Callers, NEW t \in Fresh, EnqueueThrows(c, t)
      PROVE  UNCHANGED Abstract!apVars
  BY <1>1, <1>4 DEF EnqueueThrows
<1>5. ASSUME NEW c \in Callers, NotifyOne(c) PROVE UNCHANGED Abstract!apVars
  BY <1>1, <1>5 DEF NotifyOne
<1>6. CASE SetStop
  <2>1. Abstract!Close
    BY <1>6, TasksStay DEF SetStop, StopIffDestroying, Abstract!Close
  <2>2. QED
    BY <2>1
<1>7. CASE NotifyAll
  BY <1>1, <1>7 DEF NotifyAll
<1>8. CASE JoinAll
  <2>1. tasks = <<>> /\ Active = {} /\ Active' = {}
    <3>1. InState("exited") # {}
      BY <1>8, ThreadsAssumption DEF JoinAll, InState
    <3>2. QED
      BY <1>8, <3>1 DEF JoinAll, NothingAbandoned, Active
  <2>2. Abstract!Join
    BY <1>8, <2>1 DEF JoinAll, StopIffDestroying, Abstract!Join
  <2>3. QED
    BY <2>2
<1>9. CASE UNCHANGED vars
  BY <1>1, <1>9 DEF vars
<1>10. QED
  BY <1>2, <1>3, <1>4, <1>5, <1>6, <1>7, <1>8, <1>9 DEF Next, Destroy

\* The pool is a FIFO whose tasks start once, in the order enqueue accepted
\* them, and are all finished when the destructor returns.
THEOREM PoolImplementsTaskPool == Spec => AbstractSpec
<1>1. Init => Abstract!Init /\ StopIffDestroying
  BY RefinementInit DEF Init, StopIffDestroying
<1>2. TypeOK /\ StopIffDestroying /\ [Next]_vars => StopIffDestroying'
  BY StopStep
<1>3. TypeOK /\ TypeOK' /\ ExactlyOnce /\ NothingAbandoned /\ StopIffDestroying /\ [Next]_vars
        => [Abstract!Next]_(Abstract!apVars)
  BY RefinementStep
<1>4. QED
  BY <1>1, <1>2, <1>3, TypeCorrect, HandOverCorrect, DestructorDrains, PTL
     DEF Spec, AbstractSpec, Abstract!Spec
=============================================================================
