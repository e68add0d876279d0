------------------------ MODULE ConcurrentQueueProofs ------------------------
(***************************************************************************)
(* Proofs about ConcurrentQueue for any number of producers and consumers  *)
(* and any capacity: its types, and that no wake-up is lost on either side *)
(* while the queue is open.                                                *)
(***************************************************************************)
EXTENDS ConcurrentQueue, FiniteSetTheorems, TLAPS

-----------------------------------------------------------------------------
(* The inductive invariant: as long as a thread that is about to block holds *)
(* the mutex, what it saw is true, whatever Close does.                      *)

SawTruth ==
  /\ \A c \in Consumers : thread[c] = "deciding" => size = 0
  /\ \A p \in Producers : thread[p] = "deciding" => size >= Capacity
  /\ ~closed => closer = "open"

IInv == TypeOK /\ SawTruth /\ PopNotLost /\ PushNotLost

-----------------------------------------------------------------------------
(* Counting. *)

\* Some threads of one side can be counted.
LEMMA SideCounts ==
  ASSUME NEW S, S \subseteq Producers \/ S \subseteq Consumers
  PROVE  IsFiniteSet(S) /\ Cardinality(S) \in Nat
BY ThreadsAssumption, FS_Subset, FS_CardinalityType

\* A finite set that gains at most an element, and one that loses at most one.
LEMMA GainOne ==
  ASSUME NEW S, IsFiniteSet(S), NEW t, t \notin S
  PROVE  Cardinality(S \cup {t}) = Cardinality(S) + 1
BY FS_AddElement

LEMMA LoseOne ==
  ASSUME NEW S, IsFiniteSet(S), NEW t, Cardinality(S) \in Nat
  PROVE  /\ Cardinality(S \ {t}) >= Cardinality(S) - 1
         /\ t \in S => Cardinality(S \ {t}) = Cardinality(S) - 1
BY FS_RemoveElement

-----------------------------------------------------------------------------
(* The initial states. *)

LEMMA InvInit == Init => IInv
<1> SUFFICES ASSUME Init PROVE IInv
  OBVIOUS
<1>1. \A t \in Threads : thread[t] = "idle"
  BY DEF Init
<1>0. Nobody \notin Threads
  BY ThreadsAssumption DEF Threads
<1>2. TypeOK
  <2>1. thread \in [Threads -> ThreadStates]
    BY DEF Init, ThreadStates
  <2>2. size \in Nat /\ (Capacity # 0 => size <= Capacity) /\ pushed \in 0..MaxItems
    BY BoundsAssumption DEF Init
  <2>3. \A t \in Threads : thread[t] = "deciding" <=> holder = t
    BY <1>0, <1>1 DEF Init
  <2> QED
    BY <2>1, <2>2, <2>3 DEF Init, TypeOK, CloserStates
<1>3. SawTruth /\ ConsumersIn("blocked") = {} /\ ProducersIn("blocked") = {}
  BY <1>1 DEF SawTruth, ConsumersIn, ProducersIn, Threads, Init
<1> QED
  BY <1>2, <1>3 DEF IInv, PopNotLost, PushNotLost

-----------------------------------------------------------------------------
(* Types. *)

\* notify_one, called by a thread that then goes idle, starts and ends no
\* decision.
LEMMA WakeOneKeeps ==
  ASSUME TypeOK, NEW t \in Threads, thread[t] # "deciding",
         NEW waiters, \A w \in waiters : w \in Threads /\ thread[w] = "blocked",
         NEW after \in WakeOne([thread EXCEPT ![t] = "idle"], waiters)
  PROVE  /\ after \in [Threads -> ThreadStates]
         /\ \A u \in Threads : after[u] = "deciding" <=> thread[u] = "deciding"
<1> DEFINE states == [thread EXCEPT ![t] = "idle"]
<1>1. thread \in [Threads -> ThreadStates]
  BY DEF TypeOK
<1>2. /\ states \in [Threads -> ThreadStates]
      /\ \A u \in Threads : states[u] = "deciding" <=> thread[u] = "deciding"
  BY <1>1 DEF ThreadStates
<1>3. CASE after = states
  BY <1>2, <1>3
<1>4. CASE \E w \in waiters : after = [states EXCEPT ![w] = "testing"]
  <2>1. PICK w \in waiters : after = [states EXCEPT ![w] = "testing"]
    BY <1>4
  <2>2. w \in Threads /\ thread[w] # "deciding"
    BY <2>1
  <2>3. after \in [Threads -> ThreadStates]
    BY <1>2, <2>1, <2>2 DEF ThreadStates
  <2>4. after[w] = "testing" /\ \A u \in Threads : u # w => after[u] = states[u]
    BY <1>2, <2>1, <2>2
  <2> QED
    BY <1>2, <2>2, <2>3, <2>4
<1> QED
  BY <1>3, <1>4 DEF WakeOne

\* The types of the next state, from what a step does to the threads.
LEMMA TypesFrom ==
  ASSUME TypeOK, size' = size, UNCHANGED <<pushed, closed, holder, closer, late>>,
         thread' \in [Threads -> ThreadStates],
         \A u \in Threads : thread'[u] = "deciding" <=> thread[u] = "deciding"
  PROVE  TypeOK'
BY DEF TypeOK

LEMMA TypeStep == TypeOK /\ [Next]_vars => TypeOK'
<1> SUFFICES ASSUME TypeOK, [Next]_vars PROVE TypeOK'
  OBVIOUS
<1>0. /\ Producers \subseteq Threads /\ Consumers \subseteq Threads
      /\ Nobody \notin Threads
  BY ThreadsAssumption DEF Threads
<1>1. thread \in [Threads -> ThreadStates]
  BY DEF TypeOK
<1>2. ASSUME NEW t \in Threads, Call(t) \/ SpuriousWakeup(t) \/ ReturnClosed(t)
      PROVE  TypeOK'
  <2>1. /\ thread' \in [Threads -> ThreadStates]
        /\ \A u \in Threads : thread'[u] = "deciding" <=> thread[u] = "deciding"
    BY <1>1, <1>2 DEF Call, SpuriousWakeup, ReturnClosed, ThreadStates
  <2> QED
    BY <1>2, <2>1, TypesFrom DEF Call, SpuriousWakeup, ReturnClosed
<1>3. ASSUME NEW t \in Threads, Block(t) PROVE TypeOK'
  <2>1. /\ thread' \in [Threads -> ThreadStates]
        /\ \A u \in Threads : u # t => thread'[u] = thread[u]
        /\ thread'[t] = "blocked"
    BY <1>1, <1>3 DEF Block, ThreadStates
  <2>2. \A u \in Threads : thread[u] = "deciding" <=> u = t
    BY <1>3 DEF Block, TypeOK
  <2> QED
    BY <1>0, <1>3, <2>1, <2>2 DEF Block, TypeOK
<1>4. ASSUME NEW t \in Threads, PushMustWait(t) \/ PopMustWait(t) PROVE TypeOK'
  <2>1. /\ thread' \in [Threads -> ThreadStates]
        /\ \A u \in Threads : u # t => thread'[u] = thread[u]
        /\ thread'[t] = "deciding"
    BY <1>1, <1>4 DEF PushMustWait, PopMustWait, ThreadStates
  <2>2. \A u \in Threads : thread[u] # "deciding"
    BY <1>0, <1>4 DEF PushMustWait, PopMustWait, TypeOK
  <2> QED
    BY <1>4, <2>1, <2>2 DEF PushMustWait, PopMustWait, TypeOK
<1>5. ASSUME NEW p \in Producers, PushAppends(p) PROVE TypeOK'
  <2>1. /\ thread' \in [Threads -> ThreadStates]
        /\ \A u \in Threads : thread'[u] = "deciding" <=> thread[u] = "deciding"
    BY <1>0, <1>1, <1>5 DEF PushAppends, ThreadStates
  <2>2. size' \in Nat /\ (Capacity # 0 => size' <= Capacity)
    BY <1>5, BoundsAssumption DEF PushAppends, Full, TypeOK
  <2>3. pushed' \in 0..MaxItems
    BY <1>5, BoundsAssumption DEF PushAppends, TypeOK
  <2> QED
    BY <1>5, <2>1, <2>2, <2>3 DEF PushAppends, TypeOK
<1>6. ASSUME NEW p \in Producers, NotifyPop(p) PROVE TypeOK'
  <2>1. \A w \in ConsumersIn("blocked") : w \in Threads /\ thread[w] = "blocked"
    BY <1>0 DEF ConsumersIn
  <2>2. /\ thread' \in [Threads -> ThreadStates]
        /\ \A u \in Threads : thread'[u] = "deciding" <=> thread[u] = "deciding"
    BY <1>0, <1>6, <2>1, WakeOneKeeps DEF NotifyPop
  <2> QED
    BY <1>6, <2>2, TypesFrom DEF NotifyPop
<1>7. ASSUME NEW c \in Consumers, WaitAndPop(c) \/ TryPop(c) PROVE TypeOK'
  <2>1. \A w \in ProducersIn("blocked") : w \in Threads /\ thread[w] = "blocked"
    BY <1>0 DEF ProducersIn
  <2>2. /\ thread' \in [Threads -> ThreadStates]
        /\ \A u \in Threads : thread'[u] = "deciding" <=> thread[u] = "deciding"
    BY <1>0, <1>7, <2>1, WakeOneKeeps DEF WaitAndPop, TryPop, PopFront
  <2>3. size' \in Nat /\ (Capacity # 0 => size' <= Capacity)
    BY <1>7, BoundsAssumption DEF WaitAndPop, TryPop, PopFront, TypeOK
  <2> QED
    BY <1>7, <2>2, <2>3 DEF WaitAndPop, TryPop, PopFront, TypeOK
<1>8. CASE StoreClosed
  BY <1>0, <1>8 DEF StoreClosed, TypeOK, CloserStates
<1>9. CASE NotifyPushers \/ NotifyPoppers
  <2>1. /\ thread' \in [Threads -> ThreadStates]
        /\ \A u \in Threads : thread'[u] = "deciding" <=> thread[u] = "deciding"
    BY <1>1, <1>9 DEF NotifyPushers, NotifyPoppers, WakeAll, ProducersIn, ConsumersIn,
                      ThreadStates
  <2> QED
    BY <1>9, <2>1 DEF NotifyPushers, NotifyPoppers, TypeOK, CloserStates
<1>10. CASE UNCHANGED vars
  BY <1>10 DEF vars, TypeOK
<1> QED
  BY <1>0, <1>2, <1>3, <1>4, <1>5, <1>6, <1>7, <1>8, <1>9, <1>10
  DEF Next, ProducerStep, ConsumerStep

LEMMA SawTruthStep == TypeOK /\ SawTruth /\ [Next]_vars => SawTruth'
<1> SUFFICES ASSUME TypeOK, SawTruth, [Next]_vars PROVE SawTruth'
  OBVIOUS
<1> USE DEF TypeOK, SawTruth
<1>0. Producers \subseteq Threads /\ Consumers \subseteq Threads /\ Nobody \notin Threads
  BY ThreadsAssumption DEF Threads
<1>1. ASSUME UNCHANGED size, closed' = closed, closer' = closer \/ closed,
             \A t \in Threads : thread'[t] = "deciding" => thread[t] = "deciding"
      PROVE  SawTruth'
  BY <1>0, <1>1
<1>2. ASSUME holder = Nobody, closed' = closed, closer' = closer,
             \A t \in Threads : thread'[t] # "deciding"
      PROVE  SawTruth'
  BY <1>0, <1>2
<1>3. ASSUME NEW t \in Threads,
             Call(t) \/ SpuriousWakeup(t) \/ ReturnClosed(t) \/ Block(t)
      PROVE  SawTruth'
  <2>1. \A u \in Threads : thread'[u] = "deciding" => thread[u] = "deciding"
    BY <1>3 DEF Call, SpuriousWakeup, ReturnClosed, Block
  <2> QED
    BY <1>1, <1>3, <2>1 DEF Call, SpuriousWakeup, ReturnClosed, Block
<1>4. ASSUME NEW p \in Producers, PushMustWait(p) PROVE SawTruth'
  <2>1. \A u \in Threads : u # p => thread'[u] = thread[u]
    BY <1>4 DEF PushMustWait
  <2> QED
    BY <1>0, <1>4, <2>1, ThreadsAssumption, BoundsAssumption DEF PushMustWait, Full
<1>5. ASSUME NEW c \in Consumers, PopMustWait(c) PROVE SawTruth'
  <2>1. \A u \in Threads : u # c => thread'[u] = thread[u]
    BY <1>5 DEF PopMustWait
  <2> QED
    BY <1>0, <1>5, <2>1, ThreadsAssumption DEF PopMustWait
<1>6. ASSUME NEW p \in Producers, PushAppends(p) PROVE SawTruth'
  <2>1. \A u \in Threads : thread'[u] # "deciding"
    BY <1>0, <1>6 DEF PushAppends
  <2> QED
    BY <1>2, <1>6, <2>1 DEF PushAppends
<1>7. ASSUME NEW p \in Producers, NotifyPop(p) PROVE SawTruth'
  <2>1. \A u \in Threads : thread'[u] = "deciding" => thread[u] = "deciding"
    BY <1>7 DEF NotifyPop, WakeOne, ConsumersIn
  <2> QED
    BY <1>1, <1>7, <2>1 DEF NotifyPop
<1>8. ASSUME NEW c \in Consumers, WaitAndPop(c) \/ TryPop(c) PROVE SawTruth'
  <2>1. \A u \in Threads : thread'[u] # "deciding"
    BY <1>0, <1>8 DEF WaitAndPop, TryPop, PopFront, WakeOne, ProducersIn
  <2> QED
    BY <1>2, <1>8, <2>1 DEF WaitAndPop, TryPop, PopFront
<1>9. CASE StoreClosed
  BY <1>9 DEF StoreClosed
<1>10. CASE NotifyPushers \/ NotifyPoppers
  <2>1. \A u \in Threads : thread'[u] = "deciding" => thread[u] = "deciding"
    BY <1>10 DEF NotifyPushers, NotifyPoppers, WakeAll
  <2> QED
    BY <1>10, <2>1, <1>0 DEF NotifyPushers, NotifyPoppers
<1>11. CASE UNCHANGED vars
  BY <1>11 DEF vars
<1> QED
  BY <1>0, <1>3, <1>4, <1>5, <1>6, <1>7, <1>8, <1>9, <1>10, <1>11
  DEF Next, ProducerStep, ConsumerStep

-----------------------------------------------------------------------------
(* No element waits behind a blocked consumer. *)

\* A step that takes no wake-up away and adds no element and no sleeper.
LEMMA PopKept ==
  ASSUME PopNotLost, UNCHANGED <<size, closed>>, size \in Nat,
         ProducersIn("notifying")' = ProducersIn("notifying"),
         ConsumersIn("testing") \subseteq ConsumersIn("testing")',
         ConsumersIn("blocked")' \subseteq ConsumersIn("blocked")
  PROVE  PopNotLost'
<1>1. /\ Cardinality(ProducersIn("notifying")) \in Nat
      /\ Cardinality(ConsumersIn("testing")) \in Nat
      /\ IsFiniteSet(ConsumersIn("testing")') /\ Cardinality(ConsumersIn("testing")') \in Nat
  BY SideCounts DEF ProducersIn, ConsumersIn
<1>2. ConsumersIn("testing") \in SUBSET ConsumersIn("testing")'
  OBVIOUS
<1>3. Cardinality(ConsumersIn("testing")) <= Cardinality(ConsumersIn("testing")')
  BY <1>1, <1>2, FS_Subset
<1>4. Cardinality(ProducersIn("notifying")') = Cardinality(ProducersIn("notifying"))
  OBVIOUS
<1> QED
  BY <1>1, <1>3, <1>4 DEF PopNotLost

LEMMA PopStep == TypeOK /\ TypeOK' /\ SawTruth /\ PopNotLost /\ [Next]_vars => PopNotLost'
<1> SUFFICES ASSUME TypeOK, TypeOK', SawTruth, PopNotLost, [Next]_vars,
                    ~closed', ConsumersIn("blocked")' # {}
             PROVE  PopNotLost'
  BY DEF PopNotLost
<1>0. /\ Producers \subseteq Threads /\ Consumers \subseteq Threads
      /\ Producers \cap Consumers = {}
  BY ThreadsAssumption DEF Threads
<1>a. thread \in [Threads -> ThreadStates] /\ size \in Nat /\ size' \in Nat
  BY DEF TypeOK
<1>b. /\ IsFiniteSet(ProducersIn("notifying")) /\ Cardinality(ProducersIn("notifying")) \in Nat
      /\ IsFiniteSet(ConsumersIn("testing")) /\ Cardinality(ConsumersIn("testing")) \in Nat
      /\ Cardinality(ProducersIn("notifying")') \in Nat
      /\ Cardinality(ConsumersIn("testing")') \in Nat
  BY SideCounts DEF ProducersIn, ConsumersIn
<1>1. CASE size' = 0
  BY <1>1, <1>b DEF PopNotLost
<1>2. ASSUME NEW t \in Threads, Call(t) \/ SpuriousWakeup(t) PROVE PopNotLost'
  <2>1. /\ ProducersIn("notifying")' = ProducersIn("notifying")
        /\ ConsumersIn("testing") \subseteq ConsumersIn("testing")'
        /\ ConsumersIn("blocked")' \subseteq ConsumersIn("blocked")
    BY <1>0, <1>a, <1>2 DEF Call, SpuriousWakeup, ProducersIn, ConsumersIn
  <2> QED
    BY <1>2, <1>a, <2>1, PopKept DEF Call, SpuriousWakeup
<1>3. ASSUME NEW c \in Consumers, Block(c) PROVE PopNotLost'
  BY <1>1, <1>3 DEF Block, SawTruth
<1>4. ASSUME NEW p \in Producers, Block(p) \/ PushMustWait(p) PROVE PopNotLost'
  <2>1. /\ ProducersIn("notifying")' = ProducersIn("notifying")
        /\ ConsumersIn("testing") \subseteq ConsumersIn("testing")'
        /\ ConsumersIn("blocked")' \subseteq ConsumersIn("blocked")
    BY <1>0, <1>a, <1>4 DEF Block, PushMustWait, ProducersIn, ConsumersIn
  <2> QED
    BY <1>4, <1>a, <2>1, PopKept DEF Block, PushMustWait
<1>5. ASSUME NEW c \in Consumers, PopMustWait(c) PROVE PopNotLost'
  BY <1>1, <1>5 DEF PopMustWait
<1>6. ASSUME NEW p \in Producers, PushAppends(p) PROVE PopNotLost'
  <2>1. /\ ProducersIn("notifying")' = ProducersIn("notifying") \cup {p}
        /\ p \notin ProducersIn("notifying")
        /\ ConsumersIn("testing")' = ConsumersIn("testing")
        /\ ConsumersIn("blocked")' = ConsumersIn("blocked")
    BY <1>0, <1>a, <1>6 DEF PushAppends, ProducersIn, ConsumersIn
  <2>2. Cardinality(ProducersIn("notifying")') = Cardinality(ProducersIn("notifying")) + 1
    BY <1>b, <2>1, GainOne
  <2>3. Cardinality(ConsumersIn("testing")') = Cardinality(ConsumersIn("testing"))
    BY <2>1
  <2> QED
    BY <1>6, <1>a, <1>b, <2>1, <2>2, <2>3 DEF PushAppends, PopNotLost
<1>7. ASSUME NEW p \in Producers, NotifyPop(p) PROVE PopNotLost'
  <2>1. /\ thread[p] = "notifying" /\ UNCHANGED <<size, closed>>
        /\ thread' \in WakeOne([thread EXCEPT ![p] = "idle"], ConsumersIn("blocked"))
    BY <1>7 DEF NotifyPop
  <2>2. ConsumersIn("blocked") # {}
    <3>1. CASE thread' = [thread EXCEPT ![p] = "idle"]
      BY <1>0, <1>a, <3>1 DEF ConsumersIn
    <3>2. CASE ConsumersIn("blocked") # {}
      BY <3>2
    <3> QED
      BY <2>1, <3>1, <3>2 DEF WakeOne
  <2>3. PICK c \in ConsumersIn("blocked") :
          thread' = [[thread EXCEPT ![p] = "idle"] EXCEPT ![c] = "testing"]
    BY <2>1, <2>2 DEF WakeOne
  <2>4. c \in Consumers /\ thread[c] = "blocked" /\ c # p
    BY <1>0, <2>3 DEF ConsumersIn
  <2>5. /\ thread'[p] = "idle" /\ thread'[c] = "testing"
        /\ \A u \in Threads : u \notin {p, c} => thread'[u] = thread[u]
    BY <1>0, <1>a, <2>3, <2>4
  <2>6. /\ ProducersIn("notifying")' = ProducersIn("notifying") \ {p}
        /\ p \in ProducersIn("notifying")
        /\ ConsumersIn("testing")' = ConsumersIn("testing") \cup {c}
        /\ c \notin ConsumersIn("testing")
    BY <1>0, <2>1, <2>4, <2>5 DEF ProducersIn, ConsumersIn
  <2>7. Cardinality(ProducersIn("notifying")') = Cardinality(ProducersIn("notifying")) - 1
    BY <1>b, <2>6, LoseOne
  <2>8. Cardinality(ConsumersIn("testing")') = Cardinality(ConsumersIn("testing")) + 1
    BY <1>b, <2>6, GainOne
  <2> QED
    BY <1>a, <1>b, <2>1, <2>2, <2>7, <2>8 DEF PopNotLost
<1>8. ASSUME NEW c \in Consumers, WaitAndPop(c) \/ TryPop(c) PROVE PopNotLost'
  <2>1. /\ thread[c] \in {"testing", "idle"} /\ size' = size - 1 /\ closed' = closed
        /\ thread' \in WakeOne([thread EXCEPT ![c] = "idle"], ProducersIn("blocked"))
    BY <1>8 DEF WaitAndPop, TryPop, PopFront
  <2>2. /\ ConsumersIn("blocked")' = ConsumersIn("blocked")
        /\ ProducersIn("notifying")' = ProducersIn("notifying")
        /\ ConsumersIn("testing")' = ConsumersIn("testing") \ {c}
    <3>1. CASE thread' = [thread EXCEPT ![c] = "idle"]
      BY <1>0, <1>a, <2>1, <3>1 DEF ProducersIn, ConsumersIn
    <3>2. ASSUME NEW p \in ProducersIn("blocked"),
                 thread' = [[thread EXCEPT ![c] = "idle"] EXCEPT ![p] = "testing"]
          PROVE  <2>2!1 /\ <2>2!2 /\ <2>2!3
      <4>1. p \in Producers /\ thread[p] = "blocked" /\ p # c
        BY <1>0 DEF ProducersIn
      <4>2. /\ thread'[c] = "idle" /\ thread'[p] = "testing"
            /\ \A u \in Threads : u \notin {p, c} => thread'[u] = thread[u]
        BY <1>0, <1>a, <3>2, <4>1
      <4> QED
        BY <1>0, <2>1, <4>1, <4>2 DEF ProducersIn, ConsumersIn
    <3> QED
      BY <2>1, <3>1, <3>2 DEF WakeOne
  <2>3. Cardinality(ConsumersIn("testing")') >= Cardinality(ConsumersIn("testing")) - 1
    BY <1>b, <2>2, LoseOne
  <2>4. Cardinality(ProducersIn("notifying")') = Cardinality(ProducersIn("notifying"))
    BY <2>2
  <2> QED
    BY <1>a, <1>b, <2>1, <2>2, <2>3, <2>4 DEF PopNotLost
<1>9. ASSUME NEW t \in Threads, ReturnClosed(t) PROVE FALSE
  BY <1>9 DEF ReturnClosed
<1>10. CASE StoreClosed \/ NotifyPushers \/ NotifyPoppers
  BY <1>10 DEF StoreClosed, NotifyPushers, NotifyPoppers, SawTruth
<1>11. CASE UNCHANGED vars
  BY <1>11 DEF vars, PopNotLost, ProducersIn, ConsumersIn
<1> QED
  BY <1>0, <1>2, <1>3, <1>4, <1>5, <1>6, <1>7, <1>8, <1>9, <1>10, <1>11
  DEF Next, ProducerStep, ConsumerStep

-----------------------------------------------------------------------------
(* No free place waits behind a blocked producer. *)

\* A step that takes no wake-up away, frees no place and adds no sleeper.
LEMMA PushKept ==
  ASSUME PushNotLost, UNCHANGED <<size, closed>>, size \in Nat,
         ProducersIn("testing") \subseteq ProducersIn("testing")',
         ProducersIn("blocked")' \subseteq ProducersIn("blocked")
  PROVE  PushNotLost'
<1>1. /\ Cardinality(ProducersIn("testing")) \in Nat
      /\ IsFiniteSet(ProducersIn("testing")') /\ Cardinality(ProducersIn("testing")') \in Nat
  BY SideCounts DEF ProducersIn
<1>2. ProducersIn("testing") \in SUBSET ProducersIn("testing")'
  OBVIOUS
<1>3. Cardinality(ProducersIn("testing")) <= Cardinality(ProducersIn("testing")')
  BY <1>1, <1>2, FS_Subset
<1> QED
  BY <1>1, <1>3, BoundsAssumption DEF PushNotLost

LEMMA PushStep == TypeOK /\ TypeOK' /\ SawTruth /\ PushNotLost /\ [Next]_vars => PushNotLost'
<1> SUFFICES ASSUME TypeOK, TypeOK', SawTruth, PushNotLost, [Next]_vars,
                    ~closed', ProducersIn("blocked")' # {}
             PROVE  PushNotLost'
  BY DEF PushNotLost
<1>0. /\ Producers \subseteq Threads /\ Consumers \subseteq Threads
      /\ Producers \cap Consumers = {}
  BY ThreadsAssumption DEF Threads
<1>a. thread \in [Threads -> ThreadStates] /\ size \in Nat /\ size' \in Nat
  BY DEF TypeOK
<1>b. /\ IsFiniteSet(ProducersIn("testing")) /\ Cardinality(ProducersIn("testing")) \in Nat
      /\ Cardinality(ProducersIn("testing")') \in Nat
  BY SideCounts DEF ProducersIn
<1>1. CASE size' >= Capacity
  BY <1>1, <1>a, <1>b, BoundsAssumption DEF PushNotLost
<1>2. ASSUME NEW t \in Threads, Call(t) \/ SpuriousWakeup(t) PROVE PushNotLost'
  <2>1. /\ ProducersIn("testing") \subseteq ProducersIn("testing")'
        /\ ProducersIn("blocked")' \subseteq ProducersIn("blocked")
    BY <1>0, <1>a, <1>2 DEF Call, SpuriousWakeup, ProducersIn
  <2> QED
    BY <1>2, <1>a, <2>1, PushKept DEF Call, SpuriousWakeup
<1>3. ASSUME NEW p \in Producers, Block(p) PROVE PushNotLost'
  BY <1>1, <1>3 DEF Block, SawTruth
<1>4. ASSUME NEW c \in Consumers, Block(c) \/ PopMustWait(c) PROVE PushNotLost'
  <2>1. /\ ProducersIn("testing") \subseteq ProducersIn("testing")'
        /\ ProducersIn("blocked")' \subseteq ProducersIn("blocked")
    BY <1>0, <1>a, <1>4 DEF Block, PopMustWait, ProducersIn
  <2> QED
    BY <1>4, <1>a, <2>1, PushKept DEF Block, PopMustWait
<1>5. ASSUME NEW p \in Producers, PushMustWait(p) PROVE PushNotLost'
  BY <1>1, <1>5 DEF PushMustWait, Full
<1>6. ASSUME NEW p \in Producers, PushAppends(p) PROVE PushNotLost'
  <2>1. /\ ProducersIn("testing")' = ProducersIn("testing") \ {p}
        /\ ProducersIn("blocked")' = ProducersIn("blocked")
    BY <1>0, <1>a, <1>6 DEF PushAppends, ProducersIn
  <2>2. Cardinality(ProducersIn("testing")') >= Cardinality(ProducersIn("testing")) - 1
    BY <1>b, <2>1, LoseOne
  <2> QED
    BY <1>6, <1>a, <1>b, <2>1, <2>2, BoundsAssumption DEF PushAppends, PushNotLost
<1>7. ASSUME NEW p \in Producers, NotifyPop(p) PROVE PushNotLost'
  <2>1. /\ thread[p] = "notifying" /\ UNCHANGED <<size, closed>>
        /\ thread' \in WakeOne([thread EXCEPT ![p] = "idle"], ConsumersIn("blocked"))
    BY <1>7 DEF NotifyPop
  <2>2. /\ ProducersIn("testing") \subseteq ProducersIn("testing")'
        /\ ProducersIn("blocked")' \subseteq ProducersIn("blocked")
    <3>1. CASE thread' = [thread EXCEPT ![p] = "idle"]
      BY <1>0, <1>a, <2>1, <3>1 DEF ProducersIn
    <3>2. ASSUME NEW c \in ConsumersIn("blocked"),
                 thread' = [[thread EXCEPT ![p] = "idle"] EXCEPT ![c] = "testing"]
          PROVE  <2>2!1 /\ <2>2!2
      <4>1. c \in Consumers /\ c \notin Producers
        BY <1>0 DEF ConsumersIn
      <4>2. /\ thread'[p] = "idle"
            /\ \A u \in Producers : u # p => thread'[u] = thread[u]
        BY <1>0, <1>a, <3>2, <4>1
      <4> QED
        BY <2>1, <4>2 DEF ProducersIn
    <3> QED
      BY <2>1, <3>1, <3>2 DEF WakeOne
  <2> QED
    BY <1>a, <2>1, <2>2, PushKept
<1>8. ASSUME NEW c \in Consumers, WaitAndPop(c) \/ TryPop(c) PROVE PushNotLost'
  <2>1. /\ size' = size - 1 /\ closed' = closed
        /\ thread' \in WakeOne([thread EXCEPT ![c] = "idle"], ProducersIn("blocked"))
    BY <1>8 DEF WaitAndPop, TryPop, PopFront
  <2>2. c \notin Producers
    BY <1>0
  <2>3. ProducersIn("blocked") # {}
    <3>1. CASE thread' = [thread EXCEPT ![c] = "idle"]
      BY <1>0, <1>a, <2>2, <3>1 DEF ProducersIn
    <3>2. CASE ProducersIn("blocked") # {}
      BY <3>2
    <3> QED
      BY <2>1, <3>1, <3>2 DEF WakeOne
  <2>4. PICK p \in ProducersIn("blocked") :
          thread' = [[thread EXCEPT ![c] = "idle"] EXCEPT ![p] = "testing"]
    BY <2>1, <2>3 DEF WakeOne
  <2>5. /\ p \in Producers /\ thread[p] = "blocked" /\ thread'[p] = "testing"
        /\ \A u \in Producers : u # p => thread'[u] = thread[u]
    BY <1>0, <1>a, <2>2, <2>4 DEF ProducersIn
  <2>6. /\ ProducersIn("testing")' = ProducersIn("testing") \cup {p}
        /\ p \notin ProducersIn("testing")
    BY <2>5 DEF ProducersIn
  <2>7. Cardinality(ProducersIn("testing")') = Cardinality(ProducersIn("testing")) + 1
    BY <1>b, <2>6, GainOne
  <2> QED
    BY <1>a, <1>b, <2>1, <2>3, <2>7, BoundsAssumption DEF PushNotLost
<1>9. ASSUME NEW t \in Threads, ReturnClosed(t) PROVE FALSE
  BY <1>9 DEF ReturnClosed
<1>10. CASE StoreClosed \/ NotifyPushers \/ NotifyPoppers
  BY <1>10 DEF StoreClosed, NotifyPushers, NotifyPoppers, SawTruth
<1>11. CASE UNCHANGED vars
  BY <1>11 DEF vars, PushNotLost, ProducersIn
<1> QED
  BY <1>0, <1>2, <1>3, <1>4, <1>5, <1>6, <1>7, <1>8, <1>9, <1>10, <1>11
  DEF Next, ProducerStep, ConsumerStep

-----------------------------------------------------------------------------
(* The theorems. *)

LEMMA Invariant == Spec => []IInv
<1>1. IInv /\ [Next]_vars => IInv'
  BY TypeStep, SawTruthStep, PopStep, PushStep DEF IInv
<1> QED
  BY InvInit, <1>1, PTL DEF Spec

\* The types of the queue: among them, that a bounded queue is never
\* overfull (concurent_queue.h:31-36).
THEOREM QueueTypes == Spec => []TypeOK
BY Invariant, PTL DEF IInv

\* On an open queue, no element is left behind a blocked consumer that nobody
\* is about to wake (concurent_queue.h:39, the notification after the unlock).
THEOREM NoPopLost == Spec => []PopNotLost
BY Invariant, PTL DEF IInv

\* On an open queue, no free place is left behind a blocked producer that
\* nobody is about to wake (concurent_queue.h:54, 65).
THEOREM NoPushLost == Spec => []PushNotLost
BY Invariant, PTL DEF IInv
=============================================================================
