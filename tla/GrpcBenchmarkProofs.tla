-------------------------- MODULE GrpcBenchmarkProofs ------------------------
(***************************************************************************)
(* Proofs about GrpcBenchmark for any number of clients and requests: its  *)
(* second counter covers what CompareCountCovers says, when all requests   *)
(* were answered in time a summary misses only what MissedOnlyBetween says *)
(* and hides only the verdicts VerdictInTime says, and both counters stay  *)
(* within the bounds of TypeOK.                                            *)
(***************************************************************************)
EXTENDS GrpcBenchmark, SequencesExt, FiniteSetTheorems, TLAPS

-----------------------------------------------------------------------------
(* The shapes of the state, without the bounds of TypeOK. *)

Ids == Requests \cup {Nothing}
CollectorStates == {"next", "uncounted", "announced", "exited"}
CalculatorStates == {"popping", "updating", "updated", "notifying", "judging", "exited"}

Shapes ==
  /\ made \in 0..NumRequests
  /\ comparing \in Int
  /\ closed \in BOOLEAN
  /\ requests \in [Clients -> Seq(Requests)]
  /\ responses \in Seq(Ids)
  /\ collector \in [Clients -> CollectorStates]
  /\ calculator \in CalculatorStates
  /\ held \in [Holders -> Ids]

\* A queue gives its first element and keeps the rest.
LEMMA FirstAndRest ==
  ASSUME NEW S, NEW s \in Seq(S), s # <<>>
  PROVE  /\ Head(s) \in S /\ Tail(s) \in Seq(S)
         /\ Len(Tail(s)) = Len(s) - 1 /\ Len(s) \in Nat \ {0}
OBVIOUS

LEMMA Threads ==
  /\ Calculator \in Holders
  /\ \A c \in Clients : <<"worker", c>> \in Holders /\ <<"collector", c>> \in Holders
BY DEF Calculator, Holders

LEMMA ShapesInit == Init => Shapes
<1> SUFFICES ASSUME Init PROVE Shapes
  OBVIOUS
<1>1. made \in 0..NumRequests /\ comparing \in Int
  <2>1. made = 0 /\ comparing = 0
    BY DEF Init
  <2> QED
    BY <2>1, SizesAssumption
<1>2. requests \in [Clients -> Seq(Requests)] /\ responses \in Seq(Ids)
  BY DEF Init
<1>3. collector \in [Clients -> CollectorStates] /\ calculator \in CalculatorStates
  BY DEF Init, CollectorStates, CalculatorStates
<1>4. held \in [Holders -> Ids]
  BY DEF Init, Ids
<1>5. closed \in BOOLEAN
  BY Zenon DEF Init
<1> QED
  BY <1>1, <1>2, <1>3, <1>4, <1>5 DEF Shapes

LEMMA ShapesStep == Shapes /\ [Next]_vars => Shapes'
<1> SUFFICES ASSUME Shapes, [Next]_vars PROVE Shapes'
  OBVIOUS
<1> USE DEF Shapes, run, counters, queues, threads, results
<1>1. CASE MakeRequest
  <2>1. made + 1 \in Requests
    BY <1>1, SizesAssumption DEF MakeRequest, Requests
  <2>2. \A d \in Clients : Append(requests[d], made + 1) \in Seq(Requests)
    BY <2>1
  <2>3. requests' = [requests EXCEPT ![made % NumClients] = Append(@, made + 1)]
    BY <1>1 DEF MakeRequest
  <2>4. requests' \in [Clients -> Seq(Requests)]
    BY <2>2, <2>3
  <2> QED
    BY <1>1, <2>1, <2>4 DEF MakeRequest, Requests
<1>2. CASE BeginWait \/ EndWait \/ SummaryPasses \/ SummaryMustWait \/ SummaryBlocks
  BY <1>2 DEF BeginWait, EndWait, SummaryPasses, SummaryMustWait, SummaryBlocks
<1>3. CASE CloseResponses \/ Destroy \/ CloseClient \/ Join \/ SpuriousWakeup
  BY <1>3 DEF CloseResponses, Destroy, CloseClient, Join, SpuriousWakeup
<1>4. ASSUME NEW c \in Clients, TestEnable(c) \/ BeginCall(c) PROVE Shapes'
  BY <1>4 DEF TestEnable, BeginCall
<1>5. ASSUME NEW c \in Clients, PopRequest(c) PROVE Shapes'
  <2>1. CASE UNCHANGED <<requests, held>>
    BY <1>5, <2>1 DEF PopRequest
  <2>2. CASE /\ requests[c] # <<>>
             /\ held' = [held EXCEPT ![<<"worker", c>>] = Head(requests[c])]
             /\ requests' = [requests EXCEPT ![c] = Tail(@)]
    <3>1. Head(requests[c]) \in Ids /\ Tail(requests[c]) \in Seq(Requests)
      BY <2>2, FirstAndRest DEF Ids
    <3>2. held' \in [Holders -> Ids] /\ requests' \in [Clients -> Seq(Requests)]
      BY <2>2, <3>1
    <3> QED
      BY <1>5, <3>2 DEF PopRequest
  <2> QED
    BY <1>5, <2>1, <2>2 DEF PopRequest
<1>6. ASSUME NEW c \in Clients, SendRequest(c) \/ EndCall(c) PROVE Shapes'
  BY <1>6 DEF SendRequest, EndCall, Ids
<1>7. ASSUME NEW c \in Clients, NEW r \in Requests, Collect(c, r) PROVE Shapes'
  BY <1>7 DEF Collect, Ids, CollectorStates
<1>8. ASSUME NEW c \in Clients, Announce(c) \/ CollectorExits(c) PROVE Shapes'
  <2>1. collector' \in [Clients -> CollectorStates]
    BY <1>8 DEF Announce, CollectorExits, CollectorStates
  <2>2. comparing' \in Int
    BY <1>8 DEF Announce, CollectorExits
  <2>3. UNCHANGED <<made, closed, requests, responses, calculator, held>>
    BY <1>8 DEF Announce, CollectorExits
  <2> QED
    BY <2>1, <2>2, <2>3
<1>9. ASSUME NEW c \in Clients, PushResponse(c) PROVE Shapes'
  <2>1. held[<<"collector", c>>] \in Ids
    BY Threads
  <2>2. Append(responses, held[<<"collector", c>>]) \in Seq(Ids)
    BY <2>1
  <2>3. responses' \in Seq(Ids)
    BY <1>9, <2>2 DEF PushResponse
  <2> QED
    BY <1>9, <2>3 DEF PushResponse, Ids, CollectorStates
<1>10. CASE PopResponse
  <2>1. CASE UNCHANGED <<responses, held>>
    BY <1>10, <2>1 DEF PopResponse, CalculatorStates
  <2>2. CASE /\ responses # <<>>
             /\ held' = [held EXCEPT ![Calculator] = Head(responses)]
             /\ responses' = Tail(responses)
    <3>1. Head(responses) \in Ids /\ Tail(responses) \in Seq(Ids)
      BY <2>2, FirstAndRest
    <3> QED
      BY <1>10, <2>2, <3>1 DEF PopResponse, CalculatorStates
  <2> QED
    BY <1>10, <2>1, <2>2 DEF PopResponse
<1>11. CASE UpdateSummary \/ EndCompare \/ NotifySummary \/ Judge
  BY <1>11 DEF UpdateSummary, EndCompare, NotifySummary, Judge, CalculatorStates, Ids
<1>12. CASE UNCHANGED vars
  BY <1>12 DEF vars
<1> QED
  BY <1>1, <1>2, <1>3, <1>4, <1>5, <1>6, <1>7, <1>8, <1>9, <1>10, <1>11, <1>12
  DEF Next, DriverStep, WorkerStep, CollectorStep, CalculatorStep

-----------------------------------------------------------------------------
(* The second counter. *)

Announced == {c \in Clients : collector[c] = "announced"}
AtWork == IF calculator \in {"updating", "updated"} THEN 1 ELSE 0

\* Sets of clients are finite.
LEMMA ClientSets ==
  ASSUME NEW S, S \subseteq Clients
  PROVE  IsFiniteSet(S) /\ Cardinality(S) \in Nat
<1>1. IsFiniteSet(Clients)
  BY FS_Interval, SizesAssumption DEF Clients
<1> QED
  BY <1>1, FS_Subset, FS_CardinalityType

LEMMA CountInit == Init => CompareCountCovers
<1> SUFFICES ASSUME Init PROVE CompareCountCovers
  OBVIOUS
<1>1. Announced = {} /\ AtWork = 0 /\ Len(responses) = 0 /\ comparing = 0
  BY DEF Init, Announced, AtWork
<1> QED
  BY <1>1, FS_EmptySet DEF CompareCountCovers, Announced, AtWork

\* A step of other threads, or after the close, says nothing about the count.
LEMMA CountKept ==
  ASSUME CompareCountCovers, UNCHANGED <<comparing, responses>>,
         \A c \in Clients : collector[c] = "announced" <=> collector'[c] = "announced",
         AtWork' = AtWork, closed => closed'
  PROVE  CompareCountCovers'
<1>1. Announced' = Announced
  BY DEF Announced
<1> QED
  BY <1>1 DEF CompareCountCovers, Announced, AtWork

LEMMA CountStep == Shapes /\ CompareCountCovers /\ [Next]_vars => CompareCountCovers'
<1> SUFFICES ASSUME Shapes, CompareCountCovers, [Next]_vars PROVE CompareCountCovers'
  OBVIOUS
<1> USE DEF Shapes, run, counters, queues, threads, results
<1>0. Len(responses) \in Nat /\ Cardinality(Announced) \in Nat
  BY ClientSets DEF Announced
<1>1. CASE MakeRequest \/ BeginWait \/ EndWait \/ SummaryPasses \/ SummaryMustWait \/ SummaryBlocks
  BY <1>1, CountKept
  DEF MakeRequest, BeginWait, EndWait, SummaryPasses, SummaryMustWait, SummaryBlocks, AtWork
<1>2. CASE CloseResponses
  BY <1>2 DEF CloseResponses, CompareCountCovers
<1>3. CASE Destroy \/ CloseClient \/ Join \/ SpuriousWakeup
  BY <1>3, CountKept DEF Destroy, CloseClient, Join, SpuriousWakeup, AtWork
<1>4. ASSUME NEW c \in Clients, WorkerStep(c) PROVE CompareCountCovers'
  <2>1. UNCHANGED <<comparing, responses, closed, collector, calculator>>
    BY <1>4 DEF WorkerStep, TestEnable, PopRequest, SendRequest, BeginCall, EndCall
  <2> QED
    BY <2>1, CountKept DEF AtWork
<1>5. ASSUME NEW c \in Clients, NEW r \in Requests, Collect(c, r) PROVE CompareCountCovers'
  BY <1>5, CountKept DEF Collect, Takes, AtWork
<1>6. ASSUME NEW c \in Clients, CollectorExits(c) PROVE CompareCountCovers'
  BY <1>6, CountKept DEF CollectorExits, AtWork
<1>7. ASSUME NEW c \in Clients, Announce(c) PROVE CompareCountCovers'
  <2>1. Announced' = Announced \cup {c} /\ c \notin Announced
    BY <1>7 DEF Announce, Announced
  <2>2. Cardinality(Announced') = Cardinality(Announced) + 1
    BY <2>1, ClientSets, FS_AddElement DEF Announced
  <2>3. comparing' = comparing + 1 /\ UNCHANGED <<responses, closed, calculator>>
    BY <1>7 DEF Announce
  <2> QED
    BY <1>0, <2>2, <2>3 DEF CompareCountCovers, Announced
<1>8. ASSUME NEW c \in Clients, PushResponse(c) PROVE CompareCountCovers'
  <2> SUFFICES ASSUME ~closed PROVE CompareCountCovers'
    BY <1>8 DEF PushResponse, CompareCountCovers
  <2>1. Announced' = Announced \ {c} /\ c \in Announced
    BY <1>8 DEF PushResponse, Announced
  <2>2. Cardinality(Announced') = Cardinality(Announced) - 1
    <3>1. IsFiniteSet(Announced)
      BY ClientSets DEF Announced
    <3> QED
      BY <2>1, <3>1, FS_RemoveElement
  <2>3. Len(responses') = Len(responses) + 1
    BY <1>8, Threads DEF PushResponse
  <2>4. UNCHANGED <<comparing, closed, calculator>>
    BY <1>8 DEF PushResponse
  <2> QED
    BY <1>0, <2>2, <2>3, <2>4 DEF CompareCountCovers, Announced
<1>9. CASE PopResponse
  <2>1. UNCHANGED <<comparing, closed, collector>>
    BY <1>9 DEF PopResponse
  <2>2. CASE closed
    BY <2>1, <2>2 DEF CompareCountCovers
  <2>3. CASE ~closed
    <3>1. Len(responses') = Len(responses) - 1
      BY <1>9, <2>3, FirstAndRest DEF PopResponse
    <3>2. AtWork = 0 /\ AtWork' = 1
      BY <1>9, <2>3 DEF PopResponse, AtWork
    <3>3. Announced' = Announced
      BY <2>1 DEF Announced
    <3> QED
      BY <1>0, <2>1, <3>1, <3>2, <3>3 DEF CompareCountCovers, Announced, AtWork
  <2> QED
    BY <2>2, <2>3
<1>10. CASE UpdateSummary
  BY <1>10, CountKept DEF UpdateSummary, AtWork
<1>11. CASE EndCompare
  <2>1. comparing' = comparing - 1 /\ UNCHANGED <<responses, collector, closed>>
    BY <1>11 DEF EndCompare
  <2>2. AtWork = 1 /\ AtWork' = 0 /\ Announced' = Announced
    BY <1>11 DEF EndCompare, AtWork, Announced
  <2> QED
    BY <1>0, <2>1, <2>2 DEF CompareCountCovers, Announced, AtWork
<1>12. CASE NotifySummary \/ Judge
  BY <1>12, CountKept DEF NotifySummary, Judge, AtWork
<1>13. CASE UNCHANGED vars
  BY <1>13, CountKept DEF vars, AtWork
<1> QED
  BY <1>1, <1>2, <1>3, <1>4, <1>5, <1>6, <1>7, <1>8, <1>9, <1>10, <1>11, <1>12, <1>13
  DEF Next, DriverStep, CollectorStep, CalculatorStep

\* Until responses_ is closed, pending_compare_num_ is the number of responses
\* queued, about to be, or at the calculator (grpc_benchmark.h:172, 189).
THEOREM CountCovers == Spec => []CompareCountCovers
<1>1. Shapes /\ CompareCountCovers /\ [Next]_vars => (Shapes /\ CompareCountCovers)'
  BY ShapesStep, CountStep
<1> QED
  BY <1>1, ShapesInit, CountInit, PTL DEF Spec

-----------------------------------------------------------------------------
(* How far the driver is, and who holds a request. *)

DriverStates == {"requesting", "waiting", "testing", "deciding", "blocked", "closing",
                 "summed", "destroying", "destroyed"}
WorkerStates == {"looping", "popping", "sending", "calling", "exited"}

\* The shapes of the rest, and how far the driver is.
Standing ==
  /\ driver \in DriverStates
  /\ shut \in Nat
  /\ pending \in Int
  /\ enable \in BOOLEAN /\ interrupted \in BOOLEAN
  /\ inTime \in BOOLEAN /\ reported \in BOOLEAN
  /\ worker \in [Clients -> WorkerStates]
  /\ sent \in [Clients -> SUBSET Requests]
  /\ counted \subseteq Requests

\* The flags agree with how far the driver is.
Phases ==
  /\ closed <=> driver \in {"summed", "destroying", "destroyed"}
  /\ ~Destroying => shut = 0
  /\ driver # "requesting" => made = NumRequests
  /\ driver \in {"requesting", "waiting"} /\ ~enable => interrupted
  /\ driver = "summed" /\ reported => interrupted

\* A thread holds a request from when it took it until it passed it on.
Busy ==
  /\ \A c \in Clients :
       /\ held[<<"worker", c>>] # Nothing <=> worker[c] \in {"sending", "calling"}
       /\ held[<<"collector", c>>] # Nothing <=> collector[c] \in {"uncounted", "announced"}
  /\ held[Calculator] # Nothing <=>
       calculator \in {"updating", "updated", "notifying", "judging"}
  /\ \A i \in DOMAIN responses : responses[i] # Nothing

\* MakeRequest goes round the clients.
LEMMA TurnOf ==
  ASSUME made \in Nat
  PROVE made % NumClients \in Clients
BY SizesAssumption DEF Clients

LEMMA StandingInit == Init => Standing
<1> SUFFICES ASSUME Init PROVE Standing
  OBVIOUS
<1>1. /\ enable \in BOOLEAN /\ interrupted \in BOOLEAN
      /\ inTime \in BOOLEAN /\ reported \in BOOLEAN
  BY Zenon DEF Init
<1>2. worker \in [Clients -> WorkerStates] /\ sent \in [Clients -> SUBSET Requests]
  BY DEF Init, WorkerStates
<1> QED
  BY <1>1, <1>2 DEF Init, Standing, DriverStates

LEMMA PhasesInit == Init => Phases
<1> SUFFICES ASSUME Init PROVE Phases
  OBVIOUS
<1> QED
  BY DEF Init, Phases, Destroying

LEMMA BusyInit == Init => Busy
BY Threads DEF Init, Busy

LEMMA StandingStep == Shapes /\ Busy /\ Standing /\ [Next]_vars => Standing'
<1> SUFFICES ASSUME Shapes, Busy, Standing, [Next]_vars PROVE Standing'
  OBVIOUS
<1> USE DEF Standing, run, counters, queues, threads, results
<1>0. CASE MakeRequest \/ BeginWait
  BY <1>0 DEF MakeRequest, BeginWait, DriverStates
<1>1. CASE EndWait
  <2>1. enable' \in BOOLEAN /\ inTime' \in BOOLEAN
    BY <1>1, Zenon DEF EndWait, AllAnswered
  <2> QED
    BY <1>1, <2>1 DEF EndWait, DriverStates
<1>2. CASE SummaryPasses \/ SummaryMustWait \/ SummaryBlocks
  BY <1>2 DEF SummaryPasses, SummaryMustWait, SummaryBlocks, DriverStates
<1>3. CASE CloseResponses \/ CloseClient \/ Join \/ SpuriousWakeup
  BY <1>3 DEF CloseResponses, CloseClient, Join, SpuriousWakeup, DriverStates
<1>11. CASE Destroy
  <2>1. enable' \in BOOLEAN /\ inTime' \in BOOLEAN /\ reported' \in BOOLEAN
    BY <1>11, Zenon DEF Destroy
  <2> QED
    BY <1>11, <2>1 DEF Destroy, DriverStates
<1>4. ASSUME NEW c \in Clients, TestEnable(c) \/ BeginCall(c) \/ PopRequest(c) PROVE Standing'
  BY <1>4 DEF TestEnable, BeginCall, PopRequest, WorkerStates
<1>5. ASSUME NEW c \in Clients, SendRequest(c) \/ EndCall(c) PROVE Standing'
  <2>1. held[<<"worker", c>>] \in Requests
    BY <1>5, Threads DEF SendRequest, EndCall, Shapes, Busy, Ids
  <2>2. sent' \in [Clients -> SUBSET Requests]
    BY <1>5, <2>1 DEF SendRequest, EndCall
  <2> QED
    BY <1>5, <2>2 DEF SendRequest, EndCall, WorkerStates
<1>6. ASSUME NEW c \in Clients, NEW r \in Requests, Collect(c, r) PROVE Standing'
  BY <1>6 DEF Collect
<1>7. ASSUME NEW c \in Clients, Announce(c) \/ PushResponse(c) \/ CollectorExits(c)
      PROVE  Standing'
  BY <1>7 DEF Announce, PushResponse, CollectorExits
<1>8. CASE PopResponse \/ EndCompare
  BY <1>8 DEF PopResponse, EndCompare
<1>9. CASE UpdateSummary
  <2>1. held[Calculator] \in Requests
    BY <1>9, Threads DEF UpdateSummary, Shapes, Busy, Ids
  <2> QED
    BY <1>9, <2>1 DEF UpdateSummary
<1>10. CASE NotifySummary \/ Judge
  BY <1>10 DEF NotifySummary, Judge, DriverStates
<1>12. CASE UNCHANGED vars
  BY <1>12 DEF vars
<1> QED
  BY <1>0, <1>1, <1>2, <1>3, <1>4, <1>5, <1>6, <1>7, <1>8, <1>9, <1>10, <1>11, <1>12
  DEF Next, DriverStep, WorkerStep, CollectorStep, CalculatorStep

LEMMA PhasesStep == Shapes /\ Standing /\ Phases /\ [Next]_vars => Phases'
<1> SUFFICES ASSUME Shapes, Standing, Phases, [Next]_vars PROVE Phases'
  OBVIOUS
<1> USE DEF Standing, run, counters, queues, threads, results, Phases, Destroying
<1>1. CASE MakeRequest \/ BeginWait
  BY <1>1 DEF MakeRequest, BeginWait, DriverStates
<1>2. CASE EndWait
  BY <1>2 DEF EndWait, DriverStates
<1>3. CASE SummaryPasses \/ SummaryMustWait \/ SummaryBlocks
  BY <1>3 DEF SummaryPasses, SummaryMustWait, SummaryBlocks, DriverStates
<1>4. CASE CloseResponses
  BY <1>4 DEF CloseResponses
<1>5. CASE Destroy \/ CloseClient \/ Join \/ SpuriousWakeup
  BY <1>5 DEF Destroy, CloseClient, Join, SpuriousWakeup, DriverStates
<1>6. ASSUME NEW c \in Clients, WorkerStep(c) \/ CollectorStep(c) PROVE Phases'
  <2>1. UNCHANGED <<driver, made, shut, closed, enable, interrupted, reported>>
    BY <1>6 DEF WorkerStep, TestEnable, PopRequest, SendRequest, BeginCall, EndCall,
      CollectorStep, Collect, Announce, PushResponse, CollectorExits
  <2> QED
    BY <2>1
<1>7. CASE PopResponse \/ UpdateSummary \/ EndCompare \/ NotifySummary
  BY <1>7 DEF PopResponse, UpdateSummary, EndCompare, NotifySummary, DriverStates
<1>8. CASE Judge
  BY <1>8 DEF Judge
<1>9. CASE UNCHANGED vars
  BY <1>9 DEF vars
<1> QED
  BY <1>1, <1>2, <1>3, <1>4, <1>5, <1>6, <1>7, <1>8, <1>9
  DEF Next, DriverStep, CalculatorStep

LEMMA BusyStep == Shapes /\ Standing /\ Busy /\ [Next]_vars => Busy'
<1> SUFFICES ASSUME Shapes, Standing, Busy, [Next]_vars PROVE Busy'
  OBVIOUS
<1> USE DEF run, counters, queues, threads, results
<1>1. CASE DriverStep \/ SpuriousWakeup
  <2>1. CASE \/ MakeRequest \/ BeginWait \/ EndWait
             \/ SummaryPasses \/ SummaryMustWait \/ SummaryBlocks
    BY <2>1 DEF MakeRequest, BeginWait, EndWait, SummaryPasses, SummaryMustWait, SummaryBlocks, Busy
  <2>2. CASE CloseResponses \/ Destroy \/ CloseClient \/ Join \/ SpuriousWakeup
    BY <2>2 DEF CloseResponses, Destroy, CloseClient, Join, SpuriousWakeup, Busy
  <2> QED
    BY <1>1, <2>1, <2>2 DEF DriverStep
<1> USE DEF Shapes, Standing, Busy
<1>2. ASSUME NEW c \in Clients, TestEnable(c) \/ BeginCall(c) PROVE Busy'
  BY <1>2 DEF TestEnable, BeginCall
<1>3. ASSUME NEW c \in Clients, PopRequest(c) PROVE Busy'
  <2>1. CASE worker' = [worker EXCEPT ![c] = "exited"] /\ UNCHANGED held
    BY <1>3, <2>1 DEF PopRequest
  <2>2. CASE /\ requests[c] # <<>>
             /\ held' = [held EXCEPT ![<<"worker", c>>] = Head(requests[c])]
             /\ worker' = [worker EXCEPT ![c] = "sending"]
    <3>1. Head(requests[c]) \in Requests
      BY <2>2, FirstAndRest
    <3>2. Head(requests[c]) # Nothing
      BY <3>1 DEF Requests, Nothing
    <3> QED
      BY <1>3, <2>2, <3>2, Threads DEF PopRequest, Calculator
  <2> QED
    BY <1>3, <2>1, <2>2 DEF PopRequest
<1>4. ASSUME NEW c \in Clients, SendRequest(c) \/ EndCall(c) PROVE Busy'
  BY <1>4, Threads DEF SendRequest, EndCall, Calculator
<1>5. ASSUME NEW c \in Clients, NEW r \in Requests, Collect(c, r) PROVE Busy'
  <2>1. r # Nothing
    BY DEF Requests, Nothing
  <2> QED
    BY <1>5, <2>1, Threads DEF Collect, Takes, Calculator, CollectorStates
<1>6. ASSUME NEW c \in Clients, Announce(c) \/ CollectorExits(c) PROVE Busy'
  BY <1>6 DEF Announce, CollectorExits
<1>7. ASSUME NEW c \in Clients, PushResponse(c) PROVE Busy'
  <2>1. \A i \in DOMAIN responses' : responses'[i] # Nothing
    <3> DEFINE r == held[<<"collector", c>>]
    <3>1. r \in Ids /\ r # Nothing
      BY <1>7, Threads DEF PushResponse
    <3>2. \A i \in DOMAIN Append(responses, r) : Append(responses, r)[i] # Nothing
      BY <3>1
    <3> QED
      BY <1>7, <3>2 DEF PushResponse
  <2> QED
    BY <1>7, <2>1, Threads DEF PushResponse, Calculator
<1>8. CASE PopResponse
  <2>1. CASE UNCHANGED <<responses, held>>
    BY <1>8, <2>1 DEF PopResponse
  <2>2. CASE /\ responses # <<>>
             /\ held' = [held EXCEPT ![Calculator] = Head(responses)]
             /\ responses' = Tail(responses)
             /\ calculator' = "updating"
    <3>1. Head(responses) # Nothing /\ \A i \in DOMAIN responses' : responses'[i] # Nothing
      BY <2>2
    <3> QED
      BY <1>8, <2>2, <3>1, Threads DEF PopResponse, Calculator
  <2> QED
    BY <1>8, <2>1, <2>2 DEF PopResponse
<1>9. CASE UpdateSummary \/ EndCompare \/ NotifySummary
  BY <1>9 DEF UpdateSummary, EndCompare, NotifySummary
<1>10. CASE Judge
  BY <1>10, Threads DEF Judge, Calculator
<1>11. CASE UNCHANGED vars
  BY <1>11 DEF vars
<1> QED
  BY <1>1, <1>2, <1>3, <1>4, <1>5, <1>6, <1>7, <1>8, <1>9, <1>10, <1>11
  DEF Next, WorkerStep, CollectorStep, CalculatorStep

-----------------------------------------------------------------------------
(* The requests that no collector has taken, and the first counter. *)

\* What taking the first element and adding a last one do to the elements.
LEMMA FirstOut ==
  ASSUME NEW S, NEW s \in Seq(S), s # <<>>
  PROVE  /\ ToSet(s) = {Head(s)} \cup ToSet(Tail(s))
         /\ IsInjective(s) => IsInjective(Tail(s)) /\ Head(s) \notin ToSet(Tail(s))
<1> DEFINE t == Tail(s)
<1>1. /\ 1 \in DOMAIN s /\ Head(s) = s[1] /\ DOMAIN t \subseteq Nat \ {0} /\ DOMAIN s \subseteq Nat
      /\ \A i \in DOMAIN t : i + 1 \in DOMAIN s /\ t[i] = s[i + 1]
      /\ \A i \in DOMAIN s : i = 1 \/ (i - 1 \in DOMAIN t /\ t[i - 1] = s[i])
  OBVIOUS
<1> HIDE DEF t
<1>2. ToSet(s) = {Head(s)} \cup ToSet(t)
  <2>1. ASSUME NEW x \in ToSet(s) PROVE x = Head(s) \/ x \in ToSet(t)
    <3>1. PICK i \in DOMAIN s : x = s[i]
      BY <2>1 DEF ToSet
    <3> QED
      BY <1>1, <3>1 DEF ToSet
  <2>2. Head(s) \in ToSet(s)
    BY <1>1 DEF ToSet
  <2>3. ToSet(t) \subseteq ToSet(s)
    BY <1>1 DEF ToSet
  <2> QED
    BY <2>1, <2>2, <2>3
<1>3. IsInjective(s) => IsInjective(t)
  BY <1>1 DEF IsInjective
<1>4. IsInjective(s) => Head(s) \notin ToSet(t)
  BY <1>1 DEF IsInjective, ToSet
<1> QED
  BY <1>2, <1>3, <1>4 DEF t

LEMMA LastIn ==
  ASSUME NEW S, NEW s \in Seq(S), NEW x \in S
  PROVE  /\ ToSet(Append(s, x)) = ToSet(s) \cup {x}
         /\ IsInjective(s) /\ x \notin ToSet(s) => IsInjective(Append(s, x))
<1> DEFINE t == Append(s, x)
<1>1. /\ Len(s) + 1 \in DOMAIN t /\ t[Len(s) + 1] = x
      /\ \A i \in DOMAIN s : i \in DOMAIN t /\ t[i] = s[i]
      /\ \A i \in DOMAIN t : i = Len(s) + 1 \/ i \in DOMAIN s
  OBVIOUS
<1> HIDE DEF t
<1>2. ToSet(t) = ToSet(s) \cup {x}
  BY <1>1 DEF ToSet
<1>3. IsInjective(s) /\ x \notin ToSet(s) => IsInjective(t)
  BY <1>1 DEF IsInjective, ToSet
<1> QED
  BY <1>2, <1>3 DEF t

\* The client MakeRequest gives a request to.
Owner(r) == (r - 1) % NumClients

\* Requests of client c that its collector has not taken.
Mine(c) == ToSet(requests[c]) \cup ({held[<<"worker", c>>]} \ {Nothing}) \cup sent[c]

\* Until then a request is at one place only.
Apart ==
  \A c \in Clients :
    /\ Mine(c) \subseteq 1..made
    /\ \A r \in Mine(c) : Owner(r) = c
    /\ IsInjective(requests[c])
    /\ ToSet(requests[c]) \cap sent[c] = {}
    /\ held[<<"worker", c>>] \notin ToSet(requests[c]) \cup sent[c]

Outstanding == UNION {Mine(c) : c \in Clients}

\* Where the steps leave the requests: as they were; one more; handed from
\* the queue to the worker; on to the calls, or dropped; taken.
LEMMA MineKept ==
  ASSUME Apart, UNCHANGED <<made, requests, sent>>,
         \A c \in Clients : held'[<<"worker", c>>] = held[<<"worker", c>>]
  PROVE  Apart' /\ Outstanding' = Outstanding
<1>1. \A c \in Clients : Mine(c)' = Mine(c)
  BY DEF Mine
<1> QED
  BY <1>1 DEF Apart, Outstanding

LEMMA MineMade ==
  ASSUME Shapes, Standing, Apart, MakeRequest
  PROVE  /\ Apart' /\ made + 1 \in Requests /\ made' = made + 1
         /\ made + 1 \notin Outstanding /\ Outstanding' = Outstanding \cup {made + 1}
<1> USE DEF run, counters, queues, threads, results
<1>0. made \in Nat /\ made + 1 \in Requests
  BY SizesAssumption DEF MakeRequest, Requests, Shapes
<1> PICK r \in Requests : r = made + 1
  BY <1>0
<1> PICK c \in Clients : c = made % NumClients
  BY <1>0, TurnOf
<1> DEFINE q == requests[c]
<1>1. r \notin 1..made /\ 1..r = 1..made \cup {r} /\ r # 0
  BY <1>0
<1>2. Owner(r) = c
  <2>1. r - 1 = made
    BY <1>0
  <2> QED
    BY <2>1 DEF Owner
<1>3. /\ requests' = [requests EXCEPT ![c] = Append(q, r)]
      /\ made' = r /\ UNCHANGED <<held, sent>>
  BY DEF MakeRequest
<1>4. q \in Seq(Requests) /\ requests'[c] = Append(q, r)
      /\ \A d \in Clients \ {c} : requests'[d] = requests[d]
  BY <1>2, <1>3 DEF Shapes
<1>5. /\ ToSet(requests'[c]) = ToSet(q) \cup {r}
      /\ IsInjective(q) /\ r \notin ToSet(q) => IsInjective(requests'[c])
  BY <1>1, <1>4, LastIn
<1>6. Mine(c)' = Mine(c) \cup {r}
  BY <1>3, <1>5 DEF Mine
<1>7. \A d \in Clients \ {c} : Mine(d)' = Mine(d)
  BY <1>3, <1>4 DEF Mine
<1>8. \A d \in Clients : r \notin Mine(d)
  BY <1>1 DEF Apart
<1>9. Outstanding' = Outstanding \cup {r} /\ r \notin Outstanding
  BY <1>2, <1>6, <1>7, <1>8 DEF Outstanding
<1>10. ASSUME NEW d \in Clients
       PROVE  Mine(d)' \subseteq 1..made' /\ \A x \in Mine(d)' : Owner(x) = d
  <2>1. Mine(d) \subseteq 1..made /\ \A x \in Mine(d) : Owner(x) = d
    BY DEF Apart
  <2>2. 1..made' = 1..made \cup {r}
    BY <1>1, <1>3
  <2>3. Mine(d)' = Mine(d) \/ (d = c /\ Mine(d)' = Mine(d) \cup {r})
    BY <1>6, <1>7
  <2> QED
    BY <1>2, <2>1, <2>2, <2>3
<1>12. ASSUME NEW d \in Clients
       PROVE  /\ IsInjective(requests'[d]) /\ ToSet(requests'[d]) \cap sent'[d] = {}
              /\ held'[<<"worker", d>>] \notin ToSet(requests'[d]) \cup sent'[d]
  <2>1. CASE d # c
    BY <1>3, <1>4, <2>1 DEF Apart
  <2>2. CASE d = c
    <3>1. r \notin ToSet(q) /\ r \notin sent[c] /\ r # held[<<"worker", c>>]
      BY <1>1, <1>8 DEF Mine, Nothing
    <3>2. /\ IsInjective(q) /\ ToSet(q) \cap sent[c] = {}
          /\ held[<<"worker", c>>] \notin ToSet(q) \cup sent[c]
      BY DEF Apart
    <3>3. held' = held /\ sent' = sent
      BY <1>3
    <3>4. ToSet(requests'[c]) = ToSet(q) \cup {r} /\ IsInjective(requests'[c])
      BY <1>5, <3>1, <3>2
    <3> QED
      BY <2>2, <3>1, <3>2, <3>3, <3>4
  <2> QED
    BY <2>1, <2>2
<1>11. Apart'
  BY <1>10, <1>12 DEF Apart
<1> QED
  BY <1>3, <1>9, <1>11

LEMMA MinePopped ==
  ASSUME Shapes, Standing, Busy, Apart, NEW c \in Clients, PopRequest(c)
  PROVE  Apart' /\ Outstanding' = Outstanding
<1> USE DEF run, counters, queues, threads, results
<1>1. CASE UNCHANGED <<requests, held>>
  BY <1>1, MineKept DEF PopRequest
<1>2. CASE /\ requests[c] # <<>>
           /\ held' = [held EXCEPT ![<<"worker", c>>] = Head(requests[c])]
           /\ requests' = [requests EXCEPT ![c] = Tail(requests[c])]
  <2> DEFINE q == requests[c]
             w == <<"worker", c>>
  <2>1. q \in Seq(Requests) /\ Head(q) \in Requests
    BY <1>2, FirstAndRest DEF Shapes
  <2>2. Head(q) # Nothing
    BY <2>1 DEF Requests, Nothing
  <2>3. held[w] = Nothing
    BY DEF PopRequest, Busy
  <2>4. /\ held'[w] = Head(q) /\ requests'[c] = Tail(q)
        /\ \A d \in Clients \ {c} : /\ requests'[d] = requests[d]
                                  /\ held'[<<"worker", d>>] = held[<<"worker", d>>]
        /\ UNCHANGED <<made, sent>>
    BY <1>2, Threads DEF PopRequest, Shapes
  <2>5. /\ ToSet(q) = {Head(q)} \cup ToSet(Tail(q))
        /\ IsInjective(q) => IsInjective(Tail(q)) /\ Head(q) \notin ToSet(Tail(q))
    BY <1>2, <2>1, FirstOut
  <2>6. Mine(c)' = Mine(c)
    BY <2>2, <2>3, <2>4, <2>5 DEF Mine
  <2>7. \A d \in Clients \ {c} : Mine(d)' = Mine(d)
    BY <2>4 DEF Mine
  <2>8. ASSUME NEW d \in Clients
        PROVE  /\ IsInjective(requests'[d]) /\ ToSet(requests'[d]) \cap sent'[d] = {}
               /\ held'[<<"worker", d>>] \notin ToSet(requests'[d]) \cup sent'[d]
    <3>1. CASE d # c
      BY <2>4, <3>1 DEF Apart
    <3>2. CASE d = c
      BY <2>4, <2>5, <3>2 DEF Apart
    <3> QED
      BY <3>1, <3>2
  <2>9. \A d \in Clients : Mine(d)' = Mine(d)
    BY <2>6, <2>7
  <2> QED
    BY <2>4, <2>8, <2>9 DEF Apart, Outstanding
<1> QED
  BY <1>1, <1>2 DEF PopRequest

LEMMA MineSent ==
  ASSUME Shapes, Standing, Busy, Apart, NEW c \in Clients, SendRequest(c) \/ EndCall(c)
  PROVE  /\ Apart' /\ Outstanding' \subseteq Outstanding
         /\ ~ClientClosed(c) \/ EndCall(c) => Outstanding' = Outstanding
<1> USE DEF run, counters, queues, threads, results
<1> DEFINE w == <<"worker", c>>
<1>1. held[w] # Nothing
  BY DEF SendRequest, EndCall, Busy
<1>2. Nothing \notin 1..made
  BY DEF Nothing, Shapes
<1>3. /\ held'[w] = Nothing
      /\ \A d \in Clients \ {c} : /\ held'[<<"worker", d>>] = held[<<"worker", d>>]
                                /\ sent'[d] = sent[d]
      /\ UNCHANGED <<made, requests>>
  BY Threads DEF SendRequest, EndCall, Shapes, Standing
<1>4. \A d \in Clients \ {c} : Mine(d)' = Mine(d)
  BY <1>3 DEF Mine
<1>5. \A d \in Clients : Nothing \notin ToSet(requests[d]) \cup sent[d]
  BY <1>2 DEF Mine, Apart
<1>6. ASSUME sent'[c] = sent[c] \/ sent'[c] = sent[c] \cup {held[w]}, Mine(c)' \subseteq Mine(c)
      PROVE  Apart'
  <2>1. ASSUME NEW d \in Clients
        PROVE  /\ ToSet(requests'[d]) \cap sent'[d] = {}
               /\ held'[<<"worker", d>>] \notin ToSet(requests'[d]) \cup sent'[d]
    <3>1. CASE d # c
      BY <1>3, <3>1 DEF Apart
    <3>2. CASE d = c
      BY <1>1, <1>3, <1>5, <1>6, <3>2 DEF Apart
    <3> QED
      BY <3>1, <3>2
  <2>2. \A d \in Clients : Mine(d)' \subseteq Mine(d)
    BY <1>4, <1>6
  <2> QED
    BY <1>3, <2>1, <2>2 DEF Apart
<1>7. CASE sent'[c] = sent[c] \cup {held[w]}
  <2>1. Mine(c)' = Mine(c)
    BY <1>1, <1>3, <1>7 DEF Mine
  <2> QED
    BY <1>4, <1>6, <1>7, <2>1 DEF Outstanding
<1>8. CASE sent'[c] = sent[c] /\ ClientClosed(c) /\ ~EndCall(c)
  <2>1. Mine(c)' \subseteq Mine(c)
    BY <1>3, <1>8 DEF Mine
  <2> QED
    BY <1>4, <1>6, <1>8, <2>1 DEF Outstanding
<1> QED
  BY <1>7, <1>8 DEF SendRequest, EndCall, Standing

LEMMA MineCollected ==
  ASSUME Shapes, Standing, Apart, NEW c \in Clients, NEW r \in Requests, Collect(c, r)
  PROVE  Apart' /\ r \in Outstanding /\ Outstanding' = Outstanding \ {r}
<1> USE DEF run, counters, queues, threads, results
<1>1. /\ r \in sent[c] /\ sent'[c] = sent[c] \ {r}
      /\ \A d \in Clients \ {c} : sent'[d] = sent[d]
      /\ UNCHANGED <<made, requests>>
  BY DEF Collect, Takes, Standing
<1>2. \A d \in Clients : held'[<<"worker", d>>] = held[<<"worker", d>>]
  BY Threads DEF Collect, Shapes
<1>3. r \in Mine(c) /\ Owner(r) = c
  BY <1>1 DEF Mine, Apart
<1>4. Mine(c)' = Mine(c) \ {r}
  BY <1>1, <1>2 DEF Mine, Apart
<1>5. \A d \in Clients \ {c} : Mine(d)' = Mine(d) /\ r \notin Mine(d)
  <2>1. \A d \in Clients \ {c} : Mine(d)' = Mine(d)
    BY <1>1, <1>2 DEF Mine
  <2>2. \A d \in Clients \ {c} : r \notin Mine(d)
    BY <1>3 DEF Apart
  <2> QED
    BY <2>1, <2>2
<1>6. Apart'
  <2>1. \A d \in Clients : sent'[d] \subseteq sent[d] /\ Mine(d)' \subseteq Mine(d)
    BY <1>1, <1>4, <1>5
  <2> QED
    BY <1>1, <1>2, <2>1 DEF Apart
<1> QED
  BY <1>3, <1>4, <1>5, <1>6 DEF Outstanding

Waiting == driver \in {"requesting", "waiting"}
Summing == driver \in {"testing", "deciding", "blocked", "closing", "summed"}
Looked == driver \in {"closing", "summed"}

\* pending_num_, as long as it counts.
PendingCounts == Waiting => pending = Cardinality(Outstanding)

\* A request that was made and has left its client.
OnItsWay(r) ==
  \/ \E c \in Clients : held[<<"collector", c>>] = r
  \/ r \in ToSet(responses)
  \/ held[Calculator] = r

\* No request is lost before responses_ is closed.
Placed == ~closed => \A r \in 1..made : r \in Outstanding \/ OnItsWay(r) \/ r \in counted

Judging == calculator \in {"updated", "notifying", "judging"}

\* A rejection is on record, or at the calculator.
Verdicts ==
  /\ Judging => held[Calculator] \in counted
  /\ \A r \in rejected : interrupted \/ (Judging /\ held[Calculator] = r)

\* The wait ended in time, and up to Summary's copy no rejection was on record.
Clean == inTime /\ (IF driver = "summed" THEN ~reported ELSE ~interrupted)

Settled == Summing /\ Clean => Outstanding = {}

\* What was outside both counters when Summary looked is all that was left.
Windowed ==
  Looked /\ Clean =>
    /\ \A r \in Requests : OnItsWay(r) => r \in window
    /\ Requests \ counted \subseteq window
    /\ rejected \subseteq window

LEMMA OutstandingInit == Init => Outstanding = {} /\ Apart
<1> SUFFICES ASSUME Init PROVE Outstanding = {} /\ Apart
  OBVIOUS
<1>1. \A c \in Clients : requests[c] = <<>> /\ sent[c] = {} /\ held[<<"worker", c>>] = Nothing
  BY Threads DEF Init
<1>2. ToSet(<<>>) = {} /\ IsInjective(<<>>)
  BY DEF ToSet, IsInjective
<1>3. \A c \in Clients : Mine(c) = {}
  BY <1>1, <1>2 DEF Mine
<1> QED
  BY <1>1, <1>2, <1>3 DEF Outstanding, Apart

LEMMA OutstandingFinite ==
  ASSUME Shapes, Apart
  PROVE  /\ Outstanding \subseteq Requests
         /\ IsFiniteSet(Outstanding) /\ Cardinality(Outstanding) \in Nat
<1>1. Outstanding \subseteq Requests
  <2>1. 1..made \subseteq Requests
    BY SizesAssumption DEF Shapes, Requests
  <2> QED
    BY <2>1 DEF Apart, Outstanding
<1>2. IsFiniteSet(Requests)
  BY FS_Interval, SizesAssumption DEF Requests
<1> QED
  BY <1>1, <1>2, FS_Subset, FS_CardinalityType

\* Every step but two leaves the requests at the clients, or drops some when
\* the destructor runs.
LEMMA OutstandingStep ==
  ASSUME Shapes, Standing, Phases, Busy, Apart, [Next]_vars
  PROVE  /\ Apart'
         /\ \/ MakeRequest
            \/ \E c \in Clients, r \in Requests : Collect(c, r)
            \/ /\ Outstanding' \subseteq Outstanding
               /\ ~Destroying => Outstanding' = Outstanding
               /\ pending' = pending \/ driver' = "testing"
               /\ Waiting' => Waiting
<1> USE DEF run, counters, queues, threads, results
<1>1. CASE MakeRequest
  BY <1>1, MineMade
<1>2. CASE BeginWait \/ EndWait \/ SummaryPasses \/ SummaryMustWait \/ SummaryBlocks
  <2>1. UNCHANGED <<made, requests, sent, held>>
    BY <1>2 DEF BeginWait, EndWait, SummaryPasses, SummaryMustWait, SummaryBlocks
  <2>2. (pending' = pending \/ driver' = "testing") /\ (Waiting' => Waiting)
    BY <1>2 DEF BeginWait, EndWait, SummaryPasses, SummaryMustWait, SummaryBlocks, Waiting
  <2> QED
    BY <2>1, <2>2, MineKept
<1>3. CASE CloseResponses \/ Destroy \/ CloseClient \/ Join \/ SpuriousWakeup
  <2>1. UNCHANGED <<made, requests, sent, held, pending>>
    BY <1>3 DEF CloseResponses, Destroy, CloseClient, Join, SpuriousWakeup
  <2>2. Waiting' => Waiting
    BY <1>3 DEF CloseResponses, Destroy, CloseClient, Join, SpuriousWakeup, Waiting
  <2> QED
    BY <2>1, <2>2, MineKept
<1>4. ASSUME NEW c \in Clients, TestEnable(c) \/ BeginCall(c) \/ Announce(c) \/ CollectorExits(c)
      PROVE  Apart' /\ Outstanding' = Outstanding /\ UNCHANGED <<driver, pending>>
  <2>1. UNCHANGED <<made, requests, sent, held, driver, pending>>
    BY <1>4 DEF TestEnable, BeginCall, Announce, CollectorExits
  <2> QED
    BY <2>1, MineKept
<1>5. ASSUME NEW c \in Clients, PopRequest(c)
      PROVE  Apart' /\ Outstanding' = Outstanding /\ UNCHANGED <<driver, pending>>
  BY <1>5, MinePopped DEF PopRequest
<1>6. ASSUME NEW c \in Clients, SendRequest(c) \/ EndCall(c)
      PROVE  /\ Apart' /\ Outstanding' \subseteq Outstanding
             /\ ~Destroying => Outstanding' = Outstanding
             /\ UNCHANGED <<driver, pending>>
  <2>1. ~Destroying => ~ClientClosed(c)
    <3>1. ~Destroying => shut = 0
      BY DEF Phases
    <3>2. ~(c < 0)
      BY SizesAssumption DEF Clients
    <3> QED
      BY <3>1, <3>2 DEF ClientClosed
  <2>2. UNCHANGED <<driver, pending>>
    BY <1>6 DEF SendRequest, EndCall
  <2> QED
    BY <1>6, <2>1, <2>2, MineSent
<1>7. ASSUME NEW c \in Clients, NEW r \in Requests, Collect(c, r) PROVE Apart'
  BY <1>7, MineCollected
<1>8. ASSUME NEW c \in Clients, PushResponse(c)
      PROVE  Apart' /\ Outstanding' = Outstanding /\ UNCHANGED <<driver, pending>>
  <2>1. \A d \in Clients : held'[<<"worker", d>>] = held[<<"worker", d>>]
    BY <1>8, Threads DEF PushResponse, Shapes
  <2>2. UNCHANGED <<made, requests, sent, driver, pending>>
    BY <1>8 DEF PushResponse
  <2> QED
    BY <2>1, <2>2, MineKept
<1>9. CASE CalculatorStep
  <2>1. \A d \in Clients : held'[<<"worker", d>>] = held[<<"worker", d>>]
    BY <1>9, Threads
    DEF CalculatorStep, PopResponse, UpdateSummary, EndCompare, NotifySummary, Judge, Shapes,
      Calculator
  <2>2. UNCHANGED <<made, requests, sent, pending>>
    BY <1>9 DEF CalculatorStep, PopResponse, UpdateSummary, EndCompare, NotifySummary, Judge
  <2>3. Waiting' => Waiting
    BY <1>9 DEF CalculatorStep, PopResponse, UpdateSummary, EndCompare, NotifySummary, Judge,
      Waiting
  <2> QED
    BY <2>1, <2>2, <2>3, MineKept
<1>10. CASE UNCHANGED vars
  BY <1>10, MineKept DEF vars, Waiting
<1> QED
  BY <1>1, <1>2, <1>3, <1>4, <1>5, <1>6, <1>7, <1>8, <1>9, <1>10
  DEF Next, DriverStep, WorkerStep, CollectorStep, Waiting

LEMMA PendingStep ==
  ASSUME Shapes, Standing, Phases, Busy, Apart, PendingCounts, [Next]_vars
  PROVE  PendingCounts'
<1> USE DEF run, counters, queues, threads, results
<1> SUFFICES ASSUME Waiting' PROVE pending' = Cardinality(Outstanding')
  BY DEF PendingCounts
<1>1. CASE MakeRequest
  <2>1. Waiting /\ pending' = pending + 1
    BY <1>1 DEF MakeRequest, Waiting
  <2> QED
    BY <1>1, <2>1, MineMade, OutstandingFinite, FS_AddElement DEF PendingCounts
<1>2. ASSUME NEW c \in Clients, NEW r \in Requests, Collect(c, r)
      PROVE  pending' = Cardinality(Outstanding')
  <2>1. Waiting /\ pending' = pending - 1
    BY <1>2 DEF Collect, Waiting
  <2>2. r \in Outstanding /\ Outstanding' = Outstanding \ {r}
    BY <1>2, MineCollected
  <2>3. IsFiniteSet(Outstanding)
    BY OutstandingFinite
  <2>4. Cardinality(Outstanding') = Cardinality(Outstanding) - 1
    BY <2>2, <2>3, FS_RemoveElement
  <2> QED
    BY <2>1, <2>4 DEF PendingCounts
<1> QED
  BY <1>1, <1>2, OutstandingStep DEF PendingCounts, Waiting, Destroying

LEMMA VerdictsStep ==
  ASSUME Shapes, Standing, Verdicts, [Next]_vars
  PROVE  Verdicts'
<1> USE DEF run, counters, queues, threads, results, Verdicts, Judging
<1>1. CASE DriverStep \/ SpuriousWakeup
  <2>1. UNCHANGED <<held, counted, rejected, interrupted, calculator>>
    BY <1>1 DEF DriverStep, MakeRequest, BeginWait, EndWait, SummaryPasses, SummaryMustWait,
      SummaryBlocks, CloseResponses, Destroy, CloseClient, Join, SpuriousWakeup
  <2> QED
    BY <2>1
<1>2. ASSUME NEW c \in Clients, WorkerStep(c) \/ CollectorStep(c) PROVE Verdicts'
  <2>1. UNCHANGED <<counted, rejected, interrupted, calculator>>
    BY <1>2 DEF WorkerStep, TestEnable, PopRequest, SendRequest, BeginCall, EndCall,
      CollectorStep, Collect, Announce, PushResponse, CollectorExits
  <2>2. held'[Calculator] = held[Calculator]
    BY <1>2, Threads DEF WorkerStep, TestEnable, PopRequest, SendRequest, BeginCall, EndCall,
      CollectorStep, Collect, Announce, PushResponse, CollectorExits, Shapes, Calculator
  <2> QED
    BY <2>1, <2>2
<1>3. CASE PopResponse
  BY <1>3 DEF PopResponse
<1>4. CASE UpdateSummary
  BY <1>4 DEF UpdateSummary
<1>5. CASE EndCompare \/ NotifySummary
  BY <1>5 DEF EndCompare, NotifySummary
<1>6. CASE Judge
  BY <1>6 DEF Judge
<1>7. CASE UNCHANGED vars
  BY <1>7 DEF vars
<1> QED
  BY <1>1, <1>2, <1>3, <1>4, <1>5, <1>6, <1>7 DEF Next, CalculatorStep

\* From the wait's end on, the state was as clean before.
LEMMA CleanBefore ==
  ASSUME Standing, [Next]_vars, Summing', Clean', ~EndWait
  PROVE  /\ Summing /\ Clean
         /\ Looked' /\ ~SummaryPasses => Looked /\ window' = window
<1> USE DEF run, counters, queues, threads, results, Summing, Clean, Looked, Standing, DriverStates
<1>1. CASE MakeRequest \/ BeginWait \/ Join \/ CloseClient
  BY <1>1 DEF MakeRequest, BeginWait, Join, CloseClient
<1>2. CASE SummaryPasses \/ SummaryMustWait \/ SummaryBlocks \/ SpuriousWakeup
  BY <1>2 DEF SummaryPasses, SummaryMustWait, SummaryBlocks, SpuriousWakeup
<1>3. CASE CloseResponses
  BY <1>3 DEF CloseResponses
<1>4. CASE Destroy
  BY <1>4 DEF Destroy
<1>5. ASSUME NEW c \in Clients, WorkerStep(c) \/ CollectorStep(c)
      PROVE  UNCHANGED <<driver, inTime, reported, interrupted, window>>
  BY <1>5 DEF WorkerStep, TestEnable, PopRequest, SendRequest, BeginCall, EndCall,
    CollectorStep, Collect, Announce, PushResponse, CollectorExits
<1>6. CASE PopResponse \/ UpdateSummary \/ EndCompare
  BY <1>6 DEF PopResponse, UpdateSummary, EndCompare
<1>7. CASE NotifySummary
  BY <1>7 DEF NotifySummary
<1>8. CASE Judge
  BY <1>8 DEF Judge
<1>9. CASE UNCHANGED vars
  BY <1>9 DEF vars
<1> QED
  BY <1>1, <1>2, <1>3, <1>4, <1>5, <1>6, <1>7, <1>8, <1>9 DEF Next, DriverStep, CalculatorStep

LEMMA SettledStep ==
  ASSUME Shapes, Standing, Phases, Busy, Apart, PendingCounts, Settled, [Next]_vars
  PROVE  Settled'
<1> SUFFICES ASSUME Summing', Clean' PROVE Outstanding' = {}
  BY DEF Settled
<1> USE DEF run, counters, queues, threads, results
<1>1. CASE EndWait
  <2>1. Outstanding' = Outstanding
    BY <1>1, MineKept DEF EndWait
  <2>2. inTime' /\ ~interrupted
    BY <1>1 DEF EndWait, Clean
  <2>3. pending = 0
    BY <1>1, <2>2 DEF EndWait, AllAnswered, Phases
  <2>4. Cardinality(Outstanding) = 0
    BY <1>1, <2>3 DEF EndWait, PendingCounts, Waiting
  <2> QED
    BY <2>1, <2>4, OutstandingFinite, FS_EmptySet
<1>2. CASE ~EndWait
  <2>1. Summing /\ Outstanding = {}
    BY <1>2, CleanBefore DEF Settled
  <2>2. ~MakeRequest
    BY <2>1 DEF MakeRequest, Summing
  <2>3. \A c \in Clients, r \in Requests : ~Collect(c, r)
    BY <2>1, MineCollected
  <2> QED
    BY <2>1, <2>2, <2>3, OutstandingStep
<1> QED
  BY <1>1, <1>2

-----------------------------------------------------------------------------
(* What is on its way when Summary looks. *)

LEMMA WayKept ==
  ASSUME UNCHANGED responses, held'[Calculator] = held[Calculator],
         \A c \in Clients : held'[<<"collector", c>>] = held[<<"collector", c>>]
  PROVE  \A r : OnItsWay(r)' <=> OnItsWay(r)
BY DEF OnItsWay

\* Requests come on their way from their client, and leave it to be counted
\* or, after the close, to be dropped.
LEMMA WayStep ==
  ASSUME Shapes, Standing, Busy, [Next]_vars, NEW x \in Requests
  PROVE  /\ OnItsWay(x)' => OnItsWay(x) \/ \E c \in Clients : Collect(c, x)
         /\ OnItsWay(x) => OnItsWay(x)' \/ closed \/ (Judge /\ x = held[Calculator])
         /\ \A c \in Clients : Collect(c, x) => OnItsWay(x)'
<1> USE DEF run, counters, queues, threads, results
<1>0. x # Nothing
  BY DEF Requests, Nothing
<1>1. CASE DriverStep \/ SpuriousWakeup
  <2>1. UNCHANGED <<held, responses>>
    BY <1>1 DEF DriverStep, MakeRequest, BeginWait, EndWait, SummaryPasses, SummaryMustWait,
      SummaryBlocks, CloseResponses, Destroy, CloseClient, Join, SpuriousWakeup
  <2>2. \A c \in Clients : ~Collect(c, x)
    BY <1>0, <2>1, Threads DEF Collect, Takes, Busy, Shapes
  <2> QED
    BY <2>1, <2>2, WayKept
<1>2. ASSUME NEW c \in Clients, WorkerStep(c)
      PROVE  (OnItsWay(x)' <=> OnItsWay(x)) /\ \A d \in Clients : ~Collect(d, x)
  <2>1. UNCHANGED <<responses, collector>> /\ held'[Calculator] = held[Calculator]
    BY <1>2, Threads DEF WorkerStep, TestEnable, PopRequest, SendRequest, BeginCall, EndCall,
      Shapes, Calculator
  <2>2. \A d \in Clients : held'[<<"collector", d>>] = held[<<"collector", d>>]
    BY <1>2, Threads DEF WorkerStep, TestEnable, PopRequest, SendRequest, BeginCall, EndCall, Shapes
  <2>3. \A d \in Clients : ~Collect(d, x)
    BY <2>1 DEF Collect, Takes, Shapes
  <2> QED
    BY <2>1, <2>2, <2>3, WayKept
<1>3. ASSUME NEW c \in Clients, NEW r \in Requests, Collect(c, r)
      PROVE  /\ OnItsWay(x)' <=> OnItsWay(x) \/ x = r
             /\ \A d \in Clients : Collect(d, x) => x = r
  <2>1. held[<<"collector", c>>] = Nothing
    BY <1>3 DEF Collect, Takes, Busy
  <2>2. /\ held'[<<"collector", c>>] = r /\ held'[Calculator] = held[Calculator]
        /\ \A d \in Clients \ {c} : held'[<<"collector", d>>] = held[<<"collector", d>>]
        /\ UNCHANGED responses
    BY <1>3, Threads DEF Collect, Shapes, Calculator
  <2>3. OnItsWay(x)' <=> OnItsWay(x) \/ x = r
    BY <1>0, <2>1, <2>2 DEF OnItsWay
  <2>4. \A d \in Clients : Collect(d, x) => held'[<<"collector", d>>] = x /\ collector[d] = "next"
    BY Threads DEF Collect, Takes, Shapes
  <2>5. ASSUME NEW d \in Clients, Collect(d, x) PROVE x = r
    <3>1. held'[<<"collector", d>>] = x /\ held[<<"collector", d>>] = Nothing
      BY <2>4, <2>5 DEF Busy
    <3> QED
      BY <1>0, <2>2, <3>1
  <2> QED
    BY <2>3, <2>5
<1>4. ASSUME NEW c \in Clients, Announce(c) \/ CollectorExits(c)
      PROVE  (OnItsWay(x)' <=> OnItsWay(x)) /\ \A d \in Clients : ~Collect(d, x)
  <2>1. UNCHANGED <<held, responses>>
    BY <1>4 DEF Announce, CollectorExits
  <2>2. \A d \in Clients : ~Collect(d, x)
    BY <1>0, <2>1, Threads DEF Collect, Takes, Busy, Shapes
  <2> QED
    BY <2>1, <2>2, WayKept
<1>5. ASSUME NEW c \in Clients, PushResponse(c)
      PROVE  /\ OnItsWay(x)' => OnItsWay(x)
             /\ OnItsWay(x) => OnItsWay(x)' \/ closed
             /\ \A d \in Clients : ~Collect(d, x)
  <2> DEFINE h == held[<<"collector", c>>]
  <2>1. /\ held'[<<"collector", c>>] = Nothing /\ held'[Calculator] = held[Calculator]
        /\ \A d \in Clients \ {c} : held'[<<"collector", d>>] = held[<<"collector", d>>]
    BY <1>5, Threads DEF PushResponse, Shapes, Calculator
  <2>2. ToSet(responses') = ToSet(responses) \cup (IF closed THEN {} ELSE {h})
    <3>1. h \in Ids
      BY Threads DEF Shapes
    <3>2. responses \in Seq(Ids)
      BY DEF Shapes
    <3>3. responses' = IF closed THEN responses ELSE Append(responses, h)
      BY <1>5 DEF PushResponse
    <3>4. ToSet(Append(responses, h)) = ToSet(responses) \cup {h}
      BY <3>1, <3>2, LastIn
    <3> QED
      BY <3>3, <3>4
  <2>3. \A d \in Clients : Collect(d, x) => held'[<<"collector", d>>] = x /\ collector[d] = "next"
    BY Threads DEF Collect, Takes, Shapes
  <2>4. \A d \in Clients : ~Collect(d, x)
    BY <1>0, <2>1, <2>3 DEF Busy
  <2> QED
    BY <1>0, <2>1, <2>2, <2>4 DEF OnItsWay
<1>6. CASE CalculatorStep
  <2>1. UNCHANGED collector
        /\ \A d \in Clients : held'[<<"collector", d>>] = held[<<"collector", d>>]
    BY <1>6, Threads DEF CalculatorStep, PopResponse, UpdateSummary, EndCompare, NotifySummary,
      Judge, Shapes, Calculator
  <2>2. \A d \in Clients : ~Collect(d, x)
    BY <2>1 DEF Collect, Takes, Shapes
  <2>3. CASE PopResponse
    <3>1. CASE UNCHANGED <<responses, held>>
      BY <2>2, <3>1, WayKept
    <3>2. CASE /\ responses # <<>>
               /\ held' = [held EXCEPT ![Calculator] = Head(responses)]
               /\ responses' = Tail(responses)
      <4>1. held[Calculator] = Nothing /\ held'[Calculator] = Head(responses)
        BY <2>3, <3>2, Threads DEF PopResponse, Busy, Shapes
      <4>2. ToSet(responses) = {Head(responses)} \cup ToSet(responses')
        BY <3>2, FirstOut DEF Shapes
      <4> QED
        BY <1>0, <2>1, <2>2, <4>1, <4>2 DEF OnItsWay
    <3> QED
      BY <2>3, <3>1, <3>2 DEF PopResponse
  <2>4. CASE UpdateSummary \/ EndCompare \/ NotifySummary
    <3>1. UNCHANGED <<responses, held>>
      BY <2>4 DEF UpdateSummary, EndCompare, NotifySummary
    <3> QED
      BY <2>2, <3>1, WayKept
  <2>5. CASE Judge
    <3>1. UNCHANGED responses /\ held'[Calculator] = Nothing
      BY <2>5, Threads DEF Judge, Shapes
    <3> QED
      BY <1>0, <2>1, <2>2, <2>5, <3>1 DEF OnItsWay
  <2> QED
    BY <1>6, <2>3, <2>4, <2>5 DEF CalculatorStep
<1>7. CASE UNCHANGED vars
  <2>1. UNCHANGED <<responses, held>>
    BY <1>7 DEF vars
  <2>2. \A d \in Clients : ~Collect(d, x)
    BY <1>0, <2>1, Threads DEF Collect, Takes, Busy, Shapes
  <2> QED
    BY <2>1, <2>2, WayKept
<1> QED
  BY <1>1, <1>2, <1>3, <1>4, <1>5, <1>6, <1>7 DEF Next, CollectorStep

\* What is on record stays there.
LEMMA ResultsStep ==
  ASSUME Standing, [Next]_vars
  PROVE  /\ counted \subseteq counted'
         /\ \/ rejected' = rejected
            \/ UpdateSummary /\ rejected' \subseteq rejected \cup {held[Calculator]}
         /\ closed => closed'
         /\ made' = made \/ MakeRequest
<1> USE DEF run, counters, queues, threads, results
<1>1. CASE DriverStep \/ SpuriousWakeup
  BY <1>1 DEF DriverStep, MakeRequest, BeginWait, EndWait, SummaryPasses, SummaryMustWait,
    SummaryBlocks, CloseResponses, Destroy, CloseClient, Join, SpuriousWakeup
<1>2. ASSUME NEW c \in Clients, WorkerStep(c) \/ CollectorStep(c)
      PROVE  UNCHANGED <<made, counted, rejected, closed>>
  BY <1>2 DEF WorkerStep, TestEnable, PopRequest, SendRequest, BeginCall, EndCall,
    CollectorStep, Collect, Announce, PushResponse, CollectorExits
<1>3. CASE CalculatorStep
  <2>1. UNCHANGED <<made, closed>>
    BY <1>3 DEF CalculatorStep, PopResponse, UpdateSummary, EndCompare, NotifySummary, Judge
  <2>2. CASE PopResponse \/ EndCompare \/ NotifySummary \/ Judge
    <3>1. UNCHANGED <<counted, rejected>>
      BY <2>2 DEF PopResponse, EndCompare, NotifySummary, Judge
    <3> QED
      BY <2>1, <3>1
  <2>3. CASE UpdateSummary
    <3>1. counted \subseteq counted' /\ rejected' \subseteq rejected \cup {held[Calculator]}
      BY <2>3 DEF UpdateSummary
    <3> QED
      BY <2>1, <2>3, <3>1
  <2> QED
    BY <1>3, <2>2, <2>3 DEF CalculatorStep
<1>4. CASE UNCHANGED vars
  BY <1>4 DEF vars
<1> QED
  BY <1>1, <1>2, <1>3, <1>4 DEF Next

LEMMA PlacedStep ==
  ASSUME Shapes, Standing, Phases, Busy, Apart, Verdicts, Placed, [Next]_vars
  PROVE  Placed'
<1> SUFFICES ASSUME ~closed', NEW r \in 1..made'
             PROVE  r \in Outstanding' \/ OnItsWay(r)' \/ r \in counted'
  BY DEF Placed
<1>1. ~closed /\ ~Destroying
  BY ResultsStep DEF Phases, Destroying
<1>2. CASE r \in 1..made
  <2>1. r \in Requests
    BY <1>2, SizesAssumption DEF Shapes, Requests
  <2>2. CASE r \in counted
    BY <2>2, ResultsStep
  <2>3. CASE OnItsWay(r)
    <3>1. CASE OnItsWay(r)'
      BY <3>1
    <3>2. CASE Judge /\ r = held[Calculator]
      <4>1. r \in counted
        BY <3>2 DEF Judge, Verdicts, Judging
      <4> QED
        BY <4>1, ResultsStep
    <3> QED
      BY <1>1, <2>1, <2>3, <3>1, <3>2, WayStep
  <2>4. CASE r \in Outstanding
    <3>1. CASE MakeRequest
      BY <2>4, <3>1, MineMade
    <3>2. ASSUME NEW c \in Clients, NEW q \in Requests, Collect(c, q)
          PROVE  r \in Outstanding' \/ OnItsWay(r)'
      BY <2>1, <2>4, <3>2, MineCollected, WayStep
    <3> QED
      BY <1>1, <2>4, <3>1, <3>2, OutstandingStep
  <2> QED
    BY <1>1, <1>2, <2>2, <2>3, <2>4 DEF Placed
<1>3. CASE r \notin 1..made
  <2>1. MakeRequest
    BY <1>3, ResultsStep
  <2>2. r = made + 1
    BY <1>3, <2>1, MineMade DEF Shapes
  <2> QED
    BY <2>1, <2>2, MineMade
<1> QED
  BY <1>2, <1>3

LEMMA WindowedStep ==
  ASSUME Shapes, Standing, Phases, Busy, Apart, CompareCountCovers, Placed, Verdicts, Settled,
         Windowed, [Next]_vars
  PROVE  Windowed'
<1> SUFFICES ASSUME Looked', Clean'
             PROVE  /\ \A r \in Requests : OnItsWay(r)' => r \in window'
                    /\ Requests \ counted' \subseteq window'
                    /\ rejected' \subseteq window'
  BY DEF Windowed
<1> USE DEF run, counters, queues, threads, results
<1>1. Summing /\ Clean /\ Outstanding = {}
  <2>1. Summing' /\ ~EndWait
    BY DEF Looked, Summing, EndWait
  <2> QED
    BY <2>1, CleanBefore DEF Settled
<1>2. \A c \in Clients, r \in Requests : ~Collect(c, r)
  BY <1>1, MineCollected
<1>3. CASE SummaryPasses
  <2>1. /\ driver = "testing" /\ comparing <= 0 /\ window' = Between
        /\ UNCHANGED <<held, responses, counted, rejected>>
    BY <1>3 DEF SummaryPasses
  <2>2. ~closed /\ made = NumRequests
    BY <2>1 DEF Phases
  <2>3. Len(responses) = 0 /\ Cardinality(Announced) = 0 /\ AtWork = 0
    <3>1. comparing = Len(responses) + Cardinality(Announced) + AtWork
      BY <2>2 DEF CompareCountCovers, Announced, AtWork
    <3>2. Len(responses) \in Nat /\ Cardinality(Announced) \in Nat /\ AtWork \in {0, 1}
      BY ClientSets DEF Announced, AtWork, Shapes
    <3> QED
      BY <2>1, <3>1, <3>2 DEF Shapes
  <2>4. ToSet(responses) = {}
    <3>1. responses = <<>>
      BY <2>3 DEF Shapes
    <3> QED
      BY <3>1 DEF ToSet
  <2>5. \A c \in Clients : collector[c] # "announced"
    <3>1. Announced = {}
      BY <2>3, ClientSets, FS_EmptySet DEF Announced
    <3> QED
      BY <3>1 DEF Announced
  <2>6. ASSUME NEW r \in Requests, OnItsWay(r) PROVE r \in window'
    <3>1. r # Nothing
      BY DEF Requests, Nothing
    <3>2. ASSUME NEW c \in Clients, held[<<"collector", c>>] = r PROVE r \in window'
      <4>1. collector[c] = "uncounted"
        BY <2>5, <3>1, <3>2 DEF Busy
      <4> QED
        BY <2>1, <3>2, <4>1 DEF Between
    <3>3. CASE held[Calculator] = r
      <4>1. calculator \in {"notifying", "judging"}
        BY <2>3, <3>1, <3>3 DEF Busy, AtWork
      <4> QED
        BY <2>1, <3>3, <4>1 DEF Between
    <3> QED
      BY <2>4, <2>6, <3>2, <3>3 DEF OnItsWay
  <2>7. ASSUME NEW r \in Requests, r \notin counted PROVE r \in window'
    <3>1. r \in 1..made
      BY <2>2 DEF Requests
    <3>2. OnItsWay(r)
      BY <1>1, <2>2, <2>7, <3>1 DEF Placed
    <3> QED
      BY <2>6, <3>2
  <2>8. ASSUME NEW r \in rejected PROVE r \in window'
    <3>1. Judging /\ held[Calculator] = r
      BY <1>1, <2>1 DEF Verdicts, Clean
    <3>2. calculator \in {"notifying", "judging"}
      BY <2>3, <3>1 DEF Judging, AtWork
    <3> QED
      BY <2>1, <3>1, <3>2 DEF Between
  <2>9. \A r \in Requests : OnItsWay(r)' => OnItsWay(r)
    BY <2>1, WayKept
  <2> QED
    BY <2>1, <2>6, <2>7, <2>8, <2>9
<1>4. CASE ~SummaryPasses
  <2>1. Looked /\ window' = window
    BY <1>4, CleanBefore DEF Looked, Summing, EndWait
  <2>2. /\ \A r \in Requests : OnItsWay(r) => r \in window
        /\ Requests \ counted \subseteq window
        /\ rejected \subseteq window
    BY <1>1, <2>1 DEF Windowed
  <2>3. \A r \in Requests : OnItsWay(r)' => r \in window'
    BY <1>2, <2>1, <2>2, WayStep
  <2>4. CASE UpdateSummary
    <3>1. held[Calculator] \in Requests
      BY <2>4, Threads DEF UpdateSummary, Shapes, Busy, Ids
    <3>2. held[Calculator] \in window
      BY <2>2, <3>1 DEF OnItsWay
    <3> QED
      BY <2>1, <2>2, <2>3, <2>4, <3>2, ResultsStep
  <2>5. CASE ~UpdateSummary
    BY <2>1, <2>2, <2>3, <2>5, ResultsStep
  <2> QED
    BY <2>4, <2>5
<1> QED
  BY <1>3, <1>4

\* The inductive invariant.
Inv ==
  /\ Shapes /\ Standing /\ Phases /\ Busy /\ Apart /\ CompareCountCovers
  /\ PendingCounts /\ Placed /\ Verdicts /\ Settled /\ Windowed

LEMMA InvInit == Init => Inv
<1> SUFFICES ASSUME Init PROVE Inv
  OBVIOUS
<1>1. Shapes /\ Standing /\ Phases /\ Busy /\ CompareCountCovers /\ Apart /\ Outstanding = {}
  BY ShapesInit, StandingInit, PhasesInit, BusyInit, CountInit, OutstandingInit
<1>2. PendingCounts
  BY <1>1, FS_EmptySet DEF Init, PendingCounts
<1>3. Placed
  BY DEF Init, Placed
<1>4. Verdicts
  BY DEF Init, Verdicts, Judging
<1>5. Settled /\ Windowed
  BY DEF Init, Settled, Windowed, Summing, Looked
<1> QED
  BY <1>1, <1>2, <1>3, <1>4, <1>5 DEF Inv

LEMMA InvStep == Inv /\ [Next]_vars => Inv'
BY ShapesStep, StandingStep, PhasesStep, BusyStep, OutstandingStep, CountStep, PendingStep,
   PlacedStep, VerdictsStep, SettledStep, WindowedStep DEF Inv

\* When all requests were answered in time, a summary misses only responses
\* that a collector held between the counters (grpc_benchmark.h:168-172).
THEOREM NothingElseMissed == Spec => []MissedOnlyBetween
<1>1. Inv => MissedOnlyBetween
  BY DEF Inv, Windowed, Looked, Clean, Phases, MissedOnlyBetween
<1> QED
  BY <1>1, InvInit, InvStep, PTL DEF Spec

\* And it hides only the rejection of a response that was then outside both
\* counters (grpc_benchmark.h:189, 193-194).
THEOREM NoVerdictHidden == Spec => []VerdictInTime
<1>1. Inv => VerdictInTime
  BY DEF Inv, Windowed, Looked, Clean, VerdictInTime
<1> QED
  BY <1>1, InvInit, InvStep, PTL DEF Spec
-----------------------------------------------------------------------------
(* The bounds: how far below zero the first counter goes once the wait has *)
(* set it to zero, and that the second never goes there.                   *)

Uncounted == {c \in Clients : collector[c] = "uncounted"}

\* What the invariant above leaves out of TypeOK, without the counters.
Margins ==
  /\ timed \in BOOLEAN /\ missed \in BOOLEAN
  /\ shut <= NumClients
  /\ late \subseteq Holders
  /\ window \subseteq Requests
  /\ rejected \subseteq counted

\* After the wait, each request that is still taken takes pending_num_ down.
TakenDown == ~Waiting => pending <= 0 /\ Cardinality(Outstanding) <= NumRequests + pending

\* A request is counted once it is taken, and only then.
Tallied ==
  /\ closed => AtWork <= comparing
  /\ Cardinality(Outstanding) <= made - comparing - Cardinality(Uncounted)

LEMMA MarginsInit == Init => Margins
<1> SUFFICES ASSUME Init PROVE Margins
  OBVIOUS
<1>1. timed \in BOOLEAN /\ missed \in BOOLEAN
  BY Zenon DEF Init
<1>2. 0 <= NumClients
  BY SizesAssumption
<1> QED
  BY <1>1, <1>2 DEF Init, Margins

LEMMA MarginsStep ==
  ASSUME Shapes, Standing, Busy, Margins, [Next]_vars
  PROVE  Margins'
<1> USE DEF run, counters, queues, threads, results, Margins
<1>1. CASE MakeRequest \/ BeginWait \/ EndWait \/ SummaryMustWait \/ SummaryBlocks
  BY <1>1 DEF MakeRequest, BeginWait, EndWait, SummaryMustWait, SummaryBlocks
<1>2. CASE SummaryPasses
  <2>1. \A c \in Clients : collector[c] = "uncounted" => held[<<"collector", c>>] \in Requests
    BY Threads DEF Busy, Shapes, Ids
  <2>2. calculator \in {"notifying", "judging"} => held[Calculator] \in Requests
    BY Threads DEF Busy, Shapes, Ids
  <2>3. Between \subseteq Requests
    BY <2>1, <2>2 DEF Between
  <2> QED
    BY <1>2, <2>3 DEF SummaryPasses
<1>3. CASE CloseResponses
  <2>1. late' \subseteq Holders
    BY <1>3, Threads DEF CloseResponses
  <2> QED
    BY <1>3, <2>1 DEF CloseResponses
<1>4. CASE Destroy
  <2>1. AsleepWorker(0) \subseteq Holders
    BY Threads DEF AsleepWorker
  <2>2. late' \subseteq Holders
    BY <1>4, <2>1 DEF Destroy
  <2> QED
    BY <1>4, <2>2 DEF Destroy
<1>5. CASE CloseClient
  <2>1. shut < NumClients /\ shut' = shut + 1 /\ shut \in Clients
    BY <1>5, SizesAssumption DEF CloseClient, Standing, Clients
  <2>2. <<"collector", shut>> \in Holders /\ AsleepWorker(shut + 1) \subseteq Holders
    BY <2>1, Threads DEF AsleepWorker
  <2>3. late' \subseteq Holders
    BY <1>5, <2>2 DEF CloseClient
  <2>4. shut' <= NumClients
    BY <2>1, SizesAssumption DEF Standing
  <2> QED
    BY <1>5, <2>3, <2>4 DEF CloseClient
<1>6. CASE Join \/ SpuriousWakeup
  BY <1>6 DEF Join, SpuriousWakeup
<1>7. ASSUME NEW c \in Clients, WorkerStep(c) \/ CollectorStep(c) PROVE Margins'
  <2>1. UNCHANGED <<timed, missed, shut, late, window, rejected, counted>>
    BY <1>7 DEF WorkerStep, TestEnable, PopRequest, SendRequest, BeginCall, EndCall,
      CollectorStep, Collect, Announce, PushResponse, CollectorExits
  <2> QED
    BY <2>1
<1>8. CASE PopResponse \/ EndCompare \/ Judge
  BY <1>8 DEF PopResponse, EndCompare, Judge
<1>9. CASE UpdateSummary
  BY <1>9 DEF UpdateSummary
<1>10. CASE NotifySummary
  <2>1. missed' \in BOOLEAN
    BY <1>10, Zenon DEF NotifySummary
  <2> QED
    BY <1>10, <2>1 DEF NotifySummary
<1>11. CASE UNCHANGED vars
  BY <1>11 DEF vars
<1> QED
  BY <1>1, <1>2, <1>3, <1>4, <1>5, <1>6, <1>7, <1>8, <1>9, <1>10, <1>11
  DEF Next, DriverStep, CalculatorStep

\* What the steps do to the counters and to the driver's wait.
LEMMA CountersStep ==
  ASSUME Shapes, Standing, [Next]_vars
  PROVE  \/ MakeRequest \/ EndWait \/ EndCompare
         \/ \E c \in Clients : Announce(c) \/ \E r \in Requests : Collect(c, r)
         \/ /\ UNCHANGED <<pending, comparing, made>>
            /\ Waiting => Waiting'
            /\ Uncounted' = Uncounted
            /\ AtWork' = AtWork \/ (PopResponse /\ ~closed)
<1> USE DEF run, counters, queues, threads, results, Waiting, AtWork
<1>1. CASE BeginWait \/ SummaryPasses \/ SummaryMustWait \/ SummaryBlocks
  BY <1>1 DEF BeginWait, SummaryPasses, SummaryMustWait, SummaryBlocks, Uncounted
<1>2. CASE CloseResponses \/ Destroy \/ CloseClient \/ Join \/ SpuriousWakeup
  BY <1>2 DEF CloseResponses, Destroy, CloseClient, Join, SpuriousWakeup, Uncounted
<1>3. ASSUME NEW c \in Clients, WorkerStep(c)
      PROVE  UNCHANGED <<pending, comparing, made, driver, collector, calculator>>
  BY <1>3 DEF WorkerStep, TestEnable, PopRequest, SendRequest, BeginCall, EndCall
<1>4. ASSUME NEW c \in Clients, PushResponse(c) \/ CollectorExits(c)
      PROVE  /\ UNCHANGED <<pending, comparing, made, driver, calculator>>
             /\ Uncounted' = Uncounted
  BY <1>4 DEF PushResponse, CollectorExits, Uncounted, Shapes
<1>5. CASE PopResponse
  BY <1>5 DEF PopResponse, Uncounted
<1>6. CASE UpdateSummary \/ NotifySummary \/ Judge
  BY <1>6 DEF UpdateSummary, NotifySummary, Judge, Uncounted
<1>7. CASE UNCHANGED vars
  BY <1>7 DEF vars, Uncounted
<1> QED
  BY <1>1, <1>2, <1>3, <1>4, <1>5, <1>6, <1>7
  DEF Next, DriverStep, CollectorStep, CalculatorStep, Uncounted

LEMMA RequestsFinite == IsFiniteSet(Requests) /\ Cardinality(Requests) = NumRequests
<1>1. IsFiniteSet(1..NumRequests)
      /\ Cardinality(1..NumRequests) = IF 1 > NumRequests THEN 0 ELSE NumRequests - 1 + 1
  BY FS_Interval, SizesAssumption
<1> QED
  BY <1>1, SizesAssumption DEF Requests

\* A request leaves the clients for good when a collector takes it.
LEMMA OutstandingCounts ==
  ASSUME Shapes, Standing, Phases, Busy, Apart, [Next]_vars
  PROVE  /\ Cardinality(Outstanding) \in 0..NumRequests
         /\ Cardinality(Outstanding') \in Nat
         /\ MakeRequest => Cardinality(Outstanding') = Cardinality(Outstanding) + 1
         /\ \A c \in Clients, r \in Requests :
              Collect(c, r) => Cardinality(Outstanding') = Cardinality(Outstanding) - 1
         /\ ~MakeRequest => Cardinality(Outstanding') <= Cardinality(Outstanding)
<1>1. IsFiniteSet(Outstanding) /\ Cardinality(Outstanding) \in 0..NumRequests
  <2>1. Outstanding \subseteq Requests /\ IsFiniteSet(Outstanding)
        /\ Cardinality(Outstanding) \in Nat
    BY OutstandingFinite
  <2>2. Cardinality(Outstanding) <= NumRequests
    BY <2>1, RequestsFinite, FS_Subset
  <2> QED
    BY <2>1, <2>2, SizesAssumption
<1>2. Cardinality(Outstanding') \in Nat
  <2>1. (Shapes /\ Apart)'
    BY ShapesStep, OutstandingStep
  <2>2. IsFiniteSet(Outstanding')
    <3>1. (Outstanding \subseteq Requests)'
      <4>1. (1..made)' \subseteq Requests
        BY <2>1, SizesAssumption DEF Shapes, Requests
      <4> QED
        BY <2>1, <4>1 DEF Apart, Outstanding
    <3> QED
      BY <3>1, RequestsFinite, FS_Subset DEF Requests
  <2> QED
    BY <2>2, FS_CardinalityType
<1>3. MakeRequest => Cardinality(Outstanding') = Cardinality(Outstanding) + 1
  BY <1>1, MineMade, FS_AddElement
<1>4. ASSUME NEW c \in Clients, NEW r \in Requests, Collect(c, r)
      PROVE  Cardinality(Outstanding') = Cardinality(Outstanding) - 1
  BY <1>1, <1>4, MineCollected, FS_RemoveElement
<1>5. ASSUME Outstanding' \subseteq Outstanding
      PROVE  Cardinality(Outstanding') <= Cardinality(Outstanding)
  BY <1>1, <1>5, FS_Subset
<1> QED
  BY <1>1, <1>2, <1>3, <1>4, <1>5, OutstandingStep

LEMMA TakenDownStep ==
  ASSUME Shapes, Standing, Phases, Busy, Apart, TakenDown, [Next]_vars
  PROVE  TakenDown'
<1> DEFINE n == Cardinality(Outstanding)
<1> SUFFICES ASSUME ~Waiting' PROVE pending' <= 0 /\ n' <= NumRequests + pending'
  BY DEF TakenDown
<1>1. n \in 0..NumRequests /\ n' \in Nat /\ pending \in Int
  BY OutstandingCounts DEF Standing
<1>2. ~MakeRequest
  BY DEF MakeRequest, Waiting, run
<1>3. CASE EndWait
  <2>1. pending' = 0 /\ n' <= n
    BY <1>2, <1>3, OutstandingCounts DEF EndWait
  <2> QED
    BY <1>1, <2>1, SizesAssumption
<1>4. ASSUME NEW c \in Clients, NEW r \in Requests, Collect(c, r)
      PROVE  pending' <= 0 /\ n' <= NumRequests + pending'
  <2>1. pending' = pending - 1 /\ ~Waiting
    BY <1>4 DEF Collect, Waiting, run
  <2>2. n' = n - 1
    BY <1>4, OutstandingCounts
  <2>3. pending <= 0 /\ n <= NumRequests + pending
    BY <2>1 DEF TakenDown
  <2> HIDE DEF n
  <2> QED
    BY <1>1, <2>1, <2>2, <2>3, SizesAssumption
<1>5. ASSUME ~Waiting, pending' = pending
      PROVE  pending' <= 0 /\ n' <= NumRequests + pending'
  <2>1. pending <= 0 /\ n <= NumRequests + pending /\ n' <= n
    BY <1>2, <1>5, OutstandingCounts DEF TakenDown
  <2> HIDE DEF n
  <2> QED
    BY <1>1, <1>5, <2>1, SizesAssumption
<1>6. ASSUME \/ EndCompare \/ \E c \in Clients : Announce(c)
      PROVE  ~Waiting /\ pending' = pending
  BY <1>6 DEF EndCompare, Announce, Waiting, run
<1> QED
  BY <1>2, <1>3, <1>4, <1>5, <1>6, CountersStep

LEMMA TalliedStep ==
  ASSUME Shapes, Standing, Phases, Busy, Apart, CompareCountCovers, Tallied, [Next]_vars
  PROVE  Tallied'
<1> USE DEF run, counters, queues, threads, results
<1> DEFINE n == Cardinality(Outstanding)
           u == Cardinality(Uncounted)
<1>1. /\ n \in Nat /\ n' \in Nat /\ u \in Nat /\ comparing \in Int /\ made \in Int
      /\ IsFiniteSet(Uncounted) /\ AtWork \in {0, 1}
      /\ comparing' \in Int /\ made' \in Int
  <2>1. Shapes'
    BY ShapesStep
  <2> QED
    BY <2>1, OutstandingCounts, ClientSets DEF Uncounted, Shapes, AtWork
<1>2. n <= made - comparing - u /\ (closed => AtWork <= comparing)
  BY DEF Tallied
\* At the close, the count is what CompareCountCovers says.
<1>3. AtWork <= comparing
  <2>1. CASE ~closed
    <3>1. Len(responses) \in Nat /\ Cardinality(Announced) \in Nat
      BY ClientSets DEF Announced, Shapes
    <3>2. comparing = Len(responses) + Cardinality(Announced) + AtWork
      BY <2>1 DEF CompareCountCovers, Announced, AtWork
    <3> QED
      BY <1>1, <3>1, <3>2
  <2> QED
    BY <1>2, <2>1
<1>4. CASE MakeRequest
  <2>1. made' = made + 1 /\ n' = n + 1 /\ UNCHANGED <<comparing, closed, collector, calculator>>
    BY <1>4, OutstandingCounts DEF MakeRequest
  <2>2. u' = u /\ AtWork' = AtWork
    BY <2>1 DEF Uncounted, AtWork
  <2> HIDE DEF n, u
  <2>3. n' <= made' - comparing' - u'
    BY <1>1, <1>2, <2>1, <2>2
  <2> QED
    BY <1>2, <2>1, <2>2, <2>3 DEF Tallied, n, u
<1>5. CASE EndWait
  <2>1. n' <= n /\ UNCHANGED <<made, comparing, closed, collector, calculator>>
    BY <1>5, OutstandingCounts DEF EndWait, MakeRequest
  <2>2. u' = u /\ AtWork' = AtWork
    BY <2>1 DEF Uncounted, AtWork
  <2> HIDE DEF n, u
  <2>3. n' <= made' - comparing' - u'
    BY <1>1, <1>2, <2>1, <2>2
  <2> QED
    BY <1>2, <2>1, <2>2, <2>3 DEF Tallied, n, u
<1>6. CASE EndCompare
  <2>1. comparing' = comparing - 1 /\ AtWork = 1 /\ AtWork' = 0
        /\ UNCHANGED <<made, collector>> /\ ~MakeRequest
    BY <1>6 DEF EndCompare, AtWork, MakeRequest
  <2>2. u' = u /\ n' <= n
    BY <2>1, OutstandingCounts DEF Uncounted
  <2> HIDE DEF n, u
  <2>3. n' <= made' - comparing' - u'
    BY <1>1, <1>2, <2>1, <2>2
  <2>4. AtWork' <= comparing'
    BY <1>1, <1>3, <2>1
  <2> QED
    BY <2>3, <2>4 DEF Tallied, n, u
<1>7. ASSUME NEW c \in Clients, Announce(c) PROVE Tallied'
  <2>1. /\ comparing' = comparing + 1 /\ UNCHANGED <<made, closed, calculator>> /\ ~MakeRequest
        /\ c \in Uncounted /\ Uncounted' = Uncounted \ {c}
    BY <1>7 DEF Announce, Uncounted, MakeRequest, Shapes
  <2>2. u' = u - 1
    BY <1>1, <2>1, FS_RemoveElement
  <2>3. n' <= n /\ AtWork' = AtWork
    BY <2>1, OutstandingCounts DEF AtWork
  <2> HIDE DEF n, u
  <2>4. n' <= made' - comparing' - u'
    BY <1>1, <1>2, <2>1, <2>2, <2>3
  <2>5. AtWork' <= comparing'
    BY <1>1, <1>3, <2>1, <2>3
  <2> QED
    BY <2>4, <2>5 DEF Tallied, n, u
<1>8. ASSUME NEW c \in Clients, NEW r \in Requests, Collect(c, r) PROVE Tallied'
  <2>1. /\ UNCHANGED <<made, comparing, closed, calculator>>
        /\ c \notin Uncounted /\ Uncounted' = Uncounted \cup {c}
    BY <1>8 DEF Collect, Takes, Uncounted, Shapes
  <2>2. u' = u + 1
    BY <1>1, <2>1, FS_AddElement
  <2>3. n' = n - 1 /\ AtWork' = AtWork
    BY <1>8, <2>1, OutstandingCounts DEF AtWork
  <2> HIDE DEF n, u
  <2>4. n' <= made' - comparing' - u'
    BY <1>1, <1>2, <2>1, <2>2, <2>3
  <2> QED
    BY <1>2, <2>1, <2>3, <2>4 DEF Tallied, n, u
<1>9. ASSUME UNCHANGED <<comparing, made>>, Uncounted' = Uncounted, ~MakeRequest,
             AtWork' = AtWork \/ (PopResponse /\ ~closed)
      PROVE  Tallied'
  <2>1. u' = u /\ n' <= n
    BY <1>9, OutstandingCounts
  <2>2. closed' => AtWork' <= comparing'
    BY <1>3, <1>9 DEF PopResponse
  <2> HIDE DEF n, u
  <2>3. n' <= made' - comparing' - u'
    BY <1>1, <1>2, <1>9, <2>1
  <2> QED
    BY <2>2, <2>3 DEF Tallied, n, u
<1> QED
  BY <1>4, <1>5, <1>6, <1>7, <1>8, <1>9, CountersStep

\* The counters' part of TypeOK.
LEMMA CountersBounded ==
  ASSUME Inv, TakenDown, Tallied
  PROVE  pending \in (-NumRequests)..NumRequests /\ comparing \in 0..NumRequests
<1> DEFINE n == Cardinality(Outstanding)
           u == Cardinality(Uncounted)
<1>1. /\ n \in Nat /\ n <= NumRequests /\ u \in Nat
      /\ pending \in Int /\ comparing \in Int /\ made \in 0..NumRequests /\ AtWork \in {0, 1}
  <2>1. n \in Nat /\ n <= NumRequests
    BY OutstandingFinite, RequestsFinite, FS_Subset DEF Inv
  <2>2. u \in Nat
    BY ClientSets DEF Uncounted
  <2> QED
    BY <2>1, <2>2 DEF Inv, Shapes, Standing, AtWork
<1>2. pending \in (-NumRequests)..NumRequests
  <2>1. Waiting => pending = n
    BY DEF Inv, PendingCounts
  <2>2. ~Waiting => pending <= 0 /\ n <= NumRequests + pending
    BY DEF TakenDown
  <2> HIDE DEF n
  <2> QED
    BY <1>1, <2>1, <2>2, SizesAssumption
<1>3. 0 <= comparing
  <2>1. CASE closed
    BY <1>1, <2>1 DEF Tallied
  <2>2. CASE ~closed
    <3>1. Len(responses) \in Nat /\ Cardinality(Announced) \in Nat
      BY ClientSets DEF Announced, Inv, Shapes
    <3>2. comparing = Len(responses) + Cardinality(Announced) + AtWork
      BY <2>2 DEF Inv, CompareCountCovers, Announced, AtWork
    <3> QED
      BY <1>1, <3>1, <3>2
  <2> QED
    BY <2>1, <2>2
<1>4. n <= made - comparing - u
  BY DEF Tallied
<1>5. comparing <= NumRequests
  <2> HIDE DEF n, u
  <2> QED
    BY <1>1, <1>4, SizesAssumption
<1> QED
  BY <1>1, <1>2, <1>3, <1>5, SizesAssumption

\* Each variable keeps its type: pending_num_ goes no further below zero than
\* the requests that were unanswered when the wait ended, and
\* pending_compare_num_ never does (grpc_benchmark.h:168-172, 189, 283-296).
THEOREM BenchmarkTypes == Spec => []TypeOK
<1> DEFINE I == Inv /\ Margins /\ TakenDown /\ Tallied
<1>1. Init => I
  <2> SUFFICES ASSUME Init PROVE I
    OBVIOUS
  <2>1. Inv /\ Margins
    BY InvInit, MarginsInit
  <2>2. TakenDown
    BY DEF Init, TakenDown, Waiting
  <2>3. Tallied
    <3>1. Uncounted = {} /\ Outstanding = {} /\ comparing = 0 /\ made = 0 /\ closed = FALSE
      BY OutstandingInit DEF Init, Uncounted
    <3> QED
      BY <3>1, FS_EmptySet DEF Tallied
  <2> QED
    BY <2>1, <2>2, <2>3
<1>2. I /\ [Next]_vars => I'
  <2> SUFFICES ASSUME Inv, Margins, TakenDown, Tallied, [Next]_vars PROVE I'
    OBVIOUS
  <2>1. Inv'
    BY InvStep
  <2>2. Margins' /\ TakenDown' /\ Tallied'
    BY MarginsStep, TakenDownStep, TalliedStep DEF Inv
  <2> QED
    BY <2>1, <2>2
<1>3. I => TypeOK
  <2> SUFFICES ASSUME I PROVE TypeOK
    OBVIOUS
  <2>1. pending \in (-NumRequests)..NumRequests /\ comparing \in 0..NumRequests
    BY CountersBounded
  <2>2. shut \in 0..NumClients
    BY SizesAssumption DEF Inv, Standing, Margins
  <2> QED
    BY <2>1, <2>2 DEF Inv, Shapes, Standing, Margins, TypeOK, DriverStates, WorkerStates,
      CollectorStates, CalculatorStates, Ids
<1> QED
  BY <1>1, <1>2, <1>3, PTL DEF Spec
=============================================================================
