--------------------------- MODULE GrpcBenchmark ----------------------------
(***************************************************************************)
(* One benchmark of the testbench: RunBenchmark of test_search_service.h   *)
(* on a GrpcBenchmark (grpc_benchmark.h) and its clients.  The driver makes *)
(* requests; a worker per client sends them; a collector per client takes  *)
(* the answers; one calculator counts them.  Two counters say how far they *)
(* are.                                                                    *)
(*                                                                         *)
(* TestResultScore waits without a timeout and uses synchronous clients    *)
(* (search_service_sync_client.h): a worker holds its client's mutex while *)
(* it calls, and hands the answer to the collector through a queue.  The   *)
(* other tests wait with a timeout and use asynchronous clients            *)
(* (search_service_async_client.h) on a completion queue each.             *)
(*                                                                         *)
(* The queues between the threads are those of ConcurrentQueue; here an    *)
(* operation on one is a single step, and what Close may do to a thread    *)
(* that is about to block is its choice of "late".  A wait with a timeout  *)
(* is left when its condition holds or at any time.                        *)
(***************************************************************************)
EXTENDS Integers, Sequences, FiniteSets

CONSTANTS
  NumClients,   \* size of clis
  NumRequests,  \* req_times
  Interrupts    \* the comparator may return false

ASSUME SizesAssumption == NumClients \in Nat \ {0} /\ NumRequests \in Nat
ASSUME InterruptsAssumption == Interrupts \in BOOLEAN

Clients == 0..(NumClients - 1)
Requests == 1..NumRequests

VARIABLES
  timed,        \* a timeout, and asynchronous clients
  driver,       \* progress of RunBenchmark and of the destructor
  made,         \* requests made so far
  enable,       \* enable_
  pending,      \* pending_num_
  comparing,    \* pending_compare_num_
  requests,     \* requests of each client's collection
  worker,       \* progress of processRequestWorker
  shut,         \* clients the destructor has closed
  sent,         \* calls or answers of a client that its collector has not taken
  collector,    \* progress of collectResponseWorker
  responses,    \* responses_
  calculator,   \* progress of calculateStatsWorker
  held,         \* the request a worker, a collector or the calculator holds
  counted,      \* what summary_data_.completed_requests counts
  rejected,     \* responses the comparator returned false for
  interrupted,  \* summary_data_.interupted
  reported,     \* interupted of the copy that Summary returned
  closed,       \* responses_ is closed
  inTime,       \* WaitAll, or WaitAllUntilTimeout with true, returned
  window,       \* what was on its way outside both counters when Summary looked
  late,         \* threads about to block on a queue when it was closed
  missed        \* Summary was notified after it looked and before it blocked

run == <<timed, driver, made, shut>>
counters == <<enable, pending, comparing>>
queues == <<requests, sent, responses, closed, late>>
threads == <<worker, collector, calculator, held>>
results == <<counted, rejected, interrupted, reported, inTime, window, missed>>
vars == <<run, counters, queues, threads, results>>

Nothing == 0

\* Threads by what they hold: <<"worker", c>>, <<"collector", c>>, <<"calculator", 0>>.
Holders == ({"worker", "collector"} \X Clients) \cup {<<"calculator", 0>>}
Calculator == <<"calculator", 0>>

TypeOK ==
  /\ timed \in BOOLEAN /\ enable \in BOOLEAN /\ closed \in BOOLEAN
  /\ inTime \in BOOLEAN /\ interrupted \in BOOLEAN /\ missed \in BOOLEAN
  /\ reported \in BOOLEAN
  /\ driver \in {"requesting", "waiting", "testing", "deciding", "blocked", "closing",
                 "summed", "destroying", "destroyed"}
  /\ shut \in 0..NumClients
  /\ made \in 0..NumRequests
  /\ pending \in (-NumRequests)..NumRequests
  /\ comparing \in 0..NumRequests
  /\ worker \in [Clients -> {"looping", "popping", "sending", "calling", "exited"}]
  /\ collector \in [Clients -> {"next", "uncounted", "announced", "exited"}]
  /\ calculator \in {"popping", "updating", "updated", "notifying", "judging", "exited"}
  /\ held \in [Holders -> Requests \cup {Nothing}]
  /\ sent \in [Clients -> SUBSET Requests]
  /\ rejected \subseteq counted /\ counted \subseteq Requests
  /\ window \subseteq Requests
  /\ late \subseteq Holders

Init ==
  /\ timed \in BOOLEAN
  /\ driver = "requesting"
  /\ made = 0
  /\ shut = 0
  /\ enable = TRUE
  /\ pending = 0
  /\ comparing = 0
  /\ requests = [c \in Clients |-> <<>>]
  /\ worker = [c \in Clients |-> "looping"]
  /\ sent = [c \in Clients |-> {}]
  /\ collector = [c \in Clients |-> "next"]
  /\ responses = <<>>
  /\ calculator = "popping"
  /\ held = [h \in Holders |-> Nothing]
  /\ late = {}
  /\ counted = {}
  /\ rejected = {}
  /\ interrupted = FALSE
  /\ reported = FALSE
  /\ closed = FALSE
  /\ inTime = FALSE
  /\ window = {}
  /\ missed = FALSE

-----------------------------------------------------------------------------
(* The driver: Request, WaitAll or WaitAllUntilTimeout. *)

MakeRequest ==
  LET r == made + 1
      c == made % NumClients
  IN
  /\ driver = "requesting"
  /\ made < NumRequests
  /\ made' = r
  /\ pending' = pending + 1
  /\ requests' = [requests EXCEPT ![c] = Append(@, r)]
  /\ UNCHANGED <<timed, driver, shut, enable, comparing, sent, responses, closed, late, threads,
                 results>>

BeginWait ==
  /\ driver = "requesting"
  /\ made = NumRequests
  /\ driver' = "waiting"
  /\ UNCHANGED <<timed, made, shut, counters, queues, threads, results>>

\* A bug AllAnswered could have: the last answer is not waited for.
AllButOneAnswered == ~enable \/ pending <= 1

AllAnswered == ~enable \/ pending = 0

\* wait_for returns whether the condition holds, also after the timeout.
EndWait ==
  /\ driver = "waiting"
  /\ AllAnswered \/ timed
  /\ inTime' = AllAnswered
  /\ enable' = FALSE
  /\ pending' = 0
  /\ driver' = "testing"
  /\ UNCHANGED <<timed, made, shut, comparing, queues, threads, counted, rejected, interrupted,
                 reported, window, missed>>

-----------------------------------------------------------------------------
(* The driver: Summary.  pending_num_ is 0 or less from here on. *)

\* Responses that a collector holds between the two counters, and the one
\* that the calculator took off the second before it acts on the verdict.
Between ==
  {held[<<"collector", c>>] : c \in {d \in Clients : collector[d] = "uncounted"}}
  \cup (IF calculator \in {"notifying", "judging"} THEN {held[Calculator]} ELSE {})

SummaryPasses ==
  /\ driver = "testing"
  /\ comparing <= 0
  /\ window' = Between
  /\ driver' = "closing"
  /\ UNCHANGED <<timed, made, shut, counters, queues, threads, counted, rejected, interrupted,
                 reported, inTime, missed>>

SummaryMustWait ==
  /\ driver = "testing"
  /\ comparing > 0
  /\ driver' = "deciding"
  /\ UNCHANGED <<timed, made, shut, counters, queues, threads, results>>

SummaryBlocks ==
  /\ driver = "deciding"
  /\ driver' = "blocked"
  /\ UNCHANGED <<timed, made, shut, counters, queues, threads, results>>

SpuriousWakeup ==
  /\ driver = "blocked"
  /\ driver' = "testing"
  /\ UNCHANGED <<timed, made, shut, counters, queues, threads, results>>

\* responses_.Close(); then summary_data_ is copied.
CloseResponses ==
  /\ driver = "closing"
  /\ closed' = TRUE
  /\ late' \in SUBSET (IF calculator = "popping" /\ responses = <<>> THEN {Calculator} ELSE {})
  /\ reported' = interrupted
  /\ driver' = "summed"
  /\ UNCHANGED <<timed, made, shut, counters, requests, sent, responses, threads, counted,
                 rejected, interrupted, inTime, window, missed>>

-----------------------------------------------------------------------------
(* The driver: ~GrpcBenchmark closes the clients and joins the threads.    *)
(* What RunBenchmark kept of the waits is forgotten when it begins.        *)

Destroying == driver \in {"destroying", "destroyed"}

\* For each client in turn, its requests are closed and then itself.
RequestsClosed(c) == Destroying /\ c <= shut

\* A bug the destructor could have: threads are joined before they are told.
ClientClosedLast(c) == driver = "destroyed"

ClientClosed(c) == c < shut

\* A worker that blocks on its queue may miss the close.
AsleepWorker(c) ==
  IF c \in Clients /\ worker[c] = "popping" /\ requests[c] = <<>>
  THEN {<<"worker", c>>} ELSE {}

Destroy ==
  /\ driver = "summed"
  /\ driver' = "destroying"
  /\ enable' = FALSE
  /\ late' \in {late, late \cup AsleepWorker(0)}
  /\ inTime' = FALSE /\ reported' = FALSE /\ missed' = FALSE /\ window' = {}
  /\ UNCHANGED <<timed, made, shut, pending, comparing, requests, sent, responses, closed,
                 threads, counted, rejected, interrupted>>

\* A synchronous client is closed under the mutex its worker holds in a
\* call; closing its queue may miss the collector.
CloseClient ==
  LET c == shut
      asleep == IF ~timed /\ collector[c] = "next" /\ sent[c] = {}
                THEN {<<"collector", c>>} ELSE {}
  IN
  /\ driver = "destroying"
  /\ shut < NumClients
  /\ worker[c] # "calling"
  /\ shut' = shut + 1
  /\ \E some \in SUBSET (asleep \cup AsleepWorker(c + 1)) : late' = late \cup some
  /\ UNCHANGED <<timed, made, driver, counters, requests, sent, responses, closed, threads,
                 results>>

Join ==
  /\ driver = "destroying"
  /\ shut = NumClients
  /\ \A c \in Clients : worker[c] = "exited" /\ collector[c] = "exited"
  /\ calculator = "exited"
  /\ driver' = "destroyed"
  /\ UNCHANGED <<timed, made, shut, counters, queues, threads, results>>

-----------------------------------------------------------------------------
(* processRequestWorker. *)

TestEnable(c) ==
  /\ worker[c] = "looping"
  /\ worker' = [worker EXCEPT ![c] = IF enable THEN "popping" ELSE "exited"]
  /\ UNCHANGED <<run, counters, queues, collector, calculator, held, results>>

PopRequest(c) ==
  /\ worker[c] = "popping"
  /\ \/ /\ ~RequestsClosed(c)
        /\ requests[c] # <<>>
        /\ held' = [held EXCEPT ![<<"worker", c>>] = Head(requests[c])]
        /\ requests' = [requests EXCEPT ![c] = Tail(@)]
        /\ worker' = [worker EXCEPT ![c] = "sending"]
     \/ /\ RequestsClosed(c) /\ <<"worker", c>> \notin late
        /\ worker' = [worker EXCEPT ![c] = "exited"]
        /\ UNCHANGED <<requests, held>>
  /\ UNCHANGED <<run, counters, sent, responses, closed, late, collector, calculator,
                 results>>

\* A client that is closed refuses the request, which is forgotten.
SendRequest(c) ==
  /\ worker[c] = "sending"
  /\ timed \/ ClientClosed(c)
  /\ sent' = IF ClientClosed(c) THEN sent
             ELSE [sent EXCEPT ![c] = @ \cup {held[<<"worker", c>>]}]
  /\ held' = [held EXCEPT ![<<"worker", c>>] = Nothing]
  /\ worker' = [worker EXCEPT ![c] = "looping"]
  /\ UNCHANGED <<run, counters, requests, responses, closed, late, collector, calculator,
                 results>>

BeginCall(c) ==
  /\ worker[c] = "sending"
  /\ ~timed /\ ~ClientClosed(c)
  /\ worker' = [worker EXCEPT ![c] = "calling"]
  /\ UNCHANGED <<run, counters, queues, collector, calculator, held, results>>

\* The answer or the deadline.
EndCall(c) ==
  /\ worker[c] = "calling"
  /\ sent' = [sent EXCEPT ![c] = @ \cup {held[<<"worker", c>>]}]
  /\ held' = [held EXCEPT ![<<"worker", c>>] = Nothing]
  /\ worker' = [worker EXCEPT ![c] = "looping"]
  /\ UNCHANGED <<run, counters, requests, responses, closed, late, collector, calculator,
                 results>>

-----------------------------------------------------------------------------
(* collectResponseWorker.  Every call gets an answer or its deadline. *)

\* A completion queue hands out what is left on it in any order; the queue of
\* a synchronous client gives the oldest, and nothing once it is closed.
Takes(c, r) ==
  /\ collector[c] = "next"
  /\ r \in sent[c]
  /\ timed \/ (~ClientClosed(c) /\ \A q \in sent[c] : r <= q)

\* A bug Collect could have: pending_num_ is left alone.
CollectUncounted(c, r) ==
  /\ Takes(c, r)
  /\ sent' = [sent EXCEPT ![c] = @ \ {r}]
  /\ held' = [held EXCEPT ![<<"collector", c>>] = r]
  /\ collector' = [collector EXCEPT ![c] = "uncounted"]
  /\ UNCHANGED <<run, counters, requests, responses, closed, late, worker, calculator,
                 results>>

Collect(c, r) ==
  /\ Takes(c, r)
  /\ sent' = [sent EXCEPT ![c] = @ \ {r}]
  /\ held' = [held EXCEPT ![<<"collector", c>>] = r]
  /\ pending' = pending - 1
  /\ collector' = [collector EXCEPT ![c] = "uncounted"]
  /\ UNCHANGED <<run, enable, comparing, requests, responses, closed, late, worker,
                 calculator, results>>

\* A bug Announce could have: an interrupted benchmark counts no more.
AnnounceWhileEnabled(c) ==
  /\ collector[c] = "uncounted"
  /\ comparing' = IF enable THEN comparing + 1 ELSE comparing
  /\ collector' = [collector EXCEPT ![c] = "announced"]
  /\ UNCHANGED <<run, enable, pending, queues, worker, calculator, held, results>>

Announce(c) ==
  /\ collector[c] = "uncounted"
  /\ comparing' = comparing + 1
  /\ collector' = [collector EXCEPT ![c] = "announced"]
  /\ UNCHANGED <<run, enable, pending, queues, worker, calculator, held, results>>

\* A response that comes after the close is dropped.
PushResponse(c) ==
  /\ collector[c] = "announced"
  /\ responses' = IF closed THEN responses ELSE Append(responses, held[<<"collector", c>>])
  /\ held' = [held EXCEPT ![<<"collector", c>>] = Nothing]
  /\ collector' = [collector EXCEPT ![c] = "next"]
  /\ UNCHANGED <<run, counters, requests, sent, closed, late, worker, calculator, results>>

\* The completion queue is shut down and drained; or the queue is closed.
CollectorExits(c) ==
  /\ collector[c] = "next"
  /\ ClientClosed(c)
  /\ IF timed THEN sent[c] = {} ELSE <<"collector", c>> \notin late
  /\ collector' = [collector EXCEPT ![c] = "exited"]
  /\ UNCHANGED <<run, counters, queues, worker, calculator, held, results>>

-----------------------------------------------------------------------------
(* calculateStatsWorker. *)

PopResponse ==
  /\ calculator = "popping"
  /\ \/ /\ ~closed
        /\ responses # <<>>
        /\ held' = [held EXCEPT ![Calculator] = Head(responses)]
        /\ responses' = Tail(responses)
        /\ calculator' = "updating"
     \/ /\ closed /\ Calculator \notin late
        /\ calculator' = "exited"
        /\ UNCHANGED <<responses, held>>
  /\ UNCHANGED <<run, counters, requests, sent, closed, late, worker, collector, results>>

\* The response is counted and compared; Compare may return false.
UpdateSummary ==
  LET r == held[Calculator] IN
  /\ calculator = "updating"
  /\ counted' = counted \cup {r}
  /\ rejected' \in IF Interrupts THEN {rejected, rejected \cup {r}} ELSE {rejected}
  /\ calculator' = "updated"
  /\ UNCHANGED <<run, counters, queues, worker, collector, held, interrupted, reported,
                 inTime, window, missed>>

EndCompare ==
  /\ calculator = "updated"
  /\ comparing' = comparing - 1
  /\ calculator' = "notifying"
  /\ UNCHANGED <<run, enable, pending, queues, worker, collector, held, results>>

\* A bug Finished could have: only a negative count is announced.
FinishedBelowZero == comparing < 0

Finished == comparing <= 0

\* summary_cv_wait_ is notified without summary_mutex_.
NotifySummary ==
  /\ calculator = "notifying"
  /\ driver' = IF Finished /\ driver = "blocked" THEN "testing" ELSE driver
  /\ missed' = (missed \/ (Finished /\ driver = "deciding"))
  /\ calculator' = "judging"
  /\ UNCHANGED <<timed, made, shut, counters, queues, worker, collector, held, counted,
                 rejected, interrupted, reported, inTime, window>>

\* A response the comparator rejected ends the benchmark.
Judge ==
  LET ok == held[Calculator] \notin rejected IN
  /\ calculator = "judging"
  /\ interrupted' = (interrupted \/ ~ok)
  /\ enable' = (enable /\ ok)
  /\ held' = [held EXCEPT ![Calculator] = Nothing]
  /\ calculator' = "popping"
  /\ UNCHANGED <<run, pending, comparing, queues, worker, collector, counted, rejected,
                 reported, inTime, window, missed>>

-----------------------------------------------------------------------------

DriverStep ==
  \/ MakeRequest \/ BeginWait \/ EndWait
  \/ SummaryPasses \/ SummaryMustWait \/ SummaryBlocks \/ CloseResponses
  \/ Destroy \/ CloseClient \/ Join

WorkerStep(c) == TestEnable(c) \/ PopRequest(c) \/ SendRequest(c) \/ BeginCall(c) \/ EndCall(c)

CollectorStep(c) ==
  \/ \E r \in Requests : Collect(c, r)
  \/ Announce(c) \/ PushResponse(c) \/ CollectorExits(c)

CalculatorStep == PopResponse \/ UpdateSummary \/ EndCompare \/ NotifySummary \/ Judge

Next ==
  \/ DriverStep
  \/ \E c \in Clients : WorkerStep(c) \/ CollectorStep(c)
  \/ CalculatorStep
  \/ SpuriousWakeup

Spec == Init /\ [][Next]_vars

\* Threads are scheduled, and a call ends by its deadline at the latest.
Fairness ==
  /\ WF_vars(DriverStep)
  /\ \A c \in Clients : WF_vars(WorkerStep(c)) /\ WF_vars(CollectorStep(c))
  /\ WF_vars(CalculatorStep)

FairSpec == Spec /\ Fairness

-----------------------------------------------------------------------------
(* Correctness. *)

\* pending_compare_num_ counts a response from before its push until after
\* its update (grpc_benchmark.h:172, 189): when Summary sees none, no
\* response is queued and the calculator is not writing to summary_data_.
CompareCountCovers ==
  ~closed =>
    comparing = Len(responses)
                + Cardinality({c \in Clients : collector[c] = "announced"})
                + (IF calculator \in {"updating", "updated"} THEN 1 ELSE 0)

\* When all requests were answered in time, the only responses a summary can
\* miss are those a collector held between the two counters when Summary
\* looked (grpc_benchmark.h:168-172).
MissedOnlyBetween ==
  driver = "summed" /\ inTime /\ ~interrupted => Requests \ counted \subseteq window

\* The comparator's verdict ends the benchmark after the count of the
\* responses at work was taken down (grpc_benchmark.h:189, 193-194): when all
\* requests were answered in time, the summary that test_cases.h:65 judges
\* hides a rejection only of a response that was then outside both counters.
VerdictInTime ==
  driver = "summed" /\ inTime /\ ~reported => rejected \subseteq window

\* WaitAll has no timeout, and needs none: each request is sent, answered
\* and taken off pending_num_, or the benchmark is interrupted.
WaitReturns == driver = "waiting" ~> driver # "waiting"

\* Summary has no timeout either.  It returns, unless the last notification
\* came after it looked at the counter and before it was blocked, which
\* notifying without summary_mutex_ allows (grpc_benchmark.h:190-192).
SummaryReturns == driver = "testing" ~> driver = "summed" \/ missed

\* The destructor joins every thread (grpc_benchmark.h:245-263), whatever is
\* still queued or on its way, unless the close of a queue missed one that
\* was about to block on it (concurent_queue.h:69-74).
BenchmarkDestroyed == driver = "summed" ~> driver = "destroyed" \/ late # {}

\* grpc_benchmark.h:290, "wait all request": a wait that did not time out
\* leaves no request out of the summary.
AllCounted ==
  driver = "summed" /\ inTime /\ ~interrupted => counted = Requests
=============================================================================
