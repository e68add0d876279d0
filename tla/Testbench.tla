----------------------------- MODULE Testbench ------------------------------
(***************************************************************************)
(* How the testbench judges the service: TestAll and main of testbench.cc, *)
(* the four tests of test_cases.h, and the search of TestMaxQps            *)
(* (test_search_service.h) for the highest rate the service sustains.      *)
(*                                                                         *)
(* One benchmark is one step with any summary that GrpcBenchmark can       *)
(* return; the answers it compared are all alike.  Shares are in           *)
(* thousandths, scores in points, rates in requests per second.  A mean    *)
(* of nothing is NaN, which no comparison finds less or greater than       *)
(* anything.                                                               *)
(***************************************************************************)
EXTENDS Integers, Sequences

CONSTANTS
  Json,       \* what config.json holds
  Reference,  \* the expected answer of a test case: ids and prices
  Answers,    \* answers the service may give to it
  Percents,   \* shares of its requests the service may answer, in thousandths
  Latencies   \* 99th percentiles the service may show, in milliseconds

NaN == -1

\* std::isless and operator< with a NaN are false.
Less(a, b) == a # NaN /\ b # NaN /\ a < b

-----------------------------------------------------------------------------
(* Configuration: g_config, as ReadConfigFromFile leaves it. *)

result_cfg == Json.test_result
max_qps_cfg == Json.test_max_qps
response_time_cfg == Json.test_response_time
stability_cfg == Json.test_stability

ASSUME JsonAssumption ==
  /\ Json.accuracy_th \in Nat
  /\ Json.M \in Nat \ {0}
  /\ Json.test_result.sample_num \in Nat /\ Json.test_result.qps_limit \in Nat
  /\ LET c == Json.test_response_time IN
       c.qps_limit \in Nat /\ c.test_duration_sec \in Nat /\ c.timeout_ms \in Nat
  /\ LET c == Json.test_stability IN
       c.load_percent \in Nat /\ c.test_duration_sec \in Nat /\ c.success_percent_th \in Nat

\* The first step back from the baseline must not go below zero: RunBenchmark
\* compares the number of requests, an int32_t, with a size_t.
ASSUME MaxQpsAssumption ==
  LET c == Json.test_max_qps IN
  /\ c.qps_baseline \in Nat /\ c.qps_upper \in Nat
  /\ c.qps_step0 \in 1..c.qps_baseline
  /\ c.qps_step1 \in Nat \ {0}
  /\ c.request_duration_each_iter_sec \in Nat
  /\ c.success_percent_th \in 1..1000

ASSUME ServiceAssumption ==
  /\ Percents \subseteq 0..1000
  /\ Latencies \subseteq Nat

-----------------------------------------------------------------------------
(* The comparators: what an answer to a test case earns. *)

Prefix(s, n) == SubSeq(s, 1, n)
Elements(s) == {s[i] : i \in 1..Len(s)}

\* ceil(accuracy_th * size), with accuracy_th in percent.
topNCheckNum == (Json.accuracy_th * Len(Reference.ids) + 99) \div 100

\* The ids of an answer are distinct: a permutation of some is the same set.
ComparatorAll(resp) ==
  LET n == topNCheckNum
      ids == Prefix(resp.ids, n)
      expected == Prefix(Reference.ids, n)
      pricesEqual == Prefix(resp.prices, n) = Prefix(Reference.prices, n)
  IN
  IF Len(resp.ids) < n THEN 0
  ELSE IF ids = expected THEN (IF pricesEqual THEN 100 ELSE 80)
  ELSE IF Elements(ids) = Elements(expected) THEN 50
  ELSE 0

\* Of a hundred answers only some are selected.
ComparatorSample(selected, resp) == IF selected THEN ComparatorAll(resp) ELSE NaN

-----------------------------------------------------------------------------
(* Benchmarks: RunBenchmark with n requests at a rate. *)

\* SummaryData{}: no benchmark was run.
Empty == [rate |-> 0, percent |-> 0, score |-> NaN, p99 |-> 0, qps |-> 0, interupted |-> FALSE]

\* Nothing was asked (0 / 0), or all that was asked failed: there is no mean
\* score, and no latency.
Unserved(rate, percent) ==
  [rate |-> rate, percent |-> percent, score |-> NaN, p99 |-> 0, qps |-> 0,
   interupted |-> FALSE]

\* The token bucket keeps the rate; answers per second follow from the share.
\* A comparator interrupts at a test case without an expected answer.
Served(rate, scores) ==
  {[rate |-> rate, percent |-> percent, score |-> score, p99 |-> p99,
    qps |-> (rate * percent) \div 1000, interupted |-> interupted] :
     percent \in Percents \ {0}, score \in scores, p99 \in Latencies,
     interupted \in BOOLEAN}

Summaries(n, rate, scores) ==
  IF n = 0 THEN {Unserved(rate, NaN)}
  ELSE {Unserved(rate, 0)} \cup Served(rate, scores)

AllScores == {ComparatorAll(a) : a \in Answers}
SampleScores == {ComparatorSample(s, a) : s \in BOOLEAN, a \in Answers}

\* Each request ends by its deadline, long before the benchmark does.
Sampled(n, rate) == Summaries(n, rate, SampleScores)

\* Every answer is compared, unless the first test case interrupts.
Compared(n, rate) ==
  {s \in Summaries(n, rate, AllScores \cup {NaN}) :
     s.score = NaN => s.interupted \/ s.percent <= 0}

-----------------------------------------------------------------------------

VARIABLES
  phase,          \* the test in progress
  qps_limit,      \* TestMaxQps: the rate to try next
  qps_max,        \* TestMaxQps: no rate above it is tried
  valid_summary,  \* the last summary of the batch that passed
  summary0,       \* what the first batch returned
  reported,       \* what TestMaxQps returned
  passed,         \* rates TestMaxQps tried that passed
  failed,         \* and those that failed
  stable,         \* the summary TestServiceStabilityCalcStat judged
  stat            \* the Statistic

search == <<qps_limit, qps_max, valid_summary, summary0, reported, passed, failed>>
vars == <<phase, search, stable, stat>>

Phases ==
  {"config", "setup", "exited", "result", "batch0", "batch1", "capacity", "response", "stability", "final",
   "dumped"}

\* Nothing was returned by TestMaxQps yet.
Searching == {"config", "setup", "result", "batch0", "batch1"}

Summary ==
  [rate : Nat, percent : 0..1000 \cup {NaN}, score : 0..100 \cup {NaN}, p99 : Nat,
   qps : Nat, interupted : BOOLEAN]

Statistic ==
  [result_score : 0..100 \cup {NaN}, max_qps : Nat, capacity_score : 0..100,
   response_time_score : Nat, service_score : {0, 100}, final_score : Nat \cup {NaN}]

\* A rate that is tried is no negative number (test_search_service.h:106-107
\* steps back below a rate that failed).
TestbenchTypeOK ==
  /\ phase \in Phases
  /\ qps_limit \in Int
  /\ phase \in Searching => qps_limit >= 0
  /\ qps_max \in Nat
  /\ valid_summary \in Summary
  /\ summary0 \in Summary
  /\ reported \in Summary
  /\ passed \subseteq Nat
  /\ failed \subseteq Nat
  /\ stable \in Summary
  /\ stat \in Statistic

Init ==
  /\ phase = "config"
  /\ qps_limit = max_qps_cfg.qps_baseline
  /\ qps_max = max_qps_cfg.qps_upper
  /\ valid_summary = Empty
  /\ summary0 = Empty
  /\ reported = Empty
  /\ passed = {}
  /\ failed = {}
  /\ stable = Empty
  /\ stat = [result_score |-> 0, max_qps |-> 0, capacity_score |-> 0,
             response_time_score |-> 0, service_score |-> 0, final_score |-> 0]

\* A bug Continue could have: what a test returns is ignored.
ContinueAnyway(ok, next) == phase' = next

\* TestAll returns at the first test that fails.
Continue(ok, next) == phase' = IF ok THEN next ELSE "final"

-----------------------------------------------------------------------------
(* ReadConfigFromFile, SetupSearchService. *)

\* main returns without a configuration: nothing is written.
ReadConfig ==
  /\ phase = "config"
  /\ phase' \in {"setup", "exited"}
  /\ UNCHANGED <<search, stable, stat>>

\* The driver polls etcd until it finds the balancer or runs out of time.
SetupSearchService ==
  /\ phase = "setup"
  /\ \E found \in BOOLEAN : Continue(found, "result")
  /\ UNCHANGED <<search, stable, stat>>

-----------------------------------------------------------------------------
(* TestResulCalcStat. *)

ScoreResult ==
  /\ phase = "result"
  /\ \E s \in Compared(result_cfg.sample_num, result_cfg.qps_limit) :
       /\ stat' = [stat EXCEPT !.result_score = s.score]
       /\ Continue(~Less(s.score, result_cfg.final_score_th) /\ ~Less(s.percent, 1000),
                   "batch0")
  /\ UNCHANGED <<search, stable>>

-----------------------------------------------------------------------------
(* TestMaxQps: two batches share qps_limit and qps_max. *)

Step == IF phase = "batch0" THEN max_qps_cfg.qps_step0 ELSE max_qps_cfg.qps_step1

\* The mean score, here in thousandths of a point, is compared with the
\* threshold of the share.
BatchFails(s) ==
  LET avg_score == IF s.score = NaN THEN NaN ELSE 1000 * s.score IN
  \/ Less(s.percent, max_qps_cfg.success_percent_th)
  \/ Less(avg_score, max_qps_cfg.success_percent_th)

Trials ==
  Sampled(qps_limit * max_qps_cfg.request_duration_each_iter_sec, qps_limit)

\* A bug RatePasses could have: the next rate is the same one.
RatePassesAgain ==
  /\ phase \in {"batch0", "batch1"}
  /\ qps_limit <= qps_max
  /\ \E s \in Trials : ~BatchFails(s) /\ valid_summary' = s
  /\ passed' = passed \cup {qps_limit}
  /\ UNCHANGED <<phase, qps_limit, qps_max, summary0, reported, failed, stable, stat>>

RatePasses ==
  /\ phase \in {"batch0", "batch1"}
  /\ qps_limit <= qps_max
  /\ \E s \in Trials : ~BatchFails(s) /\ valid_summary' = s
  /\ qps_limit' = qps_limit + Step
  /\ passed' = passed \cup {qps_limit}
  /\ UNCHANGED <<phase, qps_max, summary0, reported, failed, stable, stat>>

\* A batch returns valid_summary; TestMaxQps returns that of the second one
\* unless it shows a failure.
EndBatch ==
  \/ /\ phase = "batch0"
     /\ phase' = "batch1"
     /\ summary0' = valid_summary
     /\ valid_summary' = Empty
     /\ UNCHANGED reported
  \/ /\ phase = "batch1"
     /\ phase' = "capacity"
     /\ reported' = IF Less(valid_summary.percent, max_qps_cfg.success_percent_th)
                    THEN summary0 ELSE valid_summary
     /\ UNCHANGED <<summary0, valid_summary>>

\* Bugs RateFails could have: the second batch starts where the first one
\* failed; it starts two steps below.
RateFailsStays ==
  /\ qps_limit <= qps_max
  /\ \E s \in Trials : BatchFails(s)
  /\ qps_max' = qps_limit
  /\ failed' = failed \cup {qps_limit}
  /\ EndBatch
  /\ UNCHANGED <<qps_limit, passed, stable, stat>>

RateFailsTwoSteps ==
  /\ qps_limit <= qps_max
  /\ \E s \in Trials : BatchFails(s)
  /\ qps_max' = qps_limit
  /\ qps_limit' = qps_limit - 2 * Step
  /\ failed' = failed \cup {qps_limit}
  /\ EndBatch
  /\ UNCHANGED <<passed, stable, stat>>

RateFails ==
  /\ qps_limit <= qps_max
  /\ \E s \in Trials : BatchFails(s)
  /\ qps_max' = qps_limit
  /\ qps_limit' = qps_limit - Step
  /\ failed' = failed \cup {qps_limit}
  /\ EndBatch
  /\ UNCHANGED <<passed, stable, stat>>

RangeExhausted ==
  /\ qps_limit > qps_max
  /\ EndBatch
  /\ UNCHANGED <<qps_limit, qps_max, passed, failed, stable, stat>>

-----------------------------------------------------------------------------
(* TestMaxQpsCalcStat, TestResponseTimeCalcStat, TestServiceStabilityCalcStat. *)

\* A bug Unfit could have: the share is not looked at.
UnfitIfInterupted(s, cfg) == s.interupted

Unfit(s, cfg) == s.interupted \/ Less(s.percent, cfg.success_percent_th)
WrongAnswers(s, cfg) == Less(s.score, cfg.sample_score_th)

CapacityScore(qps) ==
  LET score == (100 * 2 * qps) \div (3 * Json.M) IN IF score > 100 THEN 100 ELSE score

ScoreCapacity ==
  LET ok == ~Unfit(reported, max_qps_cfg) /\ ~WrongAnswers(reported, max_qps_cfg) IN
  /\ phase = "capacity"
  /\ stat' = [stat EXCEPT
       !.max_qps = IF Unfit(reported, max_qps_cfg) THEN 0 ELSE reported.qps,
       !.capacity_score = IF ok THEN CapacityScore(reported.qps)
                          ELSE stat.capacity_score]
  /\ Continue(ok, "response")
  /\ UNCHANGED <<search, stable>>

ResponseTimeScore(p99) ==
  LET left == response_time_cfg.timeout_ms - p99 IN
  IF left > 0 THEN (left * left) \div 100 ELSE 0

ScoreResponseTime ==
  LET cfg == response_time_cfg IN
  /\ phase = "response"
  /\ \E s \in Sampled(cfg.qps_limit * cfg.test_duration_sec, cfg.qps_limit) :
       LET ok == ~WrongAnswers(s, cfg) /\ ~Unfit(s, cfg) IN
       /\ stat' = [stat EXCEPT
            !.response_time_score = IF ok THEN ResponseTimeScore(s.p99) ELSE 0]
       /\ Continue(ok, "stability")
  /\ UNCHANGED <<search, stable>>

\* The load is a share of the rate that was measured.
ScoreStability ==
  LET cfg == stability_cfg
      load == (cfg.load_percent * stat.max_qps) \div 100
  IN
  /\ phase = "stability"
  /\ \E s \in Sampled((cfg.load_percent * stat.max_qps * cfg.test_duration_sec) \div 100,
                      load) :
       LET ok == ~WrongAnswers(s, cfg) /\ ~Unfit(s, cfg) IN
       /\ stable' = s
       /\ stat' = [stat EXCEPT !.service_score = IF ok THEN 100 ELSE 0]
  /\ phase' = "final"
  /\ UNCHANGED search

-----------------------------------------------------------------------------
(* main: the final score, in tenths of a point. *)

FinalScore ==
  IF stat.result_score = NaN THEN NaN
  ELSE 5 * stat.result_score + 2 * stat.response_time_score + 2 * stat.capacity_score
       + stat.service_score

DumpStats ==
  /\ phase = "final"
  /\ stat' = [stat EXCEPT !.final_score = FinalScore]
  /\ phase' = "dumped"
  /\ UNCHANGED <<search, stable>>

Next ==
  \/ ReadConfig \/ SetupSearchService \/ ScoreResult
  \/ RatePasses \/ RateFails \/ RangeExhausted
  \/ ScoreCapacity \/ ScoreResponseTime \/ ScoreStability
  \/ DumpStats

Spec == Init /\ [][Next]_vars

\* A benchmark returns (GrpcBenchmark shows when), and the driver goes on.
FairSpec == Spec /\ WF_vars(Next)

-----------------------------------------------------------------------------
(* Correctness. *)

\* What TestMaxQps returns (test_search_service.h:86-127), however unsteady
\* the service is: the summary of the highest rate that passed, and within
\* one fine step above it a rate that failed - or within one coarse step the
\* end of the range, where no fine step is made.
MaxQpsIsSharp ==
  phase \in {"capacity", "response", "stability"} =>
    IF passed = {} THEN reported = Empty
    ELSE /\ reported.rate \in passed
         /\ \A rate \in passed : rate <= reported.rate
         /\ \/ \E rate \in failed :
                 reported.rate <= rate /\ rate <= reported.rate + max_qps_cfg.qps_step1
            \/ reported.rate + max_qps_cfg.qps_step0 > max_qps_cfg.qps_upper

\* A service is given points for its capacity, speed and stability only after
\* it passed the tests before (testbench.cc:111-114): its answers were right,
\* and the summary of its highest rate shows neither a failure nor wrong
\* answers - which the search for this rate does not see to (BatchFails).
LaterScoresNeedEarlier ==
  stat.capacity_score > 0 \/ stat.response_time_score > 0 \/ stat.service_score > 0 =>
    /\ ~Less(stat.result_score, result_cfg.final_score_th)
    /\ ~Unfit(reported, max_qps_cfg) /\ ~WrongAnswers(reported, max_qps_cfg)

\* Both batches end, each test is run or skipped, and the score is written,
\* unless there is no configuration.
Finishes == <>(phase \in {"dumped", "exited"})

\* test_cases.h:25 with config.json:46: the points for stability go to a
\* service that answered the configured share of its requests under load.
\* There is one way round it: the service failed at every rate it was tried
\* at, TestMaxQps "passed" the rate zero with the mean of nothing, and the
\* load is a share of zero: it is asked nothing, and nothing shows a failure.
ServiceScoreEarned ==
  stat.service_score = 100 =>
    \/ stable.percent >= Json.test_stability.success_percent_th
    \/ /\ stable.percent = NaN
       /\ stat.max_qps * stability_cfg.load_percent * stability_cfg.test_duration_sec < 100
=============================================================================
