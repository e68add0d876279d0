-------------------------- MODULE TestbenchProofs ---------------------------
(* Proofs about Testbench, for every configuration and every service. *)
EXTENDS Testbench, TLAPS

-----------------------------------------------------------------------------
(* Numbers, answers and summaries. *)

\* A mean, a share or a rate that is computed from two naturals is one.
LEMMA QuotientType ==
  ASSUME NEW a \in Nat, NEW b \in Nat, NEW d \in Nat \ {0}
  PROVE  /\ a * b \in Nat
         /\ a \div d \in Nat
         /\ (a * b) \div d \in Nat
<1>1. a * b \in Nat
  BY SMT
<1>2. \A x \in Nat : x \div d \in Nat
  BY SMT
<1> QED BY <1>1, <1>2

\* What a test needs of the configuration of TestMaxQps.
LEMMA MaxQpsConfigType ==
  /\ max_qps_cfg.qps_baseline \in Nat /\ max_qps_cfg.qps_upper \in Nat
  /\ max_qps_cfg.qps_step0 \in Nat /\ max_qps_cfg.qps_step1 \in Nat
  /\ max_qps_cfg.qps_step0 > 0 /\ max_qps_cfg.qps_step1 > 0
  /\ max_qps_cfg.qps_step0 <= max_qps_cfg.qps_baseline
  /\ max_qps_cfg.request_duration_each_iter_sec \in Nat
  /\ max_qps_cfg.success_percent_th \in 1..1000
BY MaxQpsAssumption DEF max_qps_cfg

\* The comparators know four marks (search_service_comparator.h:107-157).
LEMMA ComparatorType ==
  ASSUME NEW a
  PROVE  ComparatorAll(a) \in {0, 50, 80, 100}
BY DEF ComparatorAll

\* Whatever the service does, the summary of a benchmark is one, of the rate
\* that was asked for.
LEMMA SummariesType ==
  ASSUME NEW n, NEW rate \in Nat, NEW scores \in SUBSET (0..100 \cup {NaN}),
         NEW s \in Summaries(n, rate, scores)
  PROVE  s \in Summary /\ s.rate = rate
<1>0. \A p \in {NaN, 0} : Unserved(rate, p) \in Summary /\ Unserved(rate, p).rate = rate
  BY DEF Unserved, Summary, NaN
<1>1. CASE s = Unserved(rate, NaN)
  BY <1>0, <1>1
<1>2. CASE s = Unserved(rate, 0)
  BY <1>0, <1>2
<1>3. CASE s \in Served(rate, scores)
  <2>1. PICK percent \in Percents \ {0}, score \in scores, p99 \in Latencies,
             interupted \in BOOLEAN :
          s = [rate |-> rate, percent |-> percent, score |-> score, p99 |-> p99,
               qps |-> (rate * percent) \div 1000, interupted |-> interupted]
    BY <1>3 DEF Served
  <2>2. percent \in 0..1000 /\ percent \in Nat /\ p99 \in Nat
    BY <2>1, ServiceAssumption
  <2>3. (rate * percent) \div 1000 \in Nat
    BY <2>2, QuotientType
  <2> QED BY <2>1, <2>2, <2>3 DEF Summary, NaN
<1> QED BY <1>1, <1>2, <1>3 DEF Summaries

LEMMA SampledType ==
  ASSUME NEW n, NEW rate \in Nat, NEW s \in Sampled(n, rate)
  PROVE  s \in Summary /\ s.rate = rate
<1>1. SampleScores \in SUBSET (0..100 \cup {NaN})
  BY ComparatorType DEF SampleScores, ComparatorSample
<1> QED BY <1>1, SummariesType DEF Sampled

LEMMA ComparedType ==
  ASSUME NEW n, NEW rate \in Nat, NEW s \in Compared(n, rate)
  PROVE  s \in Summary /\ s.rate = rate
<1>1. AllScores \cup {NaN} \in SUBSET (0..100 \cup {NaN})
  BY ComparatorType DEF AllScores
<1>2. s \in Summaries(n, rate, AllScores \cup {NaN})
  BY DEF Compared
<1> QED BY <1>1, <1>2, SummariesType

LEMMA EmptyType == Empty \in Summary
BY DEF Empty, Summary, NaN

\* The scores are in range.
LEMMA CapacityScoreType ==
  ASSUME NEW qps \in Nat
  PROVE  CapacityScore(qps) \in 0..100
<1>1. 100 * 2 * qps \in Nat /\ 3 * Json.M \in Nat \ {0}
  BY JsonAssumption
<1>2. (100 * 2 * qps) \div (3 * Json.M) \in Nat
  BY <1>1, QuotientType
<1> QED BY <1>2 DEF CapacityScore

LEMMA ResponseTimeScoreType ==
  ASSUME NEW p99 \in Nat
  PROVE  ResponseTimeScore(p99) \in Nat
<1> DEFINE left == response_time_cfg.timeout_ms - p99
<1>1. CASE left > 0
  <2>1. left \in Nat
    BY <1>1, JsonAssumption DEF response_time_cfg
  <2>2. (left * left) \div 100 \in Nat
    BY <2>1, QuotientType
  <2> QED BY <1>1, <2>2 DEF ResponseTimeScore
<1>2. CASE ~(left > 0)
  BY <1>2 DEF ResponseTimeScore
<1> QED BY <1>1, <1>2

-----------------------------------------------------------------------------
(* Types. *)

LEMMA TrialsType ==
  ASSUME TestbenchTypeOK, phase \in {"batch0", "batch1"}, NEW s \in Trials
  PROVE  s \in Summary /\ s.rate = qps_limit
<1>1. qps_limit \in Nat
  BY DEF TestbenchTypeOK, Searching
<1> QED BY <1>1, SampledType DEF Trials

LEMMA StepType == Step \in Nat /\ Step > 0
BY MaxQpsConfigType DEF Step

\* The coarse batch keeps one step above zero.
TypeInv ==
  /\ TestbenchTypeOK
  /\ phase \in {"config", "setup", "result", "batch0"} => qps_limit >= max_qps_cfg.qps_step0

LEMMA TypeInit == Init => TypeInv
<1> SUFFICES ASSUME Init PROVE TypeInv
  OBVIOUS
<1>1. stat \in Statistic
  BY DEF Init, Statistic, NaN
<1> QED BY <1>1, EmptyType, MaxQpsConfigType DEF Init, TypeInv, TestbenchTypeOK, Phases, Searching

LEMMA TypeNext == TypeInv /\ [Next]_vars => TypeInv'
<1> SUFFICES ASSUME TypeInv, [Next]_vars PROVE TypeInv'
  OBVIOUS
<1> USE MaxQpsConfigType, EmptyType
<1>0. TestbenchTypeOK
  BY DEF TypeInv
<1>1. CASE ReadConfig
  BY <1>1 DEF ReadConfig, search, TypeInv, TestbenchTypeOK, Phases, Searching
<1>2. CASE SetupSearchService
  BY <1>2 DEF SetupSearchService, Continue, search, TypeInv, TestbenchTypeOK, Phases, Searching
<1>3. CASE ScoreResult
  <2>1. PICK s \in Compared(result_cfg.sample_num, result_cfg.qps_limit) :
          stat' = [stat EXCEPT !.result_score = s.score]
    BY <1>3 DEF ScoreResult
  <2>2. result_cfg.qps_limit \in Nat
    BY JsonAssumption DEF result_cfg
  <2>3. s \in Summary
    BY <2>1, <2>2, ComparedType
  <2>4. stat' \in Statistic
    BY <1>0, <2>1, <2>3 DEF TestbenchTypeOK, Statistic, Summary
  <2> QED BY <1>3, <2>4 DEF ScoreResult, Continue, search, TypeInv, TestbenchTypeOK, Phases, Searching
<1>4. CASE RatePasses
  <2>1. PICK s \in Trials : valid_summary' = s
    BY <1>4 DEF RatePasses
  <2>2. phase \in {"batch0", "batch1"}
    BY <1>4 DEF RatePasses
  <2>3. valid_summary' \in Summary
    BY <1>0, <2>1, <2>2, TrialsType
  <2>4. qps_limit \in Nat /\ qps_limit' = qps_limit + Step
    BY <1>0, <1>4, <2>2 DEF RatePasses, TestbenchTypeOK, Searching
  <2>5. qps_limit' \in Nat /\ qps_limit' >= qps_limit
    BY <2>4, StepType
  <2>6. passed' \subseteq Nat
    BY <1>0, <1>4, <2>4 DEF RatePasses, TestbenchTypeOK
  <2> QED BY <1>4, <2>3, <2>4, <2>5, <2>6 DEF RatePasses, TypeInv, TestbenchTypeOK
<1>5. CASE RateFails
  <2>1. phase \in {"batch0", "batch1"}
    BY <1>5 DEF RateFails, EndBatch
  <2>2. qps_limit \in Nat /\ qps_max' = qps_limit /\ qps_limit' = qps_limit - Step
    BY <1>0, <1>5, <2>1 DEF RateFails, TestbenchTypeOK, Searching
  <2>3. failed' \subseteq Nat
    BY <1>0, <1>5, <2>2 DEF RateFails, TestbenchTypeOK
  <2>4. phase = "batch0" => qps_limit' >= 0
    BY <2>2 DEF TypeInv, Step
  <2>5. qps_limit' \in Int
    BY <2>2, StepType
  <2>6. /\ phase' \in {"batch1", "capacity"} /\ (phase' = "batch1" => phase = "batch0")
        /\ valid_summary' \in Summary /\ summary0' \in Summary /\ reported' \in Summary
    BY <1>0, <1>5 DEF RateFails, EndBatch, TestbenchTypeOK
  <2> QED BY <1>5, <2>2, <2>3, <2>4, <2>5, <2>6 DEF RateFails, TypeInv, TestbenchTypeOK, Phases, Searching
<1>6. CASE RangeExhausted
  <2>1. /\ phase \in {"batch0", "batch1"} /\ phase' \in {"batch1", "capacity"}
        /\ valid_summary' \in Summary /\ summary0' \in Summary /\ reported' \in Summary
    BY <1>0, <1>6 DEF RangeExhausted, EndBatch, TestbenchTypeOK
  <2> QED BY <1>6, <2>1 DEF RangeExhausted, TypeInv, TestbenchTypeOK, Phases, Searching
<1>7. CASE ScoreCapacity
  <2>1. reported.qps \in Nat
    BY <1>0 DEF TestbenchTypeOK, Summary
  <2>2. CapacityScore(reported.qps) \in 0..100
    BY <2>1, CapacityScoreType
  <2> DEFINE qps == IF Unfit(reported, max_qps_cfg) THEN 0 ELSE reported.qps
             ok == ~Unfit(reported, max_qps_cfg) /\ ~WrongAnswers(reported, max_qps_cfg)
             score == IF ok THEN CapacityScore(reported.qps) ELSE stat.capacity_score
             measured == [stat EXCEPT !.max_qps = qps]
  <2>3. qps \in Nat /\ score \in 0..100
    BY <1>0, <2>1, <2>2 DEF TestbenchTypeOK, Statistic
  <2>4. stat' = [stat EXCEPT !.max_qps = qps, !.capacity_score = score]
    BY <1>7 DEF ScoreCapacity
  <2> HIDE DEF qps, score
  <2>5. measured \in Statistic
    BY <1>0, <2>3 DEF TestbenchTypeOK, Statistic
  <2>6. \A st \in Statistic : [st EXCEPT !.capacity_score = score] \in Statistic
    BY <2>3 DEF Statistic
  <2>7. stat' \in Statistic
    BY <2>4, <2>5, <2>6
  <2> QED BY <1>7, <2>7 DEF ScoreCapacity, Continue, search, TypeInv, TestbenchTypeOK, Phases, Searching
<1>8. CASE ScoreResponseTime
  <2> DEFINE cfg == response_time_cfg
  <2>1. PICK s \in Sampled(cfg.qps_limit * cfg.test_duration_sec, cfg.qps_limit), ok \in BOOLEAN :
          stat' = [stat EXCEPT !.response_time_score = IF ok THEN ResponseTimeScore(s.p99) ELSE 0]
    BY <1>8 DEF ScoreResponseTime, WrongAnswers, Unfit
  <2>2. cfg.qps_limit \in Nat
    BY JsonAssumption DEF response_time_cfg
  <2>3. s.p99 \in Nat
    BY <2>1, <2>2, SampledType DEF Summary
  <2>4. stat' \in Statistic
    BY <1>0, <2>1, <2>3, ResponseTimeScoreType DEF TestbenchTypeOK, Statistic
  <2> QED BY <1>8, <2>4 DEF ScoreResponseTime, Continue, search, TypeInv, TestbenchTypeOK, Phases, Searching
<1>9. CASE ScoreStability
  <2> DEFINE cfg == stability_cfg
             load == (cfg.load_percent * stat.max_qps) \div 100
  <2>1. PICK s \in Sampled((cfg.load_percent * stat.max_qps * cfg.test_duration_sec) \div 100, load),
             ok \in BOOLEAN :
          stable' = s /\ stat' = [stat EXCEPT !.service_score = IF ok THEN 100 ELSE 0]
    BY <1>9 DEF ScoreStability, WrongAnswers, Unfit
  <2>2. cfg.load_percent \in Nat /\ stat.max_qps \in Nat
    BY <1>0, JsonAssumption DEF stability_cfg, TestbenchTypeOK, Statistic
  <2>3. load \in Nat
    BY <2>2, QuotientType
  <2>4. stable' \in Summary
    BY <2>1, <2>3, SampledType
  <2>5. stat' \in Statistic
    BY <1>0, <2>1 DEF TestbenchTypeOK, Statistic
  <2> QED BY <1>9, <2>4, <2>5 DEF ScoreStability, search, TypeInv, TestbenchTypeOK, Phases, Searching
<1>10. CASE DumpStats
  <2>0. /\ stat.result_score \in 0..100 \cup {NaN} /\ stat.response_time_score \in Nat
        /\ stat.capacity_score \in Nat /\ stat.service_score \in Nat
    BY <1>0 DEF TestbenchTypeOK, Statistic
  <2>1. FinalScore \in Nat \cup {NaN}
    BY <2>0 DEF FinalScore
  <2>2. stat' \in Statistic
    BY <1>0, <1>10, <2>1 DEF DumpStats, TestbenchTypeOK, Statistic
  <2> QED BY <1>10, <2>2 DEF DumpStats, search, TypeInv, TestbenchTypeOK, Phases, Searching
<1>11. CASE UNCHANGED vars
  BY <1>11 DEF vars, search, TypeInv, TestbenchTypeOK
<1> QED BY <1>1, <1>2, <1>3, <1>4, <1>5, <1>6, <1>7, <1>8, <1>9, <1>10, <1>11 DEF Next

\* TestbenchTypeOK for every configuration that steps back by no more than its
\* baseline: no rate that TestMaxQps tries is negative, and every score is in
\* its range (test_search_service.h:86-127, test_cases.h:19-29).
THEOREM Types == Spec => []TestbenchTypeOK
<1>1. TypeInv => TestbenchTypeOK
  BY DEF TypeInv
<1> QED BY TypeInit, TypeNext, <1>1, PTL DEF Spec

-----------------------------------------------------------------------------
(* The search of TestMaxQps. *)

Coarse == {"config", "setup", "result", "batch0"}

\* While the first batch runs: nothing failed, and valid_summary is that of
\* the rate one step below the next one to try.
CoarseSearch ==
  phase \in Coarse =>
    /\ qps_max = max_qps_cfg.qps_upper
    /\ failed = {}
    /\ summary0 = Empty /\ reported = Empty
    /\ passed # {} => valid_summary.rate + max_qps_cfg.qps_step0 = qps_limit

\* While the second one runs: it starts one coarse step below the rate that
\* failed, and goes on from the highest rate that passed.
FineSearch ==
  phase = "batch1" =>
    /\ reported = Empty
    /\ valid_summary # Empty =>
         /\ failed # {}
         /\ valid_summary.rate + max_qps_cfg.qps_step1 = qps_limit
         /\ valid_summary.rate <= qps_max
    /\ failed # {} =>
         /\ failed = {qps_max}
         /\ valid_summary = Empty => qps_limit = qps_max - max_qps_cfg.qps_step0
         /\ valid_summary = Empty /\ passed # {} => qps_limit = summary0.rate
    /\ failed = {} =>
         /\ qps_limit > qps_max
         /\ qps_max = max_qps_cfg.qps_upper
         /\ passed # {} => summary0.rate + max_qps_cfg.qps_step0 = qps_limit

\* What the batches have found so far.
Best == IF valid_summary # Empty THEN valid_summary ELSE summary0

BestIsHighest ==
  /\ valid_summary = Empty
     \/ ~Less(valid_summary.percent, max_qps_cfg.success_percent_th)
  /\ phase \in Searching =>
       IF passed = {} THEN Best = Empty
       ELSE Best # Empty /\ Best.rate \in passed /\ \A rate \in passed : rate <= Best.rate

SearchInv == CoarseSearch /\ FineSearch /\ BestIsHighest /\ MaxQpsIsSharp

\* How far the tests went, and what the Statistic holds then.
ScoredInOrder ==
  /\ phase \in Searching \cup {"capacity"} => stat.capacity_score = 0
  /\ phase \in Searching \cup {"capacity", "response"} => stat.response_time_score = 0
  /\ phase \notin {"final", "dumped"} => stat.service_score = 0
  /\ phase \in {"batch0", "batch1", "capacity", "response", "stability"} =>
       ~Less(stat.result_score, result_cfg.final_score_th)
  /\ phase \in {"response", "stability"} =>
       ~Unfit(reported, max_qps_cfg) /\ ~WrongAnswers(reported, max_qps_cfg)

LEMMA SearchInit == Init => SearchInv
BY MaxQpsConfigType
   DEF Init, SearchInv, CoarseSearch, FineSearch, BestIsHighest, Best, MaxQpsIsSharp, Coarse, Searching

\* A summary that passed shows a share that is not below the threshold: it is
\* not the one of no benchmark.
LEMMA PassingIsNotEmpty ==
  /\ Less(Empty.percent, max_qps_cfg.success_percent_th)
  /\ \A s : ~BatchFails(s) => s # Empty /\ ~Less(s.percent, max_qps_cfg.success_percent_th)
BY MaxQpsConfigType DEF Empty, Less, NaN, BatchFails

LEMMA SearchRatePasses ==
  ASSUME TypeInv, SearchInv, RatePasses
  PROVE  SearchInv'
<1> USE MaxQpsConfigType
<1>1. PICK s \in Trials : ~BatchFails(s) /\ valid_summary' = s
  BY DEF RatePasses
<1>2. phase \in {"batch0", "batch1"} /\ qps_limit \in Nat /\ qps_max \in Nat /\ qps_limit <= qps_max
  BY DEF RatePasses, TypeInv, TestbenchTypeOK, Searching
<1>3. valid_summary'.rate = qps_limit
  BY <1>1, <1>2, TrialsType DEF TypeInv
<1>4. /\ valid_summary' # Empty
      /\ ~Less(valid_summary'.percent, max_qps_cfg.success_percent_th)
  BY <1>1, PassingIsNotEmpty
<1>5. /\ phase' = phase /\ qps_limit' = qps_limit + Step /\ passed' = passed \cup {qps_limit}
      /\ UNCHANGED <<qps_max, summary0, reported, failed>>
  BY DEF RatePasses
<1>6. \A rate \in passed : rate <= qps_limit
  <2> SUFFICES ASSUME NEW rate \in passed PROVE rate <= qps_limit
    OBVIOUS
  <2>1. Best # Empty /\ rate <= Best.rate
    BY <1>2 DEF SearchInv, BestIsHighest, Searching
  <2>2. rate \in Nat /\ valid_summary.rate \in Nat /\ summary0.rate \in Nat
    BY DEF TypeInv, TestbenchTypeOK, Summary
  <2>3. CASE phase = "batch0"
    BY <2>1, <2>2, <2>3, <1>2 DEF SearchInv, CoarseSearch, Coarse, Best
  <2>4. CASE phase = "batch1" /\ valid_summary # Empty
    BY <2>1, <2>2, <2>4, <1>2 DEF SearchInv, FineSearch, Best
  <2>5. CASE phase = "batch1" /\ valid_summary = Empty
    BY <2>1, <2>2, <2>5, <1>2 DEF SearchInv, FineSearch, Best
  <2> QED BY <1>2, <2>3, <2>4, <2>5
<1>7. CoarseSearch'
  BY <1>2, <1>3, <1>5 DEF SearchInv, CoarseSearch, Coarse, Step
<1>8. FineSearch'
  <2> SUFFICES ASSUME phase = "batch1" PROVE FineSearch'
    BY <1>5 DEF FineSearch
  <2>1. failed # {}
    BY <1>2 DEF SearchInv, FineSearch
  <2> QED BY <1>2, <1>3, <1>4, <1>5, <2>1 DEF SearchInv, FineSearch, Step
<1>9. BestIsHighest'
  BY <1>2, <1>3, <1>4, <1>5, <1>6 DEF BestIsHighest, Best
<1>10. MaxQpsIsSharp'
  BY <1>2, <1>5 DEF MaxQpsIsSharp
<1> QED BY <1>7, <1>8, <1>9, <1>10 DEF SearchInv

LEMMA SearchBatch0Fails ==
  ASSUME TypeInv, SearchInv, RateFails, phase = "batch0"
  PROVE  SearchInv'
<1> USE MaxQpsConfigType
<1>1. /\ phase' = "batch1" /\ summary0' = valid_summary /\ valid_summary' = Empty
      /\ reported' = reported /\ qps_max' = qps_limit
      /\ qps_limit' = qps_limit - max_qps_cfg.qps_step0
      /\ failed' = failed \cup {qps_limit} /\ passed' = passed
  BY DEF RateFails, EndBatch, Step
<1>2. qps_limit \in Nat /\ valid_summary.rate \in Nat
  BY DEF TypeInv, TestbenchTypeOK, Searching, Summary
<1>3. Best = valid_summary
  BY DEF SearchInv, CoarseSearch, Coarse, Best
<1>4. FineSearch'
  BY <1>1, <1>2 DEF SearchInv, CoarseSearch, Coarse, FineSearch
<1>5. BestIsHighest'
  BY <1>1, <1>3 DEF SearchInv, BestIsHighest, Best, Searching
<1> QED BY <1>1, <1>4, <1>5 DEF SearchInv, CoarseSearch, Coarse, MaxQpsIsSharp

LEMMA SearchBatch0Ends ==
  ASSUME TypeInv, SearchInv, RangeExhausted, phase = "batch0"
  PROVE  SearchInv'
<1> USE MaxQpsConfigType
<1>1. /\ phase' = "batch1" /\ summary0' = valid_summary /\ valid_summary' = Empty
      /\ UNCHANGED <<reported, qps_max, qps_limit, failed, passed>> /\ qps_limit > qps_max
  BY DEF RangeExhausted, EndBatch
<1>2. Best = valid_summary
  BY DEF SearchInv, CoarseSearch, Coarse, Best
<1>3. FineSearch'
  BY <1>1 DEF SearchInv, CoarseSearch, Coarse, FineSearch
<1>4. BestIsHighest'
  BY <1>1, <1>2 DEF SearchInv, BestIsHighest, Best, Searching
<1> QED BY <1>1, <1>3, <1>4 DEF SearchInv, CoarseSearch, Coarse, MaxQpsIsSharp

\* TestMaxQps returns the best summary.
LEMMA ReportedIsBest ==
  ASSUME SearchInv, phase = "batch1", EndBatch
  PROVE  reported' = Best /\ phase' = "capacity" /\ valid_summary' = valid_summary
BY PassingIsNotEmpty DEF EndBatch, SearchInv, BestIsHighest, Best

LEMMA SearchBatch1Fails ==
  ASSUME TypeInv, SearchInv, RateFails, phase = "batch1"
  PROVE  SearchInv'
<1> USE MaxQpsConfigType
<1>1. /\ failed' = failed \cup {qps_limit} /\ passed' = passed /\ EndBatch
      /\ qps_limit <= qps_max
  BY DEF RateFails
<1>2. reported' = Best /\ phase' = "capacity" /\ valid_summary' = valid_summary
  BY <1>1, ReportedIsBest
<1>3. qps_limit \in Nat /\ qps_max \in Nat /\ valid_summary.rate \in Nat /\ summary0.rate \in Nat
  BY DEF TypeInv, TestbenchTypeOK, Searching, Summary
<1>4. failed # {}
  BY <1>1, <1>3 DEF SearchInv, FineSearch
<1>5. passed # {} => Best.rate <= qps_limit /\ qps_limit <= Best.rate + max_qps_cfg.qps_step1
  <2>1. CASE valid_summary # Empty
    BY <1>3, <2>1 DEF SearchInv, FineSearch, Best
  <2>2. CASE valid_summary = Empty
    BY <1>3, <1>4, <2>2 DEF SearchInv, FineSearch, Best
  <2> QED BY <2>1, <2>2
<1>6. IF passed = {} THEN Best = Empty
      ELSE Best.rate \in passed /\ \A rate \in passed : rate <= Best.rate
  BY DEF SearchInv, BestIsHighest, Searching
<1>7. MaxQpsIsSharp'
  BY <1>1, <1>2, <1>5, <1>6 DEF MaxQpsIsSharp
<1> QED BY <1>2, <1>7 DEF SearchInv, CoarseSearch, Coarse, FineSearch, BestIsHighest, Searching

LEMMA SearchBatch1Ends ==
  ASSUME TypeInv, SearchInv, RangeExhausted, phase = "batch1"
  PROVE  SearchInv'
<1> USE MaxQpsConfigType
<1>1. UNCHANGED <<failed, passed>> /\ EndBatch /\ qps_limit > qps_max
  BY DEF RangeExhausted
<1>2. reported' = Best /\ phase' = "capacity" /\ valid_summary' = valid_summary
  BY <1>1, ReportedIsBest
<1>3. qps_limit \in Nat /\ qps_max \in Nat /\ valid_summary.rate \in Nat /\ summary0.rate \in Nat
  BY DEF TypeInv, TestbenchTypeOK, Searching, Summary
<1>4. passed # {} =>
        \/ \E rate \in failed :
             Best.rate <= rate /\ rate <= Best.rate + max_qps_cfg.qps_step1
        \/ Best.rate + max_qps_cfg.qps_step0 > max_qps_cfg.qps_upper
  <2>1. CASE valid_summary # Empty
    BY <1>1, <1>3, <2>1 DEF SearchInv, FineSearch, Best
  <2>2. CASE valid_summary = Empty
    BY <1>1, <1>3, <2>2 DEF SearchInv, FineSearch, Best
  <2> QED BY <2>1, <2>2
<1>5. IF passed = {} THEN Best = Empty
      ELSE Best.rate \in passed /\ \A rate \in passed : rate <= Best.rate
  BY DEF SearchInv, BestIsHighest, Searching
<1>6. MaxQpsIsSharp'
  BY <1>1, <1>2, <1>4, <1>5 DEF MaxQpsIsSharp
<1> QED BY <1>2, <1>6 DEF SearchInv, CoarseSearch, Coarse, FineSearch, BestIsHighest, Searching

LEMMA SearchNext == TypeInv /\ SearchInv /\ [Next]_vars => SearchInv'
<1> SUFFICES ASSUME TypeInv, SearchInv, [Next]_vars PROVE SearchInv'
  OBVIOUS
<1>1. CASE RatePasses
  BY <1>1, SearchRatePasses
<1>2. CASE RateFails
  BY <1>2, SearchBatch0Fails, SearchBatch1Fails DEF RateFails, EndBatch
<1>3. CASE RangeExhausted
  BY <1>3, SearchBatch0Ends, SearchBatch1Ends DEF RangeExhausted, EndBatch
<1>4. CASE UNCHANGED search /\ \/ phase' = phase
                               \/ phase \in Coarse /\ phase' \in Coarse
                               \/ phase' \in {"exited", "final", "dumped"}
                               \/ /\ phase \in {"capacity", "response"}
                                  /\ phase' \in {"response", "stability"}
  BY <1>4 DEF search, SearchInv, CoarseSearch, Coarse, FineSearch, BestIsHighest, Best,
              Searching, MaxQpsIsSharp
<1>5. CASE ReadConfig \/ SetupSearchService \/ ScoreResult
  BY <1>4, <1>5 DEF ReadConfig, SetupSearchService, ScoreResult, Continue, Coarse
<1>6. CASE ScoreCapacity \/ ScoreResponseTime \/ ScoreStability \/ DumpStats
  BY <1>4, <1>6 DEF ScoreCapacity, ScoreResponseTime, ScoreStability, DumpStats, Continue
<1>7. CASE UNCHANGED vars
  BY <1>4, <1>7 DEF vars
<1> QED BY <1>1, <1>2, <1>3, <1>5, <1>6, <1>7 DEF Next

\* MaxQpsIsSharp for every range of rates and both steps: TestMaxQps returns
\* the summary of the highest rate that passed, one fine step below a rate
\* that failed (test_search_service.h:86-127).
THEOREM SharpestRate == Spec => []MaxQpsIsSharp
<1>1. TypeInv /\ SearchInv /\ [Next]_vars => (TypeInv /\ SearchInv)'
  BY TypeNext, SearchNext
<1>2. SearchInv => MaxQpsIsSharp
  BY DEF SearchInv
<1> QED BY TypeInit, SearchInit, <1>1, <1>2, PTL DEF Spec

-----------------------------------------------------------------------------
(* The scores. *)

LEMMA ScoresInit == Init => ScoredInOrder /\ LaterScoresNeedEarlier
BY DEF Init, ScoredInOrder, LaterScoresNeedEarlier, Searching

LEMMA ScoresNext ==
  TypeInv /\ ScoredInOrder /\ LaterScoresNeedEarlier /\ [Next]_vars
    => (ScoredInOrder /\ LaterScoresNeedEarlier)'
<1> SUFFICES ASSUME TypeInv, ScoredInOrder, LaterScoresNeedEarlier, [Next]_vars
             PROVE  (ScoredInOrder /\ LaterScoresNeedEarlier)'
  OBVIOUS
<1>0. stat \in Statistic
  BY DEF TypeInv, TestbenchTypeOK
<1>1. CASE ReadConfig \/ SetupSearchService
  BY <1>1 DEF ReadConfig, SetupSearchService, Continue, search, ScoredInOrder,
              LaterScoresNeedEarlier, Searching
<1>2. CASE ScoreResult
  <2>1. PICK s \in Compared(result_cfg.sample_num, result_cfg.qps_limit) :
          /\ stat' = [stat EXCEPT !.result_score = s.score]
          /\ phase' = "batch0" => ~Less(s.score, result_cfg.final_score_th)
          /\ phase' \in {"batch0", "final"}
    BY <1>2 DEF ScoreResult, Continue
  <2>2. /\ stat'.result_score = s.score /\ stat'.response_time_score = 0
        /\ stat'.service_score = 0 /\ stat'.capacity_score = 0
    BY <1>0, <1>2, <2>1 DEF ScoreResult, ScoredInOrder, Searching, Statistic
  <2> QED BY <2>1, <2>2 DEF ScoredInOrder, LaterScoresNeedEarlier
<1>3. CASE RatePasses \/ RateFails \/ RangeExhausted
  <2>1. /\ stat' = stat /\ phase \in {"batch0", "batch1"}
        /\ phase' \in {"batch0", "batch1", "capacity"}
    BY <1>3 DEF RatePasses, RateFails, RangeExhausted, EndBatch
  <2> QED BY <2>1 DEF ScoredInOrder, LaterScoresNeedEarlier, Searching
<1>4. CASE ScoreCapacity
  <2>1. /\ phase' \in {"response", "final"} /\ UNCHANGED search
        /\ phase' = "response" =>
             ~Unfit(reported, max_qps_cfg) /\ ~WrongAnswers(reported, max_qps_cfg)
    BY <1>4 DEF ScoreCapacity, Continue
  <2>2. /\ stat'.result_score = stat.result_score /\ stat'.response_time_score = 0
        /\ stat'.service_score = 0
    BY <1>0, <1>4 DEF ScoreCapacity, ScoredInOrder, Statistic
  <2>3. Unfit(reported, max_qps_cfg) \/ WrongAnswers(reported, max_qps_cfg) => stat'.capacity_score = 0
    <3>1. stat.capacity_score = 0
      BY <1>4 DEF ScoreCapacity, ScoredInOrder
    <3> QED BY <1>0, <1>4, <3>1 DEF ScoreCapacity, Statistic
  <2>4. ~Less(stat.result_score, result_cfg.final_score_th)
    BY <1>4 DEF ScoreCapacity, ScoredInOrder
  <2>5. reported' = reported
    BY <2>1 DEF search
  <2>6. LaterScoresNeedEarlier'
    BY <2>2, <2>3, <2>4, <2>5 DEF LaterScoresNeedEarlier, Unfit, WrongAnswers
  <2>7. ScoredInOrder'
    BY <2>1, <2>2, <2>4, <2>5 DEF ScoredInOrder, Unfit, WrongAnswers, Searching
  <2> QED BY <2>6, <2>7
<1>5. CASE ScoreResponseTime
  <2>1. phase = "response" /\ phase' \in {"stability", "final"} /\ UNCHANGED search
    BY <1>5 DEF ScoreResponseTime, Continue
  <2>2. /\ stat'.result_score = stat.result_score /\ stat'.service_score = stat.service_score
        /\ stat'.capacity_score = stat.capacity_score
    BY <1>0, <1>5 DEF ScoreResponseTime, Statistic
  <2> QED BY <2>1, <2>2
        DEF search, ScoredInOrder, LaterScoresNeedEarlier, Unfit, WrongAnswers, Searching
<1>6. CASE ScoreStability
  <2>1. phase = "stability" /\ phase' = "final" /\ UNCHANGED search
    BY <1>6 DEF ScoreStability
  <2>2. stat'.result_score = stat.result_score /\ stat'.capacity_score = stat.capacity_score
    BY <1>0, <1>6 DEF ScoreStability, Statistic
  <2> QED BY <2>1, <2>2
        DEF search, ScoredInOrder, LaterScoresNeedEarlier, Unfit, WrongAnswers, Searching
<1>7. CASE DumpStats
  <2>1. phase = "final" /\ phase' = "dumped" /\ UNCHANGED search
    BY <1>7 DEF DumpStats
  <2>2. /\ stat'.result_score = stat.result_score /\ stat'.service_score = stat.service_score
        /\ stat'.response_time_score = stat.response_time_score
        /\ stat'.capacity_score = stat.capacity_score
    BY <1>0, <1>7 DEF DumpStats, Statistic
  <2> QED BY <2>1, <2>2
        DEF search, ScoredInOrder, LaterScoresNeedEarlier, Unfit, WrongAnswers, Searching
<1>8. CASE UNCHANGED vars
  BY <1>8 DEF vars, search, ScoredInOrder, LaterScoresNeedEarlier, Unfit, WrongAnswers
<1> QED BY <1>1, <1>2, <1>3, <1>4, <1>5, <1>6, <1>7, <1>8 DEF Next

\* LaterScoresNeedEarlier for every configuration and every service: points
\* for capacity, speed or stability take a service that passed the tests before
\* (testbench.cc:106-115).
THEOREM EarnedInOrder == Spec => []LaterScoresNeedEarlier
<1>1. TypeInv /\ (ScoredInOrder /\ LaterScoresNeedEarlier) /\ [Next]_vars
        => (TypeInv /\ (ScoredInOrder /\ LaterScoresNeedEarlier))'
  BY TypeNext, ScoresNext
<1> QED BY TypeInit, ScoresInit, <1>1, PTL DEF Spec

-----------------------------------------------------------------------------
(* The points for stability. *)

\* Only of a benchmark without requests there is no share.
LEMMA NoShareOfNothing ==
  ASSUME NEW n, NEW rate, NEW s \in Sampled(n, rate)
  PROVE  s.percent \in Int /\ (s.percent = NaN => n = 0)
<1>1. CASE s \in Served(rate, SampleScores)
  <2>1. s.percent \in Percents
    BY <1>1 DEF Served
  <2>2. s.percent \in 0..1000
    BY <2>1, ServiceAssumption
  <2> QED BY <2>2 DEF NaN
<1>2. CASE s = Unserved(rate, 0)
  BY <1>2 DEF Unserved, NaN
<1>3. CASE s = Unserved(rate, NaN) /\ n = 0
  BY <1>3 DEF Unserved, NaN
<1> QED BY <1>1, <1>2, <1>3 DEF Sampled, Summaries

LEMMA QuotientZero ==
  ASSUME NEW a \in Nat, a \div 100 = 0
  PROVE  a < 100
OBVIOUS

LEMMA StabilityEarned ==
  ASSUME TypeInv, ScoreStability
  PROVE  ServiceScoreEarned'
<1> DEFINE cfg == stability_cfg
           asked == cfg.load_percent * stat.max_qps * cfg.test_duration_sec
<1>0. stat \in Statistic /\ stat.max_qps \in Nat
  BY DEF TypeInv, TestbenchTypeOK, Statistic
<1>1. PICK s \in Sampled(asked \div 100, (cfg.load_percent * stat.max_qps) \div 100) :
        /\ stable' = s
        /\ stat' = [stat EXCEPT
             !.service_score = IF ~WrongAnswers(s, cfg) /\ ~Unfit(s, cfg) THEN 100 ELSE 0]
  BY DEF ScoreStability
<1>2. stat'.max_qps = stat.max_qps
      /\ (stat'.service_score = 100 => ~Less(s.percent, cfg.success_percent_th))
  BY <1>0, <1>1 DEF Statistic, Unfit
<1>3. s.percent \in Int /\ (s.percent = NaN => asked \div 100 = 0)
  BY NoShareOfNothing
<1>4. cfg.success_percent_th \in Nat /\ cfg.load_percent \in Nat /\ cfg.test_duration_sec \in Nat
  BY JsonAssumption DEF stability_cfg
<1>5. CASE s.percent = NaN
  <2>1. cfg.load_percent * stat.max_qps \in Nat
    BY <1>0, <1>4, QuotientType
  <2>2. asked \in Nat
    BY <1>4, <2>1, QuotientType
  <2>3. asked < 100
    BY <1>3, <1>5, <2>2, QuotientZero
  <2>4. cfg.load_percent * stat.max_qps = stat.max_qps * cfg.load_percent
    BY <1>0, <1>4
  <2> QED BY <1>1, <1>2, <1>5, <2>3, <2>4 DEF ServiceScoreEarned
<1>6. CASE s.percent # NaN
  <2>1. stat'.service_score = 100 => s.percent >= cfg.success_percent_th
    BY <1>2, <1>3, <1>4, <1>6 DEF Less, NaN
  <2> QED BY <1>1, <2>1 DEF ServiceScoreEarned, stability_cfg
<1> QED BY <1>5, <1>6

LEMMA EarnedInit == Init => ServiceScoreEarned
BY DEF Init, ServiceScoreEarned

LEMMA EarnedNext ==
  TypeInv /\ ScoredInOrder /\ ServiceScoreEarned /\ [Next]_vars => ServiceScoreEarned'
<1> SUFFICES ASSUME TypeInv, ScoredInOrder, ServiceScoreEarned, [Next]_vars
             PROVE  ServiceScoreEarned'
  OBVIOUS
<1>0. stat \in Statistic
  BY DEF TypeInv, TestbenchTypeOK
<1>1. CASE ReadConfig \/ SetupSearchService \/ RatePasses \/ RateFails \/ RangeExhausted
  <2>1. UNCHANGED <<stat, stable>>
    BY <1>1 DEF ReadConfig, SetupSearchService, RatePasses, RateFails, RangeExhausted
  <2> QED BY <2>1 DEF ServiceScoreEarned
<1>2. CASE ScoreResult \/ ScoreCapacity \/ ScoreResponseTime
  <2>1. phase \notin {"final", "dumped"}
    BY <1>2 DEF ScoreResult, ScoreCapacity, ScoreResponseTime
  <2>2. stat'.service_score = stat.service_score
    <3>1. CASE ScoreResult
      BY <1>0, <3>1 DEF ScoreResult, Statistic
    <3>2. CASE ScoreCapacity
      BY <1>0, <3>2 DEF ScoreCapacity, Statistic
    <3>3. CASE ScoreResponseTime
      BY <1>0, <3>3 DEF ScoreResponseTime, Statistic
    <3> QED BY <1>2, <3>1, <3>2, <3>3
  <2>3. stat.service_score = 0
    BY <2>1 DEF ScoredInOrder
  <2> QED BY <2>2, <2>3 DEF ServiceScoreEarned
<1>3. CASE ScoreStability
  BY <1>3, StabilityEarned
<1>4. CASE DumpStats
  <2>1. /\ phase' = "dumped" /\ stable' = stable /\ stat'.service_score = stat.service_score
        /\ stat'.max_qps = stat.max_qps
    BY <1>0, <1>4 DEF DumpStats, Statistic
  <2> QED BY <2>1 DEF ServiceScoreEarned
<1>5. CASE UNCHANGED vars
  BY <1>5 DEF vars, ServiceScoreEarned
<1> QED BY <1>1, <1>2, <1>3, <1>4, <1>5 DEF Next

\* ServiceScoreEarned for every configuration and every service: the points
\* for stability take the configured share of answers under load, or a load
\* of no request (test_cases.h:25).
THEOREM StabilityPoints == Spec => []ServiceScoreEarned
<1>1. TypeInv /\ (ScoredInOrder /\ LaterScoresNeedEarlier) /\ ServiceScoreEarned /\ [Next]_vars
        => (TypeInv /\ (ScoredInOrder /\ LaterScoresNeedEarlier) /\ ServiceScoreEarned)'
  BY TypeNext, ScoresNext, EarnedNext
<1> QED BY TypeInit, ScoresInit, EarnedInit, <1>1, PTL DEF Spec
=============================================================================
