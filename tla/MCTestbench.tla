---------------------------- MODULE MCTestbench -----------------------------
(* Instances of Testbench for TLC. *)
EXTENDS Testbench

\* config.json with the rates scaled down: as there, the first step equals
\* the baseline and the second step is a part of the first.
MCJson ==
  [accuracy_th |-> 100, M |-> 6,
   test_result |-> [sample_num |-> 2, qps_limit |-> 0, final_score_th |-> 80],
   test_max_qps |->
     [qps_baseline |-> 3, qps_upper |-> 10, qps_step0 |-> 3, qps_step1 |-> 1,
      request_duration_each_iter_sec |-> 3, success_percent_th |-> 999, sample_score_th |-> 80],
   test_response_time |->
     [qps_limit |-> 3, timeout_ms |-> 100, test_duration_sec |-> 10,
      success_percent_th |-> 999, sample_score_th |-> 80],
   test_stability |->
     [load_percent |-> 60, timeout_ms |-> 100, test_duration_sec |-> 300,
      success_percent_th |-> 999, sample_score_th |-> 80]]

MCReference == [ids |-> <<1, 2>>, prices |-> <<8, 9>>]

\* The answer; its prices wrong; its order wrong; another; one too few.
MCAnswers ==
  {[ids |-> <<1, 2>>, prices |-> <<8, 9>>], [ids |-> <<1, 2>>, prices |-> <<8, 8>>],
   [ids |-> <<2, 1>>, prices |-> <<9, 8>>], [ids |-> <<1, 3>>, prices |-> <<8, 9>>],
   [ids |-> <<1>>, prices |-> <<8>>]}
=============================================================================
