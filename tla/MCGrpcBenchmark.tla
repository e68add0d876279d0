-------------------------- MODULE MCGrpcBenchmark ---------------------------
(* Instances of GrpcBenchmark for TLC. *)
EXTENDS GrpcBenchmark
=============================================================================
