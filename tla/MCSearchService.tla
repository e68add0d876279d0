-------------------------- MODULE MCSearchService ---------------------------
(* Instances of SearchService for TLC. *)
EXTENDS SearchService
=============================================================================
