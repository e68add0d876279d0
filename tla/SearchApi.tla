----------------------------- MODULE SearchApi ------------------------------
(***************************************************************************)
(* What the balancer's callers may rely on, whatever the queues, threads   *)
(* and sub-requests of the three servers do: a search ends once, with an   *)
(* answer or with an error; an answer covers the keywords of every node    *)
(* that is up; an error means that a process of the system is down.        *)
(***************************************************************************)

CONSTANTS
  Processes,  \* the processes of the system: the nodes and the balancer
  Nodes,      \* the servers, each with its share of the keywords
  Requests    \* the searches callers make

VARIABLES
  up,       \* the processes that run
  outcome,  \* what the caller of a search has seen
  parts     \* the nodes whose advertisements an answer was merged from

apiVars == <<up, outcome, parts>>

Init ==
  /\ up = Processes
  /\ outcome = [r \in Requests |-> "waiting"]
  /\ parts = [r \in Requests |-> {}]

Answer(r, ps) ==
  /\ outcome[r] = "waiting"
  /\ Nodes \cap up \subseteq ps
  /\ outcome' = [outcome EXCEPT ![r] = "answered"]
  /\ parts' = [parts EXCEPT ![r] = ps]
  /\ UNCHANGED up

Fail(r) ==
  /\ outcome[r] = "waiting"
  /\ up # Processes
  /\ outcome' = [outcome EXCEPT ![r] = "failed"]
  /\ UNCHANGED <<up, parts>>

GoDown(p) ==
  /\ p \in up
  /\ up' = up \ {p}
  /\ UNCHANGED <<outcome, parts>>

Next ==
  \/ \E r \in Requests, ps \in SUBSET Nodes : Answer(r, ps)
  \/ \E r \in Requests : Fail(r)
  \/ \E p \in up : GoDown(p)

Spec == Init /\ [][Next]_apiVars
=============================================================================
