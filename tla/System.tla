------------------------------- MODULE System -------------------------------
(***************************************************************************)
(* The system from its start to its searches: the processes of Startup     *)
(* come up, and once the testbench found the service (TestAll of           *)
(* testbench.cc) its searches run through the threads of LoadBalancer.     *)
(*                                                                         *)
(* The two share no variable but through the testbench: it searches only   *)
(* if it found what the balancer published.                                *)
(***************************************************************************)
EXTENDS Startup, LoadBalancer

ASSUME StubsAssumption == NumStubs = NumServers

systemVars == <<vars, balancerVars>>

SystemInit == Init /\ BalancerInit

\* A bound: searches begin when everyone serves.  The code has no such wait,
\* but the choice of a stub reads nothing that a starting server writes.
Settled == \A c \in Clients : Serves(c)

StartupStep == Next /\ UNCHANGED balancerVars

SearchStep ==
  /\ driver = "testing"
  /\ Settled
  /\ BalancerNext
  /\ UNCHANGED vars

SystemNext == StartupStep \/ SearchStep

\* Processes start fairly (Startup); nothing is asked of the searches.
SystemSpec == SystemInit /\ [][SystemNext]_systemVars /\ Fairness
=============================================================================
