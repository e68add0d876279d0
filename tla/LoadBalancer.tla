---------------------------- MODULE LoadBalancer ----------------------------
(***************************************************************************)
(* How the balancer chooses a server for a search (LoadBalancerImpl of     *)
(* balancer.cc).  gRPC runs Search in several threads at once; they share  *)
(* one counter.  i = (i + 1) % 3 is a load and a store, and stubs[i] loads *)
(* once more.                                                              *)
(*                                                                         *)
(* What the server that is called does, and when the call fails, is in     *)
(* SearchService; which servers listen is in Startup.  The balancer        *)
(* returns the call's status and response, whatever they are.              *)
(***************************************************************************)
EXTENDS Integers

CONSTANTS
  NumStubs,    \* 3 in the code
  Handlers     \* threads that run Search

ASSUME NumStubsAssumption == NumStubs \in Nat \ {0}

VARIABLES
  i,          \* the counter
  handler,    \* progress of each thread
  loaded,     \* what a thread read for i + 1
  stub,       \* the stub a thread calls
  alone,      \* threads that no other overlapped since they read
  last        \* the stub chosen last

balancerVars == <<i, handler, loaded, stub, alone, last>>

Stubs == 0..(NumStubs - 1)

\* A search is choosing from its first load to its last.
Choosing(h) == handler[h] \in {"storing", "reloading"}

BalancerTypeOK ==
  /\ i \in Stubs
  /\ handler \in [Handlers -> {"idle", "storing", "reloading", "calling"}]
  /\ loaded \in [Handlers -> Stubs]
  /\ stub \in [Handlers -> Stubs]
  /\ alone \subseteq Handlers
  /\ last \in Stubs

BalancerInit ==
  /\ i = 0
  /\ handler = [h \in Handlers |-> "idle"]
  /\ loaded = [h \in Handlers |-> 0]
  /\ stub = [h \in Handlers |-> 0]
  /\ alone = {}
  /\ last = 0

-----------------------------------------------------------------------------
(* LoadBalancerImpl::Search. *)

\* A search arrives, and i + 1 is computed from the counter.
Load(h) ==
  /\ handler[h] = "idle"
  /\ handler' = [handler EXCEPT ![h] = "storing"]
  /\ loaded' = [loaded EXCEPT ![h] = i]
  /\ alone' = IF \E g \in Handlers \ {h} : Choosing(g) THEN {} ELSE {h}
  /\ UNCHANGED <<i, stub, last>>

\* A bug Store could have: the remainder is taken in a step of its own.
StoreUnwrapped(h) ==
  /\ handler[h] = "storing"
  /\ handler' = [handler EXCEPT ![h] = "reloading"]
  /\ i' = loaded[h] + 1
  /\ UNCHANGED <<loaded, stub, alone, last>>

Store(h) ==
  /\ handler[h] = "storing"
  /\ handler' = [handler EXCEPT ![h] = "reloading"]
  /\ i' = (loaded[h] + 1) % NumStubs
  /\ UNCHANGED <<loaded, stub, alone, last>>

\* A bug Reload could have: the thread uses the value it stored.
ReloadOwn(h) ==
  /\ handler[h] = "reloading"
  /\ handler' = [handler EXCEPT ![h] = "calling"]
  /\ loaded' = [loaded EXCEPT ![h] = 0]
  /\ stub' = [stub EXCEPT ![h] = (loaded[h] + 1) % NumStubs]
  /\ last' = (loaded[h] + 1) % NumStubs
  /\ alone' = alone \ {h}
  /\ UNCHANGED i

\* stubs[i]; the thread is done with what it read.
Reload(h) ==
  /\ handler[h] = "reloading"
  /\ handler' = [handler EXCEPT ![h] = "calling"]
  /\ stub' = [stub EXCEPT ![h] = i]
  /\ last' = i
  /\ loaded' = [loaded EXCEPT ![h] = 0]
  /\ alone' = alone \ {h}
  /\ UNCHANGED i

\* The call ends; its status is returned, and a failure is printed.
Forward(h) ==
  /\ handler[h] = "calling"
  /\ handler' = [handler EXCEPT ![h] = "idle"]
  /\ stub' = [stub EXCEPT ![h] = 0]
  /\ UNCHANGED <<i, loaded, alone, last>>

-----------------------------------------------------------------------------

Search(h) == Load(h) \/ Store(h) \/ Reload(h) \/ Forward(h)

BalancerNext == \E h \in Handlers : Search(h)

BalancerSpec == BalancerInit /\ [][BalancerNext]_balancerVars

-----------------------------------------------------------------------------
(* Correctness. *)

\* A search that overlaps no other goes to the server after the one chosen
\* last (balancer.cc:38-43), however the searches before it overlapped.
TurnsWhenAlone ==
  [][\A h \in Handlers :
       handler[h] = "reloading" /\ handler'[h] = "calling" /\ h \in alone =>
         stub'[h] = (last + 1) % NumStubs]_balancerVars
=============================================================================
