------------------------------ MODULE Startup -------------------------------
(***************************************************************************)
(* How the system comes up (code/run.sh, main of server.cc, main and       *)
(* RunLoadBalancer of balancer.cc, SetupSearchService of testbench.cc):    *)
(* every process starts on its own, and they meet through keys of etcd.    *)
(* A server loads its data, registers, and waits for the addresses of all; *)
(* the balancer waits for the same addresses and publishes the service;    *)
(* the testbench polls for it until a timeout.                             *)
(*                                                                         *)
(* etcd is external.  It may come up after its clients (run.sh only sleeps *)
(* for 5 s): a call made before that fails.                                *)
(***************************************************************************)
EXTENDS Naturals, Sequences

CONSTANTS
  NumServers,  \* 3 in the code
  Balancer     \* the balancer's process

ASSUME NumServersAssumption == NumServers \in Nat \ {0}
ASSUME BalancerAssumption == Balancer \notin 0..NumServers

Servers == 1..NumServers
Clients == Servers \cup {Balancer}

VARIABLES
  etcdUp,      \* etcd answers
  registered,  \* the keys /node1, /node2, /node3 that are set
  published,   \* the key /services/searchservice is set
  sending,     \* servers whose asynchronous set has not reached etcd
  server,      \* progress of each server's main
  balancer,    \* progress of the balancer's main
  known,       \* the addresses a process got, in the order it asked
  driver,      \* progress of the testbench
  lost         \* processes whose set of their key reached no etcd

vars == <<etcdUp, registered, published, sending, server, balancer, known, driver, lost>>

\* What EtcdGetKVWait returns when etcd reports another error than a
\* missing key.
NoAddress == 0

TypeOK ==
  /\ etcdUp \in BOOLEAN
  /\ registered \subseteq Servers
  /\ published \in BOOLEAN
  /\ sending \subseteq Servers
  /\ server \in [Servers -> {"loading", "waiting", "listening"}]
  /\ balancer \in {"waiting", "listening", "registered"}
  /\ known \in [Clients -> Seq(Servers \cup {NoAddress})]
  /\ \A c \in Clients : Len(known[c]) <= NumServers
  /\ driver \in {"polling", "testing", "gave up"}
  /\ lost \subseteq Clients

Init ==
  /\ etcdUp \in BOOLEAN
  /\ registered = {}
  /\ published = FALSE
  /\ sending = {}
  /\ server = [n \in Servers |-> "loading"]
  /\ balancer = "waiting"
  /\ known = [c \in Clients |-> <<>>]
  /\ driver = "polling"
  /\ lost = {}

EtcdStarts ==
  /\ ~etcdUp
  /\ etcdUp' = TRUE
  /\ UNCHANGED <<registered, published, sending, server, balancer, known, driver, lost>>

-----------------------------------------------------------------------------
(* EtcdGetKVWait, called for /node1, /node2 and /node3 in turn. *)

Waiting(c) ==
  /\ Len(known[c]) < NumServers
  /\ IF c = Balancer THEN balancer = "waiting" ELSE server[c] = "waiting"

\* The key is there.  Until it is, the call sleeps and asks again.
GetAddress(c) ==
  /\ Waiting(c)
  /\ etcdUp
  /\ Len(known[c]) + 1 \in registered
  /\ known' = [known EXCEPT ![c] = Append(@, Len(@) + 1)]
  /\ UNCHANGED <<etcdUp, registered, published, sending, server, balancer, driver, lost>>

\* Any other error is printed and ends the wait.
GetFails(c) ==
  /\ Waiting(c)
  /\ ~etcdUp
  /\ known' = [known EXCEPT ![c] = Append(@, NoAddress)]
  /\ UNCHANGED <<etcdUp, registered, published, sending, server, balancer, driver, lost>>

-----------------------------------------------------------------------------
(* main of server.cc. *)

\* A bug LoadAndRegister could have: the set is sent before the data is there.
RegisterThenLoad(n) ==
  /\ server[n] = "loading"
  /\ \/ /\ n \notin sending \cup registered
        /\ sending' = sending \cup {n}
        /\ UNCHANGED server
     \/ /\ n \in sending \cup registered
        /\ server' = [server EXCEPT ![n] = "waiting"]
        /\ UNCHANGED sending
  /\ UNCHANGED <<etcdUp, registered, published, balancer, known, driver, lost>>

\* prepareData, sort and index; then EtcdSetKV, whose task nobody waits for.
LoadAndRegister(n) ==
  /\ server[n] = "loading"
  /\ server' = [server EXCEPT ![n] = "waiting"]
  /\ sending' = sending \cup {n}
  /\ UNCHANGED <<etcdUp, registered, published, balancer, known, driver, lost>>

\* A bug SetArrives could have: a server registers only once it knows all.
SetArrivesLast(n) ==
  /\ n \in sending
  /\ Len(known[n]) = NumServers
  /\ sending' = sending \ {n}
  /\ IF etcdUp
     THEN registered' = registered \cup {n} /\ UNCHANGED lost
     ELSE lost' = lost \cup {n} /\ UNCHANGED registered
  /\ UNCHANGED <<etcdUp, published, server, balancer, known, driver>>

SetArrives(n) ==
  /\ n \in sending
  /\ sending' = sending \ {n}
  /\ IF etcdUp
     THEN registered' = registered \cup {n} /\ UNCHANGED lost
     ELSE lost' = lost \cup {n} /\ UNCHANGED registered
  /\ UNCHANGED <<etcdUp, published, server, balancer, known, driver>>

\* The stubs are made from known; Run builds and starts the server.
Listen(n) ==
  /\ server[n] = "waiting"
  /\ Len(known[n]) = NumServers
  /\ server' = [server EXCEPT ![n] = "listening"]
  /\ UNCHANGED <<etcdUp, registered, published, sending, balancer, known, driver, lost>>

-----------------------------------------------------------------------------
(* main and RunLoadBalancer of balancer.cc. *)

BalancerListens ==
  /\ balancer = "waiting"
  /\ Len(known[Balancer]) = NumServers
  /\ balancer' = "listening"
  /\ UNCHANGED <<etcdUp, registered, published, sending, server, known, driver, lost>>

\* The answer to the set is waited for; a failure is printed.
Publish ==
  /\ balancer = "listening"
  /\ balancer' = "registered"
  /\ IF etcdUp
     THEN published' = TRUE /\ UNCHANGED lost
     ELSE lost' = lost \cup {Balancer} /\ UNCHANGED published
  /\ UNCHANGED <<etcdUp, registered, sending, server, known, driver>>

-----------------------------------------------------------------------------
(* SetupSearchService of testbench.cc. *)

DriverFinds ==
  /\ driver = "polling"
  /\ etcdUp /\ published
  /\ driver' = "testing"
  /\ UNCHANGED <<etcdUp, registered, published, sending, server, balancer, known, lost>>

DriverGivesUp ==
  /\ driver = "polling"
  /\ driver' = "gave up"
  /\ UNCHANGED <<etcdUp, registered, published, sending, server, balancer, known, lost>>

-----------------------------------------------------------------------------

ServerStep(n) ==
  \/ LoadAndRegister(n) \/ SetArrives(n) \/ Listen(n)
  \/ GetAddress(n) \/ GetFails(n)

BalancerStep ==
  \/ GetAddress(Balancer) \/ GetFails(Balancer)
  \/ BalancerListens \/ Publish

Next ==
  \/ EtcdStarts
  \/ \E n \in Servers : ServerStep(n)
  \/ BalancerStep
  \/ DriverFinds \/ DriverGivesUp

Spec == Init /\ [][Next]_vars

\* etcd comes up and every process goes on.  The set of a server is a task
\* of its own: it arrives although the server does not wait for it.
Fairness ==
  /\ WF_vars(EtcdStarts)
  /\ \A n \in Servers : WF_vars(ServerStep(n)) /\ WF_vars(SetArrives(n))
  /\ WF_vars(BalancerStep)
  /\ WF_vars(DriverFinds)

FairSpec == Spec /\ Fairness

-----------------------------------------------------------------------------
(* Correctness. *)

\* The wait for addresses is over: the stubs are made of them.
Serves(c) == IF c = Balancer THEN balancer # "waiting" ELSE server[c] = "listening"

\* README.md:14: a server registers once it has read its file and built its
\* index, and nobody serves before it has an answer for each server.  Whatever
\* the order of starts, and whenever etcd comes up: an address that a stub is
\* made of is that of the right server, which has its data, and the service
\* is published by a balancer that has its stubs.
StubsAreReady ==
  /\ \A c \in Clients : Serves(c) =>
       \A n \in Servers :
         known[c][n] # NoAddress => known[c][n] = n /\ server[n] # "loading"
  /\ published => Serves(Balancer)

\* The key a process waits for will never be there.
AwaitsLost(c) == Waiting(c) /\ Len(known[c]) + 1 \in lost

\* Servers wait for each other's keys, and each sets its own before it waits
\* (server.cc:139-145): so each comes to listen, and so does the balancer.
\* The only ones who do not are those who wait for the very key that was
\* lost.  The testbench finds what is published unless its time ran out.
ComesUp ==
  /\ \A c \in Clients : <>[](Serves(c) \/ AwaitsLost(c))
  /\ published ~> driver # "polling"

\* README.md:14: each server that has its data records its address, each one
\* reads those of the others, and the balancer reads those of all before it
\* shows its own.  So each process comes to serve with the addresses of all.
\* (The code does not guarantee it: an address may be missing, util.cc:117,
\* and a key may be lost, util.cc:127.)
AllMeet == \A c \in Clients : <>(Serves(c) /\ \A n \in Servers : known[c][n] = n)
=============================================================================
