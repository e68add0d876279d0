--------------------------- MODULE StartupProofs ----------------------------
(***************************************************************************)
(* Proofs about Startup, for any number of servers, about the balancer     *)
(* once it is published (LoadBalancer), for any number of threads as well, *)
(* and about System, which composes the two.                               *)
(***************************************************************************)
EXTENDS System, TLAPS

Addresses == Servers \cup {NoAddress}

LEMMA AppendType ==
  ASSUME NEW s \in Seq(Addresses), NEW a \in Addresses
  PROVE  /\ Append(s, a) \in Seq(Addresses)
         /\ Len(Append(s, a)) = Len(s) + 1 /\ Len(s) \in Nat
         /\ Append(s, a)[Len(s) + 1] = a
         /\ \A k \in 1..Len(s) : Append(s, a)[k] = s[k]
BY SMT

\* A process asks for the servers' addresses only.
LEMMA NextIsServer ==
  ASSUME TypeOK, NEW c \in Clients, Waiting(c)
  PROVE  known[c] \in Seq(Addresses) /\ Len(known[c]) + 1 \in Servers /\ Len(known[c]) < NumServers
<1>1. known[c] \in Seq(Addresses) /\ Len(known[c]) < NumServers
  BY DEF TypeOK, Waiting, Addresses
<1>2. Len(known[c]) \in Nat
  BY <1>1
<1> QED BY <1>1, <1>2, NumServersAssumption DEF Servers

-----------------------------------------------------------------------------
(* Types. *)

LEMMA TypeInit == Init => TypeOK
<1> SUFFICES ASSUME Init PROVE TypeOK
  OBVIOUS
<1>1. known \in [Clients -> Seq(Addresses)] /\ \A c \in Clients : known[c] = <<>>
  BY DEF Init
<1>2. \A c \in Clients : Len(known[c]) <= NumServers
  BY <1>1, NumServersAssumption
<1> QED BY <1>1, <1>2 DEF Init, TypeOK, Addresses

LEMMA TypeKnows ==
  ASSUME TypeOK, NEW c \in Clients, Waiting(c), NEW a \in Addresses,
         known' = [known EXCEPT ![c] = Append(@, a)]
  PROVE  known' \in [Clients -> Seq(Addresses)] /\ \A d \in Clients : Len(known'[d]) <= NumServers
<1>1. known \in [Clients -> Seq(Addresses)] /\ \A d \in Clients : Len(known[d]) <= NumServers
  BY DEF TypeOK, Addresses
<1>2. /\ Append(known[c], a) \in Seq(Addresses)
      /\ Len(Append(known[c], a)) = Len(known[c]) + 1 /\ Len(known[c]) \in Nat
  BY <1>1, AppendType
<1>3. Len(known[c]) < NumServers
  BY NextIsServer
<1>4. known' \in [Clients -> Seq(Addresses)] /\ Len(known'[c]) <= NumServers
  BY <1>1, <1>2, <1>3, NumServersAssumption
<1> QED BY <1>1, <1>4

LEMMA TypeNext == TypeOK /\ [Next]_vars => TypeOK'
<1> SUFFICES ASSUME TypeOK, [Next]_vars PROVE TypeOK'
  OBVIOUS
<1>1. ASSUME NEW c \in Clients, GetAddress(c) PROVE TypeOK'
  <2>1. Waiting(c) /\ Len(known[c]) + 1 \in Addresses
    BY <1>1, NextIsServer DEF GetAddress, Addresses
  <2>2. known' = [known EXCEPT ![c] = Append(@, Len(known[c]) + 1)]
    BY <1>1 DEF GetAddress, TypeOK
  <2> QED BY <1>1, <2>1, <2>2, TypeKnows DEF GetAddress, TypeOK, Addresses
<1>2. ASSUME NEW c \in Clients, GetFails(c) PROVE TypeOK'
  <2>1. NoAddress \in Addresses
    BY DEF Addresses
  <2> QED BY <1>2, <2>1, TypeKnows DEF GetFails, TypeOK, Addresses
<1>3. ASSUME NEW n \in Servers, LoadAndRegister(n) \/ SetArrives(n) \/ Listen(n) PROVE TypeOK'
  BY <1>3 DEF LoadAndRegister, SetArrives, Listen, TypeOK, Clients
<1>4. CASE EtcdStarts \/ BalancerListens \/ Publish \/ DriverFinds \/ DriverGivesUp
  BY <1>4 DEF EtcdStarts, BalancerListens, Publish, DriverFinds, DriverGivesUp, TypeOK, Clients
<1>5. CASE UNCHANGED vars
  BY <1>5 DEF vars, TypeOK
<1> QED BY <1>1, <1>2, <1>3, <1>4, <1>5 DEF Next, ServerStep, BalancerStep, Clients

-----------------------------------------------------------------------------
(* StubsAreReady. *)

\* A key is set by a server that has its data.
LoadedFirst == \A n \in sending \cup registered : server[n] # "loading"

\* Nobody leaves its wait before it was answered for each server.
WaitedForAll ==
  /\ \A n \in Servers : server[n] = "listening" => Len(known[n]) = NumServers
  /\ balancer # "waiting" => Len(known[Balancer]) = NumServers
  /\ published => balancer = "registered"

\* Each answer that is an address is that of the server asked for, and this
\* server has registered.
KnowsRegistered ==
  \A c \in Clients : \A k \in 1..Len(known[c]) :
    known[c][k] # NoAddress => known[c][k] = k /\ k \in registered

StartInv == LoadedFirst /\ WaitedForAll /\ KnowsRegistered

LEMMA StartInit == Init => StartInv
<1> SUFFICES ASSUME Init PROVE StartInv
  OBVIOUS
<1>1. \A c \in Clients : known[c] = <<>>
  BY DEF Init
<1>2. KnowsRegistered
  BY <1>1 DEF KnowsRegistered
<1> QED BY <1>2 DEF Init, StartInv, LoadedFirst, WaitedForAll

LEMMA StartNext == TypeOK /\ StartInv /\ [Next]_vars => StartInv'
<1> SUFFICES ASSUME TypeOK, StartInv, [Next]_vars PROVE StartInv'
  OBVIOUS
<1>1. ASSUME NEW c \in Clients, GetAddress(c) PROVE StartInv'
  <2> DEFINE a == Len(known[c]) + 1
  <2>1. /\ Waiting(c) /\ a \in registered /\ a \in Addresses
        /\ known[c] \in Seq(Addresses) /\ Len(known[c]) < NumServers
    BY <1>1, NextIsServer DEF GetAddress, Addresses
  <2>2. /\ known \in [Clients -> Seq(Addresses)]
        /\ known' = [known EXCEPT ![c] = Append(known[c], a)]
    BY <1>1 DEF GetAddress, TypeOK, Addresses
  <2>3. /\ Len(known'[c]) = Len(known[c]) + 1 /\ Len(known[c]) \in Nat
        /\ known'[c][a] = a /\ \A k \in 1..Len(known[c]) : known'[c][k] = known[c][k]
    BY <2>1, <2>2, AppendType
  <2>4. KnowsRegistered'
    <3> SUFFICES ASSUME NEW d \in Clients, NEW k \in 1..Len(known'[d]), known'[d][k] # NoAddress
                 PROVE  known'[d][k] = k /\ k \in registered
      BY <1>1 DEF GetAddress, KnowsRegistered
    <3>1. CASE d # c
      BY <2>2, <3>1 DEF StartInv, KnowsRegistered
    <3>2. CASE d = c /\ k # a
      <4>1. k \in 1..Len(known[c])
        BY <2>3, <3>2
      <4> QED BY <2>3, <3>2, <4>1 DEF StartInv, KnowsRegistered
    <3>3. CASE d = c /\ k = a
      BY <2>1, <2>3, <3>3
    <3> QED BY <3>1, <3>2, <3>3
  <2>5. WaitedForAll'
    BY <1>1, <2>1, <2>2 DEF GetAddress, Waiting, StartInv, WaitedForAll, Clients
  <2> QED BY <1>1, <2>4, <2>5 DEF GetAddress, StartInv, LoadedFirst
<1>2. ASSUME NEW c \in Clients, GetFails(c) PROVE StartInv'
  <2>1. /\ Waiting(c) /\ NoAddress \in Addresses
        /\ known[c] \in Seq(Addresses) /\ Len(known[c]) < NumServers
    BY <1>2, NextIsServer DEF GetFails, Addresses
  <2>2. /\ known \in [Clients -> Seq(Addresses)]
        /\ known' = [known EXCEPT ![c] = Append(known[c], NoAddress)]
    BY <1>2 DEF GetFails, TypeOK, Addresses
  <2>3. /\ Len(known'[c]) = Len(known[c]) + 1 /\ Len(known[c]) \in Nat
        /\ known'[c][Len(known[c]) + 1] = NoAddress
        /\ \A k \in 1..Len(known[c]) : known'[c][k] = known[c][k]
    BY <2>1, <2>2, AppendType
  <2>4. KnowsRegistered'
    <3> SUFFICES ASSUME NEW d \in Clients, NEW k \in 1..Len(known'[d]), known'[d][k] # NoAddress
                 PROVE  known'[d][k] = k /\ k \in registered
      BY <1>2 DEF GetFails, KnowsRegistered
    <3>1. CASE d # c
      BY <2>2, <3>1 DEF StartInv, KnowsRegistered
    <3>2. CASE d = c
      <4>1. k \in 1..Len(known[c])
        BY <2>3, <3>2
      <4> QED BY <2>3, <3>2, <4>1 DEF StartInv, KnowsRegistered
    <3> QED BY <3>1, <3>2
  <2>5. Len(known[c]) # NumServers
    BY <2>1, <2>3, NumServersAssumption
  <2>6. WaitedForAll'
    BY <1>2, <2>1, <2>2, <2>5 DEF GetFails, Waiting, StartInv, WaitedForAll, Clients
  <2> QED BY <1>2, <2>4, <2>6 DEF GetFails, StartInv, LoadedFirst
<1>3. ASSUME NEW n \in Servers, LoadAndRegister(n) PROVE StartInv'
  <2>1. LoadedFirst'
    BY <1>3 DEF LoadAndRegister, TypeOK, StartInv, LoadedFirst
  <2>2. WaitedForAll'
    BY <1>3 DEF LoadAndRegister, TypeOK, StartInv, WaitedForAll
  <2>3. KnowsRegistered'
    BY <1>3 DEF LoadAndRegister, StartInv, KnowsRegistered
  <2> QED BY <2>1, <2>2, <2>3 DEF StartInv
<1>4. ASSUME NEW n \in Servers, SetArrives(n) PROVE StartInv'
  BY <1>4 DEF SetArrives, StartInv, LoadedFirst, WaitedForAll, KnowsRegistered
<1>5. ASSUME NEW n \in Servers, Listen(n) PROVE StartInv'
  <2>1. LoadedFirst'
    BY <1>5 DEF Listen, TypeOK, StartInv, LoadedFirst
  <2>2. WaitedForAll'
    BY <1>5 DEF Listen, TypeOK, StartInv, WaitedForAll
  <2>3. KnowsRegistered'
    BY <1>5 DEF Listen, StartInv, KnowsRegistered
  <2> QED BY <2>1, <2>2, <2>3 DEF StartInv
<1>6. CASE BalancerListens \/ Publish
  <2>1. LoadedFirst'
    BY <1>6 DEF BalancerListens, Publish, StartInv, LoadedFirst
  <2>2. WaitedForAll'
    BY <1>6 DEF BalancerListens, Publish, StartInv, WaitedForAll
  <2>3. KnowsRegistered'
    BY <1>6 DEF BalancerListens, Publish, StartInv, KnowsRegistered
  <2> QED BY <2>1, <2>2, <2>3 DEF StartInv
<1>7. CASE EtcdStarts \/ DriverFinds \/ DriverGivesUp
  <2>1. UNCHANGED <<registered, published, sending, server, balancer, known>>
    BY <1>7 DEF EtcdStarts, DriverFinds, DriverGivesUp
  <2> QED BY <2>1 DEF StartInv, LoadedFirst, WaitedForAll, KnowsRegistered
<1>8. CASE UNCHANGED vars
  BY <1>8 DEF vars, StartInv, LoadedFirst, WaitedForAll, KnowsRegistered
<1> QED BY <1>1, <1>2, <1>3, <1>4, <1>5, <1>6, <1>7, <1>8
        DEF Next, ServerStep, BalancerStep, Clients

\* Whoever serves was answered for each server, and an address among the
\* answers is that of a server that has its data.
LEMMA ServesReady ==
  ASSUME TypeOK, StartInv, NEW c \in Clients, Serves(c), NEW n \in Servers, known[c][n] # NoAddress
  PROVE  known[c][n] = n /\ server[n] # "loading"
<1>1. Len(known[c]) = NumServers
  BY BalancerAssumption DEF Serves, StartInv, WaitedForAll, Clients
<1>2. known[c][n] = n /\ n \in registered
  BY <1>1 DEF StartInv, KnowsRegistered, Servers
<1> QED BY <1>2 DEF StartInv, LoadedFirst

LEMMA StartReady == TypeOK /\ StartInv => StubsAreReady
<1> SUFFICES ASSUME TypeOK, StartInv PROVE StubsAreReady
  OBVIOUS
<1>1. published => Serves(Balancer)
  BY DEF StartInv, WaitedForAll, Serves
<1> QED BY <1>1, ServesReady DEF StubsAreReady

\* StubsAreReady for any number of servers, in whatever order the processes
\* start and ask, and whenever etcd comes up: the addresses of whoever serves
\* are of servers with their data (server.cc:102-161, balancer.cc:87-106).
THEOREM StubsReady == Spec => []StubsAreReady
<1>1. TypeOK /\ StartInv /\ [Next]_vars => (TypeOK /\ StartInv)'
  BY TypeNext, StartNext
<1> QED BY TypeInit, StartInit, <1>1, StartReady, PTL DEF Spec

-----------------------------------------------------------------------------
(* LoadBalancer. *)

\* The counter always names a stub.
LEMMA SuccessorIsStub ==
  ASSUME NEW k \in Stubs
  PROVE  (k + 1) % NumStubs \in Stubs
BY NumStubsAssumption, SMT DEF Stubs

LEMMA BalancerTypeInit == BalancerInit => BalancerTypeOK
<1>1. 0 \in Stubs
  BY NumStubsAssumption DEF Stubs
<1> QED BY <1>1 DEF BalancerInit, BalancerTypeOK

LEMMA BalancerTypeNext == BalancerTypeOK /\ [BalancerNext]_balancerVars => BalancerTypeOK'
<1> SUFFICES ASSUME BalancerTypeOK, [BalancerNext]_balancerVars PROVE BalancerTypeOK'
  OBVIOUS
<1>0. 0 \in Stubs
  BY NumStubsAssumption DEF Stubs
<1>1. ASSUME NEW h \in Handlers, Load(h) PROVE BalancerTypeOK'
  BY <1>1 DEF Load, BalancerTypeOK
<1>2. ASSUME NEW h \in Handlers, Store(h) PROVE BalancerTypeOK'
  <2>1. (loaded[h] + 1) % NumStubs \in Stubs
    BY <1>2, SuccessorIsStub DEF BalancerTypeOK
  <2> QED BY <1>2, <2>1 DEF Store, BalancerTypeOK
<1>3. ASSUME NEW h \in Handlers, Reload(h) PROVE BalancerTypeOK'
  BY <1>0, <1>3 DEF Reload, BalancerTypeOK
<1>4. ASSUME NEW h \in Handlers, Forward(h) PROVE BalancerTypeOK'
  BY <1>0, <1>4 DEF Forward, BalancerTypeOK
<1>5. CASE UNCHANGED balancerVars
  BY <1>5 DEF balancerVars, BalancerTypeOK
<1> QED BY <1>1, <1>2, <1>3, <1>4, <1>5 DEF BalancerNext, Search

\* Whatever the interleaving of loads and stores, stubs[i] is a stub
\* (balancer.cc:40-43).
THEOREM BalancerTypes == BalancerSpec => []BalancerTypeOK
BY BalancerTypeInit, BalancerTypeNext, PTL DEF BalancerSpec

-----------------------------------------------------------------------------

\* While nobody is choosing, the counter is the stub chosen last: a thread
\* stores before it loads, so that the last access of all is a load.
QuietCounter == (\A h \in Handlers : ~Choosing(h)) => i = last

\* While one thread is choosing alone, only its own store moved the counter.
AloneCounter ==
  \A h \in alone :
    /\ Choosing(h)
    /\ \A g \in Handlers \ {h} : ~Choosing(g)
    /\ handler[h] = "storing" => loaded[h] = i /\ i = last
    /\ handler[h] = "reloading" => i = (last + 1) % NumStubs

LEMMA CounterInit == BalancerInit => QuietCounter /\ AloneCounter
BY DEF BalancerInit, QuietCounter, AloneCounter

LEMMA CounterNext ==
  BalancerTypeOK /\ QuietCounter /\ AloneCounter /\ [BalancerNext]_balancerVars => (QuietCounter /\ AloneCounter)'
<1> SUFFICES ASSUME BalancerTypeOK, QuietCounter, AloneCounter, [BalancerNext]_balancerVars
             PROVE  (QuietCounter /\ AloneCounter)'
  OBVIOUS
<1>1. ASSUME NEW h \in Handlers, Load(h) PROVE (QuietCounter /\ AloneCounter)'
  <2>1. QuietCounter'
    BY <1>1 DEF Load, BalancerTypeOK, QuietCounter, Choosing
  <2>2. CASE \E g \in Handlers \ {h} : Choosing(g)
    BY <1>1, <2>1, <2>2 DEF Load, AloneCounter
  <2>3. CASE ~\E g \in Handlers \ {h} : Choosing(g)
    <3>1. i = last
      BY <1>1, <2>3 DEF Load, QuietCounter, Choosing
    <3> QED BY <1>1, <2>1, <2>3, <3>1 DEF Load, BalancerTypeOK, AloneCounter, Choosing
  <2> QED BY <2>2, <2>3
<1>2. ASSUME NEW h \in Handlers, Store(h) PROVE (QuietCounter /\ AloneCounter)'
  <2>1. Choosing(h)'
    BY <1>2 DEF Store, BalancerTypeOK, Choosing
  <2>2. alone \subseteq {h}
    BY <1>2 DEF Store, BalancerTypeOK, AloneCounter, Choosing
  <2>3. AloneCounter'
    BY <1>2, <2>1, <2>2 DEF Store, BalancerTypeOK, AloneCounter, Choosing
  <2> QED BY <2>1, <2>3 DEF QuietCounter
<1>3. ASSUME NEW h \in Handlers, Reload(h) PROVE (QuietCounter /\ AloneCounter)'
  <2>1. alone \subseteq {h}
    BY <1>3 DEF Reload, BalancerTypeOK, AloneCounter, Choosing
  <2> QED BY <1>3, <2>1 DEF Reload, QuietCounter, AloneCounter
<1>4. ASSUME NEW h \in Handlers, Forward(h) PROVE (QuietCounter /\ AloneCounter)'
  BY <1>4 DEF Forward, BalancerTypeOK, QuietCounter, AloneCounter, Choosing
<1>5. CASE UNCHANGED balancerVars
  BY <1>5 DEF balancerVars, QuietCounter, AloneCounter, Choosing
<1> QED BY <1>1, <1>2, <1>3, <1>4, <1>5 DEF BalancerNext, Search

\* A step that chooses alone takes the successor of the stub chosen last.
LEMMA AloneStep ==
  ASSUME BalancerTypeOK, AloneCounter, [BalancerNext]_balancerVars
  PROVE  [\A h \in Handlers :
            handler[h] = "reloading" /\ handler'[h] = "calling" /\ h \in alone =>
              stub'[h] = (last + 1) % NumStubs]_balancerVars
<1> SUFFICES ASSUME NEW h \in Handlers, BalancerNext,
                    handler[h] = "reloading", handler'[h] = "calling", h \in alone
             PROVE  stub'[h] = (last + 1) % NumStubs
  OBVIOUS
<1>1. \A g \in Handlers : Search(g) /\ g # h => handler'[h] = handler[h]
  BY DEF Search, Load, Store, Reload, Forward, BalancerTypeOK
<1>2. Reload(h)
  BY <1>1 DEF BalancerNext, Search, Load, Store, Forward, BalancerTypeOK
<1> QED BY <1>2 DEF Reload, AloneCounter, BalancerTypeOK

\* TurnsWhenAlone for any number of servers and threads: searches that do
\* not overlap take turns, whatever happened before (balancer.cc:38-43).
THEOREM AloneTakesTurns == BalancerSpec => TurnsWhenAlone
<1>1. BalancerTypeOK /\ (QuietCounter /\ AloneCounter) /\ [BalancerNext]_balancerVars
        => (BalancerTypeOK /\ (QuietCounter /\ AloneCounter))'
  BY BalancerTypeNext, CounterNext
<1>2. BalancerTypeOK /\ (QuietCounter /\ AloneCounter) /\ [BalancerNext]_balancerVars =>
        [\A h \in Handlers :
           handler[h] = "reloading" /\ handler'[h] = "calling" /\ h \in alone =>
             stub'[h] = (last + 1) % NumStubs]_balancerVars
  BY AloneStep
<1> QED BY BalancerTypeInit, CounterInit, <1>1, <1>2, PTL DEF BalancerSpec, TurnsWhenAlone

-----------------------------------------------------------------------------
(* System. *)

\* What the system does is a start and, seen by the balancer's threads, a run
\* of searches: so what holds of each part holds of the whole - stubs are
\* ready, the counter names a stub, and searches alone take turns
\* (testbench.cc:106-115 between balancer.cc:59-110 and :38-50).
THEOREM SystemKeepsParts == SystemSpec => []StubsAreReady /\ []BalancerTypeOK /\ TurnsWhenAlone
<1>1. SystemInit => Init /\ BalancerInit
  BY DEF SystemInit
<1>2. [SystemNext]_systemVars => [Next]_vars /\ [BalancerNext]_balancerVars
  BY DEF SystemNext, StartupStep, SearchStep, systemVars, vars, balancerVars
<1>3. SystemSpec => Spec /\ BalancerSpec
  BY <1>1, <1>2, PTL DEF SystemSpec, Spec, BalancerSpec
<1> QED BY <1>3, StubsReady, BalancerTypes, AloneTakesTurns, PTL
=============================================================================
