--------------------------- MODULE SearchService ----------------------------
(***************************************************************************)
(* The path of a search through the running system: the balancer forwards  *)
(* it to one node (balancer.cc), whose AsyncServerImpl (async_server.h)    *)
(* takes it from completion queue cq1 and runs doSearch (server.cc), which *)
(* sends one SearchLocal per node through the thread pool, blocks on the   *)
(* futures and merges.  SearchLocal calls are taken from cq2.              *)
(*                                                                         *)
(* A call is named by its request, a SearchLocal call by its request and   *)
(* the node it goes to.  A failed process does not come back: nothing in   *)
(* the repository restarts one.                                            *)
(***************************************************************************)
EXTENDS Naturals, FiniteSets

CONSTANTS
  Nodes,          \* the servers
  Balancer,       \* the balancer's process
  Requests,       \* the searches callers make: bounds the model
  SearchThreads,  \* threads per node that serve cq1
  LocalThreads,   \* threads per node that serve cq2
  PoolSize,       \* threads of a node's pool
  MayCrash,       \* processes that may fail on their own
  None            \* the home of a request not forwarded yet

ASSUME SizesAssumption ==
  /\ SearchThreads \in Nat \ {0}
  /\ LocalThreads \in Nat \ {0}
  /\ PoolSize \in Nat \ {0}

ASSUME ProcessesAssumption ==
  /\ IsFiniteSet(Nodes) /\ IsFiniteSet(Requests)
  /\ Balancer \notin Nodes
  /\ None \notin Nodes
  /\ MayCrash \subseteq Nodes \cup {Balancer}

VARIABLES
  up,          \* processes that run
  home,        \* the node the balancer chose for a request
  search,      \* progress of the Search call at its home
  sub,         \* progress of the SearchLocal call of a request to a node
  armed,       \* per node: CallSearch objects that wait for a call
  armedLocal,  \* per node: CallSearchLocal objects that wait for a call
  finish,      \* Finish events in the completion queues
  outcome,     \* what the caller of the search has seen
  parts        \* the non-empty replies an answer was merged from

vars == <<up, home, search, sub, armed, armedLocal, finish, outcome, parts>>

Processes == Nodes \cup {Balancer}

\* "sent": on the wire.  "matched": an event in the completion queue.
\* "running", "serving": a thread is in doSearch, in doSearchLocal.
\* "replied": the response is on the wire.  "over": there will be none.
\* "queued": a task of the pool.  "ok", "failed": the future is ready.
SearchStates == {"unasked", "sent", "matched", "running", "replied", "over"}
SubStates == {"none", "queued", "sent", "matched", "serving", "replied", "ok", "failed"}

\* A Finish event: the node, the call it ends (callee is the node itself for
\* a SearchLocal), and gRPC's verdict on whether the response was sent.
FinishEvents == [at : Nodes, request : Requests, local : BOOLEAN, ok : BOOLEAN]

TypeOK ==
  /\ up \subseteq Processes
  /\ home \in [Requests -> Nodes \cup {None}]
  /\ search \in [Requests -> SearchStates]
  /\ sub \in [Requests -> [Nodes -> SubStates]]
  /\ armed \in [Nodes -> 0..SearchThreads]
  /\ armedLocal \in [Nodes -> 0..LocalThreads]
  /\ finish \subseteq FinishEvents
  /\ outcome \in [Requests -> {"waiting", "answered", "failed"}]
  /\ parts \in [Requests -> SUBSET Nodes]

Init ==
  /\ up = Processes
  /\ home = [r \in Requests |-> None]
  /\ search = [r \in Requests |-> "unasked"]
  /\ sub = [r \in Requests |-> [n \in Nodes |-> "none"]]
  /\ armed = [n \in Nodes |-> SearchThreads]
  /\ armedLocal = [n \in Nodes |-> LocalThreads]
  /\ finish = {}
  /\ outcome = [r \in Requests |-> "waiting"]
  /\ parts = [r \in Requests |-> {}]

-----------------------------------------------------------------------------
(* What occupies a thread. *)

Searching(n) == {r \in Requests : home[r] = n /\ search[r] = "running"}
Serving(n) == {r \in Requests : sub[r][n] = "serving"}
PoolTasks(n, states) ==
  {t \in Requests \X Nodes : home[t[1]] = n /\ sub[t[1]][t[2]] \in states}

\* Bugs these could have: a thread per call; one completion queue for both
\* services.
AlwaysFree(n) == TRUE
SharedQueueThreadFree(n) ==
  Cardinality(Searching(n)) + Cardinality(Serving(n)) < LocalThreads

SearchThreadFree(n) == Cardinality(Searching(n)) < SearchThreads
LocalThreadFree(n) == Cardinality(Serving(n)) < LocalThreads

\* The pool thread that runs a sub-request is blocked in the stub until then.
PoolThreadFree(n) ==
  Cardinality(PoolTasks(n, {"sent", "matched", "serving", "replied"})) < PoolSize

\* A bug Ready could have: a sub-request that was sent counts.
ReadyWhenSent(r, m) == sub[r][m] # "queued"

\* The future of a sub-request is ready, whatever the status of its call.
Ready(r, m) == sub[r][m] \in {"ok", "failed"}

\* doSearch enqueues one task per node, each with the whole request, and
\* merges the replies there are.
Submitted == [m \in Nodes |-> "queued"]
Replies(r) == {m \in Nodes : sub[r][m] = "ok"}

\* gRPC reports ok = false for a response it could not send because the
\* call is dead; a peer that died may not have been noticed yet.
FinishVerdicts(peer) == IF peer \in up THEN {TRUE} ELSE BOOLEAN

-----------------------------------------------------------------------------
(* Balancer. *)

Forward(r, n) ==
  /\ Balancer \in up
  /\ search[r] = "unasked"
  /\ search' = [search EXCEPT ![r] = "sent"]
  /\ home' = [home EXCEPT ![r] = n]
  /\ UNCHANGED <<up, sub, armed, armedLocal, finish, outcome, parts>>

ForwardAnswer(r) ==
  /\ Balancer \in up
  /\ outcome[r] = "waiting"
  /\ search[r] = "replied"
  /\ outcome' = [outcome EXCEPT ![r] = "answered"]
  /\ search' = [search EXCEPT ![r] = "over"]
  /\ UNCHANGED <<up, home, sub, armed, armedLocal, finish, parts>>

\* The RPC fails when the node is gone, the caller's own when the balancer is.
ForwardError(r) ==
  /\ outcome[r] = "waiting"
  /\ \/ search[r] # "unasked" /\ home[r] \notin up
     \/ Balancer \notin up
  /\ outcome' = [outcome EXCEPT ![r] = "failed"]
  /\ UNCHANGED <<up, home, search, sub, armed, armedLocal, finish, parts>>

-----------------------------------------------------------------------------
(* Search at its home: AsyncServerImpl::CallSearch and doSearch. *)

\* A bug MatchSearch could have: one CallSearch serves two calls.
MatchSearchTwice(r) ==
  LET n == home[r] IN
  /\ search[r] = "sent"
  /\ n \in up
  /\ armed[n] > 0
  /\ search' = [search EXCEPT ![r] = "matched"]
  /\ UNCHANGED <<up, home, sub, armed, armedLocal, finish, outcome, parts>>

MatchSearch(r) ==
  LET n == home[r] IN
  /\ search[r] = "sent"
  /\ n \in up
  /\ armed[n] > 0
  /\ armed' = [armed EXCEPT ![n] = @ - 1]
  /\ search' = [search EXCEPT ![r] = "matched"]
  /\ UNCHANGED <<up, home, sub, armedLocal, finish, outcome, parts>>

\* A bug StartSearch could have: no new CallSearch.
StartSearchOnce(r) ==
  LET n == home[r] IN
  /\ search[r] = "matched"
  /\ n \in up
  /\ SearchThreadFree(n)
  /\ search' = [search EXCEPT ![r] = "running"]
  /\ sub' = [sub EXCEPT ![r] = Submitted]
  /\ UNCHANGED <<up, home, armed, armedLocal, finish, outcome, parts>>

StartSearch(r) ==
  LET n == home[r] IN
  /\ search[r] = "matched"
  /\ n \in up
  /\ SearchThreadFree(n)
  /\ armed' = [armed EXCEPT ![n] = @ + 1]
  /\ search' = [search EXCEPT ![r] = "running"]
  /\ sub' = [sub EXCEPT ![r] = Submitted]
  /\ UNCHANGED <<up, home, armedLocal, finish, outcome, parts>>

FinishSearch(r) ==
  LET n == home[r] IN
  /\ search[r] = "running"
  /\ n \in up
  /\ \A m \in Nodes : Ready(r, m)
  /\ parts' = [parts EXCEPT ![r] = Replies(r)]
  /\ \E ok \in FinishVerdicts(Balancer) :
       /\ search' = [search EXCEPT ![r] = IF ok THEN "replied" ELSE "over"]
       /\ finish' = finish \cup {[at |-> n, request |-> r, local |-> FALSE, ok |-> ok]}
  /\ UNCHANGED <<up, home, sub, armed, armedLocal, outcome>>

-----------------------------------------------------------------------------
(* The sub-requests of doSearch: tasks of the pool at the home, and          *)
(* AsyncServerImpl::CallSearchLocal at the node m they go to.                *)

SendLocal(r, m) ==
  /\ sub[r][m] = "queued"
  /\ home[r] \in up
  /\ PoolThreadFree(home[r])
  /\ sub' = [sub EXCEPT ![r][m] = "sent"]
  /\ UNCHANGED <<up, home, search, armed, armedLocal, finish, outcome, parts>>

MatchLocal(r, m) ==
  /\ sub[r][m] = "sent"
  /\ m \in up
  /\ armedLocal[m] > 0
  /\ armedLocal' = [armedLocal EXCEPT ![m] = @ - 1]
  /\ sub' = [sub EXCEPT ![r][m] = "matched"]
  /\ UNCHANGED <<up, home, search, armed, finish, outcome, parts>>

StartLocal(r, m) ==
  /\ sub[r][m] = "matched"
  /\ m \in up
  /\ LocalThreadFree(m)
  /\ armedLocal' = [armedLocal EXCEPT ![m] = @ + 1]
  /\ sub' = [sub EXCEPT ![r][m] = "serving"]
  /\ UNCHANGED <<up, home, search, armed, finish, outcome, parts>>

FinishLocal(r, m) ==
  /\ sub[r][m] = "serving"
  /\ m \in up
  /\ \E ok \in FinishVerdicts(home[r]) :
       /\ sub' = [sub EXCEPT ![r][m] = IF ok THEN "replied" ELSE "failed"]
       /\ finish' = finish \cup {[at |-> m, request |-> r, local |-> TRUE, ok |-> ok]}
  /\ UNCHANGED <<up, home, search, armed, armedLocal, outcome, parts>>

ReceiveLocal(r, m) ==
  /\ sub[r][m] = "replied"
  /\ home[r] \in up
  /\ sub' = [sub EXCEPT ![r][m] = "ok"]
  /\ UNCHANGED <<up, home, search, armed, armedLocal, finish, outcome, parts>>

\* A bug FailLocal could have: the call is given up while its node is alive.
FailLocalEarly(r, m) ==
  /\ sub[r][m] = "sent"
  /\ home[r] \in up
  /\ sub' = [sub EXCEPT ![r][m] = "failed"]
  /\ UNCHANGED <<up, home, search, armed, armedLocal, finish, outcome, parts>>

\* The status is not OK: the task prints it and leaves the reply empty.
FailLocal(r, m) ==
  /\ sub[r][m] \in {"sent", "matched", "serving", "replied"}
  /\ home[r] \in up
  /\ m \notin up
  /\ sub' = [sub EXCEPT ![r][m] = "failed"]
  /\ UNCHANGED <<up, home, search, armed, armedLocal, finish, outcome, parts>>

-----------------------------------------------------------------------------
(* The last event of a call, and failures. *)

FinishThreadFree(e) == IF e.local THEN LocalThreadFree(e.at) ELSE SearchThreadFree(e.at)

DeleteCall(e) ==
  /\ e \in finish
  /\ e.at \in up
  /\ FinishThreadFree(e)
  /\ e.ok
  /\ finish' = finish \ {e}
  /\ UNCHANGED <<up, home, search, sub, armed, armedLocal, outcome, parts>>

\* GPR_ASSERT(ok) aborts the process, and with it every call it serves.
AbortNode(e) ==
  /\ e \in finish
  /\ e.at \in up
  /\ FinishThreadFree(e)
  /\ ~e.ok
  /\ up' = up \ {e.at}
  /\ UNCHANGED <<home, search, sub, armed, armedLocal, finish, outcome, parts>>

Crash(p) ==
  /\ p \in MayCrash \cap up
  /\ up' = up \ {p}
  /\ UNCHANGED <<home, search, sub, armed, armedLocal, finish, outcome, parts>>

-----------------------------------------------------------------------------

SearchStep(r) ==
  \/ ForwardAnswer(r) \/ ForwardError(r)
  \/ MatchSearch(r) \/ StartSearch(r) \/ FinishSearch(r)

LocalStep(r, m) ==
  \/ SendLocal(r, m) \/ MatchLocal(r, m) \/ StartLocal(r, m)
  \/ FinishLocal(r, m) \/ ReceiveLocal(r, m) \/ FailLocal(r, m)

Next ==
  \/ \E r \in Requests, n \in Nodes : Forward(r, n) \/ LocalStep(r, n)
  \/ \E r \in Requests : SearchStep(r)
  \/ \E e \in finish : DeleteCall(e) \/ AbortNode(e)
  \/ \E p \in Processes : Crash(p)

Spec == Init /\ [][Next]_vars

\* Scheduled threads, and a network that delivers between live processes or
\* reports the failure of a dead one.  Nothing makes a caller ask, and no
\* property needs a Finish event to be taken.
Fairness ==
  /\ \A r \in Requests : WF_vars(SearchStep(r))
  /\ \A r \in Requests, m \in Nodes : WF_vars(LocalStep(r, m))

FairSpec == Spec /\ Fairness

-----------------------------------------------------------------------------
(* Correctness. *)

InFlight == {"queued", "sent", "matched", "serving", "replied"}

\* Every queued or blocked task of the pool writes through a reference to
\* resp_local, on the stack of doSearch (server.cc:252, 268): the frame must
\* still be there, that is, the search must still be joining its futures.
RepliesOutlived ==
  \A r \in Requests, m \in Nodes :
    home[r] \in up /\ sub[r][m] \in InFlight => search[r] = "running"

Matched(n) == {r \in Requests : home[r] = n /\ search[r] = "matched"}
MatchedLocal(n) == {r \in Requests : sub[r][n] = "matched"}

\* A call that is matched leaves one CallSearch less to match the next one,
\* until the thread that handles it makes a new one (async_server.h:95, 131):
\* however calls overlap, the node never ends up with none.
CallsStayArmed ==
  \A n \in Nodes \cap up :
    /\ armed[n] + Cardinality(Matched(n)) = SearchThreads
    /\ armedLocal[n] + Cardinality(MatchedLocal(n)) = LocalThreads

\* The pool is sized so that a sub-request never waits for a thread: 64
\* (server.cc:249) against 3 sub-requests of each of the 16 searches that
\* can be in doSearch at once (async_server.h:47).
PoolNeverSaturated ==
  \A n \in Nodes \cap up : Cardinality(PoolTasks(n, InFlight)) <= PoolSize

\* No search hangs: whatever crashes or aborts meanwhile, whoever asked gets
\* an answer or an error.  Searches block cq1's threads while their
\* sub-requests need a thread of cq2, possibly of the same node
\* (async_server.h:32).
EverySearchEnds ==
  \A r \in Requests : search[r] # "unasked" ~> outcome[r] # "waiting"

\* An answer leaves a node's advertisements out only if the node is down.
Api == INSTANCE SearchApi WITH
  parts <- [r \in Requests |-> IF outcome[r] = "answered" THEN parts[r] ELSE {}]
ApiSpec == Api!Spec

\* GPR_ASSERT(ok) (async_server.h:152, 166): no event that a node takes from
\* its queues reports a failure.
AssertedOk ==
  \A e \in finish : e.at \in up => e.ok
=============================================================================
