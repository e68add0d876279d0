------------------------- MODULE SearchServiceProofs -------------------------
(***************************************************************************)
(* Proofs about SearchService for any number of nodes, requests and        *)
(* threads, and any processes that may fail: its types, RepliesOutlived,   *)
(* CallsStayArmed, that it implements SearchApi, and PoolNeverSaturated    *)
(* for a pool of the right size.                                           *)
(***************************************************************************)
EXTENDS SearchService, FiniteSetTheorems, TLAPS

-----------------------------------------------------------------------------
(* The inductive invariant.  CallsStayArmed is inductive as it stands, given *)
(* that a call has a home; what it says bounds the number of armed calls.    *)

\* A request has a home once it was forwarded, and sub-requests once its
\* search runs; its caller has the answer only after that.
Progress ==
  \A r \in Requests :
    /\ search[r] # "unasked" => home[r] \in Nodes
    /\ search[r] \in {"unasked", "sent", "matched"} =>
         \A m \in Nodes : sub[r][m] = "none"
    /\ outcome[r] = "answered" => search[r] = "over"

\* Sub-requests in flight belong to a search that still runs, whether or not
\* its node does.
Joining ==
  \A r \in Requests, m \in Nodes : sub[r][m] \in InFlight => search[r] = "running"

\* A sub-request fails at a home that is up only because its node is down, so
\* what a search merges covers the nodes that are up.
Covered ==
  \A r \in Requests :
    /\ \A m \in Nodes : home[r] \in up /\ sub[r][m] = "failed" => m \notin up
    /\ search[r] = "replied" => Nodes \cap up \subseteq parts[r]

IInv == TypeOK /\ CallsStayArmed /\ Progress /\ Joining /\ Covered

-----------------------------------------------------------------------------
(* Counting. *)

\* Sets of requests are finite and their sizes are natural numbers.
LEMMA RequestSets ==
  ASSUME NEW S, S \subseteq Requests
  PROVE  IsFiniteSet(S) /\ Cardinality(S) \in Nat
BY ProcessesAssumption, FS_Subset, FS_CardinalityType

\* One request more, and the size grows by one.
LEMMA OneMore ==
  ASSUME NEW S, S \subseteq Requests, NEW r \in Requests, r \notin S
  PROVE  Cardinality(S \cup {r}) = Cardinality(S) + 1
BY RequestSets, FS_AddElement

\* One request less, and the size shrinks by one.
LEMMA OneLess ==
  ASSUME NEW S, S \subseteq Requests, NEW r \in S
  PROVE  Cardinality(S \ {r}) = Cardinality(S) - 1 /\ Cardinality(S) \in Nat \ {0}
<1>1. Cardinality(S \ {r}) = Cardinality(S) - 1
  BY RequestSets, FS_RemoveElement
<1>2. Cardinality(S) \in Nat /\ Cardinality(S \ {r}) \in Nat
  BY RequestSets
<1> QED
  BY <1>1, <1>2

-----------------------------------------------------------------------------
(* The initial states. *)

LEMMA InvInit == Init => IInv
<1> SUFFICES ASSUME Init PROVE IInv
  OBVIOUS
<1>1. \A r \in Requests :
        /\ search[r] = "unasked" /\ outcome[r] = "waiting"
        /\ \A m \in Nodes : sub[r][m] = "none"
  BY DEF Init
<1>2. TypeOK
  BY SizesAssumption DEF Init, TypeOK, SearchStates, SubStates, FinishEvents
<1>3. Progress /\ Joining /\ Covered
  BY <1>1 DEF Progress, Joining, Covered, InFlight
<1>4. \A n \in Nodes : Matched(n) = {} /\ MatchedLocal(n) = {}
  BY <1>1 DEF Matched, MatchedLocal
<1>5. CallsStayArmed
  BY <1>4, FS_EmptySet, SizesAssumption DEF CallsStayArmed, Init
<1> QED
  BY <1>2, <1>3, <1>5 DEF IInv

-----------------------------------------------------------------------------
(* The calls that wait for work. *)

\* A step that matches and starts no call keeps both sums.
LEMMA ArmedKept ==
  ASSUME CallsStayArmed, up' \subseteq up, UNCHANGED <<armed, armedLocal>>,
         \A r \in Requests :
           \/ search[r] # "matched" /\ search'[r] # "matched"
           \/ search'[r] = search[r] /\ home'[r] = home[r],
         \A r \in Requests, m \in Nodes \cap up :
           sub[r][m] = "matched" <=> sub'[r][m] = "matched"
  PROVE  CallsStayArmed'
<1>1. \A n \in Nodes : Matched(n)' = Matched(n)
  BY DEF Matched
<1>2. \A n \in Nodes \cap up : MatchedLocal(n)' = MatchedLocal(n)
  BY DEF MatchedLocal
<1> QED
  BY <1>1, <1>2 DEF CallsStayArmed

\* A call that is matched moves from one summand to the other, and back when
\* a thread makes the next call object.
LEMMA ArmedMatchSearch ==
  ASSUME IInv, NEW r \in Requests, MatchSearch(r) \/ StartSearch(r)
  PROVE  CallsStayArmed'
<1> SUFFICES ASSUME NEW n \in Nodes, n = home[r] PROVE CallsStayArmed'
  BY DEF IInv, Progress, MatchSearch, StartSearch
<1>1. n \in up /\ up' = up /\ armed \in [Nodes -> Nat]
  BY SizesAssumption DEF IInv, Progress, MatchSearch, StartSearch, TypeOK
<1>2. \A k \in Nodes : k # n => Matched(k)' = Matched(k) /\ armed'[k] = armed[k]
  BY DEF IInv, TypeOK, MatchSearch, StartSearch, Matched
<1>3. armed'[n] + Cardinality(Matched(n)') = armed[n] + Cardinality(Matched(n))
  <2>1. CASE MatchSearch(r)
    <3>1. Matched(n)' = Matched(n) \cup {r} /\ r \notin Matched(n)
      BY <2>1 DEF IInv, TypeOK, MatchSearch, Matched
    <3>2. Cardinality(Matched(n)') = Cardinality(Matched(n)) + 1
      BY <3>1, OneMore DEF Matched
    <3>3. armed'[n] = armed[n] - 1
      BY <1>1, <2>1 DEF MatchSearch
    <3> QED
      BY <1>1, <3>2, <3>3, RequestSets DEF Matched
  <2>2. CASE StartSearch(r)
    <3>1. Matched(n)' = Matched(n) \ {r} /\ r \in Matched(n)
      BY <2>2 DEF IInv, TypeOK, StartSearch, Matched
    <3>2. Cardinality(Matched(n)') = Cardinality(Matched(n)) - 1
      BY <3>1, OneLess DEF Matched
    <3>3. armed'[n] = armed[n] + 1
      BY <1>1, <2>2 DEF StartSearch
    <3> QED
      BY <1>1, <3>2, <3>3, RequestSets DEF Matched
  <2> QED
    BY <2>1, <2>2
<1>4. \A k \in Nodes : armedLocal'[k] = armedLocal[k] /\ MatchedLocal(k)' = MatchedLocal(k)
  BY DEF IInv, TypeOK, Progress, MatchSearch, StartSearch, MatchedLocal, Submitted
<1> QED
  BY <1>1, <1>2, <1>3, <1>4 DEF IInv, CallsStayArmed

LEMMA ArmedMatchLocal ==
  ASSUME IInv, NEW r \in Requests, NEW m \in Nodes, MatchLocal(r, m) \/ StartLocal(r, m)
  PROVE  CallsStayArmed'
<1>1. m \in up /\ up' = up /\ armedLocal \in [Nodes -> Nat]
  BY SizesAssumption DEF IInv, MatchLocal, StartLocal, TypeOK
<1>2. \A k \in Nodes : k # m =>
        MatchedLocal(k)' = MatchedLocal(k) /\ armedLocal'[k] = armedLocal[k]
  BY DEF IInv, TypeOK, MatchLocal, StartLocal, MatchedLocal
<1>3. armedLocal'[m] + Cardinality(MatchedLocal(m)')
        = armedLocal[m] + Cardinality(MatchedLocal(m))
  <2>1. CASE MatchLocal(r, m)
    <3>1. MatchedLocal(m)' = MatchedLocal(m) \cup {r} /\ r \notin MatchedLocal(m)
      BY <2>1 DEF IInv, TypeOK, MatchLocal, MatchedLocal
    <3>2. Cardinality(MatchedLocal(m)') = Cardinality(MatchedLocal(m)) + 1
      BY <3>1, OneMore DEF MatchedLocal
    <3>3. armedLocal'[m] = armedLocal[m] - 1
      BY <1>1, <2>1 DEF MatchLocal
    <3> QED
      BY <1>1, <3>2, <3>3, RequestSets DEF MatchedLocal
  <2>2. CASE StartLocal(r, m)
    <3>1. MatchedLocal(m)' = MatchedLocal(m) \ {r} /\ r \in MatchedLocal(m)
      BY <2>2 DEF IInv, TypeOK, StartLocal, MatchedLocal
    <3>2. Cardinality(MatchedLocal(m)') = Cardinality(MatchedLocal(m)) - 1
      BY <3>1, OneLess DEF MatchedLocal
    <3>3. armedLocal'[m] = armedLocal[m] + 1
      BY <1>1, <2>2 DEF StartLocal
    <3> QED
      BY <1>1, <3>2, <3>3, RequestSets DEF MatchedLocal
  <2> QED
    BY <2>1, <2>2
<1>4. \A k \in Nodes : armed'[k] = armed[k] /\ Matched(k)' = Matched(k)
  BY DEF IInv, TypeOK, MatchLocal, StartLocal, Matched
<1> QED
  BY <1>1, <1>2, <1>3, <1>4 DEF IInv, CallsStayArmed

LEMMA ArmedStep == IInv /\ [Next]_vars => CallsStayArmed'
<1> SUFFICES ASSUME IInv, [Next]_vars PROVE CallsStayArmed'
  OBVIOUS
<1>1. ASSUME NEW r \in Requests, NEW n \in Nodes, Forward(r, n) PROVE CallsStayArmed'
  BY <1>1, ArmedKept DEF IInv, TypeOK, Forward
<1>2. ASSUME NEW r \in Requests, ForwardAnswer(r) \/ ForwardError(r) PROVE CallsStayArmed'
  BY <1>2, ArmedKept DEF IInv, TypeOK, ForwardAnswer, ForwardError
<1>3. ASSUME NEW r \in Requests, FinishSearch(r) PROVE CallsStayArmed'
  <2>1. \A q \in Requests : q # r => search'[q] = search[q]
    BY <1>3 DEF IInv, TypeOK, FinishSearch
  <2>2. search[r] = "running" /\ search'[r] \in {"replied", "over"}
    BY <1>3 DEF IInv, TypeOK, FinishSearch
  <2> QED
    BY <1>3, <2>1, <2>2, ArmedKept DEF IInv, FinishSearch
<1>4. ASSUME NEW r \in Requests, NEW m \in Nodes,
             SendLocal(r, m) \/ ReceiveLocal(r, m) \/ FailLocal(r, m)
      PROVE  CallsStayArmed'
  BY <1>4, ArmedKept DEF IInv, TypeOK, SendLocal, ReceiveLocal, FailLocal
<1>5. ASSUME NEW r \in Requests, NEW m \in Nodes, FinishLocal(r, m) PROVE CallsStayArmed'
  <2>1. \A q \in Requests, k \in Nodes : q # r \/ k # m => sub'[q][k] = sub[q][k]
    BY <1>5 DEF IInv, TypeOK, FinishLocal
  <2>2. sub[r][m] = "serving" /\ sub'[r][m] \in {"replied", "failed"}
    BY <1>5 DEF IInv, TypeOK, FinishLocal
  <2> QED
    BY <1>5, <2>1, <2>2, ArmedKept DEF IInv, FinishLocal
<1>6. ASSUME NEW e \in finish, DeleteCall(e) \/ AbortNode(e) PROVE CallsStayArmed'
  BY <1>6, ArmedKept DEF IInv, DeleteCall, AbortNode
<1>7. ASSUME NEW p \in Processes, Crash(p) PROVE CallsStayArmed'
  BY <1>7, ArmedKept DEF IInv, Crash
<1>8. CASE UNCHANGED vars
  BY <1>8, ArmedKept DEF IInv, vars
<1> QED
  BY <1>1, <1>2, <1>3, <1>4, <1>5, <1>6, <1>7, <1>8, ArmedMatchSearch, ArmedMatchLocal
  DEF Next, SearchStep, LocalStep

-----------------------------------------------------------------------------
(* Types.  The bounds of armed and armedLocal come from the sums, which are  *)
(* those of the state after the step.                                        *)

\* A sub-request that moves keeps the table's type.
LEMMA SubMoves ==
  ASSUME TypeOK, NEW r \in Requests, NEW m \in Nodes, NEW s \in SubStates,
         sub' = [sub EXCEPT ![r][m] = s]
  PROVE  sub' \in [Requests -> [Nodes -> SubStates]]
<1> DEFINE row == [sub[r] EXCEPT ![m] = s]
<1>1. sub \in [Requests -> [Nodes -> SubStates]]
  BY DEF TypeOK
<1>2. row \in [Nodes -> SubStates]
  BY <1>1
<1>3. sub' = [sub EXCEPT ![r] = row]
  OBVIOUS
<1> QED
  BY <1>1, <1>2, <1>3

LEMMA TypeStep == IInv /\ [Next]_vars => TypeOK'
<1> SUFFICES ASSUME IInv, [Next]_vars PROVE TypeOK'
  OBVIOUS
<1> USE DEF TypeOK, SearchStates, SubStates
<1>0. TypeOK /\ CallsStayArmed'
  BY ArmedStep DEF IInv
<1>1. ASSUME NEW r \in Requests, NEW n \in Nodes, Forward(r, n) PROVE TypeOK'
  BY <1>0, <1>1 DEF Forward
<1>2. ASSUME NEW r \in Requests, ForwardAnswer(r) \/ ForwardError(r) PROVE TypeOK'
  BY <1>0, <1>2 DEF ForwardAnswer, ForwardError
<1>3. ASSUME NEW r \in Requests, MatchSearch(r) \/ StartSearch(r) PROVE TypeOK'
  <2> SUFFICES ASSUME NEW n \in Nodes, n = home[r] PROVE TypeOK'
    BY <1>3 DEF IInv, Progress, MatchSearch, StartSearch
  <2>1. n \in up' /\ \A k \in Nodes : k # n => armed'[k] = armed[k]
    BY <1>0, <1>3 DEF MatchSearch, StartSearch
  <2>2. armed' \in [Nodes -> Int]
    BY <1>0, <1>3, SizesAssumption DEF MatchSearch, StartSearch
  <2>3. Cardinality(Matched(n)') \in Nat
    BY RequestSets DEF Matched
  <2>4. armed'[n] + Cardinality(Matched(n)') = SearchThreads /\ armed'[n] >= 0
    BY <1>0, <1>3, <2>1, SizesAssumption DEF CallsStayArmed, MatchSearch, StartSearch
  <2>5. armed'[n] \in 0..SearchThreads
    BY <2>2, <2>3, <2>4, SizesAssumption
  <2>6. armed' \in [Nodes -> 0..SearchThreads]
    BY <1>0, <2>1, <2>2, <2>5
  <2>7. search' \in [Requests -> SearchStates]
    BY <1>0, <1>3 DEF MatchSearch, StartSearch
  <2>8. Submitted \in [Nodes -> SubStates]
    BY DEF Submitted
  <2>9. sub' \in [Requests -> [Nodes -> SubStates]]
    BY <1>0, <1>3, <2>8 DEF MatchSearch, StartSearch
  <2> QED
    BY <1>0, <1>3, <2>6, <2>7, <2>9 DEF MatchSearch, StartSearch
<1>4. ASSUME NEW r \in Requests, FinishSearch(r) PROVE TypeOK'
  <2>1. home[r] \in Nodes
    BY <1>4 DEF IInv, Progress, FinishSearch
  <2>2. PICK ok \in BOOLEAN :
          /\ search' = [search EXCEPT ![r] = IF ok THEN "replied" ELSE "over"]
          /\ finish' = finish \cup {[at |-> home[r], request |-> r, local |-> FALSE, ok |-> ok]}
    BY <1>4 DEF FinishSearch, FinishVerdicts
  <2>3. [at |-> home[r], request |-> r, local |-> FALSE, ok |-> ok] \in FinishEvents
    BY <2>1 DEF FinishEvents
  <2> QED
    BY <1>0, <1>4, <2>2, <2>3 DEF FinishSearch, Replies
<1>5. ASSUME NEW r \in Requests, NEW m \in Nodes,
             SendLocal(r, m) \/ ReceiveLocal(r, m) \/ FailLocal(r, m)
      PROVE  TypeOK'
  <2>1. PICK s \in SubStates : sub' = [sub EXCEPT ![r][m] = s]
    BY <1>5 DEF SendLocal, ReceiveLocal, FailLocal
  <2>2. sub' \in [Requests -> [Nodes -> SubStates]]
    BY <1>0, <2>1, SubMoves
  <2> QED
    BY <1>0, <1>5, <2>2 DEF SendLocal, ReceiveLocal, FailLocal
<1>6. ASSUME NEW r \in Requests, NEW m \in Nodes, MatchLocal(r, m) \/ StartLocal(r, m)
      PROVE  TypeOK'
  <2>1. m \in up' /\ \A k \in Nodes : k # m => armedLocal'[k] = armedLocal[k]
    BY <1>0, <1>6 DEF MatchLocal, StartLocal
  <2>2. armedLocal' \in [Nodes -> Int]
    BY <1>0, <1>6, SizesAssumption DEF MatchLocal, StartLocal
  <2>3. Cardinality(MatchedLocal(m)') \in Nat
    BY RequestSets DEF MatchedLocal
  <2>4. armedLocal'[m] + Cardinality(MatchedLocal(m)') = LocalThreads /\ armedLocal'[m] >= 0
    BY <1>0, <1>6, <2>1, SizesAssumption DEF CallsStayArmed, MatchLocal, StartLocal
  <2>5. armedLocal'[m] \in 0..LocalThreads
    BY <2>2, <2>3, <2>4, SizesAssumption
  <2>6. armedLocal' \in [Nodes -> 0..LocalThreads]
    BY <1>0, <2>1, <2>2, <2>5
  <2>7. PICK s \in SubStates : sub' = [sub EXCEPT ![r][m] = s]
    BY <1>6 DEF MatchLocal, StartLocal
  <2>8. sub' \in [Requests -> [Nodes -> SubStates]]
    BY <1>0, <2>7, SubMoves
  <2> QED
    BY <1>0, <1>6, <2>6, <2>8 DEF MatchLocal, StartLocal
<1>7. ASSUME NEW r \in Requests, NEW m \in Nodes, FinishLocal(r, m) PROVE TypeOK'
  <2>1. PICK ok \in BOOLEAN :
          /\ sub' = [sub EXCEPT ![r][m] = IF ok THEN "replied" ELSE "failed"]
          /\ finish' = finish \cup {[at |-> m, request |-> r, local |-> TRUE, ok |-> ok]}
    BY <1>7 DEF FinishLocal, FinishVerdicts
  <2>2. [at |-> m, request |-> r, local |-> TRUE, ok |-> ok] \in FinishEvents
    BY DEF FinishEvents
  <2>3. sub' \in [Requests -> [Nodes -> SubStates]]
    BY <1>0, <2>1
  <2> QED
    BY <1>0, <1>7, <2>1, <2>2, <2>3 DEF FinishLocal
<1>8. ASSUME NEW e \in finish, DeleteCall(e) \/ AbortNode(e) PROVE TypeOK'
  BY <1>0, <1>8 DEF DeleteCall, AbortNode
<1>9. ASSUME NEW p \in Processes, Crash(p) PROVE TypeOK'
  BY <1>0, <1>9 DEF Crash
<1>10. CASE UNCHANGED vars
  BY <1>0, <1>10 DEF vars
<1> QED
  BY <1>1, <1>2, <1>3, <1>4, <1>5, <1>6, <1>7, <1>8, <1>9, <1>10
  DEF Next, SearchStep, LocalStep

-----------------------------------------------------------------------------
(* The rest of the invariant. *)

LEMMA ProgressStep == IInv /\ [Next]_vars => Progress'
<1> SUFFICES ASSUME IInv, [Next]_vars PROVE Progress'
  OBVIOUS
<1> USE DEF IInv, TypeOK, Progress
<1>1. ASSUME NEW r \in Requests, NEW n \in Nodes, Forward(r, n) PROVE Progress'
  BY <1>1 DEF Forward
<1>2. ASSUME NEW r \in Requests, ForwardAnswer(r) \/ ForwardError(r) PROVE Progress'
  BY <1>2 DEF ForwardAnswer, ForwardError
<1>3. ASSUME NEW r \in Requests, MatchSearch(r) \/ StartSearch(r) PROVE Progress'
  BY <1>3 DEF MatchSearch, StartSearch
<1>4. ASSUME NEW r \in Requests, FinishSearch(r) PROVE Progress'
  BY <1>4 DEF FinishSearch
<1>5. ASSUME NEW r \in Requests, NEW m \in Nodes, LocalStep(r, m) PROVE Progress'
  <2>1. /\ UNCHANGED <<home, search, outcome>>
        /\ \A q \in Requests, k \in Nodes : sub[q][k] = "none" => sub'[q][k] = "none"
    BY <1>5 DEF LocalStep, SendLocal, MatchLocal, StartLocal, FinishLocal, ReceiveLocal, FailLocal
  <2> QED
    BY <2>1
<1>6. ASSUME NEW e \in finish, DeleteCall(e) \/ AbortNode(e) PROVE Progress'
  BY <1>6 DEF DeleteCall, AbortNode
<1>7. ASSUME NEW p \in Processes, Crash(p) PROVE Progress'
  BY <1>7 DEF Crash
<1>8. CASE UNCHANGED vars
  BY <1>8 DEF vars
<1> QED
  BY <1>1, <1>2, <1>3, <1>4, <1>5, <1>6, <1>7, <1>8 DEF Next, SearchStep

LEMMA JoiningStep == IInv /\ [Next]_vars => Joining'
<1> SUFFICES ASSUME IInv, [Next]_vars PROVE Joining'
  OBVIOUS
<1> USE DEF IInv, TypeOK, Joining, InFlight
<1>1. ASSUME NEW r \in Requests, NEW n \in Nodes, Forward(r, n) PROVE Joining'
  BY <1>1 DEF Forward
<1>2. ASSUME NEW r \in Requests, ForwardAnswer(r) \/ ForwardError(r) PROVE Joining'
  BY <1>2 DEF ForwardAnswer, ForwardError
<1>3. ASSUME NEW r \in Requests, MatchSearch(r) \/ StartSearch(r) PROVE Joining'
  BY <1>3 DEF MatchSearch, StartSearch
<1>4. ASSUME NEW r \in Requests, FinishSearch(r) PROVE Joining'
  <2>1. \A m \in Nodes : sub[r][m] \notin InFlight
    BY <1>4 DEF FinishSearch, Ready
  <2>2. UNCHANGED sub /\ \A q \in Requests : q # r => search'[q] = search[q]
    BY <1>4 DEF FinishSearch
  <2> QED
    BY <2>1, <2>2
<1>5. ASSUME NEW r \in Requests, NEW m \in Nodes, LocalStep(r, m) PROVE Joining'
  <2>1. /\ UNCHANGED search
        /\ sub[r][m] \in InFlight
        /\ \A q \in Requests, k \in Nodes : q # r \/ k # m => sub'[q][k] = sub[q][k]
    BY <1>5 DEF LocalStep, SendLocal, MatchLocal, StartLocal, FinishLocal, ReceiveLocal, FailLocal
  <2> QED
    BY <2>1
<1>6. ASSUME NEW e \in finish, DeleteCall(e) \/ AbortNode(e) PROVE Joining'
  BY <1>6 DEF DeleteCall, AbortNode
<1>7. ASSUME NEW p \in Processes, Crash(p) PROVE Joining'
  BY <1>7 DEF Crash
<1>8. CASE UNCHANGED vars
  BY <1>8 DEF vars
<1> QED
  BY <1>1, <1>2, <1>3, <1>4, <1>5, <1>6, <1>7, <1>8 DEF Next, SearchStep

\* Nodes only go down, and a failed sub-request is that of a node that is.
LEMMA CoveredStep == IInv /\ [Next]_vars => Covered'
<1> SUFFICES ASSUME IInv, [Next]_vars PROVE Covered'
  OBVIOUS
<1> USE DEF IInv, TypeOK, Covered
<1>1. ASSUME NEW r \in Requests, NEW n \in Nodes, Forward(r, n) PROVE Covered'
  <2>1. \A m \in Nodes : sub[r][m] = "none"
    BY <1>1 DEF Forward, Progress
  <2> QED
    BY <1>1, <2>1 DEF Forward
<1>2. ASSUME NEW r \in Requests, ForwardAnswer(r) \/ ForwardError(r) PROVE Covered'
  BY <1>2 DEF ForwardAnswer, ForwardError
<1>3. ASSUME NEW r \in Requests, MatchSearch(r) \/ StartSearch(r) PROVE Covered'
  <2>1. /\ UNCHANGED <<up, home, parts>>
        /\ \A q \in Requests : search'[q] = "replied" => search[q] = "replied"
    BY <1>3 DEF MatchSearch, StartSearch
  <2>2. \A q \in Requests, m \in Nodes : sub'[q][m] = "failed" => sub[q][m] = "failed"
    BY <1>3 DEF MatchSearch, StartSearch, Submitted
  <2> QED
    BY <2>1, <2>2
<1>4. ASSUME NEW r \in Requests, FinishSearch(r) PROVE Covered'
  <2>1. UNCHANGED <<up, home, sub>>
        /\ \A q \in Requests : q # r => search'[q] = search[q] /\ parts'[q] = parts[q]
    BY <1>4 DEF FinishSearch
  <2>2. parts'[r] = Replies(r)
    BY <1>4 DEF FinishSearch
  <2>3. Nodes \cap up \subseteq Replies(r)
    BY <1>4 DEF FinishSearch, Ready, Replies
  <2> QED
    BY <2>1, <2>2, <2>3
<1>5. ASSUME NEW r \in Requests, NEW m \in Nodes, LocalStep(r, m) PROVE Covered'
  <2>1. /\ UNCHANGED <<up, home, search, parts>>
        /\ \A q \in Requests, k \in Nodes : q # r \/ k # m => sub'[q][k] = sub[q][k]
    BY <1>5 DEF LocalStep, SendLocal, MatchLocal, StartLocal, FinishLocal, ReceiveLocal, FailLocal
  <2>2. home[r] \in up /\ sub'[r][m] = "failed" => m \notin up
    <3>1. ASSUME FinishLocal(r, m), home[r] \in up PROVE sub'[r][m] = "replied"
      BY <3>1 DEF FinishLocal, FinishVerdicts
    <3>2. ASSUME FailLocal(r, m) PROVE m \notin up
      BY <3>2 DEF FailLocal
    <3>3. ASSUME SendLocal(r, m) \/ MatchLocal(r, m) \/ StartLocal(r, m) \/ ReceiveLocal(r, m)
          PROVE  sub'[r][m] # "failed"
      BY <3>3 DEF SendLocal, MatchLocal, StartLocal, ReceiveLocal
    <3> QED
      BY <1>5, <3>1, <3>2, <3>3 DEF LocalStep
  <2> QED
    BY <2>1, <2>2
<1>6. ASSUME NEW e \in finish, DeleteCall(e) \/ AbortNode(e) PROVE Covered'
  BY <1>6 DEF DeleteCall, AbortNode
<1>7. ASSUME NEW p \in Processes, Crash(p) PROVE Covered'
  BY <1>7 DEF Crash
<1>8. CASE UNCHANGED vars
  BY <1>8 DEF vars
<1> QED
  BY <1>1, <1>2, <1>3, <1>4, <1>5, <1>6, <1>7, <1>8 DEF Next, SearchStep

LEMMA InvStep == IInv /\ [Next]_vars => IInv'
BY ArmedStep, TypeStep, ProgressStep, JoiningStep, CoveredStep DEF IInv

LEMMA Invariance == Spec => []IInv
BY InvInit, InvStep, PTL DEF Spec

-----------------------------------------------------------------------------
(* What follows. *)

\* Every variable keeps its type; in particular a node never has more call
\* objects waiting than it made when it started (async_server.h:43-55).
THEOREM ServiceTypes == Spec => []TypeOK
<1>1. IInv => TypeOK
  BY DEF IInv
<1> QED
  BY <1>1, Invariance, PTL

\* A task of the pool that may still write to resp_local finds it there: the
\* search has not left doSearch (server.cc:268-273).
THEOREM NoDanglingReply == Spec => []RepliesOutlived
<1>1. IInv => RepliesOutlived
  BY DEF IInv, Joining, RepliesOutlived
<1> QED
  BY <1>1, Invariance, PTL

\* No interleaving of calls leaves a node that is up without call objects
\* (async_server.h:95, 131).
THEOREM NeverDisarmed == Spec => []CallsStayArmed
<1>1. IInv => CallsStayArmed
  BY DEF IInv
<1> QED
  BY <1>1, Invariance, PTL

-----------------------------------------------------------------------------
(* The pool. *)

\* Each search in doSearch has a thread of cq1.
ThreadsHeld == \A n \in Nodes : Cardinality(Searching(n)) <= SearchThreads

LEMMA ThreadsHeldInit == Init => ThreadsHeld
<1> SUFFICES ASSUME Init, NEW n \in Nodes PROVE Cardinality(Searching(n)) <= SearchThreads
  BY DEF ThreadsHeld
<1>1. Searching(n) = {}
  BY DEF Init, Searching
<1> QED
  BY <1>1, FS_EmptySet, SizesAssumption

\* No step but StartSearch sets a search running, and none moves it.
LEMMA SearchingShrinks ==
  ASSUME ThreadsHeld,
         \A r \in Requests : search'[r] = "running" =>
           search[r] = "running" /\ home'[r] = home[r]
  PROVE  ThreadsHeld'
<1> SUFFICES ASSUME NEW n \in Nodes PROVE Cardinality(Searching(n)') <= SearchThreads
  BY DEF ThreadsHeld
<1>1. Searching(n)' \subseteq Searching(n) /\ Searching(n) \subseteq Requests
  BY DEF Searching
<1>2. Cardinality(Searching(n)') <= Cardinality(Searching(n))
  BY <1>1, RequestSets, FS_Subset
<1>3. Cardinality(Searching(n)) \in Nat /\ Cardinality(Searching(n)') \in Nat
  BY <1>1, RequestSets
<1>4. Cardinality(Searching(n)) <= SearchThreads
  BY DEF ThreadsHeld
<1> QED
  BY <1>2, <1>3, <1>4, SizesAssumption

LEMMA ThreadsHeldStep == IInv /\ ThreadsHeld /\ [Next]_vars => ThreadsHeld'
<1> SUFFICES ASSUME IInv, ThreadsHeld, [Next]_vars PROVE ThreadsHeld'
  OBVIOUS
<1> USE DEF IInv, TypeOK
<1>1. ASSUME NEW r \in Requests, NEW n \in Nodes, Forward(r, n) PROVE ThreadsHeld'
  BY <1>1, SearchingShrinks DEF Forward
<1>2. ASSUME NEW r \in Requests,
             ForwardAnswer(r) \/ ForwardError(r) \/ MatchSearch(r)
      PROVE  ThreadsHeld'
  BY <1>2, SearchingShrinks DEF ForwardAnswer, ForwardError, MatchSearch
<1>3. ASSUME NEW r \in Requests, StartSearch(r) PROVE ThreadsHeld'
  <2> SUFFICES ASSUME NEW n \in Nodes PROVE Cardinality(Searching(n)') <= SearchThreads
    BY DEF ThreadsHeld
  <2>1. CASE n = home[r]
    <3>1. Searching(n)' = Searching(n) \cup {r} /\ r \notin Searching(n)
      BY <1>3, <2>1 DEF StartSearch, Searching
    <3>2. Cardinality(Searching(n)') = Cardinality(Searching(n)) + 1
      BY <3>1, OneMore DEF Searching
    <3>3. Cardinality(Searching(n)) < SearchThreads
      BY <1>3, <2>1 DEF StartSearch, SearchThreadFree
    <3>4. Cardinality(Searching(n)) \in Nat
      BY RequestSets DEF Searching
    <3> QED
      BY <3>2, <3>3, <3>4, SizesAssumption
  <2>2. CASE n # home[r]
    <3>1. Searching(n)' = Searching(n)
      BY <1>3, <2>2 DEF StartSearch, Searching
    <3> QED
      BY <3>1 DEF ThreadsHeld
  <2> QED
    BY <2>1, <2>2
<1>4. ASSUME NEW r \in Requests, FinishSearch(r) PROVE ThreadsHeld'
  <2>1. UNCHANGED home /\ search'[r] # "running"
        /\ \A q \in Requests : q # r => search'[q] = search[q]
    BY <1>4 DEF FinishSearch
  <2> QED
    BY <2>1, SearchingShrinks
<1>5. ASSUME NEW r \in Requests, NEW m \in Nodes, LocalStep(r, m) PROVE ThreadsHeld'
  <2>1. UNCHANGED <<home, search>>
    BY <1>5 DEF LocalStep, SendLocal, MatchLocal, StartLocal, FinishLocal, ReceiveLocal, FailLocal
  <2> QED
    BY <2>1, SearchingShrinks
<1>6. ASSUME NEW e \in finish, DeleteCall(e) \/ AbortNode(e) PROVE ThreadsHeld'
  BY <1>6, SearchingShrinks DEF DeleteCall, AbortNode
<1>7. ASSUME NEW p \in Processes, Crash(p) PROVE ThreadsHeld'
  BY <1>7, SearchingShrinks DEF Crash
<1>8. CASE UNCHANGED vars
  BY <1>8, SearchingShrinks DEF vars
<1> QED
  BY <1>1, <1>2, <1>3, <1>4, <1>5, <1>6, <1>7, <1>8 DEF Next, SearchStep

\* The tasks of a node's pool are sub-requests of the searches that hold a
\* thread there, at most one for each node.
LEMMA TasksBounded ==
  ASSUME Joining, ThreadsHeld, NEW n \in Nodes
  PROVE  Cardinality(PoolTasks(n, InFlight)) <= SearchThreads * Cardinality(Nodes)
<1> DEFINE All == Searching(n) \X Nodes
<1>1. Searching(n) \subseteq Requests /\ PoolTasks(n, InFlight) \subseteq All
  BY DEF Searching, PoolTasks, Joining
<1>2. IsFiniteSet(Searching(n)) /\ Cardinality(Searching(n)) \in Nat
  BY <1>1, RequestSets
<1>3. IsFiniteSet(Nodes) /\ Cardinality(Nodes) \in Nat
  BY ProcessesAssumption, FS_CardinalityType
<1>4. IsFiniteSet(All) /\ Cardinality(All) = Cardinality(Searching(n)) * Cardinality(Nodes)
  BY <1>2, <1>3, FS_Product
<1>5. /\ Cardinality(PoolTasks(n, InFlight)) <= Cardinality(All)
      /\ Cardinality(PoolTasks(n, InFlight)) \in Nat
  BY <1>1, <1>4, FS_Subset, FS_CardinalityType
<1>6. ASSUME NEW a \in Nat, NEW b \in Nat, NEW c \in Nat, a <= b PROVE a * c <= b * c
  BY <1>6
<1>7. Cardinality(Searching(n)) * Cardinality(Nodes) <= SearchThreads * Cardinality(Nodes)
  BY <1>2, <1>3, <1>6, SizesAssumption DEF ThreadsHeld
<1>8. ASSUME NEW a \in Nat, NEW b \in Nat, NEW c \in Nat PROVE a * c \in Nat /\ b * c \in Nat
  BY <1>8
<1> QED
  BY <1>2, <1>3, <1>4, <1>5, <1>7, <1>8, SizesAssumption

\* A pool with a thread for each sub-request of the searches that can be in
\* doSearch at once is never the bottleneck: 64 threads for 16 searches of 3
\* (server.cc:249, async_server.h:47).
THEOREM PoolSuffices ==
  ASSUME SearchThreads * Cardinality(Nodes) <= PoolSize
  PROVE  Spec => []PoolNeverSaturated
<1>1. IInv /\ ThreadsHeld => PoolNeverSaturated
  <2> SUFFICES ASSUME IInv, ThreadsHeld, NEW n \in Nodes
               PROVE  Cardinality(PoolTasks(n, InFlight)) <= PoolSize
    BY DEF PoolNeverSaturated
  <2>1. Cardinality(PoolTasks(n, InFlight)) <= SearchThreads * Cardinality(Nodes)
    BY TasksBounded DEF IInv
  <2>2. PoolTasks(n, InFlight) \subseteq Requests \X Nodes
    BY DEF PoolTasks
  <2>3. Cardinality(PoolTasks(n, InFlight)) \in Nat
    BY <2>2, ProcessesAssumption, FS_Product, FS_Subset, FS_CardinalityType
  <2>4. SearchThreads * Cardinality(Nodes) \in Nat
    BY ProcessesAssumption, FS_CardinalityType, SizesAssumption
  <2> QED
    BY <2>1, <2>3, <2>4, SizesAssumption
<1> QED
  BY <1>1, Invariance, ThreadsHeldInit, ThreadsHeldStep, PTL DEF Spec

-----------------------------------------------------------------------------
(* The refinement. *)

AnsweredParts == [r \in Requests |-> IF outcome[r] = "answered" THEN parts[r] ELSE {}]

LEMMA ApiInit == Init => Api!Init
<1> SUFFICES ASSUME Init PROVE Api!Init
  OBVIOUS
<1>1. AnsweredParts = [r \in Requests |-> {}]
  BY DEF Init, AnsweredParts
<1> QED
  BY <1>1 DEF Init, Api!Init, AnsweredParts

\* Whatever a node does on the way is hidden.
LEMMA ApiStutters ==
  ASSUME UNCHANGED <<up, outcome>>,
         \A r \in Requests : outcome[r] = "answered" => parts'[r] = parts[r]
  PROVE  UNCHANGED Api!apiVars
<1>1. AnsweredParts' = AnsweredParts
  BY DEF AnsweredParts
<1> QED
  BY <1>1 DEF Api!apiVars, AnsweredParts

LEMMA ApiStep == IInv /\ [Next]_vars => [Api!Next]_(Api!apiVars)
<1> SUFFICES ASSUME IInv, [Next]_vars PROVE [Api!Next]_(Api!apiVars)
  OBVIOUS
<1>0. TypeOK
  BY DEF IInv
<1>1. ASSUME NEW r \in Requests, ForwardAnswer(r) PROVE Api!Next
  <2>1. PICK ps \in SUBSET Nodes : ps = parts[r]
    BY <1>0 DEF TypeOK
  <2>2. Nodes \cap up \subseteq ps
    BY <1>1, <2>1 DEF ForwardAnswer, IInv, Covered
  <2>3. AnsweredParts' = [AnsweredParts EXCEPT ![r] = ps]
    BY <1>0, <1>1, <2>1 DEF ForwardAnswer, AnsweredParts, TypeOK
  <2>4. Api!Answer(r, ps)
    BY <1>1, <2>2, <2>3 DEF ForwardAnswer, Api!Answer, AnsweredParts
  <2> QED
    BY <2>4 DEF Api!Next
<1>2. ASSUME NEW r \in Requests, ForwardError(r) PROVE Api!Fail(r)
  <2>1. up # Processes
    BY <1>2 DEF ForwardError, IInv, Progress, Processes
  <2>2. AnsweredParts' = AnsweredParts
    BY <1>0, <1>2 DEF ForwardError, AnsweredParts, TypeOK
  <2> QED
    BY <1>2, <2>1, <2>2 DEF ForwardError, Api!Fail, AnsweredParts
<1>3. ASSUME NEW e \in finish, AbortNode(e) PROVE Api!GoDown(e.at)
  BY <1>3 DEF AbortNode, Api!GoDown
<1>4. ASSUME NEW p \in Processes, Crash(p) PROVE Api!GoDown(p) /\ p \in up
  BY <1>4 DEF Crash, Api!GoDown
<1>5. ASSUME NEW r \in Requests, FinishSearch(r) PROVE UNCHANGED Api!apiVars
  <2>1. outcome[r] # "answered"
    BY <1>5 DEF FinishSearch, IInv, Progress
  <2>2. \A q \in Requests : q # r => parts'[q] = parts[q]
    BY <1>0, <1>5 DEF FinishSearch, TypeOK
  <2> QED
    BY <1>5, <2>1, <2>2, ApiStutters DEF FinishSearch
<1>6. ASSUME NEW r \in Requests, NEW n \in Nodes, Forward(r, n) \/ LocalStep(r, n)
      PROVE  UNCHANGED Api!apiVars
  <2>1. UNCHANGED <<up, outcome, parts>>
    BY <1>6 DEF Forward, LocalStep, SendLocal, MatchLocal, StartLocal, FinishLocal,
                ReceiveLocal, FailLocal
  <2> QED
    BY <2>1, ApiStutters
<1>7. ASSUME NEW r \in Requests, MatchSearch(r) \/ StartSearch(r)
      PROVE  UNCHANGED Api!apiVars
  BY <1>7, ApiStutters DEF MatchSearch, StartSearch
<1>8. ASSUME NEW e \in finish, DeleteCall(e) PROVE UNCHANGED Api!apiVars
  BY <1>8, ApiStutters DEF DeleteCall
<1>9. CASE UNCHANGED vars
  BY <1>9, ApiStutters DEF vars
<1>10. ASSUME NEW e \in finish, AbortNode(e) PROVE Api!Next
  BY <1>3, <1>10 DEF Api!Next, AbortNode
<1> QED
  BY <1>1, <1>2, <1>4, <1>5, <1>6, <1>7, <1>8, <1>9, <1>10 DEF Next, SearchStep, Api!Next

\* For the callers of the balancer the system is SearchApi: each search ends
\* once; an answer is merged from the replies of every node that is up; an
\* error is seen only when a process is down (server.cc:257-276, balancer.cc:43).
THEOREM ServiceImplementsApi == Spec => ApiSpec
<1>1. Init => Api!Init
  BY ApiInit
<1>2. IInv /\ [Next]_vars => [Api!Next]_(Api!apiVars)
  BY ApiStep
<1> QED
  BY <1>1, <1>2, Invariance, PTL DEF Spec, ApiSpec, Api!Spec
=============================================================================
