------------------------------ MODULE AdSearch ------------------------------
(***************************************************************************)
(* One search, from the rows of three partitions to the billed answer:     *)
(* doSearchLocal at every node (server.cc:278-338, with CalcAdgroupId of   *)
(* util.cc), the sub-requests that may fail (server.cc:257-273) and        *)
(* doSearchMerge (server.cc:166-247).                                      *)
(*                                                                         *)
(* The rows are those loaded from the data file whose hours include the    *)
(* request's (AdIndex models the loading and the hour filter).             *)
(***************************************************************************)
EXTENDS AdAuction, SequencesExt

CONSTANTS
  NumNodes,  \* 3 in the code
  Tables,    \* sets of rows the nodes may have loaded together
  Queries    \* requests: their keywords and topn

ASSUME NumNodesAssumption == NumNodes \in Nat \ {0}

Row == [keyword : Nat, adgroup : Nat, price : Nat, ctr : Nat \ {0}]

\* (keyword, adgroup_id) is the primary key of the data.
ASSUME TablesAssumption ==
  \A table \in Tables :
    /\ IsFiniteSet(table)
    /\ table \subseteq Row
    /\ \A x, y \in table : x.keyword = y.keyword /\ x.adgroup = y.adgroup => x = y

\* The largest int.
IntMax == 2147483647

\* topn is a uint64, and topn + 1 is narrowed to the int that TopN's
\* constructor takes (util.h:79, util.cc:53): below this bound it stays what
\* it is.
ASSUME QueriesAssumption ==
  Queries \subseteq [keywords : SUBSET Nat, topn : 0..(IntMax - 1)]

Nodes == 1..NumNodes

VARIABLES
  rows,      \* the rows of all nodes
  query,     \* the request
  reply,     \* resp_local: the entries of each node, in order
  answered,  \* nodes whose SearchLocal RPC has ended
  failed,    \* nodes whose SearchLocal RPC failed
  result,    \* result of doSearchMerge: what is billed
  response,  \* adgroup_ids and prices of the Response
  done       \* doSearch has returned

vars == <<rows, query, reply, answered, failed, result, response, done>>

TypeOK ==
  /\ rows \subseteq Row
  /\ query \in Queries
  /\ DOMAIN reply = Nodes
  /\ answered \subseteq Nodes /\ failed \subseteq answered
  /\ \A n \in Nodes : Len(reply[n]) <= query.topn + 1
  /\ Len(result) <= query.topn + 1
  /\ Len(response) <= query.topn
  /\ done \in BOOLEAN

Init ==
  /\ rows \in Tables
  /\ query \in Queries
  /\ reply = [n \in Nodes |-> <<>>]
  /\ answered = {}
  /\ failed = {}
  /\ result = <<>>
  /\ response = <<>>
  /\ done = FALSE

-----------------------------------------------------------------------------
(* SearchLocal. *)

\* hashKeyword(k) = k % 3 is kept by the node whose id is one more.
NodeOf(k) == (k % NumNodes) + 1

Entry(row) == [adgroup |-> row.adgroup, price |-> row.price, ctr |-> row.ctr]

Matches(k) == {r \in rows : r.keyword = k}

\* A bug HeapSize could have: room for the rows that are returned only.
HeapSizeTopn(q) == q.topn

\* TopN(int n): n is topn + 1, which fits an int (QueriesAssumption).
HeapSize(q) == q.topn + 1

\* A bug TopN could have: the heap keeps the lowest scores.
TopNOfLowest(candidates, n) ==
  {kept \in SUBSET candidates :
    /\ Cardinality(kept) = Shorter(n, Cardinality(candidates))
    /\ \A x \in kept, y \in candidates \ kept : Score(x) <= Score(y)}

\* The heap orders by score alone: what it keeps of equal scores depends on
\* the order of insertion, which an unstable sort decides.
TopN(candidates, n) ==
  {kept \in SUBSET candidates :
    /\ Cardinality(kept) = Shorter(n, Cardinality(candidates))
    /\ \A x \in kept, y \in candidates \ kept : Score(x) >= Score(y)}

\* Positions of the entries whose advertisement occurs for the first time.
Firsts(s) == {i \in DOMAIN s : \A j \in 1..(i - 1) : s[j].adgroup # s[i].adgroup}

\* The k-th smallest of a set of positions.
Nth(positions, k) ==
  CHOOSE i \in positions : Cardinality({j \in positions : j <= i}) = k

\* The first n entries of different advertisements, in order.
Dedup(s, n) ==
  [k \in 1..Shorter(n, Cardinality(Firsts(s))) |-> s[Nth(Firsts(s), k)]]

\* What std::sort may leave of items, given their entries.  It ends with an
\* insertion sort: no two neighbours are the wrong way round, also where the
\* comparator is no order (server.cc:302-312).
Sorts(entryOf) ==
  LET items == DOMAIN entryOf
      Follows(s) ==
        {x \in items : /\ x \notin Range(s)
                       /\ s # <<>> => ~Outranks(entryOf[x], entryOf[Last(s)])}
      sorted[k \in 0..Cardinality(items)] ==
        IF k = 0 THEN {<<>>}
        ELSE UNION {{Append(s, x) : x \in Follows(s)} : s \in sorted[k - 1]}
  IN  {[i \in DOMAIN s |-> entryOf[s[i]]] : s \in sorted[Cardinality(items)]}

\* The replies that doSearchLocal may give at a node.
LocalReplies(n) ==
  LET keywords == {k \in query.keywords : NodeOf(k) = n /\ Matches(k) # {}}
      heaps ==
        {kept \in [keywords -> SUBSET rows] :
           \A k \in keywords : kept[k] \in TopN(Matches(k), HeapSize(query))}
      preResults == {UNION {kept[k] : k \in keywords} : kept \in heaps}
  IN  {Dedup(sorted, query.topn + 1) :
         sorted \in UNION {Sorts([row \in found |-> Entry(row)]) : found \in preResults}}

SearchLocal(n) ==
  /\ n \notin answered
  /\ \E resp \in LocalReplies(n) : reply' = [reply EXCEPT ![n] = resp]
  /\ answered' = answered \cup {n}
  /\ UNCHANGED <<rows, query, failed, result, response, done>>

\* The failure is printed; the reply stays empty.
FailLocal(n) ==
  /\ n \notin answered
  /\ answered' = answered \cup {n}
  /\ failed' = failed \cup {n}
  /\ UNCHANGED <<rows, query, reply, result, response, done>>

-----------------------------------------------------------------------------
(* doSearchMerge. *)

\* A bug Prices could have: the last price is always the score.
PricesLastByScore(res, topn) ==
  [i \in DOMAIN res |->
     IF i = Len(res) THEN Score(res[i]) ELSE Round(Score(res[i + 1]), res[i].ctr)]

\* The price of entry topn + 1 is set to its score and never returned.
Prices(res, topn) ==
  [i \in DOMAIN res |->
     IF i < Len(res) THEN Round(Score(res[i + 1]), res[i].ctr)
     ELSE IF Len(res) <= topn THEN res[i].price ELSE Score(res[i])]

\* The entries that may be billed: topn of them, and the one after.
MergedReplies ==
  LET items == UNION {{<<n, i>> : i \in DOMAIN reply[n]} : n \in Nodes}
  IN  {Dedup(sorted, query.topn + 1) : sorted \in Sorts([x \in items |-> reply[x[1]][x[2]]])}

\* The first topn of them, each with what it pays.
Billed(res, topn) ==
  [i \in 1..Shorter(topn, Len(res)) |->
     [adgroup |-> res[i].adgroup, charge |-> Prices(res, topn)[i]]]

Merge ==
  /\ ~done
  /\ answered = Nodes
  /\ result' \in MergedReplies
  /\ response' = Billed(result', query.topn)
  /\ done' = TRUE
  /\ UNCHANGED <<rows, query, reply, answered, failed>>

Next ==
  \/ \E n \in Nodes : SearchLocal(n) \/ FailLocal(n)
  \/ Merge

Spec == Init /\ [][Next]_vars

-----------------------------------------------------------------------------
(* Correctness. *)

Wanted == {r \in rows : r.keyword \in query.keywords}
Reached == {r \in Wanted : NodeOf(r.keyword) \notin failed}
Adgroups(rs) == {r.adgroup : r \in rs}

\* (keyword, adgroup_id) is the primary key of the data.  What a ranking
\* leaves open are rows of a keyword with scores that count as equal, since
\* the heap of TopN compares scores only, and rows of an advertisement that
\* the comparator holds for equivalent.
NoTies ==
  \A x, y \in Reached :
    /\ x.keyword = y.keyword /\ Near(x, y) => x = y
    /\ x.adgroup = y.adgroup /\ Near(x, y) /\ x.price = y.price => Entry(x) = Entry(y)

Comparable == Graded({Entry(r) : r \in Reached})

\* Splitting by keyword, the bounded heaps, the two rounds of sorting and
\* removing duplicates, and the backward pass over the prices give what one
\* ranking of all the rows reached gives, while floatEqual's tolerance
\* (server.cc:54-56) leaves the comparator an order.
AnswerAsSpecified ==
  done /\ Comparable /\ NoTies =>
    response = Answer({Entry(r) : r \in Reached}, query.topn)

\* Whatever the heaps drop among ties, no place of the ranking is left empty,
\* and none goes to a score more than the tolerance below the best possible.
PlacesOptimal ==
  done =>
    /\ Len(response) = Shorter(query.topn, Cardinality(Adgroups(Reached)))
    /\ Comparable => \A i \in DOMAIN response :
         LET better == {r \in Reached : Score(r) > Score(result[i]) + Tolerance}
         IN  Cardinality(Adgroups(better)) < i

\* Nobody pays for a score more than the tolerance above their own, and so
\* nobody more than they bid for scores that are compared exactly, whichever
\* nodes failed and however the runner-up's score was rounded
\* (server.cc:220-245).
NeverOvercharged ==
  Comparable => \A i \in DOMAIN response :
    response[i].charge <= Round(Score(result[i]) + Tolerance, result[i].ctr)

\* alimama.proto:15-16: fewer than topn advertisements are returned only if
\* no more match.
FewerOnlyIfFewMatch ==
  done => Len(response) = Shorter(query.topn, Cardinality(Adgroups(Wanted)))
=============================================================================
