----------------------------- MODULE MCAdSearch -----------------------------
(* Instances of AdSearch for TLC. *)
EXTENDS AdSearch

\* Keywords 1 and 3 belong to node 2 and keyword 2 to node 1.  A table holds
\* at most four rows: bids of 1, 2 and 3 at the least rate, which outrank each
\* other in a circle, or scores of 2, 2 and 6.
MCKeys == ((1..3) \X (1..3)) \ {<<2, 3>>, <<3, 2>>}
MCCircle == {[price |-> p, ctr |-> 1] : p \in 1..3}
MCTied == {[price |-> 1, ctr |-> 2], [price |-> 2, ctr |-> 1], [price |-> 3, ctr |-> 2]}

MCRows(key, offer) ==
  {[keyword |-> c[1], adgroup |-> c[2], price |-> offer[c].price, ctr |-> offer[c].ctr] :
     c \in key}

MCTables ==
  UNION {{MCRows(key, offer) : offer \in [key -> MCCircle] \cup [key -> MCTied]} :
           key \in {s \in SUBSET MCKeys : Cardinality(s) \in 3..4}}

MCQueries ==
  {[keywords |-> {1, 2, 3}, topn |-> 1],
   [keywords |-> {1, 2}, topn |-> 2]}
=============================================================================
