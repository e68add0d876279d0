----------------------------- MODULE MCAdIndex ------------------------------
(* Instances of AdIndex for TLC. *)
EXTENDS AdIndex

\* Of node 2: keywords 1 and 4.  Keyword 2 belongs to node 3.  The hours lie
\* at the ends and around the borders of the three bytes.
MCLines ==
  {[keyword |-> 1, adgroup |-> 1, price |-> 3, ctr |-> 2, status |-> 1, hours |-> {0, 8, 23}],
   [keyword |-> 1, adgroup |-> 2, price |-> 2, ctr |-> 3, status |-> 1, hours |-> {0, 7}],
   [keyword |-> 1, adgroup |-> 3, price |-> 9, ctr |-> 1, status |-> 1, hours |-> {0, 7, 16}],
   [keyword |-> 4, adgroup |-> 1, price |-> 5, ctr |-> 1, status |-> 1, hours |-> 0..23],
   [keyword |-> 4, adgroup |-> 2, price |-> 4, ctr |-> 1, status |-> 0, hours |-> 0..23],
   [keyword |-> 2, adgroup |-> 1, price |-> 7, ctr |-> 1, status |-> 1, hours |-> {0, 7}]}

\* Files of at most four lines, none of them twice.
MCFiles ==
  UNION {{f \in [1..n -> MCLines] : \A k, l \in 1..n : k # l => f[k] # f[l]} : n \in 0..4}

MCLookups ==
  {[keyword |-> k, hour |-> h, n |-> n] : k \in {1, 2, 4}, h \in {0, 7, 16, 23}, n \in {1, 2}}
=============================================================================
