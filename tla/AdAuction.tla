----------------------------- MODULE AdAuction ------------------------------
(***************************************************************************)
(* What a search computes, with no nodes, keyword index, heaps or merging: *)
(* the ranking of the advertisements that match, and what each pays.       *)
(*                                                                         *)
(* An entry is what a row contributes to a ranking once the request's      *)
(* context is known: its advertisement, its bid and its estimated          *)
(* click-through rate.  Rates are positive integers: a fixed-point scale   *)
(* in place of the program's floats, of which 0.000001 is the least        *)
(* (util.cc:29).  In it scores may differ a little and count as equal.     *)
(***************************************************************************)
EXTENDS Naturals, FiniteSets

CONSTANT Tolerance  \* the largest difference floatEqual takes for none

ASSUME ToleranceAssumption == Tolerance \in Nat

Score(e) == e.ctr * e.price

\* floatEqual of the scores.
Near(x, y) == Score(x) <= Score(y) + Tolerance /\ Score(y) <= Score(x) + Tolerance

\* Higher score first, then lower bid, then higher id (server.cc:193-194).
Outranks(x, y) ==
  \/ ~Near(x, y) /\ Score(x) > Score(y)
  \/ Near(x, y) /\ x.price < y.price
  \/ Near(x, y) /\ x.price = y.price /\ x.adgroup > y.adgroup

\* No chain of scores that count as equal joins two that do not: Outranks
\* is then an order.
Graded(entries) ==
  \A x, y, z \in entries : Near(x, y) /\ Near(y, z) => Near(x, z)

\* An advertisement that matches by several keywords competes once.
BestEntries(entries) ==
  {e \in entries : ~ \E f \in entries : f.adgroup = e.adgroup /\ Outranks(f, e)}

Ranking(entries) ==
  LET best == BestEntries(entries)
      Place(e) == 1 + Cardinality({f \in best : Outranks(f, e)})
  IN  [i \in 1..Cardinality(best) |-> CHOOSE e \in best : Place(e) = i]

\* std::round of a quotient of positive numbers.
Round(a, b) == (2 * a + b) \div (2 * b)

\* Everyone pays what keeps the place above the next one; the last of all
\* pays its own bid.
Charge(ranking, i) ==
  IF i + 1 \in DOMAIN ranking
  THEN Round(Score(ranking[i + 1]), ranking[i].ctr)
  ELSE ranking[i].price

Shorter(m, n) == IF m < n THEN m ELSE n

Answer(entries, topn) ==
  LET ranking == Ranking(entries)
  IN  [i \in 1..Shorter(topn, Cardinality(DOMAIN ranking)) |->
         [adgroup |-> ranking[i].adgroup, charge |-> Charge(ranking, i)]]
=============================================================================
