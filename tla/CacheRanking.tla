---------------------------- MODULE CacheRanking ----------------------------
(***************************************************************************)
(* The mapping under which the pointer structure of CacheSet implements    *)
(* the ranking of RankedSet.                                               *)
(***************************************************************************)
EXTENDS CacheSet

\* The lines L in the order in which the loops of the class meet them, which
\* follow the links N from the head.
Walk(L, N) ==
  LET w[k \in 1 .. Cardinality(L)] == N[IF k = 1 THEN head ELSE w[k - 1]] IN w

\* What a line holds; it is live when its tag leads to it.
Content(c) ==
  [addr |-> addr[c], freq |-> freq[c], dirty |-> dirty[c],
   live |-> addr_map[addr[c]] = c]

RankingOfList ==
  LET w == Walk(busy, next) IN [k \in 1 .. Cardinality(busy) |-> Content(w[k])]

Promise == INSTANCE RankedSet WITH ranking <- RankingOfList

\* The linked list with its pool and map implements the ranked set of tags:
\* every hit, fill, replacement, shootdown and flush of class CacheSet ranks,
\* counts and reports what the abstract set ranks, counts and reports.
ImplementsRankedSet == Promise!RSpec

=============================================================================
