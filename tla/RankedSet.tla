------------------------------ MODULE RankedSet -----------------------------
(***************************************************************************)
(* What one set of the functional cache promises to its clients: at most   *)
(* Associativity entries, ranked from the one to keep to the one to give   *)
(* up next.                                                                *)
(***************************************************************************)
EXTENDS Ranking

CONSTANTS Addr, Associativity, Policy, InsertAfterMissOnly, NULL

VARIABLES ranking, evicted

rvars == <<ranking, evicted>>

Fresh(a, isLoad) == [addr |-> a, freq |-> 0, dirty |-> ~isLoad, live |-> TRUE]

Report(e) == [addr |-> e.addr, dirty |-> e.dirty]

RInit ==
  /\ ranking = <<>>
  /\ evicted = NULL

Use(a, isLoad) ==
  /\ \E i \in Slots(ranking, a) :
       ranking' = Used(Policy, ranking, i,
                       [ranking[i] EXCEPT !.dirty = @ \/ ~isLoad])
  /\ evicted' = NULL

Insert(a, isLoad) ==
  /\ InsertAfterMissOnly => ~Hits(ranking, a)
  /\ ranking' = Inserted(Policy, Associativity, ranking, Fresh(a, isLoad))
  /\ evicted' = IF Full(ranking, Associativity) THEN Report(Last(ranking)) ELSE NULL

Drop(a) ==
  /\ \E i \in Slots(ranking, a) : evicted' = Report(ranking[i])
  /\ ranking' = Without(ranking, {a})

Clear ==
  /\ ranking' = <<>>
  /\ evicted' = NULL

RNext ==
  \/ \E a \in Addr, isLoad \in BOOLEAN : Use(a, isLoad) \/ Insert(a, isLoad)
  \/ \E a \in Addr : Drop(a)
  \/ Clear

RSpec == RInit /\ [][RNext]_rvars

=============================================================================
