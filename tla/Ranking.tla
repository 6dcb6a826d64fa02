------------------------------ MODULE Ranking -------------------------------
(***************************************************************************)
(* The contents of one set of the functional cache of src/pcc/tlb.h as a   *)
(* sequence of entries, the next victim last.  An entry has an addr (the   *)
(* tag), a freq, and is live when a hit on its tag leads to it: inserting  *)
(* a tag that is present leaves an orphan behind, which no hit and no      *)
(* evict() reaches and only replacement removes.  Entries may have further *)
(* fields.  RankedSet is the machine made of these operators, which        *)
(* CacheSet is proved to implement; Pcc composes four of them.             *)
(***************************************************************************)
EXTENDS Naturals, FiniteSets, Sequences, SequencesExt

CONSTANT MaxFreq        (* MAX_FREQ: a counter that reaches it decays all  *)

LRU == 0
LFU == 2

Slots(r, a) == {i \in DOMAIN r : r[i].addr = a /\ r[i].live}
Hits(r, a)  == Slots(r, a) # {}

\* The place an entry used f times takes: LRU ranks by the last use, LFU by
\* the number of uses, the later arrival first among equals.
Place(policy, r, f) ==
  IF policy = LRU THEN 1 ELSE 1 + Cardinality({i \in DOMAIN r : r[i].freq > f})

Halved(r)  == [i \in DOMAIN r |-> [r[i] EXCEPT !.freq = @ \div 2]]
Orphan(r, a) == [i \in DOMAIN r |-> [r[i] EXCEPT !.live = @ /\ r[i].addr # a]]

\* A hit on entry i, which becomes e but for its count.
Used(policy, r, i, e) ==
  LET f == r[i].freq
      s == InsertAt(RemoveAt(r, i), Place(policy, RemoveAt(r, i), f),
                    [e EXCEPT !.freq = f + 1])
  IN  IF f + 1 = MaxFreq THEN Halved(s) ELSE s

\* Mutant: the last free line is never used.
FullEarly(r, capacity) == Len(r) = capacity - 1

Full(r, capacity) == Len(r) = capacity

\* Mutant: a full set grows.
InsertedBeside(policy, capacity, r, e) ==
  InsertAt(Orphan(r, e.addr), Place(policy, r, 0), e)

\* A new entry e; the last entry of a full set goes, and with it the tag.
Inserted(policy, capacity, r, e) ==
  LET kept == IF Full(r, capacity) THEN Orphan(Front(r), Last(r).addr) ELSE r
      s    == Orphan(kept, e.addr)
  IN  InsertAt(s, Place(policy, s, 0), e)

\* The entries that evict() of the tags A leaves: all but the live ones of A.
Staying(r, A) == {i \in DOMAIN r : ~(r[i].live /\ r[i].addr \in A)}

\* evict() of the tags A: the k-th entry is the k-th that stays.
Without(r, A) ==
  LET stay   == Staying(r, A)
      nth(k) == CHOOSE i \in stay : Cardinality({j \in stay : j <= i}) = k
  IN  [k \in 1 .. Cardinality(stay) |-> r[nth(k)]]

=============================================================================
