----------------------------- MODULE Pcc_proofs ------------------------------
(***************************************************************************)
(* Proofs about Pcc, for every trace, every size of the caches and every   *)
(* interval.                                                               *)
(***************************************************************************)
EXTENDS Pcc, Places_proofs

USE FreqAssumption, TraceAssumption, SizeAssumption

Entries == [addr : Nat, freq : 0 .. MaxFreq - 1, live : BOOLEAN, off : Nat, huge : BOOLEAN]

-----------------------------------------------------------------------------
(* The parts of the invariant, of the caches and maps s. *)

Fits(c, size) == c \in Seq(Entries) /\ Len(c) <= size

\* Every entry is live and has its tag to itself.
Single(c) == \A i, j \in DOMAIN c : c[i].live /\ (c[i].addr = c[j].addr => i = j)

Cached(s) ==
  /\ Fits(s.l1_4k, L1Assoc)
  /\ Fits(s.l1_2m, L1Assoc) /\ Single(s.l1_2m)
  /\ Fits(s.l2, L2Assoc) /\ Single(s.l2)
  /\ Fits(s.pcc, PromotionSize) /\ Single(s.pcc)

Mapped(s) ==
  /\ \A k \in DOMAIN s.reuse : k \in Nat /\ s.reuse[k] \in {"cold", "timed"}
  /\ s.promotions \subseteq Nat

Keyed(s) ==
  \A i \in DOMAIN s.pcc :
    \/ s.pcc[i].addr \in (s.measured \ s.promotions) \cap DOMAIN s.reuse
    \/ \E b \in s.measured \cap s.promotions : s.pcc[i].addr = Region(b)

\* No page of the trace has the number of a region of the trace, with which it
\* would be confused in the L2 TLB.
Apart == \A p, q \in Trace : p # Region(q)

\* A 2M entry of either level is of a promoted region, a 4K entry is of a page.
Tagged(s) ==
  /\ \A i \in DOMAIN s.l1_2m : s.l1_2m[i].addr \in s.promotions
  /\ \A i \in DOMAIN s.l2 :
       IF s.l2[i].huge THEN s.l2[i].addr \in s.promotions ELSE s.l2[i].addr \in Trace

Sound(s) == Cached(s) /\ Mapped(s) /\ Keyed(s) /\ (Apart => Tagged(s))

IInv ==
  /\ Sound(Current)
  /\ evicted_addr \in Nat \cup {-1}
  /\ accesses \in 0 .. Period - 1

-----------------------------------------------------------------------------
(* The operations on a cache: what becomes of its entries. *)

\* A place is one of the sequence, or the one behind it.
LEMMA PlaceIsAPlace ==
  ASSUME NEW E, NEW r \in Seq(E), NEW policy, NEW f
  PROVE  Place(policy, r, f) \in 1 .. Len(r) + 1
<1>0. Len(r) \in Nat /\ DOMAIN r = 1 .. Len(r)
  BY LenProperties
<1>1. /\ Len(r) \in Nat
      /\ IsFiniteSet(DOMAIN r) /\ Cardinality(DOMAIN r) = Len(r)
  <2> DEFINE n == Len(r)
  <2>1. n \in Nat /\ DOMAIN r = 1 .. n
    BY <1>0
  <2> HIDE DEF n
  <2>2. IsFiniteSet(1 .. n) /\ Cardinality(1 .. n) = n
    BY <2>1, FS_Interval
  <2>3. QED
    BY <2>1, <2>2 DEF n
<1> DEFINE above == {i \in DOMAIN r : r[i].freq > f}
<1>2. Cardinality(above) \in 0 .. Len(r)
  <2>1. IsFiniteSet(above) /\ Cardinality(above) <= Len(r)
    BY <1>1, FS_Subset
  <2>2. QED
    BY <1>1, <2>1, FS_CardinalityType
<1>3. QED
  BY <1>1, <1>2 DEF Place

\* evict() keeps the entries of the places that stay.
LEMMA WithoutReads ==
  ASSUME NEW E, NEW r \in Seq(E), NEW A
  PROVE  LET s == Without(r, A) IN
         /\ s \in Seq(E) /\ Len(s) <= Len(r)
         /\ \E at \in [DOMAIN s -> Staying(r, A)] :
              \A k \in DOMAIN s : s[k] = r[at[k]] /\ UpTo(Staying(r, A), at[k]) = k
<1>1. Without(r, A) = Kept(r, Staying(r, A))
  BY DEF Without, Kept, UpTo
<1>2. Staying(r, A) \in SUBSET DOMAIN r
  BY DEF Staying
<1> DEFINE S == Staying(r, A)
           s == Kept(r, S)
<1> HIDE DEF S
<1>3. /\ s \in Seq(E) /\ Len(s) <= Len(r)
      /\ \E at \in [DOMAIN s -> S] :
           \A k \in DOMAIN s : s[k] = r[at[k]] /\ UpTo(S, at[k]) = k
  BY <1>2, KeptReads DEF S
<1>4. QED
  BY <1>1, <1>3 DEF S

\* The entries of s are entries of c, no two of them the same one.
Drawn(s, c) ==
  \E from \in [DOMAIN s -> DOMAIN c] :
    /\ \A k, m \in DOMAIN s : from[k] = from[m] => k = m
    /\ \A k \in DOMAIN s : /\ s[k].addr = c[from[k]].addr
                           /\ s[k].live = c[from[k]].live
                           /\ s[k].huge = c[from[k]].huge

LEMMA DrawnIsSingle ==
  ASSUME NEW s, NEW c, Drawn(s, c), Single(c)
  PROVE  Single(s)
<1>1. PICK from \in [DOMAIN s -> DOMAIN c] :
        /\ \A k, m \in DOMAIN s : from[k] = from[m] => k = m
        /\ \A k \in DOMAIN s : /\ s[k].addr = c[from[k]].addr
                               /\ s[k].live = c[from[k]].live
                               /\ s[k].huge = c[from[k]].huge
  BY DEF Drawn
<1>2. QED
  BY <1>1 DEF Single

\* What every operation but Inserted does with a place of the result.
LEMMA DrawnReads ==
  ASSUME NEW s, NEW c, Drawn(s, c), NEW k \in DOMAIN s
  PROVE  \E i \in DOMAIN c : /\ s[k].addr = c[i].addr
                             /\ s[k].live = c[i].live
                             /\ s[k].huge = c[i].huge
BY DEF Drawn

LEMMA FitsReads ==
  ASSUME NEW size, NEW c, Fits(c, size)
  PROVE  /\ Len(c) \in Nat /\ Len(c) <= size /\ DOMAIN c = 1 .. Len(c)
         /\ \A i \in 1 .. Len(c) : c[i] \in Entries
<1>1. c \in Seq(Entries) /\ Len(c) <= size
  BY DEF Fits
<1>2. QED
  BY <1>1, LenProperties, ElementOfSeq

LEMMA SlotIsAPlace ==
  ASSUME NEW size, NEW c, Fits(c, size), NEW a, Hits(c, a)
  PROVE  LET i == CHOOSE i \in Slots(c, a) : TRUE IN
         i \in 1 .. Len(c) /\ c[i].addr = a /\ c[i].live
<1>1. DOMAIN c = 1 .. Len(c)
  BY FitsReads
<1>2. (CHOOSE i \in Slots(c, a) : TRUE) \in Slots(c, a)
  BY DEF Hits
<1>3. QED
  BY <1>1, <1>2 DEF Slots

\* A TLB that is touched has the entries it had.
LEMMA TouchedFits ==
  ASSUME NEW size, NEW c, Fits(c, size), NEW a
  PROVE  Fits(TouchTLB(c, a), size) /\ Drawn(TouchTLB(c, a), c)
<1>0. /\ Len(c) \in Nat /\ Len(c) <= size /\ DOMAIN c = 1 .. Len(c)
      /\ \A i \in 1 .. Len(c) : c[i] \in Entries
  BY FitsReads
<1>1. CASE ~ Hits(c, a)
  <2>1. TouchTLB(c, a) = c
    BY <1>1 DEF TouchTLB
  <2>2. Drawn(c, c)
    <3>1. [k \in DOMAIN c |-> k] \in [DOMAIN c -> DOMAIN c]
      OBVIOUS
    <3>2. QED
      BY <3>1 DEF Drawn
  <2>3. QED
    BY <2>1, <2>2
<1>2. CASE Hits(c, a)
  <2> DEFINE i == CHOOSE i \in Slots(c, a) : TRUE
             t == RemoveAt(c, i)
             s == <<c[i]>> \o t
  <2>1. i \in 1 .. Len(c)
    BY <1>2, SlotIsAPlace
  <2>2. TouchTLB(c, a) = s
    BY <1>2 DEF TouchTLB
  <2> HIDE DEF i
  <2>3. /\ t \in Seq(Entries) /\ Len(t) = Len(c) - 1
        /\ \A k \in 1 .. Len(c) - 1 : t[k] = IF k < i THEN c[k] ELSE c[k + 1]
    BY <2>1, RemoveAtReads DEF Fits
  <2>4. <<c[i]>> \in Seq(Entries) /\ Len(<<c[i]>>) = 1 /\ <<c[i]>>[1] = c[i]
    BY <1>0, <2>1
  <2> HIDE DEF t
  <2>5. /\ s \in Seq(Entries) /\ Len(s) = 1 + Len(t)
        /\ \A k \in 1 .. 1 + Len(t) : s[k] = IF k <= 1 THEN <<c[i]>>[k] ELSE t[k - 1]
    BY <2>3, <2>4, ConcatProperties
  <2> HIDE DEF s
  <2>6. Len(s) = Len(c) /\ DOMAIN s = 1 .. Len(c)
    <3>1. Len(s) = Len(c)
      <4>1. Len(c) \in Nat /\ Len(s) = 1 + Len(t) /\ Len(t) = Len(c) - 1
        BY <1>0, <2>3, <2>5
      <4>2. QED
        BY <4>1
    <3>2. DOMAIN s = 1 .. Len(s)
      BY <2>5, LenProperties
    <3>3. QED
      BY <3>1, <3>2
  <2> DEFINE from == [k \in 1 .. Len(c) |-> IF k = 1 THEN i ELSE IF k - 1 < i THEN k - 1 ELSE k]
  <2>7. from \in [DOMAIN s -> DOMAIN c]
    BY <1>0, <2>1, <2>6
  <2>8. \A k, m \in DOMAIN s : from[k] = from[m] => k = m
    BY <1>0, <2>1, <2>6
  <2>9. ASSUME NEW k \in DOMAIN s PROVE s[k] = c[from[k]]
    <3>1. CASE k = 1
      BY <2>4, <2>5, <2>6, <3>1
    <3>2. CASE k # 1
      <4>1. k \in 1 .. 1 + Len(t) /\ ~ (k <= 1) /\ k - 1 \in 1 .. Len(c) - 1
        BY <1>0, <2>3, <2>6, <3>2
      <4>2. s[k] = t[k - 1]
        BY <2>5, <4>1
      <4>3. (k - 1) + 1 = k
        BY <4>1
      <4>4. t[k - 1] = IF k - 1 < i THEN c[k - 1] ELSE c[k]
        BY <2>3, <4>1, <4>3
      <4>5. QED
        BY <2>6, <3>2, <4>2, <4>4
    <3>3. QED
      BY <3>1, <3>2
  <2> HIDE DEF from
  <2>10. Drawn(s, c)
    BY <2>7, <2>8, <2>9 DEF Drawn
  <2>11. QED
    BY <1>0, <2>2, <2>5, <2>6, <2>10 DEF Fits
<1>3. QED
  BY <1>1, <1>2

\* evict() leaves entries that were there, and none that is live of the tags A.
LEMMA WithoutFits ==
  ASSUME NEW size \in Nat, NEW c, Fits(c, size), NEW A
  PROVE  /\ Fits(Without(c, A), size) /\ Drawn(Without(c, A), c)
         /\ \A k \in DOMAIN Without(c, A) :
              ~ (Without(c, A)[k].live /\ Without(c, A)[k].addr \in A)
<1> DEFINE s == Without(c, A)
           S == Staying(c, A)
<1>0. Len(c) \in Nat /\ Len(c) <= size /\ DOMAIN c = 1 .. Len(c) /\ c \in Seq(Entries)
  BY FitsReads DEF Fits
<1>1. s \in Seq(Entries) /\ Len(s) <= Len(c)
  BY <1>0, WithoutReads
<1>2. PICK at \in [DOMAIN s -> S] :
        \A k \in DOMAIN s : s[k] = c[at[k]] /\ UpTo(S, at[k]) = k
  BY <1>0, WithoutReads
<1>3. \A i \in S : i \in DOMAIN c /\ ~ (c[i].live /\ c[i].addr \in A)
  BY DEF Staying
<1> HIDE DEF s, S
<1>4. at \in [DOMAIN s -> DOMAIN c]
  BY <1>2, <1>3
<1>5. \A k, m \in DOMAIN s : at[k] = at[m] => k = m
  BY <1>2
<1>6. Drawn(s, c)
  BY <1>2, <1>4, <1>5 DEF Drawn
<1>7. \A k \in DOMAIN s : ~ (s[k].live /\ s[k].addr \in A)
  BY <1>2, <1>3
<1>8. Len(s) \in Nat
  BY <1>1, LenProperties
<1>9. Fits(s, size)
  BY <1>0, <1>1, <1>8 DEF Fits
<1>10. QED
  BY <1>6, <1>7, <1>9 DEF s

\* A new entry takes a place of its own; the others stay in order, the last one
\* of a full cache goes, and who has its tag or the new one is an orphan.
Entered(s, c, size, e) ==
  \E from \in [DOMAIN s -> 0 .. Len(c)] :
    /\ \A k, m \in DOMAIN s : from[k] = from[m] => k = m
    /\ \A k \in DOMAIN s : from[k] = 0 => s[k] = e
    /\ \A k \in DOMAIN s : from[k] # 0 =>
         /\ s[k].addr = c[from[k]].addr
         /\ s[k].huge = c[from[k]].huge
         /\ s[k].live = /\ c[from[k]].live
                        /\ c[from[k]].addr # e.addr
                        /\ Full(c, size) => c[from[k]].addr # Last(c).addr
    /\ Full(c, size) => \A k \in DOMAIN s : from[k] # Len(c)

LEMMA InsertedReads ==
  ASSUME NEW size \in Nat \ {0}, NEW c, Fits(c, size), NEW e \in Entries, NEW policy
  PROVE  LET s == Inserted(policy, size, c, e) IN Fits(s, size) /\ Entered(s, c, size, e)
<1> DEFINE n    == IF Full(c, size) THEN Len(c) - 1 ELSE Len(c)
           kept == IF Full(c, size) THEN Orphan(Front(c), Last(c).addr) ELSE c
           t    == Orphan(kept, e.addr)
           p    == Place(policy, t, 0)
           s    == InsertAt(t, p, e)
<1>0. /\ Len(c) \in Nat /\ Len(c) <= size /\ DOMAIN c = 1 .. Len(c)
      /\ \A i \in 1 .. Len(c) : c[i] \in Entries
      /\ c \in Seq(Entries)
  BY FitsReads DEF Fits
<1>1. n \in Nat /\ n + 1 <= size /\ n <= Len(c)
  <2>1. Len(c) \in Nat /\ Len(c) <= size
    BY <1>0
  <2>2. QED
    BY <2>1 DEF Full
<1>2. /\ DOMAIN kept = 1 .. n
      /\ \A k \in 1 .. n :
           kept[k] = [c[k] EXCEPT !.live = @ /\ (Full(c, size) => c[k].addr # Last(c).addr)]
  <2>1. CASE Full(c, size)
    <3>1. /\ DOMAIN Front(c) = 1 .. n
          /\ \A k \in 1 .. n : Front(c)[k] = c[k]
      <4>1. Len(c) > 0
        BY <1>0, <2>1 DEF Full
      <4>2. /\ Front(c) \in Seq(Entries) /\ Len(Front(c)) = Len(c) - 1
            /\ \A k \in 1 .. Len(c) - 1 : Front(c)[k] = c[k]
        BY <1>0, <4>1, FrontReads
      <4>3. DOMAIN Front(c) = 1 .. Len(Front(c))
        BY <4>2, LenProperties
      <4>4. QED
        BY <2>1, <4>2, <4>3
    <3>2. QED
      BY <2>1, <3>1 DEF Orphan
  <2>2. CASE ~ Full(c, size)
    <3>1. \A k \in 1 .. Len(c) : [c[k] EXCEPT !.live = @ /\ TRUE] = c[k]
      BY <1>0 DEF Entries
    <3>2. kept = c /\ n = Len(c)
      BY <2>2
    <3>3. \A k \in 1 .. Len(c) : (Full(c, size) => c[k].addr # Last(c).addr) = TRUE
      BY <2>2
    <3> HIDE DEF kept, n
    <3>4. QED
      BY <1>0, <3>1, <3>2, <3>3
  <2>3. QED
    BY <2>1, <2>2
<1> HIDE DEF n, kept
<1>3. /\ t \in [1 .. n -> Entries]
      /\ \A k \in 1 .. n :
           /\ t[k].addr = c[k].addr /\ t[k].huge = c[k].huge
           /\ t[k].live = /\ c[k].live
                          /\ c[k].addr # e.addr
                          /\ Full(c, size) => c[k].addr # Last(c).addr
  <2>1. \A k \in 1 .. n : c[k] \in Entries
    BY <1>0, <1>1
  <2>2. DOMAIN t = 1 .. n /\ t = [k \in 1 .. n |-> t[k]]
    BY <1>2 DEF Orphan
  <2>3. \A k \in 1 .. n : t[k] = [kept[k] EXCEPT !.live = @ /\ kept[k].addr # e.addr]
    BY <1>2 DEF Orphan
  <2> HIDE DEF t
  <2>4. ASSUME NEW k \in 1 .. n
        PROVE  /\ t[k] \in Entries
               /\ t[k].addr = c[k].addr /\ t[k].huge = c[k].huge
               /\ t[k].live = /\ c[k].live
                              /\ c[k].addr # e.addr
                              /\ Full(c, size) => c[k].addr # Last(c).addr
    <3>1. c[k] \in Entries
      BY <2>1
    <3>2. /\ kept[k] \in Entries
          /\ kept[k].addr = c[k].addr /\ kept[k].huge = c[k].huge
          /\ kept[k].live = (c[k].live /\ (Full(c, size) => c[k].addr # Last(c).addr))
      BY <1>2, <3>1 DEF Entries
    <3>3. QED
      BY <2>3, <3>2 DEF Entries
  <2>5. QED
    BY <2>2, <2>4
<1>4. t \in Seq(Entries) /\ Len(t) = n
  BY <1>1, <1>3
<1> HIDE DEF t
<1>5. p \in 1 .. n + 1
  BY <1>4, PlaceIsAPlace
<1> HIDE DEF p
<1>6. /\ s \in Seq(Entries) /\ Len(s) = n + 1
      /\ \A k \in 1 .. n + 1 :
           s[k] = IF k < p THEN t[k] ELSE IF k = p THEN e ELSE t[k - 1]
  <2>1. t \in Seq(Entries) /\ p \in 1 .. Len(t) + 1 /\ e \in Entries
    BY <1>4, <1>5
  <2>2. s \in Seq(Entries) /\ InsertedAt(s, t, p, e)
    BY <2>1, InsertAtReads
  <2>3. QED
    BY <1>4, <2>2 DEF InsertedAt
<1>7. DOMAIN s = 1 .. n + 1
  BY <1>6, LenProperties
<1>8. Inserted(policy, size, c, e) = s
  BY DEF Inserted, kept, t, p
<1> HIDE DEF s
<1>9. Fits(s, size)
  BY <1>1, <1>6 DEF Fits
<1> DEFINE from == [k \in 1 .. n + 1 |-> IF k < p THEN k ELSE IF k = p THEN 0 ELSE k - 1]
<1>10. from \in [DOMAIN s -> 0 .. Len(c)]
  BY <1>0, <1>1, <1>5, <1>7
<1>11. \A k, m \in DOMAIN s : from[k] = from[m] => k = m
  BY <1>1, <1>5, <1>7
<1>12. ASSUME NEW k \in DOMAIN s
       PROVE  /\ from[k] = 0 => s[k] = e
              /\ from[k] # 0 => from[k] \in 1 .. n /\ s[k] = t[from[k]]
  BY <1>1, <1>5, <1>6, <1>7
<1>13. Full(c, size) => \A k \in DOMAIN s : from[k] # Len(c)
  <2>1. Full(c, size) => Len(c) \notin 0 .. n
    <3>1. Len(c) \in Nat
      BY <1>0
    <3>2. QED
      BY <3>1 DEF n, Full
  <2>2. \A k \in DOMAIN s : from[k] \in 0 .. n
    BY <1>1, <1>5, <1>7
  <2>3. QED
    BY <2>1, <2>2
<1> HIDE DEF from
<1>14. ASSUME NEW k \in DOMAIN s, from[k] # 0
       PROVE  /\ s[k].addr = c[from[k]].addr
              /\ s[k].huge = c[from[k]].huge
              /\ s[k].live = /\ c[from[k]].live
                             /\ c[from[k]].addr # e.addr
                             /\ Full(c, size) => c[from[k]].addr # Last(c).addr
  BY <1>3, <1>12, <1>14
<1>15. \A k \in DOMAIN s : from[k] = 0 => s[k] = e
  BY <1>12
<1>16. Entered(s, c, size, e)
  BY <1>10, <1>11, <1>13, <1>14, <1>15 DEF Entered
<1>17. QED
  BY <1>8, <1>9, <1>16

\* An insertion brings no entry but the new one, and no orphan back to life.
LEMMA InsertedBrings ==
  ASSUME NEW size \in Nat \ {0}, NEW c, Fits(c, size), NEW e \in Entries, NEW policy
  PROVE  LET s == Inserted(policy, size, c, e) IN
         \A k \in DOMAIN s :
           \/ s[k] = e
           \/ \E i \in DOMAIN c : /\ s[k].addr = c[i].addr /\ s[k].huge = c[i].huge
                                  /\ s[k].live => c[i].live
<1>1. DOMAIN c = 1 .. Len(c) /\ Len(c) \in Nat
  BY FitsReads
<1>2. Entered(Inserted(policy, size, c, e), c, size, e)
  BY InsertedReads
<1>3. QED
  <2> DEFINE s == Inserted(policy, size, c, e)
  <2>1. Entered(s, c, size, e)
    BY <1>2
  <2> HIDE DEF s
  <2>2. PICK from \in [DOMAIN s -> 0 .. Len(c)] :
          /\ \A k \in DOMAIN s : from[k] = 0 => s[k] = e
          /\ \A k \in DOMAIN s : from[k] # 0 =>
               /\ s[k].addr = c[from[k]].addr
               /\ s[k].huge = c[from[k]].huge
               /\ s[k].live => c[from[k]].live
    BY <2>1 DEF Entered
  <2>3. \A k \in DOMAIN s : from[k] # 0 => from[k] \in DOMAIN c
    BY <1>1
  <2>4. QED
    BY <2>2, <2>3 DEF s

\* An absent tag has itself to itself after it is inserted.
LEMMA InsertedIsSingle ==
  ASSUME NEW size \in Nat \ {0}, NEW c, Fits(c, size), Single(c),
         NEW e \in Entries, e.live, ~ Hits(c, e.addr), NEW policy
  PROVE  Single(Inserted(policy, size, c, e))
<1> DEFINE s == Inserted(policy, size, c, e)
<1>1. Len(c) \in Nat /\ DOMAIN c = 1 .. Len(c)
  BY FitsReads
<1>0. Entered(s, c, size, e)
  BY InsertedReads
<1> HIDE DEF s
<1>2. PICK from \in [DOMAIN s -> 0 .. Len(c)] :
        /\ \A k, m \in DOMAIN s : from[k] = from[m] => k = m
        /\ \A k \in DOMAIN s : from[k] = 0 => s[k] = e
        /\ \A k \in DOMAIN s : from[k] # 0 =>
             /\ s[k].addr = c[from[k]].addr
             /\ s[k].huge = c[from[k]].huge
             /\ s[k].live = /\ c[from[k]].live
                            /\ c[from[k]].addr # e.addr
                            /\ Full(c, size) => c[from[k]].addr # Last(c).addr
        /\ Full(c, size) => \A k \in DOMAIN s : from[k] # Len(c)
  BY <1>0 DEF Entered
<1>3. \A i \in DOMAIN c : c[i].live /\ c[i].addr # e.addr
  BY DEF Hits, Slots, Single
<1>4. ASSUME NEW k \in DOMAIN s, from[k] # 0
      PROVE  from[k] \in DOMAIN c /\ s[k].live /\ s[k].addr # e.addr
  <2>1. from[k] \in DOMAIN c
    BY <1>1, <1>4
  <2>2. Full(c, size) => c[from[k]].addr # Last(c).addr
    <3>1. SUFFICES ASSUME Full(c, size) PROVE c[from[k]].addr # Last(c).addr
      OBVIOUS
    <3>2. Len(c) \in DOMAIN c /\ from[k] # Len(c)
      BY <1>1, <1>2, <3>1 DEF Full
    <3>3. QED
      BY <2>1, <3>2 DEF Single, Last
  <2>3. QED
    BY <1>2, <1>3, <1>4, <2>1, <2>2
<1>5. ASSUME NEW k \in DOMAIN s PROVE s[k].live
  BY <1>2, <1>4
<1>6. ASSUME NEW k \in DOMAIN s, NEW m \in DOMAIN s, s[k].addr = s[m].addr PROVE k = m
  <2>1. CASE from[k] = 0 /\ from[m] = 0
    BY <1>2, <2>1
  <2>2. CASE from[k] # 0 /\ from[m] # 0
    <3>1. from[k] \in DOMAIN c /\ from[m] \in DOMAIN c
      BY <1>4, <2>2
    <3>2. c[from[k]].addr = c[from[m]].addr
      BY <1>2, <1>6, <2>2
    <3>3. from[k] = from[m]
      BY <3>1, <3>2 DEF Single
    <3>4. QED
      BY <1>2, <3>3
  <2>3. CASE from[k] = 0 /\ from[m] # 0
    BY <1>2, <1>4, <1>6, <2>3
  <2>4. CASE from[k] # 0 /\ from[m] = 0
    BY <1>2, <1>4, <1>6, <2>4
  <2>5. QED
    BY <2>1, <2>2, <2>3, <2>4
<1>7. QED
  BY <1>5, <1>6 DEF Single, s

\* Where the entries come from when the one at i is moved to p.
Origin(n, i, p) ==
  [k \in 1 .. n |-> IF k = p THEN i
                   ELSE LET j == IF k < p THEN k ELSE k - 1
                        IN  IF j < i THEN j ELSE j + 1]

LEMMA OriginsDiffer ==
  ASSUME NEW n \in Nat, NEW i \in 1 .. n, NEW p \in 1 .. n
  PROVE  /\ Origin(n, i, p) \in [1 .. n -> 1 .. n]
         /\ \A k, m \in 1 .. n : Origin(n, i, p)[k] = Origin(n, i, p)[m] => k = m
BY DEF Origin

\* A hit in the promotion cache moves and counts an entry, and halves them all
\* when the count is at its limit.
LEMMA UsedFits ==
  ASSUME NEW size \in Nat, NEW c, Fits(c, size), NEW i \in DOMAIN c, NEW off \in Nat,
         NEW policy
  PROVE  LET s == Used(policy, c, i, [c[i] EXCEPT !.off = off]) IN
         Fits(s, size) /\ Drawn(s, c)
<1> DEFINE Wide == [addr : Nat, freq : 0 .. MaxFreq, live : BOOLEAN, off : Nat, huge : BOOLEAN]
           f == c[i].freq
           t == RemoveAt(c, i)
           e == [[c[i] EXCEPT !.off = off] EXCEPT !.freq = f + 1]
           p == Place(policy, t, f)
           u == InsertAt(t, p, e)
           s == IF f + 1 = MaxFreq THEN Halved(u) ELSE u
<1>0. /\ Len(c) \in Nat /\ DOMAIN c = 1 .. Len(c)
      /\ \A k \in 1 .. Len(c) : c[k] \in Entries
      /\ c \in Seq(Entries)
  BY FitsReads DEF Fits
<1>1. Len(c) \in Nat /\ Len(c) <= size /\ i \in 1 .. Len(c)
  BY <1>0, FitsReads
<1>2. f \in 0 .. MaxFreq - 1 /\ f + 1 \in 0 .. MaxFreq
  <2>1. c[i] \in Entries
    BY <1>0, <1>1
  <2>2. c[i].freq \in 0 .. MaxFreq - 1
    BY <2>1 DEF Entries
  <2>3. QED
    BY <2>2
<1>3. e \in Wide /\ e.addr = c[i].addr /\ e.live = c[i].live /\ e.huge = c[i].huge
      /\ e.freq = f + 1
  <2> DEFINE d == [c[i] EXCEPT !.off = off]
  <2>1. /\ d \in Entries /\ d.addr = c[i].addr /\ d.live = c[i].live
        /\ d.huge = c[i].huge
    <3>1. c[i] \in Entries
      BY <1>0, <1>1
    <3>2. QED
      BY <3>1 DEF Entries
  <2> HIDE DEF d
  <2>2. [d EXCEPT !.freq = f + 1] \in Wide
    BY <1>2, <2>1 DEF Entries
  <2>3. e = [d EXCEPT !.freq = f + 1]
    BY DEF d
  <2>4. QED
    BY <2>1, <2>2, <2>3 DEF Entries
<1>4. /\ t \in Seq(Entries) /\ Len(t) = Len(c) - 1
      /\ \A k \in 1 .. Len(c) - 1 : t[k] = IF k < i THEN c[k] ELSE c[k + 1]
  BY <1>0, <1>1, RemoveAtReads
<1>5. t \in Seq(Wide)
  <2>1. Entries \subseteq Wide
    BY DEF Entries
  <2> HIDE DEF Wide, t
  <2>2. QED
    BY <1>4, <2>1, SeqMonotonic
<1> HIDE DEF Wide, e, t
<1>6. p \in 1 .. Len(t) + 1
  BY <1>5, PlaceIsAPlace
<1> HIDE DEF p
<1>7. /\ u \in Seq(Wide) /\ Len(u) = Len(t) + 1
      /\ \A k \in 1 .. Len(t) + 1 :
           u[k] = IF k < p THEN t[k] ELSE IF k = p THEN e ELSE t[k - 1]
  <2>1. u \in Seq(Wide) /\ InsertedAt(u, t, p, e)
    BY <1>3, <1>5, <1>6, InsertAtReads
  <2>2. QED
    BY <2>1 DEF InsertedAt
<1>8. Len(t) + 1 = Len(c) /\ p \in 1 .. Len(c)
  BY <1>1, <1>4, <1>6
<1>9. /\ DOMAIN u = 1 .. Len(c)
      /\ \A k \in 1 .. Len(c) :
           u[k] = IF k < p THEN t[k] ELSE IF k = p THEN e ELSE t[k - 1]
  BY <1>7, <1>8, LenProperties
<1> HIDE DEF u
<1>10. Used(policy, c, i, [c[i] EXCEPT !.off = off]) = s
  BY DEF Used, u, t, p, e
<1> DEFINE from == Origin(Len(c), i, p)
<1>11. from \in [DOMAIN u -> DOMAIN c]
  BY <1>0, <1>1, <1>8, <1>9, OriginsDiffer
<1>12. \A k, m \in DOMAIN u : from[k] = from[m] => k = m
  <2>1. DOMAIN u = 1 .. Len(c)
    BY <1>9
  <2>2. \A k, m \in 1 .. Len(c) : from[k] = from[m] => k = m
    BY <1>1, <1>8, OriginsDiffer
  <2>3. QED
    BY <2>1, <2>2
<1>13. ASSUME NEW k \in 1 .. Len(c)
       PROVE  /\ u[k].addr = c[from[k]].addr
              /\ u[k].live = c[from[k]].live
              /\ u[k].huge = c[from[k]].huge
              /\ u[k] \in Wide
              /\ u[k].freq = MaxFreq => f + 1 = MaxFreq
  <2>0. k \in Int /\ i \in Int /\ p \in Int
    BY <1>1, <1>8
  <2>1. CASE k = p
    <3>1. from[k] = i /\ u[k] = e
      BY <1>9, <2>0, <2>1 DEF Origin
    <3>2. QED
      BY <1>3, <3>1
  <2>2. CASE k # p
    <3> DEFINE j == IF k < p THEN k ELSE k - 1
    <3>1. j \in 1 .. Len(c) - 1 /\ from[k] = IF j < i THEN j ELSE j + 1
      BY <1>1, <1>8, <2>2 DEF Origin
    <3>2. u[k] = t[j]
      BY <1>1, <1>8, <1>9, <2>2
    <3> HIDE DEF j
    <3>3. t[j] = c[from[k]]
      BY <1>4, <3>1
    <3>4. c[from[k]] \in Entries
      BY <1>0, <1>9, <1>11
    <3>5. u[k] = c[from[k]]
      BY <3>2, <3>3
    <3>6. u[k] \in Entries
      BY <3>4, <3>5
    <3>7. u[k] \in Wide /\ u[k].freq # MaxFreq
      <4>1. u[k].freq \in 0 .. MaxFreq - 1
        BY <3>6 DEF Entries
      <4>2. u[k].freq # MaxFreq
        BY <4>1
      <4>3. QED
        BY <3>6, <4>2 DEF Entries, Wide
    <3>8. QED
      BY <3>5, <3>7
  <2>3. QED
    BY <2>1, <2>2
<1> HIDE DEF from
<1>14. CASE f + 1 # MaxFreq
  <2>1. s = u
    BY <1>14
  <2>2. \A k \in 1 .. Len(c) : u[k] \in Entries
    BY <1>13, <1>14 DEF Wide, Entries
  <2>3. u \in [1 .. Len(c) -> Entries] /\ u \in Seq(Entries) /\ Len(u) = Len(c)
    <3>1. Len(u) = Len(c)
      BY <1>7, <1>8
    <3>2. u = [k \in 1 .. Len(c) |-> u[k]]
      BY <1>7, <1>9, LenProperties
    <3>3. u \in [1 .. Len(c) -> Entries]
      BY <2>2, <3>2
    <3>4. u \in Seq(Entries)
      BY <1>1, <3>3
    <3>5. QED
      BY <3>1, <3>3, <3>4
  <2>4. Fits(u, size)
    BY <1>1, <2>3 DEF Fits
  <2>5. Drawn(u, c)
    <3>1. \A k \in DOMAIN u : /\ u[k].addr = c[from[k]].addr
                             /\ u[k].live = c[from[k]].live
                             /\ u[k].huge = c[from[k]].huge
      BY <1>9, <1>13
    <3>2. QED
      BY <1>11, <1>12, <3>1 DEF Drawn
  <2>6. QED
    BY <1>10, <2>1, <2>4, <2>5
<1>15. CASE f + 1 = MaxFreq
  <2>1. s = Halved(u)
    BY <1>15
  <2>2. /\ DOMAIN s = 1 .. Len(c)
        /\ \A k \in 1 .. Len(c) : s[k] = [u[k] EXCEPT !.freq = @ \div 2]
    BY <1>9, <2>1 DEF Halved
  <2>3. s = [k \in 1 .. Len(c) |-> s[k]]
    BY <1>9, <2>1, <2>2 DEF Halved
  <2> HIDE DEF s
  <2>4. ASSUME NEW k \in 1 .. Len(c)
        PROVE  /\ s[k] \in Entries
               /\ s[k].addr = u[k].addr /\ s[k].live = u[k].live /\ s[k].huge = u[k].huge
    <3>1. u[k] \in Wide
      BY <1>13
    <3>2. u[k].freq \div 2 \in 0 .. MaxFreq - 1
      <4>1. \A x \in 0 .. MaxFreq : x \div 2 \in 0 .. MaxFreq - 1
        OBVIOUS
      <4>2. QED
        BY <3>1, <4>1 DEF Wide
    <3>3. QED
      BY <2>2, <3>1, <3>2 DEF Wide, Entries
  <2>5. s \in Seq(Entries) /\ Len(s) = Len(c)
    BY <1>1, <2>3, <2>4
  <2>6. Fits(s, size)
    BY <1>1, <2>5 DEF Fits
  <2>7. Drawn(s, c)
    <3>1. DOMAIN s = DOMAIN u
      BY <1>9, <2>2
    <3>2. \A k \in DOMAIN s : /\ s[k].addr = c[from[k]].addr
                             /\ s[k].live = c[from[k]].live
                             /\ s[k].huge = c[from[k]].huge
      BY <1>13, <2>2, <2>4
    <3>3. QED
      BY <1>11, <1>12, <3>1, <3>2 DEF Drawn
  <2>8. QED
    BY <1>10, <2>6, <2>7
<1>16. QED
  BY <1>14, <1>15

-----------------------------------------------------------------------------
(* The summary. *)

LEMMA NumbersAreNat ==
  /\ \A p \in Nat : Region(p) \in Nat /\ p % Ratio \in Nat
  /\ Period \in Nat \ {0}
<1>1. Ratio \in Nat \ {0} /\ AccessInterval \in Nat \ {0} /\ Factor \in Nat \ {0}
  OBVIOUS
<1>2. \A p \in Nat : p \div Ratio \in Nat /\ p % Ratio \in Nat
  BY <1>1
<1>3. Period \in Nat \ {0}
  BY <1>1 DEF Period
<1>4. QED
  BY <1>2, <1>3 DEF Region

LEMMA AddrsAreNat ==
  ASSUME NEW size, NEW c, Fits(c, size)
  PROVE  Addrs(c) \subseteq Nat /\ \A i \in DOMAIN c : c[i].addr \in Addrs(c)
<1>1. \A i \in DOMAIN c : c[i] \in Entries
  BY FitsReads
<1>2. QED
  BY <1>1 DEF Entries, Addrs, EntriesOf

LEMMA SummaryCached ==
  ASSUME Cached(Current)
  PROVE  /\ Cached(Summary)
         /\ DOMAIN Summary.pcc = {}
         /\ Drawn(Summary.l1_2m, l1_2m)
         /\ \A k \in DOMAIN Summary.l1_2m : Summary.l1_2m[k].addr \notin ToDemote
         /\ \A k \in DOMAIN Summary.l1_4k :
              Summary.l1_4k[k].live => Summary.l1_4k[k].addr \notin PagesOf(ToPromote)
         /\ \A k \in DOMAIN Summary.l2 :
              /\ Summary.l2[k].addr \notin ToDemote \cup PagesOf(ToPromote)
              /\ \E i \in DOMAIN l2 : /\ Summary.l2[k].addr = l2[i].addr
                                     /\ Summary.l2[k].huge = l2[i].huge
<1>0. /\ Fits(l1_4k, L1Assoc)
      /\ Fits(l1_2m, L1Assoc) /\ Single(l1_2m)
      /\ Fits(l2, L2Assoc) /\ Single(l2)
      /\ Fits(promotion_cache, PromotionSize) /\ Single(promotion_cache)
      /\ L1Assoc \in Nat /\ L2Assoc \in Nat /\ PromotionSize \in Nat
  BY DEF Cached, Current
<1> DEFINE P == PagesOf(ToPromote)
           a == Without(l1_4k, P)
           b == Without(l1_2m, ToDemote)
           c == Without(l2, P)
           d == Without(c, ToDemote)
           k == Without(promotion_cache, Addrs(promotion_cache))
<1>1. /\ Summary.l1_4k = a /\ Summary.l1_2m = b /\ Summary.l2 = d /\ Summary.pcc = k
  BY DEF Summary, ShootDown, Unmap2M, KeysDropped
<1> HIDE DEF P
<1>2. /\ Fits(a, L1Assoc)
      /\ \A i \in DOMAIN a : ~ (a[i].live /\ a[i].addr \in P)
  BY <1>0, WithoutFits
<1>3. /\ Fits(b, L1Assoc) /\ Drawn(b, l1_2m) /\ Single(b)
      /\ \A i \in DOMAIN b : ~ (b[i].live /\ b[i].addr \in ToDemote)
  BY <1>0, WithoutFits, DrawnIsSingle
<1>4. /\ Fits(c, L2Assoc) /\ Drawn(c, l2) /\ Single(c)
      /\ \A i \in DOMAIN c : ~ (c[i].live /\ c[i].addr \in P)
  BY <1>0, WithoutFits, DrawnIsSingle
<1> HIDE DEF a, b, c
<1>5. /\ Fits(d, L2Assoc) /\ Drawn(d, c) /\ Single(d)
      /\ \A i \in DOMAIN d : ~ (d[i].live /\ d[i].addr \in ToDemote)
  BY <1>0, <1>4, WithoutFits, DrawnIsSingle
<1>6. /\ Fits(k, PromotionSize) /\ Drawn(k, promotion_cache) /\ Single(k)
      /\ \A i \in DOMAIN k : ~ (k[i].live /\ k[i].addr \in Addrs(promotion_cache))
  BY <1>0, WithoutFits, DrawnIsSingle
<1> HIDE DEF d, k
<1>7. DOMAIN k = {}
  <2>1. \A i \in DOMAIN k : k[i].live /\ k[i].addr \in Addrs(promotion_cache)
    BY <1>0, <1>6, AddrsAreNat, DrawnReads DEF Single
  <2>2. QED
    BY <1>6, <2>1
<1>8. \A i \in DOMAIN b : b[i].addr \notin ToDemote
  BY <1>3 DEF Single
<1>9. ASSUME NEW i \in DOMAIN d
      PROVE  /\ d[i].addr \notin ToDemote \cup P
             /\ \E j \in DOMAIN l2 : d[i].addr = l2[j].addr /\ d[i].huge = l2[j].huge
  <2>1. PICK m \in DOMAIN c : d[i].addr = c[m].addr /\ d[i].huge = c[m].huge
    BY <1>5, DrawnReads
  <2>2. PICK j \in DOMAIN l2 : c[m].addr = l2[j].addr /\ c[m].huge = l2[j].huge
    BY <1>4, DrawnReads
  <2>3. d[i].live /\ c[m].live
    BY <1>4, <1>5 DEF Single
  <2>4. QED
    BY <1>4, <1>5, <2>1, <2>2, <2>3
<1>10. Cached(Summary)
  BY <1>1, <1>2, <1>3, <1>5, <1>6 DEF Cached
<1>11. QED
  BY <1>1, <1>2, <1>3, <1>7, <1>8, <1>9, <1>10 DEF P

LEMMA SummaryIsSound == Sound(Current) => Sound(Summary)
<1> SUFFICES ASSUME Sound(Current) PROVE Sound(Summary)
  OBVIOUS
<1>1. Cached(Current) /\ Mapped(Current)
  BY DEF Sound
<1>2. Fits(promotion_cache, PromotionSize)
  BY <1>1 DEF Cached, Current
<1>3. ToPromote \subseteq Nat /\ Addrs(promotion_cache) \subseteq Nat
  <2>1. ToPromote \subseteq Addrs(promotion_cache)
    BY DEF ToPromote, Addrs
  <2>2. QED
    BY <1>2, <2>1, AddrsAreNat
<1>4. Mapped(Summary)
  <2>1. promotions \subseteq Nat /\ \A k \in DOMAIN reuse_map :
          k \in Nat /\ reuse_map[k] \in {"cold", "timed"}
    BY <1>1 DEF Mapped, Current
  <2>2. QED
    BY <1>3, <2>1 DEF Mapped, Summary
<1>5. Keyed(Summary)
  BY <1>1, SummaryCached DEF Keyed
<1>6. ASSUME Apart PROVE Tagged(Summary)
  <2>1. /\ \A i \in DOMAIN l1_2m : l1_2m[i].addr \in promotions
        /\ \A i \in DOMAIN l2 :
             IF l2[i].huge THEN l2[i].addr \in promotions ELSE l2[i].addr \in Trace
    BY <1>6 DEF Sound, Tagged, Current
  <2>2. Summary.promotions = (promotions \cup ToPromote) \ ToDemote
    BY DEF Summary
  <2>3. ASSUME NEW k \in DOMAIN Summary.l1_2m
        PROVE  Summary.l1_2m[k].addr \in Summary.promotions
    BY <1>1, <2>1, <2>2, SummaryCached, DrawnReads
  <2>4. ASSUME NEW k \in DOMAIN Summary.l2
        PROVE  IF Summary.l2[k].huge THEN Summary.l2[k].addr \in Summary.promotions
                                     ELSE Summary.l2[k].addr \in Trace
    <3>1. /\ Summary.l2[k].addr \notin ToDemote
          /\ \E i \in DOMAIN l2 : /\ Summary.l2[k].addr = l2[i].addr
                                 /\ Summary.l2[k].huge = l2[i].huge
      BY <1>1, SummaryCached
    <3>2. QED
      BY <2>1, <2>2, <3>1
  <2>5. QED
    BY <2>3, <2>4 DEF Tagged
<1>7. QED
  BY <1>1, <1>4, <1>5, <1>6, SummaryCached DEF Sound

LEMMA StartIsSound == Sound(Current) => Sound(Start)
BY SummaryIsSound DEF Start

-----------------------------------------------------------------------------
(* The accesses. *)

LEMMA PutReads ==
  ASSUME NEW size \in Nat \ {0}, NEW c, Fits(c, size), NEW a \in Nat, NEW huge \in BOOLEAN
  PROVE  LET t == Put(c, size, a, huge) IN
         /\ Fits(t, size)
         /\ Single(c) /\ ~ Hits(c, a) => Single(t)
         /\ \A k \in DOMAIN t :
              \/ t[k].addr = a /\ t[k].huge = huge
              \/ \E i \in DOMAIN c : /\ t[k].addr = c[i].addr /\ t[k].huge = c[i].huge
                                     /\ t[k].live => c[i].live
<1> DEFINE e == Entry(a, 0, huge)
           t == Put(c, size, a, huge)
<1>1. e \in Entries /\ e.addr = a /\ e.huge = huge /\ e.live
  BY DEF Entry, Entries
<1>2. t = Inserted(LRU, size, c, e)
  BY DEF Put
<1> HIDE DEF e, t
<1>3. Fits(t, size)
  BY <1>1, <1>2, InsertedReads
<1>4. Single(c) /\ ~ Hits(c, a) => Single(t)
  BY <1>1, <1>2, InsertedIsSingle
<1>5. \A k \in DOMAIN t :
        \/ t[k] = e
        \/ \E i \in DOMAIN c : /\ t[k].addr = c[i].addr /\ t[k].huge = c[i].huge
                               /\ t[k].live => c[i].live
  BY <1>1, <1>2, InsertedBrings
<1>6. QED
  BY <1>1, <1>3, <1>4, <1>5 DEF t

LEMMA ReportedIsNat ==
  ASSUME NEW c, Fits(c, L1Assoc), NEW before \in Nat \cup {-1}
  PROVE  Reported(c, before) \in Nat \cup {-1}
<1>1. CASE Full(c, L1Assoc)
  <2>1. Len(c) \in DOMAIN c /\ \A i \in DOMAIN c : c[i] \in Entries
    BY <1>1, FitsReads DEF Full
  <2>2. QED
    BY <1>1, <2>1 DEF Reported, Last, Entries
<1>2. CASE ~ Full(c, L1Assoc)
  BY <1>2 DEF Reported
<1>3. QED
  BY <1>1, <1>2

\* The same for a region.
LEMMA PutHuge ==
  ASSUME NEW c, Fits(c, L1Assoc), Single(c), NEW a \in Nat, ~ Hits(c, a)
  PROVE  LET t == Put(c, L1Assoc, a, TRUE) IN
         /\ Fits(t, L1Assoc) /\ Single(t)
         /\ \A k \in DOMAIN t :
              t[k].addr = a \/ \E i \in DOMAIN c : t[k].addr = c[i].addr
<1> DEFINE huge == TRUE
           t == Put(c, L1Assoc, a, huge)
<1>1. huge \in BOOLEAN
  OBVIOUS
<1> HIDE DEF huge
<1>2. /\ Fits(t, L1Assoc)
      /\ Single(c) /\ ~ Hits(c, a) => Single(t)
      /\ \A k \in DOMAIN t :
           \/ t[k].addr = a /\ t[k].huge = huge
           \/ \E i \in DOMAIN c : /\ t[k].addr = c[i].addr /\ t[k].huge = c[i].huge
                                  /\ t[k].live => c[i].live
  BY <1>1, PutReads
<1>3. t = Put(c, L1Assoc, a, TRUE)
  BY DEF huge
<1> HIDE DEF t
<1>4. /\ Fits(t, L1Assoc) /\ Single(t)
      /\ \A k \in DOMAIN t :
           t[k].addr = a \/ \E i \in DOMAIN c : t[k].addr = c[i].addr
  BY <1>2
<1>5. QED
  BY <1>3, <1>4

\* The state after an access, from what became of its parts.
LEMMA SoundNext ==
  ASSUME NEW s, Sound(s), promotions' = s.promotions,
         Fits(l1_4k', L1Assoc),
         Fits(l1_2m', L1Assoc), Single(l1_2m'),
         Fits(l2', L2Assoc), Single(l2'),
         Fits(promotion_cache', PromotionSize), Single(promotion_cache'),
         \A k \in DOMAIN reuse_map' : k \in Nat /\ reuse_map'[k] \in {"cold", "timed"},
         DOMAIN s.reuse \subseteq DOMAIN reuse_map', s.measured \subseteq measured',
         \A i \in DOMAIN promotion_cache' :
           \/ \E j \in DOMAIN s.pcc : promotion_cache'[i].addr = s.pcc[j].addr
           \/ promotion_cache'[i].addr \in (measured' \ s.promotions) \cap DOMAIN reuse_map'
           \/ \E b \in measured' \cap s.promotions : promotion_cache'[i].addr = Region(b),
         Apart => Tagged([l1_2m |-> l1_2m', l2 |-> l2', promotions |-> s.promotions])
  PROVE  Sound(Current)'
<1>1. Mapped(s) /\ Keyed(s)
  BY DEF Sound
<1>2. Cached(Current)'
  BY DEF Cached, Current
<1>3. Mapped(Current)'
  BY <1>1 DEF Mapped, Current
<1>4. Keyed(Current)'
  <2>1. SUFFICES ASSUME NEW i \in DOMAIN promotion_cache'
                 PROVE
                   \/ promotion_cache'[i].addr \in
                         (measured' \ s.promotions) \cap DOMAIN reuse_map'
                   \/ \E b \in measured' \cap s.promotions :
                        promotion_cache'[i].addr = Region(b)
    BY DEF Keyed, Current
  <2>2. CASE \E j \in DOMAIN s.pcc : promotion_cache'[i].addr = s.pcc[j].addr
    BY <1>1, <2>2 DEF Keyed
  <2>3. QED
    BY <2>2
<1>5. (Apart => Tagged(Current))'
  BY DEF Tagged, Current, Apart
<1>6. QED
  BY <1>2, <1>3, <1>4, <1>5 DEF Sound

\* What it says of the caches and maps an access starts from.
LEMMA SoundReads ==
  ASSUME NEW s, Sound(s)
  PROVE  /\ Fits(s.l1_4k, L1Assoc)
         /\ Fits(s.l1_2m, L1Assoc) /\ Single(s.l1_2m)
         /\ Fits(s.l2, L2Assoc) /\ Single(s.l2)
         /\ Fits(s.pcc, PromotionSize) /\ Single(s.pcc)
         /\ \A k \in DOMAIN s.reuse : k \in Nat /\ s.reuse[k] \in {"cold", "timed"}
         /\ s.promotions \subseteq Nat
BY DEF Sound, Cached, Mapped

LEMMA L1HitStep ==
  ASSUME Sound(Current), NEW p \in Trace, L1Hit(p)
  PROVE  Sound(Current)'
<1> DEFINE s == Start
<1>1. Sound(s)
  BY StartIsSound
<1>2. /\ promotions' = s.promotions
      /\ l1_4k' = TouchTLB(s.l1_4k, p) /\ l1_2m' = TouchTLB(s.l1_2m, Region(p))
      /\ l2' = s.l2 /\ promotion_cache' = s.pcc /\ reuse_map' = s.reuse
      /\ measured' = s.measured
  BY DEF L1Hit, Tick, NoReuse
<1> HIDE DEF s
<1>3. /\ Fits(l1_4k', L1Assoc)
      /\ Fits(l1_2m', L1Assoc) /\ Drawn(l1_2m', s.l1_2m) /\ Single(l1_2m')
  BY <1>1, <1>2, SoundReads, TouchedFits, DrawnIsSingle
<1>4. Apart => Tagged([l1_2m |-> l1_2m', l2 |-> l2', promotions |-> s.promotions])
  BY <1>1, <1>2, <1>3, DrawnReads DEF Sound, Tagged
<1>5. QED
  BY <1>1, <1>2, <1>3, <1>4, SoundNext, SoundReads

LEMMA L2Hit4KStep ==
  ASSUME Sound(Current), NEW p \in Trace, L2Hit4K(p)
  PROVE  Sound(Current)'
<1> DEFINE s == Start
<1>1. Sound(s)
  BY StartIsSound
<1>2. /\ promotions' = s.promotions
      /\ l2' = TouchTLB(s.l2, p) /\ l1_4k' = Put(s.l1_4k, L1Assoc, p, FALSE)
      /\ l1_2m' = s.l1_2m /\ promotion_cache' = s.pcc /\ reuse_map' = s.reuse
      /\ measured' = s.measured
  BY DEF L2Hit4K, Tick, NoReuse
<1> HIDE DEF s
<1>3. /\ Fits(l1_4k', L1Assoc)
      /\ Fits(l2', L2Assoc) /\ Drawn(l2', s.l2) /\ Single(l2')
  BY <1>1, <1>2, SoundReads, TouchedFits, DrawnIsSingle, PutReads
<1>4. Apart => Tagged([l1_2m |-> l1_2m', l2 |-> l2', promotions |-> s.promotions])
  BY <1>1, <1>2, <1>3, DrawnReads DEF Sound, Tagged
<1>5. QED
  BY <1>1, <1>2, <1>3, <1>4, SoundNext, SoundReads

\* With Apart the L2 entry that hits for a region is a 2M entry, of a region that
\* is promoted.
LEMMA L2Hit2MStep ==
  ASSUME Sound(Current), NEW p \in Trace, L2Hit2M(p)
  PROVE  Sound(Current)'
<1> DEFINE s == Start
           b == Region(p)
<1>1. Sound(s)
  BY StartIsSound
<1>2. /\ promotions' = s.promotions /\ L1Miss(s, p) /\ Hits(s.l2, b)
      /\ l2' = TouchTLB(s.l2, b) /\ l1_2m' = Put(s.l1_2m, L1Assoc, b, TRUE)
      /\ l1_4k' = s.l1_4k /\ promotion_cache' = s.pcc /\ reuse_map' = s.reuse
      /\ measured' = s.measured
  BY DEF L2Hit2M, Tick, NoReuse
<1> HIDE DEF s
<1>0. b \in Nat
  BY NumbersAreNat
<1>3. /\ Fits(l1_2m', L1Assoc) /\ Single(l1_2m')
      /\ \A k \in DOMAIN l1_2m' :
           \/ l1_2m'[k].addr = b
           \/ \E i \in DOMAIN s.l1_2m : l1_2m'[k].addr = s.l1_2m[i].addr
  <2> DEFINE t == Put(s.l1_2m, L1Assoc, b, TRUE)
  <2> HIDE DEF b
  <2>1. Fits(s.l1_2m, L1Assoc) /\ Single(s.l1_2m) /\ ~ Hits(s.l1_2m, b)
    BY <1>1, <1>2, SoundReads DEF L1Miss, b
  <2>2. /\ Fits(t, L1Assoc) /\ Single(t)
        /\ \A k \in DOMAIN t :
             \/ t[k].addr = b
             \/ \E i \in DOMAIN s.l1_2m : t[k].addr = s.l1_2m[i].addr
    BY <1>0, <2>1, PutHuge
  <2>3. QED
    BY <1>2, <2>2 DEF b
<1>4. Fits(l2', L2Assoc) /\ Drawn(l2', s.l2) /\ Single(l2')
  BY <1>1, <1>2, SoundReads, TouchedFits, DrawnIsSingle
<1>5. ASSUME Apart
      PROVE  Tagged([l1_2m |-> l1_2m', l2 |-> l2', promotions |-> s.promotions])
  <2>1. /\ \A i \in DOMAIN s.l1_2m : s.l1_2m[i].addr \in s.promotions
        /\ \A i \in DOMAIN s.l2 :
             IF s.l2[i].huge THEN s.l2[i].addr \in s.promotions ELSE s.l2[i].addr \in Trace
    BY <1>1, <1>5 DEF Sound, Tagged
  <2>2. PICK i \in DOMAIN s.l2 : s.l2[i].addr = b
    BY <1>2 DEF Hits, Slots
  <2>3. b \in s.promotions
    BY <1>5, <2>1, <2>2 DEF Apart
  <2>4. QED
    BY <1>3, <1>4, <2>1, <2>3, DrawnReads DEF Tagged
<1>6. QED
  BY <1>1, <1>2, <1>3, <1>4, <1>5, SoundNext, SoundReads

\* What a walk does to the three TLBs.
LEMMA FillStep ==
  ASSUME NEW s, Sound(s), NEW p \in Trace, Fill(s, p)
  PROVE  /\ Fits(l1_4k', L1Assoc)
         /\ Fits(l1_2m', L1Assoc) /\ Single(l1_2m')
         /\ Fits(l2', L2Assoc) /\ Single(l2')
         /\ Apart => Tagged([l1_2m |-> l1_2m', l2 |-> l2', promotions |-> s.promotions])
<1> DEFINE b == Region(p)
           huge == b \in s.promotions
           once == Put(s.l1_4k, L1Assoc, p, FALSE)
<1>0. p \in Nat /\ b \in Nat /\ huge \in BOOLEAN
  BY NumbersAreNat
<1>1. /\ ~ Hits(s.l1_2m, b) /\ ~ Hits(s.l2, p) /\ ~ Hits(s.l2, b)
      /\ l2' = Put(s.l2, L2Assoc, IF huge THEN b ELSE p, huge)
      /\ l1_2m' = IF huge THEN Put(s.l1_2m, L1Assoc, b, TRUE) ELSE s.l1_2m
      /\ l1_4k' = IF huge THEN once ELSE Put(once, L1Assoc, p, FALSE)
  BY DEF Fill, L1Miss, L2Miss
<1>2. Fits(l1_4k', L1Assoc)
  <2>1. Fits(once, L1Assoc)
    BY <1>0, SoundReads, PutReads
  <2> HIDE DEF once
  <2>2. Fits(Put(once, L1Assoc, p, FALSE), L1Assoc)
    BY <1>0, <2>1, PutReads
  <2>3. QED
    BY <1>1, <2>1, <2>2
<1>3. /\ Fits(l1_2m', L1Assoc) /\ Single(l1_2m')
      /\ \A k \in DOMAIN l1_2m' :
           \/ huge /\ l1_2m'[k].addr = b
           \/ \E i \in DOMAIN s.l1_2m : l1_2m'[k].addr = s.l1_2m[i].addr
  <2>1. CASE huge
    <3> DEFINE t == Put(s.l1_2m, L1Assoc, b, TRUE)
    <3> HIDE DEF b
    <3>1. Fits(s.l1_2m, L1Assoc) /\ Single(s.l1_2m) /\ ~ Hits(s.l1_2m, b)
      BY <1>1, SoundReads
    <3>2. /\ Fits(t, L1Assoc) /\ Single(t)
          /\ \A k \in DOMAIN t :
               \/ t[k].addr = b
               \/ \E i \in DOMAIN s.l1_2m : t[k].addr = s.l1_2m[i].addr
      BY <1>0, <3>1, PutHuge
    <3>3. QED
      BY <1>1, <2>1, <3>2
  <2>2. CASE ~ huge
    BY <1>1, <2>2, SoundReads
  <2>3. QED
    BY <2>1, <2>2
<1>4. /\ Fits(l2', L2Assoc) /\ Single(l2')
      /\ \A k \in DOMAIN l2' :
           \/ l2'[k].addr = (IF huge THEN b ELSE p) /\ l2'[k].huge = huge
           \/ \E i \in DOMAIN s.l2 :
                l2'[k].addr = s.l2[i].addr /\ l2'[k].huge = s.l2[i].huge
  <2> DEFINE a == IF huge THEN b ELSE p
  <2>1. a \in Nat /\ ~ Hits(s.l2, a) /\ l2' = Put(s.l2, L2Assoc, a, huge)
    BY <1>0, <1>1
  <2> DEFINE t == Put(s.l2, L2Assoc, a, huge)
  <2> HIDE DEF a, huge
  <2>2. Fits(s.l2, L2Assoc) /\ Single(s.l2)
    BY SoundReads
  <2>3. /\ Fits(t, L2Assoc) /\ Single(t)
        /\ \A k \in DOMAIN t :
             \/ t[k].addr = a /\ t[k].huge = huge
             \/ \E i \in DOMAIN s.l2 : t[k].addr = s.l2[i].addr /\ t[k].huge = s.l2[i].huge
    BY <1>0, <2>1, <2>2, PutReads
  <2>4. QED
    BY <2>1, <2>3 DEF a
<1>5. ASSUME Apart
      PROVE  Tagged([l1_2m |-> l1_2m', l2 |-> l2', promotions |-> s.promotions])
  <2>1. /\ \A i \in DOMAIN s.l1_2m : s.l1_2m[i].addr \in s.promotions
        /\ \A i \in DOMAIN s.l2 :
             IF s.l2[i].huge THEN s.l2[i].addr \in s.promotions ELSE s.l2[i].addr \in Trace
    BY <1>5 DEF Sound, Tagged
  <2>2. \A k \in DOMAIN l1_2m' : l1_2m'[k].addr \in s.promotions
    BY <1>3, <2>1
  <2>3. \A k \in DOMAIN l2' :
          IF l2'[k].huge THEN l2'[k].addr \in s.promotions ELSE l2'[k].addr \in Trace
    BY <1>4, <2>1
  <2>4. QED
    BY <2>2, <2>3 DEF Tagged
<1>6. QED
  BY <1>2, <1>3, <1>4, <1>5

LEMMA WithReads ==
  ASSUME NEW f, \A k \in DOMAIN f : k \in Nat /\ f[k] \in {"cold", "timed"},
         NEW a \in Nat, NEW v \in {"cold", "timed"}
  PROVE  LET g == With(f, a, v) IN
         /\ \A k \in DOMAIN g : k \in Nat /\ g[k] \in {"cold", "timed"}
         /\ DOMAIN g = DOMAIN f \cup {a}
BY DEF With

LEMMA ReuseNext ==
  ASSUME NEW s, Sound(s), NEW b \in Nat, NEW v \in {"cold", "timed"},
         reuse_map' = With(s.reuse, b, v)
  PROVE  /\ \A k \in DOMAIN reuse_map' : k \in Nat /\ reuse_map'[k] \in {"cold", "timed"}
         /\ DOMAIN s.reuse \subseteq DOMAIN reuse_map'
<1> DEFINE f == s.reuse
           g == With(f, b, v)
<1>1. \A k \in DOMAIN f : k \in Nat /\ f[k] \in {"cold", "timed"}
  BY SoundReads
<1>2. reuse_map' = g
  OBVIOUS
<1> HIDE DEF f
<1>3. (\A k \in DOMAIN g : k \in Nat /\ g[k] \in {"cold", "timed"})
      /\ DOMAIN g = DOMAIN f \cup {b}
  BY <1>1, WithReads
<1> HIDE DEF g
<1>4. QED
  BY <1>2, <1>3 DEF f

LEMMA FileTagIsNat ==
  ASSUME NEW s, NEW b \in Nat
  PROVE  FileTag(s, b) \in Nat /\ FileOff(s, b) \in Nat
BY NumbersAreNat DEF FileTag, FileOff

LEMMA WalkColdStep ==
  ASSUME Sound(Current), NEW p \in Trace, WalkCold(p)
  PROVE  Sound(Current)'
<1> DEFINE s == Start
<1>1. Sound(s)
  BY StartIsSound
<1>2. /\ promotions' = s.promotions /\ Fill(s, p) /\ promotion_cache' = s.pcc
      /\ reuse_map' = With(s.reuse, Region(p), "cold") /\ measured' = s.measured
  BY DEF WalkCold, Tick
<1> HIDE DEF s
<1>3. Region(p) \in Nat
  BY NumbersAreNat
<1>4. /\ \A k \in DOMAIN reuse_map' : k \in Nat /\ reuse_map'[k] \in {"cold", "timed"}
      /\ DOMAIN s.reuse \subseteq DOMAIN reuse_map'
  BY <1>1, <1>2, <1>3, ReuseNext
<1>5. QED
  BY <1>1, <1>2, <1>4, FillStep, SoundNext, SoundReads

LEMMA WalkHitStep ==
  ASSUME Sound(Current), NEW p \in Trace, WalkHit(p)
  PROVE  Sound(Current)'
<1> DEFINE s == Start
           b == Region(p)
           i == CHOOSE i \in Slots(s.pcc, FileTag(s, b)) : TRUE
<1>1. Sound(s)
  BY StartIsSound
<1>2. /\ promotions' = s.promotions /\ Fill(s, p) /\ Hits(s.pcc, FileTag(s, b))
      /\ promotion_cache' = Used(LFU, s.pcc, i, [s.pcc[i] EXCEPT !.off = FileOff(s, b)])
      /\ reuse_map' = With(s.reuse, b, "timed") /\ measured' = s.measured \cup {b}
  BY DEF WalkHit, Tick
<1> HIDE DEF s
<1>3. b \in Nat /\ FileOff(s, b) \in Nat
  BY NumbersAreNat, FileTagIsNat
<1>4. /\ \A k \in DOMAIN reuse_map' : k \in Nat /\ reuse_map'[k] \in {"cold", "timed"}
      /\ DOMAIN s.reuse \subseteq DOMAIN reuse_map'
  BY <1>1, <1>2, <1>3, ReuseNext
<1>5. Fits(s.pcc, PromotionSize) /\ Single(s.pcc)
  BY <1>1, SoundReads
<1>6. i \in DOMAIN s.pcc
  BY <1>2, <1>5, SlotIsAPlace, FitsReads
<1> HIDE DEF i
<1>7. Fits(promotion_cache', PromotionSize) /\ Drawn(promotion_cache', s.pcc)
  BY <1>2, <1>3, <1>5, <1>6, UsedFits
<1>8. /\ Single(promotion_cache')
      /\ \A k \in DOMAIN promotion_cache' :
           \E j \in DOMAIN s.pcc : promotion_cache'[k].addr = s.pcc[j].addr
  BY <1>5, <1>7, DrawnIsSingle, DrawnReads
<1>9. QED
  BY <1>1, <1>2, <1>4, <1>7, <1>8, FillStep, SoundNext

LEMMA FillReportedIsNat ==
  ASSUME NEW s, Fits(s.l1_4k, L1Assoc), NEW p \in Trace, evicted_addr \in Nat \cup {-1}
  PROVE  FillReported(s, p) \in Nat \cup {-1}
<1> DEFINE seen == Reported(s.l1_4k, evicted_addr)
           once == Put(s.l1_4k, L1Assoc, p, FALSE)
<1>1. seen \in Nat \cup {-1}
  BY ReportedIsNat
<1>2. Fits(once, L1Assoc)
  BY PutReads
<1> HIDE DEF seen, once
<1>3. Reported(once, seen) \in Nat \cup {-1}
  BY <1>1, <1>2, ReportedIsNat
<1>4. QED
  BY <1>1, <1>3 DEF FillReported, seen, once

\* A region that enters the promotion cache has just been measured.
LEMMA WalkMissStep ==
  ASSUME Sound(Current), NEW p \in Trace, WalkMiss(p), evicted_addr \in Nat \cup {-1}
  PROVE  Sound(Current)' /\ evicted_addr' \in Nat \cup {-1}
<1> DEFINE s == Start
           b == Region(p)
           full == Full(s.pcc, PromotionSize)
           report == IF full THEN Last(s.pcc).addr + Last(s.pcc).off
                             ELSE FillReported(s, p)
           kept == IF report = -1 THEN s.reuse ELSE With(s.reuse, report, "cold")
           e == Entry(FileTag(s, b), FileOff(s, b), FALSE)
<1>1. Sound(s)
  BY StartIsSound
<1>2. /\ promotions' = s.promotions /\ Fill(s, p) /\ ~ Hits(s.pcc, FileTag(s, b))
      /\ promotion_cache' = Inserted(LFU, PromotionSize, s.pcc, e)
      /\ evicted_addr' = report /\ reuse_map' = With(kept, b, "timed")
      /\ measured' = s.measured \cup {b}
  BY DEF WalkMiss, Tick
<1> HIDE DEF s
<1>3. b \in Nat /\ FileTag(s, b) \in Nat /\ FileOff(s, b) \in Nat
  BY NumbersAreNat, FileTagIsNat
<1>4. e \in Entries /\ e.addr = FileTag(s, b) /\ e.live
  BY <1>3 DEF Entry, Entries
<1>5. Fits(s.pcc, PromotionSize) /\ Single(s.pcc) /\ Fits(s.l1_4k, L1Assoc)
  BY <1>1, SoundReads
<1>6. FillReported(s, p) \in Nat \cup {-1}
  BY <1>5, FillReportedIsNat
<1>7. report \in Nat \cup {-1}
  <2>1. CASE full
    <3>1. Len(s.pcc) \in DOMAIN s.pcc /\ \A i \in DOMAIN s.pcc : s.pcc[i] \in Entries
      BY <1>5, <2>1, FitsReads DEF Full
    <3>2. Last(s.pcc).addr \in Nat /\ Last(s.pcc).off \in Nat
      BY <3>1 DEF Last, Entries
    <3>3. QED
      BY <2>1, <3>2
  <2>2. CASE ~ full
    BY <1>6, <2>2
  <2>3. QED
    BY <2>1, <2>2
<1> HIDE DEF report, e
<1>8. /\ \A k \in DOMAIN kept : k \in Nat /\ kept[k] \in {"cold", "timed"}
      /\ DOMAIN s.reuse \subseteq DOMAIN kept
  <2>1. \A k \in DOMAIN s.reuse : k \in Nat /\ s.reuse[k] \in {"cold", "timed"}
    BY <1>1, SoundReads
  <2>2. CASE report = -1
    BY <2>1, <2>2
  <2>3. CASE report # -1
    BY <1>7, <2>1, <2>3, WithReads
  <2>4. QED
    BY <2>2, <2>3
<1> HIDE DEF kept
<1>9. /\ \A k \in DOMAIN reuse_map' : k \in Nat /\ reuse_map'[k] \in {"cold", "timed"}
      /\ DOMAIN s.reuse \subseteq DOMAIN reuse_map' /\ b \in DOMAIN reuse_map'
  BY <1>2, <1>3, <1>8, WithReads
<1>10. Fits(promotion_cache', PromotionSize) /\ Single(promotion_cache')
  BY <1>2, <1>4, <1>5, InsertedReads, InsertedIsSingle
<1>11. \A k \in DOMAIN promotion_cache' :
         \/ promotion_cache'[k] = e
         \/ \E i \in DOMAIN s.pcc : promotion_cache'[k].addr = s.pcc[i].addr
  BY <1>2, <1>4, <1>5, InsertedBrings
<1>12. \A k \in DOMAIN promotion_cache' :
         \/ \E i \in DOMAIN s.pcc : promotion_cache'[k].addr = s.pcc[i].addr
         \/ promotion_cache'[k].addr \in (measured' \ s.promotions) \cap DOMAIN reuse_map'
         \/ \E r \in measured' \cap s.promotions : promotion_cache'[k].addr = Region(r)
  BY <1>2, <1>4, <1>9, <1>11 DEF FileTag
<1>13. Sound(Current)'
  BY <1>1, <1>2, <1>9, <1>10, <1>12, FillStep, SoundNext
<1>14. QED
  BY <1>2, <1>7, <1>13

LEMMA FinishStep ==
  ASSUME Sound(Current), Finish
  PROVE  Sound(Current)'
<1>1. PICK s \in {Summary, Current} :
        /\ l1_4k' = s.l1_4k /\ l1_2m' = s.l1_2m /\ l2' = s.l2
        /\ promotions' = s.promotions /\ promotion_cache' = s.pcc
        /\ reuse_map' = s.reuse /\ measured' = s.measured
  BY DEF Finish, NoReuse
<1>2. Sound(Summary)
  BY SummaryIsSound
<1>3. Sound(s)
  BY <1>1, <1>2
<1>4. Apart => Tagged([l1_2m |-> l1_2m', l2 |-> l2', promotions |-> s.promotions])
  BY <1>1, <1>3 DEF Sound, Tagged
<1>5. QED
  BY <1>1, <1>3, <1>4, SoundNext, SoundReads

-----------------------------------------------------------------------------
(* The invariant. *)

LEMMA InitSound == Init => IInv
<1> SUFFICES ASSUME Init PROVE IInv
  OBVIOUS
<1>1. /\ l1_4k = <<>> /\ l1_2m = <<>> /\ l2 = <<>> /\ promotion_cache = <<>>
      /\ evicted_addr = -1 /\ reuse_map = <<>> /\ promotions = {} /\ accesses = 0
  BY DEF Init
<1>2. /\ Fits(<<>>, L1Assoc) /\ Fits(<<>>, L2Assoc) /\ Fits(<<>>, PromotionSize)
      /\ Single(<<>>)
  BY DEF Fits, Single
<1>3. Cached(Current)
  BY <1>1, <1>2 DEF Cached, Current
<1>4. Mapped(Current) /\ Keyed(Current) /\ Tagged(Current)
  BY <1>1 DEF Mapped, Keyed, Tagged, Current
<1>5. accesses \in 0 .. Period - 1
  BY <1>1, NumbersAreNat
<1>6. QED
  BY <1>1, <1>3, <1>4, <1>5 DEF IInv, Sound

\* The count of the accesses wraps around.
LEMMA CountedInPeriod ==
  ASSUME accesses \in 0 .. Period - 1
  PROVE  Counted \in 0 .. Period - 1
<1>1. Period \in Nat \ {0}
  BY NumbersAreNat
<1> HIDE DEF Period
<1>2. accesses + 1 \in Nat
  BY <1>1
<1>3. QED
  BY <1>1, <1>2 DEF Counted

LEMMA IInvStep == IInv /\ [Next]_pvars => IInv'
<1> SUFFICES ASSUME IInv, [Next]_pvars PROVE IInv'
  OBVIOUS
<1>0. Sound(Current) /\ evicted_addr \in Nat \cup {-1} /\ accesses \in 0 .. Period - 1
  BY DEF IInv
<1>1. Fits(Start.l1_4k, L1Assoc)
  BY <1>0, StartIsSound, SoundReads
<1>2. ASSUME NEW p \in Trace, Track(p), Sound(Current)', evicted_addr' \in Nat \cup {-1}
      PROVE  IInv'
  <2>1. accesses' = Counted
    BY <1>2 DEF Track, L1Hit, L2Hit4K, L2Hit2M, WalkCold, WalkHit, WalkMiss, Tick
  <2>2. accesses' \in 0 .. Period - 1
    BY <1>0, <2>1, CountedInPeriod
  <2>3. Period' = Period
    BY DEF Period
  <2>4. QED
    BY <1>2, <2>2, <2>3 DEF IInv
<1>3. ASSUME NEW p \in Trace, L1Hit(p) PROVE IInv'
  <2>1. evicted_addr' = evicted_addr
    BY <1>3 DEF L1Hit
  <2>2. QED
    BY <1>0, <1>2, <1>3, <2>1, L1HitStep DEF Track
<1>4. ASSUME NEW p \in Trace, L2Hit4K(p) PROVE IInv'
  <2>1. evicted_addr' = Reported(Start.l1_4k, evicted_addr)
    BY <1>4 DEF L2Hit4K
  <2>2. evicted_addr' \in Nat \cup {-1}
    BY <1>0, <1>1, <2>1, ReportedIsNat
  <2>3. QED
    BY <1>0, <1>2, <1>4, <2>2, L2Hit4KStep DEF Track
<1>5. ASSUME NEW p \in Trace, L2Hit2M(p) PROVE IInv'
  <2>1. evicted_addr' = evicted_addr
    BY <1>5 DEF L2Hit2M
  <2>2. QED
    BY <1>0, <1>2, <1>5, <2>1, L2Hit2MStep DEF Track
<1>6. ASSUME NEW p \in Trace, WalkCold(p) PROVE IInv'
  <2>1. evicted_addr' = FillReported(Start, p)
    BY <1>6 DEF WalkCold
  <2>2. evicted_addr' \in Nat \cup {-1}
    BY <1>0, <1>1, <2>1, FillReportedIsNat
  <2>3. QED
    BY <1>0, <1>2, <1>6, <2>2, WalkColdStep DEF Track
<1>7. ASSUME NEW p \in Trace, WalkHit(p) PROVE IInv'
  <2>1. evicted_addr' = FillReported(Start, p)
    BY <1>7 DEF WalkHit
  <2>2. evicted_addr' \in Nat \cup {-1}
    BY <1>0, <1>1, <2>1, FillReportedIsNat
  <2>3. QED
    BY <1>0, <1>2, <1>7, <2>2, WalkHitStep DEF Track
<1>8. ASSUME NEW p \in Trace, WalkMiss(p) PROVE IInv'
  BY <1>0, <1>2, <1>8, WalkMissStep DEF Track
<1>9. CASE Finish
  <2>1. UNCHANGED <<evicted_addr, accesses>>
    BY <1>9 DEF Finish
  <2>2. Period' = Period
    BY DEF Period
  <2>3. QED
    BY <1>0, <1>9, <2>1, <2>2, FinishStep DEF IInv
<1>10. CASE UNCHANGED pvars
  <2>1. /\ l1_4k' = l1_4k /\ l1_2m' = l1_2m /\ l2' = l2
        /\ promotion_cache' = promotion_cache /\ reuse_map' = reuse_map
        /\ promotions' = promotions /\ measured' = measured
        /\ evicted_addr' = evicted_addr /\ accesses' = accesses
    BY <1>10 DEF pvars, caches
  <2>2. Current' = Current /\ Period' = Period /\ (Apart <=> Apart')
    BY <2>1 DEF Current, Period, Apart
  <2>3. Sound(Current)'
    BY <1>0, <2>1 DEF Sound, Cached, Mapped, Keyed, Tagged, Current, Apart
  <2>4. QED
    BY <1>0, <2>1, <2>2, <2>3 DEF IInv
<1>11. QED
  BY <1>3, <1>4, <1>5, <1>6, <1>7, <1>8, <1>9, <1>10 DEF Next, Track

LEMMA Invariance == Spec => []IInv
BY InitSound, IInvStep, PTL DEF Spec

-----------------------------------------------------------------------------
(* The theorems. *)

LEMMA LenIsSmall ==
  ASSUME NEW size \in Nat, NEW c, Fits(c, size)
  PROVE  /\ Len(c) \in 0 .. size
         /\ \A e \in EntriesOf(c) : e.addr \in Nat /\ e.freq \in 0 .. MaxFreq - 1
<1>1. /\ Len(c) \in Nat /\ Len(c) <= size /\ DOMAIN c = 1 .. Len(c)
      /\ \A i \in 1 .. Len(c) : c[i] \in Entries
  BY FitsReads
<1>2. Len(c) \in 0 .. size
  BY <1>1
<1>3. QED
  BY <1>1, <1>2 DEF EntriesOf, Entries

\* Type correctness: no cache holds more than its lines, no counter reaches
\* MAX_FREQ and no number that is computed is negative, for every trace.
THEOREM PccTypes == Spec => []TypeOK
<1>1. IInv => TypeOK
  <2> SUFFICES ASSUME IInv PROVE TypeOK
    OBVIOUS
  <2>1. /\ Sound(Current) /\ evicted_addr \in Nat \cup {-1}
        /\ accesses \in 0 .. Period - 1
    BY DEF IInv
  <2>2. /\ Fits(l1_4k, L1Assoc) /\ Fits(l1_2m, L1Assoc) /\ Fits(l2, L2Assoc)
        /\ Fits(promotion_cache, PromotionSize)
    BY <2>1 DEF Sound, Cached, Current
  <2>3. /\ \A k \in DOMAIN reuse_map : k \in Nat /\ reuse_map[k] \in {"cold", "timed"}
        /\ promotions \subseteq Nat
    BY <2>1 DEF Sound, Mapped, Current
  <2>4. /\ Len(l1_4k) \in 0 .. L1Assoc /\ Len(l1_2m) \in 0 .. L1Assoc
        /\ Len(l2) \in 0 .. L2Assoc /\ Len(promotion_cache) \in 0 .. PromotionSize
    BY <2>2, LenIsSmall
  <2>5. \A c \in {l1_4k, l1_2m, l2, promotion_cache} :
          \A e \in EntriesOf(c) : e.addr \in Nat /\ e.freq \in 0 .. MaxFreq - 1
    BY <2>2, LenIsSmall
  <2>6. QED
    BY <2>1, <2>3, <2>4, <2>5 DEF TypeOK
<1>2. QED
  BY <1>1, Invariance, PTL

\* The L2 TLB, the 2M TLB and the promotion cache never hold a tag twice, and
\* every entry of theirs can be found: their size is the number of pages or
\* regions they stand for, and evict() empties them (the set of
\* src/pcc/tlb.h allows it, the calls of huge_page_reuse.h do not do it).
THEOREM PccSingleCopies == Spec => []SingleCopies
<1>1. IInv => SingleCopies
  BY DEF IInv, Sound, Cached, Current, Single, SingleCopies
<1>2. QED
  BY <1>1, Invariance, PTL

\* Every key of the promotion cache stands for a region that was measured since
\* the last summary, under the tag its promotion gives it.
THEOREM PccKeysWereMeasured == Spec => []KeysWereMeasured
<1>1. IInv => KeysWereMeasured
  BY DEF IInv, Sound, Keyed, Current, EntriesOf, KeysWereMeasured
<1>2. QED
  BY <1>1, Invariance, PTL

\* When no page of the trace has the number of one of its regions, the 2M TLB
\* holds promoted regions only: no hit of a 4K entry in L2 fills it, and no
\* demotion leaves a region behind in either level.
THEOREM PccTwoMegArePromoted == Spec => [](Apart => TwoMegArePromoted)
<1>1. IInv => (Apart => TwoMegArePromoted)
  BY DEF IInv, Sound, Tagged, Current, EntriesOf, TwoMegArePromoted
<1>2. QED
  BY <1>1, Invariance, PTL

-----------------------------------------------------------------------------
(* The shootdown. *)

\* A page that is made from a region number has that region.
LEMMA RegionOfPage ==
  ASSUME NEW b \in Nat, NEW k \in 0 .. Ratio - 1
  PROVE  Region(b * Ratio + k) = b
<1> DEFINE r == Ratio
<1>1. r \in Nat \ {0}
  OBVIOUS
<1> HIDE DEF r
<1>2. k \in 0 .. r - 1
  BY DEF r
<1>3. (b * r + k) \div r = b
  BY <1>1, <1>2, Z3T(30)
<1>4. QED
  BY <1>3 DEF Region, r

\* No page of a region that s has promoted is left in s as a 4K page.
Shot(s) ==
  \A q \in PagesOf(s.promotions \ promotions) :
    /\ \A k \in DOMAIN s.l2 : s.l2[k].addr # q
    /\ \A k \in DOMAIN s.l1_4k : s.l1_4k[k].live => s.l1_4k[k].addr # q

LEMMA StartIsShot == Cached(Current) => Shot(Current) /\ Shot(Summary) /\ Shot(Start)
<1> SUFFICES ASSUME Cached(Current) PROVE Shot(Current) /\ Shot(Summary)
  BY DEF Start
<1>1. Shot(Current)
  BY DEF Shot, Current, PagesOf
<1>2. Summary.promotions = (promotions \cup ToPromote) \ ToDemote
  BY DEF Summary
<1>3. PagesOf(Summary.promotions \ promotions) \subseteq PagesOf(ToPromote)
  BY <1>2 DEF PagesOf
<1>4. Shot(Summary)
  BY <1>3, SummaryCached DEF Shot
<1>5. QED
  BY <1>1, <1>4

\* What an access to p from s enters as a 4K page: nothing but p, and p in the L2
\* TLB only when its region is not promoted.
Enters(s, p) ==
  /\ \A k \in DOMAIN l2' :
       \/ \E i \in DOMAIN s.l2 : l2'[k].addr = s.l2[i].addr
       \/ l2'[k].huge
       \/ l2'[k].addr = p /\ Region(p) \notin s.promotions
  /\ \A k \in DOMAIN l1_4k' :
       l1_4k'[k].live =>
         \/ l1_4k'[k].addr = p
         \/ \E i \in DOMAIN s.l1_4k :
              s.l1_4k[i].live /\ l1_4k'[k].addr = s.l1_4k[i].addr

\* A page that is entered in the 4K TLB brings no other to life.
LEMMA PutPage ==
  ASSUME NEW c, Fits(c, L1Assoc), NEW a \in Nat
  PROVE  LET t == Put(c, L1Assoc, a, FALSE) IN
         /\ Fits(t, L1Assoc)
         /\ \A k \in DOMAIN t :
              t[k].live =>
                t[k].addr = a \/ \E i \in DOMAIN c : c[i].live /\ t[k].addr = c[i].addr
<1> DEFINE huge == FALSE
           t == Put(c, L1Assoc, a, huge)
<1>1. huge \in BOOLEAN
  OBVIOUS
<1> HIDE DEF huge
<1>2. /\ Fits(t, L1Assoc)
      /\ \A k \in DOMAIN t :
           \/ t[k].addr = a /\ t[k].huge = huge
           \/ \E i \in DOMAIN c : /\ t[k].addr = c[i].addr /\ t[k].huge = c[i].huge
                                  /\ t[k].live => c[i].live
  BY <1>1, PutReads
<1>3. t = Put(c, L1Assoc, a, FALSE)
  BY DEF huge
<1> HIDE DEF t
<1>4. /\ Fits(t, L1Assoc)
      /\ \A k \in DOMAIN t :
           t[k].live =>
             t[k].addr = a \/ \E i \in DOMAIN c : c[i].live /\ t[k].addr = c[i].addr
  BY <1>2
<1>5. QED
  BY <1>3, <1>4

LEMMA FillEnters ==
  ASSUME NEW s, Sound(s), NEW p \in Trace, Fill(s, p)
  PROVE  Enters(s, p)
<1> DEFINE b == Region(p)
           huge == b \in s.promotions
           a == IF huge THEN b ELSE p
           once == Put(s.l1_4k, L1Assoc, p, FALSE)
           t == Put(s.l2, L2Assoc, a, huge)
<1>0. p \in Nat /\ a \in Nat /\ huge \in BOOLEAN
  BY NumbersAreNat
<1>1. /\ l2' = t
      /\ l1_4k' = IF huge THEN once ELSE Put(once, L1Assoc, p, FALSE)
  BY DEF Fill
<1>2. Fits(s.l1_4k, L1Assoc) /\ Fits(s.l2, L2Assoc)
  BY SoundReads
<1>3. /\ Fits(once, L1Assoc)
      /\ \A k \in DOMAIN once :
           once[k].live =>
             \/ once[k].addr = p
             \/ \E i \in DOMAIN s.l1_4k :
                  s.l1_4k[i].live /\ once[k].addr = s.l1_4k[i].addr
  BY <1>0, <1>2, PutPage
<1> DEFINE twice == Put(once, L1Assoc, p, FALSE)
<1> HIDE DEF once
<1>4. \A k \in DOMAIN twice :
        twice[k].live =>
          \/ twice[k].addr = p
          \/ \E i \in DOMAIN once : once[i].live /\ twice[k].addr = once[i].addr
  BY <1>0, <1>3, PutPage
<1> HIDE DEF a, huge, twice
<1>5. \A k \in DOMAIN t :
        \/ t[k].addr = a /\ t[k].huge = huge
        \/ \E i \in DOMAIN s.l2 : t[k].addr = s.l2[i].addr /\ t[k].huge = s.l2[i].huge
  BY <1>0, <1>2, PutReads
<1>6. ~ huge => a = p /\ Region(p) \notin s.promotions
  BY DEF a, huge
<1>7. l1_4k' = IF huge THEN once ELSE twice
  BY <1>1 DEF twice
<1> HIDE DEF t
<1>8. \A k \in DOMAIN l2' :
        \/ \E i \in DOMAIN s.l2 : l2'[k].addr = s.l2[i].addr
        \/ l2'[k].huge
        \/ l2'[k].addr = p /\ Region(p) \notin s.promotions
  BY <1>0, <1>1, <1>5, <1>6
<1>9. \A k \in DOMAIN l1_4k' :
        l1_4k'[k].live =>
          \/ l1_4k'[k].addr = p
          \/ \E i \in DOMAIN s.l1_4k :
               s.l1_4k[i].live /\ l1_4k'[k].addr = s.l1_4k[i].addr
  BY <1>0, <1>3, <1>4, <1>7
<1>10. QED
  BY <1>8, <1>9 DEF Enters

LEMMA TrackEnters ==
  ASSUME Sound(Current), NEW p \in Trace, Track(p)
  PROVE  Enters(Start, p) /\ promotions' = Start.promotions
<1> DEFINE s == Start
<1>1. Sound(s) /\ Fits(s.l1_4k, L1Assoc) /\ Fits(s.l2, L2Assoc)
  BY StartIsSound, SoundReads
<1>2. CASE L1Hit(p)
  <2>1. /\ l1_4k' = TouchTLB(s.l1_4k, p) /\ l2' = s.l2
        /\ promotions' = s.promotions
    BY <1>2 DEF L1Hit, Tick
  <2>2. Drawn(l1_4k', s.l1_4k)
    BY <1>1, <2>1, TouchedFits
  <2> HIDE DEF s
  <2>3. QED
    BY <2>1, <2>2, DrawnReads DEF Enters, s
<1>3. CASE L2Hit4K(p)
  <2>1. /\ l2' = TouchTLB(s.l2, p) /\ l1_4k' = Put(s.l1_4k, L1Assoc, p, FALSE)
        /\ promotions' = s.promotions
    BY <1>3 DEF L2Hit4K, Tick
  <2> HIDE DEF s
  <2>2. Drawn(l2', s.l2)
    BY <1>1, <2>1, TouchedFits
  <2>3. \A k \in DOMAIN l1_4k' :
          l1_4k'[k].live =>
            \/ l1_4k'[k].addr = p
            \/ \E i \in DOMAIN s.l1_4k :
                 s.l1_4k[i].live /\ l1_4k'[k].addr = s.l1_4k[i].addr
    <3> DEFINE c == s.l1_4k
               t == Put(c, L1Assoc, p, FALSE)
    <3>1. Fits(c, L1Assoc) /\ p \in Nat /\ l1_4k' = t
      BY <1>1, <2>1
    <3> HIDE DEF c
    <3>2. \A k \in DOMAIN t :
            t[k].live =>
              t[k].addr = p \/ \E i \in DOMAIN c : c[i].live /\ t[k].addr = c[i].addr
      BY <3>1, PutPage
    <3> HIDE DEF t
    <3>3. QED
      BY <3>1, <3>2 DEF c
  <2>4. \A k \in DOMAIN l2' : \E i \in DOMAIN s.l2 : l2'[k].addr = s.l2[i].addr
    BY <2>2, DrawnReads
  <2>5. QED
    BY <2>1, <2>3, <2>4 DEF Enters, s
<1>4. CASE L2Hit2M(p)
  <2>1. /\ l2' = TouchTLB(s.l2, Region(p)) /\ l1_4k' = s.l1_4k
        /\ promotions' = s.promotions
    BY <1>4 DEF L2Hit2M, Tick
  <2>2. Drawn(l2', s.l2)
    BY <1>1, <2>1, TouchedFits
  <2> HIDE DEF s
  <2>3. QED
    BY <2>1, <2>2, DrawnReads DEF Enters, s
<1>5. CASE WalkCold(p) \/ WalkHit(p) \/ WalkMiss(p)
  <2>1. Fill(s, p) /\ promotions' = s.promotions
    BY <1>5 DEF WalkCold, WalkHit, WalkMiss, Tick
  <2>2. QED
    BY <1>1, <2>1, FillEnters
<1>6. QED
  BY <1>2, <1>3, <1>4, <1>5 DEF Track

\* After a promotion no page of the region hits as a 4K page, in either level,
\* but for the page whose access ran the summary.
THEOREM PccPromotionShootsDown == Spec => PromotionShootsDown
<1> DEFINE A ==
      \A q \in PagesOf(promotions' \ promotions) :
        /\ q \notin Pages4K(l2')
        /\ q \in Pages4K(l1_4k') => Track(q)
<1>1. IInv /\ [Next]_pvars => [A]_pvars
  <2> SUFFICES ASSUME IInv, Next PROVE A
    OBVIOUS
  <2>1. Sound(Current) /\ Cached(Current)
    BY DEF IInv, Sound
  <2>2. CASE Finish
    <3>1. PICK s \in {Summary, Current} :
            /\ l1_4k' = s.l1_4k /\ l2' = s.l2 /\ promotions' = s.promotions
      BY <2>2 DEF Finish
    <3>2. Shot(s)
      BY <2>1, <3>1, StartIsShot
    <3>3. QED
      BY <3>1, <3>2 DEF Shot, Pages4K, EntriesOf
  <2>3. ASSUME NEW p \in Trace, Track(p) PROVE A
    <3> DEFINE s == Start
    <3>1. /\ Shot(s) /\ Sound(s) /\ Enters(s, p) /\ promotions' = s.promotions
      BY <2>1, <2>3, StartIsShot, StartIsSound, TrackEnters
    <3> HIDE DEF s
    <3>2. SUFFICES ASSUME NEW q \in PagesOf(s.promotions \ promotions)
                   PROVE  /\ q \notin Pages4K(l2')
                          /\ q \in Pages4K(l1_4k') => q = p
      BY <2>3, <3>1
    <3>3. Region(q) \in s.promotions
      <4>1. PICK b \in s.promotions, k \in 0 .. Ratio - 1 : q = b * Ratio + k
        BY DEF PagesOf
      <4>2. b \in Nat
        BY <3>1, SoundReads
      <4>3. QED
        BY <4>1, <4>2, RegionOfPage
    <3>4. ASSUME q \in Pages4K(l2') PROVE FALSE
      <4>1. PICK k \in DOMAIN l2' : l2'[k].addr = q /\ ~ l2'[k].huge
        BY <3>4 DEF Pages4K, EntriesOf
      <4>2. CASE \E i \in DOMAIN s.l2 : l2'[k].addr = s.l2[i].addr
        BY <3>1, <4>1, <4>2 DEF Shot
      <4>3. CASE l2'[k].addr = p /\ Region(p) \notin s.promotions
        BY <3>3, <4>1, <4>3
      <4>4. QED
        BY <3>1, <4>1, <4>2, <4>3 DEF Enters
    <3>5. ASSUME q \in Pages4K(l1_4k') PROVE q = p
      <4>1. PICK k \in DOMAIN l1_4k' : l1_4k'[k].addr = q /\ l1_4k'[k].live
        BY <3>5 DEF Pages4K, EntriesOf
      <4>2. QED
        BY <3>1, <4>1 DEF Enters, Shot
    <3>6. QED
      BY <3>4, <3>5
  <2>4. QED
    BY <2>2, <2>3 DEF Next
<1>2. QED
  BY <1>1, Invariance, PTL DEF Spec, PromotionShootsDown

\* What a summary promotes is a region that was measured while unpromoted, or the
\* number under which a promoted region was filed in the promotion cache: the
\* second kind is all that the comment of line 40 ("promoting data that is not
\* already promoted") is wrong about.
Refiled == {Region(b) : b \in measured \cap promotions}

THEOREM PccPromotesMeasuredOrRefiled ==
  Spec => [][ promotions' \ promotions \subseteq (measured \ promotions) \cup Refiled ]_pvars
<1> DEFINE A == promotions' \ promotions \subseteq (measured \ promotions) \cup Refiled
<1>1. IInv /\ [Next]_pvars => [A]_pvars
  <2> SUFFICES ASSUME IInv, Next PROVE A
    OBVIOUS
  <2>1. promotions' \in {Current.promotions, Summary.promotions}
    BY DEF Next, Track, L1Hit, L2Hit4K, L2Hit2M, WalkCold, WalkHit, WalkMiss, Tick,
           Finish, Start
  <2>2. promotions' \ promotions \subseteq ToPromote
    BY <2>1 DEF Current, Summary
  <2>3. ASSUME NEW e \in EntriesOf(promotion_cache)
        PROVE  e.addr \in (measured \ promotions) \cup Refiled
    BY DEF IInv, Sound, Keyed, Current, EntriesOf, Refiled
  <2>4. QED
    BY <2>2, <2>3 DEF ToPromote
<1>2. QED
  BY <1>1, Invariance, PTL DEF Spec

=============================================================================
