---------------------------- MODULE Places_proofs ----------------------------
(***************************************************************************)
(* Facts about places in sequences, for sequences of anything: how long a  *)
(* sequence is and what stands where after an insertion, a removal or the  *)
(* selection of some of its places.                                        *)
(***************************************************************************)
EXTENDS Integers, Sequences, SequencesExt, FiniteSetTheorems, SequenceTheorems, TLAPS

-----------------------------------------------------------------------------
(* Insertion and removal at a place. *)

\* t is r with e put in at place i.
InsertedAt(t, r, i, e) ==
  /\ Len(t) = Len(r) + 1
  /\ \A k \in 1 .. Len(r) + 1 :
       t[k] = IF k < i THEN r[k] ELSE IF k = i THEN e ELSE r[k - 1]

LEMMA InsertAtReads ==
  ASSUME NEW E, NEW r \in Seq(E), NEW i \in 1 .. Len(r) + 1, NEW e \in E
  PROVE  /\ InsertAt(r, i, e) \in Seq(E)
         /\ InsertedAt(InsertAt(r, i, e), r, i, e)
<1> DEFINE a == SubSeq(r, 1, i - 1)
           b == SubSeq(r, i, Len(r))
<1>1. Len(r) \in Nat /\ \A k \in 1 .. Len(r) : r[k] \in E
  BY LenProperties, ElementOfSeq
<1>2. a \in Seq(E) /\ Len(a) = i - 1 /\ \A k \in 1 .. i - 1 : a[k] = r[k]
  BY <1>1, SubSeqProperties
<1>3. /\ b \in Seq(E) /\ Len(b) = Len(r) - i + 1
      /\ \A k \in 1 .. Len(r) - i + 1 : b[k] = r[i + k - 1]
  BY <1>1, SubSeqProperties
<1>4. <<e>> \in Seq(E) /\ Len(<<e>>) = 1 /\ <<e>>[1] = e
  OBVIOUS
<1> HIDE DEF a, b
<1>5. /\ a \o <<e>> \in Seq(E) /\ Len(a \o <<e>>) = i
      /\ \A k \in 1 .. i : (a \o <<e>>)[k] = IF k < i THEN r[k] ELSE e
  BY <1>2, <1>4, ConcatProperties
<1>6. /\ (a \o <<e>>) \o b \in Seq(E)
      /\ Len((a \o <<e>>) \o b) = Len(r) + 1
      /\ \A k \in 1 .. Len(r) + 1 :
           ((a \o <<e>>) \o b)[k] = IF k <= i THEN (a \o <<e>>)[k] ELSE b[k - i]
  <2> DEFINE d == a \o <<e>>
  <2>1. d \in Seq(E) /\ b \in Seq(E) /\ Len(d) = i
    BY <1>3, <1>5
  <2> HIDE DEF d
  <2>2. /\ d \o b \in Seq(E) /\ Len(d \o b) = Len(d) + Len(b)
        /\ \A k \in 1 .. Len(d) + Len(b) :
             (d \o b)[k] = IF k <= Len(d) THEN d[k] ELSE b[k - Len(d)]
    BY <2>1, ConcatProperties
  <2>3. Len(d) + Len(b) = Len(r) + 1
    BY <1>1, <1>3, <2>1
  <2>4. QED
    BY <2>1, <2>2, <2>3 DEF d
<1>7. InsertAt(r, i, e) = (a \o <<e>>) \o b
  BY DEF InsertAt, a, b
<1>8. \A k \in i + 1 .. Len(r) + 1 : b[k - i] = r[k - 1]
  BY <1>1, <1>3
<1> HIDE DEF a, b
<1>9. \A k \in 1 .. Len(r) + 1 :
        ((a \o <<e>>) \o b)[k] = IF k < i THEN r[k] ELSE IF k = i THEN e ELSE r[k - 1]
  <2> SUFFICES ASSUME NEW k \in 1 .. Len(r) + 1
               PROVE  ((a \o <<e>>) \o b)[k] =
                        IF k < i THEN r[k] ELSE IF k = i THEN e ELSE r[k - 1]
    OBVIOUS
  <2>1. CASE k <= i
    BY <1>5, <1>6, <2>1
  <2>2. CASE k > i
    BY <1>1, <1>6, <1>8, <2>2
  <2>3. k <= i \/ k > i
    BY <1>1
  <2>4. QED
    BY <2>1, <2>2, <2>3
<1>10. QED
  BY <1>6, <1>7, <1>9 DEF InsertedAt

LEMMA RemoveAtReads ==
  ASSUME NEW E, NEW r \in Seq(E), NEW i \in 1 .. Len(r)
  PROVE  /\ RemoveAt(r, i) \in Seq(E)
         /\ Len(RemoveAt(r, i)) = Len(r) - 1
         /\ \A k \in 1 .. Len(r) - 1 :
              RemoveAt(r, i)[k] = IF k < i THEN r[k] ELSE r[k + 1]
<1> DEFINE a == SubSeq(r, 1, i - 1)
           b == SubSeq(r, i + 1, Len(r))
<1>1. Len(r) \in Nat /\ \A k \in 1 .. Len(r) : r[k] \in E
  BY LenProperties, ElementOfSeq
<1>2. a \in Seq(E) /\ Len(a) = i - 1 /\ \A k \in 1 .. i - 1 : a[k] = r[k]
  BY <1>1, SubSeqProperties
<1>3. /\ b \in Seq(E) /\ Len(b) = Len(r) - i
      /\ \A k \in 1 .. Len(r) - i : b[k] = r[i + k]
  BY <1>1, SubSeqProperties
<1> HIDE DEF a, b
<1>4. /\ a \o b \in Seq(E) /\ Len(a \o b) = Len(r) - 1
      /\ \A k \in 1 .. Len(r) - 1 : (a \o b)[k] = IF k <= i - 1 THEN a[k] ELSE b[k - (i - 1)]
  <2>1. /\ a \o b \in Seq(E) /\ Len(a \o b) = Len(a) + Len(b)
        /\ \A k \in 1 .. Len(a) + Len(b) :
             (a \o b)[k] = IF k <= Len(a) THEN a[k] ELSE b[k - Len(a)]
    BY <1>2, <1>3, ConcatProperties
  <2>2. Len(a) + Len(b) = Len(r) - 1
    BY <1>1, <1>2, <1>3
  <2>3. QED
    BY <1>2, <2>1, <2>2
<1>5. RemoveAt(r, i) = a \o b
  BY DEF RemoveAt, a, b
<1>6. \A k \in i .. Len(r) - 1 : b[k - (i - 1)] = r[k + 1]
  <2> SUFFICES ASSUME NEW k \in i .. Len(r) - 1 PROVE b[k - (i - 1)] = r[k + 1]
    OBVIOUS
  <2>1. k - (i - 1) \in 1 .. Len(r) - i /\ i + (k - (i - 1)) = k + 1
    BY <1>1
  <2>2. QED
    BY <1>3, <2>1
<1>7. QED
  BY <1>1, <1>2, <1>4, <1>5, <1>6

LEMMA FrontReads ==
  ASSUME NEW E, NEW r \in Seq(E), Len(r) > 0
  PROVE  /\ Front(r) \in Seq(E)
         /\ Len(Front(r)) = Len(r) - 1
         /\ \A k \in 1 .. Len(r) - 1 : Front(r)[k] = r[k]
<1>1. Len(r) \in Nat /\ \A k \in 1 .. Len(r) : r[k] \in E
  BY LenProperties, ElementOfSeq
<1>2. /\ SubSeq(r, 1, Len(r) - 1) \in Seq(E)
      /\ Len(SubSeq(r, 1, Len(r) - 1)) = Len(r) - 1
      /\ \A k \in 1 .. Len(r) - 1 : SubSeq(r, 1, Len(r) - 1)[k] = r[k]
  <2>1. 1 \in Int /\ Len(r) - 1 \in Int /\ \A k \in 1 .. Len(r) - 1 : r[k] \in E
    BY <1>1
  <2> DEFINE f == SubSeq(r, 1, Len(r) - 1)
  <2>2. /\ f \in Seq(E)
        /\ Len(f) = IF 1 <= Len(r) - 1 THEN Len(r) - 1 - 1 + 1 ELSE 0
        /\ \A k \in 1 .. Len(r) - 1 - 1 + 1 : f[k] = r[1 + k - 1]
    BY <2>1, SubSeqProperties
  <2> HIDE DEF f
  <2>3. Len(f) = Len(r) - 1
    <3>1. \A n \in Nat : n > 0 => (IF 1 <= n - 1 THEN n - 1 - 1 + 1 ELSE 0) = n - 1
      OBVIOUS
    <3>2. QED
      BY <1>1, <2>2, <3>1
  <2>4. ASSUME NEW k \in 1 .. Len(r) - 1 PROVE f[k] = r[k]
    <3>1. k \in 1 .. Len(r) - 1 - 1 + 1 /\ 1 + k - 1 = k
      BY <1>1
    <3>2. QED
      BY <2>2, <3>1
  <2>5. QED
    BY <2>2, <2>3, <2>4 DEF f
<1>3. QED
  BY <1>2 DEF Front

-----------------------------------------------------------------------------
(* The selection of some places. *)

\* The least member of a set of naturals.
LEMMA LeastOf ==
  ASSUME NEW T \in SUBSET Nat, T # {}
  PROVE  \E x \in T : \A y \in T : x <= y
<1>1. PICK x \in T : \A y \in T : <<y, x>> \notin OpToRel(<, Nat)
  BY NatLessThanWellFounded, WFMin
<1>2. ASSUME NEW y \in T PROVE x <= y
  <2>1. <<y, x>> \in Nat \X Nat /\ <<y, x>>[1] = y /\ <<y, x>>[2] = x
    OBVIOUS
  <2>2. ~ (y < x)
    BY <1>1, <2>1 DEF OpToRel
  <2>3. QED
    BY <2>2
<1>3. QED
  BY <1>2

\* How many members of S come no later than i.
UpTo(S, i) == Cardinality({j \in S : j <= i})

LEMMA UpToCounts ==
  ASSUME NEW n \in Nat, NEW S \in SUBSET (1 .. n)
  PROVE  /\ IsFiniteSet(S) /\ Cardinality(S) \in 0 .. n
         /\ \A i \in 0 .. n : UpTo(S, i) \in 0 .. Cardinality(S)
         /\ UpTo(S, 0) = 0 /\ UpTo(S, n) = Cardinality(S)
         /\ \A i \in 1 .. n :
              UpTo(S, i) = UpTo(S, i - 1) + IF i \in S THEN 1 ELSE 0
<1>1. IsFiniteSet(1 .. n) /\ Cardinality(1 .. n) = n
  BY FS_Interval
<1>2. IsFiniteSet(S) /\ Cardinality(S) \in 0 .. n
  <2>1. IsFiniteSet(S) /\ Cardinality(S) <= n
    BY <1>1, FS_Subset
  <2>2. Cardinality(S) \in Nat
    BY <2>1, FS_CardinalityType
  <2>3. QED
    BY <2>1, <2>2
<1>0. \A j \in S : j \in Int /\ 1 <= j /\ j <= n
  OBVIOUS
<1>3. ASSUME NEW i \in 0 .. n
      PROVE  IsFiniteSet({j \in S : j <= i}) /\ UpTo(S, i) \in 0 .. Cardinality(S)
  <2>1. /\ IsFiniteSet({j \in S : j <= i})
        /\ Cardinality({j \in S : j <= i}) <= Cardinality(S)
    BY <1>2, FS_Subset
  <2>2. QED
    BY <2>1, <1>2, FS_CardinalityType DEF UpTo
<1>4. UpTo(S, 0) = 0
  <2>1. {j \in S : j <= 0} = {}
    <3>1. \A j \in S : ~ (j <= 0)
      BY <1>0
    <3>2. QED
      BY <3>1
  <2>2. QED
    BY <2>1, FS_EmptySet DEF UpTo
<1>5. UpTo(S, n) = Cardinality(S)
  <2>1. {j \in S : j <= n} = S
    BY <1>0
  <2>2. QED
    BY <2>1 DEF UpTo
<1>6. ASSUME NEW i \in 1 .. n
      PROVE  UpTo(S, i) = UpTo(S, i - 1) + IF i \in S THEN 1 ELSE 0
  <2>1. i - 1 \in 0 .. n /\ i \in 0 .. n
    OBVIOUS
  <2>2. CASE i \in S
    <3>1. {j \in S : j <= i} = {j \in S : j <= i - 1} \cup {i}
      <4>1. \A j \in S : j <= i <=> j <= i - 1 \/ j = i
        BY <1>0
      <4>2. QED
        BY <2>2, <4>1
    <3>2. i \notin {j \in S : j <= i - 1}
      OBVIOUS
    <3>3. UpTo(S, i) = UpTo(S, i - 1) + 1
      BY <1>3, <2>1, <3>1, <3>2, FS_AddElement DEF UpTo
    <3>4. QED
      BY <2>2, <3>3
  <2>3. CASE i \notin S
    <3>1. {j \in S : j <= i} = {j \in S : j <= i - 1}
      <4>1. \A j \in S : j <= i <=> j <= i - 1 \/ j = i
        BY <1>0
      <4>2. QED
        BY <2>3, <4>1
    <3>2. QED
      BY <1>2, <1>3, <2>1, <2>3, <3>1 DEF UpTo
  <2>4. QED
    BY <2>2, <2>3
<1>7. QED
  BY <1>2, <1>3, <1>4, <1>5, <1>6

\* Every member of a finite set of numbers has a rank of its own.
LEMMA RanksExist ==
  ASSUME NEW n \in Nat, NEW S \in SUBSET (1 .. n), NEW k \in 1 .. Cardinality(S)
  PROVE  \E i \in S : UpTo(S, i) = k
<1> DEFINE T == {i \in 0 .. n : UpTo(S, i) >= k}
<1>1. n \in T /\ T \in SUBSET Nat
  BY UpToCounts
<1>2. PICK i \in T : \A y \in T : i <= y
  <2>1. T # {}
    BY <1>1
  <2> HIDE DEF T
  <2>2. QED
    BY <1>1, <2>1, LeastOf
<1>3. i \in 1 .. n
  BY <1>2, UpToCounts
<1>4. i - 1 \in 0 .. n /\ i - 1 \notin T
  BY <1>2, <1>3
<1>5. /\ UpTo(S, i) = UpTo(S, i - 1) + IF i \in S THEN 1 ELSE 0
      /\ UpTo(S, i) \in 0 .. Cardinality(S) /\ UpTo(S, i - 1) \in 0 .. Cardinality(S)
      /\ Cardinality(S) \in 0 .. n
  BY <1>3, <1>4, UpToCounts
<1>6. UpTo(S, i) >= k /\ ~ (UpTo(S, i - 1) >= k)
  BY <1>2, <1>3, <1>4
<1>8. i \in S /\ UpTo(S, i) = k
  <2> DEFINE x == UpTo(S, i)
             y == UpTo(S, i - 1)
  <2>1. /\ x = y + IF i \in S THEN 1 ELSE 0
        /\ x \in Nat /\ y \in Nat /\ k \in Nat /\ x >= k /\ ~ (y >= k)
    BY <1>5, <1>6
  <2> HIDE DEF x, y
  <2>2. i \in S /\ x = k
    BY <2>1
  <2>3. QED
    BY <2>2 DEF x
<1>7. QED
  BY <1>8

LEMMA RanksDiffer ==
  ASSUME NEW n \in Nat, NEW S \in SUBSET (1 .. n), NEW i \in S, NEW j \in S, i < j
  PROVE  UpTo(S, i) < UpTo(S, j)
<1>1. /\ IsFiniteSet({m \in S : m <= j}) /\ IsFiniteSet({m \in S : m <= i})
      /\ {m \in S : m <= i} \subseteq {m \in S : m <= j} \ {j}
      /\ j \in {m \in S : m <= j}
  <2>1. IsFiniteSet(S)
    BY UpToCounts
  <2>2. \A m \in S : m \in Int /\ (m <= i => m <= j /\ m # j)
    OBVIOUS
  <2>3. IsFiniteSet({m \in S : m <= j}) /\ IsFiniteSet({m \in S : m <= i})
    BY <2>1, FS_Subset
  <2>4. j <= j
    OBVIOUS
  <2>5. QED
    BY <2>2, <2>3, <2>4
<1>2. /\ IsFiniteSet({m \in S : m <= j} \ {j})
      /\ Cardinality({m \in S : m <= j} \ {j}) = Cardinality({m \in S : m <= j}) - 1
  BY <1>1, FS_RemoveElement
<1>3. Cardinality({m \in S : m <= i}) <= Cardinality({m \in S : m <= j} \ {j})
  BY <1>1, <1>2, FS_Subset
<1>4. QED
  BY <1>1, <1>2, <1>3, FS_CardinalityType DEF UpTo

\* What stands at the places S of r, in the order it has there and without gaps.
Kept(r, S) == [k \in 1 .. Cardinality(S) |-> r[CHOOSE i \in S : UpTo(S, i) = k]]

LEMMA KeptReads ==
  ASSUME NEW E, NEW r \in Seq(E), NEW S \in SUBSET DOMAIN r
  PROVE  LET s == Kept(r, S) IN
         /\ s \in Seq(E) /\ Len(s) = Cardinality(S) /\ Len(s) <= Len(r)
         /\ DOMAIN s = 1 .. Cardinality(S)
         /\ \E at \in [DOMAIN s -> S] :
              \A k \in DOMAIN s : s[k] = r[at[k]] /\ UpTo(S, at[k]) = k
<1> DEFINE nth(k) == CHOOSE i \in S : UpTo(S, i) = k
           s == Kept(r, S)
<1>1. Len(r) \in Nat /\ DOMAIN r = 1 .. Len(r) /\ \A k \in 1 .. Len(r) : r[k] \in E
  BY LenProperties, ElementOfSeq
<1>2. S \in SUBSET (1 .. Len(r))
  BY <1>1
<1>3. Cardinality(S) \in 0 .. Len(r)
  BY <1>1, <1>2, UpToCounts
<1>4. s = [k \in 1 .. Cardinality(S) |-> r[nth(k)]]
  BY DEF Kept
<1> HIDE DEF s
<1>5. ASSUME NEW k \in 1 .. Cardinality(S) PROVE nth(k) \in S /\ UpTo(S, nth(k)) = k
  <2>1. \E i \in S : UpTo(S, i) = k
    BY <1>1, <1>2, RanksExist
  <2>2. QED
    BY <2>1
<1> HIDE DEF nth
<1>6. \A k \in 1 .. Cardinality(S) : r[nth(k)] \in E
  BY <1>1, <1>2, <1>5
<1>7. s \in Seq(E) /\ Len(s) = Cardinality(S)
  BY <1>3, <1>4, <1>6, IsASeq, LenProperties
<1>8. \E at \in [DOMAIN s -> S] :
        \A k \in DOMAIN s : s[k] = r[at[k]] /\ UpTo(S, at[k]) = k
  <2> DEFINE at == [k \in 1 .. Cardinality(S) |-> nth(k)]
  <2>1. /\ at \in [DOMAIN s -> S]
        /\ \A k \in DOMAIN s : s[k] = r[at[k]] /\ UpTo(S, at[k]) = k
    BY <1>4, <1>5
  <2> HIDE DEF at
  <2>2. QED
    BY <2>1
<1>9. /\ s \in Seq(E) /\ Len(s) = Cardinality(S) /\ Len(s) <= Len(r)
      /\ DOMAIN s = 1 .. Cardinality(S)
  BY <1>1, <1>3, <1>4, <1>7
<1>10. QED
  BY <1>8, <1>9 DEF s

=============================================================================
