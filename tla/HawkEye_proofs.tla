--------------------------- MODULE HawkEye_proofs ---------------------------
(***************************************************************************)
(* Proofs about HawkEye, for every number of regions, pages, buckets and   *)
(* promotions and every weight of the average.                             *)
(***************************************************************************)
EXTENDS HawkEye, Places_proofs, FunctionTheorems

USE SizeAssumption

-----------------------------------------------------------------------------
(* One bucket. *)

Once(s, b)  == \E i \in DOMAIN s : s[i] = b /\ \A j \in DOMAIN s : s[j] = b => j = i
Never(s, b) == \A i \in DOMAIN s : s[i] # b

LEMMA RemoveFirstReads ==
  ASSUME NEW E, NEW s \in Seq(E), NEW b \in E
  PROVE  /\ RemoveFirst(s, b) \in Seq(E)
         /\ Never(s, b) => RemoveFirst(s, b) = s
         /\ Once(s, b) => \E i \in 1 .. Len(s) :
              /\ s[i] = b /\ \A j \in 1 .. Len(s) : s[j] = b => j = i
              /\ RemoveFirst(s, b) = RemoveAt(s, i)
<1> DEFINE I == {i \in 1 .. Len(s) : s[i] = b}
<1>1. Len(s) \in Nat /\ DOMAIN s = 1 .. Len(s)
  BY LenProperties
<1>2. SelectInSeq(s, LAMBDA v : v = b) = IF I # {} THEN Min(I) ELSE 0
  BY DEF SelectInSeq
<1>3. CASE I = {}
  <2>1. RemoveFirst(s, b) = s
    BY <1>3 DEF RemoveFirst
  <2>2. ~ Once(s, b)
    BY <1>1, <1>3 DEF Once
  <2>3. QED
    BY <2>1, <2>2
<1>4. CASE I # {}
  <2> DEFINE i == Min(I)
  <2>1. I \in SUBSET Nat
    OBVIOUS
  <2>2. \E x \in I : \A y \in I : x <= y
    <3> HIDE DEF I
    <3>1. QED
      BY <1>4, <2>1, LeastOf
  <2>3. i \in I
    <3> HIDE DEF I
    <3>1. QED
      BY <2>2 DEF Min
  <2>4. RemoveFirst(s, b) = RemoveAt(s, i)
    <3>1. \E j \in 1 .. Len(s) : s[j] = b
      BY <1>4
    <3>2. RemoveFirst(s, b) = RemoveAt(s, SelectInSeq(s, LAMBDA v : v = b))
      BY <3>1 DEF RemoveFirst
    <3>3. QED
      BY <1>2, <1>4, <3>2
  <2> HIDE DEF i
  <2>5. i \in 1 .. Len(s) /\ s[i] = b
    BY <2>3
  <2>6. RemoveFirst(s, b) \in Seq(E)
    BY <2>4, <2>5, RemoveAtReads
  <2>7. ~ Never(s, b)
    BY <1>1, <2>5 DEF Never
  <2>8. Once(s, b) => \A j \in 1 .. Len(s) : s[j] = b => j = i
    BY <1>1, <2>5 DEF Once
  <2>9. QED
    BY <2>4, <2>5, <2>6, <2>7, <2>8
<1>5. QED
  BY <1>3, <1>4

\* Taking b out of a bucket that holds it at most once leaves no b and keeps
\* every other region as often as it was there.
LEMMA RemoveKeeps ==
  ASSUME NEW E, NEW s \in Seq(E), NEW b \in E, Once(s, b) \/ Never(s, b)
  PROVE  /\ RemoveFirst(s, b) \in Seq(E)
         /\ Never(RemoveFirst(s, b), b)
         /\ \A c \in E : c # b => /\ Once(s, c) => Once(RemoveFirst(s, b), c)
                                  /\ Never(s, c) => Never(RemoveFirst(s, b), c)
<1>1. CASE Never(s, b)
  BY <1>1, RemoveFirstReads
<1>2. CASE Once(s, b)
  <2> DEFINE n == Len(s)
  <2>1. PICK i \in 1 .. Len(s) : /\ s[i] = b /\ \A j \in 1 .. Len(s) : s[j] = b => j = i
                                 /\ RemoveFirst(s, b) = RemoveAt(s, i)
    BY <1>2, RemoveFirstReads
  <2> DEFINE t == RemoveAt(s, i)
  <2>2. /\ t \in Seq(E) /\ Len(t) = n - 1 /\ n \in Nat /\ i \in 1 .. n
        /\ \A k \in 1 .. n - 1 : t[k] = IF k < i THEN s[k] ELSE s[k + 1]
    BY RemoveAtReads, LenProperties
  <2>3. DOMAIN s = 1 .. n /\ DOMAIN t = 1 .. n - 1
    BY <2>2, LenProperties
  <2>4. s[i] = b /\ \A j \in 1 .. n : s[j] = b => j = i
    BY <2>1
  <2> HIDE DEF t, n
  <2>5. \A k \in 1 .. n - 1 : \E j \in 1 .. n : t[k] = s[j] /\ j # i
                                /\ j = IF k < i THEN k ELSE k + 1
    <3> SUFFICES ASSUME NEW k \in 1 .. n - 1
                 PROVE  \E j \in 1 .. n : t[k] = s[j] /\ j # i
                          /\ j = IF k < i THEN k ELSE k + 1
      OBVIOUS
    <3>1. CASE k < i
      BY <2>2, <3>1
    <3>2. CASE ~ (k < i)
      <4>1. k + 1 \in 1 .. n /\ k + 1 # i
        BY <2>2, <3>2
      <4>2. QED
        BY <2>2, <3>2, <4>1
    <3>3. QED
      BY <3>1, <3>2
  <2>6. Never(t, b)
    BY <2>3, <2>4, <2>5 DEF Never
  <2>7. ASSUME NEW c \in E, c # b, Never(s, c) PROVE Never(t, c)
    BY <2>3, <2>5, <2>7 DEF Never
  <2>8. ASSUME NEW c \in E, c # b, Once(s, c) PROVE Once(t, c)
    <3>1. PICK m \in 1 .. n : s[m] = c /\ \A j \in 1 .. n : s[j] = c => j = m
      BY <2>3, <2>8 DEF Once
    <3>2. m # i
      BY <2>4, <2>8, <3>1
    <3> DEFINE k == IF m < i THEN m ELSE m - 1
    <3>3. k \in 1 .. n - 1 /\ t[k] = c
      <4>1. CASE m < i
        <5>1. m \in 1 .. n - 1
          BY <2>2, <4>1
        <5>2. QED
          BY <2>2, <3>1, <4>1, <5>1
      <4>2. CASE m > i
        <5>1. m - 1 \in 1 .. n - 1 /\ ~ (m - 1 < i) /\ (m - 1) + 1 = m /\ ~ (m < i)
          BY <2>2, <4>2
        <5>2. t[m - 1] = s[(m - 1) + 1]
          BY <2>2, <5>1
        <5>3. QED
          BY <3>1, <5>1, <5>2
      <4>3. QED
        BY <2>2, <3>2, <4>1, <4>2
    <3>4. \A j \in 1 .. n - 1 : t[j] = c => j = k
      <4> SUFFICES ASSUME NEW j \in 1 .. n - 1, t[j] = c PROVE j = k
        OBVIOUS
      <4>1. PICK l \in 1 .. n : t[j] = s[l] /\ l = IF j < i THEN j ELSE j + 1
        BY <2>5
      <4>2. l = m
        BY <3>1, <4>1
      <4>3. QED
        BY <2>2, <3>2, <4>1, <4>2
    <3> HIDE DEF k
    <3>5. QED
      BY <2>3, <3>3, <3>4 DEF Once
  <2>9. QED
    BY <2>1, <2>2, <2>6, <2>7, <2>8 DEF t
<1>3. QED
  BY <1>1, <1>2

LEMMA AppendKeeps ==
  ASSUME NEW E, NEW s \in Seq(E), NEW b \in E, Never(s, b)
  PROVE  /\ Append(s, b) \in Seq(E)
         /\ Once(Append(s, b), b)
         /\ \A c \in E : c # b => /\ Once(s, c) => Once(Append(s, b), c)
                                  /\ Never(s, c) => Never(Append(s, b), c)
<1> DEFINE n == Len(s)
           t == Append(s, b)
<1>1. /\ n \in Nat /\ DOMAIN s = 1 .. n
      /\ t \in Seq(E) /\ Len(t) = n + 1 /\ DOMAIN t = 1 .. n + 1
      /\ \A k \in 1 .. n : t[k] = s[k]
      /\ t[n + 1] = b
  BY LenProperties, AppendProperties
<1> HIDE DEF n, t
<1>2. \A k \in 1 .. n + 1 : k \in 1 .. n \/ k = n + 1
  BY <1>1
<1>3. n + 1 \in 1 .. n + 1 /\ \A k \in 1 .. n : k \in 1 .. n + 1
  BY <1>1
<1>4. Once(t, b)
  BY <1>1, <1>2, <1>3 DEF Once, Never
<1>5. ASSUME NEW c \in E, c # b, Once(s, c) PROVE Once(t, c)
  <2>1. PICK m \in 1 .. n : s[m] = c /\ \A j \in 1 .. n : s[j] = c => j = m
    BY <1>1, <1>5 DEF Once
  <2>2. m \in 1 .. n + 1 /\ t[m] = c
    BY <1>1, <1>3, <2>1
  <2>3. \A j \in 1 .. n + 1 : t[j] = c => j = m
    BY <1>1, <1>2, <1>5, <2>1
  <2>4. QED
    BY <1>1, <2>2, <2>3 DEF Once
<1>6. ASSUME NEW c \in E, c # b, Never(s, c) PROVE Never(t, c)
  BY <1>1, <1>2, <1>3, <1>6 DEF Never
<1>7. QED
  BY <1>1, <1>4, <1>5, <1>6 DEF t

-----------------------------------------------------------------------------
(* All buckets. *)

AllBuckets == [Buckets -> Seq(Bases)]
None       == -1

\* Region b stands once in the bucket home and in no other; with home = None,
\* in no bucket.
InPlace(B, b, home) ==
  \A k \in Buckets : IF k = home THEN Once(B[k], b) ELSE Never(B[k], b)

LEMMA Sizes ==
  /\ NumBuckets \in Nat /\ NumBuckets > 0 /\ BucketSize * Scale \in Nat \ {0}
  /\ \A k \in Int : Clamp(k) \in Buckets /\ (k \in Buckets => Clamp(k) = k)
  /\ 0 \in Buckets /\ None \notin Buckets
<1>1. NumBuckets \in Nat /\ NumBuckets > 0
  BY SizeAssumption
<1>2. BucketSize * Scale \in Nat \ {0}
  <2>1. \A m, n \in Nat \ {0} : m * n \in Nat \ {0}
    OBVIOUS
  <2>2. QED
    BY <2>1, SizeAssumption
<1>3. QED
  BY <1>1, <1>2 DEF Clamp, Buckets, None

LEMMA BucketOfNumber == \A x \in Int : BucketOf(x) \in Int
<1>1. BucketSize * Scale \in Nat \ {0}
  BY Sizes
<1>2. \A x \in Int, n \in Nat \ {0} : Quotient(x, n) \in Int
  BY DEF Quotient
<1>3. QED
  BY <1>1, <1>2 DEF BucketOf

\* change_bucket, given that the region is in its old bucket or nowhere.
LEMMA ChangeBucketPlaces ==
  ASSUME NEW B \in AllBuckets, NEW b \in Bases, NEW old \in Buckets, NEW new \in Int,
         NEW home \in {old, None}, InPlace(B, b, home)
  PROVE  /\ ChangeBucket(B, b, old, new) \in AllBuckets
         /\ InPlace(ChangeBucket(B, b, old, new), b, Clamp(new))
         /\ \A c \in Bases \ {b} : \A h \in Buckets \cup {None} :
              InPlace(B, c, h) => InPlace(ChangeBucket(B, b, old, new), c, h)
<1> DEFINE r    == RemoveFirst(B[old], b)
           C    == [B EXCEPT ![old] = r]
           to   == Clamp(new)
           D    == [C EXCEPT ![to] = Append(C[to], b)]
<1>1. ChangeBucket(B, b, old, new) = D
  BY DEF ChangeBucket
<1>2. to \in Buckets /\ None \notin Buckets
  BY Sizes
<1>3. \A k \in Buckets : B[k] \in Seq(Bases)
  BY DEF AllBuckets
<1>4. Once(B[old], b) \/ Never(B[old], b)
  BY <1>2 DEF InPlace
<1>5. /\ r \in Seq(Bases) /\ Never(r, b)
      /\ \A c \in Bases : c # b => /\ Once(B[old], c) => Once(r, c)
                                   /\ Never(B[old], c) => Never(r, c)
  BY <1>3, <1>4, RemoveKeeps
<1> HIDE DEF r
<1>6. /\ C \in AllBuckets
      /\ \A k \in Buckets : C[k] = IF k = old THEN r ELSE B[k]
  BY <1>5 DEF AllBuckets
<1> HIDE DEF C
<1>7. \A k \in Buckets : Never(C[k], b)
  BY <1>2, <1>5, <1>6 DEF InPlace
<1>8. \A c \in Bases \ {b} : \A h \in Buckets \cup {None} :
        InPlace(B, c, h) => InPlace(C, c, h)
  BY <1>5, <1>6 DEF InPlace
<1>9. C[to] \in Seq(Bases)
  BY <1>2, <1>6 DEF AllBuckets
<1> HIDE DEF to
<1>10. /\ Append(C[to], b) \in Seq(Bases)
       /\ Once(Append(C[to], b), b)
       /\ \A c \in Bases : c # b => /\ Once(C[to], c) => Once(Append(C[to], b), c)
                                    /\ Never(C[to], c) => Never(Append(C[to], b), c)
  <2> DEFINE s == C[to]
  <2>1. s \in Seq(Bases) /\ Never(s, b)
    BY <1>2, <1>7, <1>9
  <2> HIDE DEF s
  <2>2. /\ Append(s, b) \in Seq(Bases)
        /\ Once(Append(s, b), b)
        /\ \A c \in Bases : c # b => /\ Once(s, c) => Once(Append(s, b), c)
                                     /\ Never(s, c) => Never(Append(s, b), c)
    BY <2>1, AppendKeeps
  <2>3. QED
    BY <2>2 DEF s
<1> DEFINE a == Append(C[to], b)
<1>11. /\ D \in AllBuckets
       /\ \A k \in Buckets : D[k] = IF k = to THEN a ELSE C[k]
  BY <1>2, <1>6, <1>10 DEF AllBuckets
<1>12. /\ Once(a, b)
       /\ \A c \in Bases : c # b => /\ Once(C[to], c) => Once(a, c)
                                    /\ Never(C[to], c) => Never(a, c)
  BY <1>10
<1> HIDE DEF D, a
<1>13. InPlace(D, b, to)
  BY <1>2, <1>7, <1>11, <1>12 DEF InPlace
<1>14. \A c \in Bases \ {b} : \A h \in Buckets \cup {None} :
         InPlace(C, c, h) => InPlace(D, c, h)
  BY <1>2, <1>11, <1>12 DEF InPlace
<1>15. QED
  BY <1>1, <1>8, <1>11, <1>13, <1>14 DEF to

-----------------------------------------------------------------------------
(* The loop of summarize that moves the regions. *)

MoveOne(avg, order, B, i) ==
  ChangeBucket(B, order[i], Old(order[i]), BucketOf(avg[order[i]]))

\* f[i] are the buckets after i regions.
Moves(avg, order, f, n) ==
  f = [i \in 0 .. n |-> IF i = 0 THEN buckets ELSE MoveOne(avg, order, f[i - 1], i)]

LEMMA MovesExist ==
  ASSUME NEW avg, NEW order, NEW n \in Nat
  PROVE  \E f : Moves(avg, order, f, n)
<1> DEFINE T == {m \in Nat : ~ \E f : Moves(avg, order, f, m)}
<1>1. SUFFICES ASSUME T # {} PROVE FALSE
  OBVIOUS
<1>2. PICK m \in T : \A k \in T : m <= k
  <2>1. T \in SUBSET Nat
    OBVIOUS
  <2> HIDE DEF T
  <2>2. QED
    BY <1>1, <2>1, LeastOf
<1>3. m \in Nat /\ ~ \E f : Moves(avg, order, f, m)
  BY <1>2
<1>4. m # 0
  <2> SUFFICES ASSUME m = 0 PROVE FALSE
    OBVIOUS
  <2> DEFINE f == [i \in 0 .. 0 |-> buckets]
  <2>1. f = [i \in 0 .. 0 |-> IF i = 0 THEN buckets ELSE MoveOne(avg, order, f[i - 1], i)]
    OBVIOUS
  <2> HIDE DEF f
  <2>2. QED
    BY <1>3, <2>1 DEF Moves
<1>5. PICK f : Moves(avg, order, f, m - 1)
  <2>1. m - 1 \in Nat /\ ~ (m <= m - 1)
    BY <1>3, <1>4
  <2>2. m - 1 \notin T
    BY <1>2, <2>1
  <2>3. QED
    BY <2>1, <2>2
<1>6. f = [i \in 0 .. m - 1 |->
             IF i = 0 THEN buckets ELSE MoveOne(avg, order, f[i - 1], i)]
  BY <1>5 DEF Moves
<1> DEFINE g == [i \in 0 .. m |-> IF i = m THEN MoveOne(avg, order, f[m - 1], m) ELSE f[i]]
<1>7. ASSUME NEW i \in 0 .. m
      PROVE  g[i] = IF i = 0 THEN buckets ELSE MoveOne(avg, order, g[i - 1], i)
  <2>1. CASE i = m
    <3>1. m - 1 \in 0 .. m /\ m - 1 # m
      BY <1>3, <1>4
    <3>2. QED
      BY <1>3, <1>4, <2>1, <3>1
  <2>2. CASE i # m /\ i # 0
    <3>1. i \in 0 .. m - 1 /\ i - 1 \in 0 .. m /\ i - 1 # m
      BY <1>3, <2>2
    <3>2. QED
      BY <1>6, <2>2, <3>1
  <2>3. CASE i # m /\ i = 0
    <3>1. 0 \in 0 .. m - 1
      BY <1>3, <1>4
    <3>2. QED
      BY <1>6, <2>3, <3>1
  <2>4. QED
    BY <2>1, <2>2, <2>3
<1>8. g = [i \in 0 .. m |-> g[i]]
  OBVIOUS
<1> HIDE DEF g
<1>9. Moves(avg, order, g, m)
  BY <1>7, <1>8 DEF Moves
<1>10. QED
  BY <1>3, <1>9

LEMMA MovedIsLast ==
  ASSUME NEW avg, NEW order, Len(order) \in Nat
  PROVE  \E f : Moves(avg, order, f, Len(order)) /\ Moved(avg, order) = f[Len(order)]
<1> DEFINE g == CHOOSE f : Moves(avg, order, f, Len(order))
<1>1. Moves(avg, order, g, Len(order))
  BY MovesExist
<1>2. Moved(avg, order) = g[Len(order)]
  BY DEF Moved, Moves, MoveOne
<1> HIDE DEF g
<1>3. QED
  BY <1>1, <1>2

\* An order on a finite set visits every member, each at one place.
LEMMA OrderReads ==
  ASSUME NEW S, IsFiniteSet(S), NEW order \in SetToSeqs(S)
  PROVE  /\ Len(order) \in Nat
         /\ \A i \in 1 .. Len(order) : order[i] \in S
         /\ \A i, j \in 1 .. Len(order) : order[i] = order[j] => i = j
         /\ \A c \in S : \E i \in 1 .. Len(order) : order[i] = c
<1> DEFINE n == Cardinality(S)
<1>1. n \in Nat
  BY FS_CardinalityType
<1>2. /\ order \in [1 .. n -> S]
      /\ \A i, j \in 1 .. n : i # j => order[i] # order[j]
  BY DEF SetToSeqs
<1>3. Cardinality(1 .. n) = n
  <2> HIDE DEF n
  <2>1. QED
    BY <1>1, FS_Interval
<1>4. order \in Injection(1 .. n, S)
  <2> HIDE DEF n
  <2>1. \A i, j \in 1 .. n : order[i] = order[j] => i = j
    BY <1>2
  <2>2. QED
    BY <1>2, <2>1, Fun_IsInj
<1>5. order \in Surjection(1 .. n, S)
  BY <1>3, <1>4, FS_Injection
<1>6. \A c \in S : \E i \in 1 .. n : order[i] = c
  <2> HIDE DEF n
  <2>1. QED
    BY <1>5 DEF Surjection
<1> HIDE DEF n
<1>7. Len(order) = n
  <2>1. \A i \in 1 .. n : order[i] \in S
    BY <1>2
  <2>2. order = [i \in 1 .. n |-> order[i]]
    BY <1>2
  <2>3. order \in Seq(S)
    BY <1>1, <2>1, <2>2, IsASeq
  <2>4. QED
    BY <1>1, <1>2, <2>3, LenProperties
<1>8. QED
  BY <1>1, <1>2, <1>6, <1>7

Home(b)        == IF b \in DOMAIN ema THEN Clamp(BucketOf(ema[b])) ELSE None
NewHome(avg, b) == Clamp(BucketOf(avg[b]))

LEMMA MovedPlaces ==
  ASSUME NEW S \in SUBSET Bases, IsFiniteSet(S), DOMAIN ema \subseteq S,
         buckets \in AllBuckets, \A b \in DOMAIN ema : ema[b] \in Int,
         \A b \in Bases : InPlace(buckets, b, Home(b)),
         \A c \in S : Old(c) \in Buckets,
         NEW avg, \A c \in S : avg[c] \in Int, NEW order \in SetToSeqs(S)
  PROVE  /\ Moved(avg, order) \in AllBuckets
         /\ \A b \in Bases :
              InPlace(Moved(avg, order), b, IF b \in S THEN NewHome(avg, b) ELSE None)
<1> DEFINE n == Len(order)
<1>1. /\ n \in Nat
      /\ \A i \in 1 .. n : order[i] \in S
      /\ \A i, j \in 1 .. n : order[i] = order[j] => i = j
      /\ \A c \in S : \E i \in 1 .. n : order[i] = c
  BY OrderReads, SMTT(30)
<1>2. PICK f : Moves(avg, order, f, n) /\ Moved(avg, order) = f[n]
  BY <1>1, MovedIsLast
<1> HIDE DEF n
<1>3. f = [i \in 0 .. n |-> IF i = 0 THEN buckets ELSE MoveOne(avg, order, f[i - 1], i)]
  BY <1>2 DEF Moves
<1> DEFINE place(j, i) == IF j <= i THEN NewHome(avg, order[j]) ELSE Home(order[j])
           Good(i) == /\ f[i] \in AllBuckets
                      /\ \A j \in 1 .. n : InPlace(f[i], order[j], place(j, i))
                      /\ \A b \in Bases \ S : InPlace(f[i], b, None)
           T == {i \in 0 .. n : ~ Good(i)}
<1>4. /\ \A b \in Bases : Home(b) \in Buckets \cup {None}
      /\ \A b \in S : NewHome(avg, b) \in Buckets
      /\ \A b \in S : BucketOf(avg[b]) \in Int
  BY Sizes, BucketOfNumber DEF Home, NewHome
<1>5. \A b \in S : Home(b) \in {Old(b), None}
  <2> SUFFICES ASSUME NEW b \in S PROVE Home(b) \in {Old(b), None}
    OBVIOUS
  <2>1. CASE b \in DOMAIN ema
    <3>1. Old(b) = BucketOf(ema[b]) /\ Old(b) \in Buckets /\ BucketOf(ema[b]) \in Int
      BY <2>1, BucketOfNumber DEF Old
    <3>2. QED
      BY <2>1, <3>1, Sizes DEF Home
  <2>2. CASE b \notin DOMAIN ema
    BY <2>2 DEF Home
  <2>3. QED
    BY <2>1, <2>2
<1>6. Good(0)
  <2>1. f[0] = buckets
    BY <1>1, <1>3
  <2>2. \A j \in 1 .. n : ~ (j <= 0) /\ order[j] \in Bases
    BY <1>1
  <2>3. \A b \in Bases \ S : Home(b) = None
    BY DEF Home
  <2>4. QED
    BY <2>1, <2>2, <2>3
<1>7. ASSUME NEW i \in 1 .. n, Good(i - 1) PROVE Good(i)
  <2> DEFINE B == f[i - 1]
             c == order[i]
             old == Old(c)
             new == BucketOf(avg[c])
             C == ChangeBucket(B, c, old, new)
  <2>1. i \in 0 .. n /\ i # 0 /\ ~ (i <= i - 1) /\ i <= i
    BY <1>1
  <2>2. f[i] = C
    BY <1>3, <2>1 DEF MoveOne
  <2>3. c \in S /\ c \in Bases
    BY <1>1
  <2>4. B \in AllBuckets /\ InPlace(B, c, Home(c))
    BY <1>7, <2>1
  <2>5. old \in Buckets /\ new \in Int /\ Home(c) \in {old, None}
    BY <1>4, <1>5, <2>3
  <2>6. /\ \A j \in 1 .. n : InPlace(B, order[j], place(j, i - 1))
        /\ \A b \in Bases \ S : InPlace(B, b, None)
    BY <1>7
  <2> HIDE DEF B, c, old, new
  <2>7. /\ C \in AllBuckets
        /\ InPlace(C, c, Clamp(new))
        /\ \A d \in Bases \ {c} : \A h \in Buckets \cup {None} :
             InPlace(B, d, h) => InPlace(C, d, h)
    BY <2>3, <2>4, <2>5, ChangeBucketPlaces
  <2>8. Clamp(new) = NewHome(avg, order[i])
    BY DEF new, c, NewHome
  <2> HIDE DEF C
  <2>9. ASSUME NEW j \in 1 .. n PROVE InPlace(C, order[j], place(j, i))
    <3>1. CASE j = i
      BY <2>1, <2>7, <2>8, <3>1 DEF c
    <3>2. CASE j # i
      <4>1. order[j] \in Bases \ {c}
        BY <1>1, <3>2 DEF c
      <4>2. j <= i <=> j <= i - 1
        BY <1>1, <3>2
      <4>3. place(j, i) = place(j, i - 1) /\ place(j, i - 1) \in Buckets \cup {None}
        BY <1>1, <1>4, <4>1, <4>2
      <4>4. InPlace(B, order[j], place(j, i - 1))
        BY <2>6
      <4> HIDE DEF place
      <4>5. QED
        BY <2>7, <4>1, <4>3, <4>4
    <3>3. QED
      BY <3>1, <3>2
  <2>10. \A b \in Bases \ S : InPlace(C, b, None)
    BY <2>3, <2>6, <2>7
  <2>11. QED
    BY <2>2, <2>7, <2>9, <2>10
<1> HIDE DEF Good
<1>8. T = {}
  <2> SUFFICES ASSUME T # {} PROVE FALSE
    OBVIOUS
  <2>1. T \in SUBSET Nat
    OBVIOUS
  <2> HIDE DEF T
  <2>2. PICK i \in T : \A j \in T : i <= j
    BY <2>1, LeastOf
  <2>3. i \in 0 .. n /\ ~ Good(i)
    BY <2>2 DEF T
  <2>4. i \in 1 .. n
    BY <1>1, <1>6, <2>3
  <2>5. i - 1 \in 0 .. n /\ ~ (i <= i - 1)
    BY <1>1, <2>4
  <2>6. Good(i - 1)
    BY <2>2, <2>5 DEF T
  <2>7. QED
    BY <1>7, <2>3, <2>4, <2>6
<1>9. Good(n)
  BY <1>1, <1>8
<1>10. \A j \in 1 .. n : j <= n
  BY <1>1
<1>11. QED
  BY <1>1, <1>2, <1>9, <1>10 DEF Good

-----------------------------------------------------------------------------
(* The inductive invariant. *)

Counts ==
  /\ tracking \in BOOLEAN /\ accesses \in Nat
  /\ accesses < IF tracking THEN AccessInterval ELSE Factor * AccessInterval

Tables ==
  /\ DOMAIN ema \subseteq DOMAIN coverage
  /\ DOMAIN coverage \subseteq Bases /\ IsFiniteSet(DOMAIN coverage)
  /\ \A b \in DOMAIN coverage : coverage[b] \subseteq Offsets
  /\ \A b \in DOMAIN ema : ema[b] \in Int
  /\ buckets \in AllBuckets
  /\ promotions \subseteq Bases

Placed ==
  status \in {"running", "no promotion cache"} =>
    \A b \in Bases : InPlace(buckets, b, Home(b))

IInv == Counts /\ Tables /\ Placed

LEMMA InitIInv == Init => IInv
<1> SUFFICES ASSUME Init PROVE IInv
  OBVIOUS
<1>1. Counts
  <2>1. AccessInterval \in Nat /\ AccessInterval > 0
    BY SizeAssumption
  <2>2. QED
    BY <2>1 DEF Init, Counts
<1>2. /\ DOMAIN ema = {} /\ DOMAIN coverage = {} /\ promotions = {}
      /\ \A k \in Buckets : buckets[k] = <<>> /\ DOMAIN buckets[k] = {}
      /\ buckets \in AllBuckets
  <2>1. <<>> \in Seq(Bases)
    OBVIOUS
  <2>2. QED
    BY <2>1 DEF Init, AllBuckets
<1>3. Tables
  BY <1>2, FS_EmptySet DEF Tables
<1>4. Placed
  BY <1>2, Sizes DEF Placed, InPlace, Never, Home
<1>5. QED
  BY <1>1, <1>3, <1>4 DEF IInv

-----------------------------------------------------------------------------
(* The counting of accesses. *)

LEMMA WholeIsMultiple ==
  ASSUME NEW n \in Nat \ {0}
  PROVE  n % n = 0
OBVIOUS

LEMMA Intervals ==
  /\ AccessInterval \in Nat \ {0}
  /\ Factor * AccessInterval \in Nat \ {0}
  /\ AccessInterval <= Factor * AccessInterval
<1>1. \A m, n \in Nat \ {0} : m * n \in Nat \ {0} /\ n <= m * n
  OBVIOUS
<1>2. QED
  BY <1>1, SizeAssumption

LEMMA SkipStep ==
  ASSUME IInv, Skip
  PROVE  IInv'
<1> DEFINE P == Factor * AccessInterval
           n == accesses + 1
<1>1. P \in Nat \ {0} /\ AccessInterval \in Nat \ {0}
  BY Intervals
<1>2. accesses \in Nat /\ accesses < P /\ tracking' = (n % P = 0)
      /\ accesses' = IF n % P = 0 THEN 0 ELSE n
  BY DEF IInv, Counts, Skip, AfterSkip
<1> HIDE DEF P
<1>3. n \in Nat /\ (n % P # 0 => n < P)
  <2>1. n # P => n < P
    BY <1>1, <1>2
  <2>2. n = P => n % P = 0
    BY <1>1, WholeIsMultiple
  <2>3. QED
    BY <1>2, <2>1, <2>2
<1>4. Counts'
  <2>1. CASE n % P = 0
    BY <1>1, <1>2, <2>1 DEF Counts
  <2>2. CASE n % P # 0
    <3>1. tracking' = FALSE /\ accesses' = n
      BY <1>2, <2>2
    <3>2. QED
      BY <1>3, <2>2, <3>1 DEF Counts, P
  <2>3. QED
    BY <2>1, <2>2
<1>5. Tables' /\ Placed'
  BY DEF IInv, Skip, Tables, Placed, Home, InPlace
<1>6. QED
  BY <1>4, <1>5 DEF IInv

LEMMA CoveredReads ==
  ASSUME Tables, NEW b \in Bases, NEW off \in Offsets
  PROVE  LET cov == Covered(b, off) IN
         /\ DOMAIN cov = DOMAIN coverage \cup {b}
         /\ DOMAIN cov \subseteq Bases /\ IsFiniteSet(DOMAIN cov)
         /\ \A c \in DOMAIN cov : cov[c] \subseteq Offsets
<1> DEFINE cov == Covered(b, off)
<1>1. /\ DOMAIN cov = DOMAIN coverage \cup {b}
      /\ \A c \in DOMAIN cov : cov[c] = (IF c \in DOMAIN coverage THEN coverage[c] ELSE {})
                                           \cup (IF c = b THEN {off} ELSE {})
  BY DEF Covered
<1> HIDE DEF cov
<1>2. IsFiniteSet(DOMAIN coverage \cup {b})
  BY FS_AddElement DEF Tables
<1>3. QED
  BY <1>1, <1>2 DEF Tables, cov

LEMMA AccessStep ==
  ASSUME IInv, NEW b \in Bases, NEW off \in Offsets, Access(b, off)
  PROVE  IInv'
<1>1. AccessInterval \in Nat \ {0}
  BY Intervals
<1>2. /\ accesses \in Nat /\ accesses < AccessInterval
      /\ (accesses + 1) % AccessInterval # 0
      /\ accesses' = accesses + 1 /\ tracking' = tracking /\ tracking
  BY DEF IInv, Counts, Access
<1>3. Counts'
  <2>1. accesses + 1 # AccessInterval
    BY <1>1, <1>2, WholeIsMultiple
  <2>2. QED
    BY <1>1, <1>2, <2>1 DEF Counts
<1>4. coverage' = Covered(b, off)
      /\ UNCHANGED <<ema, buckets, promotions, status>>
  BY DEF Access
<1>5. Tables'
  <2>1. Tables
    BY DEF IInv
  <2>2. /\ DOMAIN coverage' = DOMAIN coverage \cup {b}
        /\ DOMAIN coverage' \subseteq Bases /\ IsFiniteSet(DOMAIN coverage')
        /\ \A c \in DOMAIN coverage' : coverage'[c] \subseteq Offsets
    BY <1>4, <2>1, CoveredReads
  <2>3. QED
    BY <1>4, <2>1, <2>2 DEF Tables
<1>6. Placed'
  BY <1>4 DEF IInv, Placed, Home, InPlace
<1>7. QED
  BY <1>3, <1>5, <1>6 DEF IInv

LEMMA FinishStep ==
  ASSUME IInv, Finish
  PROVE  IInv'
BY DEF IInv, Finish, Counts, Tables, Placed, Home, InPlace

-----------------------------------------------------------------------------
(* The summary. *)

LEMMA AverageIsInt ==
  ASSUME Tables, NEW c, NEW n \in Nat
  PROVE  Average(c, n) \in Int
<1>1. \A x \in Int, d \in Nat \ {0} : x \div d \in Int
  OBVIOUS
<1>2. \A x, y \in Int : x * y \in Int
  OBVIOUS
<1>3. AlphaDen \in Nat \ {0} /\ AlphaNum \in Int /\ Scale \in Int
  BY SizeAssumption
<1>4. CASE c \in DOMAIN ema
  <2> DEFINE x == AlphaNum * ema[c]
             y == (AlphaDen - AlphaNum) * n * Scale
  <2>1. ema[c] \in Int
    BY <1>4 DEF Tables
  <2>2. x \in Int
    BY <1>2, <1>3, <2>1
  <2>3. y \in Int
    <3>1. AlphaDen - AlphaNum \in Int
      BY <1>3
    <3>2. (AlphaDen - AlphaNum) * n \in Int
      BY <1>2, <3>1
    <3>3. QED
      BY <1>2, <1>3, <3>2
  <2>4. Average(c, n) = (x + y) \div AlphaDen
    BY <1>4 DEF Average
  <2> HIDE DEF x, y
  <2>5. x + y \in Int
    BY <2>2, <2>3
  <2>6. QED
    BY <1>1, <1>3, <2>4, <2>5
<1>5. CASE c \notin DOMAIN ema
  <2>1. Average(c, n) = n * Scale
    BY <1>5 DEF Average
  <2>2. QED
    BY <1>2, <1>3, <2>1
<1>6. QED
  BY <1>4, <1>5

LEMMA CoverCounts ==
  ASSUME NEW C \in SUBSET Offsets
  PROVE  Cardinality(C) \in Nat
<1>1. 0 \in Int /\ NumBasePages - 1 \in Int
  BY SizeAssumption
<1>2. IsFiniteSet(Offsets)
  BY <1>1, FS_Interval DEF Offsets
<1>3. QED
  BY <1>2, FS_Subset, FS_CardinalityType

\* Whatever way the summary takes: the new averages.
LEMMA SummaryAverages ==
  ASSUME IInv, NEW b \in Bases, NEW off \in Offsets, Summarize(b, off)
  PROVE  /\ DOMAIN ema \subseteq DOMAIN ema' /\ DOMAIN ema' = DOMAIN coverage'
         /\ DOMAIN ema' \subseteq Bases /\ IsFiniteSet(DOMAIN ema')
         /\ \A c \in DOMAIN ema' : ema'[c] \in Int
         /\ \A c \in DOMAIN coverage' : coverage'[c] = {}
         /\ DOMAIN ema' = DOMAIN Covered(b, off)
         /\ ema' = [c \in DOMAIN Covered(b, off) |->
                      Average(c, Cardinality(Covered(b, off)[c]))]
<1> DEFINE cov == Covered(b, off)
<1>0. Tables
  BY DEF IInv
<1>1. /\ DOMAIN cov = DOMAIN coverage \cup {b}
      /\ DOMAIN cov \subseteq Bases /\ IsFiniteSet(DOMAIN cov)
      /\ \A c \in DOMAIN cov : cov[c] \subseteq Offsets
  BY <1>0, CoveredReads
<1>2. /\ ema' = [c \in DOMAIN cov |-> Average(c, Cardinality(cov[c]))]
      /\ coverage' = [c \in DOMAIN cov |-> {}]
  BY DEF Summarize
<1> HIDE DEF cov
<1>3. \A c \in DOMAIN cov : Average(c, Cardinality(cov[c])) \in Int
  BY <1>0, <1>1, CoverCounts, AverageIsInt
<1>4. DOMAIN ema \subseteq DOMAIN cov
  BY <1>0, <1>1 DEF Tables
<1>5. QED
  BY <1>1, <1>2, <1>3, <1>4 DEF cov

\* With every old bucket in range, each region ends in the bucket of its new
\* average.
LEMMA SummaryMoves ==
  ASSUME IInv, NEW b \in Bases, NEW off \in Offsets, Summarize(b, off),
         status' # "bad bucket"
  PROVE  /\ buckets' \in AllBuckets
         /\ \A c \in Bases : InPlace(buckets', c, Home(c)')
         /\ status' = "running" => promotions' = Promote(buckets')
         /\ promotions' \in {promotions, Promote(buckets')}
<1> DEFINE S == DOMAIN Covered(b, off)
           avg == [c \in S |-> Average(c, Cardinality(Covered(b, off)[c]))]
<1>1. /\ DOMAIN ema \subseteq S /\ S \in SUBSET Bases /\ IsFiniteSet(S)
      /\ ema' = avg /\ DOMAIN avg = S /\ \A c \in S : avg[c] \in Int
  <2>1. DOMAIN ema' = S /\ ema' = avg
    BY SummaryAverages
  <2> HIDE DEF S, avg
  <2>2. /\ DOMAIN ema \subseteq DOMAIN ema'
        /\ DOMAIN ema' \subseteq Bases /\ IsFiniteSet(DOMAIN ema')
        /\ \A c \in DOMAIN ema' : ema'[c] \in Int
    BY SummaryAverages
  <2>3. QED
    BY <2>1, <2>2
<1>2. status = "running"
  BY DEF Summarize
<1>3. /\ \A c \in S : Old(c) \in Buckets
      /\ \E order \in SetToSeqs(S) :
           /\ buckets' = Moved(avg, order)
           /\ IF Moved(avg, order)[NumBuckets - 1] = <<>>
              THEN status' = "empty bucket" /\ UNCHANGED promotions
              ELSE promotions' = Promote(Moved(avg, order)) /\ UNCHANGED status
  BY DEF Summarize
<1> HIDE DEF S, avg
<1>4. PICK order \in SetToSeqs(S) :
        /\ buckets' = Moved(avg, order)
        /\ \/ status' = "empty bucket" /\ promotions' = promotions
           \/ promotions' = Promote(buckets') /\ status' = "running"
  BY <1>2, <1>3
<1>5. /\ buckets \in AllBuckets /\ \A c \in DOMAIN ema : ema[c] \in Int
      /\ \A c \in Bases : InPlace(buckets, c, Home(c))
  BY <1>2 DEF IInv, Tables, Placed
<1>6. /\ Moved(avg, order) \in AllBuckets
      /\ \A c \in Bases :
           InPlace(Moved(avg, order), c, IF c \in S THEN NewHome(avg, c) ELSE None)
  BY <1>1, <1>3, <1>5, MovedPlaces
<1>7. \A c \in Bases : Home(c)' = IF c \in S THEN NewHome(avg, c) ELSE None
  BY <1>1 DEF Home, NewHome
<1>8. QED
  BY <1>4, <1>6, <1>7

LEMMA SummarizeStep ==
  ASSUME IInv, NEW b \in Bases, NEW off \in Offsets, Summarize(b, off)
  PROVE  IInv'
<1>1. Counts'
  <2> DEFINE P == Factor * AccessInterval
  <2>1. tracking' = FALSE /\ accesses' = 0
    BY DEF Summarize
  <2>2. P \in Nat \ {0}
    BY Intervals
  <2> HIDE DEF P
  <2>3. tracking' \in BOOLEAN /\ ~ tracking'
    BY <2>1
  <2>4. accesses' \in Nat /\ accesses' < P
    BY <2>1, <2>2
  <2>5. QED
    BY <2>3, <2>4 DEF Counts, P
<1>2. /\ DOMAIN ema' = DOMAIN coverage'
      /\ DOMAIN ema' \subseteq Bases /\ IsFiniteSet(DOMAIN ema')
      /\ \A c \in DOMAIN ema' : ema'[c] \in Int
      /\ \A c \in DOMAIN coverage' : coverage'[c] = {}
  BY SummaryAverages
<1>3. CASE status' = "bad bucket"
  <2>1. UNCHANGED <<buckets, promotions>>
    BY <1>3 DEF Summarize
  <2>2. Tables'
    BY <1>2, <2>1 DEF IInv, Tables
  <2>3. Placed'
    BY <1>3 DEF Placed
  <2>4. QED
    BY <1>1, <2>2, <2>3 DEF IInv
<1>4. CASE status' # "bad bucket"
  <2>1. /\ buckets' \in AllBuckets
        /\ \A c \in Bases : InPlace(buckets', c, Home(c)')
        /\ promotions' \in {promotions, Promote(buckets')}
    BY <1>4, SummaryMoves
  <2>2. promotions' \subseteq Bases
    BY <2>1 DEF IInv, Tables, Promote
  <2>3. Tables'
    BY <1>2, <2>1, <2>2 DEF Tables
  <2>4. Placed'
    BY <2>1 DEF Placed
  <2>5. QED
    BY <1>1, <2>3, <2>4 DEF IInv
<1>5. QED
  BY <1>3, <1>4

LEMMA NextIInv == IInv /\ [Next]_hvars => IInv'
<1> SUFFICES ASSUME IInv, [Next]_hvars PROVE IInv'
  OBVIOUS
<1>1. CASE Skip
  BY <1>1, SkipStep
<1>2. ASSUME NEW b \in Bases, NEW off \in Offsets, Access(b, off) PROVE IInv'
  BY <1>2, AccessStep
<1>3. ASSUME NEW b \in Bases, NEW off \in Offsets, Summarize(b, off) PROVE IInv'
  BY <1>3, SummarizeStep
<1>4. CASE Finish
  BY <1>4, FinishStep
<1>5. CASE UNCHANGED hvars
  BY <1>5 DEF hvars, IInv, Counts, Tables, Placed, Home, InPlace
<1>6. QED
  BY <1>1, <1>2, <1>3, <1>4, <1>5 DEF Next

LEMMA HawkEyeIInv == Spec => []IInv
BY InitIInv, NextIInv, PTL DEF Spec

-----------------------------------------------------------------------------
(* What the invariant gives. *)

LEMMA TimesReads ==
  ASSUME NEW s, NEW b
  PROVE  /\ Once(s, b) => Cardinality({i \in DOMAIN s : s[i] = b}) = 1
         /\ Never(s, b) => Cardinality({i \in DOMAIN s : s[i] = b}) = 0
<1>1. ASSUME Once(s, b) PROVE Cardinality({i \in DOMAIN s : s[i] = b}) = 1
  <2>1. PICK i \in DOMAIN s : s[i] = b /\ \A j \in DOMAIN s : s[j] = b => j = i
    BY <1>1 DEF Once
  <2>2. {j \in DOMAIN s : s[j] = b} = {i}
    BY <2>1
  <2>3. QED
    BY <2>2, FS_Singleton
<1>2. ASSUME Never(s, b) PROVE Cardinality({i \in DOMAIN s : s[i] = b}) = 0
  <2>1. {i \in DOMAIN s : s[i] = b} = {}
    BY <1>2 DEF Never
  <2>2. QED
    BY <2>1, FS_EmptySet
<1>3. QED
  BY <1>1, <1>2

LEMMA TypesFollow == IInv => TypeOK
<1> SUFFICES ASSUME IInv PROVE TypeOK
  OBVIOUS
<1> DEFINE P == Factor * AccessInterval
<1>1. accesses \in 0 .. P - 1
  <2>1. /\ P \in Nat \ {0} /\ AccessInterval \in Nat /\ AccessInterval <= P
        /\ accesses \in Nat /\ accesses < IF tracking THEN AccessInterval ELSE P
    BY Intervals DEF IInv, Counts
  <2> HIDE DEF P
  <2>2. accesses < P
    BY <2>1
  <2>3. QED
    BY <2>1, <2>2
<1> HIDE DEF P
<1>2. QED
  BY <1>1 DEF IInv, Tables, TypeOK, AllBuckets, P

LEMMA PlacesFollow == IInv => InBucketOfAverage
<1> SUFFICES ASSUME IInv, status \in {"running", "no promotion cache"},
                    NEW b \in Bases, NEW k \in Buckets
             PROVE  Times(b, k) =
                      IF b \in DOMAIN ema /\ k = Clamp(BucketOf(ema[b])) THEN 1 ELSE 0
  BY DEF InBucketOfAverage
<1>1. InPlace(buckets, b, Home(b))
  BY DEF IInv, Placed
<1>2. k = Home(b) <=> b \in DOMAIN ema /\ k = Clamp(BucketOf(ema[b]))
  BY Sizes DEF Home
<1>3. Times(b, k) = IF k = Home(b) THEN 1 ELSE 0
  <2>1. CASE k = Home(b)
    <3>1. Once(buckets[k], b)
      BY <1>1, <2>1 DEF InPlace
    <3>2. Times(b, k) = 1
      BY <3>1, TimesReads DEF Times
    <3>3. QED
      BY <2>1, <3>2
  <2>2. CASE k # Home(b)
    <3>1. Never(buckets[k], b)
      BY <1>1, <2>2 DEF InPlace
    <3>2. Times(b, k) = 0
      BY <3>1, TimesReads DEF Times
    <3>3. QED
      BY <2>2, <3>2
  <2>3. QED
    BY <2>1, <2>2
<1>4. QED
  BY <1>2, <1>3

\* The loop that promotes: of two regions it reaches, the one in the higher
\* bucket is reached first, and after no more regions.
LEMMA PromotesHottest ==
  ASSUME NEW B \in AllBuckets, NEW S \in SUBSET Bases, IsFiniteSet(S),
         NEW home, \A c \in Bases : InPlace(B, c, home[c]),
         \A c \in S : home[c] \in Buckets, \A c \in Bases \ S : home[c] = None,
         NEW b \in Promote(B) \ promotions, NEW c \in S \ Promote(B)
  PROVE  b \in S /\ home[c] <= home[b]
<1> DEFINE in(d)    == \E k \in Buckets : \E i \in DOMAIN B[k] : B[k][i] = d
           fresh    == {d \in Bases \ promotions : in(d)}
           ahead(d) == {e \in fresh : MetBefore(B, e, d)}
<1>1. /\ Promote(B) = promotions \cup {d \in fresh : Cardinality(ahead(d)) < MaxPromotions}
  BY DEF Promote
<1>2. \A d \in Bases : \A k \in Buckets : \A i \in DOMAIN B[k] : B[k][i] = d => k = home[d]
  BY DEF InPlace, Never
<1>3. \A d \in S : in(d)
  BY DEF InPlace, Once
<1>4. fresh \subseteq S
  <2> SUFFICES ASSUME NEW d \in Bases, in(d) PROVE d \in S
    OBVIOUS
  <2>1. home[d] \in Buckets
    BY <1>2
  <2>2. QED
    BY <2>1, Sizes
<1>5. b \in fresh /\ Cardinality(ahead(b)) < MaxPromotions
  BY <1>1
<1>6. c \in fresh /\ ~ (Cardinality(ahead(c)) < MaxPromotions)
  BY <1>1, <1>3
<1>7. b \in S /\ c \in S /\ home[b] \in Int /\ home[c] \in Int
  <2>1. Buckets \subseteq Int
    BY Sizes DEF Buckets
  <2>2. QED
    BY <1>4, <1>5, <1>6, <2>1
<1>8. ASSUME home[c] > home[b] PROVE ahead(c) \subseteq ahead(b)
  <2> SUFFICES ASSUME NEW d \in fresh, MetBefore(B, d, c) PROVE MetBefore(B, d, b)
    OBVIOUS
  <2>1. PICK k \in Buckets : \E i \in DOMAIN B[k] : B[k][i] = c
    BY <1>3, <1>7
  <2>2. k = home[c]
    BY <1>2, <1>7, <2>1
  <2>3. PICK l \in Buckets : \E j \in DOMAIN B[l] : B[l][j] = d /\ (l > k \/ l = k)
    BY <2>1 DEF MetBefore
  <2>4. k \in Int /\ l \in Int
    BY Sizes DEF Buckets
  <2>5. l > home[b]
    BY <1>7, <1>8, <2>2, <2>3, <2>4
  <2>6. ASSUME NEW m \in Buckets, NEW i \in DOMAIN B[m], B[m][i] = b
        PROVE  l > m
    BY <1>2, <1>7, <2>5, <2>6
  <2>7. QED
    BY <2>3, <2>6 DEF MetBefore
<1>9. IsFiniteSet(ahead(b)) /\ Cardinality(ahead(b)) \in Nat
  <2>1. ahead(b) \subseteq S
    BY <1>4
  <2> HIDE DEF ahead
  <2>2. QED
    BY <2>1, FS_Subset, FS_CardinalityType
<1>10. ASSUME home[c] > home[b] PROVE FALSE
  <2>1. ahead(c) \subseteq ahead(b)
    BY <1>8, <1>10
  <2> HIDE DEF ahead, fresh
  <2>2. IsFiniteSet(ahead(c)) /\ Cardinality(ahead(c)) <= Cardinality(ahead(b))
    BY <1>9, <2>1, FS_Subset
  <2>3. Cardinality(ahead(c)) \in Nat /\ MaxPromotions \in Nat
    BY <2>2, FS_CardinalityType, SizeAssumption
  <2>4. QED
    BY <1>5, <1>6, <1>9, <2>2, <2>3
<1>11. QED
  BY <1>7, <1>10

LEMMA StepPromotesHottest ==
  ASSUME IInv, [Next]_hvars, NEW b \in promotions' \ promotions,
         NEW c \in DOMAIN ema' \ promotions'
  PROVE  Clamp(BucketOf(ema'[c])) <= Clamp(BucketOf(ema'[b]))
<1>1. PICK a \in Bases, off \in Offsets : Summarize(a, off)
  BY DEF Next, Skip, Access, Finish, hvars
<1>2. status' # "bad bucket"
  BY <1>1 DEF Summarize
<1>3. /\ buckets' \in AllBuckets
      /\ \A d \in Bases : InPlace(buckets', d, Home(d)')
      /\ promotions' \in {promotions, Promote(buckets')}
  BY <1>1, <1>2, SummaryMoves
<1>4. promotions' = Promote(buckets')
  BY <1>3
<1>5. /\ DOMAIN ema' \subseteq Bases /\ IsFiniteSet(DOMAIN ema')
      /\ \A d \in DOMAIN ema' : ema'[d] \in Int
  BY <1>1, SummaryAverages
<1> DEFINE home == [d \in Bases |-> Home(d)']
           B    == buckets'
           S    == DOMAIN ema'
<1>6. /\ \A d \in Bases : home[d] = IF d \in S THEN Clamp(BucketOf(ema'[d])) ELSE None
      /\ \A d \in Bases : InPlace(B, d, home[d])
  BY <1>3 DEF Home
<1>7. \A d \in S : home[d] \in Buckets
  BY <1>5, <1>6, Sizes, BucketOfNumber
<1>8. /\ B \in AllBuckets /\ S \in SUBSET Bases /\ IsFiniteSet(S)
      /\ b \in Promote(B) \ promotions /\ c \in S \ Promote(B)
  BY <1>3, <1>4, <1>5
<1> HIDE DEF home, B, S
<1>9. \A d \in Bases \ S : home[d] = None
  BY <1>6
<1>10. b \in S /\ home[c] <= home[b]
  BY <1>6, <1>7, <1>8, <1>9, PromotesHottest
<1>11. c \in S /\ S \subseteq Bases
  BY <1>8
<1>12. QED
  BY <1>6, <1>10, <1>11

-----------------------------------------------------------------------------
(* Theorems. *)

\* The counter of accesses stays within the interval that is under way, and
\* coverage, averages, buckets and promotions hold regions of the trace.
THEOREM HawkEyeTypes == Spec => []TypeOK
BY HawkEyeIInv, TypesFollow, PTL

\* As long as the run has not left defined behaviour, a region with an average
\* is in one bucket, once, the one of its average, and a region without one is
\* in none: change_bucket finds what the last summary put away.
THEOREM HawkEyeInBucketOfAverage == Spec => []InBucketOfAverage
BY HawkEyeIInv, PlacesFollow, PTL

\* A summary never promotes a region while it leaves one in a higher bucket
\* that is not promoted.
THEOREM HawkEyeHottestPromoted == Spec => HottestPromoted
<1> DEFINE A ==
      \A b \in promotions' \ promotions, c \in DOMAIN ema' \ promotions' :
        Clamp(BucketOf(ema'[c])) <= Clamp(BucketOf(ema'[b]))
<1>1. IInv /\ [Next]_hvars => [A]_hvars
  BY StepPromotesHottest
<1>2. QED
  BY <1>1, HawkEyeIInv, PTL DEF Spec, HottestPromoted

=============================================================================
