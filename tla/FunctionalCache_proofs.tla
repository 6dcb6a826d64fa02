------------------------ MODULE FunctionalCache_proofs -----------------------
(***************************************************************************)
(* FunctionalCache keeps its invariants and implements PageStore: proofs,  *)
(* for every width of an address, every size of a cache, both policies and *)
(* every client that keeps the numbers of small and of huge pages apart,   *)
(* whether or not it inserts pages that are there.                         *)
(***************************************************************************)
EXTENDS FunctionalCache, Places_proofs

-----------------------------------------------------------------------------
(* Induction, with a set of numbers for the statement. *)

\* A set that has 0 and, with every number, the next one has every number.
LEMMA Induct ==
  ASSUME NEW T, 0 \in T, \A n \in Nat : n \in T => n + 1 \in T
  PROVE  Nat \subseteq T
<1> DEFINE S == {n \in Nat : n \notin T}
<1>1. S = {}
  <2> SUFFICES ASSUME S # {} PROVE FALSE
    OBVIOUS
  <2>1. S \in SUBSET Nat
    OBVIOUS
  <2> HIDE DEF S
  <2>2. PICK m \in S : \A k \in S : m <= k
    BY <2>1, LeastOf
  <2>3. m \in Nat /\ m \notin T
    BY <2>2 DEF S
  <2>4. m - 1 \in Nat /\ (m - 1) + 1 = m /\ ~ (m <= m - 1)
    BY <2>3
  <2>5. m - 1 \in T
    BY <2>2, <2>4 DEF S
  <2>6. QED
    BY <2>3, <2>4, <2>5
<1>2. QED
  BY <1>1

-----------------------------------------------------------------------------
(* Powers of two. *)

\* f doubles from 1 up to n.
Doubles(f, n) == f = [k \in 0 .. n |-> IF k = 0 THEN 1 ELSE 2 * f[k - 1]]

\* The definition of Pow by recursion has, up to any n, a solution.
LEMMA DoublesExist == \A n \in Nat : \E f : Doubles(f, n)
<1> DEFINE T == {n \in Nat : \E f : Doubles(f, n)}
<1>1. 0 \in T
  <2> DEFINE f == [k \in 0 .. 0 |-> 1]
  <2>1. f = [k \in 0 .. 0 |-> IF k = 0 THEN 1 ELSE 2 * f[k - 1]]
    OBVIOUS
  <2> HIDE DEF f
  <2>2. QED
    BY <2>1 DEF Doubles
<1>2. ASSUME NEW n \in Nat, n \in T PROVE n + 1 \in T
  <2>1. PICK f : Doubles(f, n)
    BY <1>2
  <2>2. f = [k \in 0 .. n |-> IF k = 0 THEN 1 ELSE 2 * f[k - 1]]
    BY <2>1 DEF Doubles
  <2> DEFINE g == [k \in 0 .. n + 1 |-> IF k = n + 1 THEN 2 * f[n] ELSE f[k]]
  <2>3. ASSUME NEW k \in 0 .. n + 1 PROVE g[k] = IF k = 0 THEN 1 ELSE 2 * g[k - 1]
    <3>1. CASE k = n + 1
      BY <3>1
    <3>2. CASE k # n + 1
      <4>1. k \in 0 .. n /\ (k # 0 => k - 1 \in 0 .. n + 1 /\ k - 1 # n + 1)
        BY <3>2
      <4>2. QED
        BY <2>2, <4>1
    <3>3. QED
      BY <3>1, <3>2
  <2>4. g = [k \in 0 .. n + 1 |-> g[k]]
    OBVIOUS
  <2> HIDE DEF g
  <2>5. Doubles(g, n + 1)
    BY <2>3, <2>4 DEF Doubles
  <2>6. QED
    BY <2>5
<1> HIDE DEF T
<1>3. Nat \subseteq T
  BY <1>1, <1>2, Induct
<1>4. QED
  BY <1>3 DEF T

\* Two solutions agree as far as both go.
LEMMA DoublesAgree ==
  ASSUME NEW n \in Nat, NEW m \in Nat, n <= m,
         NEW f, Doubles(f, n), NEW g, Doubles(g, m)
  PROVE  f[n] = g[n]
<1>1. /\ f = [k \in 0 .. n |-> IF k = 0 THEN 1 ELSE 2 * f[k - 1]]
      /\ g = [k \in 0 .. m |-> IF k = 0 THEN 1 ELSE 2 * g[k - 1]]
  BY DEF Doubles
<1> DEFINE T == {k \in Nat : k <= n => f[k] = g[k]}
<1>2. 0 \in T
  BY <1>1
<1>3. ASSUME NEW k \in Nat, k \in T PROVE k + 1 \in T
  <2> SUFFICES ASSUME k + 1 <= n PROVE f[k + 1] = g[k + 1]
    OBVIOUS
  <2>1. k + 1 \in 0 .. n /\ k + 1 \in 0 .. m /\ k + 1 # 0 /\ (k + 1) - 1 = k /\ k <= n
    OBVIOUS
  <2>2. f[k + 1] = 2 * f[k] /\ g[k + 1] = 2 * g[k]
    BY <1>1, <2>1
  <2>3. QED
    BY <1>3, <2>1, <2>2
<1> HIDE DEF T
<1>4. n \in T
  BY <1>2, <1>3, Induct
<1>5. QED
  BY <1>4 DEF T

\* What the definition of Pow says: 1, and twice as much at every step.
LEMMA PowDoubles ==
  /\ Pow[0] = 1
  /\ \A n \in Nat : Pow[n + 1] = 2 * Pow[n] /\ Pow[n] \in Nat \ {0}
<1> DEFINE F == [n \in Nat |-> (CHOOSE f : Doubles(f, n))[n]]
<1>1. \A n \in Nat : Doubles(CHOOSE f : Doubles(f, n), n)
  BY DoublesExist
<1>2. ASSUME NEW n \in Nat PROVE F[n] = IF n = 0 THEN 1 ELSE 2 * F[n - 1]
  <2> DEFINE f == CHOOSE f : Doubles(f, n)
             g == CHOOSE g : Doubles(g, n - 1)
  <2>1. F[n] = f[n]
    OBVIOUS
  <2>2. Doubles(f, n)
    BY <1>1
  <2> HIDE DEF f
  <2>3. f = [k \in 0 .. n |-> IF k = 0 THEN 1 ELSE 2 * f[k - 1]]
    BY <2>2 DEF Doubles
  <2>4. n \in 0 .. n
    OBVIOUS
  <2>5. CASE n = 0
    BY <2>1, <2>3, <2>4, <2>5
  <2>6. CASE n # 0
    <3>1. n - 1 \in Nat /\ n - 1 <= n
      BY <2>6
    <3>2. F[n - 1] = g[n - 1] /\ Doubles(g, n - 1)
      BY <1>1, <3>1
    <3> HIDE DEF F, g
    <3>3. g[n - 1] = f[n - 1]
      BY <2>2, <3>1, <3>2, DoublesAgree
    <3>4. QED
      BY <2>1, <2>3, <2>4, <2>6, <3>2, <3>3
  <2>7. QED
    BY <2>5, <2>6
<1>3. F = [n \in Nat |-> F[n]]
  OBVIOUS
<1> HIDE DEF F
<1>4. F = [n \in Nat |-> IF n = 0 THEN 1 ELSE 2 * F[n - 1]]
  BY <1>2, <1>3
<1>5. Pow = [n \in Nat |-> IF n = 0 THEN 1 ELSE 2 * Pow[n - 1]]
  BY <1>4 DEF Pow
<1>6. Pow[0] = 1
  BY <1>5
<1>7. ASSUME NEW n \in Nat PROVE Pow[n + 1] = 2 * Pow[n]
  <2>1. n + 1 \in Nat /\ n + 1 # 0 /\ (n + 1) - 1 = n
    OBVIOUS
  <2>2. QED
    BY <1>5, <2>1
<1> DEFINE T == {n \in Nat : Pow[n] \in Nat \ {0}}
<1>8. 0 \in T
  BY <1>6
<1>9. \A n \in Nat : n \in T => n + 1 \in T
  BY <1>7
<1> HIDE DEF T
<1>10. Nat \subseteq T
  BY <1>8, <1>9, Induct
<1>11. QED
  BY <1>6, <1>7, <1>10 DEF T

\* A power of a sum is a product of powers.
LEMMA PowAdds == \A m, n \in Nat : Pow[m + n] = Pow[m] * Pow[n]
<1> SUFFICES ASSUME NEW m \in Nat PROVE \A n \in Nat : Pow[m + n] = Pow[m] * Pow[n]
  OBVIOUS
<1> DEFINE T == {n \in Nat : Pow[m + n] = Pow[m] * Pow[n]}
<1>1. 0 \in T
  BY PowDoubles
<1>2. ASSUME NEW n \in Nat, n \in T PROVE n + 1 \in T
  <2>1. m + n \in Nat /\ m + (n + 1) = (m + n) + 1
    OBVIOUS
  <2>2. Pow[m + (n + 1)] = 2 * (Pow[m] * Pow[n])
    BY <1>2, <2>1, PowDoubles
  <2>3. \A x, y \in Nat : 2 * (x * y) = x * (2 * y)
    OBVIOUS
  <2>4. Pow[m + (n + 1)] = Pow[m] * (2 * Pow[n])
    BY <2>2, <2>3, PowDoubles
  <2>5. QED
    BY <2>4, PowDoubles
<1> HIDE DEF T
<1>3. Nat \subseteq T
  BY <1>1, <1>2, Induct
<1>4. QED
  BY <1>3 DEF T

\* A larger power is a multiple of a smaller one.
LEMMA PowGrows ==
  ASSUME NEW m \in Nat, NEW n \in Nat, m <= n
  PROVE  /\ n - m \in Nat /\ Pow[n] = Pow[m] * Pow[n - m] /\ Pow[m] <= Pow[n]
         /\ m < n => Pow[m] < Pow[n] /\ Pow[n - m] % 2 = 0
<1>1. n - m \in Nat /\ m + (n - m) = n
  OBVIOUS
<1>2. Pow[n] = Pow[m] * Pow[n - m]
  BY <1>1, PowAdds
<1>3. \A x, y \in Nat \ {0} : x <= x * y /\ (y > 1 => x < x * y)
  OBVIOUS
<1>4. Pow[m] <= Pow[n]
  BY <1>1, <1>2, <1>3, PowDoubles
<1>5. ASSUME m < n PROVE Pow[m] < Pow[n] /\ Pow[n - m] % 2 = 0
  <2>1. (n - m) - 1 \in Nat /\ ((n - m) - 1) + 1 = n - m
    BY <1>5
  <2>2. Pow[n - m] = 2 * Pow[(n - m) - 1] /\ Pow[(n - m) - 1] \in Nat \ {0}
    BY <2>1, PowDoubles
  <2>3. \A y \in Nat \ {0} : 2 * y > 1 /\ (2 * y) % 2 = 0 /\ 2 * y \in Nat \ {0}
    OBVIOUS
  <2>4. Pow[n - m] > 1 /\ Pow[n - m] % 2 = 0 /\ Pow[n - m] \in Nat \ {0}
    BY <2>2, <2>3
  <2>5. Pow[m] \in Nat \ {0}
    BY PowDoubles
  <2>6. Pow[m] < Pow[m] * Pow[n - m]
    BY <1>3, <2>4, <2>5
  <2>7. QED
    BY <1>2, <2>4, <2>6
<1>6. QED
  BY <1>1, <1>2, <1>4, <1>5

-----------------------------------------------------------------------------
(* Division, and the bits of a number. *)

\* What \div and % return.
LEMMA DivModReads ==
  \A n \in Int, d \in Nat \ {0} :
    /\ n \div d \in Int /\ n % d \in Nat /\ n % d < d
    /\ n = d * (n \div d) + (n % d)
    /\ n >= 0 => n \div d \in Nat
<1>1. \A n \in Int, d \in Nat \ {0} : n \div d \in Int /\ n % d \in Nat /\ n % d < d
  OBVIOUS
<1>2. \A n \in Int, d \in Nat \ {0} : n = d * (n \div d) + (n % d)
  OBVIOUS
<1>3. \A n \in Nat, d \in Nat \ {0} : n \div d \in Nat
  OBVIOUS
<1>4. QED
  BY <1>1, <1>2, <1>3

\* Quotient and remainder are the only numbers of their kind.
LEMMA DivModUnique ==
  \A d \in Nat \ {0}, q \in Int, r \in Nat :
    r < d => (d * q + r) \div d = q /\ (d * q + r) % d = r
<1>1. \A d \in Nat \ {0}, q \in Int, r \in Nat : r < d => (d * q + r) \div d = q
  OBVIOUS
<1>2. \A d \in Nat \ {0}, q \in Int, r \in Nat : r < d => (d * q + r) % d = r
  OBVIOUS
<1>3. QED
  BY <1>1, <1>2

\* One more bit of the remainder.
LEMMA RemainderGrows ==
  ASSUME NEW x \in Nat, NEW n \in Nat
  PROVE  x % Pow[n + 1] = (x % Pow[n]) + IF BitSet(x, n) THEN Pow[n] ELSE 0
<1> DEFINE p == Pow[n]
           q == x \div p
           r == x % p
           h == q \div 2
           b == q % 2
<1>1. p \in Nat \ {0} /\ Pow[n + 1] = 2 * p
  BY PowDoubles
<1>3. BitSet(x, n) <=> b = 1
  BY DEF BitSet
<1> HIDE DEF p
<1>2. q \in Int /\ r \in Nat /\ r < p /\ x = p * q + r
  <2>1. x \in Int
    OBVIOUS
  <2>2. QED
    BY <1>1, <2>1, DivModReads
<1> HIDE DEF q, r
<1>4. h \in Int /\ b \in {0, 1} /\ q = 2 * h + b
  BY <1>2
<1> HIDE DEF h, b
<1>5. \A u \in Nat \ {0}, v \in Int, w \in {0, 1}, z \in Nat :
        u * (2 * v + w) + z = (2 * u) * v + (u * w + z)
  OBVIOUS
<1>6. x = (2 * p) * h + (p * b + r)
  BY <1>1, <1>2, <1>4, <1>5
<1>7. p * b = IF b = 1 THEN p ELSE 0
  BY <1>1, <1>4
<1>8. p * b + r \in Nat /\ p * b + r < 2 * p /\ 2 * p \in Nat \ {0}
  BY <1>1, <1>2, <1>4, <1>7
<1> DEFINE s == p * b + r
           d == 2 * p
<1>9. s \in Nat /\ s < d /\ d \in Nat \ {0} /\ x = d * h + s
  BY <1>6, <1>8
<1> HIDE DEF s, d
<1>10. x % d = s
  BY <1>4, <1>9, DivModUnique
<1>11. QED
  <2>1. x % Pow[n + 1] = p * b + r
    BY <1>1, <1>10 DEF s, d
  <2>2. p * b + r = r + IF b = 1 THEN p ELSE 0
    BY <1>1, <1>2, <1>7
  <2>3. QED
    BY <1>3, <2>1, <2>2 DEF p, r

\* The bits of a quotient are those further up.
LEMMA BitsOfQuotient ==
  ASSUME NEW x \in Nat, NEW m \in Nat, NEW n \in Nat
  PROVE  BitSet(x \div Pow[m], n) <=> BitSet(x, m + n)
<1>1. Pow[m] \in Nat \ {0} /\ Pow[n] \in Nat \ {0} /\ Pow[m + n] = Pow[m] * Pow[n]
  BY PowDoubles, PowAdds
<1>2. \A z \in Nat, p, q \in Nat \ {0} : (z \div p) \div q = z \div (p * q)
  OBVIOUS
<1>3. (x \div Pow[m]) \div Pow[n] = x \div Pow[m + n]
  BY <1>1, <1>2
<1>4. QED
  BY <1>3 DEF BitSet

-----------------------------------------------------------------------------
(* The bitwise and. *)

\* f sums w up to n.
Sums(f, n, w) == f = [k \in 0 .. n |-> IF k = 0 THEN 0 ELSE f[k - 1] + w[k - 1]]

\* The definition of a sum by recursion has a solution.
LEMMA SumsExist ==
  ASSUME NEW w
  PROVE  \A n \in Nat : \E f : Sums(f, n, w)
<1> DEFINE T == {n \in Nat : \E f : Sums(f, n, w)}
<1>1. 0 \in T
  <2> DEFINE f == [k \in 0 .. 0 |-> 0]
  <2>1. f = [k \in 0 .. 0 |-> IF k = 0 THEN 0 ELSE f[k - 1] + w[k - 1]]
    OBVIOUS
  <2> HIDE DEF f
  <2>2. QED
    BY <2>1 DEF Sums
<1>2. ASSUME NEW n \in Nat, n \in T PROVE n + 1 \in T
  <2>1. PICK f : Sums(f, n, w)
    BY <1>2
  <2>2. f = [k \in 0 .. n |-> IF k = 0 THEN 0 ELSE f[k - 1] + w[k - 1]]
    BY <2>1 DEF Sums
  <2> DEFINE g == [k \in 0 .. n + 1 |-> IF k = n + 1 THEN f[n] + w[n] ELSE f[k]]
  <2>3. ASSUME NEW k \in 0 .. n + 1 PROVE g[k] = IF k = 0 THEN 0 ELSE g[k - 1] + w[k - 1]
    <3>1. CASE k = n + 1
      BY <3>1
    <3>2. CASE k # n + 1
      <4>1. k \in 0 .. n /\ (k # 0 => k - 1 \in 0 .. n + 1 /\ k - 1 # n + 1)
        BY <3>2
      <4>2. QED
        BY <2>2, <4>1
    <3>3. QED
      BY <3>1, <3>2
  <2>4. g = [k \in 0 .. n + 1 |-> g[k]]
    OBVIOUS
  <2> HIDE DEF g
  <2>5. Sums(g, n + 1, w)
    BY <2>3, <2>4 DEF Sums
  <2>6. QED
    BY <2>5
<1> HIDE DEF T
<1>3. Nat \subseteq T
  BY <1>1, <1>2, Induct
<1>4. QED
  BY <1>3 DEF T

\* What the bit n of both x and y contributes.
Weight(x, y, n) == IF BitSet(x, n) /\ BitSet(y, n) THEN Pow[n] ELSE 0

\* BitAnd adds up the bits that both numbers have.
LEMMA BitAndReads ==
  ASSUME NEW x, NEW y
  PROVE  \E low : /\ low[0] = 0
                  /\ \A n \in 0 .. Bits - 1 : low[n + 1] = low[n] + Weight(x, y, n)
                  /\ BitAnd(x, y) = low[Bits]
<1> DEFINE w == [n \in 0 .. Bits - 1 |-> Weight(x, y, n)]
           Low(f) == f = [n \in 0 .. Bits |->
                            IF n = 0 THEN 0
                            ELSE f[n - 1] + IF BitSet(x, n - 1) /\ BitSet(y, n - 1)
                                            THEN Pow[n - 1] ELSE 0]
           low == CHOOSE f : Low(f)
<1>1. BitAnd(x, y) = low[Bits]
  BY DEF BitAnd
<1>0. Bits \in Nat \ {0}
  BY WidthAssumption
<1>2. \E f : Low(f)
  <2>1. PICK f : Sums(f, Bits, w)
    BY <1>0, SumsExist
  <2>2. f = [k \in 0 .. Bits |-> IF k = 0 THEN 0 ELSE f[k - 1] + w[k - 1]]
    BY <2>1 DEF Sums
  <2>3. ASSUME NEW k \in 0 .. Bits, k # 0
        PROVE  w[k - 1] = IF BitSet(x, k - 1) /\ BitSet(y, k - 1) THEN Pow[k - 1] ELSE 0
    <3>1. k - 1 \in 0 .. Bits - 1
      BY <1>0, <2>3
    <3>2. QED
      BY <3>1 DEF Weight
  <2> HIDE DEF w
  <2>4. Low(f)
    BY <2>2, <2>3
  <2>5. QED
    BY <2>4
<1>3. Low(low)
  BY <1>2
<1> HIDE DEF low
<1>4. low[0] = 0
  BY <1>0, <1>3
<1>5. ASSUME NEW n \in 0 .. Bits - 1 PROVE low[n + 1] = low[n] + Weight(x, y, n)
  <2>1. n + 1 \in 0 .. Bits /\ n + 1 # 0 /\ (n + 1) - 1 = n
    BY <1>0
  <2>2. QED
    BY <1>3, <2>1 DEF Weight
<1>6. QED
  BY <1>1, <1>4, <1>5

\* A mask of the bits lo to hi - 1, whatever the bits t below.
LEMMA MaskReads ==
  ASSUME NEW lo \in Nat, NEW hi \in Nat, lo <= hi, NEW t \in Nat, t < Pow[lo],
         NEW i \in Nat, lo <= i
  PROVE  BitSet(Pow[hi] - Pow[lo] + t, i) <=> i < hi
<1> DEFINE p == Pow[lo]
           d == Pow[i]
           x == Pow[hi] - p + t
<1>1. p \in Nat \ {0} /\ d \in Nat \ {0} /\ p <= d /\ t < p
  BY PowDoubles, PowGrows
<1>2. CASE i < hi
  <2> DEFINE z == Pow[hi - i]
  <2>1. z \in Nat \ {0} /\ z % 2 = 0 /\ Pow[hi] = d * z
    <3>1. i <= hi
      BY <1>2
    <3>2. hi - i \in Nat /\ Pow[hi] = d * z /\ z % 2 = 0
      BY <1>2, <3>1, PowGrows
    <3>3. QED
      BY <3>2, PowDoubles
  <2>2. x = (d * z - p) + t
    BY <2>1
  <2> HIDE DEF p, d, z, x
  <2>3. \A u, v \in Int : u * v = u * (v - 1) + u
    OBVIOUS
  <2>4. x = d * (z - 1) + (d - p + t)
    BY <1>1, <2>1, <2>2, <2>3
  <2>5. z - 1 \in Int /\ d - p + t \in Nat /\ d - p + t < d
    BY <1>1, <2>1
  <2>6. x \div d = z - 1
    <3> DEFINE q == z - 1
               r == d - p + t
    <3>1. q \in Int /\ r \in Nat /\ r < d /\ x = d * q + r
      BY <2>4, <2>5
    <3> HIDE DEF q, r
    <3>2. x \div d = q
      BY <1>1, <3>1, DivModUnique
    <3>3. QED
      BY <3>2 DEF q
  <2>7. (z - 1) % 2 = 1
    BY <2>1
  <2>8. QED
    BY <1>2, <2>6, <2>7 DEF BitSet, x, d, p
<1>3. CASE ~ (i < hi)
  <2>1. Pow[hi] \in Nat /\ Pow[hi] <= d /\ p <= Pow[hi]
    <3>1. hi <= i
      BY <1>3
    <3>2. Pow[hi] <= Pow[i] /\ Pow[lo] <= Pow[hi]
      BY <3>1, PowGrows
    <3>3. QED
      BY <3>2, PowDoubles
  <2>2. x = Pow[hi] - p + t
    OBVIOUS
  <2> HIDE DEF p, d, x
  <2>3. x \in Nat /\ x < d
    BY <1>1, <2>1, <2>2
  <2>4. x = d * 0 + x
    BY <1>1, <2>3
  <2>5. x \div d = 0
    BY <1>1, <2>3, <2>4, DivModUnique
  <2>6. QED
    BY <1>3, <2>5 DEF BitSet, x, d, p
<1>4. QED
  BY <1>2, <1>3

\* With a mask of the bits lo to hi - 1, the bits of a that are left.
LEMMA MaskAndShift ==
  ASSUME NEW a \in Nat, NEW lo \in Nat, NEW hi \in Nat, lo <= hi, hi <= Bits,
         NEW mask, \A i \in lo .. Bits - 1 : BitSet(mask, i) <=> i < hi
  PROVE  BitAnd(a, mask) \div Pow[lo] = (a \div Pow[lo]) % Pow[hi - lo]
<1>0. Bits \in Nat
  BY WidthAssumption
<1> DEFINE p == Pow[lo]
           b == a \div p
<1>1. PICK low :
        /\ low[0] = 0
        /\ \A n \in 0 .. Bits - 1 : low[n + 1] = low[n] + Weight(a, mask, n)
        /\ BitAnd(a, mask) = low[Bits]
  BY BitAndReads
<1>2. low[lo] \in Nat /\ low[lo] < p
  <2> DEFINE T == {n \in Nat : n <= Bits => low[n] \in Nat /\ low[n] < Pow[n]}
  <2>1. 0 \in T
    BY <1>1, PowDoubles
  <2>2. ASSUME NEW n \in Nat, n \in T PROVE n + 1 \in T
    <3> SUFFICES ASSUME n + 1 <= Bits
                 PROVE  low[n + 1] \in Nat /\ low[n + 1] < Pow[n + 1]
      OBVIOUS
    <3>1. low[n] \in Nat /\ low[n] < Pow[n]
      BY <1>0, <2>2
    <3>2. low[n + 1] = low[n] + Weight(a, mask, n)
      BY <1>0, <1>1
    <3>3. Weight(a, mask, n) \in {0, Pow[n]}
      BY DEF Weight
    <3>4. Pow[n] \in Nat /\ Pow[n + 1] = 2 * Pow[n]
      BY PowDoubles
    <3>5. QED
      BY <3>1, <3>2, <3>3, <3>4
  <2> HIDE DEF T
  <2>3. Nat \subseteq T
    BY <2>1, <2>2, Induct
  <2>4. QED
    BY <1>0, <2>3 DEF T
<1>3. p \in Nat \ {0} /\ b \in Nat
  <2>1. p \in Nat \ {0}
    BY PowDoubles
  <2>2. a \in Int /\ a >= 0
    OBVIOUS
  <2> HIDE DEF p
  <2>3. QED
    BY <2>1, <2>2, DivModReads
<1>4. hi - lo \in Nat /\ lo + (hi - lo) = hi
  OBVIOUS
<1>5. low[hi] = low[lo] + p * (b % Pow[hi - lo])
  <2> DEFINE T == {m \in Nat : lo + m <= hi => low[lo + m] = low[lo] + p * (b % Pow[m])}
  <2> HIDE DEF p, b
  <2>1. 0 \in T
    <3>1. b % Pow[0] = 0 /\ p * 0 = 0
      BY <1>3, PowDoubles
    <3>2. QED
      BY <1>2, <3>1
  <2>2. ASSUME NEW m \in Nat, m \in T PROVE m + 1 \in T
    <3> SUFFICES ASSUME lo + (m + 1) <= hi
                 PROVE  low[lo + (m + 1)] = low[lo] + p * (b % Pow[m + 1])
      OBVIOUS
    <3>1. low[lo + m] = low[lo] + p * (b % Pow[m])
      BY <2>2
    <3>2. lo + m \in lo .. Bits - 1 /\ lo + m \in 0 .. Bits - 1 /\ lo + m < hi
          /\ lo + (m + 1) = (lo + m) + 1
      BY <1>0
    <3>3. low[lo + (m + 1)] = low[lo + m] + Weight(a, mask, lo + m)
      BY <1>1, <3>2
    <3>4. Weight(a, mask, lo + m) = IF BitSet(b, m) THEN p * Pow[m] ELSE 0
      <4>1. BitSet(mask, lo + m)
        BY <3>2
      <4>2. BitSet(b, m) <=> BitSet(a, lo + m)
        BY BitsOfQuotient DEF b, p
      <4>3. Pow[lo + m] = p * Pow[m]
        BY PowAdds DEF p
      <4>4. QED
        BY <4>1, <4>2, <4>3 DEF Weight
    <3>5. b % Pow[m + 1] = (b % Pow[m]) + IF BitSet(b, m) THEN Pow[m] ELSE 0
      BY <1>3, RemainderGrows
    <3> DEFINE r == b % Pow[m]
               w == Pow[m]
    <3>6. r \in Nat /\ w \in Nat
      <4>1. w \in Nat \ {0} /\ b \in Int
        BY <1>3, PowDoubles
      <4>2. QED
        BY <4>1, DivModReads
    <3>7. \A u, v, x, y \in Nat : (x + u * v) + u * y = x + u * (v + y)
      OBVIOUS
    <3>8. \A u, v, x \in Nat : x + u * v = x + u * (v + 0)
      OBVIOUS
    <3> HIDE DEF r, w
    <3>9. CASE BitSet(b, m)
      <4>1. b % Pow[m + 1] = r + w /\ low[lo + (m + 1)] = (low[lo] + p * r) + p * w
        BY <3>1, <3>3, <3>4, <3>5, <3>9 DEF r, w
      <4>2. QED
        BY <1>2, <1>3, <3>6, <3>7, <4>1
    <3>10. CASE ~ BitSet(b, m)
      <4>1. b % Pow[m + 1] = r + 0 /\ low[lo + (m + 1)] = (low[lo] + p * r) + 0
        BY <3>1, <3>3, <3>4, <3>5, <3>10 DEF r, w
      <4>2. r + 0 = r /\ p * r \in Nat
        BY <1>3, <3>6
      <4>3. QED
        BY <1>2, <4>1, <4>2
    <3>11. QED
      BY <3>9, <3>10
  <2> HIDE DEF T
  <2>3. Nat \subseteq T
    BY <2>1, <2>2, Induct
  <2>4. hi - lo \in T
    BY <1>4, <2>3
  <2>5. QED
    BY <1>4, <2>4 DEF T
<1>6. low[Bits] = low[hi]
  <2> DEFINE T == {m \in Nat : hi + m <= Bits => low[hi + m] = low[hi]}
  <2>1. 0 \in T
    OBVIOUS
  <2>2. ASSUME NEW m \in Nat, m \in T PROVE m + 1 \in T
    <3> SUFFICES ASSUME hi + (m + 1) <= Bits PROVE low[hi + (m + 1)] = low[hi]
      OBVIOUS
    <3>1. low[hi + m] = low[hi]
      BY <1>0, <2>2
    <3>2. hi + m \in lo .. Bits - 1 /\ hi + m \in 0 .. Bits - 1 /\ ~ (hi + m < hi)
          /\ hi + (m + 1) = (hi + m) + 1
      BY <1>0
    <3>3. Weight(a, mask, hi + m) = 0
      BY <3>2 DEF Weight
    <3>4. low[hi + (m + 1)] = low[hi] + 0
      BY <1>1, <3>1, <3>2, <3>3
    <3>5. low[hi] \in Nat
      <4> DEFINE r == b % Pow[hi - lo]
      <4>1. Pow[hi - lo] \in Nat \ {0} /\ b \in Int
        BY <1>3, <1>4, PowDoubles
      <4>2. r \in Nat
        BY <4>1, DivModReads
      <4> HIDE DEF r, p
      <4>3. \A u, v, x \in Nat : x + u * v \in Nat
        OBVIOUS
      <4>4. low[hi] = low[lo] + p * r
        BY <1>5 DEF r
      <4>5. QED
        BY <1>2, <1>3, <4>2, <4>3, <4>4
    <3>6. QED
      BY <3>4, <3>5
  <2> HIDE DEF T
  <2>3. Nat \subseteq T
    BY <2>1, <2>2, Induct
  <2>4. Bits - hi \in T /\ hi + (Bits - hi) = Bits /\ hi + (Bits - hi) <= Bits
    BY <1>0, <2>3
  <2>5. QED
    BY <2>4 DEF T
<1> DEFINE q == b % Pow[hi - lo]
<1>7. q \in Int
  BY <1>3, <1>4, PowDoubles
<1>8. low[Bits] = low[lo] + p * q
  BY <1>5, <1>6
<1> HIDE DEF p, b, q
<1>9. low[Bits] = p * q + low[lo]
  <2>1. \A u, v \in Int, x \in Nat : x + u * v = u * v + x
    OBVIOUS
  <2>2. QED
    BY <1>2, <1>3, <1>7, <1>8, <2>1
<1>10. low[Bits] \div p = q
  BY <1>2, <1>3, <1>7, <1>9, DivModUnique
<1>11. QED
  BY <1>1, <1>10 DEF p, b, q

\* extract(max, lo, a) is the field of the bits lo to max of a and has one value,
\* where the shift by the width only adds a bit above the field.
LEMMA ExtractReads ==
  ASSUME NEW a \in Nat, NEW lo \in Nat, NEW hi \in Nat,
         lo <= hi, hi <= Bits, hi = Bits => lo > 0, NEW max, max + 1 = hi
  PROVE  extract(max, lo, a) = {(a \div Pow[lo]) % Pow[hi - lo]}
<1>0. Bits \in Nat
  BY WidthAssumption
<1>1. /\ Pow[lo] \in Nat \ {0} /\ Pow[hi] \in Nat \ {0} /\ Pow[Bits] \in Nat \ {0}
      /\ Pow[lo] <= Pow[hi] /\ Pow[hi] <= Pow[Bits]
      /\ hi < Bits => Pow[hi] < Pow[Bits]
      /\ 0 < lo => 1 < Pow[lo]
  <2>1. /\ Pow[lo] \in Nat \ {0} /\ Pow[hi] \in Nat \ {0} /\ Pow[Bits] \in Nat \ {0}
        /\ Pow[0] = 1
    BY <1>0, PowDoubles
  <2>2. Pow[lo] <= Pow[hi]
    BY PowGrows
  <2>3. Pow[hi] <= Pow[Bits] /\ (hi < Bits => Pow[hi] < Pow[Bits])
    BY <1>0, PowGrows
  <2>4. 0 < lo => Pow[0] < Pow[lo]
    <3>1. 0 \in Nat /\ 0 <= lo
      OBVIOUS
    <3>2. QED
      BY <3>1, PowGrows
  <2>5. QED
    BY <2>1, <2>2, <2>3, <2>4
<1>2. ASSUME NEW s \in OneShifted(hi)
      PROVE  BitAnd(a, (s - Pow[lo]) % Pow[Bits]) \div Pow[lo]
               = (a \div Pow[lo]) % Pow[hi - lo]
  <2> DEFINE p == Pow[lo]
             h == Pow[hi]
             d == Pow[Bits]
             t == IF hi < Bits THEN 0 ELSE s
  <2>1. t \in Nat /\ t < p
    BY <1>0, <1>1 DEF OneShifted
  <2>2. s = IF hi < Bits THEN h ELSE t
    BY <1>0 DEF OneShifted
  <2>3. hi = Bits \/ hi < Bits
    BY <1>0
  <2>4. h - p + t \in Nat /\ h - p + t < d
    <3>1. CASE hi < Bits
      <4>1. t = 0
        BY <3>1
      <4> HIDE DEF p, h, d, t
      <4>2. QED
        BY <1>1, <3>1, <4>1 DEF p, h, d
    <3>2. CASE hi = Bits
      <4>1. h = d
        BY <3>2
      <4> HIDE DEF t
      <4>2. QED
        BY <1>1, <2>1, <4>1
    <3>3. QED
      BY <2>3, <3>1, <3>2
  <2>5. (s - p) % d = h - p + t
    <3> DEFINE r == h - p + t
    <3>1. CASE hi < Bits
      <4>1. t = 0 /\ s = h
        BY <2>2, <3>1
      <4>2. s - p = d * 0 + r
        BY <1>1, <4>1
      <4> HIDE DEF p, h, d, t, r
      <4>3. d \in Nat \ {0} /\ r \in Nat /\ r < d
        BY <1>1, <2>4 DEF d, r
      <4>4. QED
        BY <4>2, <4>3, DivModUnique DEF r
    <3>2. CASE hi = Bits
      <4>1. h = d /\ s = t
        BY <1>0, <2>2, <3>2
      <4> HIDE DEF t
      <4>2. s - p = d * (-1) + r
        <5>1. \A x, y, z \in Nat : z - y = x * (-1) + (x - y + z)
          OBVIOUS
        <5>2. QED
          BY <1>1, <2>1, <4>1, <5>1
      <4> HIDE DEF p, h, d, r
      <4>3. d \in Nat \ {0} /\ r \in Nat /\ r < d
        BY <1>1, <2>4 DEF d, r
      <4>4. (s - p) % d = r
        <5> DEFINE q == -1
        <5>1. q \in Int /\ s - p = d * q + r
          BY <4>2
        <5> HIDE DEF q
        <5>2. QED
          BY <4>3, <5>1, DivModUnique
      <4>5. QED
        BY <4>4 DEF r
    <3>3. QED
      BY <2>3, <3>1, <3>2
  <2>6. \A i \in lo .. Bits - 1 : BitSet(h - p + t, i) <=> i < hi
    <3> HIDE DEF t
    <3>1. \A i \in lo .. Bits - 1 : i \in Nat /\ lo <= i
      BY <1>0
    <3>2. QED
      BY <2>1, <3>1, MaskReads
  <2> DEFINE mask == (s - p) % d
  <2>7. \A i \in lo .. Bits - 1 : BitSet(mask, i) <=> i < hi
    BY <2>5, <2>6
  <2> HIDE DEF mask
  <2>8. BitAnd(a, mask) \div Pow[lo] = (a \div Pow[lo]) % Pow[hi - lo]
    BY <2>7, MaskAndShift
  <2>9. QED
    BY <2>8 DEF mask
<1>3. OneShifted(hi) # {}
  BY DEF OneShifted
<1>4. extract(max, lo, a) =
        {BitAnd(a, (s - Pow[lo]) % Pow[Bits]) \div Pow[lo] : s \in OneShifted(hi)}
  BY DEF extract
<1>5. QED
  BY <1>2, <1>3, <1>4

-----------------------------------------------------------------------------
(* The parts of an address, in the cache ch. *)

\* log2 is rounded down.
LEMMA Log2Reads ==
  ASSUME NEW n \in Nat \ {0}
  PROVE  Log2(n) \in Nat /\ Pow[Log2(n)] <= n
<1> DEFINE T == {k \in Nat : k < Pow[k]}
           S == {k \in Nat : n < Pow[k + 1]}
<1>1. 0 \in T
  BY PowDoubles
<1>2. \A k \in Nat : k \in T => k + 1 \in T
  BY PowDoubles
<1> HIDE DEF T
<1>3. n \in T
  BY <1>1, <1>2, Induct
<1>4. n \in S
  BY <1>3, PowDoubles DEF T
<1>5. S \in SUBSET Nat
  OBVIOUS
<1> HIDE DEF S
<1>6. PICK k \in S : \A j \in S : k <= j
  BY <1>4, <1>5, LeastOf
<1>7. k \in Nat /\ n < Pow[k + 1] /\ k <= n
  BY <1>4, <1>6 DEF S
<1>8. Pow[k] <= n
  <2>1. CASE k = 0
    BY <2>1, PowDoubles
  <2>2. CASE k # 0
    <3>1. k - 1 \in Nat /\ (k - 1) + 1 = k /\ ~ (k <= k - 1)
      BY <1>7, <2>2
    <3>2. k - 1 \notin S
      BY <1>6, <3>1
    <3>3. ~ (n < Pow[k])
      BY <3>1, <3>2 DEF S
    <3>4. QED
      BY <1>7, <3>3, PowDoubles
  <2>3. QED
    BY <2>1, <2>2
<1>9. \E j \in 0 .. n : Pow[j] <= n /\ n < Pow[j + 1]
  BY <1>7, <1>8
<1>10. QED
  BY <1>9 DEF Log2

CountOf(ch)    == ch.lines \div ch.assoc
ColoursOf(ch)  == Pow[Log2(CountOf(ch))]
PofsOf(ch, c)  == IF c.is2M THEN HugeBits ELSE ch.log_line_size
NumberOf(ch, c) == c.address \div Pow[PofsOf(ch, c)]
OffsetOf(ch, c) == c.address % Pow[PofsOf(ch, c)]
PageFor(ch, c) == [bits |-> PofsOf(ch, c), number |-> NumberOf(ch, c)]

Addresses == [address : 0 .. Pow[Bits] - 1, is2M : BOOLEAN]

\* The arguments of a constructor: there are sets, as many colours as the largest
\* power of two not above their number, and bits left for a tag.
LEMMA CacheReads ==
  ASSUME NEW ch \in Caches
  PROVE  /\ CountOf(ch) \in Nat \ {0} /\ ch.assoc \in Nat \ {0}
         /\ Log2(CountOf(ch)) \in Nat /\ Log2(CountOf(ch)) + HugeBits < Bits
         /\ ColoursOf(ch) \in Nat \ {0} /\ ColoursOf(ch) <= CountOf(ch)
         /\ ch.log_line_size \in {PageBits, HugeBits}
<1>1. /\ ch.lines \in Nat \ {0} /\ ch.assoc \in Nat \ {0} /\ ch.assoc <= ch.lines
      /\ ch.log_line_size \in {PageBits, HugeBits}
  BY CacheAssumption
<1>2. \A m, n \in Nat \ {0} : n <= m => m \div n \in Nat \ {0}
  OBVIOUS
<1>3. CountOf(ch) \in Nat \ {0}
  BY <1>1, <1>2 DEF CountOf
<1>4. Log2(CountOf(ch)) \in Nat /\ ColoursOf(ch) <= CountOf(ch)
  BY <1>3, Log2Reads DEF ColoursOf
<1>5. Log2(CountOf(ch)) + HugeBits < Bits
  BY TagAssumption DEF CountOf
<1>6. QED
  BY <1>1, <1>3, <1>4, <1>5, PowDoubles DEF ColoursOf

\* An address is its page times the size of the page, and an offset.
LEMMA AddressReads ==
  ASSUME NEW ch \in Caches, NEW c \in Addresses
  PROVE  /\ c.address \in Nat /\ c.address < Pow[Bits]
         /\ PofsOf(ch, c) \in {PageBits, HugeBits}
         /\ PofsOf(ch, c) \in Nat \ {0} /\ PofsOf(ch, c) <= HugeBits
         /\ Pow[PofsOf(ch, c)] \in Nat \ {0}
         /\ NumberOf(ch, c) \in Nat /\ OffsetOf(ch, c) \in Nat
         /\ OffsetOf(ch, c) < Pow[PofsOf(ch, c)]
         /\ c.address = Pow[PofsOf(ch, c)] * NumberOf(ch, c) + OffsetOf(ch, c)
<1>1. c.address \in 0 .. Pow[Bits] - 1 /\ c.is2M \in BOOLEAN
  BY DEF Addresses
<1>2. Bits \in Nat /\ Pow[Bits] \in Nat
  BY PowDoubles, WidthAssumption
<1>3. PofsOf(ch, c) \in {PageBits, HugeBits}
  BY CacheReads DEF PofsOf
<1>4. PofsOf(ch, c) \in Nat \ {0} /\ PofsOf(ch, c) <= HugeBits
  BY <1>3, WidthAssumption
<1> DEFINE a == c.address
           d == Pow[PofsOf(ch, c)]
<1>5. d \in Nat \ {0}
  BY <1>4, PowDoubles
<1>6. a \in Nat /\ a < Pow[Bits]
  BY <1>1, <1>2
<1>7. NumberOf(ch, c) = a \div d /\ OffsetOf(ch, c) = a % d
  BY DEF NumberOf, OffsetOf
<1> HIDE DEF a, d
<1>8. a \div d \in Nat /\ a % d \in Nat /\ a % d < d /\ a = d * (a \div d) + (a % d)
  <2>1. a \in Int /\ a >= 0
    BY <1>6
  <2>2. QED
    BY <1>5, <2>1, DivModReads
<1>9. QED
  BY <1>3, <1>4, <1>5, <1>6, <1>7, <1>8 DEF a, d

\* extract() cuts an address where it should: the number of the page is made of tag
\* and set, and nothing of the address is lost.
LEMMA CutReads ==
  ASSUME cache \in Caches, NEW c \in Addresses
  PROVE  /\ Offset(c) = {OffsetOf(cache, c)}
         /\ SetId(c) = {NumberOf(cache, c) % ColoursOf(cache)}
         /\ Tag(c) = {NumberOf(cache, c) \div ColoursOf(cache)}
<1> DEFINE a == c.address
           p == PofsOf(cache, c)
           l == Log2(CountOf(cache))
<1>1. /\ a \in Nat /\ a < Pow[Bits] /\ p \in Nat \ {0} /\ l \in Nat /\ l + p < Bits
      /\ Bits \in Nat
  <2>1. a \in Nat /\ a < Pow[Bits] /\ p \in Nat \ {0} /\ p <= HugeBits
    BY AddressReads
  <2>2. l \in Nat /\ l + HugeBits < Bits
    BY CacheReads
  <2>3. Bits \in Nat /\ HugeBits \in Nat
    BY WidthAssumption
  <2> HIDE DEF a, p, l
  <2>4. l + p < Bits
    BY <2>1, <2>2, <2>3
  <2>5. QED
    BY <2>1, <2>2, <2>3, <2>4
<1>2. /\ Offset(c) = extract(p - 1, 0, a)
      /\ SetId(c) = extract(l + p - 1, p, a)
      /\ Tag(c) = extract(Bits - 1, l + p, a)
  BY DEF Offset, SetId, Tag, log_pofs, log_set_count, set_count, PofsOf, CountOf
<1>3. /\ OffsetOf(cache, c) = a % Pow[p]
      /\ NumberOf(cache, c) = a \div Pow[p]
      /\ ColoursOf(cache) = Pow[l]
  BY DEF OffsetOf, NumberOf, ColoursOf
<1> HIDE DEF a, p, l
<1>4. Pow[p] \in Nat \ {0} /\ Pow[l] \in Nat \ {0} /\ Pow[l + p] \in Nat \ {0}
  BY <1>1, PowDoubles
<1>5. extract(p - 1, 0, a) = {a % Pow[p]}
  <2>1. 0 \in Nat /\ 0 <= p /\ p <= Bits /\ ~ (p = Bits) /\ (p - 1) + 1 = p
    BY <1>1
  <2>2. extract(p - 1, 0, a) = {(a \div Pow[0]) % Pow[p - 0]}
    BY <1>1, <2>1, ExtractReads
  <2>3. Pow[0] = 1 /\ p - 0 = p /\ a \div 1 = a
    BY <1>1, PowDoubles
  <2>4. QED
    BY <2>2, <2>3
<1>6. extract(l + p - 1, p, a) = {(a \div Pow[p]) % Pow[l]}
  <2>1. l + p \in Nat /\ p <= l + p /\ l + p <= Bits /\ ~ (l + p = Bits)
        /\ (l + p - 1) + 1 = l + p /\ (l + p) - p = l
    BY <1>1
  <2>2. extract(l + p - 1, p, a) = {(a \div Pow[p]) % Pow[(l + p) - p]}
    BY <1>1, <2>1, ExtractReads
  <2>3. QED
    BY <2>1, <2>2
<1>7. extract(Bits - 1, l + p, a) = {(a \div Pow[p]) \div Pow[l]}
  <2> DEFINE lo == l + p
  <2>1. lo \in Nat /\ lo > 0 /\ lo <= Bits /\ Bits <= Bits /\ (Bits - 1) + 1 = Bits
    BY <1>1
  <2> HIDE DEF lo
  <2>2. extract(Bits - 1, lo, a) = {(a \div Pow[lo]) % Pow[Bits - lo]}
    BY <1>1, <2>1, ExtractReads
  <2>3. /\ Bits - lo \in Nat /\ Pow[Bits] = Pow[lo] * Pow[Bits - lo]
        /\ Pow[lo] \in Nat \ {0} /\ Pow[Bits - lo] \in Nat \ {0}
    <3>1. Bits - lo \in Nat /\ Pow[Bits] = Pow[lo] * Pow[Bits - lo]
      BY <1>1, <2>1, PowGrows
    <3>2. QED
      BY <2>1, <3>1, PowDoubles
  <2>4. \A x \in Nat, y, z \in Nat \ {0} : x < y * z => x \div y \in Nat /\ x \div y < z
    OBVIOUS
  <2>5. \A x, y \in Nat : x < y => x % y = x
    OBVIOUS
  <2>6. (a \div Pow[lo]) % Pow[Bits - lo] = a \div Pow[lo]
    <3> DEFINE y == Pow[lo]
               z == Pow[Bits - lo]
               x == a \div y
    <3>1. y \in Nat \ {0} /\ z \in Nat \ {0} /\ a < y * z
      BY <1>1, <2>3
    <3> HIDE DEF y, z
    <3>2. x \in Nat /\ x < z
      BY <1>1, <2>4, <3>1
    <3> HIDE DEF x
    <3>3. x % z = x
      BY <2>5, <3>1, <3>2
    <3>4. QED
      BY <3>3 DEF x, y, z
  <2>7. (a \div Pow[p]) \div Pow[l] = a \div Pow[lo]
    <3>1. \A u \in Nat, x, y \in Nat \ {0} : (u \div x) \div y = u \div (x * y)
      OBVIOUS
    <3>2. p + l = lo
      BY <1>1 DEF lo
    <3>3. Pow[lo] = Pow[p] * Pow[l]
      BY <1>1, <3>2, PowAdds
    <3>4. QED
      BY <1>1, <1>4, <3>1, <3>3
  <2>8. QED
    BY <2>2, <2>6, <2>7 DEF lo
<1>8. QED
  BY <1>2, <1>3, <1>5, <1>6, <1>7

-----------------------------------------------------------------------------
(* The invariant, of the sets ss of the cache ch. *)

Entries == [addr : Nat, freq : 0 .. MaxFreq - 1, live : BOOLEAN, offset : Nat, call : Calls]

\* The entries a hit can lead to.
Lives(r) == {k \in DOMAIN r : r[k].live}

\* The entry e of set i is what its last call leads to.
Leads(ch, i, e) ==
  /\ NumberOf(ch, e.call) = ColoursOf(ch) * e.addr + i
  /\ e.offset = OffsetOf(ch, e.call)

\* No two live entries have the same tag.
Single(r) == \A k, m \in Lives(r) : r[k].addr = r[m].addr => k = m

\* Set i is r: only sets below a power of two are used, and there are orphans only
\* where pages are inserted that are there.
Holds(ch, i, r) ==
  /\ r \in Seq(Entries) /\ Len(r) <= ch.assoc
  /\ Single(r)
  /\ ch.repeats \/ DOMAIN r \subseteq Lives(r)
  /\ \A k \in DOMAIN r : i < ColoursOf(ch) /\ Leads(ch, i, r[k])

Placed(ch, ss) ==
  /\ DOMAIN ss = 0 .. CountOf(ch) - 1
  /\ \A i \in DOMAIN ss : Holds(ch, i, ss[i])

IInv ==
  /\ cache \in Caches
  /\ Placed(cache, sets)
  /\ reply.hit \in BOOLEAN \cup {NONE}

\* The pages of set i, and of all sets.
PagesOf(ch, r) == {PageFor(ch, r[k].call) : k \in Lives(r)}
Pages(ch, ss)  == UNION {PagesOf(ch, ss[i]) : i \in DOMAIN ss}

\* How many lines of every set are in use.
Lengths(ch, ss) == [i \in 0 .. ColoursOf(ch) - 1 |-> Len(ss[i])]

-----------------------------------------------------------------------------
(* What the operations of Ranking do to the entries of a set. *)

\* The parts of an entry.
LEMMA EntriesRead ==
  ASSUME NEW r \in Seq(Entries)
  PROVE  /\ Len(r) \in Nat /\ DOMAIN r = 1 .. Len(r)
         /\ \A k \in 1 .. Len(r) :
              /\ r[k] \in Entries /\ r[k].addr \in Nat /\ r[k].freq \in 0 .. MaxFreq - 1
              /\ r[k].live \in BOOLEAN /\ r[k].offset \in Nat /\ r[k].call \in Calls
<1>1. Len(r) \in Nat /\ DOMAIN r = 1 .. Len(r) /\ \A k \in 1 .. Len(r) : r[k] \in Entries
  BY LenProperties, ElementOfSeq
<1>2. \A e \in Entries :
        /\ e.addr \in Nat /\ e.freq \in 0 .. MaxFreq - 1
        /\ e.live \in BOOLEAN /\ e.offset \in Nat /\ e.call \in Calls
  BY DEF Entries
<1>3. QED
  BY <1>1, <1>2

\* Place returns a place in the sequence or the one behind it.
LEMMA PlaceIsAPlace ==
  ASSUME NEW E, NEW r \in Seq(E), NEW policy, NEW f
  PROVE  Place(policy, r, f) \in 1 .. Len(r) + 1
<1> DEFINE n == Len(r)
           above == {i \in DOMAIN r : r[i].freq > f}
<1>1. n \in Nat /\ DOMAIN r = 1 .. n
  BY LenProperties
<1> HIDE DEF n
<1>2. above \in SUBSET (1 .. n)
  BY <1>1
<1>3. Place(policy, r, f) = IF policy = LRU THEN 1 ELSE 1 + Cardinality(above)
  BY DEF Place
<1> HIDE DEF above
<1>4. Cardinality(above) \in 0 .. n
  BY <1>1, <1>2, UpToCounts
<1>5. QED
  BY <1>1, <1>3, <1>4 DEF n

\* Where the entries come from when the one at i is moved to p.
Origin(n, i, p) ==
  [k \in 1 .. n |-> IF k = p THEN i
                   ELSE LET j == IF k < p THEN k ELSE k - 1
                        IN  IF j < i THEN j ELSE j + 1]

Permutes(f, n) ==
  /\ f \in [1 .. n -> 1 .. n]
  /\ \A k, m \in 1 .. n : f[k] = f[m] => k = m
  /\ \A j \in 1 .. n : \E k \in 1 .. n : f[k] = j

\* Moving an entry permutes the entries.
LEMMA OriginPermutes ==
  ASSUME NEW n \in Nat, NEW i \in 1 .. n, NEW p \in 1 .. n
  PROVE  Permutes(Origin(n, i, p), n)
<1>1. /\ Origin(n, i, p) \in [1 .. n -> 1 .. n]
      /\ \A k, m \in 1 .. n : Origin(n, i, p)[k] = Origin(n, i, p)[m] => k = m
  BY DEF Origin
<1>2. ASSUME NEW j \in 1 .. n PROVE \E k \in 1 .. n : Origin(n, i, p)[k] = j
  <2>1. CASE j = i
    BY <2>1 DEF Origin
  <2>2. CASE j # i
    <3> DEFINE m == IF j < i THEN j ELSE j - 1
               k == IF m < p THEN m ELSE m + 1
    <3>1. k \in 1 .. n /\ Origin(n, i, p)[k] = j
      BY <2>2 DEF Origin
    <3>2. QED
      BY <3>1
  <2>3. QED
    BY <2>1, <2>2
<1>3. QED
  BY <1>1, <1>2 DEF Permutes

\* s has the entries of r in another order and with other counts; the one that was at
\* i has another offset and another call.
Moved(s, r, i, off, c) ==
  /\ s \in Seq(Entries) /\ Len(s) = Len(r)
  /\ \E from :
       /\ Permutes(from, Len(r))
       /\ \A k \in 1 .. Len(r) :
            /\ s[k].addr = r[from[k]].addr
            /\ s[k].offset = IF from[k] = i THEN off ELSE r[from[k]].offset
            /\ s[k].call = IF from[k] = i THEN c ELSE r[from[k]].call
            /\ k \in Lives(s) <=> from[k] \in Lives(r)

\* Used moves the entry that was hit, gives it the offset and the call, and keeps
\* every counter below MaxFreq.
LEMMA UsedReads ==
  ASSUME NEW r \in Seq(Entries), NEW i \in DOMAIN r, NEW off \in Nat, NEW c \in Calls,
         NEW policy
  PROVE  Moved(Used(policy, r, i, [r[i] EXCEPT !.offset = off, !.call = c]), r, i, off, c)
<1> DEFINE Wide == [addr : Nat, freq : 0 .. MaxFreq, live : BOOLEAN, offset : Nat,
                    call : Calls]
           f == r[i].freq
           t == RemoveAt(r, i)
           d == [r[i] EXCEPT !.offset = off, !.call = c]
           e == [d EXCEPT !.freq = f + 1]
           p == Place(policy, t, f)
           u == InsertAt(t, p, e)
           s == IF f + 1 = MaxFreq THEN Halved(u) ELSE u
<1>0. MaxFreq \in Nat \ {0}
  BY FreqAssumption
<1>1. /\ Len(r) \in Nat /\ DOMAIN r = 1 .. Len(r) /\ i \in 1 .. Len(r)
      /\ \A k \in 1 .. Len(r) : r[k] \in Entries
  BY EntriesRead
<1>2. r[i] \in Entries /\ f \in 0 .. MaxFreq - 1 /\ f + 1 \in 0 .. MaxFreq
  <2>1. r[i] \in Entries /\ f \in 0 .. MaxFreq - 1
    BY <1>1, EntriesRead
  <2> HIDE DEF f
  <2>2. QED
    BY <1>0, <2>1
<1>3. /\ e \in Wide /\ e.addr = r[i].addr /\ e.offset = off /\ e.call = c /\ e.freq = f + 1
      /\ e.live = r[i].live
  <2>1. /\ d \in Entries /\ d.addr = r[i].addr /\ d.offset = off /\ d.call = c
        /\ d.live = r[i].live
    BY <1>2 DEF Entries
  <2> HIDE DEF d, f
  <2>2. QED
    BY <1>2, <2>1 DEF Entries
<1>4. /\ t \in Seq(Entries) /\ Len(t) = Len(r) - 1
      /\ \A k \in 1 .. Len(r) - 1 : t[k] = IF k < i THEN r[k] ELSE r[k + 1]
  BY <1>1, RemoveAtReads
<1>5. t \in Seq(Wide)
  <2>1. Entries \subseteq Wide
    <3>1. 0 .. MaxFreq - 1 \subseteq 0 .. MaxFreq
      BY <1>0
    <3>2. QED
      BY <3>1 DEF Entries
  <2> HIDE DEF Wide, t
  <2>2. QED
    BY <1>4, <2>1, SeqMonotonic
<1>6. Used(policy, r, i, d) = s
  BY DEF Used
<1> HIDE DEF Wide, e, t
<1>7. p \in 1 .. Len(t) + 1
  BY <1>5, PlaceIsAPlace
<1> HIDE DEF p
<1>8. u \in Seq(Wide) /\ InsertedAt(u, t, p, e)
  BY <1>3, <1>5, <1>7, InsertAtReads
<1> HIDE DEF u
<1>9. Len(t) + 1 = Len(r) /\ p \in 1 .. Len(r)
  BY <1>1, <1>4, <1>7
<1>10. /\ Len(u) = Len(r) /\ DOMAIN u = 1 .. Len(r)
       /\ \A k \in 1 .. Len(r) :
            u[k] = IF k < p THEN t[k] ELSE IF k = p THEN e ELSE t[k - 1]
  BY <1>8, <1>9, LenProperties DEF InsertedAt
<1> DEFINE from == Origin(Len(r), i, p)
<1>11. Permutes(from, Len(r))
  BY <1>1, <1>9, OriginPermutes
<1>12. ASSUME NEW k \in 1 .. Len(r)
       PROVE  /\ u[k].addr = r[from[k]].addr
              /\ u[k].offset = IF from[k] = i THEN off ELSE r[from[k]].offset
              /\ u[k].call = IF from[k] = i THEN c ELSE r[from[k]].call
              /\ u[k].live = r[from[k]].live
              /\ u[k] \in Wide
              /\ u[k].freq = MaxFreq => f + 1 = MaxFreq
  <2>0. k \in Int /\ i \in Int /\ p \in Int /\ Len(r) \in Nat
    BY <1>1, <1>9
  <2>1. CASE k = p
    <3>1. from[k] = i /\ u[k] = e
      BY <1>10, <2>0, <2>1 DEF Origin
    <3>2. QED
      BY <1>3, <3>1
  <2>2. CASE k # p
    <3> DEFINE j == IF k < p THEN k ELSE k - 1
    <3>1. j \in 1 .. Len(r) - 1 /\ from[k] = IF j < i THEN j ELSE j + 1
      BY <1>1, <1>9, <2>2 DEF Origin
    <3>2. u[k] = t[j]
      BY <1>1, <1>9, <1>10, <2>2
    <3> HIDE DEF j
    <3>3. t[j] = r[from[k]] /\ from[k] # i
      BY <1>1, <1>4, <3>1
    <3> HIDE DEF from
    <3>4. r[from[k]] \in Entries
      BY <1>1, <1>11 DEF Permutes
    <3>5. u[k] \in Entries /\ u[k] = r[from[k]]
      BY <3>2, <3>3, <3>4
    <3>6. u[k] \in Wide /\ u[k].freq # MaxFreq
      <4>1. \A x \in 0 .. MaxFreq - 1 : x \in 0 .. MaxFreq /\ x # MaxFreq
        BY <1>0
      <4>2. u[k].freq \in 0 .. MaxFreq - 1
        BY <3>5 DEF Entries
      <4>3. QED
        BY <3>5, <4>1, <4>2 DEF Entries, Wide
    <3>7. QED
      BY <3>3, <3>5, <3>6
  <2>3. QED
    BY <2>1, <2>2
<1> HIDE DEF from
<1>13. CASE f + 1 # MaxFreq
  <2>1. s = u
    BY <1>13
  <2>2. \A k \in 1 .. Len(r) : u[k] \in Entries
    <3> SUFFICES ASSUME NEW k \in 1 .. Len(r) PROVE u[k] \in Entries
      OBVIOUS
    <3>1. u[k] \in Wide /\ u[k].freq # MaxFreq
      BY <1>12, <1>13
    <3>2. u[k].freq \in 0 .. MaxFreq - 1
      <4>1. u[k].freq \in 0 .. MaxFreq
        BY <3>1 DEF Wide
      <4>2. QED
        BY <1>0, <3>1, <4>1
    <3>3. QED
      BY <3>1, <3>2 DEF Wide, Entries
  <2>3. u \in Seq(Entries)
    <3>1. u = [k \in 1 .. Len(r) |-> u[k]]
      BY <1>8, <1>10
    <3>2. u \in [1 .. Len(r) -> Entries]
      BY <2>2, <3>1
    <3>3. QED
      BY <1>1, <3>2
  <2>6. \A k \in 1 .. Len(r) : k \in Lives(u) <=> from[k] \in Lives(r)
    BY <1>1, <1>10, <1>11, <1>12 DEF Lives, Permutes
  <2>4. Moved(u, r, i, off, c)
    BY <1>10, <1>11, <1>12, <2>3, <2>6 DEF Moved
  <2>5. QED
    BY <1>6, <2>1, <2>4
<1>14. CASE f + 1 = MaxFreq
  <2>1. s = Halved(u)
    BY <1>14
  <2>2. /\ DOMAIN s = 1 .. Len(r)
        /\ \A k \in 1 .. Len(r) : s[k] = [u[k] EXCEPT !.freq = @ \div 2]
    BY <1>10, <2>1 DEF Halved
  <2>3. s = [k \in 1 .. Len(r) |-> s[k]]
    BY <1>10, <2>1, <2>2 DEF Halved
  <2> HIDE DEF s
  <2>4. ASSUME NEW k \in 1 .. Len(r)
        PROVE  /\ s[k] \in Entries
               /\ s[k].addr = u[k].addr /\ s[k].offset = u[k].offset
               /\ s[k].call = u[k].call /\ s[k].live = u[k].live
    <3>1. u[k] \in Wide
      BY <1>12
    <3>2. u[k].freq \div 2 \in 0 .. MaxFreq - 1
      <4>1. \A m \in Nat \ {0} : \A x \in 0 .. m : x \div 2 \in 0 .. m - 1
        OBVIOUS
      <4>2. QED
        BY <1>0, <3>1, <4>1 DEF Wide
    <3>3. QED
      BY <2>2, <3>1, <3>2 DEF Wide, Entries
  <2>5. s \in Seq(Entries) /\ Len(s) = Len(r)
    <3>1. s \in [1 .. Len(r) -> Entries]
      BY <2>3, <2>4
    <3>2. QED
      BY <1>1, <3>1
  <2>6. \A k \in 1 .. Len(r) :
          /\ s[k].addr = r[from[k]].addr
          /\ s[k].offset = IF from[k] = i THEN off ELSE r[from[k]].offset
          /\ s[k].call = IF from[k] = i THEN c ELSE r[from[k]].call
    BY <1>12, <2>4
  <2>9. ASSUME NEW k \in 1 .. Len(r) PROVE k \in Lives(s) <=> from[k] \in Lives(r)
    <3>1. s[k].live = r[from[k]].live
      BY <1>12, <2>4
    <3>2. from[k] \in DOMAIN r /\ k \in DOMAIN s
      BY <1>1, <1>11, <2>2 DEF Permutes
    <3>3. QED
      BY <3>1, <3>2 DEF Lives
  <2>7. Moved(s, r, i, off, c)
    BY <1>11, <2>5, <2>6, <2>9 DEF Moved
  <2>8. QED
    BY <1>6, <2>7
<1>15. QED
  BY <1>13, <1>14

\* No entry of r has the tag a.
Lacks(r, a) == \A k \in DOMAIN r : r[k].addr # a

\* The entry k of s is the entry j of r, orphaned if its tag is one of A.
Keeps(s, k, r, j, A) ==
  /\ s[k].addr = r[j].addr /\ s[k].offset = r[j].offset /\ s[k].call = r[j].call
  /\ k \in Lives(s) <=> j \in Lives(r) /\ r[j].addr \notin A

\* Orphan leaves the entries alone but for those of the tag.
LEMMA OrphanReads ==
  ASSUME NEW r \in Seq(Entries), NEW a
  PROVE  /\ Orphan(r, a) \in Seq(Entries) /\ Len(Orphan(r, a)) = Len(r)
         /\ \A k \in 1 .. Len(r) : Keeps(Orphan(r, a), k, r, k, {a})
<1> DEFINE s == Orphan(r, a)
<1>1. /\ Len(r) \in Nat /\ DOMAIN r = 1 .. Len(r)
      /\ \A k \in 1 .. Len(r) : r[k] \in Entries
  BY EntriesRead
<1>2. s = [k \in 1 .. Len(r) |-> [r[k] EXCEPT !.live = @ /\ r[k].addr # a]]
  BY <1>1 DEF Orphan
<1>3. DOMAIN s = 1 .. Len(r) /\ s = [k \in 1 .. Len(r) |-> s[k]]
  BY <1>2
<1>4. ASSUME NEW k \in 1 .. Len(r)
      PROVE  /\ s[k] \in Entries
             /\ s[k].addr = r[k].addr /\ s[k].offset = r[k].offset
             /\ s[k].call = r[k].call
             /\ s[k].live <=> r[k].live /\ r[k].addr # a
  <2>1. s[k] = [r[k] EXCEPT !.live = r[k].live /\ r[k].addr # a]
    BY <1>2
  <2>2. r[k] \in Entries
    BY <1>1
  <2> DEFINE b == r[k].live /\ r[k].addr # a
  <2>3. b \in BOOLEAN
    OBVIOUS
  <2>4. s[k] = [r[k] EXCEPT !.live = b]
    BY <2>1
  <2> HIDE DEF b, s
  <2>5. /\ s[k] \in Entries
        /\ s[k].addr = r[k].addr /\ s[k].offset = r[k].offset
        /\ s[k].call = r[k].call /\ s[k].live = b
    BY <2>2, <2>3, <2>4 DEF Entries
  <2>6. QED
    BY <2>5 DEF b
<1> HIDE DEF s
<1>5. s \in Seq(Entries) /\ Len(s) = Len(r)
  <2>1. s \in [1 .. Len(r) -> Entries]
    BY <1>3, <1>4
  <2>2. QED
    BY <1>1, <2>1
<1>6. ASSUME NEW k \in 1 .. Len(r) PROVE Keeps(s, k, r, k, {a})
  <2>1. k \in Lives(s) <=> k \in Lives(r) /\ r[k].addr \notin {a}
    BY <1>1, <1>3, <1>4 DEF Lives
  <2>2. QED
    BY <1>4, <2>1 DEF Keeps
<1>7. QED
  BY <1>5, <1>6 DEF s

\* Orphaned and orphaned again.
LEMMA KeepsTwice ==
  ASSUME NEW s, NEW t, NEW r, NEW k, NEW j, NEW i, NEW A, NEW B,
         Keeps(s, k, t, j, A), Keeps(t, j, r, i, B)
  PROVE  Keeps(s, k, r, i, A \cup B)
BY DEF Keeps

\* Where the entry k stood before there was one more at p.
Before(k, p) == IF k < p THEN k ELSE k - 1

\* s has the first n entries of r, those of the tags A orphaned, and e at place p.
Entered(s, r, n, p, e, A) ==
  /\ s \in Seq(Entries) /\ Len(s) = n + 1
  /\ s[p] = e
  /\ \A k \in 1 .. n + 1 : k # p => Keeps(s, k, r, Before(k, p), A)

Enters(s, r, n, e, A) == \E p \in 1 .. n + 1 : Entered(s, r, n, p, e, A)

\* How many entries stay when there must be room for one more.
Room(r, capacity) == IF Full(r, capacity) THEN Len(r) - 1 ELSE Len(r)

\* The tags that an insertion of a takes from other entries.
Taken(r, capacity, a) == {a} \cup IF Full(r, capacity) THEN {Last(r).addr} ELSE {}

\* Inserted drops the last entry of a full set, and puts the new one somewhere.
LEMMA InsertedReads ==
  ASSUME NEW size \in Nat \ {0}, NEW r \in Seq(Entries), Len(r) <= size,
         NEW e \in Entries, NEW policy
  PROVE  Enters(Inserted(policy, size, r, e), r, Room(r, size), e,
                Taken(r, size, e.addr))
<1> DEFINE n    == Room(r, size)
           B    == IF Full(r, size) THEN {Last(r).addr} ELSE {}
           kept == IF Full(r, size) THEN Orphan(Front(r), Last(r).addr) ELSE r
           t    == Orphan(kept, e.addr)
           p    == Place(policy, t, 0)
           s    == InsertAt(t, p, e)
<1>0. /\ Len(r) \in Nat /\ DOMAIN r = 1 .. Len(r)
      /\ \A k \in 1 .. Len(r) : r[k] \in Entries
  BY EntriesRead
<1>1. /\ kept \in Seq(Entries) /\ Len(kept) = n
      /\ \A k \in 1 .. n : Keeps(kept, k, r, k, B)
  <2>1. CASE Full(r, size)
    <3>1. Len(r) > 0 /\ n = Len(r) - 1
      BY <1>0, <2>1 DEF Full, Room
    <3>2. /\ Front(r) \in Seq(Entries) /\ Len(Front(r)) = Len(r) - 1
          /\ \A k \in 1 .. Len(r) - 1 : Front(r)[k] = r[k]
      <4>1. r \in Seq(Entries) /\ Len(r) > 0
        BY <3>1
      <4> HIDE DEF n, kept, t, p, s
      <4>2. QED
        BY <4>1, FrontReads, SMTT(30)
    <3> DEFINE u == Front(r)
               a == Last(r).addr
    <3>3. /\ Orphan(u, a) \in Seq(Entries) /\ Len(Orphan(u, a)) = Len(u)
          /\ \A k \in 1 .. Len(u) : Keeps(Orphan(u, a), k, u, k, {a})
      BY <3>2, OrphanReads
    <3>4. ASSUME NEW k \in 1 .. n PROVE Keeps(u, k, r, k, {})
      <4>1. k \in DOMAIN r /\ k \in DOMAIN u /\ u[k] = r[k]
        <5>1. DOMAIN u = 1 .. Len(r) - 1
          BY <3>2, LenProperties
        <5>2. k \in 1 .. Len(r)
          BY <1>0, <3>1
        <5>3. QED
          BY <1>0, <3>1, <3>2, <5>1, <5>2
      <4> HIDE DEF u
      <4>2. QED
        BY <4>1 DEF Keeps, Lives
    <3>5. kept = Orphan(u, a) /\ B = {a} /\ {a} \cup {} = {a}
      BY <2>1
    <3> HIDE DEF u, a, kept, B
    <3>6. \A k \in 1 .. n : Keeps(kept, k, r, k, B)
      BY <3>1, <3>2, <3>3, <3>4, <3>5, KeepsTwice DEF u
    <3>7. QED
      BY <3>1, <3>2, <3>3, <3>5, <3>6 DEF u
  <2>2. CASE ~ Full(r, size)
    BY <2>2 DEF Room, Keeps
  <2>3. QED
    BY <2>1, <2>2
<1>2. n \in Nat /\ n <= Len(r)
  <2>1. Len(r) \in Nat
    BY <1>0
  <2>2. QED
    BY <2>1 DEF Room, Full
<1>3. Taken(r, size, e.addr) = {e.addr} \cup B
  BY DEF Taken
<1> HIDE DEF n, kept, B
<1>4. /\ t \in Seq(Entries) /\ Len(t) = n
      /\ \A k \in 1 .. n : Keeps(t, k, r, k, Taken(r, size, e.addr))
  <2>1. /\ t \in Seq(Entries) /\ Len(t) = n
        /\ \A k \in 1 .. n : Keeps(t, k, kept, k, {e.addr})
    BY <1>1, OrphanReads
  <2> HIDE DEF t
  <2>2. QED
    BY <1>1, <1>3, <2>1, KeepsTwice
<1> HIDE DEF t
<1>5. p \in 1 .. n + 1
  BY <1>4, PlaceIsAPlace
<1> HIDE DEF p
<1>6. s \in Seq(Entries) /\ InsertedAt(s, t, p, e)
  <2>1. t \in Seq(Entries) /\ p \in 1 .. Len(t) + 1
    BY <1>4, <1>5
  <2>2. QED
    BY <2>1, InsertAtReads
<1>7. Inserted(policy, size, r, e) = s
  BY DEF Inserted, p, kept, t
<1> HIDE DEF s
<1>8. Len(s) = n + 1 /\ DOMAIN s = 1 .. n + 1
  BY <1>2, <1>4, <1>6, LenProperties DEF InsertedAt
<1>9. s[p] = e
  BY <1>2, <1>4, <1>5, <1>6 DEF InsertedAt
<1>10. ASSUME NEW k \in 1 .. n + 1, k # p
       PROVE  Keeps(s, k, r, Before(k, p), Taken(r, size, e.addr))
  <2> DEFINE j == Before(k, p)
  <2>1. j \in 1 .. n
    BY <1>2, <1>5, <1>10 DEF Before
  <2>2. s[k] = t[j]
    BY <1>4, <1>6, <1>10 DEF InsertedAt, Before
  <2>3. DOMAIN t = 1 .. n
    BY <1>4, LenProperties
  <2> HIDE DEF j
  <2>4. Keeps(s, k, t, j, {})
    BY <1>8, <2>1, <2>2, <2>3 DEF Keeps, Lives
  <2>5. {} \cup Taken(r, size, e.addr) = Taken(r, size, e.addr)
    OBVIOUS
  <2>6. Keeps(t, j, r, j, Taken(r, size, e.addr))
    BY <1>4, <2>1
  <2>7. QED
    BY <2>4, <2>5, <2>6, KeepsTwice DEF j
<1>11. Enters(s, r, n, e, Taken(r, size, e.addr))
  BY <1>5, <1>6, <1>8, <1>9, <1>10 DEF Entered, Enters
<1>12. QED
  BY <1>7, <1>11 DEF n

\* s has the entries of r but the live ones of the tag a, and no others.
Left(s, r, a) ==
  /\ s \in Seq(Entries) /\ Len(s) = Cardinality(DOMAIN r \ Slots(r, a))
  /\ \E at \in [DOMAIN s -> DOMAIN r] :
       /\ \A k, m \in DOMAIN s : at[k] = at[m] => k = m
       /\ \A k \in DOMAIN s : s[k] = r[at[k]] /\ at[k] \notin Slots(r, a)
       /\ \A j \in DOMAIN r \ Slots(r, a) : \E k \in DOMAIN s : at[k] = j

\* Without keeps the entries that are not live ones of the tag.
LEMMA WithoutReads ==
  ASSUME NEW r \in Seq(Entries), NEW a
  PROVE  Left(Without(r, {a}), r, a)
<1> DEFINE S == Staying(r, {a})
           s == Without(r, {a})
           n == Len(r)
<1>0. n \in Nat /\ DOMAIN r = 1 .. n
  BY EntriesRead
<1>1. s = Kept(r, S)
  BY DEF Without, Kept, UpTo
<1>2. S = DOMAIN r \ Slots(r, a)
  BY DEF Staying, Slots
<1> HIDE DEF S, s, n
<1>3. S \in SUBSET DOMAIN r /\ S \in SUBSET (1 .. n)
  BY <1>0, <1>2
<1>4. /\ s \in Seq(Entries) /\ Len(s) = Cardinality(S) /\ DOMAIN s = 1 .. Cardinality(S)
      /\ \E at \in [DOMAIN s -> S] :
           \A k \in DOMAIN s : s[k] = r[at[k]] /\ UpTo(S, at[k]) = k
  BY <1>1, <1>3, KeptReads
<1>5. PICK at \in [DOMAIN s -> S] :
        \A k \in DOMAIN s : s[k] = r[at[k]] /\ UpTo(S, at[k]) = k
  BY <1>4
<1>6. ASSUME NEW j \in S PROVE \E k \in DOMAIN s : at[k] = j
  <2> DEFINE k == UpTo(S, j)
  <2>1. k \in 1 .. Cardinality(S)
    <3>1. j \in 1 .. n /\ j \in 0 .. n /\ j - 1 \in 0 .. n
      BY <1>0, <1>3
    <3>2. /\ Cardinality(S) \in Nat /\ UpTo(S, j) \in 0 .. Cardinality(S)
          /\ UpTo(S, j - 1) \in 0 .. Cardinality(S)
          /\ UpTo(S, j) = UpTo(S, j - 1) + 1
      <4>1. /\ Cardinality(S) \in 0 .. n
            /\ \A i \in 0 .. n : UpTo(S, i) \in 0 .. Cardinality(S)
            /\ \A i \in 1 .. n :
                 UpTo(S, i) = UpTo(S, i - 1) + IF i \in S THEN 1 ELSE 0
        BY <1>0, <1>3, UpToCounts
      <4>2. QED
        BY <3>1, <4>1
    <3> DEFINE x == UpTo(S, j - 1)
               c == Cardinality(S)
    <3> HIDE DEF k, x, c
    <3>3. c \in Nat /\ k \in 0 .. c /\ x \in 0 .. c /\ k = x + 1
      BY <3>2 DEF k, x, c
    <3>4. k \in 1 .. c
      BY <3>3
    <3>5. QED
      BY <3>4 DEF k, c
  <2>2. k \in DOMAIN s /\ at[k] \in S /\ UpTo(S, at[k]) = k
    BY <1>4, <1>5, <2>1
  <2>3. ~ (at[k] < j) /\ ~ (j < at[k])
    <3> DEFINE m == at[k]
    <3>1. m \in S /\ UpTo(S, m) = UpTo(S, j)
      BY <2>2
    <3> HIDE DEF m, k
    <3>2. UpTo(S, j) \in Nat
      BY <2>1 DEF k
    <3>3. ASSUME m < j PROVE FALSE
      <4>1. UpTo(S, m) < UpTo(S, j)
        BY <1>0, <1>3, <3>1, <3>3, RanksDiffer
      <4>2. QED
        BY <3>1, <3>2, <4>1
    <3>4. ASSUME j < m PROVE FALSE
      <4>1. UpTo(S, j) < UpTo(S, m)
        BY <1>0, <1>3, <3>1, <3>4, RanksDiffer
      <4>2. QED
        BY <3>1, <3>2, <4>1
    <3>5. QED
      BY <3>3, <3>4 DEF m
  <2>4. at[k] \in Int /\ j \in Int
    BY <1>3, <2>2
  <2> HIDE DEF k
  <2>5. at[k] = j
    BY <2>3, <2>4
  <2>6. QED
    BY <2>2, <2>5
<1>7. at \in [DOMAIN s -> DOMAIN r]
  BY <1>3, <1>5
<1>8. \A k, m \in DOMAIN s : at[k] = at[m] => k = m
  BY <1>5
<1>9. \A k \in DOMAIN s : s[k] = r[at[k]] /\ at[k] \notin Slots(r, a)
  BY <1>2, <1>5
<1>10. \A j \in DOMAIN r \ Slots(r, a) : \E k \in DOMAIN s : at[k] = j
  BY <1>2, <1>6
<1>11. s \in Seq(Entries) /\ Len(s) = Cardinality(DOMAIN r \ Slots(r, a))
  BY <1>2, <1>4
<1>12. Left(s, r, a)
  BY <1>7, <1>8, <1>9, <1>10, <1>11 DEF Left
<1>13. QED
  BY <1>12 DEF s

-----------------------------------------------------------------------------
(* The pages of a set. *)

SetOf(ch, c) == NumberOf(ch, c) % ColoursOf(ch)
TagOf(ch, c) == NumberOf(ch, c) \div ColoursOf(ch)

\* A call leads to a set and to a tag that together are the number of its page.
LEMMA CallReads ==
  ASSUME NEW ch \in Caches, NEW c \in Calls
  PROVE  /\ c \in Addresses
         /\ SetOf(ch, c) \in 0 .. CountOf(ch) - 1 /\ SetOf(ch, c) < ColoursOf(ch)
         /\ TagOf(ch, c) \in Nat /\ OffsetOf(ch, c) \in Nat
         /\ NumberOf(ch, c) = ColoursOf(ch) * TagOf(ch, c) + SetOf(ch, c)
         /\ PageFor(ch, c).number % ColoursOf(ch) = SetOf(ch, c)
<1>1. c \in Addresses
  BY CallAssumption DEF Addresses
<1>2. NumberOf(ch, c) \in Nat /\ OffsetOf(ch, c) \in Nat
  BY <1>1, AddressReads
<1>3. /\ ColoursOf(ch) \in Nat \ {0} /\ ColoursOf(ch) <= CountOf(ch)
      /\ CountOf(ch) \in Nat \ {0}
  BY CacheReads
<1> DEFINE n == NumberOf(ch, c)
           d == ColoursOf(ch)
           m == CountOf(ch)
<1>4. SetOf(ch, c) = n % d /\ TagOf(ch, c) = n \div d /\ PageFor(ch, c).number = n
  BY DEF SetOf, TagOf, PageFor
<1> HIDE DEF n, d, m
<1>5. n \in Nat /\ n \in Int /\ n >= 0 /\ d \in Nat \ {0} /\ d <= m /\ m \in Nat
  BY <1>2, <1>3 DEF n, d, m
<1>6. n % d \in Nat /\ n % d < d /\ n \div d \in Nat /\ n = d * (n \div d) + (n % d)
  BY <1>5, DivModReads
<1> DEFINE x == n % d
<1> HIDE DEF x
<1>7. x \in 0 .. m - 1
  BY <1>5, <1>6 DEF x
<1>8. QED
  BY <1>1, <1>2, <1>4, <1>6, <1>7 DEF n, d, m, x

\* As no small page has the number of a huge one, the number says which page it is.
LEMMA NumberIsPage ==
  ASSUME NEW ch \in Caches, NEW c \in Calls, NEW d \in Calls,
         NumberOf(ch, c) = NumberOf(ch, d)
  PROVE  PageFor(ch, c) = PageFor(ch, d)
<1>1. \A x, y \in Calls : x.is2M /\ ~ y.is2M =>
        x.address \div Pow[HugeBits] # y.address \div Pow[PageBits]
  BY ApartAssumption DEF NumbersApart
<1>2. ch.log_line_size \in {PageBits, HugeBits}
  BY CacheReads
<1>3. PofsOf(ch, c) = PofsOf(ch, d)
  BY <1>1, <1>2 DEF NumberOf, PofsOf
<1>4. QED
  BY <1>3 DEF PageFor

\* An entry stands where its last call leads.
LEMMA EntryIsWhereItsCallLeads ==
  ASSUME NEW ch \in Caches, NEW e \in Entries, NEW i \in Nat, i < ColoursOf(ch),
         Leads(ch, i, e)
  PROVE  SetOf(ch, e.call) = i /\ TagOf(ch, e.call) = e.addr
<1> DEFINE d == ColoursOf(ch)
<1>1. d \in Nat \ {0} /\ e.addr \in Int /\ i < d
  BY CacheReads DEF Entries
<1>2. NumberOf(ch, e.call) = d * e.addr + i
  BY DEF Leads
<1> HIDE DEF d
<1>3. (d * e.addr + i) \div d = e.addr /\ (d * e.addr + i) % d = i
  BY <1>1, DivModUnique
<1>4. QED
  BY <1>2, <1>3 DEF SetOf, TagOf, d

\* The entries of a set that Holds: each stands where its last call leads.
LEMMA HeldReads ==
  ASSUME NEW ch \in Caches, NEW i \in Nat, NEW r, Holds(ch, i, r)
  PROVE  /\ r \in Seq(Entries) /\ Len(r) \in Nat /\ Len(r) <= ch.assoc
         /\ DOMAIN r = 1 .. Len(r)
         /\ \A k \in DOMAIN r :
              /\ r[k] \in Entries /\ r[k].call \in Calls /\ i < ColoursOf(ch)
              /\ SetOf(ch, r[k].call) = i /\ TagOf(ch, r[k].call) = r[k].addr
              /\ r[k].offset = OffsetOf(ch, r[k].call)
<1>1. r \in Seq(Entries) /\ Len(r) <= ch.assoc
  BY DEF Holds
<1>2. Len(r) \in Nat /\ DOMAIN r = 1 .. Len(r)
  BY <1>1, EntriesRead
<1>3. ASSUME NEW k \in DOMAIN r
      PROVE  /\ r[k] \in Entries /\ r[k].call \in Calls /\ i < ColoursOf(ch)
             /\ SetOf(ch, r[k].call) = i /\ TagOf(ch, r[k].call) = r[k].addr
             /\ r[k].offset = OffsetOf(ch, r[k].call)
  <2>1. r[k] \in Entries /\ r[k].call \in Calls
    BY <1>1, <1>2, EntriesRead
  <2>2. i < ColoursOf(ch) /\ Leads(ch, i, r[k])
    BY DEF Holds
  <2>3. SetOf(ch, r[k].call) = i /\ TagOf(ch, r[k].call) = r[k].addr
    BY <2>1, <2>2, EntryIsWhereItsCallLeads
  <2>4. QED
    BY <2>1, <2>2, <2>3 DEF Leads
<1>4. QED
  BY <1>1, <1>2, <1>3

\* In the set of c, the tag of c is the page of c.
LEMMA TagIsPage ==
  ASSUME NEW ch \in Caches, NEW i \in Nat, NEW r, Holds(ch, i, r),
         NEW k \in DOMAIN r, NEW c \in Calls, SetOf(ch, c) = i
  PROVE  r[k].addr = TagOf(ch, c) <=> PageFor(ch, r[k].call) = PageFor(ch, c)
<1> DEFINE e == r[k]
<1>1. /\ e \in Entries /\ e.call \in Calls
      /\ SetOf(ch, e.call) = i /\ TagOf(ch, e.call) = e.addr
  BY HeldReads
<1> HIDE DEF e
<1>2. ASSUME e.addr = TagOf(ch, c) PROVE PageFor(ch, e.call) = PageFor(ch, c)
  <2>1. NumberOf(ch, e.call) = ColoursOf(ch) * TagOf(ch, e.call) + SetOf(ch, e.call)
    BY <1>1, CallReads
  <2>2. NumberOf(ch, c) = ColoursOf(ch) * TagOf(ch, c) + SetOf(ch, c)
    BY CallReads
  <2>3. NumberOf(ch, e.call) = NumberOf(ch, c)
    BY <1>1, <1>2, <2>1, <2>2
  <2>4. QED
    BY <1>1, <2>3, NumberIsPage
<1>3. ASSUME PageFor(ch, e.call) = PageFor(ch, c) PROVE e.addr = TagOf(ch, c)
  <2>1. NumberOf(ch, e.call) = NumberOf(ch, c)
    BY <1>3 DEF PageFor
  <2>2. QED
    BY <1>1, <2>1 DEF TagOf
<1>4. QED
  BY <1>2, <1>3 DEF e

\* A tag hits if and only if the page of the call is in its set.
LEMMA HitIsPage ==
  ASSUME NEW ch \in Caches, NEW i \in Nat, NEW r, Holds(ch, i, r),
         NEW c \in Calls, SetOf(ch, c) = i
  PROVE  /\ Hits(r, TagOf(ch, c)) <=> PageFor(ch, c) \in PagesOf(ch, r)
         /\ \A k : k \in Slots(r, TagOf(ch, c)) <=>
                    k \in Lives(r) /\ r[k].addr = TagOf(ch, c)
<1>1. \A k \in DOMAIN r :
        r[k].addr = TagOf(ch, c) <=> PageFor(ch, r[k].call) = PageFor(ch, c)
  BY TagIsPage
<1>2. \A k : k \in Slots(r, TagOf(ch, c)) <=>
               k \in Lives(r) /\ r[k].addr = TagOf(ch, c)
  BY DEF Slots, Lives
<1>3. Hits(r, TagOf(ch, c)) <=> \E k \in Lives(r) : r[k].addr = TagOf(ch, c)
  BY <1>2 DEF Hits
<1>4. PageFor(ch, c) \in PagesOf(ch, r) <=>
        \E k \in Lives(r) : PageFor(ch, r[k].call) = PageFor(ch, c)
  BY DEF PagesOf
<1>5. \A k \in Lives(r) : k \in DOMAIN r
  BY DEF Lives
<1>6. QED
  BY <1>1, <1>2, <1>3, <1>4, <1>5

\* The pages of a set are those of its colour.
LEMMA ColourIsSet ==
  ASSUME NEW ch \in Caches, NEW ss, Placed(ch, ss), NEW p, NEW i \in DOMAIN ss
  PROVE  p \in PagesOf(ch, ss[i]) <=> p \in Pages(ch, ss) /\ p.number % ColoursOf(ch) = i
<1>1. ASSUME NEW j \in DOMAIN ss, NEW k \in Lives(ss[j])
      PROVE  PageFor(ch, ss[j][k].call).number % ColoursOf(ch) = j
  <2>1. j \in Nat /\ Holds(ch, j, ss[j])
    <3>1. CountOf(ch) \in Nat
      BY CacheReads
    <3>2. QED
      BY <3>1 DEF Placed
  <2>2. k \in DOMAIN ss[j]
    BY DEF Lives
  <2>3. ss[j][k].call \in Calls /\ SetOf(ch, ss[j][k].call) = j
    BY <2>1, <2>2, HeldReads
  <2>4. QED
    BY <2>3, CallReads
<1>2. QED
  BY <1>1 DEF Pages, PagesOf

\* tt has s as the content of set i, and otherwise that of ss.
Replaced(ch, tt, ss, i, s) ==
  /\ Placed(ch, tt)
  /\ Pages(ch, tt) = (Pages(ch, ss) \ PagesOf(ch, ss[i])) \cup PagesOf(ch, s)
  /\ Lengths(ch, tt) = [Lengths(ch, ss) EXCEPT ![i] = Len(s)]

\* Another content of one set.
LEMMA SetReplaced ==
  ASSUME NEW ch \in Caches, NEW ss, Placed(ch, ss), NEW i \in DOMAIN ss,
         NEW s, Holds(ch, i, s), NEW tt, tt = [ss EXCEPT ![i] = s]
  PROVE  Replaced(ch, tt, ss, i, s)
<1>1. DOMAIN tt = DOMAIN ss /\ \A j \in DOMAIN ss : tt[j] = IF j = i THEN s ELSE ss[j]
  BY DEF Placed
<1>2. Placed(ch, tt)
  BY <1>1 DEF Placed
<1>3. \A p : \A j \in DOMAIN ss :
        p \in PagesOf(ch, ss[j]) <=> p \in Pages(ch, ss) /\ p.number % ColoursOf(ch) = j
  BY ColourIsSet
<1>4. ASSUME NEW p
      PROVE  p \in Pages(ch, tt) <=>
               p \in (Pages(ch, ss) \ PagesOf(ch, ss[i])) \cup PagesOf(ch, s)
  <2>1. p \in Pages(ch, tt) <=> \E j \in DOMAIN ss : p \in PagesOf(ch, tt[j])
    BY <1>1 DEF Pages
  <2>2. p \in Pages(ch, ss) <=> \E j \in DOMAIN ss : p \in PagesOf(ch, ss[j])
    BY DEF Pages
  <2>3. QED
    BY <1>1, <1>3, <2>1, <2>2
<1>5. Lengths(ch, tt) = [Lengths(ch, ss) EXCEPT ![i] = Len(s)]
  <2>1. \A j \in 0 .. ColoursOf(ch) - 1 : j \in DOMAIN ss
    <3>1. /\ CountOf(ch) \in Nat /\ ColoursOf(ch) \in Nat /\ ColoursOf(ch) <= CountOf(ch)
          /\ DOMAIN ss = 0 .. CountOf(ch) - 1
      BY CacheReads DEF Placed
    <3>2. QED
      BY <3>1
  <2>2. \A j \in 0 .. ColoursOf(ch) - 1 :
          Len(tt[j]) = IF j = i THEN Len(s) ELSE Len(ss[j])
    BY <1>1, <2>1
  <2>3. QED
    BY <2>2 DEF Lengths
<1>6. Pages(ch, tt) = (Pages(ch, ss) \ PagesOf(ch, ss[i])) \cup PagesOf(ch, s)
  BY <1>4
<1>7. QED
  BY <1>2, <1>5, <1>6 DEF Replaced

-----------------------------------------------------------------------------
(* What the operations do to the pages of a set. *)

\* A hit: the same pages, the entry at j now of the call c.
LEMMA MovedHolds ==
  ASSUME NEW ch \in Caches, NEW i \in Nat, NEW r, Holds(ch, i, r),
         NEW c \in Calls, SetOf(ch, c) = i, NEW j \in DOMAIN r,
         r[j].addr = TagOf(ch, c), NEW s, Moved(s, r, j, OffsetOf(ch, c), c)
  PROVE  Holds(ch, i, s) /\ PagesOf(ch, s) = PagesOf(ch, r) /\ Len(s) = Len(r)
<1>1. /\ Len(r) \in Nat /\ Len(r) <= ch.assoc /\ DOMAIN r = 1 .. Len(r)
      /\ s \in Seq(Entries) /\ Len(s) = Len(r) /\ DOMAIN s = 1 .. Len(r)
  <2>1. s \in Seq(Entries) /\ Len(s) = Len(r)
    BY DEF Moved
  <2>2. QED
    BY <2>1, HeldReads, EntriesRead
<1>2. PICK from :
        /\ Permutes(from, Len(r))
        /\ \A k \in 1 .. Len(r) :
             /\ s[k].addr = r[from[k]].addr
             /\ s[k].offset = IF from[k] = j THEN OffsetOf(ch, c) ELSE r[from[k]].offset
             /\ s[k].call = IF from[k] = j THEN c ELSE r[from[k]].call
             /\ k \in Lives(s) <=> from[k] \in Lives(r)
  BY DEF Moved
<1>3. \A k \in DOMAIN r : from[k] \in DOMAIN r
  BY <1>1, <1>2 DEF Permutes
<1>4. PageFor(ch, r[j].call) = PageFor(ch, c)
  BY TagIsPage
<1>5. ASSUME NEW k \in DOMAIN r
      PROVE  i < ColoursOf(ch) /\ Leads(ch, i, s[k])
  <2>1. from[k] \in DOMAIN r
    BY <1>3
  <2>2. i < ColoursOf(ch) /\ Leads(ch, i, r[from[k]])
    BY <2>1 DEF Holds
  <2>3. CASE from[k] = j
    <3>1. /\ s[k].call = c /\ s[k].addr = TagOf(ch, c)
          /\ s[k].offset = OffsetOf(ch, c)
      BY <1>1, <1>2, <2>3
    <3>2. NumberOf(ch, c) = ColoursOf(ch) * TagOf(ch, c) + SetOf(ch, c)
      BY CallReads
    <3>3. QED
      BY <2>2, <3>1, <3>2 DEF Leads
  <2>4. CASE from[k] # j
    BY <1>1, <1>2, <2>2, <2>4 DEF Leads
  <2>5. QED
    BY <2>3, <2>4
<1>6. /\ \A k \in Lives(r) : k \in DOMAIN r
      /\ \A k \in Lives(s) : k \in DOMAIN r
      /\ \A k \in DOMAIN r : k \in Lives(s) <=> from[k] \in Lives(r)
  BY <1>1, <1>2 DEF Lives
<1>7. Single(s)
  <2>1. ASSUME NEW k \in Lives(s), NEW m \in Lives(s), s[k].addr = s[m].addr PROVE k = m
    <3>1. r[from[k]].addr = r[from[m]].addr
      BY <1>1, <1>2, <1>6, <2>1
    <3>2. from[k] = from[m]
      BY <1>6, <3>1 DEF Holds, Single
    <3>3. QED
      BY <1>1, <1>2, <1>6, <3>2 DEF Permutes
  <2>2. QED
    BY <2>1 DEF Single
<1>8. ch.repeats \/ DOMAIN s \subseteq Lives(s)
  <2>1. ch.repeats \/ DOMAIN r \subseteq Lives(r)
    BY DEF Holds
  <2>2. QED
    BY <1>1, <1>3, <1>6, <2>1
<1>9. \A k \in DOMAIN r : PageFor(ch, s[k].call) = PageFor(ch, r[from[k]].call)
  BY <1>1, <1>2, <1>4
<1>10. ASSUME NEW p PROVE p \in PagesOf(ch, s) <=> p \in PagesOf(ch, r)
  <2>1. p \in PagesOf(ch, s) <=> \E k \in Lives(s) : p = PageFor(ch, s[k].call)
    BY DEF PagesOf
  <2>2. p \in PagesOf(ch, r) <=> \E k \in Lives(r) : p = PageFor(ch, r[k].call)
    BY DEF PagesOf
  <2>3. \A m \in DOMAIN r : \E k \in DOMAIN r : from[k] = m
    BY <1>1, <1>2 DEF Permutes
  <2>4. ASSUME NEW m \in Lives(r), p = PageFor(ch, r[m].call)
        PROVE  \E k \in Lives(s) : p = PageFor(ch, s[k].call)
    <3>1. PICK k \in DOMAIN r : from[k] = m
      BY <1>6, <2>3
    <3>2. k \in Lives(s)
      BY <1>6, <3>1
    <3>3. QED
      BY <1>9, <2>4, <3>1, <3>2
  <2>5. \A k \in Lives(s) : p = PageFor(ch, s[k].call) => p = PageFor(ch, r[from[k]].call)
    BY <1>6, <1>9
  <2>6. QED
    BY <1>6, <2>1, <2>2, <2>4, <2>5
<1>11. QED
  BY <1>1, <1>5, <1>7, <1>8, <1>10 DEF Holds

\* The last entry of a full set.
LEMMA LastReads ==
  ASSUME NEW ch \in Caches, NEW i \in Nat, NEW r, Holds(ch, i, r), Full(r, ch.assoc)
  PROVE  /\ Len(r) \in DOMAIN r /\ Last(r) = r[Len(r)] /\ Room(r, ch.assoc) = Len(r) - 1
         /\ Last(r).call \in Calls /\ SetOf(ch, Last(r).call) = i
         /\ TagOf(ch, Last(r).call) = Last(r).addr
<1>1. Len(r) \in Nat /\ DOMAIN r = 1 .. Len(r) /\ Len(r) = ch.assoc
  BY HeldReads DEF Full
<1>2. ch.assoc \in Nat \ {0}
  BY CacheReads
<1>3. Len(r) \in DOMAIN r
  BY <1>1, <1>2
<1>4. Last(r) = r[Len(r)] /\ Room(r, ch.assoc) = Len(r) - 1
  BY DEF Last, Room
<1>5. QED
  BY <1>3, <1>4, HeldReads

\* The pages an insertion leaves.
Spared(ch, r) == PagesOf(ch, r) \
  IF Full(r, ch.assoc) THEN {PageFor(ch, Last(r).call)} ELSE {}

\* The entry j is of a page that is spared if and only if its tag is not the last one's;
\* it is not the last one then.
LEMMA SparedReads ==
  ASSUME NEW ch \in Caches, NEW i \in Nat, NEW r, Holds(ch, i, r), NEW j \in DOMAIN r
  PROVE  /\ Full(r, ch.assoc) =>
              (r[j].addr = Last(r).addr <=> PageFor(ch, r[j].call) = PageFor(ch, Last(r).call))
         /\ j \in 1 .. Room(r, ch.assoc) \/ (Full(r, ch.assoc) /\ r[j].addr = Last(r).addr)
<1> DEFINE full == Full(r, ch.assoc)
           last == r[j].addr = Last(r).addr
           page == PageFor(ch, r[j].call) = PageFor(ch, Last(r).call)
           stay == j \in 1 .. Room(r, ch.assoc)
<1>0. Len(r) \in Nat /\ DOMAIN r = 1 .. Len(r)
  BY HeldReads
<1>1. ASSUME full PROVE last <=> page
  <2> DEFINE c == Last(r).call
  <2>1. c \in Calls /\ SetOf(ch, c) = i /\ TagOf(ch, c) = Last(r).addr
    BY <1>1, LastReads
  <2> HIDE DEF c
  <2>2. r[j].addr = TagOf(ch, c) <=> PageFor(ch, r[j].call) = PageFor(ch, c)
    BY <2>1, TagIsPage
  <2>3. QED
    BY <2>1, <2>2 DEF c
<1>2. ASSUME full PROVE stay \/ last
  <2> DEFINE n == Len(r)
  <2>1. n \in DOMAIN r /\ Last(r) = r[n] /\ Room(r, ch.assoc) = n - 1
    BY <1>2, LastReads
  <2>2. n \in Nat /\ DOMAIN r = 1 .. n /\ j \in 1 .. n
    BY <1>0
  <2> HIDE DEF n
  <2>3. j \in 1 .. n - 1 \/ j = n
    BY <2>2
  <2>4. QED
    BY <2>1, <2>3
<1>3. ASSUME ~ full PROVE stay
  <2>1. Room(r, ch.assoc) = Len(r)
    BY <1>3 DEF Room
  <2>2. QED
    BY <1>0, <2>1
<1> HIDE DEF full, last, page, stay
<1>4. (full => (last <=> page)) /\ (stay \/ (full /\ last))
  BY <1>1, <1>2, <1>3
<1>5. QED
  BY <1>4 DEF full, last, page, stay

\* An insertion: what was spared, and the page of c.
LEMMA EnteredHolds ==
  ASSUME NEW ch \in Caches, NEW i \in Nat, NEW r, Holds(ch, i, r),
         NEW c \in Calls, SetOf(ch, c) = i, ch.repeats \/ Lacks(r, TagOf(ch, c)),
         NEW e \in Entries, e.live,
         e.addr = TagOf(ch, c), e.offset = OffsetOf(ch, c), e.call = c,
         NEW s, Enters(s, r, Room(r, ch.assoc), e, Taken(r, ch.assoc, e.addr))
  PROVE  /\ Holds(ch, i, s) /\ PagesOf(ch, s) = Spared(ch, r) \cup {PageFor(ch, c)}
         /\ Len(s) = Room(r, ch.assoc) + 1
<1> DEFINE n == Room(r, ch.assoc)
           A == Taken(r, ch.assoc, e.addr)
           full == Full(r, ch.assoc)
           old == Last(r).addr
<1>1. n \in Nat /\ n < ch.assoc /\ ch.assoc \in Nat /\ 1 .. n \subseteq DOMAIN r
  <2>1. /\ Len(r) \in Nat /\ DOMAIN r = 1 .. Len(r) /\ Len(r) <= ch.assoc
        /\ ch.assoc \in Nat \ {0}
    BY HeldReads, CacheReads
  <2>2. QED
    BY <2>1 DEF Room, Full
<1>2. PICK p \in 1 .. n + 1 : Entered(s, r, n, p, e, A)
  BY DEF Enters
<1>3. /\ s \in Seq(Entries) /\ Len(s) = n + 1 /\ s[p] = e
      /\ \A k \in 1 .. n + 1 : k # p => Keeps(s, k, r, Before(k, p), A)
  BY <1>2 DEF Entered
<1>4. DOMAIN s = 1 .. n + 1 /\ n + 1 <= ch.assoc
  BY <1>1, <1>3, EntriesRead
<1>5. \A x : x \in A <=> x = e.addr \/ (full /\ x = old)
  BY DEF Taken
<1>6. /\ \A k \in 1 .. n + 1 : k # p => Before(k, p) \in 1 .. n
      /\ \A k, m \in 1 .. n + 1 :
           k # p /\ m # p /\ Before(k, p) = Before(m, p) => k = m
      /\ \A j \in 1 .. n : \E k \in 1 .. n + 1 : k # p /\ Before(k, p) = j
  <2>1. \A k \in 1 .. n + 1 : k # p => Before(k, p) \in 1 .. n
    BY <1>1 DEF Before
  <2>2. \A k, m \in 1 .. n + 1 :
          k # p /\ m # p /\ Before(k, p) = Before(m, p) => k = m
    BY <1>1 DEF Before
  <2>3. ASSUME NEW j \in 1 .. n PROVE \E k \in 1 .. n + 1 : k # p /\ Before(k, p) = j
    <3> DEFINE k == IF j < p THEN j ELSE j + 1
    <3>1. k \in 1 .. n + 1 /\ k # p /\ Before(k, p) = j
      BY <1>1 DEF Before
    <3>2. QED
      BY <3>1
  <2>4. QED
    BY <2>1, <2>2, <2>3
<1>7. \A j \in DOMAIN r : /\ full => (r[j].addr = old <=>
                               PageFor(ch, r[j].call) = PageFor(ch, Last(r).call))
                          /\ j \in 1 .. n \/ (full /\ r[j].addr = old)
  BY SparedReads
<1>8. p \in Lives(s)
  BY <1>3, <1>4 DEF Lives
<1> HIDE DEF n, A, full, old
<1>9. ASSUME NEW k \in DOMAIN s, k # p
      PROVE  /\ Before(k, p) \in DOMAIN r /\ Before(k, p) \in 1 .. n
             /\ Keeps(s, k, r, Before(k, p), A)
  BY <1>1, <1>3, <1>4, <1>6, <1>9
<1>10. ASSUME NEW k \in DOMAIN s
       PROVE  i < ColoursOf(ch) /\ Leads(ch, i, s[k])
  <2>1. CASE k = p
    <3>1. /\ i < ColoursOf(ch)
          /\ NumberOf(ch, c) = ColoursOf(ch) * TagOf(ch, c) + SetOf(ch, c)
      BY CallReads
    <3>2. QED
      BY <1>3, <2>1, <3>1 DEF Leads
  <2>2. CASE k # p
    <3>1. Before(k, p) \in DOMAIN r /\ Keeps(s, k, r, Before(k, p), A)
      BY <1>9, <2>2
    <3>2. i < ColoursOf(ch) /\ Leads(ch, i, r[Before(k, p)])
      BY <3>1 DEF Holds
    <3>3. QED
      BY <3>1, <3>2 DEF Keeps, Leads
  <2>3. QED
    BY <2>1, <2>2
<1>11. ASSUME NEW k \in Lives(s), k # p
       PROVE  /\ k \in DOMAIN s /\ Before(k, p) \in Lives(r)
              /\ s[k].addr = r[Before(k, p)].addr /\ s[k].call = r[Before(k, p)].call
              /\ s[k].addr # e.addr /\ (full => s[k].addr # old)
  <2>1. k \in DOMAIN s
    BY DEF Lives
  <2>2. Keeps(s, k, r, Before(k, p), A)
    BY <1>9, <1>11, <2>1
  <2>3. QED
    BY <1>5, <1>11, <2>1, <2>2 DEF Keeps
<1>12. Single(s)
  <2>1. \A j, m \in Lives(r) : r[j].addr = r[m].addr => j = m
    BY DEF Holds, Single
  <2>2. ASSUME NEW k \in Lives(s), NEW m \in Lives(s), s[k].addr = s[m].addr PROVE k = m
    <3>1. CASE k = p
      BY <1>3, <1>11, <2>2, <3>1
    <3>2. CASE m = p
      BY <1>3, <1>11, <2>2, <3>2
    <3>3. CASE k # p /\ m # p
      <4>1. Before(k, p) = Before(m, p) /\ k \in DOMAIN s /\ m \in DOMAIN s
        BY <1>11, <2>1, <2>2, <3>3
      <4>2. QED
        BY <1>4, <1>6, <3>3, <4>1
    <3>4. QED
      BY <3>1, <3>2, <3>3
  <2>3. QED
    BY <2>2 DEF Single
<1>13. ASSUME ~ ch.repeats, NEW k \in DOMAIN s PROVE k \in Lives(s)
  <2>1. CASE k = p
    BY <1>8, <2>1
  <2>2. CASE k # p
    <3> DEFINE j == Before(k, p)
    <3>1. j \in DOMAIN r /\ j \in 1 .. n /\ Keeps(s, k, r, j, A)
      BY <1>9, <2>2
    <3> HIDE DEF j
    <3>2. \A m \in DOMAIN r : m \in Lives(r)
      BY <1>13 DEF Holds
    <3>3. r[j].addr # e.addr
      BY <1>13, <3>1 DEF Lacks
    <3>4. ASSUME full PROVE r[j].addr # old
      <4>1. /\ Len(r) \in DOMAIN r /\ Last(r) = r[Len(r)] /\ n = Len(r) - 1
            /\ Len(r) \in Nat
        BY <3>4, LastReads, HeldReads DEF n, full
      <4>2. j # Len(r)
        BY <3>1, <4>1
      <4>3. QED
        BY <3>1, <3>2, <4>1, <4>2 DEF Holds, Single, old
    <3>5. QED
      BY <1>5, <3>1, <3>2, <3>3, <3>4 DEF Keeps
  <2>3. QED
    BY <2>1, <2>2
<1>14. ASSUME NEW q
       PROVE  q \in PagesOf(ch, s) <=> q \in Spared(ch, r) \cup {PageFor(ch, c)}
  <2>1. q \in PagesOf(ch, s) <=> \E k \in Lives(s) : q = PageFor(ch, s[k].call)
    BY DEF PagesOf
  <2>2. q \in Spared(ch, r) <=>
          /\ \E j \in Lives(r) : q = PageFor(ch, r[j].call)
          /\ full => q # PageFor(ch, Last(r).call)
    BY DEF Spared, PagesOf, full
  <2>3. PageFor(ch, s[p].call) = PageFor(ch, c)
    BY <1>3
  <2>4. ASSUME NEW k \in Lives(s), k # p, q = PageFor(ch, s[k].call)
        PROVE  q \in Spared(ch, r)
    <3> DEFINE j == Before(k, p)
    <3>1. /\ j \in Lives(r) /\ q = PageFor(ch, r[j].call)
          /\ full => r[j].addr # old
      BY <1>11, <2>4
    <3> HIDE DEF j
    <3>2. j \in DOMAIN r
      BY <3>1 DEF Lives
    <3>3. full => q # PageFor(ch, Last(r).call)
      BY <1>7, <3>1, <3>2
    <3>4. QED
      BY <2>2, <3>1, <3>3
  <2>5. ASSUME q \in Spared(ch, r), q # PageFor(ch, c)
        PROVE  \E k \in Lives(s) : q = PageFor(ch, s[k].call)
    <3>1. PICK j \in Lives(r) : q = PageFor(ch, r[j].call)
      BY <2>2, <2>5
    <3>2. j \in DOMAIN r
      BY DEF Lives
    <3>3. full => r[j].addr # old
      BY <1>7, <2>2, <2>5, <3>1, <3>2
    <3>4. r[j].addr # e.addr
      BY <2>5, <3>1, <3>2, TagIsPage
    <3>5. j \in 1 .. n
      BY <1>7, <3>2, <3>3
    <3>6. PICK k \in 1 .. n + 1 : k # p /\ Before(k, p) = j
      BY <1>6, <3>5
    <3>7. Keeps(s, k, r, j, A)
      BY <1>3, <3>6
    <3>8. k \in Lives(s) /\ s[k].call = r[j].call
      BY <1>5, <3>3, <3>4, <3>7 DEF Keeps
    <3>9. QED
      BY <3>1, <3>8
  <2>6. QED
    BY <1>8, <2>1, <2>3, <2>4, <2>5
<1>15. Holds(ch, i, s)
  <2>1. s \in Seq(Entries) /\ Len(s) <= ch.assoc
    BY <1>3, <1>4
  <2>2. ch.repeats \/ DOMAIN s \subseteq Lives(s)
    BY <1>13
  <2>3. QED
    BY <1>10, <1>12, <2>1, <2>2 DEF Holds
<1>16. Len(s) = Room(r, ch.assoc) + 1
  BY <1>3 DEF n
<1>17. QED
  BY <1>14, <1>15, <1>16

\* An eviction of a page that is there: all but the page of c.
LEMMA LeftHolds ==
  ASSUME NEW ch \in Caches, NEW i \in Nat, NEW r, Holds(ch, i, r),
         NEW c \in Calls, SetOf(ch, c) = i, Hits(r, TagOf(ch, c)),
         NEW s, Left(s, r, TagOf(ch, c))
  PROVE  /\ Holds(ch, i, s) /\ PagesOf(ch, s) = PagesOf(ch, r) \ {PageFor(ch, c)}
         /\ Len(s) = Len(r) - 1
<1> DEFINE tag == TagOf(ch, c)
<1>1. PICK at \in [DOMAIN s -> DOMAIN r] :
        /\ \A k, m \in DOMAIN s : at[k] = at[m] => k = m
        /\ \A k \in DOMAIN s : s[k] = r[at[k]] /\ at[k] \notin Slots(r, tag)
        /\ \A j \in DOMAIN r \ Slots(r, tag) : \E k \in DOMAIN s : at[k] = j
  BY DEF Left
<1>2. \A k : k \in Slots(r, tag) <=> k \in Lives(r) /\ r[k].addr = tag
  BY HitIsPage
<1>3. \A k, m \in Lives(r) : r[k].addr = r[m].addr => k = m
  BY DEF Holds, Single
<1>4. \A k \in DOMAIN r : r[k].addr = tag <=> PageFor(ch, r[k].call) = PageFor(ch, c)
  BY TagIsPage
<1>5. s \in Seq(Entries) /\ Len(s) = Cardinality(DOMAIN r \ Slots(r, tag))
  BY DEF Left
<1>6. PICK j0 : Slots(r, tag) = {j0}
  <2>1. PICK j \in Slots(r, tag) : TRUE
    BY DEF Hits
  <2>2. Slots(r, tag) = {j}
    BY <1>2, <1>3, <2>1
  <2>3. QED
    BY <2>2
<1> HIDE DEF tag
<1>7. /\ Len(r) \in Nat /\ Len(r) <= ch.assoc /\ DOMAIN r = 1 .. Len(r)
      /\ ch.assoc \in Nat
  BY HeldReads, CacheReads
<1>8. j0 \in DOMAIN r
  BY <1>2, <1>6 DEF Lives
<1>9. Len(s) = Len(r) - 1
  <2> DEFINE n == Len(r)
             N == 1 .. n
  <2>1. n \in Nat /\ Len(s) = Cardinality(N \ {j0}) /\ j0 \in N
    BY <1>5, <1>6, <1>7, <1>8
  <2> HIDE DEF n
  <2>2. IsFiniteSet(N) /\ Cardinality(N) = n
    <3>1. n \in Nat
      BY <2>1
    <3>2. IsFiniteSet(1 .. n) /\ Cardinality(1 .. n) = n
      BY <3>1, FS_Interval
    <3>3. QED
      BY <3>2
  <2> HIDE DEF N
  <2>3. Cardinality(N \ {j0}) = Cardinality(N) - 1
    BY <2>1, <2>2, FS_RemoveElement
  <2>4. QED
    BY <2>1, <2>2, <2>3 DEF n
<1>10. s \in Seq(Entries) /\ Len(s) <= ch.assoc
  BY <1>5, <1>7, <1>9
<1>11. \A k \in DOMAIN s : k \in Lives(s) <=> at[k] \in Lives(r)
  BY <1>1 DEF Lives
<1>12. Single(s)
  <2>1. \A k \in Lives(s) : k \in DOMAIN s
    BY DEF Lives
  <2>2. QED
    BY <1>1, <1>3, <1>11, <2>1 DEF Single
<1>13. ch.repeats \/ DOMAIN s \subseteq Lives(s)
  <2>1. ch.repeats \/ DOMAIN r \subseteq Lives(r)
    BY DEF Holds
  <2>2. QED
    BY <1>1, <1>11, <2>1
<1>14. \A k \in DOMAIN s : i < ColoursOf(ch) /\ Leads(ch, i, s[k])
  BY <1>1 DEF Holds
<1>15. ASSUME NEW q PROVE q \in PagesOf(ch, s) <=> q \in PagesOf(ch, r) \ {PageFor(ch, c)}
  <2>1. q \in PagesOf(ch, s) <=> \E k \in Lives(s) : q = PageFor(ch, s[k].call)
    BY DEF PagesOf
  <2>2. q \in PagesOf(ch, r) <=> \E k \in Lives(r) : q = PageFor(ch, r[k].call)
    BY DEF PagesOf
  <2>3. ASSUME NEW k \in Lives(s), q = PageFor(ch, s[k].call)
        PROVE  q \in PagesOf(ch, r) /\ q # PageFor(ch, c)
    <3>1. k \in DOMAIN s
      BY DEF Lives
    <3>2. /\ at[k] \in DOMAIN r /\ at[k] \in Lives(r) /\ at[k] \notin Slots(r, tag)
          /\ q = PageFor(ch, r[at[k]].call)
      BY <1>1, <1>11, <2>3, <3>1
    <3>3. QED
      BY <1>2, <1>4, <2>2, <3>2
  <2>4. ASSUME NEW j \in Lives(r), q = PageFor(ch, r[j].call), q # PageFor(ch, c)
        PROVE  \E k \in Lives(s) : q = PageFor(ch, s[k].call)
    <3>1. j \in DOMAIN r
      BY DEF Lives
    <3>2. j \in DOMAIN r \ Slots(r, tag)
      BY <1>2, <1>4, <2>4, <3>1
    <3>3. PICK k \in DOMAIN s : at[k] = j
      BY <1>1, <3>2
    <3>4. k \in Lives(s) /\ s[k] = r[j]
      BY <1>1, <1>11, <3>3
    <3>5. QED
      BY <2>4, <3>4
  <2>5. QED
    BY <2>1, <2>2, <2>3, <2>4
<1>16. QED
  BY <1>9, <1>10, <1>12, <1>13, <1>14, <1>15 DEF Holds

\* An empty set.
LEMMA EmptyHolds ==
  ASSUME NEW ch \in Caches, NEW i
  PROVE  Holds(ch, i, <<>>) /\ PagesOf(ch, <<>>) = {} /\ Len(<<>>) = 0
<1>1. <<>> \in Seq(Entries) /\ Len(<<>>) = 0 /\ DOMAIN <<>> = {}
  OBVIOUS
<1>2. ch.assoc \in Nat
  BY CacheReads
<1>3. Lives(<<>>) = {}
  BY <1>1 DEF Lives
<1>4. QED
  BY <1>1, <1>2, <1>3 DEF Holds, Single, PagesOf

-----------------------------------------------------------------------------
(* The steps. *)

\* A state the cache can be in: where a call leads.
LEMMA CallLeads ==
  ASSUME IInv, NEW c \in Calls
  PROVE  /\ cache \in Caches /\ c \in Addresses
         /\ Offset(c) = {OffsetOf(cache, c)} /\ SetId(c) = {SetOf(cache, c)}
         /\ Tag(c) = {TagOf(cache, c)} /\ PageOf(c) = PageFor(cache, c)
         /\ SetOf(cache, c) \in DOMAIN sets /\ SetOf(cache, c) \in Nat
         /\ Holds(cache, SetOf(cache, c), sets[SetOf(cache, c)])
<1>1. cache \in Caches /\ Placed(cache, sets)
  BY DEF IInv
<1>2. c \in Addresses /\ SetOf(cache, c) \in 0 .. CountOf(cache) - 1
  BY <1>1, CallReads
<1>3. CountOf(cache) \in Nat
  BY <1>1, CacheReads
<1>4. /\ Offset(c) = {OffsetOf(cache, c)} /\ SetId(c) = {SetOf(cache, c)}
      /\ Tag(c) = {TagOf(cache, c)}
  BY <1>1, <1>2, CutReads DEF SetOf, TagOf
<1>5. PageOf(c) = PageFor(cache, c)
  BY DEF PageOf, PageAt, PageFor, log_pofs, PofsOf, NumberOf
<1>6. SetOf(cache, c) \in Nat /\ SetOf(cache, c) \in DOMAIN sets
  BY <1>1, <1>2, <1>3 DEF Placed
<1>7. QED
  BY <1>1, <1>2, <1>4, <1>5, <1>6 DEF Placed

\* The entries of set i.
LEMMA SetRead ==
  ASSUME IInv, NEW i \in DOMAIN sets
  PROVE  /\ cache \in Caches /\ i \in Nat /\ Holds(cache, i, sets[i])
         /\ \A k \in DOMAIN sets[i] :
              /\ sets[i][k].call \in Calls
              /\ PageOf(sets[i][k].call) = PageFor(cache, sets[i][k].call)
<1>1. cache \in Caches /\ Placed(cache, sets)
  BY DEF IInv
<1>2. i \in Nat /\ Holds(cache, i, sets[i])
  <2>1. CountOf(cache) \in Nat
    BY <1>1, CacheReads
  <2>2. QED
    BY <1>1, <2>1 DEF Placed
<1>3. ASSUME NEW k \in DOMAIN sets[i]
      PROVE  /\ sets[i][k].call \in Calls
             /\ PageOf(sets[i][k].call) = PageFor(cache, sets[i][k].call)
  <2>1. sets[i][k].call \in Calls
    BY <1>1, <1>2, HeldReads
  <2>2. QED
    BY <2>1, CallLeads
<1>4. QED
  BY <1>1, <1>2, <1>3

\* There are no more colours than sets.
LEMMA ColoursAreSets ==
  ASSUME NEW ch \in Caches, NEW ss, Placed(ch, ss), NEW i \in 0 .. ColoursOf(ch) - 1
  PROVE  i \in DOMAIN ss
<1>1. /\ CountOf(ch) \in Nat /\ ColoursOf(ch) \in Nat /\ ColoursOf(ch) <= CountOf(ch)
      /\ DOMAIN ss = 0 .. CountOf(ch) - 1
  BY CacheReads DEF Placed
<1>2. QED
  BY <1>1

\* The pages of the sets are the residents.
LEMMA ResidentsArePages == IInv => Residents = Pages(cache, sets)
<1> SUFFICES ASSUME IInv PROVE Residents = Pages(cache, sets)
  OBVIOUS
<1>1. ASSUME NEW i \in DOMAIN sets PROVE Resident(i) = PagesOf(cache, sets[i])
  <2>1. \A k \in Lives(sets[i]) :
          PageOf(sets[i][k].call) = PageFor(cache, sets[i][k].call)
    BY SetRead DEF Lives
  <2>2. \A e : e \in {d \in ToSet(sets[i]) : d.live} <=>
                \E k \in Lives(sets[i]) : e = sets[i][k]
    BY DEF ToSet, Lives
  <2>3. \A p : p \in Resident(i) <=>
                 \E k \in Lives(sets[i]) : p = PageFor(cache, sets[i][k].call)
    BY <2>1, <2>2 DEF Resident
  <2>4. QED
    BY <2>3 DEF PagesOf
<1>2. QED
  BY <1>1 DEF Residents, Pages

\* At first no page is there, and no line is in use.
LEMMA InitIInv ==
  Init => /\ IInv /\ Pages(cache, sets) = {}
          /\ Lengths(cache, sets) = [i \in 0 .. ColoursOf(cache) - 1 |-> 0]
<1> SUFFICES ASSUME Init
             PROVE  /\ IInv /\ Pages(cache, sets) = {}
                    /\ Lengths(cache, sets) = [i \in 0 .. ColoursOf(cache) - 1 |-> 0]
  OBVIOUS
<1>1. cache \in Caches /\ reply.hit = NONE
  BY DEF Init, Reply
<1>2. DOMAIN sets = 0 .. CountOf(cache) - 1 /\ \A i \in DOMAIN sets : sets[i] = <<>>
  BY DEF Init, set_count, CountOf
<1>3. \A i : Holds(cache, i, <<>>) /\ PagesOf(cache, <<>>) = {} /\ Len(<<>>) = 0
  BY <1>1, EmptyHolds
<1>4. Placed(cache, sets) /\ Pages(cache, sets) = {}
  BY <1>2, <1>3 DEF Placed, Pages
<1>5. Lengths(cache, sets) = [i \in 0 .. ColoursOf(cache) - 1 |-> 0]
  <2>1. \A i \in 0 .. ColoursOf(cache) - 1 : i \in DOMAIN sets
    BY <1>1, <1>4, ColoursAreSets
  <2>2. QED
    BY <1>2, <1>3, <2>1 DEF Lengths
<1>6. QED
  BY <1>1, <1>4, <1>5 DEF IInv

\* access(): the reply says whether the page is there, and no page comes or goes.
LEMMA AccessStep ==
  ASSUME IInv, NEW c \in Calls, access(c)
  PROVE  /\ IInv' /\ cache' = cache /\ evicted' = evicted
         /\ Pages(cache', sets') = Pages(cache, sets)
         /\ Lengths(cache', sets') = Lengths(cache, sets)
         /\ reply' = Reply("access", PageFor(cache, c),
                           PageFor(cache, c) \in Pages(cache, sets))
<1> DEFINE id  == SetOf(cache, c)
           tag == TagOf(cache, c)
           off == OffsetOf(cache, c)
<1>1. /\ cache \in Caches /\ Placed(cache, sets)
      /\ Offset(c) = {off} /\ SetId(c) = {id} /\ Tag(c) = {tag}
      /\ id \in DOMAIN sets /\ id \in Nat /\ Holds(cache, id, sets[id])
      /\ PageOf(c) = PageFor(cache, c)
  BY CallLeads DEF IInv
<1>2. PageFor(cache, c).number % ColoursOf(cache) = id /\ off \in Nat
  BY <1>1, CallReads
<1> HIDE DEF off
<1>3. /\ sets' = IF Hits(sets[id], tag)
                 THEN LET i == CHOOSE i \in Slots(sets[id], tag) : TRUE
                      IN  [sets EXCEPT ![id] =
                             Used(cache.policy, @, i,
                                  [@[i] EXCEPT !.offset = off, !.call = c])]
                 ELSE sets
      /\ reply' = Reply("access", PageFor(cache, c), Hits(sets[id], tag))
      /\ cache' = cache /\ evicted' = evicted
  BY <1>1 DEF access
<1>4. /\ Hits(sets[id], tag) <=> PageFor(cache, c) \in PagesOf(cache, sets[id])
      /\ \A k : k \in Slots(sets[id], tag) <=>
                 k \in Lives(sets[id]) /\ sets[id][k].addr = tag
  BY <1>1, HitIsPage
<1>5. PageFor(cache, c) \in PagesOf(cache, sets[id]) <=>
        PageFor(cache, c) \in Pages(cache, sets)
  BY <1>1, <1>2, ColourIsSet
<1>6. /\ reply' = Reply("access", PageFor(cache, c),
                        PageFor(cache, c) \in Pages(cache, sets))
      /\ reply'.hit \in BOOLEAN
  <2> DEFINE hits == Hits(sets[id], tag)
             there == PageFor(cache, c) \in Pages(cache, sets)
             pg == PageFor(cache, c)
  <2>1. hits \in BOOLEAN /\ there \in BOOLEAN /\ (hits <=> there)
    BY <1>4, <1>5 DEF Hits
  <2>2. reply' = Reply("access", pg, hits)
    BY <1>3
  <2> HIDE DEF hits, there, pg
  <2>3. hits = there
    BY <2>1
  <2>4. reply' = Reply("access", pg, there) /\ reply'.hit \in BOOLEAN
    BY <2>1, <2>2, <2>3 DEF Reply
  <2>5. QED
    BY <2>4 DEF there, pg
<1>7. /\ Placed(cache, sets') /\ Pages(cache, sets') = Pages(cache, sets)
      /\ Lengths(cache, sets') = Lengths(cache, sets)
  <2>1. CASE ~ Hits(sets[id], tag)
    BY <1>1, <1>3, <2>1
  <2>2. CASE Hits(sets[id], tag)
    <3> DEFINE at == CHOOSE i \in Slots(sets[id], tag) : TRUE
               s == Used(cache.policy, sets[id], at,
                         [sets[id][at] EXCEPT !.offset = off, !.call = c])
    <3>1. sets' = [sets EXCEPT ![id] = s]
      BY <1>3, <2>2
    <3>2. at \in DOMAIN sets[id] /\ sets[id][at].addr = tag
      BY <1>4, <2>2 DEF Hits, Lives
    <3> HIDE DEF at
    <3>3. sets[id] \in Seq(Entries)
      BY <1>1, HeldReads
    <3>4. Moved(s, sets[id], at, off, c)
      BY <1>2, <3>2, <3>3, UsedReads
    <3> HIDE DEF s
    <3>5. /\ Holds(cache, id, s) /\ PagesOf(cache, s) = PagesOf(cache, sets[id])
          /\ Len(s) = Len(sets[id])
      BY <1>1, <3>2, <3>4, MovedHolds DEF off
    <3>6. /\ Placed(cache, sets')
          /\ Pages(cache, sets') =
               (Pages(cache, sets) \ PagesOf(cache, sets[id])) \cup PagesOf(cache, s)
          /\ Lengths(cache, sets') = [Lengths(cache, sets) EXCEPT ![id] = Len(s)]
      <4> HIDE DEF id
      <4>1. cache \in Caches /\ Placed(cache, sets) /\ id \in DOMAIN sets
        BY <1>1
      <4>2. Holds(cache, id, s)
        BY <3>5
      <4>3. Replaced(cache, sets', sets, id, s)
        BY <3>1, <4>1, <4>2, SetReplaced
      <4>4. QED
        BY <4>3 DEF Replaced
    <3>7. PagesOf(cache, sets[id]) \subseteq Pages(cache, sets)
      BY <1>1 DEF Pages
    <3>8. Lengths(cache, sets') = Lengths(cache, sets)
      BY <3>5, <3>6 DEF Lengths
    <3>9. QED
      BY <3>5, <3>6, <3>7, <3>8
  <2>3. QED
    BY <2>1, <2>2
<1>8. IInv'
  BY <1>1, <1>3, <1>6, <1>7 DEF IInv
<1>9. QED
  BY <1>3, <1>6, <1>7, <1>8

\* insert(): the page comes, and the page of the last entry of a full set goes, which
\* is reported.
LEMMA InsertStep ==
  ASSUME IInv, NEW c \in Calls, insert(c)
  PROVE  /\ IInv' /\ cache' = cache /\ reply' = Reply("insert", PageFor(cache, c), NONE)
         /\ cache.repeats \/ PageFor(cache, c) \notin Pages(cache, sets)
         /\ LET id == SetOf(cache, c)
                r  == sets[id]
            IN  IF Full(r, cache.assoc)
                THEN /\ Pages(cache', sets') = (Pages(cache, sets)
                          \ {PageFor(cache, Last(r).call)}) \cup {PageFor(cache, c)}
                     /\ evicted' = [addr |-> Last(r).addr * CountOf(cache) + id,
                                    offset |-> Last(r).offset]
                     /\ Lengths(cache', sets') = Lengths(cache, sets)
                ELSE /\ Pages(cache', sets') = Pages(cache, sets) \cup {PageFor(cache, c)}
                     /\ evicted' = evicted
                     /\ Lengths(cache', sets') =
                          [Lengths(cache, sets) EXCEPT ![id] = Len(r) + 1]
<1> DEFINE id  == SetOf(cache, c)
           tag == TagOf(cache, c)
           off == OffsetOf(cache, c)
           r   == sets[id]
           e   == Entry(tag, off, c)
           s   == Inserted(cache.policy, cache.assoc, r, e)
           old == PagesOf(cache, r)
           pg  == PageFor(cache, c)
<1>1. /\ cache \in Caches /\ Placed(cache, sets)
      /\ Offset(c) = {off} /\ SetId(c) = {id} /\ Tag(c) = {tag} /\ PageOf(c) = pg
      /\ id \in DOMAIN sets /\ id \in Nat /\ Holds(cache, id, r)
  BY CallLeads DEF IInv
<1>2. pg.number % ColoursOf(cache) = id /\ off \in Nat /\ tag \in Nat
  BY <1>1, CallReads
<1>3. /\ cache.repeats \/ ~ Hits(r, tag)
      /\ sets' = [sets EXCEPT ![id] = s]
      /\ evicted' = IF Full(r, cache.assoc)
                    THEN [addr |-> Last(r).addr * CountOf(cache) + id,
                          offset |-> Last(r).offset]
                    ELSE evicted
      /\ reply' = Reply("insert", pg, NONE) /\ cache' = cache
  BY <1>1 DEF insert, set_count, CountOf
<1>4. /\ Hits(r, tag) <=> pg \in old
      /\ \A k : k \in Slots(r, tag) <=> k \in Lives(r) /\ r[k].addr = tag
  BY <1>1, HitIsPage
<1>5. cache.repeats \/ pg \notin Pages(cache, sets)
  <2>1. pg \in old <=> pg \in Pages(cache, sets)
    BY <1>1, <1>2, ColourIsSet
  <2>2. QED
    BY <1>3, <1>4, <2>1
<1>6. /\ e \in Entries /\ e.addr = tag /\ e.offset = off /\ e.call = c /\ e.live
  <2>1. 0 \in 0 .. MaxFreq - 1
    BY FreqAssumption
  <2>2. QED
    BY <1>2, <2>1 DEF Entry, Entries
<1>7. /\ r \in Seq(Entries) /\ Len(r) <= cache.assoc /\ cache.assoc \in Nat \ {0}
  BY <1>1, CacheReads DEF Holds
<1>8. cache.repeats \/ Lacks(r, tag)
  <2>1. cache.repeats \/ DOMAIN r \subseteq Lives(r)
    BY <1>1 DEF Holds
  <2>2. ~ Hits(r, tag) => ~ \E k : k \in Lives(r) /\ r[k].addr = tag
    BY <1>4 DEF Hits
  <2>3. QED
    BY <1>3, <2>1, <2>2 DEF Lacks
<1> HIDE DEF e, r
<1>9. Enters(s, r, Room(r, cache.assoc), e, Taken(r, cache.assoc, e.addr))
  BY <1>6, <1>7, InsertedReads
<1> HIDE DEF s
<1>10. /\ Holds(cache, id, s) /\ PagesOf(cache, s) = Spared(cache, r) \cup {pg}
       /\ Len(s) = Room(r, cache.assoc) + 1
  <2>1. e.offset = OffsetOf(cache, c) /\ e.addr = TagOf(cache, c)
    BY <1>6
  <2>2. /\ cache \in Caches /\ id \in Nat /\ Holds(cache, id, r) /\ SetOf(cache, c) = id
        /\ cache.repeats \/ Lacks(r, TagOf(cache, c))
    BY <1>1, <1>8
  <2> HIDE DEF id, tag, off, pg
  <2>3. /\ Holds(cache, id, s)
        /\ PagesOf(cache, s) = Spared(cache, r) \cup {PageFor(cache, c)}
        /\ Len(s) = Room(r, cache.assoc) + 1
    <3>1. e \in Entries /\ e.live /\ e.call = c
      BY <1>6
    <3>2. Enters(s, r, Room(r, cache.assoc), e, Taken(r, cache.assoc, e.addr))
      BY <1>9
    <3>3. c \in Calls
      OBVIOUS
    <3>4. QED
      BY <2>1, <2>2, <3>1, <3>2, <3>3, EnteredHolds
  <2>4. QED
    BY <2>3 DEF pg
<1>11. /\ Placed(cache, sets')
       /\ Pages(cache, sets') = (Pages(cache, sets) \ old) \cup PagesOf(cache, s)
       /\ Lengths(cache, sets') = [Lengths(cache, sets) EXCEPT ![id] = Len(s)]
  <2> HIDE DEF id, pg
  <2>1. cache \in Caches /\ Placed(cache, sets) /\ id \in DOMAIN sets
    BY <1>1
  <2>2. Holds(cache, id, s)
    BY <1>10
  <2>3. sets' = [sets EXCEPT ![id] = s]
    BY <1>3
  <2>4. Replaced(cache, sets', sets, id, s)
    BY <2>1, <2>2, <2>3, SetReplaced
  <2>5. QED
    BY <2>4 DEF Replaced, r
<1>12. old \subseteq Pages(cache, sets)
  BY <1>1 DEF Pages, r
<1>13. IInv'
  <2>1. reply'.hit = NONE
    BY <1>3 DEF Reply
  <2>2. QED
    BY <1>1, <1>3, <1>11, <2>1 DEF IInv
<1>14. Len(r) \in Nat
  BY <1>1, HeldReads
<1>15. CASE Full(r, cache.assoc)
  <2> DEFINE v == PageFor(cache, Last(r).call)
  <2>1. Spared(cache, r) = old \ {v}
    BY <1>15 DEF Spared
  <2>2. v \in Pages(cache, sets) => v \in old
    <3>1. Last(r).call \in Calls /\ SetOf(cache, Last(r).call) = id
      BY <1>1, <1>15, LastReads
    <3>2. v.number % ColoursOf(cache) = id
      BY <1>1, <3>1, CallReads
    <3> HIDE DEF v
    <3>3. QED
      BY <1>1, <3>2, ColourIsSet DEF r
  <2>3. Pages(cache, sets') = (Pages(cache, sets) \ {v}) \cup {pg}
    BY <1>10, <1>11, <1>12, <2>1, <2>2
  <2>4. Lengths(cache, sets') = Lengths(cache, sets)
    <3>1. Len(s) = Len(r)
      BY <1>10, <1>14, <1>15 DEF Room
    <3>2. QED
      BY <1>11, <3>1 DEF Lengths, r
  <2>5. QED
    BY <1>3, <1>5, <1>13, <1>15, <2>3, <2>4 DEF r
<1>16. CASE ~ Full(r, cache.assoc)
  <2>1. Spared(cache, r) = old
    BY <1>16 DEF Spared
  <2>2. Pages(cache, sets') = Pages(cache, sets) \cup {pg}
    BY <1>10, <1>11, <1>12, <2>1
  <2>3. Len(s) = Len(r) + 1
    BY <1>10, <1>16 DEF Room
  <2>4. QED
    BY <1>3, <1>5, <1>11, <1>13, <1>16, <2>2, <2>3 DEF r
<1>17. QED
  BY <1>15, <1>16

\* evict(): the page goes, and its line is free.
LEMMA EvictStep ==
  ASSUME IInv, NEW c \in Calls, evict(c)
  PROVE  /\ IInv' /\ cache' = cache /\ reply' = Reply("evict", PageFor(cache, c), NONE)
         /\ evicted' = evicted /\ PageFor(cache, c) \in Pages(cache, sets)
         /\ Pages(cache', sets') = Pages(cache, sets) \ {PageFor(cache, c)}
         /\ Lengths(cache', sets') = [Lengths(cache, sets) EXCEPT
                                        ![SetOf(cache, c)] = Len(sets[SetOf(cache, c)]) - 1]
<1> DEFINE id  == SetOf(cache, c)
           tag == TagOf(cache, c)
           s   == Without(sets[id], {tag})
           pg  == PageFor(cache, c)
<1>1. /\ cache \in Caches /\ Placed(cache, sets)
      /\ SetId(c) = {id} /\ Tag(c) = {tag} /\ PageOf(c) = pg
      /\ id \in DOMAIN sets /\ id \in Nat /\ Holds(cache, id, sets[id])
  BY CallLeads DEF IInv
<1>2. /\ Hits(sets[id], tag) /\ sets' = [sets EXCEPT ![id] = s]
      /\ reply' = Reply("evict", pg, NONE) /\ cache' = cache /\ evicted' = evicted
  BY <1>1 DEF evict
<1>3. pg \in PagesOf(cache, sets[id])
  BY <1>1, <1>2, HitIsPage
<1>4. pg \in Pages(cache, sets)
  BY <1>1, <1>3 DEF Pages
<1>5. sets[id] \in Seq(Entries)
  BY <1>1, HeldReads
<1>6. Left(s, sets[id], tag)
  BY <1>5, WithoutReads
<1> HIDE DEF s
<1>7. /\ Holds(cache, id, s) /\ PagesOf(cache, s) = PagesOf(cache, sets[id]) \ {pg}
      /\ Len(s) = Len(sets[id]) - 1
  BY <1>1, <1>2, <1>6, LeftHolds
<1>8. Replaced(cache, sets', sets, id, s)
  <2> HIDE DEF id, pg
  <2>1. cache \in Caches /\ Placed(cache, sets) /\ id \in DOMAIN sets /\ Holds(cache, id, s)
    BY <1>1, <1>7
  <2>2. sets' = [sets EXCEPT ![id] = s]
    BY <1>2
  <2>3. QED
    BY <2>1, <2>2, SetReplaced
<1>9. PagesOf(cache, sets[id]) \subseteq Pages(cache, sets)
  BY <1>1 DEF Pages
<1>10. Pages(cache, sets') = Pages(cache, sets) \ {pg}
  BY <1>3, <1>7, <1>8, <1>9 DEF Replaced
<1>11. IInv'
  <2>1. reply'.hit = NONE
    BY <1>2 DEF Reply
  <2>2. QED
    BY <1>1, <1>2, <1>8, <2>1 DEF IInv, Replaced
<1>12. Lengths(cache, sets') = [Lengths(cache, sets) EXCEPT ![id] = Len(sets[id]) - 1]
  BY <1>7, <1>8 DEF Replaced
<1>13. QED
  BY <1>2, <1>4, <1>10, <1>11, <1>12

\* flush(): every page goes.
LEMMA FlushStep ==
  ASSUME IInv, flush
  PROVE  /\ IInv' /\ cache' = cache /\ reply' = Reply("flush", NONE, NONE)
         /\ evicted' = evicted /\ Pages(cache', sets') = {}
         /\ Lengths(cache', sets') = [i \in 0 .. ColoursOf(cache) - 1 |-> 0]
<1>1. cache \in Caches /\ Placed(cache, sets)
  BY DEF IInv
<1>2. /\ sets' = [i \in DOMAIN sets |-> <<>>] /\ reply' = Reply("flush", NONE, NONE)
      /\ cache' = cache /\ evicted' = evicted
  BY DEF flush
<1>3. DOMAIN sets' = DOMAIN sets /\ \A i \in DOMAIN sets' : sets'[i] = <<>>
  BY <1>2
<1>4. \A i : Holds(cache, i, <<>>) /\ PagesOf(cache, <<>>) = {} /\ Len(<<>>) = 0
  BY <1>1, EmptyHolds
<1>5. Placed(cache, sets') /\ Pages(cache, sets') = {}
  BY <1>1, <1>3, <1>4 DEF Placed, Pages
<1>6. Lengths(cache, sets') = [i \in 0 .. ColoursOf(cache) - 1 |-> 0]
  <2>1. \A i \in 0 .. ColoursOf(cache) - 1 : i \in DOMAIN sets'
    BY <1>1, <1>5, ColoursAreSets
  <2>2. QED
    BY <1>3, <1>4, <2>1 DEF Lengths
<1>7. IInv'
  <2>1. reply'.hit = NONE
    BY <1>2 DEF Reply
  <2>2. QED
    BY <1>1, <1>2, <1>5, <2>1 DEF IInv
<1>8. QED
  BY <1>2, <1>5, <1>6, <1>7

-----------------------------------------------------------------------------
(* The theorems. *)

\* The inductive invariant: every entry stands in the set and has the tag that its last
\* call leads to, no two entries that a hit can lead to have the same tag, and a client
\* that inserts only pages that are not there leaves no orphan behind.
THEOREM FunctionalCacheInvariant == Spec => []IInv
<1>1. Init => IInv
  BY InitIInv
<1>2. IInv /\ [Next]_vars => IInv'
  <2> SUFFICES ASSUME IInv, [Next]_vars PROVE IInv'
    OBVIOUS
  <2>1. CASE flush
    BY <2>1, FlushStep
  <2>2. ASSUME NEW c \in Calls, access(c) PROVE IInv'
    BY <2>2, AccessStep
  <2>3. ASSUME NEW c \in Calls, insert(c) PROVE IInv'
    BY <2>3, InsertStep
  <2>4. ASSUME NEW c \in Calls, evict(c) PROVE IInv'
    BY <2>4, EvictStep
  <2>5. CASE UNCHANGED vars
    BY <2>5 DEF vars, IInv
  <2>6. QED
    BY <2>1, <2>2, <2>3, <2>4, <2>5 DEF Next
<1>3. QED
  BY <1>1, <1>2, PTL DEF Spec

\* No set holds more than its lines, and every line in use was last used by a call
\* that leads to this set and this tag, for every width of an address, every size of
\* a cache and every client that keeps the numbers of small and huge pages apart.
THEOREM FunctionalCacheTypes == Spec => []TypeOK
<1>1. IInv => TypeOK
  <2> SUFFICES ASSUME IInv PROVE TypeOK
    OBVIOUS
  <2>1. ASSUME NEW i \in DOMAIN sets PROVE Len(sets[i]) \in 0 .. cache.assoc
    <3>1. Len(sets[i]) \in Nat /\ Len(sets[i]) <= cache.assoc /\ cache.assoc \in Nat
      BY SetRead, HeldReads, CacheReads
    <3>2. QED
      BY <3>1
  <2>2. ASSUME NEW i \in DOMAIN sets, NEW k \in DOMAIN sets[i]
        PROVE  /\ sets[i][k].freq \in 0 .. MaxFreq - 1
               /\ Tag(sets[i][k].call) = {sets[i][k].addr}
               /\ SetId(sets[i][k].call) = {i}
    <3>1. cache \in Caches /\ i \in Nat /\ Holds(cache, i, sets[i])
      BY SetRead
    <3>2. /\ sets[i] \in Seq(Entries) /\ sets[i][k].call \in Calls
          /\ SetOf(cache, sets[i][k].call) = i
          /\ TagOf(cache, sets[i][k].call) = sets[i][k].addr
      BY <3>1, HeldReads
    <3>3. sets[i][k].freq \in 0 .. MaxFreq - 1
      BY <3>2, EntriesRead
    <3>4. QED
      BY <3>2, <3>3, CallLeads
  <2>3. ASSUME NEW i \in DOMAIN sets, NEW e \in ToSet(sets[i])
        PROVE  /\ e.freq \in 0 .. MaxFreq - 1
               /\ Tag(e.call) = {e.addr} /\ SetId(e.call) = {i}
    <3>1. PICK k \in DOMAIN sets[i] : e = sets[i][k]
      BY DEF ToSet
    <3>2. QED
      BY <2>2, <3>1
  <2>4. reply.hit \in BOOLEAN \cup {NONE}
    BY DEF IInv
  <2>5. QED
    BY <2>1, <2>3, <2>4 DEF TypeOK
<1>2. QED
  BY <1>1, FunctionalCacheInvariant, PTL

\* In a cache of one set whose client inserts only pages that are not there, what
\* get_entries returns is found again as pages of these numbers: the assert of getFreq
\* that summarize_promotions relies on.
THEOREM FunctionalCacheEntriesAreFound == Spec => []EntriesAreFound
<1>1. IInv => EntriesAreFound
  <2> SUFFICES ASSUME IInv, set_count = 1, ~ cache.repeats,
                      cache.log_line_size = PageBits,
                      NEW i \in DOMAIN sets, NEW k \in DOMAIN sets[i]
               PROVE  getFreqDefined([address |-> sets[i][k].addr * Pow[PageBits],
                                      is2M |-> FALSE])
    BY DEF EntriesAreFound, get_entries
  <2> DEFINE e    == sets[i][k]
             base == e.addr
             c    == [address |-> base * Pow[PageBits], is2M |-> FALSE]
             p    == PofsOf(cache, e.call)
  <2>1. cache \in Caches /\ i \in Nat /\ Holds(cache, i, sets[i])
    BY SetRead
  <2>2. /\ e \in Entries /\ e.call \in Calls /\ i < ColoursOf(cache)
        /\ TagOf(cache, e.call) = base /\ e.call \in Addresses
        /\ k \in Lives(sets[i]) /\ base \in Nat
    <3>1. sets[i] \in Seq(Entries) /\ DOMAIN sets[i] = 1 .. Len(sets[i])
      BY <2>1, HeldReads
    <3>2. k \in Lives(sets[i]) /\ base \in Nat
      BY <2>1, <3>1, EntriesRead DEF Holds
    <3>3. QED
      BY <2>1, <3>2, HeldReads, CallReads
  <2>3. ColoursOf(cache) = 1
    <3>1. CountOf(cache) = 1
      BY DEF CountOf, set_count
    <3>2. ColoursOf(cache) \in Nat \ {0} /\ ColoursOf(cache) <= 1
      BY <2>1, <3>1, CacheReads
    <3>3. QED
      BY <3>2
  <2>4. i = 0
    BY <2>1, <2>2, <2>3
  <2>5. NumberOf(cache, e.call) = base
    <3>1. NumberOf(cache, e.call) \in Nat
      BY <2>1, <2>2, AddressReads
    <3>2. \A x \in Nat : x \div 1 = x
      OBVIOUS
    <3>3. QED
      BY <2>2, <2>3, <3>1, <3>2 DEF TagOf
  <2>6. c \in Addresses
    <3>1. /\ e.call.address \in Nat /\ e.call.address < Pow[Bits]
          /\ p \in {PageBits, HugeBits} /\ Pow[p] \in Nat \ {0}
          /\ OffsetOf(cache, e.call) \in Nat
          /\ e.call.address = Pow[p] * NumberOf(cache, e.call) + OffsetOf(cache, e.call)
      BY <2>1, <2>2, AddressReads
    <3>2. /\ PageBits \in Nat /\ p \in Nat /\ PageBits <= p
          /\ Pow[PageBits] \in Nat /\ Pow[Bits] \in Nat
      <4>1. PageBits \in Nat /\ HugeBits \in Nat /\ PageBits < HugeBits /\ Bits \in Nat
        BY WidthAssumption
      <4>2. QED
        BY <3>1, <4>1, PowDoubles
    <3>3. Pow[PageBits] <= Pow[p]
      BY <3>2, PowGrows
    <3> DEFINE x == Pow[PageBits]
               y == Pow[p]
               w == Pow[Bits]
               a == e.call.address
               o == OffsetOf(cache, e.call)
    <3>4. /\ x \in Nat /\ y \in Nat /\ w \in Nat /\ o \in Nat
          /\ a < w /\ a = y * base + o /\ x <= y
      BY <2>5, <3>1, <3>2, <3>3
    <3> HIDE DEF x, y, w, a, o
    <3>5. \A u, v, b \in Nat : u <= v => b * u \in Nat /\ b * u <= v * b
      OBVIOUS
    <3> DEFINE l == base * x
               m == y * base
    <3>6. l \in Nat /\ l <= m /\ m \in Nat
      BY <2>2, <3>4, <3>5
    <3>7. a = m + o
      BY <3>4
    <3> HIDE DEF l, m
    <3>8. l \in 0 .. w - 1
      BY <3>4, <3>6, <3>7
    <3>9. QED
      BY <3>8 DEF Addresses, l, x, w
  <2>7. NumberOf(cache, c) = base
    <3>1. PofsOf(cache, c) = PageBits
      BY DEF PofsOf
    <3>2. Pow[PageBits] \in Nat \ {0}
      BY PowDoubles, WidthAssumption
    <3>3. \A u \in Nat, v \in Nat \ {0} : (u * v) \div v = u
      OBVIOUS
    <3>4. QED
      BY <2>2, <3>1, <3>2, <3>3 DEF NumberOf
  <2> HIDE DEF c
  <2>8. SetId(c) = {0} /\ Tag(c) = {base}
    <3>1. base % 1 = 0 /\ base \div 1 = base
      BY <2>2
    <3>2. /\ SetId(c) = {NumberOf(cache, c) % ColoursOf(cache)}
          /\ Tag(c) = {NumberOf(cache, c) \div ColoursOf(cache)}
      BY <2>1, <2>6, CutReads
    <3>3. QED
      BY <2>3, <2>7, <3>1, <3>2
  <2>9. k \in Slots(sets[0], base)
    BY <2>2, <2>4 DEF Slots, Lives
  <2>10. getFreqDefined(c)
    BY <2>8, <2>9 DEF getFreqDefined, Hits
  <2>11. QED
    BY <2>10 DEF c
<1>2. QED
  BY <1>1, FunctionalCacheInvariant, PTL

\* An insertion into a set with room takes no page and reports none; one into a full set
\* takes one page at most, exactly one where no page is inserted that is there, and
\* reports, when the number of sets is a power of two, where it was last used.
THEOREM FunctionalCacheReportsVictim == Spec => ReportsVictim
<1> DEFINE lines == UNION {ToSet(sets[i]) : i \in DOMAIN sets}
           gone  == Residents \ Residents'
           Reports(e) ==
             /\ gone \subseteq {PageOf(e.call)}
             /\ cache.repeats \/ gone # {}
             /\ set_count = Pow[log_set_count] =>
                  e.call.address =
                    evicted'.addr * Pow[log_pofs(e.call)] + evicted'.offset
           Reported ==
             reply'.op = "insert" =>
               \/ gone = {} /\ evicted' = evicted
               \/ \E e \in lines : Reports(e)
<1>1. ASSUME IInv, Residents = Pages(cache, sets), Residents' = Pages(cache', sets'),
             [Next]_vars
      PROVE  Reported
  <2>1. CASE flush
    <3>1. reply'.op = "flush"
      BY <1>1, <2>1, FlushStep DEF Reply
    <3>2. QED
      BY <3>1
  <2>2. ASSUME NEW c \in Calls, access(c) PROVE Reported
    BY <1>1, <2>2, AccessStep
  <2>3. ASSUME NEW c \in Calls, evict(c) PROVE Reported
    <3>1. reply'.op = "evict"
      BY <1>1, <2>3, EvictStep DEF Reply
    <3>2. QED
      BY <3>1
  <2>4. CASE UNCHANGED vars
    BY <1>1, <2>4 DEF vars
  <2>5. ASSUME NEW c \in Calls, insert(c) PROVE Reported
    <3> DEFINE id == SetOf(cache, c)
               r  == sets[id]
               pg == PageFor(cache, c)
               n  == Len(r)
               v  == Last(r)
    <3>1. /\ cache \in Caches /\ id \in DOMAIN sets /\ id \in Nat /\ Holds(cache, id, r)
          /\ Placed(cache, sets)
      BY <1>1, CallLeads DEF IInv
    <3>2. CASE ~ Full(r, cache.assoc)
      <4>1. Residents' = Residents \cup {pg} /\ evicted' = evicted
        BY <1>1, <2>5, <3>2, InsertStep
      <4>2. QED
        BY <4>1
    <3>3. CASE Full(r, cache.assoc)
      <4>1. n \in DOMAIN r /\ v = r[n] /\ v.call \in Calls
        BY <3>1, <3>3, LastReads
      <4>2. /\ cache.repeats \/ pg \notin Residents
            /\ Residents' = (Residents \ {PageFor(cache, v.call)}) \cup {pg}
            /\ evicted' = [addr |-> v.addr * CountOf(cache) + id, offset |-> v.offset]
        BY <1>1, <2>5, <3>3, InsertStep
      <4>3. v \in lines
        BY <3>1, <4>1 DEF ToSet
      <4>4. PageOf(v.call) = PageFor(cache, v.call)
        BY <1>1, <4>1, CallLeads
      <4>5. ASSUME ~ cache.repeats PROVE PageFor(cache, v.call) \in Residents
        <5>1. n \in Lives(r)
          BY <3>1, <4>1, <4>5 DEF Holds
        <5>2. PageFor(cache, v.call) \in PagesOf(cache, r)
          BY <4>1, <5>1 DEF PagesOf
        <5>3. QED
          BY <1>1, <3>1, <5>2 DEF Pages
      <4>6. ASSUME set_count = Pow[log_set_count]
            PROVE  v.call.address = evicted'.addr * Pow[log_pofs(v.call)] + evicted'.offset
        <5> DEFINE x == v.addr * CountOf(cache) + id
                   y == Pow[PofsOf(cache, v.call)]
        <5>1. CountOf(cache) = ColoursOf(cache)
          BY <4>6 DEF CountOf, ColoursOf, log_set_count, set_count
        <5>2. log_pofs(v.call) = PofsOf(cache, v.call)
          BY DEF log_pofs, PofsOf
        <5>3. evicted'.addr = x /\ evicted'.offset = v.offset
          BY <4>2
        <5>4. /\ NumberOf(cache, v.call) = ColoursOf(cache) * v.addr + id
              /\ v.offset = OffsetOf(cache, v.call)
          BY <3>1, <4>1 DEF Holds, Leads
        <5>5. v.addr \in Nat /\ ColoursOf(cache) \in Nat /\ v.call \in Addresses
          <6>1. v.addr \in Nat
            <7>1. r \in Seq(Entries) /\ DOMAIN r = 1 .. Len(r)
              BY <3>1, HeldReads
            <7>2. r[n].addr \in Nat
              BY <4>1, <7>1, EntriesRead
            <7>3. QED
              BY <4>1, <7>2
          <6>2. QED
            BY <3>1, <4>1, <6>1, CacheReads, CallReads
        <5>6. x = NumberOf(cache, v.call)
          BY <5>1, <5>4, <5>5
        <5>7. /\ v.call.address = y * NumberOf(cache, v.call) + OffsetOf(cache, v.call)
              /\ y \in Nat /\ NumberOf(cache, v.call) \in Nat
          BY <3>1, <5>5, AddressReads
        <5> HIDE DEF x, y, v
        <5>8. y * NumberOf(cache, v.call) = x * y
          BY <5>6, <5>7
        <5>9. QED
          BY <5>2, <5>3, <5>4, <5>7, <5>8 DEF y
      <4> HIDE DEF v
      <4>7. gone \subseteq {PageOf(v.call)} /\ (cache.repeats \/ gone # {})
        BY <4>2, <4>4, <4>5
      <4>8. Reports(v)
        BY <4>6, <4>7
      <4> HIDE DEF Reports
      <4>9. QED
        BY <4>3, <4>8
    <3>4. QED
      BY <3>2, <3>3
  <2>6. QED
    BY <1>1, <2>1, <2>2, <2>3, <2>4, <2>5 DEF Next
<1>2. IInv /\ IInv' /\ [Next]_vars => Reported
  <2>1. IInv => Residents = Pages(cache, sets)
    BY ResidentsArePages
  <2>2. IInv' => Residents' = Pages(cache', sets')
    <3>1. (IInv => Residents = Pages(cache, sets))'
      BY ResidentsArePages, PTL
    <3>2. QED
      BY <3>1
  <2> HIDE DEF Reported
  <2>3. QED
    BY <1>1, <2>1, <2>2
<1>3. QED
  BY <1>2, FunctionalCacheInvariant, PTL DEF Spec, ReportsVictim

\* The abstract counts of lines in use are the lengths of the sets.
UsedNow == [i \in 0 .. Pow[log_set_count] - 1 |-> Len(sets[i])]

LEMMA UsedAreLengths == UsedNow = Lengths(cache, sets)
BY DEF UsedNow, Lengths, ColoursOf, CountOf, log_set_count, set_count

\* Cutting an address into tag, set and offset loses nothing, and the sets keep what
\* they are told to: the cache implements the store of pages, for every width of an
\* address, every number of sets, a power of two or not, and clients that insert pages
\* that are there as well as those that do not.
THEOREM FunctionalCacheImplementsPageStore == Spec => ImplementsPageStore
<1>1. Init => Store!SInit
  <2> SUFFICES ASSUME Init PROVE Store!SInit
    OBVIOUS
  <2>1. IInv /\ Residents = {} /\ cache \in Caches
    BY InitIInv, ResidentsArePages DEF IInv
  <2>2. /\ Pow[log_set_count] \in Nat \ {0} /\ cache.assoc \in Nat \ {0}
        /\ Pow[log_set_count] = ColoursOf(cache)
    BY <2>1, CacheReads DEF ColoursOf, CountOf, log_set_count, set_count
  <2>3. cache.repeats \in BOOLEAN
    BY <2>1, CacheAssumption
  <2>4. UsedNow = [k \in 0 .. Pow[log_set_count] - 1 |-> 0]
    BY <2>2, InitIInv, UsedAreLengths
  <2>5. reply = [op |-> "flush", page |-> NONE, hit |-> NONE]
    BY DEF Init, Reply
  <2>6. QED
    BY <2>1, <2>2, <2>3, <2>4, <2>5 DEF Store!SInit, UsedNow
<1>2. ASSUME IInv, Residents = Pages(cache, sets), Residents' = Pages(cache', sets'),
             UsedNow = Lengths(cache, sets), UsedNow' = Lengths(cache', sets'),
             [Next]_vars
      PROVE  [Store!SNext]_(Store!svars)
  <2> DEFINE Same == /\ Pow[log_set_count]' = Pow[log_set_count]
                     /\ cache'.assoc = cache.assoc /\ cache'.repeats = cache.repeats
             Page == {PageAt(b, c.address) : b \in {PageBits, HugeBits}, c \in Calls}
  <2>1. cache' = cache => Same
    BY DEF log_set_count, set_count
  <2>2. ASSUME NEW c \in Calls PROVE PageFor(cache, c) \in Page
    <3>1. cache \in Caches /\ c \in Addresses
      BY <1>2, CallReads DEF IInv
    <3>2. PofsOf(cache, c) \in {PageBits, HugeBits}
      BY <3>1, AddressReads
    <3>3. PageFor(cache, c) = PageAt(PofsOf(cache, c), c.address)
      BY DEF PageFor, PageAt, NumberOf
    <3>4. QED
      BY <3>2, <3>3
  <2>3. Pow[log_set_count] = ColoursOf(cache)
    BY DEF ColoursOf, CountOf, log_set_count, set_count
  <2>4. ASSUME NEW c \in Calls
        PROVE  /\ Store!Colour(PageFor(cache, c)) = SetOf(cache, c)
               /\ SetOf(cache, c) \in 0 .. ColoursOf(cache) - 1
               /\ Lengths(cache, sets)[SetOf(cache, c)] = Len(sets[SetOf(cache, c)])
    <3>1. /\ cache \in Caches /\ SetOf(cache, c) \in 0 .. CountOf(cache) - 1
          /\ SetOf(cache, c) < ColoursOf(cache)
          /\ PageFor(cache, c).number % ColoursOf(cache) = SetOf(cache, c)
          /\ CountOf(cache) \in Nat /\ ColoursOf(cache) \in Nat
      BY <1>2, CallReads, CacheReads DEF IInv
    <3>2. SetOf(cache, c) \in 0 .. ColoursOf(cache) - 1
      BY <3>1
    <3>3. QED
      BY <2>3, <3>1, <3>2 DEF Store!Colour, Lengths
  <2>0. ASSUME NEW p \in Page, Store!Ask(p) \/ Store!Insert(p) \/ Store!Drop(p), Same
        PROVE  Store!SNext
    <3>1. \E q \in Page : Store!Ask(q) \/ Store!Insert(q) \/ Store!Drop(q)
      BY <2>0
    <3>2. QED
      BY <2>0, <3>1 DEF Store!SNext
  <2> HIDE DEF Same, Page
  <2>5. CASE flush
    <3>1. /\ cache' = cache /\ reply' = Reply("flush", NONE, NONE) /\ Residents' = {}
          /\ UsedNow' = [i \in 0 .. ColoursOf(cache) - 1 |-> 0]
      BY <1>2, <2>5, FlushStep
    <3>2. DOMAIN UsedNow = 0 .. ColoursOf(cache) - 1
      BY <2>3 DEF UsedNow
    <3>3. Store!Clear
      BY <3>1, <3>2 DEF Store!Clear, Store!Answer, Reply, UsedNow
    <3>4. QED
      BY <2>1, <3>1, <3>3 DEF Store!SNext, Same
  <2>6. ASSUME NEW c \in Calls, access(c) PROVE Store!SNext
    <3> DEFINE pg == PageFor(cache, c)
    <3>1. /\ cache' = cache /\ Residents' = Residents /\ UsedNow' = UsedNow
          /\ reply' = Reply("access", pg, pg \in Residents)
      BY <1>2, <2>6, AccessStep
    <3>2. pg \in Page
      BY <2>2
    <3> HIDE DEF pg
    <3>3. Store!Ask(pg)
      BY <3>1 DEF Store!Ask, Store!Answer, Reply, UsedNow
    <3>4. QED
      BY <2>1, <3>1, <3>2, <3>3 DEF Store!SNext, Same, Page
  <2>7. ASSUME NEW c \in Calls, evict(c) PROVE Store!SNext
    <3> DEFINE pg == PageFor(cache, c)
               id == SetOf(cache, c)
    <3>1. /\ cache' = cache /\ reply' = Reply("evict", pg, NONE) /\ pg \in Residents
          /\ Residents' = Residents \ {pg}
          /\ UsedNow' = [UsedNow EXCEPT ![id] = Len(sets[id]) - 1]
      BY <1>2, <2>7, EvictStep
    <3>2. pg \in Page /\ Store!Colour(pg) = id /\ UsedNow[id] = Len(sets[id])
      BY <1>2, <2>2, <2>4
    <3> HIDE DEF pg, id
    <3>3. UsedNow' = [UsedNow EXCEPT ![Store!Colour(pg)] = @ - 1]
      BY <3>1, <3>2
    <3>4. PICK p \in Page : p = pg
      BY <3>2
    <3>5. Store!Drop(p)
      BY <3>1, <3>3, <3>4 DEF Store!Drop, Store!Answer, Reply, UsedNow
    <3>6. QED
      BY <2>0, <2>1, <3>1, <3>5
  <2>8. ASSUME NEW c \in Calls, insert(c) PROVE Store!SNext
    <3> DEFINE id == SetOf(cache, c)
               r  == sets[id]
               pg == PageFor(cache, c)
               v  == PageFor(cache, Last(r).call)
    <3>1. /\ cache \in Caches /\ id \in DOMAIN sets /\ id \in Nat /\ Holds(cache, id, r)
          /\ Placed(cache, sets)
      BY <1>2, CallLeads DEF IInv
    <3>2. /\ cache' = cache /\ reply' = Reply("insert", pg, NONE)
          /\ cache.repeats \/ pg \notin Residents
      BY <1>2, <2>8, InsertStep
    <3>3. pg \in Page /\ Store!Colour(pg) = id /\ UsedNow[id] = Len(r)
      BY <1>2, <2>2, <2>4
    <3>4. Len(r) \in Nat /\ Len(r) <= cache.assoc /\ cache.assoc \in Nat
      BY <3>1, HeldReads, CacheReads
    <3>8. PICK p \in Page : p = pg
      BY <3>3
    <3>5. CASE ~ Full(r, cache.assoc)
      <4>1. /\ Residents' = Residents \cup {pg}
            /\ UsedNow' = [UsedNow EXCEPT ![id] = Len(r) + 1]
        BY <1>2, <2>8, <3>5, InsertStep
      <4>2. Len(r) < cache.assoc
        BY <3>4, <3>5 DEF Full
      <4> HIDE DEF id, r, pg
      <4>3. UsedNow[Store!Colour(pg)] < cache.assoc
        BY <3>3, <4>2
      <4>4. UsedNow' = [UsedNow EXCEPT ![Store!Colour(pg)] = @ + 1]
        BY <3>3, <4>1
      <4>5. Store!Enter(p)
        BY <3>8, <4>1, <4>3, <4>4 DEF Store!Enter, UsedNow
      <4>6. Store!Insert(p)
        BY <3>2, <3>8, <4>5 DEF Store!Insert, Store!Answer, Reply
      <4>7. QED
        BY <2>0, <2>1, <3>2, <4>6
    <3>6. CASE Full(r, cache.assoc)
      <4>1. Residents' = (Residents \ {v}) \cup {pg} /\ UsedNow' = UsedNow
        BY <1>2, <2>8, <3>6, InsertStep
      <4>2. /\ Len(r) \in DOMAIN r /\ Last(r) = r[Len(r)] /\ Last(r).call \in Calls
            /\ SetOf(cache, Last(r).call) = id
        BY <3>1, <3>6, LastReads
      <4>3. v \in Page /\ Store!Colour(v) = id
        BY <2>2, <2>4, <4>2
      <4>4. ASSUME ~ cache.repeats PROVE v \in Residents
        <5>1. Len(r) \in Lives(r)
          BY <3>1, <4>2, <4>4 DEF Holds
        <5>2. v \in PagesOf(cache, r)
          BY <4>2, <5>1 DEF PagesOf
        <5>3. QED
          BY <1>2, <3>1, <5>2 DEF Pages
      <4>5. Len(r) = cache.assoc
        BY <3>6 DEF Full
      <4> HIDE DEF id, r, pg, v
      <4>6. UsedNow[Store!Colour(pg)] = cache.assoc
        BY <3>3, <4>5
      <4>7. Store!Replace(p)
        BY <3>3, <3>8, <4>1, <4>3, <4>4, <4>6 DEF Store!Replace, UsedNow, Page
      <4>8. Store!Insert(p)
        BY <3>2, <3>8, <4>7 DEF Store!Insert, Store!Answer, Reply
      <4>9. QED
        BY <2>0, <2>1, <3>2, <4>8
    <3>7. QED
      BY <3>5, <3>6
  <2>9. CASE UNCHANGED vars
    <3>1. cache' = cache /\ reply' = reply /\ Residents' = Residents /\ UsedNow' = UsedNow
      BY <1>2, <2>9 DEF vars
    <3>2. QED
      BY <2>1, <3>1 DEF Store!svars, Same, UsedNow
  <2>10. QED
    BY <1>2, <2>5, <2>6, <2>7, <2>8, <2>9 DEF Next
<1>3. IInv /\ IInv' /\ [Next]_vars => [Store!SNext]_(Store!svars)
  <2>1. IInv => Residents = Pages(cache, sets)
    BY ResidentsArePages
  <2>2. IInv' => Residents' = Pages(cache', sets')
    <3>1. (IInv => Residents = Pages(cache, sets))'
      BY ResidentsArePages, PTL
    <3>2. QED
      BY <3>1
  <2>3. UsedNow = Lengths(cache, sets)
    BY UsedAreLengths
  <2>4. UsedNow' = Lengths(cache', sets')
    <3>1. (UsedNow = Lengths(cache, sets))'
      BY UsedAreLengths, PTL
    <3>2. QED
      BY <3>1
  <2>5. QED
    BY <1>2, <2>1, <2>2, <2>3, <2>4
<1>4. QED
  BY <1>1, <1>3, FunctionalCacheInvariant, PTL DEF Spec, ImplementsPageStore, Store!SSpec

=============================================================================
