-------------------------- MODULE CacheSet_proofs ---------------------------
(***************************************************************************)
(* Proofs about CacheSet, and that it implements RankedSet: for every      *)
(* associativity, every set of tags, both policies and both kinds of       *)
(* client.                                                                 *)
(***************************************************************************)
EXTENDS CacheRanking, Places_proofs

-----------------------------------------------------------------------------
(* The list primitives keep a chain a chain. *)

\* A set of lines is finite and no larger than the array.
LEMMA LinesCount ==
  ASSUME NEW L \in SUBSET Lines
  PROVE  /\ IsFiniteSet(L)
         /\ Cardinality(L) \in 0 .. Associativity
<1>1. IsFiniteSet(Lines) /\ Cardinality(Lines) = Associativity
  BY FS_Interval, AssocAssumption DEF Lines
<1>2. IsFiniteSet(L) /\ Cardinality(L) <= Associativity
  BY <1>1, FS_Subset
<1>3. QED
  BY <1>2, FS_CardinalityType

\* The nodes are the lines and the two sentinels, all of them integers.
LEMMA Nodes ==
  /\ Lines \subseteq Node /\ head \in Node /\ tail \in Node
  /\ head \notin Lines /\ tail \notin Lines /\ head # tail
  /\ Node \subseteq Nat
BY AssocAssumption DEF Lines, Node, head, tail

\* A chain of k lines and the tail have places that are nodes.
LEMMA Places ==
  ASSUME NEW k \in 0 .. Associativity
  PROVE  1 .. k \subseteq Node /\ k + 1 \in Node
BY AssocAssumption DEF Node

\* The lines L stand on the chain q in the order they have on pos.
SameOrder(L, pos, q) == \A m, n \in L : q[m] < q[n] => pos[m] < pos[n]

\* deleteNode takes one line out of a chain and leaves a chain, on which the
\* other lines keep their order.
LEMMA UnlinkKeepsChain ==
  ASSUME NEW L \in SUBSET Lines,
         NEW N \in [Node -> Node \cup {NULL}],
         NEW P \in [Node -> Node \cup {NULL}],
         NEW pos \in [Node -> Node],
         Chain(L, N, P, pos),
         NEW c \in L
  PROVE  \E q \in [Node -> Node] :
           /\ Chain(L \ {c}, [N EXCEPT ![P[c]] = N[c]],
                             [P EXCEPT ![N[c]] = P[c]], q)
           /\ SameOrder(L \ {c}, pos, q)
<1> DEFINE K == L \ {c}
           M == [N EXCEPT ![P[c]] = N[c]]
           R == [P EXCEPT ![N[c]] = P[c]]
           q == [n \in Node |-> IF n \in K \cup {tail}
                                THEN IF pos[n] > pos[c] THEN pos[n] - 1
                                                        ELSE pos[n]
                                ELSE 0]
<1>1. /\ Cardinality(L) \in 0 .. Associativity
      /\ Cardinality(K) = Cardinality(L) - 1
      /\ Cardinality(K) \in 0 .. Associativity
  <2>1. K \in SUBSET Lines
    OBVIOUS
  <2>2. QED
    BY <2>1, LinesCount, FS_RemoveElement
<1>n. 1 .. Cardinality(K) \subseteq Node /\ Cardinality(K) + 1 \in Node
  BY <1>1, Places
<1>k. \A n : n \in K <=> n \in L /\ n # c
  OBVIOUS
<1> HIDE DEF K
<1>2. /\ c \in Node /\ head \in Node /\ tail \in Node
      /\ L \subseteq Node /\ head \notin L /\ tail \notin L /\ head # tail
      /\ Node \subseteq Int
  BY Nodes
<1>3. /\ N[c] \in L \cup {tail} /\ P[c] \in L \cup {head}
      /\ N[c] # c /\ P[c] # c
      /\ pos[N[c]] = pos[c] + 1
      /\ pos[c] = pos[P[c]] + 1
      /\ N[P[c]] = c /\ P[N[c]] = c
  <2>1. N[c] \in L \cup {tail} /\ P[N[c]] = c /\ pos[N[c]] = pos[c] + 1
    BY DEF Chain
  <2>2. P[c] \in L \cup {head} /\ N[P[c]] = c
    BY DEF Chain
  <2>3. pos[c] = pos[P[c]] + 1
    BY <2>2 DEF Chain
  <2>4. pos[c] \in Int
    BY <1>2
  <2>5. QED
    BY <2>1, <2>2, <2>3, <2>4
<1>4. /\ pos[c] \in 1 .. Cardinality(L)
      /\ pos[tail] = Cardinality(L) + 1
      /\ pos[head] = 0
      /\ \A n \in K : pos[n] \in 1 .. Cardinality(L) /\ pos[n] # pos[c]
  BY <1>2, <1>k DEF Chain
<1>q. /\ q[head] = 0
      /\ \A n \in K \cup {tail} :
           q[n] = IF pos[n] > pos[c] THEN pos[n] - 1 ELSE pos[n]
      /\ \A n \in Node : n \notin K \cup {tail} => q[n] = 0
  BY <1>2, <1>k
<1>f. q = [n \in Node |-> q[n]]
  OBVIOUS
<1>m. /\ \A n \in Node : M[n] = IF n = P[c] THEN N[c] ELSE N[n]
      /\ \A n \in Node : R[n] = IF n = N[c] THEN P[c] ELSE P[n]
  BY <1>2, <1>3
<1> HIDE DEF q, M, R
<1>5. /\ q \in [Node -> Node]
      /\ q[head] = 0
      /\ q[tail] = Cardinality(K) + 1
      /\ \A n \in K : q[n] \in 1 .. Cardinality(K)
  <2>1. ASSUME NEW n \in K PROVE q[n] \in 1 .. Cardinality(K)
    <3>1. q[n] = IF pos[n] > pos[c] THEN pos[n] - 1 ELSE pos[n]
      BY <1>q
    <3>2. /\ pos[n] \in 1 .. Cardinality(L) /\ pos[n] # pos[c]
          /\ pos[c] \in 1 .. Cardinality(L)
      BY <1>4
    <3>3. QED
      BY <3>1, <3>2, <1>1
  <2>2. q[tail] = Cardinality(K) + 1
    BY <1>1, <1>q, <1>4
  <2>3. \A n \in Node : q[n] \in Node
    <3>1. TAKE n \in Node
    <3>2. CASE n \in K
      BY <3>2, <2>1, <1>n
    <3>3. CASE n = tail
      BY <3>3, <2>2, <1>n
    <3>4. CASE n \notin K \cup {tail}
      BY <3>4, <1>q, AssocAssumption DEF Node
    <3>5. QED
      BY <3>2, <3>3, <3>4
  <2>4. QED
    BY <1>f, <1>q, <2>1, <2>2, <2>3
<1>6. \A m, n \in K :
        /\ q[m] = q[n] => pos[m] = pos[n]
        /\ q[m] < q[n] => pos[m] < pos[n]
  <2>1. TAKE m, n \in K
  <2>2. /\ pos[m] \in Int /\ pos[n] \in Int /\ pos[c] \in Int
        /\ pos[m] # pos[c] /\ pos[n] # pos[c]
    BY <1>1, <1>4
  <2>3. /\ q[m] = IF pos[m] > pos[c] THEN pos[m] - 1 ELSE pos[m]
        /\ q[n] = IF pos[n] > pos[c] THEN pos[n] - 1 ELSE pos[n]
    BY <1>q
  <2>4. QED
    BY <2>2, <2>3
<1>7. \A m, n \in K : q[m] = q[n] => m = n
  BY <1>6, <1>k DEF Chain
<1>8. ASSUME NEW n \in K \cup {head}
      PROVE  M[n] \in K \cup {tail} /\ R[M[n]] = n /\ q[M[n]] = q[n] + 1
  <2>1. CASE n = P[c]
    <3>1. M[n] = N[c] /\ R[N[c]] = n
      BY <1>k, <2>1, <1>2, <1>3, <1>m
    <3>2. q[N[c]] = pos[c]
      BY <1>k, <1>1, <1>2, <1>3, <1>4, <1>q
    <3>3. q[n] = pos[c] - 1
      BY <1>k, <2>1, <1>1, <1>2, <1>3, <1>4, <1>q
    <3>4. QED
      BY <1>k, <3>1, <3>2, <3>3, <1>3, <1>4
  <2>2. CASE n # P[c]
    <3>0. N[n] \in L \cup {tail} /\ P[N[n]] = n
      BY <1>k DEF Chain
    <3>1. M[n] = N[n] /\ N[n] \in L \cup {tail} /\ P[N[n]] = n
      BY <1>k, <2>2, <3>0, <1>2, <1>m
    <3>2. N[n] # c /\ N[n] # N[c]
      BY <1>k, <3>1, <2>2, <1>2, <1>3
    <3>3. R[N[n]] = n
      BY <1>k, <3>1, <3>2, <1>2, <1>m
    <3>4. pos[N[n]] = pos[n] + 1
      BY <1>k DEF Chain
    <3>5. q[N[n]] = q[n] + 1
      BY <1>k, <3>1, <3>2, <3>4, <1>1, <1>2, <1>4, <1>q
    <3>6. QED
      BY <1>k, <3>1, <3>2, <3>3, <3>5
  <2>3. QED
    BY <2>1, <2>2
<1>9. ASSUME NEW n \in K \cup {tail}
      PROVE  R[n] \in K \cup {head} /\ M[R[n]] = n
  <2>1. CASE n = N[c]
    BY <1>k, <2>1, <1>2, <1>3, <1>m
  <2>2. CASE n # N[c]
    <3>0. P[n] \in L \cup {head} /\ N[P[n]] = n
      BY <1>k DEF Chain
    <3>1. R[n] = P[n] /\ P[n] \in L \cup {head} /\ N[P[n]] = n
      BY <1>k, <2>2, <3>0, <1>2, <1>m
    <3>2. P[n] # c /\ P[n] # P[c]
      BY <1>k, <3>1, <2>2, <1>2, <1>3
    <3>3. QED
      BY <1>k, <3>1, <3>2, <1>2, <1>m
  <2>3. QED
    BY <2>1, <2>2
<1>10. Chain(K, M, R, q)
  BY <1>5, <1>7, <1>8, <1>9 DEF Chain
<1> QED
  BY <1>5, <1>6, <1>10 DEF K, M, R, SameOrder

\* On the chain q the line c stands right before what was at node at, the
\* lines L in the order they have on pos.
Threaded(L, pos, c, at, q) ==
  /\ SameOrder(L, pos, q)
  /\ \A m \in L :
       /\ q[m] < q[c] => pos[m] < pos[at]
       /\ q[c] < q[m] => pos[m] >= pos[at]

\* The four assignments of an insertion thread a new line into a chain right
\* in front of the node they name.
LEMMA LinkKeepsChain ==
  ASSUME NEW L \in SUBSET Lines,
         NEW N \in [Node -> Node \cup {NULL}],
         NEW P \in [Node -> Node \cup {NULL}],
         NEW pos \in [Node -> Node],
         Chain(L, N, P, pos),
         NEW c \in Lines, c \notin L,
         NEW at \in L \cup {tail}
  PROVE  \E q \in [Node -> Node] :
           /\ Chain(L \cup {c}, LinkNext(N, P, c, at), LinkPrev(P, c, at), q)
           /\ Threaded(L, pos, c, at, q)
<1> DEFINE K == L \cup {c}
           M == LinkNext(N, P, c, at)
           R == LinkPrev(P, c, at)
           q == [n \in Node |->
                   IF n = c THEN pos[at]
                   ELSE IF n \in L \cup {tail}
                   THEN IF pos[n] >= pos[at] THEN pos[n] + 1 ELSE pos[n]
                   ELSE 0]
<1>1. /\ Cardinality(L) \in 0 .. Associativity
      /\ Cardinality(K) = Cardinality(L) + 1
      /\ Cardinality(K) \in 0 .. Associativity
  <2>1. K \in SUBSET Lines
    OBVIOUS
  <2>2. QED
    BY <2>1, LinesCount, FS_AddElement
<1>n. 1 .. Cardinality(K) \subseteq Node /\ Cardinality(K) + 1 \in Node
  BY <1>1, Places
<1>2. /\ c \in Node /\ head \in Node /\ tail \in Node /\ at \in Node
      /\ L \subseteq Node /\ head \notin L /\ tail \notin L /\ head # tail
      /\ c # head /\ c # tail /\ c # at /\ at # head
      /\ Node \subseteq Int
  <2> HIDE DEF K, M, R, q
  <2>1. L \subseteq Node /\ head \notin L /\ tail \notin L /\ head # tail
    BY Nodes
  <2>2. c \in Node /\ c # head /\ c # tail /\ c # at
    BY Nodes
  <2>3. at \in Node /\ at # head
    BY <2>1, Nodes
  <2>4. Node \subseteq Int
    BY DEF Node
  <2>5. QED
    BY <2>1, <2>2, <2>3, <2>4, Nodes
<1>k. \A n : n \in K <=> n \in L \/ n = c
  OBVIOUS
<1> HIDE DEF K
<1>3. /\ P[at] \in L \cup {head} /\ N[P[at]] = at /\ P[at] # c /\ P[at] \in Node
      /\ pos[at] = pos[P[at]] + 1
  <2>1. P[at] \in L \cup {head} /\ N[P[at]] = at
    BY DEF Chain
  <2>2. pos[N[P[at]]] = pos[P[at]] + 1
    BY <2>1 DEF Chain
  <2>3. QED
    BY <2>1, <2>2, <1>2
<1>4. /\ pos[tail] = Cardinality(L) + 1
      /\ pos[head] = 0
      /\ \A n \in L : pos[n] \in 1 .. Cardinality(L)
      /\ pos[at] \in 1 .. Cardinality(L) + 1
  BY <1>1, <1>2 DEF Chain
<1>q. /\ q[head] = 0
      /\ q[c] = pos[at]
      /\ \A n \in L \cup {tail} :
           q[n] = IF pos[n] >= pos[at] THEN pos[n] + 1 ELSE pos[n]
      /\ \A n \in Node : n \notin K \cup {tail} => q[n] = 0
  BY <1>2, <1>k
<1>f. q = [n \in Node |-> q[n]]
  OBVIOUS
<1> HIDE DEF q
<1>5. /\ q \in [Node -> Node]
      /\ q[head] = 0
      /\ q[tail] = Cardinality(K) + 1
      /\ \A n \in K : q[n] \in 1 .. Cardinality(K)
  <2>1. ASSUME NEW n \in K PROVE q[n] \in 1 .. Cardinality(K)
    <3>1. CASE n = c
      BY <3>1, <1>1, <1>4, <1>q
    <3>2. CASE n \in L
      <4>1. q[n] = IF pos[n] >= pos[at] THEN pos[n] + 1 ELSE pos[n]
        BY <3>2, <1>q
      <4>2. pos[n] \in 1 .. Cardinality(L)
        BY <3>2, <1>4
      <4>3. QED
        BY <4>1, <4>2, <1>1, <1>4
    <3>3. QED
      BY <3>1, <3>2, <1>k
  <2>2. q[tail] = Cardinality(K) + 1
    BY <1>1, <1>q, <1>4
  <2>3. \A n \in Node : q[n] \in Node
    <3>1. TAKE n \in Node
    <3>2. CASE n \in K
      BY <3>2, <2>1, <1>n
    <3>3. CASE n = tail
      BY <3>3, <2>2, <1>n
    <3>4. CASE n \notin K \cup {tail}
      BY <3>4, <1>q, AssocAssumption DEF Node
    <3>5. QED
      BY <3>2, <3>3, <3>4
  <2>4. QED
    BY <1>f, <1>q, <2>1, <2>2, <2>3
<1>6. /\ \A m, n \in L :
           /\ q[m] = q[n] => pos[m] = pos[n]
           /\ q[m] < q[n] => pos[m] < pos[n]
      /\ \A m \in L :
           /\ q[m] < q[c] => pos[m] < pos[at]
           /\ q[c] < q[m] => pos[m] >= pos[at]
           /\ q[m] # q[c]
  <2>1. ASSUME NEW m \in L
        PROVE  /\ pos[m] \in Int /\ pos[at] \in Int
               /\ q[m] = IF pos[m] >= pos[at] THEN pos[m] + 1 ELSE pos[m]
    BY <1>1, <1>4, <1>q
  <2>2. \A m, n \in L :
          /\ q[m] = q[n] => pos[m] = pos[n]
          /\ q[m] < q[n] => pos[m] < pos[n]
    BY <2>1
  <2>3. \A m \in L :
          /\ q[m] < q[c] => pos[m] < pos[at]
          /\ q[c] < q[m] => pos[m] >= pos[at]
          /\ q[m] # q[c]
    BY <2>1, <1>q
  <2>4. QED
    BY <2>2, <2>3
<1>7. \A m, n \in K : q[m] = q[n] => m = n
  BY <1>6, <1>k DEF Chain
<1>8. /\ \A n \in Node : M[n] = IF n = P[at] THEN c
                                ELSE IF n = c THEN at ELSE N[n]
      /\ \A n \in Node : R[n] = IF n = at THEN c
                                ELSE IF n = c THEN P[at] ELSE P[n]
  BY <1>2, <1>3 DEF LinkNext, LinkPrev
<1> HIDE DEF M, R
<1>9. ASSUME NEW n \in K \cup {head}
      PROVE  M[n] \in K \cup {tail} /\ R[M[n]] = n /\ q[M[n]] = q[n] + 1
  <2>1. CASE n = P[at]
    <3>1. M[n] = c /\ R[c] = n
      BY <1>k, <2>1, <1>2, <1>3, <1>8
    <3>2. q[c] = q[n] + 1
      BY <1>k, <2>1, <1>1, <1>2, <1>3, <1>4, <1>q
    <3>3. QED
      BY <1>k, <3>1, <3>2
  <2>2. CASE n = c
    <3>1. M[n] = at /\ R[at] = n
      BY <1>k, <2>2, <1>2, <1>3, <1>8
    <3>2. q[at] = q[n] + 1
      BY <1>k, <2>2, <1>1, <1>2, <1>4, <1>q
    <3>3. QED
      BY <1>k, <3>1, <3>2
  <2>3. CASE n # P[at] /\ n # c
    <3>0. n \in L \cup {head}
      BY <2>3, <1>k
    <3>1. N[n] \in L \cup {tail} /\ P[N[n]] = n /\ pos[N[n]] = pos[n] + 1
      BY <3>0 DEF Chain
    <3>2. M[n] = N[n] /\ N[n] # at /\ N[n] # c
      BY <1>k, <2>3, <3>0, <3>1, <1>2, <1>3, <1>8
    <3>3. R[N[n]] = n
      BY <1>k, <3>1, <3>2, <1>2, <1>8
    <3>4. n \in L /\ P[at] \in L => pos[n] # pos[P[at]]
      BY <2>3 DEF Chain
    <3>a. \A m \in L : pos[m] # pos[head]
      BY <1>1, <1>4
    <3>5. n = head \/ P[at] = head => pos[n] # pos[P[at]]
      BY <2>3, <3>0, <3>a, <1>3
    <3>6. pos[n] # pos[P[at]] /\ pos[n] \in Int /\ pos[P[at]] \in Int
      BY <3>0, <3>4, <3>5, <1>2, <1>3
    <3>7. q[n] = IF pos[n] >= pos[at] THEN pos[n] + 1 ELSE pos[n]
      BY <2>3, <3>0, <1>1, <1>3, <1>4, <1>q
    <3>8. q[N[n]] = IF pos[N[n]] >= pos[at] THEN pos[N[n]] + 1 ELSE pos[N[n]]
      BY <3>1, <1>q
    <3>9. q[N[n]] = q[n] + 1
      BY <3>1, <3>6, <3>7, <3>8, <1>3
    <3>10. QED
      BY <1>k, <3>1, <3>2, <3>3, <3>9
  <2>4. QED
    BY <2>1, <2>2, <2>3
<1>10. ASSUME NEW n \in K \cup {tail}
       PROVE  R[n] \in K \cup {head} /\ M[R[n]] = n
  <2>1. CASE n = at \/ n = c
    BY <1>k, <2>1, <1>2, <1>3, <1>8
  <2>2. CASE n # at /\ n # c
    <3>0. n \in L \cup {tail}
      BY <2>2, <1>k
    <3>1. P[n] \in L \cup {head} /\ N[P[n]] = n
      BY <3>0 DEF Chain
    <3>2. R[n] = P[n] /\ P[n] # P[at] /\ P[n] # c
      BY <1>k, <2>2, <3>1, <1>2, <1>3, <1>8
    <3>3. QED
      BY <1>k, <3>1, <3>2, <1>2, <1>8
  <2>3. QED
    BY <2>1, <2>2
<1>11. Chain(K, M, R, q)
  BY <1>5, <1>7, <1>9, <1>10 DEF Chain
<1> QED
  BY <1>5, <1>6, <1>11 DEF K, M, R, Threaded, SameOrder

\* Place threads a line into a chain at a spot where, under LFU, the counters
\* F still descend when the line enters with its old count f or with f + 1.
LEMMA PlaceKeepsOrder ==
  ASSUME NEW L \in SUBSET Lines,
         NEW N \in [Node -> Node \cup {NULL}],
         NEW P \in [Node -> Node \cup {NULL}],
         NEW pos \in [Node -> Node],
         Chain(L, N, P, pos),
         freq \in [Node -> Nat],
         Policy = LFU => Descending(L, freq, pos),
         NEW c \in Lines, c \notin L,
         NEW f \in Nat,
         Place(c, L, N, P, f),
         NEW F \in [Node -> Nat],
         \A m \in L : F[m] = freq[m],
         F[c] \in {f, f + 1}
  PROVE  /\ next' \in [Node -> Node \cup {NULL}]
         /\ prev' \in [Node -> Node \cup {NULL}]
         /\ \E q \in [Node -> Node] :
              /\ Chain(L \cup {c}, next', prev', q)
              /\ Policy = LFU => Descending(L \cup {c}, F, q)
<1>1. PICK at \in L \cup {tail} :
        /\ \/ Policy = LRU /\ FrontAt(N, at)
           \/ Policy = LFU /\ LFUAt(P, f, at)
        /\ next' = LinkNext(N, P, c, at)
        /\ prev' = LinkPrev(P, c, at)
  BY DEF Place
<1>a. at \in L \cup {tail}
  BY <1>1
<1>b. next' = LinkNext(N, P, c, at) /\ prev' = LinkPrev(P, c, at)
  BY <1>1
<1>2. at \in Node /\ c \in Node /\ L \subseteq Node /\ head \in Node
  BY <1>a, Nodes
<1>3. P[at] \in L \cup {head} /\ P[at] \in Node
  BY <1>a, <1>2 DEF Chain
<1>4. /\ next' \in [Node -> Node \cup {NULL}]
      /\ prev' \in [Node -> Node \cup {NULL}]
  BY <1>1, <1>2, <1>3 DEF LinkNext, LinkPrev
<1>5. PICK q \in [Node -> Node] :
        /\ Chain(L \cup {c}, next', prev', q)
        /\ Threaded(L, pos, c, at, q)
  <2>1. \E q \in [Node -> Node] :
           /\ Chain(L \cup {c}, LinkNext(N, P, c, at), LinkPrev(P, c, at), q)
           /\ Threaded(L, pos, c, at, q)
    BY <1>a, LinkKeepsChain
  <2>2. QED
    BY <2>1, <1>b, Zenon
<1>6. ASSUME Policy = LFU
      PROVE  Descending(L \cup {c}, F, q)
  <2>1. freq[at] <= f /\ (P[at] = head \/ freq[P[at]] > f)
    BY <1>1, <1>6 DEF LFUAt, LRU, LFU
  <2>2. Descending(L, freq, pos)
    BY <1>6
  <2>3. \A m \in L : pos[m] \in Int /\ freq[m] \in Nat
    BY <1>2 DEF Node
  <2>4. pos[at] = pos[P[at]] + 1 /\ pos[at] \in Int /\ pos[P[at]] \in Int
    <3>1. pos[at] \in Int /\ pos[P[at]] \in Int
      BY <1>2, <1>3 DEF Node
    <3>2. (P[at] \in L \cup {head}) /\ N[P[at]] = at
      BY <1>1 DEF Chain
    <3>3. pos[N[P[at]]] = pos[P[at]] + 1
      BY <3>2 DEF Chain
    <3>4. QED
      BY <3>1, <3>2, <3>3
  <2>5. ASSUME NEW m \in L, pos[m] < pos[at]
        PROVE  freq[m] > f
    <3>1. pos[m] > 0 /\ pos[head] = 0
      <4>1. pos[m] \in 1 .. Cardinality(L) /\ pos[head] = 0
        BY DEF Chain
      <4>2. Cardinality(L) \in Nat
        BY LinesCount
      <4>3. QED
        BY <4>1, <4>2
    <3>2. P[at] \in L
      BY <3>1, <2>3, <2>4, <2>5, <1>3
    <3>3. CASE m = P[at]
      BY <3>1, <3>2, <3>3, <2>1, <2>4, <2>5
    <3>4. CASE m # P[at]
      <4>1. pos[m] # pos[P[at]]
        BY <3>2, <3>4 DEF Chain
      <4>2. pos[m] < pos[P[at]]
        BY <4>1, <2>3, <2>4, <2>5
      <4>3. freq[m] >= freq[P[at]]
        BY <4>2, <3>2, <2>2 DEF Descending
      <4>4. freq[P[at]] > f
        BY <3>1, <3>2, <4>2, <2>1, <2>3
      <4>5. QED
        BY <4>3, <4>4, <3>2, <2>3
    <3>5. QED
      BY <3>3, <3>4
  <2>6. ASSUME NEW m \in L, pos[m] >= pos[at]
        PROVE  freq[m] <= f
    <3>1. CASE at = tail
      <4>1. pos[m] \in 1 .. Cardinality(L) /\ pos[tail] = Cardinality(L) + 1
        BY DEF Chain
      <4>2. Cardinality(L) \in Nat
        BY LinesCount
      <4>3. QED
        BY <4>1, <4>2, <3>1, <2>6
    <3>2. CASE at \in L
      <4>1. pos[m] = pos[at] => m = at
        BY <3>2 DEF Chain
      <4>2. freq[at] >= freq[m]
        BY <4>1, <3>2, <2>2, <2>3, <2>6 DEF Descending
      <4>3. QED
        BY <4>2, <3>2, <2>1, <2>3
    <3>3. QED
      BY <3>1, <3>2, <1>1
  <2>7. ASSUME NEW m \in L \cup {c}, NEW n \in L \cup {c}, q[m] < q[n]
        PROVE  F[m] >= F[n]
    <3>1. q[m] \in Int /\ q[n] \in Int
      <4>1. m \in Node /\ n \in Node
        BY <1>2
      <4>2. \A x \in Node : q[x] \in Node /\ Node \subseteq Int
        BY <1>5, Nodes
      <4>3. QED
        BY <4>1, <4>2
    <3>2. CASE m \in L /\ n \in L
      BY <3>2, <2>2, <2>7, <1>5 DEF Descending, Threaded, SameOrder
    <3>3. CASE m = c /\ n \in L
      BY <3>3, <2>3, <2>6, <2>7, <1>5 DEF Threaded
    <3>4. CASE m \in L /\ n = c
      BY <3>4, <2>3, <2>5, <2>7, <1>5 DEF Threaded
    <3>5. QED
      BY <3>1, <3>2, <3>3, <3>4, <2>7
  <2>8. QED
    BY <2>7 DEF Descending
<1>7. QED
  BY <1>4, <1>5, <1>6

-----------------------------------------------------------------------------
(* The inductive invariant. *)

\* A line in use holds a tag.
ResidentsNamed == \A c \in busy : addr[c] \in Addr

\* What the operations preserve together: HitsAreResident needs the pool and
\* the chain to agree, the chain needs the lines that the map leads to.
IInv ==
  /\ TypeOK
  /\ ChainedInOrder
  /\ ResidentsNamed
  /\ HitsAreResident
  /\ ResidentsHit

\* An empty set has a chain from the head straight to the tail.
LEMMA InitChained == Init => ChainedInOrder
<1> SUFFICES ASSUME Init PROVE ChainedInOrder
  OBVIOUS
<1> DEFINE q == [n \in Node |-> IF n = tail THEN 1 ELSE 0]
<1>1. busy = {}
  BY DEF Init, busy
<1>2. Cardinality({}) = 0
  BY FS_EmptySet
<1>3. q \in [Node -> Node]
  BY AssocAssumption DEF Node
<1>4. Chain({}, next, prev, q)
  BY <1>2, Nodes DEF Init, Chain
<1>5. Descending({}, freq, q)
  BY DEF Descending
<1>6. QED
  BY <1>1, <1>3, <1>4, <1>5 DEF ChainedInOrder

LEMMA InitIInv == Init => IInv
<1> SUFFICES ASSUME Init PROVE IInv
  OBVIOUS
<1>1. busy = {}
  BY DEF Init, busy
<1>2. TypeOK
  BY Nodes, FreqAssumption DEF Init, TypeOK
<1>3. ResidentsNamed /\ HitsAreResident /\ ResidentsHit
  BY <1>1 DEF Init, ResidentsNamed, HitsAreResident, ResidentsHit
<1>4. QED
  BY <1>2, <1>3, InitChained DEF IInv

\* What the invariant says of the line c that a hit or a victim names, once
\* deleteNode has taken it out of the list.
LEMMA AfterUnlink ==
  ASSUME TypeOK, ChainedInOrder, NEW c \in busy
  PROVE  /\ UnlinkNext(c) \in [Node -> Node \cup {NULL}]
         /\ UnlinkPrev(c) \in [Node -> Node \cup {NULL}]
         /\ \E q \in [Node -> Node] :
              /\ Chain(busy \ {c}, UnlinkNext(c), UnlinkPrev(c), q)
              /\ Policy = LFU => Descending(busy \ {c}, freq, q)
<1>1. PICK pos \in [Node -> Node] :
        /\ Chain(busy, next, prev, pos)
        /\ Policy = LFU => Descending(busy, freq, pos)
  BY DEF ChainedInOrder
<1>2. busy \in SUBSET Lines /\ c \in Node
  BY Nodes DEF busy
<1>3. /\ next \in [Node -> Node \cup {NULL}]
      /\ prev \in [Node -> Node \cup {NULL}]
  BY DEF TypeOK
<1>4. /\ UnlinkNext(c) \in [Node -> Node \cup {NULL}]
      /\ UnlinkPrev(c) \in [Node -> Node \cup {NULL}]
  BY <1>2, <1>3 DEF UnlinkNext, UnlinkPrev
<1>5. PICK q \in [Node -> Node] :
        /\ Chain(busy \ {c}, UnlinkNext(c), UnlinkPrev(c), q)
        /\ SameOrder(busy \ {c}, pos, q)
  BY <1>1, <1>2, <1>3, UnlinkKeepsChain DEF UnlinkNext, UnlinkPrev
<1>6. Policy = LFU => Descending(busy \ {c}, freq, q)
  BY <1>1, <1>5 DEF Descending, SameOrder
<1>7. QED
  BY <1>4, <1>5, <1>6

\* Halving every counter of a descending list leaves it descending.
LEMMA HalvingKeepsOrder ==
  ASSUME NEW L, NEW pos, NEW F, NEW G,
         \A n \in L : F[n] \in Nat /\ G[n] = F[n] \div 2,
         Descending(L, F, pos)
  PROVE  Descending(L, G, pos)
BY DEF Descending

\* A hit moves its line and counts the use, or halves all counters.
LEMMA AccessStep ==
  ASSUME IInv, NEW a \in Addr, NEW isLoad \in BOOLEAN, Access(a, isLoad)
  PROVE  IInv'
<1> DEFINE c == addr_map[a]
           F == [freq EXCEPT ![c] = @ + 1]
<1>1. /\ TypeOK /\ ChainedInOrder /\ ResidentsNamed
      /\ HitsAreResident /\ ResidentsHit
  BY DEF IInv
<1>2. c \in busy /\ c \in Lines /\ c \in Node /\ busy \subseteq Lines
  BY <1>1, Nodes DEF Access, HitsAreResident, busy
<1>3. /\ UNCHANGED <<free, addr_map, addr>>
      /\ busy' = busy
      /\ evicted' = NULL
      /\ dirty' = [dirty EXCEPT ![c] = @ \/ ~isLoad]
      /\ freq' = Counted(c)
      /\ Place(c, busy \ {c}, UnlinkNext(c), UnlinkPrev(c), freq[c])
  BY DEF Access, busy
<1> HIDE DEF c
<1>4. freq \in [Node -> 0 .. MaxFreq - 1] /\ freq \in [Node -> Nat]
  BY <1>1 DEF TypeOK
<1>5. /\ F \in [Node -> Nat]
      /\ F[c] = freq[c] + 1
      /\ \A m \in busy \ {c} : F[m] = freq[m]
      /\ \A n \in Node : F[n] \in 0 .. MaxFreq
      /\ \A n \in Node : n # c => F[n] \in 0 .. MaxFreq - 1
  BY <1>2, <1>4, FreqAssumption
<1> HIDE DEF F
<1>6. PICK p \in [Node -> Node] :
        /\ Chain(busy \ {c}, UnlinkNext(c), UnlinkPrev(c), p)
        /\ Policy = LFU => Descending(busy \ {c}, freq, p)
  BY <1>1, <1>2, AfterUnlink
<1>7. /\ UnlinkNext(c) \in [Node -> Node \cup {NULL}]
      /\ UnlinkPrev(c) \in [Node -> Node \cup {NULL}]
  BY <1>1, <1>2, AfterUnlink
<1>8. (busy \ {c}) \cup {c} = busy /\ busy \ {c} \in SUBSET Lines
  BY <1>2
<1>9. /\ next' \in [Node -> Node \cup {NULL}]
      /\ prev' \in [Node -> Node \cup {NULL}]
      /\ \E q \in [Node -> Node] :
           /\ Chain((busy \ {c}) \cup {c}, next', prev', q)
           /\ Policy = LFU => Descending((busy \ {c}) \cup {c}, F, q)
  <2>1. freq[c] \in Nat /\ F[c] \in {freq[c], freq[c] + 1}
    BY <1>2, <1>4, <1>5
  <2>2. QED
    BY <1>2, <1>3, <1>4, <1>5, <1>6, <1>7, <1>8, <2>1, PlaceKeepsOrder
<1>10. PICK q \in [Node -> Node] :
         /\ Chain(busy, next', prev', q)
         /\ Policy = LFU => Descending(busy, F, q)
  BY <1>8, <1>9
<1>11. freq' \in [Node -> 0 .. MaxFreq - 1]
       /\ (Policy = LFU => Descending(busy, freq', q))
  <2>1. CASE F[c] = MaxFreq
    <3>1. freq' = [n \in Node |-> IF n \in busy THEN F[n] \div 2 ELSE F[n]]
      BY <1>3, <2>1 DEF Counted, Decay, F
    <3>2. \A n \in Node : freq'[n] \in 0 .. MaxFreq - 1
      BY <3>1, <1>2, <1>5, FreqAssumption
    <3>3. freq' \in [Node -> 0 .. MaxFreq - 1]
      BY <3>1, <3>2
    <3>4. \A n \in busy : F[n] \in Nat /\ freq'[n] = F[n] \div 2
      BY <3>1, <1>2, <1>5, Nodes
    <3>5. QED
      BY <3>3, <3>4, <1>10, HalvingKeepsOrder
  <2>2. CASE F[c] # MaxFreq
    <3>1. freq' = F
      BY <1>3, <2>2 DEF Counted, F
    <3>2. \A n \in Node : F[n] \in 0 .. MaxFreq - 1
      BY <2>2, <1>5, FreqAssumption
    <3>3. QED
      BY <3>1, <3>2, <1>5, <1>10
  <2>3. QED
    BY <2>1, <2>2
<1>12. TypeOK'
  <2>1. dirty' \in [Lines -> BOOLEAN]
    BY <1>1, <1>3 DEF TypeOK
  <2>2. QED
    BY <1>1, <1>3, <1>9, <1>11, <2>1 DEF TypeOK
<1>13. ChainedInOrder'
  BY <1>3, <1>10, <1>11 DEF ChainedInOrder
<1>14. ResidentsNamed' /\ HitsAreResident' /\ ResidentsHit'
  BY <1>1, <1>3 DEF ResidentsNamed, HitsAreResident, ResidentsHit
<1>15. QED
  BY <1>12, <1>13, <1>14 DEF IInv

\* Filling an unused line adds it to the chain and to the map.
LEMMA InsertFreeStep ==
  ASSUME IInv, NEW a \in Addr, NEW isLoad \in BOOLEAN, InsertFree(a, isLoad)
  PROVE  IInv'
<1>1. /\ TypeOK /\ ChainedInOrder /\ ResidentsNamed
      /\ HitsAreResident /\ ResidentsHit
  BY DEF IInv
<1>2. PICK c \in free :
        /\ free' = free \ {c}
        /\ addr_map' = [addr_map EXCEPT ![a] = c]
        /\ Fill(c, a, isLoad)
        /\ Place(c, busy, next, prev, 0)
  BY DEF InsertFree
<1>3. MayInsert(a) /\ evicted' = NULL
  BY DEF InsertFree
<1>4. /\ c \in Lines /\ c \in Node /\ c \notin busy
      /\ busy \in SUBSET Lines
      /\ busy' = busy \cup {c}
      /\ free' \in SUBSET Lines
  BY <1>1, <1>2, Nodes DEF TypeOK, busy
<1>5. freq \in [Node -> 0 .. MaxFreq - 1] /\ freq \in [Node -> Nat]
  BY <1>1 DEF TypeOK
<1>6. /\ addr' = [addr EXCEPT ![c] = a]
      /\ dirty' = [dirty EXCEPT ![c] = ~isLoad]
      /\ freq' = [freq EXCEPT ![c] = 0]
  BY <1>2 DEF Fill
<1>7. PICK pos \in [Node -> Node] :
        /\ Chain(busy, next, prev, pos)
        /\ Policy = LFU => Descending(busy, freq, pos)
  BY <1>1 DEF ChainedInOrder
<1>8. freq' \in [Node -> 0 .. MaxFreq - 1] /\ freq' \in [Node -> Nat]
  BY <1>4, <1>5, <1>6, FreqAssumption
<1>9. freq'[c] \in {0, 0 + 1} /\ \A m \in busy : freq'[m] = freq[m]
  BY <1>4, <1>5, <1>6, Nodes
<1>10. /\ next' \in [Node -> Node \cup {NULL}]
       /\ prev' \in [Node -> Node \cup {NULL}]
       /\ \E q \in [Node -> Node] :
            /\ Chain(busy \cup {c}, next', prev', q)
            /\ Policy = LFU => Descending(busy \cup {c}, freq', q)
  <2>1. /\ next \in [Node -> Node \cup {NULL}]
        /\ prev \in [Node -> Node \cup {NULL}]
    BY <1>1 DEF TypeOK
  <2>2. Place(c, busy, next, prev, 0)
    BY <1>2
  <2>3. QED
    BY <1>4, <1>5, <1>7, <1>8, <1>9, <2>1, <2>2, PlaceKeepsOrder
<1>11. TypeOK'
  BY <1>1, <1>2, <1>3, <1>4, <1>6, <1>8, <1>10 DEF TypeOK
<1>12. ChainedInOrder'
  BY <1>4, <1>10 DEF ChainedInOrder
<1>13. /\ addr_map'[a] = c /\ addr'[c] = a
       /\ \A b \in Addr : b # a => addr_map'[b] = addr_map[b]
       /\ \A l \in busy : addr'[l] = addr[l] /\ l # c
  BY <1>1, <1>2, <1>4, <1>6 DEF TypeOK
<1>14. ResidentsNamed'
  BY <1>1, <1>4, <1>13 DEF ResidentsNamed
<1>15. HitsAreResident'
  BY <1>1, <1>4, <1>13 DEF HitsAreResident
<1>16. ResidentsHit'
  <2>1. SUFFICES ASSUME InsertAfterMissOnly
                 PROVE  \A l \in busy' : addr'[l] \in Addr
                                         /\ addr_map'[addr'[l]] = l
    BY DEF ResidentsHit
  <2>2. addr_map[a] = NULL
    BY <1>3, <2>1 DEF MayInsert
  <2>3. \A l \in busy : addr[l] \in Addr /\ addr_map[addr[l]] = l
    BY <1>1, <2>1 DEF ResidentsHit
  <2>4. \A l \in busy : l # NULL
    BY <1>4, Nodes, NullAssumption
  <2>5. QED
    BY <1>4, <1>13, <2>2, <2>3, <2>4
<1>17. QED
  BY <1>11, <1>12, <1>14, <1>15, <1>16 DEF IInv

\* A full set has a victim, the line at the end of the chain; under LFU no
\* line in use was used less often.
LEMMA VictimIsLast ==
  ASSUME TypeOK, ChainedInOrder
  PROVE  /\ VictimExists
         /\ prev[tail] \in busy \cup {head}
         /\ Policy = LFU /\ prev[tail] \in busy =>
              \A m \in busy : freq[prev[tail]] <= freq[m]
<1> DEFINE v == prev[tail]
<1>1. PICK pos \in [Node -> Node] :
        /\ Chain(busy, next, prev, pos)
        /\ Policy = LFU => Descending(busy, freq, pos)
  BY DEF ChainedInOrder
<1>2. busy \in SUBSET Lines
  BY DEF busy
<1>a. \A n \in busy \cup {tail} : prev[n] \in busy \cup {head}
                                  /\ next[prev[n]] = n
  BY <1>1 DEF Chain
<1>3. v \in busy \cup {head} /\ next[v] = tail
  BY <1>a
<1>4. pos[next[v]] = pos[v] + 1
  BY <1>1, <1>3 DEF Chain
<1>5. pos[tail] = Cardinality(busy) + 1 /\ pos[head] = 0
  BY <1>1 DEF Chain
<1>6. Cardinality(busy) \in Nat
  BY <1>2, LinesCount
<1>7. \A m \in busy : pos[m] \in 1 .. Cardinality(busy)
  BY <1>1 DEF Chain
<1>b. v \in Node
  BY <1>2, <1>3, Nodes
<1>c. Node \subseteq Int
  BY Nodes
<1>8. pos[v] \in Int
  BY <1>b, <1>c
<1> HIDE DEF v
<1>9. pos[v] = Cardinality(busy)
  BY <1>3, <1>4, <1>5, <1>6, <1>8
<1>10. ASSUME free = {} PROVE v # head
  <2>1. busy = Lines
    BY <1>10 DEF busy
  <2>2. Cardinality(Lines) = Associativity
    BY FS_Interval, AssocAssumption DEF Lines
  <2>3. QED
    BY <2>1, <2>2, <1>5, <1>9, AssocAssumption
<1>11. ASSUME Policy = LFU, v \in busy, NEW m \in busy
       PROVE  freq[v] <= freq[m]
  <2>1. freq[v] \in Nat /\ freq[m] \in Nat
    BY <1>2, <1>11, Nodes DEF TypeOK
  <2>2. CASE m = v
    BY <2>1, <2>2
  <2>3. CASE m # v
    <3>1. pos[m] # pos[v]
      BY <1>1, <1>11, <2>3 DEF Chain
    <3>2. pos[m] < pos[v]
      BY <3>1, <1>6, <1>7, <1>9
    <3>3. QED
      BY <3>2, <2>1, <1>1, <1>11 DEF Descending
  <2>4. QED
    BY <2>2, <2>3
<1>12. QED
  BY <1>3, <1>10, <1>11 DEF VictimExists, v

\* Replacing the victim takes it out of the chain and the map, and puts the
\* same line back under its new tag.
LEMMA InsertEvictStep ==
  ASSUME IInv, NEW a \in Addr, NEW isLoad \in BOOLEAN, InsertEvict(a, isLoad)
  PROVE  IInv'
<1> DEFINE c == prev[tail]
<1>1. /\ TypeOK /\ ChainedInOrder /\ ResidentsNamed
      /\ HitsAreResident /\ ResidentsHit
  BY DEF IInv
<1>2. /\ MayInsert(a)
      /\ c # head
      /\ addr_map' = [addr_map EXCEPT ![addr[c]] = NULL, ![a] = c]
      /\ evicted' = [addr |-> addr[c], dirty |-> dirty[c]]
      /\ Fill(c, a, isLoad)
      /\ Place(c, busy \ {c}, UnlinkNext(c), UnlinkPrev(c), 0)
      /\ free' = free
  BY DEF InsertEvict
<1>3. c \in busy
  BY <1>1, <1>2, VictimIsLast
<1> HIDE DEF c
<1>4. /\ c \in Lines /\ c \in Node
      /\ busy \in SUBSET Lines
      /\ busy' = busy
      /\ (busy \ {c}) \cup {c} = busy /\ busy \ {c} \in SUBSET Lines
  BY <1>2, <1>3, Nodes DEF busy
<1>5. freq \in [Node -> 0 .. MaxFreq - 1] /\ freq \in [Node -> Nat]
  BY <1>1 DEF TypeOK
<1>6. /\ addr' = [addr EXCEPT ![c] = a]
      /\ dirty' = [dirty EXCEPT ![c] = ~isLoad]
      /\ freq' = [freq EXCEPT ![c] = 0]
  BY <1>2 DEF Fill
<1>7. PICK p \in [Node -> Node] :
        /\ Chain(busy \ {c}, UnlinkNext(c), UnlinkPrev(c), p)
        /\ Policy = LFU => Descending(busy \ {c}, freq, p)
  BY <1>1, <1>3, AfterUnlink
<1>8. /\ UnlinkNext(c) \in [Node -> Node \cup {NULL}]
      /\ UnlinkPrev(c) \in [Node -> Node \cup {NULL}]
  BY <1>1, <1>3, AfterUnlink
<1>9. freq' \in [Node -> 0 .. MaxFreq - 1] /\ freq' \in [Node -> Nat]
  BY <1>4, <1>5, <1>6, FreqAssumption
<1>10. freq'[c] \in {0, 0 + 1} /\ \A m \in busy \ {c} : freq'[m] = freq[m]
  BY <1>4, <1>5, <1>6, Nodes
<1>11. /\ next' \in [Node -> Node \cup {NULL}]
       /\ prev' \in [Node -> Node \cup {NULL}]
       /\ \E q \in [Node -> Node] :
            /\ Chain((busy \ {c}) \cup {c}, next', prev', q)
            /\ Policy = LFU => Descending((busy \ {c}) \cup {c}, freq', q)
  <2>1. Place(c, busy \ {c}, UnlinkNext(c), UnlinkPrev(c), 0)
    BY <1>2
  <2>2. QED
    BY <1>4, <1>5, <1>7, <1>8, <1>9, <1>10, <2>1, PlaceKeepsOrder
<1>12. addr[c] \in Addr
  BY <1>1, <1>3 DEF ResidentsNamed
<1>13. /\ addr_map'[a] = c /\ addr'[c] = a
       /\ \A b \in Addr : b # a => addr_map'[b] = IF b = addr[c] THEN NULL
                                                   ELSE addr_map[b]
       /\ \A l \in busy : l # c => addr'[l] = addr[l]
  BY <1>1, <1>2, <1>4, <1>6 DEF TypeOK
<1>14. TypeOK'
  <2>1. /\ addr_map' \in [Addr -> Lines \cup {NULL}]
        /\ addr' \in [Lines -> Addr \cup {NULL}]
        /\ dirty' \in [Lines -> BOOLEAN]
        /\ evicted' \in [addr : Addr, dirty : BOOLEAN]
    BY <1>1, <1>2, <1>4, <1>6, <1>12 DEF TypeOK
  <2>2. QED
    BY <1>1, <1>2, <1>9, <1>11, <2>1 DEF TypeOK
<1>15. ChainedInOrder'
  <2>1. PICK q \in [Node -> Node] :
          /\ Chain(busy, next', prev', q)
          /\ Policy = LFU => Descending(busy, freq', q)
    BY <1>4, <1>11
  <2>2. QED
    BY <1>4, <2>1 DEF ChainedInOrder
<1>16. ResidentsNamed'
  BY <1>1, <1>4, <1>13 DEF ResidentsNamed
<1>17. HitsAreResident'
  BY <1>1, <1>3, <1>4, <1>13 DEF HitsAreResident
<1>18. ResidentsHit'
  <2>1. SUFFICES ASSUME InsertAfterMissOnly
                 PROVE  \A l \in busy' : addr'[l] \in Addr
                                         /\ addr_map'[addr'[l]] = l
    BY DEF ResidentsHit
  <2>2. addr_map[a] = NULL
    BY <1>2, <2>1 DEF MayInsert
  <2>3. \A l \in busy : addr[l] \in Addr /\ addr_map[addr[l]] = l
    BY <1>1, <2>1 DEF ResidentsHit
  <2>4. \A l \in busy : l # NULL
    BY <1>4, Nodes, NullAssumption
  <2>5. QED
    BY <1>3, <1>4, <1>13, <2>2, <2>3, <2>4
<1>19. QED
  BY <1>14, <1>15, <1>16, <1>17, <1>18 DEF IInv

\* A shootdown by tag takes the line that the tag leads to out of the chain,
\* out of the map and back into the pool.
LEMMA EvictStep ==
  ASSUME IInv, NEW a \in Addr, Evict(a)
  PROVE  IInv'
<1> DEFINE c == addr_map[a]
<1>1. /\ TypeOK /\ ChainedInOrder /\ ResidentsNamed
      /\ HitsAreResident /\ ResidentsHit
  BY DEF IInv
<1>2. /\ c # NULL
      /\ addr_map' = [addr_map EXCEPT ![addr[c]] = NULL]
      /\ evicted' = [addr |-> a, dirty |-> dirty[c]]
      /\ next' = UnlinkNext(c)
      /\ prev' = UnlinkPrev(c)
      /\ free' = free \cup {c}
      /\ UNCHANGED <<addr, freq, dirty>>
  BY DEF Evict
<1>3. c \in busy /\ addr[c] = a
  BY <1>1, <1>2 DEF HitsAreResident
<1> HIDE DEF c
<1>4. /\ c \in Lines
      /\ busy \in SUBSET Lines
      /\ busy' = busy \ {c}
      /\ free' \in SUBSET Lines
  BY <1>1, <1>2, <1>3 DEF busy, TypeOK
<1>5. PICK p \in [Node -> Node] :
        /\ Chain(busy \ {c}, UnlinkNext(c), UnlinkPrev(c), p)
        /\ Policy = LFU => Descending(busy \ {c}, freq, p)
  BY <1>1, <1>3, AfterUnlink
<1>6. /\ UnlinkNext(c) \in [Node -> Node \cup {NULL}]
      /\ UnlinkPrev(c) \in [Node -> Node \cup {NULL}]
  BY <1>1, <1>3, AfterUnlink
<1>7. TypeOK'
  BY <1>1, <1>2, <1>4, <1>6 DEF TypeOK
<1>8. ChainedInOrder'
  BY <1>2, <1>4, <1>5 DEF ChainedInOrder
<1>9. /\ addr_map'[a] = NULL
      /\ \A b \in Addr : b # a => addr_map'[b] = addr_map[b]
  BY <1>1, <1>2, <1>3 DEF TypeOK
<1>10. ResidentsNamed'
  BY <1>1, <1>2, <1>4 DEF ResidentsNamed
<1>11. HitsAreResident'
  BY <1>1, <1>2, <1>3, <1>4, <1>9 DEF HitsAreResident
<1>12. ResidentsHit'
  <2>1. SUFFICES ASSUME InsertAfterMissOnly
                 PROVE  \A l \in busy' : addr'[l] \in Addr
                                         /\ addr_map'[addr'[l]] = l
    BY DEF ResidentsHit
  <2>2. \A l \in busy : addr[l] \in Addr /\ addr_map[addr[l]] = l
    BY <1>1, <2>1 DEF ResidentsHit
  <2>3. addr_map[a] = c
    BY DEF c
  <2>4. QED
    BY <1>2, <1>4, <1>9, <2>2, <2>3
<1>13. QED
  BY <1>7, <1>8, <1>10, <1>11, <1>12 DEF IInv

\* A flush leaves the empty chain and the empty map.
LEMMA FlushStep ==
  ASSUME IInv, Flush
  PROVE  IInv'
<1> DEFINE q == [n \in Node |-> IF n = tail THEN 1 ELSE 0]
<1>1. /\ TypeOK /\ ChainedInOrder /\ ResidentsNamed
      /\ HitsAreResident /\ ResidentsHit
  BY DEF IInv
<1>2. busy' = {} /\ freq' = freq
  BY DEF Flush, busy
<1>3. /\ next' \in [Node -> Node \cup {NULL}]
      /\ prev' \in [Node -> Node \cup {NULL}]
      /\ addr_map' \in [Addr -> Lines \cup {NULL}]
      /\ next'[head] = tail /\ prev'[tail] = head
  BY <1>1, Nodes DEF Flush, TypeOK
<1>4. TypeOK'
  BY <1>1, <1>3 DEF Flush, TypeOK
<1>5. Cardinality({}) = 0
  BY FS_EmptySet
<1>6. q \in [Node -> Node]
  BY AssocAssumption DEF Node
<1>7. Chain({}, next', prev', q)
  BY <1>3, <1>5, Nodes DEF Chain
<1>8. Descending({}, freq', q)
  BY DEF Descending
<1>9. ChainedInOrder'
  BY <1>2, <1>6, <1>7, <1>8 DEF ChainedInOrder
<1>10. \A b \in Addr : addr_map'[b] = NULL
  BY <1>1 DEF Flush, HitsAreResident
<1>11. ResidentsNamed' /\ HitsAreResident' /\ ResidentsHit'
  BY <1>2, <1>10 DEF ResidentsNamed, HitsAreResident, ResidentsHit
<1>12. QED
  BY <1>4, <1>9, <1>11 DEF IInv

-----------------------------------------------------------------------------
(* The theorems. *)

\* IInv holds of every reachable state, for every number of lines, every set
\* of tags, both policies, and clients that insert present tags or do not.
THEOREM SetInvariant == Spec => []IInv
<1>1. IInv /\ [Next]_vars => IInv'
  <2> SUFFICES ASSUME IInv, [Next]_vars PROVE IInv'
    OBVIOUS
  <2>1. ASSUME NEW a \in Addr, NEW isLoad \in Kinds, Access(a, isLoad)
        PROVE  IInv'
    BY <2>1, AccessStep, ClientAssumption
  <2>2. ASSUME NEW a \in Addr, NEW isLoad \in Kinds, InsertFree(a, isLoad)
        PROVE  IInv'
    BY <2>2, InsertFreeStep, ClientAssumption
  <2>3. ASSUME NEW a \in Addr, NEW isLoad \in Kinds, InsertEvict(a, isLoad)
        PROVE  IInv'
    BY <2>3, InsertEvictStep, ClientAssumption
  <2>4. ASSUME NEW a \in Addr, Evict(a)
        PROVE  IInv'
    BY <2>4, EvictStep
  <2>5. CASE Flush
    BY <2>5, FlushStep
  <2>6. CASE UNCHANGED vars
    BY <2>6 DEF vars, IInv, TypeOK, ChainedInOrder, ResidentsNamed,
                HitsAreResident, ResidentsHit, busy
  <2>7. QED
    BY <2>1, <2>2, <2>3, <2>4, <2>5, <2>6 DEF Next
<1>2. QED
  BY <1>1, InitIInv, PTL DEF Spec

\* The lines in use form one chain, ordered by use under LFU, at all times.
THEOREM SetChained == Spec => []ChainedInOrder
<1>1. IInv => ChainedInOrder
  BY DEF IInv
<1>2. QED
  BY <1>1, SetInvariant, PTL

\* The types of CacheSet; in particular no counter of a set ever rests at
\* MAX_FREQ, so the equality test that triggers the decay never misses it.
THEOREM SetTypes == Spec => []TypeOK
<1>1. IInv => TypeOK
  BY DEF IInv
<1>2. QED
  BY <1>1, SetInvariant, PTL

\* Every tag that hits leads to a resident line with this tag.
THEOREM SetHitsAreResident == Spec => []HitsAreResident
<1>1. IInv => HitsAreResident
  BY DEF IInv
<1>2. QED
  BY <1>1, SetInvariant, PTL

\* With a client that inserts after a miss only, no resident line is out of reach
\* of its tag: each can be hit and shot down.
THEOREM SetResidentsHit == Spec => []ResidentsHit
<1>1. IInv => ResidentsHit
  BY DEF IInv
<1>2. QED
  BY <1>1, SetInvariant, PTL

\* The assertion of insert() never fails under policies 0 and 2.
THEOREM SetVictimExists == Spec => []VictimExists
<1>1. IInv => VictimExists
  BY VictimIsLast DEF IInv
<1>2. QED
  BY <1>1, SetInvariant, PTL

\* Under LFU the line that insert() gives a new tag was used no more often than
\* any other resident line: no other step overwrites a tag of a full set.
THEOREM SetVictimIsLeastUsed == Spec => VictimIsLeastUsed
<1> DEFINE Fair(v) == \A c \in busy : freq[v] <= freq[c]
           Changed(v) == /\ Policy = LFU
                         /\ free = {}
                         /\ free' = {}
                         /\ addr'[v] # addr[v]
<1>1. ASSUME IInv, [Next]_vars, NEW v \in busy, Changed(v)
      PROVE  Fair(v)
  <2>1. ASSUME NEW a \in Addr, NEW isLoad \in Kinds, InsertEvict(a, isLoad)
        PROVE  Fair(v)
    <3>1. addr \in [Lines -> Addr \cup {NULL}] /\ v \in Lines
      BY <1>1 DEF IInv, TypeOK, busy
    <3>2. addr' = [addr EXCEPT ![prev[tail]] = a]
      BY <2>1 DEF InsertEvict, Fill
    <3>3. v = prev[tail]
      BY <3>1, <3>2, <1>1
    <3>4. QED
      BY <3>3, <1>1, VictimIsLast DEF IInv
  <2>2. ASSUME NEW a \in Addr, NEW isLoad \in Kinds,
               Access(a, isLoad) \/ InsertFree(a, isLoad)
        PROVE  FALSE
    BY <2>2, <1>1 DEF Access, InsertFree
  <2>3. ASSUME (\E a \in Addr : Evict(a)) \/ Flush \/ UNCHANGED vars
        PROVE  FALSE
    BY <2>3, <1>1 DEF Evict, Flush, vars
  <2>4. QED
    BY <2>1, <2>2, <2>3, <1>1 DEF Next
<1>2. IInv /\ [Next]_vars => \A v \in busy : Changed(v) => Fair(v)
  BY <1>1
<1>3. QED
  BY <1>2, SetInvariant, PTL DEF Spec, VictimIsLeastUsed

-----------------------------------------------------------------------------
(* The walk along the list. *)

\* w is a walk of n steps along the links N.
Follows(w, n, N) == w = [k \in 1 .. n |-> N[IF k = 1 THEN head ELSE w[k - 1]]]

\* Two walks of n steps along the same links are the same walk.
LEMMA WalksAgree ==
  ASSUME NEW n \in Nat, NEW N, NEW v, Follows(v, n, N), NEW w, Follows(w, n, N)
  PROVE  v = w
<1>0. /\ v = [k \in 1 .. n |-> N[IF k = 1 THEN head ELSE v[k - 1]]]
      /\ w = [k \in 1 .. n |-> N[IF k = 1 THEN head ELSE w[k - 1]]]
  BY DEF Follows
<1> DEFINE T == {k \in 1 .. n : v[k] # w[k]}
<1>1. T = {}
  <2> SUFFICES ASSUME T # {} PROVE FALSE
    OBVIOUS
  <2>1. T \in SUBSET Nat
    OBVIOUS
  <2> HIDE DEF T
  <2>2. PICK k \in T : \A j \in T : k <= j
    BY <2>1, LeastOf
  <2>3. k \in 1 .. n /\ v[k] # w[k]
    BY <2>2 DEF T
  <2>4. CASE k = 1
    BY <1>0, <2>3, <2>4
  <2>5. CASE k # 1
    <3>1. k - 1 \in 1 .. n /\ ~ (k <= k - 1)
      BY <2>3, <2>5
    <3>2. v[k - 1] = w[k - 1]
      BY <2>2, <3>1 DEF T
    <3>3. QED
      BY <1>0, <2>3, <2>5, <3>2
  <2>6. QED
    BY <2>4, <2>5
<1>2. \A k \in 1 .. n : v[k] = w[k]
  BY <1>1
<1>3. v = [k \in 1 .. n |-> v[k]] /\ w = [k \in 1 .. n |-> w[k]]
  BY <1>0
<1>4. QED
  BY <1>2, <1>3

LEMMA WalkIs ==
  ASSUME NEW L, Cardinality(L) \in Nat, NEW N, NEW w, Follows(w, Cardinality(L), N)
  PROVE  Walk(L, N) = w
<1>1. Walk(L, N) = CHOOSE v : Follows(v, Cardinality(L), N)
  BY DEF Walk, Follows
<1>2. \A v : Follows(v, Cardinality(L), N) => v = w
  BY WalksAgree
<1>3. QED
  BY <1>1, <1>2

\* The walk w meets each of the n lines L at its place.
Meets(w, n, L, pos) ==
  /\ n \in Nat /\ w \in Seq(L) /\ Len(w) = n /\ DOMAIN w = 1 .. n
  /\ \A k \in 1 .. n : w[k] \in L /\ pos[w[k]] = k
  /\ \A c \in L : pos[c] \in 1 .. n /\ w[pos[c]] = c

\* The lines L are a chain along the links N and P.
Chained(L, N, P, pos) ==
  /\ L \in SUBSET Lines
  /\ N \in [Node -> Node \cup {NULL}]
  /\ pos \in [Node -> Node]
  /\ Chain(L, N, P, pos)

\* Along a chain the walk meets every line, each at its place.
LEMMA WalkReads ==
  ASSUME NEW L, NEW N, NEW P, NEW pos, Chained(L, N, P, pos)
  PROVE  /\ Meets(Walk(L, N), Cardinality(L), L, pos)
         /\ Follows(Walk(L, N), Cardinality(L), N)
<1> DEFINE n == Cardinality(L)
           T == {k \in 1 .. n : \A c \in L : pos[c] # k}
           w == [k \in 1 .. n |-> CHOOSE c \in L : pos[c] = k]
<1>0. L \in SUBSET Lines /\ pos \in [Node -> Node] /\ Chain(L, N, P, pos)
  BY DEF Chained
<1>1. n \in Nat
  BY <1>0, LinesCount
<1>2. /\ pos[head] = 0 /\ pos[tail] = n + 1
      /\ \A c \in L : pos[c] \in 1 .. n
      /\ \A c, d \in L : pos[c] = pos[d] => c = d
      /\ \A c \in L \cup {head} : N[c] \in L \cup {tail} /\ pos[N[c]] = pos[c] + 1
  BY <1>0 DEF Chain
<1> HIDE DEF n
<1>3. ASSUME NEW c \in L \cup {head}, pos[c] + 1 \in 1 .. n
      PROVE  N[c] \in L /\ pos[N[c]] = pos[c] + 1
  <2>1. pos[tail] # pos[c] + 1
    BY <1>1, <1>2, <1>3
  <2>2. QED
    BY <1>2, <2>1
<1>4. T = {}
  <2> SUFFICES ASSUME T # {} PROVE FALSE
    OBVIOUS
  <2>1. T \in SUBSET Nat
    BY <1>1
  <2> HIDE DEF T
  <2>2. PICK k \in T : \A j \in T : k <= j
    BY <2>1, LeastOf
  <2>3. k \in 1 .. n /\ \A c \in L : pos[c] # k
    BY <2>2 DEF T
  <2>4. \E c \in L \cup {head} : pos[c] + 1 = k
    <3>1. CASE k = 1
      BY <1>2, <3>1
    <3>2. CASE k # 1
      <4>1. k - 1 \in 1 .. n /\ ~ (k <= k - 1) /\ (k - 1) + 1 = k
        BY <1>1, <2>3, <3>2
      <4>2. \E c \in L : pos[c] = k - 1
        BY <2>2, <4>1 DEF T
      <4>3. QED
        BY <4>1, <4>2
    <3>3. QED
      BY <3>1, <3>2
  <2>5. QED
    BY <1>3, <2>3, <2>4
<1>5. \A k \in 1 .. n : w[k] \in L /\ pos[w[k]] = k
  <2>1. \A k \in 1 .. n : \E c \in L : pos[c] = k
    BY <1>4
  <2>2. QED
    BY <2>1
<1>6. ASSUME NEW k \in 1 .. n PROVE w[k] = N[IF k = 1 THEN head ELSE w[k - 1]]
  <2> DEFINE c == IF k = 1 THEN head ELSE w[k - 1]
  <2>1. c \in L \cup {head} /\ pos[c] + 1 = k
    <3>1. CASE k = 1
      BY <1>2, <3>1
    <3>2. CASE k # 1
      <4>1. k - 1 \in 1 .. n /\ (k - 1) + 1 = k
        BY <1>1, <3>2
      <4>2. QED
        BY <1>5, <3>2, <4>1
    <3>3. QED
      BY <3>1, <3>2
  <2> HIDE DEF c, w
  <2>2. N[c] \in L /\ pos[N[c]] = k
    BY <1>3, <2>1
  <2>3. QED
    BY <1>2, <1>5, <2>2 DEF c
<1>7. DOMAIN w = 1 .. n /\ w = [k \in 1 .. n |-> w[k]]
  OBVIOUS
<1> HIDE DEF w
<1>8. Follows(w, n, N)
  BY <1>6, <1>7 DEF Follows
<1>9. Walk(L, N) = w
  BY <1>1, <1>8, WalkIs DEF n
<1>10. w \in [1 .. n -> L]
  BY <1>5, <1>7
<1>11. w \in Seq(L) /\ Len(w) = n
  BY <1>1, <1>10
<1>12. \A c \in L : pos[c] \in 1 .. n /\ w[pos[c]] = c
  BY <1>2, <1>5
<1>13. QED
  BY <1>1, <1>5, <1>7, <1>8, <1>9, <1>11, <1>12 DEF n, Meets

\* The node before place k of a walk.
Before(w, k) == IF k = 1 THEN head ELSE w[k - 1]

\* deleteNode on the links N and P.
Unlinked(N, P, c) == [N EXCEPT ![P[c]] = N[c]]

\* What deleteNode does to the walk.
LEMMA UnlinkWalk ==
  ASSUME NEW L, NEW N, NEW P, NEW pos, Chained(L, N, P, pos), NEW c \in L
  PROVE  Walk(L \ {c}, Unlinked(N, P, c)) = RemoveAt(Walk(L, N), pos[c])
<1> DEFINE n == Cardinality(L)
           w == Walk(L, N)
           i == pos[c]
           b == P[c]
           K == L \ {c}
           M == [N EXCEPT ![b] = N[c]]
           v == RemoveAt(w, i)
<1>a. /\ L \in SUBSET Lines /\ N \in [Node -> Node \cup {NULL}]
      /\ pos \in [Node -> Node] /\ Chain(L, N, P, pos)
  BY DEF Chained
<1>1. /\ n \in Nat /\ w \in Seq(L) /\ Len(w) = n /\ Follows(w, n, N)
      /\ \A k \in 1 .. n : w[k] \in L /\ pos[w[k]] = k
      /\ \A x \in L : pos[x] \in 1 .. n /\ w[pos[x]] = x
  BY WalkReads DEF Meets
<1>0. i \in 1 .. n /\ w[i] = c
  BY <1>1
<1> HIDE DEF w
<1>2. \A k \in 1 .. n : w[k] = N[Before(w, k)]
  BY <1>1 DEF Follows, Before
<1>3. /\ pos[head] = 0 /\ b \in L \cup {head} /\ N[b] = c
      /\ pos[N[b]] = pos[b] + 1
      /\ \A x \in L : x \in Node /\ x # head
  BY <1>a, Nodes DEF Chain
<1>4. b \in Node /\ pos[b] = i - 1
  <2>1. b \in Node /\ pos[b] \in Nat
    BY <1>3, <1>a, Nodes
  <2>2. i = pos[b] + 1
    BY <1>3
  <2>3. QED
    BY <2>1, <2>2
<1>5. Cardinality(K) = n - 1 /\ n - 1 \in Nat
  <2>1. IsFiniteSet(L)
    BY <1>a, LinesCount
  <2>2. Cardinality(L \ {c}) = Cardinality(L) - 1
    BY <2>1, FS_RemoveElement
  <2>3. n - 1 \in Nat
    BY <1>0, <1>1
  <2>4. QED
    BY <2>2, <2>3
<1> HIDE DEF n, i, b
<1>6. /\ v \in Seq(L) /\ Len(v) = n - 1
      /\ \A k \in 1 .. n - 1 : v[k] = IF k < i THEN w[k] ELSE w[k + 1]
  BY <1>0, <1>1, RemoveAtReads
<1>7. v = [k \in 1 .. n - 1 |-> v[k]]
  <2>1. DOMAIN v = 1 .. n - 1
    BY <1>6, LenProperties
  <2>2. QED
    BY <1>6, <2>1, LenProperties
<1> HIDE DEF v
<1>8. \A k \in 1 .. n : Before(w, k) \in Node /\ pos[Before(w, k)] = k - 1
  <2> SUFFICES ASSUME NEW k \in 1 .. n
               PROVE  Before(w, k) \in Node /\ pos[Before(w, k)] = k - 1
    OBVIOUS
  <2>1. CASE k = 1
    BY <1>3, <2>1, Nodes DEF Before
  <2>2. CASE k # 1
    <3>1. k - 1 \in 1 .. n
      BY <1>1, <2>2
    <3>2. QED
      BY <1>1, <1>3, <2>2, <3>1 DEF Before
  <2>3. QED
    BY <2>1, <2>2
<1>9. ASSUME NEW k \in 1 .. n - 1 PROVE v[k] = M[Before(v, k)]
  <2>0. k \in 1 .. n /\ k + 1 \in 1 .. n /\ i \in 1 .. n
    BY <1>0, <1>1
  <2>1. CASE k < i
    <3>1. Before(v, k) = Before(w, k)
      <4>1. CASE k = 1
        BY <4>1 DEF Before
      <4>2. CASE k # 1
        <5>1. k - 1 \in 1 .. n - 1 /\ k - 1 < i
          BY <1>1, <2>0, <2>1, <4>2
        <5>2. QED
          BY <1>6, <4>2, <5>1 DEF Before
      <4>3. QED
        BY <4>1, <4>2
    <3>2. Before(w, k) # b
      BY <1>4, <1>8, <2>0, <2>1
    <3>3. M[Before(w, k)] = N[Before(w, k)]
      BY <1>a, <1>8, <2>0, <3>2
    <3>4. QED
      BY <1>2, <1>6, <2>0, <2>1, <3>1, <3>3
  <2>2. CASE k = i
    <3>1. Before(v, k) = b
      <4>1. CASE k = 1
        <5>1. pos[b] = 0
          BY <1>4, <2>2, <4>1
        <5>2. b = head
          BY <1>a, <1>3, <5>1 DEF Chain
        <5>3. QED
          BY <4>1, <5>2 DEF Before
      <4>2. CASE k # 1
        <5>1. k - 1 \in 1 .. n - 1 /\ k - 1 < i /\ k - 1 \in 1 .. n
          BY <1>1, <2>2, <4>2
        <5>2. v[k - 1] = w[k - 1] /\ pos[w[k - 1]] = pos[b] /\ w[k - 1] \in L
          BY <1>1, <1>4, <1>6, <2>2, <5>1
        <5>3. b \in L
          <6>1. pos[b] # 0
            BY <1>4, <2>2, <5>1
          <6>2. QED
            BY <1>3, <6>1
        <5>4. w[k - 1] = b
          BY <1>a, <5>2, <5>3 DEF Chain
        <5>5. QED
          BY <4>2, <5>2, <5>4 DEF Before
      <4>3. QED
        BY <4>1, <4>2
    <3>2. M[b] = N[c]
      BY <1>a, <1>4
    <3>3. v[k] = w[k + 1]
      BY <1>6, <2>2
    <3>4. w[k + 1] = N[c]
      <4>1. Before(w, k + 1) = c
        <5>1. k + 1 # 1 /\ (k + 1) - 1 = k
          BY <2>0
        <5>2. QED
          BY <1>0, <2>2, <5>1 DEF Before
      <4>2. QED
        BY <1>2, <2>0, <4>1
    <3>5. QED
      BY <3>1, <3>2, <3>3, <3>4
  <2>3. CASE k > i
    <3>1. Before(v, k) = w[k] /\ Before(w, k + 1) = w[k]
      <4>1. k # 1 /\ k - 1 \in 1 .. n - 1 /\ ~ (k - 1 < i) /\ (k - 1) + 1 = k
            /\ k + 1 # 1 /\ (k + 1) - 1 = k
        BY <1>1, <2>0, <2>3
      <4>2. QED
        BY <1>6, <4>1 DEF Before
    <3>2. w[k] # b /\ w[k] \in Node
      <4>1. pos[w[k]] = k /\ pos[b] = i - 1 /\ w[k] \in Node
        BY <1>1, <1>3, <1>4, <2>0
      <4>2. k # i - 1
        BY <2>0, <2>3
      <4>3. QED
        BY <4>1, <4>2
    <3>3. v[k] = w[k + 1]
      <4>1. ~ (k < i)
        BY <2>0, <2>3
      <4>2. QED
        BY <1>6, <4>1
    <3>4. QED
      BY <1>a, <1>2, <2>0, <3>1, <3>2, <3>3
  <2>4. QED
    BY <2>0, <2>1, <2>2, <2>3
<1>10. Follows(v, n - 1, M)
  BY <1>7, <1>9 DEF Follows, Before
<1>11. Walk(K, M) = v
  BY <1>5, <1>10, WalkIs
<1>12. QED
  BY <1>11 DEF v, w, i, b, Unlinked

\* What the four assignments that thread a line do to the walk.
LEMMA LinkWalk ==
  ASSUME NEW L, NEW N, NEW P, NEW pos, Chained(L, N, P, pos),
         NEW c \in Lines, c \notin L, NEW at \in L \cup {tail}
  PROVE  Walk(L \cup {c}, LinkNext(N, P, c, at)) = InsertAt(Walk(L, N), pos[at], c)
<1> DEFINE n == Cardinality(L)
           w == Walk(L, N)
           p == pos[at]
           b == P[at]
           K == L \cup {c}
           M == LinkNext(N, P, c, at)
           v == InsertAt(w, p, c)
<1>a. /\ L \in SUBSET Lines /\ N \in [Node -> Node \cup {NULL}]
      /\ pos \in [Node -> Node] /\ Chain(L, N, P, pos)
  BY DEF Chained
<1>1. /\ n \in Nat /\ w \in Seq(L) /\ Len(w) = n /\ Follows(w, n, N)
      /\ \A k \in 1 .. n : w[k] \in L /\ pos[w[k]] = k
      /\ \A x \in L : pos[x] \in 1 .. n /\ w[pos[x]] = x
  BY WalkReads DEF Meets
<1> HIDE DEF w
<1>2. \A k \in 1 .. n : w[k] = N[Before(w, k)]
  BY <1>1 DEF Follows, Before
<1>3. /\ pos[head] = 0 /\ pos[tail] = n + 1
      /\ b \in L \cup {head} /\ N[b] = at /\ pos[N[b]] = pos[b] + 1
      /\ \A x \in L : x \in Node /\ x # head
      /\ c \in Node /\ c # head /\ head \in Node
  BY <1>a, Nodes DEF Chain
<1>4. b \in Node /\ pos[b] = p - 1 /\ p \in 1 .. n + 1 /\ b # c
  <2>1. pos[b] \in Nat /\ b \in Node /\ b # c
    BY <1>a, <1>3, Nodes
  <2>2. p \in 1 .. n + 1
    BY <1>1, <1>3
  <2>3. QED
    BY <1>3, <2>1, <2>2
<1>5. Cardinality(K) = n + 1 /\ n + 1 \in Nat
  <2>1. IsFiniteSet(L)
    BY <1>a, LinesCount
  <2>2. Cardinality(L \cup {c}) = Cardinality(L) + 1
    BY <2>1, FS_AddElement
  <2>3. QED
    BY <1>1, <2>2
<1>6. M = [N EXCEPT ![c] = at, ![b] = c]
  BY DEF LinkNext
<1>7. /\ M[b] = c /\ M[c] = at
      /\ \A x \in Node : x # b /\ x # c => M[x] = N[x]
  BY <1>a, <1>3, <1>4, <1>6
<1>8. w \in Seq(Lines)
  BY <1>a, <1>1, SeqMonotonic
<1> HIDE DEF n, p, b, M
<1>9. /\ v \in Seq(Lines) /\ Len(v) = n + 1
      /\ \A k \in 1 .. n + 1 : v[k] = IF k < p THEN w[k] ELSE IF k = p THEN c ELSE w[k - 1]
  <2>1. w \in Seq(Lines) /\ p \in 1 .. Len(w) + 1 /\ c \in Lines
    BY <1>1, <1>4, <1>8
  <2>2. /\ InsertAt(w, p, c) \in Seq(Lines)
        /\ Len(InsertAt(w, p, c)) = Len(w) + 1
        /\ \A k \in 1 .. Len(w) + 1 :
             InsertAt(w, p, c)[k] = IF k < p THEN w[k]
                                    ELSE IF k = p THEN c ELSE w[k - 1]
    <3>1. /\ InsertAt(w, p, c) \in Seq(Lines)
          /\ InsertedAt(InsertAt(w, p, c), w, p, c)
      BY <2>1, InsertAtReads
    <3>2. QED
      BY <3>1 DEF InsertedAt
  <2>3. QED
    BY <1>1, <2>2
<1>10. v = [k \in 1 .. n + 1 |-> v[k]]
  BY <1>9, LenProperties
<1> HIDE DEF v
<1>11. ASSUME NEW k \in 1 .. n + 1 PROVE v[k] = M[Before(v, k)]
  <2>0. k \in Nat /\ p \in Nat /\ n \in Nat /\ 1 <= k /\ k <= n + 1
    BY <1>1, <1>4
  <2>1. CASE k < p
    <3>0. k \in 1 .. n /\ k \in 1 .. n + 1
      BY <1>4, <2>0, <2>1
    <3>1. Before(v, k) = Before(w, k) /\ pos[Before(w, k)] = k - 1
          /\ Before(w, k) \in L \cup {head}
      <4>1. CASE k = 1
        BY <1>3, <4>1 DEF Before
      <4>2. CASE k # 1
        <5>1. k - 1 \in 1 .. n + 1 /\ k - 1 < p /\ k - 1 \in 1 .. n
          BY <2>0, <2>1, <3>0, <4>2
        <5>2. v[k - 1] = w[k - 1]
          BY <1>9, <5>1
        <5>3. QED
          BY <1>1, <4>2, <5>1, <5>2 DEF Before
      <4>3. QED
        BY <4>1, <4>2
    <3>2. Before(w, k) # b
      <4>1. k - 1 # p - 1
        BY <2>0, <2>1
      <4>2. QED
        BY <1>4, <3>1, <4>1
    <3>3. M[Before(w, k)] = N[Before(w, k)]
      BY <1>3, <1>7, <3>1, <3>2
    <3>4. QED
      BY <1>2, <1>9, <2>1, <3>0, <3>1, <3>3
  <2>2. CASE k = p
    <3>1. Before(v, k) = b
      <4>1. CASE k = 1
        <5>1. pos[b] = 0
          BY <1>4, <2>2, <4>1
        <5>2. b \notin L
          BY <1>1, <5>1
        <5>3. QED
          BY <1>3, <4>1, <5>2 DEF Before
      <4>2. CASE k # 1
        <5>1. k - 1 \in 1 .. n + 1 /\ k - 1 < p /\ k - 1 \in 1 .. n /\ p - 1 # 0
          BY <2>0, <2>2, <4>2
        <5>2. b \in L
          BY <1>3, <1>4, <5>1
        <5>3. w[k - 1] = b
          BY <1>1, <1>4, <2>2, <5>2
        <5>4. v[k - 1] = w[k - 1]
          BY <1>9, <5>1
        <5>5. QED
          BY <4>2, <5>3, <5>4 DEF Before
      <4>3. QED
        BY <4>1, <4>2
    <3>2. v[k] = c
      <4>1. ~ (k < p)
        BY <2>0, <2>2
      <4>2. QED
        BY <1>9, <2>2, <4>1
    <3>3. QED
      BY <1>7, <3>1, <3>2
  <2>3. CASE k = p + 1
    <3>0. /\ k - 1 = p /\ k # 1 /\ ~ (k < p) /\ k # p /\ p \in 1 .. n
          /\ p \in 1 .. n + 1 /\ ~ (p < p)
      BY <1>4, <2>0, <2>3
    <3>1. Before(v, k) = c
      <4>1. v[p] = c
        BY <1>9, <3>0
      <4>2. QED
        BY <3>0, <4>1 DEF Before
    <3>2. v[k] = w[p]
      BY <1>9, <3>0
    <3>3. at \in L
      <4>1. pos[tail] # p
        BY <1>3, <3>0
      <4>2. QED
        BY <4>1 DEF p
    <3>4. w[p] = at
      BY <1>1, <3>3 DEF p
    <3>5. QED
      BY <1>7, <3>1, <3>2, <3>4
  <2>4. CASE k > p + 1
    <3>0. /\ k - 1 \in 1 .. n /\ k - 1 # 1 /\ k # 1 /\ (k - 1) - 1 \in 1 .. n
          /\ k - 1 \in 1 .. n + 1 /\ ~ (k < p) /\ k # p
          /\ ~ (k - 1 < p) /\ k - 1 # p /\ (k - 1) - 1 # p - 1
      BY <1>4, <2>0, <2>4
    <3>1. v[k] = w[k - 1] /\ v[k - 1] = w[(k - 1) - 1]
      BY <1>9, <3>0
    <3>2. Before(v, k) = w[(k - 1) - 1] /\ Before(w, k - 1) = w[(k - 1) - 1]
      BY <3>0, <3>1 DEF Before
    <3>3. w[(k - 1) - 1] \in L /\ w[(k - 1) - 1] # b
      BY <1>1, <1>4, <3>0
    <3>4. M[w[(k - 1) - 1]] = N[w[(k - 1) - 1]]
      BY <1>3, <1>7, <3>3
    <3>5. QED
      BY <1>2, <3>0, <3>1, <3>2, <3>4
  <2>5. QED
    BY <2>0, <2>1, <2>2, <2>3, <2>4
<1>12. Follows(v, n + 1, M)
  BY <1>10, <1>11 DEF Follows, Before
<1>13. Walk(K, M) = v
  BY <1>5, <1>12, WalkIs
<1>14. QED
  BY <1>13 DEF v, w, p, M

-----------------------------------------------------------------------------
(* From lines to entries. *)

\* The ranking that has entry u[c] where the walk w has line c.
Listed(u, w) == [k \in DOMAIN w |-> u[w[k]]]

\* u gives every line of L an entry of E, and w is a walk among these lines.
Lists(u, w, L, E) == u \in [L -> E] /\ w \in Seq(L)

LEMMA ListedReads ==
  ASSUME NEW L, NEW E, NEW u, NEW w, Lists(u, w, L, E)
  PROVE  /\ Listed(u, w) \in Seq(E) /\ Len(Listed(u, w)) = Len(w)
         /\ DOMAIN Listed(u, w) = 1 .. Len(w)
         /\ \A k \in 1 .. Len(w) : w[k] \in L /\ Listed(u, w)[k] = u[w[k]]
<1> DEFINE s == Listed(u, w)
<1>0. u \in [L -> E] /\ w \in Seq(L)
  BY DEF Lists
<1>1. Len(w) \in Nat /\ DOMAIN w = 1 .. Len(w) /\ \A k \in 1 .. Len(w) : w[k] \in L
  BY <1>0, LenProperties, ElementOfSeq
<1>2. DOMAIN s = 1 .. Len(w) /\ \A k \in 1 .. Len(w) : s[k] = u[w[k]]
  BY <1>1 DEF Listed
<1>3. s \in [1 .. Len(w) -> E]
  BY <1>0, <1>1, <1>2 DEF Listed
<1>4. s \in Seq(E) /\ Len(s) = Len(w)
  BY <1>1, <1>3
<1>5. QED
  BY <1>1, <1>2, <1>4

\* Two sequences are equal that have the same length and the same elements.
LEMMA SameSequence ==
  ASSUME NEW E, NEW s \in Seq(E), NEW t \in Seq(E), Len(s) = Len(t),
         \A k \in 1 .. Len(s) : s[k] = t[k]
  PROVE  s = t
<1>1. s = [k \in 1 .. Len(s) |-> s[k]] /\ t = [k \in 1 .. Len(s) |-> t[k]]
  BY LenProperties
<1>2. QED
  BY <1>1

LEMMA ListedRemove ==
  ASSUME NEW L, NEW E, NEW u, NEW w, Lists(u, w, L, E), NEW i \in 1 .. Len(w)
  PROVE  Promise!RemoveAt(Listed(u, w), i) = Listed(u, RemoveAt(w, i))
<1> DEFINE r == Listed(u, w)
           v == RemoveAt(w, i)
           s == RemoveAt(r, i)
           t == Listed(u, v)
<1>a. u \in [L -> E] /\ w \in Seq(L)
  BY DEF Lists
<1>1. /\ r \in Seq(E) /\ Len(r) = Len(w)
      /\ \A k \in 1 .. Len(w) : w[k] \in L /\ r[k] = u[w[k]]
  BY ListedReads
<1>2. /\ v \in Seq(L) /\ Len(v) = Len(w) - 1
      /\ \A k \in 1 .. Len(w) - 1 : v[k] = IF k < i THEN w[k] ELSE w[k + 1]
  BY <1>a, RemoveAtReads
<1>3. Promise!RemoveAt(r, i) = s
  BY DEF Promise!RemoveAt, RemoveAt
<1> HIDE DEF r, v
<1>4. /\ s \in Seq(E) /\ Len(s) = Len(r) - 1
      /\ \A k \in 1 .. Len(r) - 1 : s[k] = IF k < i THEN r[k] ELSE r[k + 1]
  BY <1>1, RemoveAtReads
<1>5. t \in Seq(E) /\ Len(t) = Len(v) /\ \A k \in 1 .. Len(v) : t[k] = u[v[k]]
  <2>1. Lists(u, v, L, E)
    BY <1>2, <1>a DEF Lists
  <2>2. QED
    BY <2>1, ListedReads
<1> HIDE DEF s, t
<1>6. ASSUME NEW k \in 1 .. Len(s) PROVE s[k] = t[k]
  <2>1. /\ k \in 1 .. Len(w) - 1 /\ k \in 1 .. Len(w) /\ k + 1 \in 1 .. Len(w)
        /\ k \in 1 .. Len(r) - 1 /\ k \in 1 .. Len(v)
    <3>1. Len(w) \in Nat /\ Len(s) = Len(w) - 1 /\ Len(r) = Len(w) /\ Len(v) = Len(w) - 1
      BY <1>1, <1>2, <1>4, LenProperties
    <3>2. QED
      BY <3>1
  <2>2. QED
    BY <1>1, <1>2, <1>4, <1>5, <2>1
<1>7. Len(s) = Len(t)
  BY <1>1, <1>2, <1>4, <1>5
<1>8. s = t
  BY <1>4, <1>5, <1>6, <1>7, SameSequence
<1>9. QED
  BY <1>3, <1>8 DEF r, v, t

LEMMA ListedInsert ==
  ASSUME NEW L, NEW E, NEW u, NEW w, Lists(u, w, L, E),
         NEW p \in 1 .. Len(w) + 1, NEW c \in L
  PROVE  Promise!InsertAt(Listed(u, w), p, u[c]) = Listed(u, InsertAt(w, p, c))
<1> DEFINE r == Listed(u, w)
           e == u[c]
           v == InsertAt(w, p, c)
           s == InsertAt(r, p, e)
           t == Listed(u, v)
<1>a. u \in [L -> E] /\ w \in Seq(L)
  BY DEF Lists
<1>1. /\ r \in Seq(E) /\ Len(r) = Len(w)
      /\ \A k \in 1 .. Len(w) : w[k] \in L /\ r[k] = u[w[k]]
  BY ListedReads
<1>2. /\ v \in Seq(L) /\ Len(v) = Len(w) + 1
      /\ \A k \in 1 .. Len(w) + 1 :
           v[k] = IF k < p THEN w[k] ELSE IF k = p THEN c ELSE w[k - 1]
  BY <1>a, InsertAtReads DEF InsertedAt
<1>3. Promise!InsertAt(r, p, e) = s
  BY DEF Promise!InsertAt, InsertAt
<1>0. e \in E
  BY <1>a
<1> HIDE DEF r, v, e
<1>4. /\ s \in Seq(E) /\ Len(s) = Len(r) + 1
      /\ \A k \in 1 .. Len(r) + 1 :
           s[k] = IF k < p THEN r[k] ELSE IF k = p THEN e ELSE r[k - 1]
  <2>1. p \in 1 .. Len(r) + 1 /\ r \in Seq(E)
    BY <1>1
  <2>2. QED
    BY <1>0, <2>1, InsertAtReads DEF InsertedAt
<1>5. t \in Seq(E) /\ Len(t) = Len(v) /\ \A k \in 1 .. Len(v) : t[k] = u[v[k]]
  <2>1. Lists(u, v, L, E)
    BY <1>2, <1>a DEF Lists
  <2>2. QED
    BY <2>1, ListedReads
<1> HIDE DEF s, t
<1>6. ASSUME NEW k \in 1 .. Len(s) PROVE s[k] = t[k]
  <2>0. /\ k \in 1 .. Len(w) + 1 /\ p \in 1 .. Len(w) + 1 /\ Len(w) \in Nat
        /\ k \in 1 .. Len(r) + 1 /\ k \in 1 .. Len(v)
    BY <1>1, <1>2, <1>4, LenProperties
  <2>1. CASE k < p
    <3>1. k \in 1 .. Len(w)
      BY <2>0, <2>1
    <3>2. QED
      BY <1>1, <1>2, <1>4, <1>5, <2>0, <2>1, <3>1
  <2>2. CASE k = p
    <3>1. ~ (k < p)
      BY <2>0, <2>2
    <3>2. QED
      BY <1>2, <1>4, <1>5, <2>0, <2>2, <3>1 DEF e
  <2>3. CASE k > p
    <3>1. k - 1 \in 1 .. Len(w) /\ ~ (k < p) /\ k # p
      BY <2>0, <2>3
    <3>2. QED
      BY <1>1, <1>2, <1>4, <1>5, <2>0, <3>1
  <2>4. QED
    BY <2>0, <2>1, <2>2, <2>3
<1>7. Len(s) = Len(t)
  BY <1>1, <1>2, <1>4, <1>5
<1>8. s = t
  BY <1>4, <1>5, <1>6, <1>7, SameSequence
<1>9. QED
  BY <1>3, <1>8 DEF r, v, t, e

LEMMA SameCardinality ==
  \A S : Promise!Cardinality(S) = Cardinality(S)
BY DEF Promise!Cardinality, Cardinality

LEMMA ListedAgrees ==
  ASSUME NEW L, NEW w \in Seq(L), NEW u, NEW v, \A x \in L : u[x] = v[x]
  PROVE  Listed(u, w) = Listed(v, w)
<1>1. DOMAIN w = 1 .. Len(w) /\ \A k \in 1 .. Len(w) : w[k] \in L
  BY LenProperties, ElementOfSeq
<1>2. QED
  BY <1>1 DEF Listed

\* The entries of r count as the lines L do that the walk along N meets.
CountsAs(r, L, N) ==
  /\ DOMAIN r = 1 .. Cardinality(L)
  /\ \A k \in DOMAIN r : r[k].freq = freq[Walk(L, N)[k]]

\* Where Place threads a line is the place that RankedSet gives its entry.
LEMMA PlaceWalk ==
  ASSUME NEW L, NEW N, NEW P, NEW pos, Chained(L, N, P, pos),
         freq \in [Node -> Nat], Policy = LFU => Descending(L, freq, pos),
         NEW c \in Lines, c \notin L, NEW f \in Nat, Place(c, L, N, P, f),
         NEW r, CountsAs(r, L, N)
  PROVE  /\ Promise!Place(Policy, r, f) \in 1 .. Cardinality(L) + 1
         /\ Walk(L \cup {c}, next') =
              InsertAt(Walk(L, N), Promise!Place(Policy, r, f), c)
<1> DEFINE n == Cardinality(L)
           w == Walk(L, N)
<1>a. /\ L \in SUBSET Lines /\ N \in [Node -> Node \cup {NULL}]
      /\ pos \in [Node -> Node] /\ Chain(L, N, P, pos)
  BY DEF Chained
<1>0. DOMAIN r = 1 .. n /\ \A k \in 1 .. n : r[k].freq = freq[w[k]]
  BY DEF CountsAs
<1>1. PICK at \in L \cup {tail} :
        /\ \/ Policy = LRU /\ FrontAt(N, at)
           \/ Policy = LFU /\ LFUAt(P, f, at)
        /\ next' = LinkNext(N, P, c, at)
  BY DEF Place
<1> DEFINE p == pos[at]
           b == P[at]
<1>2. /\ n \in Nat /\ \A k \in 1 .. n : w[k] \in L /\ pos[w[k]] = k
      /\ \A x \in L : pos[x] \in 1 .. n /\ w[pos[x]] = x
  BY WalkReads DEF Meets
<1>3. Walk(L \cup {c}, next') = InsertAt(w, p, c)
  BY <1>1, LinkWalk
<1> HIDE DEF w
<1>4. /\ pos[head] = 0 /\ pos[tail] = n + 1
      /\ b \in L \cup {head} /\ N[b] = at /\ pos[N[b]] = pos[b] + 1
      /\ pos[N[head]] = pos[head] + 1
      /\ \A x \in L : x \in Node /\ x # head
      /\ head \in Node
  BY <1>a, Nodes DEF Chain
<1>5. p \in 1 .. n + 1
  BY <1>2, <1>4
<1>6. \A x \in L : freq[x] \in Nat
  BY <1>4
<1> HIDE DEF n, b, p
<1>7. Promise!Place(Policy, r, f) = p
  <2>1. CASE Policy = LRU
    <3>1. at = N[head]
      BY <1>1, <2>1 DEF FrontAt, LRU, LFU
    <3>2. p = 1
      BY <1>4, <3>1 DEF p
    <3>3. Promise!Place(Policy, r, f) = 1
      BY <2>1 DEF Promise!Place, Promise!LRU, LRU
    <3>4. QED
      BY <3>2, <3>3
  <2>2. CASE Policy = LFU
    <3>0. Descending(L, freq, pos) /\ LFUAt(P, f, at)
      BY <1>1, <2>2 DEF LRU, LFU
    <3>1. p = pos[b] + 1 /\ (b = head \/ (b \in L /\ freq[b] > f)) /\ freq[at] <= f
      <4>1. b = head \/ freq[b] > f
        BY <3>0 DEF LFUAt, b
      <4>2. freq[at] <= f
        BY <3>0 DEF LFUAt
      <4>3. p = pos[b] + 1
        BY <1>4 DEF p
      <4>4. QED
        BY <1>4, <4>1, <4>2, <4>3
    <3>2. ASSUME NEW k \in 1 .. n PROVE r[k].freq > f <=> k \in 1 .. p - 1
      <4>0. /\ r[k].freq = freq[w[k]] /\ w[k] \in L /\ pos[w[k]] = k
            /\ freq[w[k]] \in Nat
        BY <1>0, <1>2, <1>6
      <4>1. CASE k < p
        <5>1. b \in L /\ freq[b] > f /\ pos[b] \in 1 .. n /\ w[pos[b]] = b
          <6>1. b # head
            BY <1>2, <1>4, <1>5, <3>1, <4>1
          <6>2. QED
            BY <1>2, <3>1, <6>1
        <5>2. CASE k = pos[b]
          <6>1. w[k] = b
            BY <5>1, <5>2
          <6>2. k \in 1 .. p - 1
            BY <1>5, <4>1
          <6>3. QED
            BY <4>0, <5>1, <6>1, <6>2
        <5>3. CASE k # pos[b]
          <6>1. pos[w[k]] < pos[b]
            BY <3>1, <4>0, <4>1, <5>1, <5>3
          <6>2. freq[w[k]] >= freq[b] /\ freq[b] \in Nat
            BY <1>6, <3>0, <4>0, <5>1, <6>1 DEF Descending
          <6>3. r[k].freq > f
            BY <4>0, <5>1, <6>2
          <6>4. k \in 1 .. p - 1
            BY <1>5, <4>1
          <6>5. QED
            BY <6>3, <6>4
        <5>4. QED
          BY <5>2, <5>3
      <4>2. CASE k >= p
        <5>1. at \in L /\ freq[at] \in Nat
          <6>1. p # n + 1
            BY <1>2, <1>5, <4>2
          <6>2. QED
            BY <1>4, <1>6, <6>1 DEF p
        <5>2. freq[w[k]] <= freq[at]
          <6>1. CASE k = p
            BY <1>2, <5>1, <6>1 DEF p
          <6>2. CASE k # p
            <7>1. pos[at] < pos[w[k]]
              BY <1>5, <4>0, <4>2, <6>2 DEF p
            <7>2. freq[at] >= freq[w[k]]
              BY <3>0, <4>0, <5>1, <7>1 DEF Descending
            <7>3. QED
              BY <4>0, <5>1, <7>2
          <6>3. QED
            BY <6>1, <6>2
        <5>3. ~ (r[k].freq > f)
          BY <3>1, <4>0, <5>1, <5>2
        <5>4. k \notin 1 .. p - 1
          BY <1>5, <4>2
        <5>5. QED
          BY <5>3, <5>4
      <4>3. QED
        BY <1>5, <4>1, <4>2
    <3>3. 1 .. p - 1 \subseteq 1 .. n
      BY <1>2, <1>5
    <3>4. {k \in DOMAIN r : r[k].freq > f} = 1 .. p - 1
      BY <1>0, <3>2, <3>3
    <3>5. Cardinality(1 .. p - 1) = p - 1
      <4>1. p - 1 \in Nat /\ 1 <= (p - 1) + 1
        BY <1>5
      <4> DEFINE m == p - 1
      <4>2. m \in Nat
        BY <4>1
      <4> HIDE DEF m
      <4>3. Cardinality(1 .. m) = m
        <5>1. 1 \in Int /\ m \in Int /\ ~ (1 > m + 1)
          BY <4>2
        <5>2. Cardinality(1 .. m) = IF 1 > m THEN 0 ELSE m - 1 + 1
          BY <5>1, FS_Interval
        <5>3. QED
          BY <4>2, <5>2
      <4>4. QED
        BY <4>3 DEF m
    <3>6. Promise!Place(Policy, r, f) = 1 + Cardinality({k \in DOMAIN r : r[k].freq > f})
      <4>1. Policy # Promise!LRU
        BY <2>2 DEF Promise!LRU, LFU
      <4>2. Promise!Place(Policy, r, f) =
              1 + Promise!Cardinality({k \in DOMAIN r : r[k].freq > f})
        BY <4>1 DEF Promise!Place
      <4>3. QED
        BY <4>2, SameCardinality
    <3>7. Promise!Place(Policy, r, f) = 1 + (p - 1)
      BY <3>4, <3>5, <3>6
    <3>8. QED
      BY <1>5, <3>7
  <2>3. QED
    BY <2>1, <2>2, PolicyAssumption
<1>8. QED
  BY <1>3, <1>5, <1>7 DEF n, w

-----------------------------------------------------------------------------
(* The ranking that a state of CacheSet stands for. *)

Entry == [addr : Addr, freq : Nat, dirty : BOOLEAN, live : BOOLEAN]

\* What the lines L hold, given the fields and the map.
Entries(L, A, F, D, M) ==
  [c \in L |-> [addr |-> A[c], freq |-> F[c], dirty |-> D[c], live |-> M[A[c]] = c]]

Contents == Entries(busy, addr, freq, dirty, addr_map)

LEMMA EntriesTyped ==
  ASSUME NEW L, NEW A, NEW F, NEW D, NEW M,
         \A c \in L : A[c] \in Addr /\ F[c] \in Nat /\ D[c] \in BOOLEAN
  PROVE  Entries(L, A, F, D, M) \in [L -> Entry]
<1>1. ASSUME NEW c \in L
      PROVE  [addr |-> A[c], freq |-> F[c], dirty |-> D[c], live |-> M[A[c]] = c] \in Entry
  BY DEF Entry
<1>2. QED
  BY <1>1 DEF Entries

\* The ranking has the contents of the lines in the order of the walk.
LEMMA Reading ==
  IInv => /\ Lists(Contents, Walk(busy, next), busy, Entry)
          /\ RankingOfList = Listed(Contents, Walk(busy, next))
          /\ Cardinality(busy) \in Nat
          /\ Len(Walk(busy, next)) = Cardinality(busy)
          /\ DOMAIN RankingOfList = 1 .. Cardinality(busy)
<1> SUFFICES ASSUME IInv
             PROVE  /\ Lists(Contents, Walk(busy, next), busy, Entry)
                    /\ RankingOfList = Listed(Contents, Walk(busy, next))
                    /\ Cardinality(busy) \in Nat
                    /\ Len(Walk(busy, next)) = Cardinality(busy)
                    /\ DOMAIN RankingOfList = 1 .. Cardinality(busy)
  OBVIOUS
<1> DEFINE w == Walk(busy, next)
           n == Cardinality(busy)
<1>1. TypeOK /\ ChainedInOrder /\ ResidentsNamed
  BY DEF IInv
<1>2. PICK pos \in [Node -> Node] : Chain(busy, next, prev, pos)
  BY <1>1 DEF ChainedInOrder
<1>3. busy \in SUBSET Lines /\ \A c \in busy : c \in Node
  BY Nodes DEF busy
<1>c. Chained(busy, next, prev, pos)
  BY <1>1, <1>2, <1>3 DEF Chained, TypeOK
<1>4. /\ n \in Nat /\ w \in Seq(busy) /\ Len(w) = n /\ DOMAIN w = 1 .. n
      /\ \A k \in 1 .. n : w[k] \in busy
  BY <1>c, WalkReads DEF Meets
<1> HIDE DEF w, n
<1>5. \A c \in busy : addr[c] \in Addr /\ freq[c] \in Nat /\ dirty[c] \in BOOLEAN
  BY <1>1, <1>3 DEF TypeOK, ResidentsNamed
<1>6. Contents \in [busy -> Entry]
  BY <1>5, EntriesTyped DEF Contents
<1>7. RankingOfList = [k \in 1 .. n |-> Content(w[k])]
  BY DEF RankingOfList, w, n
<1>8. \A k \in 1 .. n : Content(w[k]) = Contents[w[k]]
  BY <1>4 DEF Content, Contents, Entries
<1>9. RankingOfList = Listed(Contents, w)
  BY <1>4, <1>7, <1>8 DEF Listed
<1>10. QED
  BY <1>4, <1>6, <1>7, <1>9 DEF Lists, w, n

LEMMA ReadingAfter ==
  IInv' => /\ Lists(Contents', Walk(busy', next'), busy', Entry)
           /\ RankingOfList' = Listed(Contents', Walk(busy', next'))
           /\ DOMAIN RankingOfList' = 1 .. Cardinality(busy')
           /\ Contents' = Entries(busy', addr', freq', dirty', addr_map')
<1>1. IInv' => /\ Lists(Contents, Walk(busy, next), busy, Entry)'
               /\ (RankingOfList = Listed(Contents, Walk(busy, next)))'
               /\ (DOMAIN RankingOfList = 1 .. Cardinality(busy))'
  BY Reading, PTL
<1>2. QED
  BY <1>1 DEF Contents

-----------------------------------------------------------------------------
(* The operations. *)

\* Where deleteNode and Place move a line c of the list: its entry leaves its
\* place i and takes the place p that RankedSet gives an entry used f times.
LEMMA MoveWalk ==
  ASSUME IInv, NEW c \in busy, NEW f \in Nat,
         Place(c, busy \ {c}, UnlinkNext(c), UnlinkPrev(c), f)
  PROVE  LET w == Walk(busy, next)
         IN  \E i \in 1 .. Len(w) :
               LET v == RemoveAt(w, i)
                   p == Promise!Place(Policy, Listed(Contents, v), f)
               IN  /\ w[i] = c
                   /\ v \in Seq(busy \ {c})
                   /\ p \in 1 .. Len(v) + 1
                   /\ Walk(busy, next') = InsertAt(v, p, c)
                   /\ prev[tail] = c => i = Len(w)
<1> DEFINE w == Walk(busy, next)
           n == Cardinality(busy)
           K == busy \ {c}
           N == UnlinkNext(c)
           P == UnlinkPrev(c)
           v == Walk(K, N)
           r == Listed(Contents, v)
<1>1. TypeOK /\ ChainedInOrder /\ freq \in [Node -> Nat]
      /\ next \in [Node -> Node \cup {NULL}]
  BY DEF IInv, TypeOK
<1>2. PICK pos \in [Node -> Node] : Chain(busy, next, prev, pos)
  BY <1>1 DEF ChainedInOrder
<1> DEFINE i == pos[c]
<1>3. /\ busy \in SUBSET Lines /\ K \in SUBSET Lines /\ c \in Lines /\ c \notin K
      /\ K \cup {c} = busy
  BY DEF busy
<1>c. Chained(busy, next, prev, pos)
  BY <1>1, <1>2, <1>3 DEF Chained
<1>4. /\ n \in Nat /\ w \in Seq(busy) /\ Len(w) = n
      /\ \A x \in busy : pos[x] \in 1 .. n /\ w[pos[x]] = x
  BY <1>c, WalkReads DEF Meets
<1>5. v = RemoveAt(w, i)
  <2>1. Walk(K, Unlinked(next, prev, c)) = RemoveAt(w, pos[c])
    BY <1>c, UnlinkWalk
  <2>2. QED
    BY <2>1 DEF UnlinkNext, Unlinked
<1>6. N \in [Node -> Node \cup {NULL}]
  BY <1>1, AfterUnlink
<1>7. PICK q \in [Node -> Node] :
        /\ Chain(K, N, P, q)
        /\ Policy = LFU => Descending(K, freq, q)
  BY <1>1, AfterUnlink
<1>8. /\ v \in Seq(K) /\ Len(v) = Cardinality(K) /\ DOMAIN v = 1 .. Cardinality(K)
      /\ \A k \in 1 .. Cardinality(K) : v[k] \in K
  <2>1. Chained(K, N, P, q)
    BY <1>3, <1>6, <1>7 DEF Chained
  <2>2. QED
    BY <2>1, WalkReads DEF Meets
<1> HIDE DEF v
<1>9. DOMAIN r = 1 .. Cardinality(K)
      /\ \A k \in DOMAIN r : r[k].freq = freq[v[k]]
  BY <1>8 DEF Listed, Contents, Entries
<1> HIDE DEF N, P, r, K
<1>10. /\ Promise!Place(Policy, r, f) \in 1 .. Cardinality(K) + 1
       /\ Walk(K \cup {c}, next') = InsertAt(v, Promise!Place(Policy, r, f), c)
  <2>1. Place(c, K, N, P, f)
    BY DEF K, N, P
  <2>2. CountsAs(r, K, N)
    BY <1>9 DEF v, CountsAs
  <2>c. Chained(K, N, P, q)
    BY <1>3, <1>6, <1>7 DEF Chained
  <2>3. /\ Promise!Place(Policy, r, f) \in 1 .. Cardinality(K) + 1
        /\ Walk(K \cup {c}, next') =
             InsertAt(Walk(K, N), Promise!Place(Policy, r, f), c)
    BY <1>1, <1>3, <1>7, <2>1, <2>2, <2>c, PlaceWalk
  <2>4. QED
    BY <2>3 DEF v
<1>11. prev[tail] = c => i = Len(w)
  <2>1. /\ pos[tail] = n + 1 /\ pos[c] \in Nat
        /\ next[prev[tail]] = tail
        /\ pos[next[c]] = pos[c] + 1
    BY <1>2, <1>4 DEF Chain
  <2> HIDE DEF n
  <2>2. QED
    BY <1>4, <2>1
<1>12. i \in 1 .. Len(w) /\ w[i] = c
  BY <1>4
<1> HIDE DEF i, w
<1>13. /\ w[i] = c /\ RemoveAt(w, i) \in Seq(busy \ {c})
       /\ Promise!Place(Policy, Listed(Contents, RemoveAt(w, i)), f)
            \in 1 .. Len(RemoveAt(w, i)) + 1
       /\ Walk(busy, next') =
            InsertAt(RemoveAt(w, i),
                     Promise!Place(Policy, Listed(Contents, RemoveAt(w, i)), f), c)
  BY <1>3, <1>5, <1>8, <1>10, <1>12 DEF r, K
<1>14. QED
  BY <1>11, <1>12, <1>13 DEF w

\* Halving the counters of the lines halves those of the ranking.
LEMMA ListedHalved ==
  ASSUME NEW L, NEW E, NEW u, NEW w, Lists(u, w, L, E), NEW v,
         \A c \in L : v[c] = [u[c] EXCEPT !.freq = @ \div 2]
  PROVE  Promise!Halved(Listed(u, w)) = Listed(v, w)
<1> DEFINE r == Listed(u, w)
<1>1. /\ DOMAIN r = 1 .. Len(w)
      /\ \A k \in 1 .. Len(w) : w[k] \in L /\ r[k] = u[w[k]]
  BY ListedReads
<1>2. DOMAIN w = 1 .. Len(w)
  BY LenProperties DEF Lists
<1> HIDE DEF r
<1>3. Promise!Halved(r) = [k \in DOMAIN r |-> [r[k] EXCEPT !.freq = @ \div 2]]
  BY DEF Promise!Halved
<1>4. \A k \in DOMAIN r : [r[k] EXCEPT !.freq = @ \div 2] = v[w[k]]
  BY <1>1
<1>5. Promise!Halved(r) = [k \in DOMAIN w |-> v[w[k]]]
  BY <1>1, <1>2, <1>3, <1>4
<1>6. QED
  BY <1>5 DEF r, Listed

\* A hit.
LEMMA AccessRefines ==
  ASSUME IInv, IInv', NEW a \in Addr, NEW isLoad \in BOOLEAN, Access(a, isLoad)
  PROVE  Promise!Use(a, isLoad)
<1> DEFINE c == addr_map[a]
           f == freq[c]
           U == Contents
           w == Walk(busy, next)
           x == Walk(busy, next')
           r == RankingOfList
           F == [freq EXCEPT ![c] = @ + 1]
           V == Entries(busy, addr, F, dirty', addr_map)
<1>1. TypeOK /\ ResidentsNamed /\ HitsAreResident
  BY DEF IInv
<1>2. c \in busy /\ addr[c] = a /\ c \in Node /\ busy \subseteq Node /\ busy \subseteq Lines
  BY <1>1, Nodes DEF Access, HitsAreResident, busy
<1>3. /\ free' = free /\ addr_map' = addr_map /\ addr' = addr /\ busy' = busy
      /\ evicted' = NULL
      /\ dirty' = [dirty EXCEPT ![c] = @ \/ ~isLoad]
      /\ freq' = Counted(c)
      /\ Place(c, busy \ {c}, UnlinkNext(c), UnlinkPrev(c), freq[c])
  BY DEF Access, busy
<1>4. addr_map[addr[c]] = c
  BY <1>2
<1> HIDE DEF c
<1>5. freq \in [Node -> Nat] /\ dirty \in [Lines -> BOOLEAN] /\ f \in Nat
  BY <1>1, <1>2 DEF TypeOK
<1>6. Lists(U, w, busy, Entry) /\ r = Listed(U, w)
      /\ Len(w) = Cardinality(busy) /\ Cardinality(busy) \in Nat
  BY Reading
<1>7. /\ r' = Listed(Contents', x) /\ Lists(Contents', x, busy, Entry)
      /\ Contents' = Entries(busy, addr, freq', dirty', addr_map)
  BY <1>3, ReadingAfter
<1>8. /\ U[c] = [addr |-> addr[c], freq |-> f, dirty |-> dirty[c],
                 live |-> addr_map[addr[c]] = c]
      /\ U[c].addr = a /\ U[c].live /\ U[c].freq = f
  BY <1>2, <1>4 DEF Contents, Entries
<1>9. V[c] = [[U[c] EXCEPT !.dirty = @ \/ ~isLoad] EXCEPT !.freq = f + 1]
  <2>1. F[c] = f + 1 /\ dirty'[c] = (dirty[c] \/ ~isLoad)
    BY <1>2, <1>3, <1>5
  <2> HIDE DEF F, f
  <2>2. V[c] = [addr |-> addr[c], freq |-> f + 1, dirty |-> dirty[c] \/ ~isLoad,
                live |-> addr_map[addr[c]] = c]
    BY <1>2, <2>1 DEF Entries
  <2> DEFINE d == dirty[c]
             b == d \/ ~isLoad
             l == addr_map[addr[c]] = c
             m == [addr |-> addr[c], freq |-> f, dirty |-> b, live |-> l]
  <2>3. V[c] = [addr |-> addr[c], freq |-> f + 1, dirty |-> b, live |-> l]
        /\ U[c] = [addr |-> addr[c], freq |-> f, dirty |-> d, live |-> l]
    BY <1>8, <2>2
  <2>4. U[c].dirty = d /\ (U[c].dirty \/ ~isLoad) = b
    BY <1>8
  <2> HIDE DEF d, b, l, U, V
  <2>5. [U[c] EXCEPT !.dirty = b] = m
    BY <2>3
  <2>6. V[c] = [m EXCEPT !.freq = f + 1]
    BY <2>3
  <2>7. QED
    BY <2>4, <2>5, <2>6
<1>10. \A y \in busy \ {c} : U[y] = V[y]
  <2>1. \A y \in busy \ {c} : F[y] = freq[y] /\ dirty'[y] = dirty[y]
    BY <1>2, <1>3, <1>5
  <2> HIDE DEF F
  <2>2. QED
    BY <2>1 DEF Contents, Entries
<1>11. V \in [busy -> Entry]
  <2>0. dirty' \in [Lines -> BOOLEAN] /\ F \in [Node -> Nat]
    BY <1>2, <1>3, <1>5
  <2>1. \A y \in busy : addr[y] \in Addr /\ F[y] \in Nat /\ dirty'[y] \in BOOLEAN
    BY <1>1, <1>2, <2>0 DEF ResidentsNamed
  <2> HIDE DEF F
  <2>2. QED
    BY <2>1, EntriesTyped
<1> HIDE DEF U, V, w, r, F, f, x
<1>12. PICK i \in 1 .. Len(w) :
         LET v == RemoveAt(w, i)
             p == Promise!Place(Policy, Listed(U, v), f)
         IN  /\ w[i] = c
             /\ v \in Seq(busy \ {c})
             /\ p \in 1 .. Len(v) + 1
             /\ x = InsertAt(v, p, c)
             /\ prev[tail] = c => i = Len(w)
  BY <1>2, <1>3, <1>5, MoveWalk DEF U, w, x, f
<1> DEFINE v == RemoveAt(w, i)
           p == Promise!Place(Policy, Listed(U, v), f)
           s == Listed(V, x)
<1>13. w[i] = c /\ v \in Seq(busy \ {c}) /\ p \in 1 .. Len(v) + 1 /\ x = InsertAt(v, p, c)
  BY <1>12
<1> HIDE DEF v
<1>14. r[i] = U[c] /\ DOMAIN r = 1 .. Len(w)
  BY <1>6, <1>13, ListedReads
<1>15. Promise!RemoveAt(r, i) = Listed(U, v)
  BY <1>6, ListedRemove DEF v
<1>16. Listed(U, v) = Listed(V, v)
  BY <1>10, <1>13, ListedAgrees
<1>17. v \in Seq(busy)
  BY <1>13, SeqMonotonic
<1>18. Promise!InsertAt(Listed(V, v), p, V[c]) = s
  <2>1. Lists(V, v, busy, Entry)
    BY <1>11, <1>17 DEF Lists
  <2> HIDE DEF p
  <2>2. QED
    BY <1>2, <1>13, <2>1, ListedInsert
<1> DEFINE e == [r[i] EXCEPT !.dirty = @ \/ ~isLoad]
<1>19. Promise!Used(Policy, r, i, e) = IF f + 1 = MaxFreq THEN Promise!Halved(s) ELSE s
  <2>1. r[i].freq = f /\ V[c] = [e EXCEPT !.freq = f + 1]
    BY <1>8, <1>9, <1>14
  <2> HIDE DEF e, s
  <2>2. Promise!InsertAt(Promise!RemoveAt(r, i),
                         Promise!Place(Policy, Promise!RemoveAt(r, i), f),
                         [e EXCEPT !.freq = f + 1]) = s
    BY <1>15, <1>16, <1>18, <2>1
  <2>3. QED
    BY <2>1, <2>2 DEF Promise!Used
<1>20. r' = Promise!Used(Policy, r, i, e)
  <2> HIDE DEF e
  <2>0. F[c] = f + 1
    BY <1>2, <1>5 DEF F, f
  <2>1. CASE f + 1 = MaxFreq
    <3>1. freq' = [n \in Node |-> IF n \in busy THEN F[n] \div 2 ELSE F[n]]
      BY <1>3, <2>0, <2>1 DEF Counted, Decay, F
    <3>2. \A y \in busy : freq'[y] = F[y] \div 2
      BY <1>2, <3>1
    <3>3. \A y \in busy : Contents'[y] = [V[y] EXCEPT !.freq = @ \div 2]
      BY <1>7, <3>2 DEF V, Entries
    <3>4. Lists(V, x, busy, Entry)
      BY <1>7, <1>11 DEF Lists
    <3>5. Promise!Halved(Listed(V, x)) = Listed(Contents', x)
      BY <3>3, <3>4, ListedHalved
    <3>6. QED
      BY <1>7, <1>19, <2>1, <3>5
  <2>2. CASE f + 1 # MaxFreq
    <3>1. freq' = F
      BY <1>3, <2>0, <2>2 DEF Counted, F
    <3>2. Contents' = V
      BY <1>7, <3>1 DEF V
    <3>3. QED
      BY <1>7, <1>19, <2>2, <3>2
  <2>3. QED
    BY <2>1, <2>2
<1>21. i \in Promise!Slots(r, a)
  BY <1>8, <1>14 DEF Promise!Slots
<1>22. QED
  BY <1>3, <1>20, <1>21 DEF Promise!Use, r

\* The entry e when the tag a no longer leads to it.
Unnamed(e, a) == [e EXCEPT !.live = @ /\ e.addr # a]

LEMMA UnnamedReads ==
  ASSUME NEW A, NEW f, NEW d, NEW l, NEW a
  PROVE  Unnamed([addr |-> A, freq |-> f, dirty |-> d, live |-> l], a)
           = [addr |-> A, freq |-> f, dirty |-> d, live |-> l /\ A # a]
<1> DEFINE e == [addr |-> A, freq |-> f, dirty |-> d, live |-> l]
           m == l /\ A # a
<1>1. (e.live /\ e.addr # a) = m
  OBVIOUS
<1>2. Unnamed(e, a) = [e EXCEPT !.live = e.live /\ e.addr # a]
  BY DEF Unnamed
<1> HIDE DEF m
<1>3. [e EXCEPT !.live = m] = [addr |-> A, freq |-> f, dirty |-> d, live |-> m]
  OBVIOUS
<1>4. QED
  BY <1>1, <1>2, <1>3 DEF m

\* Taking the tag a from the lines takes it from the entries.
LEMMA ListedOrphan ==
  ASSUME NEW L, NEW E, NEW u, NEW w, Lists(u, w, L, E), NEW v, NEW a,
         \A c \in L : v[c] = Unnamed(u[c], a)
  PROVE  Promise!Orphan(Listed(u, w), a) = Listed(v, w)
<1> DEFINE r == Listed(u, w)
<1>1. /\ DOMAIN r = 1 .. Len(w)
      /\ \A k \in 1 .. Len(w) : w[k] \in L /\ r[k] = u[w[k]]
  BY ListedReads
<1>2. DOMAIN w = 1 .. Len(w)
  BY LenProperties DEF Lists
<1> HIDE DEF r
<1>3. Promise!Orphan(r, a) =
        [k \in DOMAIN r |-> [r[k] EXCEPT !.live = @ /\ r[k].addr # a]]
  BY DEF Promise!Orphan
<1>a. Promise!Orphan(r, a) = [k \in DOMAIN r |-> Unnamed(r[k], a)]
  BY <1>3 DEF Unnamed
<1>4. \A k \in DOMAIN r : Unnamed(r[k], a) = v[w[k]]
  BY <1>1
<1>5. Promise!Orphan(r, a) = [k \in DOMAIN w |-> v[w[k]]]
  BY <1>1, <1>2, <1>a, <1>4
<1>6. QED
  BY <1>5 DEF r, Listed

\* The place of an entry depends on the counters only.
LEMMA PlaceSame ==
  ASSUME NEW L, NEW w \in Seq(L), NEW u, NEW v, \A c \in L : u[c].freq = v[c].freq,
         NEW f
  PROVE  Promise!Place(Policy, Listed(u, w), f) = Promise!Place(Policy, Listed(v, w), f)
<1> DEFINE r == Listed(u, w)
           s == Listed(v, w)
<1>1. DOMAIN w = 1 .. Len(w) /\ \A k \in 1 .. Len(w) : w[k] \in L
  BY LenProperties, ElementOfSeq
<1>2. DOMAIN r = DOMAIN s /\ \A k \in DOMAIN r : r[k].freq = s[k].freq
  BY <1>1 DEF Listed
<1> HIDE DEF r, s
<1>3. {k \in DOMAIN r : r[k].freq > f} = {k \in DOMAIN s : s[k].freq > f}
  BY <1>2
<1>4. Promise!Place(Policy, r, f) = Promise!Place(Policy, s, f)
  BY <1>3 DEF Promise!Place
<1>5. QED
  BY <1>4 DEF r, s

\* A client that inserts after a miss only inserts a tag that no entry holds.
LEMMA MissRefines ==
  ASSUME IInv, NEW a \in Addr, addr_map[a] = NULL
  PROVE  ~ Promise!Hits(RankingOfList, a)
<1>1. /\ Lists(Contents, Walk(busy, next), busy, Entry)
      /\ RankingOfList = Listed(Contents, Walk(busy, next))
  BY Reading
<1>2. \A y \in busy : y # NULL
  BY NullAssumption DEF busy, Lines
<1>3. \A y \in busy : ~ (Contents[y].addr = a /\ Contents[y].live)
  BY <1>2 DEF Contents, Entries
<1>4. \A k \in DOMAIN RankingOfList :
        ~ (RankingOfList[k].addr = a /\ RankingOfList[k].live)
  BY <1>1, <1>3, ListedReads
<1>5. QED
  BY <1>4 DEF Promise!Hits, Promise!Slots

\* The set is full when no line is free.
LEMMA FullRefines ==
  ASSUME IInv
  PROVE  /\ Promise!Full(RankingOfList, Associativity) <=> free = {}
         /\ Len(RankingOfList) = Cardinality(busy)
<1>1. Len(RankingOfList) = Cardinality(busy) /\ Cardinality(busy) \in Nat
  BY Reading, ListedReads
<1>2. IsFiniteSet(Lines) /\ Cardinality(Lines) = Associativity
  BY AssocAssumption, FS_Interval DEF Lines
<1>3. free \subseteq Lines
  BY DEF IInv, TypeOK
<1>4. CASE free = {}
  <2>1. busy = Lines
    BY <1>4 DEF busy
  <2>2. QED
    BY <1>1, <1>2, <1>4, <2>1 DEF Promise!Full
<1>5. CASE free # {}
  <2>1. PICK y \in free : TRUE
    BY <1>5
  <2>2. busy \subseteq Lines \ {y} /\ IsFiniteSet(Lines \ {y})
        /\ Cardinality(Lines \ {y}) = Associativity - 1
    BY <1>2, <1>3, FS_RemoveElement DEF busy
  <2>3. Cardinality(busy) <= Associativity - 1
    BY <2>2, FS_Subset
  <2>4. Cardinality(busy) # Associativity
    BY <1>1, <2>3, AssocAssumption
  <2>5. QED
    BY <1>1, <1>5, <2>4 DEF Promise!Full
<1>6. QED
  BY <1>4, <1>5

\* Filling line c with the tag a and threading it at place p of the other lines
\* K inserts a fresh entry for a at p of what these lines hold.
LEMMA FillRefines ==
  ASSUME IInv, IInv', NEW a \in Addr, NEW isLoad \in BOOLEAN, NEW c \in Lines,
         NEW K, c \notin K, busy' = K \cup {c}, Fill(c, a, isLoad), addr_map'[a] = c,
         NEW v \in Seq(K), NEW p \in 1 .. Len(v) + 1,
         Walk(busy', next') = InsertAt(v, p, c),
         NEW S, Listed(S, v) = Listed(Contents', v)
  PROVE  RankingOfList' = Promise!InsertAt(Listed(S, v), p, Promise!Fresh(a, isLoad))
<1> DEFINE B == busy'
           V == Contents'
           x == InsertAt(v, p, c)
<1>1. /\ Lists(V, x, B, Entry) /\ RankingOfList' = Listed(V, x)
      /\ V = Entries(B, addr', freq', dirty', addr_map')
  BY ReadingAfter
<1>2. addr'[c] = a /\ freq'[c] = 0 /\ dirty'[c] = ~isLoad
  <2>1. c \in Node /\ addr \in [Lines -> Addr \cup {NULL}]
        /\ freq \in [Node -> 0 .. MaxFreq - 1] /\ dirty \in [Lines -> BOOLEAN]
    BY Nodes DEF IInv, TypeOK
  <2>2. QED
    BY <2>1 DEF Fill
<1>3. V[c] = Promise!Fresh(a, isLoad)
  <2> DEFINE l == addr_map'[addr'[c]] = c
  <2>1. V[c] = [addr |-> a, freq |-> 0, dirty |-> ~isLoad, live |-> l]
    BY <1>1, <1>2 DEF Entries
  <2>2. l = TRUE
    BY <1>2
  <2> HIDE DEF l, V
  <2>3. QED
    BY <2>1, <2>2 DEF Promise!Fresh
<1> HIDE DEF B, V, x
<1>4. Listed(S, v) = Listed(V, v)
  BY DEF V
<1>5. v \in Seq(B) /\ c \in B
  BY SeqMonotonic DEF B
<1>6. Lists(V, v, B, Entry)
  BY <1>1, <1>5 DEF Lists
<1>7. Promise!InsertAt(Listed(V, v), p, V[c]) = Listed(V, InsertAt(v, p, c))
  BY <1>5, <1>6, ListedInsert
<1>8. QED
  BY <1>1, <1>3, <1>4, <1>7 DEF x

\* An insertion with a line left.
LEMMA InsertFreeRefines ==
  ASSUME IInv, IInv', NEW a \in Addr, NEW isLoad \in BOOLEAN, InsertFree(a, isLoad)
  PROVE  Promise!Insert(a, isLoad)
<1> DEFINE U == Contents
           w == Walk(busy, next)
           r == RankingOfList
           n == Cardinality(busy)
<1>1. /\ TypeOK /\ ChainedInOrder /\ freq \in [Node -> Nat]
      /\ next \in [Node -> Node \cup {NULL}]
  BY DEF IInv, TypeOK
<1>2. PICK c \in free :
        /\ free' = free \ {c}
        /\ addr_map' = [addr_map EXCEPT ![a] = c]
        /\ Fill(c, a, isLoad)
        /\ Place(c, busy, next, prev, 0)
  BY DEF InsertFree
<1>3. MayInsert(a) /\ evicted' = NULL
  BY DEF InsertFree
<1>4. /\ c \in Lines /\ c \notin busy /\ busy' = busy \cup {c} /\ busy \in SUBSET Lines
      /\ free # {}
  BY <1>1, <1>2 DEF TypeOK, busy
<1>5. PICK pos \in [Node -> Node] :
        /\ Chain(busy, next, prev, pos)
        /\ Policy = LFU => Descending(busy, freq, pos)
  BY <1>1 DEF ChainedInOrder
<1>6. Chained(busy, next, prev, pos)
  BY <1>1, <1>4, <1>5 DEF Chained
<1>7. /\ Lists(U, w, busy, Entry) /\ r = Listed(U, w) /\ Len(w) = n
      /\ DOMAIN r = 1 .. n
  BY Reading
<1>8. w \in Seq(busy) /\ DOMAIN w = 1 .. n /\ \A k \in 1 .. n : w[k] \in busy
  BY <1>6, WalkReads DEF Meets
<1>9. \A y \in busy : /\ U[y] = [addr |-> addr[y], freq |-> freq[y], dirty |-> dirty[y],
                                 live |-> addr_map[addr[y]] = y]
                      /\ U[y].freq = freq[y] /\ U[y].addr = addr[y]
  BY DEF Contents, Entries
<1> HIDE DEF U, w, r, n
<1>10. CountsAs(r, busy, next)
  <2>1. \A k \in DOMAIN r : r[k].freq = freq[w[k]]
    BY <1>7, <1>8, <1>9 DEF Listed
  <2>2. QED
    BY <1>7, <2>1 DEF CountsAs, n, w
<1> DEFINE p == Promise!Place(Policy, r, 0)
<1>11. p \in 1 .. Len(w) + 1 /\ Walk(busy \cup {c}, next') = InsertAt(w, p, c)
  <2>1. c \in Lines /\ c \notin busy /\ 0 \in Nat /\ Place(c, busy, next, prev, 0)
    BY <1>2, <1>4
  <2> HIDE DEF p
  <2>2. /\ Promise!Place(Policy, r, 0) \in 1 .. Cardinality(busy) + 1
        /\ Walk(busy \cup {c}, next') =
             InsertAt(Walk(busy, next), Promise!Place(Policy, r, 0), c)
    BY <1>1, <1>5, <1>6, <1>10, <2>1, PlaceWalk
  <2>3. QED
    BY <1>7, <2>2 DEF w, n, p
<1> DEFINE S == [y \in busy |-> Unnamed(U[y], a)]
<1>s. ASSUME NEW y \in busy
      PROVE  /\ S[y] = [addr |-> addr[y], freq |-> freq[y], dirty |-> dirty[y],
                        live |-> addr_map[addr[y]] = y /\ addr[y] # a]
             /\ S[y].freq = freq[y]
  <2> DEFINE l == addr_map[addr[y]] = y
  <2>1. U[y] = [addr |-> addr[y], freq |-> freq[y], dirty |-> dirty[y], live |-> l]
    BY <1>9
  <2>2. S[y] = Unnamed(U[y], a)
    OBVIOUS
  <2> HIDE DEF S, l
  <2>3. S[y] = [addr |-> addr[y], freq |-> freq[y], dirty |-> dirty[y],
                live |-> l /\ addr[y] # a]
    BY <2>1, <2>2, UnnamedReads
  <2>4. S[y].freq = freq[y]
    BY <2>3
  <2>5. QED
    BY <2>3, <2>4 DEF l
<1>12. Promise!Orphan(r, a) = Listed(S, w)
  <2>1. \A y \in busy : S[y] = Unnamed(U[y], a)
    OBVIOUS
  <2> HIDE DEF S
  <2>2. QED
    BY <1>7, <2>1, ListedOrphan
<1>13. Promise!Place(Policy, Promise!Orphan(r, a), 0) = p
  <2>1. \A y \in busy : U[y].freq = S[y].freq
    <3> HIDE DEF S
    <3>1. ASSUME NEW y \in busy PROVE U[y].freq = freq[y]
      BY <1>9
    <3>2. ASSUME NEW y \in busy PROVE S[y].freq = freq[y]
      BY <1>s
    <3>3. QED
      BY <3>1, <3>2
  <2> HIDE DEF S
  <2>2. Promise!Place(Policy, Listed(U, w), 0) = Promise!Place(Policy, Listed(S, w), 0)
    BY <1>8, <2>1, PlaceSame
  <2>3. QED
    BY <1>7, <1>12, <2>2
<1>14. \A y \in busy : S[y] = Contents'[y]
  <2> SUFFICES ASSUME NEW y \in busy PROVE S[y] = Contents'[y]
    OBVIOUS
  <2>1. /\ addr'[y] = addr[y] /\ freq'[y] = freq[y] /\ dirty'[y] = dirty[y]
        /\ addr[y] \in Addr /\ y \in busy'
    <3>1. /\ y # c /\ y \in Lines /\ y \in Node
          /\ addr \in [Lines -> Addr \cup {NULL}]
          /\ freq \in [Node -> 0 .. MaxFreq - 1] /\ dirty \in [Lines -> BOOLEAN]
          /\ addr[y] \in Addr
      BY <1>4, Nodes DEF IInv, TypeOK, ResidentsNamed
    <3>2. QED
      BY <1>2, <1>4, <3>1 DEF Fill
  <2>2. (addr_map'[addr[y]] = y) = (addr_map[addr[y]] = y /\ addr[y] # a)
    <3>1. y # c
      BY <1>4
    <3>2. addr_map' = [addr_map EXCEPT ![a] = c] /\ addr_map \in [Addr -> Lines \cup {NULL}]
      BY <1>1, <1>2 DEF TypeOK
    <3>3. QED
      BY <2>1, <3>1, <3>2
  <2> DEFINE l == addr_map[addr[y]] = y
             m == addr_map'[addr[y]] = y
             k == l /\ addr[y] # a
  <2>3. Contents'[y] = [addr |-> addr[y], freq |-> freq[y], dirty |-> dirty[y],
                        live |-> m]
    BY <2>1, ReadingAfter DEF Entries
  <2>4. S[y] = [addr |-> addr[y], freq |-> freq[y], dirty |-> dirty[y], live |-> k]
    BY <1>s
  <2>5. m = k
    BY <2>2
  <2> HIDE DEF l, m, k, S
  <2>6. QED
    BY <2>3, <2>4, <2>5
<1> HIDE DEF S, p
<1>15. RankingOfList' = Promise!InsertAt(Listed(S, w), p, Promise!Fresh(a, isLoad))
  <2>1. addr_map'[a] = c
    BY <1>1, <1>2 DEF TypeOK
  <2>2. Walk(busy', next') = InsertAt(w, p, c)
    BY <1>4, <1>11
  <2>3. Listed(S, w) = Listed(Contents', w)
    BY <1>8, <1>14, ListedAgrees
  <2>4. QED
    BY <1>2, <1>4, <1>8, <1>11, <2>1, <2>2, <2>3, FillRefines
<1>16. InsertAfterMissOnly => ~ Promise!Hits(r, a)
  BY <1>3, MissRefines DEF MayInsert, r
<1>17. ~ Promise!Full(r, Associativity)
  BY <1>4, FullRefines DEF r
<1>18. Promise!Fresh(a, isLoad).addr = a
  BY DEF Promise!Fresh
<1>19. r' = Promise!Inserted(Policy, Associativity, r, Promise!Fresh(a, isLoad))
  BY <1>12, <1>13, <1>15, <1>17, <1>18 DEF Promise!Inserted, r
<1>20. QED
  BY <1>3, <1>16, <1>17, <1>19 DEF Promise!Insert, r

\* All entries but the last are the lines but the last.
LEMMA ListedFront ==
  ASSUME NEW L, NEW E, NEW u, NEW w, Lists(u, w, L, E), Len(w) # 0
  PROVE  /\ Promise!Front(Listed(u, w)) = Listed(u, RemoveAt(w, Len(w)))
         /\ Promise!Last(Listed(u, w)) = u[w[Len(w)]]
<1> DEFINE r == Listed(u, w)
           n == Len(w)
           s == Front(r)
           t == RemoveAt(r, n)
<1>1. /\ r \in Seq(E) /\ Len(r) = Len(w) /\ Len(w) \in Nat
      /\ \A k \in 1 .. Len(w) : r[k] = u[w[k]]
  <2>1. Len(w) \in Nat
    BY LenProperties DEF Lists
  <2>2. /\ r \in Seq(E) /\ Len(r) = Len(w)
        /\ \A k \in 1 .. Len(w) : r[k] = u[w[k]]
    BY ListedReads
  <2>3. QED
    BY <2>1, <2>2
<1>2. n \in 1 .. Len(w) /\ n \in 1 .. Len(r) /\ Len(r) > 0
  BY <1>1
<1> HIDE DEF r, n
<1>3. /\ s \in Seq(E) /\ Len(s) = Len(r) - 1
      /\ \A k \in 1 .. Len(r) - 1 : s[k] = r[k]
  BY <1>1, <1>2, FrontReads
<1>4. /\ t \in Seq(E) /\ Len(t) = Len(r) - 1
      /\ \A k \in 1 .. Len(r) - 1 : t[k] = IF k < n THEN r[k] ELSE r[k + 1]
  BY <1>1, <1>2, RemoveAtReads
<1> HIDE DEF s, t
<1>5. \A k \in 1 .. Len(r) - 1 : k < n
  BY <1>1 DEF n
<1>6. s = t
  BY <1>3, <1>4, <1>5, SameSequence
<1>7. Promise!Front(r) = s
  BY DEF Promise!Front, Front, s
<1>8. Promise!RemoveAt(r, n) = t
  BY DEF Promise!RemoveAt, RemoveAt, t
<1>9. Promise!RemoveAt(Listed(u, w), n) = Listed(u, RemoveAt(w, n))
  BY <1>2, ListedRemove
<1>10. Promise!Last(r) = r[Len(r)]
  BY DEF Promise!Last
<1>11. QED
  BY <1>1, <1>2, <1>6, <1>7, <1>8, <1>9, <1>10 DEF r, n

\* An insertion that gives up the last line.
LEMMA InsertEvictRefines ==
  ASSUME IInv, IInv', NEW a \in Addr, NEW isLoad \in BOOLEAN, InsertEvict(a, isLoad)
  PROVE  Promise!Insert(a, isLoad)
<1> DEFINE U == Contents
           w == Walk(busy, next)
           r == RankingOfList
           c == prev[tail]
           K == busy \ {c}
           b == addr[c]
<1>1. /\ TypeOK /\ ChainedInOrder /\ ResidentsNamed
      /\ addr \in [Lines -> Addr \cup {NULL}] /\ dirty \in [Lines -> BOOLEAN]
      /\ freq \in [Node -> 0 .. MaxFreq - 1]
      /\ addr_map \in [Addr -> Lines \cup {NULL}]
  BY DEF IInv, TypeOK
<1>2. /\ MayInsert(a) /\ free = {} /\ free' = free
      /\ c # head
      /\ addr_map' = [addr_map EXCEPT ![addr[c]] = NULL, ![a] = c]
      /\ evicted' = [addr |-> addr[c], dirty |-> dirty[c]]
      /\ Fill(c, a, isLoad)
      /\ Place(c, busy \ {c}, UnlinkNext(c), UnlinkPrev(c), 0)
  BY DEF InsertEvict
<1>3. c \in busy
  BY <1>1, <1>2, VictimIsLast
<1> HIDE DEF c
<1>4. /\ busy' = busy /\ busy = K \cup {c} /\ c \notin K /\ c \in Lines
      /\ \A y \in busy : y \in Lines /\ y \in Node /\ addr[y] \in Addr
      /\ b \in Addr
  BY <1>1, <1>2, <1>3, Nodes DEF busy, ResidentsNamed
<1> HIDE DEF K, b
<1>5. Lists(U, w, busy, Entry) /\ r = Listed(U, w)
  BY Reading
<1>6. \A y \in busy : /\ U[y] = [addr |-> addr[y], freq |-> freq[y], dirty |-> dirty[y],
                                 live |-> addr_map[addr[y]] = y]
                      /\ U[y].addr = addr[y] /\ U[y].dirty = dirty[y]
  BY DEF Contents, Entries
<1> HIDE DEF U, w, r
<1>7. PICK i \in 1 .. Len(w) :
         LET v == RemoveAt(w, i)
             p == Promise!Place(Policy, Listed(U, v), 0)
         IN  /\ w[i] = c
             /\ v \in Seq(busy \ {c})
             /\ p \in 1 .. Len(v) + 1
             /\ Walk(busy, next') = InsertAt(v, p, c)
             /\ prev[tail] = c => i = Len(w)
  BY <1>2, <1>3, MoveWalk DEF U, w
<1> DEFINE n == Len(w)
           v == RemoveAt(w, n)
           p == Promise!Place(Policy, Listed(U, v), 0)
<1>8. /\ w[n] = c /\ v \in Seq(K) /\ p \in 1 .. Len(v) + 1
      /\ Walk(busy, next') = InsertAt(v, p, c) /\ n # 0
  BY <1>7 DEF c, K
<1> HIDE DEF p, n, v
<1>9. Promise!Front(r) = Listed(U, v) /\ Promise!Last(r) = U[c]
  BY <1>5, <1>8, ListedFront DEF n, v
<1> DEFINE S == [y \in K |-> Unnamed(U[y], b)]
           T == [y \in K |-> Unnamed(S[y], a)]
<1>10. ASSUME NEW y \in K
       PROVE  /\ S[y] = Unnamed(U[y], b) /\ T[y] = Unnamed(S[y], a)
              /\ T[y] = [addr |-> addr[y], freq |-> freq[y], dirty |-> dirty[y],
                         live |-> (addr_map[addr[y]] = y /\ addr[y] # b) /\ addr[y] # a]
              /\ T[y].freq = U[y].freq
  <2> DEFINE l == addr_map[addr[y]] = y
             m == l /\ addr[y] # b
  <2>1. U[y] = [addr |-> addr[y], freq |-> freq[y], dirty |-> dirty[y], live |-> l]
    BY <1>4, <1>6
  <2>2. S[y] = Unnamed(U[y], b) /\ T[y] = Unnamed(S[y], a)
    OBVIOUS
  <2> HIDE DEF S, T, l
  <2>3. S[y] = [addr |-> addr[y], freq |-> freq[y], dirty |-> dirty[y], live |-> m]
    BY <2>1, <2>2, UnnamedReads
  <2> HIDE DEF m
  <2>4. T[y] = [addr |-> addr[y], freq |-> freq[y], dirty |-> dirty[y],
                live |-> m /\ addr[y] # a]
    BY <2>2, <2>3, UnnamedReads
  <2>5. T[y].freq = U[y].freq
    BY <2>1, <2>4
  <2>6. QED
    BY <2>2, <2>4, <2>5 DEF l, m
<1>11. U \in [busy -> Entry] /\ S \in [K -> Entry]
  <2>1. U \in [busy -> Entry]
    BY <1>5 DEF Lists
  <2>2. \A y \in K : Unnamed(U[y], b) \in Entry
    BY <1>4, <2>1 DEF Unnamed, Entry
  <2>3. QED
    BY <2>1, <2>2
<1>12. Promise!Orphan(Promise!Orphan(Promise!Front(r), b), a) = Listed(T, v)
  <2>0. \A y \in K : S[y] = Unnamed(U[y], b) /\ T[y] = Unnamed(S[y], a)
    BY <1>10
  <2> DEFINE R == [y \in K |-> U[y]]
  <2>1. R \in [K -> Entry] /\ \A y \in K : R[y] = U[y]
    BY <1>4, <1>11
  <2> HIDE DEF S, T, R
  <2>2. Lists(R, v, K, Entry) /\ Lists(S, v, K, Entry)
    BY <1>8, <1>11, <2>1 DEF Lists
  <2>3. Listed(U, v) = Listed(R, v)
    BY <1>8, <2>1, ListedAgrees
  <2>4. \A y \in K : S[y] = Unnamed(R[y], b)
    BY <2>0, <2>1
  <2>5. Promise!Orphan(Listed(R, v), b) = Listed(S, v)
    BY <2>2, <2>4, ListedOrphan
  <2>6. Promise!Orphan(Listed(S, v), a) = Listed(T, v)
    BY <2>0, <2>2, ListedOrphan
  <2>7. QED
    BY <1>9, <2>3, <2>5, <2>6
<1>13. Promise!Place(Policy, Listed(T, v), 0) = p
  <2>1. \A y \in K : T[y].freq = U[y].freq
    BY <1>10
  <2> HIDE DEF T
  <2>2. QED
    BY <1>8, <2>1, PlaceSame DEF p
<1>14. ASSUME NEW y \in K PROVE T[y] = Contents'[y]
  <2>1. /\ addr'[y] = addr[y] /\ freq'[y] = freq[y] /\ dirty'[y] = dirty[y]
        /\ addr[y] \in Addr /\ y \in busy' /\ y # c /\ y # NULL
    <3>1. y # c /\ y \in Lines /\ y \in Node /\ addr[y] \in Addr /\ y # NULL
      BY <1>4, NullAssumption DEF Lines
    <3>2. QED
      BY <1>1, <1>2, <1>4, <3>1 DEF Fill
  <2>2. (addr_map'[addr[y]] = y)
          = ((addr_map[addr[y]] = y /\ addr[y] # b) /\ addr[y] # a)
    BY <1>1, <1>2, <1>4, <2>1 DEF b
  <2> DEFINE m == addr_map'[addr[y]] = y
             l == (addr_map[addr[y]] = y /\ addr[y] # b) /\ addr[y] # a
  <2>3. Contents'[y] = [addr |-> addr[y], freq |-> freq[y], dirty |-> dirty[y],
                        live |-> m]
    BY <2>1, ReadingAfter DEF Entries
  <2>4. T[y] = [addr |-> addr[y], freq |-> freq[y], dirty |-> dirty[y], live |-> l]
    BY <1>10
  <2>5. m = l
    BY <2>2
  <2> HIDE DEF l, m, S, T
  <2>6. QED
    BY <2>3, <2>4, <2>5
<1> HIDE DEF S, T
<1>15. RankingOfList' = Promise!InsertAt(Listed(T, v), p, Promise!Fresh(a, isLoad))
  <2>1. addr_map'[a] = c
    BY <1>1, <1>2
  <2>2. Walk(busy', next') = InsertAt(v, p, c) /\ busy' = K \cup {c}
    BY <1>4, <1>8
  <2>3. Listed(T, v) = Listed(Contents', v)
    BY <1>8, <1>14, ListedAgrees
  <2>4. QED
    BY <1>2, <1>4, <1>8, <2>1, <2>2, <2>3, FillRefines
<1>16. InsertAfterMissOnly => ~ Promise!Hits(r, a)
  BY <1>2, MissRefines DEF MayInsert, r
<1>17. Promise!Full(r, Associativity)
  BY <1>2, FullRefines DEF r
<1>18. Promise!Fresh(a, isLoad).addr = a /\ Promise!Last(r).addr = b
       /\ Promise!Report(Promise!Last(r)) = evicted'
  <2>1. U[c].addr = addr[c] /\ U[c].dirty = dirty[c]
    BY <1>3, <1>6
  <2>2. Promise!Last(r).addr = addr[c] /\ Promise!Last(r).dirty = dirty[c]
    BY <1>9, <2>1
  <2>3. Promise!Fresh(a, isLoad).addr = a
    BY DEF Promise!Fresh
  <2>4. QED
    BY <1>2, <2>2, <2>3 DEF Promise!Report, b
<1>19. r' = Promise!Inserted(Policy, Associativity, r, Promise!Fresh(a, isLoad))
  BY <1>12, <1>13, <1>15, <1>17, <1>18 DEF Promise!Inserted, r
<1>20. QED
  BY <1>16, <1>17, <1>18, <1>19 DEF Promise!Insert, r

\* Of the n places all but i stay: the k-th of them.
LEMMA UpToOthers ==
  ASSUME NEW n \in Nat, NEW i \in 1 .. n, NEW k \in Nat, NEW m \in (1 .. n) \ {i},
         UpTo((1 .. n) \ {i}, m) = k
  PROVE  m = IF k < i THEN k ELSE k + 1
<1> DEFINE S == (1 .. n) \ {i}
           T == {j \in S : j <= m}
<1>1. UpTo(S, m) = Cardinality(T)
  BY DEF UpTo
<1>2. /\ IsFiniteSet(1 .. m) /\ m \in Nat
      /\ Cardinality(1 .. m) = m
  <2>1. 1 \in Int /\ m \in Int /\ ~ (1 > m) /\ m - 1 + 1 = m
    OBVIOUS
  <2> HIDE DEF S, T
  <2>2. IsFiniteSet(1 .. m) /\ Cardinality(1 .. m) = IF 1 > m THEN 0 ELSE m - 1 + 1
    BY <2>1, FS_Interval
  <2>3. QED
    BY <2>1, <2>2
<1>3. CASE m < i
  <2>1. T = 1 .. m
    BY <1>3
  <2>2. k = m
    BY <1>1, <1>2, <2>1
  <2>3. QED
    BY <1>3, <2>2
<1>4. CASE m > i
  <2>1. T = (1 .. m) \ {i} /\ i \in 1 .. m
    BY <1>4
  <2>2. Cardinality((1 .. m) \ {i}) = Cardinality(1 .. m) - 1
    BY <1>2, <2>1, FS_RemoveElement
  <2>3. k = m - 1
    BY <1>1, <1>2, <2>1, <2>2
  <2>4. QED
    BY <1>4, <2>3
<1>5. QED
  BY <1>3, <1>4

\* A ranking without the entry at place i.
LEMMA KeptOthers ==
  ASSUME NEW E, NEW r \in Seq(E), NEW i \in 1 .. Len(r)
  PROVE  Kept(r, DOMAIN r \ {i}) = RemoveAt(r, i)
<1> DEFINE n == Len(r)
           S == DOMAIN r \ {i}
           s == Kept(r, S)
           t == RemoveAt(r, i)
<1>1. n \in Nat /\ DOMAIN r = 1 .. n /\ i \in 1 .. n /\ S = (1 .. n) \ {i}
  BY LenProperties
<1>2. Cardinality(S) = n - 1 /\ n - 1 \in Nat
  <2>1. IsFiniteSet(1 .. n) /\ Cardinality(1 .. n) = n
    <3>1. 1 \in Int /\ n \in Int /\ ~ (1 > n) /\ n - 1 + 1 = n
      BY <1>1
    <3> HIDE DEF n
    <3>2. IsFiniteSet(1 .. n) /\ Cardinality(1 .. n) = IF 1 > n THEN 0 ELSE n - 1 + 1
      BY <3>1, FS_Interval
    <3>3. QED
      BY <3>1, <3>2
  <2>2. Cardinality((1 .. n) \ {i}) = Cardinality(1 .. n) - 1
    BY <1>1, <2>1, FS_RemoveElement
  <2>3. QED
    BY <1>1, <2>1, <2>2
<1>3. S \in SUBSET DOMAIN r
  OBVIOUS
<1> HIDE DEF n, S
<1>4. /\ s \in Seq(E) /\ DOMAIN s = 1 .. Cardinality(S)
      /\ \E at \in [DOMAIN s -> S] :
           \A k \in DOMAIN s : s[k] = r[at[k]] /\ UpTo(S, at[k]) = k
  BY <1>3, KeptReads
<1> HIDE DEF s
<1>5. PICK at \in [DOMAIN s -> S] :
        \A k \in DOMAIN s : s[k] = r[at[k]] /\ UpTo(S, at[k]) = k
  BY <1>4
<1>6. Len(s) = n - 1 /\ DOMAIN s = 1 .. n - 1
  BY <1>2, <1>4, LenProperties
<1>7. /\ t \in Seq(E) /\ Len(t) = n - 1
      /\ \A k \in 1 .. n - 1 : t[k] = IF k < i THEN r[k] ELSE r[k + 1]
  BY RemoveAtReads DEF n
<1> HIDE DEF t
<1>8. ASSUME NEW k \in 1 .. n - 1 PROVE s[k] = t[k]
  <2>1. at[k] \in (1 .. n) \ {i} /\ UpTo((1 .. n) \ {i}, at[k]) = k /\ k \in Nat
    <3>1. k \in DOMAIN s /\ k \in Nat
      BY <1>2, <1>6
    <3>2. at[k] \in S /\ UpTo(S, at[k]) = k
      BY <1>5, <3>1
    <3>3. QED
      BY <1>1, <3>1, <3>2
  <2>2. at[k] = IF k < i THEN k ELSE k + 1
    BY <1>1, <2>1, UpToOthers
  <2>3. QED
    BY <1>5, <1>6, <1>7, <2>2
<1>9. s = t
  BY <1>4, <1>6, <1>7, <1>8, SameSequence
<1>10. QED
  BY <1>9 DEF s, t, S

\* A shootdown.
LEMMA EvictRefines ==
  ASSUME IInv, IInv', NEW a \in Addr, Evict(a)
  PROVE  Promise!Drop(a)
<1> DEFINE c == addr_map[a]
           U == Contents
           w == Walk(busy, next)
           r == RankingOfList
           K == busy \ {c}
           M == [addr_map EXCEPT ![a] = NULL]
<1>1. /\ TypeOK /\ ChainedInOrder /\ ResidentsNamed /\ HitsAreResident
      /\ next \in [Node -> Node \cup {NULL}]
      /\ addr_map \in [Addr -> Lines \cup {NULL}]
  BY DEF IInv, TypeOK
<1>2. /\ c # NULL
      /\ addr_map' = [addr_map EXCEPT ![addr[c]] = NULL]
      /\ evicted' = [addr |-> a, dirty |-> dirty[c]]
      /\ next' = UnlinkNext(c)
      /\ free' = free \cup {c}
      /\ addr' = addr /\ freq' = freq /\ dirty' = dirty
  BY DEF Evict
<1>3. /\ c \in busy /\ addr[c] = a /\ busy \in SUBSET Lines /\ busy' = K
      /\ addr_map' = M
  BY <1>1, <1>2 DEF HitsAreResident, busy
<1>4. addr_map[addr[c]] = c
  BY <1>3
<1> HIDE DEF c
<1>5. PICK pos \in [Node -> Node] : Chain(busy, next, prev, pos)
  BY <1>1 DEF ChainedInOrder
<1>6. Chained(busy, next, prev, pos)
  BY <1>1, <1>3, <1>5 DEF Chained
<1>7. Lists(U, w, busy, Entry) /\ r = Listed(U, w)
  BY Reading
<1>8. \A y \in busy : /\ U[y] = [addr |-> addr[y], freq |-> freq[y], dirty |-> dirty[y],
                                 live |-> addr_map[addr[y]] = y]
                      /\ U[y].addr = addr[y] /\ U[y].dirty = dirty[y]
                      /\ (U[y].live <=> addr_map[addr[y]] = y)
  BY DEF Contents, Entries
<1>b. \A y \in busy : /\ U[y].addr = addr[y] /\ U[y].dirty = dirty[y]
                      /\ (U[y].live <=> addr_map[addr[y]] = y)
  BY <1>8
<1> DEFINE i == pos[c]
<1>9. i \in 1 .. Len(w) /\ w[i] = c
      /\ \A k \in 1 .. Len(w) : w[k] \in busy /\ (w[k] = c => k = i)
  BY <1>3, <1>6, WalkReads DEF Meets
<1>10. Walk(K, next') = RemoveAt(w, i)
  <2>1. Walk(busy \ {c}, Unlinked(next, prev, c)) = RemoveAt(w, i)
    BY <1>3, <1>6, UnlinkWalk
  <2>2. QED
    BY <1>2, <2>1 DEF UnlinkNext, Unlinked
<1> HIDE DEF U, w, r, i, K, M
<1>11. r \in Seq(Entry) /\ DOMAIN r = 1 .. Len(w) /\ Len(r) = Len(w)
       /\ \A k \in 1 .. Len(w) : r[k] = U[w[k]]
  BY <1>7, ListedReads
<1>12. ASSUME NEW k \in 1 .. Len(w)
       PROVE  (r[k].live /\ r[k].addr = a) <=> k = i
  <2>1. w[k] \in busy /\ r[k] = U[w[k]]
    BY <1>9, <1>11
  <2>2. (r[k].live <=> addr_map[addr[w[k]]] = w[k]) /\ r[k].addr = addr[w[k]]
    BY <1>b, <2>1
  <2>3. CASE k = i
    BY <1>3, <1>4, <1>9, <2>2, <2>3
  <2>4. CASE k # i
    <3>1. w[k] # c
      BY <1>9, <2>4
    <3>2. QED
      BY <2>2, <2>4, <3>1 DEF c
  <2>5. QED
    BY <2>3, <2>4
<1>13. Promise!Staying(r, {a}) = DOMAIN r \ {i}
  BY <1>11, <1>12 DEF Promise!Staying
<1>14. Promise!Without(r, {a}) = Promise!RemoveAt(r, i)
  <2>1. Promise!Without(r, {a}) = Kept(r, Promise!Staying(r, {a}))
    BY DEF Promise!Without, Kept, UpTo, Promise!Cardinality, Cardinality
  <2>2. Kept(r, DOMAIN r \ {i}) = RemoveAt(r, i)
    BY <1>9, <1>11, KeptOthers
  <2>3. Promise!RemoveAt(r, i) = RemoveAt(r, i)
    BY DEF Promise!RemoveAt, RemoveAt
  <2>4. QED
    BY <1>13, <2>1, <2>2, <2>3
<1>15. Promise!RemoveAt(r, i) = Listed(U, RemoveAt(w, i))
  BY <1>7, <1>9, ListedRemove
<1>16. /\ r' = Listed(Contents', Walk(K, next'))
       /\ Lists(Contents', Walk(K, next'), K, Entry)
       /\ Contents' = Entries(K, addr, freq, dirty, M)
  BY <1>2, <1>3, ReadingAfter DEF r
<1>17. ASSUME NEW y \in K PROVE Contents'[y] = U[y]
  <2>1. y \in busy /\ y # c /\ addr[y] \in Addr /\ y # NULL
    BY <1>1, <1>3, NullAssumption DEF K, ResidentsNamed, Lines
  <2>2. (M[addr[y]] = y) = (addr_map[addr[y]] = y)
    <3>1. CASE addr[y] = a
      BY <1>1, <2>1, <3>1 DEF M, c
    <3>2. CASE addr[y] # a
      BY <1>1, <2>1, <3>2 DEF M
    <3>3. QED
      BY <3>1, <3>2
  <2> DEFINE l == addr_map[addr[y]] = y
             m == M[addr[y]] = y
  <2>3. Contents'[y] = [addr |-> addr[y], freq |-> freq[y], dirty |-> dirty[y],
                        live |-> m]
    BY <1>16 DEF Entries
  <2>4. U[y] = [addr |-> addr[y], freq |-> freq[y], dirty |-> dirty[y], live |-> l]
    BY <1>8, <2>1
  <2>5. m = l
    BY <2>2
  <2> HIDE DEF l, m
  <2>6. QED
    BY <2>3, <2>4, <2>5
<1>18. r' = Promise!Without(r, {a})
  <2>1. RemoveAt(w, i) \in Seq(K)
    BY <1>10, <1>16 DEF Lists
  <2>2. Listed(Contents', RemoveAt(w, i)) = Listed(U, RemoveAt(w, i))
    BY <1>17, <2>1, ListedAgrees
  <2>3. QED
    BY <1>10, <1>14, <1>15, <1>16, <2>2
<1>19. i \in Promise!Slots(r, a)
  BY <1>9, <1>11, <1>12 DEF Promise!Slots
<1>20. evicted' = Promise!Report(r[i])
  <2>1. r[i].addr = a /\ r[i].dirty = dirty[c]
    BY <1>3, <1>b, <1>9, <1>11
  <2>2. QED
    BY <1>2, <2>1 DEF Promise!Report
<1>21. QED
  BY <1>18, <1>19, <1>20 DEF Promise!Drop, r

\* No line in use, no entry.
LEMMA NothingListed ==
  busy = {} => RankingOfList = << >>
<1> SUFFICES ASSUME busy = {} PROVE RankingOfList = << >>
  OBVIOUS
<1>1. Cardinality(busy) = 0
  BY FS_EmptySet
<1>2. QED
  BY <1>1 DEF RankingOfList

LEMMA InitRefines == Init => Promise!RInit
<1> SUFFICES ASSUME Init PROVE Promise!RInit
  OBVIOUS
<1>1. busy = {} /\ evicted = NULL
  BY DEF Init, busy
<1>2. QED
  BY <1>1, NothingListed DEF Promise!RInit

LEMMA FlushRefines == Flush => Promise!Clear
<1> SUFFICES ASSUME Flush PROVE Promise!Clear
  OBVIOUS
<1>1. busy' = {} /\ evicted' = NULL
  BY DEF Flush, busy
<1>2. (busy = {} => RankingOfList = << >>)'
  BY NothingListed, PTL
<1>3. QED
  BY <1>1, <1>2 DEF Promise!Clear

-----------------------------------------------------------------------------
(* The refinement. *)

\* The linked list, the pool and the map of class CacheSet implement the ranked
\* set of tags, for every associativity, every set of tags, every MAX_FREQ, both
\* policies, and clients that insert present tags or do not.
THEOREM SetImplementsRankedSet == Spec => ImplementsRankedSet
<1>1. IInv /\ IInv' /\ [Next]_vars => [Promise!RNext]_(Promise!rvars)
  <2> SUFFICES ASSUME IInv, IInv', [Next]_vars
               PROVE  [Promise!RNext]_(Promise!rvars)
    OBVIOUS
  <2>1. ASSUME NEW a \in Addr, NEW isLoad \in Kinds, Access(a, isLoad)
        PROVE  Promise!RNext
    <3>1. isLoad \in BOOLEAN
      BY ClientAssumption
    <3>2. Promise!Use(a, isLoad)
      BY <2>1, <3>1, AccessRefines
    <3>3. QED
      BY <3>1, <3>2 DEF Promise!RNext
  <2>2. ASSUME NEW a \in Addr, NEW isLoad \in Kinds, InsertFree(a, isLoad)
        PROVE  Promise!RNext
    <3>1. isLoad \in BOOLEAN
      BY ClientAssumption
    <3>2. Promise!Insert(a, isLoad)
      BY <2>2, <3>1, InsertFreeRefines
    <3>3. QED
      BY <3>1, <3>2 DEF Promise!RNext
  <2>3. ASSUME NEW a \in Addr, NEW isLoad \in Kinds, InsertEvict(a, isLoad)
        PROVE  Promise!RNext
    <3>1. isLoad \in BOOLEAN
      BY ClientAssumption
    <3>2. Promise!Insert(a, isLoad)
      BY <2>3, <3>1, InsertEvictRefines
    <3>3. QED
      BY <3>1, <3>2 DEF Promise!RNext
  <2>4. ASSUME NEW a \in Addr, Evict(a)
        PROVE  Promise!RNext
    BY <2>4, EvictRefines DEF Promise!RNext
  <2>5. CASE Flush
    BY <2>5, FlushRefines DEF Promise!RNext
  <2>6. CASE UNCHANGED vars
    <3>1. busy' = busy /\ next' = next /\ addr' = addr /\ freq' = freq
          /\ dirty' = dirty /\ addr_map' = addr_map /\ evicted' = evicted
      BY <2>6 DEF vars, busy
    <3>2. RankingOfList' = RankingOfList
      BY <3>1 DEF RankingOfList, Content
    <3>3. QED
      BY <3>1, <3>2 DEF Promise!rvars
  <2>7. QED
    BY <2>1, <2>2, <2>3, <2>4, <2>5, <2>6 DEF Next
<1>2. QED
  BY <1>1, InitRefines, SetInvariant, PTL DEF Spec, ImplementsRankedSet, Promise!RSpec

=============================================================================
