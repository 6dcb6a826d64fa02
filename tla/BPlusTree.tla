----------------------------- MODULE BPlusTree ------------------------------
(***************************************************************************)
(* The B+ tree of src/benchmarks/btree/btree1.c: insertion with splits,    *)
(* deletion with coalescence and redistribution, lookups, and the slab     *)
(* pools of nodes and records.  The program is sequential while it changes *)
(* the tree, so each call is one step.                                     *)
(*                                                                         *)
(* A node is a record with its keys and pointers as sequences (num_keys is *)
(* a length); the pointer order - 1 of a leaf is its field next.  The      *)
(* operators take and return a tree: root, heap, pools.  Which place of a  *)
(* slab a record takes is not observable: that of key k is called k.       *)
(***************************************************************************)
EXTENDS OrderedMap, Integers, FiniteSets, Sequences, SequencesExt, FiniteSetsExt

CONSTANTS
  Orders,       (* values of the option that sets order                    *)
  MaxNodes      (* nodes of the slab: enough for every tree of these keys  *)

ASSUME OrderAssumption == Orders \subseteq Nat \ {0, 1, 2}
ASSUME KeyAssumption   == Key \subseteq Nat

NodeIds == 1 .. MaxNodes

VARIABLES
  order,        (* order, set before the first call                        *)
  tree          (* root, heap, free_nodes, and the value of each record    *)

vars == <<map, order, tree>>

Unused == [leaf |-> FALSE, keys |-> <<>>, ptrs |-> <<>>, parent |-> NULL, next |-> NULL]

Init ==
  /\ MInit
  /\ order \in Orders
  /\ tree = [root |-> NULL, heap |-> [n \in NodeIds |-> Unused], free |-> NodeIds,
             rec |-> [k \in Key |-> NULL]]

-----------------------------------------------------------------------------
(* Nodes. *)

\* cut: where a node that is too big is split.
Cut(length) == IF length % 2 = 0 THEN length \div 2 ELSE length \div 2 + 1

\* The index of v in s, counted from 1.
IndexIn(s, v) == CHOOSE i \in DOMAIN s : s[i] = v

\* Which node of the pool is taken is not observable: the least one.
NewNode(t) == Min(t.free)

Alloc(t, n, node) ==
  [t EXCEPT !.heap[n] = node, !.free = @ \ {n}]

\* Mutant: the slab never gets the node back.
FreeNothing(t, n) == t

FreeNode(t, n) == [t EXCEPT !.heap[n] = Unused, !.free = @ \cup {n}]

\* The children listed in ptrs get a new parent.
Adopt(t, ptrs, p) ==
  [t EXCEPT !.heap = [m \in NodeIds |-> IF \E i \in DOMAIN ptrs : ptrs[i] = m
                                        THEN [@[m] EXCEPT !.parent = p] ELSE @[m]]]

-----------------------------------------------------------------------------
(* Lookup. *)

\* Mutant: a key equal to a separator goes left.
ChildPastLess(node, k) == 1 + Cardinality({i \in DOMAIN node.keys : node.keys[i] < k})

Child(node, k) == 1 + Cardinality({i \in DOMAIN node.keys : node.keys[i] <= k})

RECURSIVE Descend(_, _, _)
Descend(t, c, k) ==
  IF t.heap[c].leaf THEN c ELSE Descend(t, t.heap[c].ptrs[Child(t.heap[c], k)], k)

\* find_leaf.
FindLeaf(t, k) == IF t.root = NULL THEN NULL ELSE Descend(t, t.root, k)

\* find: the record of k, or NULL.
Find(t, k) ==
  LET n == FindLeaf(t, k) IN
  IF n = NULL \/ ~ Contains(t.heap[n].keys, k) THEN NULL
  ELSE t.heap[n].ptrs[IndexIn(t.heap[n].keys, k)]

\* Mutant: the walk along the leaves stops at the second.
ScanOneLeaf(t, n, b) == IF n = NULL THEN {} ELSE {k \in ToSet(t.heap[n].keys) : k <= b}

\* The keys found by find_range from leaf n on, up to b.
RECURSIVE Scan(_, _, _)
Scan(t, n, b) ==
  IF n = NULL THEN {}
  ELSE {k \in ToSet(t.heap[n].keys) : k <= b} \cup Scan(t, t.heap[n].next, b)

\* find_range: nothing is found when the leaf of a has only smaller keys.
FindRange(t, a, b) ==
  LET n == FindLeaf(t, a) IN
  IF n = NULL \/ \A k \in ToSet(t.heap[n].keys) : k < a THEN {}
  ELSE {k \in ToSet(t.heap[n].keys) : a <= k /\ k <= b} \cup Scan(t, t.heap[n].next, b)

-----------------------------------------------------------------------------
(* Insertion. *)

\* insert_into_new_root.
InsertIntoNewRoot(t, left, key, right) ==
  LET r == NewNode(t)
      u == Alloc(t, r, [Unused EXCEPT !.keys = <<key>>, !.ptrs = <<left, right>>])
  IN  [Adopt(u, <<left, right>>, r) EXCEPT !.root = r]

\* insert_into_node: key and right go behind the pointer to left.
InsertIntoNode(t, n, i, key, right) ==
  [t EXCEPT !.heap[n].keys = InsertAt(@, i, key),
            !.heap[n].ptrs = InsertAt(@, i + 1, right)]

\* insert_into_parent, with insert_into_node_after_splitting for a parent that
\* is full: the key in the middle goes up.
RECURSIVE InsertIntoParent(_, _, _, _)
InsertIntoParent(t, left, key, right) ==
  LET p == t.heap[left].parent IN
  IF p = NULL THEN InsertIntoNewRoot(t, left, key, right)
  ELSE
    LET i == IndexIn(t.heap[p].ptrs, left) IN
    IF Len(t.heap[p].keys) < order - 1 THEN InsertIntoNode(t, p, i, key, right)
    ELSE
      LET keys  == InsertAt(t.heap[p].keys, i, key)
          ptrs  == InsertAt(t.heap[p].ptrs, i + 1, right)
          split == Cut(order)
          q     == NewNode(t)
          moved == SubSeq(ptrs, split + 1, order + 1)
          u     == Alloc(t, q, [Unused EXCEPT
                      !.keys = SubSeq(keys, split + 1, order), !.ptrs = moved,
                      !.parent = t.heap[p].parent])
          v     == [u EXCEPT !.heap[p].keys = SubSeq(keys, 1, split - 1),
                             !.heap[p].ptrs = SubSeq(ptrs, 1, split)]
      IN  InsertIntoParent(Adopt(v, moved, q), p, keys[split], q)

LeafPlace(node, k) == 1 + Cardinality({i \in DOMAIN node.keys : node.keys[i] < k})

\* insert_into_leaf.
InsertIntoLeaf(t, n, k, r) ==
  LET i == LeafPlace(t.heap[n], k)
  IN  [t EXCEPT !.heap[n].keys = InsertAt(@, i, k), !.heap[n].ptrs = InsertAt(@, i, r)]

\* Mutant: the new leaf does not take over the successor.
LinkedLast(t, n, q) == [t EXCEPT !.heap[n].next = q]

\* The leaf q joins the chain behind n.
Linked(t, n, q) == [t EXCEPT !.heap[q].next = t.heap[n].next, !.heap[n].next = q]

\* insert_into_leaf_after_splitting.
SplitLeaf(t, n, k, r) ==
  LET keys  == InsertAt(t.heap[n].keys, LeafPlace(t.heap[n], k), k)
      ptrs  == InsertAt(t.heap[n].ptrs, LeafPlace(t.heap[n], k), r)
      split == Cut(order - 1)
      q     == NewNode(t)
      u     == Alloc(t, q, [Unused EXCEPT !.leaf = TRUE, !.keys = SubSeq(keys, split + 1, order),
                            !.ptrs = SubSeq(ptrs, split + 1, order), !.parent = t.heap[n].parent])
      v     == [u EXCEPT !.heap[n].keys = SubSeq(keys, 1, split),
                         !.heap[n].ptrs = SubSeq(ptrs, 1, split)]
  IN  InsertIntoParent(Linked(v, n, q), n, keys[split + 1], q)

\* insert: an existing record gets the value; a new key, a record and a place.
Inserted(t, k, v) ==
  LET u == [t EXCEPT !.rec[k] = v]
      n == FindLeaf(t, k)
      m == NewNode(t)
  IN  CASE Find(t, k) # NULL -> [t EXCEPT !.rec[Find(t, k)] = v]
        [] n = NULL -> [Alloc(u, m, [Unused EXCEPT !.leaf = TRUE, !.keys = <<k>>, !.ptrs = <<k>>])
                          EXCEPT !.root = m]
        [] OTHER -> IF Len(t.heap[n].keys) < order - 1 THEN InsertIntoLeaf(u, n, k, k)
                    ELSE SplitLeaf(u, n, k, k)

-----------------------------------------------------------------------------
(* Deletion. *)

\* remove_entry_from_node.
RemoveEntry(t, n, key, ptr) ==
  [t EXCEPT !.heap[n].keys = RemoveAt(@, IndexIn(@, key)),
            !.heap[n].ptrs = RemoveAt(@, IndexIn(@, ptr))]

\* adjust_root: an empty root leaves, and its only child takes its place.
AdjustRoot(t) ==
  LET r == t.heap[t.root] IN
  IF Len(r.keys) > 0 THEN t
  ELSE IF r.leaf THEN [FreeNode(t, t.root) EXCEPT !.root = NULL]
  ELSE [FreeNode(Adopt(t, r.ptrs, NULL), t.root) EXCEPT !.root = r.ptrs[1]]

\* Mutant: a node may fall one below the minimum.
LessThanMin(node) == IF node.leaf THEN Cut(order - 1) - 1 ELSE Cut(order) - 2

MinKeys(node) == IF node.leaf THEN Cut(order - 1) ELSE Cut(order) - 1

\* Mutant: a leaf takes one key too many.
RoomierLeaf(node) == IF node.leaf THEN order + 1 ELSE order - 1

Capacity(node) == IF node.leaf THEN order ELSE order - 1

\* coalesce_nodes: what right holds is appended to left.
Append2(t, left, right, k_prime) ==
  LET l == t.heap[left]
      r == t.heap[right]
  IN  IF r.leaf
      THEN [t EXCEPT !.heap[left].keys = l.keys \o r.keys,
                     !.heap[left].ptrs = l.ptrs \o r.ptrs,
                     !.heap[left].next = r.next]
      ELSE Adopt([t EXCEPT !.heap[left].keys = l.keys \o <<k_prime>> \o r.keys,
                           !.heap[left].ptrs = l.ptrs \o r.ptrs], r.ptrs, left)

\* redistribute_nodes with a neighbour to the left: its last entry comes over.
FromLeft(t, n, left, i, k_prime) ==
  LET l == t.heap[left]
      c == t.heap[n]
      u == [t EXCEPT !.heap[left].keys = Front(@), !.heap[left].ptrs = Front(@),
                     !.heap[n].ptrs = <<Last(l.ptrs)>> \o @,
                     !.heap[n].keys = <<IF c.leaf THEN Last(l.keys) ELSE k_prime>> \o @,
                     !.heap[c.parent].keys[i] = Last(l.keys)]
  IN  IF c.leaf THEN u ELSE Adopt(u, <<Last(l.ptrs)>>, n)

\* Mutant: the separator is the key that moves, in a leaf too.
SeparatorMoves(right) == right.keys[1]

\* The separator once the first entry of right has moved to its left.
Separator(right) == IF right.leaf THEN right.keys[2] ELSE right.keys[1]

\* redistribute_nodes of a leftmost child: the first entry of its neighbour.
FromRight(t, n, right, i, k_prime) ==
  LET r == t.heap[right]
      c == t.heap[n]
      u == [t EXCEPT !.heap[right].keys = Tail(@), !.heap[right].ptrs = Tail(@),
                     !.heap[n].ptrs = @ \o <<Head(r.ptrs)>>,
                     !.heap[n].keys = @ \o <<IF c.leaf THEN Head(r.keys) ELSE k_prime>>,
                     !.heap[c.parent].keys[i] = Separator(r)]
  IN  IF c.leaf THEN u ELSE Adopt(u, <<Head(r.ptrs)>>, n)

\* delete_entry, with coalesce_nodes and redistribute_nodes.
RECURSIVE DeleteEntry(_, _, _, _)
DeleteEntry(t, n, key, ptr) ==
  LET u == RemoveEntry(t, n, key, ptr)
      c == u.heap[n]
      p == u.heap[c.parent]
      at        == IndexIn(p.ptrs, n)
      i         == IF at = 1 THEN 1 ELSE at - 1
      k_prime   == p.keys[i]
      neighbour == IF at = 1 THEN p.ptrs[2] ELSE p.ptrs[at - 1]
      left      == IF at = 1 THEN n ELSE neighbour
      right     == IF at = 1 THEN neighbour ELSE n
  IN  IF n = t.root THEN AdjustRoot(u)
      ELSE IF Len(c.keys) >= MinKeys(c) THEN u
      ELSE IF Len(u.heap[neighbour].keys) + Len(c.keys) < Capacity(c)
      THEN FreeNode(DeleteEntry(Append2(u, left, right, k_prime), c.parent, k_prime, right), right)
      ELSE IF at = 1 THEN FromRight(u, n, neighbour, i, k_prime)
      ELSE FromLeft(u, n, neighbour, i, k_prime)

\* delete: of a key that is there; its record goes back to the pool.
Deleted(t, k) ==
  IF Find(t, k) = NULL THEN t
  ELSE [DeleteEntry(t, FindLeaf(t, k), k, Find(t, k)) EXCEPT !.rec[Find(t, k)] = NULL]

-----------------------------------------------------------------------------

Insert(k, v) ==
  /\ tree' = Inserted(tree, k, v)
  /\ Put(k, v)
  /\ UNCHANGED order

Delete(k) ==
  /\ tree' = Deleted(tree, k)
  /\ Unmap(k)
  /\ UNCHANGED order

Next == \E k \in Key : Delete(k) \/ \E v \in Value : Insert(k, v)

Spec == Init /\ [][Next]_vars

-----------------------------------------------------------------------------
(* Properties. *)

Live == NodeIds \ tree.free

Node(n) == tree.heap[n]

\* The nodes below n, itself included.
RECURSIVE Below(_)
Below(n) == IF Node(n).leaf THEN {n} ELSE {n} \cup UNION {Below(m) : m \in ToSet(Node(n).ptrs)}

Tree == IF tree.root = NULL THEN {} ELSE Below(tree.root)

RECURSIVE Depth(_)
Depth(n) == IF Node(n).parent = NULL THEN 0 ELSE 1 + Depth(Node(n).parent)

\* The state of the tree: keys fit, ascend, and every key has a pointer (a node
\* one pointer more than keys), before and after any split or merge.
TypeOK ==
  /\ tree.root \in NodeIds \cup {NULL}
  /\ tree.free \subseteq NodeIds
  /\ tree.rec \in [Key -> Value \cup {NULL}]
  /\ \A n \in Live : LET c == Node(n) IN
       /\ Len(c.keys) <= order - 1
       /\ \A i \in 1 .. Len(c.keys) - 1 : c.keys[i] < c.keys[i + 1]
       /\ Len(c.ptrs) = Len(c.keys) + (IF c.leaf THEN 0 ELSE 1)

\* Every key below a pointer lies between the separators beside it, all leaves
\* are equally deep, and each child points back at its parent: what find_leaf,
\* get_left_index and get_neighbor_index take for granted.
SearchTree ==
  /\ tree.root # NULL => Node(tree.root).parent = NULL
  /\ \A n, m \in Tree : Node(n).leaf /\ Node(m).leaf => Depth(n) = Depth(m)
  /\ \A n \in Tree : ~ Node(n).leaf =>
       \A i \in DOMAIN Node(n).ptrs :
         LET m == Node(n).ptrs[i] IN
         /\ Node(m).parent = n
         /\ \A k \in UNION {ToSet(Node(b).keys) : b \in Below(m)} :
              /\ i > 1 => Node(n).keys[i - 1] <= k
              /\ i < Len(Node(n).ptrs) => k < Node(n).keys[i]

\* No node but the root is below its minimum occupancy, however keys are
\* deleted: the height stays logarithmic.
Occupancy == \A n \in Tree \ {tree.root} :
  Len(Node(n).keys) >= (IF Node(n).leaf THEN order \div 2 ELSE (order - 1) \div 2)

RECURSIVE ChainKeys(_)
ChainKeys(n) == IF n = NULL THEN <<>> ELSE Node(n).keys \o ChainKeys(Node(n).next)

\* The chain of leaves, as print_leaves and find_range walk it, holds exactly
\* the keys of the map, in order.
LeafChain == tree.root # NULL =>
  \E first \in Tree :
    LET chain == ChainKeys(first) IN
    /\ Node(first).leaf
    /\ ToSet(chain) = {k \in Key : map[k] # NULL}
    /\ \A i \in 1 .. Len(chain) - 1 : chain[i] < chain[i + 1]

\* No call loses a node or a record of the pools, nor frees one in use.
NoLeak ==
  /\ Live = Tree
  /\ \A k \in Key : tree.rec[k] # NULL <=> \E n \in Tree : Node(n).leaf /\ Contains(Node(n).ptrs, k)

\* find answers as the map does: it reaches the record of the key it is asked
\* for, with the value last inserted, and no record for a key that is deleted.
FindAgrees == \A k \in Key :
  LET r == Find(tree, k) IN
  IF map[k] = NULL THEN r = NULL ELSE r = k /\ tree.rec[r] = map[k]

\* k lies behind the last key of a leaf and before the first of the next.
BetweenLeaves(k) == \E n \in Tree :
  LET c == Node(n) IN
  /\ c.leaf /\ c.next # NULL
  /\ Last(c.keys) < k /\ k < Node(c.next).keys[1]

\* find_range finds all keys of a range (btree1.c:586), whatever was inserted and
\* deleted before and however many leaves the range covers.  It misses one kind of
\* range, and that as a whole: one that begins between two leaves.
RangeAllOrNothing == \A a, b \in Key :
  LET range == {k \in Key : map[k] # NULL /\ a <= k /\ k <= b}
      found == FindRange(tree, a, b)
  IN  found = range \/ (found = {} /\ BetweenLeaves(a))

=============================================================================
