----------------------------- MODULE CacheLines -----------------------------
(***************************************************************************)
(* The data of one set of the functional cache of src/pcc/tlb.h (class     *)
(* CacheSet): a fixed array of cache lines, threaded on a doubly linked    *)
(* list between two sentinels, a pool of unused lines and a map from tags  *)
(* to lines.  The operations here are those that no eviction policy        *)
(* changes; CacheSet adds hits and insertions.                             *)
(*                                                                         *)
(* Pointers are the C pointers: a line that leaves the list keeps its own  *)
(* next and prev, as deleteNode leaves them.  freeEntries is a stack in    *)
(* the code; which unused line an insertion takes is not observable, so    *)
(* the pool is a set.  The page offset stored with a tag is left out.      *)
(***************************************************************************)
EXTENDS Naturals, FiniteSets

CONSTANTS
  Addr,                 (* the tags that map to this set                   *)
  Associativity,        (* number of lines                                 *)
  MaxFreq,              (* MAX_FREQ: a counter that reaches it decays all  *)
  NULL

ASSUME AssocAssumption == Associativity \in Nat \ {0}
ASSUME FreqAssumption  == MaxFreq \in Nat \ {0}
ASSUME NullAssumption  == NULL \notin Nat /\ NULL \notin Addr

Lines == 1 .. Associativity
head  == 0
tail  == Associativity + 1
Node  == 0 .. Associativity + 1

VARIABLES
  next, prev,  (* the links of every node, the sentinels included         *)
  free,        (* freeEntries                                             *)
  addr_map,    (* tag -> line; NULL stands for a missing or a null entry  *)
  addr,        (* CacheLine::addr                                         *)
  freq,        (* CacheLine::freq, 0 in the sentinels                     *)
  dirty,       (* CacheLine::dirty                                        *)
  evicted      (* what the last call reported as evicted                  *)

vars == <<next, prev, free, addr_map, addr, freq, dirty, evicted>>

busy == Lines \ free

TypeOK ==
  /\ next \in [Node -> Node \cup {NULL}]
  /\ prev \in [Node -> Node \cup {NULL}]
  /\ free \in SUBSET Lines
  /\ addr_map \in [Addr -> Lines \cup {NULL}]
  /\ addr \in [Lines -> Addr \cup {NULL}]
  /\ freq \in [Node -> 0 .. MaxFreq - 1]
  /\ dirty \in [Lines -> BOOLEAN]
  /\ evicted \in [addr : Addr, dirty : BOOLEAN] \cup {NULL}

-----------------------------------------------------------------------------
(* The list primitives. *)

\* deleteNode: the neighbours of c are joined, c keeps its own links.
UnlinkNext(c) == [next EXCEPT ![prev[c]] = next[c]]
UnlinkPrev(c) == [prev EXCEPT ![next[c]] = prev[c]]

\* Mutant: the node behind keeps its old predecessor.
LinkPrevOneWay(P, c, at) == [P EXCEPT ![c] = P[at]]

\* The four assignments that thread c in front of node at.
LinkNext(N, P, c, at) == [N EXCEPT ![c] = at, ![P[at]] = c]
LinkPrev(P, c, at)    == [P EXCEPT ![c] = P[at], ![at] = c]

-----------------------------------------------------------------------------
(* The operations. *)

Init ==
  /\ next = [n \in Node |-> IF n = head THEN tail ELSE NULL]
  /\ prev = [n \in Node |-> IF n = tail THEN head ELSE NULL]
  /\ free = Lines
  /\ addr_map = [a \in Addr |-> NULL]
  /\ addr = [c \in Lines |-> NULL]
  /\ freq = [n \in Node |-> 0]
  /\ dirty = [c \in Lines |-> FALSE]
  /\ evicted = NULL

\* The part of insert() that fills the chosen line.
Fill(c, a, isLoad) ==
  /\ addr' = [addr EXCEPT ![c] = a]
  /\ dirty' = [dirty EXCEPT ![c] = ~isLoad]
  /\ freq' = [freq EXCEPT ![c] = 0]

\* evict(): the callers pass a tag that access() has just found.
Evict(a) ==
  LET c == addr_map[a] IN
  /\ c # NULL
  /\ addr_map' = [addr_map EXCEPT ![addr[c]] = NULL]
  /\ evicted' = [addr |-> a, dirty |-> dirty[c]]
  /\ next' = UnlinkNext(c)
  /\ prev' = UnlinkPrev(c)
  /\ free' = free \cup {c}
  /\ UNCHANGED <<addr, freq, dirty>>

\* flush(): the lines are unlinked from the front, one after the other, so
\* each of them has the head as its predecessor when it leaves.
Flush ==
  /\ busy # {}
  /\ addr_map' = [a \in Addr |-> IF \E c \in busy : addr[c] = a
                                 THEN NULL ELSE addr_map[a]]
  /\ next' = [next EXCEPT ![head] = tail]
  /\ prev' = [n \in Node |-> IF n \in busy \cup {tail} THEN head ELSE prev[n]]
  /\ free' = Lines
  /\ evicted' = NULL
  /\ UNCHANGED <<addr, freq, dirty>>

=============================================================================
