------------------------------ MODULE CacheSet ------------------------------
(***************************************************************************)
(* One set of the functional cache of src/pcc/tlb.h under the two eviction *)
(* policies the program uses: 0 (LRU, the three TLBs) and 2 (LFU, the      *)
(* promotion cache).  The list is kept in replacement order, the victim is *)
(* the last line.                                                          *)
(***************************************************************************)
EXTENDS CacheLines

CONSTANTS
  Policy,               (* eviction_policy of the constructor              *)
  InsertAfterMissOnly,  (* TRUE when the client inserts only absent tags   *)
  Kinds                 (* the values of isLoad the client passes          *)

LRU == 0
LFU == 2

ASSUME PolicyAssumption == Policy \in {LRU, LFU}
ASSUME ClientAssumption ==
  InsertAfterMissOnly \in BOOLEAN /\ Kinds \subseteq BOOLEAN

\* Mutant: a line used last enters at the back.
BackAt(N, at) == at = tail

\* insertFront places a line right after the head.
FrontAt(N, at) == at = N[head]

\* Mutant: the walk also passes the lines used exactly f times.
LFUAtPastEquals(P, f, at) ==
  /\ freq[at] < f \/ at = tail
  /\ P[at] = head \/ freq[P[at]] >= f

\* insertLFU walks past every line used more often than f.  The list is in
\* descending order of use (ChainedInOrder), so the walk ends at the one node
\* that is used at most f times and whose predecessor is used more often.
LFUAt(P, f, at) ==
  /\ freq[at] <= f
  /\ P[at] = head \/ freq[P[at]] > f

\* Mutant: LFU lines enter at the front, as LRU lines do.
PlaceAtFront(c, L, N, P, f) ==
  /\ next' = LinkNext(N, P, c, N[head])
  /\ prev' = LinkPrev(P, c, N[head])

\* Thread c into the list held by the lines L, whose links are N and P.
Place(c, L, N, P, f) ==
  \E at \in L \cup {tail} :
    /\ \/ Policy = LRU /\ FrontAt(N, at)
       \/ Policy = LFU /\ LFUAt(P, f, at)
    /\ next' = LinkNext(N, P, c, at)
    /\ prev' = LinkPrev(P, c, at)

\* decay_freqs halves the counter of every line of the list.
Decay(F) == [n \in Node |-> IF n \in busy THEN F[n] \div 2 ELSE F[n]]

\* Mutant: the counters are never halved.
CountedForever(c) == [freq EXCEPT ![c] = @ + 1]

\* The hit is counted; the counter that reaches MAX_FREQ decays all of them.
Counted(c) ==
  LET F == [freq EXCEPT ![c] = @ + 1]
  IN  IF F[c] = MaxFreq THEN Decay(F) ELSE F

-----------------------------------------------------------------------------
(* The operations. *)

\* Mutant: the hit is counted before the line is moved.
AccessCountsFirst(a, isLoad) ==
  LET c == addr_map[a] IN
  /\ c # NULL
  /\ Place(c, busy \ {c}, UnlinkNext(c), UnlinkPrev(c), freq[c] + 1)
  /\ dirty' = [dirty EXCEPT ![c] = @ \/ ~isLoad]
  /\ freq' = Counted(c)
  /\ evicted' = NULL
  /\ UNCHANGED <<free, addr_map, addr>>

\* access() that hits.  One that misses changes nothing a caller can see.
Access(a, isLoad) ==
  LET c == addr_map[a] IN
  /\ c # NULL
  /\ Place(c, busy \ {c}, UnlinkNext(c), UnlinkPrev(c), freq[c])
  /\ dirty' = [dirty EXCEPT ![c] = @ \/ ~isLoad]
  /\ freq' = Counted(c)
  /\ evicted' = NULL
  /\ UNCHANGED <<free, addr_map, addr>>

\* huge_page_reuse.h tests before it inserts, except at line 104.
MayInsert(a) == InsertAfterMissOnly => addr_map[a] = NULL

\* insert() with an unused line left.
InsertFree(a, isLoad) ==
  /\ MayInsert(a)
  /\ \E c \in free :
       /\ free' = free \ {c}
       /\ addr_map' = [addr_map EXCEPT ![a] = c]
       /\ Fill(c, a, isLoad)
       /\ Place(c, busy, next, prev, 0)
  /\ evicted' = NULL

\* Mutant: the tag of the victim stays in the map.
InsertEvictKeepsTag(a, isLoad) ==
  LET c == prev[tail] IN
  /\ MayInsert(a)
  /\ free = {}
  /\ c # head
  /\ addr_map' = [addr_map EXCEPT ![a] = c]
  /\ evicted' = [addr |-> addr[c], dirty |-> dirty[c]]
  /\ Fill(c, a, isLoad)
  /\ Place(c, busy \ {c}, UnlinkNext(c), UnlinkPrev(c), 0)
  /\ UNCHANGED free

\* insert() into a full set: the last line is the victim.
InsertEvict(a, isLoad) ==
  LET c == prev[tail] IN
  /\ MayInsert(a)
  /\ free = {}
  /\ c # head
  /\ addr_map' = [addr_map EXCEPT ![addr[c]] = NULL, ![a] = c]
  /\ evicted' = [addr |-> addr[c], dirty |-> dirty[c]]
  /\ Fill(c, a, isLoad)
  /\ Place(c, busy \ {c}, UnlinkNext(c), UnlinkPrev(c), 0)
  /\ UNCHANGED free

Next ==
  \/ \E a \in Addr, isLoad \in Kinds :
       \/ Access(a, isLoad)
       \/ InsertFree(a, isLoad)
       \/ InsertEvict(a, isLoad)
  \/ \E a \in Addr : Evict(a)
  \/ Flush

Spec == Init /\ [][Next]_vars

-----------------------------------------------------------------------------
(* Properties. *)

\* The lines L form one chain from the head to the tail along the links N, and
\* P holds the converse of every link; pos is the place of a node on it.
Chain(L, N, P, pos) ==
  /\ pos[head] = 0
  /\ pos[tail] = Cardinality(L) + 1
  /\ \A n \in L : pos[n] \in 1 .. Cardinality(L)
  /\ \A m, n \in L : pos[m] = pos[n] => m = n
  /\ \A n \in L \cup {head} :
       N[n] \in L \cup {tail} /\ P[N[n]] = n /\ pos[N[n]] = pos[n] + 1
  /\ \A n \in L \cup {tail} :
       P[n] \in L \cup {head} /\ N[P[n]] = n

\* The lines L stand in descending order of the counters F.
Descending(L, F, pos) == \A m, n \in L : pos[m] < pos[n] => F[m] >= F[n]

\* The lines in use, and no other line, form one chain, in both directions:
\* every "while (c != tail)" of the class ends and visits each line in use.
\* Under LFU the chain is in descending order of use, so that the walk of
\* insertLFU finds the right place and the last line is the right victim.
ChainedInOrder ==
  \E pos \in [Node -> Node] :
    /\ Chain(busy, next, prev, pos)
    /\ Policy = LFU => Descending(busy, freq, pos)

\* A tag that hits leads to a line in use that holds this very tag, even when
\* the client inserts a tag that is present (huge_page_reuse.h:104 does).
HitsAreResident ==
  \A a \in Addr : addr_map[a] # NULL =>
    /\ addr_map[a] \in busy
    /\ addr[addr_map[a]] = a

\* With a client that inserts only after a miss, no line in use is out of
\* reach of the map: every resident line can be hit and evicted by its tag.
ResidentsHit ==
  InsertAfterMissOnly =>
    \A c \in busy : addr[c] \in Addr /\ addr_map[addr[c]] = c

\* The assertion c!=head of insert(): a full set has a victim.
VictimExists == free = {} => prev[tail] # head

\* Under LFU what insert() throws out is a line that was used no more often
\* than any other resident line.
VictimIsLeastUsed ==
  [][ \A v \in busy :
        (/\ Policy = LFU
         /\ free = {}
         /\ free' = {}
         /\ addr'[v] # addr[v])
        => \A c \in busy : freq[v] <= freq[c] ]_vars

=============================================================================
