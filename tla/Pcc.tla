-------------------------------- MODULE Pcc ---------------------------------
(***************************************************************************)
(* The promotion candidate cache simulation of src/pcc/huge_page_reuse.h   *)
(* and main.cpp: three TLBs and the promotion cache, driven by a trace of  *)
(* page accesses.  Each cache is a Ranking, one set of it (an address that *)
(* maps to another set meets other entries in the same way).               *)
(*                                                                         *)
(* A page is its number vaddr / PAGE_SIZE, a region is the number          *)
(* vaddr / HUGE_PAGE_SIZE of Ratio pages.  The tags of a cache are page or *)
(* region numbers, according to the is2M flag of the call: in l2_tlb and   *)
(* in promotion_cache they share one map.                                  *)
(***************************************************************************)
EXTENDS Ranking, Integers

CONSTANTS
  Trace,           (* the pages the trace touches                          *)
  Ratio,           (* HUGE_PAGE_SIZE / PAGE_SIZE                           *)
  L1Assoc,         (* lines of a set of either L1 TLB                      *)
  L2Assoc,         (* lines of a set of the L2 TLB                         *)
  PromotionSize,   (* PROMOTION_CACHE_SIZE                                 *)
  AccessInterval,  (* ACCESS_INTERVAL                                      *)
  Factor           (* FACTOR                                               *)

ASSUME FreqAssumption  == MaxFreq \in Nat \ {0}
ASSUME TraceAssumption == Trace \subseteq Nat
ASSUME SizeAssumption  ==
  /\ {Ratio, L1Assoc, L2Assoc, PromotionSize} \subseteq Nat \ {0}
  /\ {AccessInterval, Factor} \subseteq Nat \ {0}

\* The promotion cache has no more entries than a region has pages, as with the
\* 128 of main.cpp:8 and the 512 of tlb.h:19-20: Unmap2M is exact only then.
ASSUME CapacityAssumption == PromotionSize <= Ratio

Region(p)  == p \div Ratio
PagesOf(B) == {b * Ratio + k : b \in B, k \in 0 .. Ratio - 1}

VARIABLES
  l1_4k, l1_2m, l2, promotion_cache,   (* the four caches                  *)
  evicted_addr,   (* what line 122 computes from l1_4k_evicted_tag and its
                     offset; -1 until the first eviction                   *)
  reuse_map,      (* key -> "cold" (first field 0) or "timed"              *)
  promotions,     (* the keys of pcc_promotions                            *)
  accesses,       (* total_num_accesses, modulo the period from there on   *)
  early,          (* total_num_accesses < ACCESS_INTERVAL                  *)
  ended,          (* the trace is over                                     *)
  measured,       (* history: the regions that entered or hit the promotion
                     cache since the last summary                          *)
  lost            (* history: did the last access make the promotion cache
                     give up an entry, and which key of reuse_map was reset *)

caches == <<l1_4k, l1_2m, l2, promotion_cache>>
pvars  == <<caches, evicted_addr, reuse_map, promotions, accesses, early,
            ended, measured, lost>>

Period == Factor * AccessInterval

Init ==
  /\ l1_4k = <<>> /\ l1_2m = <<>> /\ l2 = <<>> /\ promotion_cache = <<>>
  /\ evicted_addr = -1
  /\ reuse_map = <<>>
  /\ promotions = {}
  /\ accesses = 0
  /\ early = TRUE
  /\ ended = FALSE
  /\ measured = {}
  /\ lost = [evicted |-> FALSE, reset |-> -1]

-----------------------------------------------------------------------------
(* Helpers. *)

EntriesOf(cache) == {cache[i] : i \in DOMAIN cache}
Addrs(cache) == {e.addr : e \in EntriesOf(cache)}

Entry(a, off, huge) ==
  [addr |-> a, freq |-> 0, live |-> TRUE, off |-> off, huge |-> huge]

\* A hit in a TLB.  Nothing reads the counters of an LRU set, they stay 0.
TouchTLB(tlb, a) ==
  IF Hits(tlb, a)
  THEN LET i == CHOOSE i \in Slots(tlb, a) : TRUE
       IN  <<tlb[i]>> \o RemoveAt(tlb, i)
  ELSE tlb

Put(tlb, assoc, a, huge) == Inserted(LRU, assoc, tlb, Entry(a, 0, huge))

\* l1_4k_evicted_tag after an insertion: a full set reports the page it gives
\* up, a set with room leaves what an earlier call reported.
Reported(tlb, before) == IF Full(tlb, L1Assoc) THEN Last(tlb).addr ELSE before

With(f, k, v) == [x \in DOMAIN f \cup {k} |-> IF x = k THEN v ELSE f[x]]

\* The caches, maps and history an access starts from.
Current ==
  [l1_4k |-> l1_4k, l1_2m |-> l1_2m, l2 |-> l2, pcc |-> promotion_cache,
   reuse |-> reuse_map, promotions |-> promotions, measured |-> measured]

\* What a summary promotes: keys that were hit and are not promoted; and what
\* it demotes: keys that are promoted.
ToPromote ==
  {e.addr : e \in {d \in EntriesOf(promotion_cache) : d.freq > 0}} \ promotions
ToDemote == Addrs(promotion_cache) \cap promotions

\* Mutant: only the first page of each region is shot down.
ShootDownFirst(cache, B) == Without(cache, {b * Ratio : b \in B})

ShootDown(cache, B) == Without(cache, PagesOf(B))

\* Mutant: the demoted regions stay.
UnmapNothing(cache, B) == cache

\* A demoted region's address has i pages added (line 54), for the i-th entry of
\* the promotion cache: as i < PromotionSize <= Ratio, it is one of the region.
Unmap2M(cache, B) == Without(cache, B)

\* Mutant: only the keys that were promoted or demoted leave the cache.
KeysDroppedIfUsed == Without(promotion_cache, ToPromote \cup ToDemote)

KeysDropped == Without(promotion_cache, Addrs(promotion_cache))

\* summarize_promotions.
Summary ==
  [l1_4k |-> ShootDown(l1_4k, ToPromote),
   l1_2m |-> Unmap2M(l1_2m, ToDemote),
   l2    |-> Unmap2M(ShootDown(l2, ToPromote), ToDemote),
   pcc   |-> KeysDropped,
   reuse |-> [k \in (DOMAIN reuse_map \cup Addrs(promotion_cache)) \ ToPromote |->
                IF k \in DOMAIN reuse_map THEN reuse_map[k] ELSE "cold"],
   promotions |-> (promotions \cup ToPromote) \ ToDemote,
   measured   |-> {}]

Counted == (accesses + 1) % Period

Due == Counted = 0 \/ (Factor > 1 /\ Counted = AccessInterval)

Start == IF Due THEN Summary ELSE Current

-----------------------------------------------------------------------------
(* pcc_track_access, one action for each way through it; s is the state    *)
(* after the summary that may come first.                                  *)

\* What every access does, and what the promotion cache leaves alone.
Tick(s) ==
  /\ ~ended
  /\ accesses' = Counted
  /\ early' = (early /\ accesses + 1 < AccessInterval)
  /\ promotions' = s.promotions
  /\ UNCHANGED ended

NoReuse(s) ==
  /\ promotion_cache' = s.pcc
  /\ reuse_map' = s.reuse
  /\ measured' = s.measured
  /\ lost' = [evicted |-> FALSE, reset |-> -1]

L1Miss(s, p) == ~Hits(s.l1_4k, p) /\ ~Hits(s.l1_2m, Region(p))

\* Mutant: the L2 TLB is asked for the page only.
L2Miss4K(s, p) == ~Hits(s.l2, p)

L2Miss(s, p) == ~Hits(s.l2, p) /\ ~Hits(s.l2, Region(p))

L1Hit(p) ==
  LET s == Start IN
  /\ Tick(s)
  /\ ~L1Miss(s, p)
  /\ l1_4k' = TouchTLB(s.l1_4k, p)
  /\ l1_2m' = TouchTLB(s.l1_2m, Region(p))
  /\ l2' = s.l2
  /\ NoReuse(s)
  /\ UNCHANGED evicted_addr

L2Hit4K(p) ==
  LET s == Start IN
  /\ Tick(s)
  /\ L1Miss(s, p)
  /\ Hits(s.l2, p)
  /\ l2' = TouchTLB(s.l2, p)
  /\ l1_4k' = Put(s.l1_4k, L1Assoc, p, FALSE)
  /\ l1_2m' = s.l1_2m
  /\ evicted_addr' = Reported(s.l1_4k, evicted_addr)
  /\ NoReuse(s)

L2Hit2M(p) ==
  LET s == Start IN
  /\ Tick(s)
  /\ L1Miss(s, p)
  /\ ~Hits(s.l2, p)
  /\ Hits(s.l2, Region(p))
  /\ l2' = TouchTLB(s.l2, Region(p))
  /\ l1_2m' = Put(s.l1_2m, L1Assoc, Region(p), TRUE)
  /\ l1_4k' = s.l1_4k
  /\ NoReuse(s)
  /\ UNCHANGED evicted_addr

\* A miss in every TLB.  The page is entered in the 4K L1 TLB at line 104, of
\* a region that is not promoted for the second time after line 94.
Fill(s, p) ==
  LET huge == Region(p) \in s.promotions
      once == Put(s.l1_4k, L1Assoc, p, FALSE)
  IN
  /\ L1Miss(s, p)
  /\ L2Miss(s, p)
  /\ l2' = Put(s.l2, L2Assoc, IF huge THEN Region(p) ELSE p, huge)
  /\ l1_2m' = IF huge THEN Put(s.l1_2m, L1Assoc, Region(p), TRUE) ELSE s.l1_2m
  /\ l1_4k' = IF huge THEN once ELSE Put(once, L1Assoc, p, FALSE)

FillReported(s, p) ==
  LET seen == Reported(s.l1_4k, evicted_addr)
  IN  IF Region(p) \in s.promotions THEN seen
      ELSE Reported(Put(s.l1_4k, L1Assoc, p, FALSE), seen)

\* The first miss of a region only creates its entry in reuse_map.
WalkCold(p) ==
  LET s == Start IN
  /\ Tick(s)
  /\ Fill(s, p)
  /\ Region(p) \notin DOMAIN s.reuse
  /\ evicted_addr' = FillReported(s, p)
  /\ promotion_cache' = s.pcc
  /\ reuse_map' = With(s.reuse, Region(p), "cold")
  /\ measured' = s.measured
  /\ lost' = [evicted |-> FALSE, reset |-> -1]

\* promotion_cache files region b as the address b * PAGE_SIZE, as a 2M one
\* when the region is promoted: then the tag is b divided once more, and the
\* rest of b is the offset, in pages.
FileTag(s, b) == IF b \in s.promotions THEN Region(b) ELSE b
FileOff(s, b) == IF b \in s.promotions THEN b % Ratio ELSE 0

\* A later miss of a region whose key hits in the promotion cache.
WalkHit(p) ==
  LET s == Start
      b == Region(p)
      i == CHOOSE i \in Slots(s.pcc, FileTag(s, b)) : TRUE
  IN
  /\ Tick(s)
  /\ Fill(s, p)
  /\ b \in DOMAIN s.reuse
  /\ Hits(s.pcc, FileTag(s, b))
  /\ evicted_addr' = FillReported(s, p)
  /\ promotion_cache' =
       Used(LFU, s.pcc, i, [s.pcc[i] EXCEPT !.off = FileOff(s, b)])
  /\ reuse_map' = With(s.reuse, b, "timed")
  /\ measured' = s.measured \cup {b}
  /\ lost' = [evicted |-> FALSE, reset |-> -1]

\* A later miss of a region that enters the promotion cache.  Lines 121-124
\* read the report of the last insertion into a full set of either cache.
WalkMiss(p) ==
  LET s == Start
      b == Region(p)
      full == Full(s.pcc, PromotionSize)
      report == IF full THEN Last(s.pcc).addr + Last(s.pcc).off
                        ELSE FillReported(s, p)
      kept == IF report = -1 THEN s.reuse ELSE With(s.reuse, report, "cold")
  IN
  /\ Tick(s)
  /\ Fill(s, p)
  /\ b \in DOMAIN s.reuse
  /\ ~Hits(s.pcc, FileTag(s, b))
  /\ promotion_cache' =
       Inserted(LFU, PromotionSize, s.pcc, Entry(FileTag(s, b), FileOff(s, b), FALSE))
  /\ evicted_addr' = report
  /\ reuse_map' = With(kept, b, "timed")
  /\ measured' = s.measured \cup {b}
  /\ lost' = [evicted |-> full, reset |-> report]

Track(p) ==
  L1Hit(p) \/ L2Hit4K(p) \/ L2Hit2M(p) \/ WalkCold(p) \/ WalkHit(p) \/ WalkMiss(p)

\* summarize_reuse at the end of the trace; only a short one is summarised.
Finish ==
  /\ ~ended
  /\ ended' = TRUE
  /\ LET s == IF early THEN Summary ELSE Current IN
       /\ l1_4k' = s.l1_4k /\ l1_2m' = s.l1_2m /\ l2' = s.l2
       /\ promotions' = s.promotions
       /\ NoReuse(s)
  /\ UNCHANGED <<evicted_addr, accesses, early>>

Next == Finish \/ \E p \in Trace : Track(p)

Spec == Init /\ [][Next]_pvars

-----------------------------------------------------------------------------
(* Properties. *)

TypeOK ==
  /\ \A c \in {l1_4k, l1_2m} : Len(c) \in 0 .. L1Assoc
  /\ Len(l2) \in 0 .. L2Assoc
  /\ Len(promotion_cache) \in 0 .. PromotionSize
  /\ \A c \in {l1_4k, l1_2m, l2, promotion_cache} :
       \A e \in EntriesOf(c) : e.addr \in Nat /\ e.freq \in 0 .. MaxFreq - 1
  /\ evicted_addr \in Nat \cup {-1}
  /\ \A k \in DOMAIN reuse_map : k \in Nat /\ reuse_map[k] \in {"cold", "timed"}
  /\ promotions \subseteq Nat
  /\ accesses \in 0 .. Period - 1

\* The 4K L1 TLB takes a page twice on every walk (lines 94 and 104).  Nothing
\* else is ever filed twice: a full L2 TLB, 2M TLB or promotion cache really
\* holds as many pages or regions as it has lines, and evict() empties them.
SingleCopies ==
  \A c \in {l1_2m, l2, promotion_cache} :
    \A i, j \in DOMAIN c : c[i].live /\ (c[i].addr = c[j].addr => i = j)

\* A key of the promotion cache stands for a region measured since the last
\* summary: an unpromoted one under its own number, whose reuse is known, or a
\* promoted one under its number divided by the pages of a region.
KeysWereMeasured ==
  \A e \in EntriesOf(promotion_cache) :
    \/ e.addr \in (measured \ promotions) \cap DOMAIN reuse_map
    \/ \E b \in measured \cap promotions : e.addr = Region(b)

\* The pages that a cache answers for as 4K pages.
Pages4K(cache) == {e.addr : e \in {d \in EntriesOf(cache) : d.live /\ ~d.huge}}

\* The shootdown of line 43-49: after a region is promoted none of its pages
\* hits as a 4K page in either level, but for the page accessed in this step,
\* which line 104 enters in the 4K L1 TLB though its region is now promoted.
PromotionShootsDown ==
  [][ \A q \in PagesOf(promotions' \ promotions) :
        /\ q \notin Pages4K(l2')
        /\ q \in Pages4K(l1_4k') => Track(q) ]_pvars

\* The 2M TLB holds promoted regions only: a demotion takes the region out of
\* both levels, and a hit in L2 that fills it was a hit of a 2M entry
\* ("if L2 2M TLB hit", line 96).
TwoMegArePromoted == \A e \in EntriesOf(l1_2m) : e.addr \in promotions

\* Line 123, "lose information if evicted": a reuse record is reset only when
\* the promotion cache gave up an entry.
LosesOnlyEvicted == lost.reset # -1 => lost.evicted

\* Line 40, "promoting data that is not already promoted": what a summary
\* promotes was measured, as unpromoted data, since the summary before.
PromotesMeasuredData ==
  [][ promotions' \ promotions \subseteq measured \ promotions ]_pvars

=============================================================================
