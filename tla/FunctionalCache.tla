--------------------------- MODULE FunctionalCache --------------------------
(***************************************************************************)
(* The functional cache of src/pcc/tlb.h (class FunctionalCache): an       *)
(* address is cut into tag, set and offset, the set is a Ranking.  The two *)
(* simulations' caches differ in the constructor's arguments; a call may   *)
(* say that its page is a huge one, and the tags of both sizes share the   *)
(* sets.  All accesses are loads, as in the simulations.  insert() does    *)
(* not look whether the page is there: the 4 K L1 TLB is given pages that  *)
(* it has (huge_page_reuse.h:94 and 104), the other caches only pages that *)
(* were just looked up and missed.                                         *)
(***************************************************************************)
EXTENDS Ranking, Integers

CONSTANTS
  Bits,       (* width of an address, 64                                   *)
  PageBits,   (* log2(PAGE_SIZE)                                           *)
  HugeBits,   (* log2(HUGE_PAGE_SIZE)                                      *)
  Caches,     (* constructor arguments: lines, assoc, log_line_size,        *)
              (* policy; and repeats: the client inserts pages that are    *)
              (* there                                                     *)
  Calls,      (* the arguments of a call: address, is2M                    *)
  NONE

ASSUME WidthAssumption ==
  {Bits, PageBits, HugeBits} \subseteq Nat \ {0} /\ PageBits < HugeBits
ASSUME FreqAssumption == MaxFreq \in Nat \ {0}
ASSUME CacheAssumption == \A c \in Caches :
  /\ {c.lines, c.assoc} \subseteq Nat \ {0} /\ c.assoc <= c.lines
  /\ c.log_line_size \in {PageBits, HugeBits} /\ c.policy \in {LRU, LFU}
  /\ c.repeats \in BOOLEAN

\* 1 << n.  A function, like the sum of BitAnd, for the proofs: the provers know
\* no law of powers and of sums.
Pow[n \in Nat] == IF n = 0 THEN 1 ELSE 2 * Pow[n - 1]

\* (int) log2(n).
Log2(n) == CHOOSE k \in 0 .. n : Pow[k] <= n /\ n < Pow[k + 1]

\* An address leaves room for a tag above the number of the set and the offset.
ASSUME TagAssumption == \A c \in Caches : Log2(c.lines \div c.assoc) + HugeBits < Bits
ASSUME CallAssumption == Calls \subseteq [address : 0 .. Pow[Bits] - 1, is2M : BOOLEAN]

\* What 1 << n may be.  A shift by the width is undefined: the processor
\* shifts by nothing, a compiler may fold the expression to 0.
OneShifted(n) == IF n < Bits THEN {Pow[n]} ELSE {0, 1}

BitSet(x, i) == (x \div Pow[i]) % 2 = 1

\* x & y: low[n] is what the n lowest bits contribute.
BitAnd(x, y) ==
  LET low[n \in 0 .. Bits] ==
        IF n = 0 THEN 0
        ELSE low[n - 1] + IF BitSet(x, n - 1) /\ BitSet(y, n - 1) THEN Pow[n - 1] ELSE 0
  IN  low[Bits]

\* The bits min to max of an address, which may have more than one value: the mask is
\* the difference of two masks of low bits.
extract(max, min, address) ==
  {BitAnd(address, (s - Pow[min]) % Pow[Bits]) \div Pow[min] : s \in OneShifted(max + 1)}

VARIABLES
  cache,     (* the arguments the cache was made with                      *)
  sets,      (* sets                                                       *)
  evicted,   (* the caller's evictedAddr and evictedOffset                 *)
  reply      (* the last call, the page it was for, and what access()     *)
             (* returned                                                  *)

vars == <<cache, sets, evicted, reply>>

set_count     == cache.lines \div cache.assoc
log_set_count == Log2(set_count)

-----------------------------------------------------------------------------
(* The parts of an address. *)

log_pofs(c) == IF c.is2M THEN HugeBits ELSE cache.log_line_size

Offset(c) == extract(log_pofs(c) - 1, 0, c.address)
SetId(c)  == extract(log_set_count + log_pofs(c) - 1, log_pofs(c), c.address)
Tag(c)    == extract(Bits - 1, log_set_count + log_pofs(c), c.address)

PageAt(bits, address) == [bits |-> bits, number |-> address \div Pow[bits]]
PageOf(c) == PageAt(log_pofs(c), c.address)

\* call is a history variable: the call that used the entry last.
Entry(tag, off, c) ==
  [addr |-> tag, freq |-> 0, live |-> TRUE, offset |-> off, call |-> c]

-----------------------------------------------------------------------------
(* The operations.  There is no step where sets.at() would throw: TLC stops
   with an error there. *)

Reply(op, page, hit) == [op |-> op, page |-> page, hit |-> hit]

Init ==
  /\ cache \in Caches
  /\ sets = [i \in 0 .. set_count - 1 |-> <<>>]
  /\ evicted = [addr |-> -1, offset |-> 0]
  /\ reply = Reply("flush", NONE, NONE)

\* Mutant: the offset of the first use stays.
AccessKeepsOffset(c) ==
  \E tag \in Tag(c), id \in SetId(c), off \in Offset(c) :
    /\ sets' = IF Hits(sets[id], tag)
               THEN LET i == CHOOSE i \in Slots(sets[id], tag) : TRUE
                    IN  [sets EXCEPT ![id] =
                           Used(cache.policy, @, i, [@[i] EXCEPT !.call = c])]
               ELSE sets
    /\ reply' = Reply("access", PageOf(c), Hits(sets[id], tag))
    /\ UNCHANGED <<cache, evicted>>

access(c) ==
  \E tag \in Tag(c), id \in SetId(c), off \in Offset(c) :
    /\ sets' = IF Hits(sets[id], tag)
               THEN LET i == CHOOSE i \in Slots(sets[id], tag) : TRUE
                    IN  [sets EXCEPT ![id] =
                           Used(cache.policy, @, i,
                                [@[i] EXCEPT !.offset = off, !.call = c])]
               ELSE sets
    /\ reply' = Reply("access", PageOf(c), Hits(sets[id], tag))
    /\ UNCHANGED <<cache, evicted>>

insert(c) ==
  \E tag \in Tag(c), id \in SetId(c), off \in Offset(c) :
    /\ cache.repeats \/ ~ Hits(sets[id], tag)
    /\ sets' = [sets EXCEPT ![id] =
                  Inserted(cache.policy, cache.assoc, @, Entry(tag, off, c))]
    /\ evicted' = IF Full(sets[id], cache.assoc)
                  THEN [addr |-> Last(sets[id]).addr * set_count + id,
                        offset |-> Last(sets[id]).offset]
                  ELSE evicted
    /\ reply' = Reply("insert", PageOf(c), NONE)
    /\ UNCHANGED cache

\* The client has looked the page up (huge_page_reuse.h:45 to 58), or has it from
\* get_entries: on a page that is not there the code follows a null pointer.
evict(c) ==
  \E tag \in Tag(c), id \in SetId(c) :
    /\ Hits(sets[id], tag)
    /\ sets' = [sets EXCEPT ![id] = Without(@, {tag})]
    /\ reply' = Reply("evict", PageOf(c), NONE)
    /\ UNCHANGED <<cache, evicted>>

flush ==
  /\ sets' = [i \in DOMAIN sets |-> <<>>]
  /\ reply' = Reply("flush", NONE, NONE)
  /\ UNCHANGED <<cache, evicted>>

\* Mutant: addresses of pages, not their numbers.
get_entries_addresses ==
  UNION {{sets[i][k].addr * Pow[PageBits] : k \in DOMAIN sets[i]} : i \in DOMAIN sets}

\* get_entries: the tags of all sets.
get_entries == UNION {{sets[i][k].addr : k \in DOMAIN sets[i]} : i \in DOMAIN sets}

\* getFreq asserts that the page is there.
getFreqDefined(c) == \A tag \in Tag(c), id \in SetId(c) : Hits(sets[id], tag)

Next == flush \/ \E c \in Calls : access(c) \/ insert(c) \/ evict(c)

Spec == Init /\ [][Next]_vars

-----------------------------------------------------------------------------
(* Properties. *)

Resident(i) == {PageOf(e.call) : e \in {d \in ToSet(sets[i]) : d.live}}
Residents   == UNION {Resident(i) : i \in DOMAIN sets}

\* The client never uses a small page and a huge page of the same number.  The
\* simulations do not see to that (TwoMegArePromoted of Pcc is about it).
NumbersApart == \A c, d \in Calls :
  c.is2M /\ ~ d.is2M => c.address \div Pow[HugeBits] # d.address \div Pow[PageBits]
ASSUME ApartAssumption == NumbersApart

\* No set holds more than its lines, a line in use was last used by a call that
\* leads to this set and this tag, and sets beyond a power of two stay empty:
\* of the 170 sets of the L2 TLB, 42.
TypeOK ==
  /\ \A i \in DOMAIN sets : Len(sets[i]) \in 0 .. cache.assoc
  /\ \A i \in DOMAIN sets : \A e \in ToSet(sets[i]) :
       /\ e.freq \in 0 .. MaxFreq - 1
       /\ Tag(e.call) = {e.addr} /\ SetId(e.call) = {i}
  /\ reply.hit \in BOOLEAN \cup {NONE}

Store == INSTANCE PageStore WITH
  Page <- {PageAt(b, c.address) : b \in {PageBits, HugeBits}, c \in Calls},
  resident <- Residents,
  used <- [i \in 0 .. Pow[log_set_count] - 1 |-> Len(sets[i])],
  colours <- Pow[log_set_count],
  ways <- cache.assoc,
  repeats <- cache.repeats

\* A lookup of a page that was inserted and not given up, shot down or flushed
\* since hits, and a lookup of any other misses, whatever their sizes and offsets:
\* cutting addresses loses nothing, for numbers of sets that are no power of two
\* either, where as many sets as the next lower power of two are in use.  A page
\* is given up only when all lines of its colour are in use, for one insertion;
\* where pages are inserted that are there (huge_page_reuse.h:104), each time
\* takes a line.
ImplementsPageStore == Store!SSpec

\* What an insertion into a set with room leaves alone, it tells nobody; one into
\* a full set gives up one page at most, and evictedAddr and evictedOffset are the
\* number of that page, in pages of its size, and where in it it was last used,
\* provided the number of sets is a power of two (tag * set_count + setid is wrong
\* for the L2 TLB's 170).  Where no page is inserted that is there, exactly one
\* goes.  (Elsewhere the one reported may have gone before, or be the one inserted.)
ReportsVictim ==
  [][ LET lines == UNION {ToSet(sets[i]) : i \in DOMAIN sets}
          gone  == Residents \ Residents'
      IN  reply'.op = "insert" =>
            \/ gone = {} /\ evicted' = evicted
            \/ \E e \in lines :
                 /\ gone \subseteq {PageOf(e.call)}
                 /\ cache.repeats \/ gone # {}
                 /\ set_count = Pow[log_set_count] =>
                      e.call.address = evicted'.addr * Pow[log_pofs(e.call)] + evicted'.offset
    ]_vars

\* summarize_promotions takes the entries of the promotion cache for region
\* numbers and asks for their counters and their eviction as pages of these
\* numbers: in a cache of one set of 4K lines every entry is found again, as
\* assert()s of CacheSet demand, if no page is inserted that is there, as lines 117
\* to 120 of huge_page_reuse.h see to.
EntriesAreFound ==
  set_count = 1 /\ ~ cache.repeats /\ cache.log_line_size = PageBits =>
    \A base \in get_entries :
      getFreqDefined([address |-> base * Pow[PageBits], is2M |-> FALSE])

=============================================================================
