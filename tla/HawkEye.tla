------------------------------ MODULE HawkEye -------------------------------
(***************************************************************************)
(* The HawkEye simulation of src/pcc/hawkeye.h, run by main.cpp: intervals *)
(* in which accesses are tracked alternate with intervals in which they    *)
(* are not; after a tracked one every region's coverage goes into its      *)
(* average, the region moves to the bucket of the average, and the regions *)
(* of the highest buckets are promoted.                                    *)
(*                                                                         *)
(* Averages are exact: they are kept in units of 1 / Scale, and Scale is a *)
(* multiple of the denominator of ALPHA to the power of MaxSummaries.      *)
(***************************************************************************)
EXTENDS Integers, FiniteSets, Sequences, SequencesExt

CONSTANTS
  Bases,          (* the regions of the trace                              *)
  NumBasePages,   (* NUM_BASE_PAGES, pages of a region                     *)
  NumBuckets,     (* NUM_BUCKETS                                           *)
  BucketSize,     (* BUCKET_SIZE, in pages                                 *)
  MaxPromotions,  (* MAX_NUM_PROMOTIONS                                    *)
  AlphaNum, AlphaDen, (* ALPHA                                             *)
  Scale,          (* the unit of averages is 1 / Scale                     *)
  AccessInterval, (* ACCESS_INTERVAL                                       *)
  Factor,         (* FACTOR                                                *)
  MaxSummaries    (* bound: summaries explored                             *)

ASSUME SizeAssumption ==
  {NumBasePages, NumBuckets, BucketSize, MaxPromotions, AlphaNum, AlphaDen,
   Scale, AccessInterval, Factor, MaxSummaries} \subseteq Nat \ {0}
ASSUME ScaleAssumption == Scale % (AlphaDen ^ MaxSummaries) = 0

Offsets == 0 .. NumBasePages - 1
Buckets == 0 .. NumBuckets - 1

VARIABLES
  tracking,      (* tracking                                               *)
  accesses,      (* curr_num_accesses                                      *)
  coverage,      (* coverage: region -> set of offsets; seen regions only  *)
  ema,           (* ema: region -> average, in units of 1 / Scale          *)
  buckets,       (* buckets                                                *)
  promotions,    (* the keys of hawkeye_promotions                         *)
  summaries,     (* number of summaries, for the bound                     *)
  status         (* "running", "ended", or what cut the run short          *)

hvars == <<tracking, accesses, coverage, ema, buckets, promotions, summaries, status>>

Init ==
  /\ tracking = TRUE
  /\ accesses = 0
  /\ coverage = <<>>
  /\ ema = <<>>
  /\ buckets = [k \in Buckets |-> <<>>]
  /\ promotions = {}
  /\ summaries = 0
  /\ status = "running"

-----------------------------------------------------------------------------
(* Helpers. *)

\* (int) of a quotient: towards zero.
Quotient(x, y) == IF x < 0 THEN -((-x) \div y) ELSE x \div y

BucketOf(avg) == Quotient(avg, BucketSize * Scale)

Clamp(k) == IF k < 0 THEN 0 ELSE IF k > NumBuckets - 1 THEN NumBuckets - 1 ELSE k

Old(b) == IF b \in DOMAIN ema THEN BucketOf(ema[b]) ELSE 0

Average(b, covered) ==
  IF b \in DOMAIN ema
  THEN (AlphaNum * ema[b] + (AlphaDen - AlphaNum) * covered * Scale) \div AlphaDen
  ELSE covered * Scale

\* Mutant: the region is looked for in the bucket it is going to.
ChangeBucketFromNew(B, b, old, new) ==
  [B EXCEPT ![Clamp(new)] = Append(RemoveFirst(@, b), b)]

\* change_bucket.
ChangeBucket(B, b, old, new) ==
  LET C == [B EXCEPT ![old] = RemoveFirst(@, b)]
  IN  [C EXCEPT ![Clamp(new)] = Append(@, b)]

\* change_bucket for the regions with averages avg, one after the other.
Moved(avg, order) ==
  LET after[i \in 0 .. Len(order)] ==
        IF i = 0 THEN buckets
        ELSE LET c == order[i]
             IN  ChangeBucket(after[i - 1], c, Old(c), BucketOf(avg[c]))
  IN  after[Len(order)]

\* Mutant: the buckets are read from the lowest.
MetBeforeFromLowest(B, c, b) ==
  \A k \in Buckets : \A i \in DOMAIN B[k] : B[k][i] = b =>
    \E l \in Buckets : \E j \in DOMAIN B[l] :
      B[l][j] = c /\ (l < k \/ (l = k /\ j < i))

\* The loop of summarize, which reads the buckets from the highest and each of
\* them from its front, meets c before it meets b.
MetBefore(B, c, b) ==
  \A k \in Buckets : \A i \in DOMAIN B[k] : B[k][i] = b =>
    \E l \in Buckets : \E j \in DOMAIN B[l] :
      B[l][j] = c /\ (l > k \/ (l = k /\ j < i))

\* The loop ends after MaxPromotions regions that were not promoted before, or
\* after the last region.
Promote(B) ==
  LET fresh == {b \in Bases \ promotions :
                  \E k \in Buckets : \E i \in DOMAIN B[k] : B[k][i] = b}
  IN  promotions \cup
        {b \in fresh : Cardinality({c \in fresh : MetBefore(B, c, b)}) < MaxPromotions}

-----------------------------------------------------------------------------
(* hawkeye_track_access, one action for each way through it. *)

\* Mutant: the count runs on when tracking starts again.
AfterSkipRunsOn(n) == n

AfterSkip(n) == IF n % (Factor * AccessInterval) = 0 THEN 0 ELSE n

\* The access is not tracked; after Factor intervals tracking starts again.
Skip ==
  /\ status = "running"
  /\ ~tracking
  /\ tracking' = ((accesses + 1) % (Factor * AccessInterval) = 0)
  /\ accesses' = AfterSkip(accesses + 1)
  /\ UNCHANGED <<coverage, ema, buckets, promotions, summaries, status>>

Covered(b, off) ==
  [c \in DOMAIN coverage \cup {b} |->
     (IF c \in DOMAIN coverage THEN coverage[c] ELSE {})
       \cup (IF c = b THEN {off} ELSE {})]

Access(b, off) ==
  /\ status = "running"
  /\ tracking
  /\ (accesses + 1) % AccessInterval # 0
  /\ accesses' = accesses + 1
  /\ coverage' = Covered(b, off)
  /\ UNCHANGED <<tracking, ema, buckets, promotions, summaries, status>>

\* The access that ends a tracked interval.  The averages are visited in the
\* order of a hash table, any order.  A region whose old bucket number is out
\* of range, and a highest bucket that is empty, are read out of bounds: what
\* the program does from there on is undefined.
Summarize(b, off) ==
  LET cov == Covered(b, off)
      avg == [c \in DOMAIN cov |-> Average(c, Cardinality(cov[c]))]
  IN
  /\ status = "running"
  /\ tracking
  /\ (accesses + 1) % AccessInterval = 0
  /\ summaries < MaxSummaries
  /\ summaries' = summaries + 1
  /\ tracking' = FALSE
  /\ accesses' = 0
  /\ coverage' = [c \in DOMAIN cov |-> {}]
  /\ ema' = avg
  /\ IF \E c \in DOMAIN cov : Old(c) \notin Buckets
     THEN status' = "bad bucket" /\ UNCHANGED <<buckets, promotions>>
     ELSE \E order \in SetToSeqs(DOMAIN cov) :
            LET moved == Moved(avg, order)
            IN  /\ buckets' = moved
                /\ IF moved[NumBuckets - 1] = <<>>
                   THEN status' = "empty bucket" /\ UNCHANGED promotions
                   ELSE promotions' = Promote(moved) /\ UNCHANGED status

\* The trace is over.  summarize_reuse asks promotion_cache for its entries or
\* prints it; main() only makes one for the other simulation.
Finish ==
  /\ status = "running"
  /\ status' = "no promotion cache"
  /\ UNCHANGED <<tracking, accesses, coverage, ema, buckets, promotions, summaries>>

Next ==
  \/ Skip
  \/ \E b \in Bases, off \in Offsets : Access(b, off) \/ Summarize(b, off)
  \/ Finish

Spec == Init /\ [][Next]_hvars

-----------------------------------------------------------------------------
(* Properties. *)

TypeOK ==
  /\ accesses \in 0 .. Factor * AccessInterval - 1
  /\ DOMAIN ema \subseteq DOMAIN coverage /\ DOMAIN coverage \subseteq Bases
  /\ \A b \in DOMAIN coverage : coverage[b] \subseteq Offsets
  /\ \A b \in DOMAIN ema : ema[b] \in Int
  /\ DOMAIN buckets = Buckets /\ \A k \in Buckets : buckets[k] \in Seq(Bases)
  /\ promotions \subseteq Bases

Times(b, k) == Cardinality({i \in DOMAIN buckets[k] : buckets[k][i] = b})

\* As long as the run has not left defined behaviour, a region with an average
\* is in one bucket, once, and it is the bucket of its average: moving it finds
\* it where the last summary put it although the number was computed again.
InBucketOfAverage ==
  status \in {"running", "no promotion cache"} =>
    \A b \in Bases, k \in Buckets :
      Times(b, k) = IF b \in DOMAIN ema /\ k = Clamp(BucketOf(ema[b])) THEN 1 ELSE 0

\* The summary never leaves a region behind for one with a lower average by a
\* bucket or more.
HottestPromoted ==
  [][ \A b \in promotions' \ promotions, c \in DOMAIN ema' \ promotions' :
        Clamp(BucketOf(ema'[c])) <= Clamp(BucketOf(ema'[b])) ]_hvars

=============================================================================
