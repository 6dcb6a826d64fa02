# Elastic Translations: verification project

A verification development kept beside the Elastic Translations (MICRO 2024)
artifact: TLA+ modules for the parts of the artifact that have behaviour of
their own, TLC configurations that check them on small instances, and proofs
checked by TLAPS.  Paths are relative to the root of the repository; the
simulators and benchmarks are under `src/`, the scripts under `bin/`.

1. [The system](#1-the-system)
2. [Modules and plan](#2-modules-and-plan)
3. [How the modules correspond to the code](#3-how-the-modules-correspond-to-the-code)
4. [Runs](#4-runs)
5. [Assumptions and fairness](#5-assumptions-and-fairness)
6. [Proofs](#6-proofs)
7. [What the code does not do](#7-what-the-code-does-not-do)
8. [What is not modelled](#8-what-is-not-modelled)

## 1. The system

The artifact evaluates a kernel (CoalaPaging, Elastic Translations), a
user-space page-size policy (Leshy) and prior work (PCC, HawkEye).  The kernel,
QEMU, tcmalloc and the Rust tools (`leshy`, `prctl`, `pagecollect`) are git
submodules whose code is not in this tree; they appear only as the environment
of the scripts that call them.  What is here:

| part | code | state | operations | what makes it correct |
|---|---|---|---|---|
| cache set | `src/pcc/tlb.h`, `CacheSet` | array of lines on a doubly linked list, pool of unused lines, map from tags to lines, use counters | access, insert, evict, decay, flush | the list stays one ordered chain; map, pool and list agree; the victim is the line the policy names |
| functional cache | `src/pcc/tlb.h`, `FunctionalCache` | one set per index | access, insert, evict, getFreq, get_entries | an address finds the set and the tag it was stored under; a report names what was evicted |
| PCC simulation | `src/pcc/huge_page_reuse.h`, `main.cpp` | two L1 TLBs, an L2 TLB, the promotion cache, `reuse_map`, `pcc_promotions` | track an access, summarise | promotion and demotion concern the regions that were measured, and the TLBs agree with `pcc_promotions` |
| HawkEye simulation | `src/pcc/hawkeye.h`, `main.cpp` | coverage bit sets, averages, buckets, promotions | track an access, summarise | a region is in the bucket of its average; the hottest regions are promoted |
| online Leshy | `bin/epochs.sh` | snapshots, dumps and hints in files, a lock file, the hints in the kernel | take a snapshot, profile in the background | the newest hints are in force; the loop ends with the benchmark |
| benchmark harness | `bin/run.sh`, `bin/run-benchmarks.sh` | jobs, process groups, a trigger file, settings of the host | fragment memory, start, run, clean up | every run takes its statistics at the end of the region of interest and ends; the host is restored once, when nobody needs it otherwise; nothing is killed that is needed and nothing left that is not |
| measurement window | `src/benchmarks/*/tcrperf.h` | trigger file, disposition of SIGUSR1 | init, start, stop | stop waits for the statistics and then goes on |
| B+ tree benchmark | `src/benchmarks/btree/btree1.c` | tree on slab pools | insert, find, find_range, delete | the tree is an ordered map; pools lose nothing |
| BFS benchmark | `src/benchmarks/gapbs/src/bfs.cc` | parents, sliding queue, bitmaps | top-down and bottom-up steps | the result is a breadth-first tree |
| hash join, GUPS | `src/benchmarks/hashjoin`, `gups` | tables | one pass of computation | indices stay in the table |
| hints pipeline, HawkEye traces, thpmaps | `bin/hints`, `bin/hwk`, `bin/thpmaps` | files | conversions off line | ranges cover the pages they are computed from |
| modes and knobs | `bin/run.sh`, `bin/prctl.sh`, `env/*.env` | environment, sysfs, which outlives a run | write settings at six places of a run | a benchmark finds what its own environment asks for |
| virtual machines, evaluation drivers, plots | `bin/vm`, `scripts`, `bin/plots` | none | call the rest | out of scope |

How they interact.  The scripts under `scripts/` call `bin/run.sh` with one
environment per experiment.  `run.sh` calls `run-benchmarks.sh`, which sets up
the host, starts one benchmark per iteration as a background job, and meets it
twice through the file system and a signal: an instrumented benchmark writes to
the trigger file in `tcrperf_stop` and pauses, the script is in `inotifywait`
on that file, takes the statistics and sends SIGUSR1.  With online Leshy,
`epochs.sh` runs beside the benchmark and a `perf record`: SIGUSR2 makes perf
end a file, each file is profiled by a background job, and the resulting hints
are loaded into the kernel for the benchmark.  The two simulators of `src/pcc`
are one sequential program over a trace: `main()` calls the tracking function
of the chosen simulation for each access; the PCC one drives four functional
caches, each an array of cache sets.

Where it is hard.
- *Long call sequences on shared structures*: a cache set is three views of the
  same lines (list, pool, map) and the order of the list decides about a victim
  much later; the B+ tree changes keys, separators, parents and leaf chain in a
  dozen functions.
- *State that outlives its owner*: a knob keeps the value of the last run that
  wrote it until the kernel is booted.
- *Bit arithmetic*: numbers of sets that are no power of two, a mask that needs a
  shift by 64, page numbers of two sizes in one cache.
- *State that means something else when it is read*: `pcc_promotions` decides
  how a key is filed and again how it is read; the bucket of a region is
  computed from its average twice.
- *Interleavings*: jobs of `epochs.sh` that overlap, online Leshys of a mix that
  share a lock file and signal perf by its name, concurrent runs that look for each
  other with `pgrep` and write the same knobs, processes killed by process group, a benchmark and a harness that meet through a
  file that only a watch in progress notices and a signal that only a pause in
  progress notices.
- *Liveness*: the wait for the trigger, the loop that waits for the file of perf.

`PROJECT.json` lists each of these hazards at its line, with the properties that
guard it.

## 2. Modules and plan

| module | models | composes |
|---|---|---|
| `CacheLines` | data and policy-independent operations of `CacheSet` | |
| `CacheSet` | the class under policies 0 (LRU) and 2 (LFU) | extends `CacheLines` |
| `Ranking` | contents of a set as a sequence of entries, pure operators | |
| `RankedSet` | the abstract specification of a set, a machine over `Ranking` | extends `Ranking` |
| `CacheRanking` | the refinement mapping | extends `CacheSet`, which implements `RankedSet` |
| `MCCacheSet` | symmetry for TLC | extends `CacheRanking` |
| `CacheSet_proofs` | theorems about `CacheSet`, and the refinement step by step | extends `CacheRanking`, `Places_proofs` |
| `Places_proofs` | lemmas about sequences and the places of a set of naturals | |
| `PageStore` | the abstract specification of a functional cache: a bounded store of pages | |
| `FunctionalCache` | the class: bit arithmetic, sets, the report of what is given up | extends `Ranking`, implements `PageStore` |
| `MCFunctionalCache` | four caches and the calls to them | extends `FunctionalCache` |
| `FunctionalCache_proofs` | theorems about `FunctionalCache`, its bit arithmetic and the refinement | extends `FunctionalCache`, `Places_proofs` |
| `Pcc` | the PCC simulation | four `Ranking`s, the abstraction that `CacheSet` implements |
| `Pcc_proofs` | theorems about `Pcc` | extends `Pcc`, `Places_proofs` |
| `HawkEye` | the HawkEye simulation | |
| `HawkEye_proofs` | theorems about `HawkEye` | extends `HawkEye`, `Places_proofs` |
| `Epochs` | `epochs.sh` with perf and the benchmark | |
| `Epochs_proofs` | theorems about `Epochs` | extends `Epochs` |
| `Harness` | runs of the harness with their benchmarks | |
| `Harness_proofs` | theorems about `Harness` | extends `Harness` |
| `Knobs` | what modes and page sizes write to the kernel's knobs, over runs | |
| `Knobs_proofs` | theorems about `Knobs` | extends `Knobs` |
| `MCKnobs` | kernels and environments of the evaluation | extends `Knobs` |
| `OrderedMap` | the abstract specification of the tree | |
| `BPlusTree` | `btree1.c` | runs beside `OrderedMap` |

The order was: the cache set first, because both the PCC results and every
hit rate rest on it and because it is where proofs pay most; then the simulators
that use it; then the concurrent scripts; then the tree; then the arithmetic above
the sets, the second fault that a mix of runs brings to each script, and the knobs.
What is left, in the order planned:

1. *Prove*: the invariants of `BPlusTree`, for which its recursive operators have to
   become recursive functions, about which `FunctionalCache_proofs` shows how to reason.
2. *Model*: GAPBS breadth-first search (parent updates by compare-and-swap, sliding
   queue, the switch between directions) against the definition of a breadth-first
   tree; the bounds of the hash join; range coverage in `bin/hints`.

## 3. How the modules correspond to the code

**`CacheLines`, `CacheSet`.**  Lines are `1 .. Associativity`; the sentinels
`head` and `tail` are the nodes 0 and `Associativity + 1`.  `next` and `prev` are
the pointers of the code, also those a line keeps after `deleteNode`.  `busy` is
what is not in `freeEntries`.  Actions: `Access` (a hit; a miss changes nothing),
`InsertFree` and `InsertEvict` (the branches of `insert`), `Evict`, `Flush`.  A hit
unlinks, places by the old count, then counts; the count that *equals* MAX_FREQ
halves all counts on the list.  `LFUAt` states where the loop of `insertLFU` ends:
at the first line used at most as often.  This relies on the order of the list,
which is an invariant here and proved.  Clients insert after a miss, except at
`huge_page_reuse.h:104`, where the 4K L1 TLB gets a page it was given ten lines
earlier: `InsertAfterMissOnly` is FALSE for that cache.  The old line then stays
on the list but out of the map, an orphan.

**`Ranking`, `RankedSet`.**  The promise: a sequence of entries, the next victim
last; a hit moves its entry to the front (LRU) or in front of those used no more
than it (LFU).  An orphan is an entry with `live` FALSE.  `CacheRanking` maps the
linked list to this sequence by walking it, as every loop of the class does.

**`FunctionalCache`, `PageStore`.**  `extract` is the masks and shifts of the code on
numbers of `Bits` bits: `BitAnd` adds up the bits that both numbers have, a shift
multiplies or divides by `Pow[n]`.  The shift by 64 that `extract(63, ...)` makes is undefined, so
`OneShifted` has both outcomes a build can produce, and `TypeOK` shows that the tag is
the same under both.  `log_set_count` rounds down, so of 170 sets 128 are used.  An
index beyond the vector (`sets.at`) would end TLC's run with an error.  Entries carry
the call that used them last, a history variable, from which the refinement mapping
takes the page they stand for.  `reply` holds the page of the last call and whether it
hit; `PageStore` has it too, so an answer is compared for the page that was asked for.
`insert` itself never looks whether its page is there.  What is a guard here is the
client's: three of the simulation's caches are given pages they have just missed, the
4K L1 TLB also one it was given ten lines before (`huge_page_reuse.h:104`), and for its
cache `repeats` is TRUE: the page's older line is then an orphan, which takes up room
(`used` of `PageStore`) until it is replaced.  Clients evict after a hit or what
`get_entries` named, as the null pointer of `evict` demands.

**`Pcc`.**  One action for each way through `pcc_track_access` (`L1Hit`, `L2Hit4K`,
`L2Hit2M`, `WalkCold`, `WalkHit`, `WalkMiss`), preceded by the summary when it is
due, and `Finish` for the end of the trace.  Each access includes every insertion
it makes, the second one of line 104 too.  `evicted_addr` is what line 122
computes from `l1_4k_evicted_tag`, a variable that three calls may set and none
resets.  Line 54 demotes a region by an address with `i` pages added, for the i-th entry
of the promotion cache: the same region as long as that cache has no more entries than a
region has pages (`CapacityAssumption`), 128 and 512 in `main.cpp` and `tlb.h`.  Reuse distances are only printed; a record is abstracted to `cold` or
`timed`.  `measured` and `lost` are history variables.  Each cache has one set.

**`HawkEye`.**  `Skip`, `Access`, `Summarize` are the ways through
`hawkeye_track_access`; `Moved` is its loop over the regions.  Averages are exact
rationals in units of `1/Scale` (the code uses doubles; `ScaleAssumption` makes them
exact), weighted `ALPHA` and `1 - ALPHA` with ALPHA = 1.9 as in
`main.cpp`.  The order in which a hash table is visited is any order.  Where the
code reads outside of an array or through a null pointer the model stops, and
`status` says where.

**`Epochs`.**  The main loop (`Pgrep`, `Signal`, `Move`), perf (`PerfSwitches`,
`PerfExits`), the benchmark, and `profile()` step by step, up to `MaxSnapshots` jobs
side by side.  Descriptor 200 is opened once and inherited, so `Lock` never waits
and never fails because of a job of the same loop.  What the online Leshy of another
run does is `StraySignal` (it signals every perf), `StrayWrite` and `StrayLock` (it has
the same `.lockfile`, through a descriptor of its own), `MaxStrays` times.  `files`
counts the files the loop looks for: it goes on only when there is exactly one.
`Truncate` and `Write` are apart because the shell truncates a
file before `echo` writes to it.  What hints contain is a model value: that a profile
reads the dump of the one before, and may find half of it, is not told apart.

**`Harness`.**  Per run: the harness (`Start`, `LookAround`, `Fragment`, `Spawn`, `Lookup`,
`Watch`, `Woken`, `Resume`, `Reap`, `CheckOthers`, `Cleanup`, `Leave`), the benchmark
(`WriteTrigger`, `InstallHandler`, `Pause`, `Exit`) and the job around it, which writes to
the trigger when the benchmark is gone (`Echo`).  A benchmark of `Pausing` is instrumented,
one of `Servers` stays after its load and is killed with SIGKILL, any other exits.  Each
may end at any point before its pause (`tcrperf.h:128`, or a crash), and the write of a
trigger may fail (`tcrperf.h:158-163`).  A run asks whether another is ongoing
in one step and acts on the answer in a later one (`Acting`), so others may come and
go in between.  Three history variables record what went wrong: `raced` has the runs that
began in such a window, `crossed` says that a run skipped its cleanup because of runs
that had all asked already, and `lost` has the runs in whose iteration a trigger was not
written or came before the watch, or SIGUSR1 came before the pause.  `khuge` is KHUGE, what each `Spawn` sets defrag to.  `defrag` stands for the settings that
a run changes and the last cleanup restores.  `together` says whether one script
started the runs, in one process group; `Fellows` are the runs whose processes
`pkill -g0` then finds: it is why a benchmark's end kills the online Leshys of others
in a mix, and why the last run of a mix kills a memfrag it did not start.

**`Knobs`.**  Each file under `env/` and the case of PGSZ is a function from an
environment to the knobs it writes; the actions of a run write them in the order of
`run-benchmarks.sh`, `Echo` leaving out the knobs a kernel does not have, as the tests
of the scripts do.  `Page` is the case of PGSZ and then what an ETHEAP mode writes to
THP's knob whatever PGSZ is (line 701).  At its end a run looks for others (`Exit`) and,
alone, restores khugepaged some seconds later (`Restore`), when another run of its mix may
have begun.  `Asked` states, apart from the order of the files, what each
environment says of each knob.

**`BPlusTree`.**  Nodes are records in a heap, sequences for keys and pointers.
`Insert` and `Delete` are whole calls, each with its splits, merges,
redistributions and updates of parents; the program changes the tree from one
thread only.  `map` is what the tree stands for.

## 4. Runs

Passing runs:

| run | instance | states | shows |
|---|---|---|---|
| `set_lfu` | 3 lines, 4 tags, LFU, MAX_FREQ 4, loads | 103,177 | types; one chain in descending order of use; victims are least used; the set implements `RankedSet` |
| `set_lru_dups` | 3 lines, 4 tags, LRU, MAX_FREQ 2, loads and stores, duplicates | 159,709 | hits are resident; a full set has a victim; the set implements `RankedSet`, orphans included |
| `fcache` | the four caches of the simulation with 1 to 3 sets of 2 lines, one with a client that inserts pages that are there, addresses of 5 bits, 6 calls | 29,022 | cutting addresses implements `PageStore`; reports name what was given up; entries are found again |
| `pcc` | 4 pages, 3 regions of 2 pages, L1 of 1, L2 and promotion cache of 2 lines | 302,144 | types; 2M entries are promoted regions; promotion shoots 4K pages down; no duplicates beyond the 4K L1 TLB; keys stand for regions measured since the last summary |
| `hwk` | 2 regions of 4 pages, 4 buckets, 3 summaries | 553,782 | counters and buckets; each region once, in the bucket of its average; the hottest are promoted |
| `epochs_serial` | 4 snapshots, 2 hints, one job at a time, one interference of another run | 36,221 | the newest hints in force at rest; one file at a time; the loop ends with the benchmark where perf left one file |
| `harness` | 2 runs, one group or two, each with an online Leshy; one benchmark pauses, the other is a server and its run fragments | 126,970 | statistics at the end of the region of interest; settings kept; the last run cleans up, no memfrag is left; Leshys last; iterations end |
| `knobs` | 2 runs, 3 kernels, 13 environments, 2 of them in mixes too | 33,739 | a benchmark finds the knobs its environment asks for, in a mix too; what an online Leshy hints at is collapsed |
| `bpt` | orders 3 and 4, keys 1..7 | 123,341 | search tree, occupancy, leaf chain, pools, lookups and ranges agree with the map |

Runs that end in a counterexample on purpose, one for each statement of the
repository that the code does not keep (section 7): `pcc_stale`, `pcc_measured`,
`epochs_overlap`.

Why the bounds are enough.  *Sets*: three lines is the least number with a line
that has neither sentinel as a neighbour, and four tags the least that overfill
the set (the LFU set is used with loads only, as the program uses it; the LRU set
with stores too); with MAX_FREQ 4 a decay can leave lines with different counts.  *PCC*:
the pages give two pages of one region, an L1 TLB that two regions compete for
(hits in L2 then occur), a promotion cache that overflows, and, at four accesses
per interval, promotion followed by demotion.  Page numbers of the passing trace
are no region numbers of it: where they are, `TwoMegArePromoted` is false
(section 7).  *HawkEye*: two regions
compete for one promotion per summary, and three summaries are needed to compute
an old bucket from an average that was itself averaged.  *Epochs*: four snapshots
give a job with a predecessor whose hints are equal, different and missing, twice;
one interference is enough to break what the properties then except.
*Harness*: a run asks only whether there is another, so two meet every answer; each
kind of benchmark meets the other's kills, and a run starts over after each iteration.
*Functional cache*: one, two and three
sets of two lines; two addresses of one page, three pages of one set (so that it
overflows), pages of both sizes in one set, a page twice in one set.  *Knobs*: what a run finds depends on the
last value written to each knob, so a second run meets everything a first can leave.  *Tree*:
seven keys make trees of three levels at order 3, and every case of merging and
redistribution, left and right, leaf and inner.

Every property of a passing run has a mutant in `PROJECT.json`: an altered
definition, kept beside the original, under which the property fails.

## 5. Assumptions and fairness

`Epochs`: weak fairness for perf, for the main loop and for each job: processes the
scheduler runs.  The benchmark may run for ever.  `Signal` is guarded by
`Cardinality(Running) < Overlap`, a statement about time (`leshy_interval` is longer
than `Overlap` profiles take); with `Overlap = 1` it is what the script hopes for,
with 2 what it does not prevent.  `MaxSnapshots` bounds the exploration, and
`LoopEnds` says so.

`Harness`: weak fairness for every benchmark and every script; nobody has to start a
run.  Nothing is assumed of how long anything takes: the region of interest may end before
the watch begins, statistics may be over before the benchmark pauses, and runs start
and end at any time.  What the scripts rely on there without enforcing it stands in the
properties.  `RunEnds` says that an iteration ends unless its run is in `lost`.
`SettingsKept` excepts the runs in `raced`, and `LastOneCleansUp` the
case `crossed`.  None of these exceptions can be left out: without it TLC finds the
property violated.

`Knobs`: runs that are no mix follow one another, and the runs of a mix have the same
environment, as in `scripts/run-fig14-multi.sh`; they have khugepaged on and neither
fragment memory nor use HawkEye, as there (`MixAssumption`): without khugepaged, what one
run restores would be undone under another.  A mode runs on the kernel it is for.

`Pcc`: `CapacityAssumption`, see section 3.

`FunctionalCache`: no small page and huge page of one number are used
(`ApartAssumption`), which the simulations do not ensure (section 7).  An address has
`Bits` bits (`CallAssumption`), of which the set and the offset in a huge page leave some
for a tag (`TagAssumption`): 7 + 21 of 64.  `EntriesAreFound` is about caches of one set
of 4K lines that are given no page twice, as the promotion cache is, the only one whose
entries are asked for.

The simulators, the cache set and the tree are sequential and have safety
properties only.

## 6. Proofs

`CacheSet_proofs` proves, for every associativity, every set of tags, both policies,
every MAX_FREQ above 0 and both kinds of client:

- `SetTypes`: `[]TypeOK`; no counter rests at MAX_FREQ, so the equality that triggers
  the decay is never stepped over;
- `SetChained`: `[]ChainedInOrder`; the lines in use are one chain in both
  directions, under LFU in descending order of use;
- `SetHitsAreResident`: `[]HitsAreResident`, also for a client that inserts present tags;
- `SetResidentsHit`: `[]ResidentsHit`, which no run checks by itself: with a client that
  inserts after a miss only, every resident line is reached by its tag;
- `SetVictimExists`: `[]VictimExists`; the assertion `c!=head` of `insert` cannot fail;
- `SetVictimIsLeastUsed`: the action property `VictimIsLeastUsed`.

Assumptions: `Associativity` and `MaxFreq` are positive, the policy is 0 or 2, NULL is
neither a number nor a tag, a client passes loads, stores or both.  The inductive
invariant `IInv` (`SetInvariant`) joins types, chain, the agreement of map and lines,
and the names of resident lines.  Types and map alone
are not inductive: that a replaced line is resident needs the last node of a
full list to be a line, which needs the chain; that the chain survives `insertLFU`
needs its order, and that the order survives a hit needs that the hit line is
placed by its old count and then counts one more, ahead of its equals.  The
chain is stated with a position function, existentially quantified: each step
gives the new function from the old one (`UnlinkKeepsChain`, `LinkKeepsChain`,
`PlaceKeepsOrder`), so no induction along the list is needed.  Halving keeps an
order (`HalvingKeepsOrder`).

Its second half proves `SetImplementsRankedSet`: under the mapping of `CacheRanking`,
which lists the lines from the front as `next` reaches them, `CacheSet` implements
`RankedSet`, for both policies and every client.  Each initial state maps to the
empty set and each operation to the operation of `RankedSet` of the same name; so what
the modules built on `Ranking` say of a cache is true of one made of linked lines.
The walk is tied to the chain by its position function: the line at
position k is the k-th of the walk (`WalkReads`).  From there each change of the links is
a change of the sequence: unlinking removes the line's place (`UnlinkWalk`), threading
inserts one (`LinkWalk`), and the place that `insertLFU` finds by walking down is the one
that `Ranking` gets by counting, because the counts descend (`PlaceWalk`).  There
is one lemma for each operation (`AccessRefines`, `InsertFreeRefines`,
`InsertEvictRefines`, `EvictRefines`, `FlushRefines`).

`Harness_proofs` proves, for every set of runs, every choice of those whose benchmark
pauses, is a server, has an online Leshy or fragments memory, and under any timing:

- `HarnessTypes`: `[]TypeOK`; among others, a run that exits leaves no benchmark alive;
- `HarnessSettingsKept`: `[]SettingsKept`;
- `HarnessLastOneCleansUp`: `[]LastOneCleansUp` (in one process group, no memfrag
  outlives the last run either);
- `HarnessLeshyLasts`: `[]LeshyLasts`: apart from others, a Leshy lasts as long as its
  benchmark is watched;
- `HarnessSnapshotAtEnd`: `[]SnapshotAtEnd`.

Four invariants do it.  `SettingsInv` adds to `SettingsKept` that whoever runs beside a
run that acts on having been alone is in `raced` (`ActsAlone`): by itself, nothing in
`SettingsKept` says that a cleanup finds no other benchmark.  `RestoreInv` says that while
there is something to restore (`Disturbed`) some run has yet to ask or to clean
(`Awake`), unless `crossed`: this existential is what a run hands on when it skips the
cleanup because of another.  `LeshyInv` follows one run's Leshy from `Spawn` to `Woken`.
`MeetInv` pairs the places of a harness with the states of its benchmark: what the watch
has seen is a write, and a benchmark that has written is at its end (`Over`) until
the harness itself sends SIGUSR1.

`Knobs_proofs` proves, for every set of runs, of environments and of kernels:

- `KnobsAsAsked`: `[]AsAsked`; a benchmark runs under the knobs its own environment asks
  for, after any runs and among those of a mix;
- `KnobsHintsAreCollapsed`: `[]HintsAreCollapsed`.

Assumptions: the environments have the values the scripts know (`EnvAssumption`), and
`MixAssumption` (section 5).  `AsAsked` speaks of running benchmarks only and is not
inductive: `IInv` (`KnobsInvariant`) says what is due to a run at each point of its
course (`PageDue` from its start on, with what an ETHEAP mode writes last, `FragDue` while memory is fragmented, `KhugeDue`,
`PaceDue` and `CollapseDue` once khugepaged is set, `PrctlDue` while the benchmark runs,
`LeshyDue`).  Runs outside a mix are never inside together (`Peers`), so a step can
disturb only the run that takes it; in a mix the environment is one, and a file that is
written again writes what is there.  Each file has a lemma that says what it writes
(`PageReads` and so on) and one what that does to the knobs (`EchoPage` and so on).

`Places_proofs` holds what these proofs share: what `InsertAt`, `RemoveAt` and `Front`
read at each place, and the selection of some places of a sequence in order
(`KeptReads`).  What would need induction is proved from the least counterexample
(`LeastOf`).

`FunctionalCache_proofs` proves, for every width of an address and of a page, every
constructor's arguments and every set of calls that section 5 allows:

- `FunctionalCacheTypes`: `[]TypeOK`; every entry stands in the set and has the tag that
  `extract` computes for the call that used it last, under both outcomes of the shift;
- `FunctionalCacheEntriesAreFound`: `[]EntriesAreFound`;
- `FunctionalCacheReportsVictim`: the action property `ReportsVictim`;
- `FunctionalCacheImplementsPageStore`: under the mapping that takes the sets to the pages
  their entries were last used for, the cache implements `PageStore`: initial state to
  initial state, `flush`, `access`, `insert`, `evict` to `Clear`, `Ask`, `Enter`, `Drop`.

It begins with the arithmetic, since nothing in the library knows powers or bits.
Recursive functions are reasoned about by induction over sets: `Induct` says that a set
with 0 and, with n, n + 1 has every number, and is used for the set of numbers of
which a statement holds, so that no operator need be a parameter.  From the definitions of
`Pow` (`PowDoubles`, `PowAdds`) and `BitAnd` (`BitAndReads`) follows what `extract`
computes (`ExtractReads`): the field of the bits min to max, which has one value also
where the shift is undefined.  Hence tag and set are quotient and remainder of the page's
number by the largest power of two of sets, and the offset is the rest (`CutReads`).
`IInv` (`FunctionalCacheInvariant`) says of every entry where it stands (`Leads`), that
no two live entries of a set have one tag (`Single`), and that only a client of `repeats`
leaves orphans.  `TypeOK` alone
is not inductive: a set with one tag live twice is well-typed, an eviction leaves one of the
two and the page still hits.  The lines of a colour are its live entries and its orphans,
which is why `PageStore` counts them (`used`) apart from the pages.  A permutation says what a hit does to a set (`UsedReads`),
and injections what an insertion and an eviction do (`InsertedReads`, `WithoutReads`),
whatever the policy; so each step changes the pages of one set (`SetReplaced`), which are
the pages of its colour (`ColourIsSet`), as many as it has entries (`PagesCount`).

`Pcc_proofs` proves, for every trace, interval, MAX_FREQ and capacity of the TLBs, and
every promotion cache that `CapacityAssumption` allows:

- `PccTypes`: `[]TypeOK`; no count rests at MAX_FREQ, no cache exceeds its capacity;
- `PccSingleCopies`, `PccKeysWereMeasured`: `[]SingleCopies`, `[]KeysWereMeasured`;
- `PccTwoMegArePromoted`: `[](Apart => TwoMegArePromoted)`; `Apart` says that no page
  number of the trace is a region number of it, without which the statement is false
  (section 7);
- `PccPromotionShootsDown`: the action property `PromotionShootsDown`;
- `PccPromotesMeasuredOrRefiled`: every region a summary promotes was measured or is one
  under whose number the misses of a promoted region were filed: what is left of the
  statement that `pcc_measured` refutes.

The invariant `Sound` is stated of a record of the caches and tables, since
an access that comes first after an interval acts on the state the summary leaves
(`Start`), not on the current one: `SummaryIsSound` takes it across the summary and one
lemma per way through `pcc_track_access` across the access.  None of its parts
is inductive alone: that a key of the promotion cache is unpromoted and measured needs the
shootdown of the summary to find every copy, which needs the copies to be single.

`Epochs_proofs` proves, for any number of snapshots and of interferences:

- `EpochsTypes`, `EpochsOneFileAtATime`: always; the loop finds one file but for those
  that interference ended early (`Files` counts both);
- `EpochsNeverOlder`, `EpochsNewestInForce`: with `Overlap = 1`.  With 2 `epochs_overlap`
  refutes `NeverOlder`.

Their invariant says that the profile that runs is the last one (`Alone`), and, while nothing interfered, which hints the
kernel has at each point of the profile that runs (`InForce`).  `NewestInForce` alone is
not inductive: it says nothing between the truncation and the write.

`HawkEye_proofs` proves, for every number of regions, pages, buckets and promotions, every
bucket size and every weight:

- `HawkEyeTypes`: `[]TypeOK`;
- `HawkEyeInBucketOfAverage`: `[]InBucketOfAverage`, for every order in which the averages
  are visited;
- `HawkEyeHottestPromoted`: the action property `HottestPromoted`.

The invariant `Placed` says that a region stands once in the bucket of its average and
in no other (`InPlace`); `ChangeBucketPlaces` is one `change_bucket`, and `MovedPlaces` takes it over the
loop: after i regions, the first i are in their new buckets and the rest in their old
ones.  A region of a higher bucket has fewer regions ahead of it in the scan than one
of a lower bucket, so it is promoted no later (`PromotesHottest`).

Only model-checked: everything in `BPlusTree`, whose recursive operators are out of the
prover's reach, and the liveness properties (`LoopEnds`, `RunEnds`).

## 7. What the code does not do

Shown by a run:

- `pcc_stale` (`huge_page_reuse.h:121`): "lose information if evicted" is tested
  through a report that the 4K L1 TLB shares and nobody resets; after the first
  eviction of a 4K page, insertions into the promotion cache reset the record
  of an unrelated region.
- `pcc_measured` (`huge_page_reuse.h:117`): misses of a promoted region are filed
  under its number divided by 512, and the summary promotes or demotes that region.
- `epochs_overlap` (`epochs.sh:118`): the lock of overlapping jobs is one lock; older
  hints replace newer ones.

Met while modelling, visible in a module but without a run of its own:

- `tlb.h:76-80`: under policy 1 a hit on a line used less than half of the
  associativity unlinks it for good.  No caller asks for policy 1.
- `huge_page_reuse.h:85`: the L2 TLB keeps 4K and 2M tags in one map; where a page number
  is also a region number, its entry answers for a region that is not promoted.
  `pcc.cfg` with `Trace = {4, 5, 9}` and `AccessInterval = 3` violates `TwoMegArePromoted`.
- `hawkeye.h:54`: with ALPHA above 1 averages leave the range of the buckets; the
  bucket a region goes to is brought into range, the one it is taken from is not
  (`status` "bad bucket").
- `hawkeye.h:69`: the promotion loop reads the first region of the highest bucket
  without asking whether there is one ("empty bucket").
- `main.cpp:30`: a HawkEye run calls `summarize_reuse`, which uses the promotion cache
  that only a PCC run creates ("no promotion cache").
- `run-benchmarks.sh:646`: a trigger before the watch is lost, and one that cannot be
  written (`tcrperf.h:158`, where the benchmark pauses all the same) does not come;
  harness and benchmark wait for each other for good (`lost`).
- `tcrperf.h:128`: a benchmark that fails under the watch has its end taken for the
  trigger, and statistics are taken of no process (`SnapshotAtEnd` allows "gone").
- `btree1.c:598`: `find_range` returns nothing for a range that begins between the last
  key of a leaf and the first of the next, though its comment (line 586) promises the
  keys of the range.  `RangeAllOrNothing` says exactly that: every other range is found
  whole.  Without its second disjunct TLC finds the missed range.
- `tlb.h:243`: 170 sets are addressed by 7 bits, 42 of the L2 TLB's are never used, and
  `tag * set_count + setid` is not the number of the page it gave up (nobody reads it).
- `run-benchmarks.sh:652`: in a mix the first benchmark that reaches its trigger kills
  the online Leshys of all (`pkill -g0`); the benchmarks of the others go on without
  one, in results labelled `.etonline`.  `LeshyLasts` holds apart only.
- `run-benchmarks.sh:85`: of runs started apart, the one that is left last cannot kill the
  memfrag of another (`-g0`): `LastOneCleansUp` speaks of memfrag in one group only.
- `epochs.sh:227`: SIGUSR2 goes to every `perf record`; in a mix the perf of another run
  ends a file early, two files match, and that run's loop spins until its benchmark is
  gone, without new hints.  `epochs.sh:180`: the runs of a mix share `.lockfile`: jobs of
  one are dropped for the lock or the higher number of another.
- `run-benchmarks.sh:788`: the first run of an ETHEAP mix that is past canneal switches
  THP off under the others; a run that starts later switches it on again.
- `epochs.sh:134` in a mix: `enable_defrag.env` of another run's next benchmark switches
  khugepaged off for hinted processes until the next hints.
- `hwk.env:25`: HWK_FALLBACK is tested for being set; `HWK_FALLBACK=0` of
  `run-eval-base.sh:77` and `run-fig10-virt.sh:65` turns the fallback on.
- `hwk.env:10-12`: THP's `defrag` and `promotion_metric` are never restored.
- `enable_defrag.env:39`: NOKCOMPACTD, "Disable kcompactd", disables nothing: without
  FRAG_TARGET and a `disable_defrag.env` before, kcompactd stays on.
- `coala.env:29`: what `run-fig14-multi.sh:75` writes to `khuge_etheap_async` is reset
  before the first benchmark.  `coala.env:5` and `run-fig10-virt.sh:69` call the switch
  COALA_KHUGE_ETHEAP_ASYNC, `coala.env:26` reads COALA_ETHEAP_ASYNC: it is never on there.
- `run-benchmarks.sh:701`: an ETHEAP mode switches THP on also where PGSZ is `pte` or
  `mthp`.
- `prctl.sh:98`: the NOET branch passes `-only2m` for `--only2m`; `prctl.sh:105` tests
  `cmd`, which is not defined (`CMD` is); `run-fig14-multi.sh:69` calls `frag2.sh`, which
  does not exist.
- `tcrperf.h:161-166`: the trigger is written before the handler is installed and
  before the pause; a signal in between kills the benchmark or is lost (`Usr1`, `lost`).
- `run-benchmarks.sh:69-131`: whether another run is ongoing is asked once and acted
  on seconds later; two runs that end together both skip the cleanup, and one
  that starts during a cleanup has its settings undone (`crossed`, `raced`).
- `epochs.sh:232`: the file of perf is looked for as `${benchmark}.2024*`.

## 8. What is not modelled

- Kernel, hypervisor, allocator and the Rust tools: not in this tree.  `leshy` and
  `prctl` are nondeterministic choices in `Epochs`.
- Policy 1 of `CacheSet` (no caller).  `Pcc` uses caches of one set: the composition of
  sets is `FunctionalCache`.
- Reuse distances, statistics, counters and everything that is only printed.
- In the harness: hugetlb set-up and its page sizes, `hints_active` (a counter of the
  kernel), the statistics at intervals, virtual machines; what `memfrag` does.
- In the knobs: Trident, the reset of khugepaged's statistics, what a knob does.
- In the tree: `destroy_tree` (no caller), printing, the menu, concurrent lookups
  (they only read).
- GAPBS, hash join, GUPS, SVM, hints pipeline, HawkEye traces, thpmaps,
  drivers, plots: `PROJECT.json` gives the reason for each; some are in the plan.
