------------------------------ MODULE Harness ------------------------------
(***************************************************************************)
(* Runs of the benchmark harness (bin/run.sh, bin/run-benchmarks.sh) on    *)
(* one host.  Within a run, the harness and the benchmark meet twice: the  *)
(* benchmark writes to a trigger file when its region of interest is over  *)
(* and pauses (tcrperf_stop), the harness watches the file, takes the      *)
(* statistics and wakes the benchmark with SIGUSR1.  Between runs, the     *)
(* last one to leave restores the host.  What a run kills by name it kills *)
(* in its process group, which is its own when it was started at a         *)
(* terminal, and that of all runs when one script started them             *)
(* (scripts/run-fig14-multi.sh).                                           *)
(*                                                                         *)
(* Runs use different benchmarks, so trigger files and names are their own.*)
(* Nothing is assumed of how long anything takes.                          *)
(***************************************************************************)
CONSTANTS
  Run,
  Pausing,    (* the runs whose benchmark is instrumented and has a perf   *)
              (* counter; any other just exits                             *)
  Servers,    (* those whose benchmark is a server, which its script has   *)
              (* announce the end of the load and the harness kills        *)
  Online,     (* the runs with an online Leshy (ETONLINE)                  *)
  Frag        (* the runs that fragment memory first (FRAG_TARGET)         *)

ASSUME HarnessAssumption ==
  Pausing \cup Servers \cup Online \cup Frag \subseteq Run /\ Pausing \cap Servers = {}

VARIABLES
  pc,       (* where the harness of each run is                             *)
  bench,    (* where its benchmark is                                       *)
  seen,     (* its inotifywait has seen a write to the trigger              *)
  defrag,   (* khugepaged and compaction: "on" (env/enable_defrag.env) or   *)
            (* "off" (env/disable_defrag.env)                               *)
  khuge,    (* the runs want it on (KHUGE)                                  *)
  together, (* the runs share one process group                             *)
  leshy,    (* the online Leshy of each run: "on" or "none"                 *)
  memfrag,  (* the runs whose memfrag is there                              *)
  raced,    (* history: the runs that began while another, having seen      *)
            (* itself alone, was about to act on that                       *)
  crossed,  (* history: a run has left the host to runs that had themselves *)
            (* asked already, and left it                                   *)
  lost      (* history: the runs for whose iteration a call between harness *)
            (* and benchmark came to nothing                                *)

calls   == <<seen, lost>>
setting == <<khuge, together>>
hosted  == <<khuge, together, leshy, memfrag, raced, crossed>>
vars    == <<pc, bench, seen, defrag, khuge, together, leshy, memfrag, raced, crossed,
             lost>>

\* Mutant: pkill without -g0.
FellowsEverywhere(r) == Run

\* The runs whose processes pkill -g0 finds.
Fellows(r) == IF together THEN Run ELSE {r}

Init ==
  /\ pc = [r \in Run |-> "idle"]
  /\ bench = [r \in Run |-> "none"]
  /\ seen = [r \in Run |-> FALSE]
  /\ defrag = "on"
  /\ khuge \in BOOLEAN
  /\ together \in BOOLEAN
  /\ leshy = [r \in Run |-> "none"]
  /\ memfrag = {}
  /\ raced = {}
  /\ crossed = FALSE
  /\ lost = {}

Step(r, from, to) == pc[r] = from /\ pc' = [pc EXCEPT ![r] = to]

Bench(r, from, to) == bench[r] \in from /\ bench' = [bench EXCEPT ![r] = to]

\* The process of the benchmark exists.
Alive(r) == bench[r] \notin {"none", "gone", "echoed"}

\* A write to the trigger wakes a watch that is there, and is lost when the watch
\* has yet to begin.
Write(r) ==
  /\ seen' = [seen EXCEPT ![r] = @ \/ pc[r] = "wait"]
  /\ lost' = IF pc[r] \in {"sleep", "watch"} THEN lost \cup {r} ELSE lost

\* It fails.
NoWrite(r) == seen' = seen /\ lost' = lost \cup {r}

-----------------------------------------------------------------------------
(* The benchmark. *)

\* tcrperf_stop: the write, which may fail, the handler, the pause; SIGUSR1 ends
\* the pause.  A server just stays.
WriteTrigger(r) ==
  /\ r \in Pausing \cup Servers
  /\ Bench(r, {"running"}, IF r \in Pausing THEN "install" ELSE "paused")
  /\ Write(r) \/ NoWrite(r)
  /\ UNCHANGED <<pc, defrag, hosted>>

InstallHandler(r) == Bench(r, {"install"}, "arm") /\ UNCHANGED <<pc, calls, defrag, hosted>>

Pause(r) == Bench(r, {"arm"}, "paused") /\ UNCHANGED <<pc, calls, defrag, hosted>>

\* A benchmark ends: after its pause, at once where it never pauses, or when it
\* fails.
Exit(r) ==
  Bench(r, {"running", "resumed"}, "gone") /\ UNCHANGED <<pc, calls, defrag, hosted>>

\* Mutant: only a benchmark writes to the trigger.
EchoNothing(r) == Bench(r, {"gone"}, "echoed") /\ UNCHANGED <<pc, calls, defrag, hosted>>

\* The job around the benchmark writes to the trigger when that is gone.
Echo(r) ==
  Bench(r, {"gone"}, "echoed") /\ Write(r) /\ UNCHANGED <<pc, defrag, hosted>>

\* What SIGUSR1 does to a benchmark: without a handler it kills, with the
\* handler but before pause() it is lost.
Usr1(b) ==
  CASE b \in {"running", "install"} -> "gone"
    [] b = "paused"                 -> "resumed"
    [] OTHER                        -> b

-----------------------------------------------------------------------------
(* One run. *)

\* Having seen itself alone, a run is about to act on that.
Acting == {"fragment", "clean"}

Start(r) ==
  /\ Step(r, "idle", "setup")
  /\ raced' = IF \E s \in Run \ {r} : pc[s] \in Acting THEN raced \cup {r} ELSE raced
  /\ UNCHANGED <<bench, calls, defrag, setting, leshy, memfrag, crossed>>

\* Mutant: a run counts none.
OngoingNever(r) == FALSE

\* pgrep -cf "./run.sh" counts more than this run.
Ongoing(r) == \E s \in Run \ {r} : pc[s] \notin {"idle", "gone"}

\* run(): a run that is alone goes on to fragment memory ...
LookAround(r) ==
  /\ Step(r, "setup", IF r \in Frag /\ ~ Ongoing(r) THEN "fragment" ELSE "spawn")
  /\ UNCHANGED <<bench, calls, defrag, hosted>>

\* ... with defrag off, in place of a memfrag that is there.
Fragment(r) ==
  /\ Step(r, "fragment", "spawn")
  /\ memfrag' = (memfrag \ Fellows(r)) \cup {r}
  /\ defrag' = "off"
  /\ UNCHANGED <<bench, calls, setting, leshy, raced, crossed>>

Wanted == IF khuge THEN "on" ELSE "off"

\* defrag, the trigger file, the online Leshy and the job of the benchmark.
Spawn(r) ==
  /\ Step(r, "spawn", "sleep")
  /\ bench' = [bench EXCEPT ![r] = "running"]
  /\ defrag' = Wanted
  /\ leshy' = [leshy EXCEPT ![r] = IF r \in Online THEN "on" ELSE @]
  /\ lost' = lost \ {r}
  /\ UNCHANGED <<seen, setting, memfrag, raced, crossed>>

\* epochs.sh looks for its benchmark between snapshots only: it may end when that
\* is gone, and may wait for a dump, or for its benchmark, until it is killed.
LeshyEnds(r) ==
  /\ leshy[r] = "on" /\ ~ Alive(r)
  /\ leshy' = [leshy EXCEPT ![r] = "none"]
  /\ UNCHANGED <<pc, bench, calls, defrag, setting, memfrag, raced, crossed>>

\* After sleep 10 the benchmark is looked up; a run without one fails.
Lookup(r) ==
  /\ Step(r, "sleep", IF Alive(r) THEN "watch" ELSE "exit")
  /\ UNCHANGED <<bench, calls, defrag, hosted>>

\* Mutant: what the trigger file holds counts, and it is never emptied.
WatchContents(r) == Step(r, "watch", "wait") /\ UNCHANGED <<bench, calls, defrag, hosted>>

Watch(r) ==
  /\ Step(r, "watch", "wait")
  /\ seen' = [seen EXCEPT ![r] = FALSE]
  /\ UNCHANGED <<bench, lost, defrag, hosted>>

\* pkill -TERM -eg0 epochs.
LeshyKilled(r) == [s \in Run |-> IF s \in Fellows(r) THEN "none" ELSE leshy[s]]

\* inotifywait returns, Leshy is killed and stats begins.
Woken(r) ==
  /\ Step(r, "wait", "stats")
  /\ seen[r]
  /\ leshy' = LeshyKilled(r)
  /\ UNCHANGED <<bench, calls, defrag, setting, memfrag, raced, crossed>>

\* stats ends; kill -KILL for a server that is there, -USR1 for others.
Resume(r) ==
  /\ Step(r, "stats", "reap")
  /\ bench' = [bench EXCEPT ![r] = IF r \notin Servers THEN Usr1(@)
                                   ELSE IF Alive(r) THEN "gone" ELSE @]
  /\ lost' = IF bench[r] = "arm" THEN lost \cup {r} ELSE lost
  /\ UNCHANGED <<seen, defrag, hosted>>

\* Mutant: the job is not waited for.
ReapNothing(r, next) ==
  /\ Step(r, "reap", next)
  /\ memfrag' = IF Ongoing(r) THEN memfrag ELSE memfrag \ Fellows(r)
  /\ UNCHANGED <<bench, calls, defrag, setting, leshy, raced, crossed>>

\* wait for the job; a run that is alone then kills memfrag; the next iteration
\* or benchmark, or the end of the run.
Reap(r, next) ==
  /\ Step(r, "reap", next)
  /\ bench[r] = "echoed"
  /\ memfrag' = IF Ongoing(r) THEN memfrag ELSE memfrag \ Fellows(r)
  /\ UNCHANGED <<bench, calls, defrag, setting, leshy, raced, crossed>>

\* cleanup, on exit: nothing when another run is ongoing ...
CheckOthers(r) ==
  /\ Step(r, "exit", IF Ongoing(r) THEN "leaving" ELSE "clean")
  /\ crossed' = (crossed \/ (/\ Ongoing(r)
                            /\ \A s \in Run \ {r} : pc[s] \in {"idle", "gone", "leaving"}))
  /\ UNCHANGED <<bench, calls, defrag, setting, leshy, memfrag, raced>>

\* Mutant: memfrag is not among what is killed.
CleanupButMemfrag(r) ==
  /\ Step(r, "clean", "leaving")
  /\ defrag' = "on"
  /\ bench' = [s \in Run |-> IF s \in Fellows(r) /\ Alive(s) THEN "gone" ELSE bench[s]]
  /\ leshy' = LeshyKilled(r)
  /\ UNCHANGED <<calls, setting, memfrag, raced, crossed>>

\* ... otherwise memfrag, the benchmarks and the online Leshys of the process
\* group are killed, and, seconds later, defrag is on.
Cleanup(r) ==
  /\ Step(r, "clean", "leaving")
  /\ defrag' = "on"
  /\ bench' = [s \in Run |-> IF s \in Fellows(r) /\ Alive(s) THEN "gone" ELSE bench[s]]
  /\ leshy' = LeshyKilled(r)
  /\ memfrag' = memfrag \ Fellows(r)
  /\ UNCHANGED <<calls, setting, raced, crossed>>

Leave(r) == Step(r, "leaving", "gone") /\ UNCHANGED <<bench, calls, defrag, hosted>>

-----------------------------------------------------------------------------

Benchmark(r) ==
  WriteTrigger(r) \/ InstallHandler(r) \/ Pause(r) \/ Exit(r) \/ Echo(r)

Script(r) ==
  \/ LookAround(r) \/ Fragment(r) \/ Spawn(r) \/ Lookup(r) \/ Watch(r) \/ Woken(r)
  \/ Resume(r)
  \/ \E next \in {"setup", "exit"} : Reap(r, next)
  \/ CheckOthers(r) \/ Cleanup(r) \/ Leave(r)

Next == \E r \in Run : Start(r) \/ Benchmark(r) \/ Script(r) \/ LeshyEnds(r)

\* A process that can go on does; nobody has to start a run.
Fairness == \A r \in Run : WF_vars(Benchmark(r)) /\ WF_vars(Script(r))

Spec == Init /\ [][Next]_vars /\ Fairness

-----------------------------------------------------------------------------
(* Properties. *)

\* The state of the runs; no benchmark is left behind by a run that exits.
TypeOK ==
  /\ pc \in [Run -> {"idle", "setup", "fragment", "spawn", "sleep", "watch", "wait",
                     "stats", "reap", "exit", "clean", "leaving", "gone"}]
  /\ bench \in [Run -> {"none", "running", "install", "arm", "paused", "resumed",
                        "gone", "echoed"}]
  /\ seen \in [Run -> BOOLEAN]
  /\ defrag \in {"on", "off"}
  /\ khuge \in BOOLEAN
  /\ together \in BOOLEAN
  /\ leshy \in [Run -> {"on", "none"}]
  /\ memfrag \in SUBSET Run
  /\ raced \in SUBSET Run
  /\ crossed \in BOOLEAN
  /\ lost \in SUBSET Run
  /\ \A r \in Run : pc[r] \in {"exit", "clean", "leaving", "gone"} => ~ Alive(r)

\* run-benchmarks.sh:653, "Taking snapshot...": no statistics are taken in the
\* middle of the region of interest, nor of a benchmark that is past its pause,
\* whatever wakes the watch: it is at the end of the region, or gone.
SnapshotAtEnd == \A r \in Run :
  pc[r] = "stats" => bench[r] \in {"install", "arm", "paused", "gone", "echoed"}

\* run-benchmarks.sh:646, "Waiting for trigger...": every iteration that has begun
\* is over some day, unless a call was lost: the trigger was not written or was
\* written before the watch began, or SIGUSR1 came between signal() and pause().
\* A server that is killed, a benchmark that never pauses and one that fails at
\* any point under the watch or is killed by another run never hold theirs up.
RunEnds == \A r \in Run : pc[r] = "sleep" ~> pc[r] \in {"setup", "exit"} \/ r \in lost

\* run-benchmarks.sh:70, "Skipping cleanup, another run ongoing...": khugepaged and
\* compaction stay as a run set them for as long as its benchmark is there, unless
\* it was started in the seconds in which another, having found itself alone,
\* cleans up or fragments memory.
SettingsKept == \A r \in Run :
  pc[r] \in {"sleep", "watch", "wait", "stats", "reap"} => defrag = Wanted \/ r \in raced

\* ... and the cleanup that is skipped is left to a run that does it: when all are
\* gone the host is restored and, although a run that is not alone returns early
\* (run-benchmarks.sh:666), no memfrag and no Leshy is left, unless the last runs
\* have each counted the others.  (Cleanup finds those of its process group: the
\* memfrag of a run started apart may stay.)
LastOneCleansUp ==
  (\A r \in Run : pc[r] \in {"idle", "gone"}) =>
    \/ crossed
    \/ defrag = "on" /\ (together => memfrag = {} /\ \A r \in Run : leshy[r] = "none")

\* run-benchmarks.sh:23, "ETONLINE: whether to run online leshy": the Leshy of a
\* run is there for as long as its benchmark is watched, whatever other runs end,
\* clean up or fail meanwhile, provided they were started apart.  (In one group
\* the first run to be woken kills the Leshys of all.)
LeshyLasts == ~ together =>
  \A r \in Online : Alive(r) /\ pc[r] \in {"sleep", "watch", "wait"} => leshy[r] = "on"

=============================================================================
