------------------------------- MODULE Epochs -------------------------------
(***************************************************************************)
(* Online Leshy, bin/epochs.sh: while the benchmark runs, the main loop    *)
(* asks perf for a snapshot of its samples every leshy_interval seconds    *)
(* and starts profile() for it in the background; profile() turns the      *)
(* snapshot and the one before into hints and loads them into the kernel.  *)
(*                                                                         *)
(* Background jobs overlap when one takes longer than the interval.  The   *)
(* descriptor 200 they lock is opened once, at line 180, before any of     *)
(* them is forked: they all hold one lock of one open file, and the flock  *)
(* of line 118 succeeds whoever else is between lines 118 and 158.  Hints   *)
(* are values: what an overlapping job reads of a dump that is still being *)
(* written is not told apart.                                              *)
(*                                                                         *)
(* The online Leshys of a mix of runs have one directory, hence one        *)
(* .lockfile, and signal perf by its name: what another run does to this   *)
(* one is up to MaxStrays interferences.                                   *)
(***************************************************************************)
EXTENDS Naturals, FiniteSets, FiniteSetsExt

CONSTANTS
  Hints,         (* the contents hints can have                            *)
  NONE,          (* no such file, or an empty one                          *)
  MaxSnapshots,  (* bound: snapshots explored                              *)
  Overlap,       (* assumption: profiles that run at the same time         *)
  MaxStrays      (* bound: interferences of other runs                     *)

ASSUME BoundAssumption == {MaxSnapshots, Overlap} \subseteq Nat \ {0} /\ MaxStrays \in Nat
ASSUME NoneAssumption  == NONE \notin Hints \cup Nat

Snapshots == 0 .. MaxSnapshots - 1

VARIABLES
  benchmark,   (* "running" or "exited"                                    *)
  perf,        (* "recording", "signalled" (SIGUSR2 pending) or "exited"   *)
  strays,      (* how often another run interfered                         *)
  files,       (* how many ${benchmark}.2024* files there are              *)
  main,        (* where the main loop is                                   *)
  snapshot,    (* snapshot                                                 *)
  job,         (* where profile s is; "none" before, "done" after          *)
  hints,       (* ${benchmark}.hints.s                                     *)
  lockfile,    (* .lockfile: a snapshot, or NONE while it is truncated     *)
  ca, khuge    (* the snapshot whose hints prctl --ca --et and prctl       *)
               (* --khuge loaded last, NONE before                         *)

mainVars   == <<benchmark, perf, strays, files, main, snapshot>>
kernelVars == <<ca, khuge>>
jobVars    == <<job, hints, lockfile, kernelVars>>
vars == <<mainVars, jobVars>>

Running  == {s \in Snapshots : job[s] \notin {"none", "done"}}

Init ==
  /\ benchmark = "running"
  /\ perf = "recording"
  /\ strays = 0
  /\ files = 0
  /\ main = "pgrep"
  /\ snapshot = 0
  /\ job = [s \in Snapshots |-> "none"]
  /\ hints = [s \in Snapshots |-> NONE]
  /\ lockfile = 0
  /\ ca = NONE /\ khuge = NONE

-----------------------------------------------------------------------------
(* The benchmark and perf, which run by themselves. *)

BenchmarkExits ==
  /\ benchmark = "running"
  /\ benchmark' = "exited"
  /\ UNCHANGED <<perf, strays, files, main, snapshot, jobVars>>

\* perf --switch-output=signal ends a file for every SIGUSR2.
PerfSwitches ==
  /\ perf = "signalled"
  /\ perf' = "recording"
  /\ files' = files + 1
  /\ UNCHANGED <<benchmark, strays, main, snapshot, jobVars>>

\* The recorded process is gone: perf ends its last file and exits.
PerfExits ==
  /\ benchmark = "exited"
  /\ perf # "exited"
  /\ perf' = "exited"
  /\ files' = files + 1
  /\ UNCHANGED <<benchmark, strays, main, snapshot, jobVars>>

\* pkill -SIGUSR2 "^perf record" finds the perf of every run; two signals that
\* are pending are one.
Signalled == IF perf = "exited" THEN perf ELSE "signalled"

Interferes ==
  /\ strays < MaxStrays
  /\ strays' = strays + 1
  /\ UNCHANGED <<benchmark, files, main, snapshot>>

StraySignal == Interferes /\ perf' = Signalled /\ UNCHANGED jobVars

\* A job of the other run has its snapshot's number written, or its main loop
\* resets the file.
StrayWrite ==
  /\ Interferes
  /\ lockfile' \in Snapshots
  /\ UNCHANGED <<perf, job, hints, kernelVars>>

\* flock -n fails: a job of the other run, which opened the file itself, has it.
StrayLock(s) ==
  /\ Interferes
  /\ job[s] = "lock"
  /\ job' = [job EXCEPT ![s] = "done"]
  /\ UNCHANGED <<perf, hints, lockfile, kernelVars>>

-----------------------------------------------------------------------------
(* The main loop. *)

\* Mutant: the loop does not ask for the benchmark.
PgrepNever ==
  /\ main = "pgrep"
  /\ snapshot < MaxSnapshots
  /\ main' = "sleep"
  /\ UNCHANGED <<benchmark, perf, strays, files, snapshot, jobVars>>

Pgrep ==
  /\ main = "pgrep"
  /\ snapshot < MaxSnapshots
  /\ main' = IF benchmark = "running" THEN "sleep" ELSE "finished"
  /\ UNCHANGED <<benchmark, perf, strays, files, snapshot, jobVars>>

\* The interval is over: no more than Overlap - 1 jobs are left by then.
Signal ==
  /\ main = "sleep"
  /\ Cardinality(Running) < Overlap
  /\ main' = "ls"
  /\ perf' = Signalled
  /\ UNCHANGED <<benchmark, strays, files, snapshot, jobVars>>

\* Mutant: the snapshot is copied, not moved.
MoveCopies ==
  /\ main = "ls"
  /\ files = 1
  /\ job' = [job EXCEPT ![snapshot] = "report"]
  /\ snapshot' = snapshot + 1
  /\ main' = "pgrep"
  /\ UNCHANGED <<benchmark, perf, strays, files, hints, lockfile, kernelVars>>

\* The loop of line 231 ends when ls prints the name of one file; the names of
\* two are not the name of a file.
Move ==
  /\ main = "ls"
  /\ files = 1
  /\ files' = 0
  /\ job' = [job EXCEPT ![snapshot] = "report"]
  /\ snapshot' = snapshot + 1
  /\ main' = "pgrep"
  /\ UNCHANGED <<benchmark, perf, strays, hints, lockfile, kernelVars>>

-----------------------------------------------------------------------------
(* profile(), step by step. *)

Goto(s, from, to) ==
  /\ job[s] = from
  /\ job' = [job EXCEPT ![s] = to]
  /\ UNCHANGED mainVars

\* perf report writes the dump; the epoch is that and the dump before.
Report(s) ==
  /\ Goto(s, "report", "leshy")
  /\ UNCHANGED <<hints, lockfile, kernelVars>>

\* Misses empty, hints empty, or nothing left after the selection: return.
NoHints(s) ==
  /\ Goto(s, "leshy", "done")
  /\ UNCHANGED <<hints, lockfile, kernelVars>>

Leshy(s) ==
  /\ Goto(s, "leshy", "compare")
  /\ \E h \in Hints : hints' = [hints EXCEPT ![s] = h]
  /\ UNCHANGED <<lockfile, kernelVars>>

\* Mutant: a missing file counts as the same hints.
SameIfMissing(s) == s # 0 /\ hints[s - 1] \in {hints[s], NONE}

Same(s) == s # 0 /\ hints[s - 1] = hints[s]

\* The checksums are compared with whatever is in the other file by now.
Compare(s) ==
  /\ Goto(s, "compare", IF Same(s) THEN "done" ELSE "lock")
  /\ UNCHANGED <<hints, lockfile, kernelVars>>

Lock(s) ==
  /\ Goto(s, "lock", "check")
  /\ UNCHANGED <<hints, lockfile, kernelVars>>

\* A file that is truncated at the moment reads as 0.
Outdated(s) == lockfile # NONE /\ s < lockfile

Check(s) ==
  /\ Goto(s, "check", IF Outdated(s) THEN "done" ELSE "truncate")
  /\ UNCHANGED <<hints, lockfile, kernelVars>>

Truncate(s) ==
  /\ Goto(s, "truncate", "write")
  /\ lockfile' = NONE
  /\ UNCHANGED <<hints, kernelVars>>

\* Mutant: off by one.
WriteNext(s) ==
  /\ Goto(s, "write", "ca")
  /\ lockfile' = s + 1
  /\ UNCHANGED <<hints, kernelVars>>

Write(s) ==
  /\ Goto(s, "write", "ca")
  /\ lockfile' = s
  /\ UNCHANGED <<hints, kernelVars>>

LoadCa(s) ==
  /\ Goto(s, "ca", "khuge")
  /\ ca' = s
  /\ UNCHANGED <<hints, lockfile, khuge>>

LoadKhuge(s) ==
  /\ Goto(s, "khuge", "unlock")
  /\ khuge' = s
  /\ UNCHANGED <<hints, lockfile, ca>>

Unlock(s) ==
  /\ Goto(s, "unlock", "done")
  /\ UNCHANGED <<hints, lockfile, kernelVars>>

Profile(s) ==
  \/ Report(s) \/ NoHints(s) \/ Leshy(s)
  \/ Compare(s) \/ Lock(s) \/ Check(s) \/ Truncate(s) \/ Write(s)
  \/ LoadCa(s) \/ LoadKhuge(s) \/ Unlock(s)

-----------------------------------------------------------------------------
Next ==
  \/ BenchmarkExits \/ PerfSwitches \/ PerfExits \/ StraySignal \/ StrayWrite
  \/ Pgrep \/ Signal \/ Move
  \/ \E s \in Snapshots : Profile(s) \/ StrayLock(s)

\* Every process that can go on does: the scheduler runs perf, the main loop
\* and the jobs.  The benchmark need not exit.
Fairness ==
  /\ WF_vars(PerfSwitches \/ PerfExits)
  /\ WF_vars(Pgrep \/ Signal \/ Move)
  /\ \A s \in Snapshots : WF_vars(Profile(s))

Spec == Init /\ [][Next]_vars /\ Fairness

-----------------------------------------------------------------------------
(* Properties. *)

TypeOK ==
  /\ files \in 0 .. 2 + strays
  /\ snapshot \in 0 .. MaxSnapshots
  /\ \A s \in Snapshots : hints[s] \in Hints \cup {NONE}
  /\ {lockfile, ca, khuge} \subseteq Snapshots \cup {NONE}

\* The hints in force are never replaced by those of an older snapshot (lines
\* 120-124 look for that, and say "wtf").
NeverOlder ==
  [][ /\ ca # NONE => ca' >= ca
      /\ khuge # NONE => khuge' >= khuge ]_vars

\* At rest the kernel has the newest hints there are, both for faults and for
\* khugepaged, although some profiles return because theirs are the same as
\* the hints before and others because they have none; unless another run of the
\* same directory interferes (its lock and its numbers make a profile drop its
\* hints, and the next profile with the same hints does not load them either).
NewestInForce ==
  LET with == {s \in Snapshots : hints[s] # NONE} IN
  Running = {} /\ with # {} /\ strays = 0 =>
    /\ ca # NONE /\ khuge = ca
    /\ hints[ca] = hints[Max(with)]

\* The main loop never waits for good while its benchmark runs, so that new hints
\* keep coming: at most one file is there when it looks, as long as no other run
\* signals perf.  (In a mix of runs with online Leshys every other run does, and
\* one signal is enough.)
OneFileAtATime ==
  main = "ls" /\ files > 1 => benchmark = "exited" \/ strays > 0

\* Once the benchmark has exited the main loop comes to an end, unless the
\* last file of perf, or a file another run made it end, joins the one of the
\* last snapshot, or the bound is met.
LoopEnds ==
  benchmark = "exited" ~>
    \/ main = "finished"
    \/ snapshot = MaxSnapshots
    \/ main = "ls" /\ files > 1

=============================================================================
