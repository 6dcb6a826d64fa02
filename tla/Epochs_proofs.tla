--------------------------- MODULE Epochs_proofs -----------------------------
(***************************************************************************)
(* Proofs about Epochs, for every number of snapshots, every set of hints  *)
(* and every number of interferences.  What depends on profiles that do    *)
(* not overlap says so: Overlap = 1.                                       *)
(***************************************************************************)
EXTENDS Epochs, FiniteSetTheorems, TLAPS

USE BoundAssumption, NoneAssumption

Early   == {"report", "leshy"}
Pending == {"compare", "lock", "check", "truncate", "write", "ca"}
Places  == {"none", "done", "khuge", "unlock"} \cup Early \cup Pending

-----------------------------------------------------------------------------
(* Types, and how many files there are. *)

Types ==
  /\ benchmark \in {"running", "exited"}
  /\ perf \in {"recording", "signalled", "exited"}
  /\ strays \in Nat
  /\ files \in Nat
  /\ main \in {"pgrep", "sleep", "ls", "finished"}
  /\ snapshot \in 0 .. MaxSnapshots
  /\ main \in {"sleep", "ls"} => snapshot \in Snapshots
  /\ job \in [Snapshots -> Places]
  /\ hints \in [Snapshots -> Hints \cup {NONE}]
  /\ {lockfile, ca, khuge} \subseteq Snapshots \cup {NONE}

Once(p) == IF p THEN 1 ELSE 0

\* Every file was asked for by this main loop or by another, or is the last.
Files ==
  /\ files + Once(perf = "signalled") <= strays + Once(main = "ls") + Once(perf = "exited")
  /\ perf = "exited" => benchmark = "exited"

\* What one step of profile s may do to the places and to the main loop.
LEMMA ProfileMoves ==
  ASSUME NEW s \in Snapshots, Profile(s), Types
  PROVE  /\ \E to \in Places \ {"none"} : job' = [job EXCEPT ![s] = to]
         /\ job[s] \notin {"none", "done"}
         /\ UNCHANGED mainVars
<1> USE DEF Places, Early, Pending
<1>1. CASE Report(s) \/ NoHints(s) \/ Leshy(s)
  BY <1>1 DEF Report, NoHints, Leshy, Goto
<1>2. CASE Compare(s) \/ Lock(s) \/ Check(s) \/ Truncate(s) \/ Write(s)
  BY <1>2 DEF Compare, Lock, Check, Truncate, Write, Goto
<1>3. CASE LoadCa(s) \/ LoadKhuge(s) \/ Unlock(s)
  BY <1>3 DEF LoadCa, LoadKhuge, Unlock, Goto
<1>4. QED
  BY <1>1, <1>2, <1>3 DEF Profile

LEMMA TypesInit == Init => Types /\ Files
BY DEF Init, Types, Files, Once, Snapshots, Places

LEMMA TypesStep == Types /\ [Next]_vars => Types'
<1> SUFFICES ASSUME Types, [Next]_vars PROVE Types'
  OBVIOUS
<1> USE DEF Types, jobVars, kernelVars
<1>1. CASE BenchmarkExits \/ PerfSwitches \/ PerfExits \/ StraySignal \/ StrayWrite
  BY <1>1 DEF BenchmarkExits, PerfSwitches, PerfExits, StraySignal, StrayWrite,
              Interferes, Signalled
<1>2. CASE Pgrep \/ Signal
  BY <1>2 DEF Pgrep, Signal, Signalled, Snapshots
<1>3. CASE Move
  BY <1>3 DEF Move, Snapshots, Places, Early
<1>4. ASSUME NEW s \in Snapshots, Profile(s) PROVE Types'
  <2>1. /\ \E to \in Places \ {"none"} : job' = [job EXCEPT ![s] = to]
        /\ UNCHANGED mainVars
    BY <1>4, ProfileMoves
  <2>2. CASE Report(s)
    BY <2>1, <2>2 DEF Report, mainVars
  <2>4. CASE Leshy(s)
    BY <2>1, <2>4 DEF Leshy, mainVars
  <2>5. CASE NoHints(s) \/ Compare(s) \/ Lock(s) \/ Check(s) \/ Unlock(s)
    BY <2>1, <2>5 DEF NoHints, Compare, Lock, Check, Unlock, mainVars
  <2>6. CASE Truncate(s) \/ Write(s)
    BY <2>1, <2>6 DEF Truncate, Write, mainVars
  <2>7. CASE LoadCa(s) \/ LoadKhuge(s)
    BY <2>1, <2>7 DEF LoadCa, LoadKhuge, mainVars
  <2>8. QED
    BY <1>4, <2>2, <2>4, <2>5, <2>6, <2>7 DEF Profile
<1>5. ASSUME NEW s \in Snapshots, StrayLock(s) PROVE Types'
  BY <1>5 DEF StrayLock, Interferes, Places
<1>6. CASE UNCHANGED vars
  BY <1>6 DEF vars, mainVars
<1>7. QED
  BY <1>1, <1>2, <1>3, <1>4, <1>5, <1>6 DEF Next

LEMMA FilesStep == Types /\ Files /\ [Next]_vars => Files'
<1> SUFFICES ASSUME Types, Files, [Next]_vars PROVE Files'
  OBVIOUS
<1> USE DEF Types, Files, Once, jobVars, kernelVars
<1>1. CASE BenchmarkExits \/ StraySignal \/ StrayWrite
  BY <1>1 DEF BenchmarkExits, StraySignal, StrayWrite, Interferes, Signalled
<1>2. CASE PerfSwitches \/ PerfExits
  BY <1>2 DEF PerfSwitches, PerfExits
<1>3. CASE Pgrep \/ Signal \/ Move
  BY <1>3 DEF Pgrep, Signal, Move, Signalled
<1>4. ASSUME NEW s \in Snapshots, Profile(s) PROVE Files'
  BY <1>4, ProfileMoves DEF mainVars
<1>5. ASSUME NEW s \in Snapshots, StrayLock(s) PROVE Files'
  BY <1>5 DEF StrayLock, Interferes
<1>6. CASE UNCHANGED vars
  BY <1>6 DEF vars, mainVars
<1>7. QED
  BY <1>1, <1>2, <1>3, <1>4, <1>5, <1>6 DEF Next

LEMMA TypesAlways == Spec => [](Types /\ Files)
BY TypesInit, TypesStep, FilesStep, PTL DEF Spec

\* Type correctness: no more files than snapshots asked for, here or by other
\* runs, and the one of the end.
THEOREM EpochsTypes == Spec => []TypeOK
<1>1. Types /\ Files => TypeOK
  BY DEF Types, Files, Once, TypeOK
<1>2. QED
  BY <1>1, TypesAlways, PTL

\* The main loop does not wait for good while its benchmark runs and no other run
\* signals perf, whatever profiles overlap.
THEOREM EpochsOneFileAtATime == Spec => []OneFileAtATime
<1>1. Types /\ Files => OneFileAtATime
  BY DEF Types, Files, Once, OneFileAtATime
<1>2. QED
  BY <1>1, TypesAlways, PTL

-----------------------------------------------------------------------------
(* Profiles that do not overlap: which one runs, what it loads. *)

\* A profile is started for every snapshot there was, and loads its own.
Started ==
  /\ \A s \in Snapshots : job[s] # "none" <=> s < snapshot
  /\ ca # NONE => ca < snapshot
  /\ khuge # NONE => khuge < snapshot

\* The profile that runs is that of the last snapshot, and the main loop starts
\* no other.
Alone == \A s \in Running : s = snapshot - 1 /\ main # "ls"

Serial == Types /\ Started /\ Alone

LEMMA SerialInit == Init => Serial
BY TypesInit DEF Init, Serial, Started, Alone, Running, Snapshots

\* With one job at a time the interval is over when none is left.
LEMMA NoneLeft ==
  ASSUME Overlap = 1, Signal
  PROVE  Running = {}
<1>1. IsFiniteSet(Running)
  <2>1. IsFiniteSet(Snapshots) /\ Running \in SUBSET Snapshots
    BY FS_Interval DEF Snapshots, Running
  <2>2. QED
    BY <2>1, FS_Subset
<1>2. Cardinality(Running) \in Nat /\ Cardinality(Running) < 1
  BY <1>1, FS_CardinalityType DEF Signal
<1>3. Cardinality(Running) = 0
  BY <1>2
<1>4. QED
  BY <1>1, <1>3, FS_EmptySet

LEMMA StartedStep == Types /\ Started /\ [Next]_vars => Started'
<1> SUFFICES ASSUME Types, Started, [Next]_vars PROVE Started'
  OBVIOUS
<1> USE DEF Types, Started, jobVars, kernelVars
<1>1. CASE BenchmarkExits \/ PerfSwitches \/ PerfExits \/ StraySignal \/ StrayWrite
  BY <1>1 DEF BenchmarkExits, PerfSwitches, PerfExits, StraySignal, StrayWrite,
              Interferes
<1>2. CASE Pgrep \/ Signal
  BY <1>2 DEF Pgrep, Signal
<1>3. CASE Move
  BY <1>3 DEF Move, Snapshots
<1>4. ASSUME NEW s \in Snapshots, Profile(s) PROVE Started'
  <2>1. /\ \E to \in Places \ {"none"} : job' = [job EXCEPT ![s] = to]
        /\ job[s] # "none" /\ snapshot' = snapshot
    BY <1>4, ProfileMoves DEF mainVars
  <2>2. ca' \in {ca, s} /\ khuge' \in {khuge, s}
    BY <1>4 DEF Profile, Report, NoHints, Leshy, Compare, Lock, Check,
                Truncate, Write, LoadCa, LoadKhuge, Unlock
  <2>3. QED
    BY <2>1, <2>2
<1>5. ASSUME NEW s \in Snapshots, StrayLock(s) PROVE Started'
  BY <1>5 DEF StrayLock, Interferes
<1>6. CASE UNCHANGED vars
  BY <1>6 DEF vars, mainVars
<1>7. QED
  BY <1>1, <1>2, <1>3, <1>4, <1>5, <1>6 DEF Next

LEMMA AloneStep ==
  Overlap = 1 /\ Types /\ Started /\ Alone /\ [Next]_vars => Alone'
<1> SUFFICES ASSUME Overlap = 1, Types, Started, Alone, [Next]_vars PROVE Alone'
  OBVIOUS
<1> USE DEF Types, Alone, Running, jobVars, kernelVars
<1>1. CASE BenchmarkExits \/ PerfSwitches \/ PerfExits \/ StraySignal \/ StrayWrite
  BY <1>1 DEF BenchmarkExits, PerfSwitches, PerfExits, StraySignal, StrayWrite,
              Interferes
<1>2. CASE Pgrep
  BY <1>2 DEF Pgrep
<1>3. CASE Signal
  <2>1. Running = {} /\ job' = job
    BY <1>3, NoneLeft DEF Signal
  <2>2. QED
    BY <2>1
<1>4. CASE Move
  BY <1>4 DEF Move, Snapshots
<1>5. ASSUME NEW s \in Snapshots, Profile(s) PROVE Alone'
  BY <1>5, ProfileMoves DEF mainVars
<1>6. ASSUME NEW s \in Snapshots, StrayLock(s) PROVE Alone'
  BY <1>6 DEF StrayLock, Interferes
<1>7. CASE UNCHANGED vars
  BY <1>7 DEF vars, mainVars
<1>8. QED
  BY <1>1, <1>2, <1>3, <1>4, <1>5, <1>6, <1>7 DEF Next

LEMMA SerialStep == Overlap = 1 /\ Serial /\ [Next]_vars => Serial'
BY TypesStep, StartedStep, AloneStep DEF Serial

\* Without overlap the hints in force are never replaced by older ones, whatever
\* other runs write to the lock file.
THEOREM EpochsNeverOlder == Overlap = 1 /\ Spec => NeverOlder
<1> SUFFICES ASSUME Overlap = 1 PROVE Spec => NeverOlder
  OBVIOUS
<1> DEFINE Newer == (ca # NONE => ca' >= ca) /\ (khuge # NONE => khuge' >= khuge)
<1>1. ASSUME Serial, [Next]_vars PROVE Newer \/ UNCHANGED vars
  <2>0. Types /\ Started /\ Alone
    BY <1>1 DEF Serial
  <2> USE <2>0 DEF Types, Started, Alone, Snapshots
  <2>1. CASE BenchmarkExits \/ PerfSwitches \/ PerfExits \/ StraySignal \/ StrayWrite
    BY <2>1 DEF BenchmarkExits, PerfSwitches, PerfExits, StraySignal, StrayWrite,
                jobVars, kernelVars
  <2>2. CASE Pgrep \/ Signal \/ Move
    BY <2>2 DEF Pgrep, Signal, Move, jobVars, kernelVars
  <2>3. ASSUME NEW s \in Snapshots, Profile(s) PROVE Newer
    <3>1. s = snapshot - 1
      BY <2>3, ProfileMoves DEF Running
    <3>2. ca' \in {ca, s} /\ khuge' \in {khuge, s}
      BY <2>3 DEF Profile, Report, NoHints, Leshy, Compare, Lock, Check,
                  Truncate, Write, LoadCa, LoadKhuge, Unlock, kernelVars
    <3>3. QED
      BY <3>1, <3>2
  <2>4. ASSUME NEW s \in Snapshots, StrayLock(s) PROVE Newer
    BY <2>4 DEF StrayLock, kernelVars
  <2>5. QED
    BY <1>1, <2>1, <2>2, <2>3, <2>4 DEF Next
<1>2. Serial /\ [Next]_vars => [Newer]_vars
  BY <1>1
<1>3. Serial /\ [Next]_vars => Serial'
  BY SerialStep
<1>4. QED
  BY SerialInit, <1>2, <1>3, PTL DEF Spec, NeverOlder

-----------------------------------------------------------------------------
(* The hints in force, as long as no other run interferes. *)

\* Snapshots with hints, up to one.
With(n) == {t \in Snapshots : t < n /\ hints[t] # NONE}

\* What is in the kernel is what the newest of them says.
Newest(W) ==
  W # {} => /\ ca # NONE /\ khuge = ca
            /\ \E m \in W : (\A t \in W : t <= m) /\ hints[ca] = hints[m]

\* The kernel has the newest hints of the profiles before the one that runs until
\* that loads its own; then those.
InForce ==
  /\ \A s \in Snapshots :
       /\ job[s] \in {"none"} \cup Early => hints[s] = NONE
       /\ job[s] \in {"khuge", "unlock"} \cup Pending => hints[s] # NONE
       /\ job[s] \in Pending => Newest(With(s))
       /\ job[s] = "khuge" => ca = s
  /\ (\A s \in Snapshots : job[s] \notin {"khuge"} \cup Pending) =>
       Newest(With(MaxSnapshots))
  /\ lockfile \in Nat \ {0} => lockfile < snapshot
  /\ ca # NONE => hints[ca] # NONE

Kernel == strays = 0 => InForce

\* The invariant all of it together.
IInv == Types /\ Files /\ (Overlap = 1 => Serial /\ Kernel)

LEMMA KernelInit == Init => Kernel
BY DEF Init, Kernel, InForce, With, Newest, Early, Pending, Snapshots

\* The profile that runs, the ones before and the ones after it.
LEMMA OnlyOne ==
  ASSUME Serial, NEW s \in Snapshots, job[s] \notin {"none", "done"}
  PROVE  /\ s = snapshot - 1
         /\ \A t \in Snapshots \ {s} : job[t] \in {"none", "done"}
         /\ \A t \in Snapshots : t > s => job[t] = "none"
BY DEF Serial, Types, Started, Alone, Running, Snapshots

\* Only hints and what is loaded matter.
LEMMA NewestFrame ==
  ASSUME UNCHANGED <<hints, ca, khuge>>
  PROVE  \A n \in Nat : Newest(With(n))' <=> Newest(With(n))
<1> SUFFICES ASSUME NEW n \in Nat PROVE Newest(With(n))' <=> Newest(With(n))
  OBVIOUS
<1>1. With(n)' = With(n)
  BY DEF With
<1>2. QED
  BY <1>1 DEF Newest

\* A step of a profile that loads nothing and finds no hints.
LEMMA InForceFrame ==
  ASSUME Serial, InForce, NEW s \in Snapshots, NEW to \in Places,
         UNCHANGED <<hints, ca, khuge, snapshot>>, job[s] \notin {"none", "done"},
         job' = [job EXCEPT ![s] = to],
         lockfile' \in {lockfile, NONE, s},
         \/ job[s] \in Early /\ to \in Early \cup {"done"}
         \/ job[s] \in Pending /\ to \in Pending
         \/ job[s] = "unlock" /\ to = "done"
  PROVE  InForce'
<1>1. /\ s < snapshot /\ \A t \in Snapshots \ {s} : job[t] \in {"none", "done"}
  BY OnlyOne DEF Serial, Types, Snapshots
<1>2. \A n \in Nat : Newest(With(n))' <=> Newest(With(n))
  BY NewestFrame
<1>3. job' \in [Snapshots -> Places] /\ job'[s] = to
      /\ \A t \in Snapshots \ {s} : job'[t] = job[t]
  BY DEF Serial, Types
<1>4. MaxSnapshots \in Nat /\ Snapshots \subseteq Nat
  BY DEF Snapshots
<1>5. ASSUME NEW t \in Snapshots
      PROVE  /\ job'[t] \in {"none"} \cup Early => hints'[t] = NONE
             /\ job'[t] \in {"khuge", "unlock"} \cup Pending => hints'[t] # NONE
             /\ job'[t] \in Pending => Newest(With(t))'
             /\ job'[t] = "khuge" => ca' = t
  BY <1>1, <1>2, <1>3, <1>4 DEF InForce, Early, Pending
<1>6. ASSUME \A t \in Snapshots : job'[t] \notin {"khuge"} \cup Pending
      PROVE  Newest(With(MaxSnapshots))'
  BY <1>1, <1>2, <1>3, <1>4, <1>6 DEF InForce, Early, Pending
<1>7. (lockfile \in Nat \ {0} => lockfile < snapshot)'
  BY <1>1 DEF InForce
<1>8. (ca # NONE => hints[ca] # NONE)'
  BY DEF InForce
<1>9. QED
  BY <1>5, <1>6, <1>7, <1>8 DEF InForce

\* Leshy finds hints: those before are in the kernel already.
LEMMA LeshyInForce ==
  ASSUME Serial, InForce, NEW s \in Snapshots, Leshy(s)
  PROVE  InForce'
<1>1. PICK h \in Hints : hints' = [hints EXCEPT ![s] = h]
  BY DEF Leshy
<1>2. /\ job[s] = "leshy" /\ job' = [job EXCEPT ![s] = "compare"]
      /\ UNCHANGED <<ca, khuge, lockfile, snapshot>>
  BY DEF Leshy, Goto, kernelVars, mainVars
<1>3. /\ s < snapshot
      /\ \A t \in Snapshots \ {s} : job[t] \in {"none", "done"}
      /\ \A t \in Snapshots : t > s => job[t] = "none"
  <2>1. job[s] \notin {"none", "done"}
    BY <1>2
  <2>2. QED
    BY <2>1, OnlyOne DEF Serial, Types, Snapshots
<1>4. /\ hints[s] = NONE
      /\ \A t \in Snapshots : t > s => hints[t] = NONE
  BY <1>2, <1>3 DEF InForce, Early
<1>5. /\ hints'[s] # NONE
      /\ \A t \in Snapshots \ {s} : hints'[t] = hints[t]
  BY <1>1 DEF Serial, Types
<1>6. /\ job' \in [Snapshots -> Places] /\ job'[s] = "compare"
      /\ \A t \in Snapshots \ {s} : job'[t] = job[t]
  BY <1>2 DEF Serial, Types, Places, Pending
<1>7. Newest(With(MaxSnapshots))
  BY <1>2, <1>3 DEF InForce, Pending
<1>8. With(s)' = With(MaxSnapshots)
  BY <1>4, <1>5 DEF With, Snapshots
<1>9. ca # NONE => hints'[ca] = hints[ca]
  <2>1. ca # NONE => ca \in Snapshots \ {s}
    BY <1>4 DEF InForce, Serial, Types
  <2>2. QED
    BY <2>1, <1>5
<1>11. Newest(With(s))'
  <2>1. SUFFICES ASSUME With(MaxSnapshots) # {} PROVE Newest(With(s))'
    BY <1>8 DEF Newest
  <2>2. PICK m \in With(MaxSnapshots) :
          (\A t \in With(MaxSnapshots) : t <= m) /\ hints[ca] = hints[m]
    BY <1>7, <2>1 DEF Newest
  <2>3. hints'[ca] = hints'[m]
    BY <1>4, <1>5, <1>7, <1>9, <2>1, <2>2 DEF With, Newest
  <2>4. QED
    BY <1>2, <1>7, <1>8, <2>1, <2>2, <2>3 DEF Newest
<1>12. ASSUME NEW t \in Snapshots
       PROVE  /\ job'[t] \in {"none"} \cup Early => hints'[t] = NONE
              /\ job'[t] \in {"khuge", "unlock"} \cup Pending => hints'[t] # NONE
              /\ job'[t] \in Pending => Newest(With(t))'
              /\ job'[t] = "khuge" => ca' = t
  BY <1>3, <1>5, <1>6, <1>11 DEF InForce, Early, Pending
<1>13. job'[s] \in Pending
  BY <1>6 DEF Pending
<1>14. (lockfile \in Nat \ {0} => lockfile < snapshot)'
  BY <1>2 DEF InForce
<1>15. (ca # NONE => hints[ca] # NONE)'
  BY <1>2, <1>9 DEF InForce
<1>16. QED
  BY <1>12, <1>13, <1>14, <1>15 DEF InForce

\* The same hints as the last before are in the kernel already.
LEMMA CompareInForce ==
  ASSUME Serial, InForce, NEW s \in Snapshots, Compare(s)
  PROVE  InForce'
<1>1. /\ job[s] = "compare"
      /\ job' = [job EXCEPT ![s] = IF Same(s) THEN "done" ELSE "lock"]
      /\ UNCHANGED <<hints, ca, khuge, lockfile, snapshot>>
  BY DEF Compare, Goto, kernelVars, mainVars
<1>2. CASE ~ Same(s)
  BY <1>1, <1>2, InForceFrame DEF Places, Pending
<1>3. CASE Same(s)
  <2>1. /\ s < snapshot
        /\ \A t \in Snapshots \ {s} : job[t] \in {"none", "done"}
        /\ \A t \in Snapshots : t > s => job[t] = "none"
    BY <1>1, OnlyOne DEF Serial, Types, Snapshots
  <2>2. /\ hints[s] # NONE /\ Newest(With(s))
        /\ \A t \in Snapshots : t > s => hints[t] = NONE
    BY <1>1, <2>1 DEF InForce, Pending, Early
  <2>3. s - 1 \in With(s) /\ hints[s - 1] = hints[s]
    BY <1>3, <2>2 DEF Same, With, Snapshots
  <2>4. With(s) \in SUBSET Snapshots /\ \A t \in With(s) : t <= s - 1
    BY DEF With, Snapshots
  <2>6. /\ With(MaxSnapshots) \in SUBSET Snapshots
        /\ s \in With(MaxSnapshots)
        /\ \A t \in With(MaxSnapshots) : t <= s
    BY <2>2 DEF With, Snapshots
  <2>7. ca # NONE /\ khuge = ca /\ hints[ca] = hints[s]
    <3>1. PICK m \in With(s) : (\A t \in With(s) : t <= m) /\ hints[ca] = hints[m]
      BY <2>2, <2>3 DEF Newest
    <3>2. m <= s - 1 /\ m >= s - 1 /\ m \in Snapshots
      BY <2>3, <2>4, <3>1
    <3>3. m = s - 1
      BY <3>2 DEF Snapshots
    <3>4. QED
      BY <2>2, <2>3, <3>1, <3>3 DEF Newest
  <2>8. Newest(With(MaxSnapshots))
    BY <2>6, <2>7 DEF Newest
  <2>9. Newest(With(MaxSnapshots))'
    BY <1>1, <2>8, NewestFrame
  <2>10. /\ job' \in [Snapshots -> Places] /\ job'[s] = "done"
         /\ \A t \in Snapshots \ {s} : job'[t] = job[t]
    BY <1>1, <1>3 DEF Serial, Types, Places
  <2>11. ASSUME NEW t \in Snapshots
         PROVE  /\ job'[t] \in {"none"} \cup Early => hints'[t] = NONE
                /\ job'[t] \notin {"khuge", "unlock"} \cup Pending
    BY <1>1, <2>1, <2>10 DEF InForce, Early, Pending
  <2>12. (lockfile \in Nat \ {0} => lockfile < snapshot)' /\ (ca # NONE => hints[ca] # NONE)'
    BY <1>1 DEF InForce
  <2>13. QED
    BY <2>9, <2>11, <2>12 DEF InForce
<1>4. QED
  BY <1>2, <1>3

\* The hints of the profile that runs are loaded, for faults and for khugepaged.
LEMMA LoadInForce ==
  ASSUME Serial, InForce, NEW s \in Snapshots, LoadCa(s) \/ LoadKhuge(s)
  PROVE  InForce'
<1>1. /\ job[s] \in {"ca", "khuge"}
      /\ job' = [job EXCEPT ![s] = IF job[s] = "ca" THEN "khuge" ELSE "unlock"]
      /\ UNCHANGED <<hints, lockfile, snapshot>>
      /\ ca' = s
      /\ job[s] = "khuge" => khuge' = s
  BY DEF LoadCa, LoadKhuge, Goto, mainVars, InForce
<1>2. /\ s < snapshot
      /\ \A t \in Snapshots \ {s} : job[t] \in {"none", "done"}
      /\ \A t \in Snapshots : t > s => job[t] = "none"
  BY <1>1, OnlyOne DEF Serial, Types, Snapshots
<1>3. /\ hints[s] # NONE
      /\ \A t \in Snapshots : t > s => hints[t] = NONE
  BY <1>1, <1>2 DEF InForce, Pending, Early
<1>4. /\ With(MaxSnapshots) \in SUBSET Snapshots
      /\ s \in With(MaxSnapshots)
      /\ \A t \in With(MaxSnapshots) : t <= s
  BY <1>3 DEF With, Snapshots
<1>6. With(MaxSnapshots)' = With(MaxSnapshots)
  BY <1>1 DEF With
<1>7. job[s] = "khuge" => Newest(With(MaxSnapshots))'
  <2>1. SUFFICES ASSUME job[s] = "khuge" PROVE Newest(With(MaxSnapshots))'
    OBVIOUS
  <2>2. ca' # NONE /\ khuge' = ca' /\ hints'[ca'] = hints'[s]
    BY <1>1, <2>1 DEF Snapshots
  <2>3. QED
    BY <1>4, <1>6, <2>2 DEF Newest
<1>8. /\ job' \in [Snapshots -> Places]
      /\ job'[s] = IF job[s] = "ca" THEN "khuge" ELSE "unlock"
      /\ \A t \in Snapshots \ {s} : job'[t] = job[t]
  BY <1>1 DEF Serial, Types, Places
<1>9. ASSUME NEW t \in Snapshots
      PROVE  /\ job'[t] \in {"none"} \cup Early => hints'[t] = NONE
             /\ job'[t] \in {"khuge", "unlock"} => hints'[t] # NONE
             /\ job'[t] \notin Pending
             /\ job'[t] = "khuge" => ca' = t
  BY <1>1, <1>2, <1>3, <1>8 DEF InForce, Early, Pending
<1>10. (lockfile \in Nat \ {0} => lockfile < snapshot)' /\ (ca # NONE => hints[ca] # NONE)'
  BY <1>1, <1>3 DEF InForce
<1>11. (\A t \in Snapshots : job'[t] # "khuge") => Newest(With(MaxSnapshots))'
  BY <1>1, <1>7, <1>8
<1>12. QED
  BY <1>9, <1>10, <1>11 DEF InForce

LEMMA KernelStep == Serial /\ Kernel /\ [Next]_vars => Kernel'
<1> SUFFICES ASSUME Serial, Kernel, [Next]_vars, strays' = 0 PROVE InForce'
  BY DEF Kernel
<1>1. Types /\ Started /\ Alone
  BY DEF Serial
<1>2. ~ Interferes
  BY <1>1 DEF Interferes, Types
<1>3. ASSUME UNCHANGED <<snapshot, jobVars>>, InForce PROVE InForce'
  <2>1. \A n \in Nat : Newest(With(n))' <=> Newest(With(n))
    BY <1>3, NewestFrame DEF jobVars, kernelVars
  <2>2. MaxSnapshots \in Nat /\ Snapshots \subseteq Nat
    BY DEF Snapshots
  <2>3. QED
    BY <1>3, <2>1, <2>2 DEF InForce, jobVars, kernelVars
<1>4. CASE BenchmarkExits \/ PerfSwitches \/ PerfExits \/ Pgrep \/ Signal
  <2>1. UNCHANGED <<snapshot, jobVars>> /\ strays = 0
    BY <1>4 DEF BenchmarkExits, PerfSwitches, PerfExits, Pgrep, Signal
  <2>2. QED
    BY <1>3, <2>1 DEF Kernel
<1>5. CASE Move
  <2>1. /\ InForce /\ snapshot \in Snapshots /\ snapshot' = snapshot + 1
        /\ job' = [job EXCEPT ![snapshot] = "report"]
        /\ UNCHANGED <<hints, lockfile, ca, khuge>> /\ job \in [Snapshots -> Places]
    BY <1>1, <1>5 DEF Move, Kernel, Types, kernelVars
  <2>2. \A t \in Snapshots : job[t] \in {"none", "done"}
    BY <1>1, <1>5 DEF Alone, Running, Move
  <2>3. job[snapshot] = "none"
    BY <1>1, <2>1 DEF Started, Types
  <2>4. Newest(With(MaxSnapshots))'
    BY <2>1, <2>2, NewestFrame DEF InForce, Pending
  <2>5. ASSUME NEW t \in Snapshots
        PROVE  /\ job'[t] \in {"none"} \cup Early => hints'[t] = NONE
               /\ job'[t] \notin {"khuge", "unlock"} \cup Pending
    BY <2>1, <2>2, <2>3 DEF InForce, Early, Pending
  <2>6. (lockfile \in Nat \ {0} => lockfile < snapshot)' /\ (ca # NONE => hints[ca] # NONE)'
    BY <1>1, <2>1 DEF InForce, Types
  <2>7. QED
    BY <2>4, <2>5, <2>6 DEF InForce
<1>6. ASSUME NEW s \in Snapshots, Profile(s) PROVE InForce'
  <2>1. InForce /\ UNCHANGED mainVars /\ snapshot' = snapshot
    BY <1>6, ProfileMoves, <1>1 DEF mainVars, Kernel
  <2>2. CASE Report(s) \/ NoHints(s)
    <3>1. PICK to \in Early \cup {"done"} : job' = [job EXCEPT ![s] = to]
      BY <2>2 DEF Report, NoHints, Goto, Early
    <3>2. job[s] \in Early /\ UNCHANGED <<hints, ca, khuge, lockfile>>
      BY <2>2 DEF Report, NoHints, Goto, Early, kernelVars
    <3>3. QED
      BY <2>1, <3>1, <3>2, InForceFrame DEF Early, Places
  <2>3. CASE Check(s)
    <3>1. job[s] = "check" /\ UNCHANGED <<hints, ca, khuge, lockfile>>
      BY <2>3 DEF Check, Goto, kernelVars
    <3>2. s = snapshot - 1
      BY <3>1, OnlyOne
    <3>3. ~ Outdated(s)
      BY <1>1, <2>1, <3>2 DEF Outdated, InForce, Types, Snapshots
    <3>4. job' = [job EXCEPT ![s] = "truncate"]
      BY <2>3, <3>3 DEF Check, Goto
    <3>5. QED
      BY <2>1, <3>1, <3>4, InForceFrame DEF Pending, Places
  <2>4. CASE Lock(s) \/ Truncate(s) \/ Write(s)
    <3>1. PICK to \in Pending : job' = [job EXCEPT ![s] = to]
      BY <2>4 DEF Lock, Truncate, Write, Goto, Pending
    <3>2. /\ job[s] \in Pending /\ UNCHANGED <<hints, ca, khuge>>
          /\ lockfile' \in {lockfile, NONE, s}
      BY <2>4 DEF Lock, Truncate, Write, Goto, Pending, kernelVars
    <3>3. QED
      BY <2>1, <3>1, <3>2, InForceFrame DEF Pending, Places
  <2>5. CASE Unlock(s)
    <3>1. /\ job[s] = "unlock" /\ job' = [job EXCEPT ![s] = "done"]
          /\ UNCHANGED <<hints, ca, khuge, lockfile>>
      BY <2>5 DEF Unlock, Goto, kernelVars
    <3>2. QED
      BY <2>1, <3>1, InForceFrame DEF Places
  <2>6. QED
    BY <1>6, <2>1, <2>2, <2>3, <2>4, <2>5, LeshyInForce, CompareInForce, LoadInForce
       DEF Profile
<1>7. CASE UNCHANGED vars
  BY <1>3, <1>7 DEF vars, mainVars, Kernel
<1>8. QED
  BY <1>2, <1>4, <1>5, <1>6, <1>7 DEF Next, StraySignal, StrayWrite, StrayLock

LEMMA MaxIs ==
  ASSUME NEW W \in SUBSET Snapshots, NEW m \in W, \A t \in W : t <= m
  PROVE  Max(W) = m
<1>1. \A x \in W : (\A y \in W : x >= y) => x = m
  BY DEF Snapshots
<1>2. \A y \in W : m >= y
  BY DEF Snapshots
<1>3. QED
  BY <1>1, <1>2 DEF Max

\* Without overlap, and as long as no other run interferes, the kernel has the
\* newest hints whenever no profile runs.
THEOREM EpochsNewestInForce == Spec => [](Overlap = 1 => NewestInForce)
<1> DEFINE Inv == Overlap = 1 => Serial /\ Kernel
<1>1. Init => Inv
  BY SerialInit, KernelInit
<1>2. Inv /\ [Next]_vars => Inv'
  BY SerialStep, KernelStep
<1>3. ASSUME Serial, Kernel, Running = {}, strays = 0
      PROVE  LET with == {s \in Snapshots : hints[s] # NONE} IN
             with # {} => ca # NONE /\ khuge = ca /\ hints[ca] = hints[Max(with)]
  <2>1. \A s \in Snapshots : job[s] \in {"none", "done"}
    BY <1>3 DEF Running
  <2>2. Newest(With(MaxSnapshots))
    BY <1>3, <2>1 DEF Kernel, InForce, Pending
  <2>3. With(MaxSnapshots) = {s \in Snapshots : hints[s] # NONE}
    BY DEF With, Snapshots
  <2>4. SUFFICES ASSUME With(MaxSnapshots) # {}
                 PROVE  ca # NONE /\ khuge = ca /\ hints[ca] = hints[Max(With(MaxSnapshots))]
    BY <2>3
  <2>5. PICK m \in With(MaxSnapshots) :
          (\A t \in With(MaxSnapshots) : t <= m) /\ hints[ca] = hints[m]
    BY <2>2, <2>4 DEF Newest
  <2>6. Max(With(MaxSnapshots)) = m
    BY <2>5, MaxIs DEF With
  <2>7. QED
    BY <2>2, <2>4, <2>5, <2>6 DEF Newest
<1>4. Inv => (Overlap = 1 => NewestInForce)
  BY <1>3 DEF NewestInForce
<1>5. QED
  BY <1>1, <1>2, <1>4, PTL DEF Spec

=============================================================================
