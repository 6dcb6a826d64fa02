--------------------------- MODULE Harness_proofs ---------------------------
(***************************************************************************)
(* Proofs about Harness, for every set of runs and every choice of those   *)
(* whose benchmark pauses, is a server or has an online Leshy, and however *)
(* long anything takes.                                                    *)
(***************************************************************************)
EXTENDS Harness, TLAPS

USE HarnessAssumption

\* The parts of TypeOK that no step can disturb but by an assignment.
LEMMA HostedTypes ==
  ASSUME TypeOK, NEW r \in Run
  PROVE  /\ Fellows(r) \in SUBSET Run /\ r \in Fellows(r)
         /\ LeshyKilled(r) \in [Run -> {"on", "none"}]
  BY DEF TypeOK, Fellows, LeshyKilled

-----------------------------------------------------------------------------
(* Types. *)

\* A harness that exits has seen its benchmark end, or never found it, and
\* nothing but Spawn brings a benchmark to life.
LEMMA TypeStep == TypeOK /\ [Next]_vars => TypeOK'
<1> SUFFICES ASSUME TypeOK, [Next]_vars PROVE TypeOK'
  OBVIOUS
<1> USE HostedTypes DEF TypeOK, Alive, hosted, setting, calls
<1>1. ASSUME NEW r \in Run, Start(r) PROVE TypeOK'
  <2>1. raced' \in SUBSET Run
    BY <1>1 DEF Start
  <2>2. QED
    BY <1>1, <2>1 DEF Start, Step
<1>2. ASSUME NEW r \in Run, Benchmark(r) PROVE TypeOK'
  <2>1. CASE WriteTrigger(r)
    <3>1. /\ pc' = pc /\ UNCHANGED <<defrag, hosted>>
          /\ bench[r] = "running"
          /\ \/ bench' = [bench EXCEPT ![r] = "install"]
             \/ bench' = [bench EXCEPT ![r] = "paused"]
      BY <2>1 DEF WriteTrigger, Bench
    <3>2. seen' \in [Run -> BOOLEAN] /\ lost' \in SUBSET Run
      <4>1. CASE Write(r)
        BY <4>1 DEF Write
      <4>2. CASE NoWrite(r)
        BY <4>2 DEF NoWrite
      <4>3. QED
        BY <2>1, <4>1, <4>2 DEF WriteTrigger
    <3>3. \E b \in {"install", "paused"} : bench' = [bench EXCEPT ![r] = b]
      BY <3>1
    <3>4. PICK b \in {"install", "paused"} : bench' = [bench EXCEPT ![r] = b]
      BY <3>3
    <3>5. /\ bench' \in [Run -> {"none", "running", "install", "arm", "paused", "resumed",
                               "gone", "echoed"}]
          /\ \A s \in Run : s # r => bench'[s] = bench[s]
      BY <3>4
    <3>6. pc[r] \notin {"exit", "clean", "leaving", "gone"}
      BY <3>1
    <3>7. QED
      BY <3>1, <3>2, <3>5, <3>6
  <2>2. CASE InstallHandler(r)
    BY <2>2 DEF InstallHandler, Bench
  <2>3. CASE Pause(r)
    BY <2>3 DEF Pause, Bench
  <2>4. CASE Exit(r)
    BY <2>4 DEF Exit, Bench
  <2>5. CASE Echo(r)
    BY <2>5 DEF Echo, Bench, Write
  <2>6. QED
    BY <1>2, <2>1, <2>2, <2>3, <2>4, <2>5 DEF Benchmark
<1>3. ASSUME NEW r \in Run, Script(r) PROVE TypeOK'
  <2>11. CASE LookAround(r)
    BY <2>11 DEF LookAround, Step
  <2>0. CASE Fragment(r)
    <3>1. memfrag' \in SUBSET Run
      BY <2>0 DEF Fragment
    <3>2. QED
      BY <2>0, <3>1 DEF Fragment, Step
  <2>1. CASE Spawn(r)
    BY <2>1 DEF Spawn, Step, Wanted
  <2>2. CASE Lookup(r)
    BY <2>2 DEF Lookup, Step
  <2>3. CASE Watch(r)
    BY <2>3 DEF Watch, Step
  <2>4. CASE Woken(r)
    BY <2>4 DEF Woken, Step
  <2>5. CASE Resume(r)
    BY <2>5 DEF Resume, Step, Usr1
  <2>6. ASSUME NEW n \in {"setup", "exit"}, Reap(r, n) PROVE TypeOK'
    BY <2>6 DEF Reap, Step
  <2>7. CASE CheckOthers(r)
    BY <2>7 DEF CheckOthers, Step
  <2>8. CASE Cleanup(r)
    BY <2>8 DEF Cleanup, Step, calls
  <2>9. CASE Leave(r)
    BY <2>9 DEF Leave, Step
  <2>10. QED
    BY <1>3, <2>0, <2>11, <2>1, <2>2, <2>3, <2>4, <2>5, <2>6, <2>7, <2>8, <2>9 DEF Script
<1>6. ASSUME NEW r \in Run, LeshyEnds(r) PROVE TypeOK'
  BY <1>6 DEF LeshyEnds
<1>4. CASE UNCHANGED vars
  BY <1>4 DEF vars
<1>5. QED
  BY <1>1, <1>2, <1>3, <1>4, <1>6 DEF Next

\* Type correctness; a run that exits leaves no benchmark behind.
THEOREM HarnessTypes == Spec => []TypeOK
<1>1. Init => TypeOK
  BY DEF Init, TypeOK, Alive
<1>2. QED
  BY <1>1, TypeStep, PTL DEF Spec

-----------------------------------------------------------------------------
(* Concurrent runs: what one does to the settings of the others. *)

\* Runs that are there while another acts on having been alone have begun since.
ActsAlone == \A r \in Run : pc[r] \in Acting =>
  \A s \in Run \ {r} : pc[s] \in {"idle", "gone"} \/ s \in raced

SettingsInv == TypeOK /\ ActsAlone /\ SettingsKept

LEMMA SettingsStep == SettingsInv /\ [Next]_vars => SettingsInv'
<1> SUFFICES ASSUME SettingsInv, [Next]_vars PROVE ActsAlone' /\ SettingsKept'
  BY TypeStep DEF SettingsInv
<1>1. TypeOK /\ TypeOK' /\ ActsAlone /\ SettingsKept
  BY TypeStep DEF SettingsInv
<1> USE <1>1 DEF TypeOK, ActsAlone, Acting, SettingsKept, hosted, setting, calls, Wanted
<1>2. ASSUME NEW r \in Run, Start(r) PROVE ActsAlone' /\ SettingsKept'
  BY <1>2 DEF Start, Step
<1>3. ASSUME NEW r \in Run, Benchmark(r) \/ LeshyEnds(r)
      PROVE  ActsAlone' /\ SettingsKept'
  <2>1. UNCHANGED <<pc, defrag, khuge, raced>>
    BY <1>3 DEF Benchmark, WriteTrigger, InstallHandler, Pause, Exit, Echo, LeshyEnds
  <2>2. QED
    BY <2>1
<1>4. ASSUME NEW r \in Run, Script(r) PROVE ActsAlone' /\ SettingsKept'
  <2>1. CASE LookAround(r)
    BY <2>1 DEF LookAround, Step, Ongoing
  <2>2. CASE Fragment(r)
    BY <2>2 DEF Fragment, Step
  <2>3. CASE Spawn(r)
    BY <2>3 DEF Spawn, Step
  <2>4. CASE Lookup(r)
    BY <2>4 DEF Lookup, Step
  <2>5. CASE Watch(r) \/ Woken(r) \/ Resume(r)
    BY <2>5 DEF Watch, Woken, Resume, Step
  <2>6. ASSUME NEW n \in {"setup", "exit"}, Reap(r, n)
        PROVE  ActsAlone' /\ SettingsKept'
    BY <2>6 DEF Reap, Step
  <2>7. CASE CheckOthers(r)
    BY <2>7 DEF CheckOthers, Step, Ongoing
  <2>8. CASE Cleanup(r)
    BY <2>8 DEF Cleanup, Step, calls
  <2>9. CASE Leave(r)
    BY <2>9 DEF Leave, Step
  <2>10. QED
    BY <1>4, <2>1, <2>2, <2>3, <2>4, <2>5, <2>6, <2>7, <2>8, <2>9 DEF Script
<1>5. CASE UNCHANGED vars
  BY <1>5 DEF vars
<1>6. QED
  BY <1>2, <1>3, <1>4, <1>5 DEF Next

\* Khugepaged and compaction stay as a run set them while its benchmark is there,
\* whatever runs start, go on and end beside it, unless it was started while
\* another acted on having found itself alone.
THEOREM HarnessSettingsKept == Spec => []SettingsKept
<1>1. Init => SettingsInv
  BY DEF Init, SettingsInv, TypeOK, Alive, ActsAlone, Acting, SettingsKept
<1>2. SettingsInv => SettingsKept
  BY DEF SettingsInv
<1>3. QED
  BY <1>1, <1>2, SettingsStep, PTL DEF Spec

-----------------------------------------------------------------------------
(* Concurrent runs: who restores the host. *)

Awake(r) == pc[r] \notin {"idle", "gone", "leaving"}

\* There is something to restore.
Disturbed ==
  defrag = "off" \/ (together /\ (memfrag # {} \/ \E r \in Run : leshy[r] # "none"))

\* While there is, a run has not asked yet, or will clean up.
RestoreInv == TypeOK /\ (Disturbed /\ ~ crossed => \E r \in Run : Awake(r))

LEMMA RestoreStep == RestoreInv /\ [Next]_vars => RestoreInv'
<1> SUFFICES ASSUME RestoreInv, [Next]_vars, Disturbed', ~ crossed'
             PROVE  \E r \in Run : Awake(r)'
  BY TypeStep DEF RestoreInv
<1>1. TypeOK /\ TypeOK' /\ (Disturbed /\ ~ crossed => \E r \in Run : Awake(r))
  BY TypeStep DEF RestoreInv
<1>2. ASSUME UNCHANGED <<pc, defrag, together, memfrag, crossed>>,
             \A r \in Run : leshy'[r] \in {"none", leshy[r]}
      PROVE  \E r \in Run : Awake(r)'
  BY <1>1, <1>2 DEF Disturbed, Awake
<1>3. ASSUME NEW r \in Run, Start(r) \/ Script(r), Awake(r)'
      PROVE  \E q \in Run : Awake(q)'
  BY <1>3
<1>4. ASSUME NEW r \in Run, Start(r) PROVE \E q \in Run : Awake(q)'
  <2>1. Awake(r)'
    BY <1>1, <1>4 DEF Start, Step, Awake, TypeOK
  <2>2. QED
    BY <1>3, <1>4, <2>1
<1>5. ASSUME NEW r \in Run, Benchmark(r) \/ LeshyEnds(r)
      PROVE  \E q \in Run : Awake(q)'
  <2>1. UNCHANGED <<pc, defrag, together, memfrag, crossed>>
    BY <1>5 DEF Benchmark, WriteTrigger, InstallHandler, Pause, Exit, Echo, LeshyEnds,
                hosted, setting, calls
  <2>2. \A q \in Run : leshy'[q] \in {"none", leshy[q]}
    BY <1>1, <1>5 DEF Benchmark, WriteTrigger, InstallHandler, Pause, Exit, Echo, LeshyEnds,
                hosted, TypeOK
  <2>3. QED
    BY <1>2, <2>1, <2>2
<1>6. ASSUME NEW r \in Run, Script(r) PROVE \E q \in Run : Awake(q)'
  <2>1. CASE LookAround(r) \/ Fragment(r) \/ Spawn(r) \/ Lookup(r)
    <3>1. Awake(r)'
      BY <1>1, <2>1 DEF LookAround, Fragment, Spawn, Lookup, Step, Awake, TypeOK
    <3>2. QED
      BY <3>1
  <2>2. CASE Watch(r) \/ Woken(r) \/ Resume(r) \/ \E n \in {"setup", "exit"} : Reap(r, n)
    <3>1. Awake(r)'
      BY <1>1, <2>2 DEF Watch, Woken, Resume, Reap, Step, Awake, TypeOK
    <3>2. QED
      BY <3>1
  <2>3. CASE CheckOthers(r)
    <3>1. /\ pc' = [pc EXCEPT ![r] = IF Ongoing(r) THEN "leaving" ELSE "clean"]
          /\ ~ Ongoing(r) \/ \E s \in Run \ {r} : Awake(s)
      BY <2>3 DEF CheckOthers, Step, Awake
    <3>2. CASE Ongoing(r)
      <4>1. PICK s \in Run \ {r} : Awake(s)
        BY <3>1, <3>2
      <4>2. Awake(s)'
        BY <1>1, <3>1, <4>1 DEF Awake, TypeOK
      <4>3. QED
        BY <4>2
    <3>3. CASE ~ Ongoing(r)
      <4>1. Awake(r)'
        BY <1>1, <3>1, <3>3 DEF Awake, TypeOK
      <4>2. QED
        BY <4>1
    <3>4. QED
      BY <3>2, <3>3
  <2>4. CASE Cleanup(r)
    <3>1. ~ Disturbed'
      BY <1>1, <2>4 DEF Cleanup, Fellows, LeshyKilled, Disturbed, TypeOK, setting
    <3>2. QED
      BY <3>1
  <2>5. CASE Leave(r)
    <3>1. UNCHANGED <<defrag, together, memfrag, leshy, crossed>>
      BY <2>5 DEF Leave, hosted
    <3>2. PICK s \in Run : Awake(s)
      BY <1>1, <3>1 DEF Disturbed
    <3>3. Awake(s)'
      BY <1>1, <2>5, <3>2 DEF Leave, Step, Awake, TypeOK
    <3>4. QED
      BY <3>3
  <2>6. QED
    BY <1>6, <2>1, <2>2, <2>3, <2>4, <2>5 DEF Script
<1>7. CASE UNCHANGED vars
  BY <1>2, <1>7 DEF vars
<1>8. QED
  BY <1>4, <1>5, <1>6, <1>7 DEF Next

\* When every run is gone the host is restored and, in one process group, neither
\* a memfrag nor an online Leshy is left, whoever started them and however many
\* runs skipped the cleanup, unless runs have left it to one another.
THEOREM HarnessLastOneCleansUp == Spec => []LastOneCleansUp
<1>1. Init => RestoreInv
  BY DEF Init, RestoreInv, TypeOK, Alive, Disturbed, Awake
<1>2. RestoreInv => LastOneCleansUp
  BY DEF RestoreInv, Disturbed, Awake, LastOneCleansUp, TypeOK
<1>3. QED
  BY <1>1, <1>2, RestoreStep, PTL DEF Spec

-----------------------------------------------------------------------------
(* The online Leshy. *)

LeshyInv == TypeOK /\ LeshyLasts

LEMMA LeshyStep == LeshyInv /\ [Next]_vars => LeshyInv'
<1> SUFFICES ASSUME LeshyInv, [Next]_vars PROVE LeshyLasts'
  BY TypeStep DEF LeshyInv
<1>1. TypeOK /\ TypeOK' /\ LeshyLasts
  BY TypeStep DEF LeshyInv
<1> DEFINE Watched(q) == Alive(q) /\ pc[q] \in {"sleep", "watch", "wait"}
<1>2. SUFFICES ASSUME ~ together', NEW q \in Online, Watched(q)' PROVE leshy'[q] = "on"
  BY DEF LeshyLasts
<1>3. q \in Run
  BY <1>2
<1>4. ASSUME NEW r \in Run, Start(r) \/ Benchmark(r) \/ LeshyEnds(r) PROVE leshy'[q] = "on"
  <2> USE <1>1, <1>2, <1>3 DEF TypeOK, Alive, LeshyLasts, hosted, setting, calls
  <2>1. CASE Start(r)
    BY <2>1 DEF Start, Step
  <2>2. CASE WriteTrigger(r) \/ InstallHandler(r) \/ Pause(r)
    BY <2>2 DEF WriteTrigger, InstallHandler, Pause, Bench
  <2>3. CASE Exit(r) \/ Echo(r)
    BY <2>3 DEF Exit, Echo, Bench
  <2>4. CASE LeshyEnds(r)
    BY <2>4 DEF LeshyEnds
  <2>5. QED
    BY <1>4, <2>1, <2>2, <2>3, <2>4 DEF Benchmark
<1>5. ASSUME NEW r \in Run, Script(r) PROVE leshy'[q] = "on"
  <2> USE <1>1, <1>2, <1>3 DEF TypeOK, Alive, LeshyLasts, hosted, setting, calls
  <2>1. CASE LookAround(r) \/ Fragment(r) \/ Lookup(r) \/ Watch(r)
    BY <2>1 DEF LookAround, Fragment, Lookup, Watch, Step
  <2>2. CASE Spawn(r)
    BY <2>2 DEF Spawn, Step
  <2>3. CASE Woken(r)
    BY <2>3 DEF Woken, Step, LeshyKilled, Fellows
  <2>4. CASE Resume(r)
    BY <2>4 DEF Resume, Step
  <2>5. ASSUME NEW n \in {"setup", "exit"}, Reap(r, n) PROVE leshy'[q] = "on"
    BY <2>5 DEF Reap, Step
  <2>6. CASE CheckOthers(r) \/ Leave(r)
    BY <2>6 DEF CheckOthers, Leave, Step
  <2>7. CASE Cleanup(r)
    BY <2>7 DEF Cleanup, Step, LeshyKilled, Fellows
  <2>8. QED
    BY <1>5, <2>1, <2>2, <2>3, <2>4, <2>5, <2>6, <2>7 DEF Script
<1>6. CASE UNCHANGED vars
  BY <1>1, <1>2, <1>3, <1>6 DEF vars, LeshyLasts, Alive
<1>7. QED
  BY <1>4, <1>5, <1>6 DEF Next

\* The online Leshy of a run that was started on its own lasts as long as its
\* benchmark is watched, whatever the other runs do and whenever they do it.
THEOREM HarnessLeshyLasts == Spec => []LeshyLasts
<1>1. Init => LeshyInv
  BY DEF Init, LeshyInv, LeshyLasts, TypeOK, Alive
<1>2. LeshyInv => LeshyLasts
  BY DEF LeshyInv
<1>3. QED
  BY <1>1, <1>2, LeshyStep, PTL DEF Spec

-----------------------------------------------------------------------------
(* One run: the harness and its benchmark. *)

\* At the end of the region of interest, or gone.
Over == {"install", "arm", "paused", "gone", "echoed"}

\* Whatever wakes a watch leaves the benchmark there.
MeetInv == TypeOK /\ \A r \in Run :
  (pc[r] = "wait" /\ seen[r]) \/ pc[r] = "stats" => bench[r] \in Over

LEMMA MeetStep == MeetInv /\ [Next]_vars => MeetInv'
<1> SUFFICES ASSUME MeetInv, [Next]_vars, NEW q \in Run,
                    (pc'[q] = "wait" /\ seen'[q]) \/ pc'[q] = "stats"
             PROVE  bench'[q] \in Over
  BY TypeStep DEF MeetInv
<1>1. /\ TypeOK /\ TypeOK'
      /\ (pc[q] = "wait" /\ seen[q]) \/ pc[q] = "stats" => bench[q] \in Over
  BY TypeStep DEF MeetInv
<1>2. ASSUME pc'[q] = pc[q], seen'[q] = seen[q], bench'[q] \in {bench[q], "gone"}
      PROVE  bench'[q] \in Over
  BY <1>1, <1>2 DEF Over
<1>3. ASSUME NEW r \in Run, Start(r) \/ LeshyEnds(r) PROVE bench'[q] \in Over
  BY <1>1, <1>2, <1>3 DEF Start, LeshyEnds, Step, calls, TypeOK
<1>4. ASSUME NEW r \in Run, Benchmark(r) PROVE bench'[q] \in Over
  <2>1. CASE q # r
    BY <1>1, <1>2, <1>4, <2>1 DEF Benchmark, WriteTrigger, InstallHandler, Pause, Exit,
                                  Echo, Bench, Write, NoWrite, calls, TypeOK
  <2>2. CASE q = r
    <3> USE <1>1, <2>2 DEF TypeOK, Bench, Write, NoWrite, Over, calls
    <3>1. CASE WriteTrigger(r)
      BY <3>1 DEF WriteTrigger
    <3>2. CASE InstallHandler(r) \/ Pause(r)
      BY <3>2 DEF InstallHandler, Pause
    <3>3. CASE Exit(r)
      BY <3>3 DEF Exit
    <3>4. CASE Echo(r)
      BY <3>4 DEF Echo
    <3>5. QED
      BY <1>4, <3>1, <3>2, <3>3, <3>4 DEF Benchmark
  <2>3. QED
    BY <2>1, <2>2
<1>5. ASSUME NEW r \in Run, Script(r), ~ Cleanup(r) PROVE bench'[q] \in Over
  <2>1. CASE q # r
    BY <1>1, <1>2, <1>5, <2>1 DEF Script, LookAround, Fragment, Spawn, Lookup, Watch, Woken,
                                  Resume, Reap, CheckOthers, Leave, Step, calls, TypeOK
  <2>2. CASE q = r
    BY <1>1, <1>5, <2>2 DEF Script, LookAround, Fragment, Spawn, Lookup, Watch, Woken,
                            Resume, Reap, CheckOthers, Leave, Step, calls, TypeOK
  <2>3. QED
    BY <2>1, <2>2
<1>6. ASSUME NEW r \in Run, Cleanup(r) PROVE bench'[q] \in Over
  <2>1. /\ seen' = seen /\ pc' = [pc EXCEPT ![r] = "leaving"]
        /\ bench'[q] \in {bench[q], "gone"}
    BY <1>6 DEF Cleanup, Step, calls
  <2>2. QED
    BY <1>1, <1>2, <2>1 DEF TypeOK
<1>7. CASE UNCHANGED vars
  BY <1>2, <1>7 DEF vars
<1>8. QED
  BY <1>3, <1>4, <1>5, <1>6, <1>7 DEF Next

\* Statistics are never taken in the middle of the region of interest, nor of a
\* benchmark that is past its pause.
THEOREM HarnessSnapshotAtEnd == Spec => []SnapshotAtEnd
<1>1. Init => MeetInv
  BY DEF Init, MeetInv, TypeOK, Alive
<1>2. MeetInv => SnapshotAtEnd
  BY DEF MeetInv, Over, SnapshotAtEnd
<1>3. QED
  BY <1>1, <1>2, MeetStep, PTL DEF Spec

=============================================================================
