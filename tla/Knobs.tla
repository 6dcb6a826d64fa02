-------------------------------- MODULE Knobs -------------------------------
(***************************************************************************)
(* The kernel's knobs under runs of bin/run.sh: which script writes which  *)
(* value when.  A run has an environment (page size, mode, switches); what *)
(* it writes depends on that alone, and stays when the run is over.  Runs  *)
(* follow one another with different environments, or make up a mix: runs  *)
(* of one environment at the same time (scripts/run-fig14-multi.sh), which *)
(* start, go on and clean up in any order.                                 *)
(*                                                                         *)
(* Values are the strings that are echoed, "boot" that of a knob nobody    *)
(* wrote; "unset" is a variable of the environment that is not set.        *)
(***************************************************************************)
CONSTANTS
  Run,
  Kernels,   (* the knobs each kernel has                                  *)
  Envs,      (* environments of runs                                       *)
  MixEnvs    (* those in which runs make up a mix                          *)

\* The runs of a mix have khugepaged on; they neither fragment memory nor use
\* HawkEye (scripts/run-fig14-multi.sh).
ASSUME MixAssumption ==
  /\ MixEnvs \subseteq Envs
  /\ \A e \in MixEnvs : e.KHUGE /\ ~ e.FRAG_TARGET /\ e.MODE # "hawkeye"

ASSUME EnvAssumption == \A e \in Envs :
  /\ {e.KHUGE, e.NOKCOMPACTD, e.COALA_KHUGE, e.UNHINTED_FAULTS, e.COALA_FALLBACK,
      e.COALA_ETHEAP_ASYNC, e.FRAG_TARGET} \subseteq BOOLEAN
  /\ e.PGSZ \in {"pte", "mthp", "thp-mthp", "thp"}
  /\ e.MODE \in {"unset", "hawkeye", "etheap", "etonline", "leshy", "leshy-thp",
                 "etheap-noet", "etonline-2m", "oleshy"}

Flag(b) == IF b THEN "1" ELSE "0"

-----------------------------------------------------------------------------
(* bin/run.sh: what the modes set. *)

LESHY(e)    == e.MODE \in {"leshy", "leshy-thp"}
NOET(e)     == e.MODE \in {"leshy-thp", "etheap-noet", "etonline-2m"}
ETONLINE(e) == e.MODE \in {"etonline", "etonline-2m"}
ETHEAP(e)   == e.MODE \in {"etheap", "etonline", "etonline-2m", "oleshy"}

COALA_KHUGE(e) == e.COALA_KHUGE /\ ~ ETONLINE(e)

-----------------------------------------------------------------------------
(* The files that are sourced, as functions on the knobs they write. *)

Nothing == [k \in {} |-> "boot"]

\* What f writes and then g.
Then(f, g) == [k \in DOMAIN f \cup DOMAIN g |-> IF k \in DOMAIN g THEN g[k] ELSE f[k]]

\* The case of PGSZ.
PageSize(e) ==
  LET huge == IF e.PGSZ \in {"thp", "thp-mthp"} THEN "always" ELSE "never"
  IN  [thp |-> huge, thp2048kB |-> huge,
       thp64kB |-> IF e.PGSZ \in {"mthp", "thp-mthp"} THEN "always" ELSE "never"]

\* ETHEAP has the last word on THP.
Page(e) == Then(PageSize(e), IF ETHEAP(e) THEN [thp |-> "always"] ELSE Nothing)

disable_defrag ==
  [extfrag_threshold |-> "1000", compaction_proactiveness |-> "0",
   pages_to_scan |-> "1", sleep_millisecs |-> "3600000", khuge_defrag |-> "0",
   kcompactd_enable |-> "0", khugepaged_enable |-> "0", coala_khugepaged |-> "0"]

\* NOKCOMPACTD keeps kcompactd as it is.
enable_defrag(e) == Then(
  [extfrag_threshold |-> "500", compaction_proactiveness |-> "20",
   pages_to_scan |-> "8192", sleep_millisecs |-> e.KHUGE_SLEEP, khuge_defrag |-> "1",
   khugepaged_hwk |-> e.KHUGE_HWK, khugepaged_enable |-> "1",
   coala_khugepaged |-> Flag(COALA_KHUGE(e))],
  IF e.NOKCOMPACTD THEN Nothing ELSE [kcompactd_enable |-> "1"])

\* Mutant: what is not asked for is not reset.
coala_sets(e) == Then(
  [fault_hints |-> Flag(~ e.UNHINTED_FAULTS), khuge_fallback |-> Flag(e.COALA_FALLBACK)],
  IF e.COALA_ETHEAP_ASYNC THEN [khuge_etheap_async |-> "1"] ELSE Nothing)

coala(e) ==
  [fault_hints |-> Flag(~ e.UNHINTED_FAULTS),
   khuge_fallback |-> Flag(e.COALA_FALLBACK),
   khuge_etheap_async |-> Flag(e.COALA_ETHEAP_ASYNC)]

et == [flush_full |-> "0", validate_ranges |-> "0", cacheline_opt |-> "1"]

\* A switch that is set, to "0" too, counts as one that is on.
hwk(e) == Then(
  [thp |-> "always", thp_defrag |-> "madvise", khuge_defrag |-> "1",
   promotion_metric |-> "2", ohp_disable_thp |-> Flag(e.HWK_THP = "unset"),
   hwk_fallback |-> Flag(e.HWK_FALLBACK # "unset")],
  IF e.HWK_SLEEP = "unset" THEN Nothing ELSE [sleep_millisecs |-> e.HWK_SLEEP])

\* bin/prctl.sh.
prctl(e) ==
  IF LESHY(e) THEN Then(coala(e), et)
  ELSE IF NOET(e) THEN coala(e)
  ELSE IF e.MODE = "hawkeye" THEN hwk(e)
  ELSE IF ETHEAP(e) THEN Then(coala(e), et)
  ELSE Nothing

-----------------------------------------------------------------------------
VARIABLES
  kernel,   (* what was booted                                             *)
  mix,      (* the runs make up a mix                                      *)
  knob,     (* the knobs                                                   *)
  env,      (* the environment of each run                                 *)
  pc,       (* where it is                                                 *)
  late,     (* it is past canneal, where ETHEAP switches THP off           *)
  leshy     (* its online Leshy: "none", "started" or "loaded" (hints)     *)

host == <<kernel, mix>>
vars == <<kernel, mix, knob, env, pc, late, leshy>>

Init ==
  /\ kernel \in Kernels
  /\ mix \in BOOLEAN
  /\ knob = [k \in kernel |-> "boot"]
  /\ env \in [Run -> Envs]
  /\ mix => \E e \in MixEnvs : \A r \in Run : env[r] = e
  /\ pc = [r \in Run |-> "idle"]
  /\ late = [r \in Run |-> FALSE]
  /\ leshy = [r \in Run |-> "none"]

\* The files of a script that are there are written.
Echo(values) ==
  knob' = [k \in kernel |-> IF k \in DOMAIN values THEN values[k] ELSE knob[k]]

Step(r, from, to) == pc[r] = from /\ pc' = [pc EXCEPT ![r] = to]

Ongoing(r) == \E s \in Run \ {r} : pc[s] \notin {"idle", "gone"}

\* A mode is run on the kernel it is for.
Supported(e) ==
  (DOMAIN PageSize(e) \cup DOMAIN prctl(e)) \ {"thp64kB", "thp2048kB"} \subseteq kernel

Start(r) ==
  /\ Step(r, "idle", "between")
  /\ mix \/ ~ Ongoing(r)
  /\ Supported(env[r])
  /\ Echo(Page(env[r]))
  /\ UNCHANGED <<host, env, late, leshy>>

\* On its way from canneal to astar.
PassCanneal(r) ==
  /\ Step(r, "between", "between")
  /\ ~ late[r]
  /\ late' = [late EXCEPT ![r] = TRUE]
  /\ Echo(IF ETHEAP(env[r]) THEN [thp |-> "never"] ELSE Nothing)
  /\ UNCHANGED <<host, env, leshy>>

\* run(): memory is fragmented ...
Fragment(r) ==
  /\ Step(r, "between", "defrag")
  /\ Echo(IF env[r].FRAG_TARGET /\ ~ Ongoing(r) THEN disable_defrag ELSE Nothing)
  /\ UNCHANGED <<host, env, late, leshy>>

\* ... khugepaged set, and the online Leshy started.
Defrag(r) ==
  /\ Step(r, "defrag", "prctl")
  /\ Echo(IF env[r].KHUGE THEN enable_defrag(env[r]) ELSE disable_defrag)
  /\ UNCHANGED <<host, env, late, leshy>>

\* The benchmark's command begins with prctl.sh, and becomes the benchmark.
Prctl(r) ==
  /\ Step(r, "prctl", "running")
  /\ Echo(prctl(env[r]))
  /\ UNCHANGED <<host, env, late, leshy>>

\* Once the benchmark has been found, prctl.sh is called again for HawkEye.
PrctlAgain(r) ==
  /\ pc[r] = "running" /\ env[r].MODE = "hawkeye"
  /\ Echo(prctl(env[r]))
  /\ UNCHANGED <<host, env, pc, late, leshy>>

\* bin/epochs.sh, which is started at the same time, ...
LeshyStarts(r) ==
  /\ ETONLINE(env[r]) /\ pc[r] \in {"prctl", "running"} /\ leshy[r] = "none"
  /\ leshy' = [leshy EXCEPT ![r] = "started"]
  /\ Echo([fault_hints |-> "0"])
  /\ UNCHANGED <<host, env, pc, late>>

\* ... loads its first hints when there are some.
LeshyLoads(r) ==
  /\ leshy[r] = "started" /\ pc[r] = "running"
  /\ leshy' = [leshy EXCEPT ![r] = "loaded"]
  /\ Echo([coala_khugepaged |-> "1"])
  /\ UNCHANGED <<host, env, pc, late>>

\* Mutant: Leshy survives its benchmark.
EndKeepsLeshy(r) ==
  /\ Step(r, "running", "between")
  /\ UNCHANGED <<host, knob, env, late, leshy>>

\* Leshy is killed: in a mix, that of every run.
End(r) ==
  /\ Step(r, "running", "between")
  /\ leshy' = [s \in Run |-> IF mix \/ s = r THEN "none" ELSE leshy[s]]
  /\ UNCHANGED <<host, knob, env, late>>

\* A run that ends looks for others, ...
Exit(r) ==
  /\ Step(r, "between", IF Ongoing(r) THEN "gone" ELSE "restoring")
  /\ UNCHANGED <<host, knob, env, late, leshy>>

\* ... and if it saw none restores khugepaged, whoever has started since.
Restore(r) ==
  /\ Step(r, "restoring", "gone")
  /\ Echo(enable_defrag(env[r]))
  /\ UNCHANGED <<host, env, late, leshy>>

Next == \E r \in Run :
  \/ Start(r) \/ PassCanneal(r) \/ Fragment(r) \/ Defrag(r) \/ Prctl(r) \/ PrctlAgain(r)
  \/ LeshyStarts(r) \/ LeshyLoads(r) \/ End(r) \/ Exit(r)
  \/ Restore(r)

Spec == Init /\ [][Next]_vars

-----------------------------------------------------------------------------
(* Properties. *)

\* The values a running benchmark should find, for the knobs on which its
\* environment has something to say: what the comments at the head of the files
\* and of run-benchmarks.sh announce.
Asked(e, isLate) ==
  LET coalaMode == ETHEAP(e) \/ LESHY(e) \/ NOET(e)
      hawkeye   == e.MODE = "hawkeye"
  IN
  [thp |-> IF hawkeye \/ (IF ETHEAP(e) THEN ~ isLate ELSE e.PGSZ \in {"thp", "thp-mthp"})
           THEN "always" ELSE "never",
   thp64kB |-> IF e.PGSZ \in {"pte", "thp"} THEN "never" ELSE "always",
   khugepaged_enable |-> Flag(e.KHUGE),
   extfrag_threshold |-> IF e.KHUGE THEN "500" ELSE "1000",
   khuge_defrag |-> Flag(e.KHUGE \/ hawkeye),
   sleep_millisecs |->
     IF hawkeye /\ e.HWK_SLEEP # "unset" THEN e.HWK_SLEEP
     ELSE IF e.KHUGE THEN e.KHUGE_SLEEP ELSE "3600000",
   kcompactd_enable |->
     IF e.KHUGE /\ e.NOKCOMPACTD /\ ~ e.FRAG_TARGET THEN "any"
     ELSE Flag(e.KHUGE /\ ~ e.NOKCOMPACTD),
   coala_khugepaged |-> IF ETONLINE(e) THEN "any" ELSE Flag(e.KHUGE /\ e.COALA_KHUGE),
   fault_hints |->
     IF coalaMode /\ (ETONLINE(e) => e.UNHINTED_FAULTS)
     THEN Flag(~ e.UNHINTED_FAULTS) ELSE "any",
   khuge_fallback |-> IF coalaMode THEN Flag(e.COALA_FALLBACK) ELSE "any",
   khuge_etheap_async |-> IF coalaMode THEN Flag(e.COALA_ETHEAP_ASYNC) ELSE "any"]

\* What a benchmark finds is what its own environment asks for, whatever ran
\* since the kernel was booted: of these knobs, no run sees what an earlier one
\* left (source ${BASE}/env/..., before each benchmark).  THP follows PGSZ, but in
\* an ETHEAP mode it is on before canneal and off after it, whatever PGSZ is.
\* NOKCOMPACTD ("Disable kcompactd", enable_defrag.env:5) is kept where memory was
\* fragmented, which disables it; otherwise kcompactd stays as it was.  The runs
\* of a mix do not disturb one another's settings either, neither when one starts
\* nor when one restores khugepaged while a benchmark of another has begun; but
\* the first that is past canneal in an ETHEAP mode switches THP off for all, and
\* each new run switches it on again.
AsAsked == \A r \in Run :
  LET asked == Asked(env[r], late[r]) IN
  pc[r] = "running" =>
    \A k \in DOMAIN asked \cap kernel :
      \/ asked[k] \in {"any", knob[k]}
      \/ mix /\ ETHEAP(env[r]) /\ k = "thp"

\* khugepaged collapses what an online Leshy hints at from its first hints until
\* it is killed, when no other run starts a benchmark meanwhile.
HintsAreCollapsed == ~ mix =>
  \A r \in Run : leshy[r] = "loaded" /\ "coala_khugepaged" \in kernel
                   => knob["coala_khugepaged"] = "1"

=============================================================================
