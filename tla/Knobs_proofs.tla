---------------------------- MODULE Knobs_proofs -----------------------------
(***************************************************************************)
(* Proofs about Knobs, for every set of runs, every set of environments    *)
(* and every set of kernels.                                               *)
(***************************************************************************)
EXTENDS Knobs, TLAPS

USE EnvAssumption, MixAssumption

PageKnobs  == {"thp", "thp64kB"}
CoalaKnobs == {"fault_hints", "khuge_fallback", "khuge_etheap_async"}
KhugeKnobs == {"khugepaged_enable", "extfrag_threshold", "khuge_defrag",
               "sleep_millisecs", "coala_khugepaged", "kcompactd_enable"}

Hawkeye(e)   == e.MODE = "hawkeye"
CoalaMode(e) == ETHEAP(e) \/ LESHY(e) \/ NOET(e)
KhugeFile(e) == IF e.KHUGE THEN enable_defrag(e) ELSE disable_defrag

-----------------------------------------------------------------------------
(* What the files write. *)

LEMMA EchoReads ==
  ASSUME NEW f, Echo(f)
  PROVE  \A k \in kernel : knob'[k] = IF k \in DOMAIN f THEN f[k] ELSE knob[k]
BY DEF Echo

\* THP at the start of a run, and what a run wants of it.
Early(e) == ETHEAP(e) \/ e.PGSZ \in {"thp", "thp-mthp"}
Huge(e, isLate) == IF Early(e) /\ ~ (ETHEAP(e) /\ isLate) THEN "always" ELSE "never"

LEMMA PageReads ==
  ASSUME NEW e \in Envs
  PROVE  LET f == Page(e) IN
         /\ PageKnobs \subseteq DOMAIN f
         /\ DOMAIN f \cap (KhugeKnobs \cup CoalaKnobs) = {}
         /\ f["thp"] = Huge(e, FALSE)
         /\ f["thp64kB"] = IF e.PGSZ \in {"pte", "thp"} THEN "never" ELSE "always"
<1>1. CASE ETHEAP(e)
  BY <1>1 DEF Page, Then, PageSize, PageKnobs, KhugeKnobs, CoalaKnobs, Huge, Early
<1>2. CASE ~ ETHEAP(e)
  BY <1>2 DEF Page, Then, Nothing, PageSize, PageKnobs, KhugeKnobs, CoalaKnobs, Huge, Early
<1>3. QED
  BY <1>1, <1>2

LEMMA KhugeReads ==
  ASSUME NEW e \in Envs
  PROVE  LET f == KhugeFile(e) IN
         /\ KhugeKnobs \ {"kcompactd_enable"} \subseteq DOMAIN f
         /\ DOMAIN f \cap (PageKnobs \cup CoalaKnobs) = {}
         /\ "kcompactd_enable" \in DOMAIN f <=> ~ (e.KHUGE /\ e.NOKCOMPACTD)
         /\ "kcompactd_enable" \in DOMAIN f => f["kcompactd_enable"] = Flag(e.KHUGE)
         /\ f["khugepaged_enable"] = Flag(e.KHUGE)
         /\ f["extfrag_threshold"] = IF e.KHUGE THEN "500" ELSE "1000"
         /\ f["khuge_defrag"] = Flag(e.KHUGE)
         /\ f["sleep_millisecs"] = IF e.KHUGE THEN e.KHUGE_SLEEP ELSE "3600000"
         /\ f["coala_khugepaged"] = Flag(e.KHUGE /\ COALA_KHUGE(e))
<1>1. CASE e.KHUGE
  BY <1>1 DEF KhugeFile, enable_defrag, Then, Nothing, PageKnobs, KhugeKnobs,
              CoalaKnobs, Flag
<1>2. CASE ~ e.KHUGE
  BY <1>2 DEF KhugeFile, disable_defrag, PageKnobs, KhugeKnobs, CoalaKnobs, Flag
<1>3. QED
  BY <1>1, <1>2

LEMMA FragReads ==
  /\ DOMAIN disable_defrag \cap (PageKnobs \cup CoalaKnobs) = {}
  /\ "kcompactd_enable" \in DOMAIN disable_defrag
  /\ disable_defrag["kcompactd_enable"] = "0"
BY DEF disable_defrag, PageKnobs, CoalaKnobs

LEMMA CoalaReads ==
  ASSUME NEW e \in Envs, NEW f, f \in {coala(e), Then(coala(e), et)}
  PROVE  /\ CoalaKnobs \subseteq DOMAIN f
         /\ DOMAIN f \cap (PageKnobs \cup KhugeKnobs) = {}
         /\ f["fault_hints"] = Flag(~ e.UNHINTED_FAULTS)
         /\ f["khuge_fallback"] = Flag(e.COALA_FALLBACK)
         /\ f["khuge_etheap_async"] = Flag(e.COALA_ETHEAP_ASYNC)
<1>1. CASE f = coala(e)
  BY <1>1 DEF coala, PageKnobs, KhugeKnobs, CoalaKnobs
<1>2. CASE f = Then(coala(e), et)
  BY <1>2 DEF Then, coala, et, PageKnobs, KhugeKnobs, CoalaKnobs
<1>3. QED
  BY <1>1, <1>2

LEMMA HwkReads ==
  ASSUME NEW e \in Envs
  PROVE  LET f == hwk(e) IN
         /\ {"thp", "khuge_defrag"} \subseteq DOMAIN f
         /\ "sleep_millisecs" \in DOMAIN f <=> e.HWK_SLEEP # "unset"
         /\ DOMAIN f \cap (PageKnobs \cup CoalaKnobs \cup KhugeKnobs)
              \subseteq {"thp", "khuge_defrag", "sleep_millisecs"}
         /\ f["thp"] = "always"
         /\ f["khuge_defrag"] = "1"
         /\ e.HWK_SLEEP # "unset" => f["sleep_millisecs"] = e.HWK_SLEEP
BY DEF hwk, Then, Nothing, PageKnobs, KhugeKnobs, CoalaKnobs

LEMMA PrctlReads ==
  ASSUME NEW e \in Envs
  PROVE  /\ Hawkeye(e) => prctl(e) = hwk(e) /\ ~ CoalaMode(e)
         /\ CoalaMode(e) => prctl(e) \in {coala(e), Then(coala(e), et)}
         /\ ~ Hawkeye(e) /\ ~ CoalaMode(e) => prctl(e) = Nothing
BY DEF prctl, Hawkeye, CoalaMode, LESHY, NOET, ETHEAP

-----------------------------------------------------------------------------
(* The inductive invariant. *)

Inside == {"between", "defrag", "prctl", "running"}
Busy   == Inside \cup {"restoring"}

Types ==
  /\ mix \in BOOLEAN
  /\ env \in [Run -> Envs]
  /\ pc \in [Run -> Busy \cup {"idle", "gone"}]
  /\ late \in [Run -> BOOLEAN]
  /\ \A r \in Run : pc[r] = "idle" => ~ late[r]
  /\ leshy \in [Run -> {"none", "started", "loaded"}]

\* Runs are busy at the same time in a mix only, where all have the
\* environment of the mix.
Peers ==
  /\ mix => \E e \in MixEnvs : \A r \in Run : env[r] = e
  /\ \A r, s \in Run : pc[r] \in Busy /\ pc[s] \in Busy => r = s \/ mix

\* What is due from the start of a run on, ...
PageDue(r) ==
  LET e == env[r] IN
  pc[r] \in Inside =>
    /\ "thp64kB" \in kernel =>
         knob["thp64kB"] = IF e.PGSZ \in {"pte", "thp"} THEN "never" ELSE "always"
    /\ "thp" \in kernel /\ ~ Hawkeye(e) /\ ~ (mix /\ ETHEAP(e)) =>
         knob["thp"] = Huge(e, late[r])

\* ... while memory has been fragmented, ...
FragDue(r) ==
  pc[r] = "defrag" /\ env[r].FRAG_TARGET /\ "kcompactd_enable" \in kernel =>
    knob["kcompactd_enable"] = "0"

\* ... once khugepaged is set, ...
KhugeDue(r) ==
  LET e == env[r] IN
  pc[r] \in {"prctl", "running"} =>
    /\ "khugepaged_enable" \in kernel => knob["khugepaged_enable"] = Flag(e.KHUGE)
    /\ "extfrag_threshold" \in kernel =>
         knob["extfrag_threshold"] = IF e.KHUGE THEN "500" ELSE "1000"
    /\ "kcompactd_enable" \in kernel /\ ~ (e.KHUGE /\ e.NOKCOMPACTD /\ ~ e.FRAG_TARGET) =>
         knob["kcompactd_enable"] = Flag(e.KHUGE /\ ~ e.NOKCOMPACTD)

\* ... of that, unless HawkEye's script or Leshy sets it anew, ...
PaceDue(r) ==
  LET e == env[r] IN
  pc[r] \in {"prctl", "running"} =>
    /\ "khuge_defrag" \in kernel /\ ~ (Hawkeye(e) /\ pc[r] = "running") =>
         knob["khuge_defrag"] = Flag(e.KHUGE)
    /\ "sleep_millisecs" \in kernel
         /\ ~ (Hawkeye(e) /\ pc[r] = "running" /\ e.HWK_SLEEP # "unset") =>
           knob["sleep_millisecs"] = IF e.KHUGE THEN e.KHUGE_SLEEP ELSE "3600000"

CollapseDue(r) ==
  LET e == env[r] IN
  pc[r] \in {"prctl", "running"} /\ ~ ETONLINE(e) /\ "coala_khugepaged" \in kernel =>
    knob["coala_khugepaged"] = Flag(e.KHUGE /\ COALA_KHUGE(e))

\* ... and while the benchmark runs.
PrctlDue(r) ==
  LET e == env[r] IN
  pc[r] = "running" =>
    /\ Hawkeye(e) =>
         /\ "thp" \in kernel => knob["thp"] = "always"
         /\ "khuge_defrag" \in kernel => knob["khuge_defrag"] = "1"
         /\ "sleep_millisecs" \in kernel /\ e.HWK_SLEEP # "unset" =>
              knob["sleep_millisecs"] = e.HWK_SLEEP
    /\ CoalaMode(e) =>
         /\ "fault_hints" \in kernel /\ (ETONLINE(e) => e.UNHINTED_FAULTS) =>
              knob["fault_hints"] = Flag(~ e.UNHINTED_FAULTS)
         /\ "khuge_fallback" \in kernel =>
              knob["khuge_fallback"] = Flag(e.COALA_FALLBACK)
         /\ "khuge_etheap_async" \in kernel =>
              knob["khuge_etheap_async"] = Flag(e.COALA_ETHEAP_ASYNC)

LeshyDue(r) ==
  /\ leshy[r] # "none" => pc[r] \in {"prctl", "running"} /\ ETONLINE(env[r])
  /\ leshy[r] = "loaded" => pc[r] = "running"
  /\ leshy[r] = "loaded" /\ ~ mix /\ "coala_khugepaged" \in kernel =>
       knob["coala_khugepaged"] = "1"

Due(r) == /\ PageDue(r) /\ FragDue(r) /\ KhugeDue(r) /\ PaceDue(r) /\ CollapseDue(r)
          /\ PrctlDue(r) /\ LeshyDue(r)

IInv == Types /\ Peers /\ \A r \in Run : Due(r)

LEMMA InitIInv == Init => IInv
<1> SUFFICES ASSUME Init PROVE IInv
  OBVIOUS
<1>1. \A r \in Run : pc[r] = "idle" /\ ~ late[r] /\ leshy[r] = "none"
  BY DEF Init
<1>2. Types
  BY DEF Init, Types, Inside, Busy
<1>3. Peers
  BY <1>1 DEF Init, Peers, Inside, Busy
<1>4. \A r \in Run : Due(r)
  BY <1>1 DEF Due, PageDue, FragDue, KhugeDue, PaceDue, CollapseDue, PrctlDue, LeshyDue,
              Inside
<1>5. QED
  BY <1>2, <1>3, <1>4 DEF IInv

\* A run that is not inside has nothing due.
LEMMA OutsideDue ==
  ASSUME NEW r \in Run, pc'[r] \notin Inside, leshy'[r] = "none"
  PROVE  Due(r)'
BY DEF Due, PageDue, FragDue, KhugeDue, PaceDue, CollapseDue, PrctlDue, LeshyDue, Inside

\* What is due stays so while the run and the knobs it is about do.
Frame(s) == /\ kernel' = kernel /\ mix' = mix /\ env'[s] = env[s]
            /\ pc'[s] = pc[s] /\ late'[s] = late[s] /\ leshy'[s] = leshy[s]

Kept(K) == \A k \in K \cap kernel : knob'[k] = knob[k]

LEMMA KeptPage ==
  ASSUME NEW s \in Run, Frame(s), Kept(PageKnobs), PageDue(s)
  PROVE  PageDue(s)'
BY DEF Frame, Kept, PageKnobs, PageDue

\* A run that stays where it is, or goes from prctl.sh to its benchmark.
Goes(r) == /\ kernel' = kernel /\ env'[r] = env[r]
           /\ pc'[r] = pc[r] \/ (pc[r] = "prctl" /\ pc'[r] = "running")

LEMMA StillKhuge ==
  ASSUME NEW s \in Run, Goes(s), KhugeDue(s),
         Kept({"khugepaged_enable", "extfrag_threshold", "kcompactd_enable"})
  PROVE  KhugeDue(s)'
<1>1. /\ "khugepaged_enable" \in kernel =>
           knob'["khugepaged_enable"] = knob["khugepaged_enable"]
      /\ "extfrag_threshold" \in kernel =>
           knob'["extfrag_threshold"] = knob["extfrag_threshold"]
      /\ "kcompactd_enable" \in kernel =>
           knob'["kcompactd_enable"] = knob["kcompactd_enable"]
  BY DEF Kept
<1>2. QED
  BY <1>1 DEF Goes, KhugeDue

LEMMA StillPace ==
  ASSUME NEW s \in Run, Goes(s), PaceDue(s), Kept({"khuge_defrag", "sleep_millisecs"})
  PROVE  PaceDue(s)'
<1>1. /\ "khuge_defrag" \in kernel => knob'["khuge_defrag"] = knob["khuge_defrag"]
      /\ "sleep_millisecs" \in kernel => knob'["sleep_millisecs"] = knob["sleep_millisecs"]
  BY DEF Kept
<1>2. QED
  BY <1>1 DEF Goes, PaceDue

LEMMA KeptButCollapse ==
  ASSUME NEW s \in Run, Frame(s), Kept(KhugeKnobs \ {"coala_khugepaged"}),
         FragDue(s), KhugeDue(s), PaceDue(s)
  PROVE  FragDue(s)' /\ KhugeDue(s)' /\ PaceDue(s)'
<1>1. \A K : K \subseteq KhugeKnobs \ {"coala_khugepaged"} => Kept(K)
  BY DEF Kept
<1>2. Goes(s)
  BY DEF Frame, Goes
<1>3. KhugeDue(s)' /\ PaceDue(s)'
  BY <1>1, <1>2, StillKhuge, StillPace DEF KhugeKnobs
<1>4. FragDue(s)'
  BY DEF Frame, Kept, KhugeKnobs, FragDue
<1>5. QED
  BY <1>3, <1>4

LEMMA KeptKhuge ==
  ASSUME NEW s \in Run, Frame(s), Kept(KhugeKnobs),
         FragDue(s), KhugeDue(s), PaceDue(s), CollapseDue(s)
  PROVE  FragDue(s)' /\ KhugeDue(s)' /\ PaceDue(s)' /\ CollapseDue(s)'
<1>1. FragDue(s)' /\ KhugeDue(s)' /\ PaceDue(s)'
  BY KeptButCollapse DEF Kept
<1>2. CollapseDue(s)'
  BY DEF Frame, Kept, KhugeKnobs, CollapseDue
<1>3. QED
  BY <1>1, <1>2

LEMMA KeptPrctl ==
  ASSUME NEW s \in Run, Frame(s), Kept(CoalaKnobs), PrctlDue(s),
         Hawkeye(env[s]) => Kept({"thp", "khuge_defrag", "sleep_millisecs"})
  PROVE  PrctlDue(s)'
BY DEF Frame, Kept, CoalaKnobs, PrctlDue, Flag

LEMMA KeptLeshy ==
  ASSUME NEW s \in Run, Frame(s), mix \/ Kept({"coala_khugepaged"}), LeshyDue(s)
  PROVE  LeshyDue(s)'
BY DEF Frame, Kept, LeshyDue

-----------------------------------------------------------------------------
(* The steps. *)

Act(r) ==
  \/ Start(r) \/ PassCanneal(r) \/ Fragment(r) \/ Defrag(r) \/ Prctl(r) \/ PrctlAgain(r)
  \/ LeshyStarts(r) \/ LeshyLoads(r) \/ End(r) \/ Exit(r) \/ Restore(r)

\* Where the runs are.
LEMMA TypesStep ==
  ASSUME Types, NEW r \in Run, Act(r)
  PROVE  Types'
<1> USE DEF Types, Inside, Busy, Step, host
<1>1. UNCHANGED <<mix, env>>
  BY DEF Act, Start, PassCanneal, Fragment, Defrag, Prctl, PrctlAgain, LeshyStarts,
         LeshyLoads, End, Exit, Restore
<1>2. pc' \in [Run -> Busy \cup {"idle", "gone"}]
  BY DEF Act, Start, PassCanneal, Fragment, Defrag, Prctl, PrctlAgain, LeshyStarts,
         LeshyLoads, End, Exit, Restore
<1>3. late' \in [Run -> BOOLEAN]
  BY DEF Act, Start, PassCanneal, Fragment, Defrag, Prctl, PrctlAgain, LeshyStarts,
         LeshyLoads, End, Exit, Restore
<1>4. leshy' \in [Run -> {"none", "started", "loaded"}]
  BY DEF Act, Start, PassCanneal, Fragment, Defrag, Prctl, PrctlAgain, LeshyStarts,
         LeshyLoads, End, Exit, Restore
<1>5. \A s \in Run : pc'[s] = "idle" => ~ late'[s]
  <2>1. CASE PassCanneal(r)
    BY <2>1 DEF PassCanneal
  <2>2. CASE ~ PassCanneal(r)
    <3>1. late' = late /\ \A s \in Run : pc'[s] = "idle" => pc[s] = "idle"
      BY <2>2 DEF Act, Start, Fragment, Defrag, Prctl, PrctlAgain, LeshyStarts,
                  LeshyLoads, End, Exit, Restore
    <3>2. QED
      BY <3>1
  <2>3. QED
    BY <2>1, <2>2
<1>6. QED
  BY <1>1, <1>2, <1>3, <1>4, <1>5

LEMMA PeersStep ==
  ASSUME Types, Peers, NEW r \in Run, Act(r)
  PROVE  Peers'
<1> USE DEF Types, Inside, Busy, Step, host
<1>1. UNCHANGED <<mix, env>>
  BY DEF Act, Start, PassCanneal, Fragment, Defrag, Prctl, PrctlAgain, LeshyStarts,
         LeshyLoads, End, Exit, Restore
<1>2. CASE Start(r)
  <2>1. mix \/ \A s \in Run \ {r} : pc[s] \notin Busy
    BY <1>2 DEF Start, Ongoing
  <2>2. \A s \in Run \ {r} : pc'[s] = pc[s]
    BY <1>2 DEF Start
  <2>3. ASSUME NEW a \in Run, NEW b \in Run, pc'[a] \in Busy, pc'[b] \in Busy, a # b
        PROVE  mix
    <3>1. CASE a = r
      BY <2>1, <2>2, <2>3, <3>1
    <3>2. CASE b = r
      BY <2>1, <2>2, <2>3, <3>2
    <3>3. CASE a # r /\ b # r
      BY <2>2, <2>3, <3>3 DEF Peers
    <3>4. QED
      BY <3>1, <3>2, <3>3
  <2>4. QED
    BY <1>1, <2>3 DEF Peers
<1>3. CASE ~ Start(r)
  <2>1. \A s \in Run : pc'[s] \in Busy => pc[s] \in Busy
    BY <1>3 DEF Act, PassCanneal, Fragment, Defrag, Prctl, PrctlAgain, LeshyStarts,
                LeshyLoads, End, Exit, Restore
  <2>2. QED
    BY <1>1, <2>1 DEF Peers
<1>4. QED
  BY <1>2, <1>3

-----------------------------------------------------------------------------
(* What a file changes when it is echoed. *)

LEMMA EchoPage ==
  ASSUME NEW e \in Envs, Echo(Page(e))
  PROVE  /\ Kept(KhugeKnobs) /\ Kept(CoalaKnobs)
         /\ "thp" \in kernel => knob'["thp"] = Huge(e, FALSE)
         /\ "thp64kB" \in kernel =>
              knob'["thp64kB"] = IF e.PGSZ \in {"pte", "thp"} THEN "never" ELSE "always"
<1> DEFINE f == Page(e)
<1>1. \A k \in kernel : knob'[k] = IF k \in DOMAIN f THEN f[k] ELSE knob[k]
  BY EchoReads
<1>2. /\ PageKnobs \subseteq DOMAIN f
      /\ DOMAIN f \cap (KhugeKnobs \cup CoalaKnobs) = {}
      /\ f["thp"] = Huge(e, FALSE)
      /\ f["thp64kB"] = IF e.PGSZ \in {"pte", "thp"} THEN "never" ELSE "always"
  BY PageReads
<1> HIDE DEF f
<1>3. QED
  BY <1>1, <1>2 DEF Kept, PageKnobs

LEMMA EchoNever ==
  ASSUME NEW e, Echo(IF ETHEAP(e) THEN [thp |-> "never"] ELSE Nothing)
  PROVE  /\ Kept(KhugeKnobs) /\ Kept(CoalaKnobs) /\ Kept({"thp64kB"})
         /\ "thp" \in kernel => knob'["thp"] = IF ETHEAP(e) THEN "never" ELSE knob["thp"]
<1> DEFINE f == IF ETHEAP(e) THEN [thp |-> "never"] ELSE Nothing
<1>1. \A k \in kernel : knob'[k] = IF k \in DOMAIN f THEN f[k] ELSE knob[k]
  BY EchoReads
<1>2. IF ETHEAP(e) THEN DOMAIN f = {"thp"} /\ f["thp"] = "never" ELSE DOMAIN f = {}
  BY DEF Nothing
<1> HIDE DEF f
<1>3. QED
  BY <1>1, <1>2 DEF Kept, KhugeKnobs, CoalaKnobs

LEMMA EchoNothing ==
  ASSUME Echo(Nothing)
  PROVE  \A K : Kept(K)
<1>1. \A k \in kernel : knob'[k] = IF k \in DOMAIN Nothing THEN Nothing[k] ELSE knob[k]
  BY EchoReads
<1>2. DOMAIN Nothing = {}
  BY DEF Nothing
<1>3. QED
  BY <1>1, <1>2 DEF Kept

LEMMA EchoHints ==
  ASSUME Echo([fault_hints |-> "0"])
  PROVE  /\ Kept(PageKnobs) /\ Kept(KhugeKnobs)
         /\ Kept({"khuge_fallback", "khuge_etheap_async"})
         /\ "fault_hints" \in kernel => knob'["fault_hints"] = "0"
<1> DEFINE f == [fault_hints |-> "0"]
<1>1. \A k \in kernel : knob'[k] = IF k \in DOMAIN f THEN f[k] ELSE knob[k]
  BY EchoReads
<1>2. QED
  BY <1>1 DEF Kept, PageKnobs, KhugeKnobs

LEMMA EchoLoaded ==
  ASSUME Echo([coala_khugepaged |-> "1"])
  PROVE  /\ Kept(PageKnobs) /\ Kept(KhugeKnobs \ {"coala_khugepaged"}) /\ Kept(CoalaKnobs)
         /\ "coala_khugepaged" \in kernel => knob'["coala_khugepaged"] = "1"
<1> DEFINE f == [coala_khugepaged |-> "1"]
<1>1. \A k \in kernel : knob'[k] = IF k \in DOMAIN f THEN f[k] ELSE knob[k]
  BY EchoReads
<1>2. QED
  BY <1>1 DEF Kept, PageKnobs, KhugeKnobs, CoalaKnobs

LEMMA EchoFrag ==
  ASSUME Echo(disable_defrag)
  PROVE  /\ Kept(PageKnobs) /\ Kept(CoalaKnobs)
         /\ "kcompactd_enable" \in kernel => knob'["kcompactd_enable"] = "0"
<1> DEFINE f == disable_defrag
<1>1. \A k \in kernel : knob'[k] = IF k \in DOMAIN f THEN f[k] ELSE knob[k]
  BY EchoReads
<1>2. /\ DOMAIN f \cap (PageKnobs \cup CoalaKnobs) = {}
      /\ "kcompactd_enable" \in DOMAIN f /\ f["kcompactd_enable"] = "0"
  BY FragReads
<1> HIDE DEF f
<1>3. QED
  BY <1>1, <1>2 DEF Kept

LEMMA EchoKhuge ==
  ASSUME NEW e \in Envs, Echo(KhugeFile(e))
  PROVE  /\ Kept(PageKnobs) /\ Kept(CoalaKnobs)
         /\ "khugepaged_enable" \in kernel => knob'["khugepaged_enable"] = Flag(e.KHUGE)
         /\ "extfrag_threshold" \in kernel =>
              knob'["extfrag_threshold"] = IF e.KHUGE THEN "500" ELSE "1000"
         /\ "khuge_defrag" \in kernel => knob'["khuge_defrag"] = Flag(e.KHUGE)
         /\ "sleep_millisecs" \in kernel =>
              knob'["sleep_millisecs"] = IF e.KHUGE THEN e.KHUGE_SLEEP ELSE "3600000"
         /\ "coala_khugepaged" \in kernel =>
              knob'["coala_khugepaged"] = Flag(e.KHUGE /\ COALA_KHUGE(e))
         /\ "kcompactd_enable" \in kernel =>
              knob'["kcompactd_enable"] =
                IF e.KHUGE /\ e.NOKCOMPACTD THEN knob["kcompactd_enable"] ELSE Flag(e.KHUGE)
<1> DEFINE f == KhugeFile(e)
<1>1. \A k \in kernel : knob'[k] = IF k \in DOMAIN f THEN f[k] ELSE knob[k]
  BY EchoReads
<1>2. /\ KhugeKnobs \ {"kcompactd_enable"} \subseteq DOMAIN f
      /\ DOMAIN f \cap (PageKnobs \cup CoalaKnobs) = {}
      /\ "kcompactd_enable" \in DOMAIN f <=> ~ (e.KHUGE /\ e.NOKCOMPACTD)
      /\ "kcompactd_enable" \in DOMAIN f => f["kcompactd_enable"] = Flag(e.KHUGE)
      /\ f["khugepaged_enable"] = Flag(e.KHUGE)
      /\ f["extfrag_threshold"] = IF e.KHUGE THEN "500" ELSE "1000"
      /\ f["khuge_defrag"] = Flag(e.KHUGE)
      /\ f["sleep_millisecs"] = IF e.KHUGE THEN e.KHUGE_SLEEP ELSE "3600000"
      /\ f["coala_khugepaged"] = Flag(e.KHUGE /\ COALA_KHUGE(e))
  BY KhugeReads
<1> HIDE DEF f
<1>3. \A k \in (KhugeKnobs \ {"kcompactd_enable"}) \cap kernel : knob'[k] = f[k]
  BY <1>1, <1>2
<1>4. Kept(PageKnobs) /\ Kept(CoalaKnobs)
  BY <1>1, <1>2 DEF Kept
<1>5. QED
  BY <1>1, <1>2, <1>3, <1>4 DEF KhugeKnobs

LEMMA EchoCoala ==
  ASSUME NEW e \in Envs, CoalaMode(e), Echo(prctl(e))
  PROVE  /\ Kept(PageKnobs) /\ Kept(KhugeKnobs)
         /\ "fault_hints" \in kernel => knob'["fault_hints"] = Flag(~ e.UNHINTED_FAULTS)
         /\ "khuge_fallback" \in kernel => knob'["khuge_fallback"] = Flag(e.COALA_FALLBACK)
         /\ "khuge_etheap_async" \in kernel =>
              knob'["khuge_etheap_async"] = Flag(e.COALA_ETHEAP_ASYNC)
<1> DEFINE f == prctl(e)
<1>1. \A k \in kernel : knob'[k] = IF k \in DOMAIN f THEN f[k] ELSE knob[k]
  BY EchoReads
<1>2. /\ CoalaKnobs \subseteq DOMAIN f
      /\ DOMAIN f \cap (PageKnobs \cup KhugeKnobs) = {}
      /\ f["fault_hints"] = Flag(~ e.UNHINTED_FAULTS)
      /\ f["khuge_fallback"] = Flag(e.COALA_FALLBACK)
      /\ f["khuge_etheap_async"] = Flag(e.COALA_ETHEAP_ASYNC)
  BY PrctlReads, CoalaReads
<1> HIDE DEF f
<1>3. QED
  BY <1>1, <1>2 DEF Kept, CoalaKnobs

LEMMA EchoHwk ==
  ASSUME NEW e \in Envs, Hawkeye(e), Echo(prctl(e))
  PROVE  /\ Kept({"thp64kB"}) /\ Kept(CoalaKnobs)
         /\ Kept(KhugeKnobs \ {"khuge_defrag", "sleep_millisecs"})
         /\ "thp" \in kernel => knob'["thp"] = "always"
         /\ "khuge_defrag" \in kernel => knob'["khuge_defrag"] = "1"
         /\ "sleep_millisecs" \in kernel => knob'["sleep_millisecs"] =
              IF e.HWK_SLEEP # "unset" THEN e.HWK_SLEEP ELSE knob["sleep_millisecs"]
<1> DEFINE f == prctl(e)
<1>1. \A k \in kernel : knob'[k] = IF k \in DOMAIN f THEN f[k] ELSE knob[k]
  BY EchoReads
<1>2. f = hwk(e)
  BY PrctlReads
<1>3. /\ {"thp", "khuge_defrag"} \subseteq DOMAIN f
      /\ "sleep_millisecs" \in DOMAIN f <=> e.HWK_SLEEP # "unset"
      /\ DOMAIN f \cap (PageKnobs \cup CoalaKnobs \cup KhugeKnobs)
           \subseteq {"thp", "khuge_defrag", "sleep_millisecs"}
      /\ f["thp"] = "always"
      /\ f["khuge_defrag"] = "1"
      /\ e.HWK_SLEEP # "unset" => f["sleep_millisecs"] = e.HWK_SLEEP
  BY <1>2, HwkReads
<1> HIDE DEF f
<1>4. QED
  BY <1>1, <1>3 DEF Kept, PageKnobs, CoalaKnobs, KhugeKnobs

-----------------------------------------------------------------------------
(* What a step of r does to another run s of its mix.  The mix has one     *)
(* environment: a setting that is written again is what it was.            *)

InMix(r, s) ==
  /\ Types /\ Due(s)
  /\ s # r /\ pc[s] \in Inside
  /\ mix /\ env[s] = env[r] /\ env[r] \in Envs
  /\ env[s].KHUGE /\ ~ Hawkeye(env[s]) /\ ~ env[s].FRAG_TARGET

LEMMA MixStart ==
  ASSUME NEW r \in Run, NEW s \in Run, InMix(r, s), Start(r)
  PROVE  Due(s)'
<1> USE DEF InMix
<1>1. Frame(s) /\ Echo(Page(env[r]))
  BY DEF Start, Step, Frame, host, Types
<1>2. PageDue(s)'
  BY <1>1, EchoPage DEF Frame, PageDue, Huge
<1>3. QED
  BY <1>1, <1>2, EchoPage, KeptKhuge, KeptPrctl, KeptLeshy DEF Due

LEMMA MixPassCanneal ==
  ASSUME NEW r \in Run, NEW s \in Run, InMix(r, s), PassCanneal(r)
  PROVE  Due(s)'
<1> USE DEF InMix
<1>1. Frame(s) /\ Echo(IF ETHEAP(env[r]) THEN [thp |-> "never"] ELSE Nothing)
  BY DEF PassCanneal, Step, Frame, host, Types
<1>2. PageDue(s)'
  BY <1>1, EchoNever DEF Due, Frame, Kept, PageDue
<1>3. QED
  BY <1>1, <1>2, EchoNever, KeptKhuge, KeptPrctl, KeptLeshy DEF Due

LEMMA MixDefrag ==
  ASSUME NEW r \in Run, NEW s \in Run, InMix(r, s), Defrag(r) \/ Restore(r)
  PROVE  Due(s)'
<1> USE DEF InMix
<1>1. Frame(s) /\ Echo(KhugeFile(env[r]))
  BY DEF Defrag, Restore, Step, Frame, host, Types, KhugeFile
<1>2. FragDue(s)'
  BY <1>1 DEF Frame, FragDue
<1>3. KhugeDue(s)'
  BY <1>1, EchoKhuge DEF Frame, KhugeDue, Flag
<1>4. PaceDue(s)' /\ CollapseDue(s)'
  BY <1>1, EchoKhuge DEF Frame, PaceDue, CollapseDue
<1>5. QED
  BY <1>1, <1>2, <1>3, <1>4, EchoKhuge, KeptPage, KeptPrctl, KeptLeshy DEF Due

LEMMA MixPrctl ==
  ASSUME NEW r \in Run, NEW s \in Run, InMix(r, s), Prctl(r)
  PROVE  Due(s)'
<1> USE DEF InMix
<1>1. Frame(s) /\ Echo(prctl(env[r]))
  BY DEF Prctl, Step, Frame, host, Types
<1>2. CASE CoalaMode(env[r])
  <2>1. PrctlDue(s)'
    BY <1>1, <1>2, EchoCoala DEF Frame, PrctlDue, Flag
  <2>2. QED
    BY <1>1, <1>2, <2>1, EchoCoala, KeptPage, KeptKhuge, KeptLeshy DEF Due
<1>3. CASE ~ CoalaMode(env[r])
  BY <1>1, <1>3, PrctlReads, EchoNothing, KeptPage, KeptKhuge, KeptPrctl, KeptLeshy
     DEF Due
<1>4. QED
  BY <1>2, <1>3

LEMMA MixLeshy ==
  ASSUME NEW r \in Run, NEW s \in Run, InMix(r, s), LeshyStarts(r) \/ LeshyLoads(r),
         LeshyDue(r)
  PROVE  Due(s)'
<1> USE DEF InMix
<1>1. Frame(s) /\ ETONLINE(env[r])
  BY DEF LeshyStarts, LeshyLoads, Frame, host, Types, LeshyDue
<1>2. \/ Echo([fault_hints |-> "0"])
      \/ Echo([coala_khugepaged |-> "1"])
  BY DEF LeshyStarts, LeshyLoads
<1>3. CASE Echo([fault_hints |-> "0"])
  <2>1. PrctlDue(s)'
    BY <1>1, <1>3, EchoHints DEF Due, Frame, Kept, PrctlDue, Flag
  <2>2. QED
    BY <1>1, <1>3, <2>1, EchoHints, KeptPage, KeptKhuge, KeptLeshy DEF Due
<1>4. CASE Echo([coala_khugepaged |-> "1"])
  <2>1. Kept(KhugeKnobs \ {"coala_khugepaged"})
    BY <1>4, EchoLoaded
  <2>2. FragDue(s)' /\ KhugeDue(s)' /\ PaceDue(s)'
    BY <1>1, <2>1, KeptButCollapse DEF Due
  <2>3. CollapseDue(s)'
    BY <1>1 DEF Frame, CollapseDue
  <2>4. QED
    BY <1>1, <1>4, <2>2, <2>3, EchoLoaded, KeptPage, KeptPrctl, KeptLeshy DEF Due
<1>5. QED
  BY <1>2, <1>3, <1>4

LEMMA MixRest ==
  ASSUME NEW r \in Run, NEW s \in Run, InMix(r, s),
         Fragment(r) \/ PrctlAgain(r) \/ End(r) \/ Exit(r)
  PROVE  Due(s)'
<1> USE DEF InMix
<1>1. ~ PrctlAgain(r)
  BY DEF PrctlAgain, Hawkeye
<1>2. Ongoing(r)
  <2>1. s \in Run \ {r} /\ pc[s] \notin {"idle", "gone"}
    BY DEF Inside
  <2>2. QED
    BY <2>1 DEF Ongoing
<1>3. CASE Fragment(r) \/ Exit(r)
  <2>1. Frame(s) /\ (Echo(Nothing) \/ knob' = knob)
    BY <1>2, <1>3 DEF Fragment, Exit, Step, Frame, host, Types
  <2>2. \A K : Kept(K)
    BY <2>1, EchoNothing DEF Kept
  <2>3. QED
    BY <2>1, <2>2, KeptPage, KeptKhuge, KeptPrctl, KeptLeshy DEF Due
<1>4. CASE End(r)
  <2>1. /\ UNCHANGED <<kernel, mix, knob, env, late>>
        /\ pc'[s] = pc[s] /\ leshy'[s] = "none"
    BY <1>4 DEF End, Step, host, Types
  <2>2. QED
    <3>1. PageDue(s)' /\ FragDue(s)'
      BY <2>1 DEF Due, PageDue, FragDue
    <3>2. KhugeDue(s)' /\ PaceDue(s)' /\ CollapseDue(s)'
      BY <2>1 DEF Due, KhugeDue, PaceDue, CollapseDue, Flag
    <3>3. PrctlDue(s)' /\ LeshyDue(s)'
      BY <2>1 DEF Due, PrctlDue, LeshyDue, Flag
    <3>4. QED
      BY <3>1, <3>2, <3>3 DEF Due
<1>5. QED
  BY <1>1, <1>3, <1>4

LEMMA MixStep ==
  ASSUME NEW r \in Run, NEW s \in Run, InMix(r, s), LeshyDue(r), Act(r)
  PROVE  Due(s)'
BY MixStart, MixPassCanneal, MixDefrag, MixPrctl, MixLeshy, MixRest DEF Act

-----------------------------------------------------------------------------
(* What a step of r does to itself. *)

Alone(r) == /\ Types /\ Due(r) /\ env[r] \in Envs

LEMMA OwnStart ==
  ASSUME NEW r \in Run, Alone(r), Start(r)
  PROVE  Due(r)'
<1> USE DEF Alone
<1>1. /\ kernel' = kernel /\ mix' = mix /\ env' = env /\ late' = late
      /\ pc'[r] = "between" /\ Echo(Page(env[r]))
  BY DEF Start, Step, host, Types
<1>2. ~ late[r] /\ leshy'[r] = "none"
  BY DEF Start, Step, Types, Due, LeshyDue
<1>3. PageDue(r)'
  BY <1>1, <1>2, EchoPage DEF PageDue, Huge
<1>4. QED
  BY <1>1, <1>2, <1>3 DEF Due, FragDue, KhugeDue, PaceDue, CollapseDue, PrctlDue, LeshyDue

LEMMA OwnPassCanneal ==
  ASSUME NEW r \in Run, Alone(r), PassCanneal(r)
  PROVE  Due(r)'
<1> USE DEF Alone
<1>1. /\ kernel' = kernel /\ mix' = mix /\ env' = env /\ late'[r] = TRUE /\ ~ late[r]
      /\ pc[r] = "between" /\ pc'[r] = "between" /\ leshy' = leshy
      /\ Echo(IF ETHEAP(env[r]) THEN [thp |-> "never"] ELSE Nothing)
  BY DEF PassCanneal, Step, host, Types
<1>2. PageDue(r)'
  BY <1>1, EchoNever DEF Due, Kept, PageDue, Inside, Huge
<1>3. leshy'[r] = "none"
  BY <1>1 DEF Due, LeshyDue, Types
<1>4. QED
  BY <1>1, <1>2, <1>3 DEF Due, FragDue, KhugeDue, PaceDue, CollapseDue, PrctlDue, LeshyDue

LEMMA OwnFragment ==
  ASSUME NEW r \in Run, Alone(r), Fragment(r),
         mix => ~ env[r].FRAG_TARGET,
         ~ mix => ~ Ongoing(r)
  PROVE  Due(r)'
<1> USE DEF Alone
<1>1. /\ kernel' = kernel /\ mix' = mix /\ env' = env /\ late' = late
      /\ pc[r] = "between" /\ pc'[r] = "defrag" /\ leshy' = leshy
      /\ Echo(IF env[r].FRAG_TARGET THEN disable_defrag ELSE Nothing)
  BY DEF Fragment, Step, host, Types
<1>2. Kept(PageKnobs)
  BY <1>1, EchoFrag, EchoNothing
<1>3. PageDue(r)'
  BY <1>1, <1>2 DEF Due, Kept, PageKnobs, PageDue, Inside
<1>4. FragDue(r)'
  BY <1>1, EchoFrag DEF FragDue
<1>5. leshy'[r] = "none"
  BY <1>1 DEF Due, LeshyDue, Types
<1>6. QED
  BY <1>1, <1>3, <1>4, <1>5 DEF Due, KhugeDue, PaceDue, CollapseDue, PrctlDue, LeshyDue

LEMMA OwnDefrag ==
  ASSUME NEW r \in Run, Alone(r), Defrag(r)
  PROVE  Due(r)'
<1> USE DEF Alone
<1>1. /\ kernel' = kernel /\ mix' = mix /\ env' = env /\ late' = late
      /\ pc[r] = "defrag" /\ pc'[r] = "prctl" /\ leshy' = leshy
      /\ Echo(KhugeFile(env[r]))
  BY DEF Defrag, Step, host, Types, KhugeFile
<1>2. PageDue(r)'
  BY <1>1, EchoKhuge DEF Due, Kept, PageKnobs, PageDue, Inside
<1>3. KhugeDue(r)'
  BY <1>1, EchoKhuge DEF Due, FragDue, KhugeDue, Flag
<1>4. PaceDue(r)' /\ CollapseDue(r)'
  BY <1>1, EchoKhuge DEF PaceDue, CollapseDue
<1>5. leshy'[r] = "none"
  BY <1>1 DEF Due, LeshyDue, Types
<1>6. QED
  BY <1>1, <1>2, <1>3, <1>4, <1>5 DEF Due, FragDue, PrctlDue, LeshyDue

\* prctl.sh, whether it begins the benchmark's command or is called again.
LEMMA OwnPrctl ==
  ASSUME NEW r \in Run, Alone(r), Prctl(r) \/ PrctlAgain(r)
  PROVE  Due(r)'
<1> DEFINE e == env[r]
<1> USE DEF Alone
<1>1. /\ kernel' = kernel /\ mix' = mix /\ env' = env /\ late' = late
      /\ pc[r] \in {"prctl", "running"} /\ pc'[r] = "running" /\ leshy' = leshy
      /\ Echo(prctl(e))
  BY DEF Prctl, PrctlAgain, Step, host, Types
<1>2. PageDue(r) /\ KhugeDue(r) /\ PaceDue(r) /\ CollapseDue(r) /\ LeshyDue(r)
  BY DEF Due
<1>3. FragDue(r)'
  BY <1>1 DEF FragDue
<1>4. Goes(r)
  BY <1>1 DEF Prctl, PrctlAgain, Step, Goes
<1>5. ~ Hawkeye(e) \/ ~ CoalaMode(e)
  BY PrctlReads
<1>6. CASE Hawkeye(e)
  <2>1. PageDue(r)'
    BY <1>1, <1>2, <1>6, EchoHwk DEF Kept, PageDue, Inside
  <2>2. Kept(KhugeKnobs \ {"khuge_defrag", "sleep_millisecs"})
    BY <1>1, <1>6, EchoHwk
  <2>3. KhugeDue(r)'
    BY <1>2, <1>4, <2>2, StillKhuge DEF Kept, KhugeKnobs
  <2>4. CollapseDue(r)' /\ LeshyDue(r)'
    BY <1>1, <1>2, <2>2 DEF Kept, KhugeKnobs, CollapseDue, LeshyDue
  <2>5. PaceDue(r)' /\ PrctlDue(r)'
    BY <1>1, <1>2, <1>5, <1>6, EchoHwk DEF PaceDue, PrctlDue
  <2>6. QED
    BY <1>3, <2>1, <2>3, <2>4, <2>5 DEF Due
<1>7. CASE ~ Hawkeye(e)
  <2>1. Kept(PageKnobs) /\ Kept(KhugeKnobs)
    <3>1. CASE CoalaMode(e)
      BY <1>1, <3>1, EchoCoala
    <3>2. CASE ~ CoalaMode(e)
      BY <1>1, <1>7, <3>2, PrctlReads, EchoNothing
    <3>3. QED
      BY <3>1, <3>2
  <2>2. PageDue(r)'
    BY <1>1, <1>2, <2>1 DEF Kept, PageKnobs, PageDue, Inside
  <2>3. KhugeDue(r)'
    BY <1>2, <1>4, <2>1, StillKhuge DEF Kept, KhugeKnobs
  <2>4. PaceDue(r)'
    BY <1>2, <1>4, <2>1, StillPace DEF Kept, KhugeKnobs
  <2>5. CollapseDue(r)' /\ LeshyDue(r)'
    BY <1>1, <1>2, <2>1 DEF Kept, KhugeKnobs, CollapseDue, LeshyDue
  <2>6. PrctlDue(r)'
    BY <1>1, <1>7, EchoCoala DEF PrctlDue, Flag
  <2>7. QED
    BY <1>3, <2>2, <2>3, <2>4, <2>5, <2>6 DEF Due
<1>8. QED
  BY <1>6, <1>7

LEMMA OwnLeshy ==
  ASSUME NEW r \in Run, Alone(r), LeshyStarts(r) \/ LeshyLoads(r)
  PROVE  Due(r)'
<1> DEFINE e == env[r]
<1> USE DEF Alone
<1>1. /\ kernel' = kernel /\ mix' = mix /\ env' = env /\ late' = late
      /\ pc' = pc /\ pc[r] \in {"prctl", "running"} /\ ETONLINE(e)
  BY DEF LeshyStarts, LeshyLoads, host, Due, LeshyDue
<1>2. Goes(r)
  BY <1>1 DEF Goes
<1>3. ~ Hawkeye(e)
  BY <1>1 DEF ETONLINE, Hawkeye
<1>4. PageDue(r) /\ KhugeDue(r) /\ PaceDue(r) /\ PrctlDue(r)
  BY DEF Due
<1>5. FragDue(r)' /\ CollapseDue(r)'
  BY <1>1 DEF FragDue, CollapseDue
<1>6. CASE LeshyStarts(r)
  <2>1. Echo([fault_hints |-> "0"]) /\ leshy'[r] = "started"
    BY <1>6 DEF LeshyStarts, Types
  <2>2. PageDue(r)'
    BY <1>1, <1>4, <2>1, EchoHints DEF Kept, PageKnobs, PageDue
  <2>3. Kept(KhugeKnobs \ {"coala_khugepaged"})
    BY <2>1, EchoHints DEF Kept
  <2>4. KhugeDue(r)' /\ PaceDue(r)'
    BY <1>4, <1>2, <2>3, StillKhuge, StillPace DEF Kept, KhugeKnobs
  <2>5. PrctlDue(r)' /\ LeshyDue(r)'
    BY <1>1, <1>3, <1>4, <2>1, EchoHints DEF Kept, PrctlDue, LeshyDue, Flag
  <2>6. QED
    BY <1>5, <2>2, <2>4, <2>5 DEF Due
<1>7. CASE LeshyLoads(r)
  <2>1. Echo([coala_khugepaged |-> "1"]) /\ leshy'[r] = "loaded" /\ pc[r] = "running"
    BY <1>7 DEF LeshyLoads, Types
  <2>2. PageDue(r)'
    BY <1>1, <1>4, <2>1, EchoLoaded DEF Kept, PageKnobs, PageDue
  <2>3. Kept(KhugeKnobs \ {"coala_khugepaged"})
    BY <2>1, EchoLoaded DEF Kept
  <2>4. KhugeDue(r)' /\ PaceDue(r)'
    BY <1>4, <1>2, <2>3, StillKhuge, StillPace DEF Kept, KhugeKnobs
  <2>5. PrctlDue(r)'
    BY <1>1, <1>3, <1>4, <2>1, EchoLoaded DEF Kept, CoalaKnobs, PrctlDue, Flag
  <2>6. LeshyDue(r)'
    BY <1>1, <2>1, EchoLoaded DEF LeshyDue
  <2>7. QED
    BY <1>5, <2>2, <2>4, <2>5, <2>6 DEF Due
<1>8. QED
  BY <1>6, <1>7

LEMMA OwnEnd ==
  ASSUME NEW r \in Run, Alone(r), End(r)
  PROVE  Due(r)'
<1> USE DEF Alone
<1>1. /\ kernel' = kernel /\ mix' = mix /\ env' = env /\ late' = late /\ knob' = knob
      /\ pc[r] = "running" /\ pc'[r] = "between" /\ leshy'[r] = "none"
  BY DEF End, Step, host, Types
<1>2. PageDue(r)'
  BY <1>1 DEF Due, PageDue, Inside
<1>3. QED
  BY <1>1, <1>2 DEF Due, FragDue, KhugeDue, PaceDue, CollapseDue, PrctlDue, LeshyDue

LEMMA OwnExit ==
  ASSUME NEW r \in Run, Alone(r), Exit(r) \/ Restore(r)
  PROVE  Due(r)'
<1> USE DEF Alone
<1>1. pc'[r] \in {"restoring", "gone"} /\ leshy'[r] = "none"
  BY DEF Exit, Restore, Step, Types, Due, LeshyDue
<1>2. QED
  BY <1>1, OutsideDue DEF Inside

-----------------------------------------------------------------------------
(* The theorems. *)

LEMMA ActDue ==
  ASSUME IInv, NEW r \in Run, Act(r), NEW s \in Run
  PROVE  Due(s)'
<1>1. /\ Types /\ Peers /\ Due(r) /\ Due(s)
      /\ env[r] \in Envs /\ env[s] \in Envs
  BY DEF IInv, Types
<1>2. CASE s = r
  <2>1. Alone(r)
    BY <1>1 DEF Alone
  <2>2. mix => ~ env[r].FRAG_TARGET
    BY <1>1 DEF Peers
  <2>3. pc[r] = "between" /\ ~ mix => ~ Ongoing(r)
    BY <1>1 DEF Peers, Types, Ongoing, Inside, Busy
  <2>4. Fragment(r) => Due(r)'
    BY <2>1, <2>2, <2>3, OwnFragment DEF Fragment, Step
  <2>5. QED
    BY <1>2, <2>1, <2>4, OwnStart, OwnPassCanneal, OwnDefrag, OwnPrctl, OwnLeshy, OwnEnd,
       OwnExit DEF Act
<1>3. CASE s # r /\ pc[s] \notin Inside
  <2>1. leshy[s] = "none"
    BY <1>1, <1>3 DEF Due, LeshyDue, Inside, Types
  <2>2. pc'[s] = pc[s]
    BY <1>1, <1>3 DEF Act, Start, PassCanneal, Fragment, Defrag, Prctl, PrctlAgain,
       LeshyStarts, LeshyLoads, End, Exit, Restore, Step, Types
  <2>3. leshy'[s] = "none"
    <3>1. leshy \in [Run -> {"none", "started", "loaded"}]
      BY <1>1 DEF Types
    <3>2. \/ leshy' = leshy
          \/ leshy' = [leshy EXCEPT ![r] = "started"]
          \/ leshy' = [leshy EXCEPT ![r] = "loaded"]
          \/ leshy' = [q \in Run |-> IF mix \/ q = r THEN "none" ELSE leshy[q]]
      BY DEF Act, Start, PassCanneal, Fragment, Defrag, Prctl, PrctlAgain,
         LeshyStarts, LeshyLoads, End, Exit, Restore
    <3>3. QED
      BY <1>3, <2>1, <3>1, <3>2
  <2>4. QED
    BY <1>3, <2>2, <2>3, OutsideDue
<1>4. CASE s # r /\ pc[s] \in Inside
  <2>1. mix
    <3>1. CASE Start(r)
      <4>1. s \in Run \ {r} /\ pc[s] \notin {"idle", "gone"}
        BY <1>4 DEF Inside
      <4>2. QED
        BY <3>1, <4>1 DEF Start, Ongoing
    <3>2. CASE ~ Start(r)
      <4>1. pc[r] \in Busy /\ pc[s] \in Busy
        BY <1>1, <1>4, <3>2 DEF Act, PassCanneal, Fragment, Defrag, Prctl, PrctlAgain,
           LeshyStarts, LeshyLoads, End, Exit, Restore, Step, Inside, Busy, Due, LeshyDue
      <4>2. QED
        BY <1>1, <1>4, <4>1 DEF Peers
    <3>3. QED
      BY <3>1, <3>2
  <2>2. InMix(r, s)
    BY <1>1, <1>4, <2>1 DEF InMix, Peers, Hawkeye
  <2>3. QED
    BY <1>1, <2>2, MixStep DEF Due
<1>5. QED
  BY <1>2, <1>3, <1>4

LEMMA StutterDue ==
  ASSUME UNCHANGED vars, NEW s \in Run, Due(s)
  PROVE  Due(s)'
BY KeptPage, KeptKhuge, KeptPrctl, KeptLeshy DEF vars, Due, Frame, Kept

LEMMA Inductive == IInv /\ [Next]_vars => IInv'
<1> SUFFICES ASSUME IInv, [Next]_vars PROVE IInv'
  OBVIOUS
<1>1. CASE Next
  <2>1. PICK r \in Run : Act(r)
    BY <1>1 DEF Next, Act
  <2>2. Types' /\ Peers'
    BY <2>1, TypesStep, PeersStep DEF IInv
  <2>3. \A s \in Run : Due(s)'
    BY <2>1, ActDue
  <2>4. QED
    BY <2>2, <2>3 DEF IInv
<1>2. CASE UNCHANGED vars
  <2>1. Types' /\ Peers'
    BY <1>2 DEF IInv, vars, Types, Peers
  <2>2. \A s \in Run : Due(s)'
    BY <1>2, StutterDue DEF IInv
  <2>3. QED
    BY <2>1, <2>2 DEF IInv
<1>3. QED
  BY <1>1, <1>2

\* The invariant is kept by every run there may be, alone or in a mix.
THEOREM KnobsInvariant == Spec => []IInv
BY InitIInv, Inductive, PTL DEF Spec

LEMMA DueAsked ==
  ASSUME IInv, NEW r \in Run, pc[r] = "running"
  PROVE  \A k \in DOMAIN Asked(env[r], late[r]) \cap kernel :
           \/ Asked(env[r], late[r])[k] \in {"any", knob[k]}
           \/ mix /\ ETHEAP(env[r]) /\ k = "thp"
<1> DEFINE e == env[r]
           a == Asked(e, late[r])
<1>1. /\ e \in Envs /\ late[r] \in BOOLEAN /\ mix \in BOOLEAN
      /\ PageDue(r) /\ KhugeDue(r) /\ PaceDue(r) /\ CollapseDue(r) /\ PrctlDue(r)
  BY DEF IInv, Types, Due
<1>2. DOMAIN a = PageKnobs \cup KhugeKnobs \cup CoalaKnobs
  BY DEF Asked, PageKnobs, KhugeKnobs, CoalaKnobs
<1>3. CoalaMode(e) => ~ Hawkeye(e)
  BY <1>1 DEF CoalaMode, Hawkeye, ETHEAP, LESHY, NOET
<1>4. ASSUME "thp" \in kernel
      PROVE  a["thp"] = knob["thp"] \/ (mix /\ ETHEAP(e))
  BY <1>1, <1>4 DEF Asked, Hawkeye, PageDue, PrctlDue, Inside, Huge, Early
<1>5. ASSUME "thp64kB" \in kernel
      PROVE  a["thp64kB"] = knob["thp64kB"]
  BY <1>1, <1>5 DEF Asked, PageDue, Inside
<1>6. ASSUME "khugepaged_enable" \in kernel
      PROVE  a["khugepaged_enable"] = knob["khugepaged_enable"]
  BY <1>1, <1>6 DEF Asked, KhugeDue
<1>7. ASSUME "extfrag_threshold" \in kernel
      PROVE  a["extfrag_threshold"] = knob["extfrag_threshold"]
  BY <1>1, <1>7 DEF Asked, KhugeDue
<1>8. ASSUME "kcompactd_enable" \in kernel
      PROVE  a["kcompactd_enable"] \in {"any", knob["kcompactd_enable"]}
  BY <1>1, <1>8 DEF Asked, KhugeDue, Flag
<1>9. ASSUME "khuge_defrag" \in kernel
      PROVE  a["khuge_defrag"] = knob["khuge_defrag"]
  BY <1>1, <1>9 DEF Asked, PaceDue, PrctlDue, Hawkeye, Flag
<1>10. ASSUME "sleep_millisecs" \in kernel
       PROVE  a["sleep_millisecs"] = knob["sleep_millisecs"]
  BY <1>1, <1>10 DEF Asked, PaceDue, PrctlDue, Hawkeye
<1>11. ASSUME "coala_khugepaged" \in kernel
       PROVE  a["coala_khugepaged"] \in {"any", knob["coala_khugepaged"]}
  BY <1>1, <1>11 DEF Asked, CollapseDue, COALA_KHUGE, Flag
<1>12. ASSUME "fault_hints" \in kernel
       PROVE  a["fault_hints"] \in {"any", knob["fault_hints"]}
  BY <1>1, <1>12 DEF Asked, PrctlDue, CoalaMode
<1>13. ASSUME "khuge_fallback" \in kernel
       PROVE  a["khuge_fallback"] \in {"any", knob["khuge_fallback"]}
  BY <1>1, <1>13 DEF Asked, PrctlDue, CoalaMode
<1>14. ASSUME "khuge_etheap_async" \in kernel
       PROVE  a["khuge_etheap_async"] \in {"any", knob["khuge_etheap_async"]}
  BY <1>1, <1>14 DEF Asked, PrctlDue, CoalaMode
<1>15. QED
  BY <1>2, <1>4, <1>5, <1>6, <1>7, <1>8, <1>9, <1>10, <1>11, <1>12, <1>13, <1>14
     DEF PageKnobs, KhugeKnobs, CoalaKnobs

\* Whatever was booted and ran before, and whatever the other runs of a mix do, a
\* benchmark runs under the knobs its own environment asks for.
THEOREM KnobsAsAsked == Spec => []AsAsked
<1>1. IInv => AsAsked
  BY DueAsked DEF AsAsked
<1>2. QED
  BY <1>1, KnobsInvariant, PTL

\* Outside a mix, khugepaged collapses what an online Leshy has loaded until the
\* run kills it.
THEOREM KnobsHintsAreCollapsed == Spec => []HintsAreCollapsed
<1>1. IInv => HintsAreCollapsed
  BY DEF IInv, Due, LeshyDue, HintsAreCollapsed
<1>2. QED
  BY <1>1, KnobsInvariant, PTL

=============================================================================
