------------------------------ MODULE MCKnobs -------------------------------
(***************************************************************************)
(* Instances of Knobs for TLC: the kernels of the evaluation, and the      *)
(* environments of its scripts.                                            *)
(***************************************************************************)
EXTENDS Knobs

Vanilla == {"thp", "thp_defrag", "extfrag_threshold", "compaction_proactiveness",
            "pages_to_scan", "sleep_millisecs", "khuge_defrag"}
ET  == Vanilla \cup {"kcompactd_enable", "khugepaged_enable", "khugepaged_hwk",
                     "coala_khugepaged", "fault_hints", "khuge_fallback",
                     "khuge_etheap_async", "flush_full", "validate_ranges",
                     "cacheline_opt"}
HWK == Vanilla \cup {"promotion_metric", "ohp_disable_thp", "hwk_fallback"}
MTHP == Vanilla \cup {"thp64kB", "thp2048kB"}

MCKernels == {ET, HWK, MTHP}

\* run.sh without a switch.
Default == [PGSZ |-> "thp", MODE |-> "unset", KHUGE |-> FALSE, KHUGE_SLEEP |-> "10000",
            KHUGE_HWK |-> "0", NOKCOMPACTD |-> FALSE, COALA_KHUGE |-> FALSE,
            UNHINTED_FAULTS |-> FALSE, COALA_FALLBACK |-> FALSE,
            COALA_ETHEAP_ASYNC |-> FALSE, FRAG_TARGET |-> FALSE, HWK_THP |-> "unset",
            HWK_SLEEP |-> "unset", HWK_FALLBACK |-> "unset"]

\* scripts/run-eval-base.sh.
Eval == [Default EXCEPT !.KHUGE = TRUE, !.KHUGE_SLEEP = "1000", !.KHUGE_HWK = "1",
                        !.NOKCOMPACTD = TRUE, !.FRAG_TARGET = TRUE, !.HWK_THP = "1",
                        !.HWK_SLEEP = "1000", !.HWK_FALLBACK = "0"]

\* scripts/run-fig14-multi.sh: THP, and the online Leshy.
Fig14 == [Eval EXCEPT !.FRAG_TARGET = FALSE, !.HWK_THP = "unset", !.HWK_SLEEP = "unset",
                      !.HWK_FALLBACK = "unset"]
MCMixEnvs == {Fig14, [Fig14 EXCEPT !.MODE = "etonline", !.UNHINTED_FAULTS = TRUE]}

MCEnvs == MCMixEnvs \cup {
  Default,
  [Default EXCEPT !.KHUGE = TRUE],
  [Default EXCEPT !.MODE = "etheap", !.KHUGE = TRUE, !.COALA_KHUGE = TRUE,
                  !.COALA_ETHEAP_ASYNC = TRUE],
  [Default EXCEPT !.MODE = "hawkeye"],
  [Eval EXCEPT !.PGSZ = "pte"],
  [Eval EXCEPT !.PGSZ = "pte", !.MODE = "etheap"],
  [Default EXCEPT !.PGSZ = "pte", !.MODE = "oleshy"],
  [Eval EXCEPT !.PGSZ = "thp-mthp"],
  [Eval EXCEPT !.MODE = "leshy", !.COALA_KHUGE = TRUE, !.COALA_FALLBACK = TRUE],
  [Eval EXCEPT !.MODE = "leshy-thp", !.COALA_KHUGE = TRUE],
  [Eval EXCEPT !.MODE = "hawkeye"]}

=============================================================================
