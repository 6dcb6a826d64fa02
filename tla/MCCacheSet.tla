----------------------------- MODULE MCCacheSet -----------------------------
(* Instances of CacheSet for TLC. *)
EXTENDS CacheRanking, TLC

\* Tags are only compared.
Tags == Permutations(Addr)

=============================================================================
