-------------------------- MODULE MCFunctionalCache -------------------------
(***************************************************************************)
(* Instances of FunctionalCache for TLC: the four caches of the PCC        *)
(* simulation scaled down, on addresses of five bits.                      *)
(***************************************************************************)
EXTENDS FunctionalCache

Small(a) == [address |-> a, is2M |-> FALSE]
Huge(a)  == [address |-> a, is2M |-> TRUE]

\* 4 K pages 8 (two offsets), 9 and 10, and 2 M pages 1 and 3.
MCCalls == {Small(16), Small(17), Small(18), Small(20), Huge(4), Huge(14)}

Cache(lines, log_line_size, policy, repeats) ==
  [lines |-> lines, assoc |-> 2, log_line_size |-> log_line_size, policy |-> policy,
   repeats |-> repeats]

MCCaches == {
  Cache(2, 1, LRU, TRUE),     \* L1, 4K
  Cache(4, 2, LRU, FALSE),    \* L1, 2M
  Cache(7, 1, LRU, FALSE),    \* L2
  Cache(2, 1, LFU, FALSE)}    \* promotion

=============================================================================
