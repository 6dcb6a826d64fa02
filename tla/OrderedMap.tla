----------------------------- MODULE OrderedMap -----------------------------
(***************************************************************************)
(* What the B+ tree of src/benchmarks/btree/btree1.c promises: a map from  *)
(* keys to values, NULL where there is no key.  BPlusTree runs in step     *)
(* with it.                                                                *)
(***************************************************************************)
CONSTANTS Key, Value, NULL

VARIABLE map

MInit == map = [k \in Key |-> NULL]

Put(k, v) == map' = [map EXCEPT ![k] = v]

Unmap(k) == map' = [map EXCEPT ![k] = NULL]

=============================================================================
