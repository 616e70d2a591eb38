------------------------------ MODULE MCKVStore ------------------------------
(* KVStore for TLC: callers, keys and the values that are not
   empty are interchangeable. *)
EXTENDS KVStore, TLC
Symmetric == Permutations(Caller) \cup Permutations(Key) \cup Permutations(Value \ {Empty})
=============================================================================
