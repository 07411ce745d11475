--------------------------- MODULE MCDiscoveryCache ---------------------------
(* One instance more than the cache holds, one address more than an entry.  *)
EXTENDS DiscoveryCache, TLC

Symmetry == Permutations(Instance) \cup Permutations(Host) \cup Permutations(Address)
===============================================================================
