---------------------------- MODULE MCIdentityStore ----------------------------
(* Two processes, which are interchangeable. *)
EXTENDS IdentityStore, TLC

Symmetry == Permutations(Process)
===============================================================================
