--------------------------- MODULE MCSessionManager ---------------------------
(* SessionManager for TLC. *)
EXTENDS SessionManager, TLC

\* The manager does not tell its callers apart.
Symmetry == Permutations(Threads)
==============================================================================
