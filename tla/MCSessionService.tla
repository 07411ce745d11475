--------------------------- MODULE MCSessionService ---------------------------
(* SessionService for TLC. *)
EXTENDS SessionService, TLC

\* Devices and attempts are only compared.
Symmetry == Permutations(Device) \cup Permutations(Attempt)
==============================================================================
