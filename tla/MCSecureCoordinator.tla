------------------------- MODULE MCSecureCoordinator -------------------------
(* SecureCoordinator for TLC.  Its runs check liveness, which a reduction by  *)
(* symmetry does not preserve, so this module declares none.                  *)
EXTENDS SecureCoordinator
==============================================================================
