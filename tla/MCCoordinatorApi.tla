-------------------------- MODULE MCCoordinatorApi --------------------------
(* CoordinatorApi instantiated for TLC. *)
EXTENDS CoordinatorApi

CONSTANTS r1, r2, r3

=============================================================================
