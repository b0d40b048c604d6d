--------------------------- MODULE MCProvisioning ----------------------------
(* A small instance of Provisioning for TLC. *)
EXTENDS Provisioning, TLC

\* Calls differ in name only; every property of the run is a safety property.
CallSymmetry == Permutations(Call)
=============================================================================
