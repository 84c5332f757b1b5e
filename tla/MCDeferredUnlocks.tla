-------------------------- MODULE MCDeferredUnlocks --------------------------
(* An instance of DeferredUnlocks for TLC. *)
EXTENDS DeferredUnlocks

InstanceSymmetry == Permutations(Instances)
=============================================================================
