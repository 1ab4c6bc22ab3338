-------------------------- MODULE MCCoreLifecycle --------------------------
(* Requests racing on one engine; the bounds are in the .cfg files.        *)
EXTENDS CoreLifecycle, TLC

HelperSymmetry == Permutations(Helpers)
=============================================================================
