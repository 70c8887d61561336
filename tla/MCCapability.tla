---------------------------- MODULE MCCapability ----------------------------
(* Small instances of the capability system for TLC. *)
EXTENDS Capability, TLC

\* The CPUs are interchangeable: no operation tells them apart.
CPUSymmetry == Permutations(CPUs)
=============================================================================
