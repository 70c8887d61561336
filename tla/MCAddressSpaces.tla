-------------------------- MODULE MCAddressSpaces --------------------------
(* Small instances of the page tables for TLC. *)
EXTENDS AddressSpaces, TLC

\* CPUs are interchangeable, and so are domains.
Interchangeable == Permutations(CPUs) \cup Permutations(Domains)
=============================================================================
