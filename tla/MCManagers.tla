----------------------------- MODULE MCManagers -----------------------------
(* Two CPUs for TLC. *)
EXTENDS Managers

const_Routes == {[type |-> "SERVICE", capability_id |-> 1],
                 [type |-> "APPLICATION", capability_id |-> 2]}
=============================================================================
