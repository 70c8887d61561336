--------------------------- MODULE ServiceThreads ---------------------------
(* The threads of a Core-1 service, which its components share. *)
CONSTANT Threads
=============================================================================
