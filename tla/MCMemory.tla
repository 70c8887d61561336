------------------------------ MODULE MCMemory ------------------------------
(***************************************************************************)
(* Small instances of the memory managers for TLC: the frame allocator     *)
(* with callers that hold blocks (MmClients), the scheduler with its       *)
(* stacks from the frame allocator (Sched) and the heap of a Core-3        *)
(* program (Vmm).  part is the one that is used in a behaviour; the        *)
(* variables of the others stay as they were initialised.                  *)
(***************************************************************************)
EXTENDS Sched, MmClients, Vmm, TLC

CONSTANT HandedPages   \* bound: frames boot code hands over in part "clients"
ASSUME HandedPagesAssumption == HandedPages \in 1 .. total_pages

VARIABLE part
threadvars == <<threads, num_threads, current_thread, next_thread_id, returning,
                terminations>>
partvars == <<mm, threadvars, owned, vmmvars, part>>

PartsInit ==
  /\ part \in {"clients", "threads", "heap"}
  /\ ClientsInit /\ Init /\ VmmInit

\* The frames from HandedPages up are memory the machine does not have: boot
\* code leaves them RESERVED.
ClientsStep ==
  /\ part = "clients"
  /\ ClientsNext
  /\ \A p \in HandedPages .. total_pages - 1 : mm'.frames[p] = mm.frames[p]
  /\ UNCHANGED <<threadvars, vmmvars, part>>
ThreadsStep == part = "threads" /\ Next /\ UNCHANGED <<owned, vmmvars, part>>
HeapStep == part = "heap" /\ VmmNext /\ UNCHANGED <<mm, threadvars, owned, part>>

PartsNext == ClientsStep \/ ThreadsStep \/ HeapStep

PartsSpec == PartsInit /\ [][PartsNext]_partvars

\* The callers of sched_create_thread are interchangeable.
CallerSymmetry == Permutations(Callers)
=============================================================================
