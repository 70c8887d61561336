------------------------------- MODULE MCIpc -------------------------------
(***************************************************************************)
(* Small instances of Core-1's IPC for TLC: the endpoint registry and the  *)
(* channels on the service's heap (IpcEndpoints) and the ring buffer       *)
(* (IpcRing).  The two share no variable: part is the one that is used in  *)
(* a behaviour, and the other stays as it was initialised.                 *)
(***************************************************************************)
EXTENDS IpcEndpoints, IpcRing, TLC

VARIABLE part
partvars == <<evars, ringvars, part>>

PartsInit ==
  /\ part \in {"registry", "ring"}
  /\ EndpointsInit /\ RingInit
  /\ part = "ring" \/ data = CHOOSE d \in [Pos -> Byte] : TRUE

RegistryStep == part = "registry" /\ EndpointsNext /\ UNCHANGED <<ringvars, part>>
RingStep == part = "ring" /\ RingNext /\ UNCHANGED <<evars, part>>

\* A handler that called back into IPC waits for the lock its own thread holds:
\* the service has stopped.  Nothing else may stop the registry or the ring.
Stopped ==
  /\ part = "registry" /\ \E t \in Threads : pc[t] = "spin"
  /\ UNCHANGED partvars

PartsNext == RegistryStep \/ RingStep \/ Stopped

PartsSpec == PartsInit /\ [][PartsNext]_partvars

\* Byte values are only copied, never inspected.
ByteSymmetry == Permutations(Byte)
=============================================================================
