------------------------------- MODULE Core1 -------------------------------
(***************************************************************************)
(* A Core-1 service: the region table and the life cycle, brought up by    *)
(* core1_init and core1_main (Core-1/core1.c) on the main thread and then  *)
(* used by every thread of the service.                                    *)
(*                                                                         *)
(* Until the endpoint is registered nobody but the main thread runs.  The  *)
(* heap and the endpoint registry that core1_init sets up as well are the  *)
(* subject of IpcEndpoints; if one of them fails the service does not run. *)
(***************************************************************************)
EXTENDS Regions, ServiceFramework

CONSTANTS
  Main,          \* the thread that runs core1_init and core1_main
  MaxCalls,      \* bound: calls the other threads make in a behaviour
  ServiceInfos   \* code, data, stack and heap regions of a service_info_t

ASSUME Core1Constants ==
  /\ Main \in Threads /\ MaxCalls \in Nat
  /\ ServiceInfos \subseteq [1 .. 4 -> Region]
  /\ MAX_MEM_REGIONS >= 4           \* core1_init finds room

VARIABLES
  boot,      \* the main thread's next step: 1 to 5 in core1_init, then
             \* core1_main and service_main
  info,      \* g_service_info
  cleaned,   \* history: core1_cleanup has disabled the isolation
  made       \* calls the other threads have made

vars == <<rvars, fvars, boot, info, cleaned, made>>

Init ==
  /\ RegionsInit /\ FrameworkInit
  /\ boot = 1 /\ cleaned = FALSE /\ made = 0
  /\ info \in ServiceInfos

-----------------------------------------------------------------------------
others == Threads \ {Main}

\* core1_init: the regions of the service one after the other, their results
\* ignored, then isolation_enable.
core1_init ==
  /\ \/ /\ boot \in 1 .. 4 /\ isolation_add_region(Main, info[boot])
        /\ UNCHANGED boot
     \/ /\ boot \in 1 .. 4 /\ AddLocked(Main)
        /\ boot' = boot + 1
     \/ /\ boot = 5 /\ isolation_enable
        /\ boot' = 6
  /\ UNCHANGED <<fvars, info, cleaned, made>>

\* core1_main and the two versions of service_main; the network service
\* registers its endpoint before step 9.
core1_main ==
  /\ \/ boot = 6 /\ service_framework_init(Main)
     \/ boot = 7 /\ service_register_callbacks(Main)
     \/ boot = 8 /\ service = "network" /\ service_framework_init(Main)
     \/ boot = 8 /\ service = "default" /\ UNCHANGED fvars
     \/ boot = 9 /\ service_start(Main)
  /\ boot' = boot + 1
  /\ UNCHANGED <<rvars, info, cleaned, made>>

\* core1_cleanup behind service_stop.
core1_cleanup(t) ==
  /\ call[t] = "cleanup"
  /\ call' = [call EXCEPT ![t] = "idle"]
  /\ isolation_disable
  /\ cleaned' = TRUE
  /\ UNCHANGED <<service, state, error_count, callbacks, connected, then,
                 overtaken, boot, info, made>>

\* A step of a call, or the first step of a new one.
Counted(t) ==
  IF rpc[t] = "idle" /\ call[t] = "idle"
  THEN made < MaxCalls /\ made' = made + 1 ELSE made' = made

UseRegions(t) ==
  /\ call[t] = "idle" /\ Counted(t)
  /\ RegionsStep(t)
  /\ UNCHANGED <<fvars, boot, info, cleaned>>

UseFramework(t) ==
  /\ rpc[t] = "idle" /\ Counted(t)
  /\ FrameworkStep(t)
  /\ UNCHANGED <<rvars, boot, info, cleaned>>

MainCallback == CallStep(Main) /\ UNCHANGED <<rvars, boot, info, cleaned, made>>

Next ==
  \/ core1_init \/ core1_main \/ MainCallback
  \/ \E t \in others :
       boot >= 9 /\ (UseRegions(t) \/ UseFramework(t) \/ core1_cleanup(t))

\* A thread inside a callback or between two critical sections goes on: the
\* spinlock is held for a few instructions, and Core-1 threads are preempted
\* but not abandoned.
Spec ==
  /\ Init /\ [][Next]_vars
  /\ \A t \in Threads :
       WF_vars(CallStep(t) /\ UNCHANGED <<rvars, boot, info, cleaned, made>>)

-----------------------------------------------------------------------------
\* The parts are well formed.
TypeOK ==
  /\ RegionsTypeOK /\ FrameworkTypeOK
  /\ boot \in 1 .. 10 /\ info \in ServiceInfos /\ cleaned \in BOOLEAN
  /\ made \in 0 .. MaxCalls

\* The access checks of isolation.c mean what they say: the regions of the
\* table are disjoint, the verdict on a request is exact, and what an access
\* function touches after the unlock is what was checked.
AccessChecked == TypeOK /\ RegionsDisjoint /\ VerdictExact /\ TouchesCovered
=============================================================================
