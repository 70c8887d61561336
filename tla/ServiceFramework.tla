-------------------------- MODULE ServiceFramework --------------------------
(***************************************************************************)
(* The life cycle of a Core-1 service (Core-1/service/service.c) with the  *)
(* callbacks of the default service or of the network service              *)
(* (Core-1/examples/network_service.c).                                    *)
(*                                                                         *)
(* State changes hold g_service_lock and are one step each; callbacks run  *)
(* outside it, between two such steps.  The network service's error        *)
(* handler logs the error, and logging an error reports it: a thread that  *)
(* reports an error to that service calls the handler again and again and  *)
(* does not return.                                                        *)
(*                                                                         *)
(* Abstracted: names, versions and flags of a service, which are stored;   *)
(* log texts; times, which are never taken; counters of packets and bytes; *)
(* service_yield and service_sleep, which change nothing.                  *)
(***************************************************************************)
EXTENDS Integers, ServiceThreads

CONSTANTS
  Services,         \* what service_main may be: "default", "network"
  UINT32_RANGE      \* error_count wraps here: 2^32 in the code

ASSUME FrameworkConstants ==
  Services \subseteq {"default", "network"} /\ UINT32_RANGE \in Nat \ {0}

VARIABLES
  service,      \* the service_main that was linked
  state,        \* g_service_ctx.state
  error_count,
  callbacks,    \* g_callbacks.start, stop and error_handler are set
  connected,    \* g_net_status.connected
  call,         \* a thread's place in a call of this module
  then,         \* what follows the stop: "return", "start" or "cleanup"
  overtaken     \* history: a stop began while a start callback was due

fvars == <<service, state, error_count, callbacks, connected, call, then,
           overtaken>>

FrameworkInit ==
  /\ service \in Services
  /\ state = "INIT" /\ error_count = 0
  /\ callbacks = FALSE /\ connected = FALSE
  /\ call = [t \in Threads |-> "idle"]
  /\ then = [t \in Threads |-> "return"]
  /\ overtaken = FALSE

-----------------------------------------------------------------------------
service_framework_init(t) ==
  /\ call[t] = "idle"
  /\ state' = "INIT" /\ error_count' = 0
  /\ UNCHANGED <<service, callbacks, connected, call, then, overtaken>>

\* The default service_main registers five null pointers.
service_register_callbacks(t) ==
  /\ call[t] = "idle"
  /\ callbacks' = (service = "network")
  /\ UNCHANGED <<service, state, error_count, connected, call, then, overtaken>>

\* Mutant: a service that is being stopped can be started.
MayStart_Stopping == state \in {"INIT", "STOPPED", "STOPPING"}
MayStart == state \in {"INIT", "STOPPED"}

\* service_start from any place of a thread's call, up to the callback.
StartFrom(t) ==
  \/ /\ MayStart
     /\ state' = "RUNNING"
     /\ call' = [call EXCEPT ![t] = IF callbacks THEN "start" ELSE "idle"]
  \/ /\ ~MayStart
     /\ call' = [call EXCEPT ![t] = "idle"]
     /\ UNCHANGED state

service_start(t) ==
  /\ call[t] = "idle"
  /\ StartFrom(t)
  /\ UNCHANGED <<service, error_count, callbacks, connected, then, overtaken>>

\* The start callback.
net_service_start(t) ==
  /\ call[t] = "start"
  /\ connected' = TRUE
  /\ call' = [call EXCEPT ![t] = "idle"]
  /\ UNCHANGED <<service, state, error_count, callbacks, then, overtaken>>

\* service_stop up to the callback, for service_stop itself, for
\* service_restart and for core1_cleanup.  A refused stop also refuses the
\* restart; core1_cleanup goes on.
service_stop(t, next) ==
  /\ call[t] = "idle"
  /\ \/ /\ state = "RUNNING"
        /\ state' = "STOPPING"
        /\ call' = [call EXCEPT ![t] = "stop"]
        /\ then' = [then EXCEPT ![t] = next]
        /\ overtaken' = (overtaken \/ \E u \in Threads : call[u] = "start")
     \/ /\ state # "RUNNING" /\ next = "cleanup"
        /\ call' = [call EXCEPT ![t] = "cleanup"]
        /\ UNCHANGED <<state, then, overtaken>>
  /\ UNCHANGED <<service, error_count, callbacks, connected>>

\* Mutant: the callback leaves the flag.
net_service_stop_Keeps(t) ==
  /\ call[t] = "stop"
  /\ call' = [call EXCEPT ![t] = "stopped"]
  /\ UNCHANGED <<service, state, error_count, callbacks, connected, then,
                 overtaken>>

\* The stop callback.
net_service_stop(t) ==
  /\ call[t] = "stop"
  /\ connected' = (connected /\ ~callbacks)
  /\ call' = [call EXCEPT ![t] = "stopped"]
  /\ UNCHANGED <<service, state, error_count, callbacks, then, overtaken>>

\* Mutant: the state is left as it is after the callback.
FinishStop_NoState(t) ==
  /\ call[t] = "stopped"
  /\ call' = [call EXCEPT ![t] = "idle"]
  /\ UNCHANGED <<service, state, error_count, callbacks, connected, then,
                 overtaken>>

\* service_stop after the callback.
FinishStop(t) ==
  /\ call[t] = "stopped"
  /\ state' = "STOPPED"
  /\ call' = [call EXCEPT ![t] = IF then[t] = "return" THEN "idle" ELSE then[t]]
  /\ then' = [then EXCEPT ![t] = "return"]
  /\ UNCHANGED <<service, error_count, callbacks, connected, overtaken>>

\* service_restart's second half; FinishStop left the thread before it.
RestartStart(t) ==
  /\ call[t] = "restart"
  /\ StartFrom(t)
  /\ UNCHANGED <<service, error_count, callbacks, connected, then, overtaken>>

\* net_ipc_handler on a message it does not know: service_log_error, which
\* calls service_report_error.
net_ipc_handler(t) ==
  /\ call[t] = "idle" /\ service = "network"
  /\ call' = [call EXCEPT ![t] = "report"]
  /\ UNCHANGED <<service, state, error_count, callbacks, connected, then,
                 overtaken>>

\* service_report_error, and the error handler behind it that reports again.
service_report_error(t) ==
  /\ call[t] = "report"
  /\ error_count' = (error_count + 1) % UINT32_RANGE
  /\ call' = [call EXCEPT ![t] = IF callbacks THEN "report" ELSE "idle"]
  /\ UNCHANGED <<service, state, callbacks, connected, then, overtaken>>

\* The steps a thread inside a call takes.
CallStep(t) ==
  \/ net_service_start(t) \/ net_service_stop(t) \/ FinishStop(t)
  \/ RestartStart(t) \/ service_report_error(t)

\* The calls other threads make once the service is up.
FrameworkStep(t) ==
  \/ service_start(t)
  \/ \E next \in {"return", "restart", "cleanup"} : service_stop(t, next)
  \/ net_ipc_handler(t)
  \/ CallStep(t)

-----------------------------------------------------------------------------
\* The service context and the calls in progress are well formed.
FrameworkTypeOK ==
  /\ service \in Services
  /\ state \in {"INIT", "RUNNING", "STOPPING", "STOPPED"}
  /\ error_count \in 0 .. UINT32_RANGE - 1
  /\ callbacks \in BOOLEAN /\ connected \in BOOLEAN /\ overtaken \in BOOLEAN
  /\ call \in [Threads -> {"idle", "start", "stop", "stopped", "restart",
                           "cleanup", "report"}]
  /\ then \in [Threads -> {"return", "restart", "cleanup"}]

\* Between STOPPING and STOPPED exactly one thread runs the stop: no second
\* stop, restart or start gets in while the callback runs without the lock.
StopExclusive ==
  LET stopping == {t \in Threads : call[t] \in {"stop", "stopped"}}
  IN  /\ stopping # {} <=> state = "STOPPING"
      /\ \A t, u \in stopping : t = u

\* When no thread is inside a callback, the network service is connected
\* exactly when it is RUNNING, unless a stop overtook a start callback that had
\* not run yet: the callbacks run in the order of the state changes.
ConnectedFollowsState ==
  callbacks /\ ~overtaken
    /\ (\A t \in Threads : call[t] \notin {"start", "stop", "stopped"})
  => (connected <=> state = "RUNNING")

\* A stop completes, also when a thread is caught in the error handler.
StopCompletes == state = "STOPPING" ~> state # "STOPPING"
=============================================================================
