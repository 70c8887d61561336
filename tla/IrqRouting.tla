----------------------------- MODULE IrqRouting -----------------------------
(***************************************************************************)
(* The interrupt routing table of Core-0 (Core-0/irq/irq.c).               *)
(*                                                                         *)
(* Routing, enabling and disabling a vector hold the table's spinlock and  *)
(* write the entry field by field.  The dispatcher takes no lock: it runs  *)
(* on any CPU, also on one that is in the middle of a routing call, and    *)
(* reads the flags twice, then the type, then the capability.              *)
(*                                                                         *)
(* Abstracted: handler_address, which is stored and never called, and the  *)
(* result of cap_check, after which irq_handler does nothing either way.   *)
(***************************************************************************)
EXTENDS Integers

CONSTANTS
  CPUs,
  Vectors,    \* interrupt vectors
  Wired,      \* the ones irq_init enables: 0 to 47 in the code
  Routes      \* targets callers route to: a type and a capability id

Core0Route == [type |-> "CORE0", capability_id |-> 0]

ASSUME IrqConstants ==
  /\ Wired \subseteq Vectors
  /\ Routes \subseteq [type: {"CORE0", "SERVICE", "APPLICATION"},
                       capability_id: Nat]

VARIABLES
  pc,         \* a CPU's place in a call
  entries,    \* g_irq_table.entries: type, capability_id and flags
  irq_lock,   \* the CPUs that hold g_irq_table.lock
  routing,    \* the vector and route a CPU is writing
  dispatch,   \* the dispatcher on each CPU: place, vector, what it has read
  routed      \* history: the routes every vector was given

ivars == <<entries, irq_lock, routing, dispatch, routed>>

NoDispatch == [at |-> "idle", vector |-> 0, type |-> "CORE0",
               capability_id |-> 0, overlapped |-> FALSE]
NoRouting == [vector |-> 0, type |-> "CORE0", capability_id |-> 0]

\* irq_init.
irq_init ==
  /\ entries = [v \in Vectors |->
                  [type |-> "CORE0", capability_id |-> 0,
                   flags |-> IF v \in Wired THEN {"ENABLED"} ELSE {"MASKED"}]]
  /\ irq_lock = {}
  /\ routing = [c \in CPUs |-> NoRouting]
  /\ dispatch = [c \in CPUs |-> NoDispatch]
  /\ routed = [v \in Vectors |-> {Core0Route}]

-----------------------------------------------------------------------------
\* The CPU is not running the dispatcher on top of its call.
Foreground(c) == dispatch[c].at = "idle"
Goto(c, from, to) == Foreground(c) /\ pc[c] = from /\ pc' = [pc EXCEPT ![c] = to]

\* Mutant: the lock is not waited for.
TakeIrqLock_NoWait(c) == irq_lock' = irq_lock \cup {c}
TakeIrqLock(c) == irq_lock = {} /\ irq_lock' = {c}

\* A write to an entry, seen by every dispatcher that is at work on it.
SetEntry(v, e) ==
  /\ entries' = [entries EXCEPT ![v] = e]
  /\ dispatch' = [c \in CPUs |->
       IF dispatch[c].at # "idle" /\ dispatch[c].vector = v
       THEN [dispatch[c] EXCEPT !.overlapped = TRUE] ELSE dispatch[c]]

\* irq_route up to the write of handler_address, then the two other fields.
irq_route(c, v, r) ==
  /\ Goto(c, "idle", "type") /\ TakeIrqLock(c)
  /\ routing' = [routing EXCEPT ![c] = [vector |-> v, type |-> r.type,
                                        capability_id |-> r.capability_id]]
  /\ routed' = [routed EXCEPT ![v] = @ \cup {r}]
  /\ UNCHANGED <<entries, dispatch>>
RouteType(c) ==
  LET r == routing[c] IN
  /\ Goto(c, "type", "capability")
  /\ SetEntry(r.vector, [entries[r.vector] EXCEPT !.type = r.type])
  /\ UNCHANGED <<irq_lock, routing, routed>>
RouteCapability(c) ==
  LET r == routing[c] IN
  /\ Goto(c, "capability", "idle")
  /\ SetEntry(r.vector, [entries[r.vector] EXCEPT !.capability_id = r.capability_id])
  /\ irq_lock' = irq_lock \ {c}
  /\ routing' = [routing EXCEPT ![c] = NoRouting]
  /\ UNCHANGED routed

\* The first and the second write to flags.
SetFlag(c, v, f, at) ==
  /\ Goto(c, "idle", at) /\ TakeIrqLock(c)
  /\ routing' = [routing EXCEPT ![c] = [NoRouting EXCEPT !.vector = v]]
  /\ SetEntry(v, [entries[v] EXCEPT !.flags = @ \cup {f}])
  /\ UNCHANGED routed
ClearFlag(c, f, at) ==
  LET v == routing[c].vector IN
  /\ Goto(c, at, "idle")
  /\ SetEntry(v, [entries[v] EXCEPT !.flags = @ \ {f}])
  /\ irq_lock' = irq_lock \ {c}
  /\ routing' = [routing EXCEPT ![c] = NoRouting]
  /\ UNCHANGED routed

irq_enable(c, v) == SetFlag(c, v, "ENABLED", "unmask")
irq_disable(c, v) == SetFlag(c, v, "MASKED", "disable")

RoutingCall(c) ==
  \E v \in Vectors : \/ \E r \in Routes : irq_route(c, v, r)
                     \/ irq_enable(c, v) \/ irq_disable(c, v)
RoutingStep(c) ==
  \/ RouteType(c) \/ RouteCapability(c)
  \/ ClearFlag(c, "MASKED", "unmask") \/ ClearFlag(c, "ENABLED", "disable")

\* irq_handler: the first read of flags, the second, type, capability_id.
irq_handler(c, v) ==
  /\ dispatch[c].at = "idle" /\ "ENABLED" \in entries[v].flags
  /\ dispatch' = [dispatch EXCEPT ![c] =
       [NoDispatch EXCEPT !.at = "masked", !.vector = v,
          !.overlapped = \E k \in CPUs : /\ pc[k] \in {"type", "capability"}
                                         /\ routing[k].vector = v]]
  /\ UNCHANGED <<pc, entries, irq_lock, routing, routed>>
DispatchRead(c) ==
  LET d == dispatch[c] e == entries[d.vector] IN
  /\ d.at # "idle"
  /\ dispatch' = [dispatch EXCEPT ![c] =
       CASE d.at = "masked" /\ "MASKED" \in e.flags -> NoDispatch
         [] d.at = "masked" /\ "MASKED" \notin e.flags -> [d EXCEPT !.at = "type"]
         [] d.at = "type" /\ e.type = "CORE0" -> NoDispatch
         [] d.at = "type" /\ e.type # "CORE0" ->
              [d EXCEPT !.at = "check", !.type = e.type]
         [] d.at = "check" ->
              [d EXCEPT !.at = "done", !.capability_id = e.capability_id]
         [] d.at = "done" -> NoDispatch]
  /\ UNCHANGED <<pc, entries, irq_lock, routing, routed>>

-----------------------------------------------------------------------------
\* The table and the dispatchers are well formed.
IrqTypeOK ==
  /\ entries \in [Vectors -> [type: {"CORE0", "SERVICE", "APPLICATION"},
                              capability_id: Nat,
                              flags: SUBSET {"ENABLED", "MASKED"}]]
  /\ irq_lock \in SUBSET CPUs
  /\ \A c \in CPUs :
       /\ routing[c].vector \in Vectors \cup {0}
       /\ dispatch[c].at \in {"idle", "masked", "type", "check", "done"}

\* At every instant a vector that is not masked is enabled.  irq_enable and
\* irq_disable write the flags in an order that keeps this true, so the
\* dispatcher's second, unlocked read of flags is enough.
UnmaskedIsEnabled ==
  \A v \in Vectors : "MASKED" \notin entries[v].flags => "ENABLED" \in entries[v].flags

\* The type and capability a dispatcher acts on belong to one route of the
\* vector, unless a routing call for the vector overlaps the dispatcher: calls
\* that exclude each other leave no mixed entry behind.
DispatchIsOneRoute ==
  \A c \in CPUs :
    LET d == dispatch[c]
    IN  d.at = "done" /\ ~d.overlapped
        => [type |-> d.type, capability_id |-> d.capability_id] \in routed[d.vector]
=============================================================================
