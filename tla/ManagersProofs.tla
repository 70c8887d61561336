--------------------------- MODULE ManagersProofs ---------------------------
(***************************************************************************)
(* Theorems about Managers, for any number of CPUs, calls, services and    *)
(* processes and any amount of memory.                                     *)
(***************************************************************************)
EXTENDS Managers, PhysMemProofs, FiniteSetTheorems, TLAPS

\* The places in a call: without a lock, under the service manager's, under the
\* process manager's, and under the interrupt table's.
Open == {"idle", "start", "stop", "restart", "recover", "fault", "terminate",
         "counting", "counted", "faulting", "stuck", "exiting"}
Inside == {"naming", "clearing", "starting", "stopping", "restopping"}
Creating == {"domain", "tables", "pid", "new"}
RoutePlaces == {"type", "capability"}
LockedPlaces == RoutePlaces \cup {"unmask", "disable"}
Places == Open \cup Inside \cup Creating \cup LockedPlaces

States == {"STOPPED", "RUNNING", "ERROR"}
Service == [service_id: Int, state: States, restart_count: Int]
Process == [process_id: Int, state: {"NEW", "TERMINATED"}]
Arg == [id: Int, slot: Int, page: Int, seen: States]

\* What the managers' invariants rest on.
ServiceType ==
  services \in [SSlots -> Service] /\ next_service_id \in Int /\ num_services \in Nat
ProcessType ==
  processes \in [PSlots -> Process] /\ next_pid \in Int
ManagerType ==
  /\ pc \in [CPUs -> Places] /\ arg \in [CPUs -> Arg]
  /\ ServiceType /\ ProcessType

\* A CPU between the test of a service's state, or of a process's, and the
\* writes holds the lock and has found a slot.
ServiceLocked ==
  \A c \in CPUs : pc[c] \in Inside => service_lock = c /\ arg[c].slot \in SSlots
ProcessLocked ==
  \A c \in CPUs : pc[c] \in Creating => process_lock = c /\ arg[c].slot \in PSlots

\* The slot a creation has found is not started before it is written.
SlotUnstarted ==
  \A c \in CPUs : pc[c] = "naming" => services[arg[c].slot].state \in {"STOPPED", "ERROR"}

\* The pointer of the fault handler.
FaultFound ==
  \A c \in CPUs : pc[c] = "faulting" => arg[c].slot \in SSlots

ManagerInv ==
  ManagerType /\ ServiceLocked /\ ProcessLocked /\ SlotUnstarted /\ FaultFound

DomainInv == next_domain_id \in Int

LEMMA InitManagerInv == Init => ManagerInv
  <1> SUFFICES ASSUME Init PROVE ManagerInv
    OBVIOUS
  <1>1. NoArg \in Arg /\ NoService \in Service /\ NoProcess \in Process /\ "idle" \in Places
    BY DEF NoArg, NoService, NoProcess, Arg, Service, Process, States, Places, Open
  <1>2. ManagerType
    BY <1>1 DEF Init, ManagerType, ServiceType, ProcessType
  <1>3. ServiceLocked /\ ProcessLocked /\ SlotUnstarted /\ FaultFound
    BY DEF Init, ServiceLocked, ProcessLocked, SlotUnstarted, FaultFound, Inside, Creating
  <1>4. QED
    BY <1>2, <1>3 DEF ManagerInv

\* A step of one CPU: it takes a lock when it goes inside, changes a lock that
\* is free or its own, and starts no service but under the lock.
LEMMA MoveManagerInv ==
  ASSUME ManagerInv, NEW c \in CPUs, NEW p \in Places, pc' = [pc EXCEPT ![c] = p],
         NEW b \in Arg, arg' = [arg EXCEPT ![c] = b], ServiceType', ProcessType',
         p \in Inside => service_lock' = c /\ b.slot \in SSlots,
         UNCHANGED service_lock \/ service_lock \in {Free, c},
         p \in Creating => process_lock' = c /\ b.slot \in PSlots,
         UNCHANGED process_lock \/ process_lock \in {Free, c},
         p = "naming" => services'[b.slot].state \in {"STOPPED", "ERROR"},
         p = "faulting" => b.slot \in SSlots,
         \/ pc[c] \in Inside
         \/ \A s \in SSlots : services'[s].state \in {services[s].state, "STOPPED", "ERROR"}
  PROVE  ManagerInv'
  <1>1. ManagerType'
    BY DEF ManagerInv, ManagerType
  <1>2. /\ pc'[c] = p /\ arg'[c] = b
        /\ \A k \in CPUs : k # c => pc'[k] = pc[k] /\ arg'[k] = arg[k]
    BY DEF ManagerInv, ManagerType
  <1>3. \A k \in CPUs : k # Free
    BY ManagerConstants DEF Free
  <1>4. \A k \in CPUs : k # c /\ pc[k] \in Inside => service_lock = k /\ service_lock' = k
    BY <1>3 DEF ManagerInv, ServiceLocked
  <1>5. ServiceLocked'
    BY <1>2, <1>4 DEF ManagerInv, ServiceLocked
  <1>6. ProcessLocked'
    BY <1>2, <1>3 DEF ManagerInv, ProcessLocked
  <1>7. SlotUnstarted'
    <2>1. SUFFICES ASSUME NEW k \in CPUs, k # c, pc'[k] = "naming"
                   PROVE  services'[arg'[k].slot].state \in {"STOPPED", "ERROR"}
      BY <1>2 DEF SlotUnstarted
    <2>2. pc[k] = "naming" /\ pc[k] \in Inside /\ arg'[k] = arg[k]
      BY <1>2, <2>1 DEF Inside
    <2>3. service_lock = k /\ arg[k].slot \in SSlots
      BY <2>2 DEF ManagerInv, ServiceLocked
    <2>4. pc[c] \notin Inside
      BY <2>1, <2>3 DEF ManagerInv, ServiceLocked
    <2>5. QED
      BY <2>2, <2>3, <2>4 DEF ManagerInv, SlotUnstarted
  <1>8. FaultFound'
    BY <1>2 DEF ManagerInv, FaultFound
  <1>9. QED
    BY <1>1, <1>5, <1>6, <1>7, <1>8 DEF ManagerInv

\* Interrupt routing and dispatch leave the managers alone.
LEMMA IrqManagerInv ==
  ASSUME ManagerInv, NEW c \in CPUs,
         RoutingCall(c) \/ RoutingStep(c) \/ (\E v \in Vectors : irq_handler(c, v))
           \/ DispatchRead(c),
         UNCHANGED <<svars, arg, pvars>>
  PROVE  ManagerInv'
  <1>1. \/ UNCHANGED pc
        \/ \E p \in {"idle", "type", "capability", "unmask", "disable"} :
             pc' = [pc EXCEPT ![c] = p]
    BY DEF RoutingCall, RoutingStep, irq_handler, DispatchRead, irq_route, irq_enable,
           irq_disable, SetFlag, ClearFlag, RouteType, RouteCapability, Goto
  <1>2. ManagerType'
    <2>1. {"idle", "type", "capability", "unmask", "disable"} \subseteq Places
      BY DEF Places, Open, LockedPlaces, RoutePlaces
    <2>2. QED
      BY <1>1, <2>1 DEF ManagerInv, ManagerType, ServiceType, ProcessType, svars, pvars
  <1>3. \A k \in CPUs :
          pc'[k] \in Inside \cup Creating => pc'[k] = pc[k]
    BY <1>1 DEF ManagerInv, ManagerType, Inside, Creating
  <1>4. ServiceLocked' /\ ProcessLocked'
    BY <1>3 DEF ManagerInv, ServiceLocked, ProcessLocked, svars, pvars
  <1>5. SlotUnstarted' /\ FaultFound'
    <2>1. \A k \in CPUs : pc'[k] = "faulting" => pc[k] = "faulting"
      BY <1>1 DEF ManagerInv, ManagerType
    <2>2. QED
      BY <1>3, <2>1 DEF ManagerInv, SlotUnstarted, FaultFound, Inside, svars, pvars
  <1>6. QED
    BY <1>2, <1>4, <1>5 DEF ManagerInv

\* The values a CPU's argument takes.
LEMMA ArgTyped ==
  ASSUME ManagerInv, NEW c \in CPUs
  PROVE  /\ arg[c] \in Arg /\ NoArg \in Arg
         /\ arg = [arg EXCEPT ![c] = arg[c]]
         /\ \A n \in Int : /\ [NoArg EXCEPT !.id = n] \in Arg
                           /\ [arg[c] EXCEPT !.id = n] \in Arg
                           /\ [arg[c] EXCEPT !.slot = n] \in Arg
                           /\ [arg[c] EXCEPT !.slot = n].slot = n
         /\ \A n, m \in Int :
              /\ [arg[c] EXCEPT !.slot = n, !.page = m] \in Arg
              /\ [arg[c] EXCEPT !.slot = n, !.page = m].slot = n
         /\ \A n \in Int, st \in States : [NoArg EXCEPT !.id = n, !.seen = st] \in Arg
         /\ arg[c].id \in Int /\ arg[c].slot \in Int
  <1>1. arg[c] \in Arg /\ arg = [arg EXCEPT ![c] = arg[c]]
    BY DEF ManagerInv, ManagerType
  <1>2. NoArg \in Arg
    BY DEF NoArg, Arg, States
  <1>3. QED
    BY <1>1, <1>2 DEF Arg, NoArg, States

\* Some slots are those of the table.
LEMMA FirstIsSlot ==
  /\ \A id, s : s \in service_get(id) => s \in SSlots /\ s \in Int
  /\ \A s \in FreeServiceSlot : s \in SSlots /\ s \in Int /\ services[s].state = "STOPPED"
  /\ \A s \in FreeProcessSlot : s \in PSlots /\ s \in Int
  /\ SSlots \subseteq Int /\ PSlots \subseteq Int
  BY ManagerConstants DEF service_get, FreeServiceSlot, FreeProcessSlot, First, SSlots, PSlots

\* What service_create writes to an entry.
Cleared(e) == [e EXCEPT !.state = "STOPPED", !.restart_count = 0]
LEMMA ClearedService ==
  ASSUME NEW e \in Service
  PROVE  /\ Cleared(e) \in Service /\ Cleared(e).service_id = e.service_id
         /\ Cleared(e).restart_count = 0
  <1> DEFINE f == [e EXCEPT !.state = "STOPPED"]
  <1>1. f \in Service /\ f.service_id = e.service_id
    BY DEF Service, States
  <1>2. Cleared(e) = [f EXCEPT !.restart_count = 0]
    BY DEF Cleared
  <1> HIDE DEF f
  <1>3. QED
    BY <1>1, <1>2 DEF Service

\* One entry of a table is written.
LEMMA WriteService ==
  ASSUME ManagerInv, NEW s, NEW e, services' = [services EXCEPT ![s] = e],
         s \in SSlots => e \in Service
  PROVE  /\ services' \in [SSlots -> Service]
         /\ s \in SSlots => services'[s] = e
         /\ \A u \in SSlots : u # s => services'[u] = services[u]
  BY DEF ManagerInv, ManagerType, ServiceType

LEMMA WriteProcess ==
  ASSUME ManagerInv, NEW s, NEW e, processes' = [processes EXCEPT ![s] = e],
         s \in PSlots => e \in Process
  PROVE  /\ processes' \in [PSlots -> Process]
         /\ s \in PSlots => processes'[s] = e
         /\ \A u \in PSlots : u # s => processes'[u] = processes[u]
  BY DEF ManagerInv, ManagerType, ProcessType

LEMMA CreateServiceManagerInv ==
  ASSUME ManagerInv, NEW c \in CPUs, service_create(c)
  PROVE  ManagerInv'
  <1>1. PICK s \in FreeServiceSlot : arg' = [arg EXCEPT ![c] = [arg[c] EXCEPT !.slot = s]]
    BY DEF service_create
  <1>2. /\ pc' = [pc EXCEPT ![c] = "naming"] /\ service_lock = Free /\ service_lock' = c
        /\ UNCHANGED <<services, num_services, next_service_id, processes, next_pid, process_lock>>
    BY DEF service_create, Goto, pvars
  <1>3. /\ s \in SSlots /\ services[s].state = "STOPPED"
        /\ [arg[c] EXCEPT !.slot = s] \in Arg /\ [arg[c] EXCEPT !.slot = s].slot = s
    BY FirstIsSlot, ArgTyped
  <1>4. ServiceType' /\ ProcessType' /\ "naming" \in Places /\ "naming" \notin Creating
    BY <1>2 DEF ManagerInv, ManagerType, ServiceType, ProcessType, Places, Inside, Creating
  <1>5. QED
    BY <1>1, <1>2, <1>3, <1>4, MoveManagerInv

LEMMA NameManagerInv ==
  ASSUME ManagerInv, NEW c \in CPUs, NameService(c)
  PROVE  ManagerInv'
  <1>1. /\ pc[c] = "naming" /\ pc' = [pc EXCEPT ![c] = "clearing"]
        /\ services' = [services EXCEPT ![arg[c].slot] =
                           [services[arg[c].slot] EXCEPT !.service_id = next_service_id]]
        /\ next_service_id' = next_service_id + 1
        /\ UNCHANGED <<num_services, service_lock, arg, processes, next_pid, process_lock>>
    BY DEF NameService, Goto, pvars
  <1>2. pc[c] \in Inside /\ service_lock = c /\ arg[c].slot \in SSlots
    BY <1>1 DEF ManagerInv, ServiceLocked, Inside
  <1>3. ServiceType' /\ ProcessType'
    <2>1. services[arg[c].slot] \in Service /\ next_service_id \in Int
      BY <1>2 DEF ManagerInv, ManagerType, ServiceType
    <2>2. [services[arg[c].slot] EXCEPT !.service_id = next_service_id] \in Service
      BY <2>1 DEF Service
    <2>3. services' \in [SSlots -> Service]
      BY <1>1, <2>2, WriteService
    <2>4. QED
      BY <1>1, <2>3 DEF ManagerInv, ManagerType, ServiceType, ProcessType
  <1>4. "clearing" \in Places /\ "clearing" \notin Creating
    BY DEF Places, Inside, Creating
  <1>5. arg[c] \in Arg /\ arg' = [arg EXCEPT ![c] = arg[c]]
    BY <1>1, ArgTyped
  <1>6. QED
    BY <1>1, <1>2, <1>3, <1>4, <1>5, MoveManagerInv

\* Two fields of one entry.
LEMMA ClearIsOneWrite ==
  ASSUME ManagerInv, NEW s
  PROVE  [services EXCEPT ![s].state = "STOPPED", ![s].restart_count = 0]
           = [services EXCEPT ![s] = Cleared(services[s])]
  BY DEF ManagerInv, ManagerType, ServiceType, Cleared

LEMMA ClearManagerInv ==
  ASSUME ManagerInv, NEW c \in CPUs, ClearService(c)
  PROVE  ManagerInv'
  <1>1. /\ pc[c] = "clearing" /\ pc' = [pc EXCEPT ![c] = "idle"]
        /\ services' = [services EXCEPT ![arg[c].slot] =
                           Cleared(services[arg[c].slot])]
        /\ num_services' = num_services + 1 /\ service_lock' = Free
        /\ arg' = [arg EXCEPT ![c] = NoArg]
        /\ UNCHANGED <<next_service_id, processes, next_pid, process_lock>>
    BY ClearIsOneWrite DEF ClearService, Goto, pvars
  <1>2. pc[c] \in Inside /\ service_lock = c /\ arg[c].slot \in SSlots
    BY <1>1 DEF ManagerInv, ServiceLocked, Inside
  <1>3. ServiceType' /\ ProcessType'
    <2>1. services[arg[c].slot] \in Service
      BY <1>2 DEF ManagerInv, ManagerType, ServiceType
    <2>2. Cleared(services[arg[c].slot]) \in Service
      BY <2>1, ClearedService
    <2>3. services' \in [SSlots -> Service]
      BY <1>1, <2>2, WriteService
    <2>4. QED
      BY <1>1, <2>3 DEF ManagerInv, ManagerType, ServiceType, ProcessType
  <1>4. "idle" \in Places /\ "idle" \notin Creating /\ "idle" \notin Inside
    BY DEF Places, Open, Inside, Creating
  <1>5. NoArg \in Arg
    BY ArgTyped
  <1>6. QED
    BY <1>1, <1>2, <1>3, <1>4, <1>5, MoveManagerInv

\* A step outside the critical sections, which starts nothing.
LEMMA OpenManagerInv ==
  ASSUME ManagerInv, NEW c \in CPUs, NEW p \in Open, pc' = [pc EXCEPT ![c] = p],
         NEW b \in Arg, arg' = [arg EXCEPT ![c] = b], p = "faulting" => b.slot \in SSlots,
         ServiceType',
         \A s \in SSlots : services'[s].state \in {services[s].state, "ERROR"},
         UNCHANGED service_lock \/ service_lock \in {Free, c},
         UNCHANGED <<processes, next_pid, process_lock>>
  PROVE  ManagerInv'
  <1>1. ProcessType'
    BY DEF ManagerInv, ManagerType, ProcessType
  <1>2. p \in Places /\ p \notin Inside /\ p \notin Creating /\ p # "naming"
    BY DEF Places, Open, Inside, Creating
  <1>3. QED
    BY <1>1, <1>2, MoveManagerInv

LEMMA EnterManagerInv ==
  ASSUME ManagerInv, NEW c \in CPUs, NEW op, NEW inside \in {"starting", "stopping", "restopping"},
         Enter(c, op, inside)
  PROVE  ManagerInv'
  <1>1. /\ service_lock = Free
        /\ UNCHANGED <<services, num_services, next_service_id, processes, next_pid, process_lock>>
    BY DEF Enter, pvars
  <1>2. ServiceType' /\ ProcessType'
    BY <1>1 DEF ManagerInv, ManagerType, ServiceType, ProcessType
  <1>3. CASE \E s \in service_get(arg[c].id) :
               /\ Goto(c, op, inside) /\ service_lock' = c
               /\ arg' = [arg EXCEPT ![c].slot = s]
    <2>1. PICK s \in service_get(arg[c].id) :
               /\ pc' = [pc EXCEPT ![c] = inside] /\ service_lock' = c
               /\ arg' = [arg EXCEPT ![c] = [arg[c] EXCEPT !.slot = s]]
      BY <1>3 DEF Goto
    <2>2. /\ s \in SSlots /\ [arg[c] EXCEPT !.slot = s] \in Arg
          /\ [arg[c] EXCEPT !.slot = s].slot = s
      BY FirstIsSlot, ArgTyped
    <2>3. inside \in Places /\ inside \notin Creating /\ inside # "naming"
      BY DEF Places, Inside, Creating
    <2>4. QED
      BY <1>1, <1>2, <2>1, <2>2, <2>3, MoveManagerInv
  <1>4. CASE Goto(c, op, "idle") /\ arg' = [arg EXCEPT ![c] = NoArg]
    <2>1. pc' = [pc EXCEPT ![c] = "idle"] /\ "idle" \in Open
      BY <1>4 DEF Goto, Open
    <2>2. QED
      BY <1>1, <1>2, <1>4, <2>1, ArgTyped, OpenManagerInv
  <1>5. QED
    BY <1>3, <1>4 DEF Enter

\* The end of a critical section: the state is written and the lock released.
LEMMA LeaveManagerInv ==
  ASSUME ManagerInv, NEW c \in CPUs, pc[c] \in Inside, NEW state \in States,
         Leave(c, state), NEW p \in Open \ {"faulting"}, pc' = [pc EXCEPT ![c] = p],
         NEW b \in Arg, arg' = [arg EXCEPT ![c] = b]
  PROVE  ManagerInv'
  <1>1. /\ services' = [services EXCEPT ![arg[c].slot].state = state]
        /\ UNCHANGED <<num_services, next_service_id, processes, next_pid, process_lock>>
    BY DEF Leave, pvars
  <1>2. ServiceType' /\ ProcessType'
    BY <1>1 DEF ManagerInv, ManagerType, ServiceType, ProcessType, Service
  <1>3. service_lock = c
    BY DEF ManagerInv, ServiceLocked
  <1>4. p \in Places /\ p \notin Inside /\ p \notin Creating /\ p # "naming"
    BY DEF Places, Open, Inside, Creating
  <1>5. QED
    BY <1>1, <1>2, <1>3, <1>4, MoveManagerInv

LEMMA ServiceStepManagerInv ==
  ASSUME ManagerInv, NEW c \in CPUs, ServiceStep(c)
  PROVE  ManagerInv'
  <1>0. services \in [SSlots -> Service] /\ arg[c] \in Arg
    BY ArgTyped DEF ManagerInv, ManagerType, ServiceType
  <1>1. CASE NameService(c) \/ ClearService(c)
    BY <1>1, NameManagerInv, ClearManagerInv
  <1>2. CASE service_start(c) \/ service_stop(c) \/ service_restart(c)
    BY <1>2, EnterManagerInv DEF service_start, service_stop, service_restart
  <1>3. CASE StartThread(c)
    <2>1. /\ pc[c] \in Inside /\ pc' = [pc EXCEPT ![c] = "idle"] /\ "idle" \in Open
          /\ arg' = [arg EXCEPT ![c] = NoArg]
      BY <1>3 DEF StartThread, Goto, Inside, Open
    <2>2. arg[c].slot \in SSlots
      BY <2>1 DEF ManagerInv, ServiceLocked
    <2>3. services[arg[c].slot].state \in States /\ "RUNNING" \in States
      BY <1>0, <2>2 DEF Service, States
    <2>4. PICK state \in States : Leave(c, state)
      BY <1>3, <2>3 DEF StartThread
    <2>5. QED
      BY <2>1, <2>4, ArgTyped, LeaveManagerInv
  <1>4. CASE StopService(c)
    <2>1. "STOPPED" \in States /\ pc[c] \in Inside /\ Leave(c, "STOPPED")
      BY <1>4 DEF StopService, Goto, Inside, States
    <2>2. PICK p \in Open \ {"faulting"}, b \in Arg :
            pc' = [pc EXCEPT ![c] = p] /\ arg' = [arg EXCEPT ![c] = b]
      <3>1. CASE Goto(c, "stopping", "idle") /\ arg' = [arg EXCEPT ![c] = NoArg]
        BY <3>1, ArgTyped DEF Goto, Open
      <3>2. CASE /\ Goto(c, "restopping", "counting")
                 /\ arg' = [arg EXCEPT ![c] = [NoArg EXCEPT !.id = arg[c].id]]
        BY <3>2, ArgTyped DEF Goto, Open
      <3>3. QED
        BY <1>4, <3>1, <3>2 DEF StopService
    <2>3. QED
      BY <2>1, <2>2, LeaveManagerInv
  <1>5. CASE FindRestarted(c) \/ service_handle_fault(c)
    <2>1. PICK p \in Open, b \in Arg :
            /\ pc' = [pc EXCEPT ![c] = p] /\ arg' = [arg EXCEPT ![c] = b]
            /\ p = "faulting" => b.slot \in SSlots
      <3>1. CASE \E s \in service_get(arg[c].id) :
                   /\ \/ pc' = [pc EXCEPT ![c] = "counted"]
                      \/ pc' = [pc EXCEPT ![c] = "faulting"]
                   /\ arg' = [arg EXCEPT ![c] = [arg[c] EXCEPT !.slot = s]]
        <4>1. PICK s \in service_get(arg[c].id) :
                /\ \/ pc' = [pc EXCEPT ![c] = "counted"]
                   \/ pc' = [pc EXCEPT ![c] = "faulting"]
                /\ arg' = [arg EXCEPT ![c] = [arg[c] EXCEPT !.slot = s]]
          BY <3>1
        <4>2. s \in SSlots /\ s \in Int
          BY FirstIsSlot
        <4>3. [arg[c] EXCEPT !.slot = s] \in Arg /\ [arg[c] EXCEPT !.slot = s].slot = s
          BY <4>2, ArgTyped
        <4>4. QED
          BY <4>1, <4>2, <4>3 DEF Open
      <3>2. CASE pc' = [pc EXCEPT ![c] = "start"] /\ UNCHANGED arg
        BY <3>2, ArgTyped DEF Open
      <3>3. CASE pc' = [pc EXCEPT ![c] = "idle"] /\ arg' = [arg EXCEPT ![c] = NoArg]
        BY <3>3, ArgTyped DEF Open
      <3>4. QED
        BY <1>5, <3>1, <3>2, <3>3 DEF FindRestarted, service_handle_fault, Goto
    <2>2. UNCHANGED <<services, num_services, next_service_id, service_lock,
                      processes, next_pid, process_lock>>
      BY <1>5 DEF FindRestarted, service_handle_fault, svars, pvars
    <2>3. ServiceType'
      BY <2>2 DEF ManagerInv, ManagerType, ServiceType
    <2>4. QED
      BY <2>1, <2>2, <2>3, OpenManagerInv
  <1>6. CASE CountRestart(c)
    <2>1. /\ pc' = [pc EXCEPT ![c] = "start"] /\ "start" \in Open
          /\ services' = [services EXCEPT ![arg[c].slot] = [services[arg[c].slot] EXCEPT
                             !.restart_count = services[arg[c].slot].restart_count + 1]]
          /\ UNCHANGED <<num_services, next_service_id, service_lock, arg,
                         processes, next_pid, process_lock>>
      BY <1>6 DEF CountRestart, Goto, Open, pvars
    <2>2. /\ services' \in [SSlots -> Service]
          /\ \A s \in SSlots : services'[s].state = services[s].state
      <3> DEFINE e == [services[arg[c].slot] EXCEPT
                         !.restart_count = services[arg[c].slot].restart_count + 1]
      <3>1. arg[c].slot \in SSlots => services[arg[c].slot] \in Service
        BY <1>0
      <3>2. arg[c].slot \in SSlots => e \in Service /\ e.state = services[arg[c].slot].state
        BY <3>1 DEF Service
      <3> HIDE DEF e
      <3>3. services' = [services EXCEPT ![arg[c].slot] = e]
        BY <2>1 DEF e
      <3>4. QED
        BY <3>2, <3>3, WriteService
    <2>3. ServiceType'
      BY <2>1, <2>2 DEF ManagerInv, ManagerType, ServiceType
    <2>4. arg' = [arg EXCEPT ![c] = arg[c]]
      BY <2>1, ArgTyped
    <2>5. \A s \in SSlots : services'[s].state \in {services[s].state, "ERROR"}
      BY <2>2
    <2>6. "start" # "faulting"
      OBVIOUS
    <2>7. QED
      BY <1>0, <2>1, <2>3, <2>4, <2>5, <2>6, OpenManagerInv
  <1>7. CASE MarkError(c)
    <2>1. /\ services' = [services EXCEPT ![arg[c].slot].state = "ERROR"]
          /\ UNCHANGED <<num_services, next_service_id, service_lock,
                         processes, next_pid, process_lock>>
      BY <1>7 DEF MarkError, pvars
    <2>2. /\ services' \in [SSlots -> Service]
          /\ \A s \in SSlots : services'[s].state \in {services[s].state, "ERROR"}
      BY <1>0, <2>1 DEF Service, States
    <2>3. ServiceType'
      BY <2>1, <2>2 DEF ManagerInv, ManagerType, ServiceType
    <2>4. CASE arg[c].slot \in SSlots
      <3>1. services[arg[c].slot].state \in States
        BY <1>0, <2>4 DEF Service
      <3>2. PICK p \in Open \ {"faulting"}, b \in Arg :
              pc' = [pc EXCEPT ![c] = p] /\ arg' = [arg EXCEPT ![c] = b]
        <4>1. \/ /\ pc' = [pc EXCEPT ![c] = "recover"]
                 /\ arg' = [arg EXCEPT ![c] = [NoArg EXCEPT !.id = arg[c].id,
                                                 !.seen = services[arg[c].slot].state]]
              \/ pc' = [pc EXCEPT ![c] = "idle"] /\ arg' = [arg EXCEPT ![c] = NoArg]
          BY <1>7 DEF MarkError, Goto
        <4>2. [NoArg EXCEPT !.id = arg[c].id, !.seen = services[arg[c].slot].state] \in Arg
          BY <3>1, ArgTyped
        <4>3. NoArg \in Arg /\ {"recover", "idle"} \subseteq Open \ {"faulting"}
          BY ArgTyped DEF Open
        <4>4. QED
          BY <4>1, <4>2, <4>3
      <3>3. QED
        BY <2>1, <2>2, <2>3, <3>2, OpenManagerInv
    <2>5. QED
      BY <1>7, <2>4 DEF ManagerInv, FaultFound, MarkError, Goto
  <1>8. CASE service_terminate(c)
    <2>1. PICK p \in Open \ {"faulting"}, b \in Arg :
            pc' = [pc EXCEPT ![c] = p] /\ arg' = [arg EXCEPT ![c] = b]
      <3>1. \/ pc' = [pc EXCEPT ![c] = "stuck"] /\ arg' = arg
            \/ pc' = [pc EXCEPT ![c] = "idle"] /\ arg' = [arg EXCEPT ![c] = NoArg]
        BY <1>8 DEF service_terminate, Goto
      <3>2. arg = [arg EXCEPT ![c] = arg[c]] /\ NoArg \in Arg
        BY ArgTyped
      <3>3. QED
        BY <1>0, <3>1, <3>2 DEF Open
    <2>2. /\ service_lock = Free
          /\ UNCHANGED <<services, num_services, next_service_id,
                         processes, next_pid, process_lock>>
      BY <1>8 DEF service_terminate, pvars
    <2>3. ServiceType'
      BY <2>2 DEF ManagerInv, ManagerType, ServiceType
    <2>4. QED
      BY <2>1, <2>2, <2>3, OpenManagerInv
  <1>9. QED
    BY <1>1, <1>2, <1>3, <1>4, <1>5, <1>6, <1>7, <1>8 DEF ServiceStep

LEMMA CreateProcessManagerInv ==
  ASSUME ManagerInv, NEW c \in CPUs, process_create(c)
  PROVE  ManagerInv'
  <1>0. process_lock = Free /\ UNCHANGED <<processes, next_pid, svars>>
    BY DEF process_create
  <1>1. ServiceType' /\ ProcessType' /\ UNCHANGED <<services, service_lock>>
    BY <1>0 DEF ManagerInv, ManagerType, ServiceType, ProcessType, svars
  <1>2. PICK s \in FreeProcessSlot, p \in FirstFit(mm, ProcPages, 1) :
          \/ /\ pc' = [pc EXCEPT ![c] = "domain"] /\ process_lock' = c
             /\ arg' = [arg EXCEPT ![c] = [arg[c] EXCEPT !.slot = s, !.page = p]]
          \/ pc[c] = "idle" /\ pc' = [pc EXCEPT ![c] = "idle"] /\ UNCHANGED <<process_lock, arg>>
    <2>1. PICK s \in FreeProcessSlot, p \in FirstFit(mm, ProcPages, 1) :
            \/ /\ Goto(c, "idle", "domain") /\ process_lock' = c
               /\ arg' = [arg EXCEPT ![c].slot = s, ![c].page = p]
            \/ Goto(c, "idle", "idle") /\ UNCHANGED <<process_lock, arg>>
      BY DEF process_create
    <2>2. [arg EXCEPT ![c].slot = s, ![c].page = p]
            = [arg EXCEPT ![c] = [arg[c] EXCEPT !.slot = s, !.page = p]]
      BY DEF ManagerInv, ManagerType
    <2>3. QED
      BY <2>1, <2>2 DEF Goto
  <1>3. CASE /\ pc' = [pc EXCEPT ![c] = "domain"] /\ process_lock' = c
             /\ arg' = [arg EXCEPT ![c] = [arg[c] EXCEPT !.slot = s, !.page = p]]
    <2>1. p \in Int
      BY MmConstants DEF FirstFit, Candidates, Available, Pages
    <2>2. /\ s \in PSlots /\ [arg[c] EXCEPT !.slot = s, !.page = p] \in Arg
          /\ [arg[c] EXCEPT !.slot = s, !.page = p].slot = s
      <3>1. s \in PSlots /\ s \in Int
        BY FirstIsSlot
      <3>2. QED
        BY <2>1, <3>1, ArgTyped
    <2>3. "domain" \in Places /\ "domain" \notin Inside
      BY DEF Places, Creating, Inside
    <2>4. QED
      BY <1>0, <1>1, <1>3, <2>2, <2>3, MoveManagerInv
  <1>4. CASE pc' = [pc EXCEPT ![c] = "idle"] /\ UNCHANGED <<process_lock, arg>>
    <2>1. "idle" \in Open /\ arg[c] \in Arg /\ arg' = [arg EXCEPT ![c] = arg[c]]
      BY <1>4, ArgTyped DEF Open
    <2>2. QED
      BY <1>0, <1>1, <1>4, <2>1, OpenManagerInv
  <1>5. QED
    BY <1>2, <1>3, <1>4

\* A step of a creation that goes on, or ends and gives the lock back.
LEMMA CreatingManagerInv ==
  ASSUME ManagerInv, NEW c \in CPUs, pc[c] \in Creating, NEW p \in Creating \cup {"idle"},
         pc' = [pc EXCEPT ![c] = p], NEW b \in Arg, arg' = [arg EXCEPT ![c] = b],
         p # "idle" => UNCHANGED process_lock /\ b.slot = arg[c].slot,
         UNCHANGED svars, ProcessType'
  PROVE  ManagerInv'
  <1>1. process_lock = c /\ arg[c].slot \in PSlots
    BY DEF ManagerInv, ProcessLocked
  <1>2. ServiceType' /\ UNCHANGED <<services, service_lock>>
    BY DEF ManagerInv, ManagerType, ServiceType, svars
  <1>3. p \in Places /\ p \notin Inside /\ p \notin {"naming", "faulting"}
        /\ (p \in Creating => p # "idle")
    BY DEF Places, Open, Inside, Creating
  <1>4. QED
    BY <1>1, <1>2, <1>3, MoveManagerInv

LEMMA ProcessStepManagerInv ==
  ASSUME ManagerInv, DomainInv, NEW c \in CPUs, ProcessStep(c)
  PROVE  ManagerInv'
  <1>0. UNCHANGED svars
    BY DEF ProcessStep, CreateDomain, CreateTables, WritePid, WriteNew, MarkTerminated
  <1>1. CASE CreateDomain(c)
    <2>1. UNCHANGED <<processes, next_pid>> /\ pc[c] = "domain"
      BY <1>1 DEF CreateDomain, Unwind, Goto
    <2>2. ProcessType'
      BY <2>1 DEF ManagerInv, ManagerType, ProcessType
    <2>3. /\ [arg[c] EXCEPT !.id = next_domain_id] \in Arg
          /\ [arg[c] EXCEPT !.id = next_domain_id].slot = arg[c].slot
          /\ NoArg \in Arg
      <3>1. next_domain_id \in Int /\ arg[c] \in Arg /\ NoArg \in Arg
        BY ArgTyped DEF DomainInv
      <3>2. QED
        BY <3>1 DEF Arg
    <2>4. PICK p \in Creating \cup {"idle"}, b \in Arg :
            /\ pc' = [pc EXCEPT ![c] = p] /\ arg' = [arg EXCEPT ![c] = b]
            /\ p # "idle" => UNCHANGED process_lock /\ b.slot = arg[c].slot
      <3>1. \/ /\ pc' = [pc EXCEPT ![c] = "tables"] /\ UNCHANGED process_lock
               /\ arg' = [arg EXCEPT ![c] = [arg[c] EXCEPT !.id = next_domain_id]]
            \/ pc' = [pc EXCEPT ![c] = "idle"] /\ arg' = [arg EXCEPT ![c] = NoArg]
        BY <1>1 DEF CreateDomain, Unwind, Goto
      <3>2. QED
        BY <2>3, <3>1 DEF Creating
    <2>5. QED
      BY <1>0, <2>1, <2>2, <2>4, CreatingManagerInv DEF Creating
  <1>2. CASE CreateTables(c)
    <2>1. UNCHANGED <<processes, next_pid>> /\ pc[c] = "tables"
      BY <1>2 DEF CreateTables
    <2>2. ProcessType'
      BY <2>1 DEF ManagerInv, ManagerType, ProcessType
    <2>3. \/ Goto(c, "tables", "pid") /\ UNCHANGED <<arg, process_lock>>
          \/ Goto(c, "tables", "idle") /\ arg' = [arg EXCEPT ![c] = NoArg]
      BY <1>2 DEF CreateTables, TablesFail, Unwind
    <2>4. PICK p \in Creating \cup {"idle"}, b \in Arg :
            /\ pc' = [pc EXCEPT ![c] = p] /\ arg' = [arg EXCEPT ![c] = b]
            /\ p # "idle" => UNCHANGED process_lock /\ b.slot = arg[c].slot
      <3>1. arg = [arg EXCEPT ![c] = arg[c]] /\ arg[c] \in Arg /\ NoArg \in Arg
        BY ArgTyped
      <3>2. QED
        BY <2>3, <3>1 DEF Goto, Creating
    <2>5. QED
      BY <1>0, <2>1, <2>2, <2>4, CreatingManagerInv DEF Creating
  <1>3. CASE WritePid(c)
    <2>1. /\ pc[c] = "pid" /\ pc' = [pc EXCEPT ![c] = "new"] /\ UNCHANGED <<arg, process_lock>>
          /\ processes' = [processes EXCEPT ![arg[c].slot] =
                              [processes[arg[c].slot] EXCEPT !.process_id = next_pid]]
          /\ next_pid' = next_pid + 1
      BY <1>3 DEF WritePid, Goto
    <2>2. ProcessType'
      <3>1. /\ next_pid \in Int
            /\ arg[c].slot \in PSlots => processes[arg[c].slot] \in Process
        BY DEF ManagerInv, ManagerType, ProcessType
      <3>2. arg[c].slot \in PSlots
            => [processes[arg[c].slot] EXCEPT !.process_id = next_pid] \in Process
        BY <3>1 DEF Process
      <3>3. processes' \in [PSlots -> Process]
        BY <2>1, <3>2, WriteProcess
      <3>4. QED
        BY <2>1, <3>1, <3>3 DEF ProcessType
    <2>3. arg[c] \in Arg /\ arg' = [arg EXCEPT ![c] = arg[c]]
      BY <2>1, ArgTyped
    <2>4. pc[c] \in Creating /\ "new" \in Creating \cup {"idle"}
      BY <2>1 DEF Creating
    <2>5. QED
      BY <1>0, <2>1, <2>2, <2>3, <2>4, CreatingManagerInv
  <1>4. CASE WriteNew(c)
    <2>1. /\ pc[c] = "new" /\ pc' = [pc EXCEPT ![c] = "idle"]
          /\ arg' = [arg EXCEPT ![c] = NoArg]
          /\ processes' = [processes EXCEPT ![arg[c].slot].state = "NEW"]
          /\ UNCHANGED next_pid
      BY <1>4 DEF WriteNew, Goto
    <2>2. ProcessType'
      BY <2>1 DEF ManagerInv, ManagerType, ProcessType, Process
    <2>3. pc[c] \in Creating /\ "idle" \in Creating \cup {"idle"} /\ NoArg \in Arg
      BY <2>1, ArgTyped DEF Creating
    <2>4. QED
      BY <1>0, <2>1, <2>2, <2>3, CreatingManagerInv
  <1>5. CASE MarkTerminated(c)
    <2>1. /\ pc' = [pc EXCEPT ![c] = "idle"] /\ arg' = [arg EXCEPT ![c] = NoArg]
          /\ processes' = [processes EXCEPT ![arg[c].slot].state = "TERMINATED"]
          /\ UNCHANGED <<next_pid, process_lock>>
      BY <1>5 DEF MarkTerminated, Goto
    <2>2. ProcessType'
      BY <2>1 DEF ManagerInv, ManagerType, ProcessType, Process
    <2>3. ServiceType' /\ UNCHANGED <<services, service_lock>>
      BY <1>0 DEF ManagerInv, ManagerType, ServiceType, svars
    <2>4. "idle" \in Places /\ "idle" \notin Inside \cup Creating /\ NoArg \in Arg
      BY ArgTyped DEF Places, Open, Inside, Creating
    <2>5. QED
      BY <2>1, <2>2, <2>3, <2>4, MoveManagerInv
  <1>6. QED
    BY <1>1, <1>2, <1>3, <1>4, <1>5 DEF ProcessStep

LEMMA BeginManagerInv ==
  ASSUME ManagerInv, NEW c \in CPUs,
         \/ process_exit(c)
         \/ \E op \in {"start", "stop", "restart", "fault", "terminate"},
               id \in 0 .. num_services : BeginService(c, op, id)
  PROVE  ManagerInv'
  <1>1. UNCHANGED <<svars, pvars>>
    BY DEF process_exit, BeginService
  <1>2. /\ ServiceType'
        /\ UNCHANGED <<services, service_lock, processes, next_pid, process_lock>>
    BY <1>1 DEF ManagerInv, ManagerType, ServiceType, svars, pvars
  <1>3. PICK p \in Open \ {"faulting"}, b \in Arg :
          pc' = [pc EXCEPT ![c] = p] /\ arg' = [arg EXCEPT ![c] = b]
    <2>1. CASE process_exit(c)
      <3>1. PICK s \in PSlots : arg' = [arg EXCEPT ![c] = [arg[c] EXCEPT !.slot = s]]
        BY <2>1 DEF process_exit, First
      <3>2. QED
        BY <2>1, <3>1, FirstIsSlot, ArgTyped DEF process_exit, Goto, Open
    <2>2. CASE \E op \in {"start", "stop", "restart", "fault", "terminate"},
                  id \in 0 .. num_services : BeginService(c, op, id)
      <3>1. \A id \in 0 .. num_services : id \in Int
        BY DEF ManagerInv, ManagerType, ServiceType
      <3>2. QED
        BY <2>2, <3>1, ArgTyped DEF BeginService, Goto, Open
    <2>3. QED
      BY <2>1, <2>2
  <1>4. QED
    BY <1>2, <1>3, OpenManagerInv

\* Domains are numbered upwards.
LEMMA DomainIds == Spec => []DomainInv
  <1>1. Init => DomainInv
    BY DEF Init, DomainInv
  <1>2. ASSUME NEW c \in CPUs, Begin(c) \/ Step(c)
        PROVE  next_domain_id' \in {next_domain_id, next_domain_id + 1}
    <2>1. CASE Begin(c)
      BY <2>1 DEF Begin, service_create, NewDomain, BeginService, process_create,
                  process_exit, dvars
    <2>2. CASE ServiceStep(c)
      BY <2>2 DEF ServiceStep, NameService, ClearService, service_start, service_stop,
                  service_restart, Enter, StartThread, StopService, Leave, FindRestarted,
                  CountRestart, service_handle_fault, MarkError, service_terminate, dvars
    <2>3. CASE ProcessStep(c)
      BY <2>3 DEF ProcessStep, CreateDomain, NewDomain, CreateTables, TablesFail, WritePid,
                  WriteNew, MarkTerminated, dvars
    <2>4. QED
      BY <1>2, <2>1, <2>2, <2>3 DEF Step, dvars
  <1>3. DomainInv /\ [Next]_vars => DomainInv'
    BY <1>2 DEF Next, vars, dvars, DomainInv
  <1>4. QED
    BY <1>1, <1>3, PTL DEF Spec

LEMMA NextManagerInv ==
  ManagerInv /\ DomainInv /\ [Next]_vars => ManagerInv'
  <1> SUFFICES ASSUME ManagerInv, DomainInv, [Next]_vars PROVE ManagerInv'
    OBVIOUS
  <1>1. CASE UNCHANGED vars
    BY <1>1 DEF vars, svars, pvars, ManagerInv, ManagerType, ServiceType, ProcessType,
                ServiceLocked, ProcessLocked, SlotUnstarted, FaultFound
  <1>2. ASSUME NEW c \in CPUs, Begin(c) PROVE ManagerInv'
    BY <1>2, CreateServiceManagerInv, CreateProcessManagerInv, BeginManagerInv, IrqManagerInv
       DEF Begin
  <1>3. ASSUME NEW c \in CPUs, Step(c) PROVE ManagerInv'
    BY <1>3, ServiceStepManagerInv, ProcessStepManagerInv, IrqManagerInv DEF Step
  <1>4. QED
    BY <1>1, <1>2, <1>3 DEF Next

\* ManagerInv holds throughout: the types of the two tables, and what a CPU has
\* found and holds between the test of a state and the writes.
THEOREM ManagersStaySound == Spec => []ManagerInv
  BY InitManagerInv, NextManagerInv, DomainIds, PTL DEF Spec

\* What one step does to the services: the id of a slot that is not STOPPED
\* stays, unless the service has failed and a creation had found the slot.
Kept ==
  \A s \in SSlots :
    services[s].state # "STOPPED" /\ services'[s].service_id # services[s].service_id
    => /\ services[s].state = "ERROR"
       /\ \E c \in CPUs : pc[c] = "naming" /\ arg[c].slot = s

LEMMA StepKept == ManagerInv /\ [Next]_vars => Kept
  <1> SUFFICES ASSUME ManagerInv, [Next]_vars PROVE Kept
    OBVIOUS
  <1>0. services \in [SSlots -> Service]
    BY DEF ManagerInv, ManagerType, ServiceType
  <1>1. CASE UNCHANGED services
    BY <1>1 DEF Kept
  <1>2. ASSUME NEW c \in CPUs, NameService(c) PROVE Kept
    <2>1. /\ pc[c] = "naming"
          /\ services' = [services EXCEPT ![arg[c].slot].service_id = next_service_id]
      BY <1>2 DEF NameService, Goto
    <2>2. services[arg[c].slot].state \in {"STOPPED", "ERROR"}
      BY <2>1 DEF ManagerInv, SlotUnstarted
    <2>3. \A s \in SSlots : s # arg[c].slot => services'[s] = services[s]
      BY <1>0, <2>1
    <2>4. QED
      BY <2>1, <2>2, <2>3 DEF Kept
  <1>3. ASSUME NEW c \in CPUs,
               \/ ClearService(c) \/ StartThread(c) \/ StopService(c)
               \/ CountRestart(c) \/ MarkError(c)
        PROVE  Kept
    <2>1. \A s \in SSlots : services'[s].service_id = services[s].service_id
      <3>1. ASSUME NEW u, NEW f, services' = [services EXCEPT ![u] = f],
                   u \in SSlots => f.service_id = services[u].service_id
            PROVE  \A s \in SSlots : services'[s].service_id = services[s].service_id
        BY <1>0, <3>1
      <3>2. \A s \in SSlots : services[s] \in Service
        BY <1>0
      <3>3. CASE ClearService(c)
        <4>1. services' = [services EXCEPT ![arg[c].slot] = Cleared(services[arg[c].slot])]
          BY <3>3, ClearIsOneWrite DEF ClearService
        <4>2. QED
          BY <3>1, <3>2, <4>1, ClearedService
      <3>4. CASE StartThread(c) \/ StopService(c) \/ MarkError(c)
        <4>1. PICK st : services' = [services EXCEPT ![arg[c].slot].state = st]
          BY <3>4 DEF StartThread, StopService, MarkError, Leave
        <4>2. QED
          BY <1>0, <4>1 DEF Service
      <3>5. CASE CountRestart(c)
        BY <1>0, <3>5 DEF CountRestart, Service
      <3>6. QED
        BY <1>3, <3>3, <3>4, <3>5
    <2>2. QED
      BY <2>1 DEF Kept
  <1>4. ASSUME NEW c \in CPUs, Begin(c) PROVE Kept
    <2>1. UNCHANGED services
      BY <1>4 DEF Begin, service_create, BeginService, process_create, process_exit, svars
    <2>2. QED
      BY <1>1, <2>1
  <1>5. ASSUME NEW c \in CPUs, Step(c) PROVE Kept
    <2>1. CASE \/ NameService(c) \/ ClearService(c) \/ StartThread(c) \/ StopService(c)
               \/ CountRestart(c) \/ MarkError(c)
      BY <1>2, <1>3, <2>1
    <2>2. CASE \/ service_start(c) \/ service_stop(c) \/ service_restart(c)
               \/ FindRestarted(c) \/ service_handle_fault(c) \/ service_terminate(c)
               \/ ProcessStep(c) \/ UNCHANGED svars
      <3>1. UNCHANGED services
        BY <2>2 DEF service_start, service_stop, service_restart, Enter, FindRestarted,
                    service_handle_fault, service_terminate, ProcessStep, CreateDomain,
                    CreateTables, WritePid, WriteNew, MarkTerminated, svars
      <3>2. QED
        BY <1>1, <3>1
    <2>3. QED
      BY <1>5, <2>1, <2>2 DEF Step, ServiceStep
  <1>6. CASE UNCHANGED vars
    <2>1. UNCHANGED services
      BY <1>6 DEF vars, svars
    <2>2. QED
      BY <1>1, <2>1
  <1>7. QED
    BY <1>4, <1>5, <1>6 DEF Next

\* A service that is RUNNING is never replaced by service_create, although the
\* fault handler and the restart write the fields without the lock, and a
\* failed one only by a creation that had found its slot before the fault.
THEOREM ServicesStayKept == Spec => ActiveServiceKept
  <1>1. ManagerInv /\ [Next]_vars =>
          [\A s \in SSlots :
             /\ services[s].state # "STOPPED"
             /\ services'[s].service_id # services[s].service_id
             => /\ services[s].state = "ERROR"
                /\ \E c \in CPUs : pc[c] = "naming" /\ arg[c].slot = s]_vars
    BY StepKept DEF Kept
  <1>2. QED
    BY <1>1, ManagersStaySound, PTL DEF Spec, ActiveServiceKept

-----------------------------------------------------------------------------
(* Interrupt routing and dispatch. *)

Types == {"CORE0", "SERVICE", "APPLICATION"}
Entry == [type: Types, capability_id: Nat, flags: SUBSET {"ENABLED", "MASKED"}]
Target == [vector: Vectors \cup {0}, type: Types, capability_id: Nat]
Dispatcher == [at: {"idle", "masked", "type", "check", "done"}, vector: Vectors \cup {0},
               type: Types, capability_id: Nat, overlapped: BOOLEAN]

IrqType ==
  /\ pc \in [CPUs -> Places]
  /\ entries \in [Vectors -> Entry]
  /\ routing \in [CPUs -> Target]
  /\ dispatch \in [CPUs -> Dispatcher]
  /\ routed \in [Vectors -> SUBSET [type: Types, capability_id: Nat]]

\* A CPU inside a call on the table holds the lock alone.
IrqLocked ==
  \A c \in CPUs : pc[c] \in LockedPlaces => irq_lock = {c} /\ routing[c].vector \in Vectors

\* Between its two writes to flags a call has made the other flag redundant.
FlagsCovered ==
  \A c \in CPUs :
    /\ pc[c] = "unmask" => "ENABLED" \in entries[routing[c].vector].flags
    /\ pc[c] = "disable" => "MASKED" \in entries[routing[c].vector].flags

\* What a routing call writes is a route of the vector, and between its two
\* writes the type is the new one.
WritesRoute ==
  \A c \in CPUs :
    /\ pc[c] \in RoutePlaces =>
         [type |-> routing[c].type, capability_id |-> routing[c].capability_id]
           \in routed[routing[c].vector]
    /\ pc[c] = "capability" => entries[routing[c].vector].type = routing[c].type

\* An entry that is not being written is one route.
EntryWhole ==
  \A v \in Vectors :
    (\A c \in CPUs : pc[c] = "capability" => routing[c].vector # v)
    => [type |-> entries[v].type, capability_id |-> entries[v].capability_id] \in routed[v]

\* What a dispatcher has read is current, unless a write overlapped it.
ReadsCurrent ==
  \A c \in CPUs :
    LET d == dispatch[c] IN
    d.at # "idle" =>
      /\ d.vector \in Vectors
      /\ ~d.overlapped =>
           /\ \A k \in CPUs : pc[k] = "capability" => routing[k].vector # d.vector
           /\ d.at = "check" => d.type = entries[d.vector].type

IrqInv ==
  /\ IrqType /\ IrqLocked /\ FlagsCovered /\ UnmaskedIsEnabled
  /\ WritesRoute /\ EntryWhole /\ ReadsCurrent /\ DispatchIsOneRoute

LEMMA InitIrqInv == Init => IrqInv
  <1> SUFFICES ASSUME Init PROVE IrqInv
    OBVIOUS
  <1>1. IrqType
    BY DEF Init, irq_init, IrqType, Places, Open, Entry, Target, Dispatcher, Types, NoRouting,
           NoDispatch, Core0Route
  <1>2. IrqLocked /\ FlagsCovered /\ WritesRoute /\ ReadsCurrent /\ DispatchIsOneRoute
    BY DEF Init, irq_init, IrqLocked, FlagsCovered, WritesRoute, ReadsCurrent,
           DispatchIsOneRoute, LockedPlaces, RoutePlaces, NoDispatch
  <1>3. UnmaskedIsEnabled /\ EntryWhole
    BY DEF Init, irq_init, UnmaskedIsEnabled, EntryWhole, Core0Route
  <1>4. QED
    BY <1>1, <1>2, <1>3 DEF IrqInv

\* Steps of the managers.
LEMMA OtherIrqInv ==
  ASSUME IrqInv, NEW c \in CPUs, UNCHANGED ivars, pc[c] \notin LockedPlaces,
         NEW p \in Places \ LockedPlaces, pc' = [pc EXCEPT ![c] = p]
  PROVE  IrqInv'
  <1>1. UNCHANGED <<entries, irq_lock, routing, dispatch, routed>>
    BY DEF ivars
  <1>2. IrqType'
    BY <1>1 DEF IrqInv, IrqType
  <1>3. \A k \in CPUs : pc'[k] \in LockedPlaces => pc'[k] = pc[k]
    BY DEF IrqInv, IrqType
  <1>4. \A k \in CPUs : /\ pc'[k] \in RoutePlaces => pc'[k] = pc[k]
                        /\ pc'[k] = "capability" <=> pc[k] = "capability"
                        /\ pc'[k] \in {"unmask", "disable"} => pc'[k] = pc[k]
    BY <1>3 DEF IrqInv, IrqType, LockedPlaces, RoutePlaces
  <1>5. IrqLocked' /\ FlagsCovered' /\ WritesRoute'
    BY <1>1, <1>3, <1>4 DEF IrqInv, IrqLocked, FlagsCovered, WritesRoute
  <1>6. UnmaskedIsEnabled' /\ DispatchIsOneRoute'
    BY <1>1 DEF IrqInv, UnmaskedIsEnabled, DispatchIsOneRoute
  <1>7. EntryWhole'
    BY <1>1, <1>4 DEF IrqInv, EntryWhole
  <1>8. ReadsCurrent'
    BY <1>1, <1>4 DEF IrqInv, ReadsCurrent
  <1>9. QED
    BY <1>2, <1>5, <1>6, <1>7, <1>8 DEF IrqInv

LEMMA RouteIrqInv ==
  ASSUME IrqInv, NEW c \in CPUs, NEW v \in Vectors, NEW r \in Routes, irq_route(c, v, r)
  PROVE  IrqInv'
  <1> DEFINE new == [type |-> r.type, capability_id |-> r.capability_id]
  <1>1. /\ pc[c] = "idle" /\ pc' = [pc EXCEPT ![c] = "type"]
        /\ irq_lock = {} /\ irq_lock' = {c}
        /\ routing' = [routing EXCEPT ![c] = [vector |-> v, type |-> r.type,
                                              capability_id |-> r.capability_id]]
        /\ routed' = [routed EXCEPT ![v] = @ \cup {r}]
        /\ UNCHANGED <<entries, dispatch>>
    BY DEF irq_route, Goto, TakeIrqLock
  <1>2. r \in [type: Types, capability_id: Nat] /\ new = r
    BY IrqConstants DEF Types
  <1>3. IrqType'
    BY <1>1, <1>2 DEF IrqInv, IrqType, Places, Open, LockedPlaces, RoutePlaces, Target
  <1>4. \A k \in CPUs : pc[k] \notin LockedPlaces
    BY <1>1 DEF IrqInv, IrqLocked
  <1>5. \A k \in CPUs : /\ k # c => pc'[k] \notin LockedPlaces
                        /\ pc'[k] \notin {"capability", "unmask", "disable"}
                        /\ pc[k] # "capability"
    BY <1>1, <1>4 DEF IrqInv, IrqType, LockedPlaces, RoutePlaces
  <1>6. routing'[c].vector = v /\ routing'[c].type = r.type
        /\ routing'[c].capability_id = r.capability_id
    BY <1>1 DEF IrqInv, IrqType
  <1>7. IrqLocked' /\ FlagsCovered'
    BY <1>1, <1>5, <1>6 DEF IrqLocked, FlagsCovered
  <1>8. \A u \in Vectors : routed[u] \subseteq routed'[u]
    BY <1>1 DEF IrqInv, IrqType
  <1>9. r \in routed'[v]
    BY <1>1 DEF IrqInv, IrqType
  <1>10. WritesRoute'
    BY <1>2, <1>5, <1>6, <1>9 DEF WritesRoute, LockedPlaces
  <1>11. UnmaskedIsEnabled' /\ EntryWhole'
    BY <1>1, <1>5, <1>8 DEF IrqInv, UnmaskedIsEnabled, EntryWhole
  <1>12. ReadsCurrent'
    BY <1>1, <1>5 DEF IrqInv, ReadsCurrent
  <1>13. DispatchIsOneRoute'
    BY <1>1, <1>8 DEF IrqInv, DispatchIsOneRoute, ReadsCurrent
  <1>14. QED
    BY <1>3, <1>7, <1>10, <1>11, <1>12, <1>13 DEF IrqInv

\* A write to an entry marks the dispatchers that read it.
LEMMA SetEntryDispatch ==
  ASSUME IrqInv, NEW v \in Vectors, NEW e \in Entry, SetEntry(v, e)
  PROVE  /\ dispatch' \in [CPUs -> Dispatcher] /\ entries' \in [Vectors -> Entry]
         /\ entries'[v] = e /\ \A u \in Vectors : u # v => entries'[u] = entries[u]
         /\ \A c \in CPUs :
              /\ dispatch'[c].at = dispatch[c].at /\ dispatch'[c].vector = dispatch[c].vector
              /\ dispatch'[c].type = dispatch[c].type
              /\ dispatch'[c].capability_id = dispatch[c].capability_id
              /\ ~dispatch'[c].overlapped =>
                   ~dispatch[c].overlapped /\ (dispatch[c].at = "idle" \/ dispatch[c].vector # v)
  <1>1. /\ entries' = [entries EXCEPT ![v] = e]
        /\ dispatch' = [c \in CPUs |->
             IF dispatch[c].at # "idle" /\ dispatch[c].vector = v
             THEN [dispatch[c] EXCEPT !.overlapped = TRUE] ELSE dispatch[c]]
    BY DEF SetEntry
  <1>2. /\ entries' \in [Vectors -> Entry] /\ entries'[v] = e
        /\ \A u \in Vectors : u # v => entries'[u] = entries[u]
    BY <1>1 DEF IrqInv, IrqType
  <1>3. ASSUME NEW c \in CPUs
        PROVE  /\ dispatch'[c] \in Dispatcher
               /\ dispatch'[c].at = dispatch[c].at /\ dispatch'[c].vector = dispatch[c].vector
               /\ dispatch'[c].type = dispatch[c].type
               /\ dispatch'[c].capability_id = dispatch[c].capability_id
               /\ ~dispatch'[c].overlapped =>
                    ~dispatch[c].overlapped /\ (dispatch[c].at = "idle" \/ dispatch[c].vector # v)
    <2>1. dispatch[c] \in Dispatcher
      BY DEF IrqInv, IrqType
    <2>2. CASE dispatch[c].at # "idle" /\ dispatch[c].vector = v
      <3>1. dispatch'[c] = [dispatch[c] EXCEPT !.overlapped = TRUE]
        BY <1>1, <2>2
      <3>2. QED
        BY <2>1, <3>1 DEF Dispatcher
    <2>3. CASE ~(dispatch[c].at # "idle" /\ dispatch[c].vector = v)
      <3>1. dispatch'[c] = dispatch[c]
        BY <1>1, <2>3
      <3>2. QED
        BY <2>1, <2>3, <3>1
    <2>4. QED
      BY <2>2, <2>3
  <1>4. dispatch' \in [CPUs -> Dispatcher]
    BY <1>1, <1>3
  <1>5. QED
    BY <1>2, <1>3, <1>4

LEMMA RouteTypeIrqInv ==
  ASSUME IrqInv, NEW c \in CPUs, RouteType(c)
  PROVE  IrqInv'
  <1> DEFINE r == routing[c]
             v == r.vector
             e == [entries[v] EXCEPT !.type = r.type]
  <1>1. /\ pc[c] = "type" /\ pc' = [pc EXCEPT ![c] = "capability"]
        /\ SetEntry(v, e) /\ UNCHANGED <<irq_lock, routing, routed>>
    BY DEF RouteType, Goto
  <1>2. pc[c] \in LockedPlaces /\ pc[c] \in RoutePlaces
    BY <1>1 DEF LockedPlaces, RoutePlaces
  <1>3. irq_lock = {c} /\ v \in Vectors /\ r \in Target
    BY <1>2 DEF IrqInv, IrqLocked, IrqType
  <1>4. e \in Entry /\ e.type = r.type /\ e.flags = entries[v].flags
        /\ e.capability_id = entries[v].capability_id
    BY <1>3 DEF IrqInv, IrqType, Entry, Target
  <1>5. \A k \in CPUs : k # c => pc[k] \notin LockedPlaces
    BY <1>3 DEF IrqInv, IrqLocked
  <1>6. /\ pc'[c] = "capability" /\ \A k \in CPUs : k # c => pc'[k] = pc[k]
    BY <1>1 DEF IrqInv, IrqType
  <1> HIDE DEF r, v, e
  <1>7. /\ dispatch' \in [CPUs -> Dispatcher] /\ entries' \in [Vectors -> Entry]
        /\ entries'[v] = e /\ \A u \in Vectors : u # v => entries'[u] = entries[u]
        /\ \A k \in CPUs :
             /\ dispatch'[k].at = dispatch[k].at /\ dispatch'[k].vector = dispatch[k].vector
             /\ dispatch'[k].type = dispatch[k].type
             /\ dispatch'[k].capability_id = dispatch[k].capability_id
             /\ ~dispatch'[k].overlapped =>
                  ~dispatch[k].overlapped /\ (dispatch[k].at = "idle" \/ dispatch[k].vector # v)
    BY <1>1, <1>3, <1>4, SetEntryDispatch
  <1>8. IrqType'
    BY <1>1, <1>7 DEF IrqInv, IrqType, Places, Open, LockedPlaces, RoutePlaces
  <1>9. IrqLocked'
    BY <1>1, <1>3, <1>5, <1>6 DEF IrqLocked, r, v
  <1>10. \A k \in CPUs : k # c => pc'[k] \notin {"type", "capability", "unmask", "disable"}
    BY <1>5, <1>6 DEF LockedPlaces, RoutePlaces
  <1>11. FlagsCovered'
    BY <1>6, <1>10 DEF FlagsCovered
  <1>12. WritesRoute'
    <2>1. [type |-> r.type, capability_id |-> r.capability_id] \in routed[v]
      BY <1>2 DEF IrqInv, WritesRoute, r, v
    <2>2. routing'[c] = r /\ routing'[c].vector = v
      BY <1>1 DEF r, v
    <2>3. QED
      BY <1>1, <1>4, <1>6, <1>7, <1>10, <2>1, <2>2 DEF WritesRoute, RoutePlaces
  <1>13. UnmaskedIsEnabled'
    BY <1>3, <1>4, <1>7 DEF IrqInv, UnmaskedIsEnabled
  <1>14. EntryWhole'
    <2>1. SUFFICES ASSUME NEW u \in Vectors,
                          \A k \in CPUs : pc'[k] = "capability" => routing'[k].vector # u
                   PROVE  [type |-> entries'[u].type,
                           capability_id |-> entries'[u].capability_id] \in routed'[u]
      BY DEF EntryWhole
    <2>2. u # v
      BY <1>1, <1>6, <2>1 DEF r, v
    <2>3. \A k \in CPUs : pc[k] # "capability"
      BY <1>1, <1>6, <1>10
    <2>4. QED
      BY <1>1, <1>7, <2>2, <2>3 DEF IrqInv, EntryWhole
  <1>15. ReadsCurrent'
    <2>1. SUFFICES ASSUME NEW k \in CPUs, dispatch'[k].at # "idle"
                   PROVE  /\ dispatch'[k].vector \in Vectors
                          /\ ~dispatch'[k].overlapped =>
                               /\ \A j \in CPUs : pc'[j] = "capability"
                                                  => routing'[j].vector # dispatch'[k].vector
                               /\ dispatch'[k].at = "check"
                                  => dispatch'[k].type = entries'[dispatch'[k].vector].type
      BY DEF ReadsCurrent
    <2>2. dispatch[k].at # "idle" /\ dispatch[k].vector \in Vectors
          /\ dispatch'[k].vector = dispatch[k].vector
      BY <1>7, <2>1 DEF IrqInv, ReadsCurrent
    <2>3. ASSUME ~dispatch'[k].overlapped
          PROVE  /\ dispatch[k].vector # v
                 /\ dispatch[k].at = "check" => dispatch[k].type = entries[dispatch[k].vector].type
      BY <1>7, <2>2, <2>3 DEF IrqInv, ReadsCurrent
    <2>4. \A j \in CPUs : pc'[j] = "capability" => routing'[j].vector = v
      BY <1>1, <1>6, <1>10 DEF r, v
    <2>5. QED
      BY <1>7, <2>2, <2>3, <2>4
  <1>16. DispatchIsOneRoute'
    BY <1>1, <1>7 DEF IrqInv, DispatchIsOneRoute
  <1>17. QED
    BY <1>8, <1>9, <1>11, <1>12, <1>13, <1>14, <1>15, <1>16 DEF IrqInv

\* The last write of a call and its unlock.  The entry is whole again.
LEMMA FinishIrqInv ==
  ASSUME IrqInv, NEW c \in CPUs, pc[c] \in LockedPlaces, pc' = [pc EXCEPT ![c] = "idle"],
         NEW e \in Entry, SetEntry(routing[c].vector, e),
         irq_lock' = irq_lock \ {c}, routing' = [routing EXCEPT ![c] = NoRouting],
         UNCHANGED routed,
         "MASKED" \notin e.flags => "ENABLED" \in e.flags,
         [type |-> e.type, capability_id |-> e.capability_id] \in routed[routing[c].vector]
  PROVE  IrqInv'
  <1> DEFINE v == routing[c].vector
  <1>1. irq_lock = {c} /\ v \in Vectors
    BY DEF IrqInv, IrqLocked
  <1>2. \A k \in CPUs : k # c => pc[k] \notin LockedPlaces
    BY <1>1 DEF IrqInv, IrqLocked
  <1>3. \A k \in CPUs : pc'[k] \notin {"type", "capability", "unmask", "disable"}
    BY <1>2 DEF IrqInv, IrqType, LockedPlaces, RoutePlaces
  <1>4. /\ dispatch' \in [CPUs -> Dispatcher] /\ entries' \in [Vectors -> Entry]
        /\ entries'[v] = e /\ \A u \in Vectors : u # v => entries'[u] = entries[u]
        /\ \A k \in CPUs :
             /\ dispatch'[k].at = dispatch[k].at /\ dispatch'[k].vector = dispatch[k].vector
             /\ dispatch'[k].type = dispatch[k].type
             /\ dispatch'[k].capability_id = dispatch[k].capability_id
             /\ ~dispatch'[k].overlapped =>
                  ~dispatch[k].overlapped /\ (dispatch[k].at = "idle" \/ dispatch[k].vector # v)
    BY <1>1, SetEntryDispatch
  <1>5. IrqType'
    <2>1. NoRouting \in Target
      BY DEF NoRouting, Target, Types
    <2>2. QED
      BY <1>4, <2>1 DEF IrqInv, IrqType, Places, Open, LockedPlaces, RoutePlaces
  <1>6. IrqLocked' /\ FlagsCovered' /\ WritesRoute'
    BY <1>3 DEF IrqLocked, FlagsCovered, WritesRoute, LockedPlaces, RoutePlaces
  <1>7. UnmaskedIsEnabled'
    BY <1>4 DEF IrqInv, UnmaskedIsEnabled
  <1>8. EntryWhole'
    <2>1. SUFFICES ASSUME NEW u \in Vectors
                   PROVE  [type |-> entries'[u].type,
                           capability_id |-> entries'[u].capability_id] \in routed[u]
      BY DEF EntryWhole
    <2>2. CASE u = v
      BY <1>4, <2>2
    <2>3. CASE u # v
      <3>1. \A k \in CPUs : pc[k] = "capability" => routing[k].vector # u
        BY <1>2, <2>3 DEF LockedPlaces, RoutePlaces
      <3>2. QED
        BY <1>4, <2>3, <3>1 DEF IrqInv, EntryWhole
    <2>4. QED
      BY <2>2, <2>3
  <1>9. ReadsCurrent'
    <2>1. SUFFICES ASSUME NEW k \in CPUs, dispatch'[k].at # "idle"
                   PROVE  /\ dispatch'[k].vector \in Vectors
                          /\ ~dispatch'[k].overlapped =>
                               (dispatch'[k].at = "check"
                                  => dispatch'[k].type = entries'[dispatch'[k].vector].type)
      BY <1>3 DEF ReadsCurrent
    <2>2. dispatch[k].at # "idle" /\ dispatch[k].vector \in Vectors
          /\ dispatch'[k].vector = dispatch[k].vector
      BY <1>4, <2>1 DEF IrqInv, ReadsCurrent
    <2>3. ASSUME ~dispatch'[k].overlapped
          PROVE  /\ dispatch[k].vector # v
                 /\ dispatch[k].at = "check" => dispatch[k].type = entries[dispatch[k].vector].type
      BY <1>4, <2>2, <2>3 DEF IrqInv, ReadsCurrent
    <2>4. QED
      BY <1>4, <2>2, <2>3
  <1>10. DispatchIsOneRoute'
    BY <1>4 DEF IrqInv, DispatchIsOneRoute
  <1>11. QED
    BY <1>5, <1>6, <1>7, <1>8, <1>9, <1>10 DEF IrqInv

LEMMA RouteCapabilityIrqInv ==
  ASSUME IrqInv, NEW c \in CPUs, RouteCapability(c)
  PROVE  IrqInv'
  <1> DEFINE r == routing[c]
             v == r.vector
             e == [entries[v] EXCEPT !.capability_id = r.capability_id]
  <1>1. /\ pc[c] = "capability" /\ pc' = [pc EXCEPT ![c] = "idle"]
        /\ SetEntry(v, e) /\ irq_lock' = irq_lock \ {c}
        /\ routing' = [routing EXCEPT ![c] = NoRouting] /\ UNCHANGED routed
    BY DEF RouteCapability, Goto
  <1>2. pc[c] \in LockedPlaces /\ pc[c] \in RoutePlaces
    BY <1>1 DEF LockedPlaces, RoutePlaces
  <1>3. v \in Vectors /\ r \in Target /\ entries[v] \in Entry
    BY <1>2 DEF IrqInv, IrqLocked, IrqType
  <1>4. e \in Entry /\ e.type = entries[v].type /\ e.flags = entries[v].flags
        /\ e.capability_id = r.capability_id
    BY <1>3 DEF Entry, Target
  <1>5. [type |-> e.type, capability_id |-> e.capability_id] \in routed[v]
    BY <1>1, <1>2, <1>4 DEF IrqInv, WritesRoute
  <1>6. "MASKED" \notin e.flags => "ENABLED" \in e.flags
    BY <1>3, <1>4 DEF IrqInv, UnmaskedIsEnabled
  <1> HIDE DEF e
  <1>7. QED
    BY <1>1, <1>2, <1>4, <1>5, <1>6, FinishIrqInv

LEMMA ClearFlagIrqInv ==
  ASSUME IrqInv, NEW c \in CPUs, NEW f, NEW at, <<f, at>> \in {<<"MASKED", "unmask">>, <<"ENABLED", "disable">>},
         ClearFlag(c, f, at)
  PROVE  IrqInv'
  <1> DEFINE v == routing[c].vector
             e == [entries[v] EXCEPT !.flags = @ \ {f}]
  <1>1. /\ pc[c] = at /\ pc' = [pc EXCEPT ![c] = "idle"]
        /\ SetEntry(v, e) /\ irq_lock' = irq_lock \ {c}
        /\ routing' = [routing EXCEPT ![c] = NoRouting] /\ UNCHANGED routed
    BY DEF ClearFlag, Goto
  <1>2. \/ f = "MASKED" /\ at = "unmask"
        \/ f = "ENABLED" /\ at = "disable"
    OBVIOUS
  <1>3. pc[c] \in LockedPlaces
    BY <1>1, <1>2 DEF LockedPlaces
  <1>4. v \in Vectors /\ entries[v] \in Entry /\ irq_lock = {c}
    BY <1>3 DEF IrqInv, IrqLocked, IrqType
  <1>5. e \in Entry /\ e.type = entries[v].type /\ e.flags = entries[v].flags \ {f}
        /\ e.capability_id = entries[v].capability_id
    BY <1>4 DEF Entry
  <1>6. [type |-> e.type, capability_id |-> e.capability_id] \in routed[v]
    <2>1. \A k \in CPUs : pc[k] = "capability" => k = c
      BY <1>4 DEF IrqInv, IrqLocked, LockedPlaces, RoutePlaces
    <2>2. \A k \in CPUs : pc[k] # "capability"
      BY <1>1, <1>2, <2>1
    <2>3. QED
      BY <1>4, <1>5, <2>2 DEF IrqInv, EntryWhole
  <1>7. "MASKED" \notin e.flags => "ENABLED" \in e.flags
    BY <1>1, <1>2, <1>4, <1>5 DEF IrqInv, FlagsCovered
  <1> HIDE DEF e
  <1>8. QED
    BY <1>1, <1>3, <1>5, <1>6, <1>7, FinishIrqInv

LEMMA SetFlagIrqInv ==
  ASSUME IrqInv, NEW c \in CPUs, NEW v \in Vectors, NEW f, NEW at,
         <<f, at>> \in {<<"ENABLED", "unmask">>, <<"MASKED", "disable">>},
         SetFlag(c, v, f, at)
  PROVE  IrqInv'
  <1> DEFINE e == [entries[v] EXCEPT !.flags = @ \cup {f}]
  <1>1. /\ pc[c] = "idle" /\ pc' = [pc EXCEPT ![c] = at] /\ irq_lock = {} /\ irq_lock' = {c}
        /\ routing' = [routing EXCEPT ![c] = [NoRouting EXCEPT !.vector = v]]
        /\ SetEntry(v, e) /\ UNCHANGED routed
    BY DEF SetFlag, Goto, TakeIrqLock
  <1>2. \/ f = "ENABLED" /\ at = "unmask"
        \/ f = "MASKED" /\ at = "disable"
    OBVIOUS
  <1>3. entries[v] \in Entry
    BY DEF IrqInv, IrqType
  <1>4. e \in Entry /\ e.type = entries[v].type /\ e.flags = entries[v].flags \cup {f}
        /\ e.capability_id = entries[v].capability_id
    BY <1>2, <1>3 DEF Entry
  <1>5. \A k \in CPUs : pc[k] \notin LockedPlaces
    BY <1>1 DEF IrqInv, IrqLocked
  <1>6. /\ pc'[c] = at /\ routing'[c].vector = v
        /\ \A k \in CPUs : /\ k # c => pc'[k] \notin {"type", "capability", "unmask", "disable"}
                           /\ pc'[k] \notin {"type", "capability"} /\ pc[k] # "capability"
    BY <1>1, <1>2, <1>5 DEF IrqInv, IrqType, LockedPlaces, RoutePlaces, NoRouting
  <1> HIDE DEF e
  <1>7. /\ dispatch' \in [CPUs -> Dispatcher] /\ entries' \in [Vectors -> Entry]
        /\ entries'[v] = e /\ \A u \in Vectors : u # v => entries'[u] = entries[u]
        /\ \A k \in CPUs :
             /\ dispatch'[k].at = dispatch[k].at /\ dispatch'[k].vector = dispatch[k].vector
             /\ dispatch'[k].type = dispatch[k].type
             /\ dispatch'[k].capability_id = dispatch[k].capability_id
             /\ ~dispatch'[k].overlapped =>
                  ~dispatch[k].overlapped /\ (dispatch[k].at = "idle" \/ dispatch[k].vector # v)
    BY <1>1, <1>4, SetEntryDispatch
  <1>8. IrqType'
    <2>1. [NoRouting EXCEPT !.vector = v] \in Target
      BY DEF NoRouting, Target, Types
    <2>2. at \in Places
      BY <1>2 DEF Places, Open, LockedPlaces, RoutePlaces
    <2>3. QED
      BY <1>1, <1>7, <2>1, <2>2 DEF IrqInv, IrqType
  <1>9. IrqLocked' /\ WritesRoute'
    BY <1>1, <1>6 DEF IrqLocked, WritesRoute, LockedPlaces, RoutePlaces
  <1>10. FlagsCovered'
    BY <1>2, <1>4, <1>6, <1>7 DEF FlagsCovered
  <1>11. UnmaskedIsEnabled'
    BY <1>2, <1>4, <1>7 DEF IrqInv, UnmaskedIsEnabled
  <1>12. EntryWhole'
    BY <1>1, <1>4, <1>6, <1>7 DEF IrqInv, EntryWhole
  <1>13. ReadsCurrent'
    BY <1>4, <1>6, <1>7 DEF IrqInv, ReadsCurrent
  <1>14. DispatchIsOneRoute'
    BY <1>1, <1>7 DEF IrqInv, DispatchIsOneRoute
  <1>15. QED
    BY <1>8, <1>9, <1>10, <1>11, <1>12, <1>13, <1>14 DEF IrqInv

\* The dispatcher writes nothing but what it has read.
LEMMA DispatchIrqInv ==
  ASSUME IrqInv, NEW c \in CPUs, NEW d \in Dispatcher, dispatch' = [dispatch EXCEPT ![c] = d],
         UNCHANGED <<pc, entries, irq_lock, routing, routed>>,
         d.at # "idle" =>
           /\ d.vector \in Vectors
           /\ ~d.overlapped =>
                /\ \A k \in CPUs : pc[k] = "capability" => routing[k].vector # d.vector
                /\ d.at = "check" => d.type = entries[d.vector].type
                /\ d.at = "done" => [type |-> d.type, capability_id |-> d.capability_id]
                                      \in routed[d.vector]
  PROVE  IrqInv'
  <1>1. dispatch'[c] = d /\ \A k \in CPUs : k # c => dispatch'[k] = dispatch[k]
    BY DEF IrqInv, IrqType
  <1>2. IrqType'
    BY DEF IrqInv, IrqType
  <1>3. /\ IrqLocked' /\ FlagsCovered' /\ UnmaskedIsEnabled' /\ WritesRoute' /\ EntryWhole'
    BY DEF IrqInv, IrqLocked, FlagsCovered, UnmaskedIsEnabled, WritesRoute, EntryWhole
  <1>4. ReadsCurrent'
    BY <1>1 DEF IrqInv, ReadsCurrent
  <1>5. DispatchIsOneRoute'
    BY <1>1 DEF IrqInv, DispatchIsOneRoute
  <1>6. QED
    BY <1>2, <1>3, <1>4, <1>5 DEF IrqInv

LEMMA HandlerIrqInv ==
  ASSUME IrqInv, NEW c \in CPUs, NEW v \in Vectors, irq_handler(c, v)
  PROVE  IrqInv'
  <1> DEFINE busy == \E k \in CPUs : pc[k] \in {"type", "capability"} /\ routing[k].vector = v
             d == [NoDispatch EXCEPT !.at = "masked", !.vector = v, !.overlapped = busy]
  <1>1. /\ dispatch' = [dispatch EXCEPT ![c] = d]
        /\ UNCHANGED <<pc, entries, irq_lock, routing, routed>>
    BY DEF irq_handler
  <1>2. busy \in BOOLEAN
    OBVIOUS
  <1>3. ~busy => \A k \in CPUs : pc[k] = "capability" => routing[k].vector # v
    OBVIOUS
  <1> HIDE DEF busy
  <1>4. d \in Dispatcher /\ d.at = "masked" /\ d.vector = v /\ d.overlapped = busy
    <2>1. NoDispatch \in Dispatcher
      BY DEF NoDispatch, Dispatcher, Types
    <2>2. QED
      BY <1>2, <2>1 DEF Dispatcher
  <1> HIDE DEF d
  <1>5. QED
    BY <1>1, <1>2, <1>3, <1>4, DispatchIrqInv

LEMMA DispatchReadIrqInv ==
  ASSUME IrqInv, NEW c \in CPUs, DispatchRead(c)
  PROVE  IrqInv'
  <1> DEFINE d == dispatch[c]
             e == entries[d.vector]
  <1>1. UNCHANGED <<pc, entries, irq_lock, routing, routed>> /\ d.at # "idle"
    BY DEF DispatchRead
  <1>2. d \in Dispatcher /\ d.vector \in Vectors /\ e \in Entry
    BY <1>1 DEF IrqInv, IrqType, ReadsCurrent
  <1>3. ~d.overlapped => \A k \in CPUs : pc[k] = "capability" => routing[k].vector # d.vector
    BY <1>1 DEF IrqInv, ReadsCurrent
  <1>4. \/ dispatch' = [dispatch EXCEPT ![c] = NoDispatch]
        \/ d.at = "masked" /\ dispatch' = [dispatch EXCEPT ![c] = [d EXCEPT !.at = "type"]]
        \/ d.at = "type" /\ dispatch' = [dispatch EXCEPT ![c] =
                                           [d EXCEPT !.at = "check", !.type = e.type]]
        \/ d.at = "check" /\ dispatch' = [dispatch EXCEPT ![c] =
                             [d EXCEPT !.at = "done", !.capability_id = e.capability_id]]
    <2>1. d.at \in {"masked", "type", "check", "done"}
      BY <1>1, <1>2 DEF Dispatcher
    <2>2. CASE d.at = "masked"
      BY <2>2 DEF DispatchRead
    <2>3. CASE d.at = "type"
      BY <2>3 DEF DispatchRead
    <2>4. CASE d.at = "check"
      BY <2>4 DEF DispatchRead
    <2>5. CASE d.at = "done"
      BY <2>5 DEF DispatchRead
    <2>6. QED
      BY <2>1, <2>2, <2>3, <2>4, <2>5
  <1>5. CASE dispatch' = [dispatch EXCEPT ![c] = NoDispatch]
    <2>1. NoDispatch \in Dispatcher /\ NoDispatch.at = "idle"
      BY DEF NoDispatch, Dispatcher, Types
    <2>2. QED
      BY <1>1, <1>5, <2>1, DispatchIrqInv
  <1>6. CASE dispatch' = [dispatch EXCEPT ![c] = [d EXCEPT !.at = "type"]]
    <2>1. /\ [d EXCEPT !.at = "type"] \in Dispatcher /\ [d EXCEPT !.at = "type"].at = "type"
          /\ [d EXCEPT !.at = "type"].vector = d.vector
          /\ [d EXCEPT !.at = "type"].overlapped = d.overlapped
      BY <1>2 DEF Dispatcher
    <2>2. QED
      BY <1>1, <1>2, <1>3, <1>6, <2>1, DispatchIrqInv
  <1>7. CASE dispatch' = [dispatch EXCEPT ![c] = [d EXCEPT !.at = "check", !.type = e.type]]
    <2> DEFINE n == [d EXCEPT !.at = "check", !.type = e.type]
    <2>1. /\ n \in Dispatcher /\ n.at = "check" /\ n.vector = d.vector
          /\ n.overlapped = d.overlapped /\ n.type = entries[d.vector].type
      BY <1>2 DEF Dispatcher, Entry
    <2> HIDE DEF n
    <2>2. QED
      BY <1>1, <1>2, <1>3, <1>7, <2>1, DispatchIrqInv DEF n
  <1>8. CASE /\ d.at = "check"
             /\ dispatch' = [dispatch EXCEPT ![c] =
                               [d EXCEPT !.at = "done", !.capability_id = e.capability_id]]
    <2> DEFINE n == [d EXCEPT !.at = "done", !.capability_id = e.capability_id]
    <2>1. /\ n \in Dispatcher /\ n.at = "done" /\ n.vector = d.vector
          /\ n.overlapped = d.overlapped /\ n.type = d.type
          /\ n.capability_id = entries[d.vector].capability_id
      BY <1>2 DEF Dispatcher, Entry
    <2>2. ~d.overlapped => d.type = entries[d.vector].type
      BY <1>1, <1>8 DEF IrqInv, ReadsCurrent
    <2>3. ~d.overlapped => [type |-> n.type, capability_id |-> n.capability_id]
                             \in routed[d.vector]
      BY <1>2, <1>3, <2>1, <2>2 DEF IrqInv, EntryWhole
    <2> HIDE DEF n
    <2>4. dispatch' = [dispatch EXCEPT ![c] = n]
      BY <1>8 DEF n
    <2>5. QED
      BY <1>1, <1>2, <1>3, <2>1, <2>3, <2>4, DispatchIrqInv
  <1>9. QED
    BY <1>4, <1>5, <1>6, <1>7, <1>8

\* What the managers' own steps do to the CPUs.
Quiet == Open \cup Inside \cup Creating
LEMMA ServiceMoves ==
  ASSUME NEW c \in CPUs, ServiceStep(c)
  PROVE  /\ UNCHANGED ivars
         /\ \E from, to \in Open \cup Inside : pc[c] = from /\ pc' = [pc EXCEPT ![c] = to]
  <1>0. {"idle", "start", "stop", "restart", "recover", "fault", "terminate", "counting",
         "counted", "faulting", "stuck", "naming", "clearing", "starting", "stopping",
         "restopping"} \subseteq Open \cup Inside
    BY DEF Open, Inside
  <1>1. CASE service_start(c) \/ service_stop(c) \/ service_restart(c)
    BY <1>0, <1>1 DEF service_start, service_stop, service_restart, Enter, Goto
  <1>2. CASE \/ NameService(c) \/ ClearService(c) \/ StartThread(c) \/ StopService(c)
             \/ FindRestarted(c) \/ CountRestart(c)
    BY <1>0, <1>2 DEF NameService, ClearService, StartThread, StopService, FindRestarted,
                      CountRestart, Leave, Goto
  <1>3. CASE service_handle_fault(c) \/ MarkError(c) \/ service_terminate(c)
    BY <1>0, <1>3 DEF service_handle_fault, MarkError, service_terminate, Goto
  <1>4. QED
    BY <1>1, <1>2, <1>3 DEF ServiceStep

LEMMA ManagerMoves ==
  ASSUME NEW c \in CPUs,
         \/ ServiceStep(c) \/ ProcessStep(c) \/ service_create(c)
         \/ process_create(c) \/ process_exit(c)
         \/ \E op \in {"start", "stop", "restart", "fault", "terminate"},
               id \in 0 .. num_services : BeginService(c, op, id)
  PROVE  /\ UNCHANGED ivars
         /\ \E from, to \in Quiet : pc[c] = from /\ pc' = [pc EXCEPT ![c] = to]
  <1>0. {"idle", "start", "stop", "restart", "fault", "terminate", "exiting", "naming",
         "domain", "tables", "pid", "new"} \subseteq Quiet
    BY DEF Quiet, Open, Inside, Creating
  <1>1. CASE ServiceStep(c)
    BY <1>1, ServiceMoves DEF Quiet
  <1>2. CASE ProcessStep(c)
    BY <1>0, <1>2 DEF ProcessStep, CreateDomain, CreateTables, TablesFail, Unwind, WritePid,
                      WriteNew, MarkTerminated, Goto
  <1>3. CASE \/ service_create(c) \/ process_create(c) \/ process_exit(c)
             \/ \E op \in {"start", "stop", "restart", "fault", "terminate"},
                   id \in 0 .. num_services : BeginService(c, op, id)
    BY <1>0, <1>3 DEF service_create, process_create, process_exit, BeginService, Goto
  <1>4. QED
    BY <1>1, <1>2, <1>3

LEMMA ManagerStepsIrqInv ==
  ASSUME IrqInv, NEW c \in CPUs,
         \/ ServiceStep(c) \/ ProcessStep(c) \/ service_create(c)
         \/ process_create(c) \/ process_exit(c)
         \/ \E op \in {"start", "stop", "restart", "fault", "terminate"},
               id \in 0 .. num_services : BeginService(c, op, id)
  PROVE  IrqInv'
  <1>1. Quiet \subseteq Places \ LockedPlaces
    BY DEF Quiet, Places, Open, Inside, Creating, LockedPlaces, RoutePlaces
  <1>2. QED
    BY <1>1, ManagerMoves, OtherIrqInv

LEMMA NextIrqInv == IrqInv /\ [Next]_vars => IrqInv'
  <1> SUFFICES ASSUME IrqInv, [Next]_vars PROVE IrqInv'
    OBVIOUS
  <1>1. CASE UNCHANGED vars
    BY <1>1 DEF vars, ivars, IrqInv, IrqType, IrqLocked, FlagsCovered, UnmaskedIsEnabled,
                WritesRoute, EntryWhole, ReadsCurrent, DispatchIsOneRoute
  <1>2. ASSUME NEW c \in CPUs, RoutingCall(c) PROVE IrqInv'
    <2>1. ASSUME NEW v \in Vectors, irq_enable(c, v) \/ irq_disable(c, v) PROVE IrqInv'
      BY <2>1, SetFlagIrqInv DEF irq_enable, irq_disable
    <2>2. QED
      BY <1>2, <2>1, RouteIrqInv DEF RoutingCall
  <1>3. ASSUME NEW c \in CPUs, RoutingStep(c) PROVE IrqInv'
    BY <1>3, RouteTypeIrqInv, RouteCapabilityIrqInv, ClearFlagIrqInv DEF RoutingStep
  <1>4. ASSUME NEW c \in CPUs, Begin(c) PROVE IrqInv'
    BY <1>2, <1>4, ManagerStepsIrqInv, HandlerIrqInv DEF Begin
  <1>5. ASSUME NEW c \in CPUs, Step(c) PROVE IrqInv'
    BY <1>3, <1>5, ManagerStepsIrqInv, DispatchReadIrqInv DEF Step
  <1>6. QED
    BY <1>1, <1>4, <1>5 DEF Next

\* The dispatcher needs no lock: an unmasked vector is enabled at every instant,
\* and what a dispatcher acts on is one route of the vector, unless a routing
\* call for that vector overlaps it.
THEOREM DispatchStaysSound == Spec => []DispatchSound
  <1>1. IrqInv => DispatchSound
    BY DEF IrqInv, DispatchSound
  <1>2. QED
    BY <1>1, InitIrqInv, NextIrqInv, PTL DEF Spec

-----------------------------------------------------------------------------
(***************************************************************************)
(* The managers' tables and the memory of the processes.                   *)
(***************************************************************************)

ApplicationPages(m) == {p \in Pages : m.frames[p].type = "APPLICATION"}

\* What one allocation of pages does to the pages of the processes.
LEMMA AllocApplication ==
  ASSUME NEW m \in State, NEW n \in Nat, NEW p \in FirstFit(m, n, 1),
         NEW t \in UsedTypes
  PROVE  /\ mm_alloc(m, p, n, t, 0) \in State
         /\ Run(p, n) \subseteq Pages /\ p \in Pages
         /\ Run(p, n) \cap ApplicationPages(m) = {}
         /\ ApplicationPages(mm_alloc(m, p, n, t, 0))
              = IF t = "APPLICATION" THEN ApplicationPages(m) \cup Run(p, n)
                ELSE ApplicationPages(m)
  <1>1. p \in Pages /\ Run(p, n) \subseteq Available(m)
    BY DEF FirstFit, Candidates, Available
  <1>2. Run(p, n) \subseteq Pages /\ Run(p, n) \cap ApplicationPages(m) = {}
    BY <1>1 DEF Available, ApplicationPages
  <1>3. p \in Int /\ t \in MemTypes /\ 0 \in Owners
    BY <1>1, MmConstants DEF Pages, MemTypes
  <1>4. /\ mm_alloc(m, p, n, t, 0) \in State
        /\ mm_alloc(m, p, n, t, 0).frames = SetFrames(m, Run(p, n), t, 0)
    BY <1>3, mm_allocTyped
  <1>5. \A q \in Pages : mm_alloc(m, p, n, t, 0).frames[q].type
                           = IF q \in Run(p, n) THEN t ELSE m.frames[q].type
    BY <1>4 DEF SetFrames
  <1>6. ApplicationPages(mm_alloc(m, p, n, t, 0))
          = IF t = "APPLICATION" THEN ApplicationPages(m) \cup Run(p, n)
            ELSE ApplicationPages(m)
    BY <1>2, <1>5 DEF ApplicationPages
  <1>7. QED
    BY <1>1, <1>2, <1>4, <1>6

LEMMA FreeApplication ==
  ASSUME NEW m \in State, NEW p \in Pages
  PROVE  /\ mm_free(m, p) \in State
         /\ ApplicationPages(mm_free(m, p)) = ApplicationPages(m) \ {p}
  <1>1. /\ mm_free(m, p) \in State
        /\ mm_free(m, p).frames = SetFrames(m, {p}, "AVAILABLE", 0)
    BY mm_freeTyped
  <1>2. \A q \in Pages : mm_free(m, p).frames[q].type
                           = IF q = p THEN "AVAILABLE" ELSE m.frames[q].type
    BY <1>1 DEF SetFrames
  <1>3. QED
    BY <1>1, <1>2 DEF ApplicationPages

\* The pages of the processes, counted.
LEMMA ApplicationCounted ==
  ASSUME NEW m
  PROVE  IsFiniteSet(ApplicationPages(m)) /\ Cardinality(ApplicationPages(m)) \in Nat
  <1>1. IsFiniteSet(Pages)
    BY MmConstants, FS_Interval DEF Pages
  <1>2. ApplicationPages(m) \in SUBSET Pages
    BY DEF ApplicationPages
  <1>3. IsFiniteSet(ApplicationPages(m))
    BY <1>1, <1>2, FS_Subset
  <1>4. QED
    BY <1>3, FS_CardinalityType

\* Ids are given out upwards from 1, so a new one is in no slot.
ServiceIds ==
  /\ next_service_id \in Nat \ {0}
  /\ \A s \in SSlots : /\ services[s].service_id \in 0 .. next_service_id - 1
                       /\ services[s].restart_count \in Nat
  /\ \A s, u \in SSlots :
       services[s].service_id = services[u].service_id
       => s = u \/ services[s].service_id = 0
ProcessIds ==
  /\ next_pid \in Nat \ {0}
  /\ \A s \in PSlots : processes[s].process_id \in 0 .. next_pid - 1
  /\ \A s, u \in PSlots :
       processes[s].process_id = processes[u].process_id
       => s = u \/ processes[s].process_id = 0
\* Places between process_create's allocation and the new id.
Hand == {"domain", "tables", "pid"}
MemoryInv ==
  /\ mm \in State /\ leaked \in Nat /\ domains \in 0 .. MAX_DOMAINS
  /\ MemoryAccounted
  /\ \A c \in CPUs :
       /\ pc[c] \in {"domain", "tables"} => arg[c].page \in ApplicationPages(mm)
       /\ pc[c] = "tables" => domains > 0
LocksInv ==
  /\ service_lock \in CPUs \cup {Free} /\ process_lock \in CPUs \cup {Free}
  /\ irq_lock \subseteq CPUs /\ made \in 0 .. MaxCalls

TablesInv == ServiceIds /\ ProcessIds /\ MemoryInv /\ LocksInv

LEMMA InitTablesInv == Init => TablesInv
  <1> SUFFICES ASSUME Init PROVE TablesInv
    OBVIOUS
  <1>1. ServiceIds
    BY DEF Init, ServiceIds, NoService
  <1>2. ProcessIds
    BY DEF Init, ProcessIds, NoProcess
  <1>3. LocksInv
    BY ManagerConstants DEF Init, LocksInv, irq_init
  <1>4. "AVAILABLE" \in MemTypes /\ 0 \in Owners
    BY MmConstants DEF MemTypes
  <1> DEFINE Clear(m) == /\ m \in State
                         /\ \A p \in Pages : m.frames[p].type \in {"AVAILABLE", "RESERVED"}
  <1>5. Clear(mm_init)
    BY mm_initTyped DEF mm_init
  <1>6. ASSUME NEW m, Clear(m), NEW s \in Nat, NEW n \in Nat
        PROVE  Clear(mm_reserve(m, s, n, "AVAILABLE", 0))
    <2>1. /\ mm_reserve(m, s, n, "AVAILABLE", 0) \in State
          /\ mm_reserve(m, s, n, "AVAILABLE", 0).frames
               = SetFrames(m, Run(s, n), "AVAILABLE", 0)
      BY <1>4, <1>6, mm_reserveTyped
    <2>2. QED
      BY <1>6, <2>1 DEF SetFrames
  <1>7. \A s \in {0, 1, 2} : s \in Nat /\ total_pages - s \in Nat
    BY MmConstants, ManagerConstants
  <1>8. Clear(mm)
    <2>1. Clear(From(0)) /\ Clear(From(1)) /\ Clear(From(2))
      BY <1>5, <1>6, <1>7 DEF From
    <2>2. Clear(mm_reserve(From(2), 0, 1, "AVAILABLE", 0))
      BY <1>6, <2>1
    <2>3. QED
      BY <2>1, <2>2 DEF Init
  <1>9. ApplicationPages(mm) = {}
    BY <1>8 DEF ApplicationPages
  <1>10. Cardinality(ApplicationPages(mm)) = 0
    BY <1>9, FS_EmptySet
  <1>11. /\ ProcPages * (next_pid - 1) + 0 + leaked = 0 /\ leaked \in Nat
         /\ domains \in 0 .. MAX_DOMAINS /\ \A c \in CPUs : pc[c] = "idle"
    BY ManagerConstants DEF Init
  <1>12. PagesInHand = 0
    BY <1>11 DEF PagesInHand
  <1>13. MemoryInv
    BY <1>8, <1>10, <1>11, <1>12 DEF MemoryInv, MemoryAccounted, ApplicationPages
  <1>14. QED
    BY <1>1, <1>2, <1>3, <1>13 DEF TablesInv

\* A step of a CPU that has no pages in hand before or after.
LEMMA SameMemory ==
  ASSUME MemoryInv, mm' \in State, ApplicationPages(mm') = ApplicationPages(mm),
         UNCHANGED <<leaked, next_pid>>, domains' \in 0 .. MAX_DOMAINS, domains' >= domains,
         \A k \in CPUs : pc[k] \in Hand \/ pc'[k] \in Hand
                         => pc'[k] = pc[k] /\ arg'[k] = arg[k]
  PROVE  MemoryInv'
  <1>1. PagesInHand' = PagesInHand
    BY DEF PagesInHand, Hand
  <1>2. MemoryAccounted'
    BY <1>1 DEF MemoryInv, MemoryAccounted, ApplicationPages
  <1>3. ASSUME NEW c \in CPUs, pc'[c] \in {"domain", "tables"}
        PROVE  /\ arg'[c].page \in ApplicationPages(mm')
               /\ pc'[c] = "tables" => domains' > 0
    BY <1>3 DEF MemoryInv, Hand
  <1>4. QED
    BY <1>2, <1>3 DEF MemoryInv

\* A service's slot is written by its state or its restart count only.
LEMMA SameServices ==
  ASSUME ServiceIds, UNCHANGED next_service_id,
         \A s \in SSlots : /\ services'[s].service_id = services[s].service_id
                           /\ services'[s].restart_count \in Nat
  PROVE  ServiceIds'
  BY DEF ServiceIds

\* The steps of a CPU that is not creating a process.
LEMMA Aside ==
  ASSUME ManagerInv, NEW c \in CPUs, NEW from \in Places \ Hand, NEW to \in Places \ Hand,
         pc[c] = from, pc' = [pc EXCEPT ![c] = to],
         \A k \in CPUs : k # c => arg'[k] = arg[k]
  PROVE  \A k \in CPUs : pc[k] \in Hand \/ pc'[k] \in Hand
                         => pc'[k] = pc[k] /\ arg'[k] = arg[k]
  BY DEF ManagerInv, ManagerType

\* A new id in the slot that was found.
LEMMA NameServiceIds ==
  ASSUME ManagerInv, ServiceIds, NEW c \in CPUs, NameService(c)
  PROVE  ServiceIds'
  <1> DEFINE s == arg[c].slot
  <1>1. /\ pc[c] \in Inside /\ next_service_id' = next_service_id + 1
        /\ services' = [services EXCEPT ![s].service_id = next_service_id]
    BY DEF NameService, Goto, Inside
  <1>2. s \in SSlots /\ services \in [SSlots -> Service]
    BY <1>1 DEF ManagerInv, ManagerType, ServiceType, ServiceLocked
  <1>3. /\ services'[s].service_id = next_service_id
        /\ services'[s].restart_count = services[s].restart_count
        /\ \A u \in SSlots : u # s => services'[u] = services[u]
    BY <1>1, <1>2 DEF Service
  <1>4. \A u \in SSlots : services[u].service_id # next_service_id
    BY DEF ServiceIds
  <1>5. next_service_id' \in Nat \ {0}
    BY <1>1 DEF ServiceIds
  <1>6. \A u \in SSlots : /\ services'[u].service_id \in 0 .. next_service_id' - 1
                          /\ services'[u].restart_count \in Nat
    BY <1>1, <1>3 DEF ServiceIds
  <1>7. \A u, v \in SSlots :
          services'[u].service_id = services'[v].service_id
          => u = v \/ services'[u].service_id = 0
    BY <1>3, <1>4 DEF ServiceIds
  <1>8. QED
    BY <1>5, <1>6, <1>7 DEF ServiceIds

LEMMA WritePidIds ==
  ASSUME ManagerInv, ProcessIds, NEW c \in CPUs, WritePid(c)
  PROVE  ProcessIds'
  <1> DEFINE s == arg[c].slot
  <1>1. /\ pc[c] \in Creating /\ next_pid' = next_pid + 1
        /\ processes' = [processes EXCEPT ![s].process_id = next_pid]
    BY DEF WritePid, Goto, Creating
  <1>2. s \in PSlots /\ processes \in [PSlots -> Process]
    BY <1>1 DEF ManagerInv, ManagerType, ProcessType, ProcessLocked
  <1>3. /\ processes'[s].process_id = next_pid
        /\ \A u \in PSlots : u # s => processes'[u] = processes[u]
    BY <1>1, <1>2 DEF Process
  <1>4. \A u \in PSlots : processes[u].process_id # next_pid
    BY DEF ProcessIds
  <1>5. next_pid' \in Nat \ {0}
    BY <1>1 DEF ProcessIds
  <1>6. \A u \in PSlots : processes'[u].process_id \in 0 .. next_pid' - 1
    BY <1>1, <1>3 DEF ProcessIds
  <1>7. \A u, v \in PSlots :
          processes'[u].process_id = processes'[v].process_id
          => u = v \/ processes'[u].process_id = 0
    BY <1>3, <1>4 DEF ProcessIds
  <1>8. QED
    BY <1>5, <1>6, <1>7 DEF ProcessIds

\* The service table.
LEMMA ServiceStepIds ==
  ASSUME ManagerInv, ServiceIds, NEW c \in CPUs, ServiceStep(c)
  PROVE  ServiceIds'
  <1>0. /\ services \in [SSlots -> Service] /\ \A s \in SSlots : services[s] \in Service
        /\ \A s \in SSlots : services[s].restart_count \in Nat
    BY DEF ManagerInv, ManagerType, ServiceType, ServiceIds
  <1>1. CASE NameService(c)
    BY <1>1, NameServiceIds
  <1>2. CASE \/ service_start(c) \/ service_stop(c) \/ service_restart(c)
             \/ FindRestarted(c) \/ service_handle_fault(c) \/ service_terminate(c)
    <2>1. UNCHANGED <<services, next_service_id>>
      BY <1>2 DEF service_start, service_stop, service_restart, Enter, FindRestarted,
                  service_handle_fault, service_terminate, svars
    <2>2. QED
      BY <2>1 DEF ServiceIds
  <1>3. CASE ClearService(c)
    <2>1. /\ services' = [services EXCEPT ![arg[c].slot] = Cleared(services[arg[c].slot])]
          /\ UNCHANGED next_service_id
      BY <1>3, ClearIsOneWrite DEF ClearService
    <2>2. \A s \in SSlots : \/ services'[s] = services[s]
                            \/ s = arg[c].slot /\ services'[s] = Cleared(services[s])
      BY <1>0, <2>1
    <2>3. \A s \in SSlots : /\ services'[s].service_id = services[s].service_id
                            /\ services'[s].restart_count \in {services[s].restart_count, 0}
      BY <1>0, <2>2, ClearedService
    <2>4. QED
      BY <1>0, <2>1, <2>3, SameServices
  <1>4. CASE StartThread(c) \/ StopService(c) \/ MarkError(c)
    <2>1. UNCHANGED next_service_id
          /\ \E st : services' = [services EXCEPT ![arg[c].slot].state = st]
      BY <1>4 DEF StartThread, StopService, MarkError, Leave
    <2>2. \A s \in SSlots : /\ services'[s].service_id = services[s].service_id
                            /\ services'[s].restart_count = services[s].restart_count
      BY <1>0, <2>1 DEF Service
    <2>3. QED
      BY <1>0, <2>1, <2>2, SameServices
  <1>5. CASE CountRestart(c)
    <2>1. /\ services' = [services EXCEPT ![arg[c].slot].restart_count = @ + 1]
          /\ UNCHANGED next_service_id
      BY <1>5 DEF CountRestart
    <2>2. \A s \in SSlots : /\ services'[s].service_id = services[s].service_id
                            /\ services'[s].restart_count
                                 \in {services[s].restart_count, services[s].restart_count + 1}
      BY <1>0, <2>1 DEF Service
    <2>3. QED
      BY <1>0, <2>1, <2>2, SameServices
  <1>6. QED
    BY <1>1, <1>2, <1>3, <1>4, <1>5 DEF ServiceStep

\* The service manager's calls and the pages of the processes.
LEMMA ServiceStepMemory ==
  ASSUME ManagerInv, MemoryInv, NEW c \in CPUs, ServiceStep(c)
  PROVE  MemoryInv'
  <1>1. mm' \in State /\ ApplicationPages(mm') = ApplicationPages(mm)
    <2>1. CASE UNCHANGED mm
      BY <2>1 DEF MemoryInv
    <2>2. CASE \E p \in FirstFit(mm, 1, 1) : mm' = mm_alloc(mm, p, 1, "KERNEL", 0)
      <3>1. PICK p \in FirstFit(mm, 1, 1) : mm' = mm_alloc(mm, p, 1, "KERNEL", 0)
        BY <2>2
      <3>2. mm \in State /\ "KERNEL" \in UsedTypes /\ "KERNEL" # "APPLICATION" /\ 1 \in Nat
        BY ManagerConstants DEF MemoryInv
      <3>3. QED
        BY <3>1, <3>2, AllocApplication
    <2>3. QED
      BY <2>1, <2>2 DEF ServiceStep, NameService, ClearService, service_start, service_stop,
         service_restart, Enter, StartThread, StopService, FindRestarted, CountRestart,
         service_handle_fault, MarkError, service_terminate
  <1>2. UNCHANGED <<leaked, next_pid, domains>> /\ \A k \in CPUs : k # c => arg'[k] = arg[k]
    BY DEF ServiceStep, NameService, ClearService, service_start, service_stop, service_restart,
       Enter, StartThread, StopService, Leave, FindRestarted, CountRestart,
       service_handle_fault, MarkError, service_terminate, pvars, dvars, ManagerInv, ManagerType
  <1>3. domains' \in 0 .. MAX_DOMAINS /\ domains' >= domains
    BY <1>2, ManagerConstants DEF MemoryInv
  <1>4. \E from, to \in Places \ Hand : pc[c] = from /\ pc' = [pc EXCEPT ![c] = to]
    <2>1. Open \cup Inside \subseteq Places \ Hand
      BY DEF Places, Open, Inside, Hand
    <2>2. \E from, to \in Open \cup Inside : pc[c] = from /\ pc' = [pc EXCEPT ![c] = to]
      BY ServiceMoves
    <2>3. QED
      BY <2>1, <2>2
  <1>5. \A k \in CPUs : pc[k] \in Hand \/ pc'[k] \in Hand
                        => pc'[k] = pc[k] /\ arg'[k] = arg[k]
    BY <1>2, <1>4, Aside
  <1>6. QED
    BY <1>1, <1>2, <1>3, <1>5, SameMemory

\* Only the holder of the process lock has pages in hand.
LEMMA OneCreation ==
  ASSUME ManagerInv, NEW c \in CPUs
  PROVE  /\ pc[c] \in Creating => \A k \in CPUs : k # c => pc[k] \notin Hand
         /\ process_lock = Free => \A k \in CPUs : pc[k] \notin Hand
         /\ pc[c] \in Hand => pc[c] \in Creating /\ PagesInHand = ProcPages
         /\ (\A k \in CPUs : pc[k] \notin Hand) => PagesInHand = 0
  <1>1. Hand \subseteq Creating
    BY DEF Hand, Creating
  <1>2. /\ pc[c] \in Creating => \A k \in CPUs : k # c => pc[k] \notin Creating
        /\ process_lock = Free => \A k \in CPUs : pc[k] \notin Creating
    BY ManagerConstants DEF ManagerInv, ProcessLocked, Free
  <1>3. /\ pc[c] \in Hand => PagesInHand = ProcPages
        /\ (\A k \in CPUs : pc[k] \notin Hand) => PagesInHand = 0
    BY DEF PagesInHand, Hand
  <1>4. QED
    BY <1>1, <1>2, <1>3

\* The memory of process_create.
LEMMA CreateProcessMemory ==
  ASSUME ManagerInv, MemoryInv, next_pid \in Nat \ {0}, NEW c \in CPUs, process_create(c)
  PROVE  MemoryInv'
  <1> DEFINE App(k) == Cardinality(ApplicationPages(k))
  <1>0. /\ mm \in State /\ leaked \in Nat /\ domains \in 0 .. MAX_DOMAINS
        /\ App(mm) = ProcPages * (next_pid - 1) + PagesInHand + leaked
    BY DEF MemoryInv, MemoryAccounted, ApplicationPages
  <1>00. ProcPages \in Nat /\ ProcPages # 0 /\ "APPLICATION" \in UsedTypes
    BY ManagerConstants
  <1>1. PICK s \in FreeProcessSlot, p \in FirstFit(mm, ProcPages, 1) :
          /\ mm' = mm_alloc(mm, p, ProcPages, "APPLICATION", 0)
          /\ \/ /\ pc' = [pc EXCEPT ![c] = "domain"] /\ UNCHANGED leaked
                /\ arg' = [arg EXCEPT ![c].slot = s, ![c].page = p]
             \/ /\ pc[c] = "idle" /\ pc' = [pc EXCEPT ![c] = "idle"]
                /\ leaked' = leaked + ProcPages /\ UNCHANGED arg
    BY DEF process_create, Goto
  <1>2. /\ mm' \in State /\ p \in Pages
        /\ Run(p, ProcPages) \cap ApplicationPages(mm) = {}
        /\ ApplicationPages(mm') = ApplicationPages(mm) \cup Run(p, ProcPages)
    BY <1>0, <1>00, <1>1, AllocApplication
  <1>3. p \in Int /\ p \in Run(p, ProcPages)
    BY <1>00, <1>2, MmConstants DEF Pages, Run
  <1>4. IsFiniteSet(Run(p, ProcPages)) /\ Cardinality(Run(p, ProcPages)) = ProcPages
    <2>1. p + ProcPages - 1 \in Int
      BY <1>00, <1>3
    <2>2. /\ IsFiniteSet(p .. p + ProcPages - 1)
          /\ Cardinality(p .. p + ProcPages - 1)
               = IF p > p + ProcPages - 1 THEN 0 ELSE (p + ProcPages - 1) - p + 1
      BY <1>3, <2>1, FS_Interval
    <2>3. ~(p > p + ProcPages - 1) /\ (p + ProcPages - 1) - p + 1 = ProcPages
      BY <1>00, <1>3
    <2>4. QED
      BY <2>2, <2>3 DEF Run
  <1>5. App(mm') = App(mm) + ProcPages
    <2>1. /\ IsFiniteSet(ApplicationPages(mm)) /\ App(mm) \in Nat
      BY ApplicationCounted
    <2>2. Cardinality(ApplicationPages(mm) \cup Run(p, ProcPages))
            = App(mm) + ProcPages
              - Cardinality(ApplicationPages(mm) \cap Run(p, ProcPages))
      BY <1>4, <2>1, FS_Union
    <2>3. ApplicationPages(mm) \cap Run(p, ProcPages) = {}
      BY <1>2
    <2>4. Cardinality(ApplicationPages(mm) \cap Run(p, ProcPages)) = 0
      BY <2>3, FS_EmptySet
    <2>5. QED
      BY <1>2, <1>00, <2>1, <2>2, <2>4
  <1>6. /\ process_lock = Free
        /\ UNCHANGED <<next_pid, domains>> /\ \A k \in CPUs : pc[k] \notin Hand
    BY OneCreation DEF process_create, dvars
  <1>7. PagesInHand = 0 /\ ProcPages * (next_pid - 1) \in Int
    BY <1>00, <1>6, OneCreation
  <1>8. CASE /\ pc' = [pc EXCEPT ![c] = "domain"] /\ UNCHANGED leaked
             /\ arg' = [arg EXCEPT ![c].slot = s, ![c].page = p]
    <2>1. pc'[c] = "domain" /\ \A k \in CPUs : k # c => pc'[k] = pc[k]
      BY <1>8 DEF ManagerInv, ManagerType
    <2>2. PagesInHand' = ProcPages
      BY <2>1 DEF PagesInHand
    <2>3. App(mm') = ProcPages * (next_pid' - 1) + PagesInHand' + leaked'
      BY <1>0, <1>00, <1>5, <1>6, <1>7, <1>8, <2>2
    <2>4. arg'[c].page = p
      BY <1>8 DEF ManagerInv, ManagerType, Arg
    <2>5. \A k \in CPUs : k # c => pc'[k] \notin {"domain", "tables"}
      BY <1>6, <2>1 DEF Hand
    <2>6. p \in ApplicationPages(mm')
      BY <1>2, <1>3
    <2>7. QED
      BY <1>0, <1>2, <1>6, <1>8, <2>1, <2>3, <2>4, <2>5, <2>6
         DEF MemoryInv, MemoryAccounted, ApplicationPages
  <1>9. CASE /\ pc[c] = "idle" /\ pc' = [pc EXCEPT ![c] = "idle"]
             /\ leaked' = leaked + ProcPages /\ UNCHANGED arg
    <2>1. \A k \in CPUs : pc'[k] \notin Hand
      BY <1>6, <1>9 DEF ManagerInv, ManagerType
    <2>2. PagesInHand' = 0
      BY <2>1 DEF PagesInHand, Hand
    <2>3. App(mm') = ProcPages * (next_pid' - 1) + PagesInHand' + leaked' /\ leaked' \in Nat
      BY <1>0, <1>00, <1>5, <1>6, <1>7, <1>9, <2>2
    <2>4. QED
      BY <1>0, <1>2, <1>6, <2>1, <2>3 DEF MemoryInv, MemoryAccounted, ApplicationPages, Hand
  <1>10. QED
    BY <1>1, <1>8, <1>9

\* A creation that fails returns one page of its block.
LEMMA UnwindMemory ==
  ASSUME ManagerInv, MemoryInv, next_pid \in Nat \ {0}, NEW c \in CPUs,
         NEW from \in {"domain", "tables"}, NEW m \in State,
         ApplicationPages(m) = ApplicationPages(mm),
         Unwind(c, from, m), UNCHANGED next_pid, domains' \in 0 .. MAX_DOMAINS
  PROVE  MemoryInv'
  <1> DEFINE App(k) == Cardinality(ApplicationPages(k))
  <1>0. /\ leaked \in Nat
        /\ App(mm) = ProcPages * (next_pid - 1) + PagesInHand + leaked
    BY DEF MemoryInv, MemoryAccounted, ApplicationPages
  <1>00. ProcPages \in Nat /\ ProcPages # 0 /\ ProcPages * (next_pid - 1) \in Int
    BY ManagerConstants
  <1>1. /\ pc[c] = from /\ pc' = [pc EXCEPT ![c] = "idle"]
        /\ mm' = mm_free(m, arg[c].page) /\ leaked' = leaked + ProcPages - 1
    BY DEF Unwind, Goto
  <1>2. pc[c] \in Hand /\ arg[c].page \in ApplicationPages(m)
    BY <1>1 DEF MemoryInv, Hand
  <1>3. arg[c].page \in Pages
    BY <1>2 DEF ApplicationPages
  <1>4. mm' \in State /\ ApplicationPages(mm') = ApplicationPages(m) \ {arg[c].page}
    BY <1>1, <1>3, FreeApplication
  <1>5. App(mm') = App(m) - 1 /\ App(m) = App(mm) /\ App(m) \in Nat
    <2>1. IsFiniteSet(ApplicationPages(m)) /\ App(m) \in Nat
      BY ApplicationCounted
    <2>2. Cardinality(ApplicationPages(m) \ {arg[c].page}) = App(m) - 1
      BY <1>2, <2>1, FS_RemoveElement
    <2>3. QED
      BY <1>4, <2>1, <2>2
  <1>6. PagesInHand = ProcPages /\ \A k \in CPUs : k # c => pc[k] \notin Hand
    BY <1>2, OneCreation
  <1>7. \A k \in CPUs : pc'[k] \notin Hand
    BY <1>1, <1>6 DEF ManagerInv, ManagerType, Hand
  <1>8. PagesInHand' = 0
    BY <1>7 DEF PagesInHand, Hand
  <1>9. App(mm') = ProcPages * (next_pid' - 1) + PagesInHand' + leaked' /\ leaked' \in Nat
    BY <1>0, <1>00, <1>1, <1>5, <1>6, <1>8
  <1>10. QED
    BY <1>4, <1>7, <1>9 DEF MemoryInv, MemoryAccounted, ApplicationPages, Hand

\* A step of a creation that keeps its pages in hand.
LEMMA InHandMemory ==
  ASSUME ManagerInv, MemoryInv, NEW c \in CPUs, pc[c] \in Hand,
         NEW to \in Hand, pc' = [pc EXCEPT ![c] = to],
         mm' \in State, ApplicationPages(mm') = ApplicationPages(mm),
         UNCHANGED <<leaked, next_pid>>, domains' \in 0 .. MAX_DOMAINS,
         arg'[c].page = arg[c].page, to # "pid" => pc[c] # "pid" /\ domains' > 0
  PROVE  MemoryInv'
  <1>1. \A k \in CPUs : k # c => pc[k] \notin Hand
    BY OneCreation
  <1>2. pc'[c] = to /\ \A k \in CPUs : k # c => pc'[k] \notin Hand
    BY <1>1 DEF ManagerInv, ManagerType
  <1>3. PagesInHand = ProcPages /\ PagesInHand' = ProcPages
    BY <1>2 DEF PagesInHand, Hand
  <1>4. MemoryAccounted'
    BY <1>3 DEF MemoryInv, MemoryAccounted, ApplicationPages
  <1>5. pc[c] \in {"domain", "tables"} => arg[c].page \in ApplicationPages(mm)
    BY DEF MemoryInv
  <1>6. QED
    BY <1>2, <1>4, <1>5 DEF MemoryInv, Hand

LEMMA ProcessStepTables ==
  ASSUME ManagerInv, MemoryInv, ProcessIds, NEW c \in CPUs, ProcessStep(c)
  PROVE  ProcessIds' /\ MemoryInv'
  <1>0. /\ mm \in State /\ domains \in 0 .. MAX_DOMAINS /\ next_pid \in Nat \ {0}
        /\ MAX_DOMAINS \in Nat /\ "KERNEL" \in UsedTypes /\ "KERNEL" # "APPLICATION"
    BY ManagerConstants DEF MemoryInv, ProcessIds
  <1>1. CASE CreateDomain(c)
    <2>1. UNCHANGED <<processes, next_pid>>
      BY <1>1 DEF CreateDomain
    <2>2. ProcessIds'
      BY <2>1 DEF ProcessIds
    <2>3. CASE /\ Goto(c, "domain", "tables") /\ NewDomain
               /\ arg' = [arg EXCEPT ![c].id = next_domain_id]
               /\ UNCHANGED <<mm, process_lock, leaked>>
      <3>1. /\ pc[c] = "domain" /\ pc' = [pc EXCEPT ![c] = "tables"]
            /\ domains' \in 0 .. MAX_DOMAINS /\ domains' > 0
        BY <1>0, <2>3 DEF Goto, NewDomain
      <3>2. arg'[c].page = arg[c].page
        BY <2>3 DEF ManagerInv, ManagerType, Arg
      <3>3. pc[c] \in Hand /\ "tables" \in Hand
        BY <3>1 DEF Hand
      <3>4. QED
        BY <1>0, <2>1, <2>2, <2>3, <3>1, <3>2, <3>3, InHandMemory
    <2>4. CASE Unwind(c, "domain", mm) /\ UNCHANGED dvars
      <3>1. domains' \in 0 .. MAX_DOMAINS
        BY <1>0, <2>4 DEF dvars
      <3>2. MemoryInv'
        BY <1>0, <2>1, <2>4, <3>1, UnwindMemory
      <3>3. QED
        BY <2>2, <3>2
    <2>5. QED
      BY <1>1, <2>3, <2>4 DEF CreateDomain
  <1>2. CASE CreateTables(c)
    <2>1. pc[c] = "tables" /\ UNCHANGED <<processes, next_pid>>
      BY <1>2 DEF CreateTables
    <2>2. ProcessIds'
      BY <2>1 DEF ProcessIds
    <2>3. domains > 0
      BY <2>1 DEF MemoryInv
    <2>4. ASSUME NEW p \in FirstFit(mm, 1, 1)
          PROVE  LET m == mm_alloc(mm, p, 1, "KERNEL", 0)
                 IN  m \in State /\ ApplicationPages(m) = ApplicationPages(mm)
      BY <1>0, AllocApplication
    <2>5. ASSUME NEW m \in State, ApplicationPages(m) = ApplicationPages(mm), TablesFail(c, m)
          PROVE  MemoryInv'
      <3>1. domains' \in 0 .. MAX_DOMAINS
        BY <1>0, <2>3, <2>5 DEF TablesFail
      <3>2. QED
        BY <1>0, <2>1, <2>5, <3>1, UnwindMemory DEF TablesFail
    <2>6. ASSUME NEW p \in FirstFit(mm, 1, 1), Goto(c, "tables", "pid"),
                 mm' = mm_alloc(mm, p, 1, "KERNEL", 0),
                 UNCHANGED <<arg, dvars, process_lock, leaked>>
          PROVE  MemoryInv'
      <3>1. mm' \in State /\ ApplicationPages(mm') = ApplicationPages(mm)
        BY <2>4, <2>6
      <3>2. /\ pc' = [pc EXCEPT ![c] = "pid"] /\ pc[c] \in Hand /\ "pid" \in Hand
            /\ domains' \in 0 .. MAX_DOMAINS /\ arg'[c].page = arg[c].page
        BY <1>0, <2>1, <2>6 DEF Goto, Hand, dvars
      <3>3. QED
        BY <2>1, <2>6, <3>1, <3>2, InHandMemory
    <2>7. CASE \E p \in FirstFit(mm, 1, 1) :
                 LET m == mm_alloc(mm, p, 1, "KERNEL", 0) IN
                 \/ p = 0 /\ TablesFail(c, m)
                 \/ /\ p # 0 /\ Goto(c, "tables", "pid") /\ mm' = m
                    /\ UNCHANGED <<arg, dvars, process_lock, leaked>>
      BY <2>2, <2>4, <2>5, <2>6, <2>7
    <2>8. CASE TablesFail(c, mm)
      BY <1>0, <2>2, <2>5, <2>8
    <2>9. QED
      BY <1>2, <2>7, <2>8 DEF CreateTables
  <1>3. CASE WritePid(c)
    <2> DEFINE App(k) == Cardinality(ApplicationPages(k))
    <2>1. /\ pc[c] = "pid" /\ pc' = [pc EXCEPT ![c] = "new"] /\ next_pid' = next_pid + 1
          /\ UNCHANGED <<leaked, mm, domains>>
      BY <1>3 DEF WritePid, Goto, dvars
    <2>2. PagesInHand = ProcPages /\ \A k \in CPUs : k # c => pc[k] \notin Hand
      BY <2>1, OneCreation DEF Hand
    <2>3. \A k \in CPUs : pc'[k] \notin Hand
      BY <2>1, <2>2 DEF ManagerInv, ManagerType, Hand
    <2>4. PagesInHand' = 0
      BY <2>3 DEF PagesInHand, Hand
    <2>5. /\ leaked \in Nat /\ ProcPages \in Nat
          /\ App(mm) = ProcPages * (next_pid - 1) + PagesInHand + leaked
      BY ManagerConstants DEF MemoryInv, MemoryAccounted, ApplicationPages
    <2>6. ProcPages * ((next_pid + 1) - 1) = ProcPages * (next_pid - 1) + ProcPages
      BY <1>0, <2>5
    <2>7. ProcPages * (next_pid - 1) \in Int
      BY <1>0, <2>5
    <2>8. App(mm) = ProcPages * (next_pid' - 1) + PagesInHand' + leaked'
      BY <2>1, <2>2, <2>4, <2>5, <2>6, <2>7
    <2>9. MemoryInv'
      BY <2>1, <2>3, <2>8 DEF MemoryInv, MemoryAccounted, ApplicationPages, Hand
    <2>10. QED
      BY <1>3, <2>9, WritePidIds
  <1>4. CASE WriteNew(c) \/ MarkTerminated(c)
    <2>1. /\ UNCHANGED <<mm, domains, next_pid, leaked>> /\ pc[c] \in {"new", "exiting"}
          /\ pc' = [pc EXCEPT ![c] = "idle"] /\ arg' = [arg EXCEPT ![c] = NoArg]
          /\ \E st : processes' = [processes EXCEPT ![arg[c].slot].state = st]
      BY <1>4 DEF WriteNew, MarkTerminated, Goto, dvars
    <2>2. \A s \in PSlots : processes'[s].process_id = processes[s].process_id
      BY <2>1 DEF ManagerInv, ManagerType, ProcessType, Process
    <2>3. ProcessIds'
      BY <2>1, <2>2 DEF ProcessIds
    <2>4. {"new", "exiting", "idle"} \subseteq Places \ Hand
      BY DEF Places, Open, Creating, Hand
    <2>5. \A k \in CPUs : k # c => arg'[k] = arg[k]
      BY <2>1 DEF ManagerInv, ManagerType
    <2>6. \A k \in CPUs : pc[k] \in Hand \/ pc'[k] \in Hand
                          => pc'[k] = pc[k] /\ arg'[k] = arg[k]
      BY <2>1, <2>4, <2>5, Aside
    <2>7. MemoryInv'
      BY <1>0, <2>1, <2>6, SameMemory
    <2>8. QED
      BY <2>3, <2>7
  <1>5. QED
    BY <1>1, <1>2, <1>3, <1>4 DEF ProcessStep

\* The calls on the interrupt table.
LEMMA RoutingLocks ==
  ASSUME irq_lock \subseteq CPUs, NEW c \in CPUs,
         RoutingCall(c) \/ RoutingStep(c) \/ (\E v \in Vectors : irq_handler(c, v))
           \/ DispatchRead(c)
  PROVE  irq_lock' \subseteq CPUs
  BY DEF RoutingCall, RoutingStep, irq_handler, DispatchRead, irq_route, irq_enable,
         irq_disable, SetFlag, ClearFlag, RouteType, RouteCapability, TakeIrqLock

\* Routing and dispatch: a CPU with pages in hand is not routing.
LEMMA IrqTables ==
  ASSUME ManagerInv, TablesInv, NEW c \in CPUs,
         RoutingCall(c) \/ RoutingStep(c) \/ (\E v \in Vectors : irq_handler(c, v))
           \/ DispatchRead(c),
         UNCHANGED <<mm, dvars, svars, arg, pvars>>
  PROVE  ServiceIds' /\ ProcessIds' /\ MemoryInv'
  <1>1. \/ UNCHANGED pc
        \/ \E from, to \in {"idle"} \cup LockedPlaces :
             pc[c] = from /\ pc' = [pc EXCEPT ![c] = to]
    BY DEF RoutingCall, RoutingStep, irq_handler, DispatchRead, irq_route, irq_enable,
           irq_disable, SetFlag, ClearFlag, RouteType, RouteCapability, Goto, LockedPlaces,
           RoutePlaces
  <1>2. {"idle"} \cup LockedPlaces \subseteq Places \ Hand
    BY DEF Places, Open, LockedPlaces, RoutePlaces, Hand
  <1>3. \A k \in CPUs : pc[k] \in Hand \/ pc'[k] \in Hand
                        => pc'[k] = pc[k] /\ arg'[k] = arg[k]
    BY <1>1, <1>2, Aside
  <1>4. MemoryInv'
    <2>1. /\ UNCHANGED <<mm, domains, leaked, next_pid>> /\ MemoryInv
          /\ mm' \in State /\ domains' \in 0 .. MAX_DOMAINS /\ domains' >= domains
      BY ManagerConstants DEF TablesInv, MemoryInv, dvars, pvars
    <2>2. QED
      BY <1>3, <2>1, SameMemory
  <1>5. QED
    BY <1>4 DEF TablesInv, ServiceIds, ProcessIds, svars, pvars

LEMMA BeginTables ==
  ASSUME ManagerInv, TablesInv, NEW c \in CPUs, Begin(c)
  PROVE  /\ ServiceIds' /\ ProcessIds' /\ MemoryInv'
         /\ service_lock' \in CPUs \cup {Free} /\ process_lock' \in CPUs \cup {Free}
         /\ irq_lock' \subseteq CPUs
  <1>0. /\ service_lock \in CPUs \cup {Free} /\ process_lock \in CPUs \cup {Free}
        /\ irq_lock \subseteq CPUs /\ MemoryInv /\ ServiceIds /\ ProcessIds
    BY DEF TablesInv, LocksInv
  <1>1. CASE \/ service_create(c) \/ process_exit(c)
             \/ \E op \in {"start", "stop", "restart", "fault", "terminate"},
                   id \in 0 .. num_services : BeginService(c, op, id)
    <2>1. /\ UNCHANGED <<services, next_service_id, pvars, mm, ivars>>
          /\ service_lock' \in {c, service_lock} /\ domains' \in {domains, domains + 1}
          /\ domains' # domains => domains < MAX_DOMAINS
      BY <1>1 DEF service_create, NewDomain, process_exit, BeginService, svars, dvars
    <2>2. domains' \in 0 .. MAX_DOMAINS /\ domains' >= domains /\ mm' \in State
      BY <1>0, <2>1, ManagerConstants DEF MemoryInv
    <2>3. \A k \in CPUs : k # c => arg'[k] = arg[k]
      BY <1>1 DEF service_create, process_exit, BeginService, ManagerInv, ManagerType
    <2>4. PICK to \in {"naming", "exiting", "start", "stop", "restart", "fault", "terminate"} :
            pc[c] = "idle" /\ pc' = [pc EXCEPT ![c] = to]
      BY <1>1 DEF service_create, process_exit, BeginService, Goto
    <2>5. "idle" \in Places \ Hand /\ to \in Places \ Hand
      BY DEF Places, Open, Inside, Hand
    <2>6. \A k \in CPUs : pc[k] \in Hand \/ pc'[k] \in Hand
                          => pc'[k] = pc[k] /\ arg'[k] = arg[k]
      BY <2>3, <2>4, <2>5, Aside
    <2>7. MemoryInv'
      BY <1>0, <2>1, <2>2, <2>6, SameMemory DEF pvars
    <2>8. ServiceIds' /\ ProcessIds'
      BY <1>0, <2>1 DEF ServiceIds, ProcessIds, pvars
    <2>9. QED
      BY <1>0, <2>1, <2>7, <2>8 DEF pvars, ivars
  <1>2. CASE process_create(c)
    <2>1. next_pid \in Nat \ {0}
      BY <1>0 DEF ProcessIds
    <2>2. MemoryInv'
      BY <1>0, <1>2, <2>1, CreateProcessMemory
    <2>3. /\ UNCHANGED <<svars, processes, next_pid, irq_lock>>
          /\ process_lock' \in {c, process_lock}
      BY <1>2 DEF process_create, ivars
    <2>4. QED
      BY <1>0, <2>2, <2>3 DEF ServiceIds, ProcessIds, svars
  <1>3. CASE /\ RoutingCall(c) \/ \E v \in Vectors : irq_handler(c, v)
             /\ UNCHANGED <<mm, dvars, svars, arg, pvars>>
    <2>1. ServiceIds' /\ ProcessIds' /\ MemoryInv'
      BY <1>3, IrqTables
    <2>2. irq_lock' \subseteq CPUs
      BY <1>0, <1>3, RoutingLocks
    <2>3. QED
      BY <1>0, <1>3, <2>1, <2>2 DEF svars, pvars
  <1>4. QED
    BY <1>1, <1>2, <1>3 DEF Begin

LEMMA StepTables ==
  ASSUME ManagerInv, TablesInv, NEW c \in CPUs, Step(c)
  PROVE  /\ ServiceIds' /\ ProcessIds' /\ MemoryInv'
         /\ service_lock' \in CPUs \cup {Free} /\ process_lock' \in CPUs \cup {Free}
         /\ irq_lock' \subseteq CPUs
  <1>0. /\ service_lock \in CPUs \cup {Free} /\ process_lock \in CPUs \cup {Free}
        /\ irq_lock \subseteq CPUs /\ MemoryInv /\ ServiceIds /\ ProcessIds
    BY DEF TablesInv, LocksInv
  <1>1. CASE ServiceStep(c)
    <2>1. ServiceIds' /\ MemoryInv'
      BY <1>0, <1>1, ServiceStepIds, ServiceStepMemory
    <2>2. UNCHANGED <<pvars, ivars>> /\ service_lock' \in {c, Free, service_lock}
      BY <1>1 DEF ServiceStep, NameService, ClearService, service_start, service_stop,
         service_restart, Enter, StartThread, StopService, Leave, FindRestarted, CountRestart,
         service_handle_fault, MarkError, service_terminate, svars
    <2>3. QED
      BY <1>0, <2>1, <2>2 DEF ProcessIds, pvars, ivars
  <1>2. CASE ProcessStep(c)
    <2>1. ProcessIds' /\ MemoryInv'
      BY <1>0, <1>2, ProcessStepTables
    <2>2. UNCHANGED <<svars, ivars>> /\ process_lock' \in {Free, process_lock}
      BY <1>2 DEF ProcessStep, CreateDomain, CreateTables, TablesFail, Unwind, WritePid,
         WriteNew, MarkTerminated
    <2>3. QED
      BY <1>0, <2>1, <2>2 DEF ServiceIds, svars, ivars
  <1>3. CASE /\ RoutingStep(c) \/ DispatchRead(c)
             /\ UNCHANGED <<mm, dvars, svars, arg, pvars>>
    <2>1. ServiceIds' /\ ProcessIds' /\ MemoryInv'
      BY <1>3, IrqTables
    <2>2. irq_lock' \subseteq CPUs
      BY <1>0, <1>3, RoutingLocks
    <2>3. QED
      BY <1>0, <1>3, <2>1, <2>2 DEF svars, pvars
  <1>4. QED
    BY <1>1, <1>2, <1>3 DEF Step

LEMMA NextTablesInv == ManagerInv /\ TablesInv /\ [Next]_vars => TablesInv'
  <1> SUFFICES ASSUME ManagerInv, TablesInv, [Next]_vars PROVE TablesInv'
    OBVIOUS
  <1>1. CASE UNCHANGED vars
    BY <1>1 DEF vars, svars, pvars, ivars, TablesInv, ServiceIds, ProcessIds, MemoryInv,
                MemoryAccounted, PagesInHand, LocksInv, dvars
  <1>2. ASSUME NEW c \in CPUs, made < MaxCalls /\ made' = made + 1 /\ Begin(c)
        PROVE  TablesInv'
    <2>1. /\ ServiceIds' /\ ProcessIds' /\ MemoryInv'
          /\ service_lock' \in CPUs \cup {Free} /\ process_lock' \in CPUs \cup {Free}
          /\ irq_lock' \subseteq CPUs
      BY <1>2, BeginTables
    <2>2. made' \in 0 .. MaxCalls
      BY <1>2, ManagerConstants DEF TablesInv, LocksInv
    <2>3. QED
      BY <2>1, <2>2 DEF TablesInv, LocksInv
  <1>3. ASSUME NEW c \in CPUs, UNCHANGED made /\ Step(c)
        PROVE  TablesInv'
    <2>1. /\ ServiceIds' /\ ProcessIds' /\ MemoryInv'
          /\ service_lock' \in CPUs \cup {Free} /\ process_lock' \in CPUs \cup {Free}
          /\ irq_lock' \subseteq CPUs
      BY <1>3, StepTables
    <2>2. made' \in 0 .. MaxCalls
      BY <1>3 DEF TablesInv, LocksInv
    <2>3. QED
      BY <2>1, <2>2 DEF TablesInv, LocksInv
  <1>4. QED
    BY <1>1, <1>2, <1>3 DEF Next

\* The service and process tables stay well formed and hold every id once, and
\* the pages of processes are those of the creations that succeeded, of the one
\* at work, and what the failed ones left behind, whatever the CPUs interleave.
THEOREM TablesStaySound == Spec => []TablesSound
  <1>1. ManagerInv /\ IrqInv /\ TablesInv => TablesSound
    <2> SUFFICES ASSUME ManagerInv, IrqInv, TablesInv PROVE TablesSound
      OBVIOUS
    <2>1. IrqTypeOK
      BY DEF IrqInv, IrqType, Entry, Types, Target, Dispatcher, IrqTypeOK, TablesInv, LocksInv
    <2>2. IdsUnique /\ MemoryAccounted
      BY DEF TablesInv, ServiceIds, ProcessIds, MemoryInv, IdsUnique
    <2>3. \A s \in SSlots :
            /\ services[s].service_id \in 0 .. next_service_id - 1
            /\ services[s].state \in {"STOPPED", "RUNNING", "ERROR"}
            /\ services[s].restart_count \in Nat
      BY DEF ManagerInv, ManagerType, ServiceType, Service, States, TablesInv, ServiceIds
    <2>4. \A s \in PSlots :
            /\ processes[s].process_id \in 0 .. next_pid - 1
            /\ processes[s].state \in {"NEW", "TERMINATED"}
      BY DEF ManagerInv, ManagerType, ProcessType, Process, TablesInv, ProcessIds
    <2>5. TypeOK
      BY <2>1, <2>3, <2>4 DEF TypeOK, TablesInv, MemoryInv, LocksInv
    <2>6. QED
      BY <2>2, <2>5 DEF TablesSound
  <1>2. QED
    BY <1>1, ManagersStaySound, InitIrqInv, NextIrqInv, InitTablesInv, NextTablesInv, PTL
       DEF Spec
=============================================================================
