------------------------------ MODULE Managers ------------------------------
(***************************************************************************)
(* The service manager and the process manager of Core-0                   *)
(* (Core-0/service/service.c, Core-0/process/process.c) on the frame       *)
(* allocator, with the interrupt routing table, used by several CPUs.      *)
(*                                                                         *)
(* SERVICE_STATE_STOPPED and PROCESS_STATE_NEW are 0, and both managers    *)
(* take a slot whose state is 0 for a free one.                            *)
(*                                                                         *)
(* The two managers have a lock each.  Creating, starting and stopping a   *)
(* service, and creating a process, hold it from the test of a state to    *)
(* the writes, in steps of their own, because service_handle_fault,        *)
(* service_restart and process_exit write the same fields without it.      *)
(* service_terminate calls service_stop with the lock held and never comes *)
(* back.  A creation that finds no slot or no domain changes nothing.      *)
(*                                                                         *)
(* The ids that service_create and process_create read after their unlock  *)
(* are not tracked: callers use any service id given out so far, and 0,    *)
(* which service_create returns when it fails.                             *)
(*                                                                         *)
(* Domains are counted, with the id of the next one (see Capability for    *)
(* the tables).  The page table of a process is one page: at this commit   *)
(* cap_check refuses process_create's mappings, which name capability 0.   *)
(* Thread slots are not counted: sched_create_thread may find none.        *)
(* g_current_pid is never assigned, so process_exit acts for pid 0.        *)
(* Abstracted: names, addresses and sizes, exit codes, uptime, num_threads *)
(* and last_error, which are stored; process_fork, process_exec,           *)
(* process_wait, process_kill and the other system calls, which are empty. *)
(***************************************************************************)
EXTENDS PhysMem, IrqRouting

CONSTANTS
  MAX_SERVICES, MAX_PROCESSES,
  MAX_DOMAINS,     \* domain slots, and page tables for ids below it
  ProcPages,       \* pages process_create allocates: 256 in the code
  RestartLimit,    \* 3 in the code
  MaxCalls         \* bound: calls the CPUs make in a behaviour

ASSUME ManagerConstants ==
  /\ MAX_SERVICES \in Nat \ {0} /\ MAX_PROCESSES \in Nat \ {0}
  /\ MAX_DOMAINS \in Nat /\ ProcPages \in Nat \ {0}
  /\ RestartLimit \in Nat /\ MaxCalls \in Nat
  /\ {"KERNEL", "APPLICATION"} \subseteq UsedTypes
  /\ 0 \notin CPUs /\ total_pages > 1

VARIABLES
  domains, next_domain_id,                  \* domains in use, and the next id
  services, num_services, next_service_id,  \* g_service_manager
  service_lock,                             \* the CPU holding its lock
  arg,          \* a CPU's service or domain id, the slot it has found and its
                \* block of memory; history: the state a fault was found in
  processes, next_pid,                      \* g_process_manager
  process_lock,                             \* the CPU holding its lock
  leaked,       \* history: pages of failed process creations that stay taken
  made          \* calls made so far

svars == <<services, num_services, next_service_id, service_lock>>
pvars == <<processes, next_pid, process_lock, leaked>>
dvars == <<domains, next_domain_id>>
vars == <<pc, ivars, mm, dvars, svars, arg, pvars, made>>

Free == 0   \* a lock nobody holds; CPUs are not 0
SSlots == 0 .. MAX_SERVICES - 1
PSlots == 0 .. MAX_PROCESSES - 1
NoService == [service_id |-> 0, state |-> "STOPPED", restart_count |-> 0]
NoArg == [id |-> 0, slot |-> 0, page |-> 0, seen |-> "STOPPED"]
NoProcess == [process_id |-> 0, state |-> "NEW"]

\* The memory from one page up.
From(page) == mm_reserve(mm_init, page, total_pages - page, "AVAILABLE", 0)

\* kernel_init: mm_init and its regions, which begin at page 0 or 1 or leave a
\* hole behind page 0, irq_init, service_init and process_init.
Init ==
  /\ pc = [c \in CPUs |-> "idle"]
  /\ irq_init
  /\ mm \in {From(0), From(1), mm_reserve(From(2), 0, 1, "AVAILABLE", 0)}
  /\ domains = 0 /\ next_domain_id = 1
  /\ services = [s \in SSlots |-> NoService]
  /\ num_services = 0 /\ next_service_id = 1 /\ service_lock = Free
  /\ arg = [c \in CPUs |-> NoArg]
  /\ processes = [s \in PSlots |-> NoProcess] /\ next_pid = 1
  /\ process_lock = Free /\ leaked = 0
  /\ made = 0

-----------------------------------------------------------------------------
\* The first slot of a table that satisfies a condition.
First(slots, ok) == {s \in slots : s \in ok /\ \A t \in 0 .. s - 1 : t \notin ok}

\* service_get: the first slot with that id.
service_get(id) == First(SSlots, {s \in SSlots : services[s].service_id = id})

FreeServiceSlot == First(SSlots, {s \in SSlots : services[s].state = "STOPPED"})

\* cap_create_domain.
NewDomain ==
  /\ domains < MAX_DOMAINS
  /\ domains' = domains + 1 /\ next_domain_id' = next_domain_id + 1

\* service_create: a slot whose state is 0, and a domain.
service_create(c) ==
  /\ Goto(c, "idle", "naming") /\ service_lock = Free /\ service_lock' = c
  /\ \E s \in FreeServiceSlot : arg' = [arg EXCEPT ![c].slot = s]
  /\ NewDomain
  /\ UNCHANGED <<services, num_services, next_service_id, mm, pvars, ivars>>
\* The id is written, and the name,
NameService(c) ==
  /\ Goto(c, "naming", "clearing")
  /\ services' = [services EXCEPT ![arg[c].slot].service_id = next_service_id]
  /\ next_service_id' = next_service_id + 1
  /\ UNCHANGED <<num_services, service_lock, mm, dvars, arg, pvars, ivars>>
\* then the other fields.
ClearService(c) ==
  /\ Goto(c, "clearing", "idle")
  /\ services' = [services EXCEPT ![arg[c].slot].state = "STOPPED",
                                  ![arg[c].slot].restart_count = 0]
  /\ num_services' = num_services + 1
  /\ service_lock' = Free /\ arg' = [arg EXCEPT ![c] = NoArg]
  /\ UNCHANGED <<next_service_id, mm, dvars, pvars, ivars>>

\* A call for a service id; what it does first.
BeginService(c, op, id) ==
  /\ Goto(c, "idle", op)
  /\ arg' = [arg EXCEPT ![c] = [NoArg EXCEPT !.id = id]]
  /\ UNCHANGED <<svars, mm, dvars, pvars, ivars>>

\* The state service_start and service_stop require.
Wanted(op) == IF op = "start" THEN {"STOPPED"} ELSE {"RUNNING"}

\* Mutant: the lock is taken without waiting for it.
Enter_NoWait(c, op, inside) ==
  /\ pc[c] = op
  /\ \E s \in service_get(arg[c].id) :
       /\ services[s].state \in Wanted(op)
       /\ Goto(c, op, inside)
       /\ service_lock' = c
       /\ arg' = [arg EXCEPT ![c].slot = s]
  /\ UNCHANGED <<services, num_services, next_service_id, mm, dvars, pvars, ivars>>

\* service_start and service_stop up to the test of the state: the call goes
\* on with the lock, or gives it back and fails.
Enter(c, op, inside) ==
  /\ pc[c] = op /\ service_lock = Free
  /\ \/ \E s \in service_get(arg[c].id) :
          /\ services[s].state \in Wanted(op)
          /\ Goto(c, op, inside)
          /\ service_lock' = c
          /\ arg' = [arg EXCEPT ![c].slot = s]
     \/ /\ \A s \in service_get(arg[c].id) : services[s].state \notin Wanted(op)
        /\ Goto(c, op, "idle")
        /\ arg' = [arg EXCEPT ![c] = NoArg]
        /\ UNCHANGED service_lock
  /\ UNCHANGED <<services, num_services, next_service_id, mm, dvars, pvars, ivars>>

service_start(c) == Enter(c, "start", "starting")
service_stop(c) == Enter(c, "stop", "stopping")
\* service_restart, called by name or by service_handle_fault, stops first.
service_restart(c) == \E op \in {"restart", "recover"} : Enter(c, op, "restopping")

\* The write of the state, and spin_unlock.
Leave(c, state) ==
  /\ services' = [services EXCEPT ![arg[c].slot].state = state]
  /\ service_lock' = Free
  /\ UNCHANGED <<num_services, next_service_id, dvars, pvars, ivars>>

\* Mutant: the lock is kept when no thread can be created.
StartThread_KeepsLock(c) ==
  /\ Goto(c, "starting", "idle")
  /\ arg' = [arg EXCEPT ![c] = NoArg]
  /\ \/ \E p \in FirstFit(mm, 1, 1) :
          /\ mm' = mm_alloc(mm, p, 1, "KERNEL", 0)
          /\ Leave(c, IF p = 0 THEN services[arg[c].slot].state ELSE "RUNNING")
     \/ UNCHANGED <<mm, svars, dvars, pvars, ivars>>

\* The rest of service_start: sched_create_thread takes a stack, of one page
\* here; a stack at page 0 is taken for a failure and stays allocated.  It fails
\* without a thread slot or without memory.
StartThread(c) ==
  /\ Goto(c, "starting", "idle")
  /\ arg' = [arg EXCEPT ![c] = NoArg]
  /\ \/ \E p \in FirstFit(mm, 1, 1) :
          /\ mm' = mm_alloc(mm, p, 1, "KERNEL", 0)
          /\ Leave(c, IF p = 0 THEN services[arg[c].slot].state ELSE "RUNNING")
     \/ UNCHANGED mm /\ Leave(c, services[arg[c].slot].state)

\* The rest of service_stop; service_restart goes on.
StopService(c) ==
  /\ \/ Goto(c, "stopping", "idle") /\ arg' = [arg EXCEPT ![c] = NoArg]
     \/ /\ Goto(c, "restopping", "counting")
        /\ arg' = [arg EXCEPT ![c] = [NoArg EXCEPT !.id = arg[c].id]]
  /\ Leave(c, "STOPPED")
  /\ UNCHANGED mm

\* service_restart finds the service again and adds to its restart_count, both
\* without the lock, and calls service_start.
FindRestarted(c) ==
  /\ pc[c] = "counting"
  /\ \/ \E s \in service_get(arg[c].id) :
          Goto(c, "counting", "counted") /\ arg' = [arg EXCEPT ![c].slot = s]
     \/ service_get(arg[c].id) = {} /\ Goto(c, "counting", "start") /\ UNCHANGED arg
  /\ UNCHANGED <<svars, mm, dvars, pvars, ivars>>
CountRestart(c) ==
  /\ Goto(c, "counted", "start")
  /\ services' = [services EXCEPT ![arg[c].slot].restart_count = @ + 1]
  /\ UNCHANGED <<num_services, next_service_id, service_lock, mm, dvars, arg,
                 pvars, ivars>>

\* service_handle_fault finds the service, and later writes through the
\* pointer, both without the lock.
service_handle_fault(c) ==
  /\ pc[c] = "fault"
  /\ \/ \E s \in service_get(arg[c].id) :
          Goto(c, "fault", "faulting") /\ arg' = [arg EXCEPT ![c].slot = s]
     \/ /\ service_get(arg[c].id) = {}
        /\ Goto(c, "fault", "idle") /\ arg' = [arg EXCEPT ![c] = NoArg]
  /\ UNCHANGED <<svars, mm, dvars, pvars, ivars>>
MarkError(c) ==
  LET s == arg[c].slot
      again == services[s].restart_count < RestartLimit
  IN  /\ Goto(c, "faulting", IF again THEN "recover" ELSE "idle")
      /\ arg' = [arg EXCEPT ![c] =
           IF again THEN [NoArg EXCEPT !.id = arg[c].id, !.seen = services[s].state]
           ELSE NoArg]
      /\ services' = [services EXCEPT ![s].state = "ERROR"]
      /\ UNCHANGED <<num_services, next_service_id, service_lock, mm, dvars,
                     pvars, ivars>>

\* service_terminate: an unknown id is refused; otherwise service_stop waits
\* for the lock its caller holds.
service_terminate(c) ==
  /\ pc[c] = "terminate" /\ service_lock = Free
  /\ \/ /\ service_get(arg[c].id) # {}
        /\ Goto(c, "terminate", "stuck") /\ service_lock' = c /\ UNCHANGED arg
     \/ /\ service_get(arg[c].id) = {}
        /\ Goto(c, "terminate", "idle") /\ arg' = [arg EXCEPT ![c] = NoArg]
        /\ UNCHANGED service_lock
  /\ UNCHANGED <<services, num_services, next_service_id, mm, dvars, pvars, ivars>>

ServiceStep(c) ==
  \/ NameService(c) \/ ClearService(c)
  \/ service_start(c) \/ service_stop(c) \/ service_restart(c)
  \/ StartThread(c) \/ StopService(c) \/ FindRestarted(c) \/ CountRestart(c)
  \/ service_handle_fault(c) \/ MarkError(c) \/ service_terminate(c)

-----------------------------------------------------------------------------
FreeProcessSlot == First(PSlots, {s \in PSlots : processes[s].state = "NEW"})

\* process_create: a slot whose state is 0, and memory.  A block at page 0 is
\* taken for a failure.
process_create(c) ==
  /\ pc[c] = "idle" /\ process_lock = Free
  /\ \E s \in FreeProcessSlot, p \in FirstFit(mm, ProcPages, 1) :
       /\ mm' = mm_alloc(mm, p, ProcPages, "APPLICATION", 0)
       /\ \/ /\ p # 0 /\ Goto(c, "idle", "domain")
             /\ process_lock' = c /\ UNCHANGED leaked
             /\ arg' = [arg EXCEPT ![c].slot = s, ![c].page = p]
          \/ /\ p = 0 /\ Goto(c, "idle", "idle")
             /\ leaked' = leaked + ProcPages /\ UNCHANGED <<process_lock, arg>>
  /\ UNCHANGED <<processes, next_pid, svars, dvars, ivars>>

\* A failure: mm_free returns one page of the block, and the call ends.
Unwind(c, from, m) ==
  /\ Goto(c, from, "idle")
  /\ mm' = mm_free(m, arg[c].page)
  /\ leaked' = leaked + ProcPages - 1
  /\ process_lock' = Free /\ arg' = [arg EXCEPT ![c] = NoArg]

\* Mutant: the memory is not returned when no domain is left.
CreateDomain_NoFree(c) ==
  /\ Goto(c, "domain", "idle") /\ domains = MAX_DOMAINS
  /\ leaked' = leaked + ProcPages - 1
  /\ process_lock' = Free /\ arg' = [arg EXCEPT ![c] = NoArg]
  /\ UNCHANGED <<mm, dvars, processes, next_pid, svars, ivars>>

\* The domain of the process.
CreateDomain(c) ==
  /\ \/ /\ Goto(c, "domain", "tables") /\ NewDomain
        /\ arg' = [arg EXCEPT ![c].id = next_domain_id]
        /\ UNCHANGED <<mm, process_lock, leaked>>
     \/ domains = MAX_DOMAINS /\ Unwind(c, "domain", mm) /\ UNCHANGED dvars
  /\ UNCHANGED <<processes, next_pid, svars, ivars>>

\* No page table: cap_delete_domain and mm_free.
TablesFail(c, m) ==
  /\ Unwind(c, "tables", m)
  /\ domains' = domains - 1 /\ UNCHANGED next_domain_id

\* isolation_create_page_tables: the id has a place in its array, and there is
\* a page, not page 0.
CreateTables(c) ==
  /\ pc[c] = "tables"
  /\ \/ /\ arg[c].id < MAX_DOMAINS
        /\ \E p \in FirstFit(mm, 1, 1) :
             LET m == mm_alloc(mm, p, 1, "KERNEL", 0) IN
             \/ p = 0 /\ TablesFail(c, m)
             \/ /\ p # 0 /\ Goto(c, "tables", "pid") /\ mm' = m
                /\ UNCHANGED <<arg, dvars, process_lock, leaked>>
     \/ /\ arg[c].id >= MAX_DOMAINS \/ FirstFit(mm, 1, 1) = {}
        /\ TablesFail(c, mm)
  /\ UNCHANGED <<processes, next_pid, svars, ivars>>

\* The id is written, then the state; the mappings are refused.
WritePid(c) ==
  /\ Goto(c, "pid", "new")
  /\ processes' = [processes EXCEPT ![arg[c].slot].process_id = next_pid]
  /\ next_pid' = next_pid + 1
  /\ UNCHANGED <<process_lock, leaked, mm, dvars, arg, svars, ivars>>
WriteNew(c) ==
  /\ Goto(c, "new", "idle")
  /\ processes' = [processes EXCEPT ![arg[c].slot].state = "NEW"]
  /\ process_lock' = Free /\ arg' = [arg EXCEPT ![c] = NoArg]
  /\ UNCHANGED <<next_pid, leaked, mm, dvars, svars, ivars>>

\* process_exit: process_get(0) finds the first slot whose id is 0, and the
\* state is written through the pointer, without the lock.
process_exit(c) ==
  /\ pc[c] = "idle"
  /\ \E s \in First(PSlots, {t \in PSlots : processes[t].process_id = 0}) :
       arg' = [arg EXCEPT ![c].slot = s]
  /\ Goto(c, "idle", "exiting")
  /\ UNCHANGED <<svars, mm, dvars, pvars, ivars>>
MarkTerminated(c) ==
  /\ Goto(c, "exiting", "idle")
  /\ processes' = [processes EXCEPT ![arg[c].slot].state = "TERMINATED"]
  /\ arg' = [arg EXCEPT ![c] = NoArg]
  /\ UNCHANGED <<svars, mm, dvars, next_pid, process_lock, leaked, ivars>>

ProcessStep(c) ==
  \/ CreateDomain(c) \/ CreateTables(c) \/ WritePid(c) \/ WriteNew(c)
  \/ MarkTerminated(c)

Begin(c) ==
  \/ service_create(c)
  \/ \E op \in {"start", "stop", "restart", "fault", "terminate"},
        id \in 0 .. num_services : BeginService(c, op, id)
  \/ process_create(c) \/ process_exit(c)
  \/ RoutingCall(c) /\ UNCHANGED <<mm, dvars, svars, arg, pvars>>
  \/ \E v \in Vectors :
       irq_handler(c, v) /\ UNCHANGED <<mm, dvars, svars, arg, pvars>>

Step(c) ==
  \/ ServiceStep(c) \/ ProcessStep(c)
  \/ (RoutingStep(c) \/ DispatchRead(c)) /\ UNCHANGED <<mm, dvars, svars, arg, pvars>>

Next ==
  \E c \in CPUs :
    \/ made < MaxCalls /\ made' = made + 1 /\ Begin(c)
    \/ UNCHANGED made /\ Step(c)

\* A CPU inside a call keeps executing it.
Spec ==
  /\ Init /\ [][Next]_vars
  /\ \A c \in CPUs : WF_vars(UNCHANGED made /\ Step(c))

-----------------------------------------------------------------------------
\* The managers' tables are well formed.
TypeOK ==
  /\ IrqTypeOK /\ mm \in State
  /\ \A s \in SSlots :
       /\ services[s].service_id \in 0 .. next_service_id - 1
       /\ services[s].state \in {"STOPPED", "RUNNING", "ERROR"}
       /\ services[s].restart_count \in Nat
  /\ \A s \in PSlots :
       /\ processes[s].process_id \in 0 .. next_pid - 1
       /\ processes[s].state \in {"NEW", "TERMINATED"}
  /\ service_lock \in CPUs \cup {Free} /\ process_lock \in CPUs \cup {Free}
  /\ domains \in 0 .. MAX_DOMAINS
  /\ made \in 0 .. MaxCalls

\* A service that is RUNNING keeps its slot, and one that has failed loses it
\* only to a creation that had found the slot STOPPED before the fault: the
\* test and the writes of service_create are apart, and service_handle_fault
\* does not wait for the lock.
ActiveServiceKept ==
  [][\A s \in SSlots :
       /\ services[s].state # "STOPPED"
       /\ services'[s].service_id # services[s].service_id
       => /\ services[s].state = "ERROR"
          /\ \E c \in CPUs : pc[c] = "naming" /\ arg[c].slot = s]_vars

\* A service that was RUNNING when service_handle_fault marked it, with a low
\* restart count, is restarted: service_restart does not turn it down.
FaultAttemptsRestart ==
  [][\A c \in CPUs :
       pc[c] = "recover" /\ arg[c].id # 0 /\ arg[c].seen = "RUNNING"
       => pc'[c] # "idle"]_vars

\* The managers' locks are given back on every path of every call but
\* service_terminate.
LockReleased ==
  /\ service_lock # Free ~> (service_lock = Free \/ \E c \in CPUs : pc[c] = "stuck")
  /\ process_lock # Free ~> process_lock = Free

\* Pages of a process that is being created and has no id yet.
PagesInHand ==
  IF \E c \in CPUs : pc[c] \in {"domain", "tables", "pid"} THEN ProcPages ELSE 0

\* Pages of type APPLICATION are those of the processes created so far, which
\* are never returned, of the one being created, and what failed creations left
\* behind: all but one page of a block, or all of a block at page 0.
MemoryAccounted ==
  Cardinality({p \in Pages : mm.frames[p].type = "APPLICATION"})
    = ProcPages * (next_pid - 1) + PagesInHand + leaked

\* No two slots hold the same service or the same process.
IdsUnique ==
  /\ \A s, u \in SSlots :
       services[s].service_id = services[u].service_id
       => s = u \/ services[s].service_id = 0
  /\ \A s, u \in PSlots :
       processes[s].process_id = processes[u].process_id
       => s = u \/ processes[s].process_id = 0

\* The managers' tables: well formed, one slot per id, and every page of a
\* process accounted for after successful and failed creations.
TablesSound == TypeOK /\ IdsUnique /\ MemoryAccounted

\* Interrupt dispatch needs no lock: an unmasked vector is enabled, and what a
\* dispatcher acts on is one route.
DispatchSound == UnmaskedIsEnabled /\ DispatchIsOneRoute
=============================================================================
