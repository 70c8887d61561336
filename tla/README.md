# HIK in TLA+

A verification project for the HIK kernel (`src/`): TLA+ modules translated from
the C sources, TLC runs on small instances, and TLAPS proofs for every instance.
File names below are relative to the repository.

## 1. The system

HIK is a three-part operating system. **Core-0** is the arbiter: capabilities,
physical frames, threads, page tables, interrupt routing, services and
processes. **Core-1** is the run-time library of a privileged service: a heap,
IPC, a region table and a life cycle. **Core-3** is the run-time library of an
application: a heap and IPC stubs. A BIOS or UEFI **bootloader** starts Core-0.

| Component | Source | State | Operations | Hard behaviour |
|---|---|---|---|---|
| Capability system | `Core-0/capability/capability.c` | table of capabilities, table of domains with a capability space each, two id counters, one spinlock | `cap_create`, `cap_delete`, `cap_grant`, `cap_revoke`, `cap_check`, `cap_derive`, `cap_create_domain`, `cap_delete_domain`, add and remove | CPUs interleave; slots are reused, handles are not; calls of locking functions under the lock; a read after the unlock |
| Frame allocator | `Core-0/mm/mm.c` | frame table, two counters | `mm_init`, `mm_alloc`, `mm_free`, `mm_reserve` | one-pass search, alignment, fragmentation, counter wrap |
| Scheduler | `Core-0/sched/sched.c` | thread table, current slot, counters | create, terminate, block, unblock, `sched_schedule` | timer at any moment; READY = 0 = unused; fairness; stacks from the frame allocator |
| Page tables, domains, call gates | `Core-0/isolation/isolation.c` | page tables, gate table | map, unmap, switch, call gates | failure half way, stale TLB entries |
| Interrupt routing | `Core-0/irq/irq.c` | routing table | `irq_route`, dispatch | dispatcher reads without the lock; timer against the scheduler's lock |
| Service manager | `Core-0/service/service.c` | service table | create, start, stop, restart, terminate, fault handling | lock taken twice; restart from ERROR |
| Process manager | `Core-0/process/process.c` | process table | create, terminate, map memory | error paths over three other components |
| Start-up | `Core-0/startup/kernel.c` | boot information | order of initialisation | halts before the first subsystem (line 120) |
| IPC ring | `Core-1/ipc/ipc.c` | data, `head`, `tail` | `ipc_ring_write`, `ipc_ring_read` | producer and consumer without a lock, wrapping indices |
| IPC endpoints, channels | `Core-1/ipc/ipc.c` | linked list under `g_ipc_lock` | register, unregister, find, send, channels | handler called with the lock held; pointers used after the unlock |
| Core-1 heap | `Core-1/mm/physical_mem.c` | block list in the memory it manages | `pmm_alloc`, `pmm_free`, `pmm_validate`, `pmm_stats` | splitting and merging |
| Core-1 regions | `Core-1/isolation/isolation.c` | region table | add, remove, find, access check | bound checked before the lock; pointer into a table that shifts |
| Core-1 service framework, example service | `Core-1/service/service.c`, `core1.c`, `examples/network_service.c` | service state, error count, the example's connection | init, start, stop, restart, cleanup, error reports | callbacks between two critical sections; an error handler that reports errors |
| Core-3 heap | `Core-3/mm/virtual_mem.c` | block list, `used` counter | `vmm_alloc`, `vmm_free`, `realloc`, `calloc`, ... | `realloc` copies without the lock |
| Core-3 run time, IPC stubs | `Core-3/core3.c`, `ipc/ipc.c` | - | - | placeholders |
| Libraries | `Core-0/lib`, `Core-1/lib`, `Core-3/lib` | - | memory, strings, `snprintf` | counts that run out, overlap, the last byte of a buffer |
| UEFI loader | `Bootloader/x86_64/uefi` | handles and memory held, configuration, image, memory map | configure, menu, load, verify, hand over | every firmware call may fail; the map key goes stale |
| BIOS loader | `Bootloader/x86_64/boot` | - | load, verify, hand over | reads no sector at this commit; its hash and number functions are complete |

How they interact: the scheduler, the process manager and the page tables take
frames from the frame allocator; services and processes create domains and
capabilities; `core1_init` fills the region table and registers the service; the
timer interrupt calls `sched_schedule`; Core-1's endpoint nodes and channels live on
the Core-1 heap; a service registers handlers that `ipc_send` calls back.

What makes each correct: no handle gives access to a capability it was not
created for, and no table overflows (capabilities); memory belongs to one owner
at a time (frames, heaps); one thread runs, no thread is lost, every ready thread
runs (scheduler); bytes arrive in order and once (ring); a name denotes one live
endpoint (registry); an access is allowed exactly where a region covers it and a
stop completes (Core-1); a failed creation or start leaves tables, memory and
locks as they should be (managers); what the loader takes it gives back, and the
kernel is told the truth about its memory (UEFI). `PROJECT.json` lists the hazards
line by line with the properties that cover them.

## 2. Modules

| Module | Models | Uses |
|---|---|---|
| `Capability` | `capability.c` | - |
| `PhysMem` | the state of `mm.c`, a record, and its operations as operators on it | - |
| `MmClients` | the frame allocator with callers that allocate, keep and free | extends `PhysMem` |
| `Sched` | `sched.c` with its stacks | extends `PhysMem` |
| `AddressSpaces` | the page tables of Core-0's `isolation.c` | extends `PhysMem` |
| `ByteFifo` | what the ring promises: a bounded FIFO of bytes (abstract) | - |
| `IpcRing` | the ring of `ipc.c` | instantiates `ByteFifo` |
| `Heap` | the block list both heaps implement, and its operations as operators on it | - |
| `IpcEndpoints` | endpoints and channels of `ipc.c` on the Core-1 heap | extends `Heap` |
| `Vmm` | the Core-3 heap with `realloc` and `calloc` | extends `Heap` |
| `Regions` | the region table of Core-1's `isolation.c` | extends `ServiceThreads` |
| `ServiceFramework` | the life cycle of `service.c` with the callbacks of `network_service.c` | extends `ServiceThreads` |
| `Core1` | `core1.c`: a service brought up and used by several threads | extends `Regions`, `ServiceFramework` |
| `IrqRouting` | `irq.c` | - |
| `Managers` | Core-0's `service.c` and `process.c` | extends `PhysMem`, `IrqRouting` |
| `UefiBoot` | the UEFI loader from `UefiMain` to the jump | - |
| `CMemory` | the memory C strings live in | - |
| `Core0Strings`, `Core1Strings`, `Core3Strings`, `BiosUtil`, `UefiUtil` | the string and number functions of each part | extend `CMemory` |
| `Sha384` | buffering and padding of the two hash implementations | - |
| `Library` | the libraries side by side, and what their functions promise | extends `Core1Strings`, `Sha384`, instantiates the others |
| `MCCapability`, `MCAddressSpaces`, `MCCore1`, `MCManagers`, `MCUefi`, `MCLibrary` | constants and symmetry sets | |
| `MCMemory`, `MCIpc`, `MCBoot` | parts that share no state, side by side in one run (section 3) | extend `Sched`, `MmClients`, `Vmm`; `IpcEndpoints`, `IpcRing`; `MCUefi`, `MCLibrary` |
| `CapabilityProofs`, `SchedProofs`, `AddressSpaceProofs`, `ManagersProofs`, `UefiBootProofs` | theorems about the module of that name | |
| `PhysMemProofs` | theorems about `PhysMem` and `MmClients` | |
| `Core1Proofs` | theorems about `Core1` and `IpcRing` | |
| `HeapProofs` | theorems about `Heap`, `Vmm` and `IpcEndpoints` | |

Definitions keep the names of the C functions. Names of the form `f_Bug` (marked
"Mutant" in the source) are deliberate variants of `f` that show that a property
can fail.

**Atomicity.** A function that runs from lock to unlock is one step, if it calls
nothing that waits. Where it does not, it is several: `cap_delete` walks the
domains one by one with the lock held; `cap_create_domain` and
`sched_create_thread` read their result after the unlock; `cap_derive` and
`cap_delete_domain` stop in state `"spin"` when they call a function that takes
their own lock; `ipc_send` holds the lock while the handler runs; `realloc`
copies between two critical sections; `isolation_add_region` tests for a full
table before it locks, and the Core-1 access functions touch memory after they
unlocked; service callbacks run between two critical sections; `irq_route` writes
and `irq_handler` reads an entry field by field; `service_handle_fault`,
`service_restart` and `process_exit` write without a lock, so `service_create`,
`service_start`, `service_stop` and `process_create`, which hold it, are steps from
the test of a slot or a state to each write of it. The ring has no lock: every byte copied and
every index published is a step. Calls that fail change nothing and are not
steps.

**Capability.** `capabilities` and `domains` are the two tables, `minted` is a
history variable with the handle `cap_create` returned for a slot, `deletes`
counts calls of `cap_delete`. `cap_get_capability` finds a slot as
`(handle - 1) % MAX_CAPABILITIES`, as the code does.

**PhysMem.** A state is a record with the frame table and the counters.
`FirstFit` is a declarative description of the search, and `Scan` the loop of
`mm_alloc` page by page; that they agree is checked (run `Memory`) and proved.

**Sched.** The tick `sched_schedule` changes state only when it finds another READY
slot; then the outgoing thread becomes READY whatever its state was.

**AddressSpaces.** `content` is what every frame holds when it is read as a table;
the walk through four levels goes through it, so a table in a reused or shared
frame would be seen. `isolation_map_memory` takes no lock: it goes page by page,
and another CPU that works on another domain allocates in between. A domain itself
is worked on by one CPU at a time, as its callers run under the process manager's
lock or during boot. `mapped` is a history variable with the mappings that the
calls add up to. A mapping call is one whose capability passes `cap_check`.

**Heap.** A block list is a function from header addresses to headers with the
code's links and sizes. Header size (25 bytes, packed), rounding to 8 and the
split threshold are the code's. Requests whose size with padding and header is no
64-bit number (`Fits64`) are left out: they break the list (section 5).

**Regions.** Entry `regions[MAX_MEM_REGIONS]` is the memory behind the table, where
`num_regions` and `enabled` lie: an addition that passed the unlocked test too late
overwrites both. `contended` records that two threads were past that test together,
`changed` that a region was removed or checking was switched since a thread's check.

**ServiceFramework, Core1.** `call` says what a thread is doing between critical
sections, `overtaken` that a stop came before a start callback had run. The main
thread runs `core1_init` and `core1_main`; the others call everything afterwards.

**Managers.** Domains are counted, with the id of the next one, rather than modelled
again; a process has `ProcPages` pages and a page table of one page, since `cap_check`
refuses its mappings. `arg` is what a call keeps between its steps: the id, the slot it
found, its block of memory, and (history) the state a fault found the service in.
`leaked` counts what the code's own error paths leave behind, page by page as they
return them. Callers use any id given out so far, and 0, which a failed creation
returns and which leads to an unused slot. A CPU in `service_terminate` ends in
`"stuck"`.

**UefiBoot.** One thread of control; each firmware call is a step with both
outcomes. `held` is what the loader owns, `mapped` what the memory map shows as
owned, `current` that the map key is the newest. Reading address 0 after
`ConfigFindKey` returned `NULL` gives an empty text or loses the machine. A key's
scan code is never the code of a digit, as the UEFI specification's table of scan
codes (and no source of this repository) says.

**Library.** `LibraryInit` and one call: every function is applied to every memory of five
cells and all arguments the C standard allows; the results of all parts are compared
with a declarative definition (`Expected`, `Deciding`, `Joined`, `Blocks`). These
modules are recursive, one round per iteration of the loop, and are not the subject
of proofs.

**IpcEndpoints.** A node is a record with the block it lives in. Names are model
values; those of 64 characters or more are compared in full and stored truncated.

## 3. Runs

Passing runs:

| Run | Bounds | What it shows |
|---|---|---|
| `Cap_Tables` | 2 CPUs, 2 slots, 2 domains, spaces of 2, 3 handles, 2 domain ids, 1 deletion | mutual exclusion, exact counters, packed spaces, unique domain ids, unlocked read of the id harmless; before the first deletion handles and slots agree and `ref_count` covers the holders |
| `Memory`, clients | 5 of 9 frames, requests of 1-2 pages, alignment 1-2 | blocks stay with their owner; first fit is complete for one-page alignment; the loop computes `FirstFit` |
| `Memory`, threads | 3 slots, 3 ids, 9 frames, stacks of 2, 2 terminations, 2 callers | one RUNNING thread and it is current; unique ids; stacks disjoint until the first termination |
| `Memory`, heap | 140 bytes, sizes 1, 8, 20, counts 2 and 13, 2 threads | `vmm_validate` would succeed in every state; `used` exact; allocations usable; the unlocked copy stays inside both blocks |
| `Ipc`, ring | capacity 4, indices modulo 8, calls of up to 3 bytes, 2 byte values | the ring refines `ByteFifo`, is never overfull, and a copy touches no byte of the other side; indices wrap many times |
| `Ipc`, registry | 180 bytes, 2 threads, 3 names (one too long), 5 ids | heap sound and merged, no leak, no dangling node, unique ids and names, handler's endpoint not freed |
| `Iso_Spaces` | 2 CPUs, 2 domains, 9 frames, tables of 2 entries (16 virtual pages), calls of 1-2 pages, 3 creations | the four levels hold exactly the mappings made and not removed, also when memory runs out half way; no table is shared, linked twice or mapped; the access check agrees with the mappings |
| `Core1_Service` | 3 threads, 3 calls beyond the start-up, 5 regions of which 4 are taken at the start, 8 addresses, 2 layouts, both services | verdicts and accesses exact, pointers into the table good until a removal, overrun only by a race, stops exclude each other and complete, callbacks in the order of the states |
| `Core0_Managers` | 2 CPUs, 4 calls, 2 service and 2 process slots, 3 domains, 6 frames, 1 vector with 2 routes | pages of processes accounted for through every failure, one route per dispatch, a running service keeps its slot and a failed one loses it only to a creation whose test came before the fault, the locks are given back |
| `Boot`, loader | texts of up to 3 lines, every kind of kernel, 2 keys, 3 lists of ACPI tables, a countdown of 3 | everything used is held and given back once, only a kernel with the right magic that the verification did not refuse gets to the hand-over, with sound boot information, and the loader comes to an end |
| `Boot`, library | 5 cells with 3 values, counts up to 3, formats of up to 2 items, numbers of up to 3 digits, hash blocks of 4 bytes in 3 pieces | every function does what it should, or differs exactly as stated; the UEFI loader hashes the standard's blocks |

`Memory`, `Ipc` and `Boot` hold parts that share no state in the system. A variable
`part`, chosen at the start, says which of them runs in a behaviour, and the others
keep their initial state: the run's states are the parts' states one after the other,
not their product. The threads and the clients of `Memory` both use `mm`, in different
behaviours. A property of one part holds in the initial states of the others.

Runs that show a disagreement between the code and what the repository says of it:

| Run | Property | What TLC finds |
|---|---|---|
| `Cap_StaleHandle` | `StaleHandleDenied`: a handle whose capability was deleted is denied ("Subsequent access via invalid handles is denied", README.md:107) | `cap_create` gives handle 1 slot 0; `cap_delete(1)`; `cap_create` gives handle 2 slot 0 again; `cap_grant` accepts handle 1, which resolves to slot 0, for a domain, and `cap_check` lets that domain through with the rights of capability 2. Capability spaces have one entry here, so that this is the story; with two, TLC also finds the handle that was granted twice, of which `cap_delete` (100) removes one entry |
| `Fault_Restart` | `FaultAttemptsRestart`: a fault of a running service with a low restart count restarts it ("Attempt restart if restart count is low", `service.c:240`) | a service is created and started and faults: it is marked ERROR, `service_restart` calls `service_stop`, which turns down every state but RUNNING, and the call is over |
| `Boot_MapKey` | `KeyFresh`: `ExitBootServices` is called with the current key ("Memory map key management", "Jump to kernel entry point", `uefi/IMPLEMENTATION_SUMMARY.md:125, 133`) | the key is read, and the second map, the boot information and the stack are allocated before it is used |
| `Boot_Config` | `EntriesOffered`: a file that defines an entry gives the menu one ("`[entry]`: Defines a boot entry", `uefi/README.md:147`) | the first round takes the title; the second finds none ahead, so all its searches end at `NULL`, and the menu is empty. The file is in the form the parser wants; lines as documented, with blanks around `=` and `[entry]` without `=`, match no key at all |
| `Bios_Padding` | `BiosHashedBlocks`: the BIOS loader hashes the standard's blocks ("Pad out to 112 mod 128", `boot/security/sha384.c:112`) | the empty message gets one zero too many, and the last byte of its length is not hashed |

Other disagreements are in section 5.

Several properties are conjunctions of named parts (`TablesSound`, `RingSound`,
`ThreadsSound`, `AccessChecked`, `HandlesSound`, `StringsExact`, ...): the type
invariant is one of the parts, and each of the others is commented where it is
defined.

**Bounds.** Tables have two or three slots because the defects and the invariants
are about slots being full, reused or adjacent; two of each is where that starts,
three where "the one in between" exists. Numeric ranges (`UINT32_RANGE`,
`INDEX_RANGE`, `SIZE_RANGE`, `COUNTER_RANGE`, `ADDRESS_RANGE`, `WORD`) are small so that wrapping happens.
The real heap header size is kept. `Max...` constants bound id counters and are
guards of the actions that advance them. Deadlock checking is off where ids run
out or where the code itself stops (a spinning CPU, a loader that has ended); it is
on for IPC, where a handler that calls back is the one way to stop (`Stopped`). The region table has one
free place, so that the race for the last one happens; `MaxCalls` bounds the calls
begun by all threads, and every call begun runs to its end. Six frames, in three
layouts of free memory, are too few for what four calls of the managers ask for, so
every failure path is taken, a block at page 0 included.
The hash runs with blocks of four bytes and a word that overflows within the
message; the 2^29 of `Len >> 29` is `HIGH`.

**Fairness.** `Core1` assumes that a thread inside a callback or between two
critical sections goes on (spinlocks are held for a few instructions and threads
are preempted, not abandoned), which `StopCompletes` needs; a thread caught in the
error handler goes on recursing and helps nobody. `Managers` assumes the same of a
CPU inside a call (`LockReleased`); a CPU in `service_terminate` has no step to
take. `UefiBoot` assumes that the processor keeps executing and the firmware's calls
return (`LoaderSettles`). Nobody is ever assumed to begin a call or to press a key.
The other modules are about safety.

**Symmetry.** CPUs, callers, page-table domains and byte values are
interchangeable, and symmetry is used only in runs without liveness properties.

## 4. Proofs

| Theorem | Says | Argument |
|---|---|---|
| `SpacesStaySafe` | `TypeOK` and `SpacePacked` always hold | `SafeSpaces` is their conjunction and is inductive: packing is needed to know that `num_caps` bounds the index that `cap_domain_add_cap` writes, typing to know the handle written is one below `next_cap_handle` |
| `DomainIdsStaySound` | domain ids are unique, and `cap_create_domain` returns the id of its own domain | `DomainIdsSound`; `DomainInv` adds that the id being returned is not 0; no slot in use is overwritten, so the unlocked read is harmless |
| `LockAlwaysExcludes` | one CPU is inside, and then `lock = 1` | inductive with `TypeOK` |
| `HandlesSoundBeforeDelete` | before the first `cap_delete`, created handles resolve and no other passes | `DenseTable`: slots `0 .. n-1` are taken in order and slot `s` has handle `s + 1`; with `SpacePacked`, an accepted handle is one that was created. `deletes` never falls, so the condition holds in the past as well |
| `TablesStaySound` (capabilities) | `TablesSound`: types, mutual exclusion, exact `num_caps` and `num_domains`, and before the first `cap_delete` `ref_count` covers the holders | `CountInv` and `RefInv` on top of the invariants above. The entries that hold a handle are counted: granting adds one to the set, revoking removes one and shifts the rest (a bijection between the sets before and after). A new domain in a slot drops entries without counting back, so `ref_count` only errs upwards; `DenseTable` says which slot a handle counts in |
| `BlocksStayIntact` | frames in use belong to one block and keep type and owner | `MmInv`: typing and intactness; the frames of a first fit are available, those of live blocks are not |
| `ContiguousPagesAreFound` | a request for one-page alignment is met whenever enough contiguous pages are available | from the typing: take the maximal run that contains a free run of n pages and its first page; that page is a candidate |
| `LoopFindsFirstFit`, `SearchIsFirstFit` | the loop of `mm_alloc` returns exactly `FirstFit`, for every frame table | the loop invariant `Scanned`: no candidate lies before the current page, and the pages found so far end a run of available frames at whole pieces of n pages from its start |
| `OneThreadRuns` | at most one RUNNING thread, it is current; ids are unique (`ThreadsSound`) | `SchedInv`: typing, `RunningIsCurrent`, `ThreadIdsUnique` |
| `StacksStayIntact` | until the first termination every live thread has a stack of its own | `StackInv`: a stack is a run of kernel frames, which the search for the next one does not offer; a READY slot taken again drops its stack |
| `TablesSayWhatIsMapped` | the four levels of page tables say exactly what the calls on a domain add up to | `SpaceInv`, below |
| `TablesStayPrivate` | tables are kernel frames, each with one place in one domain, and never mapped | from `SpaceInv`; "one place" is a bijection between the links of a domain and its tables below the root |
| `VerificationIsExact` | `isolation_verify_access` of an aligned range agrees with the mappings of its bytes | from `SpaceInv`, and that the rounded-up number of pages is the number of pages of the bytes |
| `RingStaysSound` | the ring is never overfull, and no byte belongs to both sides | `RingInv`: the bytes in use and those being written fit into the capacity, those being read are in use, and what was copied so far is in its place; so each end's stale view of the other's index errs to the safe side |
| `RingImplementsFifo` | the ring implements `ByteFifo` | the mapping takes the bytes between `tail` and `head`; copying is a stutter, publishing an index is the abstract step. That `INDEX_RANGE` is a multiple of the capacity is what makes positions survive the wrap |
| `StopsExclude` | one thread is inside `service_stop` between STOPPING and STOPPED | `LifeInv`: the property with typing, and that nobody is inside a call before the main thread's step 9, so `service_framework_init` cannot reset the state under a stop |
| `ConnectionFollowsState` | the example is connected exactly while it runs, unless a stop overtook its start callback | `ConnInv`, with `LifeInv`: which callbacks are due or running in each state |
| `OverrunsNeedARace` | a write behind the region table needs two threads past the unlocked test | `TableInv`: unless two threads were past the test together (`contended`), at most one is, it still finds room, and nothing has been overrun (`NoRace`) |
| `RegionsStayDisjoint` | regions whose end does not wrap are disjoint | from `TableInv`: an added region was compared with every entry in the critical section that writes it, and removal only shifts |
| `HeldRegionsStay` | a looked-up entry stays the same region until a removal or a switch of checking | `HeldInv`: held entries are slots of the table; an addition writes at `num_regions`, which is behind them |
| `AccessesAreChecked` | `AccessChecked`: the verdict on a request is exact, and what is touched after the unlock was checked | `AccessInv`, with `TableInv` and `HeldInv`: what a call has verified so far stays covered unless the table changed since |
| `ServicesStayKept` | a running service keeps its slot, and a failed one loses it only to a creation whose test came before the fault | `ManagerInv`: a CPU between test and write holds the lock (`ServiceLocked`), and the slot a creation has found is not RUNNING (`SlotUnstarted`), because only a start, which needs the lock, makes it so; the fault handler, which does not, makes it ERROR |
| `TablesStaySound` (managers) | ids are unique, and the pages of processes are those of the creations that succeeded and what the failed ones left | `TablesInv`: ids below the counters, the locks, and the count of application pages through every step of `process_create`: the pages in hand become a process's or are returned as far as the code returns them, and the page of the page table is a kernel page |
| `VmmHeapStaysSound` | the Core-3 heap passes `vmm_validate`, covers its memory, and `used` is exact | `ListInv` and `CounterInv`, below |
| `AllocationsStayUsable` | an allocation is a used block of its own, large enough, until it is freed | `LiveInv` on top: the live allocations are used blocks, and taking or releasing another block changes neither their headers nor their sizes |
| `CopiesStayInside` | the unlocked copy of `realloc` stays inside two allocated blocks | `MovingInv`: both blocks of a move are used and belong to no other move; the one that is freed is the mover's own |
| `ServiceHeapStaysSound` | the Core-1 heap passes `pmm_validate`, covers its memory, and has no two free neighbours | `MergedInv`: `ListInv`, and that the successor of a free block is used; between the two merges of a free this holds but for the one pair the second merge removes (`Merged`) |
| `MemoryStaysOwned` | endpoints and channels own the used blocks, one each | `OwnerInv`: the blocks of nodes and channels are disjoint and are all the used ones |
| `RegistryStaysSound` | ids and untruncated names denote one endpoint | `RegistryInv`: the property, and that ids in the list are below the next one |
| `SendersEndpointStays` | the endpoint of a running handler stays registered | `HandlerInv`: a thread in a handler holds `g_ipc_lock`, so one is, and nobody else changes the list |
| `HandlesStaySound` | the loader uses what it holds and gives it back once, but for two leaks | `BootInv`, below |
| `HandOverIsSound` | a kernel that gets to the hand-over has the right magic and was not refused, and its boot information is sound | `BootInv`: what is known of the kernel between loading and verification (`Kernel`), and the map shows what was held when it was read (`HeldMaps`) |
| `DispatchStaysSound` | a dispatcher acts on one route unless a routing call for the vector overlaps | `IrqInv`: an entry nobody is writing is one route, and what a dispatcher has read so far agrees with it or `irq_route` wrote meanwhile |

**The page tables.** What a walk finds depends on four frames at once, and the tables
that a walk creates are linked one by one, so no statement about walks alone is
preserved. `AddressSpaceProofs` gives every table its *place*: domain, level and the
digits of the virtual pages found through it. The invariant says that there is such a
labelling with local rules (`Placed`): a root has its domain's place, a link leads to
the place below, a table that is not a root is linked, no two tables have the same
place, tables are kernel frames; that walks show the mappings (`Shows`); and that
mapped pages are application frames. A new table takes the place below its link, which
is free because a table there would already be linked from that entry; clearing or
writing an entry of the last level disturbs one page, because two pages with the same
table and index have the same digits. The invariant holds half way through a walk too,
so a call that runs out of memory is no special case. A domain that loses its root, or
gets a new one, loses its places.

**The heaps.** `vmm_validate` walks the list; the invariant (`ListInv`) says the same of
every block at once: sizes, links both ways, where the list begins and ends. That no
block begins inside another follows from the links only by induction along the list, so
it is stated beside them (`Apart`) and kept by each operation: a split puts its header
strictly inside the block it cuts, a merge removes one. The lemmas `SplitList`,
`MergeList`, `TakeList` and `ReleaseList` say for any list what the operations do, and
both heaps use them. The counter is the number of bytes in used blocks; an allocation
adds an interval disjoint from the others, a free removes it (`UsedBytesOneMore`).

**The loader.** Its state is mostly where it is, so `BootInv` says for each handle and
each buffer at which steps it is held (`HeldFiles`, `HeldBuffers`, `HeldMaps`), for whom
a file is read and that a failed read is a recorded error (`Choice`), and what is known
of the kernel on its way (`Kernel`). Every step keeps every part, for every set of
configuration files, kernels, keys and ACPI tables.

**Counting and loops.** The library's induction theorems take an operator, which the
provers cannot instantiate. `PhysMemProofs` states induction and recursion over sets
and functions instead (`LeastNat`, `SetInduction`, `RecursionExists`), and the loop of
`mm_alloc` is a function over the pages, so what it computes is proved rather than bounded. Cardinalities go through
bijections between the sets before and after a step.

**Assumptions.** All theorems hold for every value of the constants that satisfies the
`ASSUME`s of the module (tables are not empty, ranges are not degenerate); there is no
assumption on the number of CPUs, callers, frames or ids. `IpcRing` assumes that the
capacity divides the index range (both are powers of two), `Core1` room for the four
regions its start-up adds, `Managers` that no CPU is named 0, the free lock, and two pages of memory,
`AddressSpaces` tables of at least two entries. `Capability` assumes
`RefCountFits`: every creation of a domain may drop a full capability space without
counting the references back, and the 32-bit `ref_count` has room for that; with the
code's sizes it takes millions of domain creations to get there. `PhysMemProofs` has the
lemmas on the allocator's operators that the proofs about its callers share.

`Heap` assumes that a heap with a header and 8 bytes more is smaller than 2^64, and that
requests are `Fits64`; `UefiBoot` that configuration texts are sequences of lines.

**Model-checked only**: liveness (`StopCompletes`, `LockReleased`, `LoaderSettles`), which
is outside of the prover's reach (fairness, `ENABLED`), and the libraries
(`StringsExact`, `ConversionsExact`, `HashedBlocks`), which are recursive and only
compared with their references on bounded inputs. Every other property of a passing run
is a theorem.

## 5. Deviations observed

Each was seen in the model or in the code while translating it.

Core-0:

- `cap_derive` (356) calls `cap_create`, and `cap_delete_domain` (255) calls
  `cap_revoke`, with the non-reentrant lock held: the CPU waits for itself, although
  the repository's README.md:45 promises derivation.
- `mm_free` (110) returns one page of a block, while its comment speaks of frames.
- `sched_create_thread` (52) takes state 0 for a free slot, and READY is 0: the
  second of two creations in a row replaces the first thread.
- `sched_schedule` (209) looks at the next `num_threads` slots, not at the table: a
  READY thread further away never runs although the timer ticks.
- `cap_create` (71): after a deletion the slot taken and the handle handed out no
  longer correspond, so a new handle may lead to another capability or to none, and a
  deleted one to the slot's next tenant (run `Cap_StaleHandle`). `cap_delete` (100)
  removes one entry of a domain that was granted the handle twice.
- `mm_alloc` (80): a block at page 0 is taken and 0, the failure code, returned.
- `mm_alloc` (83): a run that is long enough but unaligned makes the search restart
  behind it, overlooking aligned runs that begin inside it.
- `mm_init` (32): `available_pages` starts at `total_pages` while every frame is
  reserved, and drifts; nobody calls `mm_reserve`, so at this commit every
  `mm_alloc` fails.
- `sched_schedule` (225): a thread that was terminated or blocked while current
  becomes READY at the next tick. (213): unused control blocks look READY and run.
- `sched_terminate_thread` (104, 106): a second termination frees the stack page
  again, by then perhaps another thread's, and decrements `num_threads` again.
- `sched_create_thread` (88): the id is read after the unlock; a concurrent creation
  that takes the same READY slot makes both return the same id.
- `pmm_alloc_aligned`, `vmm_alloc_aligned`: the alignment is ignored and pointers
  follow a packed 25-byte header. A request within 32 bytes of 2^64 wraps when padding
  and header are added (`virtual_mem.c:67`): the block is too small for the request,
  and may be too small for its own header, which breaks the list. `calloc`: the product
  wraps, and the caller gets a block for the remainder.
- `ipc_register_endpoint`: a name of 64 characters or more is registered any number
  of times and can be neither found nor unregistered by that name.
- `ipc_send` (166): a handler that calls back into IPC waits for ever.
- `isolation_map_memory` (Core-0): `cap_check` is called with the capability as the
  domain and the capability type as the handle, and every caller passes capability
  0, so no call at this commit gets to its loop, although the self test
  (`Core-0/mmu_test.c:127`) expects success.
- `isolation_verify_access` rounds the size up without the offset of the address in
  its page, so the last page of an unaligned range may go unchecked.
- `isolation_destroy_page_tables` frees the root and leaks the tables below it (the
  code has a TODO); a second `isolation_create_page_tables` leaks all of them.
  `isolation_unmap_memory` invalidates the TLB entry of its first page only.
- `process_create`: `PROCESS_STATE_NEW` is 0, as in an unused slot, so the slot of a
  process that has not run yet is taken again; a failure returns one page of the
  block, and none if the block is at page 0. `process_exit` ("Exit current process",
  149) acts on `g_current_pid`, which nothing sets, so it marks the first unused slot;
  a `process_create` that takes that slot meanwhile is terminated with it, or
  overwrites the exit.
- `service_terminate` (189) takes the lock its own callee takes. A restart after a
  fault starts from ERROR, which `service_stop` rejects (run `Fault_Restart`). A fault
  during a start, a stop or a creation is overwritten by it, and the creation replaces
  the failed service. Id 0, which a failed creation returns, starts an unused slot.
- `strncpy` (84) clears memory without end when the string does not fit, as for a
  long service name, and otherwise leaves the last of the n bytes as it was.
  `strncmp` (63) ignores a difference in the last of the n characters and looks at
  the one behind equal ones. `strchr` does not find characters above 127.

Core-1:

- `isolation_add_region` (49): two threads that race for the last place write behind
  the table, onto `num_regions`, the lock and `enabled`. Sums of address and size
  wrap: a region or a request at the top of the address space passes the overlap
  test and the access check. A pointer from `isolation_get_region` leads to another
  region after a removal.
- `service_start`: a stop that overtakes the start callback leaves the stopped
  service connected. `service_report_error` with the example's handler recurses
  for ever, as the handler logs the error and logging reports it.
- `memmove` (236) copies backwards when the destination lies below an overlapping
  source, where it must copy forwards. `snprintf`: a format that ends in `%l` is
  read past its end; the smallest `int` is printed as `-`.
- `ipc_register_endpoint` (81) and `ipc_find_endpoint` (127) hand out an id and a
  pointer after the unlock.
- `kernel_init` (120): stops in a `hlt` loop before the first subsystem;
  `kernel_log` (56), which it calls before, does too.

UEFI loader (which does not compile as committed: `hal.h:98`, argument counts in
`rsa.c`; it is modelled as it reads):

- `ConfigLoad` looks for `title` first and goes on from the `NULL` that
  `ConfigFindKey` returns when there is none: no file yields an entry (run
  `Boot_Config`), although the documents list multiple entries.
- The menu casts a `CHAR16` to an `EFI_INPUT_KEY`, writes four bytes into it and
  compares a scan code with digits: after a key press it waits for ever, although
  `uefi/IMPLEMENTATION_SUMMARY.md:138` lists "Boot entry selection".
- The memory map's key is always stale when `ExitBootServices` is called, since the
  second map, the boot information and the stack are allocated behind it (none of
  them is in the map): the loader halts there and the kernel is not reached (run
  `Boot_MapKey`).
- The public key is all zeros, so a signed kernel is always refused; an unsigned one
  is started unchecked, with Secure Boot too (against `uefi/README.md:181`).
- `FsOpenVolume` (24) keeps the protocol open when the volume cannot be opened;
  `HalGetMemoryMap`'s buffer is not freed on the failures behind it.
- `ConfigAddEntry`, `ConfigRemoveEntry`, `FsListDirectory` and `HalSetupPaging` have
  no caller.

Hashes: `boot/security/sha384.c` (114) computes the padding before it appends 0x80,
one zero too many (run `Bios_Padding`), so the digest is not SHA-384. Both
implementations add `Len >> 29` to the high word of the length, which is right for
words of 32 bits, and theirs have 64: a piece of 2^29 bytes or more is counted wrongly.

## 6. Not modelled

- Call gates, the TLB and the kernel's own mappings of Core-0's `isolation.c`:
  planned (below).
- Start-up: stops before it initialises anything; its intended order is used for the
  initial states.
- The BIOS loader's sequence: `read_disk_sectors` reads nothing, so `fs_init` rejects
  the boot sector (`fs.c:93`) and stage 2 halts; entering long mode is not written.
- RSA arithmetic and SHA-384's compression function, descriptor tables, the UEFI
  loader's page tables, console output, and the MMU self test.
- Core-3's IPC and Core-1's `ipc_recv` return constants.

In modelled components: fields that no decision reads (priorities, time slices,
resource descriptions, message headers) and read-only lookups.

## 7. Plan

1. *(done)* Capability, frame allocator, scheduler on the frame allocator, ring
   with its abstract FIFO, page tables, the two heaps, endpoints; their first theorems.
2. *(done)* Core-1's region table and service framework; Core-0's managers and
   interrupt routing on the frame allocator; the UEFI loader; the libraries.
3. *(done)* Proofs: capabilities, frame allocator with its search, scheduler, page
   tables, the ring and its refinement, Core-1's region table and life cycle, the
   managers and interrupt dispatch, the two heaps, the endpoint registry, the UEFI
   loader.
4. Core-0 call gates, the TLB and the kernel's mappings, beside the page tables.
5. The timer interrupting a critical section of the scheduler, once the lock
   disables interrupts; start-up and the BIOS loader once they run.
