----------------------------- MODULE Capability -----------------------------
(***************************************************************************)
(* The Core-0 capability system (Core-0/capability/capability.c).          *)
(*                                                                         *)
(* A global table of capabilities and a table of isolation domains, each   *)
(* with its own array of capability handles (its "capability space").      *)
(* Every operation runs under one non-reentrant test-and-set spinlock; the *)
(* operations are called by CPUs that interleave.                          *)
(*                                                                         *)
(* Handles are not stored in the table: cap_create hands out               *)
(* next_cap_handle++ for whichever slot was free, and cap_get_capability   *)
(* finds the slot back as (handle - 1) % MAX_CAPABILITIES.                 *)
(*                                                                         *)
(* Abstracted: type, resource_id, resource_base, resource_size, flags and  *)
(* owner_domain of a capability and memory_base, memory_size and state of  *)
(* a domain are stored and read by no operation that completes.            *)
(* Permission bits are sets.                                               *)
(***************************************************************************)
EXTENDS Integers, FiniteSets

CONSTANTS
  CPUs,                   \* processors that call into Core-0
  MAX_CAPABILITIES,       \* slots of the global capability table
  MAX_DOMAINS,            \* slots of the domain table
  DOMAIN_CAP_SPACE_SIZE,  \* handles one domain can hold
  Perms,                  \* permission bits
  CAP_PERM_GRANT,         \* the bit that allows cap_grant
  UINT32_RANGE,           \* ref_count is a uint32_t: it wraps at 2^32
  MaxHandle,              \* bound: handles generated in a behaviour
  MaxDomainId,            \* bound: domain ids generated in a behaviour
  MaxDeletes              \* bound: completed or running cap_delete calls

ASSUME CapConstants ==
  /\ MAX_CAPABILITIES \in Nat \ {0}
  /\ MAX_DOMAINS \in Nat \ {0}
  /\ DOMAIN_CAP_SPACE_SIZE \in Nat \ {0}
  /\ UINT32_RANGE \in Nat \ {0, 1}
  /\ MaxHandle \in Nat /\ MaxDomainId \in Nat /\ MaxDeletes \in Nat
  /\ CAP_PERM_GRANT \in Perms

\* Grants are counted in ref_count and never counted back when a new domain
\* clears the slot they went to: 2^32 leaves room for 256 domain slots and
\* millions of domains created, with 64 handles each.
ASSUME RefCountFits ==
  (MAX_DOMAINS + MaxDomainId) * DOMAIN_CAP_SPACE_SIZE + 1 < UINT32_RANGE

VARIABLES
  capabilities,     \* the global table; magic = FALSE is a free slot
  domains,          \* the domain table; domain_id = 0 is a free slot
  next_cap_handle,
  next_domain_id,
  num_caps,
  num_domains,
  lock,             \* g_cap_system.lock
  pc,               \* where each CPU is inside this component
  call,             \* arguments and locals of the call a CPU is in
  minted,           \* history: the handle cap_create returned for a slot
  deletes           \* history: number of cap_delete calls that began

tables == <<capabilities, domains, next_cap_handle, next_domain_id,
            num_caps, num_domains>>
vars == <<capabilities, domains, next_cap_handle, next_domain_id, num_caps,
          num_domains, lock, pc, call, minted, deletes>>

Slots == 0 .. MAX_CAPABILITIES - 1
DomSlots == 0 .. MAX_DOMAINS - 1
SpaceIdx == 0 .. DOMAIN_CAP_SPACE_SIZE - 1
Handles == 0 .. MaxHandle
DomainIds == 0 .. MaxDomainId

Cap == [magic: BOOLEAN, permissions: SUBSET Perms,
        ref_count: 0 .. UINT32_RANGE - 1]
Domain == [domain_id: DomainIds, cap_space: [SpaceIdx -> Handles],
           num_caps: 0 .. DOMAIN_CAP_SPACE_SIZE]
NoCap == [magic |-> FALSE, permissions |-> {}, ref_count |-> 0]
NoDomain == [domain_id |-> 0, cap_space |-> [i \in SpaceIdx |-> 0],
             num_caps |-> 0]
NoCall == [handle |-> 0, slot |-> 0, index |-> 0, id |-> 0]

-----------------------------------------------------------------------------
(* Lookups.  A lookup is the set of the slot it finds: {} stands for NULL. *)

\* Mutant: the search takes the last free slot instead of the first.
FreeSlot_Last == {s \in Slots : /\ ~capabilities[s].magic
                                /\ \A t \in Slots : t > s => capabilities[t].magic}

\* First slot of the capability table without the magic number.
FreeSlot == {s \in Slots : /\ ~capabilities[s].magic
                           /\ \A t \in 0 .. s - 1 : capabilities[t].magic}

\* cap_get_capability: the slot a handle denotes.
cap_get_capability(h) ==
  {s \in Slots : /\ h # 0 /\ h < next_cap_handle
                 /\ capabilities[s].magic
                 /\ s = (h - 1) % MAX_CAPABILITIES}

\* cap_get_domain: the first slot with that id.  Id 0 finds a free slot.
cap_get_domain(id) ==
  {s \in DomSlots : /\ domains[s].domain_id = id
                    /\ \A t \in 0 .. s - 1 : domains[t].domain_id # id}

\* The domain record after cap_domain_add_cap found room in it.
AddCap(dom, h) ==
  [domain_id |-> dom.domain_id,
   cap_space |-> [dom.cap_space EXCEPT ![dom.num_caps] = h],
   num_caps  |-> dom.num_caps + 1]

\* cap_domain_add_cap returns 0: the domain exists and its space has room.
CanAdd(id) ==
  \E s \in cap_get_domain(id) : domains[s].num_caps < DOMAIN_CAP_SPACE_SIZE

\* The domain table after cap_domain_add_cap(id, h), whatever it returns.
cap_domain_add_cap(id, h) ==
  [s \in DomSlots |->
     IF s \in cap_get_domain(id) /\ domains[s].num_caps < DOMAIN_CAP_SPACE_SIZE
     THEN AddCap(domains[s], h) ELSE domains[s]]

\* i is the first used position of the space that holds h.
FirstAt(dom, h, i) ==
  /\ i \in SpaceIdx /\ i < dom.num_caps
  /\ dom.cap_space[i] = h
  /\ \A j \in 0 .. i - 1 : dom.cap_space[j] # h

\* Mutant: the shift leaves the old last entry behind.
RemoveAt_NoZero(dom, i) ==
  [domain_id |-> dom.domain_id,
   cap_space |-> [j \in SpaceIdx |->
                    IF i <= j /\ j < dom.num_caps - 1
                    THEN dom.cap_space[j + 1]
                    ELSE dom.cap_space[j]],
   num_caps  |-> dom.num_caps - 1]

\* The domain record after the entry at i is shifted out and zeroed.
RemoveAt(dom, i) ==
  [domain_id |-> dom.domain_id,
   cap_space |-> [j \in SpaceIdx |->
                    IF j = dom.num_caps - 1 THEN 0
                    ELSE IF i <= j /\ j < dom.num_caps - 1
                    THEN dom.cap_space[j + 1]
                    ELSE dom.cap_space[j]],
   num_caps  |-> dom.num_caps - 1]

\* cap_domain_remove_cap finds the handle in the domain with that id.
CanRemove(id, h) ==
  \E s \in cap_get_domain(id) : \E i \in SpaceIdx : FirstAt(domains[s], h, i)

\* The domain table after cap_domain_remove_cap(id, h): one entry removed.
cap_domain_remove_cap(id, h) ==
  [s \in DomSlots |->
     IF s \in cap_get_domain(id) /\ \E i \in SpaceIdx : FirstAt(domains[s], h, i)
     THEN RemoveAt(domains[s], CHOOSE i \in SpaceIdx : FirstAt(domains[s], h, i))
     ELSE domains[s]]

\* cap_check returns 0.  The scan covers the whole array, unused part too.
cap_check(id, h, permission) ==
  \E s \in cap_get_domain(id) :
    /\ \E i \in SpaceIdx : domains[s].cap_space[i] = h
    /\ \E c \in cap_get_capability(h) :
         permission \subseteq capabilities[c].permissions

-----------------------------------------------------------------------------
(* Operations.  A call whose whole body runs between one spin_lock and its *)
(* spin_unlock is one step; a failing lookup unlocks and changes nothing.  *)

\* A CPU that is outside the component enters it and gets the lock.
Enter(c) == pc[c] = "idle" /\ lock = 0

cap_init ==
  /\ capabilities = [s \in Slots |-> NoCap]
  /\ domains = [s \in DomSlots |-> NoDomain]
  /\ next_cap_handle = 1
  /\ next_domain_id = 1
  /\ num_caps = 0
  /\ num_domains = 0
  /\ lock = 0

Init ==
  /\ cap_init
  /\ pc = [c \in CPUs |-> "idle"]
  /\ call = [c \in CPUs |-> NoCall]
  /\ minted = [s \in Slots |-> 0]
  /\ deletes = 0

cap_create(c, perms, id) ==
  /\ Enter(c)
  /\ next_cap_handle <= MaxHandle
  /\ \E s \in FreeSlot :
       /\ capabilities' = [capabilities EXCEPT ![s] =
            [magic |-> TRUE, permissions |-> perms, ref_count |-> 1]]
       /\ minted' = [minted EXCEPT ![s] = next_cap_handle]
  /\ domains' = cap_domain_add_cap(id, next_cap_handle)
  /\ next_cap_handle' = next_cap_handle + 1
  /\ num_caps' = num_caps + 1
  /\ UNCHANGED <<next_domain_id, num_domains, lock, pc, call, deletes>>

\* cap_delete finds the capability and starts its loop over all domains.
cap_delete(c, h) ==
  /\ Enter(c)
  /\ deletes < MaxDeletes
  /\ \E s \in cap_get_capability(h) :
       call' = [call EXCEPT ![c] = [NoCall EXCEPT !.handle = h, !.slot = s]]
  /\ lock' = 1
  /\ pc' = [pc EXCEPT ![c] = "delete"]
  /\ deletes' = deletes + 1
  /\ UNCHANGED <<capabilities, domains, next_cap_handle, next_domain_id,
                 num_caps, num_domains, minted>>

\* One iteration: remove the handle from the domain whose id is in slot i.
DeleteFromDomain(c) ==
  LET i == call[c].index IN
  /\ pc[c] = "delete" /\ i < MAX_DOMAINS
  /\ domains' = cap_domain_remove_cap(domains[i].domain_id, call[c].handle)
  /\ call' = [call EXCEPT ![c].index = i + 1]
  /\ UNCHANGED <<capabilities, next_cap_handle, next_domain_id, num_caps,
                 num_domains, lock, pc, minted, deletes>>

\* After the loop the slot is cleared and the lock released.
DeleteClear(c) ==
  /\ pc[c] = "delete" /\ call[c].index = MAX_DOMAINS
  /\ capabilities' = [capabilities EXCEPT ![call[c].slot] = NoCap]
  /\ minted' = [minted EXCEPT ![call[c].slot] = 0]
  /\ num_caps' = num_caps - 1
  /\ lock' = 0
  /\ pc' = [pc EXCEPT ![c] = "idle"]
  /\ call' = [call EXCEPT ![c] = NoCall]
  /\ UNCHANGED <<domains, next_cap_handle, next_domain_id, num_domains, deletes>>

\* Mutant: granting does not count the new holder.
cap_grant_NoCount(c, h, id) ==
  /\ Enter(c)
  /\ \E s \in cap_get_capability(h) :
       /\ CAP_PERM_GRANT \in capabilities[s].permissions
       /\ CanAdd(id)
  /\ domains' = cap_domain_add_cap(id, h)
  /\ UNCHANGED <<capabilities, next_cap_handle, next_domain_id, num_caps,
                 num_domains, lock, pc, call, minted, deletes>>

\* The failing grants change nothing; the caller still gets the handle when
\* only cap_domain_add_cap failed.
cap_grant(c, h, id) ==
  /\ Enter(c)
  /\ \E s \in cap_get_capability(h) :
       /\ CAP_PERM_GRANT \in capabilities[s].permissions
       /\ CanAdd(id)
       /\ capabilities' = [capabilities EXCEPT ![s].ref_count = (@ + 1) % UINT32_RANGE]
  /\ domains' = cap_domain_add_cap(id, h)
  /\ UNCHANGED <<next_cap_handle, next_domain_id, num_caps, num_domains,
                 lock, pc, call, minted, deletes>>

cap_revoke(c, h, id) ==
  /\ Enter(c)
  /\ \E s \in cap_get_capability(h) :
       /\ CanRemove(id, h)
       /\ capabilities' = [capabilities EXCEPT ![s].ref_count = (@ - 1) % UINT32_RANGE]
  /\ domains' = cap_domain_remove_cap(id, h)
  /\ UNCHANGED <<next_cap_handle, next_domain_id, num_caps, num_domains,
                 lock, pc, call, minted, deletes>>

\* Mutant: a domain that holds nothing counts as a free slot.
cap_create_domain_ReuseEmpty(c) ==
  /\ Enter(c)
  /\ next_domain_id <= MaxDomainId
  /\ \E s \in DomSlots :
       /\ domains[s].num_caps = 0
       /\ \A t \in 0 .. s - 1 : domains[t].num_caps # 0
       /\ domains' = [domains EXCEPT ![s] =
            [NoDomain EXCEPT !.domain_id = next_domain_id]]
       /\ call' = [call EXCEPT ![c] =
            [NoCall EXCEPT !.slot = s, !.id = next_domain_id]]
  /\ next_domain_id' = next_domain_id + 1
  /\ num_domains' = num_domains + 1
  /\ pc' = [pc EXCEPT ![c] = "return"]
  /\ UNCHANGED <<capabilities, next_cap_handle, num_caps, lock, minted, deletes>>

\* The locked part of cap_create_domain; the CPU then still has to read
\* domain->domain_id for the return value, without the lock.
cap_create_domain(c) ==
  /\ Enter(c)
  /\ next_domain_id <= MaxDomainId
  /\ \E s \in cap_get_domain(0) :
       /\ domains' = [domains EXCEPT ![s] =
            [NoDomain EXCEPT !.domain_id = next_domain_id]]
       /\ call' = [call EXCEPT ![c] =
            [NoCall EXCEPT !.slot = s, !.id = next_domain_id]]
  /\ next_domain_id' = next_domain_id + 1
  /\ num_domains' = num_domains + 1
  /\ pc' = [pc EXCEPT ![c] = "return"]
  /\ UNCHANGED <<capabilities, next_cap_handle, num_caps, lock, minted, deletes>>

\* The unlocked read of domain->domain_id that the caller gets.
ReturnDomainId(c) ==
  /\ pc[c] = "return"
  /\ pc' = [pc EXCEPT ![c] = "idle"]
  /\ call' = [call EXCEPT ![c] = NoCall]
  /\ UNCHANGED <<tables, lock, minted, deletes>>

\* Callers (process_create, service_terminate) pass an id that
\* cap_create_domain has returned: not 0, and not one still being returned.
ReturnedId(id) ==
  id # 0 /\ \A c \in CPUs : pc[c] = "return" => call[c].id # id

\* The domain holds nothing: the loop calls nothing and the slot is cleared.
cap_delete_domain(c, id) ==
  /\ Enter(c)
  /\ ReturnedId(id)
  /\ \E s \in cap_get_domain(id) :
       /\ \A i \in SpaceIdx : domains[s].cap_space[i] = 0
       /\ domains' = [domains EXCEPT ![s] = NoDomain]
  /\ num_domains' = num_domains - 1
  /\ UNCHANGED <<capabilities, next_cap_handle, next_domain_id, num_caps,
                 lock, pc, call, minted, deletes>>

\* The domain holds a handle: the loop calls cap_revoke, whose spin_lock
\* waits for the lock this CPU holds.
DeleteDomainRevokes(c, id) ==
  /\ Enter(c)
  /\ ReturnedId(id)
  /\ \E s \in cap_get_domain(id) :
       \E i \in SpaceIdx : domains[s].cap_space[i] # 0
  /\ lock' = 1
  /\ pc' = [pc EXCEPT ![c] = "spin"]
  /\ UNCHANGED <<tables, call, minted, deletes>>

\* cap_derive calls cap_create, which takes the lock again.
cap_derive(c, h) ==
  /\ Enter(c)
  /\ cap_get_capability(h) # {}
  /\ lock' = 1
  /\ pc' = [pc EXCEPT ![c] = "spin"]
  /\ UNCHANGED <<tables, call, minted, deletes>>

Next ==
  \E c \in CPUs :
    \/ \E perms \in SUBSET Perms, id \in DomainIds : cap_create(c, perms, id)
    \/ \E h \in Handles : cap_delete(c, h)
    \/ DeleteFromDomain(c)
    \/ DeleteClear(c)
    \/ \E h \in Handles, id \in DomainIds : cap_grant(c, h, id)
    \/ \E h \in Handles, id \in DomainIds : cap_revoke(c, h, id)
    \/ cap_create_domain(c)
    \/ ReturnDomainId(c)
    \/ \E id \in DomainIds : cap_delete_domain(c, id)
    \/ \E id \in DomainIds : DeleteDomainRevokes(c, id)
    \/ \E h \in Handles : cap_derive(c, h)

Spec == Init /\ [][Next]_vars
-----------------------------------------------------------------------------
(* Properties. *)

\* Every variable has the type its C declaration gives it.
TypeOK ==
  /\ capabilities \in [Slots -> Cap]
  /\ domains \in [DomSlots -> Domain]
  /\ next_cap_handle \in 1 .. MaxHandle + 1
  /\ next_domain_id \in 1 .. MaxDomainId + 1
  /\ num_caps \in Int /\ num_domains \in Int
  /\ lock \in {0, 1}
  /\ pc \in [CPUs -> {"idle", "delete", "spin", "return"}]
  /\ call \in [CPUs -> [handle: Handles, slot: Nat, index: Nat,
                        id: DomainIds]]
  /\ minted \in [Slots -> Handles]
  /\ deletes \in Nat

\* The spinlock is held exactly while some CPU is in the middle of an
\* operation that spans several steps, and by one CPU only.
LockExcludes ==
  LET inside == {c \in CPUs : pc[c] \in {"delete", "spin"}} IN
  /\ lock = 1 <=> inside # {}
  /\ \A a, b \in inside : a = b

\* num_caps and num_domains, which are only ever incremented and decremented
\* next to the table updates, agree with the tables in every state.
CountsExact ==
  /\ num_caps = Cardinality({s \in Slots : capabilities[s].magic})
  /\ num_domains = Cardinality({s \in DomSlots : domains[s].domain_id # 0})

\* One domain's space holds handles below next in its first num_caps entries.
Packed(dom, next) ==
  \A i \in SpaceIdx : /\ i < dom.num_caps => dom.cap_space[i] \in 1 .. next - 1
                      /\ i >= dom.num_caps => dom.cap_space[i] = 0

\* A capability space is packed: the first num_caps entries are handles that
\* were generated and the rest is zero.  cap_check scans the whole array and
\* relies on the part behind num_caps holding no old handle.
SpacePacked == \A s \in DomSlots : Packed(domains[s], next_cap_handle)

\* Two domain slots in use never carry the same id, and no id is one that is
\* still to be handed out: cap_get_domain finds the domain that was meant.
DomainIdsUnique ==
  \A s \in DomSlots :
    /\ domains[s].domain_id < next_domain_id
    /\ \A t \in DomSlots :
         domains[s].domain_id = domains[t].domain_id
           => s = t \/ domains[s].domain_id = 0

\* cap_create_domain reads its return value from the table after it released
\* the lock; what it reads is the id of the domain it created.
ReturnedIdIsOwn ==
  \A c \in CPUs :
    pc[c] = "return" => /\ call[c].slot \in DomSlots
                        /\ domains[call[c].slot].domain_id = call[c].id

\* A handle that cap_check accepts was generated for a capability that still
\* exists, and leads to the slot of that capability.
OwnHandlePasses ==
  \A id \in DomainIds, h \in Handles :
    cap_check(id, h, {}) =>
      \E s \in Slots : /\ capabilities[s].magic
                       /\ minted[s] = h
                       /\ s \in cap_get_capability(h)

\* cap_delete ends a capability for every domain: a handle whose capability was
\* deleted passes cap_check in no domain, also when the slot is in use again.
StaleHandleDenied ==
  \A id \in DomainIds \ {0}, h \in 1 .. next_cap_handle - 1 :
    (\A s \in Slots : minted[s] # h) => ~cap_check(id, h, {})

\* The handle cap_create returned finds the capability it created.
CreatedHandleResolves ==
  \A s \in Slots :
    capabilities[s].magic => s \in cap_get_capability(minted[s])

\* The entries of all capability spaces that hold a capability's handle.
Holders(h) ==
  {e \in DomSlots \X SpaceIdx : domains[e[1]].cap_space[e[2]] = h}

\* Until the first cap_delete, handles and slots agree: the handle cap_create
\* returned finds its capability, and cap_check accepts no other.  The numbers
\* of cap_create's slot and of its handle advance together only so long.
HandlesSoundUntilDelete ==
  deletes = 0 => CreatedHandleResolves /\ OwnHandlePasses

\* Until the first cap_delete, a capability's ref_count never falls below the
\* number of capability-space entries that hold it, so it cannot reach 0 while
\* a domain still holds it.
RefCountCoversHolders ==
  \A s \in Slots :
    deletes = 0 /\ capabilities[s].magic =>
      Cardinality(Holders(minted[s])) <= capabilities[s].ref_count

\* The bookkeeping beside the tables: every index and counter stays within its
\* bounds, one CPU at a time is inside an operation, num_domains and num_caps
\* are the numbers of entries, and ref_count covers the holders.
TablesSound == TypeOK /\ LockExcludes /\ CountsExact /\ RefCountCoversHolders

\* A domain id names one domain for ever, also the one cap_create_domain reads
\* after its unlock and returns.
DomainIdsSound == DomainIdsUnique /\ ReturnedIdIsOwn
=============================================================================
