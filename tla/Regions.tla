------------------------------ MODULE Regions ------------------------------
(***************************************************************************)
(* The region table of a Core-1 service (Core-1/isolation/isolation.c):    *)
(* which addresses the service may read and write, and the checked access  *)
(* functions on top of it.                                                 *)
(*                                                                         *)
(* A scan or an update of the table holds the context's spinlock and is    *)
(* one step.  Three things happen outside it and are steps of their own:   *)
(* the test for a full table, the test of enabled, and the access itself.  *)
(*                                                                         *)
(* Sums of addresses and sizes wrap, as uint64_t does.  regions[MAX] is    *)
(* where num_regions, lock and enabled lie (isolation.h:47): an addition   *)
(* to a full table overwrites num_regions with the region's type and       *)
(* enabled with the upper half of its base.                                *)
(*                                                                         *)
(* Abstracted: virt_base is always phys_base; cap_handle, service_id and   *)
(* domain_id are stored and never read; the bytes that are accessed.       *)
(***************************************************************************)
EXTENDS Integers, Sequences, ServiceThreads

CONSTANTS
  ADDRESS_RANGE,    \* 2^64 in the code
  HIGH_HALF,        \* 2^32 in the code: where the upper half becomes nonzero
  MAX_MEM_REGIONS,
  RegionArgs,       \* the regions callers add
  Ranges            \* the address ranges callers access

Addresses == 0 .. ADDRESS_RANGE - 1
MemPerms == SUBSET {"READ", "WRITE", "EXECUTE", "DEVICE"}

ASSUME RegionConstants ==
  /\ ADDRESS_RANGE \in Nat \ {0} /\ HIGH_HALF \in Nat
  /\ MAX_MEM_REGIONS \in Nat \ {0}
  /\ RegionArgs \subseteq [type: 0 .. MAX_MEM_REGIONS - 1, phys_base: Addresses,
                           size: Addresses, permissions: MemPerms]
  /\ Ranges \subseteq [addr: Addresses, size: Addresses]

Region == [type: 0 .. MAX_MEM_REGIONS - 1, phys_base: Addresses,
           size: Addresses, permissions: MemPerms]
NoRegion == [type |-> 0, phys_base |-> 0, size |-> 0, permissions |-> {}]
Request == [addr: Addresses, size: Addresses, perms: MemPerms]
Slots == 0 .. MAX_MEM_REGIONS - 1
NotHeld == [slot |-> -1, region |-> NoRegion]

VARIABLES
  regions, num_regions, enabled,   \* g_isolation
  rpc,        \* a thread's place in a call of this module
  adding,     \* the region a thread is about to add
  requests,   \* the accesses a thread's call still has to verify
  touches,    \* what the call accesses once they are verified
  held,       \* the region pointer a thread got from isolation_get_region
  changed,    \* history: a region was removed, or enabled changed, since the
              \* thread's access began or its pointer was returned
  contended,  \* history: two threads were past the test for a full table
  overrun     \* history: an entry was written behind the table

rvars == <<regions, num_regions, enabled, rpc, adding, requests, touches, held,
           changed, contended, overrun>>
table == <<regions, num_regions, enabled>>
calls == <<adding, requests, touches, held>>

\* isolation_init.
RegionsInit ==
  /\ regions = [s \in Slots |-> NoRegion]
  /\ num_regions = 0
  /\ enabled = FALSE
  /\ rpc = [t \in Threads |-> "idle"]
  /\ adding = [t \in Threads |-> NoRegion]
  /\ requests = [t \in Threads |-> <<>>]
  /\ touches = [t \in Threads |-> {}]
  /\ held = [t \in Threads |-> NotHeld]
  /\ changed = [t \in Threads |-> FALSE]
  /\ contended = FALSE /\ overrun = FALSE

-----------------------------------------------------------------------------
Plus(a, n) == (a + n) % ADDRESS_RANGE
End(r) == Plus(r.phys_base, r.size)
Used == {s \in Slots : s < num_regions}

\* The comparison isolation_add_region and isolation_validate make.
Overlaps(a, r) == a.phys_base < End(r) /\ End(a) > r.phys_base

\* Mutant: the test for a full table lets one more region in.
isolation_add_region_OneMore(t, a) ==
  /\ rpc[t] = "idle" /\ num_regions <= MAX_MEM_REGIONS
  /\ rpc' = [rpc EXCEPT ![t] = "admitted"]
  /\ adding' = [adding EXCEPT ![t] = a]
  /\ contended' = (contended \/ \E u \in Threads : rpc[u] = "admitted")
  /\ UNCHANGED <<table, requests, touches, held, changed, overrun>>

\* isolation_add_region up to spin_lock: the table is not full.
isolation_add_region(t, a) ==
  /\ rpc[t] = "idle" /\ num_regions < MAX_MEM_REGIONS
  /\ rpc' = [rpc EXCEPT ![t] = "admitted"]
  /\ adding' = [adding EXCEPT ![t] = a]
  /\ contended' = (contended \/ \E u \in Threads : rpc[u] = "admitted")
  /\ UNCHANGED <<table, requests, touches, held, changed, overrun>>

\* Mutant: the new region goes to the front and the others move up.
WriteEntry_Front(a) ==
  /\ num_regions < MAX_MEM_REGIONS
  /\ regions' = [s \in Slots |-> IF s = 0 THEN a ELSE regions[s - 1]]
  /\ num_regions' = num_regions + 1
  /\ UNCHANGED <<enabled, overrun, changed>>

\* The new entry goes behind the last one, or behind the table.
WriteEntry(a) ==
  \/ /\ num_regions < MAX_MEM_REGIONS
     /\ regions' = [regions EXCEPT ![num_regions] = a]
     /\ num_regions' = num_regions + 1
     /\ UNCHANGED <<enabled, overrun, changed>>
  \/ /\ num_regions = MAX_MEM_REGIONS
     /\ num_regions' = a.type + 1
     /\ enabled' = (a.phys_base >= HIGH_HALF)
     /\ overrun' = TRUE
     /\ changed' = [t \in Threads |-> TRUE]
     /\ UNCHANGED regions

FreeOfOverlap(a) == \A s \in Used : ~Overlaps(a, regions[s])

\* The rest of isolation_add_region, under the lock.
AddLocked(t) ==
  /\ rpc[t] = "admitted"
  /\ rpc' = [rpc EXCEPT ![t] = "idle"]
  /\ adding' = [adding EXCEPT ![t] = NoRegion]
  /\ \/ FreeOfOverlap(adding[t]) /\ WriteEntry(adding[t])
     \/ ~FreeOfOverlap(adding[t]) /\ UNCHANGED <<table, overrun, changed>>
  /\ UNCHANGED <<requests, touches, held, contended>>

\* isolation_remove_region: the first entry at base, the rest moves down.
isolation_remove_region(t, base) ==
  /\ rpc[t] = "idle"
  /\ \E s \in Used :
       /\ regions[s].phys_base = base
       /\ \A u \in 0 .. s - 1 : regions[u].phys_base # base
       /\ regions' = [u \in Slots |-> IF s <= u /\ u < num_regions - 1
                                      THEN regions[u + 1] ELSE regions[u]]
  /\ num_regions' = num_regions - 1
  /\ changed' = [u \in Threads |-> TRUE]
  /\ UNCHANGED <<enabled, rpc, calls, contended, overrun>>

SetEnabled(b) ==
  /\ enabled' = b
  /\ changed' = [u \in Threads |-> TRUE]
  /\ UNCHANGED <<regions, num_regions, rpc, calls, contended, overrun>>
isolation_enable == SetEnabled(TRUE)
isolation_disable == SetEnabled(FALSE)

-----------------------------------------------------------------------------
\* [addr, addr + size) lies in the region, by the wrapping sums of the code.
Encloses(r, q) == q.addr >= r.phys_base /\ Plus(q.addr, q.size) <= End(r)

\* The verdict of isolation_verify_access once enabled was read as set: the
\* first region that contains the range decides.
Verdict(q) ==
  \E s \in Used :
    /\ Encloses(regions[s], q)
    /\ \A u \in 0 .. s - 1 : ~Encloses(regions[u], q)
    /\ q.perms \subseteq regions[s].permissions

Read(r) == [addr |-> r.addr, size |-> r.size, perms |-> {"READ"}]
Write(r) == [addr |-> r.addr, size |-> r.size, perms |-> {"WRITE"}]
Sized(r, n) == [r EXCEPT !.size = n]

\* The access functions: the checks they make, in order, and what they then
\* touch.
isolation_read(r) == [checks |-> <<Read(r)>>, touches |-> {Read(r)}]
isolation_write(r) == [checks |-> <<Write(r)>>, touches |-> {Write(r)}]
\* Mutant: the destination is not checked.
isolation_memcpy_SrcOnly(dst, src) ==
  [checks |-> <<Read(src)>>, touches |-> {Read(src), Write(Sized(dst, src.size))}]
isolation_memcpy(dst, src) ==
  [checks  |-> <<Read(src), Write(Sized(dst, src.size))>>,
   touches |-> {Read(src), Write(Sized(dst, src.size))}]
isolation_memset(dst) == [checks |-> <<Write(dst)>>, touches |-> {Write(dst)}]
isolation_memcmp(r1, r2) ==
  [checks  |-> <<Read(r1), Read(Sized(r2, r1.size))>>,
   touches |-> {Read(r1), Read(Sized(r2, r1.size))}]

\* memcpy, memset and memcmp refuse a null pointer and a size of 0.
Valid == {r \in Ranges : r.addr # 0 /\ r.size # 0}
AccessCalls ==
  {isolation_read(r) : r \in Ranges} \cup {isolation_write(r) : r \in Ranges}
  \cup {isolation_memset(r) : r \in Valid}
  \cup {isolation_memcpy(r1, r2) : r1, r2 \in Valid}
  \cup {isolation_memcmp(r1, r2) : r1, r2 \in Valid}

BeginAccess(t, call) ==
  /\ rpc[t] = "idle"
  /\ rpc' = [rpc EXCEPT ![t] = "flag"]
  /\ requests' = [requests EXCEPT ![t] = call.checks]
  /\ touches' = [touches EXCEPT ![t] = call.touches]
  /\ changed' = [changed EXCEPT ![t] = FALSE]
  /\ held' = [held EXCEPT ![t] = NotHeld]
  /\ UNCHANGED <<table, adding, contended, overrun>>

\* A verified request: on to the next one, or to the access itself.
Granted(t) ==
  /\ requests' = [requests EXCEPT ![t] = Tail(@)]
  /\ rpc' = [rpc EXCEPT ![t] = IF Len(requests[t]) = 1 THEN "access" ELSE "flag"]
  /\ UNCHANGED touches

\* isolation_verify_access before spin_lock.
ReadFlag(t) ==
  /\ rpc[t] = "flag"
  /\ \/ ~enabled /\ Granted(t)
     \/ /\ enabled
        /\ rpc' = [rpc EXCEPT ![t] = "scan"] /\ UNCHANGED <<requests, touches>>
  /\ UNCHANGED <<table, adding, held, changed, contended, overrun>>

\* isolation_verify_access under the lock; a refusal ends the call.
Scan(t) ==
  /\ rpc[t] = "scan"
  /\ \/ Verdict(Head(requests[t])) /\ Granted(t)
     \/ /\ ~Verdict(Head(requests[t]))
        /\ rpc' = [rpc EXCEPT ![t] = "idle"]
        /\ requests' = [requests EXCEPT ![t] = <<>>]
        /\ touches' = [touches EXCEPT ![t] = {}]
  /\ UNCHANGED <<table, adding, held, changed, contended, overrun>>

\* The load, store, copy, fill or comparison behind the checks.
Access(t) ==
  /\ rpc[t] = "access"
  /\ rpc' = [rpc EXCEPT ![t] = "idle"]
  /\ touches' = [touches EXCEPT ![t] = {}]
  /\ UNCHANGED <<table, adding, requests, held, changed, contended, overrun>>

\* isolation_is_service_memory and isolation_get_region: the first region
\* around addr; the pointer outlives the lock.
Around(addr) ==
  {s \in Used : /\ addr >= regions[s].phys_base /\ addr < End(regions[s])
                /\ \A u \in 0 .. s - 1 :
                     ~(addr >= regions[u].phys_base /\ addr < End(regions[u]))}
isolation_get_region(t, addr) ==
  /\ rpc[t] = "idle"
  /\ \E s \in Around(addr) :
       held' = [held EXCEPT ![t] = [slot |-> s, region |-> regions[s]]]
  /\ changed' = [changed EXCEPT ![t] = FALSE]
  /\ UNCHANGED <<table, rpc, adding, requests, touches, contended, overrun>>

\* isolation_validate returns 0.
isolation_validate ==
  /\ \A s \in Used : regions[s].size # 0
  /\ \A s, u \in Used : s < u => ~Overlaps(regions[s], regions[u])

\* One call step of an access, an addition, a removal or a lookup.
RegionsStep(t) ==
  \/ \E a \in RegionArgs :
       isolation_add_region(t, a) \/ isolation_remove_region(t, a.phys_base)
  \/ AddLocked(t)
  \/ \E call \in AccessCalls : BeginAccess(t, call)
  \/ ReadFlag(t) \/ Scan(t) \/ Access(t)
  \/ \E r \in Ranges : isolation_get_region(t, r.addr)

-----------------------------------------------------------------------------
\* The region table and the calls in progress are well formed.
RegionsTypeOK ==
  /\ regions \in [Slots -> Region]
  /\ num_regions \in 0 .. MAX_MEM_REGIONS
  /\ enabled \in BOOLEAN
  /\ rpc \in [Threads -> {"idle", "admitted", "flag", "scan", "access"}]
  /\ adding \in [Threads -> Region]
  /\ requests \in [Threads -> Seq(Request)]
  /\ touches \in [Threads -> SUBSET Request]
  /\ held \in [Threads -> [slot: Slots \cup {-1}, region: Region]]
  /\ changed \in [Threads -> BOOLEAN]
  /\ contended \in BOOLEAN /\ overrun \in BOOLEAN

\* The addresses of a region or a request that does not wrap.
Wraps(base, size) == base + size >= ADDRESS_RANGE
Bytes(base, size) == base .. base + size - 1

\* Two entries of the table whose end does not wrap never share an address,
\* whatever is added, removed or written behind the table
\* (isolation_add_region compares before it appends).
RegionsDisjoint ==
  \A s, u \in Used :
    LET r == regions[s] q == regions[u]
    IN  s # u /\ ~Wraps(r.phys_base, r.size) /\ ~Wraps(q.phys_base, q.size)
        => Bytes(r.phys_base, r.size) \cap Bytes(q.phys_base, q.size) = {}

\* The bytes of q lie in one region that allows the access.
Covered(q) ==
  \E s \in Used :
    /\ ~Wraps(regions[s].phys_base, regions[s].size)
    /\ Bytes(q.addr, q.size) \subseteq Bytes(regions[s].phys_base, regions[s].size)
    /\ q.perms \subseteq regions[s].permissions

\* For a request that is not empty and does not wrap, the first-match scan of
\* isolation_verify_access with its wrapping sums says yes exactly when one
\* region covers the request with the permissions it needs.
VerdictExact ==
  \A r \in Ranges, perms \in {{"READ"}, {"WRITE"}} :
    LET q == [addr |-> r.addr, size |-> r.size, perms |-> perms]
    IN  r.size # 0 /\ ~Wraps(r.addr, r.size) => (Verdict(q) <=> Covered(q))

\* What an access function touches after its checks, without the lock, is
\* still covered, unless a region was removed or enforcement changed meanwhile.
TouchesCovered ==
  \A t \in Threads :
    rpc[t] = "access" /\ enabled /\ ~changed[t]
    => \A q \in touches[t] :
         q.size # 0 /\ ~Wraps(q.addr, q.size) => Covered(q)

\* The entry behind a pointer from isolation_get_region is the region that was
\* looked up for as long as nothing is removed: additions do not move entries.
HeldRegionStays ==
  \A t \in Threads :
    held[t] # NotHeld /\ ~changed[t]
    => held[t].slot < num_regions /\ regions[held[t].slot] = held[t].region

\* The table is overrun only if two threads were past the unlocked test for a
\* full table at the same time; calls that do not overlap cannot overrun it.
OverrunNeedsRace == overrun => contended
=============================================================================
