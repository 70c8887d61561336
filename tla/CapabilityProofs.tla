-------------------------- MODULE CapabilityProofs --------------------------
(***************************************************************************)
(* Theorems about the Core-0 capability system, for every number of CPUs,  *)
(* every table size and every bound.                                       *)
(***************************************************************************)
EXTENDS Capability, FiniteSetTheorems, TLAPS

(***************************************************************************)
(* What adding to and removing from one capability space preserves.        *)
(***************************************************************************)

\* cap_domain_add_cap on a domain with room keeps the space packed.
LEMMA AddCapPacked ==
  ASSUME NEW dom \in Domain, NEW n \in Nat, NEW m \in Nat, n <= m,
         Packed(dom, n), dom.num_caps < DOMAIN_CAP_SPACE_SIZE,
         NEW h \in Handles, h \in 1 .. m - 1
  PROVE  AddCap(dom, h) \in Domain /\ Packed(AddCap(dom, h), m)
  <1> DEFINE new == AddCap(dom, h)
             sp  == [dom.cap_space EXCEPT ![dom.num_caps] = h]
  <1>1. /\ dom.domain_id \in DomainIds
        /\ dom.cap_space \in [SpaceIdx -> Handles]
        /\ dom.num_caps \in 0 .. DOMAIN_CAP_SPACE_SIZE
    BY DEF Domain, Packed
  <1>2. dom.num_caps \in SpaceIdx
    BY <1>1, CapConstants DEF SpaceIdx
  <1>3. /\ new.domain_id = dom.domain_id
        /\ new.cap_space = sp
        /\ new.num_caps = dom.num_caps + 1
    BY DEF AddCap
  <1>4. sp \in [SpaceIdx -> Handles]
    BY <1>1, <1>2
  <1>5. new.num_caps \in 0 .. DOMAIN_CAP_SPACE_SIZE
    BY <1>1, <1>3, CapConstants
  <1>6. new \in Domain
    BY <1>1, <1>3, <1>4, <1>5 DEF AddCap, Domain
  <1>7. ASSUME NEW i \in SpaceIdx
        PROVE  /\ i < new.num_caps => new.cap_space[i] \in 1 .. m - 1
               /\ i >= new.num_caps => new.cap_space[i] = 0
    <2>1. CASE i = dom.num_caps
      BY <2>1, <1>1, <1>2, <1>3, h \in 1 .. m - 1
    <2>2. CASE i # dom.num_caps
      <3>1. new.cap_space[i] = dom.cap_space[i]
        BY <2>2, <1>1, <1>3
      <3>2. /\ i < dom.num_caps => dom.cap_space[i] \in 1 .. n - 1
            /\ i >= dom.num_caps => dom.cap_space[i] = 0
        BY DEF Packed
      <3>3. QED
        BY <2>2, <3>1, <3>2, <1>1, <1>3 DEF SpaceIdx
    <2>3. QED
      BY <2>1, <2>2
  <1>8. QED
    BY <1>6, <1>7 DEF Packed

\* The shift in cap_domain_remove_cap keeps the space packed.
LEMMA RemoveAtPacked ==
  ASSUME NEW dom \in Domain, NEW n \in Nat, Packed(dom, n),
         NEW i \in SpaceIdx, i < dom.num_caps
  PROVE  RemoveAt(dom, i) \in Domain /\ Packed(RemoveAt(dom, i), n)
  <1> DEFINE new == RemoveAt(dom, i)
  <1>1. /\ dom.domain_id \in DomainIds
        /\ dom.cap_space \in [SpaceIdx -> Handles]
        /\ dom.num_caps \in 0 .. DOMAIN_CAP_SPACE_SIZE
    BY DEF Domain, Packed
  <1>2. /\ i \in Nat /\ 0 \in Handles
        /\ dom.num_caps - 1 \in 0 .. DOMAIN_CAP_SPACE_SIZE
    BY <1>1, CapConstants DEF SpaceIdx, Handles
  <1>3. /\ new.domain_id = dom.domain_id
        /\ new.num_caps = dom.num_caps - 1
        /\ new.cap_space = [j \in SpaceIdx |->
                               IF j = dom.num_caps - 1 THEN 0
                               ELSE IF i <= j /\ j < dom.num_caps - 1
                               THEN dom.cap_space[j + 1]
                               ELSE dom.cap_space[j]]
    BY DEF RemoveAt
  <1>4. ASSUME NEW j \in SpaceIdx
        PROVE  /\ j < dom.num_caps - 1 => new.cap_space[j] \in 1 .. n - 1
               /\ j >= dom.num_caps - 1 => new.cap_space[j] = 0
               /\ new.cap_space[j] \in Handles
    <2>1. /\ j < dom.num_caps => dom.cap_space[j] \in 1 .. n - 1
          /\ j >= dom.num_caps => dom.cap_space[j] = 0
          /\ dom.cap_space[j] \in Handles
      BY <1>1 DEF Packed
    <2>2. CASE i <= j /\ j < dom.num_caps - 1
      <3>1. j + 1 \in SpaceIdx /\ j + 1 < dom.num_caps
        BY <1>1, <2>2, CapConstants DEF SpaceIdx
      <3>2. dom.cap_space[j + 1] \in 1 .. n - 1 /\ dom.cap_space[j + 1] \in Handles
        BY <3>1, <1>1 DEF Packed
      <3>3. j # dom.num_caps - 1
        BY <2>2, <1>1 DEF SpaceIdx
      <3>4. new.cap_space[j] = dom.cap_space[j + 1]
        BY <1>3, <2>2, <3>3
      <3>5. QED
        BY <3>2, <3>4, <2>2, <1>1 DEF SpaceIdx
    <2>3. CASE j = dom.num_caps - 1
      BY <2>3, <1>1, <1>2, <1>3
    <2>4. CASE ~(i <= j /\ j < dom.num_caps - 1) /\ j # dom.num_caps - 1
      <3>1. new.cap_space[j] = dom.cap_space[j]
        BY <2>4, <1>3
      <3>2. QED
        BY <3>1, <2>1, <2>4, <1>1, <1>2 DEF SpaceIdx
    <2>5. QED
      BY <2>2, <2>3, <2>4
  <1>5. new.cap_space \in [SpaceIdx -> Handles]
    BY <1>3, <1>4
  <1>6. new \in Domain
    BY <1>1, <1>2, <1>3, <1>5 DEF RemoveAt, Domain
  <1>7. QED
    BY <1>2, <1>3, <1>4, <1>6 DEF Packed

\* Packed is monotone in the next handle.
LEMMA PackedMonotone ==
  ASSUME NEW dom \in Domain, NEW n \in Nat, NEW m \in Nat, n <= m, Packed(dom, n)
  PROVE  Packed(dom, m)
  BY CapConstants DEF Domain, Packed, SpaceIdx, Handles

\* A fresh or cleared domain slot is packed.
LEMMA NoDomainPacked ==
  ASSUME NEW n \in Nat, NEW id \in DomainIds
  PROVE  /\ NoDomain \in Domain /\ Packed(NoDomain, n)
         /\ [NoDomain EXCEPT !.domain_id = id] \in Domain
         /\ Packed([NoDomain EXCEPT !.domain_id = id], n)
  BY CapConstants DEF NoDomain, Domain, Packed, SpaceIdx, Handles, DomainIds

\* cap_domain_add_cap on the whole table: types, packing, and ids unchanged.
LEMMA AddToTable ==
  ASSUME NEW m \in Nat, NEW n \in Nat, n <= m,
         domains \in [DomSlots -> Domain],
         \A s \in DomSlots : Packed(domains[s], n),
         NEW id, NEW h \in Handles, h \in 1 .. m - 1
  PROVE  LET D == cap_domain_add_cap(id, h) IN
         /\ D \in [DomSlots -> Domain]
         /\ \A s \in DomSlots : /\ Packed(D[s], m)
                                /\ D[s].domain_id = domains[s].domain_id
  <1> DEFINE D == cap_domain_add_cap(id, h)
  <1>1. ASSUME NEW s \in DomSlots
        PROVE  /\ D[s] \in Domain
               /\ Packed(D[s], m)
               /\ D[s].domain_id = domains[s].domain_id
    <2>1. CASE s \in cap_get_domain(id) /\ domains[s].num_caps < DOMAIN_CAP_SPACE_SIZE
      <3>1. D[s] = AddCap(domains[s], h)
        BY <2>1 DEF cap_domain_add_cap
      <3>2. AddCap(domains[s], h).domain_id = domains[s].domain_id
        BY DEF AddCap, Domain
      <3>3. QED
        BY <2>1, <3>1, <3>2, AddCapPacked
    <2>2. CASE ~(s \in cap_get_domain(id) /\ domains[s].num_caps < DOMAIN_CAP_SPACE_SIZE)
      <3>1. D[s] = domains[s]
        BY <2>2 DEF cap_domain_add_cap
      <3>2. QED
        BY <3>1, PackedMonotone
    <2>3. QED
      BY <2>1, <2>2
  <1>2. D = [s \in DomSlots |-> D[s]]
    BY DEF cap_domain_add_cap
  <1>3. D \in [DomSlots -> Domain]
    BY <1>1, <1>2
  <1>4. QED
    BY <1>1, <1>3

\* cap_domain_remove_cap on the whole table.
LEMMA RemoveFromTable ==
  ASSUME NEW n \in Nat,
         domains \in [DomSlots -> Domain],
         \A s \in DomSlots : Packed(domains[s], n),
         NEW id, NEW h
  PROVE  LET D == cap_domain_remove_cap(id, h) IN
         /\ D \in [DomSlots -> Domain]
         /\ \A s \in DomSlots : /\ Packed(D[s], n)
                                /\ D[s].domain_id = domains[s].domain_id
  <1> DEFINE D == cap_domain_remove_cap(id, h)
             At(s) == CHOOSE i \in SpaceIdx : FirstAt(domains[s], h, i)
  <1>1. ASSUME NEW s \in DomSlots
        PROVE  /\ D[s] \in Domain
               /\ Packed(D[s], n)
               /\ D[s].domain_id = domains[s].domain_id
    <2>1. CASE s \in cap_get_domain(id) /\ \E i \in SpaceIdx : FirstAt(domains[s], h, i)
      <3>1. D[s] = RemoveAt(domains[s], At(s))
        BY <2>1 DEF cap_domain_remove_cap
      <3>2. At(s) \in SpaceIdx /\ FirstAt(domains[s], h, At(s))
        BY <2>1
      <3>3. At(s) < domains[s].num_caps
        BY <3>2 DEF FirstAt
      <3>4. RemoveAt(domains[s], At(s)).domain_id = domains[s].domain_id
        BY DEF RemoveAt, Domain
      <3>5. QED
        BY <3>1, <3>2, <3>3, <3>4, RemoveAtPacked
    <2>2. CASE ~(s \in cap_get_domain(id) /\ \E i \in SpaceIdx : FirstAt(domains[s], h, i))
      BY <2>2 DEF cap_domain_remove_cap
    <2>3. QED
      BY <2>1, <2>2
  <1>2. D = [s \in DomSlots |-> D[s]]
    BY DEF cap_domain_remove_cap
  <1>3. D \in [DomSlots -> Domain]
    BY <1>1, <1>2
  <1>4. QED
    BY <1>1, <1>3

\* A uint32_t counter stays in range when it wraps.
LEMMA WrapInRange ==
  ASSUME NEW k \in Int
  PROVE  /\ (k + 1) % UINT32_RANGE \in 0 .. UINT32_RANGE - 1
         /\ (k - 1) % UINT32_RANGE \in 0 .. UINT32_RANGE - 1
  BY CapConstants

-----------------------------------------------------------------------------
(***************************************************************************)
(* Type correctness.  TypeOK alone is not inductive: that cap_domain_add_  *)
(* cap writes inside cap_space needs num_caps to be in range, which is     *)
(* part of SpacePacked.                                                    *)
(***************************************************************************)
SafeSpaces == TypeOK /\ SpacePacked

\* cap_init leaves every slot empty.
LEMMA InitSafeSpaces == Init => SafeSpaces
  <1> SUFFICES ASSUME Init PROVE SafeSpaces
    OBVIOUS
  <1>1. NoCap \in Cap
    BY CapConstants DEF NoCap, Cap
  <1>2. NoCall \in [handle: Handles, slot: Nat, index: Nat, id: DomainIds]
    BY CapConstants DEF NoCall, Handles, DomainIds
  <1>3. NoDomain \in Domain /\ Packed(NoDomain, 1)
    <2>1. 0 \in DomainIds /\ 1 \in Nat
      BY CapConstants DEF DomainIds
    <2>2. QED
      BY <2>1, NoDomainPacked
  <1>4. 0 \in Handles
    BY CapConstants DEF Handles
  <1>5. TypeOK
    BY <1>1, <1>2, <1>3, <1>4, CapConstants DEF TypeOK, Init, cap_init
  <1>6. SpacePacked
    BY <1>3 DEF SpacePacked, Init, cap_init
  <1>7. QED
    BY <1>5, <1>6 DEF SafeSpaces

\* Every operation keeps the tables typed and the capability spaces packed.
LEMMA NextSafeSpaces == SafeSpaces /\ [Next]_vars => SafeSpaces'
  <1> SUFFICES ASSUME SafeSpaces, [Next]_vars PROVE SafeSpaces'
    OBVIOUS
  <1> USE DEF SafeSpaces
  <1>n. /\ next_cap_handle \in Nat /\ next_cap_handle \in 1 .. MaxHandle + 1
        /\ domains \in [DomSlots -> Domain]
        /\ \A s \in DomSlots : Packed(domains[s], next_cap_handle)
    BY CapConstants DEF TypeOK, SpacePacked
  <1>c. NoCap \in Cap /\ 0 \in Handles /\ 0 \in DomainIds
    BY CapConstants DEF NoCap, Cap, Handles, DomainIds
  <1>d. NoCall \in [handle: Handles, slot: Nat, index: Nat, id: DomainIds]
    BY <1>c DEF NoCall
  <1>s. Slots \subseteq Nat /\ DomSlots \subseteq Nat
    BY CapConstants DEF Slots, DomSlots
  <1>1. ASSUME NEW c \in CPUs, NEW perms \in SUBSET Perms, NEW id \in DomainIds,
               cap_create(c, perms, id)
        PROVE  SafeSpaces'
    <2>1. /\ next_cap_handle \in Handles
          /\ next_cap_handle + 1 \in Nat /\ next_cap_handle + 1 \in 1 .. MaxHandle + 1
          /\ next_cap_handle \in 1 .. (next_cap_handle + 1) - 1
      BY <1>1, <1>n, CapConstants DEF cap_create, Handles
    <2>2. /\ domains' \in [DomSlots -> Domain]
          /\ \A s \in DomSlots : Packed(domains'[s], next_cap_handle + 1)
      BY <1>1, <1>n, <2>1, AddToTable DEF cap_create
    <2>3. [magic |-> TRUE, permissions |-> perms, ref_count |-> 1] \in Cap
      BY CapConstants DEF Cap
    <2>4. PICK s \in FreeSlot :
            /\ capabilities' = [capabilities EXCEPT ![s] =
                 [magic |-> TRUE, permissions |-> perms, ref_count |-> 1]]
            /\ minted' = [minted EXCEPT ![s] = next_cap_handle]
      BY <1>1 DEF cap_create
    <2>5. capabilities' \in [Slots -> Cap] /\ minted' \in [Slots -> Handles]
      BY <2>1, <2>3, <2>4 DEF TypeOK
    <2>6. TypeOK'
      BY <1>1, <2>1, <2>2, <2>5 DEF cap_create, TypeOK
    <2>7. SpacePacked'
      BY <1>1, <2>2 DEF cap_create, SpacePacked
    <2>8. QED
      BY <2>6, <2>7
  <1>2. ASSUME NEW c \in CPUs, NEW h \in Handles, cap_delete(c, h)
        PROVE  SafeSpaces'
    <2>1. PICK s \in cap_get_capability(h) :
            call' = [call EXCEPT ![c] = [NoCall EXCEPT !.handle = h, !.slot = s]]
      BY <1>2 DEF cap_delete
    <2>2. s \in Nat
      BY <1>s DEF cap_get_capability
    <2>3. [NoCall EXCEPT !.handle = h, !.slot = s]
            \in [handle: Handles, slot: Nat, index: Nat, id: DomainIds]
      BY <1>c, <2>2 DEF NoCall
    <2>4. call' \in [CPUs -> [handle: Handles, slot: Nat, index: Nat, id: DomainIds]]
      BY <2>1, <2>3 DEF TypeOK
    <2>5. TypeOK'
      BY <1>2, <2>4 DEF cap_delete, TypeOK
    <2>6. SpacePacked'
      BY <1>2 DEF cap_delete, SpacePacked
    <2>7. QED
      BY <2>5, <2>6
  <1>3. ASSUME NEW c \in CPUs, DeleteFromDomain(c)
        PROVE  SafeSpaces'
    <2> DEFINE i == call[c].index
    <2>1. domains' = cap_domain_remove_cap(domains[i].domain_id, call[c].handle)
      BY <1>3 DEF DeleteFromDomain
    <2>2. /\ domains' \in [DomSlots -> Domain]
          /\ \A s \in DomSlots : Packed(domains'[s], next_cap_handle)
      BY <1>n, <2>1, RemoveFromTable
    <2>3. call' \in [CPUs -> [handle: Handles, slot: Nat, index: Nat, id: DomainIds]]
      BY <1>3 DEF DeleteFromDomain, TypeOK
    <2>4. TypeOK'
      BY <1>3, <2>2, <2>3 DEF DeleteFromDomain, TypeOK
    <2>5. SpacePacked'
      BY <1>3, <2>2 DEF DeleteFromDomain, SpacePacked
    <2>6. QED
      BY <2>4, <2>5
  <1>4. ASSUME NEW c \in CPUs, DeleteClear(c)
        PROVE  SafeSpaces'
    <2>1. /\ capabilities' \in [Slots -> Cap] /\ minted' \in [Slots -> Handles]
          /\ call' \in [CPUs -> [handle: Handles, slot: Nat, index: Nat, id: DomainIds]]
      BY <1>4, <1>c, <1>d DEF DeleteClear, TypeOK
    <2>2. TypeOK'
      BY <1>4, <2>1 DEF DeleteClear, TypeOK
    <2>3. SpacePacked'
      BY <1>4 DEF DeleteClear, SpacePacked
    <2>4. QED
      BY <2>2, <2>3
  <1>5. ASSUME NEW c \in CPUs, NEW h \in Handles, NEW id \in DomainIds,
               cap_grant(c, h, id)
        PROVE  SafeSpaces'
    <2>1. PICK s \in cap_get_capability(h) :
            capabilities' = [capabilities EXCEPT
                               ![s].ref_count = (@ + 1) % UINT32_RANGE]
      BY <1>5 DEF cap_grant
    <2>2. h \in 1 .. next_cap_handle - 1
      BY <1>n, <2>1, CapConstants DEF cap_get_capability, Handles
    <2>3. capabilities' \in [Slots -> Cap]
      <3>1. s \in Slots /\ capabilities \in [Slots -> Cap]
        BY DEF cap_get_capability, TypeOK
      <3>2. capabilities[s].ref_count \in Int
        BY <3>1, CapConstants DEF Cap
      <3>3. (capabilities[s].ref_count + 1) % UINT32_RANGE \in 0 .. UINT32_RANGE - 1
        BY <3>2, WrapInRange
      <3>4. [capabilities[s] EXCEPT !.ref_count = (@ + 1) % UINT32_RANGE] \in Cap
        BY <3>1, <3>3 DEF Cap
      <3>5. QED
        BY <2>1, <3>1, <3>4
    <2>4. /\ domains' \in [DomSlots -> Domain]
          /\ \A t \in DomSlots : Packed(domains'[t], next_cap_handle)
      BY <1>5, <1>n, <2>2, AddToTable DEF cap_grant
    <2>5. TypeOK'
      BY <1>5, <2>3, <2>4 DEF cap_grant, TypeOK
    <2>6. SpacePacked'
      BY <1>5, <2>4 DEF cap_grant, SpacePacked
    <2>7. QED
      BY <2>5, <2>6
  <1>6. ASSUME NEW c \in CPUs, NEW h \in Handles, NEW id \in DomainIds,
               cap_revoke(c, h, id)
        PROVE  SafeSpaces'
    <2>1. PICK s \in cap_get_capability(h) :
            capabilities' = [capabilities EXCEPT
                               ![s].ref_count = (@ - 1) % UINT32_RANGE]
      BY <1>6 DEF cap_revoke
    <2>2. capabilities' \in [Slots -> Cap]
      <3>1. s \in Slots /\ capabilities \in [Slots -> Cap]
        BY DEF cap_get_capability, TypeOK
      <3>2. capabilities[s].ref_count \in Int
        BY <3>1, CapConstants DEF Cap
      <3>3. (capabilities[s].ref_count - 1) % UINT32_RANGE \in 0 .. UINT32_RANGE - 1
        BY <3>2, WrapInRange
      <3>4. [capabilities[s] EXCEPT !.ref_count = (@ - 1) % UINT32_RANGE] \in Cap
        BY <3>1, <3>3 DEF Cap
      <3>5. QED
        BY <2>1, <3>1, <3>4
    <2>3. /\ domains' \in [DomSlots -> Domain]
          /\ \A t \in DomSlots : Packed(domains'[t], next_cap_handle)
      BY <1>6, <1>n, RemoveFromTable DEF cap_revoke
    <2>4. TypeOK'
      BY <1>6, <2>2, <2>3 DEF cap_revoke, TypeOK
    <2>5. SpacePacked'
      BY <1>6, <2>3 DEF cap_revoke, SpacePacked
    <2>6. QED
      BY <2>4, <2>5
  <1>7. ASSUME NEW c \in CPUs, cap_create_domain(c)
        PROVE  SafeSpaces'
    <2> DEFINE new == [NoDomain EXCEPT !.domain_id = next_domain_id]
    <2>1. PICK s \in cap_get_domain(0) :
            /\ domains' = [domains EXCEPT ![s] = new]
            /\ call' = [call EXCEPT ![c] =
                          [NoCall EXCEPT !.slot = s, !.id = next_domain_id]]
      BY <1>7 DEF cap_create_domain
    <2>2. s \in DomSlots /\ s \in Nat
      BY <1>s DEF cap_get_domain
    <2>3. next_domain_id \in DomainIds /\ next_domain_id + 1 \in 1 .. MaxDomainId + 1
      BY <1>7, CapConstants DEF cap_create_domain, TypeOK, DomainIds
    <2>4. new \in Domain /\ Packed(new, next_cap_handle)
      BY <1>n, <2>3, NoDomainPacked
    <2>5. [NoCall EXCEPT !.slot = s, !.id = next_domain_id]
            \in [handle: Handles, slot: Nat, index: Nat, id: DomainIds]
      BY <1>c, <2>2, <2>3 DEF NoCall
    <2>6. call' \in [CPUs -> [handle: Handles, slot: Nat, index: Nat, id: DomainIds]]
      BY <2>1, <2>5 DEF TypeOK
    <2>7. /\ domains' \in [DomSlots -> Domain]
          /\ \A t \in DomSlots : Packed(domains'[t], next_cap_handle)
      BY <1>n, <2>1, <2>2, <2>4
    <2>8. TypeOK'
      BY <1>7, <2>3, <2>6, <2>7 DEF cap_create_domain, TypeOK
    <2>9. SpacePacked'
      BY <1>7, <2>7 DEF cap_create_domain, SpacePacked
    <2>10. QED
      BY <2>8, <2>9
  <1>8. ASSUME NEW c \in CPUs, ReturnDomainId(c)
        PROVE  SafeSpaces'
    BY <1>8, <1>d DEF ReturnDomainId, tables, TypeOK, SpacePacked
  <1>9. ASSUME NEW c \in CPUs, NEW id \in DomainIds, cap_delete_domain(c, id)
        PROVE  SafeSpaces'
    <2>1. PICK s \in cap_get_domain(id) : domains' = [domains EXCEPT ![s] = NoDomain]
      BY <1>9 DEF cap_delete_domain
    <2>2. NoDomain \in Domain /\ Packed(NoDomain, next_cap_handle)
      BY <1>c, <1>n, NoDomainPacked
    <2>3. /\ domains' \in [DomSlots -> Domain]
          /\ \A t \in DomSlots : Packed(domains'[t], next_cap_handle)
      BY <1>n, <2>1, <2>2 DEF cap_get_domain
    <2>4. TypeOK'
      BY <1>9, <2>3 DEF cap_delete_domain, TypeOK
    <2>5. SpacePacked'
      BY <1>9, <2>3 DEF cap_delete_domain, SpacePacked
    <2>6. QED
      BY <2>4, <2>5
  <1>10. ASSUME NEW c \in CPUs, NEW id \in DomainIds, DeleteDomainRevokes(c, id)
         PROVE  SafeSpaces'
    BY <1>10 DEF DeleteDomainRevokes, tables, TypeOK, SpacePacked
  <1>11. ASSUME NEW c \in CPUs, NEW h \in Handles, cap_derive(c, h)
         PROVE  SafeSpaces'
    BY <1>11 DEF cap_derive, tables, TypeOK, SpacePacked
  <1>12. CASE UNCHANGED vars
    BY <1>12 DEF vars, TypeOK, SpacePacked
  <1>13. QED
    BY <1>1, <1>2, <1>3, <1>4, <1>5, <1>6, <1>7, <1>8, <1>9, <1>10, <1>11, <1>12
       DEF Next

\* In every reachable state of the capability system the variables have their
\* types and every capability space is packed, whatever the interleaving.
THEOREM SpacesStaySafe == Spec => []TypeOK /\ []SpacePacked
  <1>1. SafeSpaces => TypeOK /\ SpacePacked
    BY DEF SafeSpaces
  <1>2. QED
    BY <1>1, InitSafeSpaces, NextSafeSpaces, PTL DEF Spec

-----------------------------------------------------------------------------
(***************************************************************************)
(* Domain ids.                                                             *)
(***************************************************************************)

\* What ReturnedIdIsOwn needs to be inductive: an id that is being returned
\* is not the free-slot mark 0, so no other creator takes its slot.
ReturningNonZero == \A c \in CPUs : pc[c] = "return" => call[c].id # 0

DomainInv == DomainIdsUnique /\ ReturnedIdIsOwn /\ ReturningNonZero

\* Updating capability spaces leaves every domain id alone.
LEMMA SameIdsKeepDomainInv ==
  ASSUME DomainInv, next_domain_id' = next_domain_id,
         \A s \in DomSlots : domains'[s].domain_id = domains[s].domain_id,
         \A c \in CPUs : pc'[c] = "return" => pc[c] = "return" /\ call'[c] = call[c]
  PROVE  DomainInv'
  BY DEF DomainInv, DomainIdsUnique, ReturnedIdIsOwn, ReturningNonZero

\* Every operation preserves the domain invariant.
LEMMA NextDomainInv == SafeSpaces /\ DomainInv /\ [Next]_vars => DomainInv'
  <1> SUFFICES ASSUME SafeSpaces, DomainInv, [Next]_vars PROVE DomainInv'
    OBVIOUS
  <1>t. /\ TypeOK
        /\ next_cap_handle \in Nat /\ next_cap_handle \in 1 .. MaxHandle + 1
        /\ domains \in [DomSlots -> Domain]
        /\ \A s \in DomSlots : Packed(domains[s], next_cap_handle)
    BY CapConstants DEF SafeSpaces, TypeOK, SpacePacked
  <1>1. ASSUME NEW c \in CPUs, NEW perms \in SUBSET Perms, NEW id \in DomainIds,
               cap_create(c, perms, id)
        PROVE  DomainInv'
    <2>1. /\ next_cap_handle \in Handles /\ next_cap_handle + 1 \in Nat
          /\ next_cap_handle \in 1 .. (next_cap_handle + 1) - 1
      BY <1>1, <1>t, CapConstants DEF cap_create, Handles
    <2>2. \A s \in DomSlots : domains'[s].domain_id = domains[s].domain_id
      BY <1>1, <1>t, <2>1, AddToTable DEF cap_create
    <2>3. QED
      BY <1>1, <2>2, SameIdsKeepDomainInv DEF cap_create
  <1>2. ASSUME NEW c \in CPUs, NEW h \in Handles, cap_delete(c, h)
        PROVE  DomainInv'
    BY <1>2, <1>t, SameIdsKeepDomainInv DEF cap_delete, TypeOK
  <1>3. ASSUME NEW c \in CPUs, DeleteFromDomain(c)
        PROVE  DomainInv'
    <2>1. \A s \in DomSlots : domains'[s].domain_id = domains[s].domain_id
      BY <1>3, <1>t, RemoveFromTable DEF DeleteFromDomain
    <2>2. \A d \in CPUs : pc'[d] = "return" => pc[d] = "return" /\ call'[d] = call[d]
      BY <1>3, <1>t DEF DeleteFromDomain, TypeOK
    <2>3. QED
      BY <1>3, <2>1, <2>2, SameIdsKeepDomainInv DEF DeleteFromDomain
  <1>4. ASSUME NEW c \in CPUs, DeleteClear(c)
        PROVE  DomainInv'
    BY <1>4, <1>t, SameIdsKeepDomainInv DEF DeleteClear, TypeOK
  <1>5. ASSUME NEW c \in CPUs, NEW h \in Handles, NEW id \in DomainIds,
               cap_grant(c, h, id)
        PROVE  DomainInv'
    <2>1. h \in 1 .. next_cap_handle - 1
      BY <1>5, <1>t, CapConstants DEF cap_grant, cap_get_capability, Handles
    <2>2. \A s \in DomSlots : domains'[s].domain_id = domains[s].domain_id
      BY <1>5, <1>t, <2>1, AddToTable DEF cap_grant
    <2>3. QED
      BY <1>5, <2>2, SameIdsKeepDomainInv DEF cap_grant
  <1>6. ASSUME NEW c \in CPUs, NEW h \in Handles, NEW id \in DomainIds,
               cap_revoke(c, h, id)
        PROVE  DomainInv'
    <2>1. \A s \in DomSlots : domains'[s].domain_id = domains[s].domain_id
      BY <1>6, <1>t, RemoveFromTable DEF cap_revoke
    <2>2. QED
      BY <1>6, <2>1, SameIdsKeepDomainInv DEF cap_revoke
  <1>7. ASSUME NEW c \in CPUs, cap_create_domain(c)
        PROVE  DomainInv'
    <2> DEFINE new == [NoDomain EXCEPT !.domain_id = next_domain_id]
    <2>1. PICK s \in DomSlots :
            /\ domains[s].domain_id = 0
            /\ domains' = [domains EXCEPT ![s] = new]
            /\ call' = [call EXCEPT ![c] =
                          [NoCall EXCEPT !.slot = s, !.id = next_domain_id]]
      BY <1>7 DEF cap_create_domain, cap_get_domain
    <2>2. new.domain_id = next_domain_id
      BY DEF NoDomain
    <2>3. next_domain_id \in Nat \ {0} /\ next_domain_id' = next_domain_id + 1
      BY <1>7, <1>t, CapConstants DEF cap_create_domain, TypeOK
    <2>4. \A t \in DomSlots : domains[t].domain_id \in Nat
      BY <1>t, CapConstants DEF Domain, DomainIds
    <2>5. \A t \in DomSlots :
            domains'[t].domain_id = IF t = s THEN next_domain_id ELSE domains[t].domain_id
      BY <1>t, <2>1, <2>2
    <2>6. DomainIdsUnique'
      BY <2>3, <2>4, <2>5 DEF DomainInv, DomainIdsUnique
    <2>7. \A d \in CPUs : /\ pc'[d] = IF d = c THEN "return" ELSE pc[d]
                          /\ d # c => call'[d] = call[d]
                          /\ call'[c].slot = s /\ call'[c].id = next_domain_id
      BY <1>7, <1>t, <2>1 DEF cap_create_domain, TypeOK, NoCall
    <2>8. ReturnedIdIsOwn'
      BY <2>1, <2>5, <2>7 DEF DomainInv, ReturnedIdIsOwn, ReturningNonZero
    <2>9. ReturningNonZero'
      BY <2>3, <2>7 DEF DomainInv, ReturningNonZero
    <2>10. QED
      BY <2>6, <2>8, <2>9 DEF DomainInv
  <1>8. ASSUME NEW c \in CPUs, ReturnDomainId(c)
        PROVE  DomainInv'
    BY <1>8, <1>t, SameIdsKeepDomainInv DEF ReturnDomainId, tables, TypeOK
  <1>9. ASSUME NEW c \in CPUs, NEW id \in DomainIds, cap_delete_domain(c, id)
        PROVE  DomainInv'
    <2>1. PICK s \in DomSlots : /\ domains[s].domain_id = id
                                /\ domains' = [domains EXCEPT ![s] = NoDomain]
      BY <1>9 DEF cap_delete_domain, cap_get_domain
    <2>2. \A t \in DomSlots :
            domains'[t].domain_id = IF t = s THEN 0 ELSE domains[t].domain_id
      BY <1>t, <2>1 DEF NoDomain
    <2>3. next_domain_id' = next_domain_id /\ next_domain_id \in Nat \ {0}
      BY <1>9, <1>t, CapConstants DEF cap_delete_domain, TypeOK
    <2>4. DomainIdsUnique'
      BY <2>2, <2>3 DEF DomainInv, DomainIdsUnique
    <2>5. ReturnedIdIsOwn'
      BY <1>9, <2>1, <2>2 DEF cap_delete_domain, ReturnedId, DomainInv, ReturnedIdIsOwn
    <2>6. ReturningNonZero'
      BY <1>9 DEF cap_delete_domain, DomainInv, ReturningNonZero
    <2>7. QED
      BY <2>4, <2>5, <2>6 DEF DomainInv
  <1>10. ASSUME NEW c \in CPUs, NEW id \in DomainIds, DeleteDomainRevokes(c, id)
         PROVE  DomainInv'
    BY <1>10, <1>t, SameIdsKeepDomainInv DEF DeleteDomainRevokes, tables, TypeOK
  <1>11. ASSUME NEW c \in CPUs, NEW h \in Handles, cap_derive(c, h)
         PROVE  DomainInv'
    BY <1>11, <1>t, SameIdsKeepDomainInv DEF cap_derive, tables, TypeOK
  <1>12. CASE UNCHANGED vars
    BY <1>12, SameIdsKeepDomainInv DEF vars
  <1>13. QED
    BY <1>1, <1>2, <1>3, <1>4, <1>5, <1>6, <1>7, <1>8, <1>9, <1>10, <1>11, <1>12
       DEF Next

\* Domain ids stay unique, and cap_create_domain returns the id of the domain
\* it created although it reads it after releasing the lock.
THEOREM DomainIdsStaySound == Spec => []DomainIdsSound
  <1>1. Init => DomainInv
    BY DEF Init, cap_init, DomainInv, DomainIdsUnique, ReturnedIdIsOwn,
           ReturningNonZero, NoDomain
  <1>2. DomainInv => DomainIdsSound
    BY DEF DomainInv, DomainIdsSound
  <1>3. QED
    BY <1>1, <1>2, InitSafeSpaces, NextSafeSpaces, NextDomainInv, PTL DEF Spec

-----------------------------------------------------------------------------
(***************************************************************************)
(* Mutual exclusion.                                                       *)
(***************************************************************************)

\* The test-and-set lock excludes: LockExcludes is inductive given the types.
THEOREM LockAlwaysExcludes == Spec => []LockExcludes
  <1>1. Init => LockExcludes
    BY DEF Init, cap_init, LockExcludes
  <1>2. ASSUME TypeOK, LockExcludes, [Next]_vars
        PROVE  LockExcludes'
    <2> USE <1>2 DEF LockExcludes, Enter
    <2>1. \A c \in CPUs : \A v : [pc EXCEPT ![c] = v][c] = v
      BY DEF TypeOK
    <2>2. \A c, d \in CPUs : \A v : d # c => [pc EXCEPT ![c] = v][d] = pc[d]
      BY DEF TypeOK
    <2>3. ASSUME NEW c \in CPUs, UNCHANGED <<lock, pc>>
          PROVE  LockExcludes'
      BY <2>3
    <2>4. ASSUME NEW c \in CPUs, pc[c] = "idle", lock = 0, lock' = 1,
                 \/ pc' = [pc EXCEPT ![c] = "delete"]
                 \/ pc' = [pc EXCEPT ![c] = "spin"]
          PROVE  LockExcludes'
      BY <2>1, <2>2, <2>4
    <2>5. ASSUME NEW c \in CPUs, DeleteClear(c)
          PROVE  LockExcludes'
      <3>1. pc[c] = "delete" /\ lock' = 0 /\ pc' = [pc EXCEPT ![c] = "idle"]
        BY <2>5 DEF DeleteClear
      <3>2. \A d \in CPUs : pc[d] \in {"delete", "spin"} => d = c
        BY <3>1
      <3>3. \A d \in CPUs : pc'[d] \notin {"delete", "spin"}
        BY <2>1, <2>2, <3>1, <3>2
      <3>4. QED
        BY <3>1, <3>3
    <2>6. ASSUME NEW c \in CPUs, pc[c] \in {"idle", "return"}, lock' = lock,
                 \/ pc' = [pc EXCEPT ![c] = "return"]
                 \/ pc' = [pc EXCEPT ![c] = "idle"]
          PROVE  LockExcludes'
      BY <2>1, <2>2, <2>6
    <2>7. CASE UNCHANGED vars
      BY <2>7 DEF vars
    <2>8. ASSUME NEW c \in CPUs,
                 \/ \E perms \in SUBSET Perms, id \in DomainIds : cap_create(c, perms, id)
                 \/ DeleteFromDomain(c)
                 \/ \E h \in Handles, id \in DomainIds : cap_grant(c, h, id)
                 \/ \E h \in Handles, id \in DomainIds : cap_revoke(c, h, id)
                 \/ \E id \in DomainIds : cap_delete_domain(c, id)
          PROVE  LockExcludes'
      <3>1. UNCHANGED <<lock, pc>>
        BY <2>8 DEF cap_create, DeleteFromDomain, cap_grant, cap_revoke, cap_delete_domain
      <3>2. QED
        BY <3>1, <2>3
    <2>9. ASSUME NEW c \in CPUs,
                 \/ \E h \in Handles : cap_delete(c, h)
                 \/ \E id \in DomainIds : DeleteDomainRevokes(c, id)
                 \/ \E h \in Handles : cap_derive(c, h)
          PROVE  LockExcludes'
      BY <2>9, <2>4 DEF cap_delete, DeleteDomainRevokes, cap_derive
    <2>10. ASSUME NEW c \in CPUs, cap_create_domain(c) \/ ReturnDomainId(c)
           PROVE  LockExcludes'
      BY <2>10, <2>6 DEF cap_create_domain, ReturnDomainId
    <2>11. QED
      BY <2>5, <2>7, <2>8, <2>9, <2>10 DEF Next
  <1>3. QED
    BY <1>1, <1>2, SpacesStaySafe, PTL DEF Spec

-----------------------------------------------------------------------------
(***************************************************************************)
(* Handles, as long as nothing is deleted.                                 *)
(***************************************************************************)

\* Without cap_delete the table fills from slot 0 and the handle of slot s is
\* s + 1: "handle maps to index + 1", which cap_get_capability assumes.
DenseTable ==
  /\ next_cap_handle - 1 <= MAX_CAPABILITIES
  /\ \A s \in Slots : /\ capabilities[s].magic <=> s < next_cap_handle - 1
                      /\ capabilities[s].magic => minted[s] = s + 1
  /\ \A c \in CPUs : pc[c] # "delete"

\* The remainder cap_get_capability takes is the identity on slot numbers.
LEMMA SlotModulo == \A s \in Slots : s % MAX_CAPABILITIES = s
  BY CapConstants DEF Slots

\* Steps that keep magic and minted and start no cap_delete.
LEMMA SameTableKeepsDense ==
  ASSUME DenseTable, next_cap_handle' = next_cap_handle, minted' = minted,
         \A s \in Slots : capabilities'[s].magic = capabilities[s].magic,
         \A c \in CPUs : pc'[c] # "delete"
  PROVE  DenseTable'
  BY DEF DenseTable

\* As long as cap_delete is not called the table stays dense.
LEMMA NextDense ==
  ASSUME SafeSpaces, deletes \in Nat, deletes' = 0, DenseTable, [Next]_vars
  PROVE  DenseTable'
  <1> USE DEF SafeSpaces
  <1>t. capabilities \in [Slots -> Cap] /\ minted \in [Slots -> Handles]
    BY DEF TypeOK
  <1>p. pc \in [CPUs -> {"idle", "delete", "spin", "return"}]
    BY DEF TypeOK
  <1>1. ASSUME NEW c \in CPUs, NEW perms \in SUBSET Perms, NEW id \in DomainIds,
               cap_create(c, perms, id)
        PROVE  DenseTable'
    <2> DEFINE new == [magic |-> TRUE, permissions |-> perms, ref_count |-> 1]
    <2>1. PICK s \in FreeSlot : /\ capabilities' = [capabilities EXCEPT ![s] = new]
                                /\ minted' = [minted EXCEPT ![s] = next_cap_handle]
      BY <1>1 DEF cap_create
    <2>2. /\ s \in Slots /\ s \in Nat /\ s < MAX_CAPABILITIES
          /\ next_cap_handle \in Nat \ {0}
      BY CapConstants DEF FreeSlot, Slots, TypeOK
    <2>3. s >= next_cap_handle - 1
      BY <2>2 DEF FreeSlot, DenseTable
    <2>4. ~(s > next_cap_handle - 1)
      <3>1. SUFFICES ASSUME s > next_cap_handle - 1 PROVE FALSE
        OBVIOUS
      <3>2. next_cap_handle - 1 \in 0 .. s - 1 /\ next_cap_handle - 1 \in Slots
        BY <3>1, <2>2, CapConstants DEF Slots
      <3>3. capabilities[next_cap_handle - 1].magic
        BY <3>2 DEF FreeSlot
      <3>4. QED
        BY <3>2, <3>3, <2>2 DEF DenseTable
    <2>5. s = next_cap_handle - 1
      BY <2>2, <2>3, <2>4
    <2>6. next_cap_handle' = next_cap_handle + 1 /\ UNCHANGED pc
      BY <1>1 DEF cap_create
    <2>7. ASSUME NEW t \in Slots
          PROVE  /\ capabilities'[t].magic <=> t < next_cap_handle' - 1
                 /\ capabilities'[t].magic => minted'[t] = t + 1
      <3>1. CASE t = s
        BY <3>1, <1>t, <2>1, <2>2, <2>5, <2>6
      <3>2. CASE t # s
        <4>1. capabilities'[t] = capabilities[t] /\ minted'[t] = minted[t]
          BY <3>2, <1>t, <2>1
        <4>2. t \in Nat
          BY CapConstants DEF Slots
        <4>3. (t < next_cap_handle' - 1) <=> (t < next_cap_handle - 1)
          BY <3>2, <4>2, <2>2, <2>5, <2>6
        <4>4. QED
          BY <4>1, <4>3 DEF DenseTable
      <3>3. QED
        BY <3>1, <3>2
    <2>8. next_cap_handle' - 1 <= MAX_CAPABILITIES
      BY <2>2, <2>5, <2>6, CapConstants
    <2>9. QED
      BY <2>6, <2>7, <2>8 DEF DenseTable
  <1>2. ASSUME NEW c \in CPUs, NEW h \in Handles, cap_delete(c, h)
        PROVE  DenseTable'
    BY <1>2 DEF cap_delete
  <1>3. ASSUME NEW c \in CPUs, DeleteFromDomain(c) \/ DeleteClear(c)
        PROVE  DenseTable'
    BY <1>3 DEF DeleteFromDomain, DeleteClear, DenseTable
  <1>4. ASSUME NEW c \in CPUs, NEW h \in Handles, NEW id \in DomainIds,
               cap_grant(c, h, id) \/ cap_revoke(c, h, id)
        PROVE  DenseTable'
    <2>1. PICK s \in Slots : \E k :
            capabilities' = [capabilities EXCEPT ![s].ref_count = k]
      BY <1>4 DEF cap_grant, cap_revoke, cap_get_capability
    <2>2. \A t \in Slots : capabilities'[t].magic = capabilities[t].magic
      BY <1>t, <2>1 DEF Cap
    <2>3. UNCHANGED <<next_cap_handle, minted, pc>>
      BY <1>4 DEF cap_grant, cap_revoke
    <2>4. QED
      BY <2>2, <2>3, SameTableKeepsDense DEF DenseTable
  <1>5. ASSUME NEW c \in CPUs, UNCHANGED <<capabilities, next_cap_handle, minted>>,
               \/ pc' = pc
               \/ \E v \in {"idle", "spin", "return"} : pc' = [pc EXCEPT ![c] = v]
        PROVE  DenseTable'
    BY <1>5, <1>p, SameTableKeepsDense DEF DenseTable
  <1>6. ASSUME NEW c \in CPUs,
               \/ cap_create_domain(c) \/ ReturnDomainId(c)
               \/ \E id \in DomainIds : cap_delete_domain(c, id)
               \/ \E id \in DomainIds : DeleteDomainRevokes(c, id)
               \/ \E h \in Handles : cap_derive(c, h)
        PROVE  DenseTable'
    <2>1. UNCHANGED <<capabilities, next_cap_handle, minted>>
      BY <1>6 DEF cap_create_domain, ReturnDomainId, cap_delete_domain,
                  DeleteDomainRevokes, cap_derive, tables
    <2>2. \/ pc' = pc
          \/ \E v \in {"idle", "spin", "return"} : pc' = [pc EXCEPT ![c] = v]
      BY <1>6 DEF cap_create_domain, ReturnDomainId, cap_delete_domain,
                  DeleteDomainRevokes, cap_derive
    <2>3. QED
      BY <2>1, <2>2, <1>5
  <1>7. CASE UNCHANGED vars
    BY <1>7, SameTableKeepsDense DEF vars, DenseTable
  <1>8. QED
    BY <1>1, <1>2, <1>3, <1>4, <1>6, <1>7 DEF Next

\* In a dense table handle h is found in slot h - 1, where it was created.
LEMMA DenseTableResolves ==
  ASSUME SafeSpaces, DenseTable
  PROVE  CreatedHandleResolves /\ OwnHandlePasses
  <1>t. next_cap_handle \in Nat \ {0}
    BY CapConstants DEF SafeSpaces, TypeOK
  <1>1. ASSUME NEW s \in Slots, capabilities[s].magic
        PROVE  minted[s] = s + 1 /\ s \in cap_get_capability(s + 1)
    <2>1. s \in Nat /\ s < next_cap_handle - 1 /\ minted[s] = s + 1
      BY <1>1, CapConstants DEF DenseTable, Slots
    <2>2. (s + 1) - 1 = s /\ s + 1 # 0 /\ s + 1 < next_cap_handle
      BY <1>t, <2>1
    <2>3. s = ((s + 1) - 1) % MAX_CAPABILITIES
      BY <2>2, SlotModulo
    <2>4. QED
      BY <1>1, <2>1, <2>2, <2>3 DEF cap_get_capability
  <1>2. CreatedHandleResolves
    BY <1>1 DEF CreatedHandleResolves
  <1>3. ASSUME NEW id \in DomainIds, NEW h \in Handles, cap_check(id, h, {})
        PROVE  \E s \in Slots : /\ capabilities[s].magic
                                /\ minted[s] = h
                                /\ s \in cap_get_capability(h)
    <2>1. PICK s \in cap_get_capability(h) : TRUE
      BY <1>3 DEF cap_check
    <2>2. h \in Nat /\ h # 0 /\ h < next_cap_handle
      BY <2>1, CapConstants DEF cap_get_capability, Handles
    <2>3. h - 1 \in Slots
      BY <1>t, <2>2, CapConstants DEF DenseTable, Slots
    <2>4. s \in Slots /\ capabilities[s].magic /\ s = h - 1
      BY <2>1, <2>3, SlotModulo DEF cap_get_capability
    <2>5. minted[s] = h
      BY <2>2, <2>4, <1>1
    <2>6. QED
      BY <2>1, <2>4, <2>5
  <1>4. QED
    BY <1>2, <1>3 DEF OwnHandlePasses

\* The history variable deletes counts up.
LEMMA DeletesGrow ==
  ASSUME deletes \in Nat, deletes' = 0, [Next]_vars
  PROVE  deletes = 0
  <1>1. ASSUME NEW c \in CPUs, NEW h \in Handles, cap_delete(c, h)
        PROVE  deletes = 0
    BY <1>1 DEF cap_delete
  <1>2. ASSUME NEW c \in CPUs, NEW perms \in SUBSET Perms, NEW id \in DomainIds,
               cap_create(c, perms, id)
        PROVE  deletes = 0
    BY <1>2 DEF cap_create
  <1>3. ASSUME NEW c \in CPUs,
               DeleteFromDomain(c) \/ DeleteClear(c) \/ cap_create_domain(c)
                 \/ ReturnDomainId(c)
        PROVE  deletes = 0
    BY <1>3 DEF DeleteFromDomain, DeleteClear, cap_create_domain, ReturnDomainId
  <1>4. ASSUME NEW c \in CPUs, NEW h \in Handles, NEW id \in DomainIds,
               cap_grant(c, h, id) \/ cap_revoke(c, h, id)
        PROVE  deletes = 0
    BY <1>4 DEF cap_grant, cap_revoke
  <1>5. ASSUME NEW c \in CPUs, NEW id \in DomainIds,
               cap_delete_domain(c, id) \/ DeleteDomainRevokes(c, id)
        PROVE  deletes = 0
    BY <1>5 DEF cap_delete_domain, DeleteDomainRevokes
  <1>6. ASSUME NEW c \in CPUs, NEW h \in Handles, cap_derive(c, h)
        PROVE  deletes = 0
    BY <1>6 DEF cap_derive
  <1>7. CASE UNCHANGED vars
    BY <1>7 DEF vars
  <1>8. QED
    BY <1>1, <1>2, <1>3, <1>4, <1>5, <1>6, <1>7 DEF Next

\* Until cap_delete is called for the first time, every handle cap_create
\* returned finds its own capability, and cap_check accepts no other handle.
THEOREM HandlesSoundBeforeDelete == Spec => []HandlesSoundUntilDelete
  <1> DEFINE Dense == deletes = 0 => DenseTable
  <1>1. Init => Dense
    <2> SUFFICES ASSUME Init PROVE DenseTable
      OBVIOUS
    <2>1. \A s \in Slots : ~capabilities[s].magic /\ ~(s < next_cap_handle - 1)
      BY CapConstants DEF Init, cap_init, NoCap, Slots
    <2>2. QED
      BY <2>1, CapConstants DEF Init, cap_init, DenseTable
  <1>2. SafeSpaces /\ Dense /\ [Next]_vars => Dense'
    BY NextDense, DeletesGrow DEF SafeSpaces, TypeOK
  <1>3. SafeSpaces /\ Dense => HandlesSoundUntilDelete
    BY DenseTableResolves DEF HandlesSoundUntilDelete
  <1> HIDE DEF Dense
  <1>4. QED
    BY <1>1, <1>2, <1>3, InitSafeSpaces, NextSafeSpaces, PTL DEF Spec

-----------------------------------------------------------------------------
(***************************************************************************)
(* The counters beside the tables.                                         *)
(***************************************************************************)

Valid == {s \in Slots : capabilities[s].magic}
Used == {s \in DomSlots : domains[s].domain_id # 0}

\* A running cap_delete still has a valid capability to clear: nobody else can
\* change the table while it holds the lock.
DeletesValid ==
  \A c \in CPUs : pc[c] = "delete" => call[c].slot \in Valid

CountInv == num_caps = Cardinality(Valid) /\ num_domains = Cardinality(Used) /\ DeletesValid

LEMMA TablesFinite == IsFiniteSet(Slots) /\ IsFiniteSet(DomSlots)
  BY CapConstants, FS_Interval DEF Slots, DomSlots

LEMMA InitCountInv == Init => CountInv
  <1> SUFFICES ASSUME Init PROVE CountInv
    OBVIOUS
  <1>1. Valid = {} /\ Used = {}
    BY DEF Init, cap_init, Valid, Used, NoCap, NoDomain
  <1>2. Cardinality(Valid) = 0 /\ Cardinality(Used) = 0
    BY <1>1, FS_EmptySet
  <1>3. QED
    BY <1>2 DEF Init, cap_init, CountInv, DeletesValid

\* A step that keeps the valid slots and the used domains, and lets no CPU
\* into cap_delete but with a valid capability.
LEMMA SameCounts ==
  ASSUME CountInv, UNCHANGED <<num_caps, num_domains>>,
         \A s \in Slots : capabilities'[s].magic = capabilities[s].magic,
         \A s \in DomSlots : domains'[s].domain_id = domains[s].domain_id,
         \A c \in CPUs : pc'[c] = "delete" =>
           \/ pc[c] = "delete" /\ call'[c].slot = call[c].slot
           \/ call'[c].slot \in Valid
  PROVE  CountInv'
  <1>1. Valid' = Valid /\ Used' = Used
    BY DEF Valid, Used
  <1>2. DeletesValid'
    BY <1>1 DEF CountInv, DeletesValid
  <1>3. QED
    BY <1>1, <1>2 DEF CountInv

LEMMA NextCountInv ==
  ASSUME SafeSpaces, LockExcludes, CountInv, [Next]_vars
  PROVE  CountInv'
  <1>t. /\ capabilities \in [Slots -> Cap] /\ domains \in [DomSlots -> Domain]
        /\ pc \in [CPUs -> {"idle", "delete", "spin", "return"}]
        /\ call \in [CPUs -> [handle: Handles, slot: Nat, index: Nat, id: DomainIds]]
        /\ next_cap_handle \in Nat /\ next_domain_id \in Nat \ {0}
    BY CapConstants DEF SafeSpaces, TypeOK
  <1>p. \A s \in DomSlots : Packed(domains[s], next_cap_handle)
    BY DEF SafeSpaces, SpacePacked
  <1>f. IsFiniteSet(Valid) /\ IsFiniteSet(Used)
    <2>1. Valid \in SUBSET Slots /\ Used \in SUBSET DomSlots
      BY DEF Valid, Used
    <2>2. QED
      BY <2>1, TablesFinite, FS_Subset
  <1>l. ASSUME NEW c \in CPUs, Enter(c) PROVE \A d \in CPUs : pc[d] # "delete"
    BY <1>l DEF Enter, LockExcludes
  <1>1. ASSUME NEW c \in CPUs, NEW perms \in SUBSET Perms, NEW id \in DomainIds,
               cap_create(c, perms, id)
        PROVE  CountInv'
    <2>1. PICK s \in FreeSlot :
            capabilities' = [capabilities EXCEPT ![s] =
                 [magic |-> TRUE, permissions |-> perms, ref_count |-> 1]]
      BY <1>1 DEF cap_create
    <2>2. s \in Slots /\ s \notin Valid /\ Valid' = Valid \cup {s}
      BY <1>t, <2>1 DEF FreeSlot, Valid
    <2>3. Cardinality(Valid') = Cardinality(Valid) + 1
      BY <1>f, <2>2, FS_AddElement
    <2>4. Used' = Used
      <3>1. next_cap_handle \in Handles /\ next_cap_handle + 1 \in Nat
            /\ next_cap_handle <= next_cap_handle + 1
            /\ next_cap_handle \in 1 .. (next_cap_handle + 1) - 1
        BY <1>1, CapConstants DEF cap_create, Handles, SafeSpaces, TypeOK
      <3>2. \A t \in DomSlots : domains'[t].domain_id = domains[t].domain_id
        <4> DEFINE D == cap_domain_add_cap(id, next_cap_handle)
        <4>0. domains \in [DomSlots -> Domain] /\ next_cap_handle \in Nat
          BY <1>t
        <4>1. /\ D \in [DomSlots -> Domain]
              /\ \A t \in DomSlots : /\ Packed(D[t], next_cap_handle + 1)
                                     /\ D[t].domain_id = domains[t].domain_id
          BY <1>p, <3>1, <4>0, AddToTable
        <4>2. QED
          BY <1>1, <4>1 DEF cap_create
      <3>3. QED
        BY <3>2 DEF Used
    <2>5. DeletesValid'
      BY <1>1, <1>l DEF cap_create, DeletesValid
    <2>6. QED
      BY <1>1, <2>3, <2>4, <2>5 DEF cap_create, CountInv
  <1>2. ASSUME NEW c \in CPUs, NEW h \in Handles, cap_delete(c, h)
        PROVE  CountInv'
    <2>1. PICK s \in cap_get_capability(h) :
            call' = [call EXCEPT ![c] = [NoCall EXCEPT !.handle = h, !.slot = s]]
      BY <1>2 DEF cap_delete
    <2>2. s \in Valid /\ call'[c].slot = s /\ \A d \in CPUs : d # c => call'[d] = call[d]
      BY <1>t, <2>1 DEF cap_get_capability, Valid, NoCall
    <2>3. UNCHANGED <<num_caps, num_domains, capabilities, domains>>
          /\ pc' = [pc EXCEPT ![c] = "delete"]
      BY <1>2 DEF cap_delete
    <2>4. QED
      BY <1>t, <2>2, <2>3, SameCounts
  <1>3. ASSUME NEW c \in CPUs, DeleteFromDomain(c)
        PROVE  CountInv'
    <2>1. \A s \in DomSlots : domains'[s].domain_id = domains[s].domain_id
      BY <1>3, <1>t, <1>p, RemoveFromTable DEF DeleteFromDomain
    <2>2. \A d \in CPUs : call'[d].slot = call[d].slot
      BY <1>3, <1>t DEF DeleteFromDomain
    <2>3. UNCHANGED <<num_caps, num_domains, capabilities, pc>>
      BY <1>3 DEF DeleteFromDomain
    <2>4. QED
      BY <2>1, <2>2, <2>3, SameCounts
  <1>4. ASSUME NEW c \in CPUs, DeleteClear(c)
        PROVE  CountInv'
    <2>1. /\ pc[c] = "delete" /\ pc' = [pc EXCEPT ![c] = "idle"]
          /\ capabilities' = [capabilities EXCEPT ![call[c].slot] = NoCap]
          /\ num_caps' = num_caps - 1 /\ UNCHANGED <<domains, num_domains>>
      BY <1>4 DEF DeleteClear
    <2>2. call[c].slot \in Valid
      BY <2>1 DEF CountInv, DeletesValid
    <2>3. Valid' = Valid \ {call[c].slot}
      BY <1>t, <2>1 DEF Valid, NoCap
    <2>4. Cardinality(Valid') = Cardinality(Valid) - 1
      BY <1>f, <2>2, <2>3, FS_RemoveElement
    <2>5. \A d \in CPUs : pc'[d] # "delete"
      BY <1>t, <2>1 DEF LockExcludes
    <2>6. QED
      BY <2>1, <2>4, <2>5 DEF CountInv, DeletesValid, Used
  <1>5. ASSUME NEW c \in CPUs, NEW h \in Handles, NEW id \in DomainIds,
               cap_grant(c, h, id) \/ cap_revoke(c, h, id)
        PROVE  CountInv'
    <2>1. PICK s \in cap_get_capability(h) : \E k :
            capabilities' = [capabilities EXCEPT ![s].ref_count = k]
      BY <1>5 DEF cap_grant, cap_revoke
    <2>2. \A t \in Slots : capabilities'[t].magic = capabilities[t].magic
      BY <1>t, <2>1 DEF Cap
    <2>3. \A t \in DomSlots : domains'[t].domain_id = domains[t].domain_id
      <3>1. CASE cap_grant(c, h, id)
        <4>1. h \in 1 .. next_cap_handle - 1 /\ next_cap_handle <= next_cap_handle
          BY <1>t, <2>1, CapConstants DEF cap_get_capability, Handles
        <4>2. QED
          BY <3>1, <1>t, <1>p, <4>1, AddToTable DEF cap_grant
      <3>2. CASE cap_revoke(c, h, id)
        BY <3>2, <1>t, <1>p, RemoveFromTable DEF cap_revoke
      <3>3. QED
        BY <1>5, <3>1, <3>2
    <2>4. UNCHANGED <<num_caps, num_domains, pc, call>>
      BY <1>5 DEF cap_grant, cap_revoke
    <2>5. QED
      BY <2>2, <2>3, <2>4, SameCounts
  <1>6. ASSUME NEW c \in CPUs, cap_create_domain(c)
        PROVE  CountInv'
    <2>1. PICK s \in cap_get_domain(0) :
            domains' = [domains EXCEPT ![s] = [NoDomain EXCEPT !.domain_id = next_domain_id]]
      BY <1>6 DEF cap_create_domain
    <2>2. s \in DomSlots /\ s \notin Used
      BY <2>1 DEF cap_get_domain, Used
    <2>3. Used' = Used \cup {s}
      BY <1>t, <2>1, <2>2 DEF Used, NoDomain
    <2>4. Cardinality(Used') = Cardinality(Used) + 1
      BY <1>f, <2>2, <2>3, FS_AddElement
    <2>5. DeletesValid'
      <3>1. \A d \in CPUs : pc[d] # "delete"
        BY <1>6, <1>l DEF cap_create_domain
      <3>2. pc' = [pc EXCEPT ![c] = "return"]
        BY <1>6 DEF cap_create_domain
      <3>3. QED
        BY <1>t, <3>1, <3>2 DEF DeletesValid
    <2>6. QED
      BY <1>6, <2>4, <2>5 DEF cap_create_domain, CountInv, Valid
  <1>7. ASSUME NEW c \in CPUs, NEW id \in DomainIds, cap_delete_domain(c, id)
        PROVE  CountInv'
    <2>1. PICK s \in cap_get_domain(id) : domains' = [domains EXCEPT ![s] = NoDomain]
      BY <1>7 DEF cap_delete_domain
    <2>2. id # 0
      BY <1>7 DEF cap_delete_domain, ReturnedId
    <2>3. s \in DomSlots /\ s \in Used
      BY <2>1, <2>2 DEF cap_get_domain, Used
    <2>4. Used' = Used \ {s}
      BY <1>t, <2>1, <2>3 DEF Used, NoDomain
    <2>5. Cardinality(Used') = Cardinality(Used) - 1
      BY <1>f, <2>3, <2>4, FS_RemoveElement
    <2>6. QED
      BY <1>7, <2>5 DEF cap_delete_domain, CountInv, DeletesValid, Valid
  <1>8. ASSUME NEW c \in CPUs,
               \/ ReturnDomainId(c) \/ \E h \in Handles : cap_derive(c, h)
               \/ \E id \in DomainIds : DeleteDomainRevokes(c, id)
        PROVE  CountInv'
    <2>1. UNCHANGED tables
      BY <1>8 DEF ReturnDomainId, cap_derive, DeleteDomainRevokes
    <2>2. \A d \in CPUs : pc'[d] = "delete" => pc[d] = "delete" /\ call'[d].slot = call[d].slot
      BY <1>8, <1>t DEF ReturnDomainId, cap_derive, DeleteDomainRevokes
    <2>3. QED
      BY <2>1, <2>2, SameCounts DEF tables
  <1>9. CASE UNCHANGED vars
    BY <1>9, SameCounts DEF vars
  <1>10. QED
    BY <1>1, <1>2, <1>3, <1>4, <1>5, <1>6, <1>7, <1>8, <1>9 DEF Next

-----------------------------------------------------------------------------
(***************************************************************************)
(* Reference counts.                                                       *)
(***************************************************************************)

Entries == DomSlots \X SpaceIdx
HoldersIn(D, h) == {e \in Entries : D[e[1]].cap_space[e[2]] = h}

LEMMA TableSize ==
  ASSUME NEW n \in Nat \ {0}
  PROVE  IsFiniteSet(0 .. n - 1) /\ Cardinality(0 .. n - 1) = n
  <1>1. /\ IsFiniteSet(0 .. n - 1)
        /\ Cardinality(0 .. n - 1) = IF 0 > n - 1 THEN 0 ELSE (n - 1) - 0 + 1
    BY FS_Interval
  <1>2. ~(0 > n - 1) /\ (n - 1) - 0 + 1 = n
    OBVIOUS
  <1>3. QED
    BY <1>1, <1>2

\* There are at most as many holders as entries.
LEMMA HoldersFinite ==
  ASSUME NEW D, NEW h
  PROVE  /\ IsFiniteSet(HoldersIn(D, h)) /\ Cardinality(HoldersIn(D, h)) \in Nat
         /\ Cardinality(HoldersIn(D, h)) <= MAX_DOMAINS * DOMAIN_CAP_SPACE_SIZE
  <1>1. /\ IsFiniteSet(DomSlots) /\ Cardinality(DomSlots) = MAX_DOMAINS
        /\ IsFiniteSet(SpaceIdx) /\ Cardinality(SpaceIdx) = DOMAIN_CAP_SPACE_SIZE
    BY CapConstants, TableSize DEF DomSlots, SpaceIdx
  <1>2. IsFiniteSet(Entries) /\ Cardinality(Entries) = MAX_DOMAINS * DOMAIN_CAP_SPACE_SIZE
    BY <1>1, FS_Product DEF Entries
  <1>3. HoldersIn(D, h) \in SUBSET Entries
    BY DEF HoldersIn
  <1>4. /\ IsFiniteSet(HoldersIn(D, h))
        /\ Cardinality(HoldersIn(D, h)) <= Cardinality(Entries)
    BY <1>2, <1>3, FS_Subset
  <1>5. Cardinality(HoldersIn(D, h)) \in Nat
    BY <1>4, FS_CardinalityType
  <1>6. QED
    BY <1>2, <1>4, <1>5

\* cap_get_domain finds one slot.
LEMMA OneSlot ==
  ASSUME NEW id, NEW s \in cap_get_domain(id), NEW t \in cap_get_domain(id)
  PROVE  s = t
  <1>1. /\ s \in Int /\ t \in Int /\ 0 <= s /\ 0 <= t
        /\ domains[s].domain_id = id /\ domains[t].domain_id = id
        /\ \A u \in 0 .. s - 1 : domains[u].domain_id # id
        /\ \A u \in 0 .. t - 1 : domains[u].domain_id # id
    BY CapConstants DEF cap_get_domain, DomSlots
  <1>2. t \notin 0 .. s - 1 /\ s \notin 0 .. t - 1
    BY <1>1
  <1>3. QED
    BY <1>1, <1>2

\* A space that took a handle holds it once more, and others as before.
LEMMA AddHolders ==
  ASSUME domains \in [DomSlots -> Domain], NEW n \in Nat,
         \A s \in DomSlots : Packed(domains[s], n),
         NEW id, CanAdd(id), NEW h, h # 0
  PROVE  LET D == cap_domain_add_cap(id, h) IN
         /\ Cardinality(HoldersIn(D, h)) = Cardinality(HoldersIn(domains, h)) + 1
         /\ \A k : k # h /\ k # 0 => HoldersIn(D, k) = HoldersIn(domains, k)
  <1> DEFINE D == cap_domain_add_cap(id, h)
  <1>1. PICK s \in cap_get_domain(id) : domains[s].num_caps < DOMAIN_CAP_SPACE_SIZE
    BY DEF CanAdd
  <1> DEFINE i == domains[s].num_caps
  <1>2. s \in DomSlots /\ i \in SpaceIdx /\ <<s, i>> \in Entries
    BY <1>1, CapConstants DEF cap_get_domain, Domain, SpaceIdx, Entries
  <1>3. /\ D[s] = AddCap(domains[s], h)
        /\ \A t \in DomSlots : t # s => D[t] = domains[t]
    BY <1>1, <1>2, OneSlot DEF cap_domain_add_cap
  <1>4. D[s].cap_space = [domains[s].cap_space EXCEPT ![i] = h]
    BY <1>3 DEF AddCap
  <1>5. domains[s].cap_space \in [SpaceIdx -> Handles] /\ domains[s].cap_space[i] = 0
    BY <1>2 DEF Domain, Packed, SpaceIdx
  <1> HIDE DEF D, i
  <1>6. \A t \in DomSlots, j \in SpaceIdx :
          D[t].cap_space[j] = IF t = s /\ j = i THEN h ELSE domains[t].cap_space[j]
    BY <1>2, <1>3, <1>4, <1>5
  <1>7. HoldersIn(D, h) = HoldersIn(domains, h) \cup {<<s, i>>}
    BY <1>2, <1>6 DEF HoldersIn, Entries
  <1>8. <<s, i>> \notin HoldersIn(domains, h)
    BY <1>5 DEF HoldersIn
  <1>9. Cardinality(HoldersIn(D, h)) = Cardinality(HoldersIn(domains, h)) + 1
    BY <1>7, <1>8, HoldersFinite, FS_AddElement
  <1>10. ASSUME NEW k, k # h, k # 0 PROVE HoldersIn(D, k) = HoldersIn(domains, k)
    <2>1. \A t \in DomSlots, j \in SpaceIdx :
            D[t].cap_space[j] = k <=> domains[t].cap_space[j] = k
      BY <1>5, <1>6, <1>10
    <2>2. QED
      BY <2>1 DEF HoldersIn, Entries
  <1>11. QED
    BY <1>9, <1>10 DEF D

\* A domain without room, or an unknown domain, is left alone.
LEMMA CannotAdd ==
  ASSUME domains \in [DomSlots -> Domain], NEW id, ~CanAdd(id), NEW h
  PROVE  cap_domain_add_cap(id, h) = domains
  BY DEF CanAdd, cap_domain_add_cap

\* Where an entry goes when the one at i is shifted out.
LEMMA ShiftedEntry ==
  ASSUME NEW dom \in Domain, NEW n \in Nat, Packed(dom, n), NEW i \in SpaceIdx,
         i < dom.num_caps, NEW k, k # 0
  PROVE  LET new == RemoveAt(dom, i).cap_space IN
         /\ \A j \in SpaceIdx : dom.cap_space[j] = k /\ j < i => new[j] = k
         /\ \A j \in SpaceIdx : dom.cap_space[j] = k /\ j > i
                                => j - 1 \in SpaceIdx /\ new[j - 1] = k
         /\ \A j \in SpaceIdx : new[j] = k /\ j < i => dom.cap_space[j] = k
         /\ \A j \in SpaceIdx : new[j] = k /\ j >= i
                                => j + 1 \in SpaceIdx /\ dom.cap_space[j + 1] = k
  <1> DEFINE new == RemoveAt(dom, i).cap_space
             sp == dom.cap_space
             m == dom.num_caps
  <1>1. /\ m \in Nat /\ m <= DOMAIN_CAP_SPACE_SIZE /\ i \in Nat /\ SpaceIdx \subseteq Nat
        /\ \A j \in SpaceIdx : j >= m => sp[j] = 0
    BY CapConstants DEF Domain, Packed, SpaceIdx
  <1>2. \A j \in SpaceIdx : new[j] = IF j = m - 1 THEN 0
                                     ELSE IF i <= j /\ j < m - 1 THEN sp[j + 1] ELSE sp[j]
    BY DEF RemoveAt
  <1>3. \A j \in Nat : j \in SpaceIdx <=> j < DOMAIN_CAP_SPACE_SIZE
    BY CapConstants DEF SpaceIdx
  <1> HIDE DEF new, sp, m
  <1>i. i < m
    BY DEF m
  <1>4. ASSUME NEW j \in SpaceIdx, sp[j] = k, j < i PROVE new[j] = k
    <2>1. j \in Nat /\ j # m - 1 /\ ~(i <= j)
      BY <1>1, <1>4, <1>i
    <2>2. QED
      BY <1>2, <1>4, <2>1
  <1>5. ASSUME NEW j \in SpaceIdx, sp[j] = k, j > i PROVE j - 1 \in SpaceIdx /\ new[j - 1] = k
    <2>1. j \in Nat /\ j < m
      BY <1>1, <1>5
    <2>2. /\ j - 1 \in Nat /\ j - 1 < DOMAIN_CAP_SPACE_SIZE /\ j - 1 # m - 1
          /\ i <= j - 1 /\ j - 1 < m - 1 /\ (j - 1) + 1 = j
      BY <1>1, <1>5, <2>1, CapConstants
    <2>3. j - 1 \in SpaceIdx
      BY <1>3, <2>2
    <2>4. new[j - 1] = sp[(j - 1) + 1]
      BY <1>2, <2>2, <2>3
    <2>5. QED
      BY <1>5, <2>2, <2>3, <2>4
  <1>6. ASSUME NEW j \in SpaceIdx, new[j] = k, j < i PROVE sp[j] = k
    <2>1. j \in Nat /\ j # m - 1 /\ ~(i <= j)
      BY <1>1, <1>6, <1>i
    <2>2. QED
      BY <1>2, <1>6, <2>1
  <1>7. ASSUME NEW j \in SpaceIdx, new[j] = k, j >= i
        PROVE  j + 1 \in SpaceIdx /\ sp[j + 1] = k
    <2>1. j \in Nat /\ j # m - 1
      BY <1>1, <1>2, <1>7
    <2>2. CASE j < m - 1
      <3>1. j + 1 \in SpaceIdx
        BY <1>1, <1>3, <2>1, <2>2, CapConstants
      <3>2. i <= j
        BY <1>1, <1>7, <2>1
      <3>3. QED
        BY <1>2, <1>7, <2>1, <2>2, <3>1, <3>2
    <2>3. CASE ~(j < m - 1)
      <3>1. j >= m
        BY <1>1, <2>1, <2>3
      <3>2. QED
        BY <1>1, <1>2, <1>7, <2>1, <2>3, <3>1
    <2>4. QED
      BY <2>2, <2>3
  <1>8. QED
    BY <1>4, <1>5, <1>6, <1>7 DEF new, sp

\* A space that gave up an entry holds its handle once less, and others as
\* often as before.
LEMMA RemoveHolders ==
  ASSUME domains \in [DomSlots -> Domain], NEW n \in Nat,
         \A s \in DomSlots : Packed(domains[s], n),
         NEW id, NEW h, CanRemove(id, h)
  PROVE  LET D == cap_domain_remove_cap(id, h) IN
         \A k : k # 0 =>
           Cardinality(HoldersIn(D, k))
             = IF k = h THEN Cardinality(HoldersIn(domains, k)) - 1
               ELSE Cardinality(HoldersIn(domains, k))
  <1> DEFINE D == cap_domain_remove_cap(id, h)
  <1>1. PICK s \in cap_get_domain(id) : \E i \in SpaceIdx : FirstAt(domains[s], h, i)
    BY DEF CanRemove
  <1> DEFINE i == CHOOSE j \in SpaceIdx : FirstAt(domains[s], h, j)
  <1>2. i \in SpaceIdx /\ FirstAt(domains[s], h, i)
    BY <1>1
  <1>3. s \in DomSlots /\ domains[s] \in Domain
    BY DEF cap_get_domain
  <1>4. D[s] = RemoveAt(domains[s], i) /\ \A t \in DomSlots : t # s => D[t] = domains[t]
    BY <1>1, <1>3, OneSlot DEF cap_domain_remove_cap
  <1> HIDE DEF D, i
  <1>5. i < domains[s].num_caps /\ domains[s].cap_space[i] = h /\ SpaceIdx \subseteq Int
        /\ i \in Int
    BY <1>2, CapConstants DEF FirstAt, SpaceIdx
  <1>6. SUFFICES ASSUME NEW k, k # 0
                 PROVE  Cardinality(HoldersIn(D, k))
                          = IF k = h THEN Cardinality(HoldersIn(domains, k)) - 1
                            ELSE Cardinality(HoldersIn(domains, k))
    BY DEF D
  <1> DEFINE S == HoldersIn(domains, k) \ {<<s, i>>}
             T == HoldersIn(D, k)
             f == [e \in S |-> IF e[1] = s /\ e[2] > i THEN <<s, e[2] - 1>> ELSE e]
  <1>7. LET new == D[s].cap_space sp == domains[s].cap_space IN
         /\ \A j \in SpaceIdx : sp[j] = k /\ j < i => new[j] = k
         /\ \A j \in SpaceIdx : sp[j] = k /\ j > i
                                => j - 1 \in SpaceIdx /\ new[j - 1] = k
         /\ \A j \in SpaceIdx : new[j] = k /\ j < i => sp[j] = k
         /\ \A j \in SpaceIdx : new[j] = k /\ j >= i
                                => j + 1 \in SpaceIdx /\ sp[j + 1] = k
    <2>1. Packed(domains[s], n)
      BY <1>3
    <2>2. QED
      BY <1>2, <1>3, <1>4, <1>5, <1>6, <2>1, ShiftedEntry
  <1>8. \A t \in DomSlots, j \in SpaceIdx :
          /\ <<t, j>> \in S <=> domains[t].cap_space[j] = k /\ ~(t = s /\ j = i)
          /\ <<t, j>> \in T <=> D[t].cap_space[j] = k
    BY DEF HoldersIn, Entries
  <1>9. \A e \in S \cup T : \E t \in DomSlots, j \in SpaceIdx : e = <<t, j>>
    BY DEF HoldersIn, Entries
  <1>10. \A t \in DomSlots, j \in SpaceIdx : <<t, j>> \in S =>
           f[<<t, j>>] = IF t = s /\ j > i THEN <<s, j - 1>> ELSE <<t, j>>
    OBVIOUS
  <1>11. f \in [S -> T]
    <2>1. ASSUME NEW t \in DomSlots, NEW j \in SpaceIdx, <<t, j>> \in S
          PROVE  f[<<t, j>>] \in T
      <3>1. CASE t # s
        <4>1. f[<<t, j>>] = <<t, j>> /\ D[t] = domains[t]
          BY <1>4, <1>10, <2>1, <3>1
        <4>2. QED
          BY <1>8, <2>1, <4>1
      <3>2. CASE t = s /\ j > i
        <4>1. f[<<t, j>>] = <<s, j - 1>> /\ domains[s].cap_space[j] = k
          BY <1>8, <1>10, <2>1, <3>2
        <4>2. QED
          BY <1>3, <1>7, <1>8, <3>2, <4>1
      <3>3. CASE t = s /\ ~(j > i)
        <4>1. f[<<t, j>>] = <<t, j>> /\ domains[s].cap_space[j] = k /\ j # i
          BY <1>8, <1>10, <2>1, <3>3
        <4>2. j < i
          BY <1>5, <3>3, <4>1
        <4>3. QED
          BY <1>3, <1>7, <1>8, <3>3, <4>1, <4>2
      <3>4. QED
        BY <3>1, <3>2, <3>3
    <2>2. \A e \in S : f[e] \in T
      BY <1>9, <2>1
    <2>3. QED
      BY <2>2
  <1>12. ASSUME NEW a \in S, NEW b \in S, f[a] = f[b] PROVE a = b
    <2>1. PICK t \in DomSlots, j \in SpaceIdx, u \in DomSlots, l \in SpaceIdx :
            a = <<t, j>> /\ b = <<u, l>>
      BY <1>9
    <2>2. /\ f[a] = IF t = s /\ j > i THEN <<s, j - 1>> ELSE <<t, j>>
          /\ f[b] = IF u = s /\ l > i THEN <<s, l - 1>> ELSE <<u, l>>
          /\ ~(t = s /\ j = i) /\ ~(u = s /\ l = i)
      BY <1>8, <1>10, <2>1
    <2> HIDE DEF f, S, T
    <2>3. /\ f[a][1] = t /\ f[a][2] = IF t = s /\ j > i THEN j - 1 ELSE j
          /\ f[b][1] = u /\ f[b][2] = IF u = s /\ l > i THEN l - 1 ELSE l
      BY <2>2
    <2>4. j \in Int /\ l \in Int /\ t = u
      BY <1>5, <1>12, <2>3
    <2>5. j = l
      BY <1>5, <1>12, <2>2, <2>3, <2>4
    <2>6. QED
      BY <2>1, <2>4, <2>5
  <1>13. ASSUME NEW e \in T PROVE \E a \in S : f[a] = e
    <2>1. PICK t \in DomSlots, j \in SpaceIdx : e = <<t, j>>
      BY <1>9
    <2>2. D[t].cap_space[j] = k /\ j \in Int
      BY <1>5, <1>8, <1>13, <2>1
    <2>3. CASE t # s
      <3>1. <<t, j>> \in S
        BY <1>4, <1>8, <2>2, <2>3
      <3>2. f[<<t, j>>] = <<t, j>>
        BY <1>10, <2>3, <3>1
      <3>3. QED
        BY <2>1, <3>1, <3>2
    <2>4. CASE t = s /\ j < i
      <3>1. domains[s].cap_space[j] = k /\ j # i /\ ~(j > i)
        BY <1>5, <1>7, <2>2, <2>4
      <3>2. <<t, j>> \in S
        BY <1>8, <2>4, <3>1
      <3>3. f[<<t, j>>] = <<t, j>>
        BY <1>10, <3>1, <3>2
      <3>4. QED
        BY <2>1, <3>2, <3>3
    <2>5. CASE t = s /\ ~(j < i)
      <3>1. j >= i /\ j + 1 # i /\ j + 1 > i /\ (j + 1) - 1 = j
        BY <1>5, <2>2, <2>5
      <3>2. j + 1 \in SpaceIdx /\ domains[s].cap_space[j + 1] = k
        BY <1>7, <2>2, <2>5, <3>1
      <3>3. <<s, j + 1>> \in S
        BY <1>3, <1>8, <3>1, <3>2
      <3>4. f[<<s, j + 1>>] = <<s, (j + 1) - 1>>
        BY <1>3, <1>10, <3>1, <3>2, <3>3
      <3>5. QED
        BY <2>1, <2>5, <3>1, <3>3, <3>4
    <2>6. QED
      BY <2>3, <2>4, <2>5
  <1>14. IsFiniteSet(HoldersIn(domains, k)) /\ Cardinality(HoldersIn(domains, k)) \in Nat
    BY HoldersFinite
  <1>15. /\ IsFiniteSet(S)
         /\ Cardinality(S) = IF <<s, i>> \in HoldersIn(domains, k)
                             THEN Cardinality(HoldersIn(domains, k)) - 1
                             ELSE Cardinality(HoldersIn(domains, k))
    BY <1>14, FS_RemoveElement
  <1>16. <<s, i>> \in HoldersIn(domains, k) <=> k = h
    BY <1>2, <1>3, <1>5 DEF HoldersIn, Entries
  <1> HIDE DEF f, S, T
  <1>17. f \in Bijection(S, T)
    BY <1>11, <1>12, <1>13 DEF Bijection, Injection, Surjection, IsInjective
  <1>18. Cardinality(T) = Cardinality(S)
    <2>1. ExistsBijection(S, T)
      BY <1>17 DEF ExistsBijection
    <2>2. QED
      BY <1>15, <2>1, FS_Bijection
  <1>19. QED
    BY <1>15, <1>16, <1>18 DEF T

Count(D, s) == Cardinality(HoldersIn(D, s + 1))
Lost == (next_domain_id - 1) * DOMAIN_CAP_SPACE_SIZE

\* A count covers its holders, and exceeds them by the creator's reference and
\* the grants that were lost when a new domain cleared its slot.
RefInv ==
  \A s \in Slots : capabilities[s].magic =>
    /\ Count(domains, s) <= capabilities[s].ref_count
    /\ capabilities[s].ref_count <= 1 + Count(domains, s) + Lost

LEMMA CountTyped ==
  ASSUME NEW D, NEW s
  PROVE  Count(D, s) \in Nat /\ Count(D, s) <= MAX_DOMAINS * DOMAIN_CAP_SPACE_SIZE
  BY HoldersFinite DEF Count

\* The counter has room for all of that.
LEMMA LostBound ==
  ASSUME TypeOK
  PROVE  /\ Lost \in Nat /\ MAX_DOMAINS * DOMAIN_CAP_SPACE_SIZE \in Nat
         /\ MAX_DOMAINS * DOMAIN_CAP_SPACE_SIZE + Lost + 1 < UINT32_RANGE
  <1> DEFINE d == next_domain_id - 1
             w == DOMAIN_CAP_SPACE_SIZE
  <1>1. /\ d \in Nat /\ MaxDomainId - d \in Nat /\ w \in Nat /\ MAX_DOMAINS \in Nat
        /\ UINT32_RANGE \in Nat /\ MaxDomainId \in Nat
    BY CapConstants DEF TypeOK
  <1>2. (MAX_DOMAINS + MaxDomainId) * w + 1 < UINT32_RANGE
    BY RefCountFits
  <1>3. Lost = d * w
    BY DEF Lost
  <1> HIDE DEF d, w
  <1>4. /\ d * w \in Nat /\ (MaxDomainId - d) * w \in Nat /\ MAX_DOMAINS * w \in Nat
    BY <1>1
  <1>5. (MAX_DOMAINS + MaxDomainId) * w = MAX_DOMAINS * w + d * w + (MaxDomainId - d) * w
    BY <1>1
  <1>6. MAX_DOMAINS * w + d * w + 1 < UINT32_RANGE
    BY <1>1, <1>2, <1>4, <1>5
  <1>7. QED
    BY <1>3, <1>4, <1>6 DEF w

\* In a dense table a handle is found one below its number.
LEMMA DenseHandle ==
  ASSUME SafeSpaces, DenseTable, NEW h \in Handles, NEW s \in cap_get_capability(h)
  PROVE  /\ h = s + 1 /\ h # 0 /\ s \in Slots /\ capabilities[s].magic
         /\ h \in 1 .. next_cap_handle - 1
  <1>1. next_cap_handle \in Nat \ {0} /\ h \in Nat /\ h # 0 /\ h < next_cap_handle
    BY CapConstants DEF SafeSpaces, TypeOK, cap_get_capability, Handles
  <1>2. h - 1 \in Slots
    BY <1>1, CapConstants DEF DenseTable, Slots
  <1>3. s \in Slots /\ capabilities[s].magic /\ s = h - 1
    BY <1>2, SlotModulo DEF cap_get_capability
  <1>4. QED
    BY <1>1, <1>3

LEMMA InitRefInv == Init => RefInv
  BY DEF Init, cap_init, RefInv, NoCap

\* Steps that leave the counts, and the entries that hold handles, alone.
LEMMA SameRefs ==
  ASSUME RefInv, UNCHANGED <<capabilities, next_domain_id>>,
         \A s \in Slots : Count(domains', s) = Count(domains, s)
  PROVE  RefInv'
  BY DEF RefInv, Lost

\* The parts of the state that count.
LEMMA RefParts ==
  ASSUME SafeSpaces
  PROVE  /\ domains \in [DomSlots -> Domain] /\ next_cap_handle \in Nat \ {0}
         /\ \A s \in DomSlots : Packed(domains[s], next_cap_handle)
         /\ capabilities \in [Slots -> Cap] /\ Slots \subseteq Nat
         /\ \A s \in Slots : capabilities[s].ref_count \in Nat
  <1>1. /\ domains \in [DomSlots -> Domain] /\ next_cap_handle \in Nat \ {0}
        /\ \A s \in DomSlots : Packed(domains[s], next_cap_handle)
        /\ capabilities \in [Slots -> Cap] /\ Slots \subseteq Nat
    BY CapConstants DEF SafeSpaces, TypeOK, SpacePacked, Slots
  <1>2. \A s \in Slots : capabilities[s].ref_count \in Nat
    BY <1>1, CapConstants DEF Cap
  <1>3. QED
    BY <1>1, <1>2

LEMMA GrantRefInv ==
  ASSUME SafeSpaces, DenseTable, RefInv, NEW c \in CPUs, NEW h \in Handles,
         NEW id \in DomainIds, cap_grant(c, h, id)
  PROVE  RefInv'
  <1>1. PICK s \in cap_get_capability(h) :
          capabilities' = [capabilities EXCEPT ![s].ref_count = (@ + 1) % UINT32_RANGE]
    BY DEF cap_grant
  <1>2. h = s + 1 /\ h # 0 /\ s \in Slots /\ capabilities[s].magic
    BY DenseHandle
  <1>3. CanAdd(id) /\ domains' = cap_domain_add_cap(id, h) /\ UNCHANGED next_domain_id
    BY DEF cap_grant
  <1>4. /\ Count(domains', s) = Count(domains, s) + 1
        /\ \A k : k # h /\ k # 0 => HoldersIn(domains', k) = HoldersIn(domains, k)
    BY <1>2, <1>3, RefParts, AddHolders DEF Count
  <1>5. ASSUME NEW t \in Slots, t # s PROVE Count(domains', t) = Count(domains, t)
    <2>1. t + 1 # h /\ t + 1 # 0
      BY <1>2, <1>5, RefParts
    <2>2. QED
      BY <1>4, <2>1 DEF Count
  <1> DEFINE r == capabilities[s].ref_count
  <1>6. r \in Nat /\ Count(domains, s) <= r /\ r <= 1 + Count(domains, s) + Lost
    BY <1>2, RefParts DEF RefInv
  <1>7. r + 1 < UINT32_RANGE
    <2>1. /\ Lost \in Nat /\ MAX_DOMAINS * DOMAIN_CAP_SPACE_SIZE \in Nat
          /\ MAX_DOMAINS * DOMAIN_CAP_SPACE_SIZE + Lost + 1 < UINT32_RANGE
      BY LostBound DEF SafeSpaces
    <2>2. /\ Count(domains, s) \in Nat
          /\ Count(domains', s) <= MAX_DOMAINS * DOMAIN_CAP_SPACE_SIZE
      BY CountTyped
    <2>3. UINT32_RANGE \in Nat
      BY CapConstants
    <2> HIDE DEF r
    <2>4. QED
      BY <1>4, <1>6, <2>1, <2>2, <2>3
  <1>8. (r + 1) % UINT32_RANGE = r + 1
    BY <1>6, <1>7, CapConstants
  <1>9. /\ capabilities'[s].ref_count = r + 1
        /\ \A t \in Slots : t # s => capabilities'[t] = capabilities[t]
    <2>1. capabilities'[s].ref_count = (r + 1) % UINT32_RANGE
      BY <1>1, <1>2, RefParts DEF Cap
    <2>2. \A t \in Slots : t # s => capabilities'[t] = capabilities[t]
      BY <1>1, RefParts
    <2>3. QED
      BY <1>8, <2>1, <2>2
  <1>10. Lost' = Lost /\ Lost \in Nat /\ Count(domains, s) \in Nat
    BY <1>3, LostBound, CountTyped DEF Lost, SafeSpaces
  <1> HIDE DEF r
  <1>11. ASSUME NEW t \in Slots, capabilities'[t].magic
         PROVE  /\ Count(domains', t) <= capabilities'[t].ref_count
                /\ capabilities'[t].ref_count <= 1 + Count(domains', t) + Lost'
    <2>1. CASE t = s
      BY <1>4, <1>6, <1>9, <1>10, <2>1
    <2>2. CASE t # s
      BY <1>5, <1>9, <1>10, <1>11, <2>2 DEF RefInv
    <2>3. QED
      BY <2>1, <2>2
  <1>12. QED
    BY <1>11 DEF RefInv

LEMMA RevokeRefInv ==
  ASSUME SafeSpaces, DenseTable, RefInv, NEW c \in CPUs, NEW h \in Handles,
         NEW id \in DomainIds, cap_revoke(c, h, id)
  PROVE  RefInv'
  <1>1. PICK s \in cap_get_capability(h) :
          capabilities' = [capabilities EXCEPT ![s].ref_count = (@ - 1) % UINT32_RANGE]
    BY DEF cap_revoke
  <1>2. h = s + 1 /\ h # 0 /\ s \in Slots /\ capabilities[s].magic
    BY DenseHandle
  <1>3. CanRemove(id, h) /\ domains' = cap_domain_remove_cap(id, h) /\ UNCHANGED next_domain_id
    BY DEF cap_revoke
  <1>4. \A k : k # 0 => Cardinality(HoldersIn(domains', k))
                          = IF k = h THEN Cardinality(HoldersIn(domains, k)) - 1
                            ELSE Cardinality(HoldersIn(domains, k))
    BY <1>3, RefParts, RemoveHolders
  <1>5. /\ Count(domains', s) = Count(domains, s) - 1
        /\ Count(domains', s) \in Nat /\ Count(domains, s) \in Nat
    BY <1>2, <1>4, CountTyped DEF Count
  <1>6. ASSUME NEW t \in Slots, t # s PROVE Count(domains', t) = Count(domains, t)
    <2>1. t + 1 # h /\ t + 1 # 0
      BY <1>2, <1>6, RefParts
    <2>2. QED
      BY <1>4, <2>1 DEF Count
  <1> DEFINE r == capabilities[s].ref_count
  <1>7. r \in Nat /\ Count(domains, s) <= r /\ r <= 1 + Count(domains, s) + Lost
    BY <1>2, RefParts DEF RefInv
  <1>8. (r - 1) % UINT32_RANGE = r - 1
    <2>1. r < UINT32_RANGE /\ UINT32_RANGE \in Nat \ {0}
      BY <1>2, RefParts, CapConstants DEF Cap
    <2>2. r - 1 \in Nat
      BY <1>5, <1>7
    <2>3. QED
      BY <1>7, <2>1, <2>2
  <1>9. /\ capabilities'[s].ref_count = r - 1
        /\ \A t \in Slots : t # s => capabilities'[t] = capabilities[t]
    <2>1. capabilities'[s].ref_count = (r - 1) % UINT32_RANGE
      BY <1>1, <1>2, RefParts DEF Cap
    <2>2. \A t \in Slots : t # s => capabilities'[t] = capabilities[t]
      BY <1>1, RefParts
    <2>3. QED
      BY <1>8, <2>1, <2>2
  <1>10. Lost' = Lost /\ Lost \in Nat
    BY <1>3, LostBound DEF Lost, SafeSpaces
  <1> HIDE DEF r
  <1>11. ASSUME NEW t \in Slots, capabilities'[t].magic
         PROVE  /\ Count(domains', t) <= capabilities'[t].ref_count
                /\ capabilities'[t].ref_count <= 1 + Count(domains', t) + Lost'
    <2>1. CASE t = s
      BY <1>5, <1>7, <1>9, <1>10, <2>1
    <2>2. CASE t # s
      BY <1>6, <1>9, <1>10, <1>11, <2>2 DEF RefInv
    <2>3. QED
      BY <2>1, <2>2
  <1>12. QED
    BY <1>11 DEF RefInv

LEMMA CreateRefInv ==
  ASSUME SafeSpaces, DenseTable, DenseTable', RefInv, NEW c \in CPUs,
         NEW perms \in SUBSET Perms, NEW id \in DomainIds, cap_create(c, perms, id)
  PROVE  RefInv'
  <1> DEFINE h == next_cap_handle
  <1>1. PICK s \in FreeSlot :
          /\ capabilities' = [capabilities EXCEPT ![s] =
               [magic |-> TRUE, permissions |-> perms, ref_count |-> 1]]
          /\ minted' = [minted EXCEPT ![s] = h]
    BY DEF cap_create
  <1>2. s \in Slots /\ capabilities'[s].magic /\ capabilities'[s].ref_count = 1
        /\ minted'[s] = h /\ \A t \in Slots : t # s => capabilities'[t] = capabilities[t]
    BY <1>1, RefParts DEF FreeSlot, SafeSpaces, TypeOK
  <1>3. s + 1 = h /\ h # 0 /\ h \in Nat
    BY <1>2, RefParts DEF DenseTable
  <1>4. domains' = cap_domain_add_cap(id, h) /\ UNCHANGED next_domain_id
    BY DEF cap_create
  <1>5. Count(domains, s) = 0
    <2>1. \A t \in DomSlots, i \in SpaceIdx : domains[t].cap_space[i] # h
      <3> SUFFICES ASSUME NEW t \in DomSlots, NEW i \in SpaceIdx
                   PROVE  domains[t].cap_space[i] # h
        OBVIOUS
      <3>1. /\ i \in Nat /\ domains[t].num_caps \in Nat
            /\ i < domains[t].num_caps => domains[t].cap_space[i] \in 1 .. h - 1
            /\ i >= domains[t].num_caps => domains[t].cap_space[i] = 0
        BY RefParts, CapConstants DEF Packed, Domain, SpaceIdx
      <3>2. QED
        BY <1>3, <3>1
    <2>2. HoldersIn(domains, h) = {}
      BY <2>1 DEF HoldersIn, Entries
    <2>3. QED
      BY <1>3, <2>2, FS_EmptySet DEF Count
  <1>6. /\ Count(domains', s) \in {0, 1}
        /\ \A k : k # h /\ k # 0 => HoldersIn(domains', k) = HoldersIn(domains, k)
    <2>1. CASE CanAdd(id)
      <3>1. /\ Cardinality(HoldersIn(domains', h)) = Cardinality(HoldersIn(domains, h)) + 1
            /\ \A k : k # h /\ k # 0 => HoldersIn(domains', k) = HoldersIn(domains, k)
        BY <1>3, <1>4, <2>1, RefParts, AddHolders
      <3>2. QED
        BY <1>3, <1>5, <3>1 DEF Count
    <2>2. CASE ~CanAdd(id)
      <3>1. domains' = domains
        BY <1>4, <2>2, RefParts, CannotAdd
      <3>2. QED
        BY <1>5, <3>1
    <2>3. QED
      BY <2>1, <2>2
  <1>7. ASSUME NEW t \in Slots, t # s PROVE Count(domains', t) = Count(domains, t)
    <2>1. t + 1 # h /\ t + 1 # 0
      BY <1>2, <1>3, <1>7, RefParts
    <2>2. QED
      BY <1>6, <2>1 DEF Count
  <1>8. Lost' = Lost /\ Lost \in Nat
    BY <1>4, LostBound DEF Lost, SafeSpaces
  <1>9. ASSUME NEW t \in Slots, capabilities'[t].magic
        PROVE  /\ Count(domains', t) <= capabilities'[t].ref_count
               /\ capabilities'[t].ref_count <= 1 + Count(domains', t) + Lost'
    <2>1. CASE t = s
      BY <1>2, <1>6, <1>8, <2>1
    <2>2. CASE t # s
      BY <1>2, <1>7, <1>8, <1>9, <2>2 DEF RefInv
    <2>3. QED
      BY <2>1, <2>2
  <1>10. QED
    BY <1>9 DEF RefInv

\* A new domain clears its slot: at most one space of entries is lost.
LEMMA CreateDomainRefInv ==
  ASSUME SafeSpaces, RefInv, NEW c \in CPUs, cap_create_domain(c)
  PROVE  RefInv'
  <1>1. PICK s \in DomSlots :
          domains' = [domains EXCEPT ![s] = [NoDomain EXCEPT !.domain_id = next_domain_id]]
    BY DEF cap_create_domain, cap_get_domain
  <1>2. UNCHANGED capabilities /\ next_domain_id' = next_domain_id + 1
    BY DEF cap_create_domain
  <1> DEFINE w == DOMAIN_CAP_SPACE_SIZE
  <1>3. Lost' = Lost + w /\ Lost \in Nat /\ w \in Nat
    <2>1. Lost \in Nat /\ w \in Nat /\ next_domain_id \in Nat
      BY LostBound, CapConstants DEF SafeSpaces, TypeOK
    <2>2. Lost' = ((next_domain_id + 1) - 1) * w /\ Lost = (next_domain_id - 1) * w
      BY <1>2 DEF Lost
    <2>3. ((next_domain_id + 1) - 1) * w = (next_domain_id - 1) * w + w
      BY <2>1
    <2>4. QED
      BY <2>1, <2>2, <2>3
  <1>4. \A t \in DomSlots, i \in SpaceIdx :
          domains'[t].cap_space[i] = IF t = s THEN 0 ELSE domains[t].cap_space[i]
    BY <1>1, RefParts DEF NoDomain
  <1> DEFINE R == {s} \X SpaceIdx
  <1>5. IsFiniteSet(R) /\ Cardinality(R) = w
    <2>1. IsFiniteSet({s}) /\ Cardinality({s}) = 1
      BY FS_Singleton
    <2>2. IsFiniteSet(SpaceIdx) /\ Cardinality(SpaceIdx) = w
      BY TableSize, CapConstants DEF SpaceIdx
    <2>3. IsFiniteSet(R) /\ Cardinality(R) = 1 * w
      BY <2>1, <2>2, FS_Product
    <2>4. QED
      BY <1>3, <2>3
  <1>6. ASSUME NEW t \in Slots
        PROVE  /\ Count(domains', t) <= Count(domains, t)
               /\ Count(domains, t) <= Count(domains', t) + w
    <2> DEFINE A == HoldersIn(domains, t + 1)
               B == HoldersIn(domains', t + 1)
    <2>1. t + 1 # 0
      BY RefParts
    <2>2. B = A \ R
      BY <1>4, <2>1 DEF HoldersIn, Entries
    <2>3. IsFiniteSet(A) /\ Cardinality(A) \in Nat /\ Cardinality(B) \in Nat
      BY HoldersFinite
    <2> HIDE DEF A, B, R
    <2>4. Cardinality(B) = Cardinality(A) - Cardinality(A \cap R)
      BY <2>2, <2>3, FS_Difference
    <2>5. IsFiniteSet(A \cap R) /\ Cardinality(A \cap R) <= w
      <3>1. A \cap R \in SUBSET R
        OBVIOUS
      <3>2. QED
        BY <1>5, <3>1, FS_Subset
    <2>6. Cardinality(A \cap R) \in Nat
      BY <2>5, FS_CardinalityType
    <2> HIDE DEF w
    <2>7. Cardinality(B) <= Cardinality(A) /\ Cardinality(A) <= Cardinality(B) + w
      BY <1>3, <2>3, <2>4, <2>5, <2>6
    <2>8. QED
      BY <2>7 DEF Count, A, B
  <1> HIDE DEF w
  <1>7. ASSUME NEW t \in Slots, capabilities'[t].magic
        PROVE  /\ Count(domains', t) <= capabilities'[t].ref_count
               /\ capabilities'[t].ref_count <= 1 + Count(domains', t) + Lost'
    <2>1. /\ Count(domains, t) <= capabilities[t].ref_count
          /\ capabilities[t].ref_count <= 1 + Count(domains, t) + Lost
      BY <1>2, <1>7 DEF RefInv
    <2>2. Count(domains, t) \in Nat /\ Count(domains', t) \in Nat
      BY CountTyped
    <2>3. capabilities[t].ref_count \in Nat
      BY RefParts
    <2>4. QED
      BY <1>2, <1>3, <1>6, <2>1, <2>2, <2>3
  <1>8. QED
    BY <1>7 DEF RefInv

LEMMA DeleteDomainRefInv ==
  ASSUME SafeSpaces, RefInv, NEW c \in CPUs, NEW id \in DomainIds, cap_delete_domain(c, id)
  PROVE  RefInv'
  <1>1. PICK s \in DomSlots : /\ \A i \in SpaceIdx : domains[s].cap_space[i] = 0
                              /\ domains' = [domains EXCEPT ![s] = NoDomain]
    BY DEF cap_delete_domain, cap_get_domain
  <1>2. \A t \in DomSlots, i \in SpaceIdx :
          domains'[t].cap_space[i] = domains[t].cap_space[i]
    BY <1>1, RefParts DEF NoDomain
  <1>3. \A t : Count(domains', t) = Count(domains, t)
    BY <1>2 DEF Count, HoldersIn, Entries
  <1>4. QED
    BY <1>3, SameRefs DEF cap_delete_domain

LEMMA NextRefInv ==
  ASSUME SafeSpaces, DenseTable, DenseTable', RefInv, deletes \in Nat, deletes' = 0,
         [Next]_vars
  PROVE  RefInv'
  <1>1. ASSUME NEW c \in CPUs, NEW h \in Handles, cap_delete(c, h) PROVE RefInv'
    BY <1>1 DEF cap_delete
  <1>2. ASSUME NEW c \in CPUs, DeleteFromDomain(c) \/ DeleteClear(c) PROVE RefInv'
    BY <1>2 DEF DeleteFromDomain, DeleteClear, DenseTable
  <1>3. ASSUME NEW c \in CPUs,
               \/ ReturnDomainId(c) \/ \E h \in Handles : cap_derive(c, h)
               \/ \E id \in DomainIds : DeleteDomainRevokes(c, id)
        PROVE  RefInv'
    BY <1>3, SameRefs DEF ReturnDomainId, cap_derive, DeleteDomainRevokes, tables
  <1>4. CASE UNCHANGED vars
    BY <1>4, SameRefs DEF vars
  <1>5. QED
    BY <1>1, <1>2, <1>3, <1>4, CreateRefInv, GrantRefInv, RevokeRefInv,
       CreateDomainRefInv, DeleteDomainRefInv DEF Next

\* The counters beside the tables are exact, and until the first cap_delete a
\* capability's ref_count never falls below the number of entries that hold it.
THEOREM TablesStaySound == Spec => []TablesSound
  <1> DEFINE Dense == deletes = 0 => DenseTable /\ RefInv
  <1>1. Init => Dense
    <2> SUFFICES ASSUME Init PROVE DenseTable /\ RefInv
      OBVIOUS
    <2>1. \A s \in Slots : ~capabilities[s].magic /\ ~(s < next_cap_handle - 1)
      BY CapConstants DEF Init, cap_init, NoCap, Slots
    <2>2. DenseTable
      BY <2>1, CapConstants DEF Init, cap_init, DenseTable
    <2>3. QED
      BY <2>2, InitRefInv
  <1>2. SafeSpaces /\ Dense /\ [Next]_vars => Dense'
    <2> SUFFICES ASSUME SafeSpaces, Dense, [Next]_vars, deletes' = 0
                 PROVE  DenseTable' /\ RefInv'
      OBVIOUS
    <2>1. deletes \in Nat /\ deletes = 0
      BY DeletesGrow DEF SafeSpaces, TypeOK
    <2>2. DenseTable'
      BY <2>1, NextDense
    <2>3. QED
      BY <2>1, <2>2, NextRefInv
  <1>3. SafeSpaces /\ LockExcludes /\ CountInv /\ Dense => TablesSound
    <2> SUFFICES ASSUME SafeSpaces, LockExcludes, CountInv, Dense PROVE TablesSound
      OBVIOUS
    <2>1. CountsExact
      BY DEF CountInv, CountsExact, Valid, Used
    <2>2. RefCountCoversHolders
      <3> SUFFICES ASSUME NEW s \in Slots, deletes = 0, capabilities[s].magic
                   PROVE  Cardinality(Holders(minted[s])) <= capabilities[s].ref_count
        BY DEF RefCountCoversHolders
      <3>1. minted[s] = s + 1
        BY DEF DenseTable
      <3>2. Holders(s + 1) = HoldersIn(domains, s + 1)
        BY DEF Holders, HoldersIn, Entries
      <3>3. QED
        BY <3>1, <3>2 DEF RefInv, Count
    <2>3. QED
      BY <2>1, <2>2 DEF TablesSound, SafeSpaces
  <1>4. SafeSpaces /\ LockExcludes /\ CountInv /\ [Next]_vars => CountInv'
    BY NextCountInv
  <1> HIDE DEF Dense
  <1>5. Spec => []LockExcludes
    BY LockAlwaysExcludes
  <1>6. QED
    BY <1>1, <1>2, <1>3, <1>4, <1>5, InitSafeSpaces, NextSafeSpaces, InitCountInv, PTL
       DEF Spec
=============================================================================
