--------------------------- MODULE AddressSpaces ---------------------------
(***************************************************************************)
(* The page tables of isolation domains (Core-0/isolation/isolation.c) in  *)
(* frames of the frame allocator: four levels of tables per domain, with   *)
(* mapping, unmapping and access checks.                                   *)
(*                                                                         *)
(* The code takes no lock: a domain is worked on by one CPU at a time,     *)
(* under the lock of the process manager or during boot.  CPUs that work   *)
(* on different domains share the allocator, so a mapping call goes page   *)
(* by page, and others allocate in between.                                *)
(*                                                                         *)
(* Addresses are page numbers except in isolation_verify_access, which     *)
(* takes bytes.  NULL is page 0: mm_alloc returns 0 for a failure and for  *)
(* page 0 alike.  isolation_map_memory is called with a capability that    *)
(* passes cap_check; otherwise it returns -1 and changes nothing.          *)
(*                                                                         *)
(* Abstracted: flags and capabilities of a domain's entry, which nothing   *)
(* reads; cache flags; what the owner of a data frame writes to it.        *)
(***************************************************************************)
EXTENDS PhysMem

CONSTANTS
  CPUs,         \* processors
  Domains,      \* domain ids below MAX_DOMAINS, the kernel's excepted
  N,            \* entries of a table: 512 in the code
  PAGE_SIZE,    \* bytes of a page, for isolation_verify_access
  MapTypes,     \* map_type_t
  BootPages,    \* bound: pages from which on memory is usable
  Starts,       \* bound: virtual pages at which calls start
  MaxCreates    \* bound: calls of isolation_create_page_tables

ASSUME SpaceConstants ==
  /\ N \in Nat \ {0, 1} /\ PAGE_SIZE \in Nat \ {0} /\ MaxCreates \in Nat
  /\ MapTypes \subseteq {"CODE", "DATA", "READONLY", "DEVICE", "SHARED"}
  /\ BootPages \subseteq Pages /\ Starts \subseteq 0 .. N * N * N * N - 1
  /\ {"KERNEL", "APPLICATION"} \subseteq UsedTypes

VARIABLES
  content,   \* what is in a frame, read as a page table
  pml4,      \* g_domain_tables[d].pml4
  call,      \* the isolation_map_memory call a CPU is in
  data,      \* frames allocated for domains' code and data
  mapped,    \* history: what map and unmap calls on a domain add up to
  creates    \* history: calls of isolation_create_page_tables so far

vars == <<mm, content, pml4, call, data, mapped, creates>>

NULL == 0
Idx == 0 .. N - 1
VPages == 0 .. N * N * N * N - 1
Entry == [addr: Pages, flags: SUBSET {"P", "W", "U"}]
NoEntry == [addr |-> 0, flags |-> {}]
ClearTable == [i \in Idx |-> NoEntry]
Unmapped == [v \in VPages |-> NoEntry]
Present(e) == "P" \in e.flags

\* PML4_INDEX, PDPT_INDEX, PD_INDEX, PT_INDEX: the index of a page at a level.
Index(v, level) ==
  (CASE level = 4 -> v \div (N * N * N)
     [] level = 3 -> v \div (N * N)
     [] level = 2 -> v \div N
     [] level = 1 -> v) % N

\* The page-table flags of a mapping.
PtFlags(type) ==
  {"P"} \cup (IF type \in {"DATA", "DEVICE", "SHARED"} THEN {"W"} ELSE {})
        \cup (IF type # "DEVICE" THEN {"U"} ELSE {})

\* The virtual pages of a range; addresses wrap at the end of the space.
VRange(v, n) == {(v + i) % (N * N * N * N) : i \in 0 .. n - 1}

\* pt_walk_get_pdpt, _pd and _pt: the next table below t, or NULL.
Below(t, v, level) ==
  IF t = NULL \/ ~Present(content[t][Index(v, level)]) THEN NULL
  ELSE content[t][Index(v, level)].addr

PtOf(d, v) == Below(Below(Below(pml4[d], v, 4), v, 3), v, 2)

\* pt_walk_get_pte
pt_walk_get_pte(d, v) ==
  IF PtOf(d, v) = NULL THEN NoEntry ELSE content[PtOf(d, v)][Index(v, 1)]

\* No CPU is in a mapping call on the domain.
Free(d) == \A c \in CPUs : call[c].n > 0 => call[c].domain # d

NoCall == [domain |-> 0, v |-> 0, p |-> 0, n |-> 0, flags |-> {}]
Idle(c) == call[c].n = 0

Init ==
  /\ mm = mm_init
  /\ content = [p \in Pages |-> ClearTable]
  /\ pml4 = [d \in Domains |-> NULL]
  /\ call = [c \in CPUs |-> NoCall]
  /\ data = {}
  /\ mapped = [d \in Domains |-> Unmapped]
  /\ creates = 0

\* Boot code hands the frames from one page up to the allocator, once.
AddMemory(start) ==
  /\ Available(mm) = {} /\ creates = 0 /\ data = {}
  /\ mm' = mm_reserve(mm, start, total_pages - start, "AVAILABLE", 0)
  /\ UNCHANGED <<content, pml4, call, data, mapped, creates>>

\* Memory for code and data of a domain, as process_create allocates it.
AllocData(n) ==
  /\ data = {}
  /\ \E s \in FirstFit(mm, n, 1) :
       /\ mm' = mm_alloc(mm, s, n, "APPLICATION", 0)
       /\ data' = IF s = 0 THEN {} ELSE Run(s, n)
  /\ UNCHANGED <<content, pml4, call, mapped, creates>>

\* Mutant: the new table is not cleared.
pt_alloc_page_table_NoClear(m, mem) ==
  LET fit == FirstFit(m, 1, 1) IN
  IF fit = {} THEN [table |-> NULL, mm |-> m, content |-> mem]
  ELSE LET p == CHOOSE p \in fit : TRUE
       IN  [table |-> p, mm |-> mm_alloc(m, p, 1, "KERNEL", 0), content |-> mem]

\* pt_alloc_page_table: a cleared frame, or NULL.  Page 0 is taken and given
\* up, as NULL is what its address says.
pt_alloc_page_table(m, mem) ==
  LET fit == FirstFit(m, 1, 1) IN
  IF fit = {} THEN [table |-> NULL, mm |-> m, content |-> mem]
  ELSE LET p == CHOOSE p \in fit : TRUE
       IN  [table |-> p,
            mm |-> mm_alloc(m, p, 1, "KERNEL", 0),
            content |-> IF p = NULL THEN mem ELSE [mem EXCEPT ![p] = ClearTable]]

\* A domain that has tables already gets a new root; the old tables stay
\* allocated.
isolation_create_page_tables(d) ==
  LET new == pt_alloc_page_table(mm, content) IN
  /\ Free(d)
  /\ creates < MaxCreates /\ creates' = creates + 1
  /\ mm' = new.mm /\ content' = new.content
  /\ IF new.table = NULL THEN UNCHANGED <<pml4, mapped>>
     ELSE /\ pml4' = [pml4 EXCEPT ![d] = new.table]
          /\ mapped' = [mapped EXCEPT ![d] = Unmapped]
  /\ UNCHANGED <<call, data>>

\* The root is freed; the tables below it stay allocated.
isolation_destroy_page_tables(d) ==
  /\ Free(d)
  /\ pml4[d] # NULL
  /\ mm' = mm_free(mm, pml4[d])
  /\ pml4' = [pml4 EXCEPT ![d] = NULL]
  /\ mapped' = [mapped EXCEPT ![d] = Unmapped]
  /\ UNCHANGED <<content, call, data, creates>>

\* isolation_map_memory of n pages, up to its loop.
isolation_map_memory(c, d, v, p, n, type) ==
  /\ Idle(c) /\ Free(d)
  /\ pml4[d] # NULL
  /\ call' = [call EXCEPT ![c] = [domain |-> d, v |-> v, p |-> p, n |-> n,
                                  flags |-> PtFlags(type)]]
  /\ UNCHANGED <<mm, content, pml4, data, mapped, creates>>

\* One level of the walk in isolation_map_memory: the table below walk.table,
\* which is created if it is missing.
GetOrCreate(walk, v, level) ==
  LET i == Index(v, level)
      e == walk.content[walk.table][i]
      new == pt_alloc_page_table(walk.mm, walk.content)
  IN  IF walk.table = NULL THEN walk
      ELSE IF Present(e) THEN [walk EXCEPT !.table = e.addr]
      ELSE IF new.table = NULL THEN new
      ELSE [new EXCEPT !.content[walk.table][i] =
              [addr |-> new.table, flags |-> {"P", "W", "U"}]]

\* What is left of a call after its next page.
RestOfCall(k) ==
  IF k.n = 1 THEN NoCall
  ELSE [domain |-> k.domain, v |-> (k.v + 1) % (N * N * N * N), p |-> k.p + 1,
        n |-> k.n - 1, flags |-> k.flags]

\* One round of the loop.  Without memory for a table the call returns -1: the
\* pages mapped so far stay mapped, and so do the tables that were created.
MapPage(c) ==
  LET d == call[c].domain
      v == call[c].v
      root == [table |-> pml4[d], mm |-> mm, content |-> content]
      walk == GetOrCreate(GetOrCreate(GetOrCreate(root, v, 4), v, 3), v, 2)
      pte == [addr |-> call[c].p, flags |-> call[c].flags]
  IN
  /\ ~Idle(c)
  /\ mm' = walk.mm
  /\ IF walk.table = NULL
     THEN /\ content' = walk.content
          /\ call' = [call EXCEPT ![c] = NoCall]
          /\ UNCHANGED mapped
     ELSE /\ content' = [walk.content EXCEPT ![walk.table][Index(v, 1)] = pte]
          /\ mapped' = [mapped EXCEPT ![d][v] = pte]
          /\ call' = [call EXCEPT ![c] = RestOfCall(@)]
  /\ UNCHANGED <<pml4, data, creates>>

\* Mutant: the tables that held the entries are freed as well, and stay linked.
isolation_unmap_memory_FreesTable(d, v, n) ==
  /\ Free(d)
  /\ pml4[d] # NULL
  /\ content' = [t \in Pages |-> [i \in Idx |->
       IF \E w \in VRange(v, n) : PtOf(d, w) = t /\ t # NULL /\ Index(w, 1) = i
       THEN NoEntry ELSE content[t][i]]]
  /\ mm' = IF PtOf(d, v) = NULL THEN mm ELSE mm_free(mm, PtOf(d, v))
  /\ mapped' = [mapped EXCEPT ![d] =
                  [w \in VPages |-> IF w \in VRange(v, n) THEN NoEntry ELSE @[w]]]
  /\ UNCHANGED <<pml4, call, data, creates>>

\* The entries of the range are cleared where there are tables for them.  (The
\* translation of the first page is dropped from the TLB.)
isolation_unmap_memory(d, v, n) ==
  /\ Free(d)
  /\ pml4[d] # NULL
  /\ content' = [t \in Pages |-> [i \in Idx |->
       IF \E w \in VRange(v, n) : PtOf(d, w) = t /\ t # NULL /\ Index(w, 1) = i
       THEN NoEntry ELSE content[t][i]]]
  /\ mapped' = [mapped EXCEPT ![d] =
                  [w \in VPages |-> IF w \in VRange(v, n) THEN NoEntry ELSE @[w]]]
  /\ UNCHANGED <<mm, pml4, call, data, creates>>

Next ==
  \/ \E start \in BootPages : AddMemory(start)
  \/ \E n \in 1 .. MaxPages : AllocData(n)
  \/ \E d \in Domains : isolation_create_page_tables(d)
  \/ \E d \in Domains : isolation_destroy_page_tables(d)
  \/ \E c \in CPUs, d \in Domains, v \in Starts, n \in 1 .. MaxPages, type \in MapTypes,
        p \in data :
       Run(p, n) \subseteq data /\ isolation_map_memory(c, d, v, p, n, type)
  \/ \E c \in CPUs : MapPage(c)
  \/ \E d \in Domains, v \in Starts, n \in 1 .. MaxPages :
       isolation_unmap_memory(d, v, n)

Spec == Init /\ [][Next]_vars

\* Mutant: the size is rounded down.
NumPages_Down(size) == size \div PAGE_SIZE

\* The pages a size in bytes is rounded up to.
NumPages(size) == (size + PAGE_SIZE - 1) \div PAGE_SIZE

\* isolation_verify_access: access bits 1 and 2 ask for user and write access.
isolation_verify_access(d, addr, size, access) ==
  /\ pml4[d] # NULL
  /\ \A i \in 0 .. NumPages(size) - 1 :
       LET pte == pt_walk_get_pte(d, ((addr \div PAGE_SIZE) + i) % (N * N * N * N))
       IN  Present(pte) /\ access \subseteq pte.flags
-----------------------------------------------------------------------------
(* Properties. *)

\* Frames, tables and calls have their types.
TypeOK ==
  /\ mm \in State
  /\ content \in [Pages -> [Idx -> Entry]]
  /\ pml4 \in [Domains -> Pages]
  /\ call \in [CPUs -> [domain: Domains \cup {0}, v: VPages, p: Pages,
                        n: 0 .. MaxPages, flags: SUBSET {"P", "W", "U"}]]
  /\ data \subseteq Pages
  /\ mapped \in [Domains -> [VPages -> Entry]]
  /\ creates \in 0 .. MaxCreates

\* The four levels of tables hold exactly the mappings that calls on the
\* domain made and have not removed, with the right frame and rights: none is
\* lost when tables are created for a neighbour, none is left over from an
\* earlier use of a frame, and a call that fails half way disturbs no other.
MappingsExact ==
  \A d \in Domains : \A v \in VPages : pt_walk_get_pte(d, v) = mapped[d][v]

\* The tables below a set of tables.
Children(ts) ==
  {content[e[1]][e[2]].addr : e \in {x \in ts \X Idx : Present(content[x[1]][x[2]])}}

\* The tables of a domain, and its links between them.
Roots(d) == {pml4[d]} \ {NULL}
Upper(d) == Roots(d) \cup Children(Roots(d)) \cup Children(Children(Roots(d)))
Tables(d) == Upper(d) \cup Children(Children(Children(Roots(d))))
Links(d) == {x \in Upper(d) \X Idx : Present(content[x[1]][x[2]])}

\* Page tables are kernel frames, a table has one place in one domain, and no
\* page mapped into a domain is a page table: no domain reaches another one's
\* mappings, nor its own tables.
TablesPrivate ==
  \A d \in Domains :
    /\ \A t \in Tables(d) : mm.frames[t].type = "KERNEL"
    /\ Roots(d) # {} => Cardinality(Tables(d)) = 1 + Cardinality(Links(d))
    /\ \A e \in Domains :
         /\ e # d => Tables(d) \cap Tables(e) = {}
         /\ \A v \in VPages : Present(mapped[e][v]) => mapped[e][v].addr \notin Tables(d)

\* isolation_verify_access of a page-aligned address allows an access exactly
\* if every byte of it is mapped with the right.
VerifyExact ==
  \A d \in Domains, v \in Starts, size \in 1 .. 2 * PAGE_SIZE, access \in {{}, {"U"}, {"W"}} :
    isolation_verify_access(d, v * PAGE_SIZE, size, access) <=>
      \A b \in v * PAGE_SIZE .. v * PAGE_SIZE + size - 1 :
        LET e == mapped[d][(b \div PAGE_SIZE) % (N * N * N * N)]
        IN  Present(e) /\ access \subseteq e.flags

\* Frames and tables are well formed, and every table is private.
SpacesSound == TypeOK /\ TablesPrivate
=============================================================================
