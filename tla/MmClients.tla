----------------------------- MODULE MmClients -----------------------------
(***************************************************************************)
(* The frame allocator with its callers.  Boot code hands memory to the    *)
(* allocator with mm_reserve; callers allocate, keep a block and free it   *)
(* once, with the address mm_alloc returned.                               *)
(***************************************************************************)
EXTENDS PhysMem

VARIABLE owned   \* blocks callers hold: a non-zero address came back

cvars == <<mm, owned>>

Block == [start: Pages, pages: 1 .. MaxPages, type: UsedTypes, owner: Owners]

ClientsInit == mm = mm_init /\ owned = {}

HeldPages == UNION {Run(b.start, b.pages) : b \in owned}

\* Boot code adds or withdraws a region that nobody holds.
ReserveRegion(start, n, t, o) ==
  /\ Run(start, n) \cap HeldPages = {}
  /\ mm' = mm_reserve(mm, start, n, t, o)
  /\ UNCHANGED owned

\* A caller of mm_alloc treats 0 as failure and keeps any other address.  When
\* the search finds nothing, mm_alloc changes nothing.
AllocBlock(n, align, t, o) ==
  \E s \in FirstFit(mm, n, align) :
    /\ mm' = mm_alloc(mm, s, n, t, o)
    /\ owned' = IF s = 0 THEN owned
               ELSE owned \cup {[start |-> s, pages |-> n, type |-> t, owner |-> o]}

FreeBlock(b) ==
  /\ mm' = mm_free(mm, b.start)
  /\ owned' = owned \ {b}

ClientsNext ==
  \/ \E start \in Pages, n \in 1 .. MaxPages, o \in Owners,
        t \in {"AVAILABLE", "RESERVED"} : ReserveRegion(start, n, t, o)
  \/ \E n \in 1 .. MaxPages, align \in Alignments, t \in UsedTypes, o \in Owners :
       AllocBlock(n, align, t, o)
  \/ \E b \in owned : FreeBlock(b)

ClientsSpec == ClientsInit /\ [][ClientsNext]_cvars
-----------------------------------------------------------------------------
(* Properties. *)

\* The table and the counters have their types; owned blocks are blocks.
ClientsTypeOK == mm \in State /\ owned \subseteq Block

\* No frame belongs to two blocks, and every frame of a block a caller holds
\* still carries the type and the owner it was allocated with, whatever the
\* other callers free and allocate meanwhile.
BlocksIntact ==
  \A b \in owned :
    /\ \A p \in Run(b.start, b.pages) :
         p \in Pages /\ mm.frames[p] = [type |-> b.type, owner |-> b.owner]
    /\ \A c \in owned :
         Run(b.start, b.pages) \cap Run(c.start, c.pages) # {} => b = c

\* mm_alloc searches for contiguous available pages: a request without an
\* alignment beyond the page is met whenever there are enough of them.
FindsContiguous ==
  \A n \in 1 .. MaxPages :
    (\E s \in Pages : Run(s, n) \subseteq Available(mm)) => FirstFit(mm, n, 1) # {}

\* The loop of mm_alloc, with its resets, returns the lowest run the closed
\* form FirstFit describes, and fails exactly when there is none.
ScanIsFirstFit ==
  \A n \in 1 .. MaxPages, align \in Alignments :
    LET r == Scan(mm, n, align)
    IN  FirstFit(mm, n, align) = IF r.hit THEN {r.start} ELSE {}
=============================================================================
