------------------------------ MODULE PhysMem ------------------------------
(***************************************************************************)
(* The Core-0 physical frame allocator (Core-0/mm/mm.c).                   *)
(*                                                                         *)
(* A table with the type and the owner of every page frame, two page       *)
(* counters, and three operations, each of which runs under the spinlock   *)
(* from its first to its last access: one step per call.                   *)
(*                                                                         *)
(* The state is one record, so that the components that allocate through   *)
(* mm can apply the same operators to it.  Addresses are page numbers: the *)
(* operations round sizes and alignments up to pages before they use them. *)
(* mm_alloc returns an address, and page 0 has the address that also       *)
(* reports failure.                                                        *)
(***************************************************************************)
EXTENDS Integers, FiniteSets

CONSTANTS
  total_pages,   \* page frames
  UsedTypes,     \* types memory is allocated as: kernel, service, ...
  Owners,        \* domain ids that own memory
  COUNTER_RANGE, \* the counters are uint64_t: they wrap at 2^64
  MaxPages,      \* bound: pages of one request
  Alignments     \* alignments requested, in pages

ASSUME MmConstants ==
  /\ total_pages \in Nat \ {0} /\ MaxPages \in Nat
  /\ COUNTER_RANGE \in Nat \ {0}
  /\ Alignments \subseteq Nat \ {0}
  /\ 0 \in Owners
  /\ {"RESERVED", "AVAILABLE"} \cap UsedTypes = {}

VARIABLE mm    \* g_mm_state

Pages == 0 .. total_pages - 1
MemTypes == UsedTypes \cup {"RESERVED", "AVAILABLE"}
Frame == [type: MemTypes, owner: Owners]
State == [frames: [Pages -> Frame], available_pages: 0 .. COUNTER_RANGE - 1,
          allocated_pages: 0 .. COUNTER_RANGE - 1]

Run(s, n) == s .. s + n - 1

\* mm_init: every frame is reserved, and counted as available.
mm_init ==
  [frames |-> [p \in Pages |-> [type |-> "RESERVED", owner |-> 0]],
   available_pages |-> total_pages % COUNTER_RANGE,
   allocated_pages |-> 0]

\* The state with the frames in a set retyped.
SetFrames(m, ps, t, o) ==
  [p \in Pages |-> IF p \in ps THEN [type |-> t, owner |-> o] ELSE m.frames[p]]

\* Frames that a search may use.
Available(m) == {p \in Pages : m.frames[p].type = "AVAILABLE"}

\* Mutant: an unaligned run is searched further instead of being reset.
Candidates_NoReset(m, n, align) ==
  {s \in Available(m) : Run(s, n) \subseteq Available(m) /\ s % align = 0}

\* Mutant: the scan leaves out the last page.
Candidates_StopsEarly(m, n, align) ==
  {s \in Available(m) : Run(s, n) \subseteq Available(m) \ {total_pages - 1}}

\* Where mm_alloc's scan can stop.  A run of available frames that begins at
\* r is cut into pieces of n pages, since an unaligned piece resets
\* found_pages; the piece must be aligned.
Candidates(m, n, align) ==
  {s \in Available(m) :
     /\ Run(s, n) \subseteq Available(m)
     /\ s % align = 0
     /\ \E r \in 0 .. s : /\ r .. s \subseteq Available(m)
                          /\ r - 1 \notin Available(m)
                          /\ (s - r) % n = 0}

\* The page mm_alloc finds: the scan goes upwards and takes the first.  The
\* empty set stands for a search that fails.
FirstFit(m, n, align) ==
  {s \in Candidates(m, n, align) : \A t \in Candidates(m, n, align) : s <= t}

\* mm_alloc's loop as written: start_page, found_pages, and whether the loop
\* has returned, after page i.
ScanPage(m, n, align, i, b) ==
  LET start == IF b.found = 0 THEN i ELSE b.start
      full == b.found + 1 >= n
      aligned == start % align = 0
  IN  IF b.hit THEN b
      ELSE IF m.frames[i].type # "AVAILABLE" THEN [b EXCEPT !.found = 0]
      ELSE [start |-> start,
            found |-> IF full /\ ~aligned THEN 0 ELSE b.found + 1,
            hit   |-> full /\ aligned]
NoRun == [start |-> 0, found |-> 0, hit |-> FALSE]
Scan(m, n, align) ==
  LET scan[i \in 0 .. total_pages] ==
        IF i = 0 THEN NoRun ELSE ScanPage(m, n, align, i - 1, scan[i - 1])
  IN  scan[total_pages]

\* Mutant: the last page of the run is left available.
mm_alloc_ShortTake(m, s, n, t, o) ==
  [frames |-> SetFrames(m, Run(s, n - 1), t, o),
   available_pages |-> (m.available_pages - n) % COUNTER_RANGE,
   allocated_pages |-> (m.allocated_pages + n) % COUNTER_RANGE]

\* The state after mm_alloc has taken n pages from page s on.
mm_alloc(m, s, n, t, o) ==
  [frames |-> SetFrames(m, Run(s, n), t, o),
   available_pages |-> (m.available_pages - n) % COUNTER_RANGE,
   allocated_pages |-> (m.allocated_pages + n) % COUNTER_RANGE]

\* Mutant: the page after the one named is freed.
mm_free_NextPage(m, page) ==
  [frames |-> SetFrames(m, {page + 1}, "AVAILABLE", 0),
   available_pages |-> (m.available_pages + 1) % COUNTER_RANGE,
   allocated_pages |-> (m.allocated_pages - 1) % COUNTER_RANGE]

\* The state after mm_free of an address below the end of memory: one frame
\* is freed, however many were allocated there, and whatever its type was.
mm_free(m, page) ==
  [frames |-> SetFrames(m, {page}, "AVAILABLE", 0),
   available_pages |-> (m.available_pages + 1) % COUNTER_RANGE,
   allocated_pages |-> (m.allocated_pages - 1) % COUNTER_RANGE]

\* The state after mm_reserve.  A region that runs past the end of memory is
\* retyped up to the end, and then the call fails before it counts.
mm_reserve(m, start, n, t, o) ==
  LET k == IF start + n > total_pages THEN 0 ELSE n
      free == t = "AVAILABLE"
  IN  [frames |-> SetFrames(m, Run(start, n), t, o),
       available_pages |-> (IF free THEN m.available_pages + k
                            ELSE m.available_pages - k) % COUNTER_RANGE,
       allocated_pages |-> (IF free THEN m.allocated_pages
                            ELSE m.allocated_pages + k) % COUNTER_RANGE]
=============================================================================
