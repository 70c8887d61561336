-------------------------------- MODULE Heap --------------------------------
(***************************************************************************)
(* The first-fit heap that Core-1 (mm/physical_mem.c) and Core-3           *)
(* (mm/virtual_mem.c) both implement: blocks with an in-line header, kept  *)
(* in a doubly linked list; allocation splits a block, freeing merges it   *)
(* with free neighbours.  This module has the operations on the block      *)
(* list; IpcEndpoints and Vmm use them.                                    *)
(*                                                                         *)
(* A block list is a function from header addresses (offsets from the      *)
(* heap's base) to headers.  A header that a merge absorbs leaves the      *)
(* function: reading it again would be an error.                           *)
(*                                                                         *)
(* The code adds padding and header to the size asked for without a check: *)
(* a request within HDR + 7 bytes of 2^64 gets a block that is too small,  *)
(* even for its own header.  Such requests are not in the model.           *)
(***************************************************************************)
EXTENDS Integers, FiniteSets

CONSTANTS
  HEAP_SIZE,   \* the size argument of the init call
  HDR,         \* sizeof(mem_block_t): 25, the struct is packed
  SIZE_RANGE,  \* sizes are uint64_t: they wrap at 2^64
  Threads      \* the threads that use the heap

\* The sums made on the way through the list are of sizes inside the heap.
ASSUME HeapConstants ==
  /\ HDR \in Nat \ {0} /\ HEAP_SIZE \in Nat /\ HEAP_SIZE >= 2 * HDR
  /\ SIZE_RANGE \in Nat /\ (SIZE_RANGE % 8) = 0 /\ HEAP_SIZE + HDR + 8 < SIZE_RANGE

VARIABLE blocks   \* the block list that starts at the heap's base

NULL == -1
Addr == 0 .. HEAP_SIZE - 1
Header == [size: 1 .. HEAP_SIZE, used: BOOLEAN, next: Addr \cup {NULL},
           prev: Addr \cup {NULL}]

\* The whole heap is one free block.
InitBlocks ==
  [a \in {0} |-> [size |-> HEAP_SIZE, used |-> FALSE, next |-> NULL, prev |-> NULL]]

\* Bound: a request whose size with padding and header is a 64-bit number.
Fits64(size) == size + 7 + HDR < SIZE_RANGE

\* (size + 7) & ~7 plus the header, in 64-bit arithmetic.
TotalSize(size) ==
  LET padded == (size + 7) % SIZE_RANGE
  IN  ((padded \div 8) * 8 + HDR) % SIZE_RANGE

\* Mutant: used blocks are searched too.
Fit_Used(B, total) ==
  {a \in DOMAIN B : /\ B[a].size >= total
                    /\ \A c \in DOMAIN B : c < a => B[c].size < total}

\* First fit: the first free block in list order (the list is in address
\* order) that is large enough.
Fit(B, total) ==
  {a \in DOMAIN B : /\ ~B[a].used /\ B[a].size >= total
                    /\ \A c \in DOMAIN B : c < a => B[c].used \/ B[c].size < total}

\* The rest of block a behind its first total bytes becomes a free block.
Split(B, a, total) ==
  [c \in DOMAIN B \cup {a + total} |->
     IF c = a THEN [B[a] EXCEPT !.size = total, !.next = a + total]
     ELSE IF c = a + total
     THEN [size |-> B[a].size - total, used |-> FALSE, next |-> B[a].next, prev |-> a]
     ELSE IF c = B[a].next THEN [B[c] EXCEPT !.prev = a + total]
     ELSE B[c]]

\* The list after block a was taken for a request: split if the rest can hold
\* a header and 8 bytes, then marked used.
Take(B, a, total) ==
  LET S == IF B[a].size >= total + HDR + 8 THEN Split(B, a, total) ELSE B
  IN  [S EXCEPT ![a].used = TRUE]

\* Block a absorbs the block that follows it, if that one is free.
MergeNext(B, a) ==
  LET n == B[a].next IN
  IF n = NULL THEN B
  ELSE IF B[n].used THEN B
  ELSE [c \in DOMAIN B \ {n} |->
          IF c = a THEN [B[a] EXCEPT !.size = @ + B[n].size, !.next = B[n].next]
          ELSE IF c = B[n].next THEN [B[c] EXCEPT !.prev = a]
          ELSE B[c]]

\* Mutant: the block is not merged with the one before it.
Release_NoPrev(B, a) == MergeNext([B EXCEPT ![a].used = FALSE], a)

\* The list after block a was freed: merged with the next block, and then
\* with the previous one.
Release(B, a) ==
  LET M == MergeNext([B EXCEPT ![a].used = FALSE], a)
      p == M[a].prev
  IN  IF p = NULL THEN M
      ELSE IF M[p].used THEN M
      ELSE MergeNext(M, p)

\* The bytes of a block behind its header.
Payload(B, a) == a + HDR .. a + B[a].size - 1

\* The bytes of used blocks, headers included.
UsedBytes(B) ==
  {x \in Addr : \E a \in DOMAIN B : B[a].used /\ x \in a .. a + B[a].size - 1}

\* What pmm_validate and vmm_validate check on their way along the list: each
\* block starts where the one before it ends, holds a header, stays inside
\* the heap, and is linked both ways.
Validates(B) ==
  /\ 0 \in DOMAIN B
  /\ \A a \in DOMAIN B :
       /\ B[a].size >= HDR
       /\ a + B[a].size <= HEAP_SIZE
       /\ B[a].next # NULL => /\ B[a].next = a + B[a].size
                              /\ B[a].next \in DOMAIN B
                              /\ B[B[a].next].prev = a
       /\ B[a].prev # NULL => /\ B[a].prev \in DOMAIN B
                              /\ B[B[a].prev].next = a

\* The list covers the heap: it starts at 0 and only the last block has no
\* successor, at whose end the heap ends.
Covers(B) ==
  \A a \in DOMAIN B : /\ (B[a].next = NULL) <=> (a + B[a].size = HEAP_SIZE)
                      /\ (B[a].prev = NULL) <=> (a = 0)

\* A request for size bytes that was answered with block a can be used: the
\* block is in the list, in use, and size bytes fit behind its header.
Usable(B, a, size) ==
  /\ a \in DOMAIN B /\ B[a].used
  /\ size <= B[a].size - HDR
=============================================================================
