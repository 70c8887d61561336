-------------------------------- MODULE Vmm ---------------------------------
(***************************************************************************)
(* The Core-3 heap (Core-3/mm/virtual_mem.c) with the C library calls on   *)
(* top of it, used by the threads of an application.  vmm_alloc and        *)
(* vmm_free hold g_heap.lock from their first to their last access of the  *)
(* list and are one action each.  realloc is not: it reads the old header  *)
(* and copies the data without the lock, between an allocation and a free, *)
(* so a realloc that moves its block is two actions, with the operations   *)
(* of other threads in between.  vmm_mmap and vmm_munmap are vmm_alloc and *)
(* vmm_free.                                                               *)
(***************************************************************************)
EXTENDS Heap

CONSTANTS
  Sizes,      \* sizes requested, in bytes; a request for 0 returns NULL
  Counts,     \* the nmemb arguments of calloc
  NotMoving   \* a thread that is not inside a realloc that moves

ASSUME VmmConstants ==
  /\ Sizes \subseteq Nat \ {0} /\ \A size \in Sizes : Fits64(size)
  /\ Counts \subseteq Nat \ {0}
  /\ NotMoving \notin [from: Addr, to: Addr, bytes: Nat]

VARIABLES
  used,    \* g_heap.used
  live,    \* allocations not freed: {[at: header, size: bytes asked for]}
  moving   \* per thread: what realloc is copying

vmmvars == <<blocks, used, live, moving>>

\* vmm_init
VmmInit ==
  /\ blocks = InitBlocks
  /\ used = 0
  /\ live = {}
  /\ moving = [t \in Threads |-> NotMoving]

\* Mutant: the counter is charged with what was asked for, not with the block.
Allocated_Asked(a, size) ==
  /\ blocks' = Take(blocks, a, TotalSize(size))
  /\ used' = (used + TotalSize(size)) % SIZE_RANGE

\* vmm_alloc_aligned (whose alignment is not used) found block a: the list and
\* the counter after it.
Allocated(a, size) ==
  LET B == Take(blocks, a, TotalSize(size)) IN
  /\ blocks' = B
  /\ used' = (used + B[a].size) % SIZE_RANGE

\* vmm_free of block a: the list and the counter after it.
Freed(a) ==
  /\ used' = (used - blocks[a].size) % SIZE_RANGE
  /\ blocks' = Release(blocks, a)

\* malloc, vmm_alloc, vmm_mmap and realloc of NULL.  Without a fit NULL is
\* returned and nothing changes.
vmm_alloc(t, size) ==
  /\ moving[t] = NotMoving
  /\ \E a \in Fit(blocks, TotalSize(size)) :
       /\ Allocated(a, size)
       /\ live' = live \cup {[at |-> a, size |-> size]}
  /\ UNCHANGED moving

\* An allocation that a thread may pass to free or realloc: neither one that
\* a thread is inside realloc with nor one that realloc has yet to return.
Held(l) ==
  \A t \in Threads : moving[t] # NotMoving => l.at \notin {moving[t].from, moving[t].to}

\* free, vmm_free, vmm_munmap and realloc to size 0.
vmm_free(t, l) ==
  /\ moving[t] = NotMoving
  /\ Freed(l.at)
  /\ live' = live \ {l}
  /\ UNCHANGED moving

\* realloc to a size the block already has room for returns the pointer; the
\* header is read without the lock.
reallocInPlace(t, l, size) ==
  /\ moving[t] = NotMoving
  /\ size <= blocks[l.at].size - HDR
  /\ live' = (live \ {l}) \cup {[at |-> l.at, size |-> size]}
  /\ UNCHANGED <<blocks, used, moving>>

\* Mutant: the old block is freed before the new one is allocated and the data
\* are copied.
reallocBegin_FreeFirst(t, l, size) ==
  /\ moving[t] = NotMoving
  /\ size > blocks[l.at].size - HDR
  /\ LET R == Release(blocks, l.at) IN
     \E a \in Fit(R, TotalSize(size)) :
       /\ blocks' = Take(R, a, TotalSize(size))
       /\ used' = (used - blocks[l.at].size + blocks'[a].size) % SIZE_RANGE
       /\ live' = (live \ {l}) \cup {[at |-> a, size |-> size]}
       /\ moving' = [moving EXCEPT ![t] =
                       [from |-> l.at, to |-> a, bytes |-> blocks[l.at].size - HDR]]

\* realloc that needs a new block: old_size is read without the lock, the new
\* block is allocated, and the copy begins.
reallocBegin(t, l, size) ==
  /\ moving[t] = NotMoving
  /\ size > blocks[l.at].size - HDR
  /\ \E a \in Fit(blocks, TotalSize(size)) :
       /\ Allocated(a, size)
       /\ live' = live \cup {[at |-> a, size |-> size]}
       /\ moving' = [moving EXCEPT ![t] =
                       [from |-> l.at, to |-> a, bytes |-> blocks[l.at].size - HDR]]

\* The copy is done; the old block is freed.
reallocEnd(t) ==
  /\ moving[t] # NotMoving
  /\ Freed(moving[t].from)
  /\ live' = {l \in live : l.at # moving[t].from}
  /\ moving' = [moving EXCEPT ![t] = NotMoving]

\* calloc: the product wraps, the caller uses all of it.  For a product of 0
\* vmm_alloc returns NULL.
calloc(t, nmemb, size) ==
  LET total == (nmemb * size) % SIZE_RANGE IN
  /\ moving[t] = NotMoving
  /\ total # 0 /\ Fits64(total)
  /\ \E a \in Fit(blocks, TotalSize(total)) :
       /\ Allocated(a, total)
       /\ live' = live \cup {[at |-> a, size |-> nmemb * size]}
  /\ UNCHANGED moving

VmmNext ==
  \E t \in Threads :
    \/ \E size \in Sizes : vmm_alloc(t, size)
    \/ \E size \in Sizes, n \in Counts : calloc(t, n, size)
    \/ \E l \in live : Held(l) /\ vmm_free(t, l)
    \/ \E l \in live, size \in Sizes : Held(l) /\ reallocInPlace(t, l, size)
    \/ \E l \in live, size \in Sizes : Held(l) /\ reallocBegin(t, l, size)
    \/ reallocEnd(t)

VmmSpec == VmmInit /\ [][VmmNext]_vmmvars

-----------------------------------------------------------------------------
VmmTypeOK ==
  /\ DOMAIN blocks \subseteq Addr
  /\ \A a \in DOMAIN blocks : blocks[a] \in Header
  /\ used \in 0 .. HEAP_SIZE
  /\ live \subseteq [at: Addr, size: Nat]
  /\ moving \in [Threads -> [from: Addr, to: Addr, bytes: Nat] \cup {NotMoving}]

\* vmm_validate returns 0 whenever it is called, the list covers the heap, and
\* vmm_stats reports what the list holds: the counter kept beside the list
\* never drifts, whatever is split, left unsplit, merged or moved.
HeapSound ==
  VmmTypeOK /\ Validates(blocks) /\ Covers(blocks) /\ used = Cardinality(UsedBytes(blocks))

\* Memory an application got from malloc, calloc or realloc can be used until
\* it is freed and is no one else's ("Standard library compatibility",
\* virtual_mem.c:240).  A calloc whose product wraps is excepted: the
\* application gets a block for the remainder.
AllocationsUsable ==
  /\ \A l \in live : l.size < SIZE_RANGE => Usable(blocks, l.at, l.size)
  /\ \A l, m \in live : l # m => l.at # m.at

\* The unlocked memcpy of realloc stays inside both blocks, and its source is
\* the caller's until it ends: the size read before the lock was taken is the
\* block's size still.
CopyInsideBlocks ==
  \A t \in Threads : moving[t] # NotMoving =>
    /\ Usable(blocks, moving[t].from, moving[t].bytes)
    /\ Usable(blocks, moving[t].to, moving[t].bytes)
    /\ moving[t].from # moving[t].to
=============================================================================
