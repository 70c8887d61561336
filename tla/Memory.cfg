\* Frames: requests of up to two pages, aligned to one or two pages, in five
\* frames.  Threads: three slots, with frames for four stacks of two pages.
\* Heap: one thread can be inside a moving realloc while the other allocates,
\* frees and moves; 13 * 20 wraps in calloc.
SPECIFICATION PartsSpec
CONSTANTS
  HandedPages = 5
  total_pages = 9
  UsedTypes = {"KERNEL", "SERVICE"}
  Owners = {0}
  COUNTER_RANGE = 4
  MaxPages = 2
  Alignments = {1, 2}
  Callers = {c1, c2}
  MAX_THREADS = 3
  StackPages = 2
  UINT32_RANGE = 8
  MaxThreadId = 3
  MaxTerminate = 2
  HEAP_SIZE = 140
  HDR = 25
  SIZE_RANGE = 256
  Sizes = {1, 8, 20}
  Threads = {t1, t2}
  Counts = {2, 13}
  NotMoving = NotMoving
SYMMETRY CallerSymmetry
CHECK_DEADLOCK FALSE
INVARIANT BlocksIntact
INVARIANT FindsContiguous
INVARIANT ScanIsFirstFit
INVARIANT ThreadsSound
INVARIANT StacksIntact
INVARIANT HeapSound
INVARIANT AllocationsUsable
INVARIANT CopyInsideBlocks
