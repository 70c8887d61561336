\* Registry: two threads; a heap with room for about four nodes and channels.
\* Ring: four bytes, indices that wrap after eight.
SPECIFICATION PartsSpec
CONSTANTS
  HEAP_SIZE = 180
  HDR = 25
  SIZE_RANGE = 256
  Threads = {t1, t2}
  Names = {n1, n2, long}
  LongNames = {long}
  Truncated = n2
  EndpointSize = 16
  ChannelSize = 30
  MaxEndpointId = 5
  Byte = {b0, b1}
  capacity = 4
  INDEX_RANGE = 8
  MaxSize = 3
SYMMETRY ByteSymmetry
INVARIANT RingSound
INVARIANT ServiceHeapSound
INVARIANT MemoryOwned
INVARIANT RegistrySound
INVARIANT HandlerEndpointStays
PROPERTY ImplementsFifo
