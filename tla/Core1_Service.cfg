SPECIFICATION Spec
CONSTANTS
  main = main
  a = a
  b = b
  Threads <- const_Threads
  Main = main
  MaxCalls = 3
  ADDRESS_RANGE = 8
  HIGH_HALF = 6
  MAX_MEM_REGIONS = 5
  RegionArgs <- const_RegionArgs
  ServiceInfos <- const_ServiceInfos
  Ranges <- const_Ranges
  Services = {"default", "network"}
  UINT32_RANGE = 2
CHECK_DEADLOCK FALSE
INVARIANT AccessChecked
INVARIANT HeldRegionStays
INVARIANT OverrunNeedsRace
INVARIANT StopExclusive
INVARIANT ConnectedFollowsState
PROPERTY StopCompletes
