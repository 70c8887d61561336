SPECIFICATION Spec
CONSTANTS
  CPUs = {1, 2}
  Vectors = {0}
  Wired = {0}
  Routes <- const_Routes
  total_pages = 6
  UsedTypes = {"KERNEL", "APPLICATION"}
  Owners = {0}
  COUNTER_RANGE = 2
  MaxPages = 2
  Alignments = {1}
  MAX_SERVICES = 2
  MAX_PROCESSES = 2
  MAX_DOMAINS = 3
  ProcPages = 2
  RestartLimit = 1
  MaxCalls = 4
CHECK_DEADLOCK FALSE
INVARIANT TablesSound
INVARIANT DispatchSound
PROPERTY ActiveServiceKept
PROPERTY LockReleased
