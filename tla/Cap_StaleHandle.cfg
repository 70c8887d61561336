\* Spaces of one entry: no handle can be in a space twice.
SPECIFICATION Spec
CONSTANTS
  CPUs = {c1, c2}
  MAX_CAPABILITIES = 2
  MAX_DOMAINS = 2
  DOMAIN_CAP_SPACE_SIZE = 1
  Perms = {grant}
  CAP_PERM_GRANT = grant
  UINT32_RANGE = 16
  MaxHandle = 3
  MaxDomainId = 2
  MaxDeletes = 1
SYMMETRY CPUSymmetry
CHECK_DEADLOCK FALSE
INVARIANT StaleHandleDenied
