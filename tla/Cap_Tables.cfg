\* Two CPUs; tables small enough that slots are reused and spaces fill up.
SPECIFICATION Spec
CONSTANTS
  CPUs = {c1, c2}
  MAX_CAPABILITIES = 2
  MAX_DOMAINS = 2
  DOMAIN_CAP_SPACE_SIZE = 2
  Perms = {grant}
  CAP_PERM_GRANT = grant
  UINT32_RANGE = 16
  MaxHandle = 3
  MaxDomainId = 2
  MaxDeletes = 1
SYMMETRY CPUSymmetry
\* cap_derive and cap_delete_domain wait for the lock their own CPU holds.
CHECK_DEADLOCK FALSE
INVARIANT TablesSound
INVARIANT SpacePacked
INVARIANT DomainIdsSound
INVARIANT HandlesSoundUntilDelete
