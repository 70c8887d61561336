\* Two domains; tables of two entries: pages 6 and 7 share a table, 7 and 8 only
\* the root.  Memory runs out half way through a mapping.
SPECIFICATION Spec
CONSTANTS
  total_pages = 9
  UsedTypes = {"KERNEL", "APPLICATION"}
  Owners = {0}
  COUNTER_RANGE = 2
  MaxPages = 2
  Alignments = {1}
  CPUs = {c1, c2}
  Domains = {d1, d2}
  N = 2
  PAGE_SIZE = 2
  MapTypes = {"DEVICE"}
  BootPages = {0}
  Starts = {6, 7}
  MaxCreates = 3
SYMMETRY Interchangeable
\* Memory and calls run out.
CHECK_DEADLOCK FALSE
INVARIANT SpacesSound
INVARIANT MappingsExact
INVARIANT VerifyExact
