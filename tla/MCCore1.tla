------------------------------ MODULE MCCore1 ------------------------------
(* A small service for TLC. *)
EXTENDS Core1

CONSTANTS main, a, b
const_Threads == {main, a, b}
const_Region(type, base, size, perms) ==
  [type |-> type, phys_base |-> base, size |-> size, permissions |-> perms]
const_Code == const_Region(0, 0, 2, {"READ", "EXECUTE"})
const_Data == const_Region(1, 2, 1, {"READ", "WRITE"})
const_Stack == const_Region(2, 3, 1, {"READ", "WRITE"})
const_Heap == const_Region(3, 4, 2, {"READ", "WRITE"})
\* A shared region next to the heap, and one that overlaps it and ends at the
\* top of the address space.
const_Shared == const_Region(4, 6, 1, {"READ"})
const_Top == const_Region(1, 5, 3, {"READ"})
const_RegionArgs == {const_Data, const_Shared, const_Top}
\* A regular layout, and one whose heap overlaps its stack.
const_ServiceInfos ==
  {<<const_Code, const_Data, const_Stack, const_Heap>>,
   <<const_Code, const_Data, const_Top, const_Heap>>}
const_Ranges == {[addr |-> 1, size |-> 2], [addr |-> 2, size |-> 1]}
=============================================================================
