------------------------------ MODULE CMemory ------------------------------
(***************************************************************************)
(* The memory the string libraries work on: M cells with the addresses     *)
(* 1 .. M.  Cell 0, at the address NULL, stands for everything outside: a  *)
(* write that misses the memory marks it, a read that misses it finds the  *)
(* end of a string.                                                        *)
(***************************************************************************)
EXTENDS Integers, Sequences

CONSTANTS
  M,        \* cells
  Bytes,    \* the values a cell may start with
  BYTE,     \* values of a character, 2^8
  SIZE      \* values of size_t, 2^64

ASSUME CMemoryConstants ==
  /\ M \in Nat /\ BYTE \in Nat /\ Bytes \subseteq 0 .. BYTE - 1
  /\ SIZE \in Nat /\ SIZE > M

NULL == 0
Addr == 1 .. M
Memories == {m \in [0 .. M -> Bytes] : m[NULL] = 0}

Get(m, p) == IF p \in Addr THEN m[p] ELSE 0
Put(m, p, v) == IF p \in Addr THEN [m EXCEPT ![p] = v] ELSE [m EXCEPT ![NULL] = 1]

\* A character as the signed char of the x86-64 ABI.
Signed(v) == IF 2 * v >= BYTE THEN v - BYTE ELSE v
\* n-- on a size_t.
Dec(n) == (n + SIZE - 1) % SIZE
=============================================================================
