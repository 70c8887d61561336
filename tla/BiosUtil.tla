------------------------------ MODULE BiosUtil ------------------------------
(***************************************************************************)
(* Bootloader/x86_64/boot/util/util.c.  The functions Core-0 has too are   *)
(* written in the same way; strchr compares characters.  strtoul reads a   *)
(* text, a sequence of characters that "nul" ends.                         *)
(***************************************************************************)
EXTENDS CMemory

CONSTANTS INT_MAX, ULONG          \* ULONG: values of uint64_t
LOCAL C0 == INSTANCE Core0Strings
LOCAL C1 == INSTANCE Core1Strings

memcpy(m, dst, src, size) == C0!memcpy(m, dst, src, size)
memset(m, ptr, value, size) == C0!memset(m, ptr, value % BYTE, size)
memcmp(m, ptr1, ptr2, size) == C0!memcmp(m, ptr1, ptr2, size)
strcpy(m, dst, src) == C0!strcpy(m, dst, src)
strcmp(m, str1, str2) == C0!strcmp(m, str1, str2)
strlen(m, str) == C0!strlen(m, str)
strchr(m, str, c) == C1!strchr(m, str, c)

Lower == <<"0", "1", "2", "3", "4", "5", "6", "7", "8", "9",
           "a", "b", "c", "d", "e", "f">>
Upper == <<"A", "B", "C", "D", "E", "F">>

\* The value of a character, at least 16 if it is no digit.
Digit(c) ==
  CASE \E i \in 1 .. 16 : Lower[i] = c -> (CHOOSE i \in 1 .. 16 : Lower[i] = c) - 1
    [] \E i \in 1 .. 6 : Upper[i] = c -> (CHOOSE i \in 1 .. 6 : Upper[i] = c) + 9
    [] OTHER -> 16

\* Base 0: the prefix decides.
Prefix(str, base) ==
  CASE base # 0 -> [base |-> base, at |-> 1]
    [] base = 0 /\ str[1] # "0" -> [base |-> 10, at |-> 1]
    [] base = 0 /\ str[1] = "0" /\ str[2] \in {"x", "X"} -> [base |-> 16, at |-> 3]
    [] OTHER -> [base |-> 8, at |-> 2]

\* The value, and the position *endptr is set to.
strtoul(str, base) ==
  LET p == Prefix(str, base)
      read[i \in Nat, value \in Nat] ==
        IF str[i] = "nul" \/ Digit(str[i]) >= p.base \/ Digit(str[i]) >= 16
        THEN [value |-> value, end |-> i]
        ELSE read[i + 1, (value * p.base + Digit(str[i])) % ULONG]
  IN  read[p.at, 0]
=============================================================================
