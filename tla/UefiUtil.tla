------------------------------ MODULE UefiUtil ------------------------------
(***************************************************************************)
(* Bootloader/x86_64/uefi/efi/string.c, and the arithmetic of util/util.c. *)
(* The strings exist for 16-bit and for 8-bit characters, both unsigned.   *)
(***************************************************************************)
EXTENDS CMemory, Bitwise

CONSTANTS INT_MAX, WIDTH          \* WIDTH: bits of UINT64
LOCAL C0 == INSTANCE Core0Strings
LOCAL C1 == INSTANCE Core1Strings

StrLen(m, String) == C0!strlen(m, String)
StrCmp(m, String1, String2) == C1!strcmp(m, String1, String2)
StrCpy(m, Dest, Src) == C0!strcpy(m, Dest, Src)

StrCat(m, Dest, Src) == StrCpy(m, Dest + StrLen(m, Dest), Src)
AsciiStrLen(m, String) == C0!strlen(m, String)
AsciiStrCmp(m, String1, String2) == C1!strcmp(m, String1, String2)
AsciiStrCpy(m, Dest, Src) == C0!strcpy(m, Dest, Src)
AsciiStrCat(m, Dest, Src) == AsciiStrCpy(m, Dest + AsciiStrLen(m, Dest), Src)
MemCpy(m, Dest, Src, Size) == C0!memcpy(m, Dest, Src, Size)
MemSet(m, Dest, Value, Size) == C0!memset(m, Dest, Value, Size)
MemCmp(m, Buf1, Buf2, Size) == C0!memcmp(m, Buf1, Buf2, Size)

-----------------------------------------------------------------------------
Range64 == 2 ^ WIDTH
Complement(x) == Range64 - 1 - x

UtilAlignUp(Value, Alignment) ==
  ((Value + Alignment - 1) % Range64) & Complement(Alignment - 1)
UtilAlignDown(Value, Alignment) == Value & Complement(Alignment - 1)
UtilIsAligned(Value, Alignment) == (Value & (Alignment - 1)) = 0

RECURSIVE UtilCountBits(_)
UtilCountBits(Value) ==
  IF Value = 0 THEN 0 ELSE (Value & 1) + UtilCountBits(Value \div 2)

UtilFindFirstSet(Value) ==
  LET index[v \in Nat] == IF (v & 1) = 0 THEN 1 + index[v \div 2] ELSE 0
  IN  IF Value = 0 THEN WIDTH ELSE index[Value]

UtilFindLastSet(Value) ==
  LET index[v \in Nat] == IF v # 0 THEN 1 + index[v \div 2] ELSE 0
  IN  IF Value = 0 THEN WIDTH ELSE index[Value] - 1
=============================================================================
