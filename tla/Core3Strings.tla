---------------------------- MODULE Core3Strings ----------------------------
(***************************************************************************)
(* Core-3/lib/string.c: the functions of Core-1 that applications have, in *)
(* a copy of their own with the same text.                                 *)
(***************************************************************************)
EXTENDS CMemory

CONSTANT INT_MAX
LOCAL C1 == INSTANCE Core1Strings

strlen(m, str) == C1!strlen(m, str)
strcpy(m, dest, src) == C1!strcpy(m, dest, src)
strncpy(m, dest, src, n) == C1!strncpy(m, dest, src, n)
strcmp(m, s1, s2) == C1!strcmp(m, s1, s2)
strncmp(m, s1, s2, n) == C1!strncmp(m, s1, s2, n)
strcat(m, dest, src) == C1!strcat(m, dest, src)
strchr(m, str, c) == C1!strchr(m, str, c)
memset(m, ptr, value, n) == C1!memset(m, ptr, value, n)
memcpy(m, dest, src, n) == C1!memcpy(m, dest, src, n)
memcmp(m, ptr1, ptr2, n) == C1!memcmp(m, ptr1, ptr2, n)
=============================================================================
