---------------------------- MODULE Core0Strings ----------------------------
(***************************************************************************)
(* Core-0/lib/string.c.  Nothing is checked for NULL, characters are       *)
(* compared as signed, and a count goes on being used after the n-- of the *)
(* test that ended its loop, which has made SIZE - 1 of a zero.            *)
(***************************************************************************)
EXTENDS CMemory

RECURSIVE memcpy(_, _, _, _)
memcpy(m, dst, src, size) ==
  IF size = 0 THEN m ELSE memcpy(Put(m, dst, Get(m, src)), dst + 1, src + 1, size - 1)

RECURSIVE memset(_, _, _, _)
memset(m, ptr, value, size) ==
  IF size = 0 THEN m ELSE memset(Put(m, ptr, value), ptr + 1, value, size - 1)

memcmp(m, ptr1, ptr2, size) ==
  LET diff[i \in Nat] ==
        LET a == Get(m, ptr1 + i)  b == Get(m, ptr2 + i)
        IN  IF i = size THEN 0 ELSE IF a # b THEN a - b ELSE diff[i + 1]
  IN  diff[0]

strlen(m, str) ==
  LET len[i \in Nat] == IF Get(m, str + i) = 0 THEN i ELSE len[i + 1] IN len[0]

strcmp(m, str1, str2) ==
  LET diff[i \in Nat] ==
        LET a == Get(m, str1 + i)  b == Get(m, str2 + i)
        IN  IF 0 \notin {a, b} /\ a = b THEN diff[i + 1] ELSE Signed(a) - Signed(b)
  IN  diff[0]

RECURSIVE strncmp(_, _, _, _)
strncmp(m, str1, str2, n) ==
  LET a == Get(m, str1)  b == Get(m, str2)
  IN  IF n # 0 /\ 0 \notin {a, b} /\ a = b
      THEN strncmp(m, str1 + 1, str2 + 1, Dec(n))
      ELSE IF Dec(n) = 0 THEN 0 ELSE Signed(a) - Signed(b)

RECURSIVE strcpy(_, _, _)
strcpy(m, dst, src) ==
  IF Get(m, src) = 0 THEN Put(m, dst, 0)
  ELSE strcpy(Put(m, dst, Get(m, src)), dst + 1, src + 1)

\* The second loop starts from the count the first one has left.
RECURSIVE strncpy(_, _, _, _)
strncpy(m, dst, src, n) ==
  IF n # 0 /\ Get(m, src) # 0
  THEN strncpy(Put(m, dst, Get(m, src)), dst + 1, src + 1, Dec(n))
  ELSE memset(m, dst, 0, Dec(n))

\* *str == c compares a char with an int.
strchr(m, str, c) ==
  LET from[p \in Nat] ==
        IF Get(m, p) = 0 THEN NULL ELSE IF Signed(Get(m, p)) = c THEN p ELSE from[p + 1]
  IN  from[str]
=============================================================================
