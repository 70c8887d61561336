---------------------------- MODULE Core1Strings ----------------------------
(***************************************************************************)
(* Core-1/lib/string.c.  A function that writes is an operator from the    *)
(* memory to the memory it leaves; one that finds or compares gives its    *)
(* result.  Every loop is a recursion with one round per iteration.        *)
(*                                                                         *)
(* snprintf works on texts: sequences of characters in which "nul" ends a   *)
(* string.  INT_MAX + 1 is half the range of int; -val of the smallest int *)
(* is taken to wrap, as it does on the machine.                            *)
(***************************************************************************)
EXTENDS CMemory

CONSTANT INT_MAX
ASSUME IntConstants == INT_MAX \in Nat

strlen(m, str) ==
  LET len[i \in Nat] == IF Get(m, str + i) = 0 THEN i ELSE len[i + 1]
  IN  IF str = NULL THEN 0 ELSE len[0]

\* while ((*d++ = *src++) != 0)
RECURSIVE CopyString(_, _, _)
CopyString(m, d, s) ==
  LET copied == Put(m, d, Get(m, s))
  IN  IF Get(m, s) = 0 THEN copied ELSE CopyString(copied, d + 1, s + 1)

\* while (n > 0 && *src): the memory, and where the loop stopped.
RECURSIVE CopyBounded(_, _, _, _)
CopyBounded(m, d, s, n) ==
  IF n > 0 /\ Get(m, s) # 0
  THEN CopyBounded(Put(m, d, Get(m, s)), d + 1, s + 1, n - 1)
  ELSE [m |-> m, d |-> d, n |-> n]

RECURSIVE Fill(_, _, _, _)
Fill(m, p, v, n) == IF n = 0 THEN m ELSE Fill(Put(m, p, v), p + 1, v, n - 1)

RECURSIVE CopyForwards(_, _, _, _)
CopyForwards(m, d, s, n) ==
  IF n = 0 THEN m ELSE CopyForwards(Put(m, d, Get(m, s)), d + 1, s + 1, n - 1)
RECURSIVE CopyBackwards(_, _, _, _)
CopyBackwards(m, d, s, n) ==
  IF n = 0 THEN m
  ELSE CopyBackwards(Put(m, d + n - 1, Get(m, s + n - 1)), d, s, n - 1)

strcpy(m, dest, src) ==
  IF NULL \in {dest, src} THEN m ELSE CopyString(m, dest, src)

strncpy(m, dest, src, n) ==
  LET c == CopyBounded(m, dest, src, n)
  IN  IF NULL \in {dest, src} THEN m ELSE Fill(c.m, c.d, 0, c.n)

strcat(m, dest, src) ==
  IF NULL \in {dest, src} THEN m ELSE CopyString(m, dest + strlen(m, dest), src)

strncat(m, dest, src, n) ==
  LET c == CopyBounded(m, dest + strlen(m, dest), src, n)
  IN  IF NULL \in {dest, src} THEN m ELSE Put(c.m, c.d, 0)

memset(m, ptr, value, n) == IF ptr = NULL THEN m ELSE Fill(m, ptr, value % BYTE, n)
memcpy(m, dest, src, n) ==
  IF NULL \in {dest, src} THEN m ELSE CopyForwards(m, dest, src, n)

\* Both kinds of overlap are copied backwards.
memmove(m, dest, src, n) ==
  IF NULL \in {dest, src} THEN m
  ELSE IF (dest < src /\ dest + n > src) \/ (src < dest /\ src + n > dest)
  THEN CopyBackwards(m, dest, src, n)
  ELSE CopyForwards(m, dest, src, n)

\* A missing string is before every other.
NullOrder(s1, s2) == IF s1 # NULL THEN 1 ELSE IF s2 # NULL THEN -1 ELSE 0

strcmp(m, s1, s2) ==
  LET diff[i \in Nat] ==
        LET a == Get(m, s1 + i)  b == Get(m, s2 + i)
        IN  IF a # 0 /\ a = b THEN diff[i + 1] ELSE a - b
  IN  IF NULL \in {s1, s2} THEN NullOrder(s1, s2) ELSE diff[0]

strncmp(m, s1, s2, n) ==
  LET diff[i \in Nat] ==
        LET a == Get(m, s1 + i)  b == Get(m, s2 + i)
        IN  IF i < n /\ a # 0 /\ a = b THEN diff[i + 1]
            ELSE IF i = n THEN 0 ELSE a - b
  IN  IF NULL \in {s1, s2} THEN NullOrder(s1, s2) ELSE diff[0]

memcmp(m, ptr1, ptr2, n) ==
  LET diff[i \in Nat] ==
        LET a == Get(m, ptr1 + i)  b == Get(m, ptr2 + i)
        IN  IF i = n THEN 0 ELSE IF a # b THEN a - b ELSE diff[i + 1]
  IN  IF NULL \in {ptr1, ptr2} THEN NullOrder(ptr1, ptr2) ELSE diff[0]

strchr(m, str, c) ==
  LET from[p \in Nat] ==
        IF Get(m, p) = 0 THEN NULL ELSE IF Get(m, p) = c % BYTE THEN p ELSE from[p + 1]
  IN  IF str = NULL THEN NULL ELSE from[str]

RECURSIVE LastFrom(_, _, _, _)
LastFrom(m, p, c, last) ==
  IF Get(m, p) = 0 THEN last
  ELSE LastFrom(m, p + 1, c, IF Get(m, p) = c % BYTE THEN p ELSE last)
strrchr(m, str, c) == IF str = NULL THEN NULL ELSE LastFrom(m, str, c, NULL)

\* Mutant: after a partial match the search goes on behind it.
strstr_Skips(m, haystack, needle) ==
  LET match[i \in Nat, h \in Nat] ==   \* length of the match at h
        IF Get(m, needle + i) # 0 /\ Get(m, h + i) = Get(m, needle + i)
        THEN match[i + 1, h] ELSE i
      from[h \in Nat] ==
        IF Get(m, h) = 0 THEN NULL
        ELSE IF Get(m, needle + match[0, h]) = 0 THEN h ELSE from[h + 1 + match[0, h]]
  IN  IF NULL \in {haystack, needle} THEN NULL
      ELSE IF Get(m, needle) = 0 THEN haystack ELSE from[haystack]

strstr(m, haystack, needle) ==
  LET match[i \in Nat, h \in Nat] ==   \* length of the match at h
        IF Get(m, needle + i) # 0 /\ Get(m, h + i) = Get(m, needle + i)
        THEN match[i + 1, h] ELSE i
      from[h \in Nat] ==
        IF Get(m, h) = 0 THEN NULL
        ELSE IF Get(m, needle + match[0, h]) = 0 THEN h ELSE from[h + 1]
  IN  IF NULL \in {haystack, needle} THEN NULL
      ELSE IF Get(m, needle) = 0 THEN haystack ELSE from[haystack]

-----------------------------------------------------------------------------
Numerals == <<"0", "1", "2", "3", "4", "5", "6", "7", "8", "9",
              "a", "b", "c", "d", "e", "f">>
Digits(value, base) ==
  LET digits[v \in Nat] == IF v = 0 THEN <<>>
                           ELSE Append(digits[v \div base], Numerals[(v % base) + 1])
  IN  digits[value]

Decimal(val) ==
  LET positive == IF val = -INT_MAX - 1 THEN val ELSE -val   \* of a negative one
  IN  CASE val = 0 -> <<"0">>
        [] val > 0 -> Digits(val, 10)
        [] OTHER -> <<"-">> \o (IF positive > 0 THEN Digits(positive, 10) ELSE <<>>)
Hexadecimal(val) == IF val = 0 THEN <<"0">> ELSE Digits(val, 16)

\* Mutant: room for the end of the string is not kept.
Emit_All(out, text, room) == out \o text

\* The characters of text that there is room for.
Emit(out, text, room) ==
  out \o SubSeq(text, 1, IF Len(text) < room - Len(out) THEN Len(text)
                                                        ELSE room - Len(out))

\* The loop over the format: what is written so far, what is left of the
\* format and of the arguments.
RECURSIVE Format(_, _, _, _)
Format(out, f, args, room) ==
  LET rest(k) == SubSeq(f, k + 1, Len(f))
      conversion(text, k) == Format(Emit(out, text, room), rest(k), Tail(args), room)
  IN  IF f[1] = "nul" \/ Len(out) >= room THEN out
      ELSE IF f[1] # "%" THEN Format(Append(out, f[1]), rest(1), args, room)
      ELSE CASE f[2] = "nul" -> out
             [] f[2] = "s" -> conversion(args[1], 2)
             [] f[2] = "d" -> conversion(Decimal(args[1]), 2)
             [] f[2] = "x" -> conversion(Hexadecimal(args[1]), 2)
             [] f[2] = "l" /\ f[3] = "x" -> conversion(Hexadecimal(args[1]), 3)
             [] f[2] = "l" /\ f[3] # "x" -> Format(out, rest(3), args, room)
             [] OTHER -> Format(Emit(out, <<"%", f[2]>>, room), rest(2), args, room)

\* The number of characters written and the text; str and format are there.
snprintf(size, format, args) ==
  IF size = 0 THEN [written |-> -1, text |-> <<>>]
  ELSE LET out == Format(<<>>, format, args, size - 1)
       IN  [written |-> Len(out), text |-> out]
=============================================================================
