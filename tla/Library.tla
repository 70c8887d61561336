------------------------------ MODULE Library ------------------------------
(***************************************************************************)
(* The C libraries of HIK's parts side by side.  One step calls a function *)
(* in every library that has it, with the same arguments; the next one     *)
(* returns.  Arguments are those the C standard allows: strings that end,  *)
(* destinations with room, no overlap but for memmove.                     *)
(***************************************************************************)
EXTENDS Core1Strings, Sha384, SequencesExt

CONSTANTS
  Counts,       \* values of n
  Characters,   \* values of an int that stands for a character
  Formats,      \* snprintf: [fmt, args, text] of a directive, a sequence
  Tails,        \* how a format ends, likewise
  MaxItems, MaxSize,
  Numbers,      \* strtoul: texts without their end
  ULONG, WIDTH,
  MaxPieces, MaxPiece

C0 == INSTANCE Core0Strings
C3 == INSTANCE Core3Strings
Bios == INSTANCE BiosUtil
Uefi == INSTANCE UefiUtil

VARIABLE call     \* the call that has just been made, with its results

Idle == [fn |-> "none"]
LibraryInit == call = Idle
Call(fn, before, given, answers) ==
  call' = [fn |-> fn, before |-> before, given |-> given, answers |-> answers]

\* What the arguments must satisfy.
Ends(m, p) == \E q \in p .. M : m[q] = 0
Length(m, p) == (CHOOSE q \in p .. M : m[q] = 0 /\ \A r \in p .. q - 1 : m[r] # 0) - p
Apart(p, n, q, k) ==      \* n cells at p and k cells at q
  p + n - 1 <= M /\ q + k - 1 <= M /\ (p + n <= q \/ q + k <= p)

Memcpy ==
  \E m \in Memories, d \in Addr, s \in Addr, n \in Counts :
    /\ Apart(d, n, s, n)
    /\ Call("memcpy", m, <<d, s, n>>,
            [core0 |-> C0!memcpy(m, d, s, n), core1 |-> memcpy(m, d, s, n),
             core3 |-> C3!memcpy(m, d, s, n), bios |-> Bios!memcpy(m, d, s, n),
             uefi |-> Uefi!MemCpy(m, d, s, n)])

Memmove ==
  \E m \in Memories, d \in Addr, s \in Addr, n \in Counts :
    /\ d + n - 1 <= M /\ s + n - 1 <= M
    /\ Call("memmove", m, <<d, s, n>>, [core1 |-> memmove(m, d, s, n)])

Memset ==
  \E m \in Memories, d \in Addr, v \in Bytes, n \in Counts :
    /\ d + n - 1 <= M
    /\ Call("memset", m, <<d, v, n>>,
            [core0 |-> C0!memset(m, d, v, n), core1 |-> memset(m, d, v, n),
             core3 |-> C3!memset(m, d, v, n), bios |-> Bios!memset(m, d, v, n),
             uefi |-> Uefi!MemSet(m, d, v, n)])

Strcpy ==
  \E m \in Memories, d \in Addr, s \in Addr :
    /\ Ends(m, s) /\ Apart(d, Length(m, s) + 1, s, Length(m, s) + 1)
    /\ Call("strcpy", m, <<d, s, 0>>,
            [core0 |-> C0!strcpy(m, d, s), core1 |-> strcpy(m, d, s),
             core3 |-> C3!strcpy(m, d, s), bios |-> Bios!strcpy(m, d, s),
             uefi |-> Uefi!StrCpy(m, d, s), ascii |-> Uefi!AsciiStrCpy(m, d, s)])

Strncpy ==
  \E m \in Memories, d \in Addr, s \in Addr, n \in Counts :
    /\ Ends(m, s) /\ Apart(d, n, s, Length(m, s) + 1)
    /\ Call("strncpy", m, <<d, s, n>>,
            [core0 |-> C0!strncpy(m, d, s, n), core1 |-> strncpy(m, d, s, n),
             core3 |-> C3!strncpy(m, d, s, n)])

Strcat ==
  \E m \in Memories, d \in Addr, s \in Addr :
    /\ Ends(m, d) /\ Ends(m, s)
    /\ Apart(d, Length(m, d) + Length(m, s) + 1, s, Length(m, s) + 1)
    /\ Call("strcat", m, <<d, s, 0>>,
            [core1 |-> strcat(m, d, s), core3 |-> C3!strcat(m, d, s),
             uefi |-> Uefi!StrCat(m, d, s), ascii |-> Uefi!AsciiStrCat(m, d, s)])

Strncat ==
  \E m \in Memories, d \in Addr, s \in Addr, n \in Counts :
    /\ Ends(m, d) /\ Ends(m, s)
    /\ Apart(d, Length(m, d) + n + 1, s, Length(m, s) + 1)
    /\ Call("strncat", m, <<d, s, n>>, [core1 |-> strncat(m, d, s, n)])

Memcmp ==
  \E m \in Memories, p \in Addr, q \in Addr, n \in Counts :
    /\ p + n - 1 <= M /\ q + n - 1 <= M
    /\ Call("memcmp", m, <<p, q, n>>,
            [core0 |-> C0!memcmp(m, p, q, n), core1 |-> memcmp(m, p, q, n),
             core3 |-> C3!memcmp(m, p, q, n), bios |-> Bios!memcmp(m, p, q, n),
             uefi |-> Uefi!MemCmp(m, p, q, n)])

Strcmp ==
  \E m \in Memories, p \in Addr, q \in Addr :
    /\ Ends(m, p) /\ Ends(m, q)
    /\ Call("strcmp", m, <<p, q, M>>,
            [core0 |-> C0!strcmp(m, p, q), core1 |-> strcmp(m, p, q),
             core3 |-> C3!strcmp(m, p, q), bios |-> Bios!strcmp(m, p, q),
             uefi |-> Uefi!StrCmp(m, p, q), ascii |-> Uefi!AsciiStrCmp(m, p, q)])

Strncmp ==
  \E m \in Memories, p \in Addr, q \in Addr, n \in Counts :
    /\ Ends(m, p) /\ Ends(m, q)
    /\ Call("strncmp", m, <<p, q, n>>,
            [core0 |-> C0!strncmp(m, p, q, n), core1 |-> strncmp(m, p, q, n),
             core3 |-> C3!strncmp(m, p, q, n)])

Strlen ==
  \E m \in Memories, p \in Addr :
    /\ Ends(m, p)
    /\ Call("strlen", m, <<p, 0>>,
            [core0 |-> C0!strlen(m, p), core1 |-> strlen(m, p),
             core3 |-> C3!strlen(m, p), bios |-> Bios!strlen(m, p),
             uefi |-> Uefi!StrLen(m, p), ascii |-> Uefi!AsciiStrLen(m, p)])

Strchr ==
  \E m \in Memories, p \in Addr, c \in Characters :
    /\ Ends(m, p)
    /\ \/ Call("strchr", m, <<p, c>>,
               [core0 |-> C0!strchr(m, p, c), core1 |-> strchr(m, p, c),
                core3 |-> C3!strchr(m, p, c), bios |-> Bios!strchr(m, p, c)])
       \/ Call("strrchr", m, <<p, c>>, [core1 |-> strrchr(m, p, c)])

Strstr ==
  \E m \in Memories, p \in Addr, q \in Addr :
    /\ Ends(m, p) /\ Ends(m, q)
    /\ Call("strstr", m, <<p, q>>, [core1 |-> strstr(m, p, q)])

\* What a format made of items and a tail looks like, its arguments, and the
\* text that it stands for.
Joined(items, tail) ==
  LET parts == [i \in 1 .. Len(items) |-> Formats[items[i]]] \o <<Tails[tail]>>
  IN  [fmt |-> FlattenSeq([i \in DOMAIN parts |-> parts[i].fmt]),
       args |-> FlattenSeq([i \in DOMAIN parts |-> parts[i].args]),
       text |-> FlattenSeq([i \in DOMAIN parts |-> parts[i].text])]
Snprintf ==
  \E items \in SeqOf(DOMAIN Formats, MaxItems), tail \in DOMAIN Tails,
     size \in 0 .. MaxSize :
    LET f == Joined(items, tail)
    IN  Call("snprintf", <<>>, <<items, tail, size>>,
             [core1 |-> snprintf(size, f.fmt, f.args)])

Strtoul ==
  \E text \in Numbers, base \in {0, 8, 10, 16} :
    Call("strtoul", <<>>, <<Append(text, "nul"), base>>,
         [bios |-> Bios!strtoul(Append(text, "nul"), base)])

Align ==
  \E value \in 0 .. 2 ^ WIDTH - 1, k \in 0 .. WIDTH - 1 :
    Call("align", <<>>, <<value, 2 ^ k>>,
         [up |-> Uefi!UtilAlignUp(value, 2 ^ k), down |-> Uefi!UtilAlignDown(value, 2 ^ k),
          is |-> Uefi!UtilIsAligned(value, 2 ^ k), count |-> Uefi!UtilCountBits(value),
          first |-> Uefi!UtilFindFirstSet(value), last |-> Uefi!UtilFindLastSet(value)])

\* A message of Sum(pieces) bytes, given to Update in pieces.
Message(n) == [k \in 1 .. n |-> Data(k)]
Total(pieces) == FoldSeq(LAMBDA a, b : a + b, 0, pieces)
Hash ==
  \E pieces \in SeqOf(0 .. MaxPiece, MaxPieces) :
    LET piece(i) == SubSeq(Message(Total(pieces)), Total(SubSeq(pieces, 1, i - 1)) + 1,
                           Total(SubSeq(pieces, 1, i)))
        uefi[i \in 0 .. Len(pieces)] ==
          IF i = 0 THEN Sha384Init ELSE Sha384Update(uefi[i - 1], piece(i))
        bios[i \in 0 .. Len(pieces)] ==
          IF i = 0 THEN sha384_init ELSE sha384_update(bios[i - 1], piece(i))
    IN  Call("sha384", <<>>, pieces,
             [uefi |-> Sha384Final(uefi[Len(pieces)]),
              bios |-> sha384_final(bios[Len(pieces)])])

Return == call # Idle /\ call' = Idle

Strings ==
  \/ Memcpy \/ Memmove \/ Memset \/ Strcpy \/ Strncpy \/ Strcat \/ Strncat
  \/ Memcmp \/ Strcmp \/ Strncmp \/ Strlen \/ Strchr \/ Strstr
Numerics == Snprintf \/ Strtoul \/ Align \/ Hash

LibraryNext ==
  \/ call = Idle /\ (Strings \/ Numerics)
  \/ Return

LibrarySpec == LibraryInit /\ [][LibraryNext]_call

-----------------------------------------------------------------------------
(* What the functions promise.                                             *)

Copied(m, d, s, n) ==
  [a \in 0 .. M |-> IF a \in d .. d + n - 1 THEN m[s + a - d] ELSE m[a]]
Shorter(n, k) == IF n < k THEN n ELSE k
\* The memory a call should leave.
Expected(fn, m, d, s, n) ==
  LET end == d + Length(m, d)
      k == Shorter(n, Length(m, s))
  IN  CASE fn \in {"memcpy", "memmove"} -> Copied(m, d, s, n)
        [] fn = "memset" -> [a \in 0 .. M |-> IF a \in d .. d + n - 1 THEN s ELSE m[a]]
        [] fn = "strcpy" -> Copied(m, d, s, Length(m, s) + 1)
        [] fn = "strncpy" -> [a \in 0 .. M |-> IF a \in d + k .. d + n - 1 THEN 0
                                               ELSE Copied(m, d, s, k)[a]]
        [] fn = "strcat" -> Copied(m, end, s, Length(m, s) + 1)
        [] fn = "strncat" -> [Copied(m, end, s, k) EXCEPT ![end + k] = 0]
Should == Expected(call.fn, call.before, call.given[1], call.given[2], call.given[3])

\* Every function that writes, in every library, leaves exactly the memory it
\* should: no cell behind the destination is touched, none of it is missed.
\* Core-0's strncpy and Core-1's memmove have their own statements.
CopiesExact ==
  call.fn \in {"memcpy", "memset", "strcpy", "strncpy", "strcat", "strncat"} =>
    \A lib \in DOMAIN call.answers :
      <<lib, call.fn>> = <<"core0", "strncpy">> \/ call.answers[lib] = Should

\* memmove copies right whatever the ranges, unless the destination begins
\* below a source that it overlaps: then what it copies backwards has been
\* overwritten in part, and the first byte is right only if it is the one that
\* lies where the second copy was read.
MemmoveExact ==
  call.fn = "memmove" =>
    LET d == call.given[1]  s == call.given[2]  n == call.given[3]
        after == call.answers.core1
    IN  IF d < s /\ s < d + n
        THEN \A i \in 0 .. n - 1 :
               after[d + i] = call.before[s + (s - d) * ((n - 1 - i) \div (s - d)) + i]
        ELSE after = Should

\* Core-0's strncpy keeps the last of the n cells as it was when the string is
\* shorter than n, and clears memory without end when it is not, as for a
\* service name that does not fit.
Core0Strncpy ==
  call.fn = "strncpy" =>
    LET d == call.given[1]  s == call.given[2]  n == call.given[3]
    IN  IF Length(call.before, s) < n
        THEN call.answers.core0 = [Should EXCEPT ![d + n - 1] = call.before[d + n - 1]]
        ELSE call.answers.core0[NULL] = 1

Sign(x) == IF x > 0 THEN 1 ELSE IF x < 0 THEN -1 ELSE 0
\* The first place before n at which two strings, or two blocks, are decided.
Deciding(m, p, q, n, strings) ==
  {i \in 0 .. n - 1 : /\ p + i <= M /\ q + i <= M
                      /\ \A j \in 0 .. i - 1 : m[p + j] = m[q + j] /\ (strings => m[p + j] # 0)
                      /\ m[p + i] # m[q + i] \/ (strings /\ m[p + i] = 0)}

\* Comparisons give the order of the first difference, and 0 if there is none.
\* Core-0 and the BIOS loader compare strings by signed characters.
ComparesAgree ==
  call.fn \in {"memcmp", "strcmp", "strncmp"} =>
    LET m == call.before  p == call.given[1]  q == call.given[2]
        at == Deciding(m, p, q, call.given[3], call.fn # "memcmp")
        order(value(_)) == IF at = {} THEN 0
                           ELSE LET i == CHOOSE i \in at : TRUE
                                IN  Sign(value(m[p + i]) - value(m[q + i]))
    IN  \A lib \in DOMAIN call.answers :
          \/ <<lib, call.fn>> = <<"core0", "strncmp">>
          \/ Sign(call.answers[lib]) =
               IF lib \in {"core0", "bios"} /\ call.fn = "strcmp"
               THEN order(Signed) ELSE order(LAMBDA v : v)

\* Core-0's strncmp is right when a character before the last of the n decides.
\* It takes strings that first differ in the last one for equal, and looks at
\* the character behind when the first n are equal.
StrncmpBoundary ==
  call.fn = "strncmp" =>
    LET m == call.before  p == call.given[1]  q == call.given[2]  n == call.given[3]
        decided(k) == \E i \in Deciding(m, p, q, k, TRUE) :
                        Sign(call.answers.core0) = Sign(Signed(m[p + i]) - Signed(m[q + i]))
    IN  IF Deciding(m, p, q, n - 1, TRUE) # {} THEN decided(n - 1)
        ELSE IF Deciding(m, p, q, n, TRUE) # {} THEN call.answers.core0 = 0
        ELSE Sign(call.answers.core0) = Sign(Signed(m[p + n]) - Signed(m[q + n]))

\* Lengths and searches: the first or last place with the character or the
\* string, NULL without one and for the character 0.  Core-0 never finds a
\* character above 127 that is given as a positive int.
SearchesExact ==
  LET m == call.before  p == call.given[1]  q == call.given[2]
      places == {a \in p .. p + Length(m, p) - 1 : m[a] = q % BYTE}
      matches == {a \in p .. p + Length(m, p) : \A j \in 0 .. Length(m, q) - 1 :
                    a + j < p + Length(m, p) /\ m[a + j] = m[q + j]}
      Least(S) == IF S = {} THEN NULL ELSE CHOOSE a \in S : \A b \in S : a <= b
      Greatest(S) == IF S = {} THEN NULL ELSE CHOOSE a \in S : \A b \in S : a >= b
  IN  /\ call.fn = "strlen" => \A lib \in DOMAIN call.answers :
                                 call.answers[lib] = Length(m, p)
      /\ call.fn = "strchr" => \A lib \in DOMAIN call.answers :
                                 call.answers[lib] =
                                   IF lib = "core0" /\ q # Signed(q % BYTE) THEN NULL
                                   ELSE Least(places)
      /\ call.fn = "strrchr" => call.answers.core1 = Greatest(places)
      /\ call.fn = "strstr" => call.answers.core1 = Least(matches)

\* snprintf writes the beginning of what the whole format stands for, as much
\* as there is room for besides the end of the string, and returns its length:
\* cutting an item short does not disturb what was written before it.
PrintsBeginning ==
  call.fn = "snprintf" =>
    LET size == call.given[3]
        whole == Joined(call.given[1], call.given[2]).text
        r == call.answers.core1
    IN  IF size = 0 THEN r.written = -1
        ELSE /\ r.text = SubSeq(whole, 1, Shorter(Len(whole), size - 1))
             /\ r.written = Len(r.text)

\* strtoul gives the number that the longest run of digits below the base
\* denotes, modulo the range, and the place behind it.
ReadsNumber ==
  call.fn = "strtoul" =>
    LET str == call.given[1]
        hex == str[1] = "0" /\ str[2] \in {"x", "X"}
        base == IF call.given[2] # 0 THEN call.given[2]
                ELSE IF hex THEN 16 ELSE IF str[1] = "0" THEN 8 ELSE 10
        start == IF call.given[2] = 0 /\ hex THEN 3 ELSE 1
        end == CHOOSE e \in start .. Len(str) :
                 /\ Bios!Digit(str[e]) >= base
                 /\ \A i \in start .. e - 1 : Bios!Digit(str[i]) < base
        value == FoldSeq(LAMBDA a, b : a + b, 0,
                         [i \in 1 .. end - start |->
                            Bios!Digit(str[end - i]) * base ^ (i - 1)])
    IN  call.answers.bios = [value |-> value % ULONG, end |-> end]

\* The bit arithmetic of the UEFI loader: the nearest multiples of a power of
\* two (0 when the next one is out of range), and the bits of a number.
BitsExact ==
  call.fn = "align" =>
    LET value == call.given[1]  a == call.given[2]  r == call.answers
        bits == {i \in 0 .. WIDTH - 1 : (value \div 2 ^ i) % 2 = 1}
        multiples == {k * a : k \in 0 .. 2 ^ WIDTH \div a}
    IN  /\ \E x \in multiples : /\ value <= x /\ x < value + a
                                /\ r.up = x % 2 ^ WIDTH
        /\ r.down \in multiples /\ r.down <= value /\ value < r.down + a
        /\ r.is <=> value \in multiples
        /\ r.count = Cardinality(bits)
        /\ IF bits = {} THEN r.first = WIDTH /\ r.last = WIDTH
           ELSE {r.first, r.last} \subseteq bits /\ bits \subseteq r.first .. r.last

\* A message of n bytes, its end, z zeros and a length, in blocks.
Blocks(n, z, length) ==
  LET whole == Message(n) \o <<One>> \o Zeros(z) \o length
  IN  [b \in 1 .. Len(whole) \div BLOCK |-> SubSeq(whole, (b - 1) * BLOCK + 1, b * BLOCK)]
\* The least number of zeros that makes the blocks come out even.
PaddingZeros(n) == CHOOSE z \in 0 .. BLOCK - 1 : (n + 1 + z + FIELD) % BLOCK = 0

\* The blocks the standard prescribes for the message of a call.
StandardBlocks ==
  LET n == Total(call.given)
  IN  Blocks(n, PaddingZeros(n), Bits((8 * n) % WORD, (8 * n) \div WORD))
\* A call of the hash functions in which no piece has 2^29 bytes or more.
Hashing == call.fn = "sha384" /\ \A i \in DOMAIN call.given : call.given[i] < HIGH

\* However a message is cut into pieces, the UEFI loader hashes the blocks that
\* the standard prescribes for it: nothing of an earlier block is left in a
\* later one, and the padding ends where the length begins.
HashedBlocks == Hashing => call.answers.uefi = StandardBlocks

\* The BIOS loader hashes the same blocks: it pads out to 112 mod 128
\* (boot/security/sha384.c:112) and appends the whole length.
BiosHashedBlocks == Hashing => call.answers.bios = StandardBlocks

\* The string functions of all libraries: what they write, how they compare
\* and what they find.
StringsExact ==
  /\ CopiesExact /\ MemmoveExact /\ Core0Strncpy
  /\ ComparesAgree /\ StrncmpBoundary /\ SearchesExact

\* Numbers: printed by snprintf, read by strtoul, rounded and counted by the
\* bit arithmetic of the UEFI loader.
ConversionsExact == PrintsBeginning /\ ReadsNumber /\ BitsExact
=============================================================================
