------------------------------- MODULE Sha384 -------------------------------
(***************************************************************************)
(* The two SHA-384 implementations of the boot loaders, as far as they     *)
(* buffer and pad: uefi/security/sha384.c and boot/security/sha384.c.      *)
(*                                                                         *)
(* A context is the length Count (low and high word, in bits), the Buffer, *)
(* and the blocks that were given to the transform, of which the State is  *)
(* a function.  A byte is a tuple that says where it comes from: byte k of *)
(* the message, the 0x80 that ends it, a zero, byte k of a length field,   *)
(* or whatever was in the memory of a context.                             *)
(***************************************************************************)
EXTENDS Integers, Sequences

CONSTANTS
  BLOCK,    \* 128 bytes
  FIELD,    \* 16 bytes of length in the last block
  WORD,     \* values of a 64-bit word of Count
  HIGH      \* 2^29: Len >> 29 is added to the high word

ASSUME ShaConstants ==
  /\ {BLOCK, FIELD, WORD, HIGH} \subseteq Nat \ {0} /\ FIELD < BLOCK
  /\ WORD % (8 * BLOCK) = 0

Data(k) == <<"data", k>>
One == <<"one">>
Zero == <<"zero">>
Junk == <<"junk">>
Bits(low, high) == [k \in 1 .. FIELD |-> <<"bits", k, high, low>>]

Sha384Init == [low |-> 0, high |-> 0, blocks |-> <<>>,
               Buffer |-> [i \in 1 .. BLOCK |-> Junk]]
sha384_init == [Sha384Init EXCEPT !.Buffer = [i \in 1 .. BLOCK |-> Zero]]

\* The Buffer with data from position j on.
Place(Buffer, j, data) ==
  [i \in 1 .. BLOCK |-> IF i > j /\ i <= j + Len(data) THEN data[i - j] ELSE Buffer[i]]
Index(Ctx) == (Ctx.low \div 8) % BLOCK
\* At most n bytes of data.
Slice(data, first, n) ==
  SubSeq(data, first + 1, IF first + n < Len(data) THEN first + n ELSE Len(data))

\* Mutant: a Buffer that is filled up exactly is kept.
Sha384Update_Late(Ctx, data) ==
  LET j == Index(Ctx)
      i == BLOCK - j
      full == IF j + Len(data) > BLOCK THEN (j + Len(data)) \div BLOCK ELSE 0
      first == Place(Ctx.Buffer, j, Slice(data, 0, i))
      low == (Ctx.low + 8 * Len(data)) % WORD
  IN  [low |-> low,
       high |-> Ctx.high + (IF low < (8 * Len(data)) % WORD THEN 1 ELSE 0)
                + Len(data) \div HIGH,
       blocks |-> Ctx.blocks \o [b \in 1 .. full |->
                    IF b = 1 THEN first ELSE Slice(data, i + (b - 2) * BLOCK, BLOCK)],
       Buffer |-> IF full = 0 THEN Place(Ctx.Buffer, j, data)
                  ELSE Place(first, 0, Slice(data, i + (full - 1) * BLOCK, BLOCK))]

\* The bytes that fill up the Buffer, then whole blocks straight from the data,
\* then what is left at the start of the Buffer.  The loops end alike in both
\* implementations.
Sha384Update(Ctx, data) ==
  LET j == Index(Ctx)
      i == BLOCK - j
      full == (j + Len(data)) \div BLOCK
      first == Place(Ctx.Buffer, j, Slice(data, 0, i))
      low == (Ctx.low + 8 * Len(data)) % WORD
  IN  [low |-> low,
       high |-> Ctx.high + (IF low < (8 * Len(data)) % WORD THEN 1 ELSE 0)
                + Len(data) \div HIGH,
       blocks |-> Ctx.blocks \o [b \in 1 .. full |->
                    IF b = 1 THEN first ELSE Slice(data, i + (b - 2) * BLOCK, BLOCK)],
       Buffer |-> IF full = 0 THEN Place(Ctx.Buffer, j, data)
                  ELSE Place(first, 0, Slice(data, i + (full - 1) * BLOCK, BLOCK))]
sha384_update(ctx, data) == Sha384Update(ctx, data)

Zeros(n) == [i \in 1 .. n |-> Zero]

\* The padding is written into the Buffer, with a block of its own for the
\* length if that does not fit behind it.
Sha384Final(Ctx) ==
  LET index == Index(Ctx)
      ended == Place(Ctx.Buffer, index, <<One>> \o Zeros(BLOCK))
      last == Place(IF index < BLOCK - FIELD THEN ended ELSE Place(ended, 0, Zeros(BLOCK - FIELD)),
                    BLOCK - FIELD, Bits(Ctx.low, Ctx.high))
  IN  IF index < BLOCK - FIELD THEN Append(Ctx.blocks, last)
      ELSE Ctx.blocks \o <<ended, last>>

\* The padding goes through sha384_update byte by byte, and the length as saved
\* before.
sha384_final(ctx) ==
  LET index == Index(ctx)
      pad_len == IF index < BLOCK - FIELD THEN BLOCK - FIELD - index
                                          ELSE 2 * BLOCK - FIELD - index
      padded[n \in 0 .. pad_len] ==
        IF n = 0 THEN sha384_update(ctx, <<One>>)
                 ELSE sha384_update(padded[n - 1], <<Zero>>)
  IN  sha384_update(padded[pad_len], Bits(ctx.low, ctx.high)).blocks
=============================================================================
