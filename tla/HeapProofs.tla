----------------------------- MODULE HeapProofs -----------------------------
(***************************************************************************)
(* Theorems about the two heaps: the Core-3 heap under malloc, calloc,     *)
(* realloc and free, and the Core-1 heap under the endpoint registry and   *)
(* the channels; for every heap size, every request and any number of      *)
(* threads.                                                                *)
(***************************************************************************)
EXTENDS Vmm, IpcEndpoints, FiniteSetTheorems, SequenceTheorems, TLAPS

-----------------------------------------------------------------------------
(* The block list. *)

\* No block begins inside another one.
Apart(B) == \A a, c \in DOMAIN B : a < c => a + B[a].size <= c

\* Block a's part of Validates and of Covers.
Linked(B, a) ==
  /\ B[a].size >= HDR /\ a + B[a].size <= HEAP_SIZE
  /\ B[a].next # NULL => /\ B[a].next = a + B[a].size /\ B[a].next \in DOMAIN B
                         /\ B[B[a].next].prev = a
  /\ B[a].prev # NULL => B[a].prev \in DOMAIN B /\ B[B[a].prev].next = a
Covered(B, a) ==
  /\ (B[a].next = NULL) <=> (a + B[a].size = HEAP_SIZE)
  /\ (B[a].prev = NULL) <=> (a = 0)

\* The inductive invariant of the list.  That blocks are apart follows from
\* the links, but only by induction along the list; stated beside them it is
\* kept by each operation.
ListInv(B) ==
  /\ B \in [DOMAIN B -> Header] /\ DOMAIN B \subseteq Addr
  /\ Validates(B) /\ Covers(B) /\ Apart(B)

\* The headers of used blocks.
Used(B) == {a \in DOMAIN B : B[a].used}

LEMMA InitList == ListInv(InitBlocks) /\ Used(InitBlocks) = {}
  BY HeapConstants DEF ListInv, InitBlocks, Header, Addr, NULL, Validates, Covers, Apart, Used

\* Splitting a block.
SplitEffect(B, a, total, S) ==
  /\ a + total \notin DOMAIN B /\ DOMAIN S = DOMAIN B \cup {a + total}
  /\ \A c \in DOMAIN B : S[c].used = B[c].used
  /\ \A c \in DOMAIN B \ {a} : S[c].size = B[c].size /\ S[c].next = B[c].next
  /\ S[a].size = total
  /\ ~S[a + total].used /\ S[a + total].next = B[a].next
LEMMA SplitList ==
  ASSUME NEW B, ListInv(B), NEW a \in DOMAIN B, NEW total \in Nat, HDR <= total,
         B[a].size >= total + HDR + 8
  PROVE  ListInv(Split(B, a, total)) /\ SplitEffect(B, a, total, Split(B, a, total))
  <1> DEFINE n == a + total
             S == Split(B, a, total)
  <1>1. /\ B \in [DOMAIN B -> Header] /\ DOMAIN B \subseteq Addr /\ DOMAIN B \subseteq Int
        /\ B[a] \in Header /\ a \in Addr
        /\ \A c \in DOMAIN B : c \in Nat /\ B[c].size \in Nat \ {0}
    BY HeapConstants DEF ListInv, Addr, Header
  <1>2. /\ a + B[a].size <= HEAP_SIZE /\ n \in Addr /\ n > a /\ n \in Nat
        /\ total \in 1 .. HEAP_SIZE /\ total < B[a].size /\ B[a].size - total >= HDR
    BY <1>1, HeapConstants DEF ListInv, Validates, Header, Addr
  <1>3. n \notin DOMAIN B
    BY <1>1, <1>2, HeapConstants DEF ListInv, Apart, Header
  <1>4. /\ DOMAIN S = DOMAIN B \cup {n}
        /\ S[a] = [B[a] EXCEPT !.size = total, !.next = n]
        /\ S[n] = [size |-> B[a].size - total, used |-> FALSE, next |-> B[a].next, prev |-> a]
        /\ \A c \in DOMAIN B \ {a} :
             S[c] = IF c = B[a].next THEN [B[c] EXCEPT !.prev = n] ELSE B[c]
    BY <1>2, <1>3 DEF Split
  <1>5. \A c \in DOMAIN B \ {a} :
          /\ S[c] \in Header /\ S[c].size = B[c].size /\ S[c].used = B[c].used
          /\ S[c].next = B[c].next
          /\ S[c].prev = IF c = B[a].next THEN n ELSE B[c].prev
    BY <1>1, <1>2, <1>4 DEF Header
  <1>6. /\ S[a] \in Header /\ S[a].size = total /\ S[a].used = B[a].used
        /\ S[a].next = n /\ S[a].prev = B[a].prev
    BY <1>1, <1>2, <1>4, HeapConstants DEF Header
  <1>7. /\ S[n] \in Header /\ S[n].size = B[a].size - total /\ S[n].used = FALSE
        /\ S[n].next = B[a].next /\ S[n].prev = a
    BY <1>1, <1>2, <1>4, HeapConstants DEF Header
  <1>8. S \in [DOMAIN S -> Header] /\ DOMAIN S \subseteq Addr
    BY <1>1, <1>2, <1>4, <1>5, <1>6, <1>7 DEF Split
  <1> HIDE DEF S
  <1>9. Validates(S) /\ Covers(S)
    <2>1. /\ \A c \in DOMAIN B : /\ Linked(B, c) /\ Covered(B, c)
          /\ 0 \in DOMAIN B
      BY DEF ListInv, Validates, Covers, Linked, Covered
    <2>2. /\ n = a + total /\ n # a /\ n # NULL /\ n # 0 /\ HDR \in Nat
          /\ DOMAIN S = DOMAIN B \cup {n}
      BY <1>1, <1>2, <1>4, HeapConstants DEF NULL, Addr
    <2> HIDE DEF n
    <2>3. Linked(S, a) /\ Covered(S, a)
      <3>1. ASSUME B[a].prev # NULL
            PROVE  B[a].prev \in DOMAIN S /\ S[B[a].prev].next = a
        <4>1. B[a].prev \in DOMAIN B /\ B[B[a].prev].next = a
          BY <3>1, <2>1 DEF Linked
        <4>2. B[a].prev # a
          BY <4>1, <3>1, <1>1, <1>2, <2>1, a # NULL DEF Linked, NULL
        <4>3. QED
          BY <4>1, <4>2, <1>5, <2>2
      <3>2. Linked(S, a)
        <4>1. a + S[a].size <= HEAP_SIZE /\ S[a].size >= HDR
          BY <1>1, <1>2, <1>6, HeapConstants
        <4>2. S[a].next = a + S[a].size /\ S[a].next \in DOMAIN S /\ S[S[a].next].prev = a
          BY <1>6, <1>7, <2>2
        <4>3. QED
          BY <3>1, <4>1, <4>2, <1>6 DEF Linked
      <3>3. QED
        BY <3>2, <1>1, <1>2, <1>6, <2>1, <2>2 DEF Covered
    <2>4. Linked(S, n) /\ Covered(S, n)
      <3>1. CASE B[a].next = NULL
        <4>1. a + B[a].size = HEAP_SIZE
          BY <3>1, <2>1 DEF Covered
        <4>2. n + S[n].size = HEAP_SIZE
          BY <4>1, <1>1, <1>2, <1>7, <2>2
        <4>3. a # NULL
          BY <1>1 DEF NULL
        <4>4. QED
          BY <3>1, <4>2, <4>3, <1>1, <1>2, <1>6, <1>7, <2>2 DEF Linked, Covered
      <3>2. CASE B[a].next # NULL
        <4>1. B[a].next \in DOMAIN B \ {a} /\ B[a].next = a + B[a].size
          BY <3>2, <1>1, <2>1 DEF Linked
        <4>2. S[B[a].next].prev = n
          BY <4>1, <1>5
        <4>3. QED
          BY <3>2, <4>1, <4>2, <1>1, <1>2, <1>6, <1>7, <2>1, <2>2 DEF Linked, Covered
      <3>3. QED
        BY <3>1, <3>2
    <2>5. ASSUME NEW c \in DOMAIN B \ {a} PROVE Linked(S, c) /\ Covered(S, c)
      <3>1. S[c].size >= HDR /\ c + S[c].size <= HEAP_SIZE
        BY <1>5, <2>1 DEF Linked
      <3>2. ASSUME S[c].next # NULL
            PROVE  /\ S[c].next = c + S[c].size /\ S[c].next \in DOMAIN S
                   /\ S[S[c].next].prev = c
        BY <3>2, <1>5, <1>6, <2>1, <2>2 DEF Linked
      <3>3. ASSUME S[c].prev # NULL
            PROVE  S[c].prev \in DOMAIN S /\ S[S[c].prev].next = c
        <4>1. CASE c = B[a].next
          BY <4>1, <1>5, <1>7, <2>2
        <4>2. CASE c # B[a].next
          BY <4>2, <3>3, <1>5, <1>6, <2>1, <2>2 DEF Linked
        <4>3. QED
          BY <4>1, <4>2
      <3>4. Covered(S, c)
        <4>1. c = B[a].next => c # 0
          BY <1>1, <2>1, NULL # 0 DEF Linked, NULL
        <4>2. QED
          BY <4>1, <1>5, <2>1, <2>2 DEF Covered
      <3>5. QED
        BY <3>1, <3>2, <3>3, <3>4 DEF Linked
    <2>6. QED
      BY <1>4, <2>1, <2>3, <2>4, <2>5 DEF Validates, Covers, Linked, Covered
  <1>10. Apart(S)
    <2>1. \A c, d \in DOMAIN B : c < d => c + B[c].size <= d
      BY DEF ListInv, Apart
    <2>2. n = a + total /\ n \in Nat /\ DOMAIN S = DOMAIN B \cup {n}
      BY <1>2, <1>4
    <2> HIDE DEF n
    <2>3. \A c \in DOMAIN B : S[c].size \in Nat /\ S[c].size <= B[c].size
      BY <1>1, <1>2, <1>5, <1>6
    <2>4. ASSUME NEW c \in DOMAIN B, c < n PROVE c + S[c].size <= n
      <3>1. CASE c < a
        BY <3>1, <1>1, <1>2, <2>1, <2>2, <2>3
      <3>2. CASE c = a
        BY <3>2, <1>6, <2>2
      <3>3. CASE a < c
        BY <3>3, <2>4, <1>1, <1>2, <2>1, <2>2
      <3>4. QED
        BY <3>1, <3>2, <3>3, <1>1
    <2>5. ASSUME NEW d \in DOMAIN B, n < d PROVE n + S[n].size <= d
      BY <2>5, <1>1, <1>2, <1>7, <2>1, <2>2
    <2>6. ASSUME NEW c \in DOMAIN B, NEW d \in DOMAIN B, c < d
          PROVE  c + S[c].size <= d
      BY <2>6, <1>1, <2>1, <2>3
    <2>7. QED
      BY <2>2, <2>4, <2>5, <2>6 DEF Apart
  <1>11. QED
    BY <1>3, <1>4, <1>5, <1>6, <1>7, <1>8, <1>9, <1>10 DEF ListInv, SplitEffect, S

\* Merging a block with the free block behind it.
MergeEffect(B, a, M) ==
  LET n == B[a].next IN
  /\ n \in DOMAIN B \ {a} /\ DOMAIN M = DOMAIN B \ {n}
  /\ \A c \in DOMAIN M : M[c].used = B[c].used
  /\ \A c \in DOMAIN M \ {a} : M[c].size = B[c].size /\ M[c].next = B[c].next
  /\ M[a].next = B[n].next /\ M[a].prev = B[a].prev
LEMMA MergeList ==
  ASSUME NEW B, ListInv(B), NEW a \in DOMAIN B,
         B[a].next # NULL, ~B[B[a].next].used
  PROVE  ListInv(MergeNext(B, a)) /\ MergeEffect(B, a, MergeNext(B, a))
  <1> DEFINE n == B[a].next
             M == MergeNext(B, a)
  <1>1. /\ B \in [DOMAIN B -> Header] /\ DOMAIN B \subseteq Addr
        /\ \A c \in DOMAIN B : B[c] \in Header /\ c \in Nat /\ B[c].size \in Nat \ {0}
        /\ \A c \in DOMAIN B : Linked(B, c) /\ Covered(B, c)
        /\ 0 \in DOMAIN B /\ a \in Addr
    BY HeapConstants DEF ListInv, Addr, Header, Validates, Covers, Linked, Covered
  <1>2. n \in DOMAIN B /\ n = a + B[a].size /\ B[n].prev = a
    BY <1>1 DEF Linked
  <1>3. n # a /\ n # 0 /\ n > a /\ B[n].next # n /\ B[n].next # a
    <2>1. n # a /\ n # 0 /\ n > a
      BY <1>1, <1>2
    <2>2. B[n].next # NULL => B[n].next = n + B[n].size /\ B[n].size \in Nat \ {0}
      BY <1>1, <1>2 DEF Linked
    <2>3. a # NULL /\ n # NULL
      BY <1>1, <1>2 DEF NULL
    <2> HIDE DEF n
    <2>4. QED
      BY <1>1, <1>2, <2>1, <2>2, <2>3
  <1>4. /\ DOMAIN M = DOMAIN B \ {n}
        /\ M[a] = [B[a] EXCEPT !.size = B[a].size + B[n].size, !.next = B[n].next]
        /\ \A c \in DOMAIN B \ {a, n} :
             M[c] = IF c = B[n].next THEN [B[c] EXCEPT !.prev = a] ELSE B[c]
    BY <1>2, <1>3 DEF MergeNext
  <1>5. \A c \in DOMAIN B \ {a, n} :
          /\ M[c] \in Header /\ M[c].size = B[c].size /\ M[c].used = B[c].used
          /\ M[c].next = B[c].next
          /\ M[c].prev = IF c = B[n].next THEN a ELSE B[c].prev
    <2> HIDE DEF n, M
    <2> TAKE c \in DOMAIN B \ {a, n}
    <2>1. B[c] \in Header /\ a \in Addr
      BY <1>1
    <2>2. CASE c = B[n].next
      BY <2>1, <2>2, <1>4 DEF Header
    <2>3. CASE c # B[n].next
      BY <2>1, <2>3, <1>4
    <2>4. QED
      BY <2>2, <2>3
  <1>6. /\ M[a] \in Header /\ M[a].size = B[a].size + B[n].size /\ M[a].used = B[a].used
        /\ M[a].next = B[n].next /\ M[a].prev = B[a].prev
    <2>1. B[a].size + B[n].size \in 1 .. HEAP_SIZE
      BY <1>1, <1>2, HeapConstants DEF Linked
    <2>2. QED
      BY <1>1, <1>2, <1>4, <2>1 DEF Header
  <1>7. M \in [DOMAIN M -> Header] /\ DOMAIN M \subseteq Addr
    <2>1. M = [c \in DOMAIN M |-> M[c]]
      BY <1>2, <1>3, <1>4 DEF MergeNext
    <2> HIDE DEF M
    <2>2. QED
      BY <1>1, <1>4, <1>5, <1>6, <2>1
  <1> HIDE DEF M
  <1>8. Validates(M) /\ Covers(M)
    <2> HIDE DEF n
    <2>1. Linked(B, a) /\ Linked(B, n) /\ Covered(B, a) /\ Covered(B, n)
      BY <1>1, <1>2
    <2>2. a # NULL /\ n # NULL /\ HDR \in Nat /\ HEAP_SIZE \in Nat
      BY <1>1, <1>2, HeapConstants DEF NULL
    <2>3. Linked(M, a) /\ Covered(M, a)
      <3>1. ASSUME M[a].next # NULL
            PROVE  /\ M[a].next = a + M[a].size /\ M[a].next \in DOMAIN M
                   /\ M[M[a].next].prev = a
        <4>1. B[n].next \in DOMAIN B \ {a, n} /\ B[n].next = n + B[n].size
          BY <3>1, <1>3, <1>6, <2>1 DEF Linked
        <4>2. M[a].next = a + M[a].size
          BY <4>1, <1>1, <1>2, <1>6
        <4>3. QED
          BY <4>1, <4>2, <1>4, <1>5, <1>6
      <3>2. ASSUME M[a].prev # NULL
            PROVE  M[a].prev \in DOMAIN M /\ M[M[a].prev].next = a
        <4>1. B[a].prev \in DOMAIN B /\ B[B[a].prev].next = a
          BY <3>2, <1>6, <2>1 DEF Linked
        <4>2. B[a].prev # a /\ B[a].prev # n
          BY <4>1, <1>3, <1>2 DEF n
        <4>3. QED
          BY <4>1, <4>2, <1>4, <1>5, <1>6
      <3>3. M[a].size >= HDR /\ a + M[a].size <= HEAP_SIZE
        BY <1>1, <1>2, <1>6, <2>1, <2>2 DEF Linked
      <3>4. Covered(M, a)
        BY <1>1, <1>2, <1>6, <2>1, <2>2 DEF Covered
      <3>5. QED
        BY <3>1, <3>2, <3>3, <3>4 DEF Linked
    <2>4. ASSUME NEW c \in DOMAIN B \ {a, n} PROVE Linked(M, c) /\ Covered(M, c)
      <3>1. Linked(B, c) /\ Covered(B, c)
        BY <1>1
      <3>2. M[c].size >= HDR /\ c + M[c].size <= HEAP_SIZE
        BY <3>1, <1>5 DEF Linked
      <3>3. ASSUME M[c].next # NULL
            PROVE  /\ M[c].next = c + M[c].size /\ M[c].next \in DOMAIN M
                   /\ M[M[c].next].prev = c
        <4>1. B[c].next \in DOMAIN B /\ B[c].next = c + B[c].size /\ B[B[c].next].prev = c
          BY <3>1, <3>3, <1>5 DEF Linked
        <4>2. B[c].next # n
          BY <4>1, <1>2
        <4>3. B[c].next # B[n].next
          BY <4>1, <3>3, <1>5, <2>1 DEF Linked
        <4>4. CASE B[c].next = a
          BY <4>1, <4>2, <4>4, <1>4, <1>5, <1>6
        <4>5. CASE B[c].next # a
          <5>1. B[c].next \in DOMAIN B \ {a, n}
            BY <4>1, <4>2, <4>5
          <5>2. M[B[c].next].prev = B[B[c].next].prev
            BY <5>1, <4>3, <1>5
          <5>3. QED
            BY <5>1, <5>2, <4>1, <1>4, <1>5
        <4>6. QED
          BY <4>4, <4>5
      <3>4. ASSUME M[c].prev # NULL
            PROVE  M[c].prev \in DOMAIN M /\ M[M[c].prev].next = c
        <4>1. CASE c = B[n].next
          BY <4>1, <1>3, <1>4, <1>5, <1>6
        <4>2. CASE c # B[n].next
          <5>1. B[c].prev \in DOMAIN B /\ B[B[c].prev].next = c
            BY <4>2, <3>1, <3>4, <1>5 DEF Linked
          <5>2. B[c].prev # n /\ B[c].prev # a
            BY <5>1, <4>2 DEF n
          <5>3. QED
            BY <5>1, <5>2, <4>2, <1>4, <1>5
        <4>3. QED
          BY <4>1, <4>2
      <3>5. Covered(M, c)
        <4>1. c = B[n].next => c # 0
          BY <1>1, <1>2, <2>1, <2>2 DEF Linked, NULL
        <4>2. QED
          BY <4>1, <3>1, <1>5, <2>2 DEF Covered
      <3>6. QED
        BY <3>2, <3>3, <3>4, <3>5 DEF Linked
    <2>5. QED
      BY <1>1, <1>3, <1>4, <2>3, <2>4 DEF Validates, Covers, Linked, Covered
  <1>9. Apart(M)
    <2>1. \A c, d \in DOMAIN B : c < d => c + B[c].size <= d
      BY DEF ListInv, Apart
    <2> HIDE DEF n
    <2>2. ASSUME NEW c \in DOMAIN M, NEW d \in DOMAIN M, c < d
          PROVE  c + M[c].size <= d
      <3>1. CASE c = a
        <4>1. a + B[a].size <= d /\ d # n /\ d \in DOMAIN B
          BY <3>1, <2>2, <2>1, <1>4
        <4>2. n < d
          BY <4>1, <1>1, <1>2
        <4>3. n + B[n].size <= d
          BY <4>1, <4>2, <2>1, <1>2
        <4>4. QED
          BY <4>3, <3>1, <1>1, <1>2, <1>6
      <3>2. CASE c # a
        BY <3>2, <2>1, <2>2, <1>4, <1>5
      <3>3. QED
        BY <3>1, <3>2
    <2>3. QED
      BY <2>2 DEF Apart
  <1>10. QED
    BY <1>2, <1>3, <1>4, <1>5, <1>6, <1>7, <1>8, <1>9 DEF ListInv, MergeEffect, M

\* Marking a block used or free.
LEMMA MarkList ==
  ASSUME NEW B, ListInv(B), NEW a \in DOMAIN B, NEW u \in BOOLEAN
  PROVE  LET U == [B EXCEPT ![a].used = u] IN
         /\ ListInv(U) /\ DOMAIN U = DOMAIN B /\ U[a].used = u
         /\ \A c \in DOMAIN B : /\ U[c].size = B[c].size
                                /\ U[c].next = B[c].next /\ U[c].prev = B[c].prev
         /\ \A c \in DOMAIN B \ {a} : U[c].used = B[c].used
  <1> DEFINE U == [B EXCEPT ![a].used = u]
  <1>1. B \in [DOMAIN B -> Header]
    BY DEF ListInv
  <1>2. /\ U \in [DOMAIN B -> Header] /\ DOMAIN U = DOMAIN B
        /\ \A c \in DOMAIN B : /\ U[c].size = B[c].size
                               /\ U[c].next = B[c].next /\ U[c].prev = B[c].prev
    BY <1>1 DEF Header
  <1>3. U[a].used = u /\ \A c \in DOMAIN B \ {a} : U[c].used = B[c].used
    BY <1>1 DEF Header
  <1> HIDE DEF U
  <1>4. ListInv(U)
    <2>1. \A c \in DOMAIN U : Linked(U, c) /\ Covered(U, c)
      <3> TAKE c \in DOMAIN U
      <3>1. Linked(B, c) /\ Covered(B, c)
        BY <1>2 DEF ListInv, Validates, Covers, Linked, Covered
      <3>2. QED
        BY <1>2, <3>1 DEF Linked, Covered
    <2>2. Apart(U)
      BY <1>2 DEF ListInv, Apart
    <2>3. QED
      BY <1>2, <2>1, <2>2 DEF ListInv, Validates, Covers, Linked, Covered
  <1>5. QED
    BY <1>2, <1>3, <1>4 DEF U

\* Free blocks have used successors, but for the block that x succeeds.
Merged(B, x) ==
  \A c \in DOMAIN B : ~B[c].used /\ B[c].next # NULL /\ B[c].next # x
                        => B[B[c].next].used

\* What merging a free block does, whether or not there is something to merge.
LEMMA MergeFree ==
  ASSUME NEW B, ListInv(B), NEW a \in DOMAIN B, ~B[a].used, NEW x \in {a, NULL}
  PROVE  LET M == MergeNext(B, a) IN
         /\ ListInv(M) /\ a \in DOMAIN M /\ ~M[a].used /\ M[a].prev = B[a].prev
         /\ Used(M) = Used(B) /\ \A c \in Used(B) : M[c].size = B[c].size
         /\ (\A c \in DOMAIN B \ {a} : ~B[c].used /\ B[c].next # NULL /\ B[c].next # x
                                         => B[B[c].next].used)
              => Merged(M, x)
  <1> DEFINE n == B[a].next
             M == MergeNext(B, a)
  <1>1. CASE n = NULL
    BY <1>1 DEF MergeNext, Merged
  <1>2. CASE n # NULL /\ B[n].used
    BY <1>2 DEF MergeNext, Merged
  <1>3. CASE n # NULL /\ ~B[n].used
    <2>0. ListInv(M) /\ MergeEffect(B, a, M)
      BY <1>3, MergeList
    <2> HIDE DEF M
    <2>1. /\ ListInv(M) /\ n \in DOMAIN B \ {a} /\ DOMAIN M = DOMAIN B \ {n}
          /\ \A c \in DOMAIN M : M[c].used = B[c].used
          /\ \A c \in DOMAIN M \ {a} : M[c].size = B[c].size /\ M[c].next = B[c].next
          /\ M[a].next = B[n].next /\ M[a].prev = B[a].prev
      BY <2>0 DEF MergeEffect
    <2> HIDE DEF n
    <2>2. Used(M) = Used(B) /\ \A c \in Used(B) : c \in DOMAIN M \ {a}
      BY <1>3, <2>1 DEF Used
    <2>3. ASSUME \A c \in DOMAIN B \ {a} : ~B[c].used /\ B[c].next # NULL /\ B[c].next # x
                                             => B[B[c].next].used,
                 NEW c \in DOMAIN M, ~M[c].used, M[c].next # NULL, M[c].next # x
          PROVE  M[M[c].next].used
      <3>1. \A d \in DOMAIN M : M[d].next # NULL => M[d].next \in DOMAIN M
        BY <2>1 DEF ListInv, Validates
      <3>2. CASE c = a
        BY <3>1, <3>2, <2>1, <2>3, <1>3
      <3>3. CASE c # a
        BY <3>1, <3>3, <2>1, <2>3
      <3>4. QED
        BY <3>2, <3>3
    <2>4. QED
      BY <2>1, <2>2, <2>3 DEF Merged, M
  <1>4. QED
    BY <1>1, <1>2, <1>3

\* Freeing a block: the other used blocks stay as they are.
LEMMA ReleaseList ==
  ASSUME NEW B, ListInv(B), NEW a \in Used(B)
  PROVE  LET R == Release(B, a) IN
         /\ ListInv(R) /\ Used(R) = Used(B) \ {a}
         /\ \A c \in Used(R) : R[c].size = B[c].size
         /\ Merged(B, NULL) => Merged(R, NULL)
  <1> DEFINE F == [B EXCEPT ![a].used = FALSE]
             M == MergeNext(F, a)
             p == M[a].prev
             R == Release(B, a)
  <1>1. /\ ListInv(F) /\ DOMAIN F = DOMAIN B /\ ~F[a].used /\ a \in DOMAIN F
        /\ \A c \in DOMAIN B : F[c].size = B[c].size /\ F[c].next = B[c].next
        /\ \A c \in DOMAIN B \ {a} : F[c].used = B[c].used
    BY MarkList DEF Used
  <1>2. Release(B, a) = IF p = NULL THEN M
                        ELSE IF M[p].used THEN M
                        ELSE MergeNext(M, p)
    BY DEF Release
  <1> HIDE DEF F
  <1>3. Used(F) = Used(B) \ {a}
    BY <1>1 DEF Used
  <1>4. /\ ListInv(M) /\ a \in DOMAIN M /\ ~M[a].used
        /\ Used(M) = Used(F) /\ \A c \in Used(F) : M[c].size = F[c].size
        /\ (\A c \in DOMAIN F \ {a} : ~F[c].used /\ F[c].next # NULL /\ F[c].next # a
                                        => F[F[c].next].used)
             => Merged(M, a)
    BY <1>1, MergeFree
  <1>5. Merged(B, NULL) => Merged(M, a)
    <2> SUFFICES ASSUME Merged(B, NULL),
                        NEW c \in DOMAIN F \ {a}, ~F[c].used, F[c].next # NULL, F[c].next # a
                 PROVE  F[F[c].next].used
      BY <1>4
    <2>1. F[c].next \in DOMAIN B \ {a}
      BY <1>1 DEF ListInv, Validates
    <2>2. QED
      BY <1>1, <2>1 DEF Merged
  <1> HIDE DEF M, R
  <1>6. CASE p = NULL \/ M[p].used
    <2>1. R = M
      BY <1>2, <1>6 DEF R
    <2>2. Merged(M, a) => Merged(M, NULL)
      <3> SUFFICES ASSUME Merged(M, a), NEW c \in DOMAIN M, ~M[c].used, M[c].next = a
                   PROVE  FALSE
        BY DEF Merged
      <3>1. p = c
        BY <1>4, a # NULL DEF ListInv, Validates, NULL, Addr
      <3>2. c # NULL
        BY <1>4 DEF ListInv, NULL, Addr
      <3>3. QED
        BY <1>6, <3>1, <3>2
    <2>3. QED
      BY <1>1, <1>3, <1>4, <1>5, <2>1, <2>2 DEF R, Used
  <1>7. CASE p # NULL /\ ~M[p].used
    <2>1. R = MergeNext(M, p)
      BY <1>2, <1>7 DEF R
    <2>2. p \in DOMAIN M /\ M[p].next = a
      BY <1>4, <1>7 DEF ListInv, Validates
    <2>3. /\ ListInv(R) /\ Used(R) = Used(M) /\ \A c \in Used(M) : R[c].size = M[c].size
          /\ (\A c \in DOMAIN M \ {p} : ~M[c].used /\ M[c].next # NULL
                                          => M[M[c].next].used)
               => Merged(R, NULL)
      BY <1>4, <1>7, <2>1, <2>2, MergeFree
    <2>4. Merged(M, a) => \A c \in DOMAIN M \ {p} : ~M[c].used /\ M[c].next # NULL
                                                      => M[M[c].next].used
      <3>1. \A c \in DOMAIN M : M[c].next = a => c = p
        BY <1>4, a # NULL DEF ListInv, Validates, NULL, Addr
      <3>2. QED
        BY <3>1 DEF Merged
    <2>5. QED
      BY <1>1, <1>3, <1>4, <1>5, <2>3, <2>4 DEF R, Used
  <1>8. QED
    BY <1>6, <1>7

-----------------------------------------------------------------------------
(* Requests. *)

\* The size of the block for a request: room for it behind the header.
LEMMA TotalSizeFits ==
  ASSUME NEW size \in Nat \ {0}, Fits64(size)
  PROVE  TotalSize(size) \in Nat /\ TotalSize(size) >= size + HDR
  <1>1. \A x \in Nat : x < SIZE_RANGE => x % SIZE_RANGE = x
    BY HeapConstants
  <1> DEFINE padded == size + 7
             aligned == (padded \div 8) * 8
  <1>2. padded \in Nat /\ padded % SIZE_RANGE = padded
    BY <1>1, HeapConstants DEF Fits64
  <1>3. aligned \in Nat /\ aligned >= size /\ aligned <= padded
    OBVIOUS
  <1>4. aligned + HDR \in Nat /\ aligned + HDR < SIZE_RANGE
    BY <1>3, HeapConstants DEF Fits64
  <1>5. TotalSize(size) = (aligned + HDR) % SIZE_RANGE
    BY <1>2 DEF TotalSize
  <1> HIDE DEF aligned
  <1>6. QED
    BY <1>1, <1>3, <1>4, <1>5, HeapConstants

\* Taking a free block for a request: it becomes used and is large enough, and
\* the other used blocks stay as they are.
LEMMA TakeList ==
  ASSUME NEW B, ListInv(B), NEW total \in Nat, HDR <= total, NEW a \in Fit(B, total)
  PROVE  LET T == Take(B, a, total) IN
         /\ ListInv(T) /\ a \in DOMAIN B \ Used(B) /\ Used(T) = Used(B) \cup {a}
         /\ T[a].size >= total /\ \A c \in Used(B) : T[c].size = B[c].size
         /\ Merged(B, NULL) => Merged(T, NULL)
  <1> DEFINE S == IF B[a].size >= total + HDR + 8 THEN Split(B, a, total) ELSE B
             T == Take(B, a, total)
  <1>1. a \in DOMAIN B /\ ~B[a].used /\ B[a].size >= total
    BY DEF Fit
  <1>2. T = [S EXCEPT ![a].used = TRUE]
    BY DEF Take
  <1>3. /\ ListInv(S) /\ DOMAIN B \subseteq DOMAIN S /\ S[a].size >= total
        /\ \A c \in DOMAIN B : S[c].used = B[c].used
        /\ \A c \in DOMAIN S \ DOMAIN B : ~S[c].used
        /\ \A c \in DOMAIN B \ {a} : S[c].size = B[c].size /\ S[c].next = B[c].next
        /\ \A c \in DOMAIN S \ DOMAIN B : S[c].next = B[a].next
    <2>1. CASE B[a].size >= total + HDR + 8
      <3>1. S = Split(B, a, total)
        BY <2>1
      <3>2. ListInv(S) /\ SplitEffect(B, a, total, S)
        BY <1>1, <2>1, <3>1, SplitList
      <3> HIDE DEF S
      <3>3. QED
        BY <1>1, <3>2 DEF SplitEffect
    <2>2. CASE ~(B[a].size >= total + HDR + 8)
      BY <1>1, <2>2
    <2>3. QED
      BY <2>1, <2>2
  <1> HIDE DEF S, T
  <1>4. /\ ListInv(T) /\ DOMAIN T = DOMAIN S /\ T[a].used = TRUE
        /\ \A c \in DOMAIN S : T[c].size = S[c].size /\ T[c].next = S[c].next
        /\ \A c \in DOMAIN S \ {a} : T[c].used = S[c].used
    BY <1>1, <1>2, <1>3, MarkList
  <1>5. Used(T) = Used(B) \cup {a}
    BY <1>1, <1>3, <1>4 DEF Used
  <1>6. ASSUME Merged(B, NULL), NEW c \in DOMAIN T, ~T[c].used, T[c].next # NULL
        PROVE  T[T[c].next].used
    <2>1. \A d \in DOMAIN B : B[d].next # NULL => B[d].next \in DOMAIN B
      BY DEF ListInv, Validates
    <2>2. c # a
      BY <1>4, <1>6
    <2>3. CASE c \in DOMAIN B
      BY <1>3, <1>4, <1>6, <2>1, <2>2, <2>3 DEF Merged
    <2>4. CASE c \notin DOMAIN B
      BY <1>1, <1>3, <1>4, <1>6, <2>1, <2>2, <2>4 DEF Merged
    <2>5. QED
      BY <2>3, <2>4
  <1>7. QED
    BY <1>1, <1>3, <1>4, <1>5, <1>6 DEF Merged, T, Used

\* The bytes from one address to the next.
LEMMA BytesBetween ==
  ASSUME NEW a \in Nat, NEW k \in Nat
  PROVE  IsFiniteSet(a .. a + k - 1) /\ Cardinality(a .. a + k - 1) = k
  <1> DEFINE b == a + k - 1
  <1>1. a \in Int /\ b \in Int
    OBVIOUS
  <1> HIDE DEF b
  <1>2. IsFiniteSet(a .. b) /\ Cardinality(a .. b) = IF a > b THEN 0 ELSE b - a + 1
    BY <1>1, FS_Interval
  <1>3. QED
    BY <1>2 DEF b

\* The bytes of used blocks, when one block more is used.
LEMMA UsedBytesOneMore ==
  ASSUME NEW B, ListInv(B), NEW T, ListInv(T), NEW a \in Used(T),
         Used(B) = Used(T) \ {a}, \A c \in Used(B) : B[c].size = T[c].size
  PROVE  /\ Cardinality(UsedBytes(B)) \in Nat /\ T[a].size \in Nat
         /\ Cardinality(UsedBytes(T)) = Cardinality(UsedBytes(B)) + T[a].size
         /\ Cardinality(UsedBytes(T)) <= HEAP_SIZE
  <1> DEFINE Bytes == a .. a + T[a].size - 1
  <1>1. /\ \A c \in DOMAIN T : /\ c \in Nat /\ T[c].size \in Nat \ {0}
                               /\ c + T[c].size <= HEAP_SIZE
        /\ a \in DOMAIN T /\ HEAP_SIZE \in Nat
    BY HeapConstants DEF ListInv, Validates, Header, Addr, Used
  <1>2. Bytes \subseteq Addr
    BY <1>1 DEF Addr
  <1>3. UsedBytes(T) = UsedBytes(B) \cup Bytes
    <2>1. \A x : x \in UsedBytes(B) <=>
                 x \in Addr /\ \E c \in Used(B) : x \in c .. c + B[c].size - 1
      BY DEF UsedBytes, Used
    <2>2. \A x : x \in UsedBytes(T) <=>
                 x \in Addr /\ \E c \in Used(T) : x \in c .. c + T[c].size - 1
      BY DEF UsedBytes, Used
    <2>3. QED
      BY <1>2, <2>1, <2>2
  <1>4. UsedBytes(B) \cap Bytes = {}
    <2> SUFFICES ASSUME NEW x \in UsedBytes(B), x \in Bytes PROVE FALSE
      OBVIOUS
    <2>1. PICK c \in DOMAIN T \ {a} : x \in c .. c + T[c].size - 1
      BY DEF UsedBytes, Used
    <2>2. c < a => c + T[c].size <= a
      BY <1>1 DEF ListInv, Apart
    <2>3. a < c => a + T[a].size <= c
      BY <1>1 DEF ListInv, Apart
    <2>4. QED
      BY <1>1, <2>1, <2>2, <2>3
  <1>5. IsFiniteSet(Addr) /\ Cardinality(Addr) = HEAP_SIZE
    BY <1>1, BytesBetween, 0 + HEAP_SIZE - 1 = HEAP_SIZE - 1 DEF Addr
  <1>6. IsFiniteSet(Bytes) /\ Cardinality(Bytes) = T[a].size
    BY <1>1, BytesBetween
  <1>7. UsedBytes(B) \subseteq Addr /\ UsedBytes(T) \subseteq Addr
    BY DEF UsedBytes
  <1>8. /\ IsFiniteSet(UsedBytes(B)) /\ Cardinality(UsedBytes(B)) \in Nat
        /\ Cardinality(UsedBytes(T)) <= HEAP_SIZE
    BY <1>5, <1>7, FS_Subset, FS_CardinalityType
  <1> HIDE DEF Bytes
  <1>9. Cardinality(UsedBytes(B) \cup Bytes) =
          Cardinality(UsedBytes(B)) + Cardinality(Bytes) - Cardinality(UsedBytes(B) \cap Bytes)
    BY <1>6, <1>8, FS_Union
  <1>10. Cardinality(UsedBytes(B) \cap Bytes) = 0
    BY <1>4, FS_EmptySet
  <1>11. QED
    BY <1>1, <1>3, <1>6, <1>8, <1>9, <1>10

-----------------------------------------------------------------------------
(* The Core-3 heap. *)

\* The list and the counter beside it.
CounterInv == ListInv(blocks) /\ used = Cardinality(UsedBytes(blocks))

LEMMA AllocatedEffect ==
  ASSUME CounterInv, NEW size \in Nat \ {0}, Fits64(size),
         NEW a \in Fit(blocks, TotalSize(size)), Allocated(a, size)
  PROVE  /\ CounterInv' /\ a \in Addr \ Used(blocks)
         /\ Used(blocks') = Used(blocks) \cup {a}
         /\ size <= blocks'[a].size - HDR
         /\ \A c \in Used(blocks) : blocks'[c].size = blocks[c].size
  <1> DEFINE T == Take(blocks, a, TotalSize(size))
  <1>1. TotalSize(size) \in Nat /\ TotalSize(size) >= size + HDR
    BY TotalSizeFits
  <1>2. HDR <= TotalSize(size)
    BY <1>1, HeapConstants
  <1>3. /\ ListInv(T) /\ a \in DOMAIN blocks \ Used(blocks) /\ Used(T) = Used(blocks) \cup {a}
        /\ T[a].size >= TotalSize(size) /\ \A c \in Used(blocks) : T[c].size = blocks[c].size
    BY <1>1, <1>2, TakeList DEF CounterInv
  <1>4. blocks' = T /\ used' = (used + T[a].size) % SIZE_RANGE
    BY DEF Allocated
  <1> HIDE DEF T
  <1>5. /\ Cardinality(UsedBytes(blocks)) \in Nat /\ T[a].size \in Nat
        /\ Cardinality(UsedBytes(T)) = Cardinality(UsedBytes(blocks)) + T[a].size
        /\ Cardinality(UsedBytes(T)) <= HEAP_SIZE
    BY <1>3, UsedBytesOneMore DEF CounterInv
  <1>6. used' = Cardinality(UsedBytes(T))
    BY <1>4, <1>5, HeapConstants DEF CounterInv
  <1>7. QED
    BY <1>1, <1>3, <1>4, <1>5, <1>6, HeapConstants DEF CounterInv, ListInv

LEMMA FreedEffect ==
  ASSUME CounterInv, NEW a \in Used(blocks), Freed(a)
  PROVE  /\ CounterInv' /\ Used(blocks') = Used(blocks) \ {a}
         /\ \A c \in Used(blocks') : blocks'[c].size = blocks[c].size
  <1> DEFINE R == Release(blocks, a)
  <1>1. /\ ListInv(R) /\ Used(R) = Used(blocks) \ {a}
        /\ \A c \in Used(R) : R[c].size = blocks[c].size
    BY ReleaseList DEF CounterInv
  <1>2. blocks' = R /\ used' = (used - blocks[a].size) % SIZE_RANGE
    BY DEF Freed
  <1> HIDE DEF R
  <1>3. /\ Cardinality(UsedBytes(R)) \in Nat /\ blocks[a].size \in Nat
        /\ Cardinality(UsedBytes(blocks)) = Cardinality(UsedBytes(R)) + blocks[a].size
        /\ Cardinality(UsedBytes(blocks)) <= HEAP_SIZE
    BY <1>1, UsedBytesOneMore DEF CounterInv
  <1>4. used' = Cardinality(UsedBytes(R))
    BY <1>2, <1>3, HeapConstants DEF CounterInv
  <1>5. QED
    BY <1>1, <1>2, <1>4 DEF CounterInv

\* An allocation not freed has a used block of its own with room for it.
LiveInv ==
  /\ live \subseteq [at: Addr, size: Nat]
  /\ \A l \in live : /\ l.at \in Used(blocks)
                     /\ l.size < SIZE_RANGE => l.size <= blocks[l.at].size - HDR
  /\ \A l, m \in live : l # m => l.at # m.at

\* The blocks a moving realloc works on: used, of the sizes that were read, and
\* no other thread's.
Blocks(t) == {moving[t].from, moving[t].to}
MovingInv ==
  /\ moving \in [Threads -> [from: Addr, to: Addr, bytes: Nat] \cup {NotMoving}]
  /\ \A t \in Threads : moving[t] # NotMoving =>
       /\ Blocks(t) \subseteq Used(blocks) /\ moving[t].from # moving[t].to
       /\ moving[t].bytes <= blocks[moving[t].from].size - HDR
       /\ moving[t].bytes <= blocks[moving[t].to].size - HDR
  /\ \A t, u \in Threads : t # u /\ moving[t] # NotMoving /\ moving[u] # NotMoving
                             => Blocks(t) \cap Blocks(u) = {}

VmmInv == CounterInv /\ LiveInv /\ MovingInv

\* A step that adds a block for an allocation and keeps the used ones.
Adds(a, size) ==
  /\ CounterInv' /\ a \in Addr \ Used(blocks) /\ Used(blocks') = Used(blocks) \cup {a}
  /\ \A c \in Used(blocks) : blocks'[c].size = blocks[c].size
  /\ size \in Nat /\ size < SIZE_RANGE => size <= blocks'[a].size - HDR
  /\ live' = live \cup {[at |-> a, size |-> size]}
LEMMA AddsLive ==
  ASSUME VmmInv, NEW a, NEW size \in Nat, Adds(a, size)
  PROVE  LiveInv'
  <1> DEFINE new == [at |-> a, size |-> size]
  <1>1. live' = live \cup {new} /\ new \in [at: Addr, size: Nat] /\ new.at = a /\ new.size = size
    BY DEF Adds
  <1> HIDE DEF new
  <1>2. \A l \in live : l.at # a
    BY DEF VmmInv, LiveInv, Adds
  <1>3. QED
    BY <1>1, <1>2 DEF VmmInv, LiveInv, Adds
LEMMA AddsMoving ==
  ASSUME VmmInv, NEW a, NEW size \in Nat, Adds(a, size), UNCHANGED moving
  PROVE  MovingInv'
  BY DEF VmmInv, MovingInv, Adds, Blocks

LEMMA InitVmm == VmmInit => VmmInv
  <1> SUFFICES ASSUME VmmInit PROVE VmmInv
    OBVIOUS
  <1>1. UsedBytes(blocks) = {}
    BY InitList DEF VmmInit, UsedBytes, Used
  <1>2. CounterInv
    BY <1>1, InitList, FS_EmptySet DEF VmmInit, CounterInv
  <1>3. QED
    BY <1>2 DEF VmmInit, VmmInv, LiveInv, MovingInv

LEMMA VmmAlloc ==
  ASSUME VmmInv, NEW t \in Threads, NEW size \in Sizes, vmm_alloc(t, size)
  PROVE  VmmInv'
  <1>1. size \in Nat \ {0} /\ Fits64(size)
    BY VmmConstants
  <1>2. PICK a \in Fit(blocks, TotalSize(size)) :
          Allocated(a, size) /\ live' = live \cup {[at |-> a, size |-> size]}
    BY DEF vmm_alloc
  <1>3. Adds(a, size)
    BY <1>1, <1>2, AllocatedEffect DEF Adds, VmmInv
  <1>4. UNCHANGED moving
    BY DEF vmm_alloc
  <1>5. QED
    BY <1>1, <1>3, <1>4, AddsLive, AddsMoving DEF VmmInv, Adds

LEMMA VmmCalloc ==
  ASSUME VmmInv, NEW t \in Threads, NEW n \in Counts, NEW size \in Sizes, calloc(t, n, size)
  PROVE  VmmInv'
  <1> DEFINE product == n * size
             total == product % SIZE_RANGE
  <1>1. product \in Nat /\ SIZE_RANGE \in Nat \ {0}
    BY VmmConstants, HeapConstants
  <1>2. PICK a \in Fit(blocks, TotalSize(total)) :
          Allocated(a, total) /\ live' = live \cup {[at |-> a, size |-> product]}
    BY DEF calloc
  <1>3. total # 0 /\ Fits64(total) /\ UNCHANGED moving
    BY DEF calloc
  <1> HIDE DEF product
  <1>4. total \in Nat \ {0} /\ (product < SIZE_RANGE => product = total)
    BY <1>1, <1>3
  <1> HIDE DEF total
  <1>5. Adds(a, product)
    BY <1>1, <1>2, <1>3, <1>4, AllocatedEffect DEF Adds, VmmInv
  <1>6. QED
    BY <1>1, <1>3, <1>5, AddsLive, AddsMoving DEF VmmInv, Adds

LEMMA VmmFree ==
  ASSUME VmmInv, NEW t \in Threads, NEW l \in live, Held(l), vmm_free(t, l)
  PROVE  VmmInv'
  <1>1. l.at \in Used(blocks) /\ live' = live \ {l} /\ UNCHANGED moving /\ Freed(l.at)
    BY DEF VmmInv, LiveInv, vmm_free
  <1>2. /\ CounterInv' /\ Used(blocks') = Used(blocks) \ {l.at}
        /\ \A c \in Used(blocks') : blocks'[c].size = blocks[c].size
    BY <1>1, FreedEffect DEF VmmInv
  <1>3. LiveInv'
    BY <1>1, <1>2 DEF VmmInv, LiveInv
  <1>4. MovingInv'
    BY <1>1, <1>2 DEF VmmInv, MovingInv, Blocks, Held
  <1>5. QED
    BY <1>2, <1>3, <1>4 DEF VmmInv

LEMMA VmmReallocInPlace ==
  ASSUME VmmInv, NEW t \in Threads, NEW l \in live, NEW size \in Sizes,
         reallocInPlace(t, l, size)
  PROVE  VmmInv'
  <1> DEFINE new == [at |-> l.at, size |-> size]
  <1>1. /\ live' = (live \ {l}) \cup {new} /\ size <= blocks[l.at].size - HDR
        /\ UNCHANGED <<blocks, used, moving>>
    BY DEF reallocInPlace
  <1>2. new \in [at: Addr, size: Nat] /\ new.at = l.at /\ new.size = size
    BY VmmConstants DEF VmmInv, LiveInv
  <1> HIDE DEF new
  <1>3. LiveInv'
    BY <1>1, <1>2 DEF VmmInv, LiveInv
  <1>4. QED
    BY <1>1, <1>3 DEF VmmInv, CounterInv, MovingInv, Blocks

LEMMA VmmReallocBegin ==
  ASSUME VmmInv, NEW t \in Threads, NEW l \in live, NEW size \in Sizes, Held(l),
         reallocBegin(t, l, size)
  PROVE  VmmInv'
  <1> DEFINE bytes == blocks[l.at].size - HDR
  <1>1. size \in Nat \ {0} /\ Fits64(size) /\ moving[t] = NotMoving /\ size > bytes
    BY VmmConstants DEF reallocBegin
  <1>2. PICK a \in Fit(blocks, TotalSize(size)) :
          /\ Allocated(a, size) /\ live' = live \cup {[at |-> a, size |-> size]}
          /\ moving' = [moving EXCEPT ![t] = [from |-> l.at, to |-> a, bytes |-> bytes]]
    BY DEF reallocBegin
  <1>3. Adds(a, size) /\ size <= blocks'[a].size - HDR
    BY <1>1, <1>2, AllocatedEffect DEF Adds, VmmInv
  <1>4. l.at \in Used(blocks) /\ l.at # a /\ l.at \in Addr /\ a \in Addr
    BY <1>3 DEF VmmInv, LiveInv, Adds
  <1>5. /\ blocks[l.at].size \in Nat /\ bytes \in Nat
        /\ blocks'[a].size \in Nat /\ a \in DOMAIN blocks'
    BY <1>3, <1>4, HeapConstants
       DEF VmmInv, CounterInv, ListInv, Validates, Header, Used, Adds
  <1> HIDE DEF bytes
  <1>6. bytes = blocks[l.at].size - HDR
    BY DEF bytes
  <1>7. bytes <= blocks'[l.at].size - HDR /\ bytes <= blocks'[a].size - HDR
    BY <1>1, <1>3, <1>4, <1>5, <1>6, HeapConstants DEF Adds
  <1> DEFINE new == [from |-> l.at, to |-> a, bytes |-> bytes]
  <1>8. /\ new \in [from: Addr, to: Addr, bytes: Nat]
        /\ new.from = l.at /\ new.to = a /\ new.bytes = bytes
    BY <1>4, <1>5
  <1>9. moving' = [moving EXCEPT ![t] = new]
    BY <1>2
  <1> HIDE DEF new
  <1>10. MovingInv'
    <2>1. /\ moving' \in [Threads -> [from: Addr, to: Addr, bytes: Nat] \cup {NotMoving}]
          /\ moving'[t] = new /\ \A u \in Threads \ {t} : moving'[u] = moving[u]
      BY <1>8, <1>9 DEF VmmInv, MovingInv
    <2>2. ASSUME NEW u \in Threads \ {t}, moving[u] # NotMoving
          PROVE  /\ Blocks(u) \subseteq Used(blocks') /\ moving[u].from # moving[u].to
                 /\ moving[u].bytes <= blocks'[moving[u].from].size - HDR
                 /\ moving[u].bytes <= blocks'[moving[u].to].size - HDR
                 /\ Blocks(u) \cap {l.at, a} = {}
      BY <2>2, <1>3 DEF VmmInv, MovingInv, Blocks, Adds, Held
    <2>3. {l.at, a} \subseteq Used(blocks')
      BY <1>3, <1>4 DEF Adds
    <2>4. \A u, v \in Threads \ {t} : u # v /\ moving[u] # NotMoving /\ moving[v] # NotMoving
                                         => Blocks(u) \cap Blocks(v) = {}
      BY DEF VmmInv, MovingInv
    <2>5. QED
      BY <1>4, <1>7, <1>8, <2>1, <2>2, <2>3, <2>4 DEF MovingInv, Blocks
  <1>11. LiveInv'
    BY <1>1, <1>3, AddsLive
  <1>12. QED
    BY <1>3, <1>10, <1>11 DEF VmmInv, Adds

LEMMA VmmReallocEnd ==
  ASSUME VmmInv, NEW t \in Threads, reallocEnd(t)
  PROVE  VmmInv'
  <1> DEFINE old == moving[t].from
  <1>1. /\ moving[t] # NotMoving /\ Freed(old) /\ live' = {l \in live : l.at # old}
        /\ moving' = [moving EXCEPT ![t] = NotMoving]
    BY DEF reallocEnd
  <1>2. old \in Used(blocks)
    BY <1>1 DEF VmmInv, MovingInv, Blocks
  <1>3. /\ CounterInv' /\ Used(blocks') = Used(blocks) \ {old}
        /\ \A c \in Used(blocks') : blocks'[c].size = blocks[c].size
    BY <1>1, <1>2, FreedEffect DEF VmmInv
  <1>4. LiveInv'
    BY <1>1, <1>3 DEF VmmInv, LiveInv
  <1>5. MovingInv'
    <2>1. /\ moving' \in [Threads -> [from: Addr, to: Addr, bytes: Nat] \cup {NotMoving}]
          /\ moving'[t] = NotMoving /\ \A u \in Threads \ {t} : moving'[u] = moving[u]
      BY <1>1 DEF VmmInv, MovingInv
    <2>2. \A u \in Threads \ {t} : moving[u] # NotMoving => old \notin Blocks(u)
      BY <1>1 DEF VmmInv, MovingInv, Blocks
    <2>3. QED
      BY <1>3, <2>1, <2>2 DEF VmmInv, MovingInv, Blocks
  <1>6. QED
    BY <1>3, <1>4, <1>5 DEF VmmInv

\* The invariant holds in every state of the Core-3 heap.
THEOREM VmmInvariant == VmmSpec => []VmmInv
  <1>1. VmmInit => VmmInv
    BY InitVmm
  <1>2. VmmInv /\ [VmmNext]_vmmvars => VmmInv'
    <2> SUFFICES ASSUME VmmInv, [VmmNext]_vmmvars PROVE VmmInv'
      OBVIOUS
    <2>1. CASE UNCHANGED vmmvars
      BY <2>1 DEF vmmvars, VmmInv, CounterInv, LiveInv, MovingInv, Blocks
    <2>2. ASSUME NEW t \in Threads, NEW size \in Sizes, vmm_alloc(t, size) PROVE VmmInv'
      BY <2>2, VmmAlloc
    <2>3. ASSUME NEW t \in Threads, NEW size \in Sizes, NEW n \in Counts, calloc(t, n, size)
          PROVE  VmmInv'
      BY <2>3, VmmCalloc
    <2>4. ASSUME NEW t \in Threads, NEW l \in live, Held(l), vmm_free(t, l) PROVE VmmInv'
      BY <2>4, VmmFree
    <2>5. ASSUME NEW t \in Threads, NEW l \in live, NEW size \in Sizes,
                 reallocInPlace(t, l, size)
          PROVE  VmmInv'
      BY <2>5, VmmReallocInPlace
    <2>6. ASSUME NEW t \in Threads, NEW l \in live, NEW size \in Sizes, Held(l),
                 reallocBegin(t, l, size)
          PROVE  VmmInv'
      BY <2>6, VmmReallocBegin
    <2>7. ASSUME NEW t \in Threads, reallocEnd(t) PROVE VmmInv'
      BY <2>7, VmmReallocEnd
    <2>8. QED
      BY <2>1, <2>2, <2>3, <2>4, <2>5, <2>6, <2>7 DEF VmmNext
  <1>3. QED
    BY <1>1, <1>2, PTL DEF VmmSpec

\* vmm_validate succeeds in every state, the blocks cover the heap, and the
\* counter of vmm_alloc and vmm_free is the number of bytes in used blocks.
THEOREM VmmHeapStaysSound == VmmSpec => []HeapSound
  <1>1. VmmInv => HeapSound
    <2> SUFFICES ASSUME VmmInv PROVE HeapSound
      OBVIOUS
    <2>1. HEAP_SIZE \in Nat /\ 0 + HEAP_SIZE - 1 = HEAP_SIZE - 1
      BY HeapConstants
    <2>2. IsFiniteSet(Addr) /\ Cardinality(Addr) = HEAP_SIZE
      BY <2>1, BytesBetween DEF Addr
    <2>3. UsedBytes(blocks) \subseteq Addr
      BY DEF UsedBytes
    <2>4. used \in 0 .. HEAP_SIZE
      BY <2>1, <2>2, <2>3, FS_Subset, FS_CardinalityType DEF VmmInv, CounterInv
    <2>5. VmmTypeOK
      BY <2>4 DEF VmmTypeOK, VmmInv, CounterInv, ListInv, LiveInv, MovingInv
    <2>6. QED
      BY <2>5 DEF HeapSound, VmmInv, CounterInv, ListInv
  <1>2. QED
    BY <1>1, VmmInvariant, PTL

\* What malloc, calloc and realloc returned stays usable, and one caller's,
\* until it is freed.
THEOREM AllocationsStayUsable == VmmSpec => []AllocationsUsable
  <1>1. VmmInv => AllocationsUsable
    BY DEF VmmInv, LiveInv, AllocationsUsable, Usable, Used
  <1>2. QED
    BY <1>1, VmmInvariant, PTL

\* The copy realloc makes without the lock stays inside the two blocks it read
\* the sizes of.
THEOREM CopiesStayInside == VmmSpec => []CopyInsideBlocks
  <1>1. VmmInv => CopyInsideBlocks
    BY DEF VmmInv, MovingInv, CopyInsideBlocks, Usable, Used, Blocks
  <1>2. QED
    BY <1>1, VmmInvariant, PTL

-----------------------------------------------------------------------------
(* The Core-1 heap under the endpoint registry. *)

\* The heap: contiguous free memory is one block.
MergedInv == ListInv(blocks) /\ Merged(blocks, NULL)

LEMMA PmmAllocEffect ==
  ASSUME MergedInv, NEW size \in Nat \ {0}, Fits64(size), NEW a, pmm_alloc(size, a)
  PROVE  /\ MergedInv' /\ a \in Addr \ Used(blocks)
         /\ Used(blocks') = Used(blocks) \cup {a}
         /\ size <= blocks'[a].size - HDR
         /\ \A c \in Used(blocks) : blocks'[c].size = blocks[c].size
  <1> DEFINE T == Take(blocks, a, TotalSize(size))
  <1>1. TotalSize(size) \in Nat /\ TotalSize(size) >= size + HDR
    BY TotalSizeFits
  <1>2. HDR <= TotalSize(size)
    BY <1>1, HeapConstants
  <1>3. a \in Fit(blocks, TotalSize(size)) /\ blocks' = T
    BY DEF pmm_alloc
  <1>4. /\ ListInv(T) /\ a \in DOMAIN blocks \ Used(blocks) /\ Used(T) = Used(blocks) \cup {a}
        /\ T[a].size >= TotalSize(size) /\ \A c \in Used(blocks) : T[c].size = blocks[c].size
        /\ Merged(T, NULL)
    BY <1>1, <1>2, <1>3, TakeList DEF MergedInv
  <1> HIDE DEF T
  <1>5. T[a].size \in Nat
    BY <1>4 DEF ListInv, Header, Used
  <1>6. QED
    BY <1>1, <1>3, <1>4, <1>5, HeapConstants DEF MergedInv, ListInv

LEMMA PmmFreeEffect ==
  ASSUME MergedInv, NEW a \in Used(blocks), pmm_free(a)
  PROVE  /\ MergedInv' /\ Used(blocks') = Used(blocks) \ {a}
         /\ \A c \in Used(blocks') : blocks'[c].size = blocks[c].size
  BY ReleaseList DEF MergedInv, pmm_free

\* Every node and every channel has its own block, and there are no others.
OwnerInv ==
  /\ \A i \in DOMAIN g_endpoints : EndpointSize <= blocks[g_endpoints[i].at].size - HDR
  /\ \A ch \in channels : ChannelSize <= blocks[ch].size - HDR
  /\ \A i, j \in DOMAIN g_endpoints : g_endpoints[i].at = g_endpoints[j].at => i = j
  /\ Nodes \cap channels = {} /\ Used(blocks) = Nodes \cup channels

\* Ids are given once; names too, but for the one long names become.
RegistryInv ==
  /\ g_endpoints \in Seq(Endpoint) /\ g_next_endpoint_id \in 1 .. MaxEndpointId + 1
  /\ \A i \in DOMAIN g_endpoints : g_endpoints[i].endpoint_id < g_next_endpoint_id
  /\ RegistrySound

\* A thread in a handler, or spinning in one, holds the lock, and its endpoint
\* is registered.
HandlerInv ==
  /\ channels \subseteq Addr /\ g_ipc_lock \in {0, 1}
  /\ pc \in [Threads -> {"idle", "handler", "spin"}]
  /\ sending \in [Threads -> [endpoint_id: 0 .. MaxEndpointId, at: Addr]]
  /\ \A t \in Threads : pc[t] # "idle" => g_ipc_lock = 1
  /\ \A t, u \in Threads : pc[t] # "idle" /\ pc[u] # "idle" => t = u
  /\ HandlerEndpointStays

EndpointsInv == MergedInv /\ OwnerInv /\ RegistryInv /\ HandlerInv

\* A sequence with an element put in front of it, and without one of its own.
LEMMA InFront ==
  ASSUME NEW S, NEW e \in S, NEW s \in Seq(S)
  PROVE  LET r == <<e>> \o s IN
         /\ r \in Seq(S) /\ Len(r) = Len(s) + 1 /\ r[1] = e
         /\ \A i \in 2 .. Len(r) : i - 1 \in 1 .. Len(s) /\ r[i] = s[i - 1]
  OBVIOUS
LEMMA Without ==
  ASSUME NEW S, NEW s \in Seq(S), NEW k \in 1 .. Len(s)
  PROVE  LET r == RemoveAt(s, k) IN
         /\ r \in Seq(S) /\ Len(r) = Len(s) - 1
         /\ \A i \in 1 .. k - 1 : r[i] = s[i]
         /\ \A i \in k .. Len(r) : r[i] = s[i + 1]
  <1> DEFINE u == SubSeq(s, 1, k - 1)
             v == SubSeq(s, k + 1, Len(s))
             r == u \o v
  <1>0. k \in Nat /\ Len(s) \in Nat /\ 1 <= k /\ k <= Len(s)
    OBVIOUS
  <1>1. u \in Seq(S) /\ Len(u) = k - 1 /\ \A i \in 1 .. k - 1 : u[i] = s[i]
    OBVIOUS
  <1>2. v \in Seq(S) /\ Len(v) = Len(s) - k /\ \A i \in 1 .. Len(s) - k : v[i] = s[k + i]
    OBVIOUS
  <1>3. RemoveAt(s, k) = r
    BY DEF RemoveAt
  <1> HIDE DEF u, v
  <1>4. /\ r \in Seq(S) /\ Len(r) = Len(u) + Len(v)
        /\ \A i \in 1 .. Len(u) + Len(v) :
             r[i] = IF i <= Len(u) THEN u[i] ELSE v[i - Len(u)]
    BY <1>1, <1>2, ConcatProperties
  <1> HIDE DEF r
  <1>5. Len(r) = Len(s) - 1
    BY <1>0, <1>1, <1>2, <1>4
  <1>6. ASSUME NEW i \in 1 .. k - 1 PROVE r[i] = s[i]
    <2>1. i \in 1 .. Len(u) + Len(v) /\ i <= Len(u)
      BY <1>0, <1>1, <1>2
    <2>2. QED
      BY <1>1, <1>4, <2>1
  <1>7. ASSUME NEW i \in k .. Len(s) - 1 PROVE r[i] = s[i + 1]
    <2>1. i \in Nat /\ i \in 1 .. Len(u) + Len(v) /\ ~(i <= Len(u))
      BY <1>0, <1>1, <1>2
    <2>2. i - Len(u) \in 1 .. Len(s) - k /\ k + (i - Len(u)) = i + 1
      BY <1>0, <1>1, <2>1
    <2>3. QED
      BY <1>2, <1>4, <2>1, <2>2
  <1>8. QED
    BY <1>3, <1>4, <1>5, <1>6, <1>7

LEMMA InitEndpoints == EndpointsInit => EndpointsInv
  <1> SUFFICES ASSUME EndpointsInit PROVE EndpointsInv
    OBVIOUS
  <1>1. MergedInv
    BY InitList DEF EndpointsInit, MergedInv, Merged, InitBlocks
  <1>2. g_endpoints \in Seq(Endpoint) /\ DOMAIN g_endpoints = {} /\ Len(g_endpoints) = 0
    BY DEF EndpointsInit
  <1>3. OwnerInv
    BY <1>2, InitList DEF EndpointsInit, OwnerInv, Nodes
  <1>4. RegistryInv
    BY <1>2, EndpointConstants DEF EndpointsInit, RegistryInv, RegistrySound
  <1>5. 0 \in Addr /\ NotSending \in [endpoint_id: 0 .. MaxEndpointId, at: Addr]
    BY HeapConstants, EndpointConstants DEF Addr, NotSending
  <1>6. HandlerInv
    BY <1>5 DEF EndpointsInit, HandlerInv, HandlerEndpointStays
  <1>7. QED
    BY <1>1, <1>3, <1>4, <1>6 DEF EndpointsInv

LEMMA Register ==
  ASSUME EndpointsInv, NEW t \in Threads, NEW name \in Names, ipc_register_endpoint(t, name)
  PROVE  EndpointsInv'
  <1> USE DEF EndpointsInv
  <1> DEFINE e(a) == [endpoint_id |-> g_next_endpoint_id, name |-> Stored(name), at |-> a]
  <1>1. PICK a \in Addr : /\ pmm_alloc(EndpointSize, a)
                         /\ g_endpoints' = <<e(a)>> \o g_endpoints
    BY DEF ipc_register_endpoint
  <1>2. /\ Named(name) = {} /\ g_next_endpoint_id <= MaxEndpointId
        /\ g_num_endpoints' = g_num_endpoints + 1
        /\ g_next_endpoint_id' = g_next_endpoint_id + 1
        /\ UNCHANGED <<channels, g_ipc_lock, pc, sending>>
    BY DEF ipc_register_endpoint
  <1>3. /\ MergedInv' /\ a \in Addr \ Used(blocks)
        /\ Used(blocks') = Used(blocks) \cup {a}
        /\ EndpointSize <= blocks'[a].size - HDR
        /\ \A c \in Used(blocks) : blocks'[c].size = blocks[c].size
    BY <1>1, PmmAllocEffect, EndpointConstants
  <1>4. /\ g_endpoints \in Seq(Endpoint) /\ g_next_endpoint_id \in 1 .. MaxEndpointId + 1
        /\ MaxEndpointId \in Nat
    BY EndpointConstants DEF RegistryInv
  <1>5. e(a) \in Endpoint
    BY <1>2, <1>4 DEF Endpoint
  <1>6. /\ g_endpoints' \in Seq(Endpoint) /\ Len(g_endpoints') = Len(g_endpoints) + 1
        /\ g_endpoints'[1] = e(a)
        /\ \A i \in 2 .. Len(g_endpoints') :
             i - 1 \in 1 .. Len(g_endpoints) /\ g_endpoints'[i] = g_endpoints[i - 1]
    BY <1>1, <1>4, <1>5, InFront
  <1>7. /\ DOMAIN g_endpoints = 1 .. Len(g_endpoints) /\ Len(g_endpoints) \in Nat
        /\ DOMAIN g_endpoints' = 1 .. Len(g_endpoints) + 1
    BY <1>4, <1>6
  <1>8. \A i \in DOMAIN g_endpoints' :
          \/ i = 1 /\ g_endpoints'[i] = e(a)
          \/ /\ i # 1 /\ i \in Nat /\ i - 1 \in DOMAIN g_endpoints
             /\ g_endpoints'[i] = g_endpoints[i - 1]
    BY <1>6, <1>7
  <1>9. /\ 1 \in DOMAIN g_endpoints'
        /\ \A i \in DOMAIN g_endpoints :
             i + 1 \in DOMAIN g_endpoints' /\ g_endpoints'[i + 1] = g_endpoints[i]
    <2>1. \A i \in DOMAIN g_endpoints : i + 1 \in 2 .. Len(g_endpoints') /\ (i + 1) - 1 = i
      BY <1>6, <1>7
    <2>2. QED
      BY <1>6, <1>7, <2>1
  <1>10. Nodes' = Nodes \cup {a}
    <2>1. e(a).at = a
      OBVIOUS
    <2>2. QED
      BY <1>6, <1>8, <1>9, <2>1 DEF Nodes
  <1>11. \A i \in DOMAIN g_endpoints : g_endpoints[i].at \in Used(blocks)
    BY DEF OwnerInv, Nodes
  <1>12. OwnerInv'
    <2>1. \A i \in DOMAIN g_endpoints' : EndpointSize <= blocks'[g_endpoints'[i].at].size - HDR
      BY <1>3, <1>8, <1>11 DEF OwnerInv
    <2>2. \A ch \in channels : ChannelSize <= blocks'[ch].size - HDR
      BY <1>3 DEF OwnerInv
    <2>3. \A i, j \in DOMAIN g_endpoints' : g_endpoints'[i].at = g_endpoints'[j].at => i = j
      <3> SUFFICES ASSUME NEW i \in DOMAIN g_endpoints', NEW j \in DOMAIN g_endpoints',
                          g_endpoints'[i].at = g_endpoints'[j].at
                   PROVE  i = j
        OBVIOUS
      <3>1. CASE i = 1 \/ j = 1
        BY <3>1, <1>3, <1>8, <1>11
      <3>2. CASE i # 1 /\ j # 1
        <4>1. i - 1 = j - 1
          BY <3>2, <1>8 DEF OwnerInv
        <4>2. QED
          BY <3>2, <4>1, <1>8
      <3>3. QED
        BY <3>1, <3>2
    <2>4. Nodes' \cap channels = {} /\ Used(blocks') = Nodes' \cup channels
      BY <1>3, <1>10 DEF OwnerInv
    <2>5. QED
      BY <1>2, <2>1, <2>2, <2>3, <2>4 DEF OwnerInv
  <1>13. RegistryInv'
    <2>1. g_next_endpoint_id' \in 1 .. MaxEndpointId + 1
      BY <1>2, <1>4
    <2>2. \A i \in DOMAIN g_endpoints :
            /\ g_endpoints[i].endpoint_id \in Nat
            /\ g_endpoints[i].endpoint_id < g_next_endpoint_id
      <3>1. \A i \in DOMAIN g_endpoints : g_endpoints[i] \in Endpoint
        BY <1>4
      <3>2. QED
        BY <3>1 DEF RegistryInv, Endpoint
    <2>3. \A i \in DOMAIN g_endpoints' : g_endpoints'[i].endpoint_id < g_next_endpoint_id'
      BY <1>2, <1>4, <1>8, <2>2
    <2>4. \A i \in DOMAIN g_endpoints :
            g_endpoints[i].name = Stored(name) => Stored(name) = Truncated
      BY <1>2 DEF Named, Stored
    <2>5. ASSUME NEW i \in DOMAIN g_endpoints', NEW j \in DOMAIN g_endpoints',
                 \/ /\ g_endpoints'[i].name = g_endpoints'[j].name
                    /\ g_endpoints'[i].name # Truncated
                 \/ g_endpoints'[i].endpoint_id = g_endpoints'[j].endpoint_id
          PROVE  i = j
      <3>1. CASE i = 1 \/ j = 1
        BY <3>1, <2>5, <2>2, <2>4, <1>4, <1>8
      <3>2. CASE i # 1 /\ j # 1
        <4>1. i - 1 = j - 1
          BY <3>2, <2>5, <1>8 DEF RegistryInv, RegistrySound
        <4>2. QED
          BY <3>2, <4>1, <1>8
      <3>3. QED
        BY <3>1, <3>2
    <2>6. g_num_endpoints' = Len(g_endpoints')
      BY <1>2, <1>6 DEF RegistryInv, RegistrySound
    <2>7. QED
      BY <1>6, <2>1, <2>3, <2>5, <2>6 DEF RegistryInv, RegistrySound
  <1>14. HandlerInv'
    <2>1. HandlerEndpointStays'
      BY <1>2, <1>9 DEF HandlerInv, HandlerEndpointStays
    <2>2. QED
      BY <1>2, <2>1 DEF HandlerInv
  <1>15. QED
    BY <1>3, <1>12, <1>13, <1>14

LEMMA Unregister ==
  ASSUME EndpointsInv, NEW t \in Threads, NEW name \in Names, ipc_unregister_endpoint(t, name)
  PROVE  EndpointsInv'
  <1> USE DEF EndpointsInv
  <1>1. PICK k \in First(Named(name)) : /\ g_endpoints' = RemoveAt(g_endpoints, k)
                                       /\ pmm_free(g_endpoints[k].at)
    BY DEF ipc_unregister_endpoint
  <1>2. /\ g_ipc_lock = 0 /\ g_num_endpoints' = g_num_endpoints - 1
        /\ UNCHANGED <<g_next_endpoint_id, channels, g_ipc_lock, pc, sending>>
    BY DEF ipc_unregister_endpoint, Enter
  <1>3. g_endpoints \in Seq(Endpoint) /\ k \in DOMAIN g_endpoints
    BY DEF RegistryInv, First, Named
  <1>4. /\ DOMAIN g_endpoints = 1 .. Len(g_endpoints) /\ Len(g_endpoints) \in Nat
        /\ k \in 1 .. Len(g_endpoints)
    BY <1>3
  <1>5. /\ g_endpoints' \in Seq(Endpoint) /\ Len(g_endpoints') = Len(g_endpoints) - 1
        /\ \A i \in 1 .. k - 1 : g_endpoints'[i] = g_endpoints[i]
        /\ \A i \in k .. Len(g_endpoints') : g_endpoints'[i] = g_endpoints[i + 1]
    BY <1>1, <1>3, <1>4, Without
  <1>6. DOMAIN g_endpoints' = 1 .. Len(g_endpoints) - 1
    BY <1>4, <1>5
  <1> DEFINE old(i) == IF i < k THEN i ELSE i + 1
             a == g_endpoints[k].at
  <1>7. /\ \A i \in DOMAIN g_endpoints' : /\ old(i) \in DOMAIN g_endpoints \ {k}
                                         /\ g_endpoints'[i] = g_endpoints[old(i)]
        /\ \A i, j \in DOMAIN g_endpoints' : old(i) = old(j) => i = j
    BY <1>4, <1>5, <1>6
  <1>8. \A j \in DOMAIN g_endpoints \ {k} : \E i \in DOMAIN g_endpoints' : old(i) = j
    <2> TAKE j \in DOMAIN g_endpoints \ {k}
    <2>1. CASE j < k
      BY <2>1, <1>4, <1>6
    <2>2. CASE j > k
      <3>1. j - 1 \in DOMAIN g_endpoints' /\ old(j - 1) = j
        BY <2>2, <1>4, <1>6
      <3>2. QED
        BY <3>1
    <2>3. QED
      BY <2>1, <2>2, <1>4
  <1> HIDE DEF old
  <1>9. a \in Nodes /\ a \in Used(blocks) /\ a \notin channels
    BY <1>3 DEF OwnerInv, Nodes
  <1>10. /\ MergedInv' /\ Used(blocks') = Used(blocks) \ {a}
         /\ \A c \in Used(blocks') : blocks'[c].size = blocks[c].size
    BY <1>1, <1>9, PmmFreeEffect
  <1>11. Nodes' = Nodes \ {a}
    BY <1>3, <1>7, <1>8 DEF Nodes, OwnerInv
  <1>12. OwnerInv'
    <2>1. Used(blocks') = Nodes' \cup channels /\ Nodes' \cap channels = {}
      BY <1>9, <1>10, <1>11 DEF OwnerInv
    <2>2. \A i \in DOMAIN g_endpoints' : g_endpoints'[i].at \in Used(blocks')
      BY <2>1 DEF Nodes
    <2>3. QED
      BY <1>2, <1>7, <1>10, <2>1, <2>2 DEF OwnerInv
  <1>13. RegistryInv'
    BY <1>2, <1>4, <1>5, <1>7 DEF RegistryInv, RegistrySound
  <1>14. HandlerInv'
    BY <1>2 DEF HandlerInv, HandlerEndpointStays
  <1>15. QED
    BY <1>10, <1>12, <1>13, <1>14

LEMMA Send ==
  ASSUME EndpointsInv, NEW t \in Threads, NEW id \in 1 .. MaxEndpointId, ipc_send(t, id)
  PROVE  EndpointsInv'
  <1> USE DEF EndpointsInv
  <1>1. PICK k \in First(WithId(id)) :
          sending' = [sending EXCEPT ![t] = [endpoint_id |-> id, at |-> g_endpoints[k].at]]
    BY DEF ipc_send
  <1>2. /\ g_ipc_lock = 0 /\ g_ipc_lock' = 1 /\ pc' = [pc EXCEPT ![t] = "handler"]
        /\ blocks' = blocks /\ UNCHANGED registry /\ channels' = channels
    BY DEF ipc_send, Enter
  <1>3. /\ k \in DOMAIN g_endpoints /\ g_endpoints[k].endpoint_id = id
        /\ g_endpoints[k].at \in Addr
    <2>1. k \in DOMAIN g_endpoints /\ g_endpoints[k].endpoint_id = id
      BY DEF First, WithId
    <2>2. g_endpoints[k] \in Endpoint
      BY <2>1 DEF RegistryInv
    <2>3. QED
      BY <2>1, <2>2 DEF Endpoint
  <1>4. MergedInv' /\ OwnerInv' /\ RegistryInv'
    BY <1>2 DEF MergedInv, OwnerInv, Nodes, RegistryInv, RegistrySound, registry
  <1>5. \A u \in Threads : pc[u] = "idle"
    BY <1>2 DEF HandlerInv
  <1>6. /\ pc' \in [Threads -> {"idle", "handler", "spin"}]
        /\ pc'[t] = "handler" /\ \A u \in Threads \ {t} : pc'[u] = "idle"
    BY <1>2, <1>5 DEF HandlerInv
  <1>7. /\ sending' \in [Threads -> [endpoint_id: 0 .. MaxEndpointId, at: Addr]]
        /\ sending'[t] = [endpoint_id |-> id, at |-> g_endpoints[k].at]
    BY <1>1, <1>3, EndpointConstants DEF HandlerInv
  <1>8. HandlerEndpointStays'
    BY <1>2, <1>3, <1>6, <1>7 DEF HandlerEndpointStays, registry
  <1>9. QED
    BY <1>2, <1>4, <1>6, <1>7, <1>8 DEF HandlerInv

LEMMA HandlerSteps ==
  ASSUME EndpointsInv, NEW t \in Threads, HandlerReturns(t) \/ HandlerCalls(t)
  PROVE  EndpointsInv'
  <1> USE DEF EndpointsInv
  <1>1. blocks' = blocks /\ UNCHANGED registry /\ channels' = channels /\ pc[t] = "handler"
    BY DEF HandlerReturns, HandlerCalls
  <1>2. MergedInv' /\ OwnerInv' /\ RegistryInv'
    BY <1>1 DEF MergedInv, OwnerInv, Nodes, RegistryInv, RegistrySound, registry
  <1>3. g_ipc_lock = 1 /\ \A u \in Threads \ {t} : pc[u] = "idle"
    BY <1>1 DEF HandlerInv
  <1>4. CASE HandlerReturns(t)
    <2>1. /\ g_ipc_lock' = 0 /\ pc' = [pc EXCEPT ![t] = "idle"]
          /\ sending' = [sending EXCEPT ![t] = NotSending]
      BY <1>4 DEF HandlerReturns
    <2>2. NotSending \in [endpoint_id: 0 .. MaxEndpointId, at: Addr]
      BY HeapConstants, EndpointConstants DEF Addr, NotSending
    <2>3. \A u \in Threads : pc'[u] = "idle"
      BY <1>3, <2>1 DEF HandlerInv
    <2>4. HandlerInv'
      BY <1>1, <2>1, <2>2, <2>3 DEF HandlerInv, HandlerEndpointStays
    <2>5. QED
      BY <1>2, <2>4
  <1>5. CASE HandlerCalls(t)
    <2>1. /\ g_ipc_lock' = g_ipc_lock /\ pc' = [pc EXCEPT ![t] = "spin"]
          /\ sending' = sending
      BY <1>5 DEF HandlerCalls
    <2>2. \A u \in Threads : pc'[u] # "idle" => u = t
      BY <1>3, <2>1 DEF HandlerInv
    <2>3. HandlerInv'
      BY <1>1, <1>3, <2>1, <2>2 DEF HandlerInv, HandlerEndpointStays, registry
    <2>4. QED
      BY <1>2, <2>3
  <1>6. QED
    BY <1>4, <1>5

LEMMA CreateChannel ==
  ASSUME EndpointsInv, NEW t \in Threads, ipc_create_channel(t)
  PROVE  EndpointsInv'
  <1> USE DEF EndpointsInv
  <1>1. PICK a \in Addr : pmm_alloc(ChannelSize, a) /\ channels' = channels \cup {a}
    BY DEF ipc_create_channel
  <1>2. UNCHANGED <<registry, g_ipc_lock, pc, sending>>
    BY DEF ipc_create_channel
  <1>3. /\ MergedInv' /\ a \in Addr \ Used(blocks)
        /\ Used(blocks') = Used(blocks) \cup {a}
        /\ ChannelSize <= blocks'[a].size - HDR
        /\ \A c \in Used(blocks) : blocks'[c].size = blocks[c].size
    BY <1>1, PmmAllocEffect, EndpointConstants
  <1>4. \A i \in DOMAIN g_endpoints : g_endpoints[i].at \in Used(blocks)
    BY DEF OwnerInv, Nodes
  <1>5. g_endpoints' = g_endpoints /\ Nodes' = Nodes
    BY <1>2 DEF registry, Nodes
  <1>6. OwnerInv'
    BY <1>1, <1>3, <1>4, <1>5 DEF OwnerInv
  <1>7. RegistryInv' /\ HandlerInv'
    BY <1>1, <1>2 DEF RegistryInv, RegistrySound, HandlerInv, HandlerEndpointStays, registry
  <1>8. QED
    BY <1>3, <1>6, <1>7

LEMMA DestroyChannel ==
  ASSUME EndpointsInv, NEW t \in Threads, NEW ch \in channels, ipc_destroy_channel(t, ch)
  PROVE  EndpointsInv'
  <1> USE DEF EndpointsInv
  <1>1. /\ pmm_free(ch) /\ channels' = channels \ {ch}
        /\ UNCHANGED <<registry, g_ipc_lock, pc, sending>>
    BY DEF ipc_destroy_channel
  <1>2. ch \in Used(blocks) /\ ch \notin Nodes
    BY DEF OwnerInv
  <1>3. /\ MergedInv' /\ Used(blocks') = Used(blocks) \ {ch}
        /\ \A c \in Used(blocks') : blocks'[c].size = blocks[c].size
    BY <1>1, <1>2, PmmFreeEffect
  <1>4. g_endpoints' = g_endpoints /\ Nodes' = Nodes
    BY <1>1 DEF registry, Nodes
  <1>5. Used(blocks') = Nodes \cup channels'
    BY <1>1, <1>2, <1>3 DEF OwnerInv
  <1>6. \A i \in DOMAIN g_endpoints : g_endpoints[i].at \in Used(blocks')
    BY <1>5 DEF Nodes
  <1>7. OwnerInv'
    BY <1>1, <1>3, <1>4, <1>5, <1>6 DEF OwnerInv
  <1>8. RegistryInv' /\ HandlerInv'
    BY <1>1 DEF RegistryInv, RegistrySound, HandlerInv, HandlerEndpointStays, registry
  <1>9. QED
    BY <1>3, <1>7, <1>8

\* The invariant holds in every state of the service's registry and heap.
THEOREM EndpointsInvariant == EndpointsSpec => []EndpointsInv
  <1>1. EndpointsInit => EndpointsInv
    BY InitEndpoints
  <1>2. EndpointsInv /\ [EndpointsNext]_evars => EndpointsInv'
    <2> SUFFICES ASSUME EndpointsInv, [EndpointsNext]_evars PROVE EndpointsInv'
      OBVIOUS
    <2>1. CASE UNCHANGED evars
      BY <2>1 DEF evars, EndpointsInv, MergedInv, OwnerInv, Nodes, RegistryInv, RegistrySound,
           HandlerInv, HandlerEndpointStays
    <2>2. ASSUME NEW t \in Threads, NEW name \in Names,
                 ipc_register_endpoint(t, name) \/ ipc_unregister_endpoint(t, name)
          PROVE  EndpointsInv'
      BY <2>2, Register, Unregister
    <2>3. ASSUME NEW t \in Threads, NEW id \in 1 .. MaxEndpointId, ipc_send(t, id)
          PROVE  EndpointsInv'
      BY <2>3, Send
    <2>4. ASSUME NEW t \in Threads, HandlerReturns(t) \/ HandlerCalls(t)
          PROVE  EndpointsInv'
      BY <2>4, HandlerSteps
    <2>5. ASSUME NEW t \in Threads, ipc_create_channel(t) PROVE EndpointsInv'
      BY <2>5, CreateChannel
    <2>6. ASSUME NEW t \in Threads, NEW ch \in channels, ipc_destroy_channel(t, ch)
          PROVE  EndpointsInv'
      BY <2>6, DestroyChannel
    <2>7. QED
      BY <2>1, <2>2, <2>3, <2>4, <2>5, <2>6 DEF EndpointsNext
  <1>3. QED
    BY <1>1, <1>2, PTL DEF EndpointsSpec

\* pmm_validate succeeds in every state, the blocks cover the heap, and
\* contiguous free memory is one block.
THEOREM ServiceHeapStaysSound == EndpointsSpec => []ServiceHeapSound
  <1>1. EndpointsInv => ServiceHeapSound
    <2> SUFFICES ASSUME EndpointsInv PROVE ServiceHeapSound
      OBVIOUS
    <2>1. g_num_endpoints \in Nat
      BY DEF EndpointsInv, RegistryInv, RegistrySound
    <2>2. EndpointsTypeOK
      BY <2>1 DEF EndpointsTypeOK, EndpointsInv, MergedInv, ListInv, RegistryInv, HandlerInv
    <2>3. NoAdjacentFree
      BY DEF NoAdjacentFree, EndpointsInv, MergedInv, Merged
    <2>4. QED
      BY <2>2, <2>3 DEF ServiceHeapSound, EndpointsInv, MergedInv, ListInv
  <1>2. QED
    BY <1>1, EndpointsInvariant, PTL

\* Every endpoint and every channel owns a block that is large enough, and
\* there is no other used block.
THEOREM MemoryStaysOwned == EndpointsSpec => []MemoryOwned
  <1>1. EndpointsInv => MemoryOwned
    <2> SUFFICES ASSUME EndpointsInv PROVE MemoryOwned
      OBVIOUS
    <2>1. /\ Nodes \subseteq Used(blocks) /\ channels \subseteq Used(blocks)
          /\ {a \in DOMAIN blocks : blocks[a].used} = Nodes \cup channels
          /\ \A a \in Nodes : EndpointSize <= blocks[a].size - HDR
      BY DEF EndpointsInv, OwnerInv, Used, Nodes
    <2>2. QED
      BY <2>1 DEF MemoryOwned, EndpointsInv, OwnerInv, Usable, Used
  <1>2. QED
    BY <1>1, EndpointsInvariant, PTL

\* An id, and a name that no long name is truncated to, denote one endpoint.
THEOREM RegistryStaysSound == EndpointsSpec => []RegistrySound
  <1>1. EndpointsInv => RegistrySound
    BY DEF EndpointsInv, RegistryInv
  <1>2. QED
    BY <1>1, EndpointsInvariant, PTL

\* The node ipc_send points to is not freed while its handler runs.
THEOREM SendersEndpointStays == EndpointsSpec => []HandlerEndpointStays
  <1>1. EndpointsInv => HandlerEndpointStays
    BY DEF EndpointsInv, HandlerInv
  <1>2. QED
    BY <1>1, EndpointsInvariant, PTL
=============================================================================
