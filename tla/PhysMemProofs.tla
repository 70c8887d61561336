--------------------------- MODULE PhysMemProofs ---------------------------
(***************************************************************************)
(* Theorems about the Core-0 frame allocator, for every amount of memory   *)
(* and every request size and alignment: what its operations do to its     *)
(* state, which the proofs about all its callers rest on, and what callers *)
(* that free each block once can rely on.                                  *)
(***************************************************************************)
EXTENDS MmClients, TLAPS, WellFoundedInduction

-----------------------------------------------------------------------------
(***************************************************************************)
(* Induction.  The library's induction theorems are about operators, which *)
(* the provers cannot instantiate; these are about sets and functions.     *)
(***************************************************************************)

\* Every set of natural numbers but the empty one has a least element.
LEMMA LeastNat ==
  ASSUME NEW T, T \subseteq Nat, T # {}
  PROVE  \E n \in T : \A k \in T : n <= k
  <1>1. PICK n \in T : \A k \in T : <<k, n>> \notin OpToRel(<, Nat)
    <2>1. IsWellFoundedOn(OpToRel(<, Nat), Nat)
      BY NatLessThanWellFounded
    <2>2. QED
      BY <2>1, WFMin, Zenon
  <1>2. \A k \in T : ~(k < n)
    <2> TAKE k \in T
    <2>1. <<k, n>> \in Nat \X Nat
      OBVIOUS
    <2>2. QED
      BY <1>1, <2>1 DEF OpToRel
  <1>3. QED
    BY <1>2

\* Induction over the natural numbers, with the set of the numbers that have
\* the property in place of the property.
LEMMA SetInduction ==
  ASSUME NEW S, 0 \in S, \A n \in Nat : n \in S => n + 1 \in S
  PROVE  \A n \in Nat : n \in S
  <1> SUFFICES ASSUME NEW w \in Nat \ S PROVE FALSE
    OBVIOUS
  <1>1. PICK n \in Nat \ S : \A k \in Nat \ S : n <= k
    <2>1. Nat \ S \subseteq Nat /\ Nat \ S # {}
      OBVIOUS
    <2>2. QED
      BY <2>1, LeastNat
  <1>2. n # 0 /\ n - 1 \in Nat /\ (n - 1) + 1 = n /\ ~(n <= n - 1)
    OBVIOUS
  <1>3. n - 1 \in S
    BY <1>1, <1>2
  <1>4. QED
    BY <1>2, <1>3

\* A function defined by recursion over 0 .. n exists.
Recursive(f, V, v, step, n) ==
  /\ f \in [0 .. n -> V]
  /\ f[0] = v /\ \A k \in 0 .. n - 1 : f[k + 1] = step[k][f[k]]
LEMMA RecursionExists ==
  ASSUME NEW V, NEW v \in V, NEW step \in [Nat -> [V -> V]], NEW n \in Nat
  PROVE  \E f : Recursive(f, V, v, step, n)
  <1> DEFINE Good(m, f) == f[0] = v /\ \A k \in 0 .. m - 1 : f[k + 1] = step[k][f[k]]
             S == {m \in Nat : \E f \in [0 .. m -> V] : Good(m, f)}
  <1>1. 0 \in S
    <2> DEFINE f == [k \in 0 .. 0 |-> v]
    <2>1. f \in [0 .. 0 -> V] /\ Good(0, f)
      OBVIOUS
    <2>2. QED
      BY <2>1
  <1>2. ASSUME NEW m \in Nat, m \in S PROVE m + 1 \in S
    <2>1. PICK f \in [0 .. m -> V] : Good(m, f)
      BY <1>2
    <2> DEFINE g == [k \in 0 .. m + 1 |-> IF k <= m THEN f[k] ELSE step[m][f[m]]]
    <2>2. g \in [0 .. m + 1 -> V]
      OBVIOUS
    <2>3. /\ \A k \in 0 .. m : g[k] = f[k]
          /\ g[m + 1] = step[m][f[m]]
      OBVIOUS
    <2> HIDE DEF g
    <2>4. ASSUME NEW k \in 0 .. m
          PROVE  g[k + 1] = step[k][g[k]]
      <3>1. CASE k = m
        BY <2>3, <3>1
      <3>2. CASE k \in 0 .. m - 1
        <4>1. k \in 0 .. m /\ k + 1 \in 0 .. m
          BY <3>2
        <4>2. QED
          BY <2>1, <2>3, <3>2, <4>1
      <3>3. QED
        BY <3>1, <3>2
    <2>5. Good(m + 1, g)
      BY <2>1, <2>3, <2>4
    <2> HIDE DEF Good
    <2>6. QED
      BY <2>2, <2>5
  <1> HIDE DEF S
  <1>3. n \in S
    BY <1>1, <1>2, SetInduction
  <1>4. QED
    BY <1>3 DEF S, Recursive

-----------------------------------------------------------------------------
(* The operations. *)

\* Retyping a set of frames changes exactly those frames.
LEMMA SetFramesTyped ==
  ASSUME NEW m \in State, NEW ps, NEW t \in MemTypes, NEW o \in Owners
  PROVE  /\ SetFrames(m, ps, t, o) \in [Pages -> Frame]
         /\ \A p \in Pages :
              SetFrames(m, ps, t, o)[p] =
                IF p \in ps THEN [type |-> t, owner |-> o] ELSE m.frames[p]
  BY DEF SetFrames, State, Frame

\* A uint64_t counter stays in range when it wraps.
LEMMA WrapInRange ==
  ASSUME NEW k \in Int
  PROVE  k % COUNTER_RANGE \in 0 .. COUNTER_RANGE - 1
  BY MmConstants

\* mm_alloc keeps the table typed and retypes the run it found.
LEMMA mm_allocTyped ==
  ASSUME NEW m \in State, NEW s \in Int, NEW n \in Nat, NEW t \in MemTypes,
         NEW o \in Owners
  PROVE  /\ mm_alloc(m, s, n, t, o) \in State
         /\ mm_alloc(m, s, n, t, o).frames = SetFrames(m, Run(s, n), t, o)
  <1>1. /\ (m.available_pages - n) % COUNTER_RANGE \in 0 .. COUNTER_RANGE - 1
        /\ (m.allocated_pages + n) % COUNTER_RANGE \in 0 .. COUNTER_RANGE - 1
    <2>1. m.available_pages - n \in Int /\ m.allocated_pages + n \in Int
      BY MmConstants DEF State
    <2>2. QED
      BY <2>1, WrapInRange
  <1>2. SetFrames(m, Run(s, n), t, o) \in [Pages -> Frame]
    BY SetFramesTyped
  <1>3. QED
    BY <1>1, <1>2 DEF mm_alloc, State

\* mm_free keeps the table typed and frees the one frame.
LEMMA mm_freeTyped ==
  ASSUME NEW m \in State, NEW p
  PROVE  /\ mm_free(m, p) \in State
         /\ mm_free(m, p).frames = SetFrames(m, {p}, "AVAILABLE", 0)
  <1>1. /\ (m.available_pages + 1) % COUNTER_RANGE \in 0 .. COUNTER_RANGE - 1
        /\ (m.allocated_pages - 1) % COUNTER_RANGE \in 0 .. COUNTER_RANGE - 1
    <2>1. m.available_pages + 1 \in Int /\ m.allocated_pages - 1 \in Int
      BY MmConstants DEF State
    <2>2. QED
      BY <2>1, WrapInRange
  <1>2. SetFrames(m, {p}, "AVAILABLE", 0) \in [Pages -> Frame]
    BY SetFramesTyped, MmConstants DEF MemTypes
  <1>3. QED
    BY <1>1, <1>2 DEF mm_free, State

\* mm_reserve keeps the table typed and retypes the region.
LEMMA mm_reserveTyped ==
  ASSUME NEW m \in State, NEW s \in Nat, NEW n \in Nat, NEW t \in MemTypes,
         NEW o \in Owners
  PROVE  /\ mm_reserve(m, s, n, t, o) \in State
         /\ mm_reserve(m, s, n, t, o).frames = SetFrames(m, Run(s, n), t, o)
  <1> DEFINE k == IF s + n > total_pages THEN 0 ELSE n
             a == IF t = "AVAILABLE" THEN m.available_pages + k
                  ELSE m.available_pages - k
             u == IF t = "AVAILABLE" THEN m.allocated_pages
                  ELSE m.allocated_pages + k
  <1>1. a \in Int /\ u \in Int
    BY MmConstants DEF State
  <1>2. a % COUNTER_RANGE \in 0 .. COUNTER_RANGE - 1
    BY <1>1, WrapInRange
  <1>3. u % COUNTER_RANGE \in 0 .. COUNTER_RANGE - 1
    BY <1>1, WrapInRange
  <1>4. SetFrames(m, Run(s, n), t, o) \in [Pages -> Frame]
    BY SetFramesTyped
  <1>5. mm_reserve(m, s, n, t, o) =
          [frames |-> SetFrames(m, Run(s, n), t, o),
           available_pages |-> a % COUNTER_RANGE,
           allocated_pages |-> u % COUNTER_RANGE]
    BY DEF mm_reserve
  <1>6. QED
    BY <1>2, <1>3, <1>4, <1>5 DEF State

\* mm_init is a state of the allocator.
LEMMA mm_initTyped == mm_init \in State
  <1>1. total_pages % COUNTER_RANGE \in 0 .. COUNTER_RANGE - 1
        /\ 0 \in 0 .. COUNTER_RANGE - 1
    BY MmConstants, WrapInRange
  <1>2. [p \in Pages |-> [type |-> "RESERVED", owner |-> 0]] \in [Pages -> Frame]
    BY MmConstants DEF Frame, MemTypes
  <1>3. QED
    BY <1>1, <1>2 DEF mm_init, State

-----------------------------------------------------------------------------
(***************************************************************************)
(* The search of mm_alloc.                                                 *)
(***************************************************************************)

Search == [start: Nat, found: Nat, hit: BOOLEAN]

\* One turn of the loop keeps the search's variables typed.
LEMMA ScanPageTyped ==
  ASSUME NEW m, NEW n \in Nat, NEW align \in Nat \ {0}, NEW i \in Nat, NEW b \in Search
  PROVE  ScanPage(m, n, align, i, b) \in Search
  <1> DEFINE start == IF b.found = 0 THEN i ELSE b.start
             full == b.found + 1 >= n
             aligned == start % align = 0
             hit == full /\ aligned
             found == IF full /\ ~aligned THEN 0 ELSE b.found + 1
  <1>1. b.start \in Nat /\ b.found \in Nat /\ b.hit \in BOOLEAN
    BY DEF Search
  <1>2. start \in Nat /\ found \in Nat
    BY <1>1
  <1>3. hit \in BOOLEAN
    OBVIOUS
  <1>4. ScanPage(m, n, align, i, b) =
          IF b.hit THEN b
          ELSE IF m.frames[i].type # "AVAILABLE" THEN [b EXCEPT !.found = 0]
          ELSE [start |-> start, found |-> found, hit |-> hit]
    BY DEF ScanPage
  <1> HIDE DEF start, found, hit
  <1>5. QED
    BY <1>1, <1>2, <1>3, <1>4 DEF Search

\* The search before every page: the function that Scan defines exists.
LEMMA ScanSteps ==
  ASSUME NEW m, NEW n \in Nat, NEW align \in Nat \ {0}
  PROVE  \E scan \in [0 .. total_pages -> Search] :
           /\ scan[0] = NoRun
           /\ \A i \in 0 .. total_pages - 1 :
                scan[i + 1] = ScanPage(m, n, align, i, scan[i])
           /\ Scan(m, n, align) = scan[total_pages]
  <1> DEFINE Rec(f) == f = [i \in 0 .. total_pages |->
                         IF i = 0 THEN NoRun ELSE ScanPage(m, n, align, i - 1, f[i - 1])]
             step == [i \in Nat |-> [b \in Search |-> ScanPage(m, n, align, i, b)]]
             scan == CHOOSE f : Rec(f)
  <1>1. total_pages \in Nat /\ NoRun \in Search
    BY MmConstants DEF NoRun, Search
  <1>2. step \in [Nat -> [Search -> Search]]
    BY ScanPageTyped
  <1>3. PICK f \in [0 .. total_pages -> Search] :
          f[0] = NoRun /\ \A k \in 0 .. total_pages - 1 : f[k + 1] = step[k][f[k]]
    <2> HIDE DEF step
    <2>1. \E f : Recursive(f, Search, NoRun, step, total_pages)
      BY <1>1, <1>2, RecursionExists
    <2>2. QED
      BY <2>1 DEF Recursive
  <1>4. Rec(f)
    <2>1. ASSUME NEW k \in 0 .. total_pages, k # 0
          PROVE  f[k] = ScanPage(m, n, align, k - 1, f[k - 1])
      <3>1. /\ k - 1 \in Nat /\ k - 1 \in 0 .. total_pages - 1 /\ (k - 1) + 1 = k
            /\ f[k - 1] \in Search
        BY <1>1, <2>1
      <3>2. f[(k - 1) + 1] = step[k - 1][f[k - 1]]
        BY <1>3, <3>1
      <3>3. QED
        BY <3>1, <3>2
    <2>2. QED
      BY <1>3, <2>1
  <1>5. Rec(scan)
    <2> HIDE DEF Rec
    <2> QED
      BY <1>4, Zenon
  <1>6. Scan(m, n, align) = scan[total_pages]
    BY DEF Scan
  <1> HIDE DEF scan
  <1>7. scan[0] = NoRun
    BY <1>1, <1>5
  <1>8. \A i \in 0 .. total_pages - 1 : scan[i + 1] = ScanPage(m, n, align, i, scan[i])
    <2> TAKE i \in 0 .. total_pages - 1
    <2>1. i + 1 \in 0 .. total_pages /\ i + 1 # 0 /\ (i + 1) - 1 = i
      BY <1>1
    <2>2. scan[i + 1] = ScanPage(m, n, align, (i + 1) - 1, scan[(i + 1) - 1])
      BY <1>5, <2>1
    <2>3. QED
      BY <2>1, <2>2
  <1>9. \A i \in Nat : i \in 0 .. total_pages => scan[i] \in Search
    <2> DEFINE S == {i \in Nat : i \in 0 .. total_pages => scan[i] \in Search}
    <2>1. 0 \in S
      BY <1>1, <1>7
    <2>2. ASSUME NEW i \in Nat, i \in S PROVE i + 1 \in S
      BY <1>1, <1>8, <2>2, ScanPageTyped
    <2> HIDE DEF S
    <2>3. \A i \in Nat : i \in S
      BY <2>1, <2>2, SetInduction
    <2>4. QED
      BY <2>3 DEF S
  <1>10. scan \in [0 .. total_pages -> Search]
    BY <1>5, <1>9
  <1>11. QED
    BY <1>6, <1>7, <1>8, <1>10

\* A remainder is what is left above a multiple of the divisor.
LEMMA Remainder ==
  ASSUME NEW n \in Nat \ {0}, NEW x \in Int, NEW q \in Int, NEW r \in 0 .. n - 1,
         x = (n * q) + r
  PROVE  x % n = r
  OBVIOUS

\* A step of d from a multiple of n leads to the next multiple, or to none.
LEMMA StepFromMultiple ==
  ASSUME NEW n \in Nat \ {0}, NEW x \in Nat, x % n = 0, NEW d \in 1 .. n
  PROVE  (x + d) % n = 0 <=> d = n
  <1> DEFINE q == x \div n
  <1>1. q \in Int /\ x = n * q
    OBVIOUS
  <1> HIDE DEF q
  <1>2. CASE d = n
    <2>1. x + d = (n * (q + 1)) + 0 /\ q + 1 \in Int /\ x + d \in Int /\ 0 \in 0 .. n - 1
      BY <1>1, <1>2
    <2>2. (x + d) % n = 0
      BY <2>1, Remainder
    <2>3. QED
      BY <1>2, <2>2
  <1>3. CASE d # n
    <2>1. x + d = (n * q) + d /\ d \in 0 .. n - 1
      BY <1>1, <1>3
    <2>2. (x + d) % n = d
      BY <1>1, <2>1, Remainder
    <2>3. QED
      BY <1>3, <2>2
  <1>4. QED
    BY <1>2, <1>3

\* The loop invariant of mm_alloc's search before page i.  The pages of the
\* current piece, found so far, end a run of available frames that begins at r,
\* whole pieces of n pages after r; no candidate lies before page i; and once
\* the loop has returned, it has returned the first candidate.
Scanned(m, n, align, i, b) ==
  IF b.hit THEN b.start \in FirstFit(m, n, align)
  ELSE /\ \A t \in Candidates(m, n, align) : t + n > i
       /\ b.found < n /\ b.found <= i
       /\ b.found > 0 => b.start = i - b.found
       /\ \E r \in 0 .. i - b.found :
            /\ r .. i - 1 \subseteq Available(m)
            /\ r - 1 \notin Available(m)
            /\ (i - b.found - r) % n = 0

LEMMA ScanPageScanned ==
  ASSUME NEW m, NEW n \in Nat \ {0}, NEW align \in Nat \ {0},
         NEW i \in Pages, NEW b \in Search, Scanned(m, n, align, i, b)
  PROVE  Scanned(m, n, align, i + 1, ScanPage(m, n, align, i, b))
  <1> DEFINE A == Available(m)
             C == Candidates(m, n, align)
             c == ScanPage(m, n, align, i, b)
             start == i - b.found
  <1>0. /\ i \in Nat /\ b.start \in Nat /\ b.found \in Nat /\ b.hit \in BOOLEAN
        /\ A \subseteq Nat
    BY MmConstants DEF Search, Pages, Available
  <1>c. \A t \in C : /\ t \in A /\ t \in Nat /\ t .. t + n - 1 \subseteq A /\ t % align = 0
                     /\ \E r \in 0 .. t : /\ r .. t \subseteq A /\ r - 1 \notin A
                                          /\ (t - r) % n = 0
    BY <1>0 DEF Candidates, Run
  <1>1. CASE b.hit
    BY <1>1 DEF ScanPage, Scanned
  <1>2. CASE ~b.hit
    <2>1. /\ \A t \in C : t + n > i
          /\ b.found < n /\ b.found <= i
          /\ b.found > 0 => b.start = start
      BY <1>2 DEF Scanned
    <2>c. \A t \in C : t \in Nat /\ (t + n > i + 1 \/ t + n = i + 1)
      <3> TAKE t \in C
      <3>1. t \in Nat /\ t + n > i
        BY <1>c, <2>1
      <3>2. QED
        BY <1>0, <3>1
    <2>2. PICK r \in 0 .. start :
            r .. i - 1 \subseteq A /\ r - 1 \notin A /\ (start - r) % n = 0
      BY <1>2 DEF Scanned
    <2>3. start \in Nat /\ start <= i /\ start + b.found = i /\ r \in Nat /\ r <= start
      BY <1>0, <2>1, <2>2
    <2>4. CASE i \notin A
      <3>1. c = [b EXCEPT !.found = 0]
        BY <1>2, <2>4 DEF ScanPage, Available
      <3>2. c.found = 0 /\ ~c.hit
        BY <1>2, <3>1 DEF Search
      <3>3. \A t \in C : t + n > i + 1
        <4> SUFFICES ASSUME NEW t \in C, t + n = i + 1 PROVE FALSE
          BY <2>c
        <4>1. i \in t .. t + n - 1
          BY <1>0, <1>c
        <4>2. QED
          BY <1>c, <2>4, <4>1
      <3>4. /\ i + 1 \in 0 .. i + 1 /\ (i + 1) .. (i + 1) - 1 \subseteq A
            /\ (i + 1) - 1 \notin A /\ ((i + 1) - 0 - (i + 1)) % n = 0
        BY <1>0, <2>4
      <3>5. Scanned(m, n, align, i + 1, c)
        <4> HIDE DEF c
        <4>1. (i + 1) - c.found = i + 1 /\ (i + 1) - 0 = i + 1
          BY <1>0, <3>2
        <4>2. \E q \in 0 .. (i + 1) - c.found :
                /\ q .. (i + 1) - 1 \subseteq A /\ q - 1 \notin A
                /\ ((i + 1) - c.found - q) % n = 0
          BY <3>4, <4>1
        <4>3. c.found < n /\ c.found <= i + 1 /\ ~(c.found > 0)
          BY <1>0, <3>2
        <4>4. QED
          BY <3>2, <3>3, <4>2, <4>3 DEF Scanned
      <3>6. QED
        BY <3>5
    <2>5. CASE i \in A
      <3> DEFINE full == b.found + 1 >= n
                 aligned == start % align = 0
      <3>1. /\ c.start = start
            /\ c.found = IF full /\ ~aligned THEN 0 ELSE b.found + 1
            /\ c.hit <=> full /\ aligned
        <4>1. start = IF b.found = 0 THEN i ELSE b.start
          BY <1>0, <2>1
        <4>2. m.frames[i].type = "AVAILABLE"
          BY <2>5 DEF Available
        <4> HIDE DEF start
        <4>3. QED
          BY <1>2, <4>1, <4>2 DEF ScanPage
      <3>2. r .. i \subseteq A
        <4> SUFFICES ASSUME NEW p \in r .. i PROVE p \in A
          OBVIOUS
        <4>1. p = i \/ p \in r .. i - 1
          BY <1>0, <2>3
        <4>2. QED
          BY <2>2, <2>5, <4>1
      <3>3. \A t \in C : t + n = i + 1 => t = start /\ full
        <4> SUFFICES ASSUME NEW t \in C, t + n = i + 1 PROVE t = start /\ full
          OBVIOUS
        <4>1. PICK u \in 0 .. t : u .. t \subseteq A /\ u - 1 \notin A /\ (t - u) % n = 0
          BY <1>c
        <4>2. t \in Nat /\ t .. i \subseteq A /\ t <= i
          BY <1>0, <1>c
        <4>3. u = r
          <5>1. ~(u < r)
            <6> SUFFICES ASSUME u < r PROVE FALSE
              OBVIOUS
            <6>1. r - 1 \in u .. t \/ r - 1 \in t .. i
              BY <1>0, <2>3, <4>2
            <6>2. QED
              BY <2>2, <4>1, <4>2, <6>1
          <5>2. ~(r < u)
            <6> SUFFICES ASSUME r < u PROVE FALSE
              OBVIOUS
            <6>1. u - 1 \in r .. i
              BY <1>0, <2>3, <4>2
            <6>2. QED
              BY <3>2, <4>1, <6>1
          <5>3. QED
            BY <5>1, <5>2, <2>3
        <4>4. t <= start
          BY <1>0, <2>1, <2>3, <4>2
        <4>5. CASE t < start
          <5>1. /\ start - t \in 1 .. n /\ start - t # n /\ t - r \in Nat
                /\ (t - r) + (start - t) = start - r
            BY <1>0, <2>3, <4>1, <4>2, <4>3, <4>5
          <5>2. (t - r) % n = 0
            BY <4>1, <4>3
          <5>3. ((t - r) + (start - t)) % n # 0
            <6> HIDE DEF start
            <6> QED
              BY <5>1, <5>2, StepFromMultiple
          <5>4. QED
            BY <2>2, <5>1, <5>3
        <4>6. CASE t = start
          BY <1>0, <2>3, <4>6
        <4>7. QED
          BY <2>3, <4>2, <4>4, <4>5, <4>6
      <3>4. CASE full /\ aligned
        <4>1. b.found + 1 = n
          BY <1>0, <2>1, <3>4
        <4>2. start .. start + n - 1 \subseteq A /\ start \in A
          BY <1>0, <2>3, <3>2, <4>1
        <4>3. r .. start \subseteq A
          BY <1>0, <2>3, <3>2
        <4>4. start \in C
          BY <2>2, <2>3, <3>4, <4>2, <4>3 DEF Candidates, Run
        <4>5. \A t \in C : start <= t
          <5> TAKE t \in C
          <5>1. t + n > i /\ t \in Nat
            BY <1>c, <2>1
          <5>2. QED
            BY <1>0, <2>3, <4>1, <5>1
        <4>6. c.hit /\ c.start \in FirstFit(m, n, align)
          BY <3>1, <3>4, <4>4, <4>5 DEF FirstFit
        <4>7. QED
          BY <4>6 DEF Scanned
      <3>5. CASE full /\ ~aligned
        <4>1. b.found + 1 = n /\ c.found = 0 /\ ~c.hit
          BY <1>0, <2>1, <3>1, <3>5
        <4>2. \A t \in C : t + n > i + 1
          <5> SUFFICES ASSUME NEW t \in C, t + n = i + 1 PROVE FALSE
            BY <2>c
          <5>1. t = start /\ t % align = 0
            BY <1>c, <3>3
          <5>2. QED
            BY <3>5, <5>1
        <4>3. (i + 1 - r) % n = 0
          <5>1. start - r \in Nat /\ n \in 1 .. n /\ (start - r) + n = i + 1 - r
            BY <1>0, <2>3, <4>1
          <5>2. ((start - r) + n) % n = 0
            BY <2>2, <5>1, StepFromMultiple
          <5>3. QED
            BY <5>1, <5>2
        <4>4. /\ r \in 0 .. i + 1 - 0 /\ r .. (i + 1) - 1 \subseteq A
              /\ (i + 1 - 0 - r) % n = 0
          BY <1>0, <2>3, <3>2, <4>3
        <4>5. QED
          BY <1>0, <2>2, <4>1, <4>2, <4>4 DEF Scanned
      <3>6. CASE ~full
        <4>1. c.found = b.found + 1 /\ ~c.hit /\ c.start = start
          BY <3>1, <3>6
        <4>2. \A t \in C : t + n > i + 1
          BY <2>c, <3>3, <3>6
        <4>3. /\ c.found < n /\ c.found <= i + 1 /\ (i + 1) - c.found = start
          BY <1>0, <2>1, <3>6, <4>1
        <4>4. r .. (i + 1) - 1 \subseteq A
          BY <1>0, <3>2
        <4> HIDE DEF start
        <4>5. QED
          BY <2>2, <4>1, <4>2, <4>3, <4>4 DEF Scanned
      <3>7. QED
        BY <3>4, <3>5, <3>6
    <2>6. QED
      BY <2>4, <2>5
  <1>3. QED
    BY <1>0, <1>1, <1>2

\* mm_alloc's loop returns the first candidate, and fails when there is none:
\* the closed form FirstFit is what the code computes, for every frame table,
\* request and alignment.
THEOREM LoopFindsFirstFit ==
  ASSUME NEW m \in State, NEW n \in Nat \ {0}, NEW align \in Nat \ {0}
  PROVE  LET r == Scan(m, n, align)
         IN  FirstFit(m, n, align) = IF r.hit THEN {r.start} ELSE {}
  <1>1. PICK scan \in [0 .. total_pages -> Search] :
          /\ scan[0] = NoRun
          /\ \A i \in 0 .. total_pages - 1 :
               scan[i + 1] = ScanPage(m, n, align, i, scan[i])
          /\ Scan(m, n, align) = scan[total_pages]
    BY ScanSteps
  <1> DEFINE S == {i \in Nat : i <= total_pages => Scanned(m, n, align, i, scan[i])}
  <1>0. total_pages \in Nat /\ Available(m) \subseteq Pages
    BY MmConstants DEF Available
  <1>2. 0 \in S
    <2>1. scan[0].found = 0 /\ scan[0].start = 0 /\ ~scan[0].hit
      BY <1>1 DEF NoRun
    <2>2. \A t \in Candidates(m, n, align) : t + n > 0
      BY <1>0 DEF Candidates, Available, Pages
    <2>3. 0 \in 0 .. 0 - 0 /\ 0 .. 0 - 1 \subseteq Available(m) /\ (0 - 0 - 0) % n = 0
      OBVIOUS
    <2>4. 0 - 1 \notin Available(m)
      BY <1>0 DEF Pages
    <2>5. Scanned(m, n, align, 0, scan[0])
      BY <2>1, <2>2, <2>3, <2>4 DEF Scanned
    <2>6. QED
      BY <2>5
  <1>3. ASSUME NEW i \in Nat, i \in S PROVE i + 1 \in S
    <2> SUFFICES ASSUME i + 1 <= total_pages
                 PROVE  Scanned(m, n, align, i + 1, scan[i + 1])
      OBVIOUS
    <2>1. i \in 0 .. total_pages /\ i \in Pages /\ i <= total_pages
      BY <1>0 DEF Pages
    <2>2. scan[i] \in Search /\ scan[i + 1] = ScanPage(m, n, align, i, scan[i])
      BY <1>1, <2>1 DEF Pages
    <2>3. Scanned(m, n, align, i, scan[i])
      BY <1>3, <2>1
    <2>4. QED
      BY <2>1, <2>2, <2>3, ScanPageScanned
  <1>4. Scanned(m, n, align, total_pages, scan[total_pages])
    <2> HIDE DEF S
    <2>1. total_pages \in S
      BY <1>0, <1>2, <1>3, SetInduction
    <2>2. QED
      BY <1>0, <2>1 DEF S
  <1> DEFINE b == scan[total_pages]
  <1>5. CASE b.hit
    <2>1. b.start \in FirstFit(m, n, align)
      BY <1>4, <1>5 DEF Scanned
    <2>2. \A s, t \in FirstFit(m, n, align) : s = t
      <3>1. \A s \in FirstFit(m, n, align) : s \in Int
        BY <1>0 DEF FirstFit, Candidates, Pages
      <3>2. \A s, t \in FirstFit(m, n, align) : s <= t
        BY DEF FirstFit
      <3>3. QED
        BY <3>1, <3>2
    <2>3. FirstFit(m, n, align) = {b.start}
      BY <2>1, <2>2
    <2>4. QED
      BY <1>1, <1>5, <2>3
  <1>6. CASE ~b.hit
    <2>1. \A t \in Candidates(m, n, align) : t + n > total_pages
      BY <1>4, <1>6 DEF Scanned
    <2>2. ASSUME NEW t \in Candidates(m, n, align) PROVE FALSE
      <3>1. t \in Nat /\ t .. t + n - 1 \subseteq Pages
        BY <1>0 DEF Candidates, Run, Pages
      <3>2. t + n - 1 \in Pages
        BY <3>1
      <3>3. QED
        BY <1>0, <2>1, <3>1, <3>2 DEF Pages
    <2>3. FirstFit(m, n, align) = {}
      BY <2>2 DEF FirstFit
    <2>4. QED
      BY <1>1, <1>6, <2>3
  <1>7. QED
    BY <1>5, <1>6

-----------------------------------------------------------------------------
(***************************************************************************)
(* The invariant.  BlocksIntact is inductive together with the types: a    *)
(* frame of a live block is never AVAILABLE, so the search cannot pick it, *)
(* and the one frame mm_free touches belongs to no other block.            *)
(***************************************************************************)
MmInv == ClientsTypeOK /\ BlocksIntact

\* Nothing is allocated when mm_init returns.
LEMMA InitMmInv == ClientsInit => MmInv
  <1> SUFFICES ASSUME ClientsInit PROVE MmInv
    OBVIOUS
  <1>1. mm \in State
    BY mm_initTyped DEF ClientsInit
  <1>2. QED
    BY <1>1 DEF ClientsInit, MmInv, ClientsTypeOK, BlocksIntact

\* mm_reserve outside the held blocks, mm_alloc and mm_free preserve it.
LEMMA NextMmInv == MmInv /\ [ClientsNext]_cvars => MmInv'
  <1> SUFFICES ASSUME MmInv, [ClientsNext]_cvars PROVE MmInv'
    OBVIOUS
  <1>t. mm \in State /\ owned \subseteq Block /\ mm.frames \in [Pages -> Frame]
    BY DEF MmInv, ClientsTypeOK, State
  <1>b. \A b \in owned :
          /\ b \in Block /\ b.start \in Pages /\ b.pages \in 1 .. MaxPages
          /\ b.type \in UsedTypes /\ b.owner \in Owners
          /\ b.start \in Run(b.start, b.pages)
          /\ \A p \in Run(b.start, b.pages) :
               p \in Pages /\ mm.frames[p] = [type |-> b.type, owner |-> b.owner]
          /\ \A c \in owned :
               Run(b.start, b.pages) \cap Run(c.start, c.pages) # {} => b = c
    <2> SUFFICES ASSUME NEW b \in owned
                 PROVE  /\ b \in Block /\ b.start \in Pages /\ b.pages \in 1 .. MaxPages
                        /\ b.type \in UsedTypes /\ b.owner \in Owners
                        /\ b.start \in Run(b.start, b.pages)
      BY DEF MmInv, BlocksIntact
    <2>1. b \in Block /\ b.start \in Pages /\ b.pages \in 1 .. MaxPages
          /\ b.type \in UsedTypes /\ b.owner \in Owners
      BY <1>t DEF Block
    <2>2. b.start \in Run(b.start, b.pages)
      BY <2>1, MmConstants DEF Run, Pages
    <2>3. QED
      BY <2>1, <2>2
  <1>1. ASSUME NEW start \in Pages, NEW n \in 1 .. MaxPages, NEW o \in Owners,
               NEW t \in {"AVAILABLE", "RESERVED"}, ReserveRegion(start, n, t, o)
        PROVE  MmInv'
    <2>1. /\ mm' = mm_reserve(mm, start, n, t, o) /\ owned' = owned
          /\ Run(start, n) \cap HeldPages = {}
      BY <1>1 DEF ReserveRegion
    <2>2. start \in Nat /\ n \in Nat /\ t \in MemTypes
      BY MmConstants DEF Pages, MemTypes
    <2>3. mm' \in State /\ mm'.frames = SetFrames(mm, Run(start, n), t, o)
      BY <1>t, <2>1, <2>2, mm_reserveTyped
    <2>3a. \A p \in Pages :
             mm'.frames[p] = IF p \in Run(start, n) THEN [type |-> t, owner |-> o]
                             ELSE mm.frames[p]
      BY <2>3 DEF SetFrames
    <2>4. \A b \in owned : \A p \in Run(b.start, b.pages) : mm'.frames[p] = mm.frames[p]
      <3> SUFFICES ASSUME NEW b \in owned, NEW p \in Run(b.start, b.pages)
                   PROVE  mm'.frames[p] = mm.frames[p]
        OBVIOUS
      <3>1. p \in HeldPages /\ p \in Pages
        BY <1>b DEF HeldPages
      <3>2. p \notin Run(start, n)
        BY <2>1, <3>1
      <3>3. QED
        BY <2>3a, <3>1, <3>2
    <2>5. QED
      BY <1>b, <1>t, <2>1, <2>3, <2>4 DEF MmInv, ClientsTypeOK, BlocksIntact
  <1>2. ASSUME NEW n \in 1 .. MaxPages, NEW align \in Alignments,
               NEW t \in UsedTypes, NEW o \in Owners, AllocBlock(n, align, t, o)
        PROVE  MmInv'
    <2>1. PICK s \in FirstFit(mm, n, align) :
            /\ mm' = mm_alloc(mm, s, n, t, o)
            /\ owned' = IF s = 0 THEN owned
                       ELSE owned \cup {[start |-> s, pages |-> n, type |-> t, owner |-> o]}
      BY <1>2 DEF AllocBlock
    <2> DEFINE new == [start |-> s, pages |-> n, type |-> t, owner |-> o]
    <2>2. /\ s \in Pages /\ s \in Int /\ n \in Nat /\ t \in MemTypes
          /\ Run(s, n) \subseteq Available(mm)
      BY MmConstants DEF FirstFit, Candidates, Available, Pages, MemTypes
    <2>3. mm' \in State /\ mm'.frames = SetFrames(mm, Run(s, n), t, o)
      BY <1>t, <2>1, <2>2, mm_allocTyped
    <2>4. \A p \in Pages :
            mm'.frames[p] = IF p \in Run(s, n) THEN [type |-> t, owner |-> o]
                            ELSE mm.frames[p]
      BY <2>3 DEF SetFrames
    <2>5. \A b \in owned : Run(b.start, b.pages) \cap Run(s, n) = {}
      <3> SUFFICES ASSUME NEW b \in owned, NEW p \in Run(b.start, b.pages)
                   PROVE  p \notin Available(mm)
        BY <2>2
      <3>1. mm.frames[p] = [type |-> b.type, owner |-> b.owner] /\ b.type \in UsedTypes
        BY <1>b
      <3>2. mm.frames[p].type # "AVAILABLE"
        BY <3>1, MmConstants
      <3>3. QED
        BY <3>2 DEF Available
    <2>6. \A b \in owned : \A p \in Run(b.start, b.pages) : mm'.frames[p] = mm.frames[p]
      BY <1>b, <2>4, <2>5
    <2>7. new \in Block /\ new.start = s /\ new.pages = n /\ new.type = t /\ new.owner = o
      BY <2>2 DEF Block
    <2>8. owned' \subseteq owned \cup {new}
      BY <2>1
    <2>9. ClientsTypeOK'
      BY <1>t, <2>3, <2>7, <2>8 DEF ClientsTypeOK
    <2>10. \A p \in Run(s, n) : p \in Pages /\ mm'.frames[p] = [type |-> t, owner |-> o]
      BY <2>2, <2>4 DEF Available
    <2>11. ASSUME NEW b \in owned'
           PROVE  \A p \in Run(b.start, b.pages) :
                    p \in Pages /\ mm'.frames[p] = [type |-> b.type, owner |-> b.owner]
      <3>1. CASE b = new
        BY <3>1, <2>7, <2>10
      <3>2. CASE b \in owned
        BY <3>2, <1>b, <2>6
      <3>3. QED
        BY <2>8, <3>1, <3>2
    <2>12. ASSUME NEW b \in owned', NEW c \in owned',
                  Run(b.start, b.pages) \cap Run(c.start, c.pages) # {}
           PROVE  b = c
      <3>1. CASE b \in owned /\ c \in owned
        BY <3>1, <2>12, <1>b
      <3>2. CASE b = new /\ c \in owned
        BY <3>2, <2>12, <2>5, <2>7
      <3>3. CASE b \in owned /\ c = new
        BY <3>3, <2>12, <2>5, <2>7
      <3>4. QED
        BY <2>8, <3>1, <3>2, <3>3
    <2>13. QED
      BY <2>9, <2>11, <2>12 DEF MmInv, BlocksIntact
  <1>3. ASSUME NEW b \in owned, FreeBlock(b)
        PROVE  MmInv'
    <2>1. mm' = mm_free(mm, b.start) /\ owned' = owned \ {b}
      BY <1>3 DEF FreeBlock
    <2>2. mm' \in State /\ mm'.frames = SetFrames(mm, {b.start}, "AVAILABLE", 0)
      BY <1>t, <2>1, mm_freeTyped
    <2>3. "AVAILABLE" \in MemTypes /\ 0 \in Owners
      BY MmConstants DEF MemTypes
    <2>4. \A p \in Pages : p # b.start => mm'.frames[p] = mm.frames[p]
      <3>1. \A p \in Pages :
              mm'.frames[p] = IF p \in {b.start} THEN [type |-> "AVAILABLE", owner |-> 0]
                              ELSE mm.frames[p]
        BY <1>t, <2>2, <2>3, SetFramesTyped
      <3>2. QED
        BY <3>1
    <2>5. \A c \in owned' : b.start \notin Run(c.start, c.pages)
      BY <1>b, <2>1
    <2>6. QED
      <3>1. ClientsTypeOK'
        BY <1>t, <2>1, <2>2 DEF ClientsTypeOK
      <3>2. \A c \in owned' : \A p \in Run(c.start, c.pages) :
              p \in Pages /\ mm'.frames[p] = [type |-> c.type, owner |-> c.owner]
        <4> SUFFICES ASSUME NEW c \in owned', NEW p \in Run(c.start, c.pages)
                     PROVE  /\ p \in Pages
                            /\ mm'.frames[p] = [type |-> c.type, owner |-> c.owner]
          OBVIOUS
        <4>1. p \in Pages /\ mm.frames[p] = [type |-> c.type, owner |-> c.owner]
          BY <1>b, <2>1
        <4>2. p # b.start
          BY <2>5
        <4>3. QED
          BY <4>1, <4>2, <2>4
      <3>3. \A c, d \in owned' :
              Run(c.start, c.pages) \cap Run(d.start, d.pages) # {} => c = d
        BY <1>b, <2>1
      <3>4. QED
        BY <3>1, <3>2, <3>3 DEF MmInv, BlocksIntact
  <1>4. CASE UNCHANGED cvars
    BY <1>4 DEF cvars, MmInv, ClientsTypeOK, BlocksIntact
  <1>5. QED
    BY <1>1, <1>2, <1>3, <1>4 DEF ClientsNext

\* Callers that free each block once, with the address they were given, never
\* share a frame and never lose one, whatever is allocated around them.
THEOREM BlocksStayIntact == ClientsSpec => []ClientsTypeOK /\ []BlocksIntact
  <1>1. MmInv => ClientsTypeOK /\ BlocksIntact
    BY DEF MmInv
  <1>2. QED
    BY <1>1, InitMmInv, NextMmInv, PTL DEF ClientsSpec

-----------------------------------------------------------------------------
(* The search. *)

\* The page at the beginning of the run of available frames around s.
LEMMA RunBegins ==
  ASSUME NEW m \in State, NEW s \in Available(m)
  PROVE  \E r \in 0 .. s : r .. s \subseteq Available(m) /\ r - 1 \notin Available(m)
  <1> DEFINE T == {r \in 0 .. s : r .. s \subseteq Available(m)}
  <1>1. s \in Nat /\ Available(m) \subseteq Nat
    BY MmConstants DEF Available, Pages
  <1>2. s \in T /\ T \subseteq Nat
    BY <1>1
  <1>3. PICK r \in T : \A k \in T : r <= k
    <2> HIDE DEF T
    <2> QED
      BY <1>2, LeastNat
  <1>4. r - 1 \notin Available(m)
    <2> SUFFICES ASSUME r - 1 \in Available(m) PROVE FALSE
      OBVIOUS
    <2>1. r - 1 \in Nat /\ r \in Nat /\ r <= s
      BY <1>1, <1>2
    <2>2. \A p \in r - 1 .. s : p = r - 1 \/ p \in r .. s
      BY <1>1, <2>1
    <2>3. r - 1 \in T
      BY <1>1, <2>1, <2>2
    <2>4. QED
      BY <1>3, <2>1, <2>3
  <1>5. QED
    BY <1>4

\* A run of n available pages anywhere makes a candidate: the run it belongs to
\* begins with one.
LEMMA ContiguousIsFound ==
  ASSUME NEW m \in State, NEW n \in Nat \ {0}, NEW s \in Pages,
         Run(s, n) \subseteq Available(m)
  PROVE  FirstFit(m, n, 1) # {}
  <1>1. s \in Nat /\ Available(m) \subseteq Nat
    BY MmConstants DEF Available, Pages
  <1>2. s \in Available(m)
    BY <1>1 DEF Run
  <1>3. PICK r \in 0 .. s : r .. s \subseteq Available(m) /\ r - 1 \notin Available(m)
    BY <1>2, RunBegins
  <1>4. r \in Nat /\ r <= s /\ r \in Available(m)
    BY <1>1, <1>3
  <1>5. Run(r, n) \subseteq Available(m)
    <2> SUFFICES ASSUME NEW p \in r .. r + n - 1 PROVE p \in Available(m)
      BY DEF Run
    <2>1. p \in r .. s \/ p \in s .. s + n - 1
      BY <1>1, <1>4
    <2>2. QED
      BY <1>3, <2>1 DEF Run
  <1>6. r \in Candidates(m, n, 1)
    <2>1. r % 1 = 0 /\ (r - r) % n = 0 /\ r \in 0 .. r /\ r .. r \subseteq Available(m)
      BY <1>4
    <2>2. QED
      BY <1>3, <1>4, <1>5, <2>1 DEF Candidates
  <1>7. Candidates(m, n, 1) \subseteq Nat
    BY <1>1 DEF Candidates
  <1>8. \E t \in Candidates(m, n, 1) : \A u \in Candidates(m, n, 1) : t <= u
    BY <1>6, <1>7, LeastNat
  <1>9. QED
    BY <1>8 DEF FirstFit

\* Whatever was allocated and freed: a request without an alignment beyond the
\* page is met whenever enough contiguous pages are available.
THEOREM ContiguousPagesAreFound == ClientsSpec => []FindsContiguous
  <1>1. MmInv => FindsContiguous
    <2> SUFFICES ASSUME MmInv, NEW n \in 1 .. MaxPages, NEW s \in Pages,
                        Run(s, n) \subseteq Available(mm)
                 PROVE  FirstFit(mm, n, 1) # {}
      BY DEF FindsContiguous
    <2>1. mm \in State /\ n \in Nat \ {0}
      BY DEF MmInv, ClientsTypeOK
    <2>2. QED
      BY <2>1, ContiguousIsFound
  <1>2. QED
    BY <1>1, InitMmInv, NextMmInv, PTL DEF ClientsSpec

\* In every reachable frame table the loop of mm_alloc returns the lowest run
\* FirstFit describes, and fails exactly when there is none.
THEOREM SearchIsFirstFit == ClientsSpec => []ScanIsFirstFit
  <1>1. MmInv => ScanIsFirstFit
    <2> SUFFICES ASSUME MmInv, NEW n \in 1 .. MaxPages, NEW align \in Alignments
                 PROVE  LET r == Scan(mm, n, align)
                        IN  FirstFit(mm, n, align) = IF r.hit THEN {r.start} ELSE {}
      BY DEF ScanIsFirstFit
    <2>1. mm \in State /\ n \in Nat \ {0} /\ align \in Nat \ {0}
      BY MmConstants DEF MmInv, ClientsTypeOK
    <2>2. QED
      BY <2>1, LoopFindsFirstFit
  <1>2. QED
    BY <1>1, InitMmInv, NextMmInv, PTL DEF ClientsSpec
=============================================================================
