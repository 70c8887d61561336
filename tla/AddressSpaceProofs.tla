------------------------- MODULE AddressSpaceProofs -------------------------
(***************************************************************************)
(* Theorems about AddressSpaces, for any number of domains and CPUs, any   *)
(* table size and amount of memory.                                        *)
(***************************************************************************)
EXTENDS AddressSpaces, PhysMemProofs, FiniteSetTheorems

-----------------------------------------------------------------------------
(***************************************************************************)
(* Virtual pages as numbers of four digits.                                *)
(***************************************************************************)

\* The quotient is the number of whole divisors.
LEMMA Quotient ==
  ASSUME NEW a \in Nat, NEW d \in Nat \ {0}, NEW q \in Nat, NEW r \in 0 .. d - 1,
         a = (d * q) + r
  PROVE  a \div d = q /\ a % d = r
  <1>1. /\ a \div d \in Int /\ a % d \in 0 .. d - 1
        /\ a = (d * (a \div d)) + (a % d)
    OBVIOUS
  <1> DEFINE p == a \div d
             s == a % d
  <1>2. p \in Int /\ s \in 0 .. d - 1 /\ (d * p) + s = (d * q) + r
    BY <1>1
  <1> HIDE DEF p, s
  <1>3. d * (p - q) = r - s
    BY <1>2
  <1>4. p = q
    <2>1. CASE p - q >= 1
      <3>1. d * (p - q) >= d
        BY <1>2, <2>1
      <3>2. QED
        BY <1>2, <1>3, <3>1
    <2>2. CASE p - q <= -1
      <3>1. d * (p - q) <= -d
        BY <1>2, <2>2
      <3>2. QED
        BY <1>2, <1>3, <3>1
    <2>3. QED
      BY <1>2, <2>1, <2>2
  <1>5. s = r
    BY <1>2, <1>4
  <1>6. QED
    BY <1>4, <1>5 DEF p, s

\* Dividing twice divides by the product.
LEMMA DivideTwice ==
  ASSUME NEW v \in Nat, NEW a \in Nat \ {0}, NEW b \in Nat \ {0}
  PROVE  v \div (a * b) = (v \div a) \div b
  <1> DEFINE x == v \div a
             r == v % a
             q == x \div b
             s == x % b
  <1>1. x \in Nat /\ r \in 0 .. a - 1 /\ v = (a * x) + r
    OBVIOUS
  <1>2. q \in Nat /\ s \in 0 .. b - 1 /\ x = (b * q) + s
    BY <1>1
  <1> HIDE DEF x, r, q, s
  <1>3. a * b \in Nat \ {0} /\ a * s \in Nat
    BY <1>2
  <1>4. a * x = ((a * b) * q) + (a * s)
    BY <1>1, <1>2
  <1>5. v = ((a * b) * q) + ((a * s) + r)
    BY <1>1, <1>2, <1>3, <1>4
  <1>6. (a * s) + r \in 0 .. (a * b) - 1
    <2>1. a * s <= a * (b - 1)
      BY <1>2
    <2>2. a * (b - 1) = (a * b) - a
      OBVIOUS
    <2>3. QED
      BY <1>1, <1>3, <2>1, <2>2
  <1>7. v \div (a * b) = q
    BY <1>2, <1>3, <1>5, <1>6, Quotient
  <1>8. QED
    BY <1>7 DEF q, x

\* Two numbers with equal digits are equal.
LEMMA SameDigits ==
  ASSUME NEW a \in Nat, NEW b \in Nat, NEW i \in Idx, NEW j \in Idx,
         (N * a) + i = (N * b) + j
  PROVE  a = b /\ i = j
  <1>1. N \in Nat \ {0} /\ (N * a) + i \in Nat /\ (N * b) + j \in Nat
    BY SpaceConstants DEF Idx
  <1>2. ((N * a) + i) \div N = a /\ ((N * a) + i) % N = i
    BY <1>1, Quotient DEF Idx
  <1>3. ((N * b) + j) \div N = b /\ ((N * b) + j) % N = j
    BY <1>1, Quotient DEF Idx
  <1>4. QED
    BY <1>2, <1>3

\* The digits of a virtual page above a level: which table of that level it uses.
Prefix(v, level) ==
  CASE level = 4 -> 0
    [] level = 3 -> v \div (N * N * N)
    [] level = 2 -> v \div (N * N)
    [] level = 1 -> v \div N
    [] level = 0 -> v

\* A level adds a digit.
LEMMA PrefixStep ==
  ASSUME NEW v \in VPages, NEW k \in 1 .. 4
  PROVE  /\ Index(v, k) \in Idx /\ Prefix(v, k) \in Nat /\ Prefix(v, k - 1) \in Nat
         /\ Prefix(v, k - 1) = (N * Prefix(v, k)) + Index(v, k)
  <1>1. N \in Nat \ {0} /\ v \in Nat /\ N * N \in Nat \ {0} /\ N * N * N \in Nat \ {0}
    BY SpaceConstants DEF VPages
  <1>2. v < (N * N * N) * N
    <2>1. (N * N * N) * N = N * N * N * N
      BY <1>1
    <2>2. QED
      BY <1>1, <2>1 DEF VPages
  <1>3. ASSUME NEW x \in Nat
        PROVE  x \div N \in Nat /\ x % N \in Idx /\ x = (N * (x \div N)) + (x % N)
    BY <1>1 DEF Idx
  <1>4. v \div N \in Nat /\ v \div (N * N) \in Nat /\ v \div (N * N * N) \in Nat
    <2>1. \A d \in Nat \ {0} : v \div d \in Nat
      BY <1>1
    <2>2. QED
      BY <1>1, <2>1
  <1>5. v \div (N * N) = (v \div N) \div N
    BY <1>1, DivideTwice
  <1>6. v \div (N * N * N) = (v \div (N * N)) \div N
    BY <1>1, DivideTwice
  <1>7. CASE k = 1
    <2>1. Prefix(v, k) = v \div N /\ Prefix(v, k - 1) = v /\ Index(v, k) = v % N
      BY <1>7 DEF Prefix, Index
    <2>2. QED
      BY <1>1, <1>3, <2>1
  <1>8. CASE k = 2
    <2>1. /\ Prefix(v, k) = v \div (N * N) /\ Prefix(v, k - 1) = v \div N
          /\ Index(v, k) = (v \div N) % N
      BY <1>8 DEF Prefix, Index
    <2>2. QED
      BY <1>3, <1>4, <1>5, <2>1
  <1>9. CASE k = 3
    <2>1. /\ Prefix(v, k) = v \div (N * N * N) /\ Prefix(v, k - 1) = v \div (N * N)
          /\ Index(v, k) = (v \div (N * N)) % N
      BY <1>9 DEF Prefix, Index
    <2>2. QED
      BY <1>3, <1>4, <1>6, <2>1
  <1>10. CASE k = 4
    <2>1. /\ Prefix(v, k) = 0 /\ Prefix(v, k - 1) = v \div (N * N * N)
          /\ Index(v, k) = (v \div (N * N * N)) % N
      BY <1>10 DEF Prefix, Index
    <2> DEFINE x == v \div (N * N * N)
               m == N * N * N
    <2>2. x \in Nat /\ v = (m * x) + (v % m) /\ v % m \in 0 .. m - 1 /\ m \in Nat \ {0}
          /\ v < m * N
      BY <1>1, <1>2, <1>4
    <2> HIDE DEF x, m
    <2>3. x < N
      <3>1. ASSUME x >= N PROVE FALSE
        <4>1. m * x >= m * N
          BY <1>1, <2>2, <3>1
        <4>2. QED
          BY <1>1, <2>2, <4>1
      <3>2. QED
        BY <1>1, <2>2, <3>1
    <2>4. x % N = x
      BY <1>1, <2>2, <2>3
    <2>5. x \in Idx /\ N * 0 = 0
      BY <1>1, <2>2, <2>3 DEF Idx
    <2>6. QED
      BY <2>1, <2>2, <2>4, <2>5 DEF x
  <1>11. QED
    BY <1>7, <1>8, <1>9, <1>10

-----------------------------------------------------------------------------
(***************************************************************************)
(* Places.  A labelling gives every page table its place: the domain, the  *)
(* level, and the digits of the virtual pages that are found through it.   *)
(* That there is one is the heart of the proof: the rules for it are local *)
(* (a root, a link, a frame), and still say that the tables of a domain    *)
(* form a tree of their own.  m, C and R are the allocator, the contents   *)
(* of the frames and the roots, also half way through a walk that creates  *)
(* tables.                                                                 *)
(***************************************************************************)
Place == [domain: Domains \cup {0}, level: 0 .. 4, at: Nat]
NoPlace == [domain |-> 0, level |-> 0, at |-> 0]
At(d, v, k) == [domain |-> d, level |-> k, at |-> Prefix(v, k)]
Child(l, i) == [domain |-> l.domain, level |-> l.level - 1, at |-> (N * l.at) + i]
Contents == [Pages -> [Idx -> Entry]]

\* The root of a domain has its place, and tables are frames of the kernel.
RootsPlaced(lab, R) ==
  \A d \in Domains :
    R[d] # NULL => lab[R[d]] = [domain |-> d, level |-> 4, at |-> 0]
TablesKernel(lab, m) ==
  \A t \in Pages : lab[t].level > 0 => t # NULL /\ m.frames[t].type = "KERNEL"
\* A link leads to the place below.
LinksPlaced(lab, C) ==
  \A t \in Pages, i \in Idx :
    lab[t].level > 1 /\ Present(C[t][i]) => lab[C[t][i].addr] = Child(lab[t], i)
\* A table that is not a root is linked, and no two tables have the same place.
TablesLinked(lab, C) ==
  \A u \in Pages : lab[u].level \in 1 .. 3 =>
    \E t \in Pages, i \in Idx : /\ lab[t].level = lab[u].level + 1
                                /\ Present(C[t][i]) /\ C[t][i].addr = u
PlacesUnique(lab) ==
  \A t, u \in Pages : lab[t].level > 0 /\ lab[t] = lab[u] => t = u

Placed(lab, m, C, R) ==
  /\ lab \in [Pages -> Place] /\ RootsPlaced(lab, R) /\ TablesKernel(lab, m)
  /\ LinksPlaced(lab, C) /\ TablesLinked(lab, C) /\ PlacesUnique(lab)

BelowIn(C, t, v, k) ==
  IF t = NULL \/ ~Present(C[t][Index(v, k)]) THEN NULL ELSE C[t][Index(v, k)].addr
PtIn(C, root, v) == BelowIn(C, BelowIn(C, BelowIn(C, root, v, 4), v, 3), v, 2)
PteIn(C, root, v) ==
  IF PtIn(C, root, v) = NULL THEN NoEntry ELSE C[PtIn(C, root, v)][Index(v, 1)]

LEMMA NullIsPage == NULL \in Pages
  BY MmConstants DEF NULL, Pages

\* One level of a walk goes from the place for a page to the next.
LEMMA BelowPlaced ==
  ASSUME NEW C \in Contents, NEW m, NEW lab, NEW R, Placed(lab, m, C, R), NEW v \in VPages,
         NEW k \in 2 .. 4, NEW t \in Pages, NEW d, t = NULL \/ lab[t] = At(d, v, k)
  PROVE  /\ BelowIn(C, t, v, k) \in Pages
         /\ BelowIn(C, t, v, k) = NULL \/ lab[BelowIn(C, t, v, k)] = At(d, v, k - 1)
  <1>1. /\ Index(v, k) \in Idx /\ Prefix(v, k) \in Nat /\ Prefix(v, k - 1) \in Nat
        /\ Prefix(v, k - 1) = (N * Prefix(v, k)) + Index(v, k)
    BY PrefixStep
  <1>2. CASE t = NULL \/ ~Present(C[t][Index(v, k)])
    BY <1>2, NullIsPage DEF BelowIn
  <1>3. CASE t # NULL /\ Present(C[t][Index(v, k)])
    <2>1. BelowIn(C, t, v, k) = C[t][Index(v, k)].addr
      BY <1>3 DEF BelowIn
    <2>2. C[t][Index(v, k)].addr \in Pages
      BY <1>1 DEF Contents, Entry
    <2>3. lab[t] = At(d, v, k)
      BY <1>3
    <2>4. lab[t].level = k /\ lab[t].domain = d /\ lab[t].at = Prefix(v, k)
      BY <2>3 DEF At
    <2>5. lab[C[t][Index(v, k)].addr] = Child(lab[t], Index(v, k))
      BY <1>1, <1>3, <2>4 DEF Placed, LinksPlaced
    <2>6. Child(lab[t], Index(v, k)) = At(d, v, k - 1)
      BY <1>1, <2>4 DEF Child, At
    <2>7. QED
      BY <2>1, <2>2, <2>5, <2>6
  <1>4. QED
    BY <1>2, <1>3

\* A walk ends in the place for the page.
LEMMA PtPlaced ==
  ASSUME NEW C \in Contents, NEW m, NEW lab, NEW R, Placed(lab, m, C, R), NEW v \in VPages,
         NEW d \in Domains, R[d] \in Pages
  PROVE  LET t3 == BelowIn(C, R[d], v, 4)
             t2 == BelowIn(C, t3, v, 3)
             t1 == PtIn(C, R[d], v)
         IN  /\ R[d] = NULL \/ lab[R[d]] = At(d, v, 4)
             /\ t3 \in Pages /\ (t3 = NULL \/ lab[t3] = At(d, v, 3))
             /\ t2 \in Pages /\ (t2 = NULL \/ lab[t2] = At(d, v, 2))
             /\ t1 \in Pages /\ (t1 = NULL \/ lab[t1] = At(d, v, 1))
  <1> DEFINE t3 == BelowIn(C, R[d], v, 4)
             t2 == BelowIn(C, t3, v, 3)
             t1 == BelowIn(C, t2, v, 2)
  <1>1. R[d] = NULL \/ lab[R[d]] = At(d, v, 4)
    BY DEF Placed, RootsPlaced, At, Prefix
  <1>2. t3 \in Pages /\ (t3 = NULL \/ lab[t3] = At(d, v, 3))
    <2>1. 4 \in 2 .. 4 /\ 4 - 1 = 3
      OBVIOUS
    <2>2. t3 \in Pages /\ (t3 = NULL \/ lab[t3] = At(d, v, 4 - 1))
      BY <1>1, <2>1, BelowPlaced
    <2>3. QED
      BY <2>1, <2>2
  <1> HIDE DEF t3
  <1>3. t2 \in Pages /\ (t2 = NULL \/ lab[t2] = At(d, v, 2))
    <2>1. 3 \in 2 .. 4 /\ 3 - 1 = 2
      OBVIOUS
    <2>2. t2 \in Pages /\ (t2 = NULL \/ lab[t2] = At(d, v, 3 - 1))
      BY <1>2, <2>1, BelowPlaced
    <2>3. QED
      BY <2>1, <2>2
  <1> HIDE DEF t2
  <1>4. t1 \in Pages /\ (t1 = NULL \/ lab[t1] = At(d, v, 1))
    <2>1. 2 \in 2 .. 4 /\ 2 - 1 = 1
      OBVIOUS
    <2>2. t1 \in Pages /\ (t1 = NULL \/ lab[t1] = At(d, v, 2 - 1))
      BY <1>3, <2>1, BelowPlaced
    <2>3. QED
      BY <2>1, <2>2
  <1>5. QED
    BY <1>1, <1>2, <1>3, <1>4 DEF PtIn, t2, t3

\* Entries of different pages are different entries.
LEMMA EntriesApart ==
  ASSUME NEW C \in Contents, NEW m, NEW lab, NEW R, Placed(lab, m, C, R),
         NEW v \in VPages, NEW w \in VPages, NEW d \in Domains, NEW e \in Domains,
         R[d] \in Pages, R[e] \in Pages,
         PtIn(C, R[d], v) # NULL, PtIn(C, R[d], v) = PtIn(C, R[e], w),
         Index(v, 1) = Index(w, 1)
  PROVE  d = e /\ v = w
  <1>1. /\ lab[PtIn(C, R[d], v)] = At(d, v, 1)
        /\ lab[PtIn(C, R[e], w)] = At(e, w, 1)
    BY PtPlaced
  <1>2. d = e /\ Prefix(v, 1) = Prefix(w, 1)
    BY <1>1 DEF At
  <1>3. Prefix(v, 0) = (N * Prefix(v, 1)) + Index(v, 1)
    <2>1. 1 \in 1 .. 4 /\ 1 - 1 = 0
      OBVIOUS
    <2>2. Prefix(v, 1 - 1) = (N * Prefix(v, 1)) + Index(v, 1)
      BY <2>1, PrefixStep
    <2>3. QED
      BY <2>1, <2>2
  <1>4. Prefix(w, 0) = (N * Prefix(w, 1)) + Index(w, 1)
    <2>1. 1 \in 1 .. 4 /\ 1 - 1 = 0
      OBVIOUS
    <2>2. Prefix(w, 1 - 1) = (N * Prefix(w, 1)) + Index(w, 1)
      BY <2>1, PrefixStep
    <2>3. QED
      BY <2>1, <2>2
  <1>5. Prefix(v, 0) = v /\ Prefix(w, 0) = w
    BY DEF Prefix
  <1>6. QED
    BY <1>2, <1>3, <1>4, <1>5

\* The table with the place for a page is linked from the place above.
LEMMA ParentFound ==
  ASSUME NEW C \in Contents, NEW m, NEW lab, NEW R, Placed(lab, m, C, R),
         NEW v \in VPages, NEW d, NEW k \in 2 .. 4, NEW u \in Pages,
         lab[u] = At(d, v, k - 1)
  PROVE  \E t \in Pages : /\ lab[t] = At(d, v, k)
                          /\ Present(C[t][Index(v, k)]) /\ C[t][Index(v, k)].addr = u
  <1>1. /\ Index(v, k) \in Idx /\ Prefix(v, k) \in Nat /\ Prefix(v, k - 1) \in Nat
        /\ Prefix(v, k - 1) = (N * Prefix(v, k)) + Index(v, k)
    BY PrefixStep
  <1>2. lab[u].domain = d /\ lab[u].level = k - 1 /\ lab[u].at = Prefix(v, k - 1)
    BY DEF At
  <1>3. PICK t \in Pages, i \in Idx : /\ lab[t].level = lab[u].level + 1
                                      /\ Present(C[t][i]) /\ C[t][i].addr = u
    BY <1>2 DEF Placed, TablesLinked
  <1>4. lab[t].level = k /\ lab[t] \in Place
    BY <1>2, <1>3 DEF Placed
  <1>5. lab[u] = Child(lab[t], i)
    BY <1>3, <1>4 DEF Placed, LinksPlaced
  <1>6. lab[t].domain = d /\ lab[t].at \in Nat /\ Prefix(v, k - 1) = (N * lab[t].at) + i
    BY <1>2, <1>4, <1>5 DEF Child, Place
  <1>7. lab[t].at = Prefix(v, k) /\ i = Index(v, k)
    BY <1>1, <1>6, SameDigits
  <1>8. lab[t] = At(d, v, k)
    BY <1>4, <1>6, <1>7 DEF At, Place
  <1>9. QED
    BY <1>3, <1>7, <1>8

\* A walk finds the table with the place for the page.
LEMMA TableFound ==
  ASSUME NEW C \in Contents, NEW m, NEW lab, NEW R, Placed(lab, m, C, R),
         NEW v \in VPages, NEW d \in Domains, R[d] \in Pages, R[d] # NULL,
         NEW t \in Pages, lab[t] = At(d, v, 1)
  PROVE  PtIn(C, R[d], v) = t
  <1>0. /\ 2 \in 2 .. 4 /\ 2 - 1 = 1 /\ 3 \in 2 .. 4 /\ 3 - 1 = 2
        /\ 4 \in 2 .. 4 /\ 4 - 1 = 3
    OBVIOUS
  <1>1. PICK t2 \in Pages : /\ lab[t2] = At(d, v, 2)
                            /\ Present(C[t2][Index(v, 2)]) /\ C[t2][Index(v, 2)].addr = t
    <2>1. lab[t] = At(d, v, 2 - 1)
      BY <1>0
    <2>2. QED
      BY <1>0, <2>1, ParentFound
  <1>2. PICK t3 \in Pages : /\ lab[t3] = At(d, v, 3)
                            /\ Present(C[t3][Index(v, 3)]) /\ C[t3][Index(v, 3)].addr = t2
    <2>1. lab[t2] = At(d, v, 3 - 1)
      BY <1>0, <1>1
    <2>2. QED
      BY <1>0, <2>1, ParentFound
  <1>3. PICK t4 \in Pages : /\ lab[t4] = At(d, v, 4)
                            /\ Present(C[t4][Index(v, 4)]) /\ C[t4][Index(v, 4)].addr = t3
    <2>1. lab[t3] = At(d, v, 4 - 1)
      BY <1>0, <1>2
    <2>2. QED
      BY <1>0, <2>1, ParentFound
  <1>4. t4 = R[d]
    <2>1. lab[R[d]] = lab[t4]
      BY <1>3 DEF Placed, RootsPlaced, At, Prefix
    <2>2. lab[t4].level > 0
      BY <1>3 DEF At
    <2>3. QED
      BY <2>1, <2>2 DEF Placed, PlacesUnique
  <1>5. t2 # NULL /\ t3 # NULL /\ t4 # NULL
    <2>1. lab[t2].level > 0 /\ lab[t3].level > 0 /\ lab[t4].level > 0
      BY <1>1, <1>2, <1>3 DEF At
    <2>2. QED
      BY <2>1 DEF Placed, TablesKernel
  <1>6. BelowIn(C, t4, v, 4) = t3 /\ BelowIn(C, t3, v, 3) = t2 /\ BelowIn(C, t2, v, 2) = t
    BY <1>1, <1>2, <1>3, <1>5 DEF BelowIn
  <1>7. QED
    BY <1>4, <1>6 DEF PtIn

\* Contents that agree on the tables above the last level.
SameAbove(lab, C, C2) == \A t \in Pages : lab[t].level > 1 => C2[t] = C[t]

\* What happens to frames that are not such tables leads no walk astray.
LEMMA WalkKept ==
  ASSUME NEW C \in Contents, NEW C2 \in Contents, NEW m, NEW lab, NEW R,
         Placed(lab, m, C, R), SameAbove(lab, C, C2),
         NEW v \in VPages, NEW d \in Domains, R[d] \in Pages
  PROVE  PtIn(C2, R[d], v) = PtIn(C, R[d], v)
  <1> DEFINE t3 == BelowIn(C, R[d], v, 4)
             t2 == BelowIn(C, t3, v, 3)
  <1>1. /\ R[d] = NULL \/ lab[R[d]] = At(d, v, 4)
        /\ t3 \in Pages /\ (t3 = NULL \/ lab[t3] = At(d, v, 3))
        /\ t2 \in Pages /\ (t2 = NULL \/ lab[t2] = At(d, v, 2))
    BY PtPlaced
  <1>2. BelowIn(C2, R[d], v, 4) = t3
    <2>1. R[d] = NULL \/ C2[R[d]] = C[R[d]]
      BY <1>1 DEF SameAbove, At
    <2>2. QED
      BY <2>1 DEF BelowIn
  <1>3. BelowIn(C2, t3, v, 3) = t2
    <2> HIDE DEF t3
    <2>1. t3 = NULL \/ C2[t3] = C[t3]
      BY <1>1 DEF SameAbove, At
    <2>2. QED
      BY <2>1 DEF BelowIn
  <1>4. BelowIn(C2, t2, v, 2) = BelowIn(C, t2, v, 2)
    <2> HIDE DEF t2
    <2>1. t2 = NULL \/ C2[t2] = C[t2]
      BY <1>1 DEF SameAbove, At
    <2>2. QED
      BY <2>1 DEF BelowIn
  <1>5. QED
    BY <1>2, <1>3, <1>4 DEF PtIn

LEMMA PlacedKept ==
  ASSUME NEW C \in Contents, NEW C2 \in Contents, NEW m, NEW m2, NEW lab, NEW R,
         Placed(lab, m, C, R), SameAbove(lab, C, C2), TablesKernel(lab, m2)
  PROVE  Placed(lab, m2, C2, R)
  <1>1. LinksPlaced(lab, C2)
    BY DEF Placed, LinksPlaced, SameAbove
  <1>2. TablesLinked(lab, C2)
    <2> SUFFICES ASSUME NEW u \in Pages, lab[u].level \in 1 .. 3
                 PROVE  \E t \in Pages, i \in Idx : /\ lab[t].level = lab[u].level + 1
                                /\ Present(C2[t][i]) /\ C2[t][i].addr = u
      BY DEF TablesLinked
    <2>1. PICK t \in Pages, i \in Idx : /\ lab[t].level = lab[u].level + 1
                                        /\ Present(C[t][i]) /\ C[t][i].addr = u
      BY DEF Placed, TablesLinked
    <2>2. C2[t] = C[t]
      BY <2>1 DEF SameAbove
    <2>3. QED
      BY <2>1, <2>2
  <1>3. QED
    BY <1>1, <1>2 DEF Placed

-----------------------------------------------------------------------------
(***************************************************************************)
(* New tables.                                                             *)
(***************************************************************************)
Walk == [table: Pages, mm: State, content: Contents]

\* Frames that are in use are left alone.
Keeps(m, m2) ==
  \A p \in Pages : m.frames[p].type # "AVAILABLE" => m2.frames[p] = m.frames[p]

LEMMA ClearIsTable == ClearTable \in [Idx -> Entry] /\ NoEntry \in Entry
  <1>1. NoEntry \in Entry
    BY MmConstants DEF NoEntry, Entry, Pages
  <1>2. QED
    BY <1>1 DEF ClearTable

\* pt_alloc_page_table returns a cleared frame that was available, or NULL.
TableTaken(m, C, new) ==
  /\ new \in Walk /\ Keeps(m, new.mm)
  /\ new.table = NULL => new.content = C
  /\ new.table # NULL => /\ m.frames[new.table].type = "AVAILABLE"
                         /\ new.mm.frames[new.table].type = "KERNEL"
                         /\ new.content = [C EXCEPT ![new.table] = ClearTable]
LEMMA AllocTable ==
  ASSUME NEW m \in State, NEW C \in Contents
  PROVE  TableTaken(m, C, pt_alloc_page_table(m, C))
  <1> DEFINE fit == FirstFit(m, 1, 1)
             new == pt_alloc_page_table(m, C)
  <1>1. CASE fit = {}
    <2>1. new = [table |-> NULL, mm |-> m, content |-> C]
      BY <1>1 DEF pt_alloc_page_table
    <2>2. QED
      BY <2>1, NullIsPage DEF TableTaken, Walk, Keeps
  <1>2. CASE fit # {}
    <2> DEFINE p == CHOOSE q \in fit : TRUE
               m2 == mm_alloc(m, p, 1, "KERNEL", 0)
               C2 == IF p = NULL THEN C ELSE [C EXCEPT ![p] = ClearTable]
    <2>1. new = [table |-> p, mm |-> m2, content |-> C2]
      BY <1>2 DEF pt_alloc_page_table
    <2>2. p \in fit
      BY <1>2
    <2> HIDE DEF p
    <2>3. p \in Pages /\ m.frames[p].type = "AVAILABLE"
      BY <2>2 DEF FirstFit, Candidates, Available
    <2>4. "KERNEL" \in MemTypes /\ 0 \in Owners /\ p \in Int /\ 1 \in Nat
      BY <2>3, SpaceConstants, MmConstants DEF MemTypes, Pages
    <2>5. m2 \in State /\ m2.frames = SetFrames(m, Run(p, 1), "KERNEL", 0)
      BY <2>4, mm_allocTyped
    <2>6. Run(p, 1) = {p}
      BY <2>4 DEF Run
    <2>7. \A x \in Pages : m2.frames[x] = IF x \in {p} THEN [type |-> "KERNEL", owner |-> 0]
                                          ELSE m.frames[x]
      BY <2>4, <2>5, <2>6, SetFramesTyped
    <2> HIDE DEF m2
    <2>8. C2 \in Contents
      BY <2>3, ClearIsTable DEF Contents
    <2>9. new \in Walk /\ new.table = p /\ new.mm = m2 /\ new.content = C2
      BY <2>1, <2>3, <2>5, <2>8 DEF Walk
    <2>10. Keeps(m, m2)
      BY <2>3, <2>7 DEF Keeps
    <2>11. m2.frames[p].type = "KERNEL"
      BY <2>3, <2>7
    <2> HIDE DEF new
    <2>12. QED
      BY <2>3, <2>9, <2>10, <2>11 DEF TableTaken, new
  <1>3. QED
    BY <1>1, <1>2

\* The contents with the cleared frame p linked from entry i of table t.
LinkTo(p) == [addr |-> p, flags |-> {"P", "W", "U"}]
Linked(C, C2, t, i, p) ==
  /\ C2[p] = ClearTable
  /\ \A x \in Pages \ {p}, j \in Idx :
       C2[x][j] = IF x = t /\ j = i THEN LinkTo(p) ELSE C[x][j]

\* A new table gets the place below the table it is linked from.
LEMMA NewPlace ==
  ASSUME NEW C \in Contents, NEW C2 \in Contents, NEW m, NEW m2, NEW lab,
         NEW R \in [Domains -> Pages], Placed(lab, m, C, R), TablesKernel(lab, m2),
         NEW p \in Pages, p # NULL, lab[p].level = 0, m2.frames[p].type = "KERNEL",
         NEW t \in Pages, NEW i \in Idx, lab[t].level \in 2 .. 4, ~Present(C[t][i]),
         Linked(C, C2, t, i, p)
  PROVE  Placed([lab EXCEPT ![p] = Child(lab[t], i)], m2, C2, R)
  <1> DEFINE lab2 == [lab EXCEPT ![p] = Child(lab[t], i)]
             l == Child(lab[t], i)
  <1>1. lab \in [Pages -> Place] /\ lab[t] \in Place /\ t # p
    BY DEF Placed
  <1>2. l \in Place /\ l.level = lab[t].level - 1 /\ l.level \in 1 .. 3
        /\ l.domain = lab[t].domain /\ l.at = (N * lab[t].at) + i
    <2>1. lab[t].at \in Nat /\ lab[t].domain \in Domains \cup {0}
      BY <1>1 DEF Place
    <2>2. (N * lab[t].at) + i \in Nat
      BY <2>1, SpaceConstants DEF Idx
    <2>3. l = [domain |-> lab[t].domain, level |-> lab[t].level - 1,
               at |-> (N * lab[t].at) + i]
      BY DEF Child
    <2>4. QED
      BY <2>1, <2>2, <2>3 DEF Place
  <1> HIDE DEF l
  <1>3. /\ lab2 \in [Pages -> Place] /\ lab2[p] = l
        /\ \A x \in Pages : x # p => lab2[x] = lab[x]
    BY <1>1, <1>2 DEF l
  <1> HIDE DEF lab2
  <1>4. /\ Present(C2[t][i]) /\ C2[t][i].addr = p
        /\ \A j \in Idx : ~Present(C2[p][j])
        /\ \A x \in Pages, j \in Idx : x # p /\ ~(x = t /\ j = i) => C2[x][j] = C[x][j]
    BY <1>1 DEF Linked, LinkTo, ClearTable, NoEntry, Present
  <1>5. RootsPlaced(lab2, R)
    <2> SUFFICES ASSUME NEW d \in Domains, R[d] # NULL
                 PROVE  lab2[R[d]] = [domain |-> d, level |-> 4, at |-> 0]
      BY DEF RootsPlaced
    <2>1. lab[R[d]] = [domain |-> d, level |-> 4, at |-> 0]
      BY DEF Placed, RootsPlaced
    <2>2. R[d] # p
      BY <2>1
    <2>3. QED
      BY <1>3, <2>1, <2>2
  <1>6. TablesKernel(lab2, m2)
    BY <1>3 DEF TablesKernel
  <1>7. LinksPlaced(lab2, C2)
    <2> SUFFICES ASSUME NEW x \in Pages, NEW j \in Idx, lab2[x].level > 1, Present(C2[x][j])
                 PROVE  lab2[C2[x][j].addr] = Child(lab2[x], j)
      BY DEF LinksPlaced
    <2>1. x # p /\ lab2[x] = lab[x]
      BY <1>3, <1>4
    <2>2. CASE x = t /\ j = i
      BY <1>3, <1>4, <2>1, <2>2 DEF l
    <2>3. CASE ~(x = t /\ j = i)
      <3>1. C2[x][j] = C[x][j] /\ C[x][j].addr \in Pages
        BY <1>4, <2>1, <2>3 DEF Contents, Entry
      <3>2. lab[C[x][j].addr] = Child(lab[x], j)
        BY <2>1, <3>1 DEF Placed, LinksPlaced
      <3>3. lab[C[x][j].addr].level > 0
        <4>1. lab[x].level \in Int /\ Child(lab[x], j).level = lab[x].level - 1
          BY <1>1 DEF Child, Place
        <4>2. QED
          BY <2>1, <3>2, <4>1
      <3>4. QED
        BY <1>3, <2>1, <3>1, <3>2, <3>3
    <2>4. QED
      BY <2>2, <2>3
  <1>8. TablesLinked(lab2, C2)
    <2> SUFFICES ASSUME NEW u \in Pages, lab2[u].level \in 1 .. 3
                 PROVE  \E x \in Pages, j \in Idx : /\ lab2[x].level = lab2[u].level + 1
                                /\ Present(C2[x][j]) /\ C2[x][j].addr = u
      BY DEF TablesLinked
    <2>1. CASE u = p
      <3>1. lab2[t].level = lab2[u].level + 1
        BY <1>1, <1>2, <1>3, <2>1
      <3>2. QED
        BY <1>4, <2>1, <3>1
    <2>2. CASE u # p
      <3>1. PICK x \in Pages, j \in Idx : /\ lab[x].level = lab[u].level + 1
                                          /\ Present(C[x][j]) /\ C[x][j].addr = u
        BY <1>3, <2>2 DEF Placed, TablesLinked
      <3>2. x # p /\ ~(x = t /\ j = i)
        BY <1>3, <2>2, <3>1
      <3>3. QED
        BY <1>3, <1>4, <2>2, <3>1, <3>2
    <2>3. QED
      BY <2>1, <2>2
  <1>9. ASSUME NEW y \in Pages, lab[y] = l PROVE FALSE
    <2>1. PICK x \in Pages, j \in Idx : /\ lab[x].level = lab[y].level + 1
                                        /\ Present(C[x][j]) /\ C[x][j].addr = y
      BY <1>2, <1>9 DEF Placed, TablesLinked
    <2>2. lab[x].level = lab[t].level /\ lab[x] \in Place
      BY <1>1, <1>2, <1>9, <2>1 DEF Place
    <2>3. lab[y] = Child(lab[x], j)
      BY <2>1, <2>2 DEF Placed, LinksPlaced
    <2>4. /\ lab[x].domain = lab[t].domain /\ lab[x].at \in Nat /\ lab[t].at \in Nat
          /\ (N * lab[x].at) + j = (N * lab[t].at) + i
      BY <1>1, <1>2, <1>9, <2>2, <2>3 DEF Child, Place
    <2>5. lab[x].at = lab[t].at /\ j = i
      BY <2>4, SameDigits
    <2>6. lab[x] = lab[t]
      BY <1>1, <2>2, <2>4, <2>5 DEF Place
    <2>7. x = t
      BY <2>2, <2>6 DEF Placed, PlacesUnique
    <2>8. QED
      BY <2>1, <2>5, <2>7
  <1>10. PlacesUnique(lab2)
    BY <1>3, <1>9 DEF Placed, PlacesUnique
  <1>11. QED
    BY <1>3, <1>5, <1>6, <1>7, <1>8, <1>10 DEF Placed, lab2

\* A walk in the contents with the link: it goes where it went, or ends one
\* level further, in the new table.
Follows(a, b, p) == b = a \/ (a = NULL /\ b = p)
LEMMA FollowsBelow ==
  ASSUME NEW C \in Contents, NEW C2 \in Contents, NEW t \in Pages, NEW i \in Idx,
         NEW p \in Pages, p # NULL, ~Present(C[t][i]), Linked(C, C2, t, i, p),
         NEW a \in Pages, NEW b \in Pages, Follows(a, b, p), a # p,
         NEW v \in VPages, NEW k \in 2 .. 4
  PROVE  Follows(BelowIn(C, a, v, k), BelowIn(C2, b, v, k), p)
  <1>1. Index(v, k) \in Idx
    BY PrefixStep
  <1>2. CASE b = p
    <2>1. a = NULL
      BY <1>2 DEF Follows
    <2>2. BelowIn(C2, b, v, k) = NULL /\ BelowIn(C, a, v, k) = NULL
      BY <1>1, <1>2, <2>1 DEF BelowIn, Linked, ClearTable, NoEntry, Present
    <2>3. QED
      BY <2>2 DEF Follows
  <1>3. CASE b # p
    <2>1. b = a
      BY <1>3 DEF Follows
    <2>2. CASE a = NULL
      BY <2>1, <2>2 DEF BelowIn, Follows
    <2>3. CASE a # NULL /\ a = t /\ Index(v, k) = i
      <3>1. C2[a][i] = LinkTo(p)
        BY <1>1, <1>3, <2>1, <2>3 DEF Linked
      <3>2. BelowIn(C2, a, v, k) = p
        BY <2>3, <3>1 DEF BelowIn, LinkTo, Present
      <3>3. BelowIn(C, a, v, k) = NULL
        BY <2>3 DEF BelowIn
      <3>4. QED
        BY <2>1, <3>2, <3>3 DEF Follows
    <2>4. CASE a # NULL /\ ~(a = t /\ Index(v, k) = i)
      <3>1. C2[a][Index(v, k)] = C[a][Index(v, k)]
        BY <1>1, <1>3, <2>1, <2>4 DEF Linked
      <3>2. QED
        BY <2>1, <3>1 DEF BelowIn, Follows
    <2>5. QED
      BY <2>2, <2>3, <2>4
  <1>4. QED
    BY <1>2, <1>3

\* What a domain's tables say is what the calls on it add up to.
Shows(C, R, M) == \A d \in Domains, v \in VPages : PteIn(C, R[d], v) = M[d][v]

\* A new table maps nothing.
LEMMA LinkShows ==
  ASSUME NEW C \in Contents, NEW C2 \in Contents, NEW m, NEW lab,
         NEW R \in [Domains -> Pages], NEW M, Placed(lab, m, C, R),
         NEW p \in Pages, p # NULL, lab[p].level = 0,
         NEW t \in Pages, NEW i \in Idx, lab[t].level \in 2 .. 4, ~Present(C[t][i]),
         Linked(C, C2, t, i, p), Shows(C, R, M)
  PROVE  Shows(C2, R, M)
  <1> SUFFICES ASSUME NEW d \in Domains, NEW v \in VPages
               PROVE  PteIn(C2, R[d], v) = PteIn(C, R[d], v)
    BY DEF Shows
  <1> DEFINE a4 == R[d]
             a3 == BelowIn(C, a4, v, 4)
             a2 == BelowIn(C, a3, v, 3)
             a1 == BelowIn(C, a2, v, 2)
             b3 == BelowIn(C2, a4, v, 4)
             b2 == BelowIn(C2, b3, v, 3)
             b1 == BelowIn(C2, b2, v, 2)
  <1>0. R[d] \in Pages
    OBVIOUS
  <1>1. /\ a4 \in Pages /\ (a4 = NULL \/ lab[a4] = At(d, v, 4))
        /\ a3 \in Pages /\ (a3 = NULL \/ lab[a3] = At(d, v, 3))
        /\ a2 \in Pages /\ (a2 = NULL \/ lab[a2] = At(d, v, 2))
        /\ a1 \in Pages /\ (a1 = NULL \/ lab[a1] = At(d, v, 1))
    BY <1>0, PtPlaced DEF PtIn
  <1>2. PtIn(C, R[d], v) = a1 /\ PtIn(C2, R[d], v) = b1
    BY DEF PtIn
  <1>3. a4 # p /\ a3 # p /\ a2 # p /\ a1 # p
    <2> HIDE DEF a1, a2, a3, a4
    <2> QED
      BY <1>1 DEF At
  <1>4. \A k \in 2 .. 4, b \in Pages : BelowIn(C2, b, v, k) \in Pages
    <2> TAKE k \in 2 .. 4, b \in Pages
    <2>1. Index(v, k) \in Idx
      BY PrefixStep
    <2>2. C2[b][Index(v, k)].addr \in Pages
      BY <2>1 DEF Contents, Entry
    <2>3. QED
      BY <2>2, NullIsPage DEF BelowIn
  <1>5. b3 \in Pages /\ Follows(a3, b3, p)
    <2>1. Follows(a4, a4, p) /\ 4 \in 2 .. 4
      BY DEF Follows
    <2> HIDE DEF a4
    <2>2. Follows(BelowIn(C, a4, v, 4), BelowIn(C2, a4, v, 4), p)
      BY <1>1, <1>3, <2>1, FollowsBelow
    <2>3. QED
      BY <1>1, <1>4, <2>1, <2>2
  <1>6. b2 \in Pages /\ Follows(a2, b2, p)
    <2>1. 3 \in 2 .. 4
      OBVIOUS
    <2> HIDE DEF a3, b3
    <2>2. Follows(BelowIn(C, a3, v, 3), BelowIn(C2, b3, v, 3), p)
      BY <1>1, <1>3, <1>5, <2>1, FollowsBelow
    <2>3. QED
      BY <1>4, <1>5, <2>1, <2>2
  <1>7. b1 \in Pages /\ Follows(a1, b1, p)
    <2>1. 2 \in 2 .. 4
      OBVIOUS
    <2> HIDE DEF a2, b2
    <2>2. Follows(BelowIn(C, a2, v, 2), BelowIn(C2, b2, v, 2), p)
      BY <1>1, <1>3, <1>6, <2>1, FollowsBelow
    <2>3. QED
      BY <1>4, <1>6, <2>1, <2>2
  <1>8. Index(v, 1) \in Idx
    <2>1. 1 \in 1 .. 4
      OBVIOUS
    <2>2. QED
      BY <2>1, PrefixStep
  <1> HIDE DEF a1, b1
  <1>9. CASE b1 = a1
    <2>1. CASE a1 = NULL
      BY <1>2, <1>9, <2>1 DEF PteIn
    <2>2. CASE a1 # NULL
      <3>1. a1 # t
        BY <1>1, <2>2 DEF At
      <3>2. C2[a1][Index(v, 1)] = C[a1][Index(v, 1)]
        BY <1>1, <1>3, <1>8, <3>1 DEF Linked
      <3>3. QED
        BY <1>2, <1>9, <2>2, <3>2 DEF PteIn
    <2>3. QED
      BY <2>1, <2>2
  <1>10. CASE a1 = NULL /\ b1 = p
    <2>1. C2[p][Index(v, 1)] = NoEntry
      BY <1>8 DEF Linked, ClearTable
    <2>2. QED
      BY <1>2, <1>10, <2>1 DEF PteIn
  <1>11. QED
    BY <1>7, <1>9, <1>10 DEF Follows

\* Clearing a frame that is no table of the labelling, and what the allocator
\* does to frames that are not in use, changes nothing.
LEMMA PlacedKeeps ==
  ASSUME NEW m, NEW m2, NEW lab, TablesKernel(lab, m), Keeps(m, m2)
  PROVE  TablesKernel(lab, m2)
  BY DEF TablesKernel, Keeps

\* The frames that are available are not tables.
LEMMA AvailableFree ==
  ASSUME NEW m, NEW lab, lab \in [Pages -> Place], TablesKernel(lab, m),
         NEW p \in Pages, m.frames[p].type = "AVAILABLE"
  PROVE  lab[p].level = 0
  <1>1. lab[p].level \in 0 .. 4
    BY DEF Place
  <1>2. QED
    BY <1>1 DEF TablesKernel

\* A walk that has come to the place for a page at level k, if to any.
WalkGood(w, lab, R, M, d, v, k) ==
  /\ w \in Walk /\ Placed(lab, w.mm, w.content, R) /\ Shows(w.content, R, M)
  /\ w.table = NULL \/ lab[w.table] = At(d, v, k)

\* One level of isolation_map_memory's walk, whether it finds a table, creates
\* one, or has no memory for one.
LEMMA NextTable ==
  ASSUME NEW R \in [Domains -> Pages], NEW M, NEW w, NEW lab, NEW d \in Domains,
         NEW v \in VPages, NEW k \in 2 .. 4, WalkGood(w, lab, R, M, d, v, k)
  PROVE  LET w2 == GetOrCreate(w, v, k) IN
         /\ Keeps(w.mm, w2.mm)
         /\ w.table = NULL => w2.table = NULL
         /\ \E lab2 : WalkGood(w2, lab2, R, M, d, v, k - 1)
  <1> DEFINE w2 == GetOrCreate(w, v, k)
             i == Index(v, k)
             t == w.table
             C == w.content
             new == pt_alloc_page_table(w.mm, C)
  <1>1. /\ w \in Walk /\ t \in Pages /\ C \in Contents /\ w.mm \in State
        /\ Placed(lab, w.mm, C, R) /\ Shows(C, R, M)
        /\ t = NULL \/ lab[t] = At(d, v, k)
    BY DEF WalkGood, Walk
  <1>2. i \in Idx
    BY PrefixStep
  <1>3. w2 = IF t = NULL THEN w
             ELSE IF Present(C[t][i]) THEN [w EXCEPT !.table = C[t][i].addr]
             ELSE IF new.table = NULL THEN new
             ELSE [new EXCEPT !.content[t][i] = LinkTo(new.table)]
    BY DEF GetOrCreate, LinkTo
  <1>4. Keeps(w.mm, w.mm)
    BY DEF Keeps
  <1> HIDE DEF w2, i, t, C
  <1>5. CASE t = NULL
    <2>1. w2 = w
      BY <1>3, <1>5
    <2>2. WalkGood(w2, lab, R, M, d, v, k - 1)
      BY <1>1, <1>5, <2>1 DEF WalkGood, t, C
    <2>3. QED
      BY <1>4, <1>5, <2>1, <2>2 DEF t, w2
  <1>6. CASE t # NULL /\ Present(C[t][i])
    <2>1. BelowIn(C, t, v, k) = C[t][i].addr
      BY <1>6 DEF BelowIn, i
    <2>2. /\ BelowIn(C, t, v, k) \in Pages
          /\ BelowIn(C, t, v, k) = NULL \/ lab[BelowIn(C, t, v, k)] = At(d, v, k - 1)
      BY <1>1, BelowPlaced
    <2>3. /\ w2 \in Walk /\ w2.mm = w.mm /\ w2.content = C
          /\ w2.table = BelowIn(C, t, v, k)
      BY <1>1, <1>3, <1>6, <2>1, <2>2 DEF Walk, C
    <2>4. WalkGood(w2, lab, R, M, d, v, k - 1)
      BY <1>1, <2>2, <2>3 DEF WalkGood
    <2>5. QED
      BY <1>4, <1>6, <2>3, <2>4 DEF t, w2
  <1>7. CASE t # NULL /\ ~Present(C[t][i])
    <2>0. TableTaken(w.mm, C, new)
      BY <1>1, AllocTable
    <2>1. /\ new \in Walk /\ Keeps(w.mm, new.mm)
          /\ new.table = NULL => new.content = C
          /\ new.table # NULL => /\ w.mm.frames[new.table].type = "AVAILABLE"
                                 /\ new.mm.frames[new.table].type = "KERNEL"
                                 /\ new.content = [C EXCEPT ![new.table] = ClearTable]
      BY <2>0 DEF TableTaken
    <2> HIDE DEF new
    <2>2. lab \in [Pages -> Place] /\ TablesKernel(lab, w.mm)
      BY <1>1 DEF Placed
    <2>3. TablesKernel(lab, new.mm)
      BY <2>1, <2>2, PlacedKeeps
    <2>4. lab[t] = At(d, v, k) /\ lab[t].level = k
      BY <1>1, <1>7 DEF At
    <2>5. CASE new.table = NULL
      <3>1. w2 = new /\ w2.content = C
        BY <1>3, <1>7, <2>1, <2>5
      <3>2. SameAbove(lab, C, C)
        BY DEF SameAbove
      <3>3. Placed(lab, new.mm, C, R)
        BY <1>1, <2>3, <3>2, PlacedKept
      <3>4. WalkGood(w2, lab, R, M, d, v, k - 1)
        BY <1>1, <2>1, <2>5, <3>1, <3>3 DEF WalkGood
      <3>5. QED
        BY <1>7, <2>1, <3>1, <3>4 DEF t, w2
    <2>6. CASE new.table # NULL
      <3> DEFINE p == new.table
                 C1 == [C EXCEPT ![p] = ClearTable]
                 C2 == [C1 EXCEPT ![t][i] = LinkTo(p)]
                 lab2 == [lab EXCEPT ![p] = Child(lab[t], i)]
      <3>1. p \in Pages /\ new.mm \in State /\ new.content = C1
        BY <2>1, <2>6 DEF Walk
      <3>2. lab[p].level = 0
        BY <2>1, <2>2, <2>6, <3>1, AvailableFree
      <3>3. t # p
        BY <2>4, <3>2
      <3>4. LinkTo(p) \in Entry
        BY <3>1 DEF LinkTo, Entry
      <3> HIDE DEF p
      <3>5. C1 \in Contents
        BY <1>1, <3>1, ClearIsTable DEF Contents
      <3>6. C2 \in Contents
        <4> HIDE DEF C1
        <4> QED
          BY <1>1, <1>2, <3>4, <3>5 DEF Contents
      <3>7. Linked(C, C2, t, i, p)
        BY <1>1, <1>2, <3>1, <3>3 DEF Linked, Contents
      <3>8. w2 = [table |-> p, mm |-> new.mm, content |-> C2]
        <4>1. w2 = [new EXCEPT !.content[t][i] = LinkTo(p)]
          BY <1>3, <1>7, <2>6 DEF p
        <4>2. new = [table |-> p, mm |-> new.mm, content |-> C1]
          BY <2>1, <3>1 DEF Walk, p
        <4>3. QED
          BY <4>1, <4>2
      <3> HIDE DEF C1, C2
      <3>9. lab[t].level \in 2 .. 4 /\ new.mm.frames[p].type = "KERNEL" /\ p # NULL
        BY <2>1, <2>4, <2>6 DEF p
      <3>10. Placed(lab2, new.mm, C2, R)
        BY <1>1, <1>2, <1>7, <2>3, <3>1, <3>2, <3>6, <3>7, <3>9, NewPlace
      <3>11. Shows(C2, R, M)
        BY <1>1, <1>2, <1>7, <3>1, <3>2, <3>6, <3>7, <3>9, LinkShows
      <3>12. lab2[p] = At(d, v, k - 1)
        <4>1. lab2[p] = Child(lab[t], i)
          BY <2>2, <3>1
        <4>2. /\ Prefix(v, k) \in Nat /\ Prefix(v, k - 1) \in Nat
              /\ Prefix(v, k - 1) = (N * Prefix(v, k)) + i
          BY PrefixStep DEF i
        <4>3. Child(lab[t], i) = At(d, v, k - 1)
          BY <2>4, <4>2 DEF Child, At
        <4>4. QED
          BY <4>1, <4>3
      <3> HIDE DEF lab2
      <3>13. w2 \in Walk /\ w2.table = p /\ w2.mm = new.mm /\ w2.content = C2
        BY <3>1, <3>6, <3>8 DEF Walk
      <3>14. WalkGood(w2, lab2, R, M, d, v, k - 1)
        BY <3>10, <3>11, <3>12, <3>13 DEF WalkGood
      <3>15. QED
        BY <1>7, <2>1, <3>13, <3>14 DEF t, w2
    <2>7. QED
      BY <2>5, <2>6
  <1>8. QED
    BY <1>5, <1>6, <1>7

\* The walk of isolation_map_memory from the root down to the last level.
LEMMA WholeWalk ==
  ASSUME NEW R \in [Domains -> Pages], NEW M, NEW d \in Domains, NEW v \in VPages,
         NEW m \in State, NEW C \in Contents, NEW lab, Placed(lab, m, C, R), Shows(C, R, M)
  PROVE  LET root == [table |-> R[d], mm |-> m, content |-> C]
             w == GetOrCreate(GetOrCreate(GetOrCreate(root, v, 4), v, 3), v, 2)
         IN  /\ Keeps(m, w.mm)
             /\ R[d] = NULL => w.table = NULL
             /\ \E lab2 : WalkGood(w, lab2, R, M, d, v, 1)
  <1> DEFINE root == [table |-> R[d], mm |-> m, content |-> C]
             w3 == GetOrCreate(root, v, 4)
             w2 == GetOrCreate(w3, v, 3)
             w1 == GetOrCreate(w2, v, 2)
  <1>0. /\ 2 \in 2 .. 4 /\ 2 - 1 = 1 /\ 3 \in 2 .. 4 /\ 3 - 1 = 2
        /\ 4 \in 2 .. 4 /\ 4 - 1 = 3
    OBVIOUS
  <1>1. WalkGood(root, lab, R, M, d, v, 4) /\ root.table = R[d] /\ root.mm = m
    <2>1. R[d] = NULL \/ lab[R[d]] = At(d, v, 4)
      BY DEF Placed, RootsPlaced, At, Prefix
    <2>2. QED
      BY <2>1 DEF WalkGood, Walk
  <1> HIDE DEF root
  <1>2. /\ Keeps(root.mm, w3.mm) /\ (root.table = NULL => w3.table = NULL)
        /\ \E lab3 : WalkGood(w3, lab3, R, M, d, v, 3)
    <2>1. /\ Keeps(root.mm, w3.mm) /\ (root.table = NULL => w3.table = NULL)
          /\ \E lab3 : WalkGood(w3, lab3, R, M, d, v, 4 - 1)
      BY <1>0, <1>1, NextTable
    <2>2. QED
      BY <1>0, <2>1
  <1> HIDE DEF w3
  <1>3. /\ Keeps(w3.mm, w2.mm) /\ (w3.table = NULL => w2.table = NULL)
        /\ \E lab3 : WalkGood(w2, lab3, R, M, d, v, 2)
    <2>1. PICK lab3 : WalkGood(w3, lab3, R, M, d, v, 3)
      BY <1>2
    <2>2. /\ Keeps(w3.mm, w2.mm) /\ (w3.table = NULL => w2.table = NULL)
          /\ \E lab2 : WalkGood(w2, lab2, R, M, d, v, 3 - 1)
      BY <1>0, <2>1, NextTable
    <2>3. QED
      BY <1>0, <2>2
  <1> HIDE DEF w2
  <1>4. /\ Keeps(w2.mm, w1.mm) /\ (w2.table = NULL => w1.table = NULL)
        /\ \E lab3 : WalkGood(w1, lab3, R, M, d, v, 1)
    <2>1. PICK lab3 : WalkGood(w2, lab3, R, M, d, v, 2)
      BY <1>3
    <2>2. /\ Keeps(w2.mm, w1.mm) /\ (w2.table = NULL => w1.table = NULL)
          /\ \E lab2 : WalkGood(w1, lab2, R, M, d, v, 2 - 1)
      BY <1>0, <2>1, NextTable
    <2>3. QED
      BY <1>0, <2>2
  <1> HIDE DEF w1
  <1>5. Keeps(m, w1.mm)
    BY <1>1, <1>2, <1>3, <1>4 DEF Keeps
  <1>6. R[d] = NULL => w1.table = NULL
    BY <1>1, <1>2, <1>3, <1>4
  <1>7. w1 = GetOrCreate(GetOrCreate(GetOrCreate(root, v, 4), v, 3), v, 2)
    BY DEF w1, w2, w3
  <1>8. QED
    BY <1>4, <1>5, <1>6, <1>7 DEF root

LEMMA FirstIndex ==
  ASSUME NEW v \in VPages
  PROVE  Index(v, 1) \in Idx
  <1>1. 1 \in 1 .. 4
    OBVIOUS
  <1>2. QED
    BY <1>1, PrefixStep

\* Writing the entry of one page changes the mapping of that page only.
LEMMA WriteEntry ==
  ASSUME NEW R \in [Domains -> Pages], NEW M \in [Domains -> [VPages -> Entry]],
         NEW d \in Domains, NEW v \in VPages, NEW m, NEW C \in Contents, NEW lab,
         Placed(lab, m, C, R), Shows(C, R, M), R[d] # NULL,
         NEW t \in Pages, lab[t] = At(d, v, 1), NEW pte \in Entry
  PROVE  LET C2 == [C EXCEPT ![t][Index(v, 1)] = pte] IN
         /\ C2 \in Contents /\ Placed(lab, m, C2, R)
         /\ Shows(C2, R, [M EXCEPT ![d][v] = pte])
  <1> DEFINE C2 == [C EXCEPT ![t][Index(v, 1)] = pte]
             M2 == [M EXCEPT ![d][v] = pte]
  <1>1. Index(v, 1) \in Idx
    BY FirstIndex
  <1>2. C2 \in Contents
    BY <1>1 DEF Contents
  <1>3. \A x \in Pages, j \in Idx :
          C2[x][j] = IF x = t /\ j = Index(v, 1) THEN pte ELSE C[x][j]
    BY <1>1 DEF Contents
  <1>4. SameAbove(lab, C, C2)
    <2>1. lab[t].level = 1
      BY DEF At
    <2>2. QED
      BY <2>1 DEF SameAbove, Contents
  <1>5. \A e \in Domains, w \in VPages :
          M2[e][w] = IF e = d /\ w = v THEN pte ELSE M[e][w]
    OBVIOUS
  <1> HIDE DEF C2, M2
  <1>6. Placed(lab, m, C2, R)
    BY <1>2, <1>4, PlacedKept DEF Placed
  <1>7. t # NULL
    BY DEF Placed, TablesKernel, At
  <1>8. R[d] \in Pages
    OBVIOUS
  <1>9. PtIn(C, R[d], v) = t
    BY <1>8, TableFound
  <1>10. ASSUME NEW e \in Domains, NEW w \in VPages
         PROVE  PteIn(C2, R[e], w) = M2[e][w]
    <2> DEFINE x == PtIn(C, R[e], w)
    <2>1. R[e] \in Pages /\ Index(w, 1) \in Idx
      BY FirstIndex
    <2>2. x \in Pages
      BY <2>1, PtPlaced
    <2>3. PtIn(C2, R[e], w) = x
      BY <1>2, <1>4, <2>1, WalkKept
    <2>4. PteIn(C, R[e], w) = M[e][w]
      BY DEF Shows
    <2>5. CASE e = d /\ w = v
      BY <1>1, <1>3, <1>5, <1>7, <1>9, <2>3, <2>5 DEF PteIn
    <2>6. CASE ~(e = d /\ w = v)
      <3>1. ~(x = t /\ Index(w, 1) = Index(v, 1))
        <4>1. ASSUME x = t, Index(w, 1) = Index(v, 1) PROVE d = e /\ v = w
          BY <1>7, <1>8, <1>9, <2>1, <4>1, EntriesApart
        <4>2. QED
          BY <2>6, <4>1
      <3> HIDE DEF x
      <3>2. C2[x][Index(w, 1)] = C[x][Index(w, 1)]
        BY <1>3, <2>1, <2>2, <3>1
      <3>3. PteIn(C2, R[e], w) = PteIn(C, R[e], w)
        BY <2>3, <3>2 DEF PteIn, x
      <3>4. QED
        BY <1>5, <2>4, <2>6, <3>3
    <2>7. QED
      BY <2>5, <2>6
  <1>11. Shows(C2, R, M2)
    BY <1>10 DEF Shows
  <1>12. QED
    BY <1>2, <1>6, <1>11 DEF C2, M2

\* Clearing the entries of some pages of a domain unmaps those pages only.
Cleared(C, root, S) ==
  [t \in Pages |-> [i \in Idx |->
     IF \E w \in S : PtIn(C, root, w) = t /\ t # NULL /\ Index(w, 1) = i
     THEN NoEntry ELSE C[t][i]]]
LEMMA ClearEntries ==
  ASSUME NEW R \in [Domains -> Pages], NEW M \in [Domains -> [VPages -> Entry]],
         NEW d \in Domains, NEW S \in SUBSET VPages, NEW m, NEW C \in Contents, NEW lab,
         Placed(lab, m, C, R), Shows(C, R, M),
         NEW M2 \in [Domains -> [VPages -> Entry]],
         \A e \in Domains, w \in VPages :
           M2[e][w] = IF e = d /\ w \in S THEN NoEntry ELSE M[e][w]
  PROVE  LET C2 == Cleared(C, R[d], S) IN
         C2 \in Contents /\ Placed(lab, m, C2, R) /\ Shows(C2, R, M2)
  <1> DEFINE C2 == Cleared(C, R[d], S)
             Hit(x, j) == \E w \in S : PtIn(C, R[d], w) = x /\ x # NULL /\ Index(w, 1) = j
  <1>1. \A x \in Pages, j \in Idx : C2[x][j] = IF Hit(x, j) THEN NoEntry ELSE C[x][j]
    BY DEF Cleared
  <1>2. C2 \in Contents
    <2>1. \A x \in Pages, j \in Idx : C[x][j] \in Entry
      BY DEF Contents
    <2>2. QED
      BY <2>1, ClearIsTable DEF Contents, Cleared
  <1> HIDE DEF C2
  <1>3. R[d] \in Pages
    OBVIOUS
  <1>4. SameAbove(lab, C, C2)
    <2> SUFFICES ASSUME NEW x \in Pages, lab[x].level > 1 PROVE C2[x] = C[x]
      BY DEF SameAbove
    <2>1. ASSUME NEW j \in Idx PROVE ~Hit(x, j)
      <3> SUFFICES ASSUME NEW w \in S, PtIn(C, R[d], w) = x, x # NULL PROVE FALSE
        OBVIOUS
      <3>1. w \in VPages
        OBVIOUS
      <3>2. PtIn(C, R[d], w) = NULL \/ lab[PtIn(C, R[d], w)] = At(d, w, 1)
        BY <1>3, <3>1, PtPlaced
      <3>3. lab[x].level = 1
        BY <3>2 DEF At
      <3>4. QED
        BY <3>3
    <2> HIDE DEF Hit
    <2>2. \A j \in Idx : C2[x][j] = C[x][j]
      BY <1>1, <2>1
    <2>3. C2[x] \in [Idx -> Entry] /\ C[x] \in [Idx -> Entry]
      BY <1>2 DEF Contents
    <2>4. QED
      BY <2>2, <2>3
  <1>5. Placed(lab, m, C2, R)
    BY <1>2, <1>4, PlacedKept DEF Placed
  <1>6. ASSUME NEW e \in Domains, NEW w \in VPages
        PROVE  PteIn(C2, R[e], w) = M2[e][w]
    <2> DEFINE x == PtIn(C, R[e], w)
    <2>1. R[e] \in Pages /\ Index(w, 1) \in Idx
      BY FirstIndex
    <2>2. x \in Pages
      BY <2>1, PtPlaced
    <2>3. PtIn(C2, R[e], w) = x
      BY <1>2, <1>4, <2>1, WalkKept
    <2>4. PteIn(C, R[e], w) = M[e][w]
      BY DEF Shows
    <2>5. CASE x = NULL
      <3>1. PteIn(C2, R[e], w) = NoEntry /\ PteIn(C, R[e], w) = NoEntry
        BY <2>3, <2>5 DEF PteIn
      <3>2. QED
        BY <2>4, <3>1
    <2>6. CASE x # NULL
      <3>1. Hit(x, Index(w, 1)) <=> e = d /\ w \in S
        <4>1. ASSUME Hit(x, Index(w, 1)) PROVE e = d /\ w \in S
          <5>1. PICK u \in S : PtIn(C, R[d], u) = x /\ Index(u, 1) = Index(w, 1)
            BY <4>1
          <5>2. u \in VPages
            OBVIOUS
          <5>3. d = e /\ u = w
            BY <1>3, <2>1, <2>6, <5>1, <5>2, EntriesApart
          <5>4. QED
            BY <5>3
        <4>2. ASSUME e = d, w \in S PROVE Hit(x, Index(w, 1))
          BY <2>6, <4>2
        <4>3. QED
          BY <4>1, <4>2
      <3> HIDE DEF Hit, x
      <3>2. PteIn(C2, R[e], w) = IF e = d /\ w \in S THEN NoEntry ELSE C[x][Index(w, 1)]
        BY <1>1, <2>1, <2>2, <2>3, <2>6, <3>1 DEF PteIn
      <3>3. C[x][Index(w, 1)] = M[e][w]
        BY <2>4, <2>6 DEF PteIn, x
      <3>4. QED
        BY <3>2, <3>3
    <2>7. QED
      BY <2>5, <2>6
  <1>7. QED
    BY <1>2, <1>5, <1>6 DEF Shows, C2

\* The tables of a domain lose their places when it loses its root.
Without(lab, d) == [t \in Pages |-> IF lab[t].domain = d THEN NoPlace ELSE lab[t]]
LEMMA DropDomain ==
  ASSUME NEW R, NEW R2, NEW d \in Domains, NEW m, NEW C \in Contents,
         NEW lab, Placed(lab, m, C, R),
         R2[d] = NULL, \A e \in Domains : e # d => R2[e] = R[e] /\ R[e] \in Pages
  PROVE  Placed(Without(lab, d), m, C, R2)
  <1> DEFINE lab2 == Without(lab, d)
  <1>1. lab \in [Pages -> Place] /\ NoPlace \in Place
    BY DEF Placed, NoPlace, Place
  <1>2. /\ lab2 \in [Pages -> Place]
        /\ \A t \in Pages : lab2[t] = IF lab[t].domain = d THEN NoPlace ELSE lab[t]
    BY <1>1 DEF Without
  <1> HIDE DEF lab2
  <1>3. \A t \in Pages : lab2[t].level > 0 => lab2[t] = lab[t] /\ lab[t].domain # d
    BY <1>2 DEF NoPlace
  <1>4. RootsPlaced(lab2, R2)
    <2> SUFFICES ASSUME NEW e \in Domains, R2[e] # NULL
                 PROVE  lab2[R2[e]] = [domain |-> e, level |-> 4, at |-> 0]
      BY DEF RootsPlaced
    <2>1. e # d /\ R2[e] = R[e] /\ R[e] \in Pages
      OBVIOUS
    <2>2. lab[R[e]] = [domain |-> e, level |-> 4, at |-> 0]
      BY <2>1 DEF Placed, RootsPlaced
    <2>3. lab[R[e]].domain # d
      BY <2>1, <2>2
    <2>4. QED
      BY <1>2, <2>1, <2>2, <2>3
  <1>5. TablesKernel(lab2, m)
    BY <1>3 DEF Placed, TablesKernel
  <1>6. LinksPlaced(lab2, C)
    <2> SUFFICES ASSUME NEW t \in Pages, NEW i \in Idx, lab2[t].level > 1, Present(C[t][i])
                 PROVE  lab2[C[t][i].addr] = Child(lab2[t], i)
      BY DEF LinksPlaced
    <2>1. lab2[t] = lab[t] /\ lab[t].domain # d
      BY <1>2, <1>3 DEF NoPlace
    <2>2. C[t][i].addr \in Pages
      BY DEF Contents, Entry
    <2>3. lab[C[t][i].addr] = Child(lab[t], i)
      BY <2>1 DEF Placed, LinksPlaced
    <2>4. lab[C[t][i].addr].domain # d
      BY <2>1, <2>3 DEF Child
    <2>5. QED
      BY <1>2, <2>1, <2>2, <2>3, <2>4
  <1>7. TablesLinked(lab2, C)
    <2> SUFFICES ASSUME NEW u \in Pages, lab2[u].level \in 1 .. 3
                 PROVE  \E t \in Pages, i \in Idx : /\ lab2[t].level = lab2[u].level + 1
                                /\ Present(C[t][i]) /\ C[t][i].addr = u
      BY DEF TablesLinked
    <2>1. lab2[u] = lab[u] /\ lab[u].domain # d
      BY <1>3
    <2>2. PICK t \in Pages, i \in Idx : /\ lab[t].level = lab[u].level + 1
                                        /\ Present(C[t][i]) /\ C[t][i].addr = u
      BY <2>1 DEF Placed, TablesLinked
    <2>3. lab[u] = Child(lab[t], i)
      BY <2>1, <2>2 DEF Placed, LinksPlaced
    <2>4. lab[t].domain # d
      BY <2>1, <2>3 DEF Child
    <2>5. QED
      BY <1>2, <2>1, <2>2, <2>4
  <1>8. PlacesUnique(lab2)
    BY <1>2, <1>3 DEF Placed, PlacesUnique
  <1>9. QED
    BY <1>2, <1>4, <1>5, <1>6, <1>7, <1>8 DEF Placed, lab2

\* A cleared frame becomes the root of a domain without tables.
LEMMA AddRoot ==
  ASSUME NEW R, NEW R2, NEW d \in Domains, NEW m, NEW C \in Contents,
         NEW lab, Placed(lab, m, C, R),
         NEW p \in Pages, p # NULL, lab[p].level = 0, m.frames[p].type = "KERNEL",
         \A j \in Idx : ~Present(C[p][j]),
         \A t \in Pages : lab[t].level > 0 => lab[t].domain # d,
         R2[d] = p, \A e \in Domains : e # d => R2[e] = R[e] /\ R[e] \in Pages
  PROVE  Placed([lab EXCEPT ![p] = [domain |-> d, level |-> 4, at |-> 0]], m, C, R2)
  <1> DEFINE l == [domain |-> d, level |-> 4, at |-> 0]
             lab2 == [lab EXCEPT ![p] = l]
  <1>1. lab \in [Pages -> Place]
    BY DEF Placed
  <1>2. l \in Place /\ l.domain = d /\ l.level = 4
    BY DEF Place
  <1> HIDE DEF l
  <1>3. /\ lab2 \in [Pages -> Place] /\ lab2[p] = l
        /\ \A t \in Pages : t # p => lab2[t] = lab[t]
    BY <1>1, <1>2
  <1> HIDE DEF lab2
  <1>4. RootsPlaced(lab2, R2)
    <2> SUFFICES ASSUME NEW e \in Domains, R2[e] # NULL
                 PROVE  lab2[R2[e]] = [domain |-> e, level |-> 4, at |-> 0]
      BY DEF RootsPlaced
    <2>1. CASE e = d
      BY <1>3, <2>1 DEF l
    <2>2. CASE e # d
      <3>1. R2[e] = R[e] /\ R[e] \in Pages
        BY <2>2
      <3>2. lab[R[e]] = [domain |-> e, level |-> 4, at |-> 0]
        BY <3>1 DEF Placed, RootsPlaced
      <3>3. R[e] # p
        BY <3>2
      <3>4. QED
        BY <1>3, <3>1, <3>2, <3>3
    <2>3. QED
      BY <2>1, <2>2
  <1>5. TablesKernel(lab2, m)
    BY <1>3 DEF Placed, TablesKernel
  <1>6. LinksPlaced(lab2, C)
    <2> SUFFICES ASSUME NEW t \in Pages, NEW i \in Idx, lab2[t].level > 1, Present(C[t][i])
                 PROVE  lab2[C[t][i].addr] = Child(lab2[t], i)
      BY DEF LinksPlaced
    <2>1. t # p /\ lab2[t] = lab[t] /\ lab[t].level \in 2 .. 4
      BY <1>3 DEF Place
    <2>2. C[t][i].addr \in Pages
      BY DEF Contents, Entry
    <2>3. lab[C[t][i].addr] = Child(lab[t], i)
      BY <2>1 DEF Placed, LinksPlaced
    <2>4. lab[C[t][i].addr].level > 0
      BY <2>1, <2>3 DEF Child
    <2>5. QED
      BY <1>3, <2>1, <2>2, <2>3, <2>4
  <1>7. TablesLinked(lab2, C)
    <2> SUFFICES ASSUME NEW u \in Pages, lab2[u].level \in 1 .. 3
                 PROVE  \E t \in Pages, i \in Idx : /\ lab2[t].level = lab2[u].level + 1
                                /\ Present(C[t][i]) /\ C[t][i].addr = u
      BY DEF TablesLinked
    <2>1. u # p /\ lab2[u] = lab[u]
      BY <1>2, <1>3
    <2>2. PICK t \in Pages, i \in Idx : /\ lab[t].level = lab[u].level + 1
                                        /\ Present(C[t][i]) /\ C[t][i].addr = u
      BY <2>1 DEF Placed, TablesLinked
    <2>3. t # p
      BY <2>2
    <2>4. QED
      BY <1>3, <2>1, <2>2, <2>3
  <1>8. PlacesUnique(lab2)
    <2>1. \A t \in Pages : lab[t].level > 0 => lab[t] # l
      BY <1>2
    <2>2. \A t \in Pages : lab[t] # l
      BY <1>2, <2>1
    <2>3. QED
      BY <1>3, <2>2 DEF Placed, PlacesUnique
  <1>9. QED
    BY <1>3, <1>4, <1>5, <1>6, <1>7, <1>8 DEF Placed, lab2, l

-----------------------------------------------------------------------------
(***************************************************************************)
(* The inductive invariant: there are places for the tables, what the      *)
(* tables say is what the calls add up to, the frames of code and data are *)
(* not tables, and calls and mappings are about such frames only.          *)
(***************************************************************************)
TreeInv == \E lab : Placed(lab, mm, content, pml4) /\ Shows(content, pml4, mapped)
DataFrames == \A p \in data : mm.frames[p].type = "APPLICATION"
CallsInData ==
  \A c \in CPUs : call[c].n > 0 =>
    call[c].domain \in Domains /\ Run(call[c].p, call[c].n) \subseteq data
MappedData ==
  \A d \in Domains, v \in VPages : Present(mapped[d][v]) => mapped[d][v].addr \in data
NoRootsYet == creates = 0 => \A d \in Domains : pml4[d] = NULL
SpaceInv ==
  TypeOK /\ TreeInv /\ DataFrames /\ CallsInData /\ MappedData /\ NoRootsYet

\* Without roots there are no tables.
NoTables == [t \in Pages |-> NoPlace]
LEMMA NoTablesPlaced ==
  ASSUME NEW m, NEW C, NEW R, \A d \in Domains : R[d] = NULL
  PROVE  Placed(NoTables, m, C, R)
  <1>1. NoPlace \in Place
    BY DEF NoPlace, Place
  <1>2. NoTables \in [Pages -> Place] /\ \A t \in Pages : NoTables[t].level = 0
    BY <1>1 DEF NoTables, NoPlace
  <1> HIDE DEF NoTables
  <1>3. QED
    BY <1>2 DEF Placed, RootsPlaced, TablesKernel, LinksPlaced, TablesLinked, PlacesUnique

\* A domain without a root maps nothing.
LEMMA NoRootShows ==
  ASSUME NEW C, NEW v
  PROVE  PteIn(C, NULL, v) = NoEntry
  BY DEF PteIn, PtIn, BelowIn

LEMMA VPagesWrap ==
  ASSUME NEW x \in Nat
  PROVE  x % (N * N * N * N) \in VPages
  <1>1. N * N * N * N \in Nat \ {0}
    BY SpaceConstants
  <1>2. QED
    BY <1>1 DEF VPages

LEMMA UnmappedTyped ==
  /\ Unmapped \in [VPages -> Entry] /\ \A v \in VPages : Unmapped[v] = NoEntry
  BY ClearIsTable DEF Unmapped

LEMMA InitSpaces == Init => SpaceInv
  <1> SUFFICES ASSUME Init PROVE SpaceInv
    OBVIOUS
  <1>1. TypeOK
    <2>1. mm \in State
      BY mm_initTyped DEF Init
    <2>2. content \in [Pages -> [Idx -> Entry]]
      BY ClearIsTable DEF Init
    <2>3. pml4 \in [Domains -> Pages]
      BY NullIsPage DEF Init
    <2>4. 0 \in VPages /\ 0 \in Pages /\ 0 \in 0 .. MaxPages
      <3>1. 0 \in VPages
        <4>1. 0 % (N * N * N * N) \in VPages /\ N * N * N * N \in Nat \ {0}
          BY VPagesWrap, SpaceConstants
        <4>2. QED
          BY <4>1
      <3>2. QED
        BY <3>1, NullIsPage, MmConstants DEF NULL
    <2>5. call \in [CPUs -> [domain: Domains \cup {0}, v: VPages, p: Pages,
                             n: 0 .. MaxPages, flags: SUBSET {"P", "W", "U"}]]
      BY <2>4 DEF Init, NoCall
    <2>6. data \subseteq Pages /\ creates \in 0 .. MaxCreates
      BY SpaceConstants DEF Init
    <2>7. mapped \in [Domains -> [VPages -> Entry]]
      BY UnmappedTyped DEF Init
    <2>8. QED
      BY <2>1, <2>2, <2>3, <2>5, <2>6, <2>7 DEF TypeOK
  <1>2. \A d \in Domains : pml4[d] = NULL
    BY DEF Init
  <1>3. TreeInv
    <2>1. Placed(NoTables, mm, content, pml4)
      BY <1>2, NoTablesPlaced
    <2>2. Shows(content, pml4, mapped)
      BY <1>2, NoRootShows, UnmappedTyped DEF Shows, Init
    <2>3. QED
      BY <2>1, <2>2 DEF TreeInv
  <1>4. DataFrames /\ NoRootsYet
    BY <1>2 DEF DataFrames, NoRootsYet, Init
  <1>5. CallsInData
    BY DEF CallsInData, Init, NoCall
  <1>6. MappedData
    BY UnmappedTyped DEF MappedData, Init, NoEntry, Present
  <1>7. QED
    BY <1>1, <1>3, <1>4, <1>5, <1>6 DEF SpaceInv

LEMMA AddMemoryStep ==
  ASSUME SpaceInv, NEW start \in BootPages, AddMemory(start)
  PROVE  SpaceInv'
  <1>1. start \in Nat /\ total_pages - start \in Nat
    BY SpaceConstants, MmConstants DEF Pages
  <1>2. mm \in State /\ "AVAILABLE" \in MemTypes /\ 0 \in Owners
    BY MmConstants DEF SpaceInv, TypeOK, MemTypes
  <1>3. mm' \in State
    BY <1>1, <1>2, mm_reserveTyped DEF AddMemory
  <1>4. TypeOK'
    BY <1>3 DEF SpaceInv, TypeOK, AddMemory
  <1>5. \A d \in Domains : pml4'[d] = NULL
    BY DEF SpaceInv, NoRootsYet, AddMemory
  <1>6. TreeInv'
    <2>1. Placed(NoTables, mm', content', pml4')
      BY <1>5, NoTablesPlaced
    <2>2. Shows(content', pml4', mapped')
      BY DEF SpaceInv, TreeInv, AddMemory
    <2>3. QED
      BY <2>1, <2>2 DEF TreeInv
  <1>7. DataFrames' /\ CallsInData' /\ MappedData' /\ NoRootsYet'
    BY DEF SpaceInv, DataFrames, CallsInData, MappedData, NoRootsYet, AddMemory
  <1>8. QED
    BY <1>4, <1>6, <1>7 DEF SpaceInv

LEMMA AllocDataStep ==
  ASSUME SpaceInv, NEW n \in 1 .. MaxPages, AllocData(n)
  PROVE  SpaceInv'
  <1>1. PICK s \in FirstFit(mm, n, 1) :
          /\ mm' = mm_alloc(mm, s, n, "APPLICATION", 0)
          /\ data' = IF s = 0 THEN {} ELSE Run(s, n)
    BY DEF AllocData
  <1>2. /\ data = {}
        /\ UNCHANGED <<content, pml4, call, mapped, creates>>
    BY DEF AllocData
  <1>3. /\ s \in Pages /\ s \in Int /\ Run(s, n) \subseteq Available(mm)
        /\ Run(s, n) \subseteq Pages
    BY DEF FirstFit, Candidates, Available, Pages
  <1>4. mm \in State /\ "APPLICATION" \in MemTypes /\ 0 \in Owners /\ n \in Nat
    BY SpaceConstants, MmConstants DEF SpaceInv, TypeOK, MemTypes
  <1>5. mm' \in State /\ mm'.frames = SetFrames(mm, Run(s, n), "APPLICATION", 0)
    BY <1>1, <1>3, <1>4, mm_allocTyped
  <1>6. \A x \in Pages : mm'.frames[x] =
          IF x \in Run(s, n) THEN [type |-> "APPLICATION", owner |-> 0] ELSE mm.frames[x]
    BY <1>4, <1>5, SetFramesTyped
  <1>7. Keeps(mm, mm')
    BY <1>3, <1>6 DEF Keeps, Available
  <1>8. data' \subseteq Pages /\ data \subseteq data'
    BY <1>1, <1>2, <1>3
  <1>9. TypeOK'
    BY <1>2, <1>5, <1>8 DEF SpaceInv, TypeOK
  <1>10. TreeInv'
    <2>1. PICK lab : Placed(lab, mm, content, pml4) /\ Shows(content, pml4, mapped)
      BY DEF SpaceInv, TreeInv
    <2>2. TablesKernel(lab, mm')
      BY <1>7, <2>1, PlacedKeeps DEF Placed
    <2>3. content \in Contents /\ SameAbove(lab, content, content)
      BY DEF SpaceInv, TypeOK, Contents, SameAbove
    <2>4. Placed(lab, mm', content, pml4)
      BY <2>1, <2>2, <2>3, PlacedKept
    <2>5. Placed(lab, mm', content', pml4') /\ Shows(content', pml4', mapped')
      BY <1>2, <2>1, <2>4
    <2>6. QED
      BY <2>5 DEF TreeInv
  <1>11. DataFrames'
    <2> SUFFICES ASSUME NEW p \in data' PROVE mm'.frames[p].type = "APPLICATION"
      BY DEF DataFrames
    <2>1. p \in Run(s, n) /\ p \in Pages
      BY <1>1, <1>3
    <2>2. QED
      BY <1>6, <2>1
  <1>12. CallsInData' /\ MappedData' /\ NoRootsYet'
    BY <1>2, <1>8 DEF SpaceInv, CallsInData, MappedData, NoRootsYet
  <1>13. QED
    BY <1>9, <1>10, <1>11, <1>12 DEF SpaceInv

LEMMA CreateStep ==
  ASSUME SpaceInv, NEW d \in Domains, isolation_create_page_tables(d)
  PROVE  SpaceInv'
  <1> DEFINE new == pt_alloc_page_table(mm, content)
  <1>1. /\ mm \in State /\ content \in Contents /\ pml4 \in [Domains -> Pages]
        /\ mapped \in [Domains -> [VPages -> Entry]]
    BY DEF SpaceInv, TypeOK, Contents
  <1>2. TableTaken(mm, content, new)
    BY <1>1, AllocTable
  <1> DEFINE p == new.table
  <1>3. /\ mm' = new.mm /\ content' = new.content /\ creates' = creates + 1
        /\ creates < MaxCreates /\ call' = call /\ data' = data
        /\ p = NULL => pml4' = pml4 /\ mapped' = mapped
        /\ p # NULL => /\ pml4' = [pml4 EXCEPT ![d] = p]
                       /\ mapped' = [mapped EXCEPT ![d] = Unmapped]
    BY DEF isolation_create_page_tables
  <1> HIDE DEF new
  <1>4. p \in Pages /\ mm' \in State /\ content' \in Contents /\ Keeps(mm, mm')
    BY <1>2, <1>3 DEF TableTaken, Walk
  <1>5. pml4' \in [Domains -> Pages] /\ mapped' \in [Domains -> [VPages -> Entry]]
    BY <1>1, <1>3, <1>4, UnmappedTyped
  <1>6. creates' \in 0 .. MaxCreates /\ creates' # 0
    BY <1>3, SpaceConstants DEF SpaceInv, TypeOK
  <1>7. TypeOK'
    BY <1>3, <1>4, <1>5, <1>6 DEF SpaceInv, TypeOK, Contents
  <1>8. TreeInv'
    <2>1. PICK lab : Placed(lab, mm, content, pml4) /\ Shows(content, pml4, mapped)
      BY DEF SpaceInv, TreeInv
    <2>2. lab \in [Pages -> Place] /\ TablesKernel(lab, mm)
      BY <2>1 DEF Placed
    <2>3. TablesKernel(lab, mm')
      BY <1>4, <2>2, PlacedKeeps
    <2>4. CASE p = NULL
      <3>1. content' = content /\ pml4' = pml4 /\ mapped' = mapped
        BY <1>2, <1>3, <2>4 DEF TableTaken
      <3>2. SameAbove(lab, content, content)
        BY DEF SameAbove
      <3>3. Placed(lab, mm', content, pml4)
        BY <1>1, <2>1, <2>3, <3>2, PlacedKept
      <3>4. QED
        BY <2>1, <3>1, <3>3 DEF TreeInv
    <2>5. CASE p # NULL
      <3> HIDE DEF p
      <3>1. /\ mm.frames[p].type = "AVAILABLE" /\ mm'.frames[p].type = "KERNEL"
            /\ content' = [content EXCEPT ![p] = ClearTable]
        BY <1>2, <1>3, <2>5 DEF TableTaken, p
      <3>2. lab[p].level = 0
        BY <1>4, <2>2, <3>1, AvailableFree
      <3>3. /\ \A t \in Pages : t # p => content'[t] = content[t]
            /\ content'[p] = ClearTable
        BY <1>1, <1>4, <3>1 DEF Contents
      <3>4. SameAbove(lab, content, content')
        BY <3>2, <3>3 DEF SameAbove
      <3>5. Placed(lab, mm', content', pml4)
        BY <1>1, <1>4, <2>1, <2>3, <3>4, PlacedKept
      <3> DEFINE R == [pml4 EXCEPT ![d] = NULL]
                 lab2 == Without(lab, d)
      <3>6. R[d] = NULL /\ \A e \in Domains : e # d => R[e] = pml4[e] /\ pml4[e] \in Pages
        BY <1>1
      <3>7. Placed(lab2, mm', content', R)
        <4> HIDE DEF R
        <4> QED
          BY <1>4, <3>5, <3>6, DropDomain
      <3>8. /\ lab2[p].level = 0
            /\ \A t \in Pages : lab2[t].level > 0 => lab2[t].domain # d
        BY <1>4, <3>2 DEF Without, NoPlace
      <3>9. \A j \in Idx : ~Present(content'[p][j])
        BY <3>3 DEF ClearTable, NoEntry, Present
      <3>10. pml4'[d] = p /\ \A e \in Domains : e # d => pml4'[e] = R[e] /\ R[e] \in Pages
        BY <1>1, <1>3, <2>5, <3>6
      <3> DEFINE lab3 == [lab2 EXCEPT ![p] = [domain |-> d, level |-> 4, at |-> 0]]
      <3>11. Placed(lab3, mm', content', pml4')
        <4> HIDE DEF lab2, R
        <4> QED
          BY <1>4, <2>5, <3>1, <3>7, <3>8, <3>9, <3>10, AddRoot
      <3>12. ASSUME NEW e \in Domains, NEW v \in VPages
             PROVE  PteIn(content', pml4'[e], v) = mapped'[e][v]
        <4>1. CASE e = d
          <5>1. pml4'[e] = p /\ mapped'[e][v] = NoEntry
            BY <1>1, <1>3, <2>5, <3>10, <4>1, UnmappedTyped
          <5>2. Index(v, 4) \in Idx
            <6>1. 4 \in 1 .. 4
              OBVIOUS
            <6>2. QED
              BY <6>1, PrefixStep
          <5>3. BelowIn(content', p, v, 4) = NULL
            BY <3>9, <5>2 DEF BelowIn
          <5>4. PtIn(content', p, v) = NULL
            BY <5>3 DEF PtIn, BelowIn
          <5>5. QED
            BY <5>1, <5>4 DEF PteIn
        <4>2. CASE e # d
          <5>1. pml4'[e] = pml4[e] /\ mapped'[e][v] = mapped[e][v] /\ pml4[e] \in Pages
            BY <1>1, <1>3, <2>5, <4>2
          <5>2. PtIn(content', pml4[e], v) = PtIn(content, pml4[e], v)
            BY <1>1, <1>4, <2>1, <3>4, <5>1, WalkKept
          <5> DEFINE x == PtIn(content, pml4[e], v)
          <5>3. x \in Pages /\ (x = NULL \/ lab[x] = At(e, v, 1))
            BY <1>1, <2>1, <5>1, PtPlaced
          <5> HIDE DEF x
          <5>4. x = NULL \/ content'[x] = content[x]
            BY <3>2, <3>3, <5>3 DEF At
          <5>5. PteIn(content', pml4[e], v) = PteIn(content, pml4[e], v)
            BY <5>2, <5>4 DEF PteIn, x
          <5>6. QED
            BY <2>1, <5>1, <5>5 DEF Shows
        <4>3. QED
          BY <4>1, <4>2
      <3>13. Shows(content', pml4', mapped')
        BY <3>12 DEF Shows
      <3> HIDE DEF lab3
      <3>14. QED
        BY <3>11, <3>13 DEF TreeInv
    <2>6. QED
      BY <2>4, <2>5
  <1>9. DataFrames'
    <2> SUFFICES ASSUME NEW q \in data PROVE mm'.frames[q].type = "APPLICATION"
      BY <1>3 DEF DataFrames
    <2>1. q \in Pages /\ mm.frames[q].type = "APPLICATION"
      BY DEF SpaceInv, TypeOK, DataFrames
    <2>2. QED
      BY <1>4, <2>1 DEF Keeps
  <1>10. CallsInData' /\ NoRootsYet'
    BY <1>3, <1>6 DEF SpaceInv, CallsInData, NoRootsYet
  <1>11. MappedData'
    <2> SUFFICES ASSUME NEW e \in Domains, NEW v \in VPages, Present(mapped'[e][v])
                 PROVE  mapped'[e][v].addr \in data'
      BY DEF MappedData
    <2>1. ~Present(NoEntry)
      BY DEF NoEntry, Present
    <2>2. mapped'[e][v] = mapped[e][v]
      BY <1>1, <1>3, <2>1, UnmappedTyped
    <2>3. QED
      BY <1>3, <2>2 DEF SpaceInv, MappedData
  <1>12. QED
    BY <1>7, <1>8, <1>9, <1>10, <1>11 DEF SpaceInv

LEMMA DestroyStep ==
  ASSUME SpaceInv, NEW d \in Domains, isolation_destroy_page_tables(d)
  PROVE  SpaceInv'
  <1>1. /\ mm \in State /\ content \in Contents /\ pml4 \in [Domains -> Pages]
        /\ mapped \in [Domains -> [VPages -> Entry]]
    BY DEF SpaceInv, TypeOK, Contents
  <1>2. /\ mm' = mm_free(mm, pml4[d]) /\ pml4' = [pml4 EXCEPT ![d] = NULL]
        /\ mapped' = [mapped EXCEPT ![d] = Unmapped] /\ pml4[d] # NULL
        /\ UNCHANGED <<content, call, data, creates>>
    BY DEF isolation_destroy_page_tables
  <1>3. mm' \in State /\ mm'.frames = SetFrames(mm, {pml4[d]}, "AVAILABLE", 0)
    BY <1>1, <1>2, mm_freeTyped
  <1>4. \A x \in Pages : x # pml4[d] => mm'.frames[x] = mm.frames[x]
    BY <1>3 DEF SetFrames
  <1>5. TypeOK'
    BY <1>1, <1>2, <1>3, UnmappedTyped, NullIsPage DEF SpaceInv, TypeOK
  <1>6. PICK lab : Placed(lab, mm, content, pml4) /\ Shows(content, pml4, mapped)
    BY DEF SpaceInv, TreeInv
  <1>7. lab[pml4[d]] = [domain |-> d, level |-> 4, at |-> 0]
    BY <1>2, <1>6 DEF Placed, RootsPlaced
  <1>8. mm.frames[pml4[d]].type = "KERNEL"
    BY <1>1, <1>6, <1>7 DEF Placed, TablesKernel
  <1>9. TreeInv'
    <2> DEFINE lab2 == Without(lab, d)
    <2>1. pml4'[d] = NULL /\ \A e \in Domains : e # d => pml4'[e] = pml4[e] /\ pml4[e] \in Pages
      BY <1>1, <1>2
    <2>2. Placed(lab2, mm, content, pml4')
      BY <1>1, <1>6, <2>1, DropDomain
    <2>3. TablesKernel(lab2, mm')
      <3>1. lab2[pml4[d]].level = 0
        BY <1>1, <1>7 DEF Without, NoPlace
      <3> HIDE DEF lab2
      <3>2. QED
        BY <1>4, <2>2, <3>1 DEF Placed, TablesKernel
    <2>4. SameAbove(lab2, content, content)
      BY DEF SameAbove
    <2> HIDE DEF lab2
    <2>5. Placed(lab2, mm', content, pml4')
      BY <1>1, <2>2, <2>3, <2>4, PlacedKept
    <2>6. Shows(content, pml4', mapped')
      <3> SUFFICES ASSUME NEW e \in Domains, NEW v \in VPages
                   PROVE  PteIn(content, pml4'[e], v) = mapped'[e][v]
        BY DEF Shows
      <3>1. CASE e = d
        BY <1>1, <1>2, <2>1, <3>1, NoRootShows, UnmappedTyped
      <3>2. CASE e # d
        BY <1>1, <1>2, <1>6, <2>1, <3>2 DEF Shows
      <3>3. QED
        BY <3>1, <3>2
    <2>7. Placed(lab2, mm', content', pml4') /\ Shows(content', pml4', mapped')
      BY <1>2, <2>5, <2>6
    <2>8. QED
      BY <2>7 DEF TreeInv
  <1>10. DataFrames'
    <2> SUFFICES ASSUME NEW q \in data PROVE mm'.frames[q].type = "APPLICATION"
      BY <1>2 DEF DataFrames
    <2>1. q \in Pages /\ mm.frames[q].type = "APPLICATION"
      BY DEF SpaceInv, TypeOK, DataFrames
    <2>2. QED
      BY <1>4, <1>8, <2>1
  <1>11. CallsInData' /\ NoRootsYet'
    BY <1>1, <1>2 DEF SpaceInv, CallsInData, NoRootsYet
  <1>12. MappedData'
    <2> SUFFICES ASSUME NEW e \in Domains, NEW v \in VPages, Present(mapped'[e][v])
                 PROVE  mapped'[e][v].addr \in data'
      BY DEF MappedData
    <2>1. ~Present(NoEntry)
      BY DEF NoEntry, Present
    <2>2. mapped'[e][v] = mapped[e][v]
      BY <1>1, <1>2, <2>1, UnmappedTyped
    <2>3. QED
      BY <1>2, <2>2 DEF SpaceInv, MappedData
  <1>13. QED
    BY <1>5, <1>9, <1>10, <1>11, <1>12 DEF SpaceInv

LEMMA MapCallStep ==
  ASSUME SpaceInv, NEW c \in CPUs, NEW d \in Domains, NEW v \in Starts,
         NEW n \in 1 .. MaxPages, NEW type \in MapTypes, NEW p \in data,
         Run(p, n) \subseteq data, isolation_map_memory(c, d, v, p, n, type)
  PROVE  SpaceInv'
  <1> DEFINE new == [domain |-> d, v |-> v, p |-> p, n |-> n, flags |-> PtFlags(type)]
             Calls == [domain: Domains \cup {0}, v: VPages, p: Pages,
                       n: 0 .. MaxPages, flags: SUBSET {"P", "W", "U"}]
  <1>1. /\ call' = [call EXCEPT ![c] = new]
        /\ UNCHANGED <<mm, content, pml4, data, mapped, creates>>
    BY DEF isolation_map_memory
  <1>2. PtFlags(type) \in SUBSET {"P", "W", "U"}
    BY DEF PtFlags
  <1>3. v \in VPages /\ p \in Pages /\ n \in 0 .. MaxPages /\ call \in [CPUs -> Calls]
    BY SpaceConstants, MmConstants DEF SpaceInv, TypeOK, VPages
  <1>4. new \in Calls
    BY <1>2, <1>3
  <1>5. call' \in [CPUs -> Calls]
    <2> HIDE DEF new, Calls
    <2> QED
      BY <1>1, <1>3, <1>4
  <1>6. TypeOK'
    BY <1>1, <1>5 DEF SpaceInv, TypeOK
  <1>7. TreeInv'
    BY <1>1 DEF SpaceInv, TreeInv
  <1>8. DataFrames' /\ MappedData' /\ NoRootsYet'
    BY <1>1 DEF SpaceInv, DataFrames, MappedData, NoRootsYet
  <1>9. CallsInData'
    <2> SUFFICES ASSUME NEW b \in CPUs, call'[b].n > 0
                 PROVE  /\ call'[b].domain \in Domains
                        /\ Run(call'[b].p, call'[b].n) \subseteq data'
      BY DEF CallsInData
    <2>1. CASE b = c
      BY <1>1, <1>3, <2>1
    <2>2. CASE b # c
      BY <1>1, <1>3, <2>2 DEF SpaceInv, CallsInData
    <2>3. QED
      BY <2>1, <2>2
  <1>10. QED
    BY <1>6, <1>7, <1>8, <1>9 DEF SpaceInv

LEMMA UnmapStep ==
  ASSUME SpaceInv, NEW d \in Domains, NEW v \in Starts, NEW n \in 1 .. MaxPages,
         isolation_unmap_memory(d, v, n)
  PROVE  SpaceInv'
  <1> DEFINE S == VRange(v, n)
  <1>1. /\ mm \in State /\ content \in Contents /\ pml4 \in [Domains -> Pages]
        /\ mapped \in [Domains -> [VPages -> Entry]]
    BY DEF SpaceInv, TypeOK, Contents
  <1>2. /\ mapped' = [mapped EXCEPT ![d] =
                        [w \in VPages |-> IF w \in S THEN NoEntry ELSE mapped[d][w]]]
        /\ UNCHANGED <<mm, pml4, call, data, creates>>
    BY <1>1 DEF isolation_unmap_memory
  <1>3. content' = Cleared(content, pml4[d], S)
    BY DEF isolation_unmap_memory, Cleared, PtOf, PtIn, Below, BelowIn
  <1>4. S \in SUBSET VPages
    <2>1. \A i \in 0 .. n - 1 : v + i \in Nat
      BY SpaceConstants
    <2>2. QED
      BY <2>1, VPagesWrap DEF VRange
  <1> HIDE DEF S
  <1>5. mapped' \in [Domains -> [VPages -> Entry]]
    BY <1>1, <1>2, ClearIsTable
  <1>6. \A e \in Domains, w \in VPages :
          mapped'[e][w] = IF e = d /\ w \in S THEN NoEntry ELSE mapped[e][w]
    BY <1>1, <1>2
  <1>7. PICK lab : Placed(lab, mm, content, pml4) /\ Shows(content, pml4, mapped)
    BY DEF SpaceInv, TreeInv
  <1> DEFINE C2 == Cleared(content, pml4[d], S)
  <1>8. C2 \in Contents /\ Placed(lab, mm, C2, pml4) /\ Shows(C2, pml4, mapped')
    BY <1>1, <1>4, <1>5, <1>6, <1>7, ClearEntries
  <1>9. content' \in Contents /\ TreeInv'
    <2> HIDE DEF C2
    <2>1. content' = C2
      BY <1>3 DEF C2
    <2>2. QED
      BY <1>2, <1>8, <2>1 DEF TreeInv
  <1>10. TypeOK'
    BY <1>2, <1>5, <1>9 DEF SpaceInv, TypeOK, Contents
  <1>11. DataFrames' /\ CallsInData' /\ NoRootsYet'
    BY <1>2 DEF SpaceInv, DataFrames, CallsInData, NoRootsYet
  <1>12. MappedData'
    BY <1>2, <1>6 DEF SpaceInv, MappedData, NoEntry, Present
  <1>13. QED
    BY <1>9, <1>10, <1>11, <1>12 DEF SpaceInv

LEMMA MapPageStep ==
  ASSUME SpaceInv, NEW c \in CPUs, MapPage(c)
  PROVE  SpaceInv'
  <1> DEFINE d == call[c].domain
             v == call[c].v
             root == [table |-> pml4[d], mm |-> mm, content |-> content]
             walk == GetOrCreate(GetOrCreate(GetOrCreate(root, v, 4), v, 3), v, 2)
             pte == [addr |-> call[c].p, flags |-> call[c].flags]
             Calls == [domain: Domains \cup {0}, v: VPages, p: Pages,
                       n: 0 .. MaxPages, flags: SUBSET {"P", "W", "U"}]
             further == RestOfCall(call[c])
  <1>1. /\ mm \in State /\ content \in Contents /\ pml4 \in [Domains -> Pages]
        /\ mapped \in [Domains -> [VPages -> Entry]] /\ call \in [CPUs -> Calls]
        /\ data \subseteq Pages
    BY DEF SpaceInv, TypeOK, Contents
  <1>2. call[c] \in Calls /\ call[c].n \in Nat /\ call[c].n > 0 /\ call[c].p \in Int
    <2>1. call[c] \in Calls /\ call[c].n # 0
      BY <1>1 DEF MapPage, Idle
    <2>2. QED
      BY <2>1, MmConstants DEF Pages
  <1>3. d \in Domains /\ v \in VPages /\ Run(call[c].p, call[c].n) \subseteq data
    BY <1>2 DEF SpaceInv, CallsInData
  <1>4. call[c].p \in data /\ pte \in Entry
    <2>1. call[c].p \in Run(call[c].p, call[c].n)
      BY <1>2 DEF Run
    <2>2. call[c].p \in data /\ call[c].p \in Pages
      BY <1>1, <1>3, <2>1
    <2>3. QED
      BY <1>2, <2>2 DEF Entry
  <1>5. /\ mm' = walk.mm /\ UNCHANGED <<pml4, data, creates>>
        /\ walk.table = NULL => /\ content' = walk.content /\ mapped' = mapped
                                /\ call' = [call EXCEPT ![c] = NoCall]
        /\ walk.table # NULL =>
             /\ content' = [walk.content EXCEPT ![walk.table][Index(v, 1)] = pte]
             /\ mapped' = [mapped EXCEPT ![d][v] = pte]
             /\ call' = [call EXCEPT ![c] = further]
    <2>1. mm' = walk.mm /\ UNCHANGED <<pml4, data, creates>>
      BY DEF MapPage
    <2>2. walk.table = NULL => /\ content' = walk.content /\ mapped' = mapped
                               /\ call' = [call EXCEPT ![c] = NoCall]
      BY DEF MapPage
    <2>3. walk.table # NULL =>
            /\ content' = [walk.content EXCEPT ![walk.table][Index(v, 1)] = pte]
            /\ mapped' = [mapped EXCEPT ![d][v] = pte]
      BY DEF MapPage
    <2>4. walk.table # NULL =>
            call' = [call EXCEPT ![c] = further]
      BY DEF MapPage
    <2> HIDE DEF walk, further
    <2>5. QED
      BY <2>1, <2>2, <2>3, <2>4
  <1>6. PICK lab0 : Placed(lab0, mm, content, pml4) /\ Shows(content, pml4, mapped)
    BY DEF SpaceInv, TreeInv
  <1>7. /\ Keeps(mm, walk.mm)
        /\ pml4[d] = NULL => walk.table = NULL
        /\ \E lab : WalkGood(walk, lab, pml4, mapped, d, v, 1)
    <2> HIDE DEF d, v
    <2> QED
      BY <1>1, <1>3, <1>6, WholeWalk
  <1> HIDE DEF walk
  <1>8. PICK lab : WalkGood(walk, lab, pml4, mapped, d, v, 1)
    BY <1>7
  <1>9. /\ walk.table \in Pages /\ walk.mm \in State /\ walk.content \in Contents
        /\ Placed(lab, walk.mm, walk.content, pml4) /\ Shows(walk.content, pml4, mapped)
        /\ walk.table = NULL \/ lab[walk.table] = At(d, v, 1)
    BY <1>8 DEF WalkGood, Walk
  <1>10. content' \in Contents /\ TreeInv'
    <2>1. CASE walk.table = NULL
      BY <1>5, <1>9, <2>1 DEF TreeInv
    <2>2. CASE walk.table # NULL
      <3> DEFINE C2 == [walk.content EXCEPT ![walk.table][Index(v, 1)] = pte]
                 M2 == [mapped EXCEPT ![d][v] = pte]
      <3>1. pml4[d] # NULL /\ lab[walk.table] = At(d, v, 1)
        BY <1>7, <1>9, <2>2
      <3> HIDE DEF d, v, pte
      <3>2. C2 \in Contents /\ Placed(lab, walk.mm, C2, pml4) /\ Shows(C2, pml4, M2)
        BY <1>1, <1>3, <1>4, <1>9, <3>1, WriteEntry
      <3>3. content' = C2 /\ mapped' = M2 /\ mm' = walk.mm /\ pml4' = pml4
        BY <1>5, <2>2
      <3> HIDE DEF C2, M2
      <3>4. QED
        BY <3>2, <3>3 DEF TreeInv
    <2>3. QED
      BY <2>1, <2>2
  <1>11. mapped' \in [Domains -> [VPages -> Entry]]
    <2>1. mapped' = mapped \/ mapped' = [mapped EXCEPT ![d][v] = pte]
      BY <1>5
    <2>2. ASSUME NEW M \in [Domains -> [VPages -> Entry]], NEW e \in Domains,
                 NEW w \in VPages, NEW x \in Entry
          PROVE  [M EXCEPT ![e][w] = x] \in [Domains -> [VPages -> Entry]]
      OBVIOUS
    <2> HIDE DEF d, v, pte
    <2>3. [mapped EXCEPT ![d][v] = pte] \in [Domains -> [VPages -> Entry]]
      BY <1>1, <1>3, <1>4, <2>2
    <2>4. QED
      BY <1>1, <2>1, <2>3
  <1>12. NoCall \in Calls /\ NoCall.n = 0
    <2>1. 0 \in VPages
      <3>1. 0 % (N * N * N * N) \in VPages /\ N * N * N * N \in Nat \ {0}
        BY VPagesWrap, SpaceConstants
      <3>2. QED
        BY <3>1
    <2>2. QED
      BY <2>1, NullIsPage, MmConstants DEF NoCall, NULL
  <1>13. ASSUME call[c].n # 1
         PROVE  /\ further \in Calls /\ further.domain = d
                /\ Run(further.p, further.n) \subseteq Run(call[c].p, call[c].n)
    <2>1. (call[c].v + 1) % (N * N * N * N) \in VPages
      <3>1. call[c].v + 1 \in Nat
        BY <1>3, SpaceConstants DEF VPages
      <3>2. QED
        BY <3>1, VPagesWrap
    <2>2. call[c].p + 1 \in Pages
      <3>1. call[c].p + 1 \in Run(call[c].p, call[c].n)
        BY <1>2, <1>13 DEF Run
      <3>2. QED
        BY <1>1, <1>3, <3>1
    <2>3. call[c].n - 1 \in 0 .. MaxPages
      BY <1>2, MmConstants
    <2>4. further = [domain |-> call[c].domain, v |-> (call[c].v + 1) % (N * N * N * N),
                     p |-> call[c].p + 1, n |-> call[c].n - 1, flags |-> call[c].flags]
      BY <1>13 DEF RestOfCall
    <2>5. Run(call[c].p + 1, call[c].n - 1) \subseteq Run(call[c].p, call[c].n)
      BY <1>2 DEF Run
    <2>6. QED
      BY <1>2, <2>1, <2>2, <2>3, <2>4, <2>5
  <1>14. PICK next \in Calls :
           /\ call' = [call EXCEPT ![c] = next]
           /\ next.n > 0 => /\ next.domain \in Domains
                            /\ Run(next.p, next.n) \subseteq data
    <2>1. CASE walk.table # NULL /\ call[c].n # 1
      <3>1. further \in Calls /\ further.domain \in Domains
            /\ Run(further.p, further.n) \subseteq data
        BY <1>3, <1>13, <2>1
      <3> HIDE DEF further, Calls
      <3>2. QED
        BY <1>5, <2>1, <3>1
    <2>2. CASE walk.table = NULL \/ call[c].n = 1
      <3>1. call' = [call EXCEPT ![c] = NoCall]
        BY <1>5, <2>2 DEF RestOfCall
      <3>2. NoCall.n > 0 => FALSE
        BY <1>12
      <3> HIDE DEF Calls
      <3>3. QED
        BY <1>12, <3>1, <3>2
    <2>3. QED
      BY <2>1, <2>2
  <1>15. call' \in [CPUs -> Calls]
    <2> HIDE DEF Calls
    <2> QED
      BY <1>1, <1>14
  <1>16. TypeOK'
    BY <1>5, <1>9, <1>10, <1>11, <1>15 DEF SpaceInv, TypeOK, Contents
  <1>17. DataFrames'
    <2> SUFFICES ASSUME NEW q \in data PROVE mm'.frames[q].type = "APPLICATION"
      BY <1>5 DEF DataFrames
    <2>1. q \in Pages /\ mm.frames[q].type = "APPLICATION"
      BY DEF SpaceInv, TypeOK, DataFrames
    <2>2. QED
      BY <1>5, <1>7, <2>1 DEF Keeps
  <1>18. CallsInData'
    <2> SUFFICES ASSUME NEW b \in CPUs, call'[b].n > 0
                 PROVE  /\ call'[b].domain \in Domains
                        /\ Run(call'[b].p, call'[b].n) \subseteq data
      BY <1>5 DEF CallsInData
    <2>1. CASE b = c
      <3>1. call'[b] = next
        BY <1>1, <1>14, <2>1
      <3>2. QED
        BY <1>14, <3>1
    <2>2. CASE b # c
      <3>1. call'[b] = call[b]
        BY <1>1, <1>14, <2>2
      <3>2. QED
        BY <3>1 DEF SpaceInv, CallsInData
    <2>3. QED
      BY <2>1, <2>2
  <1>19. MappedData'
    <2> SUFFICES ASSUME NEW e \in Domains, NEW w \in VPages, Present(mapped'[e][w])
                 PROVE  mapped'[e][w].addr \in data
      BY <1>5 DEF MappedData
    <2>1. mapped'[e][w] = pte \/ mapped'[e][w] = mapped[e][w]
      <3> HIDE DEF d, v, pte
      <3> QED
        BY <1>1, <1>3, <1>5
    <2>2. QED
      BY <1>4, <2>1 DEF SpaceInv, MappedData
  <1>20. NoRootsYet'
    BY <1>5 DEF SpaceInv, NoRootsYet
  <1>21. QED
    BY <1>10, <1>16, <1>17, <1>18, <1>19, <1>20 DEF SpaceInv

\* The invariant is preserved by every step.
LEMMA NextSpaces == SpaceInv /\ [Next]_vars => SpaceInv'
  <1> SUFFICES ASSUME SpaceInv, [Next]_vars PROVE SpaceInv'
    OBVIOUS
  <1>1. CASE \E start \in BootPages : AddMemory(start)
    BY <1>1, AddMemoryStep
  <1>2. CASE \E n \in 1 .. MaxPages : AllocData(n)
    BY <1>2, AllocDataStep
  <1>3. CASE \E d \in Domains : isolation_create_page_tables(d)
    BY <1>3, CreateStep
  <1>4. CASE \E d \in Domains : isolation_destroy_page_tables(d)
    BY <1>4, DestroyStep
  <1>5. CASE \E c \in CPUs, d \in Domains, v \in Starts, n \in 1 .. MaxPages,
                type \in MapTypes, p \in data :
               Run(p, n) \subseteq data /\ isolation_map_memory(c, d, v, p, n, type)
    BY <1>5, MapCallStep
  <1>6. CASE \E c \in CPUs : MapPage(c)
    BY <1>6, MapPageStep
  <1>7. CASE \E d \in Domains, v \in Starts, n \in 1 .. MaxPages :
               isolation_unmap_memory(d, v, n)
    BY <1>7, UnmapStep
  <1>8. CASE UNCHANGED vars
    BY <1>8 DEF vars, SpaceInv, TypeOK, TreeInv, DataFrames, CallsInData, MappedData,
                NoRootsYet
  <1>9. QED
    BY <1>1, <1>2, <1>3, <1>4, <1>5, <1>6, <1>7, <1>8 DEF Next

LEMMA SpaceInvAlways == Spec => []SpaceInv
  <1>1. Init => SpaceInv
    BY InitSpaces
  <1>2. SpaceInv /\ [Next]_vars => SpaceInv'
    BY NextSpaces
  <1>3. QED
    BY <1>1, <1>2, PTL DEF Spec

\* isolation.c: in every domain the page tables say exactly what the map and
\* unmap calls on it add up to, whatever the other domains do and however often
\* memory runs out half way through a call.
THEOREM TablesSayWhatIsMapped == Spec => []MappingsExact
  <1>1. SpaceInv => MappingsExact
    BY DEF SpaceInv, TreeInv, Shows, MappingsExact, pt_walk_get_pte, PteIn, PtOf, PtIn,
           Below, BelowIn
  <1>2. QED
    BY <1>1, SpaceInvAlways, PTL

\* The tables of a domain at a level.
AllAt(lab, ts, d, k) ==
  ts \subseteq Pages /\ \A t \in ts : lab[t].domain = d /\ lab[t].level = k
LEMMA ChildrenAt ==
  ASSUME NEW m, NEW lab, content \in Contents, Placed(lab, m, content, pml4),
         NEW ts, NEW d, NEW k \in 2 .. 4, AllAt(lab, ts, d, k)
  PROVE  AllAt(lab, Children(ts), d, k - 1)
  <1> SUFFICES ASSUME NEW u \in Children(ts)
               PROVE  u \in Pages /\ lab[u].domain = d /\ lab[u].level = k - 1
    BY DEF AllAt
  <1>1. PICK x \in ts \X Idx : Present(content[x[1]][x[2]]) /\ u = content[x[1]][x[2]].addr
    BY DEF Children
  <1>2. x[1] \in Pages /\ x[2] \in Idx /\ lab[x[1]].domain = d /\ lab[x[1]].level = k
    BY DEF AllAt
  <1>3. u \in Pages
    BY <1>1, <1>2 DEF Contents, Entry
  <1>4. lab[u] = Child(lab[x[1]], x[2])
    BY <1>1, <1>2 DEF Placed, LinksPlaced
  <1>5. QED
    BY <1>2, <1>3, <1>4 DEF Child

LEMMA TablesAt ==
  ASSUME NEW m, NEW lab, content \in Contents, pml4 \in [Domains -> Pages],
         Placed(lab, m, content, pml4), NEW d \in Domains
  PROVE  /\ AllAt(lab, Roots(d), d, 4)
         /\ AllAt(lab, Children(Roots(d)), d, 3)
         /\ AllAt(lab, Children(Children(Roots(d))), d, 2)
         /\ AllAt(lab, Children(Children(Children(Roots(d)))), d, 1)
  <1>0. /\ 2 \in 2 .. 4 /\ 2 - 1 = 1 /\ 3 \in 2 .. 4 /\ 3 - 1 = 2
        /\ 4 \in 2 .. 4 /\ 4 - 1 = 3
    OBVIOUS
  <1>1. AllAt(lab, Roots(d), d, 4)
    <2>1. \A t \in Roots(d) : t = pml4[d] /\ t # NULL /\ t \in Pages
      BY DEF Roots
    <2>2. pml4[d] # NULL => lab[pml4[d]] = [domain |-> d, level |-> 4, at |-> 0]
      BY DEF Placed, RootsPlaced
    <2>3. QED
      BY <2>1, <2>2 DEF AllAt
  <1>2. AllAt(lab, Children(Roots(d)), d, 3)
    <2>1. AllAt(lab, Children(Roots(d)), d, 4 - 1)
      BY <1>0, <1>1, ChildrenAt
    <2>2. QED
      BY <1>0, <2>1
  <1>3. AllAt(lab, Children(Children(Roots(d))), d, 2)
    <2>1. AllAt(lab, Children(Children(Roots(d))), d, 3 - 1)
      BY <1>0, <1>2, ChildrenAt
    <2>2. QED
      BY <1>0, <2>1
  <1>4. AllAt(lab, Children(Children(Children(Roots(d)))), d, 1)
    <2>1. AllAt(lab, Children(Children(Children(Roots(d)))), d, 2 - 1)
      BY <1>0, <1>3, ChildrenAt
    <2>2. QED
      BY <1>0, <2>1
  <1>5. QED
    BY <1>1, <1>2, <1>3, <1>4

\* Every table but the root is at the end of exactly one link.
LEMMA OneLinkEach ==
  ASSUME NEW m, NEW lab, content \in Contents, pml4 \in [Domains -> Pages],
         Placed(lab, m, content, pml4), NEW d \in Domains, Roots(d) # {}
  PROVE  Cardinality(Tables(d)) = 1 + Cardinality(Links(d))
  <1> DEFINE A4 == Roots(d)
             A3 == Children(A4)
             A2 == Children(A3)
             A1 == Children(A2)
             S == Links(d)
             T == Tables(d) \ {pml4[d]}
             f == [x \in S |-> content[x[1]][x[2]].addr]
  <1>1. /\ AllAt(lab, A4, d, 4) /\ AllAt(lab, A3, d, 3)
        /\ AllAt(lab, A2, d, 2) /\ AllAt(lab, A1, d, 1)
    BY TablesAt
  <1>2. Upper(d) = A4 \cup A3 \cup A2 /\ Tables(d) = A4 \cup A3 \cup A2 \cup A1
    BY DEF Upper, Tables
  <1>3. A4 = {pml4[d]}
    BY DEF Roots
  <1>4. ASSUME NEW ts, NEW x
        PROVE  x \in Children(ts) <=>
                 \E t \in ts, i \in Idx : Present(content[t][i]) /\ content[t][i].addr = x
    <2>1. ASSUME x \in Children(ts)
          PROVE  \E t \in ts, i \in Idx : Present(content[t][i]) /\ content[t][i].addr = x
      BY <2>1 DEF Children
    <2>2. ASSUME NEW t \in ts, NEW i \in Idx, Present(content[t][i]), content[t][i].addr = x
          PROVE  x \in Children(ts)
      <3>1. <<t, i>> \in ts \X Idx /\ <<t, i>>[1] = t /\ <<t, i>>[2] = i
        OBVIOUS
      <3>2. QED
        BY <2>2, <3>1 DEF Children
    <2>3. QED
      BY <2>1, <2>2
  <1> HIDE DEF A4, A3, A2, A1
  <1>5. \A x \in S : /\ x[1] \in Upper(d) /\ x[2] \in Idx /\ x = <<x[1], x[2]>>
                     /\ Present(content[x[1]][x[2]])
    BY DEF Links
  <1>6. \A t \in Upper(d) : /\ t \in Pages /\ lab[t].domain = d /\ lab[t].level \in 2 .. 4
    BY <1>1, <1>2 DEF AllAt
  <1>7. \A x \in S : f[x] \in T /\ lab[f[x]] = Child(lab[x[1]], x[2])
    <2> TAKE x \in S
    <2>1. x[1] \in Pages /\ x[1] \in Upper(d) /\ x[2] \in Idx /\ Present(content[x[1]][x[2]])
          /\ lab[x[1]].level \in 2 .. 4
      BY <1>5, <1>6
    <2>2. f[x] = content[x[1]][x[2]].addr
      OBVIOUS
    <2> HIDE DEF f
    <2>3. f[x] \in Pages
      BY <2>1, <2>2 DEF Contents, Entry
    <2>4. lab[f[x]] = Child(lab[x[1]], x[2])
      BY <2>1, <2>2 DEF Placed, LinksPlaced
    <2>5. lab[f[x]].level < 4
      BY <2>1, <2>4 DEF Child
    <2>6. lab[pml4[d]].level = 4
      BY <1>1, <1>3 DEF AllAt
    <2>7. f[x] \in A3 \cup A2 \cup A1
      <3>1. ASSUME NEW ts, x[1] \in ts PROVE f[x] \in Children(ts)
        BY <1>4, <2>1, <2>2, <3>1
      <3>2. x[1] \in A4 \/ x[1] \in A3 \/ x[1] \in A2
        BY <1>2, <2>1
      <3>3. QED
        BY <3>1, <3>2 DEF A3, A2, A1
    <2>8. QED
      BY <1>2, <2>4, <2>5, <2>6, <2>7
  <1>8. \A y \in T : \E x \in S : f[x] = y
    <2> SUFFICES ASSUME NEW y \in T PROVE \E x \in S : f[x] = y
      OBVIOUS
    <2>1. y \in A3 \cup A2 \cup A1 /\ y \in Pages
      BY <1>1, <1>2, <1>3 DEF AllAt
    <2>2. PICK t \in Upper(d), i \in Idx : Present(content[t][i]) /\ content[t][i].addr = y
      <3>1. PICK ts : ts \subseteq Upper(d) /\ y \in Children(ts)
        BY <1>2, <2>1 DEF A3, A2, A1
      <3>2. QED
        BY <1>4, <3>1
    <2>3. <<t, i>> \in S /\ f[<<t, i>>] = y
      BY <2>2 DEF Links
    <2>4. QED
      BY <2>3
  <1>9. ASSUME NEW x \in S, NEW y \in S, f[x] = f[y] PROVE x = y
    <2>1. /\ x[1] \in Pages /\ x[2] \in Idx /\ lab[x[1]] \in Place /\ lab[x[1]].level \in 2 .. 4
          /\ y[1] \in Pages /\ y[2] \in Idx /\ lab[y[1]] \in Place /\ lab[y[1]].level \in 2 .. 4
      BY <1>5, <1>6 DEF Placed
    <2>2. Child(lab[x[1]], x[2]) = Child(lab[y[1]], y[2])
      BY <1>7, <1>9
    <2>3. /\ lab[x[1]].domain = lab[y[1]].domain
          /\ lab[x[1]].level - 1 = lab[y[1]].level - 1
          /\ (N * lab[x[1]].at) + x[2] = (N * lab[y[1]].at) + y[2]
      BY <2>2 DEF Child
    <2>4. lab[x[1]].at \in Nat /\ lab[y[1]].at \in Nat
      BY <2>1 DEF Place
    <2>5. lab[x[1]].at = lab[y[1]].at /\ x[2] = y[2]
      BY <2>1, <2>3, <2>4, SameDigits
    <2>6. lab[x[1]] = lab[y[1]]
      BY <2>1, <2>3, <2>5 DEF Place
    <2>7. x[1] = y[1]
      BY <2>1, <2>6 DEF Placed, PlacesUnique
    <2>8. QED
      BY <1>5, <2>5, <2>7
  <1>10. f \in Bijection(S, T)
    <2>1. f \in [S -> T]
      BY <1>7
    <2> HIDE DEF f, S, T
    <2>2. QED
      BY <1>8, <1>9, <2>1 DEF Bijection, Injection, Surjection, IsInjective
  <1>11. IsFiniteSet(Tables(d)) /\ IsFiniteSet(S)
    <2>1. IsFiniteSet(Pages) /\ IsFiniteSet(Idx)
      <3>1. 0 \in Int /\ total_pages - 1 \in Int /\ N - 1 \in Int
        BY MmConstants, SpaceConstants
      <3>2. QED
        BY <3>1, FS_Interval DEF Pages, Idx
    <2>2. Tables(d) \in SUBSET Pages /\ Upper(d) \in SUBSET Pages
      BY <1>1, <1>2 DEF AllAt
    <2>3. IsFiniteSet(Tables(d)) /\ IsFiniteSet(Upper(d))
      BY <2>1, <2>2, FS_Subset
    <2>4. IsFiniteSet(Upper(d) \X Idx)
      BY <2>1, <2>3, FS_Product
    <2>5. S \in SUBSET (Upper(d) \X Idx)
      BY DEF Links
    <2> HIDE DEF S
    <2>6. QED
      BY <2>3, <2>4, <2>5, FS_Subset
  <1> HIDE DEF f, S
  <1>12. Cardinality(T) = Cardinality(S)
    <2> HIDE DEF T
    <2>1. ExistsBijection(S, T)
      BY <1>10 DEF ExistsBijection
    <2>2. QED
      BY <1>11, <2>1, FS_Bijection
  <1>13. Cardinality(T) = Cardinality(Tables(d)) - 1
    <2>1. pml4[d] \in Tables(d)
      BY <1>2, <1>3
    <2>2. QED
      BY <1>11, <2>1, FS_RemoveElement
  <1>14. Cardinality(Tables(d)) \in Nat
    BY <1>11, FS_CardinalityType
  <1>15. QED
    BY <1>12, <1>13, <1>14 DEF S

\* isolation.c: page tables are kernel frames, each with one place in one
\* domain, and no page mapped into a domain is a page table.
THEOREM TablesStayPrivate == Spec => []SpacesSound
  <1>1. ASSUME SpaceInv PROVE SpacesSound
    <2>1. PICK lab : Placed(lab, mm, content, pml4)
      BY <1>1 DEF SpaceInv, TreeInv
    <2>2. content \in Contents /\ pml4 \in [Domains -> Pages]
      BY <1>1 DEF SpaceInv, TypeOK, Contents
    <2>3. ASSUME NEW d \in Domains, NEW t \in Tables(d)
          PROVE  t \in Pages /\ lab[t].domain = d /\ lab[t].level \in 1 .. 4
      <3>1. /\ AllAt(lab, Roots(d), d, 4)
            /\ AllAt(lab, Children(Roots(d)), d, 3)
            /\ AllAt(lab, Children(Children(Roots(d))), d, 2)
            /\ AllAt(lab, Children(Children(Children(Roots(d)))), d, 1)
        BY <2>1, <2>2, TablesAt
      <3>2. QED
        BY <2>3, <3>1 DEF Tables, Upper, AllAt
    <2>4. ASSUME NEW d \in Domains, NEW t \in Tables(d)
          PROVE  mm.frames[t].type = "KERNEL"
      BY <2>1, <2>3, <2>4 DEF Placed, TablesKernel
    <2>5. ASSUME NEW d \in Domains, Roots(d) # {}
          PROVE  Cardinality(Tables(d)) = 1 + Cardinality(Links(d))
      BY <2>1, <2>2, <2>5, OneLinkEach
    <2>6. ASSUME NEW d \in Domains, NEW e \in Domains, e # d
          PROVE  Tables(d) \cap Tables(e) = {}
      BY <2>3, <2>6
    <2>7. ASSUME NEW d \in Domains, NEW e \in Domains, NEW v \in VPages,
                 Present(mapped[e][v])
          PROVE  mapped[e][v].addr \notin Tables(d)
      <3>1. mm.frames[mapped[e][v].addr].type = "APPLICATION"
        BY <1>1, <2>7 DEF SpaceInv, MappedData, DataFrames
      <3>2. QED
        BY <2>4, <3>1
    <2>8. TablesPrivate
      BY <2>4, <2>5, <2>6, <2>7 DEF TablesPrivate
    <2>9. QED
      BY <1>1, <2>8 DEF SpacesSound, SpaceInv
  <1>2. QED
    BY <1>1, SpaceInvAlways, PTL

\* The pages of an access: the first pages from an aligned address on are the
\* pages of its bytes.
LEMMA PagesOfBytes ==
  ASSUME NEW v \in Nat, NEW size \in Nat \ {0}
  PROVE  /\ (v * PAGE_SIZE) \div PAGE_SIZE = v
         /\ \A i \in 0 .. NumPages(size) - 1 :
              \E b \in v * PAGE_SIZE .. v * PAGE_SIZE + size - 1 : b \div PAGE_SIZE = v + i
         /\ \A b \in v * PAGE_SIZE .. v * PAGE_SIZE + size - 1 :
              \E i \in 0 .. NumPages(size) - 1 : b \div PAGE_SIZE = v + i
  <1> DEFINE P == PAGE_SIZE
             q == (size - 1) \div P
             r == (size - 1) % P
  <1>1. P \in Nat \ {0}
    BY SpaceConstants
  <1>2. q \in Nat /\ r \in 0 .. P - 1 /\ size - 1 = (P * q) + r
    BY <1>1
  <1> HIDE DEF q, r
  <1>3. NumPages(size) = q + 1
    <2>1. size + P - 1 = (P * (q + 1)) + r /\ size + P - 1 \in Nat /\ q + 1 \in Nat
      BY <1>1, <1>2
    <2>2. (size + P - 1) \div P = q + 1
      BY <1>1, <1>2, <2>1, Quotient
    <2>3. QED
      BY <2>2 DEF NumPages
  <1>4. v * P \in Nat /\ v * P = P * v
    BY <1>1
  <1>5. (v * P) \div P = v
    <2>1. v * P = (P * v) + 0 /\ 0 \in 0 .. P - 1
      BY <1>1, <1>4
    <2>2. QED
      BY <1>1, <1>4, <2>1, Quotient
  <1>6. ASSUME NEW i \in 0 .. NumPages(size) - 1
        PROVE  \E b \in v * P .. v * P + size - 1 : b \div P = v + i
    <2> DEFINE b == P * (v + i)
    <2>1. i \in Nat /\ i <= q
      BY <1>2, <1>3
    <2>2. P * i <= P * q /\ P * i \in Nat
      BY <1>1, <1>2, <2>1
    <2>3. P * (v + i) = (v * P) + (P * i)
      BY <1>1, <2>1
    <2>4. b \in v * P .. v * P + size - 1
      BY <1>1, <1>2, <1>4, <2>2, <2>3
    <2>5. b \in Nat /\ b = (P * (v + i)) + 0 /\ 0 \in 0 .. P - 1 /\ v + i \in Nat
      BY <1>1, <1>4, <2>1, <2>2, <2>3
    <2>6. b \div P = v + i
      BY <1>1, <2>5, Quotient
    <2> HIDE DEF b
    <2>7. QED
      BY <2>4, <2>6
  <1>7. ASSUME NEW b \in v * P .. v * P + size - 1
        PROVE  \E i \in 0 .. NumPages(size) - 1 : b \div P = v + i
    <2> DEFINE x == b - (v * P)
               i == x \div P
               y == x % P
    <2>1. x \in Nat /\ x <= size - 1 /\ b = (v * P) + x /\ b \in Nat
      BY <1>4
    <2> HIDE DEF x
    <2>2. i \in Nat /\ y \in 0 .. P - 1 /\ x = (P * i) + y
      BY <1>1, <2>1
    <2> HIDE DEF i, y
    <2>3. i <= q
      <3>1. ASSUME i >= q + 1 PROVE FALSE
        <4>1. P * i >= P * (q + 1) /\ P * (q + 1) = (P * q) + P
          BY <1>1, <1>2, <2>2, <3>1
        <4>2. QED
          BY <1>1, <1>2, <2>1, <2>2, <4>1
      <3>2. QED
        BY <1>2, <2>2, <3>1
    <2>4. b = (P * (v + i)) + y
      <3> DEFINE z == P * i
                 u == v * P
      <3>1. P * (v + i) = u + z /\ z \in Nat
        BY <1>1, <2>2
      <3>2. u \in Nat /\ b = u + x /\ x = z + y
        BY <1>4, <2>1, <2>2
      <3> HIDE DEF u, z
      <3>3. b = (u + z) + y
        BY <2>2, <3>1, <3>2
      <3>4. QED
        BY <3>1, <3>3
    <2>5. b \div P = v + i
      BY <1>1, <2>1, <2>2, <2>4, Quotient
    <2>6. i \in 0 .. NumPages(size) - 1
      BY <1>2, <1>3, <2>2, <2>3
    <2>7. QED
      BY <2>5, <2>6
  <1>8. QED
    BY <1>5, <1>6, <1>7

\* isolation.c, isolation_verify_access: an access that starts at a page is
\* allowed exactly if every byte of it is mapped with the right asked for.
THEOREM VerificationIsExact == Spec => []VerifyExact
  <1>1. ASSUME SpaceInv PROVE VerifyExact
    <2>1. \A d \in Domains, v \in VPages : pt_walk_get_pte(d, v) = mapped[d][v]
      BY <1>1 DEF SpaceInv, TreeInv, Shows, pt_walk_get_pte, PteIn, PtOf, PtIn, Below, BelowIn
    <2> SUFFICES ASSUME NEW d \in Domains, NEW v \in Starts,
                        NEW size \in 1 .. 2 * PAGE_SIZE, NEW access
                 PROVE  isolation_verify_access(d, v * PAGE_SIZE, size, access) <=>
                          \A b \in v * PAGE_SIZE .. v * PAGE_SIZE + size - 1 :
                            LET e == mapped[d][(b \div PAGE_SIZE) % (N * N * N * N)]
                            IN  Present(e) /\ access \subseteq e.flags
      BY DEF VerifyExact
    <2> DEFINE L == N * N * N * N
               P == PAGE_SIZE
               Bytes == v * P .. v * P + size - 1
               Is == 0 .. NumPages(size) - 1
               Ok(e) == Present(e) /\ access \subseteq e.flags
    <2>2. v \in Nat /\ size \in Nat \ {0} /\ v * P \in Nat
      BY SpaceConstants
    <2>3. /\ (v * P) \div P = v
          /\ \A i \in Is : \E b \in Bytes : b \div P = v + i
          /\ \A b \in Bytes : \E i \in Is : b \div P = v + i
      BY <2>2, PagesOfBytes
    <2>4. v * P \in Bytes
      BY <2>2
    <2>5. \A x \in Nat : x % L \in VPages
      BY VPagesWrap
    <2> HIDE DEF L, P, Bytes
    <2>6. NumPages(size) \in Int
      <3>1. size + PAGE_SIZE - 1 \in Nat /\ PAGE_SIZE \in Nat \ {0}
        BY <2>2, SpaceConstants
      <3>2. QED
        BY <3>1 DEF NumPages
    <2>7. \A i \in Is : i \in Nat
      BY <2>6
    <2> HIDE DEF Is
    <2>8. \A i \in Is : pt_walk_get_pte(d, (v + i) % L) = mapped[d][(v + i) % L]
      BY <2>1, <2>2, <2>5, <2>7
    <2>9. isolation_verify_access(d, v * P, size, access) <=>
            pml4[d] # NULL /\ \A i \in Is : Ok(mapped[d][(v + i) % L])
      <3>1. isolation_verify_access(d, v * P, size, access) <=>
              pml4[d] # NULL /\ \A i \in Is : Ok(pt_walk_get_pte(d, (((v * P) \div P) + i) % L))
        BY DEF isolation_verify_access, L, P, Is
      <3>2. QED
        BY <2>3, <2>8, <3>1
    <2>10. (\A i \in Is : Ok(mapped[d][(v + i) % L])) <=>
             (\A b \in Bytes : Ok(mapped[d][(b \div P) % L]))
      <3> HIDE DEF Ok
      <3> QED
        BY <2>3
    <2>11. (\A b \in Bytes : Ok(mapped[d][(b \div P) % L])) => pml4[d] # NULL
      <3> SUFFICES ASSUME pml4[d] = NULL, \A b \in Bytes : Ok(mapped[d][(b \div P) % L])
                   PROVE  FALSE
        OBVIOUS
      <3>1. Present(mapped[d][v % L])
        BY <2>3, <2>4
      <3>2. pt_walk_get_pte(d, v % L) = NoEntry
        BY DEF pt_walk_get_pte, PtOf, Below
      <3>3. QED
        BY <2>1, <2>2, <2>5, <3>1, <3>2 DEF NoEntry, Present
    <2>12. QED
      BY <2>9, <2>10, <2>11 DEF L, P, Bytes
  <1>2. QED
    BY <1>1, SpaceInvAlways, PTL

=============================================================================
