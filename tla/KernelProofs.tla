---------------------------- MODULE KernelProofs ----------------------------
(***************************************************************************)
(* What modules Vmm and Kernel promise, proved for every size of the       *)
(* tables and of memory, every place of the boot tables and every set of   *)
(* free frames that their assumptions allow.                               *)
(***************************************************************************)
EXTENDS Kernel, FiniteSetTheorems, WellFoundedInduction, TLAPS

-----------------------------------------------------------------------------
(* Natural numbers.                                                        *)

LEMMA LeastElement ==
  ASSUME NEW T \in SUBSET Nat, T # {}
  PROVE  \E n \in T : \A m \in T : n <= m
  <1> DEFINE R == {p \in Nat \X Nat : p[1] < p[2]}
  <1>1. IsWellFoundedOn(R, Nat)
    BY NatLessThanWellFounded, Zenon DEF OpToRel
  <1>2. \E x \in T : \A y \in T : ~ (<<y, x>> \in R)
    <2> HIDE DEF R
    <2> QED
      BY <1>1, WFMin, Zenon
  <1>3. ASSUME NEW x \in T, NEW y \in T, ~(<<y, x>> \in R) PROVE x <= y
    BY <1>3
  <1> HIDE DEF R
  <1> QED
    BY <1>2, <1>3

LEMMA Division ==
  ASSUME NEW a \in Nat, NEW w \in Nat \ {0}
  PROVE  /\ a = w * (a \div w) + (a % w)
         /\ a % w \in 0 .. w - 1 /\ a \div w \in Nat
  OBVIOUS

LEMMA ProductType ==
  ASSUME NEW a \in Nat, NEW b \in Nat
  PROVE  a * b \in Nat /\ a * b = b * a
  OBVIOUS

LEMMA ProductGap ==
  ASSUME NEW w \in Nat, NEW p \in Nat, NEW q \in Nat, p < q
  PROVE  w * p + w <= w * q
  OBVIOUS

LEMMA ProductOrder ==
  ASSUME NEW w \in Nat, NEW p \in Nat, NEW q \in Nat, p <= q
  PROVE  w * p <= w * q
  OBVIOUS

LEMMA ProductOfPredecessor ==
  ASSUME NEW w \in Nat, NEW p \in Nat
  PROVE  w * (p - 1) = w * p - w
  OBVIOUS

\* Quotient and remainder of a number that is given by them.
LEMMA QuotientOfSum ==
  ASSUME NEW w \in Nat \ {0}, NEW q \in Nat, NEW r \in 0 .. w - 1
  PROVE  (w * q + r) % w = r /\ (w * q + r) \div w = q
  <1> DEFINE v == w * q + r
             p == v \div w
             s == v % w
             wp == w * p
             wq == w * q
  <1>1. v \in Nat
    BY ProductType
  <1>2. v = wp + s /\ s \in 0 .. w - 1 /\ p \in Nat
    BY <1>1, Division
  <1>3. wp \in Nat /\ wq \in Nat /\ wq + r = wp + s
    BY <1>1, <1>2, ProductType
  <1>4. (p < q => wp + w <= wq) /\ (q < p => wq + w <= wp) /\ (p = q => wp = wq)
    BY <1>2, ProductGap
  <1> HIDE DEF p, s, wp, wq, v
  <1>5. ~(p < q) /\ ~(q < p)
    BY <1>2, <1>3, <1>4
  <1>6. p = q /\ s = r
    BY <1>2, <1>3, <1>4, <1>5
  <1> QED
    BY <1>6 DEF p, s, v

-----------------------------------------------------------------------------
(* Pages and frames.                                                       *)

\* The first page of the kernel's half.
Base == Entries * KernelDir

LEMMA Sizes ==
  /\ Entries \in Nat \ {0} /\ KernelDir \in 1 .. Entries - 1 /\ Base \in Nat /\ Window \in Nat
  /\ Base + Window = Entries * Entries /\ KernelDir * Entries = Base
  /\ Entries <= Base /\ Entries <= Window
  /\ Window = Entries * (Entries - KernelDir)
  /\ Index \subseteq Frames /\ Frames \subseteq Nat
  <1>1. Entries \in Nat \ {0} /\ KernelDir \in 1 .. Entries - 1
    BY VmmAssumption
  <1> DEFINE upper == Entries - KernelDir
  <1>2. upper \in Nat \ {0} /\ KernelDir \in Nat \ {0} /\ KernelDir + upper = Entries
    BY <1>1
  <1>3. Window = Entries * upper /\ Base = Entries * KernelDir /\ KernelDir * Entries = Base
    BY <1>1, <1>2 DEF Window, Base
  <1> HIDE DEF upper
  <1>4. Entries * (KernelDir + upper) = Entries * KernelDir + Entries * upper
    BY <1>1, <1>2
  <1>5. Entries <= Entries * KernelDir /\ Entries <= Entries * upper
    BY <1>1, <1>2
  <1>6. Window \in Nat /\ Base \in Nat
    BY <1>1, <1>2, <1>3, ProductType
  <1>7. Base + Window = Entries * Entries
    BY <1>2, <1>3, <1>4
  <1>8. Entries <= Base /\ Entries <= Window
    BY <1>3, <1>5
  <1> QED
    BY <1>1, <1>3, <1>6, <1>7, <1>8 DEF upper, Index, Frames

\* Every frame has an address in the kernel's half.
LEMMA AddressOf ==
  ASSUME NEW f \in Frames
  PROVE  /\ f \in Nat /\ P2V(f) = Base + f /\ P2V(f) \in Pages
         /\ f \div Entries \in Nat /\ f \div Entries < Entries - KernelDir
         /\ f % Entries \in Index
         /\ P2V(f) \div Entries = KernelDir + f \div Entries
         /\ P2V(f) % Entries = f % Entries
         /\ KernelDir + f \div Entries \in Index \ {0}
  <1> DEFINE d == f \div Entries
             j == f % Entries
             E == Entries
             w == Entries - KernelDir
             Ed == E * d
             Ew == E * w
  <1>1. /\ E \in Nat \ {0} /\ KernelDir \in 1 .. E - 1 /\ Base \in Nat /\ Window \in Nat
        /\ Base + Window = E * E /\ KernelDir * E = Base /\ w \in Nat \ {0} /\ Window = Ew
    BY Sizes
  <1>2. f \in Nat /\ f < Window
    BY <1>1 DEF Frames
  <1>3. f = Ed + j /\ j \in 0 .. E - 1 /\ d \in Nat
    BY <1>1, <1>2, Division
  <1>4. w <= d => Ew <= Ed
    BY <1>1, <1>3, ProductOrder
  <1>5. Ed \in Nat /\ Ew \in Nat
    BY <1>1, <1>3, ProductType
  <1>6. d < w
    <2> HIDE DEF Ed, Ew, d, j, w, E
    <2> QED
      BY <1>1, <1>2, <1>3, <1>4, <1>5
  <1>7. E * (KernelDir + d) = E * KernelDir + Ed
    BY <1>1, <1>3
  <1>8. Base + f = E * (KernelDir + d) + j
    BY <1>1, <1>3, <1>7 DEF Base
  <1>9. (Base + f) \div E = KernelDir + d /\ (Base + f) % E = j
    <2> HIDE DEF d, j
    <2>1. KernelDir + d \in Nat /\ j \in 0 .. E - 1
      BY <1>1, <1>3
    <2> HIDE DEF E
    <2>2. /\ (E * (KernelDir + d) + j) \div E = KernelDir + d
          /\ (E * (KernelDir + d) + j) % E = j
      BY <1>1, <2>1, QuotientOfSum
    <2> QED
      BY <1>8, <2>2
  <1>10. (Base + f) % (E * E) = Base + f
    <2> DEFINE a == Base + f
               b == E * E
    <2>1. a \in Nat /\ b \in Nat /\ a < b
      BY <1>1, <1>2
    <2> HIDE DEF a, b
    <2>2. a % b = a
      BY <2>1
    <2> QED
      BY <2>2 DEF a, b
  <1>11. P2V(f) = Base + f /\ P2V(f) \in Pages
    <2>1. P2V(f) = Base + f
      BY <1>1, <1>10 DEF P2V
    <2>2. Base + f \in 0 .. E * E - 1
      BY <1>1, <1>2
    <2> QED
      BY <2>1, <2>2 DEF Pages
  <1> QED
    BY <1>1, <1>2, <1>3, <1>6, <1>9, <1>11 DEF Index

\* A page is the address of a frame or lies in the lower half.
LEMMA PageSplit ==
  ASSUME NEW v \in Pages
  PROVE  /\ v \div Entries \in Index /\ v % Entries \in Index
         /\ v = Entries * (v \div Entries) + (v % Entries)
         /\ v \div Entries >= KernelDir => v - Base \in Frames /\ v = P2V(v - Base)
         /\ v \div Entries < KernelDir => v < Base
  <1> DEFINE E == Entries
             d == v \div E
             j == v % E
             Ed == E * d
             EE == E * E
  <1>1. /\ E \in Nat \ {0} /\ KernelDir \in 1 .. E - 1 /\ Base \in Nat /\ Window \in Nat
        /\ Base + Window = EE /\ Base = E * KernelDir
    BY Sizes DEF Base
  <1>2. EE \in Nat /\ v \in Nat /\ v < EE
    <2>1. EE \in Nat
      BY <1>1
    <2> QED
      BY <2>1 DEF Pages
  <1>3. v = Ed + j /\ j \in 0 .. E - 1 /\ d \in Nat
    BY <1>1, <1>2, Division
  <1>4. (E <= d => EE <= Ed) /\ (KernelDir <= d => Base <= Ed) /\ (d < KernelDir => Ed + E <= Base)
    <2>1. KernelDir \in Nat
      BY <1>1
    <2> QED
      BY <1>1, <1>3, <2>1, ProductOrder, ProductGap
  <1>5. Ed \in Nat
    BY <1>1, <1>3, ProductType
  <1>6. d < E /\ (d >= KernelDir => v >= Base) /\ (d < KernelDir => v < Base)
    <2> HIDE DEF Ed, EE, d, j, E
    <2> QED
      BY <1>1, <1>2, <1>3, <1>4, <1>5
  <1>7. ASSUME d >= KernelDir PROVE v - Base \in Frames /\ v = P2V(v - Base)
    <2>1. v - Base \in Frames
      BY <1>1, <1>2, <1>6, <1>7 DEF Frames
    <2>2. P2V(v - Base) = Base + (v - Base)
      BY <2>1, AddressOf
    <2> QED
      BY <1>1, <1>2, <2>1, <2>2
  <1> QED
    BY <1>1, <1>3, <1>6, <1>7 DEF Index

\* Directory and table entry determine a frame.
LEMMA SameFrame ==
  ASSUME NEW f \in Frames, NEW g \in Frames,
         f \div Entries = g \div Entries, f % Entries = g % Entries
  PROVE  f = g
  <1>1. Entries \in Nat \ {0} /\ f \in Nat /\ g \in Nat
    BY Sizes
  <1>2. f = Entries * (f \div Entries) + (f % Entries) /\ g = Entries * (g \div Entries) + (g % Entries)
    BY <1>1, Division
  <1> QED
    BY <1>2

LEMMA InBootMap ==
  ASSUME NEW f \in Index
  PROVE  f \in Frames /\ f \in Nat /\ f \div Entries = 0 /\ f % Entries = f
  BY Sizes DEF Index

LEMMA EmptyQuotient == (Entries - 1) \div Entries = 0
  <1>1. Entries - 1 \in Index
    BY Sizes DEF Index
  <1> QED
    BY <1>1, InBootMap

\* The frame before: in the same table, or the last one of the table before.
LEMMA FrameBefore ==
  ASSUME NEW n \in Nat \ {0}
  PROVE  LET q == n \div Entries
             p == (n - 1) \div Entries
         IN /\ p \in Nat /\ q \in Nat
            /\ IF n % Entries = 0 THEN q = p + 1 ELSE q = p
  <1> DEFINE E == Entries
             q == n \div E
             r == n % E
             Eq == E * q
  <1>1. E \in Nat \ {0}
    BY Sizes
  <1>2. n = Eq + r /\ r \in 0 .. E - 1 /\ q \in Nat
    BY <1>1, Division
  <1>3. (n - 1) \div E \in Nat
    BY <1>1
  <1>4. CASE r # 0
    <2> HIDE DEF q, r, Eq, E
    <2>1. n - 1 = Eq + (r - 1) /\ r - 1 \in 0 .. E - 1
      <3>1. Eq \in Nat
        BY <1>1, <1>2, ProductType DEF Eq
      <3> QED
        BY <1>1, <1>2, <1>4, <3>1
    <2>2. (E * q + (r - 1)) \div E = q
      BY <1>1, <1>2, <2>1, QuotientOfSum
    <2>3. (n - 1) \div E = q
      BY <2>1, <2>2 DEF Eq
    <2> QED
      BY <1>2, <1>4, <2>3 DEF q, r, E
  <1>5. CASE r = 0
    <2>1. q - 1 \in Nat
      BY <1>1, <1>2, <1>5
    <2>2. E * (q - 1) = Eq - E
      BY <1>1, <1>2, ProductOfPredecessor
    <2> HIDE DEF q, r, Eq, E
    <2>3. n - 1 = E * (q - 1) + (E - 1) /\ E - 1 \in 0 .. E - 1
      <3>1. Eq \in Nat
        BY <1>1, <1>2, ProductType DEF Eq
      <3> QED
        BY <1>1, <1>2, <1>5, <2>2, <3>1
    <2>4. (E * (q - 1) + (E - 1)) \div E = q - 1
      BY <1>1, <2>1, <2>3, QuotientOfSum
    <2>5. (n - 1) \div E = q - 1 /\ q \in Nat
      BY <1>2, <2>3, <2>4
    <2>6. q = (n - 1) \div E + 1
      BY <2>5
    <2> QED
      BY <1>3, <1>5, <2>5, <2>6 DEF q, r, E
  <1> QED
    BY <1>4, <1>5

\* The quotient grows with the number.
LEMMA QuotientGrows ==
  ASSUME NEW a \in Nat, NEW b \in Nat, a <= b
  PROVE  a \div Entries <= b \div Entries
  <1> DEFINE E == Entries
             p == a \div E
             q == b \div E
             Ep == E * p
             Eq == E * q
  <1>1. E \in Nat \ {0}
    BY Sizes
  <1>2. /\ a = Ep + (a % E) /\ a % E \in 0 .. E - 1 /\ p \in Nat
        /\ b = Eq + (b % E) /\ b % E \in 0 .. E - 1 /\ q \in Nat
    BY <1>1, Division
  <1>3. q < p => Eq + E <= Ep
    BY <1>1, <1>2, ProductGap
  <1>4. Ep \in Nat /\ Eq \in Nat
    BY <1>1, <1>2, ProductType
  <1> HIDE DEF Ep, Eq, p, q
  <1> QED
    BY <1>1, <1>2, <1>3, <1>4 DEF p, q

-----------------------------------------------------------------------------
(* The inductive invariant.                                                *)

Types ==
  /\ mem \in [Frames -> [Index -> Frames \cup {NotPresent}]]
  /\ cr3 \in Frames /\ new_pd \in Frames
  /\ pc \in {"start", "failed", "copy", "extend", "clear", "reload", "done"}
  /\ idx \in 0 .. Window /\ (pc = "extend" => idx >= Entries)
  /\ total \in Nat /\ (pc # "start" => total <= Window)
  /\ pages \subseteq Frames /\ tlb \subseteq Pages \X Frames
  /\ pc # "done" => pages = {}
  /\ fault \in BOOLEAN /\ starved \in BOOLEAN
  /\ pc \in {"start", "failed"} => ~starved /\ new_pd = 0
  /\ pc = "start" => idx = 0

\* Where main is: each caller of vmmngr_alloc_page comes once, then fat12_open.
Stages ==
  /\ stage \in {"fat12_init", "load", "user_stack", "user"}
  /\ stage # "fat12_init" => VmmReturned
  /\ stage = "load" => pc = "done"
  /\ fat_buffer # {} => pc = "done"
  /\ handles \subseteq pages

\* The frames that were taken are the lowest of those that were free at boot.
Taken == atBoot \ free

Supply ==
  /\ atBoot \in FreeSets /\ free \subseteq atBoot
  /\ \A t \in Taken, f \in free : t < f
  /\ pages \subseteq Taken
  /\ starved /\ pc # "done" => free = {}

\* How many they are at most, while each table finds a frame: the directory, the
\* tables copied and those that cover the frames before idx; the cached table,
\* the stack, the files.
ForTables ==
  CASE pc \in {"start", "failed"} -> 0
    [] pc = "copy" -> IF idx = 0 THEN 1 ELSE IF idx <= KernelDir THEN 2 ELSE 3
    [] OTHER -> 3 + (idx - 1) \div Entries

ForPages ==
  CASE stage = "fat12_init" -> 0
    [] stage \in {"load", "user_stack"} -> 1
    [] OTHER -> 2 + Cardinality(handles)

Count ==
  IF starved THEN Cardinality(handles) > Spare
  ELSE Cardinality(Taken) <= ForTables + ForPages

TablesOf(dir) == {mem[dir][d] : d \in Index} \ {NotPresent}

\* The directory dir maps the first n frames, and the pages, at their addresses.
Maps(dir, n) ==
  /\ \A f \in Frames :
        LET table == mem[dir][KernelDir + f \div Entries]
        IN IF f < n \/ f \in pages THEN table \in Frames /\ mem[table][f % Entries] = f
           ELSE table = NotPresent \/ mem[table][f % Entries] = NotPresent
  /\ \A d \in 1 .. KernelDir - 1 : mem[dir][d] = NotPresent

Identity == [j \in Index |-> j]

\* What boot/paging.asm built.
BootMap ==
  /\ cr3 = BootDirectory
  /\ mem[BootDirectory] = [Empty EXCEPT ![0] = BootTable0, ![KernelDir] = BootTable768]
  /\ mem[BootTable0] = Identity /\ mem[BootTable768] = Identity

\* The copy, up to directory entry idx.
Copied ==
  \A d \in Index :
    IF d < idx /\ d \in {0, KernelDir}
    THEN mem[new_pd][d] \in Frames \ BootFrames /\ mem[mem[new_pd][d]] = Identity
    ELSE mem[new_pd][d] = NotPresent

\* The identity map: there, its table cleared, its entry cleared.
Lower ==
  LET table == mem[new_pd][0]
  IN CASE pc = "extend" -> table # NotPresent /\ mem[table] = Identity
       [] pc = "clear"  -> table # NotPresent /\ mem[table] = Empty
       [] OTHER         -> table = NotPresent

\* What the processor walks through, until memory ran out.
Shape ==
  /\ pc \in {"start", "failed", "copy"} => BootMap
  /\ pc = "copy" => new_pd \notin BootFrames /\ Copied
  /\ pc \in {"extend", "clear", "reload", "done"} => cr3 = new_pd /\ Maps(new_pd, idx) /\ Lower
  /\ pc = "extend" => idx <= total \/ idx = Entries
  /\ pc \in {"clear", "reload", "done"} => idx = IF total > Entries THEN total ELSE Entries

\* The new directory and its tables are different frames of the boot map, and
\* nobody else's.
Owned ==
  pc \notin {"start", "failed"} =>
    /\ {new_pd} \cup TablesOf(new_pd) \subseteq Taken \cap Index
    /\ new_pd \notin TablesOf(new_pd)
    /\ \A c, d \in Index : c # d /\ mem[new_pd][c] = mem[new_pd][d] => mem[new_pd][c] = NotPresent
    /\ pages \cap ({new_pd} \cup TablesOf(new_pd)) = {}

\* What the processor may have cached: addresses of frames, and the identity
\* map until the last flush.
Cache ==
  /\ \A t \in tlb : t[1] = P2V(t[2]) \/ (pc # "done" /\ t[1] = t[2] /\ t[1] \in Index)
  /\ pc = "done" => tlb \subseteq Translations

\* The frames the cached table is read into lie behind the page tables.
TableCache ==
  /\ stage = "load" => fat_buffer \subseteq Index
  /\ \A f \in fat_buffer : \A t \in {new_pd} \cup TablesOf(new_pd) : t < f

IInv ==
  /\ Types /\ Stages /\ Supply /\ Count
  /\ ~starved => Shape /\ Owned /\ Cache /\ ~fault /\ TableCache

-----------------------------------------------------------------------------
(* What follows from the invariant in a state.                             *)

LEMMA TableFrames ==
  /\ BootFrames \subseteq Index \ {0} /\ 0 \in Index /\ 0 \in Frames /\ KernelDir \in Index
  /\ BootDirectory # BootTable0 /\ BootDirectory # BootTable768 /\ BootTable0 # BootTable768
  /\ BootDirectory \in BootFrames /\ BootTable0 \in BootFrames /\ BootTable768 \in BootFrames
  /\ NotPresent \notin Frames
  BY Sizes, VmmAssumption DEF Index, BootFrames

LEMMA FiniteFrames ==
  ASSUME NEW S, S \subseteq Frames
  PROVE  IsFiniteSet(S) /\ Cardinality(S) \in Nat
  <1>1. IsFiniteSet(Frames)
    BY Sizes, FS_Interval DEF Frames
  <1>2. IsFiniteSet(S)
    BY <1>1, FS_Subset
  <1> QED
    BY <1>2, FS_CardinalityType

LEMMA AboveBootMap ==
  ASSUME NEW f \in Frames, f >= Entries
  PROVE  f \div Entries >= 1
  <1>0. f \in Nat /\ Entries \in Nat \ {0}
    BY Sizes
  <1>1. f = Entries * (f \div Entries) + (f % Entries) /\ f % Entries < Entries /\ f \div Entries \in Nat
    BY <1>0, Division
  <1>2. f \div Entries = 0 => Entries * (f \div Entries) = 0
    BY Sizes
  <1> QED
    BY <1>1, <1>2, Sizes

LEMMA MapsBoot ==
  ASSUME pages = {},
         NEW dir \in Frames, NEW low \in Frames, mem[dir][KernelDir] = low, mem[low] = Identity,
         \A d \in Index \ {0, KernelDir} : mem[dir][d] = NotPresent
  PROVE  Maps(dir, Entries)
  <1> DEFINE row == mem[dir]
  <1>1. ASSUME NEW f \in Frames
        PROVE  LET table == row[KernelDir + f \div Entries]
               IN IF f < Entries THEN table \in Frames /\ mem[table][f % Entries] = f
                  ELSE table = NotPresent
    <2>1. KernelDir + f \div Entries \in Index
      BY AddressOf
    <2>2. CASE f < Entries
      <3>1. f \in Index
        BY <2>2, Sizes DEF Index
      <3>2. f \div Entries = 0 /\ f % Entries = f
        BY <3>1, InBootMap
      <3>3. row[KernelDir + f \div Entries] = low
        BY <3>2, Sizes
      <3> QED
        BY <2>2, <3>1, <3>2, <3>3 DEF Identity
    <2>3. CASE ~(f < Entries)
      <3>1. f \div Entries >= 1
        BY <2>3, AboveBootMap, Sizes
      <3>2. KernelDir + f \div Entries \in Index \ {0, KernelDir}
        BY <2>1, <3>1, Sizes
      <3> QED
        BY <2>3, <3>2
    <2> QED
      BY <2>2, <2>3
  <1>2. \A d \in 1 .. KernelDir - 1 : row[d] = NotPresent
    BY Sizes DEF Index
  <1> HIDE DEF row
  <1> QED
    BY <1>1, <1>2 DEF Maps, row

\* The processor's walk through a directory that maps the first n frames.
LEMMA WalkThrough ==
  ASSUME Types, NEW n \in Nat, Maps(cr3, n)
  PROVE  /\ \A f \in Frames : Walk(P2V(f)) = IF f < n \/ f \in pages THEN f ELSE NotPresent
         /\ \A v \in Pages : Walk(v) \in Frames =>
              \/ v = P2V(Walk(v))
              \/ v \in Index /\ mem[cr3][0] # NotPresent /\ Walk(v) = mem[mem[cr3][0]][v]
  <1>1. ASSUME NEW f \in Frames
        PROVE  Walk(P2V(f)) = IF f < n \/ f \in pages THEN f ELSE NotPresent
    <2> DEFINE table == mem[cr3][KernelDir + f \div Entries]
    <2>1. Walk(P2V(f)) = IF table = NotPresent THEN NotPresent ELSE mem[table][f % Entries]
      BY AddressOf DEF Walk, PAGE_DIRECTORY_INDEX, PAGE_TABLE_INDEX
    <2>2. IF f < n \/ f \in pages THEN table \in Frames /\ mem[table][f % Entries] = f
          ELSE table = NotPresent \/ mem[table][f % Entries] = NotPresent
      BY DEF Maps
    <2> HIDE DEF table
    <2> QED
      BY <2>1, <2>2, TableFrames
  <1>2. ASSUME NEW v \in Pages, Walk(v) \in Frames
        PROVE  \/ v = P2V(Walk(v))
               \/ v \in Index /\ mem[cr3][0] # NotPresent /\ Walk(v) = mem[mem[cr3][0]][v]
    <2> DEFINE d == v \div Entries
    <2>1. /\ d \in Index /\ v % Entries \in Index /\ v = Entries * d + (v % Entries)
          /\ d >= KernelDir => v - Base \in Frames /\ v = P2V(v - Base)
      BY PageSplit
    <2>2. Walk(v) = IF mem[cr3][d] = NotPresent THEN NotPresent ELSE mem[mem[cr3][d]][v % Entries]
      BY DEF Walk, PAGE_DIRECTORY_INDEX, PAGE_TABLE_INDEX
    <2> HIDE DEF d
    <2>3. CASE d >= KernelDir
      BY <1>1, <1>2, <2>1, <2>3, TableFrames
    <2>4. CASE d \in 1 .. KernelDir - 1
      BY <1>2, <2>2, <2>4, TableFrames DEF Maps
    <2>5. CASE d = 0
      <3>1. v = v % Entries
        <4>1. Entries * 0 = 0 /\ v % Entries \in Nat
          BY <2>1, Sizes DEF Index
        <4> QED
          BY <2>1, <2>5, <4>1
      <3> QED
        BY <1>2, <2>1, <2>2, <2>5, <3>1, TableFrames
    <2>6. d \in Nat /\ KernelDir \in Nat
      BY <2>1, Sizes DEF Index
    <2> QED
      BY <2>3, <2>4, <2>5, <2>6
  <1> QED
    BY <1>1, <1>2

\* What the processor sees at every moment.
MapEnd == IF pc \in {"start", "failed", "copy"} THEN Entries ELSE idx

Seen ==
  /\ \A f \in Frames : Walk(P2V(f)) = IF f < MapEnd \/ f \in pages THEN f ELSE NotPresent
  /\ \A v \in Pages : Walk(v) \in Frames =>
       \/ v = P2V(Walk(v))
       \/ pc \notin {"reload", "done"} /\ v \in Index /\ Walk(v) = v

LEMMA ProcessorSees == Types /\ Shape => Seen
  <1> SUFFICES ASSUME Types, Shape PROVE Seen
    OBVIOUS
  <1>1. CASE pc \in {"start", "failed", "copy"}
    <2>1. BootMap /\ cr3 = BootDirectory /\ Entries \in Nat
      BY <1>1, Sizes DEF Shape, BootMap
    <2>2. Maps(cr3, Entries)
      <3>1. /\ mem[cr3][KernelDir] = BootTable768 /\ mem[BootTable768] = Identity
            /\ \A d \in Index \ {0, KernelDir} : mem[cr3][d] = NotPresent
        BY <2>1, TableFrames, Sizes DEF BootMap, Empty
      <3>2. cr3 \in Frames /\ BootTable768 \in Frames /\ pages = {}
        BY <1>1, TableFrames, Sizes DEF Types
      <3> QED
        BY <3>1, <3>2, MapsBoot
    <2>3. mem[cr3][0] = BootTable0 /\ \A v \in Index : mem[mem[cr3][0]][v] = v
      <3>1. mem[cr3] = [Empty EXCEPT ![0] = BootTable0, ![KernelDir] = BootTable768] /\ 0 # KernelDir
        BY <2>1, Sizes DEF BootMap
      <3>2. mem[cr3][0] = BootTable0
        BY <3>1, TableFrames DEF Empty
      <3> QED
        BY <2>1, <3>2 DEF BootMap, Identity
    <2> QED
      BY <1>1, <2>1, <2>2, <2>3, WalkThrough DEF Seen, MapEnd
  <1>2. CASE pc \in {"extend", "clear", "reload", "done"}
    <2>1. cr3 = new_pd /\ Maps(cr3, idx) /\ Lower /\ idx \in Nat
      BY <1>2, Sizes DEF Shape, Types
    <2>2. mem[cr3][0] # NotPresent =>
            \A v \in Index : mem[mem[cr3][0]][v] = NotPresent
                             \/ (pc = "extend" /\ mem[mem[cr3][0]][v] = v)
      BY <1>2, <2>1 DEF Lower, Identity, Empty
    <2>3. ASSUME NEW v \in Pages, Walk(v) \in Frames
          PROVE  \/ v = P2V(Walk(v))
                 \/ pc \notin {"reload", "done"} /\ v \in Index /\ Walk(v) = v
      BY <2>1, <2>2, <2>3, WalkThrough, TableFrames
    <2> QED
      BY <1>2, <2>1, <2>3, WalkThrough DEF Seen, MapEnd
  <1> QED
    BY <1>1, <1>2 DEF Types

LEMMA ProcessorSeesNext == Types' /\ Shape' => Seen'
  BY ProcessorSees, PTL

\* No access to the frames S misses.
LEMMA Reached ==
  ASSUME Seen, ~fault, NEW S, S \subseteq Frames, \A f \in S : f < MapEnd, Touch(S)
  PROVE  fault' = FALSE
  BY DEF Seen, Touch

\* The least of the free frames is behind those that were taken.
LEMMA LowestFacts ==
  ASSUME NEW S, S \subseteq Nat
  PROVE  IF S = {} THEN Lowest(S) = 0 ELSE Lowest(S) \in S /\ \A x \in S : Lowest(S) <= x
  <1> SUFFICES ASSUME S # {} PROVE Min(S) \in S /\ \A x \in S : Min(S) <= x
    BY DEF Lowest
  <1>1. \E n \in S : \A m \in S : n <= m
    BY LeastElement
  <1> QED
    BY <1>1 DEF Min

LEMMA Taking ==
  ASSUME Supply, free # {}, NEW l, l = Lowest(free)
  PROVE  /\ l \in free /\ l \in Frames \ {0} /\ l \notin Taken
         /\ atBoot \ (free \ {l}) = Taken \cup {l}
         /\ \A t \in Taken \cup {l}, f \in free \ {l} : t < f
         /\ Taken \subseteq Frames
         /\ Cardinality(Taken \cup {l}) = Cardinality(Taken) + 1 /\ Cardinality(Taken) \in Nat
         /\ Cardinality(Taken) < 3 => l \notin BootFrames
         /\ Cardinality(Taken) < 3 + Entries - KernelDir => l + FatPages <= Entries /\ l \in Index
  <1>1. atBoot \in FreeSets /\ free \subseteq atBoot /\ atBoot \subseteq Frames \ {0}
    BY VmmAssumption DEF Supply
  <1>2. free \subseteq Nat /\ Frames \subseteq Nat
    BY <1>1, Sizes
  <1>3. l \in free /\ \A f \in free : l <= f
    BY <1>2, LowestFacts
  <1>4. l \in Frames \ {0} /\ l \in Nat /\ l \notin Taken /\ Taken \subseteq Frames
    BY <1>1, <1>2, <1>3 DEF Taken
  <1>5. atBoot \ (free \ {l}) = Taken \cup {l}
    BY <1>1, <1>3 DEF Taken
  <1>6. \A t \in Taken \cup {l}, f \in free \ {l} : t < f
    BY <1>2, <1>3 DEF Supply
  <1>7. IsFiniteSet(Taken) /\ Cardinality(Taken) \in Nat
    BY <1>4, FiniteFrames
  <1>8. Cardinality(Taken \cup {l}) = Cardinality(Taken) + 1
    BY <1>4, <1>7, FS_AddElement
  <1>9. {g \in atBoot : g < l} = Taken
    <2>1. ASSUME NEW g \in atBoot PROVE g < l <=> g \notin free
      <3>1. g \in Nat
        BY <1>1, <1>2
      <3>2. g \in free => l <= g
        BY <1>3
      <3>3. g \notin free => g < l
        BY <1>3 DEF Supply, Taken
      <3> QED
        BY <1>4, <3>1, <3>2, <3>3
    <2> QED
      BY <2>1 DEF Taken
  <1>10. Cardinality(Taken) < 3 => l \notin BootFrames
    BY <1>1, <1>3, <1>7, <1>9, VmmAssumption
  <1>11. Cardinality(Taken) < 3 + Entries - KernelDir => l + FatPages <= Entries /\ l \in Index
    <2>1. Entries \in Nat /\ KernelDir \in Nat /\ FatPages \in Nat \ {0}
      BY Sizes, KernelAssumption
    <2>2. l + FatPages > Entries => Cardinality(Taken) >= 3 + Entries - KernelDir
      BY <1>1, <1>3, <1>9, KernelAssumption
    <2> QED
      BY <1>4, <1>7, <2>1, <2>2 DEF Index
  <1> QED
    BY <1>3, <1>4, <1>5, <1>6, <1>7, <1>8, <1>10, <1>11

LEMMA TakenFinite ==
  ASSUME Supply
  PROVE  Taken \subseteq Frames /\ IsFiniteSet(Taken) /\ Cardinality(Taken) \in Nat
  <1>1. Taken \subseteq Frames
    BY VmmAssumption DEF Supply, Taken
  <1> QED
    BY <1>1, FiniteFrames

LEMMA OutOfMemory ==
  ASSUME Types, Supply, free = {},
         Cardinality(Taken) <= 4 + (IF total > Entries THEN (total - 1) \div Entries ELSE 0)
  PROVE  Spare < 0
  <1> DEFINE low == {f \in atBoot : f < LowEnd}
             parts == IF total > Entries THEN (total - 1) \div Entries ELSE 0
  <1>1. atBoot \subseteq Frames /\ Taken = atBoot
    BY VmmAssumption DEF Supply, Taken
  <1>2. IsFiniteSet(atBoot) /\ Cardinality(atBoot) \in Nat /\ Cardinality(low) \in Nat
    BY <1>1, FiniteFrames
  <1>3. Cardinality(low) <= Cardinality(atBoot)
    BY <1>2, FS_Subset
  <1>4. parts \in Nat
    BY Sizes DEF Types
  <1>5. Spare = Cardinality(low) - (5 + parts)
    BY DEF Spare, BootNeeds
  <1> HIDE DEF low, parts
  <1> QED
    BY <1>1, <1>2, <1>3, <1>4, <1>5 DEF parts

-----------------------------------------------------------------------------
(* Steps: the parts every action keeps in the same way.                    *)

\* What the processor caches in a step that does not flush.
LEMMA Filled ==
  ASSUME Cache, Fill, Types', Shape', pc' = "done" => pc = "done" /\ Translations \subseteq Translations'
  PROVE  Cache'
  <1>1. Seen'
    BY ProcessorSeesNext
  <1>2. ASSUME NEW t \in Translations'
        PROVE  t[1] = P2V(t[2]) \/ (pc' # "done" /\ t[1] = t[2] /\ t[1] \in Index)
    BY <1>1, <1>2 DEF Translations, Seen
  <1>3. pc' = "done" => Translations \subseteq Translations'
    OBVIOUS
  <1>4. tlb' = tlb \cup Translations'
    BY DEF Fill
  <1>5. \A t \in tlb' : t[1] = P2V(t[2]) \/ (pc' # "done" /\ t[1] = t[2] /\ t[1] \in Index)
    BY <1>2, <1>4 DEF Cache
  <1>6. pc' = "done" => tlb' \subseteq Translations'
    BY <1>3, <1>4 DEF Cache
  <1> QED
    BY <1>5, <1>6 DEF Cache, P2V

LEMMA Flushed ==
  ASSUME Flush, Types', Shape'
  PROVE  Cache'
  <1>1. Seen'
    BY ProcessorSeesNext
  <1>2. ASSUME NEW t \in Translations'
        PROVE  t[1] = P2V(t[2]) \/ (pc' # "done" /\ t[1] = t[2] /\ t[1] \in Index)
    BY <1>1, <1>2 DEF Translations, Seen
  <1>3. tlb' = Translations'
    BY DEF Flush
  <1> QED
    BY <1>2, <1>3 DEF Cache, P2V

LEMMA CachedPages ==
  ASSUME Types, Fill \/ Flush
  PROVE  tlb' \subseteq Pages \X Frames
  BY DEF Types, Fill, Flush, Translations

LEMMA TouchType ==
  ASSUME Types, NEW S, Touch(S)
  PROVE  fault' \in BOOLEAN
  <1>1. (fault \/ \E f \in S : Walk(P2V(f)) # f) \in BOOLEAN
    OBVIOUS
  <1> QED
    BY <1>1, Zenon DEF Touch

\* Until vmmngr_initialize has returned nobody else takes a frame.
LEMMA Early ==
  ASSUME Types, Stages, ~VmmReturned, UNCHANGED kernelVars, pages' = pages
  PROVE  /\ Stages' /\ TableCache' /\ pages = {} /\ handles = {} /\ handles' = {}
         /\ ForPages = 0 /\ ForPages' = 0
  <1>1. pc # "done" /\ stage = "fat12_init" /\ pages = {} /\ handles = {} /\ fat_buffer = {}
    BY DEF Types, Stages, VmmReturned
  <1>2. stage' = "fat12_init" /\ pages' = {} /\ handles' = {} /\ fat_buffer' = {}
    BY <1>1 DEF kernelVars
  <1> QED
    BY <1>1, <1>2 DEF Stages, TableCache, ForPages

LEMMA NoneTaken ==
  ASSUME Supply, UNCHANGED <<free, pages, atBoot, total, starved>>, pc' # "done" => pc # "done"
  PROVE  Supply' /\ Taken' = Taken /\ Spare' = Spare
  BY DEF Supply, Taken, Spare, BootNeeds

LEMMA OneTaken ==
  ASSUME Supply, free # {}, NEW l, l = Lowest(free), free' = free \ {l}, UNCHANGED atBoot,
         pages' = pages \/ pages' = pages \cup {l}, ~starved'
  PROVE  Supply' /\ Taken' = Taken \cup {l}
  <1>1. Taken' = Taken \cup {l}
    BY Taking DEF Taken
  <1>2. \A t \in Taken', f \in free' : t < f
    BY <1>1, Taking
  <1> QED
    BY <1>1, <1>2 DEF Supply

\* A search that finds nothing.
LEMMA RanOut ==
  ASSUME Types, Supply, free = {}, free' = {}, UNCHANGED <<pages, atBoot, total>>, starved',
         handles' = {},
         Cardinality(Taken) <= 4 + (IF total > Entries THEN (total - 1) \div Entries ELSE 0)
  PROVE  Supply' /\ Count'
  <1>1. Spare < 0
    BY OutOfMemory
  <1>2. Spare' < 0
    BY <1>1 DEF Spare, BootNeeds
  <1>3. Cardinality(handles') = 0
    BY FS_EmptySet
  <1> QED
    BY <1>2, <1>3 DEF Supply, Taken, Count

\* A free frame becomes the table of directory entry d.
LEMMA NewTable ==
  ASSUME Types, Owned, pages = {}, pages' = {}, new_pd' = new_pd,
         pc \notin {"start", "failed"}, NEW d \in Index, mem[new_pd][d] = NotPresent,
         NEW l \in Index, l \notin Taken, Taken' = Taken \cup {l},
         mem'[new_pd] = [mem[new_pd] EXCEPT ![d] = l]
  PROVE  /\ Owned' /\ l # new_pd
         /\ \A c \in Index : mem[new_pd][c] # NotPresent =>
              mem[new_pd][c] \in Frames \ {l, new_pd}
  <1>1. /\ {new_pd} \cup TablesOf(new_pd) \subseteq Taken \cap Index
        /\ new_pd \notin TablesOf(new_pd)
        /\ \A c, e \in Index : c # e /\ mem[new_pd][c] = mem[new_pd][e] => mem[new_pd][c] = NotPresent
    BY DEF Owned
  <1>2. \A c \in Index : mem[new_pd][c] # NotPresent => mem[new_pd][c] \in TablesOf(new_pd)
    BY DEF TablesOf
  <1>3. \A c \in Index : mem'[new_pd][c] = IF c = d THEN l ELSE mem[new_pd][c]
    BY DEF Types
  <1>4. TablesOf(new_pd)' = TablesOf(new_pd) \cup {l}
    <2>1. l # NotPresent
      BY TableFrames, Sizes
    <2> QED
      BY <1>3, <2>1 DEF TablesOf
  <1>5. l # new_pd /\ l \notin TablesOf(new_pd)
    BY <1>1
  <1>6. \A c, e \in Index : c # e /\ mem'[new_pd][c] = mem'[new_pd][e] => mem'[new_pd][c] = NotPresent
    BY <1>1, <1>2, <1>3, <1>5
  <1>7. Owned'
    BY <1>1, <1>4, <1>5, <1>6 DEF Owned
  <1> QED
    BY <1>1, <1>2, <1>5, <1>7, Sizes

\* The directory stays, and what was taken.
LEMMA SameTables ==
  ASSUME Owned, pc \notin {"start", "failed"}, new_pd' = new_pd, mem'[new_pd] = mem[new_pd],
         Taken' = Taken, pages' = pages
  PROVE  Owned' /\ TablesOf(new_pd)' = TablesOf(new_pd)
  <1>1. TablesOf(new_pd)' = TablesOf(new_pd)
    BY DEF TablesOf
  <1> QED
    BY <1>1 DEF Owned

-----------------------------------------------------------------------------
(* The first state, and one lemma for each action.                         *)

LEMMA InitInv == KernelInit => IInv
  <1> SUFFICES ASSUME KernelInit PROVE IInv
    OBVIOUS
  <1> USE DEF KernelInit, Init
  <1>1. Types
    <2>1. mem \in [Frames -> [Index -> Frames \cup {NotPresent}]]
      BY TableFrames, Sizes DEF Empty
    <2>2. BootDirectory \in Frames /\ 0 \in Frames /\ total \in Nat /\ 0 \in 0 .. Window
      BY TableFrames, Sizes, VmmAssumption
    <2> QED
      BY <2>1, <2>2 DEF Types, Translations
  <1>2. Stages
    BY DEF Stages
  <1>3. Supply /\ Taken = {}
    BY DEF Supply, Taken
  <1>4. Count
    <2>1. Cardinality(Taken) = 0
      BY <1>3, FS_EmptySet
    <2> QED
      BY <2>1 DEF Count, ForTables, ForPages
  <1>5. Shape
    <2>1. \A f \in Frames : mem[f] =
            CASE f = BootDirectory -> [Empty EXCEPT ![0] = BootTable0, ![KernelDir] = BootTable768]
              [] f \in {BootTable0, BootTable768} -> Identity
              [] OTHER -> Empty
      BY DEF Identity
    <2>2. BootDirectory \in Frames /\ BootTable0 \in Frames /\ BootTable768 \in Frames
      BY TableFrames, Sizes
    <2>3. BootMap
      BY <2>1, <2>2, TableFrames DEF BootMap
    <2> QED
      BY <2>3 DEF Shape
  <1>6. Cache
    <2>1. Seen
      BY <1>1, <1>5, ProcessorSees
    <2> QED
      BY <2>1 DEF Seen, Cache, Translations
  <1> QED
    BY <1>1, <1>2, <1>3, <1>4, <1>5, <1>6 DEF IInv, Owned, TableCache

LEMMA AllocDirectoryStep == IInv /\ AllocDirectory /\ UNCHANGED kernelVars => IInv'
  <1> SUFFICES ASSUME IInv, AllocDirectory, UNCHANGED kernelVars PROVE IInv'
    OBVIOUS
  <1>0. /\ Types /\ Stages /\ Supply /\ Count /\ ~starved
        /\ Shape /\ Cache /\ ~fault /\ pc = "start" /\ idx = 0
    BY DEF IInv, Types, AllocDirectory
  <1>1. /\ UNCHANGED <<cr3, idx, pages, starved, atBoot>> /\ Fill
        /\ new_pd' = Lowest(free) /\ free' = free \ {new_pd'}
    BY DEF AllocDirectory, Without, kernelVars
  <1>2. Stages' /\ TableCache' /\ ForPages = 0 /\ ForPages' = 0 /\ handles = {} /\ handles' = {}
    BY <1>0, <1>1, Early DEF VmmReturned
  <1>3. total' \in Nat /\ total' <= Window
    <2>1. total' = IF total > Window THEN Window ELSE total
      BY DEF AllocDirectory, Capped
    <2> QED
      BY <1>0, <2>1, Sizes DEF Types
  <1>4. tlb' \subseteq Pages \X Frames
    BY <1>0, <1>1, CachedPages
  <1>5. Cardinality(Taken) <= 0
    BY <1>0, <1>2 DEF Count, ForTables
  <1>6. free \subseteq Frames \ {0} /\ free \subseteq Nat
    BY <1>0, VmmAssumption, Sizes DEF Supply
  <1>7. CASE free = {}
    <2>1. new_pd' = 0 /\ free' = free
      BY <1>1, <1>6, <1>7, LowestFacts
    <2>2. pc' = "failed" /\ UNCHANGED <<mem, fault>>
      BY <2>1 DEF AllocDirectory
    <2>3. Types'
      BY <1>0, <1>1, <1>3, <1>4, <2>1, <2>2, TableFrames DEF Types
    <2>4. Supply' /\ Taken' = Taken
      BY <1>0, <1>1, <1>3, <2>1 DEF Supply, Taken
    <2>5. Count'
      BY <1>0, <1>1, <1>2, <1>5, <2>2, <2>4 DEF Count, ForTables
    <2>6. Shape'
      BY <1>0, <1>1, <2>2 DEF Shape, BootMap
    <2>7. Cache'
      BY <1>0, <1>1, <2>2, <2>3, <2>6, Filled
    <2> QED
      BY <1>0, <1>2, <2>2, <2>3, <2>4, <2>5, <2>6, <2>7 DEF IInv, Owned
  <1>8. CASE free # {}
    <2> DEFINE l == Lowest(free)
    <2>1. /\ l \in free /\ l \in Frames \ {0} /\ l \in Index /\ l \notin BootFrames
          /\ Cardinality(Taken \cup {l}) = Cardinality(Taken) + 1 /\ Cardinality(Taken) \in Nat
      <3>1. Cardinality(Taken) < 3 /\ Cardinality(Taken) < 3 + Entries - KernelDir
        <4>1. Cardinality(Taken) \in Nat
          BY <1>0, <1>8, Taking
        <4> QED
          BY <1>5, <4>1, Sizes
      <3> HIDE DEF l
      <3> QED
        BY <1>0, <1>8, <3>1, Taking DEF l
    <2>2. new_pd' = l /\ free' = free \ {l}
      BY <1>1
    <2>3. pc' = "copy" /\ mem' = [mem EXCEPT ![l] = Empty] /\ Touch({l})
      BY <2>1, <2>2 DEF AllocDirectory
    <2>4. Supply' /\ Taken' = Taken \cup {l}
      BY <1>0, <1>1, <1>3, <1>8, <2>2, OneTaken
    <2> HIDE DEF l
    <2>5. fault' = FALSE
      <3>1. Seen /\ MapEnd = Entries /\ l < Entries
        BY <1>0, <2>1, ProcessorSees, Sizes DEF MapEnd, Index
      <3> QED
        BY <1>0, <2>1, <2>3, <3>1, Reached
    <2>6. Types'
      <3>1. mem' \in [Frames -> [Index -> Frames \cup {NotPresent}]]
        BY <1>0, <2>3 DEF Types, Empty
      <3> QED
        BY <1>0, <1>1, <1>3, <1>4, <2>1, <2>2, <2>3, <2>5, <3>1 DEF Types
    <2>7. Count'
      BY <1>0, <1>1, <1>2, <1>5, <2>1, <2>3, <2>4 DEF Count, ForTables
    <2>8. /\ mem'[l] = Empty /\ \A f \in Frames \ {l} : mem'[f] = mem[f]
      BY <1>0, <2>1, <2>3 DEF Types
    <2>9. Shape'
      <3>1. BootMap'
        <4>1. \A f \in BootFrames : mem'[f] = mem[f]
          BY <2>1, <2>8, TableFrames, Sizes
        <4> QED
          BY <1>0, <1>1, <4>1, TableFrames DEF Shape, BootMap
      <3>2. Copied'
        <4>1. \A d \in Index : ~(d < idx')
          BY <1>0, <1>1, Sizes DEF Index
        <4> QED
          BY <2>2, <2>8, <4>1 DEF Copied, Empty
      <3> QED
        BY <2>1, <2>2, <2>3, <3>1, <3>2 DEF Shape
    <2>10. Owned'
      <3>1. \A d \in Index : mem'[new_pd'][d] = NotPresent
        BY <2>2, <2>8 DEF Empty
      <3>2. TablesOf(new_pd)' = {}
        BY <3>1 DEF TablesOf
      <3>3. pages' = {}
        BY <1>0, <1>1 DEF Types
      <3> QED
        BY <2>1, <2>2, <2>4, <3>1, <3>2, <3>3 DEF Owned
    <2>11. Cache'
      BY <1>0, <1>1, <2>3, <2>6, <2>9, Filled
    <2> QED
      BY <1>2, <2>4, <2>5, <2>6, <2>7, <2>9, <2>10, <2>11 DEF IInv
  <1> QED
    BY <1>7, <1>8

LEMMA CopyTableStep == IInv /\ CopyTable /\ UNCHANGED kernelVars => IInv'
  <1> SUFFICES ASSUME IInv, CopyTable, UNCHANGED kernelVars PROVE IInv'
    OBVIOUS
  <1> DEFINE l == Lowest(free)
             old == mem[cr3][idx]
  <1>0. /\ Types /\ Stages /\ Supply /\ Count /\ pc = "copy" /\ pc' = "copy" /\ idx \in Index
        /\ idx' = idx + 1 /\ idx \in Nat
    BY Sizes DEF IInv, CopyTable
  <1>1. UNCHANGED <<cr3, new_pd, total, pages, atBoot>> /\ Fill
    BY DEF CopyTable, kernelVars
  <1>2. Stages' /\ TableCache' /\ ForPages = 0 /\ ForPages' = 0 /\ pages = {} /\ handles = {} /\ handles' = {}
    BY <1>0, <1>1, Early DEF VmmReturned
  <1>3. tlb' \subseteq Pages \X Frames /\ idx' \in 0 .. Window
    BY <1>0, <1>1, CachedPages, Sizes DEF Index
  <1>4. CASE ~Copies
    <2>1. UNCHANGED <<mem, free, starved>> /\ Touch({cr3})
      BY <1>4 DEF CopyTable
    <2>2. fault' \in BOOLEAN
      BY <1>0, <2>1, TouchType
    <2>3. Types'
      BY <1>0, <1>1, <1>3, <2>1, <2>2 DEF Types
    <2>4. Supply' /\ Taken' = Taken /\ Spare' = Spare
      BY <1>0, <1>1, <2>1, NoneTaken
    <2>5. CASE starved
      BY <1>0, <1>2, <2>1, <2>3, <2>4, <2>5 DEF IInv, Count
    <2>6. CASE ~starved
      <3>1. Shape /\ Owned /\ Cache /\ ~fault /\ BootMap /\ Copied
        BY <1>0, <2>6 DEF IInv, Shape
      <3>2. idx \notin {0, KernelDir}
        BY <1>4, <3>1, TableFrames, Sizes DEF Copies, BootMap, Empty
      <3>3. Count'
        <4>1. Cardinality(Taken) <= ForTables
          BY <1>0, <1>2, <2>6, Sizes DEF Count, ForTables
        <4>2. ForTables \in Nat /\ ForTables' \in Nat /\ ForTables <= ForTables'
          BY <1>0, <3>2, Sizes DEF ForTables
        <4>3. Cardinality(Taken) \in Nat
          BY <1>0, TakenFinite
        <4>4. Cardinality(Taken') <= ForTables'
          BY <2>4, <4>1, <4>2, <4>3
        <4> QED
          BY <1>2, <2>1, <2>6, <4>2, <4>4 DEF Count
      <3>4. Copied'
        <4>1. \A d \in Index : (d < idx' /\ d \in {0, KernelDir}) <=> (d < idx /\ d \in {0, KernelDir})
          BY <1>0, <3>2, Sizes DEF Index
        <4> QED
          BY <1>1, <2>1, <3>1, <4>1 DEF Copied
      <3>5. Shape'
        BY <1>0, <1>1, <2>1, <3>1, <3>4 DEF Shape, BootMap
      <3>6. Owned'
        BY <1>0, <1>1, <2>1, <2>4, <3>1, SameTables
      <3>7. fault' = FALSE
        <4>1. Seen /\ MapEnd = Entries
          BY <1>0, <3>1, ProcessorSees DEF MapEnd
        <4>2. {cr3} \subseteq Frames /\ cr3 < Entries
          BY <1>0, <3>1, TableFrames, Sizes DEF Types, BootMap, Index
        <4> QED
          BY <2>1, <3>1, <4>1, <4>2, Reached
      <3>8. Cache'
        BY <1>0, <1>1, <2>3, <3>1, <3>5, Filled
      <3> QED
        BY <1>2, <2>3, <2>4, <3>3, <3>5, <3>6, <3>7, <3>8 DEF IInv
    <2> QED
      BY <2>5, <2>6
  <1>5. CASE Copies
    <2>1. /\ mem' = [mem EXCEPT ![l] = mem[old], ![new_pd][idx] = l] /\ free' = free \ {l}
          /\ starved' = (starved \/ l = 0) /\ Touch({cr3, new_pd, old, l})
      BY <1>5 DEF CopyTable, Without
    <2>2. free \subseteq Frames \ {0} /\ free \subseteq Nat
      BY <1>0, VmmAssumption, Sizes DEF Supply
    <2>3. l \in Frames /\ (l = 0 <=> free = {})
      BY <2>2, LowestFacts, TableFrames
    <2>4. old \in Frames
      BY <1>0, <1>5 DEF Types, Copies
    <2>5. fault' \in BOOLEAN /\ starved' \in BOOLEAN
      <3>1. (starved \/ l = 0) \in BOOLEAN
        OBVIOUS
      <3>2. starved' \in BOOLEAN
        BY <2>1, <3>1, Zenon
      <3> QED
        BY <1>0, <2>1, <3>2, TouchType
    <2> HIDE DEF l, old
    <2>6. Types'
      <3>1. mem' \in [Frames -> [Index -> Frames \cup {NotPresent}]]
        BY <1>0, <2>1, <2>3, <2>4 DEF Types
      <3> QED
        BY <1>0, <1>1, <1>3, <2>5, <3>1 DEF Types
    <2>7. CASE starved
      <3>1. free = {} /\ free' = {} /\ starved'
        BY <1>0, <2>1, <2>7 DEF Supply
      <3>2. Supply' /\ Spare' = Spare
        BY <1>0, <1>1, <3>1 DEF Supply, Taken, Spare, BootNeeds
      <3> QED
        BY <1>0, <1>2, <2>6, <2>7, <3>1, <3>2 DEF IInv, Count
    <2>8. CASE ~starved
      <3>1. Shape /\ Owned /\ Cache /\ ~fault /\ BootMap /\ Copied /\ new_pd \notin BootFrames
        BY <1>0, <2>8 DEF IInv, Shape
      <3>2. idx \in {0, KernelDir} /\ old \in BootFrames /\ mem[old] = Identity
        BY <1>0, <1>5, <3>1, TableFrames, Sizes DEF Copies, BootMap, Empty, old
      <3>3. Cardinality(Taken) <= (IF idx = 0 THEN 1 ELSE 2)
        BY <1>0, <1>2, <2>8, <3>2, Sizes DEF Count, ForTables
      <3>4. CASE free = {}
        <4>1. Cardinality(Taken) \in Nat /\ (IF total > Entries THEN (total - 1) \div Entries ELSE 0) \in Nat
          <5>1. (IF total > Entries THEN (total - 1) \div Entries ELSE 0) \in Nat
            BY <1>0, Sizes DEF Types
          <5> QED
            BY <1>0, <5>1, TakenFinite
        <4>2. Cardinality(Taken) <= 4 + (IF total > Entries THEN (total - 1) \div Entries ELSE 0)
          BY <3>3, <4>1
        <4>3. free' = {} /\ starved'
          BY <2>1, <2>3, <3>4
        <4>4. Supply' /\ Count'
          BY <1>0, <1>1, <1>2, <3>4, <4>2, <4>3, RanOut
        <4> QED
          BY <1>2, <2>6, <4>3, <4>4 DEF IInv
      <3>5. CASE free # {}
        <4>1. /\ l \in Index /\ l \notin BootFrames /\ l \notin Taken
              /\ Cardinality(Taken \cup {l}) = Cardinality(Taken) + 1 /\ Cardinality(Taken) \in Nat
          <5>1. Cardinality(Taken) \in Nat
            BY <1>0, <3>5, Taking
          <5>2. Cardinality(Taken) < 3 /\ Cardinality(Taken) < 3 + Entries - KernelDir
            BY <3>3, <5>1, Sizes
          <5> QED
            BY <1>0, <3>5, <5>2, Taking DEF l
        <4>2. ~starved'
          BY <2>1, <2>3, <2>8, <3>5
        <4>3. Supply' /\ Taken' = Taken \cup {l}
          BY <1>0, <1>1, <2>1, <3>5, <4>2, OneTaken DEF l
        <4>4. Count'
          BY <1>0, <1>2, <3>2, <3>3, <4>1, <4>2, <4>3, Sizes DEF Count, ForTables
        <4>5. mem[new_pd][idx] = NotPresent /\ new_pd \in Taken
          BY <1>0, <3>1 DEF Copied, Owned
        <4>6. /\ mem'[l] = Identity /\ mem'[new_pd] = [mem[new_pd] EXCEPT ![idx] = l]
              /\ \A f \in Frames \ {l, new_pd} : mem'[f] = mem[f]
          BY <1>0, <2>1, <2>3, <3>2, <4>1, <4>5 DEF Types
        <4>7. /\ Owned' /\ l # new_pd
              /\ \A c \in Index : mem[new_pd][c] # NotPresent =>
                   mem[new_pd][c] \in Frames \ {l, new_pd}
          BY <1>0, <1>1, <1>2, <3>1, <4>1, <4>3, <4>5, <4>6, NewTable
        <4>8. BootMap'
          <5>1. \A f \in BootFrames : mem'[f] = mem[f]
            BY <3>1, <4>1, <4>6, TableFrames, Sizes
          <5> QED
            BY <1>1, <3>1, <5>1, TableFrames DEF BootMap
        <4>9. Copied'
          <5>1. \A d \in Index : mem'[new_pd'][d] = IF d = idx THEN l ELSE mem[new_pd][d]
            BY <1>0, <1>1, <4>6 DEF Types
          <5>2. ASSUME NEW d \in Index
                PROVE  IF d < idx' /\ d \in {0, KernelDir}
                       THEN mem'[new_pd'][d] \in Frames \ BootFrames /\ mem'[mem'[new_pd'][d]] = Identity
                       ELSE mem'[new_pd'][d] = NotPresent
            <6>1. d \in Nat
              BY Sizes
            <6>2. CASE d = idx
              BY <1>0, <2>3, <3>2, <4>1, <4>6, <5>1, <6>2
            <6>3. CASE d # idx
              <7>1. d < idx' <=> d < idx
                BY <1>0, <6>1, <6>3
              <7>2. IF d < idx /\ d \in {0, KernelDir}
                    THEN mem[new_pd][d] \in Frames \ BootFrames /\ mem[mem[new_pd][d]] = Identity
                    ELSE mem[new_pd][d] = NotPresent
                BY <3>1 DEF Copied
              <7> QED
                BY <4>6, <4>7, <5>1, <6>3, <7>1, <7>2, TableFrames
            <6> QED
              BY <6>2, <6>3
          <5> QED
            BY <5>2 DEF Copied, Identity
        <4>10. Shape'
          BY <1>0, <1>1, <3>1, <4>8, <4>9 DEF Shape
        <4>11. fault' = FALSE
          <5>1. Seen /\ MapEnd = Entries
            BY <1>0, <3>1, ProcessorSees DEF MapEnd
          <5>2. {cr3, new_pd, old, l} \subseteq Index
            BY <1>0, <3>1, <3>2, <4>1, TableFrames DEF BootMap, Owned
          <5>3. {cr3, new_pd, old, l} \subseteq Frames /\ \A f \in {cr3, new_pd, old, l} : f < Entries
            BY <5>2, Sizes DEF Index
          <5> QED
            BY <2>1, <3>1, <5>1, <5>3, Reached
        <4>12. Cache'
          BY <1>0, <1>1, <2>6, <3>1, <4>10, Filled
        <4> QED
          BY <1>2, <2>6, <4>3, <4>4, <4>7, <4>10, <4>11, <4>12 DEF IInv
      <3> QED
        BY <3>4, <3>5
    <2> QED
      BY <2>7, <2>8
  <1> QED
    BY <1>4, <1>5

LEMMA SwitchStep == IInv /\ Switch /\ UNCHANGED kernelVars => IInv'
  <1> SUFFICES ASSUME IInv, Switch, UNCHANGED kernelVars PROVE IInv'
    OBVIOUS
  <1>0. /\ Types /\ Stages /\ Supply /\ Count /\ pc = "copy" /\ pc' = "extend"
        /\ idx = Entries /\ idx' = Entries /\ cr3' = new_pd
        /\ UNCHANGED <<mem, new_pd, free, total, pages, fault, starved, atBoot>> /\ Flush
    BY DEF IInv, Switch, kernelVars
  <1>1. Stages' /\ TableCache' /\ ForPages = 0 /\ ForPages' = 0 /\ pages = {} /\ handles = {} /\ handles' = {}
    BY <1>0, Early DEF VmmReturned
  <1>2. Types'
    <2>1. tlb' \subseteq Pages \X Frames
      BY <1>0, CachedPages
    <2> QED
      BY <1>0, <2>1, Sizes DEF Types
  <1>3. Supply' /\ Taken' = Taken /\ Spare' = Spare
    BY <1>0, NoneTaken
  <1>4. CASE starved
    BY <1>0, <1>1, <1>2, <1>3, <1>4 DEF IInv, Count
  <1>5. CASE ~starved
    <2>1. Shape /\ Owned /\ ~fault /\ Copied
      BY <1>0, <1>5 DEF IInv, Shape
    <2>2. Count'
      <3>1. ForTables <= 3 /\ ForTables \in Nat /\ (Entries - 1) \div Entries \in Nat
        BY <1>0, Sizes DEF ForTables
      <3>2. ForTables' = 3 + (Entries - 1) \div Entries
        BY <1>0 DEF ForTables
      <3>3. Cardinality(Taken) <= ForTables
        BY <1>0, <1>1, <1>5, <3>1 DEF Count
      <3>4. Cardinality(Taken') <= ForTables'
        BY <1>0, <1>3, <3>1, <3>2, <3>3, TakenFinite
      <3>5. ForTables' \in Nat
        BY <3>1, <3>2
      <3> QED
        BY <1>0, <1>1, <1>5, <3>4, <3>5 DEF Count
    <2>3. \A d \in Index : d < idx
      BY <1>0, Sizes DEF Index
    <2>4. /\ mem[new_pd][0] \in Frames /\ mem[mem[new_pd][0]] = Identity
          /\ mem[new_pd][KernelDir] \in Frames /\ mem[mem[new_pd][KernelDir]] = Identity
          /\ \A d \in Index \ {0, KernelDir} : mem[new_pd][d] = NotPresent
      BY <2>1, <2>3, TableFrames DEF Copied
    <2>5. Maps(new_pd, Entries)
      <3>1. new_pd \in Frames
        BY <1>0 DEF Types
      <3> QED
        BY <1>1, <2>4, <3>1, MapsBoot
    <2>6. Maps(new_pd, idx)' /\ Lower'
      BY <1>0, <2>4, <2>5, TableFrames DEF Maps, Lower, Identity
    <2>7. Shape'
      BY <1>0, <2>6 DEF Shape
    <2>8. Owned'
      BY <1>0, <1>3, <2>1, SameTables
    <2>9. Cache'
      BY <1>0, <1>2, <2>7, Flushed
    <2> QED
      BY <1>0, <1>1, <1>2, <1>3, <2>1, <2>2, <2>7, <2>8, <2>9 DEF IInv
  <1> QED
    BY <1>4, <1>5

\* The identity map's table lies elsewhere than the directory and the other tables.
LEMMA IdentityTable ==
  ASSUME Types, Owned, pc \notin {"start", "failed"}, mem[new_pd][0] # NotPresent
  PROVE  /\ mem[new_pd][0] \in Frames \cap Index /\ mem[new_pd][0] # new_pd
         /\ \A d \in Index \ {0} : mem[new_pd][d] # mem[new_pd][0]
  <1>1. 0 \in Index
    BY TableFrames
  <1>2. mem[new_pd][0] \in TablesOf(new_pd)
    BY <1>1 DEF TablesOf
  <1> QED
    BY <1>1, <1>2, Sizes DEF Owned

\* What the code reaches once it runs on the copy.
LEMMA ReachedOnCopy ==
  ASSUME Types, Shape, Owned, ~fault, pc \in {"extend", "clear", "reload", "done"}
  PROVE  /\ Touch({new_pd}) => fault' = FALSE
         /\ \A d \in Index : mem[new_pd][d] # NotPresent /\ Touch({new_pd, mem[new_pd][d]}) => fault' = FALSE
         /\ \A l \in Index : Touch({new_pd, l}) => fault' = FALSE
  <1>1. Seen /\ MapEnd = idx
    BY ProcessorSees DEF MapEnd
  <1>2. idx >= Entries /\ idx \in Nat
    BY Sizes DEF Types, Shape
  <1>3. \A f \in Index : f \in Frames /\ f < MapEnd
    BY <1>1, <1>2, Sizes DEF Index
  <1>4. new_pd \in Index
    BY DEF Owned
  <1>5. ASSUME NEW d \in Index, mem[new_pd][d] # NotPresent PROVE mem[new_pd][d] \in Index
    BY <1>5 DEF Owned, TablesOf
  <1> QED
    BY <1>1, <1>3, <1>4, <1>5, Reached

LEMMA ClearIdentityTableStep == IInv /\ ClearIdentityTable /\ UNCHANGED kernelVars => IInv'
  <1> SUFFICES ASSUME IInv, ClearIdentityTable, UNCHANGED kernelVars PROVE IInv'
    OBVIOUS
  <1> DEFINE low == mem[new_pd][0]
  <1>0. /\ Types /\ Stages /\ Supply /\ Count /\ pc = "extend" /\ pc' = "clear" /\ idx >= total
        /\ mem' = [mem EXCEPT ![low] = Empty] /\ Touch({new_pd, low})
        /\ UNCHANGED <<cr3, new_pd, free, idx, total, pages, starved, atBoot>> /\ Fill
    BY DEF IInv, ClearIdentityTable, kernelVars
  <1> HIDE DEF low
  <1>1. Stages' /\ TableCache' /\ ForPages = 0 /\ ForPages' = 0 /\ pages = {} /\ handles = {} /\ handles' = {}
    BY <1>0, Early DEF VmmReturned
  <1>2. Types'
    <2>1. tlb' \subseteq Pages \X Frames /\ fault' \in BOOLEAN
      BY <1>0, CachedPages, TouchType
    <2>2. mem' \in [Frames -> [Index -> Frames \cup {NotPresent}]]
      BY <1>0 DEF Types, Empty
    <2> QED
      BY <1>0, <2>1, <2>2 DEF Types
  <1>3. Supply' /\ Taken' = Taken /\ Spare' = Spare
    BY <1>0, NoneTaken
  <1>4. ForTables' = ForTables
    BY <1>0 DEF ForTables
  <1>5. Count'
    BY <1>0, <1>1, <1>3, <1>4 DEF Count
  <1>6. CASE starved
    BY <1>0, <1>1, <1>2, <1>3, <1>5, <1>6 DEF IInv
  <1>7. CASE ~starved
    <2>1. Shape /\ Owned /\ Cache /\ ~fault /\ Maps(new_pd, idx) /\ low # NotPresent /\ cr3 = new_pd
      BY <1>0, <1>7 DEF IInv, Shape, Lower, low
    <2>2. /\ low \in Frames /\ low # new_pd /\ \A d \in Index \ {0} : mem[new_pd][d] # low
      BY <1>0, <2>1, IdentityTable DEF low
    <2>3. mem'[low] = Empty /\ \A f \in Frames \ {low} : mem'[f] = mem[f]
      BY <1>0, <2>2 DEF Types
    <2>4. mem'[new_pd] = mem[new_pd]
      BY <1>0, <2>2, <2>3 DEF Types
    <2>5. Maps(new_pd, idx)'
      <3>1. ASSUME NEW f \in Frames
            PROVE  LET table == mem[new_pd][KernelDir + f \div Entries]
                   IN mem'[new_pd'][KernelDir + f \div Entries] = table
                      /\ (table \in Frames => mem'[table] = mem[table])
        <4>1. KernelDir + f \div Entries \in Index \ {0}
          BY AddressOf
        <4> QED
          BY <1>0, <2>2, <2>3, <2>4, <4>1
      <3>2. ASSUME NEW f \in Frames
            PROVE  mem[new_pd][KernelDir + f \div Entries] \in Frames \cup {NotPresent}
        <4>1. KernelDir + f \div Entries \in Index
          BY AddressOf
        <4> QED
          BY <1>0, <4>1 DEF Types
      <3> QED
        BY <1>0, <2>1, <2>4, <3>1, <3>2 DEF Maps
    <2>6. Lower'
      BY <1>0, <2>1, <2>3, <2>4 DEF Lower, low, Empty
    <2>7. Shape'
      <3>1. idx' = IF total' > Entries THEN total' ELSE Entries
        BY <1>0, <2>1, Sizes DEF Shape, Types
      <3> QED
        BY <1>0, <2>1, <2>5, <2>6, <3>1 DEF Shape
    <2>8. Owned'
      BY <1>0, <1>3, <2>1, <2>4, SameTables
    <2>9. fault' = FALSE
      BY <1>0, <2>1, ReachedOnCopy, TableFrames DEF low
    <2>10. Cache'
      BY <1>0, <1>2, <2>1, <2>7, Filled
    <2> QED
      BY <1>1, <1>2, <1>3, <1>5, <2>7, <2>8, <2>9, <2>10 DEF IInv
  <1> QED
    BY <1>6, <1>7

LEMMA ClearIdentityEntryStep == IInv /\ ClearIdentityEntry /\ UNCHANGED kernelVars => IInv'
  <1> SUFFICES ASSUME IInv, ClearIdentityEntry, UNCHANGED kernelVars PROVE IInv'
    OBVIOUS
  <1>0. /\ Types /\ Stages /\ Supply /\ Count /\ pc = "clear" /\ pc' = "reload"
        /\ mem' = [mem EXCEPT ![new_pd][0] = NotPresent] /\ Touch({new_pd})
        /\ UNCHANGED <<cr3, new_pd, free, idx, total, pages, starved, atBoot>> /\ Fill
    BY DEF IInv, ClearIdentityEntry, kernelVars
  <1>1. Stages' /\ TableCache' /\ ForPages = 0 /\ ForPages' = 0 /\ pages = {} /\ handles = {} /\ handles' = {}
    BY <1>0, Early DEF VmmReturned
  <1>2. Types'
    <2>1. tlb' \subseteq Pages \X Frames /\ fault' \in BOOLEAN
      BY <1>0, CachedPages, TouchType
    <2>2. mem' \in [Frames -> [Index -> Frames \cup {NotPresent}]]
      BY <1>0 DEF Types
    <2> QED
      BY <1>0, <2>1, <2>2 DEF Types
  <1>3. Supply' /\ Taken' = Taken /\ Spare' = Spare
    BY <1>0, NoneTaken
  <1>4. ForTables' = ForTables
    BY <1>0 DEF ForTables
  <1>5. Count'
    BY <1>0, <1>1, <1>3, <1>4 DEF Count
  <1>6. CASE starved
    BY <1>0, <1>1, <1>2, <1>3, <1>5, <1>6 DEF IInv
  <1>7. CASE ~starved
    <2>1. Shape /\ Owned /\ Cache /\ ~fault /\ Maps(new_pd, idx) /\ cr3 = new_pd
      BY <1>0, <1>7 DEF IInv, Shape
    <2>2. /\ mem'[new_pd] = [mem[new_pd] EXCEPT ![0] = NotPresent]
          /\ \A f \in Frames \ {new_pd} : mem'[f] = mem[f]
      BY <1>0 DEF Types
    <2>3. \A d \in Index : mem'[new_pd][d] = IF d = 0 THEN NotPresent ELSE mem[new_pd][d]
      BY <1>0, <2>2 DEF Types
    <2>4. \A d \in Index : mem[new_pd][d] # NotPresent => mem[new_pd][d] \in Frames \ {new_pd}
      BY <1>0, <2>1, Sizes DEF Owned, TablesOf
    <2>5. Maps(new_pd, idx)'
      <3>1. ASSUME NEW f \in Frames
            PROVE  LET table == mem[new_pd][KernelDir + f \div Entries]
                   IN mem'[new_pd'][KernelDir + f \div Entries] = table
                      /\ (table # NotPresent => mem'[table] = mem[table])
        <4>1. KernelDir + f \div Entries \in Index \ {0}
          BY AddressOf
        <4> QED
          BY <1>0, <2>2, <2>3, <2>4, <4>1
      <3>2. \A d \in 1 .. KernelDir - 1 : mem'[new_pd'][d] = NotPresent
        <4>1. 1 .. KernelDir - 1 \subseteq Index \ {0}
          BY Sizes DEF Index
        <4> QED
          BY <1>0, <2>1, <2>3, <4>1 DEF Maps
      <3> QED
        BY <1>0, <2>1, <3>1, <3>2, TableFrames DEF Maps
    <2>6. Lower'
      BY <1>0, <2>3, TableFrames DEF Lower
    <2>7. Shape'
      BY <1>0, <2>1, <2>5, <2>6 DEF Shape
    <2>8. Owned'
      <3>1. TablesOf(new_pd)' \subseteq TablesOf(new_pd)
        BY <1>0, <2>3 DEF TablesOf
      <3>2. \A c, d \in Index : c # d /\ mem'[new_pd'][c] = mem'[new_pd'][d] => mem'[new_pd'][c] = NotPresent
        BY <1>0, <2>1, <2>3 DEF Owned
      <3> QED
        BY <1>0, <1>3, <2>1, <3>1, <3>2 DEF Owned
    <2>9. fault' = FALSE
      BY <1>0, <2>1, ReachedOnCopy
    <2>10. Cache'
      BY <1>0, <1>2, <2>1, <2>7, Filled
    <2> QED
      BY <1>1, <1>2, <1>3, <1>5, <2>7, <2>8, <2>9, <2>10 DEF IInv
  <1> QED
    BY <1>6, <1>7

LEMMA ReloadStep == IInv /\ Reload /\ UNCHANGED kernelVars => IInv'
  <1> SUFFICES ASSUME IInv, Reload, UNCHANGED kernelVars PROVE IInv'
    OBVIOUS
  <1>0. /\ Types /\ Stages /\ Supply /\ Count /\ pc = "reload" /\ pc' = "done"
        /\ UNCHANGED <<mem, cr3, new_pd, free, idx, total, pages, fault, starved, atBoot>> /\ Flush
    BY DEF IInv, Reload, kernelVars
  <1>1. TableCache' /\ ForPages = 0 /\ ForPages' = 0 /\ pages = {} /\ handles = {} /\ handles' = {}
    BY <1>0, Early DEF VmmReturned
  <1>2. Stages'
    BY <1>0, Early DEF VmmReturned, Stages, kernelVars
  <1>3. Types'
    <2>1. tlb' \subseteq Pages \X Frames
      BY <1>0, CachedPages
    <2> QED
      BY <1>0, <2>1 DEF Types
  <1>4. Supply' /\ Taken' = Taken /\ Spare' = Spare
    BY <1>0, NoneTaken
  <1>5. Count'
    <2>1. ForTables' = ForTables
      BY <1>0 DEF ForTables
    <2> QED
      BY <1>0, <1>1, <1>4, <2>1 DEF Count
  <1>6. CASE starved
    BY <1>0, <1>2, <1>3, <1>4, <1>5, <1>6 DEF IInv
  <1>7. CASE ~starved
    <2>1. Shape /\ Owned /\ ~fault
      BY <1>0, <1>7 DEF IInv
    <2>2. Shape'
      BY <1>0, <2>1 DEF Shape, Maps, Lower
    <2>3. Owned'
      BY <1>0, <1>4, <2>1, SameTables
    <2>4. Cache'
      BY <1>0, <1>3, <2>2, Flushed
    <2> QED
      BY <1>0, <1>1, <1>2, <1>3, <1>4, <1>5, <2>1, <2>2, <2>3, <2>4 DEF IInv
  <1> QED
    BY <1>6, <1>7

\* The entry for the frame idx: its table is there, or idx is the first in it.
LEMMA NextEntry ==
  ASSUME Types, Shape, pc = "extend", idx < total
  PROVE  /\ idx \in Frames /\ idx >= Entries /\ idx - 1 \in Nat
         /\ ~IsMapped(P2V(idx))
         /\ (idx - 1) \div Entries \in Nat /\ (idx - 1) \div Entries < Entries - KernelDir
         /\ (idx - 1) \div Entries <= idx \div Entries
         /\ (idx - 1) \div Entries <= (total - 1) \div Entries
         /\ mem[new_pd][KernelDir + idx \div Entries] = NotPresent =>
              /\ idx \div Entries = (idx - 1) \div Entries + 1
              /\ \A f \in Frames : f \div Entries = idx \div Entries /\ f # idx => f > idx
  <1>1. idx \in Frames /\ idx >= Entries /\ idx - 1 \in Frames /\ total \in Nat /\ idx \in Nat \ {0}
    BY Sizes DEF Types, Frames
  <1>2. Maps(new_pd, idx) /\ pages = {}
    BY DEF Shape, Types
  <1>3. ~IsMapped(P2V(idx))
    <2>1. \/ mem[new_pd][KernelDir + idx \div Entries] = NotPresent
          \/ mem[mem[new_pd][KernelDir + idx \div Entries]][idx % Entries] = NotPresent
      BY <1>1, <1>2 DEF Maps
    <2> QED
      BY <1>1, <2>1, AddressOf DEF IsMapped, PAGE_DIRECTORY_INDEX, PAGE_TABLE_INDEX
  <1>4. idx - 1 \in Nat /\ (idx - 1) \div Entries \in Nat /\ (idx - 1) \div Entries < Entries - KernelDir
    BY <1>1, AddressOf
  <1>5. (idx - 1) \div Entries <= idx \div Entries /\ (idx - 1) \div Entries <= (total - 1) \div Entries
    <2>1. total - 1 \in Nat /\ idx - 1 <= total - 1 /\ idx - 1 <= idx
      BY <1>1
    <2> QED
      BY <1>1, <1>4, <2>1, QuotientGrows
  <1>6. ASSUME mem[new_pd][KernelDir + idx \div Entries] = NotPresent
        PROVE  /\ idx \div Entries = (idx - 1) \div Entries + 1
               /\ \A f \in Frames : f \div Entries = idx \div Entries /\ f # idx => f > idx
    <2>1. ASSUME NEW f \in Frames, f < idx PROVE f \div Entries # idx \div Entries
      BY <1>2, <1>6, <2>1, TableFrames DEF Maps
    <2>2. idx - 1 < idx
      BY <1>1
    <2>3. (idx - 1) \div Entries # idx \div Entries
      BY <1>1, <2>1, <2>2
    <2>4. \A f \in Frames : f \in Nat
      BY Sizes
    <2> QED
      BY <1>1, <2>1, <2>3, <2>4, FrameBefore
  <1> QED
    BY <1>1, <1>3, <1>4, <1>5, <1>6

\* Entering the frame idx into the table T, which is there or is new and empty.
LEMMA MapsOneMore ==
  ASSUME Types, Types', Maps(new_pd, idx), idx \in Frames, idx' = idx + 1, new_pd' = new_pd,
         pages = {}, pages' = {},
         NEW T \in Frames, T # new_pd,
         mem'[new_pd][KernelDir + idx \div Entries] = T, mem'[T][idx % Entries] = idx,
         \A d \in Index \ {KernelDir + idx \div Entries} :
            /\ mem'[new_pd][d] = mem[new_pd][d]
            /\ mem[new_pd][d] # NotPresent =>
                 mem[new_pd][d] # T /\ mem'[mem[new_pd][d]] = mem[mem[new_pd][d]],
         \A f \in Frames : f \div Entries = idx \div Entries /\ f # idx =>
            \/ /\ mem[new_pd][KernelDir + f \div Entries] = T
               /\ mem'[T][f % Entries] = mem[T][f % Entries]
            \/ f > idx /\ mem'[T][f % Entries] = NotPresent
  PROVE  Maps(new_pd, idx)'
  <1> DEFINE e == KernelDir + idx \div Entries
  <1>0. KernelDir \in Nat /\ Entries \in Nat /\ KernelDir < Entries
    BY Sizes
  <1>a. idx \in Nat /\ idx \div Entries \in Nat
    BY AddressOf
  <1>1. ASSUME NEW f \in Frames
        PROVE  LET table == mem'[new_pd][KernelDir + f \div Entries]
               IN IF f < idx + 1 THEN table \in Frames /\ mem'[table][f % Entries] = f
                  ELSE table = NotPresent \/ mem'[table][f % Entries] = NotPresent
    <2>1. /\ KernelDir + f \div Entries \in Index /\ f \div Entries \in Nat /\ idx \div Entries \in Nat
          /\ f \in Nat /\ idx \in Nat /\ KernelDir \in Nat
      <3>1. KernelDir + f \div Entries \in Index /\ f \div Entries \in Nat /\ f \in Nat
        BY AddressOf
      <3> QED
        BY <1>0, <1>a, <3>1
    <2>2. LET table == mem[new_pd][KernelDir + f \div Entries]
          IN IF f < idx THEN table \in Frames /\ mem[table][f % Entries] = f
             ELSE table = NotPresent \/ mem[table][f % Entries] = NotPresent
      BY DEF Maps
    <2>3. CASE f = idx
      BY <2>1, <2>3
    <2>4. CASE f # idx
      <3>1. f < idx + 1 <=> f < idx
        BY <2>1, <2>4
      <3>2. CASE f \div Entries = idx \div Entries
        BY <2>1, <2>2, <2>4, <3>1, <3>2, TableFrames
      <3>3. CASE f \div Entries # idx \div Entries
        <4>1. KernelDir + f \div Entries \in Index \ {e}
          BY <2>1, <3>3
        <4> QED
          BY <2>2, <3>1, <4>1, TableFrames
      <3> QED
        BY <3>2, <3>3
    <2> QED
      BY <2>3, <2>4
  <1>2. \A d \in 1 .. KernelDir - 1 : mem'[new_pd][d] = NotPresent
    <2>1. \A d \in 1 .. KernelDir - 1 : d \in Index \ {e}
      BY <1>0, <1>a DEF Index
    <2> QED
      BY <2>1 DEF Maps
  <1> QED
    BY <1>1, <1>2 DEF Maps

LEMMA ExtendStep == IInv /\ Extend /\ UNCHANGED kernelVars => IInv'
  <1> SUFFICES ASSUME IInv, Extend, UNCHANGED kernelVars PROVE IInv'
    OBVIOUS
  <1> DEFINE d == PAGE_DIRECTORY_INDEX(P2V(idx))
             j == PAGE_TABLE_INDEX(P2V(idx))
             T == IF mem[new_pd][d] = NotPresent THEN Lowest(free) ELSE mem[new_pd][d]
  <1>0. /\ Types /\ Stages /\ Supply /\ Count /\ pc = "extend" /\ idx < total /\ idx' = idx + 1
        /\ UNCHANGED <<cr3, new_pd, pc, total, pages, atBoot>> /\ Fill
    BY DEF IInv, Extend, kernelVars
  <1>1. Stages' /\ TableCache' /\ ForPages = 0 /\ ForPages' = 0 /\ pages = {} /\ handles = {} /\ handles' = {}
    BY <1>0, Early DEF VmmReturned
  <1>2. idx \in Frames /\ idx \in Nat /\ idx >= Entries /\ idx' \in 0 .. Window /\ idx' >= Entries
    BY <1>0, Sizes DEF Types, Frames
  <1>3. d = KernelDir + idx \div Entries /\ j = idx % Entries /\ d \in Index \ {0} /\ j \in Index
    BY <1>2, AddressOf DEF PAGE_DIRECTORY_INDEX, PAGE_TABLE_INDEX
  <1>4. tlb' \subseteq Pages \X Frames
    BY <1>0, CachedPages
  <1>5. free \subseteq Frames \ {0} /\ free \subseteq Nat
    BY <1>0, VmmAssumption, Sizes DEF Supply
  <1>6. IF free = {} THEN Lowest(free) = 0 ELSE Lowest(free) \in free
    BY <1>5, LowestFacts
  <1>7. T \in Frames
    <2>1. mem[new_pd][d] \in Frames \cup {NotPresent}
      BY <1>0, <1>3 DEF Types
    <2>2. Lowest(free) \in Frames
      BY <1>5, <1>6, TableFrames
    <2> QED
      BY <2>1, <2>2
  <1>8. ASSUME UNCHANGED <<mem, free, starved>>, Touch({new_pd}), starved PROVE IInv'
    <2>1. Supply' /\ Spare' = Spare
      BY <1>0, <1>8, NoneTaken
    <2>2. Types'
      BY <1>0, <1>2, <1>4, <1>8, TouchType DEF Types
    <2> QED
      BY <1>0, <1>1, <1>8, <2>1, <2>2 DEF IInv, Count
  <1>9. ASSUME vmmngr_map_page(idx, P2V(idx), free) PROVE IInv'
    <2>1. CASE mem[new_pd][d] = NotPresent
      <3>1. /\ mem' = [[mem EXCEPT ![T] = Empty, ![new_pd][d] = T] EXCEPT ![T][j] = idx]
            /\ free' = free \ {T} /\ starved' = (starved \/ ~IsUsable(T)) /\ Touch({new_pd, T})
            /\ T = Lowest(free)
        <4>1. /\ mem' = [[mem EXCEPT ![T] = Empty, ![new_pd][d] = T] EXCEPT ![T][j] = idx]
              /\ free' = free \ {T} /\ starved' = (starved \/ (TRUE /\ ~IsUsable(T))) /\ Touch({new_pd, T})
              /\ T = Lowest(free)
          BY <1>9, <2>1 DEF vmmngr_map_page, Without
        <4> QED
          BY <4>1
      <3> HIDE DEF d, j, T
      <3>2. Types'
        <4>1. mem' \in [Frames -> [Index -> Frames \cup {NotPresent}]]
          BY <1>0, <1>2, <1>7, <3>1 DEF Types, Empty
        <4>2. (starved \/ ~IsUsable(T)) \in BOOLEAN
          OBVIOUS
        <4>3. starved' \in BOOLEAN
          BY <3>1, <4>2, Zenon
        <4>4. fault' \in BOOLEAN
          BY <1>0, <3>1, TouchType
        <4> QED
          BY <1>0, <1>2, <1>4, <4>1, <4>3, <4>4 DEF Types
      <3>3. CASE starved
        <4>1. free = {} /\ free' = {} /\ starved'
          BY <1>0, <3>1, <3>3 DEF Supply
        <4>2. Supply' /\ Spare' = Spare
          BY <1>0, <4>1 DEF Supply, Taken, Spare, BootNeeds
        <4> QED
          BY <1>0, <1>1, <3>2, <3>3, <4>1, <4>2 DEF IInv, Count
      <3>4. CASE ~starved
        <4>1. Shape /\ Owned /\ Cache /\ ~fault /\ Maps(new_pd, idx) /\ Lower /\ cr3 = new_pd
          BY <1>0, <3>4 DEF IInv, Shape
        <4>2. /\ (idx - 1) \div Entries \in Nat /\ (idx - 1) \div Entries < Entries - KernelDir
              /\ (idx - 1) \div Entries <= (total - 1) \div Entries
              /\ idx \div Entries = (idx - 1) \div Entries + 1
              /\ \A f \in Frames : f \div Entries = idx \div Entries /\ f # idx => f > idx
          BY <1>0, <1>3, <2>1, <4>1, NextEntry
        <4>3. Cardinality(Taken) <= 3 + (idx - 1) \div Entries /\ Cardinality(Taken) \in Nat
          <5>1. ForTables = 3 + (idx - 1) \div Entries
            BY <1>0 DEF ForTables
          <5>2. Cardinality(Taken) <= ForTables
            BY <1>0, <1>1, <3>4, <4>2, <5>1 DEF Count
          <5> QED
            BY <1>0, <5>1, <5>2, TakenFinite
        <4>4. CASE free = {}
          <5>1. free' = {} /\ starved'
            BY <1>6, <3>1, <4>4 DEF IsUsable
          <5>2. total > Entries /\ (total - 1) \div Entries \in Nat
            BY <1>0, <1>2, Sizes DEF Types
          <5>3. Cardinality(Taken) <= 4 + (total - 1) \div Entries
            BY <4>2, <4>3, <5>2
          <5>4. Supply' /\ Count'
            BY <1>0, <1>1, <4>4, <5>1, <5>2, <5>3, RanOut
          <5> QED
            BY <1>1, <3>2, <5>1, <5>4 DEF IInv
        <4>5. CASE free # {}
          <5>1. /\ T \in Index /\ T # 0 /\ T \notin Taken
                /\ Cardinality(Taken \cup {T}) = Cardinality(Taken) + 1
            <6>1. Cardinality(Taken) < 3 + Entries - KernelDir
              BY <4>2, <4>3, Sizes
            <6> QED
              BY <1>0, <3>1, <4>5, <6>1, Taking
          <5>2. ~starved'
            <6>1. IsUsable(T)
              BY <5>1, Sizes DEF IsUsable, Index
            <6> QED
              BY <3>1, <3>4, <6>1
          <5>3. Supply' /\ Taken' = Taken \cup {T}
            BY <1>0, <3>1, <4>5, <5>2, OneTaken
          <5>4. Count'
            <6>1. ForTables' = 3 + (idx + 1 - 1) \div Entries /\ idx + 1 - 1 = idx
              BY <1>0, <1>2 DEF ForTables
            <6>2. ForTables' = 3 + idx \div Entries
              BY <6>1
            <6>3. Cardinality(Taken') <= ForTables' /\ ForTables' \in Nat
              BY <4>2, <4>3, <5>1, <5>3, <6>2
            <6> QED
              BY <1>1, <5>2, <6>3 DEF Count
          <5>5. T # new_pd
            BY <1>0, <4>1, <5>1 DEF Owned
          <5>6. /\ mem'[T] = [Empty EXCEPT ![j] = idx] /\ mem'[new_pd] = [mem[new_pd] EXCEPT ![d] = T]
                /\ \A f \in Frames \ {T, new_pd} : mem'[f] = mem[f]
            BY <1>0, <1>7, <3>1, <5>5 DEF Types
          <5>7. /\ Owned'
                /\ \A c \in Index : mem[new_pd][c] # NotPresent => mem[new_pd][c] \in Frames \ {T, new_pd}
            BY <1>0, <1>1, <1>3, <2>1, <4>1, <5>1, <5>3, <5>6, NewTable
          <5>8. \A c \in Index : mem'[new_pd][c] = IF c = d THEN T ELSE mem[new_pd][c]
            BY <1>0, <5>6 DEF Types
          <5>9. Maps(new_pd, idx)'
            <6>1. mem'[new_pd][d] = T /\ mem'[T][j] = idx
              BY <1>3, <5>6, <5>8 DEF Empty
            <6>2. ASSUME NEW c \in Index \ {d}
                  PROVE  /\ mem'[new_pd][c] = mem[new_pd][c]
                         /\ mem[new_pd][c] # NotPresent =>
                              mem[new_pd][c] # T /\ mem'[mem[new_pd][c]] = mem[mem[new_pd][c]]
              BY <5>6, <5>7, <5>8
            <6>3. ASSUME NEW f \in Frames, f \div Entries = idx \div Entries, f # idx
                  PROVE  f > idx /\ mem'[T][f % Entries] = NotPresent
              <7>1. f > idx
                BY <4>2, <6>3
              <7>2. f % Entries \in Index /\ f % Entries # j
                BY <1>2, <1>3, <6>3, AddressOf, SameFrame
              <7> QED
                BY <5>6, <7>1, <7>2 DEF Empty
            <6> QED
              BY <1>0, <1>1, <1>2, <1>3, <1>7, <3>2, <4>1, <5>5, <6>1, <6>2, <6>3, MapsOneMore
          <5>10. Lower'
            <6>1. mem[new_pd][0] # NotPresent /\ mem[mem[new_pd][0]] = Identity
              BY <1>0, <4>1 DEF Lower
            <6>2. mem'[new_pd][0] = mem[new_pd][0] /\ mem'[mem[new_pd][0]] = mem[mem[new_pd][0]]
              BY <1>3, <5>6, <5>7, <5>8, <6>1, TableFrames
            <6> QED
              BY <1>0, <6>1, <6>2 DEF Lower, Identity
          <5>11. Shape'
            <6>1. idx' <= total'
              BY <1>0, <1>2 DEF Types
            <6> QED
              BY <1>0, <4>1, <5>9, <5>10, <6>1 DEF Shape
          <5>12. fault' = FALSE
            BY <1>0, <3>1, <4>1, <5>1, ReachedOnCopy
          <5>13. Cache'
            BY <1>0, <3>2, <4>1, <5>11, Filled
          <5> QED
            BY <1>1, <3>2, <5>3, <5>4, <5>7, <5>11, <5>12, <5>13 DEF IInv
        <4> QED
          BY <4>4, <4>5
      <3> QED
        BY <3>3, <3>4
    <2>2. CASE mem[new_pd][d] # NotPresent
      <3>1. /\ mem' = [mem EXCEPT ![T][j] = idx] /\ free' = free /\ starved' = starved
            /\ Touch({new_pd, T}) /\ T = mem[new_pd][d]
        <4>1. starved' = (starved \/ (FALSE /\ ~IsUsable(T)))
          BY <1>9, <2>2 DEF vmmngr_map_page
        <4>2. starved' = starved
          BY <1>0, <4>1 DEF Types
        <4> QED
          BY <1>9, <2>2, <4>2 DEF vmmngr_map_page
      <3> HIDE DEF d, j, T
      <3>2. Types'
        <4>1. mem' \in [Frames -> [Index -> Frames \cup {NotPresent}]]
          BY <1>0, <1>2, <1>7, <3>1 DEF Types
        <4>2. fault' \in BOOLEAN
          BY <1>0, <3>1, TouchType
        <4> QED
          BY <1>0, <1>2, <1>4, <3>1, <4>1, <4>2 DEF Types
      <3>3. Supply' /\ Taken' = Taken /\ Spare' = Spare
        BY <1>0, <3>1, NoneTaken
      <3>4. CASE starved
        BY <1>0, <1>1, <3>1, <3>2, <3>3, <3>4 DEF IInv, Count
      <3>5. CASE ~starved
        <4>1. Shape /\ Owned /\ Cache /\ ~fault /\ Maps(new_pd, idx) /\ Lower /\ cr3 = new_pd
          BY <1>0, <3>5 DEF IInv, Shape
        <4>2. Count'
          <5>1. (idx - 1) \div Entries \in Nat /\ (idx - 1) \div Entries <= idx \div Entries
            BY <1>0, <4>1, NextEntry
          <5>2. ForTables = 3 + (idx - 1) \div Entries
            BY <1>0 DEF ForTables
          <5>3. ForTables' = 3 + (idx + 1 - 1) \div Entries /\ idx + 1 - 1 = idx
            BY <1>0, <1>2 DEF ForTables
          <5>4. idx \div Entries \in Nat
            BY <1>2, AddressOf
          <5>5. Cardinality(Taken) <= ForTables
            BY <1>0, <1>1, <3>5, <5>1, <5>2 DEF Count
          <5>6. Cardinality(Taken') <= ForTables' /\ ForTables' \in Nat
            BY <1>0, <3>3, <5>1, <5>2, <5>3, <5>4, <5>5, TakenFinite
          <5> QED
            BY <1>1, <3>1, <3>5, <5>6 DEF Count
        <4>3. /\ \A c \in Index \ {d} : mem[new_pd][c] # T
              /\ \A c \in Index : mem[new_pd][c] # NotPresent => mem[new_pd][c] \in Frames \ {new_pd}
              /\ T # new_pd
          <5>1. \A c \in Index : mem[new_pd][c] # NotPresent => mem[new_pd][c] \in TablesOf(new_pd)
            BY DEF TablesOf
          <5> QED
            BY <1>0, <1>3, <2>2, <3>1, <4>1, <5>1, Sizes DEF Owned
        <4>4. /\ mem'[T] = [mem[T] EXCEPT ![j] = idx] /\ mem'[new_pd] = mem[new_pd]
              /\ \A f \in Frames \ {T} : mem'[f] = mem[f]
          BY <1>0, <1>7, <3>1, <4>3 DEF Types
        <4>5. Maps(new_pd, idx)'
          <5>1. mem'[new_pd][d] = T /\ mem'[T][j] = idx
            BY <1>0, <1>3, <1>7, <3>1, <4>4 DEF Types
          <5>2. ASSUME NEW c \in Index \ {d}
                PROVE  /\ mem'[new_pd][c] = mem[new_pd][c]
                       /\ mem[new_pd][c] # NotPresent =>
                            mem[new_pd][c] # T /\ mem'[mem[new_pd][c]] = mem[mem[new_pd][c]]
            BY <4>3, <4>4
          <5>3. ASSUME NEW f \in Frames, f \div Entries = idx \div Entries, f # idx
                PROVE  /\ mem[new_pd][KernelDir + f \div Entries] = T
                       /\ mem'[T][f % Entries] = mem[T][f % Entries]
            <6>1. f % Entries \in Index /\ f % Entries # j
              BY <1>2, <1>3, <5>3, AddressOf, SameFrame
            <6> QED
              BY <1>0, <1>3, <1>7, <3>1, <4>4, <5>3, <6>1 DEF Types
          <5> QED
            BY <1>0, <1>1, <1>2, <1>3, <1>7, <3>2, <4>1, <4>3, <5>1, <5>2, <5>3, MapsOneMore
        <4>6. Lower'
          <5>1. mem[new_pd][0] # NotPresent /\ mem[mem[new_pd][0]] = Identity
            BY <1>0, <4>1 DEF Lower
          <5>2. mem'[new_pd][0] = mem[new_pd][0] /\ mem'[mem[new_pd][0]] = mem[mem[new_pd][0]]
            BY <1>3, <4>3, <4>4, <5>1, TableFrames
          <5> QED
            BY <1>0, <5>1, <5>2 DEF Lower, Identity
        <4>7. Shape'
          <5>1. idx' <= total'
            BY <1>0, <1>2 DEF Types
          <5> QED
            BY <1>0, <4>1, <4>5, <4>6, <5>1 DEF Shape
        <4>8. Owned'
          BY <1>0, <3>3, <4>1, <4>4, SameTables
        <4>9. fault' = FALSE
          BY <1>0, <1>3, <2>2, <3>1, <4>1, ReachedOnCopy
        <4>10. Cache'
          BY <1>0, <3>2, <4>1, <4>7, Filled
        <4> QED
          BY <1>1, <3>2, <3>3, <4>2, <4>7, <4>8, <4>9, <4>10 DEF IInv
      <3> QED
        BY <3>4, <3>5
    <2> QED
      BY <2>1, <2>2
  <1>10. CASE starved
    BY <1>8, <1>9, <1>10 DEF Extend
  <1>11. CASE ~starved
    <2>1. ~IsMapped(P2V(idx))
      BY <1>0, <1>11, NextEntry DEF IInv
    <2> QED
      BY <1>9, <2>1 DEF Extend
  <1> QED
    BY <1>10, <1>11

LEMMA Counted ==
  Types /\ Stages /\ Supply => Spare \in Int /\ Cardinality(handles) \in Nat /\ ForPages \in Nat
  <1> SUFFICES ASSUME Types, Stages, Supply
               PROVE  Spare \in Int /\ Cardinality(handles) \in Nat /\ ForPages \in Nat
    OBVIOUS
  <1>1. Cardinality(handles) \in Nat
    <2>1. handles \subseteq Frames
      BY DEF Stages, Types
    <2> QED
      BY <2>1, FiniteFrames
  <1>2. Spare \in Int
    <2>1. {g \in atBoot : g < LowEnd} \subseteq Frames
      BY VmmAssumption DEF Supply
    <2>2. BootNeeds \in Int
      BY Sizes DEF BootNeeds, Types
    <2> QED
      BY <2>1, <2>2, FiniteFrames DEF Spare
  <1> QED
    BY <1>1, <1>2 DEF ForPages

LEMMA CountedNext ==
  Types' /\ Stages' /\ Supply' => (Spare \in Int /\ Cardinality(handles) \in Nat /\ ForPages \in Nat)'
  BY Counted, PTL

\* The search, once more: what it takes are the lowest frames.
LEMMA TakeLowest ==
  ASSUME NEW A \in SUBSET Nat, NEW F \in SUBSET A, \A t \in A \ F, f \in F : t < f
  PROVE  \A t \in A \ (F \ {Lowest(F)}), f \in F \ {Lowest(F)} : t < f
  <1> DEFINE l == Lowest(F)
  <1>1. IF F = {} THEN l = 0 ELSE l \in F /\ \A f \in F : l <= f
    BY LowestFacts
  <1> HIDE DEF l
  <1> SUFFICES ASSUME NEW t \in A \ (F \ {l}), NEW f \in F \ {l} PROVE t < f
    BY DEF l
  <1>2. CASE t \in F
    BY <1>1, <1>2
  <1>3. CASE t \notin F
    BY <1>3
  <1> QED
    BY <1>2, <1>3

\* The entry of the directory for the frame f.
TableFor(f) == mem[new_pd][KernelDir + f \div Entries]

\* vmmngr_alloc_page: what it does in every state.
LEMMA PageTaking ==
  ASSUME Types, Supply, vmmngr_alloc_page, UNCHANGED atBoot, NEW l, l = Lowest(free)
  PROVE  /\ pc = "done" /\ pc' = "done" /\ free # {} /\ Fill /\ UNCHANGED <<cr3, new_pd, idx, total>>
         /\ pages' = pages \cup {l}
         /\ l \in free /\ l \in Frames /\ l \in Nat /\ l \notin Taken
         /\ Types' /\ Supply' /\ Spare' = Spare /\ ForTables' = ForTables
         /\ starved => starved'
         /\ IF TableFor(l) = NotPresent
            THEN starved' = (starved \/ ~IsUsable(Lowest(free \ {l})))
            ELSE /\ mem' = [mem EXCEPT ![TableFor(l)][l % Entries] = l]
                 /\ free' = free \ {l} /\ starved' = starved /\ Touch({new_pd, TableFor(l)})
  <1> DEFINE d == PAGE_DIRECTORY_INDEX(P2V(l))
             j == PAGE_TABLE_INDEX(P2V(l))
             T == IF TableFor(l) = NotPresent THEN Lowest(free \ {l}) ELSE TableFor(l)
             bare == TableFor(l) = NotPresent /\ ~IsUsable(T)
  <1>1. /\ pc = "done" /\ pc' = "done" /\ free # {} /\ Fill
        /\ UNCHANGED <<cr3, new_pd, idx, total>> /\ pages' = pages \cup {l}
        /\ vmmngr_map_page(l, P2V(l), free \ {l})
    BY DEF vmmngr_alloc_page, Without
  <1>2. /\ free \subseteq Frames \ {0} /\ free \subseteq Nat /\ free \subseteq atBoot
        /\ atBoot \subseteq Nat /\ atBoot \in FreeSets
    BY VmmAssumption, Sizes DEF Supply
  <1>3. l \in free /\ l \in Frames /\ l \in Nat /\ l \notin Taken
    BY <1>1, <1>2, LowestFacts DEF Taken
  <1>4. d = KernelDir + l \div Entries /\ j = l % Entries /\ d \in Index /\ j \in Index
    BY <1>3, AddressOf DEF PAGE_DIRECTORY_INDEX, PAGE_TABLE_INDEX
  <1>5. mem[new_pd][d] = TableFor(l)
    BY <1>4 DEF TableFor
  <1>6. T \in Frames
    <2>1. free \ {l} \subseteq Nat
      BY <1>2
    <2>2. Lowest(free \ {l}) \in Frames
      BY <1>2, <2>1, LowestFacts, TableFrames
    <2>3. TableFor(l) \in Frames \cup {NotPresent}
      BY <1>4, <1>5 DEF Types
    <2> QED
      BY <2>2, <2>3
  <1>7. /\ IF TableFor(l) = NotPresent
           THEN /\ mem' = [[mem EXCEPT ![T] = Empty, ![new_pd][d] = T] EXCEPT ![T][j] = l]
                /\ free' = (free \ {l}) \ {T}
           ELSE mem' = [mem EXCEPT ![T][j] = l] /\ free' = free \ {l}
        /\ starved' = (starved \/ bare) /\ Touch({new_pd, T})
    BY <1>1, <1>5 DEF vmmngr_map_page, Without
  <1>8. starved' \in BOOLEAN
    <2>1. (starved \/ bare) \in BOOLEAN
      OBVIOUS
    <2> QED
      BY <1>7, <2>1, Zenon
  <1> HIDE DEF d, j
  <1>9. ASSUME TableFor(l) # NotPresent
        PROVE  /\ mem' = [mem EXCEPT ![TableFor(l)][l % Entries] = l]
               /\ free' = free \ {l} /\ starved' = starved /\ Touch({new_pd, TableFor(l)})
    BY <1>4, <1>7, <1>8, <1>9 DEF Types
  <1>10. TableFor(l) = NotPresent => starved' = (starved \/ ~IsUsable(Lowest(free \ {l})))
    BY <1>7
  <1>11. starved => starved'
    BY <1>7
  <1> HIDE DEF T, bare
  <1>12. Types'
    <2>1. mem' \in [Frames -> [Index -> Frames \cup {NotPresent}]]
      <3>1. CASE TableFor(l) = NotPresent
        BY <1>3, <1>6, <1>7, <3>1 DEF Types, Empty
      <3>2. CASE TableFor(l) # NotPresent
        BY <1>3, <1>6, <1>7, <3>2 DEF Types
      <3> QED
        BY <3>1, <3>2
    <2>2. fault' \in BOOLEAN /\ tlb' \subseteq Pages \X Frames
      BY <1>1, <1>7, TouchType, CachedPages
    <2> QED
      BY <1>1, <1>3, <1>8, <2>1, <2>2 DEF Types
  <1>13. Supply' /\ Spare' = Spare
    <2> DEFINE F == free \ {l}
    <2>1. \A t \in atBoot \ F, f \in F : t < f
      BY <1>2, TakeLowest DEF Supply, Taken
    <2>2. \A t \in atBoot \ free', f \in free' : t < f
      <3>1. CASE TableFor(l) = NotPresent
        <4>1. F \in SUBSET atBoot /\ atBoot \in SUBSET Nat
          BY <1>2
        <4>2. T = Lowest(F) /\ free' = F \ {T}
          BY <1>7, <3>1 DEF T
        <4> HIDE DEF F
        <4> QED
          BY <2>1, <4>1, <4>2, TakeLowest
      <3>2. CASE TableFor(l) # NotPresent
        BY <1>7, <2>1, <3>2
      <3> QED
        BY <3>1, <3>2
    <2>3. free' \subseteq free /\ l \notin free'
      BY <1>7
    <2>4. Supply'
      BY <1>1, <1>2, <1>3, <2>2, <2>3 DEF Supply, Taken
    <2> QED
      BY <1>1, <2>4 DEF Spare, BootNeeds
  <1>14. ForTables' = ForTables
    BY <1>1 DEF ForTables
  <1> QED
    BY <1>1, <1>3, <1>9, <1>10, <1>11, <1>12, <1>13, <1>14

\* A page whose table is there: it gets its entry, no other changes.
LEMMA PageEntered ==
  ASSUME IInv, ~starved, vmmngr_alloc_page, UNCHANGED atBoot, NEW l, l = Lowest(free),
         TableFor(l) # NotPresent
  PROVE  /\ ~starved' /\ ~fault' /\ TablesOf(new_pd)' = TablesOf(new_pd)
         /\ Taken' = Taken \cup {l}
         /\ Shape' /\ Owned' /\ Cache'
  <1> DEFINE d == KernelDir + l \div Entries
             j == l % Entries
             T == TableFor(l)
  <1>0. /\ Types /\ Supply /\ pc = "done" /\ pc' = "done" /\ Fill /\ UNCHANGED <<cr3, new_pd, idx, total>>
        /\ pages' = pages \cup {l} /\ l \in free /\ l \in Frames /\ l \notin Taken
        /\ Types' /\ Supply'
        /\ mem' = [mem EXCEPT ![T][j] = l] /\ free' = free \ {l} /\ ~starved' /\ Touch({new_pd, T})
    BY PageTaking DEF IInv
  <1>1. Shape /\ Owned /\ Cache /\ ~fault /\ Maps(new_pd, idx) /\ Lower /\ cr3 = new_pd
    BY <1>0 DEF IInv, Shape
  <1>2. d \in Index \ {0} /\ j \in Index /\ T = mem[new_pd][d] /\ T \in Frames /\ 0 \in Index
    <2>1. d \in Index \ {0} /\ j \in Index /\ T = mem[new_pd][d]
      BY <1>0, AddressOf DEF TableFor
    <2> QED
      BY <1>0, <2>1, TableFrames DEF Types
  <1>3. fault' = FALSE
    BY <1>0, <1>1, <1>2, ReachedOnCopy
  <1> HIDE DEF d, j, T
  <1>4. T # new_pd /\ \A c \in Index : c # d => mem[new_pd][c] # T
    <2>1. T \in TablesOf(new_pd)
      BY <1>2, TableFrames DEF TablesOf
    <2> QED
      BY <1>0, <1>1, <1>2, <2>1, TableFrames DEF Owned
  <1>5. /\ mem'[T] = [mem[T] EXCEPT ![j] = l]
        /\ \A f \in Frames \ {T} : mem'[f] = mem[f]
    BY <1>0, <1>2 DEF Types
  <1>6. mem'[new_pd] = mem[new_pd] /\ TablesOf(new_pd)' = TablesOf(new_pd)
    BY <1>0, <1>4, <1>5 DEF Types, TablesOf
  <1>7. Taken' = Taken \cup {l}
    BY <1>0, Taking DEF Taken
  <1>8. Maps(new_pd, idx)'
    <2>1. ASSUME NEW f \in Frames
          PROVE  LET table == mem'[new_pd][KernelDir + f \div Entries]
                 IN IF f < idx \/ f \in pages' THEN table \in Frames /\ mem'[table][f % Entries] = f
                    ELSE table = NotPresent \/ mem'[table][f % Entries] = NotPresent
      <3> DEFINE e == KernelDir + f \div Entries
                 table == mem[new_pd][e]
      <3>1. e \in Index /\ f % Entries \in Index /\ table \in Frames \cup {NotPresent}
        <4>1. e \in Index /\ f % Entries \in Index
          BY AddressOf
        <4> QED
          BY <1>0, <4>1 DEF Types
      <3>2. IF f < idx \/ f \in pages THEN table \in Frames /\ mem[table][f % Entries] = f
            ELSE table = NotPresent \/ mem[table][f % Entries] = NotPresent
        BY <1>1 DEF Maps
      <3>3. mem'[new_pd][e] = table
        BY <1>6
      <3>4. CASE f = l
        BY <1>0, <1>2, <1>5, <3>3, <3>4 DEF Types, d, j
      <3>5. CASE f # l
        <4>1. f \in pages' <=> f \in pages
          BY <1>0, <3>5
        <4>2. table \in Frames => mem'[table][f % Entries] = mem[table][f % Entries]
          <5>1. CASE e = d
            <6>1. f \div Entries = l \div Entries
              <7>1. f \div Entries \in Nat /\ l \div Entries \in Nat /\ KernelDir \in Nat
                BY <1>0, AddressOf, Sizes
              <7> QED
                BY <5>1, <7>1 DEF d
            <6>2. f % Entries # j
              BY <1>0, <3>5, <6>1, SameFrame DEF j
            <6> QED
              BY <1>0, <1>2, <1>5, <3>1, <5>1, <6>2 DEF Types
          <5>2. CASE e # d
            BY <1>4, <1>5, <3>1, <5>2
          <5> QED
            BY <5>1, <5>2
        <4> HIDE DEF e
        <4> QED
          BY <3>1, <3>2, <3>3, <4>1, <4>2 DEF e
      <3> QED
        BY <3>4, <3>5
    <2>2. \A c \in 1 .. KernelDir - 1 : mem'[new_pd][c] = NotPresent
      BY <1>1, <1>6 DEF Maps
    <2> QED
      BY <1>0, <2>1, <2>2 DEF Maps
  <1>9. Shape'
    <2>1. Lower'
      BY <1>0, <1>1, <1>2, <1>6 DEF Lower
    <2> QED
      BY <1>0, <1>1, <1>8, <2>1 DEF Shape
  <1>10. Owned'
    <2>1. {new_pd} \cup TablesOf(new_pd) \subseteq Taken
      BY <1>0, <1>1 DEF Owned
    <2> QED
      BY <1>0, <1>1, <1>6, <1>7, <2>1 DEF Owned
  <1>11. Cache'
    <2>1. Seen /\ Seen' /\ MapEnd = idx /\ MapEnd' = idx
      BY <1>0, <1>1, <1>9, ProcessorSees, ProcessorSeesNext DEF MapEnd
    <2>2. ASSUME NEW t \in Translations PROVE t \in Translations'
      <3>1. t \in Pages \X Frames /\ Walk(t[1]) = t[2]
        BY <2>2 DEF Translations
      <3>2. t[1] = P2V(t[2])
        BY <1>0, <2>1, <3>1 DEF Seen
      <3>3. t[2] < idx \/ t[2] \in pages'
        BY <1>0, <2>1, <3>1, <3>2, TableFrames DEF Seen
      <3>4. (Walk(t[1]) = t[2])'
        BY <2>1, <3>1, <3>2, <3>3 DEF Seen, P2V
      <3> QED
        BY <3>1, <3>4 DEF Translations
    <2> QED
      BY <1>0, <1>1, <1>9, <2>2, Filled
  <1> QED
    BY <1>0, <1>3, <1>6, <1>7, <1>9, <1>10, <1>11

\* A page whose table is missing: all of low memory is gone then, and so are the
\* frames that total_memory counts.
LEMMA PageWithoutTable ==
  ASSUME IInv, ~starved, vmmngr_alloc_page, UNCHANGED atBoot, NEW l, l = Lowest(free),
         TableFor(l) = NotPresent
  PROVE  starved' /\ Spare <= ForPages - 2
  <1>0. /\ Types /\ Stages /\ Supply /\ Count /\ Shape /\ pc = "done" /\ l \in free /\ l \in Frames /\ l \in Nat
        /\ starved' = (starved \/ ~IsUsable(Lowest(free \ {l}))) /\ free # {}
    BY PageTaking DEF IInv
  <1>1. /\ atBoot \subseteq Nat /\ atBoot \subseteq Frames /\ free \subseteq atBoot
        /\ LowEnd \in 1 .. Entries /\ Entries \in Nat /\ total \in Nat /\ idx \in Nat
    BY <1>0, VmmAssumption, KernelAssumption, Sizes DEF Supply, Types
  <1>2. idx = IF total > Entries THEN total ELSE Entries
    BY <1>0 DEF Shape
  <1>3. l >= idx
    <2>1. ~(l < idx)
      BY <1>0, TableFrames DEF Shape, Maps, TableFor
    <2> QED
      BY <1>0, <1>1, <2>1
  <1>4. starved'
    <2> DEFINE T == Lowest(free \ {l})
    <2>1. T = 0 \/ (T \in free /\ T \in Nat)
      <3>1. free \ {l} \subseteq Nat
        BY <1>1
      <3> QED
        BY <3>1, LowestFacts
    <2>2. T \in free => l <= T
      BY <1>0, <1>1, LowestFacts
    <2> HIDE DEF T
    <2>3. ~IsUsable(T)
      BY <1>0, <1>1, <1>2, <1>3, <2>1, <2>2 DEF IsUsable
    <2> QED
      BY <1>0, <2>3 DEF T
  <1>5. Spare <= ForPages - 2
    <2> DEFINE low == {f \in atBoot : f < LowEnd}
               parts == IF total > Entries THEN (total - 1) \div Entries ELSE 0
    <2>1. low \subseteq Taken
      <3> SUFFICES ASSUME NEW f \in low, f \in free PROVE FALSE
        BY DEF Taken
      <3>1. l <= f
        BY <1>0, <1>1, LowestFacts
      <3> QED
        BY <1>0, <1>1, <1>2, <1>3, <3>1
    <2>2. IsFiniteSet(Taken) /\ Cardinality(Taken) \in Nat /\ Cardinality(low) \in Nat
      BY <1>0, <1>1, TakenFinite, FiniteFrames
    <2>3. Cardinality(low) <= Cardinality(Taken)
      BY <2>1, <2>2, FS_Subset
    <2>4. ForTables = 3 + parts /\ parts \in Nat
      <3>1. ForTables = 3 + (idx - 1) \div Entries
        BY <1>0 DEF ForTables
      <3>2. (idx - 1) \div Entries = parts
        BY <1>1, <1>2, EmptyQuotient
      <3>3. parts \in Nat
        BY <1>1, Sizes
      <3> QED
        BY <3>1, <3>2, <3>3
    <2>5. Cardinality(Taken) <= ForTables + ForPages
      BY <1>0 DEF Count
    <2>6. Spare = Cardinality(low) - (5 + parts)
      BY DEF Spare, BootNeeds
    <2>7. ForPages \in Nat
      BY <1>0, Counted
    <2> HIDE DEF low, parts
    <2> QED
      BY <2>2, <2>3, <2>4, <2>5, <2>6, <2>7
  <1> QED
    BY <1>4, <1>5

\* vmmngr_alloc_page: a page and its entry, or no memory for the table.
LEMMA PageTaken ==
  ASSUME IInv, vmmngr_alloc_page, UNCHANGED atBoot, NEW l, l = Lowest(free)
  PROVE  /\ pc = "done" /\ pc' = "done" /\ pages' = pages \cup {l}
         /\ l \in Nat /\ l \notin Taken
         /\ Types' /\ Supply' /\ Spare' = Spare
         /\ starved => starved'
         /\ ~starved /\ starved' => Spare <= ForPages - 2
         /\ ~starved' =>
              /\ ~fault' /\ UNCHANGED <<new_pd, TablesOf(new_pd)>>
              /\ Cardinality(Taken') = Cardinality(Taken) + 1
              /\ Cardinality(Taken) \in Nat /\ ForTables' = ForTables /\ ForTables \in Nat
              /\ Cardinality(Taken) <= ForTables => l + FatPages <= Entries
              /\ \A t \in Taken : t < l
              /\ Shape' /\ Owned' /\ Cache'
  <1>1. /\ Types /\ Supply /\ pc = "done" /\ pc' = "done" /\ pages' = pages \cup {l} /\ free # {}
        /\ l \in free /\ l \in Nat /\ l \notin Taken
        /\ Types' /\ Supply' /\ Spare' = Spare /\ ForTables' = ForTables /\ new_pd' = new_pd
        /\ starved => starved'
    BY PageTaking DEF IInv
  <1>2. ASSUME ~starved, starved' PROVE Spare <= ForPages - 2
    BY <1>2, PageEntered, PageWithoutTable
  <1>3. ASSUME ~starved'
        PROVE  /\ ~fault' /\ TablesOf(new_pd)' = TablesOf(new_pd)
               /\ Cardinality(Taken') = Cardinality(Taken) + 1
               /\ Cardinality(Taken) \in Nat /\ ForTables \in Nat
               /\ Cardinality(Taken) <= ForTables => l + FatPages <= Entries
               /\ \A t \in Taken : t < l
               /\ Shape' /\ Owned' /\ Cache'
    <2>1. ~starved /\ TableFor(l) # NotPresent
      BY <1>1, <1>3, PageWithoutTable
    <2>2. /\ ~fault' /\ TablesOf(new_pd)' = TablesOf(new_pd) /\ Taken' = Taken \cup {l}
          /\ Shape' /\ Owned' /\ Cache'
      BY <2>1, PageEntered
    <2>3. /\ Cardinality(Taken \cup {l}) = Cardinality(Taken) + 1 /\ Cardinality(Taken) \in Nat
          /\ Cardinality(Taken) < 3 + Entries - KernelDir => l + FatPages <= Entries
      BY <1>1, Taking
    <2>4. ForTables = 3 + (idx - 1) \div Entries
      BY <1>1 DEF ForTables
    <2>5. (idx - 1) \div Entries \in Nat /\ (idx - 1) \div Entries < Entries - KernelDir
      <3>1. idx \in Nat /\ idx >= Entries /\ idx <= Window
        BY <1>1, <2>1, Sizes DEF IInv, Shape, Types
      <3>2. idx - 1 \in Frames
        BY <3>1, Sizes DEF Frames
      <3> QED
        BY <3>2, AddressOf
    <2>6. Cardinality(Taken) <= ForTables => l + FatPages <= Entries
      BY <2>3, <2>4, <2>5, Sizes
    <2>7. \A t \in Taken : t < l
      BY <1>1 DEF Supply
    <2> QED
      BY <2>2, <2>3, <2>4, <2>5, <2>6, <2>7
  <1> QED
    BY <1>1, <1>2, <1>3

\* The count of a page: the frame it took, or an allocation that found no
\* frame for the table.
LEMMA PageCounted ==
  ASSUME IInv, Types', Stages', Supply', Spare' = Spare, starved => starved',
         ~starved /\ starved' => Spare <= ForPages - 2,
         ~starved' => /\ Cardinality(Taken') = Cardinality(Taken) + 1 /\ Cardinality(Taken) \in Nat
                      /\ ForTables' = ForTables /\ ForTables \in Nat,
         ForPages < ForPages', ForPages - 2 < Cardinality(handles'),
         Cardinality(handles) <= Cardinality(handles')
  PROVE  Count'
  <1>1. /\ Spare \in Int /\ Cardinality(handles) \in Nat /\ ForPages \in Nat
        /\ (Cardinality(handles) \in Nat)' /\ (ForPages \in Nat)'
    <2>1. Spare \in Int /\ Cardinality(handles) \in Nat /\ ForPages \in Nat
      BY Counted DEF IInv
    <2>2. (Cardinality(handles) \in Nat)' /\ (ForPages \in Nat)'
      BY CountedNext
    <2> QED
      BY <2>1, <2>2
  <1>2. CASE starved'
    <2>1. Spare < Cardinality(handles')
      BY <1>1, <1>2 DEF IInv, Count
    <2> QED
      BY <1>1, <1>2, <2>1 DEF Count
  <1>3. CASE ~starved'
    <2>1. Cardinality(Taken) <= ForTables + ForPages
      BY <1>3 DEF IInv, Count
    <2>2. Cardinality(Taken') <= ForTables' + ForPages'
      BY <1>1, <1>3, <2>1
    <2> QED
      BY <1>3, <2>2 DEF Count
  <1> QED
    BY <1>2, <1>3

\* The cached table stays where it is, and the page tables too.
LEMMA SameCache ==
  ASSUME TableCache, UNCHANGED <<new_pd, TablesOf(new_pd), fat_buffer>>, stage' # "load"
  PROVE  TableCache'
  BY DEF TableCache

LEMMA MountStep == IInv /\ fat12_init => IInv'
  <1> SUFFICES ASSUME IInv, fat12_init PROVE IInv'
    OBVIOUS
  <1> DEFINE l == Lowest(free)
  <1>0. /\ vmmngr_alloc_page /\ stage = "fat12_init" /\ stage' = "load"
        /\ UNCHANGED <<user_stack, handles, atBoot>> /\ fat_buffer' = l .. l + FatPages - 1
    BY DEF fat12_init
  <1> HIDE DEF l
  <1>1. /\ pc = "done" /\ pc' = "done" /\ pages' = pages \cup {l} /\ l \in Nat
        /\ Types' /\ Supply' /\ Spare' = Spare
        /\ starved => starved'
        /\ ~starved /\ starved' => Spare <= ForPages - 2
        /\ ~starved' =>
             /\ ~fault' /\ UNCHANGED <<new_pd, TablesOf(new_pd)>>
             /\ Cardinality(Taken') = Cardinality(Taken) + 1
             /\ Cardinality(Taken) \in Nat /\ ForTables' = ForTables /\ ForTables \in Nat
             /\ Cardinality(Taken) <= ForTables => l + FatPages <= Entries
             /\ \A t \in Taken : t < l
             /\ Shape' /\ Owned' /\ Cache'
    BY <1>0, PageTaken DEF l
  <1>2. Stages'
    BY <1>0, <1>1 DEF IInv, Stages, VmmReturned
  <1>3. ForPages = 0 /\ ForPages' = 1 /\ handles' = handles /\ Cardinality(handles) \in Nat
    BY <1>0, Counted DEF IInv, ForPages
  <1>4. Count'
    BY <1>1, <1>2, <1>3, PageCounted
  <1>5. ASSUME ~starved' PROVE TableCache'
    <2>1. Cardinality(Taken) <= ForTables /\ ~starved
      BY <1>1, <1>3, <1>5 DEF IInv, Count
    <2>2. fat_buffer' \subseteq Index
      BY <1>0, <1>1, <1>5, <2>1, Sizes, KernelAssumption DEF Index
    <2>3. {new_pd} \cup TablesOf(new_pd) \subseteq Taken \cap Index
      BY <1>1, <2>1 DEF IInv, Owned
    <2>4. \A f \in fat_buffer' : \A t \in {new_pd} \cup TablesOf(new_pd) : t < f
      <3>1. \A f \in fat_buffer' : f \in Nat /\ l <= f
        BY <1>0, <1>1, KernelAssumption
      <3>2. \A t \in {new_pd} \cup TablesOf(new_pd) : t \in Nat /\ t < l
        BY <1>1, <1>5, <2>3, Sizes
      <3> QED
        BY <1>1, <3>1, <3>2
    <2> QED
      BY <1>1, <1>5, <2>2, <2>4 DEF TableCache
  <1> QED
    BY <1>1, <1>2, <1>4, <1>5 DEF IInv

LEMMA UserStackStep == IInv /\ UserStack => IInv'
  <1> SUFFICES ASSUME IInv, UserStack PROVE IInv'
    OBVIOUS
  <1> DEFINE l == Lowest(free)
  <1>0. /\ vmmngr_alloc_page /\ stage = "user_stack" /\ stage' = "user"
        /\ UNCHANGED <<fat_buffer, handles, atBoot>>
    BY DEF UserStack
  <1> HIDE DEF l
  <1>1. /\ pc = "done" /\ pc' = "done" /\ pages' = pages \cup {l}
        /\ Types' /\ Supply' /\ Spare' = Spare
        /\ starved => starved'
        /\ ~starved /\ starved' => Spare <= ForPages - 2
        /\ ~starved' =>
             /\ ~fault' /\ UNCHANGED <<new_pd, TablesOf(new_pd)>>
             /\ Cardinality(Taken') = Cardinality(Taken) + 1
             /\ Cardinality(Taken) \in Nat /\ ForTables' = ForTables /\ ForTables \in Nat
             /\ Shape' /\ Owned' /\ Cache'
    BY <1>0, PageTaken DEF l
  <1>2. Stages'
    BY <1>0, <1>1 DEF IInv, Stages, VmmReturned
  <1>3. Count'
    <2>1. ForPages = 1 /\ ForPages' = 2 + Cardinality(handles) /\ Cardinality(handles) \in Nat
      BY <1>0, Counted DEF IInv, ForPages
    <2>2. ForPages < ForPages' /\ ForPages - 2 < Cardinality(handles') /\ Cardinality(handles) <= Cardinality(handles')
      BY <1>0, <2>1
    <2> QED
      BY <1>1, <1>2, <2>2, PageCounted
  <1>4. ASSUME ~starved' PROVE TableCache'
    BY <1>0, <1>1, <1>4, SameCache DEF IInv
  <1> QED
    BY <1>1, <1>2, <1>3, <1>4 DEF IInv

LEMMA OpenStep == IInv /\ fat12_open => IInv'
  <1> SUFFICES ASSUME IInv, fat12_open PROVE IInv'
    OBVIOUS
  <1> DEFINE l == Lowest(free)
  <1>0. /\ vmmngr_alloc_page /\ stage = "user" /\ stage' = "user"
        /\ UNCHANGED <<fat_buffer, atBoot>> /\ handles' = handles \cup {l}
    BY DEF fat12_open
  <1> HIDE DEF l
  <1>1. /\ pc = "done" /\ pc' = "done" /\ pages' = pages \cup {l} /\ l \notin Taken
        /\ Types' /\ Supply' /\ Spare' = Spare
        /\ starved => starved'
        /\ ~starved /\ starved' => Spare <= ForPages - 2
        /\ ~starved' =>
             /\ ~fault' /\ UNCHANGED <<new_pd, TablesOf(new_pd)>>
             /\ Cardinality(Taken') = Cardinality(Taken) + 1
             /\ Cardinality(Taken) \in Nat /\ ForTables' = ForTables /\ ForTables \in Nat
             /\ Shape' /\ Owned' /\ Cache'
    BY <1>0, PageTaken DEF l
  <1>2. Stages'
    BY <1>0, <1>1 DEF IInv, Stages, VmmReturned
  <1>3. Cardinality(handles') = Cardinality(handles) + 1 /\ Cardinality(handles) \in Nat
    <2>1. handles \subseteq Frames /\ l \notin handles
      BY <1>1 DEF IInv, Stages, Types, Supply
    <2> QED
      BY <1>0, <2>1, FiniteFrames, FS_AddElement
  <1>4. Count'
    <2>1. ForPages = 2 + Cardinality(handles) /\ ForPages' = 2 + Cardinality(handles')
      BY <1>0 DEF ForPages
    <2>2. ForPages < ForPages' /\ ForPages - 2 < Cardinality(handles') /\ Cardinality(handles) <= Cardinality(handles')
      BY <1>3, <2>1
    <2> QED
      BY <1>1, <1>2, <2>2, PageCounted
  <1>5. ASSUME ~starved' PROVE TableCache'
    BY <1>0, <1>1, <1>5, SameCache DEF IInv
  <1> QED
    BY <1>1, <1>2, <1>4, <1>5 DEF IInv

\* Nothing is taken: a call that fails, and main goes on.
LEMMA NoPageStep == IInv /\ (NotMounted \/ NoStack) => IInv'
  <1> SUFFICES ASSUME IInv, NotMounted \/ NoStack PROVE IInv'
    OBVIOUS
  <1>0. UNCHANGED vars /\ UNCHANGED <<fat_buffer, user_stack, handles, atBoot>> /\ VmmReturned
    BY DEF NotMounted, NoStack
  <1>1. /\ UNCHANGED <<mem, cr3, new_pd, free, pc, idx, total, pages, tlb, fault, starved>>
        /\ UNCHANGED <<fat_buffer, handles, atBoot>>
        /\ stage' \in {"user_stack", "user"} /\ VmmReturned'
    BY <1>0 DEF vars, VmmReturned, NotMounted, NoStack
  <1>2. Types' /\ Supply' /\ Taken' = Taken
    BY <1>1 DEF IInv, Types, Supply, Taken
  <1>3. Stages'
    BY <1>1 DEF IInv, Stages
  <1>4. ForPages \in Nat /\ ForPages' \in Nat /\ ForPages <= ForPages'
    <2>1. Cardinality(handles) \in Nat
      <3>1. handles \subseteq Frames
        BY DEF IInv, Stages, Types
      <3> QED
        BY <3>1, FiniteFrames
    <2> QED
      BY <1>1, <2>1 DEF ForPages, NotMounted, NoStack
  <1>5. Count'
    <2>1. ForTables' = ForTables /\ Spare' = Spare
      BY <1>1 DEF ForTables, Spare, BootNeeds
    <2>2. Cardinality(Taken) \in Nat
      BY TakenFinite DEF IInv
    <2>3. ASSUME ~starved PROVE ForTables \in Nat
      <3>1. CASE pc = "failed"
        BY <3>1 DEF ForTables
      <3>2. CASE pc = "done"
        <4>1. idx - 1 \in Nat
          BY <2>3, <3>2, Sizes DEF IInv, Types, Shape
        <4>2. (idx - 1) \div Entries \in Nat
          BY <4>1, Sizes
        <4>3. ForTables = 3 + (idx - 1) \div Entries
          BY <3>2 DEF ForTables
        <4> QED
          BY <4>2, <4>3
      <3> QED
        BY <1>0, <3>1, <3>2 DEF VmmReturned
    <2> QED
      BY <1>1, <1>2, <1>4, <2>1, <2>2, <2>3 DEF IInv, Count
  <1>6. ASSUME ~starved PROVE Shape' /\ Owned' /\ Cache' /\ ~fault' /\ TableCache'
    <2>1. Shape /\ Owned /\ Cache /\ ~fault /\ TableCache
      BY <1>6 DEF IInv
    <2>2. Shape'
      BY <1>1, <2>1 DEF Shape, BootMap, Copied, Maps, Lower
    <2>3. Owned' /\ Cache'
      BY <1>1, <1>2, <2>1 DEF Owned, TablesOf, Cache, Translations, Walk
    <2>4. TableCache'
      <3>1. TablesOf(new_pd)' = TablesOf(new_pd)
        BY <1>1 DEF TablesOf
      <3> QED
        BY <1>1, <2>1, <3>1, SameCache
    <2> QED
      BY <1>1, <2>1, <2>2, <2>3, <2>4
  <1> QED
    BY <1>1, <1>2, <1>3, <1>5, <1>6 DEF IInv

LEMMA LoadFatStep == IInv /\ LoadFat => IInv'
  <1> SUFFICES ASSUME IInv, LoadFat PROVE IInv'
    OBVIOUS
  <1>0. /\ stage = "load" /\ stage' = "user_stack" /\ Touch(fat_buffer) /\ Fill
        /\ UNCHANGED <<mem, cr3, new_pd, free, pc, idx, total, pages, starved>>
        /\ UNCHANGED <<fat_buffer, user_stack, handles, atBoot>>
    BY DEF LoadFat
  <1>1. pc = "done" /\ Types /\ Supply /\ Stages /\ Count
    BY <1>0 DEF IInv, Stages
  <1>2. Types'
    <2>1. tlb' \subseteq Pages \X Frames /\ fault' \in BOOLEAN
      BY <1>0, <1>1, CachedPages, TouchType
    <2> QED
      BY <1>0, <1>1, <2>1 DEF Types
  <1>3. Supply' /\ Taken' = Taken /\ Spare' = Spare
    BY <1>0, <1>1, NoneTaken
  <1>4. Stages'
    BY <1>0, <1>1 DEF Stages, VmmReturned
  <1>5. Count'
    <2>1. ForTables' = ForTables /\ ForPages' = ForPages
      BY <1>0 DEF ForTables, ForPages
    <2> QED
      BY <1>0, <1>1, <1>3, <2>1 DEF Count
  <1>6. ASSUME ~starved PROVE Shape' /\ Owned' /\ Cache' /\ ~fault' /\ TableCache'
    <2>1. Shape /\ Owned /\ Cache /\ ~fault /\ TableCache /\ fat_buffer \subseteq Index
      BY <1>0, <1>6 DEF IInv, TableCache
    <2>2. Shape'
      BY <1>0, <1>1, <2>1 DEF Shape, Maps, Lower
    <2>3. Owned'
      BY <1>0, <1>1, <1>3, <2>1, SameTables
    <2>4. Cache'
      <3>1. Translations' = Translations
        BY <1>0 DEF Translations, Walk
      <3> QED
        BY <1>0, <1>1, <1>2, <2>1, <2>2, <3>1, Filled
    <2>5. fault' = FALSE
      <3>1. Seen /\ MapEnd = idx
        BY <1>1, <2>1, ProcessorSees DEF MapEnd
      <3>2. \A f \in fat_buffer : f \in Frames /\ f < MapEnd
        BY <1>1, <2>1, <3>1, Sizes DEF Shape, Types, Index
      <3> QED
        BY <1>0, <2>1, <3>1, <3>2, Reached
    <2>6. TableCache'
      <3>1. TablesOf(new_pd)' = TablesOf(new_pd)
        BY <1>0 DEF TablesOf
      <3> QED
        BY <1>0, <2>1, <3>1, SameCache
    <2> QED
      BY <2>2, <2>3, <2>4, <2>5, <2>6
  <1> QED
    BY <1>0, <1>2, <1>3, <1>4, <1>5, <1>6 DEF IInv

LEMMA StutterStep == IInv /\ UNCHANGED <<vars, kernelVars>> => IInv'
  <1> SUFFICES ASSUME IInv, UNCHANGED <<vars, kernelVars>> PROVE IInv'
    OBVIOUS
  <1>1. /\ UNCHANGED <<mem, cr3, new_pd, free, pc, idx, total, pages, tlb, fault, starved>>
        /\ UNCHANGED <<stage, fat_buffer, user_stack, handles, atBoot>>
    BY DEF vars, kernelVars
  <1>2. Types' /\ Stages' /\ Supply' /\ Taken' = Taken
    BY <1>1 DEF IInv, Types, Stages, VmmReturned, Supply, Taken
  <1>3. Count'
    <2>1. ForTables' = ForTables /\ ForPages' = ForPages /\ Spare' = Spare
      BY <1>1 DEF ForTables, ForPages, Spare, BootNeeds
    <2> QED
      BY <1>1, <1>2, <2>1 DEF IInv, Count
  <1>4. ASSUME ~starved PROVE Shape' /\ Owned' /\ Cache' /\ ~fault' /\ TableCache'
    <2>1. Shape /\ Owned /\ Cache /\ ~fault /\ TableCache
      BY <1>4 DEF IInv
    <2>2. Shape'
      BY <1>1, <2>1 DEF Shape, BootMap, Copied, Maps, Lower
    <2>3. Owned' /\ Cache' /\ TableCache'
      BY <1>1, <1>2, <2>1 DEF Owned, TablesOf, Cache, Translations, Walk, TableCache
    <2> QED
      BY <1>1, <2>1, <2>2, <2>3
  <1> QED
    BY <1>1, <1>2, <1>3, <1>4 DEF IInv

LEMMA NextInv == IInv /\ [KernelNext]_<<vars, kernelVars>> => IInv'
  <1> SUFFICES ASSUME IInv, [KernelNext]_<<vars, kernelVars>> PROVE IInv'
    OBVIOUS
  <1>1. CASE Memory
    BY <1>1, AllocDirectoryStep, CopyTableStep, SwitchStep, ExtendStep, ClearIdentityTableStep,
       ClearIdentityEntryStep, ReloadStep DEF Memory, vmmngr_initialize
  <1>2. CASE fat12_init
    BY <1>2, MountStep
  <1>3. CASE NotMounted
    BY <1>3, NoPageStep
  <1>4. CASE LoadFat
    BY <1>4, LoadFatStep
  <1>5. CASE UserStack
    BY <1>5, UserStackStep
  <1>6. CASE NoStack
    BY <1>6, NoPageStep
  <1>7. CASE fat12_open
    BY <1>7, OpenStep
  <1>8. CASE NotFound \/ UNCHANGED <<vars, kernelVars>>
    BY <1>8, StutterStep DEF NotFound
  <1> QED
    BY <1>1, <1>2, <1>3, <1>4, <1>5, <1>6, <1>7, <1>8 DEF KernelNext

LEMMA Invariant == KernelSpec => []IInv
  BY InitInv, NextInv, PTL DEF KernelSpec

-----------------------------------------------------------------------------
(* The theorems.                                                           *)

\* Entries of page tables name frames and vmmngr_initialize's loops stay inside
\* the window of the direct map, whatever memory the machine has
\* (mm/paging.c: the cut of total_memory at 1 GB, the bounds of its two loops).
THEOREM VmmTypesHold == KernelSpec => []TypeOK
  <1>1. IInv => TypeOK
    <2> SUFFICES ASSUME IInv PROVE TypeOK
      OBVIOUS
    <2>1. free \subseteq Frames \ {0}
      BY VmmAssumption DEF IInv, Supply
    <2> QED
      BY <2>1 DEF IInv, Types, TypeOK
  <1> QED
    BY <1>1, Invariant, PTL

\* Until a page table finds no usable frame, each directory and table that mm/paging.c reads or
\* writes, and each page fs/fs.c loads its table into, is reached through the
\* direct map that the processor uses at that moment: those of the boot loader
\* first, those of the copy behind the switch, the identity map's until it is
\* removed.
THEOREM EveryAccessIsMapped == KernelSpec => []NoFault
  <1>1. IInv => NoFault
    BY DEF IInv, NoFault
  <1> QED
    BY <1>1, Invariant, PTL

\* The first 4 MB of the kernel's half stay where they are through the copy, the
\* switch, the extension and the removal of the identity map, in the tables and
\* in whatever the processor cached: mm/paging.c runs there, with interrupts on.
THEOREM KernelKeepsRunning == KernelSpec => []KernelStaysMapped
  <1>1. IInv => KernelStaysMapped
    <2> SUFFICES ASSUME IInv, ~starved, NEW f \in Index, NEW w \in Frames
                 PROVE  Walk(P2V(f)) = f /\ (<<P2V(f), w>> \in tlb => w = f)
      BY DEF KernelStaysMapped
    <2>1. Seen /\ Types /\ Shape /\ Cache
      BY ProcessorSees DEF IInv
    <2>2. f \in Frames /\ f < Entries /\ f \in Nat /\ P2V(f) = Base + f /\ w \in Nat
      BY AddressOf, Sizes DEF Index
    <2>3. Walk(P2V(f)) = f
      <3>1. f < MapEnd
        BY <2>1, <2>2, Sizes DEF MapEnd, Types, Shape
      <3> QED
        BY <2>1, <2>2, <3>1 DEF Seen
    <2>4. ASSUME <<P2V(f), w>> \in tlb PROVE w = f
      <3>1. P2V(f) = P2V(w) \/ P2V(f) \in Index
        BY <2>1, <2>4 DEF Cache
      <3>2. P2V(w) = Base + w /\ Base \in Nat
        BY AddressOf, Sizes
      <3>3. P2V(f) \notin Index
        BY <2>2, <3>2, Sizes DEF Index
      <3> QED
        BY <2>2, <3>1, <3>2, <3>3
    <2> QED
      BY <2>3, <2>4
  <1> QED
    BY <1>1, Invariant, PTL

\* What vmmngr_initialize leaves: the kernel's half maps physical memory up to
\* total_memory, each frame at its address, and nothing else is mapped, in the
\* tables as in the processor's cache; a page handed out later adds at most its
\* own entry.
THEOREM OnlyDirectMap == KernelSpec => []DirectMapOnly
  <1>1. IInv => DirectMapOnly
    <2> DEFINE mapped == {g \in Frames : g < total \/ g < Entries \/ g \in pages}
    <2> SUFFICES ASSUME IInv, ~starved, pc = "done"
                 PROVE  Translations = {<<P2V(f), f>> : f \in mapped} /\ tlb \subseteq Translations
      BY DEF DirectMapOnly
    <2>1. Seen /\ Types /\ Shape /\ Cache /\ Supply
      BY ProcessorSees DEF IInv
    <2>2. MapEnd = (IF total > Entries THEN total ELSE Entries) /\ total \in Nat
      BY <2>1 DEF MapEnd, Shape, Types
    <2>3. \A g \in Frames : g < MapEnd \/ g \in pages <=> g \in mapped
      BY <2>2, Sizes
    <2> HIDE DEF mapped
    <2>4. ASSUME NEW t \in Translations PROVE \E f \in mapped : t = <<P2V(f), f>>
      <3>1. t[1] \in Pages /\ t[2] \in Frames /\ Walk(t[1]) = t[2] /\ t = <<t[1], t[2]>>
        BY DEF Translations
      <3>2. t[1] = P2V(t[2])
        BY <2>1, <3>1 DEF Seen
      <3>3. t[2] < MapEnd \/ t[2] \in pages
        BY <2>1, <3>1, <3>2, TableFrames DEF Seen
      <3> QED
        BY <2>3, <3>1, <3>2, <3>3
    <2>5. ASSUME NEW f \in mapped PROVE <<P2V(f), f>> \in Translations
      <3>1. f \in Frames
        BY DEF mapped
      <3>2. Walk(P2V(f)) = f /\ P2V(f) \in Pages
        BY <2>1, <2>3, <3>1, AddressOf DEF Seen
      <3> QED
        BY <3>1, <3>2 DEF Translations
    <2> QED
      BY <2>1, <2>4, <2>5 DEF Cache
  <1> QED
    BY <1>1, Invariant, PTL

\* The directory in use and its tables are different frames, and neither a page
\* that vmmngr_alloc_page handed out nor a frame it can still find is one of them.
THEOREM TablesBelongToNoOne == KernelSpec => []TablesAreOwned
  <1>1. IInv => TablesAreOwned
    <2> SUFFICES ASSUME IInv, ~starved, cr3 = new_pd
                 PROVE  /\ \A c, d \in Index : c # d /\ mem[cr3][c] = mem[cr3][d] => mem[cr3][c] = NotPresent
                        /\ cr3 \notin TablesInUse
                        /\ (TablesInUse \cup {cr3}) \cap (free \cup pages) = {}
      BY DEF TablesAreOwned
    <2>1. TablesInUse = TablesOf(new_pd)
      BY DEF TablesInUse, TablesOf
    <2>2. CASE pc \notin {"start", "failed"}
      BY <2>1, <2>2 DEF IInv, Owned, Taken
    <2>3. CASE pc \in {"start", "failed"}
      BY <2>3, TableFrames DEF IInv, Types, Shape, BootMap
    <2> QED
      BY <2>2, <2>3 DEF IInv, Types
  <1> QED
    BY <1>1, Invariant, PTL

\* While low memory is enough for boot and the open files, all comes from it.
LEMMA AllFromLowMemory ==
  ASSUME IInv, ~starved, pc \in {"extend", "clear", "reload", "done"}, Cardinality(handles) <= Spare
  PROVE  \A t \in Taken : t < LowEnd
  <1> DEFINE low == {f \in atBoot : f < LowEnd}
             parts == IF total > Entries THEN (total - 1) \div Entries ELSE 0
             open == Cardinality(handles)
  <1>1. Types /\ Stages /\ Supply /\ Count /\ Shape
    BY DEF IInv
  <1>2. atBoot \subseteq Frames /\ LowEnd \in Nat
    BY <1>1, VmmAssumption, KernelAssumption, Sizes DEF Supply
  <1>3. IsFiniteSet(low) /\ Cardinality(low) \in Nat /\ open \in Nat
    <2>1. low \subseteq Frames /\ handles \subseteq Frames
      BY <1>1, <1>2 DEF Stages, Types
    <2> QED
      BY <2>1, FiniteFrames
  <1>4. parts \in Nat
    BY <1>1, Sizes DEF Types
  <1>5. (idx - 1) \div Entries \in Nat /\ (idx - 1) \div Entries <= parts
    <2>1. CASE idx = Entries
      BY <1>4, <2>1, EmptyQuotient
    <2>2. CASE idx # Entries
      <3>1. total > Entries /\ idx <= total /\ idx - 1 \in Nat /\ total - 1 \in Nat /\ idx - 1 <= total - 1
        BY <1>1, <2>2, Sizes DEF Types, Shape
      <3>2. (idx - 1) \div Entries \in Nat /\ (total - 1) \div Entries \in Nat
        BY <3>1, Sizes
      <3> QED
        BY <3>1, <3>2, QuotientGrows
    <2> QED
      BY <2>1, <2>2
  <1>6. Cardinality(Taken) <= 5 + parts + open /\ Cardinality(Taken) \in Nat /\ IsFiniteSet(Taken)
    <2>1. ForTables = 3 + (idx - 1) \div Entries
      BY DEF ForTables
    <2>2. ForPages \in Nat /\ ForPages <= 2 + open
      BY <1>3 DEF ForPages
    <2>3. Cardinality(Taken) <= ForTables + ForPages
      BY <1>1 DEF Count
    <2> HIDE DEF parts, open
    <2> QED
      BY <1>1, <1>3, <1>4, <1>5, <2>1, <2>2, <2>3, TakenFinite
  <1>7. open <= Cardinality(low) - (5 + parts)
    BY DEF Spare, BootNeeds
  <1>8. Cardinality(Taken) <= Cardinality(low)
    <2> HIDE DEF low, parts, open
    <2> QED
      BY <1>3, <1>4, <1>6, <1>7
  <1>9. ASSUME NEW t \in Taken, ~(t < LowEnd) PROVE FALSE
    <2>1. ASSUME NEW g \in low PROVE g \in Taken \ {t}
      <3>1. g \in Nat /\ t \in Nat
        BY <1>2, Sizes DEF Taken
      <3>2. g < t
        BY <1>2, <1>9, <3>1
      <3>3. g \notin free
        BY <1>1, <1>9, <3>1, <3>2 DEF Supply
      <3> QED
        BY <3>1, <3>2, <3>3 DEF Taken
    <2>2. Cardinality(low) <= Cardinality(Taken \ {t})
      <3>1. low \subseteq Taken \ {t} /\ IsFiniteSet(Taken \ {t})
        BY <1>6, <2>1, FS_RemoveElement
      <3> QED
        BY <3>1, FS_Subset
    <2>3. Cardinality(Taken \ {t}) = Cardinality(Taken) - 1
      BY <1>6, FS_RemoveElement
    <2> HIDE DEF low
    <2> QED
      BY <1>3, <1>6, <1>8, <2>2, <2>3
  <1> QED
    BY <1>9

\* kernel/kernel.c releases the region its own image lies in, and the search of
\* mm/memory.c alone decides who gets those frames: while the files that are open
\* fit into what boot leaves of low memory, no page and no page table lies
\* outside it; and fs/fs.c's table, which runs over its page, misses the page
\* tables until one of them finds no usable frame.
THEOREM KernelIsLeftAlone == KernelSpec => []KernelUntouched
  <1>1. IInv => KernelUntouched
    <2> SUFFICES ASSUME IInv PROVE KernelUntouched
      OBVIOUS
    <2>1. ASSUME pc # "start", Cardinality(handles) <= Spare, NEW f \in pages \cup TablesInUse \cup {cr3}
          PROVE  f < LowEnd
      <3>1. ~starved
        <4>1. Cardinality(handles) \in Nat /\ Spare \in Int
          BY Counted DEF IInv
        <4> QED
          BY <2>1, <4>1 DEF IInv, Count
      <3>2. CASE pc \in {"copy", "failed"}
        <4>1. BootMap /\ pages = {}
          BY <3>1, <3>2 DEF IInv, Shape, Types
        <4>2. TablesInUse \cup {cr3} \subseteq BootFrames
          BY <4>1, TableFrames DEF BootMap, TablesInUse, Empty
        <4>3. f \in BootFrames
          BY <2>1, <4>1, <4>2
        <4>4. BootFrames \subseteq 1 .. LowEnd - 1 /\ LowEnd \in Nat
          BY KernelAssumption, Sizes
        <4>5. \A n \in 1 .. LowEnd - 1 : n < LowEnd
          BY <4>4
        <4> QED
          BY <4>3, <4>4, <4>5
      <3>3. CASE pc \in {"extend", "clear", "reload", "done"}
        <4>1. cr3 = new_pd /\ Owned /\ pages \subseteq Taken
          BY <3>1, <3>3 DEF IInv, Shape, Supply
        <4>2. TablesInUse = TablesOf(new_pd)
          BY <4>1 DEF TablesInUse, TablesOf
        <4>3. f \in Taken
          BY <2>1, <3>3, <4>1, <4>2 DEF Owned
        <4> QED
          BY <2>1, <3>1, <3>3, <4>3, AllFromLowMemory
      <3> QED
        BY <2>1, <3>2, <3>3 DEF IInv, Types
    <2>2. ASSUME ~starved, NEW f \in fat_buffer, f \in TablesInUse \cup {cr3} PROVE FALSE
      <3>1. pc = "done" /\ cr3 = new_pd /\ TableCache /\ Owned
        BY <2>2 DEF IInv, Stages, Shape
      <3>2. f \in {new_pd} \cup TablesOf(new_pd)
        BY <2>2, <3>1 DEF TablesInUse, TablesOf
      <3>3. f < f
        BY <2>2, <3>1, <3>2 DEF TableCache
      <3>4. f \in Nat
        BY <3>1, <3>2, Sizes DEF Owned
      <3> QED
        BY <3>3, <3>4
    <2> QED
      BY <2>1, <2>2 DEF KernelUntouched
  <1> QED
    BY <1>1, Invariant, PTL
=============================================================================
