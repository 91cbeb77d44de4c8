---------------------------- MODULE Fat12Proofs ----------------------------
(***************************************************************************)
(* What module Fat12 promises, proved for every disk, every table geometry *)
(* and every number of files, clusters and pages.                          *)
(***************************************************************************)
EXTENDS Fat12, FiniteSetTheorems, WellFoundedInduction, TLAPS

-----------------------------------------------------------------------------
(* Natural numbers: the least element of a set, induction over a range,    *)
(* functions defined by recursion over a range.                            *)

LEMMA LeastElement ==
  ASSUME NEW T \in SUBSET Nat, T # {}
  PROVE  \E n \in T : \A m \in T : n <= m
  <1> DEFINE R == {p \in Nat \X Nat : p[1] < p[2]}
  <1>1. IsWellFoundedOn(R, Nat)
    BY NatLessThanWellFounded, Zenon DEF OpToRel
  <1>2. \E x \in T : \A y \in T : ~ (<<y, x>> \in R)
    <2> HIDE DEF R
    <2> QED
      BY <1>1, WFMin, Zenon
  <1>3. ASSUME NEW x \in T, NEW y \in T, ~(<<y, x>> \in R) PROVE x <= y
    <2>1. x \in Nat /\ y \in Nat
      OBVIOUS
    <2> QED
      BY <1>3, <2>1
  <1> HIDE DEF R
  <1> QED
    BY <1>2, <1>3

LEMMA RangeInduction ==
  ASSUME NEW n \in Nat, NEW T, 0 \in T,
         \A k \in 0 .. n : k > 0 /\ k - 1 \in T => k \in T
  PROVE  0 .. n \subseteq T
  <1> SUFFICES ASSUME (0 .. n) \ T # {} PROVE FALSE
    OBVIOUS
  <1>1. PICK k \in (0 .. n) \ T : \A m \in (0 .. n) \ T : k <= m
    <2>1. (0 .. n) \ T \in SUBSET Nat
      OBVIOUS
    <2> QED
      BY <2>1, LeastElement
  <1> QED
    BY <1>1

Recursion(f, n, S, first, step) ==
  /\ f \in [0 .. n -> S]
  /\ f[0] = first
  /\ \A i \in 1 .. n : f[i] = step[<<f[i - 1], i>>]

LEMMA RangeRecursion ==
  ASSUME NEW n \in Nat, NEW S, NEW first \in S,
         NEW step \in [S \X (1 .. n) -> S]
  PROVE  \E f : Recursion(f, n, S, first, step)
  <1> DEFINE Solves(f, k) == /\ f \in [0 .. k -> S]
                             /\ f[0] = first
                             /\ \A i \in 1 .. k : f[i] = step[<<f[i - 1], i>>]
             T == {k \in 0 .. n : \E f : Solves(f, k)}
  <1>1. 0 \in T
    <2> DEFINE g == [i \in 0 .. 0 |-> first]
    <2>1. g \in [0 .. 0 -> S] /\ g[0] = first /\ 1 .. 0 = {}
      OBVIOUS
    <2>2. Solves(g, 0)
      BY <2>1
    <2> HIDE DEF g, Solves
    <2> QED
      BY <2>2
  <1>2. \A k \in 0 .. n : k > 0 /\ k - 1 \in T => k \in T
    <2> SUFFICES ASSUME NEW k \in 1 .. n, NEW f, Solves(f, k - 1)
                 PROVE  \E g : Solves(g, k)
      <3> HIDE DEF Solves
      <3> QED
        OBVIOUS
    <2> DEFINE g == [i \in 0 .. k |-> IF i = k THEN step[<<f[k - 1], k>>] ELSE f[i]]
    <2>1. Solves(g, k)
      <3>1. g \in [0 .. k -> S]
        <4>1. f[k - 1] \in S
          OBVIOUS
        <4>2. step[<<f[k - 1], k>>] \in S
          BY <4>1
        <4>3. \A i \in 0 .. k : i # k => f[i] \in S
          OBVIOUS
        <4> QED
          BY <4>2, <4>3
      <3>2. ASSUME NEW i \in 1 .. k PROVE g[i] = step[<<g[i - 1], i>>]
        <4>1. i = k \/ i \in 1 .. k - 1
          OBVIOUS
        <4>2. CASE i = k
          BY <4>2
        <4>3. CASE i \in 1 .. k - 1
          <5>1. f[i] = step[<<f[i - 1], i>>] /\ i # k /\ i - 1 # k /\ i - 1 \in 0 .. k
            BY <4>3
          <5> QED
            BY <5>1
        <4> QED
          BY <4>1, <4>2, <4>3
      <3>3. g[0] = first
        OBVIOUS
      <3> HIDE DEF g
      <3> QED
        BY <3>1, <3>2, <3>3
    <2> HIDE DEF g, Solves
    <2> QED
      BY <2>1
  <1>3. n \in T
    <2> HIDE DEF T
    <2> QED
      BY <1>1, <1>2, RangeInduction
  <1>4. \E f : Solves(f, n)
    <2> HIDE DEF Solves
    <2> QED
      BY <1>3
  <1>5. \A f : Solves(f, n) => Recursion(f, n, S, first, step)
    BY DEF Recursion
  <1> HIDE DEF Solves, T
  <1> QED
    BY <1>4, <1>5

-----------------------------------------------------------------------------
(* The chain of a file.                                                    *)

Walk(walk, table, first) ==
  /\ walk \in [0 .. Cardinality(Clusters) -> Seq(Clusters)]
  /\ walk[0] = <<>>
  /\ \A k \in 1 .. Cardinality(Clusters) : walk[k] = Longer(walk[k - 1], table, first)

LEMMA ClusterCount == Cardinality(Clusters) \in Nat \ {0}
  <1>1. LastCluster \in Nat \ {0, 1}
    BY FatAssumption
  <1>2. Cardinality(2 .. LastCluster) = LastCluster - 1
    BY <1>1, FS_Interval
  <1> QED
    BY <1>1, <1>2 DEF Clusters

LEMMA LongerType ==
  ASSUME NEW chain \in Seq(Clusters), NEW table, NEW first
  PROVE  Longer(chain, table, first) \in Seq(Clusters)
  BY DEF Longer

LEMMA WalkExists ==
  ASSUME NEW table, NEW first
  PROVE  \E walk : /\ Walk(walk, table, first)
                   /\ Chain(table, first) = walk[Cardinality(Clusters)]
  <1> DEFINE n == Cardinality(Clusters)
             Def(w) == [k \in 0 .. n |-> IF k = 0 THEN <<>> ELSE Longer(w[k - 1], table, first)]
             step == [p \in Seq(Clusters) \X (1 .. n) |-> Longer(p[1], table, first)]
             walk == CHOOSE w : w = Def(w)
  <1>1. n \in Nat
    BY ClusterCount
  <1>2. PICK f \in [0 .. n -> Seq(Clusters)] :
          f[0] = <<>> /\ \A k \in 1 .. n : f[k] = step[<<f[k - 1], k>>]
    <2> DEFINE S == Seq(Clusters)
               e == <<>>
    <2>1. e \in S
      OBVIOUS
    <2>2. step \in [S \X (1 .. n) -> S]
      BY LongerType
    <2> HIDE DEF n, step, S, e
    <2>3. \E f : Recursion(f, n, S, e, step)
      BY <1>1, <2>1, <2>2, RangeRecursion
    <2> QED
      BY <2>3, Zenon DEF Recursion, S, e
  <1>3. f = Def(f)
    <2>1. ASSUME NEW k \in 1 .. n
          PROVE  step[<<f[k - 1], k>>] = Longer(f[k - 1], table, first)
      <3>1. f[k - 1] \in Seq(Clusters)
        BY <1>1
      <3> QED
        BY <3>1
    <2>2. ASSUME NEW k \in 0 .. n
          PROVE  f[k] = IF k = 0 THEN <<>> ELSE Longer(f[k - 1], table, first)
      <3>1. k = 0 \/ k \in 1 .. n
        BY <1>1
      <3> HIDE DEF n, step
      <3> QED
        BY <1>2, <2>1, <3>1
    <2> HIDE DEF n, step
    <2> QED
      BY <2>2
  <1>4. walk = Def(walk)
    <2> HIDE DEF Def
    <2> QED
      BY <1>3
  <1>5. Chain(table, first) = walk[n]
    BY DEF Chain
  <1> HIDE DEF walk
  <1>6. walk[0] = <<>> /\ \A k \in 1 .. n : walk[k] = Longer(walk[k - 1], table, first)
    <2> HIDE DEF n
    <2> QED
      BY <1>1, <1>4
  <1>7. \A k \in 0 .. n : walk[k] \in Seq(Clusters)
    <2> DEFINE T == {k \in 0 .. n : walk[k] \in Seq(Clusters)}
    <2> HIDE DEF n
    <2>1. 0 \in T
      <3>1. <<>> \in Seq(Clusters) /\ 0 \in 0 .. n
        BY <1>1
      <3> QED
        BY <1>6, <3>1
    <2>2. ASSUME NEW k \in 0 .. n, k > 0, k - 1 \in T PROVE k \in T
      <3>1. k \in 1 .. n /\ walk[k - 1] \in Seq(Clusters)
        BY <1>1, <2>2
      <3>2. Longer(walk[k - 1], table, first) \in Seq(Clusters)
        BY <3>1, LongerType
      <3> QED
        BY <3>1, <3>2, <1>6
    <2>3. 0 .. n \subseteq T
      <3> HIDE DEF T
      <3> QED
        BY <1>1, <2>1, <2>2, RangeInduction
    <2> QED
      BY <2>3
  <1> QED
    <2> HIDE DEF n
    <2>1. walk \in [0 .. n -> Seq(Clusters)]
      BY <1>4, <1>7
    <2>2. Walk(walk, table, first)
      BY <1>6, <2>1 DEF Walk, n
    <2> QED
      BY <1>5, <2>2 DEF n

\* In these lemmas a step of the walk is compared with the one before.
LEMMA ChainIsPath ==
  ASSUME NEW table, NEW first \in Clusters
  PROVE  LET chain == Chain(table, first) IN
         /\ chain \in Seq(Clusters) /\ chain # <<>>
         /\ chain[1] = first
         /\ \A i \in 1 .. Len(chain) - 1 : chain[i + 1] = table[chain[i]]
  <1> DEFINE n == Cardinality(Clusters)
             IsPath(chain) == /\ chain # <<>>
                              /\ chain[1] = first
                              /\ \A i \in 1 .. Len(chain) - 1 : chain[i + 1] = table[chain[i]]
  <1>1. n \in Nat \ {0}
    BY ClusterCount
  <1>2. PICK walk : Walk(walk, table, first) /\ Chain(table, first) = walk[n]
    BY WalkExists
  <1>3. \A k \in 0 .. n : walk[k] \in Seq(Clusters)
    BY <1>1, <1>2 DEF Walk
  <1> DEFINE T == {0} \cup {k \in 1 .. n : IsPath(walk[k])}
  <1>4. ASSUME NEW k \in 0 .. n, k > 0, k - 1 \in T PROVE k \in T
    <2> DEFINE old == walk[k - 1]
               next == IF old = <<>> THEN first ELSE table[Last(old)]
    <2>1. old \in Seq(Clusters) /\ walk[k] \in Seq(Clusters)
      BY <1>1, <1>3, <1>4
    <2>2. walk[k] = IF next \in Clusters THEN Append(old, next) ELSE old
      <3>1. k \in 1 .. n
        BY <1>1, <1>4
      <3>2. walk[k] = Longer(old, table, first)
        BY <1>2, <3>1 DEF Walk
      <3> QED
        BY <3>2 DEF Longer
    <2>3. CASE old = <<>>
      BY <1>4, <2>2, <2>3
    <2>4. CASE old # <<>>
      <3>1. IsPath(old)
        <4>1. k - 1 # 0
          BY <1>2, <2>4 DEF Walk
        <4> QED
          BY <1>4, <4>1
      <3>2. Len(old) \in Nat \ {0} /\ Last(old) = old[Len(old)]
        BY <2>1, <2>4 DEF Last
      <3>3. CASE next \in Clusters
        <4>1. walk[k] = Append(old, table[old[Len(old)]])
          BY <2>2, <2>4, <3>2, <3>3
        <4> HIDE DEF old, next
        <4>2. /\ Len(walk[k]) = Len(old) + 1
              /\ \A i \in 1 .. Len(old) : walk[k][i] = old[i]
              /\ walk[k][Len(old) + 1] = table[old[Len(old)]]
          BY <2>1, <4>1
        <4>3. ASSUME NEW i \in 1 .. Len(walk[k]) - 1 PROVE walk[k][i + 1] = table[walk[k][i]]
          BY <3>1, <3>2, <4>2
        <4>4. walk[k] # <<>> /\ walk[k][1] = first
          BY <3>1, <3>2, <4>2
        <4> QED
          BY <1>4, <4>3, <4>4
      <3>4. CASE next \notin Clusters
        BY <1>4, <2>2, <3>1, <3>4
      <3> QED
        BY <3>3, <3>4
    <2> QED
      BY <2>3, <2>4
  <1>5. n \in T
    <2> HIDE DEF T, n
    <2>1. 0 \in T
      BY DEF T
    <2> QED
      BY <1>1, <1>4, <2>1, RangeInduction
  <1> QED
    BY <1>1, <1>2, <1>3, <1>5

\* A cluster that leads to no other is a chain by itself.
LEMMA ChainOfOne ==
  ASSUME NEW table, NEW first \in Clusters, table[first] \notin Clusters
  PROVE  Chain(table, first) = <<first>>
  <1> DEFINE n == Cardinality(Clusters)
  <1>1. n \in Nat \ {0}
    BY ClusterCount
  <1>2. PICK walk : Walk(walk, table, first) /\ Chain(table, first) = walk[n]
    BY WalkExists
  <1> DEFINE T == {0} \cup {k \in 1 .. n : walk[k] = <<first>>}
  <1>3. ASSUME NEW k \in 0 .. n, k > 0, k - 1 \in T PROVE k \in T
    <2>1. k \in 1 .. n /\ walk[k] = Longer(walk[k - 1], table, first)
      BY <1>1, <1>2, <1>3 DEF Walk
    <2>2. CASE walk[k - 1] = <<>>
      BY <2>1, <2>2 DEF Longer
    <2>3. CASE walk[k - 1] = <<first>>
      <3>1. Last(<<first>>) = first /\ <<first>> # <<>>
        BY DEF Last
      <3>2. walk[k] = <<first>>
        BY <2>1, <2>3, <3>1 DEF Longer
      <3> QED
        BY <2>1, <3>2
    <2>4. walk[k - 1] = <<>> \/ walk[k - 1] = <<first>>
      BY <1>2, <1>3 DEF Walk
    <2> QED
      BY <2>2, <2>3, <2>4
  <1>4. n \in T
    <2>1. 0 \in T
      OBVIOUS
    <2> HIDE DEF T, n
    <2> QED
      BY <1>1, <1>3, <2>1, RangeInduction
  <1> QED
    BY <1>1, <1>2, <1>4

\* A chain does not change with the entries of clusters that are not on it.
LEMMA ChainStays ==
  ASSUME NEW old, NEW new, NEW first,
         \A c \in Range(Chain(old, first)) : new[c] = old[c]
  PROVE  Chain(new, first) = Chain(old, first)
  <1> DEFINE n == Cardinality(Clusters)
  <1>1. n \in Nat
    BY ClusterCount
  <1>2. PICK walk : Walk(walk, old, first) /\ Chain(old, first) = walk[n]
    BY WalkExists
  <1>3. PICK walk2 : Walk(walk2, new, first) /\ Chain(new, first) = walk2[n]
    BY WalkExists
  <1>4. \A k \in 0 .. n : walk[k] \in Seq(Clusters)
    BY <1>1, <1>2 DEF Walk
  <1>5. \A j \in 0 .. n : Range(walk[n - j]) \subseteq Range(walk[n])
    <2> DEFINE T == {j \in 0 .. n : Range(walk[n - j]) \subseteq Range(walk[n])}
    <2> HIDE DEF n
    <2>1. 0 \in T
      BY <1>1
    <2>2. ASSUME NEW j \in 0 .. n, j > 0, j - 1 \in T PROVE j \in T
      <3> DEFINE k == n - j
      <3>1. k \in 0 .. n /\ k + 1 \in 1 .. n /\ k + 1 - 1 = k /\ n - (j - 1) = k + 1
        BY <1>1, <2>2
      <3> HIDE DEF k
      <3>2. walk[k + 1] = Longer(walk[k], old, first) /\ walk[k] \in Seq(Clusters)
        BY <1>2, <1>4, <3>1 DEF Walk, n
      <3>3. Range(walk[k]) \subseteq Range(walk[k + 1])
        <4>1. CASE walk[k + 1] = walk[k]
          BY <4>1
        <4>2. ASSUME NEW c, walk[k + 1] = Append(walk[k], c)
              PROVE  Range(walk[k]) \subseteq Range(walk[k + 1])
          BY <3>2, <4>2 DEF Range
        <4> QED
          BY <3>2, <4>1, <4>2 DEF Longer
      <3>4. Range(walk[k + 1]) \subseteq Range(walk[n])
        BY <2>2, <3>1
      <3> QED
        BY <3>3, <3>4 DEF k
    <2>3. 0 .. n \subseteq T
      <3> HIDE DEF T
      <3> QED
        BY <1>1, <2>1, <2>2, RangeInduction
    <2> QED
      BY <2>3
  <1>6. \A k \in 0 .. n : Range(walk[k]) \subseteq Range(walk[n])
    <2> SUFFICES ASSUME NEW k \in 0 .. n PROVE Range(walk[k]) \subseteq Range(walk[n])
      OBVIOUS
    <2> HIDE DEF n
    <2>1. n - k \in 0 .. n /\ n - (n - k) = k
      BY <1>1
    <2> QED
      BY <1>5, <2>1
  <1> DEFINE T == {k \in 0 .. n : walk2[k] = walk[k]}
  <1>7. ASSUME NEW k \in 0 .. n, k > 0, k - 1 \in T PROVE k \in T
    <2> DEFINE known == walk[k - 1]
    <2>1. k \in 1 .. n /\ k - 1 \in 0 .. n
      BY <1>1, <1>7
    <2>2. walk[k] = Longer(known, old, first) /\ walk2[k] = Longer(known, new, first)
      BY <1>2, <1>3, <1>7, <2>1 DEF Walk
    <2>3. known = <<>> \/ new[Last(known)] = old[Last(known)]
      <3> SUFFICES ASSUME known # <<>> PROVE new[Last(known)] = old[Last(known)]
        OBVIOUS
      <3>1. known \in Seq(Clusters) /\ Range(known) \subseteq Range(walk[n])
        BY <1>4, <1>6, <2>1
      <3>2. Len(known) \in DOMAIN known
        BY <3>1
      <3> HIDE DEF known
      <3>3. Last(known) \in Range(known)
        BY <3>2, Zenon DEF Last, Range
      <3> QED
        BY <1>2, <3>1, <3>3
    <2> QED
      BY <2>2, <2>3 DEF Longer
  <1>8. n \in T
    <2>1. 0 \in T
      BY <1>1, <1>2, <1>3 DEF Walk
    <2> HIDE DEF T, n
    <2> QED
      BY <1>1, <1>7, <2>1, RangeInduction
  <1> QED
    BY <1>2, <1>3, <1>8

-----------------------------------------------------------------------------
(* What the operators of the table and of the directory return.            *)

LEMMA FreeCluster ==
  ASSUME NEW table \in [Clusters -> FatValues]
  PROVE  LET c == find_free_cluster(table)
         IN \/ c = 0
            \/ c \in Clusters /\ c # 0 /\ table[c] = FAT12_FREE
  <1> DEFINE free == {c \in Clusters : table[c] = FAT12_FREE}
  <1>1. CASE free = {}
    BY <1>1 DEF find_free_cluster
  <1>2. CASE free # {}
    <2>1. free \in SUBSET Nat /\ 0 \notin free
      BY DEF Clusters
    <2>2. \E c \in free : \A d \in free : c <= d
      <3> HIDE DEF free
      <3> QED
        BY <1>2, <2>1, LeastElement
    <2>3. find_free_cluster(table) \in free
      <3> HIDE DEF free
      <3>1. find_free_cluster(table) = CHOOSE c \in free : \A d \in free : c <= d
        BY <1>2, Zenon DEF free, find_free_cluster
      <3> QED
        BY <2>2, <3>1
    <2> QED
      BY <2>1, <2>3
  <1> QED
    BY <1>1, <1>2

\* fat12_create takes one cluster, the lowest that is free, for a file of any
\* size: before the last round the entry of the cluster just taken is set to 0
\* again, so every round finds the same cluster (fs.c, the allocation loop).
THEOREM OneClusterTaken ==
  ASSUME NEW n \in Nat \ {0}, fat_buffer \in [Clusters -> FatValues]
  PROVE  LET c == find_free_cluster(fat_buffer)
             alloc == Allocation(n)
         IN IF c = 0
            THEN alloc.failed = TRUE /\ alloc.table = fat_buffer
            ELSE /\ alloc.failed = FALSE
                 /\ alloc.first = c
                 /\ alloc.table = [fat_buffer EXCEPT ![c] = FAT12_EOF]
  <1> DEFINE c == find_free_cluster(fat_buffer)
             start == [table |-> fat_buffer, first |-> 0, prev |-> 0, failed |-> FALSE]
             Taken(i) == IF c = 0
                         THEN [table |-> fat_buffer, first |-> 0, prev |-> 0, failed |-> TRUE]
                         ELSE [table |-> IF i = n THEN [fat_buffer EXCEPT ![c] = FAT12_EOF]
                                         ELSE fat_buffer,
                               first |-> c, prev |-> c, failed |-> FALSE]
             After(i) == IF i = 0 THEN start ELSE Taken(i)
             Def(f) == [i \in 0 .. n |-> IF i = 0 THEN start ELSE Round(f[i - 1], i, n)]
             loop == CHOOSE f : f = Def(f)
  <1>1. c = 0 \/ (c \in Clusters /\ c # 0 /\ fat_buffer[c] = 0)
    BY FreeCluster DEF FAT12_FREE
  <1>2. ASSUME NEW i \in 1 .. n PROVE Round(After(i - 1), i, n) = Taken(i)
    <2>1. CASE c = 0
      <3> DEFINE s == After(i - 1)
                 failed == [table |-> fat_buffer, first |-> 0, prev |-> 0, failed |-> TRUE]
      <3>1. s \in {start, failed} /\ Taken(i) = failed
        BY <2>1
      <3>2. s.table = fat_buffer /\ s.first = 0 /\ s.prev = 0
        BY <3>1
      <3>3. Round(s, i, n) = failed
        <4> HIDE DEF After, s
        <4> QED
          BY <2>1, <3>2, Zenon DEF Round
      <3> HIDE DEF After, Taken, failed
      <3> QED
        BY <3>1, <3>3
    <2>2. CASE c # 0
      <3>1. /\ After(i - 1).table = fat_buffer /\ After(i - 1).failed = FALSE
            /\ i # 1 => After(i - 1).prev = c /\ After(i - 1).first = c
        BY <2>2
      <3> DEFINE linked == IF i = 1 THEN fat_buffer ELSE [fat_buffer EXCEPT ![c] = c]
      <3>2. [linked EXCEPT ![c] = FAT12_EOF] = [fat_buffer EXCEPT ![c] = FAT12_EOF]
        OBVIOUS
      <3>3. [linked EXCEPT ![c] = 0] = fat_buffer
        BY <1>1, <2>2
      <3>4. Taken(i).table = [linked EXCEPT ![c] = IF i = n THEN FAT12_EOF ELSE 0]
        BY <2>2, <3>2, <3>3
      <3>5. (IF i = 1 THEN c ELSE After(i - 1).first) = c
        BY <3>1
      <3>6. linked = IF i = 1 THEN After(i - 1).table
                     ELSE [After(i - 1).table EXCEPT ![After(i - 1).prev] = c]
        BY <3>1
      <3>7. Taken(i) = [table |-> Taken(i).table, first |-> c, prev |-> c, failed |-> FALSE]
        BY <2>2
      <3>8. find_free_cluster(After(i - 1).table) = c
        BY <3>1
      <3> HIDE DEF After, Taken, c, linked
      <3> QED
        BY <2>2, <3>1, <3>4, <3>5, <3>6, <3>7, <3>8, Zenon DEF Round
    <2> QED
      BY <2>1, <2>2
  <1>3. loop = Def(loop)
    <2> DEFINE f == [i \in 0 .. n |-> After(i)]
    <2>1. \A i \in 1 .. n : f[i - 1] = After(i - 1) /\ i # 0
      <3> HIDE DEF After
      <3> QED
        OBVIOUS
    <2>2. \A i \in 0 .. n : i = 0 \/ i \in 1 .. n
      OBVIOUS
    <2>3. ASSUME NEW i \in 0 .. n
          PROVE  After(i) = IF i = 0 THEN start ELSE Round(f[i - 1], i, n)
      <3>1. CASE i = 0
        BY <3>1
      <3>2. CASE i \in 1 .. n
        <4>1. After(i) = Taken(i)
          BY <3>2
        <4> HIDE DEF After, Taken, f, start
        <4> QED
          BY <1>2, <2>1, <3>2, <4>1
      <3> QED
        BY <2>2, <3>1, <3>2
    <2>4. f = Def(f)
      <3>1. f = [i \in 0 .. n |-> After(i)]
        OBVIOUS
      <3> HIDE DEF f, After, start
      <3> QED
        BY <2>3, <3>1
    <2> HIDE DEF Def, f
    <2> QED
      BY <2>4
  <1>4. Allocation(n) = loop[n]
    BY DEF Allocation
  <1> HIDE DEF loop
  <1>5. loop[0] = start /\ \A i \in 1 .. n : loop[i] = Round(loop[i - 1], i, n)
    <2> HIDE DEF start
    <2> QED
      BY <1>3
  <1>6. loop[n] = After(n)
    <2> DEFINE T == {i \in 0 .. n : loop[i] = After(i)}
    <2>1. 0 \in T
      BY <1>5
    <2>2. ASSUME NEW i \in 0 .. n, i > 0, i - 1 \in T PROVE i \in T
      <3>1. i \in 1 .. n /\ loop[i - 1] = After(i - 1) /\ After(i) = Taken(i)
        BY <2>2
      <3> HIDE DEF After, Taken
      <3> QED
        BY <1>2, <1>5, <3>1
    <2>3. 0 .. n \subseteq T
      <3> HIDE DEF T
      <3> QED
        BY <2>1, <2>2, RangeInduction
    <2> HIDE DEF After
    <2> QED
      BY <2>3
  <1>7. After(n) = Taken(n)
    OBVIOUS
  <1>8. IF c = 0
        THEN Taken(n).failed = TRUE /\ Taken(n).table = fat_buffer
        ELSE /\ Taken(n).failed = FALSE
             /\ Taken(n).first = c
             /\ Taken(n).table = [fat_buffer EXCEPT ![c] = FAT12_EOF]
    OBVIOUS
  <1> HIDE DEF After, Taken
  <1> QED
    BY <1>4, <1>6, <1>7, <1>8

-----------------------------------------------------------------------------
(* Entries that are written sector by sector.                              *)

LEMMA DivisionFacts ==
  ASSUME NEW a \in Nat, NEW w \in Nat \ {0}
  PROVE  /\ a = w * (a \div w) + (a % w)
         /\ a % w \in 0 .. w - 1 /\ a \div w \in Nat
  OBVIOUS

LEMMA ProductType ==
  ASSUME NEW a \in Nat, NEW b \in Nat
  PROVE  a * b \in Nat
  OBVIOUS

LEMMA ProductGap ==
  ASSUME NEW w \in Nat, NEW p \in Nat, NEW q \in Nat, p < q
  PROVE  w * p + w <= w * q
  OBVIOUS

\* The digits of a number are its own.
LEMMA DigitsOfSum ==
  ASSUME NEW w \in Nat \ {0}, NEW q \in Nat, NEW r \in 0 .. w - 1
  PROVE  (r + w * q) % w = r /\ (r + w * q) \div w = q
  <1> DEFINE v == r + w * q
             p == v \div w
             s == v % w
             wp == w * p
             wq == w * q
  <1>1. v \in Nat
    BY ProductType
  <1>2. v = wp + s /\ s \in 0 .. w - 1 /\ p \in Nat
    BY <1>1, DivisionFacts
  <1>3. wp \in Nat /\ wq \in Nat /\ r + wq = wp + s
    BY <1>1, <1>2, ProductType
  <1>4. (p < q => wp + w <= wq) /\ (q < p => wq + w <= wp) /\ (p = q => wp = wq)
    BY <1>2, ProductGap
  <1> HIDE DEF p, s, wp, wq, v
  <1>5. ~(p < q) /\ ~(q < p)
    BY <1>2, <1>3, <1>4
  <1>6. p = q /\ s = r
    BY <1>2, <1>3, <1>4, <1>5
  <1> QED
    BY <1>6 DEF p, s, v

LEMMA WeightFacts ==
  ASSUME NEW c \in Clusters
  PROVE  /\ LowWeight(c) \in Nat \ {0}
         /\ \E m \in Nat \ {0} : FAT12_EOF = LowWeight(c) * m - 1
  <1>1. Digit \in Nat \ {0}
    BY FatAssumption
  <1>2. Digit * Digit \in Nat \ {0}
    BY <1>1
  <1>3. FAT12_EOF = (Digit * Digit) * Digit - 1 /\ FAT12_EOF = Digit * (Digit * Digit) - 1
    BY <1>1 DEF FAT12_EOF
  <1> QED
    BY <1>1, <1>2, <1>3 DEF LowWeight

LEMMA EofFacts == FAT12_EOF \in Nat /\ EofMin \in Nat /\ EofMin <= FAT12_EOF /\ LastCluster < EofMin
  <1>1. Digit \in Nat \ {0}
    BY FatAssumption
  <1>2. Digit * Digit * Digit \in Nat \ {0}
    BY <1>1
  <1>3. FAT12_EOF \in Nat
    BY <1>2 DEF FAT12_EOF
  <1> QED
    BY <1>3, FatAssumption

\* A sector write replaces the digits of each entry that lie in the sector.
LEMMA SectorDigits ==
  ASSUME NEW table \in [Clusters -> FatValues], fat_buffer \in [Clusters -> FatValues],
         NEW i, NEW c \in Clusters
  PROVE  LET w == LowWeight(c)
             v == WithSector(table, i)[c]
         IN /\ v \in FatValues
            /\ v % w = (IF LowSector(c) = i THEN fat_buffer[c] ELSE table[c]) % w
            /\ v \div w = (IF HighSector(c) = i THEN fat_buffer[c] ELSE table[c]) \div w
  <1> DEFINE w == LowWeight(c)
             low == IF LowSector(c) = i THEN fat_buffer[c] ELSE table[c]
             high == IF HighSector(c) = i THEN fat_buffer[c] ELSE table[c]
             r == low % w
             q == high \div w
             v == r + w * q
  <1>1. WithSector(table, i)[c] = v
    BY DEF WithSector
  <1>2. low \in FatValues /\ high \in FatValues
    OBVIOUS
  <1>3. PICK m \in Nat \ {0} : FAT12_EOF = w * m - 1
    BY WeightFacts
  <1>4. w \in Nat \ {0} /\ FatValues \subseteq Nat /\ w * m \in Nat
    BY WeightFacts, EofFacts, ProductType, <1>3 DEF FatValues
  <1> HIDE DEF low, high, w
  <1>5. r \in 0 .. w - 1 /\ q \in Nat /\ high = w * q + (high % w) /\ high % w \in 0 .. w - 1
    BY <1>2, <1>4, DivisionFacts
  <1>6. high <= w * m - 1 /\ high \in Nat
    BY <1>2, <1>3, <1>4 DEF FatValues
  <1>7. v % w = r /\ v \div w = q
    BY <1>4, <1>5, DigitsOfSum
  <1>8. v \in FatValues
    <2> DEFINE wq == w * q
               wm == w * m
               h == high % w
    <2> HIDE DEF q, r
    <2>1. (m <= q => wm <= wq) /\ (q < m => wq + w <= wm) /\ wq \in Nat /\ wm \in Nat
      <3>1. CASE m = q
        BY <1>3, <1>4, <1>5, <3>1, ProductType
      <3>2. CASE m # q
        BY <1>3, <1>4, <1>5, <3>2, ProductType, ProductGap
      <3> QED
        BY <3>1, <3>2
    <2>2. high = wq + h /\ h \in 0 .. w - 1 /\ high <= wm - 1
      BY <1>5, <1>6 DEF q
    <2> HIDE DEF wq, wm, h
    <2>3. q < m
      BY <1>3, <1>4, <1>5, <2>1, <2>2
    <2>4. r + wq \in 0 .. wm - 1
      BY <1>4, <1>5, <2>1, <2>3
    <2> QED
      BY <1>3, <2>4 DEF FatValues, wq, wm
  <1> QED
    BY <1>1, <1>7, <1>8 DEF low, high, w

LEMMA SameDigits ==
  ASSUME NEW a \in Nat, NEW b \in Nat, NEW w \in Nat \ {0},
         a % w = b % w, a \div w = b \div w
  PROVE  a = b
  BY DivisionFacts

LEMMA WithSectorType ==
  ASSUME NEW table \in [Clusters -> FatValues], fat_buffer \in [Clusters -> FatValues], NEW i
  PROVE  WithSector(table, i) \in [Clusters -> FatValues]
  <1>1. \A c \in Clusters : WithSector(table, i)[c] \in FatValues
    BY SectorDigits
  <1>2. WithSector(table, i) = [c \in Clusters |-> WithSector(table, i)[c]]
    BY DEF WithSector
  <1> QED
    BY <1>1, <1>2

\* An entry that is as in the cache stays so.
LEMMA SectorKeeps ==
  ASSUME NEW table \in [Clusters -> FatValues], fat_buffer \in [Clusters -> FatValues],
         NEW i, NEW c \in Clusters, table[c] = fat_buffer[c]
  PROVE  WithSector(table, i)[c] = fat_buffer[c]
  <1> DEFINE v == WithSector(table, i)[c]
             w == LowWeight(c)
  <1>1. v \in FatValues /\ v % w = fat_buffer[c] % w /\ v \div w = fat_buffer[c] \div w
    BY SectorDigits
  <1>2. FatValues \subseteq Nat /\ w \in Nat \ {0}
    BY WeightFacts, EofFacts DEF FatValues
  <1> HIDE DEF v, w
  <1> QED
    BY <1>1, <1>2, SameDigits DEF v

-----------------------------------------------------------------------------
(* The inductive invariant.                                                *)

Types ==
  /\ fat1 \in [Clusters -> FatValues]
  /\ fat2 \in [Clusters -> FatValues]
  /\ fat_buffer \in [Clusters -> FatValues]
  /\ root \in [Slots -> Files \cup {End, Deleted}]
  /\ DOMAIN data = Addresses
  /\ pages \in 0 .. Pages
  /\ twice \in BOOLEAN /\ synced \in BOOLEAN

\* No file lies behind the end mark; unless a name was entered twice, names
\* are different; files have chains that end and share nothing.
Directory ==
  /\ Listed = LiveSlots
  /\ ~twice => \A s, t \in LiveSlots : root[s].name = root[t].name => s = t
  /\ NoCrossLink /\ ChainsEnd

\* The file that fat12_create is about to enter: its slot is the lowest that is
\* free, its cluster is on no chain, and its name is new, unless fat12_open
\* found no page and said so without looking.
NewFile ==
  pc \in {"sync1", "sync2", "entry"} =>
    /\ op \in [dos : DosNames, slot : Slots, i : FatSectors, entry : Files]
    /\ op.slot \in FreeSlot /\ op.entry.name = op.dos
    /\ fat_buffer[op.entry.first] = FAT12_EOF
    /\ \A s \in LiveSlots : op.entry.first \notin Range(ChainAt(s))
    /\ pages = 0 \/ \A s \in LiveSlots : root[s].name # op.dos

\* The bytes of the first k sectors are those of the cache.
Written(table, k) ==
  \A c \in Clusters :
    /\ LowSector(c) < k => table[c] % LowWeight(c) = fat_buffer[c] % LowWeight(c)
    /\ HighSector(c) < k => table[c] \div LowWeight(c) = fat_buffer[c] \div LowWeight(c)

\* During sync_fat the first table differs from the cache in the entry of one
\* cluster, the new file's, and the sectors written so far do not.
Tables ==
  /\ pc \in {"sync1", "sync2"} =>
       /\ Written(fat1, IF pc = "sync1" THEN op.i ELSE op.i + 1)
       /\ Written(fat2, op.i)
       /\ \A c \in Clusters \ {op.entry.first} : fat1[c] = fat_buffer[c]
  /\ pc \notin {"sync1", "sync2"} => fat1 = fat_buffer /\ (synced => fat2 = fat_buffer)

\* A handle is of a file in the directory and stands on its chain or behind it.
Handle ==
  file # NoFile =>
    /\ file \in Handles /\ file.position <= file.size
    /\ \E s \in LiveSlots : root[s].name = file.dos /\ root[s].first = file.first
    /\ IsLink(file.current) => file.current \in Range(Chain(fat1, file.first))

Call ==
  /\ pc \in {"idle", "sync1", "sync2", "entry", "read", "write"}
  /\ pc = "idle" => op = Idle
  /\ pc \in {"read", "write"} =>
       file # NoFile /\ {"dos", "left"} \subseteq DOMAIN op /\ op.dos = file.dos /\ op.left \in Nat
  /\ pc = "read" => op.left + file.position <= file.size
  /\ got \in Seq(Range(data))
  /\ pc # "read" => got = <<>>

IInv == Types /\ Directory /\ NewFile /\ Tables /\ Handle /\ Call /\ ReadsInOrder

-----------------------------------------------------------------------------
(* What follows from the invariant in a state.                             *)

LEMMA ClusterFacts ==
  /\ Clusters \subseteq Nat /\ Clusters \subseteq FatValues /\ Clusters \subseteq Addresses
  /\ \A c \in Clusters : IsLink(c) /\ c # FAT12_FREE
  /\ FAT12_EOF \in FatValues /\ FAT12_FREE \in FatValues
  /\ ~IsLink(FAT12_EOF) /\ FAT12_EOF \notin Clusters
  /\ FatValues \subseteq Nat
  <1>1. LastCluster \in Nat
    BY FatAssumption
  <1> QED
    BY <1>1, EofFacts DEF Clusters, FatValues, Addresses, IsLink, FAT12_FREE

LEMMA LiveIsFile ==
  ASSUME Types, NEW s \in LiveSlots
  PROVE  /\ s \in Slots /\ root[s] \in Files
         /\ root[s].name \in DosNames /\ root[s].first \in Clusters /\ root[s].size \in Nat
  BY DEF Types, LiveSlots, IsLive, Files

\* The chain of a file in the directory: each entry leads to the next cluster,
\* the last one to none.
LEMMA LiveChain ==
  ASSUME Types, Directory, NEW s \in LiveSlots
  PROVE  LET chain == ChainAt(s) IN
         /\ chain \in Seq(Clusters) /\ Len(chain) \in Nat \ {0}
         /\ chain[1] = root[s].first
         /\ \A k \in 1 .. Len(chain) :
              IF k < Len(chain) THEN fat1[chain[k]] = chain[k + 1] ELSE ~IsLink(fat1[chain[k]])
  <1> DEFINE chain == ChainAt(s)
  <1>1. /\ chain \in Seq(Clusters) /\ chain # <<>>
        /\ chain[1] = root[s].first
        /\ \A i \in 1 .. Len(chain) - 1 : chain[i + 1] = fat1[chain[i]]
    BY LiveIsFile, ChainIsPath DEF ChainAt
  <1>2. ~IsLink(fat1[chain[Len(chain)]])
    BY DEF Directory, ChainsEnd, Last
  <1> HIDE DEF chain
  <1>3. Len(chain) \in Nat \ {0}
    BY <1>1
  <1>4. ASSUME NEW k \in 1 .. Len(chain)
        PROVE  IF k < Len(chain) THEN fat1[chain[k]] = chain[k + 1] ELSE ~IsLink(fat1[chain[k]])
    <2>1. CASE k < Len(chain)
      BY <1>1, <1>3, <2>1
    <2>2. CASE k = Len(chain)
      BY <1>2, <1>3, <2>2
    <2> QED
      BY <1>3, <2>1, <2>2
  <1> QED
    BY <1>1, <1>3, <1>4 DEF chain

\* The clusters of a file are not free.
LEMMA ChainIsTaken ==
  ASSUME Types, Directory, NEW s \in LiveSlots, NEW c \in Range(ChainAt(s))
  PROVE  c \in Clusters /\ fat1[c] # FAT12_FREE
  <1> DEFINE chain == ChainAt(s)
  <1>1. /\ chain \in Seq(Clusters) /\ Len(chain) \in Nat \ {0}
        /\ \A k \in 1 .. Len(chain) :
             IF k < Len(chain) THEN fat1[chain[k]] = chain[k + 1] ELSE ~IsLink(fat1[chain[k]])
    BY LiveChain
  <1> HIDE DEF chain
  <1>2. PICK k \in 1 .. Len(chain) : c = chain[k]
    BY <1>1 DEF chain, Range
  <1>3. c \in Clusters
    BY <1>1, <1>2
  <1>4. ~IsLink(FAT12_FREE) => FALSE
    BY EofFacts, FatAssumption DEF IsLink, FAT12_FREE
  <1>5. CASE k < Len(chain)
    <2>1. k + 1 \in 1 .. Len(chain)
      BY <1>1, <1>5
    <2>2. chain[k + 1] \in Clusters
      BY <1>1, <2>1
    <2> QED
      BY <1>1, <1>2, <1>3, <1>5, <2>2, ClusterFacts
  <1>6. CASE ~(k < Len(chain))
    BY <1>1, <1>2, <1>3, <1>4, <1>6
  <1> QED
    BY <1>5, <1>6

\* fat12_open finds a file if one of that name is in the directory.
LEMMA OpenFinds ==
  ASSUME Types, Directory, NEW dos
  PROVE  /\ \A s \in SlotsOf(dos) : s \in LiveSlots /\ root[s].name = dos
         /\ \A s \in LiveSlots : root[s].name = dos => \E t \in SlotsOf(dos) : t <= s
  <1> DEFINE S == {s \in Slots : /\ \A t \in 1 .. s : root[t] # End
                                 /\ IsLive(root[s]) /\ root[s].name = dos}
  <1>1. S = {s \in LiveSlots : root[s].name = dos}
    BY DEF Directory, Listed, LiveSlots
  <1>2. SlotsOf(dos) = {s \in S : \A t \in S : s <= t}
    BY DEF SlotsOf, LowestOf
  <1>3. S \in SUBSET Nat
    BY FatAssumption DEF Slots
  <1> HIDE DEF S
  <1>4. S # {} => \E s \in S : \A t \in S : s <= t
    BY <1>3, LeastElement
  <1> QED
    BY <1>1, <1>2, <1>4

-----------------------------------------------------------------------------
(* Initial states and steps.                                               *)

LEMMA InitInv == Init => IInv
  <1> SUFFICES ASSUME Init PROVE IInv
    OBVIOUS
  <1>1. PICK image \in Images :
          /\ fat1 = image.fat /\ fat2 = image.fat
          /\ root = image.root /\ data = image.data
          /\ fat_buffer = image.fat
    BY DEF Init
  <1>2. /\ pages = Pages /\ file = NoFile /\ pc = "idle" /\ op = Idle /\ got = <<>>
        /\ twice = FALSE /\ synced = TRUE
    BY DEF Init
  <1>3. /\ fat1 \in [Clusters -> FatValues]
        /\ root \in [Slots -> Files \cup {End, Deleted}]
        /\ DOMAIN data = Addresses
        /\ \A s \in LiveSlots :
              /\ \A t \in 1 .. s : root[t] # End
              /\ ~IsLink(fat1[Last(ChainAt(s))])
        /\ \A s, t \in LiveSlots : s # t =>
              /\ root[s].name # root[t].name
              /\ Range(ChainAt(s)) \cap Range(ChainAt(t)) = {}
    BY <1>1, DiskAssumption DEF LiveSlots, IsLive, ChainAt
  <1>4. Types
    <2>1. Pages \in 0 .. Pages
      BY FatAssumption
    <2>2. twice \in BOOLEAN /\ synced \in BOOLEAN
      BY <1>2
    <2> QED
      BY <1>1, <1>2, <1>3, <2>1, <2>2 DEF Types
  <1>5. Directory
    <2>1. Listed = LiveSlots
      BY <1>3 DEF Listed, LiveSlots
    <2>2. \A s \in LiveSlots : ChainAt(s) # <<>>
      BY <1>4, LiveIsFile, ChainIsPath DEF ChainAt
    <2> QED
      BY <1>3, <2>1, <2>2 DEF Directory, NoCrossLink, ChainsEnd
  <1> QED
    BY <1>1, <1>2, <1>4, <1>5 DEF IInv, NewFile, Tables, Handle, Call, ReadsInOrder

\* The directory depends on the first table, the root directory and twice only.
LEMMA DirectorySame ==
  ASSUME Directory, UNCHANGED <<fat1, root, twice>>
  PROVE  Directory' /\ LiveSlots' = LiveSlots /\ \A s : ChainAt(s)' = ChainAt(s)
  BY DEF Directory, Listed, LiveSlots, NoCrossLink, ChainsEnd, ChainAt

\* The new file's entry, being written, changes no chain.
LEMMA ChainsStay ==
  ASSUME Types, Directory, UNCHANGED <<root, twice>>, NEW c,
         \A d \in Clusters \ {c} : fat1'[d] = fat1[d],
         \A s \in LiveSlots : c \notin Range(ChainAt(s))
  PROVE  Directory' /\ LiveSlots' = LiveSlots /\ \A s \in LiveSlots : ChainAt(s)' = ChainAt(s)
  <1>1. LiveSlots' = LiveSlots /\ Listed' = Listed
    BY DEF LiveSlots, Listed
  <1>2. ASSUME NEW s \in LiveSlots, NEW d \in Range(ChainAt(s))
        PROVE  fat1'[d] = fat1[d]
    <2>1. d \in Clusters
      BY ChainIsTaken
    <2> QED
      BY <2>1
  <1>3. ASSUME NEW s \in LiveSlots PROVE ChainAt(s)' = ChainAt(s)
    <2>1. Chain(fat1', root[s].first) = Chain(fat1, root[s].first)
      BY <1>2, ChainStays DEF ChainAt
    <2> QED
      BY <2>1 DEF ChainAt
  <1>4. NoCrossLink'
    BY <1>1, <1>3 DEF NoCrossLink, Directory
  <1>5. ChainsEnd'
    <2> SUFFICES ASSUME NEW s \in LiveSlots
                 PROVE  ChainAt(s)' # <<>> /\ ~IsLink(fat1'[Last(ChainAt(s)')])
      BY <1>1 DEF ChainsEnd
    <2> DEFINE chain == ChainAt(s)
    <2>1. chain \in Seq(Clusters) /\ Len(chain) \in Nat \ {0}
      BY LiveChain
    <2>2. Last(chain) \in Range(chain)
      <3>1. Len(chain) \in DOMAIN chain
        BY <2>1
      <3> QED
        BY <3>1 DEF Last, Range
    <2>3. fat1'[Last(chain)] = fat1[Last(chain)]
      BY <1>2, <2>2
    <2> QED
      BY <1>3, <2>3 DEF Directory, ChainsEnd
  <1> QED
    BY <1>1, <1>3, <1>4, <1>5 DEF Directory

LEMMA RestartInv == IInv /\ Restart => IInv'
  <1> SUFFICES ASSUME IInv, Restart PROVE IInv'
    OBVIOUS
  <1> USE DEF Restart, Mounted, disk
  <1>1. Types'
    <2>1. Pages \in 0 .. Pages
      BY FatAssumption
    <2>2. synced' \in BOOLEAN
      OBVIOUS
    <2> QED
      BY <2>1, <2>2 DEF IInv, Types
  <1>2. Directory'
    BY DirectorySame DEF IInv
  <1> QED
    BY <1>1, <1>2 DEF IInv, NewFile, Tables, Handle, Call, ReadsInOrder

LEMMA OpenInv == ASSUME NEW n \in Names, IInv, fat12_open(n) PROVE IInv'
  <1> USE DEF fat12_open, disk
  <1>1. Types'
    BY FatAssumption DEF IInv, Types
  <1>2. Directory' /\ LiveSlots' = LiveSlots
    BY DirectorySame DEF IInv
  <1>3. Handle'
    <2>1. CASE file' = NoFile
      BY <2>1 DEF Handle
    <2>2. CASE ~(SlotsOf(Dos[n]) = {} \/ pages = 0)
      <3>1. PICK s \in SlotsOf(Dos[n]) :
              file' = [dos |-> Dos[n], first |-> root[s].first, current |-> root[s].first,
                       size |-> root[s].size, position |-> 0, eof |-> FALSE]
        BY <2>2
      <3>2. s \in LiveSlots /\ root[s].name = Dos[n]
        BY <3>1, OpenFinds DEF IInv
      <3>3. /\ root[s].first \in Clusters /\ root[s].size \in Nat /\ Dos[n] \in DosNames
            /\ root[s].first \in FatValues
        BY <3>2, LiveIsFile, ClusterFacts DEF IInv
      <3>4. file' \in Handles /\ file'.position <= file'.size
        BY <3>1, <3>3 DEF Handles
      <3>5. root[s].first \in Range(Chain(fat1, root[s].first))
        <4> DEFINE chain == ChainAt(s)
        <4>1. chain[1] = root[s].first /\ chain \in Seq(Clusters) /\ Len(chain) \in Nat \ {0}
          BY <3>2, LiveChain DEF IInv
        <4>2. 1 \in DOMAIN chain
          BY <4>1
        <4> QED
          BY <4>1, <4>2 DEF Range, ChainAt
      <3> QED
        BY <1>2, <3>1, <3>2, <3>4, <3>5 DEF Handle
    <2> QED
      BY <2>1, <2>2
  <1> QED
    BY <1>1, <1>2, <1>3 DEF IInv, NewFile, Tables, Call, ReadsInOrder

LEMMA CreateExistingInv == ASSUME NEW n \in Names, IInv, CreateExisting(n) PROVE IInv'
  <1> USE DEF CreateExisting, disk
  <1>1. Types'
    BY FatAssumption DEF IInv, Types
  <1>2. Directory' /\ LiveSlots' = LiveSlots
    BY DirectorySame DEF IInv
  <1>3. Handle'
    BY <1>2 DEF IInv, Handle
  <1> QED
    BY <1>1, <1>2, <1>3 DEF IInv, NewFile, Tables, Call, ReadsInOrder

\* The handle stays as it is while its file's chain does.
LEMMA HandleStays ==
  ASSUME Handle, UNCHANGED file, LiveSlots \subseteq LiveSlots',
         \A s \in LiveSlots : root'[s] = root[s] /\ ChainAt(s)' = ChainAt(s)
  PROVE  Handle'
  <1> SUFFICES ASSUME file # NoFile
               PROVE  /\ \E s \in LiveSlots' : root'[s].name = file.dos /\ root'[s].first = file.first
                      /\ IsLink(file.current) => file.current \in Range(Chain(fat1', file.first))
    BY DEF Handle
  <1>1. PICK s \in LiveSlots : root[s].name = file.dos /\ root[s].first = file.first
    BY DEF Handle
  <1>2. Chain(fat1', file.first) = Chain(fat1, file.first)
    BY <1>1 DEF ChainAt
  <1> QED
    BY <1>1, <1>2 DEF Handle

LEMMA StutterInv == IInv /\ UNCHANGED vars => IInv'
  <1> SUFFICES ASSUME IInv, UNCHANGED vars PROVE IInv'
    OBVIOUS
  <1> USE DEF vars, disk, volatile
  <1>1. Directory' /\ LiveSlots' = LiveSlots /\ \A s : ChainAt(s)' = ChainAt(s)
    BY DirectorySame DEF IInv
  <1>2. Types' /\ Handle'
    BY <1>1, HandleStays DEF IInv, Types
  <1>3. NewFile'
    BY <1>1 DEF IInv, NewFile, FreeSlot
  <1>4. Tables'
    BY DEF IInv, Tables, Written
  <1>5. Call' /\ ReadsInOrder'
    BY DEF IInv, Call, ReadsInOrder
  <1> QED
    BY <1>1, <1>2, <1>3, <1>4, <1>5 DEF IInv

LEMMA SectorFacts ==
  /\ HighSector(LastCluster) \in Nat
  /\ \A c \in Clusters : /\ LowSector(c) \in Nat /\ HighSector(c) \in Nat
                         /\ HighSector(c) <= HighSector(LastCluster)
                         /\ LowSector(c) <= HighSector(LastCluster)
  <1>1. SectorBytes \in Nat \ {0} /\ LastCluster \in Nat
    BY FatAssumption
  <1>2. \A a, b \in Nat : a <= b => /\ a \div SectorBytes \in Nat
                                    /\ a \div SectorBytes <= b \div SectorBytes
    BY <1>1
  <1>3. ASSUME NEW c \in Clusters
        PROVE  /\ Offset(c) \in Nat /\ Offset(LastCluster) \in Nat
               /\ Offset(c) <= Offset(LastCluster)
    BY <1>1, <1>3 DEF Clusters, Offset
  <1>4. Offset(LastCluster) + 1 \in Nat
    BY <1>1 DEF Offset
  <1> QED
    BY <1>2, <1>3, <1>4 DEF LowSector, HighSector

LEMMA CreateNewInv ==
  ASSUME NEW n \in Names, NEW size \in Sizes, IInv, CreateNew(n, size)
  PROVE  IInv'
  <1> DEFINE m == SectorsOf(size)
             alloc == Allocation(m)
             c == find_free_cluster(fat_buffer)
  <1>1. PICK s \in FreeSlot :
          /\ fat_buffer' = alloc.table
          /\ IF alloc.failed
             THEN UNCHANGED <<pc, op>>
             ELSE /\ pc' = "sync1"
                  /\ op' = [dos |-> Dos[n], slot |-> s, i |-> 0,
                            entry |-> [name |-> Dos[n], first |-> alloc.first, size |-> size]]
    BY DEF CreateNew
  <1>2. /\ pc = "idle" /\ (SlotsOf(Dos[n]) = {} \/ pages = 0)
        /\ UNCHANGED <<fat1, fat2, root, data, pages, file, got, twice, synced>>
    BY DEF CreateNew, disk
  <1>3. m \in Nat \ {0} /\ size \in Nat
    <2>1. size \in Nat \ {0} /\ SectorUnits \in Nat \ {0}
      BY FatAssumption
    <2> QED
      BY <2>1 DEF SectorsOf
  <1>4. IF c = 0
        THEN alloc.failed = TRUE /\ alloc.table = fat_buffer
        ELSE /\ alloc.failed = FALSE
             /\ alloc.first = c
             /\ alloc.table = [fat_buffer EXCEPT ![c] = FAT12_EOF]
    BY <1>3, OneClusterTaken DEF IInv, Types
  <1>5. c = 0 \/ (c \in Clusters /\ fat_buffer[c] = FAT12_FREE)
    BY FreeCluster DEF IInv, Types
  <1>6. Directory' /\ LiveSlots' = LiveSlots /\ \A t : ChainAt(t)' = ChainAt(t)
    BY <1>2, DirectorySame DEF IInv
  <1>7. Handle'
    BY <1>2, <1>6, HandleStays DEF IInv
  <1> HIDE DEF m, alloc, c
  <1>8. CASE c = 0
    <2>1. UNCHANGED vars
      BY <1>1, <1>2, <1>4, <1>8 DEF vars, disk, volatile
    <2> QED
      BY <2>1, StutterInv
  <1>9. CASE c # 0
    <2>1. /\ c \in Clusters /\ fat_buffer[c] = FAT12_FREE
          /\ fat_buffer' = [fat_buffer EXCEPT ![c] = FAT12_EOF]
          /\ pc' = "sync1"
          /\ op' = [dos |-> Dos[n], slot |-> s, i |-> 0,
                    entry |-> [name |-> Dos[n], first |-> c, size |-> size]]
      BY <1>1, <1>4, <1>5, <1>9
    <2>2. Types'
      BY <1>2, <2>1, ClusterFacts DEF IInv, Types
    <2>3. Dos[n] \in DosNames
      BY FatAssumption DEF DosNames, Range
    <2>4. s \in Slots /\ s \in FreeSlot'
      BY <1>2 DEF FreeSlot, LowestOf
    <2>5. op' \in [dos : DosNames, slot : Slots, i : FatSectors, entry : Files]
      <3>1. [name |-> Dos[n], first |-> c, size |-> size] \in Files
        BY <1>3, <2>1, <2>3 DEF Files
      <3>2. 0 \in FatSectors
        BY SectorFacts DEF FatSectors
      <3> QED
        BY <2>1, <2>3, <2>4, <3>1, <3>2
    <2>6. NewFile'
      <3>1. \A t \in LiveSlots : c \notin Range(ChainAt(t))
        BY <1>2, <2>1, ChainIsTaken DEF IInv, Tables
      <3>2. pages = 0 \/ \A t \in LiveSlots : root[t].name # Dos[n]
        BY <1>2, OpenFinds DEF IInv
      <3>3. fat_buffer'[c] = FAT12_EOF
        BY <2>1 DEF IInv, Types
      <3> QED
        BY <1>2, <1>6, <2>1, <2>4, <2>5, <3>1, <3>2, <3>3 DEF NewFile
    <2>7. Tables'
      <3>1. \A d \in Clusters \ {c} : fat1'[d] = fat_buffer'[d]
        BY <1>2, <2>1 DEF IInv, Types, Tables
      <3>2. Written(fat1, 0)' /\ Written(fat2, 0)'
        BY SectorFacts DEF Written
      <3> QED
        BY <2>1, <3>1, <3>2 DEF Tables
    <2>8. Call' /\ ReadsInOrder'
      BY <1>2, <2>1 DEF IInv, Call, ReadsInOrder
    <2> QED
      BY <1>6, <1>7, <2>2, <2>6, <2>7, <2>8 DEF IInv
  <1> QED
    BY <1>8, <1>9

\* Writing sector k on top of the first k ones.
LEMMA WriteNext ==
  ASSUME NEW table \in [Clusters -> FatValues], fat_buffer \in [Clusters -> FatValues],
         NEW k \in Nat, Written(table, k)
  PROVE  Written(WithSector(table, k), k + 1)
  <1> SUFFICES ASSUME NEW c \in Clusters
               PROVE  LET w == LowWeight(c)
                          v == WithSector(table, k)[c]
                      IN /\ LowSector(c) < k + 1 => v % w = fat_buffer[c] % w
                         /\ HighSector(c) < k + 1 => v \div w = fat_buffer[c] \div w
    BY DEF Written
  <1> DEFINE w == LowWeight(c)
             v == WithSector(table, k)[c]
             t == table[c]
             b == fat_buffer[c]
  <1>1. LowSector(c) \in Nat /\ HighSector(c) \in Nat
    BY SectorFacts
  <1>2. /\ v % w = (IF LowSector(c) = k THEN b ELSE t) % w
        /\ v \div w = (IF HighSector(c) = k THEN b ELSE t) \div w
    BY SectorDigits
  <1>3. /\ LowSector(c) < k => t % w = b % w
        /\ HighSector(c) < k => t \div w = b \div w
    BY DEF Written
  <1> HIDE DEF v, w, t, b
  <1>4. LowSector(c) < k + 1 => v % w = b % w
    <2>1. CASE LowSector(c) = k
      BY <1>2, <2>1
    <2>2. CASE LowSector(c) # k
      BY <1>1, <1>2, <1>3, <2>2
    <2> QED
      BY <2>1, <2>2
  <1>5. HighSector(c) < k + 1 => v \div w = b \div w
    <2>1. CASE HighSector(c) = k
      BY <1>2, <2>1
    <2>2. CASE HighSector(c) # k
      BY <1>1, <1>2, <1>3, <2>2
    <2> QED
      BY <2>1, <2>2
  <1> QED
    BY <1>4, <1>5 DEF v, w, b

\* All sectors are written.
LEMMA AllWritten ==
  ASSUME NEW table \in [Clusters -> FatValues], fat_buffer \in [Clusters -> FatValues],
         NEW k \in Nat, k > HighSector(LastCluster), Written(table, k)
  PROVE  table = fat_buffer
  <1>1. ASSUME NEW c \in Clusters PROVE table[c] = fat_buffer[c]
    <2>1. LowSector(c) < k /\ HighSector(c) < k
      BY SectorFacts
    <2>2. LowWeight(c) \in Nat \ {0} /\ table[c] \in Nat /\ fat_buffer[c] \in Nat
      BY WeightFacts, ClusterFacts
    <2> QED
      BY <2>1, <2>2, SameDigits DEF Written
  <1> QED
    BY <1>1

LEMMA SyncFat1Inv == IInv /\ SyncFat1 => IInv'
  <1> SUFFICES ASSUME IInv, SyncFat1 PROVE IInv'
    OBVIOUS
  <1>1. /\ pc = "sync1" /\ pc' = "sync2"
        /\ fat1' = WithSector(fat1, op.i)
        /\ UNCHANGED <<fat2, root, data, fat_buffer, pages, file, op, got, twice, synced>>
    BY DEF SyncFat1
  <1> DEFINE c == op.entry.first
  <1>2. /\ op \in [dos : DosNames, slot : Slots, i : FatSectors, entry : Files]
        /\ op.i \in Nat /\ op.i \in FatSectors
        /\ \A s \in LiveSlots : c \notin Range(ChainAt(s))
    <2>1. op \in [dos : DosNames, slot : Slots, i : FatSectors, entry : Files]
      BY <1>1 DEF IInv, NewFile
    <2>2. op.i \in FatSectors
      BY <2>1
    <2> QED
      BY <1>1, <2>1, <2>2 DEF IInv, NewFile, FatSectors
  <1>3. \A d \in Clusters \ {c} : fat1[d] = fat_buffer[d] /\ fat1'[d] = fat_buffer[d]
    BY <1>1, SectorKeeps DEF IInv, Tables, Types
  <1>4. Types'
    BY <1>1, WithSectorType DEF IInv, Types
  <1>5. Directory' /\ LiveSlots' = LiveSlots /\ \A s \in LiveSlots : ChainAt(s)' = ChainAt(s)
    <2>1. \A d \in Clusters \ {c} : fat1'[d] = fat1[d]
      BY <1>3
    <2> HIDE DEF c
    <2> QED
      BY <1>1, <1>2, <2>1, ChainsStay DEF IInv
  <1>6. Handle'
    BY <1>1, <1>5, HandleStays DEF IInv
  <1>7. NewFile'
    BY <1>1, <1>5 DEF IInv, NewFile, FreeSlot
  <1>8. Tables'
    <2>1. Written(fat1', op.i + 1)
      BY <1>1, <1>2, WriteNext DEF IInv, Types, Tables
    <2>2. Written(fat1, op.i + 1)' /\ Written(fat2, op.i)'
      BY <1>1, <2>1 DEF IInv, Tables, Written
    <2> QED
      BY <1>1, <1>3, <2>2 DEF Tables
  <1>9. Call' /\ ReadsInOrder'
    BY <1>1 DEF IInv, Call, ReadsInOrder
  <1> QED
    BY <1>4, <1>5, <1>6, <1>7, <1>8, <1>9 DEF IInv

LEMMA SyncFat2Inv == IInv /\ SyncFat2 => IInv'
  <1> SUFFICES ASSUME IInv, SyncFat2 PROVE IInv'
    OBVIOUS
  <1>1. /\ pc = "sync2"
        /\ fat2' = WithSector(fat2, op.i)
        /\ UNCHANGED <<fat1, root, data, fat_buffer, pages, file, got, twice>>
    BY DEF SyncFat2
  <1>2. /\ op \in [dos : DosNames, slot : Slots, i : FatSectors, entry : Files]
        /\ op.i \in Nat /\ op.i \in FatSectors
    <2>1. op \in [dos : DosNames, slot : Slots, i : FatSectors, entry : Files]
      BY <1>1 DEF IInv, NewFile
    <2>2. op.i \in FatSectors
      BY <2>1
    <2> QED
      BY <2>1, <2>2 DEF FatSectors
  <1>3. Directory' /\ LiveSlots' = LiveSlots /\ \A s : ChainAt(s)' = ChainAt(s)
    BY <1>1, DirectorySame DEF IInv
  <1>4. Handle'
    BY <1>1, <1>3, HandleStays DEF IInv
  <1>5. Written(fat1, op.i + 1)
    BY <1>1 DEF IInv, Tables
  <1>6. Written(fat2', op.i + 1)
    BY <1>1, <1>2, WriteNext DEF IInv, Types, Tables
  <1>7. CASE op.i + 1 \in FatSectors
    <2>1. pc' = "sync1" /\ op' = [op EXCEPT !.i = @ + 1] /\ UNCHANGED synced
      BY <1>7 DEF SyncFat2
    <2>2. /\ op' \in [dos : DosNames, slot : Slots, i : FatSectors, entry : Files]
          /\ op'.dos = op.dos /\ op'.slot = op.slot /\ op'.entry = op.entry /\ op'.i = op.i + 1
      BY <1>2, <1>7, <2>1
    <2>3. Types'
      BY <1>1, <2>1, WithSectorType DEF IInv, Types
    <2>4. NewFile'
      BY <1>1, <1>3, <2>1, <2>2 DEF IInv, NewFile, FreeSlot
    <2>5. Tables'
      <3>1. Written(fat1, op.i)' /\ Written(fat2, op.i)'
        BY <1>1, <1>5, <1>6, <2>2 DEF Written
      <3> QED
        BY <1>1, <2>1, <2>2, <3>1 DEF IInv, Tables
    <2>6. Call' /\ ReadsInOrder'
      BY <1>1, <2>1 DEF IInv, Call, ReadsInOrder
    <2> QED
      BY <1>3, <1>4, <2>3, <2>4, <2>5, <2>6 DEF IInv
  <1>8. CASE op.i + 1 \notin FatSectors
    <2>1. pc' = "entry" /\ synced' = TRUE /\ UNCHANGED op
      BY <1>8 DEF SyncFat2
    <2>2. Types'
      <3>1. synced' \in BOOLEAN
        BY <2>1
      <3> QED
        BY <1>1, <3>1, WithSectorType DEF IInv, Types
    <2>3. NewFile'
      BY <1>1, <1>3, <2>1 DEF IInv, NewFile, FreeSlot
    <2>4. fat1 = fat_buffer /\ fat2' = fat_buffer
      <3>1. op.i + 1 > HighSector(LastCluster) /\ op.i + 1 \in Nat
        BY <1>2, <1>8, SectorFacts DEF FatSectors
      <3>2. fat2' \in [Clusters -> FatValues] /\ fat1 \in [Clusters -> FatValues]
            /\ fat_buffer \in [Clusters -> FatValues]
        BY <1>1, <2>2 DEF IInv, Types
      <3> QED
        BY <1>5, <1>6, <3>1, <3>2, AllWritten
    <2>5. Tables'
      BY <1>1, <2>1, <2>4 DEF Tables
    <2>6. Call' /\ ReadsInOrder'
      BY <1>1, <2>1 DEF IInv, Call, ReadsInOrder
    <2> QED
      BY <1>3, <1>4, <2>2, <2>3, <2>5, <2>6 DEF IInv
  <1> QED
    BY <1>7, <1>8

LEMMA WriteEntryInv == IInv /\ WriteEntry => IInv'
  <1> SUFFICES ASSUME IInv, WriteEntry PROVE IInv'
    OBVIOUS
  <1>1. /\ pc = "entry" /\ pc' = "idle" /\ op' = Idle
        /\ root' = [root EXCEPT ![op.slot] = op.entry]
        /\ twice' = (twice \/ \E s \in Slots : IsLive(root[s]) /\ root[s].name = op.dos)
        /\ UNCHANGED <<fat1, fat2, data, fat_buffer, pages, file, got, synced>>
    BY DEF WriteEntry
  <1>2. PICK z, e, c : z = op.slot /\ e = op.entry /\ c = op.entry.first
    OBVIOUS
  <1>3. /\ z \in FreeSlot /\ e \in Files /\ e.name = op.dos
        /\ c \in Clusters /\ fat1[c] = FAT12_EOF
        /\ \A s \in LiveSlots : c \notin Range(ChainAt(s))
    BY <1>1, <1>2 DEF IInv, NewFile, Tables, Files
  <1>4. z \in Slots /\ ~IsLive(root[z]) /\ \A t \in 1 .. z : t # z => IsLive(root[t])
    <2>1. z \in Slots /\ ~IsLive(root[z]) /\ \A t \in Slots : ~IsLive(root[t]) => z <= t
      BY <1>3 DEF FreeSlot, LowestOf
    <2> QED
      BY <2>1, FatAssumption DEF Slots
  <1>5. /\ e \notin {End, Deleted}
        /\ root'[z] = e /\ \A s \in Slots \ {z} : root'[s] = root[s]
        /\ root' \in [Slots -> Files \cup {End, Deleted}]
    BY <1>1, <1>3, <1>4, <1>2, FatAssumption DEF IInv, Types
  <1>6. LiveSlots' = LiveSlots \cup {z} /\ z \notin LiveSlots
    BY <1>4, <1>5 DEF LiveSlots, IsLive
  <1>7. Types'
    <2>1. twice' \in BOOLEAN
      BY <1>1, Zenon
    <2> QED
      BY <1>1, <1>5, <2>1 DEF IInv, Types
  <1>8. /\ \A s \in LiveSlots : s \in Slots /\ root'[s] = root[s] /\ ChainAt(s)' = ChainAt(s)
        /\ root'[z] = e /\ ChainAt(z)' = <<c>>
    <2>1. Chain(fat1, c) = <<c>>
      BY <1>3, ChainOfOne, ClusterFacts
    <2>2. \A s \in LiveSlots : s \in Slots \ {z}
      BY <1>6 DEF LiveSlots
    <2> QED
      BY <1>1, <1>5, <1>2, <2>1, <2>2 DEF ChainAt
  <1>9. Listed' = LiveSlots'
    <2>1. ASSUME NEW s \in LiveSlots, NEW t \in 1 .. s PROVE root'[t] # End
      <3>1. root[t] # End /\ t \in Slots
        BY <2>1, FatAssumption DEF IInv, Directory, Listed, LiveSlots, Slots
      <3> QED
        BY <1>5, <3>1
    <2>2. ASSUME NEW t \in 1 .. z PROVE root'[t] # End
      <3>1. t \in Slots
        BY <1>4, FatAssumption DEF Slots
      <3> QED
        BY <1>4, <1>5, <3>1 DEF IsLive
    <2> QED
      BY <1>6, <2>1, <2>2 DEF Listed, LiveSlots
  <1>10. ~twice' => \A s, t \in LiveSlots' : root'[s].name = root'[t].name => s = t
    <2> SUFFICES ASSUME ~twice', NEW s \in LiveSlots', NEW t \in LiveSlots',
                        root'[s].name = root'[t].name
                 PROVE  s = t
      OBVIOUS
    <2>1. ~twice /\ \A u \in LiveSlots : root[u].name # op.dos
      BY <1>1 DEF LiveSlots
    <2>2. \A u, v \in LiveSlots : root[u].name = root[v].name => u = v
      BY <2>1 DEF IInv, Directory
    <2> QED
      BY <1>3, <1>6, <1>8, <2>1, <2>2
  <1>11. NoCrossLink'
    <2>1. ASSUME NEW s \in LiveSlots PROVE Range(ChainAt(s)) \cap Range(<<c>>) = {}
      BY <1>3 DEF Range
    <2>2. \A s, t \in LiveSlots : s # t => Range(ChainAt(s)) \cap Range(ChainAt(t)) = {}
      BY DEF IInv, Directory, NoCrossLink
    <2>3. \A s, t \in LiveSlots' : s # t => Range(ChainAt(s)') \cap Range(ChainAt(t)') = {}
      BY <1>6, <1>8, <2>1, <2>2
    <2> QED
      BY <2>3 DEF NoCrossLink
  <1>12. ChainsEnd'
    <2>1. <<c>> # <<>> /\ ~IsLink(fat1[Last(<<c>>)])
      BY <1>3, ClusterFacts DEF Last
    <2>2. \A s \in LiveSlots' : ChainAt(s)' # <<>> /\ ~IsLink(fat1[Last(ChainAt(s)')])
      BY <1>6, <1>8, <2>1 DEF IInv, Directory, ChainsEnd
    <2> QED
      BY <1>1, <2>2 DEF ChainsEnd
  <1>13. Directory'
    BY <1>9, <1>10, <1>11, <1>12 DEF Directory
  <1>14. Handle'
    BY <1>1, <1>6, <1>8, HandleStays DEF IInv
  <1>15. NewFile' /\ Tables' /\ Call' /\ ReadsInOrder'
    BY <1>1 DEF IInv, NewFile, Tables, Call, ReadsInOrder
  <1> QED
    BY <1>7, <1>13, <1>14, <1>15 DEF IInv

\* The handle, where it stands, and what comes next on the disk: the cache is
\* the table outside of sync_fat, so get_next_cluster follows the chain.
LEMMA HandleFacts ==
  ASSUME IInv, file # NoFile
  PROVE  LET chain == Chain(fat1, file.first) IN
         /\ file \in Handles /\ file.position <= file.size
         /\ chain \in Seq(Clusters) /\ Len(chain) \in Nat \ {0}
         /\ chain[1] = file.first
         /\ \A k \in 1 .. Len(chain) :
              IF k < Len(chain) THEN fat1[chain[k]] = chain[k + 1] ELSE ~IsLink(fat1[chain[k]])
         /\ IsLink(file.current) => file.current \in Range(chain)
  <1>1. PICK s \in LiveSlots : root[s].name = file.dos /\ root[s].first = file.first
    BY DEF IInv, Handle
  <1>2. Chain(fat1, file.first) = ChainAt(s)
    BY <1>1 DEF ChainAt
  <1> QED
    BY <1>1, <1>2, LiveChain DEF IInv, Handle

LEMMA NextCluster ==
  ASSUME IInv, file # NoFile, pc \in {"read", "write"}, IsLink(file.current)
  PROVE  LET chain == Chain(fat1, file.first)
             next == get_next_cluster(file.current)
         IN /\ next \in FatValues
            /\ \A k \in 1 .. Len(chain) : file.current = chain[k] =>
                 IF k < Len(chain) THEN next = chain[k + 1] ELSE ~IsLink(next)
            /\ IsLink(next) => next \in Range(chain)
            /\ file.current \in Clusters
  <1> DEFINE chain == Chain(fat1, file.first)
             next == get_next_cluster(file.current)
  <1>1. /\ chain \in Seq(Clusters) /\ Len(chain) \in Nat \ {0}
        /\ \A k \in 1 .. Len(chain) :
             IF k < Len(chain) THEN fat1[chain[k]] = chain[k + 1] ELSE ~IsLink(fat1[chain[k]])
        /\ file.current \in Range(chain)
    BY HandleFacts
  <1> HIDE DEF chain
  <1>2. PICK k \in 1 .. Len(chain) : file.current = chain[k]
    BY <1>1 DEF Range
  <1>3. file.current \in Clusters
    BY <1>1, <1>2
  <1>4. next = fat1[file.current] /\ next \in FatValues
    BY <1>3 DEF get_next_cluster, IInv, Tables, Types
  <1>5. IsLink(next) => next \in Range(chain)
    <2> SUFFICES ASSUME IsLink(next) PROVE next \in Range(chain)
      OBVIOUS
    <2>1. k < Len(chain) /\ next = chain[k + 1]
      BY <1>1, <1>2, <1>4
    <2>2. k + 1 \in DOMAIN chain
      BY <1>1, <2>1
    <2> QED
      BY <2>1, <2>2 DEF Range
  <1> QED
    BY <1>1, <1>3, <1>4, <1>5 DEF chain

\* The handle moves, its file stays.
LEMMA HandleMoves ==
  ASSUME IInv, file # NoFile, UNCHANGED <<fat1, root>>, file' \in Handles,
         file'.dos = file.dos, file'.first = file.first, file'.position <= file'.size,
         IsLink(file'.current) => file'.current \in Range(Chain(fat1, file.first))
  PROVE  Handle'
  BY DEF IInv, Handle, LiveSlots

LEMMA WriteInv ==
  ASSUME NEW what, NEW size \in Sizes, IInv, fat12_write(what, size)
  PROVE  IInv'
  <1>1. /\ pc = "idle" /\ file # NoFile /\ pc' = "write"
        /\ op' = [dos |-> file.dos, left |-> size, what |-> what, sector |-> 1]
        /\ file' = [file EXCEPT !.current = file.first]
        /\ UNCHANGED <<fat1, fat2, root, data, fat_buffer, pages, got, twice, synced>>
    BY DEF fat12_write, disk
  <1>2. /\ file \in Handles /\ file.position <= file.size
        /\ file.first \in Range(Chain(fat1, file.first))
    <2> DEFINE chain == Chain(fat1, file.first)
    <2>1. file \in Handles /\ file.position <= file.size
      BY <1>1, HandleFacts
    <2>2. chain \in Seq(Clusters) /\ Len(chain) \in Nat \ {0} /\ chain[1] = file.first
      BY <1>1, HandleFacts
    <2>3. 1 \in DOMAIN chain
      BY <2>2
    <2> HIDE DEF chain
    <2>4. chain[1] \in Range(chain)
      BY <2>3 DEF Range
    <2> QED
      BY <2>1, <2>2, <2>4 DEF chain
  <1>3. /\ file' \in Handles /\ file'.dos = file.dos /\ file'.first = file.first
        /\ file'.current = file.first
        /\ file'.position <= file'.size
    BY <1>1, <1>2, ClusterFacts DEF Handles
  <1>4. Handle'
    BY <1>1, <1>2, <1>3, HandleMoves
  <1>5. Directory'
    BY <1>1, DirectorySame DEF IInv
  <1>6. Types' /\ NewFile' /\ Tables' /\ ReadsInOrder'
    BY <1>1 DEF IInv, Types, NewFile, Tables, ReadsInOrder
  <1>7. Call'
    <2>1. file' # NoFile
      BY <1>3, FatAssumption
    <2>2. size \in Nat
      BY FatAssumption
    <2>3. op'.dos = file'.dos /\ op'.left \in Nat /\ {"dos", "left"} \subseteq DOMAIN op'
      BY <1>1, <1>3, <2>2
    <2> QED
      BY <1>1, <2>1, <2>3 DEF IInv, Call
  <1> QED
    BY <1>4, <1>5, <1>6, <1>7 DEF IInv

LEMMA ChunkFacts ==
  ASSUME op.left \in Nat
  PROVE  Chunk \in Nat /\ Chunk <= op.left /\ op.left - Chunk \in Nat
  BY FatAssumption DEF Chunk

LEMMA WriteClusterInv == IInv /\ WriteCluster => IInv'
  <1> SUFFICES ASSUME IInv, WriteCluster PROVE IInv'
    OBVIOUS
  <1>1. /\ pc = "write" /\ pc' = "write" /\ IsLink(file.current)
        /\ data' = [data EXCEPT ![file.current] = <<op.what, op.sector>>]
        /\ op' = [op EXCEPT !.left = @ - Chunk, !.sector = @ + 1]
        /\ file' = [file EXCEPT !.current = get_next_cluster(@)]
        /\ UNCHANGED <<fat1, fat2, root, fat_buffer, pages, got, twice, synced>>
    BY DEF WriteCluster, LoopGoesOn
  <1>2. /\ file # NoFile /\ {"dos", "left"} \subseteq DOMAIN op
        /\ op.dos = file.dos /\ op.left \in Nat /\ got = <<>>
    BY <1>1 DEF IInv, Call
  <1>3. file \in Handles /\ file.position <= file.size
    BY <1>2, HandleFacts
  <1>4. /\ get_next_cluster(file.current) \in FatValues
        /\ IsLink(get_next_cluster(file.current)) =>
             get_next_cluster(file.current) \in Range(Chain(fat1, file.first))
    BY <1>1, <1>2, NextCluster
  <1>5. /\ file' \in Handles /\ file'.dos = file.dos /\ file'.first = file.first
        /\ file'.current = get_next_cluster(file.current)
        /\ file'.position <= file'.size
    BY <1>1, <1>3, <1>4 DEF Handles
  <1>6. Handle'
    BY <1>1, <1>2, <1>4, <1>5, HandleMoves
  <1>7. Directory'
    BY <1>1, DirectorySame DEF IInv
  <1>8. Types'
    BY <1>1 DEF IInv, Types
  <1>9. NewFile' /\ Tables' /\ ReadsInOrder'
    BY <1>1 DEF IInv, NewFile, Tables, ReadsInOrder
  <1>10. Call'
    <2>1. /\ op'.dos = op.dos /\ op'.left = op.left - Chunk
          /\ {"dos", "left"} \subseteq DOMAIN op'
      BY <1>1, <1>2
    <2>2. op'.left \in Nat
      BY <1>2, <2>1, ChunkFacts
    <2>3. file' # NoFile
      BY <1>5, FatAssumption
    <2> QED
      BY <1>1, <1>2, <1>5, <2>1, <2>2, <2>3 DEF IInv, Call
  <1> QED
    BY <1>6, <1>7, <1>8, <1>9, <1>10 DEF IInv

LEMMA ReadInv ==
  ASSUME NEW size \in Sizes, IInv, fat12_read(size)
  PROVE  IInv'
  <1> DEFINE remaining == file.size - file.position
             left == IF size > remaining THEN remaining ELSE size
  <1>1. /\ pc = "idle" /\ file # NoFile /\ pc' = "read"
        /\ op' = [dos |-> file.dos, left |-> left]
        /\ UNCHANGED <<fat1, fat2, root, data, fat_buffer, pages, file, got, twice, synced>>
    BY DEF fat12_read, disk
  <1>2. file \in Handles /\ file.position <= file.size
    BY <1>1, HandleFacts
  <1>3. size \in Nat /\ file.size \in Nat /\ file.position \in Nat
    BY <1>2, FatAssumption DEF Handles
  <1>4. left \in Nat /\ left + file.position <= file.size
    BY <1>2, <1>3
  <1> HIDE DEF left
  <1>5. Directory' /\ LiveSlots' = LiveSlots /\ \A s : ChainAt(s)' = ChainAt(s)
    BY <1>1, DirectorySame DEF IInv
  <1>6. Handle'
    BY <1>1, <1>5, HandleStays DEF IInv
  <1>7. Types' /\ NewFile' /\ Tables'
    BY <1>1 DEF IInv, Types, NewFile, Tables
  <1>8. Call'
    BY <1>1, <1>4 DEF IInv, Call
  <1>9. ReadsInOrder'
    <2> DEFINE chain == Chain(fat1, file.first)
    <2>1. /\ chain \in Seq(Clusters) /\ Len(chain) \in Nat \ {0}
          /\ IsLink(file.current) => file.current \in Range(chain)
      BY <1>1, HandleFacts
    <2>2. Len(got) = 0
      BY <1>1 DEF IInv, Call
    <2> HIDE DEF chain
    <2>3. \E k \in 0 .. Len(chain) :
            IF k < Len(chain) THEN file.current = chain[k + 1] ELSE ~IsLink(file.current)
      <3>1. CASE ~IsLink(file.current)
        <4>1. Len(chain) \in 0 .. Len(chain) /\ ~(Len(chain) < Len(chain))
          BY <2>1
        <4> QED
          BY <3>1, <4>1
      <3>2. CASE IsLink(file.current)
        <4>1. PICK j \in 1 .. Len(chain) : file.current = chain[j]
          BY <2>1, <3>2 DEF Range
        <4>2. j - 1 \in 0 .. Len(chain) /\ j - 1 < Len(chain) /\ (j - 1) + 1 = j
          BY <2>1
        <4> QED
          BY <4>1, <4>2
      <3> QED
        BY <3>1, <3>2
    <2>4. \E k \in 0 .. Len(chain) :
            /\ IF k < Len(chain) THEN file.current = chain[k + 1] ELSE ~IsLink(file.current)
            /\ Len(got) <= k
            /\ \A i \in 1 .. Len(got) : got[i] = data[chain[k - Len(got) + i]]
      BY <2>1, <2>2, <2>3
    <2> QED
      BY <1>1, <2>4 DEF ReadsInOrder, chain
  <1> QED
    BY <1>5, <1>6, <1>7, <1>8, <1>9 DEF IInv

LEMMA ReadClusterInv == IInv /\ ReadCluster => IInv'
  <1> SUFFICES ASSUME IInv, ReadCluster PROVE IInv'
    OBVIOUS
  <1> DEFINE next == get_next_cluster(file.current)
             chain == Chain(fat1, file.first)
  <1>1. /\ pc = "read" /\ pc' = "read" /\ IsLink(file.current)
        /\ got' = Append(got, data[file.current])
        /\ op' = [op EXCEPT !.left = @ - Chunk]
        /\ file' = [file EXCEPT !.position = @ + Chunk, !.current = next]
        /\ UNCHANGED <<fat1, fat2, root, data, fat_buffer, pages, twice, synced>>
    BY DEF ReadCluster, LoopGoesOn, disk
  <1>2. /\ file # NoFile /\ {"dos", "left"} \subseteq DOMAIN op
        /\ op.dos = file.dos /\ op.left \in Nat
        /\ op.left + file.position <= file.size
        /\ got \in Seq(Range(data))
    BY <1>1 DEF IInv, Call
  <1>3. file \in Handles /\ file.position \in Nat /\ file.size \in Nat
    BY <1>2, HandleFacts DEF Handles
  <1>4. /\ next \in FatValues /\ file.current \in Clusters
        /\ IsLink(next) => next \in Range(chain)
        /\ \A k \in 1 .. Len(chain) : file.current = chain[k] =>
             IF k < Len(chain) THEN next = chain[k + 1] ELSE ~IsLink(next)
    BY <1>1, <1>2, NextCluster
  <1>5. Len(chain) \in Nat
    BY <1>2, HandleFacts
  <1>6. Chunk \in Nat /\ Chunk <= op.left /\ op.left - Chunk \in Nat
    BY <1>2, ChunkFacts
  <1> HIDE DEF next
  <1>7. /\ file' \in Handles /\ file'.dos = file.dos /\ file'.first = file.first
        /\ file'.current = next /\ file'.size = file.size
        /\ file'.position = file.position + Chunk
    <2> DEFINE position == file.position + Chunk
    <2>1. position \in Nat
      BY <1>3, <1>6
    <2>2. file' = [file EXCEPT !.position = position, !.current = next]
      BY <1>1
    <2> HIDE DEF position
    <2>3. file' \in Handles /\ file'.dos = file.dos /\ file'.first = file.first
      BY <1>3, <1>4, <2>1, <2>2 DEF Handles
    <2>4. file'.current = next /\ file'.size = file.size /\ file'.position = position
      BY <1>3, <2>2 DEF Handles
    <2> QED
      BY <2>3, <2>4 DEF position
  <1>8. file'.position <= file'.size
    BY <1>2, <1>3, <1>6, <1>7
  <1>9. Handle'
    BY <1>1, <1>2, <1>4, <1>7, <1>8, HandleMoves
  <1>10. Directory'
    BY <1>1, DirectorySame DEF IInv
  <1>11. Types' /\ NewFile' /\ Tables'
    BY <1>1 DEF IInv, Types, NewFile, Tables
  <1>12. Call'
    <2>1. /\ op'.dos = op.dos /\ op'.left = op.left - Chunk
          /\ {"dos", "left"} \subseteq DOMAIN op'
      BY <1>1, <1>2
    <2>2. file' # NoFile
      BY <1>7, FatAssumption
    <2>3. op'.left + file'.position <= file'.size /\ op'.left \in Nat
      BY <1>2, <1>3, <1>6, <1>7, <2>1
    <2>4. got' \in Seq(Range(data))
      <3>1. file.current \in DOMAIN data
        BY <1>4, ClusterFacts DEF IInv, Types
      <3>2. data[file.current] \in Range(data)
        BY <3>1 DEF Range
      <3> QED
        BY <1>1, <1>2, <3>2
    <2> QED
      BY <1>1, <1>2, <1>7, <2>1, <2>2, <2>3, <2>4 DEF Call
  <1>13. ReadsInOrder'
    <2>1. PICK k \in 0 .. Len(chain) :
            /\ IF k < Len(chain) THEN file.current = chain[k + 1] ELSE ~IsLink(file.current)
            /\ Len(got) <= k
            /\ \A i \in 1 .. Len(got) : got[i] = data[chain[k - Len(got) + i]]
      BY <1>1 DEF IInv, ReadsInOrder
    <2> HIDE DEF chain
    <2>2. k < Len(chain) /\ file.current = chain[k + 1] /\ k + 1 \in 1 .. Len(chain)
      BY <1>1, <1>5, <2>1
    <2>3. IF k + 1 < Len(chain) THEN next = chain[(k + 1) + 1] ELSE ~IsLink(next)
      BY <1>4, <2>2
    <2>4. /\ Len(got') = Len(got) + 1 /\ Len(got) \in Nat
          /\ \A i \in 1 .. Len(got) : got'[i] = got[i]
          /\ got'[Len(got) + 1] = data[file.current]
      BY <1>1, <1>2
    <2>5. ASSUME NEW i \in 1 .. Len(got')
          PROVE  got'[i] = data[chain[(k + 1) - Len(got') + i]]
      <3>1. (k + 1) - Len(got') + i = k - Len(got) + i
        BY <2>4
      <3>2. CASE i \in 1 .. Len(got)
        BY <2>1, <2>4, <3>1, <3>2
      <3>3. CASE i = Len(got) + 1
        <4>1. k - Len(got) + i = k + 1
          BY <2>4, <3>3
        <4> QED
          BY <2>2, <2>4, <3>1, <3>3, <4>1
      <3> QED
        BY <2>4, <3>2, <3>3
    <2>6. /\ k + 1 \in 0 .. Len(chain) /\ Len(got') <= k + 1
          /\ IF k + 1 < Len(chain) THEN file'.current = chain[(k + 1) + 1]
             ELSE ~IsLink(file'.current)
      BY <1>5, <1>7, <2>1, <2>2, <2>3, <2>4
    <2>7. Chain(fat1', file'.first) = chain /\ data' = data
      BY <1>1, <1>7 DEF chain
    <2> QED
      BY <2>5, <2>6, <2>7 DEF ReadsInOrder
  <1> QED
    BY <1>9, <1>10, <1>11, <1>12, <1>13 DEF IInv

LEMMA EndLoopInv == IInv /\ EndLoop => IInv'
  <1> SUFFICES ASSUME IInv, EndLoop PROVE IInv'
    OBVIOUS
  <1> DEFINE eof == ~IsLink(file.current)
  <1>1. /\ pc \in {"read", "write"} /\ pc' = "idle" /\ op' = Idle /\ got' = <<>>
        /\ file' = IF pc = "read" THEN [file EXCEPT !.eof = eof] ELSE file
        /\ UNCHANGED <<fat1, fat2, root, data, fat_buffer, pages, twice, synced>>
    BY DEF EndLoop, disk
  <1>2. file # NoFile
    BY <1>1 DEF IInv, Call
  <1>3. file \in Handles /\ file.position <= file.size
    BY <1>2, HandleFacts
  <1>4. eof \in BOOLEAN
    <2>1. (file.current < EofMin) \in BOOLEAN
      OBVIOUS
    <2> QED
      BY <2>1, Zenon DEF IsLink
  <1>5. IsLink(file.current) => file.current \in Range(Chain(fat1, file.first))
    BY <1>2, HandleFacts
  <1> HIDE DEF eof
  <1>6. /\ file' \in Handles /\ file'.dos = file.dos /\ file'.first = file.first
        /\ file'.current = file.current /\ file'.position <= file'.size
    <2>1. CASE pc = "read"
      BY <1>1, <1>3, <1>4, <2>1 DEF Handles
    <2>2. CASE pc # "read"
      BY <1>1, <1>3, <2>2
    <2> QED
      BY <2>1, <2>2
  <1>7. Handle'
    BY <1>1, <1>2, <1>5, <1>6, HandleMoves
  <1>8. Directory'
    BY <1>1, DirectorySame DEF IInv
  <1>9. Types' /\ NewFile' /\ Tables' /\ ReadsInOrder'
    BY <1>1 DEF IInv, Types, NewFile, Tables, ReadsInOrder
  <1>10. Call'
    BY <1>1 DEF Call
  <1> QED
    BY <1>7, <1>8, <1>9, <1>10 DEF IInv

LEMMA NextInv == IInv /\ [Next]_vars => IInv'
  BY StutterInv, RestartInv, OpenInv, CreateExistingInv, CreateNewInv, SyncFat1Inv, SyncFat2Inv,
     WriteEntryInv, WriteInv, WriteClusterInv, ReadInv, ReadClusterInv, EndLoopInv
  DEF Next

-----------------------------------------------------------------------------
(* What follows.                                                           *)

\* Entries of the table keep their three digits, half-written ones included,
\* handles stay inside their files, and sync_fat inside the table (fs.c).
THEOREM Fat12TypesHold == Spec => []TypeOK
  <1>1. IInv => TypeOK
    <2> SUFFICES ASSUME IInv PROVE TypeOK
      OBVIOUS
    <2>1. /\ {fat1, fat2, fat_buffer} \subseteq [Clusters -> FatValues]
          /\ DOMAIN root = Slots /\ DOMAIN data = Addresses /\ pages \in 0 .. Pages
      BY DEF IInv, Types
    <2>2. \A s \in LiveSlots :
            root[s].name \in DosNames /\ root[s].first \in Clusters /\ root[s].size \in Nat
      BY LiveIsFile DEF IInv
    <2>3. file # NoFile => file.first \in Clusters /\ file.position \in 0 .. file.size
      BY DEF IInv, Handle, Handles
    <2>4. pc \in {"sync1", "sync2", "entry"} => op.i \in FatSectors /\ op.slot \in Slots
      BY DEF IInv, NewFile
    <2>5. pc \in {"read", "write"} => op.left \in Nat
      BY DEF IInv, Call
    <2> QED
      BY <2>1, <2>2, <2>3, <2>4, <2>5 DEF TypeOK
  <1> QED
    BY InitInv, NextInv, <1>1, PTL DEF Spec

\* No two files share a cluster on the disk, also after a restart between two
\* sector writes of sync_fat left half an entry behind.
THEOREM NoClusterIsShared == Spec => []NoCrossLink
  <1>1. IInv => NoCrossLink
    BY DEF IInv, Directory
  <1> QED
    BY InitInv, NextInv, <1>1, PTL DEF Spec

\* fat12_create enters a file only when its cluster is allocated on the disk.
THEOREM EveryChainEnds == Spec => []ChainsEnd
  <1>1. IInv => ChainsEnd
    BY DEF IInv, Directory
  <1> QED
    BY InitInv, NextInv, <1>1, PTL DEF Spec

\* sync_fat, sector by sector, leaves two tables that agree with the cache,
\* whatever the size of a sector and whichever entries lie across two.
THEOREM SyncMakesTablesAgree == Spec => []TablesAgree
  <1>1. IInv => TablesAgree
    BY DEF IInv, Tables, TablesAgree
  <1> QED
    BY InitInv, NextInv, <1>1, PTL DEF Spec

\* fat12_list_root prints every file and no other, and fat12_open finds what it
\* prints: find_free_dir_entry never leaves an unused slot before a file.
THEOREM ListIsComplete == Spec => []ListShowsEveryFile
  <1>1. IInv => ListShowsEveryFile
    <2> SUFFICES ASSUME IInv, NEW s \in LiveSlots
                 PROVE  \E t \in SlotsOf(root[s].name) : s = t \/ (twice /\ t < s)
      BY DEF IInv, Directory, ListShowsEveryFile
    <2>1. PICK t \in SlotsOf(root[s].name) : t <= s
      BY OpenFinds DEF IInv
    <2>2. t \in LiveSlots /\ root[t].name = root[s].name
      BY OpenFinds DEF IInv
    <2>3. CASE twice
      <3>1. s \in Nat /\ t \in Nat
        BY <2>2, LiveIsFile, FatAssumption DEF IInv, Slots
      <3> QED
        BY <2>1, <2>3, <3>1
    <2>4. CASE ~twice
      BY <2>1, <2>2, <2>4 DEF IInv, Directory
    <2> QED
      BY <2>3, <2>4
  <1> QED
    BY InitInv, NextInv, <1>1, PTL DEF Spec

\* fat12_read copies consecutive sectors of the file as its links order them.
THEOREM ReadFollowsLinks == Spec => []ReadsInOrder
  <1>1. IInv => ReadsInOrder
    BY DEF IInv
  <1> QED
    BY InitInv, NextInv, <1>1, PTL DEF Spec

\* A name is entered twice only when fat12_open got no page for its handle.
THEOREM DuplicatesNeedFullMemory == Spec => DuplicatesOnlyWithoutPages
  <1>1. IInv /\ [Next]_vars => [~twice /\ twice' => pages = 0]_vars
    <2> SUFFICES ASSUME IInv, Next, ~twice, twice' PROVE pages = 0
      OBVIOUS
    <2>1. CASE WriteEntry
      <3>1. \E s \in LiveSlots : root[s].name = op.dos
        BY <2>1 DEF WriteEntry, LiveSlots
      <3> QED
        BY <2>1, <3>1 DEF IInv, NewFile, WriteEntry
    <2>2. CASE UNCHANGED twice
      BY <2>2
    <2> QED
      BY <2>1, <2>2
      DEF Next, Restart, fat12_open, CreateExisting, CreateNew, SyncFat1, SyncFat2, fat12_write,
          WriteCluster, fat12_read, ReadCluster, EndLoop
  <1> QED
    BY InitInv, NextInv, <1>1, PTL DEF Spec, DuplicatesOnlyWithoutPages

-----------------------------------------------------------------------------
(* The refinement of FileStore.                                            *)

Present == {root[s].name : s \in LiveSlots}

Lookup == \A dos : SlotsOf(dos) = LowestOf({s \in LiveSlots : root[s].name = dos})

LEMMA SlotsByName == IInv => Lookup
  <1> SUFFICES ASSUME IInv, NEW dos
               PROVE  SlotsOf(dos) = LowestOf({s \in LiveSlots : root[s].name = dos})
    BY DEF Lookup
  <1> DEFINE S == {s \in Slots : /\ \A t \in 1 .. s : root[t] # End
                                 /\ IsLive(root[s]) /\ root[s].name = dos}
  <1>1. S = {s \in LiveSlots : root[s].name = dos}
    BY DEF IInv, Directory, Listed, LiveSlots
  <1>2. SlotsOf(dos) = LowestOf(S)
    BY DEF SlotsOf
  <1> HIDE DEF S
  <1> QED
    BY <1>1, <1>2

LEMMA SlotsByNameNext == IInv' => Lookup'
  BY SlotsByName, PTL

LEMMA SlotIsLive ==
  ASSUME IInv, NEW dos \in Present
  PROVE  SlotOf(dos) \in LiveSlots /\ root[SlotOf(dos)].name = dos
  <1>1. PICK t \in LiveSlots : root[t].name = dos
    BY DEF Present
  <1>2. SlotsOf(dos) # {}
    BY <1>1, OpenFinds DEF IInv
  <1>3. SlotOf(dos) \in SlotsOf(dos)
    BY <1>2 DEF SlotOf
  <1> QED
    BY <1>3, OpenFinds DEF IInv

\* A step that changes neither the chains of files nor their sectors.
LEMMA StoreStays ==
  ASSUME IInv, UNCHANGED <<root, data>>, LiveSlots' = LiveSlots,
         \A s \in LiveSlots : ChainAt(s)' = ChainAt(s)
  PROVE  Stored' = Stored
  <1>1. Present' = Present
    BY DEF Present
  <1>2. ASSUME NEW dos \in Present PROVE Sectors(SlotOf(dos))' = Sectors(SlotOf(dos))
    <2>1. SlotOf(dos)' = SlotOf(dos)
      BY DEF SlotOf, SlotsOf
    <2>2. PICK s : s = SlotOf(dos) /\ s \in LiveSlots
      BY SlotIsLive
    <2>3. Sectors(s)' = Sectors(s)
      BY <2>2 DEF Sectors
    <2>4. Sectors(SlotOf(dos))' = Sectors(s)'
      BY <2>1, <2>2 DEF Sectors, ChainAt
    <2> QED
      BY <2>2, <2>3, <2>4
  <1> QED
    BY <1>1, <1>2 DEF Stored, Present

LEMMA StoreSameStep ==
  ASSUME Stored' = Stored, twice' = twice
  PROVE  [FS!Next]_(FS!vars)
  BY DEF FS!Next, FS!Begin, FS!vars

LEMMA AppearStep ==
  ASSUME IInv, IInv', WriteEntry, ~twice
  PROVE  FS!Next
  <1>1. /\ root' = [root EXCEPT ![op.slot] = op.entry] /\ op' = Idle
        /\ twice' = (twice \/ \E s \in Slots : IsLive(root[s]) /\ root[s].name = op.dos)
        /\ pc = "entry" /\ UNCHANGED <<fat1, data>>
    BY DEF WriteEntry
  <1>2. PICK z, e, dos : z = op.slot /\ e = op.entry /\ dos = op.dos
    OBVIOUS
  <1>3. /\ z \in Slots /\ ~IsLive(root[z]) /\ e \in Files /\ e.name = dos
        /\ e \notin {End, Deleted}
    BY <1>1, <1>2, FatAssumption DEF IInv, NewFile, FreeSlot, LowestOf
  <1>4. /\ root'[z] = e /\ \A s \in Slots \ {z} : root'[s] = root[s]
        /\ LiveSlots' = LiveSlots \cup {z} /\ z \notin LiveSlots
    <2>1. root'[z] = e /\ \A s \in Slots \ {z} : root'[s] = root[s]
      BY <1>1, <1>2, <1>3 DEF IInv, Types
    <2> QED
      BY <1>3, <2>1 DEF LiveSlots, IsLive
  <1>5. \A s \in LiveSlots : s \in Slots \ {z} /\ root'[s] = root[s]
    BY <1>4 DEF LiveSlots
  <1>6. CASE \E s \in LiveSlots : root[s].name = dos
    <2>1. twice'
      BY <1>1, <1>2, <1>6 DEF LiveSlots
    <2>2. dos \in DOMAIN Stored
      BY <1>6 DEF Stored
    <2> QED
      BY <1>2, <2>1, <2>2 DEF FS!Next, FS!Duplicate
  <1>7. CASE \A s \in LiveSlots : root[s].name # dos
    <2>1. ~twice'
      BY <1>1, <1>2, <1>7 DEF LiveSlots
    <2>2. Present' = Present \cup {dos} /\ dos \notin Present
      BY <1>3, <1>4, <1>5, <1>7 DEF Present
    <2>3. DOMAIN Stored = Present /\ DOMAIN Stored' = Present'
      BY DEF Stored, Present
    <2>4. ASSUME NEW d \in Present PROVE Stored'[d] = Stored[d]
      <3>1. {s \in LiveSlots' : root'[s].name = d} = {s \in LiveSlots : root[s].name = d}
        BY <1>3, <1>4, <1>5, <2>2
      <3>2. /\ SlotsOf(d) = LowestOf({s \in LiveSlots : root[s].name = d})
            /\ SlotsOf(d)' = LowestOf({s \in LiveSlots' : root'[s].name = d})
        BY SlotsByName, SlotsByNameNext DEF Lookup, LowestOf
      <3>3. SlotsOf(d)' = SlotsOf(d)
        BY <3>1, <3>2
      <3>4. SlotOf(d)' = SlotOf(d)
        BY <3>3 DEF SlotOf
      <3>5. PICK s : s = SlotOf(d) /\ s \in LiveSlots
        BY SlotIsLive
      <3>6. Sectors(s)' = Sectors(s)
        BY <1>1, <1>5, <3>5 DEF Sectors, ChainAt
      <3>7. Sectors(SlotOf(d))' = Sectors(s)'
        BY <3>4, <3>5 DEF Sectors, ChainAt
      <3> QED
        BY <2>2, <3>5, <3>6, <3>7 DEF Stored, Present
    <2>5. FS!Restrict(Stored', Present) = Stored
      <3>1. Stored = [d \in Present |-> Stored[d]]
        BY DEF Stored, Present
      <3> QED
        BY <2>4, <3>1 DEF FS!Restrict
    <2>6. UNCHANGED twice
      BY <2>1 DEF IInv, Types
    <2>7. op'.dos = NoName
      BY <1>1 DEF Idle
    <2>8. FS!Appear
      BY <1>2, <2>2, <2>3, <2>5, <2>6, <2>7 DEF FS!Appear
    <2> QED
      BY <2>8 DEF FS!Next
  <1> QED
    BY <1>6, <1>7

\* A step of fat12_write replaces a sector of the file it was called for, and
\* none of another file: the clusters of different files are different.
LEMMA RewriteStep ==
  ASSUME IInv, WriteCluster, ~twice
  PROVE  FS!Next
  <1>1. /\ pc = "write" /\ IsLink(file.current)
        /\ data' = [data EXCEPT ![file.current] = <<op.what, op.sector>>]
        /\ op' = [op EXCEPT !.left = @ - Chunk, !.sector = @ + 1]
        /\ UNCHANGED <<fat1, root, twice>>
    BY DEF WriteCluster, LoopGoesOn
  <1>2. PICK c, dos : c = file.current /\ dos = op.dos
    OBVIOUS
  <1>3. file # NoFile /\ {"dos", "left"} \subseteq DOMAIN op /\ file.dos = dos
    BY <1>1, <1>2 DEF IInv, Call
  <1>4. PICK s \in LiveSlots : root[s].name = dos /\ c \in Range(ChainAt(s))
    BY <1>1, <1>2, <1>3 DEF IInv, Handle, ChainAt
  <1>5. LiveSlots' = LiveSlots /\ Present' = Present /\ \A t : ChainAt(t)' = ChainAt(t)
    BY <1>1 DEF LiveSlots, Present, ChainAt
  <1>6. \A d : SlotOf(d)' = SlotOf(d)
    BY <1>1 DEF SlotOf, SlotsOf
  <1>7. DOMAIN Stored = Present /\ DOMAIN Stored' = Present
    BY <1>5 DEF Stored, Present
  <1>8. dos \in Present
    BY <1>4 DEF Present
  <1>9. ASSUME NEW d \in Present
        PROVE  /\ DOMAIN Stored'[d] = DOMAIN Stored[d]
               /\ d # dos => Stored'[d] = Stored[d]
    <2>1. PICK t : t = SlotOf(d) /\ t \in LiveSlots /\ root[t].name = d
      BY SlotIsLive
    <2>2. Stored[d] = Sectors(t) /\ Stored'[d] = Sectors(t)'
      <3>1. Sectors(SlotOf(d))' = Sectors(t)'
        BY <1>6, <2>1 DEF Sectors, ChainAt
      <3> QED
        BY <1>5, <2>1, <3>1 DEF Stored, Present
    <2>3. DOMAIN Sectors(t)' = DOMAIN Sectors(t)
      BY <1>5 DEF Sectors
    <2>4. ASSUME d # dos PROVE Sectors(t)' = Sectors(t)
      <3>1. c \notin Range(ChainAt(t))
        BY <1>4, <2>1, <2>4 DEF IInv, Directory, NoCrossLink
      <3>2. ASSUME NEW i \in DOMAIN ChainAt(t) PROVE data'[ChainAt(t)[i]] = data[ChainAt(t)[i]]
        <4>1. ChainAt(t)[i] \in Range(ChainAt(t))
          BY DEF Range
        <4>2. ChainAt(t)[i] \in DOMAIN data /\ ChainAt(t)[i] # c
          BY <2>1, <3>1, <4>1, ChainIsTaken, ClusterFacts DEF IInv, Types
        <4> QED
          BY <1>1, <1>2, <4>2
      <3> QED
        BY <1>5, <3>2 DEF Sectors
    <2> QED
      BY <2>2, <2>3, <2>4
  <1>10. op'.dos = op.dos
    BY <1>1, <1>3
  <1>11. FS!Rewrite
    BY <1>1, <1>2, <1>7, <1>8, <1>9, <1>10 DEF FS!Rewrite
  <1> QED
    BY <1>11 DEF FS!Next

\* Every step of the file system is a step of the store or changes nothing in it.
LEMMA StoreStep ==
  ASSUME IInv, IInv', [Next]_vars
  PROVE  [FS!Next]_(FS!vars)
  <1>1. CASE twice
    <2>1. twice'
      BY <1>1
      DEF Next, vars, Restart, fat12_open, CreateExisting, CreateNew, SyncFat1, SyncFat2,
          WriteEntry, fat12_write, WriteCluster, fat12_read, ReadCluster, EndLoop
    <2> QED
      BY <1>1, <2>1 DEF FS!Next, FS!AfterDuplicate
  <1>2. ASSUME UNCHANGED <<fat1, root, data, twice>>
        PROVE  [FS!Next]_(FS!vars)
    <2>1. LiveSlots' = LiveSlots /\ \A s : ChainAt(s)' = ChainAt(s)
      BY <1>2, DirectorySame DEF IInv
    <2> QED
      BY <1>2, <2>1, StoreStays, StoreSameStep
  <1>3. CASE SyncFat1
    <2>1. /\ pc = "sync1" /\ fat1' = WithSector(fat1, op.i)
          /\ UNCHANGED <<root, data, fat_buffer, twice>>
      BY <1>3 DEF SyncFat1
    <2>2. PICK c : c = op.entry.first
      OBVIOUS
    <2>3. \A s \in LiveSlots : c \notin Range(ChainAt(s))
      BY <2>1, <2>2 DEF IInv, NewFile
    <2>4. \A d \in Clusters \ {c} : fat1'[d] = fat1[d]
      BY <2>1, <2>2, SectorKeeps DEF IInv, Tables, Types
    <2>5. LiveSlots' = LiveSlots /\ \A s \in LiveSlots : ChainAt(s)' = ChainAt(s)
      BY <2>1, <2>3, <2>4, ChainsStay DEF IInv
    <2> QED
      BY <2>1, <2>5, StoreStays, StoreSameStep
  <1>4. CASE WriteEntry /\ ~twice
    BY <1>4, AppearStep
  <1>5. CASE WriteCluster /\ ~twice
    BY <1>5, RewriteStep
  <1>6. [Next]_vars /\ ~SyncFat1 /\ ~WriteEntry /\ ~WriteCluster
        => UNCHANGED <<fat1, root, data, twice>>
    BY DEF Next, vars, disk, Restart, fat12_open, CreateExisting, CreateNew, SyncFat2,
           fat12_write, fat12_read, ReadCluster, EndLoop
  <1> QED
    BY <1>1, <1>2, <1>3, <1>4, <1>5, <1>6

\* Power failures included, the files on the disk behave as the store of
\* FileStore: fat12_create makes a file appear in one step (the write of its
\* directory sector), fat12_write changes sectors of the one file it was called
\* for, and nothing else that happens changes any file.
THEOREM ImplementsFileStore == Spec => KeepsFiles
  <1>1. Init => FS!Init
    BY DEF Init, Idle, FS!Init
  <1>2. IInv /\ [Next]_vars => [FS!Next]_(FS!vars)
    BY NextInv, StoreStep
  <1> QED
    BY InitInv, NextInv, <1>1, <1>2, PTL DEF Spec, KeepsFiles, FS!Spec
=============================================================================
