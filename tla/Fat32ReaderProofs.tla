-------------------------- MODULE Fat32ReaderProofs -------------------------
(***************************************************************************)
(* fat32.c on any disk.  read_cluster_chain takes the steps that           *)
(* get_cluster_chain_length took, however the table is damaged; so what a  *)
(* call returns is what the chain of its directory lists, and an assert    *)
(* fails only where there is no chain.                                     *)
(***************************************************************************)
EXTENDS Fat32Reader, SequenceTheorems, FiniteSetTheorems, WellFoundedInduction, TLAPS

----------------------------------------------------------------------------
(* Induction over the naturals, for a set                                *)

\* A set of natural numbers that is not empty has a least one.
LEMMA LeastExists ==
    ASSUME NEW T, T \subseteq Nat, T # {}
    PROVE  \E x \in T : \A y \in T : x <= y
<1>1. PICK x \in T : \A y \in T : ~ (<<y, x>> \in OpToRel(<, Nat))
  <2>1. IsWellFoundedOn(OpToRel(<, Nat), Nat)
    BY NatLessThanWellFounded
  <2> QED BY <2>1, WFMin, Zenon
<1>2. ASSUME NEW y \in T, ~(x <= y) PROVE FALSE
  <2>1. x \in Nat /\ y \in Nat /\ y < x
    BY <1>2
  <2>2. <<y, x>> \in Nat \X Nat /\ <<y, x>>[1] < <<y, x>>[2]
    BY <2>1
  <2>3. <<y, x>> \in OpToRel(<, Nat)
    BY <2>2 DEF OpToRel
  <2> QED BY <1>1, <2>3
<1> QED BY <1>2

\* A set that has 0, and with each natural number the next one, has them all.
LEMMA NatSetInduction ==
    ASSUME NEW S, 0 \in S, \A m \in S \cap Nat : m + 1 \in S
    PROVE  Nat \subseteq S
<1> SUFFICES ASSUME Nat \ S # {} PROVE FALSE
  OBVIOUS
<1>1. PICK x \in Nat \ S : \A y \in Nat \ S : x <= y
  <2> DEFINE T == Nat \ S
  <2>1. T \subseteq Nat /\ T # {}
    OBVIOUS
  <2> HIDE DEF T
  <2>2. \E x \in T : \A y \in T : x <= y
    BY <2>1, LeastExists
  <2> QED BY <2>2 DEF T
<1>2. x # 0
  OBVIOUS
<1>3. x - 1 \in Nat /\ ~(x <= x - 1) /\ x = (x - 1) + 1
  BY <1>2
<1>4. x - 1 \in S
  BY <1>1, <1>3
<1> QED BY <1>3, <1>4

\* f starts at e and goes on by G, step after step.
Steps(f, e, G, k) == f[0] = e /\ \A i \in 1..k : f[i] = G[<<f[i - 1], i>>]

\* One may go on so for as many steps as one likes.
LEMMA StepsExist ==
    ASSUME NEW T, NEW e \in T, NEW G \in [T \X Nat -> T], NEW k \in Nat
    PROVE  \E f \in [0..k -> T] : Steps(f, e, G, k)
<1> DEFINE S == {m \in Nat : \E f \in [0..m -> T] : Steps(f, e, G, m)}
<1>1. 0 \in S
  <2> DEFINE f == [i \in 0..0 |-> e]
  <2>1. f \in [0..0 -> T] /\ f[0] = e
    OBVIOUS
  <2> HIDE DEF f
  <2> QED BY <2>1 DEF Steps
<1>2. ASSUME NEW m \in S \cap Nat PROVE m + 1 \in S
  <2>1. PICK f \in [0..m -> T] : Steps(f, e, G, m)
    OBVIOUS
  <2> HIDE DEF S
  <2> DEFINE next == G[<<f[m], m + 1>>]
             g == [i \in 0..m + 1 |-> IF i = m + 1 THEN next ELSE f[i]]
  <2>2. next \in T
    <3>1. f[m] \in T /\ m + 1 \in Nat
      BY <2>1
    <3>2. <<f[m], m + 1>> \in T \X Nat
      BY <3>1
    <3> QED BY <3>2
  <2>3. g \in [0..m + 1 -> T]
    <3> HIDE DEF next
    <3>1. \A i \in 0..m + 1 : i # m + 1 => i \in 0..m
      OBVIOUS
    <3> QED BY <2>1, <2>2, <3>1
  <2>4. g[0] = e
    BY <2>1 DEF Steps
  <2>5. ASSUME NEW i \in 1..m + 1 PROVE g[i] = G[<<g[i - 1], i>>]
    <3>1. i \in 0..m + 1 /\ i - 1 \in 0..m + 1 /\ i - 1 # m + 1
      OBVIOUS
    <3>2. g[i - 1] = f[i - 1]
      BY <3>1, Zenon
    <3>3. CASE i = m + 1
      <4>1. i - 1 = m /\ g[i] = next
        BY <3>1, <3>3
      <4> QED BY <3>2, <3>3, <4>1, Zenon
    <3>4. CASE i # m + 1
      <4>1. i \in 1..m
        BY <3>4
      <4>2. g[i] = f[i] /\ f[i] = G[<<f[i - 1], i>>]
        BY <2>1, <3>1, <3>4, <4>1, Zenon DEF Steps
      <4> QED BY <3>2, <4>2, Zenon
    <3> QED BY <3>3, <3>4
  <2> HIDE DEF g
  <2>6. Steps(g, e, G, m + 1) /\ m + 1 \in Nat
    BY <2>4, <2>5 DEF Steps
  <2> QED BY <2>3, <2>6 DEF S
<1>3. Nat \subseteq S
  <2> HIDE DEF S
  <2> QED BY <1>1, <1>2, NatSetInduction
<1> QED BY <1>3

----------------------------------------------------------------------------
(* What get_dirents returns.                                               *)

Dents(i) == disk.dents[buf[i]]

\* R[i] is the contents of the first i clusters of the buffer.
IsRead(R, k) == R = [i \in 0..k |-> IF i = 0 THEN <<>> ELSE R[i - 1] \o disk.dents[buf[i]]]

\* RawDirents is the contents of all the clusters of the buffer.
LEMMA RawIsRead ==
    ASSUME disk \in Disk, buf \in Seq(Cluster)
    PROVE  \E R : IsRead(R, Len(buf)) /\ RawDirents = R[Len(buf)]
<1> DEFINE R == CHOOSE f : f = [i \in 0..Len(buf) |-> IF i = 0 THEN <<>>
                                                      ELSE f[i - 1] \o disk.dents[buf[i]]]
<1>1. R = [i \in 0..Len(buf) |-> IF i = 0 THEN <<>> ELSE R[i - 1] \o disk.dents[buf[i]]]
  <2> DEFINE T == Seq(Dirent)
             G == [x \in T \X Nat |-> IF x[2] \in 1..Len(buf) THEN x[1] \o Dents(x[2]) ELSE x[1]]
  <2>1. ASSUME NEW i \in 1..Len(buf) PROVE Dents(i) \in T
    BY ElementOfSeq DEF Dents, Disk
  <2>2. G \in [T \X Nat -> T]
    BY <2>1, ConcatProperties
  <2>3. Len(buf) \in Nat /\ <<>> \in T
    BY LenProperties, EmptySeq
  <2>4. PICK f \in [0..Len(buf) -> T] : Steps(f, <<>>, G, Len(buf))
    <3> HIDE DEF G, T
    <3> QED BY <2>2, <2>3, StepsExist
  <2>5. ASSUME NEW i \in 0..Len(buf)
        PROVE  f[i] = IF i = 0 THEN <<>> ELSE f[i - 1] \o disk.dents[buf[i]]
    <3> SUFFICES ASSUME i # 0 PROVE f[i] = f[i - 1] \o Dents(i)
      BY <2>4 DEF Dents, Steps
    <3>1. i \in 1..Len(buf) /\ i \in Nat /\ i - 1 \in 0..Len(buf)
      BY <2>3
    <3>2. f[i] = G[<<f[i - 1], i>>] /\ <<f[i - 1], i>> \in T \X Nat
      BY <2>4, <3>1 DEF Steps
    <3> QED BY <3>1, <3>2
  <2>6. f = [i \in 0..Len(buf) |-> IF i = 0 THEN <<>> ELSE f[i - 1] \o disk.dents[buf[i]]]
    BY <2>4, <2>5
  <2> QED BY <2>6, Zenon
<1>2. RawDirents = R[Len(buf)]
  BY Zenon DEF RawDirents
<1> HIDE DEF R
<1> QED BY <1>1, <1>2 DEF IsRead

\* The contents of the first clusters, one cluster after the other.
LEMMA ReadSteps ==
    ASSUME disk \in Disk, buf \in Seq(Cluster), NEW R, IsRead(R, Len(buf))
    PROVE  /\ Len(buf) \in Nat /\ R[0] = <<>>
           /\ \A i \in 1..Len(buf) : Dents(i) \in Seq(Dirent) /\ R[i] = R[i - 1] \o Dents(i)
           /\ \A i \in 0..Len(buf) : R[i] \in Seq(Dirent)
<1>1. Len(buf) \in Nat /\ R[0] = <<>>
  BY LenProperties DEF IsRead
<1>2. ASSUME NEW i \in 1..Len(buf)
      PROVE  Dents(i) \in Seq(Dirent) /\ R[i] = R[i - 1] \o Dents(i)
  <2>1. buf[i] \in Cluster
    BY ElementOfSeq
  <2>2. disk.dents \in [Cluster -> Seq(Dirent)]
    BY DEF Disk
  <2>3. i \in 0..Len(buf) /\ i # 0
    BY <1>1
  <2> QED BY <2>1, <2>2, <2>3 DEF Dents, IsRead
<1> DEFINE S == {i \in Nat : i <= Len(buf) => R[i] \in Seq(Dirent)}
<1>3. 0 \in S
  BY <1>1, EmptySeq
<1>4. ASSUME NEW i \in S \cap Nat PROVE i + 1 \in S
  <2> SUFFICES ASSUME i + 1 <= Len(buf) PROVE R[i + 1] \in Seq(Dirent)
    OBVIOUS
  <2>1. i + 1 \in 1..Len(buf) /\ (i + 1) - 1 = i /\ R[i] \in Seq(Dirent)
    BY <1>1
  <2>2. Dents(i + 1) \in Seq(Dirent) /\ R[i + 1] = R[i] \o Dents(i + 1)
    BY <1>2, <2>1
  <2> QED BY <2>1, <2>2, ConcatProperties
<1>5. Nat \subseteq S
  <2> HIDE DEF S
  <2> QED BY <1>3, <1>4, NatSetInduction
<1> QED BY <1>1, <1>2, <1>5

\* One sequence after another.
LEMMA AppendedParts ==
    ASSUME NEW S, NEW r \in Seq(S), NEW d \in Seq(S)
    PROVE  /\ Len(r) \in Nat /\ Len(d) \in Nat /\ Len(r \o d) = Len(r) + Len(d)
           /\ \A x \in 1..Len(r) : (r \o d)[x] = r[x]
           /\ \A j \in 1..Len(d) : (r \o d)[Len(r) + j] = d[j]
BY LenProperties, ConcatProperties

\* What the first i clusters hold is the beginning of what the first m hold.
Extends(R, i, m) == Len(R[i]) <= Len(R[m]) /\ \A x \in 1..Len(R[i]) : R[m][x] = R[i][x]

\* Entry x is in one of the clusters.
Placed(R, x) == \E i \in 1..Len(buf) : \E j \in 1..Len(Dents(i)) : x = Len(R[i - 1]) + j

\* What a cluster holds starts where the clusters before it end, and all there is is in
\* some cluster.
LEMMA ReadParts ==
    ASSUME disk \in Disk, buf \in Seq(Cluster), NEW R, IsRead(R, Len(buf))
    PROVE  /\ \A i \in 1..Len(buf) : Len(R[i]) = Len(R[i - 1]) + Len(Dents(i))
           /\ \A i \in 0..Len(buf), k \in 0..Len(buf) : i <= k => Len(R[i]) <= Len(R[k])
           /\ \A i \in 1..Len(buf) : \A j \in 1..Len(Dents(i)) :
                 R[Len(buf)][Len(R[i - 1]) + j] = Dents(i)[j]
           /\ \A x \in 1..Len(R[Len(buf)]) :
                 \E i \in 1..Len(buf) : \E j \in 1..Len(Dents(i)) : x = Len(R[i - 1]) + j
<1>0. /\ Len(buf) \in Nat /\ R[0] = <<>>
      /\ \A i \in 1..Len(buf) : Dents(i) \in Seq(Dirent) /\ R[i] = R[i - 1] \o Dents(i)
      /\ \A i \in 0..Len(buf) : R[i] \in Seq(Dirent)
  BY ReadSteps
<1>1. ASSUME NEW i \in 1..Len(buf)
      PROVE  /\ Len(R[i]) = Len(R[i - 1]) + Len(Dents(i))
             /\ Len(R[i - 1]) \in Nat /\ Len(Dents(i)) \in Nat
             /\ \A x \in 1..Len(R[i - 1]) : R[i][x] = R[i - 1][x]
             /\ \A j \in 1..Len(Dents(i)) : R[i][Len(R[i - 1]) + j] = Dents(i)[j]
  <2>1. i - 1 \in 0..Len(buf)
    BY <1>0
  <2>2. /\ R[i - 1] \in Seq(Dirent) /\ Dents(i) \in Seq(Dirent) /\ R[i] = R[i - 1] \o Dents(i)
    BY <1>0, <2>1
  <2> QED BY <2>2, AppendedParts
<1>2. ASSUME NEW i \in 0..Len(buf), NEW k \in 0..Len(buf), i <= k
      PROVE  Extends(R, i, k)
  <2> DEFINE S == {m \in Nat : i <= m /\ m <= Len(buf) => Extends(R, i, m)}
  <2>1. Extends(R, i, i)
    BY <1>0, LenProperties DEF Extends
  <2>2. ASSUME NEW m \in Nat, m + 1 <= Len(buf), Extends(R, i, m)
        PROVE  Extends(R, i, m + 1)
    <3>1. m + 1 \in 1..Len(buf) /\ (m + 1) - 1 = m
      BY <1>0, <2>2
    <3> DEFINE d == Len(Dents(m + 1))
    <3>2. /\ Len(R[m + 1]) = Len(R[m]) + d /\ Len(R[m]) \in Nat /\ d \in Nat
          /\ \A x \in 1..Len(R[m]) : R[m + 1][x] = R[m][x]
      <4>1. /\ Len(R[m + 1]) = Len(R[(m + 1) - 1]) + d /\ Len(R[(m + 1) - 1]) \in Nat /\ d \in Nat
            /\ \A x \in 1..Len(R[(m + 1) - 1]) : R[m + 1][x] = R[(m + 1) - 1][x]
        BY <1>1, <3>1, Zenon
      <4> QED BY <3>1, <4>1, Zenon
    <3>3. Len(R[i]) \in Nat
      BY <1>0, LenProperties
    <3> HIDE DEF d
    <3> QED BY <2>2, <3>2, <3>3 DEF Extends
  <2>3. 0 \in S
    BY <1>0, <2>1
  <2>4. ASSUME NEW m \in S \cap Nat PROVE m + 1 \in S
    <3>1. i <= m + 1 => i <= m \/ i = m + 1
      OBVIOUS
    <3>2. m + 1 <= Len(buf) => m <= Len(buf)
      BY <1>0
    <3> QED BY <2>1, <2>2, <3>1, <3>2
  <2>5. Nat \subseteq S
    <3> HIDE DEF S
    <3> QED BY <2>3, <2>4, NatSetInduction
  <2> QED BY <1>0, <1>2, <2>5
<1>3. ASSUME NEW i \in 1..Len(buf), NEW j \in 1..Len(Dents(i))
      PROVE  R[Len(buf)][Len(R[i - 1]) + j] = Dents(i)[j]
  <2>1. i \in 0..Len(buf) /\ Len(buf) \in 0..Len(buf) /\ i <= Len(buf)
    BY <1>0
  <2>2. Len(R[i - 1]) + j \in 1..Len(R[i])
    BY <1>1
  <2> QED BY <1>1, <1>2, <2>1, <2>2 DEF Extends
<1>4. ASSUME NEW x \in 1..Len(R[Len(buf)])
      PROVE  Placed(R, x)
  <2> DEFINE S == {m \in Nat : m <= Len(buf) /\ x <= Len(R[m]) => Placed(R, x)}
  <2>0. x \in Int
    BY <1>0, LenProperties
  <2>1. ASSUME NEW m \in Nat, m + 1 <= Len(buf), x <= Len(R[m + 1]), ~(x <= Len(R[m]))
        PROVE  Placed(R, x)
    <3>1. m + 1 \in 1..Len(buf) /\ (m + 1) - 1 = m
      BY <1>0, <2>1
    <3> DEFINE d == Len(Dents(m + 1))
               l == Len(R[m])
    <3>2. Len(R[m + 1]) = l + d /\ l \in Nat /\ d \in Nat
      BY <1>1, <3>1
    <3> HIDE DEF l, d
    <3>3. x <= l + d /\ ~(x <= l) /\ x \in Int
      BY <2>1, <2>0, <3>2 DEF l
    <3>4. x - l \in 1..d /\ x = l + (x - l)
      BY <3>2, <3>3
    <3> QED BY <3>1, <3>4 DEF l, d, Placed
  <2>2. 0 \in S
    <3>1. Len(R[0]) = 0 /\ x \in Nat /\ ~(x <= 0)
      BY <1>0, EmptySeq
    <3> QED BY <3>1
  <2>3. ASSUME NEW m \in S \cap Nat PROVE m + 1 \in S
    <3>1. m + 1 <= Len(buf) => m <= Len(buf)
      BY <1>0
    <3> QED BY <2>1, <3>1
  <2>4. Nat \subseteq S
    <3> HIDE DEF S
    <3> QED BY <2>2, <2>3, NatSetInduction
  <2>5. Len(buf) \in S /\ Len(R[Len(buf)]) \in Nat
    BY <1>0, <2>4, LenProperties
  <2> QED BY <1>0, <2>5
<1> QED BY <1>1, <1>2, <1>3, <1>4 DEF Extends, Placed

\* Where entry s[2] of cluster s[1] of the buffer comes to lie.
Position(R, s) == Len(R[s[1] - 1]) + s[2]

\* The entries keep their order: position and slot are two names of the same thing.
LEMMA Positions ==
    ASSUME disk \in Disk, buf \in Seq(Cluster), NEW R, IsRead(R, Len(buf)),
           NEW all, all = R[Len(buf)]
    PROVE  /\ \A s \in Slots(buf) : /\ Position(R, s) \in 1..Len(all)
                                    /\ all[Position(R, s)] = At(buf, s)
           /\ \A x \in 1..Len(all) : \E s \in Slots(buf) : Position(R, s) = x
           /\ \A r \in Slots(buf), s \in Slots(buf) : Before(r, s) <=> Position(R, r) < Position(R, s)
<1>1. /\ \A i \in 1..Len(buf) : Len(R[i]) = Len(R[i - 1]) + Len(Dents(i))
      /\ \A i \in 0..Len(buf), k \in 0..Len(buf) : i <= k => Len(R[i]) <= Len(R[k])
      /\ \A i \in 1..Len(buf) : \A j \in 1..Len(Dents(i)) : all[Len(R[i - 1]) + j] = Dents(i)[j]
      /\ \A x \in 1..Len(all) :
            \E i \in 1..Len(buf) : \E j \in 1..Len(Dents(i)) : x = Len(R[i - 1]) + j
  BY ReadParts
<1>2. /\ Len(buf) \in Nat
      /\ \A i \in 1..Len(buf) : Dents(i) \in Seq(Dirent)
      /\ \A i \in 0..Len(buf) : R[i] \in Seq(Dirent)
  BY ReadSteps
<1>3. /\ \A i \in 1..Len(buf) : Len(Dents(i)) \in Nat /\ DOMAIN Dents(i) = 1..Len(Dents(i))
      /\ \A i \in 0..Len(buf) : Len(R[i]) \in Nat
      /\ DOMAIN buf = 1..Len(buf)
  BY <1>2, LenProperties
<1>4. ASSUME NEW i \in 1..Len(buf), NEW j \in 1..Len(Dents(i))
      PROVE  /\ <<i, j>> \in Slots(buf) /\ At(buf, <<i, j>>) = Dents(i)[j]
             /\ Position(R, <<i, j>>) = Len(R[i - 1]) + j
  <2>1. i \in DOMAIN buf /\ j \in DOMAIN disk.dents[buf[i]]
    BY <1>3 DEF Dents
  <2> QED BY <2>1 DEF Slots, At, Position, Dents
<1>5. ASSUME NEW s \in Slots(buf)
      PROVE  /\ s[1] \in 1..Len(buf) /\ s[2] \in 1..Len(Dents(s[1])) /\ s = <<s[1], s[2]>>
             /\ Len(R[s[1] - 1]) \in Nat /\ Position(R, s) \in 1..Len(R[s[1]])
  <2>1. PICK i \in DOMAIN buf : \E j \in DOMAIN disk.dents[buf[i]] : s = <<i, j>>
    BY DEF Slots
  <2>0. PICK j \in DOMAIN disk.dents[buf[i]] : s = <<i, j>>
    BY <2>1
  <2>2. s[1] = i /\ s[2] = j
    BY <2>0
  <2>3. i \in 1..Len(buf) /\ i - 1 \in 0..Len(buf)
    BY <1>2, <1>3
  <2>4. j \in 1..Len(Dents(i))
    BY <1>3, <2>0, <2>3 DEF Dents
  <2>5. Len(R[i - 1]) \in Nat /\ Len(R[i]) = Len(R[i - 1]) + Len(Dents(i)) /\ Len(Dents(i)) \in Nat
    BY <1>1, <1>3, <2>3
  <2>6. Len(R[i - 1]) + j \in 1..Len(R[i])
    BY <2>4, <2>5
  <2> QED BY <2>0, <2>2, <2>3, <2>4, <2>5, <2>6 DEF Position
<1>6. ASSUME NEW s \in Slots(buf)
      PROVE  Position(R, s) \in 1..Len(all) /\ all[Position(R, s)] = At(buf, s)
  <2>1. s[1] \in 0..Len(buf) /\ Len(buf) \in 0..Len(buf) /\ s[1] <= Len(buf)
    BY <1>2, <1>5
  <2>2. Len(R[s[1]]) <= Len(all) /\ Len(R[s[1]]) \in Nat /\ Len(all) \in Nat
    BY <1>1, <1>3, <2>1
  <2>3. Position(R, s) \in 1..Len(all)
    BY <1>5, <2>2
  <2>4. all[Len(R[s[1] - 1]) + s[2]] = Dents(s[1])[s[2]]
    BY <1>1, <1>5
  <2> QED BY <2>3, <2>4 DEF Position, At, Dents
<1>7. ASSUME NEW x \in 1..Len(all) PROVE \E s \in Slots(buf) : Position(R, s) = x
  <2>1. PICK i \in 1..Len(buf) : \E j \in 1..Len(Dents(i)) : x = Len(R[i - 1]) + j
    BY <1>1
  <2> QED BY <1>4, <2>1
<1>8. ASSUME NEW r \in Slots(buf), NEW s \in Slots(buf), r[1] < s[1]
      PROVE  Position(R, r) < Position(R, s)
  <2>1. r[1] \in 0..Len(buf) /\ s[1] - 1 \in 0..Len(buf) /\ r[1] <= s[1] - 1
    BY <1>2, <1>5, <1>8
  <2>2. Len(R[r[1]]) <= Len(R[s[1] - 1]) /\ Len(R[r[1]]) \in Nat
    BY <1>1, <1>3, <2>1
  <2>3. Position(R, r) <= Len(R[r[1]]) /\ Position(R, r) \in Int
    BY <1>5, <2>2
  <2>4. Position(R, s) = Len(R[s[1] - 1]) + s[2] /\ s[2] \in Int /\ s[2] >= 1 /\ Len(R[s[1] - 1]) \in Nat
    <3>1. Len(Dents(s[1])) \in Nat
      BY <1>3, <1>5
    <3> QED BY <1>5, <3>1 DEF Position
  <2> QED BY <2>2, <2>3, <2>4
<1>9. ASSUME NEW r \in Slots(buf), NEW s \in Slots(buf), r[1] = s[1]
      PROVE  r[2] < s[2] <=> Position(R, r) < Position(R, s)
  <2>1. Len(Dents(r[1])) \in Nat /\ Len(Dents(s[1])) \in Nat
    BY <1>3, <1>5
  <2>2. r[2] \in Int /\ s[2] \in Int /\ Len(R[s[1] - 1]) \in Nat
    BY <1>5, <2>1
  <2> QED BY <1>9, <2>2 DEF Position
<1>10. ASSUME NEW r \in Slots(buf), NEW s \in Slots(buf)
       PROVE  Before(r, s) <=> Position(R, r) < Position(R, s)
  <2>1. r[1] \in Int /\ s[1] \in Int /\ Position(R, r) \in Int /\ Position(R, s) \in Int
    <3>1. r[1] \in 0..Len(buf) /\ s[1] \in 0..Len(buf)
      BY <1>2, <1>5
    <3>2. Len(R[r[1]]) \in Nat /\ Len(R[s[1]]) \in Nat
      BY <1>3, <3>1
    <3> QED BY <1>2, <1>5, <3>1, <3>2
  <2>2. CASE r[1] < s[1]
    BY <1>8, <2>2 DEF Before
  <2>3. CASE r[1] = s[1]
    BY <1>9, <2>1, <2>3 DEF Before
  <2>4. CASE s[1] < r[1]
    BY <1>8, <2>1, <2>4 DEF Before
  <2> QED BY <2>1, <2>2, <2>3, <2>4
<1> QED BY <1>6, <1>7, <1>10

\* get_dirents returns all that precedes the first end mark.
LEMMA DirentsParts ==
    ASSUME RawDirents \in Seq(Dirent)
    PROVE  \E k \in 0..Len(RawDirents) :
              /\ get_dirents \in Seq(Dirent) /\ Len(get_dirents) = k
              /\ \A x \in 1..k : get_dirents[x] = RawDirents[x] /\ RawDirents[x].kind # "end"
              /\ k < Len(RawDirents) => RawDirents[k + 1].kind = "end"
<1> DEFINE all == RawDirents
           IsLength(i) == /\ \A j \in 1..i : all[j].kind # "end"
                          /\ i < Len(all) => all[i + 1].kind = "end"
           k == CHOOSE i \in 0..Len(all) : IsLength(i)
           Ends == {i \in 1..Len(all) : all[i].kind = "end"}
<1>1. Len(all) \in Nat
  BY LenProperties
<1>2. \E i \in 0..Len(all) : IsLength(i)
  <2>1. CASE Ends = {}
    <3>1. Len(all) \in 0..Len(all) /\ IsLength(Len(all))
      BY <1>1, <2>1
    <3> QED BY <3>1
  <2>2. CASE Ends # {}
    <3>1. Ends \subseteq Nat
      BY <1>1
    <3>2. PICK e \in Ends : \A i \in Ends : e <= i
      <4> HIDE DEF Ends
      <4> QED BY <2>2, <3>1, LeastExists
    <3>3. e - 1 \in 0..Len(all) /\ (e - 1) + 1 = e /\ all[e].kind = "end"
      BY <1>1
    <3>4. ASSUME NEW j \in 1..(e - 1) PROVE all[j].kind # "end"
      BY <1>1, <3>2
    <3> QED BY <3>3, <3>4
  <2> QED BY <2>1, <2>2
<1>3. k \in 0..Len(all) /\ IsLength(k)
  BY <1>2, Zenon
<1>4. get_dirents = SubSeq(all, 1, k)
  BY Zenon DEF get_dirents
<1> HIDE DEF k
<1>5. /\ get_dirents \in Seq(Dirent) /\ Len(get_dirents) = k
      /\ \A x \in 1..k : get_dirents[x] = all[x]
  BY <1>1, <1>3, <1>4, SubSeqProperties
<1> QED BY <1>3, <1>5

\* The valid entries that get_dirents returns are those of the directory in the buffer that no
\* end mark hides.
LEMMA DirentsListed ==
    ASSUME disk \in Disk, buf \in Seq(Cluster), NEW ds, ds = get_dirents
    PROVE  ds \in Seq(Dirent) /\ Listing(buf) = {ds[i] : i \in {j \in 1..Len(ds) : Valid(ds[j])}}
<1> DEFINE all == RawDirents
           V == {j \in 1..Len(ds) : Valid(ds[j])}
           Seen == {t \in Slots(buf) : Valid(At(buf, t)) /\ ~Hidden(buf, t)}
<1>1. PICK R : IsRead(R, Len(buf)) /\ all = R[Len(buf)]
  BY RawIsRead
<1>2. all \in Seq(Dirent) /\ Len(all) \in Nat
  <2>1. Len(buf) \in 0..Len(buf)
    BY LenProperties
  <2>2. all \in Seq(Dirent)
    BY <1>1, <2>1, ReadSteps
  <2> QED BY <2>2, LenProperties
<1>3. PICK k \in 0..Len(all) :
         /\ ds \in Seq(Dirent) /\ Len(ds) = k
         /\ \A x \in 1..k : ds[x] = all[x] /\ all[x].kind # "end"
         /\ k < Len(all) => all[k + 1].kind = "end"
  BY <1>2, DirentsParts
<1>4. /\ \A s \in Slots(buf) : Position(R, s) \in 1..Len(all) /\ all[Position(R, s)] = At(buf, s)
      /\ \A x \in 1..Len(all) : \E s \in Slots(buf) : Position(R, s) = x
      /\ \A r \in Slots(buf), s \in Slots(buf) : Before(r, s) <=> Position(R, r) < Position(R, s)
  BY <1>1, Positions
<1> HIDE DEF all
<1>5. ASSUME NEW x \in V PROVE \E s \in Seen : At(buf, s) = ds[x]
  <2>1. x \in 1..k /\ x \in 1..Len(all) /\ Valid(ds[x]) /\ ds[x] = all[x]
    BY <1>2, <1>3
  <2>2. PICK s \in Slots(buf) : Position(R, s) = x
    BY <1>4, <2>1
  <2>3. ASSUME NEW e \in Slots(buf), At(buf, e).kind = "end", Before(e, s) PROVE FALSE
    <3>1. Position(R, e) < x /\ Position(R, e) \in 1..Len(all) /\ all[Position(R, e)].kind = "end"
      BY <1>4, <2>2, <2>3
    <3>2. Position(R, e) \in 1..k
      BY <1>2, <2>1, <3>1
    <3> QED BY <1>3, <3>1, <3>2
  <2>4. ~Hidden(buf, s)
    BY <2>3 DEF Hidden
  <2>5. At(buf, s) = ds[x]
    BY <1>4, <2>1, <2>2
  <2> QED BY <2>1, <2>2, <2>4, <2>5
<1>6. ASSUME NEW s \in Seen PROVE \E x \in V : At(buf, s) = ds[x]
  <2>1. PICK x \in 1..Len(all) : x = Position(R, s) /\ all[x] = At(buf, s)
    BY <1>4
  <2>2. CASE x \in 1..k
    <3>1. ds[x] = At(buf, s) /\ x \in 1..Len(ds)
      BY <1>3, <2>1, <2>2
    <3> QED BY <3>1
  <2>3. CASE x \notin 1..k
    <3>1. k < Len(all) /\ k + 1 \in 1..Len(all) /\ k + 1 <= x
      BY <1>2, <2>3
    <3>2. all[k + 1].kind = "end"
      BY <1>3, <3>1
    <3>3. k + 1 # x
      BY <2>1, <3>2 DEF Valid
    <3>4. PICK e \in Slots(buf) : Position(R, e) = k + 1
      BY <1>4, <3>1
    <3>5. At(buf, e).kind = "end" /\ Before(e, s)
      BY <1>2, <1>4, <2>1, <3>1, <3>2, <3>3, <3>4
    <3>6. Hidden(buf, s)
      BY <3>5 DEF Hidden
    <3> QED BY <3>6
  <2> QED BY <2>2, <2>3
<1>7. Listing(buf) = {At(buf, s) : s \in Seen}
  BY DEF Listing, Valid
<1> HIDE DEF V, Seen
<1>8. Listing(buf) = {ds[i] : i \in V}
  BY <1>5, <1>6, <1>7
<1> QED BY <1>3, <1>8 DEF V

\* find_dirent_with_name returns a valid entry of that name, if there is one.
LEMMA FindFinds ==
    ASSUME NEW ds \in Seq(Dirent)
    PROVE  LET i == find_dirent_with_name(ds) IN
           /\ i \in 0..Len(ds)
           /\ i # 0 => i \in 1..Len(ds) /\ Valid(ds[i]) /\ ds[i].name = want
           /\ i = 0 => \A j \in 1..Len(ds) : ~(Valid(ds[j]) /\ ds[j].name = want)
<1> DEFINE found == {i \in 1..Len(ds) : Valid(ds[i]) /\ ds[i].name = want}
           first == CHOOSE i \in found : \A j \in found : i <= j
<1>1. Len(ds) \in Nat /\ found \subseteq Nat
  BY LenProperties
<1>2. find_dirent_with_name(ds) = IF found = {} THEN 0 ELSE first
  BY Zenon DEF find_dirent_with_name
<1>3. CASE found = {}
  <2>1. find_dirent_with_name(ds) = 0
    BY <1>2, <1>3
  <2> QED BY <1>1, <1>3, <2>1
<1>4. CASE found # {}
  <2>1. \E i \in found : \A j \in found : i <= j
    <3> HIDE DEF found
    <3> QED BY <1>1, <1>4, LeastExists
  <2>2. first \in found
    BY <2>1, Zenon
  <2>3. find_dirent_with_name(ds) = first
    BY <1>2, <1>4
  <2> HIDE DEF first
  <2> QED BY <1>1, <2>2, <2>3
<1> QED BY <1>3, <1>4

\* fat32_readdir returns the valid entries, and no other.
LEMMA LiveEntries ==
    ASSUME NEW ds \in Seq(Dirent)
    PROVE  /\ Live(ds) \in Seq(Dirent)
           /\ {Live(ds)[i] : i \in DOMAIN Live(ds)} = {ds[i] : i \in {j \in 1..Len(ds) : Valid(ds[j])}}
<1> DEFINE T == Seq(Dirent)
           G == [x \in T \X Nat |-> IF x[2] \in 1..Len(ds) /\ Valid(ds[x[2]])
                                    THEN Append(x[1], ds[x[2]]) ELSE x[1]]
           out == CHOOSE f : f = [i \in 0..Len(ds) |-> IF i = 0 THEN <<>> ELSE
                                     IF Valid(ds[i]) THEN Append(f[i - 1], ds[i]) ELSE f[i - 1]]
<1>1. Len(ds) \in Nat /\ <<>> \in T /\ \A i \in 1..Len(ds) : ds[i] \in Dirent
  BY LenProperties, EmptySeq, ElementOfSeq
<1>2. G \in [T \X Nat -> T]
  BY <1>1, AppendProperties
<1>3. PICK f \in [0..Len(ds) -> T] : Steps(f, <<>>, G, Len(ds))
  <2>1. Len(ds) \in Nat /\ <<>> \in T
    BY <1>1
  <2> HIDE DEF G, T
  <2> QED BY <1>2, <2>1, StepsExist
<1>4. ASSUME NEW i \in 0..Len(ds)
      PROVE  f[i] = IF i = 0 THEN <<>> ELSE
                        IF Valid(ds[i]) THEN Append(f[i - 1], ds[i]) ELSE f[i - 1]
  <2> SUFFICES ASSUME i # 0
               PROVE  f[i] = IF Valid(ds[i]) THEN Append(f[i - 1], ds[i]) ELSE f[i - 1]
    BY <1>3 DEF Steps
  <2>1. i \in 1..Len(ds) /\ i \in Nat /\ i - 1 \in 0..Len(ds)
    BY <1>1
  <2>2. f[i] = G[<<f[i - 1], i>>] /\ <<f[i - 1], i>> \in T \X Nat
    BY <1>3, <2>1 DEF Steps
  <2> QED BY <2>1, <2>2
<1>5. f = [i \in 0..Len(ds) |-> IF i = 0 THEN <<>> ELSE
                IF Valid(ds[i]) THEN Append(f[i - 1], ds[i]) ELSE f[i - 1]]
  BY <1>3, <1>4
<1>6. out = [i \in 0..Len(ds) |-> IF i = 0 THEN <<>> ELSE
                IF Valid(ds[i]) THEN Append(out[i - 1], ds[i]) ELSE out[i - 1]]
  BY <1>5, Zenon
<1>7. Live(ds) = out[Len(ds)]
  BY Zenon DEF Live
<1> HIDE DEF out
<1> DEFINE Collected(o, m) ==
               /\ o \in Seq(Dirent)
               /\ \A x \in 1..Len(o) : \E i \in 1..m : Valid(ds[i]) /\ o[x] = ds[i]
               /\ \A i \in 1..m : Valid(ds[i]) => \E x \in 1..Len(o) : o[x] = ds[i]
           S == {m \in Nat : m <= Len(ds) => Collected(out[m], m)}
<1>8. 0 \in S
  <2>1. out[0] = <<>>
    BY <1>1, <1>6
  <2>2. out[0] \in Seq(Dirent) /\ Len(out[0]) = 0
    BY <1>1, <2>1, EmptySeq
  <2>3. Collected(out[0], 0)
    BY <2>2
  <2> QED BY <2>3
<1>9. ASSUME NEW m \in Nat, m + 1 <= Len(ds), NEW o, o = out[m], Collected(o, m),
             NEW o1, o1 = out[m + 1]
      PROVE  Collected(o1, m + 1)
  <2>1. /\ m + 1 \in 0..Len(ds) /\ m + 1 # 0 /\ (m + 1) - 1 = m /\ m + 1 \in 1..Len(ds)
        /\ \A i \in 1..m + 1 : i \in 1..m \/ i = m + 1
        /\ \A i \in 1..m : i \in 1..m + 1
    BY <1>1, <1>9
  <2>2. o1 = IF Valid(ds[m + 1]) THEN Append(o, ds[m + 1]) ELSE o
    <3>1. out[m + 1] = IF Valid(ds[m + 1]) THEN Append(out[(m + 1) - 1], ds[m + 1])
                       ELSE out[(m + 1) - 1]
      BY <1>6, <2>1, Zenon
    <3> QED BY <1>9, <2>1, <3>1, Zenon
  <2>3. CASE ~Valid(ds[m + 1])
    BY <1>9, <2>1, <2>2, <2>3
  <2>4. CASE Valid(ds[m + 1])
    <3>1. /\ o1 \in Seq(Dirent) /\ Len(o) \in Nat /\ Len(o1) = Len(o) + 1
          /\ \A x \in 1..Len(o) : o1[x] = o[x]
          /\ o1[Len(o) + 1] = ds[m + 1]
      BY <1>1, <1>9, <2>1, <2>2, <2>4, AppendProperties, LenProperties
    <3>2. ASSUME NEW x \in 1..Len(o1)
          PROVE  \E i \in 1..m + 1 : Valid(ds[i]) /\ o1[x] = ds[i]
      <4>1. x \in 1..Len(o) \/ x = Len(o) + 1
        BY <3>1
      <4>2. CASE x \in 1..Len(o)
        <5>1. PICK i \in 1..m : Valid(ds[i]) /\ o[x] = ds[i]
          BY <1>9, <4>2
        <5> QED BY <2>1, <3>1, <4>2, <5>1
      <4>3. CASE x = Len(o) + 1
        <5>1. m + 1 \in 1..m + 1 /\ o1[x] = ds[m + 1]
          BY <3>1, <4>3
        <5> QED BY <2>4, <5>1
      <4> QED BY <4>1, <4>2, <4>3
    <3>3. ASSUME NEW i \in 1..m + 1, Valid(ds[i])
          PROVE  \E x \in 1..Len(o1) : o1[x] = ds[i]
      <4>1. Len(o) + 1 \in 1..Len(o1) /\ \A x \in 1..Len(o) : x \in 1..Len(o1)
        BY <3>1
      <4>2. CASE i = m + 1
        BY <3>1, <4>1, <4>2
      <4>3. CASE i \in 1..m
        <5>1. PICK x \in 1..Len(o) : o[x] = ds[i]
          BY <1>9, <3>3, <4>3
        <5> QED BY <3>1, <4>1, <5>1
      <4> QED BY <2>1, <4>2, <4>3
    <3> QED BY <3>1, <3>2, <3>3
  <2> QED BY <2>3, <2>4
<1>10. ASSUME NEW m \in S \cap Nat PROVE m + 1 \in S
  <2>1. m + 1 <= Len(ds) => m <= Len(ds)
    BY <1>1
  <2> HIDE DEF Collected
  <2> QED BY <1>9, <2>1
<1>11. Nat \subseteq S
  <2> HIDE DEF S
  <2> QED BY <1>8, <1>10, NatSetInduction
<1>12. Collected(Live(ds), Len(ds))
  BY <1>1, <1>7, <1>11
<1>13. DOMAIN Live(ds) = 1..Len(Live(ds))
  BY <1>12, LenProperties
<1> DEFINE result == Live(ds)
<1>14. result \in Seq(Dirent) /\ DOMAIN result = 1..Len(result) /\ Collected(result, Len(ds))
  BY <1>12, <1>13
<1> HIDE DEF result
<1>15. {result[i] : i \in DOMAIN result} = {ds[i] : i \in {j \in 1..Len(ds) : Valid(ds[j])}}
  <2> DEFINE V == {j \in 1..Len(ds) : Valid(ds[j])}
  <2>1. ASSUME NEW x \in DOMAIN result PROVE \E i \in V : result[x] = ds[i]
    BY <1>14
  <2>2. ASSUME NEW i \in V PROVE \E x \in DOMAIN result : result[x] = ds[i]
    BY <1>14
  <2> HIDE DEF V
  <2>3. {result[i] : i \in DOMAIN result} = {ds[i] : i \in V}
    BY <2>1, <2>2
  <2> QED BY <2>3 DEF V
<1> QED BY <1>14, <1>15 DEF result

\* The first k clusters of the chain from Start are p, each but the last of them is
\* followed by another one, and so is the last if more is.
Chain(p, k, more) ==
    /\ k > 0 => p[1] = Start
    /\ \A i \in 1..(k - 1) : Type(p[i]) = "USED" /\ p[i + 1] = disk.fat[p[i]]
    /\ k > 0 => Type(p[k]) = (IF more THEN "USED" ELSE "LAST")

\* get_cluster_chain_length has counted n clusters, and is at the one after them.
Counted ==
    \E p \in [1..n -> Cluster] :
        Chain(p, n, TRUE) /\ cluster = (IF n = 0 THEN Start ELSE disk.fat[p[n]])

\* read_cluster_chain has a chain of exactly n clusters before it: it has read the first of
\* them, and is at the one after those.
Reading ==
    /\ Start # 0 /\ Len(buf) < n /\ alloc = n % Wrap
    /\ \E p \in [1..n -> Cluster] :
          /\ Chain(p, n, FALSE) /\ cluster = p[Len(buf) + 1]
          /\ \A i \in 1..Len(buf) : buf[i] = p[i] /\ buf[i] >= 2

\* The buffer holds the whole chain.
Whole ==
    IF Start = 0 THEN buf = <<>>
    ELSE Len(buf) > 0 /\ Chain(buf, Len(buf), FALSE) /\ \A i \in 1..Len(buf) : buf[i] >= 2

\* The chain has 2^32 bytes or more.
Wrapped ==
    Start # 0 /\ n >= Wrap /\ \E p \in [1..n -> Cluster] : Chain(p, n, FALSE)

\* A directory is not read if its size has wrapped to 0.
Skipped == file = <<>> /\ buf = <<>> /\ Wrapped

WalkInv ==
    /\ n \in Nat /\ alloc \in Nat /\ buf \in Seq(Cluster)
    /\ pc = "length" => Counted
    /\ pc = "read" => Reading
    /\ pc = "scan" => Len(buf) = alloc /\ alloc < Wrap /\ (Whole \/ Skipped)
    /\ pc = "overrun" => Start # 1 /\ Wrapped

----------------------------------------------------------------------------
\* No walk is going on at first.
LEMMA InitWalk == Init => WalkInv
BY EmptySeq DEF Init, WalkInv

\* A chain stays one while the disk and the start of the walk stay.
LEMMA ChainKept ==
    ASSUME NEW p, NEW k, NEW more \in BOOLEAN, Chain(p, k, more), disk' = disk, Start' = Start
    PROVE  Chain(p, k, more)'
BY DEF Chain, Type

\* What reads the same is the same chain.
LEMMA ChainSame ==
    ASSUME NEW p, NEW r, NEW k \in Nat, NEW more \in BOOLEAN, Chain(p, k, more),
           \A i \in 1..k : r[i] = p[i]
    PROVE  Chain(r, k, more)
<1>1. ASSUME NEW i \in 1..(k - 1) PROVE Type(r[i]) = "USED" /\ r[i + 1] = disk.fat[r[i]]
  <2>1. i \in 1..k /\ i + 1 \in 1..k
    OBVIOUS
  <2> QED BY <2>1 DEF Chain
<1>2. k > 0 => 1 \in 1..k /\ k \in 1..k
  OBVIOUS
<1> QED BY <1>1, <1>2 DEF Chain

\* The size of a buffer is computed in 32 bits.
LEMMA WrapsDown ==
    ASSUME NEW k \in Nat
    PROVE  /\ k % Wrap \in Nat /\ k % Wrap < Wrap /\ k % Wrap <= k
           /\ k % Wrap = k \/ k >= Wrap
<1>1. Wrap \in Nat /\ Wrap > 1
  BY DiskAssumption
<1>2. k % Wrap \in 0..(Wrap - 1) /\ (k < Wrap => k % Wrap = k)
  BY <1>1
<1> QED BY <1>1, <1>2

\* A routine begins its walk at the first cluster.
LEMMA BeginCount ==
    ASSUME n' = 0, cluster' = Start', alloc' \in Nat, buf' \in Seq(Cluster), pc' = "length"
    PROVE  WalkInv'
<1>1. <<>> \in [1..0 -> Cluster] /\ 1..0 = {}
  BY EmptySeq
<1>2. PICK p \in [1..0 -> Cluster] : TRUE
  BY <1>1
<1>3. Chain(p, 0, TRUE)'
  BY DEF Chain
<1>4. Counted'
  BY <1>2, <1>3 DEF Counted
<1> QED BY <1>4 DEF WalkInv

\* A routine of the driver is called.
LEMMA CallWalk == ASSUME WalkInv, Call PROVE WalkInv'
<1>1. Start' = dir'
  BY DEF Call, Start
<1> QED BY <1>1, BeginCount, EmptySeq DEF Call

\* The file is found in its directory.
LEMMA FoundWalk == ASSUME WalkInv, ReadFound PROVE WalkInv'
<1>1. PICK d : file' = <<d>> /\ cluster' = d.start
  BY DEF ReadFound
<1>2. Start' = d.start
  BY <1>1 DEF Start
<1> QED BY <1>1, <1>2, BeginCount DEF ReadFound, WalkInv

\* The chain is empty.
LEMMA ZeroWalk == ASSUME WalkInv, LengthZero PROVE WalkInv'
<1>1. /\ Start' = Start /\ Start = 0 /\ buf' = <<>> /\ n' = 0 /\ alloc' = 0 % Wrap
      /\ pc' = "scan"
  BY DEF LengthZero, Allocate, Start
<1>2. alloc' = 0 /\ alloc' < Wrap
  BY <1>1, WrapsDown
<1>3. Whole'
  BY <1>1 DEF Whole
<1> QED BY <1>1, <1>2, <1>3, EmptySeq DEF WalkInv

\* The count is one more, and the walk one further.
LEMMA NextWalk == ASSUME WalkInv, LengthNext PROVE WalkInv'
<1>1. PICK p \in [1..n -> Cluster] :
         Chain(p, n, TRUE) /\ cluster = (IF n = 0 THEN Start ELSE disk.fat[p[n]])
  BY DEF LengthNext, WalkInv, Counted
<1>2. /\ n \in Nat /\ n' = n + 1 /\ cluster \in Cluster /\ Type(cluster) = "USED"
      /\ cluster' = disk.fat[cluster] /\ Start' = Start
  BY DEF LengthNext, WalkInv, Start
<1>3. PICK k \in Nat : k = n + 1
  BY <1>2
<1>4. PICK r \in [1..k -> Cluster] : r[n + 1] = cluster /\ \A i \in 1..n : r[i] = p[i]
  <2> DEFINE longer == [i \in 1..k |-> IF i = k THEN cluster ELSE p[i]]
  <2>1. ASSUME NEW i \in 1..k PROVE (IF i = k THEN cluster ELSE p[i]) \in Cluster
    <3>1. i # k => i \in 1..n
      BY <1>2, <1>3
    <3>2. i # k => p[i] \in Cluster
      BY <3>1
    <3> QED BY <1>2, <3>2
  <2>2. longer \in [1..k -> Cluster]
    BY <2>1
  <2>3. n + 1 \in 1..k /\ n + 1 = k /\ \A i \in 1..n : i \in 1..k /\ i # k
    BY <1>2, <1>3
  <2>4. longer[n + 1] = cluster /\ \A i \in 1..n : longer[i] = p[i]
    BY <2>3
  <2> HIDE DEF longer
  <2> QED BY <2>2, <2>4
<1>5. Chain(r, n + 1, TRUE)
  <2>1. r[1] = Start
    BY <1>1, <1>2, <1>4 DEF Chain
  <2>2. ASSUME NEW i \in 1..n PROVE Type(r[i]) = "USED" /\ r[i + 1] = disk.fat[r[i]]
    BY <1>1, <1>2, <1>4 DEF Chain
  <2> QED BY <1>2, <1>4, <2>1, <2>2 DEF Chain
<1>6. Counted'
  <2>1. disk' = disk /\ k > 0 /\ n' = k /\ r \in [1..k -> Cluster] /\ cluster' = disk.fat[r[k]]
    BY <1>2, <1>4, <1>3 DEF LengthNext
  <2>2. Chain(r, k, TRUE)'
    BY <1>2, <1>5, <1>3, <2>1, ChainKept
  <2> QED BY <2>1, <2>2 DEF Counted, Chain
<1> QED BY <1>2, <1>6 DEF LengthNext, WalkInv

\* The last cluster is found: as many as the chain has are allocated.
LEMMA LastWalk == ASSUME WalkInv, LengthLast PROVE WalkInv'
<1>1. PICK p \in [1..n -> Cluster] :
         Chain(p, n, TRUE) /\ cluster = (IF n = 0 THEN Start ELSE disk.fat[p[n]])
  BY DEF LengthLast, WalkInv, Counted
<1>2. /\ n \in Nat /\ cluster \in Cluster /\ Type(cluster) = "LAST"
      /\ alloc' = (n + 1) % Wrap /\ n' = n + 1 /\ buf' = <<>> /\ cluster' = Start
      /\ Start' = Start /\ disk' = disk /\ file' = file /\ Start # 0
      /\ pc' = "read" \/ (pc' = "scan" /\ file = <<>> /\ alloc' = 0)
  BY DEF LengthLast, Allocate, WalkInv, Start
<1>3. PICK k \in Nat : k = n + 1
  BY <1>2
<1>4. PICK r \in [1..k -> Cluster] : r[n + 1] = cluster /\ \A i \in 1..n : r[i] = p[i]
  <2> DEFINE longer == [i \in 1..k |-> IF i = k THEN cluster ELSE p[i]]
  <2>1. ASSUME NEW i \in 1..k PROVE (IF i = k THEN cluster ELSE p[i]) \in Cluster
    <3>1. i # k => i \in 1..n
      BY <1>2, <1>3
    <3>2. i # k => p[i] \in Cluster
      BY <3>1
    <3> QED BY <1>2, <3>2
  <2>2. longer \in [1..k -> Cluster]
    BY <2>1
  <2>3. n + 1 \in 1..k /\ n + 1 = k /\ \A i \in 1..n : i \in 1..k /\ i # k
    BY <1>2, <1>3
  <2>4. longer[n + 1] = cluster /\ \A i \in 1..n : longer[i] = p[i]
    BY <2>3
  <2> HIDE DEF longer
  <2> QED BY <2>2, <2>4
<1>5. r[1] = Start
  BY <1>1, <1>2, <1>4 DEF Chain
<1>6. ASSUME NEW i \in 1..n PROVE Type(r[i]) = "USED" /\ r[i + 1] = disk.fat[r[i]]
  <2>1. n \in Nat /\ n # 0
    BY <1>2
  <2>2. r[i] = p[i]
    BY <1>4
  <2>3. CASE i = n
    BY <1>1, <1>4, <2>1, <2>2, <2>3 DEF Chain
  <2>4. CASE i # n
    <3>1. i \in 1..(n - 1) /\ i + 1 \in 1..n
      BY <2>1, <2>4
    <3> QED BY <1>1, <1>4, <2>2, <3>1 DEF Chain
  <2> QED BY <2>3, <2>4
<1>7. Chain(r, n + 1, FALSE)
  BY <1>2, <1>4, <1>5, <1>6 DEF Chain
<1>8. Chain(r, k, FALSE)'
  BY <1>2, <1>7, <1>3, ChainKept
<1>9. CASE pc' = "read"
  <2>1. /\ n' = k /\ alloc' = k % Wrap /\ r \in [1..k -> Cluster] /\ Len(buf') = 0 /\ 0 < k
        /\ cluster' = r[Len(buf') + 1] /\ Start' # 0
    BY <1>2, <1>4, <1>5, <1>3, EmptySeq
  <2>2. 1..Len(buf') = {}
    BY <2>1
  <2>3. \E p0 \in [1..k -> Cluster] :
           /\ Chain(p0, k, FALSE)' /\ cluster' = p0[Len(buf') + 1]
           /\ \A i \in 1..Len(buf') : buf'[i] = p0[i] /\ buf'[i] >= 2
    BY <1>8, <2>1, <2>2
  <2>4. Reading'
    BY <2>1, <2>3 DEF Reading
  <2> QED BY <1>2, <1>3, <1>9, <2>1, <2>4, EmptySeq, WrapsDown DEF WalkInv
<1>10. CASE pc' = "scan" /\ file = <<>> /\ alloc' = 0
  <2>1. k >= Wrap /\ 0 < Wrap
    BY <1>2, <1>3, <1>10, WrapsDown
  <2>2. Wrapped'
    BY <1>2, <1>3, <1>8, <2>1 DEF Wrapped
  <2>3. Skipped'
    BY <1>2, <1>10, <2>2 DEF Skipped
  <2> QED BY <1>2, <1>10, <2>1, <2>3, EmptySeq DEF WalkInv
<1> QED BY <1>2, <1>9, <1>10

\* One cluster is read: the second walk has not come further than the first.
LEMMA ReadWalk == ASSUME WalkInv, ReadCluster PROVE WalkInv'
<1>1. PICK p \in [1..n -> Cluster] :
         /\ Chain(p, n, FALSE) /\ cluster = p[Len(buf) + 1]
         /\ \A i \in 1..Len(buf) : buf[i] = p[i] /\ buf[i] >= 2
  BY DEF ReadCluster, WalkInv, Reading
<1> DEFINE k == Len(buf) + 1
<1>2. /\ n \in Nat /\ alloc \in Nat /\ k \in 1..n /\ buf' \in Seq(Cluster) /\ Len(buf') = k
      /\ k <= alloc /\ alloc = n % Wrap
  BY AppendProperties, LenProperties DEF ReadCluster, WalkInv, Reading
<1>3. /\ alloc' = alloc /\ n' = n /\ disk' = disk /\ Start' = Start
      /\ Start # 0 /\ cluster >= 2
  BY DEF ReadCluster, Start, WalkInv, Reading
<1>7. ASSUME NEW i \in 1..k PROVE buf'[i] = p[i] /\ buf'[i] >= 2
  <2>1. Len(buf) \in Nat /\ buf \in Seq(Cluster) /\ cluster \in Cluster /\ buf' = Append(buf, cluster)
    BY LenProperties DEF WalkInv, ReadCluster
  <2>2. CASE i = k
    <3>1. buf'[k] = cluster
      BY <2>1, AppendProperties
    <3> QED BY <1>1, <1>3, <2>2, <3>1
  <2>3. CASE i \in 1..Len(buf)
    <3>1. buf'[i] = buf[i]
      BY <2>1, <2>3, AppendProperties
    <3> QED BY <1>1, <2>3, <3>1
  <2> QED BY <2>1, <2>2, <2>3
<1> HIDE DEF k
<1>4. Type(p[k]) = (IF k = n THEN "LAST" ELSE "USED")
  BY <1>1, <1>2 DEF Chain
<1>5. CASE k = n
  <2>1. pc' = "scan"
    BY <1>1, <1>4, <1>5 DEF ReadCluster, k
  <2>2. PICK a \in Nat : a = n /\ a > 0
    BY <1>2
  <2>3. Chain(buf, a, FALSE)'
    <3>1. PICK b : b = buf'
      OBVIOUS
    <3>2. Chain(b, a, FALSE)
      BY <1>1, <1>5, <1>7, <2>2, <3>1, ChainSame
    <3>3. Chain(b, a, FALSE)'
      BY <1>3, <3>2, ChainKept
    <3> QED BY <3>1, <3>3 DEF Chain
  <2>4. Whole'
    BY <1>2, <1>3, <1>5, <1>7, <2>2, <2>3 DEF Whole
  <2>5. Len(buf') = alloc /\ alloc < Wrap
    BY <1>2, <1>5, WrapsDown
  <2> QED BY <1>2, <1>3, <2>1, <2>4, <2>5 DEF WalkInv
<1>6. CASE k # n
  <2>1. pc' = "read" /\ cluster' = disk.fat[p[k]]
    BY <1>1, <1>4, <1>6 DEF ReadCluster, k
  <2>2. k \in 1..(n - 1)
    BY <1>2, <1>6
  <2>3. cluster' = p[k + 1] /\ k < n
    <3>1. p[k + 1] = disk.fat[p[k]]
      BY <1>1, <2>2 DEF Chain
    <3> QED BY <1>2, <2>1, <2>2, <3>1
  <2>4. PICK a \in Nat : a = n
    BY <1>2
  <2>5. Chain(p, a, FALSE)'
    BY <1>1, <1>3, <2>4, ChainKept
  <2>6. Reading'
    BY <1>2, <1>3, <1>7, <2>3, <2>4, <2>5 DEF Reading
  <2> QED BY <1>2, <1>3, <2>1, <2>6 DEF WalkInv
<1> QED BY <1>5, <1>6

\* The room in the buffer ends before the chain does: its size has wrapped.
LEMMA OverrunWalk == ASSUME WalkInv, Overrun PROVE WalkInv'
<1>1. PICK p \in [1..n -> Cluster] :
         /\ Chain(p, n, FALSE) /\ cluster = p[Len(buf) + 1]
         /\ \A i \in 1..Len(buf) : buf[i] = p[i] /\ buf[i] >= 2
  BY DEF Overrun, WalkInv, Reading
<1>2. /\ n \in Nat /\ alloc \in Nat /\ Len(buf) \in Nat /\ Len(buf) < n /\ alloc = n % Wrap
      /\ alloc <= Len(buf) /\ cluster >= 2 /\ Start # 0
  BY LenProperties DEF Overrun, WalkInv, Reading
<1>3. n >= Wrap
  BY <1>2, WrapsDown
<1>4. UNCHANGED <<disk, dir, file, n, alloc, buf>> /\ pc' = "overrun"
  BY DEF Overrun, Stop
<1>5. Start # 1
  <2>1. p[1] = Start
    BY <1>1, <1>2 DEF Chain
  <2>2. p[1] >= 2
    <3>1. CASE Len(buf) = 0
      BY <1>1, <1>2, <3>1
    <3>2. CASE Len(buf) # 0
      <4>1. 1 \in 1..Len(buf)
        BY <1>2, <3>2
      <4> QED BY <1>1, <4>1
    <3> QED BY <3>1, <3>2
  <2> QED BY <2>1, <2>2
<1>6. Wrapped
  BY <1>1, <1>2, <1>3 DEF Wrapped
<1>7. Start' = Start /\ Wrapped'
  BY <1>4, <1>6 DEF Wrapped, Chain, Start, Type
<1> QED BY <1>4, <1>5, <1>7 DEF WalkInv

\* No other step is part of a walk.
LEMMA ElseWalk ==
    ASSUME WalkInv, UNCHANGED <<n, alloc, buf>>, pc' \in {"idle", "halted", "failed"}
    PROVE  WalkInv'
BY DEF WalkInv

\* Every step keeps the two walks together.
LEMMA NextInv == ASSUME WalkInv, [Next]_vars PROVE WalkInv'
<1>1. CASE fat32_mk \/ UNCHANGED vars
  <2>1. UNCHANGED <<disk, pc, file, dir, cluster, n, alloc, buf>>
    BY <1>1 DEF fat32_mk, vars
  <2>2. Counted => Counted'
    BY <2>1 DEF Counted, Chain, Start, Type
  <2>3. Reading => Reading'
    BY <2>1 DEF Reading, Chain, Start, Type
  <2>4. Whole => Whole'
    BY <2>1 DEF Whole, Chain, Start, Type
  <2>5. Start' = Start /\ (Wrapped => Wrapped')
    BY <2>1 DEF Wrapped, Chain, Start, Type
  <2>6. Skipped => Skipped'
    BY <2>1, <2>5 DEF Skipped
  <2> QED BY <2>1, <2>2, <2>3, <2>4, <2>5, <2>6 DEF WalkInv
<1>2. CASE LengthAssert \/ ReadAssert \/ Fail
  BY <1>2, ElseWalk DEF LengthAssert, ReadAssert, Fail, Stop
<1>3. CASE ReturnDirents \/ ReturnDirent \/ ReturnEmpty \/ ReturnFile
  BY <1>3, ElseWalk DEF ReturnDirents, ReturnDirent, ReturnEmpty, ReturnFile, Return
<1> QED BY <1>1, <1>2, <1>3, CallWalk, FoundWalk, ZeroWalk, NextWalk, LastWalk, ReadWalk,
        OverrunWalk DEF Next, Step, Length, Scan

\* The two walks agree in every reachable state.
LEMMA Walks == Spec => []WalkInv
BY InitWalk, NextInv, PTL DEF Spec

----------------------------------------------------------------------------
(* What the calls return.                                                  *)

\* What the driver takes from the table for USED and LAST is what the format says.
LEMMA TypeSays ==
    ASSUME disk \in Disk, NEW c \in Cluster
    PROVE  /\ disk.fat[c] \in Nat /\ Low(c) \in 0..(Hi - 1)
           /\ disk.fat[c] < Hi => Low(c) = disk.fat[c]
           /\ Type(c) = "USED" <=> Used(c)
           /\ Type(c) = "LAST" <=> Low(c) >= Hi - 8
<1>1. disk.fat[c] \in Nat /\ Hi \in Nat /\ Hi > 17
  BY DiskAssumption DEF Disk
<1>2. Low(c) \in 0..(Hi - 1) /\ (disk.fat[c] < Hi => Low(c) = disk.fat[c])
  BY <1>1 DEF Low
<1> DEFINE low == disk.fat[c] % Hi
<1>3. low = Low(c) /\ low \in Int /\ low >= 0 /\ low < Hi
  BY <1>1, <1>2 DEF Low
<1> HIDE DEF low
<1>4. Type(c) = CASE low = 0 -> "FREE"
                  [] low = 1 -> "RESERVED"
                  [] low \in 2..(Hi - 17) -> "USED"
                  [] low \in (Hi - 16)..(Hi - 10) -> "panic"
                  [] low = Hi - 9 -> "BAD"
                  [] OTHER -> "LAST"
  BY DEF Type, fat32_fat_entry_type, low
<1> DEFINE free == low = 0
           reserved == low = 1
           used == low \in 2..(Hi - 17)
           impossible == low \in (Hi - 16)..(Hi - 10)
           bad == low = Hi - 9
<1>5. Type(c) = CASE free -> "FREE" [] reserved -> "RESERVED" [] used -> "USED"
                  [] impossible -> "panic" [] bad -> "BAD" [] OTHER -> "LAST"
  BY <1>4
<1>6. /\ used => ~free /\ ~reserved /\ ~impossible /\ ~bad /\ ~(low >= Hi - 8)
      /\ low >= Hi - 8 => ~free /\ ~reserved /\ ~used /\ ~impossible /\ ~bad
      /\ free \/ reserved \/ used \/ impossible \/ bad \/ low >= Hi - 8
      /\ free => ~reserved /\ ~impossible /\ ~bad
      /\ reserved => ~impossible /\ ~bad
      /\ impossible => ~bad
  BY <1>1, <1>3
<1> HIDE DEF free, reserved, used, impossible, bad
<1>7. used => Type(c) = "USED"
  BY <1>5, <1>6
<1>8. low >= Hi - 8 => Type(c) = "LAST"
  BY <1>5, <1>6
<1>10. free \/ reserved \/ impossible \/ bad => Type(c) \notin {"USED", "LAST"}
  BY <1>5, <1>6
<1>11. Type(c) = "USED" <=> used
  BY <1>6, <1>7, <1>8, <1>10
<1>9. Type(c) = "LAST" <=> low >= Hi - 8
  BY <1>6, <1>7, <1>8, <1>10
<1> QED BY <1>1, <1>2, <1>3, <1>11, <1>9 DEF Used, used

\* No cluster is twice in a chain that ends: it is no longer than the table.
LEMMA ChainFits ==
    ASSUME NEW k \in Nat \ {0}, NEW p \in [1..k -> Cluster], Chain(p, k, FALSE),
           \A i \in 1..k : p[i] >= 2
    PROVE  k <= NEntries - 2
<1>1. ASSUME NEW a \in 1..k, NEW b \in 1..k, a < b, p[a] = p[b] PROVE FALSE
  <2> DEFINE S == {d \in Nat : b + d <= k => p[a + d] = p[b + d]}
  <2>1. 0 \in S
    BY <1>1
  <2>2. ASSUME NEW d \in S \cap Nat PROVE d + 1 \in S
    <3> SUFFICES ASSUME b + (d + 1) <= k PROVE p[a + (d + 1)] = p[b + (d + 1)]
      OBVIOUS
    <3>1. /\ a + d \in 1..(k - 1) /\ b + d \in 1..(k - 1) /\ p[a + d] = p[b + d]
          /\ (a + d) + 1 = a + (d + 1) /\ (b + d) + 1 = b + (d + 1)
      BY <1>1
    <3> QED BY <3>1 DEF Chain
  <2>3. Nat \subseteq S
    <3> HIDE DEF S
    <3> QED BY <2>1, <2>2, NatSetInduction
  <2>4. k - b \in Nat /\ b + (k - b) = k /\ a + (k - b) \in 1..(k - 1)
    BY <1>1
  <2>5. p[a + (k - b)] = p[k]
    BY <2>3, <2>4
  <2> QED BY <2>4, <2>5 DEF Chain
<1>2. ASSUME NEW a \in 1..k, NEW b \in 1..k, a # b PROVE p[a] # p[b]
  BY <1>1, <1>2
<1>3. NEntries \in Nat
  BY DiskAssumption
<1>4. ASSUME NEW i \in 1..k PROVE p[i] \in 2..(NEntries - 1)
  BY <1>3 DEF Cluster
<1>5. /\ IsFiniteSet(1..k) /\ Cardinality(1..k) = k
      /\ IsFiniteSet(2..(NEntries - 1))
      /\ Cardinality(2..(NEntries - 1)) = IF 2 > NEntries - 1 THEN 0 ELSE (NEntries - 1) - 2 + 1
  BY <1>3, FS_Interval
<1>6. 2..(NEntries - 1) # {}
  BY <1>4
<1>7. Cardinality(2..(NEntries - 1)) = NEntries - 2
  BY <1>3, <1>5, <1>6
<1>8. CASE NEntries - 2 < k
  <2> DEFINE S == 1..k
             T == 2..(NEntries - 1)
             f == [i \in S |-> p[i]]
  <2>1. f \in [S -> T]
    BY <1>4
  <2>2. IsFiniteSet(S) /\ IsFiniteSet(T) /\ Cardinality(T) < Cardinality(S)
    BY <1>5, <1>7, <1>8
  <2>3. \A a, b \in S : a # b => f[a] # f[b]
    BY <1>2
  <2> HIDE DEF S, T, f
  <2>4. \E a, b \in S : a # b /\ f[a] = f[b]
    BY <2>1, <2>2, FS_PigeonHole
  <2> QED BY <2>3, <2>4
<1> QED BY <1>3, <1>8

\* What a walk has gone along to its end is a chain of the table.
LEMMA WalkIsChain ==
    ASSUME disk \in Disk, Start # 0,
           NEW k \in Nat \ {0}, NEW p \in [1..k -> Cluster], Chain(p, k, FALSE),
           \A i \in 1..k : p[i] >= 2
    PROVE  p \in Paths /\ Len(p) = k /\ p # <<>> /\ IsChain(p, Start)
<1>1. NEntries \in Nat /\ Hi \in Nat /\ NEntries <= Hi
  BY DiskAssumption
<1>2. Len(p) = k /\ p # <<>>
  BY LenProperties, EmptySeq
<1>3. p \in Paths
  <2>1. k \in 1..(NEntries - 2)
    <3>1. k <= NEntries - 2
      BY ChainFits
    <3> QED BY <1>1, <3>1
  <2>2. p \in [1..k -> Cluster \ {0, 1}]
    OBVIOUS
  <2> QED BY <2>1, <2>2 DEF Paths
<1>4. ASSUME NEW i \in 1..(k - 1) PROVE Used(p[i]) /\ Low(p[i]) = p[i + 1]
  <2>1. i \in 1..k /\ i + 1 \in 1..k
    OBVIOUS
  <2>2. Type(p[i]) = "USED" /\ p[i + 1] = disk.fat[p[i]]
    BY DEF Chain
  <2>3. p[i] \in Cluster /\ p[i + 1] \in Cluster
    BY <2>1
  <2>4. disk.fat[p[i]] < Hi
    BY <1>1, <2>2, <2>3 DEF Cluster
  <2> QED BY <2>2, <2>3, <2>4, TypeSays
<1>5. Low(p[k]) >= Hi - 8
  <2>1. p[k] \in Cluster /\ Type(p[k]) = "LAST"
    BY DEF Chain
  <2> QED BY <2>1, TypeSays
<1>6. p[1] = Start
  BY DEF Chain
<1>7. IsChain(p, Start)
  BY <1>2, <1>4, <1>5, <1>6 DEF IsChain, Follows
<1> QED BY <1>2, <1>3, <1>7

\* What is in the buffer after the walk is the chain that the table has.
LEMMA WholeIsChain ==
    ASSUME disk \in Disk, buf \in Seq(Cluster), Whole
    PROVE  buf \in Paths \cup {<<>>} /\ IsChain(buf, Start)
<1>1. CASE Start = 0
  BY <1>1 DEF Whole, IsChain
<1>2. CASE Start # 0
  <2> DEFINE k == Len(buf)
  <2>0. k > 0 /\ Chain(buf, k, FALSE) /\ \A i \in 1..k : buf[i] >= 2
    BY <1>2, Zenon DEF Whole
  <2>1. k \in Nat /\ buf \in [1..k -> Cluster]
    BY LenProperties
  <2>2. k \in Nat \ {0}
    BY <2>0, <2>1
  <2> HIDE DEF k
  <2> QED BY <1>2, <2>0, <2>1, <2>2, WalkIsChain
<1> QED BY <1>1, <1>2

\* No entry of a chain but the first is 0 or 1: those are not used ones.
LEMMA WrappedIsChain ==
    ASSUME disk \in Disk, n \in Nat, Wrapped, Start # 1
    PROVE  \E p \in Paths : IsChain(p, Start) /\ Len(p) >= Wrap
<1>1. PICK k \in Nat : k = n
  OBVIOUS
<1>2. /\ Wrap \in Nat /\ Wrap > 1 /\ k >= Wrap /\ Start # 0
      /\ NEntries \in Nat /\ Hi \in Nat /\ NEntries <= Hi
  BY <1>1, DiskAssumption DEF Wrapped
<1>3. PICK p \in [1..k -> Cluster] : Chain(p, k, FALSE)
  BY <1>1 DEF Wrapped
<1>4. ASSUME NEW i \in 1..k PROVE p[i] >= 2
  <2>1. CASE i = 1
    <3>1. p[1] = Start /\ p[1] \in Cluster
      BY <1>2, <1>3 DEF Chain
    <3> QED BY <1>2, <2>1, <3>1 DEF Cluster
  <2>2. CASE i # 1
    <3>1. i - 1 \in 1..(k - 1) /\ (i - 1) + 1 = i /\ i - 1 \in 1..k
      BY <2>2
    <3>2. Type(p[i - 1]) = "USED" /\ p[i] = disk.fat[p[i - 1]]
      BY <1>3, <3>1 DEF Chain
    <3>3. p[i - 1] \in Cluster /\ p[i] \in Cluster
      BY <3>1
    <3>4. disk.fat[p[i - 1]] < Hi
      BY <1>2, <3>2, <3>3 DEF Cluster
    <3>5. Used(p[i - 1]) /\ Low(p[i - 1]) = p[i]
      BY <3>2, <3>3, <3>4, TypeSays
    <3> QED BY <1>2, <3>5 DEF Used
  <2> QED BY <2>1, <2>2
<1>5. p \in Paths /\ Len(p) = k /\ IsChain(p, Start)
  <2>1. k \in Nat \ {0}
    BY <1>2
  <2> QED BY <1>2, <1>3, <1>4, <2>1, WalkIsChain
<1> QED BY <1>2, <1>5

----------------------------------------------------------------------------
\* Directory entries lead to clusters whose numbers are natural numbers.
LEMMA DirectoriesTyped ==
    ASSUME NEW ds \in Seq(Dirent)
    PROVE  Directories(ds) \subseteq Nat
<1>1. ASSUME NEW i \in 1..Len(ds) PROVE ds[i].start \in Nat
  <2>1. ds[i] \in Dirent
    BY ElementOfSeq
  <2> QED BY <2>1 DEF Dirent
<1> QED BY <1>1 DEF Directories

\* The entry that find_dirent_with_name finds is one of the directory.
LEMMA FoundTyped ==
    ASSUME NEW ds \in Seq(Dirent), NEW i, i = find_dirent_with_name(ds), i # 0
    PROVE  ds[i] \in Dirent /\ ds[i].start \in Nat /\ <<ds[i]>> \in Seq(Dirent)
<1>1. i \in 1..Len(ds)
  BY FindFinds
<1>2. ds[i] \in Dirent
  BY <1>1, ElementOfSeq
<1> QED BY <1>2 DEF Dirent

LEMMA InitTypes == Init => TypeOK
<1> SUFFICES ASSUME Init PROVE TypeOK
  OBVIOUS
<1>1. disk \in Disk /\ want \in Name
  BY DiskAssumption DEF Init
<1> QED BY <1>1, EmptySeq DEF Init, TypeOK

\* Every step keeps the types.
LEMMA NextTypes == ASSUME TypeOK, [Next]_vars PROVE TypeOK'
<1> USE DEF TypeOK
<1>1. ASSUME NEW c \in Cluster PROVE disk.fat[c] \in Nat
  BY DEF Disk
<1>2. Start \in Nat
  <2>1. CASE file = <<>>
    BY <2>1 DEF Start
  <2>2. CASE file # <<>>
    <3>1. file[1] \in Dirent
      <4>1. Len(file) # 0 /\ Len(file) \in Nat
        BY <2>2, EmptySeq, LenProperties
      <4>2. 1 \in 1..Len(file)
        BY <4>1
      <4> QED BY <4>2, ElementOfSeq
    <3> QED BY <2>2, <3>1 DEF Start, Dirent
  <2> QED BY <2>1, <2>2
<1>3. get_dirents \in Seq(Dirent)
  BY DirentsListed
<1>4. CASE fat32_mk
  <2>1. disk.root \in Nat
    BY DEF Disk
  <2> QED BY <1>4, <2>1 DEF fat32_mk
<1>5. CASE Call
  <2>1. dir' \in Nat /\ <<>> \in Seq(Dirent) /\ <<>> \in Seq(Cluster) /\ Len(<<>>) = 0
    BY <1>5, EmptySeq DEF Call
  <2> QED BY <1>5, <2>1 DEF Call
<1>6. CASE LengthZero
  <2>1. 0 % Wrap \in Nat
    BY WrapsDown
  <2> QED BY <1>2, <1>6, <2>1, EmptySeq DEF LengthZero, Allocate
<1>7. CASE LengthLast
  <2>1. n + 1 \in Nat /\ (n + 1) % Wrap \in Nat
    BY WrapsDown
  <2> QED BY <1>2, <1>7, <2>1, EmptySeq DEF LengthLast, Allocate
<1>8. CASE LengthNext
  BY <1>1, <1>8 DEF LengthNext
<1>9. CASE LengthAssert \/ ReadAssert \/ Overrun \/ Fail
  BY <1>9 DEF LengthAssert, ReadAssert, Overrun, Fail, Stop
<1>10. CASE ReadCluster
  <2>1. cluster \in Cluster /\ buf' = Append(buf, cluster) /\ disk.fat[cluster] \in Nat
    BY <1>1, <1>10 DEF ReadCluster
  <2>2. buf' \in Seq(Cluster)
    BY <2>1, AppendProperties
  <2> QED BY <1>10, <2>1, <2>2 DEF ReadCluster
<1>11. CASE ReturnDirents
  <2>1. res' \in Seq(Dirent)
    BY <1>3, <1>11, LiveEntries DEF ReturnDirents, Return
  <2>2. Directories(res') \subseteq Nat
    BY <2>1, DirectoriesTyped
  <2> QED BY <1>11, <2>2 DEF ReturnDirents, Return
<1>12. CASE ReturnDirent
  <2>1. PICK ds, i : /\ ds = get_dirents /\ i = find_dirent_with_name(ds)
                     /\ res' = IF i = 0 THEN <<>> ELSE <<ds[i]>>
    BY <1>12 DEF ReturnDirent, Return
  <2>2. res' \in Seq(Dirent)
    BY <1>3, <2>1, FoundTyped, EmptySeq
  <2>3. Directories(res') \subseteq Nat
    BY <2>2, DirectoriesTyped
  <2> QED BY <1>12, <2>3 DEF ReturnDirent, Return
<1>13. CASE ReturnEmpty \/ ReturnFile
  BY <1>13 DEF ReturnEmpty, ReturnFile, Return
<1>14. CASE ReadFound
  <2>1. PICK ds, i : /\ ds = get_dirents /\ i = find_dirent_with_name(ds) /\ i # 0
                     /\ file' = <<ds[i]>> /\ cluster' = ds[i].start /\ n' = 0
    BY <1>14 DEF ReadFound
  <2>2. file' \in Seq(Dirent) /\ Len(file') = 1 /\ cluster' \in Nat
    BY <1>3, <2>1, FoundTyped
  <2> QED BY <1>14, <2>1, <2>2 DEF ReadFound
<1>15. CASE UNCHANGED vars
  BY <1>15 DEF vars
<1> QED BY <1>4, <1>5, <1>6, <1>7, <1>8, <1>9, <1>10, <1>11, <1>12, <1>13, <1>14, <1>15
        DEF Next, Step, Length, Scan

\* Every variable has its type on every disk: fat32_readdir and fat32_stat return directory
\* entries, and the buffer holds entries of the table.
THEOREM TypeCorrect == Spec => []TypeOK
BY InitTypes, NextTypes, PTL DEF Spec

\* read_cluster_chain, which is not told the size of its buffer, stays inside it and inside
\* the table, on any disk, unless the table has a chain of 2^32 bytes or more there.
THEOREM BufferSuffices == Spec => []FitsUnlessWrapped
<1>1. TypeOK /\ WalkInv => FitsUnlessWrapped
  <2> SUFFICES ASSUME TypeOK, WalkInv PROVE FitsUnlessWrapped
    OBVIOUS
  <2>1. ASSUME Reading PROVE cluster \in Cluster
    <3>1. Len(buf) + 1 \in 1..n
      BY <2>1, LenProperties DEF WalkInv, Reading
    <3> QED BY <2>1, <3>1 DEF Reading
  <2>2. ASSUME pc = "overrun" PROVE \E p \in Paths : IsChain(p, Start) /\ Len(p) >= Wrap
    BY <2>2, WrappedIsChain DEF TypeOK, WalkInv
  <2> QED BY <2>1, <2>2 DEF WalkInv, FitsUnlessWrapped
<1> QED BY <1>1, TypeCorrect, Walks, PTL

\* A disk of less than 2^32 bytes, however damaged its table, never overruns a buffer.
THEOREM SmallDisksFit ==
    ASSUME NEntries - 2 < Wrap
    PROVE  Spec => [](pc # "overrun")
<1>1. ASSUME NEW p \in Paths PROVE Len(p) < Wrap
  <2>1. NEntries \in Nat /\ Wrap \in Nat
    BY DiskAssumption
  <2>2. PICK k \in 1..(NEntries - 2) : p \in [1..k -> Cluster \ {0, 1}]
    BY DEF Paths
  <2>3. Len(p) = k
    BY <2>1, <2>2, LenProperties
  <2> QED BY <2>1, <2>2, <2>3
<1>2. FitsUnlessWrapped => pc # "overrun"
  <2> SUFFICES ASSUME FitsUnlessWrapped, pc = "overrun" PROVE FALSE
    OBVIOUS
  <2>1. PICK p \in Paths : Len(p) >= Wrap
    BY DEF FitsUnlessWrapped
  <2> QED BY <1>1, <2>1, DiskAssumption, LenProperties
<1> QED BY <1>2, BufferSuffices, PTL

----------------------------------------------------------------------------
\* A file that is being read was found in its directory.
Found ==
    file # <<>> =>
        /\ op = "read"
        /\ \E p \in Paths \cup {<<>>} :
              /\ IsChain(p, dir)
              /\ \E d \in Shown(p) : file = <<d>> /\ d.name = want /\ d.nbytes # 0

\* Entry 1 of the table, which is of no cluster, leads to none.
Sound == disk.fat[1] \notin 2..(NEntries - 1)

ContentInv == Sound /\ Found /\ ReturnsContents

\* No directory begins at cluster 1 and goes on.
LEMMA NotFromOne ==
    ASSUME disk \in Disk, n \in Nat, Sound, Wrapped
    PROVE  Start # 1
<1> SUFFICES ASSUME Start = 1 PROVE FALSE
  OBVIOUS
<1>1. PICK k \in Nat : k = n
  OBVIOUS
<1>2. /\ Wrap \in Nat /\ Wrap > 1 /\ k >= Wrap /\ NEntries \in Nat /\ Hi \in Nat
      /\ NEntries <= Hi
  BY <1>1, DiskAssumption DEF Wrapped
<1>3. PICK p \in [1..k -> Cluster] : Chain(p, k, FALSE)
  BY <1>1 DEF Wrapped
<1>4. 1 \in 1..(k - 1) /\ 1 + 1 = 2 /\ 1 \in 1..k /\ 2 \in 1..k
  BY <1>2
<1>5. p[1] = 1 /\ Type(1) = "USED" /\ p[2] = disk.fat[1] /\ p[1] \in Cluster /\ p[2] \in Cluster
  BY <1>2, <1>3, <1>4 DEF Chain
<1>6. Used(1) /\ Low(1) = disk.fat[1]
  BY <1>2, <1>5, TypeSays DEF Cluster
<1> QED BY <1>2, <1>5, <1>6 DEF Used, Cluster, Sound

\* A call that has scanned its directory has found what the chain of it shows.
LEMMA ScanFinds ==
    ASSUME TypeOK, WalkInv, Sound, pc = "scan", file = <<>>, NEW ds, ds = get_dirents,
           NEW i, i = find_dirent_with_name(ds)
    PROVE  \E p \in Paths \cup {<<>>} :
              /\ IsChain(p, dir)
              /\ ds \in Seq(Dirent)
              /\ Shown(p) = {ds[x] : x \in {j \in 1..Len(ds) : Valid(ds[j])}}
              /\ i = 0 => \A d \in Shown(p) : d.name # want
              /\ i # 0 => ds[i] \in Shown(p) /\ ds[i].name = want
<1>1. /\ disk \in Disk /\ buf \in Seq(Cluster) /\ n \in Nat /\ (Whole \/ Skipped)
      /\ Len(buf) < Wrap
  BY DEF TypeOK, WalkInv
<1>2. Start = dir
  BY DEF Start
<1>3. \E p \in Paths \cup {<<>>} : IsChain(p, dir) /\ Shown(p) = Listing(buf)
  <2>1. CASE Whole
    <3>1. buf \in Paths \cup {<<>>} /\ IsChain(buf, dir) /\ Shown(buf) = Listing(buf)
      BY <1>1, <1>2, <2>1, WholeIsChain DEF Shown
    <3> QED BY <3>1
  <2>2. CASE Skipped
    <3>1. PICK p \in Paths : IsChain(p, dir) /\ Len(p) >= Wrap
      BY <1>1, <1>2, <2>2, NotFromOne, WrappedIsChain DEF Skipped
    <3>2. Shown(p) = {}
      <4>1. PICK k \in 1..(NEntries - 2) : p \in [1..k -> Cluster \ {0, 1}]
        BY DEF Paths
      <4>2. Len(p) \in Nat /\ Wrap \in Nat
        BY <4>1, DiskAssumption, LenProperties
      <4>3. ~(Len(p) < Wrap)
        BY <3>1, <4>2
      <4> QED BY <4>3 DEF Shown
    <3>3. Listing(buf) = {}
      <4>1. DOMAIN buf = {}
        BY <2>2, EmptySeq DEF Skipped
      <4>2. Slots(buf) = {}
        BY <4>1 DEF Slots
      <4> QED BY <4>2 DEF Listing
    <3> QED BY <3>1, <3>2, <3>3
  <2> QED BY <1>1, <2>1, <2>2
<1>4. ds \in Seq(Dirent) /\ Listing(buf) = {ds[x] : x \in {j \in 1..Len(ds) : Valid(ds[j])}}
  BY <1>1, DirentsListed
<1>5. /\ i # 0 => i \in 1..Len(ds) /\ Valid(ds[i]) /\ ds[i].name = want
      /\ i = 0 => \A j \in 1..Len(ds) : ~(Valid(ds[j]) /\ ds[j].name = want)
  BY <1>4, FindFinds
<1>6. /\ i = 0 => \A d \in Listing(buf) : d.name # want
      /\ i # 0 => ds[i] \in Listing(buf) /\ ds[i].name = want
  BY <1>4, <1>5
<1> QED BY <1>3, <1>4, <1>6

\* What the table says, and what a directory lists, are of the disk alone.
LEMMA ChainStays ==
    ASSUME disk' = disk, NEW p, NEW c
    PROVE  IsChain(p, c)' <=> IsChain(p, c)
BY DEF IsChain, Follows, Used, Low

LEMMA ShownStays ==
    ASSUME disk' = disk, NEW p
    PROVE  Shown(p)' = Shown(p)
<1>1. \A s : At(p, s)' = At(p, s)
  BY DEF At
<1>2. Slots(p)' = Slots(p)
  BY DEF Slots
<1>3. \A s : Hidden(p, s)' <=> Hidden(p, s)
  BY <1>1, <1>2 DEF Hidden
<1>4. Listing(p)' = Listing(p)
  BY <1>1, <1>2, <1>3 DEF Listing
<1> QED BY <1>4 DEF Shown

\* Where the disk and what was asked for stay, so does what the chain lists.
LEMMA FoundKept ==
    ASSUME Found, UNCHANGED <<disk, op, dir, want, file>>
    PROVE  Found'
<1> SUFFICES ASSUME file # <<>> PROVE Found'
  BY DEF Found
<1>1. PICK p \in Paths \cup {<<>>} :
         /\ op = "read" /\ IsChain(p, dir)
         /\ \E d \in Shown(p) : file = <<d>> /\ d.name = want /\ d.nbytes # 0
  BY DEF Found
<1>2. (p \in Paths \cup {<<>>})' /\ IsChain(p, dir)' /\ Shown(p)' = Shown(p)
  BY <1>1, ChainStays, ShownStays DEF Paths
<1> QED BY <1>1, <1>2 DEF Found

\* What a call on the directory with chain p is to return.
Listed(p) == {d \in Shown(p) : d.name = want}
Right(r, p) ==
    CASE op = "readdir" -> {r[i] : i \in DOMAIN r} = Shown(p)
      [] op # "readdir" /\ Listed(p) = {} -> r = <<>>
      [] op = "stat" /\ Listed(p) # {} -> \E d \in Listed(p) : r = <<d>>
      [] op = "read" /\ Listed(p) # {} ->
           \E d \in Listed(p), q \in Paths \cup {<<>>} :
               /\ r = Contents(q, d.nbytes)
               /\ IF d.nbytes = 0 THEN q = <<>>
                  ELSE IsChain(q, d.start) /\ Len(q) < Wrap

\* A call that returns what is right on the disk before the step.
LEMMA ReturnKept ==
    ASSUME UNCHANGED <<disk, op, dir, want>>,
           NEW p \in Paths \cup {<<>>}, IsChain(p, dir), Right(res', p)
    PROVE  ReturnsContents'
<1>1. \A q, c : IsChain(q, c)' <=> IsChain(q, c)
  BY ChainStays
<1>2. Shown(p)' = Shown(p)
  BY ShownStays
<1>3. Right(res, p)'
  BY <1>1, <1>2 DEF Right, Listed, Paths, Contents
<1>4. (p \in Paths \cup {<<>>})' /\ IsChain(p, dir)'
  BY <1>1 DEF Paths
<1> QED BY <1>3, <1>4 DEF ReturnsContents, Right, Listed

\* A call that returns nothing yet.
LEMMA NoReturn == ASSUME pc' # "idle" PROVE ReturnsContents'
BY DEF ReturnsContents

\* No step changes the disk.
LEMMA DiskKept == ASSUME [Next]_vars PROVE disk' = disk
BY DEF Next, vars, fat32_mk, Call, Step, Length, Scan, LengthZero, LengthLast, LengthNext,
       LengthAssert, Allocate, ReadCluster, ReadAssert, Overrun, Fail, Stop, ReturnDirents,
       ReturnDirent, ReturnEmpty, ReadFound, ReturnFile, Return

\* Every step keeps what was found, and every return is right.
LEMMA NextContent == ASSUME TypeOK, WalkInv, ContentInv, [Next]_vars PROVE ContentInv'
<1>0. Sound /\ Sound'
  <2>1. disk' = disk
    BY DiskKept
  <2> QED BY <2>1 DEF ContentInv, Sound
<1>1. ASSUME UNCHANGED <<disk, op, dir, want, file>>,
             NEW p \in Paths \cup {<<>>}, IsChain(p, dir), Right(res', p)
      PROVE  ContentInv'
  <2>1. Found'
    BY <1>1, FoundKept DEF ContentInv
  <2>2. ReturnsContents'
    BY <1>1, ReturnKept
  <2> QED BY <1>0, <2>1, <2>2 DEF ContentInv
<1>2. CASE fat32_mk \/ UNCHANGED vars
  <2>1. UNCHANGED <<disk, pc, op, dir, want, file, res>>
    BY <1>2 DEF fat32_mk, vars
  <2>2. Found'
    BY <2>1, FoundKept DEF ContentInv
  <2>3. ReturnsContents'
    <3> SUFFICES ASSUME pc' = "idle", op' # "none" PROVE ReturnsContents'
      BY DEF ReturnsContents
    <3>1. PICK p \in Paths \cup {<<>>} : IsChain(p, dir) /\ Right(res, p)
      BY <2>1 DEF ContentInv, ReturnsContents, Right, Listed
    <3> QED BY <2>1, <3>1, ReturnKept
  <2> QED BY <1>0, <2>2, <2>3 DEF ContentInv
<1>3. CASE Call
  BY <1>0, <1>3, NoReturn DEF Call, ContentInv, Found
<1>4. CASE Length \/ ReadCluster \/ ReadAssert \/ Overrun \/ Fail
  <2>1. UNCHANGED <<disk, op, dir, want, file>> /\ pc' # "idle"
    BY <1>4 DEF Length, LengthZero, LengthLast, LengthNext, LengthAssert, Allocate, ReadCluster,
                ReadAssert, Overrun, Fail, Stop
  <2> QED BY <1>0, <2>1, FoundKept, NoReturn DEF ContentInv
<1>5. CASE ReturnDirents
  <2>1. PICK ds, i : ds = get_dirents /\ i = find_dirent_with_name(ds)
    OBVIOUS
  <2>2. /\ pc = "scan" /\ file = <<>> /\ op = "readdir" /\ res' = Live(ds)
        /\ UNCHANGED <<disk, op, dir, want, file>>
    BY <1>5, <2>1 DEF ReturnDirents, Return
  <2>3. PICK p \in Paths \cup {<<>>} :
           /\ IsChain(p, dir) /\ ds \in Seq(Dirent)
           /\ Shown(p) = {ds[x] : x \in {j \in 1..Len(ds) : Valid(ds[j])}}
    BY <1>0, <2>1, <2>2, ScanFinds
  <2>4. {res'[x] : x \in DOMAIN res'} = Shown(p)
    BY <2>2, <2>3, LiveEntries, Zenon
  <2>5. Right(res', p)
    BY <2>2, <2>4 DEF Right
  <2> QED BY <1>1, <2>2, <2>3, <2>5
<1>6. CASE ReturnDirent
  <2>1. PICK ds, i : ds = get_dirents /\ i = find_dirent_with_name(ds)
    OBVIOUS
  <2>2. /\ pc = "scan" /\ file = <<>> /\ op \in {"stat", "read"} /\ (op = "read" => i = 0)
        /\ res' = (IF i = 0 THEN <<>> ELSE <<ds[i]>>)
        /\ UNCHANGED <<disk, op, dir, want, file>>
    BY <1>6, <2>1 DEF ReturnDirent, Return
  <2>3. PICK p \in Paths \cup {<<>>} :
           /\ IsChain(p, dir)
           /\ i = 0 => \A d \in Shown(p) : d.name # want
           /\ i # 0 => ds[i] \in Shown(p) /\ ds[i].name = want
    BY <1>0, <2>1, <2>2, ScanFinds
  <2>4. Right(res', p)
    <3>1. CASE i = 0
      <4>1. Listed(p) = {}
        BY <2>3, <3>1 DEF Listed
      <4> QED BY <2>2, <3>1, <4>1 DEF Right
    <3>2. CASE i # 0
      <4>1. op = "stat" /\ ds[i] \in Listed(p) /\ res' = <<ds[i]>>
        BY <2>2, <2>3, <3>2 DEF Listed
      <4>2. Listed(p) # {} /\ \E d \in Listed(p) : res' = <<d>>
        BY <4>1
      <4> QED BY <4>1, <4>2 DEF Right
    <3> QED BY <3>1, <3>2
  <2> QED BY <1>1, <2>2, <2>3, <2>4
<1>7. CASE ReturnEmpty
  <2>1. PICK ds, i : ds = get_dirents /\ i = find_dirent_with_name(ds)
    OBVIOUS
  <2>2. /\ pc = "scan" /\ file = <<>> /\ op = "read" /\ i # 0 /\ ds[i].nbytes = 0
        /\ res' = Contents(<<>>, 0)
        /\ UNCHANGED <<disk, op, dir, want, file>>
    BY <1>7, <2>1 DEF ReturnEmpty, Return
  <2>3. PICK p \in Paths \cup {<<>>} :
           IsChain(p, dir) /\ ds[i] \in Shown(p) /\ ds[i].name = want
    BY <1>0, <2>1, <2>2, ScanFinds
  <2>4. PICK d \in Listed(p) : d.nbytes = 0
    BY <2>2, <2>3 DEF Listed
  <2>5. res' = Contents(<<>>, d.nbytes) /\ <<>> \in Paths \cup {<<>>} /\ Listed(p) # {}
    BY <2>2, <2>4
  <2>6. \E d0 \in Listed(p), q \in Paths \cup {<<>>} :
           /\ res' = Contents(q, d0.nbytes)
           /\ IF d0.nbytes = 0 THEN q = <<>> ELSE IsChain(q, d0.start) /\ Len(q) < Wrap
    BY <2>4, <2>5
  <2>7. Right(res', p)
    BY <2>2, <2>5, <2>6 DEF Right
  <2> QED BY <1>1, <2>2, <2>3, <2>7
<1>8. CASE ReadFound
  <2>1. PICK ds, i : ds = get_dirents /\ i = find_dirent_with_name(ds)
    OBVIOUS
  <2>2. /\ pc = "scan" /\ file = <<>> /\ op = "read" /\ i # 0 /\ ds[i].nbytes # 0
        /\ file' = <<ds[i]>> /\ pc' = "length" /\ UNCHANGED <<disk, op, dir, want>>
    BY <1>8, <2>1 DEF ReadFound
  <2>3. PICK p \in Paths \cup {<<>>} :
           IsChain(p, dir) /\ ds[i] \in Shown(p) /\ ds[i].name = want
    BY <1>0, <2>1, <2>2, ScanFinds
  <2>5. PICK d \in Shown(p) : file' = <<d>> /\ d.name = want /\ d.nbytes # 0
    BY <2>2, <2>3
  <2>6. Found'
    <3>1. (p \in Paths \cup {<<>>})' /\ IsChain(p, dir)' /\ Shown(p)' = Shown(p)
      BY <2>2, <2>3, ChainStays, ShownStays DEF Paths
    <3> QED BY <2>2, <2>5, <3>1 DEF Found
  <2>7. ReturnsContents'
    BY <2>2, NoReturn
  <2> QED BY <1>0, <2>6, <2>7 DEF ContentInv
<1>9. CASE ReturnFile
  <2>1. /\ pc = "scan" /\ file # <<>> /\ res' = Contents(buf, file[1].nbytes)
        /\ UNCHANGED <<disk, op, dir, want, file>>
    BY <1>9 DEF ReturnFile, Return
  <2>2. PICK p \in Paths \cup {<<>>} :
           /\ op = "read" /\ IsChain(p, dir)
           /\ \E d \in Shown(p) : file = <<d>> /\ d.name = want /\ d.nbytes # 0
    BY <2>1 DEF ContentInv, Found
  <2>3. PICK d \in Listed(p) : file = <<d>> /\ d.nbytes # 0
    BY <2>2 DEF Listed
  <2>4. Start = d.start /\ res' = Contents(buf, d.nbytes) /\ Listed(p) # {}
    BY <2>1, <2>3 DEF Start
  <2>5. buf \in Paths \cup {<<>>} /\ IsChain(buf, d.start) /\ Len(buf) < Wrap
    BY <2>1, <2>4, WholeIsChain DEF TypeOK, WalkInv, Skipped
  <2>6. \E d0 \in Listed(p), q \in Paths \cup {<<>>} :
           /\ res' = Contents(q, d0.nbytes)
           /\ IF d0.nbytes = 0 THEN q = <<>> ELSE IsChain(q, d0.start) /\ Len(q) < Wrap
    BY <2>3, <2>4, <2>5
  <2>7. Right(res', p)
    BY <2>2, <2>4, <2>6 DEF Right
  <2> QED BY <1>1, <2>1, <2>2, <2>7
<1> QED BY <1>2, <1>3, <1>4, <1>5, <1>6, <1>7, <1>8, <1>9 DEF Next, Step, Scan

\* A call that returns has read the right thing, on every disk however damaged whose table
\* entry 1, which is of no cluster, leads to none: the entries of the directory, the one of that
\* name, or the clusters of that file in the order of its chain.
THEOREM ReadsRight ==
    ASSUME \A d \in Disks : d.fat[1] \notin 2..(NEntries - 1)
    PROVE  Spec => []ReturnsContents
<1>1. Init => ContentInv
  BY DEF Init, ContentInv, Sound, Found, ReturnsContents
<1>2. TypeOK /\ WalkInv /\ ContentInv /\ [Next]_vars => ContentInv'
  BY NextContent
<1>3. ContentInv => ReturnsContents
  BY DEF ContentInv
<1> QED BY <1>1, <1>2, <1>3, TypeCorrect, Walks, PTL DEF Spec

----------------------------------------------------------------------------
(* When the driver gives up.                                               *)

\* No table entry has any of its upper four bits set.
Plain == disk \in Disk /\ \A c \in Cluster : disk.fat[c] < Hi

\* Each walk is on the chain that the table has, if it has one, as far along it as the clusters
\* that it has counted or read.
OnChain ==
    \A p \in Paths \cup {<<>>} :
        IsChain(p, Start) =>
            /\ pc = "length" /\ Start # 0 => n + 1 \in 1..Len(p) /\ cluster = p[n + 1]
            /\ pc = "read" => /\ Start # 0 /\ Len(buf) + 1 \in 1..Len(p)
                              /\ cluster = p[Len(buf) + 1]
            /\ pc # "halted"

\* What the driver meets on a chain.
LEMMA ChainMet ==
    ASSUME Plain, NEW p \in Paths \cup {<<>>}, IsChain(p, Start), Start # 0
    PROVE  /\ Len(p) \in Nat \ {0} /\ p[1] = Start
           /\ \A i \in 1..Len(p) : /\ p[i] \in Cluster /\ p[i] >= 2
                                   /\ Type(p[i]) = IF i = Len(p) THEN "LAST" ELSE "USED"
           /\ \A i \in 1..(Len(p) - 1) : p[i + 1] = disk.fat[p[i]]
<1>1. p # <<>> /\ Follows(p, Start) /\ Low(p[Len(p)]) >= Hi - 8
  BY DEF IsChain
<1>2. PICK k \in 1..(NEntries - 2) : p \in [1..k -> Cluster \ {0, 1}]
  BY <1>1 DEF Paths
<1>3. NEntries \in Nat
  BY DiskAssumption
<1>4. Len(p) = k /\ k \in Nat \ {0}
  BY <1>2, <1>3, LenProperties
<1>5. ASSUME NEW i \in 1..k PROVE p[i] \in Cluster /\ p[i] >= 2
  BY <1>2, <1>3 DEF Cluster
<1>6. ASSUME NEW i \in 1..(k - 1) PROVE Type(p[i]) = "USED" /\ p[i + 1] = disk.fat[p[i]]
  <2>1. Used(p[i]) /\ Low(p[i]) = p[i + 1]
    BY <1>1, <1>4 DEF Follows
  <2>2. p[i] \in Cluster
    BY <1>4, <1>5
  <2> QED BY <2>1, <2>2, TypeSays DEF Plain
<1>7. Type(p[k]) = "LAST"
  BY <1>1, <1>4, <1>5, TypeSays DEF Plain
<1>8. p[1] = Start
  BY <1>1 DEF Follows
<1>9. ASSUME NEW i \in 1..k PROVE Type(p[i]) = IF i = k THEN "LAST" ELSE "USED"
  <2>1. i # k => i \in 1..(k - 1)
    BY <1>4
  <2> QED BY <1>6, <1>7, <2>1
<1> QED BY <1>4, <1>5, <1>6, <1>8, <1>9

\* The first cluster of a walk is the first of the chain.
LEMMA OnChainFirst ==
    ASSUME Plain', n' = 0, cluster' = Start', pc' = "length"
    PROVE  OnChain'
<1> SUFFICES ASSUME NEW p \in Paths \cup {<<>>}, IsChain(p, Start)', Start' # 0
             PROVE  n' + 1 \in 1..Len(p) /\ cluster' = p[n' + 1]
  BY DEF OnChain, Paths
<1>1. Follows(p, Start)' /\ p # <<>>
  BY DEF IsChain
<1>2. p[1] = Start'
  BY <1>1 DEF Follows
<1>3. PICK k \in 1..(NEntries - 2) : p \in [1..k -> Cluster \ {0, 1}]
  BY <1>1 DEF Paths
<1>4. Len(p) = k /\ k \in Nat \ {0} /\ 0 + 1 = 1
  BY <1>3, LenProperties, DiskAssumption
<1> QED BY <1>2, <1>4

\* Every step of a walk stays on the chain, and no step of a walk on a chain fails.
LEMMA NextOnChain == ASSUME TypeOK, Plain, OnChain, [Next]_vars PROVE OnChain'
<1>1. CASE fat32_mk \/ UNCHANGED vars
  <2>1. UNCHANGED <<disk, pc, dir, file, cluster, n, buf>>
    BY <1>1 DEF fat32_mk, vars
  <2>2. Start' = Start
    BY <2>1 DEF Start
  <2>3. \A p : IsChain(p, Start)' <=> IsChain(p, Start)
    BY <2>1, <2>2, ChainStays
  <2> QED BY <2>1, <2>2, <2>3 DEF OnChain, Paths
<1>2. CASE Call
  <2>1. n' = 0 /\ cluster' = Start' /\ pc' = "length" /\ disk' = disk
    BY <1>2 DEF Call, Start
  <2> QED BY <2>1, OnChainFirst DEF Plain
<1>3. CASE ReadFound
  <2>1. n' = 0 /\ cluster' = Start' /\ pc' = "length" /\ disk' = disk
    BY <1>3 DEF ReadFound, Start
  <2> QED BY <2>1, OnChainFirst DEF Plain
<1>4. CASE \/ LengthZero \/ ReturnDirents \/ ReturnDirent \/ ReturnEmpty \/ ReturnFile
           \/ Overrun \/ Fail
  <2>1. pc' \in {"scan", "idle", "overrun", "failed"}
    BY <1>4 DEF LengthZero, Allocate, ReturnDirents, ReturnDirent, ReturnEmpty, ReturnFile, Return,
                Overrun, Fail, Stop
  <2> QED BY <2>1 DEF OnChain
<1>5. ASSUME NEW p \in Paths \cup {<<>>}, IsChain(p, Start)', Start' = Start, disk' = disk,
             LengthLast \/ LengthNext \/ LengthAssert \/ ReadCluster \/ ReadAssert
      PROVE  /\ pc' = "length" /\ Start' # 0 => n' + 1 \in 1..Len(p) /\ cluster' = p[n' + 1]
             /\ pc' = "read" => /\ Start' # 0 /\ Len(buf') + 1 \in 1..Len(p)
                                /\ cluster' = p[Len(buf') + 1]
             /\ pc' # "halted"
  <2>1. IsChain(p, Start)
    BY <1>5, ChainStays DEF IsChain
  <2>2. /\ pc = "length" /\ Start # 0 => n + 1 \in 1..Len(p) /\ cluster = p[n + 1]
        /\ pc = "read" => /\ Start # 0 /\ Len(buf) + 1 \in 1..Len(p)
                          /\ cluster = p[Len(buf) + 1]
    BY <2>1 DEF OnChain
  <2>3. Start # 0
    BY <1>5, <2>2 DEF LengthLast, LengthNext, LengthAssert, ReadCluster, ReadAssert
  <2>4. /\ Len(p) \in Nat \ {0} /\ p[1] = Start
        /\ \A i \in 1..Len(p) : /\ p[i] \in Cluster /\ p[i] >= 2
                                /\ Type(p[i]) = IF i = Len(p) THEN "LAST" ELSE "USED"
        /\ \A i \in 1..(Len(p) - 1) : p[i + 1] = disk.fat[p[i]]
    BY <2>1, <2>3, ChainMet
  <2>5. CASE LengthLast
    <3>1. pc' \in {"read", "scan"} /\ buf' = <<>> /\ cluster' = Start
      BY <1>5, <2>5 DEF LengthLast, Allocate, TypeOK
    <3>2. Len(buf') + 1 = 1
      BY <3>1, EmptySeq
    <3> QED BY <1>5, <2>3, <2>4, <3>1, <3>2
  <2>6. CASE LengthNext
    <3>1. /\ pc = "length" /\ pc' = "length" /\ Type(cluster) = "USED"
          /\ cluster' = disk.fat[cluster] /\ n' = n + 1 /\ n \in Nat
      BY <2>6 DEF LengthNext, TypeOK
    <3>2. n + 1 \in 1..(Len(p) - 1)
      BY <2>2, <2>3, <2>4, <3>1
    <3> QED BY <2>2, <2>3, <2>4, <3>1, <3>2
  <2>7. CASE LengthAssert
    <3>1. cluster \notin Cluster \/ Type(cluster) \notin {"LAST", "USED"}
      BY <2>7 DEF LengthAssert
    <3>2. pc = "length"
      BY <2>7 DEF LengthAssert
    <3> QED BY <2>2, <2>3, <2>4, <3>1, <3>2
  <2>8. CASE ReadCluster
    <3>1. /\ pc = "read" /\ cluster \in Cluster /\ buf \in Seq(Cluster)
          /\ buf' = Append(buf, cluster)
      BY <2>8 DEF ReadCluster, TypeOK
    <3>2. Len(buf') = Len(buf) + 1 /\ Len(buf) \in Nat
      BY <3>1, AppendProperties, LenProperties
    <3>3. CASE Type(cluster) = "LAST"
      <4>1. pc' = "scan"
        BY <2>8, <3>3 DEF ReadCluster
      <4> QED BY <4>1
    <3>4. CASE Type(cluster) # "LAST"
      <4>1. pc' = "read" /\ cluster' = disk.fat[cluster]
        BY <2>8, <3>1, <3>4 DEF ReadCluster
      <4>2. Len(buf) + 1 \in 1..(Len(p) - 1)
        BY <2>2, <2>4, <3>1, <3>2, <3>4
      <4> QED BY <1>5, <2>2, <2>3, <2>4, <3>1, <3>2, <4>1, <4>2
    <3> QED BY <3>3, <3>4
  <2>9. CASE ReadAssert
    <3>1. /\ pc = "read"
          /\ cluster >= 2 => cluster \in Cluster /\ Type(cluster) \notin {"LAST", "USED"}
      BY <2>9 DEF ReadAssert
    <3> QED BY <2>2, <2>4, <3>1
  <2> QED BY <1>5, <2>5, <2>6, <2>7, <2>8, <2>9
<1>6. CASE LengthLast \/ LengthNext \/ LengthAssert \/ ReadCluster \/ ReadAssert
  <2>1. disk' = disk /\ Start' = Start
    BY <1>6 DEF LengthLast, LengthNext, LengthAssert, ReadCluster, ReadAssert, Allocate, Stop, Start
  <2> QED BY <1>5, <1>6, <2>1 DEF OnChain, Paths
<1> QED BY <1>1, <1>2, <1>3, <1>4, <1>6 DEF Next, Step, Length, Scan

\* Where no entry of the table has its upper bits set, the driver gives up (a failed assert or
\* a panic) only if the table has no chain from the cluster it started at.
THEOREM HaltsOnCorrupt ==
    ASSUME \A d \in Disks : \A c \in Cluster : d.fat[c] < Hi
    PROVE  Spec => []HaltsOnlyIfCorrupt
<1>1. Init => Plain /\ OnChain
  BY DiskAssumption DEF Init, Plain, OnChain
<1>2. Plain /\ [Next]_vars => Plain'
  BY DiskKept DEF Plain
<1>3. TypeOK /\ Plain /\ OnChain /\ [Next]_vars => OnChain'
  BY NextOnChain
<1>4. OnChain => HaltsOnlyIfCorrupt
  BY DEF OnChain, HaltsOnlyIfCorrupt
<1> QED BY <1>1, <1>2, <1>3, <1>4, TypeCorrect, PTL DEF Spec
=============================================================================
