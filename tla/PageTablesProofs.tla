-------------------------- MODULE PageTablesProofs --------------------------
(***************************************************************************)
(* What PageTables promises, proved for any sections and values.           *)
(*                                                                         *)
(* The invariant speaks of instructions that are still to be executed: at  *)
(* the call a routine is checked as a whole, and every later step finds    *)
(* what was checked one place nearer.  Found(c, i, B, N) says of it that   *)
(* before the i-th instruction of c one in B is executed, with none in N   *)
(* after it.  It is built in layers, each on those before it:              *)
(*   Shapes     types, but for what memory holds                           *)
(*   Unbooted   before vm_map_kernel nothing is written or under way       *)
(*   Waits      a barrier waits for each write, store and operation before *)
(*              an instruction that needs its effect                       *)
(*   RegRules,  a table is used only when it maps the kernel and no store  *)
(*   RegState   to it is under way, and the MMU turned on only then        *)
(*   UserRules, the ASID is 0 while the tables are exchanged, so that no   *)
(*   UserState  walk tags an entry of one table with the ASID of another   *)
(*   CacheRules with the MMU on the cache holds nothing from power-up, and *)
(*   CacheState with the MMU off nothing that the program stored           *)
(* From the last two, what a section holds for the program is never        *)
(* changed by a line that leaves the cache, and the refinement follows.    *)
(***************************************************************************)
EXTENDS PageTables, WellFoundedInduction, SequenceTheorems, TLAPS

----------------------------------------------------------------------------
(* The last write of a sequence                                            *)

\* A set of naturals with a bound has a greatest element.
LEMMA GreatestExists ==
    ASSUME NEW n \in Nat, NEW T, T \subseteq 1..n, T # {}
    PROVE  \E x \in T : \A y \in T : y <= x
<1> DEFINE R == {n - x : x \in T}
<1>1. R \subseteq Nat /\ R # {}
  <2>1. \A x \in T : n - x \in Nat
    OBVIOUS
  <2>2. PICK x \in T : TRUE
    OBVIOUS
  <2>3. n - x \in R
    OBVIOUS
  <2> QED BY <2>1, <2>3, Zenon
<1> HIDE DEF R
<1>2. PICK z \in R : \A y \in R : ~ (<<y, z>> \in OpToRel(<, Nat))
  <2>1. IsWellFoundedOn(OpToRel(<, Nat), Nat)
    BY NatLessThanWellFounded
  <2> QED BY <1>1, <2>1, WFMin, Zenon
<1>3. PICK x \in T : z = n - x
  BY <1>2 DEF R
<1>4. ASSUME NEW y \in T, ~(y <= x) PROVE FALSE
  <2>1. x \in Nat /\ y \in Nat /\ n - y \in R /\ n - y < z /\ n - y \in Nat /\ z \in Nat
    BY <1>1, <1>3, <1>4 DEF R
  <2>2. <<n - y, z>> \in Nat \X Nat /\ <<n - y, z>>[1] < <<n - y, z>>[2]
    BY <2>1
  <2>3. <<n - y, z>> \in OpToRel(<, Nat)
    BY <2>2 DEF OpToRel
  <2> QED BY <1>2, <2>1, <2>3
<1> QED BY <1>4

\* The i-th write of s is one to x.
Concerns(s, op, x, i) == i \in 1..Len(s) /\ s[i].op = op /\ s[i].to = x

\* With no write to x in s, what was there stays.
LEMMA LatestNone ==
    ASSUME NEW s, NEW op, NEW x, NEW now, \A i \in 1..Len(s) : ~Concerns(s, op, x, i)
    PROVE  Latest(s, op, x, now) = now
BY DEF Latest, Concerns

\* A write to x with none to x after it is the latest.
LEMMA LatestIs ==
    ASSUME NEW S, NEW s \in Seq(S), NEW op, NEW x, NEW now, NEW i, Concerns(s, op, x, i),
           \A j \in i+1..Len(s) : ~Concerns(s, op, x, j)
    PROVE  Latest(s, op, x, now) = s[i].val
<1> DEFINE W == {j \in 1..Len(s) : s[j].op = op /\ s[j].to = x}
<1>1. i \in W /\ W \subseteq Nat /\ i \in Nat /\ Len(s) \in Nat
  BY DEF Concerns
<1>2. ASSUME NEW j \in W PROVE j <= i
  <2>1. j \in 1..Len(s) /\ Concerns(s, op, x, j)
    BY DEF Concerns
  <2> QED BY <2>1, <1>1
<1>3. Latest(s, op, x, now) = IF W = {} THEN now ELSE s[Max(W)].val
  BY DEF Latest
<1> HIDE DEF W
<1>4. Max(W) = i
  <2>1. \A j \in W : i >= j
    BY <1>1, <1>2
  <2>2. \A j \in W : (\A y \in W : j >= y) => j = i
    BY <1>1, <2>1
  <2> QED BY <1>1, <2>1, <2>2 DEF Max
<1> QED BY <1>1, <1>3, <1>4

\* Of the writes to x, one is the last.
LEMMA LastHit ==
    ASSUME NEW S, NEW s \in Seq(S), NEW op, NEW x, NEW i, Concerns(s, op, x, i)
    PROVE  \E j \in 1..Len(s) : Concerns(s, op, x, j) /\
               \A k \in j+1..Len(s) : ~Concerns(s, op, x, k)
<1> DEFINE W == {j \in 1..Len(s) : Concerns(s, op, x, j)}
<1>1. i \in W /\ W \subseteq 1..Len(s) /\ Len(s) \in Nat
  BY DEF Concerns
<1>2. PICK j \in W : \A k \in W : k <= j
  <2> HIDE DEF W
  <2>1. W # {}
    BY <1>1
  <2> QED BY <1>1, <2>1, GreatestExists
<1>3. ASSUME NEW k \in j+1..Len(s), Concerns(s, op, x, k) PROVE FALSE
  <2>1. j \in 1..Len(s) /\ k \in 1..Len(s)
    BY <1>1
  <2>2. k <= j
    BY <1>2, <1>3, <2>1
  <2> QED BY <2>1, <2>2
<1> QED BY <1>2, <1>3

\* What is latest is what was there, or what a write in s stores.
LEMMA LatestOf ==
    ASSUME NEW S, NEW s \in Seq(S), NEW op, NEW x, NEW now
    PROVE  \/ Latest(s, op, x, now) = now
           \/ \E i \in 1..Len(s) : Concerns(s, op, x, i) /\ Latest(s, op, x, now) = s[i].val
<1>1. CASE \E i \in 1..Len(s) : Concerns(s, op, x, i)
  BY <1>1, LastHit, LatestIs
<1>2. CASE ~\E i \in 1..Len(s) : Concerns(s, op, x, i)
  BY <1>2, LatestNone
<1> QED BY <1>1, <1>2

\* The first write made changes what was there, and so not what is latest.
LEMMA LatestTail ==
    ASSUME NEW S, NEW s \in Seq(S), s # <<>>, NEW op, NEW x, NEW now
    PROVE  Latest(s, op, x, now)
             = Latest(Tail(s), op, x, IF s[1].op = op /\ s[1].to = x THEN s[1].val ELSE now)
<1> DEFINE t == Tail(s)
           d == IF s[1].op = op /\ s[1].to = x THEN s[1].val ELSE now
<1>1. /\ t \in Seq(S) /\ Len(t) = Len(s) - 1 /\ Len(s) \in Nat \ {0}
      /\ \A i \in 1..Len(t) : t[i] = s[i + 1]
  BY HeadTailProperties, EmptySeq
<1>2. \A i \in 1..Len(t) : Concerns(t, op, x, i) <=> Concerns(s, op, x, i + 1)
  BY <1>1 DEF Concerns
<1> HIDE DEF t
<1>3. CASE \E i \in 1..Len(t) : Concerns(t, op, x, i)
  <2>1. PICK i \in 1..Len(t) : Concerns(t, op, x, i) /\
        \A k \in i+1..Len(t) : ~Concerns(t, op, x, k)
    BY <1>1, <1>3, LastHit
  <2>2. Latest(t, op, x, d) = t[i].val
    <3> HIDE DEF d
    <3> QED BY <1>1, <2>1, LatestIs
  <2>3. Concerns(s, op, x, i + 1)
    BY <1>2, <2>1
  <2>4. ASSUME NEW k \in (i + 1)+1..Len(s) PROVE ~Concerns(s, op, x, k)
    <3>1. k - 1 \in i+1..Len(t) /\ k - 1 \in 1..Len(t) /\ (k - 1) + 1 = k
      BY <1>1
    <3> QED BY <1>2, <2>1, <3>1
  <2>5. Latest(s, op, x, now) = s[i + 1].val
    BY <2>3, <2>4, LatestIs
  <2> QED BY <1>1, <2>2, <2>5 DEF t
<1>4. CASE ~\E i \in 1..Len(t) : Concerns(t, op, x, i)
  <2>1. Latest(t, op, x, d) = d
    <3> HIDE DEF d
    <3> QED BY <1>4, LatestNone
  <2>2. ASSUME NEW k \in 1+1..Len(s) PROVE ~Concerns(s, op, x, k)
    <3>1. k - 1 \in 1..Len(t) /\ (k - 1) + 1 = k
      BY <1>1
    <3> QED BY <1>2, <1>4, <3>1
  <2>3. CASE Concerns(s, op, x, 1)
    <3>1. Latest(s, op, x, now) = s[1].val
      BY <2>2, <2>3, LatestIs
    <3> QED BY <2>1, <2>3, <3>1 DEF Concerns, t
  <2>4. CASE ~Concerns(s, op, x, 1)
    <3>1. \A k \in 1..Len(s) : ~Concerns(s, op, x, k)
      <4> TAKE k \in 1..Len(s)
      <4>1. k = 1 \/ k \in 1+1..Len(s)
        OBVIOUS
      <4> QED BY <2>2, <2>4, <4>1
    <3>2. Latest(s, op, x, now) = now
      BY <3>1, LatestNone
    <3> QED BY <1>1, <2>1, <2>4, <3>2 DEF Concerns, t
  <2> QED BY <2>3, <2>4
<1> QED BY <1>3, <1>4

\* A write at the end is the latest.
LEMMA LatestAppend ==
    ASSUME NEW S, NEW s \in Seq(S), NEW a \in S, NEW op, NEW x, NEW now
    PROVE  Latest(Append(s, a), op, x, now)
             = IF a.op = op /\ a.to = x THEN a.val ELSE Latest(s, op, x, now)
<1> DEFINE t == Append(s, a)
<1>1. /\ t \in Seq(S) /\ Len(t) = Len(s) + 1 /\ Len(s) \in Nat /\ t[Len(t)] = a
      /\ \A i \in 1..Len(s) : t[i] = s[i]
  BY AppendProperties
<1> HIDE DEF t
<1>2. \A i \in 1..Len(s) : Concerns(t, op, x, i) <=> Concerns(s, op, x, i)
  BY <1>1 DEF Concerns
<1>3. CASE a.op = op /\ a.to = x
  <2>1. Concerns(t, op, x, Len(t)) /\ \A k \in Len(t)+1..Len(t) : ~Concerns(t, op, x, k)
    BY <1>1, <1>3 DEF Concerns
  <2>2. Latest(t, op, x, now) = t[Len(t)].val
    BY <1>1, <2>1, LatestIs
  <2> QED BY <1>1, <1>3, <2>2 DEF t
<1>4. CASE ~(a.op = op /\ a.to = x)
  <2>1. ~Concerns(t, op, x, Len(t))
    BY <1>1, <1>4 DEF Concerns
  <2>2. CASE \E i \in 1..Len(s) : Concerns(s, op, x, i)
    <3>1. PICK i \in 1..Len(s) : Concerns(s, op, x, i) /\
          \A k \in i+1..Len(s) : ~Concerns(s, op, x, k)
      BY <2>2, LastHit
    <3>2. Latest(s, op, x, now) = s[i].val
      BY <3>1, LatestIs
    <3>3. Concerns(t, op, x, i)
      BY <1>2, <3>1
    <3>4. ASSUME NEW k \in i+1..Len(t) PROVE ~Concerns(t, op, x, k)
      <4>1. k = Len(t) \/ (k \in 1..Len(s) /\ k \in i+1..Len(s))
        BY <1>1
      <4> QED BY <1>2, <2>1, <3>1, <4>1
    <3>5. Latest(t, op, x, now) = t[i].val
      BY <1>1, <3>3, <3>4, LatestIs
    <3> QED BY <1>1, <1>4, <3>2, <3>5 DEF t
  <2>3. CASE ~\E i \in 1..Len(s) : Concerns(s, op, x, i)
    <3>1. \A k \in 1..Len(t) : ~Concerns(t, op, x, k)
      <4> TAKE k \in 1..Len(t)
      <4>1. k = Len(t) \/ k \in 1..Len(s)
        BY <1>1
      <4> QED BY <1>2, <2>1, <2>3, <4>1
    <3>2. Latest(t, op, x, now) = now /\ Latest(s, op, x, now) = now
      BY <2>3, <3>1, LatestNone
    <3> QED BY <1>4, <3>2 DEF t
  <2> QED BY <2>2, <2>3
<1> QED BY <1>3, <1>4

----------------------------------------------------------------------------
(* Instructions                                                            *)

\* The field op tells which instruction it is.
LEMMA Kinds ==
    ASSUME NEW c \in Instruction
    PROVE  /\ c.op = "dsb" <=> c = DSB
           /\ c.op = "flush" <=> c = PREFETCH_FLUSH
           /\ c.op \in {"inv_tlb", "inv", "clean_inv"} <=> c \in Maintenance
           /\ c \in Maintenance => c = [op |-> c.op]
           /\ c.op = "set" <=> c \in Cp15Writes
           /\ c.op = "pte" <=> c \in Stores
           /\ c.op \in {"dsb", "flush", "inv_tlb", "inv", "clean_inv", "set", "pte"}
BY DEF Instruction, Barriers, Maintenance, Cp15Writes, Stores, DSB, PREFETCH_FLUSH, INV_TLB,
       INV_DCACHE, CLEAN_INV_DCACHE

\* The kinds of instructions, each different from the others.
LEMMA Codes ==
    /\ DSB \in Instruction /\ PREFETCH_FLUSH \in Instruction /\ Maintenance \subseteq Instruction
    /\ Stores \subseteq Instruction /\ Cp15Writes \subseteq Instruction
    /\ INV_TLB \in Maintenance /\ INV_DCACHE \in Maintenance /\ CLEAN_INV_DCACHE \in Maintenance
    /\ DSB \notin Cp15Writes \cup Stores \cup Maintenance /\
           PREFETCH_FLUSH \notin Cp15Writes \cup Stores \cup Maintenance
    /\ DSB # PREFETCH_FLUSH
    /\ INV_TLB.op = "inv_tlb" /\ INV_DCACHE.op = "inv" /\ CLEAN_INV_DCACHE.op = "clean_inv"
    /\ \A c \in Maintenance : c \notin Cp15Writes \cup Stores
    /\ \A c \in Stores : c \notin Cp15Writes
BY DEF Instruction, Barriers, Maintenance, Cp15Writes, Stores, DSB, PREFETCH_FLUSH, INV_TLB,
       INV_DCACHE, CLEAN_INV_DCACHE

\* A write to cp15 holds its register and its value.
LEMMA SetIs ==
    ASSUME NEW r, NEW v
    PROVE  /\ r \in {"mmu", "client"} /\ v \in {0, 1} => Set(r, v) \in Cp15Writes
           /\ r \in {"ttbr", "asid"} /\ v \in Table \cup {0} => Set(r, v) \in Cp15Writes
           /\ Set(r, v).op = "set" /\ Set(r, v).to = r /\ Set(r, v).val = v
BY DEF Set, Cp15Writes

\* A store holds its entry of the tables and what it stores there.
LEMMA PteIs ==
    ASSUME NEW t \in Table, NEW va \in Va, NEW e \in Entry
    PROVE  /\ StorePte(t, va, e) \in Stores
           /\ StorePte(t, va, e).op = "pte" /\ StorePte(t, va, e).to = <<t, va>>
           /\ StorePte(t, va, e).val = e
BY DEF StorePte, Stores

\* A record is made of its fields.
LEMMA RecordIs ==
    ASSUME NEW X, NEW Y, NEW Z, NEW c \in [op : X, to : Y, val : Z]
    PROVE  c = [op |-> c.op, to |-> c.to, val |-> c.val] /\ c.op \in X /\ c.to \in Y /\ c.val \in Z
OBVIOUS

\* Every write to cp15 is one of a value the register can hold.
LEMMA WriteIs ==
    ASSUME NEW c \in Cp15Writes
    PROVE  /\ c = Set(c.to, c.val)
           /\ \/ c.to \in {"mmu", "client"} /\ c.val \in {0, 1}
              \/ c.to \in {"ttbr", "asid"} /\ c.val \in Table \cup {0}
<1>1. CASE c \in [op : {"set"}, to : {"mmu", "client"}, val : {0, 1}]
  <2>1. c = [op |-> c.op, to |-> c.to, val |-> c.val] /\ c.op \in {"set"} /\
        c.to \in {"mmu", "client"} /\ c.val \in {0, 1}
    BY <1>1, RecordIs
  <2>2. c.op = "set"
    BY <2>1
  <2>3. c = Set(c.to, c.val)
    BY <2>1, <2>2, Zenon DEF Set
  <2> QED BY <2>1, <2>3, Zenon
<1>2. CASE c \in [op : {"set"}, to : {"ttbr", "asid"}, val : Table \cup {0}]
  <2>1. c = [op |-> c.op, to |-> c.to, val |-> c.val] /\ c.op \in {"set"} /\
        c.to \in {"ttbr", "asid"} /\ c.val \in Table \cup {0}
    BY <1>2, RecordIs
  <2>2. c.op = "set"
    BY <2>1
  <2>3. c = Set(c.to, c.val)
    BY <2>1, <2>2, Zenon DEF Set
  <2> QED BY <2>1, <2>3, Zenon
<1> QED BY <1>1, <1>2 DEF Cp15Writes

\* Every store is one of an entry to a table.
LEMMA StoreIs ==
    ASSUME NEW c \in Stores
    PROVE  /\ c.to \in Table \X Va /\ c.val \in Entry /\ c.to[1] \in Table /\ c.to[2] \in Va
           /\ c.to = <<c.to[1], c.to[2]>> /\ c = StorePte(c.to[1], c.to[2], c.val)
BY DEF Stores, StorePte

\* What the routines store in a table are entries.
LEMMA Entries ==
    /\ Fault \in Entry /\ \A p \in Pa \cup {Kernel}, g \in BOOLEAN : Pte(p, g) \in Entry
BY DEF Entry, Fault, Pte, Kernel

----------------------------------------------------------------------------
(* The instructions before the i-th one of c                               *)

\* One of them is in B, and none after it in N.
Found(c, i, B, N) == \E j \in 1..i-1 : c[j] \in B /\ \A k \in j+1..i-1 : c[k] \notin N

\* None is in N.
Free(c, i, N) == \A k \in 1..i-1 : c[k] \notin N

\* Once the first instruction is executed, the others are one place nearer: what was found
\* before the next place is still, unless the first one was it.
LEMMA ShiftFound ==
    ASSUME NEW S, NEW c \in Seq(S), c # <<>>, NEW i \in 1..Len(c), NEW B, NEW N,
           Found(c, i + 1, B, N)
    PROVE  Found(Tail(c), i, B, N) \/ (c[1] \in B /\ Free(Tail(c), i, N))
<1> DEFINE t == Tail(c)
<1>1. /\ Len(t) = Len(c) - 1 /\ Len(c) \in Nat \ {0} /\ \A k \in 1..Len(t) : t[k] = c[k + 1]
  BY HeadTailProperties, EmptySeq
<1> HIDE DEF t
<1>2. PICK j \in 1..(i+1)-1 : c[j] \in B /\ \A k \in j+1..(i+1)-1 : c[k] \notin N
  BY DEF Found
<1>3. \A k \in 1..i-1 : t[k] = c[k + 1]
  BY <1>1
<1>4. \A k \in j..i-1 : k \in 1..i-1 => t[k] \notin N
  <2> TAKE k \in j..i-1
  <2>1. k + 1 \in j+1..(i+1)-1
    OBVIOUS
  <2> QED BY <1>2, <1>3, <2>1
<1>5. CASE j = 1
  <2>1. \A k \in 1..i-1 : t[k] \notin N
    BY <1>4, <1>5
  <2> QED BY <1>2, <1>5, <2>1 DEF Free, t
<1>6. CASE j # 1
  <2>1. j - 1 \in 1..i-1 /\ t[j - 1] = c[j] /\ \A k \in (j-1)+1..i-1 : k \in j..i-1 /\ k \in 1..i-1
    <3>1. j - 1 \in 1..i-1 /\ (j - 1) + 1 = j
      BY <1>6
    <3> QED BY <1>3, <3>1
  <2>2. t[j - 1] \in B /\ \A k \in (j-1)+1..i-1 : t[k] \notin N
    BY <1>2, <1>4, <2>1
  <2> QED BY <2>1, <2>2 DEF Found, t
<1> QED BY <1>5, <1>6

\* The same of what none is in.
LEMMA ShiftFree ==
    ASSUME NEW S, NEW c \in Seq(S), c # <<>>, NEW i \in 1..Len(c), NEW N, Free(c, i + 1, N)
    PROVE  Free(Tail(c), i, N) /\ c[1] \notin N
<1> DEFINE t == Tail(c)
<1>1. /\ Len(t) = Len(c) - 1 /\ Len(c) \in Nat \ {0} /\ \A k \in 1..Len(t) : t[k] = c[k + 1]
  BY HeadTailProperties, EmptySeq
<1> HIDE DEF t
<1>2. \A k \in 1..i-1 : t[k] = c[k + 1] /\ k + 1 \in 1..(i+1)-1
  BY <1>1
<1>3. 1 \in 1..(i+1)-1
  OBVIOUS
<1> QED BY <1>2, <1>3 DEF Free, t

\* Both, one instruction further.
LEMMA FoundStep ==
    ASSUME NEW c, NEW B, NEW N, NEW i \in Nat, i > 1
    PROVE  Found(c, i, B, N) <=> c[i-1] \in B \/ (Found(c, i-1, B, N) /\ c[i-1] \notin N)
<1>1. ASSUME c[i-1] \in B PROVE Found(c, i, B, N)
  BY <1>1 DEF Found
<1>2. ASSUME Found(c, i-1, B, N), c[i-1] \notin N PROVE Found(c, i, B, N)
  BY <1>2 DEF Found
<1>3. ASSUME Found(c, i, B, N), c[i-1] \notin B PROVE Found(c, i-1, B, N) /\ c[i-1] \notin N
  BY <1>3 DEF Found
<1> QED BY <1>1, <1>2, <1>3

LEMMA FreeStep ==
    ASSUME NEW c, NEW N, NEW i \in Nat, i > 1
    PROVE  Free(c, i, N) <=> Free(c, i-1, N) /\ c[i-1] \notin N
BY DEF Free

\* Nothing comes before the first instruction.
LEMMA NoneBefore ==
    ASSUME NEW c, NEW B, NEW N
    PROVE  ~Found(c, 1, B, N) /\ Free(c, 1, N)
BY DEF Found, Free

----------------------------------------------------------------------------
(* Types, as far as the instructions alone give them                       *)

Shapes ==
    /\ code \in Seq(Instruction) /\ booted \in BOOLEAN
    /\ pt \in [Table -> [Va -> Entry]] /\ wbuf \in Seq(Stores)
    /\ reg \in [mmu : {0, 1}, ttbr : Table \cup {0}, asid : Table \cup {0}, client : {0, 1}]
    /\ pend \in Seq(Cp15Writes) /\ maint \subseteq {"inv_tlb", "inv", "clean_inv"}
    /\ tlb \subseteq [tag : Table \cup {0, Global}, va : Va, pte : Entry]
    /\ mem \in [Pa -> Val \cup {Junk}] /\ cache \in [Pa -> Val \cup {"none", Junk}]

\* What a table holds, once every store is made, is an entry.
LEMMA WrittenIs ==
    ASSUME Shapes, NEW t \in Table, NEW va \in Va
    PROVE  Written(t, va) \in Entry
<1>1. pt[t][va] \in Entry
  BY DEF Shapes
<1> DEFINE w == Latest(wbuf, "pte", <<t, va>>, pt[t][va])
<1>2. w \in Entry
  <2>1. CASE w = pt[t][va]
    BY <1>1, <2>1
  <2>2. CASE w # pt[t][va]
    <3>1. wbuf \in Seq(Stores)
      BY DEF Shapes
    <3>2. PICK i \in 1..Len(wbuf) : w = wbuf[i].val
      BY <2>2, <3>1, LatestOf
    <3>3. wbuf[i] \in Stores
      BY <3>1, ElementOfSeq
    <3> QED BY <3>2, <3>3, StoreIs
  <2> QED BY <2>1, <2>2
<1> HIDE DEF w
<1>3. CASE Latest(code, "pte", <<t, va>>, w) = w
  BY <1>2, <1>3 DEF Written, w
<1>4. CASE Latest(code, "pte", <<t, va>>, w) # w
  <2>1. code \in Seq(Instruction)
    BY DEF Shapes
  <2>2. PICK i \in 1..Len(code) : Concerns(code, "pte", <<t, va>>, i) /\
        Latest(code, "pte", <<t, va>>, w) = code[i].val
    BY <1>4, <2>1, LatestOf
  <2>3. code[i] \in Instruction
    BY <2>1, ElementOfSeq
  <2>4. code[i] \in Stores
    BY <2>2, <2>3, Kinds DEF Concerns
  <2> QED BY <2>2, <2>4, StoreIs DEF Written, w
<1> QED BY <1>3, <1>4

\* An instruction starts its operation, and a barrier has waited for what it waits for.
LEMMA Executes ==
    ASSUME Shapes, Processor
    PROVE  /\ code # <<>> /\ code' = Tail(code) /\ code[1] \in Instruction
           /\ UNCHANGED <<booted, pt, reg, tlb, cache, mem, rd>>
           /\ code[1] = DSB => wbuf = <<>> /\ maint = {}
           /\ code[1] = PREFETCH_FLUSH => pend = <<>>
           /\ maint' = IF code[1] \in Maintenance THEN maint \cup {code[1].op} ELSE maint
           /\ pend' = IF code[1] \in Cp15Writes THEN Append(pend, code[1]) ELSE pend
           /\ wbuf' = IF code[1] \in Stores THEN Append(wbuf, code[1]) ELSE wbuf
<1> DEFINE h == code[1]
<1>1. code # <<>> /\ code' = Tail(code) /\ Head(code) = h
  BY DEF Processor, Barrier, PrefetchFlush, Maintain, Cp15Write, PteStore, Next1
<1>2. h \in Instruction
  <2>1. code \in Seq(Instruction)
    BY DEF Shapes
  <2> QED BY <1>1, <2>1, HeadTailProperties
<1> HIDE DEF h
<1>3. CASE Barrier
  <2>1. h = DSB
    BY <1>1, <1>2, <1>3, Kinds DEF Barrier, Next1
  <2> QED BY <1>1, <1>2, <1>3, <2>1, Codes DEF Barrier, h
<1>4. CASE PrefetchFlush
  <2>1. h = PREFETCH_FLUSH
    BY <1>1, <1>2, <1>4, Kinds DEF PrefetchFlush, Next1
  <2> QED BY <1>1, <1>2, <1>4, <2>1, Codes DEF PrefetchFlush, h
<1>5. CASE Maintain
  <2>1. h \in Maintenance
    BY <1>1, <1>2, <1>5, Kinds DEF Maintain, Next1
  <2> QED BY <1>1, <1>2, <1>5, <2>1, Codes DEF Maintain, h
<1>6. CASE Cp15Write
  <2>1. h \in Cp15Writes
    BY <1>1, <1>2, <1>6, Kinds DEF Cp15Write, Next1
  <2> QED BY <1>1, <1>2, <1>6, <2>1, Codes DEF Cp15Write, h
<1>7. CASE PteStore
  <2>1. h \in Stores
    BY <1>1, <1>2, <1>7, Kinds DEF PteStore, Next1
  <2> QED BY <1>1, <1>2, <1>7, <2>1, Codes DEF PteStore, h
<1> QED BY <1>3, <1>4, <1>5, <1>6, <1>7 DEF Processor

\* The routines are made of instructions.
LEMMA Routines ==
    /\ mmu_init \in Seq(Instruction) /\ cp15_domain_ctrl_wr \in Seq(Instruction)
    /\ mmu_sync_pte_mods \in Seq(Instruction) /\ mmu_disable \in Seq(Instruction)
    /\ mmu_enable \in Seq(Instruction)
    /\ \A t \in Table : cp15_set_procid_ttbr0(t) \in Seq(Instruction)
    /\ \A t \in Table, va \in Va, p \in Pa \cup {Kernel}, g \in BOOLEAN :
          vm_map_sec(t, va, p, g) \in Seq(Instruction)
<1>1. /\ DSB \in Instruction /\ PREFETCH_FLUSH \in Instruction /\ INV_TLB \in Instruction
      /\ INV_DCACHE \in Instruction /\ CLEAN_INV_DCACHE \in Instruction
      /\ \A v \in {0, 1} : Set("mmu", v) \in Instruction /\ Set("client", v) \in Instruction
      /\ \A v \in Table \cup {0} : Set("ttbr", v) \in Instruction /\ Set("asid", v) \in Instruction
      /\ \A t \in Table, va \in Va, e \in Entry : StorePte(t, va, e) \in Instruction
  BY Codes, SetIs, PteIs
<1>2. /\ mmu_reset \in Seq(Instruction) /\
             \A m \in {0, 1} : cp15_ctrl_reg1_wr(m) \in Seq(Instruction)
  BY <1>1 DEF mmu_reset, cp15_ctrl_reg1_wr
<1>3. mmu_init \in Seq(Instruction) /\ mmu_sync_pte_mods \in Seq(Instruction)
  BY <1>1, <1>2 DEF mmu_init, mmu_sync_pte_mods
<1>4. mmu_enable \in Seq(Instruction) /\ cp15_domain_ctrl_wr \in Seq(Instruction)
  BY <1>1 DEF mmu_enable, cp15_domain_ctrl_wr
<1>5. mmu_disable \in Seq(Instruction)
  <2>1. <<DSB, CLEAN_INV_DCACHE, DSB, Set("mmu", 0), DSB, PREFETCH_FLUSH>> \in Seq(Instruction)
    BY <1>1
  <2> QED BY <1>2, <2>1 DEF mmu_disable
<1>6. ASSUME NEW t \in Table PROVE cp15_set_procid_ttbr0(t) \in Seq(Instruction)
  BY <1>1 DEF cp15_set_procid_ttbr0
<1>7. ASSUME NEW t \in Table, NEW va \in Va, NEW p \in Pa \cup {Kernel}, NEW g \in BOOLEAN
      PROVE  vm_map_sec(t, va, p, g) \in Seq(Instruction)
  <2>1. /\ Fault \in Entry /\ Pte(Kernel, TRUE) \in Entry /\ Pte(Kernel, g) \in Entry /\
               Pte(p, g) \in Entry
    BY Entries
  <2> DEFINE s1 == StorePte(t, va, Fault)
             s2 == StorePte(t, va, Pte(Kernel, TRUE))
             s3 == StorePte(t, va, Pte(Kernel, g))
             s4 == StorePte(t, va, Pte(p, g))
  <2>2. s1 \in Instruction /\ s2 \in Instruction /\ s3 \in Instruction /\ s4 \in Instruction
    BY <1>1, <2>1
  <2>3. vm_map_sec(t, va, p, g) = <<s1, s2, s3, s4>> \o mmu_sync_pte_mods
    BY Zenon DEF vm_map_sec
  <2> HIDE DEF s1, s2, s3, s4
  <2>4. <<s1, s2, s3, s4>> \in Seq(Instruction)
    BY <2>2
  <2> QED BY <1>3, <2>3, <2>4, ConcatProperties
<1> QED BY <1>3, <1>4, <1>5, <1>6, <1>7

Boot(enable) ==
    mmu_init \o cp15_domain_ctrl_wr \o vm_map_sec(1, "kern", Kernel, TRUE)
      \o cp15_set_procid_ttbr0(1) \o (IF enable THEN mmu_sync_pte_mods \o mmu_enable ELSE <<>>)

Mapping(t, p) == vm_map_sec(t, "user", p, FALSE)

Copy(t, u) ==
    <<StorePte(u, "kern", vm_lookup(t, "kern")), StorePte(u, "user", vm_lookup(t, "user"))>>

\* What vm_map_kernel executes is made of instructions.
LEMMA BootType == ASSUME NEW enable \in BOOLEAN PROVE Boot(enable) \in Seq(Instruction)
<1>1. 1 \in Table /\ "kern" \in Va /\ Kernel \in Pa \cup {Kernel} /\ TRUE \in BOOLEAN
  BY DEF Table, Va
<1>2. vm_map_sec(1, "kern", Kernel, TRUE) \in Seq(Instruction) /\
      cp15_set_procid_ttbr0(1) \in Seq(Instruction)
  BY <1>1, Routines
<1>3. (IF enable THEN mmu_sync_pte_mods \o mmu_enable ELSE <<>>) \in Seq(Instruction)
  <2>1. mmu_sync_pte_mods \o mmu_enable \in Seq(Instruction)
    BY Routines, ConcatProperties
  <2> QED BY <2>1
<1> QED BY <1>2, <1>3, Routines, ConcatProperties DEF Boot

\* What vm_dup executes is made of instructions.
LEMMA CopyType ==
    ASSUME Shapes, NEW t \in Table, NEW u \in Table
    PROVE  Copy(t, u) \in Seq(Instruction)
<1>1. "kern" \in Va /\ "user" \in Va
  BY DEF Va
<1> DEFINE a == StorePte(u, "kern", vm_lookup(t, "kern"))
           b == StorePte(u, "user", vm_lookup(t, "user"))
<1>2. a \in Instruction /\ b \in Instruction
  BY <1>1, WrittenIs, PteIs, Codes DEF vm_lookup
<1> HIDE DEF a, b
<1>3. <<a, b>> \in Seq(Instruction)
  BY <1>2
<1> QED BY <1>3 DEF Copy, a, b

\* The calls of the routines.
CallStep ==
    \/ vm_map_kernel \/ MapUser \/ vm_dup \/ vm_mmu_switch \/ vm_mmu_enable \/ vm_mmu_disable

\* A call finds no routine under way, changes nothing yet, and is one of these routines.
LEMMA Calls ==
    ASSUME Shapes, CallStep
    PROVE  /\ code = <<>> /\ UNCHANGED <<pt, wbuf, reg, pend, maint, tlb, cache, mem, rd>>
           /\ \/ ~booted /\ booted' = TRUE /\ \E enable \in BOOLEAN : code' = Boot(enable)
              \/ /\ booted /\ booted' = TRUE
                 /\ \/ \E t \in Made, p \in Pa : code' = Mapping(t, p)
                    \/ \E t \in Made, u \in Table \ Made : code' = Copy(t, u)
                    \/ \E t \in Made : code' = cp15_set_procid_ttbr0(t)
                    \/ ~mmu_is_enabled /\ code' = mmu_enable
                    \/ mmu_is_enabled /\ code' = mmu_disable
           /\ code' \in Seq(Instruction)
<1>0. booted \in BOOLEAN /\ Made \subseteq Table /\ "user" \in Va
  BY DEF Shapes, Made, Va
<1>1. CASE vm_map_kernel
  <2>1. PICK enable \in BOOLEAN : Call(Boot(enable))
    BY <1>1 DEF vm_map_kernel, Boot
  <2> QED BY <1>1, <2>1, BootType DEF vm_map_kernel, Call
<1>2. CASE MapUser
  <2>1. PICK t \in Made, p \in Pa : Call(Mapping(t, p))
    BY <1>2 DEF MapUser, Mapping
  <2>2. Mapping(t, p) \in Seq(Instruction)
    BY <1>0, Routines DEF Mapping
  <2> QED BY <1>0, <1>2, <2>1, <2>2 DEF MapUser, Call
<1>3. CASE vm_dup
  <2>1. PICK t \in Made, u \in Table \ Made : Call(Copy(t, u))
    BY <1>3 DEF vm_dup, Copy
  <2>2. Copy(t, u) \in Seq(Instruction)
    BY <1>0, CopyType
  <2> QED BY <1>0, <1>3, <2>1, <2>2 DEF vm_dup, Call
<1>4. CASE vm_mmu_switch
  <2>1. PICK t \in Made : Call(cp15_set_procid_ttbr0(t))
    BY <1>4 DEF vm_mmu_switch
  <2>2. cp15_set_procid_ttbr0(t) \in Seq(Instruction)
    BY <1>0, Routines
  <2> QED BY <1>0, <1>4, <2>1, <2>2 DEF vm_mmu_switch, Call
<1>5. CASE vm_mmu_enable
  BY <1>0, <1>5, Routines DEF vm_mmu_enable, Call
<1>6. CASE vm_mmu_disable
  BY <1>0, <1>6, Routines DEF vm_mmu_disable, Call
<1> QED BY <1>1, <1>2, <1>3, <1>4, <1>5, <1>6 DEF CallStep

----------------------------------------------------------------------------

\* A walk finds an entry.
LEMMA InTableIs == ASSUME Shapes, NEW va \in Va PROVE InTable(va) \in Entry
<1>1. reg.ttbr \in Table \cup {0}
  BY DEF Shapes
<1> QED BY <1>1, Entries DEF Shapes, InTable

\* Instructions keep the shapes.
LEMMA ProcessorShapes == ASSUME Shapes, Processor PROVE Shapes'
<1>1. /\ code # <<>> /\ code' = Tail(code) /\ code[1] \in Instruction
      /\ UNCHANGED <<booted, pt, reg, tlb, cache, mem, rd>>
      /\ maint' = IF code[1] \in Maintenance THEN maint \cup {code[1].op} ELSE maint
      /\ pend' = IF code[1] \in Cp15Writes THEN Append(pend, code[1]) ELSE pend
      /\ wbuf' = IF code[1] \in Stores THEN Append(wbuf, code[1]) ELSE wbuf
  BY Executes
<1>2. code' \in Seq(Instruction)
  BY <1>1, HeadTailProperties DEF Shapes
<1>3. maint' \subseteq {"inv_tlb", "inv", "clean_inv"}
  BY <1>1, Kinds DEF Shapes
<1>4. pend' \in Seq(Cp15Writes)
  BY <1>1, AppendProperties DEF Shapes
<1>5. wbuf' \in Seq(Stores)
  BY <1>1, AppendProperties DEF Shapes
<1> QED BY <1>1, <1>2, <1>3, <1>4, <1>5 DEF Shapes

\* Loads and stores keep the shapes.
LEMMA AccessShapes == ASSUME Shapes, Store \/ Load PROVE Shapes'
<1>1. CASE Store
  <2>1. PICK p \in Reached, v \in Val :
          /\ cache' = [cache EXCEPT ![p] = v] \/ UNCHANGED cache
          /\ mem' = [mem EXCEPT ![p] = v] \/ UNCHANGED mem
    BY <1>1 DEF Store
  <2>2. cache' \in [Pa -> Val \cup {"none", Junk}]
    BY <2>1 DEF Shapes
  <2>3. mem' \in [Pa -> Val \cup {Junk}]
    BY <2>1 DEF Shapes
  <2> QED BY <1>1, <2>2, <2>3 DEF Store, Shapes
<1>2. CASE Load
  <2>1. PICK p \in Reached :
          IF p \notin Pa THEN rd' = p /\ UNCHANGED cache
          ELSE /\ rd' = IF Hits(p) THEN cache[p] ELSE mem[p]
               /\ cache' = IF Allocates(p) THEN [cache EXCEPT ![p] = rd'] ELSE cache
    BY <1>2 DEF Load
  <2>2. cache' \in [Pa -> Val \cup {"none", Junk}]
    <3>1. CASE p \notin Pa
      BY <2>1, <3>1 DEF Shapes
    <3>2. CASE p \in Pa
      <4>1. rd' \in Val \cup {"none", Junk}
        BY <2>1, <3>2 DEF Shapes
      <4> QED BY <2>1, <3>2, <4>1 DEF Shapes
    <3> QED BY <3>1, <3>2
  <2> QED BY <1>2, <2>2 DEF Load, Shapes
<1> QED BY <1>1, <1>2

\* What goes on beside the processor keeps the shapes.
LEMMA MemoryShapes == ASSUME Shapes, Memory PROVE Shapes'
<1>1. CASE Drain
  <2>1. wbuf # <<>> /\ wbuf \in Seq(Stores) /\ Head(wbuf) \in Stores /\ Tail(wbuf) \in Seq(Stores)
    BY <1>1, HeadTailProperties DEF Drain, Shapes
  <2> DEFINE w == Head(wbuf)
  <2>2. w.to[1] \in Table /\ w.to[2] \in Va /\ w.val \in Entry
    BY <2>1, StoreIs
  <2>3. pt' = [pt EXCEPT ![w.to[1]][w.to[2]] = w.val]
    BY <1>1 DEF Drain
  <2> HIDE DEF w
  <2>4. pt' \in [Table -> [Va -> Entry]]
    BY <2>2, <2>3 DEF Shapes
  <2> QED BY <1>1, <2>1, <2>4 DEF Drain, Shapes
<1>2. CASE Cp15Effect
  <2>1. PICK i \in 1..Len(pend) : /\ reg' = [reg EXCEPT ![pend[i].to] = pend[i].val]
                                  /\ pend' = RemoveAt(pend, i)
    BY <1>2 DEF Cp15Effect
  <2>2. pend \in Seq(Cp15Writes)
    BY DEF Shapes
  <2>3. pend[i] \in Cp15Writes
    BY <2>1, <2>2, ElementOfSeq
  <2>4. reg' \in [mmu : {0, 1}, ttbr : Table \cup {0}, asid : Table \cup {0}, client : {0, 1}]
    <3>1. CASE pend[i].to \in {"mmu", "client"} /\ pend[i].val \in {0, 1}
      BY <2>1, <3>1 DEF Shapes
    <3>2. CASE pend[i].to \in {"ttbr", "asid"} /\ pend[i].val \in Table \cup {0}
      BY <2>1, <3>2 DEF Shapes
    <3> QED BY <2>3, <3>1, <3>2, WriteIs
  <2>5. pend' \in Seq(Cp15Writes)
    BY <2>1, <2>2 DEF RemoveAt
  <2> QED BY <1>2, <2>4, <2>5 DEF Cp15Effect, Shapes
<1>3. CASE Complete
  <2>1. PICK o \in maint : maint' = maint \ {o} /\ tlb' \in {{}, tlb} /\
        cache' \in {cache, Emptied(Pa)}
                           /\ mem' \in {mem, WriteBack(Pa)}
    BY <1>3 DEF Complete
  <2>2. cache' \in [Pa -> Val \cup {"none", Junk}]
    BY <2>1 DEF Shapes, Emptied
  <2>3. mem' \in [Pa -> Val \cup {Junk}]
    BY <2>1 DEF Shapes, WriteBack
  <2>4. maint' \subseteq maint /\ tlb' \subseteq tlb
    BY <2>1
  <2> QED BY <1>3, <2>2, <2>3, <2>4 DEF Complete, Shapes
<1>4. CASE CacheEvict
  BY <1>4 DEF CacheEvict, Shapes, Emptied, WriteBack
<1>5. CASE Walk
  <2>1. PICK va \in Va : tlb' = tlb \cup
               {[tag |-> IF InTable(va).nG THEN reg.asid ELSE Global, va |-> va,
                 pte |-> InTable(va)]}
    BY <1>5 DEF Walk
  <2>2. InTable(va) \in Entry
    BY InTableIs
  <2>3. reg.asid \in Table \cup {0}
    BY DEF Shapes
  <2>4. tlb' \subseteq [tag : Table \cup {0, Global}, va : Va, pte : Entry]
    BY <2>1, <2>2, <2>3 DEF Shapes
  <2> QED BY <1>5, <2>4 DEF Walk, Shapes
<1>6. CASE TlbEvict
  BY <1>6 DEF TlbEvict, Shapes
<1> QED BY <1>1, <1>2, <1>3, <1>4, <1>5, <1>6 DEF Memory

\* Every state has these shapes.
LEMMA ShapesAlways == Spec => []Shapes
<1>1. Init => Shapes
  <2> SUFFICES ASSUME Init PROVE Shapes
    OBVIOUS
  <2>1. tlb \subseteq [tag : Table \cup {0, Global}, va : Va, pte : Entry]
    <3>1. Pte("none", TRUE) \in Entry
      BY DEF Entry, Pte
    <3>2. \A va \in Va : [tag |-> Global, va |-> va, pte |-> Pte("none", TRUE)]
                        \in [tag : Table \cup {0, Global}, va : Va, pte : Entry]
      BY <3>1
    <3> QED BY <3>2 DEF Init
  <2>2. pt \in [Table -> [Va -> Entry]]
    BY Entries DEF Init
  <2>3. mem \in [Pa -> Val \cup {Junk}] /\ cache \in [Pa -> Val \cup {"none", Junk}]
    BY DEF Init
  <2>4. /\ code \in Seq(Instruction) /\ wbuf \in Seq(Stores) /\ pend \in Seq(Cp15Writes)
        /\ reg \in [mmu : {0, 1}, ttbr : Table \cup {0}, asid : Table \cup {0}, client : {0, 1}]
    BY DEF Init
  <2> QED BY <2>1, <2>2, <2>3, <2>4 DEF Init, Shapes
<1>2. ASSUME Shapes, [Next]_vars PROVE Shapes'
  <2>1. CASE CallStep
    BY <1>2, <2>1, Calls DEF Shapes
  <2>2. CASE UNCHANGED vars
    BY <1>2, <2>2 DEF vars, Shapes
  <2> QED BY <1>2, <2>1, <2>2, ProcessorShapes, AccessShapes, MemoryShapes
        DEF Next, Program, CallStep
<1> QED BY <1>1, <1>2, PTL DEF Spec

----------------------------------------------------------------------------
(* Before anything was called                                              *)

Unbooted ==
    ~booted => /\ code = <<>> /\ wbuf = <<>> /\ pend = <<>> /\ maint = {}
               /\ pt = [t \in Table |-> [va \in Va |-> Fault]]
               /\ reg = [mmu |-> 0, ttbr |-> 0, asid |-> 0, client |-> 0]

\* Beside the processor things under way end, and none is begun.
LEMMA MemoryIs ==
    ASSUME Shapes, Memory
    PROVE  /\ UNCHANGED <<code, booted, rd>> /\ maint' \subseteq maint
           /\ pend = <<>> => pend' = <<>> /\ reg' = reg
           /\ wbuf = <<>> => wbuf' = <<>> /\ pt' = pt
<1>1. CASE Cp15Effect
  <2>1. pend # <<>>
    BY <1>1 DEF Cp15Effect
  <2> QED BY <1>1, <2>1 DEF Cp15Effect
<1> QED BY <1>1 DEF Memory, Drain, Complete, CacheEvict, Walk, TlbEvict

\* Before vm_map_kernel is called nothing was written anywhere.
LEMMA UnbootedAlways == Spec => []Unbooted
<1>1. Init => Unbooted
  BY DEF Init, Unbooted
<1>2. ASSUME Shapes, Unbooted, [Next]_vars PROVE Unbooted'
  <2>1. CASE CallStep
    BY <1>2, <2>1, Calls DEF Unbooted
  <2>2. CASE UNCHANGED vars
    BY <1>2, <2>2 DEF vars, Unbooted
  <2>3. CASE Processor
    BY <1>2, <2>3, Executes DEF Unbooted
  <2>4. CASE Memory
    BY <1>2, <2>4, MemoryIs DEF Unbooted
  <2>5. CASE Store \/ Load
    BY <1>2, <2>5 DEF Store, Load, Unbooted
  <2> QED BY <1>2, <2>1, <2>2, <2>3, <2>4, <2>5 DEF Next, Program, CallStep
<1> QED BY <1>1, <1>2, ShapesAlways, PTL DEF Spec

----------------------------------------------------------------------------
(* The routines, instruction by instruction                                *)

Clear(c, i, B, N) == Found(c, i, B, N) \/ Free(c, i, N)

\* Where in c instructions of each kind are.
Profile(c, n, W, S, D, F, I, J, K) ==
    /\ c \in Seq(Instruction) /\ Len(c) = n
    /\ \A k \in 1..n : /\ c[k] \in Cp15Writes <=> k \in W
                       /\ c[k] \in Stores <=> k \in S
                       /\ c[k] = DSB <=> k \in D
                       /\ c[k] = PREFETCH_FLUSH <=> k \in F
                       /\ c[k] = INV_TLB <=> k \in I
                       /\ c[k] = INV_DCACHE <=> k \in J
                       /\ c[k] = CLEAN_INV_DCACHE <=> k \in K

Ops(c, n, W, S, D, F, I, J, K) ==
    /\ c \in Seq(Instruction) /\ Len(c) = n
    /\ \A k \in 1..n : /\ c[k].op = "set" <=> k \in W
                       /\ c[k].op = "pte" <=> k \in S
                       /\ c[k].op = "dsb" <=> k \in D
                       /\ c[k].op = "flush" <=> k \in F
                       /\ c[k].op = "inv_tlb" <=> k \in I
                       /\ c[k].op = "inv" <=> k \in J
                       /\ c[k].op = "clean_inv" <=> k \in K

\* Where the instructions of each kind are follows from where each op is.
LEMMA ProfileIs ==
    ASSUME NEW c, NEW n, NEW W, NEW S, NEW D, NEW F, NEW I, NEW J, NEW K,
           Ops(c, n, W, S, D, F, I, J, K)
    PROVE  Profile(c, n, W, S, D, F, I, J, K)
<1> SUFFICES ASSUME NEW k \in 1..n
             PROVE  /\ c[k] \in Cp15Writes <=> c[k].op = "set"
                    /\ c[k] \in Stores <=> c[k].op = "pte"
                    /\ c[k] = DSB <=> c[k].op = "dsb"
                    /\ c[k] = PREFETCH_FLUSH <=> c[k].op = "flush"
                    /\ c[k] = INV_TLB <=> c[k].op = "inv_tlb"
                    /\ c[k] = INV_DCACHE <=> c[k].op = "inv"
                    /\ c[k] = CLEAN_INV_DCACHE <=> c[k].op = "clean_inv"
  BY DEF Profile, Ops
<1>1. c[k] \in Instruction
  BY ElementOfSeq DEF Ops
<1>2. c[k].op \in {"inv_tlb", "inv", "clean_inv"} => c[k] = [op |-> c[k].op]
  BY <1>1, Kinds
<1> QED BY <1>1, <1>2, Kinds DEF INV_TLB, INV_DCACHE, CLEAN_INV_DCACHE

\* What vm_map_kernel executes, up to the instructions that turn the MMU on ...
LEMMA BootHead ==
    ASSUME NEW enable \in BOOLEAN, NEW c, c = Boot(enable)
    PROVE  /\ c[1] = INV_DCACHE /\ c[2] = INV_TLB /\ c[3] = DSB /\ c[4] = PREFETCH_FLUSH
           /\ c[5] = Set("mmu", 0) /\ c[6] = DSB /\ c[7] = PREFETCH_FLUSH
           /\ c[8] = Set("client", 1) /\ c[9] = PREFETCH_FLUSH
           /\ c[10] = StorePte(1, "kern", Fault)
           /\ \A k \in 11..13 : c[k] = StorePte(1, "kern", Pte(Kernel, TRUE))
           /\ c[14] = CLEAN_INV_DCACHE /\ c[15] = DSB /\ c[16] = INV_TLB /\ c[17] = DSB
           /\ c[18] = PREFETCH_FLUSH /\ c[19] = DSB /\ c[20] = Set("asid", 0)
           /\ c[21] = PREFETCH_FLUSH /\ c[22] = Set("ttbr", 1) /\ c[23] = PREFETCH_FLUSH
           /\ c[24] = DSB /\ c[25] = Set("asid", 1) /\ c[26] = PREFETCH_FLUSH
           /\ Len(c) = IF enable THEN 36 ELSE 26
BY DEF cp15_set_procid_ttbr0, Boot, mmu_init, mmu_reset, cp15_ctrl_reg1_wr, cp15_domain_ctrl_wr,
       vm_map_sec, mmu_sync_pte_mods, mmu_enable

\* ... and those instructions.
LEMMA BootEnable ==
    ASSUME NEW c, c = Boot(TRUE)
    PROVE  /\ c[27] = CLEAN_INV_DCACHE /\ c[28] = DSB /\ c[29] = INV_TLB /\ c[30] = DSB
           /\ c[31] = PREFETCH_FLUSH /\ c[32] = Set("mmu", 1) /\ c[33] = PREFETCH_FLUSH
           /\ c[34] = DSB /\ c[35] = Set("mmu", 1) /\ c[36] = PREFETCH_FLUSH
BY DEF cp15_set_procid_ttbr0, Boot, mmu_init, mmu_reset, cp15_ctrl_reg1_wr, cp15_domain_ctrl_wr,
       vm_map_sec, mmu_sync_pte_mods, mmu_enable

\* Where the instructions of each kind are in vm_map_kernel,
LEMMA BootProfile ==
    /\ Profile(Boot(FALSE), 26, {5, 8, 20, 22, 25}, 10..13, {3, 6, 15, 17, 19, 24},
               {4, 7, 9, 18, 21, 23, 26}, {2, 16}, {1}, {14})
    /\ Profile(Boot(TRUE), 36, {5, 8, 20, 22, 25, 32, 35}, 10..13, {3, 6, 15, 17, 19, 24, 28,
           30, 34},
               {4, 7, 9, 18, 21, 23, 26, 31, 33, 36}, {2, 16, 29}, {1}, {14, 27})
<1>1. ASSUME NEW c, c = Boot(FALSE)
      PROVE  Ops(c, 26, {5, 8, 20, 22, 25}, 10..13, {3, 6, 15, 17, 19, 24},
                     {4, 7, 9, 18, 21, 23, 26}, {2, 16}, {1}, {14})
  <2>1. /\ c[1] = INV_DCACHE /\ c[2] = INV_TLB /\ c[3] = DSB /\ c[4] = PREFETCH_FLUSH
        /\ c[5] = Set("mmu", 0) /\ c[6] = DSB /\ c[7] = PREFETCH_FLUSH
        /\ c[8] = Set("client", 1) /\ c[9] = PREFETCH_FLUSH
        /\ c[10] = StorePte(1, "kern", Fault)
        /\ \A k \in 11..13 : c[k] = StorePte(1, "kern", Pte(Kernel, TRUE))
        /\ c[14] = CLEAN_INV_DCACHE /\ c[15] = DSB /\ c[16] = INV_TLB /\ c[17] = DSB
        /\ c[18] = PREFETCH_FLUSH /\ c[19] = DSB /\ c[20] = Set("asid", 0)
        /\ c[21] = PREFETCH_FLUSH /\ c[22] = Set("ttbr", 1) /\ c[23] = PREFETCH_FLUSH
        /\ c[24] = DSB /\ c[25] = Set("asid", 1) /\ c[26] = PREFETCH_FLUSH
        /\ Len(c) = 26
    BY <1>1, BootHead
  <2>2. c \in Seq(Instruction)
    BY <1>1, BootType
  <2> QED BY <2>1, <2>2
        DEF Ops, DSB, PREFETCH_FLUSH, INV_TLB, INV_DCACHE, CLEAN_INV_DCACHE, Set, StorePte
<1>2. ASSUME NEW c, c = Boot(TRUE)
      PROVE  Ops(c, 36, {5, 8, 20, 22, 25, 32, 35}, 10..13, {3, 6, 15, 17, 19, 24, 28, 30, 34},
                     {4, 7, 9, 18, 21, 23, 26, 31, 33, 36}, {2, 16, 29}, {1}, {14, 27})
  <2>1. /\ c[1] = INV_DCACHE /\ c[2] = INV_TLB /\ c[3] = DSB /\ c[4] = PREFETCH_FLUSH
        /\ c[5] = Set("mmu", 0) /\ c[6] = DSB /\ c[7] = PREFETCH_FLUSH
        /\ c[8] = Set("client", 1) /\ c[9] = PREFETCH_FLUSH
        /\ c[10] = StorePte(1, "kern", Fault)
        /\ \A k \in 11..13 : c[k] = StorePte(1, "kern", Pte(Kernel, TRUE))
        /\ c[14] = CLEAN_INV_DCACHE /\ c[15] = DSB /\ c[16] = INV_TLB /\ c[17] = DSB
        /\ c[18] = PREFETCH_FLUSH /\ c[19] = DSB /\ c[20] = Set("asid", 0)
        /\ c[21] = PREFETCH_FLUSH /\ c[22] = Set("ttbr", 1) /\ c[23] = PREFETCH_FLUSH
        /\ c[24] = DSB /\ c[25] = Set("asid", 1) /\ c[26] = PREFETCH_FLUSH
        /\ Len(c) = 36
        /\ c[27] = CLEAN_INV_DCACHE /\ c[28] = DSB /\ c[29] = INV_TLB /\ c[30] = DSB
        /\ c[31] = PREFETCH_FLUSH /\ c[32] = Set("mmu", 1) /\ c[33] = PREFETCH_FLUSH
        /\ c[34] = DSB /\ c[35] = Set("mmu", 1) /\ c[36] = PREFETCH_FLUSH
    BY <1>2, BootHead, BootEnable
  <2>2. c \in Seq(Instruction)
    BY <1>2, BootType
  <2>3. /\ c[1].op = "inv" /\ c[2].op = "inv_tlb" /\ c[3].op = "dsb" /\ c[4].op = "flush"
        /\ c[5].op = "set" /\ c[6].op = "dsb" /\ c[7].op = "flush" /\ c[8].op = "set"
        /\ c[9].op = "flush" /\ c[10].op = "pte" /\ c[11].op = "pte" /\ c[12].op = "pte"
        /\ c[13].op = "pte" /\ c[14].op = "clean_inv" /\ c[15].op = "dsb" /\ c[16].op = "inv_tlb"
        /\ c[17].op = "dsb" /\ c[18].op = "flush" /\ c[19].op = "dsb" /\ c[20].op = "set"
        /\ c[21].op = "flush" /\ c[22].op = "set" /\ c[23].op = "flush" /\ c[24].op = "dsb"
        /\ c[25].op = "set" /\ c[26].op = "flush" /\ c[27].op = "clean_inv" /\ c[28].op = "dsb"
        /\ c[29].op = "inv_tlb" /\ c[30].op = "dsb" /\ c[31].op = "flush" /\ c[32].op = "set"
        /\ c[33].op = "flush" /\ c[34].op = "dsb" /\ c[35].op = "set" /\ c[36].op = "flush"
    BY <2>1 DEF DSB, PREFETCH_FLUSH, INV_TLB, INV_DCACHE, CLEAN_INV_DCACHE, Set, StorePte
  <2>4. Len(c) = 36
    BY <2>1
  <2> HIDE <1>2
  <2>5. \A k \in 1..36 : c[k].op = "set" <=> k \in {5, 8, 20, 22, 25, 32, 35}
    BY <2>3
  <2>6. \A k \in 1..36 : /\ c[k].op = "pte" <=> k \in 10..13
                         /\ c[k].op = "dsb" <=> k \in {3, 6, 15, 17, 19, 24, 28, 30, 34}
    BY <2>3
  <2>7. \A k \in 1..36 : c[k].op = "flush" <=> k \in {4, 7, 9, 18, 21, 23, 26, 31, 33, 36}
    BY <2>3
  <2>8. \A k \in 1..36 : /\ c[k].op = "inv_tlb" <=> k \in {2, 16, 29}
                         /\ c[k].op = "inv" <=> k \in {1}
                         /\ c[k].op = "clean_inv" <=> k \in {14, 27}
    BY <2>3
  <2> QED BY <2>2, <2>4, <2>5, <2>6, <2>7, <2>8, Zenon DEF Ops
<1> QED BY <1>1, <1>2, ProfileIs, Zenon

\* in vm_map_sec,
LEMMA MapProfile ==
    ASSUME NEW t \in Table, NEW p \in Pa, NEW c, c = Mapping(t, p)
    PROVE  /\ Profile(c, 9, {}, 1..4, {6, 8}, {9}, {7}, {}, {5})
           /\ c[4] = StorePte(t, "user", Pte(p, FALSE))
           /\ \A k \in 1..4 : c[k].to = <<t, "user">>
<1>1. /\ c[1] = StorePte(t, "user", Fault) /\ c[2] = StorePte(t, "user", Pte(Kernel, TRUE))
      /\ c[3] = StorePte(t, "user", Pte(Kernel, FALSE)) /\ c[4] = StorePte(t, "user", Pte(p, FALSE))
      /\ c[5] = CLEAN_INV_DCACHE /\ c[6] = DSB /\ c[7] = INV_TLB /\ c[8] = DSB /\
             c[9] = PREFETCH_FLUSH
      /\ Len(c) = 9
  BY DEF Mapping, vm_map_sec, mmu_sync_pte_mods
<1>2. c \in Seq(Instruction)
  BY Routines DEF Va, Mapping
<1>3. Ops(c, 9, {}, 1..4, {6, 8}, {9}, {7}, {}, {5})
  <2>1. /\ c[1].op = "pte" /\ c[2].op = "pte" /\ c[3].op = "pte" /\ c[4].op = "pte"
        /\ c[5].op = "clean_inv" /\ c[6].op = "dsb" /\ c[7].op = "inv_tlb" /\ c[8].op = "dsb"
        /\ c[9].op = "flush" /\ Len(c) = 9
    BY <1>1 DEF DSB, PREFETCH_FLUSH, INV_TLB, CLEAN_INV_DCACHE, StorePte
  <2> QED BY <1>2, <2>1 DEF Ops
<1>4. /\ c[1].to = <<t, "user">> /\ c[2].to = <<t, "user">> /\ c[3].to = <<t, "user">>
      /\ c[4].to = <<t, "user">>
  BY <1>1 DEF StorePte
<1>5. \A k \in 1..4 : c[k].to = <<t, "user">>
  BY <1>4
<1> QED BY <1>1, <1>3, <1>5, ProfileIs

\* in the copy that vm_dup makes,
LEMMA CopyProfile ==
    ASSUME Shapes, NEW t \in Table, NEW u \in Table, NEW c, c = Copy(t, u)
    PROVE  /\ Profile(c, 2, {}, 1..2, {}, {}, {}, {}, {})
           /\ c[1] = StorePte(u, "kern", vm_lookup(t, "kern"))
           /\ c[2] = StorePte(u, "user", vm_lookup(t, "user"))
<1>1. /\ c[1] = StorePte(u, "kern", vm_lookup(t, "kern"))
      /\ c[2] = StorePte(u, "user", vm_lookup(t, "user")) /\ Len(c) = 2
  BY DEF Copy
<1>2. c \in Seq(Instruction)
  BY CopyType
<1>3. Ops(c, 2, {}, 1..2, {}, {}, {}, {}, {})
  BY <1>1, <1>2 DEF Ops, StorePte
<1> QED BY <1>1, <1>3, ProfileIs

\* in cp15_set_procid_ttbr0,
LEMMA SwitchProfile ==
    ASSUME NEW t \in Table, NEW c, c = cp15_set_procid_ttbr0(t)
    PROVE  /\ Profile(c, 8, {2, 4, 7}, {}, {1, 6}, {3, 5, 8}, {}, {}, {})
           /\ c[2] = Set("asid", 0) /\ c[4] = Set("ttbr", t) /\ c[7] = Set("asid", t)
<1>1. /\ c[1] = DSB /\ c[2] = Set("asid", 0) /\ c[3] = PREFETCH_FLUSH /\ c[4] = Set("ttbr", t)
      /\ c[5] = PREFETCH_FLUSH /\ c[6] = DSB /\ c[7] = Set("asid", t) /\ c[8] = PREFETCH_FLUSH
      /\ Len(c) = 8
  BY DEF cp15_set_procid_ttbr0
<1>2. c \in Seq(Instruction)
  BY Routines
<1>3. Ops(c, 8, {2, 4, 7}, {}, {1, 6}, {3, 5, 8}, {}, {}, {})
  BY <1>1, <1>2 DEF Ops, DSB, PREFETCH_FLUSH, Set
<1> QED BY <1>1, <1>3, ProfileIs

\* in mmu_enable,
LEMMA EnableProfile ==
    ASSUME NEW c, c = mmu_enable
    PROVE  /\ Profile(c, 5, {1, 4}, {}, {3}, {2, 5}, {}, {}, {})
           /\ c[1] = Set("mmu", 1) /\ c[4] = Set("mmu", 1)
<1>1. /\ c[1] = Set("mmu", 1) /\ c[2] = PREFETCH_FLUSH /\ c[3] = DSB /\ c[4] = Set("mmu", 1)
      /\ c[5] = PREFETCH_FLUSH /\ Len(c) = 5
  BY DEF mmu_enable
<1>2. c \in Seq(Instruction)
  BY Routines
<1>3. Ops(c, 5, {1, 4}, {}, {3}, {2, 5}, {}, {}, {})
  BY <1>1, <1>2 DEF Ops, DSB, PREFETCH_FLUSH, Set
<1> QED BY <1>1, <1>3, ProfileIs

\* and in mmu_disable.
LEMMA DisableProfile ==
    ASSUME NEW c, c = mmu_disable
    PROVE  /\ Profile(c, 9, {4, 7}, {}, {1, 3, 5, 8}, {6, 9}, {}, {}, {2})
           /\ c[4] = Set("mmu", 0) /\ c[7] = Set("mmu", 0)
<1>1. /\ c[1] = DSB /\ c[2] = CLEAN_INV_DCACHE /\ c[3] = DSB /\ c[4] = Set("mmu", 0) /\ c[5] = DSB
      /\ c[6] = PREFETCH_FLUSH /\ c[7] = Set("mmu", 0) /\ c[8] = DSB /\ c[9] = PREFETCH_FLUSH
      /\ Len(c) = 9
  BY DEF mmu_disable, cp15_ctrl_reg1_wr
<1>2. c \in Seq(Instruction)
  BY Routines
<1>3. Ops(c, 9, {4, 7}, {}, {1, 3, 5, 8}, {6, 9}, {}, {}, {2})
  BY <1>1, <1>2 DEF Ops, DSB, PREFETCH_FLUSH, CLEAN_INV_DCACHE, Set
<1> QED BY <1>1, <1>3, ProfileIs

----------------------------------------------------------------------------
(* What waits for what: barriers                                           *)

\* When the i-th instruction of the code is executed, no write to cp15 is pending ...
Settled(i) == \/ Found(code, i, {PREFETCH_FLUSH}, Cp15Writes)
              \/ pend = <<>> /\ Free(code, i, Cp15Writes)

\* ... no store is in the write buffer ...
Drained(i) == \/ Found(code, i, {DSB}, Stores)
              \/ wbuf = <<>> /\ Free(code, i, Stores)

\* ... and the operation o is complete.
Done(i, o) == \/ Found(code, i, {DSB}, {[op |-> o]})
              \/ o \notin maint /\ Free(code, i, {[op |-> o]})

Operation == {"inv_tlb", "inv", "clean_inv"}

Waits ==
    /\ \A i \in 1..Len(code) : /\ code[i] \in Cp15Writes => Settled(i)
                               /\ code[i] = INV_TLB => Drained(i)
    /\ Settled(Len(code) + 1) /\ \A o \in Operation : Done(Len(code) + 1, o)
    /\ Len(pend) <= 1

Neat(c) ==
    /\ \A i \in 1..Len(c) : /\ c[i] \in Cp15Writes => Clear(c, i, {PREFETCH_FLUSH}, Cp15Writes)
                            /\ c[i] = INV_TLB => Clear(c, i, {DSB}, Stores)
    /\ Clear(c, Len(c) + 1, {PREFETCH_FLUSH}, Cp15Writes)
    /\ \A o \in Operation : Clear(c, Len(c) + 1, {DSB}, {[op |-> o]})

Drains(c) == \A i \in 1..Len(c) : c[i] = INV_TLB => Found(c, i, {DSB}, Stores)

\* vm_map_kernel waits for what it writes; no DSB precedes its first INV_TLB, but no store
\* does either.
LEMMA NeatBoot == Neat(Boot(FALSE)) /\ Neat(Boot(TRUE))
<1>0. \A o \in Operation : [op |-> o] \in {INV_TLB, INV_DCACHE, CLEAN_INV_DCACHE}
  BY DEF Operation, INV_TLB, INV_DCACHE, CLEAN_INV_DCACHE
<1>1. ASSUME NEW c, Profile(c, 26, {5, 8, 20, 22, 25}, 10..13, {3, 6, 15, 17, 19, 24},
                     {4, 7, 9, 18, 21, 23, 26}, {2, 16}, {1}, {14})
      PROVE  Neat(c)
  <2>1. \A k \in 1..26 : /\ c[k] \in Cp15Writes <=> k \in {5, 8, 20, 22, 25}
                         /\ c[k] \in Stores <=> k \in 10..13
                         /\ c[k] = DSB <=> k \in {3, 6, 15, 17, 19, 24}
                         /\ c[k] = PREFETCH_FLUSH <=> k \in {4, 7, 9, 18, 21, 23, 26}
                         /\ c[k] = INV_TLB <=> k \in {2, 16}
                         /\ c[k] = INV_DCACHE <=> k \in {1}
                         /\ c[k] = CLEAN_INV_DCACHE <=> k \in {14}
    BY <1>1 DEF Profile
  <2> HIDE <1>1
  <2>2. \A i \in 1..26 : c[i] \in Cp15Writes => Clear(c, i, {PREFETCH_FLUSH}, Cp15Writes)
    BY <2>1, FoundStep DEF Clear
  <2>3. \A i \in 1..26 : c[i] = INV_TLB => Clear(c, i, {DSB}, Stores)
    BY <2>1, FoundStep, FreeStep, NoneBefore DEF Clear
  <2>4. Clear(c, 27, {PREFETCH_FLUSH}, Cp15Writes)
    BY <2>1, FoundStep DEF Clear
  <2>5. /\ Clear(c, 27, {DSB}, {INV_TLB}) /\ Clear(c, 27, {DSB}, {INV_DCACHE})
        /\ Clear(c, 27, {DSB}, {CLEAN_INV_DCACHE})
    BY <2>1, FoundStep DEF Clear
  <2>6. Len(c) = 26
    BY <1>1 DEF Profile
  <2> QED BY <2>2, <2>3, <2>4, <2>5, <2>6, <1>0 DEF Neat
<1>2. ASSUME NEW c, Profile(c, 36, {5, 8, 20, 22, 25, 32, 35}, 10..13, {3, 6, 15, 17, 19, 24,
      28, 30, 34},
                     {4, 7, 9, 18, 21, 23, 26, 31, 33, 36}, {2, 16, 29}, {1}, {14, 27})
      PROVE  Neat(c)
  <2>1. \A k \in 1..36 : /\ c[k] \in Cp15Writes <=> k \in {5, 8, 20, 22, 25, 32, 35}
                         /\ c[k] \in Stores <=> k \in 10..13
                         /\ c[k] = DSB <=> k \in {3, 6, 15, 17, 19, 24, 28, 30, 34}
                         /\ c[k] = PREFETCH_FLUSH <=> k \in {4, 7, 9, 18, 21, 23, 26, 31, 33, 36}
                         /\ c[k] = INV_TLB <=> k \in {2, 16, 29}
                         /\ c[k] = INV_DCACHE <=> k \in {1}
                         /\ c[k] = CLEAN_INV_DCACHE <=> k \in {14, 27}
    BY <1>2 DEF Profile
  <2> HIDE <1>2
  <2>2. \A i \in 1..36 : c[i] \in Cp15Writes => Clear(c, i, {PREFETCH_FLUSH}, Cp15Writes)
    BY <2>1, FoundStep DEF Clear
  <2>3. \A i \in 1..36 : c[i] = INV_TLB => Clear(c, i, {DSB}, Stores)
    BY <2>1, FoundStep, FreeStep, NoneBefore DEF Clear
  <2>4. Clear(c, 37, {PREFETCH_FLUSH}, Cp15Writes)
    BY <2>1, FoundStep DEF Clear
  <2>5. /\ Clear(c, 37, {DSB}, {INV_TLB}) /\ Clear(c, 37, {DSB}, {INV_DCACHE})
        /\ Clear(c, 37, {DSB}, {CLEAN_INV_DCACHE})
    BY <2>1, FoundStep DEF Clear
  <2>6. Len(c) = 36
    BY <1>2 DEF Profile
  <2> QED BY <2>2, <2>3, <2>4, <2>5, <2>6, <1>0 DEF Neat
<1> QED BY <1>1, <1>2, BootProfile, Zenon

\* So does vm_map_sec,
LEMMA NeatMap ==
    ASSUME NEW c, Profile(c, 9, {}, 1..4, {6, 8}, {9}, {7}, {}, {5})
    PROVE  Neat(c) /\ Drains(c)
BY FoundStep, FreeStep, NoneBefore
      DEF Neat, Drains, Clear, Operation, Profile, INV_TLB, INV_DCACHE, CLEAN_INV_DCACHE

\* the copy that vm_dup makes,
LEMMA NeatCopy ==
    ASSUME NEW c, Profile(c, 2, {}, 1..2, {}, {}, {}, {}, {})
    PROVE  Neat(c) /\ Drains(c)
BY FoundStep, FreeStep, NoneBefore
      DEF Neat, Drains, Clear, Operation, Profile, INV_TLB, INV_DCACHE, CLEAN_INV_DCACHE

\* cp15_set_procid_ttbr0,
LEMMA NeatSwitch ==
    ASSUME NEW c, Profile(c, 8, {2, 4, 7}, {}, {1, 6}, {3, 5, 8}, {}, {}, {})
    PROVE  Neat(c) /\ Drains(c)
<1>1. \A k \in 1..8 : /\ c[k] \in Cp15Writes <=> k \in {2, 4, 7}
                      /\ c[k] = PREFETCH_FLUSH <=> k \in {3, 5, 8}
                      /\ c[k] # INV_TLB /\ c[k] # INV_DCACHE /\ c[k] # CLEAN_INV_DCACHE
  BY DEF Profile
<1>2. Len(c) = 8
  BY DEF Profile
<1>3. \A i \in 1..8 : c[i] \in Cp15Writes => Clear(c, i, {PREFETCH_FLUSH}, Cp15Writes)
  BY <1>1, FoundStep, FreeStep, NoneBefore DEF Clear
<1>4. Clear(c, 9, {PREFETCH_FLUSH}, Cp15Writes)
  BY <1>1, FoundStep DEF Clear
<1>5. Free(c, 9, {INV_TLB}) /\ Free(c, 9, {INV_DCACHE}) /\ Free(c, 9, {CLEAN_INV_DCACHE})
  BY <1>1 DEF Free
<1>6. \A o \in Operation : [op |-> o] \in {INV_TLB, INV_DCACHE, CLEAN_INV_DCACHE}
  BY DEF Operation, INV_TLB, INV_DCACHE, CLEAN_INV_DCACHE
<1>7. \A o \in Operation : Clear(c, 9, {DSB}, {[op |-> o]})
  BY <1>5, <1>6 DEF Clear
<1> QED BY <1>1, <1>2, <1>3, <1>4, <1>7 DEF Neat, Drains

\* mmu_enable,
LEMMA NeatEnable ==
    ASSUME NEW c, Profile(c, 5, {1, 4}, {}, {3}, {2, 5}, {}, {}, {})
    PROVE  Neat(c) /\ Drains(c)
<1>1. \A k \in 1..5 : /\ c[k] \in Cp15Writes <=> k \in {1, 4}
                      /\ c[k] = PREFETCH_FLUSH <=> k \in {2, 5}
                      /\ c[k] # INV_TLB /\ c[k] # INV_DCACHE /\ c[k] # CLEAN_INV_DCACHE
  BY DEF Profile
<1>2. Len(c) = 5
  BY DEF Profile
<1>3. \A i \in 1..5 : c[i] \in Cp15Writes => Clear(c, i, {PREFETCH_FLUSH}, Cp15Writes)
  BY <1>1, FoundStep, FreeStep, NoneBefore DEF Clear
<1>4. Clear(c, 6, {PREFETCH_FLUSH}, Cp15Writes)
  BY <1>1, FoundStep DEF Clear
<1>5. Free(c, 6, {INV_TLB}) /\ Free(c, 6, {INV_DCACHE}) /\ Free(c, 6, {CLEAN_INV_DCACHE})
  BY <1>1 DEF Free
<1>6. \A o \in Operation : [op |-> o] \in {INV_TLB, INV_DCACHE, CLEAN_INV_DCACHE}
  BY DEF Operation, INV_TLB, INV_DCACHE, CLEAN_INV_DCACHE
<1>7. \A o \in Operation : Clear(c, 6, {DSB}, {[op |-> o]})
  BY <1>5, <1>6 DEF Clear
<1> QED BY <1>1, <1>2, <1>3, <1>4, <1>7 DEF Neat, Drains

\* and mmu_disable.
LEMMA NeatDisable ==
    ASSUME NEW c, Profile(c, 9, {4, 7}, {}, {1, 3, 5, 8}, {6, 9}, {}, {}, {2})
    PROVE  Neat(c) /\ Drains(c)
<1>1. \A k \in 1..9 : /\ c[k] \in Cp15Writes <=> k \in {4, 7}
                      /\ c[k] = DSB <=> k \in {1, 3, 5, 8}
                      /\ c[k] = PREFETCH_FLUSH <=> k \in {6, 9}
                      /\ c[k] = CLEAN_INV_DCACHE <=> k = 2
                      /\ c[k] # INV_TLB /\ c[k] # INV_DCACHE
  BY DEF Profile
<1>2. Len(c) = 9
  BY DEF Profile
<1>3. \A i \in 1..9 : c[i] \in Cp15Writes => Clear(c, i, {PREFETCH_FLUSH}, Cp15Writes)
  BY <1>1, FoundStep, FreeStep, NoneBefore DEF Clear
<1>4. Clear(c, 10, {PREFETCH_FLUSH}, Cp15Writes)
  BY <1>1, FoundStep DEF Clear
<1>5. Free(c, 10, {INV_TLB}) /\ Free(c, 10, {INV_DCACHE}) /\ Found(c, 10, {DSB}, {CLEAN_INV_DCACHE})
  <2>1. Free(c, 10, {INV_TLB}) /\ Free(c, 10, {INV_DCACHE})
    BY <1>1 DEF Free
  <2>2. Found(c, 10, {DSB}, {CLEAN_INV_DCACHE})
    BY <1>1, FoundStep
  <2> QED BY <2>1, <2>2
<1>6. \A o \in Operation : [op |-> o] \in {INV_TLB, INV_DCACHE, CLEAN_INV_DCACHE}
  BY DEF Operation, INV_TLB, INV_DCACHE, CLEAN_INV_DCACHE
<1>7. \A o \in Operation : Clear(c, 10, {DSB}, {[op |-> o]})
  BY <1>5, <1>6 DEF Clear
<1> QED BY <1>1, <1>2, <1>3, <1>4, <1>7 DEF Neat, Drains

\* The i-th instruction left, once one is executed, was the one after it.
LEMMA ShiftCode ==
    ASSUME Shapes, Processor
    PROVE  /\ Len(code') = Len(code) - 1 /\ Len(code) \in Nat \ {0}
           /\ \A i \in 1..Len(code') : code'[i] = code[i + 1] /\ i + 1 \in 1..Len(code) /\
                  i \in 1..Len(code)
           /\ \A i \in 1..Len(code') : code'[i] \in Instruction
<1>1. code # <<>> /\ code' = Tail(code) /\ code \in Seq(Instruction)
  BY Executes DEF Shapes
<1>2. Tail(code) \in Seq(Instruction)
  BY <1>1, HeadTailProperties
<1>3. \A i \in 1..Len(code') : code'[i] \in Instruction
  BY <1>1, <1>2, ElementOfSeq
<1>4. Len(code') = Len(code) - 1 /\ Len(code) \in Nat \ {0}
  BY <1>1, HeadTailProperties, EmptySeq
<1>5. \A i \in 1..Len(code') : code'[i] = code[i + 1]
  BY <1>1, HeadTailProperties
<1> QED BY <1>3, <1>4, <1>5

\* What will be settled at an instruction is, when the one before it was executed;
LEMMA ShiftSettled ==
    ASSUME Shapes, Processor, NEW i \in 1..Len(code), Settled(i + 1)
    PROVE  Settled(i)'
<1>1. /\ code # <<>> /\ code' = Tail(code) /\ code \in Seq(Instruction)
      /\ code[1] = PREFETCH_FLUSH => pend' = <<>>
      /\ pend = <<>> /\ code[1] \notin Cp15Writes => pend' = <<>>
  BY Executes, Codes DEF Shapes
<1>2. CASE Found(code, i + 1, {PREFETCH_FLUSH}, Cp15Writes)
  BY <1>1, <1>2, ShiftFound DEF Settled
<1>3. CASE pend = <<>> /\ Free(code, i + 1, Cp15Writes)
  BY <1>1, <1>3, ShiftFree DEF Settled
<1> QED BY <1>2, <1>3 DEF Settled

\* what will be drained is,
LEMMA ShiftDrained ==
    ASSUME Shapes, Processor, NEW i \in 1..Len(code), Drained(i + 1)
    PROVE  Drained(i)'
<1>1. /\ code # <<>> /\ code' = Tail(code) /\ code \in Seq(Instruction)
      /\ code[1] = DSB => wbuf' = <<>>
      /\ wbuf = <<>> /\ code[1] \notin Stores => wbuf' = <<>>
  BY Executes, Codes DEF Shapes
<1>2. CASE Found(code, i + 1, {DSB}, Stores)
  BY <1>1, <1>2, ShiftFound DEF Drained
<1>3. CASE wbuf = <<>> /\ Free(code, i + 1, Stores)
  BY <1>1, <1>3, ShiftFree DEF Drained
<1> QED BY <1>2, <1>3 DEF Drained

\* and what will be complete.
LEMMA ShiftDone ==
    ASSUME Shapes, Processor, NEW i \in 1..Len(code), NEW o \in Operation, Done(i + 1, o)
    PROVE  Done(i, o)'
<1>1. /\ code # <<>> /\ code' = Tail(code) /\ code \in Seq(Instruction)
      /\ code[1] = DSB => o \notin maint'
      /\ o \notin maint /\ code[1] # [op |-> o] => o \notin maint'
  <2>1. code[1] \in Maintenance /\ code[1].op = o => code[1] = [op |-> o]
    BY Executes, Kinds
  <2> QED BY <2>1, Executes, Codes DEF Shapes
<1>2. CASE Found(code, i + 1, {DSB}, {[op |-> o]})
  BY <1>1, <1>2, ShiftFound DEF Done
<1>3. CASE o \notin maint /\ Free(code, i + 1, {[op |-> o]})
  BY <1>1, <1>3, ShiftFree DEF Done
<1> QED BY <1>2, <1>3 DEF Done

\* What goes on in memory can only end what is waited for.
LEMMA KeepWaits ==
    ASSUME Shapes, Memory, NEW i
    PROVE  /\ Settled(i) => Settled(i)'
           /\ Drained(i) => Drained(i)'
           /\ \A o \in Operation : Done(i, o) => Done(i, o)'
<1>1. code' = code /\ maint' \subseteq maint /\ (pend = <<>> => pend' = <<>>) /\
      (wbuf = <<>> => wbuf' = <<>>)
  BY MemoryIs
<1> QED BY <1>1 DEF Settled, Drained, Done

\* A call begins with nothing to wait for but stores, and its routine waits for its own.
LEMMA WaitsAtCall ==
    ASSUME Shapes, Unbooted, Waits, CallStep
    PROVE  Waits'
<1>1. /\ code = <<>> /\ UNCHANGED <<wbuf, pend, maint>>
      /\ \/ ~booted /\ booted' = TRUE /\ \E enable \in BOOLEAN : code' = Boot(enable)
         \/ /\ booted /\ booted' = TRUE
            /\ \/ \E t \in Made, p \in Pa : code' = Mapping(t, p)
               \/ \E t \in Made, u \in Table \ Made : code' = Copy(t, u)
               \/ \E t \in Made : code' = cp15_set_procid_ttbr0(t)
               \/ ~mmu_is_enabled /\ code' = mmu_enable
               \/ mmu_is_enabled /\ code' = mmu_disable
  BY Calls
<1>2. pend = <<>> /\ \A o \in Operation : o \notin maint
  <2>1. Len(code) + 1 = 1
    BY <1>1
  <2> QED BY <2>1, NoneBefore DEF Waits, Settled, Done
<1>3. Neat(code') /\ ((booted /\ Drains(code')) \/ wbuf = <<>>)
  <2>0. Made \subseteq Table
    BY DEF Made
  <2>1. CASE ~booted /\ \E enable \in BOOLEAN : code' = Boot(enable)
    BY <2>1, NeatBoot DEF Unbooted
  <2>2. CASE booted /\ \E t \in Made, p \in Pa : code' = Mapping(t, p)
    BY <2>0, <2>2, MapProfile, NeatMap
  <2>3. CASE booted /\ \E t \in Made, u \in Table \ Made : code' = Copy(t, u)
    BY <2>0, <2>3, CopyProfile, NeatCopy
  <2>4. CASE booted /\ \E t \in Made : code' = cp15_set_procid_ttbr0(t)
    BY <2>0, <2>4, SwitchProfile, NeatSwitch
  <2>5. CASE booted /\ code' = mmu_enable
    BY <2>5, EnableProfile, NeatEnable
  <2>6. CASE booted /\ code' = mmu_disable
    BY <2>6, DisableProfile, NeatDisable
  <2> QED BY <1>1, <2>1, <2>2, <2>3, <2>4, <2>5, <2>6
<1> QED BY <1>1, <1>2, <1>3 DEF Waits, Neat, Drains, Clear, Settled, Drained, Done

\* The routines wait for all they must wait for.
LEMMA WaitsAlways == Spec => []Waits
<1>1. Init => Waits
  <2> SUFFICES ASSUME Init PROVE Waits
    OBVIOUS
  <2>1. code = <<>> /\ pend = <<>> /\ maint = {} /\ Len(code) = 0
    BY DEF Init
  <2> QED BY <2>1, NoneBefore DEF Waits, Settled, Done
<1>2. ASSUME Shapes, Unbooted, Waits, [Next]_vars PROVE Waits'
  <2>1. CASE CallStep
    BY <1>2, <2>1, WaitsAtCall
  <2>2. CASE UNCHANGED vars \/ Store \/ Load
    <3>1. UNCHANGED <<code, pend, wbuf, maint>>
      BY <2>2 DEF vars, Store, Load
    <3> QED BY <1>2, <3>1 DEF Waits, Settled, Drained, Done
  <2>3. CASE Processor
    <3>1. ASSUME NEW i \in 1..Len(code')
          PROVE  /\ code'[i] \in Cp15Writes => Settled(i)'
                 /\ code'[i] = INV_TLB => Drained(i)'
      BY <1>2, <2>3, <3>1, ShiftCode, ShiftSettled, ShiftDrained DEF Waits
    <3>2. Len(code) \in 1..Len(code) /\ Len(code') + 1 = Len(code)
      BY <1>2, <2>3, ShiftCode
    <3>3. /\ Settled(Len(code) + 1)
          /\ \A o \in Operation : Done(Len(code) + 1, o)
      BY <1>2 DEF Waits
    <3>5. ASSUME NEW i, i = Len(code)
          PROVE  Settled(i)' /\ \A o \in Operation : Done(i, o)'
      BY <1>2, <2>3, <3>2, <3>3, <3>5, ShiftSettled, ShiftDone
    <3>6. Settled(Len(code) + 1)' /\ \A o \in Operation : Done(Len(code) + 1, o)'
      BY <3>2, <3>5
    <3>4. Len(pend') <= 1
      <4>1. CASE code[1] \in Cp15Writes
        <5>1. pend = <<>> /\ pend' = Append(pend, code[1])
          <6>1. Settled(1)
            BY <1>2, <2>3, <3>2, <4>1 DEF Waits
          <6> QED BY <1>2, <2>3, <4>1, <6>1, Executes, NoneBefore DEF Settled
        <5> QED BY <5>1
      <4>2. CASE code[1] \notin Cp15Writes
        BY <1>2, <2>3, <4>2, Executes DEF Waits
      <4> QED BY <4>1, <4>2
    <3> QED BY <3>1, <3>4, <3>6 DEF Waits
  <2>4. CASE Memory
    <3>1. Len(pend') <= 1
      <4>1. CASE Cp15Effect
        <5>1. PICK i \in 1..Len(pend) : pend' = RemoveAt(pend, i)
          BY <4>1 DEF Cp15Effect
        <5>0. pend \in Seq(Cp15Writes) /\ Len(pend) <= 1
          BY <1>2 DEF Shapes, Waits
        <5>2. Len(pend) = 1 /\ i = 1
          <6>1. Len(pend) \in Nat
            BY <5>0, LenProperties
          <6> QED BY <5>0, <5>1, <6>1
        <5> QED BY <5>1, <5>2 DEF RemoveAt
      <4> QED BY <1>2, <2>4, <4>1 DEF Memory, Drain, Complete, CacheEvict, Walk, TlbEvict, Waits
    <3>2. code' = code
      BY <1>2, <2>4, MemoryIs
    <3> QED BY <1>2, <2>4, <3>1, <3>2, KeepWaits DEF Waits
  <2> QED BY <1>2, <2>1, <2>2, <2>3, <2>4 DEF Next, Program, CallStep
<1> QED BY <1>1, <1>2, ShapesAlways, UnbootedAlways, PTL DEF Spec

----------------------------------------------------------------------------
(* What is under way stays asked for                                       *)

\* Only a call changes what a table will hold.
LEMMA KeepWritten ==
    ASSUME Shapes, Processor \/ Memory, NEW t \in Table, NEW va \in Va
    PROVE  Written(t, va)' = Written(t, va)
<1> DEFINE x == <<t, va>>
           now == Latest(wbuf, "pte", x, pt[t][va])
<1>1. CASE Processor
  <2>1. /\ code \in Seq(Instruction) /\ wbuf \in Seq(Stores) /\ code # <<>> /\ code' = Tail(code)
        /\ code[1] \in Instruction /\ pt' = pt
        /\ wbuf' = IF code[1] \in Stores THEN Append(wbuf, code[1]) ELSE wbuf
    BY <1>1, Executes DEF Shapes
  <2>2. Latest(code, "pte", x, now)
          = Latest(code', "pte", x, IF code[1].op = "pte" /\ code[1].to = x THEN code[1].val
                ELSE now)
    <3> HIDE DEF now, x
    <3> QED BY <2>1, LatestTail
  <2>3. now' = IF code[1].op = "pte" /\ code[1].to = x THEN code[1].val ELSE now
    <3>1. CASE code[1] \in Stores
      <4>1. wbuf' = Append(wbuf, code[1]) /\ pt'[t][va] = pt[t][va]
        BY <2>1, <3>1
      <4>2. Latest(Append(wbuf, code[1]), "pte", x, pt[t][va])
              = IF code[1].op = "pte" /\ code[1].to = x THEN code[1].val
                    ELSE Latest(wbuf, "pte", x, pt[t][va])
        <5> HIDE DEF x
        <5> QED BY <2>1, <3>1, LatestAppend
      <4> QED BY <4>1, <4>2
    <3>2. CASE code[1] \notin Stores
      <4>1. code[1].op # "pte"
        BY <2>1, <3>2, Kinds
      <4> QED BY <2>1, <3>2, <4>1
    <3> QED BY <3>1, <3>2
  <2>4. Written(t, va) = Latest(code, "pte", x, now) /\
        Written(t, va)' = Latest(code', "pte", x, now')
    BY DEF Written
  <2> HIDE DEF now, x
  <2> QED BY <2>2, <2>3, <2>4
<1>2. CASE Drain
  <2>1. wbuf \in Seq(Stores) /\ wbuf # <<>> /\ wbuf' = Tail(wbuf) /\ Head(wbuf) = wbuf[1] /\
        code' = code
        /\ pt' = [pt EXCEPT ![wbuf[1].to[1]][wbuf[1].to[2]] = wbuf[1].val]
    <3>1. wbuf \in Seq(Stores) /\ wbuf # <<>>
      BY <1>2 DEF Drain, Shapes
    <3>2. Head(wbuf) = wbuf[1]
      BY <3>1
    <3> QED BY <1>2, <3>1, <3>2 DEF Drain
  <2>2. wbuf[1] \in Stores
    BY <2>1, HeadTailProperties
  <2>3. wbuf[1].op = "pte" /\ wbuf[1].to[1] \in Table /\ wbuf[1].to[2] \in Va
        /\ (wbuf[1].to = x <=> wbuf[1].to[1] = t /\ wbuf[1].to[2] = va)
    BY <2>2, StoreIs, Kinds, Codes
  <2>4. pt'[t][va] = IF wbuf[1].to = x THEN wbuf[1].val ELSE pt[t][va]
    <3> DEFINE w == wbuf[1]
    <3> HIDE DEF w
    <3>1. pt' = [pt EXCEPT ![w.to[1]][w.to[2]] = w.val] /\ w.to[1] \in Table /\ w.to[2] \in Va
          /\ (w.to = x <=> w.to[1] = t /\ w.to[2] = va)
      BY <2>1, <2>3 DEF w
    <3>2. pt'[t][va] = IF w.to[1] = t /\ w.to[2] = va THEN w.val ELSE pt[t][va]
      BY <3>1 DEF Shapes
    <3> QED BY <3>1, <3>2 DEF w
  <2>5. now = Latest(wbuf', "pte", x, IF wbuf[1].op = "pte" /\ wbuf[1].to = x THEN wbuf[1].val
        ELSE pt[t][va])
    <3> HIDE DEF x
    <3> QED BY <2>1, LatestTail
  <2>6. now' = now
    <3> HIDE DEF x
    <3> QED BY <2>3, <2>4, <2>5
  <2>7. Written(t, va) = Latest(code, "pte", x, now) /\
        Written(t, va)' = Latest(code', "pte", x, now')
    BY DEF Written
  <2> HIDE DEF now, x
  <2> QED BY <2>1, <2>6, <2>7
<1>3. CASE Memory /\ ~Drain
  BY <1>3 DEF Memory, Cp15Effect, Complete, CacheEvict, Walk, TlbEvict, Written
<1> QED BY <1>1, <1>2, <1>3

Register == {"mmu", "ttbr", "asid", "client"}

\* What register r holds once the writes under way have taken effect.
Now(r) == Latest(pend, "set", r, reg[r])

\* At most one write to cp15 is pending.
LEMMA PendIs ==
    ASSUME Shapes, Waits
    PROVE  pend = <<>> \/ (Len(pend) = 1 /\ pend[1] \in Cp15Writes)
<1>1. pend \in Seq(Cp15Writes) /\ Len(pend) <= 1
  BY DEF Shapes, Waits
<1>2. CASE pend # <<>>
  <2>1. Len(pend) \in Nat /\ Len(pend) # 0
    BY <1>1, <1>2, EmptySeq, LenProperties
  <2>2. Len(pend) = 1
    <3> DEFINE n == Len(pend)
    <3>1. n \in Nat /\ n # 0 /\ n <= 1
      BY <1>1, <2>1
    <3> HIDE DEF n
    <3>2. n = 1
      BY <3>1
    <3> QED BY <3>2 DEF n
  <2>3. pend[1] \in Cp15Writes
    BY <1>1, <2>2, ElementOfSeq
  <2> QED BY <2>2, <2>3
<1> QED BY <1>2

\* What a register will hold is what the pending write gives it, if one does.
LEMMA NowIs ==
    ASSUME Shapes, Waits, NEW r
    PROVE  Now(r) = IF pend # <<>> /\ pend[1].to = r THEN pend[1].val ELSE reg[r]
<1>1. CASE pend = <<>>
  <2>1. \A i \in 1..Len(pend) : ~Concerns(pend, "set", r, i)
    BY <1>1
  <2> QED BY <1>1, <2>1, LatestNone DEF Now
<1>2. CASE pend # <<>>
  <2>1. pend \in Seq(Cp15Writes) /\ Len(pend) = 1 /\ pend[1] \in Cp15Writes /\ pend[1].op = "set"
    BY <1>2, PendIs, Codes, Kinds DEF Shapes
  <2>2. CASE pend[1].to = r
    <3>1. Concerns(pend, "set", r, 1) /\ \A j \in 1+1..Len(pend) : ~Concerns(pend, "set", r, j)
      BY <2>1, <2>2 DEF Concerns
    <3>2. Latest(pend, "set", r, reg[r]) = pend[1].val
      BY <2>1, <3>1, LatestIs
    <3> QED BY <1>2, <2>2, <3>2 DEF Now
  <2>3. CASE pend[1].to # r
    <3>1. \A i \in 1..Len(pend) : ~Concerns(pend, "set", r, i)
      BY <2>1, <2>3 DEF Concerns
    <3> QED BY <2>3, <3>1, LatestNone DEF Now
  <2> QED BY <2>2, <2>3
<1> QED BY <1>1, <1>2

\* The pending write takes effect, and none is left.
LEMMA EffectIs ==
    ASSUME Shapes, Waits, Cp15Effect
    PROVE  /\ pend # <<>> /\ pend' = <<>> /\ pend[1] \in Cp15Writes /\ pend[1].to \in Register
           /\ reg' = [reg EXCEPT ![pend[1].to] = pend[1].val]
           /\ \A r \in Register : reg'[r] = IF pend[1].to = r THEN pend[1].val ELSE reg[r]
           /\ UNCHANGED <<code, booted, pt, wbuf, maint, tlb, cache, mem, rd>>
<1>1. PICK i \in 1..Len(pend) : reg' = [reg EXCEPT ![pend[i].to] = pend[i].val] /\
      pend' = RemoveAt(pend, i)
  BY DEF Cp15Effect
<1>2. pend # <<>> /\ Len(pend) = 1 /\ i = 1 /\ pend[1] \in Cp15Writes
  BY <1>1, PendIs
<1>3. pend' = <<>>
  BY <1>1, <1>2 DEF RemoveAt
<1>4. pend[1].to \in Register
  BY <1>2, WriteIs DEF Register
<1>5. \A r \in Register : reg'[r] = IF pend[1].to = r THEN pend[1].val ELSE reg[r]
  BY <1>1, <1>2, <1>4 DEF Shapes, Register
<1> QED BY <1>1, <1>2, <1>3, <1>4, <1>5 DEF Cp15Effect

\* A register is given a value by the instruction that writes it, not when the write takes
\* effect.
LEMMA NowStep ==
    ASSUME Shapes, Waits, NEW r \in Register
    PROVE  /\ Processor => Now(r)' = IF code[1] \in Cp15Writes /\ code[1].to = r THEN code[1].val
                  ELSE Now(r)
           /\ Memory => Now(r)' = Now(r)
<1>1. ASSUME Processor
      PROVE  Now(r)' = IF code[1] \in Cp15Writes /\ code[1].to = r THEN code[1].val ELSE Now(r)
  <2>1. /\ pend \in Seq(Cp15Writes) /\ reg' = reg
        /\ pend' = IF code[1] \in Cp15Writes THEN Append(pend, code[1]) ELSE pend
    BY <1>1, Executes DEF Shapes
  <2>2. CASE code[1] \in Cp15Writes
    <3>1. Latest(Append(pend, code[1]), "set", r, reg[r])
            = IF code[1].op = "set" /\ code[1].to = r THEN code[1].val
                  ELSE Latest(pend, "set", r, reg[r])
      BY <2>1, <2>2, LatestAppend
    <3>2. code[1].op = "set"
      BY <2>2, Codes, Kinds
    <3> QED BY <2>1, <2>2, <3>1, <3>2 DEF Now
  <2>3. CASE code[1] \notin Cp15Writes
    BY <2>1, <2>3 DEF Now
  <2> QED BY <2>2, <2>3
<1>2. ASSUME Memory PROVE Now(r)' = Now(r)
  <2>1. CASE Cp15Effect
    <3>1. Now(r)' = reg'[r]
      <4>1. \A i \in 1..Len(pend') : ~Concerns(pend', "set", r, i)
        BY <2>1, EffectIs
      <4> QED BY <4>1, LatestNone DEF Now
    <3> QED BY <2>1, <3>1, EffectIs, NowIs
  <2>2. CASE ~Cp15Effect
    BY <1>2, <2>2 DEF Memory, Drain, Complete, CacheEvict, Walk, TlbEvict, Now
  <2> QED BY <2>1, <2>2
<1> QED BY <1>1, <1>2

\* Only a call changes what the registers will hold.
LEMMA KeepAsked ==
    ASSUME Shapes, Waits, Processor \/ Memory, NEW r \in Register
    PROVE  Asked(r)' = Asked(r)
<1> DEFINE now == Now(r)
<1>1. Asked(r) = Latest(code, "set", r, now) /\ Asked(r)' = Latest(code', "set", r, now')
  BY DEF Asked, Now
<1>2. CASE Processor
  <2>1. code \in Seq(Instruction) /\ code # <<>> /\ code' = Tail(code) /\ code[1] \in Instruction
    BY <1>2, Executes DEF Shapes
  <2>2. now' = IF code[1].op = "set" /\ code[1].to = r THEN code[1].val ELSE now
    BY <1>2, <2>1, NowStep, Kinds
  <2> HIDE DEF now
  <2>3. Latest(code, "set", r, now)
          = Latest(code', "set", r, IF code[1].op = "set" /\ code[1].to = r THEN code[1].val
                ELSE now)
    BY <2>1, LatestTail
  <2> QED BY <1>1, <2>2, <2>3
<1>3. CASE Memory
  <2>1. now' = now /\ code' = code
    BY <1>3, NowStep, MemoryIs
  <2> HIDE DEF now
  <2> QED BY <1>1, <2>1
<1> QED BY <1>2, <1>3

----------------------------------------------------------------------------
(* The registers and the kernel's entries                                  *)

KPte == Pte(Kernel, TRUE)
KernelTlb == \A e \in tlb : e.va = "kern" => e.tag = Global /\ e.pte = KPte
Writes(r) == {w \in Cp15Writes : w.to = r}
KernelStores(t) == {w \in Stores : w.to = <<t, "kern">>}

\* Register r holds v, or is about to.
Being(r, v) == reg[r] = v \/ \E k \in 1..Len(pend) : pend[k] = Set(r, v)

\* Before the i-th instruction r was last given the value v ...
RegIs(i, r, v) == \/ Found(code, i, {Set(r, v)}, Writes(r))
                  \/ Now(r) = v /\ Free(code, i, Writes(r))

\* ... and the TLB invalidated, with nothing but the kernel's entry for the kernel since.
Flushed(i) == \/ Found(code, i, {INV_TLB}, {})
              \/ "inv_tlb" \in maint \/ KernelTlb

KernelKept(t) == /\ pt[t]["kern"] = KPte
                 /\ \A k \in 1..Len(wbuf) : wbuf[k] \notin KernelStores(t)
                 /\ \A k \in 1..Len(code) : code[k] \notin KernelStores(t)

\* No table is used before it maps the kernel and is in memory, and the MMU turned on
\* only with such a table, the domain a client and nothing old in the TLB.
TtbrRule(i) ==
    \A t \in Table \cup {0} : code[i] = Set("ttbr", t) =>
       t \in Made /\ Drained(i) /\ \A k \in i..Len(code) : code[k] \notin Stores
MmuRule(i) ==
    code[i] = Set("mmu", 1) =>
       /\ RegIs(i, "client", 1) /\ \E t \in Table : RegIs(i, "ttbr", t)
       /\ Flushed(i) /\ Done(i, "inv_tlb")

RegRules == \A i \in 1..Len(code) : TtbrRule(i) /\ MmuRule(i) /\ code[i] # Set("client", 0)

RegReady(n) ==
    booted => Flushed(n) /\ RegIs(n, "client", 1) /\ \E t \in Table : RegIs(n, "ttbr", t)

RegState ==
    /\ Being("mmu", 1) => reg["client"] = 1 /\ reg["ttbr"] # 0 /\ KernelTlb
    /\ \A k \in 1..Len(pend) : pend[k] # Set("ttbr", 0) /\ pend[k] # Set("client", 0)
    /\ \A t \in Table : Being("ttbr", t) => KernelKept(t)
    /\ \A t \in Table : Written(t, "kern") \in {Fault, KPte}
    /\ RegReady(Len(code) + 1)

\* A register that is given a value before the next instruction has been, once the first is
\* executed.
LEMMA ShiftReg ==
    ASSUME Shapes, Waits, Processor, NEW r \in Register, NEW v, NEW i \in 1..Len(code),
           RegIs(i + 1, r, v)
    PROVE  RegIs(i, r, v)'
<1>1. /\ code # <<>> /\ code' = Tail(code) /\ code \in Seq(Instruction)
      /\ code[1] = Set(r, v) => Now(r)' = v
      /\ Now(r) = v /\ code[1] \notin Writes(r) => Now(r)' = v
  <2>1. code[1] \in Instruction
    BY Executes
  <2>2. code[1] = Set(r, v) => code[1] \in Cp15Writes /\ code[1].to = r /\ code[1].val = v
    BY <2>1, SetIs, Kinds
  <2> QED BY <2>2, Executes, NowStep DEF Shapes, Writes
<1>2. CASE Found(code, i + 1, {Set(r, v)}, Writes(r))
  BY <1>1, <1>2, ShiftFound DEF RegIs
<1>3. CASE Now(r) = v /\ Free(code, i + 1, Writes(r))
  BY <1>1, <1>3, ShiftFree DEF RegIs
<1> QED BY <1>2, <1>3 DEF RegIs

\* The same of the TLB.
LEMMA ShiftFlushed ==
    ASSUME Shapes, Processor, NEW i \in 1..Len(code), Flushed(i + 1)
    PROVE  Flushed(i)'
<1>1. /\ code # <<>> /\ code' = Tail(code) /\ code \in Seq(Instruction) /\ tlb' = tlb
      /\ maint \subseteq maint'
      /\ code[1] = INV_TLB => "inv_tlb" \in maint'
  BY Executes, Codes DEF Shapes
<1>2. CASE Found(code, i + 1, {INV_TLB}, {})
  BY <1>1, <1>2, ShiftFound DEF Flushed
<1>3. CASE "inv_tlb" \in maint \/ KernelTlb
  BY <1>1, <1>3 DEF Flushed, KernelTlb
<1> QED BY <1>2, <1>3 DEF Flushed

\* A register comes to hold a value only by an instruction that writes it.
LEMMA BeingStep ==
    ASSUME Shapes, Waits, NEW r \in Register, NEW v, Being(r, v)'
    PROVE  /\ Processor => Being(r, v) \/ code[1] = Set(r, v)
           /\ Memory => Being(r, v)
<1>1. ASSUME Processor PROVE Being(r, v) \/ code[1] = Set(r, v)
  <2>1. /\ pend \in Seq(Cp15Writes) /\ reg' = reg
        /\ pend' = IF code[1] \in Cp15Writes THEN Append(pend, code[1]) ELSE pend
    BY <1>1, Executes DEF Shapes
  <2>2. CASE code[1] \in Cp15Writes
    <3>1. Len(pend') = Len(pend) + 1 /\ pend'[Len(pend) + 1] = code[1] /\ Len(pend) \in Nat
          /\ \A k \in 1..Len(pend) : pend'[k] = pend[k]
      BY <2>1, <2>2, AppendProperties
    <3>2. ASSUME NEW k \in 1..Len(pend'), pend'[k] = Set(r, v)
          PROVE Being(r, v) \/ code[1] = Set(r, v)
      <4>1. k \in 1..Len(pend) \/ k = Len(pend) + 1
        BY <3>1
      <4> QED BY <3>1, <3>2, <4>1 DEF Being
    <3> QED BY <2>1, <3>2 DEF Being
  <2>3. CASE code[1] \notin Cp15Writes
    BY <2>1, <2>3 DEF Being
  <2> QED BY <2>2, <2>3
<1>2. ASSUME Memory PROVE Being(r, v)
  <2>1. CASE Cp15Effect
    <3>1. pend # <<>> /\ pend' = <<>> /\ pend[1] \in Cp15Writes
          /\ reg'[r] = IF pend[1].to = r THEN pend[1].val ELSE reg[r]
      BY <2>1, EffectIs
    <3>2. reg'[r] = v
      BY <3>1 DEF Being
    <3>3. CASE pend[1].to = r
      <4>1. pend[1] = Set(r, v)
        BY <3>1, <3>2, <3>3, WriteIs
      <4>2. 1 \in 1..Len(pend)
        BY <3>1, PendIs
      <4> QED BY <4>1, <4>2 DEF Being
    <3>4. CASE pend[1].to # r
      BY <3>1, <3>2, <3>4 DEF Being
    <3> QED BY <3>3, <3>4
  <2>2. CASE ~Cp15Effect
    BY <1>2, <2>2 DEF Memory, Drain, Complete, CacheEvict, Walk, TlbEvict, Being
  <2> QED BY <2>1, <2>2
<1> QED BY <1>1, <1>2

\* With no write pending a register is what it was last given.
LEMMA SettledReg ==
    ASSUME Shapes, Waits, Settled(1)
    PROVE  /\ pend = <<>>
           /\ \A r, v : Now(r) = reg[r] /\ (Being(r, v) <=> reg[r] = v) /\
                  (RegIs(1, r, v) => reg[r] = v)
<1>1. pend = <<>>
  BY NoneBefore DEF Settled
<1>2. \A r : Now(r) = reg[r]
  BY <1>1, NowIs
<1>3. \A r, v : Being(r, v) <=> reg[r] = v
  BY <1>1 DEF Being
<1>4. \A r, v : RegIs(1, r, v) => reg[r] = v
  BY <1>2, NoneBefore DEF RegIs
<1> QED BY <1>1, <1>2, <1>3, <1>4

\* Only a call makes a table.
LEMMA KeepMade ==
    ASSUME Shapes, Processor \/ Memory
    PROVE  Made' = Made
<1>1. "kern" \in Va
  BY DEF Va
<1>2. \A t \in Table : Written(t, "kern")' = Written(t, "kern")
  BY <1>1, KeepWritten
<1> QED BY <1>2 DEF Made, vm_lookup

\* Instructions keep the rules of the registers, which each has before it is executed.
LEMMA ProcessorRegs ==
    ASSUME Shapes, Waits, RegRules, RegState, Processor
    PROVE  RegRules' /\ RegState'
<1>0. /\ code # <<>> /\ code' = Tail(code) /\ code[1] \in Instruction
      /\ UNCHANGED <<booted, pt, reg, tlb, cache, mem, rd>>
      /\ pend' = IF code[1] \in Cp15Writes THEN Append(pend, code[1]) ELSE pend
      /\ wbuf' = IF code[1] \in Stores THEN Append(wbuf, code[1]) ELSE wbuf
      /\ 1 \in 1..Len(code) /\ Len(code) \in 1..Len(code) /\ Len(code') + 1 = Len(code)
      /\ Len(code) \in Nat
  BY Executes, ShiftCode
<1>1. Made' = Made
  BY KeepMade
<1>2. ASSUME NEW i \in 1..Len(code')
      PROVE TtbrRule(i)' /\ MmuRule(i)' /\ code'[i] # Set("client", 0)
  <2>1. code'[i] = code[i + 1] /\ i + 1 \in 1..Len(code) /\ i \in 1..Len(code)
        /\ \A k \in 1..Len(code') : code'[k] = code[k + 1] /\ k + 1 \in 1..Len(code)
    BY ShiftCode
  <2>2. TtbrRule(i + 1) /\ MmuRule(i + 1) /\ code[i + 1] # Set("client", 0)
    BY <2>1 DEF RegRules
  <2>3. TtbrRule(i)'
    <3> SUFFICES ASSUME NEW t \in Table \cup {0}, code'[i] = Set("ttbr", t)
                 PROVE  t \in Made' /\ Drained(i)' /\
                            \A k \in i..Len(code') : code'[k] \notin Stores
      BY DEF TtbrRule
    <3>1. t \in Made /\ Drained(i + 1) /\ \A k \in i + 1..Len(code) : code[k] \notin Stores
      BY <2>1, <2>2 DEF TtbrRule
    <3>2. \A k \in i..Len(code') : code'[k] \notin Stores
      <4> TAKE k \in i..Len(code')
      <4>1. k \in 1..Len(code') /\ k + 1 \in i + 1..Len(code)
        BY <1>0
      <4> QED BY <2>1, <3>1, <4>1
    <3> QED BY <1>1, <2>1, <3>1, <3>2, ShiftDrained
  <2>4. MmuRule(i)'
    <3> SUFFICES ASSUME code'[i] = Set("mmu", 1)
                 PROVE  /\ RegIs(i, "client", 1)' /\ \E t \in Table : RegIs(i, "ttbr", t)'
                        /\ Flushed(i)' /\ Done(i, "inv_tlb")'
      BY DEF MmuRule
    <3>1. RegIs(i + 1, "client", 1) /\ Flushed(i + 1) /\ Done(i + 1, "inv_tlb")
      BY <2>1, <2>2 DEF MmuRule
    <3>2. PICK t \in Table : RegIs(i + 1, "ttbr", t)
      BY <2>1, <2>2 DEF MmuRule
    <3> QED BY <2>1, <3>1, <3>2, ShiftReg, ShiftFlushed, ShiftDone DEF Register, Operation
  <2> QED BY <2>1, <2>2, <2>3, <2>4
<1>3. Being("mmu", 1)' => reg'["client"] = 1 /\ reg'["ttbr"] # 0 /\ KernelTlb'
  <2> SUFFICES ASSUME Being("mmu", 1)' PROVE reg["client"] = 1 /\ reg["ttbr"] # 0 /\ KernelTlb
    BY <1>0 DEF KernelTlb
  <2>1. CASE Being("mmu", 1)
    BY <2>1 DEF RegState
  <2>2. CASE code[1] = Set("mmu", 1)
    <3>1. code[1] \in Cp15Writes
      BY <2>2, SetIs
    <3>2. Settled(1) /\ MmuRule(1)
      BY <1>0, <3>1 DEF Waits, RegRules
    <3>3. PICK t \in Table : RegIs(1, "client", 1) /\ RegIs(1, "ttbr", t) /\ Flushed(1) /\
          Done(1, "inv_tlb")
      BY <2>2, <3>2 DEF MmuRule
    <3>4. reg["client"] = 1 /\ reg["ttbr"] = t /\ t # 0
      BY <3>2, <3>3, SettledReg DEF Table
    <3>5. KernelTlb
      BY <3>3, NoneBefore DEF Flushed, Done
    <3> QED BY <3>4, <3>5
  <2> QED BY <2>1, <2>2, BeingStep DEF Register
<1>4. \A k \in 1..Len(pend') : pend'[k] # Set("ttbr", 0) /\ pend'[k] # Set("client", 0)
  <2>1. code[1] # Set("ttbr", 0) /\ code[1] # Set("client", 0)
    BY <1>0 DEF RegRules, TtbrRule, Made, Table
  <2>2. \A k \in 1..Len(pend') : pend'[k] = code[1] \/ (k \in 1..Len(pend) /\ pend'[k] = pend[k])
    <3>1. pend \in Seq(Cp15Writes)
      BY DEF Shapes
    <3> QED BY <1>0, <3>1, AppendProperties
  <2> QED BY <2>1, <2>2 DEF RegState
<1>5. ASSUME NEW t \in Table, Being("ttbr", t)' PROVE KernelKept(t)'
  <2>1. CASE Being("ttbr", t)
    <3>1. KernelKept(t)
      BY <2>1 DEF RegState
    <3>2. \A k \in 1..Len(wbuf') : wbuf'[k] = code[1] \/ (k \in 1..Len(wbuf) /\ wbuf'[k] = wbuf[k])
      <4>1. wbuf \in Seq(Stores)
        BY DEF Shapes
      <4> QED BY <1>0, <4>1, AppendProperties
    <3>3. \A k \in 1..Len(code') : code'[k] = code[k + 1] /\ k + 1 \in 1..Len(code)
      BY ShiftCode
    <3>4. code[1] \notin KernelStores(t)
      BY <1>0, <3>1 DEF KernelKept
    <3>5. /\ pt'[t]["kern"] = KPte
          /\ \A k \in 1..Len(wbuf') : wbuf'[k] \notin KernelStores(t)
          /\ \A k \in 1..Len(code') : code'[k] \notin KernelStores(t)
      BY <1>0, <3>1, <3>2, <3>3, <3>4 DEF KernelKept
    <3> QED BY <3>5 DEF KernelKept
  <2>2. CASE code[1] = Set("ttbr", t)
    <3>1. t \in Made /\ Drained(1) /\ \A k \in 1..Len(code) : code[k] \notin Stores
      BY <1>0, <2>2 DEF RegRules, TtbrRule
    <3>2. wbuf = <<>> /\ wbuf' = <<>>
      BY <1>0, <3>1, NoneBefore DEF Drained
    <3>3. Written(t, "kern") = pt[t]["kern"]
      <4>1. \A k \in 1..Len(code) : ~Concerns(code, "pte", <<t, "kern">>, k)
        <5>1. \A k \in 1..Len(code) : code[k] \in Instruction
          BY ElementOfSeq DEF Shapes
        <5> QED BY <3>1, <5>1, Kinds DEF Concerns
      <4>2. \A k \in 1..Len(wbuf) : ~Concerns(wbuf, "pte", <<t, "kern">>, k)
        BY <3>2
      <4> QED BY <4>1, <4>2, LatestNone DEF Written
    <3>4. pt[t]["kern"] = KPte
      BY <3>1, <3>3 DEF RegState, Made, vm_lookup
    <3>5. \A k \in 1..Len(code') : code'[k] \notin Stores
      BY <3>1, ShiftCode
    <3> QED BY <1>0, <3>2, <3>4, <3>5 DEF KernelKept, KernelStores
  <2> QED BY <1>5, <2>1, <2>2, BeingStep DEF Register
<1>6. \A t \in Table : Written(t, "kern")' \in {Fault, KPte}
  BY KeepWritten DEF RegState, Va
<1>7. RegReady(Len(code) + 1)'
  <2> SUFFICES ASSUME NEW n, n = Len(code), booted PROVE RegReady(n)'
    BY <1>0 DEF RegReady
  <2>1. /\ Flushed(n + 1) /\ RegIs(n + 1, "client", 1) /\ \E t \in Table : RegIs(n + 1, "ttbr", t)
    BY DEF RegState, RegReady
  <2>2. PICK t \in Table : RegIs(n + 1, "ttbr", t)
    BY <2>1
  <2> QED BY <1>0, <2>1, <2>2, ShiftReg, ShiftFlushed DEF Register, RegReady
<1> QED BY <1>2, <1>3, <1>4, <1>5, <1>6, <1>7 DEF RegRules, RegState

\* Nothing beside the processor gives a register a value,
LEMMA KeepReg ==
    ASSUME Shapes, Waits, Memory, NEW r \in Register, NEW v, NEW i, RegIs(i, r, v)
    PROVE  RegIs(i, r, v)'
<1>1. code' = code /\ Now(r)' = Now(r)
  BY MemoryIs, NowStep
<1> QED BY <1>1 DEF RegIs

\* loads an entry for the kernel that is not the one in its table,
LEMMA KeepKernelTlb ==
    ASSUME Shapes, RegState, Memory, KernelTlb
    PROVE  KernelTlb'
<1>1. CASE Walk
  <2>1. PICK va \in Va : tlb' = tlb \cup
               {[tag |-> IF InTable(va).nG THEN reg.asid ELSE Global, va |-> va,
                 pte |-> InTable(va)]}
                         /\ reg.mmu = 1
    BY <1>1 DEF Walk
  <2>2. CASE va = "kern"
    <3>1. reg.ttbr # 0 /\ reg.ttbr \in Table \cup {0}
      BY <2>1 DEF RegState, Being, Shapes
    <3>2. KernelKept(reg.ttbr)
      BY <3>1 DEF RegState, Being
    <3>3. InTable("kern") = KPte
      BY <3>1, <3>2 DEF KernelKept, InTable
    <3>4. KPte.nG = FALSE
      BY DEF KPte, Pte
    <3> QED BY <2>1, <2>2, <3>3, <3>4 DEF KernelTlb
  <2>3. CASE va # "kern"
    BY <2>1, <2>3 DEF KernelTlb
  <2> QED BY <2>2, <2>3
<1>2. CASE ~Walk
  <2>1. tlb' \subseteq tlb
    BY <1>2 DEF Memory, Drain, Cp15Effect, Complete, CacheEvict, TlbEvict
  <2> QED BY <2>1 DEF KernelTlb
<1> QED BY <1>1, <1>2

\* undoes an invalidation of the TLB,
LEMMA KeepFlushed ==
    ASSUME Shapes, RegState, Memory, NEW i, Flushed(i)
    PROVE  Flushed(i)'
<1>1. code' = code
  BY MemoryIs
<1>2. CASE Found(code, i, {INV_TLB}, {})
  BY <1>1, <1>2 DEF Flushed
<1>3. CASE KernelTlb
  BY <1>3, KeepKernelTlb DEF Flushed
<1>4. CASE "inv_tlb" \in maint
  <2>1. "inv_tlb" \in maint' \/ tlb' = {}
    BY <1>4 DEF Memory, Drain, Cp15Effect, Complete, CacheEvict, Walk, TlbEvict
  <2> QED BY <2>1 DEF Flushed, KernelTlb
<1> QED BY <1>2, <1>3, <1>4 DEF Flushed

\* or changes the entry of the kernel in a table in use.
LEMMA KeepKernel ==
    ASSUME Shapes, Memory, NEW t \in Table, KernelKept(t)
    PROVE  KernelKept(t)'
<1>1. CASE Drain
  <2>1. wbuf # <<>> /\ wbuf \in Seq(Stores) /\ wbuf' = Tail(wbuf) /\ code' = code
    BY <1>1 DEF Drain, Shapes
  <2>2. /\ Head(wbuf) = wbuf[1] /\ 1 \in 1..Len(wbuf)
        /\ \A k \in 1..Len(wbuf') : wbuf'[k] = wbuf[k + 1] /\ k + 1 \in 1..Len(wbuf)
    BY <2>1, HeadTailProperties, EmptySeq, LenProperties
  <2> DEFINE w == wbuf[1]
  <2>3. w \in Stores /\ w \notin KernelStores(t)
    BY <2>1, <2>2, ElementOfSeq DEF KernelKept
  <2>4. w.to[1] \in Table /\ w.to[2] \in Va /\ w.to = <<w.to[1], w.to[2]>>
    BY <2>3, StoreIs
  <2>5. ~(w.to[1] = t /\ w.to[2] = "kern")
    BY <2>3, <2>4 DEF KernelStores
  <2>6. pt' = [pt EXCEPT ![w.to[1]][w.to[2]] = w.val]
    BY <1>1, <2>2 DEF Drain
  <2> HIDE DEF w
  <2>7. pt'[t]["kern"] = pt[t]["kern"]
    BY <2>4, <2>5, <2>6 DEF Shapes, Va
  <2> QED BY <2>1, <2>2, <2>7 DEF KernelKept
<1>2. CASE ~Drain
  BY <1>2 DEF Memory, Cp15Effect, Complete, CacheEvict, Walk, TlbEvict, KernelKept
<1> QED BY <1>1, <1>2

\* So it keeps the rules of the registers.
LEMMA MemoryRegs ==
    ASSUME Shapes, Waits, RegRules, RegState, Memory
    PROVE  RegRules' /\ RegState'
<1>0. UNCHANGED <<code, booted>> /\ Made' = Made
  BY MemoryIs, KeepMade
<1>1. ASSUME NEW i \in 1..Len(code')
      PROVE TtbrRule(i)' /\ MmuRule(i)' /\ code'[i] # Set("client", 0)
  <2>1. TtbrRule(i) /\ MmuRule(i) /\ code[i] # Set("client", 0)
    BY <1>0 DEF RegRules
  <2>2. TtbrRule(i)'
    BY <1>0, <2>1, KeepWaits DEF TtbrRule
  <2>3. MmuRule(i)'
    <3> SUFFICES ASSUME code[i] = Set("mmu", 1)
                 PROVE  /\ RegIs(i, "client", 1)' /\ \E t \in Table : RegIs(i, "ttbr", t)'
                        /\ Flushed(i)' /\ Done(i, "inv_tlb")'
      BY <1>0 DEF MmuRule
    <3>1. RegIs(i, "client", 1) /\ Flushed(i) /\ Done(i, "inv_tlb")
      BY <2>1 DEF MmuRule
    <3>2. PICK t \in Table : RegIs(i, "ttbr", t)
      BY <2>1 DEF MmuRule
    <3> QED BY <3>1, <3>2, KeepReg, KeepFlushed, KeepWaits DEF Register, Operation
  <2> QED BY <1>0, <2>1, <2>2, <2>3
<1>2. Being("mmu", 1)' => reg'["client"] = 1 /\ reg'["ttbr"] # 0 /\ KernelTlb'
  <2> SUFFICES ASSUME Being("mmu", 1)' PROVE reg'["client"] = 1 /\ reg'["ttbr"] # 0 /\ KernelTlb'
    OBVIOUS
  <2>1. reg["client"] = 1 /\ reg["ttbr"] # 0 /\ KernelTlb
    BY BeingStep DEF RegState, Register
  <2>2. reg'["client"] = 1 /\ reg'["ttbr"] # 0
    <3>1. CASE Cp15Effect
      <4>1. /\ reg'["client"] = IF pend[1].to = "client" THEN pend[1].val ELSE reg["client"]
            /\ reg'["ttbr"] = IF pend[1].to = "ttbr" THEN pend[1].val ELSE reg["ttbr"]
            /\ pend # <<>> /\ pend[1] \in Cp15Writes
        BY <3>1, EffectIs DEF Register
      <4>2. pend[1] # Set("ttbr", 0) /\ pend[1] # Set("client", 0)
        <5>1. 1 \in 1..Len(pend)
          BY <4>1, PendIs
        <5> QED BY <5>1 DEF RegState
      <4>3. pend[1].to = "client" => pend[1].val = 1
        BY <4>1, <4>2, WriteIs
      <4>4. pend[1].to = "ttbr" => pend[1].val # 0
        BY <4>1, <4>2, WriteIs
      <4> QED BY <2>1, <4>1, <4>3, <4>4
    <3>2. CASE ~Cp15Effect
      BY <2>1, <3>2 DEF Memory, Drain, Complete, CacheEvict, Walk, TlbEvict
    <3> QED BY <3>1, <3>2
  <2> QED BY <2>1, <2>2, KeepKernelTlb
<1>3. \A k \in 1..Len(pend') : pend'[k] # Set("ttbr", 0) /\ pend'[k] # Set("client", 0)
  <2>1. CASE Cp15Effect
    BY <2>1, EffectIs
  <2>2. CASE ~Cp15Effect
    BY <2>2 DEF Memory, Drain, Complete, CacheEvict, Walk, TlbEvict, RegState
  <2> QED BY <2>1, <2>2
<1>4. \A t \in Table : Being("ttbr", t)' => KernelKept(t)'
  BY BeingStep, KeepKernel DEF RegState, Register
<1>5. \A t \in Table : Written(t, "kern")' \in {Fault, KPte}
  BY KeepWritten DEF RegState, Va
<1>6. RegReady(Len(code) + 1)'
  <2> SUFFICES ASSUME NEW n, n = Len(code) + 1, booted PROVE RegReady(n)'
    BY <1>0 DEF RegReady
  <2>1. /\ Flushed(n) /\ RegIs(n, "client", 1) /\ \E t \in Table : RegIs(n, "ttbr", t)
    BY DEF RegState, RegReady
  <2>2. PICK t \in Table : RegIs(n, "ttbr", t)
    BY <2>1
  <2> QED BY <2>1, <2>2, KeepReg, KeepFlushed DEF Register, RegReady
<1> QED BY <1>1, <1>2, <1>3, <1>4, <1>5, <1>6 DEF RegRules, RegState

----------------------------------------------------------------------------
(* The routines, register by register                                      *)

\* One of them is in B if the j-th one is.
LEMMA FoundAt ==
    ASSUME NEW c, NEW i, NEW B, NEW N, NEW j \in 1..i-1, c[j] \in B,
           \A k \in j+1..i-1 : c[k] \notin N
    PROVE  Found(c, i, B, N)
BY DEF Found

\* A write is one to its own register only.
LEMMA WriteOf ==
    ASSUME NEW r, NEW v, NEW s, Set(r, v) \in Cp15Writes
    PROVE  Set(r, v) \in Writes(s) <=> r = s
BY SetIs DEF Writes

\* Writes that are the same write the same value to the same register.
LEMMA SetInj == \A r, v, s, u : Set(r, v) = Set(s, u) => r = s /\ v = u
<1> SUFFICES ASSUME NEW r, NEW v, NEW s, NEW u, Set(r, v) = Set(s, u) PROVE r = s /\ v = u
  OBVIOUS
<1> QED BY SetIs

UPte(p) == Pte(p, FALSE)

\* A store is one of its own entry.
LEMMA StoreVal ==
    \A t, va, e : StorePte(t, va, e).to = <<t, va>> /\ StorePte(t, va, e).val = e
BY DEF StorePte

\* The instructions of vm_map_kernel that matter to registers, tables, TLB and cache,
LEMMA BootFacts ==
    ASSUME NEW enable \in BOOLEAN, NEW c, c = Boot(enable)
    PROVE  /\ c \in Seq(Instruction) /\ Len(c) = IF enable THEN 36 ELSE 26
           /\ \A k \in 1..Len(c) : c[k] \in Stores <=> k \in 10..13
           /\ \A k \in 1..Len(c) : c[k] \in Writes("client") <=> k = 8
           /\ \A k \in 1..Len(c) : c[k] \in Writes("ttbr") <=> k = 22
           /\ \A k \in 1..Len(c) : c[k] \in Writes("asid") <=> k \in {20, 25}
           /\ \A k \in 1..Len(c) : c[k] \in Writes("mmu") <=> k \in {5, 32, 35}
           /\ \A k \in 1..Len(c) : c[k] = INV_TLB <=> k \in {2, 16, 29}
           /\ \A k \in 1..Len(c) : c[k] = INV_DCACHE <=> k = 1
           /\ \A k \in 1..Len(c) : c[k] = CLEAN_INV_DCACHE <=> k \in {14, 27}
           /\ c[8] = Set("client", 1) /\ c[20] = Set("asid", 0) /\ c[22] = Set("ttbr", 1)
           /\ c[25] = Set("asid", 1) /\ c[5] = Set("mmu", 0)
           /\ c[10] = StorePte(1, "kern", Fault)
           /\ \A k \in 11..13 : c[k] = StorePte(1, "kern", KPte)
           /\ c[3] = DSB /\ c[15] = DSB /\ c[19] = DSB
           /\ enable => c[28] = DSB /\ c[30] = DSB /\ c[32] = Set("mmu", 1) /\ c[35] = Set("mmu", 1)
<1>1. /\ c[3] = DSB /\ c[5] = Set("mmu", 0) /\ c[8] = Set("client", 1)
      /\ c[10] = StorePte(1, "kern", Fault)
      /\ \A k \in 11..13 : c[k] = StorePte(1, "kern", KPte)
      /\ c[15] = DSB /\ c[19] = DSB /\ c[20] = Set("asid", 0) /\ c[22] = Set("ttbr", 1)
      /\ c[25] = Set("asid", 1) /\ Len(c) = IF enable THEN 36 ELSE 26
  BY BootHead DEF KPte
<1>2. enable => c[28] = DSB /\ c[30] = DSB /\ c[32] = Set("mmu", 1) /\ c[35] = Set("mmu", 1)
  BY BootEnable
<1>3. c \in Seq(Instruction)
  BY BootType
<1>4. \A k \in 1..Len(c) : /\ c[k] \in Cp15Writes <=> k \in {5, 8, 20, 22, 25, 32, 35}
                           /\ c[k] \in Stores <=> k \in 10..13
                           /\ c[k] = INV_TLB <=> k \in {2, 16, 29}
                           /\ c[k] = INV_DCACHE <=> k = 1
                           /\ c[k] = CLEAN_INV_DCACHE <=> k \in {14, 27}
  <2>1. CASE enable
    <3>1. Profile(c, 36, {5, 8, 20, 22, 25, 32, 35}, 10..13, {3, 6, 15, 17, 19, 24, 28, 30, 34},
                  {4, 7, 9, 18, 21, 23, 26, 31, 33, 36}, {2, 16, 29}, {1}, {14, 27})
      <4>1. enable = TRUE
        BY <2>1
      <4> QED BY <4>1, BootProfile, Zenon
    <3> QED BY <3>1 DEF Profile
  <2>2. CASE ~enable
    <3>1. Profile(c, 26, {5, 8, 20, 22, 25}, 10..13, {3, 6, 15, 17, 19, 24},
                  {4, 7, 9, 18, 21, 23, 26}, {2, 16}, {1}, {14})
      <4>1. enable = FALSE
        BY <2>2
      <4> QED BY <4>1, BootProfile, Zenon
    <3>2. Len(c) = 26
      BY <3>1 DEF Profile
    <3>3. \A k \in 1..26 : /\ c[k] \in Cp15Writes <=> k \in {5, 8, 20, 22, 25}
                           /\ c[k] \in Stores <=> k \in 10..13
                           /\ c[k] = INV_TLB <=> k \in {2, 16}
                           /\ c[k] = INV_DCACHE <=> k \in {1}
                           /\ c[k] = CLEAN_INV_DCACHE <=> k \in {14}
      BY <3>1 DEF Profile
    <3> QED BY <3>2, <3>3
  <2> QED BY <2>1, <2>2
<1> DEFINE M == {5, 32, 35}
           A == {20, 25}
<1>5. \A k \in 1..Len(c) : k \in M \cup A \cup {8, 22} =>
        c[k].to = IF k \in M THEN "mmu" ELSE IF k \in A THEN "asid" ELSE IF k = 8 THEN "client"
              ELSE "ttbr"
  <2>1. c[5].to = "mmu" /\ c[8].to = "client" /\ c[20].to = "asid" /\ c[22].to = "ttbr" /\
        c[25].to = "asid"
    BY <1>1, SetIs
  <2>2. enable => c[32].to = "mmu" /\ c[35].to = "mmu"
    <3>1. Set("mmu", 1).to = "mmu"
      BY SetIs
    <3> QED BY <1>2, <3>1
  <2> QED BY <1>1, <2>1, <2>2
<1>6. \A k \in 1..Len(c) : \A r : c[k] \in Writes(r) <=>
      k \in {5, 8, 20, 22, 25, 32, 35} /\ c[k].to = r
  BY <1>4 DEF Writes
<1>7. /\ \A k \in 1..Len(c) : c[k] \in Writes("client") <=> k = 8
      /\ \A k \in 1..Len(c) : c[k] \in Writes("ttbr") <=> k = 22
  BY <1>5, <1>6
<1>8. /\ \A k \in 1..Len(c) : c[k] \in Writes("asid") <=> k \in {20, 25}
      /\ \A k \in 1..Len(c) : c[k] \in Writes("mmu") <=> k \in {5, 32, 35}
  BY <1>5, <1>6
<1> QED BY <1>1, <1>2, <1>3, <1>4, <1>7, <1>8

\* those of cp15_set_procid_ttbr0,
LEMMA SwitchFacts ==
    ASSUME NEW t \in Table, NEW c, c = cp15_set_procid_ttbr0(t)
    PROVE  /\ Len(c) = 8 /\ \A k \in 1..8 : c[k] \notin Stores \cup Maintenance
           /\ c[1] = DSB /\ c[2] = Set("asid", 0) /\ c[4] = Set("ttbr", t) /\ c[7] = Set("asid", t)
           /\ \A k \in 1..8 : c[k] \in Writes("asid") <=> k \in {2, 7}
           /\ \A k \in 1..8 : c[k] \in Writes("ttbr") <=> k = 4
           /\ \A k \in 1..8 : c[k] \notin Writes("client") \cup Writes("mmu")
<1>1. /\ Profile(c, 8, {2, 4, 7}, {}, {1, 6}, {3, 5, 8}, {}, {}, {})
      /\ c[2] = Set("asid", 0) /\ c[4] = Set("ttbr", t) /\ c[7] = Set("asid", t)
  BY SwitchProfile
<1>2. Len(c) = 8 /\ c[1] = DSB
      /\ \A k \in 1..8 : /\ c[k] \in Cp15Writes <=> k \in {2, 4, 7}
                         /\ c[k] \notin Stores
                         /\ c[k] # INV_TLB /\ c[k] # INV_DCACHE /\ c[k] # CLEAN_INV_DCACHE
  BY <1>1 DEF Profile
<1>3. c[2].to = "asid" /\ c[4].to = "ttbr" /\ c[7].to = "asid"
  BY <1>1, SetIs
<1> QED BY <1>1, <1>2, <1>3 DEF Maintenance, Writes

\* of mmu_enable,
LEMMA EnableFacts ==
    ASSUME NEW c, c = mmu_enable
    PROVE  /\ Len(c) = 5 /\ \A k \in 1..5 : c[k] \notin Stores \cup Maintenance
           /\ c[1] = Set("mmu", 1) /\ c[4] = Set("mmu", 1)
           /\ \A k \in 1..5 : c[k] \in Writes("mmu") <=> k \in {1, 4}
           /\ \A k \in 1..5 : c[k] \notin Writes("client") \cup Writes("ttbr") \cup Writes("asid")
<1>1. /\ Profile(c, 5, {1, 4}, {}, {3}, {2, 5}, {}, {}, {})
      /\ c[1] = Set("mmu", 1) /\ c[4] = Set("mmu", 1)
  BY EnableProfile
<1>2. Len(c) = 5
      /\ \A k \in 1..5 : /\ c[k] \in Cp15Writes <=> k \in {1, 4}
                         /\ c[k] \notin Stores
                         /\ c[k] # INV_TLB /\ c[k] # INV_DCACHE /\ c[k] # CLEAN_INV_DCACHE
  BY <1>1 DEF Profile
<1>3. c[1].to = "mmu" /\ c[4].to = "mmu"
  BY <1>1, SetIs
<1> QED BY <1>1, <1>2, <1>3 DEF Maintenance, Writes

\* of mmu_disable,
LEMMA DisableFacts ==
    ASSUME NEW c, c = mmu_disable
    PROVE  /\ Len(c) = 9 /\ \A k \in 1..9 : c[k] \notin Stores
           /\ c[3] = DSB /\ c[4] = Set("mmu", 0) /\ c[7] = Set("mmu", 0)
           /\ \A k \in 1..9 : c[k] = CLEAN_INV_DCACHE <=> k = 2
           /\ \A k \in 1..9 : c[k] # INV_TLB /\ c[k] # INV_DCACHE
           /\ \A k \in 1..9 : c[k] \in Writes("mmu") <=> k \in {4, 7}
           /\ \A k \in 1..9 : c[k] \notin Writes("client") \cup Writes("ttbr") \cup Writes("asid")
<1>1. /\ Profile(c, 9, {4, 7}, {}, {1, 3, 5, 8}, {6, 9}, {}, {}, {2})
      /\ c[4] = Set("mmu", 0) /\ c[7] = Set("mmu", 0)
  BY DisableProfile
<1>2. Len(c) = 9 /\ c[3] = DSB
      /\ \A k \in 1..9 : /\ c[k] \in Cp15Writes <=> k \in {4, 7}
                         /\ c[k] \notin Stores
                         /\ c[k] = CLEAN_INV_DCACHE <=> k = 2
                         /\ c[k] # INV_TLB /\ c[k] # INV_DCACHE
  BY <1>1 DEF Profile
<1>3. c[4].to = "mmu" /\ c[7].to = "mmu"
  BY <1>1, SetIs
<1> QED BY <1>1, <1>2, <1>3 DEF Writes

\* of vm_map_sec,
LEMMA MapFacts ==
    ASSUME NEW t \in Table, NEW p \in Pa, NEW c, c = Mapping(t, p)
    PROVE  /\ c \in Seq(Instruction) /\ Len(c) = 9
           /\ \A k \in 1..9 : /\ c[k] \notin Cp15Writes
                              /\ c[k] \in Stores <=> k \in 1..4
                              /\ c[k] = INV_TLB <=> k = 7
                              /\ c[k] = CLEAN_INV_DCACHE <=> k = 5
                              /\ c[k] # INV_DCACHE
           /\ c[4] = StorePte(t, "user", UPte(p))
           /\ \A k \in 1..4 : c[k].to = <<t, "user">>
<1>1. /\ Profile(c, 9, {}, 1..4, {6, 8}, {9}, {7}, {}, {5})
      /\ c[4] = StorePte(t, "user", Pte(p, FALSE))
      /\ \A k \in 1..4 : c[k].to = <<t, "user">>
  BY MapProfile
<1>2. c[4] = StorePte(t, "user", UPte(p))
  BY <1>1, Zenon DEF UPte
<1> HIDE DEF Mapping
<1> QED BY <1>1, <1>2 DEF Profile

\* and of the copy that vm_dup makes.
LEMMA CopyFacts ==
    ASSUME Shapes, NEW t \in Table, NEW u \in Table, NEW c, c = Copy(t, u)
    PROVE  /\ c \in Seq(Instruction) /\ Len(c) = 2
           /\ \A k \in 1..2 : c[k] \in Stores /\ c[k] \notin Cp15Writes \cup Maintenance
           /\ c[1] = StorePte(u, "kern", Written(t, "kern"))
           /\ c[2] = StorePte(u, "user", Written(t, "user"))
<1>1. /\ Profile(c, 2, {}, 1..2, {}, {}, {}, {}, {})
      /\ c[1] = StorePte(u, "kern", vm_lookup(t, "kern"))
      /\ c[2] = StorePte(u, "user", vm_lookup(t, "user"))
  BY CopyProfile
<1> QED BY <1>1 DEF Profile, vm_lookup, Maintenance

----------------------------------------------------------------------------
(* What a call asks for                                                    *)

\* At a call the stores of the routine follow those in the write buffer.
LEMMA CallWritten ==
    ASSUME code = <<>>, UNCHANGED <<pt, wbuf>>, NEW t, NEW va
    PROVE  /\ Written(t, va) = Latest(wbuf, "pte", <<t, va>>, pt[t][va])
           /\ Written(t, va)' = Latest(code', "pte", <<t, va>>, Written(t, va))
<1>1. \A k \in 1..Len(code) : ~Concerns(code, "pte", <<t, va>>, k)
  OBVIOUS
<1>2. Written(t, va) = Latest(wbuf, "pte", <<t, va>>, pt[t][va])
  BY <1>1, LatestNone DEF Written
<1>3. Written(t, va)' = Latest(code', "pte", <<t, va>>, Latest(wbuf', "pte", <<t, va>>, pt'[t][va]))
  BY DEF Written
<1> QED BY <1>2, <1>3

\* An entry that the routine does not store to stays what it was;
LEMMA UnwrittenAtCall ==
    ASSUME code = <<>>, UNCHANGED <<pt, wbuf>>, code' \in Seq(Instruction), NEW t, NEW va,
           \A k \in 1..Len(code') : code'[k] \notin Stores \/ code'[k].to # <<t, va>>
    PROVE  Written(t, va)' = Written(t, va)
<1>1. \A k \in 1..Len(code') : ~Concerns(code', "pte", <<t, va>>, k)
  <2> TAKE k \in 1..Len(code')
  <2>1. code'[k] \in Instruction
    BY ElementOfSeq
  <2> QED BY <2>1, Kinds DEF Concerns
<1> QED BY <1>1, LatestNone, CallWritten

\* one that it does is what the last of its stores gives it.
LEMMA WrittenAtCall ==
    ASSUME code = <<>>, UNCHANGED <<pt, wbuf>>, code' \in Seq(Instruction), NEW t, NEW va,
           NEW i \in 1..Len(code'), code'[i] \in Stores, code'[i].to = <<t, va>>,
           \A k \in 1..Len(code') : k > i => code'[k] \notin Stores \/ code'[k].to # <<t, va>>
    PROVE  Written(t, va)' = code'[i].val
<1>1. Concerns(code', "pte", <<t, va>>, i)
  BY Codes, Kinds DEF Concerns
<1>2. \A k \in i+1..Len(code') : ~Concerns(code', "pte", <<t, va>>, k)
  <2> TAKE k \in i+1..Len(code')
  <2>1. k \in 1..Len(code') /\ k > i
    OBVIOUS
  <2>2. code'[k] \in Instruction
    BY <2>1, ElementOfSeq
  <2> QED BY <2>2, Kinds DEF Concerns
<1> QED BY <1>1, <1>2, LatestIs, CallWritten

\* What each call makes of the entries: vm_map_kernel and vm_map_sec their own, vm_dup a copy,
\* and the others nothing.
LEMMA CallsWrite ==
    ASSUME Shapes, code = <<>>, UNCHANGED <<pt, wbuf>>, code' \in Seq(Instruction),
           NEW t \in Table, NEW va \in Va
    PROVE  /\ \A enable \in BOOLEAN : code' = Boot(enable) =>
                Written(t, va)' = IF t = 1 /\ va = "kern" THEN KPte ELSE Written(t, va)
           /\ \A s \in Table, p \in Pa : code' = Mapping(s, p) =>
                Written(t, va)' = IF t = s /\ va = "user" THEN UPte(p) ELSE Written(t, va)
           /\ \A s \in Table, u \in Table : code' = Copy(s, u) =>
                Written(t, va)' = IF t = u THEN Written(s, va) ELSE Written(t, va)
           /\ (\E s \in Table : code' = cp15_set_procid_ttbr0(s)) \/
                  code' \in {mmu_enable, mmu_disable} =>
                Written(t, va)' = Written(t, va)
<1>0. 1 \in Table /\ "kern" \in Va /\ "user" \in Va /\ Va = {"kern", "user"}
  BY DEF Table, Va
<1>1. ASSUME NEW enable \in BOOLEAN, code' = Boot(enable)
      PROVE  Written(t, va)' = IF t = 1 /\ va = "kern" THEN KPte ELSE Written(t, va)
  <2>0. Len(code') \in {26, 36}
    <3>1. Len(code') = IF enable THEN 36 ELSE 26
      BY <1>1, BootFacts
    <3> QED BY <3>1
  <2>1. /\ \A k \in 1..Len(code') : code'[k] \in Stores <=> k \in 10..13
        /\ code'[10] = StorePte(1, "kern", Fault)
        /\ \A k \in 11..13 : code'[k] = StorePte(1, "kern", KPte)
    BY <1>1, BootFacts
  <2>2. \A k \in 10..13 : code'[k].to = <<1, "kern">>
    <3>2. code'[10].to = <<1, "kern">> /\ \A k \in 11..13 : code'[k].to = <<1, "kern">>
      BY <2>1, StoreVal
    <3> QED BY <3>2
  <2>3. CASE t = 1 /\ va = "kern"
    <3>1. 13 \in 1..Len(code') /\ code'[13] \in Stores /\ code'[13].to = <<t, va>>
          /\ \A k \in 1..Len(code') : k > 13 => code'[k] \notin Stores \/ code'[k].to # <<t, va>>
      BY <2>0, <2>1, <2>2, <2>3
    <3>2. Written(t, va)' = code'[13].val
      BY <3>1, WrittenAtCall
    <3>3. code'[13].val = KPte
      BY <2>1, StoreVal
    <3> QED BY <2>3, <3>2, <3>3
  <2>4. CASE ~(t = 1 /\ va = "kern")
    <3>1. <<t, va>> # <<1, "kern">>
      BY <2>4
    <3>2. \A k \in 1..Len(code') : code'[k] \notin Stores \/ code'[k].to # <<t, va>>
      BY <2>0, <2>1, <2>2, <3>1
    <3> QED BY <2>4, <3>2, UnwrittenAtCall
  <2> QED BY <2>3, <2>4
<1>2. ASSUME NEW s \in Table, NEW p \in Pa, code' = Mapping(s, p)
      PROVE  Written(t, va)' = IF t = s /\ va = "user" THEN UPte(p) ELSE Written(t, va)
  <2>1. /\ Len(code') = 9 /\ \A k \in 1..9 : code'[k] \in Stores <=> k \in 1..4
        /\ code'[4] = StorePte(s, "user", UPte(p))
        /\ \A k \in 1..4 : code'[k].to = <<s, "user">>
    BY <1>2, MapFacts
  <2>3. CASE t = s /\ va = "user"
    <3>1. 4 \in 1..Len(code') /\ code'[4] \in Stores /\ code'[4].to = <<t, va>>
          /\ \A k \in 1..Len(code') : k > 4 => code'[k] \notin Stores \/ code'[k].to # <<t, va>>
      BY <2>1, <2>3
    <3>2. Written(t, va)' = code'[4].val
      BY <3>1, WrittenAtCall
    <3>3. code'[4].val = UPte(p)
      BY <2>1, StoreVal
    <3> QED BY <2>3, <3>2, <3>3
  <2>4. CASE ~(t = s /\ va = "user")
    <3>1. <<t, va>> # <<s, "user">>
      BY <2>4
    <3>2. \A k \in 1..Len(code') : code'[k] \notin Stores \/ code'[k].to # <<t, va>>
      BY <2>1, <3>1
    <3> QED BY <2>4, <3>2, UnwrittenAtCall
  <2> QED BY <2>3, <2>4
<1>3. ASSUME NEW s \in Table, NEW u \in Table, code' = Copy(s, u)
      PROVE  Written(t, va)' = IF t = u THEN Written(s, va) ELSE Written(t, va)
  <2>1. /\ Len(code') = 2 /\ \A k \in 1..2 : code'[k] \in Stores
        /\ code'[1] = StorePte(u, "kern", Written(s, "kern"))
        /\ code'[2] = StorePte(u, "user", Written(s, "user"))
    BY <1>3, CopyFacts
  <2>2. /\ code'[1].to = <<u, "kern">> /\ code'[1].val = Written(s, "kern")
        /\ code'[2].to = <<u, "user">> /\ code'[2].val = Written(s, "user")
    BY <2>1, StoreVal
  <2>3. CASE t = u /\ va = "kern"
    <3>1. 1 \in 1..Len(code') /\ code'[1] \in Stores /\ code'[1].to = <<t, va>>
          /\ \A k \in 1..Len(code') : k > 1 => code'[k] \notin Stores \/ code'[k].to # <<t, va>>
      BY <2>1, <2>2, <2>3
    <3> QED BY <2>2, <2>3, <3>1, WrittenAtCall
  <2>4. CASE t = u /\ va = "user"
    <3>1. 2 \in 1..Len(code') /\ code'[2] \in Stores /\ code'[2].to = <<t, va>>
          /\ \A k \in 1..Len(code') : k > 2 => code'[k] \notin Stores \/ code'[k].to # <<t, va>>
      BY <2>1, <2>2, <2>4
    <3> QED BY <2>2, <2>4, <3>1, WrittenAtCall
  <2>5. CASE t # u
    <3>1. \A k \in 1..Len(code') : code'[k] \notin Stores \/ code'[k].to # <<t, va>>
      BY <2>1, <2>2, <2>5
    <3> QED BY <2>5, <3>1, UnwrittenAtCall
  <2> QED BY <1>0, <2>3, <2>4, <2>5
<1>4. ASSUME (\E s \in Table : code' = cp15_set_procid_ttbr0(s)) \/
      code' \in {mmu_enable, mmu_disable}
      PROVE  Written(t, va)' = Written(t, va)
  <2>1. \A k \in 1..Len(code') : code'[k] \notin Stores
    BY <1>4, SwitchFacts, EnableFacts, DisableFacts
  <2> QED BY <2>1, UnwrittenAtCall
<1> QED BY <1>1, <1>2, <1>3, <1>4

\* Nothing is under way when the program makes a call, but stores of vm_dup.
LEMMA Quiet ==
    ASSUME Shapes, Waits, RegState, code = <<>>
    PROVE  /\ pend = <<>> /\ maint = {}
           /\ \A r, v : Now(r) = reg[r] /\ (Being(r, v) <=> reg[r] = v)
           /\ booted => KernelTlb /\ reg["client"] = 1 /\ reg["ttbr"] \in Table
<1>1. Len(code) + 1 = 1
  OBVIOUS
<1>2. Settled(1) /\ \A o \in Operation : Done(1, o)
  BY <1>1 DEF Waits
<1>3. maint = {}
  <2>1. \A o \in Operation : o \notin maint
    BY <1>2, NoneBefore DEF Done
  <2> QED BY <2>1 DEF Operation, Shapes
<1>4. booted => KernelTlb /\ reg["client"] = 1 /\ reg["ttbr"] \in Table
  <2>1. RegReady(1)
    BY <1>1 DEF RegState
  <2>2. booted => Flushed(1) /\ RegIs(1, "client", 1) /\ \E t \in Table : RegIs(1, "ttbr", t)
    BY <2>1 DEF RegReady
  <2> QED BY <1>2, <1>3, <2>2, SettledReg, NoneBefore DEF Flushed
<1> QED BY <1>2, <1>3, <1>4, SettledReg

\* A table in use maps the kernel.
LEMMA InUseMade ==
    ASSUME Shapes, RegState, NEW t \in Table, Being("ttbr", t)
    PROVE  t \in Made /\ Written(t, "kern") = KPte
<1>1. KernelKept(t) /\ "kern" \in Va
  BY DEF RegState, Va
<1>2. \A k \in 1..Len(code) : ~Concerns(code, "pte", <<t, "kern">>, k)
  <2> TAKE k \in 1..Len(code)
  <2>1. code[k] \in Instruction
    BY ElementOfSeq DEF Shapes
  <2>2. code[k].op = "pte" => code[k] \in Stores
    BY <2>1, Kinds
  <2> QED BY <1>1, <2>2 DEF Concerns, KernelKept, KernelStores
<1>3. \A k \in 1..Len(wbuf) : ~Concerns(wbuf, "pte", <<t, "kern">>, k)
  <2> TAKE k \in 1..Len(wbuf)
  <2>1. wbuf[k] \in Stores
    BY ElementOfSeq DEF Shapes
  <2> QED BY <1>1, <2>1 DEF Concerns, KernelKept, KernelStores
<1>4. Written(t, "kern") = pt[t]["kern"]
  BY <1>2, <1>3, LatestNone DEF Written
<1>5. KPte # Fault
  BY DEF KPte, Pte, Fault, Kernel
<1> QED BY <1>1, <1>4, <1>5 DEF KernelKept, Made, vm_lookup

\* The state after a call, whichever it was.
LEMMA CallIs ==
    ASSUME Shapes, Waits, RegState, CallStep
    PROVE  /\ code = <<>> /\ UNCHANGED <<pt, wbuf, reg, pend, maint, tlb, cache, mem, rd>>
           /\ code' \in Seq(Instruction) /\ Len(code') \in Nat /\ booted' = TRUE
           /\ pend = <<>> /\ maint = {}
           /\ \A r, v : Now(r)' = reg[r] /\ (Being(r, v)' <=> reg[r] = v) /\
                  (Being(r, v) <=> reg[r] = v)
           /\ booted => KernelTlb /\ reg["client"] = 1 /\ reg["ttbr"] \in Table
<1>1. /\ code = <<>> /\ UNCHANGED <<pt, wbuf, reg, pend, maint, tlb, cache, mem, rd>>
      /\ code' \in Seq(Instruction) /\ booted' = TRUE
  BY Calls
<1>2. /\ pend = <<>> /\ maint = {}
      /\ \A r, v : Now(r) = reg[r] /\ (Being(r, v) <=> reg[r] = v)
      /\ booted => KernelTlb /\ reg["client"] = 1 /\ reg["ttbr"] \in Table
  BY <1>1, Quiet
<1>3. \A r, v : Now(r)' = Now(r) /\ (Being(r, v)' <=> Being(r, v))
  BY <1>1 DEF Now, Being
<1>4. Len(code') \in Nat
  BY <1>1, LenProperties
<1> QED BY <1>1, <1>2, <1>3, <1>4

\* A register no instruction writes is what it was.
LEMMA RegAtCall ==
    ASSUME NEW i, NEW r, NEW v, Now(r)' = v, \A k \in 1..i-1 : code'[k] \notin Writes(r)
    PROVE  RegIs(i, r, v)'
BY DEF RegIs, Free

\* The same of the entries of the kernel.
LEMMA MadeAtCall ==
    ASSUME Shapes, Waits, RegState, CallStep, NEW t \in Table
    PROVE  /\ \A enable \in BOOLEAN : code' = Boot(enable) =>
                  Written(t, "kern")' = IF t = 1 THEN KPte ELSE Written(t, "kern")
           /\ \A s \in Table, p \in Pa : code' = Mapping(s, p) =>
                  Written(t, "kern")' = Written(t, "kern")
           /\ \A s \in Table, u \in Table : code' = Copy(s, u) =>
                  Written(t, "kern")' = IF t = u THEN Written(s, "kern") ELSE Written(t, "kern")
           /\ (\E s \in Table : code' = cp15_set_procid_ttbr0(s)) \/
                  code' \in {mmu_enable, mmu_disable} => Written(t, "kern")' = Written(t, "kern")
<1>1. "kern" \in Va /\ "kern" # "user"
  BY DEF Va
<1>2. code = <<>> /\ UNCHANGED <<pt, wbuf>> /\ code' \in Seq(Instruction)
  BY CallIs
<1> DEFINE va == "kern"
<1>3. va = "kern" /\ va \in Va
  BY <1>1
<1> HIDE DEF va
<1>4. /\ \A enable \in BOOLEAN : code' = Boot(enable) =>
             Written(t, va)' = IF t = 1 /\ va = "kern" THEN KPte ELSE Written(t, va)
      /\ \A s \in Table, p \in Pa : code' = Mapping(s, p) =>
             Written(t, va)' = IF t = s /\ va = "user" THEN UPte(p) ELSE Written(t, va)
      /\ \A s \in Table, u \in Table : code' = Copy(s, u) =>
             Written(t, va)' = IF t = u THEN Written(s, va) ELSE Written(t, va)
      /\ (\E s \in Table : code' = cp15_set_procid_ttbr0(s)) \/
             code' \in {mmu_enable, mmu_disable} => Written(t, va)' = Written(t, va)
  BY <1>2, <1>3, CallsWrite
<1> QED BY <1>1, <1>3, <1>4

\* vm_map_kernel uses table 1 only once it maps the kernel and is in memory, and turns the
\* MMU on with that table, the domain a client and the TLB invalidated since.
LEMMA RegsAtBoot ==
    ASSUME Shapes, Waits, RegState, Unbooted, CallStep, ~booted, NEW enable \in BOOLEAN,
           code' = Boot(enable)
    PROVE  RegRules' /\ RegState'
<1>0. /\ UNCHANGED <<pt, wbuf, reg, pend, maint, tlb>> /\ booted' = TRUE
      /\ \A r, v : Now(r)' = reg[r] /\ (Being(r, v)' <=> reg[r] = v)
      /\ reg["mmu"] = 0 /\ reg["ttbr"] = 0 /\ pend = <<>>
  BY CallIs DEF Unbooted
<1> DEFINE c == code'
<1>1. /\ \A k \in 1..Len(c) : c[k] \in Stores <=> k \in 10..13
      /\ \A k \in 1..Len(c) : c[k] \in Writes("client") <=> k = 8
      /\ \A k \in 1..Len(c) : c[k] \in Writes("ttbr") <=> k = 22
      /\ \A k \in 1..Len(c) : c[k] \in Writes("mmu") <=> k \in {5, 32, 35}
      /\ \A k \in 1..Len(c) : c[k] = INV_TLB <=> k \in {2, 16, 29}
      /\ c[5] = Set("mmu", 0) /\ c[8] = Set("client", 1) /\ c[22] = Set("ttbr", 1) /\ c[19] = DSB
  <2>1. /\ \A k \in 1..Len(c) : c[k] \in Stores <=> k \in 10..13
        /\ \A k \in 1..Len(c) : c[k] \in Writes("client") <=> k = 8
        /\ \A k \in 1..Len(c) : c[k] \in Writes("ttbr") <=> k = 22
    BY BootFacts
  <2>2. /\ \A k \in 1..Len(c) : c[k] \in Writes("mmu") <=> k \in {5, 32, 35}
        /\ \A k \in 1..Len(c) : c[k] = INV_TLB <=> k \in {2, 16, 29}
    BY BootFacts
  <2>3. c[5] = Set("mmu", 0) /\ c[8] = Set("client", 1) /\ c[22] = Set("ttbr", 1) /\ c[19] = DSB
    BY BootFacts
  <2> QED BY <2>1, <2>2, <2>3
<1>2. enable => c[30] = DSB
  BY BootEnable
<1>3. Len(c) \in {26, 36} /\ (Len(c) = 36 => enable)
  <2>1. Len(c) = IF enable THEN 36 ELSE 26
    BY BootFacts
  <2> QED BY <2>1
<1>4. /\ Set("ttbr", 1) \in Writes("ttbr") /\ Set("client", 1) \in Writes("client") /\
             Set("client", 0) \in Writes("client")
      /\ Set("mmu", 0) # Set("mmu", 1) /\ Set("client", 0) # Set("client", 1)
      /\ Set("mmu", 1) \in Writes("mmu")
      /\ \A t \in Table \cup {0} : Set("ttbr", t) \in Writes("ttbr") /\
             (Set("ttbr", t) = Set("ttbr", 1) => t = 1)
  BY SetIs, SetInj DEF Writes, Table
<1> HIDE DEF c
<1>5. 1 \in Made'
  <2>1. 1 \in Table
    BY DEF Table
  <2>2. Written(1, "kern")' = KPte
    BY <2>1, MadeAtCall
  <2>3. KPte # Fault
    BY DEF KPte, Pte, Fault, Kernel
  <2> QED BY <2>1, <2>2, <2>3 DEF Made, vm_lookup
<1>6. ASSUME NEW i \in 9..Len(c)+1 PROVE RegIs(i, "client", 1)'
  <2>1. 8 \in 1..i-1 /\ \A k \in 8+1..i-1 : c[k] \notin Writes("client")
    BY <1>1, <1>3
  <2>2. Found(c, i, {Set("client", 1)}, Writes("client"))
    BY <1>1, <2>1, FoundAt
  <2> QED BY <2>2 DEF RegIs, c
<1>7. ASSUME NEW i \in 23..Len(c)+1 PROVE RegIs(i, "ttbr", 1)'
  <2>1. 22 \in 1..i-1 /\ \A k \in 22+1..i-1 : c[k] \notin Writes("ttbr")
    BY <1>1, <1>3
  <2>2. Found(c, i, {Set("ttbr", 1)}, Writes("ttbr"))
    BY <1>1, <2>1, FoundAt
  <2> QED BY <2>2 DEF RegIs, c
<1>8. ASSUME NEW i \in 23..Len(c)+1 PROVE Flushed(i)'
  <2>1. 16 \in 1..i-1 /\ \A k \in 16+1..i-1 : c[k] \notin {}
    BY <1>3
  <2>2. Found(c, i, {INV_TLB}, {})
    <3>1. c[16] = INV_TLB
      BY <1>1, <1>3
    <3> QED BY <2>1, <3>1, FoundAt
  <2> QED BY <2>2 DEF Flushed, c
<1>9. ASSUME NEW i \in 1..Len(c) PROVE TtbrRule(i)' /\ MmuRule(i)' /\ c[i] # Set("client", 0)
  <2>1. TtbrRule(i)'
    <3> SUFFICES ASSUME NEW t \in Table \cup {0}, c[i] = Set("ttbr", t)
                 PROVE  t \in Made' /\ Drained(i)' /\ \A k \in i..Len(c) : c[k] \notin Stores
      BY DEF TtbrRule, c
    <3>1. i = 22 /\ t = 1
      BY <1>1, <1>4
    <3>2. \A k \in i..Len(c) : c[k] \notin Stores
      BY <1>1, <1>3, <3>1
    <3>3. 19 \in 1..i-1 /\ \A k \in 19+1..i-1 : c[k] \notin Stores
      BY <1>1, <1>3, <3>1
    <3>4. Found(c, i, {DSB}, Stores)
      BY <1>1, <3>3, FoundAt
    <3> QED BY <1>5, <3>1, <3>2, <3>4 DEF Drained, c
  <2>2. MmuRule(i)'
    <3> SUFFICES ASSUME c[i] = Set("mmu", 1)
                 PROVE  /\ RegIs(i, "client", 1)' /\ \E t \in Table : RegIs(i, "ttbr", t)'
                        /\ Flushed(i)' /\ Done(i, "inv_tlb")'
      BY DEF MmuRule, c
    <3>1. i \in {32, 35} /\ Len(c) = 36 /\ enable
      <4>1. i \in {32, 35}
        BY <1>1, <1>4
      <4>2. Len(c) # 26
        <5>1. \A n \in {26} : i \notin 1..n
          BY <4>1
        <5> QED BY <5>1
      <4> QED BY <1>3, <4>1, <4>2
    <3>2. i \in 23..Len(c)+1 /\ i \in 9..Len(c)+1 /\ 1 \in Table
      BY <3>1 DEF Table
    <3>3. 30 \in 1..i-1 /\ \A k \in 30+1..i-1 : c[k] \notin {INV_TLB}
      BY <1>1, <3>1
    <3>4. Found(c, i, {DSB}, {INV_TLB})
      BY <1>2, <3>1, <3>3, FoundAt
    <3>5. Done(i, "inv_tlb")'
      BY <3>4 DEF Done, INV_TLB, c
    <3> QED BY <1>6, <1>7, <1>8, <3>2, <3>5
  <2>3. c[i] # Set("client", 0)
    BY <1>1, <1>4
  <2> QED BY <2>1, <2>2, <2>3
<1>10. ~Being("mmu", 1)' /\ \A t \in Table : ~Being("ttbr", t)'
  BY <1>0 DEF Table
<1>11. \A k \in 1..Len(pend') : pend'[k] # Set("ttbr", 0) /\ pend'[k] # Set("client", 0)
  BY <1>0
<1>12. \A t \in Table : Written(t, "kern")' \in {Fault, KPte}
  BY MadeAtCall DEF RegState
<1>13. RegReady(Len(code) + 1)'
  <2> SUFFICES ASSUME NEW n, n = Len(c) + 1 PROVE RegReady(n)'
    BY DEF RegReady, c
  <2>1. n \in 23..Len(c)+1 /\ n \in 9..Len(c)+1
    <3>1. CASE Len(c) = 26
      BY <3>1
    <3>2. CASE Len(c) = 36
      BY <3>2
    <3> QED BY <1>3, <3>1, <3>2
  <2>2. 1 \in Table
    BY DEF Table
  <2> QED BY <1>6, <1>7, <1>8, <2>1, <2>2 DEF RegReady
<1> QED BY <1>9, <1>10, <1>11, <1>12, <1>13 DEF RegRules, RegState, c

\* The calls after vm_map_kernel, and what none of them writes.
LEMMA CallWrites ==
    ASSUME Shapes, CallStep, booted, NEW c, c = code'
    PROVE  /\ \/ \E t \in Made, p \in Pa : c = Mapping(t, p)
              \/ \E t \in Made, u \in Table \ Made : c = Copy(t, u)
              \/ \E t \in Made : c = cp15_set_procid_ttbr0(t)
              \/ c = mmu_enable
              \/ c = mmu_disable
           /\ \A k \in 1..Len(c) : c[k] \notin Writes("client")
           /\ ~(\E t \in Made : c = cp15_set_procid_ttbr0(t)) =>
                 \A k \in 1..Len(c) : c[k] \notin Writes("ttbr") \cup Writes("asid")
           /\ c # mmu_enable => \A k \in 1..Len(c) : c[k] # Set("mmu", 1)
           /\ \/ \E t \in Made, p \in Pa : c = Mapping(t, p)
              \/ \E t \in Made, u \in Table \ Made : c = Copy(t, u)
              \/ \A k \in 1..Len(c) : c[k] \notin Stores
<1>0. Made \subseteq Table /\ Set("mmu", 1) \in Writes("mmu") /\ Set("mmu", 0) # Set("mmu", 1)
  BY SetIs, SetInj DEF Made, Writes
<1>1. \/ \E t \in Made, p \in Pa : c = Mapping(t, p)
      \/ \E t \in Made, u \in Table \ Made : c = Copy(t, u)
      \/ \E t \in Made : c = cp15_set_procid_ttbr0(t)
      \/ c = mmu_enable
      \/ c = mmu_disable
  BY Calls
<1>2. CASE \E t \in Made, p \in Pa : c = Mapping(t, p)
  <2>1. \A k \in 1..Len(c) : c[k] \notin Cp15Writes
    BY <1>0, <1>2, MapFacts
  <2> QED BY <1>0, <1>1, <1>2, <2>1 DEF Writes
<1>3. CASE \E t \in Made, u \in Table \ Made : c = Copy(t, u)
  <2>1. \A k \in 1..Len(c) : c[k] \notin Cp15Writes
    BY <1>0, <1>3, CopyFacts
  <2> QED BY <1>0, <1>1, <1>3, <2>1 DEF Writes
<1>4. CASE \E t \in Made : c = cp15_set_procid_ttbr0(t)
  <2>1. \A k \in 1..Len(c) : c[k] \notin Stores /\ c[k] \notin Writes("client") \cup Writes("mmu")
    BY <1>0, <1>4, SwitchFacts
  <2> QED BY <1>0, <1>1, <1>4, <2>1
<1>5. CASE c = mmu_enable
  <2>1. \A k \in 1..Len(c) : /\ c[k] \notin Stores
                             /\ c[k] \notin Writes("client") \cup Writes("ttbr") \cup Writes("asid")
    BY <1>5, EnableFacts
  <2> QED BY <1>1, <1>5, <2>1
<1>6. CASE c = mmu_disable
  <2>1. \A k \in 1..Len(c) : /\ c[k] \notin Stores
                             /\ c[k] \notin Writes("client") \cup Writes("ttbr") \cup Writes("asid")
                             /\ c[k] \in Writes("mmu") => c[k] = Set("mmu", 0)
    BY <1>6, DisableFacts
  <2> QED BY <1>0, <1>1, <1>6, <2>1
<1> QED BY <1>1, <1>2, <1>3, <1>4, <1>5, <1>6

\* Every call keeps the rules of the registers.
LEMMA RegsAtCall ==
    ASSUME Shapes, Waits, RegState, Unbooted, CallStep
    PROVE  RegRules' /\ RegState'
<1> DEFINE c == code'
<1>0. /\ code = <<>> /\ UNCHANGED <<pt, wbuf, reg, pend, maint, tlb>> /\ booted' = TRUE /\
             Len(c) \in Nat
      /\ c \in Seq(Instruction) /\ pend = <<>> /\ maint = {}
      /\ \A r, v : Now(r)' = reg[r] /\ (Being(r, v)' <=> reg[r] = v) /\ (Being(r, v) <=> reg[r] = v)
      /\ booted => KernelTlb /\ reg["client"] = 1 /\ reg["ttbr"] \in Table
  BY CallIs
<1>1. CASE ~booted
  BY <1>1, Calls, RegsAtBoot
<1>2. CASE booted
  <2>0. Made \subseteq Table
    BY DEF Made
  <2>1. \/ \E t \in Made, p \in Pa : c = Mapping(t, p)
        \/ \E t \in Made, u \in Table \ Made : c = Copy(t, u)
        \/ \E t \in Made : c = cp15_set_procid_ttbr0(t)
        \/ c = mmu_enable
        \/ c = mmu_disable
    BY <1>2, CallWrites
  <2>2. KernelTlb /\ KernelTlb' /\ reg["client"] = 1 /\ reg["ttbr"] \in Table
    BY <1>0, <1>2 DEF KernelTlb
  <2>3. \A i : Flushed(i)'
    BY <2>2 DEF Flushed
  <2>4. \A i \in 1..Len(c)+1 : RegIs(i, "client", 1)'
    <3>1. \A k \in 1..Len(c) : c[k] \notin Writes("client")
      BY <1>2, CallWrites
    <3>2. Now("client")' = 1
      BY <1>0, <2>2
    <3> TAKE i \in 1..Len(c)+1
    <3>3. \A k \in 1..i-1 : k \in 1..Len(c)
      BY <1>0
    <3> QED BY <3>1, <3>2, <3>3, RegAtCall
  <2>5. \A t \in Table : Being("ttbr", t) => t \in Made
    BY InUseMade
  <2>6. ASSUME NEW t \in Table, Being("ttbr", t)' PROVE KernelKept(t)'
    <3>1. Being("ttbr", t) /\ t \in Made /\ KernelKept(t)
      BY <1>0, <2>5, <2>6 DEF RegState
    <3>2. \A k \in 1..Len(c) : c[k] \notin KernelStores(t)
      <4>1. CASE \E s \in Made, p \in Pa : c = Mapping(s, p)
        <5>1. PICK s \in Made, p \in Pa : c = Mapping(s, p)
          BY <4>1
        <5>2. Len(c) = 9 /\ \A k \in 1..9 : /\ c[k] \in Stores <=> k \in 1..4
                                            /\ k \in 1..4 => c[k].to = <<s, "user">>
          BY <2>0, <5>1, MapFacts
        <5>3. <<s, "user">> # <<t, "kern">>
          OBVIOUS
        <5> QED BY <5>2, <5>3 DEF KernelStores
      <4>2. CASE \E s \in Made, u \in Table \ Made : c = Copy(s, u)
        <5>1. PICK s \in Made, u \in Table \ Made : c = Copy(s, u)
          BY <4>2
        <5>2. Len(c) = 2 /\ c[1].to = <<u, "kern">> /\ c[2].to = <<u, "user">>
          BY <2>0, <5>1, CopyFacts, StoreVal
        <5>3. u # t
          BY <3>1
        <5>4. <<u, "kern">> # <<t, "kern">> /\ <<u, "user">> # <<t, "kern">>
          BY <5>3
        <5> QED BY <5>2, <5>4 DEF KernelStores
      <4>3. CASE \A k \in 1..Len(c) : c[k] \notin Stores
        BY <4>3 DEF KernelStores
      <4> QED BY <1>2, <4>1, <4>2, <4>3, CallWrites
    <3> QED BY <1>0, <3>1, <3>2 DEF KernelKept
  <2>7. Being("mmu", 1)' => reg'["client"] = 1 /\ reg'["ttbr"] # 0 /\ KernelTlb'
    BY <1>0, <2>2 DEF Table
  <2>8. \A k \in 1..Len(pend') : pend'[k] # Set("ttbr", 0) /\ pend'[k] # Set("client", 0)
    BY <1>0
  <2>9. \A t \in Table : Written(t, "kern")' \in {Fault, KPte}
    BY <2>0, <2>1, MadeAtCall DEF RegState
  <2>10. ASSUME NEW i \in 1..Len(c)+1, \A k \in 1..i-1 : c[k] \notin Writes("ttbr")
         PROVE  \E t \in Table : RegIs(i, "ttbr", t)'
    <3>1. Now("ttbr")' = reg["ttbr"]
      BY <1>0
    <3> QED BY <2>2, <2>10, <3>1, RegAtCall
  <2>11. RegReady(Len(code) + 1)'
    <3> SUFFICES ASSUME NEW n, n = Len(c) + 1 PROVE \E t \in Table : RegIs(n, "ttbr", t)'
      BY <1>0, <2>3, <2>4 DEF RegReady
    <3>1. CASE \E s \in Made : c = cp15_set_procid_ttbr0(s)
      <4>1. PICK s \in Made : c = cp15_set_procid_ttbr0(s)
        BY <3>1
      <4>2. Len(c) = 8 /\ c[4] = Set("ttbr", s) /\ \A k \in 1..8 : c[k] \in Writes("ttbr") <=> k = 4
        BY <2>0, <4>1, SwitchFacts
      <4>3. 4 \in 1..n-1 /\ \A k \in 4+1..n-1 : c[k] \notin Writes("ttbr")
        BY <4>2
      <4>4. Found(c, n, {Set("ttbr", s)}, Writes("ttbr"))
        BY <4>2, <4>3, FoundAt
      <4> QED BY <2>0, <4>4 DEF RegIs
    <3>2. CASE ~\E s \in Made : c = cp15_set_procid_ttbr0(s)
      <4>1. \A k \in 1..Len(c) : c[k] \notin Writes("ttbr")
        BY <1>2, <3>2, CallWrites
      <4>2. n \in 1..Len(c)+1 /\ \A k \in 1..n-1 : k \in 1..Len(c)
        BY <1>0
      <4> QED BY <2>10, <4>1, <4>2
    <3> QED BY <3>1, <3>2
  <2>12. ASSUME NEW i \in 1..Len(c) PROVE TtbrRule(i)' /\ MmuRule(i)' /\ c[i] # Set("client", 0)
    <3>0. Set("client", 0) \in Writes("client") /\ Set("mmu", 1) \in Writes("mmu")
          /\ \A t \in Table \cup {0} : Set("ttbr", t) \in Writes("ttbr")
      BY SetIs DEF Writes
    <3>1. CASE \E s \in Made : c = cp15_set_procid_ttbr0(s)
      <4>1. PICK s \in Made : c = cp15_set_procid_ttbr0(s)
        BY <3>1
      <4>2. /\ Len(c) = 8 /\ c[1] = DSB /\ c[4] = Set("ttbr", s)
            /\ \A k \in 1..8 : c[k] \notin Stores
            /\ \A k \in 1..8 : c[k] \in Writes("ttbr") <=> k = 4
            /\ \A k \in 1..8 : c[k] \notin Writes("client") \cup Writes("mmu")
        BY <2>0, <4>1, SwitchFacts
      <4>3. TtbrRule(i)'
        <5> SUFFICES ASSUME NEW t \in Table \cup {0}, c[i] = Set("ttbr", t)
                     PROVE  t \in Made' /\ Drained(i)' /\ \A k \in i..Len(c) : c[k] \notin Stores
          BY DEF TtbrRule
        <5>1. i = 4 /\ t = s
          BY <3>0, <4>2, SetInj
        <5>2. 1 \in 1..i-1 /\ \A k \in 1+1..i-1 : c[k] \notin Stores
          BY <4>2, <5>1
        <5>3. Found(c, i, {DSB}, Stores)
          BY <4>2, <5>2, FoundAt
        <5>4. t \in Made'
          BY <2>0, <4>1, <5>1, MadeAtCall DEF Made, vm_lookup
        <5>5. \A k \in i..Len(c) : c[k] \notin Stores
          BY <4>2, <5>1
        <5> QED BY <5>3, <5>4, <5>5 DEF Drained
      <4>4. c[i] # Set("client", 0) /\ c[i] # Set("mmu", 1)
        <5>1. c[i] \notin Writes("client") \cup Writes("mmu")
          <6>1. Len(c) = 8 /\ \A k \in 1..8 : c[k] \notin Writes("client") \cup Writes("mmu")
            BY <2>0, <4>1, SwitchFacts
          <6> HIDE DEF c
          <6> QED BY <6>1
        <5> QED BY <3>0, <5>1
      <4>5. MmuRule(i)'
        BY <4>4 DEF MmuRule
      <4> QED BY <4>3, <4>4, <4>5
    <3>2. CASE ~\E s \in Made : c = cp15_set_procid_ttbr0(s)
      <4>1. \A k \in 1..Len(c) : c[k] \notin Writes("ttbr") /\ c[k] \notin Writes("client")
        BY <1>2, <3>2, CallWrites
      <4>2. TtbrRule(i)' /\ c[i] # Set("client", 0)
        BY <3>0, <4>1 DEF TtbrRule
      <4>3. MmuRule(i)'
        <5> SUFFICES ASSUME c[i] = Set("mmu", 1)
                     PROVE  /\ RegIs(i, "client", 1)' /\ \E t \in Table : RegIs(i, "ttbr", t)'
                            /\ Flushed(i)' /\ Done(i, "inv_tlb")'
          BY DEF MmuRule
        <5>1. i \in 1..Len(c)+1 /\ \A k \in 1..i-1 : k \in 1..Len(c)
          BY <1>0
        <5>2. \E t \in Table : RegIs(i, "ttbr", t)'
          BY <2>10, <4>1, <5>1
        <5>3. c = mmu_enable
          BY <1>2, CallWrites
        <5>4. \A k \in 1..Len(c) : c[k] # INV_TLB
          BY <5>3, EnableFacts DEF Maintenance
        <5>5. Done(i, "inv_tlb")'
          <6>1. Free(c, i, {INV_TLB})
            BY <5>1, <5>4 DEF Free
          <6> QED BY <1>0, <6>1 DEF Done, INV_TLB
        <5> QED BY <2>3, <2>4, <5>1, <5>2, <5>5
      <4> QED BY <4>2, <4>3
    <3> QED BY <3>1, <3>2
  <2> QED BY <2>6, <2>7, <2>8, <2>9, <2>11, <2>12 DEF RegRules, RegState
<1> QED BY <1>1, <1>2

\* Every routine keeps the rules of the registers.
LEMMA RegsAlways == Spec => [](RegRules /\ RegState)
<1>1. Init => RegRules /\ RegState
  <2> SUFFICES ASSUME Init PROVE RegRules /\ RegState
    OBVIOUS
  <2>1. /\ code = <<>> /\ booted = FALSE /\ wbuf = <<>> /\ pend = <<>>
        /\ reg = [mmu |-> 0, ttbr |-> 0, asid |-> 0, client |-> 0]
    BY DEF Init
  <2>2. ~Being("mmu", 1) /\ \A t \in Table : ~Being("ttbr", t)
    BY <2>1 DEF Being, Table
  <2>3. \A t \in Table : Written(t, "kern") = Fault
    <3> TAKE t \in Table
    <3>1. \A k \in 1..Len(code) : ~Concerns(code, "pte", <<t, "kern">>, k)
      BY <2>1
    <3>2. \A k \in 1..Len(wbuf) : ~Concerns(wbuf, "pte", <<t, "kern">>, k)
      BY <2>1
    <3>3. pt[t]["kern"] = Fault
      BY DEF Init, Va
    <3> QED BY <3>1, <3>2, <3>3, LatestNone DEF Written
  <2> QED BY <2>1, <2>2, <2>3 DEF RegRules, RegState, RegReady
<1>2. ASSUME Shapes, Unbooted, Waits, RegRules, RegState, [Next]_vars PROVE RegRules' /\ RegState'
  <2>1. CASE CallStep
    BY <1>2, <2>1, RegsAtCall
  <2>2. CASE UNCHANGED vars \/ Store \/ Load
    <3>1. UNCHANGED <<code, booted, pt, wbuf, reg, pend, maint, tlb>>
      BY <2>2 DEF vars, Store, Load
    <3>2. \A r, v : /\ Being(r, v)' <=> Being(r, v)
                    /\ \A i : RegIs(i, r, v)' <=> RegIs(i, r, v)
      BY <3>1 DEF Being, RegIs, Now
    <3>3. /\ \A i : Flushed(i)' <=> Flushed(i)
          /\ \A i : Drained(i)' <=> Drained(i)
          /\ \A i, o : Done(i, o)' <=> Done(i, o)
      BY <3>1 DEF Flushed, Drained, Done, KernelTlb
    <3>4. Made' = Made /\ \A t, va : Written(t, va)' = Written(t, va)
      BY <3>1 DEF Made, vm_lookup, Written
    <3>5. /\ KernelTlb' <=> KernelTlb
          /\ \A t : KernelKept(t)' <=> KernelKept(t)
      BY <3>1 DEF KernelTlb, KernelKept
    <3>6. RegRules'
      BY <1>2, <3>1, <3>2, <3>3, <3>4 DEF RegRules, TtbrRule, MmuRule
    <3>7. RegReady(Len(code) + 1)'
      BY <1>2, <3>1, <3>2, <3>3 DEF RegState, RegReady
    <3>8. RegState'
      BY <1>2, <3>1, <3>2, <3>4, <3>5, <3>7 DEF RegState
    <3> QED BY <3>6, <3>8
  <2> QED BY <1>2, <2>1, <2>2, ProcessorRegs, MemoryRegs DEF Next, Program, CallStep
<1> QED BY <1>1, <1>2, ShapesAlways, UnbootedAlways, WaitsAlways, PTL DEF Spec

\* At every instant with the MMU on, the middle of a switch or of a change to a table
\* included, the kernel is mapped to itself and may be accessed.
THEOREM KernelAlwaysMapped == Spec => []KernelMapped
<1>1. ASSUME Shapes, RegState PROVE KernelMapped
  <2> SUFFICES ASSUME reg.mmu = 1 PROVE reg.client = 1 /\ Translations("kern") = {Pte(Kernel, TRUE)}
    BY DEF KernelMapped
  <2>1. reg.client = 1 /\ reg.ttbr # 0 /\ KernelTlb
    BY <1>1 DEF RegState, Being
  <2>2. reg.ttbr \in Table
    BY <1>1, <2>1 DEF Shapes
  <2>3. InTable("kern") = KPte
    BY <1>1, <2>1, <2>2 DEF RegState, Being, KernelKept, InTable
  <2>4. \A e \in Matching("kern") : e.pte = KPte
    BY <2>1 DEF Matching, KernelTlb
  <2>5. Translations("kern") = {KPte}
    BY <2>3, <2>4 DEF Translations
  <2> QED BY <2>1, <2>5 DEF KPte
<1> QED BY <1>1, ShapesAlways, RegsAlways, PTL

----------------------------------------------------------------------------
(* The user's entries                                                      *)

UserStores(t) == {w \in Stores : w.to = <<t, "user">>}
UserTlb == \A e \in tlb : e.va = "user" =>
              e.tag # Global /\ (e.tag \in Table => e.pte = Written(e.tag, "user"))

\* Before the i-th instruction the TLB was invalidated after the last store to t ...
Purged(i, t) ==
    \/ Found(code, i, {INV_TLB}, UserStores(t))
    \/ /\ \A k \in 1..Len(wbuf) : wbuf[k] \notin UserStores(t)
       /\ Free(code, i, UserStores(t))

\* ... or at all, with only entries of the tables since.
Coherent(i) == Found(code, i, {INV_TLB}, {}) \/ "inv_tlb" \in maint \/ UserTlb

\* While the tables are exchanged the ASID is one that no table has.
AsidRule(i) ==
    /\ \A t \in Table \cup {0} : code[i] = Set("ttbr", t) => RegIs(i, "asid", 0)
    /\ \A t \in Table : code[i] = Set("asid", t) => RegIs(i, "ttbr", t)

Switched(n) == booted => \E t \in Table : RegIs(n, "ttbr", t) /\ RegIs(n, "asid", t)

UserRules == \A i \in 1..Len(code) : AsidRule(i)

UserState ==
    /\ \A a, t \in Table \cup {0} : Being("asid", a) /\ Being("ttbr", t) => a \in {0, t}
    /\ \A t \in Table : Being("ttbr", t) => Purged(Len(code) + 1, t)
    /\ \A t \in Table : Written(t, "user") \in {Fault} \cup {UPte(p) : p \in Pa}
    /\ \A e \in tlb : e.tag \in {0, Global} \cup Made
    /\ Switched(Len(code) + 1)
    /\ booted => Coherent(Len(code) + 1)

\* Only a call changes what a table maps the user to.
LEMMA KeepUserWritten ==
    ASSUME Shapes, Processor \/ Memory, NEW t \in Table
    PROVE  Written(t, "user")' = Written(t, "user")
<1>1. "user" \in Va
  BY DEF Va
<1> QED BY <1>1, KeepWritten

\* What the TLB will be purged of it is, once the instruction before is executed;
LEMMA ShiftPurged ==
    ASSUME Shapes, Waits, Processor, NEW t \in Table, NEW i \in 1..Len(code), Purged(i + 1, t)
    PROVE  Purged(i, t)'
<1>1. /\ code # <<>> /\ code' = Tail(code) /\ code \in Seq(Instruction) /\ 1 \in 1..Len(code)
      /\ wbuf' = IF code[1] \in Stores THEN Append(wbuf, code[1]) ELSE wbuf
      /\ wbuf \in Seq(Stores)
  BY Executes, ShiftCode DEF Shapes
<1>2. CASE Found(code, i + 1, {INV_TLB}, UserStores(t))
  <2>1. code[1] = INV_TLB => wbuf' = <<>>
    <3>1. code[1] = INV_TLB => Drained(1)
      BY <1>1 DEF Waits
    <3>2. Drained(1) => wbuf = <<>>
      BY NoneBefore DEF Drained
    <3> QED BY <1>1, <3>1, <3>2, Codes
  <2> QED BY <1>1, <1>2, <2>1, ShiftFound DEF Purged
<1>3. CASE (\A k \in 1..Len(wbuf) : wbuf[k] \notin UserStores(t)) /\
      Free(code, i + 1, UserStores(t))
  <2>1. Free(Tail(code), i, UserStores(t)) /\ code[1] \notin UserStores(t)
    BY <1>1, <1>3, ShiftFree
  <2>2. \A k \in 1..Len(wbuf') : wbuf'[k] = code[1] \/ (k \in 1..Len(wbuf) /\ wbuf'[k] = wbuf[k])
    BY <1>1, AppendProperties
  <2> QED BY <1>1, <1>3, <2>1, <2>2 DEF Purged
<1> QED BY <1>2, <1>3 DEF Purged

\* what it will be coherent with, too.
LEMMA ShiftCoherent ==
    ASSUME Shapes, Processor, NEW i \in 1..Len(code), Coherent(i + 1)
    PROVE  Coherent(i)'
<1>1. /\ code # <<>> /\ code' = Tail(code) /\ code \in Seq(Instruction) /\ tlb' = tlb
      /\ maint \subseteq maint'
      /\ code[1] = INV_TLB => "inv_tlb" \in maint'
  BY Executes, Codes DEF Shapes
<1>2. CASE Found(code, i + 1, {INV_TLB}, {})
  BY <1>1, <1>2, ShiftFound DEF Coherent
<1>3. CASE "inv_tlb" \in maint
  BY <1>1, <1>3 DEF Coherent
<1>4. CASE UserTlb
  BY <1>1, <1>4, KeepUserWritten DEF Coherent, UserTlb
<1> QED BY <1>2, <1>3, <1>4 DEF Coherent

\* Instructions keep the rules of the user entries.
LEMMA ProcessorUser ==
    ASSUME Shapes, Waits, RegRules, UserRules, UserState, Processor
    PROVE  UserRules' /\ UserState'
<1>0. /\ code # <<>> /\ code' = Tail(code) /\ code[1] \in Instruction
      /\ UNCHANGED <<booted, tlb, reg>>
      /\ wbuf' = IF code[1] \in Stores THEN Append(wbuf, code[1]) ELSE wbuf
      /\ 1 \in 1..Len(code) /\ Len(code) \in 1..Len(code) /\ Len(code') + 1 = Len(code)
      /\ Len(code) \in Nat
  BY Executes, ShiftCode
<1>1. ASSUME NEW i \in 1..Len(code') PROVE AsidRule(i)'
  <2>1. code'[i] = code[i + 1] /\ i + 1 \in 1..Len(code) /\ i \in 1..Len(code)
    BY ShiftCode
  <2>2. AsidRule(i + 1)
    BY <2>1 DEF UserRules
  <2>3. ASSUME NEW t \in Table \cup {0}, code'[i] = Set("ttbr", t) PROVE RegIs(i, "asid", 0)'
    BY <2>1, <2>2, <2>3, ShiftReg DEF AsidRule, Register
  <2>4. ASSUME NEW t \in Table, code'[i] = Set("asid", t) PROVE RegIs(i, "ttbr", t)'
    BY <2>1, <2>2, <2>4, ShiftReg DEF AsidRule, Register
  <2> QED BY <2>3, <2>4 DEF AsidRule
<1>2. ASSUME NEW a \in Table \cup {0}, NEW t \in Table \cup {0}, Being("asid", a)',
      Being("ttbr", t)'
      PROVE  a \in {0, t}
  <2>1. CASE Being("asid", a) /\ Being("ttbr", t)
    BY <2>1 DEF UserState
  <2>2. CASE code[1] = Set("asid", a)
    <3>1. Settled(1)
      BY <1>0, <2>2, SetIs DEF Waits
    <3>2. code[1] # Set("ttbr", t)
      BY <2>2, SetInj
    <3>3. Being("ttbr", t)
      BY <1>2, <3>2, BeingStep DEF Register
    <3>4. a \in Table => RegIs(1, "ttbr", a)
      BY <1>0, <2>2 DEF UserRules, AsidRule
    <3> QED BY <3>1, <3>3, <3>4, SettledReg
  <2>3. CASE code[1] = Set("ttbr", t)
    <3>1. Settled(1)
      BY <1>0, <2>3, SetIs DEF Waits
    <3>2. code[1] # Set("asid", a)
      BY <2>3, SetInj
    <3>3. Being("asid", a)
      BY <1>2, <3>2, BeingStep DEF Register
    <3>4. RegIs(1, "asid", 0)
      BY <1>0, <2>3 DEF UserRules, AsidRule
    <3> QED BY <3>1, <3>3, <3>4, SettledReg
  <2> QED BY <1>2, <2>1, <2>2, <2>3, BeingStep DEF Register
<1>3. ASSUME NEW t \in Table, Being("ttbr", t)', NEW n, n = Len(code) PROVE Purged(n, t)'
  <2>1. CASE Being("ttbr", t)
    <3>1. Purged(n + 1, t) /\ n \in 1..Len(code)
      BY <1>0, <1>3, <2>1 DEF UserState
    <3> QED BY <3>1, ShiftPurged
  <2>2. CASE code[1] = Set("ttbr", t)
    <3>1. Drained(1) /\ \A k \in 1..Len(code) : code[k] \notin Stores
      BY <1>0, <2>2 DEF RegRules, TtbrRule
    <3>2. wbuf' = <<>>
      BY <1>0, <3>1, NoneBefore DEF Drained
    <3>3. \A k \in 1..Len(code') : code'[k] \notin Stores
      BY <3>1, ShiftCode
    <3>4. \A k \in 1..n-1 : k \in 1..Len(code')
      BY <1>0, <1>3
    <3> QED BY <3>2, <3>3, <3>4 DEF Purged, Free, UserStores
  <2> QED BY <1>3, <2>1, <2>2, BeingStep DEF Register
<1>4. \A t \in Table : Written(t, "user")' \in {Fault} \cup {UPte(p) : p \in Pa}
  BY KeepUserWritten DEF UserState
<1>5. \A e \in tlb' : e.tag \in {0, Global} \cup Made'
  BY <1>0, KeepMade DEF UserState
<1>6. ASSUME NEW n, n = Len(code), booted PROVE Switched(n)' /\ Coherent(n)'
  <2>1. Switched(n + 1) /\ Coherent(n + 1) /\ n \in 1..Len(code)
    BY <1>0, <1>6 DEF UserState
  <2>2. PICK t \in Table : RegIs(n + 1, "ttbr", t) /\ RegIs(n + 1, "asid", t)
    BY <1>6, <2>1 DEF Switched
  <2>3. RegIs(n, "ttbr", t)' /\ RegIs(n, "asid", t)'
    BY <2>1, <2>2, ShiftReg DEF Register
  <2> QED BY <2>1, <2>3, ShiftCoherent DEF Switched
<1>7. Switched(Len(code) + 1)' /\ (booted' => Coherent(Len(code) + 1)')
  BY <1>0, <1>6 DEF Switched
<1>8. \A t \in Table : Being("ttbr", t)' => Purged(Len(code) + 1, t)'
  BY <1>0, <1>3
<1>9. UserRules'
  BY <1>1 DEF UserRules
<1>10. UserState'
  BY <1>2, <1>4, <1>5, <1>7, <1>8 DEF UserState
<1> QED BY <1>9, <1>10

\* Nothing beside the processor stores to a table of its own accord.
LEMMA KeepPurged ==
    ASSUME Shapes, Memory, NEW t, NEW i, Purged(i, t)
    PROVE  Purged(i, t)'
<1>1. code' = code
  BY MemoryIs
<1>2. CASE Drain
  <2>1. wbuf # <<>> /\ wbuf \in Seq(Stores) /\ wbuf' = Tail(wbuf)
    BY <1>2 DEF Drain, Shapes
  <2>2. \A k \in 1..Len(wbuf') : wbuf'[k] = wbuf[k + 1] /\ k + 1 \in 1..Len(wbuf)
    BY <2>1, HeadTailProperties, EmptySeq, LenProperties
  <2> QED BY <1>1, <2>2 DEF Purged
<1>3. CASE ~Drain
  <2>1. wbuf' = wbuf
    BY <1>3 DEF Memory, Cp15Effect, Complete, CacheEvict, Walk, TlbEvict
  <2> QED BY <1>1, <2>1 DEF Purged
<1> QED BY <1>2, <1>3

\* A table in use, with no store under way to the user's entry.
LEMMA InMemory ==
    ASSUME Shapes, NEW t \in Table, \A k \in 1..Len(wbuf) : wbuf[k] \notin UserStores(t),
           \A k \in 1..Len(code) : code[k] \notin UserStores(t)
    PROVE  Written(t, "user") = pt[t]["user"]
<1>1. \A k \in 1..Len(code) : ~Concerns(code, "pte", <<t, "user">>, k)
  <2> TAKE k \in 1..Len(code)
  <2>1. code[k] \in Instruction
    BY ElementOfSeq DEF Shapes
  <2>2. code[k].op = "pte" => code[k] \in Stores
    BY <2>1, Kinds
  <2> QED BY <2>2 DEF Concerns, UserStores
<1>2. \A k \in 1..Len(wbuf) : ~Concerns(wbuf, "pte", <<t, "user">>, k)
  <2> TAKE k \in 1..Len(wbuf)
  <2>1. wbuf[k] \in Stores
    BY ElementOfSeq DEF Shapes
  <2> QED BY <2>1 DEF Concerns, UserStores
<1> QED BY <1>1, <1>2, LatestNone DEF Written

\* A walk loads what the table of the ASID holds, or, with ASID 0, what no table's ASID finds;
\* or the TLB is invalidated before the routine ends.
LEMMA WalkIs ==
    ASSUME Shapes, RegState, UserState, Walk, Made' = Made
    PROVE  \E e : /\ tlb' = tlb \cup {e} /\ e.tag \in {0, Global} \cup Made
                  /\ \/ Found(code, Len(code) + 1, {INV_TLB}, {})
                     \/ e.va = "user" => e.tag # Global /\
                            (e.tag \in Table => e.pte = Written(e.tag, "user"))
<1>1. PICK va \in Va : tlb' = tlb \cup
               {[tag |-> IF InTable(va).nG THEN reg.asid ELSE Global, va |-> va,
                 pte |-> InTable(va)]}
                       /\ reg.mmu = 1 /\ InTable(va) # Fault
  BY DEF Walk
<1> DEFINE e == [tag |-> IF InTable(va).nG THEN reg.asid ELSE Global, va |-> va,
                 pte |-> InTable(va)]
           t == reg.ttbr
<1>2. t # 0 /\ t \in Table /\ Being("ttbr", t) /\ Being("asid", reg.asid) /\ Being("mmu", 1)
      /\ reg.asid \in Table \cup {0}
  BY <1>1 DEF RegState, Being, Shapes
<1>3. reg.asid \in {0, t} /\ t \in Made
  BY <1>2, InUseMade DEF UserState
<1>4. e.tag \in {0, Global} \cup Made
  BY <1>3
<1>5. ASSUME va = "user", ~Found(code, Len(code) + 1, {INV_TLB}, {})
      PROVE  e.tag # Global /\ (e.tag \in Table => e.pte = Written(e.tag, "user"))
  <2>1. Purged(Len(code) + 1, t)
    BY <1>2 DEF UserState
  <2>2. ~Found(code, Len(code) + 1, {INV_TLB}, UserStores(t))
    BY <1>5 DEF Found
  <2>3. Len(code) \in Nat
    BY LenProperties DEF Shapes
  <2>4. /\ \A k \in 1..Len(wbuf) : wbuf[k] \notin UserStores(t)
        /\ \A k \in 1..Len(code) : code[k] \notin UserStores(t)
    <3>1. (Len(code) + 1) - 1 = Len(code)
      BY <2>3
    <3> QED BY <2>1, <2>2, <3>1 DEF Purged, Free
  <2>5. InTable(va) = Written(t, "user")
    BY <1>2, <1>5, <2>4, InMemory DEF InTable
  <2>6. PICK p \in Pa : InTable(va) = UPte(p)
    BY <1>1, <1>2, <2>5 DEF UserState
  <2>7. InTable(va).nG = TRUE
    <3>1. UPte(p) = [pa |-> p, nG |-> TRUE]
      <4>1. (~FALSE) = TRUE
        OBVIOUS
      <4> QED BY <4>1, Zenon DEF UPte, Pte
    <3> QED BY <2>6, <3>1
  <2>8. e.tag = reg.asid /\ e.pte = Written(t, "user")
    BY <2>5, <2>7
  <2>9. reg.asid \in Table => reg.asid = t
    BY <1>3 DEF Table
  <2>10. reg.asid # Global
    BY <1>2 DEF Table, Global
  <2> HIDE DEF e
  <2> QED BY <2>8, <2>9, <2>10
<1>6. e.va = va
  OBVIOUS
<1> HIDE DEF e
<1> QED BY <1>1, <1>4, <1>5, <1>6 DEF e

\* What goes on beside the processor keeps the rules of the user entries.
LEMMA MemoryUser ==
    ASSUME Shapes, Waits, RegState, UserRules, UserState, Memory
    PROVE  UserRules' /\ UserState'
<1>0. UNCHANGED <<code, booted>> /\ Made' = Made
  BY MemoryIs, KeepMade
<1>1. UserRules'
  <2> SUFFICES ASSUME NEW i \in 1..Len(code) PROVE AsidRule(i)'
    BY <1>0 DEF UserRules
  <2>1. AsidRule(i)
    BY DEF UserRules
  <2>2. ASSUME NEW t \in Table \cup {0}, code[i] = Set("ttbr", t) PROVE RegIs(i, "asid", 0)'
    BY <2>1, <2>2, KeepReg DEF AsidRule, Register
  <2>3. ASSUME NEW t \in Table, code[i] = Set("asid", t) PROVE RegIs(i, "ttbr", t)'
    BY <2>1, <2>3, KeepReg DEF AsidRule, Register
  <2> QED BY <1>0, <2>2, <2>3 DEF AsidRule
<1>2. \A a, t \in Table \cup {0} : Being("asid", a)' /\ Being("ttbr", t)' => a \in {0, t}
  BY BeingStep DEF UserState, Register
<1>3. \A t \in Table : Being("ttbr", t)' => Purged(Len(code) + 1, t)'
  <2> SUFFICES ASSUME NEW t \in Table, Being("ttbr", t)', NEW n, n = Len(code) + 1
        PROVE Purged(n, t)'
    BY <1>0
  <2>1. Being("ttbr", t)
    BY BeingStep DEF Register
  <2>2. Purged(n, t)
    BY <2>1 DEF UserState
  <2> QED BY <2>2, KeepPurged
<1>4. \A t \in Table : Written(t, "user")' \in {Fault} \cup {UPte(p) : p \in Pa}
  BY KeepUserWritten DEF UserState
<1>5. Switched(Len(code) + 1)'
  <2> SUFFICES ASSUME booted, NEW n, n = Len(code) + 1
        PROVE \E t \in Table : RegIs(n, "ttbr", t)' /\ RegIs(n, "asid", t)'
    BY <1>0 DEF Switched
  <2>1. PICK t \in Table : RegIs(n, "ttbr", t) /\ RegIs(n, "asid", t)
    BY DEF UserState, Switched
  <2> QED BY <2>1, KeepReg DEF Register
<1>6. ASSUME Walk
      PROVE  (\A e \in tlb' : e.tag \in {0, Global} \cup Made) /\
                 (booted => Coherent(Len(code) + 1)')
  <2>1. PICK e : /\ tlb' = tlb \cup {e} /\ e.tag \in {0, Global} \cup Made
                 /\ \/ Found(code, Len(code) + 1, {INV_TLB}, {})
                    \/ e.va = "user" => e.tag # Global /\
                           (e.tag \in Table => e.pte = Written(e.tag, "user"))
    BY <1>0, <1>6, WalkIs
  <2>2. maint' = maint
    BY <1>6 DEF Walk
  <2>3. UserTlb /\ (e.va = "user" => e.tag # Global /\
             (e.tag \in Table => e.pte = Written(e.tag, "user"))) => UserTlb'
    BY <2>1, KeepUserWritten DEF UserTlb
  <2> QED BY <1>0, <2>1, <2>2, <2>3 DEF UserState, Coherent
<1>7. ASSUME ~Walk
      PROVE  (\A e \in tlb' : e.tag \in {0, Global} \cup Made) /\
                 (booted => Coherent(Len(code) + 1)')
  <2>1. tlb' \subseteq tlb /\ ("inv_tlb" \in maint => "inv_tlb" \in maint' \/ tlb' = {})
    BY <1>7 DEF Memory, Drain, Cp15Effect, Complete, CacheEvict, TlbEvict
  <2>2. UserTlb => UserTlb'
    BY <2>1, KeepUserWritten DEF UserTlb
  <2>3. tlb' = {} => UserTlb'
    BY DEF UserTlb
  <2> QED BY <1>0, <2>1, <2>2, <2>3 DEF UserState, Coherent
<1>8. (\A e \in tlb' : e.tag \in {0, Global} \cup Made') /\ (booted' => Coherent(Len(code) + 1)')
  BY <1>0, <1>6, <1>7
<1>9. UserState'
  BY <1>2, <1>3, <1>4, <1>5, <1>8 DEF UserState
<1> QED BY <1>1, <1>9

\* vm_map_kernel moves the ASID to 0, then uses table 1, then its ASID.
LEMMA UserAtBoot ==
    ASSUME Shapes, Waits, RegState, UserState, Unbooted, CallStep, ~booted, NEW enable \in BOOLEAN,
           code' = Boot(enable)
    PROVE  UserRules' /\ Switched(Len(code) + 1)' /\ Coherent(Len(code) + 1)'
<1> DEFINE c == code'
<1>1. /\ \A k \in 1..Len(c) : c[k] \in Writes("ttbr") <=> k = 22
      /\ \A k \in 1..Len(c) : c[k] \in Writes("asid") <=> k \in {20, 25}
      /\ c[22] = Set("ttbr", 1) /\ c[20] = Set("asid", 0) /\ c[25] = Set("asid", 1) /\
             c[16] = INV_TLB
  <2>1. /\ \A k \in 1..Len(c) : c[k] \in Writes("ttbr") <=> k = 22
        /\ \A k \in 1..Len(c) : c[k] \in Writes("asid") <=> k \in {20, 25}
    BY BootFacts
  <2>2. c[22] = Set("ttbr", 1) /\ c[20] = Set("asid", 0) /\ c[25] = Set("asid", 1) /\
        c[16] = INV_TLB
    BY BootHead
  <2> QED BY <2>1, <2>2
<1>2. Len(c) \in {26, 36}
  <2>1. Len(c) = IF enable THEN 36 ELSE 26
    BY BootFacts
  <2> QED BY <2>1
<1>3. /\ \A v \in Table \cup {0} : Set("ttbr", v) \in Writes("ttbr") /\
             Set("asid", v) \in Writes("asid")
      /\ \A v : (Set("ttbr", v) = Set("ttbr", 1) => v = 1) /\
                (Set("asid", v) = Set("asid", 1) => v = 1)
      /\ \A v : Set("asid", v) = Set("asid", 0) => v = 0
  BY SetIs, SetInj DEF Writes
<1> HIDE DEF c
<1>4. ASSUME NEW i \in 23..Len(c)+1 PROVE RegIs(i, "ttbr", 1)'
  <2>1. 22 \in 1..i-1 /\ \A k \in 22+1..i-1 : c[k] \notin Writes("ttbr")
    BY <1>1, <1>2
  <2>2. Found(c, i, {Set("ttbr", 1)}, Writes("ttbr"))
    BY <1>1, <2>1, FoundAt
  <2> QED BY <2>2 DEF RegIs, c
<1>5. RegIs(22, "asid", 0)'
  <2>1. 20 \in 1..22-1 /\ \A k \in 20+1..22-1 : c[k] \notin Writes("asid")
    BY <1>1, <1>2
  <2>2. Found(c, 22, {Set("asid", 0)}, Writes("asid"))
    BY <1>1, <2>1, FoundAt
  <2> QED BY <2>2 DEF RegIs, c
<1>6. ASSUME NEW i \in 26..Len(c)+1 PROVE RegIs(i, "asid", 1)'
  <2>1. 25 \in 1..i-1 /\ \A k \in 25+1..i-1 : c[k] \notin Writes("asid")
    BY <1>1, <1>2
  <2>2. Found(c, i, {Set("asid", 1)}, Writes("asid"))
    BY <1>1, <2>1, FoundAt
  <2> QED BY <2>2 DEF RegIs, c
<1>7. ASSUME NEW i \in 1..Len(c) PROVE AsidRule(i)'
  <2>1. ASSUME NEW t \in Table \cup {0}, c[i] = Set("ttbr", t) PROVE RegIs(i, "asid", 0)'
    <3>1. i = 22
      BY <1>1, <1>3, <2>1
    <3> QED BY <1>5, <3>1
  <2>2. ASSUME NEW t \in Table, c[i] = Set("asid", t) PROVE RegIs(i, "ttbr", t)'
    <3>1. i \in {20, 25} /\ t # 0
      BY <1>1, <1>3, <2>2 DEF Table
    <3>2. i = 25 /\ t = 1
      BY <1>1, <1>3, <2>2, <3>1
    <3>3. i \in 23..Len(c)+1
      BY <3>2
    <3> QED BY <1>4, <3>2, <3>3
  <2> QED BY <2>1, <2>2 DEF AsidRule, c
<1>8. ASSUME NEW n, n = Len(c) + 1
      PROVE  RegIs(n, "ttbr", 1)' /\ RegIs(n, "asid", 1)' /\ Found(c, n, {INV_TLB}, {})
  <2>1. n \in 23..Len(c)+1 /\ n \in 26..Len(c)+1 /\ 16 \in 1..n-1
    <3>1. CASE Len(c) = 26
      BY <1>8, <3>1
    <3>2. CASE Len(c) = 36
      BY <1>8, <3>2
    <3> QED BY <1>2, <3>1, <3>2
  <2>2. Found(c, n, {INV_TLB}, {})
    <3>1. \A k \in 16+1..n-1 : c[k] \notin {}
      OBVIOUS
    <3> QED BY <1>1, <2>1, <3>1, FoundAt
  <2> QED BY <1>4, <1>6, <2>1, <2>2
<1>9. 1 \in Table
  BY DEF Table
<1> QED BY <1>7, <1>8, <1>9 DEF UserRules, Switched, Coherent, c

\* What each call makes of the entries of the user.
LEMMA UserWrittenAtCall ==
    ASSUME Shapes, Waits, RegState, CallStep, NEW t \in Table
    PROVE  /\ \A enable \in BOOLEAN : code' = Boot(enable) =>
                  Written(t, "user")' = Written(t, "user")
           /\ \A s \in Table, p \in Pa : code' = Mapping(s, p) =>
                  Written(t, "user")' = IF t = s THEN UPte(p) ELSE Written(t, "user")
           /\ \A s \in Table, u \in Table : code' = Copy(s, u) =>
                  Written(t, "user")' = IF t = u THEN Written(s, "user") ELSE Written(t, "user")
           /\ (\E s \in Table : code' = cp15_set_procid_ttbr0(s)) \/
                  code' \in {mmu_enable, mmu_disable} => Written(t, "user")' = Written(t, "user")
<1>1. "user" \in Va /\ "kern" # "user"
  BY DEF Va
<1>2. code = <<>> /\ UNCHANGED <<pt, wbuf>> /\ code' \in Seq(Instruction)
  BY CallIs
<1> DEFINE va == "user"
<1>3. va = "user" /\ va \in Va
  BY <1>1
<1> HIDE DEF va
<1>4. /\ \A enable \in BOOLEAN : code' = Boot(enable) =>
             Written(t, va)' = IF t = 1 /\ va = "kern" THEN KPte ELSE Written(t, va)
      /\ \A s \in Table, p \in Pa : code' = Mapping(s, p) =>
             Written(t, va)' = IF t = s /\ va = "user" THEN UPte(p) ELSE Written(t, va)
      /\ \A s \in Table, u \in Table : code' = Copy(s, u) =>
             Written(t, va)' = IF t = u THEN Written(s, va) ELSE Written(t, va)
      /\ (\E s \in Table : code' = cp15_set_procid_ttbr0(s)) \/
             code' \in {mmu_enable, mmu_disable} => Written(t, va)' = Written(t, va)
  BY <1>2, <1>3, CallsWrite
<1> QED BY <1>1, <1>3, <1>4

\* vm_map_kernel and vm_dup make a table, and none is unmade.
LEMMA MadeGrows ==
    ASSUME Shapes, Waits, RegState, CallStep
    PROVE  Made \subseteq Made'
<1>0. KPte # Fault /\ Made \subseteq Table
  BY DEF KPte, Pte, Fault, Kernel, Made
<1>1. \/ \E enable \in BOOLEAN : code' = Boot(enable)
      \/ \E t \in Table, p \in Pa : code' = Mapping(t, p)
      \/ \E t \in Made, u \in Table \ Made : code' = Copy(t, u)
      \/ (\E t \in Table : code' = cp15_set_procid_ttbr0(t)) \/ code' \in {mmu_enable, mmu_disable}
  BY <1>0, Calls
<1> SUFFICES ASSUME NEW t \in Made PROVE Written(t, "kern")' # Fault
  BY <1>0 DEF Made, vm_lookup
<1>2. Written(t, "kern") # Fault /\ t \in Table
  BY DEF Made, vm_lookup
<1>3. CASE \E enable \in BOOLEAN : code' = Boot(enable)
  BY <1>0, <1>2, <1>3, MadeAtCall
<1>4. CASE \E s \in Table, p \in Pa : code' = Mapping(s, p)
  BY <1>2, <1>4, MadeAtCall
<1>5. CASE \E s \in Made, u \in Table \ Made : code' = Copy(s, u)
  BY <1>0, <1>2, <1>5, MadeAtCall
<1>6. CASE (\E s \in Table : code' = cp15_set_procid_ttbr0(s)) \/
      code' \in {mmu_enable, mmu_disable}
  BY <1>2, <1>6, MadeAtCall
<1> QED BY <1>1, <1>3, <1>4, <1>5, <1>6

\* Every call keeps the rules of the user entries.
LEMMA UserAtCall ==
    ASSUME Shapes, Waits, RegState, UserState, Unbooted, CallStep
    PROVE  UserRules' /\ UserState'
<1> DEFINE c == code'
<1>0. /\ code = <<>> /\ UNCHANGED <<pt, wbuf, reg, pend, maint, tlb>> /\ booted' = TRUE /\
             Len(c) \in Nat
      /\ c \in Seq(Instruction) /\ pend = <<>> /\ maint = {}
      /\ \A r, v : Now(r)' = reg[r] /\ (Being(r, v)' <=> reg[r] = v) /\ (Being(r, v) <=> reg[r] = v)
  BY CallIs
<1>00. Made \subseteq Table /\ Len(code) + 1 = 1
  BY <1>0 DEF Made
<1>1. \A a, t \in Table \cup {0} : Being("asid", a)' /\ Being("ttbr", t)' => a \in {0, t}
  BY <1>0 DEF UserState
<1>2. \A t \in Table : Written(t, "user")' \in {Fault} \cup {UPte(p) : p \in Pa}
  <2> TAKE t \in Table
  <2>1. \/ \E enable \in BOOLEAN : c = Boot(enable)
        \/ \E s \in Table, p \in Pa : c = Mapping(s, p)
        \/ \E s \in Table, u \in Table : c = Copy(s, u)
        \/ (\E s \in Table : c = cp15_set_procid_ttbr0(s)) \/ c \in {mmu_enable, mmu_disable}
    BY <1>00, Calls
  <2>2. \A s \in Table : Written(s, "user") \in {Fault} \cup {UPte(p) : p \in Pa}
    BY DEF UserState
  <2> QED BY <2>1, <2>2, UserWrittenAtCall
<1>3. \A e \in tlb' : e.tag \in {0, Global} \cup Made'
  BY <1>0, MadeGrows DEF UserState
<1>4. \A t \in Table : Being("ttbr", t) => t \in Made
  BY InUseMade
<1>5. ASSUME NEW t \in Table, Being("ttbr", t)', NEW n, n = Len(c) + 1 PROVE Purged(n, t)'
  <2>1. Being("ttbr", t) /\ t \in Made /\ n \in Nat /\ n - 1 = Len(c)
    BY <1>0, <1>4, <1>5
  <2>2. \A k \in 1..Len(wbuf') : wbuf'[k] \notin UserStores(t)
    <3>1. Purged(1, t)
      BY <1>00, <2>1 DEF UserState
    <3> QED BY <1>0, <3>1, NoneBefore DEF Purged
  <2>3. CASE \E s \in Made, p \in Pa : c = Mapping(s, p)
    <3>1. Len(c) = 9 /\ c[7] = INV_TLB /\ \A k \in 7+1..9 : c[k] \notin Stores
      BY <1>00, <2>3, MapFacts
    <3>2. 7 \in 1..n-1 /\ \A k \in 7+1..n-1 : c[k] \notin UserStores(t)
      BY <1>5, <3>1 DEF UserStores
    <3>3. Found(c, n, {INV_TLB}, UserStores(t))
      BY <3>1, <3>2, FoundAt
    <3> QED BY <3>3 DEF Purged
  <2>4. CASE \A k \in 1..Len(c) : c[k] \notin UserStores(t)
    BY <2>1, <2>2, <2>4 DEF Purged, Free
  <2>5. CASE \E s \in Made, u \in Table \ Made : c = Copy(s, u)
    <3>1. PICK s \in Made, u \in Table \ Made : c = Copy(s, u)
      BY <2>5
    <3>2. Len(c) = 2 /\ c[1].to = <<u, "kern">> /\ c[2].to = <<u, "user">>
      BY <1>00, <3>1, CopyFacts, StoreVal
    <3>3. <<u, "kern">> # <<t, "user">> /\ <<u, "user">> # <<t, "user">>
      BY <2>1
    <3>4. \A k \in 1..Len(c) : c[k] \notin UserStores(t)
      BY <3>2, <3>3 DEF UserStores
    <3> QED BY <2>4, <3>4
  <2>6. CASE \A k \in 1..Len(c) : c[k] \notin Stores
    BY <2>4, <2>6 DEF UserStores
  <2>7. booted
    BY <2>1 DEF Unbooted, Being, Table
  <2> QED BY <2>3, <2>5, <2>6, <2>7, CallWrites
<1>6. CASE ~booted
  <2>1. PICK enable \in BOOLEAN : c = Boot(enable)
    BY <1>6, Calls
  <2>2. UserRules' /\ Switched(Len(code) + 1)' /\ Coherent(Len(code) + 1)'
    BY <1>6, <2>1, UserAtBoot
  <2> QED BY <1>1, <1>2, <1>3, <1>5, <2>2 DEF UserState
<1>7. CASE booted
  <2>1. PICK t \in Table : reg["ttbr"] = t /\ reg["asid"] = t
    <3>1. PICK t \in Table : RegIs(1, "ttbr", t) /\ RegIs(1, "asid", t)
      BY <1>00, <1>7 DEF UserState, Switched
    <3>2. Settled(1)
      BY <1>0, NoneBefore DEF Settled
    <3> QED BY <3>1, <3>2, SettledReg
  <2>2. UserTlb
    <3>1. Coherent(1)
      BY <1>00, <1>7 DEF UserState
    <3> QED BY <1>0, <3>1, NoneBefore DEF Coherent
  <2>3. Coherent(Len(code) + 1)'
    <3> SUFFICES ASSUME NEW n, n = Len(c) + 1 PROVE Coherent(n)'
      OBVIOUS
    <3>1. CASE \E s \in Made, p \in Pa : c = Mapping(s, p)
      <4>1. Len(c) = 9 /\ c[7] = INV_TLB
        BY <1>00, <3>1, MapFacts
      <4>2. 7 \in 1..n-1 /\ \A k \in 7+1..n-1 : c[k] \notin {}
        BY <4>1
      <4>3. Found(c, n, {INV_TLB}, {})
        BY <4>1, <4>2, FoundAt
      <4> QED BY <4>3 DEF Coherent
    <3>2. CASE \A e \in tlb : e.tag \in Table => Written(e.tag, "user")' = Written(e.tag, "user")
      BY <1>0, <2>2, <3>2 DEF UserTlb, Coherent
    <3>3. CASE \E s \in Made, u \in Table \ Made : c = Copy(s, u)
      <4>1. PICK s \in Made, u \in Table \ Made : c = Copy(s, u)
        BY <3>3
      <4>2. \A e \in tlb : e.tag # u
        BY <4>1 DEF UserState, Table, Global
      <4>3. ASSUME NEW e \in tlb, e.tag \in Table
            PROVE Written(e.tag, "user")' = Written(e.tag, "user")
        BY <1>00, <4>1, <4>2, <4>3, UserWrittenAtCall
      <4> QED BY <3>2, <4>3
    <3>4. CASE (\E s \in Made : c = cp15_set_procid_ttbr0(s)) \/ c = mmu_enable \/ c = mmu_disable
      <4>1. (\E s \in Table : c = cp15_set_procid_ttbr0(s)) \/ c \in {mmu_enable, mmu_disable}
        BY <1>00, <3>4
      <4>2. ASSUME NEW e \in tlb, e.tag \in Table
            PROVE Written(e.tag, "user")' = Written(e.tag, "user")
        BY <4>1, <4>2, UserWrittenAtCall
      <4> QED BY <3>2, <4>2
    <3> QED BY <1>7, <3>1, <3>3, <3>4, CallWrites
  <2>4. CASE \E s \in Made : c = cp15_set_procid_ttbr0(s)
    <3>1. PICK s \in Made : c = cp15_set_procid_ttbr0(s)
      BY <2>4
    <3>2. /\ Len(c) = 8 /\ c[2] = Set("asid", 0) /\ c[4] = Set("ttbr", s) /\ c[7] = Set("asid", s)
          /\ \A k \in 1..8 : c[k] \in Writes("asid") <=> k \in {2, 7}
          /\ \A k \in 1..8 : c[k] \in Writes("ttbr") <=> k = 4
      BY <1>00, <3>1, SwitchFacts
    <3> HIDE DEF c
    <3>3. ASSUME NEW i \in 5..9 PROVE RegIs(i, "ttbr", s)'
      <4>1. 4 \in 1..i-1 /\ \A k \in 4+1..i-1 : c[k] \notin Writes("ttbr")
        BY <3>2
      <4>2. Found(c, i, {Set("ttbr", s)}, Writes("ttbr"))
        BY <3>2, <4>1, FoundAt
      <4> QED BY <4>2 DEF RegIs, c
    <3>4. RegIs(4, "asid", 0)'
      <4>1. 2 \in 1..4-1 /\ \A k \in 2+1..4-1 : c[k] \notin Writes("asid")
        BY <3>2
      <4>2. Found(c, 4, {Set("asid", 0)}, Writes("asid"))
        BY <3>2, <4>1, FoundAt
      <4> QED BY <4>2 DEF RegIs, c
    <3>5. RegIs(9, "asid", s)'
      <4>1. 7 \in 1..9-1 /\ \A k \in 7+1..9-1 : c[k] \notin Writes("asid")
        BY <3>2
      <4>2. Found(c, 9, {Set("asid", s)}, Writes("asid"))
        BY <3>2, <4>1, FoundAt
      <4> QED BY <4>2 DEF RegIs, c
    <3>6. ASSUME NEW i \in 1..Len(c) PROVE AsidRule(i)'
      <4>0. \A v \in Table \cup {0} : Set("ttbr", v) \in Writes("ttbr") /\
            Set("asid", v) \in Writes("asid")
        BY SetIs DEF Writes
      <4>1. ASSUME NEW t1 \in Table \cup {0}, c[i] = Set("ttbr", t1) PROVE RegIs(i, "asid", 0)'
        <5>1. i = 4
          BY <3>2, <4>0, <4>1
        <5> QED BY <3>4, <5>1
      <4>2. ASSUME NEW t1 \in Table, c[i] = Set("asid", t1) PROVE RegIs(i, "ttbr", t1)'
        <5>1. i \in {2, 7} /\ t1 # 0
          BY <3>2, <4>0, <4>2 DEF Table
        <5>2. i = 7 /\ t1 = s
          BY <3>2, <4>2, <5>1, SetInj
        <5> QED BY <3>3, <5>2
      <4> QED BY <4>1, <4>2 DEF AsidRule, c
    <3>7. Switched(Len(code) + 1)'
      <4>1. s \in Table /\ Len(c) + 1 = 9
        BY <1>00, <3>2
      <4> QED BY <3>3, <3>5, <4>1 DEF Switched, c
    <3> QED BY <1>1, <1>2, <1>3, <1>5, <2>3, <3>6, <3>7 DEF UserRules, UserState, c
  <2>5. CASE ~\E s \in Made : c = cp15_set_procid_ttbr0(s)
    <3>1. \A k \in 1..Len(c) : c[k] \notin Writes("ttbr") /\ c[k] \notin Writes("asid")
      BY <1>7, <2>5, CallWrites
    <3>2. UserRules'
      <4>1. \A v \in Table \cup {0} : Set("ttbr", v) \in Writes("ttbr") /\
            Set("asid", v) \in Writes("asid")
        BY SetIs DEF Writes
      <4> QED BY <3>1, <4>1 DEF UserRules, AsidRule
    <3>3. Switched(Len(code) + 1)'
      <4> SUFFICES ASSUME NEW n, n = Len(c) + 1 PROVE RegIs(n, "ttbr", t)' /\ RegIs(n, "asid", t)'
        BY DEF Switched
      <4>1. Now("ttbr")' = t /\ Now("asid")' = t
        BY <1>0, <2>1
      <4>2. \A k \in 1..n-1 : k \in 1..Len(c)
        BY <1>0
      <4> QED BY <3>1, <4>1, <4>2, RegAtCall
    <3> QED BY <1>1, <1>2, <1>3, <1>5, <2>3, <3>2, <3>3 DEF UserState
  <2> QED BY <2>4, <2>5
<1> QED BY <1>6, <1>7

\* Every routine keeps the rules of the user entries.
LEMMA UserAlways == Spec => [](UserRules /\ UserState)
<1>1. Init => UserRules /\ UserState
  <2> SUFFICES ASSUME Init PROVE UserRules /\ UserState
    OBVIOUS
  <2>1. /\ code = <<>> /\ booted = FALSE /\ wbuf = <<>> /\ pend = <<>>
        /\ reg = [mmu |-> 0, ttbr |-> 0, asid |-> 0, client |-> 0]
    BY DEF Init
  <2>2. /\ \A a \in Table \cup {0} : Being("asid", a) => a = 0
        /\ \A t \in Table : ~Being("ttbr", t)
    BY <2>1 DEF Being, Table
  <2>3. \A t \in Table : Written(t, "user") = Fault
    <3> TAKE t \in Table
    <3>1. \A k \in 1..Len(code) : ~Concerns(code, "pte", <<t, "user">>, k)
      BY <2>1
    <3>2. \A k \in 1..Len(wbuf) : ~Concerns(wbuf, "pte", <<t, "user">>, k)
      BY <2>1
    <3>3. pt[t]["user"] = Fault
      BY DEF Init, Va
    <3> QED BY <3>1, <3>2, <3>3, LatestNone DEF Written
  <2>4. \A e \in tlb : e.tag = Global
    <3>1. tlb \subseteq {[tag |-> Global, va |-> va, pte |-> Pte("none", TRUE)] : va \in Va}
      BY DEF Init
    <3> DEFINE none == Pte("none", TRUE)
    <3> HIDE DEF none
    <3>2. \A va : [tag |-> Global, va |-> va, pte |-> none].tag = Global
      OBVIOUS
    <3> QED BY <3>1, <3>2 DEF none
  <2> QED BY <2>1, <2>2, <2>3, <2>4 DEF UserRules, UserState, Switched
<1>2. ASSUME Shapes, Unbooted, Waits, RegRules, RegState, UserRules, UserState, [Next]_vars
      PROVE  UserRules' /\ UserState'
  <2>1. CASE CallStep
    BY <1>2, <2>1, UserAtCall
  <2>2. CASE UNCHANGED vars \/ Store \/ Load
    <3>1. UNCHANGED <<code, booted, pt, wbuf, reg, pend, maint, tlb>>
      BY <2>2 DEF vars, Store, Load
    <3>2. \A r, v : /\ Being(r, v)' <=> Being(r, v)
                    /\ \A i : RegIs(i, r, v)' <=> RegIs(i, r, v)
      BY <3>1 DEF Being, RegIs, Now
    <3>3. Made' = Made /\ \A t, va : Written(t, va)' = Written(t, va)
      BY <3>1 DEF Made, vm_lookup, Written
    <3>4. \A i, t : Purged(i, t)' <=> Purged(i, t)
      BY <3>1 DEF Purged
    <3>5. \A i : Coherent(i)' <=> Coherent(i)
      BY <3>1, <3>3 DEF Coherent, UserTlb
    <3>6. UserRules'
      BY <1>2, <3>1, <3>2 DEF UserRules, AsidRule
    <3>7. Switched(Len(code) + 1)'
      BY <1>2, <3>1, <3>2 DEF UserState, Switched
    <3>8. UserState'
      BY <1>2, <3>1, <3>2, <3>3, <3>4, <3>5, <3>7 DEF UserState
    <3> QED BY <3>6, <3>8
  <2> QED BY <1>2, <2>1, <2>2, ProcessorUser, MemoryUser DEF Next, Program, CallStep
<1> QED BY <1>1, <1>2, ShapesAlways, UnbootedAlways, WaitsAlways, RegsAlways, PTL DEF Spec

\* From the moment the TLB was invalidated, the MMU off or in the middle of a switch, no
\* entry of an address space differs from what its table maps.
THEOREM TlbAlwaysCoherent == Spec => []TlbCoherent
<1>1. ASSUME Shapes, RegState, UserState PROVE TlbCoherent
  <2> SUFFICES ASSUME booted, "inv_tlb" \notin maint, \A i \in 1..Len(code) : code[i] # INV_TLB,
                      NEW e \in tlb, NEW t \in Made, e.tag \in {t, Global}
               PROVE  e.pte = Written(t, e.va)
    BY Codes DEF TlbCoherent, vm_lookup
  <2>1. ~Found(code, Len(code) + 1, {INV_TLB}, {})
    <3>1. \A j \in 1..(Len(code) + 1) - 1 : j \in 1..Len(code)
      BY LenProperties, <1>1 DEF Shapes
    <3> QED BY <3>1 DEF Found
  <2>2. KernelTlb /\ UserTlb
    BY <1>1, <2>1 DEF RegState, RegReady, Flushed, UserState, Coherent
  <2>3. t \in Table /\ Written(t, "kern") = KPte /\ t # Global
    BY <1>1 DEF Made, vm_lookup, RegState, Table, Global
  <2>4. e.va \in Va
    BY <1>1 DEF Shapes
  <2>5. CASE e.va = "kern"
    BY <2>2, <2>3, <2>5 DEF KernelTlb
  <2>6. CASE e.va = "user"
    BY <2>2, <2>3, <2>6 DEF UserTlb
  <2> QED BY <2>4, <2>5, <2>6 DEF Va
<1> QED BY <1>1, ShapesAlways, RegsAlways, UserAlways, PTL

----------------------------------------------------------------------------
(* The cache                                                               *)

NoJunk == \A p \in Pa : cache[p] # Junk
NoVal == \A p \in Pa : cache[p] \notin Val

\* Before the i-th instruction the cache was cleared of what power-up left in it ...
Cleared(i) == Found(code, i, {INV_DCACHE}, {}) \/ "inv" \in maint \/ NoJunk

\* ... and of what the program stored.
Cleaned(i) == Found(code, i, {CLEAN_INV_DCACHE}, {}) \/ "clean_inv" \in maint \/ NoVal

CacheRule(i) ==
    /\ code[i] \in {Set("mmu", 1), CLEAN_INV_DCACHE} => Cleared(i) /\ Done(i, "inv")
    /\ code[i] = Set("mmu", 0) => Cleaned(i) /\ Done(i, "clean_inv")
    /\ code[i] = INV_DCACHE => NoVal

CacheRules == \A i \in 1..Len(code) : CacheRule(i)

CacheState ==
    /\ Being("mmu", 1) \/ "clean_inv" \in maint => NoJunk
    /\ Being("mmu", 0) \/ "inv" \in maint => NoVal
    /\ booted => Cleared(Len(code) + 1)
    /\ \A p \in Pa \ CachedPa : cache[p] \notin Val

\* What the cache will be cleared of it is, once the instruction before is executed.
LEMMA ShiftCleared ==
    ASSUME Shapes, Processor, NEW i \in 1..Len(code)
    PROVE  /\ Cleared(i + 1) => Cleared(i)'
           /\ Cleaned(i + 1) => Cleaned(i)'
<1>1. /\ code # <<>> /\ code' = Tail(code) /\ code \in Seq(Instruction) /\ cache' = cache
      /\ maint \subseteq maint'
      /\ code[1] = INV_DCACHE => "inv" \in maint'
      /\ code[1] = CLEAN_INV_DCACHE => "clean_inv" \in maint'
  BY Executes, Codes DEF Shapes
<1>2. ASSUME Cleared(i + 1) PROVE Cleared(i)'
  <2>1. CASE Found(code, i + 1, {INV_DCACHE}, {})
    BY <1>1, <2>1, ShiftFound DEF Cleared
  <2>2. CASE "inv" \in maint \/ NoJunk
    BY <1>1, <2>2 DEF Cleared, NoJunk
  <2> QED BY <1>2, <2>1, <2>2 DEF Cleared
<1>3. ASSUME Cleaned(i + 1) PROVE Cleaned(i)'
  <2>1. CASE Found(code, i + 1, {CLEAN_INV_DCACHE}, {})
    BY <1>1, <2>1, ShiftFound DEF Cleaned
  <2>2. CASE "clean_inv" \in maint \/ NoVal
    BY <1>1, <2>2 DEF Cleaned, NoVal
  <2> QED BY <1>3, <2>1, <2>2 DEF Cleaned
<1> QED BY <1>2, <1>3

\* At the head of the code: what was started is complete.
LEMMA HeadCleared ==
    /\ Cleared(1) /\ Done(1, "inv") => NoJunk
    /\ Cleaned(1) /\ Done(1, "clean_inv") => NoVal
BY NoneBefore DEF Cleared, Cleaned, Done

\* Instructions keep the rules of the cache.
LEMMA ProcessorCache ==
    ASSUME Shapes, Waits, CacheRules, CacheState, Processor
    PROVE  CacheRules' /\ CacheState'
<1>0. /\ code # <<>> /\ code' = Tail(code) /\ code[1] \in Instruction
      /\ UNCHANGED <<booted, cache>>
      /\ maint' = IF code[1] \in Maintenance THEN maint \cup {code[1].op} ELSE maint
      /\ 1 \in 1..Len(code) /\ Len(code) \in 1..Len(code) /\ Len(code') + 1 = Len(code)
      /\ Len(code) \in Nat
  BY Executes, ShiftCode
<1>1. ASSUME NEW i \in 1..Len(code') PROVE CacheRule(i)'
  <2>1. code'[i] = code[i + 1] /\ i + 1 \in 1..Len(code) /\ i \in 1..Len(code)
    BY ShiftCode
  <2>2. CacheRule(i + 1)
    BY <2>1 DEF CacheRules
  <2>3. (Done(i + 1, "inv") => Done(i, "inv")') /\
        (Done(i + 1, "clean_inv") => Done(i, "clean_inv")')
    BY <2>1, ShiftDone DEF Operation
  <2>4. NoVal' <=> NoVal
    BY <1>0 DEF NoVal
  <2> QED BY <2>1, <2>2, <2>3, <2>4, ShiftCleared DEF CacheRule
<1>2. CacheRule(1)
  BY <1>0 DEF CacheRules
<1>3. Being("mmu", 1)' \/ "clean_inv" \in maint' => NoJunk'
  <2>1. code[1] = Set("mmu", 1) => NoJunk
    BY <1>2, HeadCleared DEF CacheRule
  <2>2. code[1] = CLEAN_INV_DCACHE => NoJunk
    BY <1>2, HeadCleared DEF CacheRule
  <2>3. "clean_inv" \in maint' => "clean_inv" \in maint \/ code[1] = CLEAN_INV_DCACHE
    BY <1>0, Kinds DEF CLEAN_INV_DCACHE
  <2>4. Being("mmu", 1)' => Being("mmu", 1) \/ code[1] = Set("mmu", 1)
    BY BeingStep DEF Register
  <2> QED BY <1>0, <2>1, <2>2, <2>3, <2>4 DEF CacheState, NoJunk
<1>4. Being("mmu", 0)' \/ "inv" \in maint' => NoVal'
  <2>1. code[1] = Set("mmu", 0) => NoVal
    BY <1>2, HeadCleared DEF CacheRule
  <2>2. code[1] = INV_DCACHE => NoVal
    BY <1>2 DEF CacheRule
  <2>3. "inv" \in maint' => "inv" \in maint \/ code[1] = INV_DCACHE
    BY <1>0, Kinds DEF INV_DCACHE
  <2>4. Being("mmu", 0)' => Being("mmu", 0) \/ code[1] = Set("mmu", 0)
    BY BeingStep DEF Register
  <2> QED BY <1>0, <2>1, <2>2, <2>3, <2>4 DEF CacheState, NoVal
<1>5. booted' => Cleared(Len(code) + 1)'
  <2> SUFFICES ASSUME booted, NEW n, n = Len(code) PROVE Cleared(n)'
    BY <1>0
  <2>1. Cleared(n + 1) /\ n \in 1..Len(code)
    BY <1>0 DEF CacheState
  <2> QED BY <2>1, ShiftCleared
<1> QED BY <1>0, <1>1, <1>3, <1>4, <1>5 DEF CacheRules, CacheState

\* Beside the processor lines only leave the cache.
LEMMA KeepCache ==
    ASSUME Shapes, Memory
    PROVE  /\ \A p \in Pa : cache'[p] \in {cache[p], "none"}
           /\ NoJunk => NoJunk'
           /\ NoVal => NoVal'
           /\ "inv" \in maint => "inv" \in maint' \/ NoJunk'
           /\ "clean_inv" \in maint => "clean_inv" \in maint' \/ NoVal'
<1>0. "none" # Junk /\ "none" \notin Val
  BY PageTableAssumption DEF Junk
<1>1. \A P : \A p \in Pa : Emptied(P)[p] \in {cache[p], "none"}
  BY DEF Emptied
<1>2. \A p \in Pa : Emptied(Pa)[p] = "none"
  BY DEF Emptied
<1>3. \A p \in Pa : cache'[p] \in {cache[p], "none"}
  BY <1>1 DEF Memory, Drain, Cp15Effect, Complete, CacheEvict, Walk, TlbEvict
<1>4. \A o \in maint : o \in maint' \/ o = "inv_tlb" \/ cache' = Emptied(Pa)
  <2>1. CASE Complete
    <3>1. PICK q \in maint : maint' = maint \ {q} /\ cache' = IF q = "inv_tlb" THEN cache
          ELSE Emptied(Pa)
      BY <2>1 DEF Complete
    <3> QED BY <3>1
  <2>2. CASE ~Complete
    BY <2>2 DEF Memory, Drain, Cp15Effect, CacheEvict, Walk, TlbEvict
  <2> QED BY <2>1, <2>2
<1>5. cache' = Emptied(Pa) => NoJunk' /\ NoVal'
  BY <1>0, <1>2 DEF NoJunk, NoVal
<1>6. (NoJunk => NoJunk') /\ (NoVal => NoVal')
  BY <1>0, <1>3 DEF NoJunk, NoVal
<1>7. "inv" \in maint => "inv" \in maint' \/ NoJunk'
  BY <1>4, <1>5
<1>8. "clean_inv" \in maint => "clean_inv" \in maint' \/ NoVal'
  BY <1>4, <1>5
<1> QED BY <1>3, <1>6, <1>7, <1>8

\* So the rules of the cache are kept.
LEMMA MemoryCache ==
    ASSUME Shapes, Waits, CacheRules, CacheState, Memory
    PROVE  CacheRules' /\ CacheState'
<1>0. UNCHANGED <<code, booted>> /\ maint' \subseteq maint
  BY MemoryIs
<1>1. \A i : (Cleared(i) => Cleared(i)') /\ (Cleaned(i) => Cleaned(i)')
  BY <1>0, KeepCache DEF Cleared, Cleaned
<1>2. \A i : (Done(i, "inv") => Done(i, "inv")') /\ (Done(i, "clean_inv") => Done(i, "clean_inv")')
  BY KeepWaits DEF Operation
<1>3. CacheRules'
  BY <1>0, <1>1, <1>2, KeepCache DEF CacheRules, CacheRule
<1>4. (Being("mmu", 1)' => Being("mmu", 1)) /\ (Being("mmu", 0)' => Being("mmu", 0))
  BY BeingStep DEF Register
<1>5. \A p \in Pa \ CachedPa : cache'[p] \notin Val
  BY KeepCache, PageTableAssumption DEF CacheState
<1>6. CacheState'
  BY <1>0, <1>1, <1>4, <1>5, KeepCache DEF CacheState
<1> QED BY <1>3, <1>6

\* vm_map_kernel empties the cache of what power-up left in it before anything is written
\* back and before the MMU is on.
LEMMA CacheAtBoot ==
    ASSUME Shapes, Waits, RegState, CacheState, Unbooted, CallStep, ~booted, NEW enable \in BOOLEAN,
           code' = Boot(enable)
    PROVE  CacheRules' /\ Cleared(Len(code) + 1)'
<1> DEFINE c == code'
<1>0. /\ UNCHANGED <<cache, maint>> /\ maint = {} /\ NoVal
  <2>1. Being("mmu", 0)
    BY DEF Unbooted, Being
  <2> QED BY <2>1, CallIs DEF CacheState
<1>1. /\ \A k \in 1..Len(c) : c[k] = INV_DCACHE <=> k = 1
      /\ \A k \in 1..Len(c) : c[k] = CLEAN_INV_DCACHE <=> k \in {14, 27}
      /\ \A k \in 1..Len(c) : c[k] \in Writes("mmu") <=> k \in {5, 32, 35}
      /\ c[5] = Set("mmu", 0) /\ c[1] = INV_DCACHE /\ c[3] = DSB
  <2>1. /\ \A k \in 1..Len(c) : c[k] = INV_DCACHE <=> k = 1
        /\ \A k \in 1..Len(c) : c[k] = CLEAN_INV_DCACHE <=> k \in {14, 27}
        /\ \A k \in 1..Len(c) : c[k] \in Writes("mmu") <=> k \in {5, 32, 35}
    BY BootFacts
  <2>2. c[5] = Set("mmu", 0) /\ c[1] = INV_DCACHE /\ c[3] = DSB
    BY BootHead
  <2> QED BY <2>1, <2>2
<1>2. enable => c[32] = Set("mmu", 1) /\ c[35] = Set("mmu", 1)
  BY BootEnable
<1>3. Len(c) \in {26, 36} /\ (Len(c) = 36 => enable)
  <2>1. Len(c) = IF enable THEN 36 ELSE 26
    BY BootFacts
  <2> QED BY <2>1
<1>4. /\ Set("mmu", 0) \in Writes("mmu") /\ Set("mmu", 1) \in Writes("mmu") /\
             Set("mmu", 0) # Set("mmu", 1)
  BY SetIs, SetInj DEF Writes
<1> HIDE DEF c
<1>5. ASSUME NEW i \in 6..Len(c)+1 PROVE Cleared(i)' /\ Done(i, "inv")'
  <2>1. 1 \in 1..i-1 /\ 3 \in 1..i-1 /\ (\A k \in 1+1..i-1 : c[k] \notin {})
        /\ \A k \in 3+1..i-1 : c[k] \notin {INV_DCACHE}
    BY <1>1, <1>3
  <2>2. Found(c, i, {INV_DCACHE}, {})
    BY <1>1, <2>1, FoundAt
  <2>3. Found(c, i, {DSB}, {INV_DCACHE})
    BY <1>1, <2>1, FoundAt
  <2> QED BY <2>2, <2>3 DEF Cleared, Done, INV_DCACHE, c
<1>6. ASSUME NEW i \in 1..Len(c) PROVE CacheRule(i)'
  <2>1. c[i] \in {Set("mmu", 1), CLEAN_INV_DCACHE} => i \in 6..Len(c)+1
    <3>1. c[i] = CLEAN_INV_DCACHE => i \in {14, 27}
      BY <1>1
    <3>2. c[i] = Set("mmu", 1) => i \in {32, 35}
      BY <1>1, <1>4
    <3>3. i \in {14, 27, 32, 35} => i \in 6..Len(c)+1
      BY <1>3
    <3> QED BY <3>1, <3>2, <3>3
  <2>2. ASSUME c[i] = Set("mmu", 0) PROVE Cleaned(i)' /\ Done(i, "clean_inv")'
    <3>1. i = 5
      <4>1. i \in {5, 32, 35}
        BY <1>1, <1>4, <2>2
      <4>2. i \in {32, 35} => enable
        <5>1. CASE Len(c) = 26
          BY <5>1
        <5>2. CASE Len(c) = 36
          BY <1>3, <5>2
        <5> QED BY <1>3, <5>1, <5>2
      <4> QED BY <1>2, <1>4, <2>2, <4>1, <4>2
    <3>2. Free(c, i, {CLEAN_INV_DCACHE})
      <4>1. \A k \in 1..4 : k \in 1..Len(c) /\ k \notin {14, 27}
        <5>1. CASE Len(c) = 26
          BY <5>1
        <5>2. CASE Len(c) = 36
          BY <5>2
        <5> QED BY <1>3, <5>1, <5>2
      <4>2. \A k \in 1..4 : c[k] # CLEAN_INV_DCACHE
        BY <1>1, <4>1
      <4> QED BY <3>1, <4>2 DEF Free
    <3> QED BY <1>0, <3>2 DEF Cleaned, NoVal, Done, CLEAN_INV_DCACHE, c
  <2>3. NoVal'
    BY <1>0 DEF NoVal
  <2> QED BY <1>5, <2>1, <2>2, <2>3 DEF CacheRule, c
<1>7. ASSUME NEW n, n = Len(c) + 1 PROVE Cleared(n)'
  <2>1. n \in 6..Len(c)+1
    <3>1. CASE Len(c) = 26
      BY <1>7, <3>1
    <3>2. CASE Len(c) = 36
      BY <1>7, <3>2
    <3> QED BY <1>3, <3>1, <3>2
  <2> QED BY <1>5, <2>1
<1> QED BY <1>6, <1>7 DEF CacheRules, c

\* Every call keeps the rules of the cache.
LEMMA CacheAtCall ==
    ASSUME Shapes, Waits, RegState, CacheState, Unbooted, CallStep
    PROVE  CacheRules' /\ CacheState'
<1> DEFINE c == code'
<1>0. /\ code = <<>> /\ UNCHANGED <<reg, pend, maint, cache>> /\ booted' = TRUE /\ Len(c) \in Nat
      /\ maint = {}
      /\ \A r, v : (Being(r, v)' <=> reg[r] = v) /\ (Being(r, v) <=> reg[r] = v)
  BY CallIs
<1>00. Made \subseteq Table /\ Len(code) + 1 = 1
  BY <1>0 DEF Made
<1>1. /\ Being("mmu", 1)' \/ "clean_inv" \in maint' => NoJunk'
      /\ Being("mmu", 0)' \/ "inv" \in maint' => NoVal'
      /\ \A p \in Pa \ CachedPa : cache'[p] \notin Val
  BY <1>0 DEF CacheState, NoJunk, NoVal
<1>2. CASE ~booted
  <2>1. CacheRules' /\ Cleared(Len(code) + 1)'
    BY <1>2, Calls, CacheAtBoot
  <2> QED BY <1>1, <2>1 DEF CacheState
<1>3. CASE booted
  <2>1. NoJunk'
    <3>1. Cleared(1)
      BY <1>00, <1>3 DEF CacheState
    <3>2. NoJunk
      BY <1>0, <3>1, NoneBefore DEF Cleared
    <3> QED BY <1>0, <3>2 DEF NoJunk
  <2>2. \A i : Cleared(i)'
    BY <2>1 DEF Cleared
  <2>3. \A k \in 1..Len(c) : c[k] # INV_DCACHE
    <3>1. CASE (\E t \in Made, p \in Pa : c = Mapping(t, p)) \/ c = mmu_disable
      <4>1. CASE \E t \in Made, p \in Pa : c = Mapping(t, p)
        BY <1>00, <4>1, MapFacts
      <4>2. CASE c = mmu_disable
        BY <4>2, DisableFacts
      <4> QED BY <3>1, <4>1, <4>2
    <3>2. CASE \E t \in Made, u \in Table \ Made : c = Copy(t, u)
      <4>1. \A k \in 1..Len(c) : c[k] \notin Maintenance
        BY <1>00, <3>2, CopyFacts
      <4> QED BY <4>1, Codes
    <3>3. CASE (\E t \in Made : c = cp15_set_procid_ttbr0(t)) \/ c = mmu_enable
      <4>1. \A k \in 1..Len(c) : c[k] \notin Maintenance
        BY <1>00, <3>3, SwitchFacts, EnableFacts
      <4> QED BY <4>1, Codes
    <3> QED BY <1>3, <3>1, <3>2, <3>3, CallWrites
  <2>4. \A i \in 1..Len(c) : Done(i, "inv")'
    <3> TAKE i \in 1..Len(c)
    <3>1. \A k \in 1..i-1 : k \in 1..Len(c)
      BY <1>0
    <3>2. Free(c, i, {INV_DCACHE})
      BY <2>3, <3>1 DEF Free
    <3> QED BY <1>0, <3>2 DEF Done, INV_DCACHE
  <2>5. ASSUME NEW i \in 1..Len(c), c[i] = Set("mmu", 0) PROVE Cleaned(i)' /\ Done(i, "clean_inv")'
    <3>0. Set("mmu", 0) \in Writes("mmu") /\ Set("mmu", 0) # Set("mmu", 1)
      BY SetIs, SetInj DEF Writes
    <3>1. c = mmu_disable
      <4>1. CASE (\E t \in Made, p \in Pa : c = Mapping(t, p)) \/
            \E t \in Made, u \in Table \ Made : c = Copy(t, u)
        <5>1. \A k \in 1..Len(c) : c[k] \notin Cp15Writes
          <6>1. CASE \E t \in Made, p \in Pa : c = Mapping(t, p)
            BY <1>00, <6>1, MapFacts
          <6>2. CASE \E t \in Made, u \in Table \ Made : c = Copy(t, u)
            BY <1>00, <6>2, CopyFacts
          <6> QED BY <4>1, <6>1, <6>2
        <5> QED BY <2>5, <3>0, <5>1 DEF Writes
      <4>2. CASE \E t \in Made : c = cp15_set_procid_ttbr0(t)
        <5>1. \A k \in 1..Len(c) : c[k] \notin Writes("client") \cup Writes("mmu")
          BY <1>00, <4>2, SwitchFacts
        <5> QED BY <2>5, <3>0, <5>1
      <4>3. CASE c = mmu_enable
        <5>1. Len(c) = 5 /\ c[1] = Set("mmu", 1) /\ c[4] = Set("mmu", 1)
              /\ \A k \in 1..5 : c[k] \in Writes("mmu") <=> k \in {1, 4}
          BY <4>3, EnableFacts
        <5> HIDE DEF c
        <5>2. i \in {1, 4}
          BY <2>5, <3>0, <5>1
        <5> QED BY <2>5, <3>0, <5>1, <5>2
      <4> QED BY <1>3, <4>1, <4>2, <4>3, CallWrites
    <3>2. /\ Len(c) = 9 /\ c[3] = DSB /\ c[2] = CLEAN_INV_DCACHE
          /\ \A k \in 1..9 : c[k] = CLEAN_INV_DCACHE <=> k = 2
          /\ \A k \in 1..9 : c[k] \in Writes("mmu") <=> k \in {4, 7}
      BY <3>1, DisableFacts
    <3> HIDE DEF c
    <3>3. i \in {4, 7}
      BY <2>5, <3>0, <3>2
    <3>4. 2 \in 1..i-1 /\ 3 \in 1..i-1 /\ (\A k \in 2+1..i-1 : c[k] \notin {})
          /\ \A k \in 3+1..i-1 : c[k] \notin {CLEAN_INV_DCACHE}
      BY <3>2, <3>3
    <3>5. Found(c, i, {CLEAN_INV_DCACHE}, {})
      BY <3>2, <3>4, FoundAt
    <3>6. Found(c, i, {DSB}, {CLEAN_INV_DCACHE})
      BY <3>2, <3>4, FoundAt
    <3> QED BY <3>5, <3>6 DEF Cleaned, Done, CLEAN_INV_DCACHE, c
  <2>6. CacheRules'
    BY <2>2, <2>3, <2>4, <2>5 DEF CacheRules, CacheRule
  <2> QED BY <1>1, <2>2, <2>6 DEF CacheState
<1> QED BY <1>2, <1>3

Typed == mem \in [Pa -> Val] /\ rd \in Val \cup {Junk}

\* When the program accesses memory, an access reaches what the table in force maps: every
\* register has its value, and no entry of the TLB differs from the table.
LEMMA ReachedIs ==
    ASSUME Shapes, Waits, RegState, UserState, Unbooted, code = <<>>
    PROVE  /\ \A r : Asked(r) = reg[r]
           /\ Reached \subseteq Pa
           /\ reg.mmu = 1 =>
                 /\ booted /\ reg.ttbr \in Table
                 /\ \A p \in Reached : p = Written(reg.ttbr, "user").pa
<1>1. \A r : Asked(r) = reg[r]
  <2> TAKE r
  <2>1. Now(r) = reg[r]
    BY Quiet
  <2>2. Latest(code, "set", r, Now(r)) = Now(r)
    <3>1. \A i \in 1..Len(code) : ~Concerns(code, "set", r, i)
      OBVIOUS
    <3> QED BY <3>1, LatestNone
  <2> QED BY <2>1, <2>2 DEF Asked, Now
<1>2. CASE reg.mmu # 1
  <2>1. ~mmu_is_enabled
    BY <1>1, <1>2 DEF mmu_is_enabled
  <2> QED BY <1>1, <1>2, <2>1 DEF Reached
<1>3. CASE reg.mmu = 1
  <2>1. mmu_is_enabled /\ Asked("ttbr") = reg.ttbr
    BY <1>1, <1>3 DEF mmu_is_enabled
  <2>2. booted
    BY <1>3 DEF Unbooted
  <2>3. Len(code) + 1 = 1 /\ pend = <<>> /\ maint = {} /\ \A r, v : Being(r, v) <=> reg[r] = v
    BY Quiet
  <2>4. PICK t \in Table : RegIs(1, "ttbr", t) /\ RegIs(1, "asid", t)
    BY <2>2, <2>3 DEF UserState, Switched
  <2>5. reg.ttbr = t /\ reg.asid = t
    <3>1. Settled(1)
      BY <2>3 DEF Waits
    <3> QED BY <2>4, <3>1, SettledReg
  <2>6. UserTlb
    BY <2>2, <2>3, NoneBefore DEF UserState, Coherent
  <2>7. \A k \in 1..Len(wbuf) : wbuf[k] \notin UserStores(t)
    <3>1. Purged(1, t)
      BY <2>3, <2>5 DEF UserState
    <3> QED BY <3>1, NoneBefore DEF Purged
  <2>8. InTable("user") = Written(t, "user")
    <3>1. \A k \in 1..Len(code) : code[k] \notin UserStores(t)
      OBVIOUS
    <3>2. Written(t, "user") = pt[t]["user"]
      BY <2>7, <3>1, InMemory
    <3> QED BY <2>5, <3>2 DEF InTable, Table
  <2>9. \A e \in Matching("user") : e.pte = Written(t, "user")
    BY <2>5, <2>6 DEF Matching, UserTlb
  <2>10. \A e \in Translations("user") : e = Written(t, "user")
    BY <2>8, <2>9 DEF Translations
  <2>11. Written(t, "user") \in {Fault} \cup {UPte(p) : p \in Pa}
    BY DEF UserState
  <2>12. \A p \in Pa : UPte(p).pa = p
    BY DEF UPte, Pte
  <2>13. \A p \in Reached : p = Written(t, "user").pa /\ Written(t, "user") # Fault
    BY <2>1, <2>5, <2>10 DEF Reached, vm_lookup
  <2> QED BY <1>1, <2>2, <2>5, <2>11, <2>12, <2>13
<1> QED BY <1>2, <1>3

\* A load or a store keeps the cache consistent: its entries are allocated with the MMU on,
\* for cached sections only, and hold values.
LEMMA AccessCache ==
    ASSUME Shapes, Unbooted, Waits, RegState, UserState, CacheRules, CacheState, Typed,
           Store \/ Load
    PROVE  CacheRules' /\ CacheState' /\ Typed'
<1>0. code = <<>> /\ UNCHANGED <<code, booted, reg, pend, maint>>
  BY DEF Store, Load
<1>1. Reached \subseteq Pa /\ (reg.mmu = 1 => booted)
  BY <1>0, ReachedIs
<1>2. /\ maint = {} /\ Len(code) + 1 = 1
      /\ \A r, v : (Being(r, v) <=> reg[r] = v) /\ (Being(r, v)' <=> reg[r] = v)
  <2>1. maint = {} /\ \A r, v : Being(r, v) <=> reg[r] = v
    BY <1>0, Quiet
  <2>2. \A r, v : Being(r, v)' <=> Being(r, v)
    BY <1>0 DEF Being
  <2> QED BY <1>0, <2>1, <2>2
<1>3. booted => NoJunk
  BY <1>2, NoneBefore DEF CacheState, Cleared
<1>4. PICK p \in Pa, v \in Val \cup {Junk} :
         /\ \/ UNCHANGED cache
            \/ Allocates(p) /\ v \in Val /\ cache' = [cache EXCEPT ![p] = v]
         /\ UNCHANGED mem \/ (v \in Val /\ mem' = [mem EXCEPT ![p] = v])
         /\ rd' = rd \/ rd' = v
  <2>1. CASE Store
    <3>1. PICK p \in Reached, v \in Val :
            \/ Hits(p) /\ cache' = [cache EXCEPT ![p] = v] /\ UNCHANGED mem
            \/ /\ ~Hits(p) /\ Allocates(p)
               /\ cache' = [cache EXCEPT ![p] = v] /\ UNCHANGED mem
            \/ /\ ~Hits(p) /\ ~Allocates(p) /\ p \in Pa
               /\ mem' = [mem EXCEPT ![p] = v] /\ UNCHANGED cache
      BY <2>1 DEF Store
    <3>2. Hits(p) => Allocates(p)
      BY DEF Hits, Allocates
    <3>3. p \in Pa /\ rd' = rd
      BY <1>1, <2>1 DEF Store
    <3> QED BY <3>1, <3>2, <3>3
  <2>2. CASE Load
    <3>1. PICK p \in Reached :
            IF p \notin Pa THEN rd' = p /\ UNCHANGED cache
            ELSE /\ rd' = IF Hits(p) THEN cache[p] ELSE mem[p]
                 /\ cache' = IF Allocates(p) THEN [cache EXCEPT ![p] = rd'] ELSE cache
      BY <2>2 DEF Load
    <3>2. p \in Pa /\ mem' = mem /\ mem[p] \in Val
      BY <1>1, <2>2 DEF Load, Typed
    <3>3. rd' \in Val
      <4>1. Hits(p) => cache[p] \in Val
        BY <1>1, <1>3, <3>2 DEF Hits, Shapes, NoJunk
      <4> QED BY <3>1, <3>2, <4>1
    <3> QED BY <3>1, <3>2, <3>3
  <2> QED BY <2>1, <2>2
<1>5. Typed'
  <2>1. mem' \in [Pa -> Val]
    BY <1>4 DEF Typed
  <2>2. rd' \in Val \cup {Junk}
    BY <1>4 DEF Typed
  <2> QED BY <2>1, <2>2 DEF Typed
<1>6. CacheRules'
  BY <1>0 DEF CacheRules
<1>7. NoJunk => NoJunk'
  <2> SUFFICES ASSUME NoJunk, NEW q \in Pa PROVE cache'[q] # Junk
    BY DEF NoJunk
  <2>1. cache'[q] = cache[q] \/ cache'[q] \in Val
    BY <1>4 DEF Shapes
  <2> QED BY <2>1, PageTableAssumption DEF NoJunk
<1>8. reg.mmu = 0 => cache' = cache
  BY <1>4 DEF Allocates
<1>9. \A q \in Pa \ CachedPa : cache'[q] = cache[q]
  <2> TAKE q \in Pa \ CachedPa
  <2>1. Allocates(p) => p # q
    BY DEF Allocates
  <2> QED BY <1>4, <2>1 DEF Shapes
<1>10. reg["mmu"] = 0 \/ reg["mmu"] = 1
  BY DEF Shapes
<1>11. /\ Being("mmu", 1)' \/ "clean_inv" \in maint' => NoJunk'
       /\ Being("mmu", 0)' \/ "inv" \in maint' => NoVal'
  BY <1>0, <1>2, <1>7, <1>8 DEF CacheState, NoVal
<1>12. booted' => Cleared(Len(code) + 1)'
  <2>1. booted => NoJunk'
    BY <1>3, <1>7
  <2> QED BY <1>0, <2>1 DEF Cleared
<1> QED BY <1>0, <1>5, <1>6, <1>9, <1>11, <1>12 DEF CacheState

\* No line of junk is written back.
LEMMA MemoryTyped ==
    ASSUME Shapes, Waits, CacheState, Typed, Memory
    PROVE  Typed'
<1>0. rd' = rd /\ CachedPa \subseteq Pa
  BY MemoryIs, PageTableAssumption
<1>1. \A P : NoJunk => WriteBack(P) \in [Pa -> Val]
  BY DEF WriteBack, NoJunk, Shapes, Typed
<1>2. CASE Complete
  <2>1. PICK o \in maint : mem' = mem \/ (o = "clean_inv" /\ mem' = WriteBack(Pa))
    BY <1>2 DEF Complete
  <2> QED BY <1>0, <1>1, <2>1 DEF Typed, CacheState
<1>3. CASE CacheEvict
  <2>1. reg["mmu"] = 1 /\ \E p \in Pa : mem' = WriteBack({p})
    BY <1>3 DEF CacheEvict
  <2> QED BY <1>0, <1>1, <2>1 DEF Typed, CacheState, Being
<1>4. CASE ~Complete /\ ~CacheEvict
  BY <1>0, <1>4 DEF Memory, Drain, Cp15Effect, Walk, TlbEvict, Typed
<1> QED BY <1>2, <1>3, <1>4

\* Every routine keeps the rules of the cache.
LEMMA CacheAlways == Spec => [](CacheRules /\ CacheState /\ Typed)
<1>1. Init => CacheRules /\ CacheState /\ Typed
  <2> SUFFICES ASSUME Init PROVE CacheRules /\ CacheState /\ Typed
    OBVIOUS
  <2>1. /\ code = <<>> /\ booted = FALSE /\ pend = <<>> /\ maint = {}
        /\ reg = [mmu |-> 0, ttbr |-> 0, asid |-> 0, client |-> 0]
    BY DEF Init
  <2>2. ~Being("mmu", 1)
    BY <2>1 DEF Being
  <2>3. \A p \in Pa : cache[p] \notin Val
    BY PageTableAssumption DEF Init
  <2>4. Typed
    BY DEF Init, Typed
  <2> QED BY <2>1, <2>2, <2>3, <2>4 DEF CacheRules, CacheState, NoVal
<1>2. ASSUME Shapes, Unbooted, Waits, RegState, UserState, CacheRules, CacheState, Typed,
      [Next]_vars
      PROVE  CacheRules' /\ CacheState' /\ Typed'
  <2>1. CASE CallStep
    <3>1. UNCHANGED <<mem, rd>>
      BY <1>2, <2>1, Calls
    <3> QED BY <1>2, <2>1, <3>1, CacheAtCall DEF Typed
  <2>2. CASE Store \/ Load
    BY <1>2, <2>2, AccessCache
  <2>3. CASE Processor
    <3>1. UNCHANGED <<mem, rd>>
      BY <1>2, <2>3, Executes
    <3> QED BY <1>2, <2>3, <3>1, ProcessorCache DEF Typed
  <2>4. CASE Memory
    BY <1>2, <2>4, MemoryCache, MemoryTyped
  <2>5. CASE UNCHANGED vars
    BY <1>2, <2>5 DEF vars, CacheRules, CacheRule, CacheState, Typed, Cleared, Cleaned, Done,
          NoJunk, NoVal, Being
  <2> QED BY <1>2, <2>1, <2>2, <2>3, <2>4, <2>5 DEF Next, Program, CallStep
<1> QED BY <1>1, <1>2, ShapesAlways, UnbootedAlways, WaitsAlways, RegsAlways, UserAlways,
      PTL DEF Spec

\* Memory holds values, and so does what a load returns: no line that power-up left in the
\* cache is ever read or written back.
THEOREM TypeCorrect == Spec => []TypeOK
<1>1. ASSUME Shapes, Typed PROVE TypeOK
  BY <1>1 DEF Shapes, Typed, TypeOK
<1> QED BY <1>1, ShapesAlways, CacheAlways, PTL

----------------------------------------------------------------------------
(* The address spaces                                                      *)

PhysOf(p) == IF cache[p] \in Val THEN cache[p] ELSE mem[p]

\* The address spaces are the same if every section, table and register is what it was.
LEMMA SpacesSame ==
    ASSUME UNCHANGED rd, \A p \in Pa : PhysOf(p)' = PhysOf(p),
           \A t \in Table : UserPa(t)' = UserPa(t), Made' = Made,
           Asked("ttbr")' = Asked("ttbr"), mmu_is_enabled' = mmu_is_enabled
    PROVE  UNCHANGED Spaces!vars
<1>1. Phys' = Phys
  BY DEF Phys, PhysOf
<1>2. [t \in Table |-> UserPa(t)]' = [t \in Table |-> UserPa(t)]
  OBVIOUS
<1> QED BY <1>1, <1>2, Zenon DEF Spaces!vars

\* With the MMU on every line holds a value, with the MMU off none does: whatever becomes of
\* a line, a section holds what the program stored last.
LEMMA MemoryPhys ==
    ASSUME Shapes, CacheState, Memory, NEW p \in Pa
    PROVE  PhysOf(p)' = PhysOf(p)
<1>0. "none" \notin Val /\ cache[p] \in Val \cup {"none", Junk}
  BY PageTableAssumption DEF Shapes
<1>1. CASE Complete
  <2>1. PICK o \in maint : /\ cache' = IF o = "inv_tlb" THEN cache ELSE Emptied(Pa)
                           /\ \/ o = "clean_inv" /\ mem' = WriteBack(Pa)
                              \/ o = "clean_inv" /\ reg.mmu = 0 /\ UNCHANGED mem
                              \/ o # "clean_inv" /\ UNCHANGED mem
    BY <1>1 DEF Complete
  <2>2. CASE o = "inv_tlb"
    BY <2>1, <2>2 DEF PhysOf
  <2>3. CASE NoVal /\ UNCHANGED mem /\ cache' = Emptied(Pa)
    BY <1>0, <2>3 DEF PhysOf, NoVal, Emptied
  <2>4. CASE NoJunk /\ mem' = WriteBack(Pa) /\ cache' = Emptied(Pa)
    BY <1>0, <2>4 DEF PhysOf, NoJunk, Emptied, WriteBack
  <2>5. o \in {"inv_tlb", "inv", "clean_inv"}
    BY DEF Shapes
  <2> QED BY <2>1, <2>2, <2>3, <2>4, <2>5 DEF CacheState, Being
<1>2. CASE CacheEvict
  <2>1. PICK q \in Pa : cache[q] # "none" /\ mem' = WriteBack({q}) /\ cache' = Emptied({q})
    BY <1>2 DEF CacheEvict
  <2>2. NoJunk
    <3>1. reg["mmu"] = 1
      BY <1>2 DEF CacheEvict
    <3> QED BY <3>1 DEF CacheState, Being
  <2> QED BY <1>0, <2>1, <2>2 DEF PhysOf, NoJunk, Emptied, WriteBack
<1>3. CASE ~Complete /\ ~CacheEvict
  BY <1>3 DEF Memory, Drain, Cp15Effect, Walk, TlbEvict, PhysOf
<1> QED BY <1>1, <1>2, <1>3

\* The hardware changes nothing the program can tell.
LEMMA HardwareSpaces ==
    ASSUME Shapes, Waits, CacheState, Processor \/ Memory
    PROVE  UNCHANGED Spaces!vars
<1>1. \A t \in Table : UserPa(t)' = UserPa(t)
  BY KeepUserWritten DEF UserPa, vm_lookup
<1>2. \A p \in Pa : PhysOf(p)' = PhysOf(p)
  <2>1. CASE Processor
    BY <2>1, Executes DEF PhysOf
  <2> QED BY <2>1, MemoryPhys
<1>3. Asked("ttbr")' = Asked("ttbr") /\ Asked("mmu")' = Asked("mmu")
  BY KeepAsked DEF Register
<1>4. rd' = rd
  BY Executes, MemoryIs
<1>5. mmu_is_enabled' = mmu_is_enabled
  BY <1>3 DEF mmu_is_enabled
<1> QED BY <1>1, <1>2, <1>3, <1>4, <1>5, KeepMade, SpacesSame

\* A load or a store reaches the section that the current table maps, and reads or writes
\* what that section holds.
LEMMA AccessSpaces ==
    ASSUME Shapes, Unbooted, Waits, RegState, UserState, CacheState, Typed, Store \/ Load
    PROVE  Spaces!Next
<1>0. code = <<>> /\ UNCHANGED <<code, booted, pt, wbuf, reg, pend>>
  BY DEF Store, Load
<1>1. Reached \subseteq Pa
      /\ \A p \in Reached : mmu_is_enabled => Asked("ttbr") \in Table /\ p = UserPa(Asked("ttbr"))
  <2>1. mmu_is_enabled => reg.mmu = 1
    BY <1>0, ReachedIs DEF mmu_is_enabled
  <2> QED BY <1>0, <2>1, ReachedIs DEF UserPa, vm_lookup
<1>2. /\ \A t \in Table : UserPa(t)' = UserPa(t)
      /\ Made' = Made /\ Asked("ttbr")' = Asked("ttbr") /\ mmu_is_enabled' = mmu_is_enabled
  BY <1>0 DEF UserPa, Made, vm_lookup, Written, Asked, mmu_is_enabled
<1>3. ASSUME NEW p \in Pa, ~Hits(p)
      PROVE  cache[p] \notin Val
  <2>1. reg["mmu"] = 0 => NoVal
    BY DEF CacheState, Being
  <2>2. reg["mmu"] \in {0, 1}
    BY DEF Shapes
  <2> QED BY <1>3, <2>1, <2>2, PageTableAssumption DEF Hits, NoVal, CacheState
<1>4. ASSUME NEW p \in Pa, Hits(p)
      PROVE  cache[p] \in Val
  <2>1. NoJunk
    BY <1>4 DEF Hits, CacheState, Being
  <2> QED BY <1>4, <2>1 DEF Hits, NoJunk, Shapes
<1>5. [t \in Table |-> UserPa(t)]' = [t \in Table |-> UserPa(t)]
  BY <1>2
<1>6. ASSUME NEW p \in Reached, Spaces!Reaches(p) =>
      Spaces!Load(p) \/ \E v \in Val : Spaces!Store(p, v)
      PROVE  Spaces!Next
  <2>1. Spaces!Reaches(p) /\ p \in Pa
    <3>1. mmu_is_enabled => p = [t \in Table |-> UserPa(t)][Asked("ttbr")]
      BY <1>1
    <3> QED BY <1>1, <3>1, Zenon DEF Spaces!Reaches
  <2> QED BY <1>6, <2>1 DEF Spaces!Next
<1>7. CASE Store
  <2>1. PICK p \in Reached, v \in Val :
            \/ Hits(p) /\ cache' = [cache EXCEPT ![p] = v] /\ UNCHANGED mem
            \/ /\ ~Hits(p) /\ Allocates(p)
               /\ cache' = [cache EXCEPT ![p] = v] /\ UNCHANGED mem
            \/ /\ ~Hits(p) /\ ~Allocates(p) /\ p \in Pa
               /\ mem' = [mem EXCEPT ![p] = v] /\ UNCHANGED cache
    BY <1>7 DEF Store
  <2>2. \A q \in Pa : PhysOf(q)' = IF q = p THEN v ELSE PhysOf(q)
    <3>1. CASE cache' = [cache EXCEPT ![p] = v] /\ UNCHANGED mem
      BY <1>1, <3>1 DEF PhysOf, Shapes
    <3>2. CASE ~Hits(p) /\ mem' = [mem EXCEPT ![p] = v] /\ UNCHANGED cache
      BY <1>1, <1>3, <3>2 DEF PhysOf, Typed
    <3> QED BY <2>1, <3>1, <3>2
  <2>3. Phys' = [Phys EXCEPT ![p] = v]
    BY <2>2 DEF Phys, PhysOf
  <2>4. rd' = rd
    BY <1>7 DEF Store
  <2>5. Spaces!Reaches(p) => Spaces!Store(p, v)
    BY <1>2, <1>5, <2>3, <2>4, Zenon DEF Spaces!Store
  <2> QED BY <1>6, <2>5
<1>8. CASE Load
  <2>1. PICK p \in Reached :
            IF p \notin Pa THEN rd' = p /\ UNCHANGED cache
            ELSE /\ rd' = IF Hits(p) THEN cache[p] ELSE mem[p]
                 /\ cache' = IF Allocates(p) THEN [cache EXCEPT ![p] = rd'] ELSE cache
    BY <1>8 DEF Load
  <2>2. p \in Pa /\ mem' = mem
    BY <1>1, <1>8 DEF Load
  <2>3. rd' = PhysOf(p) /\ rd' \in Val
    BY <1>3, <1>4, <2>1, <2>2 DEF PhysOf, Typed
  <2>4. \A q \in Pa : PhysOf(q)' = PhysOf(q)
    <3>1. \A q \in Pa : cache'[q] = cache[q] \/ (q = p /\ cache'[q] = rd')
      BY <2>1, <2>2 DEF Shapes
    <3> QED BY <2>2, <2>3, <3>1 DEF PhysOf
  <2>5. Phys' = Phys /\ rd' = Phys[p]
    BY <2>2, <2>3, <2>4 DEF Phys, PhysOf
  <2>6. Spaces!Reaches(p) => Spaces!Load(p)
    BY <1>2, <1>5, <2>5, Zenon DEF Spaces!Load
  <2> QED BY <1>6, <2>6
<1> QED BY <1>7, <1>8

----------------------------------------------------------------------------

\* A register is given the value of the last write to it, if the routine has one.
LEMMA LatestSet ==
    ASSUME NEW c \in Seq(Instruction), NEW r \in Register, NEW now
    PROVE  /\ (\A k \in 1..Len(c) : c[k] \notin Writes(r)) => Latest(c, "set", r, now) = now
           /\ \A i \in 1..Len(c), v \in Table \cup {0} :
                 c[i] = Set(r, v) /\ (\A k \in i+1..Len(c) : c[k] \notin Writes(r))
                    => Latest(c, "set", r, now) = v
<1>1. \A k \in 1..Len(c) : Concerns(c, "set", r, k) => c[k] \in Writes(r)
  <2> TAKE k \in 1..Len(c)
  <2>1. c[k] \in Instruction
    BY ElementOfSeq
  <2> QED BY <2>1, Kinds DEF Concerns, Writes
<1>2. (\A k \in 1..Len(c) : c[k] \notin Writes(r)) => Latest(c, "set", r, now) = now
  BY <1>1, LatestNone
<1>3. ASSUME NEW i \in 1..Len(c), NEW v, c[i] = Set(r, v),
      \A k \in i+1..Len(c) : c[k] \notin Writes(r)
      PROVE  Latest(c, "set", r, now) = v
  <2>1. c[i].op = "set" /\ c[i].to = r /\ c[i].val = v
    BY <1>3 DEF Set
  <2>2. \A k \in i+1..Len(c) : k \in 1..Len(c)
    OBVIOUS
  <2>3. \A k \in i+1..Len(c) : ~Concerns(c, "set", r, k)
    BY <1>1, <1>3, <2>2
  <2>4. Concerns(c, "set", r, i)
    BY <2>1 DEF Concerns
  <2> QED BY <2>1, <2>3, <2>4, LatestIs
<1> QED BY <1>2, <1>3

\* What each call asks of the registers: vm_map_kernel and vm_mmu_switch the table, and
\* vm_mmu_enable and vm_mmu_disable the MMU.
LEMMA AskedAtCall ==
    ASSUME Shapes, Unbooted, Waits, RegState, UserState, CallStep
    PROVE  /\ \A enable \in BOOLEAN : code' = Boot(enable) => Asked("ttbr")' = 1
           /\ \A t \in Table : code' = cp15_set_procid_ttbr0(t) => Asked("ttbr")' = t
           /\ (\E t \in Made, p \in Pa : code' = Mapping(t, p)) \/
                  (\E t \in Made, u \in Table \ Made : code' = Copy(t, u)) =>
                 Asked("ttbr")' = Asked("ttbr") /\ Asked("mmu")' = Asked("mmu")
           /\ code' \in {mmu_enable, mmu_disable} => Asked("ttbr")' = Asked("ttbr")
           /\ (\E t \in Made : code' = cp15_set_procid_ttbr0(t)) => Asked("mmu")' = Asked("mmu")
           /\ code' = mmu_enable => Asked("mmu")' = 1
           /\ code' = mmu_disable => Asked("mmu")' = 0
<1> DEFINE c == code'
<1>0. /\ code = <<>> /\ c \in Seq(Instruction) /\ Len(c) \in Nat /\ Made \subseteq Table
      /\ \A r : Now(r)' = reg[r]
  BY CallIs DEF Made
<1>1. \A r : Asked(r) = reg[r]
  BY <1>0, ReachedIs
<1>2. \A r : Asked(r)' = Latest(c, "set", r, reg[r])
  BY <1>0 DEF Asked, Now
<1> HIDE DEF c
<1>3. \A r \in Register : (\A k \in 1..Len(c) : c[k] \notin Writes(r)) => Asked(r)' = Asked(r)
  BY <1>0, <1>1, <1>2, LatestSet
<1>4. \A r \in Register : \A i \in 1..Len(c), v \in Table \cup {0} :
         c[i] = Set(r, v) /\ (\A k \in i+1..Len(c) : c[k] \notin Writes(r)) => Asked(r)' = v
  BY <1>0, <1>2, LatestSet
<1>5. "ttbr" \in Register /\ "mmu" \in Register /\ 0 \in Table \cup {0} /\ 1 \in Table \cup {0}
  BY DEF Register, Table
<1>6. ASSUME NEW enable \in BOOLEAN, c = Boot(enable) PROVE Asked("ttbr")' = 1
  <2>1. Len(c) = IF enable THEN 36 ELSE 26
    BY <1>6, BootFacts
  <2>2. \A k \in 1..Len(c) : c[k] \in Writes("ttbr") <=> k = 22
    BY <1>6, BootFacts
  <2>3. c[22] = Set("ttbr", 1)
    BY <1>6, BootHead
  <2>4. 22 \in 1..Len(c) /\ \A k \in 22+1..Len(c) : k \in 1..Len(c) /\ k # 22
    <3>1. CASE Len(c) = 26
      BY <3>1
    <3>2. CASE Len(c) = 36
      BY <3>2
    <3> QED BY <2>1, <3>1, <3>2
  <2> QED BY <1>4, <1>5, <2>2, <2>3, <2>4
<1>7. ASSUME NEW t \in Table, c = cp15_set_procid_ttbr0(t)
      PROVE  Asked("ttbr")' = t /\ Asked("mmu")' = Asked("mmu")
  <2>1. Len(c) = 8 /\ c[4] = Set("ttbr", t)
    BY <1>7, SwitchFacts
  <2>2. \A k \in 1..8 : c[k] \in Writes("ttbr") <=> k = 4
    BY <1>7, SwitchFacts
  <2>3. \A k \in 1..8 : c[k] \notin Writes("mmu")
    BY <1>7, SwitchFacts
  <2>4. 4 \in 1..Len(c) /\ \A k \in 4+1..Len(c) : k \in 1..8 /\ k # 4
    BY <2>1
  <2>5. Asked("ttbr")' = t
    BY <1>4, <1>5, <2>1, <2>2, <2>4
  <2> QED BY <1>3, <1>5, <2>1, <2>3, <2>5
<1>8. ASSUME \A k \in 1..Len(c) : c[k] \notin Cp15Writes
      PROVE  Asked("ttbr")' = Asked("ttbr") /\ Asked("mmu")' = Asked("mmu")
  BY <1>3, <1>5, <1>8 DEF Writes
<1>9. ASSUME NEW t \in Table, NEW p \in Pa, c = Mapping(t, p)
      PROVE  \A k \in 1..Len(c) : c[k] \notin Cp15Writes
  BY <1>9, MapFacts
<1>10. ASSUME NEW t \in Table, NEW u \in Table, c = Copy(t, u)
       PROVE  \A k \in 1..Len(c) : c[k] \notin Cp15Writes
  BY <1>10, CopyFacts
<1>11. ASSUME c = mmu_enable PROVE Asked("ttbr")' = Asked("ttbr") /\ Asked("mmu")' = 1
  <2>1. Len(c) = 5 /\ c[4] = Set("mmu", 1)
        /\ (\A k \in 1..5 : c[k] \in Writes("mmu") <=> k \in {1, 4})
        /\ (\A k \in 1..5 : c[k] \notin Writes("ttbr"))
    BY <1>11, EnableFacts
  <2>2. 4 \in 1..Len(c) /\ \A k \in 4+1..Len(c) : c[k] \notin Writes("mmu")
    BY <2>1
  <2> QED BY <1>3, <1>4, <1>5, <2>1, <2>2
<1>12. ASSUME c = mmu_disable PROVE Asked("ttbr")' = Asked("ttbr") /\ Asked("mmu")' = 0
  <2>1. Len(c) = 9 /\ c[7] = Set("mmu", 0)
        /\ (\A k \in 1..9 : c[k] \in Writes("mmu") <=> k \in {4, 7})
        /\ (\A k \in 1..9 : c[k] \notin Writes("ttbr"))
    BY <1>12, DisableFacts
  <2>2. 7 \in 1..Len(c) /\ \A k \in 7+1..Len(c) : c[k] \notin Writes("mmu")
    BY <2>1
  <2> QED BY <1>3, <1>4, <1>5, <2>1, <2>2
<1> QED BY <1>0, <1>6, <1>7, <1>8, <1>9, <1>10, <1>11, <1>12 DEF c

\* Every call does what the address spaces promise of it, at once.
LEMMA CallSpaces ==
    ASSUME Shapes, Unbooted, Waits, RegState, UserState, CallStep
    PROVE  Spaces!Next
<1>0. /\ code = <<>> /\ UNCHANGED <<cache, mem, rd>> /\ Made \subseteq Table
      /\ KPte # Fault /\ 1 \in Table
  BY CallIs DEF Made, KPte, Pte, Fault, Kernel, Table
<1>1. Phys' = Phys
  BY <1>0 DEF Phys
<1>2. (\A t \in Table : UserPa(t)' = UserPa(t)) =>
         [t \in Table |-> UserPa(t)]' = [t \in Table |-> UserPa(t)]
  OBVIOUS
<1>3. (\A t \in Table : Written(t, "kern")' = Written(t, "kern")) => Made' = Made
  BY DEF Made, vm_lookup
<1>4. Asked("mmu")' = Asked("mmu") => mmu_is_enabled' = mmu_is_enabled
  BY DEF mmu_is_enabled
<1>5. ASSUME ~booted, NEW enable \in BOOLEAN, code' = Boot(enable) PROVE Spaces!Next
  <2>1. Made = {}
    <3> SUFFICES ASSUME NEW t \in Table PROVE Written(t, "kern") = Fault
      BY DEF Made, vm_lookup
    <3>1. \A k \in 1..Len(code) : ~Concerns(code, "pte", <<t, "kern">>, k)
      BY <1>0
    <3>2. \A k \in 1..Len(wbuf) : ~Concerns(wbuf, "pte", <<t, "kern">>, k)
      BY <1>5 DEF Unbooted
    <3>3. pt[t]["kern"] = Fault
      BY <1>5 DEF Unbooted, Va
    <3> QED BY <3>1, <3>2, <3>3, LatestNone DEF Written
  <2>2. Made' = {1}
    <3>1. \A t \in Table : Written(t, "kern")' = IF t = 1 THEN KPte ELSE Written(t, "kern")
      BY <1>5, MadeAtCall
    <3>2. \A t \in Table : Written(t, "kern") = Fault
      BY <2>1 DEF Made, vm_lookup
    <3> QED BY <1>0, <3>1, <3>2 DEF Made, vm_lookup
  <2>3. [t \in Table |-> UserPa(t)]' = [t \in Table |-> UserPa(t)]
    <3>1. \A t \in Table : Written(t, "user")' = Written(t, "user")
      BY <1>5, UserWrittenAtCall
    <3> QED BY <1>2, <3>1 DEF UserPa, vm_lookup
  <2>4. Asked("ttbr")' = 1
    BY <1>5, AskedAtCall
  <2>5. mmu_is_enabled' \in BOOLEAN
    BY DEF mmu_is_enabled
  <2>6. Spaces!MapKernel(1)
    BY <1>0, <1>1, <2>1, <2>2, <2>3, <2>4, <2>5, Zenon DEF Spaces!MapKernel
  <2> QED BY <1>0, <2>6 DEF Spaces!Next
<1>6. ASSUME NEW t \in Made, NEW p \in Pa, code' = Mapping(t, p) PROVE Spaces!Next
  <2>1. \A s \in Table : UserPa(s)' = IF s = t THEN p ELSE UserPa(s)
    <3>1. \A s \in Table : Written(s, "user")' = IF s = t THEN UPte(p) ELSE Written(s, "user")
      BY <1>0, <1>6, UserWrittenAtCall
    <3>2. UPte(p).pa = p
      BY DEF UPte, Pte
    <3> QED BY <3>1, <3>2 DEF UserPa, vm_lookup
  <2>2. [s \in Table |-> UserPa(s)]' = [[s \in Table |-> UserPa(s)] EXCEPT ![t] = p]
    BY <2>1
  <2>3. Made' = Made
    <3>1. \A s \in Table : Written(s, "kern")' = Written(s, "kern")
      BY <1>0, <1>6, MadeAtCall
    <3> QED BY <1>3, <3>1
  <2>4. Asked("ttbr")' = Asked("ttbr") /\ Asked("mmu")' = Asked("mmu")
    BY <1>6, AskedAtCall
  <2>5. Spaces!Map(t, p)
    BY <1>0, <1>1, <1>4, <2>2, <2>3, <2>4, Zenon DEF Spaces!Map
  <2> QED BY <1>0, <2>5 DEF Spaces!Next
<1>7. ASSUME NEW t \in Made, NEW u \in Table \ Made, code' = Copy(t, u) PROVE Spaces!Next
  <2>1. \A s \in Table : UserPa(s)' = IF s = u THEN UserPa(t) ELSE UserPa(s)
    <3>1. \A s \in Table : Written(s, "user")' = IF s = u THEN Written(t, "user")
          ELSE Written(s, "user")
      BY <1>0, <1>7, UserWrittenAtCall
    <3> QED BY <3>1 DEF UserPa, vm_lookup
  <2>2. [s \in Table |-> UserPa(s)]' = [[s \in Table |-> UserPa(s)] EXCEPT ![u] = UserPa(t)]
    BY <2>1
  <2>3. UserPa(t) = [s \in Table |-> UserPa(s)][t]
    BY <1>0
  <2>4. Made' = Made \cup {u}
    <3>1. \A s \in Table : Written(s, "kern")' = IF s = u THEN Written(t, "kern")
          ELSE Written(s, "kern")
      BY <1>0, <1>7, MadeAtCall
    <3> QED BY <3>1 DEF Made, vm_lookup
  <2>5. Asked("ttbr")' = Asked("ttbr") /\ Asked("mmu")' = Asked("mmu")
    BY <1>7, AskedAtCall
  <2>6. Spaces!Dup(t, u)
    BY <1>0, <1>1, <1>4, <2>2, <2>3, <2>4, <2>5, Zenon DEF Spaces!Dup
  <2> QED BY <1>0, <2>6 DEF Spaces!Next
<1>8. ASSUME (\E t \in Made : code' = cp15_set_procid_ttbr0(t)) \/
      code' \in {mmu_enable, mmu_disable}
      PROVE  [t \in Table |-> UserPa(t)]' = [t \in Table |-> UserPa(t)] /\ Made' = Made
  <2>1. \A t \in Table : Written(t, "user")' = Written(t, "user")
    BY <1>0, <1>8, UserWrittenAtCall
  <2>2. \A t \in Table : Written(t, "kern")' = Written(t, "kern")
    BY <1>0, <1>8, MadeAtCall
  <2> QED BY <1>2, <1>3, <2>1, <2>2 DEF UserPa, vm_lookup
<1>9. ASSUME NEW t \in Made, code' = cp15_set_procid_ttbr0(t) PROVE Spaces!Next
  <2>1. Asked("ttbr")' = t /\ Asked("mmu")' = Asked("mmu")
    BY <1>0, <1>9, AskedAtCall
  <2>2. Spaces!Switch(t)
    BY <1>0, <1>1, <1>4, <1>8, <1>9, <2>1, Zenon DEF Spaces!Switch
  <2> QED BY <1>0, <2>2 DEF Spaces!Next
<1>10. ASSUME booted, NEW on \in BOOLEAN, code' \in {mmu_enable, mmu_disable}, mmu_is_enabled' = on
       PROVE  Spaces!Next
  <2>1. Asked("ttbr")' = Asked("ttbr")
    BY <1>10, AskedAtCall
  <2>2. Made # {}
    <3>1. reg["ttbr"] \in Table
      BY <1>10, CallIs
    <3> QED BY <3>1, InUseMade DEF Being
  <2>3. Spaces!Turn(on)
    BY <1>0, <1>1, <1>8, <1>10, <2>1, <2>2, Zenon DEF Spaces!Turn
  <2> QED BY <2>3 DEF Spaces!Next
<1>11. ASSUME booted, code' = mmu_enable PROVE Spaces!Next
  <2>1. Asked("mmu")' = 1
    BY <1>11, AskedAtCall
  <2>2. mmu_is_enabled' = TRUE
    BY <2>1 DEF mmu_is_enabled
  <2> QED BY <1>10, <1>11, <2>2
<1>12. ASSUME booted, code' = mmu_disable PROVE Spaces!Next
  <2>1. Asked("mmu")' = 0
    BY <1>12, AskedAtCall
  <2>2. mmu_is_enabled' = FALSE
    BY <2>1 DEF mmu_is_enabled
  <2> QED BY <1>10, <1>12, <2>2
<1> QED BY <1>5, <1>6, <1>7, <1>9, <1>11, <1>12, Calls

\* The hardware under these routines implements address spaces that are in force from the
\* moment a routine is called: through the TLB, the cache and the write buffer, every load
\* returns what was stored last in the section that the current table maps.
THEOREM SpacesImplemented == Spec => ImplementsSpaces
<1>1. Init => Spaces!Init
  <2> SUFFICES ASSUME Init PROVE Spaces!Init
    OBVIOUS
  <2>1. code = <<>> /\ wbuf = <<>> /\ pend = <<>> /\ rd = Junk
        /\ reg = [mmu |-> 0, ttbr |-> 0, asid |-> 0, client |-> 0]
    BY DEF Init
  <2>2. \A t \in Table, va \in Va : Written(t, va) = Fault
    <3> TAKE t \in Table, va \in Va
    <3>1. \A k \in 1..Len(code) : ~Concerns(code, "pte", <<t, va>>, k)
      BY <2>1
    <3>2. \A k \in 1..Len(wbuf) : ~Concerns(wbuf, "pte", <<t, va>>, k)
      BY <2>1
    <3>3. pt[t][va] = Fault
      BY DEF Init
    <3> QED BY <3>1, <3>2, <3>3, LatestNone DEF Written
  <2>3. Made = {}
    BY <2>2 DEF Made, vm_lookup, Va
  <2>4. [t \in Table |-> UserPa(t)] = [t \in Table |-> "none"]
    BY <2>2 DEF UserPa, vm_lookup, Va, Fault
  <2>5. \A r : Asked(r) = reg[r]
    <3> TAKE r
    <3>1. \A k \in 1..Len(pend) : ~Concerns(pend, "set", r, k)
      BY <2>1
    <3>2. Latest(pend, "set", r, reg[r]) = reg[r]
      BY <3>1, LatestNone
    <3>3. \A k \in 1..Len(code) : ~Concerns(code, "set", r, k)
      BY <2>1
    <3> QED BY <3>2, <3>3, LatestNone DEF Asked
  <2>6. Asked("ttbr") = 0 /\ mmu_is_enabled = FALSE
    BY <2>1, <2>5 DEF mmu_is_enabled
  <2>7. Phys \in [Pa -> Val]
    BY DEF Init, Phys
  <2> QED BY <2>1, <2>3, <2>4, <2>6, <2>7, Zenon DEF Spaces!Init
<1>2. ASSUME Shapes, Unbooted, Waits, RegState, UserState, CacheState, Typed, [Next]_vars
      PROVE  [Spaces!Next]_Spaces!vars
  <2>1. CASE CallStep
    BY <1>2, <2>1, CallSpaces
  <2>2. CASE Store \/ Load
    BY <1>2, <2>2, AccessSpaces
  <2>3. CASE Processor \/ Memory
    BY <1>2, <2>3, HardwareSpaces
  <2>4. CASE UNCHANGED vars
    <3>1. UNCHANGED <<code, pt, wbuf, reg, pend, cache, mem, rd>>
      BY <2>4 DEF vars
    <3>2. \A t \in Table : UserPa(t)' = UserPa(t)
      BY <3>1 DEF UserPa, vm_lookup, Written
    <3>3. \A p \in Pa : PhysOf(p)' = PhysOf(p)
      BY <3>1 DEF PhysOf
    <3>4. Made' = Made /\ Asked("ttbr")' = Asked("ttbr") /\ mmu_is_enabled' = mmu_is_enabled
      BY <3>1 DEF Made, vm_lookup, Written, Asked, mmu_is_enabled
    <3> QED BY <3>1, <3>2, <3>3, <3>4, SpacesSame
  <2> QED BY <1>2, <2>1, <2>2, <2>3, <2>4 DEF Next, Program, CallStep
<1> QED BY <1>1, <1>2, ShapesAlways, UnbootedAlways, WaitsAlways, RegsAlways, UserAlways,
      CacheAlways,
      PTL DEF Spec, ImplementsSpaces, Spaces!Spec
=============================================================================
