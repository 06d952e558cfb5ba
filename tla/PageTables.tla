----------------------------- MODULE PageTables -----------------------------
(***************************************************************************)
(* labs/17-vm-page-table/code/pt-vm.c over labs/15-vm-coherence/code: one  *)
(* section of user memory in two address spaces, with the coprocessor      *)
(* instructions by which the software keeps the TLB, the data cache and    *)
(* the page tables coherent.                                               *)
(*                                                                         *)
(* A routine is the sequence of the instructions in it that the hardware   *)
(* can tell apart.  An instruction only starts something: stores to a      *)
(* table wait in the write buffer, maintenance of the TLB and the cache    *)
(* completes, and writes to cp15 take effect, at any later time, up to the *)
(* DSB or the prefetch flush that waits for them.  In between the TLB      *)
(* loads and drops entries as it likes.  Instruction cache and branch      *)
(* predictor are left out: no code is ever modified.                       *)
(***************************************************************************)
EXTENDS Integers, SequencesExt

CONSTANTS
    Pa,         \* sections the user address may be mapped to
    CachedPa,   \* those that are mapped write back (the others uncached)
    Val         \* what a section may hold


Table == {1, 2}             \* table t is used with ASID t
Global == 3                 \* the tag of a TLB entry that matches every ASID
Kernel == "kernel"          \* the section of code, stack and page tables, at 0
Va == {"kern", "user"}
Fault == [pa |-> "none", nG |-> FALSE]          \* pte->tag is not 0b10
Pte(pa, g) == [pa |-> pa, nG |-> ~g]
Junk == "junk"              \* what the cache holds after power-up

ASSUME PageTableAssumption == CachedPa \subseteq Pa /\ "none" \notin Val /\ Junk \notin Val

VARIABLES
    code,       \* the instructions left of the routine being executed
    booted,     \* vm_map_kernel was called
    pt,         \* the page tables, in memory
    wbuf,       \* stores to them in the write buffer
    reg, pend,  \* cp15 registers, and the writes to them not in effect
    maint,      \* maintenance operations not complete
    tlb, cache, mem,
    rd          \* what the last load returned

vars == <<code, booted, pt, wbuf, reg, pend, maint, tlb, cache, mem, rd>>

----------------------------------------------------------------------------
(* Instructions and routines                                               *)

DSB == [op |-> "dsb"]
PREFETCH_FLUSH == [op |-> "flush"]
INV_TLB == [op |-> "inv_tlb"]
INV_DCACHE == [op |-> "inv"]
CLEAN_INV_DCACHE == [op |-> "clean_inv"]
Set(r, v) == [op |-> "set", to |-> r, val |-> v]
StorePte(t, va, e) == [op |-> "pte", to |-> <<t, va>>, val |-> e]

ResetKeepsCache == <<INV_TLB, DSB, PREFETCH_FLUSH>>     \* mutant
mmu_reset == <<INV_DCACHE, INV_TLB, DSB, PREFETCH_FLUSH>>

cp15_ctrl_reg1_wr(m) == <<Set("mmu", m), DSB, PREFETCH_FLUSH>>
mmu_init == mmu_reset \o cp15_ctrl_reg1_wr(0)
cp15_domain_ctrl_wr == <<Set("client", 1), PREFETCH_FLUSH>>

ProcidNoZero(t) ==      \* mutant: the ASID is not moved out of the way
    <<DSB, Set("ttbr", t), PREFETCH_FLUSH, DSB, Set("asid", t), PREFETCH_FLUSH>>
ProcidNoDrain(t) ==     \* mutant: no DSB before the new table is used
    <<Set("asid", 0), PREFETCH_FLUSH, Set("ttbr", t), PREFETCH_FLUSH, Set("asid", t),
      PREFETCH_FLUSH>>
cp15_set_procid_ttbr0(t) ==
    <<DSB, Set("asid", 0), PREFETCH_FLUSH, Set("ttbr", t), PREFETCH_FLUSH, DSB,
      Set("asid", t), PREFETCH_FLUSH>>

SyncNoDrain ==          \* mutant: no DSB between the stores and INV_TLB
    <<CLEAN_INV_DCACHE, INV_TLB, DSB, PREFETCH_FLUSH>>
mmu_sync_pte_mods == <<CLEAN_INV_DCACHE, DSB, INV_TLB, DSB, PREFETCH_FLUSH>>

mmu_disable == <<DSB, CLEAN_INV_DCACHE, DSB, Set("mmu", 0), DSB, PREFETCH_FLUSH>>
                   \o cp15_ctrl_reg1_wr(0)

mmu_enable == <<Set("mmu", 1), PREFETCH_FLUSH, DSB, Set("mmu", 1), PREFETCH_FLUSH>>

\* The fields are stored one by one into a cleared entry, the tag first, and the
\* section (0 until then) last; a build may merge some of the stores.
vm_map_sec(t, va, pa, g) ==
    <<StorePte(t, va, Fault), StorePte(t, va, Pte(Kernel, TRUE)),
      StorePte(t, va, Pte(Kernel, g)), StorePte(t, va, Pte(pa, g))>> \o mmu_sync_pte_mods

----------------------------------------------------------------------------
(* What the program is told: the registers and tables once the stores and  *)
(* writes under way have been made.                                        *)

\* What the last write to x in s stores there, or what is there if there is none.
Latest(s, op, x, now) ==
    LET writes == {i \in 1..Len(s) : s[i].op = op /\ s[i].to = x}
    IN IF writes = {} THEN now ELSE s[Max(writes)].val

Written(t, va) ==
    Latest(code, "pte", <<t, va>>, Latest(wbuf, "pte", <<t, va>>, pt[t][va]))
Asked(r) == Latest(code, "set", r, Latest(pend, "set", r, reg[r]))

vm_lookup(t, va) == Written(t, va)
Made == {t \in Table : vm_lookup(t, "kern") # Fault}
mmu_is_enabled == Asked("mmu") = 1

----------------------------------------------------------------------------
(* The calls of the program                                                *)

Call(c) ==
    /\ code = <<>> /\ code' = c
    /\ UNCHANGED <<pt, wbuf, reg, pend, maint, tlb, cache, mem, rd>>

vm_map_kernel ==
    /\ ~booted /\ booted' = TRUE
    /\ \E enable \in BOOLEAN :
          Call(mmu_init \o cp15_domain_ctrl_wr \o vm_map_sec(1, "kern", Kernel, TRUE)
                 \o cp15_set_procid_ttbr0(1)
                 \o (IF enable THEN mmu_sync_pte_mods \o mmu_enable ELSE <<>>))

MapUser ==
    /\ booted /\ UNCHANGED booted
    /\ \E t \in Made, p \in Pa : Call(vm_map_sec(t, "user", p, FALSE))

\* vm_pt_alloc and memcpy: the copy is not followed by mmu_sync_pte_mods.
vm_dup ==
    /\ booted /\ UNCHANGED booted
    /\ \E t \in Made, u \in Table \ Made :
          Call(<<StorePte(u, "kern", vm_lookup(t, "kern")),
                 StorePte(u, "user", vm_lookup(t, "user"))>>)

vm_mmu_switch ==
    /\ booted /\ UNCHANGED booted
    /\ \E t \in Made : Call(cp15_set_procid_ttbr0(t))

vm_mmu_enable == booted /\ ~mmu_is_enabled /\ Call(mmu_enable) /\ UNCHANGED booted
vm_mmu_disable == booted /\ mmu_is_enabled /\ Call(mmu_disable) /\ UNCHANGED booted

\* The entry the MMU uses for va: any that matches, or else the result of a walk.
InTable(va) == IF reg.ttbr = 0 THEN Fault ELSE pt[reg.ttbr][va]
Matching(va) == {e \in tlb : e.va = va /\ e.tag \in {reg.asid, Global}}
Translations(va) ==
    IF Matching(va) = {} THEN {InTable(va)} ELSE {e.pte : e \in Matching(va)}

\* The sections an access of the program may reach. With the MMU on it uses the user
\* address, if vm_xlate finds it mapped; with the MMU off the address is the section.
Reached ==
    IF ~mmu_is_enabled THEN Pa
    ELSE IF vm_lookup(Asked("ttbr"), "user") = Fault THEN {}
    ELSE {e.pa : e \in Translations("user")}

Hits(p) == reg.mmu = 1 /\ p \in CachedPa /\ cache[p] # "none"
Allocates(p) == reg.mmu = 1 /\ p \in CachedPa

Store ==
    /\ code = <<>>
    /\ \E p \in Reached, v \in Val :
          \/ Hits(p) /\ cache' = [cache EXCEPT ![p] = v] /\ UNCHANGED mem
          \/ /\ ~Hits(p) /\ Allocates(p)
             /\ cache' = [cache EXCEPT ![p] = v] /\ UNCHANGED mem
          \/ /\ ~Hits(p) /\ ~Allocates(p) /\ p \in Pa
             /\ mem' = [mem EXCEPT ![p] = v] /\ UNCHANGED cache
    /\ UNCHANGED <<code, booted, pt, wbuf, reg, pend, maint, tlb, rd>>

Load ==
    /\ code = <<>>
    /\ \E p \in Reached :
          IF p \notin Pa THEN rd' = p /\ UNCHANGED cache
          ELSE /\ rd' = IF Hits(p) THEN cache[p] ELSE mem[p]
               /\ cache' = IF Allocates(p) THEN [cache EXCEPT ![p] = rd'] ELSE cache
    /\ UNCHANGED <<code, booted, pt, wbuf, reg, pend, maint, tlb, mem>>

----------------------------------------------------------------------------
(* The processor: one instruction of the routine                           *)

Next1(ops) == code # <<>> /\ Head(code).op \in ops /\ code' = Tail(code)

Barrier ==
    /\ Next1({"dsb"}) /\ wbuf = <<>> /\ maint = {}
    /\ UNCHANGED <<booted, pt, wbuf, reg, pend, maint, tlb, cache, mem, rd>>

PrefetchFlush ==
    /\ Next1({"flush"}) /\ pend = <<>>
    /\ UNCHANGED <<booted, pt, wbuf, reg, pend, maint, tlb, cache, mem, rd>>

Maintain ==
    /\ Next1({"inv_tlb", "inv", "clean_inv"}) /\ maint' = maint \cup {Head(code).op}
    /\ UNCHANGED <<booted, pt, wbuf, reg, pend, tlb, cache, mem, rd>>

Cp15Write ==
    /\ Next1({"set"}) /\ pend' = Append(pend, Head(code))
    /\ UNCHANGED <<booted, pt, wbuf, reg, maint, tlb, cache, mem, rd>>

PteStore ==
    /\ Next1({"pte"}) /\ wbuf' = Append(wbuf, Head(code))
    /\ UNCHANGED <<booted, pt, reg, pend, maint, tlb, cache, mem, rd>>

(* ... and what goes on beside it                                          *)

Drain ==
    /\ wbuf # <<>>
    /\ LET w == Head(wbuf) IN pt' = [pt EXCEPT ![w.to[1]][w.to[2]] = w.val]
    /\ wbuf' = Tail(wbuf)
    /\ UNCHANGED <<code, booted, reg, pend, maint, tlb, cache, mem, rd>>

\* Writes to different registers take effect in any order.
Cp15Effect ==
    /\ \E i \in 1..Len(pend) :
          /\ \A j \in 1..(i - 1) : pend[j].to # pend[i].to
          /\ reg' = [reg EXCEPT ![pend[i].to] = pend[i].val]
          /\ pend' = RemoveAt(pend, i)
    /\ UNCHANGED <<code, booted, pt, wbuf, maint, tlb, cache, mem, rd>>

WriteBack(P) == [p \in Pa |-> IF p \in P /\ cache[p] # "none" THEN cache[p] ELSE mem[p]]
Emptied(P) == [p \in Pa |-> IF p \in P THEN "none" ELSE cache[p]]

\* With the MMU off the cache is not accessible, and dirty lines may never reach memory.
Complete ==
    /\ \E o \in maint :
          /\ maint' = maint \ {o}
          /\ tlb' = IF o = "inv_tlb" THEN {} ELSE tlb
          /\ cache' = IF o = "inv_tlb" THEN cache ELSE Emptied(Pa)
          /\ \/ o = "clean_inv" /\ mem' = WriteBack(Pa)
             \/ o = "clean_inv" /\ reg.mmu = 0 /\ UNCHANGED mem
             \/ o # "clean_inv" /\ UNCHANGED mem
    /\ UNCHANGED <<code, booted, pt, wbuf, reg, pend, rd>>

CacheEvict ==
    /\ reg.mmu = 1
    /\ \E p \in Pa : /\ cache[p] # "none"
                     /\ mem' = WriteBack({p}) /\ cache' = Emptied({p})
    /\ UNCHANGED <<code, booted, pt, wbuf, reg, pend, maint, tlb, rd>>

\* A walk for an access, or for one that is only predicted.
Walk ==
    /\ reg.mmu = 1
    /\ \E va \in Va :
          LET e == InTable(va) IN
          /\ Matching(va) = {} /\ e # Fault
          /\ tlb' = tlb \cup {[tag |-> IF e.nG THEN reg.asid ELSE Global, va |-> va, pte |-> e]}
    /\ UNCHANGED <<code, booted, pt, wbuf, reg, pend, maint, cache, mem, rd>>

TlbEvict ==
    /\ \E e \in tlb : tlb' = tlb \ {e}
    /\ UNCHANGED <<code, booted, pt, wbuf, reg, pend, maint, cache, mem, rd>>

----------------------------------------------------------------------------
\* After power-up TLB and cache may hold anything.
Init ==
    /\ code = <<>> /\ booted = FALSE /\ wbuf = <<>> /\ pend = <<>> /\ maint = {}
    /\ pt = [t \in Table |-> [va \in Va |-> Fault]]
    /\ reg = [mmu |-> 0, ttbr |-> 0, asid |-> 0, client |-> 0]
    /\ tlb \in SUBSET {[tag |-> Global, va |-> va, pte |-> Pte("none", TRUE)] : va \in Va}
    /\ cache \in [Pa -> {"none", Junk}]
    /\ mem \in [Pa -> Val]
    /\ rd = Junk

Program == vm_map_kernel \/ MapUser \/ vm_dup \/ vm_mmu_switch \/ vm_mmu_enable
             \/ vm_mmu_disable \/ Store \/ Load
Processor == Barrier \/ PrefetchFlush \/ Maintain \/ Cp15Write \/ PteStore
Memory == Drain \/ Cp15Effect \/ Complete \/ CacheEvict \/ Walk \/ TlbEvict

Next == Program \/ Processor \/ Memory
Spec == Init /\ [][Next]_vars

----------------------------------------------------------------------------
(* Properties                                                              *)

Entry == [pa : Pa \cup {Kernel, "none"}, nG : BOOLEAN]
Cp15Writes ==
    [op : {"set"}, to : {"mmu", "client"}, val : {0, 1}]
      \cup [op : {"set"}, to : {"ttbr", "asid"}, val : Table \cup {0}]
Stores == [op : {"pte"}, to : Table \X Va, val : Entry]
Barriers == {DSB, PREFETCH_FLUSH}
Maintenance == {INV_TLB, INV_DCACHE, CLEAN_INV_DCACHE}
Instruction == Barriers \cup Maintenance \cup Cp15Writes \cup Stores

TypeOK ==
    /\ code \in Seq(Instruction) /\ booted \in BOOLEAN
    /\ pt \in [Table -> [Va -> Entry]] /\ wbuf \in Seq(Stores)
    /\ reg \in [mmu : {0, 1}, ttbr : Table \cup {0}, asid : Table \cup {0}, client : {0, 1}]
    /\ pend \in Seq(Cp15Writes) /\ maint \subseteq {"inv_tlb", "inv", "clean_inv"}
    /\ tlb \subseteq [tag : Table \cup {0, Global}, va : Va, pte : Entry]
    /\ mem \in [Pa -> Val] /\ cache \in [Pa -> Val \cup {"none", Junk}]
    /\ rd \in Val \cup {Junk}

\* While the MMU is on, the kernel is mapped to itself and may be accessed at every
\* instant, the middle of a switch or of a change to a table included: the routines
\* execute from it.
KernelMapped ==
    reg.mmu = 1 => reg.client = 1 /\ Translations("kern") = {Pte(Kernel, TRUE)}

\* From the moment the TLB was invalidated, no entry of an address space differs from
\* what vm_lookup finds in its table: neither while the MMU is off (mmu_enable does not
\* invalidate) nor in the middle of a switch.
TlbCoherent ==
    booted /\ INV_TLB.op \notin maint /\ ~(\E i \in 1..Len(code) : code[i] = INV_TLB) =>
        \A e \in tlb, t \in Made : e.tag \in {t, Global} => e.pte = vm_lookup(t, e.va)

\* The address spaces of AddressSpaces, with the values a reader of the cache sees.
Phys == [p \in Pa |-> IF cache[p] \in Val THEN cache[p] ELSE mem[p]]
UserPa(t) == vm_lookup(t, "user").pa

Spaces == INSTANCE AddressSpaces WITH
    NoPa <- "none", NoVal <- Junk, phys <- Phys, space <- [t \in Table |-> UserPa(t)],
    made <- Made, cur <- Asked("ttbr"), on <- mmu_is_enabled

\* The hardware, driven by these routines, implements address spaces in force from the
\* moment a routine is called: every load returns what was stored last in the section
\* that the current table maps.
ImplementsSpaces == Spaces!Spec
=============================================================================
