--------------------------- MODULE AddressSpaces ----------------------------
(***************************************************************************)
(* What pt-vm.h promises to the programs of labs/17-vm-page-table: each    *)
(* table is a function from addresses to memory, in force from the moment  *)
(* a routine of pt-vm.c returns, and memory holds what was stored last,    *)
(* whichever table it was stored through and whether the MMU was on.       *)
(***************************************************************************)
CONSTANTS Table, Pa, Val, NoPa, NoVal

VARIABLES
    phys,       \* what each physical page holds
    space,      \* per table: the page behind the user address, or NoPa
    made,       \* the tables that map the kernel
    cur, on,    \* the table in force (0: none yet), and whether the MMU is
    rd          \* what the last load returned

vars == <<phys, space, made, cur, on, rd>>

Init ==
    /\ phys \in [Pa -> Val]
    /\ space = [t \in Table |-> NoPa]
    /\ made = {} /\ cur = 0 /\ on = FALSE /\ rd = NoVal

\* vm_map_kernel: the first table, with nothing but the kernel in it.
MapKernel(t) ==
    /\ made = {}
    /\ made' = {t} /\ cur' = t /\ on' \in BOOLEAN
    /\ UNCHANGED <<phys, space, rd>>

Map(t, p) ==
    /\ t \in made
    /\ space' = [space EXCEPT ![t] = p]
    /\ UNCHANGED <<phys, made, cur, on, rd>>

Dup(t, u) ==
    /\ t \in made /\ u \notin made
    /\ space' = [space EXCEPT ![u] = space[t]]
    /\ made' = made \cup {u}
    /\ UNCHANGED <<phys, cur, on, rd>>

Switch(t) == t \in made /\ cur' = t /\ UNCHANGED <<phys, space, made, on, rd>>

Turn(b) == made # {} /\ on' = b /\ UNCHANGED <<phys, space, made, cur, rd>>

\* The page an access reaches: through the table, or directly.
Reaches(p) == on => p = space[cur]

Store(p, v) ==
    /\ Reaches(p)
    /\ phys' = [phys EXCEPT ![p] = v]
    /\ UNCHANGED <<space, made, cur, on, rd>>

Load(p) == Reaches(p) /\ rd' = phys[p] /\ UNCHANGED <<phys, space, made, cur, on>>

Next ==
    \/ \E t \in Table : MapKernel(t) \/ Switch(t) \/ \E u \in Table : Dup(t, u)
    \/ \E p \in Pa : Load(p) \/ (\E t \in Table : Map(t, p)) \/ \E v \in Val : Store(p, v)
    \/ \E b \in BOOLEAN : Turn(b)

Spec == Init /\ [][Next]_vars
=============================================================================
