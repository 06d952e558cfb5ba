------------------------- MODULE InterleaveChecker -------------------------
(***************************************************************************)
(* labs/10-interleave-checker/1-interleave/check-interleave.c: check(c)    *)
(* runs A() at user level in single-step mode, and in the k-th run calls   *)
(* B() from the breakpoint handler at A's k-th instruction, to find out    *)
(* whether A and B work under every placement of one context switch.       *)
(*                                                                         *)
(* The code under test is a parameter: a test t has a routine A, whose     *)
(* instructions have the addresses 1..ALen(t) and are executed one by one, *)
(* and a routine B, which runs to its end or gives up.  They share the     *)
(* memory and A's registers, whose contents are members of State(t).       *)
(***************************************************************************)
EXTENDS Integers

CONSTANTS
    Test,            \* the tests
    State(_),        \* what memory and A's registers may hold
    ALen(_),         \* instructions of A; the address after them is A_terminated
    InitState(_),    \* what c->init leaves there
    Exec(_, _, _),   \* A's instruction at an address, in a state: [pc, mem] after it
    BRun(_, _),      \* B in a state: [ok, mem] after it
    Good(_, _, _),   \* c->check in a state, given c->interleaving_p
    SeqTrials,       \* sequential trials before the real ones (10)
    MaxK             \* the bound of the checking loop (10000)

A_terminated(t) == ALen(t) + 1

\* A has no jump outside itself but its return, and none to the same instruction, whose
\* second execution the mismatch breakpoint would not notice.  A B that returns 0 has
\* changed nothing: the handler goes on with A as if it had not been called.
ASSUME CheckerAssumption ==
    /\ SeqTrials \in Nat /\ MaxK \in Nat \ {0}
    /\ \A t \in Test :
          /\ ALen(t) \in Nat \ {0} /\ InitState(t) \in State(t)
          /\ \A m \in State(t) :
                /\ \A a \in 1..ALen(t) :
                      Exec(t, a, m) \in [pc : (1..A_terminated(t)) \ {a}, mem : State(t)]
                /\ BRun(t, m).ok \in BOOLEAN /\ BRun(t, m).mem \in State(t)
                /\ ~BRun(t, m).ok => BRun(t, m).mem = m

VARIABLES
    test,                 \* the checker_t that check() was called with
    pc,                   \* where check() is
    trial, k, errors,     \* its locals
    inst_count, switched_p, interleaving_p,     \* fields of the checker_t; the
                                                \* last is never assigned
    mem, apc,             \* the state A and B share, A's address
    mismatch,             \* the address that does not fault, or Off
    ret,                  \* what check() returned
    executed,             \* history: instructions of A executed in this run
    cuts                  \* history: how many were, each time B succeeded

vars == <<test, pc, trial, k, errors, inst_count, switched_p, interleaving_p,
          mem, apc, mismatch, ret, executed, cuts>>

Off == -1

----------------------------------------------------------------------------
(* The sequential trials                                                   *)

Trial ==
    /\ pc = "trial"
    /\ IF trial < SeqTrials
       THEN /\ mem' = InitState(test) /\ apc' = 1 /\ executed' = 0
            /\ pc' = "sequential"
       ELSE pc' = "loop" /\ UNCHANGED <<mem, apc, executed>>
    /\ UNCHANGED <<test, trial, k, errors, inst_count, switched_p, interleaving_p, mismatch, ret, cuts>>

\* The processor executes one instruction of A.
Instruction ==
    /\ apc # A_terminated(test)
    /\ mem' = Exec(test, apc, mem).mem
    /\ apc' = Exec(test, apc, mem).pc
    /\ executed' = executed + 1
    /\ UNCHANGED <<test, pc, trial, k, errors, inst_count, switched_p, interleaving_p, mismatch, ret, cuts>>

SequentialInstruction == pc = "sequential" /\ Instruction

SequentialB ==
    /\ pc = "sequential" /\ apc = A_terminated(test)
    /\ LET b == BRun(test, mem) IN
          /\ mem' = b.mem
          /\ IF b.ok /\ Good(test, b.mem, interleaving_p)
             THEN trial' = trial + 1 /\ pc' = "trial"
             ELSE pc' = "panic" /\ UNCHANGED trial
    /\ UNCHANGED <<test, k, errors, inst_count, switched_p, interleaving_p, apc, mismatch, ret, executed, cuts>>

----------------------------------------------------------------------------
(* One run of the checking loop                                            *)

\* mutant: inst_count is not reset
StartRunKeepsCount ==
    /\ pc = "loop"
    /\ IF k < MaxK
       THEN /\ mem' = InitState(test) /\ apc' = 1 /\ executed' = 0
            /\ switched_p' = FALSE /\ mismatch' = 0 /\ pc' = "user"
       ELSE pc' = "return" /\ UNCHANGED <<mem, apc, executed, switched_p, mismatch>>
    /\ UNCHANGED <<test, trial, k, errors, inst_count, interleaving_p, ret, cuts>>

\* init, and run_A_at_userlevel up to its context switch; brkpt_mismatch_start sets
\* address 0, where A has no instruction.
StartRun ==
    /\ pc = "loop"
    /\ IF k < MaxK
       THEN /\ mem' = InitState(test) /\ apc' = 1 /\ executed' = 0
            /\ inst_count' = 0 /\ switched_p' = FALSE
            /\ mismatch' = 0
            /\ pc' = "user"
       ELSE /\ pc' = "return"
            /\ UNCHANGED <<mem, apc, executed, inst_count, switched_p, mismatch>>
    /\ UNCHANGED <<test, trial, k, errors, interleaving_p, ret, cuts>>

\* A executes the instruction at the mismatch address, or any once stepping is off.
UserInstruction ==
    /\ pc = "user" /\ mismatch \in {Off, apc}
    /\ Instruction

StepFault == pc = "user" /\ mismatch \notin {Off, apc}

HandlerUnchanged == UNCHANGED <<test, pc, trial, k, errors, interleaving_p, apc, ret, executed>>

\* single_step_handler_full at A_terminated: single stepping ends.
StepEnd ==
    /\ StepFault /\ apc = A_terminated(test)
    /\ mismatch' = Off
    /\ UNCHANGED <<inst_count, switched_p, mem, cuts>> /\ HandlerUnchanged

\* mutant: the handler does not remember that it has switched
StepForgets ==
    /\ StepFault /\ apc # A_terminated(test)
    /\ inst_count' = inst_count + 1
    /\ IF inst_count' >= k
       THEN LET b == BRun(test, mem) IN
            /\ mem' = b.mem
            /\ switched_p' = (switched_p \/ b.ok)
            /\ cuts' = IF b.ok THEN cuts \cup {executed} ELSE cuts
            /\ mismatch' = apc
       ELSE mismatch' = apc /\ UNCHANGED <<mem, switched_p, cuts>>
    /\ HandlerUnchanged

\* mutant: B is tried at the k-th instruction only
StepNoRetry ==
    /\ StepFault /\ apc # A_terminated(test)
    /\ inst_count' = inst_count + 1
    /\ IF inst_count' = k
       THEN LET b == BRun(test, mem) IN
            /\ mem' = b.mem
            /\ switched_p' = b.ok
            /\ cuts' = IF b.ok THEN cuts \cup {executed} ELSE cuts
            /\ mismatch' = IF b.ok THEN mismatch ELSE apc
       ELSE mismatch' = apc /\ UNCHANGED <<mem, switched_p, cuts>>
    /\ HandlerUnchanged

\* single_step_handler_full elsewhere: B is tried from the k-th instruction on, until
\* it succeeds.  Then A resumes with the old mismatch address, faults here once more,
\* and goes on in single steps.
StepInst ==
    /\ StepFault /\ apc # A_terminated(test)
    /\ inst_count' = inst_count + 1
    /\ IF inst_count' >= k /\ ~switched_p
       THEN LET b == BRun(test, mem) IN
            /\ mem' = b.mem
            /\ switched_p' = b.ok
            /\ cuts' = IF b.ok THEN cuts \cup {executed} ELSE cuts
            /\ mismatch' = IF b.ok THEN mismatch ELSE apc
       ELSE mismatch' = apc /\ UNCHANGED <<mem, switched_p, cuts>>
    /\ HandlerUnchanged

\* A_terminated makes the system call that resumes run_A_at_userlevel.
EndRun ==
    /\ pc = "user" /\ mismatch = Off /\ apc = A_terminated(test)
    /\ pc' = "check"
    /\ UNCHANGED <<test, trial, k, errors, inst_count, switched_p, interleaving_p,
                   mem, apc, mismatch, ret, executed, cuts>>

\* mutant: the next run switches at the same instruction
CheckRunSameK ==
    /\ pc = "check"
    /\ IF switched_p
       THEN /\ errors' = IF Good(test, mem, interleaving_p) THEN errors ELSE errors + 1
            /\ pc' = "loop"
       ELSE pc' = "return" /\ UNCHANGED errors
    /\ UNCHANGED <<test, trial, k, inst_count, switched_p, interleaving_p, mem, apc, mismatch,
                   ret, executed, cuts>>

\* The loop ends at the first run in which B could not be run.
CheckRun ==
    /\ pc = "check"
    /\ IF switched_p
       THEN /\ errors' = IF Good(test, mem, interleaving_p) THEN errors ELSE errors + 1
            /\ k' = k + 1
            /\ pc' = "loop"
       ELSE pc' = "return" /\ UNCHANGED <<errors, k>>
    /\ UNCHANGED <<test, trial, inst_count, switched_p, interleaving_p, mem, apc, mismatch,
                   ret, executed, cuts>>

Return ==
    /\ pc = "return"
    /\ pc' = "returned" /\ ret' = (errors = 0)
    /\ UNCHANGED <<test, trial, k, errors, inst_count, switched_p, interleaving_p,
                   mem, apc, mismatch, executed, cuts>>

Init ==
    /\ test \in Test
    /\ pc = "trial" /\ trial = 0 /\ k = 1 /\ errors = 0
    /\ inst_count = 0 /\ switched_p = FALSE /\ interleaving_p = FALSE
    /\ mem = InitState(test) /\ apc = 1 /\ mismatch = Off
    /\ ret = FALSE /\ executed = 0 /\ cuts = {}

Finished == pc \in {"returned", "panic"} /\ UNCHANGED vars

Next == \/ Trial \/ SequentialInstruction \/ SequentialB
        \/ StartRun \/ UserInstruction \/ StepEnd \/ StepInst \/ EndRun
        \/ CheckRun \/ Return \/ Finished

Spec == Init /\ [][Next]_vars

\* The processor runs.
FairSpec == Spec /\ WF_vars(Next)

----------------------------------------------------------------------------
(* Properties                                                              *)

\* Every variable has its type.
TypeOK ==
    /\ test \in Test
    /\ pc \in {"trial", "sequential", "loop", "user", "check", "return", "returned", "panic"}
    /\ trial \in 0..SeqTrials /\ k \in 1..MaxK /\ errors \in 0..k
    /\ inst_count \in 0..executed + 2
    /\ switched_p \in BOOLEAN /\ interleaving_p \in BOOLEAN /\ ret \in BOOLEAN
    /\ apc \in 1..A_terminated(test) /\ mismatch \in {Off, 0} \cup 1..ALen(test)
    /\ mem \in State(test) /\ executed \in Nat /\ cuts \subseteq Nat

\* For reference: where A is n instructions after it was at c, B not interfering.
Step(t, d) == IF d.pc = A_terminated(t) THEN d ELSE Exec(t, d.pc, d.mem)

After(t, c, n) ==
    LET f[i \in 0..n] == IF i = 0 THEN c ELSE Step(t, f[i - 1])
    IN  f[n]

AtCut(t, j) == After(t, [pc |-> 1, mem |-> InitState(t)], j)
CutPoints(t) == {j \in 0..MaxK : AtCut(t, j).pc # A_terminated(t)}
BAt(t, j) == BRun(t, AtCut(t, j).mem)

\* A goes on from cut j after B, n instructions long, and to its end.
Switched(t, j, n) == After(t, [pc |-> AtCut(t, j).pc, mem |-> BAt(t, j).mem], n)
WorksAt(t, j) == Good(t, Switched(t, j, MaxK).mem, FALSE)

\* 10000 instructions are enough for each A, before and after a B.
ASSUME TerminationAssumption ==
    \A t \in Test :
       /\ AtCut(t, MaxK - 1).pc = A_terminated(t)
       /\ \A j \in CutPoints(t) : BAt(t, j).ok => Switched(t, j, MaxK).pc = A_terminated(t)

\* check() tells the truth: it returns 1 exactly if the code under test works wherever
\* in A one switch to a successful B is put.  So neither the retries after a failed B,
\* nor the early end of the loop, nor the double fault after a switch hides a bad
\* interleaving or makes one up.
ReturnsTruth ==
    pc = "returned" => (ret <=> \A j \in CutPoints(test) : BAt(test, j).ok => WorksAt(test, j))

\* "verified ... pre-emptive context switching on A() at every single instruction": the
\* switch has been tried before each instruction of A at which B can run.
CoversEveryCut ==
    pc = "returned" => cuts = {j \in CutPoints(test) : BAt(test, j).ok}

\* check() returns, when A always terminates.
CheckReturns == <>(pc \in {"returned", "panic"})
=============================================================================
