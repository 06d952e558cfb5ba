----------------------------- MODULE RpiThreads -----------------------------
(***************************************************************************)
(* labs/5-threads/code-threads/rpi-thread.c: cooperative threads on blocks *)
(* that are recycled through a free list.                                  *)
(*                                                                         *)
(* A block is named by the order in which kmalloc handed it out.  A saved  *)
(* stack pointer is abstracted to the execution it resumes: whose it is    *)
(* and how far it had come.  Nothing preempts a thread, so each call is    *)
(* one step up to and including its context switch.                        *)
(***************************************************************************)
EXTENDS Integers, Sequences

CONSTANTS MaxTid,     \* bound: thread ids handed out before the model stops
          MaxSteps    \* bound: steps of its own that a thread takes

ASSUME ThreadsAssumption == MaxTid \in Nat \ {0} /\ MaxSteps \in Nat

VARIABLES
    runq, freeq,        \* blocks waiting to run, blocks to reuse
    cur, sched,         \* cur_thread and scheduler_thread, or Null
    tid, nalloced,      \* the next id, the blocks kmalloc has given
    tidOf,              \* t->tid of each block
    ctx,                \* the execution t->saved_sp resumes
    cpu,                \* the execution that has the processor
    did,                \* history: the steps each thread has taken
    live                \* history: ids forked and not yet exited

vars == <<runq, freeq, cur, sched, tid, nalloced, tidOf, ctx, cpu, did, live>>

Null == 0
Main == 0       \* the execution that called rpi_thread_start: no thread id is 0
Id == 1..MaxTid
Block == 1..MaxTid
Execution == [who : Id \cup {Main}, steps : 0..MaxSteps]
Elems(q) == {q[i] : i \in 1..Len(q)}

----------------------------------------------------------------------------
(* Helpers of rpi-thread.c and Q.h                                         *)

NewBlock == IF freeq = <<>> THEN nalloced + 1 ELSE Head(freeq)

\* mutant: ++tid for tid++
AllocPreIncrements ==
    /\ freeq' = IF freeq = <<>> THEN freeq ELSE Tail(freeq)
    /\ nalloced' = IF freeq = <<>> THEN nalloced + 1 ELSE nalloced
    /\ tidOf' = [tidOf EXCEPT ![NewBlock] = tid + 1]
    /\ tid' = tid + 1

\* th_alloc: the front of the free list, or a new block; either way a new id.
th_alloc ==
    /\ freeq' = IF freeq = <<>> THEN freeq ELSE Tail(freeq)
    /\ nalloced' = IF freeq = <<>> THEN nalloced + 1 ELSE nalloced
    /\ tidOf' = [tidOf EXCEPT ![NewBlock] = tid]
    /\ tid' = tid + 1

\* th_free: Q_push, at the front.
th_free(t) == freeq' = <<t>> \o freeq

SwitchUnsaved(old, new) ==     \* mutant: the old registers are not saved
    /\ cpu' = ctx[new]
    /\ UNCHANGED ctx

\* rpi_cswitch: save into old's block, resume what new's block holds.
rpi_cswitch(old, new) ==
    /\ ctx' = [ctx EXCEPT ![old] = cpu]
    /\ cpu' = ctx[new]

----------------------------------------------------------------------------
(* Calls                                                                   *)

\* rpi_fork, by main or by a thread: a fresh context that enters the trampoline.
\* The bound leaves an id for the scheduler's block.
rpi_fork ==
    /\ tid <= MaxTid /\ (sched = Null => tid < MaxTid)
    /\ th_alloc
    /\ ctx' = [ctx EXCEPT ![NewBlock] = [who |-> tid, steps |-> 0]]
    /\ runq' = Append(runq, NewBlock)
    /\ did' = [did EXCEPT ![tid] = 0]
    /\ live' = live \cup {tid}
    /\ UNCHANGED <<cur, sched, cpu>>

\* rpi_thread_start: returns at once on an empty queue; the first real start
\* allocates the block that main's registers are saved in.
rpi_thread_start ==
    /\ cpu.who = Main /\ runq # <<>>
    /\ IF sched = Null
       THEN th_alloc /\ sched' = NewBlock
       ELSE UNCHANGED <<freeq, nalloced, tidOf, tid, sched>>
    /\ cur' = Head(runq)
    /\ runq' = Tail(runq)
    /\ rpi_cswitch(sched', Head(runq))
    /\ UNCHANGED <<did, live>>

YieldToFront ==     \* mutant: Q_push for Q_append
    /\ cpu.who # Main /\ runq # <<>>
    /\ LET q == <<cur>> \o runq IN
          /\ cur' = Head(q)
          /\ runq' = Tail(q)
          /\ rpi_cswitch(cur, Head(q))
    /\ UNCHANGED <<freeq, sched, tid, nalloced, tidOf, did, live>>

YieldDrops ==     \* mutant: the old thread is not queued again
    /\ cpu.who # Main /\ runq # <<>>
    /\ cur' = Head(runq)
    /\ runq' = Tail(runq)
    /\ rpi_cswitch(cur, Head(runq))
    /\ UNCHANGED <<freeq, sched, tid, nalloced, tidOf, did, live>>

\* rpi_yield: nothing happens when no other thread waits.
rpi_yield ==
    /\ cpu.who # Main /\ runq # <<>>
    /\ LET q == Append(runq, cur) IN
          /\ cur' = Head(q)
          /\ runq' = Tail(q)
          /\ rpi_cswitch(cur, Head(q))
    /\ UNCHANGED <<freeq, sched, tid, nalloced, tidOf, did, live>>

ExitLeaks ==     \* mutant: the block of the dead thread is not freed
    /\ cpu.who # Main
    /\ cur' = IF runq = <<>> THEN sched ELSE Head(runq)
    /\ runq' = IF runq = <<>> THEN runq ELSE Tail(runq)
    /\ rpi_cswitch(cur, cur')
    /\ live' = live \ {cpu.who}
    /\ UNCHANGED <<freeq, sched, tid, nalloced, tidOf, did>>

ExitStaleCur ==     \* mutant: cur_thread is not moved on
    /\ cpu.who # Main
    /\ runq' = IF runq = <<>> THEN runq ELSE Tail(runq)
    /\ th_free(cur)
    /\ rpi_cswitch(cur, IF runq = <<>> THEN sched ELSE Head(runq))
    /\ live' = live \ {cpu.who}
    /\ UNCHANGED <<cur, sched, tid, nalloced, tidOf, did>>

ExitToMain ==     \* mutant: back to the scheduler although threads wait
    /\ cpu.who # Main
    /\ cur' = sched
    /\ th_free(cur)
    /\ rpi_cswitch(cur, cur')
    /\ live' = live \ {cpu.who}
    /\ UNCHANGED <<runq, sched, tid, nalloced, tidOf, did>>

\* rpi_exit, called by the thread or by the trampoline its code returns to.  The
\* block is on the free list before rpi_cswitch writes to it for the last time.
rpi_exit ==
    /\ cpu.who # Main
    /\ cur' = IF runq = <<>> THEN sched ELSE Head(runq)
    /\ runq' = IF runq = <<>> THEN runq ELSE Tail(runq)
    /\ th_free(cur)
    /\ rpi_cswitch(cur, cur')
    /\ live' = live \ {cpu.who}
    /\ UNCHANGED <<sched, tid, nalloced, tidOf, did>>

\* The running thread computes between its calls.
Work ==
    /\ cpu.who # Main /\ cpu.steps < MaxSteps
    /\ cpu' = [cpu EXCEPT !.steps = @ + 1]
    /\ did' = [did EXCEPT ![cpu.who] = @ + 1]
    /\ UNCHANGED <<runq, freeq, cur, sched, tid, nalloced, tidOf, ctx, live>>

Init ==
    /\ runq = <<>> /\ freeq = <<>>
    /\ cur = Null /\ sched = Null
    /\ tid = 1 /\ nalloced = 0
    /\ tidOf = [b \in Block |-> 0]
    /\ ctx = [b \in Block |-> [who |-> Main, steps |-> 0]]
    /\ cpu = [who |-> Main, steps |-> 0]
    /\ did = [t \in Id |-> 0]
    /\ live = {}

\* Main has nothing left to run and no id left to fork with.
Idle == cpu.who = Main /\ runq = <<>> /\ tid > MaxTid /\ UNCHANGED vars

Next == rpi_fork \/ rpi_thread_start \/ rpi_yield \/ rpi_exit \/ Work \/ Idle

Spec == Init /\ [][Next]_vars

\* Cooperation: a running thread reaches rpi_yield or rpi_exit in the end, and main
\* runs what it has forked.
FairSpec == /\ Spec
            /\ WF_vars(rpi_yield \/ rpi_exit)
            /\ WF_vars(rpi_thread_start)

----------------------------------------------------------------------------
(* Properties                                                              *)

\* Every variable has its type.
TypeOK ==
    /\ runq \in Seq(Block) /\ freeq \in Seq(Block)
    /\ cur \in Block \cup {Null} /\ sched \in Block \cup {Null}
    /\ tid \in 1..MaxTid + 1 /\ nalloced \in 0..MaxTid
    /\ tidOf \in [Block -> Id \cup {0}]
    /\ ctx \in [Block -> Execution] /\ cpu \in Execution
    /\ did \in [Id -> 0..MaxSteps] /\ live \in SUBSET Id

Running == IF cpu.who = Main THEN {} ELSE {cur}
Fixed == IF sched = Null THEN {} ELSE {sched}
Once(q) == \A i, j \in 1..Len(q) : q[i] = q[j] => i = j

\* Every block kmalloc gave is in exactly one place: waiting, running, free, or
\* holding main's registers.  A block in two queues would corrupt both, for they
\* share its next field; a block in none is lost until reboot.
BlocksAccounted ==
    /\ Once(runq) /\ Once(freeq)
    /\ Elems(runq) \cup Elems(freeq) \cup Running \cup Fixed = 1..nalloced
    /\ Elems(runq) \cap Elems(freeq) = {}
    /\ Running \cap (Elems(runq) \cup Elems(freeq)) = {}
    /\ Fixed \cap (Elems(runq) \cup Elems(freeq) \cup Running) = {}

\* rpi_cur_thread() is the block of the thread that really has the processor, with
\* the id it was forked with, however often blocks have been reused.
CurrentIsRunning == cpu.who # Main => cur # Null /\ tidOf[cur] = cpu.who

\* What a switch will resume is exactly what was suspended: a waiting block holds its
\* own thread, at the step that thread had reached, and scheduler_thread holds main.
ContextsIntact ==
    /\ \A b \in Elems(runq) : ctx[b] = [who |-> tidOf[b], steps |-> did[tidOf[b]]]
    /\ cpu.who # Main => cpu.steps = did[cpu.who] /\ ctx[sched].who = Main

\* No forked thread is lost and none runs after its exit: the threads that have not
\* exited are those waiting and the one running, so rpi_thread_start returns only when
\* every thread forked so far has exited.
NoThreadLost ==
    live = {tidOf[b] : b \in Elems(runq)} \cup (IF cpu.who = Main THEN {} ELSE {cpu.who})

Ready == [i \in 1..Len(runq) |-> tidOf[runq[i]]]
Threads == INSTANCE RoundRobin
             WITH ready <- Ready, running <- cpu.who, used <- 1..tid - 1

\* Seen by thread id, the package is a round-robin scheduler: recycling blocks never
\* shows, ids are never reused, and yield goes to the back of the line.
ImplementsRoundRobin == Threads!Spec

\* A forked thread gets the processor, if every thread in turn yields or exits.
NoStarvation == \A t \in Id : (t \in live /\ cpu.who # t) ~> (cpu.who = t)
=============================================================================
