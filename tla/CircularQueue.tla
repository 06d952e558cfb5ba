--------------------------- MODULE CircularQueue ---------------------------
(***************************************************************************)
(* libpi/libc/circular.h: the single-producer single-consumer ring through *)
(* which an interrupt handler hands bytes to the code it interrupted.      *)
(*                                                                         *)
(* The two sides interleave at every access to shared memory: a full or    *)
(* empty test, the store or load of a slot, the update of an index.  The   *)
(* code keeps that order with compiler barriers (gcc_mb).  The local copy  *)
(* a side makes of the index it owns is left out: nobody else writes that  *)
(* index, so the copy and the index agree until the side updates it.  A    *)
(* failed assert or a panic stops the machine.                             *)
(***************************************************************************)
EXTENDS Integers, Sequences

CONSTANTS N,         \* CQ_N: slots of the ring
          WordMod,   \* 2^32: the indices are unsigned and subtracted modulo it
          Byte,      \* cqe_t
          MaxBatch,  \* bound: elements of one cq_push_n, cq_pop_n or cq_peek_n
          PeekIE,    \* the interrupt states in which the caller uses cq_peek_n
          Handler    \* TRUE: the producer is an interrupt handler, which runs to its end;
                     \* FALSE: any two contexts of execution, stepping in any order

\* CQ_N divides the word size, or the unsigned difference of cq_nelem is wrong
\* once head has wrapped and tail has not (8192 divides 2^32).
ASSUME QueueAssumption ==
    /\ N \in Nat /\ N > 1
    /\ WordMod \in Nat /\ WordMod >= N /\ WordMod % N = 0
    /\ MaxBatch \in Nat \ {0}
    /\ PeekIE \subseteq BOOLEAN
    /\ Handler \in BOOLEAN
    /\ Byte # {}

VARIABLES
    head, tail, buf,       \* the shared ring
    ie,                    \* cpsr_int_enabled(): may the handler run?
    ppc, pdata, batch,     \* producer: place, bytes left, inside cq_push_n?
    cpc, cop, need, ce,    \* consumer: place, operation, bytes left, local e
    saved, sz,             \* locals of cq_peek_n: the tail to restore, the size seen
    out                    \* the element the last pop returned

ring == <<head, tail, buf>>
pvars == <<ppc, pdata, batch>>
cvars == <<cpc, cop, need, ce, saved, sz, out>>
vars == <<ring, ie, pvars, cvars>>

Index == 0 .. N-1
Ops == {"pop", "pop_n", "pop_nonblock", "pop_n_noblk", "peek", "peek_n"}

Empty(h, t) == h = t
FullNoWrap(h, t) == h + 1 = t     \* mutant: forgets that the ring wraps
Full(h, t) == (h + 1) % N = t
Nelem(h, t) == ((h - t) % WordMod) % N
Nspace(h, t) == (N - 1) - Nelem(h, t)
BumpNoWrap(i) == i + 1            \* mutant: the index runs off the ring
Bump(i) == (i + 1) % N

PFailed == {"impossible", "assert_failed"}
CFailed == {"deadlocked", "assert_failed"}
Running == ppc \notin PFailed /\ cpc \notin CFailed

\* Each side moves to another place; what it held is dead once it has returned.
PGo(pc) ==
    /\ ppc' = pc
    /\ batch' = IF pc = "idle" THEN FALSE ELSE batch

CGo(pc, n) ==
    /\ cpc' = pc
    /\ cop' = IF pc = "idle" THEN "none" ELSE cop
    /\ need' = IF pc = "idle" THEN 0 ELSE n

----------------------------------------------------------------------------
(* The producer: an interrupt handler, so it runs only with interrupts on. *)

\* cq_push(x), or cq_push_n of n bytes.
PushCall ==
    /\ ppc = "idle" /\ ie
    /\ \E n \in 1..MaxBatch : pdata' \in [1..n -> Byte]
    /\ batch' \in BOOLEAN
    /\ Len(pdata') > 1 => batch'
    /\ ppc' = IF batch' THEN "space" ELSE "full"
    /\ UNCHANGED <<ring, ie, cvars>>

\* cq_push_n: all of the bytes or none of them.
PushSpace ==
    /\ ppc = "space" /\ ie
    /\ IF Nspace(head, tail) < Len(pdata)
       THEN PGo("idle") /\ pdata' = <<>>
       ELSE PGo("full") /\ pdata' = pdata
    /\ UNCHANGED <<ring, ie, cvars>>

PushOverwrites ==     \* mutant: neither the test nor the assert
    /\ ppc = "full" /\ ie
    /\ PGo("store") /\ pdata' = pdata
    /\ UNCHANGED <<ring, ie, cvars>>

\* cq_push's test; cq_push_n panics ("impossible") when it fails in its loop.
PushFull ==
    /\ ppc = "full" /\ ie
    /\ PGo(IF ~Full(head, tail) THEN "assert" ELSE IF batch THEN "impossible" ELSE "idle")
    /\ pdata' = IF ppc' = "idle" THEN <<>> ELSE pdata
    /\ UNCHANGED <<ring, ie, cvars>>

PushAssert ==
    /\ ppc = "assert" /\ ie
    /\ ppc' = IF Nspace(head, tail) > 0 THEN "store" ELSE "assert_failed"
    /\ UNCHANGED <<ring, ie, pdata, batch, cvars>>

PushStore ==
    /\ ppc = "store" /\ ie
    /\ buf' = [buf EXCEPT ![head] = Head(pdata)]
    /\ ppc' = "publish"
    /\ UNCHANGED <<head, tail, ie, pdata, batch, cvars>>

PublishForgets ==     \* mutant: the index is never updated
    /\ ppc = "publish" /\ ie
    /\ pdata' = Tail(pdata)
    /\ PGo(IF pdata' = <<>> THEN "idle" ELSE "full")
    /\ UNCHANGED <<ring, ie, cvars>>

PushPublish ==
    /\ ppc = "publish" /\ ie
    /\ head' = Bump(head)
    /\ pdata' = Tail(pdata)
    /\ PGo(IF pdata' = <<>> THEN "idle" ELSE "full")
    /\ UNCHANGED <<tail, buf, ie, cvars>>

Producer == \/ PushCall \/ PushSpace \/ PushFull
            \/ PushAssert \/ PushStore \/ PushPublish

----------------------------------------------------------------------------
(* The consumer: the interrupted code.                                     *)

\* It masks or unmasks interrupts between its calls, and never inside a handler.
SetInterrupts ==
    /\ cpc = "idle" /\ ppc = "idle"
    /\ ie' = ~ie
    /\ UNCHANGED <<ring, pvars, cvars>>

ConsumerCall ==
    /\ cpc = "idle"
    /\ cop' \in Ops
    /\ cop' = "peek_n" => ie \in PeekIE
    /\ need' \in 1..MaxBatch
    /\ cop' \in {"pop", "pop_nonblock", "peek"} => need' = 1
    /\ cpc' = IF cop' \in {"pop_n_noblk", "peek_n"} THEN "size" ELSE "pop"
    /\ UNCHANGED <<ring, ie, pvars, ce, saved, sz, out>>

\* cq_pop_n_noblk and cq_peek_n: nothing unless all n are there.
PopSize ==
    /\ cpc = "size"
    /\ CGo(IF Nelem(head, tail) < need THEN "idle" ELSE "pop", need)
    /\ IF cop' = "peek_n" THEN saved' = tail /\ sz' = Nelem(head, tail)
                           ELSE UNCHANGED <<saved, sz>>
    /\ UNCHANGED <<ring, ie, pvars, ce, out>>

\* cq_pop_nonblock's test: only the blocking callers go on to the mask check.
PopTest ==
    /\ cpc = "pop"
    /\ CGo(IF ~Empty(head, tail) THEN "load"
              ELSE IF cop \in {"pop_nonblock", "peek"} THEN "idle" ELSE "wait", need)
    /\ UNCHANGED <<ring, ie, pvars, ce, saved, sz, out>>

WaitInverted ==     \* mutant: the mask check inverted
    /\ cpc = "wait"
    /\ CGo(IF ie THEN "deadlocked" ELSE "pop", need)
    /\ UNCHANGED <<ring, ie, pvars, ce, saved, sz, out>>

\* cq_pop's loop: try again, unless no interrupt can ever fill the queue.
PopWait ==
    /\ cpc = "wait"
    /\ CGo(IF ie THEN "pop" ELSE "deadlocked", need)
    /\ UNCHANGED <<ring, ie, pvars, ce, saved, sz, out>>

PopLoad ==
    /\ cpc = "load"
    /\ ce' = buf[tail]
    /\ CGo(IF cop = "peek" THEN "idle" ELSE "release", need)
    /\ UNCHANGED <<ring, ie, pvars, saved, sz, out>>

ReleaseThenLoad ==     \* mutant: the slot is read after the index moved
    /\ cpc = "release"
    /\ tail' = Bump(tail)
    /\ CGo(IF need > 1 THEN "pop" ELSE IF cop = "peek_n" THEN "restore" ELSE "idle",
           need - 1)
    /\ out' = IF cop = "peek_n" THEN out ELSE buf[tail']
    /\ UNCHANGED <<head, buf, ie, pvars, ce, saved, sz>>

PopRelease ==
    /\ cpc = "release"
    /\ tail' = Bump(tail)
    /\ CGo(IF need > 1 THEN "pop" ELSE IF cop = "peek_n" THEN "restore" ELSE "idle",
           need - 1)
    /\ out' = IF cop = "peek_n" THEN out ELSE ce
    /\ UNCHANGED <<head, buf, ie, pvars, ce, saved, sz>>

PeekRestore ==
    /\ cpc = "restore"
    /\ tail' = saved
    /\ CGo("assert", need)
    /\ UNCHANGED <<head, buf, ie, pvars, ce, saved, sz, out>>

PeekAssert ==
    /\ cpc = "assert"
    /\ CGo(IF sz = Nelem(head, tail) THEN "idle" ELSE "assert_failed", need)
    /\ saved' = 0 /\ sz' = 0
    /\ UNCHANGED <<ring, ie, pvars, ce, out>>

ConsumerStep == \/ PopSize \/ PopTest \/ PopWait \/ PopLoad \/ PopRelease
                \/ PeekRestore \/ PeekAssert

Consumer == SetInterrupts \/ ConsumerCall \/ ConsumerStep

\* A panic reboots the board: nothing more happens to the queue.
Halted == ~Running /\ UNCHANGED vars

Init ==
    /\ head = 0 /\ tail = 0
    /\ \E b \in Byte : buf = [i \in Index |-> b] /\ ce = b /\ out = b
    /\ ie = TRUE
    /\ ppc = "idle" /\ pdata = <<>> /\ batch = FALSE
    /\ cpc = "idle" /\ cop = "none" /\ need = 0 /\ saved = 0 /\ sz = 0

Next == \/ Running /\ Producer
        \/ Running /\ (Handler => ppc = "idle") /\ Consumer
        \/ Halted

Spec == Init /\ [][Next]_vars

\* The device keeps interrupting while interrupts are on, a handler that started
\* finishes, and the code that called the queue keeps running.
FairSpec == /\ Spec
            /\ WF_vars(Running /\ Producer)
            /\ WF_vars(Running /\ (Handler => ppc = "idle") /\ ConsumerStep)

----------------------------------------------------------------------------
(* Properties.                                                             *)

\* Every variable has its type.
TypeOK ==
    /\ head \in Index /\ tail \in Index /\ buf \in [Index -> Byte]
    /\ ie \in BOOLEAN
    /\ ppc \in {"idle", "space", "full", "assert", "store", "publish"} \cup PFailed
    /\ pdata \in Seq(Byte) /\ batch \in BOOLEAN
    /\ cpc \in {"idle", "size", "pop", "wait", "load", "release", "restore", "assert"}
               \cup CFailed
    /\ cop \in Ops \cup {"none"} /\ need \in 0..MaxBatch /\ ce \in Byte
    /\ saved \in Index /\ sz \in Index /\ out \in Byte

\* No assert of circular.h fails and cq_push_n never reaches its "impossible"
\* panic: the space cq_push_n checked once cannot shrink before it is used, and
\* cq_peek_n finds the size it started with.
AssertionsHold == ppc \notin PFailed /\ cpc # "assert_failed"

\* Between the load of a slot and the release of it the producer never writes the
\* slot: the byte the consumer took is still the one in the ring.
LoadIsStable == cpc = "release" => ce = buf[tail]

\* cq_pop says "will deadlock" only when it would: the queue is empty and no
\* handler can run to fill it.
PanicOnlyIfStuck == cpc = "deadlocked" => Empty(head, tail) /\ ~ie

\* The bytes in the ring, oldest first; cq_peek_n has moved tail but removed nothing.
Peeking == cop = "peek_n" /\ cpc \notin {"size", "assert", "assert_failed"}
First == IF Peeking THEN saved ELSE tail
Contents(b, h, t) == [i \in 1..Nelem(h, t) |-> b[(t + i - 1) % N]]
Queue == Contents(buf, head, First)

Fifo == INSTANCE BoundedFifo WITH Element <- Byte, Capacity <- N - 1, queue <- Queue

\* The ring is a bounded FIFO: every push appends when its index is published, every
\* pop removes the oldest byte when its slot is released and returns that byte, and
\* no other step, cq_peek and cq_peek_n included, changes the contents.
ImplementsFifo == Fifo!Spec

\* A consumer that calls the queue returns or panics, however the handler's steps
\* fall between its own.
CallsReturn == cpc = "size" \/ cpc = "pop" ~> cpc \in {"idle"} \cup CFailed
=============================================================================
