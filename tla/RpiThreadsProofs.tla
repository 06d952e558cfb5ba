-------------------------- MODULE RpiThreadsProofs --------------------------
(***************************************************************************)
(* What rpi-thread.c guarantees for any number of threads: no block is     *)
(* lost or queued twice, every switch resumes what was suspended, and the  *)
(* package is a round-robin scheduler of thread ids.                       *)
(***************************************************************************)
EXTENDS RpiThreads, SequenceTheorems, TLAPS

----------------------------------------------------------------------------
(* Queues as sets of blocks.                                               *)

\* The positions of a longer sequence.
LEMMA RangeGrows ==
    ASSUME NEW m \in Int, NEW n \in Int, m <= n
    PROVE  1..m - 1 \subseteq 1..n - 1
OBVIOUS

\* What a sequence holds is of its type.
LEMMA ElemsIn ==
    ASSUME NEW S, NEW q \in Seq(S)
    PROVE  Elems(q) \subseteq S
BY DEF Elems

\* A block that is not in a queue goes to its end.
LEMMA AppendElems ==
    ASSUME NEW S, NEW q \in Seq(S), NEW x \in S
    PROVE  /\ Append(q, x) \in Seq(S) /\ Append(q, x) # <<>>
           /\ q # <<>> => Head(Append(q, x)) = Head(q)
           /\ Elems(Append(q, x)) = Elems(q) \cup {x}
           /\ Once(q) /\ x \notin Elems(q) => Once(Append(q, x))
<1>1. /\ Append(q, x) \in Seq(S)
      /\ Len(Append(q, x)) = Len(q) + 1
      /\ \A i \in 1..Len(q) : Append(q, x)[i] = q[i]
      /\ Append(q, x)[Len(q) + 1] = x
      /\ Len(q) \in Nat
  OBVIOUS
<1>2. Append(q, x) # <<>>
  BY <1>1
<1>3. ASSUME q # <<>> PROVE Head(Append(q, x)) = Head(q)
  BY <1>1, <1>3
<1> QED BY <1>1, <1>2, <1>3 DEF Elems, Once

\* The head of a queue is taken from it.
LEMMA TailElems ==
    ASSUME NEW S, NEW q \in Seq(S), q # <<>>, Once(q)
    PROVE  /\ Head(q) \in S /\ Tail(q) \in Seq(S)
           /\ Head(q) \in Elems(q)
           /\ Elems(Tail(q)) = Elems(q) \ {Head(q)}
           /\ Once(Tail(q))
<1>1. /\ Tail(q) \in Seq(S)
      /\ Len(Tail(q)) = Len(q) - 1
      /\ \A i \in 1..Len(q) - 1 : Tail(q)[i] = q[i + 1]
      /\ Head(q) = q[1] /\ Head(q) \in S
      /\ Len(q) \in Nat \ {0}
  BY HeadTailProperties
<1>2. Once(Tail(q))
  BY <1>1 DEF Once
<1>3. Elems(Tail(q)) \subseteq Elems(q) \ {Head(q)}
  BY <1>1 DEF Elems, Once
<1>4. ASSUME NEW x \in Elems(q), x # Head(q) PROVE x \in Elems(Tail(q))
  <2>1. PICK i \in 1..Len(q) : x = q[i]
    BY DEF Elems
  <2>2. i # 1 /\ i - 1 \in 1..Len(q) - 1
    BY <1>1, <1>4, <2>1
  <2>3. x = Tail(q)[i - 1]
    BY <1>1, <2>1, <2>2
  <2> QED BY <1>1, <2>2, <2>3 DEF Elems
<1> QED BY <1>1, <1>2, <1>3, <1>4 DEF Elems

\* A block that is not in a list goes to its front.
LEMMA ConsElems ==
    ASSUME NEW S, NEW q \in Seq(S), NEW x \in S
    PROVE  /\ <<x>> \o q \in Seq(S)
           /\ Elems(<<x>> \o q) = Elems(q) \cup {x}
           /\ Once(q) /\ x \notin Elems(q) => Once(<<x>> \o q)
<1> DEFINE c == <<x>> \o q
<1>1. /\ c \in Seq(S)
      /\ Len(c) = Len(q) + 1
      /\ c[1] = x
      /\ \A i \in 2..Len(q) + 1 : c[i] = q[i - 1]
      /\ Len(q) \in Nat
  <2>1. <<x>> \in Seq(S) /\ Len(<<x>>) = 1 /\ <<x>>[1] = x
    OBVIOUS
  <2> QED BY <2>1, ConcatProperties
<1> HIDE DEF c
<1>2. Elems(c) \subseteq Elems(q) \cup {x}
  BY <1>1 DEF Elems
<1>3. x \in Elems(c)
  BY <1>1 DEF Elems
<1>4. ASSUME NEW y \in Elems(q) PROVE y \in Elems(c)
  <2>1. PICK i \in 1..Len(q) : y = q[i]
    BY DEF Elems
  <2>2. i + 1 \in 2..Len(q) + 1 /\ c[i + 1] = y
    BY <1>1, <2>1
  <2> QED BY <1>1, <2>2 DEF Elems
<1>5. Once(q) /\ x \notin Elems(q) => Once(c)
  BY <1>1 DEF Elems, Once
<1> QED BY <1>1, <1>2, <1>3, <1>4, <1>5 DEF c

\* An empty queue holds nothing.
LEMMA EmptyElems == Elems(<<>>) = {} /\ Once(<<>>)
BY DEF Elems, Once

----------------------------------------------------------------------------
(* The inductive invariant.                                                *)

\* Every block costs an id, an id is left for the scheduler's block, and threads run
\* only after rpi_thread_start has made that block.
Bookkeeping ==
    /\ nalloced < tid
    /\ sched = Null => tid <= MaxTid
    /\ cpu.who # Main => sched # Null

\* Threads that have not exited have distinct ids, all of them handed out: this is what
\* makes the ids in NoThreadLost and ContextsIntact stand for the blocks.
IdsDistinct ==
    /\ \A b \in Elems(runq) \cup Running : tidOf[b] \in 1..tid - 1
    /\ \A b, c \in Elems(runq) \cup Running : tidOf[b] = tidOf[c] => b = c

IInv ==
    /\ TypeOK /\ BlocksAccounted /\ CurrentIsRunning /\ ContextsIntact
    /\ NoThreadLost /\ Bookkeeping /\ IdsDistinct

\* What th_alloc returns is nobody's, whether it is recycled or new.
LEMMA AllocFresh ==
    ASSUME IInv, tid <= MaxTid, th_alloc
    PROVE  /\ NewBlock \in Block
           /\ NewBlock \notin Elems(runq) \cup Running \cup Fixed
           /\ freeq' \in Seq(Block) /\ Once(freeq')
           /\ Elems(freeq') = Elems(freeq) \ {NewBlock}
           /\ 1..nalloced' = (1..nalloced) \cup {NewBlock}
           /\ nalloced' \in 0..MaxTid /\ nalloced' < tid'
           /\ tid' = tid + 1 /\ tid' \in 1..MaxTid + 1
           /\ tidOf' = [tidOf EXCEPT ![NewBlock] = tid]
           /\ tidOf' \in [Block -> Id \cup {0}]
<1> USE ThreadsAssumption DEF IInv
<1>1. /\ freeq \in Seq(Block) /\ Once(freeq)
      /\ nalloced \in 0..MaxTid /\ tid \in 1..MaxTid + 1 /\ nalloced < tid
      /\ tidOf \in [Block -> Id \cup {0}]
  BY DEF TypeOK, Bookkeeping, BlocksAccounted
<1>2. /\ tid' = tid + 1 /\ tid' \in 1..MaxTid + 1
      /\ tidOf' = [tidOf EXCEPT ![NewBlock] = tid]
      /\ tidOf' \in [Block -> Id \cup {0}]
  <2>1. tid' = tid + 1 /\ tidOf' = [tidOf EXCEPT ![NewBlock] = tid]
    BY DEF th_alloc
  <2>2. tid \in Id /\ tid + 1 \in 1..MaxTid + 1
    BY <1>1 DEF Id
  <2> QED BY <1>1, <2>1, <2>2
<1>3. CASE freeq = <<>>
  <2>1. NewBlock = nalloced + 1 /\ freeq' = freeq /\ nalloced' = nalloced + 1
    BY <1>3 DEF NewBlock, th_alloc
  <2>2. NewBlock \notin 1..nalloced
    BY <1>1, <2>1
  <2>3. Elems(freeq) \cup Elems(runq) \cup Running \cup Fixed = 1..nalloced
    BY DEF BlocksAccounted
  <2>4. 1..nalloced + 1 = (1..nalloced) \cup {nalloced + 1}
    BY <1>1
  <2> QED BY <1>1, <1>2, <2>1, <2>2, <2>3, <2>4 DEF Block
<1>4. CASE freeq # <<>>
  <2>1. NewBlock = Head(freeq) /\ freeq' = Tail(freeq) /\ nalloced' = nalloced
    BY <1>4 DEF NewBlock, th_alloc
  <2>2. /\ Head(freeq) \in Block /\ Head(freeq) \in Elems(freeq)
        /\ Tail(freeq) \in Seq(Block) /\ Once(Tail(freeq))
        /\ Elems(Tail(freeq)) = Elems(freeq) \ {Head(freeq)}
    BY <1>1, <1>4, TailElems
  <2> QED BY <1>1, <1>2, <2>1, <2>2 DEF BlocksAccounted
<1> QED BY <1>3, <1>4

\* The invariant holds at first.
LEMMA InitInv == Init => IInv
<1> SUFFICES ASSUME Init PROVE IInv
  OBVIOUS
<1> USE ThreadsAssumption DEF Init
<1>1. TypeOK
  BY DEF TypeOK, Block, Id, Execution, Null, Main
<1>2. Running = {} /\ Fixed = {} /\ Elems(runq) = {} /\ Elems(freeq) = {}
  BY EmptyElems DEF Running, Fixed
<1>3. BlocksAccounted
  BY <1>2, EmptyElems DEF BlocksAccounted
<1>4. CurrentIsRunning /\ ContextsIntact /\ Bookkeeping /\ IdsDistinct
  BY <1>2 DEF CurrentIsRunning, ContextsIntact, Bookkeeping, IdsDistinct
<1>5. NoThreadLost
  BY <1>2 DEF NoThreadLost
<1> QED BY <1>1, <1>3, <1>4, <1>5 DEF IInv

\* rpi_fork keeps the invariant.
LEMMA ForkInv == IInv /\ rpi_fork => IInv'
<1> SUFFICES ASSUME IInv, rpi_fork PROVE IInv'
  OBVIOUS
<1> USE ThreadsAssumption DEF Id, Block, Main, Null
<1> DEFINE b == NewBlock
<1>1. /\ tid <= MaxTid /\ th_alloc /\ (sched = Null => tid < MaxTid)
      /\ ctx' = [ctx EXCEPT ![b] = [who |-> tid, steps |-> 0]]
      /\ runq' = Append(runq, b)
      /\ did' = [did EXCEPT ![tid] = 0]
      /\ live' = live \cup {tid}
      /\ cur' = cur /\ sched' = sched /\ cpu' = cpu
  BY DEF rpi_fork
<1>2. /\ b \in Block
      /\ b \notin Elems(runq) \cup Running \cup Fixed
      /\ freeq' \in Seq(Block) /\ Once(freeq')
      /\ Elems(freeq') = Elems(freeq) \ {b}
      /\ 1..nalloced' = (1..nalloced) \cup {b}
      /\ nalloced' \in 0..MaxTid /\ nalloced' < tid'
      /\ tid' = tid + 1 /\ tid' \in 1..MaxTid + 1
      /\ tidOf' = [tidOf EXCEPT ![b] = tid]
      /\ tidOf' \in [Block -> Id \cup {0}]
  BY <1>1, AllocFresh
<1> HIDE DEF b
<1>3. TypeOK /\ tid \in Id
  BY <1>1 DEF IInv, TypeOK
<1>4. /\ runq' \in Seq(Block) /\ Once(runq')
      /\ Elems(runq') = Elems(runq) \cup {b}
  BY <1>1, <1>2, <1>3, AppendElems DEF TypeOK, IInv, BlocksAccounted
<1>5. Running' = Running /\ Fixed' = Fixed
  BY <1>1 DEF Running, Fixed
<1>6. TypeOK'
  <2>1. [who |-> tid, steps |-> 0] \in Execution
    BY <1>3 DEF Execution
  <2>2. ctx' \in [Block -> Execution]
    BY <1>1, <1>3, <2>1 DEF TypeOK
  <2>3. did' \in [Id -> 0..MaxSteps] /\ live' \in SUBSET Id
    BY <1>1, <1>3 DEF TypeOK
  <2>4. /\ cur' \in Block \cup {Null} /\ sched' \in Block \cup {Null}
        /\ cpu' \in Execution
    BY <1>1, <1>3 DEF TypeOK
  <2> QED BY <1>2, <1>4, <2>2, <2>3, <2>4 DEF TypeOK
<1>7. BlocksAccounted'
  BY <1>2, <1>4, <1>5 DEF IInv, BlocksAccounted
<1>8. \A c \in Elems(runq) \cup Running :
         /\ c \in Block /\ c # b
         /\ tidOf'[c] = tidOf[c] /\ tidOf[c] \in 1..tid - 1 /\ ctx'[c] = ctx[c]
  <2>1. Elems(runq) \cup Running \subseteq Block
    BY <1>3 DEF IInv, BlocksAccounted, TypeOK
  <2> QED BY <1>1, <1>2, <1>3, <2>1 DEF IInv, IdsDistinct, TypeOK
<1>9. tidOf'[b] = tid /\ ctx'[b] = [who |-> tid, steps |-> 0]
  BY <1>1, <1>2, <1>3 DEF TypeOK
<1>10. IdsDistinct'
  <2>1. /\ Elems(runq') \cup Running' = (Elems(runq) \cup Running) \cup {b}
        /\ \A c, d \in Elems(runq) \cup Running : tidOf[c] = tidOf[d] => c = d
    BY <1>4, <1>5 DEF IInv, IdsDistinct
  <2>2. tid \in Nat \ {0} /\ 1..tid - 1 \subseteq 1..tid' - 1 /\ tid \in 1..tid' - 1
    BY <1>2, <1>3
  <2>3. \A c \in Elems(runq) \cup Running : tidOf'[c] = tidOf[c] /\ tidOf[c] # tid
    BY <1>8, <2>2
  <2> QED BY <1>8, <1>9, <2>1, <2>2, <2>3 DEF IdsDistinct
<1>11. CurrentIsRunning'
  BY <1>1, <1>8 DEF IInv, CurrentIsRunning, Running
<1>12. ContextsIntact'
  <2>1. ASSUME NEW c \in Elems(runq') 
        PROVE  ctx'[c] = [who |-> tidOf'[c], steps |-> did'[tidOf'[c]]]
    <3>1. CASE c = b
      BY <1>1, <1>3, <1>9, <3>1 DEF TypeOK
    <3>2. CASE c \in Elems(runq)
      <4>1. tidOf[c] # tid /\ tidOf[c] \in Id
        BY <1>3, <1>8, <3>2
      <4>2. did'[tidOf[c]] = did[tidOf[c]]
        BY <1>1, <1>3, <4>1 DEF TypeOK
      <4> QED BY <1>8, <3>2, <4>2 DEF IInv, ContextsIntact
    <3> QED BY <1>4, <3>1, <3>2
  <2>2. ASSUME cpu.who # Main
        PROVE  cpu.steps = did'[cpu.who] /\ ctx'[sched].who = Main
    <3>1. cpu.who = tidOf[cur] /\ cur \in Running
      BY <2>2 DEF IInv, CurrentIsRunning, Running
    <3>2. did'[cpu.who] = did[cpu.who]
      BY <1>1, <1>3, <1>8, <3>1 DEF TypeOK
    <3>3. sched \in Fixed /\ sched # b
      BY <1>2, <2>2 DEF IInv, Bookkeeping, Fixed
    <3>4. ctx'[sched] = ctx[sched]
      BY <1>1, <1>3, <3>3 DEF TypeOK
    <3> QED BY <2>2, <3>2, <3>4 DEF IInv, ContextsIntact
  <2> QED BY <1>1, <2>1, <2>2 DEF ContextsIntact
<1>13. NoThreadLost'
  <2>1. {tidOf'[c] : c \in Elems(runq')} = {tidOf[c] : c \in Elems(runq)} \cup {tid}
    BY <1>4, <1>8, <1>9
  <2> QED BY <1>1, <2>1 DEF IInv, NoThreadLost
<1>14. Bookkeeping'
  BY <1>1, <1>2, <1>3 DEF IInv, Bookkeeping, TypeOK
<1> QED BY <1>6, <1>7, <1>10, <1>11, <1>12, <1>13, <1>14 DEF IInv

\* rpi_thread_start keeps the invariant.
LEMMA StartInv == IInv /\ rpi_thread_start => IInv'
<1> SUFFICES ASSUME IInv, rpi_thread_start PROVE IInv'
  OBVIOUS
<1> USE ThreadsAssumption DEF Id, Block, Main, Null
<1> DEFINE b == Head(runq)
<1>1. /\ cpu.who = Main /\ runq # <<>>
      /\ cur' = b /\ runq' = Tail(runq)
      /\ ctx' = [ctx EXCEPT ![sched'] = cpu] /\ cpu' = ctx[b]
      /\ did' = did /\ live' = live
  BY DEF rpi_thread_start, rpi_cswitch
<1>2. TypeOK /\ Running = {} /\ Once(runq)
  BY <1>1 DEF IInv, Running, BlocksAccounted
<1>3. /\ b \in Block /\ b \in Elems(runq)
      /\ runq' \in Seq(Block) /\ Once(runq')
      /\ Elems(runq') = Elems(runq) \ {b}
  BY <1>1, <1>2, TailElems DEF TypeOK
<1>4. /\ sched' \in Block /\ sched' \notin Elems(runq) /\ sched' \notin Elems(freeq')
      /\ freeq' \in Seq(Block) /\ Once(freeq')
      /\ Elems(runq) \cap Elems(freeq') = {}
      /\ Elems(runq) \cup Elems(freeq') \cup {sched'} = 1..nalloced'
      /\ nalloced' \in 0..MaxTid /\ nalloced' < tid'
      /\ tid' \in 1..MaxTid + 1 /\ tid <= tid'
      /\ tidOf' \in [Block -> Id \cup {0}]
      /\ \A c \in Elems(runq) : tidOf'[c] = tidOf[c]
  <2>1. CASE sched = Null
    <3>1. th_alloc /\ sched' = NewBlock
      BY <2>1 DEF rpi_thread_start
    <3>2. tid <= MaxTid /\ Fixed = {}
      BY <2>1 DEF IInv, Bookkeeping, Fixed
    <3>3. /\ NewBlock \in Block
          /\ NewBlock \notin Elems(runq)
          /\ freeq' \in Seq(Block) /\ Once(freeq')
          /\ Elems(freeq') = Elems(freeq) \ {NewBlock}
          /\ 1..nalloced' = (1..nalloced) \cup {NewBlock}
          /\ nalloced' \in 0..MaxTid /\ nalloced' < tid'
          /\ tid' = tid + 1 /\ tid' \in 1..MaxTid + 1
          /\ tidOf' = [tidOf EXCEPT ![NewBlock] = tid]
          /\ tidOf' \in [Block -> Id \cup {0}]
      BY <3>1, <3>2, AllocFresh
    <3>4. Elems(runq) \cup Elems(freeq) = 1..nalloced /\ Elems(runq) \cap Elems(freeq) = {}
      BY <1>2, <3>2 DEF IInv, BlocksAccounted
    <3>5. \A c \in Elems(runq) : c \in Block /\ c # NewBlock
      BY <1>2, <3>3, <3>4 DEF TypeOK
    <3>6. \A c \in Elems(runq) : tidOf'[c] = tidOf[c]
      BY <1>2, <3>3, <3>5 DEF TypeOK
    <3>7. tid <= tid'
      BY <1>2, <3>3 DEF TypeOK
    <3> QED BY <3>1, <3>3, <3>4, <3>6, <3>7
  <2>2. CASE sched # Null
    <3>1. /\ sched' = sched /\ freeq' = freeq /\ nalloced' = nalloced
          /\ tidOf' = tidOf /\ tid' = tid
      BY <2>2 DEF rpi_thread_start
    <3>2. Fixed = {sched}
      BY <2>2 DEF Fixed
    <3> QED BY <1>2, <2>2, <3>1, <3>2 DEF IInv, BlocksAccounted, TypeOK, Bookkeeping
  <2> QED BY <2>1, <2>2
<1>5. ctx[b] = [who |-> tidOf[b], steps |-> did[tidOf[b]]] /\ tidOf[b] \in 1..tid - 1
  BY <1>3 DEF IInv, ContextsIntact, IdsDistinct
<1> HIDE DEF b
<1>6. cpu'.who = tidOf[b] /\ cpu'.steps = did[tidOf[b]] /\ cpu'.who # Main
  BY <1>1, <1>2, <1>5 DEF TypeOK
<1>7. Running' = {b} /\ Fixed' = {sched'}
  BY <1>1, <1>4, <1>6 DEF Running, Fixed
<1>8. TypeOK'
  BY <1>1, <1>2, <1>3, <1>4 DEF TypeOK
<1>9. BlocksAccounted'
  BY <1>3, <1>4, <1>7 DEF BlocksAccounted
<1>10. CurrentIsRunning'
  BY <1>1, <1>3, <1>4, <1>6 DEF CurrentIsRunning
<1>11. ContextsIntact'
  <2>1. \A c \in Elems(runq') : c \in Block /\ c # sched' /\ c \in Elems(runq)
    BY <1>3, <1>4
  <2>2. \A c \in Elems(runq') : ctx'[c] = ctx[c]
    BY <1>1, <1>2, <2>1 DEF TypeOK
  <2>3. ctx'[sched'] = cpu
    BY <1>1, <1>2, <1>4 DEF TypeOK
  <2> QED BY <1>1, <1>4, <1>6, <2>1, <2>2, <2>3 DEF IInv, ContextsIntact
<1>12. NoThreadLost'
  <2>1. {tidOf'[c] : c \in Elems(runq')} \cup {tidOf[b]} = {tidOf[c] : c \in Elems(runq)}
    BY <1>3, <1>4
  <2>2. live = {tidOf[c] : c \in Elems(runq)}
    BY <1>1 DEF IInv, NoThreadLost
  <2> QED BY <1>1, <1>6, <2>1, <2>2 DEF NoThreadLost
<1>13. Bookkeeping'
  BY <1>4 DEF Bookkeeping
<1>14. IdsDistinct'
  <2>1. Elems(runq') \cup Running' = Elems(runq)
    BY <1>3, <1>7
  <2>2. 1..tid - 1 \subseteq 1..tid' - 1
    <3>1. tid \in Int /\ tid' \in Int /\ tid <= tid'
      BY <1>2, <1>4 DEF TypeOK
    <3> QED BY ONLY <3>1, RangeGrows
  <2> QED BY <1>4, <2>1, <2>2 DEF IInv, IdsDistinct
<1> QED BY <1>8, <1>9, <1>10, <1>11, <1>12, <1>13, <1>14 DEF IInv

\* rpi_yield keeps the invariant.
LEMMA YieldInv == IInv /\ rpi_yield => IInv'
<1> SUFFICES ASSUME IInv, rpi_yield PROVE IInv'
  OBVIOUS
<1> USE ThreadsAssumption DEF Id, Block, Main, Null
<1> DEFINE q == Append(runq, cur)
           b == Head(q)
<1>1. /\ cpu.who # Main /\ runq # <<>>
      /\ cur' = b /\ runq' = Tail(q)
      /\ ctx' = [ctx EXCEPT ![cur] = cpu] /\ cpu' = ctx[b]
      /\ freeq' = freeq /\ sched' = sched /\ tid' = tid /\ nalloced' = nalloced
      /\ tidOf' = tidOf /\ did' = did /\ live' = live
  BY DEF rpi_yield, rpi_cswitch
<1>2. TypeOK /\ Running = {cur} /\ Once(runq) /\ cur \in Block /\ sched # Null
  BY <1>1 DEF IInv, Running, BlocksAccounted, CurrentIsRunning, TypeOK, Bookkeeping
<1>3. /\ Fixed = {sched} /\ sched # cur /\ cur \notin Elems(runq)
      /\ sched \notin Elems(runq) /\ sched \in Block
  BY <1>2 DEF IInv, Fixed, BlocksAccounted, TypeOK
<1>4. /\ q \in Seq(Block) /\ Elems(q) = Elems(runq) \cup {cur} /\ Once(q) /\ q # <<>>
  <2>1. runq \in Seq(Block) /\ cur \in Block /\ Once(runq) /\ cur \notin Elems(runq)
    BY <1>2, <1>3 DEF TypeOK
  <2> HIDE DEF Block, q, TypeOK
  <2>2. /\ Append(runq, cur) \in Seq(Block) /\ Append(runq, cur) # <<>>
        /\ Elems(Append(runq, cur)) = Elems(runq) \cup {cur}
        /\ Once(Append(runq, cur))
    BY ONLY <2>1, AppendElems
  <2> QED BY ONLY <2>2 DEF q
<1>5. b \in Elems(runq)
  <2>1. Head(q) = Head(runq)
    BY <1>1, <1>2, AppendElems DEF TypeOK
  <2> QED BY <1>1, <1>2, <2>1, TailElems DEF TypeOK
<1> HIDE DEF q
<1>6. /\ b \in Block /\ b \in Elems(q)
      /\ runq' \in Seq(Block) /\ Once(runq')
      /\ Elems(runq') = Elems(q) \ {b}
  BY <1>1, <1>4, TailElems
<1>7. /\ ctx[b] = [who |-> tidOf[b], steps |-> did[tidOf[b]]]
      /\ tidOf[b] \in 1..tid - 1 /\ tidOf[cur] = cpu.who
  BY <1>1, <1>5 DEF IInv, ContextsIntact, IdsDistinct, CurrentIsRunning
<1> HIDE DEF b
<1>8. cpu'.who = tidOf[b] /\ cpu'.steps = did[tidOf[b]] /\ cpu'.who # Main
  BY <1>1, <1>2, <1>7 DEF TypeOK
<1>9. Running' = {b} /\ Fixed' = Fixed
  BY <1>1, <1>8 DEF Running, Fixed
<1>10. Elems(runq') \cup Running' = Elems(runq) \cup Running
  BY <1>2, <1>4, <1>6, <1>9
<1>11. TypeOK'
  BY <1>1, <1>2, <1>6 DEF TypeOK
<1>12. BlocksAccounted'
  BY <1>1, <1>2, <1>3, <1>4, <1>6, <1>9 DEF IInv, BlocksAccounted
<1>13. CurrentIsRunning'
  BY <1>1, <1>6, <1>8 DEF CurrentIsRunning
<1>14. ContextsIntact'
  <2>1. ASSUME NEW c \in Elems(runq')
        PROVE  ctx'[c] = [who |-> tidOf[c], steps |-> did[tidOf[c]]]
    <3>1. CASE c = cur
      <4>1. ctx'[c] = cpu /\ cpu.steps = did[tidOf[c]]
        BY <1>1, <1>2, <1>7, <3>1 DEF TypeOK, IInv, ContextsIntact
      <4>2. cpu = [who |-> cpu.who, steps |-> cpu.steps]
        BY <1>2 DEF TypeOK, Execution
      <4> QED BY <1>7, <3>1, <4>1, <4>2
    <3>2. CASE c # cur
      <4>1. c \in Elems(runq) /\ c \in Block
        BY <1>2, <1>4, <1>6, <3>2, ElemsIn DEF TypeOK
      <4>2. ctx'[c] = ctx[c]
        BY <1>1, <1>2, <3>2, <4>1 DEF TypeOK
      <4> QED BY <4>1, <4>2 DEF IInv, ContextsIntact
    <3> QED BY <3>1, <3>2
  <2>2. ctx'[sched] = ctx[sched] /\ ctx[sched].who = Main
    BY <1>1, <1>2, <1>3 DEF TypeOK, IInv, ContextsIntact
  <2> QED BY <1>1, <1>8, <2>1, <2>2 DEF ContextsIntact
<1>15. NoThreadLost'
  <2>1. {tidOf[c] : c \in Elems(runq')} \cup {tidOf[b]}
           = {tidOf[c] : c \in Elems(runq)} \cup {tidOf[cur]}
    BY <1>4, <1>6
  <2>2. live = {tidOf[c] : c \in Elems(runq)} \cup {cpu.who}
    BY <1>1 DEF IInv, NoThreadLost
  <2>3. live' = {tidOf[c] : c \in Elems(runq')} \cup {cpu'.who}
    BY <1>1, <1>7, <1>8, <2>1, <2>2
  <2>4. {tidOf'[c] : c \in Elems(runq')} = {tidOf[c] : c \in Elems(runq')}
    BY <1>1
  <2> QED BY <1>8, <2>3, <2>4 DEF NoThreadLost
<1>16. Bookkeeping' /\ IdsDistinct'
  BY <1>1, <1>2, <1>10 DEF IInv, Bookkeeping, IdsDistinct
<1> QED BY <1>11, <1>12, <1>13, <1>14, <1>15, <1>16 DEF IInv

\* rpi_exit keeps the invariant.
LEMMA ExitInv == IInv /\ rpi_exit => IInv'
<1> SUFFICES ASSUME IInv, rpi_exit PROVE IInv'
  OBVIOUS
<1> USE ThreadsAssumption DEF Id, Block, Main, Null
<1>1. /\ cpu.who # Main
      /\ cur' = IF runq = <<>> THEN sched ELSE Head(runq)
      /\ runq' = IF runq = <<>> THEN runq ELSE Tail(runq)
      /\ freeq' = <<cur>> \o freeq
      /\ ctx' = [ctx EXCEPT ![cur] = cpu] /\ cpu' = ctx[cur']
      /\ live' = live \ {cpu.who}
      /\ sched' = sched /\ tid' = tid /\ nalloced' = nalloced
      /\ tidOf' = tidOf /\ did' = did
  BY DEF rpi_exit, rpi_cswitch, th_free
<1>2. TypeOK /\ Running = {cur} /\ Once(runq) /\ cur \in Block /\ sched # Null
  BY <1>1 DEF IInv, Running, BlocksAccounted, CurrentIsRunning, TypeOK, Bookkeeping
<1>3. /\ Fixed = {sched} /\ sched # cur /\ cur \notin Elems(runq) /\ cur \notin Elems(freeq)
      /\ sched \notin Elems(runq) /\ sched \in Block
  BY <1>2 DEF IInv, Fixed, BlocksAccounted, TypeOK
<1>4. /\ freeq' \in Seq(Block) /\ Once(freeq')
      /\ Elems(freeq') = Elems(freeq) \cup {cur}
  <2>1. freeq \in Seq(Block) /\ Once(freeq)
    BY <1>2 DEF TypeOK, IInv, BlocksAccounted
  <2> QED BY <1>1, <1>2, <1>3, <2>1, ConsElems
<1>5. /\ runq' \in Seq(Block) /\ Once(runq')
      /\ Elems(runq') \cup Running' = Elems(runq)
      /\ Elems(runq') \cap Running' = {} /\ Fixed' = Fixed
      /\ cur' \in Block /\ cur' # cur
      /\ cpu' = ctx[cur'] /\ cpu' \in Execution
      /\ cpu'.who # Main => /\ tidOf[cur'] = cpu'.who /\ cur' \in Elems(runq)
                            /\ cpu'.steps = did[cpu'.who]
  <2>1. runq \in Seq(Block)
    BY <1>2 DEF TypeOK
  <2>2. CASE runq = <<>>
    <3>1. cur' = sched /\ runq' = <<>> /\ ctx[sched].who = Main
      BY <1>1, <2>2 DEF IInv, ContextsIntact
    <3>2. cpu' = ctx[cur'] /\ cpu' \in Execution /\ cpu'.who = Main
      BY <1>1, <1>2, <1>3, <3>1 DEF TypeOK
    <3>3. Running' = {}
      BY <3>2 DEF Running
    <3> QED BY <1>1, <1>3, <2>1, <2>2, <3>1, <3>2, <3>3, EmptyElems DEF Fixed
  <2>3. CASE runq # <<>>
    <3>1. cur' = Head(runq) /\ runq' = Tail(runq)
      BY <1>1, <2>3
    <3>2. /\ cur' \in Block /\ cur' \in Elems(runq)
          /\ runq' \in Seq(Block) /\ Once(runq')
          /\ Elems(runq') = Elems(runq) \ {cur'}
      BY <1>2, <2>1, <2>3, <3>1, TailElems
    <3>3. /\ ctx[cur'] = [who |-> tidOf[cur'], steps |-> did[tidOf[cur']]]
          /\ tidOf[cur'] \in 1..tid - 1
      BY <3>2 DEF IInv, ContextsIntact, IdsDistinct
    <3>4. /\ cpu' = ctx[cur'] /\ cpu' \in Execution
          /\ cpu'.who = tidOf[cur'] /\ cpu'.steps = did[tidOf[cur']] /\ cpu'.who # Main
      <4>1. cpu' = ctx[cur'] /\ cpu' \in Execution
        BY <1>1, <1>2, <3>2 DEF TypeOK
      <4>2. cpu'.who = tidOf[cur'] /\ cpu'.steps = did[tidOf[cur']]
        BY <3>3, <4>1
      <4>3. tid \in 1..MaxTid + 1
        BY <1>2 DEF TypeOK
      <4> QED BY <3>3, <4>1, <4>2, <4>3
    <3>5. Running' = {cur'}
      BY <3>4 DEF Running
    <3> QED BY <1>1, <1>3, <3>2, <3>4, <3>5 DEF Fixed
  <2> QED BY <2>2, <2>3
<1>6. cpu.who = tidOf[cur]
  BY <1>1 DEF IInv, CurrentIsRunning
<1>7. TypeOK'
  BY <1>1, <1>2, <1>4, <1>5 DEF TypeOK
<1>8. BlocksAccounted'
  BY <1>1, <1>2, <1>3, <1>4, <1>5 DEF IInv, BlocksAccounted
<1>9. CurrentIsRunning'
  BY <1>1, <1>5 DEF CurrentIsRunning
<1>10. ContextsIntact'
  <2>1. \A c \in Elems(runq') : c \in Elems(runq) /\ c # cur /\ c \in Block
    BY <1>2, <1>3, <1>5, ElemsIn DEF TypeOK
  <2>2. \A c \in Elems(runq') : ctx'[c] = ctx[c]
    BY <1>1, <1>2, <2>1 DEF TypeOK
  <2>3. ctx'[sched] = ctx[sched] /\ ctx[sched].who = Main
    BY <1>1, <1>2, <1>3 DEF TypeOK, IInv, ContextsIntact
  <2> QED BY <1>1, <1>5, <2>1, <2>2, <2>3 DEF IInv, ContextsIntact
<1>11. NoThreadLost'
  <2>1. live = {tidOf[c] : c \in Elems(runq)} \cup {tidOf[cur]}
    BY <1>1, <1>6 DEF IInv, NoThreadLost
  <2>2. \A c \in Elems(runq) : tidOf[c] # tidOf[cur]
    BY <1>2, <1>3 DEF IInv, IdsDistinct
  <2>3. live' = {tidOf[c] : c \in Elems(runq)}
    BY <1>1, <1>6, <2>1, <2>2
  <2>4. CASE cpu'.who = Main
    <3>1. Running' = {}
      BY <2>4 DEF Running
    <3>2. Elems(runq') = Elems(runq)
      BY <1>5, <3>1
    <3> QED BY <1>1, <2>3, <2>4, <3>2 DEF NoThreadLost
  <2>5. CASE cpu'.who # Main
    <3>1. Running' = {cur'}
      BY <2>5 DEF Running
    <3>2. {tidOf[c] : c \in Elems(runq')} \cup {tidOf[cur']} = {tidOf[c] : c \in Elems(runq)}
      BY <1>5, <3>1
    <3>3. tidOf[cur'] = cpu'.who /\ tidOf' = tidOf
      BY <1>1, <1>5, <2>5
    <3> QED BY <2>3, <2>5, <3>2, <3>3 DEF NoThreadLost
  <2> QED BY <2>4, <2>5
<1>12. Bookkeeping' /\ IdsDistinct'
  BY <1>1, <1>2, <1>5 DEF IInv, Bookkeeping, IdsDistinct
<1> QED BY <1>7, <1>8, <1>9, <1>10, <1>11, <1>12 DEF IInv

\* What a thread does between the calls keeps the invariant.
LEMMA WorkInv == IInv /\ Work => IInv'
<1> SUFFICES ASSUME IInv, Work PROVE IInv'
  OBVIOUS
<1> USE ThreadsAssumption DEF Id, Block, Main, Null
<1>1. /\ cpu.who # Main /\ cpu.steps < MaxSteps
      /\ cpu' = [cpu EXCEPT !.steps = @ + 1]
      /\ did' = [did EXCEPT ![cpu.who] = @ + 1]
      /\ runq' = runq /\ freeq' = freeq /\ cur' = cur /\ sched' = sched
      /\ tid' = tid /\ nalloced' = nalloced /\ tidOf' = tidOf /\ ctx' = ctx
      /\ live' = live
  BY DEF Work
<1>2. /\ TypeOK /\ Running = {cur} /\ cur \notin Elems(runq)
      /\ tidOf[cur] = cpu.who /\ cpu.steps = did[cpu.who]
  BY <1>1 DEF IInv, Running, BlocksAccounted, CurrentIsRunning, ContextsIntact
<1>3. /\ cpu.who \in Id /\ cpu.steps \in 0..MaxSteps
      /\ cpu'.who = cpu.who /\ cpu'.steps = cpu.steps + 1 /\ cpu' \in Execution
  <2>1. cpu \in [who : Id \cup {Main}, steps : 0..MaxSteps]
    BY <1>2 DEF TypeOK, Execution
  <2> QED BY <1>1, <2>1 DEF Execution
<1>4. Running' = Running /\ Fixed' = Fixed
  BY <1>1, <1>3 DEF Running, Fixed
<1>5. TypeOK'
  <2>1. did' \in [Id -> 0..MaxSteps]
    BY <1>1, <1>2, <1>3 DEF TypeOK
  <2> QED BY <1>1, <1>2, <1>3, <2>1 DEF TypeOK
<1>6. BlocksAccounted' /\ NoThreadLost'
  BY <1>1, <1>3, <1>4 DEF IInv, BlocksAccounted, NoThreadLost
<1>7. Bookkeeping' /\ IdsDistinct' /\ CurrentIsRunning'
  BY <1>1, <1>3, <1>4 DEF IInv, Bookkeeping, IdsDistinct, CurrentIsRunning
<1>8. ContextsIntact'
  <2>1. ASSUME NEW c \in Elems(runq) PROVE did'[tidOf[c]] = did[tidOf[c]]
    <3>1. tidOf[c] # cpu.who
      BY <1>2 DEF IInv, IdsDistinct
    <3>2. tidOf[c] \in Id
      <4>1. tidOf[c] \in 1..tid - 1 /\ tid \in 1..MaxTid + 1
        BY <1>2 DEF IInv, IdsDistinct, TypeOK
      <4> QED BY <4>1
    <3> QED BY <1>1, <1>2, <3>1, <3>2 DEF TypeOK
  <2>2. did'[cpu.who] = did[cpu.who] + 1
    BY <1>1, <1>2, <1>3 DEF TypeOK
  <2>3. ctx[sched].who = Main
    BY <1>1 DEF IInv, ContextsIntact
  <2> QED BY <1>1, <1>2, <1>3, <2>1, <2>2, <2>3 DEF IInv, ContextsIntact
<1> QED BY <1>5, <1>6, <1>7, <1>8 DEF IInv

\* IInv holds in every reachable state.
THEOREM Invariant == Spec => []IInv
<1>1. IInv /\ [Next]_vars => IInv'
  <2> SUFFICES ASSUME IInv, [Next]_vars PROVE IInv'
    OBVIOUS
  <2>1. CASE UNCHANGED vars
    BY <2>1 DEF vars, IInv, TypeOK, BlocksAccounted, CurrentIsRunning, ContextsIntact,
                NoThreadLost, Bookkeeping, IdsDistinct, Running, Fixed
  <2>2. CASE Idle
    BY <2>1, <2>2 DEF Idle
  <2> QED BY <2>1, <2>2, ForkInv, StartInv, YieldInv, ExitInv, WorkInv DEF Next
<1> QED BY <1>1, InitInv, PTL DEF Spec

\* Every variable keeps its type; a thread never has more steps than it took.
THEOREM TypeCorrect == Spec => []TypeOK
<1>1. IInv => TypeOK
  BY DEF IInv
<1> QED BY <1>1, Invariant, PTL

\* rpi-thread.c never loses a block and never has one in two places.
THEOREM BlocksConserved == Spec => []BlocksAccounted
<1>1. IInv => BlocksAccounted
  BY DEF IInv
<1> QED BY <1>1, Invariant, PTL

\* rpi_cur_thread() tells the truth, however often blocks are recycled.
THEOREM CurrentCorrect == Spec => []CurrentIsRunning
<1>1. IInv => CurrentIsRunning
  BY DEF IInv
<1> QED BY <1>1, Invariant, PTL

\* rpi_cswitch always resumes a thread where it was suspended, although rpi_exit saves
\* into a block that is already free.
THEOREM SwitchesResume == Spec => []ContextsIntact
<1>1. IInv => ContextsIntact
  BY DEF IInv
<1> QED BY <1>1, Invariant, PTL

\* rpi_thread_start returns only when every forked thread has exited.
THEOREM ThreadsKept == Spec => []NoThreadLost
<1>1. IInv => NoThreadLost
  BY DEF IInv
<1> QED BY <1>1, Invariant, PTL

----------------------------------------------------------------------------
(* Refinement of RoundRobin.                                               *)

\* What t->tid can be, and what gives each block its id.
Name == Id \cup {0}
Names == [Block -> Name]

\* The ids of a queue of blocks.
Ids(f, q) == [i \in 1..Len(q) |-> f[q[i]]]

\* The ids of a queue of blocks are a sequence.
LEMMA IdsSeq ==
    ASSUME NEW q \in Seq(Block), NEW f \in Names
    PROVE  /\ Ids(f, q) \in Seq(Name) /\ Len(Ids(f, q)) = Len(q)
           /\ \A i \in 1..Len(q) : Ids(f, q)[i] = f[q[i]]
<1>1. Len(q) \in Nat /\ \A i \in 1..Len(q) : q[i] \in Block /\ f[q[i]] \in Name
  BY ElementOfSeq, LenProperties DEF Names
<1>2. Ids(f, q) \in [1..Len(q) -> Name]
  BY <1>1 DEF Ids
<1>3. Ids(f, q) \in Seq(Name)
  BY <1>1, <1>2
<1>4. Len(Ids(f, q)) = Len(q)
  BY <1>1, <1>2, <1>3, LenProperties
<1> QED BY <1>3, <1>4 DEF Ids

\* The id of an appended block is the last.
LEMMA IdsAppend ==
    ASSUME NEW q \in Seq(Block), NEW f \in Names, NEW x \in Block
    PROVE  Ids(f, Append(q, x)) = Append(Ids(f, q), f[x])
<1> DEFINE a == Ids(f, Append(q, x))
           b == Append(Ids(f, q), f[x])
<1>1. /\ Append(q, x) \in Seq(Block) /\ Len(q) \in Nat
      /\ Len(Append(q, x)) = Len(q) + 1
      /\ \A i \in 1..Len(q) : Append(q, x)[i] = q[i]
      /\ Append(q, x)[Len(q) + 1] = x
  OBVIOUS
<1>2. /\ a \in Seq(Name) /\ Len(a) = Len(q) + 1
      /\ \A i \in 1..Len(q) + 1 : a[i] = f[Append(q, x)[i]]
  BY <1>1, IdsSeq
<1>3. /\ Ids(f, q) \in Seq(Name) /\ Len(Ids(f, q)) = Len(q)
      /\ \A i \in 1..Len(q) : Ids(f, q)[i] = f[q[i]]
  BY IdsSeq
<1>4. f[x] \in Name
  BY DEF Names
<1>5. /\ b \in Seq(Name) /\ Len(b) = Len(q) + 1
      /\ \A i \in 1..Len(q) : b[i] = Ids(f, q)[i]
      /\ b[Len(q) + 1] = f[x]
  BY <1>3, <1>4
<1> HIDE DEF a, b
<1>6. \A i \in 1..Len(a) : a[i] = b[i]
  BY <1>1, <1>2, <1>3, <1>5
<1>7. a = b
  BY <1>2, <1>5, <1>6, SeqEqual
<1> QED BY <1>7 DEF a, b

\* The ids of what is left.
LEMMA IdsTail ==
    ASSUME NEW q \in Seq(Block), NEW f \in Names, q # <<>>
    PROVE  /\ Ids(f, q) # <<>>
           /\ Head(Ids(f, q)) = f[Head(q)]
           /\ Ids(f, Tail(q)) = Tail(Ids(f, q))
<1> DEFINE a == Ids(f, q)
           b == Ids(f, Tail(q))
<1>1. /\ Tail(q) \in Seq(Block) /\ Len(Tail(q)) = Len(q) - 1
      /\ \A i \in 1..Len(q) - 1 : Tail(q)[i] = q[i + 1]
      /\ Len(q) \in Nat \ {0} /\ Head(q) = q[1]
  BY HeadTailProperties, EmptySeq
<1>2. /\ a \in Seq(Name) /\ Len(a) = Len(q)
      /\ \A i \in 1..Len(q) : a[i] = f[q[i]]
  BY IdsSeq
<1>3. /\ b \in Seq(Name) /\ Len(b) = Len(q) - 1
      /\ \A i \in 1..Len(q) - 1 : b[i] = f[Tail(q)[i]]
  BY <1>1, IdsSeq
<1> HIDE DEF a, b
<1>4. a # <<>> /\ Head(a) = a[1]
  BY <1>1, <1>2
<1>5. /\ Tail(a) \in Seq(Name) /\ Len(Tail(a)) = Len(q) - 1
      /\ \A i \in 1..Len(q) - 1 : Tail(a)[i] = a[i + 1]
  BY <1>2, <1>4, HeadTailProperties
<1>6. \A i \in 1..Len(b) : b[i] = Tail(a)[i]
  BY <1>1, <1>2, <1>3, <1>5
<1>7. b = Tail(a)
  BY <1>3, <1>5, <1>6, SeqEqual
<1> QED BY <1>1, <1>2, <1>4, <1>7 DEF a, b

\* A queue keeps its ids while its blocks keep theirs.
LEMMA IdsSame ==
    ASSUME NEW q, NEW f, NEW g, \A x \in Elems(q) : f[x] = g[x]
    PROVE  Ids(f, q) = Ids(g, q)
BY DEF Ids, Elems

\* The abstract ready queue is the ids of runq.
LEMMA ReadyIsIds == Ready = Ids(tidOf, runq) /\ Ready' = Ids(tidOf', runq')
BY DEF Ready, Ids

\* The first ready thread is the one at the head of runq.
LEMMA ReadyHead ==
    ASSUME IInv, runq # <<>>
    PROVE  /\ Head(runq) \in Block
           /\ ctx[Head(runq)].who = tidOf[Head(runq)]
           /\ Ready # <<>> /\ Head(Ready) = tidOf[Head(runq)]
           /\ Ids(tidOf, Tail(runq)) = Tail(Ready)
<1> DEFINE b == Head(runq)
<1>1. runq \in Seq(Block) /\ Once(runq) /\ tidOf \in Names
  BY DEF IInv, TypeOK, BlocksAccounted, Names, Name
<1>2. b \in Block /\ b \in Elems(runq)
  BY <1>1, TailElems
<1> HIDE DEF b
<1>3. ctx[b] = [who |-> tidOf[b], steps |-> did[tidOf[b]]]
  BY <1>2 DEF IInv, ContextsIntact
<1>4. ctx[b].who = tidOf[b]
  BY <1>3
<1>5. /\ Ids(tidOf, runq) # <<>>
      /\ Head(Ids(tidOf, runq)) = tidOf[Head(runq)]
      /\ Ids(tidOf, Tail(runq)) = Tail(Ids(tidOf, runq))
  BY <1>1, IdsTail
<1> QED BY <1>2, <1>4, <1>5, ReadyIsIds DEF b

\* A thread that becomes ready is the last.
LEMMA ReadyAppend ==
    ASSUME IInv, NEW x \in Block
    PROVE  /\ Append(runq, x) \in Seq(Block) /\ Append(runq, x) # <<>>
           /\ Ids(tidOf, Append(runq, x)) = Append(Ready, tidOf[x])
           /\ Ids(tidOf, Tail(Append(runq, x))) = Tail(Append(Ready, tidOf[x]))
<1>1. runq \in Seq(Block) /\ tidOf \in Names
  BY DEF IInv, TypeOK, Names, Name
<1>2. Append(runq, x) \in Seq(Block) /\ Append(runq, x) # <<>>
  BY <1>1, AppendElems
<1>3. Ids(tidOf, Append(runq, x)) = Append(Ids(tidOf, runq), tidOf[x])
  BY <1>1, IdsAppend
<1>4. Ids(tidOf, Tail(Append(runq, x))) = Tail(Ids(tidOf, Append(runq, x)))
  BY <1>1, <1>2, IdsTail
<1> QED BY <1>2, <1>3, <1>4, ReadyIsIds

\* rpi_fork, rpi_yield, rpi_exit and rpi_thread_start make exactly the moves of a
\* round-robin scheduler of distinct ids.
THEOREM ThreadsImplementRoundRobin == Spec => ImplementsRoundRobin
<1> USE ThreadsAssumption
<1>1. Init => Threads!Init
  <2> SUFFICES ASSUME Init PROVE Threads!Init
    OBVIOUS
  <2>1. Ready = <<>>
    BY DEF Init, Ready
  <2>2. 1..tid - 1 = {}
    BY DEF Init
  <2> QED BY <2>1, <2>2 DEF Init, Threads!Init
<1>2. ASSUME IInv, IInv', [Next]_vars PROVE [Threads!Next]_(Threads!vars)
  <2> USE <1>2
  <2>1. /\ tidOf \in Names /\ tidOf' \in Names
        /\ runq \in Seq(Block) /\ runq' \in Seq(Block)
        /\ tid \in 1..MaxTid + 1
    BY DEF IInv, TypeOK, Names, Name
  <2>2. CASE rpi_fork
    <3>1. /\ tid <= MaxTid /\ th_alloc /\ runq' = Append(runq, NewBlock) /\ cpu' = cpu
      BY <2>2 DEF rpi_fork
    <3>2. /\ NewBlock \in Block /\ NewBlock \notin Elems(runq)
          /\ tid' = tid + 1 /\ tidOf' = [tidOf EXCEPT ![NewBlock] = tid]
      BY <3>1, AllocFresh
    <3>3. \A x \in Elems(runq) : tidOf'[x] = tidOf[x]
      BY <2>1, <3>2, ElemsIn DEF Names
    <3>4. tidOf'[NewBlock] = tid
      BY <2>1, <3>2 DEF Names
    <3>5. Ready' = Append(Ready, tid)
      <4>1. Ids(tidOf', Append(runq, NewBlock)) = Append(Ids(tidOf', runq), tidOf'[NewBlock])
        BY ONLY <2>1, <3>2, IdsAppend
      <4>2. Ids(tidOf', runq) = Ids(tidOf, runq)
        BY ONLY <3>3, IdsSame
      <4> QED BY ONLY <3>1, <3>4, <4>1, <4>2, ReadyIsIds
    <3>6. tid \in Id \ (1..tid - 1) /\ 1..tid' - 1 = (1..tid - 1) \cup {tid}
      BY <2>1, <3>1, <3>2 DEF Id
    <3> QED BY <3>1, <3>5, <3>6 DEF Threads!Fork, Threads!Next
  <2>3. CASE rpi_thread_start
    <3>1. /\ cpu.who = Main /\ runq # <<>> /\ runq' = Tail(runq)
          /\ cpu' = ctx[Head(runq)]
      BY <2>3 DEF rpi_thread_start, rpi_cswitch
    <3>2. /\ Ready # <<>> /\ cpu'.who = Head(Ready)
          /\ Ids(tidOf, Tail(runq)) = Tail(Ready)
      BY <3>1, ReadyHead
    <3>3. /\ \A x \in Elems(runq) : tidOf'[x] = tidOf[x]
          /\ \/ tid' = tid
             \/ tid <= MaxTid /\ tid' = tid + 1
      <4>1. CASE sched = Null
        <5>1. th_alloc /\ tid <= MaxTid
          BY <2>3, <4>1 DEF rpi_thread_start, IInv, Bookkeeping
        <5>2. /\ NewBlock \in Block /\ NewBlock \notin Elems(runq)
              /\ tid' = tid + 1 /\ tidOf' = [tidOf EXCEPT ![NewBlock] = tid]
          BY <5>1, AllocFresh
        <5> QED BY <2>1, <5>1, <5>2, ElemsIn DEF Names
      <4>2. CASE sched # Null
        BY <2>3, <4>2 DEF rpi_thread_start
      <4> QED BY <4>1, <4>2
    <3>4. Ready' = Tail(Ready)
      <4>1. \A x \in Elems(Tail(runq)) : tidOf'[x] = tidOf[x]
        BY <2>1, <3>1, <3>3, TailElems DEF IInv, BlocksAccounted
      <4>2. Ids(tidOf', Tail(runq)) = Ids(tidOf, Tail(runq))
        BY ONLY <4>1, IdsSame
      <4> QED BY ONLY <3>1, <3>2, <4>2, ReadyIsIds
    <3>5. \/ 1..tid' - 1 = 1..tid - 1
          \/ tid \in Id \ (1..tid - 1) /\ 1..tid' - 1 = (1..tid - 1) \cup {tid}
      BY <2>1, <3>3 DEF Id
    <3> QED BY <3>1, <3>2, <3>4, <3>5 DEF Threads!Start, Threads!Next
  <2>4. CASE rpi_yield
    <3>1. /\ cpu.who # Main /\ runq # <<>> /\ runq' = Tail(Append(runq, cur))
          /\ cpu' = ctx[Head(Append(runq, cur))]
          /\ tid' = tid /\ tidOf' = tidOf
      BY <2>4 DEF rpi_yield, rpi_cswitch
    <3>2. cur \in Block /\ tidOf[cur] = cpu.who
      BY <3>1 DEF IInv, CurrentIsRunning, TypeOK
    <3>3. Head(Append(runq, cur)) = Head(runq)
      BY ONLY <2>1, <3>1, <3>2, AppendElems
    <3>4. Ready # <<>> /\ cpu'.who = Head(Ready)
      BY <3>1, <3>3, ReadyHead
    <3>5. Ready' = Tail(Append(Ready, cpu.who))
      BY <3>1, <3>2, ReadyAppend, ReadyIsIds
    <3>6. Ready' = Append(Tail(Ready), cpu.who)
      <4>1. Ready \in Seq(Name) /\ cpu.who \in Name
        <5>1. tidOf[cur] \in Name
          BY <2>1, <3>2 DEF Names
        <5> QED BY ONLY <2>1, <3>2, <5>1, IdsSeq, ReadyIsIds
      <4> QED BY ONLY <3>4, <3>5, <4>1
    <3> QED BY <3>1, <3>4, <3>6 DEF Threads!Yield, Threads!Next
  <2>5. CASE rpi_exit
    <3>1. /\ cpu.who # Main /\ tid' = tid /\ tidOf' = tidOf
          /\ cur' = (IF runq = <<>> THEN sched ELSE Head(runq))
          /\ runq' = (IF runq = <<>> THEN runq ELSE Tail(runq))
          /\ cpu' = ctx[cur']
      BY <2>5 DEF rpi_exit, rpi_cswitch
    <3>2. CASE runq = <<>>
      <4>1. cpu'.who = Main /\ runq' = runq
        BY <3>1, <3>2 DEF IInv, ContextsIntact
      <4>2. Ready = <<>> /\ Ready' = Ready
        BY <3>1, <3>2, <4>1 DEF Ready
      <4> QED BY <3>1, <4>1, <4>2 DEF Threads!Exit, Threads!Next
    <3>3. CASE runq # <<>>
      <4>1. cpu' = ctx[Head(runq)] /\ runq' = Tail(runq)
        BY <3>1, <3>3
      <4>2. /\ Ready # <<>> /\ cpu'.who = Head(Ready)
            /\ Ids(tidOf, Tail(runq)) = Tail(Ready)
        BY <3>3, <4>1, ReadyHead
      <4>3. Ready' = Tail(Ready)
        BY <3>1, <4>1, <4>2, ReadyIsIds
      <4> QED BY <3>1, <4>2, <4>3 DEF Threads!Exit, Threads!Next
    <3> QED BY <3>2, <3>3
  <2>6. CASE Work
    <3>1. cpu'.who = cpu.who
      BY <2>6 DEF Work, IInv, TypeOK, Execution
    <3> QED BY <2>6, <3>1 DEF Work, Ready, Threads!vars
  <2>7. CASE UNCHANGED vars
    BY <2>7 DEF vars, Ready, Threads!vars
  <2> QED BY <2>2, <2>3, <2>4, <2>5, <2>6, <2>7 DEF Next, Idle
<1> QED BY <1>1, <1>2, Invariant, PTL DEF Spec, ImplementsRoundRobin, Threads!Spec
=============================================================================
