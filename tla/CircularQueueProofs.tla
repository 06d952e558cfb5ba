------------------------ MODULE CircularQueueProofs ------------------------
(***************************************************************************)
(* What the ring of libpi/libc/circular.h guarantees for every size and    *)
(* every interleaving, as long as cq_peek_n runs with interrupts masked.   *)
(***************************************************************************)
EXTENDS CircularQueue, SequenceTheorems, TLAPS

----------------------------------------------------------------------------
(* The arithmetic of the indices.                                          *)

\* The remainder of a number written as quotient and remainder.
LEMMA Remainder ==
    ASSUME NEW n \in Nat \ {0}, NEW r \in 0..n-1, NEW q \in Int
    PROVE  (q * n + r) % n = r
OBVIOUS

\* The part of the assumption that most steps need.
LEMMA Size == N \in Nat /\ N > 1 /\ MaxBatch \in Nat \ {0}
BY QueueAssumption

\* The next index, without the modulo.
LEMMA BumpIndex ==
    ASSUME NEW i \in Index
    PROVE  /\ Bump(i) \in Index
           /\ Bump(i) = IF i = N - 1 THEN 0 ELSE i + 1
BY QueueAssumption DEF Bump, Index

\* cq_nelem is the distance from tail to head around the ring, although the
\* subtraction wraps at the word size.
LEMMA NelemExact ==
    ASSUME NEW h \in Index, NEW t \in Index
    PROVE  Nelem(h, t) = IF h >= t THEN h - t ELSE h - t + N
<1> USE QueueAssumption DEF Index
<1>1. CASE h >= t
  <2>1. (h - t) % WordMod = h - t
    BY <1>1, h - t \in 0..WordMod-1
  <2>2. (h - t) % N = h - t
    BY <1>1, h - t \in 0..N-1
  <2> QED BY <1>1, <2>1, <2>2 DEF Nelem
<1>2. CASE h < t
  <2> DEFINE k == WordMod \div N
  <2>1. k \in Int /\ WordMod = k * N
    OBVIOUS
  <2>2. (h - t) % WordMod = h - t + WordMod
    <3>1. h - t = (-1) * WordMod + (h - t + WordMod)
      OBVIOUS
    <3>2. h - t + WordMod \in 0..WordMod-1
      BY <1>2
    <3> QED BY <3>1, <3>2, Remainder
  <2>3. h - t + WordMod = (k - 1) * N + (h - t + N)
    BY <2>1
  <2>4. h - t + N \in 0..N-1
    BY <1>2
  <2>5. (h - t + WordMod) % N = h - t + N
    <3> HIDE DEF k
    <3>1. k - 1 \in Int /\ N \in Nat \ {0}
      BY <2>1
    <3>2. ((k - 1) * N + (h - t + N)) % N = h - t + N
      BY ONLY <2>4, <3>1, Remainder
    <3> QED BY <2>3, <3>2, Zenon
  <2> QED BY <1>2, <2>2, <2>5 DEF Nelem
<1> QED BY <1>1, <1>2

\* Full, empty and the count agree: the ring holds 0 to N-1 elements.
LEMMA SpaceExact ==
    ASSUME NEW h \in Index, NEW t \in Index
    PROVE  /\ Nelem(h, t) \in Index
           /\ Nspace(h, t) \in Index
           /\ Full(h, t) <=> Nspace(h, t) = 0
           /\ Empty(h, t) <=> Nelem(h, t) = 0
<1>1. Full(h, t) <=> Bump(h) = t
  BY DEF Full, Bump
<1>2. Bump(h) = IF h = N - 1 THEN 0 ELSE h + 1
  BY BumpIndex
<1>3. Nelem(h, t) = IF h >= t THEN h - t ELSE h - t + N
  BY NelemExact
<1> QED BY <1>1, <1>2, <1>3, Size DEF Nspace, Empty, Index

\* Publishing an element takes one unit of space from a ring that is not full.
LEMMA PublishTakes ==
    ASSUME NEW h \in Index, NEW t \in Index, ~Full(h, t)
    PROVE  /\ Nspace(Bump(h), t) = Nspace(h, t) - 1
           /\ Nelem(Bump(h), t) = Nelem(h, t) + 1
           /\ ~Empty(Bump(h), t)
<1>1. Bump(h) # t
  BY DEF Full, Bump
<1>2. Bump(h) \in Index /\ Bump(h) = IF h = N - 1 THEN 0 ELSE h + 1
  BY BumpIndex
<1>3. Nelem(Bump(h), t) = IF Bump(h) >= t THEN Bump(h) - t ELSE Bump(h) - t + N
  BY <1>2, NelemExact
<1>4. Nelem(h, t) = IF h >= t THEN h - t ELSE h - t + N
  BY NelemExact
<1>5. Nelem(Bump(h), t) = Nelem(h, t) + 1
  BY <1>1, <1>2, <1>3, <1>4, Size DEF Index
<1> QED BY <1>1, <1>4, <1>5, Size DEF Nspace, Empty, Index

\* Releasing an element gives one unit of space back to a ring that is not empty.
LEMMA ReleaseGives ==
    ASSUME NEW h \in Index, NEW t \in Index, ~Empty(h, t)
    PROVE  /\ Nspace(h, Bump(t)) = Nspace(h, t) + 1
           /\ Nelem(h, Bump(t)) = Nelem(h, t) - 1
           /\ ~Full(h, Bump(t))
<1>1. h # t
  BY DEF Empty
<1>2. Bump(t) \in Index /\ Bump(t) = IF t = N - 1 THEN 0 ELSE t + 1
  BY BumpIndex
<1>3. Nelem(h, Bump(t)) = IF h >= Bump(t) THEN h - Bump(t) ELSE h - Bump(t) + N
  BY <1>2, NelemExact
<1>4. Nelem(h, t) = IF h >= t THEN h - t ELSE h - t + N
  BY NelemExact
<1>5. Nelem(h, Bump(t)) = Nelem(h, t) - 1
  BY <1>1, <1>2, <1>3, <1>4, Size DEF Index
<1>6. Nspace(h, Bump(t)) = Nspace(h, t) + 1 /\ Nspace(h, Bump(t)) # 0
  BY <1>4, <1>5, Size DEF Nspace, Index
<1> QED BY <1>2, <1>5, <1>6, SpaceExact

----------------------------------------------------------------------------
(* Type correctness: the sides never run out of bytes in the middle of a call. *)

\* TypeOK, with what a step needs to keep it: a producer inside a call still holds a
\* byte, and a consumer that has not finished still needs one.
TypeInv ==
    /\ TypeOK
    /\ ppc # "idle" => pdata # <<>>
    /\ cpc \in {"size", "pop", "wait", "load", "release"} => need # 0

\* Every step keeps the types and the bounds of the indices.
LEMMA TypeInvInductive ==
    /\ Init => TypeInv
    /\ TypeInv /\ [Next]_vars => TypeInv'
<1> USE DEF TypeInv, TypeOK, PFailed, CFailed, Ops
<1>1. Init => TypeInv
  <2> SUFFICES ASSUME Init PROVE TypeInv
    OBVIOUS
  <2>1. head \in Index /\ tail \in Index /\ saved \in Index /\ sz \in Index
    BY Size DEF Init, Index
  <2>2. buf \in [Index -> Byte] /\ ce \in Byte /\ out \in Byte
    BY DEF Init
  <2>3. pdata \in Seq(Byte)
    BY DEF Init
  <2> QED BY <2>1, <2>2, <2>3, QueueAssumption DEF Init
<1>2. ASSUME TypeInv, [Next]_vars PROVE TypeInv'
  <2> USE <1>2
  <2>1. CASE PushCall
    <3>1. pdata' \in Seq(Byte) /\ pdata' # <<>>
      <4>1. PICK n \in 1..MaxBatch : pdata' \in [1..n -> Byte]
        BY <2>1 DEF PushCall
      <4> QED BY <4>1, QueueAssumption
    <3> QED BY <2>1, <3>1 DEF PushCall, ring, cvars
  <2>2. CASE PushSpace
    <3>1. ppc' \in {"idle", "full"} /\ batch' \in BOOLEAN
      BY <2>2, Zenon DEF PushSpace, PGo
    <3>2. (pdata' = <<>> /\ ppc' = "idle") \/ (pdata' = pdata /\ ppc = "space")
      BY <2>2, Zenon DEF PushSpace, PGo
    <3>3. pdata' \in Seq(Byte) /\ (ppc' # "idle" => pdata' # <<>>)
      <4>1. <<>> \in Seq(Byte) /\ pdata \in Seq(Byte) /\ (ppc = "space" => pdata # <<>>)
        OBVIOUS
      <4> QED BY ONLY <3>2, <4>1, Zenon
    <3> QED BY <2>2, <3>1, <3>3 DEF PushSpace, ring, cvars
  <2>3. CASE PushFull
    <3>1. ppc' \in {"idle", "assert", "impossible"} /\ batch' \in BOOLEAN
      BY <2>3, Zenon DEF PushFull, PGo
    <3>2. pdata' \in Seq(Byte) /\ (ppc' # "idle" => pdata' # <<>>)
      BY <2>3 DEF PushFull, PGo
    <3> QED BY <2>3, <3>1, <3>2 DEF PushFull, ring, cvars
  <2>4. CASE PushAssert
    BY <2>4 DEF PushAssert, ring, cvars
  <2>5. CASE PushStore
    <3>1. Head(pdata) \in Byte
      BY <2>5 DEF PushStore
    <3> QED BY <2>5, <3>1 DEF PushStore, cvars
  <2>6. CASE PushPublish
    <3>1. Tail(pdata) \in Seq(Byte) /\ Bump(head) \in Index
      BY <2>6, BumpIndex DEF PushPublish
    <3> QED BY <2>6, <3>1 DEF PushPublish, PGo, cvars
  <2>7. CASE SetInterrupts
    BY <2>7 DEF SetInterrupts, ring, pvars, cvars
  <2>8. CASE ConsumerCall
    BY <2>8, QueueAssumption DEF ConsumerCall, ring, pvars
  <2>9. CASE PopSize
    <3>1. Nelem(head, tail) \in Index
      BY SpaceExact
    <3> QED BY <2>9, <3>1, Size DEF PopSize, CGo, ring, pvars
  <2>10. CASE PopTest
    BY <2>10, Size DEF PopTest, CGo, ring, pvars
  <2>11. CASE PopWait
    BY <2>11, Size DEF PopWait, CGo, ring, pvars
  <2>12. CASE PopLoad
    BY <2>12, Size DEF PopLoad, CGo, ring, pvars
  <2>13. CASE PopRelease
    <3>1. Bump(tail) \in Index /\ need - 1 \in 0..MaxBatch
      BY <2>13, BumpIndex, QueueAssumption DEF PopRelease
    <3>2. need > 1 => need - 1 # 0
      OBVIOUS
    <3> QED BY <2>13, <3>1, <3>2, Size DEF PopRelease, CGo, pvars
  <2>14. CASE PeekRestore
    BY <2>14, Size DEF PeekRestore, CGo, pvars
  <2>15. CASE PeekAssert
    BY <2>15, Size DEF PeekAssert, CGo, ring, pvars, Index
  <2>16. CASE UNCHANGED vars
    BY <2>16 DEF vars, ring, pvars, cvars
  <2> QED
    BY <2>1, <2>2, <2>3, <2>4, <2>5, <2>6, <2>7, <2>8, <2>9, <2>10, <2>11, <2>12,
       <2>13, <2>14, <2>15, <2>16
    DEF Next, Producer, Consumer, ConsumerStep, Halted
<1> QED BY <1>1, <1>2

\* Every variable has its type, whatever the size of the ring and the caller's use
\* of cq_peek_n (the declarations of circular.h).
THEOREM TypeCorrect == Spec => []TypeOK
<1>1. Spec => []TypeInv
  BY TypeInvInductive, PTL DEF Spec
<1>2. TypeInv => TypeOK
  BY DEF TypeInv
<1> QED BY <1>1, <1>2, PTL
----------------------------------------------------------------------------
(* Safety.  Everything below assumes that callers mask interrupts around        *)
(* cq_peek_n: MCCircularQueuePeek is the counterexample without it.             *)

\* The inductive invariant.  A check one side made stays true until it acts on it,
\* because the other side can only make more room (or more data); cq_peek_n is the
\* exception, and it runs while no handler can.
SafeInv ==
    /\ TypeInv
    /\ AssertionsHold
    /\ ~ie => ppc = "idle"
    /\ ppc \in {"assert", "store", "publish"} => Nspace(head, tail) > 0
    /\ batch /\ ppc \in {"full", "assert", "store", "publish"}
          => Len(pdata) <= Nspace(head, tail)
    /\ ppc = "publish" => buf[head] = Head(pdata)
    /\ cpc \in {"load", "release"} => ~Empty(head, tail)
    /\ LoadIsStable
    /\ cpc = "idle" => cop = "none"
    /\ cpc \in {"restore", "assert"} => cop = "peek_n"
    /\ cop = "peek_n" => ~ie
    /\ cop = "peek_n" /\ cpc \notin {"idle", "size"} => sz = Nelem(head, saved)
    /\ cpc = "assert" => tail = saved
    /\ cpc = "wait" /\ ~ie => Empty(head, tail)
    /\ PanicOnlyIfStuck

\* Every step keeps the contents of the ring those of the abstract queue.
LEMMA SafeInvInductive ==
    ASSUME PeekIE \subseteq {FALSE}
    PROVE  /\ Init => SafeInv
           /\ SafeInv /\ [Next]_vars => SafeInv'
<1>1. ASSUME Init PROVE SafeInv
  <2>1. TypeInv
    BY <1>1, TypeInvInductive
  <2> QED BY <1>1, <2>1
          DEF Init, SafeInv, AssertionsHold, PFailed, LoadIsStable, PanicOnlyIfStuck
<1>2. ASSUME SafeInv, [Next]_vars PROVE SafeInv'
  <2> USE <1>2 DEF PFailed
  <2>1. TypeInv /\ TypeInv'
    BY TypeInvInductive DEF SafeInv
  <2>2. /\ head \in Index /\ tail \in Index /\ buf \in [Index -> Byte]
        /\ pdata \in Seq(Byte) /\ (ppc # "idle" => pdata # <<>>)
    BY <2>1 DEF TypeInv, TypeOK
  <2>3. /\ Nspace(head, tail) \in Nat
        /\ Full(head, tail) <=> Nspace(head, tail) = 0
    <3>1. Nspace(head, tail) \in Index
      BY <2>2, SpaceExact
    <3>2. Full(head, tail) <=> Nspace(head, tail) = 0
      BY <2>2, SpaceExact, Zenon
    <3>3. Nspace(head, tail) \in Nat
      BY <3>1, Size DEF Index
    <3> QED BY <3>2, <3>3
  <2>4. ppc # "idle" => Len(pdata) \in Nat \ {0}
    BY <2>2
  <2> USE <2>1 DEF SafeInv, AssertionsHold, LoadIsStable, PanicOnlyIfStuck
  <2>5. CASE PushCall
    BY <2>5 DEF PushCall, ring, cvars
  <2>6. CASE PushSpace
    <3>1. \/ ppc' = "idle" /\ batch' = FALSE
          \/ /\ ppc' = "full" /\ pdata' = pdata /\ batch' = batch
             /\ ~(Nspace(head, tail) < Len(pdata))
      BY <2>6, Zenon DEF PushSpace, PGo
    <3>2. Len(pdata) <= Nspace(head, tail) \/ Nspace(head, tail) < Len(pdata)
      BY <2>3, <2>4, <2>6 DEF PushSpace
    <3> QED BY <2>6, <3>1, <3>2 DEF PushSpace, ring, cvars
  <2>7. CASE PushFull
    BY <2>3, <2>4, <2>7 DEF PushFull, PGo, ring, cvars
  <2>8. CASE PushAssert
    BY <2>3, <2>4, <2>8 DEF PushAssert, ring, cvars
  <2>9. CASE PushStore
    BY <2>2, <2>9 DEF PushStore, cvars, Empty
  <2>10. CASE PushPublish
    <3>1. /\ Nspace(Bump(head), tail) = Nspace(head, tail) - 1
          /\ ~Empty(Bump(head), tail)
      BY <2>2, <2>3, <2>10, PublishTakes DEF PushPublish
    <3>2. pdata' # <<>> => Len(pdata') = Len(pdata) - 1
      BY <2>2, <2>10 DEF PushPublish
    <3> QED BY <2>3, <2>4, <2>10, <3>1, <3>2 DEF PushPublish, PGo, cvars
  <2>11. CASE SetInterrupts
    BY <2>11 DEF SetInterrupts, ring, pvars, cvars
  <2>12. CASE ConsumerCall
    BY <2>12 DEF ConsumerCall, ring, pvars
  <2>13. CASE PopSize
    BY <2>13 DEF PopSize, CGo, ring, pvars
  <2>14. CASE PopTest
    BY <2>14 DEF PopTest, CGo, ring, pvars
  <2>15. CASE PopWait
    BY <2>15 DEF PopWait, CGo, ring, pvars
  <2>16. CASE PopLoad
    BY <2>16 DEF PopLoad, CGo, ring, pvars
  <2>17. CASE PopRelease
    <3>1. Nspace(head, Bump(tail)) = Nspace(head, tail) + 1
      BY <2>2, <2>17, ReleaseGives DEF PopRelease
    <3> QED BY <2>3, <2>4, <2>17, <3>1 DEF PopRelease, CGo, pvars
  <2>18. CASE PeekRestore
    BY <2>18 DEF PeekRestore, CGo, pvars
  <2>19. CASE PeekAssert
    BY <2>19 DEF PeekAssert, CGo, ring, pvars
  <2>20. CASE UNCHANGED vars
    BY <2>20 DEF vars, ring, pvars, cvars
  <2> QED
    BY <2>5, <2>6, <2>7, <2>8, <2>9, <2>10, <2>11, <2>12, <2>13, <2>14, <2>15, <2>16,
       <2>17, <2>18, <2>19, <2>20
    DEF Next, Producer, Consumer, ConsumerStep, Halted
<1> QED BY <1>1, <1>2
\* With cq_peek_n masked, no assert of circular.h fails and cq_push_n never panics
\* after it has seen enough space, in any interleaving and for any ring size.
THEOREM AssertionsSafe ==
    ASSUME PeekIE \subseteq {FALSE}
    PROVE  Spec => []AssertionsHold
<1>1. Spec => []SafeInv
  BY SafeInvInductive, PTL DEF Spec
<1>2. SafeInv => AssertionsHold
  BY DEF SafeInv
<1> QED BY <1>1, <1>2, PTL

\* The producer never overwrites the byte a consumer has loaded and not yet released.
THEOREM LoadStable ==
    ASSUME PeekIE \subseteq {FALSE}
    PROVE  Spec => []LoadIsStable
<1>1. Spec => []SafeInv
  BY SafeInvInductive, PTL DEF Spec
<1>2. SafeInv => LoadIsStable
  BY DEF SafeInv
<1> QED BY <1>1, <1>2, PTL

\* cq_pop panics only when nothing could ever have filled the queue.
THEOREM PanicJustified ==
    ASSUME PeekIE \subseteq {FALSE}
    PROVE  Spec => []PanicOnlyIfStuck
<1>1. Spec => []SafeInv
  BY SafeInvInductive, PTL DEF Spec
<1>2. SafeInv => PanicOnlyIfStuck
  BY DEF SafeInv
<1> QED BY <1>1, <1>2, PTL

----------------------------------------------------------------------------
(* The ring implements a bounded FIFO.                                     *)

\* The slot of the i-th element, without the modulo.
LEMMA SlotExact ==
    ASSUME NEW t \in Index, NEW i \in 1..N-1
    PROVE  /\ (t + i - 1) % N = IF t + i - 1 < N THEN t + i - 1 ELSE t + i - 1 - N
           /\ (t + i - 1) % N \in Index
<1> USE Size DEF Index
<1>1. CASE t + i - 1 < N
  <2>1. t + i - 1 = 0 * N + (t + i - 1) /\ t + i - 1 \in 0..N-1
    BY <1>1
  <2>2. (0 * N + (t + i - 1)) % N = t + i - 1
    BY <2>1, Remainder
  <2> QED BY <1>1, <2>1, <2>2
<1>2. CASE ~(t + i - 1 < N)
  <2>1. t + i - 1 = 1 * N + (t + i - 1 - N) /\ t + i - 1 - N \in 0..N-1
    BY <1>2
  <2>2. (1 * N + (t + i - 1 - N)) % N = t + i - 1 - N
    BY <2>1, Remainder
  <2> QED BY <1>2, <2>1, <2>2
<1> QED BY <1>1, <1>2

\* The contents are a sequence of bytes, as long as cq_nelem says.
LEMMA ContentsSeq ==
    ASSUME NEW b \in [Index -> Byte], NEW h \in Index, NEW t \in Index
    PROVE  /\ Contents(b, h, t) \in Seq(Byte)
           /\ Len(Contents(b, h, t)) = Nelem(h, t)
<1>1. Nelem(h, t) \in 0..N-1
  BY SpaceExact DEF Index
<1>2. \A i \in 1..Nelem(h, t) : b[(t + i - 1) % N] \in Byte
  <2> SUFFICES ASSUME NEW i \in 1..Nelem(h, t) PROVE (t + i - 1) % N \in Index
    OBVIOUS
  <2>1. i \in 1..N-1
    BY <1>1, Size
  <2> QED BY <2>1, SlotExact
<1>3. Nelem(h, t) \in Nat
  BY <1>1, Size
<1>4. Contents(b, h, t) \in [1..Nelem(h, t) -> Byte]
  BY <1>2 DEF Contents
<1> QED BY <1>3, <1>4

\* Storing at head leaves the contents alone: head's slot is outside them.
LEMMA StoreKeeps ==
    ASSUME NEW b \in [Index -> Byte], NEW h \in Index, NEW t \in Index, NEW x
    PROVE  Contents([b EXCEPT ![h] = x], h, t) = Contents(b, h, t)
<1>1. Nelem(h, t) \in 0..N-1 /\ Nelem(h, t) = IF h >= t THEN h - t ELSE h - t + N
  BY SpaceExact, NelemExact DEF Index
<1>2. ASSUME NEW i \in 1..Nelem(h, t)
      PROVE  (t + i - 1) % N # h /\ (t + i - 1) % N \in Index
  <2>1. i \in 1..N-1
    BY <1>1, Size
  <2>2. /\ (t + i - 1) % N = IF t + i - 1 < N THEN t + i - 1 ELSE t + i - 1 - N
        /\ (t + i - 1) % N \in Index
    BY <2>1, SlotExact
  <2> QED BY <1>1, <2>1, <2>2, Size DEF Index
<1>3. \A i \in 1..Nelem(h, t) :
         [b EXCEPT ![h] = x][(t + i - 1) % N] = b[(t + i - 1) % N]
  BY <1>2
<1> QED BY <1>3 DEF Contents

\* Publishing head's slot appends the byte it holds.
LEMMA PublishAppends ==
    ASSUME NEW b \in [Index -> Byte], NEW h \in Index, NEW t \in Index, ~Full(h, t)
    PROVE  Contents(b, Bump(h), t) = Append(Contents(b, h, t), b[h])
<1> DEFINE n == Nelem(h, t)
<1>1. n \in Nat /\ n + 1 <= N - 1 /\ n = IF h >= t THEN h - t ELSE h - t + N
  <2>1. Nelem(Bump(h), t) = n + 1 /\ Nelem(Bump(h), t) \in Index /\ n \in Index
    BY PublishTakes, SpaceExact, BumpIndex
  <2> QED BY <2>1, NelemExact, Size DEF Index
<1>2. Nelem(Bump(h), t) = n + 1
  BY PublishTakes
<1>3. (t + (n + 1) - 1) % N = h
  <2>1. n + 1 \in 1..N-1
    BY <1>1, Size
  <2>2. (t + (n + 1) - 1) % N =
           IF t + (n + 1) - 1 < N THEN t + (n + 1) - 1 ELSE t + (n + 1) - 1 - N
    BY <2>1, SlotExact
  <2> QED BY <1>1, <2>2, Size DEF Index
<1>4. Contents(b, h, t) \in Seq(Byte) /\ Len(Contents(b, h, t)) = n
  BY ContentsSeq
<1> HIDE DEF n
<1>5. Contents(b, Bump(h), t) = [i \in 1..n + 1 |-> b[(t + i - 1) % N]]
  BY <1>2, Zenon DEF Contents
<1>6. Contents(b, h, t) = [i \in 1..n |-> b[(t + i - 1) % N]]
  BY Zenon DEF Contents, n
<1>7. /\ Contents(b, Bump(h), t) \in Seq(Byte)
      /\ Len(Contents(b, Bump(h), t)) = n + 1
  BY <1>2, ContentsSeq, BumpIndex
<1>8. /\ Append(Contents(b, h, t), b[h]) \in Seq(Byte)
      /\ Len(Append(Contents(b, h, t), b[h])) = n + 1
      /\ \A i \in 1..n : Append(Contents(b, h, t), b[h])[i] = Contents(b, h, t)[i]
      /\ Append(Contents(b, h, t), b[h])[n + 1] = b[h]
  BY <1>4, AppendProperties
<1>9. ASSUME NEW i \in 1..n + 1
      PROVE  Contents(b, Bump(h), t)[i] = Append(Contents(b, h, t), b[h])[i]
  <2>1. Contents(b, Bump(h), t)[i] = b[(t + i - 1) % N]
    BY <1>5
  <2>2. CASE i = n + 1
    BY <1>3, <1>8, <2>1, <2>2
  <2>3. CASE i # n + 1
    <3>1. i \in 1..n
      BY <1>1, <2>3
    <3> QED BY <1>6, <1>8, <2>1, <3>1
  <2> QED BY <2>2, <2>3
<1> HIDE DEF Contents
<1> QED BY <1>7, <1>8, <1>9, SeqEqual

\* Releasing tail's slot removes the oldest byte, which that slot holds.
LEMMA ReleaseRemoves ==
    ASSUME NEW b \in [Index -> Byte], NEW h \in Index, NEW t \in Index, ~Empty(h, t)
    PROVE  /\ Contents(b, h, t) # <<>>
           /\ Head(Contents(b, h, t)) = b[t]
           /\ Contents(b, h, Bump(t)) = Tail(Contents(b, h, t))
<1> DEFINE n == Nelem(h, t)
<1>1. n \in 1..N-1
  <2>1. n \in Index
    BY SpaceExact
  <2>2. n # 0
    BY SpaceExact, Zenon
  <2> QED BY <2>1, <2>2, Size DEF Index
<1>2. Nelem(h, Bump(t)) = n - 1
  BY ReleaseGives
<1>3. Contents(b, h, t) \in Seq(Byte) /\ Len(Contents(b, h, t)) = n
  BY ContentsSeq
<1>4. (t + 1 - 1) % N = t
  BY SlotExact, Size DEF Index
<1>5. ASSUME NEW i \in 1..n - 1
      PROVE  (Bump(t) + i - 1) % N = (t + (i + 1) - 1) % N
  <2>1. i \in 1..N-1 /\ i + 1 \in 1..N-1
    BY <1>1, Size
  <2>2. Bump(t) \in Index /\ Bump(t) = IF t = N - 1 THEN 0 ELSE t + 1
    BY BumpIndex
  <2>3. (Bump(t) + i - 1) % N =
           IF Bump(t) + i - 1 < N THEN Bump(t) + i - 1 ELSE Bump(t) + i - 1 - N
    BY <2>1, <2>2, SlotExact
  <2>4. (t + (i + 1) - 1) % N =
           IF t + (i + 1) - 1 < N THEN t + (i + 1) - 1 ELSE t + (i + 1) - 1 - N
    BY <2>1, SlotExact
  <2> QED BY <2>1, <2>2, <2>3, <2>4, Size DEF Index
<1> HIDE DEF n
<1>6. Contents(b, h, t) = [i \in 1..n |-> b[(t + i - 1) % N]]
  BY Zenon DEF Contents, n
<1>7. Contents(b, h, Bump(t)) = [i \in 1..n - 1 |-> b[(Bump(t) + i - 1) % N]]
  BY <1>2, Zenon DEF Contents
<1>8. /\ Contents(b, h, Bump(t)) \in Seq(Byte)
      /\ Len(Contents(b, h, Bump(t))) = n - 1
  BY <1>2, ContentsSeq, BumpIndex
<1>9. /\ Tail(Contents(b, h, t)) \in Seq(Byte)
      /\ Len(Tail(Contents(b, h, t))) = n - 1
      /\ \A i \in 1..n - 1 : Tail(Contents(b, h, t))[i] = Contents(b, h, t)[i + 1]
  <2>1. Contents(b, h, t) # <<>>
    BY <1>1, <1>3
  <2> QED BY <1>3, <2>1, HeadTailProperties
<1>10. Contents(b, h, Bump(t)) = Tail(Contents(b, h, t))
  <2>1. ASSUME NEW i \in 1..n - 1
        PROVE  Contents(b, h, Bump(t))[i] = Tail(Contents(b, h, t))[i]
    <3>1. i + 1 \in 1..n
      BY <1>1, Size
    <3>2. Contents(b, h, t)[i + 1] = b[(t + (i + 1) - 1) % N]
      BY <1>6, <3>1
    <3>3. Contents(b, h, Bump(t))[i] = b[(Bump(t) + i - 1) % N]
      BY <1>7
    <3> QED BY <1>5, <1>9, <3>2, <3>3
  <2> QED BY <1>8, <1>9, <2>1, SeqEqual
<1>11. Head(Contents(b, h, t)) = b[t]
  <2>1. 1 \in 1..n
    BY <1>1, Size
  <2>2. Contents(b, h, t)[1] = b[t]
    BY <1>4, <1>6, <2>1
  <2> QED BY <2>2, <1>3
<1> QED BY <1>1, <1>3, <1>10, <1>11, Size

\* The ring refines the bounded FIFO of BoundedFifo: a push takes effect when its
\* index is published and a pop when its slot is released, every element comes out
\* once and in order, and peeking changes nothing.
THEOREM RingImplementsFifo ==
    ASSUME PeekIE \subseteq {FALSE}
    PROVE  Spec => ImplementsFifo
<1>1. Init => Fifo!Init
  <2> SUFFICES ASSUME Init PROVE Fifo!Init
    OBVIOUS
  <2>1. head = 0 /\ First = 0 /\ 0 \in Index /\ out \in Byte
    BY Size DEF Init, First, Peeking, Index
  <2>2. Nelem(0, 0) = 0
    BY <2>1, NelemExact, Size
  <2>3. Queue = <<>>
    BY <2>1, <2>2 DEF Queue, Contents
  <2> QED BY <2>1, <2>3 DEF Fifo!Init
<1>2. ASSUME SafeInv, SafeInv', [Next]_vars PROVE [Fifo!Next]_(Fifo!vars)
  <2> USE <1>2
  <2>1. /\ head \in Index /\ tail \in Index /\ buf \in [Index -> Byte]
        /\ saved \in Index /\ pdata \in Seq(Byte) /\ (ppc # "idle" => pdata # <<>>)
    BY DEF SafeInv, TypeInv, TypeOK
  <2>2. First \in Index
    BY <2>1 DEF First
  <2>3. cop = "peek_n" => ~ie
    BY DEF SafeInv
  <2>4. CASE PushPublish
    <3>1. First = tail /\ First' = tail
      BY <2>3, <2>4 DEF PushPublish, First, Peeking, cvars
    <3>2. ~Full(head, tail)
      <4>1. Nspace(head, tail) > 0
        BY <2>4 DEF SafeInv, PushPublish
      <4>2. Nspace(head, tail) # 0
        BY <4>1
      <4> QED BY <2>1, <4>2, SpaceExact, Zenon
    <3>3. Queue' = Append(Queue, buf[head])
      <4>1. Queue' = Contents(buf, Bump(head), tail)
        BY <2>4, <3>1, Zenon DEF Queue, PushPublish
      <4>2. Queue = Contents(buf, head, tail)
        BY <3>1, Zenon DEF Queue
      <4> QED BY <2>1, <3>2, <4>1, <4>2, PublishAppends
    <3>4. Len(Queue) < N - 1
      <4>1. Len(Queue) = Nelem(head, tail) /\ Nelem(head, tail) \in Index
        BY <2>1, <3>1, ContentsSeq, SpaceExact DEF Queue
      <4>2. Nspace(head, tail) > 0
        BY <2>4 DEF SafeInv, PushPublish
      <4> QED BY <4>1, <4>2, Size DEF Nspace, Index
    <3>5. out' = out
      BY <2>4 DEF PushPublish, cvars
    <3>6. Fifo!Push(buf[head]) /\ buf[head] \in Byte
      BY <2>1, <3>3, <3>4, <3>5 DEF Fifo!Push
    <3> QED BY <3>6 DEF Fifo!Next
  <2>5. CASE PopRelease /\ cop # "peek_n"
    <3>1. First = tail /\ First' = Bump(tail)
      BY <2>5 DEF PopRelease, CGo, First, Peeking
    <3>2. ~Empty(head, tail) /\ ce = buf[tail]
      BY <2>5 DEF PopRelease, SafeInv, LoadIsStable
    <3>3. /\ Queue # <<>>
          /\ Head(Queue) = buf[tail]
          /\ Queue' = Tail(Queue)
      <4>1. Queue' = Contents(buf, head, Bump(tail))
        BY <2>5, <3>1, Zenon DEF Queue, PopRelease
      <4>2. Queue = Contents(buf, head, tail)
        BY <3>1, Zenon DEF Queue
      <4> QED BY <2>1, <3>2, <4>1, <4>2, ReleaseRemoves
    <3>4. out' = ce
      BY <2>5 DEF PopRelease
    <3>5. Fifo!Pop
      BY <3>2, <3>3, <3>4 DEF Fifo!Pop
    <3> QED BY <3>5 DEF Fifo!Next
  <2>6. CASE PushStore
    <3>1. head' = head /\ First = tail /\ First' = tail /\ out' = out
      BY <2>3, <2>6 DEF PushStore, First, Peeking, cvars
    <3>2. buf' = [buf EXCEPT ![head] = Head(pdata)]
      BY <2>6 DEF PushStore
    <3>3. Contents(buf', head, tail) = Contents(buf, head, tail)
      BY <2>1, <3>2, StoreKeeps
    <3>4. Queue' = Queue
      BY <3>1, <3>3, Zenon DEF Queue
    <3> QED BY <3>1, <3>4 DEF Fifo!vars
  <2>7. ASSUME head' = head, buf' = buf, First' = First, out' = out
        PROVE  UNCHANGED Fifo!vars
    <3>1. Queue' = Queue
      BY <2>7, Zenon DEF Queue
    <3> QED BY <2>7, <3>1 DEF Fifo!vars
  <2>8. CASE PushCall \/ PushSpace \/ PushFull \/ PushAssert
    BY <2>7, <2>8
    DEF PushCall, PushSpace, PushFull, PushAssert, ring, cvars, First, Peeking
  <2>9. CASE SetInterrupts \/ ConsumerCall
    <3>1. First = tail
      BY <2>9 DEF SetInterrupts, ConsumerCall, First, Peeking, SafeInv
    <3>2. First' = tail'
      BY <2>9 DEF SetInterrupts, ConsumerCall, First, Peeking, cvars, SafeInv
    <3> QED BY <2>7, <2>9, <3>1, <3>2 DEF SetInterrupts, ConsumerCall, ring, cvars
  <2>10. CASE PopSize
    BY <2>7, <2>10 DEF PopSize, CGo, ring, First, Peeking
  <2>11. CASE PopTest \/ PopWait \/ PopLoad
    <3>1. First' = First
      BY <2>11 DEF PopTest, PopWait, PopLoad, CGo, ring, First, Peeking
    <3> QED BY <2>7, <2>11, <3>1 DEF PopTest, PopWait, PopLoad, ring
  <2>12. CASE PopRelease /\ cop = "peek_n"
    BY <2>7, <2>12 DEF PopRelease, CGo, First, Peeking
  <2>13. CASE PeekRestore
    BY <2>7, <2>13 DEF PeekRestore, CGo, First, Peeking, SafeInv
  <2>14. CASE PeekAssert
    BY <2>7, <2>14 DEF PeekAssert, CGo, ring, First, Peeking
  <2>15. CASE UNCHANGED vars
    BY <2>7, <2>15 DEF vars, ring, cvars, First, Peeking
  <2> QED
    BY <2>4, <2>5, <2>6, <2>8, <2>9, <2>10, <2>11, <2>12, <2>13, <2>14, <2>15
    DEF Next, Producer, Consumer, ConsumerStep, Halted
<1>3. Spec => []SafeInv
  BY SafeInvInductive, PTL DEF Spec
<1> QED BY <1>1, <1>2, <1>3, PTL DEF Spec, ImplementsFifo, Fifo!Spec
=============================================================================
