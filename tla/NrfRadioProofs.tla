--------------------------- MODULE NrfRadioProofs ---------------------------
(***************************************************************************)
(* What the NRF driver guarantees for any number of messages, any depths   *)
(* of the queues, any retry limit and any number of losses.                *)
(***************************************************************************)
EXTENDS NrfRadio, SequenceTheorems, TLAPS

----------------------------------------------------------------------------
(* Queues: popped at one end and pushed at the other                       *)

\* Appending to the second of two sequences appends to both.
LEMMA ConcatAppend ==
    ASSUME NEW S, NEW o \in Seq(S), NEW p \in Seq(S), NEW w \in S
    PROVE  o \o Append(p, w) = Append(o \o p, w)
<1> DEFINE h == <<w>>
<1>1. h \in Seq(S) /\ o \o p \in Seq(S)
  BY ConcatProperties
<1>2. Append(p, w) = p \o h /\ Append(o \o p, w) = (o \o p) \o h
  BY <1>1, AppendIsConcat
<1> HIDE DEF h
<1>3. (o \o p) \o h = o \o (p \o h)
  BY <1>1, ConcatAssociative
<1> QED BY <1>2, <1>3

\* The head of the second of two sequences moves to the end of the first.
LEMMA ConcatPop ==
    ASSUME NEW S, NEW o \in Seq(S), NEW p \in Seq(S), p # <<>>
    PROVE  /\ Append(o, Head(p)) \in Seq(S) /\ Tail(p) \in Seq(S)
           /\ Len(Append(o, Head(p))) = Len(o) + 1 /\ Len(Tail(p)) = Len(p) - 1
           /\ Append(o, Head(p)) \o Tail(p) = o \o p
<1> DEFINE h == <<Head(p)>>
           t == Tail(p)
<1>1. Head(p) \in S /\ t \in Seq(S) /\ Len(t) = Len(p) - 1 /\ h \in Seq(S)
  BY HeadTailProperties
<1>2. /\ Append(o, Head(p)) = o \o h /\ Append(o, Head(p)) \in Seq(S)
      /\ Len(Append(o, Head(p))) = Len(o) + 1
  BY <1>1, AppendIsConcat
<1>3. h \o t = p
  <2>1. Len(p) \in Nat \ {0} /\ SubSeq(p, 1, Len(p)) = p /\ t = SubSeq(p, 2, Len(p))
    BY EmptySeq, SubSeqFull, TailIsSubSeq
  <2>2. SubSeq(p, 1, Len(p)) = <<p[1]>> \o SubSeq(p, 1 + 1, Len(p))
    BY <2>1, SubSeqRecursiveFirst
  <2> QED BY <2>1, <2>2
<1> HIDE DEF h, t
<1>4. (o \o h) \o t = o \o (h \o t)
  BY <1>1, ConcatAssociative
<1>5. Append(o, Head(p)) \o t = o \o p
  BY Zenon, <1>2, <1>3, <1>4
<1> QED BY <1>1, <1>2, <1>5 DEF t

\* The head of two sequences is the head of the first.
LEMMA ConcatHeadTail ==
    ASSUME NEW S, NEW p \in Seq(S), NEW r \in Seq(S), p # <<>>
    PROVE  /\ p \o r \in Seq(S) /\ p \o r # <<>>
           /\ Head(p \o r) = Head(p) /\ Tail(p \o r) = Tail(p) \o r
<1> DEFINE c == p \o r
           t == Tail(p)
           u == Tail(c)
<1>1. /\ c \in Seq(S) /\ Len(c) = Len(p) + Len(r)
      /\ \A i \in 1..Len(p) + Len(r) : c[i] = IF i <= Len(p) THEN p[i] ELSE r[i - Len(p)]
  BY ConcatProperties
<1>2. Len(p) \in Nat \ {0} /\ Len(r) \in Nat
  BY EmptySeq
<1> HIDE DEF c
<1>3. c # <<>> /\ Head(c) = c[1] /\ Head(p) = p[1]
  BY <1>1, <1>2, EmptySeq
<1>4. /\ t \in Seq(S) /\ Len(t) = Len(p) - 1 /\ \A i \in 1..Len(t) : t[i] = p[i + 1]
      /\ u \in Seq(S) /\ Len(u) = Len(c) - 1 /\ \A i \in 1..Len(u) : u[i] = c[i + 1]
  BY <1>1, <1>3, HeadTailProperties
<1> HIDE DEF t, u
<1>5. /\ t \o r \in Seq(S) /\ Len(t \o r) = Len(t) + Len(r)
      /\ \A i \in 1..Len(t) + Len(r) : (t \o r)[i] = IF i <= Len(t) THEN t[i] ELSE r[i - Len(t)]
  BY <1>4, ConcatProperties
<1>6. Len(u) = Len(t \o r)
  BY <1>1, <1>2, <1>4, <1>5
<1>7. ASSUME NEW i \in 1..Len(u) PROVE u[i] = (t \o r)[i]
  <2>1. i \in 1..Len(t) + Len(r) /\ i + 1 \in 1..Len(p) + Len(r)
        /\ (i <= Len(t) <=> i + 1 <= Len(p)) /\ (i + 1) - Len(p) = i - Len(t)
    BY <1>1, <1>2, <1>4
  <2>2. u[i] = c[i + 1]
    BY <1>4
  <2>3. CASE i <= Len(t)
    <3>1. i \in 1..Len(t)
      BY <1>2, <1>4, <2>3
    <3> QED BY <1>1, <1>4, <1>5, <2>1, <2>2, <2>3, <3>1
  <2>4. CASE ~(i <= Len(t))
    BY <1>1, <1>5, <2>1, <2>2, <2>4
  <2> QED BY <2>3, <2>4
<1>8. u = t \o r
  BY <1>4, <1>5, <1>6, <1>7, SeqEqual
<1>9. Head(c) = Head(p)
  BY <1>1, <1>2, <1>3
<1> QED BY <1>1, <1>3, <1>8, <1>9 DEF c, t, u

----------------------------------------------------------------------------
(* The inductive invariant.                                                *)

\* The driver of node n and its radio.
Sender(n) ==
    /\ pc[n] # "assert_failed"
    /\ pc[n] \notin {"wait", "flush"} => mode[n] = "rx"
    /\ pc[n] \notin {"wait", "flush", "retry_limit"} => ~tx_ds[n] /\ ~max_rt[n]
    /\ pc[n] \notin Sending => txfifo[n] = 0
    /\ tx_ds[n] => txfifo[n] = 0
    /\ max_rt[n] => ~tx_ds[n]
    /\ pc[n] = "start" => txfifo[n] = offered[n]
    /\ pc[n] \in {"wait", "flush"} => tx_ds[n] \/ txfifo[n] = offered[n]
    /\ pc[n] = "flush" => acked
    /\ offered[n] = tot_sent_msgs[n] + (IF pc[n] \in Sending \cup {"retry_limit"} THEN 1 ELSE 0)
    /\ pc[n] \in {"poll", "push"} /\ call[n] = "send" => offered[n] < MaxSent
    /\ held[n] # 0 <=> pc[n] \in {"push", "queue_full"}

\* Node n as a sender and node p as the receiver: how far the last packet received is
\* behind the last message offered.
Link(n, p) ==
    /\ pid[p] <= offered[n]
    /\ acked => pid[p] >= tot_sent_msgs[n]
    /\ acked /\ tx_ds[n] => pid[p] = offered[n]
    /\ txfifo[n] # 0 /\ pid[p] = offered[n] => acked

\* What has reached p is in order, between the last message read and the last received,
\* and complete if it was acknowledged.
Arrived(p) ==
    /\ got[p] <= pid[p]
    /\ \A i \in DOMAIN Inbox(p) : got[p] <= Inbox(p)[i] /\ Inbox(p)[i] <= pid[p]
    /\ \A i, j \in DOMAIN Inbox(p) : i < j => Inbox(p)[i] <= Inbox(p)[j]
    /\ acked => \A k \in 1..pid[p] : k <= got[p] \/ \E i \in DOMAIN Inbox(p) : Inbox(p)[i] = k

IInv ==
    /\ TypeOK
    /\ \A n \in Node : Sender(n) /\ Link(n, Peer(n)) /\ Arrived(n)

----------------------------------------------------------------------------
\* Each node is the other's peer.
LEMMA PeerFacts ==
    \A n \in Node : /\ Peer(n) \in Node /\ Peer(n) # n /\ Peer(Peer(n)) = n
                    /\ \A m \in Node : m = n \/ m = Peer(n)
BY DEF Node, Peer

\* Changing one node's entry changes no other.
LEMMA SetEntry ==
    ASSUME NEW S, NEW f \in [Node -> S], NEW n \in Node, NEW v \in S
    PROVE  /\ Set(f, n, v) \in [Node -> S] /\ Set(f, n, v)[n] = v
           /\ \A m \in Node : m # n => Set(f, n, v)[m] = f[m]
BY DEF Set

\* Taking the head of a queue keeps it within its depth.
LEMMA TailType ==
    ASSUME NEW S, NEW D \in Nat, NEW q \in Seq(S), q # <<>>, Len(q) <= D
    PROVE  Head(q) \in S /\ Tail(q) \in Seq(S) /\ Len(Tail(q)) <= D
<1>1. Len(Tail(q)) = Len(q) - 1 /\ Len(q) \in Nat
  BY HeadTailProperties, LenProperties
<1>2. Len(Tail(q)) <= D
  BY <1>1
<1> QED BY <1>2, HeadTailProperties

\* The parts of the assumption that the types need.
LEMMA Depths == RxDepth \in Nat /\ QueueDepth \in Nat /\ 1..MaxSent \subseteq 0..MaxSent
BY RadioAssumption

\* The radios and the queues start within their bounds.
LEMMA InitType == Init => TypeOK
<1> SUFFICES ASSUME Init PROVE TypeOK
  OBVIOUS
<1>1. <<>> \in Seq(1..MaxSent) /\ Len(<<>>) = 0
  BY EmptySeq
<1>2. /\ recvq \in [Node -> Seq(1..MaxSent)] /\ rxfifo \in [Node -> Seq(1..MaxSent)]
      /\ \A n \in Node : Len(recvq[n]) <= QueueDepth /\ Len(rxfifo[n]) <= RxDepth
  BY <1>1, RadioAssumption DEF Init
<1>3. tx_ds \in [Node -> BOOLEAN] /\ max_rt \in [Node -> BOOLEAN]
  BY DEF Init
<1>4. /\ 0 \in 0..MaxSent /\ 0 \in 0..Retries /\ 0 \in 0..MaxLost
  BY RadioAssumption
<1>5. /\ held \in [Node -> 0..MaxSent] /\ got \in [Node -> 0..MaxSent]
      /\ tot_sent_msgs \in [Node -> 0..MaxSent] /\ offered \in [Node -> 0..MaxSent]
      /\ pid \in [Node -> 0..MaxSent] /\ txfifo \in [Node -> 0..MaxSent]
      /\ retry \in [Node -> 0..Retries] /\ lost \in 0..MaxLost
  BY <1>4 DEF Init
<1>6. /\ acked \in AckModes /\ pc \in [Node -> {"idle", "poll", "push", "start", "wait", "flush"} \cup Panics]
      /\ call \in [Node -> Reads \cup {"send"}] /\ mode \in [Node -> {"rx", "tx"}]
  BY DEF Init, Reads
<1> QED BY <1>2, <1>3, <1>5, <1>6 DEF TypeOK

Place == {"idle", "poll", "push", "start", "wait", "flush"} \cup Panics

\* A driver only goes to places that exist.
LEMMA GotoType ==
    ASSUME TypeOK, NEW n \in Node, NEW place \in Place, Goto(n, place)
    PROVE  pc' \in [Node -> Place]
BY DEF TypeOK, Goto, Place

\* The places, listed.
LEMMA Places == {"idle", "poll", "push", "start", "wait", "flush", "queue_full",
                 "retry_limit", "no_traffic", "assert_failed"} \subseteq Place
BY DEF Place, Panics

\* Every step of a driver keeps the types.
LEMMA DriverType ==
    ASSUME TypeOK, NEW n \in Node, Sender(n), Call(n) \/ DriverStep(n)
    PROVE  TypeOK'
<1>1. CASE Call(n)
  <2>1. pc' \in [Node -> Place]
    BY <1>1, GotoType, Places DEF Call
  <2>2. call' \in [Node -> Reads \cup {"send"}]
    BY <1>1 DEF Call, Set, TypeOK
  <2> QED BY <1>1, <2>1, <2>2 DEF Call, radio, TypeOK, Place
<1>2. CASE GetPacket(n)
  <2>1. rxfifo[n] \in Seq(1..MaxSent) /\ rxfifo[n] # <<>> /\ Len(rxfifo[n]) <= RxDepth
    BY <1>2 DEF GetPacket, TypeOK
  <2>2. /\ Head(rxfifo[n]) \in 1..MaxSent /\ Tail(rxfifo[n]) \in Seq(1..MaxSent)
        /\ Len(Tail(rxfifo[n])) <= RxDepth
    BY Zenon, <2>1, Depths, TailType
  <2>3. held' \in [Node -> 0..MaxSent]
    BY <1>2, <2>2, Depths DEF GetPacket, Set, TypeOK
  <2>4. /\ rxfifo' \in [Node -> Seq(1..MaxSent)] /\ \A m \in Node : Len(rxfifo'[m]) <= RxDepth
    BY <1>2, <2>2 DEF GetPacket, Set, TypeOK
  <2>5. pc' \in [Node -> Place]
    BY <1>2, GotoType, Places DEF GetPacket
  <2> QED BY <1>2, <2>3, <2>4, <2>5 DEF GetPacket, TypeOK, Place
<1>3. CASE PushPacket(n)
  <2>1. recvq[n] \in Seq(1..MaxSent) /\ held[n] \in 1..MaxSent /\ Len(recvq[n]) \in Nat
    BY <1>3, LenProperties, RadioAssumption DEF PushPacket, Sender, TypeOK
  <2>2. /\ Append(recvq[n], held[n]) \in Seq(1..MaxSent)
        /\ Len(Append(recvq[n], held[n])) = Len(recvq[n]) + 1
    BY <2>1, AppendProperties
  <2>3. pc' \in [Node -> Place]
    BY <1>3, GotoType, Places DEF PushPacket
  <2>4. CASE Len(recvq[n]) < QueueDepth
    <3>1. /\ recvq' = Set(recvq, n, Append(recvq[n], held[n])) /\ held' = Set(held, n, 0)
      BY <1>3, <2>4 DEF PushPacket
    <3>2. Len(Append(recvq[n], held[n])) <= QueueDepth
      BY <2>1, <2>2, <2>4, RadioAssumption
    <3>3. recvq' \in [Node -> Seq(1..MaxSent)] /\ \A m \in Node : Len(recvq'[m]) <= QueueDepth
      BY <2>2, <3>1, <3>2 DEF Set, TypeOK
    <3>4. held' \in [Node -> 0..MaxSent]
      BY <3>1, RadioAssumption DEF Set, TypeOK
    <3> QED BY <1>3, <2>3, <3>3, <3>4 DEF PushPacket, radio, TypeOK, Place
  <2>5. CASE ~(Len(recvq[n]) < QueueDepth)
    <3>1. UNCHANGED <<recvq, held>>
      BY <1>3, <2>5 DEF PushPacket
    <3> QED BY <1>3, <2>3, <3>1 DEF PushPacket, radio, TypeOK, Place
  <2> QED BY <2>4, <2>5
<1>4. CASE Read(n)
  <2>1. pc' \in [Node -> Place]
    <3>1. UNCHANGED pc \/ Goto(n, "idle") \/ Goto(n, "no_traffic")
      BY <1>4 DEF Read
    <3> QED BY <3>1, GotoType, Places DEF TypeOK, Place
  <2>2. CASE got' = got /\ recvq' = recvq
    BY <1>4, <2>1, <2>2 DEF Read, radio, TypeOK, Place
  <2>3. CASE /\ recvq[n] # <<>> /\ got' = Set(got, n, Head(recvq[n]))
             /\ recvq' = Set(recvq, n, Tail(recvq[n]))
    <3>1. recvq[n] \in Seq(1..MaxSent) /\ Len(recvq[n]) <= QueueDepth
      BY DEF TypeOK
    <3>2. /\ Head(recvq[n]) \in 1..MaxSent /\ Tail(recvq[n]) \in Seq(1..MaxSent)
          /\ Len(Tail(recvq[n])) <= QueueDepth
      BY Zenon, <2>3, <3>1, Depths, TailType
    <3>3. got' \in [Node -> 0..MaxSent]
      BY <2>3, <3>2, Depths DEF Set, TypeOK
    <3>4. recvq' \in [Node -> Seq(1..MaxSent)] /\ \A m \in Node : Len(recvq'[m]) <= QueueDepth
      BY <2>3, <3>2 DEF Set, TypeOK
    <3> QED BY <1>4, <2>1, <3>3, <3>4 DEF Read, radio, TypeOK, Place
  <2> QED BY <1>4, <2>2, <2>3 DEF Read
<1>5. CASE Load(n)
  <2>1. offered[n] + 1 \in 0..MaxSent /\ offered' = Set(offered, n, offered[n] + 1)
    BY <1>5, RadioAssumption DEF Load, Sender, TypeOK
  <2>2. offered' \in [Node -> 0..MaxSent] /\ offered'[n] \in 0..MaxSent
    BY <2>1 DEF Set, TypeOK
  <2>3. txfifo' \in [Node -> 0..MaxSent]
    BY <1>5, <2>2 DEF Load, Set, TypeOK
  <2>4. retry' \in [Node -> 0..Retries]
    BY <1>5, RadioAssumption DEF Load, Set, TypeOK
  <2>5. pc' \in [Node -> Place]
    BY <1>5, GotoType, Places DEF Load
  <2> QED BY <1>5, <2>2, <2>3, <2>4, <2>5 DEF Load, TypeOK, Place
<1>6. CASE Start(n)
  <2>1. pc' \in [Node -> Place]
    BY <1>6, GotoType, Places DEF Start
  <2>2. mode' \in [Node -> {"rx", "tx"}]
    BY <1>6 DEF Start, Set, TypeOK
  <2> QED BY <1>6, <2>1, <2>2 DEF Start, TypeOK, Place
<1>7. CASE Sent(n)
  <2>1. tot_sent_msgs[n] + 1 \in 0..MaxSent
    BY <1>7 DEF Sent, Sender, Sending, TypeOK
  <2>2. tot_sent_msgs' \in [Node -> 0..MaxSent]
    BY <1>7, <2>1 DEF Sent, Set, TypeOK
  <2>3. mode' \in [Node -> {"rx", "tx"}]
    BY <1>7 DEF Sent, Set, TypeOK
  <2>4. tx_ds' \in [Node -> BOOLEAN]
    BY <1>7 DEF Sent, Set, TypeOK
  <2>5. pc' \in [Node -> Place]
    BY <1>7, GotoType, Places DEF Sent
  <2> QED BY <1>7, <2>2, <2>3, <2>4, <2>5 DEF Sent, TypeOK, Place
<1>8. CASE GiveUp(n)
  <2>1. retry' \in [Node -> 0..Retries]
    BY <1>8, RadioAssumption DEF GiveUp, Set, TypeOK
  <2>2. max_rt' \in [Node -> BOOLEAN]
    BY <1>8 DEF GiveUp, Set, TypeOK
  <2>3. pc' \in [Node -> Place]
    BY <1>8, GotoType, Places DEF GiveUp
  <2> QED BY <1>8, <2>1, <2>2, <2>3 DEF GiveUp, TypeOK, Place
<1>9. CASE Flush(n)
  <2>1. txfifo' \in [Node -> 0..MaxSent]
    BY <1>9, RadioAssumption DEF Flush, Set, TypeOK
  <2>2. mode' \in [Node -> {"rx", "tx"}]
    BY <1>9 DEF Flush, Set, TypeOK
  <2>3. pc' \in [Node -> Place]
    BY <1>9, GotoType, Places DEF Flush
  <2> QED BY <1>9, <2>1, <2>2, <2>3 DEF Flush, TypeOK, Place
<1> QED BY <1>1, <1>2, <1>3, <1>4, <1>5, <1>6, <1>7, <1>8, <1>9 DEF DriverStep

\* Every step of a radio keeps the types.
LEMMA RadioType ==
    ASSUME TypeOK, NEW n \in Node, RadioStep(n)
    PROVE  TypeOK'
<1> DEFINE p == Peer(n)
           k == txfifo[n]
<1>1. /\ pid \in [Node -> 0..MaxSent] /\ rxfifo \in [Node -> Seq(1..MaxSent)]
      /\ tx_ds \in [Node -> BOOLEAN] /\ max_rt \in [Node -> BOOLEAN]
      /\ txfifo \in [Node -> 0..MaxSent] /\ retry \in [Node -> 0..Retries]
      /\ TRUE \in BOOLEAN /\ 0 \in 0..MaxSent /\ RxDepth \in Nat /\ Retries \in Nat
  BY RadioAssumption DEF TypeOK
<1>2. /\ p \in Node /\ k \in 1..MaxSent /\ k \in 0..MaxSent
      /\ Append(rxfifo[p], k) \in Seq(1..MaxSent)
      /\ Len(rxfifo[p]) \in Nat /\ Len(Append(rxfifo[p], k)) = Len(rxfifo[p]) + 1
  <2>1. k \in 1..MaxSent
    BY <1>1, RadioAssumption DEF RadioStep, Delivered, AckLost, Unheard, Transmitting
  <2> QED BY <1>1, <2>1, PeerFacts, AppendProperties, LenProperties
<1> HIDE DEF p, k
<1>3. ASSUME Hears(p), Receive(p, k)
      PROVE  /\ pid' \in [Node -> 0..MaxSent] /\ rxfifo' \in [Node -> Seq(1..MaxSent)]
             /\ \A m \in Node : Len(rxfifo'[m]) <= RxDepth
  <2>1. pid' = Set(pid, p, k) /\ rxfifo' \in {rxfifo, Set(rxfifo, p, Append(rxfifo[p], k))}
    BY <1>3 DEF Receive
  <2>2. Len(rxfifo[p]) < RxDepth /\ \A m \in Node : Len(rxfifo[m]) <= RxDepth
    BY <1>3 DEF Hears, TypeOK
  <2>3. pid' \in [Node -> 0..MaxSent]
    BY <1>1, <1>2, <2>1, SetEntry
  <2>4. CASE rxfifo' = rxfifo
    BY <1>1, <2>2, <2>3, <2>4
  <2>5. CASE rxfifo' = Set(rxfifo, p, Append(rxfifo[p], k))
    <3>1. /\ rxfifo' \in [Node -> Seq(1..MaxSent)] /\ rxfifo'[p] = Append(rxfifo[p], k)
          /\ \A m \in Node : m # p => rxfifo'[m] = rxfifo[m]
      <4> DEFINE T == Seq(1..MaxSent)
                 w == Append(rxfifo[p], k)
      <4>1. rxfifo \in [Node -> T] /\ w \in T /\ rxfifo' = Set(rxfifo, p, w)
        BY <1>1, <1>2, <2>5
      <4> HIDE DEF T, w
      <4>2. /\ rxfifo' \in [Node -> T] /\ rxfifo'[p] = w
            /\ \A m \in Node : m # p => rxfifo'[m] = rxfifo[m]
        BY <1>2, <4>1 DEF Set
      <4> QED BY <4>2 DEF T, w
    <3>2. Len(Append(rxfifo[p], k)) <= RxDepth
      BY <1>1, <1>2, <2>2
    <3>3. \A m \in Node : Len(rxfifo'[m]) <= RxDepth
      BY <2>2, <3>1, <3>2
    <3> QED BY <2>3, <3>1, <3>3
  <2> QED BY <2>1, <2>4, <2>5
<1>4. ASSUME Done(n) \/ NoAck(n)
      PROVE  /\ tx_ds' \in [Node -> BOOLEAN] /\ txfifo' \in [Node -> 0..MaxSent]
             /\ max_rt' \in [Node -> BOOLEAN] /\ retry' \in [Node -> 0..Retries]
  <2>1. /\ tx_ds' \in {tx_ds, Set(tx_ds, n, TRUE)} /\ txfifo' \in {txfifo, Set(txfifo, n, 0)}
        /\ max_rt' \in {max_rt, Set(max_rt, n, TRUE)}
    BY <1>4 DEF Done, NoAck
  <2>2. retry' = retry \/ (retry[n] < Retries /\ retry' = Set(retry, n, retry[n] + 1))
    BY <1>4 DEF Done, NoAck
  <2>3. /\ Set(tx_ds, n, TRUE) \in [Node -> BOOLEAN]
        /\ Set(max_rt, n, TRUE) \in [Node -> BOOLEAN]
        /\ Set(txfifo, n, 0) \in [Node -> 0..MaxSent]
    BY <1>1, SetEntry
  <2>4. retry[n] < Retries => retry[n] + 1 \in 0..Retries
    BY <1>1
  <2>5. ASSUME retry[n] < Retries, retry' = Set(retry, n, retry[n] + 1)
        PROVE  retry' \in [Node -> 0..Retries]
    BY <1>1, <2>4, <2>5 DEF Set
  <2>6. retry' \in [Node -> 0..Retries]
    BY <1>1, <2>2, <2>5
  <2>7. tx_ds' \in [Node -> BOOLEAN] /\ max_rt' \in [Node -> BOOLEAN]
    BY Zenon, <1>1, <2>1, <2>3
  <2>8. txfifo' \in [Node -> 0..MaxSent]
    BY Zenon, <1>1, <2>1, <2>3
  <2> QED BY <2>6, <2>7, <2>8
<1>5. ASSUME Lose \/ UNCHANGED lost PROVE lost' \in 0..MaxLost
  <2>1. lost \in 0..MaxLost /\ MaxLost \in Nat
    BY RadioAssumption DEF TypeOK
  <2> QED BY <1>5, <2>1 DEF Lose
<1>6. lost' \in 0..MaxLost
  BY <1>5 DEF RadioStep, Delivered, AckLost, Unheard
<1>7. Done(n) \/ NoAck(n)
  BY DEF RadioStep, Delivered, AckLost, Unheard
<1>8. /\ pid' \in [Node -> 0..MaxSent] /\ rxfifo' \in [Node -> Seq(1..MaxSent)]
      /\ \A m \in Node : Len(rxfifo'[m]) <= RxDepth
  <2>1. CASE pid' = pid /\ rxfifo' = rxfifo
    BY <2>1 DEF TypeOK
  <2>2. CASE Hears(p) /\ Receive(p, k)
    BY <1>3, <2>2
  <2> QED BY <2>1, <2>2 DEF RadioStep, Delivered, AckLost, Unheard, p, k
<1>9. UNCHANGED <<acked, driver, mode, offered>>
  BY DEF RadioStep, Delivered, AckLost, Unheard
<1> QED BY <1>4, <1>6, <1>7, <1>8, <1>9 DEF TypeOK, driver

----------------------------------------------------------------------------
(* The driver and its radio.                                               *)

\* The types without their bounds, for arithmetic.
LEMMA Functions ==
    ASSUME TypeOK
    PROVE  /\ pc \in [Node -> Place] /\ call \in [Node -> Reads \cup {"send"}]
           /\ mode \in [Node -> {"rx", "tx"}] /\ tx_ds \in [Node -> BOOLEAN]
           /\ max_rt \in [Node -> BOOLEAN]
           /\ held \in [Node -> Nat] /\ got \in [Node -> Nat] /\ tot_sent_msgs \in [Node -> Nat]
           /\ offered \in [Node -> Nat] /\ pid \in [Node -> Nat] /\ txfifo \in [Node -> Nat]
           /\ recvq \in [Node -> Seq(Nat)] /\ rxfifo \in [Node -> Seq(Nat)]
<1>1. 0..MaxSent \subseteq Nat /\ 1..MaxSent \subseteq Nat
  BY RadioAssumption
<1>2. /\ held \in [Node -> Nat] /\ got \in [Node -> Nat] /\ tot_sent_msgs \in [Node -> Nat]
      /\ offered \in [Node -> Nat] /\ pid \in [Node -> Nat] /\ txfifo \in [Node -> Nat]
  BY <1>1 DEF TypeOK
<1>3. \A m \in Node : recvq[m] \in Seq(Nat) /\ rxfifo[m] \in Seq(Nat)
  BY <1>1, SeqMonotonic DEF TypeOK
<1>4. recvq \in [Node -> Seq(Nat)] /\ rxfifo \in [Node -> Seq(Nat)]
  BY <1>3 DEF TypeOK
<1> QED BY <1>2, <1>4 DEF TypeOK, Place

\* A step of one node leaves the driver of the other alone.
LEMMA SenderAlone ==
    ASSUME TypeOK, NEW n \in Node, NEW m \in Node, m # n, Sender(m),
           Call(n) \/ DriverStep(n) \/ RadioStep(n)
    PROVE  Sender(m)'
<1> USE Functions
<1>1. CASE Call(n) \/ DriverStep(n)
  <2>1. /\ pc'[m] = pc[m] /\ call'[m] = call[m] /\ held'[m] = held[m]
    BY <1>1 DEF DriverStep, Call, GetPacket, PushPacket, Read, Load, Start, Sent, GiveUp, Flush,
                Goto, Set
  <2>2. /\ mode'[m] = mode[m] /\ txfifo'[m] = txfifo[m] /\ tx_ds'[m] = tx_ds[m]
        /\ max_rt'[m] = max_rt[m]
    BY <1>1 DEF DriverStep, Call, GetPacket, PushPacket, Read, Load, Start, Sent, GiveUp, Flush,
                Set, radio
  <2>3. /\ offered'[m] = offered[m] /\ tot_sent_msgs'[m] = tot_sent_msgs[m]
        /\ acked' = acked
    BY <1>1 DEF DriverStep, Call, GetPacket, PushPacket, Read, Load, Start, Sent, GiveUp, Flush,
                Set
  <2> QED BY <2>1, <2>2, <2>3 DEF Sender, Sending
<1>2. CASE RadioStep(n)
  <2>1. txfifo'[m] = txfifo[m] /\ tx_ds'[m] = tx_ds[m] /\ max_rt'[m] = max_rt[m]
    BY <1>2 DEF RadioStep, Delivered, AckLost, Unheard, Done, NoAck, Set
  <2>2. UNCHANGED <<acked, pc, call, held, tot_sent_msgs, mode, offered>>
    BY <1>2 DEF RadioStep, Delivered, AckLost, Unheard, driver
  <2> QED BY <2>1, <2>2 DEF Sender, Sending
<1> QED BY <1>1, <1>2

\* Every step of a node keeps its driver and its radio in agreement.
LEMMA SenderSteps ==
    ASSUME TypeOK, NEW n \in Node, Sender(n), Call(n) \/ DriverStep(n) \/ RadioStep(n)
    PROVE  Sender(n)'
<1> USE Functions
<1>0. TRUE \in BOOLEAN /\ FALSE \in BOOLEAN
  OBVIOUS
<1>1. CASE Call(n)
  <2>1. /\ pc[n] = "idle" /\ pc'[n] = "poll" /\ (call'[n] = "send" => offered[n] < MaxSent)
    BY <1>1 DEF Call, Goto, Set, Sender, Sending, Listening, ReadyToSend
  <2>2. UNCHANGED <<held, tot_sent_msgs, mode, txfifo, tx_ds, max_rt, offered>>
    BY <1>1 DEF Call, radio
  <2> QED BY <2>1, <2>2 DEF Sender, Sending
<1>2. CASE GetPacket(n)
  <2>1. rxfifo[n] \in Seq(1..MaxSent) /\ rxfifo[n] # <<>> /\ held'[n] = Head(rxfifo[n])
    BY <1>2 DEF GetPacket, Set, TypeOK
  <2>2. held'[n] # 0
    BY <2>1, HeadTailProperties, RadioAssumption
  <2>3. pc[n] = "poll" /\ pc'[n] = "push"
    BY <1>2 DEF GetPacket, Goto
  <2>4. UNCHANGED <<call, tot_sent_msgs, mode, txfifo, tx_ds, max_rt, offered>>
    BY <1>2 DEF GetPacket
  <2> QED BY <2>2, <2>3, <2>4 DEF Sender, Sending
<1>3. CASE PushPacket(n)
  <2>1. /\ pc[n] = "push"
        /\ \/ pc'[n] = "poll" /\ held'[n] = 0
           \/ pc'[n] = "queue_full" /\ held'[n] = held[n]
    BY <1>3 DEF PushPacket, Goto, Set
  <2>2. UNCHANGED <<call, tot_sent_msgs, mode, txfifo, tx_ds, max_rt, offered>>
    BY <1>3 DEF PushPacket, radio
  <2> QED BY <2>1, <2>2 DEF Sender, Sending
<1>4. CASE Read(n)
  <2>1. pc[n] = "poll" /\ pc'[n] \in {"poll", "idle", "no_traffic"}
    BY <1>4 DEF Read, Goto
  <2>2. UNCHANGED <<call, held, tot_sent_msgs, mode, txfifo, tx_ds, max_rt, offered>>
    BY <1>4 DEF Read, radio
  <2> QED BY <2>1, <2>2 DEF Sender, Sending
<1>5. CASE Load(n)
  <2>1. /\ pc[n] = "poll" /\ pc'[n] = "start" /\ offered'[n] = offered[n] + 1
        /\ txfifo'[n] = offered'[n]
    BY <1>5 DEF Load, Goto, Set
  <2>2. UNCHANGED <<call, held, tot_sent_msgs, mode, tx_ds, max_rt>>
    BY <1>5 DEF Load
  <2> QED BY <2>1, <2>2 DEF Sender, Sending
<1>6. CASE Start(n)
  <2>1. pc[n] = "start" /\ pc'[n] = "wait"
    BY <1>6 DEF Start, Goto
  <2>2. UNCHANGED <<call, held, tot_sent_msgs, txfifo, tx_ds, max_rt, offered>>
    BY <1>6 DEF Start
  <2> QED BY <2>1, <2>2 DEF Sender, Sending
<1>7. CASE Sent(n)
  <2>1. /\ pc[n] = "wait" /\ tx_ds[n] /\ ~max_rt[n] /\ pc'[n] = "idle"
        /\ tot_sent_msgs'[n] = tot_sent_msgs[n] + 1 /\ mode'[n] = "rx"
    BY <1>7 DEF Sent, Goto, Set
  <2>2. ~tx_ds'[n]
    BY <1>7 DEF Sent, Set
  <2>3. UNCHANGED <<call, held, txfifo, max_rt, offered>>
    BY <1>7 DEF Sent
  <2> QED BY <2>1, <2>2, <2>3 DEF Sender, Sending
<1>8. CASE GiveUp(n)
  <2>1. /\ pc[n] = "wait" /\ max_rt[n] /\ pc'[n] = "flush" /\ acked' /\ ~max_rt'[n]
    BY <1>8 DEF GiveUp, Goto, Set
  <2>2. UNCHANGED <<call, held, mode, txfifo, tx_ds, tot_sent_msgs, offered>>
    BY <1>8 DEF GiveUp
  <2> QED BY <2>1, <2>2 DEF Sender, Sending
<1>9. CASE Flush(n)
  <2>1. /\ pc[n] = "flush" /\ pc'[n] = "retry_limit" /\ txfifo'[n] = 0 /\ mode'[n] = "rx"
    BY <1>9 DEF Flush, Goto, Set
  <2>2. UNCHANGED <<call, held, tx_ds, max_rt, tot_sent_msgs, offered>>
    BY <1>9 DEF Flush
  <2> QED BY <2>1, <2>2 DEF Sender, Sending
<1>10. CASE RadioStep(n)
  <2>1. mode[n] = "tx" /\ txfifo[n] # 0 /\ ~max_rt[n]
    BY <1>10 DEF RadioStep, Delivered, AckLost, Unheard, Transmitting
  <2>2. pc[n] \in {"wait", "flush"} /\ ~tx_ds[n]
    BY <2>1 DEF Sender, Sending
  <2>3. UNCHANGED <<acked, pc, call, held, tot_sent_msgs, mode, offered>>
    BY <1>10 DEF RadioStep, Delivered, AckLost, Unheard, driver
  <2>4. CASE Done(n)
    <3>1. tx_ds'[n] /\ txfifo'[n] = 0 /\ max_rt' = max_rt
      BY <2>4 DEF Done, Set
    <3> QED BY <2>1, <2>2, <2>3, <3>1 DEF Sender, Sending
  <2>5. CASE NoAck(n)
    <3>1. tx_ds' = tx_ds /\ txfifo' = txfifo
      BY <2>5 DEF NoAck
    <3> QED BY <2>1, <2>2, <2>3, <3>1 DEF Sender, Sending
  <2> QED BY <1>10, <2>4, <2>5 DEF RadioStep, Delivered, AckLost, Unheard
<1> QED BY <1>1, <1>2, <1>3, <1>4, <1>5, <1>6, <1>7, <1>8, <1>9, <1>10 DEF DriverStep

----------------------------------------------------------------------------
(* The two ends of a direction.                                            *)

\* Every step keeps the receiver at most one message behind the sender.
LEMMA LinkSteps ==
    ASSUME IInv, NEW n \in Node, Call(n) \/ DriverStep(n) \/ RadioStep(n), NEW m \in Node
    PROVE  Link(m, Peer(m))'
<1> DEFINE p == Peer(m)
<1> USE Functions
<1>0. TypeOK /\ Sender(m) /\ Link(m, p) /\ Sender(n) /\ p \in Node /\ p # m
  BY PeerFacts DEF IInv
<1> HIDE DEF p
<1>1. ASSUME acked' = acked, pid'[p] = pid[p], UNCHANGED <<offered, tot_sent_msgs>>,
             tx_ds'[m] = tx_ds[m] \/ ~tx_ds'[m],
             txfifo'[m] = txfifo[m] \/ txfifo'[m] = 0
      PROVE  Link(m, p)'
  BY <1>0, <1>1 DEF Link
<1>2. CASE (Call(n) \/ DriverStep(n)) /\ ~Load(n) /\ ~Sent(n)
  <2>1. acked' = acked /\ pid' = pid /\ UNCHANGED <<offered, tot_sent_msgs, tx_ds>>
    BY <1>2 DEF DriverStep, Call, GetPacket, PushPacket, Read, Start, GiveUp, Flush, radio
  <2>2. txfifo'[m] = txfifo[m] \/ txfifo'[m] = 0
    BY <1>0, <1>2 DEF DriverStep, Call, GetPacket, PushPacket, Read, Start, GiveUp, Flush, radio,
                         Set
  <2> QED BY <1>1, <2>1, <2>2 DEF p
<1>3. CASE Load(n)
  <2>1. UNCHANGED <<acked, pid, tot_sent_msgs, tx_ds>>
    BY <1>3 DEF Load
  <2>2. CASE m = n
    <3>1. offered'[m] = offered[m] + 1 /\ pc[m] = "poll"
      BY <1>0, <1>3, <2>2 DEF Load, Set
    <3>2. ~tx_ds[m] /\ pid[p] <= offered[m]
      BY <1>0, <3>1 DEF Sender, Link
    <3>3. pid[p] \in Nat /\ offered[m] \in Nat
      BY <1>0
    <3>4. pid'[p] <= offered'[m] /\ pid'[p] # offered'[m]
      BY <2>1, <3>1, <3>2, <3>3
    <3>5. acked' => pid'[p] >= tot_sent_msgs'[m]
      BY <1>0, <2>1 DEF Link
    <3>6. ~tx_ds'[m]
      BY <2>1, <3>2
    <3> QED BY Zenon, <3>4, <3>5, <3>6 DEF Link, p
  <2>3. CASE m # n
    <3>1. offered'[m] = offered[m] /\ txfifo'[m] = txfifo[m]
      BY <1>0, <1>3, <2>3 DEF Load, Set
    <3> QED BY <1>0, <2>1, <3>1 DEF Link, p
  <2> QED BY <2>2, <2>3
<1>4. CASE Sent(n)
  <2>1. UNCHANGED <<acked, pid, offered, txfifo>>
    BY <1>4 DEF Sent
  <2>2. CASE m = n
    <3>1. tot_sent_msgs'[m] = tot_sent_msgs[m] + 1 /\ pc[m] = "wait" /\ tx_ds[m]
      BY <1>0, <1>4, <2>2 DEF Sent, Set
    <3>2. ~tx_ds'[m]
      BY <1>0, <1>4, <2>2 DEF Sent, Set
    <3>3. offered[m] = tot_sent_msgs[m] + 1 /\ (acked => pid[p] = offered[m])
      BY <1>0, <3>1 DEF Sender, Sending, Link
    <3>4. pid[p] \in Nat /\ offered[m] \in Nat /\ tot_sent_msgs[m] \in Nat
      BY <1>0
    <3> QED BY <1>0, <2>1, <3>1, <3>2, <3>3, <3>4 DEF Link, p
  <2>3. CASE m # n
    <3>1. tot_sent_msgs'[m] = tot_sent_msgs[m] /\ tx_ds'[m] = tx_ds[m]
      BY <1>0, <1>4, <2>3 DEF Sent, Set
    <3> QED BY <1>0, <2>1, <3>1 DEF Link, p
  <2> QED BY <2>2, <2>3
<1>5. CASE RadioStep(n)
  <2>0. UNCHANGED <<acked, offered, tot_sent_msgs>>
    BY <1>5 DEF RadioStep, Delivered, AckLost, Unheard, driver
  <2>1. CASE m # n
    <3>1. p = n /\ Peer(n) # p
      BY <1>0, <2>1, PeerFacts DEF p
    <3>2. txfifo'[m] = txfifo[m] /\ tx_ds'[m] = tx_ds[m] /\ pid'[p] = pid[p]
      BY <1>0, <1>5, <2>1, <3>1
         DEF RadioStep, Delivered, AckLost, Unheard, Done, NoAck, Receive, Set
    <3> QED BY <1>0, <2>0, <3>2 DEF Link, p
  <2>2. CASE m = n
    <3>1. mode[m] = "tx" /\ txfifo[m] # 0 /\ ~max_rt[m]
      BY <1>5, <2>2 DEF RadioStep, Delivered, AckLost, Unheard, Transmitting
    <3>2. ~tx_ds[m] /\ txfifo[m] = offered[m] /\ offered[m] = tot_sent_msgs[m] + 1
      BY <1>0, <3>1 DEF Sender, Sending
    <3>3. pid[p] \in Nat /\ offered[m] \in Nat /\ tot_sent_msgs[m] \in Nat
      BY <1>0
    <3>4. CASE Delivered(n)
      <4>1. txfifo'[m] = 0 /\ tx_ds'[m] /\ pid'[p] = txfifo[m]
        BY <1>0, <2>2, <3>4 DEF Delivered, Done, Receive, Set, p
      <4>2. pid'[p] = offered'[m]
        BY <2>0, <3>2, <4>1
      <4>3. pid'[p] <= offered'[m] /\ pid'[p] >= tot_sent_msgs'[m]
        BY <2>0, <3>2, <3>3, <4>2
      <4>4. txfifo'[m] = 0
        BY <2>0, <4>1
      <4> QED BY Zenon, <4>2, <4>3, <4>4 DEF Link, p
    <3>5. CASE AckLost(n)
      <4>1. acked /\ txfifo' = txfifo /\ tx_ds' = tx_ds /\ pid'[p] = txfifo[m]
        BY <1>0, <2>2, <3>5 DEF AckLost, NoAck, Receive, Set, p
      <4>2. pid'[p] = offered'[m]
        BY <2>0, <3>2, <4>1
      <4>3. pid'[p] <= offered'[m] /\ pid'[p] >= tot_sent_msgs'[m]
        BY <2>0, <3>2, <3>3, <4>2
      <4>4. acked'
        BY <2>0, <4>1
      <4> QED BY Zenon, <4>2, <4>3, <4>4 DEF Link, p
    <3>6. CASE Unheard(n)
      <4>1. pid' = pid /\ IF acked THEN NoAck(n) ELSE Done(n)
        BY <3>6 DEF Unheard
      <4>2. CASE acked
        <5>1. txfifo' = txfifo /\ tx_ds' = tx_ds
          BY <4>1, <4>2 DEF NoAck
        <5> QED BY <1>0, <2>0, <4>1, <5>1 DEF Link, p
      <4>3. CASE ~acked
        <5>1. txfifo'[m] = 0
          BY <1>0, <2>2, <4>1, <4>3 DEF Done, Set
        <5> QED BY <1>0, <2>0, <3>2, <3>3, <4>1, <4>3, <5>1 DEF Link, p
      <4> QED BY <4>2, <4>3
    <3> QED BY <1>5, <3>4, <3>5, <3>6 DEF RadioStep
  <2> QED BY <2>1, <2>2
<1> QED BY <1>2, <1>3, <1>4, <1>5 DEF p

----------------------------------------------------------------------------
(* What has arrived and is not read, as one queue.                         *)

Parts(r, h, x) == r \o (IF h = 0 THEN <<>> ELSE <<h>>) \o x

\* A packet goes from the radio into the driver's hands.
LEMMA PartsTake ==
    ASSUME NEW r \in Seq(Nat), NEW x \in Seq(Nat), x # <<>>, Head(x) # 0
    PROVE  Parts(r, Head(x), Tail(x)) = Parts(r, 0, x)
<1>1. Append(r, Head(x)) \o Tail(x) = r \o x
  BY ConcatPop
<1>2. Head(x) \in Nat
  BY HeadTailProperties
<1>3. r \o <<Head(x)>> = Append(r, Head(x)) /\ r \o <<>> = r
  BY <1>2, AppendIsConcat, ConcatEmptySeq
<1> QED BY <1>1, <1>3 DEF Parts

\* A packet goes from the driver's hands into the queue.
LEMMA PartsPush ==
    ASSUME NEW r \in Seq(Nat), NEW h \in Nat, h # 0, NEW x \in Seq(Nat)
    PROVE  Parts(Append(r, h), 0, x) = Parts(r, h, x)
<1>1. Append(r, h) \in Seq(Nat) /\ Append(r, h) = r \o <<h>>
  BY AppendProperties, AppendIsConcat
<1>2. Append(r, h) \o <<>> = Append(r, h)
  BY <1>1, ConcatEmptySeq
<1> QED BY <1>1, <1>2 DEF Parts

\* No message is 0, the mark of an empty hand.
LEMMA NotZero == \A x \in 1..MaxSent : x # 0
BY RadioAssumption

\* The head of the queue is the head of all that has arrived.
LEMMA PartsRead ==
    ASSUME NEW r \in Seq(Nat), NEW h \in Nat, NEW x \in Seq(Nat), r # <<>>
    PROVE  /\ Parts(r, h, x) # <<>> /\ Head(Parts(r, h, x)) = Head(r)
           /\ Tail(Parts(r, h, x)) = Parts(Tail(r), h, x)
<1> DEFINE H == IF h = 0 THEN <<>> ELSE <<h>>
<1>1. H \in Seq(Nat)
  BY EmptySeq
<1> HIDE DEF H
<1>2. /\ r \o H \in Seq(Nat) /\ r \o H # <<>>
      /\ Head(r \o H) = Head(r) /\ Tail(r \o H) = Tail(r) \o H
  BY <1>1, ConcatHeadTail
<1>3. /\ (r \o H) \o x # <<>> /\ Head((r \o H) \o x) = Head(r \o H)
      /\ Tail((r \o H) \o x) = Tail(r \o H) \o x
  <2> DEFINE q == r \o H
  <2>1. q \in Seq(Nat) /\ q # <<>>
    BY <1>2
  <2> HIDE DEF q
  <2>2. q \o x # <<>> /\ Head(q \o x) = Head(q) /\ Tail(q \o x) = Tail(q) \o x
    BY <2>1, ConcatHeadTail
  <2> QED BY <2>2 DEF q
<1>4. /\ Parts(r, h, x) = (r \o H) \o x
      /\ Parts(Tail(r), h, x) = (Tail(r) \o H) \o x
  BY Zenon DEF Parts, H
<1> QED BY Zenon, <1>2, <1>3, <1>4

\* A packet that the radio stores is the last of all that has arrived.
LEMMA PartsArrive ==
    ASSUME NEW r \in Seq(Nat), NEW h \in Nat, NEW x \in Seq(Nat), NEW k \in Nat
    PROVE  /\ Parts(r, h, x) \in Seq(Nat)
           /\ Parts(r, h, Append(x, k)) = Append(Parts(r, h, x), k)
<1> DEFINE H == IF h = 0 THEN <<>> ELSE <<h>>
<1>1. H \in Seq(Nat)
  BY EmptySeq
<1> HIDE DEF H
<1>2. r \o H \in Seq(Nat) /\ (r \o H) \o x \in Seq(Nat)
  BY <1>1, ConcatProperties
<1>3. (r \o H) \o Append(x, k) = Append((r \o H) \o x, k)
  BY <1>2, ConcatAppend
<1> QED BY <1>2, <1>3 DEF Parts, H

\* The inbox, by its parts, before and after a step.
LEMMA InboxParts ==
    ASSUME NEW m \in Node
    PROVE  /\ Inbox(m) = Parts(recvq[m], held[m], rxfifo[m])
           /\ Inbox(m)' = Parts(recvq'[m], held'[m], rxfifo'[m])
BY DEF Inbox, Parts

\* The order of the inbox depends on nothing else.
LEMMA ArrivedFrame ==
    ASSUME NEW m \in Node, Arrived(m), Inbox(m)' = Inbox(m), got'[m] = got[m],
           pid'[m] = pid[m], acked' = acked
    PROVE  Arrived(m)'
BY DEF Arrived

\* The head of the inbox is the least of it.
LEMMA ArrivedRead ==
    ASSUME IInv, NEW m \in Node, Inbox(m) \in Seq(Nat), Inbox(m) # <<>>,
           got'[m] = Head(Inbox(m)), Inbox(m)' = Tail(Inbox(m)),
           pid'[m] = pid[m], acked' = acked
    PROVE  Arrived(m)'
<1> DEFINE q == Inbox(m)
           t == Tail(q)
<1>1. /\ t \in Seq(Nat) /\ Len(t) = Len(q) - 1 /\ Len(q) \in Nat \ {0}
      /\ \A i \in 1..Len(t) : t[i] = q[i + 1]
      /\ Head(q) = q[1] /\ q[1] \in Nat /\ \A i \in 1..Len(q) : q[i] \in Nat
      /\ DOMAIN t = 1..Len(t) /\ DOMAIN q = 1..Len(q)
  <2>1. q \in Seq(Nat) /\ q # <<>>
    OBVIOUS
  <2> HIDE DEF q
  <2>2. t \in Seq(Nat) /\ Len(t) = Len(q) - 1 /\ Head(q) = q[1]
        /\ \A i \in 1..Len(t) : t[i] = q[i + 1]
    BY <2>1, HeadTailProperties
  <2>3. Len(q) \in Nat \ {0} /\ DOMAIN q = 1..Len(q) /\ \A i \in 1..Len(q) : q[i] \in Nat
    BY <2>1, EmptySeq, ElementOfSeq, LenProperties
  <2> HIDE DEF t
  <2>4. DOMAIN t = 1..Len(t)
    BY <2>2, LenProperties
  <2> QED BY <2>2, <2>3, <2>4
<1>2. /\ \A i \in 1..Len(q) : got[m] <= q[i] /\ q[i] <= pid[m]
      /\ \A i, j \in 1..Len(q) : i < j => q[i] <= q[j]
      /\ acked => \A k \in 1..pid[m] : k <= got[m] \/ \E i \in 1..Len(q) : q[i] = k
  <2>1. Arrived(m) /\ DOMAIN q = 1..Len(q)
    BY <1>1 DEF IInv
  <2> QED BY <2>1 DEF Arrived
<1>3. got[m] \in Nat /\ pid[m] \in Nat
  BY Functions DEF IInv
<1> HIDE DEF q, t
<1>4. \A i \in 1..Len(t) : i + 1 \in 1..Len(q) /\ 1 < i + 1 /\ 1 \in 1..Len(q)
  BY <1>1
<1>5. \A i \in DOMAIN t : q[1] <= t[i] /\ t[i] <= pid[m]
  BY <1>1, <1>2, <1>4
<1>6. ASSUME NEW i \in DOMAIN t, NEW j \in DOMAIN t, i < j PROVE t[i] <= t[j]
  <2>1. i \in 1..Len(t) /\ j \in 1..Len(t) /\ Len(t) \in Nat
    BY <1>1
  <2>2. i + 1 \in 1..Len(q) /\ j + 1 \in 1..Len(q) /\ i + 1 < j + 1
    BY <1>4, <1>6, <2>1
  <2>3. q[i + 1] <= q[j + 1]
    BY <1>2, <2>2
  <2> QED BY <1>1, <2>1, <2>3
<1>7. ASSUME acked, NEW k \in 1..pid[m]
      PROVE  k <= q[1] \/ \E i \in DOMAIN t : t[i] = k
  <2>1. CASE k <= got[m]
    <3>1. got[m] <= q[1]
      BY <1>1, <1>2
    <3> QED BY <1>1, <1>3, <2>1, <3>1
  <2>2. CASE \E i \in 1..Len(q) : q[i] = k
    <3>1. PICK i \in 1..Len(q) : q[i] = k
      BY <2>2
    <3>2. CASE i = 1
      BY <1>1, <3>1, <3>2
    <3>3. CASE i # 1
      <4>1. i - 1 \in 1..Len(t) /\ (i - 1) + 1 = i
        BY <1>1, <3>1, <3>3
      <4>2. t[i - 1] = k
        BY <1>1, <3>1, <4>1
      <4> QED BY <1>1, <4>1, <4>2
    <3> QED BY <3>2, <3>3
  <2> QED BY <1>2, <1>7, <2>1, <2>2
<1>8. got'[m] = q[1] /\ Inbox(m)' = t /\ pid'[m] = pid[m] /\ acked' = acked
  <2>1. got'[m] = Head(q) /\ Inbox(m)' = t
    BY DEF q, t
  <2> QED BY <1>1, <2>1
<1>9. q[1] <= pid[m]
  BY <1>1, <1>2
<1> QED BY <1>5, <1>6, <1>7, <1>8, <1>9 DEF Arrived

\* What arrives is at least as new as all that has.
LEMMA ArrivedAppend ==
    ASSUME IInv, NEW m \in Node, NEW k \in Nat, pid[m] <= k, Inbox(m) \in Seq(Nat),
           acked => k <= pid[m] + 1,
           Inbox(m)' = Append(Inbox(m), k), pid'[m] = k, got'[m] = got[m], acked' = acked
    PROVE  Arrived(m)'
<1> DEFINE q == Inbox(m)
           t == Append(q, k)
<1>1. /\ t \in Seq(Nat) /\ Len(t) = Len(q) + 1 /\ Len(q) \in Nat
      /\ \A i \in 1..Len(q) : t[i] = q[i]
      /\ t[Len(q) + 1] = k /\ \A i \in 1..Len(q) : q[i] \in Nat
      /\ DOMAIN t = 1..Len(t) /\ DOMAIN q = 1..Len(q)
  BY AppendProperties, ElementOfSeq, LenProperties
<1>2. /\ \A i \in 1..Len(q) : got[m] <= q[i] /\ q[i] <= pid[m]
      /\ \A i, j \in 1..Len(q) : i < j => q[i] <= q[j]
      /\ acked => \A l \in 1..pid[m] : l <= got[m] \/ \E i \in 1..Len(q) : q[i] = l
  BY <1>1 DEF IInv, Arrived
<1>3. got[m] \in Nat /\ pid[m] \in Nat /\ got[m] <= pid[m]
  BY Functions DEF IInv, Arrived
<1> HIDE DEF q, t
<1>4. \A i \in 1..Len(t) : i \in 1..Len(q) \/ i = Len(q) + 1
  BY <1>1
<1>5. ASSUME NEW i \in DOMAIN t PROVE got[m] <= t[i] /\ t[i] <= k
  <2>1. CASE i = Len(q) + 1
    BY <1>1, <1>3, <2>1
  <2>2. CASE i \in 1..Len(q)
    <3>1. t[i] = q[i] /\ q[i] \in Nat /\ got[m] <= q[i] /\ q[i] <= pid[m]
      BY <1>1, <1>2, <2>2
    <3> QED BY <1>3, <3>1
  <2> QED BY <1>1, <1>4, <2>1, <2>2
<1>6. ASSUME NEW i \in DOMAIN t, NEW j \in DOMAIN t, i < j PROVE t[i] <= t[j]
  <2>1. i \in 1..Len(q)
    BY <1>1, <1>6
  <2>2. CASE j = Len(q) + 1
    BY <1>1, <1>2, <1>3, <2>1, <2>2
  <2>3. CASE j \in 1..Len(q)
    BY <1>1, <1>2, <1>6, <2>1, <2>3
  <2> QED BY <1>1, <1>4, <2>2, <2>3
<1>7. ASSUME acked, NEW l \in 1..k
      PROVE  l <= got[m] \/ \E i \in DOMAIN t : t[i] = l
  <2>1. CASE l = k
    <3>1. Len(q) + 1 \in DOMAIN t
      BY <1>1
    <3> QED BY <1>1, <2>1, <3>1
  <2>2. CASE l # k
    <3>1. l \in 1..pid[m]
      BY <1>3, <1>7, <2>2
    <3>2. CASE l <= got[m]
      BY <3>2
    <3>3. CASE \E i \in 1..Len(q) : q[i] = l
      <4>1. PICK i \in 1..Len(q) : q[i] = l
        BY <3>3
      <4>2. i \in DOMAIN t /\ t[i] = l
        BY <1>1, <4>1
      <4> QED BY <4>2
    <3> QED BY <1>2, <1>7, <3>1, <3>2, <3>3
  <2> QED BY <2>1, <2>2
<1>8. /\ got'[m] = got[m] /\ Inbox(m)' = t /\ pid'[m] = k /\ acked' = acked
      /\ got[m] <= k
  BY <1>3 DEF q, t
<1> QED BY <1>5, <1>6, <1>7, <1>8 DEF Arrived

----------------------------------------------------------------------------
(* What each step does to the inboxes.                                     *)

Quiet(n) == \/ Call(n) \/ GetPacket(n) \/ PushPacket(n) \/ Load(n) \/ Start(n)
            \/ Sent(n) \/ GiveUp(n) \/ Flush(n) \/ Unheard(n)

\* No step but a read and an arrival changes an inbox.
LEMMA InboxKept ==
    ASSUME IInv, NEW n \in Node, Quiet(n), NEW m \in Node
    PROVE  Inbox(m)' = Inbox(m) /\ got' = got /\ pid' = pid /\ acked' = acked
<1> USE Functions DEF IInv
<1>0. got' = got /\ pid' = pid /\ acked' = acked
  BY DEF Quiet, Call, GetPacket, PushPacket, Load, Start, Sent, GiveUp, Flush, Unheard, driver,
         radio
<1>1. CASE GetPacket(n)
  <2>1. CASE m = n
    <3>1. /\ pc[m] = "poll" /\ rxfifo[m] # <<>> /\ held'[m] = Head(rxfifo[m])
          /\ rxfifo'[m] = Tail(rxfifo[m]) /\ recvq'[m] = recvq[m]
      BY <1>1, <2>1 DEF GetPacket, Set
    <3>2. held[m] = 0
      BY <3>1 DEF Sender
    <3>3. Head(rxfifo[m]) # 0
      <4>1. rxfifo[m] \in Seq(1..MaxSent)
        BY DEF TypeOK
      <4>2. Head(rxfifo[m]) \in 1..MaxSent
        BY <3>1, <4>1, HeadTailProperties
      <4> QED BY <4>2, NotZero, Zenon
    <3>4. recvq[m] \in Seq(Nat) /\ rxfifo[m] \in Seq(Nat)
      OBVIOUS
    <3>5. Parts(recvq[m], Head(rxfifo[m]), Tail(rxfifo[m])) = Parts(recvq[m], 0, rxfifo[m])
      BY <3>1, <3>3, <3>4, PartsTake
    <3> QED BY <1>0, <3>1, <3>2, <3>5, InboxParts
  <2>2. CASE m # n
    <3>1. held'[m] = held[m] /\ rxfifo'[m] = rxfifo[m] /\ recvq'[m] = recvq[m]
      BY <1>1, <2>2 DEF GetPacket, Set
    <3> QED BY <1>0, <3>1, InboxParts
  <2> QED BY <2>1, <2>2
<1>2. CASE PushPacket(n)
  <2>0. rxfifo' = rxfifo
    BY <1>2 DEF PushPacket, radio
  <2>1. CASE m = n /\ Len(recvq[n]) < QueueDepth
    <3>1. pc[m] = "push" /\ recvq'[m] = Append(recvq[m], held[m]) /\ held'[m] = 0
      BY <1>2, <2>1 DEF PushPacket, Set
    <3>2. held[m] # 0 /\ held[m] \in Nat /\ recvq[m] \in Seq(Nat) /\ rxfifo[m] \in Seq(Nat)
      BY <3>1 DEF Sender
    <3>3. Parts(Append(recvq[m], held[m]), 0, rxfifo[m]) = Parts(recvq[m], held[m], rxfifo[m])
      BY <3>2, PartsPush
    <3> QED BY <1>0, <2>0, <3>1, <3>3, InboxParts
  <2>2. CASE ~(m = n /\ Len(recvq[n]) < QueueDepth)
    <3>1. held'[m] = held[m] /\ recvq'[m] = recvq[m]
      BY <1>2, <2>2 DEF PushPacket, Set
    <3> QED BY <1>0, <2>0, <3>1, InboxParts
  <2> QED BY <2>1, <2>2
<1>3. CASE ~GetPacket(n) /\ ~PushPacket(n)
  <2>1. recvq' = recvq /\ held' = held /\ rxfifo' = rxfifo
    BY <1>3 DEF Quiet, Call, Load, Start, Sent, GiveUp, Flush, Unheard, driver, radio
  <2> QED BY <1>0, <2>1, InboxParts
<1> QED BY <1>1, <1>2, <1>3

\* A read takes the oldest message.
LEMMA InboxRead ==
    ASSUME IInv, NEW n \in Node, Read(n), NEW m \in Node
    PROVE  /\ pid' = pid /\ acked' = acked /\ Inbox(m) \in Seq(Nat)
           /\ \/ Inbox(m)' = Inbox(m) /\ got'[m] = got[m]
              \/ /\ m = n /\ Inbox(m) # <<>> /\ got'[m] = Head(Inbox(m))
                 /\ Inbox(m)' = Tail(Inbox(m))
<1> USE Functions DEF IInv
<1>0. pid' = pid /\ acked' = acked /\ rxfifo' = rxfifo /\ held' = held
  BY DEF Read, radio
<1>1. recvq[m] \in Seq(Nat) /\ held[m] \in Nat /\ rxfifo[m] \in Seq(Nat)
  OBVIOUS
<1>2. Inbox(m) \in Seq(Nat)
  BY <1>1, PartsArrive, InboxParts
<1>3. CASE recvq'[m] = recvq[m] /\ got'[m] = got[m]
  BY <1>0, <1>2, <1>3, InboxParts
<1>4. CASE /\ m = n /\ recvq[m] # <<>> /\ got'[m] = Head(recvq[m])
           /\ recvq'[m] = Tail(recvq[m])
  <2>1. /\ Inbox(m) # <<>> /\ Head(Inbox(m)) = Head(recvq[m])
        /\ Tail(Inbox(m)) = Parts(Tail(recvq[m]), held[m], rxfifo[m])
    <3> DEFINE r == recvq[m]
               h == held[m]
               x == rxfifo[m]
    <3>1. r \in Seq(Nat) /\ h \in Nat /\ x \in Seq(Nat) /\ r # <<>>
      BY <1>1, <1>4
    <3>2. Inbox(m) = Parts(r, h, x)
      BY InboxParts
    <3> HIDE DEF r, h, x
    <3>3. /\ Parts(r, h, x) # <<>> /\ Head(Parts(r, h, x)) = Head(r)
          /\ Tail(Parts(r, h, x)) = Parts(Tail(r), h, x)
      BY <3>1, PartsRead
    <3>4. Inbox(m) # <<>> /\ Head(Inbox(m)) = Head(r) /\ Tail(Inbox(m)) = Parts(Tail(r), h, x)
      BY <3>2, <3>3
    <3> QED BY <3>4 DEF r, h, x
  <2>2. Inbox(m)' = Tail(Inbox(m))
    BY <1>0, <1>4, <2>1, InboxParts
  <2> QED BY <1>0, <1>2, <1>4, <2>1, <2>2
<1>5. \/ recvq'[m] = recvq[m] /\ got'[m] = got[m]
      \/ /\ m = n /\ recvq[m] # <<>> /\ got'[m] = Head(recvq[m])
         /\ recvq'[m] = Tail(recvq[m])
  <2>0. recvq \in [Node -> Seq(Nat)] /\ got \in [Node -> Nat]
    OBVIOUS
  <2>1. CASE /\ recvq[n] # <<>> /\ recvq' = Set(recvq, n, Tail(recvq[n]))
             /\ got' = Set(got, n, Head(recvq[n]))
    <3>1. CASE m = n
      BY <2>0, <2>1, <3>1 DEF Set
    <3>2. CASE m # n
      BY <2>0, <2>1, <3>2 DEF Set
    <3> QED BY <3>1, <3>2
  <2>2. CASE recvq' = recvq /\ got' = got
    BY <2>2
  <2> QED BY <2>1, <2>2 DEF Read
<1> QED BY <1>3, <1>4, <1>5

\* An arrival adds the message being sent, or repeats the last one.
LEMMA InboxReceive ==
    ASSUME IInv, NEW n \in Node, Delivered(n) \/ AckLost(n), NEW m \in Node
    PROVE  /\ got' = got /\ acked' = acked
           /\ pc[n] \in {"wait", "flush"}
           /\ txfifo[n] = offered[n] /\ txfifo[n] \in Nat \ {0}
           /\ Inbox(m) \in Seq(Nat)
           /\ m = n => Inbox(m)' = Inbox(m) /\ pid'[m] = pid[m]
           /\ m = Peer(n) =>
                 /\ pid'[m] = txfifo[n]
                 /\ \/ Inbox(m)' = Append(Inbox(m), txfifo[n])
                    \/ acked /\ pid[m] = txfifo[n] /\ Inbox(m)' = Inbox(m)
<1> USE Functions DEF IInv
<1> DEFINE k == txfifo[n]
<1>0. UNCHANGED <<acked, recvq, held, got>> /\ Transmitting(n) /\ Receive(Peer(n), k)
  BY DEF Delivered, AckLost, driver
<1>1. mode[n] = "tx" /\ k \in Nat /\ k # 0 /\ ~max_rt[n]
  BY <1>0 DEF Transmitting
<1>2. pc[n] \in {"wait", "flush"} /\ k = offered[n]
  BY <1>1 DEF Sender
<1>3. recvq[m] \in Seq(Nat) /\ held[m] \in Nat /\ rxfifo[m] \in Seq(Nat)
  OBVIOUS
<1>4. /\ Inbox(m) \in Seq(Nat)
      /\ Parts(recvq[m], held[m], Append(rxfifo[m], k)) = Append(Inbox(m), k)
  <2>1. k \in Nat
    BY <1>1
  <2> HIDE DEF k
  <2>2. /\ Parts(recvq[m], held[m], rxfifo[m]) \in Seq(Nat)
        /\ Parts(recvq[m], held[m], Append(rxfifo[m], k))
              = Append(Parts(recvq[m], held[m], rxfifo[m]), k)
    BY Zenon, <1>3, <2>1, PartsArrive
  <2> QED BY <2>2, InboxParts
<1> HIDE DEF k
<1>5. ASSUME m = n PROVE Inbox(m)' = Inbox(m) /\ pid'[m] = pid[m]
  <2>1. rxfifo'[m] = rxfifo[m] /\ pid'[m] = pid[m]
    BY <1>0, <1>5, PeerFacts DEF Receive, Set
  <2> QED BY <1>0, <2>1, InboxParts
<1>6. ASSUME m = Peer(n)
      PROVE  /\ pid'[m] = k
             /\ \/ Inbox(m)' = Append(Inbox(m), k)
                \/ acked /\ pid[m] = k /\ Inbox(m)' = Inbox(m)
  <2>1. pid'[m] = k
    BY <1>0, <1>6, PeerFacts DEF Receive, Set
  <2>2. CASE rxfifo'[m] = Append(rxfifo[m], k)
    BY <1>0, <1>4, <2>1, <2>2, InboxParts
  <2>3. CASE acked /\ pid[m] = k /\ rxfifo' = rxfifo
    BY <1>0, <2>1, <2>3, InboxParts
  <2> QED BY <1>0, <1>6, <2>2, <2>3, PeerFacts DEF Receive, Set
<1> QED BY <1>0, <1>1, <1>2, <1>4, <1>5, <1>6 DEF k

\* Every step keeps the inboxes in order, and complete where acknowledged.
LEMMA ArrivedSteps ==
    ASSUME IInv, NEW n \in Node, Call(n) \/ DriverStep(n) \/ RadioStep(n), NEW m \in Node
    PROVE  Arrived(m)'
<1>0. Arrived(m)
  BY DEF IInv
<1>1. CASE Quiet(n)
  BY <1>0, <1>1, InboxKept, ArrivedFrame
<1>2. CASE Read(n)
  <2>1. CASE Inbox(m)' = Inbox(m) /\ got'[m] = got[m]
    BY <1>0, <1>2, <2>1, InboxRead, ArrivedFrame
  <2>2. CASE Inbox(m) # <<>> /\ got'[m] = Head(Inbox(m)) /\ Inbox(m)' = Tail(Inbox(m))
    BY <1>2, <2>2, InboxRead, ArrivedRead
  <2> QED BY <1>2, <2>1, <2>2, InboxRead
<1>3. CASE Delivered(n) \/ AckLost(n)
  <2>1. CASE m = n
    BY <1>0, <1>3, <2>1, InboxReceive, ArrivedFrame
  <2>2. CASE m = Peer(n)
    <3>1. /\ got' = got /\ acked' = acked /\ txfifo[n] = offered[n] /\ txfifo[n] \in Nat
          /\ Inbox(m) \in Seq(Nat) /\ pid'[m] = txfifo[n]
          /\ pc[n] \in {"wait", "flush"}
      BY <1>3, <2>2, InboxReceive
    <3>2. offered[n] = tot_sent_msgs[n] + 1 /\ pid[m] <= offered[n]
          /\ (acked => pid[m] >= tot_sent_msgs[n])
      BY <2>2, <3>1 DEF IInv, Sender, Sending, Link
    <3>3. pid[m] <= txfifo[n] /\ (acked => txfifo[n] <= pid[m] + 1)
      <4>1. pid[m] \in Nat /\ tot_sent_msgs[n] \in Nat /\ offered[n] \in Nat
        BY Functions DEF IInv
      <4> QED BY <3>1, <3>2, <4>1
    <3>4. CASE Inbox(m)' = Append(Inbox(m), txfifo[n])
      BY <3>1, <3>3, <3>4, ArrivedAppend
    <3>5. CASE pid[m] = txfifo[n] /\ Inbox(m)' = Inbox(m)
      BY <1>0, <3>1, <3>5, ArrivedFrame
    <3> QED BY <1>3, <2>2, <3>4, <3>5, InboxReceive
  <2> QED BY <2>1, <2>2, PeerFacts
<1> QED BY <1>1, <1>2, <1>3 DEF DriverStep, RadioStep, Quiet

----------------------------------------------------------------------------
\* The invariant holds at first.
LEMMA InitInv == Init => IInv
<1> SUFFICES ASSUME Init PROVE IInv
  OBVIOUS
<1>1. TypeOK
  BY InitType
<1>2. ASSUME NEW n \in Node PROVE Sender(n) /\ Link(n, Peer(n)) /\ Arrived(n)
  <2>0. Peer(n) \in Node
    BY PeerFacts
  <2>1. Inbox(n) = <<>> /\ DOMAIN Inbox(n) = {}
    BY ConcatEmptySeq, EmptySeq DEF Init, Inbox
  <2>2. Sender(n)
    BY DEF Init, Sender, Sending
  <2>3. Link(n, Peer(n))
    BY <2>0 DEF Init, Link
  <2>4. Arrived(n)
    BY <2>1 DEF Init, Arrived
  <2> QED BY <2>2, <2>3, <2>4
<1> QED BY <1>1, <1>2 DEF IInv

\* Every step keeps the invariant.
LEMMA StepInv ==
    ASSUME IInv, [Next]_vars
    PROVE  IInv'
<1>1. ASSUME NEW n \in Node, Call(n) \/ DriverStep(n) \/ RadioStep(n)
      PROVE  IInv'
  <2>1. TypeOK'
    BY <1>1, DriverType, RadioType DEF IInv
  <2>2. ASSUME NEW m \in Node PROVE Sender(m)'
    BY <1>1, SenderAlone, SenderSteps DEF IInv
  <2>3. ASSUME NEW m \in Node PROVE Link(m, Peer(m))'
    BY <1>1, LinkSteps
  <2>4. ASSUME NEW m \in Node PROVE Arrived(m)'
    BY <1>1, ArrivedSteps
  <2> QED BY <2>1, <2>2, <2>3, <2>4 DEF IInv
<1>2. CASE UNCHANGED vars
  <2>1. TypeOK'
    BY <1>2 DEF vars, driver, radio, IInv, TypeOK
  <2>2. ASSUME NEW m \in Node PROVE Sender(m)' /\ Link(m, Peer(m))'
    BY <1>2 DEF vars, driver, radio, IInv, Sender, Link
  <2>3. ASSUME NEW m \in Node PROVE Arrived(m)'
    <3>1. Inbox(m)' = Inbox(m) /\ pid' = pid /\ got' = got /\ acked' = acked
      BY <1>2, InboxParts DEF vars, driver, radio
    <3> QED BY <3>1, ArrivedFrame DEF IInv
  <2> QED BY <2>1, <2>2, <2>3 DEF IInv
<1> QED BY <1>1, <1>2 DEF Next, Halted

\* The invariant holds in every reachable state.
LEMMA Invariance == Spec => []IInv
BY InitInv, StepInv, PTL DEF Spec

\* The radios' FIFOs, the queues and the counters of both pis stay within their bounds.
THEOREM TypeCorrect == Spec => []TypeOK
<1>1. IInv => TypeOK
  BY DEF IInv
<1> QED BY <1>1, Invariance, PTL

\* No nrf_opt_assert fails, and between sends a radio listens and has nothing left over.
THEOREM AlwaysListens == Spec => []AlwaysListening
<1>1. IInv => AlwaysListening
  BY DEF IInv, Sender, AlwaysListening
<1> QED BY <1>1, Invariance, PTL

\* What an acknowledged send has delivered is read or still kept for the reader.
THEOREM AckedKept == Spec => []AckedIsKept
<1>1. IInv => AckedIsKept
  <2> SUFFICES ASSUME IInv, acked, NEW n \in Node, NEW k \in 1..tot_sent_msgs[n]
               PROVE  \/ k <= got[Peer(n)]
                      \/ \E i \in 1..Len(Inbox(Peer(n))) : Inbox(Peer(n))[i] = k
    BY DEF AckedIsKept
  <2>1. Peer(n) \in Node /\ Arrived(Peer(n)) /\ Link(n, Peer(n))
    BY PeerFacts DEF IInv
  <2>2. k \in 1..pid[Peer(n)]
    <3>1. Peer(Peer(n)) = n /\ pid[Peer(n)] \in Nat /\ tot_sent_msgs[n] \in Nat
      BY <2>1, PeerFacts, Functions DEF IInv
    <3>2. tot_sent_msgs[n] <= pid[Peer(n)]
      BY <2>1 DEF Link
    <3> QED BY <3>1, <3>2
  <2>3. /\ recvq[Peer(n)] \in Seq(Nat) /\ held[Peer(n)] \in Nat /\ rxfifo[Peer(n)] \in Seq(Nat)
    BY <2>1, Functions DEF IInv
  <2>4. Inbox(Peer(n)) \in Seq(Nat)
    BY <2>1, <2>3, PartsArrive, InboxParts
  <2>5. DOMAIN Inbox(Peer(n)) = 1..Len(Inbox(Peer(n)))
    BY <2>4, LenProperties
  <2> QED BY <2>1, <2>2, <2>5 DEF Arrived
<1> QED BY <1>1, Invariance, PTL
----------------------------------------------------------------------------
(***************************************************************************)
(* The refinement: the drivers and their radios implement RadioChannel.    *)
(* Each step of theirs is a step of the channel from node 1 to node 2, or  *)
(* none.                                                                   *)
(***************************************************************************)

\* The state of the channel, by the names that the refinement gives it.
sending == pc[1] \in Sending
reached == offered[1] > 0 /\ pid[2] = offered[1]

Still == UNCHANGED <<acked, offered[1], sending, reached, Inbox(2), got[2], tot_sent_msgs[1]>>

\* The two nodes.
LEMMA Nodes == 1 \in Node /\ 2 \in Node /\ Peer(1) = 2 /\ Peer(2) = 1 /\ Node = {1, 2}
BY DEF Node, Peer

\* A step that changes nothing the channel shows is a stutter.
LEMMA StillMaps ==
    ASSUME Still
    PROVE  UNCHANGED OneToTwo!vars
BY DEF Still, OneToTwo!vars, sending, Sending, reached

\* The initial state of the drivers is the initial state of the channel.
LEMMA InitMaps == Init => OneToTwo!Init
<1> SUFFICES ASSUME Init PROVE OneToTwo!Init
  OBVIOUS
<1>1. acked \in BOOLEAN
  BY RadioAssumption DEF Init
<1>2. offered[1] = 0 /\ tot_sent_msgs[1] = 0 /\ got[2] = 0 /\ pc[1] = "idle"
  BY Nodes DEF Init
<1>3. Inbox(2) = <<>>
  BY Nodes, ConcatEmptySeq, EmptySeq DEF Init, Inbox
<1> QED BY <1>1, <1>2, <1>3 DEF OneToTwo!Init, Sending

\* The types of what the channel is made of.
LEMMA Facts ==
    ASSUME IInv
    PROVE  /\ pc \in [Node -> Place] /\ offered \in [Node -> Nat] /\ pid \in [Node -> Nat]
           /\ tot_sent_msgs \in [Node -> Nat] /\ txfifo \in [Node -> Nat]
           /\ Sender(1) /\ Link(1, 2)
<1>1. TypeOK
  BY DEF IInv
<1>2. Sender(1) /\ Link(1, 2)
  BY Nodes DEF IInv
<1> QED BY <1>1, <1>2, Functions

----------------------------------------------------------------------------
(* Steps of node 1, the sender.                                            *)

\* A step of node 1 sends, succeeds, fails, arrives, or is none of the channel's.
LEMMA SenderMaps ==
    ASSUME IInv, Call(1) \/ DriverStep(1) \/ RadioStep(1)
    PROVE  [OneToTwo!Next]_(OneToTwo!vars)
<1> USE Nodes
<1>0. /\ pc \in [Node -> Place] /\ offered \in [Node -> Nat] /\ pid \in [Node -> Nat]
      /\ tot_sent_msgs \in [Node -> Nat] /\ Sender(1) /\ Link(1, 2)
  BY Facts
<1>1. CASE Call(1) \/ GetPacket(1) \/ PushPacket(1) \/ Start(1) \/ GiveUp(1) \/ Unheard(1)
  <2>1. Inbox(2)' = Inbox(2) /\ got' = got /\ pid' = pid /\ acked' = acked
    BY <1>1, InboxKept DEF Quiet
  <2>2. offered' = offered /\ tot_sent_msgs' = tot_sent_msgs
    BY <1>1 DEF Call, GetPacket, PushPacket, Start, GiveUp, Unheard, driver
  <2>3. sending' = sending
    <3>1. CASE GiveUp(1)
      BY <1>0, <3>1 DEF GiveUp, Goto, sending, Sending
    <3>2. CASE Call(1) \/ GetPacket(1) \/ PushPacket(1) \/ Start(1) \/ Unheard(1)
      BY <1>0, <3>2
         DEF Call, GetPacket, PushPacket, Start, Unheard, driver, Goto, sending, Sending
    <3> QED BY <1>1, <3>1, <3>2
  <2> QED BY <2>1, <2>2, <2>3, StillMaps DEF Still, reached
<1>2. CASE Read(1)
  <2>1. Inbox(2)' = Inbox(2) /\ got'[2] = got[2] /\ pid' = pid /\ acked' = acked
    BY <1>2, InboxRead
  <2>2. offered' = offered /\ tot_sent_msgs' = tot_sent_msgs
    BY <1>2 DEF Read
  <2>3. sending' = sending
    BY <1>0, <1>2 DEF Read, Goto, sending, Sending
  <2> QED BY <2>1, <2>2, <2>3, StillMaps DEF Still, reached
<1>3. CASE Load(1)
  <2>1. Inbox(2)' = Inbox(2) /\ got' = got /\ pid' = pid /\ acked' = acked
    BY <1>3, InboxKept DEF Quiet
  <2>2. offered'[1] = offered[1] + 1 /\ tot_sent_msgs' = tot_sent_msgs
    BY <1>0, <1>3 DEF Load, Set
  <2>3. ~sending /\ sending'
    BY <1>0, <1>3 DEF Load, Goto, sending, Sending
  <2>4. ~reached'
    <3>1. pid[2] <= offered[1] /\ pid[2] \in Nat /\ offered[1] \in Nat
      BY <1>0 DEF Link
    <3> QED BY <2>1, <2>2, <3>1 DEF reached
  <2>5. OneToTwo!Offer
    BY <2>1, <2>2, <2>3, <2>4 DEF OneToTwo!Offer, sending, Sending, reached
  <2> QED BY <2>1, <2>5 DEF OneToTwo!Next
<1>4. CASE Sent(1)
  <2>1. Inbox(2)' = Inbox(2) /\ got' = got /\ pid' = pid /\ acked' = acked
    BY <1>4, InboxKept DEF Quiet
  <2>2. /\ offered' = offered /\ tot_sent_msgs'[1] = tot_sent_msgs[1] + 1
        /\ tx_ds[1] /\ pc[1] = "wait"
    BY <1>0, <1>4 DEF Sent, Set
  <2>3. sending /\ ~sending'
    BY <1>0, <1>4 DEF Sent, Goto, sending, Sending
  <2>4. acked => reached
    <3>1. offered[1] = tot_sent_msgs[1] + 1
      BY <1>0, <2>2 DEF Sender, Sending
    <3>2. offered[1] > 0
      BY <1>0, <3>1
    <3> QED BY <1>0, <2>2, <3>2 DEF Link, reached
  <2>5. reached' = reached
    BY <2>1, <2>2 DEF reached
  <2>6. OneToTwo!Succeed
    BY <2>1, <2>2, <2>3, <2>4, <2>5 DEF OneToTwo!Succeed, sending, Sending, reached
  <2> QED BY <2>1, <2>6 DEF OneToTwo!Next
<1>5. CASE Flush(1)
  <2>1. Inbox(2)' = Inbox(2) /\ got' = got /\ pid' = pid /\ acked' = acked
    BY <1>5, InboxKept DEF Quiet
  <2>2. offered' = offered /\ tot_sent_msgs' = tot_sent_msgs /\ acked
    BY <1>0, <1>5 DEF Sender, Flush
  <2>3. sending /\ ~sending'
    BY <1>0, <1>5 DEF Flush, Goto, sending, Sending
  <2>4. reached' = reached
    BY <2>1, <2>2 DEF reached
  <2>5. OneToTwo!Fail
    BY <2>1, <2>2, <2>3, <2>4 DEF OneToTwo!Fail, sending, Sending, reached
  <2> QED BY <2>1, <2>5 DEF OneToTwo!Next
<1>6. CASE Delivered(1) \/ AckLost(1)
  <2>1. /\ got' = got /\ acked' = acked /\ pc[1] \in {"wait", "flush"}
        /\ txfifo[1] = offered[1]
        /\ txfifo[1] \in Nat \ {0} /\ pid'[2] = txfifo[1]
        /\ \/ Inbox(2)' = Append(Inbox(2), txfifo[1])
           \/ acked /\ pid[2] = txfifo[1] /\ Inbox(2)' = Inbox(2)
    BY <1>6, InboxReceive
  <2>2. offered' = offered /\ tot_sent_msgs' = tot_sent_msgs /\ pc' = pc
    BY <1>6 DEF Delivered, AckLost, driver
  <2>3. sending /\ sending' /\ reached'
    BY <2>1, <2>2 DEF sending, Sending, reached
  <2>4. CASE Inbox(2)' = Append(Inbox(2), txfifo[1])
    <3>1. reached => acked
      BY <1>0, <2>1 DEF Link, reached
    <3>2. OneToTwo!Arrive
      BY <2>1, <2>2, <2>3, <2>4, <3>1 DEF OneToTwo!Arrive, sending, Sending, reached
    <3> QED BY <2>1, <3>2 DEF OneToTwo!Next
  <2>5. CASE pid[2] = txfifo[1] /\ Inbox(2)' = Inbox(2)
    <3>1. reached
      BY <2>1, <2>5 DEF reached
    <3> QED BY <2>1, <2>2, <2>3, <2>5, <3>1, StillMaps DEF Still
  <2> QED BY <2>1, <2>4, <2>5
<1> QED BY <1>1, <1>2, <1>3, <1>4, <1>5, <1>6 DEF DriverStep, RadioStep

----------------------------------------------------------------------------
(* Steps of node 2, the reader.                                            *)

\* They leave the sender's part alone.
LEMMA ReaderFrame ==
    ASSUME IInv, Call(2) \/ DriverStep(2) \/ RadioStep(2)
    PROVE  UNCHANGED <<offered[1], pc[1], tot_sent_msgs[1]>>
<1>0. /\ pc \in [Node -> Place] /\ offered \in [Node -> Nat]
      /\ tot_sent_msgs \in [Node -> Nat]
  BY Facts
<1>1. ASSUME NEW place, Goto(2, place) PROVE pc'[1] = pc[1]
  BY <1>0, <1>1, Nodes DEF Goto
<1>2. CASE Call(2)
  BY <1>1, <1>2 DEF Call
<1>3. CASE GetPacket(2) \/ PushPacket(2) \/ Start(2) \/ GiveUp(2) \/ Flush(2)
  BY <1>1, <1>3 DEF GetPacket, PushPacket, Start, GiveUp, Flush
<1>4. CASE Read(2)
  BY <1>1, <1>4 DEF Read
<1>5. CASE Load(2)
  BY <1>0, <1>1, <1>5, Nodes DEF Load, Set
<1>6. CASE Sent(2)
  BY <1>0, <1>1, <1>6, Nodes DEF Sent, Set
<1>7. CASE RadioStep(2)
  BY <1>7 DEF RadioStep, Delivered, AckLost, Unheard, driver
<1> QED BY <1>2, <1>3, <1>4, <1>5, <1>6, <1>7 DEF DriverStep

\* A step of node 2 reads, or is none of the channel's.
LEMMA ReaderMaps ==
    ASSUME IInv, Call(2) \/ DriverStep(2) \/ RadioStep(2)
    PROVE  [OneToTwo!Next]_(OneToTwo!vars)
<1> USE Nodes
<1>1. UNCHANGED <<offered[1], sending, tot_sent_msgs[1]>>
  BY ReaderFrame DEF sending, Sending
<1>2. CASE Quiet(2)
  <2>1. Inbox(2)' = Inbox(2) /\ got' = got /\ pid' = pid /\ acked' = acked
    BY <1>2, InboxKept
  <2> QED BY <1>1, <2>1, StillMaps DEF Still, reached
<1>3. CASE Delivered(2) \/ AckLost(2)
  <2>1. Inbox(2)' = Inbox(2) /\ got' = got /\ pid'[2] = pid[2] /\ acked' = acked
    BY <1>3, InboxReceive
  <2> QED BY <1>1, <2>1, StillMaps DEF Still, reached
<1>4. CASE Read(2)
  <2>1. pid' = pid /\ acked' = acked
    BY <1>4, InboxRead
  <2>2. reached' = reached
    BY <1>1, <2>1 DEF reached
  <2>3. CASE Inbox(2)' = Inbox(2) /\ got'[2] = got[2]
    BY <1>1, <2>1, <2>2, <2>3, StillMaps DEF Still
  <2>4. CASE Inbox(2) # <<>> /\ got'[2] = Head(Inbox(2)) /\ Inbox(2)' = Tail(Inbox(2))
    <3>1. OneToTwo!Read
      BY <1>1, <2>2, <2>4 DEF OneToTwo!Read, sending, Sending, reached
    <3> QED BY <2>1, <3>1 DEF OneToTwo!Next
  <2> QED BY <1>4, <2>3, <2>4, InboxRead
<1> QED BY <1>2, <1>3, <1>4 DEF DriverStep, RadioStep, Quiet

\* Every step is a step of the channel, or none.
LEMMA StepMaps ==
    ASSUME IInv, [Next]_vars
    PROVE  [OneToTwo!Next]_(OneToTwo!vars)
<1>1. CASE UNCHANGED vars
  <2>1. UNCHANGED <<acked, pc, offered, pid, got, tot_sent_msgs, recvq, held, rxfifo>>
    BY <1>1 DEF vars, driver, radio
  <2>2. Inbox(2)' = Inbox(2)
    BY <2>1, Nodes, InboxParts
  <2> QED BY <2>1, <2>2, StillMaps DEF Still, sending, Sending, reached
<1>2. CASE \E n \in Node : Call(n) \/ DriverStep(n) \/ RadioStep(n)
  BY <1>2, SenderMaps, ReaderMaps, Nodes
<1> QED BY <1>1, <1>2 DEF Next, Halted

\* Messages from one pi to the other keep their order; one is lost only if it may be, and
\* repeated only while it is being retransmitted.
THEOREM DriversAreAChannel == Spec => ImplementsChannel
BY InitMaps, StepMaps, Invariance, PTL DEF Spec, ImplementsChannel, OneToTwo!Spec
=============================================================================
