------------------------- MODULE LogicAnalyzerProofs -------------------------
(***************************************************************************)
(* What the logic analyzer records, for a queue of any size, any number of *)
(* edges and any number of turns of the reader's loop.                     *)
(***************************************************************************)
EXTENDS LogicAnalyzer, SequenceTheorems, TLAPS

----------------------------------------------------------------------------
(* Queues: popped at one end and pushed at the other                       *)

\* Appending to the second of two sequences appends to both.
LEMMA ConcatAppend ==
    ASSUME NEW S, NEW o \in Seq(S), NEW p \in Seq(S), NEW w \in S
    PROVE  o \o Append(p, w) = Append(o \o p, w)
<1> DEFINE h == <<w>>
<1>1. h \in Seq(S) /\ o \o p \in Seq(S)
  BY ConcatProperties
<1>2. Append(p, w) = p \o h /\ Append(o \o p, w) = (o \o p) \o h
  BY <1>1, AppendIsConcat
<1> HIDE DEF h
<1>3. (o \o p) \o h = o \o (p \o h)
  BY <1>1, ConcatAssociative
<1> QED BY <1>2, <1>3

\* The head of the second of two sequences moves to the end of the first.
LEMMA ConcatPop ==
    ASSUME NEW S, NEW o \in Seq(S), NEW p \in Seq(S), p # <<>>
    PROVE  /\ Append(o, Head(p)) \in Seq(S) /\ Tail(p) \in Seq(S)
           /\ Len(Append(o, Head(p))) = Len(o) + 1 /\ Len(Tail(p)) = Len(p) - 1
           /\ Append(o, Head(p)) \o Tail(p) = o \o p
<1> DEFINE h == <<Head(p)>>
           t == Tail(p)
<1>1. Head(p) \in S /\ t \in Seq(S) /\ Len(t) = Len(p) - 1 /\ h \in Seq(S)
  BY HeadTailProperties
<1>2. /\ Append(o, Head(p)) = o \o h /\ Append(o, Head(p)) \in Seq(S)
      /\ Len(Append(o, Head(p))) = Len(o) + 1
  BY <1>1, AppendIsConcat
<1>3. h \o t = p
  <2>1. Len(p) \in Nat \ {0} /\ SubSeq(p, 1, Len(p)) = p /\ t = SubSeq(p, 2, Len(p))
    BY EmptySeq, SubSeqFull, TailIsSubSeq
  <2>2. SubSeq(p, 1, Len(p)) = <<p[1]>> \o SubSeq(p, 1 + 1, Len(p))
    BY <2>1, SubSeqRecursiveFirst
  <2> QED BY <2>1, <2>2
<1> HIDE DEF h, t
<1>4. (o \o h) \o t = o \o (h \o t)
  BY <1>1, ConcatAssociative
<1>5. Append(o, Head(p)) \o t = o \o p
  BY Zenon, <1>2, <1>3, <1>4
<1> QED BY <1>1, <1>2, <1>5 DEF t

----------------------------------------------------------------------------
(* Pairs of words, and the log as one sequence.                            *)

\* Remainders and halves, for pairs.
LEMMA Parity ==
    ASSUME NEW n \in Nat
    PROVE  /\ n % 2 \in {0, 1} /\ (n + 1) % 2 = 1 - (n % 2)
           /\ (2 * n) % 2 = 0 /\ (2 * n) \div 2 = n /\ (2 * n + 1) % 2 = 1
OBVIOUS

\* Nothing is added to an even number.
LEMMA ParityOfSum ==
    ASSUME NEW m \in Nat, NEW n \in Nat, (m + n) % 2 = 0, n = 0
    PROVE  m % 2 = 0
OBVIOUS

\* The pin changes its level with every edge.
LEMMA LevelBefore ==
    ASSUME NEW k \in Nat
    PROVE  1 - Level(k) = k % 2 /\ k % 2 \in {0, 1}
BY Parity DEF Level

\* A word says whether it is a time or a level.
LEMMA WordForms ==
    /\ \A k \in 0..MaxEdges : Time(k) \in Word /\ Time(k)[1] = "s" /\ Time(k)[2] = k
    /\ \A l \in {0, 1} : Value(l) \in Word /\ Value(l)[1] = "v"
BY DEF Time, Value, Word

\* The log is what the reader has printed and what is still queued.
LEMMA LogType ==
    ASSUME TypeOK
    PROVE  Log \in Seq(Word) /\ Len(Log) = Len(out) + Len(q) /\ Len(Log) \in Nat
           /\ DOMAIN Log = 1..Len(Log) /\ Len(out) \in Nat /\ Len(q) \in Nat
<1>1. out \in Seq(Word) /\ q \in Seq(Word)
  BY DEF TypeOK
<1> QED BY <1>1, ConcatProperties, LenProperties DEF Log

\* A word that is not refused comes after all that was recorded.
LEMMA PushLog ==
    ASSUME TypeOK, NEW w \in Word, Push(w), out' = out, ~dropped'
    PROVE  /\ ~dropped
           /\ Len(Log') = Len(Log) + 1 /\ DOMAIN Log' = 1..Len(Log) + 1
           /\ \A i \in 1..Len(Log) : Log'[i] = Log[i]
           /\ Log'[Len(Log) + 1] = w
<1>1. /\ out \in Seq(Word) /\ q \in Seq(Word) /\ Capacity \in Nat /\ Len(q) \in Nat
  BY AnalyzerAssumption DEF TypeOK
<1>2. ~dropped /\ ~(Len(q) >= Capacity)
  BY Zenon DEF Push
<1>3. Len(q) < Capacity
  BY <1>1, <1>2
<1>4. q' = Append(q, w)
  BY <1>3 DEF Push
<1>5. Log' = Append(Log, w) /\ Log \in Seq(Word)
  BY <1>1, <1>4, ConcatAppend, ConcatProperties DEF Log
<1> QED BY <1>2, <1>5, AppendProperties, LenProperties

\* Reading does not change what was recorded.
LEMMA PopLog ==
    ASSUME TypeOK, Pop
    PROVE  /\ q' \in Seq(Word) /\ out' \in Seq(Word) /\ q # <<>>
           /\ Len(q') = Len(q) - 1 /\ Len(out') = Len(out) + 1 /\ Log' = Log
<1>1. out \in Seq(Word) /\ q \in Seq(Word) /\ q # <<>>
  BY DEF TypeOK, Pop
<1>2. q' = Tail(q) /\ out' = Append(out, Head(q))
  BY DEF Pop
<1> QED BY <1>1, <1>2, ConcatPop DEF Log

----------------------------------------------------------------------------
(* The inductive invariant.                                                *)

Serving == hpc \in {"read", "push_s", "push_v", "clear"}

\* The edge that is being served is still in the event register, and no word has its time
\* before it is pushed.
Fresh ==
    /\ hpc # "none" => event /\ s <= edges
    /\ ~dropped =>
          \A i \in DOMAIN Log : i % 2 = 1 =>
              /\ Log[i][2] <= edges
              /\ hpc = "none" /\ event => Log[i][2] < edges
              /\ hpc \in {"check", "read", "push_s"} => Log[i][2] < s
              /\ hpc \in {"push_v", "clear"} => Log[i][2] <= s

\* Words come in pairs, but for a handler between its two pushes and a reader between its
\* two pops.
InPairs ==
    /\ ~dropped =>
          /\ Len(Log) % 2 = IF hpc = "push_v" THEN 1 ELSE 0
          /\ \A i \in DOMAIN Log : Log[i][1] = IF i % 2 = 1 THEN "s" ELSE "v"
          /\ \A i, j \in DOMAIN Log :
                i < j /\ i % 2 = 1 /\ j % 2 = 1 => Log[i][2] < Log[j][2]
    /\ Len(out) % 2 = IF main = "v" THEN 1 ELSE 0

\* As long as every edge is served before the next comes, the log has two words for each.
Served ==
    ~close /\ ~dropped =>
        /\ Len(Log) = CASE hpc = "push_v" -> 2 * edges - 1
                        [] hpc # "push_v" /\ (hpc = "clear" \/ ~event) -> 2 * edges
                        [] OTHER -> 2 * edges - 2
        /\ hpc # "none" => s = edges
        /\ hpc \in {"push_s", "push_v"} => prev = edges % 2

IInv == TypeOK /\ Fresh /\ InPairs /\ Served /\ Faithful

----------------------------------------------------------------------------
\* A word that fits keeps the queue within its capacity.
LEMMA PushType ==
    ASSUME TypeOK, NEW w \in Word, Push(w)
    PROVE  q' \in Seq(Word) /\ Len(q') <= Capacity /\ dropped' \in BOOLEAN
<1>1. q \in Seq(Word) /\ Len(q) <= Capacity /\ Capacity \in Nat /\ Len(q) \in Nat
  BY AnalyzerAssumption DEF TypeOK
<1>2. /\ Append(q, w) \in Seq(Word) /\ Len(Append(q, w)) = Len(q) + 1
  BY <1>1
<1>3. dropped' \in BOOLEAN
  BY Zenon DEF Push
<1> QED BY <1>1, <1>2, <1>3 DEF Push

\* The types hold at first.
LEMMA InitType == Init => TypeOK
<1> SUFFICES ASSUME Init PROVE TypeOK
  OBVIOUS
<1>1. event \in BOOLEAN /\ dropped \in BOOLEAN /\ close \in BOOLEAN
  BY Zenon DEF Init
<1>2. <<>> \in Seq(Word) /\ Len(<<>>) = 0
  BY EmptySeq
<1> QED BY <1>1, <1>2, AnalyzerAssumption DEF Init, TypeOK

\* Every step keeps the types.
LEMMA StepType ==
    ASSUME TypeOK, [Next]_vars
    PROVE  TypeOK'
<1> USE AnalyzerAssumption
<1>1. CASE Edge
  <2>1. edges' \in 0..MaxEdges
    BY <1>1 DEF Edge, TypeOK
  <2>2. close' \in BOOLEAN /\ event' \in BOOLEAN
    BY Zenon, <1>1 DEF Edge
  <2> QED BY <1>1, <2>1, <2>2 DEF Edge, TypeOK
<1>2. CASE Enter
  BY <1>2 DEF Enter, TypeOK
<1>3. CASE Check
  BY <1>3 DEF Check, TypeOK
<1>4. CASE ReadLevel
  <2>1. prev' \in {0, 1}
    BY <1>4, LevelBefore DEF ReadLevel, TypeOK
  <2> QED BY <1>4, <2>1 DEF ReadLevel, TypeOK
<1>5. CASE PushTime
  <2>1. Time(s) \in Word /\ Push(Time(s))
    BY <1>5, WordForms DEF PushTime, TypeOK
  <2> QED BY <1>5, <2>1, PushType DEF PushTime, TypeOK
<1>6. CASE PushValue
  <2>1. Value(prev) \in Word /\ Push(Value(prev))
    BY <1>6, WordForms DEF PushValue, TypeOK
  <2> QED BY <1>6, <2>1, PushType DEF PushValue, TypeOK
<1>7. CASE Clear
  BY <1>7 DEF Clear, TypeOK
<1>8. CASE Collect
  BY <1>8 DEF Collect, Main, TypeOK
<1>9. CASE PopTime
  BY <1>9, PopLog DEF PopTime, Main, TypeOK
<1>10. CASE PopValue
  BY <1>10, PopLog DEF PopValue, Main, TypeOK
<1>11. CASE Test
  BY <1>11 DEF Test, Main, TypeOK
<1>12. CASE UNCHANGED vars
  BY <1>12 DEF vars, TypeOK
<1> QED BY <1>1, <1>2, <1>3, <1>4, <1>5, <1>6, <1>7, <1>8, <1>9, <1>10, <1>11, <1>12
        DEF Next, interrupt_vector, notmain

\* Every variable of the handler and of the reader keeps its type, and the queue its size.
THEOREM TypeCorrect == Spec => []TypeOK
<1>1. Init => TypeOK
  BY InitType
<1>2. TypeOK /\ [Next]_vars => TypeOK'
  BY StepType
<1> QED BY <1>1, <1>2, PTL DEF Spec

----------------------------------------------------------------------------
(* Each part of the invariant is kept.                                     *)

\* The invariant holds at first.
LEMMA InitInv == Init => IInv
<1> SUFFICES ASSUME Init PROVE IInv
  OBVIOUS
<1>1. out = <<>> /\ q = <<>> /\ edges = 0 /\ hpc = "none" /\ ~event /\ main = "collect"
  BY DEF Init
<1>2. Log = <<>> /\ Len(Log) = 0 /\ DOMAIN Log = {}
  BY <1>1 DEF Log
<1>3. TypeOK
  BY InitType
<1> QED BY <1>1, <1>2, <1>3 DEF IInv, Fresh, InPairs, Served, Faithful

\* The steps that record nothing.
Silent == Edge \/ Enter \/ Check \/ ReadLevel \/ Clear \/ notmain \/ UNCHANGED vars

\* Only the two pushes change the log.
LEMMA SilentLog ==
    ASSUME TypeOK, Silent
    PROVE  Log' = Log /\ dropped' = dropped
<1>1. CASE PopTime \/ PopValue
  BY <1>1, PopLog DEF PopTime, PopValue
<1>2. CASE ~(PopTime \/ PopValue)
  <2>1. out' = out /\ q' = q /\ dropped' = dropped
    BY <1>2 DEF Silent, Edge, Enter, Check, ReadLevel, Clear, notmain, Collect, Test, vars
  <2> QED BY <2>1 DEF Log
<1> QED BY <1>1, <1>2

\* The other steps keep the times of the log behind the edge being served.
LEMMA SilentFresh ==
    ASSUME IInv, Silent
    PROVE  Fresh'
<1>1. /\ Log' = Log /\ dropped' = dropped /\ DOMAIN Log = 1..Len(Log)
      /\ edges \in Nat /\ s \in Nat /\ Len(Log) \in Nat
  BY SilentLog, LogType DEF IInv, TypeOK
<1>2. ASSUME NEW i \in DOMAIN Log, i % 2 = 1, ~dropped
      PROVE  Log[i][2] \in Nat
  <2>1. Log[i] \in Word /\ Log[i][1] = "s"
    BY <1>1, <1>2, LogType, ElementOfSeq DEF IInv, InPairs
  <2> QED BY <2>1 DEF Word
<1> USE DEF Fresh, IInv
<1>3. CASE Edge
  BY <1>1, <1>2, <1>3 DEF Edge
<1>4. CASE Enter
  BY <1>1, <1>2, <1>4 DEF Enter
<1>5. CASE Check
  BY <1>1, <1>2, <1>5 DEF Check
<1>6. CASE ReadLevel
  BY <1>1, <1>2, <1>6 DEF ReadLevel
<1>7. CASE Clear
  BY <1>1, <1>2, <1>7 DEF Clear
<1>8. CASE notmain \/ UNCHANGED vars
  <2>1. hpc' = hpc /\ event' = event /\ s' = s /\ edges' = edges
    BY <1>8 DEF notmain, Collect, PopTime, PopValue, Test, vars
  <2> QED BY <1>1, <1>2, <2>1
<1> QED BY <1>3, <1>4, <1>5, <1>6, <1>7, <1>8 DEF Silent

\* The other steps keep the log in pairs.
LEMMA SilentInPairs ==
    ASSUME IInv, Silent
    PROVE  InPairs'
<1>1. Log' = Log /\ dropped' = dropped /\ Len(out) \in Nat
  BY SilentLog, LogType DEF IInv
<1>2. hpc' = "push_v" <=> hpc = "push_v"
  BY DEF Silent, Edge, Enter, Check, ReadLevel, Clear, notmain, Collect, PopTime, PopValue,
         Test, vars
<1>3. Len(out') % 2 = IF main' = "v" THEN 1 ELSE 0
  <2>1. CASE PopTime
    <3>1. main = "s" /\ main' = "v" /\ Len(out') = Len(out) + 1
      BY <2>1, PopLog DEF PopTime, Main, IInv
    <3> QED BY <1>1, <3>1, Parity DEF IInv, InPairs
  <2>2. CASE PopValue
    <3>1. main = "v" /\ main' = "test" /\ Len(out') = Len(out) + 1
      BY <2>2, PopLog DEF PopValue, Main, IInv
    <3> QED BY <1>1, <3>1, Parity DEF IInv, InPairs
  <2>3. CASE ~(PopTime \/ PopValue)
    <3>1. out' = out /\ (main' = "v" <=> main = "v")
      BY <2>3 DEF Silent, Edge, Enter, Check, ReadLevel, Clear, notmain, Collect, Test, Main,
                  vars
    <3> QED BY <3>1 DEF IInv, InPairs
  <2> QED BY <2>1, <2>2, <2>3
<1> QED BY <1>1, <1>2, <1>3 DEF IInv, InPairs

\* The other steps keep the log complete while edges are served one by one.
LEMMA SilentServed ==
    ASSUME IInv, Silent
    PROVE  Served' /\ Faithful'
<1>1. /\ Log' = Log /\ dropped' = dropped /\ edges \in Nat /\ Len(Log) \in Nat
  BY SilentLog, LogType DEF IInv, TypeOK
<1>2. Fresh /\ Served
  BY DEF IInv
<1>3. Served'
  <2>1. CASE Edge
    <3>1. ASSUME ~close' PROVE ~close /\ ~event /\ hpc = "none"
      BY Zenon, <2>1, <3>1 DEF Edge
    <3>2. hpc' = hpc /\ event' /\ edges' = edges + 1
      BY <2>1 DEF Edge
    <3> QED BY <1>1, <1>2, <3>1, <3>2 DEF Served
  <2>2. CASE Enter
    BY <1>1, <1>2, <2>2 DEF Enter, Served
  <2>3. CASE Check
    BY <1>1, <1>2, <2>3 DEF Check, Served, Fresh
  <2>4. CASE ReadLevel
    <3>1. prev' = edges % 2
      BY <1>1, <2>4, LevelBefore DEF ReadLevel
    <3> QED BY <1>1, <1>2, <2>4, <3>1 DEF ReadLevel, Served, Fresh
  <2>5. CASE Clear
    BY <1>1, <1>2, <2>5 DEF Clear, Served
  <2>6. CASE notmain \/ UNCHANGED vars
    <3>1. /\ hpc' = hpc /\ event' = event /\ s' = s /\ edges' = edges /\ prev' = prev
          /\ close' = close
      BY <2>6 DEF notmain, Collect, PopTime, PopValue, Test, vars
    <3> QED BY <1>1, <1>2, <3>1 DEF Served
  <2> QED BY <2>1, <2>2, <2>3, <2>4, <2>5, <2>6 DEF Silent
<1>4. ~close' => ~close
  BY Zenon DEF Silent, Edge, Enter, Check, ReadLevel, Clear, notmain, Collect, PopTime,
               PopValue, Test, vars
<1>5. Faithful'
  BY <1>1, <1>4 DEF Faithful, IInv
<1> QED BY <1>3, <1>5

\* The time is pushed: half a pair, unless the queue is full.
LEMMA PushTimeInv ==
    ASSUME IInv, PushTime
    PROVE  Fresh' /\ InPairs' /\ Served' /\ Faithful'
<1> USE DEF IInv
<1>1. /\ hpc = "push_s" /\ hpc' = "push_v" /\ Time(s) \in Word /\ Push(Time(s))
      /\ Time(s)[1] = "s" /\ Time(s)[2] = s
      /\ out' = out /\ s' = s /\ edges' = edges /\ event' = event /\ prev' = prev
      /\ main' = main /\ close' = close
  BY WordForms DEF PushTime, TypeOK
<1>2. /\ edges \in Nat /\ s \in Nat /\ Len(Log) \in Nat /\ DOMAIN Log = 1..Len(Log)
      /\ event /\ s <= edges
  BY <1>1, LogType DEF TypeOK, Fresh
<1>3. CASE dropped'
  BY <1>1, <1>2, <1>3 DEF Fresh, InPairs, Served, Faithful
<1>4. CASE ~dropped'
  <2>1. /\ ~dropped /\ Len(Log') = Len(Log) + 1 /\ DOMAIN Log' = 1..Len(Log) + 1
        /\ \A i \in 1..Len(Log) : Log'[i] = Log[i]
        /\ Log'[Len(Log) + 1] = Time(s)
    BY <1>1, <1>4, PushLog
  <2>2. Len(Log) % 2 = 0 /\ (Len(Log) + 1) % 2 = 1
    BY <1>1, <1>2, <2>1, Parity DEF InPairs
  <2>3. ASSUME NEW i \in DOMAIN Log, i % 2 = 1
        PROVE  Log[i][2] <= edges /\ Log[i][2] < s
    BY <1>1, <2>1, <2>3 DEF Fresh
  <2>4. Fresh'
    <3>1. ASSUME NEW i \in DOMAIN Log', i % 2 = 1
          PROVE  Log'[i][2] <= edges /\ Log'[i][2] <= s
      <4>1. CASE i = Len(Log) + 1
        BY <1>1, <1>2, <2>1, <4>1
      <4>2. CASE i \in DOMAIN Log
        <5>1. Log'[i] = Log[i] /\ Log[i] \in Word /\ Log[i][1] = "s"
          BY <1>2, <2>1, <3>1, <4>2, LogType, ElementOfSeq DEF InPairs
        <5>2. Log[i][2] \in Nat
          BY <5>1 DEF Word
        <5> QED BY <1>2, <2>3, <3>1, <4>2, <5>1, <5>2
      <4> QED BY <1>2, <2>1, <4>1, <4>2
    <3> QED BY <1>1, <1>2, <3>1 DEF Fresh
  <2>5. InPairs'
    <3>1. Len(Log') % 2 = 1
      BY <2>1, <2>2
    <3>2. \A i \in DOMAIN Log' : Log'[i][1] = IF i % 2 = 1 THEN "s" ELSE "v"
      BY <1>1, <1>2, <2>1, <2>2 DEF InPairs
    <3>3. \A i, j \in DOMAIN Log' :
             i < j /\ i % 2 = 1 /\ j % 2 = 1 => Log'[i][2] < Log'[j][2]
      <4> SUFFICES ASSUME NEW i \in DOMAIN Log', NEW j \in DOMAIN Log',
                          i < j, i % 2 = 1, j % 2 = 1
                   PROVE  Log'[i][2] < Log'[j][2]
        OBVIOUS
      <4>1. i \in DOMAIN Log /\ Log'[i] = Log[i]
        BY <1>2, <2>1
      <4>2. CASE j = Len(Log) + 1
        BY <1>1, <2>1, <2>3, <4>1, <4>2
      <4>3. CASE j \in DOMAIN Log
        BY <1>2, <2>1, <4>1, <4>3 DEF InPairs
      <4> QED BY <1>2, <2>1, <4>2, <4>3
    <3>4. Len(out') % 2 = IF main' = "v" THEN 1 ELSE 0
      BY <1>1 DEF InPairs
    <3> QED BY <1>1, <3>1, <3>2, <3>3, <3>4 DEF InPairs
  <2>6. Served'
    BY <1>1, <1>2, <2>1 DEF Served
  <2>7. ASSUME ~close PROVE Faithful'
    <3>1. Len(Log) = 2 * edges - 2 /\ s = edges
      BY <1>1, <1>2, <2>1, <2>7 DEF Served
    <3>2. ((Len(Log) + 1) + 1) \div 2 = edges
      BY <1>2, <3>1, Parity
    <3>3. Log'[Len(Log) + 1] = Time(((Len(Log) + 1) + 1) \div 2)
      BY <2>1, <3>1, <3>2
    <3>4. ASSUME NEW i \in DOMAIN Log
          PROVE  Log'[i] = IF i % 2 = 1 THEN Time((i + 1) \div 2) ELSE Value((i \div 2) % 2)
      BY <1>2, <2>1, <2>7 DEF Faithful
    <3>5. \A i \in DOMAIN Log' :
             Log'[i] = IF i % 2 = 1 THEN Time((i + 1) \div 2) ELSE Value((i \div 2) % 2)
      <4> SUFFICES ASSUME NEW i \in DOMAIN Log'
                   PROVE  Log'[i] = IF i % 2 = 1 THEN Time((i + 1) \div 2)
                                                 ELSE Value((i \div 2) % 2)
        OBVIOUS
      <4>1. i = Len(Log) + 1 \/ i \in DOMAIN Log
        BY <1>2, <2>1
      <4> QED BY <2>2, <3>3, <3>4, <4>1
    <3> QED BY <3>5 DEF Faithful
  <2>8. Faithful'
    BY <1>1, <2>7 DEF Faithful
  <2> QED BY <2>4, <2>5, <2>6, <2>8
<1> QED BY <1>3, <1>4

\* The level is pushed: the pair is whole, or both halves are gone.
LEMMA PushValueInv ==
    ASSUME IInv, PushValue
    PROVE  Fresh' /\ InPairs' /\ Served' /\ Faithful'
<1> USE DEF IInv
<1>1. /\ hpc = "push_v" /\ hpc' = "clear" /\ Value(prev) \in Word /\ Push(Value(prev))
      /\ Value(prev)[1] = "v"
      /\ out' = out /\ s' = s /\ edges' = edges /\ event' = event /\ prev' = prev
      /\ main' = main /\ close' = close
  BY WordForms DEF PushValue, TypeOK
<1>2. /\ edges \in Nat /\ s \in Nat /\ Len(Log) \in Nat /\ DOMAIN Log = 1..Len(Log)
      /\ event /\ s <= edges
  BY <1>1, LogType DEF TypeOK, Fresh
<1>3. CASE dropped'
  BY <1>1, <1>2, <1>3 DEF Fresh, InPairs, Served, Faithful
<1>4. CASE ~dropped'
  <2>1. /\ ~dropped /\ Len(Log') = Len(Log) + 1 /\ DOMAIN Log' = 1..Len(Log) + 1
        /\ \A i \in 1..Len(Log) : Log'[i] = Log[i]
        /\ Log'[Len(Log) + 1] = Value(prev)
    BY <1>1, <1>4, PushLog
  <2>2. Len(Log) % 2 = 1 /\ (Len(Log) + 1) % 2 = 0
    BY <1>1, <1>2, <2>1, Parity DEF InPairs
  <2>3. ASSUME NEW i \in DOMAIN Log', i % 2 = 1
        PROVE  i \in DOMAIN Log /\ Log'[i] = Log[i]
    BY <1>2, <2>1, <2>2, <2>3
  <2>4. Fresh'
    BY <1>1, <1>2, <2>1, <2>3 DEF Fresh
  <2>5. InPairs'
    <3>1. Len(Log') % 2 = 0
      BY <2>1, <2>2
    <3>2. \A i \in DOMAIN Log' : Log'[i][1] = IF i % 2 = 1 THEN "s" ELSE "v"
      BY <1>1, <1>2, <2>1, <2>2 DEF InPairs
    <3>3. \A i, j \in DOMAIN Log' :
             i < j /\ i % 2 = 1 /\ j % 2 = 1 => Log'[i][2] < Log'[j][2]
      BY <2>1, <2>3 DEF InPairs
    <3>4. Len(out') % 2 = IF main' = "v" THEN 1 ELSE 0
      BY <1>1 DEF InPairs
    <3> QED BY <1>1, <3>1, <3>2, <3>3, <3>4 DEF InPairs
  <2>6. Served'
    BY <1>1, <1>2, <2>1 DEF Served
  <2>7. ASSUME ~close PROVE Faithful'
    <3>1. Len(Log) = 2 * edges - 1 /\ prev = edges % 2
      BY <1>1, <1>2, <2>1, <2>7 DEF Served
    <3>2. (Len(Log) + 1) \div 2 = edges
      BY <1>2, <3>1, Parity
    <3>3. Log'[Len(Log) + 1] = Value(((Len(Log) + 1) \div 2) % 2)
      BY <2>1, <3>1, <3>2
    <3>4. ASSUME NEW i \in DOMAIN Log
          PROVE  Log'[i] = IF i % 2 = 1 THEN Time((i + 1) \div 2) ELSE Value((i \div 2) % 2)
      BY <1>2, <2>1, <2>7 DEF Faithful
    <3>5. \A i \in DOMAIN Log' :
             Log'[i] = IF i % 2 = 1 THEN Time((i + 1) \div 2) ELSE Value((i \div 2) % 2)
      <4> SUFFICES ASSUME NEW i \in DOMAIN Log'
                   PROVE  Log'[i] = IF i % 2 = 1 THEN Time((i + 1) \div 2)
                                                 ELSE Value((i \div 2) % 2)
        OBVIOUS
      <4>1. i = Len(Log) + 1 \/ i \in DOMAIN Log
        BY <1>2, <2>1
      <4> QED BY <2>2, <3>3, <3>4, <4>1
    <3> QED BY <3>5 DEF Faithful
  <2>8. Faithful'
    BY <1>1, <2>7 DEF Faithful
  <2> QED BY <2>4, <2>5, <2>6, <2>8
<1> QED BY <1>3, <1>4

\* Every step keeps the invariant.
LEMMA StepInv ==
    ASSUME IInv, [Next]_vars
    PROVE  IInv'
<1>1. TypeOK'
  BY StepType DEF IInv
<1>2. CASE Silent
  BY <1>1, <1>2, SilentFresh, SilentInPairs, SilentServed DEF IInv
<1>3. CASE PushTime
  BY <1>1, <1>3, PushTimeInv DEF IInv
<1>4. CASE PushValue
  BY <1>1, <1>4, PushValueInv DEF IInv
<1> QED BY <1>2, <1>3, <1>4 DEF Next, interrupt_vector, Silent

\* The invariant holds in every reachable state.
LEMMA Invariance == Spec => []IInv
BY InitInv, StepInv, PTL DEF Spec

----------------------------------------------------------------------------
\* Edges that are served one at a time are all recorded, each with its time and the level
\* before it, and read so, as long as no push is refused.
THEOREM FaithfulAlways == Spec => []Faithful
<1>1. IInv => Faithful
  BY DEF IInv
<1> QED BY <1>1, Invariance, PTL

\* Whatever edges come while the handler runs, as long as no push is refused, words are
\* read in pairs, times increase, and the reader never waits for the second of a pair.
THEOREM PairsAreWhole == Spec => []PairsWhole
<1>1. IInv => PairsWhole
  <2> SUFFICES ASSUME IInv, ~dropped PROVE PairsWhole
    BY DEF PairsWhole
  <2>1. ~(main = "v" /\ hpc = "none" /\ q = <<>>)
    <3> SUFFICES ASSUME main = "v", hpc = "none", q = <<>> PROVE FALSE
      OBVIOUS
    <3>1. Len(Log) = Len(out) /\ Len(out) \in Nat
      BY LogType DEF IInv
    <3> QED BY <3>1 DEF IInv, InPairs
  <2> QED BY <2>1 DEF IInv, InPairs, PairsWhole
<1> QED BY <1>1, Invariance, PTL
=============================================================================
