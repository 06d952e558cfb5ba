-------------------------- MODULE BootLoaderProofs --------------------------
(***************************************************************************)
(* What get_code guarantees for any programs, any garbage on the line, any *)
(* number of runs and any losses, corrupted bytes, resets and timeouts:    *)
(* where it stores what it reads, and what it branches to.                 *)
(***************************************************************************)
EXTENDS BootLoader, SequenceTheorems, TLAPS

----------------------------------------------------------------------------
(* Queues: popped at one end and pushed at the other                       *)

\* The head of the second of two sequences moves to the end of the first.
LEMMA ConcatPop ==
    ASSUME NEW S, NEW o \in Seq(S), NEW p \in Seq(S), p # <<>>
    PROVE  /\ Append(o, Head(p)) \in Seq(S) /\ Tail(p) \in Seq(S)
           /\ Len(Append(o, Head(p))) = Len(o) + 1 /\ Len(Tail(p)) = Len(p) - 1
           /\ Append(o, Head(p)) \o Tail(p) = o \o p
<1> DEFINE h == <<Head(p)>>
           t == Tail(p)
<1>1. Head(p) \in S /\ t \in Seq(S) /\ Len(t) = Len(p) - 1 /\ h \in Seq(S)
  BY HeadTailProperties
<1>2. /\ Append(o, Head(p)) = o \o h /\ Append(o, Head(p)) \in Seq(S)
      /\ Len(Append(o, Head(p))) = Len(o) + 1
  BY <1>1, AppendIsConcat
<1>3. h \o t = p
  <2>1. Len(p) \in Nat \ {0} /\ SubSeq(p, 1, Len(p)) = p /\ t = SubSeq(p, 2, Len(p))
    BY EmptySeq, SubSeqFull, TailIsSubSeq
  <2>2. SubSeq(p, 1, Len(p)) = <<p[1]>> \o SubSeq(p, 1 + 1, Len(p))
    BY <2>1, SubSeqRecursiveFirst
  <2> QED BY <2>1, <2>2
<1> HIDE DEF h, t
<1>4. (o \o h) \o t = o \o (h \o t)
  BY <1>1, ConcatAssociative
<1>5. Append(o, Head(p)) \o t = o \o p
  BY Zenon, <1>2, <1>3, <1>4
<1> QED BY <1>1, <1>2, <1>5 DEF t

----------------------------------------------------------------------------
(* What may be on the line to the pi.                                      *)

Value == 0..WordMod-1
Sendable ==
    {PUT_PROG_INFO, PUT_CODE, <<"junk", 0>>}
        \cup UNION {{Num(p.addr), Num(p.n), p.crc, <<"code", p.id>>} : p \in Program}
OnLine == {<<w[1], w[2], j>> : w \in Sendable, j \in Nat}

----------------------------------------------------------------------------
(* The inductive invariant: the header on which a download rests has       *)
(* passed the check, and was not changed since.                            *)

PiInv ==
    /\ pc \in {"wait", "poll", "op", "addr", "nbytes", "cksum", "check", "code", "bytes",
               "running"}
    /\ addr \in Value /\ nbytes \in Value /\ i \in 0..nbytes /\ DOMAIN mem = Value
    /\ pc \notin {"bytes", "running"} => i = 0
    /\ pc \in {"code", "bytes"} => ~Collides(addr, nbytes)

LineInv == rx \in Seq(OnLine) /\ Len(rx) <= Depth /\ down \in Seq(OnLine)

UnixInv == upc \in Reading \cup {"echo", "done", "failed"} /\ prog \in Program

HistoryInv ==
    /\ runs \in 1..MaxRuns /\ faults \in 0..MaxFaults
    /\ flips \in 0..faults /\ overruns \in 0..faults
    /\ stale \in BOOLEAN /\ loaded \subseteq Program

BootInv == PiInv /\ LineInv /\ UnixInv /\ HistoryInv

----------------------------------------------------------------------------
\* The parts of the assumption that the types need.
LEMMA Bounds ==
    /\ WordMod \in Nat \ {0} /\ 0 \in Value /\ B \in Nat \ {0} /\ Depth \in Nat
    /\ MaxRuns \in Nat \ {0} /\ MaxFaults \in Nat
BY BootAssumption DEF Value

\* A small number is its own remainder.
LEMMA Remainder ==
    ASSUME NEW m \in Nat \ {0}, NEW x \in 0..m-1
    PROVE  x % m = x
OBVIOUS

\* The words that my-install sends.
LEMMA SendableWords ==
    /\ PUT_PROG_INFO \in Sendable /\ PUT_CODE \in Sendable /\ <<"junk", 0>> \in Sendable
    /\ \A p \in Program : {Num(p.addr), Num(p.n), p.crc, <<"code", p.id>>} \subseteq Sendable
BY DEF Sendable

\* A number among them fits in a word.
LEMMA NumFits == ASSUME NEW w \in Sendable, w[1] = "num" PROVE w[2] \in Value
<1>1. CASE w \in {PUT_PROG_INFO, PUT_CODE, <<"junk", 0>>}
  BY <1>1 DEF PUT_PROG_INFO, PUT_CODE
<1>2. CASE \E p \in Program : w \in {Num(p.addr), Num(p.n), p.crc, <<"code", p.id>>}
  <2>1. PICK p \in Program : w \in {Num(p.addr), Num(p.n), p.crc, <<"code", p.id>>}
    BY <1>2
  <2>2. CASE w = Num(p.addr) \/ w = Num(p.n)
    BY <2>2, BootAssumption DEF Num, Value
  <2>3. CASE w = p.crc
    BY <2>3, BootAssumption DEF Value
  <2>4. CASE w = <<"code", p.id>>
    BY <2>4
  <2> QED BY <2>1, <2>2, <2>3, <2>4
<1> QED BY <1>1, <1>2 DEF Sendable

\* Whatever word arrives, the number read from it fits in a word.
LEMMA ReadsFit ==
    ASSUME NEW s \in Seq(OnLine), Len(s) >= B
    PROVE  Reads(Word(s)) \subseteq Value
<1>1. s[1] \in OnLine
  <2>1. 1 \in 1..Len(s)
    BY Bounds, LenProperties
  <2> QED BY <2>1, ElementOfSeq
<1>2. PICK w \in Sendable, j \in Nat : s[1] = <<w[1], w[2], j>>
  BY <1>1 DEF OnLine
<1>3. Word(s) = <<w[1], w[2]>> \/ Word(s) = <<"junk", 0>>
  BY <1>2 DEF Word
<1>4. JunkNums \subseteq Value
  BY Bounds, BootAssumption DEF JunkNums, Value
<1>5. CASE Word(s) = <<"junk", 0>>
  BY <1>4, <1>5 DEF Reads
<1>6. CASE Word(s) = <<w[1], w[2]>>
  <2>1. CASE w[1] = "num"
    <3>1. w[2] \in Value
      BY <2>1, NumFits
    <3> QED BY <1>6, <2>1, <3>1 DEF Reads
  <2>2. CASE w[1] # "num"
    BY <1>4, <1>6, <2>2 DEF Reads
  <2> QED BY <2>1, <2>2
<1> QED BY <1>3, <1>5, <1>6

\* The bytes of a word may be on the line.
LEMMA Put32Type == ASSUME NEW w \in Sendable PROVE Put32(w) \in Seq(OnLine)
<1>1. \A k \in 1..B : k - 1 \in Nat
  BY Bounds
<1>2. \A k \in 1..B : <<w[1], w[2], k - 1>> \in OnLine
  BY <1>1 DEF OnLine
<1>3. [k \in 1..B |-> <<w[1], w[2], k - 1>>] \in [1..B -> OnLine]
  BY <1>2
<1> QED BY <1>3, Bounds, SeqDef DEF Put32

\* The bytes of a program may be on the line.
LEMMA CodeType == ASSUME NEW p \in Program PROVE Code(p) \in Seq(OnLine)
<1>1. p.n \in Nat /\ \A k \in 1..p.n : k - 1 \in Nat
  BY BootAssumption
<1>2. <<"code", p.id>> \in Sendable
  BY SendableWords
<1>3. \A k \in 1..p.n : <<"code", p.id, k - 1>> \in OnLine
  BY <1>1, <1>2 DEF OnLine
<1>4. [k \in 1..p.n |-> <<"code", p.id, k - 1>>] \in [1..p.n -> OnLine]
  BY <1>3
<1> QED BY <1>1, <1>4, SeqDef DEF Code

\* What is left of a sequence after its first m elements.
LEMMA Dropped ==
    ASSUME NEW S, NEW s \in Seq(S), NEW m \in 0..Len(s)
    PROVE  /\ Len(s) \in Nat /\ DropN(s, m) \in Seq(S) /\ Len(DropN(s, m)) = Len(s) - m
           /\ \A k \in 1..Len(s) - m : DropN(s, m)[k] = s[m + k]
<1>1. Len(s) \in Nat /\ \A k \in 1..Len(s) : s[k] \in S
  BY LenProperties, ElementOfSeq
<1>2. \A k \in (m + 1)..Len(s) : s[k] \in S
  BY <1>1
<1>3. /\ SubSeq(s, m + 1, Len(s)) \in Seq(S)
      /\ Len(SubSeq(s, m + 1, Len(s))) = IF m + 1 <= Len(s) THEN Len(s) - (m + 1) + 1 ELSE 0
      /\ \A k \in 1..Len(s) - (m + 1) + 1 : SubSeq(s, m + 1, Len(s))[k] = s[(m + 1) + k - 1]
  BY <1>1, <1>2, SubSeqProperties
<1>4. Len(s) - (m + 1) + 1 = Len(s) - m
  BY <1>1
<1>5. ASSUME NEW k \in 1..Len(s) - m PROVE (m + 1) + k - 1 = m + k
  BY <1>1
<1> DEFINE r == SubSeq(s, m + 1, Len(s))
<1>6. /\ r \in Seq(S) /\ Len(r) = Len(s) - m
      /\ \A k \in 1..Len(s) - m : r[k] = s[m + k]
  <2>1. Len(r) = Len(s) - m
    BY <1>1, <1>3
  <2> QED BY <1>3, <1>4, <1>5, <2>1
<1> QED BY <1>1, <1>6 DEF DropN

LEMMA DropType ==
    ASSUME NEW S, NEW s \in Seq(S), NEW m \in 0..Len(s)
    PROVE  DropN(s, m) \in Seq(S) /\ Len(DropN(s, m)) <= Len(s)
BY Dropped

----------------------------------------------------------------------------
\* The invariant holds at first.
LEMMA InitInv == Init => BootInv
<1> SUFFICES ASSUME Init PROVE BootInv
  OBVIOUS
<1>1. PiInv
  BY Bounds DEF Init, PiInv, Value
<1>2. LineInv
  BY Bounds, EmptySeq DEF Init, LineInv
<1>3. UnixInv
  BY DEF Init, UnixInv, Reading
<1>4. HistoryInv
  <2>1. stale \in BOOLEAN
    BY DEF Init
  <2> QED BY <2>1, Bounds DEF Init, HistoryInv
<1> QED BY <1>1, <1>2, <1>3, <1>4 DEF BootInv

\* A reboot forgets the download.
LEMMA RebootInv == ASSUME PiInv, LineInv, Reboot PROVE PiInv' /\ LineInv'
<1>1. PiInv'
  BY Bounds DEF Reboot, PiInv, Value
<1>2. down' \in Seq(OnLine)
  <2>1. Len(down) \in Nat
    BY LenProperties DEF LineInv
  <2>2. PICK m \in 0..Len(down) : down' = DropN(down, m)
    BY DEF Reboot
  <2> QED BY <2>1, <2>2, DropType DEF LineInv
<1>3. LineInv'
  BY <1>2, Bounds, EmptySeq DEF Reboot, LineInv
<1> QED BY <1>1, <1>3

\* A word, or a byte, is taken from the FIFO.
LEMMA TakeInv ==
    ASSUME LineInv, NEW m \in 0..Len(rx), rx' = DropN(rx, m), down' = down
    PROVE  LineInv'
<1>1. DropN(rx, m) \in Seq(OnLine) /\ Len(DropN(rx, m)) <= Len(rx)
  BY DropType DEF LineInv
<1>2. Len(rx) \in Nat /\ Len(DropN(rx, m)) \in Nat
  BY <1>1, LenProperties DEF LineInv
<1> QED BY <1>1, <1>2, Bounds DEF LineInv

\* The pi takes a word from its FIFO.
LEMMA WordInv ==
    ASSUME LineInv, Len(rx) >= B, rx' = DropN(rx, B), down' = down
    PROVE  LineInv'
<1>1. B \in 0..Len(rx)
  BY Bounds, LenProperties DEF LineInv
<1> QED BY <1>1, TakeInv

\* The pi leaves the laptop alone.
LEMMA PiFrame ==
    ASSUME UnixInv, HistoryInv, Pi
    PROVE  UnixInv' /\ HistoryInv'
<1>1. CASE PiFinish
  BY <1>1 DEF PiFinish, UnixInv, HistoryInv, uvars, hist
<1>2. CASE Pi /\ ~PiFinish
  <2>1. UNCHANGED <<upc, prog, runs, stale, faults, flips, overruns, loaded>>
    BY <1>2 DEF Pi, PiAnnounce, PiTimeout, PiHasData, PiOp, PiHeader, PiCheck, PiPutCode, PiByte,
                PiUnchanged, uvars, hist
  <2> QED BY <2>1 DEF UnixInv, HistoryInv
<1> QED BY <1>1, <1>2

\* Every step of the pi keeps its invariant, and the line's.
LEMMA PiSteps == ASSUME PiInv, LineInv, Pi PROVE PiInv' /\ LineInv'
<1>1. CASE PiAnnounce \/ PiTimeout \/ PiHasData
  <2>1. /\ pc \in {"wait", "poll"} /\ pc' \in {"wait", "poll", "op"}
        /\ UNCHANGED <<addr, nbytes, i, mem, down, rx>>
    BY <1>1 DEF PiAnnounce, PiTimeout, PiHasData, line
  <2> QED BY <2>1 DEF PiInv, LineInv
<1>2. CASE PiOp
  <2>1. CASE Word(rx) = PUT_PROG_INFO
    <3>1. /\ pc = "op" /\ pc' = "addr" /\ UNCHANGED <<addr, nbytes, i, mem>>
      BY <1>2, <2>1 DEF PiOp
    <3>2. LineInv'
      BY <1>2, <2>1, WordInv DEF PiOp
    <3> QED BY <3>1, <3>2 DEF PiInv
  <2> QED BY <1>2, <2>1, RebootInv DEF PiOp, boot_err
<1>3. CASE PiHeader
  <2>1. LineInv' /\ i' = i /\ mem' = mem /\ Len(rx) >= B
    BY <1>3, WordInv DEF PiHeader
  <2>2. Reads(Word(rx)) \subseteq Value
    BY <2>1, ReadsFit DEF LineInv
  <2>3. pc \in {"addr", "nbytes", "cksum"} /\ pc' \in {"nbytes", "cksum", "check"}
    BY <1>3 DEF PiHeader
  <2>4. addr' \in Value /\ nbytes' \in Value
    BY <1>3, <2>2 DEF PiHeader, PiInv
  <2>5. i = 0 /\ 0 \in 0..nbytes'
    BY <2>3, <2>4, Bounds DEF PiInv, Value
  <2> QED BY <2>1, <2>3, <2>4, <2>5 DEF PiInv
<1>4. CASE PiCheck
  <2>1. CASE ~Collides(addr, nbytes)
    <3>1. pc = "check" /\ pc' = "code" /\ UNCHANGED <<addr, nbytes, i, mem, down, rx>>
      BY <1>4, <2>1 DEF PiCheck
    <3> QED BY <2>1, <3>1 DEF PiInv, LineInv, Collides
  <2> QED BY <1>4, <2>1, RebootInv DEF PiCheck, boot_err
<1>5. CASE PiPutCode
  <2>1. CASE Word(rx) = PUT_CODE
    <3>1. pc = "code" /\ pc' = "bytes" /\ UNCHANGED <<addr, nbytes, i, mem>>
      BY <1>5, <2>1 DEF PiPutCode
    <3>2. LineInv'
      BY <1>5, <2>1, WordInv DEF PiPutCode
    <3> QED BY <3>1, <3>2 DEF PiInv, Collides
  <2> QED BY <1>5, <2>1, RebootInv DEF PiPutCode, boot_err
<1>6. CASE PiByte
  <2>1. /\ pc = "bytes" /\ i < nbytes /\ i' = i + 1 /\ rx # <<>> /\ rx' = Tail(rx)
        /\ UNCHANGED <<pc, addr, nbytes, down>>
    BY <1>6 DEF PiByte
  <2>2. DOMAIN mem' = DOMAIN mem
    BY <1>6 DEF PiByte
  <2>3. i' \in 0..nbytes'
    BY <2>1 DEF PiInv, Value
  <2>4. PiInv'
    BY <2>1, <2>2, <2>3 DEF PiInv, Collides
  <2>5. /\ Tail(rx) \in Seq(OnLine) /\ Len(Tail(rx)) = Len(rx) - 1 /\ Len(rx) \in Nat
    BY <2>1, HeadTailProperties, LenProperties DEF LineInv
  <2>6. Len(Tail(rx)) <= Depth
    BY <2>5, Bounds DEF LineInv
  <2> QED BY <2>1, <2>4, <2>5, <2>6 DEF LineInv
<1>7. CASE PiFinish
  <2>1. CASE Reboot
    BY <2>1, RebootInv
  <2>2. CASE pc' = "running" /\ UNCHANGED <<addr, nbytes, i, mem, down, rx>>
    BY <2>2 DEF PiInv, LineInv
  <2> QED BY <1>7, <2>1, <2>2 DEF PiFinish, boot_err
<1> QED BY <1>1, <1>2, <1>3, <1>4, <1>5, <1>6, <1>7 DEF Pi

----------------------------------------------------------------------------
(* The laptop and the line                                                 *)

\* The answer to GET_PROG_INFO, and the code, behind what is on the line already.
LEMMA HeaderType ==
    ASSUME LineInv, UnixInv
    PROVE  down \o Put32(PUT_PROG_INFO) \o Put32(Num(prog.addr)) \o Put32(Num(prog.n))
                \o Put32(prog.crc) \in Seq(OnLine)
<1> DEFINE o == down
           a == Put32(PUT_PROG_INFO)
           b == Put32(Num(prog.addr))
           c == Put32(Num(prog.n))
           d == Put32(prog.crc)
<1>1. /\ PUT_PROG_INFO \in Sendable /\ Num(prog.addr) \in Sendable /\ Num(prog.n) \in Sendable
      /\ prog.crc \in Sendable
  BY SendableWords DEF UnixInv
<1>2. /\ o \in Seq(OnLine) /\ a \in Seq(OnLine) /\ b \in Seq(OnLine)
      /\ c \in Seq(OnLine) /\ d \in Seq(OnLine)
  BY <1>1, Put32Type DEF LineInv
<1> HIDE DEF o, a, b, c, d
<1>3. o \o a \in Seq(OnLine)
  BY <1>2, ConcatProperties
<1>4. (o \o a) \o b \in Seq(OnLine)
  BY <1>2, <1>3, ConcatProperties
<1>5. ((o \o a) \o b) \o c \in Seq(OnLine)
  BY <1>2, <1>4, ConcatProperties
<1>6. (((o \o a) \o b) \o c) \o d \in Seq(OnLine)
  BY <1>2, <1>5, ConcatProperties
<1> QED BY <1>6 DEF o, a, b, c, d

\* The code, behind PUT_CODE.
LEMMA SentCodeType ==
    ASSUME LineInv, UnixInv
    PROVE  down \o Put32(PUT_CODE) \o Code(prog) \in Seq(OnLine)
<1> DEFINE o == down
           a == Put32(PUT_CODE)
           b == Code(prog)
<1>1. o \in Seq(OnLine) /\ a \in Seq(OnLine) /\ b \in Seq(OnLine)
  BY SendableWords, Put32Type, CodeType DEF LineInv, UnixInv
<1> HIDE DEF o, a, b
<1>2. o \o a \in Seq(OnLine)
  BY <1>1, ConcatProperties
<1>3. (o \o a) \o b \in Seq(OnLine)
  BY <1>1, <1>2, ConcatProperties
<1> QED BY <1>3 DEF o, a, b

\* Every step of the laptop keeps the invariant.
LEMMA UnixSteps ==
    ASSUME BootInv, Unix
    PROVE  BootInv'
<1>0. PiInv /\ LineInv /\ UnixInv /\ HistoryInv
  BY DEF BootInv
<1>1. UNCHANGED <<pc, addr, nbytes, i, mem, rx, prog, runs, stale, faults, flips, overruns, loaded>>
  BY DEF Unix, UnixPrint, UnixSync, UnixDrain, UnixCrc, UnixSuccess, UnixEcho, UnixUnchanged,
         pivars, hist
<1>2. PiInv' /\ HistoryInv'
  BY <1>0, <1>1 DEF PiInv, HistoryInv, Collides
<1>3. UnixInv'
  <2>1. upc' \in {upc, "drain", "echo", "crc", "success", "done", "failed"}
    BY DEF Unix, UnixPrint, UnixSync, UnixDrain, UnixCrc, UnixSuccess, UnixEcho, BootCheckFails
  <2> QED BY <1>0, <1>1, <2>1 DEF UnixInv, Reading
<1>4. down' \in Seq(OnLine)
  <2>1. CASE UnixPrint \/ UnixDrain \/ UnixSuccess \/ UnixEcho
    <3>1. down' = down
      BY <2>1 DEF UnixPrint, UnixDrain, UnixSuccess, UnixEcho, BootCheckFails
    <3> QED BY <1>0, <3>1 DEF LineInv
  <2>2. CASE UnixSync
    BY <1>0, <2>2, HeaderType DEF UnixSync, LineInv
  <2>3. CASE UnixCrc
    BY <1>0, <2>3, SentCodeType DEF UnixCrc, BootCheckFails, LineInv
  <2> QED BY <2>1, <2>2, <2>3 DEF Unix
<1>5. LineInv'
  BY <1>0, <1>1, <1>4 DEF LineInv
<1> QED BY <1>2, <1>3, <1>5 DEF BootInv

\* A byte leaves the line: into the FIFO, as it is or corrupted, or into the void.
LEMMA LineSteps ==
    ASSUME BootInv, Deliver \/ Overrun \/ Corrupt
    PROVE  BootInv'
<1>0. PiInv /\ LineInv /\ UnixInv /\ HistoryInv
  BY DEF BootInv
<1>1. UNCHANGED <<pc, addr, nbytes, i, mem, upc, prog, runs, stale, loaded>>
  BY DEF Deliver, Overrun, Corrupt, pivars, uvars
<1>2. PiInv' /\ UnixInv'
  BY <1>0, <1>1 DEF PiInv, UnixInv, Collides
<1>3. HistoryInv'
  <2>1. \/ faults' = faults /\ flips' = flips /\ overruns' = overruns
        \/ /\ faults < MaxFaults /\ faults' = faults + 1
           /\ flips' \in {flips, flips + 1} /\ overruns' \in {overruns, overruns + 1}
    BY DEF Deliver, Overrun, Corrupt, Fault, hist
  <2> QED BY <1>0, <1>1, <2>1, Bounds DEF HistoryInv
<1>4. down # <<>> /\ down' = Tail(down) /\ Head(down) \in OnLine /\ down' \in Seq(OnLine)
  BY <1>0, HeadTailProperties DEF Deliver, Overrun, Corrupt, LineInv
<1>5. JunkByte \in OnLine
  <2>1. JunkByte = <<<<"junk", 0>>[1], <<"junk", 0>>[2], 0>>
    BY DEF JunkByte
  <2> QED BY <2>1, SendableWords DEF OnLine
<1>6. rx' \in Seq(OnLine) /\ Len(rx') <= Depth
  <2>1. ASSUME NEW b \in OnLine, rx' = Append(rx, b), Len(rx) < Depth
        PROVE  rx' \in Seq(OnLine) /\ Len(rx') <= Depth
    <3>1. Len(rx) \in Nat /\ rx \in Seq(OnLine)
      BY <1>0, LenProperties DEF LineInv
    <3>2. rx' \in Seq(OnLine) /\ Len(rx') = Len(rx) + 1
      BY <2>1, <3>1, AppendProperties
    <3> QED BY <2>1, <3>1, <3>2, Bounds
  <2>2. CASE Deliver
    BY <1>4, <2>1, <2>2 DEF Deliver
  <2>3. CASE Corrupt
    BY <1>5, <2>1, <2>3 DEF Corrupt
  <2>4. CASE Overrun
    BY <1>0, <2>4 DEF Overrun, LineInv
  <2> QED BY <2>2, <2>3, <2>4
<1>7. LineInv'
  BY <1>4, <1>6 DEF LineInv
<1> QED BY <1>2, <1>3, <1>7 DEF BootInv

\* Resets, timeouts, interrupts and new runs.
LEMMA OtherSteps ==
    ASSUME BootInv, PiReset \/ ProgramEnds \/ SilenceTimeout \/ SlowTimeout \/ UnixKill \/ UnixRun
    PROVE  BootInv'
<1>0. PiInv /\ LineInv /\ UnixInv /\ HistoryInv
  BY DEF BootInv
<1>1. PiInv' /\ LineInv'
  <2>1. CASE PiReset \/ ProgramEnds
    BY <1>0, <2>1, RebootInv DEF PiReset, ProgramEnds
  <2>2. CASE SilenceTimeout \/ SlowTimeout \/ UnixKill \/ UnixRun
    <3>1. UNCHANGED <<pc, addr, nbytes, i, mem, rx, down>>
      BY <2>2 DEF SilenceTimeout, SlowTimeout, ReadTimeout, UnixKill, UnixRun, pivars, line
    <3> QED BY <1>0, <3>1 DEF PiInv, LineInv, Collides
  <2> QED BY <2>1, <2>2
<1>2. UnixInv'
  <2>1. upc' \in {upc, "failed", "sync"} /\ (prog' = prog \/ prog' \in Program)
    BY DEF PiReset, ProgramEnds, SilenceTimeout, SlowTimeout, ReadTimeout, UnixKill, UnixRun, uvars
  <2> QED BY <1>0, <2>1 DEF UnixInv, Reading
<1>3. HistoryInv'
  <2>1. /\ flips' = flips /\ overruns' = overruns
        /\ faults' = faults \/ (faults < MaxFaults /\ faults' = faults + 1)
    <3>1. CASE PiReset \/ SlowTimeout \/ UnixKill
      BY <3>1 DEF PiReset, SlowTimeout, ReadTimeout, UnixKill, Fault, hist
    <3>2. CASE ProgramEnds \/ SilenceTimeout \/ UnixRun
      BY <3>2 DEF ProgramEnds, SilenceTimeout, ReadTimeout, UnixRun, uvars, pivars, hist
    <3> QED BY <3>1, <3>2
  <2>2. runs' = runs \/ (runs < MaxRuns /\ runs' = runs + 1)
    <3>1. CASE PiReset \/ ProgramEnds
      BY <3>1 DEF PiReset, ProgramEnds, uvars, Reboot
    <3>2. CASE SilenceTimeout \/ SlowTimeout \/ UnixKill
      BY <3>2 DEF SilenceTimeout, SlowTimeout, ReadTimeout, UnixKill, pivars, line
    <3>3. CASE UnixRun
      BY <3>3 DEF UnixRun
    <3> QED BY <3>1, <3>2, <3>3
  <2>3. (loaded' = loaded \/ loaded' = {}) /\ (stale' = stale \/ stale' \in BOOLEAN)
    BY DEF PiReset, ProgramEnds, SilenceTimeout, SlowTimeout, ReadTimeout, UnixKill, UnixRun, uvars
  <2>4. runs' \in 1..MaxRuns
    BY <1>0, <2>2, Bounds DEF HistoryInv
  <2>5. faults' \in 0..MaxFaults /\ flips' \in 0..faults' /\ overruns' \in 0..faults'
    BY <1>0, <2>1, Bounds DEF HistoryInv
  <2>6. stale' \in BOOLEAN /\ loaded' \subseteq Program
    BY <1>0, <2>3 DEF HistoryInv
  <2> QED BY <2>4, <2>5, <2>6 DEF HistoryInv
<1> QED BY <1>1, <1>2, <1>3 DEF BootInv

\* Every step keeps the invariant.
LEMMA NextInv == ASSUME BootInv, [Next]_vars PROVE BootInv'
<1>1. CASE Pi
  BY <1>1, PiSteps, PiFrame DEF BootInv
<1>2. CASE UNCHANGED vars
  BY <1>2 DEF vars, pivars, line, uvars, hist, BootInv, PiInv, LineInv, UnixInv, HistoryInv, Collides
<1> QED BY <1>1, <1>2, UnixSteps, LineSteps, OtherSteps DEF Next, Environment

\* The invariant holds in every reachable state.
LEMMA Invariance == Spec => []BootInv
BY InitInv, NextInv, PTL DEF Spec

\* The header a download rests on, and the counters of both sides, stay within their bounds.
THEOREM TypeCorrect == Spec => []TypeOK
<1>1. BootInv => TypeOK
  BY DEF BootInv, PiInv, LineInv, UnixInv, HistoryInv, TypeOK, Value
<1> QED BY <1>1, Invariance, PTL

----------------------------------------------------------------------------
\* A byte is stored outside the boot code, once its header has passed the check.
LEMMA ByteOutside ==
    ASSUME BootInv, PiByte, addr + nbytes < WordMod
    PROVE  (addr + i) % WordMod \notin BootStart..BootEnd-1
<1>1. /\ addr \in Nat /\ nbytes \in Nat /\ i \in Nat /\ i < nbytes
      /\ ~Collides(addr, nbytes)
  BY DEF BootInv, PiInv, PiByte, Value
<1>2. (addr + nbytes) % WordMod = addr + nbytes /\ (addr + i) % WordMod = addr + i
  <2>1. addr + nbytes \in 0..WordMod-1 /\ addr + i \in 0..WordMod-1
    BY <1>1, Bounds
  <2> QED BY <2>1, Bounds, Remainder
<1>3. addr >= BootEnd \/ addr + nbytes <= BootStart
  BY <1>1, <1>2, BootAssumption DEF Collides
<1> QED BY <1>1, <1>2, <1>3, BootAssumption

\* No byte of a download is ever stored over the boot code that is storing it, whatever the
\* header says, as long as its end fits in a word.
THEOREM BootCodeKept == Spec => NoClobber
<1>1. ASSUME BootInv, [Next]_vars, addr + nbytes < WordMod, NEW a \in BootStart..BootEnd-1
      PROVE  mem'[a] = mem[a]
  <2>1. CASE PiByte
    <3>1. a # (addr + i) % WordMod
      BY <1>1, <2>1, ByteOutside
    <3>2. a \in DOMAIN mem
      BY <1>1, BootAssumption DEF BootInv, PiInv, Value
    <3> QED BY <2>1, <3>1, <3>2 DEF PiByte
  <2>2. CASE ~PiByte
    <3>1. mem' = mem
      BY <1>1, <2>2 DEF Next, Pi, PiAnnounce, PiTimeout, PiHasData, PiOp, PiHeader, PiCheck,
         PiPutCode, PiFinish, boot_err, Reboot, Unix, UnixPrint, UnixSync, UnixDrain, UnixCrc,
         UnixSuccess, UnixEcho, UnixUnchanged, Deliver, Environment, Overrun, Corrupt, PiReset,
         ProgramEnds, SilenceTimeout, SlowTimeout, ReadTimeout, UnixKill, UnixRun, vars, pivars
    <3> QED BY <3>1
  <2> QED BY <2>1, <2>2
<1>2. BootInv /\ [Next]_vars =>
        [addr + nbytes < WordMod => \A a \in BootStart..BootEnd-1 : mem'[a] = mem[a]]_vars
  BY <1>1
<1> QED BY <1>2, Invariance, PTL DEF Spec, NoClobber
----------------------------------------------------------------------------
(* What the pi branches to.                                                *)

\* The bytes of w come after the first o of s.
WordAt(s, o, w) == \A k \in 1..B : o + k \in 1..Len(s) /\ s[o + k] = <<w[1], w[2], k - 1>>

\* The address, the size and the checksum of q come next, after o bytes.
SizeAt(s, o, q) == WordAt(s, o, Num(q.n)) /\ WordAt(s, o + B, q.crc)
RequestAt(s, o, q) == WordAt(s, o, Num(q.addr)) /\ SizeAt(s, o + B, q)

HeaderByte == <<"PUT_PROG_INFO", 0, 0>>

\* What looks like the start of a header is one, and a whole header.
Headers(s) ==
    \A j \in 1..Len(s) : s[j] = HeaderByte => \E q \in Program : RequestAt(s, (j - 1) + B, q)

\* The pi has, or is about to read, the request of one program.
Asked ==
    /\ pc = "addr" => \E q \in Program : RequestAt(rx \o down, 0, q)
    /\ pc = "nbytes" => \E q \in Program : addr = q.addr /\ SizeAt(rx \o down, 0, q)
    /\ pc = "cksum" =>
         \E q \in Program : addr = q.addr /\ nbytes = q.n /\ WordAt(rx \o down, 0, q.crc)
    /\ pc \in {"check", "code", "bytes"} =>
         \E q \in Program : addr = q.addr /\ nbytes = q.n /\ cksum = q.crc

\* No byte was lost or corrupted, and no checksum looks like the start of a header.
Clean == flips = 0 /\ overruns = 0 /\ \A p \in Program : p.crc # PUT_PROG_INFO

LoadInv ==
    /\ pc \in {"check", "code", "bytes"} => cksum # <<"bad crc", 0>>
    /\ pc = "running" => \E p \in Program : /\ nbytes = p.n /\ Holds(addr, p)
                                            /\ Clean => addr = p.addr
    /\ Clean => Headers(rx \o down) /\ Asked

----------------------------------------------------------------------------
(* Words in what is on the line                                            *)

\* What is dropped from the front of two sequences is dropped from the first.
LEMMA DropConcat ==
    ASSUME NEW S, NEW s \in Seq(S), NEW t \in Seq(S), NEW m \in 0..Len(s)
    PROVE  DropN(s, m) \o t = DropN(s \o t, m)
<1> DEFINE d == DropN(s, m)
           c == s \o t
<1>1. /\ Len(s) \in Nat /\ d \in Seq(S) /\ Len(d) = Len(s) - m
      /\ \A k \in 1..Len(s) - m : d[k] = s[m + k]
  BY Dropped
<1>2. /\ c \in Seq(S) /\ Len(c) = Len(s) + Len(t) /\ Len(t) \in Nat
      /\ \A k \in 1..Len(s) + Len(t) : c[k] = IF k <= Len(s) THEN s[k] ELSE t[k - Len(s)]
  <2>1. Len(t) \in Nat
    BY LenProperties
  <2> QED BY <2>1, ConcatProperties
<1>3. /\ DropN(c, m) \in Seq(S) /\ Len(DropN(c, m)) = Len(c) - m
      /\ \A k \in 1..Len(c) - m : DropN(c, m)[k] = c[m + k]
  <2>1. m \in 0..Len(c)
    BY <1>1, <1>2
  <2> HIDE DEF c
  <2> QED BY <1>2, <2>1, Dropped
<1>4. /\ d \o t \in Seq(S) /\ Len(d \o t) = Len(d) + Len(t)
      /\ \A k \in 1..Len(d) + Len(t) : (d \o t)[k] = IF k <= Len(d) THEN d[k] ELSE t[k - Len(d)]
  <2> HIDE DEF d
  <2> QED BY <1>1, ConcatProperties
<1> HIDE DEF c, d
<1>5. ASSUME NEW k \in 1..Len(d \o t) PROVE (d \o t)[k] = DropN(c, m)[k]
  <2>1. k \in 1..Len(c) - m /\ m + k \in 1..Len(s) + Len(t) /\ k \in 1..Len(d) + Len(t)
    BY <1>1, <1>2, <1>4
  <2>2. DropN(c, m)[k] = IF m + k <= Len(s) THEN s[m + k] ELSE t[(m + k) - Len(s)]
    BY <1>2, <1>3, <2>1
  <2>3. CASE k <= Len(d)
    <3>1. k \in 1..Len(s) - m /\ m + k <= Len(s)
      BY <1>1, <2>3
    <3> QED BY <1>1, <1>4, <2>1, <2>2, <2>3, <3>1
  <2>4. CASE ~(k <= Len(d))
    <3>1. ~(m + k <= Len(s)) /\ (m + k) - Len(s) = k - Len(d)
      BY <1>1, <2>4
    <3> QED BY <1>4, <2>1, <2>2, <2>4, <3>1
  <2> QED BY <2>3, <2>4
<1>6. Len(d \o t) = Len(DropN(c, m))
  BY <1>1, <1>2, <1>3, <1>4
<1>7. d \o t = DropN(c, m)
  BY <1>3, <1>4, <1>5, <1>6, SeqEqual
<1> QED BY <1>7 DEF c, d

\* A word stays where it is when something comes before it, goes, or comes behind it.
LEMMA WordAtDrop ==
    ASSUME NEW S, NEW s \in Seq(S), NEW m \in 0..Len(s), NEW o \in Nat, m <= o, NEW w,
           WordAt(s, o, w)
    PROVE  WordAt(DropN(s, m), o - m, w)
<1>1. /\ Len(s) \in Nat /\ Len(DropN(s, m)) = Len(s) - m
      /\ \A k \in 1..Len(s) - m : DropN(s, m)[k] = s[m + k]
  BY Dropped
<1> SUFFICES ASSUME NEW k \in 1..B
             PROVE  /\ (o - m) + k \in 1..Len(DropN(s, m))
                    /\ DropN(s, m)[(o - m) + k] = <<w[1], w[2], k - 1>>
  BY DEF WordAt
<1>2. o + k \in 1..Len(s) /\ s[o + k] = <<w[1], w[2], k - 1>>
  BY DEF WordAt
<1>3. (o - m) + k \in 1..Len(s) - m /\ m + ((o - m) + k) = o + k
  BY <1>1, <1>2, Bounds
<1> QED BY <1>1, <1>2, <1>3

LEMMA WordAtLeft ==
    ASSUME NEW S, NEW s \in Seq(S), NEW t \in Seq(S), NEW o \in Nat, NEW w, WordAt(s, o, w)
    PROVE  WordAt(s \o t, o, w)
<1>1. /\ Len(s) \in Nat /\ Len(t) \in Nat /\ Len(s \o t) = Len(s) + Len(t)
      /\ \A k \in 1..Len(s) + Len(t) : (s \o t)[k] = IF k <= Len(s) THEN s[k] ELSE t[k - Len(s)]
  BY ConcatProperties, LenProperties
<1> SUFFICES ASSUME NEW k \in 1..B
             PROVE  o + k \in 1..Len(s \o t) /\ (s \o t)[o + k] = <<w[1], w[2], k - 1>>
  BY DEF WordAt
<1>2. o + k \in 1..Len(s) /\ s[o + k] = <<w[1], w[2], k - 1>>
  BY DEF WordAt
<1>3. o + k \in 1..Len(s) + Len(t) /\ o + k <= Len(s)
  BY <1>1, <1>2
<1> QED BY <1>1, <1>2, <1>3

LEMMA WordAtRight ==
    ASSUME NEW S, NEW s \in Seq(S), NEW t \in Seq(S), NEW o \in Nat, NEW w, WordAt(t, o, w)
    PROVE  WordAt(s \o t, Len(s) + o, w)
<1>1. /\ Len(s) \in Nat /\ Len(t) \in Nat /\ Len(s \o t) = Len(s) + Len(t)
      /\ \A k \in 1..Len(s) + Len(t) : (s \o t)[k] = IF k <= Len(s) THEN s[k] ELSE t[k - Len(s)]
  BY ConcatProperties, LenProperties
<1> SUFFICES ASSUME NEW k \in 1..B
             PROVE  /\ (Len(s) + o) + k \in 1..Len(s \o t)
                    /\ (s \o t)[(Len(s) + o) + k] = <<w[1], w[2], k - 1>>
  BY DEF WordAt
<1>2. o + k \in 1..Len(t) /\ t[o + k] = <<w[1], w[2], k - 1>>
  BY DEF WordAt
<1>3. /\ (Len(s) + o) + k \in 1..Len(s) + Len(t) /\ ~((Len(s) + o) + k <= Len(s))
      /\ ((Len(s) + o) + k) - Len(s) = o + k
  BY <1>1, <1>2
<1> QED BY <1>1, <1>2, <1>3

\* So does a request.
LEMMA RequestDrop ==
    ASSUME NEW S, NEW s \in Seq(S), NEW m \in 0..Len(s), NEW o \in Nat, m <= o, NEW q
    PROVE  /\ SizeAt(s, o, q) => SizeAt(DropN(s, m), o - m, q)
           /\ RequestAt(s, o, q) => RequestAt(DropN(s, m), o - m, q)
<1>1. /\ o + B \in Nat /\ (o + B) + B \in Nat /\ m <= o + B /\ m <= (o + B) + B
      /\ (o + B) - m = (o - m) + B /\ ((o + B) + B) - m = ((o - m) + B) + B
  BY Bounds, LenProperties
<1>2. ASSUME NEW w, NEW x \in {o, o + B, (o + B) + B}, WordAt(s, x, w)
      PROVE  WordAt(DropN(s, m), x - m, w)
  BY <1>1, <1>2, WordAtDrop
<1> QED BY <1>1, <1>2 DEF SizeAt, RequestAt

LEMMA RequestLeft ==
    ASSUME NEW S, NEW s \in Seq(S), NEW t \in Seq(S), NEW o \in Nat, NEW q
    PROVE  /\ SizeAt(s, o, q) => SizeAt(s \o t, o, q)
           /\ RequestAt(s, o, q) => RequestAt(s \o t, o, q)
<1>1. o + B \in Nat /\ (o + B) + B \in Nat
  BY Bounds
<1> QED BY <1>1, WordAtLeft DEF SizeAt, RequestAt

LEMMA RequestRight ==
    ASSUME NEW S, NEW s \in Seq(S), NEW t \in Seq(S), NEW o \in Nat, NEW q, RequestAt(t, o, q)
    PROVE  RequestAt(s \o t, Len(s) + o, q)
<1>1. /\ o + B \in Nat /\ (o + B) + B \in Nat /\ Len(s) \in Nat
      /\ Len(s) + (o + B) = (Len(s) + o) + B /\ Len(s) + ((o + B) + B) = ((Len(s) + o) + B) + B
  BY Bounds, LenProperties
<1>2. ASSUME NEW w, NEW x \in {o, o + B, (o + B) + B}, WordAt(t, x, w)
      PROVE  WordAt(s \o t, Len(s) + x, w)
  BY <1>1, <1>2, WordAtRight
<1> QED BY <1>1, <1>2 DEF SizeAt, RequestAt

\* What is dropped from the line leaves only whole headers on it, and so does what is sent.
LEMMA HeadersDrop ==
    ASSUME NEW S, NEW s \in Seq(S), NEW m \in 0..Len(s), Headers(s)
    PROVE  Headers(DropN(s, m))
<1>1. /\ Len(s) \in Nat /\ Len(DropN(s, m)) = Len(s) - m
      /\ \A k \in 1..Len(s) - m : DropN(s, m)[k] = s[m + k]
  BY Dropped
<1> SUFFICES ASSUME NEW j \in 1..Len(s) - m, DropN(s, m)[j] = HeaderByte
             PROVE  \E q \in Program : RequestAt(DropN(s, m), (j - 1) + B, q)
  BY <1>1 DEF Headers
<1>2. m + j \in 1..Len(s) /\ s[m + j] = HeaderByte
  BY <1>1
<1>3. PICK q \in Program : RequestAt(s, (m + j - 1) + B, q)
  BY <1>2 DEF Headers
<1>4. /\ (m + j - 1) + B \in Nat /\ m <= (m + j - 1) + B
      /\ ((m + j - 1) + B) - m = (j - 1) + B
  BY <1>1, <1>2, Bounds
<1> DEFINE o == (m + j - 1) + B
<1>5. RequestAt(DropN(s, m), o - m, q)
  <2> HIDE DEF o
  <2>1. o \in Nat /\ m <= o /\ RequestAt(s, o, q)
    BY <1>3, <1>4 DEF o
  <2> QED BY <2>1, RequestDrop
<1> QED BY <1>4, <1>5

LEMMA HeadersConcat ==
    ASSUME NEW S, NEW s \in Seq(S), NEW t \in Seq(S), Headers(s), Headers(t)
    PROVE  Headers(s \o t)
<1>1. /\ Len(s) \in Nat /\ Len(t) \in Nat /\ Len(s \o t) = Len(s) + Len(t)
      /\ \A k \in 1..Len(s) + Len(t) : (s \o t)[k] = IF k <= Len(s) THEN s[k] ELSE t[k - Len(s)]
  BY ConcatProperties, LenProperties
<1> SUFFICES ASSUME NEW j \in 1..Len(s) + Len(t), (s \o t)[j] = HeaderByte
             PROVE  \E q \in Program : RequestAt(s \o t, (j - 1) + B, q)
  BY <1>1 DEF Headers
<1>2. CASE j <= Len(s)
  <2>1. PICK q \in Program : RequestAt(s, (j - 1) + B, q)
    BY <1>1, <1>2 DEF Headers
  <2>2. (j - 1) + B \in Nat
    BY <1>1, Bounds
  <2> QED BY <2>1, <2>2, RequestLeft
<1>3. CASE ~(j <= Len(s))
  <2> DEFINE l == j - Len(s)
             o == (l - 1) + B
  <2>1. l \in 1..Len(t) /\ t[l] = HeaderByte
    BY <1>1, <1>3
  <2>2. PICK q \in Program : RequestAt(t, o, q)
    BY <2>1 DEF Headers
  <2>3. o \in Nat /\ Len(s) + o = (j - 1) + B
    BY <1>1, <1>3, Bounds
  <2> HIDE DEF o
  <2>4. RequestAt(s \o t, Len(s) + o, q)
    BY <2>2, <2>3, RequestRight
  <2> QED BY <2>3, <2>4
<1> QED BY <1>2, <1>3

\* Only the first byte of a header looks like the start of one.
NoStart(s) == \A j \in 1..Len(s) : s[j] # HeaderByte

LEMMA NoStartHeaders == ASSUME NEW s, NoStart(s) PROVE Headers(s)
BY DEF NoStart, Headers

LEMMA NoStartConcat ==
    ASSUME NEW S, NEW s \in Seq(S), NEW t \in Seq(S), NoStart(s), NoStart(t)
    PROVE  NoStart(s \o t)
<1>1. /\ Len(s) \in Nat /\ Len(t) \in Nat /\ Len(s \o t) = Len(s) + Len(t)
      /\ \A k \in 1..Len(s) + Len(t) : (s \o t)[k] = IF k <= Len(s) THEN s[k] ELSE t[k - Len(s)]
  BY ConcatProperties, LenProperties
<1> SUFFICES ASSUME NEW j \in 1..Len(s) + Len(t) PROVE (s \o t)[j] # HeaderByte
  BY <1>1 DEF NoStart
<1>2. CASE j <= Len(s)
  BY <1>1, <1>2 DEF NoStart
<1>3. CASE ~(j <= Len(s))
  <2>1. j - Len(s) \in 1..Len(t)
    BY <1>1, <1>3
  <2> QED BY <1>1, <1>3, <2>1 DEF NoStart
<1> QED BY <1>2, <1>3

\* The bytes of a word, as they are sent.
LEMMA WordSent ==
    ASSUME NEW w \in Sendable
    PROVE  /\ Put32(w) \in Seq(OnLine) /\ Len(Put32(w)) = B /\ WordAt(Put32(w), 0, w)
           /\ w = <<w[1], w[2]>> /\ w # PUT_PROG_INFO => NoStart(Put32(w))
           /\ \A j \in 1..B : Put32(w)[j] = HeaderByte => j = 1
<1>1. Put32(w) \in Seq(OnLine)
  BY Put32Type
<1>2. Len(Put32(w)) = B /\ \A j \in 1..B : Put32(w)[j] = <<w[1], w[2], j - 1>>
  BY <1>1, LenProperties, Bounds DEF Put32
<1>3. ASSUME NEW j \in 1..B PROVE 0 + j = j
  BY Bounds
<1>4. WordAt(Put32(w), 0, w)
  BY <1>2, <1>3 DEF WordAt
<1>5. ASSUME NEW j \in 1..B, Put32(w)[j] = HeaderByte
      PROVE  j = 1 /\ w[1] = "PUT_PROG_INFO" /\ w[2] = 0
  <2>1. <<w[1], w[2], j - 1>> = <<"PUT_PROG_INFO", 0, 0>>
    BY <1>2, <1>5 DEF HeaderByte
  <2>2. j - 1 = 0 /\ w[1] = "PUT_PROG_INFO" /\ w[2] = 0
    BY <2>1
  <2> QED BY <2>2
<1>6. w = <<w[1], w[2]>> /\ w # PUT_PROG_INFO => NoStart(Put32(w))
  BY <1>2, <1>5 DEF NoStart, PUT_PROG_INFO
<1> QED BY <1>1, <1>2, <1>4, <1>5, <1>6
\* What is sent one after the other.
LEMMA OnLineConcat ==
    ASSUME NEW s \in Seq(OnLine), NEW t \in Seq(OnLine)
    PROVE  s \o t \in Seq(OnLine) /\ Len(s \o t) = Len(s) + Len(t)
BY ConcatProperties

LEMMA OnLineAssociative ==
    ASSUME NEW s \in Seq(OnLine), NEW t \in Seq(OnLine), NEW u \in Seq(OnLine)
    PROVE  (s \o t) \o u = s \o (t \o u)
BY ConcatAssociative

\* The answer to GET_PROG_INFO is a whole header, and the code holds nothing like one.
Header(q) == Put32(PUT_PROG_INFO)
                 \o ((Put32(Num(q.addr)) \o Put32(Num(q.n))) \o Put32(q.crc))

LEMMA HeaderSent ==
    ASSUME NEW q \in Program
    PROVE  /\ Header(q) \in Seq(OnLine) /\ Len(Header(q)) = 4*B
           /\ WordAt(Header(q), 0, PUT_PROG_INFO) /\ RequestAt(Header(q), B, q)
           /\ q.crc # PUT_PROG_INFO => Headers(Header(q))
<1> DEFINE a == Put32(PUT_PROG_INFO)
           b == Put32(Num(q.addr))
           c == Put32(Num(q.n))
           d == Put32(q.crc)
           r == (b \o c) \o d
           h == a \o r
<1>1. /\ PUT_PROG_INFO \in Sendable /\ Num(q.addr) \in Sendable /\ Num(q.n) \in Sendable
      /\ q.crc \in Sendable
  BY SendableWords
<1>2. /\ a \in Seq(OnLine) /\ b \in Seq(OnLine) /\ c \in Seq(OnLine) /\ d \in Seq(OnLine)
      /\ Len(a) = B /\ Len(b) = B /\ Len(c) = B /\ Len(d) = B
      /\ WordAt(a, 0, PUT_PROG_INFO) /\ WordAt(b, 0, Num(q.addr)) /\ WordAt(c, 0, Num(q.n)) 
      /\ WordAt(d, 0, q.crc)
      /\ \A j \in 1..B : a[j] = HeaderByte => j = 1
  BY <1>1, WordSent
<1>3. NoStart(b) /\ NoStart(c) /\ (q.crc # PUT_PROG_INFO => NoStart(d))
  <2>1. /\ Num(q.addr) = <<Num(q.addr)[1], Num(q.addr)[2]>> /\ Num(q.addr) # PUT_PROG_INFO
        /\ Num(q.n) = <<Num(q.n)[1], Num(q.n)[2]>> /\ Num(q.n) # PUT_PROG_INFO
    BY DEF Num, PUT_PROG_INFO
  <2>2. q.crc = <<q.crc[1], q.crc[2]>>
    BY CrcAssumption
  <2> QED BY <1>1, <2>1, <2>2, WordSent
<1> HIDE DEF a, b, c, d
<1>4. /\ b \o c \in Seq(OnLine) /\ Len(b \o c) = B + B /\ NoStart(b \o c)
      /\ WordAt(b \o c, 0, Num(q.addr)) /\ WordAt(b \o c, B, Num(q.n))
  <2>1. B + 0 = B /\ 0 \in Nat
    BY Bounds
  <2>2. b \o c \in Seq(OnLine) /\ Len(b \o c) = B + B
    BY <1>2, OnLineConcat
  <2>3. NoStart(b \o c)
    BY <1>2, <1>3, NoStartConcat
  <2>4. WordAt(b \o c, 0, Num(q.addr))
    BY <1>2, <2>1, WordAtLeft
  <2>5. WordAt(b \o c, Len(b) + 0, Num(q.n))
    BY <1>2, <2>1, WordAtRight
  <2> QED BY <1>2, <2>1, <2>2, <2>3, <2>4, <2>5
<1> DEFINE bc == b \o c
<1>5. /\ r \in Seq(OnLine) /\ (q.crc # PUT_PROG_INFO => NoStart(r)) /\ Len(r) = 3*B /\ Len(r) \in Nat
      /\ WordAt(r, 0, Num(q.addr)) /\ WordAt(r, B, Num(q.n)) /\ WordAt(r, B + B, q.crc)
  <2>1. (B + B) + 0 = B + B /\ 0 \in Nat /\ B \in Nat
    BY Bounds
  <2>2. r = bc \o d
    OBVIOUS
  <2>3. /\ bc \in Seq(OnLine) /\ Len(bc) = B + B /\ NoStart(bc)
        /\ WordAt(bc, 0, Num(q.addr)) /\ WordAt(bc, B, Num(q.n))
    BY <1>4
  <2> HIDE DEF bc, r
  <2>4. r \in Seq(OnLine) /\ Len(r) = 3*B /\ Len(r) \in Nat
    <3>1. bc \o d \in Seq(OnLine) /\ Len(bc \o d) = Len(bc) + Len(d)
      BY <1>2, <2>3, OnLineConcat
    <3> QED BY <1>2, <2>2, <2>3, <3>1, Bounds
  <2>7. q.crc # PUT_PROG_INFO => NoStart(r)
    BY <1>2, <1>3, <2>2, <2>3, NoStartConcat
  <2>5. WordAt(r, 0, Num(q.addr)) /\ WordAt(r, B, Num(q.n))
    BY <1>2, <2>1, <2>2, <2>3, WordAtLeft
  <2>6. WordAt(r, (B + B) + 0, q.crc)
    BY <1>2, <2>1, <2>2, <2>3, WordAtRight
  <2> QED BY <2>1, <2>4, <2>5, <2>6, <2>7
<1>6. RequestAt(r, 0, q)
  BY <1>5, Bounds DEF RequestAt, SizeAt
<1> HIDE DEF r
<1>7. /\ h \in Seq(OnLine) /\ Len(h) = 4*B
      /\ WordAt(h, 0, PUT_PROG_INFO) /\ RequestAt(h, B, q)
  <2>1. B + 0 = B /\ 0 \in Nat
    BY Bounds
  <2>2. h \in Seq(OnLine) /\ Len(h) = B + Len(r)
    BY <1>2, <1>5, OnLineConcat
  <2>5. Len(h) = 4*B
    BY <1>5, <2>2, Bounds
  <2>3. RequestAt(h, Len(a) + 0, q)
    BY <1>2, <1>5, <1>6, <2>1, RequestRight
  <2>4. WordAt(h, 0, PUT_PROG_INFO)
    BY <1>2, <1>5, <2>1, WordAtLeft
  <2> QED BY <1>2, <2>1, <2>2, <2>3, <2>4, <2>5
<1>8. ASSUME q.crc # PUT_PROG_INFO, NEW j \in 1..Len(h), h[j] = HeaderByte PROVE j = 1
  <2>1. /\ Len(h) = B + Len(r)
        /\ h[j] = IF j <= B THEN a[j] ELSE r[j - B]
    <3>1. a \in Seq(OnLine) /\ r \in Seq(OnLine) /\ Len(a) = B /\ B \in Nat /\ Len(r) \in Nat
      BY <1>2, <1>5, Bounds
    <3> QED BY <3>1, ConcatProperties
  <2>2. CASE j <= B
    BY <1>2, <1>8, <2>1, <2>2
  <2>3. CASE ~(j <= B)
    <3>1. j - B \in 1..Len(r)
      BY <1>5, <2>1, <2>3, Bounds
    <3> QED BY <1>5, <1>8, <2>1, <2>3, <3>1 DEF NoStart
  <2> QED BY <2>2, <2>3
<1> HIDE DEF h
<1>9. q.crc # PUT_PROG_INFO => Headers(h)
  <2>1. (1 - 1) + B = B
    BY Bounds
  <2> QED BY <1>7, <1>8, <2>1 DEF Headers
<1>10. h = Header(q)
  BY DEF h, r, a, b, c, d, Header
<1> QED BY <1>7, <1>9, <1>10

LEMMA CodeSent ==
    ASSUME NEW q \in Program
    PROVE  /\ Put32(PUT_CODE) \o Code(q) \in Seq(OnLine)
           /\ Headers(Put32(PUT_CODE) \o Code(q))
<1>1. Put32(PUT_CODE) \in Seq(OnLine) /\ NoStart(Put32(PUT_CODE))
  <2>1. PUT_CODE = <<PUT_CODE[1], PUT_CODE[2]>> /\ PUT_CODE # PUT_PROG_INFO
    BY DEF PUT_CODE, PUT_PROG_INFO
  <2> QED BY <2>1, SendableWords, WordSent
<1>2. Code(q) \in Seq(OnLine) /\ NoStart(Code(q))
  <2>1. Code(q) \in Seq(OnLine)
    BY CodeType
  <2>2. q.n \in Nat
    BY BootAssumption
  <2>3. Len(Code(q)) = q.n
    BY <2>2 DEF Code
  <2>4. ASSUME NEW j \in 1..q.n PROVE Code(q)[j] # HeaderByte
    BY DEF Code, HeaderByte
  <2> QED BY <2>1, <2>3, <2>4 DEF NoStart
<1>3. Put32(PUT_CODE) \o Code(q) \in Seq(OnLine) /\ NoStart(Put32(PUT_CODE) \o Code(q))
  BY <1>1, <1>2, ConcatProperties, NoStartConcat
<1> QED BY <1>3, NoStartHeaders

----------------------------------------------------------------------------
(* The steps                                                               *)

\* The bytes on their way to the pi: in its FIFO, and on the line.
LEMMA StreamType ==
    ASSUME LineInv
    PROVE  rx \in Seq(OnLine) /\ down \in Seq(OnLine) /\ rx \o down \in Seq(OnLine)
BY ConcatProperties DEF LineInv

\* The pi does not move, and only whole headers are added to what is on its way.
LEMMA LineLoads ==
    ASSUME LineInv, LoadInv, UNCHANGED <<pc, addr, nbytes, cksum, mem>>, Clean' => Clean,
           NEW t \in Seq(OnLine), Headers(t), rx' \o down' = (rx \o down) \o t
    PROVE  LoadInv'
<1> DEFINE s == rx \o down
<1>1. s \in Seq(OnLine) /\ 0 \in Nat
  BY StreamType
<1>2. pc' \in {"check", "code", "bytes"} => cksum' # <<"bad crc", 0>>
  BY DEF LoadInv
<1>3. pc' = "running" => \E p \in Program : /\ nbytes' = p.n /\ Holds(addr, p)'
                                            /\ Clean' => addr' = p.addr
  BY DEF LoadInv, Holds
<1>4. ASSUME Clean' PROVE Headers(s \o t) /\ Asked'
  <2>1. Headers(s) /\ Asked
    BY <1>4 DEF LoadInv
  <2>2. rx' \o down' = s \o t
    OBVIOUS
  <2> HIDE DEF s
  <2>3. Headers(s \o t)
    BY <1>1, <2>1, HeadersConcat
  <2>4. ASSUME NEW q, RequestAt(s, 0, q) PROVE RequestAt(rx' \o down', 0, q)
    BY <1>1, <2>2, <2>4, RequestLeft
  <2>5. ASSUME NEW q, SizeAt(s, 0, q) PROVE SizeAt(rx' \o down', 0, q)
    BY <1>1, <2>2, <2>5, RequestLeft
  <2>6. ASSUME NEW q, WordAt(s, 0, q.crc) PROVE WordAt(rx' \o down', 0, q.crc)
    BY <1>1, <2>2, <2>6, WordAtLeft
  <2>7. Asked'
    BY <2>1, <2>4, <2>5, <2>6 DEF Asked, s
  <2> QED BY <2>3, <2>7
<1> QED BY <1>2, <1>3, <1>4 DEF LoadInv

\* The same where nothing is added, and where a byte is lost or corrupted.
LEMMA LineStays ==
    ASSUME LineInv, LoadInv, UNCHANGED <<pc, addr, nbytes, cksum, mem>>, Clean' => Clean,
           Clean' => rx' \o down' = rx \o down
    PROVE  LoadInv'
<1>1. CASE Clean'
  <2>1. <<>> \in Seq(OnLine) /\ (rx \o down) \o <<>> = rx \o down
    BY StreamType, EmptySeq, ConcatEmptySeq
  <2>2. Headers(<<>>)
    BY EmptySeq DEF Headers
  <2> QED BY <1>1, <2>1, <2>2, LineLoads
<1>2. CASE ~Clean'
  BY <1>2 DEF LoadInv, Holds
<1> QED BY <1>1, <1>2

\* After a reboot nothing is loaded, and what is on its way was on its way.
LEMMA RebootLoads == ASSUME LineInv, LoadInv, Reboot, Clean' => Clean PROVE LoadInv'
<1>1. pc' = "wait" /\ rx' = <<>>
  BY DEF Reboot
<1>2. ASSUME Clean' PROVE Headers(rx' \o down')
  <2>1. PICK m \in 0..Len(down) : down' = DropN(down, m)
    BY DEF Reboot
  <2> DEFINE s == rx \o down
             k == Len(rx) + m
  <2>2. /\ s \in Seq(OnLine) /\ rx \in Seq(OnLine) /\ down \in Seq(OnLine)
        /\ Len(s) = Len(rx) + Len(down) /\ Len(rx) \in Nat /\ Len(down) \in Nat
        /\ m \in 0..Len(down) /\ k \in 0..Len(s)
    BY StreamType, ConcatProperties, LenProperties
  <2>3. rx' \o down' = down' /\ down' \in Seq(OnLine) /\ Len(down') = Len(down) - m
    BY <1>1, <2>1, <2>2, ConcatEmptySeq, Dropped
  <2>4. down' = DropN(s, k)
    <3>1. /\ DropN(s, k) \in Seq(OnLine) /\ Len(DropN(s, k)) = Len(s) - k
          /\ \A j \in 1..Len(s) - k : DropN(s, k)[j] = s[k + j]
      <4> HIDE DEF s, k
      <4> QED BY <2>2, Dropped
    <3>2. \A j \in 1..Len(down) - m : down'[j] = down[m + j]
      BY <2>1, <2>2, Dropped
    <3>3. \A j \in 1..Len(rx) + Len(down) : s[j] = IF j <= Len(rx) THEN rx[j] ELSE down[j - Len(rx)]
      BY <2>2, ConcatProperties
    <3> HIDE DEF s
    <3>4. ASSUME NEW j \in 1..Len(down') PROVE down'[j] = DropN(s, k)[j]
      <4>1. /\ j \in 1..Len(down) - m /\ j \in 1..Len(s) - k
            /\ k + j \in 1..Len(rx) + Len(down) /\ ~(k + j <= Len(rx))
            /\ (k + j) - Len(rx) = m + j
        BY <2>2, <2>3
      <4> HIDE DEF k
      <4> QED BY <3>1, <3>2, <3>3, <4>1
    <3>5. Len(down') = Len(DropN(s, k))
      <4>1. Len(s) - k = Len(down) - m
        BY <2>2
      <4> HIDE DEF k
      <4> QED BY <2>3, <3>1, <4>1
    <3> HIDE DEF k
    <3> QED BY <2>3, <3>1, <3>4, <3>5, SeqEqual
  <2>5. Headers(s)
    BY <1>2 DEF LoadInv
  <2> HIDE DEF s, k
  <2> QED BY <2>2, <2>3, <2>4, <2>5, HeadersDrop
<1>3. Asked'
  BY <1>1 DEF Asked
<1> QED BY <1>1, <1>2, <1>3 DEF LoadInv

\* A word that the pi takes is the one that comes first on its way.
LEMMA WordTaken ==
    ASSUME LineInv, Len(rx) >= B, rx' = DropN(rx, B), down' = down
    PROVE  /\ rx \o down \in Seq(OnLine) /\ B \in 0..Len(rx \o down)
           /\ rx' \o down' = DropN(rx \o down, B)
           /\ \A k \in 1..B : k \in 1..Len(rx \o down) /\ (rx \o down)[k] = rx[k]
<1>1. /\ rx \in Seq(OnLine) /\ down \in Seq(OnLine) /\ rx \o down \in Seq(OnLine)
      /\ Len(rx) \in Nat /\ Len(down) \in Nat /\ Len(rx \o down) = Len(rx) + Len(down)
      /\ \A k \in 1..Len(rx) + Len(down) :
           (rx \o down)[k] = IF k <= Len(rx) THEN rx[k] ELSE down[k - Len(rx)]
  BY StreamType, ConcatProperties, LenProperties
<1>2. B \in 0..Len(rx) /\ B \in 0..Len(rx \o down)
  BY <1>1, Bounds
<1>3. DropN(rx, B) \o down = DropN(rx \o down, B)
  BY <1>1, <1>2, DropConcat
<1>4. ASSUME NEW k \in 1..B PROVE k \in 1..Len(rx \o down) /\ (rx \o down)[k] = rx[k]
  <2>1. k \in 1..Len(rx) + Len(down) /\ k <= Len(rx)
    BY <1>1, Bounds
  <2> QED BY <1>1, <2>1
<1> QED BY <1>1, <1>2, <1>3, <1>4

\* The word that comes first is the one that the pi reads.
LEMMA WordRead ==
    ASSUME NEW s, NEW t, NEW w, w = <<w[1], w[2]>>, WordAt(s, 0, w), \A k \in 1..B : s[k] = t[k]
    PROVE  Word(t) = w
<1>1. ASSUME NEW k \in 1..B PROVE t[k] = <<w[1], w[2], k - 1>>
  <2>1. 0 + k = k
    BY Bounds
  <2> QED BY <2>1 DEF WordAt
<1>2. 1 \in 1..B
  BY Bounds
<1>3. t[1][1] = w[1] /\ t[1][2] = w[2]
  BY <1>1, <1>2
<1> QED BY <1>1, <1>3 DEF Word
\* The first byte of a word tells its kind.
LEMMA Tags ==
    /\ PUT_PROG_INFO[1] = "PUT_PROG_INFO" /\ PUT_CODE[1] = "PUT_CODE" /\ <<"junk", 0>>[1] = "junk"
    /\ \A x : Num(x)[1] = "num" /\ <<"code", x>>[1] = "code"
BY DEF PUT_PROG_INFO, PUT_CODE, Num

\* The words that the pi reads are the ones of a request, one after the other.
LEMMA HeaderLoads ==
    ASSUME LineInv, LoadInv, PiHeader, Clean' => Clean
    PROVE  LoadInv'
<1> DEFINE s == rx \o down
           t == rx' \o down'
<1>1. Len(rx) >= B /\ rx' = DropN(rx, B) /\ down' = down /\ mem' = mem
  BY DEF PiHeader
<1>2. /\ s \in Seq(OnLine) /\ B \in 0..Len(s) /\ t = DropN(s, B)
      /\ \A k \in 1..B : k \in 1..Len(s) /\ s[k] = rx[k]
  BY <1>1, WordTaken
<1>3. ASSUME Clean' PROVE Headers(t) /\ Asked'
  <2>1. Headers(s) /\ Asked
    BY <1>3 DEF LoadInv
  <2> HIDE DEF s, t
  <2>2. Headers(t)
    BY <1>2, <2>1, HeadersDrop
  <2>3. /\ B \in Nat /\ 0 \in Nat /\ B <= B /\ B - B = 0 /\ 0 + B = B /\ B + B \in Nat
        /\ B <= B + B /\ (B + B) - B = B
    BY Bounds
  <2>4. ASSUME NEW w, w = <<w[1], w[2]>>, WordAt(s, 0, w) PROVE Word(rx) = w
    BY <1>2, <2>4, WordRead
  <2>5. CASE pc = "addr"
    <3>1. PICK q \in Program : RequestAt(s, 0, q)
      BY <2>1, <2>5 DEF Asked, s
    <3>2. WordAt(s, 0, Num(q.addr)) /\ SizeAt(s, B, q)
      BY <2>3, <3>1 DEF RequestAt
    <3>3. Word(rx) = Num(q.addr)
      <4>1. Num(q.addr) = <<Num(q.addr)[1], Num(q.addr)[2]>>
        BY DEF Num
      <4> QED BY <2>4, <3>2, <4>1
    <3>4. pc' = "nbytes" /\ addr' = q.addr
      BY <2>5, <3>3 DEF PiHeader, Reads, Num
    <3>5. SizeAt(t, 0, q)
      BY <1>2, <2>3, <3>2, RequestDrop
    <3> QED BY <2>2, <3>4, <3>5 DEF Asked, t
  <2>6. CASE pc = "nbytes"
    <3>1. PICK q \in Program : addr = q.addr /\ SizeAt(s, 0, q)
      BY <2>1, <2>6 DEF Asked, s
    <3>2. WordAt(s, 0, Num(q.n)) /\ WordAt(s, B, q.crc)
      BY <2>3, <3>1 DEF SizeAt
    <3>3. Word(rx) = Num(q.n)
      <4>1. Num(q.n) = <<Num(q.n)[1], Num(q.n)[2]>>
        BY DEF Num
      <4> QED BY <2>4, <3>2, <4>1
    <3>4. pc' = "cksum" /\ nbytes' = q.n /\ addr' = addr
      BY <2>6, <3>3 DEF PiHeader, Reads, Num
    <3>5. WordAt(t, 0, q.crc)
      BY <1>2, <2>3, <3>2, WordAtDrop
    <3> QED BY <2>2, <3>1, <3>4, <3>5 DEF Asked, t
  <2>7. CASE pc = "cksum"
    <3>1. PICK q \in Program : addr = q.addr /\ nbytes = q.n /\ WordAt(s, 0, q.crc)
      BY <2>1, <2>7 DEF Asked, s
    <3>2. Word(rx) = q.crc
      BY <2>4, <3>1, CrcAssumption
    <3>3. pc' = "check" /\ cksum' = q.crc /\ addr' = addr /\ nbytes' = nbytes
      BY <2>7, <3>2 DEF PiHeader
    <3> QED BY <2>2, <3>1, <3>3 DEF Asked
  <2> QED BY <2>5, <2>6, <2>7 DEF PiHeader
<1>4. pc' \in {"nbytes", "cksum", "check"}
  BY DEF PiHeader
<1>5. ASSUME pc' = "check" PROVE cksum' # <<"bad crc", 0>>
  <2>1. cksum' = Word(rx)
    BY <1>5 DEF PiHeader
  <2>2. 1 \in 1..Len(rx) /\ rx \in Seq(OnLine)
    BY <1>1, Bounds, StreamType, LenProperties
  <2>3. rx[1] \in OnLine
    BY <2>2, ElementOfSeq
  <2>4. PICK w \in Sendable, j \in Nat : rx[1] = <<w[1], w[2], j>>
    BY <2>3 DEF OnLine
  <2>5. Word(rx) = <<w[1], w[2]>> \/ Word(rx) = <<"junk", 0>>
    BY <2>4 DEF Word
  <2>6. <<w[1], w[2]>> # <<"bad crc", 0>>
    <3> SUFFICES ASSUME w[1] = "bad crc", w[2] = 0 PROVE FALSE
      OBVIOUS
    <3>1. CASE w \in {PUT_PROG_INFO, PUT_CODE, <<"junk", 0>>}
      <4>1. /\ w = PUT_PROG_INFO => w[1] = "PUT_PROG_INFO"
            /\ w = PUT_CODE => w[1] = "PUT_CODE"
            /\ w = <<"junk", 0>> => w[1] = "junk"
        BY Tags
      <4> QED BY <3>1, <4>1
    <3>2. CASE \E p \in Program : w \in {Num(p.addr), Num(p.n), p.crc, <<"code", p.id>>}
      <4>1. PICK p \in Program : w \in {Num(p.addr), Num(p.n), p.crc, <<"code", p.id>>}
        BY <3>2
      <4>2. CASE w = p.crc
        BY <4>2, CrcAssumption
      <4>3. CASE w # p.crc
        <5>1. /\ w = Num(p.addr) \/ w = Num(p.n) => w[1] = "num"
              /\ w = <<"code", p.id>> => w[1] = "code"
          BY Tags
        <5> QED BY <4>1, <4>3, <5>1
      <4> QED BY <4>2, <4>3
    <3> QED BY <3>1, <3>2 DEF Sendable
  <2>7. <<"junk", 0>> # <<"bad crc", 0>>
    OBVIOUS
  <2> QED BY <2>1, <2>5, <2>6, <2>7
<1> QED BY <1>3, <1>4, <1>5 DEF LoadInv

\* A PUT_PROG_INFO is followed by a request.
LEMMA OpLoads ==
    ASSUME LineInv, LoadInv, PiOp, Clean' => Clean
    PROVE  LoadInv'
<1> DEFINE s == rx \o down
           t == rx' \o down'
<1>1. CASE Word(rx) # PUT_PROG_INFO
  BY <1>1, RebootLoads DEF PiOp, boot_err
<1>2. CASE Word(rx) = PUT_PROG_INFO
  <2>1. Len(rx) >= B /\ rx' = DropN(rx, B) /\ down' = down /\ pc' = "addr"
    BY <1>2 DEF PiOp
  <2>2. /\ s \in Seq(OnLine) /\ B \in 0..Len(s) /\ t = DropN(s, B)
        /\ \A k \in 1..B : k \in 1..Len(s) /\ s[k] = rx[k]
    BY <2>1, WordTaken
  <2>3. ASSUME Clean' PROVE Headers(t) /\ Asked'
    <3>1. Headers(s)
      BY <2>3 DEF LoadInv
    <3>2. rx[1] = HeaderByte
      <4>1. ~(PUT_PROG_INFO = <<"junk", 0>>)
        BY DEF PUT_PROG_INFO
      <4>2. /\ \A k \in 1..B : rx[k] = <<rx[1][1], rx[1][2], k - 1>>
            /\ <<rx[1][1], rx[1][2]>> = <<"PUT_PROG_INFO", 0>>
        BY <1>2, <4>1 DEF Word, PUT_PROG_INFO
      <4>3. rx[1] = <<rx[1][1], rx[1][2], 1 - 1>>
        BY <4>2, Bounds
      <4>4. rx[1][1] = "PUT_PROG_INFO" /\ rx[1][2] = 0
        BY <4>2
      <4> QED BY <4>3, <4>4 DEF HeaderByte
    <3>3. 1 \in 1..B
      BY Bounds
    <3>4. 1 \in 1..Len(s) /\ s[1] = HeaderByte
      BY <2>2, <3>2, <3>3
    <3> HIDE DEF s, t
    <3>5. /\ B \in Nat /\ B <= B /\ B - B = 0 /\ (1 - 1) + B = B
      BY Bounds
    <3>6. PICK q \in Program : RequestAt(s, B, q)
      BY <3>1, <3>4, <3>5 DEF Headers
    <3>7. RequestAt(t, 0, q)
      BY <2>2, <3>5, <3>6, RequestDrop
    <3>8. Headers(t)
      BY <2>2, <3>1, HeadersDrop
    <3> QED BY <2>1, <3>7, <3>8 DEF Asked, t
  <2> QED BY <2>1, <2>3 DEF LoadInv
<1> QED BY <1>1, <1>2

\* What the pi branches to has the checksum of the request, and no other content has it.
LEMMA FinishLoads ==
    ASSUME LineInv, LoadInv, PiFinish, Clean' => Clean
    PROVE  LoadInv'
<1>1. CASE ~CrcMatches \/ addr = 0
  BY <1>1, RebootLoads DEF PiFinish, boot_err
<1>2. CASE CrcMatches /\ addr # 0
  <2>1. /\ pc = "bytes" /\ pc' = "running" /\ UNCHANGED <<addr, nbytes, cksum, mem, down, rx>>
    BY <1>2 DEF PiFinish
  <2>2. Crc(addr, nbytes) = cksum /\ cksum # <<"bad crc", 0>>
    BY <1>2, <2>1 DEF CrcMatches, LoadInv
  <2>3. \E p \in Program : p.n = nbytes /\ Holds(addr, p)
    BY <2>2 DEF Crc
  <2>4. PICK p \in Program : p.n = nbytes /\ Holds(addr, p) /\ p.crc = cksum
    <3> DEFINE x == CHOOSE p \in Program : p.n = nbytes /\ Holds(addr, p)
    <3>1. x \in Program /\ x.n = nbytes /\ Holds(addr, x)
      BY <2>3
    <3>2. x.crc = cksum
      BY <2>2, <2>3 DEF Crc
    <3> HIDE DEF x
    <3> QED BY <3>1, <3>2
  <2>5. ASSUME Clean'
        PROVE  \E q \in Program : nbytes = q.n /\ Holds(addr, q) /\ addr = q.addr
    <3>1. PICK q \in Program : addr = q.addr /\ nbytes = q.n /\ cksum = q.crc
      BY <2>1, <2>5 DEF LoadInv, Asked
    <3>2. p.id = q.id /\ p.n = q.n
      BY <2>4, <3>1, CrcAssumption
    <3>3. Code(p) = Code(q)
      BY <3>2 DEF Code
    <3>4. Holds(addr, q)
      BY <2>4, <3>2, <3>3 DEF Holds
    <3> QED BY <3>1, <3>4
  <2>6. \E r \in Program : nbytes = r.n /\ Holds(addr, r) /\ (Clean' => addr = r.addr)
    <3>1. CASE Clean'
      BY <2>5, <3>1
    <3>2. CASE ~Clean'
      BY <2>4, <3>2
    <3> QED BY <3>1, <3>2
  <2>7. \E r \in Program : nbytes' = r.n /\ Holds(addr, r)' /\ (Clean' => addr' = r.addr)
    BY <2>1, <2>6 DEF Holds
  <2>8. Clean' => Headers(rx' \o down')
    BY <2>1 DEF LoadInv
  <2>9. Asked'
    BY <2>1 DEF Asked
  <2> QED BY <2>1, <2>7, <2>8, <2>9 DEF LoadInv
<1> QED BY <1>1, <1>2

\* Every step of the pi keeps the invariant.
LEMMA PiLoads == ASSUME LineInv, LoadInv, Pi PROVE LoadInv'
<1>0. Clean' => Clean
  BY DEF Clean, Pi, PiAnnounce, PiTimeout, PiHasData, PiOp, PiHeader, PiCheck, PiPutCode, PiByte,
         PiFinish, PiUnchanged, hist
<1>1. CASE PiAnnounce \/ PiTimeout \/ PiHasData
  <2>1. pc' \in {"wait", "poll", "op"} /\ UNCHANGED <<down, rx>>
    BY <1>1 DEF PiAnnounce, PiTimeout, PiHasData, line
  <2> QED BY <1>0, <2>1 DEF LoadInv, Asked
<1>2. CASE PiCheck
  <2>1. CASE Collides(addr, nbytes)
    BY <1>0, <1>2, <2>1, RebootLoads DEF PiCheck, boot_err
  <2>2. CASE ~Collides(addr, nbytes)
    <3>1. pc = "check" /\ pc' = "code" /\ UNCHANGED <<addr, nbytes, cksum, down, rx>>
      BY <1>2, <2>2 DEF PiCheck
    <3> QED BY <1>0, <3>1 DEF LoadInv, Asked
  <2> QED BY <2>1, <2>2
<1>3. ASSUME pc \in {"code", "bytes"}, pc' = "bytes", UNCHANGED <<addr, nbytes, cksum, down>>,
             NEW m \in 0..Len(rx), rx' = DropN(rx, m)
      PROVE  LoadInv'
  <2>1. /\ rx \in Seq(OnLine) /\ down \in Seq(OnLine) /\ rx \o down \in Seq(OnLine)
        /\ m \in 0..Len(rx \o down)
    <3>1. /\ Len(rx) \in Nat /\ Len(down) \in Nat /\ Len(rx \o down) = Len(rx) + Len(down)
      BY StreamType, ConcatProperties, LenProperties
    <3> QED BY <3>1, StreamType
  <2>2. rx' \o down' = DropN(rx \o down, m)
    BY <1>3, <2>1, DropConcat
  <2>3. ASSUME Clean' PROVE Headers(rx' \o down') /\ Asked'
    <3>1. Headers(rx \o down) /\ Asked
      BY <1>0, <2>3 DEF LoadInv
    <3>2. Headers(DropN(rx \o down, m))
      BY <2>1, <3>1, HeadersDrop
    <3> QED BY <1>3, <2>2, <3>1, <3>2 DEF Asked
  <2> QED BY <1>3, <2>3 DEF LoadInv
<1>4. CASE PiPutCode
  <2>1. CASE Word(rx) # PUT_CODE
    BY <1>0, <1>4, <2>1, RebootLoads DEF PiPutCode, boot_err
  <2>2. CASE Word(rx) = PUT_CODE
    <3>1. /\ pc = "code" /\ pc' = "bytes" /\ UNCHANGED <<addr, nbytes, cksum, down>>
          /\ Len(rx) >= B /\ rx' = DropN(rx, B)
      BY <1>4, <2>2 DEF PiPutCode
    <3>2. B \in 0..Len(rx)
      BY <3>1, Bounds, StreamType, LenProperties
    <3> QED BY <1>3, <3>1, <3>2
  <2> QED BY <2>1, <2>2
<1>5. CASE PiByte
  <2>1. /\ pc = "bytes" /\ pc' = "bytes" /\ UNCHANGED <<addr, nbytes, cksum, down>>
        /\ rx # <<>> /\ rx' = Tail(rx)
    BY <1>5 DEF PiByte
  <2>2. 1 \in 0..Len(rx) /\ Tail(rx) = DropN(rx, 1)
    <3>1. rx \in Seq(OnLine) /\ Len(rx) \in Nat \ {0}
      BY <2>1, StreamType, EmptySeq
    <3>2. Tail(rx) = SubSeq(rx, 1 + 1, Len(rx))
      BY <2>1, <3>1
    <3> QED BY <3>1, <3>2 DEF DropN
  <2> QED BY <1>3, <2>1, <2>2
<1> QED BY <1>0, <1>1, <1>2, <1>4, <1>5, HeaderLoads, OpLoads, FinishLoads DEF Pi

\* So does every step of the laptop, and of the line.
LEMMA UnixLoads == ASSUME LineInv, UnixInv, LoadInv, Unix PROVE LoadInv'
<1>1. UNCHANGED <<pc, addr, nbytes, cksum, mem, rx, flips, overruns>>
  BY DEF Unix, UnixPrint, UnixSync, UnixDrain, UnixCrc, UnixSuccess, UnixEcho, UnixUnchanged,
         pivars, hist
<1>2. Clean' => Clean
  BY <1>1 DEF Clean
<1>3. rx \in Seq(OnLine) /\ down \in Seq(OnLine) /\ prog \in Program
  BY StreamType DEF UnixInv
<1>4. ASSUME NEW t \in Seq(OnLine), Headers(t), down' = down \o t
      PROVE  LoadInv'
  <2>1. rx' \o down' = (rx \o down) \o t
    BY <1>1, <1>3, <1>4, OnLineAssociative
  <2> QED BY <1>1, <1>2, <1>4, <2>1, LineLoads
<1>5. CASE down' = down
  BY <1>1, <1>2, <1>5, LineStays
<1>6. CASE ~Clean'
  BY <1>1, <1>2, <1>6, LineStays
<1>7. CASE Clean' /\ UnixSync /\ down' # down
  <2>1. prog.crc # PUT_PROG_INFO
    BY <1>3, <1>7 DEF Clean
  <2>2. Header(prog) \in Seq(OnLine) /\ Headers(Header(prog))
    BY <1>3, <2>1, HeaderSent
  <2> DEFINE a == Put32(PUT_PROG_INFO)
             b == Put32(Num(prog.addr))
             c == Put32(Num(prog.n))
             d == Put32(prog.crc)
  <2>3. down' = (((down \o a) \o b) \o c) \o d
    BY <1>7 DEF UnixSync
  <2>4. a \in Seq(OnLine) /\ b \in Seq(OnLine) /\ c \in Seq(OnLine) /\ d \in Seq(OnLine)
    BY <1>3, SendableWords, Put32Type
  <2> HIDE DEF a, b, c, d
  <2>5. /\ down \o a \in Seq(OnLine) /\ b \o c \in Seq(OnLine) /\ (b \o c) \o d \in Seq(OnLine)
    BY <1>3, <2>4, ConcatProperties
  <2>6. ((down \o a) \o b) \o c = (down \o a) \o (b \o c)
    <3> DEFINE e == down \o a
    <3>1. e \in Seq(OnLine)
      BY <2>5
    <3> HIDE DEF e
    <3>2. (e \o b) \o c = e \o (b \o c)
      BY <2>4, <3>1, OnLineAssociative
    <3> QED BY <3>2 DEF e
  <2>7. ((down \o a) \o (b \o c)) \o d = (down \o a) \o ((b \o c) \o d)
    <3> DEFINE e == down \o a
               f == b \o c
    <3>1. e \in Seq(OnLine) /\ f \in Seq(OnLine) /\ d \in Seq(OnLine)
      BY <2>4, <2>5
    <3> HIDE DEF e, f
    <3>2. (e \o f) \o d = e \o (f \o d)
      BY <3>1, OnLineAssociative, Zenon
    <3> QED BY <3>2 DEF e, f
  <2>8. (down \o a) \o ((b \o c) \o d) = down \o (a \o ((b \o c) \o d))
    <3> DEFINE e == (b \o c) \o d
    <3>1. down \in Seq(OnLine) /\ a \in Seq(OnLine) /\ e \in Seq(OnLine)
      BY <1>3, <2>4, <2>5
    <3> HIDE DEF e
    <3>2. (down \o a) \o e = down \o (a \o e)
      BY <3>1, OnLineAssociative, Zenon
    <3> QED BY <3>2 DEF e
  <2>9. down' = down \o Header(prog)
    BY <2>3, <2>6, <2>7, <2>8 DEF Header, a, b, c, d
  <2> QED BY <1>4, <2>2, <2>9
<1>8. CASE UnixCrc /\ down' # down
  <2> DEFINE a == Put32(PUT_CODE)
             b == Code(prog)
  <2>1. down' = (down \o a) \o b
    BY <1>8 DEF UnixCrc, BootCheckFails
  <2>2. a \in Seq(OnLine) /\ b \in Seq(OnLine) /\ a \o b \in Seq(OnLine) /\ Headers(a \o b)
    BY <1>3, SendableWords, Put32Type, CodeType, CodeSent
  <2> HIDE DEF a, b
  <2>3. down' = down \o (a \o b)
    BY <1>3, <2>1, <2>2, OnLineAssociative
  <2> QED BY <1>4, <2>2, <2>3
<1> QED BY <1>5, <1>6, <1>7, <1>8 DEF Unix, UnixPrint, UnixDrain, UnixSuccess, UnixEcho, BootCheckFails

LEMMA LineStepLoads ==
    ASSUME BootInv, LoadInv, Deliver \/ Overrun \/ Corrupt
    PROVE  LoadInv'
<1>0. LineInv /\ flips \in Nat /\ overruns \in Nat
  BY Bounds DEF BootInv, HistoryInv
<1>1. UNCHANGED <<pc, addr, nbytes, cksum, mem>>
  BY DEF Deliver, Overrun, Corrupt, pivars
<1>2. CASE Deliver
  <2>1. Clean' => Clean
    BY <1>2 DEF Deliver, Clean, hist
  <2>2. rx' \o down' = rx \o down
    BY <1>0, <1>2, StreamType, ConcatPop DEF Deliver
  <2> QED BY <1>0, <1>1, <2>1, <2>2, LineStays
<1>3. CASE Overrun \/ Corrupt
  <2>1. ~Clean'
    BY <1>0, <1>3 DEF Overrun, Corrupt, Clean
  <2> QED BY <1>0, <1>1, <2>1, LineStays
<1> QED BY <1>2, <1>3

\* And every reset, timeout, interrupt and new run.
LEMMA OtherLoads ==
    ASSUME LineInv, LoadInv,
           PiReset \/ ProgramEnds \/ SilenceTimeout \/ SlowTimeout \/ UnixKill \/ UnixRun
    PROVE  LoadInv'
<1>1. flips' = flips /\ overruns' = overruns
  BY DEF PiReset, ProgramEnds, SilenceTimeout, SlowTimeout, ReadTimeout, UnixKill, UnixRun, hist
<1>2. Clean' => Clean
  BY <1>1 DEF Clean
<1>3. CASE PiReset \/ ProgramEnds
  BY <1>2, <1>3, RebootLoads DEF PiReset, ProgramEnds
<1>4. CASE SilenceTimeout \/ SlowTimeout \/ UnixKill \/ UnixRun
  <2>1. UNCHANGED <<pc, addr, nbytes, cksum, mem, rx, down>>
    BY <1>4 DEF SilenceTimeout, SlowTimeout, ReadTimeout, UnixKill, UnixRun, pivars, line
  <2> QED BY <1>2, <2>1, LineStays
<1> QED BY <1>3, <1>4

LEMMA NextLoads == ASSUME BootInv, LoadInv, [Next]_vars PROVE LoadInv'
<1>1. LineInv /\ UnixInv
  BY DEF BootInv
<1>2. CASE UNCHANGED vars
  <2>1. UNCHANGED <<pc, addr, nbytes, cksum, mem, rx, down, flips, overruns>>
    BY <1>2 DEF vars, pivars, line, hist
  <2> QED BY <1>1, <2>1, LineStays DEF Clean
<1> QED BY <1>1, <1>2, PiLoads, UnixLoads, LineStepLoads, OtherLoads DEF Next, Environment

LEMMA InitLoads == Init => LoadInv
<1> SUFFICES ASSUME Init PROVE LoadInv
  OBVIOUS
<1>1. pc = "wait" /\ rx = <<>> /\ down = <<>>
  BY DEF Init
<1>2. rx \o down = <<>>
  BY <1>1, EmptySeq, ConcatEmptySeq
<1>3. Headers(rx \o down)
  BY <1>2, EmptySeq DEF Headers
<1> QED BY <1>1, <1>3 DEF LoadInv, Asked

LEMMA Loads == Spec => []LoadInv
BY InitLoads, NextLoads, Invariance, PTL DEF Spec

\* What the pi branches to is a whole program that my-install sends, every byte of it in its
\* place, whatever was lost, left over or corrupted on the line before.
THEOREM RunsWholeProgram ==
    Spec => [](pc = "running" => \E p \in Program : nbytes = p.n /\ Holds(addr, p))
<1>1. LoadInv => (pc = "running" => \E p \in Program : nbytes = p.n /\ Holds(addr, p))
  BY DEF LoadInv
<1> QED BY <1>1, Loads, PTL

\* It is at the address that was asked for unless a byte was corrupted or lost at a full FIFO,
\* where no checksum has the value of PUT_PROG_INFO: whatever resets and timeouts cut short.
THEOREM RunsWhereAsked ==
    ASSUME \A p \in Program : p.crc # PUT_PROG_INFO
    PROVE  Spec => []BootsWholeProgram
<1>1. LoadInv => BootsWholeProgram
  BY DEF LoadInv, BootsWholeProgram, Clean
<1> QED BY <1>1, Loads, PTL

----------------------------------------------------------------------------
(* What my-install may conclude from what the pi tells it.                 *)

\* What may be on the line to the laptop, and the kinds of its bytes that no checksum has.
UpWords ==
    Sendable \cup {GET_PROG_INFO, GET_CODE, BOOT_SUCCESS, BOOT_ERROR, PRINT_STRING, Strlen,
                   <<"char", 0>>}
UpByte == {<<w[1], w[2], j>> : w \in UpWords, j \in Nat}
Told == {"GET_PROG_INFO", "GET_CODE", "BOOT_SUCCESS", "BOOT_ERROR", "PRINT_STRING", "strlen",
         "char"}
Distinct == \A p \in Program : p.crc[1] \notin Told \cup {"junk"}

CodeByte == <<"GET_CODE", 0, 0>>
DoneByte == <<"BOOT_SUCCESS", 0, 0>>
InfoEnd == <<"GET_PROG_INFO", 0, B - 1>>

\* A GET_CODE comes right after a GET_PROG_INFO, and a checksum after a GET_CODE.
Starts(s) == \A j \in 2..Len(s) : s[j] = CodeByte => s[j - 1] = InfoEnd
Sums(s) == \A j \in 1..Len(s) : \A p \in Program :
             s[j] = <<p.crc[1], p.crc[2], 0>> /\ j > B => s[j - B] = CodeByte

\* What is left of s ends as GET_CODE and c do.
Ends(s, c) ==
    \A d \in 0..2*B-1 : d < Len(s) =>
        s[Len(s) - d] = IF d < B THEN <<c[1], c[2], (B - 1) - d>>
                        ELSE <<"GET_CODE", 0, (2*B - 1) - d>>

NoCode(s) == \A l \in 1..Len(s) : s[l] # CodeByte

\* A BOOT_SUCCESS that answers to the checksum of p, or comes before any other GET_CODE, is
\* about p.
Answers(s, L) ==
    \A p \in Program : \A j, k \in 1..Len(s) :
        /\ j < k /\ s[j] = CodeByte /\ s[k] = DoneByte
        /\ \A l \in j+1..k-1 : s[l] # CodeByte
        /\ WordAt(s, (j - 1) + B, p.crc)
        => p \in L
First(s, p, L) ==
    \A k \in 1..Len(s) : s[k] = DoneByte /\ (\A l \in 1..k-1 : s[l] # CodeByte) => p \in L

\* The pi holds the request of the laptop's program, unless it says otherwise.
Heard ==
    /\ First(up, prog, loaded)
    /\ pc \in {"code", "bytes"} /\ NoCode(up) => cksum = prog.crc

UpInv ==
    /\ up \in Seq(UpByte) /\ cksum \in Sendable
    /\ pc \in {"poll", "op", "addr", "nbytes", "cksum", "check"} =>
         up = <<>> \/ up[Len(up)] = InfoEnd
    /\ Starts(up) /\ Sums(up)
    /\ pc \in {"code", "bytes"} => Ends(up, cksum)

TrustInv ==
    ~stale => /\ Answers(up, loaded)
              /\ upc = "crc" /\ WordAt(up, 0, prog.crc) => Heard
              /\ upc = "success" => Heard
              /\ upc = "done" => prog \in loaded

----------------------------------------------------------------------------
(* Words in what the pi says                                               *)

\* A word is a pair, and only words from the pi have their tags.
LEMMA SendableTags ==
    ASSUME Distinct, NEW w \in Sendable
    PROVE  w = <<w[1], w[2]>> /\ w[1] \notin Told
<1>1. CASE w \in {PUT_PROG_INFO, PUT_CODE, <<"junk", 0>>}
  BY <1>1 DEF PUT_PROG_INFO, PUT_CODE, Told
<1>2. CASE \E p \in Program : w \in {Num(p.addr), Num(p.n), p.crc, <<"code", p.id>>}
  <2>1. PICK p \in Program : w \in {Num(p.addr), Num(p.n), p.crc, <<"code", p.id>>}
    BY <1>2
  <2>2. CASE w = Num(p.addr) \/ w = Num(p.n) \/ w = <<"code", p.id>>
    BY <2>2 DEF Num, Told
  <2>3. CASE w = p.crc
    BY <2>3, CrcAssumption DEF Distinct
  <2> QED BY <2>1, <2>2, <2>3
<1> QED BY <1>1, <1>2 DEF Sendable

\* The tags of single bytes.
LEMMA ByteTags ==
    /\ CodeByte[1] = "GET_CODE" /\ DoneByte[1] = "BOOT_SUCCESS" /\ InfoEnd[1] = "GET_PROG_INFO"
BY DEF CodeByte, DoneByte, InfoEnd

\* The bytes of a word that the pi says.
LEMMA SaidWord ==
    ASSUME NEW w \in UpWords
    PROVE  /\ Put32(w) \in Seq(UpByte) /\ Len(Put32(w)) = B
           /\ \A k \in 1..B : Put32(w)[k] = <<w[1], w[2], k - 1>> /\ Put32(w)[k][1] = w[1]
<1>1. \A k \in 1..B : k - 1 \in Nat
  BY Bounds
<1>2. \A k \in 1..B : <<w[1], w[2], k - 1>> \in UpByte
  BY <1>1 DEF UpByte
<1>3. [k \in 1..B |-> <<w[1], w[2], k - 1>>] \in [1..B -> UpByte]
  BY <1>2
<1>4. Put32(w) \in Seq(UpByte)
  BY <1>3, Bounds, SeqDef DEF Put32
<1>5. Len(Put32(w)) = B
  BY <1>4, LenProperties, Bounds DEF Put32
<1> QED BY <1>4, <1>5 DEF Put32

\* The word that comes first.
LEMMA WordFound ==
    ASSUME NEW S, NEW s \in Seq(S), Len(s) >= B, NEW a, NEW x, a # "junk", Word(s) = <<a, x>>
    PROVE  /\ WordAt(s, 0, <<a, x>>) /\ B \in 0..Len(s)
           /\ \A k \in 1..B : k \in 1..Len(s) /\ s[k] = <<a, x, k - 1>> /\ s[k][1] = a
<1>1. Len(s) \in Nat /\ B \in 0..Len(s) /\ \A k \in 1..B : k \in 1..Len(s) /\ 0 + k = k
  BY Bounds, LenProperties
<1>2. /\ \A k \in 1..B : s[k] = <<s[1][1], s[1][2], k - 1>>
      /\ <<s[1][1], s[1][2]>> = <<a, x>>
  BY DEF Word
<1>3. s[1][1] = a /\ s[1][2] = x
  BY <1>2
<1>4. \A k \in 1..B : s[k] = <<a, x, k - 1>>
  BY <1>2, <1>3
<1> QED BY <1>1, <1>4 DEF WordAt

\* A word is there once.
LEMMA SameWord ==
    ASSUME NEW s, NEW o, NEW v, NEW w, WordAt(s, o, v), WordAt(s, o, w),
           v = <<v[1], v[2]>>, w = <<w[1], w[2]>>
    PROVE  v = w
<1>1. 1 \in 1..B
  BY Bounds
<1>2. s[o + 1] = <<v[1], v[2], 1 - 1>> /\ s[o + 1] = <<w[1], w[2], 1 - 1>>
  BY <1>1 DEF WordAt
<1>3. v[1] = w[1] /\ v[2] = w[2]
  BY <1>2
<1> QED BY <1>3

\* t is what remains of s when m bytes before it and some behind it are gone.
Part(t, s, m) ==
    /\ t \in Seq(UpByte) /\ s \in Seq(UpByte) /\ m \in Nat /\ m + Len(t) <= Len(s)
    /\ \A k \in 1..Len(t) : t[k] = s[m + k]

LEMMA PartIn ==
    ASSUME NEW t, NEW s, NEW m, Part(t, s, m)
    PROVE  /\ Len(t) \in Nat /\ Len(s) \in Nat /\ m \in Nat
           /\ \A k \in 1..Len(t) : m + k \in 1..Len(s) /\ t[k] = s[m + k]
BY LenProperties DEF Part

LEMMA PartWord ==
    ASSUME NEW t, NEW s, NEW m, Part(t, s, m), NEW o \in Nat, NEW w, WordAt(t, o, w)
    PROVE  WordAt(s, m + o, w)
<1>1. /\ Len(t) \in Nat /\ Len(s) \in Nat /\ m \in Nat
      /\ \A k \in 1..Len(t) : m + k \in 1..Len(s) /\ t[k] = s[m + k]
  BY PartIn
<1> SUFFICES ASSUME NEW k \in 1..B
             PROVE  (m + o) + k \in 1..Len(s) /\ s[(m + o) + k] = <<w[1], w[2], k - 1>>
  BY DEF WordAt
<1>2. o + k \in 1..Len(t) /\ t[o + k] = <<w[1], w[2], k - 1>>
  BY DEF WordAt
<1>3. (m + o) + k = m + (o + k)
  BY <1>1, Bounds
<1> QED BY <1>1, <1>2, <1>3

LEMMA PartKeeps ==
    ASSUME NEW t, NEW s, NEW m, Part(t, s, m)
    PROVE  /\ Starts(s) => Starts(t)
           /\ Sums(s) => Sums(t)
           /\ \A L : Answers(s, L) => Answers(t, L)
<1>1. /\ Len(t) \in Nat /\ Len(s) \in Nat /\ m \in Nat
      /\ \A k \in 1..Len(t) : m + k \in 1..Len(s) /\ t[k] = s[m + k]
  BY PartIn
<1>2. ASSUME Starts(s), NEW j \in 2..Len(t), t[j] = CodeByte PROVE t[j - 1] = InfoEnd
  <2>1. /\ j \in 1..Len(t) /\ j - 1 \in 1..Len(t) /\ m + j \in 2..Len(s)
        /\ (m + j) - 1 = m + (j - 1)
    BY <1>1
  <2>2. s[m + j] = CodeByte
    BY <1>1, <1>2, <2>1
  <2>3. s[(m + j) - 1] = InfoEnd
    BY <1>2, <2>1, <2>2 DEF Starts
  <2> QED BY <1>1, <2>1, <2>3
<1>3. ASSUME Sums(s), NEW j \in 1..Len(t), NEW p \in Program, t[j] = <<p.crc[1], p.crc[2], 0>>,
             j > B
      PROVE  t[j - B] = CodeByte
  <2>1. /\ j - B \in 1..Len(t) /\ m + j \in 1..Len(s) /\ m + j > B
        /\ (m + j) - B = m + (j - B)
    BY <1>1, <1>3, Bounds
  <2>2. s[m + j] = <<p.crc[1], p.crc[2], 0>>
    BY <1>1, <1>3
  <2>3. s[(m + j) - B] = CodeByte
    BY <1>3, <2>1, <2>2 DEF Sums
  <2> QED BY <1>1, <2>1, <2>3
<1>4. ASSUME NEW L, Answers(s, L), NEW p \in Program, NEW j \in 1..Len(t), NEW k \in 1..Len(t),
             j < k, t[j] = CodeByte, t[k] = DoneByte, \A l \in j+1..k-1 : t[l] # CodeByte,
             WordAt(t, (j - 1) + B, p.crc)
      PROVE  p \in L
  <2>1. /\ m + j \in 1..Len(s) /\ m + k \in 1..Len(s) /\ m + j < m + k
        /\ s[m + j] = CodeByte /\ s[m + k] = DoneByte
    BY <1>1, <1>4
  <2>2. ASSUME NEW l \in (m + j)+1..(m + k)-1 PROVE s[l] # CodeByte
    <3>1. l - m \in j+1..k-1 /\ l - m \in 1..Len(t) /\ m + (l - m) = l
      BY <1>1
    <3> QED BY <1>1, <1>4, <3>1
  <2>3. WordAt(s, ((m + j) - 1) + B, p.crc)
    <3>1. (j - 1) + B \in Nat /\ m + ((j - 1) + B) = ((m + j) - 1) + B
      BY <1>1, Bounds
    <3> QED BY <1>4, <3>1, PartWord
  <2> QED BY <1>4, <2>1, <2>2, <2>3 DEF Answers
<1> QED BY <1>2, <1>3, <1>4 DEF Starts, Sums, Answers

\* Bytes are taken from the front, or lost at the end.
LEMMA DropIsPart ==
    ASSUME NEW s \in Seq(UpByte), NEW m \in 0..Len(s)
    PROVE  /\ Part(DropN(s, m), s, m) /\ Len(DropN(s, m)) = Len(s) - m /\ Len(s) \in Nat
           /\ DropN(s, m) \in Seq(UpByte)
<1>1. Len(s) \in Nat
  BY LenProperties
<1>2. /\ DropN(s, m) \in Seq(UpByte) /\ Len(DropN(s, m)) = Len(s) - m
      /\ \A k \in 1..Len(s) - m : DropN(s, m)[k] = s[m + k]
  BY Dropped
<1> QED BY <1>1, <1>2 DEF Part

LEMMA FrontIsPart ==
    ASSUME NEW s \in Seq(UpByte), NEW m \in 0..Len(s)
    PROVE  /\ Part(SubSeq(s, 1, m), s, 0) /\ Len(SubSeq(s, 1, m)) = m
           /\ SubSeq(s, 1, m) \in Seq(UpByte)
<1>1. Len(s) \in Nat /\ \A k \in 1..Len(s) : s[k] \in UpByte
  BY LenProperties, ElementOfSeq
<1>2. \A k \in 1..m : s[k] \in UpByte
  BY <1>1
<1>3. /\ SubSeq(s, 1, m) \in Seq(UpByte)
      /\ Len(SubSeq(s, 1, m)) = IF 1 <= m THEN m - 1 + 1 ELSE 0
      /\ \A k \in 1..m - 1 + 1 : SubSeq(s, 1, m)[k] = s[1 + k - 1]
  BY <1>1, <1>2, SubSeqProperties
<1>4. Len(SubSeq(s, 1, m)) = m
  BY <1>1, <1>3
<1>5. ASSUME NEW k \in 1..m PROVE k \in 1..m - 1 + 1 /\ 1 + k - 1 = k /\ 0 + k = k
  BY <1>1
<1> DEFINE r == SubSeq(s, 1, m)
<1>6. r \in Seq(UpByte) /\ Len(r) = m /\ \A k \in 1..m : r[k] = s[0 + k]
  BY <1>3, <1>4, <1>5
<1> HIDE DEF r
<1>7. Part(r, s, 0)
  BY <1>1, <1>6 DEF Part
<1> QED BY <1>6, <1>7 DEF r

\* The end stays the end, when bytes are taken from the front.
LEMMA DropEnds ==
    ASSUME NEW s \in Seq(UpByte), NEW m \in 0..Len(s), NEW c
    PROVE  /\ Ends(s, c) => Ends(DropN(s, m), c)
           /\ s = <<>> \/ s[Len(s)] = InfoEnd =>
                DropN(s, m) = <<>> \/ DropN(s, m)[Len(DropN(s, m))] = InfoEnd
<1> DEFINE t == DropN(s, m)
<1>1. /\ t \in Seq(UpByte) /\ Len(t) = Len(s) - m /\ Len(s) \in Nat
      /\ \A k \in 1..Len(s) - m : t[k] = s[m + k]
  BY Dropped
<1> HIDE DEF t
<1>2. ASSUME Ends(s, c), NEW d \in 0..2*B-1, d < Len(t)
      PROVE  t[Len(t) - d] = IF d < B THEN <<c[1], c[2], (B - 1) - d>>
                             ELSE <<"GET_CODE", 0, (2*B - 1) - d>>
  <2>1. /\ d \in Nat /\ d < Len(s) /\ Len(t) - d \in 1..Len(s) - m
        /\ m + (Len(t) - d) = Len(s) - d
    BY <1>1, <1>2, Bounds
  <2>2. t[Len(t) - d] = s[Len(s) - d]
    BY <1>1, <2>1
  <2> QED BY <1>2, <2>1, <2>2 DEF Ends
<1>3. ASSUME s = <<>> \/ s[Len(s)] = InfoEnd, t # <<>> PROVE t[Len(t)] = InfoEnd
  <2>1. Len(t) \in Nat \ {0}
    BY <1>1, <1>3, EmptySeq
  <2>2. Len(t) \in 1..Len(s) - m /\ m + Len(t) = Len(s) /\ s # <<>>
    BY <1>1, <2>1, EmptySeq
  <2> QED BY <1>1, <1>3, <2>2
<1> QED BY <1>2, <1>3 DEF Ends, t

\* What the pi says begins with an opcode; some of it holds neither a GET_CODE nor data.
Said(t) ==
    t \in Seq(UpByte) /\ Len(t) >= B /\ \A k \in 1..B : k \in 1..Len(t) /\ t[k][1] \in Told
Quiet(t) == Said(t) /\ \A k \in 1..Len(t) : t[k][1] \in Told \ {"GET_CODE"}

LEMMA SaidIn ==
    ASSUME NEW s \in Seq(UpByte), NEW t \in Seq(UpByte)
    PROVE  /\ s \o t \in Seq(UpByte) /\ Len(s) \in Nat /\ Len(t) \in Nat
           /\ Len(s \o t) = Len(s) + Len(t)
           /\ \A k \in 1..Len(s) : (s \o t)[k] = s[k] /\ k \in 1..Len(s \o t)
           /\ \A k \in 1..Len(t) : (s \o t)[Len(s) + k] = t[k] /\ Len(s) + k \in 1..Len(s \o t)
           /\ \A k \in 1..Len(s \o t) : k \in 1..Len(s) \/ (k - Len(s)) \in 1..Len(t)
<1>1. /\ Len(s) \in Nat /\ Len(t) \in Nat /\ Len(s \o t) = Len(s) + Len(t) /\ s \o t \in Seq(UpByte)
      /\ \A k \in 1..Len(s) + Len(t) : (s \o t)[k] = IF k <= Len(s) THEN s[k] ELSE t[k - Len(s)]
  BY ConcatProperties, LenProperties
<1>2. ASSUME NEW k \in 1..Len(s) PROVE (s \o t)[k] = s[k] /\ k \in 1..Len(s \o t)
  BY <1>1
<1>3. ASSUME NEW k \in 1..Len(t)
      PROVE  (s \o t)[Len(s) + k] = t[k] /\ Len(s) + k \in 1..Len(s \o t)
  <2>1. Len(s) + k \in 1..Len(s) + Len(t) /\ ~(Len(s) + k <= Len(s)) /\ (Len(s) + k) - Len(s) = k
    BY <1>1
  <2> QED BY <1>1, <2>1
<1>4. \A k \in 1..Len(s \o t) : k \in 1..Len(s) \/ (k - Len(s)) \in 1..Len(t)
  BY <1>1
<1> QED BY <1>1, <1>2, <1>3, <1>4

\* A checksum does not run on into what is said next.
LEMMA WordBefore ==
    ASSUME Distinct, NEW s \in Seq(UpByte), NEW t, Said(t), NEW o \in Nat, o < Len(s) + B,
           NEW p \in Program, WordAt(s \o t, o, p.crc)
    PROVE  WordAt(s, o, p.crc)
<1>1. t \in Seq(UpByte) /\ \A k \in 1..B : k \in 1..Len(t) /\ t[k][1] \in Told
  BY DEF Said
<1>2. /\ Len(s) \in Nat
      /\ \A k \in 1..Len(s) : (s \o t)[k] = s[k]
      /\ \A k \in 1..Len(t) : (s \o t)[Len(s) + k] = t[k]
  BY <1>1, SaidIn
<1>3. \A k \in 1..B : (s \o t)[o + k] = <<p.crc[1], p.crc[2], k - 1>>
  BY DEF WordAt
<1>4. ASSUME o + B > Len(s) PROVE FALSE
  <2>1. ASSUME NEW k \in 1..B, NEW l \in 1..B, o + k = Len(s) + l PROVE FALSE
    <3>1. (s \o t)[o + k] = t[l] /\ t[l][1] \in Told
      BY <1>1, <1>2, <2>1
    <3>2. t[l] = <<p.crc[1], p.crc[2], k - 1>>
      BY <1>3, <3>1
    <3>3. t[l][1] = p.crc[1]
      BY <3>2
    <3> QED BY <3>1, <3>3 DEF Distinct
  <2>2. CASE o >= Len(s)
    <3>1. 1 \in 1..B /\ (o - Len(s)) + 1 \in 1..B /\ o + 1 = Len(s) + ((o - Len(s)) + 1)
      BY <1>2, <2>2, Bounds
    <3> QED BY <2>1, <3>1
  <2>3. CASE ~(o >= Len(s))
    <3>1. 1 \in 1..B /\ (Len(s) - o) + 1 \in 1..B /\ o + ((Len(s) - o) + 1) = Len(s) + 1
      BY <1>2, <1>4, <2>3, Bounds
    <3> QED BY <2>1, <3>1
  <2> QED BY <2>2, <2>3
<1>5. ASSUME NEW k \in 1..B PROVE o + k \in 1..Len(s) /\ s[o + k] = <<p.crc[1], p.crc[2], k - 1>>
  <2>1. o + k \in 1..Len(s)
    BY <1>2, <1>4, Bounds
  <2> QED BY <1>2, <1>3, <2>1
<1> QED BY <1>5 DEF WordAt

\* What is said next keeps the order of words, and what was said before it.
LEMMA QuietKeeps ==
    ASSUME Distinct, NEW s \in Seq(UpByte), NEW t, Quiet(t), Starts(s), Sums(s)
    PROVE  Starts(s \o t) /\ Sums(s \o t)
<1> DEFINE c == s \o t
<1>1. t \in Seq(UpByte) /\ Said(t) /\ \A k \in 1..Len(t) : t[k][1] \in Told \ {"GET_CODE"}
  BY DEF Quiet, Said
<1>2. /\ Len(s) \in Nat /\ Len(t) \in Nat
      /\ \A k \in 1..Len(s) : c[k] = s[k]
      /\ \A k \in 1..Len(t) : c[Len(s) + k] = t[k]
      /\ \A k \in 1..Len(c) : k \in 1..Len(s) \/ (k - Len(s)) \in 1..Len(t)
  BY <1>1, SaidIn
<1>3. Len(c) \in Nat
  BY <1>1, SaidIn
<1> HIDE DEF c
<1>4. ASSUME NEW k \in 1..Len(c), c[k][1] \notin Told \ {"GET_CODE"} PROVE k \in 1..Len(s)
  <2>1. ASSUME (k - Len(s)) \in 1..Len(t) PROVE c[k][1] \in Told \ {"GET_CODE"}
    <3>1. Len(s) + (k - Len(s)) = k
      BY <1>2, <1>3
    <3>2. c[k] = t[k - Len(s)]
      BY <1>2, <2>1, <3>1
    <3> QED BY <1>1, <2>1, <3>2
  <2> QED BY <1>2, <1>4, <2>1
<1>5. ASSUME NEW j \in 2..Len(c), c[j] = CodeByte PROVE c[j - 1] = InfoEnd
  <2>1. j \in 1..Len(c)
    BY <1>3
  <2>2. j \in 1..Len(s)
    BY <1>4, <1>5, <2>1, ByteTags
  <2>3. j \in 2..Len(s) /\ j - 1 \in 1..Len(s)
    BY <1>2, <2>2
  <2> QED BY <1>2, <1>5, <2>2, <2>3 DEF Starts
<1>6. ASSUME NEW j \in 1..Len(c), NEW p \in Program, c[j] = <<p.crc[1], p.crc[2], 0>>, j > B
      PROVE  c[j - B] = CodeByte
  <2>1. c[j][1] \notin Told
    BY <1>6 DEF Distinct
  <2>2. j \in 1..Len(s)
    BY <1>4, <2>1
  <2>3. j - B \in 1..Len(s)
    BY <1>2, <1>6, <2>2, Bounds
  <2> QED BY <1>2, <1>6, <2>2, <2>3 DEF Sums
<1> QED BY <1>5, <1>6 DEF Starts, Sums, c

LEMMA SaidKeeps ==
    ASSUME Distinct, NEW s \in Seq(UpByte), NEW t, Said(t),
           \A k \in 1..Len(t) : t[k][1] # "BOOT_SUCCESS", NEW L
    PROVE  /\ Answers(s, L) => Answers(s \o t, L)
           /\ \A p : First(s, p, L) => First(s \o t, p, L)
<1> DEFINE c == s \o t
<1>1. t \in Seq(UpByte)
  BY DEF Said
<1>2. /\ Len(s) \in Nat /\ Len(t) \in Nat
      /\ \A k \in 1..Len(s) : c[k] = s[k]
      /\ \A k \in 1..Len(t) : c[Len(s) + k] = t[k]
      /\ \A k \in 1..Len(c) : k \in 1..Len(s) \/ (k - Len(s)) \in 1..Len(t)
      /\ Len(c) \in Nat
  BY <1>1, SaidIn
<1> HIDE DEF c
<1>3. ASSUME NEW k \in 1..Len(c), c[k] = DoneByte PROVE k \in 1..Len(s)
  <2>1. ASSUME (k - Len(s)) \in 1..Len(t) PROVE FALSE
    <3>1. Len(s) + (k - Len(s)) = k
      BY <1>2
    <3>2. t[k - Len(s)] = DoneByte
      BY <1>2, <1>3, <2>1, <3>1
    <3> QED BY <2>1, <3>2, ByteTags
  <2> QED BY <1>2, <2>1
<1>4. ASSUME Answers(s, L), NEW p \in Program, NEW j \in 1..Len(c), NEW k \in 1..Len(c),
             j < k, c[j] = CodeByte, c[k] = DoneByte, \A l \in j+1..k-1 : c[l] # CodeByte,
             WordAt(c, (j - 1) + B, p.crc)
      PROVE  p \in L
  <2>1. k \in 1..Len(s) /\ j \in 1..Len(s)
    <3>1. k \in 1..Len(s)
      BY <1>3, <1>4
    <3> QED BY <1>2, <1>4, <3>1
  <2>2. s[j] = CodeByte /\ s[k] = DoneByte
    BY <1>2, <1>4, <2>1
  <2>3. ASSUME NEW l \in j+1..k-1 PROVE s[l] # CodeByte
    <3>1. l \in 1..Len(s)
      BY <1>2, <2>1
    <3> QED BY <1>2, <1>4, <3>1
  <2>4. WordAt(s, (j - 1) + B, p.crc)
    <3>1. (j - 1) + B \in Nat /\ (j - 1) + B < Len(s) + B
      BY <1>2, <2>1, Bounds
    <3> QED BY <1>4, <3>1, WordBefore DEF c
  <2> QED BY <1>4, <2>1, <2>2, <2>3, <2>4 DEF Answers
<1>5. ASSUME NEW p, First(s, p, L), NEW k \in 1..Len(c), c[k] = DoneByte,
             \A l \in 1..k-1 : c[l] # CodeByte
      PROVE  p \in L
  <2>1. k \in 1..Len(s) /\ s[k] = DoneByte
    BY <1>2, <1>3, <1>5
  <2>2. ASSUME NEW l \in 1..k-1 PROVE s[l] # CodeByte
    <3>1. l \in 1..Len(s)
      BY <1>2, <2>1
    <3> QED BY <1>2, <1>5, <3>1
  <2> QED BY <1>5, <2>1, <2>2 DEF First
<1> QED BY <1>4, <1>5 DEF Answers, First, c

\* What the pi says.
Tagged(t, T) == t \in Seq(UpByte) /\ \A k \in 1..Len(t) : t[k][1] \in T

LEMMA TaggedConcat ==
    ASSUME NEW T, NEW s, NEW t, Tagged(s, T), Tagged(t, T)
    PROVE  Tagged(s \o t, T)
<1>1. s \in Seq(UpByte) /\ t \in Seq(UpByte)
  BY DEF Tagged
<1>2. /\ s \o t \in Seq(UpByte) /\ Len(s) \in Nat
      /\ \A k \in 1..Len(s) : (s \o t)[k] = s[k]
      /\ \A k \in 1..Len(t) : (s \o t)[Len(s) + k] = t[k]
      /\ \A k \in 1..Len(s \o t) : k \in 1..Len(s) \/ (k - Len(s)) \in 1..Len(t)
      /\ Len(s \o t) \in Nat
  BY <1>1, SaidIn, LenProperties
<1>3. ASSUME NEW k \in 1..Len(s \o t) PROVE (s \o t)[k][1] \in T
  <2>1. CASE k \in 1..Len(s)
    BY <1>2, <2>1 DEF Tagged
  <2>2. CASE (k - Len(s)) \in 1..Len(t)
    <3>1. Len(s) + (k - Len(s)) = k
      BY <1>2
    <3> QED BY <1>2, <2>2, <3>1 DEF Tagged
  <2> QED BY <1>2, <2>1, <2>2
<1> QED BY <1>2, <1>3 DEF Tagged

LEMMA SaidConcat ==
    ASSUME NEW s, NEW t, Said(s), t \in Seq(UpByte)
    PROVE  Said(s \o t)
<1>1. s \in Seq(UpByte) /\ Len(s) >= B /\ \A k \in 1..B : k \in 1..Len(s) /\ s[k][1] \in Told
  BY DEF Said
<1>2. /\ s \o t \in Seq(UpByte) /\ Len(s \o t) = Len(s) + Len(t) /\ Len(t) \in Nat /\ Len(s) \in Nat
      /\ \A k \in 1..Len(s) : (s \o t)[k] = s[k] /\ k \in 1..Len(s \o t)
  BY <1>1, SaidIn
<1>3. Len(s \o t) >= B
  BY <1>1, <1>2, Bounds
<1> QED BY <1>1, <1>2, <1>3 DEF Said

\* One word.
LEMMA WordTagged ==
    ASSUME NEW w \in UpWords, NEW T, w[1] \in T
    PROVE  /\ Tagged(Put32(w), T)
           /\ w[1] \in Told => Said(Put32(w))
<1>1. /\ Put32(w) \in Seq(UpByte) /\ Len(Put32(w)) = B
      /\ \A k \in 1..B : Put32(w)[k][1] = w[1]
  BY SaidWord
<1>2. B >= B
  BY Bounds
<1> QED BY <1>1, <1>2 DEF Tagged, Said

Quieter == Told \ {"GET_CODE", "BOOT_SUCCESS"}

\* GET_PROG_INFO; a message and BOOT_ERROR; a message and BOOT_SUCCESS.
LEMMA Sayings ==
    /\ Quiet(Put32(GET_PROG_INFO)) /\ Tagged(Put32(GET_PROG_INFO), Quieter)
    /\ Put32(GET_PROG_INFO)[Len(Put32(GET_PROG_INFO))] = InfoEnd /\ Len(Put32(GET_PROG_INFO)) = B
    /\ Putk \in Seq(UpByte)
    /\ Quiet(Putk \o Put32(BOOT_ERROR)) /\ Tagged(Putk \o Put32(BOOT_ERROR), Quieter)
    /\ Quiet(Putk \o Put32(BOOT_SUCCESS))
<1> DEFINE I == Put32(GET_PROG_INFO)
           P == Put32(PRINT_STRING)
           L == Put32(Strlen)
           C == <<<<"char", 0, 0>>>>
           E == Put32(BOOT_ERROR)
           D == Put32(BOOT_SUCCESS)
           Q == Told \ {"GET_CODE"}
<1>1. /\ GET_PROG_INFO \in UpWords /\ PRINT_STRING \in UpWords /\ Strlen \in UpWords
      /\ BOOT_ERROR \in UpWords /\ BOOT_SUCCESS \in UpWords /\ <<"char", 0>> \in UpWords
  BY DEF UpWords
<1>2. /\ GET_PROG_INFO[1] \in Quieter /\ PRINT_STRING[1] \in Quieter /\ Strlen[1] \in Quieter
      /\ BOOT_ERROR[1] \in Quieter /\ BOOT_SUCCESS[1] \in Q
      /\ GET_PROG_INFO[1] \in Told /\ PRINT_STRING[1] \in Told
  BY DEF Quieter, Told, GET_PROG_INFO, PRINT_STRING, Strlen, BOOT_ERROR, BOOT_SUCCESS
<1>3. ASSUME NEW t, Tagged(t, Quieter) PROVE Tagged(t, Q)
  BY <1>3 DEF Tagged, Quieter
<1>4. /\ Tagged(I, Quieter) /\ Said(I) /\ Tagged(P, Quieter) /\ Said(P) /\ Tagged(L, Quieter)
      /\ Tagged(E, Quieter) /\ Tagged(D, Q)
  BY <1>1, <1>2, WordTagged
<1>5. Tagged(C, Quieter)
  <2>1. <<"char", 0, 0>> \in UpByte
    <3>1. <<"char", 0, 0>> = <<<<"char", 0>>[1], <<"char", 0>>[2], 0>>
      OBVIOUS
    <3> QED BY <1>1, <3>1 DEF UpByte
  <2>2. C \in Seq(UpByte) /\ Len(C) = 1 /\ C[1] = <<"char", 0, 0>>
    BY <2>1
  <2>3. C[1][1] \in Quieter
    BY <2>2 DEF Quieter, Told
  <2> HIDE DEF C
  <2> QED BY <2>2, <2>3 DEF Tagged
<1>6. I[Len(I)] = InfoEnd /\ Len(I) = B
  <2>1. B \in 1..B
    BY Bounds
  <2>2. Len(I) = B /\ I[B] = <<GET_PROG_INFO[1], GET_PROG_INFO[2], B - 1>>
    BY <1>1, <2>1, SaidWord
  <2>3. GET_PROG_INFO[1] = "GET_PROG_INFO" /\ GET_PROG_INFO[2] = 0
    BY DEF GET_PROG_INFO
  <2> QED BY <2>2, <2>3 DEF InfoEnd
<1> HIDE DEF I, P, L, C, E, D, Q
<1>7. Said(P \o L) /\ Tagged(P \o L, Quieter)
  BY <1>4, SaidConcat, TaggedConcat DEF Tagged
<1> DEFINE M == P \o L
           K == M \o C
<1>8. Said(K) /\ Tagged(K, Quieter)
  <2>1. Said(M) /\ Tagged(M, Quieter)
    BY <1>7
  <2> HIDE DEF M
  <2> QED BY <1>5, <2>1, SaidConcat, TaggedConcat DEF Tagged
<1>9. K = Putk
  BY DEF P, L, C, Putk
<1> HIDE DEF M, K
<1>10. Said(K \o E) /\ Tagged(K \o E, Quieter)
  BY <1>4, <1>8, SaidConcat, TaggedConcat DEF Tagged
<1>11. Said(K \o D) /\ Tagged(K \o D, Q)
  BY <1>3, <1>4, <1>8, SaidConcat, TaggedConcat DEF Tagged
<1>12. Quiet(I) /\ Quiet(K \o E) /\ Quiet(K \o D)
  BY <1>3, <1>4, <1>10, <1>11 DEF Quiet, Tagged, Q
<1>13. K \in Seq(UpByte)
  BY <1>8 DEF Tagged
<1> QED BY <1>4, <1>6, <1>9, <1>10, <1>12, <1>13 DEF I, E, D

\* A GET_CODE and a checksum.
LEMMA CodeSaid ==
    ASSUME Distinct, NEW c \in Sendable
    PROVE  LET t == Put32(GET_CODE) \o Put32(c)
           IN  /\ Said(t) /\ Len(t) = 2*B
               /\ \A k \in 1..B : t[k] = <<"GET_CODE", 0, k - 1>>
               /\ \A k \in 1..B : t[B + k] = <<c[1], c[2], k - 1>>
               /\ \A k \in 1..Len(t) : t[k][1] # "BOOT_SUCCESS"
<1> DEFINE a == Put32(GET_CODE)
           b == Put32(c)
           t == a \o b
<1>1. GET_CODE \in UpWords /\ c \in UpWords
  BY DEF UpWords
<1>2. GET_CODE[1] = "GET_CODE" /\ GET_CODE[2] = 0 /\ GET_CODE[1] \in Told
  BY DEF GET_CODE, Told
<1>3. c[1] # "BOOT_SUCCESS"
  BY SendableTags DEF Told
<1>4. /\ a \in Seq(UpByte) /\ Len(a) = B /\ \A k \in 1..B : a[k] = <<"GET_CODE", 0, k - 1>>
      /\ b \in Seq(UpByte) /\ Len(b) = B /\ \A k \in 1..B : b[k] = <<c[1], c[2], k - 1>>
  BY <1>1, <1>2, SaidWord
<1>5. Said(a)
  BY <1>1, <1>2, WordTagged
<1> HIDE DEF a, b
<1>6. Said(t)
  BY <1>4, <1>5, SaidConcat
<1>7. /\ Len(t) = Len(a) + Len(b)
      /\ \A k \in 1..Len(a) : t[k] = a[k]
      /\ \A k \in 1..Len(b) : t[Len(a) + k] = b[k]
      /\ \A k \in 1..Len(t) : k \in 1..Len(a) \/ (k - Len(a)) \in 1..Len(b)
  BY <1>4, SaidIn
<1> HIDE DEF t
<1>8. Len(t) = 2*B
  BY <1>4, <1>7, Bounds
<1>9. ASSUME NEW k \in 1..Len(t) PROVE t[k][1] # "BOOT_SUCCESS"
  <2>1. CASE k \in 1..B
    <3>1. t[k] = <<"GET_CODE", 0, k - 1>>
      BY <1>4, <1>7, <2>1
    <3> QED BY <3>1
  <2>2. CASE (k - B) \in 1..B
    <3>1. B + (k - B) = k
      BY <1>8, Bounds
    <3>2. t[k] = b[k - B]
      BY <1>4, <1>7, <2>2, <3>1
    <3>3. t[k] = <<c[1], c[2], (k - B) - 1>>
      BY <1>4, <2>2, <3>2
    <3> QED BY <1>3, <3>3
  <2> QED BY <1>4, <1>7, <2>1, <2>2
<1> QED BY <1>4, <1>6, <1>7, <1>8, <1>9 DEF t, a, b

\* It comes after the GET_PROG_INFO that the laptop answered, and is what is said last.
LEMMA CodeKeeps ==
    ASSUME Distinct, NEW s \in Seq(UpByte), NEW c \in Sendable, Starts(s), Sums(s),
           s = <<>> \/ s[Len(s)] = InfoEnd
    PROVE  LET r == s \o (Put32(GET_CODE) \o Put32(c))
           IN  Starts(r) /\ Sums(r) /\ Ends(r, c) /\ ~NoCode(r)
<1> DEFINE t == Put32(GET_CODE) \o Put32(c)
           r == s \o t
<1>1. /\ Said(t) /\ Len(t) = 2*B
      /\ \A k \in 1..B : t[k] = <<"GET_CODE", 0, k - 1>>
      /\ \A k \in 1..B : t[B + k] = <<c[1], c[2], k - 1>>
  BY CodeSaid
<1>2. c = <<c[1], c[2]>> /\ c[1] \notin Told
  BY SendableTags
<1> HIDE DEF t
<1>3. /\ Len(s) \in Nat /\ Len(t) \in Nat /\ Len(r) = Len(s) + Len(t)
      /\ \A k \in 1..Len(s) : r[k] = s[k]
      /\ \A k \in 1..Len(t) : r[Len(s) + k] = t[k]
  BY <1>1, SaidIn DEF Said
<1> HIDE DEF r
<1>4. /\ \A k \in 1..B : r[Len(s) + k] = <<"GET_CODE", 0, k - 1>>
      /\ \A k \in 1..B : r[Len(s) + B + k] = <<c[1], c[2], k - 1>>
      /\ \A k \in 1..Len(r) :
           k \in 1..Len(s) \/ k - Len(s) \in 1..B \/ (k - Len(s)) - B \in 1..B
  <2>1. ASSUME NEW k \in 1..B
        PROVE  /\ r[Len(s) + k] = <<"GET_CODE", 0, k - 1>>
               /\ r[Len(s) + B + k] = <<c[1], c[2], k - 1>>
    <3>1. /\ k \in 1..Len(t) /\ B + k \in 1..Len(t)
          /\ Len(s) + B + k = Len(s) + (B + k)
      <4>1. Len(t) = 2*B /\ Len(s) \in Nat
        BY <1>1, <1>3
      <4> QED BY <4>1, Bounds
    <3>2. r[Len(s) + k] = t[k] /\ r[Len(s) + B + k] = t[B + k]
      BY <1>3, <3>1
    <3> QED BY <1>1, <3>2
  <2>2. ASSUME NEW k \in 1..Len(r)
        PROVE  k \in 1..Len(s) \/ k - Len(s) \in 1..B \/ (k - Len(s)) - B \in 1..B
    BY <1>1, <1>3, Bounds
  <2> QED BY <2>1, <2>2
<1>5. ASSUME NEW j \in 2..Len(r), r[j] = CodeByte PROVE r[j - 1] = InfoEnd
  <2>0. j \in 1..Len(r)
    BY <1>3
  <2>1. CASE j \in 1..Len(s)
    <3>1. j \in 2..Len(s) /\ j - 1 \in 1..Len(s)
      BY <1>3, <2>1
    <3> QED BY <1>3, <1>5, <3>1 DEF Starts
  <2>2. CASE j - Len(s) \in 1..B
    <3>1. Len(s) + (j - Len(s)) = j
      BY <1>3
    <3>2. r[j] = <<"GET_CODE", 0, (j - Len(s)) - 1>>
      BY <1>4, <2>2, <3>1
    <3>3. (j - Len(s)) - 1 = 0
      BY <1>5, <3>2 DEF CodeByte
    <3>4. j - 1 = Len(s) /\ Len(s) \in 1..Len(s) /\ s # <<>>
      BY <1>3, <3>3, EmptySeq
    <3> QED BY <1>3, <3>4
  <2>3. CASE (j - Len(s)) - B \in 1..B
    <3>1. Len(s) + B + ((j - Len(s)) - B) = j
      BY <1>3, Bounds
    <3>2. r[j] = <<c[1], c[2], ((j - Len(s)) - B) - 1>>
      BY <1>4, <2>3, <3>1
    <3>3. c[1] = "GET_CODE"
      BY <1>5, <3>2 DEF CodeByte
    <3> QED BY <1>2, <3>3 DEF Told
  <2> QED BY <1>4, <2>0, <2>1, <2>2, <2>3
<1>6. ASSUME NEW j \in 1..Len(r), NEW p \in Program, r[j] = <<p.crc[1], p.crc[2], 0>>, j > B
      PROVE  r[j - B] = CodeByte
  <2>1. CASE j \in 1..Len(s)
    <3>1. j - B \in 1..Len(s)
      BY <1>3, <1>6, <2>1, Bounds
    <3> QED BY <1>3, <1>6, <2>1, <3>1 DEF Sums
  <2>2. CASE j - Len(s) \in 1..B
    <3>1. Len(s) + (j - Len(s)) = j
      BY <1>3
    <3>2. r[j] = <<"GET_CODE", 0, (j - Len(s)) - 1>>
      BY <1>4, <2>2, <3>1
    <3>3. <<p.crc[1], p.crc[2], 0>> = <<"GET_CODE", 0, (j - Len(s)) - 1>>
      BY <1>6, <3>2
    <3>4. p.crc[1] = "GET_CODE"
      BY <3>3
    <3> QED BY <3>4 DEF Distinct, Told
  <2>3. CASE (j - Len(s)) - B \in 1..B
    <3>1. Len(s) + B + ((j - Len(s)) - B) = j
      BY <1>3, Bounds
    <3>2. r[j] = <<c[1], c[2], ((j - Len(s)) - B) - 1>>
      BY <1>4, <2>3, <3>1
    <3>3. ((j - Len(s)) - B) - 1 = 0
      <4>1. <<p.crc[1], p.crc[2], 0>> = <<c[1], c[2], ((j - Len(s)) - B) - 1>>
        BY <1>6, <3>2
      <4> QED BY <4>1
    <3>4. j - B = Len(s) + 1 /\ 1 \in 1..B /\ 1 - 1 = 0
      BY <1>3, <3>3, Bounds
    <3> QED BY <1>4, <3>4 DEF CodeByte
  <2> QED BY <1>4, <2>1, <2>2, <2>3
<1>7. ASSUME NEW d \in 0..2*B-1, d < Len(r)
      PROVE  r[Len(r) - d] = IF d < B THEN <<c[1], c[2], (B - 1) - d>>
                             ELSE <<"GET_CODE", 0, (2*B - 1) - d>>
  <2>1. CASE d < B
    <3>1. /\ B - d \in 1..B /\ Len(r) - d = Len(s) + B + (B - d) /\ (B - d) - 1 = (B - 1) - d
      BY <1>1, <1>3, <2>1, Bounds
    <3> QED BY <1>4, <2>1, <3>1
  <2>2. CASE ~(d < B)
    <3>1. /\ 2*B - d \in 1..B /\ Len(r) - d = Len(s) + (2*B - d) /\ (2*B - d) - 1 = (2*B - 1) - d
      BY <1>1, <1>3, <2>2, Bounds
    <3> QED BY <1>4, <2>2, <3>1
  <2> QED BY <2>1, <2>2
<1>8. ~NoCode(r)
  <2>1. 1 \in 1..B /\ 1 - 1 = 0 /\ Len(s) + 1 \in 1..Len(r)
    BY <1>1, <1>3, Bounds
  <2>2. r[Len(s) + 1] = CodeByte
    BY <1>4, <2>1 DEF CodeByte
  <2> QED BY <2>1, <2>2 DEF NoCode
<1> QED BY <1>5, <1>6, <1>7, <1>8 DEF Starts, Sums, Ends, r, t

\* The last GET_CODE is the one that s ends with.
LEMMA LastCode ==
    ASSUME NEW s \in Seq(UpByte), NEW c, Ends(s, c), c[1] # "GET_CODE",
           NEW j \in 1..Len(s), s[j] = CodeByte, \A l \in j+1..Len(s) : s[l] # CodeByte
    PROVE  WordAt(s, (j - 1) + B, c)
<1>1. Len(s) \in Nat /\ B \in Nat \ {0}
  BY Bounds, LenProperties
<1>2. \A d \in 0..2*B-1 : d < Len(s) =>
        s[Len(s) - d] = IF d < B THEN <<c[1], c[2], (B - 1) - d>>
                        ELSE <<"GET_CODE", 0, (2*B - 1) - d>>
  BY DEF Ends
<1>3. Len(s) - j = 2*B - 1
  <2> DEFINE e == Len(s) - j
  <2>1. e \in Nat /\ Len(s) - e = j /\ e < Len(s)
    BY <1>1
  <2>2. CASE e < B
    <3>1. e \in 0..2*B-1
      BY <1>1, <2>1, <2>2
    <3>2. s[j] = <<c[1], c[2], (B - 1) - e>>
      BY <1>2, <2>1, <2>2, <3>1
    <3>3. c[1] = "GET_CODE"
      BY <3>2 DEF CodeByte
    <3> QED BY <3>3
  <2>3. CASE e >= B /\ e <= 2*B - 1
    <3>1. e \in 0..2*B-1 /\ ~(e < B)
      BY <1>1, <2>1, <2>3
    <3>2. s[j] = <<"GET_CODE", 0, (2*B - 1) - e>>
      BY <1>2, <2>1, <3>1
    <3>3. (2*B - 1) - e = 0
      BY <3>2 DEF CodeByte
    <3> QED BY <1>1, <2>1, <3>3
  <2>4. CASE e > 2*B - 1
    <3>1. Len(s) - (2*B - 1) \in j+1..Len(s) /\ (2*B - 1) - (2*B - 1) = 0
      BY <1>1, <2>1, <2>4
    <3>2. s[Len(s) - (2*B - 1)] = CodeByte
      <4>1. 2*B - 1 \in 0..2*B-1 /\ 2*B - 1 < Len(s) /\ ~(2*B - 1 < B)
        BY <1>1, <2>1, <2>4
      <4>2. s[Len(s) - (2*B - 1)] = <<"GET_CODE", 0, (2*B - 1) - (2*B - 1)>>
        BY <1>2, <4>1
      <4> QED BY <3>1, <4>2 DEF CodeByte
    <3> QED BY <3>1, <3>2
  <2> QED BY <1>1, <2>1, <2>2, <2>3, <2>4
<1>4. ASSUME NEW k \in 1..B
      PROVE  ((j - 1) + B) + k \in 1..Len(s) /\ s[((j - 1) + B) + k] = <<c[1], c[2], k - 1>>
  <2>1. /\ B - k \in 0..2*B-1 /\ B - k < B /\ B - k < Len(s)
        /\ Len(s) - (B - k) = ((j - 1) + B) + k /\ (B - 1) - (B - k) = k - 1
        /\ ((j - 1) + B) + k \in 1..Len(s)
    BY <1>1, <1>3
  <2>2. s[Len(s) - (B - k)] = <<c[1], c[2], (B - 1) - (B - k)>>
    BY <1>2, <2>1
  <2> QED BY <2>1, <2>2
<1> QED BY <1>4 DEF WordAt

\* A BOOT_SUCCESS is about the programs with the checksum that was said last.
LEMMA DoneKeeps ==
    ASSUME Distinct, NEW s \in Seq(UpByte), NEW t, Quiet(t), NEW c \in Sendable, Ends(s, c),
           NEW L, NEW M, L \subseteq M, \A p \in Program : p.crc = c => p \in M
    PROVE  /\ Answers(s, L) => Answers(s \o t, M)
           /\ \A p \in Program :
                First(s, p, L) /\ (NoCode(s) => c = p.crc) => First(s \o t, p, M)
<1> DEFINE r == s \o t
<1>1. t \in Seq(UpByte) /\ Said(t) /\ \A k \in 1..Len(t) : t[k][1] # "GET_CODE"
  BY DEF Quiet, Said
<1>2. /\ Len(s) \in Nat /\ Len(t) \in Nat /\ Len(r) = Len(s) + Len(t)
      /\ \A k \in 1..Len(s) : r[k] = s[k]
      /\ \A k \in 1..Len(t) : r[Len(s) + k] = t[k]
      /\ \A k \in 1..Len(r) : k \in 1..Len(s) \/ (k - Len(s)) \in 1..Len(t)
  BY <1>1, SaidIn
<1>3. c = <<c[1], c[2]>> /\ c[1] # "GET_CODE"
  BY SendableTags DEF Told
<1> HIDE DEF r
<1>4. ASSUME Answers(s, L), NEW p \in Program, NEW j \in 1..Len(r), NEW k \in 1..Len(r),
             j < k, r[j] = CodeByte, r[k] = DoneByte, \A l \in j+1..k-1 : r[l] # CodeByte,
             WordAt(r, (j - 1) + B, p.crc)
      PROVE  p \in M
  <2>1. j \in 1..Len(s)
    <3>1. ASSUME (j - Len(s)) \in 1..Len(t) PROVE FALSE
      <4>1. Len(s) + (j - Len(s)) = j
        BY <1>2
      <4>2. t[j - Len(s)] = CodeByte
        BY <1>2, <1>4, <3>1, <4>1
      <4> QED BY <1>1, <3>1, <4>2, ByteTags
    <3> QED BY <1>2, <3>1
  <2>2. s[j] = CodeByte
    BY <1>2, <1>4, <2>1
  <2>3. WordAt(s, (j - 1) + B, p.crc)
    <3>1. (j - 1) + B \in Nat /\ (j - 1) + B < Len(s) + B
      BY <1>2, <2>1, Bounds
    <3> QED BY <1>1, <1>4, <3>1, WordBefore DEF r
  <2>4. CASE k \in 1..Len(s)
    <3>1. s[k] = DoneByte
      BY <1>2, <1>4, <2>4
    <3>2. ASSUME NEW l \in j+1..k-1 PROVE s[l] # CodeByte
      <4>1. l \in 1..Len(s)
        BY <1>2, <2>1, <2>4
      <4> QED BY <1>2, <1>4, <4>1
    <3>3. p \in L
      BY <1>4, <2>1, <2>2, <2>3, <2>4, <3>1, <3>2 DEF Answers
    <3> QED BY <3>3
  <2>5. CASE k \notin 1..Len(s)
    <3>1. ASSUME NEW l \in j+1..Len(s) PROVE s[l] # CodeByte
      <4>1. l \in 1..Len(s) /\ l \in j+1..k-1
        BY <1>2, <2>1, <2>5
      <4> QED BY <1>2, <1>4, <4>1
    <3>2. WordAt(s, (j - 1) + B, c)
      BY <1>3, <2>1, <2>2, <3>1, LastCode
    <3>3. p.crc = c
      <4>1. p.crc = <<p.crc[1], p.crc[2]>>
        BY CrcAssumption
      <4> QED BY <1>3, <2>3, <3>2, <4>1, SameWord
    <3> QED BY <3>3
  <2> QED BY <2>4, <2>5
<1>5. ASSUME NEW p \in Program, First(s, p, L), NoCode(s) => c = p.crc, NEW k \in 1..Len(r),
             r[k] = DoneByte, \A l \in 1..k-1 : r[l] # CodeByte
      PROVE  p \in M
  <2>1. CASE k \in 1..Len(s)
    <3>1. s[k] = DoneByte
      BY <1>2, <1>5, <2>1
    <3>2. ASSUME NEW l \in 1..k-1 PROVE s[l] # CodeByte
      <4>1. l \in 1..Len(s)
        BY <1>2, <2>1
      <4> QED BY <1>2, <1>5, <4>1
    <3> QED BY <1>5, <2>1, <3>1, <3>2 DEF First
  <2>2. CASE k \notin 1..Len(s)
    <3>1. ASSUME NEW l \in 1..Len(s) PROVE s[l] # CodeByte
      <4>1. l \in 1..k-1
        BY <1>2, <2>2
      <4> QED BY <1>2, <1>5, <4>1
    <3> QED BY <1>5, <3>1 DEF NoCode
  <2> QED BY <2>1, <2>2
<1> QED BY <1>4, <1>5 DEF Answers, First, r

----------------------------------------------------------------------------
(* The steps                                                               *)

Asking == {"poll", "op", "addr", "nbytes", "cksum", "check"}

\* The pi says nothing.
LEMMA SilentTrust ==
    ASSUME UpInv, TrustInv, UNCHANGED <<up, upc, prog, stale, loaded>>, cksum' \in Sendable,
           pc' \in Asking => pc \in Asking,
           pc' \in {"code", "bytes"} => pc \in {"code", "bytes"} /\ cksum' = cksum
    PROVE  UpInv' /\ TrustInv'
<1>1. UpInv'
  BY DEF UpInv, Asking
<1>2. Heard => Heard'
  BY DEF Heard
<1>3. TrustInv'
  BY <1>2 DEF TrustInv
<1> QED BY <1>1, <1>3

\* The pi says that it has no program, or that it lost one.
LEMMA QuietTrust ==
    ASSUME Distinct, UpInv, TrustInv, UnixInv, UNCHANGED <<upc, prog, stale, loaded>>,
           cksum' \in Sendable, NEW t, Quiet(t), Tagged(t, Quieter), up' = up \o t,
           pc' = "wait" \/ (pc' = "poll" /\ t[Len(t)] = InfoEnd)
    PROVE  UpInv' /\ TrustInv'
<1>1. t \in Seq(UpByte) /\ Said(t) /\ \A k \in 1..Len(t) : t[k][1] # "BOOT_SUCCESS"
  BY DEF Quiet, Said, Tagged, Quieter
<1>2. /\ up \in Seq(UpByte) /\ up' \in Seq(UpByte)
      /\ \A k \in 1..Len(t) : (up \o t)[Len(up) + k] = t[k]
      /\ Len(up') = Len(up) + Len(t)
  BY <1>1, SaidIn DEF UpInv
<1>3. pc' = "poll" => up'[Len(up')] = InfoEnd
  <2>1. Len(t) \in 1..Len(t)
    <3>1. Len(t) \in Nat /\ Len(t) >= B
      BY <1>1, LenProperties DEF Said
    <3> QED BY <3>1, Bounds
  <2> QED BY <1>2, <2>1
<1>4. Starts(up') /\ Sums(up')
  BY <1>2, QuietKeeps DEF UpInv
<1>5. UpInv'
  BY <1>2, <1>3, <1>4 DEF UpInv
<1>6. /\ Answers(up, loaded) => Answers(up', loaded)
      /\ First(up, prog, loaded) => First(up', prog, loaded)
  BY <1>1, <1>2, SaidKeeps
<1>7. Heard => Heard'
  BY <1>6 DEF Heard
<1>8. WordAt(up', 0, prog.crc) => WordAt(up, 0, prog.crc)
  <2>1. 0 \in Nat /\ Len(up) \in Nat /\ 0 < Len(up) + B /\ prog \in Program
    BY <1>2, Bounds, LenProperties DEF UnixInv
  <2> QED BY <1>1, <1>2, <2>1, WordBefore
<1>9. TrustInv'
  BY <1>6, <1>7, <1>8 DEF TrustInv
<1> QED BY <1>5, <1>9

\* The pi asks for the code.
LEMMA CheckTrust ==
    ASSUME Distinct, UpInv, TrustInv, UnixInv, UNCHANGED <<upc, prog, stale, loaded, cksum>>,
           pc = "check", pc' = "code", up' = up \o Put32(GET_CODE) \o Put32(cksum)
    PROVE  UpInv' /\ TrustInv'
<1> DEFINE a == Put32(GET_CODE)
           b == Put32(cksum)
           t == a \o b
<1>1. up \in Seq(UpByte) /\ cksum \in Sendable
  BY DEF UpInv
<1>2. /\ Said(t) /\ t \in Seq(UpByte) /\ \A k \in 1..Len(t) : t[k][1] # "BOOT_SUCCESS"
  <2>1. Said(t) /\ \A k \in 1..Len(t) : t[k][1] # "BOOT_SUCCESS"
    BY <1>1, CodeSaid
  <2> HIDE DEF t
  <2> QED BY <2>1 DEF Said
<1>3. up' = up \o t
  <2>1. a \in Seq(UpByte) /\ b \in Seq(UpByte)
    <3>1. GET_CODE \in UpWords /\ cksum \in UpWords
      BY <1>1 DEF UpWords
    <3> QED BY <3>1, SaidWord
  <2>2. up' = (up \o a) \o b
    OBVIOUS
  <2> HIDE DEF a, b
  <2> QED BY <1>1, <2>1, <2>2, ConcatAssociative
<1>4. Starts(up') /\ Sums(up') /\ Ends(up', cksum) /\ ~NoCode(up')
  <2>1. /\ Starts(up) /\ Sums(up)
        /\ up = <<>> \/ up[Len(up)] = InfoEnd
    BY DEF UpInv
  <2> QED BY <1>1, <1>3, <2>1, CodeKeeps
<1> HIDE DEF t
<1>5. up' \in Seq(UpByte)
  BY <1>1, <1>2, <1>3, SaidIn
<1>6. UpInv'
  BY <1>1, <1>4, <1>5 DEF UpInv
<1>7. /\ Answers(up, loaded) => Answers(up', loaded)
      /\ First(up, prog, loaded) => First(up', prog, loaded)
  BY <1>1, <1>2, <1>3, SaidKeeps
<1>8. Heard => Heard'
  BY <1>4, <1>7 DEF Heard
<1>9. WordAt(up', 0, prog.crc) => WordAt(up, 0, prog.crc)
  <2>1. 0 \in Nat /\ Len(up) \in Nat /\ 0 < Len(up) + B /\ prog \in Program
    BY <1>1, Bounds, LenProperties DEF UnixInv
  <2> QED BY <1>1, <1>2, <1>3, <2>1, WordBefore
<1>10. TrustInv'
  BY <1>7, <1>8, <1>9 DEF TrustInv
<1> QED BY <1>6, <1>10

\* The pi says that it has the program, and it has.
LEMMA FinishTrust ==
    ASSUME Distinct, BootInv, LoadInv, UpInv, TrustInv, PiFinish, CrcMatches
    PROVE  UpInv' /\ TrustInv'
<1> DEFINE t == Putk \o Put32(BOOT_SUCCESS)
<1>1. /\ pc = "bytes" /\ up' = up \o Putk \o Put32(BOOT_SUCCESS)
      /\ loaded' = loaded \cup {p \in Program : p.n = nbytes /\ Holds(addr, p)}
      /\ UNCHANGED <<upc, prog, stale>>
      /\ pc' \in {"wait", "running"} /\ (cksum' = cksum \/ cksum' = <<"junk", 0>>)
  BY DEF PiFinish, Reboot, uvars
<1>2. /\ up \in Seq(UpByte) /\ cksum \in Sendable /\ cksum' \in Sendable /\ Ends(up, cksum)
      /\ Starts(up) /\ Sums(up)
  BY <1>1, SendableWords DEF UpInv
<1>3. Quiet(t) /\ Said(t) /\ t \in Seq(UpByte)
  BY Sayings DEF Quiet, Said
<1>4. up' = up \o t
  <2>1. BOOT_SUCCESS \in UpWords
    BY DEF UpWords
  <2>2. Putk \in Seq(UpByte) /\ Put32(BOOT_SUCCESS) \in Seq(UpByte)
    BY <2>1, Sayings, SaidWord
  <2> QED BY <1>1, <1>2, <2>2, ConcatAssociative
<1> HIDE DEF t
<1>5. Starts(up') /\ Sums(up') /\ up' \in Seq(UpByte)
  BY <1>2, <1>3, <1>4, QuietKeeps, SaidIn
<1>6. UpInv'
  BY <1>1, <1>2, <1>5 DEF UpInv
<1>7. ASSUME NEW p \in Program, p.crc = cksum PROVE p \in loaded'
  <2>1. Crc(addr, nbytes) = cksum /\ cksum # <<"bad crc", 0>>
    BY <1>1 DEF CrcMatches, LoadInv
  <2>2. \E q \in Program : q.n = nbytes /\ Holds(addr, q)
    BY <2>1 DEF Crc
  <2>3. PICK q \in Program : q.n = nbytes /\ Holds(addr, q) /\ q.crc = cksum
    <3> DEFINE x == CHOOSE q \in Program : q.n = nbytes /\ Holds(addr, q)
    <3>1. x \in Program /\ x.n = nbytes /\ Holds(addr, x)
      BY <2>2
    <3>2. x.crc = cksum
      BY <2>1, <2>2 DEF Crc
    <3> HIDE DEF x
    <3> QED BY <3>1, <3>2
  <2>4. p.id = q.id /\ p.n = q.n
    BY <1>7, <2>3, CrcAssumption
  <2>5. Code(p) = Code(q)
    BY <2>4 DEF Code
  <2>6. Holds(addr, p) /\ p.n = nbytes
    BY <2>3, <2>4, <2>5 DEF Holds
  <2> QED BY <1>1, <2>6
<1>8. loaded \subseteq loaded'
  BY <1>1
<1>9. prog \in Program
  BY DEF BootInv, UnixInv
<1>10. /\ Answers(up, loaded) => Answers(up', loaded')
       /\ First(up, prog, loaded) /\ (NoCode(up) => cksum = prog.crc) => First(up', prog, loaded')
  BY <1>2, <1>3, <1>4, <1>7, <1>8, <1>9, DoneKeeps
<1>11. Heard => Heard'
  BY <1>1, <1>10 DEF Heard
<1>12. WordAt(up', 0, prog.crc) => WordAt(up, 0, prog.crc)
  <2>1. 0 \in Nat /\ Len(up) \in Nat /\ 0 < Len(up) + B
    BY <1>2, Bounds, LenProperties
  <2> QED BY <1>2, <1>3, <1>4, <1>9, <2>1, WordBefore
<1>13. TrustInv'
  BY <1>1, <1>8, <1>10, <1>11, <1>12 DEF TrustInv
<1> QED BY <1>6, <1>13

\* A word that arrives is one that was sent, or junk.
LEMMA WordSendable ==
    ASSUME Distinct, NEW s \in Seq(OnLine), Len(s) >= B
    PROVE  Word(s) \in Sendable
<1>1. 1 \in 1..Len(s)
  BY Bounds, LenProperties
<1>2. s[1] \in OnLine
  BY <1>1, ElementOfSeq
<1>3. PICK w \in Sendable, j \in Nat : s[1] = <<w[1], w[2], j>>
  BY <1>2 DEF OnLine
<1>4. Word(s) = <<w[1], w[2]>> \/ Word(s) = <<"junk", 0>>
  BY <1>3 DEF Word
<1>5. w = <<w[1], w[2]>>
  BY SendableTags
<1> QED BY <1>4, <1>5, SendableWords

\* The steps of the pi.
LEMMA PiTrust ==
    ASSUME Distinct, BootInv, LoadInv, UpInv, TrustInv, Pi
    PROVE  UpInv' /\ TrustInv'
<1>0. /\ UnixInv /\ up \in Seq(UpByte) /\ cksum \in Sendable /\ rx \in Seq(OnLine)
      /\ <<"junk", 0>> \in Sendable
  BY SendableWords DEF BootInv, UpInv, LineInv
<1>1. CASE PiAnnounce
  <2>1. /\ up' = up \o Put32(GET_PROG_INFO) /\ pc' = "poll"
        /\ UNCHANGED <<cksum, upc, prog, stale, loaded>>
    BY <1>1 DEF PiAnnounce, PiUnchanged, uvars
  <2> QED BY <1>0, <2>1, Sayings, QuietTrust
<1>2. CASE PiTimeout \/ PiHasData
  <2>1. /\ UNCHANGED <<up, cksum, upc, prog, stale, loaded>> /\ pc \in Asking
        /\ pc' \in {"wait", "op"}
    BY <1>2 DEF PiTimeout, PiHasData, PiUnchanged, uvars, line, Asking
  <2> QED BY <1>0, <2>1, SilentTrust
<1>3. ASSUME boot_err, PiUnchanged PROVE UpInv' /\ TrustInv'
  <2>1. /\ up' = up \o Putk \o Put32(BOOT_ERROR) /\ pc' = "wait" /\ cksum' = <<"junk", 0>>
        /\ UNCHANGED <<upc, prog, stale, loaded>>
    BY <1>3 DEF boot_err, Reboot, PiUnchanged, uvars
  <2>2. up' = up \o (Putk \o Put32(BOOT_ERROR))
    <3>1. BOOT_ERROR \in UpWords
      BY DEF UpWords
    <3>2. Putk \in Seq(UpByte) /\ Put32(BOOT_ERROR) \in Seq(UpByte)
      BY <3>1, Sayings, SaidWord
    <3> QED BY <1>0, <2>1, <3>2, ConcatAssociative
  <2> QED BY <1>0, <2>1, <2>2, Sayings, QuietTrust
<1>4. CASE PiOp
  <2>1. CASE Word(rx) = PUT_PROG_INFO
    <3>1. /\ UNCHANGED <<up, cksum, upc, prog, stale, loaded>> /\ pc = "op" /\ pc' = "addr"
      BY <1>4, <2>1 DEF PiOp, PiUnchanged, uvars
    <3> QED BY <1>0, <3>1, SilentTrust DEF Asking
  <2> QED BY <1>3, <1>4, <2>1 DEF PiOp
<1>5. CASE PiHeader
  <2>1. /\ UNCHANGED <<up, upc, prog, stale, loaded>> /\ Len(rx) >= B
        /\ cksum' = cksum \/ cksum' = Word(rx)
        /\ pc \in {"addr", "nbytes", "cksum"} /\ pc' \in {"nbytes", "cksum", "check"}
    BY <1>5 DEF PiHeader, PiUnchanged, uvars
  <2>2. cksum' \in Sendable
    BY <1>0, <2>1, WordSendable
  <2> QED BY <2>1, <2>2, SilentTrust DEF Asking
<1>6. CASE PiCheck
  <2>1. CASE Collides(addr, nbytes)
    BY <1>3, <1>6, <2>1 DEF PiCheck
  <2>2. CASE ~Collides(addr, nbytes)
    <3>1. /\ up' = up \o Put32(GET_CODE) \o Put32(cksum) /\ pc = "check" /\ pc' = "code"
          /\ UNCHANGED <<cksum, upc, prog, stale, loaded>>
      BY <1>6, <2>2 DEF PiCheck, PiUnchanged, uvars
    <3> QED BY <1>0, <3>1, CheckTrust
  <2> QED BY <2>1, <2>2
<1>7. CASE PiPutCode
  <2>1. CASE Word(rx) = PUT_CODE
    <3>1. /\ UNCHANGED <<up, cksum, upc, prog, stale, loaded>> /\ pc = "code" /\ pc' = "bytes"
      BY <1>7, <2>1 DEF PiPutCode, PiUnchanged, uvars
    <3> QED BY <1>0, <3>1, SilentTrust DEF Asking
  <2> QED BY <1>3, <1>7, <2>1 DEF PiPutCode
<1>8. CASE PiByte
  <2>1. /\ UNCHANGED <<pc, up, cksum, upc, prog, stale, loaded>>
    BY <1>8 DEF PiByte, PiUnchanged, uvars
  <2> QED BY <1>0, <2>1, SilentTrust
<1>9. CASE PiFinish
  <2>1. CASE CrcMatches
    BY <1>9, <2>1, FinishTrust
  <2>2. CASE ~CrcMatches
    BY <1>3, <1>9, <2>2 DEF PiFinish, PiUnchanged
  <2> QED BY <2>1, <2>2
<1> QED BY <1>1, <1>2, <1>4, <1>5, <1>6, <1>7, <1>8, <1>9 DEF Pi

\* The laptop takes bytes from the front.
LEMMA DropTrust ==
    ASSUME UpInv, TrustInv, NEW m \in 0..Len(up), up' = DropN(up, m),
           UNCHANGED <<pc, cksum, prog, stale, loaded>>
    PROVE  /\ UpInv' /\ Part(up', up, m) /\ Len(up') = Len(up) - m
           /\ ~stale => Answers(up', loaded')
           /\ upc' \in {"sync", "drain", "echo", "failed"} => TrustInv'
<1>1. up \in Seq(UpByte)
  BY DEF UpInv
<1>2. Part(up', up, m) /\ up' \in Seq(UpByte) /\ Len(up') = Len(up) - m
  BY <1>1, DropIsPart
<1>3. /\ Starts(up) => Starts(up')
      /\ Sums(up) => Sums(up')
      /\ Answers(up, loaded) => Answers(up', loaded)
  BY <1>2, PartKeeps
<1>4. /\ Ends(up, cksum) => Ends(up', cksum)
      /\ up = <<>> \/ up[Len(up)] = InfoEnd => up' = <<>> \/ up'[Len(up')] = InfoEnd
  BY <1>1, DropEnds
<1>5. UpInv'
  BY <1>2, <1>3, <1>4 DEF UpInv
<1>6. ~stale => Answers(up', loaded')
  BY <1>3 DEF TrustInv
<1>7. upc' \in {"sync", "drain", "echo", "failed"} => TrustInv'
  BY <1>6 DEF TrustInv
<1> QED BY <1>2, <1>5, <1>6, <1>7

\* It goes on to trust the pi, when no GET_CODE was among them.
LEMMA DropHeard ==
    ASSUME UpInv, Heard, NEW m \in 0..Len(up), up' = DropN(up, m),
           \A l \in 1..m : up[l] # CodeByte, UNCHANGED <<pc, cksum, prog, loaded>>
    PROVE  Heard'
<1>1. up \in Seq(UpByte)
  BY DEF UpInv
<1>2. Part(up', up, m) /\ Len(up') = Len(up) - m /\ Len(up) \in Nat
  BY <1>1, DropIsPart
<1>3. \A k \in 1..Len(up') : m + k \in 1..Len(up) /\ up'[k] = up[m + k]
  BY <1>2, PartIn
<1>4. ASSUME NEW k \in 1..Len(up'), up'[k] = DoneByte, \A l \in 1..k-1 : up'[l] # CodeByte
      PROVE  prog \in loaded
  <2>1. m + k \in 1..Len(up) /\ up[m + k] = DoneByte
    BY <1>3, <1>4
  <2>2. ASSUME NEW l \in 1..(m + k)-1 PROVE up[l] # CodeByte
    <3>1. CASE l <= m
      <4>1. l \in 1..m
        BY <1>2, <3>1
      <4> QED BY <4>1
    <3>2. CASE ~(l <= m)
      <4>1. l - m \in 1..k-1 /\ l - m \in 1..Len(up') /\ m + (l - m) = l
        BY <1>2, <3>2
      <4> QED BY <1>3, <1>4, <4>1
    <3> QED BY <3>1, <3>2
  <2> QED BY <2>1, <2>2 DEF Heard, First
<1>5. ASSUME NoCode(up') PROVE NoCode(up)
  <2> SUFFICES ASSUME NEW l \in 1..Len(up) PROVE up[l] # CodeByte
    BY DEF NoCode
  <2>1. CASE l <= m
    <3>1. l \in 1..m
      BY <1>2, <2>1
    <3> QED BY <3>1
  <2>2. CASE ~(l <= m)
    <3>1. l - m \in 1..Len(up') /\ m + (l - m) = l
      BY <1>2, <2>2
    <3> QED BY <1>3, <1>5, <3>1 DEF NoCode
  <2> QED BY <2>1, <2>2
<1> QED BY <1>4, <1>5 DEF Heard, First

\* A message is swallowed whole: no GET_CODE begins in it, and no checksum follows it.
LEMMA PrintTrust ==
    ASSUME Distinct, UpInv, TrustInv, UnixInv, UnixPrint
    PROVE  UpInv' /\ TrustInv'
<1>1. /\ upc \in Reading /\ Len(up) >= 2 * B /\ Word(up) = PRINT_STRING
      /\ UNCHANGED <<pc, cksum, prog, stale, loaded>>
  BY DEF UnixPrint, UnixUnchanged, pivars
<1>2. up \in Seq(UpByte) /\ Len(up) \in Nat /\ B \in Nat \ {0} /\ prog \in Program
  BY Bounds, LenProperties DEF UpInv, UnixInv
<1>3. CASE Word(DropN(up, B)) # Strlen
  <2>1. 2 * B \in 0..Len(up) /\ up' = DropN(up, 2 * B) /\ upc' = "failed"
    BY <1>1, <1>2, <1>3 DEF UnixPrint
  <2> QED BY <1>1, <2>1, DropTrust
<1>4. CASE Word(DropN(up, B)) = Strlen
  <2> DEFINE m == 2 * B + 1
  <2>1. m \in 0..Len(up) /\ up' = DropN(up, m) /\ upc' = upc
    BY <1>1, <1>2, <1>4 DEF UnixPrint
  <2>2. \A k \in 1..B : k \in 1..Len(up) /\ up[k][1] = "PRINT_STRING"
    <3>1. Len(up) >= B /\ Word(up) = <<"PRINT_STRING", 0>>
      BY <1>1, <1>2 DEF PRINT_STRING
    <3> QED BY <1>2, <3>1, WordFound
  <2>3. \A k \in 1..B : B + k \in 1..Len(up) /\ up[B + k][1] = "strlen"
    <3> DEFINE s == DropN(up, B)
    <3>1. B \in 0..Len(up) /\ Len(up) - B >= B
      BY <1>1, <1>2
    <3>2. s \in Seq(UpByte) /\ Len(s) = Len(up) - B /\ \A k \in 1..Len(up) - B : s[k] = up[B + k]
      BY <1>2, <3>1, Dropped
    <3>3. Word(s) = <<"strlen", 0>>
      BY <1>4 DEF Strlen
    <3> HIDE DEF s
    <3>4. \A k \in 1..B : k \in 1..Len(s) /\ s[k][1] = "strlen"
      <4>1. s \in Seq(UpByte) /\ Len(s) >= B
        BY <3>1, <3>2
      <4> QED BY <3>3, <4>1, WordFound
    <3>5. ASSUME NEW k \in 1..B PROVE B + k \in 1..Len(up) /\ up[B + k][1] = "strlen"
      <4>1. k \in 1..Len(up) - B /\ B + k \in 1..Len(up)
        BY <1>2, <3>1
      <4> QED BY <3>2, <3>4, <4>1
    <3> QED BY <3>5
  <2>4. ASSUME NEW l \in 1..2*B PROVE up[l][1] \in {"PRINT_STRING", "strlen"}
    <3>1. l \in 1..B \/ (l - B \in 1..B /\ B + (l - B) = l)
      BY <1>2
    <3> QED BY <2>2, <2>3, <3>1
  <2>5. ASSUME NEW l \in 2..2*B+1, l \in 1..Len(up), up[l] = CodeByte PROVE FALSE
    <3>1. l \in 2..Len(up) /\ l - 1 \in 1..2*B
      BY <1>2, <2>5
    <3>2. up[l - 1] = InfoEnd
      BY <2>5, <3>1 DEF UpInv, Starts
    <3>3. up[l - 1][1] \in {"PRINT_STRING", "strlen"}
      BY <2>4, <3>1
    <3> QED BY <3>2, <3>3, ByteTags
  <2>6. ASSUME NEW l \in 1..m PROVE up[l] # CodeByte
    <3>1. CASE l = 1
      <4>1. 1 \in 1..2*B
        BY <1>2
      <4>2. up[l][1] \in {"PRINT_STRING", "strlen"}
        BY <2>4, <3>1, <4>1
      <4> QED BY <4>2, ByteTags
    <3>2. CASE l # 1
      <4>1. l \in 2..2*B+1 /\ l \in 1..Len(up)
        BY <1>2, <2>1, <3>2
      <4> QED BY <2>5, <4>1
    <3> QED BY <3>1, <3>2
  <2> HIDE DEF m
  <2>7. /\ UpInv' /\ Part(up', up, m) /\ Len(up') = Len(up) - m
        /\ ~stale => Answers(up', loaded')
    BY <1>1, <2>1, DropTrust
  <2>8. Heard => Heard'
    BY <1>1, <2>1, <2>6, DropHeard
  <2>9. ~WordAt(up', 0, prog.crc)
    <3> SUFFICES ASSUME WordAt(up', 0, prog.crc) PROVE FALSE
      OBVIOUS
    <3>1. 0 \in Nat /\ m + 0 = m /\ m \in Nat
      BY <1>2 DEF m
    <3>2. WordAt(up, m, prog.crc)
      BY <2>7, <3>1, PartWord
    <3>3. 1 \in 1..B /\ 1 - 1 = 0 /\ m + 1 > B /\ (m + 1) - B = B + 2
      BY <1>2 DEF m
    <3>4. m + 1 \in 1..Len(up) /\ up[m + 1] = <<prog.crc[1], prog.crc[2], 0>>
      BY <3>2, <3>3 DEF WordAt
    <3>5. up[B + 2] = CodeByte
      BY <1>2, <3>3, <3>4 DEF UpInv, Sums
    <3>6. B + 2 \in 2..2*B+1 /\ B + 2 \in 1..Len(up)
      BY <1>2, <2>1 DEF m
    <3> QED BY <2>5, <3>5, <3>6
  <2>10. TrustInv'
    BY <1>1, <2>1, <2>7, <2>8, <2>9 DEF TrustInv, Reading
  <2> QED BY <2>7, <2>10
<1> QED BY <1>3, <1>4

\* The checksum behind GET_CODE is the one that the pi holds.
LEMMA DrainTrust ==
    ASSUME Distinct, UpInv, TrustInv, UnixInv, Op(GET_CODE), up' = DropN(up, B), upc' = "crc",
           UNCHANGED <<pc, cksum, prog, stale, loaded>>
    PROVE  UpInv' /\ TrustInv'
<1>1. up \in Seq(UpByte) /\ Len(up) \in Nat /\ B \in Nat \ {0} /\ prog \in Program
  BY Bounds, LenProperties DEF UpInv, UnixInv
<1>2. B \in 0..Len(up) /\ \A k \in 1..B : up[k] = <<"GET_CODE", 0, k - 1>>
  <2>1. Len(up) >= B /\ Word(up) = <<"GET_CODE", 0>>
    BY DEF Op, GET_CODE
  <2> QED BY <1>1, <2>1, WordFound
<1>3. /\ UpInv' /\ Part(up', up, B) /\ Len(up') = Len(up) - B
      /\ ~stale => Answers(up', loaded')
  BY <1>2, DropTrust
<1>4. \A k \in 1..Len(up') : B + k \in 1..Len(up) /\ up'[k] = up[B + k]
  BY <1>3, PartIn
<1>5. 1 \in 1..Len(up) /\ up[1] = CodeByte /\ (1 - 1) + B = B /\ B + 0 = B
  <2>1. 1 \in 1..B /\ 1 - 1 = 0
    BY <1>1
  <2>2. up[1] = <<"GET_CODE", 0, 1 - 1>>
    BY <1>2, <2>1
  <2>3. 1 \in 1..Len(up)
    BY <1>1, <1>2
  <2> QED BY <1>1, <2>1, <2>2, <2>3 DEF CodeByte
<1>6. ASSUME NEW k \in Nat, \A l \in 1..k : l \in 1..Len(up') /\ up'[l] # CodeByte
      PROVE  \A l \in 2..B + k : up[l] # CodeByte
  <2> SUFFICES ASSUME NEW l \in 2..B + k PROVE up[l] # CodeByte
    OBVIOUS
  <2>1. CASE l <= B
    <3>1. l \in 1..B /\ l - 1 # 0
      BY <1>1, <2>1
    <3>2. up[l] = <<"GET_CODE", 0, l - 1>>
      BY <1>2, <3>1
    <3> QED BY <3>1, <3>2 DEF CodeByte
  <2>2. CASE ~(l <= B)
    <3>1. l - B \in 1..k /\ B + (l - B) = l
      BY <1>1, <2>2
    <3> QED BY <1>4, <1>6, <3>1
  <2> QED BY <2>1, <2>2
<1>7. ASSUME ~stale, WordAt(up', 0, prog.crc) PROVE Heard'
  <2>1. WordAt(up, B, prog.crc)
    BY <1>1, <1>3, <1>5, <1>7, PartWord
  <2>2. ASSUME NEW k \in 1..Len(up'), up'[k] = DoneByte, \A l \in 1..k-1 : up'[l] # CodeByte
        PROVE  prog \in loaded
    <3>1. B + k \in 1..Len(up) /\ up[B + k] = DoneByte /\ 1 < B + k
      BY <1>1, <1>4, <2>2
    <3>2. k - 1 \in Nat /\ Len(up') \in Nat
      BY <1>1, <1>2, <1>3
    <3>3. \A l \in 1..k-1 : l \in 1..Len(up') /\ up'[l] # CodeByte
      BY <2>2, <3>2
    <3>4. \A l \in 2..B + (k - 1) : up[l] # CodeByte
      BY <1>6, <3>2, <3>3
    <3>5. \A l \in 1+1..(B + k)-1 : up[l] # CodeByte
      <4>1. 1 + 1 = 2 /\ (B + k) - 1 = B + (k - 1)
        BY <1>1, <3>2
      <4> QED BY <3>4, <4>1
    <3>6. Answers(up, loaded)
      BY <1>7 DEF TrustInv
    <3> QED BY <1>1, <1>5, <2>1, <3>1, <3>5, <3>6 DEF Answers
  <2>3. ASSUME pc \in {"code", "bytes"}, NoCode(up') PROVE cksum = prog.crc
    <3>1. Ends(up, cksum) /\ cksum \in Sendable
      BY <2>3 DEF UpInv
    <3>2. cksum = <<cksum[1], cksum[2]>> /\ cksum[1] # "GET_CODE"
      BY <3>1, SendableTags DEF Told
    <3>3. Len(up') \in Nat /\ B + Len(up') = Len(up)
      BY <1>1, <1>2, <1>3
    <3>4. \A l \in 2..B + Len(up') : up[l] # CodeByte
      BY <1>6, <2>3, <3>3 DEF NoCode
    <3>5. \A l \in 1+1..Len(up) : up[l] # CodeByte
      BY <3>3, <3>4
    <3>6. WordAt(up, (1 - 1) + B, cksum)
      BY <1>1, <1>5, <3>1, <3>2, <3>5, LastCode
    <3>7. prog.crc = <<prog.crc[1], prog.crc[2]>>
      BY <1>1, CrcAssumption
    <3> QED BY <1>5, <2>1, <3>2, <3>6, <3>7, SameWord
  <2>4. First(up', prog, loaded)
    BY <2>2 DEF First
  <2> QED BY <2>3, <2>4 DEF Heard
<1>8. TrustInv'
  BY <1>3, <1>7 DEF TrustInv
<1> QED BY <1>3, <1>8

LEMMA DropAll == ASSUME NEW s \in Seq(UpByte) PROVE DropN(s, Len(s)) = <<>> /\ Len(s) \in 0..Len(s)
<1>1. Len(s) \in Nat /\ Len(s) \in 0..Len(s)
  BY LenProperties
<1>2. DropN(s, Len(s)) \in Seq(UpByte) /\ Len(DropN(s, Len(s))) = Len(s) - Len(s)
  BY <1>1, Dropped
<1>3. Len(DropN(s, Len(s))) = 0
  BY <1>1, <1>2
<1> QED BY <1>1, <1>2, <1>3, EmptySeq

\* The steps of the laptop.
LEMMA UnixTrust ==
    ASSUME Distinct, UpInv, TrustInv, UnixInv, Unix
    PROVE  UpInv' /\ TrustInv'
<1>1. UNCHANGED <<pc, cksum, prog, stale, loaded>>
  BY DEF Unix, UnixPrint, UnixSync, UnixDrain, UnixCrc, UnixSuccess, UnixEcho, UnixUnchanged,
         pivars
<1>2. up \in Seq(UpByte) /\ Len(up) \in Nat /\ B \in Nat \ {0} /\ prog \in Program
  BY Bounds, LenProperties DEF UpInv, UnixInv
<1>3. ASSUME Len(up) >= B, up' = DropN(up, B), upc' \in {"sync", "drain", "echo", "failed"}
      PROVE  UpInv' /\ TrustInv'
  <2>1. B \in 0..Len(up)
    BY <1>2, <1>3
  <2> QED BY <1>1, <1>3, <2>1, DropTrust
<1>4. CASE UnixSync
  <2>1. CASE up' = DropN(up, B) /\ upc' = "drain" /\ Len(up) >= B
    BY <1>3, <2>1
  <2>2. CASE up' = DropN(up, Resync) /\ upc' = "sync" /\ Len(up) >= Resync
    <3>1. Resync \in 0..Len(up)
      BY <1>2, <2>2 DEF Resync
    <3> QED BY <1>1, <2>2, <3>1, DropTrust
  <2> QED BY <1>4, <2>1, <2>2 DEF UnixSync, Op, OtherOp
<1>5. CASE UnixDrain
  <2>1. CASE Op(GET_CODE) /\ up' = DropN(up, B) /\ upc' = "crc"
    BY <1>1, <2>1, DrainTrust
  <2>2. CASE Len(up) >= B /\ up' = DropN(up, B) /\ upc' \in {"drain", "echo"}
    BY <1>3, <2>2
  <2> QED BY <1>5, <2>1, <2>2 DEF UnixDrain, Op, OtherOp, BootCheckFails
<1>6. CASE UnixCrc
  <2>1. CASE Op(prog.crc) /\ up' = DropN(up, B) /\ upc = "crc" /\ upc' = "success"
    <3>1. prog.crc = <<prog.crc[1], prog.crc[2]>> /\ prog.crc[1] \notin Told \cup {"junk"}
      BY <1>2, CrcAssumption DEF Distinct
    <3> DEFINE a == prog.crc[1]
               x == prog.crc[2]
    <3>2. a # "junk" /\ Word(up) = <<a, x>> /\ Len(up) >= B
      BY <2>1, <3>1 DEF Op
    <3> HIDE DEF a, x
    <3>3. /\ WordAt(up, 0, <<a, x>>) /\ B \in 0..Len(up)
          /\ \A k \in 1..B : up[k][1] = a
      BY <1>2, <3>2, WordFound
    <3>4. WordAt(up, 0, prog.crc)
      BY <3>1, <3>3 DEF a, x
    <3>5. ASSUME NEW l \in 1..B PROVE up[l] # CodeByte
      <4>1. up[l][1] \notin Told
        BY <3>1, <3>3 DEF a
      <4> QED BY <4>1, ByteTags DEF Told
    <3>6. /\ UpInv'
          /\ ~stale => Answers(up', loaded')
      BY <1>1, <2>1, <3>3, DropTrust
    <3>7. Heard => Heard'
      BY <1>1, <2>1, <3>3, <3>5, DropHeard
    <3>8. TrustInv'
      BY <1>1, <2>1, <3>4, <3>6, <3>7 DEF TrustInv
    <3> QED BY <3>6, <3>8
  <2>2. CASE Len(up) >= B /\ up' = DropN(up, B) /\ upc' = "echo"
    BY <1>3, <2>2
  <2> QED BY <1>6, <2>1, <2>2 DEF UnixCrc, OtherOp, BootCheckFails
<1>7. CASE UnixSuccess
  <2>1. CASE Op(BOOT_SUCCESS) /\ up' = DropN(up, B) /\ upc = "success" /\ upc' = "done"
    <3>1. Len(up) >= B /\ Word(up) = <<"BOOT_SUCCESS", 0>>
      BY <2>1 DEF Op, BOOT_SUCCESS
    <3>2. B \in 0..Len(up) /\ \A k \in 1..B : k \in 1..Len(up) /\ up[k] = <<"BOOT_SUCCESS", 0, k - 1>>
      BY <1>2, <3>1, WordFound
    <3>3. 1 \in 1..B /\ 1 - 1 = 0 /\ \A l \in 1..1-1 : FALSE
      BY <1>2
    <3>4. 1 \in 1..Len(up) /\ up[1] = DoneByte
      BY <3>2, <3>3 DEF DoneByte
    <3>5. /\ UpInv'
          /\ ~stale => Answers(up', loaded')
      BY <1>1, <2>1, <3>2, DropTrust
    <3>6. Heard => prog \in loaded
      BY <3>3, <3>4 DEF Heard, First
    <3>7. TrustInv'
      BY <1>1, <2>1, <3>5, <3>6 DEF TrustInv
    <3> QED BY <3>5, <3>7
  <2>2. CASE Len(up) >= B /\ up' = DropN(up, B) /\ upc' \in {"echo", "failed"}
    BY <1>3, <2>2
  <2> QED BY <1>7, <2>1, <2>2 DEF UnixSuccess, Op, OtherOp, BootCheckFails
<1>8. CASE UnixEcho
  <2>1. up' = DropN(up, Len(up)) /\ upc' = "echo" /\ Len(up) \in 0..Len(up)
    BY <1>2, <1>8, DropAll DEF UnixEcho
  <2> QED BY <1>1, <2>1, DropTrust
<1> QED BY <1>4, <1>5, <1>6, <1>7, <1>8, PrintTrust DEF Unix

\* The end of what the pi said is lost with it.
LEMMA ResetTrust ==
    ASSUME UpInv, TrustInv, PiReset
    PROVE  UpInv' /\ TrustInv'
<1>1. /\ pc' = "wait" /\ cksum' = <<"junk", 0>> /\ UNCHANGED <<upc, prog, stale, loaded>>
  BY DEF PiReset, Reboot, uvars
<1>2. PICK n \in 0..Depth : n <= Len(up) /\ up' = SubSeq(up, 1, Len(up) - n)
  BY DEF PiReset
<1> DEFINE m == Len(up) - n
<1>3. up \in Seq(UpByte) /\ Len(up) \in Nat /\ m \in 0..Len(up)
  BY <1>2, LenProperties, Bounds DEF UpInv
<1>4. Part(up', up, 0) /\ Len(up') = m /\ up' \in Seq(UpByte)
  <2>1. up' = SubSeq(up, 1, m)
    BY <1>2
  <2> HIDE DEF m
  <2> QED BY <1>3, <2>1, FrontIsPart
<1>5. \A k \in 1..Len(up') : k \in 1..Len(up) /\ up'[k] = up[k]
  <2>1. \A k \in 1..Len(up') : 0 + k \in 1..Len(up) /\ up'[k] = up[0 + k]
    BY <1>4, PartIn
  <2>2. \A k \in 1..Len(up') : 0 + k = k
    BY <1>3, <1>4
  <2> QED BY <2>1, <2>2
<1>6. /\ Starts(up') /\ Sums(up')
      /\ Answers(up, loaded) => Answers(up', loaded)
  BY <1>4, PartKeeps DEF UpInv
<1>7. UpInv'
  BY <1>1, <1>4, <1>6, SendableWords DEF UpInv
<1>8. ASSUME Heard PROVE Heard'
  <2>1. ASSUME NEW k \in 1..Len(up'), up'[k] = DoneByte, \A l \in 1..k-1 : up'[l] # CodeByte
        PROVE  prog \in loaded
    <3>1. k \in 1..Len(up) /\ up[k] = DoneByte /\ Len(up') \in Nat
      BY <1>3, <1>4, <1>5, <2>1
    <3>2. ASSUME NEW l \in 1..k-1 PROVE up[l] # CodeByte
      <4>1. l \in 1..Len(up')
        BY <3>1
      <4> QED BY <1>5, <2>1, <4>1
    <3> QED BY <1>8, <3>1, <3>2 DEF Heard, First
  <2> QED BY <1>1, <2>1 DEF Heard, First
<1>9. WordAt(up', 0, prog.crc) => WordAt(up, 0, prog.crc)
  <2>1. 0 \in Nat /\ 0 + 0 = 0
    OBVIOUS
  <2> QED BY <1>4, <2>1, PartWord
<1>10. TrustInv'
  BY <1>1, <1>6, <1>8, <1>9 DEF TrustInv
<1> QED BY <1>7, <1>10

\* Timeouts, interrupts, new runs and the line.
LEMMA OtherTrust ==
    ASSUME UpInv, TrustInv, Deliver \/ Environment \/ UNCHANGED vars
    PROVE  UpInv' /\ TrustInv'
<1>1. up \in Seq(UpByte) /\ cksum \in Sendable /\ <<"junk", 0>> \in Sendable
  BY SendableWords DEF UpInv
<1>2. CASE Deliver \/ Overrun \/ Corrupt \/ UNCHANGED vars
  <2>1. UNCHANGED <<pc, cksum, up, upc, prog, stale, loaded>>
    BY <1>2 DEF Deliver, Overrun, Corrupt, pivars, uvars, vars, line
  <2> QED BY <1>1, <2>1, SilentTrust
<1>3. CASE ProgramEnds
  <2>1. /\ pc' = "wait" /\ cksum' = <<"junk", 0>> /\ UNCHANGED <<up, upc, prog, stale, loaded>>
    BY <1>3 DEF ProgramEnds, Reboot, uvars
  <2> QED BY <1>1, <2>1, SilentTrust DEF Asking
<1>4. CASE SilenceTimeout \/ SlowTimeout
  <2>1. /\ up' = <<>> /\ upc' = "failed" /\ UNCHANGED <<pc, cksum, prog, stale, loaded>>
    BY <1>4 DEF SilenceTimeout, SlowTimeout, ReadTimeout, pivars
  <2>2. up' = DropN(up, Len(up)) /\ Len(up) \in 0..Len(up)
    BY <1>1, <2>1, DropAll
  <2> QED BY <2>1, <2>2, DropTrust
<1>5. CASE UnixKill
  <2>1. upc' = "failed" /\ UNCHANGED <<pc, cksum, up, prog, stale, loaded>>
    BY <1>5 DEF UnixKill, pivars, line
  <2> QED BY <2>1 DEF UpInv, TrustInv
<1>6. CASE UnixRun
  <2>1. /\ upc' = "sync" /\ UNCHANGED <<pc, cksum>> /\ up' \in {up, <<>>}
        /\ stale' = (up' # <<>>)
    BY <1>6 DEF UnixRun, pivars
  <2>2. CASE up' = <<>>
    <3>1. Len(up') = 0 /\ up' \in Seq(UpByte)
      BY <2>2, EmptySeq
    <3>2. Starts(up') /\ Sums(up') /\ Answers(up', loaded') /\ Ends(up', cksum)
      BY <3>1, Bounds DEF Starts, Sums, Answers, Ends
    <3> QED BY <1>1, <2>1, <2>2, <3>1, <3>2 DEF UpInv, TrustInv
  <2>3. CASE up' = up /\ up # <<>>
    <3>1. stale'
      BY <2>1, <2>3
    <3> QED BY <2>1, <2>3, <3>1 DEF UpInv, TrustInv
  <2> QED BY <2>1, <2>2, <2>3
<1> QED BY <1>2, <1>3, <1>4, <1>5, <1>6, ResetTrust DEF Environment

LEMMA InitTrust == ASSUME Distinct PROVE Init => UpInv /\ TrustInv
<1> SUFFICES ASSUME Init PROVE UpInv /\ TrustInv
  OBVIOUS
<1>1. pc = "wait" /\ cksum = <<"junk", 0>> /\ upc = "sync"
  BY DEF Init
<1>2. PICK n \in 0..MaxGarbage : up = [k \in 1..n |-> JunkByte]
  BY DEF Init
<1>3. JunkByte \in UpByte
  <2>1. JunkByte = <<<<"junk", 0>>[1], <<"junk", 0>>[2], 0>>
    BY DEF JunkByte
  <2> QED BY <2>1, SendableWords DEF UpByte, UpWords
<1>4. n \in Nat
  OBVIOUS
<1>5. up \in Seq(UpByte) /\ Len(up) = n /\ \A k \in 1..Len(up) : up[k] = JunkByte
  <2>1. up \in [1..n -> UpByte]
    BY <1>2, <1>3
  <2>2. up \in Seq(UpByte)
    BY <1>4, <2>1, SeqDef
  <2>3. Len(up) = n
    BY <1>2, <1>4, <2>2, LenProperties
  <2> QED BY <1>2, <2>2, <2>3
<1>6. JunkByte[1] = "junk"
  BY DEF JunkByte
<1>7. \A k \in 1..Len(up) : up[k] # CodeByte
  BY <1>5, <1>6, ByteTags
<1>8. \A k \in 2..Len(up) : k \in 1..Len(up)
  BY <1>4, <1>5
<1>9. Starts(up) /\ Answers(up, loaded)
  BY <1>7, <1>8 DEF Starts, Answers
<1>10. Sums(up)
  <2> SUFFICES ASSUME NEW j \in 1..Len(up), NEW p \in Program, up[j] = <<p.crc[1], p.crc[2], 0>>
               PROVE  FALSE
    BY DEF Sums
  <2>1. p.crc[1] = "junk"
    BY <1>5, <1>6
  <2> QED BY <2>1 DEF Distinct
<1> QED BY <1>1, <1>5, <1>9, <1>10, SendableWords DEF UpInv, TrustInv

LEMMA NextTrust ==
    ASSUME Distinct, BootInv, LoadInv, UpInv, TrustInv, [Next]_vars
    PROVE  UpInv' /\ TrustInv'
<1>1. UnixInv
  BY DEF BootInv
<1> QED BY <1>1, PiTrust, UnixTrust, OtherTrust DEF Next

LEMMA Trusts == ASSUME Distinct PROVE Spec => [](UpInv /\ TrustInv)
<1>1. Init => UpInv /\ TrustInv
  BY InitTrust
<1>2. BootInv /\ LoadInv /\ (UpInv /\ TrustInv) /\ [Next]_vars => (UpInv /\ TrustInv)'
  BY NextTrust
<1> QED BY <1>1, <1>2, Invariance, Loads, PTL DEF Spec

\* When my-install says the boot is done, the pi had this very program whole in its memory, in
\* this very run, whatever was lost, corrupted, reset or interrupted in it or before, unless
\* the tty held what an earlier run left: where no checksum looks like a word of the protocol.
THEOREM DoneIsLoaded ==
    ASSUME Distinct
    PROVE  Spec => []DoneMeansLoaded
<1>1. UpInv /\ TrustInv => DoneMeansLoaded
  BY DEF TrustInv, DoneMeansLoaded
<1> QED BY <1>1, Trusts, PTL

----------------------------------------------------------------------------
(* A first run without a fault.                                            *)

InfoByte == <<"GET_PROG_INFO", 0, 0>>

\* What the pi says in answer to q: GET_PROG_INFOs, then a GET_CODE with its checksum.
Whole(s, q) ==
    \A j \in 1..Len(s) :
        /\ s[j] = InfoByte => /\ WordAt(s, j - 1, GET_PROG_INFO)
                              /\ j + B <= Len(s) => s[j + B] \in {InfoByte, CodeByte}
        /\ s[j] = CodeByte => /\ WordAt(s, j - 1, GET_CODE) /\ WordAt(s, (j - 1) + B, q.crc)
                              /\ Len(s) = (j - 1) + 2*B
Front(s) == s = <<>> \/ s[1] \in {InfoByte, CodeByte}

Stream == rx \o down
Holding == addr = prog.addr /\ nbytes = prog.n /\ cksum = prog.crc

\* The laptop waits for a GET_PROG_INFO, behind some garbage.
Syncing ==
    /\ upc = "sync" /\ pc \in {"wait", "poll"} /\ Stream = <<>>
    /\ Whole(up, prog) /\ \A k \in 1..Len(up) : up[k][1] \in {"junk", "GET_PROG_INFO"}

\* It has answered one, and waits for the GET_CODE.
Draining ==
    /\ upc = "drain"
    /\ pc \in {"wait", "poll", "op", "addr", "nbytes", "cksum", "check", "code"}
    /\ Whole(up, prog) /\ Front(up) /\ (pc = "code" <=> ~NoCode(up))
    /\ pc \in {"wait", "poll", "op"} =>
         Len(Stream) = 4*B /\ WordAt(Stream, 0, PUT_PROG_INFO) /\ RequestAt(Stream, B, prog)
    /\ pc = "addr" => Len(Stream) = 3*B /\ RequestAt(Stream, 0, prog)
    /\ pc = "nbytes" => addr = prog.addr /\ Len(Stream) = 2*B /\ SizeAt(Stream, 0, prog)
    /\ pc = "cksum" =>
         addr = prog.addr /\ nbytes = prog.n /\ Len(Stream) = B /\ WordAt(Stream, 0, prog.crc)
    /\ pc \in {"check", "code"} => Stream = <<>> /\ Holding

\* It has read GET_CODE, and not the checksum.
Summing ==
    /\ upc = "crc" /\ pc = "code" /\ Stream = <<>> /\ Holding
    /\ Len(up) = B /\ WordAt(up, 0, prog.crc)

\* It has sent the code.
Loading ==
    /\ upc = "success" /\ up = <<>> /\ Holding
    /\ \/ /\ pc = "code" /\ Len(Stream) = B + prog.n /\ WordAt(Stream, 0, PUT_CODE)
          /\ \A k \in 1..prog.n : Stream[B + k] = Code(prog)[k]
       \/ /\ pc = "bytes" /\ Len(Stream) = prog.n - i
          /\ \A k \in 1..prog.n - i : Stream[k] = Code(prog)[i + k]
          /\ \A k \in 0..i-1 : mem[(addr + k) % WordMod] = Code(prog)[k + 1]

\* The pi runs it, or has run it.
Finishing ==
    /\ upc \in {"success", "done"} /\ pc \in {"running", "wait", "poll"} /\ Stream = <<>>
    /\ upc = "success" =>
         \/ WordAt(up, 0, BOOT_SUCCESS)
         \/ /\ WordAt(up, 0, PRINT_STRING) /\ WordAt(up, B, Strlen)
            /\ WordAt(up, 2*B + 1, BOOT_SUCCESS)

Exchange == Syncing \/ Draining \/ Summing \/ Loading \/ Finishing
Fits == ~(prog.addr < BootEnd /\ prog.addr + prog.n > BootStart)
CalmInv == faults = 0 /\ runs = 1 /\ Fits => Exchange

----------------------------------------------------------------------------
\* A word that was read is the one that is there.
LEMMA WordReads ==
    ASSUME NEW s, NEW w, w = <<w[1], w[2]>>, WordAt(s, 0, w)
    PROVE  Word(s) = w /\ s[1] = <<w[1], w[2], 0>> /\ \A k \in 1..B : k \in 1..Len(s)
<1>1. 1 \in 1..B /\ 0 + 1 = 1 /\ 1 - 1 = 0 /\ \A k \in 1..B : 0 + k = k
  BY Bounds
<1>2. s[0 + 1] = <<w[1], w[2], 1 - 1>> /\ \A k \in 1..B : 0 + k \in 1..Len(s)
  BY <1>1 DEF WordAt
<1> QED BY <1>1, <1>2, WordRead

\* Words of different kinds.
LEMMA UpTags ==
    /\ GET_PROG_INFO = <<GET_PROG_INFO[1], GET_PROG_INFO[2]>>
    /\ GET_CODE = <<GET_CODE[1], GET_CODE[2]>> /\ BOOT_SUCCESS = <<BOOT_SUCCESS[1], BOOT_SUCCESS[2]>>
    /\ PRINT_STRING = <<PRINT_STRING[1], PRINT_STRING[2]>> /\ Strlen = <<Strlen[1], Strlen[2]>>
    /\ PUT_CODE = <<PUT_CODE[1], PUT_CODE[2]>> /\ PUT_PROG_INFO = <<PUT_PROG_INFO[1], PUT_PROG_INFO[2]>>
    /\ GET_PROG_INFO[1] = "GET_PROG_INFO" /\ GET_CODE[1] = "GET_CODE"
    /\ BOOT_SUCCESS[1] = "BOOT_SUCCESS" /\ BOOT_ERROR[1] = "BOOT_ERROR"
    /\ PRINT_STRING[1] = "PRINT_STRING" /\ Strlen[1] = "strlen"
    /\ PUT_CODE[1] = "PUT_CODE" /\ PUT_PROG_INFO[1] = "PUT_PROG_INFO"
    /\ InfoByte[1] = "GET_PROG_INFO"
BY DEF GET_PROG_INFO, GET_CODE, BOOT_SUCCESS, BOOT_ERROR, PRINT_STRING, Strlen, PUT_CODE,
       PUT_PROG_INFO, InfoByte

\* The answer, as the laptop takes bytes from the front.
LEMMA WholeDrop ==
    ASSUME NEW s \in Seq(UpByte), NEW m \in 0..Len(s), NEW q, Whole(s, q)
    PROVE  Whole(DropN(s, m), q)
<1> DEFINE t == DropN(s, m)
<1>1. /\ Len(s) \in Nat /\ Len(t) = Len(s) - m /\ \A k \in 1..Len(s) - m : t[k] = s[m + k]
  BY Dropped
<1>2. ASSUME NEW o \in Nat, NEW w, WordAt(s, m + o, w) PROVE WordAt(t, o, w)
  <2>1. m + o \in Nat /\ m <= m + o /\ (m + o) - m = o
    OBVIOUS
  <2> QED BY <1>2, <2>1, WordAtDrop
<1> HIDE DEF t
<1> SUFFICES ASSUME NEW j \in 1..Len(t)
             PROVE  /\ t[j] = InfoByte => /\ WordAt(t, j - 1, GET_PROG_INFO)
                                          /\ j + B <= Len(t) => t[j + B] \in {InfoByte, CodeByte}
                    /\ t[j] = CodeByte => /\ WordAt(t, j - 1, GET_CODE)
                                          /\ WordAt(t, (j - 1) + B, q.crc)
                                          /\ Len(t) = (j - 1) + 2*B
  BY DEF Whole, t
<1>3. /\ m + j \in 1..Len(s) /\ t[j] = s[m + j] /\ j - 1 \in Nat /\ (j - 1) + B \in Nat
      /\ (m + j) - 1 = m + (j - 1) /\ ((m + j) - 1) + B = m + ((j - 1) + B)
      /\ j + B <= Len(t) => (m + j) + B <= Len(s) /\ t[j + B] = s[(m + j) + B]
      /\ Len(s) = ((m + j) - 1) + 2*B => Len(t) = (j - 1) + 2*B
  <2>1. ASSUME j + B <= Len(t) PROVE (m + j) + B <= Len(s) /\ t[j + B] = s[(m + j) + B]
    <3>1. j + B \in 1..Len(s) - m /\ m + (j + B) = (m + j) + B
      BY <1>1, <2>1, Bounds
    <3> QED BY <1>1, <2>1, <3>1, Bounds
  <2>2. m + j \in 1..Len(s) /\ t[j] = s[m + j]
    BY <1>1
  <2>3. /\ j - 1 \in Nat /\ (j - 1) + B \in Nat
        /\ (m + j) - 1 = m + (j - 1) /\ ((m + j) - 1) + B = m + ((j - 1) + B)
        /\ Len(s) = ((m + j) - 1) + 2*B => Len(t) = (j - 1) + 2*B
    BY <1>1, Bounds
  <2> QED BY <2>1, <2>2, <2>3
<1>4. ASSUME t[j] = InfoByte
      PROVE  /\ WordAt(t, j - 1, GET_PROG_INFO)
             /\ j + B <= Len(t) => t[j + B] \in {InfoByte, CodeByte}
  <2>1. /\ WordAt(s, m + (j - 1), GET_PROG_INFO)
        /\ (m + j) + B <= Len(s) => s[(m + j) + B] \in {InfoByte, CodeByte}
    BY <1>3, <1>4 DEF Whole
  <2> QED BY <1>2, <1>3, <2>1
<1>5. ASSUME t[j] = CodeByte
      PROVE  /\ WordAt(t, j - 1, GET_CODE) /\ WordAt(t, (j - 1) + B, q.crc)
             /\ Len(t) = (j - 1) + 2*B
  <2>1. /\ WordAt(s, m + (j - 1), GET_CODE) /\ WordAt(s, m + ((j - 1) + B), q.crc)
        /\ Len(s) = ((m + j) - 1) + 2*B
    BY <1>3, <1>5 DEF Whole
  <2> QED BY <1>2, <1>3, <2>1
<1> QED BY <1>4, <1>5

\* Another GET_PROG_INFO.
LEMMA WholeInfo ==
    ASSUME NEW s \in Seq(UpByte), NEW q, Whole(s, q), NoCode(s)
    PROVE  LET c == s \o Put32(GET_PROG_INFO)
           IN  /\ c \in Seq(UpByte) /\ Whole(c, q) /\ NoCode(c) /\ (Front(s) => Front(c))
               /\ \A k \in 1..Len(c) : c[k][1] = "GET_PROG_INFO" \/ (k \in 1..Len(s) /\ c[k] = s[k])
<1> DEFINE t == Put32(GET_PROG_INFO)
           c == s \o t
<1>1. /\ t \in Seq(UpByte) /\ Len(t) = B /\ \A k \in 1..B : t[k] = <<"GET_PROG_INFO", 0, k - 1>>
      /\ \A k \in 1..B : t[k][1] = "GET_PROG_INFO"
  <2>1. GET_PROG_INFO \in UpWords /\ GET_PROG_INFO[1] = "GET_PROG_INFO" /\ GET_PROG_INFO[2] = 0
    BY DEF UpWords, GET_PROG_INFO
  <2> QED BY <2>1, SaidWord
<1> HIDE DEF t
<1>2. /\ c \in Seq(UpByte) /\ Len(s) \in Nat /\ Len(c) = Len(s) + B
      /\ \A k \in 1..Len(s) : c[k] = s[k]
      /\ \A k \in 1..B : c[Len(s) + k] = t[k]
      /\ \A k \in 1..Len(c) : k \in 1..Len(s) \/ (k - Len(s)) \in 1..B
  BY <1>1, SaidIn
<1>3. ASSUME NEW o \in Nat, NEW w, WordAt(s, o, w) PROVE WordAt(c, o, w)
  BY <1>1, <1>3, WordAtLeft
<1>4. WordAt(c, Len(s), GET_PROG_INFO)
  <2>1. GET_PROG_INFO[1] = "GET_PROG_INFO" /\ GET_PROG_INFO[2] = 0
    BY DEF GET_PROG_INFO
  <2>2. ASSUME NEW k \in 1..B
        PROVE  Len(s) + k \in 1..Len(c) /\ c[Len(s) + k] = <<GET_PROG_INFO[1], GET_PROG_INFO[2], k - 1>>
    <3>1. Len(s) + k \in 1..Len(c)
      BY <1>2, Bounds
    <3> QED BY <1>1, <1>2, <2>1, <3>1
  <2> QED BY <2>2 DEF WordAt
<1> HIDE DEF c
<1>5. c[Len(s) + 1] = InfoByte
  <2>1. 1 \in 1..B /\ 1 - 1 = 0
    BY Bounds
  <2> QED BY <1>1, <1>2, <2>1 DEF InfoByte
<1>6. ASSUME NEW k \in 1..Len(c), k \notin 1..Len(s)
      PROVE  /\ c[k][1] = "GET_PROG_INFO" /\ c[k] # CodeByte
             /\ c[k] = InfoByte => k = Len(s) + 1
  <2>1. (k - Len(s)) \in 1..B /\ Len(s) + (k - Len(s)) = k
    BY <1>2, <1>6
  <2>2. c[k] = <<"GET_PROG_INFO", 0, (k - Len(s)) - 1>>
    BY <1>1, <1>2, <2>1
  <2>3. c[k] = InfoByte => (k - Len(s)) - 1 = 0
    BY <2>2 DEF InfoByte
  <2> QED BY <1>2, <2>1, <2>2, <2>3, ByteTags
<1>7. NoCode(c)
  BY <1>2, <1>6 DEF NoCode
<1>8. ASSUME NEW j \in 1..Len(c), c[j] = InfoByte
      PROVE  WordAt(c, j - 1, GET_PROG_INFO) /\ (j + B <= Len(c) => c[j + B] \in {InfoByte, CodeByte})
  <2>1. CASE j \in 1..Len(s)
    <3>1. s[j] = InfoByte
      BY <1>2, <1>8, <2>1
    <3>2. /\ WordAt(s, j - 1, GET_PROG_INFO)
          /\ j + B <= Len(s) => s[j + B] \in {InfoByte, CodeByte}
      BY <2>1, <3>1 DEF Whole
    <3>3. j - 1 \in Nat /\ B \in 1..B
      BY <2>1, Bounds
    <3>4. (j - 1) + B \in 1..Len(s)
      BY <3>2, <3>3 DEF WordAt
    <3>5. j + B \in 1..Len(s) \/ j + B = Len(s) + 1
      BY <1>2, <3>3, <3>4, Bounds
    <3>6. j + B \in 1..Len(s) => j + B <= Len(s) /\ c[j + B] = s[j + B]
      BY <1>2
    <3> QED BY <1>3, <1>5, <3>2, <3>3, <3>5, <3>6
  <2>2. CASE j \notin 1..Len(s)
    <3>1. j = Len(s) + 1
      BY <1>6, <1>8, <2>2
    <3>2. j - 1 = Len(s) /\ ~(j + B <= Len(c))
      BY <1>2, <3>1, Bounds
    <3> QED BY <1>4, <3>2
  <2> QED BY <2>1, <2>2
<1>9. Whole(c, q)
  BY <1>7, <1>8 DEF Whole, NoCode
<1>10. Front(s) => Front(c)
  <2>1. CASE s = <<>>
    <3>1. Len(s) + 1 = 1
      BY <2>1
    <3> QED BY <1>5, <3>1 DEF Front
  <2>2. CASE s # <<>>
    <3>1. 1 \in 1..Len(s)
      BY <1>2, <2>2, EmptySeq
    <3> QED BY <1>2, <2>2, <3>1 DEF Front
  <2> QED BY <2>1, <2>2
<1> QED BY <1>2, <1>6, <1>7, <1>9, <1>10 DEF c, t

\* GET_CODE and the checksum.
LEMMA WholeCode ==
    ASSUME Distinct, NEW s \in Seq(UpByte), NEW q \in Program, Whole(s, q), NoCode(s), Front(s)
    PROVE  LET c == s \o (Put32(GET_CODE) \o Put32(q.crc))
           IN  c \in Seq(UpByte) /\ Whole(c, q) /\ ~NoCode(c) /\ Front(c)
<1> DEFINE t == Put32(GET_CODE) \o Put32(q.crc)
           c == s \o t
<1>1. /\ q.crc \in Sendable /\ q.crc = <<q.crc[1], q.crc[2]>> /\ q.crc[1] \notin Told
  BY SendableWords, CrcAssumption DEF Distinct
<1>2. /\ t \in Seq(UpByte) /\ Len(t) = 2*B
      /\ \A k \in 1..B : t[k] = <<"GET_CODE", 0, k - 1>>
      /\ \A k \in 1..B : t[B + k] = <<q.crc[1], q.crc[2], k - 1>>
  BY <1>1, CodeSaid DEF Said
<1> HIDE DEF t
<1>3. /\ c \in Seq(UpByte) /\ Len(s) \in Nat /\ Len(c) = Len(s) + 2*B
      /\ \A k \in 1..Len(s) : c[k] = s[k] /\ k \in 1..Len(c)
      /\ \A k \in 1..2*B : c[Len(s) + k] = t[k] /\ Len(s) + k \in 1..Len(c)
      /\ \A k \in 1..Len(c) : k \in 1..Len(s) \/ (k - Len(s)) \in 1..2*B
  BY <1>2, SaidIn
<1>4. ASSUME NEW o \in Nat, NEW w, WordAt(s, o, w) PROVE WordAt(c, o, w)
  BY <1>2, <1>4, WordAtLeft
<1> HIDE DEF c
<1>5. /\ \A k \in 1..B : Len(s) + k \in 1..Len(c) /\ c[Len(s) + k] = <<"GET_CODE", 0, k - 1>>
      /\ \A k \in 1..B : (Len(s) + B) + k \in 1..Len(c)
                         /\ c[(Len(s) + B) + k] = <<q.crc[1], q.crc[2], k - 1>>
  <2>1. ASSUME NEW k \in 1..B
        PROVE  k \in 1..2*B /\ B + k \in 1..2*B /\ Len(s) + (B + k) = (Len(s) + B) + k
    BY <1>3, Bounds
  <2> QED BY <1>2, <1>3, <2>1
<1>6. WordAt(c, Len(s), GET_CODE) /\ WordAt(c, Len(s) + B, q.crc)
  <2>1. GET_CODE[1] = "GET_CODE" /\ GET_CODE[2] = 0
    BY DEF GET_CODE
  <2> QED BY <1>5, <2>1 DEF WordAt
<1>7. Len(s) + 1 \in 1..Len(c) /\ c[Len(s) + 1] = CodeByte
  <2>1. 1 \in 1..B /\ 1 - 1 = 0
    BY Bounds
  <2> QED BY <1>5, <2>1 DEF CodeByte
<1>8. ASSUME NEW k \in 1..Len(c), k \notin 1..Len(s), c[k] \in {InfoByte, CodeByte}
      PROVE  k = Len(s) + 1 /\ c[k] = CodeByte
  <2>1. (k - Len(s)) \in 1..B \/ ((k - Len(s)) - B) \in 1..B
    BY <1>3, <1>8, Bounds
  <2>2. CASE (k - Len(s)) \in 1..B
    <3>1. Len(s) + (k - Len(s)) = k
      BY <1>3
    <3>2. c[k] = <<"GET_CODE", 0, (k - Len(s)) - 1>>
      BY <1>5, <2>2, <3>1
    <3>3. c[k] = CodeByte
      BY <1>8, <3>2, ByteTags, UpTags
    <3>4. (k - Len(s)) - 1 = 0
      BY <3>2, <3>3 DEF CodeByte
    <3> QED BY <1>3, <2>2, <3>3, <3>4, Bounds
  <2>3. CASE ((k - Len(s)) - B) \in 1..B
    <3>1. (Len(s) + B) + ((k - Len(s)) - B) = k
      BY <1>3, Bounds
    <3>2. c[k] = <<q.crc[1], q.crc[2], ((k - Len(s)) - B) - 1>>
      BY <1>5, <2>3, <3>1
    <3>3. c[k][1] \notin {"GET_CODE", "GET_PROG_INFO"}
      BY <1>1, <3>2 DEF Told
    <3> QED BY <1>8, <3>3, ByteTags, UpTags
  <2> QED BY <2>1, <2>2, <2>3
<1>9. ASSUME NEW j \in 1..Len(c), c[j] = InfoByte
      PROVE  WordAt(c, j - 1, GET_PROG_INFO) /\ (j + B <= Len(c) => c[j + B] \in {InfoByte, CodeByte})
  <2>1. j \in 1..Len(s)
    BY <1>8, <1>9, ByteTags, UpTags
  <2>2. s[j] = InfoByte
    BY <1>3, <1>9, <2>1
  <2>3. /\ WordAt(s, j - 1, GET_PROG_INFO)
        /\ j + B <= Len(s) => s[j + B] \in {InfoByte, CodeByte}
    BY <2>1, <2>2 DEF Whole
  <2>4. j - 1 \in Nat /\ B \in 1..B
    BY <2>1, Bounds
  <2>5. (j - 1) + B \in 1..Len(s)
    BY <2>3, <2>4 DEF WordAt
  <2>6. j + B \in 1..Len(s) \/ j + B = Len(s) + 1
    BY <1>3, <2>4, <2>5, Bounds
  <2>7. j + B \in 1..Len(s) => j + B <= Len(s) /\ c[j + B] = s[j + B]
    BY <1>3
  <2> QED BY <1>4, <1>7, <2>3, <2>4, <2>6, <2>7
<1>10. ASSUME NEW j \in 1..Len(c), c[j] = CodeByte
       PROVE  /\ WordAt(c, j - 1, GET_CODE) /\ WordAt(c, (j - 1) + B, q.crc)
              /\ Len(c) = (j - 1) + 2*B
  <2>1. j \notin 1..Len(s)
    BY <1>3, <1>10 DEF NoCode
  <2>2. j = Len(s) + 1
    BY <1>8, <1>10, <2>1
  <2>3. j - 1 = Len(s)
    BY <1>3, <2>2
  <2> QED BY <1>3, <1>6, <2>3
<1>11. Whole(c, q)
  BY <1>9, <1>10 DEF Whole
<1>12. ~NoCode(c)
  BY <1>7 DEF NoCode
<1>13. Front(c)
  <2>1. CASE s = <<>>
    <3>1. Len(s) + 1 = 1
      BY <2>1
    <3> QED BY <1>7, <3>1 DEF Front
  <2>2. CASE s # <<>>
    <3>1. 1 \in 1..Len(s)
      BY <1>3, <2>2, EmptySeq
    <3> QED BY <1>3, <2>2, <3>1 DEF Front
  <2> QED BY <2>1, <2>2
<1> QED BY <1>3, <1>11, <1>12, <1>13 DEF c, t

\* The arithmetic of addresses.
LEMMA Wraps ==
    ASSUME NEW m \in Nat \ {0}, NEW a \in 0..m-1
    PROVE  /\ \A k \in 0..m-1 : (a + k) % m <= a + k
           /\ \A j, k \in 0..m-1 : j # k => (a + j) % m # (a + k) % m
<1>1. ASSUME NEW k \in 0..m-1
      PROVE  \/ a + k < m /\ (a + k) % m = a + k
             \/ a + k >= m /\ (a + k) % m = (a + k) - m
  <2>1. CASE a + k < m
    BY <2>1, Remainder
  <2>2. CASE a + k >= m
    BY <2>2
  <2> QED BY <2>1, <2>2
<1>2. ASSUME NEW j \in 0..m-1, NEW k \in 0..m-1, j # k
      PROVE  (a + j) % m # (a + k) % m
  <2>1. /\ (a + j < m /\ (a + j) % m = a + j) \/ (a + j >= m /\ (a + j) % m = (a + j) - m)
        /\ (a + k < m /\ (a + k) % m = a + k) \/ (a + k >= m /\ (a + k) % m = (a + k) - m)
    BY <1>1
  <2> QED BY <1>2, <2>1
<1>3. ASSUME NEW k \in 0..m-1 PROVE (a + k) % m <= a + k
  <2>1. (a + k < m /\ (a + k) % m = a + k) \/ (a + k >= m /\ (a + k) % m = (a + k) - m)
    BY <1>1
  <2> QED BY <2>1
<1> QED BY <1>2, <1>3

\* A program that does not collide passes the check.
LEMMA FitsPasses ==
    ASSUME prog \in Program, Fits, Holding
    PROVE  ~Collides(addr, nbytes)
<1>1. /\ WordMod \in Nat \ {0} /\ addr \in 0..WordMod-1 /\ nbytes \in 0..WordMod-1
      /\ BootEnd \in Nat /\ BootStart \in Nat
  BY BootAssumption DEF Holding
<1>2. (addr + nbytes) % WordMod <= addr + nbytes
  BY <1>1, Wraps
<1>3. (addr + nbytes) % WordMod \in Nat
  BY <1>1
<1> QED BY <1>1, <1>2, <1>3 DEF Fits, Holding, Collides

\* What may happen in a first run without a fault.
LEMMA CalmSteps ==
    ASSUME BootInv, [Next]_vars, faults' = 0, runs' = 1
    PROVE  /\ prog' = prog /\ faults = 0 /\ runs = 1
           /\ Pi \/ Unix \/ Deliver \/ ProgramEnds \/ SilenceTimeout \/ UNCHANGED vars
<1>1. runs \in Nat \ {0} /\ faults \in Nat
  BY Bounds DEF BootInv, HistoryInv
<1>2. ~Fault
  BY <1>1 DEF Fault
<1>3. ~UnixRun
  BY <1>1 DEF UnixRun
<1>4. Pi \/ Unix \/ Deliver \/ ProgramEnds \/ SilenceTimeout \/ UNCHANGED vars
  BY <1>2, <1>3 DEF Next, Environment, Overrun, Corrupt, PiReset, SlowTimeout, UnixKill
<1>5. Pi => UNCHANGED <<prog, faults, runs>>
  BY DEF Pi, PiAnnounce, PiTimeout, PiHasData, PiOp, PiHeader, PiCheck, PiPutCode, PiByte, PiFinish,
         PiUnchanged, uvars
<1>6. Unix \/ Deliver \/ ProgramEnds \/ SilenceTimeout \/ UNCHANGED vars => UNCHANGED <<prog, faults, runs>>
  BY DEF Unix, UnixPrint, UnixSync, UnixDrain, UnixCrc, UnixSuccess, UnixEcho, UnixUnchanged,
         Deliver, ProgramEnds, SilenceTimeout, ReadTimeout, uvars, vars
<1> QED BY <1>4, <1>5, <1>6

\* What the phases rest on.
LEMMA CalmTypes ==
    ASSUME BootInv, UpInv
    PROVE  /\ LineInv /\ prog \in Program /\ up \in Seq(UpByte) /\ Len(up) \in Nat
           /\ Stream \in Seq(OnLine) /\ Len(Stream) = Len(rx) + Len(down)
           /\ Len(rx) \in Nat /\ Len(down) \in Nat /\ B \in Nat \ {0} /\ 1 \in 1..B
           /\ (Stream = <<>> <=> rx = <<>> /\ down = <<>>) /\ (Stream = <<>> <=> Len(Stream) = 0)
           /\ (rx = <<>> <=> Len(rx) = 0) /\ (down = <<>> <=> Len(down) = 0)
           /\ (up = <<>> <=> Len(up) = 0)
<1>1. /\ LineInv /\ prog \in Program /\ up \in Seq(UpByte)
  BY DEF BootInv, UnixInv, UpInv
<1>2. /\ rx \in Seq(OnLine) /\ down \in Seq(OnLine) /\ Stream \in Seq(OnLine)
      /\ Len(Stream) = Len(rx) + Len(down)
  BY <1>1, StreamType, OnLineConcat DEF Stream
<1>3. ASSUME NEW S, NEW s \in Seq(S) PROVE Len(s) \in Nat /\ (s = <<>> <=> Len(s) = 0)
  BY <1>3, LenProperties, EmptySeq
<1>4. B \in Nat \ {0} /\ 1 \in 1..B
  BY Bounds
<1>5. /\ Len(rx) \in Nat /\ Len(down) \in Nat /\ Len(up) \in Nat
      /\ (Stream = <<>> <=> Len(Stream) = 0)
      /\ (rx = <<>> <=> Len(rx) = 0) /\ (down = <<>> <=> Len(down) = 0)
      /\ (up = <<>> <=> Len(up) = 0)
  BY <1>1, <1>2, <1>3
<1>6. Stream = <<>> <=> rx = <<>> /\ down = <<>>
  BY <1>2, <1>5
<1> QED BY <1>1, <1>2, <1>4, <1>5, <1>6

\* The pi announces itself.
LEMMA CalmAnnounce ==
    ASSUME BootInv, UpInv, Exchange, PiAnnounce
    PROVE  Exchange'
<1>1. /\ pc = "wait" /\ pc' = "poll" /\ up' = up \o Put32(GET_PROG_INFO)
      /\ UNCHANGED <<addr, nbytes, cksum, i, mem, rx, down, upc, prog>>
  BY DEF PiAnnounce, PiUnchanged, uvars
<1>2. Stream' = Stream
  BY <1>1 DEF Stream
<1>3. up \in Seq(UpByte) /\ Put32(GET_PROG_INFO) \in Seq(UpByte)
  BY CalmTypes, Sayings DEF Quiet, Said
<1>4. CASE Syncing
  <2>1. NoCode(up)
    BY <1>4, ByteTags DEF Syncing, NoCode
  <2>2. /\ Whole(up', prog)
        /\ \A k \in 1..Len(up') : up'[k][1] = "GET_PROG_INFO" \/ (k \in 1..Len(up) /\ up'[k] = up[k])
    BY <1>1, <1>3, <1>4, <2>1, WholeInfo DEF Syncing
  <2>3. \A k \in 1..Len(up') : up'[k][1] \in {"junk", "GET_PROG_INFO"}
    BY <1>4, <2>2 DEF Syncing
  <2> QED BY <1>1, <1>2, <1>4, <2>2, <2>3 DEF Syncing, Exchange
<1>5. CASE Draining
  <2>1. NoCode(up) /\ Front(up) /\ Whole(up, prog)
    BY <1>1, <1>5 DEF Draining
  <2>2. NoCode(up') /\ Front(up') /\ Whole(up', prog)
    BY <1>1, <1>3, <2>1, WholeInfo
  <2> QED BY <1>1, <1>2, <1>5, <2>2 DEF Draining, Exchange
<1>6. CASE Finishing
  <2>1. B \in Nat /\ 2*B + 1 \in Nat /\ 0 \in Nat
    BY Bounds
  <2>2. ASSUME NEW o \in Nat, NEW w, WordAt(up, o, w) PROVE WordAt(up', o, w)
    BY <1>1, <1>3, <2>2, WordAtLeft
  <2> QED BY <1>1, <1>2, <1>6, <2>1, <2>2 DEF Finishing, Exchange
<1> QED BY <1>1, <1>4, <1>5, <1>6 DEF Exchange, Summing, Loading

\* It polls.
LEMMA CalmPoll ==
    ASSUME BootInv, UpInv, Exchange, PiTimeout \/ PiHasData
    PROVE  Exchange'
<1>1. /\ pc = "poll" /\ UNCHANGED <<addr, nbytes, cksum, i, mem, up, rx, down, upc, prog>>
      /\ pc' = "wait" \/ (pc' = "op" /\ rx # <<>>)
  BY DEF PiTimeout, PiHasData, PiUnchanged, uvars, line
<1>2. Stream' = Stream /\ (pc' = "op" => Stream # <<>>)
  BY <1>1, CalmTypes DEF Stream
<1>3. CASE Syncing
  BY <1>1, <1>2, <1>3 DEF Syncing, Exchange
<1>4. CASE Draining
  BY <1>1, <1>2, <1>4 DEF Draining, Exchange
<1>5. CASE Finishing
  BY <1>1, <1>2, <1>5 DEF Finishing, Exchange
<1> QED BY <1>1, <1>3, <1>4, <1>5 DEF Exchange, Summing, Loading

\* It reads a word of the header.
LEMMA CalmHeader ==
    ASSUME BootInv, UpInv, Exchange, PiOp \/ PiHeader
    PROVE  Exchange'
<1>1. /\ pc \in {"op", "addr", "nbytes", "cksum"} /\ Len(rx) >= B
      /\ UNCHANGED <<upc, prog>>
  BY DEF PiOp, PiHeader, PiUnchanged, uvars
<1>2. Draining
  BY <1>1 DEF Exchange, Syncing, Summing, Loading, Finishing
<1>3. LineInv /\ prog \in Program /\ B \in Nat \ {0} /\ B \in Nat
  BY CalmTypes
<1>4. /\ B - B = 0 /\ B <= B /\ B + B \in Nat /\ (B + B) - B = B /\ B <= B + B
      /\ 4*B - B = 3*B /\ 3*B - B = 2*B /\ 2*B - B = B /\ 0 \in Nat /\ 0 + B = B
  BY <1>3
<1>5. ASSUME rx' = DropN(rx, B), down' = down
      PROVE  /\ Stream \in Seq(OnLine) /\ B \in 0..Len(Stream) /\ Stream' = DropN(Stream, B)
             /\ Len(Stream') = Len(Stream) - B
             /\ \A w : w = <<w[1], w[2]>> /\ WordAt(Stream, 0, w) => Word(rx) = w
  <2>1. /\ Stream \in Seq(OnLine) /\ B \in 0..Len(Stream) /\ Stream' = DropN(Stream, B)
        /\ \A k \in 1..B : Stream[k] = rx[k]
    BY <1>1, <1>3, <1>5, WordTaken DEF Stream
  <2>2. Len(Stream') = Len(Stream) - B
    BY <2>1, Dropped
  <2> QED BY <2>1, <2>2, WordRead
<1>6. \A w : w = <<w[1], w[2]>> /\ WordAt(Stream, 0, w) => Word(rx) = w
  <2>1. /\ Stream \in Seq(OnLine) /\ \A k \in 1..B : Stream[k] = rx[k]
    <3>1. rx \in Seq(OnLine) /\ down \in Seq(OnLine)
      BY <1>3 DEF LineInv
    <3>2. \A k \in 1..B : k \in 1..Len(rx)
      BY <1>1, <1>3, CalmTypes
    <3> QED BY <3>1, <3>2, CalmTypes, ConcatProperties DEF Stream
  <2> QED BY <2>1, WordRead
<1>7. CASE PiOp
  <2>1. /\ pc = "op" /\ Len(Stream) = 4*B /\ WordAt(Stream, 0, PUT_PROG_INFO)
        /\ RequestAt(Stream, B, prog)
    BY <1>2, <1>7 DEF Draining, PiOp
  <2>2. Word(rx) = PUT_PROG_INFO
    BY <1>6, <2>1, UpTags
  <2>3. /\ pc' = "addr" /\ rx' = DropN(rx, B)
        /\ UNCHANGED <<addr, nbytes, cksum, i, mem, up, down>>
    BY <1>7, <2>2 DEF PiOp
  <2>4. Len(Stream') = 3*B /\ RequestAt(Stream', 0, prog)
    BY <1>3, <1>4, <1>5, <2>1, <2>3, RequestDrop
  <2> QED BY <1>1, <1>2, <2>1, <2>3, <2>4 DEF Draining, Exchange
<1>8. CASE PiHeader
  <2>1. /\ rx' = DropN(rx, B) /\ UNCHANGED <<i, mem, up, down>>
    BY <1>8 DEF PiHeader
  <2>2. /\ Stream \in Seq(OnLine) /\ B \in 0..Len(Stream) /\ Stream' = DropN(Stream, B)
        /\ Len(Stream') = Len(Stream) - B
    BY <1>5, <2>1
  <2>3. CASE pc = "addr"
    <3>1. Len(Stream) = 3*B /\ WordAt(Stream, 0, Num(prog.addr)) /\ SizeAt(Stream, B, prog)
      BY <1>2, <1>4, <2>3 DEF Draining, RequestAt
    <3>2. Word(rx) = Num(prog.addr)
      BY <1>6, <3>1 DEF Num
    <3>3. pc' = "nbytes" /\ addr' = prog.addr /\ UNCHANGED <<nbytes, cksum>>
      BY <1>8, <2>3, <3>2 DEF PiHeader, Reads, Num
    <3>4. Len(Stream') = 2*B /\ SizeAt(Stream', 0, prog)
      BY <1>3, <1>4, <2>2, <3>1, RequestDrop
    <3> QED BY <1>1, <1>2, <2>1, <2>3, <3>3, <3>4 DEF Draining, Exchange
  <2>4. CASE pc = "nbytes"
    <3>1. /\ addr = prog.addr /\ Len(Stream) = 2*B /\ WordAt(Stream, 0, Num(prog.n))
          /\ WordAt(Stream, B, prog.crc)
      BY <1>2, <1>4, <2>4 DEF Draining, SizeAt
    <3>2. Word(rx) = Num(prog.n)
      BY <1>6, <3>1 DEF Num
    <3>3. pc' = "cksum" /\ nbytes' = prog.n /\ UNCHANGED <<addr, cksum>>
      BY <1>8, <2>4, <3>2 DEF PiHeader, Reads, Num
    <3>4. Len(Stream') = B /\ WordAt(Stream', 0, prog.crc)
      BY <1>3, <1>4, <2>2, <3>1, WordAtDrop
    <3> QED BY <1>1, <1>2, <2>1, <2>4, <3>1, <3>3, <3>4 DEF Draining, Exchange
  <2>5. CASE pc = "cksum"
    <3>1. /\ addr = prog.addr /\ nbytes = prog.n /\ Len(Stream) = B
          /\ WordAt(Stream, 0, prog.crc)
      BY <1>2, <2>5 DEF Draining
    <3>2. Word(rx) = prog.crc
      BY <1>3, <1>6, <3>1, CrcAssumption
    <3>3. pc' = "check" /\ cksum' = prog.crc /\ UNCHANGED <<addr, nbytes>>
      BY <1>8, <2>5, <3>2 DEF PiHeader
    <3>4. Stream' = <<>>
      BY <1>3, <2>2, <3>1, Dropped, EmptySeq
    <3>5. Holding'
      BY <1>1, <3>1, <3>3 DEF Holding
    <3> QED BY <1>1, <1>2, <2>1, <2>5, <3>3, <3>4, <3>5 DEF Draining, Exchange
  <2> QED BY <1>8, <2>3, <2>4, <2>5 DEF PiHeader
<1> QED BY <1>7, <1>8

\* It checks the header, and asks for the code.
LEMMA CalmCheck ==
    ASSUME Distinct, BootInv, UpInv, Fits, Exchange, PiCheck
    PROVE  Exchange'
<1>1. pc = "check" /\ UNCHANGED <<upc, prog>>
  BY DEF PiCheck, PiUnchanged, uvars
<1>2. Draining
  BY <1>1 DEF Exchange, Syncing, Summing, Loading, Finishing
<1>3. Stream = <<>> /\ Holding /\ NoCode(up) /\ Front(up) /\ Whole(up, prog)
  BY <1>1, <1>2 DEF Draining
<1>4. prog \in Program /\ up \in Seq(UpByte)
  BY CalmTypes
<1>5. /\ pc' = "code" /\ up' = (up \o Put32(GET_CODE)) \o Put32(cksum)
      /\ UNCHANGED <<addr, nbytes, cksum, i, mem, rx, down>>
  BY <1>3, <1>4, FitsPasses DEF PiCheck
<1>6. Stream' = Stream /\ Holding'
  BY <1>1, <1>3, <1>5 DEF Stream, Holding
<1>7. up' = up \o (Put32(GET_CODE) \o Put32(prog.crc))
  <2> DEFINE a == Put32(GET_CODE)
             b == Put32(prog.crc)
  <2>1. a \in Seq(UpByte) /\ b \in Seq(UpByte)
    <3>1. GET_CODE \in UpWords /\ prog.crc \in UpWords
      BY <1>4, SendableWords DEF UpWords
    <3> QED BY <3>1, SaidWord
  <2>2. up' = (up \o a) \o b
    BY <1>3, <1>5 DEF Holding
  <2> HIDE DEF a, b
  <2>3. up' = up \o (a \o b)
    BY <1>4, <2>1, <2>2, ConcatAssociative
  <2> QED BY <2>3 DEF a, b
<1>8. Whole(up', prog) /\ ~NoCode(up') /\ Front(up')
  BY <1>3, <1>4, <1>7, WholeCode
<1> QED BY <1>1, <1>2, <1>3, <1>5, <1>6, <1>8 DEF Draining, Exchange

\* It reads PUT_CODE.
LEMMA CalmPutCode ==
    ASSUME BootInv, UpInv, Exchange, PiPutCode
    PROVE  Exchange'
<1>1. pc = "code" /\ Len(rx) >= B /\ UNCHANGED <<upc, prog>>
  BY DEF PiPutCode, PiUnchanged, uvars
<1>2. Stream # <<>>
  BY <1>1, CalmTypes
<1>3. Loading
  BY <1>1, <1>2 DEF Exchange, Syncing, Draining, Summing, Finishing
<1>4. /\ upc = "success" /\ up = <<>> /\ Holding /\ Len(Stream) = B + prog.n
      /\ WordAt(Stream, 0, PUT_CODE) /\ \A k \in 1..prog.n : Stream[B + k] = Code(prog)[k]
  BY <1>1, <1>3 DEF Loading
<1>5. LineInv /\ B \in Nat /\ prog \in Program /\ prog.n \in Nat
  BY CalmTypes, BootAssumption
<1>6. Word(rx) = PUT_CODE
  <2>1. \A k \in 1..B : Stream[k] = rx[k]
    <3>1. rx \in Seq(OnLine) /\ down \in Seq(OnLine)
      BY <1>5 DEF LineInv
    <3>2. \A k \in 1..B : k \in 1..Len(rx)
      BY <1>1, <1>5, CalmTypes
    <3> QED BY <3>1, <3>2, CalmTypes, ConcatProperties DEF Stream
  <2> QED BY <1>4, <2>1, WordRead, UpTags
<1>7. /\ pc' = "bytes" /\ rx' = DropN(rx, B)
      /\ UNCHANGED <<addr, nbytes, cksum, i, mem, up, down>>
  BY <1>6 DEF PiPutCode
<1>8. /\ Stream \in Seq(OnLine) /\ B \in 0..Len(Stream) /\ Stream' = DropN(Stream, B)
  BY <1>1, <1>5, <1>7, WordTaken DEF Stream
<1>9. i = 0
  BY <1>1 DEF BootInv, PiInv
<1>10. Len(Stream') = prog.n /\ \A k \in 1..prog.n : Stream'[k] = Code(prog)[k]
  <2>1. /\ Len(Stream') = Len(Stream) - B
        /\ \A k \in 1..Len(Stream) - B : Stream'[k] = Stream[B + k]
    BY <1>8, Dropped
  <2>2. Len(Stream) - B = prog.n
    BY <1>4, <1>5
  <2> QED BY <1>4, <2>1, <2>2
<1>11. Holding'
  BY <1>1, <1>4, <1>7 DEF Holding
<1>12. /\ Len(Stream') = prog.n - i /\ \A k \in 1..prog.n - i : Stream'[k] = Code(prog)[i + k]
       /\ \A k \in 0..i-1 : FALSE
  <2>1. prog.n - i = prog.n /\ \A k \in 1..prog.n : i + k = k
    BY <1>5, <1>9
  <2> QED BY <1>9, <1>10, <2>1
<1> QED BY <1>1, <1>4, <1>7, <1>11, <1>12 DEF Loading, Exchange

\* It stores a byte of the code.
LEMMA CalmByte ==
    ASSUME BootInv, UpInv, Exchange, PiByte
    PROVE  Exchange'
<1>1. /\ pc = "bytes" /\ i < nbytes /\ rx # <<>> /\ i' = i + 1 /\ rx' = Tail(rx)
      /\ mem' = [mem EXCEPT ![(addr + i) % WordMod] = Head(rx)]
      /\ UNCHANGED <<pc, addr, nbytes, cksum, up, down, upc, prog>>
  BY DEF PiByte, PiUnchanged, uvars
<1>2. Loading
  BY <1>1 DEF Exchange, Syncing, Draining, Summing, Finishing
<1>3. /\ upc = "success" /\ up = <<>> /\ Holding /\ Len(Stream) = prog.n - i
      /\ \A k \in 1..prog.n - i : Stream[k] = Code(prog)[i + k]
      /\ \A k \in 0..i-1 : mem[(addr + k) % WordMod] = Code(prog)[k + 1]
  BY <1>1, <1>2 DEF Loading
<1>4. /\ WordMod \in Nat \ {0} /\ addr \in 0..WordMod-1 /\ nbytes \in 0..WordMod-1
      /\ i \in 0..nbytes /\ DOMAIN mem = 0..WordMod-1 /\ i + 1 \in 1..nbytes
      /\ nbytes = prog.n
  BY <1>1, <1>3, Bounds DEF BootInv, PiInv, Value, Holding
<1>5. /\ rx \in Seq(OnLine) /\ down \in Seq(OnLine) /\ Stream \in Seq(OnLine)
      /\ 1 \in 0..Len(rx) /\ 1 \in 0..Len(Stream) /\ Tail(rx) = DropN(rx, 1)
      /\ Head(rx) = Stream[1]
  <2>1. /\ rx \in Seq(OnLine) /\ down \in Seq(OnLine) /\ Stream \in Seq(OnLine)
        /\ Len(rx) \in Nat \ {0} /\ Len(Stream) = Len(rx) + Len(down) /\ Len(down) \in Nat
    BY <1>1, CalmTypes DEF LineInv
  <2>2. Tail(rx) = SubSeq(rx, 1 + 1, Len(rx))
    BY <1>1, <2>1
  <2>3. Head(rx) = rx[1]
    BY <2>1
  <2>4. rx[1] = Stream[1]
    BY <2>1, ConcatProperties DEF Stream
  <2> QED BY <2>1, <2>2, <2>3, <2>4 DEF DropN
<1>6. Stream' = DropN(Stream, 1)
  <2>1. DropN(rx, 1) \o down = DropN(rx \o down, 1)
    BY <1>5, DropConcat
  <2> QED BY <1>1, <1>5, <2>1 DEF Stream
<1>7. /\ Len(Stream') = prog.n - i' /\ \A k \in 1..prog.n - i' : Stream'[k] = Code(prog)[i' + k]
  <2>1. /\ Len(Stream') = Len(Stream) - 1
        /\ \A k \in 1..Len(Stream) - 1 : Stream'[k] = Stream[1 + k]
    BY <1>5, <1>6, Dropped
  <2>2. /\ Len(Stream) - 1 = prog.n - i'
        /\ \A k \in 1..prog.n - i' : 1 + k \in 1..prog.n - i /\ i' + k = i + (1 + k)
    BY <1>1, <1>3, <1>4
  <2> QED BY <1>3, <2>1, <2>2
<1>8. ASSUME NEW k \in 0..i'-1 PROVE mem'[(addr + k) % WordMod] = Code(prog)[k + 1]
  <2>1. /\ i \in 0..WordMod-1 /\ k \in 0..WordMod-1 /\ (k = i \/ k \in 0..i-1)
        /\ (addr + i) % WordMod \in 0..WordMod-1 /\ (addr + k) % WordMod \in 0..WordMod-1
    BY <1>1, <1>4
  <2>2. CASE k = i
    <3>1. mem'[(addr + i) % WordMod] = Stream[1]
      BY <1>1, <1>4, <1>5, <2>1
    <3>2. 1 \in 1..prog.n - i /\ Stream[1] = Code(prog)[i + 1]
      BY <1>3, <1>4
    <3> QED BY <2>2, <3>1, <3>2
  <2>3. CASE k \in 0..i-1
    <3>1. (addr + i) % WordMod # (addr + k) % WordMod
      <4>1. i # k
        BY <1>4, <2>3
      <4> QED BY <1>4, <2>1, <4>1, Wraps
    <3>2. mem'[(addr + k) % WordMod] = mem[(addr + k) % WordMod]
      BY <1>1, <1>4, <2>1, <3>1
    <3> QED BY <1>3, <2>3, <3>2
  <2> QED BY <2>1, <2>2, <2>3
<1>9. Holding'
  BY <1>1, <1>3 DEF Holding
<1> QED BY <1>1, <1>3, <1>7, <1>8, <1>9 DEF Loading, Exchange

\* Words of a message.
LEMMA PutkWords ==
    LET t == Putk \o Put32(BOOT_SUCCESS)
    IN  /\ Putk \in Seq(UpByte) /\ Put32(BOOT_SUCCESS) \in Seq(UpByte) /\ t \in Seq(UpByte)
        /\ WordAt(t, 0, PRINT_STRING) /\ WordAt(t, B, Strlen) /\ WordAt(t, 2*B + 1, BOOT_SUCCESS)
<1> DEFINE P == Put32(PRINT_STRING)
           L == Put32(Strlen)
           C == <<<<"char", 0, 0>>>>
           D == Put32(BOOT_SUCCESS)
<1>1. /\ B \in Nat /\ 0 \in Nat /\ B + 0 = B /\ B + B = 2*B /\ 2*B \in Nat /\ 2*B + 1 \in Nat
      /\ (2*B + 1) + 0 = 2*B + 1 /\ \A k \in 1..B : 0 + k = k
  BY Bounds
<1>2. ASSUME NEW w \in UpWords
      PROVE  Put32(w) \in Seq(UpByte) /\ Len(Put32(w)) = B /\ WordAt(Put32(w), 0, w)
  <2>1. /\ Put32(w) \in Seq(UpByte) /\ Len(Put32(w)) = B
        /\ \A k \in 1..B : Put32(w)[k] = <<w[1], w[2], k - 1>>
    BY SaidWord
  <2> QED BY <1>1, <2>1 DEF WordAt
<1>3. /\ P \in Seq(UpByte) /\ L \in Seq(UpByte) /\ D \in Seq(UpByte) /\ Len(P) = B /\ Len(L) = B
      /\ WordAt(P, 0, PRINT_STRING) /\ WordAt(L, 0, Strlen) /\ WordAt(D, 0, BOOT_SUCCESS)
  <2>1. PRINT_STRING \in UpWords /\ Strlen \in UpWords /\ BOOT_SUCCESS \in UpWords
    BY DEF UpWords
  <2> QED BY <1>2, <2>1
<1>4. C \in Seq(UpByte) /\ Len(C) = 1
  <2>1. <<"char", 0, 0>> \in UpByte
    <3>1. <<"char", 0, 0>> = <<<<"char", 0>>[1], <<"char", 0>>[2], 0>> /\ <<"char", 0>> \in UpWords
      BY DEF UpWords
    <3> QED BY <3>1 DEF UpByte
  <2> QED BY <2>1
<1>5. Putk = (P \o L) \o C
  BY DEF Putk
<1> HIDE DEF P, L, C, D
<1> DEFINE M == P \o L
<1>6. M \in Seq(UpByte) /\ Len(M) = 2*B /\ WordAt(M, 0, PRINT_STRING) /\ WordAt(M, B, Strlen)
  <2>1. M \in Seq(UpByte) /\ Len(M) = Len(P) + Len(L)
    BY <1>3, SaidIn
  <2>2. WordAt(M, 0, PRINT_STRING) /\ WordAt(M, Len(P) + 0, Strlen)
    BY <1>1, <1>3, WordAtLeft, WordAtRight
  <2> QED BY <1>1, <1>3, <2>1, <2>2
<1> HIDE DEF M
<1> DEFINE K == M \o C
<1>7. /\ K \in Seq(UpByte) /\ Len(K) = 2*B + 1
      /\ WordAt(K, 0, PRINT_STRING) /\ WordAt(K, B, Strlen)
  <2>1. K \in Seq(UpByte) /\ Len(K) = Len(M) + Len(C)
    BY <1>4, <1>6, SaidIn
  <2>2. WordAt(K, 0, PRINT_STRING) /\ WordAt(K, B, Strlen)
    BY <1>1, <1>4, <1>6, WordAtLeft
  <2> QED BY <1>1, <1>4, <1>6, <2>1, <2>2
<1>8. K = Putk
  BY <1>5 DEF M
<1> HIDE DEF K
<1> DEFINE T == K \o D
<1>9. /\ T \in Seq(UpByte) /\ WordAt(T, 0, PRINT_STRING) /\ WordAt(T, B, Strlen)
      /\ WordAt(T, 2*B + 1, BOOT_SUCCESS)
  <2>1. T \in Seq(UpByte)
    BY <1>3, <1>7, SaidIn
  <2>2. WordAt(T, 0, PRINT_STRING) /\ WordAt(T, B, Strlen) /\ WordAt(T, Len(K) + 0, BOOT_SUCCESS)
    BY <1>1, <1>3, <1>7, WordAtLeft, WordAtRight
  <2> QED BY <1>1, <1>7, <2>1, <2>2
<1> QED BY <1>3, <1>7, <1>8, <1>9 DEF D

\* It has them all, and they are those of the program that was sent.
LEMMA CalmFinish ==
    ASSUME BootInv, UpInv, Exchange, PiFinish
    PROVE  Exchange'
<1>1. pc = "bytes" /\ i = nbytes /\ UNCHANGED <<upc, prog>>
  BY DEF PiFinish, uvars
<1>2. Loading
  BY <1>1 DEF Exchange, Syncing, Draining, Summing, Finishing
<1>3. /\ upc = "success" /\ up = <<>> /\ Holding /\ Len(Stream) = prog.n - i
      /\ \A k \in 0..i-1 : mem[(addr + k) % WordMod] = Code(prog)[k + 1]
  BY <1>1, <1>2 DEF Loading
<1>4. prog \in Program /\ prog.n \in Nat \ {0} /\ prog.addr # 0
  BY CalmTypes, BootAssumption
<1>5. Stream = <<>> /\ Holds(addr, prog) /\ addr # 0
  BY <1>1, <1>3, <1>4, CalmTypes DEF Holds, Holding
<1>6. CrcMatches
  <2> DEFINE x == CHOOSE p \in Program : p.n = nbytes /\ Holds(addr, p)
  <2>1. \E p \in Program : p.n = nbytes /\ Holds(addr, p)
    BY <1>3, <1>4, <1>5 DEF Holding
  <2>2. x \in Program /\ x.n = nbytes /\ Holds(addr, x)
    BY <2>1
  <2>3. Crc(addr, nbytes) = x.crc
    BY <2>1 DEF Crc
  <2> HIDE DEF x
  <2>4. 0 \in 0..prog.n-1 /\ x.n = prog.n
    BY <1>3, <1>4, <2>2 DEF Holding
  <2>5. Code(x)[0 + 1] = Code(prog)[0 + 1]
    BY <1>5, <2>2, <2>4 DEF Holds
  <2>6. Code(x)[1] = <<"code", x.id, 0>> /\ Code(prog)[1] = <<"code", prog.id, 0>>
    BY <1>4, <2>4 DEF Code
  <2>7. x.id = prog.id
    BY <2>5, <2>6
  <2>8. x.crc = prog.crc
    BY <1>4, <2>2, <2>4, <2>7, CrcAssumption
  <2> QED BY <1>3, <2>3, <2>8 DEF CrcMatches, Holding
<1>7. /\ up' = (up \o Putk) \o Put32(BOOT_SUCCESS) /\ pc' = "running"
      /\ UNCHANGED <<addr, nbytes, cksum, i, mem, down, rx>>
  BY <1>5, <1>6 DEF PiFinish
<1>8. up' = Putk \o Put32(BOOT_SUCCESS)
  <2>1. up \o Putk = Putk
    BY <1>3, PutkWords, ConcatEmptySeq
  <2> QED BY <1>7, <2>1
<1>9. Stream' = <<>>
  BY <1>5, <1>7 DEF Stream
<1> QED BY <1>1, <1>3, <1>7, <1>8, <1>9, PutkWords DEF Finishing, Exchange

\* Every step of the pi.
LEMMA CalmPi ==
    ASSUME Distinct, BootInv, UpInv, Fits, Exchange, Pi
    PROVE  Exchange'
BY CalmAnnounce, CalmPoll, CalmHeader, CalmCheck, CalmPutCode, CalmByte, CalmFinish DEF Pi

\* A header on an idle line.
LEMMA HeaderFirst ==
    ASSUME NEW q \in Program
    PROVE  (((<<>> \o Put32(PUT_PROG_INFO)) \o Put32(Num(q.addr))) \o Put32(Num(q.n)))
               \o Put32(q.crc) = Header(q)
<1> DEFINE a == Put32(PUT_PROG_INFO)
           b == Put32(Num(q.addr))
           c == Put32(Num(q.n))
           d == Put32(q.crc)
           e == a \o b
           f == b \o c
<1>1. a \in Seq(OnLine) /\ b \in Seq(OnLine) /\ c \in Seq(OnLine) /\ d \in Seq(OnLine)
  BY SendableWords, Put32Type
<1> HIDE DEF a, b, c, d
<1>2. <<>> \o a = a /\ f \in Seq(OnLine)
  BY <1>1, ConcatEmptySeq, ConcatProperties
<1>3. e \o c = a \o f
  BY <1>1, OnLineAssociative
<1> HIDE DEF f
<1>4. (a \o f) \o d = a \o (f \o d)
  BY <1>1, <1>2, OnLineAssociative
<1>5. (((<<>> \o a) \o b) \o c) \o d = a \o ((b \o c) \o d)
  BY <1>2, <1>3, <1>4 DEF e, f
<1> QED BY <1>5 DEF Header, a, b, c, d

\* What comes first when the laptop waits for a GET_CODE.
LEMMA DrainFront ==
    ASSUME BootInv, UpInv, Draining, up # <<>>
    PROVE  /\ Len(up) >= B
           /\ \/ up[1] = InfoByte /\ Word(up) = GET_PROG_INFO
              \/ up[1] = CodeByte /\ Word(up) = GET_CODE
<1>1. /\ Whole(up, prog) /\ up[1] \in {InfoByte, CodeByte} /\ 1 \in 1..Len(up) /\ 1 - 1 = 0
      /\ B \in 1..B /\ 0 + B = B /\ Len(up) \in Nat
  BY CalmTypes DEF Draining, Front
<1>2. CASE up[1] = InfoByte
  <2>1. WordAt(up, 0, GET_PROG_INFO)
    BY <1>1, <1>2 DEF Whole
  <2>2. Word(up) = GET_PROG_INFO /\ B \in 1..Len(up)
    BY <1>1, <2>1, WordReads, UpTags
  <2> QED BY <1>2, <2>2
<1>3. CASE up[1] = CodeByte
  <2>1. WordAt(up, 0, GET_CODE)
    BY <1>1, <1>3 DEF Whole
  <2>2. Word(up) = GET_CODE /\ B \in 1..Len(up)
    BY <1>1, <2>1, WordReads, UpTags
  <2> QED BY <1>3, <2>2
<1> QED BY <1>1, <1>2, <1>3

\* The word that the laptop has yet to read is the checksum, and not an opcode.
LEMMA SumFront ==
    ASSUME Distinct, BootInv, UpInv, Summing
    PROVE  Word(up) = prog.crc /\ prog.crc # PRINT_STRING
<1>1. prog.crc = <<prog.crc[1], prog.crc[2]>> /\ prog.crc[1] \notin Told
  BY CalmTypes, CrcAssumption DEF Distinct
<1>2. Word(up) = prog.crc
  BY <1>1, WordReads DEF Summing
<1> QED BY <1>1, <1>2, UpTags DEF Told

\* It reads BOOT_SUCCESS, perhaps behind a message.
LEMMA SuccessFront ==
    ASSUME BootInv, UpInv, Finishing, upc = "success"
    PROVE  /\ Len(up) >= B
           /\ \/ Word(up) = BOOT_SUCCESS
              \/ /\ Word(up) = PRINT_STRING /\ Len(up) > 2*B /\ Word(DropN(up, B)) = Strlen
                 /\ WordAt(DropN(up, 2*B + 1), 0, BOOT_SUCCESS)
<1>1. /\ up \in Seq(UpByte) /\ Len(up) \in Nat /\ B \in Nat \ {0} /\ 1 \in 1..B /\ B \in 1..B
      /\ B \in Nat /\ 2*B + 1 \in Nat /\ B - B = 0 /\ (2*B + 1) - (2*B + 1) = 0
      /\ B <= B /\ 2*B + 1 <= 2*B + 1
  BY CalmTypes
<1>2. CASE WordAt(up, 0, BOOT_SUCCESS)
  BY <1>1, <1>2, WordReads, UpTags
<1>3. CASE /\ WordAt(up, 0, PRINT_STRING) /\ WordAt(up, B, Strlen)
           /\ WordAt(up, 2*B + 1, BOOT_SUCCESS)
  <2>1. Word(up) = PRINT_STRING /\ B \in 1..Len(up)
    BY <1>1, <1>3, WordReads, UpTags
  <2>2. (2*B + 1) + 1 \in 1..Len(up)
    BY <1>1, <1>3 DEF WordAt
  <2>3. B \in 0..Len(up) /\ 2*B + 1 \in 0..Len(up) /\ Len(up) > 2*B
    BY <1>1, <2>2
  <2>4. WordAt(DropN(up, B), 0, Strlen)
    BY <1>1, <1>3, <2>3, WordAtDrop
  <2>5. WordAt(DropN(up, 2*B + 1), 0, BOOT_SUCCESS)
    BY <1>1, <1>3, <2>3, WordAtDrop
  <2>6. Word(DropN(up, B)) = Strlen
    BY <2>4, WordReads, UpTags
  <2> QED BY <1>1, <2>1, <2>3, <2>5, <2>6
<1> QED BY <1>2, <1>3 DEF Finishing

\* The garbage and the GET_PROG_INFOs that the laptop meets first hold no other word.
LEMMA SyncFront ==
    ASSUME BootInv, UpInv, Syncing, Len(up) >= B
    PROVE  Word(up) # PRINT_STRING
<1>1. up \in Seq(UpByte) /\ 1 \in 1..B
  BY CalmTypes
<1>2. ASSUME Word(up) = PRINT_STRING PROVE FALSE
  <2>1. Word(up) = <<"PRINT_STRING", 0>>
    BY <1>2 DEF PRINT_STRING
  <2>2. 1 \in 1..Len(up) /\ up[1][1] = "PRINT_STRING"
    BY <1>1, <2>1, WordFound
  <2> QED BY <2>2 DEF Syncing
<1> QED BY <1>2

\* The laptop answers a GET_PROG_INFO.
LEMMA CalmSync ==
    ASSUME BootInv, UpInv, Exchange, UnixSync
    PROVE  Exchange'
<1>1. /\ upc = "sync" /\ UNCHANGED <<pc, addr, nbytes, cksum, i, mem, rx, prog>>
  BY DEF UnixSync, UnixUnchanged, pivars
<1>2. Syncing
  BY <1>1 DEF Exchange, Draining, Summing, Loading, Finishing
<1>3. /\ up \in Seq(UpByte) /\ Len(up) \in Nat /\ prog \in Program /\ B \in Nat \ {0}
      /\ Stream = <<>> /\ rx = <<>> /\ down = <<>> /\ Whole(up, prog)
      /\ \A k \in 1..Len(up) : up[k][1] \in {"junk", "GET_PROG_INFO"}
  BY <1>2, CalmTypes DEF Syncing
<1>4. ASSUME NEW m \in 0..Len(up), up' = DropN(up, m)
      PROVE  /\ Whole(up', prog) /\ Len(up') = Len(up) - m
             /\ \A k \in 1..Len(up) - m : m + k \in 1..Len(up) /\ up'[k] = up[m + k]
             /\ \A k \in 1..Len(up') : up'[k][1] \in {"junk", "GET_PROG_INFO"}
  <2>1. /\ Whole(up', prog) /\ Len(up') = Len(up) - m
        /\ \A k \in 1..Len(up) - m : up'[k] = up[m + k]
    BY <1>3, <1>4, WholeDrop, Dropped
  <2>2. \A k \in 1..Len(up) - m : m + k \in 1..Len(up)
    BY <1>3
  <2> QED BY <1>3, <2>1, <2>2
<1>5. CASE upc' = upc
  <2>1. /\ Len(up) >= Resync /\ up' = DropN(up, Resync) /\ UNCHANGED down
    BY <1>1, <1>5 DEF UnixSync
  <2>2. Resync \in 0..Len(up)
    BY <1>3, <2>1 DEF Resync
  <2>3. Stream' = Stream
    BY <1>1, <2>1 DEF Stream
  <2> QED BY <1>1, <1>2, <1>3, <1>4, <1>5, <2>1, <2>2, <2>3 DEF Syncing, Exchange
<1>6. CASE upc' = "drain"
  <2>1. /\ Len(up) >= B /\ Word(up) = GET_PROG_INFO /\ up' = DropN(up, B)
        /\ down' = (((down \o Put32(PUT_PROG_INFO)) \o Put32(Num(prog.addr)))
                        \o Put32(Num(prog.n))) \o Put32(prog.crc)
    BY <1>1, <1>6 DEF UnixSync, Op
  <2>2. B \in 0..Len(up)
    BY <1>3, <2>1
  <2>3. /\ Whole(up', prog) /\ Len(up') = Len(up) - B
        /\ \A k \in 1..Len(up) - B : B + k \in 1..Len(up) /\ up'[k] = up[B + k]
        /\ \A k \in 1..Len(up') : up'[k][1] \in {"junk", "GET_PROG_INFO"}
    BY <1>4, <2>1, <2>2
  <2>4. NoCode(up')
    BY <2>3, ByteTags DEF NoCode
  <2>5. up[1] = InfoByte /\ 1 \in 1..Len(up)
    <3>1. Word(up) = <<"GET_PROG_INFO", 0>>
      BY <2>1 DEF GET_PROG_INFO
    <3>2. 1 \in 1..B /\ 1 - 1 = 0
      BY CalmTypes
    <3>3. 1 \in 1..Len(up) /\ up[1] = <<"GET_PROG_INFO", 0, 1 - 1>>
      BY <1>3, <2>1, <3>1, <3>2, WordFound
    <3> QED BY <3>2, <3>3 DEF InfoByte
  <2>6. Front(up')
    <3>1. CASE Len(up) = B
      BY <1>3, <2>1, <3>1, DropAll DEF Front
    <3>2. CASE Len(up) # B
      <4>1. 1 + B <= Len(up) /\ 1 \in 1..Len(up) - B /\ B + 1 = 1 + B
        BY <1>3, <2>1, <3>2
      <4>2. up[1 + B] \in {InfoByte, CodeByte}
        BY <1>3, <2>5, <4>1 DEF Whole
      <4>3. up'[1] = up[1 + B]
        BY <2>3, <4>1
      <4> QED BY <4>2, <4>3 DEF Front
    <3> QED BY <3>1, <3>2
  <2>7. down' = Header(prog)
    BY <1>3, <2>1, HeaderFirst
  <2>8. Stream' = Header(prog)
    <3>1. Header(prog) \in Seq(OnLine)
      BY <1>3, HeaderSent
    <3> QED BY <1>1, <1>3, <2>7, <3>1, ConcatEmptySeq DEF Stream
  <2>9. Len(Stream') = 4*B /\ WordAt(Stream', 0, PUT_PROG_INFO) /\ RequestAt(Stream', B, prog)
    BY <1>3, <2>8, HeaderSent
  <2> QED BY <1>1, <1>2, <1>6, <2>3, <2>4, <2>6, <2>9 DEF Syncing, Draining, Exchange
<1> QED BY <1>1, <1>5, <1>6 DEF UnixSync

\* It skips what the pi repeats, and finds the GET_CODE.
LEMMA CalmDrain ==
    ASSUME BootInv, UpInv, Exchange, UnixDrain
    PROVE  Exchange'
<1>1. upc = "drain" /\ UNCHANGED <<pc, addr, nbytes, cksum, i, mem, rx, prog>>
  BY DEF UnixDrain, UnixUnchanged, pivars
<1>2. Draining
  BY <1>1 DEF Exchange, Syncing, Summing, Loading, Finishing
<1>3. /\ up \in Seq(UpByte) /\ Len(up) \in Nat /\ prog \in Program /\ B \in Nat \ {0}
      /\ Whole(up, prog) /\ 1 \in 1..B /\ 1 - 1 = 0
  BY <1>2, CalmTypes DEF Draining
<1>4. Len(up) >= B /\ up # <<>> /\ B \in 0..Len(up) /\ 1 \in 1..Len(up)
  <2>1. Len(up) >= B
    BY DEF UnixDrain, Op, OtherOp
  <2> QED BY <1>3, <2>1, CalmTypes
<1>5. ~OtherOp({GET_PROG_INFO, GET_CODE})
  BY <1>2, <1>4, DrainFront DEF OtherOp
<1>6. up' = DropN(up, B) /\ UNCHANGED down
  BY <1>5 DEF UnixDrain
<1>7. Stream' = Stream
  BY <1>1, <1>6 DEF Stream
<1>8. /\ Whole(up', prog) /\ Len(up') = Len(up) - B
      /\ \A k \in 1..Len(up) - B : up'[k] = up[B + k]
  BY <1>3, <1>4, <1>6, WholeDrop, Dropped
<1>9. CASE upc' = "drain"
  <2>1. Word(up) = GET_PROG_INFO
    BY <1>1, <1>5, <1>9 DEF UnixDrain, Op
  <2>2. up[1] = InfoByte
    BY <1>2, <1>4, <2>1, DrainFront, UpTags
  <2>3. WordAt(up, 0, GET_PROG_INFO)
    BY <1>3, <1>4, <2>2 DEF Whole
  <2>4. ASSUME NEW k \in 1..B PROVE up[k] # CodeByte
    <3>1. 0 + k = k
      BY <1>3
    <3>2. up[k] = <<GET_PROG_INFO[1], GET_PROG_INFO[2], k - 1>>
      BY <2>3, <3>1 DEF WordAt
    <3>3. up[k][1] = "GET_PROG_INFO"
      BY <3>2, UpTags
    <3> QED BY <3>3, ByteTags
  <2>5. NoCode(up') <=> NoCode(up)
    <3>1. ASSUME NEW k \in 1..Len(up'), up'[k] = CodeByte PROVE ~NoCode(up)
      <4>1. B + k \in 1..Len(up) /\ up[B + k] = CodeByte
        BY <1>3, <1>4, <1>8, <3>1
      <4> QED BY <4>1 DEF NoCode
    <3>2. ASSUME NEW k \in 1..Len(up), up[k] = CodeByte PROVE ~NoCode(up')
      <4>1. k \notin 1..B
        BY <2>4, <3>2
      <4>2. k - B \in 1..Len(up) - B /\ B + (k - B) = k
        BY <1>3, <4>1
      <4>3. k - B \in 1..Len(up') /\ up'[k - B] = CodeByte
        BY <1>8, <3>2, <4>2
      <4> QED BY <4>3 DEF NoCode
    <3> QED BY <3>1, <3>2 DEF NoCode
  <2>6. Front(up')
    <3>1. CASE Len(up) = B
      BY <1>3, <1>6, <3>1, DropAll DEF Front
    <3>2. CASE Len(up) # B
      <4>1. 1 + B <= Len(up) /\ 1 \in 1..Len(up) - B /\ B + 1 = 1 + B
        BY <1>3, <1>4, <3>2
      <4>2. up[1 + B] \in {InfoByte, CodeByte}
        BY <1>3, <1>4, <2>2, <4>1 DEF Whole
      <4>3. up'[1] = up[1 + B]
        BY <1>8, <4>1
      <4> QED BY <4>2, <4>3 DEF Front
    <3> QED BY <3>1, <3>2
  <2>7. Holding' <=> Holding
    BY <1>1 DEF Holding
  <2> QED BY <1>1, <1>2, <1>7, <1>8, <1>9, <2>5, <2>6, <2>7 DEF Draining, Exchange
<1>10. CASE upc' = "crc"
  <2>1. Word(up) = GET_CODE
    BY <1>1, <1>5, <1>10 DEF UnixDrain, Op
  <2>2. up[1] = CodeByte
    BY <1>2, <1>4, <2>1, DrainFront, UpTags
  <2>3. WordAt(up, B, prog.crc) /\ Len(up) = 2*B
    BY <1>3, <1>4, <2>2 DEF Whole
  <2>4. Len(up') = B /\ WordAt(up', 0, prog.crc)
    <3>1. B \in Nat /\ B <= B /\ B - B = 0 /\ 2*B - B = B
      BY <1>3
    <3> QED BY <1>3, <1>4, <1>6, <1>8, <2>3, <3>1, WordAtDrop
  <2>5. ~NoCode(up)
    BY <1>4, <2>2 DEF NoCode
  <2>6. pc = "code" /\ Stream = <<>> /\ Holding
    BY <1>2, <2>5 DEF Draining
  <2>7. Holding'
    BY <1>1, <2>6 DEF Holding
  <2> QED BY <1>1, <1>7, <1>10, <2>4, <2>6, <2>7 DEF Summing, Exchange
<1> QED BY <1>1, <1>5, <1>9, <1>10 DEF UnixDrain

\* It reads the checksum, and sends the code.
LEMMA CalmCrc ==
    ASSUME Distinct, BootInv, UpInv, Exchange, UnixCrc
    PROVE  Exchange'
<1>1. upc = "crc" /\ UNCHANGED <<pc, addr, nbytes, cksum, i, mem, rx, prog>>
  BY DEF UnixCrc, UnixUnchanged, pivars
<1>2. Summing
  BY <1>1 DEF Exchange, Syncing, Draining, Loading, Finishing
<1>3. /\ pc = "code" /\ Stream = <<>> /\ rx = <<>> /\ down = <<>> /\ Holding /\ Len(up) = B
      /\ up \in Seq(UpByte) /\ prog \in Program
  BY <1>2, CalmTypes DEF Summing
<1>4. Word(up) = prog.crc /\ prog.crc # PRINT_STRING
  BY <1>2, SumFront
<1>5. /\ up' = DropN(up, B) /\ upc' = "success"
      /\ down' = (down \o Put32(PUT_CODE)) \o Code(prog)
  BY <1>4 DEF UnixCrc, OtherOp
<1>6. up' = <<>>
  BY <1>3, <1>5, DropAll
<1> DEFINE a == Put32(PUT_CODE)
           b == Code(prog)
<1>7. /\ a \in Seq(OnLine) /\ Len(a) = B /\ WordAt(a, 0, PUT_CODE) /\ b \in Seq(OnLine)
      /\ Len(b) = prog.n /\ B \in Nat /\ prog.n \in Nat
  <2>1. PUT_CODE \in Sendable /\ prog.n \in Nat
    BY <1>3, SendableWords, BootAssumption
  <2>2. Len(b) = prog.n
    BY <2>1 DEF Code
  <2> QED BY <1>3, <2>1, <2>2, WordSent, CodeType, Bounds
<1>8. down' = (<<>> \o a) \o b
  BY <1>3, <1>5
<1> HIDE DEF a, b
<1>9. down' = a \o b /\ a \o b \in Seq(OnLine) /\ Len(a \o b) = B + prog.n
  <2>1. <<>> \o a = a
    BY <1>7, ConcatEmptySeq
  <2>2. a \o b \in Seq(OnLine) /\ Len(a \o b) = Len(a) + Len(b)
    BY <1>7, OnLineConcat
  <2> QED BY <1>7, <1>8, <2>1, <2>2
<1>10. Stream' = a \o b
  BY <1>1, <1>3, <1>9, ConcatEmptySeq DEF Stream
<1>11. WordAt(Stream', 0, PUT_CODE)
  <2>1. 0 \in Nat
    OBVIOUS
  <2> QED BY <1>7, <1>10, <2>1, WordAtLeft
<1>12. ASSUME NEW k \in 1..prog.n PROVE Stream'[B + k] = Code(prog)[k]
  <2>1. (a \o b)[B + k] = b[k]
    BY <1>7, ConcatProperties
  <2> QED BY <1>10, <2>1 DEF b
<1>13. Holding' /\ Len(Stream') = B + prog.n
  BY <1>1, <1>3, <1>9, <1>10 DEF Holding
<1> QED BY <1>1, <1>3, <1>5, <1>6, <1>11, <1>12, <1>13 DEF Loading, Exchange

\* It reads the BOOT_SUCCESS.
LEMMA CalmSuccess ==
    ASSUME BootInv, UpInv, Exchange, UnixSuccess
    PROVE  Exchange'
<1>1. upc = "success" /\ UNCHANGED <<pc, rx, prog>> /\ Len(up) >= B
  BY DEF UnixSuccess, UnixUnchanged, pivars, Op, OtherOp
<1>2. up # <<>>
  BY <1>1, CalmTypes
<1>3. Finishing
  BY <1>1, <1>2 DEF Exchange, Syncing, Draining, Summing, Loading
<1>4. Word(up) \in {BOOT_SUCCESS, PRINT_STRING} /\ BOOT_ERROR \notin {BOOT_SUCCESS, PRINT_STRING}
  BY <1>1, <1>3, SuccessFront DEF BOOT_ERROR, BOOT_SUCCESS, PRINT_STRING
<1>5. upc' = "done" /\ UNCHANGED down
  BY <1>4 DEF UnixSuccess, Op, OtherOp
<1>6. Stream' = Stream
  BY <1>1, <1>5 DEF Stream
<1> QED BY <1>1, <1>3, <1>5, <1>6 DEF Finishing, Exchange

\* It swallows the message before it.
LEMMA CalmPrint ==
    ASSUME Distinct, BootInv, UpInv, Exchange, UnixPrint
    PROVE  Exchange'
<1>1. /\ upc \in Reading /\ Len(up) >= 2*B /\ Word(up) = PRINT_STRING
      /\ UNCHANGED <<pc, rx, down, prog>>
  BY DEF UnixPrint, UnixUnchanged, pivars
<1>2. Len(up) >= B /\ up # <<>> /\ B \in Nat
  BY <1>1, CalmTypes
<1>3. ~Syncing
  BY <1>1, <1>2, SyncFront
<1>4. ~Draining
  BY <1>1, <1>2, DrainFront, UpTags
<1>5. ~Summing
  BY <1>1, SumFront
<1>6. Finishing /\ upc = "success"
  BY <1>1, <1>2, <1>3, <1>4, <1>5 DEF Exchange, Loading, Finishing, Reading
<1>7. Word(DropN(up, B)) = Strlen /\ WordAt(DropN(up, 2*B + 1), 0, BOOT_SUCCESS)
  BY <1>1, <1>6, SuccessFront, UpTags
<1>8. up' = DropN(up, 2*B + 1) /\ upc' = upc
  BY <1>7 DEF UnixPrint
<1>9. Stream' = Stream
  BY <1>1 DEF Stream
<1> QED BY <1>1, <1>6, <1>7, <1>8, <1>9 DEF Finishing, Exchange

\* Every step of the laptop.
LEMMA CalmUnix ==
    ASSUME Distinct, BootInv, UpInv, Exchange, Unix
    PROVE  Exchange'
<1>1. ~UnixEcho
  BY DEF UnixEcho, Exchange, Syncing, Draining, Summing, Loading, Finishing
<1> QED BY <1>1, CalmSync, CalmDrain, CalmCrc, CalmSuccess, CalmPrint DEF Unix

\* No read times out: when the laptop can not go on, the pi can.
LEMMA CalmTimeout ==
    ASSUME Distinct, BootInv, UpInv, Exchange
    PROVE  ~SilenceTimeout
<1> SUFFICES ASSUME SilenceTimeout PROVE FALSE
  OBVIOUS
<1>1. /\ PiWaits /\ down = <<>> /\ upc \in Reading /\ Starved
      /\ pc \in {"running", "op", "addr", "nbytes", "cksum", "code", "bytes"}
  BY DEF SilenceTimeout, ReadTimeout, PiWaits, Exchange, Syncing, Draining, Summing, Loading,
         Finishing
<1>2. /\ Len(Stream) = Len(rx) /\ Len(rx) \in Nat /\ B \in Nat \ {0} /\ Len(up) \in Nat
      /\ prog.n \in Nat \ {0}
  BY <1>1, CalmTypes, BootAssumption
<1>3. ~Syncing
  BY <1>1 DEF Syncing
<1>4. ASSUME Draining PROVE FALSE
  <2>1. CASE pc = "code"
    <3>1. ~NoCode(up) /\ upc = "drain"
      BY <1>4, <2>1 DEF Draining
    <3>2. up # <<>>
      <4>1. ASSUME up = <<>> PROVE FALSE
        <5>1. Len(up) = 0
          BY <4>1
        <5> QED BY <3>1, <5>1 DEF NoCode
      <4> QED BY <4>1
    <3>3. Len(up) >= B /\ Word(up) \in {GET_PROG_INFO, GET_CODE}
      BY <1>4, <3>2, DrainFront
    <3>4. Word(up) # PRINT_STRING
      BY <3>3, UpTags
    <3> QED BY <1>1, <1>2, <3>1, <3>3, <3>4 DEF Starved
  <2>2. CASE pc \in {"op", "addr", "nbytes", "cksum"}
    <3>1. Len(Stream) >= B
      BY <1>2, <1>4, <2>2 DEF Draining
    <3> QED BY <1>1, <1>2, <2>2, <3>1 DEF PiWaits
  <2> QED BY <1>1, <1>4, <2>1, <2>2 DEF Draining
<1>5. ASSUME Summing PROVE FALSE
  <2>1. Len(up) = B /\ Word(up) # PRINT_STRING /\ upc = "crc"
    BY <1>5, SumFront DEF Summing
  <2> QED BY <1>1, <1>2, <2>1 DEF Starved
<1>6. ASSUME Loading PROVE FALSE
  <2>1. CASE pc = "code"
    <3>1. Len(Stream) >= B
      BY <1>2, <1>6, <2>1 DEF Loading
    <3> QED BY <1>1, <1>2, <2>1, <3>1 DEF PiWaits
  <2>2. CASE pc = "bytes"
    <3>1. i \in Nat /\ i < prog.n /\ rx = <<>>
      BY <1>1, <1>6, <2>2 DEF PiWaits, Loading, Holding, BootInv, PiInv
    <3>2. Len(Stream) = prog.n - i /\ Len(rx) = 0
      BY <1>6, <2>2, <3>1 DEF Loading
    <3> QED BY <1>2, <3>1, <3>2
  <2> QED BY <1>6, <2>1, <2>2 DEF Loading
<1>7. ASSUME Finishing PROVE FALSE
  <2>1. upc = "success"
    BY <1>1, <1>7 DEF Finishing, Reading
  <2>2. /\ Len(up) >= B
        /\ Word(up) = BOOT_SUCCESS \/ (Word(up) = PRINT_STRING /\ Len(up) > 2*B)
    BY <1>7, <2>1, SuccessFront
  <2>3. BOOT_SUCCESS # PRINT_STRING
    BY UpTags
  <2> QED BY <1>1, <1>2, <2>1, <2>2, <2>3 DEF Starved
<1> QED BY <1>3, <1>4, <1>5, <1>6, <1>7 DEF Exchange

\* The line, and a program that ends.
LEMMA CalmOther ==
    ASSUME Distinct, BootInv, UpInv, Exchange,
           Deliver \/ ProgramEnds \/ SilenceTimeout \/ UNCHANGED vars
    PROVE  Exchange'
<1>1. CASE Deliver \/ UNCHANGED vars
  <2>1. UNCHANGED <<pc, addr, nbytes, cksum, i, mem, up, upc, prog>>
    BY <1>1 DEF Deliver, vars, pivars, line, uvars
  <2>2. Stream' = Stream
    <3>1. CASE Deliver
      <4>1. /\ rx \in Seq(OnLine) /\ down \in Seq(OnLine) /\ down # <<>>
            /\ rx' = Append(rx, Head(down)) /\ down' = Tail(down)
        BY <3>1, CalmTypes DEF Deliver, LineInv
      <4> QED BY <4>1, ConcatPop DEF Stream
    <3>2. CASE UNCHANGED vars
      BY <3>2 DEF vars, line, Stream
    <3> QED BY <1>1, <3>1, <3>2
  <2>3. Holding' <=> Holding
    BY <2>1 DEF Holding
  <2>4. CASE Syncing
    BY <2>1, <2>2, <2>4 DEF Syncing, Exchange
  <2>5. CASE Draining
    BY <2>1, <2>2, <2>3, <2>5 DEF Draining, Exchange
  <2>6. CASE Summing
    BY <2>1, <2>2, <2>3, <2>6 DEF Summing, Exchange
  <2>7. CASE Loading
    BY <2>1, <2>2, <2>3, <2>7 DEF Loading, Exchange
  <2>8. CASE Finishing
    BY <2>1, <2>2, <2>8 DEF Finishing, Exchange
  <2> QED BY <2>4, <2>5, <2>6, <2>7, <2>8 DEF Exchange
<1>2. CASE ProgramEnds
  <2>1. /\ pc = "running" /\ pc' = "wait" /\ rx' = <<>> /\ UNCHANGED <<up, upc, prog>>
        /\ \E n \in 0..Len(down) : down' = DropN(down, n)
    BY <1>2 DEF ProgramEnds, Reboot, uvars
  <2>2. Finishing
    BY <2>1 DEF Exchange, Syncing, Draining, Summing, Loading
  <2>3. down = <<>> /\ Len(down) = 0 /\ down \in Seq(OnLine)
    BY <2>2, CalmTypes DEF Finishing, LineInv
  <2>4. down' = <<>>
    <3>1. /\ 0 \in 0..Len(down) /\ down' = DropN(down, 0)
      BY <2>1, <2>3
    <3>2. DropN(down, 0) \in Seq(OnLine) /\ Len(DropN(down, 0)) = Len(down) - 0
      BY <2>3, <3>1, Dropped
    <3>3. Len(DropN(down, 0)) = 0
      BY <2>3, <3>2
    <3> QED BY <3>1, <3>2, <3>3, EmptySeq
  <2>5. Stream' = <<>>
    BY <2>1, <2>4, ConcatEmptySeq DEF Stream
  <2> QED BY <2>1, <2>2, <2>5 DEF Finishing, Exchange
<1> QED BY <1>1, <1>2, CalmTimeout

LEMMA InitCalm == Init => CalmInv
<1> SUFFICES ASSUME Init PROVE Syncing
  BY DEF CalmInv, Exchange
<1>1. PICK n \in 0..MaxGarbage : up = [k \in 1..n |-> JunkByte]
  BY DEF Init
<1>2. \A k \in 1..Len(up) : up[k][1] = "junk"
  <2>1. Len(up) = n
    BY <1>1
  <2> QED BY <1>1, <2>1 DEF JunkByte
<1>3. \A k \in 1..Len(up) : up[k][1] \in {"junk", "GET_PROG_INFO"}
  BY <1>2
<1>4. Whole(up, prog)
  BY <1>2, ByteTags, UpTags DEF Whole
<1>5. Stream = <<>>
  BY DEF Init, Stream
<1> QED BY <1>3, <1>4, <1>5 DEF Init, Syncing

LEMMA NextCalm ==
    ASSUME Distinct, BootInv, UpInv, CalmInv, [Next]_vars
    PROVE  CalmInv'
<1> SUFFICES ASSUME faults' = 0, runs' = 1, Fits' PROVE Exchange'
  BY DEF CalmInv
<1>1. /\ prog' = prog /\ faults = 0 /\ runs = 1
      /\ Pi \/ Unix \/ Deliver \/ ProgramEnds \/ SilenceTimeout \/ UNCHANGED vars
  BY CalmSteps
<1>2. Fits
  BY <1>1 DEF Fits
<1>3. Exchange
  BY <1>1, <1>2 DEF CalmInv
<1> QED BY <1>1, <1>2, <1>3, CalmPi, CalmUnix, CalmOther

\* Without a fault, whatever garbage the tty held at first, a first run of my-install does not
\* fail, unless its program collides with the boot code: the GET_PROG_INFOs that the pi repeats
\* are all skipped, nothing is taken for an opcode that is not one, and no read times out.
\* Where no checksum looks like a word of the protocol, for any number and length of programs.
THEOREM CleanRunSucceeds ==
    ASSUME Distinct
    PROVE  Spec => []NoFaultNoFail
<1>1. CalmInv => NoFaultNoFail
  BY DEF CalmInv, Fits, NoFaultNoFail, Exchange, Syncing, Draining, Summing, Loading, Finishing
<1>2. Init => CalmInv
  BY InitCalm
<1>3. BootInv /\ (UpInv /\ TrustInv) /\ CalmInv /\ [Next]_vars => CalmInv'
  BY NextCalm
<1>4. Spec => [](UpInv /\ TrustInv)
  BY Trusts
<1> QED BY <1>1, <1>2, <1>3, <1>4, Invariance, PTL DEF Spec

====
