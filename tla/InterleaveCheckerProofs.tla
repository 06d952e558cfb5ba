---------------------- MODULE InterleaveCheckerProofs ----------------------
(***************************************************************************)
(* What check() establishes about any A and B, of any number of            *)
(* instructions: it tries every cut, and tells the truth.                  *)
(***************************************************************************)
EXTENDS InterleaveChecker, WellFoundedInduction, TLAPS

----------------------------------------------------------------------------
(* Induction over the naturals, for a set                                *)

\* A set of natural numbers that is not empty has a least one.
LEMMA LeastExists ==
    ASSUME NEW T, T \subseteq Nat, T # {}
    PROVE  \E x \in T : \A y \in T : x <= y
<1>1. PICK x \in T : \A y \in T : ~ (<<y, x>> \in OpToRel(<, Nat))
  <2>1. IsWellFoundedOn(OpToRel(<, Nat), Nat)
    BY NatLessThanWellFounded
  <2> QED BY <2>1, WFMin, Zenon
<1>2. ASSUME NEW y \in T, ~(x <= y) PROVE FALSE
  <2>1. x \in Nat /\ y \in Nat /\ y < x
    BY <1>2
  <2>2. <<y, x>> \in Nat \X Nat /\ <<y, x>>[1] < <<y, x>>[2]
    BY <2>1
  <2>3. <<y, x>> \in OpToRel(<, Nat)
    BY <2>2 DEF OpToRel
  <2> QED BY <1>1, <2>3
<1> QED BY <1>2

\* A set that has 0, and with each natural number the next one, has them all.
LEMMA NatSetInduction ==
    ASSUME NEW S, 0 \in S, \A m \in S \cap Nat : m + 1 \in S
    PROVE  Nat \subseteq S
<1> SUFFICES ASSUME Nat \ S # {} PROVE FALSE
  OBVIOUS
<1>1. PICK x \in Nat \ S : \A y \in Nat \ S : x <= y
  <2> DEFINE T == Nat \ S
  <2>1. T \subseteq Nat /\ T # {}
    OBVIOUS
  <2> HIDE DEF T
  <2>2. \E x \in T : \A y \in T : x <= y
    BY <2>1, LeastExists
  <2> QED BY <2>2 DEF T
<1>2. x # 0
  OBVIOUS
<1>3. x - 1 \in Nat /\ ~(x <= x - 1) /\ x = (x - 1) + 1
  BY <1>2
<1>4. x - 1 \in S
  BY <1>1, <1>3
<1> QED BY <1>3, <1>4

----------------------------------------------------------------------------
(* The inductive invariant.                                                *)

\* A's address and state, and a point of A's runs.
Point(t) == [pc : 1..A_terminated(t), mem : State(t)]
Now == [pc |-> apc, mem |-> mem]

Running == pc \in {"user", "check"}
OkCuts(t) == {j \in CutPoints(t) : BAt(t, j).ok}

\* Before the checking loop nothing has been counted, and only SeqTrials trials are made.
NotYet ==
    /\ pc \in {"trial", "sequential", "panic"} => k = 1 /\ errors = 0 /\ inst_count = 0 /\ cuts = {}
    /\ pc = "sequential" => trial < SeqTrials

\* The handler has counted each instruction of A that was executed, the one it is at when
\* the mismatch breakpoint lets that one through, and once more the one B came before.
Counted ==
    /\ pc = "user" => mismatch # Off \/ apc = A_terminated(test)
    /\ Running => inst_count = executed + (IF mismatch = apc THEN 1 ELSE 0)
                                        + (IF switched_p THEN 1 ELSE 0)
    /\ pc = "check" => mismatch = Off /\ apc = A_terminated(test)

\* Before the switch A is where it gets alone, and B has failed wherever it was tried: at
\* each instruction from the k-th to the last one counted.
Alone ==
    Running /\ ~switched_p =>
        /\ Now = AtCut(test, executed)
        /\ \A j \in k - 1..inst_count - 1 : ~BAt(test, j).ok

\* After the switch A is where it gets from the first cut, of those from the k-th
\* instruction on, at which B succeeds.
AfterSwitch ==
    Running /\ switched_p =>
        \E c \in cuts :
           /\ k - 1 <= c /\ c <= executed
           /\ \A j \in k - 1..c - 1 : ~BAt(test, j).ok
           /\ Now = Switched(test, c, executed - c)
           /\ errors = 0 /\ WorksAt(test, c) <=> \A j \in cuts : WorksAt(test, j)

\* Tried were successful cuts only, and all of them before the (k-1)-th instruction.
Tried == cuts \subseteq OkCuts(test) /\ \A j \in OkCuts(test) : j <= k - 2 => j \in cuts

\* Except for the run under way, errors says whether all the cuts tried work.
Judged ==
    ~(Running /\ switched_p) => (errors = 0 <=> \A j \in cuts : WorksAt(test, j))

Concluded ==
    /\ pc \in {"return", "returned"} => OkCuts(test) \subseteq cuts
    /\ pc = "returned" => (ret <=> errors = 0)

IInv ==
    /\ TypeOK /\ interleaving_p = FALSE /\ errors < k
    /\ NotYet /\ Counted /\ Alone /\ AfterSwitch /\ Tried /\ Judged /\ Concluded

----------------------------------------------------------------------------
(* Where A gets in n instructions.                                         *)

\* The points of A from c on, one instruction after the other.
IsRun(f, t, c, n) == f = [i \in 0..n |-> IF i = 0 THEN c ELSE Step(t, f[i - 1])]

\* There is such a run of every length.
LEMMA RunExists ==
    ASSUME NEW t, NEW c, NEW n \in Nat
    PROVE  \E f : IsRun(f, t, c, n)
<1> DEFINE S == {m \in Nat : \E f : IsRun(f, t, c, m)}
<1>1. 0 \in S
  <2> DEFINE f == [i \in 0..0 |-> c]
  <2>1. f = [i \in 0..0 |-> IF i = 0 THEN c ELSE Step(t, f[i - 1])]
    OBVIOUS
  <2> HIDE DEF f
  <2>2. IsRun(f, t, c, 0)
    BY <2>1 DEF IsRun
  <2> QED BY <2>2
<1>2. ASSUME NEW m \in S \cap Nat PROVE m + 1 \in S
  <2>1. PICK f : f = [i \in 0..m |-> IF i = 0 THEN c ELSE Step(t, f[i - 1])]
    BY DEF IsRun
  <2> DEFINE g == [i \in 0..m + 1 |-> IF i = m + 1 THEN Step(t, f[m]) ELSE f[i]]
  <2>2. ASSUME NEW i \in 0..m + 1
        PROVE  g[i] = IF i = 0 THEN c ELSE Step(t, g[i - 1])
    <3>1. CASE i = 0
      BY <2>1, <3>1
    <3>2. CASE i \in 1..m
      <4>1. i \in 0..m /\ i # 0 /\ i - 1 \in 0..m /\ i # m + 1 /\ i - 1 # m + 1
        BY <3>2
      <4>2. f[i] = Step(t, f[i - 1])
        BY <2>1, <4>1
      <4> QED BY <4>1, <4>2
    <3>3. CASE i = m + 1
      BY <3>3
    <3> QED BY <3>1, <3>2, <3>3
  <2>3. g = [i \in 0..m + 1 |-> IF i = 0 THEN c ELSE Step(t, g[i - 1])]
    BY <2>2
  <2> HIDE DEF g
  <2>4. IsRun(g, t, c, m + 1)
    BY <2>3 DEF IsRun
  <2> QED BY <2>4
<1>3. Nat \subseteq S
  <2> HIDE DEF S
  <2> QED BY <1>1, <1>2, NatSetInduction
<1> QED BY <1>3

\* Two runs agree as far as both go.
LEMMA RunsAgree ==
    ASSUME NEW t, NEW c, NEW n \in Nat, NEW m \in Nat, n <= m,
           NEW f, NEW g, IsRun(f, t, c, n), IsRun(g, t, c, m)
    PROVE  f[n] = g[n]
<1> DEFINE S == {i \in Nat : i <= n => f[i] = g[i]}
<1>0. /\ \A i \in 0..n : f[i] = IF i = 0 THEN c ELSE Step(t, f[i - 1])
      /\ \A i \in 0..m : g[i] = IF i = 0 THEN c ELSE Step(t, g[i - 1])
  BY DEF IsRun
<1>1. 0 \in S
  BY <1>0
<1>2. ASSUME NEW i \in S \cap Nat PROVE i + 1 \in S
  <2> SUFFICES ASSUME i + 1 <= n PROVE f[i + 1] = g[i + 1]
    OBVIOUS
  <2>1. i + 1 \in 0..n /\ i + 1 \in 0..m /\ i + 1 # 0 /\ (i + 1) - 1 = i /\ f[i] = g[i]
    OBVIOUS
  <2> QED BY <1>0, <2>1
<1>3. Nat \subseteq S
  <2> HIDE DEF S
  <2> QED BY <1>1, <1>2, NatSetInduction
<1> QED BY <1>3

\* After is the last point of such a run.
LEMMA AfterIsRun ==
    ASSUME NEW t, NEW c, NEW n \in Nat
    PROVE  \E f : IsRun(f, t, c, n) /\ After(t, c, n) = f[n]
<1> DEFINE f == CHOOSE f : f = [i \in 0..n |-> IF i = 0 THEN c ELSE Step(t, f[i - 1])]
<1>1. f = [i \in 0..n |-> IF i = 0 THEN c ELSE Step(t, f[i - 1])]
  <2>1. PICK g : IsRun(g, t, c, n)
    BY RunExists
  <2>2. g = [i \in 0..n |-> IF i = 0 THEN c ELSE Step(t, g[i - 1])]
    BY <2>1 DEF IsRun
  <2> QED BY <2>2, Zenon
<1>2. After(t, c, n) = f[n]
  BY Zenon DEF After
<1> HIDE DEF f
<1> QED BY <1>1, <1>2 DEF IsRun

\* No instruction is executed in no steps, and one more in one step more.
LEMMA AfterSteps ==
    ASSUME NEW t, NEW c
    PROVE  /\ After(t, c, 0) = c
           /\ \A n \in Nat : After(t, c, n + 1) = Step(t, After(t, c, n))
<1>1. After(t, c, 0) = c
  <2>1. PICK f : IsRun(f, t, c, 0) /\ After(t, c, 0) = f[0]
    BY AfterIsRun
  <2> QED BY <2>1 DEF IsRun
<1>2. ASSUME NEW n \in Nat PROVE After(t, c, n + 1) = Step(t, After(t, c, n))
  <2>1. PICK f : IsRun(f, t, c, n) /\ After(t, c, n) = f[n]
    BY AfterIsRun
  <2>2. PICK g : IsRun(g, t, c, n + 1) /\ After(t, c, n + 1) = g[n + 1]
    BY AfterIsRun
  <2>3. f[n] = g[n]
    BY <2>1, <2>2, RunsAgree
  <2>4. g[n + 1] = Step(t, g[n])
    <3>1. n + 1 \in 0..n + 1 /\ n + 1 # 0 /\ (n + 1) - 1 = n
      OBVIOUS
    <3> QED BY <2>2, <3>1 DEF IsRun
  <2> QED BY <2>1, <2>2, <2>3, <2>4
<1> QED BY <1>1, <1>2
\* An instruction leads from a point of A to another.
LEMMA StepType ==
    ASSUME NEW t \in Test, NEW d \in Point(t)
    PROVE  /\ Step(t, d) \in Point(t)
           /\ d.pc # A_terminated(t) =>
                 /\ Step(t, d) = Exec(t, d.pc, d.mem)
                 /\ Step(t, d) = [pc |-> Step(t, d).pc, mem |-> Step(t, d).mem]
                 /\ Step(t, d).pc # d.pc
<1>1. d.pc \in 1..A_terminated(t) /\ d.mem \in State(t)
  BY DEF Point
<1>2. CASE d.pc = A_terminated(t)
  BY <1>2 DEF Step
<1>3. CASE d.pc # A_terminated(t)
  <2>1. d.pc \in 1..ALen(t)
    BY <1>1, <1>3, CheckerAssumption DEF A_terminated
  <2>2. Exec(t, d.pc, d.mem) \in [pc : (1..A_terminated(t)) \ {d.pc}, mem : State(t)]
    BY <1>1, <2>1, CheckerAssumption
  <2>3. Step(t, d) = Exec(t, d.pc, d.mem)
    BY <1>3 DEF Step
  <2> QED BY <2>2, <2>3 DEF Point
<1> QED BY <1>2, <1>3

\* A point of A is followed by points of A.
LEMMA AfterType ==
    ASSUME NEW t \in Test, NEW c \in Point(t)
    PROVE  \A n \in Nat : After(t, c, n) \in Point(t)
<1> DEFINE S == {n \in Nat : After(t, c, n) \in Point(t)}
<1>1. 0 \in S
  BY AfterSteps
<1>2. ASSUME NEW n \in S \cap Nat PROVE n + 1 \in S
  <2>1. After(t, c, n) \in Point(t) /\ After(t, c, n + 1) = Step(t, After(t, c, n))
    BY AfterSteps
  <2>2. Step(t, After(t, c, n)) \in Point(t)
    BY <2>1, StepType
  <2> QED BY <2>1, <2>2
<1>3. Nat \subseteq S
  <2> HIDE DEF S
  <2> QED BY <1>1, <1>2, NatSetInduction
<1> QED BY <1>3

\* A that has returned stays where it is.
LEMMA AfterEnds ==
    ASSUME NEW t, NEW c, NEW n \in Nat, After(t, c, n).pc = A_terminated(t)
    PROVE  \A m \in Nat : n <= m => After(t, c, m) = After(t, c, n)
<1> DEFINE S == {m \in Nat : n <= m => After(t, c, m) = After(t, c, n)}
<1>1. 0 \in S
  OBVIOUS
<1>2. ASSUME NEW m \in S \cap Nat PROVE m + 1 \in S
  <2> SUFFICES ASSUME n <= m + 1 PROVE After(t, c, m + 1) = After(t, c, n)
    OBVIOUS
  <2>1. CASE n = m + 1
    BY <2>1
  <2>2. CASE n <= m
    <3>1. After(t, c, m) = After(t, c, n) /\ After(t, c, m + 1) = Step(t, After(t, c, m))
      BY <2>2, AfterSteps
    <3> QED BY <3>1 DEF Step
  <2> QED BY <2>1, <2>2
<1>3. Nat \subseteq S
  <2> HIDE DEF S
  <2> QED BY <1>1, <1>2, NatSetInduction
<1> QED BY <1>3

\* A alone: it starts at its first instruction, executes one after the other, and each
\* instruction it gets to is a cut point that the checking loop can reach.
LEMMA AloneSteps ==
    ASSUME NEW t \in Test
    PROVE  /\ AtCut(t, 0) = [pc |-> 1, mem |-> InitState(t)]
           /\ \A n \in Nat : /\ AtCut(t, n) \in Point(t)
                             /\ AtCut(t, n + 1) = Step(t, AtCut(t, n))
           /\ \A n \in Nat, m \in Nat :
                 n <= m /\ AtCut(t, n).pc = A_terminated(t) => AtCut(t, m) = AtCut(t, n)
           /\ \A n \in Nat : AtCut(t, n).pc # A_terminated(t) => n \in CutPoints(t)
           /\ \A n \in CutPoints(t) : n \in Nat /\ n < MaxK - 1
<1> DEFINE c == [pc |-> 1, mem |-> InitState(t)]
<1>1. c \in Point(t)
  BY CheckerAssumption DEF Point, A_terminated
<1>2. \A n \in Nat : AtCut(t, n) = After(t, c, n)
  BY DEF AtCut
<1> HIDE DEF c
<1>3. ASSUME NEW n \in Nat
      PROVE  AtCut(t, n) \in Point(t) /\ AtCut(t, n + 1) = Step(t, AtCut(t, n))
  <2>1. n + 1 \in Nat /\ AtCut(t, n) = After(t, c, n) /\ AtCut(t, n + 1) = After(t, c, n + 1)
    BY <1>2
  <2>2. After(t, c, n) \in Point(t)
    BY <1>1, AfterType
  <2>3. After(t, c, n + 1) = Step(t, After(t, c, n))
    BY AfterSteps
  <2> QED BY <2>1, <2>2, <2>3
<1>4. ASSUME NEW n \in Nat, NEW m \in Nat, n <= m, AtCut(t, n).pc = A_terminated(t)
      PROVE  AtCut(t, m) = AtCut(t, n)
  BY <1>2, <1>4, AfterEnds
<1>5. ASSUME NEW n \in Nat, AtCut(t, n).pc # A_terminated(t)
      PROVE  n < MaxK - 1
  <2>1. MaxK - 1 \in Nat /\ AtCut(t, MaxK - 1).pc = A_terminated(t)
    BY CheckerAssumption, TerminationAssumption
  <2>2. ASSUME MaxK - 1 <= n PROVE FALSE
    BY <1>4, <1>5, <2>1, <2>2
  <2> QED BY <2>1, <2>2
<1>6. AtCut(t, 0) = [pc |-> 1, mem |-> InitState(t)]
  BY <1>2, AfterSteps DEF c
<1>7. \A n \in CutPoints(t) : n \in Nat /\ AtCut(t, n).pc # A_terminated(t)
  BY CheckerAssumption DEF CutPoints
<1>8. ASSUME NEW n \in Nat, AtCut(t, n).pc # A_terminated(t) PROVE n \in CutPoints(t)
  <2>1. n \in 0..MaxK
    BY <1>5, <1>8, CheckerAssumption
  <2> QED BY <1>8, <2>1 DEF CutPoints
<1> QED BY <1>3, <1>4, <1>5, <1>6, <1>7, <1>8

\* A after a successful B: where it goes on, one instruction after the other, and what
\* it has come to when it returns.
LEMMA SwitchedSteps ==
    ASSUME NEW t \in Test, NEW j \in OkCuts(t)
    PROVE  /\ Switched(t, j, 0) = [pc |-> AtCut(t, j).pc, mem |-> BAt(t, j).mem]
           /\ \A n \in Nat : /\ Switched(t, j, n) \in Point(t)
                             /\ Switched(t, j, n + 1) = Step(t, Switched(t, j, n))
                             /\ Switched(t, j, n).pc = A_terminated(t)
                                   => Switched(t, j, n) = Switched(t, j, MaxK)
<1> DEFINE c == [pc |-> AtCut(t, j).pc, mem |-> BAt(t, j).mem]
<1>0. j \in CutPoints(t) /\ j \in Nat /\ BAt(t, j).ok
  BY AloneSteps DEF OkCuts
<1>1. c \in Point(t)
  <2>1. AtCut(t, j) \in Point(t)
    BY <1>0, AloneSteps
  <2>2. BAt(t, j).mem \in State(t)
    BY <2>1, CheckerAssumption DEF BAt, Point
  <2> QED BY <2>1, <2>2 DEF Point
<1>2. \A n \in Nat : Switched(t, j, n) = After(t, c, n)
  BY DEF Switched
<1> HIDE DEF c
<1>3. ASSUME NEW n \in Nat
      PROVE  /\ Switched(t, j, n) \in Point(t)
             /\ Switched(t, j, n + 1) = Step(t, Switched(t, j, n))
  <2>1. /\ n + 1 \in Nat /\ Switched(t, j, n) = After(t, c, n)
        /\ Switched(t, j, n + 1) = After(t, c, n + 1)
    BY <1>2
  <2>2. After(t, c, n) \in Point(t)
    BY <1>1, AfterType
  <2>3. After(t, c, n + 1) = Step(t, After(t, c, n))
    BY AfterSteps
  <2> QED BY <2>1, <2>2, <2>3
<1>4. Switched(t, j, 0) = [pc |-> AtCut(t, j).pc, mem |-> BAt(t, j).mem]
  BY <1>2, AfterSteps DEF c
<1>5. ASSUME NEW n \in Nat, Switched(t, j, n).pc = A_terminated(t)
      PROVE  Switched(t, j, n) = Switched(t, j, MaxK)
  <2>1. MaxK \in Nat /\ Switched(t, j, MaxK).pc = A_terminated(t)
    BY <1>0, CheckerAssumption, TerminationAssumption
  <2>2. CASE n <= MaxK
    BY <1>2, <1>5, <2>1, <2>2, AfterEnds
  <2>3. CASE MaxK <= n
    BY <1>2, <2>1, <2>3, AfterEnds
  <2> QED BY <2>1, <2>2, <2>3
<1> QED BY <1>3, <1>4, <1>5

----------------------------------------------------------------------------
(* The invariant is inductive.                                             *)

\* It holds when check() is called.
LEMMA InitInv == Init => IInv
<1> SUFFICES ASSUME Init PROVE IInv
  OBVIOUS
<1>1. TypeOK
  <2>1. test \in Test /\ 1 \in 1..A_terminated(test) /\ InitState(test) \in State(test)
    BY CheckerAssumption DEF Init, A_terminated
  <2>2. 0 \in 0..SeqTrials /\ 1 \in 1..MaxK /\ 0 \in 0..1 /\ 0 \in 0..0 + 2
    BY CheckerAssumption
  <2>3. mismatch \in {Off, 0} \cup 1..ALen(test)
    BY DEF Init
  <2> QED BY <2>1, <2>2, <2>3 DEF Init, TypeOK
<1>2. ~Running
  BY DEF Init, Running
<1>3. Tried
  <2>1. \A j \in OkCuts(test) : j \in Nat
    BY <1>1, AloneSteps DEF OkCuts, TypeOK
  <2> QED BY <2>1 DEF Init, Tried
<1>4. NotYet /\ Counted /\ Alone /\ AfterSwitch /\ Judged /\ Concluded
  BY <1>2 DEF Init, NotYet, Counted, Alone, AfterSwitch, Judged, Concluded
<1> QED BY <1>1, <1>3, <1>4 DEF Init, IInv

\* The sequential trials leave everything that the checking loop keeps as it was.
LEMMA TrialInv ==
    ASSUME IInv, Trial \/ SequentialInstruction \/ SequentialB
    PROVE  IInv'
<1>0. /\ TypeOK /\ NotYet /\ Tried /\ Judged /\ Concluded
      /\ interleaving_p = FALSE /\ errors < k
  BY DEF IInv
<1>1. /\ pc \in {"trial", "sequential"} /\ pc' \in {"trial", "sequential", "loop", "panic"}
      /\ UNCHANGED <<test, k, errors, inst_count, switched_p, interleaving_p, mismatch, ret, cuts>>
  BY DEF Trial, SequentialInstruction, SequentialB, Instruction
<1>2. TypeOK'
  <2>1. CASE Trial
    <3>1. 1 \in 1..A_terminated(test) /\ InitState(test) \in State(test)
      BY <1>0, CheckerAssumption DEF TypeOK, A_terminated
    <3> QED BY <1>0, <1>1, <2>1, <3>1 DEF Trial, TypeOK, NotYet
  <2>2. CASE SequentialInstruction
    <3>1. Now \in Point(test) /\ Now.pc # A_terminated(test)
      BY <1>0, <2>2 DEF Now, Point, TypeOK, SequentialInstruction, Instruction
    <3>2. Exec(test, apc, mem) \in Point(test)
      BY <1>0, <3>1, StepType DEF Now, TypeOK
    <3> QED BY <1>0, <1>1, <2>2, <3>2 DEF SequentialInstruction, Instruction, TypeOK, Point
  <2>3. CASE SequentialB
    <3>1. BRun(test, mem).mem \in State(test)
      BY <1>0, CheckerAssumption DEF TypeOK
    <3>2. trial < SeqTrials /\ trial \in 0..SeqTrials
      BY <1>0, <2>3 DEF SequentialB, TypeOK, NotYet
    <3>3. trial + 1 \in 0..SeqTrials
      BY <3>2, CheckerAssumption
    <3>4. trial' \in 0..SeqTrials /\ mem' = BRun(test, mem).mem
      BY <2>3, <3>2, <3>3 DEF SequentialB
    <3>5. UNCHANGED <<apc, executed>>
      BY <2>3 DEF SequentialB
    <3> QED BY <1>0, <1>1, <3>1, <3>4, <3>5 DEF TypeOK
  <2> QED BY <2>1, <2>2, <2>3
<1>3. NotYet'
  BY <1>0, <1>1 DEF NotYet, Trial, SequentialInstruction, SequentialB, Instruction
<1>4. ~Running /\ ~Running'
  BY <1>1 DEF Running
<1>5. Tried' /\ Judged'
  BY <1>0, <1>1, <1>4 DEF Tried, Judged
<1>6. Counted' /\ Alone' /\ AfterSwitch' /\ Concluded'
  BY <1>1, <1>4 DEF Counted, Alone, AfterSwitch, Concluded
<1> QED BY <1>0, <1>1, <1>2, <1>3, <1>5, <1>6 DEF IInv

\* A run starts with A at its first instruction and nothing counted; after the last run
\* every successful cut has been tried.
LEMMA StartRunInv ==
    ASSUME IInv, StartRun
    PROVE  IInv'
<1>0. /\ TypeOK /\ Tried /\ Judged /\ interleaving_p = FALSE /\ errors < k
  BY DEF IInv
<1>1. /\ pc = "loop" /\ pc' \in {"user", "return"}
      /\ UNCHANGED <<test, trial, k, errors, interleaving_p, ret, cuts>>
      /\ k < MaxK => /\ mem' = InitState(test) /\ apc' = 1 /\ executed' = 0
                     /\ inst_count' = 0 /\ switched_p' = FALSE /\ mismatch' = 0 /\ pc' = "user"
      /\ ~(k < MaxK) => /\ pc' = "return"
                        /\ UNCHANGED <<mem, apc, executed, inst_count, switched_p, mismatch>>
  BY DEF StartRun
<1>2. TypeOK'
  <2>1. 1 \in 1..A_terminated(test) /\ InitState(test) \in State(test)
    BY <1>0, CheckerAssumption DEF TypeOK, A_terminated
  <2>2. CASE k < MaxK
    <3>1. /\ test' = test /\ pc' = "user" /\ trial' = trial /\ k' = k /\ errors' = errors
          /\ interleaving_p' = interleaving_p /\ ret' = ret /\ cuts' = cuts /\ switched_p' = FALSE
      BY <1>1, <2>2
    <3>2. /\ mismatch' \in {Off, 0} \cup 1..ALen(test') /\ executed' \in Nat
          /\ inst_count' \in 0..executed' + 2
      BY <1>1, <2>2
    <3>3. apc' \in 1..A_terminated(test') /\ mem' \in State(test')
      BY <1>1, <2>1, <2>2
    <3> QED BY <1>0, <3>1, <3>2, <3>3 DEF TypeOK
  <2>3. CASE ~(k < MaxK)
    BY <1>0, <1>1, <2>3 DEF TypeOK
  <2> QED BY <2>2, <2>3
<1>3. ~(Running /\ switched_p) /\ ~(Running /\ switched_p)'
  BY <1>1 DEF Running
<1>4. Tried' /\ Judged'
  BY <1>0, <1>1, <1>3 DEF Tried, Judged
<1>5. NotYet'
  BY <1>1 DEF NotYet
<1>6. Counted'
  BY <1>1 DEF Counted, Running, Off
<1>7. Alone'
  <2> SUFFICES ASSUME Running', ~switched_p'
               PROVE  /\ Now' = AtCut(test', executed')
                      /\ \A j \in k' - 1..inst_count' - 1 : ~BAt(test', j).ok
    BY DEF Alone
  <2>1. pc' = "user" /\ k < MaxK
    BY <1>1 DEF Running
  <2>2. AtCut(test, 0) = [pc |-> 1, mem |-> InitState(test)]
    BY <1>0, AloneSteps DEF TypeOK
  <2>3. k' - 1..inst_count' - 1 = {}
    BY <1>0, <1>1, <2>1 DEF TypeOK
  <2> QED BY <1>1, <2>1, <2>2, <2>3 DEF Now
<1>8. AfterSwitch'
  BY <1>3 DEF AfterSwitch
<1>9. Concluded'
  <2> SUFFICES ASSUME pc' = "return" PROVE OkCuts(test) \subseteq cuts
    BY <1>1 DEF Concluded
  <2>1. ~(k < MaxK) /\ k \in Nat /\ MaxK \in Nat
    BY <1>0, <1>1, CheckerAssumption DEF TypeOK
  <2>2. ASSUME NEW j \in OkCuts(test) PROVE j \in cuts
    <3>1. j \in Nat /\ j < MaxK - 1
      BY <1>0, AloneSteps DEF OkCuts, TypeOK
    <3> QED BY <1>0, <2>1, <3>1 DEF Tried
  <2> QED BY <2>2
<1> QED BY <1>0, <1>1, <1>2, <1>4, <1>5, <1>6, <1>7, <1>8, <1>9 DEF IInv

\* An instruction of A under single stepping, which may run on because it is at the
\* mismatch address: it was counted when it faulted.
LEMMA UserInstructionInv ==
    ASSUME IInv, UserInstruction
    PROVE  IInv'
<1>0. /\ TypeOK /\ Counted /\ Alone /\ AfterSwitch /\ Tried /\ Judged
      /\ interleaving_p = FALSE /\ errors < k
  BY DEF IInv
<1>1. /\ pc = "user" /\ apc # A_terminated(test) /\ mismatch \in {Off, apc}
      /\ mem' = Exec(test, apc, mem).mem /\ apc' = Exec(test, apc, mem).pc
      /\ executed' = executed + 1
      /\ UNCHANGED <<test, pc, trial, k, errors, inst_count, switched_p, interleaving_p,
                     mismatch, ret, cuts>>
  BY DEF UserInstruction, Instruction
<1>2. Running /\ Running'
  BY <1>1 DEF Running
<1>3. mismatch = apc /\ inst_count = executed + 1 + (IF switched_p THEN 1 ELSE 0)
  <2>1. mismatch = apc
    BY <1>0, <1>1 DEF Counted
  <2> QED BY <1>0, <1>2, <2>1 DEF Counted, TypeOK
<1>4. test \in Test /\ Now \in Point(test) /\ Now.pc = apc /\ Now.mem = mem
  BY <1>0 DEF TypeOK, Now, Point
<1>5. Now' = Step(test, Now) /\ Now' \in Point(test) /\ apc' # apc
  BY <1>1, <1>4, StepType DEF Now
<1>6. TypeOK'
  BY <1>0, <1>1, <1>3, <1>5 DEF TypeOK, Now, Point
<1>7. Counted'
  BY <1>0, <1>1, <1>3, <1>5 DEF Counted, TypeOK
<1>8. Alone'
  <2> SUFFICES ASSUME ~switched_p
               PROVE  /\ Now' = AtCut(test, executed')
                      /\ \A j \in k - 1..inst_count - 1 : ~BAt(test, j).ok
    BY <1>1 DEF Alone
  <2>1. Now = AtCut(test, executed) /\ executed \in Nat
    BY <1>0, <1>2 DEF Alone, TypeOK
  <2>2. AtCut(test, executed + 1) = Step(test, AtCut(test, executed))
    BY <1>4, <2>1, AloneSteps
  <2> QED BY <1>0, <1>1, <1>2, <1>5, <2>1, <2>2 DEF Alone
<1>9. AfterSwitch'
  <2> SUFFICES ASSUME switched_p PROVE AfterSwitch'
    BY <1>1 DEF AfterSwitch
  <2>1. PICK c \in cuts :
           /\ k - 1 <= c /\ c <= executed
           /\ \A j \in k - 1..c - 1 : ~BAt(test, j).ok
           /\ Now = Switched(test, c, executed - c)
           /\ errors = 0 /\ WorksAt(test, c) <=> \A j \in cuts : WorksAt(test, j)
    BY <1>0, <1>2 DEF AfterSwitch
  <2>2. c \in OkCuts(test) /\ c \in Nat /\ executed \in Nat
    BY <1>0, <2>1 DEF Tried, TypeOK
  <2>3. executed - c \in Nat /\ (executed + 1) - c = (executed - c) + 1
    BY <2>1, <2>2
  <2>4. Switched(test, c, (executed - c) + 1) = Step(test, Switched(test, c, executed - c))
    BY <1>4, <2>2, <2>3, SwitchedSteps
  <2>5. Now' = Switched(test', c, executed' - c)
    BY <1>1, <1>5, <2>1, <2>3, <2>4
  <2>6. c <= executed'
    BY <1>1, <2>1, <2>2
  <2> QED BY <1>1, <2>1, <2>5, <2>6 DEF AfterSwitch
<1>10. Tried' /\ Judged'
  BY <1>0, <1>1, <1>2 DEF Tried, Judged, Running
<1>11. NotYet' /\ Concluded'
  BY <1>1 DEF NotYet, Concluded
<1> QED BY <1>0, <1>1, <1>6, <1>7, <1>8, <1>9, <1>10, <1>11 DEF IInv
\* The fault at A_terminated ends the stepping, and the system call there ends the run.
LEMMA EndInv ==
    ASSUME IInv, StepEnd \/ EndRun
    PROVE  IInv'
<1>0. /\ TypeOK /\ Counted /\ Alone /\ AfterSwitch /\ Tried /\ Judged
      /\ interleaving_p = FALSE /\ errors < k
  BY DEF IInv
<1>1. /\ pc = "user" /\ pc' \in {"user", "check"} /\ mismatch' = Off
      /\ apc = A_terminated(test) /\ (pc' = "check" => mismatch = Off)
      /\ mismatch # apc
      /\ UNCHANGED <<test, trial, k, errors, inst_count, switched_p, interleaving_p, mem, apc,
                     ret, executed, cuts>>
  <2>1. Off # apc
    BY <1>0 DEF TypeOK, Off
  <2> QED BY <2>1 DEF StepEnd, StepFault, EndRun, HandlerUnchanged
<1>2. Running /\ Running'
  BY <1>1 DEF Running
<1>3. TypeOK'
  BY <1>0, <1>1 DEF TypeOK
<1>4. Counted'
  BY <1>0, <1>1, <1>2 DEF Counted, TypeOK, Off
<1>5. Now' = Now
  BY <1>1 DEF Now
<1>6. Alone' /\ AfterSwitch'
  BY <1>0, <1>1, <1>2, <1>5 DEF Alone, AfterSwitch
<1>7. Tried' /\ Judged' /\ NotYet' /\ Concluded'
  BY <1>0, <1>1, <1>2 DEF Tried, Judged, NotYet, Concluded
<1> QED BY <1>0, <1>1, <1>3, <1>4, <1>6, <1>7 DEF IInv

\* A fault at an instruction that is not to be tried: it is counted.
LEMMA StepOnInv ==
    ASSUME IInv, StepInst, ~(inst_count' >= k /\ ~switched_p)
    PROVE  IInv'
<1>0. /\ TypeOK /\ Counted /\ Alone /\ AfterSwitch /\ Tried /\ Judged
      /\ interleaving_p = FALSE /\ errors < k
  BY DEF IInv
<1>1. /\ pc = "user" /\ mismatch \notin {Off, apc} /\ apc # A_terminated(test)
      /\ inst_count' = inst_count + 1 /\ mismatch' = apc
      /\ UNCHANGED <<test, pc, trial, k, errors, switched_p, interleaving_p, mem, apc, ret,
                     executed, cuts>>
  BY DEF StepInst, StepFault, HandlerUnchanged
<1>2. Running /\ Running'
  BY <1>1 DEF Running
<1>3. inst_count = executed + (IF switched_p THEN 1 ELSE 0)
  BY <1>0, <1>1, <1>2 DEF Counted, TypeOK
<1>4. TypeOK'
  <2>1. apc \in 1..ALen(test)
    BY <1>0, <1>1, CheckerAssumption DEF TypeOK, A_terminated
  <2>2. inst_count' \in 0..executed' + 2
    BY <1>0, <1>1, <1>3 DEF TypeOK
  <2> QED BY <1>0, <1>1, <2>1, <2>2 DEF TypeOK
<1>5. Counted'
  <2>1. mismatch' # Off
    BY <1>0, <1>1 DEF TypeOK, Off
  <2> QED BY <1>0, <1>1, <1>3, <2>1 DEF Counted, TypeOK
<1>6. Now' = Now
  BY <1>1 DEF Now
<1>7. Alone'
  <2> SUFFICES ASSUME ~switched_p
               PROVE  Now = AtCut(test, executed) /\ k - 1..inst_count' - 1 = {}
    BY <1>1, <1>6 DEF Alone
  <2>1. ~(inst_count' >= k) /\ inst_count' \in Int /\ k \in Int
    BY <1>0, <1>1 DEF TypeOK
  <2>2. ASSUME NEW n \in Int, NEW m \in Int, ~(n >= m) PROVE m - 1..n - 1 = {}
    BY <2>2
  <2>3. k - 1..inst_count' - 1 = {}
    BY <2>1, <2>2
  <2> QED BY <1>0, <1>2, <2>3 DEF Alone
<1>8. AfterSwitch'
  BY <1>0, <1>1, <1>2, <1>6 DEF AfterSwitch
<1>9. Tried' /\ Judged' /\ NotYet' /\ Concluded'
  BY <1>0, <1>1, <1>2 DEF Tried, Judged, NotYet, Concluded
<1> QED BY <1>0, <1>1, <1>4, <1>5, <1>7, <1>8, <1>9 DEF IInv

\* The fault at which B is tried.
LEMMA StepTryInv ==
    ASSUME IInv, StepInst, inst_count' >= k, ~switched_p
    PROVE  IInv'
<1>0. /\ TypeOK /\ Counted /\ Alone /\ Tried /\ Judged
      /\ interleaving_p = FALSE /\ errors < k
  BY DEF IInv
<1> DEFINE b == BRun(test, mem)
<1>1. /\ pc = "user" /\ mismatch \notin {Off, apc} /\ apc # A_terminated(test)
      /\ inst_count' = inst_count + 1 /\ mem' = b.mem /\ switched_p' = b.ok
      /\ cuts' = (IF b.ok THEN cuts \cup {executed} ELSE cuts)
      /\ mismatch' = (IF b.ok THEN mismatch ELSE apc)
      /\ UNCHANGED <<test, pc, trial, k, errors, interleaving_p, apc, ret, executed>>
  BY DEF StepInst, StepFault, HandlerUnchanged
<1>2. Running /\ Running'
  BY <1>1 DEF Running
<1>3. inst_count = executed /\ inst_count' = executed + 1 /\ executed \in Nat /\ k \in Nat \ {0}
  BY <1>0, <1>1, <1>2 DEF Counted, TypeOK
<1>4. /\ test \in Test /\ AtCut(test, executed).mem = mem /\ AtCut(test, executed).pc = apc
      /\ Now = AtCut(test, executed)
      /\ \A j \in k - 1..executed - 1 : ~BAt(test, j).ok
  BY <1>0, <1>2, <1>3 DEF Alone, Now, TypeOK
<1>5. b = BAt(test, executed)
  BY <1>4 DEF BAt
<1>6. b.ok \in BOOLEAN /\ b.mem \in State(test) /\ (~b.ok => b.mem = mem)
  BY <1>0, CheckerAssumption DEF TypeOK
<1>7. executed \in CutPoints(test)
  BY <1>1, <1>3, <1>4, AloneSteps
<1> HIDE DEF b
<1>8. TypeOK'
  <2>1. apc \in 1..ALen(test)
    BY <1>0, <1>1, CheckerAssumption DEF TypeOK, A_terminated
  <2>2. inst_count' \in 0..executed' + 2 /\ cuts' \subseteq Nat
    BY <1>0, <1>1, <1>3 DEF TypeOK
  <2>3. mismatch' \in {Off, 0} \cup 1..ALen(test)
    BY <1>0, <1>1, <2>1 DEF TypeOK
  <2>4. switched_p' \in BOOLEAN /\ mem' \in State(test)
    BY <1>1, <1>6
  <2>5. UNCHANGED <<test, pc, trial, k, errors, interleaving_p, apc, ret, executed>>
    BY <1>1
  <2> QED BY <1>0, <2>2, <2>3, <2>4, <2>5 DEF TypeOK
<1>9. Counted'
  <2>1. apc # Off /\ mismatch # apc /\ mismatch # Off
    BY <1>0, <1>1 DEF TypeOK, Off
  <2>2. CASE b.ok
    BY <1>1, <1>3, <2>1, <2>2 DEF Counted
  <2>3. CASE ~b.ok
    BY <1>1, <1>3, <1>6, <2>1, <2>3 DEF Counted
  <2> QED BY <2>2, <2>3
<1>10. CASE ~b.ok
  <2>1. UNCHANGED <<test, k, errors, interleaving_p, executed, cuts>> /\ Now' = Now /\ switched_p' = FALSE
    BY <1>1, <1>6, <1>10 DEF Now
  <2>2. \A j \in k - 1..inst_count' - 1 : ~BAt(test, j).ok
    <3> TAKE j \in k - 1..inst_count' - 1
    <3>1. j \in k - 1..executed - 1 \/ j = executed
      BY <1>3
    <3> QED BY <1>4, <1>5, <1>10, <3>1
  <2>3. Alone'
    BY <1>4, <2>1, <2>2 DEF Alone
  <2>4. AfterSwitch'
    BY <2>1 DEF AfterSwitch
  <2>5. Tried' /\ Judged' /\ NotYet' /\ Concluded'
    BY <1>0, <1>1, <1>2, <2>1 DEF Tried, Judged, NotYet, Concluded
  <2> QED BY <1>0, <1>8, <1>9, <2>1, <2>3, <2>4, <2>5 DEF IInv
<1>11. CASE b.ok
  <2>1. /\ UNCHANGED <<test, k, errors, interleaving_p, executed>>
        /\ cuts' = cuts \cup {executed} /\ switched_p' = b.ok
    BY <1>1, <1>11
  <2>2. executed \in OkCuts(test)
    BY <1>5, <1>7, <1>11 DEF OkCuts
  <2>3. Alone'
    BY <1>11, <2>1 DEF Alone
  <2>4. AfterSwitch'
    <3>1. executed \in cuts' /\ k - 1 <= executed /\ executed <= executed
      BY <1>3, <2>1
    <3>2. Now' = Switched(test, executed, executed - executed)
      <4>1. executed - executed = 0
        BY <1>3
      <4>2. Now' = [pc |-> AtCut(test, executed).pc, mem |-> BAt(test, executed).mem]
        BY <1>1, <1>4, <1>5 DEF Now
      <4> QED BY <1>4, <2>2, <4>1, <4>2, SwitchedSteps
    <3>3. errors = 0 /\ WorksAt(test, executed) <=> \A j \in cuts' : WorksAt(test, j)
      <4>1. errors = 0 <=> \A j \in cuts : WorksAt(test, j)
        BY <1>0 DEF Judged
      <4> QED BY <2>1, <4>1
    <3> QED BY <1>4, <2>1, <3>1, <3>2, <3>3 DEF AfterSwitch
  <2>5. Tried'
    BY <1>0, <2>1, <2>2 DEF Tried
  <2>6. Judged' /\ NotYet' /\ Concluded'
    BY <1>1, <1>2, <1>11, <2>1 DEF Judged, NotYet, Concluded
  <2> QED BY <1>0, <1>8, <1>9, <2>1, <2>3, <2>4, <2>5, <2>6 DEF IInv
<1> QED BY <1>6, <1>10, <1>11

\* The check at the end of a run: the run ended where the switch at its cut leads to.
LEMMA CheckRunInv ==
    ASSUME IInv, CheckRun
    PROVE  IInv'
<1>0. /\ TypeOK /\ Counted /\ Alone /\ AfterSwitch /\ Tried /\ Judged
      /\ interleaving_p = FALSE /\ errors < k
  BY DEF IInv
<1>1. /\ pc = "check" /\ pc' \in {"loop", "return"}
      /\ UNCHANGED <<test, trial, inst_count, switched_p, interleaving_p, mem, apc, mismatch,
                     ret, executed, cuts>>
  BY DEF CheckRun
<1>2. Running /\ ~Running'
  BY <1>1 DEF Running
<1>3. /\ test \in Test /\ apc = A_terminated(test) /\ mismatch = Off /\ mismatch # apc
      /\ executed \in Nat /\ inst_count \in Nat /\ k \in 1..MaxK /\ k \in Nat /\ errors \in Nat
  <2>1. Off # apc
    BY <1>0 DEF TypeOK, Off
  <2> QED BY <1>0, <1>1, <2>1 DEF Counted, TypeOK
<1>4. Counted' /\ Alone' /\ AfterSwitch' /\ NotYet'
  BY <1>1, <1>2 DEF Counted, Alone, AfterSwitch, NotYet
<1>5. CASE switched_p
  <2>1. /\ k' = k + 1 /\ pc' = "loop"
        /\ errors' = IF Good(test, mem, interleaving_p) THEN errors ELSE errors + 1
    BY <1>5 DEF CheckRun
  <2>2. PICK c \in cuts :
           /\ k - 1 <= c /\ c <= executed
           /\ \A j \in k - 1..c - 1 : ~BAt(test, j).ok
           /\ Now = Switched(test, c, executed - c)
           /\ errors = 0 /\ WorksAt(test, c) <=> \A j \in cuts : WorksAt(test, j)
    BY <1>0, <1>2, <1>5 DEF AfterSwitch
  <2>3. c \in OkCuts(test) /\ c \in CutPoints(test) /\ c \in Nat /\ c < MaxK - 1
    BY <1>0, <1>3, <2>2, AloneSteps DEF Tried, OkCuts
  <2>4. k + 1 \in 1..MaxK
    BY <1>3, <2>2, <2>3, CheckerAssumption
  <2>5. TypeOK'
    <3>1. errors' \in 0..k' /\ k' \in 1..MaxK
      BY <1>0, <1>3, <2>1, <2>4
    <3> QED BY <1>0, <1>1, <2>1, <3>1 DEF TypeOK
  <2>6. Good(test, mem, interleaving_p) <=> WorksAt(test, c)
    <3>1. executed - c \in Nat /\ Switched(test, c, executed - c).pc = A_terminated(test)
      BY <1>3, <2>2, <2>3 DEF Now
    <3>2. Switched(test, c, executed - c) = Switched(test, c, MaxK)
      BY <1>3, <2>3, <3>1, SwitchedSteps
    <3>3. mem = Switched(test, c, MaxK).mem
      BY <2>2, <3>2 DEF Now
    <3> QED BY <1>0, <3>3 DEF WorksAt
  <2>7. errors' < k' /\ (errors' = 0 <=> errors = 0 /\ WorksAt(test, c))
    BY <1>0, <1>3, <2>1, <2>6
  <2>8. Judged'
    BY <1>1, <2>2, <2>7 DEF Judged
  <2>9. Tried'
    <3> SUFFICES ASSUME NEW j \in OkCuts(test), j <= k' - 2 PROVE j \in cuts
      BY <1>0, <1>1 DEF Tried
    <3>1. j \in Nat /\ BAt(test, j).ok
      BY <1>3, AloneSteps DEF OkCuts
    <3>2. CASE j <= k - 2
      BY <1>0, <3>2 DEF Tried
    <3>3. CASE j = k - 1
      <4>1. ~(j \in k - 1..c - 1)
        BY <2>2, <3>1
      <4>2. j = c
        BY <1>3, <2>2, <2>3, <3>1, <3>3, <4>1
      <4> QED BY <2>2, <4>2
    <3> QED BY <1>3, <2>1, <3>1, <3>2, <3>3
  <2>10. Concluded'
    BY <2>1 DEF Concluded
  <2> QED BY <1>0, <1>1, <1>4, <2>5, <2>7, <2>8, <2>9, <2>10 DEF IInv
<1>6. CASE ~switched_p
  <2>1. UNCHANGED <<errors, k>> /\ pc' = "return"
    BY <1>6 DEF CheckRun
  <2>2. TypeOK'
    BY <1>0, <1>1, <2>1 DEF TypeOK
  <2>3. Tried' /\ Judged'
    BY <1>0, <1>1, <1>6, <2>1 DEF Tried, Judged
  <2>4. Concluded'
    <3> SUFFICES ASSUME NEW j \in OkCuts(test) PROVE j \in cuts
      BY <1>1, <2>1 DEF Concluded
    <3>1. j \in Nat /\ AtCut(test, j).pc # A_terminated(test) /\ BAt(test, j).ok
      BY <1>3, AloneSteps DEF OkCuts, CutPoints
    <3>2. AtCut(test, executed).pc = A_terminated(test) /\ inst_count = executed
      BY <1>0, <1>2, <1>3, <1>6 DEF Alone, Counted, Now
    <3>3. j < executed
      BY <1>3, <3>1, <3>2, AloneSteps
    <3>4. j <= k - 2
      BY <1>0, <1>2, <1>3, <1>6, <3>1, <3>2, <3>3 DEF Alone
    <3> QED BY <1>0, <3>4 DEF Tried
  <2> QED BY <1>0, <1>1, <1>4, <2>1, <2>2, <2>3, <2>4 DEF IInv
<1> QED BY <1>5, <1>6

\* What check() returns is whether there were errors.
LEMMA ReturnInv ==
    ASSUME IInv, Return \/ UNCHANGED vars
    PROVE  IInv'
<1>0. /\ TypeOK /\ NotYet /\ Counted /\ Alone /\ AfterSwitch /\ Tried /\ Judged /\ Concluded
      /\ interleaving_p = FALSE /\ errors < k
  BY DEF IInv
<1>1. CASE Return
  <2>1. /\ pc = "return" /\ pc' = "returned" /\ ret' = (errors = 0)
        /\ UNCHANGED <<test, trial, k, errors, inst_count, switched_p, interleaving_p,
                       mem, apc, mismatch, executed, cuts>>
    BY <1>1 DEF Return
  <2>2. ~Running /\ ~Running'
    BY <2>1 DEF Running
  <2>3. TypeOK'
    BY <1>0, <2>1 DEF TypeOK
  <2>4. Tried' /\ Judged' /\ Concluded'
    BY <1>0, <2>1, <2>2 DEF Tried, Judged, Concluded
  <2>5. NotYet' /\ Counted' /\ Alone' /\ AfterSwitch'
    BY <2>1, <2>2 DEF NotYet, Counted, Alone, AfterSwitch
  <2> QED BY <1>0, <2>1, <2>3, <2>4, <2>5 DEF IInv
<1>2. CASE UNCHANGED vars
  <2>1. Now' = Now /\ Running' = Running
    BY <1>2 DEF vars, Now, Running
  <2>2. TypeOK' /\ NotYet' /\ Counted' /\ Tried' /\ Judged' /\ Concluded'
    BY <1>0, <1>2, <2>1 DEF vars, TypeOK, NotYet, Counted, Tried, Judged, Concluded
  <2>3. Alone' /\ AfterSwitch'
    BY <1>0, <1>2, <2>1 DEF vars, Alone, AfterSwitch
  <2> QED BY <1>0, <1>2, <2>2, <2>3 DEF vars, IInv
<1> QED BY <1>1, <1>2

\* The invariant holds in every reachable state.
LEMMA Invariance == Spec => []IInv
<1>1. IInv /\ [Next]_vars => IInv'
  <2> SUFFICES ASSUME IInv, [Next]_vars PROVE IInv'
    OBVIOUS
  <2>1. CASE StepInst
    BY <2>1, StepOnInv, StepTryInv
  <2>2. CASE Trial \/ SequentialInstruction \/ SequentialB
    BY <2>2, TrialInv
  <2>3. CASE StartRun \/ UserInstruction
    BY <2>3, StartRunInv, UserInstructionInv
  <2>4. CASE StepEnd \/ EndRun \/ CheckRun
    BY <2>4, EndInv, CheckRunInv
  <2>5. CASE Return \/ UNCHANGED vars
    BY <2>5, ReturnInv
  <2> QED BY <2>1, <2>2, <2>3, <2>4, <2>5 DEF Next, Finished
<1> QED BY <1>1, InitInv, PTL DEF Spec

----------------------------------------------------------------------------
(* The theorems.                                                           *)

\* The counters of check() stay within its loops, and A within its code and its states.
THEOREM TypeCorrect == Spec => []TypeOK
<1>1. IInv => TypeOK
  BY DEF IInv
<1> QED BY <1>1, Invariance, PTL

\* The switch has been tried before each instruction of A at which B can run, whatever A
\* and B do and however long A is.
THEOREM EveryCutCovered == Spec => []CoversEveryCut
<1>1. IInv => CoversEveryCut
  BY DEF IInv, Tried, Concluded, OkCuts, CoversEveryCut
<1> QED BY <1>1, Invariance, PTL

\* check() returns 1 exactly if the code under test works wherever in A one switch to a
\* successful B is put.
THEOREM TruthReturned == Spec => []ReturnsTruth
<1>1. IInv => ReturnsTruth
  <2> SUFFICES ASSUME IInv, pc = "returned"
               PROVE  ret <=> \A j \in CutPoints(test) : BAt(test, j).ok => WorksAt(test, j)
    BY DEF ReturnsTruth
  <2>1. ret <=> \A j \in cuts : WorksAt(test, j)
    BY DEF IInv, Judged, Concluded, Running
  <2>2. cuts = {j \in CutPoints(test) : BAt(test, j).ok}
    BY DEF IInv, Tried, Concluded, OkCuts
  <2> QED BY <2>1, <2>2
<1> QED BY <1>1, Invariance, PTL
=============================================================================
