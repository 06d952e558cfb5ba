------------------------ MODULE MCInterleaveChecker ------------------------
(***************************************************************************)
(* Code under test for the checker.  A test is a routine A, a sequence of  *)
(* one-load, one-operation or one-store instructions that ends in a        *)
(* return, with a routine B and a check.  Checked are six of the tests in  *)
(* labs/10-interleave-checker/1-interleave/tests, and every A of at most   *)
(* MaxOps counter and lock instructions.                                   *)
(***************************************************************************)
EXTENDS InterleaveChecker, Sequences

CONSTANT MaxOps     \* bound: instructions of a generated A, its return aside

Named(a, b, good) == [a |-> Append(a, "ret"), b |-> b, good |-> good]

Epsilon == Named(<<>>, "nothing", "sequential")

\* At "beq", A goes back one instruction while the flag was up.
Repository == {
    Epsilon,
    Named(<<"load", "add", "store">>, "increment", "two"),
    Named(<<"lock", "load", "add", "store", "unlock">>, "trylock", "two"),
    Named(<<"test", "beq", "lock", "load", "add", "store", "unlock">>, "trylock", "two"),
    Named(<<"full", "slot", "head", "keep">>, "pop", "same"),
    Named(<<"slot", "head">>, "copy", "untorn") }

Generated ==
    {Named(a, b, good) : a \in UNION {[1..n -> {"load", "add", "store", "lock", "unlock"}] : n \in 0..MaxOps},
                         b \in {"increment", "trylock"}, good \in {"two", "counted"}}

Tests == Repository \cup Generated

Length(t) == Len(t.a)

\* cnt and the lock l, A's register r, and a one-entry queue with its two ends.
Counter == 0..MaxOps + 1    \* bound: counters wrap after it, which no test gets to
QueueTest(t) == t.b \in {"pop", "copy"}
States(t) ==
    LET number == IF QueueTest(t) THEN {0} ELSE Counter
        bit == IF QueueTest(t) THEN 0..1 ELSE {0}
    IN  [cnt : number, l : 0..1, r : number,
         head : bit, tail : bit, slot : bit, a : bit, b : bit]

Start(t) == [cnt |-> 0, l |-> 0, r |-> 0, head |-> 0, tail |-> 0, slot |-> 0, a |-> 0, b |-> 0]

Incremented(n) == (n + 1) % (MaxOps + 2)

Effect(op, s) ==
    CASE op = "load" -> [s EXCEPT !.r = s.cnt]
      [] op = "add" -> [s EXCEPT !.r = Incremented(@)]
      [] op = "store" -> [s EXCEPT !.cnt = s.r]
      [] op = "lock" -> [s EXCEPT !.l = 1]
      [] op = "unlock" -> [s EXCEPT !.l = 0]
      [] op = "test" -> [s EXCEPT !.r = s.l]
      [] op = "slot" -> [s EXCEPT !.slot = 1]
      [] op = "head" -> [s EXCEPT !.head = 1]
      [] op = "keep" -> [s EXCEPT !.a = 1]
      [] OTHER -> s

Inst(t, i, s) ==
    [pc |-> IF t.a[i] = "beq" /\ s.r # 0 THEN i - 1 ELSE i + 1, mem |-> Effect(t.a[i], s)]

Ready(t, s) ==
    CASE t.b = "trylock" -> s.l = 0
      [] t.b = "pop" -> s.head # s.tail
      [] OTHER -> TRUE

RunB(t, s) ==
    [ok |-> Ready(t, s),
     mem |-> IF ~Ready(t, s) THEN s
             ELSE CASE t.b \in {"increment", "trylock"} -> [s EXCEPT !.cnt = Incremented(@)]
                    [] t.b = "pop" -> [s EXCEPT !.tail = 1, !.b = s.slot]
                    [] t.b = "copy" -> [s EXCEPT !.a = s.slot, !.b = s.head]
                    [] OTHER -> s]

CheckState(t, s, interleaving) ==
    CASE t.good = "sequential" -> ~interleaving
      [] t.good = "two" -> s.cnt = 2
      [] t.good = "counted" -> s.cnt > 0 /\ s.l = 0
      [] t.good \in {"same", "untorn"} -> s.a = s.b
=============================================================================
