--------------------------- MODULE LogicAnalyzer ----------------------------
(***************************************************************************)
(* labs/8-device-int/4-logic-analyzer/logic-analyzer.c over gpio-int.c:    *)
(* an interrupt handler that records each edge of a pin as two words, the  *)
(* time and the level before it, and a main program that reads them in     *)
(* pairs.  The line changes at any time, also while the handler runs; main *)
(* never runs while it does.                                               *)
(*                                                                         *)
(* The queue is the FIFO that CircularQueue implements, in words: 8191     *)
(* bytes hold an odd number of them.  A time is the number of edges so     *)
(* far, by which the reader tells which edge it is told about.             *)
(***************************************************************************)
EXTENDS Integers, Sequences

CONSTANTS
    Capacity,   \* words that fit in the queue (2047)
    MaxEdges,   \* bound: edges of the line
    Rounds      \* turns of the loop of notmain (2)

ASSUME AnalyzerAssumption == Capacity \in Nat /\ MaxEdges \in Nat /\ Rounds \in Nat

VARIABLES
    edges,          \* edges of in_pin so far; it starts at 1
    event,          \* the bit of in_pin in GPEDS0, which holds the interrupt up
    hpc, s, prev,   \* the handler ("none": it does not run) and its local variables
    q,              \* uartQ
    main, round,    \* where notmain is, turns of its loop to come
    out,            \* the words it has popped
    dropped,        \* history: a push was refused
    close           \* history: an edge came before the last one had been served

vars == <<edges, event, hpc, s, prev, q, main, round, out, dropped, close>>

Level(k) == (k + 1) % 2         \* of the pin, after k edges
Time(k) == <<"s", k>>
Value(l) == <<"v", l>>

----------------------------------------------------------------------------
\* An edge is latched in the event register, once however many there are.
Edge ==
    /\ edges < MaxEdges
    /\ edges' = edges + 1 /\ event' = TRUE
    /\ close' = (close \/ event \/ hpc # "none")
    /\ UNCHANGED <<hpc, s, prev, q, main, round, out, dropped>>

\* The handler is entered, and reads the cycle counter first.
Enter ==
    /\ hpc = "none" /\ event /\ main \notin {"done", "panic"}
    /\ hpc' = "check" /\ s' = edges
    /\ UNCHANGED <<edges, event, prev, q, main, round, out, dropped, close>>

\* gpio_has_interrupt and gpio_event_detected.
Check ==
    /\ hpc = "check"
    /\ hpc' = IF event THEN "read" ELSE "none"
    /\ UNCHANGED <<edges, event, s, prev, q, main, round, out, dropped, close>>

LevelNow ==             \* mutant: the level is stored as it is
    /\ hpc = "read"
    /\ prev' = Level(edges) /\ hpc' = "push_s"
    /\ UNCHANGED <<edges, event, s, q, main, round, out, dropped, close>>
ReadLevel ==
    /\ hpc = "read"
    /\ prev' = 1 - Level(edges) /\ hpc' = "push_s"
    /\ UNCHANGED <<edges, event, s, q, main, round, out, dropped, close>>

PushOverfull(w) ==      \* mutant: room for one word more
    /\ q' = IF Len(q) <= Capacity THEN Append(q, w) ELSE q
    /\ dropped' = (dropped \/ Len(q) > Capacity)
\* cq_push32, whose result is not looked at.
Push(w) ==
    /\ q' = IF Len(q) < Capacity THEN Append(q, w) ELSE q
    /\ dropped' = (dropped \/ Len(q) >= Capacity)

PushTime ==
    /\ hpc = "push_s" /\ Push(Time(s)) /\ hpc' = "push_v"
    /\ UNCHANGED <<edges, event, s, prev, main, round, out, close>>

PushValueLeavesEvent == \* mutant: the event is not cleared
    /\ hpc = "push_v" /\ Push(Value(prev)) /\ hpc' = "none"
    /\ UNCHANGED <<edges, event, s, prev, main, round, out, close>>
PushValue ==
    /\ hpc = "push_v" /\ Push(Value(prev)) /\ hpc' = "clear"
    /\ UNCHANGED <<edges, event, s, prev, main, round, out, close>>

\* gpio_event_clear: whatever has set the event in the meantime is forgotten.
Clear ==
    /\ hpc = "clear" /\ event' = FALSE /\ hpc' = "none"
    /\ UNCHANGED <<edges, s, prev, q, main, round, out, dropped, close>>

----------------------------------------------------------------------------
\* A step of notmain, between interrupts.
Main(from, to) == main = from /\ hpc = "none" /\ main' = to

\* sw_uart_put8 and delay_ms: time in which the line may change.
Collect ==
    /\ Main("collect", IF q = <<>> THEN "panic" ELSE "s")
    /\ UNCHANGED <<edges, event, hpc, s, prev, q, round, out, dropped, close>>

\* cq_pop32 waits for a word.
Pop == q # <<>> /\ out' = Append(out, Head(q)) /\ q' = Tail(q)

PopTime ==
    /\ Main("s", "v") /\ Pop
    /\ UNCHANGED <<edges, event, hpc, s, prev, round, dropped, close>>

PopValue ==
    /\ Main("v", "test") /\ Pop
    /\ UNCHANGED <<edges, event, hpc, s, prev, round, dropped, close>>

\* while(!cq_empty(&uartQ)), and the loop around it.
Test ==
    /\ Main("test", IF q # <<>> THEN "s" ELSE IF round > 1 THEN "collect" ELSE "done")
    /\ round' = IF q = <<>> THEN round - 1 ELSE round
    /\ UNCHANGED <<edges, event, hpc, s, prev, q, out, dropped, close>>

----------------------------------------------------------------------------
Init ==
    /\ edges = 0 /\ event = FALSE /\ hpc = "none" /\ s = 0 /\ prev = 0 /\ q = <<>>
    /\ main = "collect" /\ round = Rounds /\ out = <<>>
    /\ dropped = FALSE /\ close = FALSE

interrupt_vector == Enter \/ Check \/ ReadLevel \/ PushTime \/ PushValue \/ Clear
notmain == Collect \/ PopTime \/ PopValue \/ Test

Next == Edge \/ interrupt_vector \/ notmain

Spec == Init /\ [][Next]_vars

----------------------------------------------------------------------------
(* Properties                                                              *)

Word == {"s"} \X (0..MaxEdges) \cup {"v"} \X {0, 1}

TypeOK ==
    /\ edges \in 0..MaxEdges /\ event \in BOOLEAN
    /\ hpc \in {"none", "check", "read", "push_s", "push_v", "clear"}
    /\ s \in 0..MaxEdges /\ prev \in {0, 1} /\ q \in Seq(Word) /\ Len(q) <= Capacity
    /\ main \in {"collect", "s", "v", "test", "done", "panic"} /\ round \in Int
    /\ out \in Seq(Word) /\ dropped \in BOOLEAN /\ close \in BOOLEAN

\* Everything recorded, read or not.
Log == out \o q

\* If no edge came before the one before had been served, and the queue was never full,
\* the words are exactly the edges of the line: the time of each, and the level before it.
Faithful ==
    ~close /\ ~dropped =>
        \A i \in DOMAIN Log :
            Log[i] = IF i % 2 = 1 THEN Time((i + 1) \div 2) ELSE Value((i \div 2) % 2)

\* With edges as close as they like, as long as the queue was never full: what main takes
\* for a time is one, what it takes for a level is one, times increase, and main, which
\* looks at the queue once for two words, never waits for the second.  A queue with room
\* for one word takes the first of a pair, and ends all three.
PairsWhole ==
    ~dropped =>
        /\ \A i \in DOMAIN Log : Log[i][1] = IF i % 2 = 1 THEN "s" ELSE "v"
        /\ \A i, j \in DOMAIN Log :
              i < j /\ i % 2 = 1 /\ j % 2 = 1 => Log[i][2] < Log[j][2]
        /\ ~(main = "v" /\ hpc = "none" /\ q = <<>>)
=============================================================================
