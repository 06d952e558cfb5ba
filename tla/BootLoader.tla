----------------------------- MODULE BootLoader -----------------------------
(***************************************************************************)
(* labs/6-bootloader: get_code on the pi (2-pi-side/get-code.h, main.c)    *)
(* and simple_boot on the laptop (1-unix-side/put-code.c), over a serial   *)
(* line whose pi end holds a few bytes and whose laptop end is a tty that  *)
(* may hold garbage when it is opened.                                     *)
(*                                                                         *)
(* A word travels as bytes <<tag, value, position>>, so that a reader that *)
(* is off by a byte, or that lost one, sees words nobody sent.             *)
(***************************************************************************)
EXTENDS Integers, Sequences

CONSTANTS
    B,           \* bytes of a word (4)
    Depth,       \* bytes of the pi's receive FIFO, and of its transmit FIFO (8)
    Program,     \* what my-install may send: records [id, addr, n, crc]
    WordMod,     \* 2^32
    BootStart, BootEnd,     \* &PUT32 and __prog_end__
    MaxGarbage,  \* bound: garbage bytes in the tty at first
    MaxUp,       \* bound: bytes on the way to the laptop when GET_PROG_INFO is repeated
    MaxRuns,     \* bound: times my-install is run
    MaxFaults    \* bound: faults of the environment

ASSUME BootAssumption ==
    /\ B \in Nat \ {0} /\ Depth \in Nat /\ Depth >= B
    /\ \A p \in Program : /\ p.addr \in 1..WordMod-1 /\ p.n \in 1..WordMod-1
                          /\ p.crc[1] = "num" => p.crc[2] \in 0..WordMod-1
    /\ WordMod \in Nat /\ BootStart \in Nat /\ BootEnd \in Nat
    /\ BootStart <= BootEnd /\ BootEnd < WordMod
    /\ MaxRuns \in Nat \ {0} /\ MaxFaults \in Nat

\* A checksum is a word: the same one for the same content, and another for another.
ASSUME CrcAssumption ==
    /\ \A p \in Program : p.crc = <<p.crc[1], p.crc[2]>> /\ p.crc # <<"bad crc", 0>>
    /\ \A p, q \in Program : p.crc = q.crc <=> p.id = q.id /\ p.n = q.n

VARIABLES
    pc,                     \* where get_code is; "running" once it has branched to the code
    addr, nbytes, cksum, i, \* its locals
    mem,                    \* what PUT8 has stored, by address
    up, down, rx,           \* bytes to the laptop, to the pi, in the pi's FIFO
    upc, prog,              \* where simple_boot is, the program it sends
    runs, faults,           \* history: runs of my-install, faults
    flips, overruns,        \* history: of the faults, bytes corrupted and bytes lost to a full FIFO
    stale,                  \* history: the tty held bytes of an earlier run at the start of this one
    loaded                  \* history: programs that were whole in memory when
                            \* BOOT_SUCCESS was sent, since my-install started

pivars == <<pc, addr, nbytes, cksum, i, mem>>
line == <<up, down, rx>>
uvars == <<upc, prog, runs, stale>>
hist == <<flips, overruns>>
vars == <<pivars, line, uvars, faults, hist, loaded>>

----------------------------------------------------------------------------
(* Words and bytes                                                         *)

GET_PROG_INFO == <<"GET_PROG_INFO", 0>>
PUT_PROG_INFO == <<"PUT_PROG_INFO", 0>>
GET_CODE == <<"GET_CODE", 0>>
PUT_CODE == <<"PUT_CODE", 0>>
BOOT_SUCCESS == <<"BOOT_SUCCESS", 0>>
BOOT_ERROR == <<"BOOT_ERROR", 0>>
PRINT_STRING == <<"PRINT_STRING", 0>>
Strlen == <<"strlen", 0>>
Num(n) == <<"num", n>>
JunkByte == <<"junk", 0, 0>>
NoByte == <<"none", 0, 0>>

Put32(w) == [k \in 1..B |-> <<w[1], w[2], k - 1>>]
Code(p) == [k \in 1..p.n |-> <<"code", p.id, k - 1>>]

\* The word in the first B bytes of s: the one sent, if they are its bytes in order.
Word(s) ==
    IF \A k \in 1..B : s[k] = <<s[1][1], s[1][2], k - 1>>
    THEN <<s[1][1], s[1][2]>> ELSE <<"junk", 0>>
DropN(s, n) == SubSeq(s, n + 1, Len(s))

\* boot_putk of a message, here of one character.
Putk == Put32(PRINT_STRING) \o Put32(Strlen) \o <<<<"char", 0, 0>>>>

\* A number read from the line: a word that is not a number reads as some other one.
JunkNums == {0} \cup UNION {{p.addr, p.n} : p \in Program}
Reads(w) == IF w[1] = "num" THEN {w[2]} ELSE JunkNums

----------------------------------------------------------------------------
(* The pi                                                                  *)

PiUnchanged == UNCHANGED <<uvars, faults, hist, loaded>>

\* rpi_reboot: the boot code runs again with an empty FIFO; what arrives in the
\* meantime is lost.
Reboot ==
    /\ pc' = "wait" /\ rx' = <<>>
    /\ \E n \in 0..Len(down) : down' = DropN(down, n)
    /\ addr' = 0 /\ nbytes' = 0 /\ cksum' = <<"junk", 0>> /\ i' = 0
    /\ UNCHANGED mem

\* boot_err: message, BOOT_ERROR, flush, reboot.
boot_err == Reboot /\ up' = up \o Putk \o Put32(BOOT_ERROR)

\* wait_for_data: GET_PROG_INFO, then poll; after 300 ms of silence, again.
PiAnnounce ==
    /\ pc = "wait"
    /\ up' = up \o Put32(GET_PROG_INFO)
    /\ pc' = "poll"
    /\ UNCHANGED <<addr, nbytes, cksum, i, mem, down, rx>> /\ PiUnchanged

PiTimeout ==
    /\ pc = "poll" /\ rx = <<>> /\ Len(up) + B <= MaxUp
    /\ pc' = "wait"
    /\ UNCHANGED <<addr, nbytes, cksum, i, mem, line>> /\ PiUnchanged

PiHasData ==
    /\ pc = "poll" /\ rx # <<>>
    /\ pc' = "op"
    /\ UNCHANGED <<addr, nbytes, cksum, i, mem, line>> /\ PiUnchanged

PiOp ==
    /\ pc = "op" /\ Len(rx) >= B
    /\ IF Word(rx) # PUT_PROG_INFO THEN boot_err
       ELSE /\ pc' = "addr" /\ rx' = DropN(rx, B)
            /\ UNCHANGED <<addr, nbytes, cksum, i, mem, up, down>>
    /\ PiUnchanged

PiHeader ==
    /\ Len(rx) >= B
    /\ \/ /\ pc = "addr" /\ pc' = "nbytes" /\ addr' \in Reads(Word(rx))
          /\ UNCHANGED <<nbytes, cksum>>
       \/ /\ pc = "nbytes" /\ pc' = "cksum" /\ nbytes' \in Reads(Word(rx))
          /\ UNCHANGED <<addr, cksum>>
       \/ /\ pc = "cksum" /\ pc' = "check" /\ cksum' = Word(rx)
          /\ UNCHANGED <<addr, nbytes>>
    /\ rx' = DropN(rx, B)
    /\ UNCHANGED <<i, mem, up, down>> /\ PiUnchanged

\* mutant: only the first address is checked
CollidesAtStart(a, n) == a < BootEnd /\ a >= BootStart

\* The overlap test, with its end computed in 32 bits.
Collides(a, n) == a < BootEnd /\ (a + n) % WordMod > BootStart

PiCheck ==
    /\ pc = "check"
    /\ IF Collides(addr, nbytes) THEN boot_err
       ELSE /\ pc' = "code"
            /\ up' = up \o Put32(GET_CODE) \o Put32(cksum)
            /\ UNCHANGED <<addr, nbytes, cksum, i, mem, down, rx>>
    /\ PiUnchanged

PiPutCode ==
    /\ pc = "code" /\ Len(rx) >= B
    /\ IF Word(rx) # PUT_CODE THEN boot_err
       ELSE /\ pc' = "bytes" /\ rx' = DropN(rx, B)
            /\ UNCHANGED <<addr, nbytes, cksum, i, mem, up, down>>
    /\ PiUnchanged

\* mutant: i <= nbytes
PiByteOneMore ==
    /\ pc = "bytes" /\ i <= nbytes /\ rx # <<>>
    /\ mem' = [mem EXCEPT ![(addr + i) % WordMod] = Head(rx)]
    /\ i' = i + 1
    /\ rx' = Tail(rx)
    /\ UNCHANGED <<pc, addr, nbytes, cksum, up, down>> /\ PiUnchanged

PiByte ==
    /\ pc = "bytes" /\ i < nbytes /\ rx # <<>>
    /\ mem' = [mem EXCEPT ![(addr + i) % WordMod] = Head(rx)]
    /\ i' = i + 1
    /\ rx' = Tail(rx)
    /\ UNCHANGED <<pc, addr, nbytes, cksum, up, down>> /\ PiUnchanged

\* crc32 of what is in memory, taken to tell any two contents apart.
Holds(a, p) == \A k \in 0..p.n-1 : mem[(a + k) % WordMod] = Code(p)[k + 1]
Crc(a, n) == IF \E p \in Program : p.n = n /\ Holds(a, p)
             THEN (CHOOSE p \in Program : p.n = n /\ Holds(a, p)).crc
             ELSE <<"bad crc", 0>>

CrcUnchecked == TRUE     \* mutant: the checksum is not compared
CrcMatches == Crc(addr, nbytes) = cksum

\* Success: a message, BOOT_SUCCESS, and a branch to the code, unless its address is 0.
PiFinish ==
    /\ pc = "bytes" /\ i = nbytes
    /\ IF ~CrcMatches THEN boot_err /\ UNCHANGED loaded
       ELSE /\ up' = up \o Putk \o Put32(BOOT_SUCCESS)
            /\ loaded' = loaded \cup {p \in Program : p.n = nbytes /\ Holds(addr, p)}
            /\ IF addr = 0 THEN Reboot
               ELSE /\ pc' = "running"
                    /\ UNCHANGED <<addr, nbytes, cksum, i, mem, down, rx>>
    /\ UNCHANGED <<uvars, faults, hist>>

Pi == \/ PiAnnounce \/ PiTimeout \/ PiHasData \/ PiOp \/ PiHeader
      \/ PiCheck \/ PiPutCode \/ PiByte \/ PiFinish

----------------------------------------------------------------------------
(* The laptop                                                              *)

UnixUnchanged == UNCHANGED <<pivars, rx, prog, runs, stale, faults, hist, loaded>>
Reading == {"sync", "drain", "crc", "success"}
ResyncWord == B     \* mutant: a whole word, which never changes the alignment
Resync == B + 1     \* bytes given up on a word that is not GET_PROG_INFO

\* get_op, when it meets a PRINT_STRING: the string is swallowed and it reads on.
\* A length cut short by a reset of the pi ends in bytes of the GET_PROG_INFO behind it: it
\* is over 1024, and get_op panics.
UnixPrint ==
    /\ upc \in Reading /\ Len(up) >= 2 * B /\ Word(up) = PRINT_STRING
    /\ IF Word(DropN(up, B)) = Strlen
       THEN Len(up) > 2 * B /\ up' = DropN(up, 2 * B + 1) /\ UNCHANGED upc
       ELSE upc' = "failed" /\ up' = DropN(up, 2 * B)
    /\ UNCHANGED down /\ UnixUnchanged

\* Any other word is what get_op returns to its caller.
Op(w) == Len(up) >= B /\ Word(up) = w
OtherOp(ws) == Len(up) >= B /\ Word(up) \notin ws \cup {PRINT_STRING}

\* Step 0: discard until GET_PROG_INFO; step 1: answer it.
UnixSync ==
    /\ upc = "sync"
    /\ \/ /\ OtherOp({GET_PROG_INFO}) /\ Len(up) >= Resync
          /\ up' = DropN(up, Resync)
          /\ UNCHANGED <<upc, down>>
       \/ /\ Op(GET_PROG_INFO)
          /\ up' = DropN(up, B)
          /\ down' = down \o Put32(PUT_PROG_INFO) \o Put32(Num(prog.addr))
                          \o Put32(Num(prog.n)) \o Put32(prog.crc)
          /\ upc' = "drain"
    /\ UnixUnchanged

\* A failed boot_check echoes what it reads until a read times out, and panics then.
BootCheckFails == upc' = "echo" /\ up' = DropN(up, B) /\ UNCHANGED down

UnixEcho ==
    /\ upc = "echo" /\ up # <<>>
    /\ up' = <<>>
    /\ UNCHANGED <<upc, down>> /\ UnixUnchanged

\* mutant: one GET_PROG_INFO is expected, and a repeated one is an error
UnixDrainNone ==
    /\ upc = "drain"
    /\ \/ /\ Op(GET_CODE) /\ up' = DropN(up, B) /\ upc' = "crc" /\ UNCHANGED down
       \/ OtherOp({GET_CODE}) /\ BootCheckFails
    /\ UnixUnchanged

\* Steps 2 and 3: skip repeated GET_PROG_INFOs; expect GET_CODE and the checksum.
UnixDrain ==
    /\ upc = "drain"
    /\ \/ /\ Op(GET_PROG_INFO) /\ up' = DropN(up, B) /\ UNCHANGED <<upc, down>>
       \/ /\ Op(GET_CODE) /\ up' = DropN(up, B) /\ upc' = "crc" /\ UNCHANGED down
       \/ OtherOp({GET_PROG_INFO, GET_CODE}) /\ BootCheckFails
    /\ UnixUnchanged

\* Step 4: the checksum is read with get_op too; then PUT_CODE and the code.
UnixCrc ==
    /\ upc = "crc"
    /\ \/ /\ Op(prog.crc) /\ prog.crc # PRINT_STRING
          /\ up' = DropN(up, B)
          /\ down' = down \o Put32(PUT_CODE) \o Code(prog)
          /\ upc' = "success"
       \/ OtherOp({prog.crc}) /\ BootCheckFails
    /\ UnixUnchanged

\* Step 5.
UnixSuccess ==
    /\ upc = "success"
    /\ \/ /\ Op(BOOT_SUCCESS)
          /\ up' = DropN(up, B) /\ upc' = "done" /\ UNCHANGED down
       \/ /\ Op(BOOT_ERROR)
          /\ up' = DropN(up, B) /\ upc' = "failed" /\ UNCHANGED down
       \/ OtherOp({BOOT_SUCCESS, BOOT_ERROR}) /\ BootCheckFails
    /\ UnixUnchanged

Unix == UnixPrint \/ UnixSync \/ UnixDrain \/ UnixCrc \/ UnixSuccess \/ UnixEcho

----------------------------------------------------------------------------
(* The line, and what goes wrong                                           *)

Deliver ==
    /\ down # <<>> /\ Len(rx) < Depth
    /\ rx' = Append(rx, Head(down))
    /\ down' = Tail(down)
    /\ UNCHANGED <<pivars, up, uvars, faults, hist, loaded>>

Fault == faults < MaxFaults /\ faults' = faults + 1

\* A byte arrives at a full FIFO and is gone.
Overrun ==
    /\ down # <<>> /\ Len(rx) = Depth /\ Fault
    /\ down' = Tail(down)
    /\ overruns' = overruns + 1
    /\ UNCHANGED <<pivars, up, rx, uvars, flips, loaded>>

\* A byte arrives corrupted: 8n1 has no parity.
Corrupt ==
    /\ down # <<>> /\ Len(rx) < Depth /\ Fault
    /\ rx' = Append(rx, JunkByte)
    /\ down' = Tail(down)
    /\ flips' = flips + 1
    /\ UNCHANGED <<pivars, up, uvars, overruns, loaded>>

\* The program ends with a reboot, as the pi programs of this repository do.
ProgramEnds ==
    /\ pc = "running"
    /\ Reboot
    /\ UNCHANGED <<up, uvars, faults, hist, loaded>>

\* The power is cycled: what the pi's transmit FIFO held is lost.
PiReset ==
    /\ Fault
    /\ Reboot
    /\ \E n \in 0..Depth : n <= Len(up) /\ up' = SubSeq(up, 1, Len(up) - n)
    /\ UNCHANGED <<uvars, hist, loaded>>

\* simple_boot cannot go on with the bytes it has.
Starved ==
    \/ Len(up) < B
    \/ Len(up) \in B..2*B /\ Word(up) = PRINT_STRING
    \/ upc = "sync" /\ Len(up) \in B..Resync-1 /\ Word(up) # GET_PROG_INFO

\* The pi will send nothing more by itself: it runs the program, or is in boot_get8,
\* which has no timeout.
PiWaits ==
    /\ down = <<>>
    /\ \/ pc = "running"
       \/ pc \in {"op", "addr", "nbytes", "cksum", "code"} /\ Len(rx) < B
       \/ pc = "bytes" /\ i < nbytes /\ rx = <<>>

\* read() returns 0 after 5 s of silence, and get_uint8 dies, or the echo ends.
ReadTimeout ==
    /\ \/ upc \in Reading /\ Starved
       \/ upc = "echo" /\ up = <<>>
    /\ upc' = "failed" /\ up' = <<>>
    /\ UNCHANGED <<pivars, down, rx, prog, runs, stale, hist, loaded>>

SilenceTimeout == PiWaits /\ ReadTimeout /\ UNCHANGED faults
SlowTimeout == ~PiWaits /\ Fault /\ ReadTimeout

\* The user interrupts my-install.
UnixKill ==
    /\ upc \in Reading \cup {"echo"} /\ Fault
    /\ upc' = "failed"
    /\ UNCHANGED <<pivars, line, prog, runs, stale, hist, loaded>>

\* The user runs my-install, perhaps again, perhaps with another program; the tty may
\* still hold what the last run left.
UnixRun ==
    /\ upc \in {"done", "failed"} /\ runs < MaxRuns
    /\ upc' = "sync" /\ prog' \in Program /\ runs' = runs + 1
    /\ up' \in {up, <<>>} /\ stale' = (up' # <<>>)
    /\ loaded' = {}
    /\ UNCHANGED <<pivars, down, rx, faults, hist>>

Environment == \/ Overrun \/ Corrupt \/ PiReset \/ ProgramEnds
               \/ SilenceTimeout \/ SlowTimeout \/ UnixKill \/ UnixRun

Init ==
    /\ pc = "wait" /\ addr = 0 /\ nbytes = 0 /\ cksum = <<"junk", 0>> /\ i = 0
    /\ mem = [a \in 0..WordMod-1 |-> NoByte]
    /\ \E n \in 0..MaxGarbage : up = [k \in 1..n |-> JunkByte]
    /\ down = <<>> /\ rx = <<>>
    /\ upc = "sync" /\ prog \in Program /\ runs = 1
    /\ faults = 0 /\ flips = 0 /\ overruns = 0 /\ stale = FALSE /\ loaded = {}

Next == Pi \/ Unix \/ Deliver \/ Environment

Spec == Init /\ [][Next]_vars

\* Both machines keep running, the line keeps carrying bytes, and a read on a silent
\* line does time out.
FairSpec ==
    /\ Spec
    /\ WF_vars(Pi) /\ WF_vars(Unix) /\ WF_vars(Deliver)
    /\ WF_vars(SilenceTimeout)

----------------------------------------------------------------------------
(* Properties                                                              *)

\* Every variable has its type.
TypeOK ==
    /\ pc \in {"wait", "poll", "op", "addr", "nbytes", "cksum", "check", "code", "bytes", "running"}
    /\ addr \in 0..WordMod-1 /\ nbytes \in 0..WordMod-1 /\ i \in 0..nbytes
    /\ DOMAIN mem = 0..WordMod-1
    /\ Len(rx) <= Depth
    /\ upc \in Reading \cup {"echo", "done", "failed"} /\ prog \in Program
    /\ runs \in 1..MaxRuns /\ faults \in 0..MaxFaults
    /\ flips \in 0..faults /\ overruns \in 0..faults
    /\ stale \in BOOLEAN /\ loaded \subseteq Program

\* What the pi branches to is a whole program that my-install sent, every byte of it in
\* its place, whatever was lost, left over or corrupted before; and it is at the address that
\* was asked for unless a byte was corrupted or lost at a full FIFO: resets, timeouts and
\* repeated runs do not mix up the headers of two programs.
BootsWholeProgram ==
    pc = "running" =>
        \E p \in Program :
            /\ nbytes = p.n /\ Holds(addr, p)
            /\ flips = 0 /\ overruns = 0 => addr = p.addr

\* No byte of a download is ever stored over the boot code that is storing it, whatever
\* the header that arrived says, as long as its addr + nbytes fits in a word.
NoClobber ==
    [][addr + nbytes < WordMod => \A a \in BootStart..BootEnd-1 : mem'[a] = mem[a]]_vars

\* get-code.h: "If the binary will collide with us, abort with a BOOT_ERROR", without
\* an exception for an addr + nbytes that wraps.
NeverCollides == \A a \in BootStart..BootEnd-1 : mem[a] = NoByte

\* When my-install says the boot is done, the pi had this very program whole in its
\* memory, in this very run, however often the pi was reset and whatever was lost or
\* corrupted, in this run or before: unless the tty still held what an earlier run left.
\* (Such a tty may hold a GET_CODE, this checksum and a BOOT_SUCCESS: it takes three
\* faults to make my-install believe them.)
DoneMeansLoaded == upc = "done" /\ ~stale => prog \in loaded

\* Without a fault, whatever garbage the tty held, a first run fails only for a program
\* that collides with the boot code.
NoFaultNoFail ==
    faults = 0 /\ runs = 1 /\ upc \in {"echo", "failed"}
        => prog.addr < BootEnd /\ prog.addr + prog.n > BootStart

\* Without a fault, every run comes to an end or, at worst, to the echo of a failed
\* check: the two sides never wait for one another, and never exchange
\* GET_PROG_INFOs for ever.
InstallEnds == []<>(faults > 0 \/ upc \notin Reading)

\* The word read with get_op as the checksum, which is data, is never taken for a
\* PRINT_STRING (put-code.c: "data can have the same value as an opcode and get
\* hijacked").
ChecksumNotHijacked == ~(upc = "crc" /\ Len(up) >= B /\ Word(up) = PRINT_STRING /\ faults = 0)
=============================================================================
