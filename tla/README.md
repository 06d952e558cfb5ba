# TLA+ models of the CS140E code

CS140E (winter 2026) builds a small operating system for a bare Raspberry Pi, one lab at a
time: `libpi/` is the runtime that every program on the pi links, `libunix/` the one of the
tools on the laptop, and `labs/` holds the subsystems. This directory models the parts of it
whose correctness depends on the order of events: what interrupt handlers, threads, two
machines on a serial line or a radio channel, a processor and its TLB, or a single-stepped
program and its checker do between each other's steps; and one that depends on no order but
on every possible input, the FAT32 reader. TLC checks the models on small instances; TLAPS
proves, for every size, what matters most of them.

Paths below are relative to the root of the repository.

## Running

    tlc -config MCCircularQueue.cfg      MCCircularQueue       # 178 thousand states
    tlc -config MCRpiThreads.cfg         MCRpiThreads          #  20 thousand
    tlc -config MCBootLoader.cfg         MCBootLoader          # 1.3 million, two minutes
    tlc -config MCInterleaveChecker.cfg  MCInterleaveChecker   # 114 thousand
    tlc -config MCNrfRadio.cfg           MCNrfRadio            # 1 million, two minutes
    tlc -config MCPageTables.cfg         MCPageTables          # 1.1 million, two minutes
    tlc -config MCFat32Reader.cfg        MCFat32Reader         # 252 thousand
    tlc -config MCLogicAnalyzer.cfg      MCLogicAnalyzer       #  31 thousand

    for m in CircularQueue RpiThreads LogicAnalyzer NrfRadio Fat32Reader \
             InterleaveChecker BootLoader PageTables; do tlapm ${m}Proofs.tla; done

`MCCircularQueuePeek.cfg`, `MCBootLoaderHijack.cfg`, `MCBootLoaderWrap.cfg` and
`MCFat32Upper.cfg` (with `MCFat32Reader`) end in a counterexample: see "Findings".

## Inventory

| component | state | operations | what is hard | what makes it correct |
|---|---|---|---|---|
| **circular queue** `libpi/libc/circular.h` | `buf`, `head`, `tail` | push, pop, peek, each alone or n at a time | an interrupt handler and the code it interrupts, without a lock; unsigned indices that wrap | it is a FIFO; no assert fails; `cq_pop` waits only if it can be woken |
| **cooperative threads** `labs/5-threads` | run queue, free queue, `cur_thread`, `scheduler_thread`, saved stacks | fork, start, yield, exit | blocks recycled while one still runs on its stack; start called again | no thread lost, duplicated or resumed with another's registers; round robin |
| **bootloader** `labs/6-bootloader` | the pi's locals and memory; the laptop's step; bytes in flight, in the FIFO, in the tty | a six-step exchange | lost and corrupted bytes, garbage, resets, timeouts on both sides, repeated announcements, a second run | what is run is what was sent; the loader does not overwrite itself; success means success; it ends |
| **interleaving checker** `labs/10-interleave-checker/1-interleave` | the checker's counters, mismatch address, A's registers, shared memory | single step, run B, resume, next run | faults inside a switch, B that fails and is retried, state carried from run to run | its verdict is the truth |
| laptop side of my-install | options, tty | find, open, configure, echo | I/O of the host | its timeout and its re-runs are in the bootloader model |
| **NRF radio** `labs/14-nrf-networking` | the receive queue, the radio's mode, FIFOs and interrupt flags | send with and without acknowledgement, poll, read | loss, lost acknowledgements, duplicates, full queues, both sides sending | packets are read in the order sent; what was acknowledged is kept; a send ends |
| **virtual memory** `labs/15-vm-coherence`, `17-vm-page-table` (and `13-pinned-vm`, not modelled) | page tables, cp15 registers, TLB, data cache, write buffer | map, copy, switch, enable, disable | nothing an instruction starts is done before a barrier; the TLB walks by itself | every table is a function in force at once; the kernel stays mapped |
| **FAT32 reader** `labs/16-fat32-readonly` | the table in memory, the disk | list, stat, read | two walks of one chain; damaged, cyclic and shared chains; 28 of 32 bits; sizes that wrap | what is returned is on the disk; no write outside the buffer; it ends |
| **GPIO interrupts, logic analyzer** `labs/8-device-int` | event register, queue of edges | detect, push, clear, read back | an edge during the handler; a queue with room for half a record | whole pairs, in order; exactly the edges |
| UART, software UART `labs/7-uart` | device registers | put, get, flush | cycle-timed | order of enable and configure |
| GPIO driver `labs/2-gpio` | device registers | set function, read, write | read-modify-write of shared registers | other pins are left alone |
| debug hardware `labs/11-debug-hw` | breakpoint and watchpoint registers | set, clear, handle | faults inside handlers | what the interleaving checker sees is in its model |
| preemption `labs/12-preemptive` | saved register blocks | save, switch | all registers, in assembly | nothing visible above the instruction level |
| mailbox `labs/9-mailbox` | one message | request, poll | shared memory with the GPU | one request, one answer |
| runtime library `libpi`, `libunix` | none | printing, memory, strings | | |
| cross-checking, trusting trust, measurement | none | harnesses and exercises | | |

How they interact. The ring is filled from interrupt handlers (GPIO events, timer) or by the
radio driver and emptied by the code they interrupt. Threads share memory and call each
other only through the package. The bootloader's two halves share nothing but the serial
line. The logic analyzer's handler fills a ring that the main program empties. The page
tables of lab 17 call the coherence routines of lab 15. The interleaving checker drives the
debug hardware, and runs routines that themselves use rings and locks.

`PROJECT.json` lists each component's status, and under "hazards" the places where this code
can go wrong in ways that a test would hardly meet.

## Modules

### The ring: `CircularQueue`, specification `BoundedFifo`

A step is one access to shared memory: the full or empty test, the store or load of a slot,
the update of an index, in the order that the `gcc_mb` barriers of `circular.h` keep. `ppc`
and `cpc` are the two sides' program counters, `pdata` and `need` what is left of a call;
`batch` tells `cq_push_n` from `cq_push`, and `cop` which reading routine was called. `ie`
is the processor's interrupt state: the producer is a handler and runs only while it is set,
and `SetInterrupts` is the caller masking and unmasking between its calls. With `Handler =
TRUE` a handler runs to its end once started, as on the pi; with `FALSE` the two sides
interleave freely, which includes every behaviour of the former and also covers two threads
of execution.

`Nelem` keeps the code's double modulo (the 32-bit wrap, then `CQ_N`), and the assumption
`WordMod % N = 0` is what makes it right. `PeekIE` says in which interrupt states
`cq_peek_n` is used. The whole ring refines `BoundedFifo` under the mapping `Queue`: the
slots from `tail` to `head`, except inside `cq_peek_n`, where `tail` has been moved and
nothing removed, and the mapping starts at the saved `tail`.

Left out: `cq_init` (it is `Init`), `cq_ckpt` and `cq_restore` (which nothing calls), the
fence, the overflow counter that is never incremented, and the local copy of the index a
side owns, which agrees with the index until that side updates it.

### Threads: `RpiThreads`, specification `RoundRobin`

`runq` and `freeq` are sequences of blocks, `tidOf` their ids, `ctx` the execution that each
block's `saved_sp` would resume, `cpu` the execution that has the processor. An execution is
who it is and how many steps it has taken, so that a switch that resumed an old, a foreign
or a half-saved stack would be seen. Every call is one action up to and including its
context switch, because nothing preempts. `th_alloc`, `th_free` (push at the front, as
`Q_push` does) and `rpi_cswitch` are helpers with the code's names. `rpi_exit` frees the
block before it switches away from it, as the code does; `rpi_thread_start` allocates the
scheduler's block on the first call only.

`RoundRobin` has thread ids only: no blocks, no free list. That the package refines it says
that recycling never shows.

### Bootloader: `BootLoader`

The pi's `get_code` and the laptop's `simple_boot`, the FIFO of the pi's UART (`rx`), the
bytes on the way to it (`down`) and the bytes sent to or waiting in the laptop's tty (`up`).
A word is sent as `B` bytes that carry the word's name and their position in it, so that a
reader that is off by a byte sees words nobody sent. `Word` reassembles. The reads of one
word are one step; code bytes are stored one by one. Numbers read from a mangled word are
any of a set (`Reads`): zero, or an address or a size of another program.

The environment loses bytes at a full FIFO (`Overrun`), corrupts them (`Corrupt`), resets
the pi (`PiReset`), makes the laptop time out early (`SlowTimeout`), interrupts my-install
(`UnixKill`), all within `MaxFaults`; it ends the running program, and runs my-install
again. A reboot loses any number of the bytes on their way to the pi, and a reset any number
of those in the pi's transmit FIFO. `flips` and `overruns` count the bytes corrupted and the
bytes lost to a full FIFO. `get_op` skips `PRINT_STRING` messages (`UnixPrint`), a failed
check echoes until a read times out (`UnixEcho`), and a word that is not the expected
`GET_PROG_INFO` costs one byte more than a word, which is what makes resynchronisation
possible (`Resync`).

Bytes on their way to the laptop are lost, and follow what garbage there was, but are not
corrupted. A string length that reads as another number therefore comes from one place only:
a reset cut it off, and the announcement of the rebooted pi follows. Its last byte read, the
most significant one, is then a byte of `GET_PROG_INFO`, none of which is 0 (`boot-defs.h`),
so that the length is above 1024 and `get_op` panics, which is what `UnixPrint` does.

CRC32 is taken to tell apart any two memory contents of the instance: that it can collide is
not modelled.

### Interleaving checker: `InterleaveChecker`

The code under test is a parameter: `Exec` gives one instruction of A, `BRun` the whole of B
and whether it gave up, `Good` the test's check. The model is `check()`, its sequential
trials, the single-step handler with the mismatch address, and the system call that ends a
run. `After`, `AtCut` and `WorksAt` define independently what it means that A and B work
under one switch, and the properties compare the checker's verdict with it. The MC module
encodes six of the repository's tests and generates every A of up to four instructions from
load, add, store, lock and unlock.

### Radio: `NrfRadio`, specification `RadioChannel`

Two pis call the routines of `nrf-public.c` at will. `nrf_get_pkts` is two steps for each
packet (`GetPacket` reads it from the radio, `PushPacket` pushes it or panics), and every
call begins with its loop; a send then loads the message (`Load`), switches to TX mode
(`Start`) and waits for a flag (`Sent`, `GiveUp`). A pi that gives up clears the flag first
and flushes the packet later (`Flush`): its radio may send it once more in between. The
radios act between any two of these steps. They are external, and modelled by what the
driver and `nrf.h` count on: no reception outside RX mode, a full FIFO drops (and does not
acknowledge) what arrives, an unacknowledged packet is sent again up to `Retries` times and
may therefore be received twice (`nrf.h:73`). A transmission with its acknowledgement is one
step. A packet is the number of its message: what it carries does not matter. The receive
queue is a sequence with a capacity, which is what `RingImplementsFifo` allows: the driver
is its only user.

`RadioChannel` is one direction: an ordered channel that may lose messages, may repeat one
only while it is being sent, and reports success in acknowledged mode only for what has
arrived.

### Page tables: `PageTables`, specification `AddressSpaces`

A routine of `your-mmu-asm.S`, `mmu.c` or `pt-vm.c` is the sequence of instructions in it
that the hardware can tell apart, and has its name: `cp15_set_procid_ttbr0` is a DSB, ASID
0, a prefetch flush, and so on. A call appends the sequence to `code`, and the processor
executes it an instruction at a time. An instruction only starts something. Stores to a
table go to a write buffer (`Drain` makes them, in order); TLB and cache operations are
pending in `maint` (`Complete`); writes to cp15 are pending in `pend` and take effect in any
order between registers (`Cp15Effect`). Only a DSB waits for the first two, only a prefetch
flush for the last. All the while the TLB loads entries of either address (`Walk`) and drops
them (`TlbEvict`), and dirty lines are written back (`CacheEvict`). After power-up TLB and
cache hold anything. `vm_map_sec` stores an entry field by field, so that a walk may see
half an entry, and `vm_dup` is not followed by a synchronisation, as in the code.

The program uses the routines as `tests/1-test-two-addr.c` does: table `t` with ASID `t`,
user sections private, the kernel's global. Each call is possible whenever its assertions
hold, so that mappings are changed, tables copied and switched with the MMU on and off in
any order. One section of user memory is mapped to a cached or an uncached page; loads and
stores go through whatever entry the TLB holds. `AddressSpaces` has no TLB, no cache and no
instructions: a map per table, in force from the call on, and a memory that holds what was
stored last.

The processor is external, modelled by what the lab's README and comments say of the
ARM1176. Instruction cache, branch predictor, permissions and super-sections are left out.

### FAT32: `Fat32Reader`

One step is one iteration of a loop of `fat32.c`, or the scan of a directory that has been
read. A disk is a table, a root and what each cluster holds as a directory; it need not be
well formed. The caller holds the directories that were returned to it (`opened`) and calls
`fat32_readdir`, `fat32_stat` and `fat32_read` on them in any order.
`get_cluster_chain_length` counts (`n`), `Allocate` is the buffer, `read_cluster_chain`
fills it (`buf`), with the asserts of each: `LengthAssert`, `ReadAssert`. A size is a number
of clusters, and `Wrap` of them are 2^32 bytes: the buffer holds the number counted modulo
`Wrap`, as the 32-bit products of lines 185 and 315 have it, and a cluster that is read to
where no room is left is `Overrun`, after which nothing is claimed. At any time the card may
give an error or the heap be empty (`Fail`: `pi_sd_read` panics, the `kmalloc`s are followed
by asserts). The 28 bits of an entry are scaled to `0..Hi-1` with the sixteen special values
at the top, as in `fat32_fat_entry_type`. Cluster contents other than directory entries are
the cluster's number. The properties say independently, from the format, what a chain
(`IsChain`) and a directory (`Listing`) are.

As in the code, an entry with first cluster 0 is an empty directory: so is the `..` of a
first-level directory. A directory with a further attribute (hidden) is no directory (`attr`
is compared for equality), and the size in an entry is not compared with the length of its
chain.

### Logic analyzer: `LogicAnalyzer`

The event register is one bit, which an edge sets and `Clear` resets, whatever came between.
The handler's steps are its accesses: the cycle counter, the event, the level, two pushes,
the clear. Main runs only while it does not. The queue is the FIFO that `RingImplementsFifo`
allows, counted in words: 8191 bytes hold 2047 of them, an odd number, so that the first
push of a pair may fit and the second may not. A time is the number of the last edge.
`dropped` and `close` are history.

## What the runs check

Each property is stated in words above its definition.

| run | instance | properties |
|---|---|---|
| `circular_queue` | four slots, word of 8, batches of two, two byte values, free interleaving, `cq_peek_n` masked | `TypeOK`, `AssertionsHold`, `LoadIsStable`, `PanicOnlyIfStuck`, `ImplementsFifo`, `CallsReturn` |
| `circular_queue_peek` | the same with a handler and `cq_peek_n` unmasked | `AssertionsHold` is violated |
| `rpi_threads` | five ids (a scheduler and four threads), one step of their own each | `TypeOK`, `BlocksAccounted`, `CurrentIsRunning`, `ContextsIntact`, `NoThreadLost`, `ImplementsRoundRobin`, `NoStarvation` |
| `boot` | words of two bytes, a FIFO of four, 16 addresses, a program that fits and one that overlaps the boot code, two runs, two faults, one byte of garbage | `TypeOK`, `BootsWholeProgram`, `NoClobber`, `DoneMeansLoaded`, `NoFaultNoFail`, `InstallEnds` |
| `boot_hijack` | a program whose checksum has the value of `PRINT_STRING` | `ChecksumNotHijacked` is violated |
| `boot_wrap` | as `boot` | `NeverCollides` is violated |
| `interleave` | six tests of the repository and 3124 generated ones, one sequential trial | `TypeOK`, `ReturnsTruth`, `CoversEveryCut`, `CheckReturns` |
| `nrf_radio` | two messages from each side, FIFOs and queues of two packets, one retransmission, two losses, both modes | `TypeOK`, `AlwaysListening`, `AckedIsKept`, `ImplementsChannel`, `SendsEnd` |
| `page_tables` | two tables, two user pages, one of them cached, two values | `TypeOK`, `KernelMapped`, `TlbCoherent`, `ImplementsSpaces` |
| `fat32_reader` | all 1296 tables of four data clusters over six kinds of entry, three directory layouts, two names, 2^32 bytes in three clusters | `TypeOK`, `FitsUnlessWrapped`, `ReturnsContents`, `HaltsOnlyIfCorrupt`, `Returns` |
| `fat32_upper` | the same tables with the upper bits set | `HaltsOnlyIfCorrupt` is violated |
| `logic_analyzer` | six edges, a queue of five words, two rounds | `TypeOK`, `Faithful`, `PairsWhole` |

### Why the bounds are enough to say something

- *Ring.* With three usable slots and batches of two, a queue is empty, partly full, one
  short of a batch and full; indices go round several times; and with `WordMod = 2N` the
  unsigned difference wraps whenever `head` has gone round and `tail` has not. Two byte
  values tell a slot read too late from one read in time. The proofs remove these bounds.
- *Threads.* With four threads a block is freed and reused while others wait, the run queue
  runs dry and the package is started again, and the free list holds several blocks. The one
  step of its own lets a stale context differ from the current one. The ids end the model:
  `Idle` is where nothing is left to fork with. The proofs remove the bounds.
- *Bootloader.* Two bytes to a word are enough to be out of phase. The FIFO holds two words,
  less than a header, so it does overflow. Two faults allow a lost byte and then a reset, a
  corrupted header and a lost byte, an interrupted run and a lost byte. Two runs allow the
  bytes of one download to be taken for those of another. `MaxUp` bounds how many
  announcements are queued: more are discarded in the same way as the first. One byte of
  garbage changes the phase; a second one restores it.
- *Checker.* `MaxK = 10` exceeds the length of every A, its return included, as 10000 does
  for the tests of the repository; the loop that is cut short by that bound is a hazard
  without a property. Four instructions are enough for a routine with a lock that is too
  narrow, released twice or never, and for one whose lost update needs the switch between
  two particular instructions.
- *Radio.* With FIFOs and queues of two packets, a FIFO is full while its owner does not
  poll (two messages and a duplicate) and the receive queue overflows. Two losses with one
  retransmission are enough for a duplicate and for giving up on a message that has arrived.
  Two messages show a flag or a packet left over from the first.
- *Page tables*: two tables are enough to file an entry under the wrong ASID, one page to
  map and another to remap to a stale entry, two values a stale line. Nothing bounds the
  number of calls: the state space is finite, and the proofs allow any pages and values. The
  write buffer, the pending writes and the pending maintenance are as long as the routines
  make them.
- *FAT32*: `NEntries = 6` is four data clusters, enough for a chain of three and a fourth
  cluster that is shared, foreign or a cycle; `Hi = 32` keeps every special value. `MaxCount
  = 6` is longer than any chain, so that only a cycle reaches it; the walks themselves have
  no such bound. Two entries to a cluster put a name, or an end mark, in the second. With
  `Wrap = 3`, chains of one and two clusters fit in 32 bits, one of three wraps to nothing
  and one of four to a single cluster.
- *Logic analyzer*: five words are two edges and a half; six edges refill the queue after it
  has been read.

### Fairness

- *Ring*: the handler's steps while interrupts are on (the device keeps interrupting, and a
  handler that has started finishes) and the steps of the reading call. Calls themselves are
  not fair: nobody has to read.
- *Threads*: `WF(rpi_yield \/ rpi_exit)`: threads cooperate. `WF(rpi_thread_start)`: main
  runs what it has forked. Forks and computation need not happen.
- *Bootloader*: both machines keep running, the line carries what was sent, and a read on a
  line that stays silent times out (`SilenceTimeout`, enabled only if the pi will not send
  by itself). Faults, kills, reruns and the end of the program are not fair. The pi's 300 ms
  timeout is part of the pi's loop.
- *Checker*: the processor runs.
- *Radio*: each pi's code runs once it has been called, and each radio does what it was
  started to do. Calls are not fair, and losses are bounded.
- *FAT32*: a routine that was called runs; the next call need not come.
- *Page tables, logic analyzer*: no liveness is stated.

`CHECK_DEADLOCK` is off for three models that really do stop: the bootloader (the last run
of my-install has ended and the pi waits for bytes), the FAT32 reader (an assert, a panic or
a failing card has ended the program) and the logic analyzer (notmain has returned). The
other models say where they stop with a step of their own (`Halted`, `Idle`, `Finished`).

## What is proved

For every value of the constants that satisfies the modules' named assumptions:

| module | theorems |
|---|---|
| `CircularQueueProofs`, `RpiThreadsProofs` | every safety property of the two runs and both refinements |
| `LogicAnalyzerProofs` | every property of its run |
| `NrfRadioProofs` | every safety property of its run and the refinement of `RadioChannel` |
| `InterleaveCheckerProofs` | every safety property of its run |
| `Fat32ReaderProofs` | every safety property of its run, on every disk; `ReturnsContents` where the reserved entry 1 is no cluster number, `HaltsOnlyIfCorrupt` where no entry has upper bits |
| `BootLoaderProofs` | every safety property of its run: `BootsWholeProgram` where no checksum looks like a `PUT_PROG_INFO` (without that, all but the address), `DoneMeansLoaded` and `NoFaultNoFail` where no checksum looks like a word of the protocol |
| `PageTablesProofs` | every safety property of its run and the refinement of `AddressSpaces` |

**The ring.** Assumptions: `CQ_N` is at least 2 and divides the word size, which 8192 does;
there is a byte. `TypeCorrect` holds for every use of the ring. The others have the premise
`PeekIE \subseteq {FALSE}`: `cq_peek_n` is used with interrupts masked, and
`circular_queue_peek` shows that they are false without it. The arithmetic comes first:
`NelemExact` (the unsigned, doubly reduced difference is the distance around the ring),
`SpaceExact` (full, empty and the count agree), `PublishTakes` and `ReleaseGives` (one step
of an index changes the space by one). None of the properties is inductive: `SafeInv` adds
what each side knows at each of its places, and what the other side cannot take from it:
past its test the producer has space for one element, inside `cq_push_n` for all that are
left; past its test the consumer has an element, after its size test as many as it needs;
inside `cq_peek_n` the interrupts are masked, so the producer is idle, and the size seen at
first still counts the elements from the saved `tail`. The asserts and the "impossible"
panic follow. The refinement (`RingImplementsFifo`) uses `SafeInv` with lemmas on the
contents as a sequence: storing into the free slot leaves it alone, publishing appends,
releasing removes the head.

**Threads.** Assumption: there is an id. The invariant `IInv` conjoins the run's invariants
with `Bookkeeping` (fewer blocks than ids have been handed out; the first start still finds
an id for its own block; a thread runs only once `scheduler_thread` holds main) and
`IdsDistinct` (blocks that wait or run have different ids), without which `ContextsIntact`
is not preserved by a step of the running thread. One lemma per action, one step per
conjunct. `AllocFresh` says what the block `th_alloc` returns is in every state.
`ThreadsImplementRoundRobin` maps the run queue to its ids.

**Logic analyzer.** No property is inductive. `Fresh`: while the handler serves an edge the
event is still set, and no recorded time is later than its own. `InPairs`: the log, that is
what was read followed by what is queued, has an odd length exactly between the two pushes,
and what was read between the two pops. `Served`: as long as each edge is served before the
next one, the log has two words for each. `PairsWhole` and `Faithful` are what is left of
them once a push was refused or an edge came too early: nothing is claimed then.

**Radio.** `IInv` has three parts per node besides the types. `Sender`: for each place of
the driver, what the mode, the flags and the transmit FIFO of its radio are. `Link`: how far
the receiver's last packet is behind the sender's last message; with acknowledgement it is
at least the last one reported. `Arrived`: what the receiver holds is in order, between what
was read and what arrived, and complete if acknowledged. `Inbox` (queue, packet in the
driver's hands, FIFO) is kept or changed at one end by each step (`InboxKept`, `InboxRead`,
`InboxReceive`). The refinement then maps each step: sender's and receiver's steps
separately, most of them to a stutter.

**Interleaving checker.** `CheckerAssumption`: an instruction of A leads to another one or
to the end, and a B that gives up has changed nothing, which is what `interleave_t` asks of
it (`check-interleave.h`). `TerminationAssumption`: A alone ends within `MaxK` instructions,
and so does A after each switch; without it the loop's bound of 10000 would count. The
invariant follows the code's own argument. `Counted` relates `inst_count` to the number of
instructions of A executed, minding the instruction that faults twice after a failed B;
`Alone` says that before the switch A is where it gets alone and that B has failed from the
k-th instruction on; `AfterSwitch`, that after it A is where it gets from the first cut at
or after the k-th at which B succeeds; `Tried` and `Judged`, that all the earlier cuts were
tried and `errors` is their verdict. The reference definitions are recursive functions:
`RunExists` and `RunsAgree` are the induction that says they are defined and unique.

**FAT32.** Assumption (`DiskAssumption`): there is a name, a cluster number fits in the 28
bits, and more than one cluster in 2^32 bytes. Two functions walk the same chain and the
second relies on what the first has counted. `Counted` says that there is a path of `n` used
entries from the start to the current cluster, `Reading` that there is a path of exactly `n`
entries, the last of type LAST, of which `buf` is the part behind, and that `alloc` is `n`
modulo `Wrap`. The disk may be anything: that the walk counts at all is what makes it safe.
If the second walk meets the end of the buffer before the end of the path, then `n` is at
least `Wrap` (`WrapsDown`), and the path is a chain of the table (`WrappedIsChain`): hence
`BufferSuffices`, and `SmallDisksFit` for disks of fewer than 2^32 bytes. `ReadsRight` needs
two things more. What is in the buffer is the chain of the table (`WholeIsChain`), and it
fits in `Paths` because no cluster is in it twice (`ChainFits`: a repetition would go on to
the last entry, and the last is of another type). And what `get_dirents` and the two
searches make of the clusters, put one behind the other and cut at the first end mark, is
what the format says that the directory lists (`DirentsListed`, `FindFinds`, `LiveEntries`,
by induction over the clusters and the entries). `HaltsOnCorrupt` has the invariant that
each walk is on the chain of the table, if there is one (`OnChain`), and the hypothesis that
no entry has its upper bits set: the run `fat32_upper` shows that it fails without.

**Bootloader.** `BootInv`: from the check to the end of the download the header is the one
that passed it (`PiInv`), and every byte on the line comes from a word that one of the
programs sends (`LineInv`), which is why a number read from any of them fits in a word. That
`addr + i` is outside the boot code is then arithmetic (`ByteOutside`), and fails exactly
where `addr + nbytes` wraps.

`RunsWholeProgram`: whatever happens on the line, what the pi branches to is one of the
programs, whole. This rests on the checksum alone, and on `CrcAssumption`: a checksum is a
word that no two contents share. `RunsWhereAsked` adds the address, which the checksum does
not cover, as long as no byte was corrupted or lost at a full FIFO. Its invariant
(`LoadInv`) is on the bytes in flight: what looks like the start of a header is one, and
whole (`Headers`), and while the pi reads a header, the rest of it comes first (`Asked`).
Reboots drop bytes from the front, and the laptop adds whole headers and code at the end, so
both are kept. Both exceptions are necessary. A corrupted address is acted upon; and if an
overrun takes exactly the last two words of one header and the first two of the next, the pi
puts one program at the other's address (TLC finds it with words of one byte and four lost
words, more faults than the run has). The hypothesis, that no checksum has the value of
`PUT_PROG_INFO`, rules out that a pi that is reset in the middle of a header takes its
checksum for the start of one.

`DoneIsLoaded` goes the other way: what my-install may conclude. `UpInv` is the order of
what the pi says, however much of it was dropped: announcements; then GET_CODE with the
checksum it has; then BOOT_SUCCESS, which it says only once the program is in memory.
`TrustInv` carries this over to what is left to read: an answer with the checksum of the
laptop's program is behind the request for it (`Heard`), and a BOOT_SUCCESS behind a loaded
program (`Answers`). Two hypotheses. `Distinct`: no checksum looks like a word of the
protocol, as `put-code.c` asks of data. And the tty was empty when the run began
(`~stale`): it is false otherwise, see the remarks below.

`CleanRunSucceeds`: in a first run without a fault of a program that does not collide with
the boot code, my-install never fails. `CalmInv` gives the contents of both directions in
each of the five phases of the exchange: `Syncing` (garbage, then announcements),
`Draining` (announcements that were under way; the header, or what is left of it), `Summing`
(the checksum), `Loading` (code on the line, the part before it in memory), `Finishing`.
That a read never times out follows from them, because in no phase is the line silent while
the laptop waits (`CalmTimeout`); that the pi does not refuse the header is the arithmetic
of the overlap test (`FitsPasses`).

**Page tables.** Assumption (`PageTableAssumption`): cached sections are sections, and
neither "no value" nor what power-up leaves is a value. There may be any number of sections
and values; the two tables are the model's. The difficulty is that nothing an instruction
starts is done before a barrier, so that what must be true at an instruction is a matter of
those before it. The invariant therefore speaks of the routine that is left to execute:
`Found(c, i, B, N)`, before the `i`-th instruction of `c` one of `B` is executed and none of
`N` after it. Each call is checked once, as a whole sequence (`BootProfile`,
`SwitchProfile`, ...: where its instructions of each kind are), and a step of the processor
only moves what was checked one place nearer (`ShiftFound`). On this rest four layers, each
on those before it:

- `Waits`: before an instruction that needs it, a write to cp15 is followed by a prefetch
  flush, and a store and a TLB operation by a DSB; at most one cp15 write is ever pending.
- `RegRules`, `RegState`: a table is written to TTBR0 only when it maps the kernel and every
  store to it has been drained; the MMU is turned on only with such a table, with the domain
  a client, and after an INV_TLB that is complete. `KernelAlwaysMapped` follows.
- `UserRules`, `UserState`: the ASID is 0 whenever it and the table differ, and a table in
  use has no store under way for which the TLB will not be invalidated. Hence a walk never
  tags an entry of one table with the ASID of another, and `TlbAlwaysCoherent`.
- `CacheRules`, `CacheState`: with the MMU on, or a cleaning under way, the cache holds
  nothing from power-up; with the MMU off, or an invalidation under way, nothing that the
  program stored. `TypeCorrect` needs this: without it, junk would reach memory.

By the last layer a section holds the same value for the program whatever lines leave the
cache (`MemoryPhys`), so the hardware's steps are stutters (`HardwareSpaces`); a call is the
one step in which what is asked of tables and registers changes (`CallSpaces`), and an
access, made when no routine is under way, reaches what the table maps (`ReachedIs`).

**Only model-checked.**

- Liveness: `CallsReturn`, `NoStarvation`, `InstallEnds`, `CheckReturns`, `SendsEnd`,
  `Returns`.

## Findings

1. `circular_queue_peek`. `cq_peek_n` pops and then writes the old `tail` back. A handler
   that pushes meanwhile makes the assertion about the number of elements fail, although the
   header promises a lock-free queue with a single mutator of each index. With interrupts
   masked around it, it is right, and proved so.
2. `boot_hijack`. The checksum is data but is read with `get_op`, which the comments in the
   same file forbid, because data can have the value of `PRINT_STRING`.
3. `boot_wrap`. `addr + nbytes` is computed in 32 bits. A header corrupted on the line,
   which the checksum does not cover, passes the overlap test when the sum wraps, and the
   download is stored over the running boot code. `BootCodeKept` proves that this is the
   only way.
4. `fat32_upper`. The upper four bits of a table entry are removed before its type is
   determined, as a comment demands, but not before it is used as the next index. A sound
   chain whose upper bits are set ends in a failed assert.

Four further remarks, of which no run is kept. The size of a chain is computed in 32 bits
(`fat32.c:185` and `315`), while `read_cluster_chain` goes by the chain and is to "assume
the provided buffer is large enough for the whole chain" (`fat32.c:135`). The largest file
that FAT32 allows, one byte less than 4 GB, has 131072 clusters of 32 KB, whose size wraps
to 0: nothing is allocated and the copy starts. On a pi with 512 MB the copy does not get
far either way; `BufferSuffices` says that a chain of 2^32 bytes or more is the only way to
get there. A my-install that starts on a tty with unread bytes can be deceived: runs that
were interrupted, and a pi that was reset, leave an announcement, a GET_CODE with this
checksum and a BOOT_SUCCESS there, and the next run of the same program reads them as
answers and says the boot is done. It takes three runs and three faults, or four runs and
two, which is beyond the bounds of `boot`; the tty's mode is set with `TCSANOW`
(`set-tty-8n1.c:61`), which discards nothing. The loop of `boot_check` (`put-code.c:178`),
which is to echo "and then die", ends only when the pi is silent for 5 s, and a pi that
waits for a header announces itself every 300 ms: this is why `InstallEnds` counts the echo
as an end. And `interleaving_p`, `nswitches`, `ntrials` and `nerrors` of
`check-interleave.h` are read by tests and never written by `check()`.

## What is not modelled

- *Circular queue*: `cq_ckpt`, `cq_restore`, the fence and the overflow counter. It is
  modelled at the order the C source fixes with its barriers: what a compiler could do
  without them is not.
- *Threads*: stack overflow (a saved stack pointer has no address in the model), and
  `rpi_yield` or `rpi_exit` called by main before a start.
- *Bootloader*: colliding CRCs; corrupted bytes on the way to the laptop; the time a message
  takes, beyond timeouts being possible.
- *Checker*: `SYS_TRYLOCK` and `SYS_TEST` are instructions of the code under test. One
  switch, as in the code.
- *Radio*: `nrf_init` (its result is `Init`), restarts of one side, more than two nodes,
  reads of another size than a packet, and the statistics that nothing reads.
- *Page tables*: pinned TLB entries (lab 13), the instruction cache and the branch
  predictor, permissions, domains other than client, ASIDs stored in attributes, a table
  used under an ASID that had belonged to another.
- *FAT32*: the checks of the boot sector and of the volume, long names, conversion of names,
  the sectors that a cluster occupies, the SD card beyond its failing. The functions that
  would write are unimplemented in the repository.
- *Logic analyzer*: the software UART that produces the edges is any line; the other
  handlers of the lab only count.
- *GPIO driver, UART, mailbox, debug registers, preemption*: single reads and writes of
  device registers, or assembly that saves registers, below the grain of these models.
- *Laptop I/O, printing, strings, measurement and exercises*: no ordering to get wrong. Most
  of the repository's lines are these, drivers supplied in source by others (the SD card, a
  fake pi) and tests.

## Plan

Done, in this order: the ring and the threads (each with its abstract specification and
proofs), the bootloader, the checker, the radio with its abstract specification; then the
logic analyzer, the FAT32 reader, the page tables with their abstract specification, and the
proofs about the logic analyzer, the radio, the FAT32 reader, the checker, the bootloader
and the page tables. Left:

1. More than two tables, and pinned TLB entries, which `mmu_enable` must keep.
2. A checker that reaches its bound (`MaxK` below the length of A), and locks taken through
   `SYS_TRYLOCK`; a radio side that restarts.
