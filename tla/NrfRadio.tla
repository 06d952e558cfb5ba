------------------------------ MODULE NrfRadio ------------------------------
(***************************************************************************)
(* labs/14-nrf-networking/code: two pis that exchange packets of one size  *)
(* through nrf-driver.c and nrf-public.c.  Each driver polls its radio     *)
(* over SPI while the radio sends, receives and acknowledges by itself.    *)
(*                                                                         *)
(* The radios are external, and modelled by what the driver and nrf.h      *)
(* count on: a receive FIFO that drops what does not fit, no reception     *)
(* outside RX mode, and, with acknowledgements, a bounded number of        *)
(* retransmissions, by which a packet may be received twice.               *)
(*                                                                         *)
(* A packet is the number of the message of its sender that it carries.    *)
(***************************************************************************)
EXTENDS Integers, Sequences

CONSTANTS
    AckModes,     \* what acked_p may be in nrf_init: a subset of BOOLEAN
    RxDepth,      \* packets of the radio's receive FIFO (3)
    QueueDepth,   \* packets that fit in recvq
    Retries,      \* nrf_default_retran_attempts (6)
    MaxSent,      \* bound: messages that each pi sends
    MaxLost       \* bound: packets and acknowledgements lost to interference

ASSUME RadioAssumption ==
    /\ AckModes \subseteq BOOLEAN
    /\ RxDepth \in Nat \ {0} /\ QueueDepth \in Nat /\ Retries \in Nat
    /\ MaxSent \in Nat /\ MaxLost \in Nat

VARIABLES
    acked,                  \* acked_p, the same on both sides (nrf_compat)
    pc, call,               \* where each driver is, the routine it was called with
    held, recvq,            \* buf of nrf_get_pkts (0: empty), the receive queue
    got, tot_sent_msgs,     \* the last message read, sends that returned success
    mode, txfifo, rxfifo,   \* the radio: "rx" or "tx", its FIFOs (txfifo 0: empty)
    tx_ds, max_rt, retry,   \* its two interrupt flags, retransmissions so far
    pid,                    \* the last packet it received: a repeated one is recognised
    offered, lost           \* history: messages given to the radio, losses

driver == <<pc, call, held, recvq, got, tot_sent_msgs>>
radio == <<mode, txfifo, rxfifo, tx_ds, max_rt, retry, pid>>
vars == <<acked, driver, radio, offered, lost>>

Node == {1, 2}
Peer(n) == 3 - n
Panics == {"queue_full", "retry_limit", "no_traffic", "assert_failed"}
Reads == {"avail", "noblk", "timeout", "exact"}
Sending == {"start", "wait", "flush"}

Goto(n, place) == pc' = [pc EXCEPT ![n] = place]
Set(f, n, v) == [f EXCEPT ![n] = v]

----------------------------------------------------------------------------
(* The driver of node n                                                    *)

\* What nrf_tx_send_* and nrf_get_pkts assert of the radio on entry.
Listening(n) == mode[n] = "rx"
ReadyToSend(n) == Listening(n) /\ txfifo[n] = 0

\* nrf_tx_send_ack or nrf_tx_send_noack, or one of the routines of nrf-public.c that
\* read; they all start with while(nrf_get_pkts(n)).
Call(n) ==
    /\ pc[n] = "idle"
    /\ \E c \in Reads \cup {"send"} :
          /\ c = "send" => offered[n] < MaxSent
          /\ call' = Set(call, n, c)
          /\ Goto(n, IF Listening(n) /\ (c = "send" => ReadyToSend(n))
                     THEN "poll" ELSE "assert_failed")
    /\ UNCHANGED <<acked, held, recvq, got, tot_sent_msgs, radio, offered, lost>>

\* nrf_get_pkts, while the receive FIFO is not empty: nrf_getn.
GetPacket(n) ==
    /\ pc[n] = "poll" /\ rxfifo[n] # <<>>
    /\ held' = Set(held, n, Head(rxfifo[n]))
    /\ rxfifo' = Set(rxfifo, n, Tail(rxfifo[n]))
    /\ Goto(n, "push")
    /\ UNCHANGED <<acked, call, recvq, got, tot_sent_msgs, mode, txfifo, tx_ds, max_rt,
                   retry, pid, offered, lost>>

PushUnchecked(n) ==     \* mutant: the result of cq_push_n is ignored
    /\ pc[n] = "push"
    /\ recvq' = IF Len(recvq[n]) < QueueDepth
                THEN Set(recvq, n, Append(recvq[n], held[n])) ELSE recvq
    /\ held' = Set(held, n, 0)
    /\ Goto(n, "poll")
    /\ UNCHANGED <<acked, call, got, tot_sent_msgs, radio, offered, lost>>

PushOverfull(n) ==     \* mutant: off by one in the test for space
    /\ pc[n] = "push"
    /\ IF Len(recvq[n]) <= QueueDepth
       THEN /\ recvq' = Set(recvq, n, Append(recvq[n], held[n]))
            /\ held' = Set(held, n, 0)
            /\ Goto(n, "poll")
       ELSE Goto(n, "queue_full") /\ UNCHANGED <<recvq, held>>
    /\ UNCHANGED <<acked, call, got, tot_sent_msgs, radio, offered, lost>>

\* nrf_get_pkts: cq_push_n, or a panic.
PushPacket(n) ==
    /\ pc[n] = "push"
    /\ IF Len(recvq[n]) < QueueDepth
       THEN /\ recvq' = Set(recvq, n, Append(recvq[n], held[n]))
            /\ held' = Set(held, n, 0)
            /\ Goto(n, "poll")
       ELSE Goto(n, "queue_full") /\ UNCHANGED <<recvq, held>>
    /\ UNCHANGED <<acked, call, got, tot_sent_msgs, radio, offered, lost>>

\* nrf_get_pkts returned 0: a read looks at the queue.  nrf_read_exact_timeout tries
\* again until its time is up, and nrf_read_exact panics then.
Read(n) ==
    /\ pc[n] = "poll" /\ rxfifo[n] = <<>> /\ call[n] \in Reads
    /\ IF recvq[n] # <<>> /\ call[n] # "avail"
       THEN /\ got' = Set(got, n, Head(recvq[n]))
            /\ recvq' = Set(recvq, n, Tail(recvq[n]))
            /\ Goto(n, "idle")
       ELSE /\ \/ Goto(n, IF call[n] = "exact" THEN "no_traffic" ELSE "idle")
               \/ call[n] \in {"timeout", "exact"} /\ UNCHANGED pc
            /\ UNCHANGED <<got, recvq>>
    /\ UNCHANGED <<acked, call, held, tot_sent_msgs, radio, offered, lost>>

\* The message goes into the transmit FIFO.
Load(n) ==
    /\ pc[n] = "poll" /\ rxfifo[n] = <<>> /\ call[n] = "send"
    /\ offered' = Set(offered, n, offered[n] + 1)
    /\ txfifo' = Set(txfifo, n, offered'[n])
    /\ retry' = Set(retry, n, 0)
    /\ Goto(n, "start")
    /\ UNCHANGED <<acked, call, held, recvq, got, tot_sent_msgs, mode, rxfifo, tx_ds,
                   max_rt, pid, lost>>

\* CE low, tx_config, CE high.
Start(n) ==
    /\ pc[n] = "start"
    /\ mode' = Set(mode, n, "tx")
    /\ Goto(n, "wait")
    /\ UNCHANGED <<acked, call, held, recvq, got, tot_sent_msgs, txfifo, rxfifo, tx_ds,
                   max_rt, retry, pid, offered, lost>>

SentKeepsFlag(n) ==     \* mutant: the interrupt flag is not cleared
    /\ pc[n] = "wait" /\ tx_ds[n] /\ ~max_rt[n]
    /\ tot_sent_msgs' = Set(tot_sent_msgs, n, tot_sent_msgs[n] + 1)
    /\ mode' = Set(mode, n, "rx")
    /\ Goto(n, "idle")
    /\ UNCHANGED <<acked, call, held, recvq, got, txfifo, rxfifo, tx_ds, max_rt, retry,
                   pid, offered, lost>>

SentStaysInTx(n) ==     \* mutant: the radio is not put back in RX mode
    /\ pc[n] = "wait" /\ tx_ds[n] /\ ~max_rt[n]
    /\ tx_ds' = Set(tx_ds, n, FALSE)
    /\ tot_sent_msgs' = Set(tot_sent_msgs, n, tot_sent_msgs[n] + 1)
    /\ Goto(n, "idle")
    /\ UNCHANGED <<acked, call, held, recvq, got, mode, txfifo, rxfifo, max_rt, retry,
                   pid, offered, lost>>

\* The wait ends with TX_DS: clear it and go back to RX mode.
Sent(n) ==
    /\ pc[n] = "wait" /\ tx_ds[n] /\ ~max_rt[n]
    /\ tx_ds' = Set(tx_ds, n, FALSE)
    /\ tot_sent_msgs' = Set(tot_sent_msgs, n, tot_sent_msgs[n] + 1)
    /\ mode' = Set(mode, n, "rx")
    /\ Goto(n, "idle")
    /\ UNCHANGED <<acked, call, held, recvq, got, txfifo, rxfifo, max_rt, retry, pid,
                   offered, lost>>

NoGivingUp(n) == FALSE     \* mutant: the wait of nrf_tx_send_noack, in both modes

\* nrf_tx_send_ack's wait ends with MAX_RT, which is cleared: the radio, still in TX mode
\* and with its packet, starts anew.
GiveUp(n) ==
    /\ pc[n] = "wait" /\ acked /\ max_rt[n]
    /\ max_rt' = Set(max_rt, n, FALSE)
    /\ retry' = Set(retry, n, 0)
    /\ Goto(n, "flush")
    /\ UNCHANGED <<acked, call, held, recvq, got, tot_sent_msgs, mode, txfifo, rxfifo, tx_ds,
                   pid, offered, lost>>

\* It is flushed, put back in RX mode, and the driver panics.
Flush(n) ==
    /\ pc[n] = "flush"
    /\ txfifo' = Set(txfifo, n, 0)
    /\ mode' = Set(mode, n, "rx")
    /\ Goto(n, "retry_limit")
    /\ UNCHANGED <<acked, call, held, recvq, got, tot_sent_msgs, rxfifo, tx_ds, max_rt, retry,
                   pid, offered, lost>>

DriverStep(n) == \/ GetPacket(n) \/ PushPacket(n) \/ Read(n) \/ Load(n)
                 \/ Start(n) \/ Sent(n) \/ GiveUp(n) \/ Flush(n)

----------------------------------------------------------------------------
(* The radios (external)                                                   *)

Transmitting(n) == mode[n] = "tx" /\ txfifo[n] # 0 /\ ~max_rt[n]
Hears(p) == mode[p] = "rx" /\ Len(rxfifo[p]) < RxDepth
Lose == lost < MaxLost /\ lost' = lost + 1

\* Packet k at the radio p: stored, unless it is recognised as a repeated one.
Receive(p, k) ==
    /\ pid' = Set(pid, p, k)
    /\ \/ rxfifo' = Set(rxfifo, p, Append(rxfifo[p], k))
       \/ acked /\ pid[p] = k /\ UNCHANGED rxfifo

\* The transmission is over.
Done(n) ==
    /\ tx_ds' = Set(tx_ds, n, TRUE)
    /\ txfifo' = Set(txfifo, n, 0)
    /\ UNCHANGED <<max_rt, retry>>

\* No acknowledgement: once more, or MAX_RT.
NoAck(n) ==
    /\ IF retry[n] < Retries
       THEN retry' = Set(retry, n, retry[n] + 1) /\ UNCHANGED max_rt
       ELSE max_rt' = Set(max_rt, n, TRUE) /\ UNCHANGED retry
    /\ UNCHANGED <<tx_ds, txfifo>>

Delivered(n) ==
    /\ Transmitting(n) /\ Hears(Peer(n))
    /\ Receive(Peer(n), txfifo[n])
    /\ Done(n)
    /\ UNCHANGED <<acked, driver, mode, offered, lost>>

AckLost(n) ==
    /\ acked /\ Transmitting(n) /\ Hears(Peer(n)) /\ Lose
    /\ Receive(Peer(n), txfifo[n])
    /\ NoAck(n)
    /\ UNCHANGED <<acked, driver, mode, offered>>

\* The packet is lost, or the other radio is sending itself or has no room.
Unheard(n) ==
    /\ Transmitting(n)
    /\ IF Hears(Peer(n)) THEN Lose ELSE UNCHANGED lost
    /\ IF acked THEN NoAck(n) ELSE Done(n)
    /\ UNCHANGED <<acked, driver, mode, rxfifo, pid, offered>>

RadioStep(n) == Delivered(n) \/ AckLost(n) \/ Unheard(n)

Init ==
    /\ acked \in AckModes
    /\ pc = [n \in Node |-> "idle"] /\ call = [n \in Node |-> "avail"]
    /\ held = [n \in Node |-> 0] /\ recvq = [n \in Node |-> <<>>]
    /\ got = [n \in Node |-> 0] /\ tot_sent_msgs = [n \in Node |-> 0]
    /\ mode = [n \in Node |-> "rx"]
    /\ txfifo = [n \in Node |-> 0] /\ rxfifo = [n \in Node |-> <<>>]
    /\ tx_ds = [n \in Node |-> FALSE] /\ max_rt = [n \in Node |-> FALSE]
    /\ retry = [n \in Node |-> 0] /\ pid = [n \in Node |-> 0]
    /\ offered = [n \in Node |-> 0] /\ lost = 0

\* Both pis have panicked.
Halted == (\A n \in Node : pc[n] \in Panics) /\ UNCHANGED vars

Next == (\E n \in Node : Call(n) \/ DriverStep(n) \/ RadioStep(n)) \/ Halted

Spec == Init /\ [][Next]_vars

\* The code of each pi runs, and its radio works.
FairSpec ==
    /\ Spec
    /\ \A n \in Node : WF_vars(DriverStep(n)) /\ WF_vars(RadioStep(n))

----------------------------------------------------------------------------
(* Properties                                                              *)

\* Every variable has its type.
TypeOK ==
    /\ acked \in AckModes
    /\ pc \in [Node -> {"idle", "poll", "push", "start", "wait", "flush"} \cup Panics]
    /\ call \in [Node -> Reads \cup {"send"}]
    /\ held \in [Node -> 0..MaxSent] /\ got \in [Node -> 0..MaxSent]
    /\ tot_sent_msgs \in [Node -> 0..MaxSent] /\ offered \in [Node -> 0..MaxSent]
    /\ pid \in [Node -> 0..MaxSent] /\ txfifo \in [Node -> 0..MaxSent]
    /\ recvq \in [Node -> Seq(1..MaxSent)] /\ rxfifo \in [Node -> Seq(1..MaxSent)]
    /\ \A n \in Node : Len(recvq[n]) <= QueueDepth /\ Len(rxfifo[n]) <= RxDepth
    /\ mode \in [Node -> {"rx", "tx"}]
    /\ tx_ds \in [Node -> BOOLEAN] /\ max_rt \in [Node -> BOOLEAN]
    /\ retry \in [Node -> 0..Retries] /\ lost \in 0..MaxLost

\* "We are always in RX except for the small amount of time we need to switch to TX":
\* no nrf_opt_assert fails, however calls, losses and arrivals follow one another, and
\* between sends the radio has no message and no flag left that the next would meet (a pi
\* that gave up has no next).
AlwaysListening ==
    \A n \in Node :
        /\ pc[n] # "assert_failed"
        /\ pc[n] \notin {"wait", "flush"} => mode[n] = "rx"
        /\ pc[n] \notin {"wait", "flush", "retry_limit"} => ~tx_ds[n] /\ ~max_rt[n]
        /\ pc[n] \notin Sending => txfifo[n] = 0

\* Messages that have reached node n and that it has not read yet.
Inbox(n) == recvq[n] \o (IF held[n] = 0 THEN <<>> ELSE <<held[n]>>) \o rxfifo[n]

\* A send that returned success in acknowledged mode was received: its message is read,
\* queued, in the driver's hands or in the radio's FIFO; a full queue stops the pi
\* before it can lose one.
AckedIsKept ==
    acked => \A n \in Node : \A k \in 1..tot_sent_msgs[n] :
        k <= got[Peer(n)] \/ \E i \in 1..Len(Inbox(Peer(n))) : Inbox(Peer(n))[i] = k

OneToTwo == INSTANCE RadioChannel
    WITH offered <- offered[1], sending <- pc[1] \in Sending,
         reached <- offered[1] > 0 /\ pid[2] = offered[1],
         inbox <- Inbox(2), got <- got[2], done <- tot_sent_msgs[1]

\* In each direction (the two are symmetric) the drivers are a channel that keeps the
\* order, loses messages only as it may, and repeats one only while it is being
\* retransmitted.
ImplementsChannel == OneToTwo!Spec

\* A transmission that was started ends, with success or with the panic: the driver never
\* waits for a flag that the radio does not set.
SendsEnd == \A n \in Node : pc[n] = "wait" ~> pc[n] \in {"idle"} \cup Panics
=============================================================================
