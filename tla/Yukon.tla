------------------------------- MODULE Yukon -------------------------------
(***************************************************************************)
(* Drivers/Net/MarvellYukonDxe: Snp.c on top of if_msk.c, one port.  The   *)
(* driver and the controller share three rings: transmit descriptors,      *)
(* receive descriptors and status events.  The protocol's calls and the    *)
(* timer of one second run at TPL_CALLBACK, one at a time, and the         *)
(* controller goes on between any two steps of msk_handle_events.          *)
(*                                                                         *)
(* Packets are numbered, the sent ones in the order of Transmit and the    *)
(* received ones in the order of arrival.  A receive buffer takes two      *)
(* list elements (MSK_64BIT_DMA), which are one position here.             *)
(***************************************************************************)
EXTENDS Integers, Sequences, FiniteSets

CONSTANTS
  MSK_TX_RING_CNT,
  MSK_RESERVED_TX_DESC_CNT,
  MSK_RX_BUF_CNT,
  MSK_STAT_RING_CNT,
  MSK_PUT_WM,
  msk_process_limit,
  HighPackets,   \* transmit packets whose buffer lies above 4 GB
  Packet,        \* packet numbers
  Bounds         \* bounds: packets sent (tx), packets that arrive (rx), failing
                 \* allocations and mappings (faults), Initialize (lives)

ConstantsOK ==
  /\ {MSK_RX_BUF_CNT, MSK_PUT_WM} \subseteq Nat \ {0}
  /\ MSK_STAT_RING_CNT \in Nat \ {0, 1}
  /\ msk_process_limit \in Nat
  /\ MSK_TX_RING_CNT \in Nat
  /\ MSK_RESERVED_TX_DESC_CNT \in 2 .. MSK_TX_RING_CNT - 1
  /\ Packet \subseteq Nat \ {0} /\ HighPackets \subseteq Packet
  /\ Bounds \subseteq [tx : Nat, rx : Nat, faults : Nat, lives : Nat]
  /\ \A m \in Bounds : 1 .. m.tx \subseteq Packet /\ 1 .. m.rx \subseteq Packet

VARIABLES
  drv,    \* struct msk_if_softc and the SNP mode
  nic,    \* the controller
  call,   \* the call or timer tick in progress
  hist    \* history: what was sent, received and lost, and why

vars == <<drv, nic, call, hist>>

Hi(p) == IF p \in HighPackets THEN 1 ELSE 0
TxInc(i) == (i + 1) % MSK_TX_RING_CNT
RxInc(i) == (i + 1) % MSK_RX_BUF_CNT
StatInc(i) == (i + 1) % MSK_STAT_RING_CNT
TxIdx == 0 .. MSK_TX_RING_CNT - 1
RxIdx == 0 .. MSK_RX_BUF_CNT - 1
TxSpan(from, to) == (to - from) % MSK_TX_RING_CNT
In(x, s) == x \in {s[i] : i \in DOMAIN s}

NoBuf == -1    \* a receive position without a buffer
Empty == 0     \* a buffer the controller has not filled
NoLe == [op |-> "none", val |-> 0]
NoEvent == [own |-> FALSE, op |-> "none", arg |-> 0, life |-> 0]
NoCall == [op |-> "none", pc |-> "idle", cons |-> 0, puts |-> 0, prog |-> 0,
           more |-> FALSE]

Init ==
  /\ drv = [mode |-> "Stopped",
            TransmitQueue |-> <<>>, TransmitFreeQueue |-> <<>>,
            ReceiveQueue |-> <<>>,
            tx_ring |-> [i \in TxIdx |-> NoLe], tx_m |-> [i \in TxIdx |-> 0],
            tx_prod |-> 0, tx_cons |-> 0, tx_cnt |-> 0, tx_high |-> 0,
            rx_m |-> [i \in RxIdx |-> NoBuf], rx_cons |-> 0, rx_prod |-> 0,
            stat_cons |-> 0]
  /\ nic = [on |-> FALSE, tx_put |-> 0, tx_get |-> 0, tx_told |-> 0,
            tx_high |-> 0, rx_put |-> 0, rx_get |-> 0,
            stat |-> [i \in 0 .. MSK_STAT_RING_CNT - 1 |-> NoEvent],
            stat_put |-> 0, irq |-> FALSE]
  /\ call = NoCall
  /\ \E max \in Bounds :
       hist = [max |-> max, tx |-> 0, rx |-> 0, good |-> {}, sent |-> <<>>,
               got |-> <<>>, lost |-> {}, life |-> 0, faults |-> 0,
               stale |-> FALSE,   \* an event outlived its interface
               wild |-> FALSE]    \* the controller read what it must not

Idle == call.pc = "idle"
Fault == hist.faults < hist.max.faults
Faulted(h) == [h EXCEPT !.faults = @ + 1]

(* ------------------------- start and stop ----------------------------- *)

\* msk_txrx_dma_alloc: new rings without a mapping.
msk_txrx_dma_alloc(d) ==
  [d EXCEPT !.tx_m = [i \in TxIdx |-> 0], !.rx_m = [i \in RxIdx |-> NoBuf]]

\* mskc_attach_if initializes the queues: what they held is forgotten.
mskc_attach_if(d) ==
  [msk_txrx_dma_alloc(d) EXCEPT !.TransmitQueue = <<>>,
     !.TransmitFreeQueue = <<>>, !.ReceiveQueue = <<>>]

SnpStart ==
  /\ Idle /\ drv.mode = "Stopped"
  /\ drv' = [mskc_attach_if(drv) EXCEPT !.mode = "Started"]
  /\ hist' = [hist EXCEPT !.lost = @ \cup
                {drv.ReceiveQueue[i] : i \in DOMAIN drv.ReceiveQueue}]
  /\ UNCHANGED <<nic, call>>

\* mskc_stop_if stops the controller and unmaps the buffers of both rings.
\* It leaves the queues and the status ring as they are, events included.
mskc_stop_if(d) ==
  [d EXCEPT !.tx_m = [i \in TxIdx |-> 0], !.rx_m = [i \in RxIdx |-> NoBuf]]

\* msk_txrx_dma_free: the rings go, with what they still map.
msk_txrx_dma_free(d) == mskc_stop_if(d)

StopNic == [nic EXCEPT !.on = FALSE]
Ended ==
  [hist EXCEPT
     !.lost = @ \cup ({drv.rx_m[i] : i \in RxIdx} \ {NoBuf, Empty})]

\* msk_init_tx_ring: an empty ring.
msk_init_tx_ring(d) ==
  [d EXCEPT !.tx_prod = 0, !.tx_cons = 0, !.tx_cnt = 0, !.tx_high = 0,
            !.tx_ring = [i \in TxIdx |-> NoLe],
            !.tx_m = [i \in TxIdx |-> 0]]

\* msk_init_rx_ring: every position has a buffer, the last is held back.
msk_init_rx_ring(d) ==
  [d EXCEPT !.rx_cons = 0, !.rx_prod = MSK_RX_BUF_CNT - 1,
            !.rx_m = [i \in RxIdx |-> Empty]]

\* msk_init: the controller starts with empty rings.
StartNic ==
  [nic EXCEPT !.on = TRUE, !.tx_put = 0, !.tx_get = 0, !.tx_told = 0,
     !.tx_high = 0, !.rx_get = 0, !.rx_put = MSK_RX_BUF_CNT - 1]

\* SnpInitialize, msk_init: stop, then fresh rings; fails without memory.
SnpInitialize ==
  /\ Idle /\ drv.mode = "Started" /\ hist.life < hist.max.lives
  /\ \/ /\ drv' = [msk_init_rx_ring(msk_init_tx_ring(mskc_stop_if(drv)))
                     EXCEPT !.mode = "Initialized"]
        /\ nic' = StartNic
        /\ hist' = [Ended EXCEPT !.life = @ + 1]
     \/ /\ Fault
        /\ drv' = mskc_stop_if(msk_init_tx_ring(mskc_stop_if(drv)))
        /\ nic' = StopNic
        /\ hist' = Faulted([Ended EXCEPT !.life = @ + 1])
  /\ UNCHANGED call

SnpShutdown ==
  /\ Idle /\ drv.mode = "Initialized"
  /\ drv' = [mskc_stop_if(drv) EXCEPT !.mode = "Started"]
  /\ nic' = StopNic
  /\ hist' = Ended
  /\ UNCHANGED call

\* SnpStop, mskc_detach_if: the rings are freed, too.
SnpStop ==
  /\ Idle /\ drv.mode = "Started"
  /\ drv' = [msk_txrx_dma_free(mskc_stop_if(drv)) EXCEPT !.mode = "Stopped"]
  /\ nic' = StopNic
  /\ hist' = Ended
  /\ UNCHANGED call

(* ------------------------------ transmit ------------------------------- *)

\* msk_encap: one list element for the packet, before it one for the high
\* half of its address when that changes.  The mapping is kept with the
\* last of them.
Encapsulated(d, p) ==
  LET more == Hi(p) # d.tx_high
      si == IF more THEN TxInc(d.tx_prod) ELSE d.tx_prod
      ring == IF more
                THEN [d.tx_ring EXCEPT ![d.tx_prod] =
                        [op |-> "addr64", val |-> Hi(p)]]
                ELSE d.tx_ring
  IN [d EXCEPT !.tx_ring = [ring EXCEPT ![si] = [op |-> "packet", val |-> p]],
               !.tx_m[si] = p,
               !.tx_high = Hi(p),
               !.tx_cnt = @ + (IF more THEN 2 ELSE 1),
               !.tx_prod = TxInc(si),
               !.TransmitQueue = Tail(@),
               !.TransmitFreeQueue = Append(@, p)]

\* Slip: the element for the high half is not counted.
msk_encapOneElement(d, p) ==
  [Encapsulated(d, p) EXCEPT !.tx_cnt = d.tx_cnt + 1]

\* Slip: the buffer goes to the head of the free queue.
msk_encapHead(d, p) ==
  [Encapsulated(d, p) EXCEPT !.TransmitFreeQueue = <<p>> \o d.TransmitFreeQueue]

msk_encap(d, p) == Encapsulated(d, p)

TxRoom(d) == d.tx_cnt < MSK_TX_RING_CNT - MSK_RESERVED_TX_DESC_CNT

\* msk_start moves packets into the ring while there is room and the first
\* n mappings succeed.  What does not fit waits for the next Transmit.
msk_start(d, n) ==
  LET after[k \in 0 .. n] ==
        IF k = 0 THEN d
        ELSE LET e == after[k - 1]
             IN IF TxRoom(e) THEN msk_encap(e, Head(e.TransmitQueue)) ELSE e
  IN after[n]

\* mskc_transmit queues the packet.
mskc_transmit(d, p) == [d EXCEPT !.TransmitQueue = Append(@, p)]

\* SnpTransmit: queue the packet, then msk_start.
SnpTransmit ==
  /\ Idle /\ drv.mode = "Initialized" /\ hist.tx < hist.max.tx
  /\ LET p == hist.tx + 1
         d == mskc_transmit(drv, p)
         h == [hist EXCEPT !.tx = p]
         all == Len(d.TransmitQueue)
     IN \E n \in 0 .. all :
          /\ n < all => Fault
          /\ drv' = msk_start(d, n)
          /\ hist' = IF n < all THEN Faulted(h) ELSE h
  /\ nic' = [nic EXCEPT !.tx_put = drv'.tx_prod]
  /\ UNCHANGED call

(* ------------------------------- events -------------------------------- *)

\* msk_txeof: the elements up to idx are done; their mappings are removed.
\* It never goes beyond tx_cnt elements.
msk_txeof(d, idx) ==
  LET span == TxSpan(d.tx_cons, idx)
      k == IF span < d.tx_cnt THEN span ELSE d.tx_cnt
      done == {(d.tx_cons + i) % MSK_TX_RING_CNT : i \in 0 .. k - 1}
  IN [d EXCEPT !.tx_cons = (@ + k) % MSK_TX_RING_CNT,
               !.tx_cnt = @ - k,
               !.tx_m = [i \in TxIdx |->
                  IF i \in done /\ d.tx_ring[i].op = "packet"
                    THEN 0 ELSE d.tx_m[i]]]

\* Both indices move, whatever happened to the frame.
RxNext(d) ==
  [d EXCEPT !.rx_cons = RxInc(@), !.rx_prod = RxInc(@)]

\* msk_discard_rxbuf: the controller gets the same buffer again.
msk_discard_rxbuf(d) == RxNext([d EXCEPT !.rx_m[d.rx_cons] = Empty])

\* msk_rxeof of a good frame: a new buffer, the old one goes to the queue.
RxTake(d) ==
  RxNext([d EXCEPT !.rx_m[d.rx_cons] = Empty,
                   !.ReceiveQueue = Append(@, d.rx_m[d.rx_cons])])

\* msk_rxeof of a good frame without memory for its link.
RxDrop(d) == msk_discard_rxbuf(d)

EnterEvents(op) ==
  call' = [NoCall EXCEPT !.op = op, !.cons = drv.stat_cons,
             !.pc = IF drv.stat_cons = nic.stat_put THEN "ack" ELSE "events"]

\* Slip: the timer looks at the interrupt first.
mskc_tickOnIrq ==
  /\ Idle /\ nic.irq
  /\ EnterEvents("tick")
  /\ UNCHANGED <<drv, nic, hist>>

\* mskc_tick, once a second, in every mode: the timer lives until Detach.
mskc_tick ==
  /\ Idle
  /\ EnterEvents("tick")
  /\ UNCHANGED <<drv, nic, hist>>

\* SnpGetStatus with an interrupt status, SnpReceive: msk_intr handles
\* events when the interrupt is pending.
msk_intr(op) ==
  /\ Idle /\ drv.mode = "Initialized"
  /\ IF nic.irq THEN EnterEvents(op)
                ELSE call' = [NoCall EXCEPT !.op = op, !.pc = "rest"]
  /\ UNCHANGED <<drv, nic, hist>>

SnpGetStatus == msk_intr("status")
SnpReceive == msk_intr("receive")

Event == nic.stat[call.cons]
Release == [nic.stat EXCEPT ![call.cons].own = FALSE]
NextEvent(rx) ==
  LET puts == call.puts + (IF rx THEN 1 ELSE 0)
      prog == call.prog + (IF rx THEN 1 ELSE 0)
  IN call' = [call EXCEPT
       !.cons = StatInc(@),
       !.puts = IF puts >= MSK_PUT_WM THEN 0 ELSE puts,
       !.prog = prog,
       !.pc = IF prog > msk_process_limit THEN "finish" ELSE "events"]

\* A status event of a life of the interface that is over.
Noted == [hist EXCEPT !.stale = @ \/ Event.life # hist.life
                                  \/ drv.mode # "Initialized"]

HandleTx ==
  /\ call.pc = "events" /\ Event.own /\ Event.op = "tx"
  /\ drv' = msk_txeof(drv, Event.arg)
  /\ nic' = [nic EXCEPT !.stat = Release]
  /\ hist' = Noted
  /\ NextEvent(FALSE)

HandleRx ==
  /\ call.pc = "events" /\ Event.own /\ Event.op = "rx"
  /\ LET frame == drv.rx_m[drv.rx_cons]
         lose == [Noted EXCEPT !.lost = @ \cup ({frame} \ {NoBuf, Empty})]
     IN \/ Event.arg = 1 /\ drv' = RxTake(drv) /\ hist' = Noted
        \/ /\ Event.arg = 1 /\ Fault
           /\ drv' = RxDrop(drv) /\ hist' = Faulted(lose)
        \/ /\ Event.arg = 0
           /\ drv' = msk_discard_rxbuf(drv) /\ hist' = lose
  /\ NextEvent(TRUE)
  /\ nic' = [nic EXCEPT !.stat = Release,
               !.rx_put = IF call'.puts = 0 THEN drv'.rx_prod ELSE @]

\* No event is left: the rest of msk_handle_events.
FinishEvents ==
  /\ \/ call.pc = "finish"
     \/ call.pc = "events" /\ ~Event.own
  /\ drv' = [drv EXCEPT !.stat_cons = call.cons]
  /\ nic' = [nic EXCEPT !.rx_put = IF call.puts > 0 THEN drv.rx_prod ELSE @]
  /\ call' = [call EXCEPT !.pc = "ack", !.more = call.cons # nic.stat_put]
  /\ UNCHANGED hist

\* The end of msk_intr; the timer does not touch the interrupt.
AckEvents ==
  /\ call.pc = "ack"
  /\ nic' = [nic EXCEPT !.irq = @ /\ (call.op = "tick" \/ call.more)]
  /\ call' = IF call.op = "tick" THEN NoCall ELSE [call EXCEPT !.pc = "rest"]
  /\ UNCHANGED <<drv, hist>>

\* mskc_getstatus: the first buffer of the free queue, if any.
EndGetStatus ==
  /\ call.pc = "rest" /\ call.op = "status"
  /\ drv' = IF drv.TransmitFreeQueue = <<>> THEN drv
            ELSE [drv EXCEPT !.TransmitFreeQueue = Tail(@)]
  /\ call' = NoCall
  /\ UNCHANGED <<nic, hist>>

\* mskc_receive: a frame that is too long for the client stays in the queue.
EndReceive ==
  /\ call.pc = "rest" /\ call.op = "receive"
  /\ \/ drv.ReceiveQueue # <<>>
        /\ drv' = [drv EXCEPT !.ReceiveQueue = Tail(@)]
        /\ hist' = [hist EXCEPT !.got = Append(@, Head(drv.ReceiveQueue))]
     \/ UNCHANGED <<drv, hist>>
  /\ call' = NoCall
  /\ UNCHANGED nic

(* ---------------------------- the controller --------------------------- *)

\* The controller reads the next list element and sends a packet.
NicTx ==
  /\ nic.on /\ nic.tx_get # nic.tx_put
  /\ LET le == drv.tx_ring[nic.tx_get] IN
       IF le.op = "packet"
         THEN /\ hist' = [hist EXCEPT !.sent = Append(@, le.val),
                 !.wild = @ \/ drv.tx_m[nic.tx_get] # le.val
                            \/ nic.tx_high # Hi(le.val)]
              /\ nic' = [nic EXCEPT !.tx_get = TxInc(@)]
         ELSE /\ nic' = [nic EXCEPT !.tx_get = TxInc(@), !.tx_high = le.val]
              /\ UNCHANGED hist
  /\ UNCHANGED <<drv, call>>

\* It reports an event as long as the status ring does not become full:
\* the driver takes a full ring for an empty one (if_msk.c:2275).
Post(op, arg) ==
  /\ ~nic.stat[StatInc(nic.stat_put)].own
  /\ nic' = [nic EXCEPT
       !.stat[nic.stat_put] = [own |-> TRUE, op |-> op, arg |-> arg,
                               life |-> hist.life],
       !.stat_put = StatInc(@), !.irq = TRUE,
       !.tx_told = IF op = "tx" THEN nic.tx_get ELSE @,
       !.rx_get = IF op = "rx" THEN RxInc(@) ELSE @]

NicTxDone ==
  /\ nic.on /\ nic.tx_told # nic.tx_get
  /\ Post("tx", nic.tx_get)
  /\ UNCHANGED <<drv, call, hist>>

\* A frame arrives, good or not, and there is a buffer for it.
NicRx ==
  /\ nic.on /\ nic.rx_get # nic.rx_put /\ hist.rx < hist.max.rx
  /\ \E ok \in {0, 1} :
       /\ Post("rx", ok)
       /\ drv' = [drv EXCEPT !.rx_m[nic.rx_get] = hist.rx + 1]
       /\ hist' = [hist EXCEPT !.rx = @ + 1,
                     !.good = IF ok = 1 THEN @ \cup {hist.rx + 1} ELSE @]
  /\ UNCHANGED call

(* ---------------------------- specification ---------------------------- *)

Client ==
  \/ SnpStart \/ SnpInitialize \/ SnpShutdown \/ SnpStop
  \/ SnpTransmit \/ SnpGetStatus \/ SnpReceive
Work ==
  \/ HandleTx \/ HandleRx \/ FinishEvents \/ AckEvents
  \/ EndGetStatus \/ EndReceive
Next == Client \/ mskc_tick \/ Work \/ NicTx \/ NicTxDone \/ NicRx

\* A call runs to its end.  The timer is due once a second and is served
\* when a call lowers the TPL, however often the client calls: strong
\* fairness.  The controller sends what it was given and reports it.
Fairness ==
  /\ WF_vars(Work) /\ SF_vars(mskc_tick)
  /\ WF_vars(NicTx) /\ WF_vars(NicTxDone)

Spec == Init /\ [][Next]_vars /\ Fairness

(* ------------------------------ properties ----------------------------- *)

Ascending(s) == \A i, j \in DOMAIN s : i < j => s[i] < s[j]
Members(s) == {s[i] : i \in DOMAIN s}
InFlight == {(drv.tx_cons + i) % MSK_TX_RING_CNT : i \in 0 .. drv.tx_cnt - 1}

TypeOK ==
  /\ drv.mode \in {"Stopped", "Started", "Initialized"}
  /\ drv.tx_m \in [TxIdx -> Packet \cup {0}]
  /\ drv.rx_m \in [RxIdx -> Packet \cup {NoBuf, Empty}]
  /\ {drv.tx_prod, drv.tx_cons, nic.tx_get, nic.tx_put} \subseteq TxIdx
  /\ {drv.rx_prod, drv.rx_cons, nic.rx_get, nic.rx_put} \subseteq RxIdx
  /\ call.pc \in {"idle", "events", "finish", "ack", "rest"}

\* The transmit ring: tx_cnt is what lies between the indices, there is
\* always room for the elements of one more packet (if_msk.c:1833), what
\* is mapped is what the controller may still read, and the controller
\* reads nothing else and at the right address.  A status event that
\* outlives its interface breaks it (if_msk.c:2733 keeps the status ring).
TxRingInStep ==
  ~hist.stale =>
    /\ ~hist.wild
    /\ drv.mode = "Initialized" =>
         /\ drv.tx_cnt = TxSpan(drv.tx_cons, drv.tx_prod)
         /\ drv.tx_cnt <= MSK_TX_RING_CNT - MSK_RESERVED_TX_DESC_CNT + 1
         /\ TxSpan(drv.tx_cons, nic.tx_told) <= TxSpan(drv.tx_cons, nic.tx_get)
         /\ TxSpan(drv.tx_cons, nic.tx_get) <= drv.tx_cnt
         /\ {i \in TxIdx : drv.tx_m[i] # 0} =
              {i \in InFlight : drv.tx_ring[i].op = "packet"}
    /\ drv.mode # "Initialized" => \A i \in TxIdx : drv.tx_m[i] = 0

\* No packet is sent twice or before one accepted earlier.
SentInOrder == ~hist.stale => Ascending(hist.sent)

\* Good frames reach the client in order, and each that arrived was
\* delivered, waits in the queue or in the ring, or was lost to a want of
\* memory or a stop.
ReceivedInOrder ==
  ~hist.stale =>
    LET queue == hist.got \o drv.ReceiveQueue IN
      /\ Ascending(queue)
      /\ Members(queue) \subseteq hist.good
      /\ hist.good \subseteq
           Members(queue) \cup hist.lost \cup {drv.rx_m[i] : i \in RxIdx}

RingsInStep == TypeOK /\ TxRingInStep /\ SentInOrder

\* A good frame is queued even if nobody asks for it, and the ring drains.
\* MCNet states that the first of each pair leads to the second.
Arrived(p) == p \in hist.good
Delivered(p) ==
  In(p, hist.got) \/ In(p, drv.ReceiveQueue) \/ p \in hist.lost \/ hist.stale
Mapped(p) == \E i \in TxIdx : drv.tx_m[i] = p
Unmapped(p) == ~Mapped(p) \/ hist.stale

\* The buffers GetStatus will hand back, see SimpleNetwork.
held == drv.TransmitFreeQueue \o drv.TransmitQueue

=============================================================================
