-------------------------------- MODULE Pp2 --------------------------------
(***************************************************************************)
(* Drivers/Net/Pp2Dxe/Pp2Dxe.c with the descriptor and pool operations of  *)
(* Mvpp2Lib: the Simple Network Protocol over the ports of one packet      *)
(* processor.  The ports share the aggregated transmit queue, the pool of  *)
(* receive buffers, and (BufferLocation.RxDescs, Pp2Dxe.c:422) the memory  *)
(* of their receive descriptors.  Calls run at TPL_CALLBACK, one at a      *)
(* time; Transmit polls the hardware twice and gives up after a number of  *)
(* attempts, without taking the packet back.                               *)
(***************************************************************************)
EXTENDS Integers, Sequences, FiniteSets

CONSTANTS
  Port,
  QUEUE_DEPTH,
  MVPP2_AGGR_TXQ_SIZE,
  MVPP2_MAX_RXD,
  MVPP2_BM_SIZE,
  Bounds       \* bounds: packets sent (tx), packets that arrive (rx),
               \* failing initializations (faults), what the link can be (link)

ConstantsOK ==
  /\ IsFiniteSet(Port) /\ 0 \notin Port
  /\ {MVPP2_AGGR_TXQ_SIZE, MVPP2_MAX_RXD, MVPP2_BM_SIZE} \subseteq Nat \ {0}
  /\ QUEUE_DEPTH \in Nat /\ QUEUE_DEPTH >= 2
  /\ Bounds \subseteq [tx : Nat, rx : Nat, faults : Nat, link : SUBSET BOOLEAN]

VARIABLES
  drv,    \* the contexts of the ports and the shared queue's index
  nic,    \* queues, counters, pool and descriptor memory
  call,   \* the Transmit call in progress
  hist    \* history

vars == <<drv, nic, call, hist>>

RxIdx == 0 .. MVPP2_MAX_RXD - 1
AggrIdx == 0 .. MVPP2_AGGR_TXQ_SIZE - 1
RxNext(i) == (i + 1) % MVPP2_MAX_RXD
AggrNext(i) == (i + 1) % MVPP2_AGGR_TXQ_SIZE
Buffers == 1 .. MVPP2_BM_SIZE
EachPort(v) == [p \in Port |-> v]
Members(s) == {s[i] : i \in DOMAIN s}

NoTx == [port |-> 0, buf |-> 0]
NoRx == [buf |-> 0, bad |-> FALSE]
NoCall == [pc |-> "idle", port |-> 0, buf |-> 0]

\* After Pp2DxeInitialise: the pool is filled, no port is initialized.
Init ==
  /\ drv = [mode |-> EachPort("Stopped"), Initialized |-> EachPort(FALSE),
            LateInitialized |-> EachPort(FALSE),
            Txqs |-> EachPort(FALSE), Rxqs |-> EachPort(FALSE),  \* # NULL
            MediaPresent |-> EachPort(FALSE),
            CompletionQueue |-> EachPort(<<>>),
            RxNextDesc |-> EachPort(0), AggrNextDesc |-> 0]
  /\ nic = [aggr |-> [i \in AggrIdx |-> NoTx], aggrGet |-> 0, aggrPend |-> 0,
            txq |-> EachPort(<<>>), sent |-> EachPort(0),
            pool |-> [i \in Buffers |-> i], data |-> [b \in 0 .. MVPP2_BM_SIZE |-> 0],
            descs |-> [i \in RxIdx |-> NoRx], rxPut |-> EachPort(0),
            occupied |-> EachPort(0), free |-> EachPort(0)]
  /\ call = NoCall
  /\ \E max \in Bounds :
     hist = [max |-> max, tx |-> 0, rx |-> 0, faults |-> 0,
             good |-> EachPort({}), got |-> EachPort(<<>>),
             sent |-> <<>>, queued |-> <<>>,
             late |-> EachPort(FALSE),    \* a Transmit gave up
             skewed |-> EachPort(FALSE),  \* Receive returned BUFFER_TOO_SMALL
             failed |-> EachPort(FALSE),  \* Initialize failed
             moved |-> FALSE,             \* see Pp2DxeOpen
             overrun |-> FALSE]           \* see Pp2SnpTransmit

Idle == call.pc = "idle"

(* --------------------------- the interface's mode ---------------------- *)

Pp2SnpStart(p) ==
  /\ Idle /\ drv.mode[p] = "Stopped"
  /\ drv' = [drv EXCEPT !.mode[p] = "Started"]
  /\ UNCHANGED <<nic, call, hist>>

\* Stop, also of an initialized interface; the hardware goes on.
Pp2SnpStop(p) ==
  /\ Idle /\ drv.mode[p] # "Stopped"
  /\ drv' = [drv EXCEPT !.mode[p] = "Stopped"]
  /\ UNCHANGED <<nic, call, hist>>

\* Every receive descriptor is the port's; its transmit queue is empty.
Mvpp2RxqHwInit(n, p) ==
  [n EXCEPT !.free[p] = MVPP2_MAX_RXD, !.occupied[p] = 0, !.rxPut[p] = 0]
Mvpp2TxqHwInit(n, p) == [n EXCEPT !.txq[p] = <<>>]

\* The index of the shared queue is read back from the hardware.
Mvpp2AggrTxqHwInit(d) == [d EXCEPT !.AggrNextDesc = nic.aggrGet]

Pp2DxeOpen(p) ==
  /\ nic' = Mvpp2TxqHwInit(Mvpp2RxqHwInit(nic, p), p)
  /\ drv' = [Mvpp2AggrTxqHwInit(drv) EXCEPT !.mode[p] = "Initialized",
               !.Initialized[p] = TRUE, !.LateInitialized[p] = TRUE,
               !.Txqs[p] = TRUE, !.Rxqs[p] = TRUE]
  /\ hist' = [hist EXCEPT !.moved = @ \/ nic.aggrPend > 0]

\* Pp2DxeLateInitialize: a port is opened once.
Pp2DxeLateInitialize(p) == ~drv.LateInitialized[p] /\ Pp2DxeOpen(p)

\* Pp2DxeSnpInitialize.  State and Initialized are set before the PHY and
\* the port are set up; a failure leaves them set, and with them the queues
\* allocated before it, the transmit queues first.
Pp2DxeSnpInitialize(p) ==
  /\ Idle /\ drv.mode[p] = "Started"
  /\ \/ /\ drv.Initialized[p]
        /\ drv' = [drv EXCEPT !.mode[p] = "Initialized"]
        /\ UNCHANGED <<nic, hist>>
     \/ /\ ~drv.Initialized[p]
        /\ Pp2DxeLateInitialize(p)
     \/ /\ ~drv.Initialized[p] /\ hist.faults < hist.max.faults
        /\ \E t, r \in BOOLEAN :
             /\ r => t
             /\ drv' = [drv EXCEPT !.mode[p] = "Initialized", !.Initialized[p] = TRUE,
                                   !.Txqs[p] = t, !.Rxqs[p] = r]
        /\ hist' = [hist EXCEPT !.failed[p] = TRUE, !.faults = @ + 1]
        /\ UNCHANGED nic
  /\ UNCHANGED call

(* ------------------------------ transmit ------------------------------- *)

\* Pp2SnpTransmit up to Mvpp2AggrTxqPendDescAdd.  The next descriptor is
\* taken whether or not the hardware has done with it: once calls have
\* given up on as many packets as the queue holds, it overruns.
Pp2SnpTransmit(p) ==
  /\ Idle /\ drv.mode[p] = "Initialized" /\ drv.MediaPresent[p]
  /\ hist.tx < hist.max.tx
  /\ LET b == hist.tx + 1 IN
       /\ call' = [pc |-> "aggr", port |-> p, buf |-> b]
       /\ nic' = [nic EXCEPT
            !.aggr[drv.AggrNextDesc] = [port |-> p, buf |-> b],
            !.aggrPend = @ + 1]
       /\ hist' = [hist EXCEPT !.tx = b, !.queued = Append(@, b),
                                 !.overrun = @ \/ nic.aggrPend = MVPP2_AGGR_TXQ_SIZE]
  /\ drv' = [drv EXCEPT !.AggrNextDesc = AggrNext(@)]

\* The first loop ends when the aggregated queue is empty; the second uses
\* the port's queues, a null pointer if a failed initialization has left none.
PollAggr ==
  /\ call.pc = "aggr" /\ nic.aggrPend = 0
  /\ call' = [call EXCEPT !.pc = IF drv.Txqs[call.port] THEN "sent" ELSE "crash"]
  /\ UNCHANGED <<drv, nic, hist>>

\* QueueInsert: the circular buffer keeps one element free.
QueueInsert(q, b) == IF Len(q) = QUEUE_DEPTH - 1 THEN q ELSE Append(q, b)

\* The second loop ends when Mvpp2TxqSentDescProc, which resets the
\* counter, has returned a number, of whichever packets.
PollSent ==
  /\ call.pc = "sent" /\ nic.sent[call.port] > 0
  /\ nic' = [nic EXCEPT !.sent[call.port] = 0]
  /\ drv' = [drv EXCEPT
       !.CompletionQueue[call.port] = QueueInsert(@, call.buf)]
  /\ call' = NoCall
  /\ UNCHANGED hist

\* EFI_TIMEOUT: the packet stays where it is.
PollTimeout ==
  /\ \/ call.pc = "aggr" /\ nic.aggrPend > 0
     \/ call.pc = "sent" /\ nic.sent[call.port] = 0
  /\ hist' = [hist EXCEPT !.late[call.port] = TRUE]
  /\ call' = NoCall
  /\ UNCHANGED <<drv, nic>>

QueueRemove(q) == IF q = <<>> THEN q ELSE Tail(q)

\* Pp2SnpGetStatus looks at Initialized, not at the mode, and at the link.
Pp2SnpGetStatus(p) ==
  /\ Idle /\ drv.Initialized[p]
  /\ \E LinkUp \in hist.max.link :
       drv' = [drv EXCEPT !.MediaPresent[p] = LinkUp,
                          !.CompletionQueue[p] = QueueRemove(@)]
  /\ UNCHANGED <<nic, call, hist>>

(* ------------------------------- receive ------------------------------- *)

RxDesc(p) == nic.descs[drv.RxNextDesc[p]]
RxAdvance(p) == drv' = [drv EXCEPT !.RxNextDesc[p] = RxNext(@)]

\* Mvpp2BmPoolPut and Mvpp2RxqStatusUpdate (.., 1, 1).
Refill(p) ==
  nic' = [nic EXCEPT !.pool = Append(@, RxDesc(p).buf),
                     !.occupied[p] = @ - 1, !.free[p] = @ + 1]

Receiving(p) ==
  Idle /\ drv.Rxqs[p] /\ nic.occupied[p] > 0 /\ RxAdvance(p)
    /\ UNCHANGED call

\* The mode is not looked at: packets are received in any state.
Pp2SnpReceive(p) ==
  /\ Receiving(p) /\ ~RxDesc(p).bad
  /\ Refill(p)
  /\ hist' = [hist EXCEPT !.got[p] = Append(@, nic.data[RxDesc(p).buf])]

\* Slip: the descriptor of a bad packet is not given back.
ReceiveDropLeaks(p) ==
  Receiving(p) /\ RxDesc(p).bad /\ UNCHANGED <<nic, hist>>

ReceiveDrop(p) ==
  Receiving(p) /\ RxDesc(p).bad /\ Refill(p) /\ UNCHANGED hist

\* BUFFER_TOO_SMALL: the index has advanced, nothing is given back.
ReceiveTooSmall(p) ==
  /\ Receiving(p) /\ ~RxDesc(p).bad
  /\ hist' = [hist EXCEPT !.skewed[p] = TRUE]
  /\ UNCHANGED nic

\* ASSERT (Rxq != NULL), in any mode: a port without receive queues.
ReceiveAsserts(p) ==
  /\ Idle /\ ~drv.Rxqs[p]
  /\ call' = [NoCall EXCEPT !.pc = "crash", !.port = p]
  /\ UNCHANGED <<drv, nic, hist>>

(* ----------------------------- the hardware ---------------------------- *)

\* A descriptor moves from the aggregated to the port's transmit queue.
NicAggr ==
  /\ nic.aggrPend > 0
  /\ LET d == nic.aggr[nic.aggrGet] IN
       nic' = [nic EXCEPT !.aggrGet = AggrNext(@), !.aggrPend = @ - 1,
                 !.txq = IF d.port \in Port
                           THEN [@ EXCEPT ![d.port] = Append(nic.txq[d.port], d.buf)]
                           ELSE @]
  /\ UNCHANGED <<drv, call, hist>>

\* Only Pp2DxeStartDev, the end of Pp2DxeOpen, enables a port's egress.
NicSend(p) ==
  /\ drv.LateInitialized[p] /\ nic.txq[p] # <<>>
  /\ nic' = [nic EXCEPT !.txq[p] = Tail(@), !.sent[p] = @ + 1]
  /\ hist' = [hist EXCEPT !.sent = Append(@, Head(nic.txq[p]))]
  /\ UNCHANGED <<drv, call>>

\* A packet arrives while the port has a descriptor and the pool a buffer.
NicRx(p) ==
  /\ nic.free[p] > 0 /\ nic.pool # <<>> /\ hist.rx < hist.max.rx
  /\ \E bad \in BOOLEAN :
       LET b == Head(nic.pool) n == hist.rx + 1 IN
         /\ nic' = [nic EXCEPT !.pool = Tail(@), !.data[b] = n,
              !.descs[nic.rxPut[p]] = [buf |-> b, bad |-> bad],
              !.rxPut[p] = RxNext(@), !.free[p] = @ - 1, !.occupied[p] = @ + 1]
         /\ hist' = [hist EXCEPT !.rx = n,
              !.good[p] = IF bad THEN @ ELSE @ \cup {n}]
  /\ UNCHANGED <<drv, call>>

(* ---------------------------- specification ---------------------------- *)

Client(p) ==
  \/ Pp2SnpStart(p) \/ Pp2DxeSnpInitialize(p) \/ Pp2SnpStop(p)
  \/ Pp2SnpTransmit(p) \/ Pp2SnpGetStatus(p)
  \/ Pp2SnpReceive(p) \/ ReceiveDrop(p) \/ ReceiveTooSmall(p)
  \/ ReceiveAsserts(p)
Poll == PollAggr \/ PollSent \/ PollTimeout
Next ==
  \/ \E p \in Port : Client(p) \/ NicSend(p) \/ NicRx(p)
  \/ Poll \/ NicAggr

\* Transmit polls on; the hardware sends what it was given.  The shared
\* queue need not move before Pp2DxeOpen has set it up for some port.
AggrMoves == (\E p \in Port : drv.LateInitialized[p]) /\ NicAggr
Fairness ==
  WF_vars(Poll) /\ WF_vars(AggrMoves) /\ \A p \in Port : WF_vars(NicSend(p))

Spec == Init /\ [][Next]_vars /\ Fairness

(* ------------------------------ properties ----------------------------- *)

Ascending(s) == \A i, j \in DOMAIN s : i < j => s[i] < s[j]
Shared == Cardinality({p \in Port : drv.LateInitialized[p]}) > 1
Waiting(p) ==
  {(drv.RxNextDesc[p] + i) % MVPP2_MAX_RXD : i \in 0 .. nic.occupied[p] - 1}
PendingDescs ==
  {nic.aggr[(nic.aggrGet + i) % MVPP2_AGGR_TXQ_SIZE] : i \in 0 .. nic.aggrPend - 1}
Pending == {d.buf : d \in PendingDescs}

TypeOK ==
  /\ drv.mode \in [Port -> {"Stopped", "Started", "Initialized"}]
  /\ drv.RxNextDesc \in [Port -> RxIdx] /\ drv.AggrNextDesc \in AggrIdx
  /\ call.pc \in {"idle", "aggr", "sent", "crash"}
  /\ \A p \in Port : Len(drv.CompletionQueue[p]) < QUEUE_DEPTH

\* A packet given to the hardware is sent once and is not lost, whatever
\* calls gave up on it, unless another port was opened in between and took
\* the descriptors that were still pending (Pp2Dxe.c:329), or so many pend
\* that Transmit writes over the first of them (Pp2Dxe.c:898).
Overwritten == hist.moved \/ hist.overrun
SentOnce ==
  ~Overwritten =>
    /\ Cardinality(Members(hist.sent)) = Len(hist.sent)
    /\ Members(hist.queued) = Members(hist.sent) \cup Pending
                               \cup UNION {Members(nic.txq[p]) : p \in Port}

\* What GetStatus will hand back has been sent, unless a Transmit gave up.
CompletedWasSent ==
  \A p \in Port :
    ~hist.late[p] /\ ~Overwritten =>
      Members(drv.CompletionQueue[p]) \subseteq Members(hist.sent)

\* As long as one port is in use and no packet was too large for the
\* client, the driver reads the descriptor the hardware wrote, and every
\* buffer is in the pool or in one waiting descriptor.
PoolInStep ==
  ~Shared =>
    \A p \in Port :
      drv.LateInitialized[p] /\ ~hist.skewed[p] =>
        /\ (drv.RxNextDesc[p] + nic.occupied[p]) % MVPP2_MAX_RXD = nic.rxPut[p]
        /\ Len(nic.pool) + nic.occupied[p] = MVPP2_BM_SIZE
        /\ Members(nic.pool) \cup {nic.descs[i].buf : i \in Waiting(p)} = Buffers

\* A port that was opened never runs into a null queue, whatever failed on
\* the other one: Receive does so on a port not opened yet or never, Transmit
\* (which has a packet) only after an initialization that failed.
CrashesUnopened ==
  call.pc = "crash" =>
    /\ ~drv.LateInitialized[call.port]
    /\ call.buf # 0 => hist.failed[call.port]

RingsInStep ==
  TypeOK /\ SentOnce /\ CompletedWasSent /\ PoolInStep
    /\ CrashesUnopened

\* Good packets in order, none twice, none lost, under the same conditions.
ReceivedInOrder ==
  ~Shared =>
    \A p \in Port : ~hist.skewed[p] =>
      /\ Ascending(hist.got[p])
      /\ Members(hist.got[p]) \subseteq hist.good[p]
      /\ drv.LateInitialized[p] =>
           hist.good[p] = Members(hist.got[p]) \cup
             {nic.data[nic.descs[i].buf] :
                i \in {j \in Waiting(p) : ~nic.descs[j].bad}}

\* Transmit returns, and its packet leaves even after it has given up,
\* unless it was given to a port whose initialization had failed:
\* MCNet states that the first of each pair leads to the second.
Busy == call.pc # "idle"
Returned == call.pc \in {"idle", "crash"}
Queued(b) == b \in Members(hist.queued)
NowhereToGo(b) ==
  \E p \in Port : hist.failed[p] /\
    (b \in Members(nic.txq[p]) \/ [port |-> p, buf |-> b] \in PendingDescs)
Left(b) == b \in Members(hist.sent) \/ Overwritten \/ NowhereToGo(b)

=============================================================================
