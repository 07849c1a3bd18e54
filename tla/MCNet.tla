-------------------------------- MODULE MCNet --------------------------------
\* The three network drivers, each with its own controller, checked
\* against the same promise.  A behaviour is one of one driver; the bounds
\* of each are either many packets to send, or many that arrive.
EXTENDS Integers, Sequences, FiniteSets

VARIABLES which, drv, nic, chip, call, hist

vars == <<which, drv, nic, chip, call, hist>>

Packet == 1 .. 3

Y == INSTANCE Yukon WITH
  MSK_TX_RING_CNT <- 6, MSK_RESERVED_TX_DESC_CNT <- 3, MSK_RX_BUF_CNT <- 2,
  MSK_STAT_RING_CNT <- 4, MSK_PUT_WM <- 2, msk_process_limit <- 1,
  HighPackets <- {2},
  Bounds <- {[tx |-> 3, rx |-> 0, faults |-> 0, lives |-> 1],
             [tx |-> 1, rx |-> 3, faults |-> 1, lives |-> 1],
             [tx |-> 1, rx |-> 1, faults |-> 0, lives |-> 2]}

P == INSTANCE Pp2 WITH
  Port <- {1, 2}, QUEUE_DEPTH <- 3, MVPP2_AGGR_TXQ_SIZE <- 2,
  MVPP2_MAX_RXD <- 2, MVPP2_BM_SIZE <- 2,
  Bounds <- {[tx |-> 3, rx |-> 0, faults |-> 0, link |-> {TRUE}],
             [tx |-> 2, rx |-> 0, faults |-> 1, link |-> BOOLEAN],
             [tx |-> 0, rx |-> 3, faults |-> 0, link |-> {FALSE}]}

\* Controllers: revision, what a reset does to the bank, the PHYs' addresses.
Part(rev, resetsBank, at) ==
  [sig |-> TRUE, bank |-> rev % 4, rev |-> rev, reload |-> TRUE, mac |-> 1,
   resetsBank |-> resetsBank,
   phys |-> [a \in at |-> [ID1 |-> "id", ID2 |-> IF a = 30 THEN "zero" ELSE "id",
                           STATUS |-> IF a = 1 THEN {"LINK"}
                                      ELSE {"AUTO_CAP", "HDX10", "FDX100"}]]]
Parts ==
  {Part(145, TRUE, {0, 30}), Part(113, FALSE, {1}), Part(112, TRUE, {31}),
   Part(144, FALSE, {}), Part(32, FALSE, {31}),
   [Part(144, FALSE, {31}) EXCEPT !.sig = FALSE],
   [Part(144, FALSE, {31}) EXCEPT !.reload = FALSE]}

Traffic(tx, rx, faults, chips) ==
  [tx |-> tx, rx |-> rx, calls |-> 0, faults |-> faults, chips |-> chips]

L == INSTANCE Lan91x WITH
  Memory <- {1, 2},
  Hash <- [a |-> <<2, 3>>, b |-> <<6, 1>>],
  Bounds <- {Traffic(3, 1, 0, {Part(145, FALSE, {31})}),
             Traffic(2, 0, 1, {Part(145, FALSE, {31})}),
             Traffic(1, 2, 1, {Part(112, TRUE, {})}),
             [Traffic(0, 0, 1, Parts) EXCEPT !.calls = 2]}

ASSUME NetAssumption == Y!ConstantsOK /\ P!ConstantsOK /\ L!ConstantsOK

Yukon == which = "Yukon"
Pp2 == which = "Pp2"
Lan91x == which = "Lan91x"

Init ==
  \/ which = "Yukon" /\ Y!Init /\ chip = <<>>
  \/ which = "Pp2" /\ P!Init /\ chip = <<>>
  \/ which = "Lan91x" /\ L!Init

Next ==
  /\ \/ Yukon /\ Y!Next /\ UNCHANGED chip
     \/ Pp2 /\ P!Next /\ UNCHANGED chip
     \/ Lan91x /\ L!Next
  /\ UNCHANGED which

\* The fairness of each driver, one condition for the actions that have
\* the same part in the three.
Step(A) == A /\ UNCHANGED which /\ (~Lan91x => UNCHANGED chip)
Fairness ==
  /\ WF_vars(Step(\/ Yukon /\ Y!Work
                  \/ Pp2 /\ P!Poll
                  \/ Lan91x /\ L!Work))
  /\ WF_vars(Step(\/ Yukon /\ Y!NicTx
                  \/ Pp2 /\ P!AggrMoves
                  \/ Lan91x /\ L!NicMmu))
  /\ WF_vars(Step(\/ Yukon /\ Y!NicTxDone
                  \/ Pp2 /\ P!NicSend(1)
                  \/ Lan91x /\ L!NicSend))
  /\ WF_vars(Step(Pp2 /\ P!NicSend(2)))
  /\ SF_vars(Step(Yukon /\ Y!mskc_tick))

Spec == Init /\ [][Next]_vars /\ Fairness

\* The rings, pools and queues of driver and controller agree; what is
\* sent was accepted and is sent once.  See the modules.
RingsInStep ==
  /\ Yukon => Y!RingsInStep
  /\ Pp2 => P!RingsInStep
  /\ Lan91x => L!RingsInStep

\* Good packets reach the client once, in order, and are not lost unnoticed.
ReceivedInOrder ==
  /\ Yukon => Y!ReceivedInOrder
  /\ Pp2 => P!ReceivedInOrder
  /\ Lan91x => L!ReceivedInOrder

\* A call ends, a packet in a ring is sent, and (Yukon, which has a timer)
\* a packet that arrived is queued.
PacketsMove ==
  /\ ((Pp2 /\ P!Busy) \/ (Lan91x /\ L!Busy)) ~>
       ((Pp2 => P!Returned) /\ (Lan91x => ~L!Busy))
  /\ \A p \in Packet :
       /\ ((Yukon /\ Y!Mapped(p)) \/ (Pp2 /\ P!Queued(p))
                                  \/ (Lan91x /\ L!Pushed(p))) ~>
            /\ Yukon => Y!Unmapped(p)
            /\ Pp2 => P!Left(p)
            /\ Lan91x => L!Gone(p)
       /\ (Yukon /\ Y!Arrived(p)) ~> (Yukon => Y!Delivered(p))

\* Each driver keeps the promise of SimpleNetwork: the states of the
\* interface, and that buffers are handed back once, in order.  Of PP2 the
\* first port.
Promise == INSTANCE SimpleNetwork WITH
  Buffer <- Packet,
  mode <- IF Pp2 THEN drv.mode[1] ELSE drv.mode,
  held <- CASE Yukon -> Y!held
            [] Pp2 -> drv.CompletionQueue[1]
            [] Lan91x -> drv.TransmitQueue
ImplementsNetwork == Promise!SNSpec

=============================================================================
