------------------------------- MODULE Pp2Port -------------------------------
(***************************************************************************)
(* Drivers/Net/Pp2Dxe: how the packet processor, the network complex and   *)
(* the MACs of its ports are set up when the driver starts, what the first *)
(* Initialize of an interface adds, and how all is halted at the end of    *)
(* the boot services.  The descriptor rings in use are the module Pp2, the *)
(* parser is Pp2Parser.  A register is the set of its bits that are set.   *)
(***************************************************************************)
EXTENDS Integers, Sequences, FiniteSets

CONSTANTS
  Boards,         \* sequences of ports [id, gop, mode, speed, phy]
  MVPP2_BM_SIZE,
  Bounds          \* bounds: faults, frames, calls

VARIABLES
  drv,    \* the driver's contexts, one for each port
  dev,    \* the hardware
  hist    \* history

vars == <<drv, dev, hist>>

Ids == 0 .. 3                  \* MVPP2_MAX_PORTS
Gops == {0, 2, 3}
Modes == {"RGMII", "SGMII", "QSGMII", "XAUI", "RXAUI"}
Gig == {"RGMII", "SGMII", "QSGMII"}
MVPP2_BM_POOL == 0
MVPP2_MAX_TXQ == 8
MVPP2_MAX_TCONT == 16

ConstantsOK ==
  /\ MVPP2_BM_SIZE \in Nat \ {0}
  /\ \A b \in Boards : \A k \in DOMAIN b :
       /\ b[k].id \in Ids /\ b[k].gop \in Gops /\ b[k].mode \in Modes /\ b[k].phy \in BOOLEAN
       /\ b[k].speed \in {10, 100, 1000, 2500, 10000}
       /\ \A j \in DOMAIN b : j # k => b[j].id # b[k].id /\ b[j].gop # b[k].gop
  /\ \A m \in Bounds : {m.faults, m.frames, m.calls} \subseteq Nat

(* ---------------------- which queue is whose --------------------------- *)

Mvpp2EgressPort(id) == MVPP2_MAX_TCONT + id
Mvpp2TxqPhys(id, txq) == ((MVPP2_MAX_TCONT + id) * MVPP2_MAX_TXQ) + txq
FirstRxq(k) == 4 * (k - 1)

Egresses == {Mvpp2EgressPort(i) : i \in Ids}
Txqs == {Mvpp2TxqPhys(i, 0) : i \in Ids}
Rxqs == {FirstRxq(k) : k \in 1 .. 4}

(* ------------------------------ the MAC -------------------------------- *)

GmacReset == [ctrl0 |-> {"type"}, ctrl2 |-> {"reset"}, ctrl4 |-> {}, fifo |-> "reset", an |-> {},
              event |-> TRUE, xlg |-> TRUE]

\* DIS_PADING_OFFS is used for a mask: 5 is the mode SGMII and a bit of FC_MODE.
DisPadingOffs == {"sgmii", "fc"}

MvGop110GmacReset(g, on) == [g EXCEPT !.ctrl2 = IF on THEN @ \cup {"reset"} ELSE @ \ {"reset"}]
MvGop110GpcsModeCfg(g, on) == [g EXCEPT !.ctrl2 = IF on THEN @ \cup {"pcs"} ELSE @ \ {"pcs"}]
MvGop110BypassClkCfg(g, on) ==
  [g EXCEPT !.ctrl2 = IF on THEN @ \cup {"clk125"} ELSE @ \ {"clk125"}]
MvGop110GpcsReset(g, on) == [g EXCEPT !.ctrl2 = IF on THEN @ \ {"sgmii"} ELSE @ \cup {"sgmii"}]
MvGop110Xlg2GigMacCfg(g, gop) == IF gop > 0 THEN g ELSE [g EXCEPT !.xlg = FALSE]

MvGop110GmacRgmiiCfg(g) ==
  [g EXCEPT !.fifo = "rgmii", !.ctrl4 = (@ \ {"dp"}) \cup {"sync", "qsgmii", "pins"},
            !.ctrl2 = @ \ DisPadingOffs, !.ctrl0 = @ \ {"type"},
            !.an = {"bypass", "an_speed", "an_fc", "an_fdx", "sample"}]
MvGop110GmacSgmii25Cfg(g) ==
  [g EXCEPT !.fifo = "sgmii25", !.ctrl4 = @ \cup {"sync", "dp", "qsgmii"},
            !.ctrl2 = @ \cup DisPadingOffs, !.ctrl0 = @ \cup {"type"},
            !.an = {"pcs", "bypass", "mii", "gmii", "pause", "fdx", "sample"}]
MvGop110GmacSgmiiCfg(g) ==
  [g EXCEPT !.fifo = "sgmii", !.ctrl4 = (@ \ {"dp"}) \cup {"sync", "qsgmii"},
            !.ctrl2 = @ \cup DisPadingOffs, !.ctrl0 = @ \ {"type"},
            !.an = {"pcs", "bypass", "an_speed", "an_fc", "an_fdx", "sample"}]
MvGop110GmacQsgmiiCfg(g) ==
  [g EXCEPT !.fifo = "sgmii", !.ctrl4 = (@ \ {"dp", "pins", "qsgmii"}) \cup {"sync"},
            !.ctrl2 = @ \ DisPadingOffs, !.ctrl0 = @ \ {"type"},
            !.an = {"pcs", "bypass", "an_speed", "an_fc", "an_fdx", "sample"}]

MvGop110GmacPortLinkEventMask(g) == [g EXCEPT !.event = FALSE]
MvGop110GmacModeCfg(g, mode, speed) ==
  LET c == CASE mode = "SGMII" /\ speed = 2500 -> MvGop110GmacSgmii25Cfg(g)
             [] mode = "SGMII" -> MvGop110GmacSgmiiCfg(g)
             [] mode = "RGMII" -> MvGop110GmacRgmiiCfg(g)
             [] OTHER -> MvGop110GmacQsgmiiCfg(g)
  IN MvGop110GmacPortLinkEventMask([c EXCEPT !.ctrl0 = @ \cup {"limit"}])

\* MvGop110PortInit: only RGMII puts the MAC into reset first; other modes fail.
MvGop110PortInit(g, c) ==
  LET rgmii == MvGop110BypassClkCfg(MvGop110GpcsModeCfg(MvGop110GmacReset(g, TRUE), FALSE), TRUE)
      serial == MvGop110GpcsModeCfg(g, TRUE)
      set == IF c.mode = "RGMII" THEN MvGop110GmacModeCfg(rgmii, c.mode, c.speed)
             ELSE MvGop110Xlg2GigMacCfg(MvGop110GmacModeCfg(serial, c.mode, c.speed), c.gop)
  IN IF c.mode \notin Gig THEN g
     ELSE MvGop110GmacReset(MvGop110GpcsReset(set, FALSE), FALSE)

\* MvGop110GmacSpeedDuplexSet, of MvGop110SpeedDuplexSet and MvGop110FlCfg.
\* It goes through Mvpp2GmacRead and Mvpp2GmacWrite: to a register of the
\* packet processor that all ports share, not to the MAC.
MvGop110GmacSpeedDuplexSet(an, speed) ==
  LET fixed == an \ {"an_speed"} IN
  CASE speed \in {2500, 1000} -> (fixed \cup {"gmii", "fdx"}) \ {"an_fdx"}
    [] speed = 100 -> ((fixed \ {"gmii"}) \cup {"mii", "fdx"}) \ {"an_fdx"}
    [] speed = 10 -> ((fixed \ {"gmii", "mii"}) \cup {"fdx"}) \ {"an_fdx"}
    [] OTHER -> an
MvGop110SpeedDuplexSet(an, mode, speed) ==
  IF mode \in Gig THEN MvGop110GmacSpeedDuplexSet(an, speed) ELSE an
MvGop110FlCfg(an, c) == MvGop110SpeedDuplexSet(an, c.mode, c.speed)

MvGop110GmacPortEnable(g) == [g EXCEPT !.ctrl0 = @ \cup {"enable", "count"}]
MvGop110GmacPortDisable(g) ==
  [MvGop110GmacPortLinkEventMask(g) EXCEPT !.ctrl0 = @ \ {"enable"}]
MvGop110PortEnable(g, mode) == IF mode \in Gig THEN MvGop110GmacPortEnable(g) ELSE g
MvGop110PortDisable(g, mode) == IF mode \in Gig THEN MvGop110GmacPortDisable(g) ELSE g
MvGop110PortEventsMask(g, mode) == IF mode \in Gig THEN MvGop110GmacPortLinkEventMask(g) ELSE g

(* -------------------------- the network complex ------------------------ *)

NetcReset == [sgmii |-> {}, rgmii |-> FALSE, serdes |-> {}, wide |-> FALSE, active |-> {},
              released |-> {}, clock |-> FALSE, out |-> FALSE]

\* MvpPp2xGop110NetcCfgCreate: the bits of a port; the driver collects them.
MvpPp2xGop110NetcCfgCreate(c) ==
  CASE c.gop = 0 /\ c.mode = "XAUI" -> {"mac0_xaui"}
    [] c.gop = 0 /\ c.mode = "RXAUI" -> {"mac0_rxaui"}
    [] c.gop = 2 /\ c.mode = "SGMII" -> {"mac2_sgmii"}
    [] c.gop = 3 /\ c.mode = "SGMII" -> {"mac3_sgmii"}
    [] c.gop = 3 /\ c.mode = "RGMII" -> {"mac3_rgmii"}
    [] OTHER -> {}

MvGop110NetcPortRfReset(n, p) == [n EXCEPT !.released = @ \cup {p}]
MvGop110NetcBusWidthSelect(n) == [n EXCEPT !.wide = TRUE]
MvGop110NetcGbeSgmiiModeSelect(n, p, on) ==
  [n EXCEPT !.sgmii = IF on THEN @ \cup {p} ELSE @ \ {p}]
MvGop110NetcMacToXgmii(n, p, phase) ==
  IF phase = 2 THEN MvGop110NetcPortRfReset(n, p)
  ELSE MvGop110NetcGbeSgmiiModeSelect(MvGop110NetcBusWidthSelect(n), p, FALSE)
MvGop110NetcMacToSgmii(n, p, phase) ==
  IF phase = 2 THEN MvGop110NetcPortRfReset(n, p)
  ELSE MvGop110NetcGbeSgmiiModeSelect(MvGop110NetcBusWidthSelect(n), p, TRUE)
MvGop110NetcMacToRxaui(n, phase) ==
  IF phase = 2 THEN MvGop110NetcPortRfReset(n, 0) ELSE [n EXCEPT !.serdes = @ \cup {"rxaui0"}]
MvGop110NetcMacToXaui(n, phase) ==
  IF phase = 2 THEN MvGop110NetcPortRfReset(n, 0) ELSE [n EXCEPT !.serdes = @ \cup {"xaui"}]
MvGop110NetcMiiMode(n, rgmii) == [n EXCEPT !.rgmii = rgmii]
MvGop110NetcActivePort(n, ports) == [n EXCEPT !.active = @ \cup ports]
MvGop110NetcGopClockLogicSet(n) == [n EXCEPT !.clock = TRUE]
MvGop110NetcGopReset(n) == [n EXCEPT !.out = TRUE]

MvGop110NetcInit(n, c, phase) ==
  LET a == IF "mac0_rxaui" \in c THEN MvGop110NetcMacToRxaui(n, phase) ELSE n
      b == IF "mac0_xaui" \in c THEN MvGop110NetcMacToXaui(a, phase) ELSE a
      d == IF "mac2_sgmii" \in c THEN MvGop110NetcMacToSgmii(b, 2, phase)
           ELSE MvGop110NetcMacToXgmii(b, 2, phase)
      e == IF "mac3_sgmii" \in c THEN MvGop110NetcMacToSgmii(d, 3, phase)
           ELSE MvGop110NetcMiiMode(MvGop110NetcMacToXgmii(d, 3, phase), "mac3_rgmii" \in c)
      f == MvGop110NetcActivePort(e, {0, 2, 3})
  IN IF phase = 1 THEN f ELSE MvGop110NetcGopReset(MvGop110NetcGopClockLogicSet(f))

(* ---------------------- buffer pool and classifier --------------------- *)

RxqReset == [descs |-> FALSE, disabled |-> FALSE, long |-> 0, short |-> 0]
TxqReset == [descs |-> FALSE, drain |-> FALSE, pref |-> -1]
PoolReset == [made |-> FALSE, ctrl |-> {}, buffers |-> 0, size |-> FALSE]

Mvpp2BmPoolHwCreate(pool) == [pool EXCEPT !.made = TRUE]
Mvpp2BmPoolCtrl(pool, cmd) == [pool EXCEPT !.ctrl = @ \cup {cmd}]
Mvpp2BmPoolBufsizeSet(pool) == [pool EXCEPT !.size = TRUE]
Mvpp2BmPoolPut(pool) == [pool EXCEPT !.buffers = @ + 1]

\* Mvpp2BmStop: as many allocations as there are buffers, then stop.
Mvpp2BmStop(pool) ==
  Mvpp2BmPoolCtrl([pool EXCEPT !.buffers = IF @ > MVPP2_BM_SIZE THEN @ - MVPP2_BM_SIZE ELSE 0],
                  "stop")

\* Pp2DxeBmPoolInit, whose status nobody looks at; Pp2DxeBmStart.
Pp2DxeBmPoolInit(d, F) == IF "poolmem" \in F THEN d ELSE [d EXCEPT !.pool = Mvpp2BmPoolHwCreate(@)]
Pp2DxeBmStart(d) ==
  [d EXCEPT !.pool = [Mvpp2BmPoolBufsizeSet(Mvpp2BmPoolCtrl(@, "start")) EXCEPT
                        !.buffers = @ + MVPP2_BM_SIZE]]

\* Mvpp2ClsInit: on, every lookup empty; then a port's entry and its queue.
Mvpp2ClsLookupWrite(d, id, rxq) == [d EXCEPT !.lookup[id] = rxq]
Mvpp2ClsInit(d) == [d EXCEPT !.cls = TRUE, !.lookup = [i \in Ids |-> 0]]
Mvpp2ClsPortConfig(d, c) == Mvpp2ClsLookupWrite(d, c.id, c.rxq)
Mvpp2ClsOversizeRxqSet(d, c) == [d EXCEPT !.oversize[c.id] = c.rxq]

Mvpp2AxiConfig(d) == [d EXCEPT !.axi = TRUE]
Mvpp2RxFifoInit(d) == [d EXCEPT !.fifo = TRUE]

(* ------------------------------- queues -------------------------------- *)

Mvpp2RxqLongPoolSet(d, c) == [d EXCEPT !.rxq[c.rxq].long = MVPP2_BM_POOL]
Mvpp2RxqShortPoolSet(d, c) == [d EXCEPT !.rxq[c.rxq].short = MVPP2_BM_POOL]
Mvpp2IngressEnable(d, c) == [d EXCEPT !.rxq[c.rxq].disabled = FALSE]
Mvpp2IngressDisable(d, c) == [d EXCEPT !.rxq[c.rxq].disabled = TRUE]
Mvpp2EgressEnable(d, c) ==
  [d EXCEPT !.egress[Mvpp2EgressPort(c.id)] = d.txq[Mvpp2TxqPhys(c.id, 0)].descs]

\* Mvpp2EgressDisable gives up after a second: a queue may go on.
Mvpp2EgressDisable(d, c, stuck) ==
  [d EXCEPT !.egress[Mvpp2EgressPort(c.id)] = @ /\ stuck]
Mvpp2TxqDrainSet(d, c) == [d EXCEPT !.txq[Mvpp2TxqPhys(c.id, 0)].drain = TRUE]
Mvpp2DefaultsSet(d, c) == [d EXCEPT !.sched = @ \cup {Mvpp2EgressPort(c.id)}, !.irq = @ \ {c.id}]

\* Mvpp2RxqHwInit with the packet offset and the thresholds that go with it.
Mvpp2RxqHwInit(d, c) == [d EXCEPT !.rxq[c.rxq].descs = TRUE]

\* Mvpp2TxqHwInit: drain off, sixteen descriptors of the prefetch buffer.
DescPerTxq == 16
Mvpp2TxqHwInit(d, c) ==
  [d EXCEPT !.txq[Mvpp2TxqPhys(c.id, 0)] =
     [descs |-> TRUE, drain |-> FALSE, pref |-> c.id * MVPP2_MAX_TXQ * DescPerTxq]]
Mvpp2AggrTxqHwInit(d) == [d EXCEPT !.aggr = TRUE]

Pp2DxeStartDev(d, c) ==
  LET a == Mvpp2ClsOversizeRxqSet(Mvpp2ClsPortConfig(d, c), c)
      b == [a EXCEPT !.gmac[c.gop] = MvGop110PortEnable(MvGop110PortEventsMask(@, c.mode), c.mode)]
  IN Mvpp2IngressEnable(Mvpp2EgressEnable(b, c), c)

(* ----------------------------- the driver ------------------------------ *)

Here(k) == k \in DOMAIN drv.ctx /\ drv.status = "SUCCESS" /\ ~drv.exiting
Fault == hist.faults < hist.max.faults

\* Pp2DxeSnpInstall, Pp2DxeParsePortPcd and the numbers of the loop.
Pp2DxeParsePortPcd(k) ==
  [id |-> drv.board[k].id, gop |-> drv.board[k].gop, mode |-> drv.board[k].mode,
   speed |-> drv.board[k].speed, phy |-> drv.board[k].phy, rxq |-> FirstRxq(k),
   state |-> "Stopped", initialized |-> FALSE, late |-> FALSE, rxqs |-> FALSE, event |-> TRUE,
   halted |-> FALSE]

\* Pp2DxeInitialise.  An error of a later port leaves the interfaces of
\* those before it, and the network complex as it was.
Collected(n) == UNION {MvpPp2xGop110NetcCfgCreate(drv.board[k]) : k \in 1 .. n}
Pp2DxeInitialise ==
  /\ drv.status = "none"
  /\ \E F \in {{}} \cup (IF Fault THEN {{"early"}, {"poolmem"}, {"port"}, {"event"}} ELSE {}) :
     \E bad \in DOMAIN drv.board :
       LET n == Len(drv.board)
           common == Pp2DxeBmStart(Mvpp2ClsInit(Mvpp2RxFifoInit(
                        Pp2DxeBmPoolInit(Mvpp2AxiConfig(dev), F))))
           good == IF F \cap {"port", "event"} = {} THEN n ELSE bad - 1
           macs == IF "event" \in F THEN bad ELSE good
           an[k \in 0 .. macs] == IF k = 0 THEN dev.misc
                                  ELSE MvGop110FlCfg(an[k - 1], drv.board[k])
           set == [common EXCEPT !.misc = an[macs],
                     !.gmac = [g \in Gops |->
                        IF \E k \in 1 .. macs : drv.board[k].gop = g
                        THEN MvGop110PortInit(@[g],
                               drv.board[CHOOSE k \in 1 .. macs : drv.board[k].gop = g])
                        ELSE @[g]]]
           phased == MvGop110NetcInit(MvGop110NetcInit(set.netc, Collected(n), 1), Collected(n), 2)
       IN /\ F = {} => bad = 1
          /\ hist' = [hist EXCEPT !.faults = @ + Cardinality(F), !.fault = F]
          /\ IF "early" \in F
               THEN drv' = [drv EXCEPT !.status = "OUT_OF_RESOURCES"] /\ UNCHANGED dev
             ELSE /\ drv' = [drv EXCEPT
                       !.ctx = [k \in 1 .. macs |->
                                  [Pp2DxeParsePortPcd(k) EXCEPT !.event = k <= good]],
                       !.status = IF good = n THEN "SUCCESS" ELSE "OUT_OF_RESOURCES"]
                  /\ dev' = IF good = n THEN [set EXCEPT !.netc = phased] ELSE set

Pp2SnpStart(k) ==
  /\ Here(k) /\ drv.ctx[k].state = "Stopped" /\ hist.calls < hist.max.calls
  /\ drv' = [drv EXCEPT !.ctx[k].state = "Started"]
  /\ hist' = [hist EXCEPT !.calls = @ + 1] /\ UNCHANGED dev

\* Pp2DxePhyInitialize: without an address in the list there is no PHY.
Pp2DxePhyInitialize(k, F) ==
  IF "locate" \in F \/ (drv.ctx[k].phy /\ "phy" \in F) THEN "DEVICE_ERROR" ELSE "SUCCESS"

\* Pp2DxeLatePortInitialize, Pp2DxeOpen: all off, the queues, then all on.
Pp2DxeLatePortInitialize(c, F, stuck) ==
  LET a == Mvpp2EgressDisable(dev, c, stuck)
      b == [a EXCEPT !.gmac[c.gop] = MvGop110PortDisable(MvGop110PortEventsMask(@, c.mode), c.mode)]
      q == Mvpp2DefaultsSet(Mvpp2IngressDisable(b, c), c)
  IN IF F \cap {"txqs", "rxqs"} # {} THEN [dev |-> b, status |-> "OUT_OF_RESOURCES"]
     ELSE IF "parser" \in F THEN [dev |-> q, status |-> "DEVICE_ERROR"]
     ELSE [dev |-> Pp2DxeStartDev(Mvpp2AggrTxqHwInit(Mvpp2TxqHwInit(Mvpp2RxqHwInit(q, c), c)), c),
           status |-> "SUCCESS"]

\* Pp2DxeSnpInitialize up to the end of Pp2DxeLatePortInitialize: from
\* here on packets may come, although the pools are set only afterwards.
Pp2DxeSnpInitialize(k) ==
  /\ Here(k) /\ drv.ctx[k].state = "Started" /\ drv.busy = 0 /\ hist.calls < hist.max.calls
  /\ \E F \in {{}} \cup (IF Fault THEN {{"locate"}, {"phy"}, {"txqs"}, {"rxqs"}, {"parser"}}
                         ELSE {}), stuck \in BOOLEAN :
       LET c == drv.ctx[k]
           tried == [c EXCEPT !.state = "Initialized", !.initialized = TRUE]
           r == Pp2DxeLatePortInitialize(c, F, stuck)
           none == Pp2DxePhyInitialize(k, F) # "SUCCESS"
       IN /\ hist' = [hist EXCEPT !.calls = @ + 1, !.faults = @ + Cardinality(F),
                        !.failed = IF ~c.initialized /\ (none \/ r.status # "SUCCESS")
                                   THEN @ \cup {k} ELSE @]
          /\ c.initialized => F = {} /\ ~stuck
          /\ IF c.initialized \/ none
               THEN drv' = [drv EXCEPT !.ctx[k] = tried] /\ UNCHANGED dev
             ELSE /\ drv' = [drv EXCEPT !.busy = IF r.status = "SUCCESS" THEN k ELSE 0,
                       !.ctx[k] = [tried EXCEPT !.rxqs = F \cap {"txqs", "rxqs"} = {}]]
                  /\ dev' = r.dev

\* Pp2DxeLateInitialize, the end.
Pp2DxeLateInitialize ==
  /\ drv.busy # 0
  /\ LET k == drv.busy
         c == drv.ctx[k] IN
     /\ dev' = Mvpp2RxqShortPoolSet(Mvpp2RxqLongPoolSet(dev, c), c)
     /\ drv' = [drv EXCEPT !.busy = 0, !.ctx[k].late = TRUE]
  /\ UNCHANGED hist

\* Pp2SnpStop and Pp2SnpShutdown: the hardware goes on; Shutdown changes nothing.
Pp2SnpStop(k) ==
  /\ Here(k) /\ drv.ctx[k].state # "Stopped" /\ drv.busy = 0 /\ hist.calls < hist.max.calls
  /\ drv' = [drv EXCEPT !.ctx[k].state = "Stopped"]
  /\ hist' = [hist EXCEPT !.calls = @ + 1] /\ UNCHANGED dev
Pp2SnpShutdown(k) ==
  /\ Here(k) /\ drv.busy = 0 /\ hist.calls < hist.max.calls
  /\ hist' = [hist EXCEPT !.calls = @ + 1] /\ UNCHANGED <<drv, dev>>

\* Pp2DxeHalt, an event of each port: the pool first, once, and the port.
\* Of a port that was never initialized the queues are read through a null
\* pointer: what is written then is not modelled, the MAC is turned off.
Pp2DxeHalt(k) ==
  /\ drv.status = "SUCCESS" /\ drv.busy = 0
  /\ k \in DOMAIN drv.ctx /\ drv.ctx[k].event /\ ~drv.ctx[k].halted
  /\ \E stuck \in BOOLEAN :
       LET c == drv.ctx[k]
           a == [dev EXCEPT !.pool = IF drv.exiting THEN @ ELSE Mvpp2BmStop(@)]
           b == Mvpp2TxqDrainSet(a, c)
           d == IF c.rxqs THEN Mvpp2IngressDisable(b, c) ELSE b
           e == Mvpp2EgressDisable(d, c, stuck)
       IN /\ drv' = [drv EXCEPT !.exiting = TRUE, !.ctx[k].halted = TRUE]
          /\ dev' = [e EXCEPT !.gmac[c.gop] =
                       MvGop110PortDisable(MvGop110PortEventsMask(@, c.mode), c.mode)]
          /\ hist' = [hist EXCEPT !.null = @ \cup IF c.rxqs THEN {} ELSE {k},
                        !.stuck = @ \/ e.egress[Mvpp2EgressPort(c.id)]]

(* ----------------------------- the hardware ---------------------------- *)

Receiving(c) ==
  LET q == dev.rxq[dev.lookup[c.id]]
      g == dev.gmac[c.gop] IN
  /\ "enable" \in g.ctrl0 /\ "reset" \notin g.ctrl2 /\ dev.cls
  /\ q.descs /\ ~q.disabled
  /\ q.long # 0 \/ (dev.pool.ctrl = {"start"} /\ dev.pool.buffers > 0)
Frame ==
  \E k \in DOMAIN drv.ctx :
    /\ Receiving(drv.ctx[k]) /\ hist.frames < hist.max.frames
    /\ dev' = [dev EXCEPT !.pool.buffers = @ - 1]
    /\ hist' = [hist EXCEPT !.frames = @ + 1, !.wild = @ \/ ~dev.pool.made,
                  !.after = @ \/ drv.exiting,
                  !.strange = @ \/ dev.rxq[dev.lookup[drv.ctx[k].id]].long # MVPP2_BM_POOL]
    /\ UNCHANGED drv

\* Pp2SnpReceive gives a buffer back.
Refill ==
  \E k \in DOMAIN drv.ctx :
    /\ Here(k) /\ drv.ctx[k].state = "Initialized" /\ drv.ctx[k].late /\ drv.busy = 0
    /\ dev.pool.buffers < MVPP2_BM_SIZE
    /\ dev' = [dev EXCEPT !.pool = Mvpp2BmPoolPut(@)] /\ UNCHANGED <<drv, hist>>

(* ---------------------------- specification ---------------------------- *)

Init ==
  /\ \E board \in Boards :
       drv = [board |-> board, ctx |-> <<>>, status |-> "none", busy |-> 0, exiting |-> FALSE]
  /\ dev = [gmac |-> [g \in Gops |-> GmacReset], netc |-> NetcReset, misc |-> {},
            pool |-> PoolReset, cls |-> FALSE, lookup |-> [i \in Ids |-> 0],
            oversize |-> [i \in Ids |-> 0], axi |-> FALSE, fifo |-> FALSE, aggr |-> FALSE,
            rxq |-> [q \in Rxqs |-> RxqReset], txq |-> [q \in Txqs |-> TxqReset],
            egress |-> [e \in Egresses |-> FALSE], sched |-> {}, irq |-> Ids]
  /\ \E max \in Bounds :
       hist = [max |-> max, faults |-> 0, calls |-> 0, frames |-> 0, fault |-> {}, failed |-> {},
               null |-> {}, wild |-> FALSE, after |-> FALSE, strange |-> FALSE, stuck |-> FALSE]

Next ==
  \/ Pp2DxeInitialise \/ Pp2DxeLateInitialize \/ Frame \/ Refill
  \/ \E k \in DOMAIN drv.ctx : \/ Pp2SnpStart(k) \/ Pp2DxeSnpInitialize(k) \/ Pp2SnpStop(k)
                               \/ Pp2SnpShutdown(k) \/ Pp2DxeHalt(k)

Spec == Init /\ [][Next]_vars

(* ------------------------------ properties ----------------------------- *)

\* Two ports share no queue, no scheduler and no part of the prefetch
\* buffer; a port that was set up gets the packets of its own lookup
\* (Mvpp2Lib.c:2664, 3529; Pp2Dxe.c:1246).
Mine(c) == {c.rxq} \X {"rxq"} \cup {Mvpp2TxqPhys(c.id, 0)} \X {"txq"}
             \cup {Mvpp2EgressPort(c.id)} \X {"egress"}
Prefetch(c) == LET p == dev.txq[Mvpp2TxqPhys(c.id, 0)].pref IN
               IF p < 0 THEN {} ELSE p .. p + DescPerTxq - 1
PortsApart ==
  \A j, k \in DOMAIN drv.ctx :
    LET c == drv.ctx[j]
        e == drv.ctx[k] IN
    /\ j # k => Mine(c) \cap Mine(e) = {} /\ Prefetch(c) \cap Prefetch(e) = {}
    /\ c.late => /\ dev.lookup[c.id] = c.rxq /\ dev.oversize[c.id] = c.rxq
                 /\ dev.rxq[c.rxq].long = MVPP2_BM_POOL
                 /\ Mvpp2EgressPort(c.id) \in dev.sched /\ c.id \notin dev.irq

\* After the driver has started each gigabit port is out of reset in the
\* mode that the platform asks for, in its MAC and in the network complex
\* (MAC 0 is released only for XAUI and RXAUI).  No port has padding off
\* or its speed fixed: those writes go elsewhere (Mvpp2Lib.c:4385, 4703).
MacsAsAsked ==
  drv.status = "SUCCESS" =>
    \A k \in DOMAIN drv.ctx :
      LET c == drv.ctx[k]
          g == dev.gmac[c.gop] IN
      /\ c.mode \in Gig =>
           /\ "reset" \notin g.ctrl2 /\ ("pcs" \in g.ctrl2) = (c.mode # "RGMII")
           /\ ("pcs" \in g.an) = ("pcs" \in g.ctrl2)
           /\ ("clk125" \in g.ctrl2) = (c.mode = "RGMII")
           /\ c.mode # "RGMII" /\ c.gop = 0 => ~g.xlg
           /\ ("an_speed" \in g.an) = (c.mode # "SGMII" \/ c.speed # 2500)
           /\ "pad" \notin g.ctrl2
      /\ c.mode \notin Gig => g = GmacReset
      /\ c.gop # 0 => (c.gop \in dev.netc.sgmii) = (c.mode = "SGMII")
      /\ c.gop = 3 => dev.netc.rgmii = (c.mode = "RGMII")
      /\ c.gop \in dev.netc.released \/ (c.gop = 0 /\ c.mode \in Gig)
      /\ dev.netc.out /\ dev.netc.clock /\ c.gop \in dev.netc.active

\* Once the first event of the end of the boot services has run no packet
\* is received any more on any port; after the last one no MAC is on and
\* nothing is sent, unless the queue did not stop in time.  Memory is read
\* through a null pointer only of a port that was not set up
\* (Pp2Dxe.c:639, 654).
HaltedIsQuiet ==
  /\ ~hist.after
  /\ \A k \in hist.null : ~drv.ctx[k].late
  /\ \A k \in DOMAIN drv.ctx : drv.ctx[k].halted =>
       /\ "enable" \notin dev.gmac[drv.ctx[k].gop].ctrl0
       /\ dev.egress[Mvpp2EgressPort(drv.ctx[k].id)] => hist.stuck
       /\ drv.ctx[k].late => dev.rxq[drv.ctx[k].rxq].disabled

\* An interface that is initialized can receive and send, unless its first
\* initialization failed, which every later one hides (Pp2Dxe.c:557).
\* Packets never come from a pool that is not the driver's, although the
\* port is on before its pools are set; a pool without memory is used only
\* when its allocation failed (Pp2Dxe.c:1188).
InitializedWorks ==
  /\ \A k \in DOMAIN drv.ctx :
       LET c == drv.ctx[k] IN
       /\ c.state = "Initialized" /\ k # drv.busy /\ ~drv.exiting /\ k \notin hist.failed =>
            /\ c.late /\ dev.rxq[c.rxq].descs /\ ~dev.rxq[c.rxq].disabled
            /\ dev.txq[Mvpp2TxqPhys(c.id, 0)].descs /\ ~dev.txq[Mvpp2TxqPhys(c.id, 0)].drain
            /\ dev.egress[Mvpp2EgressPort(c.id)] /\ dev.aggr
            /\ c.mode \in Gig => "enable" \in dev.gmac[c.gop].ctrl0
       /\ c.late => k \notin hist.failed
  /\ ~hist.strange /\ (hist.wild => "poolmem" \in hist.fault)
  /\ dev.pool.buffers <= MVPP2_BM_SIZE

=============================================================================
