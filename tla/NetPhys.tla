------------------------------- MODULE NetPhys -------------------------------
(***************************************************************************)
(* The two drivers of Marvell's 88E1xxx network PHYs, one at a time.       *)
(*                                                                         *)
(* Drivers/Net/MarvellYukonDxe/e1000phy.c and the part of if_msk.c that    *)
(* stands between the PHY and the MAC: the PHY is probed, brought to a     *)
(* known state and told to negotiate; a timer looks at it, programs the    *)
(* MAC for what was negotiated, and starts anew when no link comes.        *)
(* Registers are read one by one while the partner may come, go or change. *)
(*                                                                         *)
(* Drivers/Net/MvMdioDxe and Drivers/Net/Phy/MvPhyDxe: an 88E1512 is       *)
(* configured for its connection to the MAC, reset and asked for its link, *)
(* register by register over a management bus that may not answer.  No     *)
(* caller looks at the status of an access: a read that fails leaves what  *)
(* was in the variable.                                                    *)
(***************************************************************************)
EXTENDS Integers, Sequences, FiniteSets

CONSTANTS
  Phys,           \* [model, fiber, pmd, gige]: PHYs e1000phy.c may find
  Partners,       \* [speed, full, pause, asym]: their link partners
  mii_anegticks,  \* ticks without link before the PHY is reset
  E1000Bounds,    \* bounds: changes, faults
  Connections,        \* of the 88E1512 to the MAC
  PcdPhyDeviceIds,    \* the platform's list, as the driver's table is indexed
  PcdPhyStartupAutoneg,
  Patience,           \* looks before a wait gives up
  Bounds              \* bounds: faults, changes, polls

VARIABLES
  drv,    \* the service or call in progress, and what the driver keeps
  dev,    \* the PHY with its link, its partner and the MAC
  call,   \* what the MAC driver knows of an 88E1512: PHY_DEVICE
  hist    \* history

ConstantsOK ==
  /\ mii_anegticks \in Nat \ {0}
  /\ \A p \in Phys : p.fiber \in BOOLEAN /\ p.gige \in BOOLEAN
  /\ \A p \in Partners : p.speed \in {10, 100, 1000}
  /\ Connections \subseteq {"RGMII", "RGMII_ID", "RGMII_RXID", "RGMII_TXID", "SGMII", "RTBI"}
  /\ PcdPhyStartupAutoneg \in BOOLEAN /\ Patience \in Nat \ {0}
  /\ \A i \in DOMAIN PcdPhyDeviceIds : PcdPhyDeviceIds[i] \in Nat

\* A register access may time out.
Faulty == hist.faults < hist.max.faults

(* ----------------------- e1000phy.c and the MAC ----------------------- *)

Nobody == [speed |-> 0, full |-> FALSE, pause |-> FALSE, asym |-> FALSE]
NoMedia == [valid |-> FALSE, active |-> FALSE, sub |-> "none",
            fdx |-> FALSE, flag0 |-> FALSE, flag1 |-> FALSE]

(* ------------------------------- the PHY ------------------------------- *)

\* What is agreed with the partner is kept until the link is lost.
LinkLost(d) == [d EXCEPT !.link = FALSE, !.agreed = Nobody]

Plug(p) ==
  /\ hist.changes < hist.max.changes /\ p # dev.partner
  /\ dev' = [LinkLost(dev) EXCEPT !.partner = p, !.neg = "running"]
  /\ hist' = [hist EXCEPT !.changes = @ + 1, !.quiet = FALSE]
  /\ UNCHANGED drv

\* Negotiation ends with a link, or hangs until it is restarted.
Negotiate ==
  /\ dev.neg = "running" /\ dev.partner # Nobody
  /\ hist' = [hist EXCEPT !.quiet = FALSE]
  /\ dev' = [dev EXCEPT !.neg = "done", !.link = TRUE, !.agreed = dev.partner]
  /\ UNCHANGED drv
Hang ==
  /\ dev.neg = "running" /\ dev.partner # Nobody /\ hist.faults < hist.max.faults
  /\ hist' = [hist EXCEPT !.quiet = FALSE, !.faults = @ + 1]
  /\ dev' = [dev EXCEPT !.neg = "hung"]
  /\ UNCHANGED drv

\* A page is selected through E1000_EADR; the reset register is on page 0.
PageOp(n) == [do |-> "page", page |-> n]
Write(page) == [do |-> "write", page |-> page]
Save == [do |-> "save", page |-> 0]
Restore == [do |-> "restore", page |-> 0]
CrReset == [do |-> "reset", page |-> 0]

(* ------------------------- reset and negotiation ----------------------- *)

\* The registers that e1000phy_reset goes through, each on its page.
FiberOps(p) ==
  <<Write(0)>>
  \o (IF p.model # "E1112" THEN <<>>
      ELSE <<Save, PageOp(2), Write(2)>>
           \o (IF p.pmd = "P" THEN <<PageOp(1), Write(1)>> ELSE <<>>) \o <<Restore>>)
CopperOps(p) ==
  (IF p.model = "E3016" THEN <<Write(0)>> ELSE <<>>) \o <<Write(0)>>
  \o (IF p.model \in {"E1116", "E1149"} THEN <<PageOp(2), Write(2), PageOp(0)>> ELSE <<>>)
LedOps(p) ==
  CASE p.model \in {"E3082", "E1112", "E1118"} -> <<>>
    [] p.model = "E1116" -> <<Save, PageOp(3), Write(3), Write(3), Restore>>
    [] p.model = "E3016" -> <<Write(0), Write(0), Write(0)>>
    [] OTHER -> <<Write(0)>>
e1000phy_reset(p) ==
  (IF p.fiber THEN FiberOps(p) ELSE CopperOps(p)) \o LedOps(p) \o <<CrReset>>

AttachOps(p) == IF p.model = "E1149" THEN <<PageOp(0)>> ELSE <<>>

\* A register access; a read that times out is 0, also that of the page.
Fault == [hist EXCEPT !.faults = @ + 1, !.quiet = FALSE]
NoteWrite(op) ==
  [hist EXCEPT !.stray = @ \/ (op.do \in {"write", "reset"} /\ dev.page # op.page)]

Access ==
  /\ drv.at = "ops" /\ drv.ops # <<>>
  /\ LET op == Head(drv.ops)
         rest == [drv EXCEPT !.ops = Tail(@)]
     IN /\ dev' = CASE op.do = "page" -> [dev EXCEPT !.page = op.page]
                    [] op.do = "restore" -> [dev EXCEPT !.page = drv.saved]
                    [] op.do = "reset" -> [LinkLost(dev) EXCEPT !.neg = "running"]
                    [] OTHER -> dev
        /\ \/ /\ hist' = IF op.do = "reset" THEN [NoteWrite(op) EXCEPT !.quiet = FALSE]
                         ELSE NoteWrite(op)
              /\ drv' = IF op.do = "save" THEN [rest EXCEPT !.saved = dev.page] ELSE rest
           \/ /\ op.do = "save" /\ Faulty
              /\ hist' = Fault /\ drv' = [rest EXCEPT !.saved = 0]

\* mii_phy_auto: both pause abilities are announced, and it begins.
e1000phy_mii_phy_auto ==
  /\ drv.at = "ops" /\ drv.ops = <<>> /\ drv.then = "auto"
  /\ dev' = [LinkLost(dev) EXCEPT !.neg = "running", !.announced = TRUE]
  /\ hist' = [hist EXCEPT !.quiet = FALSE, !.stray = @ \/ dev.page # 0]
  /\ drv' = [drv EXCEPT !.at = "sr"]

(* --------------------------- probe and attach -------------------------- *)

\* e1000_probe_and_attach: nothing there, an unknown PHY, or one of the table.
e1000_probe_and_attach ==
  /\ drv.at = "probe" /\ UNCHANGED dev
  /\ \/ /\ dev.known /\ UNCHANGED hist
        /\ drv' = [drv EXCEPT !.at = "ops", !.then = "idle",
                              !.ops = AttachOps(dev.phy) \o e1000phy_reset(dev.phy)]
     \/ ~dev.known /\ UNCHANGED hist /\ drv' = [drv EXCEPT !.at = "refused"]
     \/ Faulty /\ hist' = Fault /\ drv' = [drv EXCEPT !.at = "refused"]

e1000phy_attach ==
  /\ drv.at = "ops" /\ drv.ops = <<>> /\ drv.then = "idle"
  /\ drv' = [drv EXCEPT !.at = "attached"]
  /\ UNCHANGED <<dev, hist>>

\* The interface is started: e1000phy_mediachg forgets the media and begins.
e1000phy_mediachg ==
  /\ drv.at = "attached"
  /\ drv' = [drv EXCEPT !.at = "ops", !.ops = <<>>, !.then = "auto", !.cmd = "MII_MEDIACHG",
                        !.media = NoMedia]
  /\ UNCHANGED <<dev, hist>>

(* ------------------------------ the service ---------------------------- *)

\* The timer's tick: whether there is a link, and for how long there was none.
e1000phy_tick ==
  /\ drv.at = "idle" /\ UNCHANGED dev
  /\ hist' = [hist EXCEPT !.quiet = TRUE]
  /\ LET now == [drv EXCEPT !.cmd = "MII_TICK", !.at = "sr"] IN
     drv' = IF dev.link THEN [now EXCEPT !.mii_ticks = 0]
            ELSE IF drv.mii_ticks = 0 \/ drv.mii_ticks + 1 <= mii_anegticks
              THEN [now EXCEPT !.mii_ticks = @ + 1]
            ELSE [now EXCEPT !.mii_ticks = 0, !.at = "ops", !.then = "auto",
                             !.ops = e1000phy_reset(dev.phy)]

\* e1000phy_status, register after register: link, then speed and duplex,
\* then the pause abilities of both sides.
StatusLink ==
  /\ drv.at = "sr" /\ UNCHANGED dev
  /\ LET next == [drv EXCEPT !.at = "ssr", !.media = [NoMedia EXCEPT !.valid = TRUE]] IN
     \/ drv' = [next EXCEPT !.media.active = dev.link] /\ UNCHANGED hist
     \/ Faulty /\ hist' = Fault /\ drv' = next

SubType(speed, fiber) ==
  CASE fiber -> "1000_SX" [] speed = 1000 -> "1000_T" [] speed = 100 -> "100_TX"
    [] OTHER -> "10_T"
StatusSpeed ==
  /\ drv.at = "ssr" /\ UNCHANGED dev
  /\ \/ /\ UNCHANGED hist
        /\ drv' = IF ~dev.link THEN [drv EXCEPT !.at = "update"]
                  ELSE [drv EXCEPT !.at = IF dev.phy.fiber THEN "update" ELSE "lpar",
                          !.media.sub = SubType(dev.agreed.speed, dev.phy.fiber),
                          !.media.fdx = dev.agreed.full]
     \/ Faulty /\ hist' = Fault /\ drv' = [drv EXCEPT !.at = "update"]

\* With both abilities announced: FLAG0 to receive, FLAG1 to send pauses.
StatusPause ==
  /\ drv.at = "lpar" /\ UNCHANGED dev
  /\ LET next == [drv EXCEPT !.at = "update"]
         both == dev.announced /\ dev.agreed.pause
     IN \/ /\ drv' = [next EXCEPT !.media.flag0 = both \/ (dev.announced /\ dev.agreed.asym),
                                  !.media.flag1 = both]
           /\ UNCHANGED hist
        \/ Faulty /\ hist' = Fault /\ drv' = next

\* msk_miibus_statchg: the MAC is programmed for the media, or stopped.
LinkFlag(m, gige) ==
  m.valid /\ m.active /\ (m.sub \in {"10_T", "100_TX"} \/ (m.sub # "none" /\ gige))
SpeedOf(m) == IF m.sub \in {"1000_T", "1000_SX"} THEN 1000 ELSE IF m.sub = "100_TX" THEN 100 ELSE 10
msk_miibus_statchg(m) ==
  IF LinkFlag(m, dev.phy.gige)
    THEN [on |-> TRUE, speed |-> SpeedOf(m), full |-> m.fdx,
          rx |-> m.fdx /\ m.flag0, tx |-> m.fdx /\ m.flag1, react |-> m.fdx /\ m.flag0]
  ELSE [dev.mac EXCEPT !.on = FALSE]

mii_phy_update ==
  /\ drv.at = "update" /\ UNCHANGED hist
  /\ drv' = [drv EXCEPT !.at = "idle", !.known = drv.media,
               !.flag = IF drv.media # drv.known \/ drv.cmd = "MII_MEDIACHG"
                          THEN LinkFlag(drv.media, dev.phy.gige) ELSE @]
  /\ dev' = IF drv.media # drv.known \/ drv.cmd = "MII_MEDIACHG"
              THEN [dev EXCEPT !.mac = msk_miibus_statchg(drv.media)] ELSE dev

e1000phy_service ==
  \/ Access \/ e1000phy_mii_phy_auto \/ StatusLink \/ StatusSpeed \/ StatusPause
  \/ mii_phy_update
E1000Work == e1000_probe_and_attach \/ e1000phy_attach \/ e1000phy_mediachg \/ e1000phy_service

E1000Init ==
  \E p \in Phys, there \in BOOLEAN, q \in Partners \cup {Nobody}, max \in E1000Bounds :
    /\ drv = [at |-> "probe", ops |-> <<>>, then |-> "idle", cmd |-> "none", saved |-> 0,
              media |-> NoMedia, known |-> NoMedia, mii_ticks |-> 0, flag |-> FALSE]
    /\ dev = [phy |-> p, known |-> there, page |-> IF p.model = "E1149" THEN 4 ELSE 0,
              partner |-> q, link |-> FALSE, agreed |-> Nobody, neg |-> "running",
              announced |-> FALSE,
              mac |-> [on |-> FALSE, speed |-> 10, full |-> FALSE, rx |-> FALSE, tx |-> FALSE,
                       react |-> FALSE]]
    /\ hist = [max |-> max, changes |-> 0, faults |-> 0, quiet |-> FALSE, stray |-> FALSE]

E1000Next ==
  \/ E1000Work \/ e1000phy_tick \/ Negotiate \/ Hang
  \/ \E p \in Partners \cup {Nobody} : Plug(p)

(* ------------------------------ properties ----------------------------- *)

\* After a tick during which nothing changed and no read failed, the MAC
\* runs if and only if there is a link it can serve, at the speed and
\* duplex that were agreed, and it sends and obeys pauses as 802.3 says
\* for a side that announces both abilities (on fiber it does neither).
MacFollows ==
  drv.at = "idle" /\ hist.quiet =>
    LET usable == dev.link /\ (dev.phy.gige \/ (~dev.phy.fiber /\ dev.agreed.speed # 1000))
        a == dev.agreed
        pauses == a.full /\ ~dev.phy.fiber
    IN /\ dev.mac.on = usable /\ drv.flag = usable
       /\ usable =>
            /\ dev.mac.speed = (IF dev.phy.fiber THEN 1000 ELSE a.speed) /\ dev.mac.full = a.full
            /\ dev.mac.tx = (pauses /\ a.pause)
            /\ dev.mac.rx = (pauses /\ (a.pause \/ a.asym))
            /\ dev.mac.react = dev.mac.rx

\* No register is written on another page than the one it is meant for,
\* whatever page the PHY was left on.
PagesKept == ~hist.stray

\* A partner that is there does not stay without a link: a negotiation
\* that hangs is started anew by the timer.
Waiting == dev.known /\ drv.at # "refused" /\ dev.partner # Nobody /\ ~dev.link

(* --------------------- the 88E1512 and its bus --------------------- *)

MV_PHY_DEVICE_1512 == 0
Delays == {"RX_DELAY", "TX_DELAY"}
Modes == {"COPPER_RGMII", "FIBER_RGMII", "SGMII_NO_CLK", "RTBI_7", "COPPER_RTBI", "STRAPPED"}

(* --------------------------- the management bus ------------------------ *)

\* MdioOperation: when the bus is busy nothing is sent; when the answer
\* does not come in time, a write may still have happened.
MdioOperation(write, reg, value, held) ==
  LET done == IF write THEN [dev EXCEPT !.regs[reg] = value] ELSE dev IN
  {[dev |-> done, got |-> IF write THEN held ELSE dev.regs[reg], fault |-> FALSE]}
  \cup (IF Faulty THEN {[dev |-> d, got |-> held, fault |-> TRUE] : d \in {dev, done}} ELSE {})

\* What a write does beside changing the register.
Acts(d, reg, value) ==
  IF reg # "BMCR" THEN d
  ELSE IF "RESET" \in value THEN [d EXCEPT !.link = FALSE, !.aneg = FALSE, !.resetting = TRUE]
  ELSE IF "ANRESTART" \in value THEN [d EXCEPT !.link = FALSE, !.aneg = FALSE]
  ELSE d
Applied(o, write, reg, value) ==
  IF write /\ o.dev # dev THEN Acts(o.dev, reg, value) ELSE o.dev
Noted(o) == IF o.fault THEN [hist EXCEPT !.faults = @ + 1, !.failed = TRUE] ELSE hist

(* ---------------------------- configuration ---------------------------- *)

\* A register is read, some of its bits cleared and others set, and written.
Modify(reg, clear, set) == [do |-> "modify", reg |-> reg, clear |-> clear, set |-> set]
Page(n) == [do |-> "page", reg |-> "PAGE", page |-> n]
Reset == [do |-> "reset", reg |-> "BMCR"]

DelayOps(c) ==
  CASE c \in {"RGMII", "RGMII_ID", "RTBI"} -> <<Modify("EXT_CR", {}, Delays)>>
    [] c = "RGMII_RXID" -> <<Modify("EXT_CR", {"TX_DELAY"}, {"RX_DELAY"})>>
    [] c = "RGMII_TXID" -> <<Modify("EXT_CR", {"RX_DELAY"}, {"TX_DELAY"})>>
    [] OTHER -> <<>>
\* The 88E1111's mode: copper or fiber as the strap says, or what is asked for.
ModeOps(c) ==
  CASE c = "SGMII" -> <<Modify("EXT_SR", Modes, {"SGMII_NO_CLK", "FIBER_COPPER_AUTO"})>>
    [] c = "RTBI" -> <<Modify("EXT_SR", Modes \cup {"RES"}, {"RTBI_7", "FIBER_COPPER_AUTO"}),
                       Reset,
                       Modify("EXT_SR", Modes \cup {"RES"}, {"COPPER_RTBI", "FIBER_COPPER_AUTO"})>>
    [] OTHER -> <<[Modify("EXT_SR", Modes, {}) EXCEPT !.do = "strap"]>>
MvPhyM88e1111sConfig(c) ==
  DelayOps(c) \o ModeOps(c)
  \o <<Modify("BMCR", {"ISOLATE"}, {"ANENABLE", "ANRESTART"}), Reset, Reset>>

\* The 1512's errata are written on page 255, its mode on page 18.
SgmiiOps ==
  <<Page(255), Page(0), Page(18), Modify("MODE", {}, {"SGMII"}),
    Modify("MODE", {}, {"MODE_RESET"}), Page(0)>>
MvPhyInit1512(c) == (IF c = "SGMII" THEN SgmiiOps ELSE <<>>) \o MvPhyM88e1111sConfig(c)

\* MvPhyInit: the platform's list is walked in step with the table of the
\* driver, whose first entry is the 1512 and whose second ends it.
Matches == PcdPhyDeviceIds # <<>> /\ PcdPhyDeviceIds[1] = MV_PHY_DEVICE_1512
MvPhyInit ==
  \E c \in Connections :
    /\ drv.at = "idle" /\ call.state = "none" /\ UNCHANGED dev
    /\ hist' = [hist EXCEPT !.failed = FALSE, !.changed = FALSE]
    /\ IF Matches
         THEN /\ drv' = [drv EXCEPT !.at = "ops", !.ops = MvPhyInit1512(c), !.c = c, !.Reg = {},
                                    !.looks = 0, !.half = "read"]
              /\ call' = [call EXCEPT !.state = "init"]
       ELSE call' = [call EXCEPT !.state = "INVALID_PARAMETER"] /\ UNCHANGED drv

\* The read, then the write of what was read or of what was there before.
Changed(op, old) ==
  IF op.do = "strap"
    THEN (old \ op.clear) \cup (IF "RES" \in old THEN {"FIBER_RGMII"} ELSE {"COPPER_RGMII"})
  ELSE (old \ op.clear) \cup op.set
Configure ==
  /\ drv.at = "ops" /\ drv.ops # <<>> /\ UNCHANGED call
  /\ LET op == Head(drv.ops)
         last == [drv EXCEPT !.ops = Tail(@), !.half = "read"]
     IN \/ /\ op.do \in {"modify", "strap"} /\ drv.half = "read"
           /\ \E o \in MdioOperation(FALSE, op.reg, {}, drv.Reg) :
                /\ drv' = [drv EXCEPT !.half = "write", !.Reg = Changed(op, o.got)]
                /\ dev' = o.dev /\ hist' = Noted(o)
        \/ /\ op.do \in {"modify", "strap"} /\ drv.half = "write"
           /\ \E o \in MdioOperation(TRUE, op.reg, drv.Reg, drv.Reg) :
                /\ dev' = Applied(o, TRUE, op.reg, drv.Reg)
                /\ drv' = last /\ hist' = [Noted(o) EXCEPT !.stray =
                     @ \/ (dev.page # (IF op.reg = "MODE" THEN 18 ELSE 0))]
        \/ /\ op.do = "page"
           /\ \/ dev' = [dev EXCEPT !.page = op.page] /\ UNCHANGED hist
              \/ Faulty /\ UNCHANGED dev /\ hist' = [hist EXCEPT !.faults = @ + 1, !.failed = TRUE]
           /\ drv' = last

\* MvPhyReset: the bit is set in the register, and also in the variable,
\* which a read that fails leaves as it is.
MvPhyReset ==
  /\ drv.at = "ops" /\ drv.ops # <<>> /\ Head(drv.ops).do = "reset" /\ UNCHANGED call
  /\ LET over == [drv EXCEPT !.ops = Tail(@), !.half = "read", !.looks = 0] IN
     CASE drv.half = "read" ->
            \E o \in MdioOperation(FALSE, "BMCR", {}, {}) :
              /\ drv' = [drv EXCEPT !.half = "write", !.Reg = o.got \cup {"RESET"}]
              /\ dev' = o.dev /\ hist' = Noted(o)
       [] drv.half = "write" ->
            \E o \in MdioOperation(TRUE, "BMCR", drv.Reg, drv.Reg) :
              /\ drv' = [drv EXCEPT !.half = "wait"]
              /\ dev' = Applied(o, TRUE, "BMCR", drv.Reg) /\ hist' = Noted(o)
       [] drv.half = "wait" ->
            \E o \in MdioOperation(FALSE, "BMCR", {}, drv.Reg) :
              /\ dev' = o.dev /\ hist' = Noted(o)
              /\ drv' = IF "RESET" \in drv.Reg /\ drv.looks < Patience
                          THEN [drv EXCEPT !.looks = @ + 1, !.Reg = o.got]
                        ELSE over

(* ------------------------------- the link ------------------------------ *)

Configured ==
  /\ drv.at = "ops" /\ drv.ops = <<>>
  /\ drv' = [drv EXCEPT !.at = IF PcdPhyStartupAutoneg THEN "bmsr" ELSE "idle", !.looks = 0]
  /\ call' = IF PcdPhyStartupAutoneg THEN call ELSE [call EXCEPT !.state = "SUCCESS"]
  /\ UNCHANGED <<dev, hist>>

\* A status register is read: what it shows now, or what was in the variable.
Seen == {[link |-> dev.link, aneg |-> dev.aneg, spd |-> dev.resolved, speed |-> dev.speed,
          fault |-> FALSE]}
        \cup (IF Faulty THEN {[drv.Data EXCEPT !.fault = TRUE]} ELSE {})

\* Negotiation is waited for; a complete one counts as a link.
MvPhyWaitAneg ==
  /\ drv.at = "bmsr" /\ UNCHANGED dev
  /\ \E s \in Seen :
       /\ hist' = Noted(s)
       /\ IF s.aneg
            THEN /\ drv' = [drv EXCEPT !.Data = s, !.looks = 0,
                                    !.at = IF drv.looks = 0 THEN "bmsr2" ELSE "parse"]
                 /\ call' = IF drv.looks = 0 THEN call ELSE [call EXCEPT !.LinkUp = TRUE]
          ELSE IF drv.looks > Patience
            THEN /\ drv' = [drv EXCEPT !.Data = s, !.at = "idle"]
                 /\ call' = [call EXCEPT !.state = "TIMEOUT", !.LinkUp = FALSE]
          ELSE drv' = [drv EXCEPT !.Data = s, !.looks = @ + 1] /\ UNCHANGED call
MvPhyLinkNow ==
  /\ drv.at = "bmsr2" /\ UNCHANGED dev
  /\ \E s \in Seen :
       /\ hist' = Noted(s) /\ call' = [call EXCEPT !.LinkUp = s.link]
       /\ drv' = [drv EXCEPT !.Data = s, !.at = "parse", !.looks = 0]

\* MvPhyParseStatus: a link whose speed is not resolved yet is waited for,
\* and then LinkUp stays what it was; speed is taken in every case.
MvPhyParseStatus ==
  /\ drv.at \in {"parse", "spd"} /\ UNCHANGED dev
  /\ \E s \in Seen :
       LET waits == s.link \/ drv.at = "spd"
           told == [call EXCEPT !.state = "SUCCESS", !.Speed = IF s.spd THEN s.speed ELSE 0] IN
       /\ hist' = Noted(s)
       /\ IF waits /\ ~s.spd /\ drv.looks <= Patience
            THEN drv' = [drv EXCEPT !.Data = s, !.at = "spd", !.looks = @ + 1] /\ UNCHANGED call
          ELSE /\ drv' = [drv EXCEPT !.Data = s, !.at = "idle"]
               /\ call' = IF waits /\ ~s.spd THEN [told EXCEPT !.LinkUp = FALSE]
                          ELSE IF drv.at = "spd" THEN told
                          ELSE [told EXCEPT !.LinkUp = s.link]

\* MvPhyStatus: the latched bit is read twice.
MvPhyStatus ==
  /\ drv.at = "idle" /\ call.state \in {"SUCCESS", "TIMEOUT"} /\ hist.polls < hist.max.polls
  /\ UNCHANGED <<drv, dev>>
  /\ hist' = [hist EXCEPT !.polls = @ + 1, !.failed = FALSE, !.changed = FALSE]
  /\ call' = [call EXCEPT !.LinkUp = dev.link]

(* -------------------------------- the PHY ------------------------------ *)

\* A reset ends by itself; negotiation with a partner brings a link, whose
\* speed is shown a little later; a link may be lost.
ResetEnds ==
  /\ dev.resetting
  /\ dev' = [dev EXCEPT !.resetting = FALSE, !.regs["BMCR"] = @ \ {"RESET", "ANRESTART"}]
  /\ UNCHANGED <<drv, call, hist>>
LinkComes ==
  /\ ~dev.resetting /\ ~dev.link /\ dev.partner /\ "ANENABLE" \in dev.regs["BMCR"]
  /\ dev' = [dev EXCEPT !.link = TRUE, !.aneg = TRUE, !.resolved = FALSE,
                        !.regs["BMCR"] = @ \ {"ANRESTART"}]
  /\ hist' = [hist EXCEPT !.changed = @ \/ drv.at # "ops"]
  /\ UNCHANGED <<drv, call>>
SpeedResolves ==
  /\ dev.link /\ ~dev.resolved /\ dev' = [dev EXCEPT !.resolved = TRUE]
  /\ UNCHANGED <<drv, call, hist>>
LinkGoes ==
  /\ dev.link /\ hist.changes < hist.max.changes
  /\ dev' = [dev EXCEPT !.link = FALSE, !.partner = FALSE, !.resolved = FALSE, !.aneg = FALSE]
  /\ hist' = [hist EXCEPT !.changes = @ + 1, !.changed = TRUE]
  /\ UNCHANGED <<drv, call>>

NoData == [link |-> FALSE, aneg |-> FALSE, spd |-> FALSE, speed |-> 0, fault |-> FALSE]
MvPhyStart ==
  \E strap \in SUBSET {"RES"}, partner \in BOOLEAN, delays \in {{}, Delays}, max \in Bounds :
    /\ drv = [at |-> "idle", ops |-> <<>>, half |-> "read", Reg |-> {}, looks |-> 0, c |-> "none",
              Data |-> NoData]
    /\ dev = [page |-> 0, link |-> FALSE, aneg |-> FALSE, resolved |-> FALSE, speed |-> 1000,
              partner |-> partner, resetting |-> FALSE,
              regs |-> [BMCR |-> {"ISOLATE"}, EXT_CR |-> delays, EXT_SR |-> strap \cup {"STRAPPED"},
                        MODE |-> {}]]
    /\ call = [state |-> "none", LinkUp |-> FALSE, Speed |-> 0]
    /\ hist = [max |-> max, faults |-> 0, changes |-> 0, polls |-> 0, failed |-> FALSE,
               changed |-> FALSE, stray |-> FALSE]

MvPhyWork == Configure \/ MvPhyReset \/ Configured \/ MvPhyWaitAneg \/ MvPhyLinkNow \/ MvPhyParseStatus
Phy == ResetEnds \/ LinkComes \/ SpeedResolves \/ LinkGoes
MvPhyNext == MvPhyInit \/ MvPhyWork \/ MvPhyStatus \/ Phy

(* ------------------------------ properties ----------------------------- *)

Busy == drv.at # "idle"
Wanted(c) ==
  CASE c \in {"RGMII", "RGMII_ID", "RTBI"} -> Delays [] c = "RGMII_RXID" -> {"RX_DELAY"}
    [] c = "RGMII_TXID" -> {"TX_DELAY"} [] OTHER -> dev.regs["EXT_CR"]

\* After an initialisation in which the bus answered every time, the PHY
\* has the delays and exactly one mode, that of its connection, is not
\* isolated and negotiates, and is on page 0, where nothing but page 0's
\* registers was written.
SetUpAsConnected ==
  call.state \in {"SUCCESS", "TIMEOUT"} /\ ~Busy /\ hist.faults = 0 =>
    LET sr == dev.regs["EXT_SR"] IN
    /\ dev.page = 0 /\ ~hist.stray
    /\ dev.regs["EXT_CR"] = Wanted(drv.c)
    /\ sr \cap Modes =
         {CASE drv.c = "SGMII" -> "SGMII_NO_CLK" [] drv.c = "RTBI" -> "COPPER_RTBI"
            [] OTHER -> IF "RES" \in sr THEN "FIBER_RGMII" ELSE "COPPER_RGMII"}
    /\ "ANENABLE" \in dev.regs["BMCR"] /\ "ISOLATE" \notin dev.regs["BMCR"]
    /\ (drv.c = "SGMII") = ("SGMII" \in dev.regs["MODE"])

\* LinkUp is the state of the link when nothing changed since the call
\* that told it began and the bus answered (a link whose speed does not
\* resolve in time is told down); a link told up at the end of an
\* initialisation has its speed.
LinkIsTrue ==
  ~Busy /\ ~hist.failed /\ ~hist.changed /\ PcdPhyStartupAutoneg
  /\ call.state \in {"SUCCESS", "TIMEOUT"} =>
    /\ call.LinkUp = (dev.link /\ (drv.Data.spd \/ hist.polls > 0))
    /\ call.LinkUp /\ call.state = "SUCCESS" /\ hist.polls = 0 => call.Speed = dev.speed

=============================================================================
