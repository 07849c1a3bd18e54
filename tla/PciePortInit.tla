----------------------------- MODULE PciePortInit -----------------------------
(***************************************************************************)
(* The Hisilicon PCIe port initialisation, PcieInitDxe of the Pv660 and    *)
(* PcieInit1610: port after port is reset, clocked, programmed and trained.*)
(* The registers of a Pv660 port lie behind one window, which shows the    *)
(* configuration space, the system control registers or the stream tables; *)
(* resets and clocks take effect late, and training goes on by itself.     *)
(***************************************************************************)
EXTENDS Integers, Sequences, FiniteSets

CONSTANTS
  Lib,        \* "Pv660" or "Hi1610"
  Plans,      \* for every port [in, gen, hangs, stuck]: in the platform's mask,
              \* the device's generation (0: none), whether it hangs after
              \* equalisation, and the parts whose status never changes
  Patience    \* times a wait looks

VARIABLES
  drv,    \* the port being initialised
  dev,    \* the ports' hardware
  hist    \* history

vars == <<drv, dev, hist>>

ConstantsOK ==
  /\ Lib \in {"Pv660", "Hi1610"} /\ Patience \in Nat \ {0}
  /\ \A p \in Plans : \A i \in DOMAIN p : p[i].gen \in {0, 1, 3}
  /\ \A p, q \in Plans : Len(p) = Len(q)

Ports == DOMAIN dev
port == drv.port
hw == dev[port]
Status == {"clock", "local", "hilink", "pll"}

(* ------------------------- what the Pv660 is told ---------------------- *)

Op(do, arg) == [do |-> do, what |-> arg]
\* A group of registers in the window it is meant for.
Write(shown, arg) == [do |-> "write", window |-> shown, what |-> arg]

PcieChangeRwMode(shown) == Op("window", shown)
Sys(op) == <<PcieChangeRwMode("SYS"), op, PcieChangeRwMode("CONFIG")>>

\* Resets and clocks, each with its wait; the second wait of
\* DeassertPciePcsReset does not count.
AssertPcieCoreReset == <<Op("core", TRUE)>>
DeassertPcieCoreReset == <<Op("core", FALSE)>>
HisiPcieClockCtrl(on) == <<Op("clock", on), Op("wait", "clock")>>
AssertPciePcsReset == <<Op("pcs", TRUE), Op("wait", "local"), Op("wait", "hilink")>>
DeassertPciePcsReset == <<Op("pcs", FALSE), Op("wait", "local"), Op("waitlong", "hilink")>>

PciePcsInit == <<Op("pcswrite", "pcs")>>
PcieModeSet == Sys(Write("SYS", "mode"))
PcieSpdSet == <<Write("CONFIG", "speed")>>
PcieSpdControl == <<Write("CONFIG", "change")>>
PcieSetupRC == <<Write("CONFIG", "width"), Write("CONFIG", "bars"), Write("CONFIG", "bridge")>>
PcieEqualization == <<Write("CONFIG", "eq")>>
PcieEnableItssm == Sys(Op("train", "SYS"))

\* The stream tables are cleared while training goes on, then BAR 0, whose
\* shadow is behind CS2, and the class code.
PcieSetDb2Enable(on) == Sys(Op("cs2", on))
PcieDisabledBar0 == PcieSetDb2Enable(TRUE) \o <<Write("CS2", "bar0")>> \o PcieSetDb2Enable(FALSE)
PcieConfigContextP660 ==
  <<PcieChangeRwMode("SYS"), Op("tables", TRUE), PcieChangeRwMode("TABLES"),
    Write("TABLES", "read"), PcieChangeRwMode("SYS"), PcieChangeRwMode("TABLES"),
    Write("TABLES", "write"), PcieChangeRwMode("SYS"), Op("tables", FALSE),
    Write("SYS", "msi"), PcieChangeRwMode("CONFIG")>>
PcieWriteOwnConfig == <<Write("CONFIG", "class")>>

PciePortInit660 ==
  AssertPcieCoreReset \o HisiPcieClockCtrl(FALSE) \o AssertPciePcsReset \o DeassertPciePcsReset
  \o DeassertPcieCoreReset \o HisiPcieClockCtrl(TRUE) \o <<Op("pll", "pll")>>
  \o PciePcsInit \o PcieModeSet \o PcieSpdSet \o PcieSpdControl \o PcieSetupRC
  \o PcieEqualization \o PcieEnableItssm \o <<Op("gen3", "wait")>> \o PcieConfigContextP660
  \o PcieDisabledBar0 \o PcieWriteOwnConfig
  \o <<Op("link", "up"), Op("dfe", "dfe"), Write("CONFIG", "done")>>

(* ------------------------ what the Hi1610 is told ---------------------- *)

\* No windows here, and delays in the place of waits.
Delay1610 == Op("delay", "4 ms")
AssertPcieCoreReset1610 == <<Op("core", TRUE), Delay1610>>
DeassertPcieCoreReset1610 == <<Op("core", FALSE), Delay1610>>
AssertPciePcsReset1610 == <<Op("pcs", TRUE), Delay1610>>
DeassertPciePcsReset1610 == <<Op("pcs", FALSE), Delay1610>>
HisiPcieClockCtrl1610(on) == <<Op("clock", on)>>
\* Receivers are made valid when a lane is locked, or late.
PcieRxValidCtrl1610(on) == (IF on THEN <<Op("rxwait", "lock")>> ELSE <<>>) \o <<Op("rx", on)>>
PciePcsInit1610 == <<Op("pcswrite", "pcs")>> \o PcieRxValidCtrl1610(FALSE)
PcieModeSet1610 == <<Write("SYS", "mode")>>
PcieSpdSet1610 == <<Write("CONFIG", "speed")>>
PciePortNumSet1610 == <<Write("SYS", "number")>>
PcieSetupRC1610 == <<Write("CONFIG", "width"), Write("CONFIG", "bars"), Write("CONFIG", "bridge")>>
PcieMaskLinkUpInit1610 == <<Write("CONFIG", "mask")>>
PcieEqualization1610 == <<Write("CONFIG", "eq")>>
PcieEnableItssm1610 == <<Op("train", "SYS")>> \o PcieRxValidCtrl1610(TRUE)
PciPerfTuning1610 == <<Write("SYS", "tuning")>>
PcieConfigContextHi1610 == <<Write("SYS", "msi")>>
PcieWriteOwnConfig1610 == <<Write("CONFIG", "class")>>

PciePortInit1610 ==
  AssertPcieCoreReset1610 \o AssertPciePcsReset1610 \o HisiPcieClockCtrl1610(FALSE)
  \o DeassertPcieCoreReset1610 \o DeassertPciePcsReset1610 \o HisiPcieClockCtrl1610(TRUE)
  \o <<Op("pll", "pll")>> \o PciePcsInit1610 \o PcieModeSet1610 \o PcieSpdSet1610
  \o PciePortNumSet1610 \o PcieSetupRC1610 \o PcieMaskLinkUpInit1610 \o PcieEqualization1610
  \o PcieEnableItssm1610 \o PciPerfTuning1610 \o PcieConfigContextHi1610
  \o <<Write("CONFIG", "bar0")>> \o PcieWriteOwnConfig1610
  \o <<Op("link", "up"), Write("CONFIG", "done")>>

PciePortInitOps == IF Lib = "Pv660" THEN PciePortInit660 ELSE PciePortInit1610

(* ------------------------------ the hardware --------------------------- *)

\* A port in reset, or without clock, takes nothing and trains nothing.
Alive(h) == ~h.core /\ h.clock /\ h.pll
Untrained(h) == [h EXCEPT !.ltssm = "off", !.speed = 1, !.set = {}, !.window = "CONFIG",
                          !.cs2 = FALSE, !.tables = FALSE, !.seen = {}]

Set(h) == dev' = [dev EXCEPT ![port] = h]

\* Resets and clocks follow what is asked; the PLL locks when there is a clock.
Settle ==
  /\ drv.at = "ops"
  /\ \/ /\ hw.clock # hw.wanted.clock /\ "clock" \notin hw.plan.stuck
        /\ Set([hw EXCEPT !.clock = hw.wanted.clock, !.pll = @ /\ hw.wanted.clock])
     \/ /\ hw.clock /\ ~hw.pll /\ "pll" \notin hw.plan.stuck /\ Set([hw EXCEPT !.pll = TRUE])
     \/ /\ hw.local # hw.wanted.pcs /\ "local" \notin hw.plan.stuck
        /\ Set([hw EXCEPT !.local = hw.wanted.pcs])
     \/ /\ hw.hilink # hw.wanted.pcs /\ "hilink" \notin hw.plan.stuck
        /\ Set([hw EXCEPT !.hilink = hw.wanted.pcs])
  /\ UNCHANGED <<drv, hist>>

\* Training: first at generation 1, then through equalisation to 3.
Train ==
  /\ drv.at \in {"ops", "gen3"} /\ Alive(hw) /\ ~hw.local /\ ~hw.hilink
  /\ (Lib = "Hi1610" => hw.rx) /\ hw.plan.gen > 0
  /\ \/ hw.ltssm = "detect" /\ Set([hw EXCEPT !.ltssm = "L0"])
     \/ /\ hw.ltssm = "L0" /\ hw.speed = 1 /\ hw.plan.gen = 3
        /\ Set([hw EXCEPT !.ltssm = "eq", !.speed = 3])
     \/ hw.ltssm = "eq" /\ Set([hw EXCEPT !.ltssm = "recovery"])
     \/ hw.ltssm = "recovery" /\ ~hw.plan.hangs /\ Set([hw EXCEPT !.ltssm = "L0"])
  /\ UNCHANGED <<drv, hist>>

Hardware == Settle \/ Train

(* ------------------------------- the driver ---------------------------- *)

Next1 == [drv EXCEPT !.ops = Tail(@), !.looks = 0]
Doing(do) == drv.at = "ops" /\ Head(drv.ops).do = do
what == Head(drv.ops).what

\* PcieInitEntry: the ports of the mask, one after the other, whatever becomes
\* of each.
PcieInitEntry ==
  /\ drv.at = "next" /\ UNCHANGED <<dev, hist>>
  /\ drv' = IF port = Len(dev) THEN [drv EXCEPT !.at = "end"]
            ELSE IF ~dev[port + 1].plan.in THEN [drv EXCEPT !.port = @ + 1]
            ELSE [drv EXCEPT !.port = @ + 1, !.at = "ops", !.ops = PciePortInitOps, !.looks = 0,
                             !.carried = 0]
Failed(status) == [drv EXCEPT !.at = "next", !.ops = <<>>, !.told[port] = status]

\* A reset clears the port.
CoreReset ==
  /\ Doing("core") /\ UNCHANGED hist /\ drv' = Next1
  /\ Set(IF what THEN [Untrained(hw) EXCEPT !.core = TRUE] ELSE [hw EXCEPT !.core = FALSE])
Clock ==
  /\ Doing("clock") /\ UNCHANGED hist /\ drv' = Next1
  /\ Set([hw EXCEPT !.wanted.clock = what])
PcsReset ==
  /\ Doing("pcs") /\ UNCHANGED hist /\ drv' = Next1
  /\ Set([hw EXCEPT !.wanted.pcs = what])

\* A status that does not come is logged, and the port goes on.
StatusIs(s) ==
  CASE s = "clock" -> hw.clock = hw.wanted.clock [] s = "local" -> hw.local = hw.wanted.pcs
    [] s = "hilink" -> hw.hilink = hw.wanted.pcs [] OTHER -> hw.pll
WaitStatus ==
  /\ Doing("wait") \/ Doing("waitlong")
  /\ UNCHANGED dev
  /\ \/ StatusIs(what) /\ drv' = Next1 /\ UNCHANGED hist
     \/ /\ ~StatusIs(what) /\ Doing("wait")
        /\ drv' = IF drv.looks < Patience THEN [drv EXCEPT !.looks = @ + 1] ELSE Next1
        /\ hist' = IF drv.looks < Patience THEN hist ELSE [hist EXCEPT !.late[port] = TRUE]

\* The 1610's library trusts its delays.
Delay ==
  /\ Doing("delay") /\ drv' = Next1 /\ UNCHANGED dev
  /\ \A s \in {"clock", "local", "hilink"} : StatusIs(s) \/ s \in hw.plan.stuck
  /\ hist' = [hist EXCEPT !.late[port] =
                @ \/ \E s \in {"clock", "local", "hilink"} : ~StatusIs(s)]

\* Without a locked PLL the port is given up.
WaitPll ==
  /\ Doing("pll") /\ UNCHANGED <<dev, hist>>
  /\ drv' = IF StatusIs("pll") THEN [Next1 EXCEPT !.carried = IF Lib = "Hi1610" THEN drv.looks ELSE 0]
            ELSE IF drv.looks < Patience THEN [drv EXCEPT !.looks = @ + 1]
            ELSE Failed("NOT_READY")

ChangeWindow ==
  /\ Doing("window") /\ drv' = Next1 /\ UNCHANGED hist
  /\ Set([hw EXCEPT !.window = what])

\* A write lands where the window shows, in the tables only when they are on.
Shown(h) ==
  IF Lib = "Hi1610" \/ (h.window = "CONFIG" /\ ~h.cs2) THEN "CONFIG"
  ELSE IF h.window = "CONFIG" THEN "CS2" ELSE h.window
Lands(window) ==
  /\ Alive(hw) /\ (Lib = "Pv660" => Shown(hw) = window)
  /\ window = "TABLES" => hw.tables
RegisterWrite ==
  /\ Doing("write")
  /\ LET op == Head(drv.ops) IN
     /\ Set(IF Lands(op.window) THEN [hw EXCEPT !.set = @ \cup {op.what}] ELSE hw)
     /\ hist' = [hist EXCEPT !.lost[port] = @ \/ ~Lands(op.window)]
     /\ drv' = IF op.what = "done" THEN [Failed("SUCCESS") EXCEPT !.at = "next"] ELSE Next1
PcsWrite ==
  /\ Doing("pcswrite") /\ drv' = Next1
  /\ LET lands == ~hw.local /\ ~hw.hilink /\ hw.clock IN
     /\ Set(IF lands THEN [hw EXCEPT !.set = @ \cup {what}] ELSE hw)
     /\ hist' = [hist EXCEPT !.lost[port] = @ \/ ~lands]
SystemSwitch ==
  /\ Doing("cs2") \/ Doing("tables")
  /\ drv' = Next1
  /\ Set(IF ~Lands("SYS") THEN hw ELSE IF Doing("cs2") THEN [hw EXCEPT !.cs2 = what]
         ELSE [hw EXCEPT !.tables = what])
  /\ hist' = [hist EXCEPT !.lost[port] = @ \/ ~Lands("SYS")]

Receivers ==
  \/ Doing("rx") /\ Set([hw EXCEPT !.rx = what]) /\ drv' = Next1 /\ UNCHANGED hist
  \/ Doing("rxwait") /\ UNCHANGED <<dev, hist>> /\ drv' = Next1

\* Training is enabled; what it trains with is what was written before.
Enable ==
  /\ Doing("train") /\ drv' = Next1
  /\ Set(IF Lands("SYS") THEN [hw EXCEPT !.ltssm = "detect", !.seen = hw.set] ELSE hw)
  /\ hist' = [hist EXCEPT !.lost[port] = @ \/ ~Lands("SYS")]

\* PcieGen3Config: waits for generation 3, then watches the link; when it
\* is seen in recovery after having been seen in equalisation, and still
\* is a little later, its lanes are realigned, once.
Gen3Wait ==
  /\ Doing("gen3") /\ UNCHANGED <<dev, hist>>
  /\ drv' = IF hw.speed = 3 THEN [drv EXCEPT !.at = "gen3", !.eq = FALSE, !.looks = 0,
                                               !.saw = hw.ltssm]
            ELSE IF drv.looks < Patience THEN [drv EXCEPT !.looks = @ + 1]
            ELSE Next1
Gen3Watch ==
  /\ drv.at = "gen3"
  /\ LET eq == drv.eq \/ drv.saw = "eq"
         over == [Next1 EXCEPT !.at = "ops"]
     IN CASE drv.saw = "L0" \/ drv.looks >= Patience -> drv' = over /\ UNCHANGED <<dev, hist>>
          [] drv.saw = "recovery" /\ eq ->
               /\ drv' = over
               /\ hist' = [hist EXCEPT !.caught[port] = TRUE]
               /\ IF hw.ltssm = "recovery" THEN Set([hw EXCEPT !.ltssm = "L0"]) ELSE UNCHANGED dev
          [] OTHER ->
               /\ drv' = [drv EXCEPT !.eq = eq, !.saw = hw.ltssm, !.looks = @ + 1]
               /\ UNCHANGED <<dev, hist>>

\* The link is waited for; the 1610's count goes on from that of the PLL.
PcieIsLinkUp == hw.ltssm = "L0"
WaitLink ==
  /\ Doing("link") /\ UNCHANGED <<dev, hist>>
  /\ drv' = IF PcieIsLinkUp THEN Next1
            ELSE IF drv.looks + drv.carried < 2 * Patience THEN [drv EXCEPT !.looks = @ + 1]
            ELSE Failed("LINK_OVER_TIME")
Gen3DfeEnable ==
  /\ Doing("dfe") /\ drv' = Next1 /\ UNCHANGED hist
  /\ Set(IF hw.speed = 3 THEN [hw EXCEPT !.set = @ \cup {"dfe"}] ELSE hw)

Work ==
  \/ PcieInitEntry \/ CoreReset \/ Clock \/ PcsReset
  \/ WaitStatus \/ Delay \/ WaitPll \/ ChangeWindow \/ RegisterWrite \/ PcsWrite \/ SystemSwitch
  \/ Receivers \/ Enable \/ Gen3Wait \/ Gen3Watch \/ WaitLink \/ Gen3DfeEnable

Fresh(plan) ==
  [plan |-> plan, core |-> FALSE, clock |-> TRUE, pll |-> TRUE, local |-> FALSE, hilink |-> FALSE,
   wanted |-> [clock |-> TRUE, pcs |-> FALSE], window |-> "CONFIG", cs2 |-> FALSE,
   tables |-> FALSE, rx |-> TRUE, set |-> {}, seen |-> {}, ltssm |-> "off", speed |-> 1]
Init ==
  \E plan \in Plans :
    LET each(x) == [i \in DOMAIN plan |-> x] IN
    /\ drv = [at |-> "next", port |-> 0, ops |-> <<>>, looks |-> 0, carried |-> 0, eq |-> FALSE,
              saw |-> "off", told |-> each("none")]
    /\ dev = [i \in DOMAIN plan |-> Fresh(plan[i])]
    /\ hist = [late |-> each(FALSE), lost |-> each(FALSE), caught |-> each(FALSE)]

Next == Work \/ Hardware

Spec == Init /\ [][Next]_vars /\ WF_vars(Work) /\ WF_vars(Settle) /\ WF_vars(Train)

(* ------------------------------ properties ----------------------------- *)

\* As long as no status was late, no register is written while its port is
\* in reset or without clock, and none through a window that shows another
\* space; training starts with everything written that it depends on.
WritesLand ==
  \A p \in Ports :
    ~hist.late[p] =>
      /\ ~hist.lost[p]
      /\ dev[p].ltssm # "off" =>
           {"pcs", "mode", "speed", "width", "bars", "bridge", "eq"} \subseteq dev[p].seen
      /\ drv.told[p] = "SUCCESS" =>
           /\ {"bar0", "class", "msi"} \subseteq dev[p].set /\ ~dev[p].cs2 /\ ~dev[p].tables
           /\ dev[p].window = "CONFIG"

\* A port told successful was trained; one of the mask that has a device
\* which does not hang fails only when a status never came or the link
\* took longer than the wait, and a hang that was seen is cured.  Ports
\* out of the mask are left alone.
OutcomesAreTrue ==
  \A p \in Ports :
    /\ drv.told[p] = "SUCCESS" /\ ~hist.late[p] => dev[p].plan.gen > 0 /\ dev[p].ltssm # "off"
    /\ drv.told[p] = "SUCCESS" /\ hist.caught[p] => dev[p].ltssm = "L0"
    /\ ~dev[p].plan.in => drv.told[p] = "none" /\ dev[p] = Fresh(dev[p].plan)
    /\ drv.told[p] = "NOT_READY" => ~dev[p].pll
    /\ drv.at = "end" /\ dev[p].plan.in => drv.told[p] # "none"

\* The entry point comes to its end, unless the Pv660's serdes never comes
\* out of reset: that wait alone has no limit.
Busy == drv.at # "end" /\ ~(port \in Ports /\ Lib = "Pv660" /\ "hilink" \in hw.plan.stuck)

=============================================================================
