------------------------------ MODULE ArmadaBoard ------------------------------
(***************************************************************************)
(* The Armada 70x0's board set-up, two systems that run one after the      *)
(* other and share no hardware.  Init and Next are the board's, LanesInit  *)
(* and LanesNext those of its SerDes lanes.                                *)
(*                                                                         *)
(* ComPhyLib: the SerDes lanes of the board's CP110 chips are connected to *)
(* their units through two selectors, and lane after lane is reset,        *)
(* programmed for its unit, released and looked at, whose PLL locks by     *)
(* itself or never does.  A lane that fails does not stop the others.      *)
(*                                                                         *)
(* After the lanes UtmiPhyLib takes the USB 2 PHYs down, configures and    *)
(* starts them, MppLib writes the pins' functions, ParsePcdLib reads the   *)
(* lists the board gives, and later PciEmulation registers the chip's      *)
(* controllers as PCI devices.                                             *)
(***************************************************************************)
EXTENDS Integers, Sequences, FiniteSets, TLC

CONSTANTS
  LaneBoards,     \* sequences of chips [chip, lanes, bits]; a lane is asked
                  \* for as [type, speed, stuck]
  SataBase,       \* whether PcdSataBaseAddress is defined
  Patience,       \* times a wait looks
  Lists,          \* lists a board may give: of fields [len, value], Malformed ones too
  Boards,         \* [phys, stuck, chips, xhci, ahci, sdhci]: the PHYs' ports, those
                  \* that never calibrate, the chips [pins, reverse], the enabled units
  Malformed,      \* the value of a field that is no number
  Bounds          \* bounds: registrations that fail

VARIABLES
  drv,    \* the set-up
  dev,    \* lanes and their selectors; PHYs, pins and what is registered
  hist    \* history

vars == <<drv, dev, hist>>
Busy == drv.at \notin {"success", "error"}

(* --------------------------- what can be asked ------------------------- *)

Pcie == {"PCIE0", "PCIE1", "PCIE2", "PCIE3"}
Sata == {"SATA0", "SATA1", "SATA2", "SATA3"}
Sgmii == {"SGMII0", "SGMII1", "SGMII2", "SGMII3"}
Usb3 == {"USB3_HOST0", "USB3_HOST1"}
TypeStringTable ==
  {"unconnected", "QSGMII", "USB3_DEVICE", "XAUI0", "XAUI1", "XAUI2", "XAUI3",
   "RXAUI0", "RXAUI1", "KR"} \cup Pcie \cup Sata \cup Sgmii \cup Usb3

PHY_SPEED_INVALID == 255
\* The first entry, 0, is PHY_SPEED_ERROR.
ParseSerdesSpeed(value) ==
  IF value \in {0, 1250, 1500, 2500, 3000, 3125, 5000, 6000, 6250, 10310}
  THEN value ELSE PHY_SPEED_INVALID
ParseSerdesTypeString(string) == IF string \in TypeStringTable THEN string ELSE "invalid"

\* What a lane is made of: without a valid type and speed it is unconnected.
Unconnected == [type |-> "unconnected", speed |-> PHY_SPEED_INVALID]
LaneMap(asked) ==
  LET type == ParseSerdesTypeString(asked.type)
      speed == ParseSerdesSpeed(asked.speed) IN
  IF type = "invalid" \/ speed \in {PHY_SPEED_INVALID, 0} THEN Unconnected
  ELSE [type |-> type, speed |-> speed]

(* ------------------------------ selectors ------------------------------ *)

\* What selects the units that a lane can be connected to.
Option(types, value) == [t \in types |-> value]
Cp110ComPhyMuxData ==
  <<Option({"SGMII2", "XAUI2"}, 1) @@ Option({"SATA1"}, 4),
    Option({"SGMII3", "XAUI3"}, 1) @@ Option({"SATA1"}, 4),
    Option({"SGMII0", "XAUI0", "RXAUI0", "KR"}, 1) @@ Option({"SATA0"}, 4),
    Option({"SGMII0", "XAUI0", "RXAUI0", "KR", "XAUI1", "RXAUI1"}, 1) @@ Option({"SATA1"}, 4),
    Option({"SGMII0"}, 2) @@ Option({"XAUI0", "RXAUI0", "KR", "SGMII2", "XAUI2"}, 1),
    Option({"XAUI1", "RXAUI1", "SGMII3", "XAUI3"}, 1) @@ Option({"SATA1"}, 4)>>
Cp110ComPhyPipeMuxData ==
  <<Option({"PCIE0"}, 4),
    Option({"USB3_HOST0"}, 1) @@ Option({"USB3_DEVICE"}, 2) @@ Option({"PCIE0"}, 4),
    Option({"USB3_HOST0"}, 1) @@ Option({"PCIE0"}, 4),
    Option({"USB3_HOST1"}, 1) @@ Option({"PCIE0"}, 4),
    Option({"USB3_HOST1"}, 1) @@ Option({"USB3_DEVICE"}, 2) @@ Option({"PCIE1"}, 4),
    Option({"PCIE2"}, 4)>>

MPP_MAX_REGS == 8
MPP_PINS_PER_REG == 8
PCD_PINS_PER_GROUP == 10

ConstantsOK ==
  /\ SataBase \in BOOLEAN /\ Patience \in Nat \ {0}
  /\ \A chips \in LaneBoards : Len(chips) \in 1 .. 4
  /\ \A chips \in LaneBoards : \A c \in DOMAIN chips :
       Len(chips[c].lanes) <= Len(Cp110ComPhyMuxData) /\ chips[c].bits >= 3
  /\ Malformed \in Int
  /\ \A l \in Lists : \A i \in DOMAIN l : l[i].len \in Nat
  /\ \A b \in Boards : Len(b.chips) <= 4
  /\ \A b \in Boards : \A c \in DOMAIN b.chips : Len(b.chips[c].pins) <= 64

\* A register is the set of its bits that are 1.
Shifted(value, offset) == {offset + b : b \in {n \in 0 .. 3 : ((value \div 2^n) % 2) = 1}}
RegSet(reg, data, mask) == (reg \ mask) \cup data

ComPhyMuxCheckConfig(data, lane, type) ==
  IF type \in DOMAIN data[lane] THEN type ELSE "unconnected"
ComPhyMuxGetMuxValue(data, lane, type) ==
  IF type \in DOMAIN data[lane] THEN data[lane][type] ELSE 0
\* A lane's field is written with the others left as they are.
ComPhyMuxRegWrite(reg, data, lane, type, bits) ==
  LET offset == (lane - 1) * bits IN
  RegSet(reg, Shifted(ComPhyMuxGetMuxValue(data, lane, type), offset),
         offset .. offset + bits - 1)

(* ------------------------------- programs ------------------------------ *)

\* Fields of a lane's registers are written, or the hardware is given time,
\* or looked at: once, until some of its status is seen, or not at all.
Set(fields) == [do |-> "set", fields |-> fields, until |-> {}]
Look == [do |-> "look", fields |-> <<>>, until |-> {"pclk"}]
PollingWithTimeout(until) == [do |-> "poll", fields |-> <<>>, until |-> until]
Mac(fields) == [do |-> "mac", fields |-> fields, until |-> {}]

\* The PHY in reset with its way and bus chosen, then out of reset.
HardReset(pipe, bus) ==
  <<Set([up |-> 1, pipe |-> pipe, por |-> 0, core |-> 0, bus |-> bus]),
    Set([por |-> 1, core |-> 1])>>
ComPhyPcieRFUConfiguration == HardReset(1, 0)
ComPhyUsb3RFUConfiguration == HardReset(1, 1)

ComPhyPciePhyConfiguration ==
  <<Set([rst |-> 1, pclk |-> 1]), Set([clk500 |-> 1, refclk |-> 1]),
    Set([freq |-> 0, mode |-> 3]), Set([gen |-> 2, train |-> 1]), Set([idle |-> 1]),
    Set([trainctl |-> 1])>>
ComPhyUsb3PhyConfiguration ==
  <<Set([rst |-> 1, pclk |-> 0]), Set([refclk |-> 0]), Set([freq |-> 2, mode |-> 5]),
    Set([rxdloz |-> 7]), Set([gen |-> 1]), Set([loop |-> 1])>>
ComPhyUsb3SetAnalogParameters == <<Set([dfe |-> 1, ssc |-> 1])>>
ComPhyPciePhyPowerUp == <<Set([rst |-> 0])>>
ComPhyPcieCheckPll == <<Look>>

ComPhyPciePowerUp ==
  ComPhyPcieRFUConfiguration \o ComPhyPciePhyConfiguration \o ComPhyPciePhyPowerUp
  \o ComPhyPcieCheckPll
ComphyUsb3PowerUp ==
  ComPhyUsb3RFUConfiguration \o ComPhyUsb3PhyConfiguration
  \o ComPhyUsb3SetAnalogParameters \o <<Set([rst |-> 0]), Look>>

\* The SATA MAC is that of both ports, and of every chip.
ComPhySataMacPowerDown == <<Mac([pd |-> 1, enable |-> 0])>>
ComPhySataRFUConfiguration ==
  <<Set([up |-> 1, pipe |-> 0, por |-> 0, core |-> 0]), Set([wide |-> 1]),
    Set([resetin |-> 1, resetcore |-> 1])>>
ComPhySataPhyConfiguration ==
  <<Set([refclk |-> 0]), Set([freq |-> 1, mode |-> 0]), Set([gen |-> 2]), Set([loop |-> 2])>>
ComPhySataSetAnalogParameters ==
  <<Set([dferst |-> 1]), Set([dferst |-> 0]), Set([soft |-> 1]), Set([soft |-> 0])>>
ComPhySataPhyPowerUp == <<Mac([pd |-> 0, enable |-> 1]), Mac([regret |-> 1])>>
\* The bits of the two PLLs are put together with & (:684), which leaves none.
ComPhySataCheckPll == <<PollingWithTimeout({"tx"} \cap {"rx"})>>

ComPhySataPowerUp ==
  IF ~SataBase THEN <<[Look EXCEPT !.do = "refuse"]>>
  ELSE ComPhySataMacPowerDown \o ComPhySataRFUConfiguration \o ComPhySataPhyConfiguration
       \o ComPhySataSetAnalogParameters \o ComPhySataPhyPowerUp \o ComPhySataCheckPll

ComPhySgmiiRFUConfiguration(speed) ==
  <<Set([up |-> 1, pipe |-> 0]),
    Set([pupll |-> 0, rate |-> IF speed = 1250 THEN 6 ELSE 8, purx |-> 0, putx |-> 0]),
    Set([resetin |-> 0, resetcore |-> 0, rfreset |-> 0]), Set([resetin |-> 1, resetcore |-> 1])>>
ComPhySgmiiPhyConfiguration ==
  <<Set([refclk |-> 0]), Set([freq |-> 1, mode |-> 4]), Set([loop |-> 1]), Set([rxclk |-> 1]),
    Set([floop |-> 0])>>
ComPhySgmiiRFUPowerUp ==
  <<Set([pupll |-> 1, purx |-> 1, putx |-> 1]), PollingWithTimeout({"tx", "rx"}),
    Set([rxinit |-> 1]), PollingWithTimeout({"init"}), Set([rxinit |-> 0, rfreset |-> 1])>>
ComPhySgmiiPowerUp(speed) ==
  ComPhySgmiiRFUConfiguration(speed) \o ComPhySgmiiPhyConfiguration
  \o <<Set([emphasis |-> 1])>> \o ComPhySgmiiRFUPowerUp

(* ------------------------- the lanes, one by one ----------------------- *)

Chip == dev.chips[drv.chip]
Asked(c) == dev.board[c].lanes
Lanes(c) == DOMAIN Asked(c)
\* What MvComPhyInit has made of a chip's lanes, before the selectors.
InitComPhyConfig(c) == [l \in Lanes(c) |-> LaneMap(Asked(c)[l])]

\* An unknown chip ends the whole initialisation.
GetChipComPhyInit ==
  /\ drv.at = "chip"
  /\ IF drv.chip > Len(dev.board) THEN drv' = [drv EXCEPT !.at = "success"]
     ELSE IF dev.board[drv.chip].chip # "Cp110" THEN drv' = [drv EXCEPT !.at = "error"]
     ELSE drv' = [drv EXCEPT !.at = "mux", !.lane = 1, !.map = InitComPhyConfig(drv.chip),
                             !.status = "none"]
  /\ UNCHANGED <<dev, hist>>

\* The lanes' fields of one selector and then of the other, each with the
\* types that it does not know taken as unconnected.
ComPhyMuxInit ==
  /\ drv.at \in {"mux", "pipemux"}
  /\ LET phy == drv.at = "mux"
         data == IF phy THEN Cp110ComPhyMuxData ELSE Cp110ComPhyPipeMuxData
         l == drv.lane
         type == ComPhyMuxCheckConfig(data, l, drv.map[l].type)
         bits == dev.board[drv.chip].bits
         last == l = Len(drv.map) IN
     /\ dev' = IF phy
               THEN [dev EXCEPT !.chips[drv.chip].phy = ComPhyMuxRegWrite(@, data, l, type, bits)]
               ELSE [dev EXCEPT !.chips[drv.chip].pipe = ComPhyMuxRegWrite(@, data, l, type, bits)]
     /\ drv' = [drv EXCEPT !.lane = IF last THEN 1 ELSE l + 1,
                           !.at = IF ~last THEN @ ELSE IF phy THEN "pipemux" ELSE "lane"]
  /\ UNCHANGED hist

\* What neither selector knows is not initialised.
ComPhyMuxCp110(l) ==
  IF drv.map[l].type \in DOMAIN Cp110ComPhyMuxData[l] \cup DOMAIN Cp110ComPhyPipeMuxData[l]
  THEN drv.map[l].type ELSE "unconnected"
PowerUp(type, speed) ==
  CASE type \in Pcie -> ComPhyPciePowerUp
    [] type \in Sata -> ComPhySataPowerUp
    [] type \in Usb3 -> ComphyUsb3PowerUp
    [] type \in Sgmii -> ComPhySgmiiPowerUp(speed)
    [] OTHER -> <<>>

\* What is said of a lane whose type has no program is Status as it was, at
\* first whatever was in its place.
Said(status) == IF status = "none" THEN {"ok", "failed"} ELSE {status}
ComPhyCp110Init ==
  /\ drv.at = "lane"
  /\ IF drv.lane > Len(drv.map) THEN /\ drv' = [drv EXCEPT !.at = "chip", !.chip = @ + 1]
                                     /\ UNCHANGED hist
     ELSE LET type == ComPhyMuxCp110(drv.lane)
              program == PowerUp(type, drv.map[drv.lane].speed) IN
          IF program # <<>>
          THEN /\ drv' = [drv EXCEPT !.at = "run", !.todo = program, !.left = Patience,
                                     !.status = "ok", !.silent = FALSE]
               /\ UNCHANGED hist
          ELSE /\ drv' = [drv EXCEPT !.lane = @ + 1]
               /\ IF type = "unconnected" THEN UNCHANGED hist
                  ELSE \E s \in Said(drv.status) :
                         hist' = [hist EXCEPT !.said = Append(@,
                                   [chip |-> drv.chip, lane |-> drv.lane, status |-> s,
                                    locked |-> {}, silent |-> FALSE, stale |-> TRUE])]
  /\ UNCHANGED dev

(* ---------------------------- steps of a lane -------------------------- *)

Here == Chip.lanes[drv.lane]
Done(status, silent) ==
  IF Len(drv.todo) > 1
  THEN /\ drv' = [drv EXCEPT !.todo = Tail(@), !.left = Patience, !.status = status,
                             !.silent = silent]
       /\ UNCHANGED hist
  ELSE /\ drv' = [drv EXCEPT !.at = "lane", !.lane = @ + 1, !.todo = <<>>, !.status = status]
       /\ hist' = [hist EXCEPT !.said = Append(@,
                    [chip |-> drv.chip, lane |-> drv.lane, status |-> status,
                     locked |-> Here.locked, silent |-> silent, stale |-> FALSE])]

\* A PHY held in reset, or whose PLL is off, loses what it had locked.
Released(r) ==
  /\ r["up"] = 1
  /\ IF r["pipe"] = 1 THEN r["por"] = 1 /\ r["core"] = 1 /\ r["rst"] = 0
     ELSE r["resetin"] = 1 /\ r["resetcore"] = 1
PllOn(r) == Released(r) /\ (r["mode"] = 4 => r["pupll"] = 1)
Fields(regs, fields) == [f \in DOMAIN regs |-> IF f \in DOMAIN fields THEN fields[f] ELSE regs[f]]
SetField ==
  /\ drv.at = "run" /\ Head(drv.todo).do = "set"
  /\ LET regs == Fields(Here.regs, Head(drv.todo).fields) IN
     dev' = [dev EXCEPT !.chips[drv.chip].lanes[drv.lane] =
              [@ EXCEPT !.regs = regs, !.locked = IF PllOn(regs) THEN @ ELSE {}]]
  /\ Done(drv.status, drv.silent)
SetMac ==
  /\ drv.at = "run" /\ Head(drv.todo).do = "mac"
  /\ dev' = [dev EXCEPT !.mac = Fields(@, Head(drv.todo).fields)]
  /\ Done(drv.status, drv.silent)
Refuse ==
  /\ drv.at = "run" /\ Head(drv.todo).do = "refuse" /\ Done("failed", drv.silent) /\ UNCHANGED dev
LookOnce ==
  /\ drv.at = "run" /\ Head(drv.todo).do = "look" /\ UNCHANGED dev
  /\ Done(IF Head(drv.todo).until \subseteq Here.locked THEN drv.status ELSE "failed", drv.silent)

\* The answer of a wait that has run out is what was seen: nothing is 0,
\* which is taken for success.
Poll ==
  /\ drv.at = "run" /\ Head(drv.todo).do = "poll" /\ UNCHANGED dev
  /\ LET until == Head(drv.todo).until
         seen == Here.locked \cap until IN
     IF seen = until THEN Done(drv.status, drv.silent)
     ELSE IF drv.left = 1 THEN Done(IF seen = {} THEN drv.status ELSE "failed", drv.silent \/ seen = {})
     ELSE drv' = [drv EXCEPT !.left = @ - 1] /\ UNCHANGED hist

\* The lane in work locks part after part; nobody looks at another.
Locks ==
  /\ drv.at = "run"
  /\ \E part \in (IF Here.regs["pipe"] = 1 THEN {"pclk"} ELSE {"tx", "rx", "init"}) :
       /\ PllOn(Here.regs) /\ part = "init" => Here.regs["rxinit"] = 1
       /\ part \notin Asked(drv.chip)[drv.lane].stuck \cup Here.locked
       /\ dev' = [dev EXCEPT !.chips[drv.chip].lanes[drv.lane].locked = @ \cup {part}]
  /\ UNCHANGED <<drv, hist>>

(* --------------------------- spec of the lanes ------------------------- *)

RegisterFields ==
  {"up", "pipe", "por", "core", "bus", "rst", "pclk", "clk500", "refclk", "freq", "mode", "gen",
   "train", "idle", "trainctl", "rxdloz", "loop", "dfe", "ssc", "wide", "resetin",
   "resetcore", "dferst", "soft", "pupll", "rate", "purx", "putx", "rfreset", "rxclk",
   "floop", "emphasis", "rxinit"}
\* A pipe is held in reset until it is first programmed.
LaneAtReset ==
  [regs |-> [f \in RegisterFields |-> IF f = "rst" THEN 1 ELSE 0], locked |-> {}]
LanesInit ==
  /\ \E asked \in LaneBoards :
       dev = [board |-> asked, mac |-> [pd |-> 0, enable |-> 0, regret |-> 0],
              chips |-> [c \in DOMAIN asked |->
                          [phy |-> {}, pipe |-> {},
                           lanes |-> [l \in DOMAIN asked[c].lanes |-> LaneAtReset]]]]
  /\ drv = [at |-> "chip", chip |-> 1, lane |-> 1, map |-> <<>>, todo |-> <<>>, left |-> 1,
            status |-> "none", silent |-> FALSE]
  /\ hist = [said |-> <<>>]

LanesWork ==
  \/ GetChipComPhyInit \/ ComPhyMuxInit \/ ComPhyCp110Init
  \/ SetField \/ SetMac \/ Refuse \/ LookOnce \/ Poll
LanesNext == LanesWork \/ Locks
LanesSpec == LanesInit /\ [][LanesNext]_vars /\ WF_vars(LanesWork)

(* ------------------------ properties of the lanes ---------------------- *)

\* The unit a lane is connected to through a selector, if any.
Selected(reg, data, l, bits) ==
  {t \in DOMAIN data[l] :
     {b \in reg : b \div bits = l - 1} = Shifted(data[l][t], (l - 1) * bits)}
Begun(l) == drv.at \in {"lane", "run"} /\ l <= Len(drv.map)

\* While lanes are initialised every selector shows what the board asks
\* for, in one of the two, and nothing else: a field written for one lane
\* does not change another's.  The SATA MAC is up whenever no lane is in
\* work that uses it.
LanesAsAsked ==
  /\ Busy => \A l \in DOMAIN drv.map : Begun(l) =>
       LET type == ComPhyMuxCp110(l)
           bits == dev.board[drv.chip].bits
           units == Selected(Chip.phy, Cp110ComPhyMuxData, l, bits)
                    \cup Selected(Chip.pipe, Cp110ComPhyPipeMuxData, l, bits) IN
       IF type = "unconnected" THEN units = {} ELSE type \in units
  /\ drv.at # "run" => dev.mac.pd = 0

\* A lane is out of reset only with the mode and the clock of the unit it
\* is connected to, except while a SATA lane is being programmed.
ModeOf(type) ==
  CASE type \in Pcie -> <<0, 3>> [] type \in Usb3 -> <<2, 5>>
    [] type \in Sata -> <<1, 0>> [] type \in Sgmii -> <<1, 4>>
ReleasedReady ==
  \A c \in DOMAIN dev.chips : \A l \in Lanes(c) :
    LET regs == dev.chips[c].lanes[l].regs
        type == LaneMap(Asked(c)[l]).type IN
    (PllOn(regs) /\ ~(drv.at = "run" /\ drv.chip = c /\ drv.lane = l /\ type \in Sata \cup Sgmii))
      => <<regs["freq"], regs["mode"]>> = ModeOf(type)

\* A lane that is said to be initialised has all its unit needs locked,
\* except that SATA lanes are never looked at, that a wait which runs out
\* having seen nothing is taken for a success (`silent`), and that of
\* types without a program the last lane's status is said (`stale`).  Only
\* a lane with something to wait for is said to have failed.
Needed(type) ==
  IF type \in Pcie \cup Usb3 THEN {"pclk"}
  ELSE IF type \in Sgmii THEN {"tx", "rx", "init"} ELSE {}
SaidTruly ==
  \A i \in DOMAIN hist.said :
    LET s == hist.said[i]
        type == LaneMap(Asked(s.chip)[s.lane]).type IN
    ~s.stale =>
      /\ s.status = "ok" /\ ~s.silent => Needed(type) \subseteq s.locked
      /\ s.status = "failed" => Needed(type) # {} \/ ~SataBase

(* -------------------------------- the board ---------------------------- *)

board == dev.board

(* -------------------------------- lists -------------------------------- *)

\* A list is read from its end.  A first field of one character is passed
\* over, as is an empty list; then the values before it stay as they were.
Unset == Malformed - 1
ParsePcdString(list, count) ==
  LET n == Len(list)
      first == IF n > 1 /\ list[1].len <= 1 THEN 2 ELSE 1
      empty == n = 0 \/ (n = 1 /\ list[1].len = 0)
      taken == IF empty THEN {} ELSE {k \in 1 .. count : n - count + k >= first}
      wrong == \E k \in taken : list[n - count + k].value = Malformed
      short == ~empty /\ first = 1 /\ n < count IN
  [ok |-> ~wrong /\ ~short,
   values |-> [k \in 1 .. count |-> IF k \in taken THEN list[n - count + k].value ELSE Unset]]

\* A board with no PHYs has nothing to do; a list that is wrong ends it.
UtmiPhyInit ==
  /\ drv.at = "utmi"
  /\ \E list \in Lists :
       LET parsed == ParsePcdString(list, Len(board.phys)) IN
       IF Len(board.phys) = 0 \/ ~parsed.ok
       THEN /\ drv' = [drv EXCEPT !.at = "mpp", !.n = 1]
            /\ hist' = [hist EXCEPT !.list = IF board.phys = <<>> THEN "none" ELSE "refused"]
       ELSE /\ drv' = [drv EXCEPT !.at = "down", !.n = 1]
            /\ hist' = [hist EXCEPT !.list =
                         IF \E k \in DOMAIN parsed.values : parsed.values[k] = Unset
                         THEN IF list = <<>> THEN "empty"
                              ELSE IF list[1].len <= 1 THEN "single" ELSE "lost"
                         ELSE "read"]
  /\ UNCHANGED dev

(* -------------------------------- USB 2 -------------------------------- *)

\* One loop of Cp110UtmiPhyInit after another goes through the PHYs.
Through(after) ==
  drv' = IF drv.n < Len(board.phys) THEN [drv EXCEPT !.n = @ + 1]
         ELSE [drv EXCEPT !.at = after, !.n = 1]
Phy(fields) ==
  dev' = [dev EXCEPT !.phys[drv.n] =
           [f \in DOMAIN @ |-> IF f \in DOMAIN fields THEN fields[f] ELSE @[f]]]

\* The connection to the device controller is computed and not written.
UtmiPhyPowerDown ==
  /\ drv.at = "down" /\ Phy([pu |-> FALSE, test |-> TRUE, suspendm |-> TRUE, ready |-> FALSE])
  /\ Through("pll") /\ UNCHANGED hist
PllDown ==
  /\ drv.at = "pll" /\ dev' = [dev EXCEPT !.pll = FALSE]
  /\ drv' = [drv EXCEPT !.at = "config"] /\ UNCHANGED hist
UtmiPhyConfig ==
  /\ drv.at = "config" /\ Phy([pllctrl |-> 1, calib |-> 1, tx |-> 1, rx |-> 1, chgdtc |-> 1])
  /\ Through("up") /\ UNCHANGED hist
UtmiPhyPowerUp ==
  /\ drv.at = "up" /\ Phy([pu |-> TRUE, test |-> FALSE])
  /\ drv' = [drv EXCEPT !.at = "wait"] /\ UNCHANGED hist

\* After 10 ms the PHY is looked at once; Status has no value unless
\* something is missing, so anything may be said.
Looked ==
  /\ drv.at = "wait"
  /\ \E said \in (IF dev.phys[drv.n].ready THEN {TRUE, FALSE} ELSE {FALSE}) :
       hist' = [hist EXCEPT !.said[drv.n] = said]
  /\ drv' = IF drv.n < Len(board.phys) THEN [drv EXCEPT !.at = "up", !.n = @ + 1]
            ELSE [drv EXCEPT !.at = "pllup"]
  /\ UNCHANGED dev
PllUp ==
  /\ drv.at = "pllup" /\ dev' = [dev EXCEPT !.pll = TRUE]
  /\ drv' = [drv EXCEPT !.at = "mpp", !.n = 1] /\ UNCHANGED hist

Calibrate ==
  /\ \E i \in DOMAIN dev.phys :
       /\ dev.phys[i].pu /\ ~dev.phys[i].ready /\ i \notin board.stuck
       /\ dev' = [dev EXCEPT !.phys[i].ready = TRUE]
  /\ UNCHANGED <<drv, hist>>

(* --------------------------------- pins -------------------------------- *)

RoundedUp(n, by) == (n + by - 1) \div by
\* From groups of 10 pins to registers of 8; what lies after the last group
\* was never given a value.
Garbage == {0, 15}
PcdToMppRegs(pins, value) ==
  LET groups == RoundedUp(Len(pins), PCD_PINS_PER_GROUP)
      regs == RoundedUp(Len(pins), MPP_PINS_PER_REG) IN
  [i \in 1 .. regs |-> [j \in 1 .. MPP_PINS_PER_REG |->
     LET pin == (i - 1) * MPP_PINS_PER_REG + j IN
     IF pin <= Len(pins) THEN pins[pin] % 16
     ELSE IF pin <= groups * PCD_PINS_PER_GROUP THEN 0 ELSE value]]

\* With the reverse flag the registers go down from the base.
SetRegisterValue ==
  /\ drv.at = "mpp"
  /\ IF drv.n > Len(board.chips) THEN drv' = [drv EXCEPT !.at = "pci"] /\ UNCHANGED dev
     ELSE /\ \E value \in Garbage :
               LET regs == PcdToMppRegs(board.chips[drv.n].pins, value)
                   sign == IF board.chips[drv.n].reverse THEN -1 ELSE 1 IN
               dev' = [dev EXCEPT !.pins[drv.n] =
                        [r \in {sign * (i - 1) : i \in DOMAIN regs} |->
                          regs[IF r < 0 THEN 1 - r ELSE r + 1]]]
          /\ drv' = [drv EXCEPT !.at = "sd"]
  /\ UNCHANGED hist

\* The first two chips have a PHY of their own for SD and eMMC.
SetSdMmcPhyMpp ==
  /\ drv.at = "sd" /\ drv' = [drv EXCEPT !.at = "mpp", !.n = @ + 1]
  /\ dev' = [dev EXCEPT !.sdphy =
              IF drv.n - 1 \in {0, 1} /\ drv.n \in board.sdhci THEN @ \cup {drv.n} ELSE @]
  /\ UNCHANGED hist

(* ----------------------------- PCI emulation --------------------------- *)

\* Controllers in their order; a failed registration ends everything.
PciEmulationInitXhci == [k \in {<<1, i>> : i \in 1 .. 2} |-> k[2] \in board.xhci]
PciEmulationInitAhci == [k \in {<<2, 1>>} |-> k[2] \in board.ahci]
PciEmulationInitSdhci == [k \in {<<3, i>> : i \in 1 .. 2} |-> k[2] \in board.sdhci]
Order == <<<<1, 1>>, <<1, 2>>, <<2, 1>>, <<3, 1>>, <<3, 2>>>>
Enabled(k) ==
  CASE k[1] = 1 -> PciEmulationInitXhci[k]
    [] k[1] = 2 -> PciEmulationInitAhci[k]
    [] k[1] = 3 -> PciEmulationInitSdhci[k]
PciEmulationEntryPoint ==
  /\ drv.at = "pci"
  /\ LET i == drv.device IN
     IF i > Len(Order) THEN drv' = [drv EXCEPT !.at = "success"] /\ UNCHANGED <<dev, hist>>
     ELSE IF ~Enabled(Order[i]) THEN drv' = [drv EXCEPT !.device = @ + 1] /\ UNCHANGED <<dev, hist>>
     ELSE \/ /\ dev' = [dev EXCEPT !.registered = @ \cup {Order[i]}]
             /\ drv' = [drv EXCEPT !.device = @ + 1] /\ UNCHANGED hist
          \/ /\ hist.faults < hist.max.faults
             /\ hist' = [hist EXCEPT !.faults = @ + 1]
             /\ drv' = [drv EXCEPT !.at = "error"] /\ UNCHANGED dev

(* --------------------------- spec of the board ------------------------- *)

PhyAtReset ==
  [pu |-> TRUE, test |-> FALSE, suspendm |-> FALSE, ready |-> FALSE, pllctrl |-> 0,
   calib |-> 0, tx |-> 0, rx |-> 0, chgdtc |-> 0]
Init ==
  /\ \E b \in Boards :
       /\ dev = [board |-> b, phys |-> [i \in DOMAIN b.phys |-> PhyAtReset], pll |-> TRUE,
                 pins |-> [c \in DOMAIN b.chips |-> <<>>], sdphy |-> {}, registered |-> {}]
       /\ \E max \in Bounds :
            hist = [max |-> max, faults |-> 0, list |-> "none",
                    said |-> [i \in DOMAIN b.phys |-> FALSE]]
  /\ drv = [at |-> "utmi", n |-> 1, device |-> 1]

Work ==
  \/ UtmiPhyInit \/ UtmiPhyPowerDown \/ PllDown \/ UtmiPhyConfig \/ UtmiPhyPowerUp \/ Looked
  \/ PllUp \/ SetRegisterValue \/ SetSdMmcPhyMpp \/ PciEmulationEntryPoint
Next == Work \/ Calibrate
Spec == Init /\ [][Next]_vars /\ WF_vars(Work)

(* ------------------------ properties of the board ---------------------- *)

\* The PLL that the PHYs share is off, and it is configured, only while
\* every PHY that is not yet configured is down; a list that is taken is
\* taken whole, except for what ParsePcdString passes over; at the end the
\* PHYs run or have never been touched.
PhysInOrder ==
  /\ drv.at = "config" => ~dev.pll /\ \A i \in DOMAIN dev.phys : ~dev.phys[i].pu
  /\ hist.list # "lost"
  /\ drv.at \in {"mpp", "sd", "pci", "success"} =>
       /\ dev.pll
       /\ \A i \in DOMAIN dev.phys :
            dev.phys[i].pu /\ ~dev.phys[i].test
            /\ (hist.list \in {"read", "single", "empty"} => dev.phys[i].tx = 1)

\* A PHY said to be initialised is ready; every pin of a chip has the
\* function it was given, wherever its register lies; what is registered
\* is what is enabled, all of it if the driver succeeds, and an SD
\* controller whose chip has its pins set up has its PHY.
BoardAsAsked ==
  /\ \A i \in DOMAIN dev.phys : hist.said[i] => dev.phys[i].ready
  /\ drv.at \in {"pci", "success"} =>
       \A c \in DOMAIN board.chips : \A p \in DOMAIN board.chips[c].pins :
         LET reg == (p - 1) \div 8
             at == IF board.chips[c].reverse THEN 0 - reg ELSE reg IN
         dev.pins[c][at][((p - 1) % 8) + 1] = board.chips[c].pins[p]
  /\ \A k \in dev.registered :
       /\ Enabled(k)
       /\ k[1] = 3 /\ k[2] <= Len(board.chips) => k[2] \in dev.sdphy
  /\ drv.at = "success" => \A i \in DOMAIN Order : Enabled(Order[i]) => Order[i] \in dev.registered

=============================================================================
