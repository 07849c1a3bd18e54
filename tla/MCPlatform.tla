------------------------------ MODULE MCPlatform ------------------------------
(***************************************************************************)
(* Buses, input and parsing: the Hisilicon PCI host bridge and its I/O,    *)
(* the Marvell I2C master with the EEPROM behind it, the DesignWare USB 2  *)
(* function under fastboot, the PP2 packet parser, the virtual keyboard,   *)
(* and the clocks with their I2C library.  A behaviour is one of one of    *)
(* them.                                                                   *)
(***************************************************************************)
EXTENDS Integers, Sequences, FiniteSets

VARIABLES which, drv, dev, call, hist

vars == <<which, drv, dev, call, hist>>

Ask(len, mask) == [len |-> len, mask |-> mask]
B == INSTANCE PciHostBridge WITH
  Bridges <- <<1, 2>>, MemBase <- <<8, 16>>, MemLimit <- <<15, 19>>,
  BusBase <- <<1, 3>>, BusLimit <- <<2, 4>>,
  Submissions <-
    <<UNION {[S -> {Ask(2, 1), Ask(4, 3), Ask(3, 0)}] : S \in {{"Mem32"}, {"PMem32", "PMem64"}}},
      {[t \in {"Mem32"} |-> Ask(4, 3)],
       [t \in {"Io", "PMem64"} |-> IF t = "Io" THEN Ask(1, 0) ELSE Ask(2, 2)]}>>,
  Bounds <- {[rounds |-> <<2, 0>>, faults |-> 1, asks |-> 0],
             [rounds |-> <<1, 1>>, faults |-> 1, asks |-> 0],
             [rounds |-> <<1, 1>>, faults |-> 0, asks |-> 1]}

R == INSTANCE PciRootBridgeIo WITH
  MemBase <- 4, MemLimit <- 11, PciRegionBase <- 6, PciRegionLimit <- 13, CpuMemRegionBase <- 4,
  IoBase <- 0, IoLimit <- 27, CpuIoRegionBase <- 24, Ecam <- 40,
  BusBase <- 1, BusLimit <- 3, TickPeriod <- 2,
  Bounds <- {[op |-> "CopyMem", calls |-> 1, changes |-> 0],
             [op |-> "MemWrite", calls |-> 1, changes |-> 0],
             [op |-> "Poll", calls |-> 1, changes |-> 2],
             [op |-> "PciRead", calls |-> 1, changes |-> 2],
             [op |-> "PciWrite", calls |-> 1, changes |-> 2],
             [op |-> "IoWrite", calls |-> 2, changes |-> 0],
             [op |-> "IoRead", calls |-> 1, changes |-> 0],
             [op |-> "MemRead", calls |-> 1, changes |-> 0],
             [op |-> "Dma", calls |-> 3, changes |-> 0],
             [op |-> "Attributes", calls |-> 1, changes |-> 0]}

EepromCall(op, addr, len) == [op |-> op, addr |-> addr, len |-> len]
Slave(addr, bus) == [addr |-> addr, bus |-> bus]
I == INSTANCE MvI2c WITH
  Chunk <- 2, PageSize <- 2, Size <- 6,
  Transfers <- {EepromCall("read", 0, 3), EepromCall("read", 1, 2),
                EepromCall("write", 0, 4), EepromCall("write", 1, 2)},
  Slaves <- <<Slave(87, 0), Slave(33, 1), Slave(96, 0)>>, Eeproms <- <<Slave(87, 0)>>,
  BusCount <- 2, Clock <- 250000,
  Boards <- {[bus |-> 0, baud |-> 100], [bus |-> 1, baud |-> 400], [bus |-> 2, baud |-> 100]},
  Bounds <- {[calls |-> 2, nacks |-> 1, faults |-> 0, stops |-> 0],
             [calls |-> 2, nacks |-> 0, faults |-> 1, stops |-> 1]}

U == INSTANCE DwUsb2 WITH
  CMD_SIZE <- 2, DATA_SIZE <- 4, Command <- 1, TopDigit <- 11, Packet <- 2,
  Bounds <- {[commands |-> 2, setups |-> 0, resets |-> 0, sizes |-> {4, 9, 13}],
             [commands |-> 1, setups |-> 1, resets |-> 1, sizes |-> {5}]}

P == INSTANCE Pp2Parser WITH
  Port <- {0, 1}, MVPP2_PRS_TCAM_SRAM_SIZE <- 63,
  Unicast <- {<<2, 0, 0, 0, 0, n>> : n \in 1 .. 2}, AiPairs <- {<<{0}, {1}>>},
  Bounds <- {[calls |-> 4, faults |-> 0], [calls |-> 3, faults |-> 1]}

Reg(key, shift, fn) == [key |-> key, shift |-> shift, fn |-> fn]
K == INSTANCE VirtualKeyboard WITH
  QUEUE_MAX_COUNT <- 3, Nodes <- 2,
  Registrations <- {Reg("f", "none", "F"), Reg("f", "valid", "F"),
                    Reg("f", "valid", "G"), Reg("g", "control", "G")},
  Bounds <- {[presses |-> 3, calls |-> 2, starts |-> 1], [presses |-> 1, calls |-> 5, starts |-> 1],
             [presses |-> 2, calls |-> 2, starts |-> 3]}

Moment(y, mo, d, h, mi, s) ==
  [Year |-> y, Month |-> mo, Day |-> d, Hour |-> h, Minute |-> mi, Second |-> s]
Given(t) == [x \in DOMAIN t \cup {"TimeZone"} |-> IF x = "TimeZone" THEN 2047 ELSE t[x]]
ClockStarts == {Moment(1900, 1, 1, 0, 0, 0), Moment(2016, 2, 28, 23, 59, 58)}
ClockSets == {Given(Moment(2020, 2, 28, 23, 59, 59)), Given(Moment(2001, 2, 29, 1, 1, 1)),
              Given(Moment(2012, 10, 31, 19, 59, 58))}
D == INSTANCE Clocks WITH
  Days <- {10956, 11016, 47481}, Moments <- {0, 86399}, Zones <- {-1440, 120, 2047},
  Daylights <- {0, 3},
  Walks <- {[from |-> 0, for |-> 800], [from |-> 10900, for |-> 500],
            [from |-> 47400, for |-> 300]},
  VirtualBounds <- {[sets |-> 1, ticks |-> 2, resets |-> 1, faults |-> 1],
                    [sets |-> 2, ticks |-> 1, resets |-> 0, faults |-> 1],
                    [sets |-> 0, ticks |-> 0, resets |-> 0, faults |-> 0]},
  Starts <- ClockStarts \cup {Moment(2019, 12, 31, 12, 59, 58)}, Sets <- ClockSets,
  Shared <- FALSE, Tries <- 1,
  Bounds <- {[calls |-> 2, ticks |-> 2, faults |-> 1, turns |-> 0]}
E == INSTANCE Clocks WITH
  Days <- {}, Moments <- {}, Zones <- {}, Daylights <- {}, Walks <- {}, VirtualBounds <- {},
  Starts <- ClockStarts, Sets <- ClockSets, Shared <- TRUE, Tries <- 2,
  Bounds <- {[calls |-> 1, ticks |-> 1, faults |-> 1, turns |-> 1],
             [calls |-> 1, ticks |-> 0, faults |-> 0, turns |-> 2]}

I2cCall(op, slave, type, offset, len) ==
  [op |-> op, slave |-> slave, type |-> type, offset |-> offset, len |-> len, data |-> 100]
H == INSTANCE HisiI2c WITH
  Depth <- 3, I2C_TXRX_THRESHOLD <- 1, I2C_READ_TIMEOUT <- 2, AddressBytes <- 1,
  Memory <- <<11, 12, 13, 14>>,
  Calls <- {I2cCall("write", "present", 0, 1, 3), I2cCall("read", "present", 0, 0, 2),
            I2cCall("read", "absent", 0, 0, 1), I2cCall("write", "absent", 0, 0, 1),
            I2cCall("readmulti", "present", 0, 0, 2), I2cCall("writemulti", "present", 2, 0, 1),
            I2cCall("read", "present", 1, 0, 2)},
  Bounds <- {[calls |-> 2]}

Phy(m, fiber, pmd, gige) == [model |-> m, fiber |-> fiber, pmd |-> pmd, gige |-> gige]
Partner(speed, full, pause, asym) ==
  [speed |-> speed, full |-> full, pause |-> pause, asym |-> asym]
Y == INSTANCE NetPhys WITH
  mii_anegticks <- 2,
  Phys <- {Phy("E1149", FALSE, "T", TRUE), Phy("E3016", FALSE, "T", FALSE),
           Phy("E1112", TRUE, "P", TRUE)},
  Partners <- {Partner(1000, TRUE, TRUE, TRUE), Partner(10, FALSE, TRUE, FALSE)},
  E1000Bounds <- {[changes |-> 2, faults |-> 0], [changes |-> 1, faults |-> 1]},
  Connections <- {"RGMII", "RGMII_RXID", "SGMII", "RTBI"}, PcdPhyDeviceIds <- <<0>>,
  PcdPhyStartupAutoneg <- TRUE, Patience <- 2,
  Bounds <- {[changes |-> 1, faults |-> 0, polls |-> 1],
             [changes |-> 0, faults |-> 1, polls |-> 1]}

PciePort(in, gen, hangs, stuck) == [in |-> in, gen |-> gen, hangs |-> hangs, stuck |-> stuck]
NoPort == PciePort(FALSE, 3, FALSE, {})
PortPlans ==
  {<<PciePort(TRUE, 1, FALSE, {}), NoPort, PciePort(TRUE, 0, FALSE, {})>>,
   <<PciePort(TRUE, 3, TRUE, {}), NoPort, NoPort>>,
   <<NoPort, PciePort(TRUE, 3, FALSE, {"local"}), NoPort>>,
   <<PciePort(TRUE, 1, FALSE, {"clock"}), PciePort(TRUE, 1, FALSE, {"hilink"}), NoPort>>,
   <<PciePort(TRUE, 1, FALSE, {"pll"}), NoPort, PciePort(TRUE, 3, FALSE, {})>>}
V == INSTANCE PciePortInit WITH Lib <- "Pv660", Plans <- PortPlans, Patience <- 2
W == INSTANCE PciePortInit WITH Lib <- "Hi1610", Plans <- PortPlans, Patience <- 2

Lane(type, speed, stuck) == [type |-> type, speed |-> speed, stuck |-> stuck]
Cp110(lanes) == [chip |-> "Cp110", lanes |-> lanes, bits |-> 4]
Field(len, value) == [len |-> len, value |-> value]
Pins(n, k) == [i \in 1 .. n |-> (i * k) % 16]
Chip(pins, reverse) == [pins |-> pins, reverse |-> reverse]
A == INSTANCE ArmadaBoard WITH
  SataBase <- TRUE, Patience <- 2,
  LaneBoards <-
    {<<Cp110(<<Lane("SGMII2", 3125, {}), Lane("USB3_HOST0", 5000, {}),
               Lane("SGMII0", 1250, {"rx"}), Lane("SATA1", 5000, {})>>)>>,
     <<Cp110(<<Lane("XAUI2", 3125, {}), Lane("USB3_DEVICE", 5000, {})>>),
       Cp110(<<Lane("PCIE0", 5000, {"pclk"}), Lane("USB3_HOST0", 5001, {}),
               Lane("XAUI0", 6250, {}), Lane("SGMII1", 1250, {})>>),
       [chip |-> "other", lanes |-> <<>>, bits |-> 4]>>,
     <<Cp110(<<Lane("PCIE1", 5000, {}), Lane("SATA1", 3000, {}), Lane("PCIE0", 5000, {}),
               Lane("none", 5000, {}), Lane("SGMII0", 1250, {"tx", "rx"})>>)>>},
  Malformed <- -1,
  Lists <- {<<Field(3, 0), Field(3, 1)>>, <<Field(1, 0), Field(1, 1)>>, <<Field(3, 1)>>,
            <<Field(2, -1), Field(3, 1)>>, <<>>, <<Field(4, 5), Field(3, 0), Field(3, 1)>>},
  Boards <- {[phys |-> <<0, 1>>, stuck |-> {2},
              chips |-> <<Chip(Pins(20, 3), FALSE), Chip(Pins(64, 7), TRUE)>>,
              xhci |-> {1, 2}, ahci |-> {1}, sdhci |-> {1, 2}],
             [phys |-> <<>>, stuck |-> {}, chips |-> <<Chip(Pins(9, 3), TRUE)>>,
              xhci |-> {2}, ahci |-> {}, sdhci |-> {1, 2}]},
  Bounds <- {[faults |-> 1]}

Yukon(id, rev, dual, fiber, ram, bar) ==
  [id |-> id, rev |-> rev, dual |-> dual, link2 |-> dual, fiber |-> fiber, ram |-> ram, bar |-> bar]
Yb == INSTANCE YukonBinding WITH
  Addresses <- {3, 5}, Max <- 1,
  Chips <- {Yukon("YUKON_XL", 1, TRUE, TRUE, 48, "mem"), Yukon("YUKON_FE_P", 0, FALSE, FALSE, 0, "mem"),
            Yukon("YUKON_SUPR", 0, FALSE, FALSE, 16, "mem"), Yukon("YUKON_EX", 1, FALSE, FALSE, 16, "io")},
  Kinds <- {<<"mac", 0>>, <<"overrun", 1>>, <<"bus", 0>>, <<"fatal", 0>>},
  Bounds <- {[starts |-> 2, calls |-> 1, faults |-> 1, errors |-> 0, frames |-> 0],
             [starts |-> 1, calls |-> 4, faults |-> 0, errors |-> 2, frames |-> 1]}

Pp2(id, gop, mode, speed, phy) ==
  [id |-> id, gop |-> gop, mode |-> mode, speed |-> speed, phy |-> phy]
Pq == INSTANCE Pp2Port WITH
  MVPP2_BM_SIZE <- 2,
  Boards <- {<<Pp2(0, 0, "SGMII", 1000, FALSE), Pp2(1, 2, "SGMII", 2500, TRUE)>>,
             <<Pp2(1, 3, "RGMII", 1000, TRUE), Pp2(0, 0, "XAUI", 10000, FALSE)>>,
             <<Pp2(2, 2, "QSGMII", 100, TRUE), Pp2(1, 3, "SGMII", 10, TRUE)>>},
  Bounds <- {[faults |-> 1, frames |-> 2, calls |-> 4]}

CoreAt(cluster, core, spi) ==
  [cluster |-> cluster, core |-> core, spi |-> spi, mailbox |-> 100 * cluster + core]
Region(type, from, to) == [type |-> type, from |-> from, to |-> to]
TreeOf(nodes, props) == [nodes |-> {<<n, 0, 0>> : n \in nodes}, props |-> props, rsv |-> {}]
StyxTree(nodes) ==
  TreeOf(nodes, {<<<<n, 0, 0>>, "phandle", 3>> : n \in nodes \cap {"gpio2"}})
StyxBoard(file, fvs, blob, nodes, cores, primary, psci, tfw, rev, xgbe) ==
  [system |-> "styx", file |-> file, fvs |-> fvs, blob |-> blob, tree |-> StyxTree(nodes),
   cores |-> cores, primary |-> primary, PsciOsSupport |-> psci, TrustedFWSupport |-> tfw,
   IsRevB1 |-> rev, sata1 |-> TRUE, DO_KCS |-> FALSE, DO_XGBE |-> xgbe, resource |-> <<0, 9>>,
   map |-> <<Region("RuntimeServicesCode", 0, 2), Region("ConventionalMemory", 2, 6),
             Region("ReservedMemoryType", 6, 7), Region("RuntimeServicesData", 8, 9)>>]
TwoCores == <<CoreAt(0, 0, 7), CoreAt(1, 0, 8)>>
MixedCores == <<CoreAt(0, 0, 7), CoreAt(1, 0, 8), CoreAt(1, 1, 9), CoreAt(0, 1, 10)>>
PairedCores == <<CoreAt(0, 0, 7), CoreAt(0, 1, 8), CoreAt(1, 0, 9), CoreAt(1, 1, 10)>>
StyxBoards ==
  {StyxBoard("none", <<"none", "good">>, "valid", {"memory", "psci", "gpio2", "xgmac0"}, PairedCores, 1,
             FALSE, TRUE, TRUE, TRUE),
   StyxBoard("good", <<>>, "valid", {"chosen", "pmu", "cpus"}, MixedCores, 2, TRUE, TRUE, FALSE, FALSE),
   StyxBoard("good", <<>>, "incomplete", {}, TwoCores, 1, TRUE, FALSE, TRUE, TRUE),
   StyxBoard("unreadable", <<"good">>, "valid", {}, TwoCores, 1, TRUE, FALSE, TRUE, TRUE)}
PortMac(n, mac) == <<<<"ethernet", n, 0>>, "local-mac-address", mac>>
PortTree(nodes) ==
  LET ports == IF "soc" \in nodes THEN {0, 2, 3} ELSE {}
  IN [nodes |-> {<<n, 0, 0>> : n \in nodes} \cup {<<"ethernet", n, 0>> : n \in ports},
      props |-> {PortMac(n, 50) : n \in ports} \cup
                {<<<<n, 0, 0>>, "clock-frequency", 1>> : n \in nodes \cap {"refclk"}},
      rsv |-> {}]
D0x(system, blob, nodes, macs) ==
  [system |-> system, blob |-> blob, tree |-> PortTree(nodes), macs |-> macs, nvram |-> TRUE,
   CntFrq |-> 50,
   map |-> <<Region("MemoryMappedIO", 0, 1), Region("ConventionalMemory", 1, 3),
             Region("BootServicesData", 3, 4), Region("ReservedMemoryType", 4, 5),
             Region("LoaderCode", 5, 6), Region("ConventionalMemory", 8, 9)>>]
D0xBoards ==
  {D0x(system, blob, nodes, <<11, 12, 0, 14>>) :
     system \in {"D02", "D03"}, blob \in {"valid", "invalid"},
     nodes \in {{"soc", "refclk", "memory"}, {"soc"}, {"memory"}}}
Eth(name, hid, objects, properties, scoped) ==
  [name |-> name, hid |-> hid, objects |-> objects, properties |-> properties,
   scoped |-> scoped, depth |-> IF scoped THEN 2 ELSE 1]
MacProperty == "local-mac-address"
AcpiBoards ==
  {[system |-> "acpi", tree |-> TreeOf({}, {}), macs |-> <<11, 0, 13, 14>>,
    devices |-> <<Eth(0, "HISI00C2", <<"_HID", "_DSD">>, <<MacProperty, "ae-handle">>, TRUE),
                  Eth(2, "HISI00C1", <<"_HID", "_DSD">>, <<MacProperty>>, FALSE),
                  Eth(1, "HISI00C2", <<"_HID", "_DSD">>, <<MacProperty>>, TRUE),
                  Eth(3, "HISI00C2", <<"_DSD", "_HID">>, <<MacProperty>>, TRUE),
                  Eth(3, "HISI00C2", <<"_HID", "_DSD">>, <<"ae-handle", MacProperty>>, TRUE),
                  Eth(0, "other", <<"_HID", "_DSD">>, <<MacProperty>>, TRUE)>>]}
Dt == INSTANCE DeviceTree WITH
  MacLen <- 3, Boards <- StyxBoards \cup D0xBoards \cup AcpiBoards, Bounds <- {[faults |-> 1]}

Number(magic, fits, text) == [magic |-> magic, fits |-> fits, text |-> text]
BoardStart(board, adc, flash, block, nodes, blob, bits, flag) ==
  [board |-> board, adc |-> adc, flash |-> flash, block |-> block, nodes |-> nodes, blob |-> blob,
   bits |-> bits, flag |-> flag]
OldBits == {<<"rst", "i2c0">>, <<"rst", "uart2">>, <<"rst", "sd">>, <<"iso", "usb3phy">>, <<"down", "usb3phy">>,
            <<"rst", "picophy">>, <<"down", "picophy">>, <<"ldo9", "b1">>}
BoardStarts ==
  {BoardStart("HiKey", <<>>, TRUE, Number(TRUE, FALSE, "odd"), {}, TRUE, OldBits, "bootloader"),
   BoardStart("HiKey960", <<<<0, 0>>, <<0, 255>>, <<43, 0>>>>, TRUE, Number(FALSE, TRUE, "old"),
              {<<"leds", "v1">>, <<"leds", "v2">>, <<"hub", "v1">>}, TRUE, OldBits, "bootloader"),
   BoardStart("HiKey960", <<<<18, 16>>, <<3, 0>>, <<250, 255>>>>, TRUE, Number(TRUE, TRUE, "old"),
              {<<"leds", "v2">>, <<"hub", "v2">>, <<"hub", "v1">>}, TRUE, {}, "none"),
   BoardStart("HiKey960", <<<<255, 240>>, <<3, 0>>, <<250, 255>>>>, TRUE, Number(TRUE, TRUE, "old"),
              {}, TRUE, {}, "none"),
   BoardStart("Poplar", <<>>, FALSE, Number(TRUE, TRUE, "old"), {}, FALSE, {}, "none"),
   BoardStart("Poplar", <<>>, TRUE, Number(TRUE, TRUE, "old"), {}, TRUE, {}, "bootloader")}
Bd == INSTANCE Boards WITH
  Scenarios <- BoardStarts, Rooms <- {<<0, 16>>, <<4, 20>>}, Controllers <- {"c1", "c2", "c3"},
  Bounds <- {[faults |-> 0, calls |-> 3], [faults |-> 1, calls |-> 2]}

ASSUME PlatformAssumption ==
  B!ConstantsOK /\ R!ConstantsOK /\ I!ConstantsOK /\ U!ConstantsOK
  /\ P!ConstantsOK /\ K!ConstantsOK /\ D!ConstantsOK /\ E!ConstantsOK
  /\ H!ConstantsOK /\ Y!ConstantsOK
  /\ V!ConstantsOK /\ W!ConstantsOK /\ A!ConstantsOK /\ Yb!ConstantsOK
  /\ Pq!ConstantsOK /\ Dt!ConstantsOK /\ Bd!ConstantsOK

PciHostBridge == which = "PciHostBridge"
PciRootBridgeIo == which = "PciRootBridgeIo"
MvI2c == which = "MvI2c"
DwUsb2 == which = "DwUsb2"
Pp2Parser == which = "Pp2Parser"
VirtualKeyboard == which = "VirtualKeyboard"
VirtualRtc == which = "VirtualRtc"
Ds3231 == which = "Ds3231"
Ds3231D03 == which = "Ds3231D03"
HisiI2c == which = "HisiI2c"
E1000Phy == which = "E1000Phy"
MvPhy == which = "MvPhy"
Pv660Pcie == which = "Pv660Pcie"
Hi1610Pcie == which = "Hi1610Pcie"
ComPhy == which = "ComPhy"
ArmadaBoard == which = "ArmadaBoard"
YukonBinding == which = "YukonBinding"
Pp2Port == which = "Pp2Port"
DeviceTree == which = "DeviceTree"
Boards == which = "Boards"

NoCall == call = "none"
Init ==
  \/ which = "PciHostBridge" /\ B!Init /\ NoCall
  \/ which = "PciRootBridgeIo" /\ R!Init /\ NoCall
  \/ which = "MvI2c" /\ I!Init /\ NoCall
  \/ which = "DwUsb2" /\ U!Init /\ NoCall
  \/ which = "Pp2Parser" /\ P!Init /\ dev = "parser" /\ NoCall
  \/ which = "VirtualKeyboard" /\ K!Init
  \/ which = "VirtualRtc" /\ D!VirtualInit /\ NoCall
  \/ which = "Ds3231" /\ D!Init
  \/ which = "Ds3231D03" /\ E!Init
  \/ which = "HisiI2c" /\ H!Init /\ NoCall
  \/ which = "E1000Phy" /\ Y!E1000Init /\ NoCall
  \/ which = "MvPhy" /\ Y!MvPhyStart
  \/ which = "Pv660Pcie" /\ V!Init /\ NoCall
  \/ which = "Hi1610Pcie" /\ W!Init /\ NoCall
  \/ which = "ComPhy" /\ A!LanesInit /\ NoCall
  \/ which = "ArmadaBoard" /\ A!Init /\ NoCall
  \/ which = "YukonBinding" /\ Yb!Init /\ NoCall
  \/ which = "Pp2Port" /\ Pq!Init /\ NoCall
  \/ which = "DeviceTree" /\ Dt!Init /\ NoCall
  \/ which = "Boards" /\ Bd!Init /\ NoCall

Next ==
  /\ \/ PciHostBridge /\ B!Next /\ UNCHANGED call
     \/ PciRootBridgeIo /\ R!Next /\ UNCHANGED call
     \/ MvI2c /\ I!Next /\ UNCHANGED call
     \/ DwUsb2 /\ U!Next /\ UNCHANGED call
     \/ Pp2Parser /\ P!Next /\ UNCHANGED <<dev, call>>
     \/ VirtualKeyboard /\ K!Next
     \/ VirtualRtc /\ D!VirtualNext /\ UNCHANGED call
     \/ Ds3231 /\ D!Next
     \/ Ds3231D03 /\ E!Next
     \/ HisiI2c /\ H!Next /\ UNCHANGED call
     \/ E1000Phy /\ Y!E1000Next /\ UNCHANGED call
     \/ MvPhy /\ Y!MvPhyNext
     \/ Pv660Pcie /\ V!Next /\ UNCHANGED call
     \/ Hi1610Pcie /\ W!Next /\ UNCHANGED call
     \/ ComPhy /\ A!LanesNext /\ UNCHANGED call
     \/ ArmadaBoard /\ A!Next /\ UNCHANGED call
     \/ YukonBinding /\ Yb!Next /\ UNCHANGED call
     \/ Pp2Port /\ Pq!Next /\ UNCHANGED call
     \/ DeviceTree /\ Dt!Next /\ UNCHANGED call
     \/ Boards /\ Bd!Next /\ UNCHANGED call
  /\ UNCHANGED which

\* One condition for the drivers, two for what they wait for.
Step(act) == act /\ UNCHANGED which
Alone(act) == act /\ UNCHANGED call
Fairness ==
  /\ WF_vars(Step(\/ PciRootBridgeIo /\ Alone(R!Work)
                  \/ MvI2c /\ Alone(I!Work)
                  \/ DwUsb2 /\ Alone(U!Work)
                  \/ VirtualKeyboard /\ K!Work
                  \/ Ds3231 /\ D!Work
                  \/ Ds3231D03 /\ E!Work
                  \/ HisiI2c /\ Alone(H!Library)
                  \/ E1000Phy /\ Alone(Y!E1000Work)
                  \/ MvPhy /\ Y!MvPhyWork
                  \/ Pv660Pcie /\ Alone(V!Work)
                  \/ Hi1610Pcie /\ Alone(W!Work)
                  \/ ComPhy /\ Alone(A!LanesWork)
                  \/ ArmadaBoard /\ Alone(A!Work)
                  \/ DeviceTree /\ Alone(Dt!Work)
                  \/ Boards /\ Alone(Bd!Step)))
  /\ WF_vars(Step(\/ DwUsb2 /\ Alone(U!Core)
                  \/ VirtualKeyboard /\ K!Timer
                  \/ HisiI2c /\ Alone(H!Controller)
                  \/ E1000Phy /\ Alone(Y!e1000phy_tick)
                  \/ MvPhy /\ Y!Phy
                  \/ Pv660Pcie /\ Alone(V!Hardware)
                  \/ Hi1610Pcie /\ Alone(W!Hardware)
                  \/ Boards /\ Alone(Bd!Settle)))
  /\ WF_vars(Step(\/ DwUsb2 /\ Alone(U!Host)
                  \/ E1000Phy /\ Alone(Y!Negotiate)))

Spec == Init /\ [][Next]_vars /\ Fairness

\* What a driver keeps about its hardware is what the hardware holds: PCI
\* nodes and the GCD's ranges, the parser's shadow and its table, the
\* count of a download and the armed receive; a queue of keys loses none
\* that it took; a clock shows its century and a bus is not kept.
RecordsInStep ==
  /\ PciHostBridge => B!NodesMatchGcd
  /\ Pp2Parser => P!TableInStep
  /\ DwUsb2 => U!CountInStep
  /\ VirtualKeyboard => K!KeysInOrder /\ K!EventsLive
  /\ Ds3231 => D!InThisCentury
  /\ Ds3231D03 => E!BusIsOurs /\ E!InThisCentury
  /\ HisiI2c => H!StopsLeaveRest
  /\ E1000Phy => Y!PagesKept
  /\ MvPhy => Y!SetUpAsConnected
  /\ Pv660Pcie => V!WritesLand
  /\ Hi1610Pcie => W!WritesLand
  /\ ComPhy => A!LanesAsAsked /\ A!ReleasedReady
  /\ ArmadaBoard => A!PhysInOrder
  /\ YukonBinding => Yb!ChipIsOurs /\ Yb!NothingDangles /\ Yb!MediumKnown /\ Yb!FiltersAndQueues
  /\ Pp2Port => Pq!PortsApart /\ Pq!MacsAsAsked
  /\ DeviceTree => Dt!InstalledIsAlive /\ Dt!CoresDescribed
  /\ Boards => Bd!UsedWhenUp /\ Bd!EyeIsSet /\ Bd!VersionsAgree

\* What a call or a packet is answered is true: resources that fit are
\* proposed, accesses and transfers change what they name and nothing
\* else, replies are those meant, frames are taken by their port and
\* parsed as they were built, functions hear of their own keys, clocks
\* tell the time they were set to, bytes on a bus arrive.
ResultsAreTrue ==
  /\ PciHostBridge => B!FallingRequestsFit /\ B!ProposalsAreTrue
  /\ PciRootBridgeIo => R!MemoryMoves /\ R!AccessesAreTrue
  /\ MvI2c => I!TransfersLand /\ I!EnumerationFindsAll
  /\ DwUsb2 => U!RepliesArrive
  /\ Pp2Parser => P!AddressesAccepted /\ P!ParsedAsBuilt
  /\ VirtualKeyboard => K!NotifiedTruly
  /\ VirtualRtc => D!ToldIsSet /\ D!CalendarFollowed
  /\ Ds3231 => D!TellsTheTime
  /\ Ds3231D03 => E!TellsTheTime
  /\ HisiI2c => H!BytesArrive
  /\ E1000Phy => Y!MacFollows
  /\ MvPhy => Y!LinkIsTrue
  /\ Pv660Pcie => V!OutcomesAreTrue
  /\ Hi1610Pcie => W!OutcomesAreTrue
  /\ ComPhy => A!SaidTruly
  /\ ArmadaBoard => A!BoardAsAsked
  /\ YukonBinding => Yb!StartsAndStops /\ Yb!QuietAtExit /\ Yb!ErrorsAreCleared
  /\ Pp2Port => Pq!HaltedIsQuiet /\ Pq!InitializedWorks
  /\ DeviceTree => Dt!MemoryTold /\ Dt!MacsAreOwn /\ Dt!UpdatedOrNone
  /\ Boards => Bd!SerialsAgree /\ Bd!GivenOnce

\* A call ends, a download comes to its end (see DwUsb2 for when not), a
\* key that is pressed or queued for functions is taken.
CallsEnd ==
  (\/ PciRootBridgeIo /\ R!Busy
   \/ MvI2c /\ I!Running
   \/ DwUsb2 /\ dev.host.state = "sends"
   \/ VirtualKeyboard /\ K!Waiting
   \/ Ds3231 /\ D!Busy
   \/ Ds3231D03 /\ E!Busy
   \/ HisiI2c /\ H!Busy
   \/ E1000Phy /\ Y!Waiting
   \/ MvPhy /\ Y!Busy
   \/ Pv660Pcie /\ V!Busy
   \/ Hi1610Pcie /\ W!Busy
   \/ ComPhy /\ A!Busy
   \/ ArmadaBoard /\ A!Busy
   \/ DeviceTree /\ Dt!Busy
   \/ Boards /\ Bd!Busy) ~>
  (/\ PciRootBridgeIo => ~R!Busy
   /\ MvI2c => ~I!Running
   /\ DwUsb2 => dev.host.state = "free" \/ U!Lost
   /\ VirtualKeyboard => ~K!Waiting
   /\ Ds3231 => ~D!Busy
   /\ Ds3231D03 => ~E!Busy
   /\ HisiI2c => ~H!Busy
   /\ E1000Phy => ~Y!Waiting
   /\ MvPhy => ~Y!Busy
   /\ Pv660Pcie => ~V!Busy
   /\ Hi1610Pcie => ~W!Busy
   /\ ComPhy => ~A!Busy
   /\ ArmadaBoard => ~A!Busy
   /\ DeviceTree => ~Dt!Busy
   /\ Boards => ~Bd!Busy)

=============================================================================
