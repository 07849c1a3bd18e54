-------------------------------- MODULE Boards --------------------------------
(***************************************************************************)
(* What a board's own drivers do for the others: HiKey, HiKey960, Poplar.  *)
(* The board driver brings up clocks, resets and supplies, finds out the   *)
(* version (HiKey960), registers the SD and UFS controllers and offers the *)
(* kernel's arguments and tree and the one key of the virtual keyboard;    *)
(* the USB driver brings up the PHY and gives the serial number; the MMC   *)
(* driver says what a slot can.                                            *)
(*                                                                         *)
(* A routine is a sequence of steps, a step for each access that counts.   *)
(* What a register says of the hardware follows later what was asked; a    *)
(* command to the USB 3 PHY may be missed, as the wait for it ends.        *)
(***************************************************************************)
EXTENDS Integers, Sequences, FiniteSets

CONSTANTS
  Scenarios,    \* [board, adc, flash, block, nodes, blob, bits, flag]: how a board starts
  Rooms,        \* <<length, size>>: arguments and their buffer
  Controllers,  \* the handles of the SD and eMMC controllers
  Bounds        \* bounds: faults, calls

VARIABLES
  drv,    \* the drivers
  dev,    \* the board
  hist    \* history

vars == <<drv, dev, hist>>

Plan == dev.plan
HiKey == Plan.board = "HiKey"
HiKey960 == Plan.board = "HiKey960"
Poplar == Plan.board = "Poplar"

ConstantsOK ==
  /\ \A s \in Scenarios :
       /\ s.board \in {"HiKey", "HiKey960", "Poplar"} /\ s.adc \in Seq(Nat \X Nat)
       /\ {s.flash, s.blob} \subseteq BOOLEAN /\ s.flag \in {"bootloader", "none"}
  /\ Rooms \subseteq Nat \X Nat /\ Cardinality(Controllers) <= 3
  /\ \A m \in Bounds : {m.faults, m.calls} \subseteq Nat

(* --------------------------------- steps -------------------------------- *)

Bit(kind, units) == {<<kind, u>> : u \in units}
On(S) == [do |-> "on", what |-> S]
Off(S) == [do |-> "off", what |-> S]
AwaitOn(S) == [do |-> "await on", what |-> S]
AwaitOff(S) == [do |-> "await off", what |-> S]
\* What may be refused, and what needs that a unit is up.
Service(name) == [do |-> "service", what |-> name]
Use(unit) == [do |-> "use", what |-> unit]

\* A unit is up when its clock is on and it is neither in reset nor without power.
Up(unit, S) ==
  /\ <<"clk", unit>> \in S
  /\ \A kind \in {"rst", "iso", "down"} : <<kind, unit>> \notin S

(* ---------------------------- HiKey: the board -------------------------- *)

Uart(u) == <<Off(Bit("rst", {u})), On(Bit("clk", {u}))>>
UartInit ==
  Uart("uart1") \o Uart("uart2") \o Uart("uart3") \o Uart("uart4")
    \o <<Off(Bit("rst", {"mmc2"})), On(Bit("clk", {"wifi"}))>>
MtcmosInit == <<On(Bit("power", {"g3d"})), AwaitOn(Bit("power", {"g3d"}))>>
Buses == {"i2c0", "i2c1", "i2c2", "ssp"}
HiKeyInitPeripherals ==
  <<Off(Bit("rst", Buses)), AwaitOff(Bit("rst", Buses))>> \o UartInit \o MtcmosInit
HiKeyEntryPoint ==
  HiKeyInitPeripherals \o
  <<Service("mmc0"), Service("mmc1"), Service("abootimg"), Service("keyboard")>>

(* --------------------------- HiKey960: the board ------------------------ *)

InitAdc ==
  <<On(Bit("rst", {"adc"})), Off(Bit("rst", {"adc"})),
    Off(Bit("clk", {"adc"})), On(Bit("clk", {"adc"}))>>
\* A conversion is busy until the converter has a value.
AdcGetAdc(channel) ==
  <<Use("adc"), On(Bit("busy", {"adc"})), AwaitOff(Bit("busy", {"adc"})),
    [do |-> "adc", what |-> channel]>>
Reading(words) == ((words[1] * 16) % 4096) + ((words[2] \div 16) % 16)
\* In mV.
AdcGetValue(channel) == ((Reading(Plan.adc[channel + 1]) % 4096) * 1800) \div 4095
BOARDID_UNKNOW == 15
Grades == <<100, 300, 500, 700, 900, 1100, 1300, 1500, 1700, 1800>>
AdcinDataRemap(mv) ==
  IF \E g \in DOMAIN Grades : mv < Grades[g]
  THEN (CHOOSE g \in DOMAIN Grades :
          mv < Grades[g] /\ \A h \in DOMAIN Grades : mv < Grades[h] => g <= h) - 1
  ELSE BOARDID_UNKNOW
BOARDID3_BASE == 5
InitBoardId == InitAdc \o AdcGetAdc(0) \o AdcGetAdc(1) \o AdcGetAdc(2)

\* The bits of a voltage are only set: what was there before may stay.
Ldo(name, bits) == <<On(Bit(name, bits)), On(Bit("power", {name}))>>
InitSdCard ==
  Ldo("ldo16", {"b1", "b2"}) \o Ldo("ldo9", {"b0", "b2"}) \o
  <<On(Bit("clk", {"sdpll"})), AwaitOn(Bit("clk", {"sdpll"})),
    Off(Bit("rst", {"sd"})), AwaitOff(Bit("rst", {"sd"})),
    On(Bit("clk", {"sd"})), AwaitOn(Bit("clk", {"sd"}))>>
InitPeripherals ==
  <<On(Bit("clk", {"fpll0"}))>> \o InitSdCard \o <<On(Bit("clk", {"wifi", "osc32k"}))>>
HiKey960EntryPoint ==
  InitBoardId \o InitPeripherals \o
  <<Service("event"), Service("ufs"), Service("sd"), Service("abootimg"), Service("keyboard")>>

PoplarEntryPoint == <<Service("sdio2"), Service("abootimg"), Service("keyboard")>>

EntryPoint ==
  IF HiKey THEN HiKeyEntryPoint ELSE IF HiKey960 THEN HiKey960EntryPoint ELSE PoplarEntryPoint

(* -------------------------------- USB PHYs ------------------------------ *)

HiKeyDetectUsbModeInit == <<Off(Bit("pin", {"usb_sel", "hub_5v"}))>>
HiKeyGetUsbMode == "device"
Otg == {"usbotg_bus", "picophy", "usbotg", "usbotg_32k"}
HiKeyUsbPhyInit(mode) ==
  HiKeyDetectUsbModeInit \o
  <<On(Bit("clk", Otg)), AwaitOn(Bit("clk", Otg)), Off(Bit("rst", Otg)), AwaitOff(Bit("rst", Otg)),
    Off(Bit("down", {"picophy"})), On(Bit("vbus", {"picophy"}))>> \o
  IF mode # HiKeyGetUsbMode THEN <<Service("never")>>
  ELSE <<Use("picophy"), Off(Bit("bc", {"picophy"}))>>

PoparInnoUsbPhyConfig == <<Use("phy01"), On(Bit("test", {"phy01"}))>>
Usb2 == {"usb2_bus", "usb2_utmi", "usb2_hst", "usb2_otg"}
PoplarDwUSBPhyInit ==
  IF drv.Initialized THEN <<>>
  ELSE <<On(Bit("rst", Usb2)), On(Bit("rst", {"phy01", "phy01_t0", "phy01_t1"})),
         On(Bit("clk", {"phy01"})), Off(Bit("rst", {"phy01"}))>> \o PoparInnoUsbPhyConfig \o
       <<Off(Bit("rst", {"phy01_t0", "phy01_t1"})), On(Bit("clk", Usb2)), Off(Bit("rst", Usb2)),
         Use("usb2_otg"), [do |-> "initialized", what |-> "phy01"]>>
PoplarUsbPhyInit(mode) ==
  <<IF mode = "host" THEN Off(Bit("chipid", {"phy01"})) ELSE On(Bit("chipid", {"phy01"}))>>
    \o PoplarDwUSBPhyInit

\* HiKey960UsbPhyCrSetAddr, ...CrRead and ...CrWrite: commands to the PHY,
\* each with a wait for its acknowledge that ends after a time, when the
\* routine goes on as if it had come.
Cr(do, what) == [do |-> do, what |-> what]
CrSetAddr(a) == <<Cr("addr", a)>>
CrRead(a) == CrSetAddr(a) \o <<Cr("read", a)>>
CrWrite(a, v) == CrSetAddr(a) \o <<Cr("data", v), Cr("write", a)>>
SetEyeDiagramParam ==
  CrRead("rx_ovrd") \o CrWrite("rx_ovrd", "eye") \o CrRead("rx_ovrd") \o
  CrRead("rx_scope") \o CrWrite("rx_scope", "read or lfps") \o CrRead("rx_scope") \o
  <<On(Bit("vboost", {"usb3"}))>>
HiKey960UsbReset ==
  <<On(Bit("rst", {"usb3"})), On(Bit("rst", {"usb3phy"})), On(Bit("rst", {"usb3mux"})),
    Off(Bit("clk", {"usb3", "usb3phy"})), Off(Bit("mux", {"usb3phy"})), Off(Bit("txco", {"usb3"}))>>
HiKey960UsbRelease ==
  <<Off(Bit("iso", {"usb3phy"})), On(Bit("txco", {"usb3"})), Off(Bit("mux", {"usb3phy"})),
    On(Bit("clk", {"usb3", "usb3phy"})), Off(Bit("rst", {"usb3mux"})),
    On(Bit("rst", {"usb3", "usb3phy"})), On(Bit("abb", {"usb3phy"})), On(Bit("ssp", {"usb3phy"})),
    Off(Bit("down", {"usb3phy"})), Off(Bit("rst", {"usb3phy"})), Off(Bit("rst", {"usb3"})),
    On(Bit("vbus", {"usb3"}))>> \o SetEyeDiagramParam
HiKey960UsbPhyInit == HiKey960UsbReset \o HiKey960UsbRelease

PhyInit(mode) ==
  IF HiKey THEN HiKeyUsbPhyInit(mode) ELSE IF HiKey960 THEN HiKey960UsbPhyInit
  ELSE PoplarUsbPhyInit(mode)

(* -------------------------------- running ------------------------------- *)

Running == drv.pc = "run"
Busy == Running
Ready == drv.pc = "ready"
Done(status) == [drv EXCEPT !.pc = IF status # "SUCCESS" /\ drv.job = "entry" THEN "failed" ELSE "ready",
                            !.status = status]
Advance(d) == IF Len(d.todo) = 1 THEN [Done("SUCCESS") EXCEPT !.got = d.got, !.adc = d.adc, !.id = d.id,
                                         !.Initialized = d.Initialized, !.installed = d.installed, !.todo = <<>>]
              ELSE [d EXCEPT !.todo = Tail(@)]
Do == drv.todo[1].do
What == drv.todo[1].what
Going(verbs) == Running /\ Do \in verbs
Fault == hist.faults < hist.max.faults

Access ==
  /\ Going({"on", "off"})
  /\ dev' = [dev EXCEPT !.bits = IF Do = "on" THEN @ \cup What ELSE @ \ What]
  /\ drv' = Advance(drv) /\ UNCHANGED hist
Await ==
  /\ Going({"await on", "await off"})
  /\ IF Do = "await on" THEN What \subseteq dev.seen ELSE What \cap dev.seen = {}
  /\ drv' = Advance(drv) /\ UNCHANGED <<dev, hist>>
Used ==
  /\ Going({"use"})
  /\ hist' = [hist EXCEPT !.early = @ \/ ~Up(What, dev.bits)]
  /\ drv' = Advance(drv) /\ UNCHANGED dev
\* A reading that no board has ends the entry point.
Convert ==
  /\ Going({"adc"})
  /\ LET grade == AdcinDataRemap(AdcGetValue(What))
         all == Append(drv.adc, grade)
     IN drv' = IF grade = BOARDID_UNKNOW THEN Done("INVALID_PARAMETER")
               ELSE Advance([drv EXCEPT !.adc = all,
                               !.id = IF Len(all) < 3 THEN @
                                      ELSE (BOARDID3_BASE * 1000) + (all[3] * 100) + (all[2] * 10)
                                             + all[1]])
  /\ UNCHANGED <<dev, hist>>
\* A service that fails ends the routine; what was installed before stays.
Serve ==
  /\ Going({"service"})
  /\ \/ /\ What # "never"
        /\ drv' = Advance([drv EXCEPT !.installed = @ \cup {What}]) /\ UNCHANGED hist
     \/ /\ What = "never" \/ Fault
        /\ drv' = Done(IF What = "never" THEN "INVALID_PARAMETER" ELSE "OUT_OF_RESOURCES")
        /\ hist' = IF What = "never" THEN hist ELSE [hist EXCEPT !.faults = @ + 1]
  /\ UNCHANGED dev
Initialize ==
  /\ Going({"initialized"})
  /\ drv' = Advance([drv EXCEPT !.Initialized = TRUE]) /\ UNCHANGED <<dev, hist>>

\* The PHY: an address and data that are kept, and its registers.
Done960(do) ==
  CASE do = "addr" -> [dev.phy EXCEPT !.addr = What]
    [] do = "data" -> [dev.phy EXCEPT !.data = IF What = "eye" THEN {"eye"} ELSE drv.got \cup {"lfps"}]
    [] do = "read" -> [dev.phy EXCEPT !.out = dev.phy.reg[dev.phy.addr]]
    [] do = "write" -> [dev.phy EXCEPT !.reg[dev.phy.addr] = dev.phy.data]
CrWaitAck ==
  /\ Going({"addr", "data", "read", "write"})
  /\ \E missed \in IF Fault THEN BOOLEAN ELSE {FALSE} :
       LET phy == IF missed THEN dev.phy ELSE Done960(Do) IN
       /\ dev' = [dev EXCEPT !.phy = phy]
       /\ drv' = Advance(IF Do = "read" THEN [drv EXCEPT !.got = phy.out] ELSE drv)
       /\ hist' = [hist EXCEPT !.faults = IF missed THEN @ + 1 ELSE @, !.missed = @ \/ missed,
                     !.early = @ \/ ~Up("usb3phy", dev.bits)]

Step == Access \/ Await \/ Used \/ Convert \/ Serve \/ Initialize \/ CrWaitAck

\* What is reported follows; a conversion comes to its end.  Only a driver that
\* waits looks at what is reported, so that the step is left until then.
Settle ==
  LET bits == dev.bits \ Bit("busy", {"adc"}) IN
  /\ Going({"await on", "await off"})
  /\ dev.seen # bits \/ dev.bits # bits
  /\ dev' = [dev EXCEPT !.seen = bits, !.bits = bits] /\ UNCHANGED <<drv, hist>>

(* --------------------------------- calls -------------------------------- *)

Calling == Ready /\ hist.calls < hist.max.calls
Counted == [hist EXCEPT !.calls = @ + 1]

UsbPhyInit(mode) ==
  /\ Calling
  /\ drv' = [drv EXCEPT !.pc = "run", !.job = mode, !.todo = PhyInit(mode)]
  /\ hist' = Counted /\ UNCHANGED dev

\* GetSerialNo with LoadSNFromBlock: the number stored, or a new one which
\* is stored first.  Without the flash it says SUCCESS and gives nothing.
NewSerial == [magic |-> TRUE, fits |-> TRUE, text |-> "new"]
GetSerialNo ==
  /\ Calling /\ UNCHANGED drv
  /\ IF ~Plan.flash THEN hist' = Counted /\ UNCHANGED dev
     ELSE \E fault \in IF Fault THEN BOOLEAN ELSE {FALSE} :
            LET stored == dev.block.magic /\ dev.block.fits
                block == IF stored \/ fault THEN dev.block ELSE NewSerial
            IN /\ dev' = [dev EXCEPT !.block = block]
               /\ hist' = [Counted EXCEPT !.faults = IF fault THEN @ + 1 ELSE @,
                             !.usb = IF fault THEN @ ELSE block.text]

\* AbootimgAppendKernelArgs: the stored number, whatever it is, when its
\* magic is right.  The room is taken as bytes less characters; a
\* character has two bytes, and the end is one more.
Serial == IF dev.block.magic THEN dev.block.text ELSE "default"
Needed == IF HiKey960 THEN 5 ELSE 3
Appended(length, size) ==
  LET room == ((size - length) \div 2) - 1 IN IF room < Needed THEN room ELSE Needed
HIKEY960_BOARDID_V1 == 5300
Version == IF drv.id = HIKEY960_BOARDID_V1 THEN "v1" ELSE "v2"
Offered == "abootimg" \in drv.installed
AbootimgAppendKernelArgs ==
  /\ Calling /\ Offered /\ Plan.flash /\ UNCHANGED <<drv, dev>>
  /\ \E room \in Rooms, fault \in IF Fault THEN BOOLEAN ELSE {FALSE} :
       hist' = [Counted EXCEPT !.faults = IF fault THEN @ + 1 ELSE @,
                  !.args = IF fault THEN @
                           ELSE [text |-> Serial, usb |-> hist.usb, length |-> room[1],
                                 size |-> room[2], more |-> Appended(room[1], room[2]),
                                 console |-> IF HiKey960 THEN Version ELSE "none"]]

\* AbootimgUpdateDtb: a copy; on HiKey960 the LEDs and the hub of the
\* version at hand are switched on in it.  A tree without such a node is
\* left as it is.  A write that fails leaves the copy allocated.
\* Faults: 1 no memory, 2 and 3 the status and name of the LEDs, 4 of the
\* hub.
Leds == <<"leds", Version>>
Hub == <<"hub", Version>>
Last(nodes) == IF Leds \notin nodes THEN 1 ELSE IF Hub \notin nodes THEN 3 ELSE 4
SwitchedOn(nodes, k) ==
  {n \in {Leds, Hub} \cap nodes :
     /\ Leds \in nodes /\ k # 1 /\ (n = Leds => k # 2) /\ (n = Hub => k = 0)}
AbootimgUpdateDtb ==
  /\ Calling /\ Offered
  /\ \E k \in IF ~Plan.blob \/ ~Fault THEN {0} ELSE 0 .. IF HiKey960 THEN Last(Plan.nodes) ELSE 1 :
       LET status == IF ~Plan.blob \/ k > 1 THEN "INVALID_PARAMETER"
                     ELSE IF k = 1 THEN "BUFFER_TOO_SMALL" ELSE "SUCCESS"
           pages == Plan.blob /\ k # 1
       IN /\ drv' = [drv EXCEPT !.status = status]
          /\ dev' = [dev EXCEPT !.pages = @ + (IF pages THEN 1 ELSE 0)]
          /\ hist' = [Counted EXCEPT !.faults = IF k > 0 THEN @ + 1 ELSE @,
                        !.trees = IF status = "SUCCESS" THEN @ + 1 ELSE @,
                        !.leaked = IF k > 1 THEN @ + 1 ELSE @,
                        !.on = IF HiKey960 /\ pages THEN SwitchedOn(Plan.nodes, k) ELSE {}]

(* ------------------------------ the one key ----------------------------- *)

VirtualKeyboardReset == drv.gpio \/ Poplar
\* Poplar says that there is a key whether there is one or not.
VirtualKeyboardQuery ==
  CASE dev.flag = "bootloader" -> "f"
    [] Poplar -> "any"
    [] OTHER -> IF drv.gpio /\ dev.jumper THEN "f" ELSE "none"
VirtualKeyboardClear == IF dev.flag = "bootloader" THEN "none" ELSE dev.flag

\* VirtualKeyboardRegister and Reset, when the keyboard driver starts.
StartKeyboard ==
  /\ Ready /\ "keyboard" \in drv.installed /\ ~drv.gpio /\ ~Poplar
  /\ drv' = [drv EXCEPT !.gpio = TRUE] /\ UNCHANGED <<dev, hist>>
\* The keyboard's timer: a key is taken and cleared.
Tick ==
  /\ Calling /\ "keyboard" \in drv.installed /\ VirtualKeyboardReset
  /\ VirtualKeyboardQuery # "none"
  /\ dev' = [dev EXCEPT !.flag = VirtualKeyboardClear]
  /\ hist' = [Counted EXCEPT !.keys = @ + 1,
                !.asked = @ \/ (~dev.jumper /\ dev.flag = "none")]
  /\ UNCHANGED drv
Jumper ==
  /\ ~Poplar /\ Ready /\ hist.calls < hist.max.calls
  /\ dev' = [dev EXCEPT !.jumper = ~@] /\ hist' = Counted /\ UNCHANGED drv

(* -------------------------------- MMC slots ----------------------------- *)

Capabilities ==
  IF HiKey THEN <<"emmc", "sd">> ELSE IF HiKey960 THEN <<"sd">> ELSE <<"emmc">>
\* A slot belongs to the first controller that asks for it; Poplar's to all.
Mine(c) ==
  {i \in DOMAIN Capabilities :
     \/ Poplar
     \/ drv.slot[i] \in {c, "none"} /\ \A j \in 1 .. i - 1 : drv.slot[j] \notin {c, "none"}}
GetCapability ==
  \E c \in Controllers :
    /\ Calling /\ hist.told[c] = "none" /\ UNCHANGED dev
    /\ IF Mine(c) = {} THEN UNCHANGED drv /\ hist' = [Counted EXCEPT !.told[c] = "refused"]
       ELSE LET i == CHOOSE i \in Mine(c) : TRUE IN
            /\ drv' = [drv EXCEPT !.slot[i] = c]
            /\ hist' = [Counted EXCEPT !.told[c] = Capabilities[i]]

(* ----------------------------- specification ---------------------------- *)

Init ==
  \E s \in Scenarios, max \in Bounds :
    /\ dev = [plan |-> s, bits |-> s.bits, seen |-> s.bits, block |-> s.block, flag |-> s.flag,
              jumper |-> FALSE, pages |-> 0,
              phy |-> [addr |-> "other", data |-> {}, out |-> {},
                       reg |-> [other |-> {"other"}, rx_ovrd |-> {"rx"}, rx_scope |-> {"scope"}]]]
    /\ drv = [pc |-> "run", job |-> "entry", todo |-> EntryPoint, status |-> "SUCCESS", got |-> {},
              adc |-> <<>>, id |-> 0, Initialized |-> FALSE, installed |-> {}, gpio |-> FALSE,
              slot |-> [i \in 1 .. 2 |-> "none"]]
    /\ hist = [max |-> max, faults |-> 0, calls |-> 0, early |-> FALSE, missed |-> FALSE,
               usb |-> "none", trees |-> 0, leaked |-> 0, on |-> {}, keys |-> 0, asked |-> FALSE,
               told |-> [c \in Controllers |-> "none"],
               args |-> [text |-> "none", usb |-> "none", length |-> 0, size |-> 0, more |-> 0,
                         console |-> "none"]]

Next ==
  \/ Step \/ Settle \/ GetSerialNo \/ AbootimgAppendKernelArgs \/ AbootimgUpdateDtb
  \/ StartKeyboard \/ Tick \/ Jumper \/ GetCapability
  \/ \E mode \in {"device", "host"} : UsbPhyInit(mode)

Spec == Init /\ [][Next]_vars /\ WF_vars(Step) /\ WF_vars(Settle)

(* ------------------------------ properties ------------------------------ *)

\* No unit is accessed before its clock is on, it is powered and out of
\* reset (HiKey960UsbDxe.c:239-242, PoplarUsbDxe.c:84-103); the SD
\* controller of HiKey960 is reported up before it is registered.
UsedWhenUp ==
  /\ ~hist.early
  /\ "sd" \in drv.installed => Up("sd", dev.seen)
  /\ HiKey /\ drv.installed # {} => <<"power", "g3d">> \in dev.seen

\* When no command was missed the PHY's two registers, and no other, have
\* their parameters, and keep what they had beside (HiKey960UsbDxe.c:161).
EyeIsSet ==
  Ready /\ HiKey960 /\ drv.job # "entry" /\ ~hist.missed =>
    dev.phy.reg = [other |-> {"other"}, rx_ovrd |-> {"eye"}, rx_scope |-> {"scope", "lfps"}]

\* The console and the devices switched on are of one version, which the
\* readings tell, and the hub is on only with the LEDs
\* (HiKey960Dxe.c:253, 412, 472, 497).
VersionsAgree ==
  /\ hist.args.console # "none" => \A n \in hist.on : n[2] = hist.args.console
  /\ Hub \in hist.on => Leds \in hist.on
  /\ drv.id # 0 =>
       /\ drv.id \in 5000 .. 5999
       /\ \A c \in 0 .. 2 : \E d \in 0 .. 9 :
            AdcinDataRemap(AdcGetValue(c)) = d /\ (drv.id \div <<1, 10, 100>>[c + 1]) % 10 = d

\* The kernel is told the number that a host on USB was told before
\* (HiKeyDxe.c:182), all of it where there is room in the buffer.
SerialsAgree ==
  /\ hist.args.text # "none" /\ hist.args.usb # "none" => hist.args.text = hist.args.usb
  /\ hist.args.text # "none" /\ 2 * (hist.args.length + Needed + 1) <= hist.args.size =>
       hist.args.more = Needed

\* A copy of the tree is the kernel's or given back, unless a node could
\* not be written (HiKey960Dxe.c:489, 494, 514); a key is one that was
\* asked for, but on Poplar (PoplarDxe.c:225); and two controllers are not
\* told the same slot, again but on Poplar (HiKeyMmcDxe.c:63-75).
GivenOnce ==
  /\ dev.pages = hist.trees + hist.leaked
  /\ hist.asked => Poplar
  /\ \A c, d \in Controllers : c # d /\ hist.told[c] = hist.told[d] /\ ~Poplar =>
       hist.told[c] \in {"none", "refused"}

\* A routine ends, as the hardware does what it is asked (HiKeyDxe.c:98-100).
Ends == Busy ~> ~Busy

=============================================================================
