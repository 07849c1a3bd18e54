------------------------------ MODULE XenonCard ------------------------------
(***************************************************************************)
(* Drivers/SdMmc/XenonDxe: how the driver finds out what card is in the    *)
(* slot and sets card and host to the fastest bus both have (EmmcDevice.c, *)
(* SdDevice.c, the register routines of SdMmcPciHci.c and the set-up in    *)
(* XenonSdhci.c).  Each routine of the source that sends commands is a     *)
(* sequence of steps here.                                                 *)
(***************************************************************************)
EXTENDS SdMmcCard

CONSTANTS
  Transfers,  \* requests with data: [data, len, table], addresses in units
  LineMax,    \* ADMA_MAX_DATA_PER_LINE, 64 KB
  Limit       \* 4 GB

\* A capability: flags, the width of the data bus and the base clock.
ConstantsOK ==
  /\ MaxTries \in Nat \ {0}
  /\ \A m \in Bounds : {m.faults, m.starts, m.transfers} \subseteq Nat
  /\ {LineMax, Limit, MaxSlot} \subseteq Nat \ {0}
  /\ \A t \in Transfers : t.len > 0 /\ {t.data, t.table} \subseteq Nat
  /\ \A c \in Caps : c.base \in Nat \ {0} /\ c.ver \in 0 .. 2

(* --------------------------- host registers ---------------------------- *)

\* HOST_CTRL1 (width, hs), HOST_CTRL2 (mode, v18, tuned), clock and power.
Off == [width |-> 1, ddr |-> FALSE, hs |-> FALSE, mode |-> 0, v18 |-> FALSE,
        tuned |-> FALSE, clock |-> 0, supplied |-> 0, power |-> FALSE]

\* SdMmcHcClockSupply: the least divisor that is not faster than what is
\* asked for; controllers before version 3 have powers of two.
Divisor(base, freq, ver) ==
  LET least == CHOOSE d \in 1 .. base : base <= freq * 2 * d
                 /\ (d = 1 \/ base > freq * 2 * (d - 1))
  IN IF freq >= base THEN 0
     ELSE IF ver = 2 \/ least \in {2^k : k \in 0 .. 7} THEN least
     ELSE CHOOSE p \in {2^k : k \in 1 .. 10} : least < p /\ p < 2 * least
SettingFreq(base, d) == IF d = 0 THEN base ELSE base \div (2 * d)
SdMmcHcClockSupply(host, cap, freq) ==
  LET f == SettingFreq(cap.base, Divisor(cap.base, freq, cap.ver)) IN
    [host EXCEPT !.clock = f, !.supplied = f]
SdMmcHcInitClockFreq(host, cap) == SdMmcHcClockSupply(host, cap, 4)

SdMmcHcStopClock(host) == [host EXCEPT !.clock = 0]
SdMmcHcSetBusWidth(host, w) == [host EXCEPT !.width = w]

\* SdMmcHcInitPowerVoltage with SdMmcHcPowerControl.
SdMmcHcInitPowerVoltage(host, cap) ==
  [host EXCEPT !.power = TRUE, !.v18 = @ \/ ~cap.v33]

\* SdMmcHcReset, then SdMmcHcInitHost.
ResetAndInitHost(cap) ==
  SdMmcHcInitPowerVoltage(SdMmcHcInitClockFreq(Off, cap), cap)

\* A clock that is a divisor of the highest, found from above.
XenonSetClk(host, freq) == [host EXCEPT !.clock = freq, !.supplied = freq]
XenonSetPower(host) == [host EXCEPT !.power = TRUE]

\* The card's clock is off while the PHY is set, and comes back.
XenonPhyInit(host) == [SdMmcHcStopClock(host) EXCEPT !.clock = host.supplied]
XenonSetPhy(host) == XenonPhyInit(host)

\* XenonInit: the width and mode an earlier start has left are kept.
XenonInit(host) ==
  XenonPhyInit(XenonSetClk(XenonSetPhy(XenonSetClk(XenonSetPower(host), 4000)), 1))

\* What Start makes of the capabilities: one slot of four bits in SDR25,
\* without the modes beyond it, but with HS400 if the register says so.
SdMmcHcGetCapability(cap) ==
  [cap EXCEPT !.sdr104 = FALSE, !.ddr50 = FALSE, !.sdr50 = FALSE, !.w8 = FALSE]

\* The settings that the routines make.
SettingOf(s, host, cap) ==
  CASE s.name = "SetBusWidth" -> SdMmcHcSetBusWidth(host, s.arg)
    [] s.name = "HighSpeed" -> [host EXCEPT !.hs = TRUE]
    [] s.name = "Mode" -> [host EXCEPT !.mode = s.arg, !.ddr = s.arg \in {4, 5}]
    [] s.name = "StopClock" -> SdMmcHcStopClock(host)
    [] s.name = "StartClock" -> [host EXCEPT !.clock = host.supplied]
    [] s.name = "Clock" -> SdMmcHcClockSupply(host, cap, s.arg)
    [] s.name = "InitClock" -> SdMmcHcInitClockFreq(host, cap)
    [] s.name = "Signal18" -> [host EXCEPT !.v18 = TRUE]
    [] s.name = "Tune" -> [host EXCEPT !.tuned = FALSE]
    [] s.name = "Tuned" -> [host EXCEPT !.tuned = TRUE]
    [] s.name = "PowerOff" -> [host EXCEPT !.power = FALSE]

\* Those that wait for the hardware.
MayFail(s) == s.name \in {"StopClock", "StartClock", "Clock", "Lines"}

(* ------------------------------ EmmcDevice ----------------------------- *)

EmmcReset == <<Cmd("GO_IDLE")>>
EmmcGetOcr == <<Cmd("SEND_OP_COND"), Choose("EmmcOcr")>>
EmmcGetAllCid == <<Cmd("ALL_SEND_CID")>>
EmmcSetRca == <<Cmd("SET_RELATIVE_ADDR")>>
EmmcGetCsd == <<Cmd("SEND_CSD")>>
EmmcSelect == <<Cmd("SELECT")>>
EmmcGetExtCsd == <<Cmd("SEND_EXT_CSD")>>
EmmcSwitch(field, value) == <<CmdArg(field, value)>>
EmmcSendStatus == <<Cmd("SEND_STATUS")>>
EmmcSendTuningBlk == <<Cmd("TUNING")>>

\* Slip: the status after the switch is not looked at.
SwitchBusWidthBlindly(ddr, w) ==
  EmmcSwitch("SWITCH_WIDTH", [width |-> w, ddr |-> ddr]) \o EmmcSendStatus
    \o <<Host("SetBusWidth", w)>>

EmmcSwitchBusWidth(ddr, w) ==
  EmmcSwitch("SWITCH_WIDTH", [width |-> w, ddr |-> ddr]) \o EmmcSendStatus
    \o <<SwitchStatus, Host("SetBusWidth", w)>>

EmmcSwitchClockFreq(timing, freq) ==
  EmmcSwitch("SWITCH_TIMING", timing) \o EmmcSendStatus
    \o <<SwitchStatus, Host("Clock", freq)>>

EmmcTuningClkForHs200 == <<Host("Tune", 0)>> \o EmmcSendTuningBlk \o <<Choose("Tuning")>>

EmmcSwitchToHighSpeed(freq, ddr, w) ==
  EmmcSwitchBusWidth(ddr, w)
    \o <<Host("HighSpeed", 0),
         Host("Mode", IF ddr THEN 4 ELSE IF freq = 520 THEN 1 ELSE 0)>>
    \o EmmcSwitchClockFreq(1, freq)

EmmcSwitchToHS200(freq, w) ==
  EmmcSwitchBusWidth(FALSE, w)
    \o <<Host("StopClock", 0), Host("Mode", 3), Host("StartClock", 0)>>
    \o EmmcSwitchClockFreq(2, freq) \o EmmcTuningClkForHs200

EmmcSwitchToHS400(freq) ==
  EmmcSwitchToHS200(freq, 8) \o EmmcSwitchClockFreq(1, 520)
    \o EmmcSwitchBusWidth(TRUE, 8) \o <<Host("Mode", 5)>>
    \o EmmcSwitchClockFreq(3, freq)

EmmcSetBusMode ==
  EmmcGetCsd \o EmmcSelect \o EmmcGetExtCsd \o <<Choose("EmmcBusMode")>>

\* The mode for what EXT_CSD says; HS400 has the last word.
EmmcBusMode(types, cap) ==
  LET w == IF cap.w8 THEN 8 ELSE 4 IN
  IF "hs400" \in types /\ cap.hs400 THEN EmmcSwitchToHS400(2000)
  ELSE IF "hs200" \in types /\ cap.sdr104 THEN EmmcSwitchToHS200(2000, w)
  ELSE IF "ddr" \in types /\ cap.ddr50 THEN EmmcSwitchToHighSpeed(520, TRUE, w)
  ELSE IF "hs52" \in types /\ cap.hs THEN EmmcSwitchToHighSpeed(520, FALSE, w)
  ELSE IF "hs26" \in types /\ cap.hs THEN EmmcSwitchToHighSpeed(260, FALSE, w)
  ELSE <<>>

EmmcIdentification == EmmcReset \o EmmcGetOcr
EmmcFound == EmmcGetAllCid \o EmmcSetRca \o <<Choose("EmmcCard")>> \o EmmcSetBusMode

(* ------------------------------- SdDevice ------------------------------ *)

SdCardReset == <<Cmd("GO_IDLE")>>
SdCardVoltageCheck == <<Cmd("IF_COND")>>
SdioSendOpCond == <<Cmd("IO_SEND_OP_COND")>>
SdCardSendOpCond(arg) == <<Cmd(IF arg = 0 THEN "SD_QUERY_OP_COND" ELSE "SD_SEND_OP_COND")>>
SdCardAllSendCid == <<Cmd("ALL_SEND_CID")>>
SdCardSetRca == <<Cmd("SET_RELATIVE_ADDR")>>
SdCardSelect == <<Cmd("SELECT")>>
SdCardSetBusWidth(w) == <<CmdArg("SET_BUS_WIDTH", w)>>
SdCardSwitch(mode, set) ==
  <<IF set THEN CmdArg("SWITCH_FUNC", mode) ELSE Cmd("SWITCH_QUERY")>>
SdCardSendStatus == <<Cmd("SEND_STATUS")>>
SdCardSendTuningBlk == <<Cmd("TUNING")>>

\* The section that powers the bus off on an error.
SdCardVoltageSwitch ==
  <<Cmd("VOLTAGE_SWITCH"), Host("StopClock", 0), Host("Lines", 0),
    Host("Signal18", 0), Host("InitClock", 0), Host("Lines", 1)>>
InVoltageSwitch(s) ==
  s.name \in {"VOLTAGE_SWITCH", "Lines"}
    \/ (s.name = "StopClock" /\ Rest # <<>> /\ Rest[1].name = "Lines")

SdCardTuningClock == <<Host("Tune", 0)>> \o SdCardSendTuningBlk \o <<Choose("Tuning")>>

SdCardSwitchBusWidth(w) ==
  SdCardSetBusWidth(w) \o SdCardSendStatus \o <<SwitchStatus, Host("SetBusWidth", w)>>

SdCardSetBusMode ==
  SdCardSelect \o SdCardSwitchBusWidth(4) \o SdCardSwitch(15, FALSE)
    \o <<Choose("SdBusMode")>>

\* The access mode for what the switch function says.
AccessMode(types, cap, s18a) ==
  IF s18a /\ cap.sdr104 /\ "sdr104" \in types THEN [mode |-> 3, freq |-> 2080]
  ELSE IF s18a /\ cap.sdr50 /\ "sdr50" \in types THEN [mode |-> 2, freq |-> 1000]
  ELSE IF s18a /\ cap.ddr50 /\ "ddr50" \in types THEN [mode |-> 4, freq |-> 500]
  ELSE IF "hs" \in types THEN [mode |-> 1, freq |-> 500]
  ELSE [mode |-> 0, freq |-> 250]

SdBusMode(m, cap) ==
  SdCardSwitch(m.mode, TRUE) \o <<SwitchStatus>>
    \o (IF m.mode = 1 THEN <<Host("HighSpeed", 0)>> ELSE <<>>)
    \o <<Host("Mode", m.mode), Host("Clock", m.freq)>>
    \o (IF m.mode = 3 \/ (m.mode = 2 /\ cap.tune50) THEN SdCardTuningClock ELSE <<>>)

SdCardIdentification ==
  SdCardReset \o SdCardVoltageCheck \o SdioSendOpCond
SdNotIo == SdCardSendOpCond(0) \o SdCardSendOpCond(1) \o <<Choose("SdOcr")>>
SdFound(cap, s18a) ==
  (IF s18a /\ (cap.sdr50 \/ cap.sdr104 \/ cap.ddr50) THEN SdCardVoltageSwitch ELSE <<>>)
    \o SdCardAllSendCid \o SdCardSetRca \o <<Choose("SdCard")>> \o SdCardSetBusMode

\* S18A: the host asks for 1.8 V from version 3 on, and the card has it.
S18A == dev.cap.ver = 2 /\ dev.card.s18

(* ---------------------------- requests with data ----------------------- *)

NoTrb == [mode |-> "none", lines |-> <<>>, taken |-> {}, freed |-> <<>>]

\* BuildAdmaDescTable: a line for every LineMax of the data; the length of
\* a full one is 0 in its 16 bits.  What fails frees what it has taken,
\* but leaves it in the TRB.
AdmaLines(t) ==
  LET entries == (t.len + LineMax - 1) \div LineMax
      left(i) == t.len - (i - 1) * LineMax
  IN [i \in 1 .. entries |->
        [at |-> t.data + (i - 1) * LineMax, end |-> left(i) <= LineMax,
         length |-> IF left(i) <= LineMax THEN left(i) % LineMax ELSE 0]]
BuildAdmaDescTable(t, failure) ==
  CASE t.data >= Limit \/ t.data + t.len > Limit -> NoTrb
    [] failure = "AdmaDesc" -> NoTrb
    [] failure = "AdmaMap" ->
         [NoTrb EXCEPT !.taken = {"AdmaDesc"}, !.freed = <<"AdmaDesc">>]
    [] failure = "AdmaMap short" ->
         [NoTrb EXCEPT !.taken = {"AdmaDesc", "AdmaMap"}, !.freed = <<"AdmaDesc">>]
    [] t.table > Limit ->
         [NoTrb EXCEPT !.taken = {"AdmaDesc", "AdmaMap"}, !.freed = <<"AdmaMap", "AdmaDesc">>]
    [] OTHER ->
         [NoTrb EXCEPT !.mode = "adma", !.lines = AdmaLines(t),
                       !.taken = {"AdmaDesc", "AdmaMap"}]

NoRequest == [of |-> [data |-> 0, len |-> 1, table |-> 0], trb |-> NoTrb]

\* SdMmcFreeTrb: what the TRB names, in this order.
SdMmcFreeTrb(trb) ==
  [trb EXCEPT !.mode = "failed",
     !.freed = @ \o SelectSeq(<<"AdmaMap", "AdmaDesc", "DataMap">>, LAMBDA r : r \in trb.taken)]

\* SdMmcCreateTrb for a request with data.
SdMmcCreateTrb(t, failure) ==
  IF failure = "DataMap" THEN SdMmcFreeTrb(NoTrb)
  ELSE IF failure = "DataMap short" THEN SdMmcFreeTrb([NoTrb EXCEPT !.taken = {"DataMap"}])
  ELSE IF dev.cap.adma2
    THEN LET built == BuildAdmaDescTable(t, failure)
             trb == [built EXCEPT !.taken = @ \cup {"DataMap"}]
         IN IF built.mode = "adma" THEN trb
            ELSE SdMmcFreeTrb([trb EXCEPT !.freed = Append(@, "DataMap")])
  ELSE [NoTrb EXCEPT !.mode = IF dev.cap.sdma THEN "sdma" ELSE "pio", !.taken = {"DataMap"}]

\* A request for the card that was identified; Transfers are asked for once each.
Transfer ==
  /\ SlotIdle /\ drv.Initialized /\ hist.transfers < hist.max.transfers
  /\ \E t \in Transfers,
        failure \in {"none", "DataMap", "DataMap short", "AdmaDesc", "AdmaMap", "AdmaMap short"} :
       drv' = [drv EXCEPT !.trb = [of |-> t, trb |-> SdMmcCreateTrb(t, failure)]]
  /\ hist' = [hist EXCEPT !.transfers = @ + 1]
  /\ UNCHANGED dev

(* ------------------------------- the steps ----------------------------- *)

\* What card and host must agree on to move data.
ModeOf(card) ==
  CASE card.timing = "legacy" -> {0, 1, 2, 3, 4, 5}   \* the slow ones work in any
    [] card.timing = "hs" -> IF card.ddr THEN {4} ELSE {0, 1}
    [] card.timing \in {"hs200", "sdr104"} -> {3}
    [] card.timing = "sdr50" -> {2}
    [] card.timing = "ddr50" -> {4}
    [] card.timing = "hs400" -> {5}
Agree(card, host) ==
  /\ card.width = host.width /\ card.ddr = host.ddr
  /\ host.mode \in ModeOf(card) /\ host.power
  /\ card.v18 => host.v18

SendCommand ==
  /\ Running /\ s1.do = "command"
  /\ IF s1.name = "IO_SEND_OP_COND"
       \* Success means an SDIO device, which is not supported.
       THEN /\ \/ Answers(dev.card, s1) /\ Failed(<<>>)
               \/ /\ ~Answers(dev.card, s1) \/ Fault
                  /\ drv' = [drv EXCEPT !.todo = SdNotIo]
            /\ UNCHANGED <<dev, hist>>
       ELSE Command(s1, Agree(dev.card, dev.host),
              IF InVoltageSwitch(s1) THEN <<Host("PowerOff", 0)>> ELSE <<>>)

SetHost ==
  /\ Running /\ s1.do = "host"
  /\ HostStep(IF s1.name = "Lines" THEN dev.host
              ELSE SettingOf(s1, dev.host, dev.cap), MayFail(s1),
              IF InVoltageSwitch(s1) THEN <<Host("PowerOff", 0)>> ELSE <<>>)

\* The choices.  The wait for power-up has no limit; the tuning loop has,
\* and the host says after each block whether it is done.
Decide ==
  /\ Running /\ s1.do = "choose"
  /\ CASE s1.name = "EmmcOcr" ->
            Go(IF dev.card.state = "ready" THEN EmmcFound ELSE EmmcGetOcr)
       [] s1.name = "SdOcr" ->
            Go(IF dev.card.state = "ready" THEN SdFound(dev.cap, S18A)
               ELSE SdCardSendOpCond(1) \o <<Choose("SdOcr")>>)
       [] s1.name = "EmmcCard" ->
            drv' = [drv EXCEPT !.todo = Rest, !.CardType = "Emmc"]
       [] s1.name = "SdCard" ->
            drv' = [drv EXCEPT !.todo = Rest, !.CardType = "Sd"]
       [] s1.name = "EmmcBusMode" -> Go(EmmcBusMode(drv.resp, dev.cap))
       [] s1.name = "SdBusMode" ->
            Go(SdBusMode(AccessMode(drv.resp, dev.cap, S18A), dev.cap))
       [] s1.name = "SwitchStatus" -> ChooseSwitchStatus
       [] s1.name = "Tuning" ->
            \/ Go(<<Host("Tuned", 0)>>)
            \/ IF drv.retry < MaxTries - 1
                 THEN Again(EmmcSendTuningBlk \o <<Choose("Tuning")>>)
                 ELSE Failed(<<>>)
            \/ Failed(<<>>)
  /\ UNCHANGED <<dev, hist>>

\* The next routine of mCardTypeDetectRoutineTable, or the end of the
\* table.  Nothing sets the host back between two routines.
NextRoutine ==
  /\ ~Running /\ drv.routine > 0
  /\ drv' = IF drv.status # "ERROR"
              THEN [drv EXCEPT !.routine = 0, !.status = "SUCCESS"]
            ELSE IF drv.routine = 1
              THEN [drv EXCEPT !.routine = 2, !.status = "none",
                               !.todo = SdCardIdentification]
            ELSE [drv EXCEPT !.routine = 0, !.Initialized = FALSE]
  /\ UNCHANGED <<dev, hist>>

Identify(host, type) ==
  /\ drv.routine = 0 /\ hist.starts < hist.max.starts
  /\ drv' = [drv EXCEPT !.todo = EmmcIdentification, !.routine = 1,
               !.status = "none", !.Initialized = TRUE, !.refused = FALSE,
               !.CardType = type, !.trb = NoRequest,
               !.slots = Installed([@ EXCEPT !.enabled = {0}, !.present = TRUE])]
  /\ dev' = [dev EXCEPT !.host = host]

\* SdMmcPciHcDriverBindingStart, for the first time or after a stop, which
\* leaves the registers; and EnumerateDevice when a card comes in.
Start ==
  /\ Identify(XenonInit(dev.host), "none")
  /\ hist' = [hist EXCEPT !.starts = @ + 1,
                          !.stale = dev.host.width # 1 \/ dev.host.ddr]

\* EnumerateDevice when the card is gone.
EnumerateRemoved ==
  /\ drv.routine = 0 /\ dev.card.kind = "none" /\ drv.slots.present
  /\ drv' = [drv EXCEPT !.Initialized = FALSE, !.status = "none",
               !.slots = Installed([@ EXCEPT !.present = FALSE])]
  /\ UNCHANGED <<dev, hist>>

EnumerateInserted ==
  /\ dev.card.kind # "none" /\ hist.inserted /\ drv.slots.enabled # {}
  /\ Identify(ResetAndInitHost(dev.cap), drv.CardType)
  /\ hist' = [hist EXCEPT !.starts = @ + 1, !.stale = FALSE,
                          !.inserted = FALSE]

\* Another card is put in, also while the routines still talk to the first.
Inserted ==
  /\ dev.card.kind = "none"
  /\ \E c \in Cards : dev' = [dev EXCEPT !.card = NewCard(c)]
  /\ hist' = [hist EXCEPT !.inserted = TRUE]
  /\ UNCHANGED drv

Init ==
  /\ \E c \in Cards, cap \in Caps :
       dev = [card |-> NewCard(c), host |-> Off, cap |-> SdMmcHcGetCapability(cap)]
  /\ drv = [todo |-> <<>>, routine |-> 0, resp |-> {}, refused |-> FALSE,
            retry |-> 0, status |-> "none", CardType |-> "none",
            Initialized |-> FALSE, slots |-> NoSlots, trb |-> NoRequest]
  /\ \E max \in Bounds :
       hist = [max |-> max, faults |-> 0, starts |-> 0, transfers |-> 0,
               inserted |-> FALSE,    \* a card the driver has not seen yet
               stale |-> FALSE,       \* started with the registers of before
               mismatch |-> FALSE,    \* data moved over buses that disagree
               fast |-> FALSE,        \* a command sent faster than the card takes
               widthRefused |-> FALSE,
               lowering |-> FALSE]    \* the card slower, the clock not yet

Work == SendCommand \/ SetHost \/ Decide \/ NextRoutine
SlotCalls == Walk(GetNextSlot(drv.slots), BuildDevicePath(drv.slots, drv.CardType))
Next ==
  \/ Work \/ Start \/ EnumerateInserted \/ EnumerateRemoved \/ PowerUp \/ Removed \/ Inserted
  \/ SlotCalls \/ Transfer

Spec == Init /\ [][Next]_vars /\ WF_vars(Work) /\ WF_vars(PowerUp)

(* ------------------------------ properties ----------------------------- *)

\* When a card has been identified, host and card agree: width, data rate,
\* timing, signal voltage, a clock that the card takes, tuned where the
\* mode needs it; and the slot is not taken for initialised otherwise.
IdentifiedBus ==
  /\ drv.routine = 0 /\ drv.status = "SUCCESS" /\ dev.card.kind # "none"
       /\ ~hist.inserted =>
       /\ Agree(dev.card, dev.host) \/ hist.stale
       /\ dev.host.clock \in 1 .. MaxClock(dev.card)
       /\ dev.host.mode = 3 => dev.host.tuned
       /\ drv.Initialized /\ drv.CardType = dev.card.kind
  /\ drv.routine = 0 /\ drv.Initialized => drv.status = "SUCCESS"

\* While the two are being switched, no data move over buses that disagree
\* and no command is sent faster than the card takes.  Two exceptions: a
\* routine that finds the registers of an earlier one (XenonSdhci.c:628
\* does not reset them), and the status after HS400's step down to high speed,
\* which is read before the clock is lowered (EmmcDevice.c:928).
SwitchedInOrder == ~hist.fast /\ (hist.mismatch => hist.stale)

\* The lines of a table are the data, all of it, once and in order, below
\* 4 GB, and only the last one ends.  A request that fails has freed what
\* it took; what it frees twice is only what it names still when the table
\* could not be built (SdMmcPciHci.c:1307 unmaps the data and so does
\* SdMmcFreeTrb, and :1160 and :1172 likewise with the table).
TransfersCovered ==
  LET t == drv.trb.of
      trb == drv.trb.trb
      lines == trb.lines
      Bytes(line) == IF line.length = 0 THEN LineMax ELSE line.length
      Times(r) == Len(SelectSeq(trb.freed, LAMBDA x : x = r))
  IN
  /\ trb.mode = "adma" =>
       /\ t.data + t.len <= Limit /\ lines[1].at = t.data /\ trb.freed = <<>>
       /\ \A i \in DOMAIN lines :
            IF i = Len(lines) THEN lines[i].end /\ lines[i].at + Bytes(lines[i]) = t.data + t.len
            ELSE ~lines[i].end /\ lines[i + 1].at = lines[i].at + Bytes(lines[i])
  /\ trb.mode = "failed" =>
       /\ \A r \in trb.taken : Times(r) > 0
       /\ (\E r \in trb.taken : Times(r) > 1) => dev.cap.adma2 /\ Times("DataMap") = 2

\* The routines end, if the card powers up.
IdentificationEnds == (drv.routine # 0) ~> (drv.routine = 0)

=============================================================================
