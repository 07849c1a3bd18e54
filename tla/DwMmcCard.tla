------------------------------ MODULE DwMmcCard ------------------------------
(***************************************************************************)
(* Drivers/SdMmc/DwMmcHcDxe: how the driver finds out what card is in the  *)
(* slot and sets card and host to a bus both have (EmmcDevice.c,           *)
(* SdDevice.c and the register routines of DwMmcHci.c).  Each routine of   *)
(* the source that sends commands is a sequence of steps here, as in       *)
(* XenonCard; the order of the switches and the checks differ.             *)
(***************************************************************************)
EXTENDS SdMmcCard

\* A capability: flags, the width of the bus, a voltage and the base clock.
ConstantsOK ==
  /\ MaxTries \in Nat \ {0}
  /\ \A m \in Bounds : m.faults \in Nat /\ m.starts \in Nat
  /\ \A c \in Caps : c.base \in Nat \ {0} /\ c.width \in {1, 4, 8}

(* --------------------------- host registers ---------------------------- *)

\* CTYPE, UHSREG, CLKDIV and PWREN.
Off == [width |-> 1, ddr |-> FALSE, clock |-> 0, power |-> FALSE]

\* DwMmcHcClockSupply: the least divisor that is not faster than asked for.
DwMmcHcClockSupply(host, cap, freq) ==
  LET f == IF freq > cap.base THEN cap.base ELSE freq
      d == CHOOSE n \in 0 .. cap.base :
             /\ cap.base <= f * (IF n = 0 THEN 1 ELSE 2 * n)
             /\ n > 0 => cap.base > f * (IF n = 1 THEN 1 ELSE 2 * (n - 1))
  IN [host EXCEPT !.clock = IF d = 0 THEN cap.base ELSE cap.base \div (2 * d)]
DwMmcHcInitClockFreq(host, cap) == DwMmcHcClockSupply(host, cap, 4)

DwMmcHcSetBusWidth(host, ddr, w) == [host EXCEPT !.width = w, !.ddr = ddr]

\* DwMmcHcInitHost and DwMmcHcReset.
DwMmcHcInitPowerVoltage(host) == [host EXCEPT !.power = TRUE]
InitHostAndReset(host, cap) ==
  DwMmcHcSetBusWidth(
    DwMmcHcInitClockFreq(DwMmcHcInitPowerVoltage(host), cap), FALSE, 1)

SettingOf(s, host, cap) ==
  CASE s.name = "SetBusWidth" -> DwMmcHcSetBusWidth(host, s.arg.ddr, s.arg.width)
    [] s.name = "Clock" -> DwMmcHcClockSupply(host, cap, s.arg)

(* ------------------------------ EmmcDevice ----------------------------- *)

EmmcReset == <<Cmd("GO_IDLE")>>
EmmcGetOcr == <<Cmd("SEND_OP_COND"), Choose("EmmcOcr")>>
EmmcGetAllCid == <<Cmd("ALL_SEND_CID")>>
EmmcSetRca == <<Cmd("SET_RELATIVE_ADDR")>>
EmmcGetCsd == <<Cmd("SEND_CSD")>>
EmmcSelect == <<Cmd("SELECT")>>
EmmcGetExtCsd == <<Cmd("SEND_EXT_CSD")>>
EmmcSwitch(field, value) == <<CmdArg(field, value)>>
EmmcSendStatus == <<Cmd("SEND_STATUS")>>

\* The status after the switch is read until it does not say "programming"
\* (the low four bits, which never do); whether the switch was taken is
\* not looked at.
EmmcSwitchBusWidth(ddr, w) ==
  LET bus == [width |-> w, ddr |-> ddr] IN
  EmmcSwitch("SWITCH_WIDTH", bus) \o EmmcSendStatus \o <<Host("SetBusWidth", bus)>>

EmmcSwitchClockFreq(timing, freq) ==
  EmmcSwitch("SWITCH_TIMING", timing) \o EmmcSendStatus
    \o <<SwitchStatus, Host("Clock", freq)>>

EmmcSwitchToHighSpeed(freq, ddr, w) ==
  EmmcSwitchClockFreq(1, freq) \o EmmcSwitchBusWidth(ddr, w)

EmmcSetBusMode ==
  EmmcGetCsd \o EmmcSelect \o EmmcSendStatus \o EmmcSwitchBusWidth(FALSE, 1)
    \o EmmcGetExtCsd \o <<Choose("EmmcBusMode")>>

\* EmmcSwitchToHS200 does nothing and succeeds.
EmmcBusMode(types, cap) ==
  IF "hs200" \in types /\ cap.sdr104 THEN <<>>
  ELSE IF "ddr" \in types /\ cap.ddr50 THEN EmmcSwitchToHighSpeed(520, TRUE, cap.width)
  ELSE IF "hs52" \in types /\ cap.hs THEN EmmcSwitchToHighSpeed(520, FALSE, cap.width)
  ELSE IF "hs26" \in types /\ cap.hs THEN EmmcSwitchToHighSpeed(260, FALSE, cap.width)
  ELSE <<>>

EmmcIdentification == EmmcReset \o EmmcGetOcr
EmmcFound ==
  EmmcGetAllCid \o EmmcSetRca \o <<Choose("EmmcCard")>> \o EmmcSetBusMode
    \o EmmcSendStatus

(* ------------------------------- SdDevice ------------------------------ *)

SdCardReset == <<Cmd("GO_IDLE")>>
SdCardVoltageCheck == <<Cmd("IF_COND")>>
SdCardSendOpCond(arg) == <<Cmd(IF arg = 0 THEN "SD_QUERY_OP_COND" ELSE "SD_SEND_OP_COND")>>
SdCardAllSendCid == <<Cmd("ALL_SEND_CID")>>
SdCardSetRca == <<Cmd("SET_RELATIVE_ADDR")>>
SdCardGetCsd == <<Cmd("SEND_CSD")>>
SdCardGetScr == <<Cmd("SEND_SCR")>>
SdCardSelect == <<Cmd("SELECT")>>
SdCardSetBusWidth(w) == <<CmdArg("SET_BUS_WIDTH", w)>>
SdCardSwitch(mode, set) ==
  <<IF set THEN CmdArg("SWITCH_FUNC", mode) ELSE Cmd("SWITCH_QUERY")>>
SdCardSendStatus == <<Cmd("SEND_STATUS")>>

SdCardSwitchBusWidth(ddr, w) ==
  SdCardSetBusWidth(w) \o SdCardSendStatus
    \o <<SwitchStatus, Host("SetBusWidth", [width |-> w, ddr |-> ddr])>>

\* The widths of the card (SCR) and of the host, which must be one or four.
SdCardSetBusMode(scr, cap) ==
  LET w == IF "4bit" \in scr THEN cap.width ELSE 1 IN
  IF cap.width \notin {1, 4} \/ (cap.width = 4 /\ w # 4) THEN <<Choose("Fail")>>
  ELSE SdCardSwitchBusWidth(cap.ddr50, w) \o SdCardSwitch(15, FALSE)
         \o <<Choose("SdBusMode")>>

\* The access mode: without 1.8 V signalling, high speed or default speed.
SdBusMode(types) ==
  LET m == IF "hs" \in types THEN 1 ELSE 0 IN
  SdCardSwitch(m, TRUE) \o <<SwitchStatus, Host("Clock", IF m = 1 THEN 500 ELSE 250)>>

SdCardIdentification ==
  SdCardReset \o SdCardVoltageCheck \o SdCardSendOpCond(0) \o <<Choose("SdVoltage")>>
SdFound ==
  SdCardAllSendCid \o SdCardSetRca \o SdCardGetCsd \o SdCardSelect \o SdCardGetScr
    \o <<Choose("SdCard")>>

(* ------------------------------- the steps ----------------------------- *)

\* What card and host must agree on to move data.
Agree(card, host) == card.width = host.width /\ card.ddr = host.ddr /\ host.power

SendCommand ==
  /\ Running /\ s1.do = "command"
  /\ Command(s1, Agree(dev.card, dev.host), <<>>)

\* DwMmcHcUpdateClock is tried until the host does not refuse it.
SetHost ==
  /\ Running /\ s1.do = "host"
  /\ HostStep(SettingOf(s1, dev.host, dev.cap), FALSE, <<>>)

\* The choices.  CMD1 is sent a hundred times at most, the last time for
\* nothing; ACMD41 has no limit.
Decide ==
  /\ Running /\ s1.do = "choose"
  /\ CASE s1.name = "EmmcOcr" ->
            IF drv.retry = MaxTries - 1 THEN Failed(<<>>)
            ELSE IF dev.card.state = "ready" THEN Go(EmmcFound) ELSE Again(EmmcGetOcr)
       [] s1.name = "SdVoltage" ->
            IF dev.cap.voltage THEN Go(SdCardSendOpCond(1) \o <<Choose("SdOcr")>>)
            ELSE Failed(<<>>)
       [] s1.name = "SdOcr" ->
            Go(IF dev.card.state = "ready" THEN SdFound
               ELSE SdCardSendOpCond(1) \o <<Choose("SdOcr")>>)
       [] s1.name = "EmmcCard" ->
            drv' = [drv EXCEPT !.todo = Rest, !.CardType = "Emmc"]
       [] s1.name = "SdCard" ->
            drv' = [drv EXCEPT !.todo = SdCardSetBusMode(drv.resp, dev.cap),
                               !.CardType = "Sd"]
       [] s1.name = "EmmcBusMode" -> Go(EmmcBusMode(drv.resp, dev.cap))
       [] s1.name = "SdBusMode" -> Go(SdBusMode(drv.resp))
       [] s1.name = "SwitchStatus" -> ChooseSwitchStatus
       [] s1.name = "Fail" -> Failed(<<>>)
  /\ UNCHANGED <<dev, hist>>

\* The next routine of mCardTypeDetectRoutineTable, or the end of the table.
NextRoutine ==
  /\ ~Running /\ drv.routine > 0
  /\ drv' = IF drv.status # "ERROR"
              THEN [drv EXCEPT !.status = "SUCCESS", !.routine = 0,
                               !.Initialized = @ \/ drv.routine = 2]
            ELSE IF drv.routine = 1
              THEN [drv EXCEPT !.routine = 2, !.status = "none",
                               !.todo = SdCardIdentification]
            ELSE [drv EXCEPT !.routine = 0]
  /\ UNCHANGED <<dev, hist>>

\* The board knows whether there is a card; only Start asks.
DwMmcHcCardDetect == dev.card.kind # "none"

\* DwMmcHcDriverBindingStart, for the first time or after a stop: a slot
\* has the type the board gives it until a card is identified, and without
\* a card there is no slot.
Start ==
  /\ drv.routine = 0 /\ hist.starts < hist.max.starts
  /\ IF DwMmcHcCardDetect
       THEN /\ drv' = [drv EXCEPT !.todo = EmmcIdentification, !.routine = 1, !.retry = 0,
                         !.status = "none", !.Initialized = FALSE, !.refused = FALSE,
                         !.CardType = dev.cap.type,
                         !.slots = Installed([NoSlots EXCEPT !.enabled = {0}, !.present = TRUE])]
            /\ dev' = [dev EXCEPT !.host = InitHostAndReset(dev.host, dev.cap)]
       ELSE /\ drv' = [drv EXCEPT !.status = "none", !.Initialized = FALSE,
                         !.CardType = "none", !.slots = Installed(NoSlots)]
            /\ UNCHANGED dev
  /\ hist' = [hist EXCEPT !.starts = @ + 1]

Init ==
  /\ \E c \in Cards, cap \in Caps :
       dev = [card |-> NewCard(c), host |-> Off, cap |-> cap]
  /\ drv = [todo |-> <<>>, routine |-> 0, resp |-> {}, refused |-> FALSE,
            retry |-> 0, status |-> "none", CardType |-> "none",
            Initialized |-> FALSE, slots |-> NoSlots]
  /\ \E max \in Bounds :
       hist = [max |-> max, faults |-> 0, starts |-> 0,
               mismatch |-> FALSE, fast |-> FALSE, lowering |-> FALSE,
               widthRefused |-> FALSE, inserted |-> FALSE]

Work == SendCommand \/ SetHost \/ Decide \/ NextRoutine

\* The slots: line for line those of the other host.
DwMmcPassThruGetNextSlot(slots) == GetNextSlot(slots)
DwMmcPassThruBuildDevicePath(slots, type) == BuildDevicePath(slots, type)
SlotCalls ==
  Walk(DwMmcPassThruGetNextSlot(drv.slots), DwMmcPassThruBuildDevicePath(drv.slots, drv.CardType))

Next == Work \/ Start \/ PowerUp \/ Removed \/ SlotCalls

Spec == Init /\ [][Next]_vars /\ WF_vars(Work) /\ WF_vars(PowerUp)

(* ------------------------------ properties ----------------------------- *)

\* When a card has been identified, host and card agree on the width and
\* the data rate and the clock is one that the card takes; only an eMMC
\* that refuses a width switch is left at another width (EmmcDevice.c:660).
IdentifiedBus ==
  drv.routine = 0 /\ drv.status = "SUCCESS" /\ dev.card.kind # "none" =>
    /\ Agree(dev.card, dev.host) \/ (drv.CardType = "Emmc" /\ hist.widthRefused)
    /\ dev.host.clock \in 1 .. MaxClock(dev.card)
    /\ drv.CardType = dev.card.kind
    /\ drv.Initialized => drv.CardType = "Sd"

\* No command is sent faster than the card takes and no data move over
\* buses that disagree, unless an eMMC refused a width switch unnoticed.
SwitchedInOrder == ~hist.fast /\ (hist.mismatch => hist.widthRefused)

\* The routines end, if the card powers up.
IdentificationEnds == (drv.routine # 0) ~> (drv.routine = 0)

=============================================================================
