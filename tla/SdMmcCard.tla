------------------------------ MODULE SdMmcCard ------------------------------
(***************************************************************************)
(* An SD or eMMC card as the identification routines of the two host       *)
(* drivers (Drivers/SdMmc) use it, and how a routine runs: a sequence of   *)
(* steps, each a command to the card, a setting of the host, or a choice   *)
(* that depends on what the card said.  An error ends the routine, and the *)
(* next routine of the table has its turn.                                 *)
(***************************************************************************)
EXTENDS Integers, Sequences, FiniteSets

CONSTANTS
  Cards,     \* what may be in the slot: [kind, types, s18]
  Caps,      \* capabilities of the host
  MaxTries,  \* tries of a routine: 40 tuning blocks, 100 times CMD1
  MaxSlot,   \* SD_MMC_HC_MAX_SLOT, 6
  Bounds     \* bounds: errors, removals of the card (faults)

VARIABLES
  drv,    \* the routine in progress and the slot's state
  dev,    \* the card and the registers of the host
  hist    \* history

vars == <<drv, dev, hist>>

Cmd(name) == [do |-> "command", name |-> name, arg |-> 0]
CmdArg(name, arg) == [do |-> "command", name |-> name, arg |-> arg]
Host(name, arg) == [do |-> "host", name |-> name, arg |-> arg]
Choose(name) == [do |-> "choose", name |-> name, arg |-> 0]

(* --- The commands: which cards answer, and in which states --- *)
AnyKind == {"Emmc", "Sd", "Sdio"}
Rule(kinds, from) == [kinds |-> kinds, from |-> from]
Rules ==
  [GO_IDLE           |-> Rule(AnyKind \cup {"none"},
                              {"idle", "ready", "ident", "stby", "tran"}),
   SEND_OP_COND      |-> Rule({"Emmc"}, {"idle", "ready"}),
   IF_COND           |-> Rule({"Sd", "Sdio"}, {"idle"}),
   IO_SEND_OP_COND   |-> Rule({"Sdio"}, {"idle"}),
   SD_QUERY_OP_COND  |-> Rule({"Sd"}, {"idle"}),
   SD_SEND_OP_COND   |-> Rule({"Sd"}, {"idle", "ready"}),
   VOLTAGE_SWITCH    |-> Rule({"Sd"}, {"ready"}),
   ALL_SEND_CID      |-> Rule({"Emmc", "Sd"}, {"ready"}),
   SET_RELATIVE_ADDR |-> Rule({"Emmc", "Sd"}, {"ident"}),
   SEND_CSD          |-> Rule({"Emmc", "Sd"}, {"stby"}),
   SELECT            |-> Rule({"Emmc", "Sd"}, {"stby"}),
   SEND_STATUS       |-> Rule({"Emmc", "Sd"}, {"stby", "tran"}),
   SEND_SCR          |-> Rule({"Sd"}, {"tran"}),
   SEND_EXT_CSD      |-> Rule({"Emmc"}, {"tran"}),
   SWITCH_WIDTH      |-> Rule({"Emmc"}, {"tran"}),
   SWITCH_TIMING     |-> Rule({"Emmc"}, {"tran"}),
   SET_BUS_WIDTH     |-> Rule({"Sd"}, {"tran"}),
   SWITCH_QUERY      |-> Rule({"Sd"}, {"tran"}),
   SWITCH_FUNC       |-> Rule({"Sd"}, {"tran"}),
   TUNING            |-> Rule({"Emmc", "Sd"}, {"tran"})]

\* Those that move data over the data lines.
DataCommands ==
  {"SEND_SCR", "SEND_EXT_CSD", "SWITCH_QUERY", "SWITCH_FUNC", "TUNING"}

Answers(card, s) == card.kind \in Rules[s.name].kinds
                      /\ card.state \in Rules[s.name].from

EmmcTiming == <<"legacy", "hs", "hs200", "hs400">>      \* HS_TIMING plus one
SdTiming == <<"legacy", "hs", "sdr50", "sdr104", "ddr50">>

\* The card after a command it has answered; a switch may be refused.
After(card, s, refused) ==
  CASE s.name = "GO_IDLE" -> [card EXCEPT !.state = "idle", !.width = 1,
                                !.ddr = FALSE, !.timing = "legacy"]
    [] s.name \in {"SEND_OP_COND", "SD_SEND_OP_COND"} /\ ~card.busy ->
         [card EXCEPT !.state = "ready"]
    [] s.name = "VOLTAGE_SWITCH" -> [card EXCEPT !.v18 = TRUE]
    [] s.name = "ALL_SEND_CID" -> [card EXCEPT !.state = "ident"]
    [] s.name = "SET_RELATIVE_ADDR" -> [card EXCEPT !.state = "stby"]
    [] s.name = "SELECT" -> [card EXCEPT !.state = "tran"]
    [] s.name = "SWITCH_WIDTH" /\ ~refused ->
         [card EXCEPT !.width = s.arg.width, !.ddr = s.arg.ddr]
    [] s.name = "SWITCH_TIMING" /\ ~refused ->
         [card EXCEPT !.timing = EmmcTiming[s.arg + 1],
                      !.ddr = @ /\ s.arg # 2]
    [] s.name = "SET_BUS_WIDTH" /\ ~refused -> [card EXCEPT !.width = s.arg]
    [] s.name = "SWITCH_FUNC" /\ ~refused ->
         [card EXCEPT !.timing = SdTiming[s.arg + 1], !.ddr = s.arg = 4]
    [] OTHER -> card

\* The fastest clock the card takes, in units of 100 kHz.
MaxClock(card) ==
  CASE card.timing = "legacy" -> 260
    [] card.timing = "hs" -> 520
    [] card.timing = "sdr50" -> 1000
    [] card.timing = "ddr50" -> 500
    [] OTHER -> 2080

NewCard(c) == [kind |-> c.kind, types |-> c.types, s18 |-> c.s18, busy |-> TRUE,
               state |-> "idle", width |-> 1, ddr |-> FALSE, timing |-> "legacy",
               v18 |-> FALSE]

(* ------------------------------ the steps ------------------------------ *)

Running == drv.todo # <<>>
s1 == Head(drv.todo)
Rest == Tail(drv.todo)

\* An error ends the routine; in a guarded section its handler runs first.
Failed(handler) ==
  drv' = [drv EXCEPT !.todo = handler, !.status = "ERROR"]

\* A command through PassThru.  It fails when the card does not answer, or
\* by a fault; data over buses that disagree fail too.  "refused" is what
\* the status of a switch will say.
Fault == hist.faults < hist.max.faults
Command(s, agree, handler) ==
  LET data == s.name \in DataCommands
      known == Answers(dev.card, s) /\ dev.card.kind # "none" /\ ~hist.inserted
      ok == Answers(dev.card, s) /\ (data => agree)
      seen(n) == [hist EXCEPT !.faults = @ + n,
         !.mismatch = @ \/ (known /\ data /\ ~agree),
         !.fast = @ \/ (known /\ ~hist.lowering
                          /\ dev.host.clock > MaxClock(dev.card))]
  IN \/ /\ ok
        /\ \E refused \in IF Fault /\ s.name \in {"SWITCH_WIDTH", "SWITCH_TIMING",
                                                  "SET_BUS_WIDTH", "SWITCH_FUNC"}
                            THEN BOOLEAN ELSE {FALSE} :
             LET card == After(dev.card, s, refused) IN
             /\ dev' = [dev EXCEPT !.card = card]
             /\ drv' = [drv EXCEPT !.todo = Rest,
                  !.resp = IF s.name \in {"SEND_EXT_CSD", "SWITCH_QUERY", "SEND_SCR"}
                             THEN card.types ELSE @,
                  !.refused = IF s.name = "SEND_STATUS" THEN @ ELSE refused]
             /\ hist' = [seen(IF refused THEN 1 ELSE 0) EXCEPT
                  !.widthRefused = @ \/ (refused /\ s.name = "SWITCH_WIDTH"),
                  !.lowering = IF s.name = "SWITCH_TIMING" /\ MaxClock(card) < MaxClock(dev.card)
                    THEN TRUE ELSE @]
     \/ /\ ~ok \/ Fault
        /\ Failed(handler)
        /\ hist' = seen(IF ok THEN 1 ELSE 0)
        /\ UNCHANGED dev

\* A setting of the host; waiting for a register may time out.
HostStep(host, mayFail, handler) ==
  \/ /\ dev' = [dev EXCEPT !.host = host]
     /\ drv' = [drv EXCEPT !.todo = Rest]
     /\ hist' = [hist EXCEPT !.lowering = @ /\ host.clock = dev.host.clock]
  \/ /\ mayFail /\ Fault
     /\ Failed(handler)
     /\ hist' = [hist EXCEPT !.faults = @ + 1]
     /\ UNCHANGED dev

\* A choice puts further steps before the rest, or fails.
Go(steps) == drv' = [drv EXCEPT !.todo = steps \o Rest, !.retry = 0]
Again(steps) == drv' = [drv EXCEPT !.todo = steps \o Rest, !.retry = @ + 1]

\* The switch before was taken: the status the card reports afterwards.
SwitchStatus == Choose("SwitchStatus")
ChooseSwitchStatus ==
  IF drv.refused THEN Failed(<<>>) ELSE Go(<<>>)

(* ------------------------------ the slots ------------------------------ *)

\* What both hosts keep of their slots, and what a driver for cards does
\* with them after the protocol was installed (again): it walks the slots
\* from 0xFF on, until there is an error, and asks for the path of each.
Begin == 255
Over == 254
NoSlots == [enabled |-> {}, present |-> FALSE, previous |-> 0,
            walk |-> Over, seen |-> <<>>, path |-> "none"]
Installed(slots) == [slots EXCEPT !.walk = Begin, !.seen = <<>>, !.path = "none"]
SlotIdle == ~Running /\ drv.routine = 0

\* GetNextSlot: the slot after the one returned last, and no other.
GetNextSlot(slots) ==
  LET from == IF slots.walk = Begin THEN 0 ELSE slots.walk + 1
      later == {i \in slots.enabled : from <= i}
      next == CHOOSE i \in later : \A j \in later : i <= j
  IN IF later = {} \/ slots.walk \notin {Begin, slots.previous}
       THEN [slots EXCEPT !.walk = Over]
       ELSE [slots EXCEPT !.walk = next, !.previous = next,
                          !.seen = Append(@, next), !.path = "none"]

\* BuildDevicePath, of the type the slot was found to have.
BuildDevicePath(slots, type) ==
  [slots EXCEPT !.path = IF slots.walk \in slots.enabled /\ slots.present
                              /\ type \in {"Sd", "Emmc"} THEN type ELSE "refused"]

\* GetSlotNumber, for a node of a device path.
GetSlotNumber(slots, node) ==
  IF node.type \in {"Sd", "Emmc"} /\ node.slot < MaxSlot /\ node.slot \in slots.enabled
    THEN node.slot ELSE Over

\* The walk, with what the host's functions make of the slots.
Walk(next, path) ==
  /\ SlotIdle
  /\ \/ /\ drv.slots.walk # Over
        /\ drv.slots.path # "none" \/ drv.slots.walk = Begin
        /\ drv' = [drv EXCEPT !.slots = next]
     \/ /\ drv.slots.walk \notin {Begin, Over} /\ drv.slots.path = "none"
        /\ drv' = [drv EXCEPT !.slots = path]
  /\ UNCHANGED <<dev, hist>>

\* A walk sees every enabled slot once, in order, and ends.  A path leads
\* back to the slot it was made for and names the card that is in it; a
\* card that was identified has one, an empty slot has none.  Only a card
\* that was not identified may have the type of the one before it, since
\* nothing takes the type back (EmmcDevice.c:1156, SdDevice.c:1178).
SlotsWalked ==
  LET slots == drv.slots
      at == slots.seen[Len(slots.seen)]
      known == drv.status = "SUCCESS" /\ dev.card.kind # "none" /\ ~hist.inserted
  IN
  /\ \A i \in 1 .. Len(slots.seen) - 1 : slots.seen[i] < slots.seen[i + 1]
  /\ slots.walk = Over /\ slots.seen # <<>> =>
       {slots.seen[i] : i \in DOMAIN slots.seen} = slots.enabled
  /\ slots.path \in {"Sd", "Emmc"} =>
       slots.present /\ GetSlotNumber(slots, [type |-> slots.path, slot |-> at]) = at
  /\ slots.path # "none" /\ known => slots.path = dev.card.kind

(* ------------------------------ the card ------------------------------- *)

\* The card has powered up, or is taken out.
PowerUp ==
  /\ dev.card.busy
  /\ dev' = [dev EXCEPT !.card.busy = FALSE]
  /\ UNCHANGED <<drv, hist>>

Removed ==
  /\ Fault /\ dev.card.kind # "none"
  /\ dev' = [dev EXCEPT !.card = NewCard([kind |-> "none", types |-> {},
                                           s18 |-> FALSE])]
  /\ hist' = [hist EXCEPT !.faults = @ + 1]
  /\ UNCHANGED drv

=============================================================================
