------------------------------- MODULE DwUfsHc -------------------------------
\* Drivers/Block/DwUfsHcDxe: the UFS host controller that the UFS
\* pass-through driver works on.  Start-up and the change of the power
\* mode are sequences of UniPro attribute commands (DME), each waited for
\* without a limit; what goes wrong in one is not passed on.
EXTENDS Integers, Sequences, FiniteSets

CONSTANTS
  Lanes,    \* lanes that the device may have connected
  Bars,     \* what the controller's base address registers may be
  Bounds    \* bounds: starts (of the binding), calls (of routines), accesses, faults

VARIABLES
  drv,    \* the steps left of the routine, what it has read; the private data
  dev,    \* attributes, link, interrupt status; the PCI function
  hist    \* history

vars == <<drv, dev, hist>>

ConstantsOK ==
  /\ Lanes \subseteq Nat \ {0} /\ Lanes # {}
  /\ \A b \in Bars : b \in Seq({"unsupported", "io", "mem", "error"})
  /\ \A m \in Bounds : {m.starts, m.calls, m.accesses, m.faults} \subseteq Nat

DmeSet(attr, value) == [do |-> "set", attr |-> attr, value |-> value]
DmeGet(attr) == [do |-> "get", attr |-> attr, value |-> 0]
Wait(what) == [do |-> "wait", attr |-> what, value |-> 0]

\* The attributes, those of one purpose taken together.
Attr == {"Bypass", "HsSeries", "Tune", "Rate", "AutoHibern8", "Credits", "Lanes",
         "TxActive", "RxActive", "Gear", "Timeouts", "PowerMode"}
Connected == {"TxLanes", "RxLanes"}      \* read only

\* UfsHcPhyInit: the settings in bypass, checked, and the start of the
\* link; then both its machines have to come up.
UfsHcPhyInit ==
  <<DmeSet("Bypass", 1), DmeSet("HsSeries", 2), DmeSet("Tune", 1), DmeSet("Rate", 1),
    DmeGet("Bypass"), Wait("Bypassed"), DmeSet("Bypass", 0), Wait("Fsm"),
    DmeSet("AutoHibern8", 1), DmeGet("AutoHibern8"), DmeSet("Credits", 1)>>

\* UfsHcPhySetPowerMode: the lanes that are connected become active ones.
UfsHcPhySetPowerMode ==
  <<DmeGet("Tune"), DmeGet("TxLanes"), DmeGet("RxLanes"), DmeSet("Gear", 3),
    [do |-> "copy", attr |-> "TxActive", value |-> "TxLanes"],
    [do |-> "copy", attr |-> "RxActive", value |-> "RxLanes"],
    DmeSet("Timeouts", 1), DmeSet("PowerMode", 1), Wait("Upms")>>

(* ------------------------------ the steps ------------------------------ *)

Running == drv.todo # <<>>
s1 == Head(drv.todo)
Step(local) == drv' = [drv EXCEPT !.todo = Tail(@), !.read = local]
Fault == hist.faults < hist.max.faults

\* A variable never assigned holds anything.
Read(attr) == IF attr \in DOMAIN drv.read THEN {drv.read[attr]} ELSE {0} \cup Lanes

\* What the device makes of an attribute.
Set(attr, value) ==
  dev' = [dev EXCEPT !.attr[attr] = value,
            !.link = IF attr = "Bypass" /\ value = 0 THEN "starting" ELSE @,
            !.upms = IF attr = "PowerMode" THEN "changing" ELSE @]

\* DwUfsDmeSet: not ready, an error or done; the caller does not look.
DwUfsDmeSet ==
  /\ Running /\ s1.do \in {"set", "copy"}
  /\ Step(drv.read)
  /\ \E v \in IF s1.do = "set" THEN {s1.value} ELSE Read(s1.value) :
       \/ Set(s1.attr, v) /\ UNCHANGED hist
       \/ /\ Fault
          /\ hist' = [hist EXCEPT !.faults = @ + 1, !.unset = @ \cup {s1.attr}]
          /\ UNCHANGED dev

\* DwUfsDmeGet: on an error the variable stays as it was.
DwUfsDmeGet ==
  /\ Running /\ s1.do = "get"
  /\ \/ /\ Step([a \in DOMAIN drv.read \cup {s1.attr} |->
                   IF a # s1.attr THEN drv.read[a]
                   ELSE IF a \in Connected THEN dev.lanes[a] ELSE dev.attr[a]])
        /\ UNCHANGED hist
     \/ /\ Fault /\ Step(drv.read)
        /\ hist' = [hist EXCEPT !.faults = @ + 1, !.unread = @ \cup {s1.attr}]
  /\ UNCHANGED dev

\* The waits; the one for bypass is an assertion, which stops the system.
Waited ==
  /\ Running /\ s1.do = "wait"
  /\ CASE s1.attr = "Bypassed" ->
            \E v \in Read("Bypass") :
              drv' = IF v = 1 THEN [drv EXCEPT !.todo = Tail(@)]
                     ELSE [drv EXCEPT !.todo = <<>>, !.status = "ASSERT"]
       [] s1.attr = "Fsm" -> dev.link = "up" /\ Step(drv.read)
       [] s1.attr = "Upms" -> dev.upms = "changed" /\ Step(drv.read)
  /\ dev' = IF s1.attr = "Upms" THEN [dev EXCEPT !.upms = "none"] ELSE dev
  /\ UNCHANGED hist

\* The device starts the link and changes the power mode: external.
LinkUp == dev.link = "starting" /\ dev' = [dev EXCEPT !.link = "up"]
PowerModeChanged == dev.upms = "changing" /\ dev' = [dev EXCEPT !.upms = "changed"]
Device == (LinkUp \/ PowerModeChanged) /\ UNCHANGED <<drv, hist>>

(* ------------------------------ the binding ---------------------------- *)

Unbound == [bound |-> FALSE, bar |-> 0, saved |-> {}]
Bound == drv.private.bound
Enable == {"memory", "master"}       \* EFI_PCI_DEVICE_ENABLE

\* The first BAR that can be described and is memory; bar 0 when none is.
FirstOf(bars, i) == bars[i] = "mem" /\ \A j \in 1 .. i - 1 : bars[j] # "mem"
MemoryBar(bars) ==
  IF \E i \in DOMAIN bars : FirstOf(bars, i)
  THEN (CHOOSE i \in DOMAIN bars : FirstOf(bars, i)) - 1 ELSE 0
\* GetBarAttributes fails, otherwise than as unsupported, before that one.
BarError(bars) ==
  \E i \in DOMAIN bars : bars[i] = "error" /\ \A j \in 1 .. i - 1 : bars[j] # "mem"

\* The status that Start returns, and what it leaves behind.
Started(status, private, pci) ==
  /\ drv' = [drv EXCEPT !.private = private, !.started = status]
  /\ dev' = [dev EXCEPT !.pci = pci]

\* UfsHcDriverBindingSupported and Start.  At Done a failure puts the
\* attributes back when any had been read, and then the status of that,
\* success, replaces the failure.
Supported == dev.pci.class = "ufs" /\ ~dev.pci.open
FailureAt(step) ==
  IF step \in {"open", "pool", "bar", "get"} \/ dev.pci.attr = {}
  THEN "error" ELSE "success"
LeftAt(step) ==
  IF step = "install" /\ dev.pci.attr = {} THEN [dev.pci EXCEPT !.attr = Enable]
  ELSE dev.pci

Start ==
  /\ Supported /\ hist.starts < hist.max.starts
  /\ \/ /\ ~BarError(dev.pci.bars)
        /\ Started("success",
                   [bound |-> TRUE, bar |-> MemoryBar(dev.pci.bars), saved |-> dev.pci.attr],
                   [dev.pci EXCEPT !.open = TRUE, !.attr = @ \cup Enable])
        /\ hist' = [hist EXCEPT !.starts = @ + 1]
     \/ /\ BarError(dev.pci.bars)
        /\ Started(FailureAt("bar"), Unbound, dev.pci)
        /\ hist' = [hist EXCEPT !.starts = @ + 1]
     \/ /\ Fault
        /\ \E step \in {"open", "pool", "get", "supported", "enable", "install"} :
             /\ step \in {"open", "pool"} \/ ~BarError(dev.pci.bars)
             /\ Started(FailureAt(step), Unbound, LeftAt(step))
             /\ hist' = [hist EXCEPT !.starts = @ + 1, !.faults = @ + 1,
                           !.leftOn = @ \/ LeftAt(step) # dev.pci]

\* Stop: a user that holds on to the protocol keeps the driver bound.
Stop ==
  /\ ~Running /\ drv.status # "ASSERT" /\ Bound
  /\ \/ /\ drv' = [drv EXCEPT !.private = Unbound, !.started = "none"]
        /\ dev' = [dev EXCEPT !.pci.open = FALSE, !.pci.attr = drv.private.saved]
        /\ UNCHANGED hist
     \/ /\ Fault /\ hist' = [hist EXCEPT !.faults = @ + 1] /\ UNCHANGED <<drv, dev>>

Binding == Start \/ Stop

(* ------------------------------- callers ------------------------------- *)

Call(name, steps) ==
  /\ Bound /\ ~Running /\ drv.status # "ASSERT" /\ hist.calls < hist.max.calls
  /\ drv' = [drv EXCEPT !.todo = steps, !.read = [a \in {} |-> 0], !.routine = name]
  /\ hist' = [hist EXCEPT !.calls = @ + 1, !.unread = {},
                          !.unset = IF name = "PhyInit" THEN {} ELSE @]
  /\ dev' = IF name = "PhyInit"
              THEN [dev EXCEPT !.link = "down", !.attr = [a \in Attr |-> 0],
                               !.upms = "none"]
              ELSE dev

\* The pass-through driver initialises, then sets the power mode, then works.
CallPhyInit == Call("PhyInit", UfsHcPhyInit)
CallSetPowerMode == drv.routine = "PhyInit" /\ Call("SetPowerMode", UfsHcPhySetPowerMode)

\* UfsHcMmioWrite: the status is the value that was written, so a 64-bit
\* value whose highest bit is set is taken for an error.  UfsHcMap makes
\* the number of bytes a multiple of four.
MmioWrite ==
  /\ Bound /\ ~Running /\ hist.accesses < hist.max.accesses
  /\ \E width \in {1, 2, 4, 8}, top \in BOOLEAN :
       hist' = [hist EXCEPT !.accesses = @ + 1,
         !.write = [width |-> width, top |-> top, error |-> width = 8 /\ top]]
  /\ UNCHANGED <<drv, dev>>

RoundUp(n) == IF n % 4 # 0 THEN ((n + 3) \div 4) * 4 ELSE n
Map ==
  /\ Bound /\ ~Running /\ hist.accesses < hist.max.accesses
  /\ \E n \in 1 .. 9 :
       hist' = [hist EXCEPT !.accesses = @ + 1, !.map = [asked |-> n, mapped |-> RoundUp(n)]]
  /\ UNCHANGED <<drv, dev>>

Init ==
  /\ drv = [todo |-> <<>>, read |-> [a \in {} |-> 0], routine |-> "none",
            status |-> "none", private |-> Unbound, started |-> "none"]
  /\ \E tx, rx \in Lanes, bars \in Bars, attr \in {{}, {"memory"}}, class \in {"ufs", "other"} :
       dev = [attr |-> [a \in Attr |-> 0], link |-> "down", upms |-> "none",
              lanes |-> [TxLanes |-> tx, RxLanes |-> rx],
              pci |-> [class |-> class, bars |-> bars, attr |-> attr, open |-> FALSE]]
  /\ \E max \in Bounds :
       hist = [max |-> max, starts |-> 0, calls |-> 0, accesses |-> 0, faults |-> 0,
               was |-> dev.pci.attr,    \* the attributes before the first start
               leftOn |-> FALSE,        \* a failed start left the device enabled
               unset |-> {},     \* attributes that were not set, unnoticed
               unread |-> {},    \* attributes that were not read, unnoticed
               write |-> [width |-> 4, top |-> FALSE, error |-> FALSE],
               map |-> [asked |-> 0, mapped |-> 0]]

Work == DwUfsDmeSet \/ DwUfsDmeGet \/ Waited
Next == Work \/ Device \/ Binding \/ CallPhyInit \/ CallSetPowerMode \/ MmioWrite \/ Map

Spec == Init /\ [][Next]_vars /\ WF_vars(Work) /\ WF_vars(Device)

(* ------------------------------ properties ----------------------------- *)

\* After the power mode has been set, as many lanes are active as are
\* connected, the link is up and the timeouts are those of this mode;
\* unless a command failed unnoticed (DwUfsHcDxe.c:523).
LinkAsSet ==
  /\ ~Running /\ drv.routine = "SetPowerMode" /\ hist.unset = {} /\ hist.unread = {} =>
       /\ dev.link = "up" /\ dev.upms = "none"
       /\ dev.attr["TxActive"] = dev.lanes["TxLanes"]
       /\ dev.attr["RxActive"] = dev.lanes["RxLanes"]
       /\ dev.attr["Timeouts"] = 1 /\ dev.attr["PowerMode"] = 1
  /\ drv.status = "ASSERT" => hist.unset # {} \/ hist.unread # {}
  /\ hist.write.error => hist.write.width = 8
  /\ hist.map.mapped \in hist.map.asked .. hist.map.asked + 3 /\ hist.map.mapped % 4 = 0

\* Whatever sequence of starts and stops: the PCI function is opened while
\* the driver is bound and only then, is enabled while bound, and has its
\* attributes of before when it is not, unless a start failed after it had
\* been enabled with no attributes to restore (DwUfsHcDxe.c:888); the BAR
\* is one of memory if there is one.  A start that says success has bound
\* the driver, unless it could put attributes back.
BoundAsHeld ==
  /\ dev.pci.open <=> Bound
  /\ Bound => Enable \subseteq dev.pci.attr /\ dev.pci.class = "ufs"
  /\ ~Bound /\ ~hist.leftOn => dev.pci.attr = hist.was
  /\ Bound /\ (\E i \in DOMAIN dev.pci.bars : dev.pci.bars[i] = "mem") =>
       dev.pci.bars[drv.private.bar + 1] = "mem"
  /\ drv.started = "error" => ~Bound
  /\ drv.started = "success" => Bound \/ hist.was # {} \/ hist.leftOn

\* A routine ends, unless the command whose effect it waits for was refused.
Stuck == hist.unset \cap {"Bypass", "PowerMode"} # {}
RoutinesEnd == Running ~> (~Running \/ Stuck)

=============================================================================
