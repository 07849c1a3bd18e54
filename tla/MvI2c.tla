-------------------------------- MODULE MvI2c --------------------------------
(***************************************************************************)
(* Drivers/I2c (MvI2cDxe and Devices/MvEeprom) and the eeprom command      *)
(* (Applications/EepromCmd): the masters come up, the slaves of one bus    *)
(* are enumerated, the EEPROM driver binds to its own, and transfers run   *)
(* in requests of two operations, in phases on the bus.  No phase reports  *)
(* what went wrong to the request, and a request always succeeds.          *)
(***************************************************************************)
EXTENDS Integers, Sequences, FiniteSets

CONSTANTS
  Chunk,        \* MAX_BUFFER_LENGTH, 64
  PageSize,     \* of the EEPROM: a write wraps within a page
  Size,         \* of the EEPROM
  Transfers,    \* that callers ask for: [op, addr, len]
  Slaves,       \* PcdI2cSlaveAddresses and PcdI2cSlaveBuses: <<[addr, bus], ...>>
  Eeproms,      \* PcdEepromI2cAddresses and PcdEepromI2cBuses
  BusCount,     \* PcdI2cBusCount
  Clock,        \* TCLK, PcdI2cClockFrequency
  Boards,       \* the bus that is followed and PcdI2cBaudRate: [bus, baud]
  Bounds        \* bounds: calls, nacks, faults, stops

VARIABLES
  drv,    \* the masters, the enumeration, the phases left and the buffer
  dev,    \* the controller, the bus and the EEPROM
  hist    \* history

vars == <<drv, dev, hist>>

ConstantsOK ==
  /\ {Chunk, PageSize, Size} \subseteq Nat \ {0} /\ Size % PageSize = 0
  /\ \A t \in Transfers : t.addr + t.len <= Size
  /\ \A i, j \in DOMAIN Slaves : Slaves[i] = Slaves[j] => i = j
  /\ BusCount \in Nat /\ \A b \in Boards : {b.bus, b.baud} \subseteq Nat
  /\ \A m \in Bounds : {m.calls, m.nacks, m.faults, m.stops} \subseteq Nat

Addr == 0 .. Size - 1
Min2(a, b) == IF a <= b THEN a ELSE b

(* ------------------------------ requests ------------------------------- *)

Phase(do, read, from, n) == [do |-> do, read |-> read, from |-> from, n |-> n]

\* MvI2cStartRequest for the two operations of the EEPROM driver: the
\* address, then the data, with a repeated start only before a read; the
\* last byte of the second operation is not acknowledged.
MvI2cStartRequest(op, from, n) ==
  <<Phase("start", FALSE, from, 0), Phase("address", FALSE, from, 2)>>
    \o (IF op = "read"
          THEN <<Phase("restart", TRUE, from, 0), Phase("read", TRUE, from, n)>>
          ELSE <<Phase("write", FALSE, from, n)>>)
    \o <<Phase("stop", FALSE, from, 0)>>

\* MvEepromTransfer: one request for every Chunk bytes.
RECURSIVE MvEepromTransfer(_, _, _)
MvEepromTransfer(op, from, len) ==
  IF len = 0 THEN <<>>
  ELSE LET n == Min2(len, Chunk) IN
       MvI2cStartRequest(op, from, n) \o MvEepromTransfer(op, from + n, len - n)

(* -------------------------- phases on the bus -------------------------- *)

Running == drv.todo # <<>>
p1 == Head(drv.todo)
Next1 == [drv EXCEPT !.todo = Tail(@)]
NackAllowed == hist.nacks < hist.max.nacks
Nacked == hist' = [hist EXCEPT !.nacks = @ + 1]
None == [state |-> "idle", pointer |-> 0, page |-> {}]

\* MvI2cLockedStart: the controller must come from the state that this
\* kind of start means (right), and the EEPROM must answer, which it does
\* not while it programs; otherwise the caller frees the bus again.  That
\* the flag did not come is never seen (MvI2cPollCtrl answers 0 for that
\* too), so it is the status that decides.
MvI2cLockedStart(right) ==
  /\ drv' = Next1
  /\ \/ /\ right /\ ~dev.busy
        /\ dev' = [dev EXCEPT !.bus.state = IF p1.read THEN "read" ELSE "addressed",
                              !.bus.page = {}]
        /\ UNCHANGED hist
     \/ /\ ~right \/ dev.busy
        /\ dev' = [dev EXCEPT !.bus = [None EXCEPT !.pointer = dev.bus.pointer]]
        /\ hist' = [hist EXCEPT !.missed = @ \/ dev.busy]
     \/ /\ right /\ ~dev.busy /\ NackAllowed /\ Nacked
        /\ dev' = [dev EXCEPT !.bus = [None EXCEPT !.pointer = dev.bus.pointer]]
MvI2cStart ==
  Running /\ p1.do = "start" /\ MvI2cLockedStart(dev.on /\ dev.bus.state = "idle")
MvI2cRepeatedStart ==
  Running /\ p1.do = "restart" /\ MvI2cLockedStart(dev.on /\ dev.bus.state # "idle")

\* MvI2cEnableConf, before the first request: there is only one configuration.
MvI2cEnableConf ==
  /\ Running /\ p1.do = "enable"
  /\ drv' = [Next1 EXCEPT !.configured = TRUE]
  /\ UNCHANGED <<dev, hist>>

\* MvI2cWrite: bytes go out until one is not acknowledged; on a bus that is
\* idle, or to a slave that has stopped listening, they go nowhere.
MvI2cWriteAddress ==
  /\ Running /\ p1.do = "address"
  /\ drv' = Next1
  /\ IF dev.bus.state # "addressed" THEN UNCHANGED <<dev, hist>>
     ELSE \/ /\ dev' = [dev EXCEPT !.bus.state = "pointed", !.bus.pointer = p1.from]
             /\ UNCHANGED hist
          \/ NackAllowed /\ Nacked /\ dev' = [dev EXCEPT !.bus.state = "deaf"]
MvI2cWrite ==
  /\ Running /\ p1.do = "write"
  /\ drv' = Next1
  /\ IF dev.bus.state # "pointed" THEN UNCHANGED <<dev, hist>>
     ELSE \E sent \in 0 .. p1.n :
       /\ sent < p1.n => NackAllowed
       /\ dev' = [dev EXCEPT !.bus.page =
                    {[at |-> (((dev.bus.pointer \div PageSize) * PageSize)
                               + ((dev.bus.pointer + i) % PageSize)),
                      of |-> p1.from + i] : i \in 0 .. sent - 1},
                    !.bus.state = IF sent < p1.n THEN "deaf" ELSE @]
       /\ IF sent < p1.n THEN Nacked ELSE UNCHANGED hist

\* MvI2cRead: bytes come in; without the bus the buffer stays as it is.
MvI2cRead ==
  /\ Running /\ p1.do = "read"
  /\ IF dev.bus.state # "read" THEN drv' = Next1 /\ UNCHANGED <<dev, hist>>
     ELSE \E n \in 0 .. p1.n :
       /\ n < p1.n => NackAllowed
       /\ drv' = [Next1 EXCEPT !.buf = [x \in Addr |->
            IF x \in p1.from .. p1.from + n - 1
              THEN dev.mem[(dev.bus.pointer + x - p1.from) % Size] ELSE @[x]]]
       /\ dev' = [dev EXCEPT !.bus.pointer = (@ + n) % Size,
                             !.bus.state = IF n < p1.n THEN "deaf" ELSE @]
       /\ IF n < p1.n THEN Nacked ELSE UNCHANGED hist

\* MvI2cStop: the EEPROM begins to program what it took.
MvI2cStop ==
  /\ Running /\ p1.do = "stop"
  /\ drv' = Next1
  /\ dev' = [dev EXCEPT !.bus.state = "idle", !.bus.page = {},
       !.busy = @ \/ dev.bus.page # {},
       !.mem = [x \in Addr |->
         IF \E b \in dev.bus.page : b.at = x
           THEN "new" ELSE @[x]]]
  /\ hist' = [hist EXCEPT !.wrapped = @ \/ \E b \in dev.bus.page : b.at # b.of]

\* External: the EEPROM has programmed the page.
Programmed ==
  /\ dev.busy
  /\ dev' = [dev EXCEPT !.busy = FALSE]
  /\ UNCHANGED <<drv, hist>>

(* ---------------------- masters and enumeration ------------------------ *)

Faulty == hist.faults < hist.max.faults
Fault == hist' = [hist EXCEPT !.faults = @ + 1]

\* MvI2cCalBaudRate: of all divisors the closest, the first of equally close.
Raw(d) == Clock \div ((10 * ((d % 16) + 1)) * 2 ^ ((d \div 16) + 1))
Distance(a, b) == IF a > b THEN a - b ELSE b - a
RECURSIVE Closest(_, _, _)
Closest(target, from, to) ==
  IF from = to THEN from
  ELSE LET half == (from + to) \div 2
           a == Closest(target, from, half)
           b == Closest(target, half + 1, to)
       IN IF Distance(target, Raw(b)) < Distance(target, Raw(a)) THEN b ELSE a
MvI2cCalBaudRate(target) == Closest(target, 0, 127)

\* I2C_BAUD_RATE_PARAM: M above N; the divisors here are numbered N above M.
Param(d) == (d % 16) * 8 + (d \div 16)

\* MvI2cInitialiseController: a context with the divisor for the board's
\* rate, and its protocols; Bus counts those that came up, and the first
\* to fail ends MvI2cInitialise, whose error unloads the driver.
MvI2cInitialiseController ==
  /\ drv.stage = "load" /\ drv.masters < BusCount
  /\ \/ /\ drv' = [drv EXCEPT !.masters = @ + 1, !.rate = Param(MvI2cCalBaudRate(drv.baud))]
        /\ UNCHANGED hist
     \/ Faulty /\ Fault /\ drv' = [drv EXCEPT !.stage = "unloaded"]
  /\ UNCHANGED dev
\* MvI2cInitialise: a master for every bus of the board.
MvI2cInitialise ==
  /\ drv.stage = "load" /\ drv.masters = BusCount
  /\ drv' = [drv EXCEPT !.stage = IF drv.bus < BusCount THEN "reset" ELSE "absent"]
  /\ UNCHANGED <<dev, hist>>

\* MvI2cReset, which the host driver calls once: rate, then the controller.
MvI2cReset ==
  /\ drv.stage = "reset"
  /\ drv' = [drv EXCEPT !.stage = "enumerate"]
  /\ dev' = [dev EXCEPT !.on = TRUE, !.rate = drv.rate]
  /\ UNCHANGED hist

OnBus == {i \in DOMAIN Slaves : Slaves[i].bus = drv.bus}
FirstOf(S) == CHOOSE i \in S : \A j \in S : i <= j
Device(i, freed) == [addr |-> Slaves[i].addr, freed |-> freed]
Last1 == drv.found[Len(drv.found)]
Enumerated == [drv EXCEPT !.stage = "ready"]

\* MvI2cAllocDevice for slave i, whose failure the enumeration ignores:
\* without a device *Device stays as it was, which is the last one again,
\* or none and thus the end; without its parts *Device is freed memory.
MvI2cAllocDevice(i) ==
  \/ drv' = [drv EXCEPT !.found = Append(@, Device(i, FALSE))] /\ UNCHANGED hist
  \/ /\ Faulty /\ Fault
     /\ \/ drv' = IF drv.found = <<>> THEN Enumerated
                  ELSE [drv EXCEPT !.found = Append(@, Last1)]
        \/ drv' = [drv EXCEPT !.found = Append(@, Device(i, TRUE))]

\* MvI2cEnumerate: the first slave of the bus, then the one after the last
\* one returned, which is found again by its address; a freed one may not
\* have it any more, and the enumeration ends.
MvI2cEnumerate ==
  /\ drv.stage = "enumerate"
  /\ LET later == IF drv.found = <<>> THEN OnBus
                  ELSE {i \in OnBus : \E j \in OnBus : j < i /\ Slaves[j].addr = Last1.addr}
     IN \/ later # {} /\ MvI2cAllocDevice(FirstOf(later))
        \/ /\ later = {} \/ (drv.found # <<>> /\ Last1.freed)
           /\ drv' = Enumerated /\ UNCHANGED hist
  /\ UNCHANGED dev

(* -------------------------- the EEPROM driver -------------------------- *)

\* MvEepromSupported: a device of the bus that the board lists as an EEPROM.
MvEepromSupported(slave) ==
  /\ slave.bus = drv.bus /\ \E i \in DOMAIN drv.found : drv.found[i].addr = slave.addr
  /\ \E i \in DOMAIN Eeproms : Eeproms[i] = slave
Idle == ~Running /\ drv.stage \in {"ready", "absent", "unloaded"}

\* MvEepromStart: not where the protocol of a stopped one still is.
MvEepromStart ==
  /\ Idle /\ ~drv.tried
  /\ \E i \in DOMAIN Slaves :
       /\ MvEepromSupported(Slaves[i])
       /\ \/ drv' = [drv EXCEPT !.tried = TRUE, !.eeprom = IF @ = "stale" THEN @ ELSE "bound"]
             /\ UNCHANGED hist
          \/ Faulty /\ Fault /\ drv' = [drv EXCEPT !.tried = TRUE]
  /\ UNCHANGED dev

\* MvEepromStop: what it gives as the handle is a pointer to it, so that
\* the protocol stays installed, in a context that is freed.
MvEepromStop ==
  /\ Idle /\ drv.eeprom = "bound" /\ hist.stops < hist.max.stops
  /\ drv' = [drv EXCEPT !.eeprom = "stale", !.tried = FALSE]
  /\ hist' = [hist EXCEPT !.stops = @ + 1]
  /\ UNCHANGED dev

(* ------------------------------ callers -------------------------------- *)

\* What the command waits for when it connects the stack.
Connected == drv.tried \/ ~\E i \in DOMAIN Slaves : MvEepromSupported(Slaves[i])
\* EepromLocateProtocol: by its identifier, which a freed context may have kept.
EepromLocateProtocol(slave) ==
  IF ~MvEepromSupported(slave) THEN {FALSE}
  ELSE IF drv.eeprom = "stale" THEN BOOLEAN ELSE {drv.eeprom = "bound"}
\* EepromList: how many it prints, whatever their contexts hold.
EepromList == IF drv.eeprom = "none" THEN 0 ELSE 1

\* ShellCommandRunEeprom: it connects the stack when there is no EEPROM.
\* The buffer is zero, and shown whatever comes.
ShellCommandRunEeprom ==
  /\ Idle /\ hist.calls < hist.max.calls
  /\ drv.eeprom = "none" => Connected
  /\ \/ drv' = [drv EXCEPT !.op = [op |-> "list", addr |-> 0, len |-> EepromList]]
     \/ \E slave \in {Slaves[i] : i \in DOMAIN Slaves} :
          \E found \in EepromLocateProtocol(slave) :
            IF found
              THEN \E t \in Transfers :
                drv' = [drv EXCEPT !.op = t, !.buf = [x \in Addr |-> "zero"],
                  !.todo = (IF drv.configured THEN <<>> ELSE <<Phase("enable", FALSE, 0, 0)>>)
                             \o MvEepromTransfer(t.op, t.addr, t.len)]
              ELSE drv' = [drv EXCEPT !.op = [op |-> "refused", addr |-> 0, len |-> 0],
                                      !.tried = @ /\ drv.eeprom # "none"]
  /\ hist' = [hist EXCEPT !.calls = @ + 1, !.before = dev.mem, !.missed = FALSE,
                          !.nacks = 0, !.wrapped = FALSE]
  /\ UNCHANGED dev

Init ==
  /\ \E b \in Boards :
       drv = [todo |-> <<>>, op |-> [op |-> "none", addr |-> 0, len |-> 0],
              buf |-> [x \in Addr |-> "zero"], bus |-> b.bus, baud |-> b.baud, rate |-> 0,
              stage |-> "load", masters |-> 0, found |-> <<>>, configured |-> FALSE,
              eeprom |-> "none", tried |-> FALSE]
  /\ dev = [on |-> FALSE, rate |-> 0, bus |-> None, busy |-> FALSE, mem |-> [x \in Addr |-> "old"]]
  /\ \E max \in Bounds :
       hist = [max |-> max, calls |-> 0, nacks |-> 0, faults |-> 0, stops |-> 0,
               before |-> [x \in Addr |-> "old"],
               missed |-> FALSE,     \* the EEPROM was busy at a start
               wrapped |-> FALSE]    \* a chunk went over the end of a page

Work == MvI2cEnableConf \/ MvI2cStart \/ MvI2cRepeatedStart \/ MvI2cWriteAddress \/ MvI2cWrite
          \/ MvI2cRead \/ MvI2cStop
Next ==
  \/ Work \/ Programmed \/ ShellCommandRunEeprom
  \/ MvI2cInitialiseController \/ MvI2cInitialise \/ MvI2cReset \/ MvI2cEnumerate
  \/ MvEepromStart \/ MvEepromStop

Spec == Init /\ [][Next]_vars /\ WF_vars(Work)

(* ------------------------------ properties ----------------------------- *)

Asked == drv.op.addr .. drv.op.addr + drv.op.len - 1

\* After a transfer the bus is free, and the cells or the buffer are those
\* asked for and no others; unless a byte was not acknowledged, which
\* nobody hears of (MvI2cDxe.c:571), the EEPROM was still busy with the
\* chunk before, or the write went over a page (MvEeprom.c:156).  Then
\* what was not transferred is as it was.  No phase runs before the
\* controller is on and has the divisor of the board.
TransfersLand ==
  /\ Running => dev.on /\ dev.rate = drv.rate
  /\ ~Running => dev.bus.state = "idle" /\ dev.bus.page = {}
  /\ ~Running /\ drv.op.op = "write" /\ ~hist.wrapped =>
       \A x \in Addr :
         IF x \in Asked /\ hist.nacks = 0 /\ ~hist.missed THEN dev.mem[x] = "new"
         ELSE IF x \in Asked THEN dev.mem[x] \in {"new", hist.before[x]}
         ELSE dev.mem[x] = hist.before[x]
  /\ ~Running /\ drv.op.op = "read" =>
       \A x \in Addr :
         IF x \in Asked THEN drv.buf[x] = dev.mem[x] \/ hist.nacks > 0 \/ hist.missed
         ELSE drv.buf[x] = "zero"

\* The enumeration finds every slave of its bus once, in the order of the
\* board; when an allocation fails, which it does not hear of
\* (MvI2cDxe.c:699, :713), it may end early, or give the slave before
\* again, but not another one and none out of order.  A list without any
\* failure or stop shows the EEPROM of the bus, and the divisor that the
\* controller got (M above N) is the closest to the rate of the board.
EnumerationFindsAll ==
  LET all == SelectSeq(Slaves, LAMBDA s : s.bus = drv.bus)
      Place(i) == CHOOSE k \in DOMAIN all : all[k].addr = drv.found[i].addr
  IN
  /\ \A i \in DOMAIN drv.found : \E k \in DOMAIN all : all[k].addr = drv.found[i].addr
  /\ \A i \in DOMAIN drv.found :
       Place(i) = IF i = 1 THEN 1
                  ELSE Place(i - 1) + (IF drv.found[i] = drv.found[i - 1] THEN 0 ELSE 1)
  /\ hist.faults = 0 =>
       /\ \A i \in DOMAIN drv.found : ~drv.found[i].freed /\ Place(i) = i
       /\ drv.stage = "ready" => Len(drv.found) = Len(all)
       /\ drv.op.op = "list" /\ hist.stops = 0 =>
            drv.op.len = Cardinality({i \in DOMAIN Eeproms : Eeproms[i].bus = drv.bus})
  /\ drv.stage = "enumerate" =>
       LET got == Raw((dev.rate % 8) * 16 + dev.rate \div 8)
       IN \A d \in 0 .. 127 : Distance(drv.baud, got) <= Distance(drv.baud, Raw(d))

\* A call ends: every wait has a limit.
CallsEnd == Running ~> ~Running

=============================================================================
