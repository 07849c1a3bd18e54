--------------------------- MODULE PciRootBridgeIo ---------------------------
(***************************************************************************)
(* Chips/Hisilicon/Drivers/PciHostBridgeDxe/PciRootBridgeIo.c: the memory, *)
(* I/O and configuration accesses of a root bridge.  A call runs while the *)
(* devices behind the bridge change their registers and the link comes and *)
(* goes; CopyMem and the polls take a step for each element and tick.      *)
(*                                                                         *)
(* Memory is a function of bytes, a configuration header the command and   *)
(* status word and one base address register, four bytes each.  Widths are *)
(* exponents: 0, 1 and 2 for 8, 16 and 32 bits.                            *)
(***************************************************************************)
EXTENDS Integers, Sequences, FiniteSets

CONSTANTS
  MemBase, MemLimit,                \* the memory window
  PciRegionBase, PciRegionLimit, CpuMemRegionBase,  \* its translation
  IoBase, IoLimit, CpuIoRegionBase, \* I/O: the limit is the CPU's address
  Ecam, BusBase, BusLimit,
  TickPeriod,                       \* of mMetronome
  Bounds       \* bounds: calls of one kind (op, calls), changes made outside

ConstantsOK ==
  /\ MemBase \in Nat /\ MemLimit \in Nat /\ (MemLimit + 1) % 4 = 0
  /\ BusBase + 2 <= BusLimit /\ TickPeriod \in Nat \ {0}
  /\ PciRegionLimit < CpuIoRegionBase /\ CpuIoRegionBase <= IoLimit /\ IoLimit < Ecam
  /\ \A m \in Bounds : m.calls \in Nat /\ m.changes \in Nat

VARIABLES
  drv,    \* the call in progress, and the answer of the last
  dev,    \* memory, I/O ports, configuration headers, the polled register, the link, DmaLib
  hist    \* history

vars == <<drv, dev, hist>>

Address == 0 .. MemLimit + 4
Ports == IoBase .. IoBase + (IoLimit - CpuIoRegionBase) + 4
None == [op |-> "none"]
Stride(width) == 2^width

\* The root port, a device below it, and one on a deeper bus.
Function == {<<BusBase, 0>>, <<BusBase, 1>>, <<BusBase + 1, 0>>, <<BusBase + 2, 1>>}
RW1C == {<<"command", 2>>, <<"command", 3>>}   \* the bytes of Status
Header == [command |-> [i \in 0 .. 3 |-> 0], bar |-> [i \in 0 .. 3 |-> 0]]

Init ==
  /\ drv = [call |-> None, answer |-> None]
  /\ dev = [mem |-> [a \in Address |-> a], cfg |-> [f \in Function |-> Header],
            reg |-> 0, link |-> TRUE, io |-> [a \in Ports |-> a], dma |-> {}]
  /\ \E max \in Bounds :
       hist = [max |-> max, calls |-> 0, changes |-> 0,
               mem |-> [a \in Address |-> a],   \* when the call began
               io |-> [a \in Ports |-> a]]

Idle == drv.call = None

Asked(op) == hist.max.op = op /\ Idle /\ hist.calls < hist.max.calls
Begin(op) ==
  /\ Asked(op)
  /\ hist' = [hist EXCEPT !.calls = @ + 1, !.mem = dev.mem, !.io = dev.io]

Return(answer) == drv' = [drv EXCEPT !.call = None, !.answer = answer]

(* ------------------------ the outbound windows ------------------------- *)

\* A window of the CPU's addresses and what the bridge makes of them.
Window(type, lo, hi, target) == [type |-> type, lo |-> lo, hi |-> hi, target |-> target]
GetPcieCfgAddress(bus, device) == Ecam + bus * 2 + device   \* two devices to a bus
SetAtuMemRW == Window("mem", CpuMemRegionBase, PciRegionLimit, PciRegionBase)
SetAtuConfig0RW == Window("config0", Ecam, GetPcieCfgAddress(BusBase + 1, 1) - 1, 0)
SetAtuConfig1RW == Window("config1", Ecam, GetPcieCfgAddress(BusLimit + 1, 0) - 1, 0)
SetAtuIoRW == Window("io", CpuIoRegionBase, IoLimit, IoBase)

\* Slip: the windows of the configuration cycles in the other order.
InitAtuSwapped == <<SetAtuMemRW, SetAtuConfig1RW, SetAtuConfig0RW, SetAtuIoRW>>

InitAtu == <<SetAtuMemRW, SetAtuConfig0RW, SetAtuConfig1RW, SetAtuIoRW>>

\* The first window that an address lies in makes the cycle on the bus.
Outbound(cpu) ==
  LET hit == {k \in DOMAIN InitAtu : InitAtu[k].lo <= cpu /\ cpu <= InitAtu[k].hi} IN
  IF hit = {} THEN [type |-> "none", at |-> 0]
  ELSE LET w == InitAtu[CHOOSE k \in hit : \A j \in hit : k <= j]
       IN [type |-> w.type, at |-> w.target + cpu - w.lo]

(* ------------------------------- memory -------------------------------- *)

\* RootBridgeIoCheckParameter for memory and I/O: alignment, then the
\* window, with a count of one for the FIFO widths.
RootBridgeIoCheckParameter(base, limit, width, fifo, address, count0) ==
  LET count == IF fifo THEN 1 ELSE count0
      maxCount == limit \div Stride(width)
  IN IF address % Stride(width) # 0 THEN "UNSUPPORTED"
     ELSE IF address < base THEN "INVALID_PARAMETER"
     ELSE IF count = 0
       THEN IF address > limit THEN "UNSUPPORTED" ELSE "SUCCESS"
     ELSE IF maxCount < count - 1
            \/ address > (maxCount - count + 1) * Stride(width)
       THEN "UNSUPPORTED"
     ELSE "SUCCESS"

\* RootBridgeIoMemRW: the address as the CPU sees it.
Translate(address) == address - PciRegionBase + CpuMemRegionBase
MemStatus(width, fifo, address, count) ==
  RootBridgeIoCheckParameter(MemBase, MemLimit, width, fifo, Translate(address), count)
Element(width, address) == [i \in 0 .. Stride(width) - 1 |->
                              dev.mem[Translate(address) + i]]
Stored(mem, width, address, element) ==
  [a \in Address |-> LET i == a - Translate(address) IN
     IF i \in DOMAIN element THEN element[i] ELSE mem[a]]

\* A write of count elements, each of its own value; a FIFO stays in place.
RootBridgeIoMemWrite(width, fifo, address, count) ==
  /\ Begin("MemWrite")
  /\ LET status == MemStatus(width, fifo, address, count)
         value(i) == [j \in 0 .. Stride(width) - 1 |-> 100 + i]
         at(i) == IF fifo THEN address ELSE address + (i - 1) * Stride(width)
         Mem[i \in 0 .. count] ==
           IF i = 0 THEN dev.mem ELSE Stored(Mem[i - 1], width, at(i), value(i))
     IN /\ dev' = IF status = "SUCCESS" THEN [dev EXCEPT !.mem = Mem[count]] ELSE dev
        /\ Return([op |-> "MemWrite", status |-> status, fifo |-> fifo,
                   at |-> address, len |-> count * Stride(width),
                   width |-> width])

\* RootBridgeIoIoRW: the address as the CPU sees it, checked against the
\* CPU's limit but the base of the ports.
TranslateIo(address) == address - IoBase + CpuIoRegionBase
RootBridgeIoIoRW(width, fifo, address, count) ==
  RootBridgeIoCheckParameter(IoBase, IoLimit, width, fifo, TranslateIo(address), count)
PortsOf(address, len) ==
  {Outbound(TranslateIo(address) + i).at : i \in {j \in 0 .. len - 1 :
     Outbound(TranslateIo(address) + j).type = "io"}}

RootBridgeIoIoWrite(width, fifo, address, count) ==
  /\ Begin("IoWrite")
  /\ LET status == RootBridgeIoIoRW(width, fifo, address, count)
         len == IF fifo /\ count > 0 THEN Stride(width) ELSE count * Stride(width)
         hit == PortsOf(address, len)
     IN /\ dev' = IF status = "SUCCESS"
                    THEN [dev EXCEPT !.io = [a \in Ports |-> IF a \in hit THEN 100 ELSE @[a]]]
                    ELSE dev
        /\ Return([op |-> "IoWrite", status |-> status, at |-> address, len |-> len])

\* A read has the bytes of the ports, ones where no window answers.
RootBridgeIoIoRead(width, address) ==
  /\ Begin("IoRead")
  /\ LET status == RootBridgeIoIoRW(width, FALSE, address, 1)
         byte(i) == LET o == Outbound(TranslateIo(address) + i) IN
                    IF o.type = "io" THEN dev.io[o.at] ELSE 255
     IN Return([op |-> "IoRead", status |-> status, at |-> address,
                result |-> [i \in 0 .. Stride(width) - 1 |->
                              IF status = "SUCCESS" THEN byte(i) ELSE 0]])
  /\ UNCHANGED dev

\* RootBridgeIoMemRead of one element.
RootBridgeIoMemRead(width, address) ==
  /\ Begin("MemRead")
  /\ LET status == MemStatus(width, FALSE, address, 1)
     IN Return([op |-> "MemRead", status |-> status, at |-> address, cycle |->
                  Outbound(Translate(address)),
                result |-> IF status = "SUCCESS" THEN Element(width, address) ELSE [i \in {} |-> 0]])
  /\ UNCHANGED dev

\* Slip: always forwards.
NeverBackwards(dest, src, len) == FALSE

\* RootBridgeIoCopyMem: backwards when the destination starts inside the
\* source.  Each element is read and written with a check of its own, so a
\* copy may end after a part.
Backwards(dest, src, len) == dest > src /\ dest < src + len

RootBridgeIoCopyMem(width, dest, src, count) ==
  /\ Begin("CopyMem")
  /\ LET len == count * Stride(width)
         back == Backwards(dest, src, len)
         shift == IF back THEN len - Stride(width) ELSE 0
     IN IF dest = src
          THEN Return([op |-> "CopyMem", status |-> "SUCCESS", dest |-> dest,
                       src |-> src, len |-> len])
          ELSE drv' = [drv EXCEPT !.answer = None, !.call =
                 [op |-> "CopyMem", width |-> width, back |-> back,
                  to |-> dest + shift, from |-> src + shift, left |-> count,
                  dest |-> dest, src |-> src, len |-> len]]
  /\ UNCHANGED dev

CopyElement ==
  /\ drv.call.op = "CopyMem"
  /\ LET c == drv.call
         step == IF c.back THEN -Stride(c.width) ELSE Stride(c.width)
         read == MemStatus(c.width, FALSE, c.from, 1)
         write == MemStatus(c.width, FALSE, c.to, 1)
         done(status) == [op |-> "CopyMem", status |-> status, dest |-> c.dest,
                          src |-> c.src, len |-> c.len]
     IN IF c.left = 0 THEN Return(done("SUCCESS")) /\ UNCHANGED dev
        ELSE IF read # "SUCCESS" THEN Return(done(read)) /\ UNCHANGED dev
        ELSE IF write # "SUCCESS" THEN Return(done(write)) /\ UNCHANGED dev
        ELSE /\ dev' = [dev EXCEPT !.mem =
                  Stored(@, c.width, c.to, Element(c.width, c.from))]
             /\ drv' = [drv EXCEPT !.call.to = @ + step, !.call.from = @ + step,
                          !.call.left = @ - 1]
  /\ UNCHANGED hist

(* -------------------------------- polls -------------------------------- *)

\* RootBridgeIoPollMem and RootBridgeIoPollIo: the register is read once,
\* then after each tick, one tick more than the delay needs.  A poll of
\* I/O without delay succeeds whatever was read (:1390).
Ticks(delay) == (delay + TickPeriod - 1) \div TickPeriod + 1

Polled(space, status, delay, ticks) ==
  [op |-> "Poll", space |-> space, status |-> status, result |-> dev.reg,
   delay |-> delay, ticks |-> ticks]

RootBridgeIoPoll(space, delay) ==
  /\ Begin("Poll")
  /\ IF dev.reg = 1 THEN Return(Polled(space, "SUCCESS", delay, 0))
     ELSE IF delay = 0
       THEN Return(Polled(space, IF space = "Io" THEN "SUCCESS" ELSE "TIMEOUT",
                          delay, 0))
     ELSE drv' = [drv EXCEPT !.answer = None, !.call =
            [op |-> "Poll", space |-> space, delay |-> delay,
             left |-> Ticks(delay), ticks |-> 0]]
  /\ UNCHANGED dev

PollTick ==
  /\ drv.call.op = "Poll"
  /\ LET c == drv.call IN
       IF dev.reg = 1
         THEN Return(Polled(c.space, "SUCCESS", c.delay, c.ticks + 1))
       ELSE IF c.left = 1
         THEN Return(Polled(c.space, "TIMEOUT", c.delay, c.ticks + 1))
       ELSE drv' = [drv EXCEPT !.call.left = @ - 1, !.call.ticks = @ + 1]
  /\ UNCHANGED <<dev, hist>>

(* ---------------------------- configuration ---------------------------- *)

\* PcieIsLinkUp is asked only for the bus below the root port.
PcieIsLinkUp(f) == f[1] # BusBase + 1 \/ dev.link

\* The cycle that an access of a function makes; the root port has its own registers.
Cycle(f) == IF f = <<BusBase, 0>> THEN [type |-> "registers", at |-> 0]
            ELSE Outbound(GetPcieCfgAddress(f[1], f[2]))

\* What the register bytes of one word become when w is written to it.
Written(word, old, w) ==
  [i \in 0 .. 3 |-> IF <<word, i>> \in RW1C
                      THEN IF w[i] = 1 THEN 0 ELSE old[i]
                      ELSE w[i]]

\* CpuMemoryServiceWrite: a narrow write is a read, a change and a write
\* of the whole word; a halfword at an odd offset is refused, which the
\* caller does not look at.
CpuMemoryServiceWrite(word, old, offset, width, value) ==
  IF width = 1 /\ offset % 2 = 1 THEN old
  ELSE LET bytes == IF width = 2 THEN 0 .. 3 ELSE offset .. offset + Stride(width) - 1
       IN Written(word, old, [i \in 0 .. 3 |-> IF i \in bytes THEN value ELSE old[i]])

\* RootBridgeIoPciWrite: the base addresses of the root port are not
\* written, with success; there is no check of the bus.
RootBridgeIoPciWrite(f, word, offset, width, value) ==
  /\ Begin("PciWrite")
  /\ LET ignored == f = <<BusBase, 0>> /\ word = "bar" /\ offset = 0
         old == dev.cfg[f][word]
         new == CpuMemoryServiceWrite(word, old, offset, width, value)
         status == IF PcieIsLinkUp(f) THEN "SUCCESS" ELSE "NOT_READY"
     IN /\ dev' = IF status = "SUCCESS" /\ ~ignored
                    THEN [dev EXCEPT !.cfg[f][word] = new] ELSE dev
        /\ Return([op |-> "PciWrite", status |-> status, f |-> f, word |-> word,
                   offset |-> offset, width |-> width, value |-> value,
                   before |-> dev.cfg, cycle |-> Cycle(f)])

\* CpuMemoryServiceRead: the bytes of the word read that were asked for; a
\* halfword at an odd offset leaves the buffer as the caller had it.
CpuMemoryServiceRead(bytes, offset, width) ==
  IF width = 1 /\ offset % 2 = 1 THEN <<>>
  ELSE [i \in 1 .. Stride(width) |-> bytes[(IF width = 2 THEN 0 ELSE offset) + i - 1]]

\* RootBridgeIoPciRead: on an error the buffer is filled with ones; on the
\* root bus there is one function only.
RootBridgeIoPciRead(f, word, offset, width) ==
  /\ Begin("PciRead")
  /\ LET status == IF f[1] < BusBase \/ f[1] > BusLimit THEN "INVALID_PARAMETER"
                   ELSE IF f[1] = BusBase /\ f[2] # 0 THEN "UNSUPPORTED"
                   ELSE IF PcieIsLinkUp(f) THEN "SUCCESS" ELSE "NOT_READY"
     IN Return([op |-> "PciRead", status |-> status, f |-> f, word |-> word,
                offset |-> offset, cycle |-> Cycle(f),
                result |-> IF status = "SUCCESS"
                             THEN CpuMemoryServiceRead(dev.cfg[f][word], offset, width)
                             ELSE [i \in 1 .. Stride(width) |-> 255]])
  /\ UNCHANGED dev

(* ---------------------- direct memory and attributes ------------------- *)

\* RootBridgeIoMap: the operations and their 64 bit forms; DmaMap's status
\* is not looked at.
DmaOperations == [Read |-> "Read", Write |-> "Write", Common |-> "Common",
                  Read64 |-> "Read", Write64 |-> "Write", Common64 |-> "Common"]
RootBridgeIoMap(op, ok) ==
  /\ Begin("Dma")
  /\ LET known == op \in DOMAIN DmaOperations
         handle == [kind |-> IF known THEN DmaOperations[op] ELSE "none", id |-> hist.calls]
     IN /\ dev' = IF known /\ ok THEN [dev EXCEPT !.dma = @ \cup {handle}] ELSE dev
        /\ Return([op |-> "Map", asked |-> op, ok |-> ok, handle |-> handle,
                   status |-> IF known THEN "SUCCESS" ELSE "INVALID_PARAMETER"])

\* RootBridgeIoAllocateBuffer refuses attributes, and says what DmaLib says.
RootBridgeIoAllocateBuffer(attributes, ok) ==
  /\ Begin("Dma")
  /\ LET handle == [kind |-> "Buffer", id |-> hist.calls]
         status == IF attributes THEN "UNSUPPORTED"
                   ELSE IF ok THEN "SUCCESS" ELSE "OUT_OF_RESOURCES"
     IN /\ dev' = IF status = "SUCCESS" THEN [dev EXCEPT !.dma = @ \cup {handle}] ELSE dev
        /\ Return([op |-> "AllocateBuffer", status |-> status, handle |-> handle])

RootBridgeIoUnmap(handle) ==
  /\ Begin("Dma") /\ handle.kind # "Buffer"
  /\ dev' = [dev EXCEPT !.dma = @ \ {handle}]
  /\ Return([op |-> "Unmap", status |-> "SUCCESS", handle |-> handle])
RootBridgeIoFreeBuffer(handle) ==
  /\ Begin("Dma") /\ handle.kind = "Buffer"
  /\ dev' = [dev EXCEPT !.dma = @ \ {handle}]
  /\ Return([op |-> "FreeBuffer", status |-> "SUCCESS", handle |-> handle])

\* Supports and Attributes are the same set and stay as they are.
Supports == {"IDE", "ISA", "VGA", "BUFFER"}
RootBridgeIoGetAttributes == Supports
RootBridgeIoSetAttributes(attributes) ==
  /\ Begin("Attributes") /\ UNCHANGED dev
  /\ Return([op |-> "SetAttributes", asked |-> attributes,
             status |-> IF attributes \subseteq Supports THEN "SUCCESS" ELSE "UNSUPPORTED"])

(* ------------------------------- devices ------------------------------- *)

\* The polled register changes, a device sets its Status, the link changes.
Change ==
  /\ hist.changes < hist.max.changes
  /\ \/ hist.max.op = "Poll" /\ dev' = [dev EXCEPT !.reg = 1 - @]
     \/ /\ hist.max.op \in {"PciRead", "PciWrite"}
        /\ \/ \E f \in Function, x \in RW1C :
                dev' = [dev EXCEPT !.cfg[f][x[1]][x[2]] = 1]
           \/ dev' = [dev EXCEPT !.link = ~@]
  /\ hist' = [hist EXCEPT !.changes = @ + 1]
  /\ drv' = [drv EXCEPT !.answer = None]

Call ==
  \/ Asked("MemWrite") /\ \E width \in 0 .. 1, fifo \in BOOLEAN, count \in 0 .. 2,
                             address \in PciRegionBase .. PciRegionBase + MemLimit :
       RootBridgeIoMemWrite(width, fifo, address, count)
  \/ Asked("CopyMem") /\ \E width \in 0 .. 1, count \in 0 .. 3,
                            dest, src \in PciRegionBase .. PciRegionBase + MemLimit :
       RootBridgeIoCopyMem(width, dest, src, count)
  \/ Asked("Poll") /\ \E space \in {"Mem", "Io"}, delay \in {0, TickPeriod, TickPeriod + 1} :
       RootBridgeIoPoll(space, delay)
  \/ Asked("PciWrite") /\ \E f \in Function, word \in DOMAIN Header, offset \in 0 .. 3,
                             width \in 0 .. 2, value \in 0 .. 1 :
       RootBridgeIoPciWrite(f, word, IF width = 2 THEN 0 ELSE offset, width, value)
  \/ Asked("PciRead") /\ \E f \in Function, word \in DOMAIN Header, offset \in 0 .. 3,
                            width \in 0 .. 2 :
       RootBridgeIoPciRead(f, word, IF width = 2 THEN 0 ELSE offset, width)
  \/ Asked("IoWrite") /\ \E width \in 0 .. 1, address \in Ports, fifo \in BOOLEAN, count \in 0 .. 2 :
       RootBridgeIoIoWrite(width, fifo, address, count)
  \/ Asked("IoRead") /\ \E width \in 0 .. 1, address \in Ports : RootBridgeIoIoRead(width, address)
  \/ Asked("MemRead") /\ \E width \in 0 .. 1, address \in PciRegionBase .. PciRegionBase + MemLimit :
       RootBridgeIoMemRead(width, address)
  \/ Asked("Dma") /\ \E ok \in BOOLEAN :
       \/ \E op \in DOMAIN DmaOperations \cup {"Other"} : RootBridgeIoMap(op, ok)
       \/ \E attributes \in BOOLEAN : RootBridgeIoAllocateBuffer(attributes, ok)
  \/ Asked("Dma") /\ \E handle \in dev.dma :
       RootBridgeIoUnmap(handle) \/ RootBridgeIoFreeBuffer(handle)
  \/ Asked("Attributes") /\ \E attributes \in {{}, {"VGA"}, {"VGA", "DAC"}} :
       RootBridgeIoSetAttributes(attributes)

Work == CopyElement \/ PollTick
Next == Call \/ Work \/ Change
Spec == Init /\ [][Next]_vars /\ WF_vars(Work)

(* ------------------------------ properties ----------------------------- *)

A == drv.answer
Span(address, len) == {Translate(address) + i : i \in 0 .. len - 1}

\* Memory changes only inside the window and only where the call says, and
\* a copy is a move: the destination holds what the source held when the
\* call began, however the two overlap.  An error leaves a part undone,
\* never a byte elsewhere.
MemoryMoves ==
  LET changed == {a \in Address : dev.mem[a] # hist.mem[a]} IN
  /\ changed \subseteq MemBase .. MemLimit
  /\ A.op = "CopyMem" => changed \subseteq Span(A.dest, A.len)
  /\ A.op = "CopyMem" /\ A.status = "SUCCESS" /\ A.dest # A.src =>
       \A i \in 0 .. A.len - 1 :
         dev.mem[Translate(A.dest) + i] = hist.mem[Translate(A.src) + i]
  /\ A.op = "MemWrite" => changed \subseteq
       Span(A.at, IF A.fifo THEN Stride(A.width) ELSE A.len)
  /\ A.op = "MemWrite" /\ A.status # "SUCCESS" => changed = {}

\* A configuration write changes the bytes it names, and others of the
\* word only where writing back a status bit clears it (:1862 writes the
\* whole word); an error changes nothing.  Below the root port the cycle
\* on the bus is for the function asked for, of the type its bus needs
\* (on the root bus :1946 lets writes to other devices through).  I/O
\* reaches the ports named, memory the address named.  A poll that
\* succeeds has seen the value, except of I/O without delay; one that
\* times out has waited for the delay at least.  A mapping that was made
\* is of the kind asked for, also when success is said without one.
AccessesAreTrue ==
  /\ A.op = "PciWrite" =>
       \A f \in Function, word \in DOMAIN Header, i \in 0 .. 3 :
         dev.cfg[f][word][i] # A.before[f][word][i] =>
           /\ A.status = "SUCCESS" /\ f = A.f /\ word = A.word
           /\ \/ i \in A.offset .. A.offset + Stride(A.width) - 1
              \/ <<word, i>> \in RW1C /\ dev.cfg[f][word][i] = 0
  /\ A.op = "Poll" =>
       /\ A.status = "SUCCESS" => A.result = 1 \/ (A.space = "Io" /\ A.delay = 0)
       /\ A.status = "TIMEOUT" => A.result = 0 /\ A.ticks * TickPeriod >= A.delay
  /\ A.op \in {"PciRead", "PciWrite"} /\ A.status = "SUCCESS" /\ A.f[1] > BusBase =>
       A.cycle = [type |-> IF A.f = <<BusBase + 1, 0>> THEN "config0" ELSE "config1",
                  at |-> 2 * A.f[1] + A.f[2]]
  /\ A.op = "IoWrite" => {a \in Ports : dev.io[a] # hist.io[a]} \subseteq
                            IF A.status = "SUCCESS" THEN {A.at + i : i \in 0 .. A.len - 1} ELSE {}
  /\ A.op = "IoWrite" /\ A.status = "SUCCESS" => \A i \in 0 .. A.len - 1 : dev.io[A.at + i] = 100
  /\ A.op = "IoRead" /\ A.status = "SUCCESS" =>
       \A i \in DOMAIN A.result : A.result[i] = dev.io[A.at + i]
  /\ A.op = "MemRead" /\ A.status = "SUCCESS" => A.cycle = [type |-> "mem", at |-> A.at]
  /\ A.op = "Map" => (A.handle \in dev.dma) = (A.status = "SUCCESS" /\ A.ok)
  /\ A.op = "Map" /\ A.handle \in dev.dma =>
       A.asked \in {A.handle.kind, CASE A.handle.kind = "Read" -> "Read64"
                                     [] A.handle.kind = "Write" -> "Write64"
                                     [] OTHER -> "Common64"}

\* A call ends.
Busy == drv.call # None
CallsReturn == Busy ~> ~Busy

=============================================================================
