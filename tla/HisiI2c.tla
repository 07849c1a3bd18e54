------------------------------- MODULE HisiI2c -------------------------------
\* Chips/Hisilicon/Library/I2CLib over the DesignWare I2C master: commands
\* go through a FIFO to the bus, the bytes read come back through another.
\* The library waits for FIFOs to drain or fill, a limited number of
\* times; that a slave does not acknowledge it never asks.
EXTENDS Integers, Sequences, FiniteSets

CONSTANTS
  Depth,              \* of the FIFOs
  I2C_TXRX_THRESHOLD, \* commands that may be in the FIFO when one is added
  I2C_READ_TIMEOUT,   \* times a wait looks
  AddressBytes,       \* that the slave expects: 1, or 2 for an EEPROM
  Memory,             \* its bytes
  Calls,              \* [op, slave, type, offset, len, data]
  Bounds              \* bounds: calls

VARIABLES
  drv,    \* the call in progress
  dev,    \* the controller, the bus and the slave
  hist    \* history

vars == <<drv, dev, hist>>

ConstantsOK ==
  /\ I2C_TXRX_THRESHOLD < Depth /\ I2C_READ_TIMEOUT \in Nat \ {0}
  /\ AddressBytes \in 1 .. 2
  /\ \A c \in Calls : c.offset + c.len <= Len(Memory)
  /\ \A m \in Bounds : m.calls \in Nat

(* --------------------- the controller and the slave -------------------- *)

Write(byte, stop) == [read |-> FALSE, byte |-> byte, stop |-> stop]
Read(stop) == [read |-> TRUE, byte |-> 0, stop |-> stop]

\* A full FIFO drops what is written to it, one of an aborted transfer drops all.
Push(d, c) ==
  IF d.aborted \/ ~d.enabled \/ Len(d.tx) >= Depth THEN d ELSE [d EXCEPT !.tx = Append(@, c)]

\* The master takes a command; the FIFO may be empty while the bus is busy.
Take ==
  /\ dev.enabled /\ dev.shift = <<>> /\ dev.tx # <<>>
  /\ dev' = [dev EXCEPT !.shift = <<Head(dev.tx)>>, !.tx = Tail(@), !.active = TRUE]
  /\ UNCHANGED <<drv, hist>>

\* A byte on the bus: after a start the slave takes its address bytes first.
Written(d, byte, fresh) ==
  LET got == IF fresh THEN 0 ELSE d.got IN
  IF got < AddressBytes
    THEN [d EXCEPT !.got = got + 1, !.ptr = ((IF got = 0 THEN 0 ELSE @ * 256) + byte) % Len(Memory)]
  ELSE [d EXCEPT !.mem[d.ptr + 1] = byte, !.ptr = (@ + 1) % Len(Memory)]
Read1(d) == [d EXCEPT !.rx = Append(@, d.mem[d.ptr + 1]), !.ptr = (@ + 1) % Len(Memory)]

Transfer ==
  /\ dev.shift # <<>>
  /\ LET c == dev.shift[1]
         fresh == dev.way # (IF c.read THEN "read" ELSE "write")
         done == IF c.read THEN Read1(dev) ELSE Written(dev, c.byte, fresh)
     IN dev' = IF dev.tar # "present"
                 THEN [dev EXCEPT !.shift = <<>>, !.tx = <<>>, !.aborted = TRUE,
                                  !.active = FALSE, !.way = "idle"]
               ELSE [done EXCEPT !.shift = <<>>, !.active = ~c.stop,
                       !.way = IF c.stop THEN "idle" ELSE IF c.read THEN "read" ELSE "write"]
  /\ UNCHANGED <<drv, hist>>

Controller == Take \/ Transfer

(* ------------------------------- the library --------------------------- *)

NoCall == [at |-> "idle"]
DEVICE_TYPE_SPD == 0

\* The offset's bytes that a call sends, the high ones first.
Byte(n, i) == (n \div (CASE i = 0 -> 1 [] i = 1 -> 256 [] OTHER -> 65536)) % 256
Operands(n, bytes) ==
  CASE bytes = 1 -> <<Byte(n, 0)>> [] bytes = 2 -> <<Byte(n, 1), Byte(n, 0)>>
    [] bytes = 3 -> <<Byte(n, 2), Byte(n, 1), Byte(n, 0)>>
    [] bytes = 4 -> <<0, Byte(n, 2), Byte(n, 1), Byte(n, 0)>>
    [] OTHER -> <<>>

\* I2CWrite and I2CRead know two kinds of device, the others also CPLDs.
OffsetBytes(c) ==
  CASE c.op \in {"write", "read"} -> IF c.type # DEVICE_TYPE_SPD THEN 2 ELSE 1
    [] c.op = "readmulti" -> c.type + 1
    [] OTHER -> IF c.type \in {2, 3} THEN c.type + 1 ELSE 0

\* I2C_Disable is left only when the bus has come to rest.
Disabled(d) ==
  [d EXCEPT !.enabled = FALSE, !.tx = <<>>, !.rx = <<>>, !.aborted = FALSE]

Leave(status) == [drv EXCEPT !.at = "disable", !.status = status, !.looks = 0]

\* A call enables the controller and names the slave, then waits for the
\* FIFO to be empty before it sends the offset.
Start ==
  \E c \in Calls :
    /\ drv.at = "idle" /\ hist.calls < hist.max.calls
    /\ drv' = [at |-> "empty", call |-> c, next |-> "offset", n |-> 1, looks |-> 0,
               status |-> "none", got |-> <<>>]
    /\ dev' = [dev EXCEPT !.enabled = TRUE, !.tar = c.slave]
    /\ hist' = [hist EXCEPT !.calls = @ + 1, !.before = dev.mem,
                            
                            !.open = dev.active \/ dev.aborted \/ dev.tx # <<>> \/ dev.rx # <<>>]

\* A wait looks again and again, and gives up after so many times.
Again(status) ==
  drv' = IF drv.looks = I2C_READ_TIMEOUT THEN Leave(status) ELSE [drv EXCEPT !.looks = @ + 1]
TimedOut == IF drv.call.op \in {"read", "readmulti"} THEN "ABORTED" ELSE "TIMEOUT"
I2C_GetTxStatus ==
  /\ drv.at = "empty" /\ UNCHANGED <<dev, hist>>
  /\ \/ Len(dev.tx) = 0 /\ drv' = [drv EXCEPT !.at = drv.next, !.looks = 0]
     \/ Len(dev.tx) # 0 /\ Again(TimedOut)

\* WriteBeforeRead, and the same in the two writing calls: the offset.
\* I2CWriteMultiByte goes on to its data at once.
WriteBeforeRead ==
  /\ drv.at = "offset" /\ UNCHANGED hist
  /\ LET bytes == Operands(drv.call.offset, OffsetBytes(drv.call)) IN
     IF drv.n <= Len(bytes)
       THEN /\ dev' = Push(dev, Write(bytes[drv.n], FALSE))
            /\ drv' = [drv EXCEPT !.n = @ + 1]
     ELSE /\ drv' = [drv EXCEPT !.n = 1, !.at = IF drv.call.op = "writemulti" THEN "data" ELSE "empty",
                       !.next = IF drv.call.op = "write" THEN "data" ELSE "commands"]
          /\ UNCHANGED dev

\* I2CWrite: one byte at a time as the FIFO has room; the last one stops.
I2CWrite ==
  /\ drv.at = "data" /\ drv.call.op = "write" /\ UNCHANGED hist
  /\ \/ /\ drv.n > drv.call.len /\ UNCHANGED dev
        /\ drv' = [drv EXCEPT !.at = "empty", !.next = "done"]
     \/ /\ drv.n <= drv.call.len /\ Len(dev.tx) <= I2C_TXRX_THRESHOLD
        /\ dev' = Push(dev, Write(drv.call.data + drv.n, drv.n = drv.call.len))
        /\ drv' = [drv EXCEPT !.n = @ + 1, !.looks = 0]
     \/ /\ drv.n <= drv.call.len /\ Len(dev.tx) > I2C_TXRX_THRESHOLD /\ Again("TIMEOUT")
        /\ UNCHANGED dev

\* I2CWriteMultiByte: all bytes at once, and no stop.
I2CWriteMultiByte ==
  /\ drv.at = "data" /\ drv.call.op = "writemulti" /\ UNCHANGED hist
  /\ IF drv.n > drv.call.len
       THEN drv' = [drv EXCEPT !.at = "empty", !.next = "done"] /\ UNCHANGED dev
     ELSE /\ dev' = Push(dev, Write(drv.call.data + drv.n, FALSE))
          /\ drv' = [drv EXCEPT !.n = @ + 1]

\* I2CRead: a command for every byte, the last with a stop.
I2CRead ==
  /\ drv.at = "commands" /\ drv.call.op = "read" /\ UNCHANGED hist
  /\ IF drv.n > drv.call.len THEN drv' = Leave("SUCCESS") /\ UNCHANGED dev
     ELSE /\ dev' = Push(dev, Read(drv.n = drv.call.len))
          /\ drv' = [drv EXCEPT !.at = "byte", !.n = @ + 1]

\* I2CReadMultiByte: all the commands at once, and no stop.
I2CReadMultiByte ==
  /\ drv.at = "commands" /\ drv.call.op = "readmulti" /\ UNCHANGED hist
  /\ IF drv.n > drv.call.len
       THEN /\ UNCHANGED dev
            /\ drv' = IF drv.call.len = 0 THEN Leave("SUCCESS") ELSE [drv EXCEPT !.at = "byte"]
     ELSE dev' = Push(dev, Read(FALSE)) /\ drv' = [drv EXCEPT !.n = @ + 1]

\* I2C_GetRxStatus, and the byte when there is one.
I2C_GetRxStatus ==
  /\ drv.at = "byte"
  /\ \/ /\ dev.rx # <<>> /\ UNCHANGED hist
        /\ dev' = [dev EXCEPT !.rx = Tail(@)]
        /\ drv' = LET got == Append(drv.got, Head(dev.rx)) IN
             IF drv.call.op = "read" THEN [drv EXCEPT !.at = "commands", !.got = got, !.looks = 0]
             ELSE IF Len(got) = drv.call.len THEN [Leave("SUCCESS") EXCEPT !.got = got]
             ELSE [drv EXCEPT !.got = got, !.looks = 0]
     \/ dev.rx = <<>> /\ Again("TIMEOUT") /\ UNCHANGED <<dev, hist>>

Done == drv.at = "done" /\ drv' = Leave("SUCCESS") /\ UNCHANGED <<dev, hist>>

\* I2C_Disable: waits for the bus to come to rest, so many times; then the
\* controller stays as it is.  Its status is ignored by every call.
Answer(quiet) ==
  [hist EXCEPT !.told = [call |-> drv.call, status |-> drv.status, got |-> drv.got,
                         quiet |-> quiet, excused |-> hist.open]]
I2C_Disable ==
  /\ drv.at = "disable"
  /\ \/ ~dev.active /\ dev' = Disabled(dev) /\ drv' = NoCall /\ hist' = Answer(TRUE)
     \/ /\ dev.active /\ UNCHANGED dev
        /\ IF drv.looks + 1 < I2C_READ_TIMEOUT
             THEN drv' = [drv EXCEPT !.looks = @ + 1] /\ UNCHANGED hist
           ELSE drv' = NoCall /\ hist' = Answer(FALSE)

Library == \/ I2C_GetTxStatus \/ WriteBeforeRead \/ I2CWrite \/ I2CWriteMultiByte
           \/ I2CRead \/ I2CReadMultiByte \/ I2C_GetRxStatus \/ Done \/ I2C_Disable

\* I2CInit leaves the controller enabled.
I2CInit == [enabled |-> TRUE, tar |-> "present", tx |-> <<>>, rx |-> <<>>, shift |-> <<>>,
            active |-> FALSE, way |-> "idle", aborted |-> FALSE, got |-> 0, ptr |-> 0,
            mem |-> Memory]
Init ==
  /\ drv = NoCall /\ dev = I2CInit
  /\ \E max \in Bounds : hist = [max |-> max, calls |-> 0, before |-> Memory,
                                 open |-> FALSE, told |-> [status |-> "none"]]

Next == Start \/ Library \/ Controller

Spec == Init /\ [][Next]_vars /\ WF_vars(Library) /\ WF_vars(Controller)

(* ------------------------------ properties ----------------------------- *)

Busy == drv.at # "idle"

\* A call that sends the slave as many address bytes as it expects.
Meant(c) == c.slave = "present" /\ OffsetBytes(c) = AddressBytes

\* What a call reports with success has happened when it returns, on a bus
\* that was at rest when it began and is again: a read has the slave's
\* bytes in their order, and a write has changed those bytes and no other.
\* A call without success to a slave that is there has written no more
\* than a part of its bytes; one to a slave that is not there reads none.
BytesArrive ==
  LET t == hist.told
      at == t.call.offset + 1 .. t.call.offset + t.call.len
      wanted == [i \in DOMAIN Memory |->
                   IF t.call.op = "write" /\ i \in at
                     THEN t.call.data + i - t.call.offset ELSE hist.before[i]]
  IN t.status # "none" /\ ~t.excused /\ ~Busy =>
       /\ t.status = "SUCCESS" /\ t.quiet /\ Meant(t.call) =>
            /\ dev.mem = wanted
            /\ t.call.op = "read" =>
                 t.got = [i \in 1 .. t.call.len |-> hist.before[t.call.offset + i]]
       /\ Meant(t.call) => \A i \in DOMAIN Memory : dev.mem[i] \in {hist.before[i], wanted[i]}
       /\ t.call.slave = "absent" => t.got = <<>> /\ dev.mem = hist.before

\* The calls that send a stop leave a bus at rest, unless they gave up.
StopsLeaveRest ==
  hist.told.status = "SUCCESS" /\ hist.told.quiet /\ ~Busy =>
    ~dev.active /\ ~dev.enabled /\ dev.shift = <<>>

=============================================================================
