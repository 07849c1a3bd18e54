------------------------------ MODULE MvSpiFlash ------------------------------
(***************************************************************************)
(* Drivers/Spi (MvSpiDxe and Devices/MvSpiFlash) and the fupdate and sf    *)
(* commands (Applications/FirmwareUpdate and SpiTool): reading, erasing,   *)
(* programming and updating a SPI flash that is larger than its addresses  *)
(* reach, so that a bank register selects a part of it.  A call is a       *)
(* sequence of steps, each one transaction on the bus; power may fail      *)
(* between any two.                                                        *)
(***************************************************************************)
EXTENDS Integers, Sequences, FiniteSets

CONSTANTS
  PageSize, EraseSize, Bank,   \* 256, 64K and 16M (SPI_FLASH_16MB_BOUN)
  FlashSize,
  Calls,     \* what callers ask for: [op, off, len, image]
  Commands,  \* lines of the sf command: [flags, addr, off, len, file]
  Bounds     \* bounds: calls, timeouts, crashes; sf: commands instead of calls;
             \* clock: the core's and the greatest allowed

VARIABLES
  drv,    \* the steps left of the call, the temporary buffer
  dev,    \* the flash and its registers, the chip select
  hist    \* history

vars == <<drv, dev, hist>>

ConstantsOK ==
  /\ {PageSize, EraseSize, Bank, FlashSize} \subseteq Nat \ {0}
  /\ EraseSize % PageSize = 0 /\ Bank % EraseSize = 0 /\ FlashSize % Bank = 0
  /\ \A m \in Bounds : {m.calls, m.timeouts, m.crashes} \subseteq Nat
  /\ \A c \in Calls \cup Commands : c.off + c.len <= FlashSize

Addr == 0 .. FlashSize - 1
Min2(a, b) == IF a <= b THEN a ELSE b

\* A cell is as it was, new, erased, or two programs on top of each other.
Programmed(cell, value) == IF cell = "erased" THEN value ELSE "mixed"

(* ------------------------------ the flash ------------------------------ *)

\* With three address bytes the bank register supplies the rest.
Cell(a) == (dev.bank * Bank) + (a % Bank)

\* External: what the flash does with a command it accepts; the address of a
\* page program wraps at the end of its page.
EraseAt(a) ==
  LET from == (Cell(a) \div EraseSize) * EraseSize IN
  [dev EXCEPT !.mem = [x \in Addr |->
     IF x \in from .. from + EraseSize - 1 THEN "erased" ELSE @[x]]]
ProgramAt(a, n, value) ==
  [dev EXCEPT !.mem = [x \in Addr |->
     LET i == (x - Cell(a)) % PageSize
     IN IF x \div PageSize = Cell(a) \div PageSize /\ i < n
          THEN Programmed(@[x], value[a + i]) ELSE @[x]]]
Effect(s) ==
  CASE s.do = "bank" -> [dev EXCEPT !.bank = s.off \div Bank]
    [] s.do = "erase" -> EraseAt(s.off)
    [] s.do = "program" ->
         ProgramAt(s.off, s.len, IF s.src = "buf" THEN [x \in Addr |-> "new"] ELSE drv.tmp)

(* ------------------------------ the steps ------------------------------ *)

Do(do, off, len, src) == [do |-> do, off |-> off, len |-> len, src |-> src]
SpiFlashBank(off) == <<Do("bank", off, 0, "")>>

\* MvSpiFlashErase; a range that is not aligned is refused.
RECURSIVE EraseSteps(_, _)
EraseSteps(off, len) ==
  IF len = 0 THEN <<>>
  ELSE SpiFlashBank(off) \o <<Do("erase", off, EraseSize, "")>>
         \o EraseSteps(off + EraseSize, len - EraseSize)
MvSpiFlashErase(off, len) ==
  IF off % EraseSize # 0 \/ len % EraseSize # 0 THEN <<Do("refuse", off, len, "")>>
  ELSE EraseSteps(off, len)

\* Slip: the chunks do not stop at the end of a page, nor of a bank.
RECURSIVE WriteAcross(_, _, _)
WriteAcross(off, len, src) ==
  IF len = 0 THEN <<>>
  ELSE LET n == Min2(len, PageSize) IN
       SpiFlashBank(off) \o <<Do("program", off, n, src)>>
         \o WriteAcross(off + n, len - n, src)

\* MvSpiFlashWrite: one page program after another.
RECURSIVE MvSpiFlashWrite(_, _, _)
MvSpiFlashWrite(off, len, src) ==
  IF len = 0 THEN <<>>
  ELSE LET n == Min2(len, PageSize - (off % PageSize)) IN
       SpiFlashBank(off) \o <<Do("program", off, n, src)>>
         \o MvSpiFlashWrite(off + n, len - n, src)

\* MvSpiFlashRead: the command always reads to the end; the next overwrites.
RECURSIVE MvSpiFlashRead(_, _)
MvSpiFlashRead(off, len) ==
  IF len = 0 THEN <<>>
  ELSE LET n == Min2(len, Bank - (off % Bank)) IN
       SpiFlashBank(off) \o <<Do("read", off, len, "")>> \o MvSpiFlashRead(off + n, len - n)

\* MvSpiFlashUpdateBlock: the tail of the block is saved and written back.
MvSpiFlashUpdateBlock(off, n) ==
  MvSpiFlashRead(off, EraseSize) \o MvSpiFlashErase(off, EraseSize)
    \o MvSpiFlashWrite(off, n, "buf")
    \o (IF n # EraseSize THEN MvSpiFlashWrite(off + n, EraseSize - n, "tmp") ELSE <<>>)

RECURSIVE MvSpiFlashUpdate(_, _)
MvSpiFlashUpdate(off, len) ==
  IF len = 0 THEN <<>>
  ELSE LET n == Min2(len, EraseSize) IN
       MvSpiFlashUpdateBlock(off, n) \o MvSpiFlashUpdate(off + n, len - n)

\* The flash must have the id that is expected; then it is initialised.
SpiFlashProbe == <<Do("id", 0, 0, ""), Do("init", 0, 0, "")>>

\* ShellCommandRunFUpdate: the file is there, its header has the magic and the
\* sum; the rest of the image is not checked.
PrepareFirmwareImage(image) == image # "missing"
CheckImageHeader(image) == image = "good"
FUpdate(len, image) ==
  IF ~PrepareFirmwareImage(image) \/ ~CheckImageHeader(image)
  THEN <<Do("refuse", 0, 0, "")>>
  ELSE SpiFlashProbe \o MvSpiFlashUpdate(0, len)

StepsOf(c) ==
  CASE c.op = "erase" -> MvSpiFlashErase(c.off, c.len)
    [] c.op = "write" -> MvSpiFlashWrite(c.off, c.len, "buf")
    [] c.op = "read" -> MvSpiFlashRead(c.off, c.len)
    [] c.op = "update" -> MvSpiFlashUpdate(c.off, c.len)
    [] c.op = "fupdate" -> FUpdate(c.len, c.image)

Running == drv.todo # <<>>
s1 == Head(drv.todo)
Done == [drv EXCEPT !.todo = Tail(@),
           !.status = IF Tail(drv.todo) = <<>> THEN "SUCCESS" ELSE @]

\* An error ends the call, but for two: the status of the bank command is
\* not looked at, and the one of the new data in UpdateBlock neither
\* (MvSpiFlash.c:328), so that the rest of that data is left out.
RECURSIVE SkipData(_)
SkipData(todo) ==
  IF todo = <<>> \/ ~(Head(todo).do \in {"bank", "program"} /\ Head(todo).src # "tmp")
    THEN todo
  ELSE IF Len(todo) > 1 /\ Head(todo).do = "bank" /\ todo[2].src # "buf" THEN todo
  ELSE SkipData(Tail(todo))
Failed ==
  CASE s1.do = "bank" -> Done
    [] s1.do = "program" /\ s1.src = "buf" /\ drv.op \in {"update", "fupdate"} ->
         LET rest == SkipData(drv.todo) IN
         [drv EXCEPT !.todo = rest, !.status = IF rest = <<>> THEN "SUCCESS" ELSE @]
    [] OTHER -> [drv EXCEPT !.todo = <<>>, !.status = "ERROR"]

\* MvSpiFlashWriteCommon: write enable, the command, and the wait until
\* the flash is ready.  A flash still selected by a wait that ran out
\* takes the write enable for more of that wait; one still busy ignores
\* it; without it the command is ignored.  All of this looks like success.
MvSpiFlashWriteCommon ==
  /\ Running /\ s1.do \in {"bank", "erase", "program"}
  /\ LET heard == ~dev.selected /\ ~dev.busy IN
     \/ /\ drv' = Done
        /\ dev' = [(IF heard THEN Effect(s1) ELSE dev) EXCEPT
                     !.selected = FALSE, !.busy = FALSE]
        /\ UNCHANGED hist
     \/ /\ heard /\ hist.timeouts < hist.max.timeouts
        /\ drv' = Failed
        /\ dev' = [Effect(s1) EXCEPT !.selected = TRUE]
        /\ hist' = [hist EXCEPT !.timeouts = @ + 1]

\* A read command; the status register is all that a selected flash returns.
MvSpiFlashReadCmd ==
  /\ Running /\ s1.do = "read"
  /\ drv' = [Done EXCEPT !.tmp = [x \in Addr |->
       IF x \notin s1.off .. s1.off + s1.len - 1 THEN @[x]
       ELSE IF dev.selected \/ dev.busy THEN "junk"
       ELSE dev.mem[Cell(x)]]]
  /\ dev' = [dev EXCEPT !.selected = FALSE]
  /\ UNCHANGED hist

\* A flash that is still selected, or busy, does not give its id.
MvSpiFlashReadId ==
  /\ Running /\ s1.do = "id"
  /\ drv' = IF dev.selected \/ dev.busy
              THEN [drv EXCEPT !.todo = <<>>, !.status = "ERROR"] ELSE Done
  /\ dev' = [dev EXCEPT !.selected = FALSE]
  /\ UNCHANGED hist

\* MvSpiFlashInit: the status register is written and not waited for.
MvSpiFlashInit ==
  /\ Running /\ s1.do = "init"
  /\ \/ drv' = Done /\ dev' = [dev EXCEPT !.busy = ~dev.selected, !.selected = FALSE]
     \/ drv' = [drv EXCEPT !.todo = <<>>, !.status = "ERROR"] /\ UNCHANGED dev
  /\ UNCHANGED hist

Refuse ==
  /\ Running /\ s1.do = "refuse"
  /\ drv' = [drv EXCEPT !.todo = <<>>, !.status = "ERROR"]
  /\ UNCHANGED <<dev, hist>>

(* --------------------------- the SPI master ---------------------------- *)

\* The clock for a pair of dividers, as the driver computes it.
Rate(d) == hist.max.clock[1] \div (d[1] * (2 ^ d[2]))
Before(d, e) == d[1] < e[1] \/ (d[1] = e[1] /\ d[2] < e[2])

\* SpiSetBaudRate: the pair whose clock is nearest to the greatest allowed
\* from below, the first one of equals.  "Match" is not initialised: when
\* it happens to be 1 only the first row of pairs is looked at, and with
\* no pair slow enough the dividers are whatever was on the stack.
Dividers(row) == {d \in row \X (0 .. 7) : Rate(d) <= hist.max.clock[2]}
Best(ds) ==
  CHOOSE d \in ds : \A e \in ds \ {d} :
    Rate(d) > Rate(e) \/ (Rate(d) = Rate(e) /\ Before(d, e))
SpiSetBaudRate ==
  {IF Dividers(row) = {} THEN <<0, 0>> ELSE Best(Dividers(row)) :
     row \in {{1}, 1 .. 15}}

(* ----------------------------- the commands ---------------------------- *)

NoCommand == [flags |-> {}, addr |-> FALSE, off |-> -1, len |-> -1, file |-> "none"]
Commanding == drv.cmd # NoCommand
FlagOf(c) == CHOOSE f \in c.flags : TRUE
FileFlag(f) == f \in {"readfile", "writefile", "updatefile"}
OpOf(f) == CASE f \in {"read", "readfile"} -> "read"
             [] f \in {"write", "writefile"} -> "write"
             [] f \in {"update", "updatefile"} -> "update"
             [] f = "erase" -> "erase"
             [] OTHER -> "probe"

\* The parameters that the operation takes are there.
Given(c, f) ==
  /\ f \in {"read", "write", "update"} => c.addr
  /\ c.off >= 0
  /\ f \notin {"writefile", "updatefile"} => c.len >= 0
  /\ FileFlag(f) => c.file # "none"

\* OpenAndPrepareFile creates a file that does not exist.
LengthOf(c, f) == IF f \in {"writefile", "updatefile"} THEN Len(dev.files[c.file]) ELSE c.len

\* The command ends as soon as it has begun.
Told(status) == drv' = [drv EXCEPT !.status = status, !.op = "none", !.held = {}]
AsCall(c, f) == [op |-> OpOf(f), off |-> c.off, len |-> LengthOf(c, f), image |-> "none"]

\* ShellCommandRunSpiFlash up to the transfer.  The device is set up
\* before the parameters are looked at, and kept when one is missing.
SfStart(c) ==
  /\ ~Running /\ ~Commanding /\ hist.max.sf /\ hist.calls < hist.max.calls
  /\ IF (~drv.probed /\ "probe" \notin c.flags) \/ Cardinality(c.flags) > 1
       THEN /\ Told(IF ~drv.probed /\ "probe" \notin c.flags THEN "ASKED" ELSE "ERROR")
            /\ hist' = [hist EXCEPT !.calls = @ + 1, !.before = dev.mem]
            /\ UNCHANGED dev
     ELSE \E d \in SpiSetBaudRate :
       /\ dev' = [dev EXCEPT !.rate = IF d = <<0, 0>> THEN @ ELSE d]
       /\ IF c.flags = {} \/ (FlagOf(c) # "probe" /\ ~Given(c, FlagOf(c)))
            THEN /\ drv' = [drv EXCEPT !.status = "ERROR", !.op = "none",
                                      !.held = {"slave"}]
                 /\ hist' = [hist EXCEPT !.calls = @ + 1, !.before = dev.mem,
                                        !.incomplete = TRUE]
          ELSE LET f == FlagOf(c)
                   steps == IF f = "probe" THEN SpiFlashProbe ELSE StepsOf(AsCall(c, f))
               IN /\ drv' = [drv EXCEPT
                       !.todo = steps, !.op = OpOf(f), !.cmd = c,
                       !.status = IF steps = <<>> THEN "SUCCESS" ELSE "none",
                       !.held = {"slave"} \cup (IF FileFlag(f) THEN {"file", "buffer"} ELSE {}),
                       !.tmp = [x \in Addr |-> "none"]]
                  /\ hist' = [hist EXCEPT !.calls = @ + 1, !.before = dev.mem,
                       !.call = IF f = "probe" THEN [@ EXCEPT !.op = "none", !.len = 0]
                                ELSE AsCall(c, f),
                       !.incomplete = FALSE, !.stale = dev.busy]
Sf == \E c \in Commands : SfStart(c)

\* What was in the file behind the new part stays.
Written(cells, c) ==
  [i \in 1 .. (IF c.len > Len(cells) THEN c.len ELSE Len(cells)) |->
     IF i <= c.len THEN drv.tmp[c.off + i - 1] ELSE cells[i]]

\* ... and after it: a probe keeps its device, a failed transfer the file
\* and its buffer.
SfEnd ==
  /\ Commanding /\ ~Running
  /\ LET f == FlagOf(drv.cmd)
         over == [drv EXCEPT !.cmd = NoCommand]
     IN CASE f = "probe" ->
               /\ drv' = [over EXCEPT !.probed = @ \/ drv.status = "SUCCESS"]
               /\ UNCHANGED dev
          [] f # "probe" /\ drv.status # "SUCCESS" ->
               drv' = [over EXCEPT !.held = @ \ {"slave"}] /\ UNCHANGED dev
          [] f = "readfile" /\ drv.status = "SUCCESS" ->
               \/ /\ drv' = [over EXCEPT !.held = {}]
                  /\ dev' = [dev EXCEPT !.files[drv.cmd.file] = Written(@, drv.cmd)]
               \/ drv' = [over EXCEPT !.held = {}, !.status = "ERROR"] /\ UNCHANGED dev
          [] OTHER -> drv' = [over EXCEPT !.held = {}] /\ UNCHANGED dev
  /\ hist' = [hist EXCEPT !.last = drv.cmd]

\* External: the write of the status register is done before long.
FlashReady ==
  /\ dev.busy /\ dev' = [dev EXCEPT !.busy = FALSE]
  /\ UNCHANGED <<drv, hist>>

(* -------------------------- calls and failures ------------------------- *)

Call ==
  /\ ~Running /\ ~hist.max.sf /\ hist.calls < hist.max.calls
  /\ \E c \in Calls :
       /\ drv' = [drv EXCEPT !.todo = StepsOf(c), !.op = c.op, !.status = "none",
                             !.tmp = [x \in Addr |-> "none"]]
       /\ hist' = [hist EXCEPT !.calls = @ + 1, !.before = dev.mem, !.call = c,
                               !.stale = dev.busy \/ (c.op = "fupdate" /\ dev.bank # 0)]
  /\ UNCHANGED dev

\* Power fails; the command at work may have been done, or half of it.
Crash ==
  /\ Running /\ hist.crashes < hist.max.crashes
  /\ drv' = [drv EXCEPT !.todo = <<>>, !.status = "crashed", !.cmd = NoCommand,
                        !.held = {}, !.probed = FALSE]
  /\ \E half \in BOOLEAN :
       dev' = [dev EXCEPT !.bank = 0, !.busy = FALSE, !.selected = FALSE,
         !.mem = IF half /\ s1.do \in {"erase", "program"} /\ ~dev.selected /\ ~dev.busy
                   THEN [x \in Addr |-> IF Effect(s1).mem[x] # dev.mem[x]
                                          THEN "mixed" ELSE dev.mem[x]]
                   ELSE @]
  /\ hist' = [hist EXCEPT !.crashes = @ + 1]

\* The bank register may be left over from before a warm reset.
Init ==
  /\ drv = [todo |-> <<>>, tmp |-> [x \in Addr |-> "none"], op |-> "none",
            status |-> "none", probed |-> FALSE, cmd |-> NoCommand,
            held |-> {}]    \* the command's device, file and buffer
  /\ \E bank \in {0, FlashSize \div Bank - 1} :
       dev = [mem |-> [x \in Addr |-> "old"], bank |-> bank, selected |-> FALSE,
              busy |-> FALSE, rate |-> <<0, 0>>,
              files |-> [new |-> <<>>, image |-> <<"mine", "mine", "mine">>]]
  /\ \E max \in Bounds :
       hist = [max |-> max, calls |-> 0, timeouts |-> 0, crashes |-> 0,
               before |-> [x \in Addr |-> "old"],
               call |-> [op |-> "none", off |-> 0, len |-> 0, image |-> "none"],
               last |-> NoCommand, incomplete |-> FALSE,
               stale |-> FALSE]    \* the first bank command will not be heard

Work ==
  \/ MvSpiFlashWriteCommon \/ MvSpiFlashReadCmd \/ MvSpiFlashReadId \/ MvSpiFlashInit
  \/ Refuse \/ SfEnd
Next == Work \/ Call \/ Sf \/ FlashReady \/ Crash

Spec == Init /\ [][Next]_vars /\ WF_vars(Work)

(* ------------------------------ properties ----------------------------- *)

Range2(off, len) == off .. off + len - 1
Ended == ~Running /\ drv.status # "none"

\* A call touches no cell outside its range; an update none outside the
\* blocks it is in, and those of the last block it leaves as they were,
\* even though it erases them.  When the power fails only the block being
\* updated is at risk.  A wait that ran out, now or before, excepts
\* (MvSpiFlash.c:133), and so does a leftover bank (MvSpiFlash.c:462).
Touched == {x \in Addr : dev.mem[x] # hist.before[x]}
NothingElseTouched ==
  Ended /\ hist.timeouts = 0 /\ ~hist.stale =>
    LET c == hist.call
        block == {x \in Addr : \E y \in Range2(c.off, c.len) :
                                 y \div EraseSize = x \div EraseSize}
    IN IF drv.status = "crashed" /\ c.op \in {"update", "fupdate"}
         THEN \E b \in {y \div EraseSize : y \in Range2(c.off, c.len)} :
                Touched \subseteq Range2(c.off, c.len) \cup
                  {x \in block : x \div EraseSize = b}
         ELSE Touched \subseteq Range2(c.off, c.len)

\* A call that succeeds has done what it was asked: new data where cells
\* were erased, all of an update, and the data read are those of the flash.
SuccessMeansDone ==
  Ended /\ drv.status = "SUCCESS" /\ hist.timeouts = 0 /\ ~hist.stale =>
    \A x \in Range2(hist.call.off, hist.call.len) :
      CASE hist.call.op = "erase" -> dev.mem[x] = "erased"
        [] hist.call.op = "write" -> dev.mem[x] = Programmed(hist.before[x], "new")
        [] hist.call.op = "read" -> drv.tmp[x] = dev.mem[x]
        [] OTHER -> dev.mem[x] = "new"

\* A sf command that says it has succeeded: a probe has found a flash, a
\* file read has the flash's cells in it.  It has given back what it held,
\* but for the device of a probe (SpiFlashCmd.c:296), and one that fails
\* before the transfer as well, but for the device set up too early (:287).
CommandIsHonest ==
  ~Running /\ ~Commanding =>
    /\ drv.held \subseteq {"slave"} \/ drv.status = "ERROR"
    /\ "slave" \in drv.held => hist.incomplete \/ hist.last.flags = {"probe"}
    /\ drv.status = "SUCCESS" /\ hist.last.flags = {"probe"} => drv.probed
    /\ (drv.status = "SUCCESS" /\ hist.last.flags = {"readfile"} /\ drv.op = "read"
          /\ hist.timeouts = 0 /\ ~hist.stale) =>
         \A i \in 1 .. hist.last.len :
           dev.files[hist.last.file][i] = dev.mem[hist.last.off + i - 1]

\* The flash is never clocked faster than allowed, whatever "Match" was
\* (MvSpiDxe.c:45), as long as there are dividers that slow.
ClockAllowed == dev.rate # <<0, 0>> => Rate(dev.rate) <= hist.max.clock[2]

\* A call ends: every wait has a limit.
CallsEnd == (Running \/ Commanding) ~> (~Running /\ ~Commanding)

=============================================================================
