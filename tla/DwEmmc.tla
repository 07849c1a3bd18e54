------------------------------- MODULE DwEmmc -------------------------------
\* Drivers/Mmc/DwEmmcDxe: the eMMC host that the generic MMC driver works
\* on.  A command that moves data is held back until the call that brings
\* the buffer.  SendCommand waits for the data line, then for the end of
\* the command, not for that of its data.
EXTENDS Integers, Sequences, FiniteSets, FiniteSetsExt

CONSTANTS
  Rate,       \* of the clock that the controller divides
  MaxDivider, \* 255
  Freqs,      \* that callers ask for
  BufSize, BlockSize,   \* of one descriptor, 4096 bytes, and of one block, 512
  Lengths,    \* that callers ask for
  Lbas,
  Bounds      \* bounds: requests, nested, faults

VARIABLES
  drv,    \* the calls left, the command held back, where SendCommand is
  dev,    \* interrupt status, response, data line, descriptors, bus
  hist    \* history

vars == <<drv, dev, hist>>

ConstantsOK ==
  /\ {Rate, MaxDivider, BufSize, BlockSize} \subseteq Nat \ {0} /\ BufSize % BlockSize = 0
  /\ Freqs \cup Lbas \subseteq Nat /\ Lengths \subseteq Nat \ {0}
  /\ \A m \in Bounds : {m.requests, m.nested, m.faults} \subseteq Nat

None == [index |-> 99, arg |-> 0]
Command(index, arg) == [index |-> index, arg |-> arg]

(* --------------------------- pure definitions -------------------------- *)

\* DwEmmcSetClock: the first divider that is slow enough, if there is one.
DividerFor(freq) ==
  LET slow == {d \in 1 .. MaxDivider : Rate \div (2 * d) <= freq} IN
  IF slow = {} THEN {} ELSE {Min(slow)}

\* Commands that move data, with the mark that holds them back; 8 and 16
\* always have it, though on some cards they move none.
IsPending(c) == c.index \in {8, 16, 17, 18, 24, 25}

\* PrepareDmaData: full descriptors, and in the last one what is left of the
\* length made a multiple of the block.
RoundTo(n, unit) == ((n + unit - 1) \div unit) * unit
PrepareDmaData(length) ==
  LET cnt == RoundTo(length, BufSize) \div BufSize IN
  [i \in 1 .. cnt |->
     IF i < cnt THEN BufSize ELSE RoundTo(length, BlockSize) - ((cnt - 1) * BufSize)]

(* ------------------------------- requests ------------------------------ *)

\* What the MMC driver (external) does: it sends a command, takes the answer,
\* moves the data, and mostly asks for the state of the card.
Send(c) == [do |-> "send", cmd |-> c, len |-> 0]
Resp(c) == [do |-> "resp", cmd |-> c, len |-> 0]
Data(c, n) == [do |-> "data", cmd |-> c, len |-> n]
Request(c, n, ask) ==
  <<Send(c), Resp(c), Data(c, n)>>
    \o (IF ask THEN <<Send(Command(13, 1)), Resp(Command(13, 1))>> ELSE <<>>)
Identify(index) == <<Send(Command(index, 1)), Resp(Command(index, 1))>>
SetIos(freq, width, timing) ==
  <<[do |-> "ios", cmd |-> None, len |-> 0, freq |-> freq, width |-> width,
     timing |-> timing]>>
Requests ==
  {Request(Command(i, l), n, ask) : i \in {17, 25}, l \in Lbas, n \in Lengths,
                                    ask \in BOOLEAN}
    \cup {Identify(i) : i \in {0, 3, 8, 16}}

(* ------------------------------- the calls ----------------------------- *)

Running == drv.todo # <<>>
c1 == Head(drv.todo)

\* After the nested calls those they interrupted; an error ends a request.
Resume(todo) ==
  IF todo = <<>> /\ drv.outer # <<>> THEN [drv EXCEPT !.todo = drv.outer, !.outer = <<>>]
  ELSE [drv EXCEPT !.todo = todo]
CallDone == [Resume(Tail(drv.todo)) EXCEPT !.at = "call", !.status = "SUCCESS"]
CallFailed == [Resume(<<>>) EXCEPT !.at = "call", !.status = "ERROR"]

\* DwEmmcSendCommand: hold it back, or send it.
DwEmmcSendCommand ==
  /\ Running /\ drv.at = "call" /\ c1.do = "send"
  /\ drv' = IF IsPending(c1.cmd) THEN [CallDone EXCEPT !.pending = c1.cmd]
            ELSE [drv EXCEPT !.at = "busy", !.cmd = c1.cmd]
  /\ UNCHANGED <<dev, hist>>

\* DwEmmcReceiveResponse: what the register holds.
DwEmmcReceiveResponse ==
  /\ Running /\ drv.at = "call" /\ c1.do = "resp"
  /\ drv' = CallDone
  /\ hist' = [hist EXCEPT !.answer = [of |-> dev.resp, asked |-> c1.cmd]]
  /\ UNCHANGED dev

\* DwEmmcReadBlockData, DwEmmcWriteBlockData: the descriptors and the length
\* are written whatever the controller is doing; then the command held back.
DwEmmcBlockData ==
  /\ Running /\ drv.at = "call" /\ c1.do = "data"
  /\ drv' = [drv EXCEPT !.at = "busy", !.cmd = drv.pending]
  /\ dev' = [dev EXCEPT !.chain = PrepareDmaData(c1.len), !.bytes = c1.len]
  /\ hist' = [hist EXCEPT !.rewritten = @ \/ dev.data # None,
                          !.wrong = @ \/ drv.pending # c1.cmd]

\* SendCommand: the data line is free, the interrupts are cleared and the
\* command is written; then any error, the end of the data or that of the
\* command ends the wait.  Neither wait has a limit.
SendCommandWrite ==
  /\ Running /\ drv.at = "busy" /\ dev.data = None
  /\ drv' = [drv EXCEPT !.at = "poll"]
  /\ dev' = [dev EXCEPT !.rint = {}, !.cmd = drv.cmd]
  /\ hist' = IF c1.do = "data" THEN [hist EXCEPT !.wanted = <<c1.cmd, c1.len>>] ELSE hist

SendCommandPoll ==
  /\ Running /\ drv.at = "poll" /\ dev.rint # {}
  /\ drv' = IF "error" \in dev.rint THEN CallFailed ELSE CallDone
  /\ hist' = IF "error" \notin dev.rint /\ c1.do = "data"
               THEN [hist EXCEPT !.early = dev.data # None] ELSE hist
  /\ UNCHANGED dev

\* DwEmmcSetIos: timing and width first, so an unsupported width leaves
\* the new timing; the clock is stopped, divided and started again.
Ddr(timing) == timing \in {"HS52DDR1V2", "HS52DDR1V8"}
DwEmmcSetIos ==
  /\ Running /\ drv.at = "call" /\ c1.do = "ios"
  /\ LET timing == c1.timing \in {"BACKWARD", "HS52", "HS26", "HS52DDR1V2", "HS52DDR1V8"}
         width == timing /\ c1.width \in {1, 4, 8}
         clock == width /\ c1.freq # 0
         divider == DividerFor(c1.freq)
     IN /\ clock /\ divider # {} => dev.data = None
        /\ dev' = [dev EXCEPT
             !.ddr = IF timing /\ c1.timing # "BACKWARD" THEN Ddr(c1.timing) ELSE @,
             !.width = IF width THEN c1.width ELSE @,
             !.divider = IF clock /\ divider # {} THEN divider ELSE @]
        /\ drv' = IF width /\ (clock => divider # {}) THEN CallDone ELSE CallFailed
        /\ hist' = IF clock /\ divider # {} THEN [hist EXCEPT !.freq = c1.freq] ELSE hist

\* DwEmmcNotifyState, MmcHwInitializationState: a reset and a slow clock.
HwInitialization ==
  /\ ~Running /\ hist.requests < hist.max.requests /\ dev.data = None
  /\ DividerFor(400) # {}
  /\ dev' = [dev EXCEPT !.rint = {}, !.cmd = None, !.divider = DividerFor(400)]
  /\ hist' = [hist EXCEPT !.requests = @ + 1, !.freq = 400]
  /\ UNCHANGED drv

(* ------------------------- controller and card ------------------------- *)

Fault == hist.faults < hist.max.faults
Answer ==
  /\ dev.cmd # None
  /\ \/ /\ dev' = [dev EXCEPT !.cmd = None, !.resp = dev.cmd, !.rint = @ \cup {"CMD_DONE"},
                     !.data = IF dev.cmd.index \in {17, 25} THEN dev.cmd ELSE @]
        /\ UNCHANGED hist
     \/ /\ Fault
        /\ dev' = [dev EXCEPT !.cmd = None, !.rint = @ \cup {"error"}]
        /\ hist' = [hist EXCEPT !.faults = @ + 1]
  /\ UNCHANGED drv
MoveData ==
  /\ dev.data # None
  /\ dev' = [dev EXCEPT !.data = None, !.rint = @ \cup {"DTO"}]
  /\ hist' = [hist EXCEPT !.stray = @ \/ <<dev.data, dev.bytes>> # hist.wanted]
  /\ UNCHANGED drv

(* ------------------------------- callers ------------------------------- *)

Begin ==
  /\ ~Running /\ hist.requests < hist.max.requests
  /\ \E r \in Requests \cup {SetIos(f, w, t) : f \in Freqs, w \in {1, 2, 8},
                              t \in {"BACKWARD", "HS26", "HS52DDR1V8", "HS200"}} :
       drv' = [drv EXCEPT !.todo = r, !.status = "none"]
  /\ hist' = [hist EXCEPT !.requests = @ + 1, !.early = FALSE]
  /\ UNCHANGED dev

\* Another user between two calls; the block data call itself keeps the TPL.
Nested ==
  /\ Running /\ drv.at = "call" /\ drv.outer = <<>> /\ c1.do # "ios"
  /\ hist.nested < hist.max.nested
  /\ \E l \in Lbas, n \in Lengths :
       drv' = [drv EXCEPT !.todo = Request(Command(17, l), n, TRUE), !.outer = drv.todo]
  /\ hist' = [hist EXCEPT !.nested = @ + 1]
  /\ UNCHANGED dev

Init ==
  /\ drv = [todo |-> <<>>, outer |-> <<>>, at |-> "call", cmd |-> None,
            pending |-> None, status |-> "none"]
  /\ dev = [rint |-> {}, cmd |-> None, resp |-> None, data |-> None, chain |-> <<>>,
            bytes |-> 0, ddr |-> FALSE, width |-> 1, divider |-> {}]
  /\ \E max \in Bounds :
       hist = [max |-> max, requests |-> 0, nested |-> 0, faults |-> 0,
               answer |-> [of |-> None, asked |-> None],
               wanted |-> <<None, 0>>, \* data of the last command with a buffer
               stray |-> FALSE,        \* data that moved otherwise
               early |-> FALSE,        \* success before the data had moved
               rewritten |-> FALSE,    \* the descriptors, while they were in use
               wrong |-> FALSE,        \* another command went with the data
               freq |-> 0]             \* that the clock was last asked for

Work == DwEmmcSendCommand \/ DwEmmcReceiveResponse \/ DwEmmcBlockData
          \/ SendCommandWrite \/ SendCommandPoll \/ DwEmmcSetIos
Device == Answer \/ MoveData
Next == Work \/ Device \/ HwInitialization \/ Begin \/ Nested

Spec == Init /\ [][Next]_vars /\ WF_vars(Work) /\ WF_vars(Device)

(* ------------------------------ properties ----------------------------- *)

\* The command that goes out with a buffer is the one sent for it, and the
\* answer a caller takes is that of its command, unless that was held back
\* (DwEmmcDxe.c:382) or another user came between (DwEmmcDxe.c:383).
AnswersAreTrue ==
  /\ hist.wrong => hist.nested > 0
  /\ hist.answer.of # hist.answer.asked =>
       hist.nested > 0 \/ IsPending(hist.answer.asked)

\* Data move as the last command with a buffer asked, unless the
\* descriptors were rewritten meanwhile: SendCommand had returned at the
\* end of the command (DwEmmcDxe.c:303) and nothing waited for the data.
\* No descriptor is more than full, and together they are as long as the
\* blocks; the clock is no faster than it was asked to be.
DataAsAsked ==
  /\ hist.stray => hist.rewritten \/ hist.wrong
  /\ \A i \in DOMAIN dev.chain :
       dev.chain[i] <= BufSize /\ (i < Len(dev.chain) => dev.chain[i] = BufSize)
  /\ dev.chain # <<>> =>
       ((Len(dev.chain) - 1) * BufSize) + dev.chain[Len(dev.chain)]
         = RoundTo(dev.bytes, BlockSize)
  /\ hist.freq # 0 => \E d \in dev.divider : Rate \div (2 * d) <= hist.freq

\* A request ends; every wait is for the device.
CallsEnd == Running ~> ~Running

=============================================================================
