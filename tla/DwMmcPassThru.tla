--------------------------- MODULE DwMmcPassThru ---------------------------
(***************************************************************************)
(* EFI_SD_MMC_PASS_THRU as implemented by Drivers/SdMmc/DwMmcHcDxe on the  *)
(* DesignWare mobile storage host, for the one slot the driver starts.     *)
(*                                                                         *)
(* The queue and the threads are those of XenonPassThru ("App", "Cb",      *)
(* "Tick").  What differs is how a request runs.  The DMA descriptor list  *)
(* of an eMMC request is loaded into the controller when its TRB is        *)
(* created, not when it is executed; the execution polls the controller    *)
(* until the command is done and its data moved, at TPL_NOTIFY when the    *)
(* timer runs it, and looks at no timeout.  An SD card is read through the *)
(* FIFO by the CPU.  Card enumeration is disabled: its handler returns at  *)
(* its first line.                                                         *)
(***************************************************************************)
EXTENDS Naturals, Sequences, Functions

CONSTANTS
  Req,        \* the command packets clients may pass to PassThru, once each
  AsyncReq,   \* those passed with an Event
  CbReq,      \* those passed by code running at TPL_CALLBACK
  DatReq,     \* those with InTransferLength # 0
  Faulty,     \* those whose command or data the card may answer with an error
  Cards,      \* the platforms' card types: "emmc", "sd"
  None,
  MaxStarts   \* bound: DriverBinding Start calls

ASSUME DwAssumption ==
  /\ AsyncReq \subseteq Req /\ CbReq \subseteq Req
  /\ DatReq \subseteq Req /\ Faulty \subseteq Req
  /\ Cards \subseteq {"emmc", "sd"} /\ None \notin Req /\ MaxStarts \in Nat

Thread  == {"App", "Cb", "Tick"}
Failure == {"NO_MEDIA", "INVALID", "ABORTED", "DEVICE_ERROR", "OUT_OF_RESOURCES"}
Final   == Failure \cup {"SUCCESS"}
Bits    == {"CD", "DTO", "ERR"}

VARIABLES
  \* the driver
  driver,     \* "stopped", "started", "stopping", or "stuck": Start failed half way
  media,      \* Slot.Enable and Slot.MediaPresent, set together
  queue,      \* Private->Queue
  mapped,     \* TRBs whose data buffer is mapped (Trb->DataMap)
  pc, cur,    \* where each thread is, and its TRB
  received,   \* threads whose ReadFifo has received all of its data
  stopNext,   \* NextLink of the loop in DriverBindingStop
  starts,
  \* the controller
  cmd,        \* the TRB whose command is in the command register
  dat,        \* the TRB whose data phase is running
  fifo,       \* the TRB whose data is in the FIFO
  rint,       \* RINTSTS
  desc,       \* the TRB whose descriptor list DBADDR points to
  owned,      \* TRBs whose descriptors still have their OWN bit
  idsts,      \* the receive interrupt bit of IDSTS
  cardIn, card,   \* a card is in the slot; Slot.CardType
  \* what clients see, and history
  status, accepted, signalled, lost,
  buffer,     \* the buffer the data of each request went to
  faults,     \* requests the card answered with an error
  shared,     \* a data TRB was created while another one was alive
  nested      \* a request was submitted in the middle of another call

drvVars  == <<driver, media, stopNext, starts>>
trbVars  == <<queue, mapped>>
thrVars  == <<pc, cur, received>>
lineVars == <<cmd, dat, fifo, rint>>
dmaVars  == <<desc, owned, idsts>>
logVars  == <<status, accepted, signalled, lost>>
hisVars  == <<buffer, faults, shared, nested>>
cardVars == <<cardIn, card>>
vars == <<drvVars, trbVars, thrVars, lineVars, dmaVars, cardVars, logVars, hisVars>>

Emmc == card = "emmc"

Init ==
  /\ driver = "stopped" /\ media = FALSE /\ queue = <<>> /\ mapped = {}
  /\ pc = [th \in Thread |-> "idle"] /\ cur = [th \in Thread |-> None]
  /\ received = {} /\ stopNext = None /\ starts = 0
  /\ cmd = None /\ dat = None /\ fifo = None /\ rint = {}
  /\ desc = None /\ owned = {} /\ idsts = FALSE
  /\ cardIn \in BOOLEAN /\ card \in Cards
  /\ status = [r \in Req |-> "none"] /\ accepted = <<>> /\ signalled = <<>> /\ lost = {}
  /\ buffer = [r \in Req |-> None] /\ faults = {} /\ shared = FALSE /\ nested = FALSE

Above(th) == CASE th = "App" -> {"Cb", "Tick"} [] th = "Cb" -> {"Tick"} [] OTHER -> {}
CanRun(th) == \A u \in Above(th) : pc[u] = "idle"
At(th, label) == pc[th] = label /\ CanRun(th)
Goto(th, label) == pc' = [pc EXCEPT ![th] = label]
LevelReq(th) == IF th = "Cb" THEN CbReq ELSE Req \ CbReq
Installed == driver \in {"started", "stopping"}
----------------------------------------------------------------------------
(* --- DwMmcPassThruPassThru up to the execution of the TRB --- *)
\* A slot that had no card at Start has Enable = FALSE.
SlotStatus == IF media THEN "SUCCESS" ELSE "INVALID"

Submit(th, r) ==
  /\ At(th, "idle") /\ Installed /\ r \in LevelReq(th) /\ status[r] = "none"
  /\ IF SlotStatus = "SUCCESS"
       THEN /\ status' = [status EXCEPT ![r] = "issued"]
            /\ Goto(th, "create") /\ cur' = [cur EXCEPT ![th] = r]
       ELSE /\ status' = [status EXCEPT ![r] = SlotStatus] /\ UNCHANGED <<pc, cur>>
  /\ nested' = (nested \/ \E u \in Thread \ {th} : pc[u] # "idle")
  /\ UNCHANGED <<drvVars, trbVars, received, lineVars, dmaVars, cardVars,
                 accepted, signalled, lost, buffer, faults, shared>>

\* The call of thread th ends with st; Done frees the TRB and its mappings.
Return(th, st) ==
  /\ status' = [status EXCEPT ![cur[th]] = st]
  /\ mapped' = mapped \ {cur[th]}
  /\ Goto(th, "idle") /\ cur' = [cur EXCEPT ![th] = None]
  /\ UNCHANGED <<queue, accepted, signalled, lost>>

\* Slips: the OWN bits are not set; DBADDR is loaded once.
BuildDmaDescTableUnowned(t) ==
  desc' = t /\ owned' = owned /\ idsts' = FALSE
BuildDmaDescTableStale(t) ==
  desc' = (IF desc = None THEN t ELSE desc) /\ owned' = owned \cup {t} /\ idsts' = FALSE

\* Fills the descriptors, loads DBADDR, BLKSIZ and BYTCNT, clears IDSTS.
BuildDmaDescTable(t) ==
  desc' = t /\ owned' = owned \cup {t} /\ idsts' = FALSE

Alive(th) == Range(queue) \cup {cur[u] : u \in Thread \ {th}}

\* The DMA engine is reset and restarted: a transfer that is running goes on
\* with the new list.
CreateTrb(th) ==
  /\ At(th, "create")
  /\ IF Emmc /\ cur[th] \in DatReq
       THEN /\ mapped' = mapped \cup {cur[th]} /\ BuildDmaDescTable(cur[th])
            /\ shared' = (shared \/ Alive(th) \cap DatReq # {})
       ELSE UNCHANGED <<mapped, dmaVars, shared>>
  /\ Goto(th, IF cur[th] \in AsyncReq THEN "insert" ELSE "waitq")
  /\ UNCHANGED <<drvVars, queue, cur, received, lineVars, cardVars, logVars, buffer, faults, nested>>

\* No memory, no mapping, or a DMA reset that does not end; the mapping is undone.
CreateTrbFails(th) ==
  /\ At(th, "create")
  /\ \/ UNCHANGED dmaVars
     \/ Emmc /\ cur[th] \in DatReq /\ BuildDmaDescTable(cur[th])
  /\ shared' = (shared \/ (Emmc /\ cur[th] \in DatReq /\ Alive(th) \cap DatReq # {}))
  /\ Return(th, "OUT_OF_RESOURCES")
  /\ UNCHANGED <<drvVars, received, lineVars, cardVars, buffer, faults, nested>>

InsertTail(q, t) == Append(q, t)

InsertTrb(th) ==
  /\ At(th, "insert")
  /\ queue' = InsertTail(queue, cur[th]) /\ accepted' = Append(accepted, cur[th])
  /\ Goto(th, "idle") /\ cur' = [cur EXCEPT ![th] = None]
  /\ UNCHANGED <<drvVars, mapped, received, lineVars, dmaVars, cardVars,
                 status, signalled, lost, hisVars>>

\* The list is empty; DwMmcWaitTrbEnv finds the environment always ready.
WaitQueueEmpty(th) ==
  /\ At(th, "waitq") /\ queue = <<>> /\ Goto(th, "exec")
  /\ UNCHANGED <<drvVars, trbVars, cur, received, lineVars, dmaVars, cardVars, logVars, hisVars>>
----------------------------------------------------------------------------

(* --- Execution of the TRB cur[th], by a synchronous call or by the timer --- *)
\* Slip: the mapping is not undone.
AnswerHeadMapped(st) ==
  /\ queue' = Tail(queue) /\ signalled' = Append(signalled, Head(queue))
  /\ status' = [status EXCEPT ![Head(queue)] = st] /\ UNCHANGED <<mapped, accepted, lost>>

\* RemoveEntryList, TransactionStatus := st, DwMmcFreeTrb, SignalEvent.
AnswerHead(st) ==
  /\ queue' = Tail(queue) /\ signalled' = Append(signalled, Head(queue))
  /\ status' = [status EXCEPT ![Head(queue)] = st]
  /\ mapped' = mapped \ {Head(queue)} /\ UNCHANGED <<accepted, lost>>

Finish(th, st) ==
  IF th = "Tick"
    THEN AnswerHead(st) /\ Goto(th, "idle") /\ cur' = [cur EXCEPT ![th] = None]
    ELSE Return(th, st)

\* ProcessAsyncTaskList takes the first TRB of the queue.
TickStart ==
  /\ driver = "started" /\ pc["Tick"] = "idle" /\ queue # <<>> /\ media
  /\ Goto("Tick", "exec") /\ cur' = [cur EXCEPT !["Tick"] = Head(queue)]
  /\ UNCHANGED <<drvVars, trbVars, received, lineVars, dmaVars, cardVars, logVars, hisVars>>

\* Slip: the interrupt status of the previous command is not cleared.
ExecClearKeeps(th) ==
  /\ At(th, "exec") /\ rint' = rint
  /\ Goto(th, "cmd") /\ received' = received \ {th}
  /\ UNCHANGED <<drvVars, trbVars, cur, cmd, dat, fifo, dmaVars, cardVars, logVars, hisVars>>

\* The card is waited for until it is not busy; RINTSTS is cleared.
ExecClear(th) ==
  /\ At(th, "exec") /\ rint' = {}
  /\ Goto(th, "cmd") /\ received' = received \ {th}
  /\ UNCHANGED <<drvVars, trbVars, cur, cmd, dat, fifo, dmaVars, cardVars, logVars, hisVars>>

\* A full command register raises the hardware-locked error and drops the write.
ExecCommand(th) ==
  /\ At(th, "cmd")
  /\ IF cmd = None THEN cmd' = cur[th] /\ UNCHANGED rint
                   ELSE rint' = rint \cup {"ERR"} /\ UNCHANGED cmd
  /\ Goto(th, IF Emmc THEN "done" ELSE "readfifo")
  /\ UNCHANGED <<drvVars, trbVars, cur, received, dat, fifo, dmaVars, cardVars, logVars, hisVars>>

\* Slip: data commands do not wait for their data.
ExecDoneEarly(th) ==
  /\ At(th, "done") /\ "CD" \in rint
  /\ Finish(th, "SUCCESS")
  /\ UNCHANGED <<drvVars, received, lineVars, dmaVars, cardVars, hisVars>>

\* DwEmmcExecTrb: CMD_DONE; a command without data ends here, errors unread.
ExecDone(th) ==
  /\ At(th, "done") /\ "CD" \in rint
  /\ IF cur[th] \in DatReq
       THEN Goto(th, "over") /\ UNCHANGED <<trbVars, cur, logVars>>
       ELSE Finish(th, "SUCCESS")
  /\ UNCHANGED <<drvVars, received, lineVars, dmaVars, cardVars, hisVars>>

ExecOver(th) ==
  /\ At(th, "over")
  /\ \/ "ERR" \in rint /\ Finish(th, "DEVICE_ERROR")
     \/ "ERR" \notin rint /\ "DTO" \in rint /\ Goto(th, "idsts")
        /\ UNCHANGED <<trbVars, cur, logVars>>
  /\ UNCHANGED <<drvVars, received, lineVars, dmaVars, cardVars, hisVars>>

\* DwMmcCheckTrbResult waits for the DMA engine and clears its status.
CheckTrbResult(th) ==
  /\ At(th, "idsts") /\ idsts
  /\ idsts' = FALSE /\ Finish(th, "SUCCESS")
  /\ UNCHANGED <<drvVars, received, lineVars, desc, owned, cardVars, hisVars>>

\* ReadFifo copies what the FIFO holds into Trb->Data ...
ReadFifo(th) ==
  /\ At(th, "readfifo") /\ cur[th] \in DatReq /\ th \notin received
  /\ "DTO" \in rint /\ fifo # None
  /\ buffer' = [buffer EXCEPT ![fifo] = cur[th]]
  /\ received' = received \cup {th} /\ fifo' = None
  /\ UNCHANGED <<drvVars, trbVars, pc, cur, cmd, dat, rint, dmaVars, cardVars, logVars, faults, shared, nested>>

\* ... until the command is done and DataLen bytes were received.
ReadFifoEnd(th) ==
  /\ At(th, "readfifo") /\ "CD" \in rint /\ (cur[th] \in DatReq => th \in received)
  /\ rint' = {} /\ Finish(th, "SUCCESS")
  /\ UNCHANGED <<drvVars, received, cmd, dat, fifo, dmaVars, cardVars, hisVars>>
----------------------------------------------------------------------------
(* --- Reset of the device, driver binding --- *)
\* Slip: the TRBs are freed without a signal.
SignalAllSilent(st) ==
  queue' = <<>> /\ mapped' = mapped \ Range(queue) /\ UNCHANGED logVars

SignalAll(st) ==
  /\ queue' = <<>> /\ signalled' = signalled \o queue
  /\ status' = [r \in Req |-> IF r \in Range(queue) THEN st ELSE status[r]]
  /\ mapped' = mapped \ Range(queue)
  /\ UNCHANGED <<accepted, lost>>

ResetDevice ==
  /\ At("App", "idle") /\ Installed /\ SlotStatus = "SUCCESS"
  /\ SignalAll("ABORTED")
  /\ UNCHANGED <<drvVars, thrVars, lineVars, dmaVars, cardVars, hisVars>>

\* DwMmcHcInitHost and DwMmcHcReset: controller, FIFO and DMA reset.
HcReset ==
  /\ cmd' = None /\ dat' = None /\ fifo' = None /\ rint' = {}
  /\ desc' = None /\ owned' = {} /\ idsts' = FALSE

\* Nothing else runs before Start has identified the card, created the timer
\* and installed the protocol; what fails later is undone.  An error of InitHost or Reset returns at once,
\* with PciIo still open: the driver cannot be started again.
Start ==
  /\ driver = "stopped" /\ starts < MaxStarts /\ At("App", "idle")
  /\ starts' = starts + 1
  /\ \/ UNCHANGED <<driver, media, lineVars, dmaVars>>
     \/ ~cardIn /\ driver' = "started" /\ media' = FALSE /\ UNCHANGED <<lineVars, dmaVars>>
     \/ cardIn /\ driver' = "stuck" /\ UNCHANGED <<media, lineVars, dmaVars>>
     \/ cardIn /\ driver' = "started" /\ media' = TRUE /\ HcReset
  /\ UNCHANGED <<stopNext, trbVars, thrVars, cardVars, logVars, hisVars>>

Second(q) == IF Len(q) > 1 THEN q[2] ELSE None

Stop ==
  /\ driver = "started" /\ At("App", "idle")
  /\ driver' = "stopping" /\ Goto("App", "stop")
  /\ stopNext' = IF queue = <<>> THEN None ELSE Head(queue)
  /\ UNCHANGED <<media, starts, trbVars, cur, received, lineVars, dmaVars, cardVars, logVars, hisVars>>

StopAbort ==
  /\ At("App", "stop") /\ stopNext # None
  /\ stopNext' = Second(queue) /\ AnswerHead("ABORTED")
  /\ UNCHANGED <<driver, media, starts, thrVars, lineVars, dmaVars, cardVars, hisVars>>

\* The private data is freed, with what a notification function queued meanwhile.
StopFree ==
  /\ At("App", "stop") /\ stopNext = None
  /\ driver' = "stopped" /\ media' = FALSE
  /\ lost' = lost \cup Range(queue) /\ accepted' = signalled /\ queue' = <<>>
  /\ Goto("App", "idle")
  /\ UNCHANGED <<stopNext, starts, mapped, cur, received, lineVars, dmaVars, cardVars,
                 status, signalled, hisVars>>
----------------------------------------------------------------------------
(* --- The controller and the card --- *)
HwFrame == UNCHANGED <<drvVars, trbVars, thrVars, desc, cardVars, logVars, shared, nested>>

\* A data command waits for the previous data phase.
HwCommand ==
  /\ cmd # None /\ (cmd \in DatReq => dat = None)
  /\ cmd' = None /\ rint' = rint \cup {"CD"}
  /\ dat' = IF cmd \in DatReq THEN cmd ELSE dat
  /\ HwFrame /\ UNCHANGED <<fifo, owned, idsts, buffer, faults>>

HwCommandError ==
  /\ cmd \in Faulty
  /\ cmd' = None /\ rint' = rint \cup {"CD", "ERR"} /\ faults' = faults \cup {cmd}
  /\ HwFrame /\ UNCHANGED <<dat, fifo, owned, idsts, buffer>>

\* The data of an eMMC card goes where the descriptors lead; without the OWN
\* bit the DMA engine suspends, and the transfer with it.
HwData ==
  /\ dat # None
  /\ IF Emmc
       THEN /\ desc \in owned /\ owned' = owned \ {desc} /\ idsts' = TRUE
            /\ buffer' = [buffer EXCEPT ![dat] = desc] /\ UNCHANGED fifo
       ELSE fifo' = dat /\ UNCHANGED <<owned, idsts, buffer>>
  /\ dat' = None /\ rint' = rint \cup {"DTO"}
  /\ HwFrame /\ UNCHANGED <<cmd, faults>>

\* A CRC error arrives with the data, a read timeout without.
HwDataError ==
  /\ dat \in Faulty
  /\ dat' = None /\ faults' = faults \cup {dat}
  /\ \/ rint' = rint \cup {"ERR"} /\ UNCHANGED fifo
     \/ rint' = rint \cup {"ERR", "DTO"} /\ fifo' = IF Emmc THEN fifo ELSE dat
  /\ HwFrame /\ UNCHANGED <<cmd, owned, idsts, buffer>>
----------------------------------------------------------------------------
Execute(th) ==
  \/ ExecClear(th) \/ ExecCommand(th) \/ ExecDone(th) \/ ExecOver(th)
  \/ CheckTrbResult(th) \/ ReadFifo(th) \/ ReadFifoEnd(th)
Timer == TickStart \/ Execute("Tick")
Call(th) ==
  \/ CreateTrb(th) \/ CreateTrbFails(th) \/ InsertTrb(th) \/ WaitQueueEmpty(th) \/ Execute(th)
Binding == Start \/ Stop \/ StopAbort \/ StopFree
Controller == HwCommand \/ HwCommandError \/ HwData \/ HwDataError

Next ==
  \/ Timer \/ Binding \/ ResetDevice \/ Controller
  \/ \E th \in {"App", "Cb"} : Call(th) \/ \E r \in LevelReq(th) : Submit(th, r)

Fairness ==
  /\ WF_vars(Timer) /\ WF_vars(Call("App")) /\ WF_vars(Call("Cb"))
  /\ WF_vars(StopAbort \/ StopFree)
  /\ WF_vars(HwCommand \/ HwCommandError) /\ WF_vars(HwData \/ HwDataError)

Spec == Init /\ [][Next]_vars
FairSpec == Spec /\ Fairness
----------------------------------------------------------------------------
(* --- Properties --- *)
Label == {"idle", "create", "insert", "waitq", "exec", "cmd", "done", "over", "idsts",
          "readfifo", "stop"}
Running == {"exec", "cmd", "done", "over", "idsts", "readfifo"}

DriverType ==
  /\ driver \in {"stopped", "started", "stopping", "stuck"} /\ media \in BOOLEAN
  /\ stopNext \in AsyncReq \cup {None} /\ starts \in Nat /\ cardIn \in BOOLEAN /\ card \in Cards
TrbType == queue \in Seq(AsyncReq) /\ mapped \subseteq DatReq
ThreadType ==
  /\ pc \in [Thread -> Label] /\ cur \in [Thread -> Req \cup {None}]
  /\ received \subseteq Thread
LineType ==
  /\ cmd \in Req \cup {None} /\ {dat, fifo} \subseteq DatReq \cup {None} /\ rint \subseteq Bits
DmaType == desc \in DatReq \cup {None} /\ owned \subseteq DatReq /\ idsts \in BOOLEAN
LogType ==
  /\ status \in [Req -> Final \cup {"none", "issued"}]
  /\ accepted \in Seq(AsyncReq) /\ signalled \in Seq(AsyncReq) /\ lost \subseteq AsyncReq
HistoryType ==
  /\ buffer \in [Req -> Req \cup {None}] /\ faults \subseteq Req /\ shared \in BOOLEAN /\ nested \in BOOLEAN

\* Every variable keeps its type.
TypeOK ==
  DriverType /\ TrbType /\ ThreadType /\ LineType /\ DmaType /\ LogType /\ HistoryType

\* Asynchronous requests are answered in the order they were queued, each
\* once, whatever runs at the three priority levels.
AnsweredInOrder == accepted = signalled \o queue

\* A data buffer stays mapped from the creation of its TRB to its answer,
\* and every path that ends a request undoes the mapping.
MappingsMatchRequests ==
  Emmc =>
    /\ \A r \in Range(queue) \cap DatReq : r \in mapped
    /\ \A th \in Thread : cur[th] \in DatReq /\ pc[th] # "create" => cur[th] \in mapped
    /\ \A r \in mapped : status[r] = "issued"

\* The controller does not work for a TRB that was freed: a request that was
\* answered, by its completion, a device reset or Stop, is off the bus.
AnsweredIsOffTheBus ==
  ~nested => \A r \in Req : status[r] \in Final => r \notin {cmd, dat}

\* As long as no two eMMC data TRBs were alive at once, the data of a request
\* moves through its own buffer, and SUCCESS says that it did.
OwnDataWhenAlone ==
  ~nested /\ ~shared => \A r \in DatReq :
    /\ buffer[r] \in {r, None}
    /\ status[r] = "SUCCESS" => buffer[r] = r

\* SUCCESS of a read says that the data is in its buffer (DwMmcCheckTrbResult).
SuccessMeansData == \A r \in DatReq : status[r] = "SUCCESS" => buffer[r] = r

\* A data command of an eMMC card that failed is not reported as successful.
DataErrorsReported ==
  ~nested /\ Emmc => \A r \in DatReq \cap faults : status[r] # "SUCCESS"

\* A synchronous request is executed while no asynchronous one is queued.
SyncRunsAlone ==
  ~nested => \A th \in {"App", "Cb"} : pc[th] \in Running => queue = <<>>

\* DriverBinding Stop answers every queued request before it frees the queue.
StopLeavesNothing == ~nested => lost = {}

\* What the threads are in the middle of: a call has a TRB of its own until it
\* returns or queues it, the timer runs the head of the queue while the driver
\* is started, Stop walks a queue that its NextLink says is not empty, and
\* nothing is queued or under way without the protocol.
CallControl ==
  /\ \A th \in {"App", "Cb"} :
       /\ cur[th] = None <=> pc[th] \in {"idle", "stop"}
       /\ pc[th] = "insert" => cur[th] \in AsyncReq
       /\ pc[th] \in {"waitq"} \cup Running => cur[th] \notin AsyncReq
  /\ pc["Cb"] # "stop"
TickControl ==
  IF pc["Tick"] = "idle"
    THEN cur["Tick"] = None
    ELSE /\ pc["Tick"] \in Running /\ driver = "started"
         /\ queue # <<>> /\ cur["Tick"] = Head(queue)
StopControl ==
  /\ pc["App"] = "stop" <=> driver = "stopping"
  /\ pc["App"] = "stop" /\ stopNext # None => queue # <<>>
  /\ ~Installed => queue = <<>> /\ \A th \in Thread : pc[th] = "idle"
ExecControl ==
  \A th \in Thread :
    /\ pc[th] \in {"done", "over", "idsts"} => Emmc
    /\ pc[th] = "readfifo" => ~Emmc
    /\ pc[th] \in {"over", "idsts"} => cur[th] \in DatReq
ControlInv == CallControl /\ TickControl /\ StopControl /\ ExecControl

\* A request that is being submitted belongs to its caller alone; no request
\* is queued twice or answered while it is queued.
CallerInv ==
  \A th \in {"App", "Cb"} : cur[th] \in Req =>
    /\ cur[th] \in LevelReq(th) /\ status[cur[th]] = "issued"
    /\ cur[th] \notin Range(accepted)
QueuedOnce ==
  /\ \A i, j \in DOMAIN accepted : accepted[i] = accepted[j] => i = j
  /\ \A r \in Range(queue) : status[r] = "issued"
  /\ \A r \in Range(signalled) : status[r] \in Final

\* Without nesting one call is under way at a time, and Stop sees the queue whole.
AloneInv ==
  ~nested =>
    /\ pc["App"] = "idle" \/ pc["Cb"] = "idle"
    /\ pc["App"] = "stop" /\ stopNext = None => queue = <<>>

\* The command, its data phase and the FIFO's contents are of the request that
\* is being executed, one after the other, and the status bits tell which of
\* them are over.
Issued == {"done", "over", "idsts", "readfifo"}
BusIsOwned ==
  \A r \in {cmd, dat, fifo} \ {None} : \E th \in Thread : pc[th] \in Issued /\ cur[th] = r
BusInOrder ==
  /\ cmd # None => dat = None /\ fifo = None /\ rint = {}
  /\ dat # None => fifo = None /\ rint \subseteq {"CD"}
  /\ Emmc => fifo = None
ExecInStep ==
  \A th \in Thread :
    /\ pc[th] = "cmd" => rint = {} /\ th \notin received
    /\ pc[th] \in {"over", "idsts"} => cmd = None
    /\ pc[th] = "idsts" => dat = None
    /\ pc[th] = "readfifo" /\ th \in received => cmd = None /\ dat = None /\ fifo = None
BusInv == ~nested => BusIsOwned /\ BusInOrder /\ ExecInStep

\* While the DMA engine is not shared, its descriptors are those of the one
\* data request alive, and its status and ReadFifo's tell of a finished move.
Loaded(r) == r \in Range(queue) \/ \E th \in Thread : cur[th] = r /\ pc[th] # "create"
DmaInv ==
  ~nested /\ ~shared =>
    /\ Emmc => \A r \in DatReq : Loaded(r) => desc = r
    /\ idsts => "ERR" \notin rint /\ dat = None /\ cmd = None /\ \E th \in Thread :
         pc[th] \in {"done", "over", "idsts"} /\ cur[th] \in DatReq /\ buffer[cur[th]] = cur[th]
    /\ \A th \in Thread : pc[th] = "readfifo" /\ th \in received /\ cur[th] \in DatReq =>
         buffer[cur[th]] = cur[th]

\* An error of the card is in the status register until its request ends.
FaultInv ==
  ~nested /\ Emmc => \A r \in faults :
    \/ status[r] \in Final
    \/ "ERR" \in rint /\ \E th \in Thread : pc[th] \in {"done", "over"} /\ cur[th] = r

\* The inductive invariant: control and threads, the queue in step with the
\* clients and the mappings on every path that ends a request (the timer,
\* ResetDevice, Stop: DwMmcHcDxe.c:188, 841, 1300), and, without nesting, the
\* bus, the DMA engine and the errors of the card.
SafetyInv ==
  /\ TypeOK /\ ControlInv /\ AnsweredInOrder /\ CallerInv /\ QueuedOnce /\ MappingsMatchRequests
  /\ AloneInv /\ SyncRunsAlone /\ StopLeavesNothing
  /\ BusInv /\ DmaInv /\ OwnDataWhenAlone /\ FaultInv /\ DataErrorsReported

\* Every request that PassThru took is answered, unless two data TRBs shared
\* the DMA engine, or an SD card failed: ReadFifo then waits for its data.
EveryRequestAnswered ==
  \A r \in Req : status[r] = "issued" ~>
    status[r] \in Final \/ nested \/ shared \/ (~Emmc /\ faults # {})

\* PassThru implements the promise to asynchronous clients, as long as no
\* notification function submits requests in the middle of Stop.
Async == INSTANCE AsyncPassThru WITH
  Request <- AsyncReq, Answer <- Final, Failed <- Failure,
  pending <- queue,
  answers <- [i \in DOMAIN signalled |-> <<signalled[i], status[signalled[i]]>>]
ImplementsAsync == Async!AInit /\ [][nested' \/ Async!ANext]_(Async!aVars)
============================================================================
