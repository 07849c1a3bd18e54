--------------------------- MODULE XenonPassThru ---------------------------
(***************************************************************************)
(* EFI_SD_MMC_PASS_THRU as implemented by Drivers/SdMmc/XenonDxe for the   *)
(* one slot of the controller: synchronous and asynchronous requests, the  *)
(* 1 ms timer that drives the async queue, card enumeration, device reset  *)
(* and driver start and stop.                                              *)
(*                                                                         *)
(* UEFI runs on one CPU.  Its "threads" are task priority levels: a        *)
(* routine is interrupted only by one of a higher level, and resumes when  *)
(* that one has returned.                                                  *)
(*   "App"   TPL_APPLICATION: clients, DriverBinding Start and Stop        *)
(*   "Cb"    TPL_CALLBACK:    enumeration timer, notification functions    *)
(*   "Tick"  TPL_NOTIFY:      ProcessAsyncTaskList                         *)
(* The SD host controller (a register file, a command line and a data      *)
(* line) runs beside all three.                                            *)
(***************************************************************************)
EXTENDS Naturals, Sequences, Functions

CONSTANTS
  Req,            \* the command packets clients may pass to PassThru, once each
  AsyncReq,       \* those passed with an Event
  CbReq,          \* those passed by code running at TPL_CALLBACK
  DatReq,         \* those that use the data line (ADTC commands, R1b/R5b)
  DmaReq,         \* those that move data by DMA
  Timeout,        \* Packet->Timeout of each; 0 waits forever
  Removable,      \* Slot.SlotType = RemovableSlot
  Ident,          \* the packet of the driver's own identification commands
  None,
  MaxStarts,      \* bound: DriverBinding Start calls
  MaxCardEvents   \* bound: insertions and removals of the card

Trb == Req \cup {Ident}

ASSUME ReqAssumption ==
  /\ AsyncReq \subseteq Req /\ CbReq \subseteq Req
  /\ DmaReq \subseteq DatReq /\ DatReq \subseteq Req
  /\ Timeout \in [Trb -> Nat]
  /\ Ident \notin Req /\ None \notin Trb
  /\ Removable \in BOOLEAN /\ MaxStarts \in Nat /\ MaxCardEvents \in Nat

\* The Timeout TLC explores: every request may run out of time, after a tick.
FiniteTimeout == [t \in Trb |-> 1]

Thread == {"App", "Cb", "Tick"}
Failure == {"TIMEOUT", "NO_MEDIA", "ABORTED", "DEVICE_ERROR", "OUT_OF_RESOURCES"}
Final   == Failure \cup {"SUCCESS"}

VARIABLES
  \* the driver: SD_MMC_HC_PRIVATE_DATA, Slot[0] and the TRBs
  driver,     \* "stopped", "starting", "started", "stopping"
  media,      \* Slot.MediaPresent
  init,       \* Slot.Initialized
  queue,      \* Private->Queue, the async TRBs
  started,    \* TRBs with Trb->Started
  left,       \* Trb->Timeout
  mapped,     \* TRBs whose data buffer is mapped for DMA (Trb->DataMap)
  \* the threads
  pc,         \* where each thread is
  cur,        \* the TRB each thread is working on
  routine,    \* index in mCardTypeDetectRoutineTable
  stopNext,   \* NextLink of the loop in DriverBindingStop
  \* the controller
  cmdLine,    \* the TRB whose command occupies the command line
  datLine,    \* the TRB whose transfer occupies the data line
  sts,        \* pending bits of the interrupt status registers
  dmaReg,     \* the TRB whose buffer the DMA address register points to
  dmaBuf,     \* the TRB whose buffer the transfer on the data line uses
  cardIn,     \* a card is in the slot
  changed,    \* the card insertion or removal bit is set
  cardEvents, starts,
  \* what clients see, and history
  status,     \* the status each request was given
  accepted,   \* async requests in the order they were queued
  signalled,  \* async requests in the order their events were signalled
  lost,       \* requests still queued when the driver's data was freed
  done,       \* TRBs the controller has executed to their end
  causes      \* how the controller came to be shared between two TRBs

driverVars == <<driver, media, init, routine, stopNext>>
trbVars    == <<queue, started, left, mapped>>
thrVars    == <<pc, cur>>
hwVars     == <<cmdLine, datLine, sts, dmaReg, dmaBuf>>
cardVars   == <<cardIn, changed, cardEvents>>
logVars    == <<status, accepted, signalled, lost>>
vars == <<driverVars, trbVars, thrVars, hwVars, cardVars, logVars, done, causes, starts>>

Err == {"CMDERR", "DATTMO", "DATERR"}

Init ==
  /\ driver = "stopped" /\ media = FALSE /\ init = FALSE
  /\ queue = <<>> /\ started = {} /\ left = [t \in Trb |-> 0] /\ mapped = {}
  /\ pc = [th \in Thread |-> "idle"] /\ cur = [th \in Thread |-> None]
  /\ routine = 1 /\ stopNext = None
  /\ cmdLine = None /\ datLine = None /\ sts = {} /\ dmaReg = None /\ dmaBuf = None
  /\ cardIn \in (IF Removable THEN BOOLEAN ELSE {TRUE}) /\ changed = FALSE /\ cardEvents = 0 /\ starts = 0
  /\ status = [r \in Req |-> "none"] /\ accepted = <<>> /\ signalled = <<>>
  /\ lost = {} /\ done = {} /\ causes = {}

(* --- Scheduling: a thread runs when no higher one is active --- *)
Above(th) == CASE th = "App" -> {"Cb", "Tick"} [] th = "Cb" -> {"Tick"} [] OTHER -> {}
CanRun(th) == \A u \in Above(th) : pc[u] = "idle"

(* --- Operators on the controller --- *)
OnBus(S) == {cmdLine, datLine} \cap S # {}

\* TRBs whose command has been, or is being, programmed and not yet retired.
Executing ==
  started \cup {cur[th] : th \in {u \in {"App", "Cb"} : pc[u] \in {"cmd", "result"}}}

EnvReady(t) == cmdLine = None /\ (t \in DatReq => datLine = None)

\* Slip: the DMA address of the previous request stays in the register.
ProgramTrbStaleDma(t) ==
  /\ sts' = {} /\ dmaReg' = dmaReg
  /\ causes' = causes \cup (IF Executing \ {t} # {} THEN {"overlap"} ELSE {})

\* Programs the controller up to the COMMAND register: clears the status
\* bits, and loads the address of the buffer.
ProgramTrb(t) ==
  /\ sts' = {}
  /\ dmaReg' = IF t \in DmaReq THEN t ELSE dmaReg
  /\ causes' = causes \cup (IF Executing \ {t} # {} THEN {"overlap"} ELSE {})

\* Writes COMMAND.  A controller that inhibits the line ignores the write.
WriteCommand(t) == cmdLine' = IF EnvReady(t) THEN t ELSE cmdLine

\* Slip: Command Complete ends data commands too.
CheckTrbResultEarly(t) ==
  IF sts \cap Err # {} THEN "DEVICE_ERROR"
  ELSE IF sts \cap {"CC", "TC"} # {} THEN "SUCCESS" ELSE "NOT_READY"

CheckTrbResult(t) ==
  IF "TC" \in sts
    THEN IF sts \cap Err # {} /\ "DATTMO" \notin sts THEN "DEVICE_ERROR" ELSE "SUCCESS"
    ELSE IF sts \cap Err # {} THEN "DEVICE_ERROR"
    ELSE IF t \notin DatReq /\ "CC" \in sts THEN "SUCCESS" ELSE "NOT_READY"

\* Error recovery: reset of the command line, of the data line, or of both.
RecoverLines ==
  LET recover == "TC" \notin sts
      cmd == recover /\ "CMDERR" \in sts
      dat == recover /\ sts \cap {"DATTMO", "DATERR"} # {}
  IN  /\ cmdLine' = IF cmd THEN None ELSE cmdLine
      /\ datLine' = IF dat THEN None ELSE datLine
      /\ sts' = sts \ (IF cmd THEN {"CC"} ELSE {})
      /\ UNCHANGED <<dmaReg, dmaBuf>>

Orphaned(S) == causes \cup (IF OnBus(S) THEN {"orphan"} ELSE {})
OrphanedAfter(t, res) ==
  causes \cup (IF res # "SUCCESS" /\ t \in {cmdLine', datLine'} THEN {"orphan"} ELSE {})

(* --- The async queue --- *)
\* Slips: the buffer is not unmapped; the status is not stored.
AnswerHeadMapped(st) ==
  /\ queue' = Tail(queue) /\ signalled' = Append(signalled, Head(queue))
  /\ status' = [status EXCEPT ![Head(queue)] = st]
  /\ started' = started \ {Head(queue)}
  /\ UNCHANGED <<mapped, left, accepted, lost>>
AnswerHeadNoStatus(st) ==
  /\ queue' = Tail(queue) /\ signalled' = Append(signalled, Head(queue))
  /\ started' = started \ {Head(queue)} /\ mapped' = mapped \ {Head(queue)}
  /\ UNCHANGED <<status, left, accepted, lost>>

\* RemoveEntryList, TransactionStatus := st, SdMmcFreeTrb, SignalEvent.
AnswerHead(st) ==
  LET t == Head(queue) IN
  /\ queue' = Tail(queue)
  /\ signalled' = Append(signalled, t)
  /\ status' = [status EXCEPT ![t] = st]
  /\ started' = started \ {t}
  /\ mapped' = mapped \ {t}
  /\ UNCHANGED <<left, accepted, lost>>

\* ... while the controller keeps running whatever it runs.
SignalHead(st) == AnswerHead(st) /\ causes' = Orphaned({Head(queue)})

\* Slip: the TRBs are freed without a signal.
SignalAllSilent(st) ==
  /\ queue' = <<>> /\ started' = started \ Range(queue) /\ mapped' = mapped \ Range(queue)
  /\ causes' = Orphaned(Range(queue))
  /\ UNCHANGED <<status, signalled, left, accepted, lost>>

\* The same for every TRB of the queue, at TPL_NOTIFY.
SignalAll(st) ==
  /\ queue' = <<>>
  /\ signalled' = signalled \o queue
  /\ status' = [r \in Req |-> IF r \in Range(queue) THEN st ELSE status[r]]
  /\ started' = started \ Range(queue)
  /\ mapped' = mapped \ Range(queue)
  /\ causes' = Orphaned(Range(queue))
  /\ UNCHANGED <<left, accepted, lost>>

NotReadyForever(t) == UNCHANGED <<trbVars, logVars, causes>>

\* `Trb->Timeout-- == 0' is tested on every call that finds the TRB not ready.
NotReady(t) ==
  IF Timeout[t] # 0 /\ left[t] = 0
    THEN SignalHead("TIMEOUT")
    ELSE /\ left' = IF Timeout[t] = 0 THEN left ELSE [left EXCEPT ![t] = @ - 1]
         /\ UNCHANGED <<queue, started, mapped, logVars, causes>>

TickIdle == pc' = [pc EXCEPT !["Tick"] = "idle"]

\* ProcessAsyncTaskList on a head that cannot be executed now.
TickRefuse ==
  /\ driver = "started" /\ pc["Tick"] = "idle" /\ queue # <<>>
  /\ LET t == Head(queue) IN
     \/ ~media /\ SignalHead("NO_MEDIA")
     \/ media /\ t \notin started /\ ~EnvReady(t) /\ NotReady(t)
  /\ UNCHANGED <<driverVars, thrVars, hwVars, cardVars, done, starts>>

\* ProcessAsyncTaskList starts the head ...
TickExec ==
  /\ driver = "started" /\ pc["Tick"] = "idle" /\ queue # <<>> /\ media
  /\ LET t == Head(queue) IN
     /\ t \notin started /\ EnvReady(t)
     /\ started' = started \cup {t}
     /\ ProgramTrb(t) /\ WriteCommand(t)
  /\ pc' = [pc EXCEPT !["Tick"] = "check"]
  /\ UNCHANGED <<driverVars, queue, left, mapped, cur, datLine, dmaBuf, cardVars,
                 logVars, done, starts>>

\* ... and looks at its result, in the same call or in a later one.
TickCheck ==
  /\ \/ pc["Tick"] = "check"
     \/ pc["Tick"] = "idle" /\ driver = "started" /\ queue # <<>> /\ media
        /\ Head(queue) \in started
  /\ LET t == Head(queue)
         res == CheckTrbResult(t)
     IN  IF res = "NOT_READY"
           THEN NotReady(t) /\ UNCHANGED hwVars
           ELSE RecoverLines /\ AnswerHead(res) /\ causes' = OrphanedAfter(t, res)
  /\ TickIdle
  /\ UNCHANGED <<driverVars, cur, cardVars, done, starts>>

(* --- SdMmcPassThruPassThru, called by thread th --- *)
LevelReq(th) == IF th = "Cb" THEN CbReq ELSE Req \ CbReq
Installed == driver \in {"started", "stopping"}

Goto(th, label) == pc' = [pc EXCEPT ![th] = label]

SlotStatus == IF ~media THEN "NO_MEDIA" ELSE IF ~init THEN "DEVICE_ERROR" ELSE "SUCCESS"

Submit(th, r) ==
  /\ CanRun(th) /\ pc[th] = "idle" /\ Installed
  /\ r \in LevelReq(th) /\ status[r] = "none"
  /\ IF SlotStatus = "SUCCESS"
       THEN /\ status' = [status EXCEPT ![r] = "issued"]
            /\ Goto(th, "create") /\ cur' = [cur EXCEPT ![th] = r]
       ELSE /\ status' = [status EXCEPT ![r] = SlotStatus] /\ UNCHANGED thrVars
  /\ UNCHANGED <<driverVars, trbVars, hwVars, cardVars, accepted, signalled, lost,
                 done, causes, starts>>

\* The identification routine of the slot has ended: the next one of the
\* table runs, or the slot is settled.
EndRoutine(th, ok) ==
  IF ~ok /\ routine = 1
    THEN Goto(th, "ident") /\ routine' = 2 /\ UNCHANGED <<driver, init>>
    ELSE Goto(th, "idle") /\ routine' = 1 /\ init' = ok /\ driver' = "started"

Return(th, st) ==
  /\ cur' = [cur EXCEPT ![th] = None]
  /\ IF cur[th] = Ident
       THEN EndRoutine(th, st = "SUCCESS") /\ UNCHANGED status
       ELSE /\ status' = [status EXCEPT ![cur[th]] = st]
            /\ Goto(th, "idle") /\ UNCHANGED <<driver, init, routine>>
  /\ UNCHANGED <<media, stopNext, cardVars, accepted, signalled, lost, starts>>

\* Slip: InsertHeadList.
InsertHead(q, t) == <<t>> \o q

InsertTail(q, t) == Append(q, t)

CreateTrb(th) ==
  /\ CanRun(th) /\ pc[th] = "create"
  /\ LET t == cur[th] IN
     /\ mapped' = mapped \cup ({t} \cap DmaReq)
     /\ left' = [left EXCEPT ![t] = Timeout[t]]
     /\ done' = done \ {t}
     /\ IF t \in AsyncReq
          THEN /\ queue' = InsertTail(queue, t) /\ accepted' = Append(accepted, t)
               /\ Goto(th, "idle") /\ cur' = [cur EXCEPT ![th] = None]
          ELSE Goto(th, "waitq") /\ UNCHANGED <<queue, accepted, cur>>
  /\ UNCHANGED <<driverVars, started, hwVars, cardVars, status, signalled, lost,
                 causes, starts>>

\* Out of memory or of mappings: SdMmcCreateTrb returns NULL.
CreateTrbFails(th) ==
  /\ CanRun(th) /\ pc[th] = "create"
  /\ Return(th, "OUT_OF_RESOURCES")
  /\ UNCHANGED <<trbVars, hwVars, done, causes>>

\* Slip: the wait for the async list is left out.
WaitQueueSkipped(th) ==
  /\ CanRun(th) /\ pc[th] = "waitq"
  /\ Goto(th, "env")
  /\ UNCHANGED <<driverVars, trbVars, cur, hwVars, cardVars, logVars, done, causes, starts>>

WaitQueueEmpty(th) ==
  /\ CanRun(th) /\ pc[th] = "waitq" /\ queue = <<>>
  /\ Goto(th, "env")
  /\ UNCHANGED <<driverVars, trbVars, cur, hwVars, cardVars, logVars, done, causes, starts>>

WaitTrbEnv(th) ==
  /\ CanRun(th) /\ pc[th] = "env" /\ EnvReady(cur[th])
  /\ Goto(th, "exec")
  /\ UNCHANGED <<driverVars, trbVars, cur, hwVars, cardVars, logVars, done, causes, starts>>

\* SdMmcExecTrb is not atomic for a synchronous request: the timer and
\* callbacks can run between its register writes.
ExecTrbProgram(th) ==
  /\ CanRun(th) /\ pc[th] = "exec"
  /\ ProgramTrb(cur[th]) /\ Goto(th, "cmd")
  /\ UNCHANGED <<driverVars, trbVars, cur, cmdLine, datLine, dmaBuf, cardVars, logVars,
                 done, starts>>

ExecTrbCommand(th) ==
  /\ CanRun(th) /\ pc[th] = "cmd"
  /\ WriteCommand(cur[th]) /\ Goto(th, "result")
  /\ UNCHANGED <<driverVars, trbVars, cur, datLine, sts, dmaReg, dmaBuf, cardVars,
                 logVars, done, causes, starts>>

\* The end of a synchronous request frees the TRB and its descriptor table;
\* it does not unmap the data buffer.
WaitTrbResult(th) ==
  /\ CanRun(th) /\ pc[th] = "result"
  /\ LET res == CheckTrbResult(cur[th]) IN
     /\ res # "NOT_READY"
     /\ RecoverLines /\ Return(th, res)
     /\ causes' = OrphanedAfter(cur[th], res)
  /\ UNCHANGED <<trbVars, done>>

\* A finite Timeout runs out in WaitTrbEnv or in WaitTrbResult.
WaitTimeout(th) ==
  /\ CanRun(th)
  /\ \/ pc[th] = "env" /\ ~EnvReady(cur[th])
     \/ pc[th] = "result" /\ CheckTrbResult(cur[th]) = "NOT_READY"
  /\ Timeout[cur[th]] # 0
  /\ Return(th, "TIMEOUT")
  /\ causes' = Orphaned({cur[th]})
  /\ UNCHANGED <<trbVars, hwVars, done>>

\* An identification routine sends its command through PassThru.
SendIdent(th) ==
  /\ CanRun(th) /\ pc[th] = "ident"
  /\ Goto(th, "create") /\ cur' = [cur EXCEPT ![th] = Ident]
  /\ UNCHANGED <<driverVars, trbVars, hwVars, cardVars, logVars, done, causes, starts>>

ResetDevice ==
  /\ CanRun("App") /\ pc["App"] = "idle" /\ Installed /\ SlotStatus = "SUCCESS"
  /\ SignalAll("ABORTED")
  /\ UNCHANGED <<driverVars, thrVars, hwVars, cardVars, done, starts>>

(* --- SdMmcPciHcEnumerateDevice, on the 100 ms timer at TPL_CALLBACK --- *)
EnumerateGuard ==
  /\ driver = "started" /\ Removable /\ CanRun("Cb") /\ pc["Cb"] = "idle" /\ changed

EnumerateRemoved ==
  /\ EnumerateGuard /\ ~cardIn
  /\ changed' = FALSE /\ media' = FALSE /\ init' = FALSE
  /\ SignalAll("NO_MEDIA")
  /\ UNCHANGED <<driver, routine, stopNext, thrVars, hwVars, cardIn, cardEvents, done, starts>>

HcReset ==
  /\ cmdLine' = None /\ datLine' = None /\ sts' = {}
  /\ causes' = causes \cup (IF Executing # {} \/ OnBus(Trb) THEN {"reset"} ELSE {})
  /\ UNCHANGED <<dmaReg, dmaBuf>>

EnumerateInserted ==
  /\ EnumerateGuard /\ cardIn
  /\ changed' = FALSE /\ HcReset
  /\ media' = TRUE /\ init' = TRUE /\ routine' = 1
  /\ Goto("Cb", "ident")
  /\ UNCHANGED <<driver, stopNext, trbVars, cur, cardIn, cardEvents, logVars, done, starts>>

\* SdMmcHcReset or SdMmcHcInitHost fails: the slot is left as it was.
EnumerateInitFails ==
  /\ EnumerateGuard /\ cardIn
  /\ changed' = FALSE /\ HcReset
  /\ UNCHANGED <<driverVars, trbVars, thrVars, cardIn, cardEvents, logVars, done, starts>>

(* --- Driver binding --- *)
Start ==
  /\ driver = "stopped" /\ starts < MaxStarts /\ CanRun("App") /\ pc["App"] = "idle"
  /\ starts' = starts + 1
  /\ driver' = "starting" /\ media' = TRUE /\ init' = TRUE /\ routine' = 1
  /\ Goto("App", "ident")
  /\ UNCHANGED <<stopNext, trbVars, cur, hwVars, cardVars, logVars, done, causes>>

Second(q) == IF Len(q) > 1 THEN q[2] ELSE None

\* Stop closes the timers and enters its loop over the queue ...
Stop ==
  /\ driver = "started" /\ CanRun("App") /\ pc["App"] = "idle"
  /\ driver' = "stopping"
  /\ stopNext' = IF queue = <<>> THEN None ELSE Head(queue)
  /\ Goto("App", "stop")
  /\ UNCHANGED <<media, init, routine, trbVars, cur, hwVars, cardVars, logVars, done,
                 causes, starts>>

\* Slip: Link is not advanced.
StopAbortSameLink ==
  /\ CanRun("App") /\ pc["App"] = "stop" /\ stopNext # None
  /\ stopNext' = stopNext /\ SignalHead("ABORTED")
  /\ UNCHANGED <<driver, media, init, routine, thrVars, hwVars, cardVars, done, starts>>

\* ... aborts the TRB at Link, having noted NextLink before removing it ...
StopAbort ==
  /\ CanRun("App") /\ pc["App"] = "stop" /\ stopNext # None
  /\ stopNext' = Second(queue)
  /\ SignalHead("ABORTED")
  /\ UNCHANGED <<driver, media, init, routine, thrVars, hwVars, cardVars, done, starts>>

\* ... and uninstalls the protocol and frees the private data, Queue included.
StopFree ==
  /\ CanRun("App") /\ pc["App"] = "stop" /\ stopNext = None
  /\ driver' = "stopped" /\ media' = FALSE /\ init' = FALSE
  /\ lost' = lost \cup Range(queue) /\ accepted' = signalled
  /\ queue' = <<>> /\ started' = started \ Range(queue)
  /\ Goto("App", "idle")
  /\ UNCHANGED <<routine, stopNext, left, mapped, cur, hwVars, cardVars, status, signalled,
                 done, causes, starts>>

(* --- The controller and the card --- *)
HwResponse ==
  /\ cmdLine # None /\ cardIn /\ "CMDERR" \notin sts
  /\ cmdLine' = None /\ sts' = sts \cup {"CC"}
  /\ IF cmdLine \in DatReq
       THEN datLine' = cmdLine /\ dmaBuf' = dmaReg /\ UNCHANGED done
       ELSE done' = done \cup {cmdLine} /\ UNCHANGED <<datLine, dmaBuf>>
  /\ UNCHANGED <<driverVars, trbVars, thrVars, dmaReg, cardVars, logVars, causes, starts>>

HwCmdError ==
  /\ cmdLine # None /\ "CMDERR" \notin sts
  /\ sts' = sts \cup {"CMDERR"} /\ cmdLine' \in {cmdLine, None}
  /\ UNCHANGED <<driverVars, trbVars, thrVars, datLine, dmaReg, dmaBuf, cardVars, logVars,
                 done, causes, starts>>

\* The transfer ends, in time or just after the data timeout was raised.
HwTransfer ==
  /\ datLine # None /\ cardIn /\ sts \cap {"DATTMO", "DATERR"} = {}
  /\ datLine' = None /\ done' = done \cup {datLine}
  /\ sts' \in {sts \cup {"TC"}, sts \cup {"TC", "DATTMO"}}
  /\ UNCHANGED <<driverVars, trbVars, thrVars, cmdLine, dmaReg, dmaBuf, cardVars, logVars,
                 causes, starts>>

HwDatError ==
  /\ datLine # None /\ sts \cap {"DATTMO", "DATERR"} = {}
  /\ \/ sts' \in {sts \cup {"DATTMO"}, sts \cup {"DATERR"}} /\ datLine' \in {datLine, None}
     \/ sts' = sts \cup {"TC", "DATERR"} /\ datLine' = None
  /\ UNCHANGED <<driverVars, trbVars, thrVars, cmdLine, dmaReg, dmaBuf, cardVars, logVars,
                 done, causes, starts>>

CardEvent ==
  /\ Removable /\ cardEvents < MaxCardEvents
  /\ cardEvents' = cardEvents + 1 /\ cardIn' = ~cardIn /\ changed' = TRUE
  /\ UNCHANGED <<driverVars, trbVars, thrVars, hwVars, logVars, done, causes, starts>>
----------------------------------------------------------------------------
Timer == TickRefuse \/ TickExec \/ TickCheck
SyncStep(th) ==
  \/ CreateTrb(th) \/ CreateTrbFails(th) \/ WaitQueueEmpty(th) \/ WaitTrbEnv(th)
  \/ ExecTrbProgram(th) \/ ExecTrbCommand(th) \/ WaitTrbResult(th) \/ WaitTimeout(th)
  \/ SendIdent(th)
Enumerate == EnumerateRemoved \/ EnumerateInserted \/ EnumerateInitFails
Binding == Start \/ Stop \/ StopAbort \/ StopFree
Controller == HwResponse \/ HwCmdError \/ HwTransfer \/ HwDatError

Next ==
  \/ Timer \/ Enumerate \/ Binding \/ ResetDevice \/ Controller \/ CardEvent
  \/ \E th \in {"App", "Cb"} : SyncStep(th) \/ \E r \in LevelReq(th) : Submit(th, r)

Fairness ==
  /\ WF_vars(Timer)
  /\ WF_vars(SyncStep("App")) /\ WF_vars(SyncStep("Cb"))
  /\ WF_vars(StopAbort \/ StopFree)
  /\ WF_vars(HwResponse \/ HwCmdError) /\ WF_vars(HwTransfer \/ HwDatError)

Spec == Init /\ [][Next]_vars
FairSpec == Spec /\ Fairness
----------------------------------------------------------------------------
(* --- Properties --- *)
Status == Final \cup {"none", "issued"}
Label  == {"idle", "create", "waitq", "env", "exec", "cmd", "result", "ident",
           "stop", "check"}

DriverType ==
  /\ driver \in {"stopped", "starting", "started", "stopping"}
  /\ media \in BOOLEAN /\ init \in BOOLEAN
  /\ routine \in {1, 2} /\ stopNext \in AsyncReq \cup {None}
TrbType ==
  /\ queue \in Seq(AsyncReq) /\ started \subseteq AsyncReq
  /\ mapped \subseteq DmaReq /\ left \in [Trb -> Nat]
ThreadType == pc \in [Thread -> Label] /\ cur \in [Thread -> Trb \cup {None}]
HwType ==
  /\ cmdLine \in Trb \cup {None} /\ datLine \in Trb \cup {None}
  /\ dmaReg \in Trb \cup {None} /\ dmaBuf \in Trb \cup {None}
  /\ sts \subseteq Err \cup {"CC", "TC"}
CardType == cardIn \in BOOLEAN /\ changed \in BOOLEAN /\ cardEvents \in Nat /\ starts \in Nat
LogType ==
  /\ status \in [Req -> Status]
  /\ accepted \in Seq(AsyncReq) /\ signalled \in Seq(AsyncReq) /\ lost \subseteq AsyncReq
HistoryType == done \subseteq Trb /\ causes \subseteq {"overlap", "orphan", "reset"}

\* Every variable keeps its type.
TypeOK ==
  DriverType /\ TrbType /\ ThreadType /\ HwType /\ CardType /\ LogType /\ HistoryType

\* A routine of the driver is active only in the driver state it belongs to:
\* the timer callback between its two halves has its TRB at the head of the
\* queue, the loop of Stop a TRB to abort, a synchronous call its TRB, and the
\* identification of Start or of enumeration the slot to itself.
Working == {"create", "waitq", "env", "exec", "cmd", "result"}
TickControl ==
  /\ pc["Tick"] \in {"idle", "check"} /\ pc["App"] # "check" /\ pc["Cb"] \notin {"check", "stop"}
  /\ pc["Tick"] = "check" => driver = "started" /\ queue # <<>>
StopControl ==
  /\ pc["App"] = "stop" => driver = "stopping"
  /\ stopNext # None => pc["App"] = "stop" /\ queue # <<>>
CallControl == \A th \in Thread : IF pc[th] \in Working THEN cur[th] \in Trb ELSE cur[th] = None
IdentControl ==
  /\ pc["App"] = "ident" \/ cur["App"] = Ident => driver = "starting"
  /\ pc["Cb"] = "ident" \/ cur["Cb"] = Ident => driver = "started"
ControlInv == TickControl /\ StopControl /\ CallControl /\ IdentControl

\* Both together are inductive: the types and the control state are what each
\* routine finds when it goes on after others have run.
IndInv == TypeOK /\ ControlInv

\* Asynchronous requests are answered in the order they were queued, each
\* once; a request is in the queue exactly until its event is signalled.
AnsweredInOrder == accepted = signalled \o queue

\* No request is queued twice, and the queue holds unanswered requests only:
\* an event is never signalled for a request that already has its status.
QueuedOnce ==
  /\ \A i, j \in DOMAIN accepted : accepted[i] = accepted[j] => i = j
  /\ \A r \in Range(queue) : status[r] = "issued"
  /\ \A r \in Range(signalled) : status[r] \in Final

\* A buffer stays mapped for DMA while its request is queued or running, and
\* the async path leaves no mapping behind.
MappingsMatchRequests ==
  /\ \A r \in Range(queue) \cap DmaReq : r \in mapped
  /\ \A th \in Thread : cur[th] \in DmaReq /\ pc[th] # "create" => cur[th] \in mapped
  /\ \A r \in AsyncReq \cap mapped : r \in Range(queue) \cup lost

\* A request that is told SUCCESS was executed by the controller, unless the
\* controller came to be shared: a TRB was freed while on the bus (orphan), a
\* command was programmed over another (overlap), or enumeration reset it.
SuccessIsEarned ==
  causes = {} => \A r \in Req : status[r] = "SUCCESS" => r \in done

\* A transfer uses the buffer of its own request, which is still mapped.
TransferOwnsBuffer ==
  causes = {} /\ datLine \in DmaReq => dmaBuf = datLine /\ datLine \in mapped

\* The queue when clients share one TPL: the timer starts the queue's head
\* only, and a TRB freed by a timeout, reset or removal is not left marked as
\* started; a synchronous request is executed while no asynchronous one is
\* queued; Stop answers every queued request before it frees the queue.
OnlyHeadStarted == \A t \in started : queue # <<>> /\ t = Head(queue)
SyncRunsAlone ==
  \A th \in Thread : pc[th] \in {"exec", "cmd", "result"} => queue = <<>>
QueueInStep == OnlyHeadStarted /\ SyncRunsAlone /\ lost = {}

\* Each request is in one place: the request of a call was not queued yet,
\* and the calls of the two levels work on requests of their own.
CallerInv ==
  \A th \in {"App", "Cb"} : cur[th] \in Req =>
    /\ cur[th] \in LevelReq(th) /\ status[cur[th]] = "issued"
    /\ cur[th] \notin Range(accepted)

\* The TRB of the timer is the started head; Stop ends with nothing started.
TimerInv ==
  /\ OnlyHeadStarted
  /\ pc["Tick"] = "check" => Head(queue) \in started
  /\ pc["App"] = "stop" /\ stopNext = None => started = {}

\* As long as the controller is not shared, it works for the one TRB that is
\* being executed: its lines and DMA registers, and what the status bits say.
OneExecutes == \A s, t \in Executing : s = t
BusIsOwned ==
  /\ {cmdLine, datLine} \subseteq Executing \cup {None}
  /\ datLine # None => datLine \in DatReq /\ cmdLine = None
  /\ \A th \in {"App", "Cb"} : pc[th] = "cmd" => cmdLine = None /\ datLine = None /\ sts = {}
StatusIsTrue ==
  /\ sts \cap {"CC", "TC"} # {} => cmdLine = None
  /\ "TC" \in sts => datLine = None
  /\ \A t \in Executing :
       /\ "TC" \in sts /\ (sts \cap Err = {} \/ "DATTMO" \in sts) => t \in done
       /\ "CC" \in sts /\ t \notin DatReq => t \in done
DmaIsLoaded ==
  /\ \A t \in Executing \cap DmaReq : dmaReg = t
  /\ datLine \in DmaReq => dmaBuf = datLine
BusInv == causes = {} => OneExecutes /\ BusIsOwned /\ StatusIsTrue /\ DmaIsLoaded

\* When all clients run at TPL_APPLICATION: a synchronous request that found
\* the queue empty keeps it empty, and Stop leaves no request behind.
LevelInv ==
  CbReq = {} =>
    /\ \A th \in {"App", "Cb"} : pc[th] \in {"env", "exec", "cmd", "result"} => queue = <<>>
    /\ pc["App"] = "stop" => pc["Cb"] = "idle" /\ (stopNext = None => queue = <<>>)
    /\ lost = {}

\* The invariants of PassThru, inductive together with the four properties.
SafetyInv ==
  /\ IndInv /\ CallerInv /\ TimerInv /\ BusInv /\ LevelInv
  /\ AnsweredInOrder /\ QueuedOnce /\ MappingsMatchRequests /\ SuccessIsEarned

\* SUCCESS is reported of executed requests only (SdMmcCheckTrbResult).
SuccessMeansExecuted == \A r \in Req : status[r] = "SUCCESS" => r \in done

\* Every request that PassThru took is answered: its call returns or its
\* event is signalled.  Only a Timeout of 0 can wait for ever, and only when
\* the controller was left with the command of a freed TRB, or was reset; and
\* a request queued behind the back of Stop is lost.
EveryRequestAnswered ==
  \A r \in Req : status[r] = "issued" ~>
    \/ status[r] \in Final \/ r \in lost
    \/ causes # {} /\ \E q \in Req : Timeout[q] = 0

\* PassThru implements the promise to asynchronous clients.
Async == INSTANCE AsyncPassThru WITH
  Request <- AsyncReq, Answer <- Final, Failed <- Failure,
  pending <- queue,
  answers <- [i \in DOMAIN signalled |-> <<signalled[i], status[signalled[i]]>>]
ImplementsAsyncFair == Async!AFairSpec
============================================================================
