-------------------------------- MODULE DwUsb3 ------------------------------
(***************************************************************************)
(* Drivers/Usb/DwUsb3Dxe: the DesignWare USB 3 controller as a device with *)
(* a control endpoint, one bulk OUT and one bulk IN endpoint, behind       *)
(* USB_DEVICE_PROTOCOL (Start, Send, Request).  Nothing is interrupt       *)
(* driven: a periodic timer at TPL_CALLBACK (DwUsb3Poll) takes events from *)
(* the controller's event buffer and runs the handlers; Send fills and     *)
(* starts the IN transfer and spins until the controller gives the         *)
(* descriptor back, at its caller's TPL.                                   *)
(*                                                                         *)
(* The handlers are operators on the record dev, which holds the driver's  *)
(* globals (gPcd, mDataBufferSize) and the controller's side of the        *)
(* transfer descriptors (TRBs).  The host and the application behind the   *)
(* protocol are external: the host runs control transfers and the fastboot *)
(* exchange command - DATA - size bytes - OKAY, the application calls      *)
(* Request and Send for it.  Lengths are in units far below a packet;      *)
(* contents of bulk data are left out, the counts are kept.                *)
(***************************************************************************)
EXTENDS Integers, Sequences, SequencesExt, FiniteSets

CONSTANTS
  CMD_SIZE, DATA_SIZE,  \* the chunk sizes of DwUsb3Dxe.c, scaled
  MaxPacket,            \* [speed -> bulk packet size], DwUsb3PcdSetSpeed
  Scenarios             \* bounds: what a host does in one behaviour, each a
                        \* record of the fields of ScenarioType

Speeds == DOMAIN MaxPacket

\* The features a host sets and clears, or halts of a bulk endpoint, and
\* what it asks for; "get" is any descriptor without a choice, "stall" and
\* "stallIn" are requests the code knows nothing about.
Sets == [setU1 |-> "u1", setU2 |-> "u2", setLtm |-> "ltm", haltIn |-> "in", haltOut |-> "out"]
Clears == [clearU1 |-> "u1", clearU2 |-> "u2", clearLtm |-> "ltm", clearIn |-> "in",
           clearOut |-> "out"]
SuperOnly == {"u1", "u2", "ltm"}
Features == SuperOnly \cup {"in", "out", "configured"}
Queries == {"getStatus", "statusIn", "statusOut", "getConfig", "getSpeed", "bos"}
Requests == {"get", "badString", "stallIn", "setSel", "stall", "address", "config", "unconfig",
             "badConfig"} \cup DOMAIN Sets \cup DOMAIN Clears \cup Queries
\* The kind and direction of the data stage.
Data(req) == CASE req \in {"get", "badString", "stallIn"} \cup Queries -> "in"
               [] req = "setSel"                           -> "out"
               [] OTHER                                    -> "none"

\* Bus resets (the first is the attachment), control transfers beside one
\* SET_ADDRESS and one SET_CONFIGURATION after each reset, transfers given
\* up, downloads, Sends that wait longer than 10 s, the sizes and speeds, and
\* the requests.
ScenarioType == [resets : Nat, requests : Nat, aborts : Nat, downloads : Nat,
                 timeouts : Nat, sizes : SUBSET (Nat \ {0}),
                 speeds : SUBSET Speeds, asks : SUBSET Requests]

ASSUME SizesAssumption ==
  /\ {CMD_SIZE, DATA_SIZE} \subseteq Nat \ {0}
  /\ CMD_SIZE <= DATA_SIZE
  /\ Speeds # {} /\ "unknown" \notin Speeds
  /\ \A s \in Speeds : MaxPacket[s] \in Nat \ {0, 1}
                         /\ DATA_SIZE % MaxPacket[s] = 0
  /\ Scenarios \subseteq ScenarioType

VARIABLES
  dev,     \* gPcd, mDataBufferSize and the controller
  snd,     \* the running DwUsb3Send: where it is and what it sends
  app,     \* the application behind the receive callback
  host,    \* the USB host
  hist     \* what happened: counters and flags the properties refer to

vars == <<dev, snd, app, host, hist>>

(* ------------------------------ the controller ------------------------- *)

\* gEventPtr / GEVNTCOUNT: events are appended by the controller.
Raise(d, ev) == [d EXCEPT !.events = Append(@, ev)]
Cmpl(ep, trb) == [ep |-> ep, type |-> "cmpl", trb |-> trb]
Nrdy(ep) == [ep |-> ep, type |-> "nrdy", trb |-> "none"]
BusEvent(type) == [ep |-> "bus", type |-> type, trb |-> "none"]
Events == {BusEvent(type) : type \in {"reset", "conn"}} \cup {Nrdy(ep) : ep \in {"ep0in", "ep0out"}}
          \cup {Cmpl(ep, trb) : ep \in {"ep0in", "ep0out"}, trb \in {"data", "status"}}
          \cup {Cmpl("ep0out", "setup"), Cmpl("out", "data")}

\* DwUsb3DepStartXfer on the control endpoint; a busy one refuses it.
Start0(d, dir, trb) ==
  IF d.hw0[dir] # "none" THEN d
  ELSE [d EXCEPT !.hw0[dir] = trb, !.nrdy = @ \ {dir}, !.resp = "ok"]

\* DwUsb3DepStartXfer on a bulk endpoint.
StartBulk(d, ep) ==
  IF d[ep].active THEN [d EXCEPT !.refused = TRUE, ![ep].started = TRUE]
  ELSE [d EXCEPT ![ep].active = TRUE, ![ep].started = TRUE]

\* DwUsb3DepStopXfer, given only when the driver believes one is running.
StopBulk(d, ep) ==
  IF d[ep].started THEN [d EXCEPT ![ep].active = FALSE] ELSE d

(* -------------------------- the control endpoint ----------------------- *)

DwUsb3Ep0OutStart(d) == Start0(d, "out", "setup")

\* Slip: the SETUP descriptor is armed by the next event only.
EndPoint0DoStallUnarmed(d) ==
  [d EXCEPT !.stalled = TRUE, !.isIn = FALSE, !.st = "IDLE"]

EndPoint0DoStall(d) ==
  DwUsb3Ep0OutStart([d EXCEPT !.stalled = TRUE, !.isIn = FALSE, !.st = "IDLE"])

DwUsb3EndPoint0StartTransfer(d) ==
  Start0(d, IF d.isIn THEN "in" ELSE "out",
         IF d.st \in {"IN_STATUS", "OUT_STATUS"} THEN "status" ELSE "data")

\* EndPoint0CompleteRequest: the data stage is over, wait for the host to
\* ask for the status stage.
EndPoint0CompleteRequest(d) ==
  IF d.isIn THEN [d EXCEPT !.isIn = FALSE, !.st = "OUT_WAIT_NRDY"]
  ELSE [d EXCEPT !.isIn = TRUE, !.st = "IN_WAIT_NRDY"]

SetupStatusPhase(d) ==
  DwUsb3EndPoint0StartTransfer(
    [d EXCEPT !.st = IF d.isIn THEN "IN_STATUS" ELSE "OUT_STATUS"])

\* DwUsb3HandleEndPoint0.  A data stage that moved fewer bytes than asked
\* for ("short") is stalled; one that the controller gave back because a
\* new SETUP is waiting ("pend") counts as complete.
DwUsb3HandleEndPoint0(d) ==
  CASE d.st \in {"IN_DATA", "OUT_DATA"} ->
         IF d.hw0[IF d.st = "IN_DATA" THEN "in" ELSE "out"] # "none" THEN d
         ELSE IF d.resp = "short" THEN EndPoint0DoStall(d)
         ELSE EndPoint0CompleteRequest(d)
    [] d.st \in {"IN_WAIT_NRDY", "OUT_WAIT_NRDY"} -> SetupStatusPhase(d)
    [] d.st \in {"IN_STATUS", "OUT_STATUS"} ->
         DwUsb3Ep0OutStart([d EXCEPT !.st = "IDLE", !.isIn = FALSE])
    [] OTHER -> d

(* --------------------------- the bulk endpoints ------------------------ *)

Messages == {"DATA", "OKAY"}

\* Slip: the rest of a download is armed in one piece.
NextLengthWhole(left) ==
  IF left = 0 THEN [len |-> CMD_SIZE, left |-> 0]
  ELSE IF left > DATA_SIZE THEN [len |-> DATA_SIZE, left |-> left - DATA_SIZE]
  ELSE [len |-> left, left |-> 0]

\* The length of the next OUT transfer and what is left of mDataBufferSize.
NextLength(left) ==
  IF left = 0 THEN [len |-> CMD_SIZE, left |-> 0]
  ELSE IF left > DATA_SIZE THEN [len |-> DATA_SIZE, left |-> left - DATA_SIZE]
  ELSE IF left > CMD_SIZE THEN [len |-> CMD_SIZE, left |-> left - CMD_SIZE]
  ELSE [len |-> left, left |-> 0]

\* For OUT the length is a multiple of the packet size.
RoundUp(n, mp) == ((n + mp - 1) \div mp) * mp

\* Slip: what the last transfer received is still counted.
ArmOutKeepsCount(d) ==
  LET next == NextLength(d.dataBufferSize)
      d1   == [d EXCEPT !.dataBufferSize = next.left, !.out.trb = TRUE,
                        !.out.hwo = TRUE,
                        !.out.len = RoundUp(next.len, MaxPacket[d.speed])]
  IN IF d.out.started THEN d1 ELSE StartBulk(d1, "out")

\* A new gRxBuf, its length and DwUsb3EndPointXStartTransfer on the OUT
\* endpoint: descriptor first, then UPDATE_XFER if a transfer is believed
\* to run and START_XFER otherwise.
ArmOut(d) ==
  LET next == NextLength(d.dataBufferSize)
      d1   == [d EXCEPT !.dataBufferSize = next.left, !.out.trb = TRUE,
                        !.out.hwo = TRUE, !.out.got = 0,
                        !.out.len = RoundUp(next.len, MaxPacket[d.speed])]
  IN IF d.out.started THEN d1 ELSE StartBulk(d1, "out")

\* The controller learns the packet size of an endpoint.
DwUsb3EpActivate(d, ep) == [d EXCEPT ![ep].mps = d.speed]
Usb3PcdEpEnable(d, ep) ==
  DwUsb3EpActivate([d EXCEPT ![ep].started = FALSE, ![ep].hwo = FALSE, !.feat = @ \ {ep}], ep)

DwUsb3DoSetConfig(d) ==
  LET d1 == Usb3PcdEpEnable(Usb3PcdEpEnable(d, "in"), "out")
  IN [ArmOut([d1 EXCEPT !.state = "CONFIGURED", !.feat = @ \cup {"configured"}])
        EXCEPT !.isIn = TRUE, !.st = "IN_WAIT_NRDY", !.live = TRUE]

\* DwUsb3EndPointcompleteRequest for the OUT endpoint: an event that finds
\* no request, or one the controller still owns, is dropped.  Otherwise
\* the callback gets what was received and the next transfer is armed.
Completes(d) == d.out.trb /\ ~d.out.hwo

CompleteOut(d) ==
  LET d1 == [d EXCEPT !.out.started = FALSE]
  IN IF Completes(d) THEN ArmOut([d1 EXCEPT !.out.trb = FALSE]) ELSE d1

(* -------------------------------- requests ----------------------------- *)

\* Slip: the address is not given to the controller.
DwUsb3DoSetAddressKeeps(d) ==
  [d EXCEPT !.state = "ADDRESSED", !.isIn = TRUE, !.st = "IN_WAIT_NRDY"]

DwUsb3DoSetAddress(d) ==
  [d EXCEPT !.addr = 1, !.state = "ADDRESSED", !.isIn = TRUE,
            !.st = "IN_WAIT_NRDY"]

\* DwUsb3DoSetFeature and DwUsb3DoClearFeature: power management only of a
\* configured device at super speed.  To halt a bulk endpoint is noted in
\* its "stopped", which GET_STATUS gives; the controller is told to clear
\* a stall in both cases, so that the endpoint goes on (line 1600).
Allowed(d, f) == f \in SuperOnly => d.speed = "super" /\ d.state = "CONFIGURED"
DwUsb3DoSetFeature(d, f) ==
  IF Allowed(d, f) THEN [d EXCEPT !.feat = @ \cup {f}] ELSE EndPoint0DoStall(d)
DoClearHalt(d, f) == [d EXCEPT !.feat = @ \ {f}]
DwUsb3DoClearFeature(d, f) ==
  IF Allowed(d, f) THEN DoClearHalt(d, f) ELSE EndPoint0DoStall(d)

\* gEndPoint0StatusBuf is sent: DwUsb3DoGetStatus, DwUsb3DoGetConfig, and of
\* DwUsb3DoGetDescriptor what depends on the speed.
Reply(d, what) == DwUsb3EndPoint0StartTransfer([d EXCEPT !.answer = what])
DwUsb3DoGetStatus(d, req) ==
  Reply(d, CASE req = "statusIn"  -> d.feat \cap {"in"}
             [] req = "statusOut" -> d.feat \cap {"out"}
             [] OTHER             -> {f \in d.feat \cap SuperOnly : Allowed(d, f)})
DwUsb3DoGetConfig(d) == Reply(d, d.feat \cap {"configured"})
DwUsb3DoGetDescriptor(d, req) ==
  IF req = "bos" /\ d.speed # "super" THEN EndPoint0DoStall(d) ELSE Reply(d, {d.speed})

\* DwUsb3DoSetup on the packet in gEndPoint0SetupPacket.  GET_DESCRIPTOR
\* for an unknown string stalls and then starts a transfer all the same,
\* on the OUT endpoint where the SETUP descriptor is already running.
\* SET_CONFIGURATION switches LTM off, even one that is refused.
DwUsb3DoSetup(d) ==
  LET req == d.packet
      d0  == CASE Data(req) = "in"  -> [d EXCEPT !.isIn = TRUE, !.st = "IN_DATA"]
               [] Data(req) = "out" -> [d EXCEPT !.isIn = FALSE, !.st = "OUT_DATA"]
               [] OTHER -> [d EXCEPT !.isIn = TRUE, !.st = "IN_WAIT_NRDY"]
  IN CASE req \in {"stall", "stallIn"} -> EndPoint0DoStall(d0)
       [] req \in {"get", "setSel"}    -> DwUsb3EndPoint0StartTransfer(d0)
       [] req = "badString" ->
            DwUsb3EndPoint0StartTransfer(EndPoint0DoStall(d0))
       [] req = "address"   -> DwUsb3DoSetAddress(d0)
       [] req = "config"    -> [DwUsb3DoSetConfig(d0) EXCEPT !.feat = @ \ {"ltm"}]
       [] req = "unconfig"  ->
            [d0 EXCEPT !.state = "ADDRESSED", !.feat = @ \ {"configured", "ltm"}]
       [] req = "badConfig" -> [EndPoint0DoStall(d0) EXCEPT !.feat = @ \ {"ltm"}]
       [] req \in DOMAIN Sets   -> DwUsb3DoSetFeature(d0, Sets[req])
       [] req \in DOMAIN Clears -> DwUsb3DoClearFeature(d0, Clears[req])
       [] req \in {"getStatus", "statusIn", "statusOut"} -> DwUsb3DoGetStatus(d0, req)
       [] req = "getConfig" -> DwUsb3DoGetConfig(d0)
       [] req \in {"getSpeed", "bos"} -> DwUsb3DoGetDescriptor(d0, req)
       [] OTHER             -> d0

DwUsb3OsHandleEndPoint0(d) ==
  IF d.st = "IDLE" THEN DwUsb3DoSetup(d) ELSE DwUsb3HandleEndPoint0(d)

(* ------------------------------ the event loop ------------------------- *)

\* Slip: a bus reset leaves the running transfers to the controller.
DwUsb3HandleUsbResetNoStop(d) == [d EXCEPT !.addr = 0, !.live = FALSE]

DwUsb3HandleUsbResetInterrupt(d) ==
  [StopBulk(StopBulk(d, "in"), "out")
     EXCEPT !.addr = 0, !.live = FALSE, !.feat = @ \ {"ltm"}]

DwUsb3HandleConnectDoneInterrupt(d) ==
  [d EXCEPT !.speed = host.speed, !.state = "DEFAULT"]

\* Slip: only the IN side's NRDY starts a status stage.
NrdyInOnly(d, ev) ==
  IF d.st = "IN_WAIT_NRDY" /\ ev.ep = "ep0in"
    THEN DwUsb3OsHandleEndPoint0(d) ELSE d

\* XFER_NRDY: the host asks for the status stage the driver waits for.
NrdyInterrupt(d, ev) ==
  IF \/ d.st = "IN_WAIT_NRDY" /\ ev.ep = "ep0in"
     \/ d.st = "OUT_WAIT_NRDY" /\ ev.ep = "ep0out"
    THEN DwUsb3OsHandleEndPoint0(d) ELSE d

\* DwUsb3HandleDeviceInterrupt and DwUsb3HandleEndPointInterrupt.
Handle(d, ev) ==
  CASE ev.type = "reset" -> DwUsb3HandleUsbResetInterrupt(d)
    [] ev.type = "conn"  -> DwUsb3HandleConnectDoneInterrupt(d)
    [] ev.type = "nrdy"  -> NrdyInterrupt(d, ev)
    [] ev.ep = "out"     -> CompleteOut(d)
    [] OTHER             -> DwUsb3OsHandleEndPoint0(d)

\* The receive callback: a command, or the next bytes of the download.
RxCallback(n) ==
  [app EXCEPT !.got = @ + n,
              !.left = IF app.mode = "data" THEN app.left - n ELSE 0,
              !.todo = IF app.mode = "cmd" THEN "download"
                       ELSE IF app.left - n <= 0 THEN "okay" ELSE "none"]

\* SET_CONFIGURATION is about to be handled.
Configures(d, ev) == ev.trb = "setup" /\ d.packet = "config"

\* DwUsb3Poll: one event.  The timer cannot interrupt a Send that runs at
\* TPL_CALLBACK.
DwUsb3Poll ==
  /\ dev.events # <<>>
  /\ snd.tpl = "callback" => snd.pc = "idle"
  /\ LET ev == Head(dev.events)
         d  == [dev EXCEPT !.events = Tail(@)]
     IN /\ dev' = Handle(d, ev)
        /\ app' = IF ev.ep = "out" /\ Completes(d) THEN RxCallback(d.out.got)
                  ELSE app
        /\ hist' = [hist EXCEPT
             !.reconf = @ \/ (Configures(d, ev) /\ d.live),
             !.strayed = @ \/ (/\ snd.pc = "start"
                                /\ (ev.type = "reset" \/ Configures(d, ev)))]
  /\ UNCHANGED <<snd, host>>

(* ----------------------- Send, at its caller's TPL --------------------- *)

\* DwUsb3Send up to the descriptor: a transfer that timed out earlier and
\* has ended since is not running any more.
SendFill ==
  /\ snd.pc = "fill"
  /\ dev' = [dev EXCEPT !.in.hwo = TRUE, !.in.msg = snd.msg,
                        !.in.started = @ /\ dev.in.hwo]
  /\ snd' = [snd EXCEPT !.pc = "start"]
  /\ hist' = [hist EXCEPT !.strayed = @ \/ ~dev.live]
  /\ UNCHANGED <<app, host>>

\* UPDATE_XFER or START_XFER.  The controller may have read the old
\* descriptor of a running transfer.
SendStart ==
  /\ snd.pc = "start"
  /\ LET sent == IF dev.in.active THEN dev.in.sent \cup {dev.in.msg}
                 ELSE {dev.in.msg}
         d == [dev EXCEPT !.in.sent = sent]
     IN dev' = IF dev.in.started THEN d ELSE StartBulk(d, "in")
  /\ snd' = [snd EXCEPT !.pc = "wait"]
  /\ hist' = [hist EXCEPT !.strayed = @ \/ ~dev.live]
  /\ UNCHANGED <<app, host>>

SendDone ==
  /\ snd.pc = "wait"
  /\ ~dev.in.hwo
  /\ dev' = [dev EXCEPT !.in.started = FALSE]
  /\ snd' = [snd EXCEPT !.pc = "idle"]
  /\ UNCHANGED <<app, host, hist>>

\* After 10 s Send returns, successfully, with the transfer still running.
SendTimeout ==
  /\ snd.pc = "wait"
  /\ dev.in.hwo
  /\ host.bulk # "reply" \/ hist.timeouts < hist.bound.timeouts
  /\ snd' = [snd EXCEPT !.pc = "idle"]
  /\ hist' = [hist EXCEPT !.timeouts =
                IF host.bulk = "reply" THEN @ + 1 ELSE @]
  /\ UNCHANGED <<dev, app, host>>

(* ------------------- the application (external) ------------------------ *)

\* It answers a download command: DwUsb3Request, then Send("DATA").
AppDownload ==
  /\ app.todo = "download"
  /\ snd.pc = "idle"
  /\ dev' = [dev EXCEPT !.dataBufferSize = host.size]
  /\ app' = [app EXCEPT !.todo = "none", !.mode = "data", !.left = host.size]
  /\ snd' = [snd EXCEPT !.pc = "fill", !.msg = "DATA"]
  /\ UNCHANGED <<host, hist>>

\* It has the whole download: Send("OKAY").
AppOkay ==
  /\ app.todo = "okay"
  /\ snd.pc = "idle"
  /\ app' = [app EXCEPT !.todo = "none", !.mode = "cmd", !.left = 0]
  /\ snd' = [snd EXCEPT !.pc = "fill", !.msg = "OKAY"]
  /\ UNCHANGED <<dev, host, hist>>

(* --------------------- the host and the wire (external) ---------------- *)

\* Every place where a control transfer, or its rest, can be cut off.
ControlBusy == host.stage # "idle" \/ dev.st # "IDLE" \/ dev.hw0.out # "setup"

\* The control transfer is over.
Idle(h) == [h EXCEPT !.stage = "idle", !.req = "get"]
Stalled(h) == [Idle(h) EXCEPT !.feat = IF h.req = "badConfig" THEN @ \ {"ltm"} ELSE @]

\* The host has sent its SETUP and waits for the data or the status stage.
Underway == host.stage \in {"data", "status"}

HostReset ==
  /\ hist.resets < hist.bound.resets
  /\ \E s \in hist.bound.speeds :
       host' = [Idle(host) EXCEPT !.speed = s, !.addr = 0, !.bulk = "off",
                                  !.left = 0, !.feat = @ \ {"ltm"}]
  /\ dev' = Raise(Raise([dev EXCEPT !.nrdy = {}], BusEvent("reset")),
                  BusEvent("conn"))
  /\ hist' = [hist EXCEPT !.resets = @ + 1, !.cut = @ \/ ControlBusy]
  /\ UNCHANGED <<snd, app>>

HostSetup ==
  /\ host.stage = "idle"
  /\ hist.resets > 0
  /\ \E req \in {"address", "config"} \cup hist.bound.asks :
       LET enumerates == \/ req = "address"
                         \/ req = "config" /\ host.bulk = "off"
       IN /\ req \in {"config", "unconfig", "badConfig"} => host.addr = 1
          /\ req = "address" => host.addr = 0
          /\ enumerates \/ hist.requests < hist.bound.requests
          /\ host' = [host EXCEPT !.stage = "setup", !.req = req]
          /\ hist' = [hist EXCEPT !.requests = IF enumerates THEN @ ELSE @ + 1]
  /\ UNCHANGED <<dev, snd, app>>

\* A SETUP packet ends a stall and goes where the SETUP descriptor says.
SetupArrives ==
  /\ host.stage = "setup"
  /\ dev.hw0.out = "setup"
  /\ dev.addr = host.addr
  /\ dev' = Raise([dev EXCEPT !.hw0.out = "none", !.stalled = FALSE,
                              !.nrdy = {}, !.packet = host.req],
                  Cmpl("ep0out", "setup"))
  /\ host' = [host EXCEPT !.stage =
                IF Data(host.req) = "none" THEN "status" ELSE "data"]
  /\ UNCHANGED <<snd, app, hist>>

\* Without one the SETUP waits in the controller, which gives back what runs.
SetupPends ==
  /\ host.stage = "setup"
  /\ dev.addr = host.addr
  /\ \E dir \in {"in", "out"} :
       /\ dev.hw0[dir] \in {"data", "status"}
       /\ dev' = Raise([dev EXCEPT !.hw0[dir] = "none", !.resp = "pend"],
                       Cmpl(IF dir = "in" THEN "ep0in" ELSE "ep0out",
                            dev.hw0[dir]))
  /\ UNCHANGED <<snd, app, host, hist>>

\* The stage the host is in, and the direction it asks in.
Asked == LET data == Data(host.req) IN
           IF host.stage = "data" THEN data
           ELSE IF data = "in" THEN "out" ELSE "in"

\* What the host knows once the status stage has succeeded.
Finished(h) ==
  CASE h.req = "address"  -> [Idle(h) EXCEPT !.addr = 1]
    [] h.req = "config"   ->
         [Idle(h) EXCEPT !.bulk = "ready", !.sent = 0,
                         !.feat = (@ \ {"in", "out", "ltm"}) \cup {"configured"}]
    [] h.req = "unconfig" ->
         [Idle(h) EXCEPT !.bulk = "off", !.feat = @ \ {"configured", "ltm"}]
    [] h.req \in DOMAIN Sets   -> [Idle(h) EXCEPT !.feat = @ \cup {Sets[h.req]}]
    [] h.req \in DOMAIN Clears -> [Idle(h) EXCEPT !.feat = @ \ {Clears[h.req]}]
    [] OTHER              -> Idle(h)

\* What it then takes for the answer to a question.
Expected(h) ==
  CASE h.req = "getStatus" -> IF h.speed = "super" /\ h.bulk # "off" THEN h.feat \cap SuperOnly
                              ELSE {}
    [] h.req = "statusIn"  -> h.feat \cap {"in"}
    [] h.req = "statusOut" -> h.feat \cap {"out"}
    [] h.req = "getConfig" -> h.feat \cap {"configured"}
    [] OTHER               -> {h.speed}

\* Power management is for a configured device at super speed.
MayHave(h, f) == f \in SuperOnly => h.speed = "super" /\ h.bulk # "off"

\* The host ends the data stage of SET_SEL with fewer bytes than were armed.
ControlStage ==
  /\ Underway
  /\ dev.addr = host.addr \/ host.req = "address"
  /\ LET dir == Asked
         ep  == IF dir = "in" THEN "ep0in" ELSE "ep0out"
     IN \/ /\ dev.stalled
           /\ host' = Stalled(host)
           /\ UNCHANGED <<dev, app, hist>>
        \/ /\ ~dev.stalled
           /\ dev.hw0[dir] = host.stage
           /\ dev' = Raise([dev EXCEPT !.hw0[dir] = "none",
                              !.resp = IF host.req = "setSel" /\ host.stage = "data"
                                         THEN "short" ELSE "ok"],
                           Cmpl(ep, host.stage))
           /\ host' = IF host.stage = "data"
                        THEN [host EXCEPT !.stage = "status"]
                        ELSE Finished(host)
           /\ app' = IF host.stage = "status" /\ host.req = "config"
                       THEN [app EXCEPT !.got = 0] ELSE app
           /\ hist' = [hist EXCEPT !.lied =
                \/ @
                \/ /\ host.req \in Queries /\ host.stage = "data"
                   /\ dev.answer # Expected(host)
                \/ host.req \in DOMAIN Sets /\ ~MayHave(host, Sets[host.req])]
        \/ /\ ~dev.stalled
           /\ dev.hw0[dir] = "none"
           /\ dir \notin dev.nrdy
           /\ dev' = Raise([dev EXCEPT !.nrdy = @ \cup {dir}], Nrdy(ep))
           /\ UNCHANGED <<host, app, hist>>
  /\ UNCHANGED snd

HostAbort ==
  /\ Underway
  /\ hist.aborts < hist.bound.aborts
  /\ host' = Idle(host)
  /\ hist' = [hist EXCEPT !.aborts = @ + 1, !.cut = TRUE]
  /\ UNCHANGED <<dev, snd, app>>

\* With a SETUP waiting the controller may or may not ask for the status
\* stage of the transfer that was given up.
StaleNrdy ==
  /\ host.stage = "setup"
  /\ \E dir \in {"in", "out"} \ dev.nrdy :
       /\ dev.st = IF dir = "in" THEN "IN_WAIT_NRDY" ELSE "OUT_WAIT_NRDY"
       /\ dev.hw0[dir] = "none"
       /\ dev' = Raise([dev EXCEPT !.nrdy = @ \cup {dir}],
                       Nrdy(IF dir = "in" THEN "ep0in" ELSE "ep0out"))
  /\ UNCHANGED <<snd, app, host, hist>>

\* n bytes reach the OUT transfer; a short packet or a full buffer ends it.
Receive(n) ==
  LET got  == dev.out.got + n
      full == got = dev.out.len \/ n < MaxPacket[host.speed]
      d    == [dev EXCEPT !.out.got = got, !.out.active = ~full,
                          !.out.hwo = @ /\ ~full]
  IN dev' = IF full THEN Raise(d, Cmpl("out", "data")) ELSE d

\* A command is one short packet.
HostCommand ==
  /\ host.bulk = "ready"
  /\ host.stage = "idle"
  /\ hist.downloads < hist.bound.downloads
  /\ app.mode = "cmd" /\ app.todo = "none" /\ snd.pc = "idle"
  /\ dev.out.active /\ dev.out.hwo
  /\ Receive(1)
  /\ \E n \in hist.bound.sizes :
       host' = [host EXCEPT !.bulk = "reply", !.size = n, !.sent = @ + 1]
  /\ hist' = [hist EXCEPT !.downloads = @ + 1]
  /\ UNCHANGED <<snd, app>>

HostPacket ==
  /\ host.bulk = "data"
  /\ dev.out.active /\ dev.out.hwo
  /\ LET mp == MaxPacket[host.speed]
         n  == IF host.left < mp THEN host.left ELSE mp
     IN /\ dev.out.got + n <= dev.out.len
        /\ Receive(n)
        /\ host' = [host EXCEPT !.left = @ - n, !.sent = @ + n,
                      !.bulk = IF host.left = n THEN "reply" ELSE "data"]
  /\ UNCHANGED <<snd, app, hist>>

HostRead ==
  /\ host.bulk = "reply"
  /\ dev.in.active /\ dev.in.hwo
  /\ \E m \in dev.in.sent :
       host' = [host EXCEPT !.bulk = IF m = "DATA" THEN "data" ELSE "ready",
                            !.left = IF m = "DATA" THEN host.size ELSE 0]
  /\ dev' = [dev EXCEPT !.in.active = FALSE, !.in.hwo = FALSE]
  /\ UNCHANGED <<snd, app, hist>>

(* ---------------------------- specification ---------------------------- *)

\* gPcd; both bulk endpoints count as stopped until they are configured.
DriverInit ==
  [st |-> "IDLE", isIn |-> FALSE, stalled |-> FALSE, nrdy |-> {},
   hw0 |-> [out |-> "none", in |-> "none"], resp |-> "ok",
   packet |-> "get", addr |-> 1, state |-> "UNCONNECTED",
   speed |-> "unknown", events |-> <<BusEvent("reset")>>, dataBufferSize |-> 0,
   live |-> FALSE, refused |-> FALSE, feat |-> {"in", "out"}, answer |-> {},
   out |-> [started |-> FALSE, active |-> FALSE, hwo |-> FALSE, mps |-> "unknown",
            trb |-> FALSE, len |-> 0, got |-> 0],
   in |-> [started |-> FALSE, active |-> FALSE, hwo |-> FALSE, mps |-> "unknown",
           msg |-> "DATA", sent |-> {}]]

\* A reset of the core, the event buffer emptied, and the control endpoint
\* armed before the controller is connected.
DwUsb3Init(d) == DwUsb3Ep0OutStart([d EXCEPT !.addr = 0, !.events = <<>>])

\* DwUsb3Start, with the timer.
Init ==
  /\ dev = DwUsb3Init(DriverInit)
  /\ \E tpl \in {"application", "callback"} :
       snd = [pc |-> "idle", msg |-> "DATA", tpl |-> tpl]
  /\ app = [mode |-> "cmd", todo |-> "none", left |-> 0, got |-> 0]
  /\ host = [stage |-> "idle", req |-> "get", addr |-> 0, bulk |-> "off",
             size |-> 0, left |-> 0, sent |-> 0,
             speed |-> CHOOSE s \in Speeds : TRUE, feat |-> {"in", "out"}]
  /\ \E b \in Scenarios :
       hist = [bound |-> b, resets |-> 0, requests |-> 0, aborts |-> 0,
               downloads |-> 0, timeouts |-> 0, cut |-> FALSE,
               reconf |-> FALSE, strayed |-> FALSE, lied |-> FALSE]

Send == SendFill \/ SendStart \/ SendDone \/ SendTimeout
Application == AppDownload \/ AppOkay
HostBulk == HostCommand \/ HostPacket \/ HostRead
HostControl == SetupArrives \/ SetupPends \/ ControlStage

Next ==
  \/ DwUsb3Poll \/ Send \/ Application \/ HostBulk \/ HostControl
  \/ HostReset \/ HostSetup \/ HostAbort \/ StaleNrdy

\* The timer is periodic; Send only spins; the application answers; the
\* host goes on with a transfer it has begun.  It may reset the bus, begin
\* a control transfer or give one up whenever it likes.
Fairness ==
  /\ WF_vars(DwUsb3Poll) /\ WF_vars(Send) /\ WF_vars(Application)
  /\ WF_vars(HostPacket) /\ WF_vars(HostRead) /\ WF_vars(HostControl)

Spec == Init /\ [][Next]_vars /\ Fairness

(* ------------------------------- properties ---------------------------- *)

States == {"IDLE", "IN_DATA", "OUT_DATA", "IN_WAIT_NRDY", "OUT_WAIT_NRDY", "IN_STATUS", "OUT_STATUS"}
Descriptors == {"none", "setup", "data", "status"}
Responses == {"ok", "short", "pend"}
DeviceStates == {"UNCONNECTED", "DEFAULT", "ADDRESSED", "CONFIGURED"}
SpeedsOrNone == Speeds \cup {"unknown"}
OutEndpoint == [started : BOOLEAN, active : BOOLEAN, hwo : BOOLEAN, mps : SpeedsOrNone,
                trb : BOOLEAN, len : Nat, got : Nat]
InEndpoint == [started : BOOLEAN, active : BOOLEAN, hwo : BOOLEAN, mps : SpeedsOrNone,
               msg : Messages, sent : SUBSET Messages]
Dev == [st : States, isIn : BOOLEAN, stalled : BOOLEAN, nrdy : SUBSET {"in", "out"},
        hw0 : [out : Descriptors, in : Descriptors], resp : Responses, packet : Requests,
        addr : {0, 1}, state : DeviceStates, speed : SpeedsOrNone, events : Seq(Events),
        dataBufferSize : Nat, live : BOOLEAN, refused : BOOLEAN, feat : SUBSET Features,
        answer : SUBSET (Features \cup Speeds), out : OutEndpoint, in : InEndpoint]

Snd == [pc : {"idle", "fill", "start", "wait"}, msg : Messages, tpl : {"application", "callback"}]
App == [mode : {"cmd", "data"}, todo : {"none", "download", "okay"}, left : Nat, got : Nat]
Stages == {"idle", "setup", "data", "status"}
BulkStages == {"off", "ready", "reply", "data"}
Host == [stage : Stages, req : Requests, addr : {0, 1}, bulk : BulkStages, size : Nat, left : Nat,
         sent : Nat, speed : Speeds, feat : SUBSET Features]
Hist == [bound : Scenarios, resets : Nat, requests : Nat, aborts : Nat, downloads : Nat,
         timeouts : Nat, cut : BOOLEAN, reconf : BOOLEAN, strayed : BOOLEAN, lied : BOOLEAN]

\* Every variable holds what the code can put there; no OUT transfer is
\* armed for more than the DATA_SIZE bytes of gRxBuf (DwUsb3Dxe.c:2126),
\* whatever the rounding up.
TypeOK ==
  /\ dev \in Dev /\ dev.out.len <= DATA_SIZE /\ dev.out.got <= dev.out.len
  /\ snd \in Snd /\ app \in App /\ host \in Host /\ hist \in Hist

(* --------------------- the events that are waiting --------------------- *)

Slots == DOMAIN dev.events
At(i) == dev.events[i]
IsReset(ev) == ev = BusEvent("reset")
IsConn(ev) == ev = BusEvent("conn")
IsBus(ev) == ev.ep = "bus"
IsOut(ev) == ev = Cmpl("out", "data")
IsEp0(ev) == ev.type = "cmpl" /\ ev.ep \in {"ep0in", "ep0out"}
IsSetup(ev) == ev = Cmpl("ep0out", "setup")
ResetWaits == \E i \in Slots : IsReset(At(i))
BusWaits == \E i \in Slots : IsBus(At(i))
SetupWaits == \E i \in Slots : IsSetup(At(i))
OutWaits == \E i \in Slots : IsOut(At(i))

\* Events are handled in order: a bus reset is followed by the connection it
\* ends with; what the host received or sent before a reset comes before it,
\* and what it sends after it comes behind.
EventsInOrder ==
  /\ host.stage # "idle" \/ host.bulk # "off" => hist.resets > 0
  /\ hist.resets > 0 => dev.speed = host.speed \/ \E i \in Slots : IsConn(At(i))
  /\ \A i \in Slots : IsReset(At(i)) => \E j \in Slots : j > i /\ IsConn(At(j))
  /\ \A i, j \in Slots : IsOut(At(i)) /\ IsReset(At(j)) => i < j
  /\ \A i, j \in Slots : Underway /\ IsSetup(At(i)) /\ IsBus(At(j)) => j < i
  /\ \A i \in Slots : IsSetup(At(i)) =>
       dev.speed # "unknown" \/ \E j \in Slots : j < i /\ IsConn(At(j))

(* -------------------------- the control endpoint ----------------------- *)

\* The descriptor of each state, "none" where the driver waits for an NRDY.
Ep0Trb(st) ==
  IF st = "IDLE" THEN "setup"
  ELSE IF st \in {"IN_DATA", "OUT_DATA"} THEN "data"
  ELSE IF st \in {"IN_STATUS", "OUT_STATUS"} THEN "status" ELSE "none"
Ep0Dir(st) == IF st \in {"IN_DATA", "IN_WAIT_NRDY", "IN_STATUS"} THEN "in" ELSE "out"
Ep0Of(dir) == IF dir = "in" THEN "ep0in" ELSE "ep0out"
Other(dir) == IF dir = "in" THEN "out" ELSE "in"

\* The control endpoint has the one descriptor of its state: it runs, or its
\* completion waits to be handled.
OneDescriptor ==
  LET dir == Ep0Dir(dev.st)  trb == Ep0Trb(dev.st) IN
    /\ dev.hw0[dir] \in {"none", trb} /\ dev.hw0[Other(dir)] = "none"
    /\ trb # "none" => dev.hw0[dir] = trb \/ \E i \in Slots : IsEp0(At(i))
    /\ \A i \in Slots : IsEp0(At(i)) =>
         /\ trb # "none" /\ dev.hw0[dir] = "none" /\ At(i) = Cmpl(Ep0Of(dir), trb)
         /\ \A j \in Slots : IsEp0(At(j)) => j = i
    /\ dev.st \notin {"IDLE", "IN_STATUS", "OUT_STATUS"} => (dev.isIn <=> dir = "in")

\* The control endpoint is never deaf and never ahead of itself: it is idle
\* exactly when the SETUP descriptor is armed or its completion is waiting
\* to be handled, whatever the host aborts, resets or asks for; and while a
\* data or status descriptor runs, the state says so (DwUsb3Dxe.c:1215).
Ep0InStep ==
  /\ (dev.st = "IDLE") <=> (dev.hw0.out = "setup" \/ SetupWaits)
  /\ dev.hw0.in = "data" => dev.st = "IN_DATA"
  /\ dev.hw0.in = "status" => dev.st = "IN_STATUS"
  /\ dev.hw0.out = "data" => dev.st = "OUT_DATA"
  /\ dev.hw0.out = "status" => dev.st = "OUT_STATUS"
  /\ OneDescriptor

(* --------------------------- the bulk endpoints ------------------------ *)

\* After SET_CONFIGURATION the OUT endpoint always has a transfer armed that
\* the controller owns, or a completion to be handled that arms the next
\* one: the device cannot miss a command, however events and a bus reset
\* fall (DwUsb3Dxe.c:1717, 2120).
ReceiveNeverDeaf == dev.live => (dev.out.active /\ dev.out.hwo) \/ OutWaits

\* No transfer is started on a bulk endpoint that has one running: the
\* controller would refuse it and the driver not notice (it ignores the
\* result of the command, DwUsb3Dxe.c:1129).  The host does not configure
\* twice without a reset, and no Send falls between a reset and the next
\* configuration.
NeverRefused == dev.refused => hist.reconf \/ hist.strayed

\* A running OUT transfer has a descriptor with room, which the controller
\* owns, and unless the device was configured twice the driver knows of it, a
\* bus reset ends it and its one completion comes when it is over.
OutRuns ==
  /\ dev.live => dev.out.trb /\ dev.speed # "unknown" /\ (dev.out.hwo => dev.out.active)
  /\ OutWaits => dev.live
  /\ dev.out.active => dev.out.hwo
  /\ dev.out.hwo => dev.out.got < dev.out.len
  /\ dev.out.active /\ ~hist.reconf => dev.out.started /\ dev.live
  /\ \A i \in Slots : IsOut(At(i)) /\ ~hist.reconf =>
       ~dev.out.hwo /\ \A j \in Slots : IsOut(At(j)) => j = i

\* The same of the IN transfer, which Send fills and starts in two steps.
InRuns ==
  ~hist.reconf /\ ~hist.strayed =>
    /\ dev.in.active => dev.in.started /\ dev.in.hwo /\ dev.live
    /\ snd.pc = "start" => dev.in.started \/ dev.in.hwo

\* The application and the host agree on where a download is: "DATA" is sent
\* once for it, before any of its bytes, and the application waits for at
\* least what the host has still to send.
DataSent == dev.in.active /\ "DATA" \in dev.in.sent
DataComes == snd.pc \in {"fill", "start"} /\ snd.msg = "DATA"
DownloadInStep ==
  /\ app.mode = "cmd" \/ app.todo = "okay" => host.bulk # "data" /\ ~DataSent /\ ~DataComes
  /\ app.mode = "data" /\ (DataSent \/ DataComes) =>
       host.bulk # "data" /\ app.left >= host.size + dev.out.got
  /\ DataComes => ~DataSent
  /\ snd.pc = "start" => dev.in.msg = snd.msg
  /\ app.todo = "download" => app.mode = "cmd" /\ dev.out.got = 0
  /\ app.todo = "okay" => app.mode = "data"
  /\ app.mode = "data" => app.left >= dev.out.got
  /\ host.bulk = "data" =>
       host.left > 0 /\ app.mode = "data" /\ app.left >= host.left + dev.out.got
  /\ host.size = 0 =>
       app.mode = "cmd" /\ app.todo = "none" /\ host.bulk \in {"off", "ready"} /\ ~OutWaits

\* The bulk endpoints are in step with the driver's view, and with host and
\* application.
BulkInStep ==
  /\ TypeOK /\ EventsInOrder
  /\ ReceiveNeverDeaf /\ NeverRefused /\ OutRuns /\ InRuns /\ DownloadInStep

\* What the host has sent since it configured the device has gone to the
\* callback or is in the armed buffer: nothing is lost, repeated or counted
\* twice over the chunks a download is cut into (DwUsb3Dxe.c:2108).
NothingLost ==
  host.bulk # "off" /\ ~hist.reconf =>
    host.sent = app.got + dev.out.got

(* ------------------- what the host was told is true -------------------- *)

\* A request the driver has handled concerns the connection the host is in:
\* the bulk endpoints it thinks are set up are, for the speed at hand.
Handled == Underway /\ ~SetupWaits
BulkReady == dev.live /\ dev.in.mps = host.speed /\ dev.out.mps = host.speed
HandledInStep ==
  /\ Underway => dev.packet = host.req
  /\ Handled \/ host.bulk # "off" => ~BusWaits
  /\ host.bulk # "off" => BulkReady
  /\ Handled /\ host.req = "config" =>
       BulkReady /\ (hist.reconf \/ (host.bulk = "off" /\ dev.out.got = 0))
  /\ Handled /\ dev.resp = "short" /\ dev.st \in {"IN_DATA", "OUT_DATA"} => host.req = "setSel"
  /\ SetupWaits => ~dev.stalled
  /\ host.stage # "idle" /\ host.req = "address" => host.addr = 0
  /\ host.stage # "idle" /\ host.req = "config" => host.addr = 1
  /\ host.stage = "data" => Data(host.req) # "none"

\* Address, features and configuration are those of the host h.
Agrees(h) ==
  /\ dev.addr = h.addr /\ dev.feat = h.feat
  /\ dev.state = "CONFIGURED" <=> h.bulk # "off"

\* As long as no transfer was cut off, the driver's state is what the host
\* thinks, or will be once the bus reset that waits and the request under way
\* are over.
HostAgrees ==
  /\ SetupWaits => Underway
  /\ host.addr = 0 => host.bulk = "off"
  /\ ResetWaits => /\ host.addr = 0 /\ dev.feat \ {"ltm"} = host.feat
  /\ ~ResetWaits /\ ~Handled => dev.addr = host.addr /\ dev.feat = host.feat
  /\ ~BusWaits /\ ~Handled => (dev.state = "CONFIGURED" <=> host.bulk # "off")
  /\ Handled /\ dev.stalled => Agrees(Stalled(host))
  /\ Handled /\ ~dev.stalled =>
       /\ Agrees(Finished(host))
       /\ host.req \in Queries /\ dev.hw0.in = "data" => dev.answer = Expected(host)
       /\ host.req \in DOMAIN Sets => MayHave(host, Sets[host.req])

\* A control request the host sees succeed has been done: the controller has
\* the new address, and after SET_CONFIGURATION the bulk endpoints are set
\* up for the speed at hand, unless a bus reset is on its way
\* (DwUsb3Dxe.c:1615, 1717).  A question is answered as the requests before
\* it have it, across bus resets; U1, U2 and the configuration stay over one
\* (DwUsb3Dxe.c:753, 1388, 1696).
RequestsAreDone ==
  \/ hist.cut
  \/ ~hist.lied /\ ResetWaits
  \/ /\ host.stage = "idle" => dev.addr = host.addr
     /\ host.bulk # "off" => BulkReady
     /\ ~hist.lied
StatusIsHonest == RequestsAreDone /\ HandledInStep /\ (hist.cut \/ HostAgrees)

\* At full speed CMD_SIZE is several packets, and a download whose last
\* chunk is whole packets but not a whole CMD_SIZE ends in a transfer that
\* no packet completes.
EndsShort ==
  LET tail == host.size % CMD_SIZE IN
    tail = 0 \/ tail % MaxPacket[host.speed] # 0
             \/ MaxPacket[host.speed] >= CMD_SIZE

\* A download the host has asked for is received to its end and answered: no
\* chunk is armed longer than what is still to come unless a short packet
\* ends it.  Not after a bus reset, a second configuration or a Send that
\* strayed (DwUsb3Dxe.c:2130).
DownloadCompletes ==
  (host.bulk \in {"reply", "data"} /\ EndsShort) ~>
    (host.bulk \in {"ready", "off"} \/ hist.reconf \/ hist.strayed)

\* A control transfer the host does not give up ends, in its status stage or
\* a stall (DwUsb3Dxe.c:1971, 1215).  After one that was cut off the driver
\* may wait for a status stage that never comes.
ControlEnds ==
  (host.stage # "idle") ~> (host.stage = "idle" \/ hist.cut)

(* ------------------------------ the instance --------------------------- *)

\* For TLC: CMD_SIZE 512 = 4 units, DATA_SIZE 4 packets of 512 instead of
\* 256.  Enumeration and control transfers with all that can cut them off;
\* downloads of all sizes at all speeds; a download across a bus reset and
\* a slow host.
MCMaxPacket == [full |-> 2, high |-> 4, super |-> 8]

Old == {"get", "badString", "stallIn", "setSel", "stall", "haltIn", "unconfig", "address", "config"}
Power == {"setU1", "clearU1", "setLtm", "clearLtm", "getStatus", "badConfig"}
Halts == {"haltOut", "clearOut", "clearIn", "statusIn", "statusOut", "getConfig"}
Speedy == {"setU1", "setU2", "clearU2", "getStatus", "getSpeed", "bos"}
Control(resets, requests, aborts, speeds, asks) ==
  [resets |-> resets, requests |-> requests, aborts |-> aborts, downloads |-> 0,
   timeouts |-> 0, sizes |-> {1}, speeds |-> speeds, asks |-> asks]

MCScenarios ==
  {Control(2, 2, 1, {"high"}, Old),
   Control(1, 3, 0, {"super"}, Power), Control(1, 3, 0, {"high"}, Halts),
   Control(2, 2, 0, {"high", "super"}, Speedy),
   [resets |-> 1, requests |-> 0, aborts |-> 0, downloads |-> 2,
    timeouts |-> 0, sizes |-> {1, 3, 4, 6, 8, 9, 12, 16, 18, 20, 23, 28, 32, 41},
    speeds |-> DOMAIN MCMaxPacket, asks |-> {}],
   [resets |-> 2, requests |-> 1, aborts |-> 0, downloads |-> 2,
    timeouts |-> 1, sizes |-> {9}, speeds |-> {"high"}, asks |-> Old]}

=============================================================================
