------------------------------- MODULE DwUsb2 -------------------------------
(***************************************************************************)
(* Drivers/Usb/DwUsbDxe: the DesignWare USB 2 core as a fastboot device.   *)
(* A timer runs CheckInterrupts at TPL_CALLBACK; Send only starts a        *)
(* transfer, from one descriptor that both IN endpoints share.  The driver *)
(* counts the bytes of a download by itself, from the command it sees.     *)
(* The host and the fastboot application are external.                     *)
(***************************************************************************)
EXTENDS Integers, Sequences, FiniteSets

CONSTANTS
  CMD_SIZE, DATA_SIZE,   \* what a receive is armed for, in the unit of Command
  Command,               \* length of a command
  TopDigit,              \* weight of the first digit of a download's length
  Packet,                \* a shorter packet ends a transfer
  Bounds                 \* bounds: commands, setups, resets, and sizes

VARIABLES
  drv,    \* the driver's count, the transmission being set up; the application
  dev,    \* endpoints, descriptor, interrupts; the host
  hist    \* history

vars == <<drv, dev, hist>>

ConstantsOK ==
  /\ {CMD_SIZE, DATA_SIZE, Command, TopDigit, Packet} \subseteq Nat \ {0}
  /\ Command <= CMD_SIZE /\ CMD_SIZE <= DATA_SIZE /\ CMD_SIZE % Packet = 0
  /\ \A m \in Bounds :
       {m.commands, m.setups, m.resets} \subseteq Nat /\ m.sizes \subseteq Nat \ {0}

Min2(a, b) == IF a <= b THEN a ELSE b
Huge == 2 * DATA_SIZE       \* a count that has wrapped below zero

\* The handlers are operators on the whole state.
st == [drv |-> drv, dev |-> dev, hist |-> hist]
Goto(s) == drv' = s.drv /\ dev' = s.dev /\ hist' = s.hist

(* ----------------------------- the driver ------------------------------ *)

\* ResetEndpoints: only the control endpoint is armed afterwards.
ResetEndpoints(s) ==
  [s EXCEPT !.dev.ints = {}, !.dev.in = {}, !.dev.ep0 = TRUE]

\* EpTx, its two steps: the descriptor that all share, and the endpoint.
Describe(s, ep, what) ==
  [s EXCEPT !.dev.desc = what, !.hist.wanted[ep] = what,
            !.hist.overlap = @ \/ s.dev.in # {} \/ (s.drv.tx # "none" /\ what # s.drv.tx)]
Enable(s, ep) == [s EXCEPT !.dev.in = @ \cup {ep}]
EpTx(s, ep, what) == Enable(Describe(s, ep, what), ep)

\* EpRx: a new buffer, armed for what is expected.
EpRx(s, len) == [s EXCEPT !.dev.armed = Min2(len, DATA_SIZE)]

\* HandleDeviceRequest.  A string is described and freed at once; a
\* request that is not known gets no answer, not even a stall.
HandleGetDescriptor(s, what) == IF what = "unknown" THEN s ELSE EpTx(s, 0, what)
HandleSetAddress(s) == EpTx(ResetEndpoints(s), 0, "ack")
HandleSetConfiguration(s) ==
  EpTx(EpRx([ResetEndpoints(s) EXCEPT !.dev.configured = TRUE], CMD_SIZE), 0, "ack")
HandleDeviceRequest(s) ==
  CASE s.dev.req \in {"device", "string", "unknown"} -> HandleGetDescriptor(s, s.dev.req)
    [] s.dev.req = "address" -> HandleSetAddress(s)
    [] s.dev.req = "config" -> HandleSetConfiguration(s)
    [] OTHER -> s

\* mNumDataBytes after a message: the length in a download command, without
\* its first digit (DwUsbDxe.c:560), or less what has come.  Data that begins
\* like a download command is taken for one.
CountAfter(s) ==
  LET got == s.dev.got IN
  IF got.kind = "download" THEN got.size % TopDigit
  ELSE IF s.drv.count = 0 THEN 0
  ELSE IF s.drv.count < got.bytes THEN Huge ELSE s.drv.count - got.bytes

\* The application (external) takes a message: it answers a command, gives
\* data or refuses a download, and acknowledges the last byte.
Received(app, got) ==
  IF app.left > 0 THEN
    [left |-> IF got.bytes >= app.left THEN 0 ELSE app.left - got.bytes,
     replies |-> app.replies \o (IF got.bytes >= app.left THEN <<"OKAY">> ELSE <<>>)]
  ELSE IF got.kind = "download" /\ ~got.refused
    THEN [left |-> got.size, replies |-> Append(app.replies, "DATA")]
  ELSE IF got.kind = "download" THEN [app EXCEPT !.replies = Append(@, "FAIL")]
  ELSE [app EXCEPT !.replies = @ \o got.says]

\* The bulk OUT endpoint: count, callback, and the next receive.
BulkOut(s) ==
  LET n == CountAfter(s) IN
  EpRx([s EXCEPT !.drv.count = n, !.drv.app = Received(@, s.dev.got),
                 !.hist.refused = @ \/ (s.dev.got.kind = "download" /\
                    (s.drv.app.left > 0 \/ s.dev.got.refused \/ s.dev.got.size >= TopDigit))],
       IF n = 0 THEN CMD_SIZE ELSE n)

\* CheckInterrupts: all that has been raised, in this order, in one run.  A
\* bus reset clears what is raised at the endpoints, a SETUP included.
CheckInterrupts ==
  /\ dev.ints # {}
  /\ LET ints == dev.ints
         a == [st EXCEPT !.dev.ints = {}]
         b == IF "reset" \in ints
                THEN ResetEndpoints([a EXCEPT !.dev.configured = FALSE]) ELSE a
         c == IF "setup" \in ints /\ "reset" \notin ints THEN HandleDeviceRequest(b) ELSE b
         d == IF "out" \in ints /\ "reset" \notin ints
                   /\ ~("setup" \in ints /\ dev.req \in {"address", "config"})
                THEN BulkOut(c) ELSE c
     IN Goto([d EXCEPT !.dev.ep0 = TRUE])

\* DwUsbSend, called by the application below TPL_CALLBACK, in its two steps.
DwUsbSend ==
  /\ drv.tx = "none" /\ drv.app.replies # <<>>
  /\ Goto(Describe([st EXCEPT !.drv.tx = Head(drv.app.replies),
                              !.drv.app.replies = Tail(@)], 1, Head(drv.app.replies)))
DwUsbSendStarts ==
  /\ drv.tx # "none"
  /\ Goto(Enable([st EXCEPT !.drv.tx = "none"], 1))

(* --------------------------- core and host ----------------------------- *)

\* The core sends what the descriptor says now.
Transmit(ep) ==
  /\ ep \in dev.in /\ (ep = 1 => dev.configured)
  /\ LET what == IF dev.desc = "string" THEN "freed" ELSE dev.desc
         host == [dev.host EXCEPT !.state =
           IF ep = 0 \/ @ # "waits" \/ what = "INFO" THEN @
           ELSE IF what = "DATA" THEN "sends"
           ELSE IF what \in {"OKAY", "FAIL"} THEN "free" ELSE "confused"]
     IN /\ dev' = [dev EXCEPT !.in = @ \ {ep}, !.host = host]
        /\ hist' = [hist EXCEPT !.sent[ep] = what,
                                !.freed = @ \/ what = "freed",
                                !.wrong = @ \/ what # hist.wanted[ep]]
  /\ UNCHANGED drv

Deliver(got, left, next) ==
  dev' = [dev EXCEPT !.got = got, !.armed = 0, !.ints = @ \cup {"out"},
                     !.host.left = left, !.host.state = next]

HostCommand ==
  /\ dev.configured /\ 0 \notin dev.in /\ dev.host.state = "free" /\ dev.armed > 0
  /\ hist.commands < hist.max.commands
  /\ \/ \E says \in {<<"OKAY">>, <<"INFO", "OKAY">>} :
          Deliver([kind |-> "command", bytes |-> Command, size |-> 0, refused |-> FALSE,
                   says |-> says], 0, "waits")
     \/ \E size \in hist.max.sizes, refused \in BOOLEAN :
          Deliver([kind |-> "download", bytes |-> Command, size |-> size,
                   refused |-> refused, says |-> <<>>], size, "waits")
  /\ hist' = [hist EXCEPT !.commands = @ + 1]
  /\ UNCHANGED drv

\* Data until the receive is full, or to the end when that is a short packet.  A
\* piece of it may begin like a download command.
HostData ==
  /\ dev.configured /\ dev.host.state = "sends" /\ dev.armed > 0
  /\ dev.host.left >= dev.armed \/ dev.host.left % Packet # 0
  /\ \E kind \in {"data", "download"}, size \in {0} \cup hist.max.sizes :
       LET n == Min2(dev.armed, dev.host.left) IN
       /\ (kind = "data") <=> (size = 0)
       /\ Deliver([kind |-> kind, bytes |-> n, size |-> size, refused |-> FALSE, says |-> <<>>],
                  dev.host.left - n, IF dev.host.left > n THEN "sends" ELSE "waits")
  /\ UNCHANGED <<drv, hist>>

HostSetup ==
  /\ dev.ep0 /\ hist.setups < hist.max.setups
  /\ \E req \in {"device", "string", "unknown"} :
       dev' = [dev EXCEPT !.req = req, !.ints = @ \cup {"setup"}, !.ep0 = FALSE]
  /\ hist' = [hist EXCEPT !.setups = @ + 1]
  /\ UNCHANGED drv
Enumerate ==
  /\ dev.ep0 /\ ~dev.configured /\ "reset" \notin dev.ints /\ 0 \notin dev.in
  /\ \E req \in {"address", "config"} :
       dev' = [dev EXCEPT !.req = req, !.ints = @ \cup {"setup"}, !.ep0 = FALSE]
  /\ UNCHANGED <<drv, hist>>
HostReset ==
  /\ hist.resets < hist.max.resets
  /\ dev' = [dev EXCEPT !.ints = @ \cup {"reset"}, !.configured = FALSE,
                        !.host = [state |-> "free", left |-> 0]]
  /\ hist' = [hist EXCEPT !.resets = @ + 1]
  /\ UNCHANGED drv

NoMessage == [kind |-> "none", bytes |-> 0, size |-> 0, refused |-> FALSE, says |-> <<>>]
Init ==
  /\ drv = [count |-> 0, tx |-> "none", app |-> [left |-> 0, replies |-> <<>>]]
  /\ dev = [ints |-> {"reset"}, in |-> {}, desc |-> "none", ep0 |-> FALSE, req |-> "none",
            armed |-> 0, got |-> NoMessage, configured |-> FALSE,
            host |-> [state |-> "free", left |-> 0]]
  /\ \E max \in Bounds :
       hist = [max |-> max, commands |-> 0, setups |-> 0, resets |-> 0,
               wanted |-> [ep \in {0, 1} |-> "none"], sent |-> [ep \in {0, 1} |-> "none"],
               wrong |-> FALSE,      \* something else was sent than was meant
               freed |-> FALSE,      \* a string was sent that had been freed
               overlap |-> FALSE,    \* the descriptor was rewritten while in use
               refused |-> FALSE]    \* a download whose length the driver misjudged

Work == CheckInterrupts \/ DwUsbSend \/ DwUsbSendStarts
Core == \E ep \in {0, 1} : Transmit(ep)
Host == HostData \/ Enumerate
Next == Work \/ Core \/ Host \/ HostCommand \/ HostSetup \/ HostReset

Spec == Init /\ [][Next]_vars /\ WF_vars(Work) /\ WF_vars(Core) /\ WF_vars(Host)

(* ------------------------------ properties ----------------------------- *)

\* The host gets the replies that were meant for it, unless a descriptor
\* was rewritten in use (DwUsbDxe.c:167) or a string was freed before it
\* was sent (DwUsbDxe.c:321).
RepliesArrive ==
  hist.wrong => hist.overlap \/ hist.freed

\* The driver's count is what the application still waits for, and a
\* receive is armed that what the host sends next fills or fits in; unless
\* a download was refused, so long that its first digit counts
\* (DwUsbDxe.c:560) or of data that begins like a command (:559), a reply was
\* overwritten, or the bus was reset.
CountInStep ==
  ~hist.refused /\ ~hist.overlap /\ hist.resets = 0 /\ "out" \notin dev.ints =>
    /\ drv.count = drv.app.left
    /\ dev.configured /\ "setup" \notin dev.ints =>
         /\ dev.armed > 0
         /\ dev.host.state = "free" => dev.armed = CMD_SIZE
         /\ dev.host.state = "sends" =>
              dev.armed = Min2(dev.host.left, DATA_SIZE) /\ dev.host.left = drv.app.left

\* A download comes to its end, unless the count or a reply went wrong.
Lost == hist.overlap \/ hist.refused \/ hist.resets > 0
DownloadsEnd == dev.host.state = "sends" ~> (dev.host.state = "free" \/ Lost)

=============================================================================
