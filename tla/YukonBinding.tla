----------------------------- MODULE YukonBinding -----------------------------
(***************************************************************************)
(* Drivers/Net/MarvellYukonDxe: DriverBinding.c and the attaching of the   *)
(* controller in if_msk.c.  Start opens the PCI device, attaches the       *)
(* controller and installs a network interface for each of its ports; Stop *)
(* takes it all back; in between the interfaces are started, filtered,     *)
(* polled and stopped by their users, and polls see hardware errors.  What *)
(* moves the packets is the module Yukon.                                  *)
(*                                                                         *)
(* A call fails at the points that the environment chooses.  Freed memory  *)
(* keeps its place in the sequences: what still refers to it can be seen.  *)
(***************************************************************************)
EXTENDS Integers, Sequences, FiniteSets

CONSTANTS
  Chips,      \* [id, rev, dual, link2, fiber, ram, bar]: the devices
  Addresses,  \* multicast addresses; a number, of which 6 bits are the hash
  Max,        \* MAX_MCAST_FILTER_CNT
  Kinds,      \* hardware errors that may happen
  Bounds      \* bounds: starts, calls, faults, errors, frames

VARIABLES
  drv,    \* the driver: what it opened, its softcs, list and children
  dev,    \* the controller
  hist    \* history

vars == <<drv, dev, hist>>

Ports == 0 .. 1
Refused == {"YUKON", "YUKON_SUPR", "YUKON_UNKNOWN"}
Families == {"YUKON_XL", "YUKON_EC_U", "YUKON_EX", "YUKON_EC", "YUKON_FE", "YUKON_FE_P",
             "YUKON_UL_2", "YUKON_OPT"}
QueueErrors == {"overrun", "underrun"} \X Ports
PortErrors == {"ram", "mac", "rx", "tcp"} \X Ports
BusErrors == {"time", "bus", "pex", "fatal"}

ConstantsOK ==
  /\ \A c \in Chips :
       /\ c.id \in Families \cup Refused \cup {"other"} /\ c.rev \in 0 .. 15 /\ c.ram % 4 = 0
       /\ {c.dual, c.link2, c.fiber} \subseteq BOOLEAN
       /\ c.bar \in {"mem", "prefetchable", "io", "none", "odd"}
  /\ Addresses \subseteq Nat /\ Max \in Nat /\ Kinds \subseteq QueueErrors \cup PortErrors \cup (BusErrors \X {0})
  /\ \A m \in Bounds : {m.starts, m.calls, m.faults, m.errors, m.frames} \subseteq Nat

(* ---------------------------- what a chip is --------------------------- *)

\* mskc_attach: the clock in MHz and the flags of a chip and its revision.
Clock(chip) ==
  CASE chip.id = "YUKON_FE" -> 100
    [] chip.id = "YUKON_FE_P" -> 50
    [] chip.id = "YUKON_XL" -> 156
    [] OTHER -> 125
Flags(chip) ==
  (CASE chip.id = "YUKON_EC_U" -> {"JUMBO", "JUMBO_NOCSUM"}
     [] chip.id = "YUKON_EX" ->
          {"JUMBO", "DESCV2"} \cup (IF chip.rev = 2 THEN {} ELSE {"AUTOTX_CSUM"})
            \cup (IF chip.rev = 1 THEN {"JUMBO_NOCSUM"} ELSE {})
     [] chip.id = "YUKON_FE" -> {"FASTETHER"}
     [] chip.id = "YUKON_FE_P" ->
          {"FASTETHER", "DESCV2", "AUTOTX_CSUM"}
            \cup (IF chip.rev = 0 THEN {"NOHWVLAN", "NORXCHK", "NORX_CSUM"} ELSE {})
     [] chip.id = "YUKON_OPT" -> {"JUMBO", "DESCV2"}
     [] OTHER -> {"JUMBO"})
  \cup (IF chip.ram > 0 THEN {"RAMBUF"} ELSE {})

\* The second MAC counts while its link is not switched off.
NumPort(chip) == IF chip.dual /\ chip.link2 THEN 2 ELSE 1

\* mskc_setup_rambuffer, in KB: two thirds of the memory are for what a
\* port receives; the second port's queues follow those of the first.
RxqSize(chip) == (chip.ram * 2) \div 3
mskc_setup_rambuffer(chip, port) ==
  [rx |-> [from |-> port * chip.ram, to |-> (port * chip.ram) + RxqSize(chip)],
   tx |-> [from |-> (port * chip.ram) + RxqSize(chip), to |-> (port + 1) * chip.ram]]

\* msk_set_rambuffer: the levels at which pause frames begin and end.  The
\* size in bytes is compared with a limit of 10: no queue is small.
msk_set_rambuffer(chip, port) ==
  LET q == mskc_setup_rambuffer(chip, port) IN
  [q |-> q, utpp |-> q.rx.to - q.rx.from - 8, ltpp |-> q.rx.to - q.rx.from - 16]

(* ------------------------------ the records ---------------------------- *)

NoIf == [here |-> FALSE, active |-> FALSE, held |-> 0, lost |-> 0, phy |-> "none",
         fiber |-> FALSE, stats |-> 0]
PortOff == [on |-> FALSE, ram |-> FALSE, ucf |-> FALSE, mcf |-> FALSE, hash |-> {}, mib |-> 0,
            frames |-> 0]
Reset == [up |-> FALSE, cfg |-> FALSE, power |-> FALSE, stat |-> 0,
          imsk |-> {}, hwemsk |-> {}, err |-> {}, port |-> [p \in Ports |-> PortOff]]

\* The errors that the summary bit shows: those that are not masked.
MaskOf(e) == IF e[1] \in {"pex", "fatal"} THEN "pci_exp"
             ELSE IF e[1] \in BusErrors THEN "bus"
             ELSE IF e \in QueueErrors THEN IF e[2] = 0 THEN "A" ELSE "B"
             ELSE IF e[2] = 0 THEN "L1" ELSE "L2"
Signalled(d) ==
  {e \in d.err : MaskOf(e) \in IF e \in QueueErrors THEN d.imsk ELSE d.hwemsk}

Softc(chip) ==
  [live |-> TRUE, attached |-> FALSE, orig |-> drv.attrs, chip |-> chip, stat |-> "none",
   timer |-> "none", intrmask |-> {}, hwemask |-> {}, if |-> [p \in Ports |-> NoIf]]

\* The state a routine works on: driver, controller and status.
State == [drv |-> drv, dev |-> dev, status |-> "SUCCESS"]
Error(r, status) == [r EXCEPT !.status = status]
Ok(r) == r.status = "SUCCESS"

(* ------------------------------- attaching ----------------------------- *)

\* clear_pci_errors: writes to the configuration space stay enabled.
clear_pci_errors(d) ==
  [d EXCEPT !.cfg = TRUE, !.err = @ \ {e \in d.err : e[1] = "bus"}]

\* msk_phy_power: both PHYs and the clocks of the links.
msk_phy_power(d, mode) == [d EXCEPT !.power = mode = "up"]

\* mskc_reset: errors cleared, PHYs up, ports reset, interrupts off and
\* the status unit on with the ring of this softc.
mskc_reset(d, n) ==
  LET c == msk_phy_power(clear_pci_errors([d EXCEPT !.up = TRUE]), "up") IN
  [c EXCEPT !.cfg = FALSE, !.err = {}, !.hwemsk = {}, !.imsk = {}, !.stat = n,
            !.port = [p \in Ports |-> [PortOff EXCEPT !.frames = c.port[p].frames]]]

\* PEX_RX_OV: an overflow that stays takes hardware errors out of the masks.
InitialMasks(overflow) ==
  [intr |-> {"stat"} \cup (IF overflow THEN {} ELSE {"hw_err"}),
   hwe |-> {"bus"} \cup (IF overflow THEN {} ELSE {"pci_exp"})]

\* msk_status_dma_alloc and msk_status_dma_free: an unmapped ring stays.
msk_status_dma_alloc(F) ==
  IF "ring" \in F THEN "none" ELSE IF "map" \in F THEN "unmapped" ELSE "mapped"
msk_status_dma_free(stat) == IF stat = "mapped" THEN "none" ELSE stat

\* mskc_attach_if: four buffers and mappings, then the PHY, which learns
\* of its medium only from what is recorded by then.  What the interface
\* had before is forgotten; it becomes active only at the end.
mskc_attach_if(i, F) ==
  LET fresh == [i EXCEPT !.lost = @ + i.held, !.held = 4] IN
  CASE "dma" \in F -> [i EXCEPT !.lost = @ + i.held, !.held = 2]
    [] "phy" \in F -> fresh
    [] OTHER -> [fresh EXCEPT !.phy = IF i.fiber THEN "fiber" ELSE "copper", !.active = TRUE]

\* mskc_stop_if: the port off, its masks too, and its counters read.
PortMask(p) == IF p = 0 THEN "L1" ELSE "L2"
PortIrq(p) == IF p = 0 THEN "A" ELSE "B"
msk_stats_update(r, n, p) ==
  [r EXCEPT !.drv.softc[n].if[p].stats = @ + r.dev.port[p].mib, !.dev.port[p].mib = 0]
mskc_stop_if(r, n, p) ==
  LET masked == [msk_stats_update(r, n, p) EXCEPT !.drv.softc[n].intrmask = @ \ {PortIrq(p)},
                    !.drv.softc[n].hwemask = @ \ {PortMask(p)}]
      sc == masked.drv.softc[n]
  IN [masked EXCEPT !.dev.imsk = sc.intrmask, !.dev.hwemsk = sc.hwemask,
        !.dev.port[p] = [PortOff EXCEPT !.ucf = @, !.frames = r.dev.port[p].frames]]

\* mskc_detach_if: what is active is stopped and freed.
mskc_detach_if(r, n, p) ==
  IF ~r.drv.softc[n].if[p].active THEN r
  ELSE [mskc_stop_if(r, n, p) EXCEPT !.drv.softc[n].if[p].held = 0,
          !.drv.softc[n].if[p].phy = "none", !.drv.softc[n].if[p].active = FALSE]

\* mskc_detach: interfaces, chip into reset, ring, timer, attributes.
Dropped(r, n, p) ==
  IF ~r.drv.softc[n].if[p].here THEN r
  ELSE [mskc_detach_if(r, n, p) EXCEPT !.drv.softc[n].if[p].here = FALSE]
mskc_detach(r, n) ==
  LET d == Dropped(Dropped(r, n, 0), n, 1) IN
  [d EXCEPT !.dev = [Reset EXCEPT !.err = {}],
     !.drv.softc[n].stat = msk_status_dma_free(@), !.drv.softc[n].timer = "none",
     !.drv.softc[n].attached = FALSE, !.drv.attrs = r.drv.softc[n].orig]

\* mskc_probe, MarvellYukonDriverSupported: the chips of the list, while
\* no driver has opened the device.
mskc_probe(chip) == chip.id # "other"
MarvellYukonDriverSupported(chip) ==
  IF drv.bound THEN "ALREADY_STARTED" ELSE IF mskc_probe(chip) THEN "SUCCESS" ELSE "UNSUPPORTED"

\* mskc_attach, first part: attributes, the registers' place and the chip.
\* An error takes the attributes back and frees the softc.  A descriptor
\* of another kind is no error, and leaves the place at 0.
Identified(chip, F) ==
  CASE "softc" \in F \/ "attributes" \in F -> "OUT_OF_RESOURCES"
    [] "enable" \in F -> "UNSUPPORTED"
    [] "bar" \in F \/ chip.bar \in {"prefetchable", "io", "none"} -> "NOT_FOUND"
    [] chip.id \in Refused \/ chip.bar = "odd" -> "DEVICE_ERROR"
    [] OTHER -> "SUCCESS"

\* mskc_attach, a port: a new interface; the medium is noted afterwards.
AttachPort(r, n, p, F) ==
  IF ~Ok(r) \/ p >= NumPort(r.drv.softc[n].chip) THEN r
  ELSE IF "if" \in F /\ p = NumPort(r.drv.softc[n].chip) - 1 THEN Error(r, "OUT_OF_RESOURCES")
  ELSE LET last == p = NumPort(r.drv.softc[n].chip) - 1
           i == mskc_attach_if([NoIf EXCEPT !.here = TRUE], IF last THEN F ELSE {})
       IN IF ~i.active
            THEN Error([r EXCEPT !.drv.softc[n].if[p] = i], "DEVICE_ERROR")
          ELSE [r EXCEPT !.drv.softc[n].if[p] = [i EXCEPT !.fiber = r.drv.softc[n].chip.fiber]]

\* mskc_attach, the end: a timer of a second.
AttachTimer(r, n, F) ==
  IF ~Ok(r) THEN r
  ELSE IF "timer" \in F THEN Error([r EXCEPT !.drv.softc[n].timer = "open"], "INVALID_PARAMETER")
  ELSE [r EXCEPT !.drv.softc[n].timer = "running", !.drv.softc[n].attached = TRUE]

\* mskc_attach, the softc with its ring; then the chip's reset and the ports.
WithRing(r, n, chip, F) ==
  [r EXCEPT !.drv.softc = Append(@, [Softc(chip) EXCEPT !.stat = msk_status_dma_alloc(F)]),
            !.drv.attrs = "enabled", !.dev.up = TRUE]
WithReset(r, n, m) ==
  [r EXCEPT !.drv.softc[n].intrmask = m.intr, !.drv.softc[n].hwemask = m.hwe,
            !.dev = mskc_reset(@, n)]
WithPorts(ring, n, overflow, F) ==
  IF ring.drv.softc[n].stat # "mapped" THEN Error(ring, "OUT_OF_RESOURCES")
  ELSE AttachTimer(AttachPort(AttachPort(WithReset(ring, n, InitialMasks(overflow)), n, 0, F),
                              n, 1, F), n, F)

\* mskc_attach: at "fail" all is detached, but the softc not freed.
OrDetached(end, n) ==
  IF Ok(end) THEN end
  ELSE Error([mskc_detach(end, n) EXCEPT !.drv.leaked = @ + 1], end.status)
mskc_attach(r, n, chip, overflow, F) ==
  IF Identified(chip, F) # "SUCCESS" THEN Error(r, Identified(chip, F))
  ELSE OrDetached(WithPorts(WithRing(r, n, chip, F), n, overflow, F), n)

(* ---------------------------- the driver binding ----------------------- *)

\* The list of handles and their softcs: 0 is the controller's, k a child's.
DataOf(d, handle) == {e \in d.data : e.handle = handle}
MarvellYukonAddControllerData(r, handle, n, F) ==
  IF DataOf(r.drv, handle) # {} THEN Error(r, "ALREADY_STARTED")
  ELSE IF "data" \in F THEN Error(r, "OUT_OF_RESOURCES")
  ELSE [r EXCEPT !.drv.data = @ \cup {[handle |-> handle, sc |-> n]}, !.status = "SUCCESS"]
MarvellYukonDelControllerData(d, handle) == [d EXCEPT !.data = @ \ DataOf(d, handle)]

\* InitializeSNPProtocol: the mode of a new interface.
InitializeSNPProtocol(p) ==
  [live |-> TRUE, port |-> p, snp |-> TRUE, child |-> TRUE, event |-> FALSE,
   state |-> "Stopped", setting |-> {}]

\* MarvellYukonDriverStart, one port: an interface with a handle of its
\* own.  When the child cannot be opened the interface is uninstalled from
\* the controller's handle, where it is not, and its memory freed.  An
\* error of the list is noticed only by the last port's status.
StartPort(r, n, p, F) ==
  LET k == Len(r.drv.kids) + 1
      kid == InitializeSNPProtocol(p)
      gone == [r EXCEPT !.drv.bound = FALSE, !.drv.kids = Append(@,
                 [kid EXCEPT !.live = FALSE, !.snp = FALSE, !.child = FALSE])]
      there == [r EXCEPT !.drv.kids = Append(@, kid)]
      listed == MarvellYukonAddControllerData(there, k, n, F)
  IN CASE r.over \/ p >= NumPort(r.drv.softc[n].chip) -> r
       [] "pool" \in F -> [Error(r, "OUT_OF_RESOURCES") EXCEPT !.over = TRUE]
       [] "path" \in F \/ "install" \in F ->
            [Error(gone, "OUT_OF_RESOURCES") EXCEPT !.over = TRUE]
       [] "child" \in F ->
            [Error(gone, "UNSUPPORTED") EXCEPT !.over = TRUE, !.drv.kids[k].snp = TRUE]
       [] ~Ok(listed) -> listed
       [] "event" \in F -> Error(listed, "OUT_OF_RESOURCES")
       [] OTHER -> [listed EXCEPT !.drv.kids[k].event = TRUE]

\* The list of the controller, which is new there, and the ports one by one.
Known(r, n, F) ==
  IF Ok(r) THEN MarvellYukonAddControllerData(r, 0, n, F \ {"data"}) ELSE r
Ended(r) == [drv |-> r.drv, dev |-> r.dev, status |-> r.status]
StartPorts(r, n, F) ==
  IF ~Ok(r) THEN r
  ELSE Ended(StartPort(StartPort([drv |-> r.drv, dev |-> r.dev, status |-> r.status, over |-> FALSE],
                                 n, 0, F \ {"second"}),
                       n, 1, IF "second" \in F THEN F ELSE {}))

MarvellYukonDriverStart(chip, n, overflow, F) ==
  IF "open" \in F THEN Error(State, "ACCESS_DENIED")         \* frees what it never had
  ELSE StartPorts(Known(mskc_attach([State EXCEPT !.drv.bound = TRUE], n, chip, overflow, F), n, F),
                  n, F)

\* MarvellYukonDriverStop, a child: only one that is stopped is taken away.
StopChild(d, k) ==
  IF DataOf(d, k) = {} \/ d.kids[k].state # "Stopped" THEN d
  ELSE [MarvellYukonDelControllerData(d, k) EXCEPT
          !.kids[k] = [@ EXCEPT !.live = FALSE, !.snp = FALSE, !.child = FALSE, !.event = FALSE]]
StopChildren(d, K) ==
  LET upTo[k \in 0 .. Len(d.kids)] ==
        IF k = 0 THEN d ELSE IF k \in K THEN StopChild(upTo[k - 1], k) ELSE upTo[k - 1]
  IN upTo[Len(d.kids)]

\* MarvellYukonDriverStop: the children, then the controller, also when a
\* child refused or was not named.
Detached(r, n) ==
  [r EXCEPT !.drv = [MarvellYukonDelControllerData(@, 0) EXCEPT !.softc[n].live = FALSE]]
Unbound(r) ==
  IF DataOf(r.drv, 0) = {} THEN Error(r, "NOT_FOUND")
  ELSE LET n == (CHOOSE e \in DataOf(r.drv, 0) : TRUE).sc IN Detached(mskc_detach(r, n), n)
MarvellYukonDriverStop(K) ==
  Unbound([State EXCEPT !.drv = [StopChildren(drv, K) EXCEPT !.bound = FALSE]])

(* ------------------------- an interface's user ------------------------- *)

\* msk_init, with what decides here: the port on, open to all packets.
msk_init(r, n, p) ==
  LET s == mskc_stop_if(r, n, p)
      up == [s EXCEPT !.drv.softc[n].intrmask = @ \cup {PortIrq(p)},
                      !.drv.softc[n].hwemask = @ \cup {PortMask(p)}]
      sc == up.drv.softc[n]
  IN [up EXCEPT !.dev.imsk = sc.intrmask, !.dev.hwemsk = sc.hwemask,
        !.dev.port[p] = [PortOff EXCEPT !.on = TRUE, !.frames = r.dev.port[p].frames,
                           !.ram = "RAMBUF" \in Flags(sc.chip)]]

\* ether_crc32_be, of which 6 bits are the hash: any function will do.
Hash(address) == address % 64

\* msk_rxfilter: the mode keeps what it had, so that the filter of
\* multicast stays on once it was, with fewer addresses or none.
msk_rxfilter(port, setting, list) ==
  LET hash == {Hash(a) : a \in list} IN
  CASE "promiscuous" \in setting -> [port EXCEPT !.ucf = FALSE, !.mcf = FALSE, !.hash = {}]
    [] "promiscuous_multicast" \in setting ->
         [port EXCEPT !.ucf = TRUE, !.mcf = TRUE, !.hash = (0 .. 15) \cup (32 .. 47)]
    [] OTHER -> [port EXCEPT !.ucf = TRUE, !.mcf = @ \/ hash # {}, !.hash = hash]

\* SnpReceiveFilters: only "unicast" is in the mask.  A list that is too
\* long or does not come with a change is refused or passed over.
ReceiveFilterMask == {"unicast"}
SnpReceiveFilters(kid, enable, disable, reset, list) ==
  LET new == (kid.setting \cup enable) \ disable IN
  CASE kid.state # "Initialized" -> "NOT_STARTED"
    [] ~(new \subseteq ReceiveFilterMask) -> "INVALID_PARAMETER"
    [] ~reset /\ Cardinality(list) > Max -> "INVALID_PARAMETER"
    [] new = kid.setting /\ ~reset /\ list = {} -> "UNCHANGED"
    [] "multicast" \in enable /\ (reset \/ list = {}) -> "INVALID_PARAMETER"
    [] OTHER -> "SUCCESS"

\* The calls that find out: all look at the state first, and none gives
\* what it is asked for; only SnpReset, which resets nothing, succeeds.
Checked(kid, status) ==
  CASE kid.state = "Initialized" -> status
    [] kid.state = "Stopped" -> "NOT_STARTED"
    [] OTHER -> "DEVICE_ERROR"
SnpMcastIpToMac(kid) == Checked(kid, "UNSUPPORTED")
SnpNvData(kid) == Checked(kid, "UNSUPPORTED")             \* NvRamSize is 0
SnpReset(kid) == Checked(kid, "SUCCESS")
SnpStationAddress(kid) == Checked(kid, "UNSUPPORTED")
SnpStatistics(kid, reset, size, table) ==
  Checked(kid,
    CASE size = "none" /\ ~table -> IF reset THEN "UNSUPPORTED" ELSE "SUCCESS"
      [] size = "none" -> "INVALID_PARAMETER"
      [] ~table \/ size = "zero" -> "BUFFER_TOO_SMALL"
      [] OTHER -> "UNSUPPORTED")

\* A call of an interface: what it refers to may be freed.
Usable(k) == drv.kids[k].snp /\ ~hist.exited /\ hist.calls < hist.max.calls
Wild(k) ==
  \/ ~drv.kids[k].live
  \/ \E e \in DataOf(drv, k) : ~drv.softc[e.sc].live
ScOf(k) == (CHOOSE e \in DataOf(drv, k) : TRUE).sc
Called == [hist EXCEPT !.calls = @ + 1]
Fault == hist.faults < hist.max.faults

Snp ==
  \E k \in DOMAIN drv.kids : Usable(k) /\
    IF Wild(k) THEN hist' = [Called EXCEPT !.wild = TRUE] /\ UNCHANGED <<drv, dev>>
    ELSE IF DataOf(drv, k) = {} THEN hist' = Called /\ UNCHANGED <<drv, dev>>
    ELSE LET n == ScOf(k)
             p == drv.kids[k].port
             Result(r, state) ==
               /\ drv' = [r.drv EXCEPT !.kids[k].state = state, !.kids[k].setting = {}]
               /\ dev' = r.dev
         IN \/ /\ drv.kids[k].state = "Stopped"                       \* SnpStart
               /\ \E F \in {{}} \cup (IF Fault THEN {{"dma"}, {"phy"}} ELSE {}) :
                    /\ drv' = [drv EXCEPT !.softc[n].if[p] = mskc_attach_if(@, F),
                                 !.kids[k].state = IF F = {} THEN "Started" ELSE "Stopped"]
                    /\ hist' = [Called EXCEPT !.faults = @ + Cardinality(F)]
               /\ UNCHANGED dev
            \/ /\ drv.kids[k].state = "Started" /\ hist' = Called     \* SnpInitialize
               /\ Result(msk_init(State, n, p), "Initialized")
            \/ /\ drv.kids[k].state = "Started" /\ Fault              \* no buffers
               /\ hist' = [Called EXCEPT !.faults = @ + 1]
               /\ Result(mskc_stop_if(msk_init(State, n, p), n, p), "Started")
            \/ /\ drv.kids[k].state = "Started" /\ hist' = Called     \* SnpStop
               /\ Result(mskc_detach_if(State, n, p), "Stopped")
            \/ /\ drv.kids[k].state = "Initialized" /\ hist' = Called \* SnpShutdown
               /\ Result(mskc_stop_if(State, n, p), "Started")

Filter ==
  \E k \in DOMAIN drv.kids : Usable(k) /\ ~Wild(k) /\ DataOf(drv, k) # {} /\
    \E enable, disable \in SUBSET {"unicast", "multicast"}, reset \in BOOLEAN,
       list \in SUBSET Addresses :
      LET s == SnpReceiveFilters(drv.kids[k], enable, disable, reset, list)
          p == drv.kids[k].port
          new == (drv.kids[k].setting \cup enable) \ disable
          given == IF reset THEN {} ELSE list
      IN /\ s \in {"SUCCESS", "INVALID_PARAMETER"} /\ drv.kids[k].state = "Initialized"
         /\ IF s = "SUCCESS"
              THEN /\ dev' = [dev EXCEPT !.port[p] = msk_rxfilter(@, new, given)]
                   /\ drv' = [drv EXCEPT !.kids[k].setting = new]
                   /\ hist' = [Called EXCEPT !.asked[p] = given]
              ELSE hist' = Called /\ UNCHANGED <<drv, dev>>

\* Such a call changes nothing; only one that succeeds is told of.
Enquire ==
  \E k \in DOMAIN drv.kids : Usable(k) /\ ~Wild(k) /\
    \E status \in {SnpMcastIpToMac(drv.kids[k]), SnpNvData(drv.kids[k]), SnpReset(drv.kids[k]),
                   SnpStationAddress(drv.kids[k])}
                 \cup {SnpStatistics(drv.kids[k], reset, size, table) : reset \in BOOLEAN,
                         size \in {"none", "zero", "enough"}, table \in BOOLEAN} :
      /\ hist' = IF status = "SUCCESS"
                   THEN [Called EXCEPT !.answered = @ \cup {drv.kids[k].port}] ELSE Called
      /\ UNCHANGED <<drv, dev>>

\* MarvellYukonNotifyExitBoot: an interface in use is shut down and
\* stopped; one that is only started refuses the shutdown and stays.
MarvellYukonNotifyExitBoot ==
  LET shut(r, k) ==
        IF ~r.drv.kids[k].event \/ r.drv.kids[k].state # "Initialized" THEN r
        ELSE LET n == ScOf(k)
                 p == r.drv.kids[k].port
             IN [mskc_detach_if(mskc_stop_if(r, n, p), n, p) EXCEPT
                   !.drv.kids[k].state = "Stopped"]
      upTo[k \in 0 .. Len(drv.kids)] == IF k = 0 THEN State ELSE shut(upTo[k - 1], k)
  IN /\ ~hist.exited /\ hist' = [hist EXCEPT !.exited = TRUE]
     /\ \A k \in DOMAIN drv.kids : drv.kids[k].event => DataOf(drv, k) # {} /\ ~Wild(k)
     /\ drv' = upTo[Len(drv.kids)].drv /\ dev' = upTo[Len(drv.kids)].dev

(* ------------------------------- errors -------------------------------- *)

\* msk_intr_gmac: overruns of a port's receive FIFO, underruns of the other.
msk_intr_gmac(d, p) == [d EXCEPT !.err = @ \ {<<"overrun", p>>, <<"underrun", p>>}]

\* msk_handle_hwerr: what a port shows is cleared, one kind after the other.
msk_handle_hwerr(d, p) == [d EXCEPT !.err = @ \ {e \in d.err : <<e[1], p>> = e /\ e \in PortErrors}]

\* msk_intr_hwerr: every error is cleared; a fatal one of the link is
\* taken out of the mask.  After a bus error writes to the configuration
\* space stay enabled, unless there is an error of the link, too.
msk_intr_hwerr(r, n) ==
  LET is(kind) == \E e \in r.dev.err : e[1] = kind
      bus == IF is("bus") THEN clear_pci_errors(r.dev) ELSE r.dev
      mask == r.drv.softc[n].hwemask \ (IF is("fatal") THEN {"pci_exp"} ELSE {})
      link == IF is("pex") \/ is("fatal")
                THEN [bus EXCEPT !.cfg = FALSE,
                        !.hwemsk = IF is("fatal") THEN mask ELSE @]
              ELSE bus
      rest == [link EXCEPT !.err = @ \ {e \in link.err : e[1] \in {"time", "pex", "fatal"}}]
      a == IF r.drv.softc[n].if[0].here THEN msk_handle_hwerr(rest, 0) ELSE rest
      b == IF r.drv.softc[n].if[1].here THEN msk_handle_hwerr(a, 1) ELSE a
  IN [r EXCEPT !.dev = b, !.drv.softc[n].hwemask = mask]

\* msk_intr: the FIFOs of the ports that are there, then the hardware errors.
msk_intr(r, n) ==
  LET if == r.drv.softc[n].if
      a == IF if[0].here THEN msk_intr_gmac(r.dev, 0) ELSE r.dev
      b == [r EXCEPT !.dev = IF if[1].here THEN msk_intr_gmac(a, 1) ELSE a]
  IN IF "hw_err" \in r.drv.softc[n].intrmask THEN msk_intr_hwerr(b, n) ELSE b

\* SnpReceive, and SnpGetStatus when the interrupt status is asked for: of
\* an interface in use, and for both ports.  mskc_tick looks only at the
\* status ring, so nobody else sees an error.
Poll ==
  \E k \in DOMAIN drv.kids :
    /\ drv.kids[k].snp /\ ~hist.exited /\ ~Wild(k) /\ DataOf(drv, k) # {}
    /\ drv.kids[k].state = "Initialized" /\ Signalled(dev) # {}
    /\ LET n == ScOf(k)
           r == msk_intr(State, n)
           seen == IF "hw_err" \in drv.softc[n].intrmask THEN BusErrors \X {0} \cup PortErrors
                   ELSE {}
       IN /\ drv' = r.drv /\ dev' = r.dev
          /\ hist' = [hist EXCEPT !.bus = @ \/ (r.dev.cfg /\ ~dev.cfg),
                        !.left = Signalled(r.dev) \cap (seen \cup QueueErrors)]

(* ---------------------------- specification ---------------------------- *)

Points == {"open", "softc", "enable", "bar", "ring", "map", "if", "dma", "phy", "timer",
           "pool", "path", "child", "data", "event"}

Started(r, F) ==
  /\ drv' = r.drv /\ dev' = r.dev
  /\ hist' = [hist EXCEPT !.starts = @ + 1, !.faults = @ + Cardinality(F),
        !.twice = @ \/ (\E e \in DataOf(drv, 0) : TRUE),
        !.dangling = @ \/ ("child" \in F /\ \E k \in DOMAIN r.drv.kids :
                              r.drv.kids[k].snp /\ ~r.drv.kids[k].live),
        !.told = [op |-> "start", status |-> r.status, faulty |-> F # {}]]
Start ==
  /\ ~hist.exited /\ hist.starts < hist.max.starts
  /\ \E chip \in Chips, overflow \in BOOLEAN, second \in BOOLEAN,
        F \in {{}} \cup (IF Fault THEN {{f} : f \in Points} ELSE {}) :
       /\ MarvellYukonDriverSupported(chip) = "SUCCESS"
       /\ second => F # {} /\ NumPort(chip) = 2
       /\ drv.softc # <<>> => chip = drv.softc[1].chip
       /\ Started(MarvellYukonDriverStart(chip, Len(drv.softc) + 1, overflow,
                                          F \cup (IF second THEN {"second"} ELSE {})), F)

Stopped(r) ==
  /\ drv' = r.drv /\ dev' = r.dev
  /\ hist' = [hist EXCEPT
       !.orphan = @ \/ (\E k \in DOMAIN r.drv.kids : r.drv.kids[k].snp /\ r.drv.kids[k].live),
       !.told = [op |-> "stop", status |-> r.status, faulty |-> FALSE]]
Stop ==
  /\ drv.bound /\ ~hist.exited
  /\ \E K \in SUBSET {k \in DOMAIN drv.kids : drv.kids[k].child /\ drv.kids[k].snp} :
       Stopped(MarvellYukonDriverStop(K))

\* An error of the hardware, and a frame that a port counts.
Happens ==
  \/ \E e \in Kinds :
       /\ dev.up /\ e \notin dev.err /\ Cardinality(dev.err) < hist.max.errors
       /\ dev' = [dev EXCEPT !.err = @ \cup {e}] /\ UNCHANGED <<drv, hist>>
  \/ \E p \in Ports :
       /\ dev.port[p].on /\ dev.port[p].frames < hist.max.frames
       /\ dev' = [dev EXCEPT !.port[p].mib = @ + 1, !.port[p].frames = @ + 1]
       /\ UNCHANGED <<drv, hist>>

Init ==
  /\ drv = [bound |-> FALSE, attrs |-> "original", softc |-> <<>>, data |-> {}, kids |-> <<>>,
            leaked |-> 0]
  /\ dev = Reset
  /\ \E max \in Bounds :
       hist = [max |-> max, starts |-> 0, calls |-> 0, faults |-> 0, asked |-> [p \in Ports |-> {}],
               twice |-> FALSE, dangling |-> FALSE, orphan |-> FALSE, wild |-> FALSE,
               bus |-> FALSE, left |-> {}, answered |-> {}, exited |-> FALSE,
               told |-> [op |-> "none", status |-> "none", faulty |-> FALSE]]

Next == Start \/ Stop \/ Snp \/ Filter \/ Enquire \/ MarvellYukonNotifyExitBoot \/ Poll \/ Happens

Spec == Init /\ [][Next]_vars

(* ------------------------------ properties ----------------------------- *)

\* A timer runs only for a softc that is attached, and the chip's status
\* unit writes only to a ring that is mapped (if_msk.c:1487, 1489): also
\* when attaching fails half-way or happens twice.
ChipIsOurs ==
  /\ \A n \in DOMAIN drv.softc : drv.softc[n].timer = "running" =>
       drv.softc[n].live /\ drv.softc[n].attached
  /\ dev.stat # 0 => drv.softc[dev.stat].stat = "mapped" /\ drv.attrs = "enabled"
  /\ \A p \in Ports : dev.port[p].on => dev.stat # 0

\* Nothing refers to memory that was freed, except an interface that a
\* Stop left behind because it was in use or not named
\* (DriverBinding.c:457), or that a failed Start uninstalled from the
\* wrong handle (DriverBinding.c:289).
NothingDangles ==
  /\ hist.wild => hist.orphan \/ hist.dangling
  /\ \A e \in drv.data : drv.softc[e.sc].live \/ hist.orphan
  /\ \A k \in DOMAIN drv.kids : drv.kids[k].event => drv.kids[k].live

\* A Start that succeeds has an interface for every port, known to the
\* list and shut down at the end, unless the list or the event of the
\* first port failed (DriverBinding.c:314).  A Stop that succeeds leaves
\* nothing of it, unless a child stayed.
Installed(n, p) ==
  \E k \in DOMAIN drv.kids :
    /\ drv.kids[k].port = p /\ drv.kids[k].live /\ drv.kids[k].snp /\ drv.kids[k].event
    /\ \E e \in DataOf(drv, k) : e.sc = n
StartsAndStops ==
  /\ hist.told.op = "start" /\ hist.told.status = "SUCCESS" /\ hist.told.faulty = FALSE =>
       \A e \in DataOf(drv, 0) : \A p \in 0 .. NumPort(drv.softc[e.sc].chip) - 1 :
         hist.calls = 0 => Installed(e.sc, p)
  /\ hist.told.op = "stop" /\ hist.told.status = "SUCCESS" /\ ~hist.orphan =>
       \/ hist.faults > 0
       \/ /\ ~drv.bound /\ drv.attrs = "original" /\ drv.data = {} /\ dev = Reset
          /\ \A n \in DOMAIN drv.softc : ~drv.softc[n].live /\ drv.softc[n].stat = "none"
          /\ \A n \in DOMAIN drv.softc : \A p \in Ports : drv.softc[n].if[p].held = 0

\* At the end of the boot services no interface that has its event goes on
\* receiving, and each keeps the counts of its frames.
QuietAtExit ==
  /\ hist.exited => \A k \in DOMAIN drv.kids :
       drv.kids[k].event => drv.kids[k].state # "Initialized"
  /\ \A n \in DOMAIN drv.softc : drv.softc[n].attached /\ hist.starts = 1 =>
       \A p \in Ports :
         drv.softc[n].if[p].stats + dev.port[p].mib = dev.port[p].frames

\* The PHY of a started interface knows its medium although it was first
\* attached before the medium was noted; what that took is lost, once.
MediumKnown ==
  \A k \in DOMAIN drv.kids : \A e \in DataOf(drv, k) :
    LET i == drv.softc[e.sc].if[drv.kids[k].port] IN
    drv.softc[e.sc].live =>
      /\ drv.kids[k].state # "Stopped" => (i.phy = "fiber") = drv.softc[e.sc].chip.fiber
      /\ hist.faults = 0 => i.lost <= 4

\* A poll clears every error that is signalled; the configuration space is
\* writable afterwards only because of a bus error (if_msk.c:2201).
ErrorsAreCleared == hist.left = {} /\ (dev.cfg => hist.bus)

\* The addresses of the last list pass the filter, and the queues in the
\* packet memory are apart, with levels inside them if there is enough.
FiltersAndQueues ==
  /\ \A k \in DOMAIN drv.kids :
       LET port == dev.port[drv.kids[k].port] IN
       drv.kids[k].live /\ drv.kids[k].state = "Initialized" /\ ~hist.orphan
         /\ hist.starts = 1 =>
         /\ drv.kids[k].setting \subseteq ReceiveFilterMask
         /\ \A a \in hist.asked[drv.kids[k].port] : port.mcf => Hash(a) \in port.hash
  /\ \A n \in DOMAIN drv.softc :
       LET chip == drv.softc[n].chip IN
       \A p \in Ports : LET s == msk_set_rambuffer(chip, p) IN
         "RAMBUF" \in Flags(chip) =>
           /\ s.q.rx.from < s.q.rx.to /\ s.q.rx.to <= s.q.tx.from /\ s.q.tx.from < s.q.tx.to
           /\ s.q.tx.to <= (p + 1) * chip.ram
           /\ chip.ram >= 24 => 0 <= s.ltpp /\ s.ltpp < s.utpp

=============================================================================
