------------------------------- MODULE Lan91x -------------------------------
(***************************************************************************)
(* Drivers/Net/Lan91xDxe: the Simple Network Protocol over a controller    *)
(* that keeps every packet in its own memory.  Its memory management unit  *)
(* (MMU) executes one command at a time; packets received and packets to   *)
(* be sent take their memory from the same pool.  Transmit copies the      *)
(* client's data, and GetStatus hands the buffer back from then on.  The   *)
(* registers lie in banks, of which the driver remembers the one selected. *)
(* Calls run at LAN91X_TPL, one at a time; the controller goes on          *)
(* meanwhile.                                                              *)
(***************************************************************************)
EXTENDS Integers, Sequences, SequencesExt

CONSTANTS
  Memory,      \* packet numbers of the controller's memory
  Hash,        \* byte and bit of the multicast table for each group address
  Bounds       \* bounds: packets sent (tx), packets that arrive (rx), calls that
               \* set filters and addresses, time-outs and failing allocations
               \* (faults), and the chips there may be

\* A chip: the bank selected at power-on, its address, the PHYs on its bus.
PartOK(part) ==
  /\ part.bank \in 0 .. 3 /\ part.mac \in Nat
  /\ DOMAIN part.phys \subseteq 0 .. 31

ConstantsOK ==
  /\ Memory \subseteq Nat \ {0}
  /\ \A a \in DOMAIN Hash : Hash[a] \in (0 .. 7) \X (0 .. 7)
  /\ \A m \in Bounds : /\ {m.tx, m.rx, m.calls, m.faults} \subseteq Nat
                       /\ \A part \in m.chips : PartOK(part)

VARIABLES
  drv,    \* LAN91X_DRIVER: the mode and the transmit queue
  nic,    \* the controller's memory management
  chip,   \* the controller's registers, and what the driver keeps of them
  call,   \* the Transmit call in progress
  hist    \* history

vars == <<drv, nic, chip, call, hist>>

Members(s) == {s[i] : i \in DOMAIN s}
NoPage == 0
NoCall == [pc |-> "idle", page |-> NoPage]
NoCommand == [op |-> "none", page |-> NoPage, pkt |-> 0]
Command(op) == [NoCommand EXCEPT !.op = op]

(* ------------------------------ registers ------------------------------ *)

\* MakeRegister: the bank of each register that decides something.
Bank == [TCR |-> 0, RCR |-> 0, CR |-> 1, IAR |-> 1, CTR |-> 1,
         MMUCR |-> 2, IST |-> 2, MT |-> 3, MGMT |-> 3, REV |-> 3]

\* Control registers are sets of bits, IAR an address, MT bits of the table.
PowerOn == [r \in DOMAIN Bank |-> IF r = "IAR" THEN 0 ELSE {}]

SelectIoBank(c, r) ==
  IF c.BankSel = Bank[r] THEN c
  ELSE [c EXCEPT !.bank = Bank[r], !.BankSel = Bank[r]]

\* An access reaches another register if another bank is selected.
Reach(c, r) == LET s == SelectIoBank(c, r) IN [s EXCEPT !.astray = @ \/ s.bank # Bank[r]]
ReadIoReg16(c, r) == Reach(c, r)
ReadIoReg8(c, r) == Reach(c, r)
WriteIoReg16(c, r, v) == [Reach(c, r) EXCEPT !.reg[r] = v]
WriteIoReg8(c, r, v) == [Reach(c, r) EXCEPT !.reg[r] = v]
ReadIoData(c) == ReadIoReg8(c, "IST")        \* DATA0 lies in the same bank
WriteIoData(c) == WriteIoReg8(c, "IST", {})

SetCurrentMacAddress(c) == WriteIoReg8(c, "IAR", c.Current)

\* The software reset keeps CR and the address; some parts lose the bank.
Reset(c) ==
  [c EXCEPT !.reg = [PowerOn EXCEPT !.CR = c.reg.CR, !.IAR = c.reg.IAR],
            !.bank = IF c.part.resetsBank THEN 0 ELSE @]

TCR_DEFAULT == {"TXENA", "PAD_EN"}
RCR_DEFAULT == {"STRIP_CRC", "RXEN"}

SoftReset(c) ==
  LET reset == Reset(WriteIoReg16(c, "RCR", {"SOFT_RST"}))
      config == WriteIoReg16(WriteIoReg16(reset, "RCR", {}), "CR",
                             {"EPH_POWER_EN", "NO_WAIT"})
      clear == WriteIoReg16(WriteIoReg16(config, "RCR", {}), "TCR", {})
  IN ReadIoReg16(WriteIoReg16(clear, "CTR", clear.reg.CTR \cup {"AUTO_REL"}), "MMUCR")

ChipEnable(c) ==
  WriteIoReg16(WriteIoReg16(c, "TCR", TCR_DEFAULT), "RCR", RCR_DEFAULT)
ChipDisable(c) == WriteIoReg16(WriteIoReg16(c, "RCR", {}), "TCR", {})

Sending == "TXENA" \in chip.reg.TCR
Receiving == "RXEN" \in chip.reg.RCR

(* ------------------------- the PHY, bit by bit ------------------------- *)

LAN91X_NO_PHY == -1
Absent == [ID1 |-> "ones", ID2 |-> "ones", STATUS |-> {}]   \* nobody drives MDI

\* Fields clocked out on MDO; what fits in the field is what goes out.
MdioOutput(wire, bits, value) ==
  Append(wire, [bits |-> bits, value |-> value % (2 ^ bits)])
Preamble == <<[bits |-> 32, value |-> -1]>>
READ == 2
WRITE == 1
PhyFrame(op, PhyAd, RegAd) ==
  MdioOutput(MdioOutput(MdioOutput(MdioOutput(Preamble, 2, 1), 2, op), 5, PhyAd), 5, RegAd)

\* A PHY answers to its own address.
Addressed(c, wire) ==
  IF wire[4].value \in DOMAIN c.part.phys THEN c.part.phys[wire[4].value] ELSE Absent

\* The turnaround, then sixteen bits of the register; MDIO is left idle.
MdioInput(c, wire, name) == Addressed(c, wire)[name]
MdioIdle(c) == WriteIoReg16(c, "MGMT", {})
PhyRegAd == [STATUS |-> 1, ID1 |-> 2, ID2 |-> 3]
ReadPhyReg16(c, PhyAd, name) == MdioInput(c, PhyFrame(READ, PhyAd, PhyRegAd[name]), name)

\* The registers written: control (a reset) and what is advertised.
WritePhyReg16(c, RegAd, value) ==
  LET wire == PhyFrame(WRITE, c.PhyAd, RegAd) IN
  IF wire[4].value \notin DOMAIN c.part.phys THEN MdioIdle(c)
  ELSE [MdioIdle(c) EXCEPT !.advert = IF RegAd = 4 THEN value ELSE {}]

\* From address 31 down; -1 is left when nobody answers.
IdOk(id) == id \notin {"zero", "ones"}
PhyDetect(c) ==
  LET found == {a \in 0 .. 31 : /\ IdOk(ReadPhyReg16(c, a, "ID1"))
                                /\ IdOk(ReadPhyReg16(c, a, "ID2"))}
  IN [MdioIdle(c) EXCEPT !.PhyAd = IF found = {} THEN -1
                           ELSE CHOOSE a \in found : \A b \in found : b <= a]

\* Both write nothing without a PHY; whether they time out is up to the PHY.
PhySoftReset(c) ==
  IF c.PhyAd = LAN91X_NO_PHY THEN c ELSE WritePhyReg16(c, 0, {"RESET"})
PhyAutoNegotiate(c) ==
  LET status == ReadPhyReg16(c, c.PhyAd, "STATUS") IN
  IF c.PhyAd = LAN91X_NO_PHY \/ "AUTO_CAP" \notin status THEN c
  ELSE WritePhyReg16(c, 4, {"CSMA"} \cup (status \ {"AUTO_CAP"}))
CheckLinkStatus(c) == MdioIdle(c)

Init ==
  /\ drv = [mode |-> "Stopped", MediaPresent |-> FALSE, TransmitQueue |-> <<>>]
  /\ nic = [free |-> Memory, txq |-> <<>>, rxq |-> <<>>,
            mmu |-> NoCommand, alloc |-> "none", arr |-> NoPage]
  /\ call = NoCall
  /\ \E max \in Bounds :
     /\ \E part \in max.chips :
          chip = [part |-> part, state |-> "new", bank |-> part.bank, BankSel |-> 255,
                  reg |-> PowerOn, astray |-> FALSE, PhyAd |-> LAN91X_NO_PHY,
                  advert |-> {}, Permanent |-> 0, Current |-> 0,
                  ReceiveFilterSetting |-> {}]
     /\ hist = [max |-> max, tx |-> 0, rx |-> 0, faults |-> 0, calls |-> 0,
                wanted |-> {},           \* groups asked for since a clear
                filtersLost |-> FALSE,   \* disabled with filters set
                good |-> {}, got |-> <<>>,
                pushed |-> {}, sent |-> <<>>, lost |-> {},
                late |-> FALSE,      \* a release was still busy after 100 polls
                leaked |-> {}]       \* memory granted to nobody

Idle == call.pc = "idle"
Fault == hist.faults < hist.max.faults

(* ----------------------- the memory management unit -------------------- *)

\* What a command does.  An allocation is granted later, when there is
\* memory; a grant nobody has fetched is forgotten.
Execute(n, c) ==
  LET done == [n EXCEPT !.mmu = NoCommand] IN
  CASE c.op = "alloc" -> [done EXCEPT !.alloc = "asked", !.arr = NoPage]
    [] c.op = "push" ->
         [done EXCEPT !.txq = Append(@, [page |-> c.page, pkt |-> c.pkt])]
    [] c.op = "pop" /\ n.rxq # <<>> ->
         [done EXCEPT !.rxq = Tail(@), !.free = @ \cup {Head(n.rxq).page}]
    [] OTHER -> done

\* Memory that the command loses.
Forgotten(n, c) == IF c.op = "alloc" THEN {n.arr} \ {NoPage} ELSE {}

\* The state once a command that was still busy is done.
Settled == Execute(nic, nic.mmu)

\* MmuOperation polls 100 times.  A command that takes longer is executed
\* all the same, later or before the next one.
MmuOperation(c, h) ==
  nic' = Execute(Settled, c)
    /\ hist' = [h EXCEPT !.leaked = @ \cup Forgotten(nic, nic.mmu)
                                      \cup Forgotten(Settled, c)]
MmuTimeout(c, h) ==
  /\ Fault
  /\ nic' = [Settled EXCEPT !.mmu = c]
  /\ hist' = [h EXCEPT !.leaked = @ \cup Forgotten(nic, nic.mmu),
                        !.faults = @ + 1, !.late = @ \/ c.op = "pop"]

(* -------------------------------- probe -------------------------------- *)

\* Probe: the signature of the bank register twice, a revision known, the
\* address from the EEPROM, a reset, and the PHY for what is newer than
\* the first revision of the 91C100.
ChipIds == 3 .. 9
CHIP_91100 == 7
Reloaded(c) == WriteIoReg16([c EXCEPT !.reg.IAR = c.part.mac], "CTR", {"RESERVED"})
GetCurrentMacAddress(c) ==
  LET s == ReadIoReg8(c, "IAR") IN
  [s EXCEPT !.Permanent = s.reg.IAR, !.Current = s.reg.IAR]
Probe(c) ==
  LET rev == ReadIoReg16([c EXCEPT !.BankSel = 255], "REV")
      c1 == SoftReset(GetCurrentMacAddress(Reloaded(rev)))
  IN IF ~c.part.sig \/ rev.bank # 3 \/ c.part.rev \div 16 \notin ChipIds
       THEN [rev EXCEPT !.state = "failed"]
     ELSE IF ~c.part.reload
       THEN [WriteIoReg16(rev, "CTR", {"RESERVED"}) EXCEPT !.state = "failed"]
     ELSE IF c.part.rev > CHIP_91100 * 16 THEN [PhyDetect(c1) EXCEPT !.state = "ready"]
     ELSE [c1 EXCEPT !.state = "ready", !.PhyAd = LAN91X_NO_PHY]

\* The protocol may fail to install: the driver's memory is freed.
Lan91xDxeEntry ==
  /\ chip.state = "new"
  /\ \/ chip' = Probe(chip) /\ UNCHANGED hist
     \/ /\ Fault
        /\ chip' = [Probe(chip) EXCEPT !.state = "failed"]
        /\ hist' = [hist EXCEPT !.faults = @ + 1]
  /\ UNCHANGED <<drv, nic, call>>

(* ----------------------------- start and stop -------------------------- *)

SnpStart ==
  /\ chip.state = "ready" /\ Idle /\ drv.mode = "Stopped"
  /\ drv' = [drv EXCEPT !.mode = "Started"]
  /\ UNCHANGED <<nic, chip, call, hist>>

\* The packets are left where they are; the receiver's filters are cleared.
FiltersGone(h) == [h EXCEPT !.filtersLost = @ \/ chip.ReceiveFilterSetting # {}]

SnpStop ==
  /\ Idle /\ drv.mode # "Stopped"
  /\ drv' = [drv EXCEPT !.mode = "Stopped"]
  /\ chip' = ChipDisable(chip) /\ hist' = FiltersGone(hist)
  /\ UNCHANGED <<nic, call>>

\* The mode stays Initialized.
SnpShutdown ==
  /\ Idle /\ drv.mode = "Initialized"
  /\ chip' = ChipDisable(chip) /\ hist' = FiltersGone(hist)
  /\ UNCHANGED <<drv, nic, call>>

\* SoftReset ends with the MMU's reset: all memory is free again.  It
\* reports success whatever MmuOperation returned.
MmuReset ==
  nic' = [free |-> Memory, txq |-> <<>>, rxq |-> <<>>,
          mmu |-> NoCommand, alloc |-> "none", arr |-> NoPage]
Cleared ==
  [FiltersGone(hist) EXCEPT !.leaked = {}, !.wanted = {},
     !.lost = @ \cup {nic.rxq[i].pkt : i \in DOMAIN nic.rxq},
     !.pushed = @ \ ({nic.txq[i].pkt : i \in DOMAIN nic.txq}
                       \cup {nic.mmu.pkt})]

\* SnpInitialize.  A PHY that does not come out of reset goes unnoticed:
\* the unsigned status is never below zero (Lan91xDxe.c:1130); one that
\* does not finish the negotiation is logged.
SnpInitialize ==
  /\ Idle /\ drv.mode = "Started"
  /\ MmuReset
  /\ chip' = WriteIoReg8(ChipEnable(PhyAutoNegotiate(PhySoftReset(SoftReset(chip)))),
                         "IST", {})
  /\ hist' = Cleared
  /\ drv' = [drv EXCEPT !.mode = "Initialized"]
  /\ UNCHANGED call

\* SnpReset: without the PHY the controller stays disabled.
SnpReset ==
  /\ Idle /\ drv.mode = "Initialized"
  /\ MmuReset
  /\ LET reset == PhySoftReset(SoftReset(chip)) IN
       \/ chip' = ChipEnable(reset) /\ hist' = Cleared
       \/ /\ Fault /\ chip.PhyAd # LAN91X_NO_PHY
          /\ chip' = reset
          /\ hist' = [Cleared EXCEPT !.faults = @ + 1]
  /\ UNCHANGED <<drv, call>>

(* ----------------------- filters and addresses ------------------------- *)

RcrBit == [PROMISCUOUS |-> "PRMS", PROMISCUOUS_MULTICAST |-> "ALMUL"]

\* The bit of the table that SnpReceiveFilters sets: of three bits each, two.
McastHashBit(a) == <<Hash[a][1] % 4, Hash[a][2] % 4>>

\* The other kinds of filter are not looked at.
SnpReceiveFilters ==
  /\ Idle /\ drv.mode = "Initialized" /\ hist.calls < hist.max.calls
  /\ \E mode \in DOMAIN RcrBit, reset \in BOOLEAN,
        Mfilter \in {{}, DOMAIN Hash} :
     \E Enable, Disable \in {{}, {mode}} :
       LET McastHash == IF reset THEN {}
                        ELSE chip.reg.MT \cup {McastHashBit(a) : a \in Mfilter}
           c1 == IF reset THEN chip ELSE ReadIoReg8(chip, "MT")
           c2 == IF reset \/ Mfilter # {} THEN WriteIoReg8(c1, "MT", McastHash) ELSE c1
           c3 == WriteIoReg16(ReadIoReg16(c2, "RCR"), "RCR",
                   (c2.reg.RCR \cup {RcrBit[f] : f \in Enable})
                                \ {RcrBit[f] : f \in Disable})
       IN /\ chip' = SetCurrentMacAddress([c3 EXCEPT
                       !.ReceiveFilterSetting = (@ \cup Enable) \ Disable])
          /\ hist' = [hist EXCEPT !.calls = @ + 1,
                       !.wanted = IF reset THEN {} ELSE @ \cup Mfilter]
  /\ UNCHANGED <<drv, nic, call>>

SnpStationAddress ==
  /\ Idle /\ drv.mode = "Initialized" /\ hist.calls < hist.max.calls
  /\ \E NewMac \in {chip.Permanent, chip.Permanent + 1} :
       chip' = SetCurrentMacAddress([chip EXCEPT !.Current = NewMac])
  /\ hist' = [hist EXCEPT !.calls = @ + 1]
  /\ UNCHANGED <<drv, nic, call>>

(* ------------------------------- transmit ------------------------------ *)

\* SnpTransmit asks for memory; the command itself may time out.
SnpTransmit ==
  /\ Idle /\ drv.mode = "Initialized" /\ drv.MediaPresent
  /\ hist.tx < hist.max.tx
  /\ LET h == [hist EXCEPT !.tx = @ + 1] IN
       \/ /\ MmuOperation(Command("alloc"), h)
          /\ call' = [NoCall EXCEPT !.pc = "alloc"]
       \/ MmuTimeout(Command("alloc"), h) /\ UNCHANGED call
  /\ chip' = ReadIoReg16(chip, "MMUCR")
  /\ UNCHANGED drv

\* IST_ALLOC is set: the packet number is in the result register.
AllocDone ==
  /\ call.pc = "alloc" /\ nic.alloc = "done"
  /\ call' = [pc |-> "push", page |-> nic.arr]
  /\ nic' = [nic EXCEPT !.alloc = "none", !.arr = NoPage]
  /\ UNCHANGED <<drv, chip, hist>>

\* EFI_TIMEOUT: the request stays with the controller.
AllocTimeout ==
  /\ call.pc = "alloc" /\ nic.alloc = "asked"
  /\ call' = NoCall
  /\ UNCHANGED <<drv, nic, chip, hist>>

\* ARR_FAILED: EFI_NOT_READY.
AllocFailed ==
  /\ call.pc = "alloc" /\ nic.alloc = "failed"
  /\ call' = NoCall
  /\ UNCHANGED <<drv, nic, chip, hist>>

\* The data are copied and the packet is released for transmission.  When
\* that times out, or when there is no memory for the queue entry (and the
\* TPL is not restored), an error is returned and the packet goes out.
Push ==
  /\ call.pc = "push"
  /\ LET c == [op |-> "push", page |-> call.page, pkt |-> hist.tx]
         h == [hist EXCEPT !.pushed = @ \cup {hist.tx}]
     IN \/ /\ MmuOperation(c, h)
           /\ drv' = [drv EXCEPT !.TransmitQueue = Append(@, hist.tx)]
        \/ MmuTimeout(c, h) /\ UNCHANGED drv
        \/ /\ Fault
           /\ MmuOperation(c, [h EXCEPT !.faults = @ + 1])
           /\ UNCHANGED drv
  /\ chip' = ReadIoReg16(WriteIoData(chip), "MMUCR")
  /\ call' = NoCall

\* SnpGetStatus: the oldest buffer, and the state of the link.
SnpGetStatus ==
  /\ Idle /\ drv.mode = "Initialized"
  /\ \E link \in BOOLEAN :
       drv' = [drv EXCEPT !.MediaPresent = link,
                 !.TransmitQueue = IF @ = <<>> THEN @ ELSE Tail(@)]
  /\ chip' = CheckLinkStatus(ReadIoReg8(chip, "IST"))
  /\ UNCHANGED <<nic, call, hist>>

(* ------------------------------- receive ------------------------------- *)

\* SnpReceive: the first packet of the FIFO; a bad one and one that is too
\* large for the client's buffer are dropped.  Whatever happened, the end
\* releases the packet, and nobody looks at whether that worked.
SnpReceive ==
  /\ Idle /\ drv.mode = "Initialized" /\ nic.rxq # <<>>
  /\ LET frame == Head(nic.rxq)
         taken == [hist EXCEPT !.got = Append(@, frame.pkt)]
         dropped == [hist EXCEPT !.lost = @ \cup {frame.pkt}]
     IN \E h \in IF frame.ok THEN {taken, dropped} ELSE {dropped} :
          MmuOperation(Command("pop"), h) \/ MmuTimeout(Command("pop"), h)
  /\ chip' = ReadIoReg16(ReadIoData(chip), "MMUCR")
  /\ UNCHANGED <<drv, call>>

(* ---------------------------- the controller --------------------------- *)

NicMmu ==
  /\ nic.mmu.op # "none"
  /\ nic' = Settled
  /\ hist' = [hist EXCEPT !.leaked = @ \cup Forgotten(nic, nic.mmu)]
  /\ UNCHANGED <<drv, chip, call>>

\* The packet number the controller picks; which one does not matter.
Page == CHOOSE n \in nic.free : TRUE

\* Memory is granted when there is some; some controllers refuse at once.
NicGrant ==
  /\ nic.alloc = "asked"
  /\ \/ /\ nic.free # {}
        /\ nic' = [nic EXCEPT !.alloc = "done", !.arr = Page, !.free = @ \ {Page}]
     \/ nic.free = {} /\ nic' = [nic EXCEPT !.alloc = "failed"]
  /\ UNCHANGED <<drv, chip, call, hist>>

\* CTR_AUTO_REL: the memory of a packet that was sent is free.
NicSend ==
  /\ Sending /\ nic.txq # <<>>
  /\ nic' = [nic EXCEPT !.txq = Tail(@), !.free = @ \cup {Head(nic.txq).page}]
  /\ hist' = [hist EXCEPT !.sent = Append(@, Head(nic.txq).pkt)]
  /\ UNCHANGED <<drv, chip, call>>

NicReceive ==
  /\ Receiving /\ hist.rx < hist.max.rx /\ nic.free # {}
  /\ \E ok \in BOOLEAN :
       /\ nic' = [nic EXCEPT !.free = @ \ {Page}, !.rxq = Append(@,
                    [page |-> Page, pkt |-> hist.rx + 1, ok |-> ok])]
       /\ hist' = [hist EXCEPT !.rx = @ + 1,
                    !.good = IF ok THEN @ \cup {hist.rx + 1} ELSE @]
  /\ UNCHANGED <<drv, chip, call>>

(* ---------------------------- specification ---------------------------- *)

Client ==
  \/ Lan91xDxeEntry \/ SnpStart \/ SnpStop \/ SnpInitialize \/ SnpReset \/ SnpShutdown
  \/ SnpReceiveFilters \/ SnpStationAddress
  \/ SnpTransmit \/ SnpGetStatus \/ SnpReceive
Work == AllocDone \/ AllocTimeout \/ AllocFailed \/ Push
Controller == NicMmu \/ NicGrant \/ NicSend \/ NicReceive
Next == Client \/ Work \/ Controller

\* A call polls on; the controller executes its command and sends.
Fairness == WF_vars(Work) /\ WF_vars(NicMmu) /\ WF_vars(NicSend)

Spec == Init /\ [][Next]_vars /\ Fairness

(* ------------------------------ properties ----------------------------- *)

Ascending(s) == \A i, j \in DOMAIN s : i < j => s[i] < s[j]
Used(s) == {s[i].page : i \in DOMAIN s}
Lone == {nic.arr, call.page, nic.mmu.page} \ {NoPage}

TypeOK ==
  /\ drv.mode \in {"Stopped", "Started", "Initialized"}
  /\ nic.free \subseteq Memory
  /\ nic.alloc \in {"none", "asked", "done", "failed"}
  /\ call \in [pc : {"idle", "alloc", "push"}, page : Memory \cup {NoPage}]

\* Every packet number is free, or in one FIFO, or on its way to one, or
\* was granted after its Transmit had given up: no memory is used twice
\* and, as long as no allocation is left unfetched, none is lost.
MemoryInStep ==
  LET parts == <<nic.free, Used(nic.txq), Used(nic.rxq), Lone, hist.leaked>>
  IN /\ UNION Members(parts) = Memory
     /\ \A i, j \in DOMAIN parts : i # j => parts[i] \cap parts[j] = {}
     /\ \A q \in {nic.txq, nic.rxq} :
          \A i, j \in DOMAIN q : i # j => q[i].page # q[j].page

\* A packet is sent once, in order, and none that was pushed disappears.
SentOnce ==
  /\ Ascending(hist.sent)
  /\ hist.pushed \subseteq Members(hist.sent) \cup {nic.mmu.pkt}
                            \cup {nic.txq[i].pkt : i \in DOMAIN nic.txq}

\* The bank that the driver remembers is the one selected, also after a
\* reset: no access ever reached another register.  The PHY is one that
\* answers, and what is advertised is what it can do.
RegistersReached ==
  /\ ~chip.astray
  /\ chip.state = "ready" => chip.BankSel = chip.bank
  /\ chip.PhyAd # LAN91X_NO_PHY => chip.PhyAd \in DOMAIN chip.part.phys
  /\ chip.advert # {} =>
       chip.advert \ {"CSMA"} \subseteq chip.part.phys[chip.PhyAd].STATUS

\* The filters asked for are in force.  Two exceptions: groups whose hash
\* lies beyond the first four bytes or bits of the table (the code masks
\* with 3, not 7: Lan91xDxe.c:1358), and the promiscuous modes, which a
\* reset or a shutdown ends while the setting stays.
FiltersInForce ==
  /\ chip.state = "ready" => chip.reg.IAR = chip.Current
  /\ \A a \in hist.wanted :
       Hash[a][1] > 3 \/ Hash[a][2] > 3 \/ Hash[a] \in chip.reg.MT
  /\ \A f \in DOMAIN RcrBit :
       /\ RcrBit[f] \in chip.reg.RCR => f \in chip.ReceiveFilterSetting
       /\ f \in chip.ReceiveFilterSetting => RcrBit[f] \in chip.reg.RCR \/ hist.filtersLost

RingsInStep ==
  TypeOK /\ MemoryInStep /\ SentOnce /\ RegistersReached /\ FiltersInForce

\* Good packets reach the client once and in order, and each was received,
\* waits, or was dropped with an error or by a reset, unless a release was
\* still busy when the call returned.
ReceivedInOrder ==
  ~hist.late =>
    /\ Ascending(hist.got)
    /\ Members(hist.got) \subseteq hist.good
    /\ hist.good \subseteq Members(hist.got) \cup hist.lost
                            \cup {nic.rxq[i].pkt : i \in DOMAIN nic.rxq}

\* Transmit returns, and what it pushed is sent while the chip is enabled:
\* MCNet states that the first of each pair leads to the second.
Busy == call.pc # "idle"
Pushed(p) == p \in hist.pushed
Gone(p) == p \in Members(hist.sent) \/ p \notin hist.pushed \/ ~Sending

=============================================================================
