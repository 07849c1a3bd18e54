# OpenPlatformPkg: TLA+ models

OpenPlatformPkg is a package of UEFI drivers, libraries and board support for
ARM platforms (Marvell, Hisilicon, AMD Styx, ARM Juno).  There is no central
program: the package is a set of drivers, each with its own state, called by
UEFI firmware through protocols, by timer events at a task priority level
(TPL), and watched by hardware that answers late, wrongly or not at all.  The
models follow that structure: one module per driver, the hardware and the
callers as external actions, the drivers' interaction as shared media (the
flash under the firmware volume driver, the request queue between client and
controller).

UEFI runs one processor without threads, but code at a higher TPL preempts code
at a lower one at any point: timer callbacks run between two statements of
whatever has a lower TPL.  That, retries against hardware, power loss between
two flash accesses, and long legal call sequences are what is hard to test.

## Inventory

Each component: its state; its operations; how it interacts; what is hard; what
makes it correct.  `PROJECT.json` lists the source files of each and says whether
it is modelled, partly or not.

### SD/MMC hosts

* **XenonDxe** (`SdMmcPciHcDxe.c`, `SdMmcPciHci.c`).  State: a private structure
  per controller with the queue of asynchronous requests (TRBs) and per-slot card
  state.  Operations: PassThru (synchronous, or queued when an event is given),
  ResetDevice, DriverBinding Start/Stop; a timer every ms (TPL_NOTIFY) advances the
  TRB at the head of the queue; a second timer (TPL_CALLBACK, removable slots)
  enumerates inserted and removed cards and sends commands itself.  Hard:
  PassThru at three TPLs against both timers, timeouts while the controller goes on
  working, Stop with a non-empty queue, the controller being one shared resource.
  Correct when: answered in order and once, the controller never works for a freed
  request, buffers are mapped as long as the controller may use them, success is
  reported of what happened, everyone is answered.
* **DwMmcHcDxe** (`DwMmcHcDxe.c`, `DwMmcHci.c`).  The same protocol over the
  DesignWare controller, whose internal DMA takes one descriptor list at a time;
  command and data are one step; a FIFO path and the SD and eMMC variants differ
  in error handling.  Hard: the descriptor base is a register, loaded when a TRB is
  *created*; reset of the device while a command runs.
* **Card identification** (`SdDevice.c`, `EmmcDevice.c` of both hosts, with
  `XenonSdhci.c` and the register routines).  State: the card's state machine and bus
  settings on one side, the host's width, timing, clock and voltage on the other.  Hard:
  a dozen commands, any of which may fail or be answered by a card that is gone.
  Correct when card and host agree on width, data rate and clock at the end, and
  are switched in an order in which they never disagree while data move.
* **DwEmmcDxe**: the older eMMC host.  State: one pending command for the whole
  driver, a chain of DMA descriptors.  Correct when an answer is that of its own
  command and data move as asked.

### Flash, firmware volumes, disks

* **NorFlashDxe**.  State: the table of the chip and its base `gIndex.Base`, the
  flash.  Operations Erase, Write, Read of any byte range: Write programs only when
  bits go from 1 to 0, otherwise saves the sector, erases and programs it back.
  Hard: two parallel chips, retries, ranges over sectors and the end of the chip,
  power loss between erase and write-back.
* **FlashFvbDxe** over HISI_SPI_FLASH_PROTOCOL.  State: Initialized, the region,
  its RAM shadow none.  Operations: FvbRead, FvbWrite, FvbEraseBlocks (a list),
  Block I/O write.  The first access validates the volume header and formats the
  region if it is invalid.  Hard: formatting interrupted or failing half way, list
  verification before erasing, read-modify-write of blocks.
* **StyxSpiFvDxe**: a RAM copy beside the device behind the secure processor.
  Correct when both change alike.
* **MvSpiDxe, MvSpiFlash, the `sf` and `fupdate` commands**: pages, a bank register,
  status polling, read-modify-write of erase blocks, files of the shell.  Hard: an
  update interrupted between erase and write, a time-out that leaves the chip
  selected, the units of banks and pages at their edges.
* **SasV1Dxe**: delivery and completion queues, slots; a call is not protected
  against a second one from a timer.  **DwUfsHcDxe**: two ends of a link switched by
  commands whose errors are not passed on; a binding that must hold what it reports.
* **Fastboot platform drivers** (HiKey, HiKey960, Poplar) with the **serial number
  library**: a list of partitions made from a table on the disk (GPT, or MBR with a
  chain of extended records); correct when a write stays inside its partition and the
  list is that of the disk.  **RAM disk**: size and format from load options.

### USB device side

* **DwUsb3Dxe**.  State: `gPcd` with the control endpoint's phase, the
  endpoints' transfer descriptors, features and halts, `mDataBufferSize` (what is left
  of a download).  Operations: Start, Send, Request; a periodic timer (TPL_CALLBACK)
  polls the event buffer and drives everything.  Interacts with the fastboot
  application through a receive callback which itself calls Request and Send.  Hard:
  events of an abandoned phase, bus reset in the middle, the size arithmetic of a
  download, Send timing out after which the host reads all the same.
* **DwUsbDxe**: the same for the USB 2 core, with its own parser of
  `download:` and one descriptor for both IN endpoints.

### Network

Three drivers of EFI_SIMPLE_NETWORK_PROTOCOL (SNP).  Each keeps the mode (Stopped,
Started, Initialized) and a queue of the client's buffers to hand back; the client
calls Start, Initialize, Transmit, GetStatus, Receive, Reset, Shutdown, Stop.

* **MarvellYukonDxe** (`Snp.c`, `if_msk.c`).  State: rings of transmit
  descriptors, receive descriptors and status events shared with the controller, a
  queue of packets waiting for the ring, of buffers to hand back and of packets
  received.  A timer of one second handles the status events.  The calls and the timer
  run at TPL_CALLBACK, so they exclude each other; the controller goes on between any
  two of their steps.  Hard: three rings with their own indices, packets of one or two
  descriptors, an allocation failing half way through, Shutdown with events in the ring.
  Correct when: the indices of both sides delimit the same descriptors, each
  descriptor in use has its buffer mapped, packets arrive once and in order.
  Its binding (`DriverBinding.c`) makes a child handle for each of two ports and takes
  all back; `e1000phy.c` negotiates the link.
* **Pp2Dxe**.  State per port: contexts, completion queue, receive index;
  shared by the ports: the aggregated transmit queue, the buffer pool and the memory
  of the descriptor rings, the parser's table with its shadow.  Transmit polls twice
  with a limit.  Hard: the ports' shared memory, time-outs after which the packet is
  still in the hardware, an Initialize that fails half way, table entries that overlap.
* **Lan91xDxe**.  State: the transmit queue, the selected register bank; packets live in
  the chip's memory, managed by a unit that executes one command at a time.  Hard:
  commands that time out and are executed later, memory taken and not given back,
  registers of another bank.
* **MvMdioDxe, MvPhyDxe**: register accesses that may fail unseen, the link.

### Buses, clocks, input

* **PciHostBridgeDxe** (Hisilicon).  State: root bridges with a node per type of
  resource, the GCD's allocations, a configuration table.  The enumerator submits,
  adjusts and retries.  Correct when nodes are what the GCD gave, and what is proposed
  fits.  `PciRootBridgeIo.c` reaches devices through address windows; copying, polling,
  narrow writes of wide registers, DMA mappings.
* **PcieInitDxe / PcieInit1610**: ports reset, clocked, programmed, trained; two register
  windows; waits; a cure for a hang of Gen3 training.
* **MvI2cDxe, MvEeprom, `eeprom`**: masters that come up, slaves that are enumerated, an
  EEPROM driver that binds and stops, phases of a request on a bus where a slave may not
  acknowledge.  **I2CLib** (Hisilicon): FIFOs polled a limited number of times.
* **Real-time clocks**: `VirtualRealTimeClockLib` (a counter, a difference, variables that
  survive a reset), two DS3231 libraries (registers read one by one; a bus shared with the
  management controller), `EfiTimeBaseLib`.
* **VirtualKeyboardDxe**: two queues, a list of registrations walked with the TPL
  lowered while functions register, unregister and read.

### Boards and tables

* **Marvell platform libraries**: ComPhy (SerDes lanes), UTMI PHY, pins, the boards'
  lists, registration of built-in controllers.
* **Board drivers** of HiKey, HiKey960 and Poplar: clocks, resets and supplies in an order
  that matters, version, USB PHY, kernel arguments, slots.
* **Device trees and DSDT**: what is patched into the tables handed to the operating
  system, with fallbacks when a step fails.
* Serial ports, boot managers, SMBIOS, ACPI sources, SoC set-up, the Renesas loader and
  Styx start-up are listed in `PROJECT.json` with the reason why they are left out.

## Modules

| Module | Models | Checked in |
|---|---|---|
| `AsyncPassThru` | abstract: what a client is promised of asynchronous requests (a FIFO whose head is answered; flushed by reset) | refined by both SD/MMC modules |
| `XenonPassThru` | XenonDxe: requests, timers, binding | directly, by `xenon_app.cfg`, `xenon_nested.cfg`, `xenon_success.cfg` |
| `DwMmcPassThru` | DwMmcHcDxe: requests, timers, binding | directly, by `dwmmc.cfg`, `dwmmc_buffer.cfg` |
| `SdMmcCard` | external: an SD or eMMC card, and how a routine of commands runs | extended by the next two |
| `XenonCard`, `DwMmcCard` | card identification, clock and bus set-up of the two hosts | `MCStorage` |
| `DwEmmc`, `SasV1`, `DwUfsHc` | the older eMMC host, the SAS and the UFS controller | `MCStorage` |
| `MvSpiFlash` | MvSpiDxe, MvSpiFlash, `sf` and `fupdate` | `MCStorage` |
| `StyxSpiFv` | StyxSpiFvDxe | `MCStorage` |
| `Fastboot` | the three fastboot platform drivers, UsbSerialNumberLib | `MCStorage` (three instances) |
| `RamDisk` | the RAM disk | `MCStorage` |
| `NorFlash` | NorFlashDxe | directly, by `nor_flash.cfg`, `nor_base.cfg` |
| `FlashFvb` | FlashFvbDxe and its flash | directly, by `flash_fvb.cfg` |
| `DwUsb3` | DwUsb3Dxe, host, fastboot application | directly, by `dw_usb3.cfg` |
| `SimpleNetwork` | abstract: what a client of SNP is promised (the states; buffers handed back once, in order) | refined by the next three |
| `Yukon`, `Pp2`, `Lan91x` | the three network drivers and their controllers | `MCNet` |
| `YukonBinding` | DriverBinding.c, attaching, filters, hardware errors, exit of boot services | `MCPlatform` |
| `Pp2Port` | set-up and halt of PP2's ports, MACs, pools and classifier | `MCPlatform` |
| `Pp2Parser` | PP2's header parser and its shadow table | `MCPlatform` |
| `NetPhys` | the PHYs: e1000phy.c with the MAC it drives; MvMdioDxe with MvPhyDxe | `MCPlatform` (one instance, either driver) |
| `PciHostBridge`, `PciRootBridgeIo` | resource phases; accesses, polls, DMA | `MCPlatform` |
| `PciePortInit` | PcieInitDxe (Pv660) and PcieInit1610 | `MCPlatform` (two instances) |
| `MvI2c`, `HisiI2c` | the Marvell I2C master with EEPROM; the Hisilicon I2C library | `MCPlatform` |
| `DwUsb2` | DwUsbDxe, host, fastboot application | `MCPlatform` |
| `VirtualKeyboard` | VirtualKeyboardDxe | `MCPlatform` |
| `Clocks` | VirtualRealTimeClockLib, EfiTimeBaseLib's calendar, the two DS3231 libraries | `MCPlatform` (two instances: the bus alone with the virtual clock, a shared bus) |
| `ArmadaBoard` | the Marvell platform libraries: ComPhyLib's lanes; UTMI PHY, pins, lists and PCI emulation | `MCPlatform` (one instance, either of the two) |
| `Boards` | HiKeyDxe, HiKey960Dxe, PoplarDxe with their USB and MMC drivers | `MCPlatform` |
| `DeviceTree` | FdtDxe, UpdateFdtDxe with both FdtUpdateLibs, EthMac.c | `MCPlatform` |
| `XenonPassThru_proofs`, `DwMmcPassThru_proofs`, `NorFlash_proofs`, `FlashFvb_proofs`, `DwUsb3_proofs`, `Lan91x_proofs`, `Yukon_proofs`, `Pp2_proofs` | theorems about the modules they are named after | - |

The map of `PROJECT.json` from definitions to lines lists those that carry the state changes
and cover the most source, not every helper.

How state and actions correspond to the code:

* **XenonPassThru.**  `queue`, `started`, `status` are `Private->Queue`,
  `Trb->Started`, `Packet->TransactionStatus`; `maps` the DMA mappings; `bus`,
  `irq` the controller.  Threads are priority levels: a client at TPL_APPLICATION,
  one at TPL_CALLBACK and the enumeration; a step of a lower thread happens only
  when no higher one is in the middle of a call, and the queue timer
  (`TickRefuse`, `TickExec`, `TickCheck`: ProcessAsyncTaskList with its two halves)
  comes between any two steps.  A synchronous call is `PassThru`, `CreateTrb`, wait
  for the queue, `WaitTrbEnv`, exec, command, result - the places where the code
  releases its TPL.  `Stop`, `StopAbort`, `StopFree` are the loop of
  DriverBindingStop; `Enumerate*` the card events.
* **DwMmcPassThru.**  The same skeleton; `dbaddr` is the descriptor list the
  controller would use, set by create; `bus` is the command in execution; the data
  a buffer holds is a model value naming whose data it is.
* **XenonCard, DwMmcCard.**  A routine of the source that sends commands is a
  sequence of steps: a command to the card, a setting of the host, or a choice
  from what the card said.  `dev` is the card, with the state machine of the SD and
  eMMC specifications, and `drv` the host with the routine's position; each command may
  fail, and the card may be another at the next start.
  `drv.slots` answers the questions of the pass-through protocol about slots and device
  paths; Xenon's `BuildAdmaDescTable` covers a buffer with lines of at most `LineMax`.
* **NorFlash.**  Flash is an array of words, a word the set of its cleared bits, so
  that programming is union and erasing is the empty set.  One action per command
  to the chip, each with a nondeterministic extent (all, none or a part of its
  words), so that failure and power loss between any two of them are behaviours.
* **FlashFvb.**  The region, blocks of slots, beside blocks that are not the
  driver's; one action per call of the SPI protocol, which may fail or be
  interrupted; restart clears the RAM state.  A Block I/O write of several blocks, one call
  of that protocol, takes a step for each block, after any of which it may fail.
* **MvSpiFlash.**  `drv` holds the stack of routines with what is left of each, one
  transaction on the bus is a step; the shell's commands are a call on top of
  them, with the files and parameters they were given.  `StyxSpiFv`, `Fastboot`
  and `RamDisk` have calls of the protocol as actions; a write may stop after any
  block.
* **SasV1, DwEmmc, DwUfsHc.**  `drv` is the driver, `dev` the controller with its
  device, `hist` what was asked.  A call waits in named steps, and a nested call (from a
  timer's callback) runs to its end at any of them, as the TPLs allow.
* **DwUsb3.**  `dev` is `gPcd` with the controller's descriptors, the handlers are
  operators on it; one poll handles all pending events, as in the code.  `snd` is
  the running Send, `host` and `app` are external.  `DwUsb2` likewise, `CheckInterrupts`
  being one action.
* **Yukon, Pp2, Lan91x.**  In each, `drv` is the driver's context with the SNP mode,
  `nic` the controller, `call` the call (or timer tick) in progress, `hist` a history: what was
  sent and received, and a flag for each known way to lose something.  A call that
  waits for nothing is one action; `msk_handle_events`, the polling loops of PP2's Transmit and
  those of LAN91x's allocation are split where the controller can come between.  Packets
  are numbers.  `chip` holds LAN91x's register banks, its PHY and the bits of the
  management interface.
* **The modules of MCPlatform.**  `drv` is the driver, `dev` what it programs, `call`
  the call in progress where calls nest, `hist` what was asked of it and the flags for
  known causes.  A register whose order matters is the set of its bits that are set;
  a routine that waits is split at its waits; one that does not is an action.  `VirtualKeyboard`
  has the walk over the registrations split at every release of the TPL.

## Runs

`storage`, `platform` and `net` are bundles: `MCStorage`, `MCPlatform` and `MCNet`
choose at Init which component, or instance of one, the behaviour is of, and a
property is the conjunction of its clauses (`XenonCard => X!IdentifiedBus /\ ...`).
The clauses are definitions of the components' modules, each with its comment
there.  Lengths, queues and call counts are bounded as follows; every bound is a
constant of the module (`Max...`, `Bounds`) or the scenario set of the MC module.

| Run | Question | Bounds |
|---|---|---|
| `xenon_app` | clients at one TPL, embedded card, any command may time out, Stop at any time: order, exclusiveness, own mapped buffers, honest success, the inductive invariant of the proofs (`SafetyInv`), refinement of `AsyncPassThru` with fairness, everyone answered | 2 async + 1 sync request, one start |
| `xenon_nested` | a client at TPL_CALLBACK and a removable card: queue and mappings stay consistent | 1 async at TPL_CALLBACK + 1 sync, one removal/insertion pair, one start |
| `xenon_success` (violated) | "The TRB is executed successfully" of SdMmcCheckTrbResult | 2 async + 1 sync request |
| `dwmmc` | both card types, both TPLs, errors, ResetDevice, Stop: order, mappings, synchronous calls alone (all in `SafetyInv`, the inductive invariant of the proofs), bus ownership, data in its own buffer, errors reported | 2 + 2 requests |
| `dwmmc_buffer` (violated) | a sync request created beside a queued one reloads DBADDR | 2 + 2 requests at one TPL |
| `nor_flash` | every Erase/Write of a small flash, partial commands, power loss, no memory; `SectorsAtRisk` holds the inductive invariant of the proofs | 2 chips of 2 blocks of 4 words, one call |
| `nor_base` (violated) | Read returns what Write wrote | one chip |
| `flash_fvb` | sequences of calls with failures, power loss, restarts; `RequestsChecked` includes what a running call and a formatting rely on, so that the properties together are inductive | 2 + 2 blocks of 2 slots, Block I/O requests of up to two blocks, 2 calls, 2 faults |
| `dw_usb3` | enumeration, control transfers, features and halts, aborts, resets, downloads of many sizes, slow hosts; the four invariants together are the inductive invariant of the proofs | 2 resets, 2 requests, 1 abort, 2 downloads |
| `net` | each network driver: rings and queues of the two sides in step, good packets received once and in order, refinement of `SimpleNetwork`, packets move on | Yukon: rings of 6 transmit (3 reserved), 2 receive, 4 status entries; 3 packets out, or 3 in with a fault, or one each way with two Initialize.  PP2: two ports, 2 receive descriptors, 2 pool buffers, 2 aggregated entries; 3 packets out, or 2 out where a port's initialization may fail, or 3 in.  LAN91x: memory of 2 packets; 3 out and 1 in, or 2 out or 1 and 2 with one fault; or 7 kinds of chip with two calls and one fault |
| `storage` | card and host (and both ends of the UFS link) agree, commands keep slots, descriptors and answers apart, flashes and disks hold what calls reported, every routine ends | 8 cards by 5 hosts (Xenon) or 4 (DesignWare), 2 starts, 1 fault, slots 0 to 3; 5 transfers of up to 11 units, in lines of 4, around a limit of 16; SAS: 2 queues of 2 slots, 5 calls, 3 phys; UFS: 3 starts or 3 calls, 2 faults; SPI: flash of 2 banks of 2 erase blocks of 2 pages, 2-3 calls, a time-out or a power failure; Styx: 2 blocks, 2 writes, 1 erase, 1 fault, 1 reset; fastboot: 9-11 blocks, two tables, 2 calls, 1 fault; RAM disk: every size from 0 to 513 with a limit of 128 |
| `platform` | the buses, input, clock, link and board drivers: their records agree with the hardware, results are true, calls end | in each instance, see `MCPlatform.tla`: 1-5 calls, 1 fault, 1-2 changes of the hardware |

Why these bounds are enough: with two queued requests and a synchronous one, head,
non-head, empty queue and queue behind a running request all occur, and nothing in
the code counts beyond that; a second card event or start would repeat the first
from the same state.  A NOR flash of two blocks per chip and two chips has a
range inside a block, across blocks, and at and across the chip's end; the driver
keeps no state between calls but `gIndex.Base`, whose move is a separate
property.  Two FVB calls with two faults contain the interrupted formatting
followed by its repetition; the only state that survives is the flash and the
Initialized flag.  The USB sizes include each side of each chunk boundary.
Each network ring is shorter than the number of entries the packets of its scenario use, so that
it wraps around and fills; a packet above 4 GB takes two descriptors; the chip's memory
runs out.  The scenarios separate many packets sent from many received because the two
paths of a driver share only the status ring, the pool or the memory, which the
mixed scenarios cover.
The cards and hosts of the identification are one of each branch of the code: every
bus a card and host can agree on, and each that only one of them has; a second start
meets what the first left.  SAS's five calls with two failed mappings use up the slots;
its nested call runs inside another at every step.  The ranges of the SPI flash begin
and end inside, at and across a page, an erase block and a bank.  The partition tables
hold a good, an inverted and an extended entry.  The set-up routines (PCIe, ComPhy,
Armada, boards, device trees) keep nothing between one port, lane or table and
the next but what the instances have: two or three ports of which one fails, two chips,
a missing node.  The calendar is walked day by day through the years after 1970, around
2000 and around 2100; clocks are started shortly before the ends of a year and of
February.

The bundles take up to five minutes each, most of it for coverage and liveness: 272,000
states for `net`, 381,000 for `storage`, 468,000 for `platform`.  `flash_fvb` has 1,194,000.

Deadlock is checked for the NOR flash only.  Elsewhere a behaviour really may end: a stopped
driver that is not started again within the bounds (SD/MMC), a client with no more calls
(FVB, and every bundle), a host that has nothing more to send (USB), and for PP2 a null
pointer: Receive on a port that was never opened, or Transmit after a failed Initialize that
nevertheless leaves the mode Initialized.
Waiting for each other is excluded by the liveness properties (requests are answered,
transfers and downloads complete, packets move, routines and calls end); a call of FVB
waits for nothing.

What the passing runs show, property by property, is the comment above the
definition in the module.  The ones with most content:

* `AnsweredInOrder` (Xenon; DwMmc as a part of `SafetyInv`): the sequence of accepted requests is the sequence
  of signalled ones followed by the queue, in every interleaving of timer, reset,
  card removal and Stop.  `TransferOwnsBuffer`, `AnsweredIsOffTheBus`: no DMA into a
  buffer given back - for DwMmc as long as nobody submits in the middle of another
  call.  `SuccessIsEarned` names the only three causes of an unearned success.
* `BusesAgree`: after an identification, whatever failed on the way, card and host have
  the same width, data rate and tuning, at a clock the card takes (`IdentifiedBus`), and the
  switches come in an order that never lets them disagree while data move
  (`SwitchedInOrder`), except for the causes listed below.  `LinkAsSet` and `BoundAsHeld`
  say the same of the UFS link and of what its binding holds.
* NOR `SuccessMeansDone`: EFI_SUCCESS means exactly the range has the new contents
  and everything else what it had, in spite of retries; `SectorsAtRisk`: at any cut of
  power at most the sector in work has lost its contents.
* FVB `NoStaleUnderHeader`: however formatting is interrupted, no valid header is
  ever over contents of the foreign volume.  `AckedSurvives`: acknowledged writes
  survive everything but their own replacement.
* `FlashIsTrue`: for the SPI flash, nothing outside the blocks of a call changes and a
  success without a time-out means the contents are there (`NothingElseTouched`,
  `SuccessMeansDone`), also through the shell's command (`CommandIsHonest`); the Styx copy is
  the flash (`CopyIsTrue`); fastboot writes only inside the partition named, and its list is
  that of the disk (`Confined`, `ListIsOfDisk`).
* `CommandsKeptApart`: a SAS command's slot is its own until it ends, its answer its
  own; nothing is left behind by Stop; data of the older eMMC host go where asked.
* USB `NothingLost`, `DownloadCompletes`: every byte of a download reaches the
  application and the last chunk completes; `Ep0InStep`: between two control
  transfers a SETUP descriptor is armed, in every order of events.
* Net `RingsInStep`: the producer and consumer indices of driver and controller delimit
  the same descriptors, packets and mappings; nothing is sent that was not accepted.
  `ReceivedInOrder`: good packets are a prefix-ordered sequence without repetition, and one
  is missing only for a cause a history flag names.
* `RecordsInStep`: the PCI nodes are what the GCD gave (`NodesMatchGcd`), the parser's shadow
  is its table (`TableInStep`), a download's count is what is left of it (`CountInStep`), no
  key is lost or repeated (`KeysInOrder`), a register is written while its window shows it
  (`WritesLand`), a lane is connected to the unit asked for and released when its PLL
  is locked (`LanesAsAsked`, `ReleasedReady`), nothing of a detached Yukon is used
  (`NothingDangles`), the ports of PP2 keep apart (`PortsApart`), and the table an operating
  system gets is alive and describes the cores (`InstalledIsAlive`, `CoresDescribed`).
* `ResultsAreTrue`: proposed resources fit (`ProposalsAreTrue`), copying with overlap moves
  what it should (`MemoryMoves`), a frame is parsed as it was built (`ParsedAsBuilt`), a
  clock shows the time set plus the time passed, over any tear (`TellsTheTime`), the MAC has the
  speed, duplex and pause the partners agreed on (`MacFollows`), serial numbers agree
  everywhere they are told (`SerialsAgree`).
* `RoutinesEnd`, `CallsEnd`, `PacketsMove`: whatever was begun comes to an end; the conditions
  under which it does not (a link that never answers, an overlap of calls, no phy up) are
  in the right-hand side.

Violated runs are the disagreements between code and comment that have a run;
`PROJECT.json` "findings" quotes both sides.

## Fairness

Weak fairness is given to: the periodic timers (the firmware's timer interrupt keeps
coming and TPL_NOTIFY callbacks preempt everything the drivers wait in); the
driver's own sequential steps (one processor, no blocking); the controller's
answer to a command - the Xenon controller raises a timeout error itself when card
or data do not answer (SDHCI), the DesignWare one ends every command with done or an
error bit; for USB the polling timer, Send, the application and the host's
next packet; for the network the steps of a call, and the controller's fetching, sending
and reporting of packets and executing of commands (PP2's shared queue moves once a port has been
opened: `AggrMoves`; a packet of a port whose initialization failed may stay where it is:
`NowhereToGo`); in the bundles `Work` (the driver's own
steps) and, apart from it, `Device`, `Execute`, `PowerUp`, `Core`, `Hardware`, `Settle` (the
hardware's answer, where the code waits for it without a limit) and `Host`, `Negotiate` (the
other end of a cable, for the properties about a transfer or a link).  Where the code counts
its attempts, the hardware may stay silent and nothing is assumed of it.  Strong fairness is
given to Yukon's
one-second timer alone: calls disable it again and again for their duration, but the
firmware signals a periodic event and dispatches it when the TPL falls.  Nothing is assumed of the user: no fairness on submissions, Stop, card
events, resets, failures, power loss.  Retry loops of the flash drivers end because
the code counts attempts, not by fairness.

## Proofs

Eight modules are proved about, for every value of their constants under a named assumption of
each, which TLC evaluates in the module's runs (`Lan91x`, `Yukon` and `Pp2`, which are checked only in a bundle, have
it as the hypothesis `ConstantsOK` of their theorems, and `MCNet` assumes it of its instances).  The argument is
the same each time: the invariants the runs check are not inductive, a strengthening is,
and its proof has one lemma per action.  Of the first five modules the strengthening is a definition, or a conjunction of
definitions, that a run checks as well; those of the three network drivers are in their proof modules.

### Xenon (`XenonPassThru_proofs`)

For every set of requests, any assignment of them to priority levels, timeouts and bounds
(`ReqAssumption`: the special sets of requests are subsets, timeouts and bounds are naturals):

* `IndInvCorrect`, `ControlCorrect`: types, and the control state.  The routine in the
  middle of its work has the TRB it works on - the timer's at the head of the queue, the
  Stop loop's in the queue - in the driver state it may run in.
* `SafetyCorrect`: `SafetyInv`.  `AnsweredInOrder`, `QueuedOnce`, `MappingsMatchRequests`,
  `SuccessIsEarned` and `TransferOwnsBuffer` follow (`OrderCorrect`, `QueuedOnceCorrect`,
  `MappingsCorrect`, `SuccessCorrect`, `TransferCorrect`).
* `QueueCorrect` and `ImplementsAsyncSafety`, where `CbReq` is empty, that is no client runs
  above the level at which the others wait: `QueueInStep`, and every step is a step of
  `AsyncPassThru` or leaves it alone.  With a client at TPL_CALLBACK both are false: a
  request may be queued behind a synchronous one, and may be lost by Stop (see the
  divergences; `lost` and `causes` record it).

Why the strengthening is needed.  The second half of the timer callback signals the TRB it
noted before: this is the head only because `TickControl` says that nothing removed it in
between; likewise the Stop loop.  A request is queued once because the client's record
(`CallerInv`) says which request it is creating and that nobody else has it.  A success is earned
because the status bits belong to the TRB on the bus (`BusInv`), which is the one the
timer or the synchronous call waits for (`TimerInv`, `ControlInv`).  For `QueueCorrect`, `LevelInv`
says that a synchronous call that found the queue empty keeps it empty, and so does the end of Stop.

### DesignWare (`DwMmcPassThru_proofs`)

`DwAssumption` is of the same kind.  `SafetyCorrect` proves `SafetyInv`: `ControlInv`, `CallerInv`,
`QueuedOnce` and the mappings hold always; who owns the bus (`BusInv`), which descriptor list
the DMA engine has (`DmaInv`) and whose errors the card reports (`FaultInv`) as long as no
request is submitted in the middle of another call (`nested`), which is what `AloneInv`
describes.  From it:

* `OrderCorrect`, `MappingsCorrect`; `QueueCorrect`: synchronous requests run on an empty
  queue, Stop leaves no request unanswered;
* `OffTheBusCorrect`: a request that was answered is off the bus;
* `OwnDataCorrect`: the data of each request move through its own buffer, unless two
  data TRBs were alive at once; `ErrorsCorrect`: a data command of an eMMC card
  that failed is not reported as success;
* `AsyncCorrect`: every step is one of `AsyncPassThru` or leaves it alone - the formula
  `ImplementsAsync` that the run checks.

### Firmware volume (`FlashFvb_proofs`)

For any contents, size and place of the region, any number of retries, calls and faults;
`ConstantsAssumption` asks that there is at least one block, slot and attempt, that the region
lies in the flash, and that the clients' values are none of the four markers (headers, erased, junk, lost).
`FvbInvariant` proves `IInv`, the conjunction of the four invariants of the run.
`AckedSurvives` (`AckedCorrect`), `WipesOnlyInvalid` (`WipesCorrect`) and `NoStaleUnderHeader`
(`StaleCorrect`) are about the flash and what the clients know of it; what makes them inductive
is in `RequestsChecked`: that a call which does not initialise the volume finds it as it was when
it began, as long as it may be refused, that a header is only written over a header and an LBA behind the region is FvbWrite's
alone (`CallInv`), and what a formatting under way has erased so far (`FormatInv`).  The steps rest on lemmas about one access: a
write changes one block (`ReplaceBlock`), a damaged one too, and an erase in progress has the blocks of
`Remaining` before it; a request of whole blocks is one of whole blocks, in the region, after each of
them (`NextBlock`).  `OutsideCorrect` is the action property: no block outside the
region changes unless a client named one.

### NOR flash (`NorFlash_proofs`)

For any geometry with whole program units in a block and whole sectors in a chip (all chips
of the driver's table have them), one chip or more in parallel, all contents and buffers, all
extents to which a command may get.  `SectorsCorrect` proves `SectorsAtRisk`, which contains the
inductive invariant, `SuccessCorrect` proves `SuccessMeansDone`.  The invariant (`Core`):

* `TypeOK` and `CallInv`: the call lies in the flash, and a sector in work has been copied whole;
* `LoopInv`: where the loop stands, that what is below is done and what is above is
  untouched, that the rest of the buffer is the rest of the call's, and that every round but the first
  begins at a sector;
* `SectorInv`: in the sector in work, the copy in RAM is what the sector held before, every
  remaining job has the contents to be, and each word either has them already or lies in a
  remaining job.

`SuccessMeansDone` then is `LoopInv` at the end of the loop; at any earlier point at most the
sector in work differs, which is `SectorsAtRisk`.  The lemmas beneath: quotients, remainders and
multiples; the program units a range touches and their slices of the buffer (`Pieces`); that the jobs
of an erased sector cover what is not to stay erased (`SectorJobs`); what the program and
erase commands do wherever they stop; and that a step of a call leaves everything outside
of its sector as it is (`Kept`).  All of it is under `AtHome`: once gIndex.Base has been
moved nothing of this is true, which is what `nor_base` shows.  Words that a partial verification
does not reach (`Unverified`) are excepted, as in the run.

### USB 3 (`DwUsb3_proofs`)

For any chunk sizes and packet sizes, and for any scenario, that is any number of bus resets,
control transfers, transfers given up, downloads and Sends that time out, downloads of any size and
any set of requests.  `SizesAssumption` asks that CMD_SIZE is not above DATA_SIZE, that a packet
is at least two units and divides DATA_SIZE at every speed (`DwUsb3Dxe.c` has 512, 128 KB and
packets of 64, 512 and 1024), and that there is a speed, "unknown" being none of them.
`BulkCorrect`, `Ep0Correct`, `HonestCorrect` and `NothingLostCorrect` prove the four
invariants of the run.  Together they are inductive; the lemma `Parts` says that they are the same
as `IInv`, the form the proof works with.

Why each needs the others:

* Events wait in a queue and are handled one at a time at some later time, so every
  invariant is about driver, hardware and queue together.  `EventsInOrder` says what the queue can
  look like: a reset with its connection behind it, completions of OUT transfers before the
  reset that stopped them, the SETUP of the request under way behind both.
* `Ep0InStep` alone does not say why a completion finds its state.  `OneDescriptor` does: of the two
  directions only that of the state has a descriptor, it runs or its completion waits, and no
  other completion of the control endpoint does.  A bus reset leaves it alone, which is why the
  driver can leave its state alone as well (`DwUsb3Dxe.c:709`).
* `NothingLost` counts in the armed descriptor, so it rests on `OutRuns`: one descriptor,
  with room, and one completion when it is over, unless the device was configured twice.
  `NextLength` never leaves a descriptor longer than the buffer (`NextLengthFacts`, over
  `RoundUpFacts`): the one place where the proof needs arithmetic.
* `StatusIsHonest` is about the end of a request; what holds until then is `HostAgrees`: the
  driver's address, features and state are those the host will have if the request succeeds, or if
  it stalls, and a reset that waits will forget the same things on both sides.  `HandledInStep` ties
  the request the driver works on to the one the host is waiting for.
* `DownloadInStep` follows "DATA" from the application's Send to the host's read, so that
  the application never counts bytes nobody sends.

The proof has one lemma per action (`...Keeps`); DwUsb3Poll is split by the kind of event it takes
(`PollReset`, `PollConnect`, `PollOut`, `PollSetup`, `PollNrdy`, `PollEp0`).  Beneath are one lemma
for each handler, saying which fields it sets (`SetupFacts`, `ResetFacts`, `HandleFacts`, `ArmOutFacts`),
and two about the queue, `EventRaised` and `EventTaken`.  Two things came up in it: the alternatives of
the receive callback overlapped as guards of a CASE, which TLC resolves by their order and the
semantics of TLA+ does not, and the host's place in a data stage needed a clause of its own
(the last of `HandledInStep`).

### LAN91x (`Lan91x_proofs`)

For any packet memory, any hash of the multicast addresses, any number of packets sent and arriving,
of calls and of faults, and any set of chips the driver may find: any revision, signature, bank
selected at power-on, and PHYs.  `ConstantsOK` asks that pages are not 0, hash values are a row and
a bit, and `PartOK` of each chip that the bank is one of four and the PHYs have addresses of five bits.

* `TypeCorrect`; `MemoryCorrect`: every page of the packet memory is in exactly one place, counting as a
  place what the driver has leaked; `SentCorrect`: packets are sent in order, each once, and
  nothing that was released to the controller disappears; `ReceivedCorrect`: good packets are received
  once and in order, and none is lost without a cause, until a late MMU command comes in between;
  `RegistersCorrect`: no register is touched with the wrong bank selected; `FiltersCorrect`: what the
  client asked to receive is what the controller lets through.  The bundle's
  `RingsInStep` and `ReceivedInOrder` are conjunctions of these and of the other two drivers'.
* `ImplementsNetwork`: every step is one of `SimpleNetwork`, the promise the three drivers share, or
  leaves it alone: the states of SNP, and each buffer handed back once and in order.

The strengthening (`IInv`) and why:

* `MemoryPart`.  A page is also in the hands of the call between the grant and the push, or in a
  command the MMU has not executed yet; with these two places (`Whole`, `Split`) every step moves a page from
  one set to another.  `ExecuteWhole` says so of a command, whenever it is executed, which a driver that gives up
  waiting for the MMU does not know.
* `CallPart`: while a call works the MMU has nothing left to do, because the call waited (`SettledFacts`),
  forced the last command through (`OperationFacts`), or gave up and returned (`TimeoutFacts`).
* `SendPart`.  The packets sent, those in the FIFO and the one about to come (`Coming`) ascend.  A push that
  is still pending is the last of them: that it is no later than the last Transmit had to be added, as
  without it the invariant was not inductive.
* `ReceivePart`: the queue of arrived packets is in order always (`Came`); that the client has what comes
  before it (`Handed`), only until a release has timed out, and a pop that is pending implies
  `late`.
* `RegisterPart`: the driver's copy of the bank is the chip's from the moment the driver is attached; the chip is
  first probed in an unknown bank.  The lemmas beneath say of each access what it reads and leaves (`ReachFacts`,
  `ReadFacts`, `WriteFacts`, `WireFacts`, `PhyDetectFacts`).
* `FilterPart` and `ClientPart`: the filter bits of the driver are those of the chip unless a disable or a reset cleared them (`filtersLost`);
  a call runs only in state Initialized, which is what the refinement of Transmit rests on.

### Yukon (`Yukon_proofs`)

For rings of any size, any limits of `msk_handle_events`, any packets above 4 GB, and any number of packets,
frames, faults and initializations.  `ConstantsOK` asks for a status ring of two places or more and at least
two reserved transmit elements (the code reserves more), so that a packet and the element for its high half
always fit; the TLC run has the smallest rings, and only there do all limits meet.

* `TypeCorrect`, `TxRingKept`, `SentOnceInOrder`, together `RingsKept`: `Yukon`'s part of the
  bundle's `RingsInStep`; `NoFrameLost`: its part of `ReceivedInOrder`; `ImplementsNetwork`:
  every step is one of `SimpleNetwork` or leaves it alone.  All of it holds until a status event of
  one life of the interface is handled in the next (`hist.stale`; see the divergences), which
  is the one thing that breaks the rings.

The strengthening, `IInv == Types /\ EventPart /\ SendPart /\ ReceivePart /\ ClientPart`, and why:

* `EventPart`.  The events that carry the driver's permission to be read lie between the driver's index and
  the controller's, counted from the one in the hands of the call (`Cons`), also while
  `msk_handle_events` has turned some of them over without having stored its index yet.  Each event knows the life
  in which it was posted; only those of this life say something of the rings (`LiveTx`, `LiveRx`).
* `SendPart`.  Three indices follow each other: what the driver knows is done, what the
  controller has read, what the driver has filled; and the indices in the events that wait lie between the first two
  and do not fall (`TxEvents`).  The check at the right half of the address space has become a walk: from the
  controller's place on, every element leaves selected what the next one needs, up to what the driver
  remembers (`Finds`, `After`) - an element that is skipped or
  counted wrongly breaks the chain at one place.  The order of sending needs that what
  was sent, what lies in the ring unread, and what waits in the queue ascend across the three (`TxOrder`).
* `ReceivePart`.  A position of the receive ring tells nothing of which event reports it, so the
  invariant says that there is a mapping (`at`) from the events of this life to the positions that have been filled:
  onto, in the order of both rings, and good only where the event says so (`Reports`).  The
  lemmas `FirstReport` and `TurnReports` show that the first such event reports the driver's own position, and that
  turning it over leaves a mapping for the rest.  With it the client's frames, those queued, and those in
  the ring ascend (`Later`).
* `ClientPart`: an interface that is not initialized maps nothing, and every buffer lent is of an accepted packet, so that
  the next one has a higher number, which the refinement of Transmit asks.

The lemmas beneath are about distances in a ring (`DistFacts`, `FurtherFacts`), about sequences that ascend, and about what
each function of the driver leaves (`EncapFacts`, `StartFacts`, `EofFacts`, `TurnFacts`, `StopFacts`).
`msk_start`, a loop, is a recursive function, and its lemma (`StartRuns`) goes through the set of its
turns.

### PP2 (`Pp2_proofs`)

For any finite set of ports, a shared transmit queue, receive rings and a buffer pool of any size, any number of
packets in both directions, and any failing initializations.  `ConstantsOK` asks for rings and a pool that are not
empty and a completion queue of two places or more (one of them stays free).

* `TypeCorrect`, `SentOnceCorrect`, `CompletedCorrect`, `PoolCorrect` and `CrashCorrect`, together
  `RingsKept`: `Pp2`'s part of the bundle's `RingsInStep`; `NoFrameLost`: its part of `ReceivedInOrder`;
  `ImplementsNetwork`: every step is, for every port, one of `SimpleNetwork` or leaves it alone.
* Sending holds until a pending descriptor of the shared queue is overwritten; completion, for a port no
  Transmit of which gave up; the pool and the order of receiving, while one port is open and no packet was too
  large for the client (see the divergences).  The refinement has no such condition: it holds for every port whatever
  the other ports do with the queue and the memory they share.

The strengthening, `IInv == Types /\ ClientPart /\ SendPart /\ CompletionPart /\ ReceivePart`, and why:

* `ClientPart`.  A port that was opened has its queues; a port that is marked Initialized was opened or its
  initialization failed, and only the latter, or a Receive before any of this, can meet a null queue
  (`CrashesUnopened`, proved by `CrashCorrect`); a completion queue ascends
  and is older than the packet of the call, so that the next packet has a higher number than all.
* `SendPart`.  The shared queue is seen as the sequence of what pends (`Pend`), from the controller's
  index to the driver's.  A packet is in one place (`Apart`): there, in its port's queue, or sent; and every packet
  queued is somewhere (`Somewhere`).  The driver does not check that the place it writes is free, so this is not
  inductive as it stands: the attempt found that Transmits that gave up may fill the queue, after which the next one
  overwrites a packet.  The model records it (`hist.overrun`), and the run's shared queue has two
  places, in which this happens.
* `CompletionPart`.  The counter of sent packets does not say which was sent.  For a port no call of which has
  given up nothing is on its way but the call's packet, so it is this one that the counter counts.
* `ReceivePart`.  What waits for the driver is again a sequence (`Came`).  A buffer is in the pool or in one
  of its descriptors (`Stocked`), and what the client has, and what the descriptors hold that is good, ascend one
  after the other and together are what came (`Arrivals`).  Before a port is opened it has nothing (`Fresh`).

The lemmas beneath (`RingPut`, `RingGet`, `RingPlaces`) say that a ring with an index and a count is a sequence: what is
put behind the last element is appended, what is taken at the index is the head, and no other element moves.

### Left to TLC

* Liveness, and refinement under fairness (`EveryRequestAnswered`, `ImplementsAsyncFair`,
  `EveryCallReturns`, and the liveness properties of all other runs): out of the prover's reach.
* The bundles `MCStorage` and `MCPlatform`, whose components no theorem is about.  `MCNet`'s invariants are
  the conjunctions of what is proved of the three drivers; its liveness, `PacketsMove`, is TLC's.
  `MvI2c` and `MvSpiFlash` (with the two bundles over them) use recursive operators, with which the
  prover loses its SMT backend.
* What a violated run shows is a counterexample, and nothing to prove.

## Known divergences without a run

Read in the code while modelling; the models do what the code does, and the properties are
stated so that they do not hide them (a history flag or an exception names each).

SD/MMC:

* Xenon: a synchronous request waits for the queue once and releases its TPL; a
  client at TPL_CALLBACK can queue behind it (`SdMmcPciHcDxe.c:985`).  A client
  notified by Stop may resubmit to the freed queue (`:841`).  ResetDevice flushes
  the queue but does not touch the controller (`:1300`).  Start clears SDR104, DDR50, SDR50
  and 8 bits from the capabilities (`:615`) and does not reset the host, whose settings are
  those of the former card.  Stepping down to HS400 reads the card's status before it lowers
  the clock (`EmmcDevice.c:928`).  The SD operating conditions are polled without a limit.
  XenonPhyInit's time-out underflows; XenonInit's status is ignored.
  A failing BuildAdmaDescTable unmaps the buffer itself and again in SdMmcFreeTrb
  (`SdMmcPciHci.c:1307`), its table likewise (`:1160`, `:1172`); a table that begins exactly at
  4 GB passes the check (`:1168`).  The type of a card nobody identifies stays that of
  the card before it.  A failing wait for the software reset after an error leaves the lines as they are
  (`SdMmcPciHci.c:1762`).  With SDR25 forced, the voltage switch and the SD tuning are never
  reached, while HS400 is not cleared.
* DwMmc: errors of commands without data are reported as success on eMMC
  (`DwMmcHci.c:1594`); ReadFifo waits for ever after an error on SD (`:1262`); Start
  leaks when InitHost or Reset fails (`DwMmcHcDxe.c:692`); `Packet->Timeout` is never
  enforced; a bare return disables hot plug (`:246`).  Loops over the card's status compare
  `DevStatus & 0xf` and never wait; the switch error bit is not looked at when the width is
  switched (`EmmcDevice.c:660`); SD takes double data rate from the host alone; the
  capabilities are indexed twice (`SdDevice.c:832`).  CreateTrb's error path frees nothing.
* DwEmmc: CMD8 and CMD16 are always held back for data; an answer read before the command
  went out is stale; SendCommand returns before the data have moved (`:303`), and the
  chain is rewritten while in use; the pending command is one for all (`:383`); the DMA
  buffer is rounded up; neither wait has a limit.

Other storage:

* SasV1: the slot of a failed mapping stays used (`:397`); the read pointer is written as
  QUEUE_SLOTS when it wraps (`:449`); no time-out (`:427`), no TPL raised; whose completion it is
  is not looked at; a command without data keeps the former list.  Start looks at the phys once and
  takes the last one up, or none, then commands never end; Stop closes an event never
  created (`:996`), leaves the controller enabled and the device path allocated.
* DwUfsHc: DME errors are dropped; MmioWrite's status is the value written (`:414`); a
  failure in Start after the attributes were read is overwritten by restoring them, so that Start
  says success unbound (`:892`).
* NOR: GetCommandIndex assigns WIndex for the erase table (`NorFlashHw.c:155`,
  harmless while both tables agree); SectorErase verifies half of a sector of two
  parallel chips (`:603`).  While the chip is being found FlashReset writes with the
  width of the entry found before, at first 16 bits: the other one of two parallel chips may
  stay in its identification mode (`:177`, `:249`).
* FVB: FvbRead and FvbWrite do not check Lba, do not transfer up to the block's end as
  the protocol documents, ignore Initialize errors, and do not add StartLba while
  FvbEraseBlocks does (0 on all platforms).  Invalid headers wipe the spare block,
  too.
* Styx: Erase adds the offset twice for the device and once for the copy
  (`StyxSpiFvDxe.c:442`) and reports success whatever happened, where the comment above it
  promises errors; GetBlockSize wraps behind the store.
* SPI flash: the status of the write of new data is ignored (`MvSpiFlash.c:328`); after a time-out the
  chip stays selected, and the next write enable is swallowed (`:133`); `Match` and BestSpr are
  uninitialised for some clocks (`MvSpiDxe.c:45`).  `sf` sets up the device before it looks at its
  parameters, does not compare a range with the flash, creates a missing file on writefile
  (`SpiFlashCmd.c:377`); `fupdate` checks only the header.
* Fastboot: the size check of FlashPartitionEx ignores the offset (HiKey `:624`); an entry that ends before it
  starts is accepted (`:145`), no checksum is looked at; a raw table image is written without a limit
  (`:303`); HiKey keeps the old list after a failed erase of the table, HiKey960 frees it all the
  same; on Poplar the extended partition takes a number itself, and an error in the chain shifts later ones.
  LoadSN makes a new number when the stored one does not match.
* RAM disk: always one page too many (`:247`); disks of 1 to 4 MB are labelled FAT16 with too few
  clusters for it (comment at `:77`).

USB, input:

* DwUsb3: at full speed a remainder that is a multiple of the packet but not of
  CMD_SIZE leaves the endpoint armed too long (`DwUsb3Dxe.c:2130`); a second
  SET_CONFIGURATION starts a running transfer (`:1755`); a Send between reset and
  configuration leaves a descriptor active (`:1119`); an unknown string descriptor is
  stalled and then started (`:1943`); SET_SEL is always stalled (`:2027`);
  SET_FEATURE(HALT) clears the stall (`:1600`), so that a halted endpoint goes on; Send returns
  success after its timeout (`:2310`).  The configuration and the power states survive a bus reset,
  as do those of a SET_CONFIGURATION that was stalled (`:2013`); test mode is accepted and never entered (`:1551`).
* DwUsb2: one IN descriptor for both endpoints (`:167`); the string is freed once armed (`:321`);
  `sizeof ("download:")` skips the first digit (`:560`); a refused download makes the count wrap;
  unknown requests are neither answered nor stalled; data that begins with "download:" is taken for a
  command (`:559`); a SETUP pending beside a bus reset is dropped (`:99`).
* Keyboard: a missing break queues one entry for each registration that matches, and each function is
  called as often (`VirtualKeyboard.c:1015`); a function that unregisters itself and its
  successor can have the latter called; Start runs twice on one handle and frees the queue a
  timer may have filled (`:268`); Reset leaves queued keys; Stop does nothing.

Network:

* Yukon: GetStatus hands a buffer back as soon as it is in the ring, before it is sent.
  Shutdown leaves its queues and the status events, and the timer goes on handling the
  events of freed rings.  A packet that finds the ring full waits for the next
  Transmit.  An event of an invalid port is skipped without advancing the index
  (`if_msk.c:2296`), a full status ring is taken for an empty one (`:2275`).
  msk_rxeof unmaps what `rx_m.DmaMapping` names after msk_newbuf has put the new buffer's mapping there
  (`:1980`): that mapping is undone, the old one leaked.  Not in the model, whose receive buffers are
  not mapped.
* Yukon's binding: a failed OpenProtocol frees an uninitialised pointer (`DriverBinding.c:130`); a failed
  attach leaves the device open (`:139`); Stop detaches the controller although a child refused, and
  reports success (`:441`); the interface is attached twice, the first set of rings is leaked; a
  bus error leaves configuration writes enabled (`if_msk.c:2201`), a fatal one drops mask bits for good; the hash of
  `0xffff` covers half of the filter (`:470`).
* e1000phy.c: a failed read is 0; a test of a mask is always true; fiber
  never gets pause although it is announced.
* PP2: both ports use the same receive and transmit descriptor memory
  (`Pp2Dxe.c:408`, `:424`).  EFI_BUFFER_TOO_SMALL skews the receive index for ever (`:1014`).
  A failed Initialize leaves Initialized set, so that it is not repeated (`:561`).  The
  second port's open reads the aggregated index while descriptors pend (`:329`).  A
  Transmit that timed out leaves its packet in the hardware, whose late count ends the
  next Transmit early.  Transmit takes the next shared descriptor without asking whether there is room
  (`:898`; `Mvpp2AggrDescNumCheck`, `Mvpp2Lib.c:3246`, has no caller): after as many time-outs as the queue has
  places a pending descriptor is overwritten.  Receive looks neither at the mode nor at what exists: on a port that
  is stopped, started or failed to initialize it uses a null queue (`:986`).  A null EtherType is dereferenced (`:895`).
* PP2's ports: speed and duplex are written to another base (`Pp2Dxe.h:436`) and so never fixed; a bit's
  offset is used as its mask (`Mvpp2Lib.c:4335`); the pool's status is ignored (`Pp2Dxe.c:1188`); an
  interface is installed before its port is set (`:1238`); Shutdown changes nothing.
* PP2's parser: the shadow of double tags is never allocated (`Pp2Dxe.h:282`); protocol numbers are
  stubs (`:98`); a length field is taken for a type; every address counts as broadcast (`:68`);
  swapped arguments (`Mvpp2Lib.c:1535`); the fragment entry comes first and matches all (`:1229`);
  the shift of PPPoE IPv6 is wrong (`:1961`).
* LAN91x: `PhySoftReset () < 0` is never true of an EFI_STATUS (`Lan91xDxe.c:1130`).  The
  status of MMU commands is ignored on reset and release (`:877`, `:2098`; in the model a reset always works,
  since the soft reset before it clears the memory too); a timed-out allocation is
  granted later to nobody.  A failing allocation of the queue entry returns at the raised
  TPL.  EFI_BUFFER_TOO_SMALL drops the packet; Shutdown does not leave Initialized.  The index of the
  hash is masked with 3 instead of 7 (`:1358`), so that half of the groups is not received; promiscuous
  mode is lost by a reset while the setting stays; a packet of status and length zero is never released
  (`:1984`; not in the model: the chip counts its own overhead in the length); Statistics copies over a pointer (`:1524`).
* MDIO and PHY: no caller looks at an access's status; plain RGMII gets both delays; the
  list of devices is walked in step with a table of two, beyond its end.

Buses and clocks:

* PCI: gaps for alignment are not counted; the last status hides earlier ones (`PciHostBridge.c:661`);
  starting anew does not free what the GCD gave (`:733`); the configuration is one table for all bridges.
  A poll with delay 0 succeeds (`PciRootBridgeIo.c:1390`); a narrow configuration write writes the whole word
  and clears write-one-to-clear bits (`:1862`); Map reports success whatever happened (`:2029`).
* PCIe: Pv660's second wait for the resets never counts (`PcieInitLib.c:620`); PortIsInitilized is
  never set; late statuses are only logged; the cure of the Gen3 hang depends on when the state is sampled.
* MvI2c: the status of every phase is dropped (`:571`) and a request always succeeds; the last byte of a
  single read is acknowledged; a chunk that crosses a page wraps; no wait for the EEPROM's write.  MvI2cPollCtrl
  returns 0 on a timeout too; MvI2cEnumerate ignores MvI2cAllocDevice's failure (`:699`, `:713`) and gives the
  same device again or a freed one; MvEepromStop uninstalls from the address of its handle, so the protocol
  stays in a freed context; one failing master unloads the driver with the others installed.
* HisiI2c: no acknowledge is looked at; an empty FIFO is not an idle bus; Disable reads the wrong
  register (`:68`).
* Clocks: the virtual clock's SetTime changes the time before it fails (`:258`); after a reset the zone is
  kept and the difference is not.  DS3231 registers are read one by one, without a latch; its
  initialisation writes the hours back 2 ms after it read them; a failed set mixes two times.

Boards and tables:

* ComPhy: the mask of SATA's PLL is 0 (`ComPhyCp110.c:684`); a wait that times out with 0 is taken for success
  (`:507`); types with a selector and no program report the former lane's status; an unknown chip
  ends the others' initialisation.
* Armada: UtmiPhyPowerDown computes a value and never writes it (`UtmiPhyLib.c:93`); lists of one
  character or none are accepted unset (`ParsePcdLib.c:179`); 64 pins overrun the table of registers
  (`MppLib.c:124`).
* Boards: Poplar's Query is always TRUE and queues an uninitialised key (`PoplarDxe.c:225`); the room for the
  kernel's arguments is bytes minus characters (`HiKeyDxe.c:189`); supplies are only OR-ed; waits of the
  PHY's control port end silently; a board's slot is given by who asks first.
* Device trees: an override file that cannot be loaded on Styx has no fallback to the embedded tree, and the
  pages of the memory map are never freed; D02 and D03 copy back 0x400 bytes more than they allocated; D02 ignores
  GetMac's status and uses the port's before; DSDT: a property list before the `_HID` is not patched.

## Plan

Order: the most central behaviour first; modules written as records and operators so
that they can be proved about, recursion only as folds where a proof is planned.

1. Core (done): the two SD/MMC hosts with `AsyncPassThru`, NOR, FVB, USB 3.
2. `net` bundle (done): Yukon, Pp2, Lan91x and `SimpleNetwork`, and beside it the binding,
   ports, parser and PHYs in `platform`.
3. `storage` bundle (done): card identification of both hosts, DwEmmc, UFS, SAS, SPI flash,
   StyxSpiFv, fastboot disks, RAM disk.
4. `platform` bundle (done): PCI, PCIe, I2C, USB 2, keyboard, clocks, lanes, boards, device trees.
5. Proofs: both SD/MMC hosts, NOR flash, FVB, USB 3, LAN91x, Yukon and PP2 (done).
   Next: of the bundles, the components whose state is small and whose loops are folds (StyxSpiFv, RamDisk, SasV1, VirtualKeyboard).

## Not modelled

* Of Xenon's pass-through: accesses to the controller's registers succeed (so SdMmcExecTrb has no error
  but its own, `SdMmcPciHci.c:1509`, nor an SDMA buffer above 4 GB); the tuning commands' data by PIO
  (`:1815`), re-arming at an SDMA boundary (`:1772`); Start's failures
  (`SdMmcPciHcDxe.c:604-646`, which return without undoing anything, and `:688-728`, which close
  the events again), after which the protocol is not installed.  An event is signalled before
  SdMmcFreeTrb, but at TPL_NOTIFY: who waits for it runs after both, so they are one step.
* Wholly: serial ports, the Virtual EHCI PciIo and the Renesas loader, boot managers, SMBIOS,
  ACPI sources, SoC and board initialisation before the drivers, AMD Styx start-up, and
  binaries.  Register writes of one phase, static tables, or glue around code outside the
  package: no state of theirs is read again in an order that could be wrong, but for the loader's
  handshake and Styx's mailbox for parked cores, which are small candidates.
* Register headers.  Many of the package's lines are names of registers and their fields
  (`HisiPcieV1RegOffset.h` alone has 16,500); a model uses the few that decide something.
* Tuning tables, analog values, delays, register layout: no property reads them.  A delay after
  which the code does not look is a step of its own only where something may happen in it.
* Of SD/MMC: the `Supported` functions, the register access helpers, and what nobody calls
  (XenonTransferData, XenonTransferPio, DwMmcHcEnumerateDevice, which returns at once).  Of NOR: the
  probing of the chip, FlashInit; the chip found is a choice of Init.  Of UFS: the pass-through calls over MmioRead.  Of Styx, HisiI2c, clocks: the switch
  to virtual addresses.  Of StyxRtc: it forwards to the secure firmware.
* Of the network drivers: Yukon's two ports at work at once, checksum and VLAN options, PP2's
  interrupt coalescing and link read-out, functions of `Mvpp2Lib.c` that nobody calls, LAN91x's
  statistics.
* Of USB: descriptor contents, the device qualifier.  Of the keyboard: SetState and control
  characters, which a polled key never needs.
* Of the boards: GPIO tables, the other libraries under `Platforms/Hisilicon/*/Library`,
  card detection.  Of Armada: ResetSystemLib, one register write.
* Protocol installation details and memory exhaustion, unless an action says so.
