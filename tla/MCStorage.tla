------------------------------ MODULE MCStorage ------------------------------
(***************************************************************************)
(* The storage drivers whose routines run one at a time, or nested in each *)
(* other: identification of a card behind either host controller, the SAS, *)
(* UFS and DesignWare eMMC hosts, the Marvell SPI flash, the Styx firmware *)
(* volume, the disks of fastboot on three boards, and the RAM disk.  A     *)
(* behaviour is one of one driver with its device.                         *)
(***************************************************************************)
EXTENDS Integers, Sequences, FiniteSets

VARIABLES which, drv, dev, hist

vars == <<which, drv, dev, hist>>

SdCard(kind, types, s18) == [kind |-> kind, types |-> types, s18 |-> s18]
XenonCap(w8, f, ver, v33) ==
  [w8 |-> w8, ver |-> ver, v33 |-> v33, base |-> 2000,
   adma2 |-> ver # 1, sdma |-> w8 \/ ver = 1,
   hs |-> "hs" \in f, ddr50 |-> "ddr50" \in f, sdr50 |-> "sdr50" \in f,
   sdr104 |-> "sdr104" \in f, hs400 |-> "hs400" \in f, tune50 |-> "tune50" \in f]
Fast == {"hs", "ddr50", "sdr50", "sdr104", "tune50"}

X == INSTANCE XenonCard WITH
  Cards <- {SdCard("Emmc", {"hs26"}, FALSE),
            SdCard("Emmc", {"hs26", "hs52", "ddr"}, FALSE),
            SdCard("Emmc", {"hs26", "hs52", "ddr", "hs200", "hs400"}, FALSE),
            SdCard("Sd", {}, FALSE), SdCard("Sd", {"hs"}, FALSE),
            SdCard("Sd", {"hs", "sdr50", "ddr50"}, TRUE),
            SdCard("Sd", {"hs", "sdr50", "sdr104", "ddr50"}, TRUE),
            SdCard("Sdio", {}, FALSE)},
  Caps <- {XenonCap(FALSE, {"hs"}, 1, TRUE), XenonCap(FALSE, {}, 2, FALSE),
           XenonCap(TRUE, {"hs", "ddr50"}, 2, TRUE), XenonCap(TRUE, Fast, 2, TRUE),
           XenonCap(TRUE, Fast \cup {"hs400"}, 2, TRUE)},
  MaxTries <- 2, MaxSlot <- 3, LineMax <- 4, Limit <- 16,
  Transfers <- {[data |-> 0, len |-> 4, table |-> 8], [data |-> 1, len |-> 11, table |-> 16],
                [data |-> 8, len |-> 8, table |-> 20], [data |-> 10, len |-> 7, table |-> 0],
                [data |-> 16, len |-> 1, table |-> 0]},
  Bounds <- {[faults |-> 1, starts |-> 2, transfers |-> 0],
             [faults |-> 0, starts |-> 1, transfers |-> 1]}

DwCap(type, width, f, voltage, base) ==
  [type |-> type, width |-> width, voltage |-> voltage, base |-> base, hs |-> "hs" \in f,
   ddr50 |-> "ddr50" \in f, sdr104 |-> "sdr104" \in f]
D == INSTANCE DwMmcCard WITH
  Cards <- {SdCard("Emmc", {}, FALSE), SdCard("Emmc", {"hs26"}, FALSE),
            SdCard("Emmc", {"hs26", "hs52"}, FALSE),
            SdCard("Emmc", {"hs26", "hs52", "ddr", "hs200"}, FALSE),
            SdCard("Sd", {"4bit"}, FALSE), SdCard("Sd", {"hs", "4bit"}, FALSE),
            SdCard("Sd", {"hs"}, FALSE), SdCard("Sdio", {}, FALSE)},
  Caps <- {DwCap("Emmc", 8, {"hs", "ddr50"}, FALSE, 1000), DwCap("Sd", 4, {"hs"}, TRUE, 1000),
           DwCap("Sd", 4, {"hs"}, TRUE, 32), DwCap("Emmc", 4, {"hs", "sdr104"}, TRUE, 1000)},
  MaxTries <- 3, MaxSlot <- 3,
  Bounds <- {[faults |-> 1, starts |-> 2]}

A == INSTANCE SasV1 WITH
  QUEUE_CNT <- 2, QUEUE_SLOTS <- 2, PHY_CNT <- 3, MAX_TARGET_ID <- 3,
  Bounds <- {[starts |-> 1, calls |-> 3, nested |-> 1, maps |-> 0, ups |-> {{1}}],
             [starts |-> 1, calls |-> 5, nested |-> 0, maps |-> 2, ups |-> {{1}}],
             [starts |-> 2, calls |-> 2, nested |-> 0, maps |-> 1, ups |-> SUBSET (0 .. 2)]}

U == INSTANCE DwUfsHc WITH
  Lanes <- {1, 2},
  Bars <- {<<"unsupported", "mem">>, <<"io", "unsupported">>, <<"io", "error", "mem">>},
  Bounds <- {[starts |-> 1, calls |-> 3, accesses |-> 0, faults |-> 2],
             [starts |-> 3, calls |-> 0, accesses |-> 2, faults |-> 2]}

SpiCall(op, off, len, image) == [op |-> op, off |-> off, len |-> len, image |-> image]
Sf(flags, addr, off, len, file) ==
  [flags |-> flags, addr |-> addr, off |-> off, len |-> len, file |-> file]
F == INSTANCE MvSpiFlash WITH
  PageSize <- 2, EraseSize <- 4, Bank <- 8, FlashSize <- 16,
  Calls <- {SpiCall("erase", 4, 8, "none"), SpiCall("erase", 2, 4, "none"),
            SpiCall("write", 5, 6, "none"), SpiCall("read", 6, 5, "none"),
            SpiCall("update", 4, 7, "none"), SpiCall("update", 8, 4, "none"),
            SpiCall("update", 2, 4, "none"), SpiCall("fupdate", 0, 3, "good"),
            SpiCall("fupdate", 0, 6, "good"), SpiCall("fupdate", 0, 6, "bad"),
            SpiCall("fupdate", 0, 6, "missing")},
  Commands <- {Sf({"probe"}, FALSE, -1, -1, "none"), Sf({}, FALSE, 0, -1, "none"),
               Sf({"probe", "read"}, TRUE, 0, 2, "none"), Sf({"read"}, TRUE, 7, 3, "none"),
               Sf({"read"}, TRUE, 0, -1, "none"), Sf({"write"}, FALSE, 0, 2, "none"),
               Sf({"write"}, TRUE, 3, 3, "none"), Sf({"erase"}, FALSE, 4, 4, "none"),
               Sf({"update"}, TRUE, 8, 3, "none"), Sf({"readfile"}, FALSE, 7, 2, "image"),
               Sf({"readfile"}, FALSE, 6, 4, "new"), Sf({"writefile"}, FALSE, 4, -1, "image"),
               Sf({"writefile"}, FALSE, 4, -1, "new"), Sf({"updatefile"}, FALSE, 4, -1, "image"),
               Sf({"updatefile"}, FALSE, -1, -1, "image")},
  Bounds <- {[calls |-> 2, timeouts |-> 1, crashes |-> 0, sf |-> FALSE, clock |-> <<200, 10>>],
             [calls |-> 2, timeouts |-> 0, crashes |-> 1, sf |-> FALSE, clock |-> <<200, 10>>],
             [calls |-> 3, timeouts |-> 0, crashes |-> 1, sf |-> TRUE, clock |-> <<200, 9>>],
             [calls |-> 3, timeouts |-> 1, crashes |-> 0, sf |-> TRUE, clock |-> <<4000, 1>>],
             [calls |-> 2, timeouts |-> 0, crashes |-> 0, sf |-> TRUE, clock |-> <<166, 50>>]}

E == INSTANCE DwEmmc WITH
  Rate <- 24000, MaxDivider <- 40, Freqs <- {0, 200, 5000},
  BufSize <- 4, BlockSize <- 2, Lengths <- {1, 4, 7}, Lbas <- {1, 2},
  Bounds <- {[requests |-> 2, nested |-> 0, faults |-> 1],
             [requests |-> 1, nested |-> 1, faults |-> 0]}

V == INSTANCE StyxSpiFv WITH
  Blocks <- 2, LbaOffsets <- {0, 1}, FlashBlocks <- 5, MemBlocks <- 4,
  Bounds <- {[writes |-> 2, erases |-> 1, faults |-> 1, crashes |-> 1]}

Part(name, first, last) == [name |-> name, start |-> first, end |-> last]
Gpts == <<[first |-> 3, last |-> 7, max |-> 2,
           entries |-> <<Part("boot", 3, 4), Part("system", 5, 7)>>],
          [first |-> 3, last |-> 8, max |-> 3,
           entries |-> <<Part("boot", 3, 3), Part("odd", 6, 4), Part("system", 5, 8)>>]>>
PtableImage(form, table, offset, entries, size) ==
  [form |-> form, table |-> table, offset |-> offset, entries |-> entries, size |-> size]
H == INSTANCE Fastboot WITH
  Board <- "HiKey", Ebrs <- <<>>, EbrAt <- [b \in 0 .. 8 |-> 0],
  Last <- 8, SERIAL_NUMBER_LBA <- 8, Tables <- Gpts, Names <- {"boot", "system", "odd"},
  Sizes <- {1, 3}, Offsets <- {1}, Seeds <- {1, 2},
  Images <- {PtableImage("raw", 1, 0, 0, 4), PtableImage("primary", 2, 0, 3, 4),
             PtableImage("primary", 1, 2, 1, 2), PtableImage("backup", 1, 2, 1, 2)},
  Bounds <- {[calls |-> 2, faults |-> 1]}
K == INSTANCE Fastboot WITH
  Board <- "HiKey960", Ebrs <- <<>>, EbrAt <- [b \in 0 .. 8 |-> 0],
  Last <- 8, SERIAL_NUMBER_LBA <- 8, Tables <- Gpts, Names <- {"boot", "system", "odd"},
  Sizes <- {1, 3}, Offsets <- {1}, Seeds <- {1, 2},
  Images <- {PtableImage("raw", 1, 0, 0, 4), PtableImage("raw", 2, 0, 0, 3)},
  Bounds <- {[calls |-> 2, faults |-> 1]}

Record(first, size, os) == [start |-> first, size |-> size, os |-> os]
NoRecord == Record(0, 0, "none")
Ebr(first, size, next, nextSize) ==
  [start |-> first, size |-> size, next |-> next, nextSize |-> nextSize]
P == INSTANCE Fastboot WITH
  Board <- "Poplar", Images <- {},
  Last <- 10, SERIAL_NUMBER_LBA <- 1,
  Tables <- <<<<Record(2, 1, "linux"), Record(3, 6, "extended"), NoRecord,
                Record(9, 2, "linux")>>,
              <<Record(2, 3, "linux"), Record(4, 2, "linux"), NoRecord, NoRecord>>>>,
  Ebrs <- <<Ebr(1, 1, 3, 2), Ebr(1, 2, 0, 0)>>,
  EbrAt <- [b \in 0 .. 10 |-> CASE b = 3 -> 1 [] b = 6 -> 2 [] OTHER -> 0],
  Names <- 1 .. 5, Sizes <- {1, 2}, Offsets <- {1}, Seeds <- {1},
  Bounds <- {[calls |-> 2, faults |-> 1]}

R == INSTANCE RamDisk WITH
  PcdRamDiskMaxSize <- 128, Options <- 0 .. 513, Shifts <- {0, 1},
  Bounds <- {[calls |-> 1]}

ASSUME StorageAssumption ==
  X!ConstantsOK /\ D!ConstantsOK /\ A!ConstantsOK /\ U!ConstantsOK
  /\ F!ConstantsOK /\ E!ConstantsOK /\ V!ConstantsOK
  /\ H!ConstantsOK /\ K!ConstantsOK /\ P!ConstantsOK /\ R!ConstantsOK

XenonCard == which = "XenonCard"
DwMmcCard == which = "DwMmcCard"
SasV1 == which = "SasV1"
DwUfsHc == which = "DwUfsHc"
MvSpiFlash == which = "MvSpiFlash"
DwEmmc == which = "DwEmmc"
StyxSpiFv == which = "StyxSpiFv"
HiKeyFastboot == which = "HiKeyFastboot"
HiKey960Fastboot == which = "HiKey960Fastboot"
PoplarFastboot == which = "PoplarFastboot"
RamDisk == which = "RamDisk"

Init ==
  \/ which = "XenonCard" /\ X!Init
  \/ which = "DwMmcCard" /\ D!Init
  \/ which = "SasV1" /\ A!Init
  \/ which = "DwUfsHc" /\ U!Init
  \/ which = "MvSpiFlash" /\ F!Init
  \/ which = "DwEmmc" /\ E!Init
  \/ which = "StyxSpiFv" /\ V!Init
  \/ which = "HiKeyFastboot" /\ H!Init
  \/ which = "HiKey960Fastboot" /\ K!Init
  \/ which = "PoplarFastboot" /\ P!Init
  \/ which = "RamDisk" /\ R!Init

Next ==
  /\ \/ XenonCard /\ X!Next
     \/ DwMmcCard /\ D!Next
     \/ SasV1 /\ A!Next
     \/ DwUfsHc /\ U!Next
     \/ MvSpiFlash /\ F!Next
     \/ DwEmmc /\ E!Next
     \/ StyxSpiFv /\ V!Next
     \/ HiKeyFastboot /\ H!Next
     \/ HiKey960Fastboot /\ K!Next
     \/ PoplarFastboot /\ P!Next
     \/ RamDisk /\ R!Next
  /\ UNCHANGED which

\* One condition for the drivers, one for what they wait for.
Step(Act) == Act /\ UNCHANGED which
Fairness ==
  /\ WF_vars(Step(\/ XenonCard /\ X!Work
                  \/ DwMmcCard /\ D!Work
                  \/ SasV1 /\ A!Work
                  \/ DwUfsHc /\ U!Work
                  \/ MvSpiFlash /\ F!Work
                  \/ DwEmmc /\ E!Work
                  \/ StyxSpiFv /\ V!Work))
  /\ WF_vars(Step(\/ XenonCard /\ X!PowerUp
                  \/ DwMmcCard /\ D!PowerUp
                  \/ SasV1 /\ A!Execute
                  \/ DwUfsHc /\ U!Device
                  \/ DwEmmc /\ E!Device))

Spec == Init /\ [][Next]_vars /\ Fairness

\* Two ends of a bus are switched in an order in which they never disagree
\* while data move, and are left in agreement: card and host (width, data
\* rate, clock, tuning), the lanes of the UFS link; and the slot, its path
\* and the table of a request say what is there.
BusesAgree ==
  /\ XenonCard => X!IdentifiedBus /\ X!SwitchedInOrder /\ X!SlotsWalked /\ X!TransfersCovered
  /\ DwMmcCard => D!IdentifiedBus /\ D!SwitchedInOrder /\ D!SlotsWalked
  /\ DwUfsHc => U!LinkAsSet /\ U!BoundAsHeld

\* A command's slot and descriptors are its own while the device works on
\* it, its answer is that of its own command, and its data move as asked.
CommandsKeptApart ==
  /\ SasV1 => A!SlotsInStep /\ A!AnswersAreTrue /\ A!NothingLeftBehind
  /\ DwEmmc => E!AnswersAreTrue /\ E!DataAsAsked

\* A flash holds what calls reported to have put there, nothing outside
\* their range changes, also when an erase takes more than the range or
\* the power fails; what is read is what is there.
FlashIsTrue ==
  /\ MvSpiFlash => F!NothingElseTouched /\ F!SuccessMeansDone
                  /\ F!CommandIsHonest /\ F!ClockAllowed
  /\ StyxSpiFv => V!CopyIsTrue
  /\ HiKeyFastboot => H!Confined /\ H!ListIsOfDisk /\ H!ToldSerialIsStored
  /\ HiKey960Fastboot => K!Confined /\ K!ListIsOfDisk /\ K!ToldSerialIsStored
  /\ PoplarFastboot => P!Confined /\ P!ListIsOfDisk /\ P!ToldSerialIsStored
  /\ RamDisk => R!StaysInMemory /\ R!FormatFits

\* A call, a routine or an identification ends; see the modules for when not.
RoutinesEnd ==
  (\/ XenonCard /\ drv.routine # 0
   \/ DwMmcCard /\ drv.routine # 0
   \/ SasV1 /\ A!Running
   \/ DwUfsHc /\ U!Running
   \/ MvSpiFlash /\ (F!Running \/ F!Commanding)
   \/ DwEmmc /\ E!Running
   \/ StyxSpiFv /\ ~V!Idle) ~>
  (/\ XenonCard => drv.routine = 0
   /\ DwMmcCard => drv.routine = 0
   /\ SasV1 => ~A!Running \/ hist.overlap \/ dev.up = {}
   /\ DwUfsHc => ~U!Running \/ U!Stuck
   /\ MvSpiFlash => ~F!Running /\ ~F!Commanding
   /\ DwEmmc => ~E!Running
   /\ StyxSpiFv => V!Idle)

=============================================================================
