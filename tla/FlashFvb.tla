------------------------------ MODULE FlashFvb ------------------------------
(***************************************************************************)
(* Chips/Hisilicon/Drivers/FlashFvbDxe: the firmware volume block driver   *)
(* that keeps the UEFI variables in a region of the SPI flash.  The first  *)
(* FvbRead or FvbWrite after a boot validates the headers at the start of  *)
(* the region and, when they are not valid, erases the whole region and    *)
(* installs new ones.  Power may be lost, and the flash may fail, at every *)
(* access; a damaged block can lose any of its contents, because the flash *)
(* erases a block before it rewrites part of it.                           *)
(*                                                                         *)
(* A block is a row of slots.  Slot 0 of LBA 0 is where the volume header  *)
(* and the variable store header lie.  The flash device is larger than the *)
(* region: blocks before and behind it hold other firmware.                *)
(***************************************************************************)
EXTENDS Integers, Sequences

CONSTANTS
  Data,           \* payloads of the variable driver
  BlockSize,      \* slots of a block
  RegionBlocks,   \* Media.LastBlock + 1, also the blocks of the PCD sizes
  RegionStart,    \* (RegionBaseAddress - DeviceBaseAddress) / BlockSize
  DeviceBlocks,   \* blocks of the whole flash
  FLASH_ERASE_RETRY,
  MaxCalls,       \* bound: protocol calls in a behaviour
  MaxFaults       \* bound: failing accesses and power losses

ASSUME ConstantsAssumption ==
  /\ {BlockSize, RegionBlocks, FLASH_ERASE_RETRY} \subseteq Nat \ {0}
  /\ {RegionStart, MaxCalls, MaxFaults} \subseteq Nat
  /\ DeviceBlocks \in Nat /\ RegionStart + RegionBlocks <= DeviceBlocks
  /\ Data \cap {"hdr", "ff", "junk", "lost"} = {}

Hdr == "hdr"     \* both headers, valid
Erased == "ff"
Junk == "junk"   \* what the region held before the volume was created
Lost == "lost"   \* what an interrupted access leaves behind
Values == Data \cup {Hdr, Erased, Junk, Lost}
Slots == 0 .. BlockSize - 1
Rows == [Slots -> Values]
Row(v) == [s \in Slots |-> v]
Blocks == 0 .. DeviceBlocks - 1
Lbas == 0 .. RegionBlocks - 1

VARIABLES
  dev,         \* the flash
  initialized, \* Instance->Initialized
  runtime,     \* EfiAtRuntime ()
  pc,          \* "idle", "format", "headers", "body" or "erase"
  call,        \* the running or the last call
  todo,        \* ranges <<StartingLba, NumOfLba>> still to erase, in order
  tries,       \* attempts on the first of them
  count,       \* calls made
  faults,      \* faults so far
  (* history *)
  acked,       \* what the clients have been told the region holds
  risk,        \* LBAs on which an access failed or was interrupted
  wild         \* some client used an LBA behind the region

driver == <<initialized, runtime, pc, call, todo, tries, count>>
history == <<acked, risk, wild>>
vars == <<dev, driver, faults, history>>

Block(lba) == RegionStart + lba
Header == dev[Block(0)][0]

NoCall == [op |-> "none", lba |-> 0, off |-> 0, data |-> <<>>,
           list |-> <<>>, before |-> <<>>, status |-> "NONE"]

Init ==
  /\ \/ dev = [b \in Blocks |-> Row(Junk)]
     \/ \E d \in Data :
          dev = [b \in Blocks |-> [s \in Slots |->
                   IF b = RegionStart /\ s = 0 THEN Hdr ELSE d]]
  /\ initialized = FALSE
  /\ runtime = FALSE
  /\ pc = "idle"
  /\ call = NoCall
  /\ todo = <<>>
  /\ tries = 0
  /\ count = 0
  /\ faults = 0
  /\ acked = [l \in Lbas |-> dev[Block(l)]]
  /\ risk = {}
  /\ wild = FALSE

(* ------------------------------ the flash ------------------------------ *)

Store(b, row) == dev' = [dev EXCEPT ![b] = row]

\* gHisiSpiFlashProtocol: an access that fails can leave the block in any of
\* these states.
Damage(b) == {dev[b], Row(Erased), Row(Lost)}

\* mFlash->Write replaces a range of the flash, whatever blocks it covers;
\* Overlay is the same for the contents of one block.
Replace(b, off, data) ==
  [c \in Blocks |-> [s \in Slots |->
     LET i == (c - b) * BlockSize + s - off + 1 IN
       IF i \in 1 .. Len(data) THEN data[i] ELSE dev[c][s]]]

Overlay(row, off, data) ==
  [s \in Slots |-> IF s \in off .. off + Len(data) - 1
                     THEN data[s - off + 1] ELSE row[s]]

Fault == faults < MaxFaults /\ faults' = faults + 1

Return(status) ==
  /\ pc' = "idle"
  /\ call' = [call EXCEPT !.status = status]
  /\ todo' = <<>>
  /\ tries' = 0

(* ------------------------------ the calls ------------------------------ *)

\* Slip: the checksum is computed over the wrong length and never matches.
ValidateFvHeaderNever == Header = Hdr /\ Header = Lost

\* ValidateFvHeader.
ValidateFvHeader == Header = Hdr

\* FvbInitialize, called by the first FvbRead or FvbWrite: Initialized is
\* set first, whatever happens later.
FvbInitialize ==
  /\ initialized' = TRUE
  /\ IF ValidateFvHeader
       THEN pc' = "body" /\ todo' = <<>>
       ELSE pc' = "format" /\ todo' = << <<0, RegionBlocks>> >>

Enter(new) ==
  /\ pc = "idle"
  /\ count < MaxCalls
  /\ count' = count + 1
  /\ IF new.op \in {"FvbRead", "FvbWrite"} /\ ~initialized
       THEN IF runtime
              THEN /\ call' = [new EXCEPT !.status = "UNSUPPORTED"]
                   /\ UNCHANGED <<initialized, pc, todo>>
              ELSE FvbInitialize /\ call' = new
       ELSE /\ pc' = "body"
            /\ call' = new
            /\ UNCHANGED <<initialized, todo>>
  /\ tries' = 0
  /\ UNCHANGED <<dev, runtime, faults, acked, risk>>

Request(op, lba, off, data, list) ==
  [op |-> op, lba |-> lba, off |-> off, data |-> data, list |-> list, before |-> dev,
   status |-> "RUNNING"]

\* The variable driver writes headers only where it has found them.
CallFvbWrite ==
  \E lba \in 0 .. RegionBlocks, off \in 0 .. BlockSize, n \in 0 .. BlockSize + 1,
     d \in Data :
    LET data == [i \in 1 .. n |-> IF lba = 0 /\ off = 0 /\ i = 1 THEN Hdr ELSE d]
    IN /\ lba = 0 /\ off = 0 /\ n > 0 => Header = Hdr
       /\ Enter(Request("FvbWrite", lba, off, data, <<>>))
       /\ wild' = (wild \/ lba \notin Lbas)

CallFvbRead ==
  \E lba \in Lbas :
    /\ Enter(Request("FvbRead", lba, 0, <<Erased>>, <<>>))
    /\ UNCHANGED wild

\* Lists of one or two ranges <<StartingLba, NumOfLba>>.
CallFvbEraseBlocks ==
  \E l1 \in 0 .. RegionBlocks, n1 \in 0 .. RegionBlocks :
    \E list \in {<< <<l1, n1>> >>} \cup
                {<< <<l1, n1>>, <<l2, 1>> >> : l2 \in 0 .. RegionBlocks} :
      /\ Enter(Request("FvbEraseBlocks", 0, 0, <<>>, list))
      /\ UNCHANGED wild

\* FlashBlockIoWriteBlocks: whole blocks through the Block I/O protocol, here up
\* to the contents of two blocks.
CallWriteBlocks ==
  \E lba \in 0 .. RegionBlocks, n \in 0 .. 2 * BlockSize, d \in Data :
    LET data == [i \in 1 .. n |-> IF lba = 0 /\ i = 1 THEN Hdr ELSE d]
    IN /\ lba = 0 /\ n > 0 => Header = Hdr
       /\ Enter(Request("WriteBlocks", lba, 0, data, <<>>))
       /\ UNCHANGED wild

(* ------------------------------- the body ------------------------------ *)

\* The request does not fit in one block, or is empty.
Spans(c) ==
  \/ c.off >= BlockSize
  \/ Len(c.data) > BlockSize
  \/ c.off + Len(c.data) > BlockSize
  \/ c.data = <<>>

\* Slip: FvbWrite and FvbRead let a request span two blocks.
RefusalNone(c) == IF c.data = <<>> THEN "BAD_BUFFER_SIZE" ELSE "NONE"

\* The number of blocks of a Block I/O request, if it is whole blocks.
NumBlocks(c) == {k \in 1 .. Len(c.data) : Len(c.data) = k * BlockSize}

Refusal(c) ==
  CASE c.op \in {"FvbRead", "FvbWrite"} /\ Spans(c) -> "BAD_BUFFER_SIZE"
    [] c.op = "WriteBlocks" /\ NumBlocks(c) = {} -> "BAD_BUFFER_SIZE"
    [] c.op = "WriteBlocks" /\ (\E k \in NumBlocks(c) : c.lba + k > RegionBlocks) ->
         "INVALID_PARAMETER"
    [] OTHER -> "NONE"

BodyRefused ==
  /\ pc = "body"
  /\ Refusal(call) # "NONE"
  /\ Return(Refusal(call))
  /\ UNCHANGED <<dev, initialized, runtime, count, faults, history>>

ReadBody ==
  /\ pc = "body"
  /\ call.op = "FvbRead"
  /\ Refusal(call) = "NONE"
  /\ \/ Return("SUCCESS") /\ UNCHANGED faults
     \/ Fault /\ Return("DEVICE_ERROR")
  /\ UNCHANGED <<dev, initialized, runtime, count, history>>

\* What goes into the first block of a write, and what is left behind it.
Piece(data) == IF Len(data) <= BlockSize THEN data ELSE [i \in 1 .. BlockSize |-> data[i]]
Rest(data) == [i \in 1 .. Len(data) - BlockSize |-> data[i + BlockSize]]

\* FvbWrite and FlashWriteBlocks end in mFlash->Write, which replaces the
\* range block by block.  FvbWrite does not check Lba: an Lba behind the
\* region reaches the block that follows it in the flash.
WriteBody ==
  /\ pc = "body"
  /\ call.op \in {"FvbWrite", "WriteBlocks"}
  /\ Refusal(call) = "NONE"
  /\ Block(call.lba) \in Blocks
  /\ LET b == Block(call.lba) IN
       \/ /\ dev' = Replace(b, call.off, Piece(call.data))
          /\ IF Len(call.data) > BlockSize
               THEN /\ call' = [call EXCEPT !.lba = @ + 1, !.data = Rest(@)]
                    /\ UNCHANGED <<pc, todo, tries>>
               ELSE Return("SUCCESS")
          /\ acked' = IF call.lba \in Lbas
                        THEN [acked EXCEPT ![call.lba] =
                                Overlay(@, call.off, Piece(call.data))]
                        ELSE acked
          /\ UNCHANGED <<risk, faults>>
       \/ /\ Fault
          /\ \E row \in Damage(b) : Store(b, row)
          /\ Return("DEVICE_ERROR")
          /\ risk' = risk \cup ({call.lba} \cap Lbas)
          /\ UNCHANGED acked
  /\ UNCHANGED <<initialized, runtime, count, wild>>

\* Slip: off by one at the last block.
ListValidOffByOne(list) ==
  \A i \in 1 .. Len(list) :
    list[i][2] # 0 /\ list[i][1] + list[i][2] - 1 <= RegionBlocks

\* FvbEraseBlocks: the whole list is checked before anything is erased.
ListValid(list) ==
  \A i \in 1 .. Len(list) :
    list[i][2] # 0 /\ list[i][1] + list[i][2] - 1 <= RegionBlocks - 1

\* StartingLba++, NumOfLba--; a range that is used up leaves the list.
Remaining ==
  IF Head(todo)[2] > 1 THEN << <<Head(todo)[1] + 1, Head(todo)[2] - 1>> >> \o Tail(todo)
                       ELSE Tail(todo)

\* Slip: the ranges are checked one by one while they are erased.
EraseBeginLate ==
  /\ pc = "body"
  /\ call.op = "FvbEraseBlocks"
  /\ IF ListValid(call.list)
       THEN /\ todo' = call.list
            /\ pc' = "erase"
            /\ UNCHANGED <<dev, call, tries>>
       ELSE /\ Return("INVALID_PARAMETER")
            /\ IF ListValid(<<Head(call.list)>>)
                 THEN Store(Block(Head(call.list)[1]), Row(Erased))
                 ELSE UNCHANGED dev
  /\ UNCHANGED <<initialized, runtime, count, faults, history>>

EraseBegin ==
  /\ pc = "body"
  /\ call.op = "FvbEraseBlocks"
  /\ todo = <<>>
  /\ IF ListValid(call.list)
       THEN /\ todo' = call.list
            /\ pc' = "erase"
            /\ UNCHANGED <<call, tries>>
       ELSE Return("INVALID_PARAMETER")
  /\ UNCHANGED <<dev, initialized, runtime, count, faults, history>>

\* Slip: after a failed erase the formatting goes on with the next block.
EraseFailedGoesOn(status) ==
  IF pc = "format"
    THEN todo' = Remaining /\ tries' = 0 /\ UNCHANGED <<pc, call>>
    ELSE Return(status)

\* FlashUnlockAndEraseSingleBlock on the next block, for EraseBlocks and
\* for the formatting: only EFI_WRITE_PROTECTED is retried.  A failed
\* formatting is forgotten by FvbRead and FvbWrite, which go on.
EraseFailed(status) ==
  IF pc = "format"
    THEN pc' = "body" /\ todo' = <<>> /\ tries' = 0 /\ UNCHANGED call
    ELSE Return(status)

EraseBlock ==
  /\ pc \in {"erase", "format"}
  /\ todo # <<>>
  /\ LET lba == Head(todo)[1]
         b == Block(lba)
     IN \/ /\ Store(b, Row(Erased))
           /\ todo' = Remaining
           /\ tries' = 0
           /\ acked' = [acked EXCEPT ![lba] = Row(Erased)]
           /\ risk' = risk \ {lba}
           /\ UNCHANGED <<pc, call, faults>>
        \/ /\ Fault
           /\ \E row \in Damage(b) : Store(b, row)
           /\ EraseFailed("DEVICE_ERROR")
           /\ risk' = risk \cup {lba}
           /\ UNCHANGED acked
        \/ /\ Fault
           /\ IF tries + 1 < FLASH_ERASE_RETRY
                THEN tries' = tries + 1 /\ UNCHANGED <<pc, call, todo>>
                ELSE EraseFailed("DEVICE_ERROR")
           /\ UNCHANGED <<dev, acked, risk>>
  /\ UNCHANGED <<initialized, runtime, count, wild>>

EraseDone ==
  /\ pc \in {"erase", "format"}
  /\ todo = <<>>
  /\ IF pc = "format"
       THEN pc' = "headers" /\ UNCHANGED <<call, todo, tries>>
       ELSE Return("SUCCESS")
  /\ UNCHANGED <<dev, initialized, runtime, count, faults, history>>

\* InitializeFvAndVariableStoreHeaders: FvbWrite of both headers at LBA 0.
\* Like every FvbWrite it would initialise an instance that is not marked
\* as Initialized.
InstallHeaders ==
  /\ pc = "headers"
  /\ IF ~initialized
       THEN FvbInitialize /\ UNCHANGED <<dev, call, acked, risk, faults>>
       ELSE /\ pc' = "body"
            /\ UNCHANGED <<initialized, todo, call>>
            /\ \/ /\ dev' = Replace(Block(0), 0, <<Hdr>>)
                  /\ acked' = [acked EXCEPT ![0] = Overlay(@, 0, <<Hdr>>)]
                  /\ UNCHANGED <<faults, risk>>
               \/ /\ Fault
                  /\ \E row \in Damage(Block(0)) : Store(Block(0), row)
                  /\ risk' = risk \cup {0}
                  /\ UNCHANGED acked
  /\ UNCHANGED <<runtime, tries, count, wild>>

(* ------------------------- power, boot and runtime --------------------- *)

\* The LBA an access is under way on, as a set.
Target ==
  CASE pc \in {"erase", "format"} /\ todo # <<>> -> {Head(todo)[1]}
    [] pc = "headers" -> {0}
    [] pc = "body" /\ call.op \in {"FvbWrite", "WriteBlocks"}
         /\ Refusal(call) = "NONE" -> {call.lba}
    [] OTHER -> {}

\* The next boot creates a new instance from mFlashInstanceTemplate.
FlashCreateInstance ==
  /\ initialized' = FALSE
  /\ runtime' = FALSE

PowerLoss ==
  /\ pc # "idle"
  /\ Fault
  /\ FlashCreateInstance
  /\ Return("POWER_LOST")
  /\ IF Target = {}
       THEN UNCHANGED <<dev, risk>>
       ELSE \E lba \in Target :
              /\ Block(lba) \in Blocks
              /\ \E row \in Damage(Block(lba)) : Store(Block(lba), row)
              /\ risk' = risk \cup (Target \cap Lbas)
  /\ UNCHANGED <<count, acked, wild>>

Restart ==
  /\ pc = "idle"
  /\ initialized
  /\ FlashCreateInstance
  /\ UNCHANGED <<dev, pc, call, todo, tries, count, faults, history>>

ExitBootServices ==
  /\ pc = "idle"
  /\ ~runtime
  /\ runtime' = TRUE
  /\ UNCHANGED <<dev, initialized, pc, call, todo, tries, count, faults, history>>

Step == BodyRefused \/ ReadBody \/ WriteBody \/ EraseBegin \/ EraseBlock
          \/ EraseDone \/ InstallHeaders

Next ==
  \/ CallFvbWrite \/ CallFvbRead \/ CallFvbEraseBlocks \/ CallWriteBlocks
  \/ Step
  \/ PowerLoss \/ Restart \/ ExitBootServices

Spec == Init /\ [][Next]_vars /\ WF_vars(Step)

(* ------------------------------ properties ----------------------------- *)

Ops == {"none", "FvbWrite", "FvbRead", "FvbEraseBlocks", "WriteBlocks"}
Statuses == {"NONE", "RUNNING", "SUCCESS", "UNSUPPORTED", "BAD_BUFFER_SIZE",
             "INVALID_PARAMETER", "DEVICE_ERROR", "POWER_LOST"}
Ranges == Seq(Nat \X Nat)
Calls ==
  [op : Ops, lba : Nat, off : Nat, data : Seq(Data \cup {Hdr, Erased}), list : Ranges,
   before : {<<>>} \cup [Blocks -> Rows], status : Statuses]

\* Types of all variables.
TypeOK ==
  /\ dev \in [Blocks -> Rows] /\ acked \in [Lbas -> Rows]
  /\ initialized \in BOOLEAN /\ runtime \in BOOLEAN /\ wild \in BOOLEAN
  /\ pc \in {"idle", "format", "headers", "body", "erase"}
  /\ call \in Calls /\ ((call.status = "RUNNING") <=> (pc # "idle"))
  /\ todo \in Ranges /\ ListValid(todo)
  /\ tries \in 0 .. FLASH_ERASE_RETRY - 1
  /\ count \in Nat /\ faults \in Nat /\ risk \subseteq Lbas

\* What a client was told to be stored is in the flash: a block differs
\* only if an access to that very block failed or was interrupted since.
AckedSurvives == \A l \in Lbas \ risk : dev[Block(l)] = acked[l]

\* FvbInitialize erases the volume only if its headers are gone, and they
\* can only be gone because an access to LBA 0 went wrong or a client
\* erased that block: an accident in another block never costs the volume.
WipesOnlyInvalid == pc = "format" /\ acked[0][0] = Hdr => 0 \in risk

\* None of these blocks holds what it held before the volume was created.
Clean(lbas) == \A l \in lbas, s \in Slots : dev[Block(l)][s] # Junk

\* The headers are valid only when the whole region has been erased since
\* it held foreign contents: a formatting that fails or is interrupted
\* anywhere is started again at the next boot.
NoStaleUnderHeader ==
  ValidateFvHeader => Clean(Lbas)

\* Blocks of the flash that are not in the region are never changed, as
\* long as no client writes to an LBA behind the region (FvbWrite does not
\* check Lba; FvbEraseBlocks and FlashWriteBlocks do).
Region == RegionStart .. RegionStart + RegionBlocks - 1
OutsideUntouched ==
  [][~wild' => \A b \in Blocks \ Region : dev'[b] = dev[b]]_vars

\* A list of ranges with one that does not exist, a request for half a
\* block through Block I/O, and any request that needs the volume to be
\* initialised at run time, leave the flash as it is.
RefusedUntouched ==
  \/ call.status = "UNSUPPORTED"
  \/ /\ call.status \in {"BAD_BUFFER_SIZE", "INVALID_PARAMETER"}
     /\ call.op \in {"FvbEraseBlocks", "WriteBlocks"}
  => dev = call.before

\* What the running call may rely on: nothing has changed since a call that
\* does not initialise the volume and may still be refused, a header is only
\* written over a header, and an LBA behind the region is FvbWrite's alone.
CallInv ==
  /\ pc = "body" =>
       /\ call.op = "FvbEraseBlocks" => dev = call.before
       /\ call.op = "WriteBlocks" /\ Refusal(call) # "NONE" => dev = call.before
  /\ pc \in {"format", "headers"} => call.op \in {"FvbRead", "FvbWrite"}
  /\ pc # "idle" /\ call.op \in {"FvbWrite", "WriteBlocks"} =>
       /\ call.op = "FvbWrite" /\ call.lba \notin Lbas => wild
       /\ call.op = "WriteBlocks" => call.off = 0
       /\ \A i \in 1 .. Len(call.data) : call.data[i] = Hdr =>
            i = 1 /\ call.lba = 0 /\ call.off = 0 /\ pc = "body" /\ Header = Hdr

\* While the volume is formatted there is no valid header, and what lies before
\* the block to erase next has been erased since the volume was found invalid.
FormatInv ==
  pc \in {"format", "headers"} =>
    /\ initialized /\ ~ValidateFvHeader
    /\ IF todo = <<>> THEN Clean(Lbas)
         ELSE /\ pc = "format" /\ todo = << <<todo[1][1], RegionBlocks - todo[1][1]>> >>
              /\ Clean(0 .. todo[1][1] - 1)

\* The requests are checked before anything is changed, with what the calls
\* and the formatting rely on.
RequestsChecked == TypeOK /\ RefusedUntouched /\ CallInv /\ FormatInv

=============================================================================
