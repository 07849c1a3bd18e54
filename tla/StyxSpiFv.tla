------------------------------ MODULE StyxSpiFv ------------------------------
\* Platforms/AMD/Styx/Drivers/StyxSpiFvDxe: the variable store, a copy in
\* memory that is read and kept in step with the SPI flash, which the
\* secure processor (external) writes.  At every boot the copy is made
\* anew from the flash.
EXTENDS Integers, Sequences, FiniteSets

CONSTANTS
  Blocks,      \* of the variable store
  LbaOffsets,  \* where the store may begin in the flash, in blocks
  FlashBlocks, MemBlocks,    \* of the flash, and of memory from the copy on
  Bounds       \* bounds: writes, erases, faults, crashes

VARIABLES
  drv,    \* the call at work
  dev,    \* flash and memory
  hist    \* history

vars == <<drv, dev, hist>>

ConstantsOK ==
  /\ {Blocks, FlashBlocks} \subseteq Nat \ {0} /\ MemBlocks >= Blocks
  /\ \A off \in LbaOffsets : off + Blocks <= FlashBlocks
  /\ \A m \in Bounds : {m.writes, m.erases, m.faults, m.crashes} \subseteq Nat

Lba == 0 .. Blocks - 1
Flash(lba) == dev.flash[lba + dev.offset]
Idle == drv.op = "none"

\* MoveNvStoreImage: the image the firmware was loaded with becomes the copy.
MoveNvStoreImage(flash, offset) ==
  [b \in 0 .. MemBlocks - 1 |-> IF b \in Lba THEN flash[b + offset] ELSE "other"]

\* StyxSpiFvDxeGetBlockSize: the blocks from this one on; beyond them it wraps.
StyxSpiFvDxeGetBlockSize(lba) == Blocks - lba

\* StyxSpiFvDxeRead: the copy, whatever the flash holds.
StyxSpiFvDxeRead(lba) == dev.mem[lba]

\* StyxSpiFvDxeWrite, not across the end of a block: first the flash ...
StyxSpiFvDxeWrite ==
  /\ Idle /\ hist.writes < hist.max.writes
  /\ \E lba \in Lba, value \in {"a", "b"}, fits \in BOOLEAN :
       /\ drv' = IF fits THEN [op |-> "write", lba |-> lba, value |-> value, left |-> <<>>,
                               status |-> "none"]
                 ELSE [drv EXCEPT !.status = "BAD_BUFFER_SIZE"]
  /\ hist' = [hist EXCEPT !.writes = @ + 1]
  /\ UNCHANGED dev
UpdateFvBlock ==
  /\ drv.op = "write"
  /\ \/ /\ dev' = [dev EXCEPT !.flash[drv.lba + dev.offset] = drv.value]
        /\ drv' = [drv EXCEPT !.op = "copy"]
        /\ UNCHANGED hist
     \/ /\ hist.faults < hist.max.faults
        /\ \E v \in {"junk", Flash(drv.lba)} :
             dev' = [dev EXCEPT !.flash[drv.lba + dev.offset] = v]
        /\ drv' = [drv EXCEPT !.op = "none", !.status = "ERROR"]
        /\ hist' = [hist EXCEPT !.faults = @ + 1, !.failed = @ \cup {drv.lba}]

\* ... then, if that went well, the copy.
CopyMem ==
  /\ drv.op = "copy"
  /\ dev' = [dev EXCEPT !.mem[drv.lba] = drv.value]
  /\ drv' = [drv EXCEPT !.op = "none", !.status = "SUCCESS"]
  /\ hist' = [hist EXCEPT !.acked = [@ EXCEPT ![drv.lba] = drv.value],
                          !.failed = @ \ {drv.lba}]

\* StyxSpiFvDxeErase: the offset is added to the block, and for the flash
\* once more; memory is cleared at the block with the offset, so unless
\* the store is at the start of the flash both are other places than the
\* block's (StyxSpiFvDxe.c:442).  Errors are not passed on.
StyxSpiFvDxeErase ==
  /\ Idle /\ hist.erases < hist.max.erases
  /\ \E first \in Lba, n \in {1, 2}, second \in Lba :
       drv' = [drv EXCEPT !.op = "erase", !.left = <<<<first, n>>, <<second, 1>>>>,
                          !.status = "none"]
  /\ hist' = [hist EXCEPT !.erases = @ + 1]
  /\ UNCHANGED dev
ErasePair ==
  /\ drv.op = "erase" /\ drv.left # <<>>
  /\ drv' = [drv EXCEPT !.left = Tail(@)]
  /\ LET start == drv.left[1][1] + dev.offset
         n == drv.left[1][2]
         wiped == start + dev.offset .. start + dev.offset + n - 1
         cleared == start .. start + n - 1
     IN \/ /\ dev' = [dev EXCEPT
                !.flash = [b \in DOMAIN @ |-> IF b \in wiped THEN "erased" ELSE @[b]],
                !.mem = [b \in DOMAIN @ |-> IF b \in cleared THEN "erased" ELSE @[b]]]
           /\ hist' = [hist EXCEPT !.acked = [b \in Lba |->
                IF b \in drv.left[1][1] .. drv.left[1][1] + n - 1 THEN "erased" ELSE @[b]]]
        \/ /\ hist.faults < hist.max.faults
           /\ hist' = [hist EXCEPT !.faults = @ + 1,
                !.failed = @ \cup (drv.left[1][1] .. drv.left[1][1] + n - 1)]
           /\ UNCHANGED dev
EraseDone ==
  /\ drv.op = "erase" /\ drv.left = <<>>
  /\ drv' = [drv EXCEPT !.op = "none", !.status = "SUCCESS"]
  /\ UNCHANGED <<dev, hist>>

\* A reset at any time; the next boot makes the copy anew.
Reset ==
  /\ hist.crashes < hist.max.crashes
  /\ dev' = [dev EXCEPT !.mem = MoveNvStoreImage(dev.flash, dev.offset)]
  /\ drv' = [drv EXCEPT !.op = "none", !.left = <<>>, !.status = "none"]
  /\ hist' = [hist EXCEPT !.crashes = @ + 1,
       !.acked = IF drv.op = "copy" THEN [@ EXCEPT ![drv.lba] = drv.value] ELSE @]

Init ==
  /\ drv = [op |-> "none", lba |-> 0, value |-> "a", left |-> <<>>, status |-> "none"]
  /\ \E offset \in LbaOffsets :
       LET flash == [b \in 0 .. FlashBlocks - 1 |->
                       IF b \in offset .. offset + Blocks - 1 THEN "old" ELSE "firmware"]
       IN dev = [flash |-> flash, offset |-> offset,
                 mem |-> MoveNvStoreImage(flash, offset)]
  /\ \E max \in Bounds :
       hist = [max |-> max, writes |-> 0, erases |-> 0, faults |-> 0, crashes |-> 0,
               acked |-> [b \in Lba |-> "old"],    \* what each block should hold
               failed |-> {}]                      \* blocks whose last change failed

Work == UpdateFvBlock \/ CopyMem \/ ErasePair \/ EraseDone
Next == Work \/ StyxSpiFvDxeWrite \/ StyxSpiFvDxeErase \/ Reset

Spec == Init /\ [][Next]_vars /\ WF_vars(Work)

(* ------------------------------ properties ----------------------------- *)

\* Between calls a read returns what the flash holds and what was last
\* written or erased there, also after a reset in the middle of a write;
\* nothing outside the store changes.  Except for a block whose change
\* failed, and for an erase when the store is not at the start of the
\* flash (StyxSpiFvDxe.c:442).
CopyIsTrue ==
  dev.offset = 0 \/ hist.erases = 0 =>
    /\ \A b \in Lba \ hist.failed : Idle =>
         /\ StyxSpiFvDxeRead(b) = Flash(b)
         /\ StyxSpiFvDxeRead(b) = hist.acked[b]
    /\ \A b \in Lba : StyxSpiFvDxeGetBlockSize(b) = Cardinality({c \in Lba : c >= b})
    /\ drv.op # "erase" /\ hist.erases = 0 =>
         \A b \in DOMAIN dev.flash \ (dev.offset .. dev.offset + Blocks - 1) :
           dev.flash[b] = "firmware"

\* A call ends.
CallsEnd == ~Idle ~> Idle

=============================================================================
