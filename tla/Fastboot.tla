------------------------------- MODULE Fastboot -------------------------------
(***************************************************************************)
(* The fastboot platform drivers of the three Hisilicon boards             *)
(* (Platforms/Hisilicon/*/*FastbootDxe and Library/UsbSerialNumberLib): a  *)
(* list of partitions made from the table on the disk, calls that look a   *)
(* partition up in the list and write, erase or measure it, and a serial   *)
(* number in a block of its own.  A disk is a sequence of blocks; a call   *)
(* of the fastboot application is a step, and its writes may fail after    *)
(* any of the blocks.                                                      *)
(*                                                                         *)
(* HiKey and HiKey960: the partitions are those of a GPT, which is flashed *)
(* and erased as the partition "ptable".  The protective MBR, the header   *)
(* and the entries of a table are blocks 0, 1 and 2; no checksum is looked *)
(* at.  Poplar: they are those of an MBR with extended partitions, whose   *)
(* boot records form a chain; a partition has no name but "mmcsda" and its *)
(* number, which is counted while the records are read.                    *)
(***************************************************************************)
EXTENDS Integers, Sequences, FiniteSets

\* Of a GPT, Tables[t] is [first, last, max, entries] and an image of one
\* is [form, table, offset, entries, size].  Of an MBR, Tables[t] are four
\* records [start, size, os] with os one of "none", "linux", "extended";
\* the boot record Ebrs[e] has a partition [start, size] relative to
\* itself and the place of the next one [next, nextSize] relative to the
\* first.
CONSTANTS
  Board,              \* "HiKey", "HiKey960" or "Poplar"
  Last,               \* the last block of the disk
  SERIAL_NUMBER_LBA,  \* the block of the serial number
  Tables,             \* partition tables, a sequence
  Images,             \* images of tables (GPT)
  Ebrs, EbrAt,        \* boot records, and the one at each block or 0 (MBR)
  Names,              \* partition names a call may give
  Sizes, Offsets,     \* sizes of images in blocks, and offsets of FlashPartitionEx
  Seeds,              \* values of the generic timer
  Bounds              \* bounds: calls and faults

VARIABLES drv, dev, hist

vars == <<drv, dev, hist>>

\* The chain of boot records ends: ReadExtPartitions follows it for ever.
ConstantsOK ==
  /\ Board \in {"HiKey", "HiKey960", "Poplar"}
  /\ Last \in Nat /\ SERIAL_NUMBER_LBA \in 0 .. Last
  /\ Sizes \subseteq Nat /\ Offsets \subseteq Nat /\ Seeds \subseteq Nat \ {0}
  /\ \A m \in Bounds : m.calls \in Nat /\ m.faults \in Nat
  /\ \A i \in Images : i.table \in DOMAIN Tables /\ i.size \in Nat
  /\ EbrAt \in [0 .. Last -> {0} \cup DOMAIN Ebrs]
  /\ \A e \in DOMAIN Ebrs : Ebrs[e].next # 0 =>
       Ebrs[e].next > Ebrs[e].start + Ebrs[e].size - 1
  /\ Board = "Poplar" => \A t \in DOMAIN Tables : DOMAIN Tables[t] = 1 .. 4
  /\ Board # "Poplar" => /\ SERIAL_NUMBER_LBA > 2
                         /\ \A t \in DOMAIN Tables : {Tables[t].first, Tables[t].last} \subseteq Nat

\* What a block holds: where it comes from, and which block of that it is.
Content(kind, of, block) == <<kind, of, block>>
Old == Content("old", 0, 0)
Zero == Content("zero", 0, 0)
Image(n, size) == [i \in 1 .. size |-> Content("image", n, i)]

\* The serial number: a magic, the number and its text, which fits or does not.
Serial(n) == Content("serial", n, 0)
Misfit(n) == Content("serial", n, 1)

Fault == hist.faults < hist.max.faults
Calling == drv.inited /\ hist.calls < hist.max.calls

(* ------------------------------- the disk ------------------------------ *)

\* WriteDisk and EraseBlocks: what they may leave on the disk.  A range
\* that does not fit is refused; an error leaves the first blocks written.
Outcome(disk, status, faults) == [disk |-> disk, status |-> status, faults |-> faults]
Put(lba, data, n) ==
  [b \in 0 .. Last |-> IF b \in lba .. lba + n - 1 THEN data[b - lba + 1]
                       ELSE dev.disk[b]]
WriteDisk(lba, data) ==
  IF lba + Len(data) > Last + 1 THEN {Outcome(dev.disk, "DEVICE_ERROR", 0)}
  ELSE {Outcome(Put(lba, data, Len(data)), "SUCCESS", 0)}
         \cup {Outcome(Put(lba, data, n), "DEVICE_ERROR", 1) :
                 n \in IF Fault THEN 0 .. Len(data) - 1 ELSE {}}
EraseBlocks(lba, size) == WriteDisk(lba, [i \in 1 .. size |-> Zero])

(* ------------------------------ partitions ----------------------------- *)

Partition(name, first, last) == [name |-> name, start |-> first, end |-> last]
Blocks(p) == p.start .. p.end

\* The first of that name in mPartitionListHead.
Found(name) == {i \in DOMAIN drv.list : drv.list[i].name = name}
Entry(name) == drv.list[CHOOSE i \in Found(name) : \A j \in Found(name) : i <= j]

\* The size is unsigned: a partition that ends before it starts is huge.
PartitionSize(p) == IF p.end - p.start + 1 < 0 THEN 2 * Last ELSE p.end - p.start + 1

\* The end of a call that wrote: "own" are the blocks it was to write, and
\* "beyond" says that its range leaves them.
Answer(status) == drv' = [drv EXCEPT !.status = status]
Counted == [hist EXCEPT !.calls = @ + 1]
Refuse(status) == Answer(status) /\ hist' = Counted /\ UNCHANGED dev

Written(o, own, beyond) ==
  LET changed == {b \in 0 .. Last : o.disk[b] # dev.disk[b]} IN
  /\ dev' = [dev EXCEPT !.disk = o.disk]
  /\ hist' = [Counted EXCEPT !.faults = @ + o.faults,
       !.outside = @ \/ ~(changed \subseteq own),
       !.beyond = @ \/ beyond,
       !.stale = @ \/ (beyond /\ changed # {}),
       !.serial = IF SERIAL_NUMBER_LBA \in changed THEN 0 ELSE @]

(* ------------------------- calls on a partition ------------------------ *)

FlashNamed(name, size, n) ==
  IF Found(name) = {} THEN Refuse("NOT_FOUND")
  ELSE LET p == Entry(name) IN
    IF PartitionSize(p) < size THEN Refuse("VOLUME_FULL")
    ELSE \E o \in WriteDisk(p.start, Image(n, size)) :
           Answer(o.status) /\ Written(o, Blocks(p), p.start + size - 1 > p.end)

\* The size is compared without the offset.
FlashNamedAt(name, offset, size, n) ==
  IF Found(name) = {} THEN Refuse("NOT_FOUND")
  ELSE LET p == Entry(name) IN
    IF PartitionSize(p) < size THEN Refuse("VOLUME_FULL")
    ELSE \E o \in WriteDisk(p.start + offset, Image(n, size)) :
           /\ Answer(o.status)
           /\ Written(o, Blocks(p), p.start + offset + size - 1 > p.end)

EraseNamed(name) ==
  IF Found(name) = {} THEN Refuse("NOT_FOUND")
  ELSE LET p == Entry(name) IN
    \/ \E o \in EraseBlocks(p.start, PartitionSize(p)) :
         Answer(o.status) /\ Written(o, Blocks(p), FALSE)
    \/ /\ Fault                             \* no protocol to erase with
       /\ Answer("UNSUPPORTED") /\ hist' = [Counted EXCEPT !.faults = @ + 1]
       /\ UNCHANGED dev

GetSize(name) ==
  /\ drv' = [drv EXCEPT !.status = IF Found(name) = {} THEN "NOT_FOUND" ELSE "SUCCESS",
               !.value = IF Found(name) = {} THEN 0 ELSE PartitionSize(Entry(name))]
  /\ hist' = Counted /\ UNCHANGED dev

(* -------------------------- the serial number -------------------------- *)

\* LoadSNFromBlock: the number stored, or a new one which is stored first.
LoadSNFromBlock ==
  LET c == dev.disk[SERIAL_NUMBER_LBA] IN
  \/ /\ c[1] = "serial" /\ c[3] = 0
     /\ drv' = [drv EXCEPT !.status = "SUCCESS", !.value = c[2]]
     /\ hist' = [Counted EXCEPT !.serial = c[2]]
     /\ UNCHANGED dev
  \/ /\ ~(c[1] = "serial" /\ c[3] = 0)
     /\ \E seed \in Seeds, o \in WriteDisk(SERIAL_NUMBER_LBA, <<Serial(0)>>) :
          LET disk == IF o.status = "SUCCESS"
                        THEN [o.disk EXCEPT ![SERIAL_NUMBER_LBA] = Serial(seed)]
                        ELSE o.disk
          IN /\ dev' = [dev EXCEPT !.disk = disk]
             /\ drv' = [drv EXCEPT !.status = o.status,
                  !.value = IF o.status = "SUCCESS" THEN seed ELSE 0]
             /\ hist' = [Counted EXCEPT !.faults = @ + o.faults,
                  !.serial = IF o.status = "SUCCESS" THEN seed ELSE 0]
  \/ /\ Fault                               \* the block cannot be read
     /\ drv' = [drv EXCEPT !.status = "DEVICE_ERROR", !.value = 0]
     /\ hist' = [Counted EXCEPT !.faults = @ + 1]
     /\ UNCHANGED dev

\* GenerateUsbSN and StoreSNToBlock.
StoreSNToBlock ==
  \E seed \in Seeds : \E o \in WriteDisk(SERIAL_NUMBER_LBA, <<Serial(seed)>>) :
    Answer(o.status) /\ Written(o, {SERIAL_NUMBER_LBA}, FALSE)

\* The OEM commands: one stores a number, others do nothing to the disk.
Oem(command) ==
  CASE command = "serialno" -> StoreSNToBlock
    [] command = "reboot-bootloader" -> Refuse("SUCCESS")
    [] OTHER -> Refuse("NOT_FOUND")

(* -------------------------------- HiKey -------------------------------- *)

TableBlocks == 0 .. 2

TableBlock(t, b) ==
  IF b \in TableBlocks THEN Content("table", t, b) ELSE Content("image", 0, b)
IsBlock(c, b) == c[1] = "table" /\ c[3] = b

\* HiKeyReadPartitionEntries: entries as long as each starts behind the one
\* before it and ends in the usable range, and no more than the header
\* says.  Header and entries may be of two tables.
HiKeyReadPartitionEntries(disk) ==
  IF ~IsBlock(disk[1], 1) \/ ~IsBlock(disk[2], 2) THEN <<>>
  ELSE LET h == Tables[disk[1][2]]
           e == Tables[disk[2][2]].entries
           fits(i) == /\ e[i].start > (IF i = 1 THEN h.first - 1 ELSE e[i - 1].end)
                      /\ e[i].end <= h.last
           count == CHOOSE n \in 0 .. Len(e) :
                      /\ \A i \in 1 .. n : fits(i)
                      /\ n < Len(e) => ~fits(n + 1)
       IN SubSeq(e, 1, IF count > h.max THEN h.max ELSE count)

\* HiKeyLoadPtable: the outcomes.  A disk that cannot be read is no error, and
\* leaves the list empty as no memory for it does.
Loaded(list, status, faults) == [list |-> list, status |-> status, faults |-> faults]
HiKeyLoadPtable(disk, mayFail) ==
  {Loaded(HiKeyReadPartitionEntries(disk), "SUCCESS", 0)} \cup
    (IF mayFail THEN {Loaded(<<>>, "SUCCESS", 1), Loaded(<<>>, "BUFFER_TOO_SMALL", 1)}
     ELSE {})

HiKeyFastbootPlatformInit ==
  /\ ~drv.inited
  /\ \E l \in HiKeyLoadPtable(dev.disk, Fault) :
       /\ drv' = [drv EXCEPT !.inited = l.status = "SUCCESS", !.list = l.list,
                             !.status = l.status]
       /\ hist' = [hist EXCEPT !.faults = @ + l.faults, !.stale = l.faults = 1]
  /\ UNCHANGED dev

HiKeyFastbootPlatformUnInit ==
  /\ drv.inited
  /\ drv' = [drv EXCEPT !.inited = FALSE, !.list = <<>>]
  /\ UNCHANGED <<dev, hist>>

\* The table is written: an image with "ENTRYHDR" at the blocks it says,
\* any other as it is.  Only when that succeeds is the list read again.
HiKeyReload(o, own, beyond) ==
  \E l \in HiKeyLoadPtable(o.disk, Fault /\ o.faults = 0) :
    /\ drv' = IF o.status # "SUCCESS" THEN [drv EXCEPT !.status = o.status]
              ELSE [drv EXCEPT !.list = l.list, !.status = l.status]
    /\ LET f == IF o.status = "SUCCESS" THEN l.faults ELSE o.faults
           changed == {b \in 0 .. Last : o.disk[b] # dev.disk[b]}
       IN hist' = [Counted EXCEPT !.faults = @ + f,
            !.outside = @ \/ ~(changed \subseteq own), !.beyond = @ \/ beyond,
            !.stale = IF o.status = "SUCCESS" THEN l.faults = 1
                      ELSE @ \/ changed # {},
            !.serial = IF SERIAL_NUMBER_LBA \in changed THEN 0 ELSE @]
    /\ dev' = [dev EXCEPT !.disk = o.disk]

HiKeyFlashPtable(i) ==
  CASE i.form = "raw" ->
         \E o \in WriteDisk(0, [b \in 1 .. i.size |-> TableBlock(i.table, b - 1)]) :
           HiKeyReload(o, TableBlocks, i.size > 3)
    [] i.form = "primary" /\ i.entries + 1 <= i.size ->
         \E o \in WriteDisk(i.offset, [b \in 1 .. i.entries |->
                                         TableBlock(i.table, i.offset + b - 1)]) :
           HiKeyReload(o, TableBlocks, i.offset + i.entries > 3)
    [] OTHER -> Refuse("UNSUPPORTED")

HiKeyFastbootPlatformFlashPartition ==
  /\ Calling
  /\ \/ \E i \in Images : HiKeyFlashPtable(i)
     \/ \E name \in Names, size \in Sizes : FlashNamed(name, size, 1)

\* An error leaves the list, also when part of the table is gone.
HiKeyErasePtable ==
  \E o \in EraseBlocks(0, 3) :
    LET changed == {b \in 0 .. Last : o.disk[b] # dev.disk[b]} IN
    /\ drv' = [drv EXCEPT !.status = o.status,
                 !.list = IF o.status = "SUCCESS" THEN <<>> ELSE @]
    /\ dev' = [dev EXCEPT !.disk = o.disk]
    /\ hist' = [Counted EXCEPT !.faults = @ + o.faults,
                  !.stale = o.status # "SUCCESS" /\ (@ \/ changed # {})]

HiKeyFastbootPlatformErasePartition ==
  Calling /\ (HiKeyErasePtable \/ \E name \in Names : EraseNamed(name))

HiKeyFastbootPlatformGetVar ==
  Calling /\ (LoadSNFromBlock \/ \E name \in Names : GetSize(name))

HiKeyFastbootPlatformOemCommand ==
  /\ Calling
  /\ \E command \in {"serialno", "reboot-bootloader", "other"} : Oem(command)

HiKeyFastbootPlatformFlashPartitionEx ==
  /\ Calling
  /\ \E name \in Names, offset \in Offsets, size \in Sizes :
       FlashNamedAt(name, offset, size, 2)

(* ------------------------------- HiKey960 ------------------------------ *)

\* The entries in order and in the usable range, as many as the header says.
HiKey960ReadPartitionEntries(disk) ==
  IF ~IsBlock(disk[1], 1) \/ ~IsBlock(disk[2], 2) THEN <<>>
  ELSE LET h == Tables[disk[1][2]]
           e == Tables[disk[2][2]].entries
           start(i) == IF i = 1 THEN h.first - 1 ELSE e[i - 1].end
           good == {n \in 0 .. Len(e) : \A i \in 1 .. n :
                      e[i].start > start(i) /\ e[i].end <= h.last /\ i <= h.max}
       IN SubSeq(e, 1, CHOOSE n \in good : \A m \in good : m <= n)

HiKey960LoadPtable(disk, mayFail) ==
  {Loaded(HiKey960ReadPartitionEntries(disk), "SUCCESS", 0)} \cup
    (IF mayFail THEN {Loaded(<<>>, "SUCCESS", 1), Loaded(<<>>, "OUT_OF_RESOURCES", 1)}
     ELSE {})

HiKey960FastbootPlatformInit ==
  /\ ~drv.inited
  /\ \E l \in HiKey960LoadPtable(dev.disk, Fault) :
       /\ drv' = [drv EXCEPT !.inited = l.status = "SUCCESS", !.list = l.list,
                             !.status = l.status]
       /\ hist' = [hist EXCEPT !.faults = @ + l.faults, !.stale = l.faults = 1]
  /\ UNCHANGED dev

HiKey960FastbootPlatformUnInit ==
  /\ drv.inited
  /\ drv' = [drv EXCEPT !.inited = FALSE, !.list = <<>>]
  /\ UNCHANGED <<dev, hist>>

HiKey960FlashPtable(i) ==
  \E o \in WriteDisk(0, [b \in 1 .. i.size |-> TableBlock(i.table, b - 1)]) :
    \E l \in HiKey960LoadPtable(o.disk, Fault /\ o.faults = 0) :
      LET changed == {b \in 0 .. Last : o.disk[b] # dev.disk[b]}
          done == o.status = "SUCCESS" IN
      /\ drv' = IF done THEN [drv EXCEPT !.list = l.list, !.status = l.status]
                ELSE [drv EXCEPT !.status = o.status]
      /\ dev' = [dev EXCEPT !.disk = o.disk]
      /\ hist' = [Counted EXCEPT
           !.faults = @ + (IF done THEN l.faults ELSE o.faults),
           !.outside = @ \/ ~(changed \subseteq TableBlocks),
           !.beyond = @ \/ i.size > 3,
           !.stale = IF done THEN l.faults = 1 ELSE @ \/ changed # {},
           !.serial = IF SERIAL_NUMBER_LBA \in changed THEN 0 ELSE @]

\* HiKey960FlashXloader: another disk, of which nothing is known here.
HiKey960FlashXloader ==
  \/ Refuse("SUCCESS")
  \/ /\ Fault /\ Answer("DEVICE_ERROR")
     /\ hist' = [Counted EXCEPT !.faults = @ + 1] /\ UNCHANGED dev

HiKey960FastbootPlatformFlashPartition ==
  /\ Calling
  /\ \/ \E i \in Images : HiKey960FlashPtable(i)
     \/ HiKey960FlashXloader
     \/ \E name \in Names, size \in Sizes : FlashNamed(name, size, 1)

\* The list is freed also when writing fails and a table stays on the disk.
HiKey960ErasePtable ==
  \E o \in EraseBlocks(0, 3) :
    /\ drv' = [drv EXCEPT !.status = o.status, !.list = <<>>]
    /\ dev' = [dev EXCEPT !.disk = o.disk]
    /\ hist' = [Counted EXCEPT !.faults = @ + o.faults,
                  !.stale = o.status # "SUCCESS"]

HiKey960FastbootPlatformErasePartition ==
  Calling /\ (HiKey960ErasePtable \/ \E name \in Names : EraseNamed(name))

HiKey960FastbootPlatformGetVar ==
  Calling /\ (LoadSNFromBlock \/ \E name \in Names : GetSize(name))

HiKey960FastbootPlatformOemCommand ==
  /\ Calling
  /\ \E command \in {"serialno", "reboot-bootloader", "other"} : Oem(command)

HiKey960FastbootPlatformFlashPartitionEx ==
  /\ Calling
  /\ \E name \in Names, offset \in Offsets, size \in Sizes :
       FlashNamedAt(name, offset, size, 2)

(* -------------------------------- Poplar ------------------------------- *)

Used(r) == r.os # "none" /\ r.size # 0
RecordBlocks(r) == r.start .. r.start + r.size - 1

\* PartitionValidMbr: some record is used, none leaves the disk or overlaps.
PartitionValidMbr(m) ==
  /\ \E i \in 1 .. 4 : Used(m[i])
  /\ \A i \in 1 .. 4 : Used(m[i]) => m[i].start + m[i].size - 1 <= Last
  /\ \A i, j \in 1 .. 4 : i < j /\ Used(m[i]) /\ Used(m[j]) =>
       RecordBlocks(m[i]) \cap RecordBlocks(m[j]) = {}

\* PoplarReadExtPartitions: the places of the boot records of a chain, as
\* far as "reads" reads succeed.  A record whose partition is empty, or
\* which is none, ends the chain.
EbrAtDisk(disk, b) ==
  IF b \in 0 .. Last /\ disk[b][1] = "ebr" THEN disk[b][2] ELSE 0
HasPartition(e) == e # 0 /\ Ebrs[e].start # 0 /\ Ebrs[e].size # 0
Chain(disk, base, reads) ==
  LET at[n \in 1 .. Last + 1] ==
        IF n = 1 THEN base
        ELSE LET e == EbrAtDisk(disk, at[n - 1]) IN
             IF at[n - 1] = 0 \/ ~HasPartition(e) \/ Ebrs[e].next = 0
                \/ Ebrs[e].nextSize = 0 THEN 0
             ELSE base + Ebrs[e].next
      found == {n \in 1 .. Last + 1 :
                  n <= reads /\ at[n] # 0 /\ HasPartition(EbrAtDisk(disk, at[n]))}
  IN [n \in found |-> at[n]]
PoplarReadExtPartitions(disk, base, reads, number) ==
  LET c == Chain(disk, base, reads) IN
  [n \in DOMAIN c |->
     LET e == Ebrs[disk[c[n]][2]] IN
     Partition(number + n - 1, c[n] + e.start, c[n] + e.start + e.size - 1)]

\* PoplarReadPartitionEntries: the records that are used, in order.  An extended
\* one takes a number itself.  An error in a chain is not reported: the
\* partitions that follow have other numbers then.
PoplarReadPartitionEntries(disk, reads) ==
  IF disk[0][1] # "table" \/ ~PartitionValidMbr(Tables[disk[0][2]]) THEN <<>>
  ELSE LET m == Tables[disk[0][2]]
           upTo[i \in 0 .. 4] ==            \* partitions and the next number
             IF i = 0 THEN [list |-> <<>>, number |-> 1]
             ELSE LET was == upTo[i - 1] IN
               IF ~Used(m[i]) THEN was
               ELSE IF m[i].os = "extended"
                 THEN LET ext == PoplarReadExtPartitions(disk, m[i].start, reads,
                                                         was.number + 1)
                      IN [list |-> was.list \o ext,
                          number |-> was.number + 1 + Len(ext)]
               ELSE [list |-> Append(was.list,
                        Partition(was.number, m[i].start, m[i].start + m[i].size - 1)),
                     number |-> was.number + 1]
       IN upTo[4].list

\* Init: a list as far as the disk can be read, and always success, or the
\* first partitions when there is no memory for more.
FirstOf(list) == IF list = <<>> THEN <<>> ELSE <<Head(list)>>
PoplarFastbootPlatformInit ==
  /\ ~drv.inited
  /\ \E list \in {PoplarReadPartitionEntries(dev.disk, Last)} \cup
                   (IF ~Fault THEN {} ELSE
                    {<<>>, PoplarReadPartitionEntries(dev.disk, 1),
                     FirstOf(PoplarReadPartitionEntries(dev.disk, Last))}) :
       LET whole == list = PoplarReadPartitionEntries(dev.disk, Last) IN
       /\ drv' = [drv EXCEPT !.inited = TRUE, !.list = list, !.status = "SUCCESS"]
       /\ hist' = [hist EXCEPT !.faults = @ + (IF whole THEN 0 ELSE 1),
                               !.stale = ~whole]
  /\ UNCHANGED dev

PoplarFastbootPlatformUnInit ==
  /\ drv.inited
  /\ drv' = [drv EXCEPT !.inited = FALSE, !.list = <<>>]
  /\ UNCHANGED <<dev, hist>>

PoplarFastbootPlatformFlashPartition ==
  Calling /\ \E name \in Names, size \in Sizes : FlashNamed(name, size, 1)

PoplarFastbootPlatformErasePartition ==
  Calling /\ \E name \in Names : EraseNamed(name)

PoplarFastbootPlatformGetVar ==
  Calling /\ (LoadSNFromBlock \/ \E name \in Names : GetSize(name))

PoplarFastbootPlatformOemCommand ==
  /\ Calling
  /\ \E command \in {"serialno", "reboot-bootloader", "other"} : Oem(command)

PoplarFastbootPlatformFlashPartitionEx ==
  /\ Calling
  /\ \E name \in Names, offset \in Offsets, size \in Sizes :
       FlashNamedAt(name, offset, size, 2)

(* ---------------------------- specification ---------------------------- *)

\* A disk with a table or without, and a serial number or something else.
GptDisk(table, serial) ==
  [b \in 0 .. Last |-> IF b = SERIAL_NUMBER_LBA THEN serial
                       ELSE IF table # 0 /\ b \in TableBlocks THEN TableBlock(table, b)
                       ELSE Old]
MbrDisk(table) ==
  [b \in 0 .. Last |-> IF b = 0 /\ table # 0 THEN Content("table", table, 0)
                       ELSE IF EbrAt[b] # 0 THEN Content("ebr", EbrAt[b], 0)
                       ELSE Old]

NewDisks ==
  CASE Board = "HiKey" -> {GptDisk(t, s) : t \in {0} \cup DOMAIN Tables,
                                           s \in {Old, Serial(9), Misfit(9)}}
    [] Board = "HiKey960" -> {GptDisk(t, Old) : t \in {0} \cup DOMAIN Tables}
    [] OTHER -> {MbrDisk(t) : t \in {0} \cup DOMAIN Tables}

Init ==
  /\ drv = [inited |-> FALSE, list |-> <<>>, status |-> "none", value |-> 0]
  /\ \E d \in NewDisks : dev = [disk |-> d]
  /\ \E max \in Bounds :
       hist = [max |-> max, calls |-> 0, faults |-> 0, outside |-> FALSE,
               beyond |-> FALSE, stale |-> FALSE, serial |-> 0]

HiKeyNext ==
  \/ HiKeyFastbootPlatformInit \/ HiKeyFastbootPlatformUnInit
  \/ HiKeyFastbootPlatformFlashPartition \/ HiKeyFastbootPlatformErasePartition
  \/ HiKeyFastbootPlatformGetVar \/ HiKeyFastbootPlatformOemCommand
  \/ HiKeyFastbootPlatformFlashPartitionEx
HiKey960Next ==
  \/ HiKey960FastbootPlatformInit \/ HiKey960FastbootPlatformUnInit
  \/ HiKey960FastbootPlatformFlashPartition \/ HiKey960FastbootPlatformErasePartition
  \/ HiKey960FastbootPlatformGetVar \/ HiKey960FastbootPlatformOemCommand
  \/ HiKey960FastbootPlatformFlashPartitionEx
PoplarNext ==
  \/ PoplarFastbootPlatformInit \/ PoplarFastbootPlatformUnInit
  \/ PoplarFastbootPlatformFlashPartition \/ PoplarFastbootPlatformErasePartition
  \/ PoplarFastbootPlatformGetVar \/ PoplarFastbootPlatformOemCommand
  \/ PoplarFastbootPlatformFlashPartitionEx
Next ==
  \/ Board = "HiKey" /\ HiKeyNext
  \/ Board = "HiKey960" /\ HiKey960Next
  \/ Board = "Poplar" /\ PoplarNext

Spec == Init /\ [][Next]_vars

(* ------------------------------ properties ----------------------------- *)

\* A call changes no block but those of what it names, except when its
\* range leaves the partition: by an offset that no check counts
\* (HiKeyFastbootDxe.c:624), by a table image longer than the table
\* (HiKeyFastbootDxe.c:303) or by a partition that ends before it starts
\* (HiKeyFastbootDxe.c:145).
Confined == hist.outside => hist.beyond

\* A serial number that was told is the one on the disk.
ToldSerialIsStored ==
  hist.serial # 0 => dev.disk[SERIAL_NUMBER_LBA] = Serial(hist.serial)

\* The list is that of the table or the records on the disk, so that a
\* name or number means the same blocks as long as fastboot runs, unless
\* reading or writing a table failed, or a call left its partition.
ListIsOfDisk ==
  drv.inited /\ ~hist.stale =>
    drv.list = CASE Board = "HiKey" -> HiKeyReadPartitionEntries(dev.disk)
                 [] Board = "HiKey960" -> HiKey960ReadPartitionEntries(dev.disk)
                 [] OTHER -> PoplarReadPartitionEntries(dev.disk, Last)

=============================================================================
