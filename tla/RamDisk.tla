------------------------------- MODULE RamDisk -------------------------------
\* Drivers/Block/ramdisk: a disk in memory, of a size that its image's
\* load options give in megabytes, formatted for a FAT file system, read
\* and written in blocks.
EXTENDS Integers, Sequences

CONSTANTS
  PcdRamDiskMaxSize,  \* megabytes without load options
  Options,            \* sizes in the load options; 0 where there are none
  Shifts,             \* how far from an edge of the disk accesses start
  Bounds              \* bounds: calls

VARIABLES drv, dev, hist

vars == <<drv, dev, hist>>

ConstantsOK ==
  /\ PcdRamDiskMaxSize \in 1 .. 512 /\ Options \subseteq Nat
  /\ Shifts \subseteq Nat /\ \A m \in Bounds : m.calls \in Nat

BlockSize == 512
PageSize == 4096
MB == 1048576

\* GetDiskSize: between one megabyte and 512.
GetDiskSize(option) ==
  IF option = 0 THEN PcdRamDiskMaxSize * MB
  ELSE MB * (IF option > 512 THEN 512 ELSE option)

\* The pages asked for: the remainder is taken of the wrong division.
NumPages(size) ==
  (size \div PageSize) + (IF (size \div PageSize) % size # 0 THEN 1 ELSE 0)

(* ------------------------------- the format ---------------------------- *)

fat16tbl == <<[size |-> 2048, spc |-> 1], [size |-> 4096, spc |-> 1],
              [size |-> 6144, spc |-> 1], [size |-> 32680, spc |-> 2],
              [size |-> 262144, spc |-> 4], [size |-> 524288, spc |-> 8],
              [size |-> 1048576, spc |-> 16]>>

\* Sectors per cluster: those of the first row that is large enough.
size2spc(ts) ==
  LET rows == {i \in DOMAIN fat16tbl : ts <= fat16tbl[i].size} IN
  IF rows = {} THEN 0 ELSE fat16tbl[CHOOSE i \in rows : \A j \in rows : i <= j].spc

\* FormatRamdisk: the boot sector's numbers.  The size of a FAT is the
\* known estimate by which 256 entries and the sectors of their clusters
\* share the disk.
RsvdSecCnt == 1
NumFATs == 2
RootDirSectors == ((512 * 32) + 511) \div 512
FormatRamdisk(size) ==
  LET total == size \div BlockSize
      spc == size2spc(total)
      tmp1 == total - (RsvdSecCnt + RootDirSectors)
      tmp2 == (256 * spc) + NumFATs
  IN [TotSec16 |-> IF total > 65535 THEN 0 ELSE total,
      TotSec32 |-> IF total > 65535 THEN total ELSE 0,
      SecPerClus |-> spc, FATSz16 |-> (tmp1 + tmp2 - 1) \div tmp2]

\* Where the media byte and the end marks are written: sectors one and this.
SecondFat(b) == RsvdSecCnt + b.FATSz16

(* ----------------------------- the accesses ---------------------------- *)

NoCall == [first |-> 0, count |-> 0, write |-> FALSE, status |-> "none"]

InitializeRamDiskDriver(size) ==
  [size |-> size, pages |-> NumPages(size), LastBlock |-> (size \div BlockSize) - 1,
   boot |-> FormatRamdisk(size)]

\* RamDiskReadBlocks and RamDiskWriteBlocks: a whole number of blocks, the
\* first and the last on the disk.  The last of no block at all is the one
\* before the first, and before block 0 it is far beyond the end.
Access(first, bytes) ==
  LET last == first + (bytes \div BlockSize) - 1 IN
  CASE bytes % BlockSize # 0 -> "BAD_BUFFER_SIZE"
    [] first > drv.LastBlock -> "DEVICE_ERROR"
    [] last > drv.LastBlock \/ last < 0 -> "DEVICE_ERROR"
    [] OTHER -> "SUCCESS"

Call(first, bytes, write) ==
  LET status == Access(first, bytes) IN
  /\ hist.calls < hist.max.calls
  /\ dev' = [first |-> first, count |-> bytes, write |-> write, status |-> status]
  /\ hist' = [hist EXCEPT !.calls = @ + 1,
       !.marks = IF write /\ status = "SUCCESS" /\ bytes # 0
                   THEN @ \cup {first, first + (bytes \div BlockSize) - 1} ELSE @]
  /\ UNCHANGED drv

\* Blocks near the start and the end of the disk.
Edges == Shifts \cup {drv.LastBlock + 1 - s : s \in Shifts} \cup {drv.LastBlock + 2}
Lengths == {0, 1, BlockSize, 3 * BlockSize}
RamDiskReadBlocks ==
  \E first \in Edges, bytes \in Lengths : Call(first, bytes, FALSE)
RamDiskWriteBlocks ==
  \E first \in Edges, bytes \in Lengths : Call(first, bytes, TRUE)

Init ==
  /\ \E option \in Options : drv = InitializeRamDiskDriver(GetDiskSize(option))
  /\ dev = NoCall
  /\ \E max \in Bounds : hist = [max |-> max, calls |-> 0, marks |-> {}]

Next == RamDiskReadBlocks \/ RamDiskWriteBlocks

Spec == Init /\ [][Next]_vars

(* ------------------------------ properties ----------------------------- *)

\* Blocks that a call touches lie in the pages allocated, and a call that
\* is refused asked for something off the disk, or for nothing at block 0.
StaysInMemory ==
  /\ \A b \in hist.marks : (b + 1) * BlockSize <= drv.pages * PageSize
  /\ dev.status = "DEVICE_ERROR" =>
       dev.first + (dev.count \div BlockSize) > drv.LastBlock + 1
         \/ dev.first > drv.LastBlock \/ (dev.first = 0 /\ dev.count = 0)

\* The format fits the disk: the sector count is the disk's, two FATs and
\* the root directory leave room for clusters, a FAT has an entry for each
\* of them, and FAT16 can number them.
FormatFits ==
  LET b == drv.boot
      total == b.TotSec16 + b.TotSec32
      data == total - RsvdSecCnt - RootDirSectors - (NumFATs * b.FATSz16)
  IN /\ b.SecPerClus # 0 /\ total = drv.LastBlock + 1 /\ data > 0
     /\ (data \div b.SecPerClus) + 2 <= 256 * b.FATSz16
     /\ (data \div b.SecPerClus) + 1 < 65527 /\ b.FATSz16 <= 65535
     /\ SecondFat(b) + b.FATSz16 + RootDirSectors + data = total

=============================================================================
