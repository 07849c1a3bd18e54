------------------------------ MODULE NorFlash ------------------------------
(***************************************************************************)
(* Chips/Hisilicon/Drivers/NorFlashDxe: the parallel NOR flash driver      *)
(* behind gUniNorFlashProtocolGuid.  A program operation can only clear    *)
(* bits, and the smallest thing that can be erased is a sector, so Erase   *)
(* and Write of a byte range copy the sector to RAM, erase it, program     *)
(* back what lies before and after the range and, for Write, program the   *)
(* new data.  The model has one step per command given to the chips        *)
(* (SectorErase, BufferWrite attempts); a command may reach only some of   *)
(* its words, and power may be lost between any two steps.                 *)
(*                                                                         *)
(* One cell stands for one 16-bit word.  Its value is the set of its bits  *)
(* that were programmed to 0: {} is the erased word 0xFFFF.  ParallelNum   *)
(* chips of ChipSize words share the data bus, so a sector has BlockSize * *)
(* ParallelNum words and a program unit BufferProgramSize << (ParallelNum  *)
(* - 1) words.  gIndex.Base is 0 at start.                                 *)
(***************************************************************************)
EXTENDS Integers, Sequences, FiniteSets, FiniteSetsExt

CONSTANTS
  Bits,               \* the bits of a word the properties tell apart
  ParallelNums,       \* the values of gFlashInfo[].ParallelNum explored
  ChipSize,           \* SingleChipSize, in words
  BlockSize,          \* BlockSize, in words of one chip
  BufferProgramSize,  \* words of one buffer program command, per chip
  Contents(_),        \* the flash contents explored for a number of words
  Payloads(_),        \* the buffers explored for a length
  MaxCalls            \* bound: calls of the protocol in a behaviour

ASSUME ConstantsAssumption ==
  /\ ParallelNums \subseteq {1, 2}
  /\ {ChipSize, BlockSize, BufferProgramSize} \subseteq Nat \ {0}
  /\ BlockSize % BufferProgramSize = 0
  /\ \A p \in ParallelNums : ChipSize % (BlockSize * p) = 0
  /\ \A n \in 0 .. 2 * ChipSize : /\ Contents(n) \subseteq [0 .. n - 1 -> SUBSET Bits]
                                  /\ Payloads(n) \subseteq [1 .. n -> SUBSET Bits]
  /\ MaxCalls \in Nat

VARIABLES
  par,      \* ParallelNum of the flash found by FlashInit
  flash,    \* the words of the chips
  base,     \* gIndex.Base, relative to PcdNORFlashBase
  pc,       \* "idle", or where the running call is
  call,     \* the running or the last call; home: gIndex.Base was not moved
  cur,      \* TempBase, Offset and the words of the call still to do
  ram,      \* FlashSectorErase's StaticBuffer
  jobs,     \* BufferWrite calls left in this sector
  tries     \* attempts made by the running SectorErase or BufferWrite

vars == <<par, flash, base, pc, call, cur, ram, jobs, tries>>

(* --------------------------- geometry and words ------------------------ *)

Erased == {}
Values == SUBSET Bits

\* The contents and buffers TLC explores: all programmed, all erased, alternating.
Patterns(S) ==
  {[i \in S |-> Bits], [i \in S |-> Erased], [i \in S |-> IF i % 2 = 0 THEN Bits ELSE Erased]}
PatternContents(n) == Patterns(0 .. n - 1)
PatternPayloads(n) == Patterns(1 .. n)

Total == ChipSize * par
Words == 0 .. Total - 1
SectorSize == BlockSize * par
UnitSize == IF par = 2 THEN 2 * BufferProgramSize ELSE BufferProgramSize
SectorOf(a) == a - (a % SectorSize)
UnitOf(a) == a - (a % UnitSize)

\* Reading an address outside the chips returns the idle bus.
Word(a) == IF a \in Words THEN flash[a] ELSE Erased

\* Read: the words at gIndex.Base + offset; it refuses a range beyond the
\* flash scope and an empty one.
ReadRefused(off, len) == off + len > Total \/ len = 0
Read(off, len) == [i \in 1 .. len |-> Word(base + off + i - 1)]

\* Slip: the comparison is left out, every sector is rewritten.
IsNeedToWriteAlways(addr, data) == data # <<>>

\* IsNeedToWrite: the words at addr differ from data.
IsNeedToWrite(addr, data) ==
  \E i \in 1 .. Len(data) : Word(addr + i - 1) # data[i]

\* WriteAfterErase splits a range into one BufferWrite per program unit it
\* touches: WriteAfterErase_Fill for an unaligned head or a short tail,
\* whole units in WriteAfterErase_Final.  When the head ends at the end of
\* the chip gIndex.Base is moved to the next chip.
Pieces(off, data) ==
  LET end   == off + Len(data)
      first == off \div UnitSize
      count == IF data = <<>> THEN 0 ELSE (end - 1) \div UnitSize - first + 1
      From(k) == Max({off, (first + k - 1) * UnitSize})
      To(k)   == Min({end, (first + k) * UnitSize})
  IN [k \in 1 .. count |->
        [at      |-> From(k),
         data    |-> SubSeq(data, From(k) - off + 1, To(k) - off),
         crosses |-> k = 1 /\ off % UnitSize # 0 /\ To(k) >= ChipSize]]

\* WriteAfterErase_Fill: the unit as it is in the flash, with the data over it.
JobWords(job) == job.at .. job.at + Len(job.data) - 1
NewWord(job, a) == IF a \in JobWords(job) THEN job.data[a - job.at + 1] ELSE Word(base + a)
NewDataUnit(job) == [i \in 0 .. UnitSize - 1 |-> NewWord(job, UnitOf(job.at) + i)]

\* The chips.  Of the words a command addresses only some may be reached
\* before the command fails or the power goes: all, none, or either half.
Reached(first, size) ==
  {first .. first + size - 1, {}, first .. first + (size \div 2) - 1,
   first + (size \div 2) .. first + size - 1}

\* Programming clears bits and never sets one.
Program(addr, unit, S) ==
  [a \in Words |-> IF a \in S THEN flash[a] \cup unit[a - addr] ELSE flash[a]]
EraseWords(S) == [a \in Words |-> IF a \in S THEN Erased ELSE flash[a]]

(* ------------------------------- the calls ----------------------------- *)

NoCall == [op |-> "none", off |-> 0, data |-> <<>>, home |-> TRUE,
           before |-> <<>>, status |-> "NONE", count |-> 0]
NoCur == [base |-> 0, off |-> 0, data |-> <<>>, sector |-> 0]

Return(status) ==
  /\ pc' = "idle"
  /\ call' = [call EXCEPT !.status = status]
  /\ cur' = NoCur
  /\ ram' = <<>>
  /\ jobs' = <<>>
  /\ tries' = 0

\* The address in the flash of the word the loop of Erase or Write is at.
Here == cur.base + cur.off
TempLength == Min({SectorSize - (cur.off % SectorSize), Len(cur.data)})
Part == SubSeq(cur.data, 1, TempLength)

Init ==
  /\ par \in ParallelNums
  /\ flash \in Contents(ChipSize * par)
  /\ base = 0
  /\ pc = "idle"
  /\ call = NoCall
  /\ cur = NoCur
  /\ ram = <<>>
  /\ jobs = <<>>
  /\ tries = 0

\* Entry of Erase and Write: a range beyond the scope is refused, an empty
\* one succeeds, and TempBase and Offset are set to the chip that holds
\* Offset.  Erase is described by the words it must leave behind.
Begin(op, off, data) ==
  LET new == [op |-> op, off |-> off, data |-> data, home |-> base = 0,
              before |-> flash, status |-> "RUNNING",
              count |-> call.count + 1]
      chip == off \div ChipSize
  IN /\ pc = "idle"
     /\ call.count < MaxCalls
     /\ IF off + Len(data) > Total
          THEN /\ call' = [new EXCEPT !.status = "INVALID"]
               /\ UNCHANGED <<pc, cur>>
          ELSE /\ call' = new
               /\ pc' = "loop"
               /\ cur' = [base |-> base + chip * ChipSize,
                          off |-> off - chip * ChipSize, data |-> data,
                          sector |-> 0]
     /\ UNCHANGED <<par, flash, base, ram, jobs, tries>>

CallErase ==
  \E off \in Words, len \in 0 .. Total :
    off + len <= Total + 1 /\ Begin("erase", off, [i \in 1 .. len |-> Erased])
CallWrite ==
  \E off \in Words, len \in 0 .. Total :
    \E data \in Payloads(len) :
      off + len <= Total + 1 /\ Begin("write", off, data)

\* Slip: Buffer, Offset and ulLength are not advanced.
AdvanceNone(n) == UNCHANGED cur

\* One iteration of the loop is over: the next sector, perhaps of the next chip.
Advance(n) ==
  LET off == cur.off + n IN
    cur' = IF off >= ChipSize
             THEN [cur EXCEPT !.base = @ + ChipSize, !.off = 0,
                              !.data = SubSeq(@, n + 1, Len(@))]
             ELSE [cur EXCEPT !.off = off, !.data = SubSeq(@, n + 1, Len(@))]

LoopDone ==
  /\ pc = "loop"
  /\ cur.data = <<>>
  /\ Return("SUCCESS")
  /\ UNCHANGED <<par, flash, base>>

\* Write leaves a sector alone that already holds the data.
SkipSector ==
  /\ pc = "loop"
  /\ cur.data # <<>>
  /\ call.op = "write"
  /\ ~IsNeedToWrite(Here, Part)
  /\ Advance(TempLength)
  /\ UNCHANGED <<par, flash, base, pc, call, ram, jobs, tries>>

\* FlashSectorErase: the whole sector is copied to RAM.
SaveSector ==
  /\ pc = "loop"
  /\ cur.data # <<>>
  /\ call.op = "write" => IsNeedToWrite(Here, Part)
  /\ LET sector == SectorOf(cur.off) IN
       /\ ram' = [i \in 1 .. SectorSize |-> Word(cur.base + sector + i - 1)]
       /\ cur' = [cur EXCEPT !.sector = sector]
  /\ pc' = "erase"
  /\ tries' = 0
  /\ UNCHANGED <<par, flash, base, call, jobs>>

\* SectorErase: the command, CompleteCheck on the first words of the
\* sector (FLASH_MAX_UNIT = 4 bytes), then width8IsAll on BlockSize bytes;
\* up to four attempts.  On success the parts of the sector before and
\* after the range are written back, then Write's own data.
MaxTries == 4
SectorStart == cur.base + cur.sector

EraseVerified(f) ==
  /\ \A a \in Words \cap (SectorStart + 2 - par .. SectorStart + 1) : f[a] = Erased
  /\ \A a \in Words \cap (SectorStart .. SectorStart + BlockSize - 1) : f[a] = Erased

\* Slip: what lies after the range is not written back.
SectorJobsNoTail ==
  Pieces(cur.sector, SubSeq(ram, 1, cur.off - cur.sector))
    \o (IF call.op = "write" THEN Pieces(cur.off, Part) ELSE <<>>)

SectorJobs ==
  LET head  == cur.off - cur.sector
      tail  == head + TempLength
  IN Pieces(cur.sector, SubSeq(ram, 1, head))
       \o Pieces(cur.sector + tail, SubSeq(ram, tail + 1, SectorSize))
       \o (IF call.op = "write" THEN Pieces(cur.off, Part) ELSE <<>>)

SectorErase ==
  /\ pc = "erase"
  /\ \E S \in Reached(SectorStart, SectorSize) :
       LET f == EraseWords(S) IN
         /\ flash' = f
         /\ \/ /\ EraseVerified(f)
               /\ pc' = "program"
               /\ jobs' = SectorJobs
               /\ tries' = 0
               /\ UNCHANGED <<call, cur, ram>>
            \/ /\ ~EraseVerified(f)
               /\ tries + 1 < MaxTries
               /\ tries' = tries + 1
               /\ UNCHANGED <<pc, call, cur, ram, jobs>>
            \/ /\ ~EraseVerified(f)
               /\ tries + 1 = MaxTries
               /\ Return("DEVICE_ERROR")
  /\ UNCHANGED <<par, base>>

\* BufferWrite of the next unit, at gIndex.Base: nothing is done when the
\* unit already holds the data; otherwise the program command,
\* CompleteCheck on the last word and a comparison of the whole unit, up
\* to four attempts.
Job == Head(jobs)
NextJob ==
  /\ jobs' = Tail(jobs)
  /\ IF Job.crosses
       THEN /\ base' = cur.base + ChipSize
            /\ call' = [call EXCEPT !.home = FALSE]
       ELSE UNCHANGED <<base, call>>
  /\ tries' = 0
  /\ UNCHANGED <<pc, cur, ram>>

UnitHolds(f, addr, unit) ==
  \A i \in DOMAIN unit :
    (IF addr + i \in Words THEN f[addr + i] ELSE Erased) = unit[i]

ProgramSkip ==
  /\ pc = "program"
  /\ jobs # <<>>
  /\ UnitHolds(flash, base + UnitOf(Job.at), NewDataUnit(Job))
  /\ NextJob
  /\ UNCHANGED <<par, flash>>

BufferWrite ==
  /\ pc = "program"
  /\ jobs # <<>>
  /\ LET addr == base + UnitOf(Job.at)
         unit == NewDataUnit(Job)
     IN /\ ~UnitHolds(flash, addr, unit)
        /\ \E S \in Reached(addr, UnitSize) :
             LET f == Program(addr, unit, S \cap Words) IN
               /\ flash' = f
               /\ \/ UnitHolds(f, addr, unit) /\ NextJob
                  \/ /\ ~UnitHolds(f, addr, unit)
                     /\ tries + 1 < MaxTries
                     /\ tries' = tries + 1
                     /\ UNCHANGED <<base, pc, call, cur, ram, jobs>>
                  \/ /\ ~UnitHolds(f, addr, unit)
                     /\ tries + 1 = MaxTries
                     /\ Return("DEVICE_ERROR")
                     /\ UNCHANGED base
  /\ UNCHANGED par

SectorDone ==
  /\ pc = "program"
  /\ jobs = <<>>
  /\ pc' = "loop"
  /\ Advance(TempLength)
  /\ ram' = <<>>
  /\ UNCHANGED <<par, flash, base, call, jobs, tries>>

\* AllocatePool fails for the sector copy or for the unit of a Fill.
OutOfMemory ==
  /\ \/ /\ pc = "loop"
        /\ cur.data # <<>>
        /\ call.op = "write" => IsNeedToWrite(Here, Part)
     \/ /\ pc = "program"
        /\ jobs # <<>>
        /\ Len(Job.data) < UnitSize
        /\ tries = 0
  /\ Return("OUT_OF_RESOURCES")
  /\ UNCHANGED <<par, flash, base>>

\* Power is lost; at the next boot InitializeFlash finds the same chips.
PowerLoss ==
  /\ pc # "idle"
  /\ Return("POWER_LOST")
  /\ base' = 0
  /\ UNCHANGED <<par, flash>>

Step == LoopDone \/ SkipSector \/ SaveSector \/ SectorErase \/ ProgramSkip
          \/ BufferWrite \/ SectorDone

Finished ==
  /\ pc = "idle"
  /\ call.count = MaxCalls
  /\ UNCHANGED vars

Next == CallErase \/ CallWrite \/ Step \/ OutOfMemory \/ PowerLoss \/ Finished

Spec == Init /\ [][Next]_vars /\ WF_vars(Step)

(* ------------------------------ properties ----------------------------- *)

Statuses == {"NONE", "RUNNING", "SUCCESS", "INVALID", "DEVICE_ERROR", "OUT_OF_RESOURCES",
             "POWER_LOST"}
Calls == [op : {"none", "erase", "write"}, off : Nat, data : Seq(Values), home : BOOLEAN,
          before : {<<>>} \cup [Words -> Values], status : Statuses, count : Nat]
Jobs == [at : Nat, data : Seq(Values), crosses : BOOLEAN]

\* Types of all variables.
TypeOK ==
  /\ par \in ParallelNums
  /\ flash \in [Words -> Values]
  /\ base \in Nat /\ base % ChipSize = 0
  /\ pc \in {"idle", "loop", "erase", "program"}
  /\ call \in Calls /\ ((call.status = "RUNNING") <=> (pc # "idle"))
  /\ cur \in [base : Nat, off : Nat, data : Seq(Values), sector : Nat]
  /\ cur.base % ChipSize = 0 /\ cur.off < ChipSize
  /\ ram \in Seq(Values) /\ jobs \in Seq(Jobs)
  /\ tries \in 0 .. MaxTries - 1

Asked(c) == c.off .. c.off + Len(c.data) - 1

\* What the flash is to hold once the call has done its work.
Expected(c) ==
  [a \in Words |-> IF a \in Asked(c) THEN c.data[a - c.off + 1] ELSE c.before[a]]

\* The calls for which the driver's addresses are right: gIndex.Base has
\* not been moved (call.home), and all of the range lies in the first chip's address
\* range (WriteAfterErase programs at gIndex.Base whatever TempBase is),
\* or the call erases whole sectors and has nothing to write back.
WholeSectors(c) ==
  /\ c.op = "erase"
  /\ c.off % SectorSize = 0
  /\ Len(c.data) % SectorSize = 0
AtHome ==
  /\ call.home
  /\ call.off + Len(call.data) <= ChipSize \/ WholeSectors(call)

\* A successful Erase or Write did exactly what was asked: the range holds
\* the data, or is erased, and every other word of the flash, the saved
\* and rewritten neighbours in the same sector included, is as before.
\* SectorErase verifies BlockSize words only, so with two chips an erased
\* range is certain in the first half of each sector.
Unverified(c) ==
  {a \in Asked(c) : c.op = "erase" /\ a % SectorSize >= BlockSize}
SuccessMeansDone ==
  call.status = "SUCCESS" /\ AtHome =>
    \A a \in Words \ Unverified(call) : flash[a] = Expected(call)[a]

\* Sectors are rewritten one at a time, in order.  Whenever the call is
\* interrupted by a failing command, missing memory or power loss, all the
\* sectors below some sector are finished and all those above it untouched
\* so only one sector can have lost data.
OneSectorAtRisk ==
  call.status \notin {"NONE", "INVALID"} /\ AtHome =>
    \E s \in {SectorOf(a) : a \in Words} :
      /\ \A a \in Words \ Unverified(call) :
           a < s => flash[a] = Expected(call)[a]
      /\ \A a \in Words :
           a >= s + SectorSize => flash[a] = call.before[a]

\* A Write that asks for what a sector already holds never erases or
\* programs that sector, so rewriting the same data is free of risk even
\* if it is interrupted.
RewriteKeepsSector ==
  call.op = "write" /\ call.status # "INVALID" /\ AtHome =>
    \A s \in {SectorOf(a) : a \in Words} :
      LET sector == s .. s + SectorSize - 1 IN
        (\A a \in sector : Expected(call)[a] = call.before[a]) =>
           \A a \in sector : flash[a] = call.before[a]

\* Read returns, at the same offset, what a successful Write has stored.
\* WriteAfterErase moves gIndex.Base for good when an unaligned head ends
\* at the end of the chip, and every later access goes to other addresses.
ReadsBack ==
  call.op = "write" /\ call.status = "SUCCESS" /\ call.data # <<>> =>
    Read(call.off, Len(call.data)) = call.data

\* What is true of every call: it lies in the flash, and a sector in work has been
\* copied as a whole.
CallInv ==
  /\ call.status \notin {"NONE", "INVALID"} =>
       /\ call.op # "none" /\ call.before \in [Words -> Values]
       /\ call.off + Len(call.data) <= Total
  /\ call.op = "erase" => \A i \in 1 .. Len(call.data) : call.data[i] = Erased
  /\ pc \in {"erase", "program"} =>
       cur.data # <<>> /\ cur.sector = SectorOf(cur.off) /\ Len(ram) = SectorSize

\* What lies below lo is as it is to be, what lies from hi on is as it was.
Between(lo, hi) ==
  /\ \A a \in Words \ Unverified(call) : a < lo => flash[a] = Expected(call)[a]
  /\ \A a \in Words : a >= hi => flash[a] = call.before[a]

\* The loop of a call whose addresses are right: Position is the word it
\* is at, the rest of the buffer is still to do, and every round but the
\* first begins with a sector.
Position == call.off + Len(call.data) - Len(cur.data)
LoopInv ==
  pc # "idle" /\ AtHome =>
    /\ base = 0 /\ Here = Position /\ Len(cur.data) <= Len(call.data)
    /\ \A i \in 1 .. Len(cur.data) :
         cur.data[i] = call.data[Len(call.data) - Len(cur.data) + i]
    /\ cur.data # <<>> =>
         /\ Position = call.off \/ Position % SectorSize = 0
         /\ cur.base = 0 \/ WholeSectors(call)
    /\ pc = "loop" => Between(Position, Position)

\* The sector in work: the copy in RAM is what it held, a Write needs it
\* changed, and after the erase each of its words has its new contents or
\* a job that will write them.
Sector == SectorStart .. SectorStart + SectorSize - 1
SectorInv ==
  pc \in {"erase", "program"} /\ AtHome =>
    /\ Between(SectorStart, SectorStart + SectorSize)
    /\ \A i \in 1 .. SectorSize : ram[i] = call.before[SectorStart + i - 1]
    /\ call.op = "write" => \E a \in Sector : Expected(call)[a] # call.before[a]
    /\ pc = "program" =>
         /\ \A k \in 1 .. Len(jobs) :
              /\ JobWords(jobs[k]) \subseteq Sector
              /\ jobs[k].at + Len(jobs[k].data) <= UnitOf(jobs[k].at) + UnitSize
              /\ \A i \in 1 .. Len(jobs[k].data) :
                   jobs[k].data[i] = Expected(call)[jobs[k].at + i - 1]
         /\ \A a \in Sector \ Unverified(call) :
              flash[a] = Expected(call)[a] \/ \E k \in 1 .. Len(jobs) : a \in JobWords(jobs[k])

\* What an interruption can cost: the two above, with what they rest on.
SectorsAtRisk ==
  TypeOK /\ OneSectorAtRisk /\ RewriteKeepsSector /\ CallInv /\ LoopInv /\ SectorInv

\* Every call returns: the attempts are bounded and the loop makes progress.
EveryCallReturns == (pc # "idle") ~> (pc = "idle")

=============================================================================
