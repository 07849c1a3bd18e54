-------------------------- MODULE FlashFvb_proofs ---------------------------
\* Proofs about FlashFvb, for any contents, any size and place of the
\* region, any number of calls, and any failures and losses of power.
EXTENDS FlashFvb, TLAPS

USE ConstantsAssumption

(***************************************************************************)
(* The flash: what an access does to the blocks and slots of the region.   *)
(***************************************************************************)
LEMMA Geometry ==
  /\ \A l \in Lbas : Block(l) \in Blocks /\ Block(l) \in Region
  /\ \A l, m \in Lbas : Block(l) = Block(m) => l = m
  /\ 0 \in Lbas /\ 0 \in Slots
  BY DEF Lbas, Block, Blocks, Region, Slots

\* The writes of the driver fit in one block, and change that block only.
LEMMA ReplaceBlock ==
  ASSUME dev \in [Blocks -> Rows], NEW b \in Blocks, NEW off \in Nat,
         NEW data \in Seq(Values), off + Len(data) <= BlockSize
  PROVE  Replace(b, off, data) = [dev EXCEPT ![b] = Overlay(dev[b], off, data)]
<1>1. Len(data) \in Nat /\ BlockSize \in Nat OBVIOUS
<1>2. ASSUME NEW c \in Blocks, c # b, NEW s \in Slots
      PROVE  (c - b) * BlockSize + s - off + 1 \notin 1 .. Len(data)
  <2>1. c \in Int /\ b \in Int /\ s \in 0 .. BlockSize - 1 BY DEF Blocks, Slots
  <2>2. CASE c > b
    <3>1. PICK k \in Nat : c - b = k + 1
      <4>1. c - b - 1 \in Nat BY <2>1, <2>2
      <4> QED BY <2>1, <4>1
    <3>2. k * BlockSize \in Nat BY <1>1
    <3>3. (k + 1) * BlockSize = k * BlockSize + BlockSize BY <1>1
    <3> QED BY <1>1, <2>1, <3>1, <3>2, <3>3
  <2>3. CASE c < b
    <3>1. PICK k \in Nat : c - b = -(k + 1)
      <4>1. b - c - 1 \in Nat BY <2>1, <2>3
      <4> QED BY <2>1, <4>1
    <3>2. k * BlockSize \in Nat BY <1>1
    <3>3. (-(k + 1)) * BlockSize = -(k * BlockSize) - BlockSize BY <1>1
    <3> QED BY <1>1, <2>1, <3>1, <3>2, <3>3
  <2> QED BY <1>2, <2>1, <2>2, <2>3
<1>3. ASSUME NEW c \in Blocks, c # b
      PROVE  [s \in Slots |-> LET i == (c - b) * BlockSize + s - off + 1 IN
                IF i \in 1 .. Len(data) THEN data[i] ELSE dev[c][s]] = dev[c]
  <2>1. dev[c] \in [Slots -> Values] BY DEF Rows
  <2> QED BY <1>2, <1>3, <2>1
<1>4. [s \in Slots |-> LET i == (b - b) * BlockSize + s - off + 1 IN
         IF i \in 1 .. Len(data) THEN data[i] ELSE dev[b][s]] = Overlay(dev[b], off, data)
  <2>1. (b - b) * BlockSize = 0 BY <1>1 DEF Blocks
  <2>2. ASSUME NEW s \in Slots
        PROVE  (IF (b - b) * BlockSize + s - off + 1 \in 1 .. Len(data)
                  THEN data[(b - b) * BlockSize + s - off + 1] ELSE dev[b][s])
               = (IF s \in off .. off + Len(data) - 1 THEN data[s - off + 1] ELSE dev[b][s])
    <3>1. (b - b) * BlockSize + s - off + 1 = s - off + 1 BY <2>1 DEF Slots
    <3>2. s - off + 1 \in 1 .. Len(data) <=> s \in off .. off + Len(data) - 1
      BY <1>1 DEF Slots
    <3> QED BY <3>1, <3>2
  <2> QED BY <2>2 DEF Overlay
<1> QED BY <1>3, <1>4 DEF Replace

LEMMA OverlayFacts ==
  ASSUME NEW row \in Rows, NEW off \in Nat, NEW data \in Seq(Values)
  PROVE  /\ Overlay(row, off, data) \in Rows
         /\ \A s \in Slots : Overlay(row, off, data)[s] = row[s] \/
              \E i \in 1 .. Len(data) : s = off + i - 1 /\ Overlay(row, off, data)[s] = data[i]
<1>1. ASSUME NEW s \in Slots, s \in off .. off + Len(data) - 1
      PROVE  s - off + 1 \in 1 .. Len(data) /\ s = off + (s - off + 1) - 1
  BY <1>1 DEF Slots
<1>2. \A s \in Slots : s \in off .. off + Len(data) - 1 => data[s - off + 1] \in Values
  BY <1>1
<1>3. Overlay(row, off, data) \in Rows BY <1>2 DEF Overlay, Rows
<1>4. ASSUME NEW s \in Slots
      PROVE  Overlay(row, off, data)[s] = row[s] \/
               \E i \in 1 .. Len(data) : s = off + i - 1 /\ Overlay(row, off, data)[s] = data[i]
  <2>1. CASE s \in off .. off + Len(data) - 1
    <3>1. Overlay(row, off, data)[s] = data[s - off + 1] BY <2>1 DEF Overlay
    <3> QED BY <1>1, <2>1, <3>1
  <2>2. CASE s \notin off .. off + Len(data) - 1 BY <2>2 DEF Overlay
  <2> QED BY <2>1, <2>2
<1> QED BY <1>3, <1>4

\* An access that fails, or is interrupted, brings back nothing.
LEMMA DamageFacts ==
  ASSUME dev \in [Blocks -> Rows], NEW b \in Blocks, NEW row \in Damage(b)
  PROVE  row \in Rows /\ \A s \in Slots : row[s] \in {dev[b][s], Erased, Lost}
<1>1. Row(Erased) \in Rows /\ Row(Lost) \in Rows BY DEF Row, Rows, Values
<1> QED BY <1>1 DEF Damage, Row

\* What one access does to the invariants that relate the flash, the
\* clients' view of it and the blocks at risk.
FlashInv ==
  /\ dev \in [Blocks -> Rows] /\ acked \in [Lbas -> Rows] /\ risk \subseteq Lbas
  /\ AckedSurvives /\ NoStaleUnderHeader

OutsideKept == ~wild' => \A b \in Blocks \ Region : dev'[b] = dev[b]

\* One block of the region changes, the others do not.
LEMMA StoreFacts ==
  ASSUME dev \in [Blocks -> Rows], NEW l \in Lbas, NEW row \in Rows,
         dev' = [dev EXCEPT ![Block(l)] = row]
  PROVE  /\ dev' \in [Blocks -> Rows] /\ dev'[Block(l)] = row
         /\ \A m \in Lbas : m # l => dev'[Block(m)] = dev[Block(m)]
         /\ \A b \in Blocks \ Region : dev'[b] = dev[b]
  BY Geometry

\* An access that goes wrong.
LEMMA DamageKeeps ==
  ASSUME FlashInv, NEW l \in Lbas, \E row \in Damage(Block(l)) : Store(Block(l), row),
         risk' = risk \cup {l}, acked' = acked
  PROVE  /\ FlashInv' /\ OutsideKept
         /\ Header' = Hdr => Header = Hdr
         /\ \A ls \in SUBSET Lbas : Clean(ls) => Clean(ls)'
<1>1. PICK row \in Damage(Block(l)) : dev' = [dev EXCEPT ![Block(l)] = row] BY DEF Store
<1>2. dev \in [Blocks -> Rows] /\ Block(l) \in Blocks BY Geometry DEF FlashInv
<1>3. row \in Rows /\ \A s \in Slots : row[s] \in {dev[Block(l)][s], Erased, Lost}
  BY <1>1, <1>2, DamageFacts
<1>4. /\ dev' \in [Blocks -> Rows] /\ dev'[Block(l)] = row
      /\ \A m \in Lbas : m # l => dev'[Block(m)] = dev[Block(m)]
      /\ \A b \in Blocks \ Region : dev'[b] = dev[b]
  BY <1>1, <1>2, <1>3, StoreFacts
<1>5. \A m \in Lbas, s \in Slots : dev'[Block(m)][s] \in {dev[Block(m)][s], Erased, Lost}
  BY <1>3, <1>4
<1>6. Header' = Hdr => Header = Hdr BY <1>5, Geometry DEF Header, Hdr, Erased, Lost
<1>7. \A ls \in SUBSET Lbas : Clean(ls) => Clean(ls)'
  BY <1>5 DEF Clean, Junk, Erased, Lost
<1>8. NoStaleUnderHeader' BY <1>6, <1>7 DEF FlashInv, NoStaleUnderHeader, ValidateFvHeader
<1>9. AckedSurvives' BY <1>4 DEF FlashInv, AckedSurvives
<1> QED BY <1>4, <1>6, <1>7, <1>8, <1>9 DEF FlashInv, OutsideKept

\* An access that is interrupted before it has changed anything, or a block that
\* is not in the region.
LEMMA ElsewhereKeeps ==
  ASSUME FlashInv, NEW b \in Blocks \ Region, NEW row \in Rows, wild',
         dev' = [dev EXCEPT ![b] = row], risk' = risk, acked' = acked
  PROVE  /\ FlashInv' /\ OutsideKept
         /\ \A l \in Lbas : dev'[Block(l)] = dev[Block(l)]
<1>1. dev' \in [Blocks -> Rows] BY DEF FlashInv
<1>2. \A l \in Lbas : dev'[Block(l)] = dev[Block(l)] BY Geometry DEF FlashInv
<1>3. Header' = Header BY <1>2, Geometry DEF Header
<1>4. AckedSurvives' BY <1>2 DEF FlashInv, AckedSurvives
<1>5. NoStaleUnderHeader'
  BY <1>2, <1>3 DEF FlashInv, NoStaleUnderHeader, ValidateFvHeader, Clean
<1> QED BY <1>1, <1>2, <1>4, <1>5 DEF FlashInv, OutsideKept

\* The erase of a block.
LEMMA EraseKeeps ==
  ASSUME FlashInv, NEW l \in Lbas, Store(Block(l), Row(Erased)),
         risk' = risk \ {l}, acked' = [acked EXCEPT ![l] = Row(Erased)]
  PROVE  /\ FlashInv' /\ OutsideKept
         /\ Header' = Hdr => Header = Hdr
         /\ \A ls \in SUBSET Lbas : Clean(ls) => Clean(ls \cup {l})'
<1>1. Row(Erased) \in Rows BY DEF Row, Rows, Values
<1>2. dev \in [Blocks -> Rows] /\ dev' = [dev EXCEPT ![Block(l)] = Row(Erased)]
  BY DEF FlashInv, Store
<1>3. /\ dev' \in [Blocks -> Rows] /\ dev'[Block(l)] = Row(Erased)
      /\ \A m \in Lbas : m # l => dev'[Block(m)] = dev[Block(m)]
      /\ \A b \in Blocks \ Region : dev'[b] = dev[b]
  BY <1>1, <1>2, StoreFacts
<1>4. \A s \in Slots : dev'[Block(l)][s] = Erased BY <1>3 DEF Row
<1>5. Header' = Hdr => Header = Hdr BY <1>3, <1>4, Geometry DEF Header, Hdr, Erased
<1>6. \A ls \in SUBSET Lbas : Clean(ls) => Clean(ls \cup {l})'
  BY <1>3, <1>4 DEF Clean, Junk, Erased
<1>7. NoStaleUnderHeader'
  <2>1. Lbas \in SUBSET Lbas /\ Lbas \cup {l} = Lbas OBVIOUS
  <2> QED BY <2>1, <1>5, <1>6 DEF FlashInv, NoStaleUnderHeader, ValidateFvHeader
<1>8. acked' \in [Lbas -> Rows] /\ AckedSurvives'
  BY <1>1, <1>3 DEF FlashInv, AckedSurvives
<1> QED BY <1>3, <1>5, <1>6, <1>7, <1>8 DEF FlashInv, OutsideKept

\* A write into a block of the region; a header goes to its place only, and only
\* where there is one or where the region has been erased.
LEMMA WriteKeeps ==
  ASSUME FlashInv, NEW l \in Lbas, NEW off \in Nat,
         NEW data \in Seq(Data \cup {Hdr, Erased}), off + Len(data) <= BlockSize,
         \A i \in 1 .. Len(data) : data[i] = Hdr =>
           i = 1 /\ l = 0 /\ off = 0 /\ (Header = Hdr \/ Clean(Lbas)),
         dev' = Replace(Block(l), off, data), risk' = risk,
         acked' = [acked EXCEPT ![l] = Overlay(@, off, data)]
  PROVE  /\ FlashInv' /\ OutsideKept
<1>0. data \in Seq(Values) BY DEF Values
<1>1. dev \in [Blocks -> Rows] /\ Block(l) \in Blocks BY Geometry DEF FlashInv
<1>3. PICK old \in Rows : old = dev[Block(l)] BY <1>1
<1> DEFINE row == Overlay(old, off, data)
<1>2. dev' = [dev EXCEPT ![Block(l)] = row] BY <1>0, <1>1, <1>3, ReplaceBlock
<1>4. /\ row \in Rows
      /\ \A s \in Slots : row[s] = old[s] \/
           \E i \in 1 .. Len(data) : s = off + i - 1 /\ row[s] = data[i]
  BY <1>0, OverlayFacts
<1> HIDE DEF row
<1>5. /\ dev' \in [Blocks -> Rows] /\ dev'[Block(l)] = row
      /\ \A m \in Lbas : m # l => dev'[Block(m)] = dev[Block(m)]
      /\ \A b \in Blocks \ Region : dev'[b] = dev[b]
  BY <1>1, <1>2, <1>4, StoreFacts
<1>6. \A i \in 1 .. Len(data) : data[i] # Junk
  <2>1. Junk \notin Data \cup {Hdr, Erased} BY DEF Junk, Hdr, Erased
  <2> QED BY <2>1
<1>7. Clean(Lbas) => Clean(Lbas)'
  <2>1. \A s \in Slots : old[s] # Junk => row[s] # Junk BY <1>4, <1>6
  <2> QED BY <1>3, <1>5, <2>1 DEF Clean
<1>8. Header' = Hdr => Header = Hdr \/ Clean(Lbas)
  <2>1. SUFFICES ASSUME Header' = Hdr, Header # Hdr PROVE Clean(Lbas) OBVIOUS
  <2>2. l = 0 BY <2>1, <1>5, Geometry DEF Header
  <2>3. row[0] = Hdr /\ row[0] # old[0] BY <1>3, <2>1, <2>2, <1>5 DEF Header
  <2>4. PICK i \in 1 .. Len(data) : data[i] = Hdr BY <2>3, <1>4, Geometry
  <2> QED BY <2>1, <2>4
<1>9. NoStaleUnderHeader' BY <1>7, <1>8 DEF FlashInv, NoStaleUnderHeader, ValidateFvHeader
<1>10. acked[l] \in Rows BY DEF FlashInv
<1>11. Overlay(acked[l], off, data) \in Rows BY <1>0, <1>10, OverlayFacts
<1>12. acked' = [acked EXCEPT ![l] = Overlay(acked[l], off, data)] OBVIOUS
<1>13. acked' \in [Lbas -> Rows] BY <1>11, <1>12 DEF FlashInv
<1>14. l \notin risk => row = Overlay(acked[l], off, data)
  BY <1>3 DEF FlashInv, AckedSurvives, row
<1>15. AckedSurvives' BY <1>5, <1>12, <1>14 DEF FlashInv, AckedSurvives
<1> QED BY <1>5, <1>9, <1>13, <1>15 DEF FlashInv, OutsideKept

\* The inductive invariant: the types, with what is known of the running
\* call and of a formatting under way, and the three facts about the flash.
IInv == RequestsChecked /\ AckedSurvives /\ WipesOnlyInvalid /\ NoStaleUnderHeader

\* What the clients ask for.
Asked(new) ==
  /\ new \in Calls /\ new.before = dev /\ new.status = "RUNNING" /\ new.op # "none"
  /\ new.op \in {"FvbWrite", "WriteBlocks"} =>
       /\ new.op = "FvbWrite" /\ new.lba \notin Lbas => wild'
       /\ new.op = "WriteBlocks" => new.off = 0
       /\ \A i \in 1 .. Len(new.data) : new.data[i] = Hdr =>
            i = 1 /\ new.lba = 0 /\ new.off = 0 /\ Header = Hdr

Call == CallFvbWrite \/ CallFvbRead \/ CallFvbEraseBlocks \/ CallWriteBlocks

LEMMA CallsAsk ==
  ASSUME TypeOK, Call
  PROVE  wild' \in BOOLEAN /\ \E new : Asked(new) /\ Enter(new)
<1>1. /\ <<>> \in Seq(Data \cup {Hdr, Erased}) /\ <<>> \in Ranges /\ 0 \in Nat
      /\ dev \in [Blocks -> Rows] /\ Lbas \subseteq Nat
      /\ {"FvbWrite", "FvbRead", "FvbEraseBlocks", "WriteBlocks"} \subseteq Ops
  BY DEF TypeOK, Ranges, Lbas, Ops
<1>2. CASE CallFvbWrite
  <2>1. PICK lba \in 0 .. RegionBlocks, off \in 0 .. BlockSize, n \in 0 .. BlockSize + 1,
             d \in Data :
          LET data == [i \in 1 .. n |-> IF lba = 0 /\ off = 0 /\ i = 1 THEN Hdr ELSE d]
          IN /\ lba = 0 /\ off = 0 /\ n > 0 => Header = Hdr
             /\ Enter(Request("FvbWrite", lba, off, data, <<>>))
             /\ wild' = (wild \/ lba \notin Lbas)
    BY <1>2 DEF CallFvbWrite
  <2>2. n \in Nat /\ lba \in Nat /\ off \in Nat OBVIOUS
  <2>3. d # Hdr BY DEF Hdr
  <2>4. PICK data \in Seq(Data \cup {Hdr, Erased}) :
          data = [i \in 1 .. n |-> IF lba = 0 /\ off = 0 /\ i = 1 THEN Hdr ELSE d]
    <3> DEFINE data == [i \in 1 .. n |-> IF lba = 0 /\ off = 0 /\ i = 1 THEN Hdr ELSE d]
    <3>1. data \in Seq(Data \cup {Hdr, Erased}) BY <2>2
    <3> QED BY <3>1
  <2>5. Len(data) = n BY <2>2, <2>4
  <2>6. \A i \in 1 .. Len(data) : data[i] = Hdr => i = 1 /\ lba = 0 /\ off = 0 /\ Header = Hdr
    BY <2>1, <2>2, <2>3, <2>4, <2>5
  <2>7. wild' \in BOOLEAN /\ (lba \notin Lbas => wild') BY <2>1
  <2>8. PICK new : new = Request("FvbWrite", lba, off, data, <<>>) OBVIOUS
  <2>9. Enter(new) BY <2>1, <2>4, <2>8
  <2>10. Asked(new)
    <3>1. /\ new \in Calls /\ new.op = "FvbWrite" /\ new.lba = lba /\ new.off = off
          /\ new.data = data /\ new.before = dev /\ new.status = "RUNNING"
      BY <1>1, <2>2, <2>8 DEF Request, Calls, Statuses
    <3> QED BY <3>1, <2>6, <2>7 DEF Asked
  <2> QED BY <2>7, <2>9, <2>10
<1>3. CASE CallFvbRead
  <2>1. PICK lba \in Lbas :
          /\ Enter(Request("FvbRead", lba, 0, <<Erased>>, <<>>)) /\ wild' = wild
    BY <1>3 DEF CallFvbRead
  <2>2. PICK data \in Seq(Data \cup {Hdr, Erased}) : data = <<Erased>>
    <3>1. <<Erased>> \in Seq(Data \cup {Hdr, Erased}) OBVIOUS
    <3> QED BY <3>1
  <2>3. PICK new : new = Request("FvbRead", lba, 0, data, <<>>) OBVIOUS
  <2>4. Enter(new) BY <2>1, <2>2, <2>3
  <2>5. lba \in Nat BY <1>1
  <2>6. Asked(new)
    <3>1. /\ new \in Calls /\ new.op = "FvbRead" /\ new.lba = lba /\ new.off = 0
          /\ new.data = data /\ new.before = dev /\ new.status = "RUNNING"
      BY <1>1, <2>3, <2>5 DEF Request, Calls, Statuses
    <3> QED BY <3>1 DEF Asked
  <2> QED BY <2>1, <2>4, <2>6 DEF TypeOK
<1>4. CASE CallFvbEraseBlocks
  <2>1. PICK l1 \in 0 .. RegionBlocks, n1 \in 0 .. RegionBlocks :
          \E list \in {<< <<l1, n1>> >>} \cup
                      {<< <<l1, n1>>, <<l2, 1>> >> : l2 \in 0 .. RegionBlocks} :
            /\ Enter(Request("FvbEraseBlocks", 0, 0, <<>>, list)) /\ wild' = wild
    BY <1>4 DEF CallFvbEraseBlocks
  <2>2. PICK list \in {<< <<l1, n1>> >>} \cup
                      {<< <<l1, n1>>, <<l2, 1>> >> : l2 \in 0 .. RegionBlocks} :
            /\ Enter(Request("FvbEraseBlocks", 0, 0, <<>>, list)) /\ wild' = wild
    BY <2>1
  <2>3. list \in Ranges
    <3>1. CASE list = << <<l1, n1>> >> BY <3>1 DEF Ranges
    <3>2. CASE \E l2 \in 0 .. RegionBlocks : list = << <<l1, n1>>, <<l2, 1>> >>
      <4>1. PICK l2 \in 0 .. RegionBlocks : list = << <<l1, n1>>, <<l2, 1>> >> BY <3>2
      <4> QED BY <4>1 DEF Ranges
    <3> QED BY <2>2, <3>1, <3>2
  <2>4. PICK new : new = Request("FvbEraseBlocks", 0, 0, <<>>, list) OBVIOUS
  <2>5. Enter(new) BY <2>2, <2>4
  <2>6. Asked(new)
    <3>1. /\ new \in Calls /\ new.op = "FvbEraseBlocks" /\ new.lba = 0 /\ new.off = 0
          /\ new.data = <<>> /\ new.before = dev /\ new.status = "RUNNING"
      BY <1>1, <2>3, <2>4 DEF Request, Calls, Statuses
    <3> QED BY <3>1 DEF Asked
  <2> QED BY <2>2, <2>5, <2>6 DEF TypeOK
<1>5. CASE CallWriteBlocks
  <2>1. PICK lba \in 0 .. RegionBlocks, n \in 0 .. 2 * BlockSize, d \in Data :
          LET data == [i \in 1 .. n |-> IF lba = 0 /\ i = 1 THEN Hdr ELSE d]
          IN /\ lba = 0 /\ n > 0 => Header = Hdr
             /\ Enter(Request("WriteBlocks", lba, 0, data, <<>>))
             /\ wild' = wild
    BY <1>5 DEF CallWriteBlocks
  <2>2. n \in Nat /\ lba \in Nat OBVIOUS
  <2>3. d # Hdr BY DEF Hdr
  <2>4. PICK data \in Seq(Data \cup {Hdr, Erased}) :
          data = [i \in 1 .. n |-> IF lba = 0 /\ i = 1 THEN Hdr ELSE d]
    <3> DEFINE data == [i \in 1 .. n |-> IF lba = 0 /\ i = 1 THEN Hdr ELSE d]
    <3>1. data \in Seq(Data \cup {Hdr, Erased}) BY <2>2
    <3> QED BY <3>1
  <2>5. Len(data) = n BY <2>2, <2>4
  <2>6. \A i \in 1 .. Len(data) : data[i] = Hdr => i = 1 /\ lba = 0 /\ Header = Hdr
    BY <2>1, <2>2, <2>3, <2>4, <2>5
  <2>7. PICK new : new = Request("WriteBlocks", lba, 0, data, <<>>) OBVIOUS
  <2>8. Enter(new) BY <2>1, <2>4, <2>7
  <2>9. Asked(new)
    <3>1. /\ new \in Calls /\ new.op = "WriteBlocks" /\ new.lba = lba /\ new.off = 0
          /\ new.data = data /\ new.before = dev /\ new.status = "RUNNING"
      BY <1>1, <2>2, <2>7 DEF Request, Calls, Statuses
    <3> QED BY <3>1, <2>6 DEF Asked
  <2> QED BY <2>1, <2>8, <2>9 DEF TypeOK
<1> QED BY <1>2, <1>3, <1>4, <1>5 DEF Call

\* The ranges that are left to erase.
LEMMA RemainingFacts ==
  ASSUME todo \in Ranges, ListValid(todo), todo # <<>>
  PROVE  /\ Head(todo)[1] \in Lbas /\ Head(todo)[1] \in Nat /\ Head(todo) = todo[1]
         /\ Remaining \in Ranges /\ ListValid(Remaining)
<1>1. /\ Head(todo) = todo[1] /\ todo[1] \in Nat \X Nat /\ Tail(todo) \in Ranges
      /\ Len(todo) \in Nat /\ 1 \in 1 .. Len(todo) /\ Len(Tail(todo)) = Len(todo) - 1
      /\ \A i \in 1 .. Len(Tail(todo)) : i + 1 \in 1 .. Len(todo) /\ Tail(todo)[i] = todo[i + 1]
  BY DEF Ranges
<1>2. PICK a \in Nat, n \in Nat : todo[1] = <<a, n>> BY <1>1
<1>3. n # 0 /\ a + n - 1 <= RegionBlocks - 1 BY <1>1, <1>2 DEF ListValid
<1>4. a \in Lbas BY <1>3 DEF Lbas
<1>5. ListValid(Tail(todo)) BY <1>1 DEF ListValid
<1>6. CASE n > 1
  <2> DEFINE r == << <<a + 1, n - 1>> >> \o Tail(todo)
  <2>1. Remaining = r BY <1>1, <1>2, <1>6 DEF Remaining
  <2>2. <<a + 1, n - 1>> \in Nat \X Nat BY <1>6
  <2>3. << <<a + 1, n - 1>> >> \in Ranges BY <2>2 DEF Ranges
  <2>4. r \in Ranges BY <1>1, <2>3 DEF Ranges
  <2>5. Len(r) = 1 + Len(Tail(todo)) /\ r[1] = <<a + 1, n - 1>> BY <1>1, <2>3 DEF Ranges
  <2>6. \A i \in 1 .. Len(r) : i > 1 => i - 1 \in 1 .. Len(Tail(todo)) /\ r[i] = Tail(todo)[i - 1]
    BY <1>1, <2>3, <2>5 DEF Ranges
  <2> HIDE DEF r
  <2>7. ListValid(r)
    <3>1. SUFFICES ASSUME NEW i \in 1 .. Len(r)
                   PROVE  r[i][2] # 0 /\ r[i][1] + r[i][2] - 1 <= RegionBlocks - 1
      BY DEF ListValid
    <3>2. CASE i = 1 BY <1>3, <1>6, <2>5, <3>2
    <3>3. CASE i > 1 BY <1>5, <2>6, <3>3 DEF ListValid
    <3>4. i = 1 \/ i > 1 BY <2>4 DEF Ranges
    <3> QED BY <3>2, <3>3, <3>4
  <2> QED BY <1>1, <1>2, <1>4, <2>1, <2>4, <2>7
<1>7. CASE ~(n > 1)
  <2>1. ~(Head(todo)[2] > 1) BY <1>1, <1>2, <1>7
  <2>2. Remaining = Tail(todo) BY <2>1 DEF Remaining
  <2> QED BY <1>1, <1>2, <1>4, <1>5, <2>2
<1> QED BY <1>6, <1>7

\* The steps: each keeps the inductive invariant, and the blocks outside
\* of the region.
BoolType == initialized \in BOOLEAN /\ runtime \in BOOLEAN /\ wild \in BOOLEAN

\* The types of the driver's own variables.
DriverType ==
  /\ pc \in {"idle", "format", "headers", "body", "erase"}
  /\ call \in Calls /\ ((call.status = "RUNNING") <=> (pc # "idle"))
  /\ todo \in Ranges /\ ListValid(todo)
  /\ tries \in 0 .. FLASH_ERASE_RETRY - 1

CountType == count \in Nat /\ faults \in Nat

LEMMA IInvParts ==
  IInv <=> /\ FlashInv /\ BoolType /\ DriverType /\ CountType
           /\ RefusedUntouched /\ CallInv /\ FormatInv /\ WipesOnlyInvalid
  BY DEF IInv, RequestsChecked, TypeOK, FlashInv, BoolType, DriverType, CountType

LEMMA IInvNext ==
  IInv' <=> /\ FlashInv' /\ BoolType' /\ DriverType' /\ CountType'
            /\ RefusedUntouched' /\ CallInv' /\ FormatInv' /\ WipesOnlyInvalid'
  BY DEF IInv, RequestsChecked, TypeOK, FlashInv, BoolType, DriverType, CountType

LEMMA StatusType ==
  ASSUME NEW c \in Calls, NEW st \in Statuses
  PROVE  /\ [c EXCEPT !.status = st] \in Calls /\ [c EXCEPT !.status = st].status = st
         /\ \A f \in {"op", "lba", "off", "data", "list", "before"} :
              [c EXCEPT !.status = st][f] = c[f]
  BY DEF Calls

\* The flash is not accessed.
LEMMA FlashSame ==
  ASSUME FlashInv, dev' = dev, acked' = acked, risk' = risk
  PROVE  FlashInv' /\ OutsideKept /\ Header' = Header
  BY DEF FlashInv, OutsideKept, AckedSurvives, NoStaleUnderHeader, ValidateFvHeader, Clean,
       Header

\* The call returns, or is interrupted.
LEMMA ReturnKeeps ==
  ASSUME IInv, NEW st \in Statuses \ {"RUNNING"}, Return(st),
         FlashInv', BoolType', CountType',
         st \in {"BAD_BUFFER_SIZE", "INVALID_PARAMETER", "UNSUPPORTED"} =>
           /\ st # "UNSUPPORTED" /\ dev' = dev
           /\ call.op \in {"FvbEraseBlocks", "WriteBlocks"} => dev = call.before
  PROVE  IInv'
<1>1. /\ pc' = "idle" /\ todo' = <<>> /\ tries' = 0
      /\ call' = [call EXCEPT !.status = st]
  BY DEF Return
<1>2. /\ call' \in Calls /\ call'.status = st
      /\ call'.op = call.op /\ call'.lba = call.lba /\ call'.off = call.off
      /\ call'.data = call.data /\ call'.before = call.before
  BY <1>1, StatusType, IInvParts DEF DriverType
<1>3. DriverType'
  <2>1. todo' \in Ranges /\ ListValid(todo') BY <1>1 DEF Ranges, ListValid
  <2> QED BY <1>1, <1>2, <2>1 DEF DriverType
<1>4. RefusedUntouched' BY <1>2 DEF RefusedUntouched
<1>5. CallInv'
  BY <1>1, <1>2, IInvParts DEF CallInv
<1>6. FormatInv' /\ WipesOnlyInvalid' BY <1>1 DEF FormatInv, WipesOnlyInvalid
<1> QED BY <1>3, <1>4, <1>5, <1>6, IInvNext

LEMMA EnterKeeps ==
  ASSUME IInv, NEW new, Asked(new), Enter(new), wild' \in BOOLEAN
  PROVE  IInv' /\ OutsideKept
<1>1. /\ pc = "idle" /\ count' = count + 1 /\ tries' = 0
      /\ UNCHANGED <<dev, runtime, faults, acked, risk>>
  BY DEF Enter
<1>2. FlashInv' /\ OutsideKept /\ Header' = Header BY <1>1, FlashSame, IInvParts
<1>3. todo \in Ranges /\ ListValid(todo) /\ call.status # "RUNNING"
  BY <1>1, IInvParts DEF DriverType
<1>4. CountType' BY <1>1, IInvParts DEF CountType
<1>5. BoolType'
  <2>1. runtime' \in BOOLEAN BY <1>1, IInvParts DEF BoolType
  <2>2. initialized' = initialized \/ initialized' = TRUE BY DEF Enter, FvbInitialize
  <2>3. initialized' \in BOOLEAN BY <2>2, IInvParts, Zenon DEF BoolType
  <2> QED BY <2>1, <2>3 DEF BoolType
<1>6. new \in Calls /\ new.status = "RUNNING" /\ new.before = dev BY DEF Asked
<1>7. CASE call' = [new EXCEPT !.status = "UNSUPPORTED"] /\ UNCHANGED <<initialized, pc, todo>>
  <2>1. /\ call' \in Calls /\ call'.status = "UNSUPPORTED"
        /\ call'.op = new.op /\ call'.lba = new.lba /\ call'.off = new.off
        /\ call'.data = new.data /\ call'.before = new.before
    BY <1>6, <1>7, StatusType DEF Statuses
  <2>2. DriverType' BY <1>1, <1>3, <1>7, <2>1 DEF DriverType
  <2>3. RefusedUntouched' BY <1>1, <1>6, <2>1 DEF RefusedUntouched
  <2>4. CallInv' BY <1>1, <1>7, <2>1 DEF CallInv, Asked
  <2>5. FormatInv' /\ WipesOnlyInvalid' BY <1>1, <1>7 DEF FormatInv, WipesOnlyInvalid
  <2> QED BY <1>2, <1>4, <1>5, <2>2, <2>3, <2>4, <2>5, IInvNext
<1>8. CASE call' = new /\ pc' = "body" /\ (todo' = <<>> \/ todo' = todo)
  <2>1. todo' \in Ranges /\ ListValid(todo')
    <3>1. <<>> \in Ranges /\ ListValid(<<>>) BY DEF Ranges, ListValid
    <3> QED BY <1>3, <1>8, <3>1
  <2>2. DriverType' BY <1>1, <1>6, <1>8, <2>1 DEF DriverType
  <2>3. RefusedUntouched' BY <1>6, <1>8 DEF RefusedUntouched
  <2>4. CallInv' BY <1>1, <1>2, <1>6, <1>8 DEF CallInv, Asked
  <2>5. FormatInv' /\ WipesOnlyInvalid' BY <1>8 DEF FormatInv, WipesOnlyInvalid
  <2> QED BY <1>2, <1>4, <1>5, <2>2, <2>3, <2>4, <2>5, IInvNext
<1>9. CASE /\ call' = new /\ pc' = "format" /\ new.op \in {"FvbRead", "FvbWrite"}
           /\ todo' = << <<0, RegionBlocks>> >> /\ initialized' = TRUE /\ ~ValidateFvHeader
  <2>0. Header # Hdr BY <1>9 DEF ValidateFvHeader
  <2>1. todo' \in Ranges /\ ListValid(todo') BY <1>9 DEF Ranges, ListValid
  <2>2. DriverType' BY <1>1, <1>6, <1>9, <2>1 DEF DriverType
  <2>3. RefusedUntouched' BY <1>6, <1>9 DEF RefusedUntouched
  <2>4. CallInv' BY <1>1, <1>2, <1>6, <1>9, <2>0 DEF CallInv, Asked
  <2>5. FormatInv'
    <3>1. todo' # <<>> /\ todo'[1][1] = 0 /\ todo' = << <<0, RegionBlocks - 0>> >> BY <1>9
    <3>2. Clean(0 .. 0 - 1)' BY DEF Clean
    <3>3. ~ValidateFvHeader' BY <1>2, <2>0 DEF ValidateFvHeader
    <3> QED BY <1>9, <3>1, <3>2, <3>3 DEF FormatInv
  <2>6. WipesOnlyInvalid'
    BY <1>1, <2>0, Geometry, IInvParts DEF WipesOnlyInvalid, FlashInv, AckedSurvives, Header
  <2> QED BY <1>2, <1>4, <1>5, <2>2, <2>3, <2>4, <2>5, <2>6, IInvNext
<1>10. \/ call' = [new EXCEPT !.status = "UNSUPPORTED"] /\ UNCHANGED <<initialized, pc, todo>>
       \/ call' = new /\ pc' = "body" /\ (todo' = <<>> \/ todo' = todo)
       \/ /\ call' = new /\ pc' = "format" /\ new.op \in {"FvbRead", "FvbWrite"}
          /\ todo' = << <<0, RegionBlocks>> >> /\ initialized' = TRUE /\ ~ValidateFvHeader
  BY DEF Enter, FvbInitialize
<1> QED BY <1>2, <1>7, <1>8, <1>9, <1>10

LEMMA RefusalFacts ==
  ASSUME call \in Calls
  PROVE  /\ Refusal(call) \in {"NONE", "BAD_BUFFER_SIZE", "INVALID_PARAMETER"}
         /\ Refusal(call) = "NONE" /\ call.op \in {"FvbWrite", "WriteBlocks"} =>
              (call.op = "FvbWrite" => call.off + Len(call.data) <= BlockSize)
              /\ (call.op = "WriteBlocks" =>
                    \E k \in Nat \ {0} : Len(call.data) = k * BlockSize
                                       /\ call.lba + k <= RegionBlocks)
<1>1. call.off \in Nat /\ call.lba \in Nat /\ Len(call.data) \in Nat BY DEF Calls
<1>2. ASSUME Refusal(call) = "NONE", call.op = "WriteBlocks"
      PROVE  \E k \in Nat \ {0} : Len(call.data) = k * BlockSize /\ call.lba + k <= RegionBlocks
  <2>1. PICK k \in NumBlocks(call) : ~(call.lba + k > RegionBlocks) BY <1>2 DEF Refusal
  <2>2. k \in Nat \ {0} /\ Len(call.data) = k * BlockSize BY <2>1 DEF NumBlocks
  <2> QED BY <1>1, <2>1, <2>2
<1> QED BY <1>1, <1>2 DEF Refusal, Spans

LEMMA BodyRefusedKeeps ==
  ASSUME IInv, BodyRefused
  PROVE  IInv' /\ OutsideKept
<1>1. /\ pc = "body" /\ Refusal(call) # "NONE" /\ Return(Refusal(call))
      /\ UNCHANGED <<dev, initialized, runtime, count, faults, acked, risk, wild>>
  BY DEF BodyRefused, history
<1>2. call \in Calls BY IInvParts DEF DriverType
<1>3. Refusal(call) \in {"BAD_BUFFER_SIZE", "INVALID_PARAMETER"} BY <1>1, <1>2, RefusalFacts
<1>4. FlashInv' /\ OutsideKept BY <1>1, FlashSame, IInvParts
<1>5. BoolType' /\ CountType' BY <1>1, IInvParts DEF BoolType, CountType
<1>6. call.op \in {"FvbEraseBlocks", "WriteBlocks"} => dev = call.before
  BY <1>1, IInvParts DEF CallInv
<1> QED BY <1>1, <1>3, <1>4, <1>5, <1>6, ReturnKeeps DEF Statuses

LEMMA ReadBodyKeeps ==
  ASSUME IInv, ReadBody
  PROVE  IInv' /\ OutsideKept
<1>1. /\ Return("SUCCESS") \/ Return("DEVICE_ERROR")
      /\ faults' = faults \/ faults' = faults + 1
      /\ UNCHANGED <<dev, initialized, runtime, count, acked, risk, wild>>
  BY DEF ReadBody, Fault, history
<1>2. FlashInv' /\ OutsideKept BY <1>1, FlashSame, IInvParts
<1>3. BoolType' /\ CountType'
  <2>1. BoolType' BY <1>1, IInvParts DEF BoolType
  <2>2. CountType' BY <1>1, IInvParts DEF CountType
  <2> QED BY <2>1, <2>2
<1>4. CASE Return("SUCCESS") BY <1>2, <1>3, <1>4, ReturnKeeps DEF Statuses
<1>5. CASE Return("DEVICE_ERROR") BY <1>2, <1>3, <1>5, ReturnKeeps DEF Statuses
<1> QED BY <1>1, <1>4, <1>5

\* A whole number of blocks, one block after the other.
LEMMA PieceFacts ==
  ASSUME NEW data \in Seq(Data \cup {Hdr, Erased})
  PROVE  /\ Piece(data) \in Seq(Data \cup {Hdr, Erased})
         /\ Len(Piece(data)) \in Nat /\ Len(Piece(data)) <= BlockSize
         /\ Len(data) <= BlockSize => Piece(data) = data
         /\ \A i \in 1 .. Len(Piece(data)) :
              i \in 1 .. Len(data) /\ Piece(data)[i] = data[i]
<1>1. Len(data) \in Nat OBVIOUS
<1>2. CASE Len(data) <= BlockSize BY <1>1, <1>2 DEF Piece
<1>3. CASE ~(Len(data) <= BlockSize)
  <2> DEFINE p == [i \in 1 .. BlockSize |-> data[i]]
  <2>1. Piece(data) = p BY <1>3 DEF Piece
  <2>2. \A i \in 1 .. BlockSize : i \in 1 .. Len(data) BY <1>1, <1>3
  <2>3. p \in Seq(Data \cup {Hdr, Erased}) /\ Len(p) = BlockSize BY <2>2
  <2> QED BY <1>3, <2>1, <2>2, <2>3
<1> QED BY <1>2, <1>3

LEMMA RestFacts ==
  ASSUME NEW data \in Seq(Data \cup {Hdr, Erased}), Len(data) > BlockSize
  PROVE  /\ Rest(data) \in Seq(Data \cup {Hdr, Erased})
         /\ Len(Rest(data)) = Len(data) - BlockSize
         /\ \A i \in 1 .. Len(Rest(data)) :
              i + BlockSize \in 2 .. Len(data) /\ Rest(data)[i] = data[i + BlockSize]
<1>1. Len(data) \in Nat /\ Len(data) - BlockSize \in Nat OBVIOUS
<1>2. \A i \in 1 .. Len(data) - BlockSize : i + BlockSize \in 2 .. Len(data) BY <1>1
<1>3. PICK n \in Nat : n = Len(data) - BlockSize BY <1>1
<1>4. \A i \in 1 .. n : data[i + BlockSize] \in Data \cup {Hdr, Erased} BY <1>1, <1>2, <1>3
<1> DEFINE r == [i \in 1 .. n |-> data[i + BlockSize]]
<1>5. r \in Seq(Data \cup {Hdr, Erased}) /\ Len(r) = n BY <1>4
<1>6. Rest(data) = r BY <1>3 DEF Rest
<1> QED BY <1>2, <1>3, <1>5, <1>6

LEMMA MultiplesDiffer ==
  ASSUME NEW b \in Nat \ {0}, NEW x \in Nat, NEW y \in Nat, x < y
  PROVE  x * b # y * b
<1>1. PICK v \in Nat : y = x + (v + 1)
  <2>1. y - x - 1 \in Nat OBVIOUS
  <2> QED BY <2>1
<1>2. (x + (v + 1)) * b = x * b + (v + 1) * b OBVIOUS
<1>3. (v + 1) * b = v * b + b OBVIOUS
<1>4. x * b \in Nat /\ v * b \in Nat OBVIOUS
<1> QED BY <1>1, <1>2, <1>3, <1>4

LEMMA LbaType ==
  ASSUME NEW c \in Calls, NEW l \in Nat
  PROVE  /\ [c EXCEPT !.lba = l] \in Calls /\ [c EXCEPT !.lba = l].lba = l
         /\ \A f \in {"op", "off", "data", "status"} : [c EXCEPT !.lba = l][f] = c[f]
  BY DEF Calls

LEMMA DataType ==
  ASSUME NEW c \in Calls, NEW data \in Seq(Data \cup {Hdr, Erased})
  PROVE  /\ [c EXCEPT !.data = data] \in Calls /\ [c EXCEPT !.data = data].data = data
         /\ \A f \in {"op", "off", "lba", "status"} : [c EXCEPT !.data = data][f] = c[f]
  BY DEF Calls

\* What is written, and where: a request that is not refused starts with a piece
\* that fits in its block, and only FvbWrite can name a block behind the region.
LEMMA WriteRequest ==
  ASSUME IInv, pc = "body", call.op \in {"FvbWrite", "WriteBlocks"}, Refusal(call) = "NONE",
         Block(call.lba) \in Blocks
  PROVE  /\ call.lba \in Nat /\ call.off \in Nat /\ call.data \in Seq(Data \cup {Hdr, Erased})
         /\ call.off + Len(Piece(call.data)) <= BlockSize
         /\ Len(call.data) > BlockSize => call.op = "WriteBlocks"
         /\ \A i \in 1 .. Len(call.data) : call.data[i] = Hdr =>
              i = 1 /\ call.lba = 0 /\ call.off = 0 /\ Header = Hdr
         /\ call.lba \notin Lbas => wild /\ Block(call.lba) \in Blocks \ Region
<1>1. call \in Calls BY IInvParts DEF DriverType
<1>2. /\ call.lba \in Nat /\ call.off \in Nat /\ call.data \in Seq(Data \cup {Hdr, Erased})
      /\ Len(call.data) \in Nat
  BY <1>1 DEF Calls
<1>3. call.op = "WriteBlocks" => call.off = 0 /\ call.lba \in Lbas
  <2>1. SUFFICES ASSUME call.op = "WriteBlocks" PROVE call.off = 0 /\ call.lba \in Lbas
    OBVIOUS
  <2>2. PICK k \in Nat \ {0} : call.lba + k <= RegionBlocks BY <1>1, <2>1, RefusalFacts
  <2>3. call.lba \in Lbas BY <1>2, <2>2 DEF Lbas
  <2> QED BY <2>1, <2>3, IInvParts DEF CallInv
<1>4. call.op = "FvbWrite" => call.off + Len(call.data) <= BlockSize BY <1>1, RefusalFacts
<1>5. call.off + Len(Piece(call.data)) <= BlockSize /\ (Len(call.data) > BlockSize => call.op = "WriteBlocks")
  <2>1. Len(Piece(call.data)) \in Nat /\ Len(Piece(call.data)) <= BlockSize
        /\ (Len(call.data) <= BlockSize => Piece(call.data) = call.data)
    BY <1>2, PieceFacts
  <2> QED BY <1>2, <1>3, <1>4, <2>1
<1>6. \A i \in 1 .. Len(call.data) : call.data[i] = Hdr =>
        i = 1 /\ call.lba = 0 /\ call.off = 0 /\ Header = Hdr
  BY IInvParts DEF CallInv
<1>7. call.lba \notin Lbas => wild BY <1>3, IInvParts DEF CallInv
<1>8. call.lba \notin Lbas => Block(call.lba) \notin Region BY <1>2 DEF Lbas, Block, Region
<1> QED BY <1>2, <1>5, <1>6, <1>7, <1>8

\* The request goes on with its next block.
LEMMA NextBlock ==
  ASSUME IInv, pc = "body", call.op \in {"FvbWrite", "WriteBlocks"}, Refusal(call) = "NONE",
         Block(call.lba) \in Blocks, Len(call.data) > BlockSize,
         NEW c, c = [call EXCEPT !.lba = call.lba + 1],
         call' = [c EXCEPT !.data = Rest(call.data)],
         UNCHANGED <<pc, todo, tries, wild>>, FlashInv', BoolType', CountType'
  PROVE  IInv'
<1>1. /\ call.lba \in Nat /\ call.data \in Seq(Data \cup {Hdr, Erased})
      /\ call.op = "WriteBlocks"
      /\ \A i \in 1 .. Len(call.data) : call.data[i] = Hdr => i = 1
  BY WriteRequest
<1>2. /\ Rest(call.data) \in Seq(Data \cup {Hdr, Erased})
      /\ Len(Rest(call.data)) = Len(call.data) - BlockSize
      /\ \A i \in 1 .. Len(Rest(call.data)) :
           i + BlockSize \in 2 .. Len(call.data) /\ Rest(call.data)[i] = call.data[i + BlockSize]
  BY <1>1, RestFacts
<1>3. call \in Calls /\ call.status = "RUNNING" BY IInvParts DEF DriverType
<1>4. /\ call' \in Calls /\ call'.status = "RUNNING" /\ call'.op = "WriteBlocks"
      /\ call'.off = call.off /\ call'.lba = call.lba + 1 /\ call'.data = Rest(call.data)
  <2>1. call.lba + 1 \in Nat BY <1>1
  <2>2. /\ c \in Calls /\ c.lba = call.lba + 1
        /\ c.op = call.op /\ c.off = call.off /\ c.status = call.status
    BY <1>3, <2>1, LbaType
  <2>3. /\ call' \in Calls /\ call'.data = Rest(call.data)
        /\ call'.op = c.op /\ call'.off = c.off /\ call'.lba = c.lba /\ call'.status = c.status
    BY <1>2, <2>2, DataType
  <2> QED BY <1>1, <1>3, <2>2, <2>3
<1>5. Refusal(call') = "NONE"
  <2>1. PICK k \in Nat \ {0} : Len(call.data) = k * BlockSize /\ call.lba + k <= RegionBlocks
    BY <1>1, <1>3, RefusalFacts
  <2>2. PICK m \in Nat : k = m + 1
    <3>1. k - 1 \in Nat BY <2>1
    <3> QED BY <3>1
  <2>3. (m + 1) * BlockSize = m * BlockSize + BlockSize BY <2>2
  <2>4. Len(Rest(call.data)) = m * BlockSize /\ m * BlockSize \in Nat BY <1>2, <2>1, <2>2, <2>3
  <2>5. m # 0
    <3>1. 0 * BlockSize = 0 OBVIOUS
    <3>2. Len(call.data) \in Nat BY <1>1
    <3> QED BY <1>2, <2>4, <3>1, <3>2
  <2>6. \A j \in Nat : j * BlockSize = m * BlockSize => j = m
    <3>1. SUFFICES ASSUME NEW j \in Nat, j # m PROVE j * BlockSize # m * BlockSize OBVIOUS
    <3>2. CASE j < m BY <3>2, MultiplesDiffer
    <3>3. CASE m < j BY <3>3, MultiplesDiffer
    <3> QED BY <3>1, <3>2, <3>3
  <2>7. m \in 1 .. m * BlockSize
    <3>1. PICK v \in Nat : BlockSize = v + 1
      <4>1. BlockSize - 1 \in Nat OBVIOUS
      <4> QED BY <4>1
    <3>2. m * (v + 1) = m * v + m /\ m * v \in Nat OBVIOUS
    <3> QED BY <2>5, <3>1, <3>2
  <2>8. NumBlocks(call') = {m}
    <3>1. NumBlocks(call') = {j \in 1 .. Len(Rest(call.data)) : Len(Rest(call.data)) = j * BlockSize}
      BY <1>4 DEF NumBlocks
    <3> QED BY <2>4, <2>6, <2>7, <3>1
  <2>9. ~(call'.lba + m > RegionBlocks)
    <3>1. PICK l \in Nat : l = call.lba BY <1>1
    <3>2. l + (m + 1) <= RegionBlocks BY <2>1, <2>2, <3>1
    <3>3. ~((l + 1) + m > RegionBlocks) BY <3>2
    <3> QED BY <1>4, <3>1, <3>3
  <2> QED BY <1>4, <2>8, <2>9 DEF Refusal
<1>6. DriverType' BY <1>3, <1>4, IInvParts DEF DriverType
<1>7. RefusedUntouched' BY <1>4 DEF RefusedUntouched
<1>8. CallInv'
  <2>1. ASSUME NEW i \in 1 .. Len(Rest(call.data)) PROVE Rest(call.data)[i] # Hdr
    <3>1. PICK k \in 2 .. Len(call.data) : k = i + BlockSize /\ Rest(call.data)[i] = call.data[k]
      BY <1>2
    <3>2. PICK n \in Nat : n = Len(call.data)
      <4>1. \A seq \in Seq(Data \cup {Hdr, Erased}) : Len(seq) \in Nat OBVIOUS
      <4> QED BY <1>1, <4>1
    <3>3. k \in 1 .. n /\ k # 1 BY <3>2
    <3> QED BY <1>1, <3>1, <3>2, <3>3
  <2>2. call.off = 0 BY <1>1, IInvParts DEF CallInv
  <2> QED BY <1>4, <1>5, <2>1, <2>2 DEF CallInv
<1>9. FormatInv' /\ WipesOnlyInvalid' BY DEF FormatInv, WipesOnlyInvalid
<1> QED BY <1>6, <1>7, <1>8, <1>9, IInvNext

LEMMA WriteBodyKeeps ==
  ASSUME IInv, WriteBody
  PROVE  IInv' /\ OutsideKept
<1>1. /\ pc = "body" /\ call.op \in {"FvbWrite", "WriteBlocks"} /\ Refusal(call) = "NONE"
      /\ Block(call.lba) \in Blocks /\ UNCHANGED <<initialized, runtime, count, wild>>
  BY DEF WriteBody
<1>2. /\ call.lba \in Nat /\ call.off \in Nat /\ call.data \in Seq(Data \cup {Hdr, Erased})
      /\ call.off + Len(Piece(call.data)) <= BlockSize
      /\ \A i \in 1 .. Len(call.data) : call.data[i] = Hdr =>
           i = 1 /\ call.lba = 0 /\ call.off = 0 /\ Header = Hdr
      /\ call.lba \notin Lbas => wild /\ Block(call.lba) \in Blocks \ Region
  BY <1>1, WriteRequest
<1>3. FlashInv /\ dev \in [Blocks -> Rows] BY IInvParts DEF FlashInv
<1>4. BoolType' BY <1>1, IInvParts DEF BoolType
<1>5. CASE /\ dev' = Replace(Block(call.lba), call.off, Piece(call.data))
           /\ IF Len(call.data) > BlockSize
                THEN /\ call' = [call EXCEPT !.lba = @ + 1, !.data = Rest(@)]
                     /\ UNCHANGED <<pc, todo, tries>>
                ELSE Return("SUCCESS")
           /\ acked' = IF call.lba \in Lbas
                         THEN [acked EXCEPT ![call.lba] = Overlay(@, call.off, Piece(call.data))]
                         ELSE acked
           /\ UNCHANGED <<risk, faults>>
  <2>1. CountType' BY <1>1, <1>5, IInvParts DEF CountType
  <2>2. FlashInv' /\ OutsideKept
    <3>1. PICK l \in Nat, off \in Nat, data \in Seq(Data \cup {Hdr, Erased}) :
            l = call.lba /\ off = call.off /\ data = Piece(call.data)
      BY <1>2, PieceFacts
    <3>2. CASE l \in Lbas
      <4>1. \A i \in 1 .. Len(data) : data[i] = Hdr =>
              i = 1 /\ l = 0 /\ off = 0 /\ (Header = Hdr \/ Clean(Lbas))
        BY <1>2, <3>1, PieceFacts
      <4>2. /\ dev' = Replace(Block(l), off, data) /\ risk' = risk
            /\ acked' = [acked EXCEPT ![l] = Overlay(@, off, data)]
        BY <1>5, <3>1, <3>2
      <4>3. off + Len(data) <= BlockSize BY <1>2, <3>1
      <4> QED BY <1>3, <3>2, <4>1, <4>2, <4>3, WriteKeeps
    <3>3. CASE l \notin Lbas
      <4>1. PICK b \in Blocks \ Region : b = Block(l) BY <1>2, <3>1, <3>3
      <4>2. data \in Seq(Values) BY DEF Values
      <4>3. off + Len(data) <= BlockSize /\ dev' = Replace(b, off, data) BY <1>2, <1>5, <3>1, <4>1
      <4>4. PICK old \in Rows : old = dev[b] BY <1>3, <4>1
      <4>5. dev' = [dev EXCEPT ![b] = Overlay(old, off, data)]
        BY <1>3, <4>2, <4>3, <4>4, ReplaceBlock
      <4>6. PICK row \in Rows : row = Overlay(old, off, data) BY <4>2, OverlayFacts
      <4>7. /\ dev' = [dev EXCEPT ![b] = row] /\ risk' = risk /\ acked' = acked /\ wild'
        BY <1>1, <1>2, <1>5, <3>1, <3>3, <4>5, <4>6
      <4> QED BY <1>3, <4>7, ElsewhereKeeps
    <3> QED BY <3>2, <3>3
  <2>3. CASE Return("SUCCESS") BY <1>4, <2>1, <2>2, <2>3, ReturnKeeps DEF Statuses
  <2>4. CASE ~Return("SUCCESS")
    <3>1. PICK c : c = [call EXCEPT !.lba = call.lba + 1] OBVIOUS
    <3>2. call' = [c EXCEPT !.data = Rest(call.data)] BY <1>5, <2>4, <3>1, Zenon
    <3>3. Len(call.data) > BlockSize /\ UNCHANGED <<pc, todo, tries>> BY <1>5, <2>4, Zenon
    <3> QED BY <1>1, <1>4, <2>1, <2>2, <3>1, <3>2, <3>3, NextBlock
  <2> QED BY <2>2, <2>3, <2>4
<1>6. CASE /\ Fault /\ (\E row \in Damage(Block(call.lba)) : Store(Block(call.lba), row))
           /\ Return("DEVICE_ERROR")
           /\ risk' = risk \cup ({call.lba} \cap Lbas) /\ acked' = acked
  <2>1. CountType' BY <1>1, <1>6, IInvParts DEF CountType, Fault
  <2>2. CASE call.lba \in Lbas
    <3>1. risk' = risk \cup {call.lba} BY <1>6, <2>2
    <3>2. FlashInv' /\ OutsideKept BY <1>3, <1>6, <2>2, <3>1, DamageKeeps
    <3> QED BY <1>4, <1>6, <2>1, <3>2, ReturnKeeps DEF Statuses
  <2>3. CASE call.lba \notin Lbas
    <3>1. PICK b \in Blocks \ Region : b = Block(call.lba) BY <1>2, <2>3
    <3>2. PICK row \in Damage(b) : dev' = [dev EXCEPT ![b] = row] BY <1>6, <3>1 DEF Store
    <3>3. row \in Rows BY <1>3, DamageFacts
    <3>4. wild' /\ risk' = risk BY <1>1, <1>2, <1>6, <2>3
    <3>5. FlashInv' /\ OutsideKept BY <1>3, <1>6, <3>2, <3>3, <3>4, ElsewhereKeeps
    <3> QED BY <1>4, <1>6, <2>1, <3>5, ReturnKeeps DEF Statuses
  <2> QED BY <2>2, <2>3
<1> QED BY <1>5, <1>6 DEF WriteBody

LEMMA EraseBeginKeeps ==
  ASSUME IInv, EraseBegin
  PROVE  IInv' /\ OutsideKept
<1>1. /\ pc = "body" /\ call.op = "FvbEraseBlocks"
      /\ UNCHANGED <<dev, initialized, runtime, count, faults, acked, risk, wild>>
  BY DEF EraseBegin, history
<1>2. FlashInv' /\ OutsideKept BY <1>1, FlashSame, IInvParts
<1>3. BoolType' /\ CountType' BY <1>1, IInvParts DEF BoolType, CountType
<1>4. CASE ListValid(call.list) /\ todo' = call.list /\ pc' = "erase" /\ UNCHANGED <<call, tries>>
  <2>1. call \in Calls /\ call.list \in Ranges BY IInvParts DEF DriverType, Calls
  <2>2. DriverType' BY <1>1, <1>4, <2>1, IInvParts DEF DriverType
  <2>3. RefusedUntouched' BY <1>1, <1>4, IInvParts DEF RefusedUntouched
  <2>4. CallInv' BY <1>1, <1>4 DEF CallInv
  <2>5. FormatInv' /\ WipesOnlyInvalid' BY <1>4 DEF FormatInv, WipesOnlyInvalid
  <2> QED BY <1>2, <1>3, <2>2, <2>3, <2>4, <2>5, IInvNext
<1>5. CASE Return("INVALID_PARAMETER")
  <2>1. dev = call.before BY <1>1, IInvParts DEF CallInv
  <2> QED BY <1>1, <1>2, <1>3, <1>5, <2>1, ReturnKeeps DEF Statuses
<1> QED BY <1>4, <1>5 DEF EraseBegin

LEMMA RestartKeeps ==
  ASSUME IInv, Restart
  PROVE  IInv' /\ OutsideKept
<1>1. /\ pc = "idle" /\ initialized' = FALSE /\ runtime' = FALSE
      /\ UNCHANGED <<dev, pc, call, todo, tries, count, faults, acked, risk, wild>>
  BY DEF Restart, FlashCreateInstance, history
<1>2. FlashInv' /\ OutsideKept BY <1>1, FlashSame, IInvParts
<1>3. BoolType' /\ CountType' BY <1>1, IInvParts DEF BoolType, CountType
<1>4. DriverType' BY <1>1, IInvParts DEF DriverType
<1>5. RefusedUntouched' /\ CallInv' BY <1>1, IInvParts DEF RefusedUntouched, CallInv
<1>6. FormatInv' /\ WipesOnlyInvalid' BY <1>1 DEF FormatInv, WipesOnlyInvalid
<1> QED BY <1>2, <1>3, <1>4, <1>5, <1>6, IInvNext

LEMMA ExitKeeps ==
  ASSUME IInv, ExitBootServices
  PROVE  IInv' /\ OutsideKept
<1>1. /\ pc = "idle" /\ runtime' = TRUE
      /\ UNCHANGED <<dev, initialized, pc, call, todo, tries, count, faults, acked, risk, wild>>
  BY DEF ExitBootServices, history
<1>2. FlashInv' /\ OutsideKept BY <1>1, FlashSame, IInvParts
<1>3. BoolType' /\ CountType' BY <1>1, IInvParts DEF BoolType, CountType
<1>4. DriverType' BY <1>1, IInvParts DEF DriverType
<1>5. RefusedUntouched' /\ CallInv' BY <1>1, IInvParts DEF RefusedUntouched, CallInv
<1>6. FormatInv' /\ WipesOnlyInvalid' BY <1>1 DEF FormatInv, WipesOnlyInvalid
<1> QED BY <1>2, <1>3, <1>4, <1>5, <1>6, IInvNext

\* FvbRead and FvbWrite go on after the formatting, whether it succeeded or not.
LEMMA BodyKeeps ==
  ASSUME IInv, pc \in {"format", "headers"}, pc' = "body", call' = call, todo' = <<>>,
         tries' \in {0, tries}, wild' = wild, FlashInv', BoolType', CountType'
  PROVE  IInv'
<1>1. <<>> \in Ranges /\ ListValid(<<>>) BY DEF Ranges, ListValid
<1>2. DriverType' BY <1>1, IInvParts DEF DriverType
<1>3. RefusedUntouched' BY IInvParts DEF RefusedUntouched, DriverType
<1>4. CallInv'
  <2>1. /\ call.op \in {"FvbRead", "FvbWrite"}
        /\ call.op = "FvbWrite" =>
             /\ call.lba \notin Lbas => wild
             /\ \A i \in 1 .. Len(call.data) : call.data[i] # Hdr
    BY IInvParts DEF CallInv
  <2> QED BY <2>1 DEF CallInv
<1>5. FormatInv' /\ WipesOnlyInvalid' BY DEF FormatInv, WipesOnlyInvalid
<1> QED BY <1>2, <1>3, <1>4, <1>5, IInvNext

LEMMA EraseFailedKeeps ==
  ASSUME IInv, pc \in {"erase", "format"}, EraseFailed("DEVICE_ERROR"),
         wild' = wild, FlashInv', BoolType', CountType'
  PROVE  IInv'
<1>1. CASE pc = "format" BY <1>1, BodyKeeps DEF EraseFailed
<1>2. CASE pc # "format"
  <2>1. Return("DEVICE_ERROR") BY <1>2 DEF EraseFailed
  <2> QED BY <2>1, ReturnKeeps DEF Statuses
<1> QED BY <1>1, <1>2

\* One block of the formatting: the region is erased from its first block on.
LEMMA FormatStep ==
  ASSUME FormatInv, ListValid(todo), todo \in Ranges, todo # <<>>, pc = "format",
         NEW a \in Lbas, a = Head(todo)[1], initialized' = initialized, pc' = pc, todo' = Remaining,
         Header' = Hdr => Header = Hdr,
         \A ls \in SUBSET Lbas : Clean(ls) => Clean(ls \cup {a})'
  PROVE  FormatInv'
<1>1. /\ todo = << <<todo[1][1], RegionBlocks - todo[1][1]>> >> /\ initialized
      /\ Clean(0 .. todo[1][1] - 1) /\ Header # Hdr
  BY DEF FormatInv, ValidateFvHeader
<1>2. a = todo[1][1] BY RemainingFacts
<1>3. /\ todo = << <<a, RegionBlocks - a>> >>
      /\ Head(todo) = <<a, RegionBlocks - a>> /\ Tail(todo) = <<>>
  <2>1. todo = << <<a, RegionBlocks - a>> >> BY <1>1, <1>2
  <2>2. \A x : Head(<<x>>) = x /\ Tail(<<x>>) = <<>> OBVIOUS
  <2> QED BY <2>1, <2>2
<1>4. Clean(0 .. a)'
  <2>1. (0 .. a - 1) \in SUBSET Lbas /\ (0 .. a - 1) \cup {a} = 0 .. a BY DEF Lbas
  <2>2. Clean(0 .. a - 1) BY <1>1, <1>2
  <2>3. Clean((0 .. a - 1) \cup {a})' BY <2>1, <2>2
  <2> QED BY <2>1, <2>3
<1>5. ~ValidateFvHeader' BY <1>1 DEF ValidateFvHeader
<1>6. CASE RegionBlocks - a > 1
  <2>1. todo' = << <<a + 1, RegionBlocks - a - 1>> >> BY <1>3, <1>6 DEF Remaining
  <2>2. RegionBlocks - a - 1 = RegionBlocks - (a + 1) /\ (a + 1) - 1 = a BY DEF Lbas
  <2>3. todo' # <<>> /\ todo'[1][1] = a + 1 BY <2>1
  <2> QED BY <1>1, <1>4, <1>5, <2>1, <2>2, <2>3 DEF FormatInv
<1>7. CASE ~(RegionBlocks - a > 1)
  <2>1. todo' = <<>> BY <1>3, <1>7 DEF Remaining
  <2>2. 0 .. a = Lbas BY <1>7 DEF Lbas
  <2> QED BY <1>1, <1>4, <1>5, <2>1, <2>2 DEF FormatInv
<1> QED BY <1>6, <1>7

LEMMA EraseBlockKeeps ==
  ASSUME IInv, EraseBlock
  PROVE  IInv' /\ OutsideKept
<1>1. /\ pc \in {"erase", "format"} /\ todo # <<>>
      /\ UNCHANGED <<initialized, runtime, count, wild>>
  BY DEF EraseBlock
<1>2. todo \in Ranges /\ ListValid(todo) /\ call.status = "RUNNING"
  BY <1>1, IInvParts DEF DriverType
<1>3. /\ Head(todo)[1] \in Lbas /\ Remaining \in Ranges /\ ListValid(Remaining)
  BY <1>1, <1>2, RemainingFacts
<1>4. PICK l \in Lbas : l = Head(todo)[1] BY <1>3
<1>5. BoolType' BY <1>1, IInvParts DEF BoolType
<1>6. CountType' BY <1>1, IInvParts DEF CountType, EraseBlock, Fault
<1>7. FlashInv BY IInvParts
<1>8. CASE /\ Store(Block(l), Row(Erased)) /\ todo' = Remaining /\ tries' = 0
           /\ acked' = [acked EXCEPT ![l] = Row(Erased)] /\ risk' = risk \ {l}
           /\ UNCHANGED <<pc, call, faults>>
  <2>1. /\ FlashInv' /\ OutsideKept /\ (Header' = Hdr => Header = Hdr)
        /\ \A ls \in SUBSET Lbas : Clean(ls) => Clean(ls \cup {l})'
    BY <1>7, <1>8, EraseKeeps
  <2>2. DriverType' BY <1>3, <1>8, IInvParts DEF DriverType
  <2>3. RefusedUntouched' BY <1>2, <1>8 DEF RefusedUntouched
  <2>4. CallInv' BY <1>1, <1>8, IInvParts DEF CallInv
  <2>5. FormatInv'
    <3>1. CASE pc = "format"
      <4> QED BY <1>1, <1>2, <1>4, <1>8, <2>1, <3>1, IInvParts, FormatStep
    <3>2. CASE pc # "format" BY <1>1, <1>8, <3>2 DEF FormatInv
    <3> QED BY <3>1, <3>2
  <2>6. WipesOnlyInvalid'
    <3>1. SUFFICES ASSUME pc' = "format", acked'[0][0] = Hdr PROVE 0 \in risk'
      BY DEF WipesOnlyInvalid
    <3>2. acked \in [Lbas -> Rows] BY <1>7 DEF FlashInv
    <3>3. l # 0 BY <1>8, <3>1, <3>2, Geometry DEF Row, Erased, Hdr
    <3>4. acked'[0] = acked[0] BY <1>8, <3>2, <3>3, Geometry
    <3> QED BY <1>8, <3>1, <3>3, <3>4, IInvParts DEF WipesOnlyInvalid
  <2> QED BY <1>5, <1>6, <2>1, <2>2, <2>3, <2>4, <2>5, <2>6, IInvNext
<1>9. CASE /\ \E row \in Damage(Block(l)) : Store(Block(l), row)
           /\ EraseFailed("DEVICE_ERROR") /\ risk' = risk \cup {l} /\ acked' = acked
  <2>1. FlashInv' /\ OutsideKept BY <1>7, <1>9, DamageKeeps
  <2> QED BY <1>1, <1>5, <1>6, <1>9, <2>1, EraseFailedKeeps
<1>10. CASE EraseFailed("DEVICE_ERROR") /\ UNCHANGED <<dev, acked, risk>>
  <2>1. FlashInv' /\ OutsideKept BY <1>7, <1>10, FlashSame
  <2> QED BY <1>1, <1>5, <1>6, <1>10, <2>1, EraseFailedKeeps
<1>11. CASE /\ tries + 1 < FLASH_ERASE_RETRY /\ tries' = tries + 1
            /\ UNCHANGED <<pc, call, todo, dev, acked, risk>>
  <2>1. FlashInv' /\ OutsideKept /\ Header' = Header BY <1>7, <1>11, FlashSame
  <2>2. DriverType' BY <1>11, IInvParts DEF DriverType
  <2>3. RefusedUntouched' BY <1>2, <1>11 DEF RefusedUntouched
  <2>4. CallInv' BY <1>1, <1>11, IInvParts DEF CallInv
  <2>5. FormatInv' BY <1>1, <1>11, <2>1, IInvParts DEF FormatInv, ValidateFvHeader, Clean
  <2>6. WipesOnlyInvalid' BY <1>11, IInvParts DEF WipesOnlyInvalid
  <2> QED BY <1>5, <1>6, <2>1, <2>2, <2>3, <2>4, <2>5, <2>6, IInvNext
<1> QED BY <1>4, <1>8, <1>9, <1>10, <1>11 DEF EraseBlock

LEMMA EraseDoneKeeps ==
  ASSUME IInv, EraseDone
  PROVE  IInv' /\ OutsideKept
<1>1. /\ pc \in {"erase", "format"} /\ todo = <<>>
      /\ UNCHANGED <<dev, initialized, runtime, count, faults, acked, risk, wild>>
  BY DEF EraseDone, history
<1>2. FlashInv' /\ OutsideKept /\ Header' = Header BY <1>1, FlashSame, IInvParts
<1>3. BoolType' /\ CountType' BY <1>1, IInvParts DEF BoolType, CountType
<1>4. CASE pc = "format" /\ pc' = "headers" /\ UNCHANGED <<call, todo, tries>>
  <2>1. DriverType' BY <1>4, IInvParts DEF DriverType
  <2>2. RefusedUntouched' BY <1>1, <1>4, IInvParts DEF RefusedUntouched
  <2>3. CallInv' BY <1>1, <1>2, <1>4, IInvParts DEF CallInv
  <2>4. FormatInv' BY <1>1, <1>2, <1>4, IInvParts DEF FormatInv, ValidateFvHeader, Clean
  <2>5. WipesOnlyInvalid' BY <1>4 DEF WipesOnlyInvalid
  <2> QED BY <1>2, <1>3, <2>1, <2>2, <2>3, <2>4, <2>5, IInvNext
<1>5. CASE Return("SUCCESS")
  <2> QED BY <1>2, <1>3, <1>5, ReturnKeeps DEF Statuses
<1> QED BY <1>4, <1>5 DEF EraseDone

LEMMA InstallHeadersKeeps ==
  ASSUME IInv, InstallHeaders
  PROVE  IInv' /\ OutsideKept
<1>1. pc = "headers" /\ UNCHANGED <<runtime, tries, count, wild>> BY DEF InstallHeaders
<1>2. todo = <<>> /\ initialized /\ Clean(Lbas) BY <1>1, IInvParts DEF FormatInv
<1>3. pc' = "body" /\ UNCHANGED <<initialized, todo, call>> BY <1>2 DEF InstallHeaders
<1>4. BoolType' BY <1>1, <1>3, IInvParts DEF BoolType
<1>5. CountType' BY <1>1, <1>2, IInvParts DEF CountType, InstallHeaders, Fault
<1>6. FlashInv BY IInvParts
<1>7. FlashInv' /\ OutsideKept
  <2>1. CASE /\ dev' = Replace(Block(0), 0, <<Hdr>>) /\ risk' = risk
             /\ acked' = [acked EXCEPT ![0] = Overlay(@, 0, <<Hdr>>)]
    <3>1. PICK data \in Seq(Data \cup {Hdr, Erased}) : data = <<Hdr>>
      <4>1. <<Hdr>> \in Seq(Data \cup {Hdr, Erased}) OBVIOUS
      <4> QED BY <4>1
    <3>2. Len(data) = 1 /\ 0 + Len(data) <= BlockSize BY <3>1
    <3>3. \A i \in 1 .. Len(data) : data[i] = Hdr =>
            i = 1 /\ 0 = 0 /\ 0 = 0 /\ (Header = Hdr \/ Clean(Lbas))
      BY <1>2, <3>2
    <3>4. PICK z \in Lbas \cap Nat : z = 0 BY Geometry
    <3>5. /\ dev' = Replace(Block(z), z, data) /\ z + Len(data) <= BlockSize
          /\ acked' = [acked EXCEPT ![z] = Overlay(@, z, data)]
          /\ \A i \in 1 .. Len(data) : data[i] = Hdr =>
            i = 1 /\ z = 0 /\ z = 0 /\ (Header = Hdr \/ Clean(Lbas))
      BY <2>1, <3>1, <3>2, <3>3, <3>4
    <3> QED BY <1>6, <2>1, <3>5, WriteKeeps
  <2>2. CASE /\ \E row \in Damage(Block(0)) : Store(Block(0), row)
             /\ risk' = risk \cup {0} /\ acked' = acked
    BY <1>6, <2>2, Geometry, DamageKeeps
  <2> QED BY <1>2, <2>1, <2>2 DEF InstallHeaders
<1> QED BY <1>1, <1>2, <1>3, <1>4, <1>5, <1>7, BodyKeeps

LEMMA PowerLossKeeps ==
  ASSUME IInv, PowerLoss
  PROVE  IInv' /\ OutsideKept
<1>1. /\ Fault /\ Return("POWER_LOST") /\ initialized' = FALSE /\ runtime' = FALSE
      /\ UNCHANGED <<count, acked, wild>>
  BY DEF PowerLoss, FlashCreateInstance
<1>2. BoolType' /\ CountType'
  <2>1. BoolType' BY <1>1, IInvParts DEF BoolType
  <2>2. CountType' BY <1>1, IInvParts DEF CountType, Fault
  <2> QED BY <2>1, <2>2
<1>3. FlashInv /\ dev \in [Blocks -> Rows] BY IInvParts DEF FlashInv
<1>4. FlashInv' /\ OutsideKept
  <2>1. CASE UNCHANGED <<dev, risk>> BY <1>1, <1>3, <2>1, FlashSame
  <2>2. CASE /\ Target # {}
             /\ \E lba \in Target :
                  /\ Block(lba) \in Blocks
                  /\ \E row \in Damage(Block(lba)) : Store(Block(lba), row)
                  /\ risk' = risk \cup (Target \cap Lbas)
    <3>1. PICK lba \in Target :
                  /\ Block(lba) \in Blocks
                  /\ \E row \in Damage(Block(lba)) : Store(Block(lba), row)
                  /\ risk' = risk \cup (Target \cap Lbas)
      BY <2>2
    <3>2. Target = {lba} BY <3>1 DEF Target
    <3>3. CASE lba \in Lbas
      <4>1. risk' = risk \cup {lba} BY <3>1, <3>2, <3>3
      <4> QED BY <1>1, <1>3, <3>1, <3>3, <4>1, DamageKeeps
    <3>4. CASE lba \notin Lbas
      <4>1. /\ pc = "body" /\ call.op \in {"FvbWrite", "WriteBlocks"}
            /\ Refusal(call) = "NONE" /\ lba = call.lba
        <5>1. todo # <<>> => Head(todo)[1] \in Lbas BY IInvParts, RemainingFacts DEF DriverType
        <5> QED BY <3>1, <3>4, <5>1, Geometry DEF Target
      <4>2. wild /\ Block(lba) \in Blocks \ Region BY <3>1, <3>4, <4>1, WriteRequest
      <4>3. PICK b \in Blocks \ Region : b = Block(lba) BY <4>2
      <4>4. PICK row \in Damage(b) : dev' = [dev EXCEPT ![b] = row] BY <3>1, <4>3 DEF Store
      <4>5. row \in Rows BY <1>3, DamageFacts
      <4>6. wild' /\ risk' = risk /\ acked' = acked BY <1>1, <3>1, <3>2, <3>4, <4>2
      <4> QED BY <1>3, <4>4, <4>5, <4>6, ElsewhereKeeps
    <3> QED BY <3>3, <3>4
  <2> QED BY <2>1, <2>2 DEF PowerLoss
<1> QED BY <1>1, <1>2, <1>4, ReturnKeeps DEF Statuses

LEMMA StutterKeeps ==
  ASSUME IInv, UNCHANGED vars
  PROVE  IInv' /\ OutsideKept
<1>1. UNCHANGED <<dev, initialized, runtime, pc, call, todo, tries, count, faults, acked,
                  risk, wild>>
  BY DEF vars, driver, history
<1>2. FlashInv' /\ OutsideKept BY <1>1, FlashSame, IInvParts
<1>3. BoolType' /\ CountType' /\ DriverType' BY <1>1, IInvParts DEF BoolType, CountType, DriverType
<1>4. RefusedUntouched' /\ CallInv' BY <1>1, IInvParts DEF RefusedUntouched, CallInv, Header
<1>5. FormatInv' /\ WipesOnlyInvalid'
  BY <1>1, IInvParts DEF FormatInv, WipesOnlyInvalid, ValidateFvHeader, Header, Clean
<1> QED BY <1>2, <1>3, <1>4, <1>5, IInvNext

LEMMA InitIInv ==
  ASSUME Init
  PROVE  IInv
<1>0. /\ initialized = FALSE /\ runtime = FALSE /\ pc = "idle" /\ call = NoCall /\ todo = <<>>
      /\ tries = 0 /\ count = 0 /\ faults = 0 /\ acked = [l \in Lbas |-> dev[Block(l)]]
      /\ risk = {} /\ wild = FALSE
  BY DEF Init
<1>1. dev \in [Blocks -> Rows] /\ (Header = Hdr => Clean(Lbas))
  <2>1. CASE dev = [b \in Blocks |-> Row(Junk)]
    <3>1. Row(Junk) \in Rows BY DEF Row, Rows, Values
    <3>2. Header # Hdr BY <2>1, Geometry DEF Header, Row, Junk, Hdr
    <3> QED BY <2>1, <3>1, <3>2
  <2>2. CASE \E d \in Data :
          dev = [b \in Blocks |-> [s \in Slots |->
                   IF b = RegionStart /\ s = 0 THEN Hdr ELSE d]]
    <3>1. PICK d \in Data :
            dev = [b \in Blocks |-> [s \in Slots |->
                     IF b = RegionStart /\ s = 0 THEN Hdr ELSE d]]
      BY <2>2
    <3>2. d \in Values /\ Hdr \in Values BY DEF Values
    <3>3. dev \in [Blocks -> Rows] BY <3>1, <3>2 DEF Rows
    <3>4. d # Junk /\ Hdr # Junk
      <4>1. Junk \notin Data /\ Hdr # Junk BY DEF Junk, Hdr
      <4> QED BY <4>1
    <3>5. Clean(Lbas) BY <3>1, <3>4, Geometry DEF Clean
    <3> QED BY <3>3, <3>5
  <2> QED BY <2>1, <2>2 DEF Init
<1>2. FlashInv
  BY <1>0, <1>1, Geometry DEF FlashInv, AckedSurvives, NoStaleUnderHeader, ValidateFvHeader
<1>3. BoolType /\ CountType BY <1>0 DEF BoolType, CountType
<1>4. DriverType
  <2>1. <<>> \in Ranges /\ ListValid(<<>>) /\ <<>> \in Seq(Data \cup {Hdr, Erased})
    BY DEF Ranges, ListValid
  <2>2. call \in Calls /\ call.status = "NONE" BY <1>0, <2>1 DEF NoCall, Calls, Ops, Statuses
  <2> QED BY <1>0, <2>1, <2>2 DEF DriverType
<1>5. RefusedUntouched /\ CallInv BY <1>0 DEF RefusedUntouched, CallInv, NoCall
<1>6. FormatInv /\ WipesOnlyInvalid BY <1>0 DEF FormatInv, WipesOnlyInvalid
<1> QED BY <1>2, <1>3, <1>4, <1>5, <1>6, IInvParts

LEMMA StepKeeps ==
  ASSUME IInv, [Next]_vars
  PROVE  IInv' /\ OutsideKept
<1>1. CASE Call
  <2>1. PICK new : Asked(new) /\ Enter(new) BY <1>1, CallsAsk, IInvParts DEF IInv, RequestsChecked
  <2>2. wild' \in BOOLEAN BY <1>1, CallsAsk DEF IInv, RequestsChecked
  <2> QED BY <2>1, <2>2, EnterKeeps
<1>2. CASE Step
  BY <1>2, BodyRefusedKeeps, ReadBodyKeeps, WriteBodyKeeps, EraseBeginKeeps, EraseBlockKeeps,
     EraseDoneKeeps, InstallHeadersKeeps DEF Step
<1> QED BY <1>1, <1>2, PowerLossKeeps, RestartKeeps, ExitKeeps, StutterKeeps DEF Next, Call

(* --- The results --- *)
THEOREM FvbInvariant == Spec => []IInv
<1>1. Init => IInv BY InitIInv
<1>2. IInv /\ [Next]_vars => IInv' BY StepKeeps
<1> QED BY <1>1, <1>2, PTL DEF Spec

THEOREM RequestsCorrect == Spec => []RequestsChecked
<1>1. IInv => RequestsChecked BY DEF IInv
<1> QED BY <1>1, FvbInvariant, PTL

THEOREM AckedCorrect == Spec => []AckedSurvives
<1>1. IInv => AckedSurvives BY DEF IInv
<1> QED BY <1>1, FvbInvariant, PTL

THEOREM WipesCorrect == Spec => []WipesOnlyInvalid
<1>1. IInv => WipesOnlyInvalid BY DEF IInv
<1> QED BY <1>1, FvbInvariant, PTL

THEOREM StaleCorrect == Spec => []NoStaleUnderHeader
<1>1. IInv => NoStaleUnderHeader BY DEF IInv
<1> QED BY <1>1, FvbInvariant, PTL

THEOREM OutsideCorrect == Spec => OutsideUntouched
<1>1. IInv /\ [Next]_vars => [~wild' => \A b \in Blocks \ Region : dev'[b] = dev[b]]_vars
  BY StepKeeps DEF OutsideKept
<1> QED BY <1>1, FvbInvariant, PTL DEF Spec, OutsideUntouched

=============================================================================
