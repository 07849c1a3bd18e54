---------------------------- MODULE NorFlash_proofs ----------------------------
(***************************************************************************)
(* Proofs about NorFlash, for every geometry, contents and buffers: the    *)
(* invariant Core of the copy-erase-program loop, and from it that a       *)
(* successful call has done its work (SuccessMeansDone) and that an        *)
(* interrupted one has put one sector at risk only (SectorsAtRisk).        *)
(*                                                                         *)
(* Division, multiples; the geometry; the jobs of a sector (Pieces,        *)
(* SectorJobs); the chips' commands; then Basic (types, and what is true   *)
(* of every call), LoopInv and SectorInv action by action.                 *)
(***************************************************************************)
EXTENDS NorFlash, SequenceTheorems, TLAPS

(* --- Division and multiples --- *)
LEMMA DivFacts ==
  ASSUME NEW a \in Nat, NEW n \in Nat \ {0}
  PROVE  /\ a \div n \in Nat /\ a % n \in 0 .. n - 1
         /\ a = (a \div n) * n + (a % n)
  OBVIOUS

\* Multiples are n apart.
LEMMA MultiplesApart ==
  ASSUME NEW n \in Nat \ {0}, NEW p \in Nat, NEW q \in Nat, p * n < q * n + n
  PROVE  p <= q
<1>1. SUFFICES ASSUME p > q PROVE FALSE OBVIOUS
<1>2. PICK k \in Nat : p = q + 1 + k
  <2>1. p - q - 1 \in Nat BY <1>1
  <2> QED BY <2>1
<1>3. p * n = q * n + n + k * n BY <1>2
<1>4. k * n \in Nat OBVIOUS
<1> QED BY <1>3, <1>4

\* Quotient and remainder are the only ones.
LEMMA DivUnique ==
  ASSUME NEW n \in Nat \ {0}, NEW q \in Nat, NEW r \in 0 .. n - 1
  PROVE  (q * n + r) \div n = q /\ (q * n + r) % n = r
<1>1. PICK a \in Nat : a = q * n + r OBVIOUS
<1>2. PICK p \in Nat : p = a \div n BY DivFacts
<1>3. a = p * n + (a % n) /\ a % n \in 0 .. n - 1 BY <1>2, DivFacts
<1>4. PICK s \in 0 .. n - 1 : s = a % n BY <1>3
<1>5. p * n < q * n + n /\ q * n < p * n + n
  <2>1. p * n \in Nat /\ q * n \in Nat OBVIOUS
  <2> QED BY <1>1, <1>3, <1>4, <2>1
<1>6. p = q
  <2>1. p <= q BY <1>5, MultiplesApart
  <2>2. q <= p BY <1>5, MultiplesApart
  <2> QED BY <2>1, <2>2
<1>7. s = r
  <2>1. p * n \in Nat OBVIOUS
  <2> QED BY <1>1, <1>3, <1>4, <1>6, <2>1
<1> QED BY <1>1, <1>2, <1>4, <1>6, <1>7

\* A remainder of zero is a product.
LEMMA Multiple ==
  ASSUME NEW n \in Nat \ {0}, NEW a \in Nat
  PROVE  a % n = 0 <=> \E q \in Nat : a = q * n
<1>1. ASSUME a % n = 0 PROVE \E q \in Nat : a = q * n
  <2>1. a = (a \div n) * n + 0 /\ a \div n \in Nat BY <1>1, DivFacts
  <2>2. PICK q \in Nat : q = a \div n BY <2>1
  <2>3. q * n \in Nat OBVIOUS
  <2>4. a = q * n BY <2>1, <2>2, <2>3
  <2> QED BY <2>4
<1>2. ASSUME NEW q \in Nat, a = q * n PROVE a % n = 0
  <2>1. 0 \in 0 .. n - 1 /\ q * n + 0 = q * n OBVIOUS
  <2> QED BY <1>2, <2>1, DivUnique
<1> QED BY <1>1, <1>2

\* A multiple that is less than the next one after another is not after it.
LEMMA MultipleStep ==
  ASSUME NEW n \in Nat \ {0}, NEW a \in Nat, NEW b \in Nat, a % n = 0, b % n = 0, a < b + n
  PROVE  a <= b
<1>1. PICK p \in Nat : a = p * n BY Multiple
<1>2. PICK q \in Nat : b = q * n BY Multiple
<1>3. p <= q BY <1>1, <1>2, MultiplesApart
<1>4. PICK k \in Nat : q = p + k
  <2>1. q - p \in Nat BY <1>3
  <2> QED BY <2>1
<1>5. q * n = p * n + k * n /\ k * n \in Nat /\ p * n \in Nat BY <1>4
<1> QED BY <1>1, <1>2, <1>5

\* Sums with a multiple.
LEMMA MultipleSum ==
  ASSUME NEW n \in Nat \ {0}, NEW a \in Nat, NEW b \in Nat, a % n = 0
  PROVE  (a + b) % n = b % n
<1>1. PICK p \in Nat : a = p * n BY Multiple
<1>2. PICK q \in Nat, r \in 0 .. n - 1 : b = q * n + r /\ r = b % n
  <2>1. b \div n \in Nat /\ b % n \in 0 .. n - 1 /\ b = (b \div n) * n + (b % n) BY DivFacts
  <2> QED BY <2>1
<1>3. PICK s \in Nat : s = p + q OBVIOUS
<1>4. a + b = s * n + r BY <1>1, <1>2, <1>3
<1>5. (s * n + r) % n = r BY DivUnique
<1> QED BY <1>2, <1>4, <1>5

(* --- Geometry: sectors and units; a chip and the flash are whole sectors --- *)
LEMMA Sizes ==
  ASSUME par \in ParallelNums
  PROVE  /\ par \in {1, 2} /\ SectorSize \in Nat \ {0} /\ UnitSize \in Nat \ {0}
         /\ ChipSize \in Nat \ {0} /\ Total \in Nat \ {0} /\ BlockSize \in Nat \ {0}
         /\ ChipSize % SectorSize = 0 /\ Total % SectorSize = 0 /\ Total % ChipSize = 0
         /\ BlockSize <= SectorSize /\ ChipSize <= Total /\ Total <= 2 * ChipSize
<1>1. /\ par \in {1, 2} /\ {ChipSize, BlockSize, BufferProgramSize} \subseteq Nat \ {0}
      /\ ChipSize % (BlockSize * par) = 0
  BY ConstantsAssumption
<1>2. SectorSize \in Nat \ {0} /\ UnitSize \in Nat \ {0} /\ BlockSize <= SectorSize
  BY <1>1 DEF SectorSize, UnitSize
<1>3. Total \in Nat \ {0} /\ ChipSize <= Total /\ Total <= 2 * ChipSize BY <1>1 DEF Total
<1>4. ChipSize % SectorSize = 0 BY <1>1 DEF SectorSize
<1>5. Total % SectorSize = 0 /\ Total % ChipSize = 0
  <2>1. CASE par = 1
    <3>1. Total = 1 * ChipSize BY <1>1, <2>1 DEF Total
    <3> QED BY <1>1, <1>4, <3>1, Multiple
  <2>2. CASE par = 2
    <3>1. Total = ChipSize + ChipSize /\ Total = 2 * ChipSize BY <1>1, <2>2 DEF Total
    <3>2. (ChipSize + ChipSize) % SectorSize = ChipSize % SectorSize
      BY <1>1, <1>2, <1>4, MultipleSum
    <3>3. Total % ChipSize = 0 BY <1>1, <1>3, <3>1, Multiple
    <3> QED BY <1>4, <3>1, <3>2, <3>3
  <2> QED BY <1>1, <2>1, <2>2
<1> QED BY <1>1, <1>2, <1>3, <1>4, <1>5

\* The sector of a word.
LEMMA SectorOfFacts ==
  ASSUME par \in ParallelNums, NEW a \in Nat
  PROVE  /\ SectorOf(a) \in Nat /\ SectorOf(a) % SectorSize = 0
         /\ SectorOf(a) <= a /\ a < SectorOf(a) + SectorSize
         /\ a % SectorSize = a - SectorOf(a) /\ a % SectorSize \in 0 .. SectorSize - 1
<1>1. PICK n \in Nat \ {0} : n = SectorSize BY Sizes
<1>2. PICK q \in Nat, r \in 0 .. n - 1 : a = q * n + r /\ r = a % n
  <2>1. a \div n \in Nat /\ a % n \in 0 .. n - 1 /\ a = (a \div n) * n + (a % n) BY DivFacts
  <2> QED BY <2>1
<1>3. PICK m \in Nat : m = q * n OBVIOUS
<1>4. m % n = 0 BY <1>3, Multiple
<1>5. SectorOf(a) = a - r BY <1>1, <1>2 DEF SectorOf
<1>6. SectorOf(a) = m /\ a = m + r BY <1>2, <1>3, <1>5
<1>7. a % SectorSize = r /\ m % SectorSize = 0 BY <1>1, <1>2, <1>4
<1> QED BY <1>1, <1>6, <1>7

\* The words of a sector are in no other one, and in the flash.
LEMMA SectorWords ==
  ASSUME par \in ParallelNums, NEW s \in Nat, s % SectorSize = 0, NEW a \in Nat
  PROVE  /\ s <= a /\ a < s + SectorSize => SectorOf(a) = s
         /\ s <= a => s <= SectorOf(a)
         /\ a < s => a + SectorSize < s + SectorSize /\ SectorOf(a) + SectorSize <= s
         /\ a < s + SectorSize => SectorOf(a) <= s
         /\ s < Total => s + SectorSize <= Total
         /\ s < ChipSize => s + SectorSize <= ChipSize
<1>1. PICK n \in Nat \ {0} : n = SectorSize BY Sizes
<1>2. PICK t \in Nat : t = SectorOf(a) BY SectorOfFacts
<1>3. t % n = 0 /\ t <= a /\ a < t + n BY <1>1, <1>2, SectorOfFacts
<1>4. s % n = 0 BY <1>1
<1>5. s < t + n => s <= t BY <1>3, <1>4, MultipleStep
<1>6. t < s + n => t <= s BY <1>3, <1>4, MultipleStep
<1>7. ASSUME t < s PROVE t + n <= s
  <2>1. (n + t) % n = t % n
    <3>1. n % n = 0 BY Multiple
    <3> QED BY <3>1, MultipleSum
  <2>2. PICK u \in Nat : u = t + n OBVIOUS
  <2>3. u % n = 0 /\ u < s + n BY <1>3, <1>7, <2>1, <2>2
  <2>4. u <= s BY <1>4, <2>3, MultipleStep
  <2> QED BY <2>2, <2>4
<1>8. ASSUME NEW b \in Nat, b % n = 0, s < b PROVE s + n <= b
  <2>1. (n + s) % n = s % n
    <3>1. n % n = 0 BY Multiple
    <3> QED BY <3>1, MultipleSum
  <2>2. PICK u \in Nat : u = s + n OBVIOUS
  <2>3. u % n = 0 /\ u < b + n BY <1>4, <1>8, <2>1, <2>2
  <2>4. u <= b BY <1>8, <2>3, MultipleStep
  <2> QED BY <2>2, <2>4
<1>9. s < Total => s + n <= Total BY <1>1, <1>8, Sizes
<1>10. s < ChipSize => s + n <= ChipSize BY <1>1, <1>8, Sizes
<1>11. a < s => t < s BY <1>3
<1> QED BY <1>1, <1>2, <1>3, <1>5, <1>6, <1>7, <1>9, <1>10, <1>11

\* The program unit of a word.
LEMMA UnitOfFacts ==
  ASSUME par \in ParallelNums, NEW a \in Nat
  PROVE  /\ UnitOf(a) \in Nat /\ UnitOf(a) <= a /\ a < UnitOf(a) + UnitSize
         /\ UnitOf(a) = (a \div UnitSize) * UnitSize /\ a \div UnitSize \in Nat
<1>1. PICK n \in Nat \ {0} : n = UnitSize BY Sizes
<1>2. PICK q \in Nat, r \in 0 .. n - 1 : a = q * n + r /\ r = a % n /\ q = a \div n
  <2>1. a \div n \in Nat /\ a % n \in 0 .. n - 1 /\ a = (a \div n) * n + (a % n) BY DivFacts
  <2> QED BY <2>1
<1>3. PICK m \in Nat : m = q * n OBVIOUS
<1>4. UnitOf(a) = m BY <1>1, <1>2, <1>3 DEF UnitOf
<1> QED BY <1>1, <1>2, <1>3, <1>4

\* What lies between the begin and the end of a unit is in it.
LEMMA UnitIs ==
  ASSUME par \in ParallelNums, NEW q \in Nat, NEW a \in Nat,
         q * UnitSize <= a, a < q * UnitSize + UnitSize
  PROVE  UnitOf(a) = q * UnitSize /\ a \div UnitSize = q
<1>1. PICK n \in Nat \ {0} : n = UnitSize BY Sizes
<1>2. PICK m \in Nat : m = q * n OBVIOUS
<1>3. PICK r \in 0 .. n - 1 : a = m + r
  <2>1. a - m \in 0 .. n - 1 BY <1>1, <1>2
  <2> QED BY <2>1
<1>4. a \div n = q BY <1>2, <1>3, DivUnique
<1> QED BY <1>1, <1>4, UnitOfFacts

\* The start of a sector of this chip, and its words in the flash.
LEMMA MaxOfTwo ==
  ASSUME NEW a \in Int, NEW b \in Int
  PROVE  Max({a, b}) = IF a >= b THEN a ELSE b
<1>1. \A x \in {a, b} : (\A y \in {a, b} : x >= y) => x = IF a >= b THEN a ELSE b OBVIOUS
<1>2. \E x \in {a, b} : \A y \in {a, b} : x >= y OBVIOUS
<1> QED BY <1>1, <1>2 DEF Max

\* The smaller of two numbers.
LEMMA MinOfTwo ==
  ASSUME NEW a \in Int, NEW b \in Int
  PROVE  Min({a, b}) = IF a <= b THEN a ELSE b
<1>1. \A x \in {a, b} : (\A y \in {a, b} : x <= y) => x = IF a <= b THEN a ELSE b OBVIOUS
<1>2. \E x \in {a, b} : \A y \in {a, b} : x <= y OBVIOUS
<1> QED BY <1>1, <1>2 DEF Min

Elements(s) == {s[k] : k \in 1 .. Len(s)}

\* p are jobs that write the data at off, each within one unit.
JobsFor(p, off, data) ==
  /\ p \in Seq(Jobs)
  /\ \A job \in Elements(p) :
       /\ job \in Jobs
       /\ off <= job.at /\ job.at + Len(job.data) <= off + Len(data)
       /\ job.at + Len(job.data) <= UnitOf(job.at) + UnitSize
       /\ \A i \in 1 .. Len(job.data) : job.data[i] = data[job.at - off + i]
  /\ \A a \in off .. off + Len(data) - 1 : \E job \in Elements(p) : a \in JobWords(job)

\* A part of a sequence: its type, its length and its elements.
LEMMA Slice ==
  ASSUME NEW S, NEW s \in Seq(S), NEW m \in Nat, NEW n \in Nat, n <= Len(s)
  PROVE  /\ SubSeq(s, m + 1, n) \in Seq(S)
         /\ Len(SubSeq(s, m + 1, n)) = IF m <= n THEN n - m ELSE 0
         /\ \A i \in 1 .. n - m : SubSeq(s, m + 1, n)[i] = s[m + i]
  OBVIOUS

\* Pieces: the units between the first and the last that the range
\* touches, each with its slice of the data.
LEMMA PiecesFacts ==
  ASSUME par \in ParallelNums, NEW off \in Nat, NEW data \in Seq(Values)
  PROVE  /\ Pieces(off, data) \in Seq(Jobs)
         /\ JobsFor(Pieces(off, data), off, data)
         /\ data = <<>> => Pieces(off, data) = <<>>
<1>1. PICK n \in Nat \ {0} : n = UnitSize BY Sizes
<1>2. CASE data = <<>>
  <2>1. Pieces(off, data) = <<>> BY <1>2 DEF Pieces
  <2>2. <<>> \in Seq(Jobs) /\ Elements(<<>>) = {} BY DEF Elements
  <2>3. \A a \in off .. off + Len(data) - 1 : FALSE BY <1>2
  <2> QED BY <2>1, <2>2, <2>3 DEF JobsFor
<1>3. CASE data # <<>>
  <2>1. PICK end \in Nat : end = off + Len(data) /\ off < end BY <1>3
  <2>2. PICK first \in Nat : first = off \div n BY DivFacts
  <2>3. PICK e \in Nat : e = end - 1
    <3>1. end - 1 \in Nat BY <2>1
    <3> QED BY <3>1
  <2>4. PICK last \in Nat : last = (end - 1) \div n BY <2>3, DivFacts
  <2>5. first <= last
    <3>1. first * n <= off
      <4>1. off = first * n + (off % n) /\ off % n \in 0 .. n - 1 BY <2>2, DivFacts
      <4>2. first * n \in Nat OBVIOUS
      <4> QED BY <4>1, <4>2
    <3>2. e < last * n + n
      <4>1. e = last * n + (e % n) /\ e % n \in 0 .. n - 1 BY <2>3, <2>4, DivFacts
      <4>2. last * n \in Nat OBVIOUS
      <4> QED BY <4>1, <4>2
    <3>3. first * n < last * n + n
      <4>1. last * n \in Nat /\ first * n \in Nat OBVIOUS
      <4> QED BY <2>1, <2>3, <3>1, <3>2, <4>1
    <3> QED BY <3>3, MultiplesApart
  <2>6. PICK count \in Nat : count = last - first + 1
    <3>1. last - first + 1 \in Nat BY <2>5
    <3> QED BY <3>1
  <2> DEFINE From(k) == Max({off, (first + k - 1) * n})
             To(k) == Min({end, (first + k) * n})
             Piece(k) == [at      |-> From(k),
                          data    |-> SubSeq(data, From(k) - off + 1, To(k) - off),
                          crosses |-> k = 1 /\ off % n # 0 /\ To(k) >= ChipSize]
  <2>7. Pieces(off, data) = [k \in 1 .. count |-> Piece(k)]
    BY <1>1, <1>3, <2>1, <2>2, <2>4, <2>6 DEF Pieces
  <2>8. ASSUME NEW k \in 1 .. count
        PROVE  /\ From(k) \in Nat /\ To(k) \in Nat
               /\ off <= From(k) /\ From(k) < To(k) /\ To(k) <= end
               /\ To(k) <= UnitOf(From(k)) + UnitSize
               /\ \A a \in Nat : off <= a /\ a < end /\ a \div n = first + k - 1
                    => From(k) <= a /\ a < To(k)
    <3>1. PICK q \in Nat : q = first + k - 1
      <4>1. first + k - 1 \in Nat OBVIOUS
      <4> QED BY <4>1
    <3>2. first <= q /\ q <= last BY <2>6, <3>1
    <3>3. (first + k) * n = q * n + n
      <4>1. first + k = q + 1 BY <3>1
      <4> QED BY <4>1
    <3>4. PICK m \in Nat : m = q * n OBVIOUS
    <3>5. off < m + n
      <4>1. off = first * n + (off % n) /\ off % n \in 0 .. n - 1 BY <2>2, DivFacts
      <4>2. first * n \in Nat OBVIOUS
      <4>3. off < first * n + n BY <4>1, <4>2
      <4>4. PICK j \in Nat : q = first + j
        <5>1. q - first \in Nat BY <3>2
        <5> QED BY <5>1
      <4>5. m = first * n + j * n /\ j * n \in Nat BY <3>4, <4>4
      <4> QED BY <4>2, <4>3, <4>5
    <3>6. m < end
      <4>1. e = last * n + (e % n) /\ e % n \in 0 .. n - 1 BY <2>3, <2>4, DivFacts
      <4>2. PICK j \in Nat : last = q + j
        <5>1. last - q \in Nat BY <3>2
        <5> QED BY <5>1
      <4>3. last * n = m + j * n /\ j * n \in Nat BY <3>4, <4>2
      <4> QED BY <2>3, <4>1, <4>3
    <3>7. From(k) \in Nat /\ From(k) = IF off >= m THEN off ELSE m
      BY <3>1, <3>4, MaxOfTwo
    <3>8. To(k) \in Nat /\ To(k) = IF end <= m + n THEN end ELSE m + n
      <4>1. m + n \in Nat /\ (first + k) * n = m + n BY <3>3, <3>4
      <4> QED BY <4>1, MinOfTwo
    <3> HIDE DEF From, To
    <3>9. PICK from \in Nat, to \in Nat : from = From(k) /\ to = To(k) BY <3>7, <3>8
    <3>10. off <= from /\ from < to /\ to <= end /\ to <= m + n /\ m <= from /\ from < m + n
      BY <2>1, <3>5, <3>6, <3>7, <3>8, <3>9
    <3>11. UnitOf(from) = m BY <1>1, <3>4, <3>10, UnitIs
    <3>12. ASSUME NEW a \in Nat, off <= a, a < end, a \div n = q PROVE from <= a /\ a < to
      <4>1. a = q * n + (a % n) /\ a % n \in 0 .. n - 1 BY <3>12, DivFacts
      <4>2. m <= a /\ a < m + n BY <3>4, <4>1
      <4> QED BY <3>7, <3>8, <3>9, <3>12, <4>2
    <3>13. to <= UnitOf(from) + UnitSize BY <1>1, <3>10, <3>11
    <3> QED BY <3>1, <3>9, <3>10, <3>12, <3>13
  <2>9. ASSUME NEW k \in 1 .. count
        PROVE  /\ Piece(k) \in Jobs /\ off <= Piece(k).at
               /\ Piece(k).at + Len(Piece(k).data) = To(k) /\ To(k) <= off + Len(data)
               /\ To(k) <= UnitOf(Piece(k).at) + UnitSize
               /\ \A i \in 1 .. Len(Piece(k).data) :
                    Piece(k).data[i] = data[Piece(k).at - off + i]
               /\ Piece(k).at = From(k) /\ JobWords(Piece(k)) = From(k) .. To(k) - 1
    <3>1. PICK from \in Nat, to \in Nat :
            /\ from = From(k) /\ to = To(k) /\ off <= from /\ from < to /\ to <= end
            /\ to <= UnitOf(from) + UnitSize
      BY <2>8
    <3> HIDE DEF Piece, From, To
    <3>2. off <= from /\ from < to /\ to <= off + Len(data) BY <2>1, <3>1
    <3>3. PICK m \in Nat, l \in Nat : m = from - off /\ l = to - off
      <4>1. from - off \in Nat /\ to - off \in Nat BY <3>2
      <4> QED BY <4>1
    <3>4. PICK slice \in Seq(Values) :
            /\ slice = SubSeq(data, m + 1, l) /\ Len(slice) = to - from
            /\ \A i \in 1 .. Len(slice) : slice[i] = data[m + i]
      <4>1. l <= Len(data) /\ m <= l /\ l - m = to - from BY <3>2, <3>3
      <4>2. PICK slice : slice = SubSeq(data, m + 1, l) OBVIOUS
      <4>3. /\ slice \in Seq(Values) /\ Len(slice) = l - m
            /\ \A i \in 1 .. l - m : slice[i] = data[m + i]
        BY <4>1, <4>2, Slice
      <4> QED BY <4>1, <4>2, <4>3
    <3>5. Piece(k) = [at |-> from, data |-> slice,
                      crosses |-> k = 1 /\ off % n # 0 /\ to >= ChipSize]
      BY <3>1, <3>3, <3>4 DEF Piece
    <3>6. Piece(k) \in Jobs BY <3>5 DEF Jobs
    <3>7. Piece(k).at = from /\ Piece(k).data = slice BY <3>5
    <3>8. from + Len(slice) = to
      <4>1. from \in Nat /\ to \in Nat BY <3>1
      <4>2. Len(slice) = to - from BY <3>4
      <4> QED BY <4>1, <4>2
    <3>9. JobWords(Piece(k)) = from .. to - 1 BY <3>7, <3>8 DEF JobWords
    <3>10. \A i \in 1 .. Len(slice) : slice[i] = data[from - off + i] BY <3>3, <3>4
    <3> QED BY <3>2, <3>1, <3>6, <3>7, <3>8, <3>9, <3>10
  <2>10. ASSUME NEW a \in off .. off + Len(data) - 1
         PROVE  \E k \in 1 .. count : a \in From(k) .. To(k) - 1
    <3>1. a \in Nat /\ off <= a /\ a < end BY <2>1
    <3>2. PICK q \in Nat : q = a \div n BY <3>1, DivFacts
    <3>3. q * n <= a /\ a < q * n + n /\ q * n \in Nat
      <4>1. a = q * n + (a % n) /\ a % n \in 0 .. n - 1 BY <3>1, <3>2, DivFacts
      <4>2. q * n \in Nat OBVIOUS
      <4> QED BY <4>1, <4>2
    <3>4. first <= q
      <4>1. off = first * n + (off % n) /\ off % n \in 0 .. n - 1 BY <2>2, DivFacts
      <4>2. first * n \in Nat OBVIOUS
      <4>3. first * n < q * n + n BY <3>1, <3>3, <4>1, <4>2
      <4> QED BY <4>3, MultiplesApart
    <3>5. q <= last
      <4>1. e = last * n + (e % n) /\ e % n \in 0 .. n - 1 BY <2>3, <2>4, DivFacts
      <4>2. last * n \in Nat OBVIOUS
      <4>3. q * n < last * n + n BY <2>3, <3>1, <3>3, <4>1, <4>2
      <4> QED BY <4>3, MultiplesApart
    <3>6. PICK k \in 1 .. count : k = q - first + 1
      <4>1. q - first + 1 \in 1 .. count BY <2>6, <3>4, <3>5
      <4> QED BY <4>1
    <3>7. a \div n = first + k - 1 BY <3>2, <3>6
    <3>8. From(k) <= a /\ a < To(k) /\ From(k) \in Nat /\ To(k) \in Nat BY <2>8, <3>1, <3>7
    <3> HIDE DEF From, To
    <3> QED BY <3>1, <3>8
  <2> HIDE DEF From, To, Piece
  <2>11. Pieces(off, data) \in Seq(Jobs) /\ Len(Pieces(off, data)) = count
    BY <2>7, <2>9
  <2>12. \A k \in 1 .. count : Pieces(off, data)[k] = Piece(k) BY <2>7
  <2>13. Elements(Pieces(off, data)) = {Piece(k) : k \in 1 .. count}
    BY <2>11, <2>12 DEF Elements
  <2>14. \A job \in Elements(Pieces(off, data)) :
           /\ job \in Jobs /\ off <= job.at /\ job.at + Len(job.data) <= off + Len(data)
           /\ job.at + Len(job.data) <= UnitOf(job.at) + UnitSize
           /\ \A i \in 1 .. Len(job.data) : job.data[i] = data[job.at - off + i]
    BY <2>9, <2>13
  <2>15. ASSUME NEW a \in off .. off + Len(data) - 1
         PROVE  \E job \in Elements(Pieces(off, data)) : a \in JobWords(job)
    BY <2>9, <2>10, <2>13
  <2> QED BY <1>3, <2>11, <2>14, <2>15 DEF JobsFor
<1> QED BY <1>2, <1>3

\* The elements of two sequences, one after the other.
LEMMA Joined ==
  ASSUME NEW S, NEW s \in Seq(S), NEW t \in Seq(S)
  PROVE  s \o t \in Seq(S) /\ Elements(s \o t) = Elements(s) \cup Elements(t)
<1>1. /\ s \o t \in Seq(S) /\ Len(s \o t) = Len(s) + Len(t) /\ Len(s) \in Nat /\ Len(t) \in Nat
      /\ \A i \in 1 .. Len(s) : (s \o t)[i] = s[i]
      /\ \A i \in 1 .. Len(t) : (s \o t)[Len(s) + i] = t[i]
  OBVIOUS
<1>2. ASSUME NEW k \in 1 .. Len(s \o t)
      PROVE  (s \o t)[k] \in Elements(s) \cup Elements(t)
  <2>1. CASE k <= Len(s) BY <1>1, <2>1 DEF Elements
  <2>2. CASE k > Len(s)
    <3>1. PICK i \in 1 .. Len(t) : i = k - Len(s)
      <4>1. k - Len(s) \in 1 .. Len(t) BY <1>1, <2>2
      <4> QED BY <4>1
    <3>2. k = Len(s) + i BY <1>1, <3>1
    <3> QED BY <1>1, <3>1, <3>2 DEF Elements
  <2> QED BY <1>1, <2>1, <2>2
<1>3. ASSUME NEW i \in 1 .. Len(s) PROVE s[i] \in Elements(s \o t)
  <2>1. i \in 1 .. Len(s \o t) BY <1>1
  <2> QED BY <1>1, <2>1 DEF Elements
<1>4. ASSUME NEW i \in 1 .. Len(t) PROVE t[i] \in Elements(s \o t)
  <2>1. Len(s) + i \in 1 .. Len(s \o t) BY <1>1
  <2> QED BY <1>1, <2>1 DEF Elements
<1>5. Elements(s \o t) \subseteq Elements(s) \cup Elements(t)
  <2>1. \A x \in Elements(s \o t) : \E k \in 1 .. Len(s \o t) : x = (s \o t)[k] BY DEF Elements
  <2> QED BY <1>2, <2>1
<1>6. Elements(s) \subseteq Elements(s \o t)
  <2>1. \A x \in Elements(s) : \E i \in 1 .. Len(s) : x = s[i] BY DEF Elements
  <2> QED BY <1>3, <2>1
<1>7. Elements(t) \subseteq Elements(s \o t)
  <2>1. \A x \in Elements(t) : \E i \in 1 .. Len(t) : x = t[i] BY DEF Elements
  <2> QED BY <1>4, <2>1
<1> QED BY <1>1, <1>5, <1>6, <1>7

\* A queue of jobs without its first one.
LEMMA OneLess ==
  ASSUME NEW S, NEW s \in Seq(S), s # <<>>
  PROVE  /\ Tail(s) \in Seq(S) /\ Head(s) \in S
         /\ Elements(s) = Elements(Tail(s)) \cup {Head(s)}
<1>1. /\ Tail(s) \in Seq(S) /\ Len(Tail(s)) = Len(s) - 1 /\ Len(s) \in Nat \ {0}
      /\ Head(s) = s[1] /\ \A i \in 1 .. Len(s) - 1 : Tail(s)[i] = s[i + 1]
  OBVIOUS
<1>2. Head(s) \in S
  <2>1. 1 \in 1 .. Len(s) BY <1>1
  <2> QED BY <1>1, <2>1
<1>3. ASSUME NEW k \in 1 .. Len(s) PROVE s[k] \in Elements(Tail(s)) \cup {Head(s)}
  <2>1. CASE k = 1 BY <1>1, <2>1
  <2>2. CASE k # 1
    <3>1. PICK i \in 1 .. Len(Tail(s)) : k = i + 1
      <4>1. k - 1 \in 1 .. Len(Tail(s)) BY <1>1, <2>2
      <4> QED BY <4>1
    <3> QED BY <1>1, <3>1 DEF Elements
  <2> QED BY <2>1, <2>2
<1>4. ASSUME NEW i \in 1 .. Len(Tail(s)) PROVE Tail(s)[i] \in Elements(s)
  <2>1. i + 1 \in 1 .. Len(s) /\ i \in 1 .. Len(s) - 1 BY <1>1
  <2> QED BY <1>1, <2>1 DEF Elements
<1>5. Head(s) \in Elements(s)
  <2>1. 1 \in 1 .. Len(s) BY <1>1
  <2> QED BY <1>1, <2>1 DEF Elements
<1> QED BY <1>1, <1>2, <1>3, <1>4, <1>5 DEF Elements

\* The geometry is the same in every state.
LEMMA Geometry ==
  ASSUME par' = par
  PROVE  /\ Words' = Words /\ Total' = Total /\ SectorSize' = SectorSize /\ UnitSize' = UnitSize
         /\ \A a : SectorOf(a)' = SectorOf(a) /\ UnitOf(a)' = UnitOf(a)
  BY DEF Words, Total, SectorSize, UnitSize, SectorOf, UnitOf

\* What of the call is in the sector it is at.
LEMMA TempFacts ==
  ASSUME par \in ParallelNums, cur.off \in Nat, cur.data \in Seq(Values), cur.data # <<>>
  PROVE  /\ TempLength \in 1 .. Len(cur.data)
         /\ cur.off + TempLength <= SectorOf(cur.off) + SectorSize
         /\ \/ TempLength = Len(cur.data)
            \/ cur.off + TempLength = SectorOf(cur.off) + SectorSize
         /\ Part \in Seq(Values) /\ Len(Part) = TempLength
         /\ \A i \in 1 .. TempLength : Part[i] = cur.data[i]
<1>1. /\ SectorOf(cur.off) \in Nat /\ SectorOf(cur.off) <= cur.off
      /\ cur.off < SectorOf(cur.off) + SectorSize /\ SectorSize \in Nat
      /\ cur.off % SectorSize = cur.off - SectorOf(cur.off)
  BY SectorOfFacts, Sizes
<1>2. PICK l \in Nat \ {0} : l = Len(cur.data) OBVIOUS
<1>3. PICK r \in Nat \ {0} : r = SectorSize - (cur.off % SectorSize)
  <2>1. SectorSize - (cur.off - SectorOf(cur.off)) \in Nat \ {0} BY <1>1
  <2> QED BY <1>1, <2>1
<1>4. TempLength = IF r <= l THEN r ELSE l BY <1>2, <1>3, MinOfTwo DEF TempLength
<1>5. cur.off + r = SectorOf(cur.off) + SectorSize BY <1>1, <1>3
<1>6. TempLength \in 1 .. Len(cur.data) BY <1>2, <1>4
<1>7. /\ Part \in Seq(Values) /\ Len(Part) = TempLength
      /\ \A i \in 1 .. TempLength : Part[i] = cur.data[i]
  BY <1>6 DEF Part
<1>8. cur.off + TempLength <= cur.off + r BY <1>2, <1>4
<1> QED BY <1>2, <1>4, <1>5, <1>6, <1>7, <1>8

\* The loop goes on by what has been done.
LEMMA AdvanceFacts ==
  ASSUME par \in ParallelNums, cur \in [base : Nat, off : Nat, data : Seq(Values), sector : Nat],
         cur.base % ChipSize = 0, cur.off < ChipSize, cur.data # <<>>, Advance(TempLength)
  PROVE  /\ cur' \in [base : Nat, off : Nat, data : Seq(Values), sector : Nat]
         /\ cur'.base % ChipSize = 0 /\ cur'.off < ChipSize
         /\ cur'.base + cur'.off = cur.base + cur.off + TempLength
         /\ Len(cur'.data) = Len(cur.data) - TempLength
         /\ \A i \in 1 .. Len(cur'.data) : cur'.data[i] = cur.data[TempLength + i]
<1>1. TempLength \in 1 .. Len(cur.data) /\ cur.off + TempLength <= SectorOf(cur.off) + SectorSize
  BY TempFacts
<1>2. SectorOf(cur.off) + SectorSize <= ChipSize
  <2>1. SectorOf(cur.off) \in Nat /\ SectorOf(cur.off) % SectorSize = 0
        /\ SectorOf(cur.off) <= cur.off
    BY SectorOfFacts
  <2>2. ChipSize \in Nat BY Sizes
  <2>3. SectorOf(cur.off) < ChipSize BY <2>1, <2>2
  <2> QED BY <2>1, <2>3, SectorWords
<1>3. PICK n \in Nat : n = TempLength BY <1>1
<1>4. cur.off + n <= ChipSize /\ ChipSize \in Nat \ {0}
  <2>1. SectorOf(cur.off) \in Nat /\ SectorSize \in Nat /\ ChipSize \in Nat \ {0}
    BY SectorOfFacts, Sizes
  <2> QED BY <1>1, <1>2, <1>3, <2>1
<1>5. PICK rest \in Seq(Values) :
        /\ rest = SubSeq(cur.data, n + 1, Len(cur.data)) /\ Len(rest) = Len(cur.data) - n
        /\ \A i \in 1 .. Len(rest) : rest[i] = cur.data[n + i]
  <2>1. n <= Len(cur.data) /\ Len(cur.data) \in Nat BY <1>1, <1>3
  <2>2. PICK rest : rest = SubSeq(cur.data, n + 1, Len(cur.data)) OBVIOUS
  <2>3. /\ rest \in Seq(Values) /\ Len(rest) = Len(cur.data) - n
        /\ \A i \in 1 .. Len(cur.data) - n : rest[i] = cur.data[n + i]
    BY <2>1, <2>2, Slice
  <2> QED BY <2>2, <2>3
<1>6. CASE cur.off + n >= ChipSize
  <2>1. cur.off + n = ChipSize BY <1>4, <1>6
  <2>2. cur' = [base |-> cur.base + ChipSize, off |-> 0, data |-> rest, sector |-> cur.sector]
    BY <1>3, <1>5, <1>6 DEF Advance
  <2>3. (cur.base + ChipSize) % ChipSize = 0
    <3>1. ChipSize % ChipSize = 0 BY <1>4, Multiple
    <3> QED BY <1>4, <3>1, MultipleSum
  <2>4. cur' \in [base : Nat, off : Nat, data : Seq(Values), sector : Nat] BY <1>4, <2>2
  <2>5. cur'.base + cur'.off = cur.base + cur.off + n BY <1>4, <2>1, <2>2
  <2>6. cur'.base % ChipSize = 0 /\ cur'.off < ChipSize BY <1>4, <2>2, <2>3
  <2>7. cur'.data = rest BY <2>2
  <2> QED BY <1>3, <1>5, <2>4, <2>5, <2>6, <2>7
<1>7. CASE cur.off + n < ChipSize
  <2>1. cur' = [cur EXCEPT !.off = cur.off + n, !.data = rest]
    <3>1. ~(cur.off + n >= ChipSize) BY <1>4, <1>7
    <3> QED BY <1>3, <1>5, <3>1 DEF Advance
  <2>2. cur' = [base |-> cur.base, off |-> cur.off + n, data |-> rest, sector |-> cur.sector]
    BY <2>1
  <2> QED BY <1>3, <1>4, <1>5, <1>7, <2>2
<1> QED BY <1>4, <1>6, <1>7

\* No data has no jobs.
LEMMA NoPieces ==
  ASSUME par \in ParallelNums, NEW off \in Nat
  PROVE  Pieces(off, <<>>) = <<>>
<1>1. <<>> \in Seq(Values) OBVIOUS
<1> QED BY <1>1, PiecesFacts

\* After the erase of a sector each of its words is to be as it was, or,
\* in the range of a Write, to have its data: there is a job for it.
LEMMA SectorJobsFacts ==
  ASSUME par \in ParallelNums, cur.off \in Nat, cur.data \in Seq(Values), cur.data # <<>>,
         cur.sector = SectorOf(cur.off), ram \in Seq(Values), Len(ram) = SectorSize
  PROVE  /\ SectorJobs \in Seq(Jobs)
         /\ \A job \in Elements(SectorJobs) :
              /\ cur.sector <= job.at /\ job.at + Len(job.data) <= cur.sector + SectorSize
              /\ job.at + Len(job.data) <= UnitOf(job.at) + UnitSize
              /\ \A i \in 1 .. Len(job.data) :
                   IF cur.off < job.at + i /\ job.at + i <= cur.off + TempLength
                     THEN call.op = "write" /\ job.data[i] = cur.data[job.at - cur.off + i]
                     ELSE job.data[i] = ram[job.at - cur.sector + i]
         /\ \A a \in cur.sector .. cur.sector + SectorSize - 1 :
              \/ call.op # "write" /\ cur.off <= a /\ a < cur.off + TempLength
              \/ \E job \in Elements(SectorJobs) : a \in JobWords(job)
         /\ call.op # "write" /\ cur.off = cur.sector /\ TempLength = SectorSize
              => SectorJobs = <<>>
<1>1. PICK s \in Nat, size \in Nat, off \in Nat, len \in Nat, data \in Seq(Values),
           part \in Seq(Values) :
        /\ s = cur.sector /\ size = SectorSize /\ off = cur.off /\ len = TempLength
        /\ data = cur.data /\ part = Part
  <2>1. TempLength \in Nat /\ Part \in Seq(Values) BY TempFacts
  <2> QED BY <2>1, SectorOfFacts, Sizes
<1>2. s <= off /\ off + len <= s + size /\ Len(part) = len /\ Len(ram) = size
  BY <1>1, TempFacts, SectorOfFacts
<1>3. \A i \in 1 .. len : part[i] = data[i] BY <1>1, TempFacts
<1>4. PICK h \in Nat, t \in Nat : h = off - s /\ t = h + len /\ t <= size /\ h <= size
  <2>1. off - s \in Nat /\ off - s + len \in Nat /\ off - s + len <= size /\ off - s <= size
    BY <1>2
  <2> QED BY <2>1
<1>5. PICK before \in Seq(Values) :
        /\ before = SubSeq(ram, 1, h) /\ Len(before) = h
        /\ \A i \in 1 .. h : before[i] = ram[i]
  <2>1. PICK x : x = SubSeq(ram, 1, h) OBVIOUS
  <2>2. x \in Seq(Values) /\ Len(x) = h /\ \A i \in 1 .. h : x[i] = ram[i]
    BY <1>2, <1>4, <2>1
  <2> QED BY <2>1, <2>2
<1>6. PICK after \in Seq(Values) :
        /\ after = SubSeq(ram, t + 1, size) /\ Len(after) = size - t
        /\ \A i \in 1 .. size - t : after[i] = ram[t + i]
  <2>1. PICK x : x = SubSeq(ram, t + 1, size) OBVIOUS
  <2>2. x \in Seq(Values) /\ Len(x) = size - t /\ \A i \in 1 .. size - t : x[i] = ram[t + i]
    BY <1>2, <1>4, <2>1, Slice
  <2> QED BY <2>1, <2>2
<1>7. PICK H, T, P :
        /\ H = Pieces(s, before) /\ T = Pieces(s + t, after)
        /\ P = IF call.op = "write" THEN Pieces(off, part) ELSE <<>>
  OBVIOUS
<1>8. SectorJobs = (H \o T) \o P
  BY <1>1, <1>4, <1>5, <1>6, <1>7 DEF SectorJobs
<1>9. JobsFor(H, s, before) BY <1>7, PiecesFacts
<1>10. JobsFor(T, s + t, after)
  <2>1. s + t \in Nat OBVIOUS
  <2> QED BY <1>7, <2>1, PiecesFacts
<1>11. /\ call.op = "write" => JobsFor(P, off, part)
       /\ call.op # "write" => P = <<>> /\ Elements(P) = {}
  <2>1. call.op = "write" => JobsFor(P, off, part) BY <1>7, PiecesFacts
  <2>2. call.op # "write" => P = <<>> BY <1>7
  <2>3. Elements(<<>>) = {} BY DEF Elements
  <2> QED BY <2>1, <2>2, <2>3
<1>12. P \in Seq(Jobs)
  <2>1. <<>> \in Seq(Jobs) OBVIOUS
  <2> QED BY <1>11, <2>1 DEF JobsFor
<1>13. SectorJobs \in Seq(Jobs)
       /\ Elements(SectorJobs) = (Elements(H) \cup Elements(T)) \cup Elements(P)
  <2>1. H \in Seq(Jobs) /\ T \in Seq(Jobs) BY <1>9, <1>10 DEF JobsFor
  <2>2. PICK x : x = H \o T OBVIOUS
  <2>3. x \in Seq(Jobs) /\ Elements(x) = Elements(H) \cup Elements(T)
    BY <2>1, <2>2, Joined
  <2>4. x \o P \in Seq(Jobs) /\ Elements(x \o P) = Elements(x) \cup Elements(P)
    BY <1>12, <2>3, Joined
  <2> QED BY <1>8, <2>2, <2>3, <2>4
<1>14. ASSUME NEW job \in Elements(SectorJobs)
       PROVE  /\ s <= job.at /\ job.at + Len(job.data) <= s + size
              /\ job.at + Len(job.data) <= UnitOf(job.at) + UnitSize
              /\ \A i \in 1 .. Len(job.data) :
                   IF off < job.at + i /\ job.at + i <= off + len
                     THEN call.op = "write" /\ job.data[i] = data[job.at - off + i]
                     ELSE job.data[i] = ram[job.at - s + i]
  <2>1. CASE job \in Elements(H)
    <3>1. PICK at \in Nat, l \in Nat :
            /\ at = job.at /\ l = Len(job.data) /\ s <= at /\ at + l <= s + h
      BY <1>5, <1>9, <2>1 DEF JobsFor, Jobs
    <3>2. \A i \in 1 .. l : job.data[i] = before[at - s + i] BY <1>9, <2>1, <3>1 DEF JobsFor
    <3>3. at + l <= off /\ at + l <= s + size BY <1>2, <1>4, <3>1
    <3>4. ASSUME NEW i \in 1 .. l
          PROVE  ~(off < at + i) /\ job.data[i] = ram[at - s + i]
      <4>1. ~(off < at + i) BY <3>3
      <4>2. at - s + i \in 1 .. h
        <5>1. s <= at /\ at + l <= s + h BY <3>1
        <5>2. i <= l /\ i >= 1 OBVIOUS
        <5> QED BY <5>1, <5>2
      <4> QED BY <1>5, <3>2, <4>1, <4>2
    <3>5. at + l <= UnitOf(at) + UnitSize BY <1>9, <2>1, <3>1 DEF JobsFor
    <3> QED BY <3>1, <3>3, <3>4, <3>5
  <2>2. CASE job \in Elements(T)
    <3>1. PICK at \in Nat, l \in Nat :
            /\ at = job.at /\ l = Len(job.data) /\ s + t <= at /\ at + l <= s + t + (size - t)
      BY <1>6, <1>10, <2>2 DEF JobsFor, Jobs
    <3>2. \A i \in 1 .. l : job.data[i] = after[at - (s + t) + i]
      BY <1>10, <2>2, <3>1 DEF JobsFor
    <3>3. s <= at /\ off + len <= at /\ at + l <= s + size BY <1>2, <1>4, <3>1
    <3>4. ASSUME NEW i \in 1 .. l
          PROVE  ~(at + i <= off + len) /\ job.data[i] = ram[at - s + i]
      <4>1. ~(at + i <= off + len) BY <3>3
      <4>2. PICK j \in 1 .. size - t : j = at - (s + t) + i
        <5>1. s + t <= at /\ at + l <= s + t + (size - t) BY <3>1
        <5>2. i <= l /\ i >= 1 OBVIOUS
        <5>3. at - (s + t) + i \in 1 .. size - t BY <5>1, <5>2
        <5> QED BY <5>3
      <4>3. t + j = at - s + i BY <4>2
      <4> QED BY <1>6, <3>2, <4>1, <4>2, <4>3
    <3>5. at + l <= UnitOf(at) + UnitSize BY <1>10, <2>2, <3>1 DEF JobsFor
    <3> QED BY <3>1, <3>3, <3>4, <3>5
  <2>3. CASE job \in Elements(P)
    <3>1. call.op = "write" /\ JobsFor(P, off, part) BY <1>11, <2>3
    <3>2. PICK at \in Nat, l \in Nat :
            /\ at = job.at /\ l = Len(job.data) /\ off <= at /\ at + l <= off + len
      BY <1>2, <2>3, <3>1 DEF JobsFor, Jobs
    <3>3. \A i \in 1 .. l : job.data[i] = part[at - off + i] BY <2>3, <3>1, <3>2 DEF JobsFor
    <3>4. s <= at /\ at + l <= s + size BY <1>2, <3>2
    <3>5. ASSUME NEW i \in 1 .. l
          PROVE  /\ off < at + i /\ at + i <= off + len
                 /\ job.data[i] = data[at - off + i]
      <4>1. at - off + i \in 1 .. len /\ off < at + i /\ at + i <= off + len
        <5>1. off <= at /\ at + l <= off + len BY <3>2
        <5>2. i <= l /\ i >= 1 OBVIOUS
        <5> QED BY <5>1, <5>2
      <4> QED BY <1>3, <3>3, <4>1
    <3>6. at + l <= UnitOf(at) + UnitSize BY <2>3, <3>1, <3>2 DEF JobsFor
    <3> QED BY <3>1, <3>2, <3>4, <3>5, <3>6
  <2> QED BY <1>13, <2>1, <2>2, <2>3
<1>15. ASSUME NEW a \in s .. s + size - 1
       PROVE  \/ call.op # "write" /\ off <= a /\ a < off + len
              \/ \E job \in Elements(SectorJobs) : a \in JobWords(job)
  <2>1. CASE a < off
    <3>1. a \in s .. s + h - 1 BY <1>4, <2>1
    <3> QED BY <1>5, <1>9, <1>13, <3>1 DEF JobsFor
  <2>2. CASE a >= off + len
    <3>1. a \in s + t .. s + t + (size - t) - 1 BY <1>2, <1>4, <2>2
    <3> QED BY <1>6, <1>10, <1>13, <3>1 DEF JobsFor
  <2>3. CASE off <= a /\ a < off + len
    <3>1. a \in off .. off + len - 1 BY <2>3
    <3> QED BY <1>2, <1>11, <1>13, <2>3, <3>1 DEF JobsFor
  <2> QED BY <2>1, <2>2, <2>3
<1>16. ASSUME call.op # "write", off = s, len = size PROVE SectorJobs = <<>>
  <2>1. h = 0 /\ t = size BY <1>4, <1>16
  <2>2. before = <<>> /\ after = <<>> BY <1>5, <1>6, <2>1
  <2>3. s + t \in Nat OBVIOUS
  <2>4. H = <<>> BY <1>7, <2>2, NoPieces
  <2>5. T = <<>> BY <1>7, <2>2, <2>3, NoPieces
  <2>6. P = <<>> BY <1>7, <1>16
  <2> QED BY <1>8, <2>4, <2>5, <2>6
<1> QED BY <1>1, <1>13, <1>14, <1>15, <1>16

\* A command reaches no word but those it addresses.
LEMMA ReachedFacts ==
  ASSUME NEW first \in Nat, NEW size \in Nat, NEW S \in Reached(first, size)
  PROVE  S \subseteq first .. first + size - 1
<1>1. PICK h \in Nat : h = size \div 2 /\ h <= size OBVIOUS
<1>2. /\ first .. first + h - 1 \subseteq first .. first + size - 1
      /\ first + h .. first + size - 1 \subseteq first .. first + size - 1
  BY <1>1
<1>3. Reached(first, size) = {first .. first + size - 1, {}, first .. first + h - 1,
                              first + h .. first + size - 1}
  BY <1>1 DEF Reached
<1> QED BY <1>2, <1>3

\* The unit that WriteAfterErase_Fill makes of the flash and a job's data.
LEMMA UnitFacts ==
  ASSUME par \in ParallelNums, flash \in [Words -> Values], base \in Nat, NEW job \in Jobs
  PROVE  /\ NewDataUnit(job) \in [0 .. UnitSize - 1 -> Values]
         /\ \A i \in 0 .. UnitSize - 1 : NewDataUnit(job)[i] = NewWord(job, UnitOf(job.at) + i)
<1>1. \A a : Word(a) \in Values BY DEF Word, Values, Erased
<1>2. PICK u \in Nat, at \in Nat, data \in Seq(Values) :
        u = UnitOf(job.at) /\ at = job.at /\ data = job.data
  BY UnitOfFacts DEF Jobs
<1>3. ASSUME NEW i \in 0 .. UnitSize - 1 PROVE NewWord(job, u + i) \in Values
  <2>1. UnitSize \in Nat BY Sizes
  <2>2. CASE u + i \in at .. at + Len(data) - 1
    <3>1. u + i - at + 1 \in 1 .. Len(data) BY <2>1, <2>2
    <3>2. JobWords(job) = at .. at + Len(data) - 1 BY <1>2 DEF JobWords
    <3>3. PICK a : a = u + i OBVIOUS
    <3>4. NewWord(job, a) = job.data[a - job.at + 1] BY <2>2, <3>2, <3>3 DEF NewWord
    <3>5. PICK x : x = a - at + 1 OBVIOUS
    <3>6. NewWord(job, a) = data[x]
      <4>1. x = a - job.at + 1 BY <1>2, <3>5
      <4> QED BY <1>2, <3>4, <4>1, Zenon
    <3>7. x \in 1 .. Len(data) BY <3>1, <3>3, <3>5
    <3> QED BY <3>3, <3>6, <3>7
  <2>3. CASE u + i \notin at .. at + Len(data) - 1
    BY <1>1, <1>2, <2>3 DEF NewWord, JobWords
  <2> QED BY <2>2, <2>3
<1>4. NewDataUnit(job) = [i \in 0 .. UnitSize - 1 |-> NewWord(job, u + i)]
  BY <1>2 DEF NewDataUnit
<1> QED BY <1>2, <1>3, <1>4

\* What an attempt to program a unit does to the flash.
LEMMA ProgramFacts ==
  ASSUME par \in ParallelNums, flash \in [Words -> Values], base \in Nat, NEW job \in Jobs,
         NEW S \in Reached(base + UnitOf(job.at), UnitSize),
         NEW f, f = Program(base + UnitOf(job.at), NewDataUnit(job), S \cap Words)
  PROVE  /\ f \in [Words -> Values]
         /\ base = 0 => \A a \in Words : a \notin JobWords(job) => f[a] = flash[a]
<1>1. PICK u \in Nat, n \in Nat \ {0}, unit \in [0 .. UnitSize - 1 -> Values] :
        u = UnitOf(job.at) /\ n = UnitSize /\ unit = NewDataUnit(job)
  <2>1. job.at \in Nat BY DEF Jobs
  <2> QED BY <2>1, UnitOfFacts, Sizes, UnitFacts
<1>2. PICK addr \in Nat : addr = base + u OBVIOUS
<1>3. S \subseteq addr .. addr + n - 1 BY <1>1, <1>2, ReachedFacts
<1>4. f = [a \in Words |-> IF a \in S \cap Words THEN flash[a] \cup unit[a - addr] ELSE flash[a]]
  BY <1>1, <1>2 DEF Program
<1>5. \A a \in Words : a \in Nat
  <2>1. Total \in Nat BY Sizes
  <2> QED BY <2>1 DEF Words
<1>6. ASSUME NEW a \in Words, a \in S PROVE a - addr \in 0 .. n - 1 /\ unit[a - addr] \in Values
  <2>1. a - addr \in 0 .. n - 1 BY <1>3, <1>5, <1>6
  <2> QED BY <1>1, <2>1
<1>7. f \in [Words -> Values] BY <1>4, <1>6 DEF Values
<1>8. ASSUME base = 0, NEW a \in Words, a \notin JobWords(job) PROVE f[a] = flash[a]
  <2>1. CASE a \notin S BY <1>4, <2>1
  <2>2. CASE a \in S
    <3>1. PICK i \in 0 .. n - 1 : i = a - addr BY <1>6, <2>2
    <3>2. u + i = a /\ base + (u + i) = a BY <1>2, <1>5, <1>8, <3>1
    <3>3. unit[i] = Word(a)
      <4>1. unit[i] = NewWord(job, u + i) BY <1>1, UnitFacts
      <4> QED BY <1>8, <3>2, <4>1 DEF NewWord
    <3>4. unit[i] = flash[a] BY <3>3 DEF Word
    <3>5. f[a] = flash[a] \cup unit[i] BY <1>4, <2>2, <3>1
    <3> QED BY <3>4, <3>5
  <2> QED BY <2>1, <2>2
<1> QED BY <1>7, <1>8

\* What a unit holds that was compared: the job is done.
LEMMA HeldFacts ==
  ASSUME par \in ParallelNums, flash \in [Words -> Values], base = 0, NEW job \in Jobs,
         job.at + Len(job.data) <= UnitOf(job.at) + UnitSize,
         NEW f, UnitHolds(f, base + UnitOf(job.at), NewDataUnit(job)),
         NEW a \in Words, a \in JobWords(job)
  PROVE  f[a] = job.data[a - job.at + 1]
<1>1. PICK u \in Nat, n \in Nat \ {0}, unit \in [0 .. UnitSize - 1 -> Values],
           at \in Nat, l \in Nat :
        /\ u = UnitOf(job.at) /\ n = UnitSize /\ unit = NewDataUnit(job)
        /\ at = job.at /\ l = Len(job.data) /\ u <= at
  <2>1. job.at \in Nat /\ Len(job.data) \in Nat BY DEF Jobs
  <2> QED BY <2>1, UnitOfFacts, Sizes, UnitFacts
<1>2. a \in Nat /\ at <= a /\ a < at + l
  <2>1. a \in at .. at + l - 1 BY <1>1 DEF JobWords
  <2> QED BY <2>1
<1>3. at + l <= u + n BY <1>1
<1>4. PICK i \in 0 .. n - 1 : i = a - u
  <2>1. a - u \in 0 .. n - 1
    <3>1. u <= at BY <1>1
    <3> QED BY <1>2, <1>3, <3>1
  <2> QED BY <2>1
<1>5. u + i = a /\ base + u + i = a BY <1>2, <1>4
<1>6. unit[i] = job.data[a - at + 1]
  <2>1. unit[i] = NewWord(job, u + i) BY <1>1, UnitFacts
  <2> QED BY <1>1, <1>5, <2>1 DEF NewWord
<1>7. f[a] = unit[i]
  <2>1. \A j \in 0 .. n - 1 : (IF base + u + j \in Words THEN f[base + u + j] ELSE Erased) = unit[j]
    BY <1>1 DEF UnitHolds
  <2>2. base + u + i \in Words BY <1>5
  <2> QED BY <1>5, <2>1, <2>2
<1> QED BY <1>1, <1>6, <1>7

\* An erase command changes the sector in work only.
LEMMA EraseFacts ==
  ASSUME par \in ParallelNums, flash \in [Words -> Values], SectorStart \in Nat,
         NEW S \in Reached(SectorStart, SectorSize), NEW f, f = EraseWords(S)
  PROVE  /\ f \in [Words -> Values]
         /\ \A a \in Words : a \notin Sector => f[a] = flash[a]
<1>1. S \subseteq SectorStart .. SectorStart + SectorSize - 1
  <2>1. SectorSize \in Nat BY Sizes
  <2> QED BY <2>1, ReachedFacts
<1>2. f = [a \in Words |-> IF a \in S THEN Erased ELSE flash[a]] BY DEF EraseWords
<1> QED BY <1>1, <1>2 DEF Values, Erased, Sector

Basic == TypeOK /\ CallInv
Ends == {"SUCCESS", "DEVICE_ERROR", "OUT_OF_RESOURCES", "POWER_LOST"}

\* What the types are made of stays as it is.
LEMMA SameTypes ==
  ASSUME par' = par
  PROVE  Calls' = Calls /\ [Words -> Values]' = [Words -> Values]
<1>1. Words' = Words BY Geometry
<1> QED BY <1>1 DEF Calls

\* A call that ends or goes on elsewhere keeps what was asked.
LEMMA StatusFacts ==
  ASSUME call \in Calls, NEW status \in Statuses, NEW c, c = [call EXCEPT !.status = status]
  PROVE  /\ c \in Calls /\ c.status = status /\ c.op = call.op /\ c.off = call.off
         /\ c.data = call.data /\ c.home = call.home /\ c.before = call.before
  BY DEF Calls

\* A call during which gIndex.Base was moved keeps what was asked.
LEMMA MovedFacts ==
  ASSUME call \in Calls, NEW c, c = [call EXCEPT !.home = FALSE]
  PROVE  /\ c \in Calls /\ c.status = call.status /\ c.op = call.op /\ c.off = call.off
         /\ c.data = call.data /\ c.home = FALSE /\ c.before = call.before
  BY DEF Calls

\* The types of the call's and the loop's fields.
LEMMA CallFacts ==
  ASSUME TypeOK
  PROVE  /\ call.off \in Nat /\ call.data \in Seq(Values) /\ Len(call.data) \in Nat
         /\ call.op \in {"none", "erase", "write"} /\ call.home \in BOOLEAN
         /\ cur.base \in Nat /\ cur.off \in Nat /\ cur.data \in Seq(Values) /\ cur.sector \in Nat
         /\ Len(cur.data) \in Nat /\ SectorStart \in Nat
  BY DEF TypeOK, Calls, SectorStart

\* Initially no call runs and the flash holds anything.
LEMMA BasicInit ==
  ASSUME Init
  PROVE  Basic
<1>1. par \in ParallelNums /\ par \in {1, 2} BY Sizes DEF Init
<1>2. flash \in [Words -> Values]
  <2>1. PICK n \in 0 .. 2 * ChipSize : n = ChipSize * par
    <3>1. ChipSize * par = Total BY DEF Total
    <3>2. Total \in 0 .. 2 * ChipSize BY <1>1, Sizes
    <3> QED BY <3>1, <3>2
  <2>2. Contents(n) \subseteq [0 .. n - 1 -> SUBSET Bits] BY ConstantsAssumption
  <2>3. flash \in Contents(n) BY <2>1 DEF Init
  <2>4. Words = 0 .. n - 1 BY <2>1 DEF Words, Total
  <2> QED BY <2>2, <2>3, <2>4 DEF Values
<1>3. 0 % ChipSize = 0 /\ 0 < ChipSize
  <2>1. ChipSize \in Nat \ {0} BY <1>1, Sizes
  <2> QED BY <2>1
<1>4. call = [op |-> "none", off |-> 0, data |-> <<>>, home |-> TRUE,
              before |-> <<>>, status |-> "NONE", count |-> 0]
  BY DEF Init, NoCall
<1>5. call \in Calls
  <2>1. <<>> \in Seq(Values) OBVIOUS
  <2> QED BY <1>4, <2>1 DEF Calls, Statuses
<1>6. cur = [base |-> 0, off |-> 0, data |-> <<>>, sector |-> 0]
  BY DEF Init, NoCur
<1>7. cur \in [base : Nat, off : Nat, data : Seq(Values), sector : Nat] BY <1>6
<1>8. TypeOK
  BY <1>1, <1>2, <1>3, <1>4, <1>5, <1>6, <1>7 DEF TypeOK, Init, MaxTries
<1>9. CallInv BY <1>4 DEF CallInv, Init
<1> QED BY <1>8, <1>9 DEF Basic

\* A call that is over.
LEMMA BasicReturn ==
  ASSUME Basic, pc # "idle", NEW status \in Ends, Return(status), par' = par,
         flash' \in [Words -> Values], base' \in Nat, base' % ChipSize = 0
  PROVE  Basic'
<1>1. call' = [call EXCEPT !.status = status] /\ pc' = "idle" /\ cur' = NoCur
      /\ ram' = <<>> /\ jobs' = <<>> /\ tries' = 0
  BY DEF Return
<1>2. status \in Statuses /\ status \notin {"NONE", "INVALID", "RUNNING"} BY DEF Ends, Statuses
<1>3. /\ call' \in Calls /\ call'.status = status /\ call'.op = call.op /\ call'.off = call.off
      /\ call'.data = call.data /\ call'.home = call.home /\ call'.before = call.before
  BY <1>1, <1>2, StatusFacts DEF Basic, TypeOK
<1>4. Words' = Words /\ Total' = Total /\ Calls' = Calls BY Geometry, SameTypes
<1>5. NoCur \in [base : Nat, off : Nat, data : Seq(Values), sector : Nat]
      /\ NoCur.base % ChipSize = 0 /\ NoCur.off < ChipSize
  <2>1. ChipSize \in Nat \ {0} BY Sizes DEF Basic, TypeOK
  <2>2. <<>> \in Seq(Values) /\ 0 % ChipSize = 0 BY <2>1
  <2> QED BY <2>1, <2>2 DEF NoCur
<1>6. <<>> \in Seq(Values) /\ <<>> \in Seq(Jobs) OBVIOUS
<1>7. TypeOK'
  BY <1>1, <1>2, <1>3, <1>4, <1>5, <1>6 DEF Basic, TypeOK, MaxTries
<1>8. call.status = "RUNNING" BY DEF Basic, TypeOK
<1>9. CallInv'
  BY <1>1, <1>2, <1>3, <1>4, <1>8 DEF Basic, CallInv
<1> QED BY <1>7, <1>9 DEF Basic

\* Erase and Write refuse what is not in the flash, and start in the right chip.
LEMMA BasicBegin ==
  ASSUME Basic, NEW op \in {"erase", "write"}, NEW off \in Nat, NEW data \in Seq(Values),
         op = "erase" => \A i \in 1 .. Len(data) : data[i] = Erased, Begin(op, off, data)
  PROVE  Basic'
<1>1. par' = par /\ flash' = flash /\ base' = base /\ ram' = ram /\ jobs' = jobs /\ tries' = tries
      /\ pc = "idle"
  BY DEF Begin
<1>2. PICK n \in Nat : n = call.count + 1 BY DEF Basic, TypeOK, Calls
<1>3. Words' = Words /\ Total' = Total /\ Calls' = Calls BY <1>1, Geometry, SameTypes
<1>4. flash \in [Words -> Values] BY DEF Basic, TypeOK
<1>5. CASE off + Len(data) > Total
  <2>1. call' = [op |-> op, off |-> off, data |-> data, home |-> base = 0, before |-> flash,
                 status |-> "INVALID", count |-> n]
        /\ pc' = pc /\ cur' = cur
    BY <1>2, <1>5 DEF Begin
  <2>2. call' \in Calls
    <3>1. (base = 0) \in BOOLEAN OBVIOUS
    <3> QED BY <1>4, <2>1, <3>1 DEF Calls, Statuses
  <2>3. TypeOK' BY <1>1, <1>3, <2>1, <2>2 DEF Basic, TypeOK
  <2>4. CallInv' BY <1>1, <2>1 DEF CallInv
  <2> QED BY <2>3, <2>4 DEF Basic
<1>6. CASE off + Len(data) <= Total
  <2>1. ~(off + Len(data) > Total)
    <3>1. Total \in Nat BY Sizes DEF Basic, TypeOK
    <3> QED BY <1>6, <3>1
  <2>2. call' = [op |-> op, off |-> off, data |-> data, home |-> base = 0, before |-> flash,
                 status |-> "RUNNING", count |-> n]
        /\ pc' = "loop"
        /\ cur' = [base |-> base + (off \div ChipSize) * ChipSize,
                   off |-> off - (off \div ChipSize) * ChipSize, data |-> data, sector |-> 0]
    BY <1>2, <2>1 DEF Begin
  <2>3. call' \in Calls
    <3>1. (base = 0) \in BOOLEAN OBVIOUS
    <3> QED BY <1>4, <2>2, <3>1 DEF Calls, Statuses
  <2>4. PICK c \in Nat \ {0} : c = ChipSize BY Sizes DEF Basic, TypeOK
  <2>5. PICK q \in Nat, r \in 0 .. c - 1 : q = off \div c /\ r = off % c /\ off = q * c + r
    <3>1. off \div c \in Nat /\ off % c \in 0 .. c - 1 /\ off = (off \div c) * c + (off % c)
      BY DivFacts
    <3> QED BY <3>1
  <2>6. PICK m \in Nat : m = q * c OBVIOUS
  <2>7. cur' = [base |-> base + m, off |-> off - m, data |-> data, sector |-> 0]
    BY <2>2, <2>4, <2>5, <2>6
  <2>8. off - m = r BY <2>5, <2>6
  <2>9. (base + m) % c = 0 /\ base + m \in Nat
    <3>1. m % c = 0 BY <2>6, Multiple
    <3>2. PICK b \in Nat : b = base /\ b % c = 0 BY <2>4 DEF Basic, TypeOK
    <3>3. (b + m) % c = m % c BY <3>2, MultipleSum
    <3> QED BY <3>1, <3>2, <3>3
  <2>10. cur' \in [base : Nat, off : Nat, data : Seq(Values), sector : Nat]
        /\ cur'.base % ChipSize = 0 /\ cur'.off < ChipSize
    BY <2>4, <2>7, <2>8, <2>9
  <2>11. TypeOK' BY <1>1, <1>3, <2>2, <2>3, <2>10 DEF Basic, TypeOK
  <2>12. CallInv' BY <1>1, <1>3, <1>4, <1>6, <2>2 DEF CallInv
  <2> QED BY <2>11, <2>12 DEF Basic
<1> QED
  <2>1. Total \in Nat /\ off + Len(data) \in Nat BY Sizes DEF Basic, TypeOK
  <2> QED BY <1>5, <1>6, <2>1

\* A sector skipped, or done.
LEMMA BasicLoop ==
  ASSUME Basic, SkipSector \/ SectorDone
  PROVE  Basic'
<1>1. /\ par' = par /\ flash' = flash /\ base' = base /\ call' = call /\ pc' = "loop"
      /\ jobs' = jobs /\ tries' = tries /\ cur.data # <<>> /\ pc # "idle"
      /\ ram' \in Seq(Values) /\ Advance(TempLength)
  <2>1. CASE SkipSector BY <2>1 DEF SkipSector, Basic, TypeOK
  <2>2. CASE SectorDone
    <3>1. <<>> \in Seq(Values) OBVIOUS
    <3> QED BY <2>2, <3>1 DEF SectorDone, Basic, CallInv
  <2> QED BY <2>1, <2>2
<1>2. Words' = Words /\ Total' = Total /\ Calls' = Calls BY <1>1, Geometry, SameTypes
<1>3. cur' \in [base : Nat, off : Nat, data : Seq(Values), sector : Nat]
      /\ cur'.base % ChipSize = 0 /\ cur'.off < ChipSize
  BY <1>1, AdvanceFacts DEF Basic, TypeOK
<1>4. TypeOK' BY <1>1, <1>2, <1>3 DEF Basic, TypeOK
<1>5. CallInv' BY <1>1, <1>2 DEF Basic, CallInv
<1> QED BY <1>4, <1>5 DEF Basic

\* A sector copied to RAM.
LEMMA BasicSave ==
  ASSUME Basic, SaveSector
  PROVE  Basic'
<1>1. /\ par' = par /\ flash' = flash /\ base' = base /\ call' = call /\ pc' = "erase"
      /\ jobs' = jobs /\ tries' = 0 /\ cur.data # <<>> /\ pc = "loop"
      /\ ram' = [i \in 1 .. SectorSize |-> Word(cur.base + SectorOf(cur.off) + i - 1)]
      /\ cur' = [cur EXCEPT !.sector = SectorOf(cur.off)]
  BY DEF SaveSector
<1>2. Words' = Words /\ Total' = Total /\ Calls' = Calls /\ SectorSize' = SectorSize
      /\ \A a : SectorOf(a)' = SectorOf(a)
  BY <1>1, Geometry, SameTypes
<1>3. ram' \in Seq(Values) /\ Len(ram') = SectorSize
  <2>1. \A a : Word(a) \in Values BY DEF Word, Values, Erased, Basic, TypeOK
  <2>2. SectorSize \in Nat BY Sizes DEF Basic, TypeOK
  <2> QED BY <1>1, <2>1, <2>2
<1>4. PICK s \in Nat : s = SectorOf(cur.off) BY SectorOfFacts DEF Basic, TypeOK
<1>5. cur' = [base |-> cur.base, off |-> cur.off, data |-> cur.data, sector |-> s]
  BY <1>1, <1>4 DEF Basic, TypeOK
<1>6. cur' \in [base : Nat, off : Nat, data : Seq(Values), sector : Nat]
      /\ cur'.base = cur.base /\ cur'.off = cur.off
  BY <1>5 DEF Basic, TypeOK
<1>7. TypeOK' BY <1>1, <1>2, <1>3, <1>6 DEF Basic, TypeOK, MaxTries
<1>8. (cur.sector = SectorOf(cur.off))' 
  <2>1. cur'.sector = s /\ cur'.off = cur.off BY <1>5
  <2>2. SectorSize' = SectorSize BY <1>2
  <2> QED BY <1>4, <2>1, <2>2 DEF SectorOf
<1>9. CallInv' BY <1>1, <1>2, <1>3, <1>5, <1>8 DEF Basic, CallInv
<1> QED BY <1>7, <1>9 DEF Basic

\* The sector is erased: its jobs are made.
LEMMA BasicErase ==
  ASSUME Basic, SectorErase
  PROVE  Basic'
<1>1. PICK S \in Reached(SectorStart, SectorSize) :
        LET f == EraseWords(S) IN
          /\ flash' = f
          /\ \/ /\ EraseVerified(f)
                /\ pc' = "program" /\ jobs' = SectorJobs /\ tries' = 0
                /\ UNCHANGED <<call, cur, ram>>
             \/ /\ ~EraseVerified(f)
                /\ tries + 1 < MaxTries /\ tries' = tries + 1
                /\ UNCHANGED <<pc, call, cur, ram, jobs>>
             \/ /\ ~EraseVerified(f)
                /\ tries + 1 = MaxTries
                /\ Return("DEVICE_ERROR")
  BY DEF SectorErase
<1>2. par' = par /\ base' = base /\ pc = "erase" BY DEF SectorErase
<1>3. Words' = Words /\ Total' = Total /\ Calls' = Calls /\ SectorSize' = SectorSize
      /\ \A a : SectorOf(a)' = SectorOf(a)
  BY <1>2, Geometry, SameTypes
<1>4. flash' \in [Words -> Values]
  BY <1>1, EraseFacts, CallFacts DEF Basic, TypeOK
<1>5. /\ cur.data # <<>> /\ cur.sector = SectorOf(cur.off) /\ Len(ram) = SectorSize
      /\ ram \in Seq(Values)
  BY <1>2 DEF Basic, CallInv, TypeOK
<1>6. CASE pc' = "program" /\ jobs' = SectorJobs /\ tries' = 0 /\ UNCHANGED <<call, cur, ram>>
  <2>1. SectorJobs \in Seq(Jobs) BY <1>5, CallFacts, SectorJobsFacts DEF Basic, TypeOK
  <2>2. TypeOK' BY <1>2, <1>3, <1>4, <1>6, <2>1 DEF Basic, TypeOK, MaxTries
  <2>3. (cur.sector = SectorOf(cur.off))' BY <1>3, <1>5, <1>6 DEF SectorOf
  <2>4. CallInv' BY <1>2, <1>3, <1>5, <1>6, <2>3 DEF Basic, CallInv
  <2> QED BY <2>2, <2>4 DEF Basic
<1>7. CASE tries + 1 < MaxTries /\ tries' = tries + 1 /\ UNCHANGED <<pc, call, cur, ram, jobs>>
  <2>1. tries' \in 0 .. MaxTries - 1 BY <1>7 DEF Basic, TypeOK, MaxTries
  <2>2. TypeOK' BY <1>2, <1>3, <1>4, <1>7, <2>1 DEF Basic, TypeOK
  <2>3. (cur.sector = SectorOf(cur.off))' BY <1>3, <1>5, <1>7 DEF SectorOf
  <2>4. CallInv' BY <1>2, <1>3, <1>5, <1>7, <2>3 DEF Basic, CallInv
  <2> QED BY <2>2, <2>4 DEF Basic
<1>8. CASE Return("DEVICE_ERROR")
  <2>1. base' \in Nat /\ base' % ChipSize = 0 BY <1>2 DEF Basic, TypeOK
  <2> QED BY <1>2, <1>4, <1>8, <2>1, BasicReturn DEF Ends
<1> QED BY <1>1, <1>6, <1>7, <1>8

\* The next job, or the next attempt.
LEMMA BasicNext ==
  ASSUME Basic, pc = "program", jobs # <<>>, NextJob, par' = par, flash' \in [Words -> Values]
  PROVE  Basic'
<1>1. jobs' = Tail(jobs) /\ tries' = 0 /\ pc' = pc /\ cur' = cur /\ ram' = ram BY DEF NextJob
<1>2. Words' = Words /\ Total' = Total /\ Calls' = Calls /\ SectorSize' = SectorSize
  BY Geometry, SameTypes
<1>3. jobs' \in Seq(Jobs) BY <1>1, OneLess DEF Basic, TypeOK
<1>4. /\ base' \in Nat /\ base' % ChipSize = 0
      /\ call' \in Calls /\ call'.status = call.status /\ call'.op = call.op
      /\ call'.off = call.off /\ call'.data = call.data /\ call'.before = call.before
  <2>1. CASE Job.crosses
    <3>1. base' = cur.base + ChipSize /\ call' = [call EXCEPT !.home = FALSE]
      BY <2>1 DEF NextJob
    <3>2. cur.base \in Nat /\ cur.base % ChipSize = 0 BY DEF Basic, TypeOK
    <3>3. ChipSize \in Nat \ {0} BY Sizes DEF Basic, TypeOK
    <3>4. (cur.base + ChipSize) % ChipSize = 0
      <4>1. ChipSize % ChipSize = 0 BY <3>3, Multiple
      <4> QED BY <3>2, <3>3, <4>1, MultipleSum
    <3>5. call \in Calls BY DEF Basic, TypeOK
    <3>6. /\ call' \in Calls /\ call'.status = call.status /\ call'.op = call.op
          /\ call'.off = call.off /\ call'.data = call.data /\ call'.before = call.before
      BY <3>1, <3>5, MovedFacts
    <3>7. base' \in Nat /\ base' % ChipSize = 0 BY <3>1, <3>2, <3>3, <3>4
    <3> QED BY <3>6, <3>7
  <2>2. CASE ~Job.crosses
    BY <2>2 DEF NextJob, Basic, TypeOK
  <2> QED BY <2>1, <2>2
<1>5. TypeOK' BY <1>1, <1>2, <1>3, <1>4 DEF Basic, TypeOK, MaxTries
<1>6. (cur.sector = SectorOf(cur.off))'
  BY <1>1, <1>2 DEF Basic, CallInv, SectorOf
<1>7. CallInv' BY <1>1, <1>2, <1>4, <1>6 DEF Basic, CallInv
<1> QED BY <1>5, <1>7 DEF Basic

\* A unit that needs no programming, or an attempt at one.
LEMMA BasicProgram ==
  ASSUME Basic, ProgramSkip \/ BufferWrite
  PROVE  Basic'
<1>1. CASE ProgramSkip
  <2>1. flash' \in [Words -> Values] /\ par' = par BY <1>1 DEF ProgramSkip, Basic, TypeOK
  <2> QED BY <1>1, <2>1, BasicNext DEF ProgramSkip
<1>2. CASE BufferWrite
  <2>1. PICK S \in Reached(base + UnitOf(Job.at), UnitSize) :
          LET f == Program(base + UnitOf(Job.at), NewDataUnit(Job), S \cap Words) IN
            /\ flash' = f
            /\ \/ NextJob
               \/ /\ tries + 1 < MaxTries /\ tries' = tries + 1
                  /\ UNCHANGED <<base, pc, call, cur, ram, jobs>>
               \/ Return("DEVICE_ERROR") /\ UNCHANGED base
    BY <1>2 DEF BufferWrite
  <2>2. par' = par /\ pc = "program" /\ jobs # <<>> BY <1>2 DEF BufferWrite
  <2>3. Job \in Jobs BY <2>2, OneLess DEF Job, Basic, TypeOK
  <2>4. flash' \in [Words -> Values] BY <2>1, <2>3, ProgramFacts DEF Basic, TypeOK
  <2>5. CASE NextJob BY <2>2, <2>4, <2>5, BasicNext
  <2>6. CASE tries + 1 < MaxTries /\ tries' = tries + 1
             /\ UNCHANGED <<base, pc, call, cur, ram, jobs>>
    <3>1. Words' = Words /\ Total' = Total /\ Calls' = Calls /\ SectorSize' = SectorSize
      BY <2>2, Geometry, SameTypes
    <3>2. tries' \in 0 .. MaxTries - 1 BY <2>6 DEF Basic, TypeOK, MaxTries
    <3>3. TypeOK' BY <2>2, <2>4, <2>6, <3>1, <3>2 DEF Basic, TypeOK
    <3>4. (cur.sector = SectorOf(cur.off))'
      BY <2>2, <2>6, <3>1 DEF Basic, CallInv, SectorOf
    <3>5. CallInv' BY <2>2, <2>6, <3>1, <3>4 DEF Basic, CallInv
    <3> QED BY <3>3, <3>5 DEF Basic
  <2>7. CASE Return("DEVICE_ERROR") /\ UNCHANGED base
    <3>1. base' \in Nat /\ base' % ChipSize = 0 BY <2>7 DEF Basic, TypeOK
    <3> QED BY <2>2, <2>4, <2>7, <3>1, BasicReturn DEF Ends
  <2> QED BY <2>1, <2>5, <2>6, <2>7
<1> QED BY <1>1, <1>2

\* A call that succeeds, runs out of memory or loses power.
LEMMA BasicEnds ==
  ASSUME Basic, LoopDone \/ OutOfMemory \/ PowerLoss
  PROVE  Basic'
<1>1. PICK status \in Ends : Return(status) /\ pc # "idle"
  BY DEF LoopDone, OutOfMemory, PowerLoss, Ends
<1>2. par' = par /\ flash' \in [Words -> Values]
  BY DEF LoopDone, OutOfMemory, PowerLoss, Basic, TypeOK
<1>3. base' \in Nat /\ base' % ChipSize = 0
  <2>1. CASE base' = base BY <2>1 DEF Basic, TypeOK
  <2>2. CASE base' = 0
    <3>1. ChipSize \in Nat \ {0} BY Sizes DEF Basic, TypeOK
    <3> QED BY <2>2, <3>1
  <2> QED BY <2>1, <2>2 DEF LoopDone, OutOfMemory, PowerLoss
<1> QED BY <1>1, <1>2, <1>3, BasicReturn

\* What CallErase and CallWrite begin.
LEMMA CallsBegin ==
  ASSUME Basic, CallErase \/ CallWrite
  PROVE  \E op \in {"erase", "write"}, off \in Nat, data \in Seq(Values) :
           /\ op = "erase" => \A i \in 1 .. Len(data) : data[i] = Erased
           /\ off \in Words /\ Begin(op, off, data)
<1>1. Total \in Nat /\ Total <= 2 * ChipSize /\ ChipSize \in Nat BY Sizes DEF Basic, TypeOK
<1>2. CASE CallErase
  <2>1. PICK off \in Words, len \in 0 .. Total : Begin("erase", off, [i \in 1 .. len |-> Erased])
    BY <1>2 DEF CallErase
  <2>2. PICK data : data = [i \in 1 .. len |-> Erased] OBVIOUS
  <2>3. len \in Nat BY <1>1
  <2>4. data \in Seq(Values) /\ \A i \in 1 .. Len(data) : data[i] = Erased
    BY <2>2, <2>3 DEF Values, Erased
  <2>5. off \in Nat BY <1>1 DEF Words
  <2> QED BY <2>1, <2>2, <2>4, <2>5
<1>3. CASE CallWrite
  <2>1. PICK off \in Words, len \in 0 .. Total :
          \E data \in Payloads(len) : Begin("write", off, data)
    BY <1>3 DEF CallWrite
  <2>2. PICK data \in Payloads(len) : Begin("write", off, data) BY <2>1
  <2>3. len \in 0 .. 2 * ChipSize /\ len \in Nat BY <1>1
  <2>4. Payloads(len) \subseteq [1 .. len -> SUBSET Bits] BY <2>3, ConstantsAssumption
  <2>5. data \in Seq(Values) BY <2>3, <2>4 DEF Values
  <2>6. off \in Nat BY <1>1 DEF Words
  <2> QED BY <2>2, <2>5, <2>6
<1> QED BY <1>2, <1>3

\* Every step keeps the types and what is true of every call.
LEMMA BasicStep ==
  ASSUME Basic, [Next]_vars
  PROVE  Basic'
<1>1. CASE CallErase \/ CallWrite BY <1>1, CallsBegin, BasicBegin
<1>2. CASE Step \/ OutOfMemory \/ PowerLoss
  BY <1>2, BasicLoop, BasicSave, BasicErase, BasicProgram, BasicEnds DEF Step
<1>3. CASE UNCHANGED vars
  <2>1. par' = par BY <1>3 DEF vars
  <2>2. Words' = Words /\ Total' = Total /\ Calls' = Calls /\ SectorSize' = SectorSize
    BY <2>1, Geometry, SameTypes
  <2>3. TypeOK' BY <1>3, <2>2 DEF vars, Basic, TypeOK
  <2>4. CallInv' BY <1>3, <2>2 DEF vars, Basic, CallInv, SectorOf
  <2> QED BY <2>3, <2>4 DEF Basic
<1> QED BY <1>1, <1>2, <1>3 DEF Next, Finished

Core == Basic /\ LoopInv /\ SectorInv

\* The next multiple after one is no more than the one after it.
LEMMA MultipleNext ==
  ASSUME NEW n \in Nat \ {0}, NEW a \in Nat, NEW b \in Nat, a % n = 0, b % n = 0, a < b
  PROVE  a + n <= b
<1>1. (n + a) % n = a % n
  <2>1. n % n = 0 BY Multiple
  <2> QED BY <2>1, MultipleSum
<1>2. PICK c \in Nat : c = a + n OBVIOUS
<1>3. c % n = 0 /\ c < b + n BY <1>1, <1>2
<1>4. c <= b BY <1>3, MultipleStep
<1> QED BY <1>2, <1>4

\* A multiple of a multiple.
LEMMA MultipleOfMultiple ==
  ASSUME NEW n \in Nat \ {0}, NEW c \in Nat \ {0}, NEW a \in Nat, a % c = 0, c % n = 0
  PROVE  a % n = 0
<1>1. PICK k \in Nat : a = k * c BY Multiple
<1>2. PICK j \in Nat : c = j * n BY Multiple
<1>3. PICK q \in Nat : q = k * j OBVIOUS
<1>4. a = q * n BY <1>1, <1>2, <1>3
<1> QED BY <1>4, Multiple

\* What was asked stays the same while a call is at work.
LEMMA SameQuestion ==
  ASSUME par' = par, call'.op = call.op, call'.off = call.off, call'.data = call.data,
         call'.home = call.home, call'.before = call.before
  PROVE  /\ AtHome' <=> AtHome
         /\ Expected(call)' = Expected(call) /\ Asked(call)' = Asked(call)
         /\ Unverified(call)' = Unverified(call)
         /\ WholeSectors(call)' <=> WholeSectors(call)
<1>1. Words' = Words /\ SectorSize' = SectorSize BY Geometry
<1>2. Asked(call)' = Asked(call) BY DEF Asked
<1>3. WholeSectors(call)' <=> WholeSectors(call) BY <1>1 DEF WholeSectors
<1>4. Unverified(call)' = Unverified(call) BY <1>1, <1>2 DEF Unverified
<1>5. Expected(call)' = Expected(call) BY <1>1, <1>2 DEF Expected
<1>6. AtHome' <=> AtHome BY <1>3 DEF AtHome
<1> QED BY <1>2, <1>3, <1>4, <1>5, <1>6

\* What a step changes between two words disturbs nothing below or above them.
LEMMA BetweenStep ==
  ASSUME par' = par, call'.op = call.op, call'.off = call.off, call'.data = call.data,
         call'.home = call.home, call'.before = call.before, Basic,
         NEW lo \in Nat, NEW hi \in Nat, Between(lo, hi),
         \A a \in Words : flash'[a] = flash[a] \/ (lo <= a /\ a < hi)
  PROVE  /\ \A a \in Words \ Unverified(call) : a < lo => flash'[a] = Expected(call)[a]
         /\ \A a \in Words : a >= hi => flash'[a] = call.before[a]
<1>1. Total \in Nat BY Sizes DEF Basic, TypeOK
<1>2. \A a \in Words : a \in Nat BY <1>1 DEF Words
<1> QED BY <1>2 DEF Between

(* --- Where the loop is: the words of the call in its sector --- *)
LEMMA Place ==
  ASSUME Basic, LoopInv, AtHome, pc # "idle", cur.data # <<>>
  PROVE  \E start \in Nat, n \in Nat \ {0}, p \in Nat, l \in Nat \ {0} :
           /\ start = cur.base + SectorOf(cur.off) /\ n = SectorSize
           /\ p = Position /\ p = Here /\ l = TempLength
           /\ start % n = 0 /\ start <= p /\ p + l <= start + n /\ start + n <= Total
           /\ l <= Len(cur.data) /\ p + Len(cur.data) = call.off + Len(call.data)
           /\ l = Len(cur.data) \/ p + l = start + n
           /\ p = call.off \/ p = start
           /\ call.off <= p /\ start = SectorOf(p)
<1>1. /\ call.off \in Nat /\ Len(call.data) \in Nat /\ Len(cur.data) \in Nat
      /\ cur.base \in Nat /\ cur.off \in Nat /\ cur.data \in Seq(Values)
  BY CallFacts DEF Basic
<1>2. PICK n \in Nat \ {0} : n = SectorSize BY Sizes DEF Basic, TypeOK
<1>3. PICK s \in Nat : s = SectorOf(cur.off) /\ s % n = 0 /\ s <= cur.off /\ cur.off < s + n
  BY <1>1, <1>2, SectorOfFacts DEF Basic, TypeOK
<1>4. PICK start \in Nat : start = cur.base + s BY <1>1, <1>3
<1>5. cur.base % n = 0
  <2>1. cur.base % ChipSize = 0 BY DEF Basic, TypeOK
  <2>2. ChipSize \in Nat \ {0} /\ ChipSize % n = 0 BY <1>2, Sizes DEF Basic, TypeOK
  <2> QED BY <1>1, <2>1, <2>2, MultipleOfMultiple
<1>6. start % n = 0
  <2>1. PICK b \in Nat : b = cur.base /\ b % n = 0 BY <1>1, <1>5
  <2> QED BY <1>3, <1>4, <2>1, MultipleSum
<1>7. PICK p \in Nat : p = Position /\ p = Here /\ p = cur.base + cur.off
  BY <1>1 DEF LoopInv, Here
<1>8. Len(cur.data) <= Len(call.data) /\ (Position = call.off \/ Position % SectorSize = 0)
  BY DEF LoopInv
<1>9. p + Len(cur.data) = call.off + Len(call.data) /\ call.off <= p
  <2>1. PICK o \in Nat, k \in Nat, r \in Nat :
          o = call.off /\ k = Len(call.data) /\ r = Len(cur.data)
    BY <1>1
  <2>2. p = o + k - r /\ r <= k BY <1>7, <1>8, <2>1 DEF Position
  <2>3. p + r = o + k /\ o <= p BY <2>2
  <2> QED BY <2>1, <2>3
<1>10. start <= p /\ p < start + n BY <1>1, <1>3, <1>4, <1>7
<1>11. PICK l \in Nat \ {0} :
         /\ l = TempLength /\ l <= Len(cur.data) /\ cur.off + l <= s + n
         /\ l = Len(cur.data) \/ cur.off + l = s + n
  BY <1>1, <1>2, <1>3, TempFacts DEF Basic, TypeOK
<1>12. p + l <= start + n /\ (l = Len(cur.data) \/ p + l = start + n)
  <2>1. PICK b \in Nat, o \in Nat : b = cur.base /\ o = cur.off BY <1>1
  <2>2. p = b + o /\ start = b + s BY <1>4, <1>7, <2>1
  <2>3. o + l <= s + n /\ (l = Len(cur.data) \/ o + l = s + n) BY <1>11, <2>1
  <2> QED BY <2>2, <2>3
<1>13. start + n <= Total
  <2>1. Total \in Nat /\ Total % n = 0 BY <1>2, Sizes DEF Basic, TypeOK
  <2>2. call.status = "RUNNING" BY DEF Basic, TypeOK
  <2>3. call.off + Len(call.data) <= Total BY <2>2 DEF Basic, CallInv
  <2>4. start < Total BY <1>1, <1>9, <1>10, <1>11, <2>1, <2>3
  <2> QED BY <1>6, <2>1, <2>4, MultipleNext
<1>14. p % n = 0 => p = start
  <2>1. ASSUME p % n = 0 PROVE p <= start BY <1>6, <1>10, <2>1, MultipleStep
  <2> QED BY <1>10, <2>1
<1>15. p = call.off \/ p = start BY <1>2, <1>7, <1>8, <1>14
<1>16. start = SectorOf(p)
  BY <1>2, <1>6, <1>10, SectorWords DEF Basic, TypeOK
<1> QED BY <1>2, <1>3, <1>4, <1>6, <1>7, <1>9, <1>10, <1>11, <1>12, <1>13, <1>15, <1>16

\* What a word is to hold: the data still to do, or what it held.
LEMMA ExpectedFacts ==
  ASSUME Basic, LoopInv, AtHome, pc # "idle"
  PROVE  /\ \A i \in 1 .. Len(cur.data) :
              Position + i - 1 \in Words =>
                /\ Expected(call)[Position + i - 1] = cur.data[i]
                /\ Position + i - 1 \in Asked(call)
         /\ \A a \in Words : a \notin Asked(call) =>
              Expected(call)[a] = call.before[a] /\ a \notin Unverified(call)
         /\ \A a \in Words : a < call.off \/ a >= call.off + Len(call.data) => a \notin Asked(call)
<1>1. /\ call.off \in Nat /\ Len(call.data) \in Nat /\ Len(cur.data) \in Nat
      /\ Len(cur.data) <= Len(call.data)
      /\ \A i \in 1 .. Len(cur.data) :
           cur.data[i] = call.data[Len(call.data) - Len(cur.data) + i]
  BY CallFacts DEF Basic, LoopInv
<1>2. Total \in Nat /\ \A a \in Words : a \in Nat
  <2>1. Total \in Nat BY Sizes DEF Basic, TypeOK
  <2> QED BY <2>1 DEF Words
<1>3. ASSUME NEW i \in 1 .. Len(cur.data), Position + i - 1 \in Words
      PROVE  /\ Expected(call)[Position + i - 1] = cur.data[i]
             /\ Position + i - 1 \in Asked(call)
  <2>1. PICK a \in Nat : a = Position + i - 1 /\ a \in Words BY <1>2, <1>3
  <2>2. PICK o \in Nat, k \in Nat, r \in Nat :
          o = call.off /\ k = Len(call.data) /\ r = Len(cur.data) /\ r <= k
    BY <1>1
  <2>3. a - o + 1 = k - r + i /\ a \in o .. o + k - 1
    <3>1. a = o + k - r + i - 1 BY <2>2, <2>1 DEF Position
    <3>2. i <= r /\ i >= 1 /\ r <= k BY <2>2
    <3>3. a - o + 1 = k - r + i BY <3>1
    <3> QED BY <3>1, <3>2, <3>3
  <2>4. a \in Asked(call) BY <2>2, <2>3 DEF Asked
  <2>5. Expected(call)[a] = call.data[a - call.off + 1] BY <2>1, <2>4 DEF Expected
  <2> QED BY <1>1, <2>2, <2>1, <2>3, <2>4, <2>5
<1>4. \A a \in Words : a \notin Asked(call) =>
        Expected(call)[a] = call.before[a] /\ a \notin Unverified(call)
  BY DEF Expected, Unverified
<1>5. \A a \in Words : a < call.off \/ a >= call.off + Len(call.data) => a \notin Asked(call)
  BY <1>1, <1>2 DEF Asked
<1> QED BY <1>3, <1>4, <1>5

\* A new call has done nothing yet: all that lies below its range is as it was.
LEMMA CoreBegin ==
  ASSUME Core, NEW op \in {"erase", "write"}, NEW off \in Nat, NEW data \in Seq(Values),
         off \in Words, Begin(op, off, data)
  PROVE  LoopInv' /\ SectorInv'
<1>1. par' = par /\ flash' = flash /\ base' = base /\ pc = "idle" BY DEF Begin
<1>2. CASE pc' = "idle" BY <1>2 DEF LoopInv, SectorInv
<1>3. CASE pc' # "idle"
  <2>1. PICK c \in Nat \ {0} : c = ChipSize BY Sizes DEF Core, Basic, TypeOK
  <2>2. PICK q \in Nat, r \in 0 .. c - 1 : q = off \div c /\ off = q * c + r
    <3>1. off \div c \in Nat /\ off % c \in 0 .. c - 1 /\ off = (off \div c) * c + (off % c)
      BY DivFacts
    <3> QED BY <3>1
  <2>3. PICK m \in Nat : m = q * c OBVIOUS
  <2>4. PICK b \in Nat : b = base BY DEF Core, Basic, TypeOK
  <2>5. /\ pc' = "loop"
        /\ call' = [op |-> op, off |-> off, data |-> data, home |-> base = 0, before |-> flash,
                    status |-> "RUNNING", count |-> call.count + 1]
        /\ cur' = [base |-> b + m, off |-> off - m, data |-> data, sector |-> 0]
    BY <1>1, <1>3, <2>1, <2>2, <2>3, <2>4 DEF Begin
  <2>6. SectorInv' BY <2>5 DEF SectorInv
  <2>7. ~AtHome' => LoopInv' BY DEF LoopInv
  <2>8. SUFFICES ASSUME AtHome' PROVE LoopInv' BY <2>6, <2>7
  <2>9. b = 0 BY <2>4, <2>5, <2>8 DEF AtHome
  <2>10. PICK l \in Nat : l = Len(data) OBVIOUS
  <2>11. Here' = off /\ Position' = off BY <2>3, <2>5, <2>9, <2>10 DEF Here, Position
  <2>12. data # <<>> => m = 0 \/ WholeSectors(call)'
    <3>1. ASSUME data # <<>>, off + l <= c PROVE m = 0
      <4>1. off < c BY <2>10, <3>1
      <4>2. off \in 0 .. c - 1 /\ 0 * c + off = off BY <4>1
      <4>3. off \div c = 0 BY <4>2, DivUnique
      <4>4. q = 0 BY <2>2, <4>3
      <4> QED BY <2>3, <4>4
    <3>2. off + l <= c \/ WholeSectors(call)' BY <2>1, <2>5, <2>8, <2>10 DEF AtHome
    <3> QED BY <3>1, <3>2
  <2>13. Words' = Words BY <1>1, Geometry
  <2>14. Between(off, off)'
    <3>1. Total \in Nat BY Sizes DEF Core, Basic, TypeOK
    <3>2. \A a \in Words : a \in Nat BY <3>1 DEF Words
    <3>3. Asked(call)' = off .. off + l - 1 BY <2>5, <2>10 DEF Asked
    <3>4. \A a \in Words : a < off => Expected(call)'[a] = flash[a]
      BY <2>5, <2>13, <3>2, <3>3 DEF Expected
    <3> QED BY <1>1, <2>5, <2>13, <3>4 DEF Between
  <2>15. Between(Position, Position)' BY <2>11, <2>14 DEF Between
  <2> QED BY <1>1, <2>4, <2>5, <2>9, <2>10, <2>11, <2>12, <2>15 DEF LoopInv
<1> QED BY <1>2, <1>3

(* --- A round of the loop is over: what was below its end is done --- *)
LEMMA LoopOn ==
  ASSUME Core, pc # "idle", cur.data # <<>>, Advance(TempLength), pc' = "loop",
         par' = par, flash' = flash, base' = base, call' = call,
         AtHome => \A a \in Words \ Unverified(call) :
                     a < Position + TempLength => flash[a] = Expected(call)[a],
         AtHome => \A a \in Words : a >= Position + TempLength => flash[a] = call.before[a]
  PROVE  LoopInv' /\ SectorInv'
<1>1. SectorInv' BY DEF SectorInv
<1>2. (AtHome' <=> AtHome) /\ Expected(call)' = Expected(call)
      /\ Unverified(call)' = Unverified(call) /\ (WholeSectors(call)' <=> WholeSectors(call))
  BY SameQuestion
<1>3. ~AtHome' => LoopInv' BY DEF LoopInv
<1>4. SUFFICES ASSUME AtHome PROVE LoopInv' BY <1>1, <1>2, <1>3
<1>5. PICK start \in Nat, n \in Nat \ {0}, p \in Nat, l \in Nat \ {0} :
        /\ n = SectorSize /\ p = Position /\ p = Here /\ l = TempLength
        /\ start % n = 0 /\ start <= p /\ p + l <= start + n /\ start + n <= Total
        /\ l <= Len(cur.data) /\ p + Len(cur.data) = call.off + Len(call.data)
        /\ l = Len(cur.data) \/ p + l = start + n
  BY <1>4, Place DEF Core
<1>6. /\ cur' \in [base : Nat, off : Nat, data : Seq(Values), sector : Nat]
      /\ cur'.base % ChipSize = 0 /\ cur'.off < ChipSize
      /\ cur'.base + cur'.off = cur.base + cur.off + TempLength
      /\ Len(cur'.data) = Len(cur.data) - TempLength
      /\ \A i \in 1 .. Len(cur'.data) : cur'.data[i] = cur.data[TempLength + i]
  BY AdvanceFacts DEF Core, Basic, TypeOK
<1>7. PICK o \in Nat, k \in Nat, r \in Nat, s \in Nat :
        o = call.off /\ k = Len(call.data) /\ r = Len(cur.data) /\ s = Len(cur'.data)
  <2>1. call.off \in Nat /\ Len(call.data) \in Nat /\ Len(cur.data) \in Nat
    BY CallFacts DEF Core, Basic
  <2>2. Len(cur'.data) \in Nat BY <1>6
  <2> QED BY <2>1, <2>2
<1>8. r <= k /\ s = r - l /\ p + r = o + k /\ p + l <= start + n /\ (l = r \/ p + l = start + n)
  <2>1. r <= k BY <1>4, <1>7 DEF Core, LoopInv
  <2>2. s = r - l BY <1>5, <1>6, <1>7
  <2>3. p + r = o + k BY <1>5, <1>7
  <2>4. p + l <= start + n /\ (l = r \/ p + l = start + n) BY <1>5, <1>7
  <2> QED BY <2>1, <2>2, <2>3, <2>4
<1>9. Position' = p + l /\ Here' = p + l
  <2>1. Position' = o + k - s BY <1>7 DEF Position
  <2>2. o + k - s = p + l BY <1>8
  <2>3. Here' = Here + TempLength BY <1>6 DEF Here
  <2> QED BY <1>5, <2>1, <2>2, <2>3
<1>10. base' = 0 BY <1>4 DEF Core, LoopInv
<1>11. s <= k BY <1>8
<1>12. \A i \in 1 .. s : cur'.data[i] = call.data[k - s + i]
  <2>1. ASSUME NEW i \in 1 .. s PROVE cur'.data[i] = call.data[k - s + i]
    <3>1. cur'.data[i] = cur.data[l + i] BY <1>5, <1>6, <1>7
    <3>2. PICK j \in 1 .. r : j = l + i
      <4>1. l + i \in 1 .. r BY <1>8
      <4> QED BY <4>1
    <3>3. cur.data[j] = call.data[k - r + j] BY <1>4, <1>7 DEF Core, LoopInv
    <3>4. k - r + j = k - s + i BY <1>8, <3>2
    <3> QED BY <3>1, <3>2, <3>3, <3>4
  <2> QED BY <2>1
<1>13. cur'.data # <<>> => (p + l) % n = 0
  <2>1. ASSUME cur'.data # <<>> PROVE p + l = start + n
    <3>1. s # 0 BY <1>6, <1>7, <2>1
    <3> QED BY <1>8, <3>1
  <2>2. (n + start) % n = start % n
    <3>1. n % n = 0 BY Multiple
    <3> QED BY <3>1, MultipleSum
  <2>3. start % n = 0 /\ n + start = start + n BY <1>5
  <2> QED BY <2>1, <2>2, <2>3
<1>14. cur'.data # <<>> => cur'.base = 0 \/ WholeSectors(call)
  <2>1. ASSUME cur'.data # <<>>, ~WholeSectors(call) PROVE cur'.base = 0
    <3>1. s # 0 BY <1>6, <1>7, <2>1
    <3>2. o + k <= ChipSize BY <1>4, <1>7, <2>1 DEF AtHome
    <3>3. p + l < o + k BY <1>8, <3>1
    <3>4. PICK c \in Nat \ {0} : c = ChipSize BY Sizes DEF Core, Basic, TypeOK
    <3>5. PICK b \in Nat, t \in Nat : b = cur'.base /\ t = cur'.off /\ b % c = 0 BY <1>6, <3>4
    <3>6. b + t = p + l BY <1>9, <3>5 DEF Here
    <3>7. b < c BY <3>2, <3>3, <3>4, <3>6
    <3>8. b = 0
      <4>1. ASSUME 0 < b PROVE FALSE
        <5>1. 0 % c = 0 OBVIOUS
        <5>2. 0 + c <= b BY <3>5, <4>1, <5>1, MultipleNext
        <5> QED BY <3>7, <5>2
      <4> QED BY <4>1
    <3> QED BY <3>5, <3>8
  <2> QED BY <2>1
<1>15. Words' = Words /\ SectorSize' = SectorSize BY Geometry
<1>16. Between(Position, Position)'
  <2>1. \A a \in Words \ Unverified(call) : a < p + l => flash[a] = Expected(call)[a]
    BY <1>4, <1>5
  <2>2. \A a \in Words : a >= p + l => flash[a] = call.before[a] BY <1>4, <1>5
  <2> QED BY <1>2, <1>9, <1>15, <2>1, <2>2 DEF Between
<1> QED
  BY <1>2, <1>5, <1>7, <1>9, <1>10, <1>11, <1>12, <1>13, <1>14, <1>15, <1>16 DEF LoopInv

\* Of the words of the sector in work, those of the call are the ones the loop is at.
LEMMA OutsideRange ==
  ASSUME Basic, LoopInv, AtHome, pc # "idle", cur.data # <<>>, NEW a \in Words,
         cur.base + SectorOf(cur.off) <= a, a < cur.base + SectorOf(cur.off) + SectorSize,
         a < Position \/ a >= Position + TempLength
  PROVE  a \notin Asked(call) /\ Expected(call)[a] = call.before[a] /\ a \notin Unverified(call)
<1>1. PICK start \in Nat, n \in Nat \ {0}, p \in Nat, l \in Nat \ {0} :
        /\ start = cur.base + SectorOf(cur.off) /\ n = SectorSize
        /\ p = Position /\ l = TempLength
        /\ p + Len(cur.data) = call.off + Len(call.data)
        /\ l = Len(cur.data) \/ p + l = start + n
        /\ p = call.off \/ p = start
  BY Place
<1>2. Total \in Nat BY Sizes DEF Basic, TypeOK
<1>3. a \in Nat BY <1>2 DEF Words
<1>4. call.off \in Nat /\ Len(call.data) \in Nat /\ Len(cur.data) \in Nat
  BY CallFacts DEF Basic
<1>5. a < call.off \/ a >= call.off + Len(call.data)
  <2>1. CASE a < p BY <1>1, <1>3, <2>1
  <2>2. CASE a >= p + l
    <3>1. l = Len(cur.data) BY <1>1, <1>3, <2>2
    <3> QED BY <1>1, <1>3, <1>4, <2>2, <3>1
  <2> QED BY <1>1, <2>1, <2>2
<1> QED BY <1>5, ExpectedFacts

\* The addresses of words are numbers.
LEMMA WordsAre ==
  ASSUME Basic
  PROVE  Total \in Nat /\ \A a : a \in Words <=> a \in Nat /\ a < Total
<1>1. Total \in Nat BY Sizes DEF Basic, TypeOK
<1> QED BY <1>1 DEF Words

\* A Write has nothing that is not verified.
LEMMA CoreSkip ==
  ASSUME Core, SkipSector
  PROVE  LoopInv' /\ SectorInv'
<1>1. /\ pc = "loop" /\ cur.data # <<>> /\ call.op = "write" /\ ~IsNeedToWrite(Here, Part)
      /\ Advance(TempLength) /\ pc' = pc
      /\ par' = par /\ flash' = flash /\ base' = base /\ call' = call
  BY DEF SkipSector
<1>2. ASSUME AtHome
      PROVE  /\ \A a \in Words \ Unverified(call) :
                  a < Position + TempLength => flash[a] = Expected(call)[a]
             /\ \A a \in Words : a >= Position + TempLength => flash[a] = call.before[a]
  <2>1. PICK p \in Nat, l \in Nat \ {0} :
          p = Position /\ p = Here /\ l = TempLength /\ l <= Len(cur.data)
    BY <1>1, <1>2, Place DEF Core
  <2>2. Between(p, p) BY <1>1, <1>2, <2>1 DEF Core, LoopInv, Between
  <2>3. ASSUME NEW a \in Words, p <= a, a < p + l PROVE flash[a] = Expected(call)[a]
    <3>1. a \in Nat BY WordsAre DEF Core
    <3>2. PICK i \in 1 .. l : i = a - p + 1
      <4>1. a - p + 1 \in 1 .. l BY <2>3, <3>1
      <4> QED BY <4>1
    <3>3. p + i - 1 = a /\ i \in 1 .. Len(cur.data)
      <4>1. Len(cur.data) \in Nat BY CallFacts DEF Core, Basic
      <4> QED BY <2>1, <3>1, <3>2, <4>1
    <3>4. Expected(call)[a] = cur.data[i]
      BY <1>1, <1>2, <2>1, <3>3, ExpectedFacts DEF Core
    <3>5. Len(Part) = l /\ Part[i] = cur.data[i]
      BY <1>1, <2>1, <3>2, TempFacts, CallFacts DEF Core, Basic, TypeOK
    <3>6. Word(p + i - 1) = Part[i] BY <1>1, <2>1, <3>2, <3>5 DEF IsNeedToWrite
    <3> QED BY <3>3, <3>4, <3>5, <3>6 DEF Word
  <2>4. ASSUME NEW a \in Words \ Unverified(call), a < p + l PROVE flash[a] = Expected(call)[a]
    <3>1. a \in Nat BY WordsAre DEF Core
    <3> QED BY <2>2, <2>3, <2>4, <3>1 DEF Between
  <2>5. ASSUME NEW a \in Words, a >= p + l PROVE flash[a] = call.before[a]
    <3>1. a \in Nat BY WordsAre DEF Core
    <3>2. a >= p BY <2>5, <3>1
    <3> QED BY <2>2, <3>2 DEF Between
  <2> QED BY <2>1, <2>4, <2>5
<1> QED BY <1>1, <1>2, LoopOn

\* A sector without jobs left holds all it should, and the loop goes on.
LEMMA CoreDone ==
  ASSUME Core, SectorDone
  PROVE  LoopInv' /\ SectorInv'
<1>1. /\ pc = "program" /\ jobs = <<>> /\ Advance(TempLength) /\ pc' = "loop"
      /\ par' = par /\ flash' = flash /\ base' = base /\ call' = call
  BY DEF SectorDone
<1>2. cur.data # <<>> /\ cur.sector = SectorOf(cur.off) BY <1>1 DEF Core, Basic, CallInv
<1>3. ASSUME AtHome
      PROVE  /\ \A a \in Words \ Unverified(call) :
                  a < Position + TempLength => flash[a] = Expected(call)[a]
             /\ \A a \in Words : a >= Position + TempLength => flash[a] = call.before[a]
  <2>1. PICK start \in Nat, n \in Nat \ {0}, p \in Nat, l \in Nat \ {0} :
          /\ start = cur.base + SectorOf(cur.off) /\ n = SectorSize
          /\ p = Position /\ l = TempLength
          /\ start <= p /\ p + l <= start + n
    BY <1>1, <1>2, <1>3, Place DEF Core
  <2>2. SectorStart = start BY <1>2, <2>1 DEF SectorStart
  <2>3. Between(start, start + n)
    BY <1>1, <1>3, <2>1, <2>2 DEF Core, SectorInv
  <2>4. \A a \in Words \ Unverified(call) :
          start <= a /\ a < start + n => flash[a] = Expected(call)[a]
    <3>1. Len(jobs) = 0 BY <1>1
    <3>2. \A a \in Sector \ Unverified(call) : flash[a] = Expected(call)[a]
      BY <1>1, <1>3, <3>1 DEF Core, SectorInv
    <3>3. Sector = start .. start + n - 1 BY <2>1, <2>2 DEF Sector
    <3>4. \A a \in Words : a \in Nat BY WordsAre DEF Core
    <3> QED BY <3>2, <3>3, <3>4
  <2>5. ASSUME NEW a \in Words \ Unverified(call), a < p + l PROVE flash[a] = Expected(call)[a]
    <3>1. a \in Nat BY WordsAre DEF Core
    <3>2. a < start + n BY <2>1, <2>5, <3>1
    <3> QED BY <2>3, <2>4, <3>1, <3>2 DEF Between
  <2>6. ASSUME NEW a \in Words, a >= p + l PROVE flash[a] = call.before[a]
    <3>1. a \in Nat BY WordsAre DEF Core
    <3>2. CASE a >= start + n BY <2>3, <3>2 DEF Between
    <3>3. CASE a < start + n
      <4>1. start <= a BY <2>1, <2>6, <3>1
      <4>2. Expected(call)[a] = call.before[a] /\ a \notin Unverified(call)
        BY <1>1, <1>2, <1>3, <2>1, <2>6, <3>3, <4>1, OutsideRange DEF Core
      <4> QED BY <2>4, <3>3, <4>1, <4>2
    <3> QED BY <2>1, <3>1, <3>2, <3>3
  <2> QED BY <2>1, <2>5, <2>6
<1> QED BY <1>1, <1>2, <1>3, LoopOn

\* The sector is copied: every word of the copy is as it was before the call.
LEMMA CoreSave ==
  ASSUME Core, SaveSector
  PROVE  LoopInv' /\ SectorInv'
<1>1. /\ pc = "loop" /\ cur.data # <<>> /\ pc' = "erase"
      /\ call.op = "write" => IsNeedToWrite(Here, Part)
      /\ ram' = [i \in 1 .. SectorSize |-> Word(cur.base + SectorOf(cur.off) + i - 1)]
      /\ cur' = [cur EXCEPT !.sector = SectorOf(cur.off)]
      /\ par' = par /\ flash' = flash /\ base' = base /\ call' = call
  BY DEF SaveSector
<1>2. (AtHome' <=> AtHome) /\ Expected(call)' = Expected(call)
      /\ Unverified(call)' = Unverified(call) /\ (WholeSectors(call)' <=> WholeSectors(call))
  BY <1>1, SameQuestion
<1>3. Words' = Words /\ SectorSize' = SectorSize BY <1>1, Geometry
<1>4. ~AtHome' => LoopInv' /\ SectorInv' BY DEF LoopInv, SectorInv
<1>5. SUFFICES ASSUME AtHome PROVE LoopInv' /\ SectorInv' BY <1>2, <1>4
<1>6. PICK start \in Nat, n \in Nat \ {0}, p \in Nat, l \in Nat \ {0} :
        /\ start = cur.base + SectorOf(cur.off) /\ n = SectorSize
        /\ p = Position /\ p = Here /\ l = TempLength
        /\ start <= p /\ p + l <= start + n /\ start + n <= Total
        /\ l <= Len(cur.data) /\ (p = call.off \/ p = start)
  BY <1>1, <1>5, Place DEF Core
<1>7. PICK s : s = SectorOf(cur.off) OBVIOUS
<1>8. cur'.base = cur.base /\ cur'.off = cur.off /\ cur'.data = cur.data /\ cur'.sector = s
  BY <1>1, <1>7 DEF Core, Basic, TypeOK
<1>9. Position' = Position /\ Here' = Here /\ SectorStart' = start
  BY <1>1, <1>6, <1>7, <1>8 DEF Position, Here, SectorStart
<1>10. LoopInv'
  BY <1>1, <1>2, <1>3, <1>5, <1>8, <1>9 DEF Core, LoopInv
<1>11. Sector' = start .. start + n - 1 BY <1>3, <1>6, <1>9 DEF Sector
<1>12. Between(p, p) BY <1>1, <1>5, <1>6 DEF Core, LoopInv, Between
<1>13. \A a \in Words : a \in Nat BY WordsAre DEF Core
<1>14. ASSUME NEW a \in Words, start <= a, a < start + n PROVE flash[a] = call.before[a]
  <2>1. CASE a >= p BY <1>12, <2>1 DEF Between
  <2>2. CASE a < p
    <3>1. Expected(call)[a] = call.before[a] /\ a \notin Unverified(call)
      BY <1>1, <1>5, <1>6, <1>14, <2>2, OutsideRange DEF Core
    <3> QED BY <1>12, <2>2, <3>1 DEF Between
  <2> QED BY <1>6, <1>13, <2>1, <2>2
<1>15. Between(start, start + n)
  <2>1. ASSUME NEW a \in Words, a < start PROVE a < p BY <1>6, <1>13, <2>1
  <2>2. ASSUME NEW a \in Words, a >= start + n PROVE a >= p BY <1>6, <1>13, <2>2
  <2> QED BY <1>12, <2>1, <2>2 DEF Between
<1>16. Between(SectorStart, SectorStart + SectorSize)'
  BY <1>1, <1>2, <1>3, <1>6, <1>9, <1>15 DEF Between
<1>17. ASSUME NEW i \in 1 .. n PROVE ram'[i] = call.before[start + i - 1]
  <2>1. ram'[i] = Word(start + i - 1) BY <1>1, <1>6, <1>17
  <2>2. PICK a \in Words : a = start + i - 1 /\ start <= a /\ a < start + n
    <3>1. start + i - 1 \in Words
      <4>1. start + i - 1 \in Nat /\ start + i - 1 < start + n BY <1>17
      <4>2. start + i - 1 < Total BY <1>6, <4>1, WordsAre DEF Core
      <4> QED BY <4>1, <4>2, WordsAre DEF Core
    <3>2. start <= start + i - 1 /\ start + i - 1 < start + n BY <1>17
    <3> QED BY <3>1, <3>2
  <2> QED BY <1>14, <2>1, <2>2 DEF Word
<1>18. call.op = "write" => \E a \in start .. start + n - 1 : Expected(call)[a] # call.before[a]
  <2>1. SUFFICES ASSUME call.op = "write"
                 PROVE  \E a \in start .. start + n - 1 : Expected(call)[a] # call.before[a]
    OBVIOUS
  <2>2. Len(Part) = l /\ \A i \in 1 .. l : Part[i] = cur.data[i]
    BY <1>1, <1>6, TempFacts, CallFacts DEF Core, Basic, TypeOK
  <2>3. PICK i \in 1 .. l : Word(p + i - 1) # Part[i]
    BY <1>1, <1>6, <2>1, <2>2 DEF IsNeedToWrite
  <2>4. PICK a \in Nat : a = p + i - 1 OBVIOUS
  <2>5. start <= a /\ a < start + n BY <1>6, <2>4
  <2>6. a \in Words
    <3>1. a < Total BY <1>6, <2>5, WordsAre DEF Core
    <3> QED BY <3>1, WordsAre DEF Core
  <2>7. i \in 1 .. Len(cur.data)
    <3>1. Len(cur.data) \in Nat BY CallFacts DEF Core, Basic
    <3> QED BY <1>6, <3>1
  <2>8. Expected(call)[a] = cur.data[i]
    BY <1>1, <1>5, <1>6, <2>4, <2>6, <2>7, ExpectedFacts DEF Core
  <2>9. flash[a] # cur.data[i] BY <2>2, <2>3, <2>4, <2>6 DEF Word
  <2>10. flash[a] = call.before[a] BY <1>14, <2>5, <2>6
  <2> QED BY <2>5, <2>8, <2>9, <2>10
<1>19. SectorInv'
  <2>1. \A i \in 1 .. SectorSize' : ram'[i] = call'.before[SectorStart' + i - 1]
    BY <1>1, <1>3, <1>6, <1>9, <1>17
  <2>2. call'.op = "write" => \E a \in Sector' : Expected(call)'[a] # call'.before[a]
    BY <1>1, <1>2, <1>11, <1>18
  <2> QED BY <1>1, <1>16, <2>1, <2>2 DEF SectorInv
<1> QED BY <1>10, <1>19

\* Where the sector in work is.
LEMMA InSector ==
  ASSUME Core, AtHome, pc \in {"erase", "program"}
  PROVE  \E start \in Nat, n \in Nat \ {0} :
           /\ start = SectorStart /\ n = SectorSize /\ Sector = start .. start + n - 1
           /\ start + n <= Total /\ start % n = 0 /\ Sector \subseteq Words
           /\ start = SectorOf(start)
<1>1. cur.data # <<>> /\ cur.sector = SectorOf(cur.off) /\ pc # "idle"
  BY DEF Core, Basic, CallInv
<1>2. PICK start \in Nat, n \in Nat \ {0}, p \in Nat, l \in Nat \ {0} :
        /\ start = cur.base + SectorOf(cur.off) /\ n = SectorSize
        /\ start % n = 0 /\ start <= p /\ p + l <= start + n /\ start + n <= Total
  BY <1>1, Place DEF Core
<1>3. start = SectorStart BY <1>1, <1>2 DEF SectorStart
<1>4. Sector = start .. start + n - 1 BY <1>2, <1>3 DEF Sector
<1>5. ASSUME NEW a \in start .. start + n - 1 PROVE a \in Words
  <2>1. a \in Nat /\ a < Total BY <1>2, <1>5, WordsAre DEF Core
  <2> QED BY <2>1, WordsAre DEF Core
<1>6. start = SectorOf(start) BY <1>2, SectorWords DEF Core, Basic, TypeOK
<1> QED BY <1>2, <1>3, <1>4, <1>5, <1>6

\* A step within the sector in work: the rest of the flash, and the call,
\* stay as they are.
LEMMA Inside ==
  ASSUME Core, AtHome, pc \in {"erase", "program"}, pc' \in {"erase", "program"},
         par' = par, base' = base, call' = call, cur' = cur, ram' = ram,
         \A a \in Words : a \notin Sector => flash'[a] = flash[a]
  PROVE  /\ LoopInv' /\ SectorStart' = SectorStart /\ SectorSize' = SectorSize /\ Sector' = Sector
         /\ Between(SectorStart, SectorStart + SectorSize)'
         /\ \A i \in 1 .. SectorSize' : ram'[i] = call'.before[SectorStart' + i - 1]
         /\ call'.op = "write" => \E a \in Sector' : Expected(call)'[a] # call'.before[a]
<1>1. (AtHome' <=> AtHome) /\ Expected(call)' = Expected(call)
      /\ Unverified(call)' = Unverified(call) /\ (WholeSectors(call)' <=> WholeSectors(call))
  BY SameQuestion
<1>2. Words' = Words /\ SectorSize' = SectorSize BY Geometry
<1>3. /\ SectorStart' = SectorStart /\ Sector' = Sector
      /\ Position' = Position /\ Here' = Here
  BY <1>2 DEF SectorStart, Sector, Position, Here
<1>4. LoopInv' BY <1>1, <1>2, <1>3 DEF Core, LoopInv
<1>5. PICK start \in Nat, n \in Nat \ {0} :
        /\ start = SectorStart /\ n = SectorSize /\ Sector = start .. start + n - 1
  BY InSector
<1>6. Between(start, start + n) BY <1>5 DEF Core, SectorInv
<1>7. /\ \A a \in Words \ Unverified(call) : a < start => flash'[a] = Expected(call)[a]
      /\ \A a \in Words : a >= start + n => flash'[a] = call.before[a]
  <2>1. \A a \in Words : flash'[a] = flash[a] \/ (start <= a /\ a < start + n)
    <3>1. \A a \in Words : a \in Nat BY WordsAre DEF Core
    <3> QED BY <1>5, <3>1
  <2> QED BY <1>6, <2>1, BetweenStep DEF Core
<1>8. Between(SectorStart, SectorStart + SectorSize)'
  BY <1>1, <1>2, <1>3, <1>5, <1>7 DEF Between
<1>9. \A i \in 1 .. SectorSize' : ram'[i] = call'.before[SectorStart' + i - 1]
  BY <1>2, <1>3 DEF Core, SectorInv
<1>10. call'.op = "write" => \E a \in Sector' : Expected(call)'[a] # call'.before[a]
  BY <1>1, <1>3 DEF Core, SectorInv
<1> QED BY <1>2, <1>3, <1>4, <1>8, <1>9, <1>10

\* The jobs of an erased sector: each writes what is to be there, and what
\* is not to stay erased has one.
LEMMA JobsAreRight ==
  ASSUME Core, AtHome, pc = "erase"
  PROVE  /\ \A job \in Elements(SectorJobs) :
              /\ JobWords(job) \subseteq Sector
              /\ job.at + Len(job.data) <= UnitOf(job.at) + UnitSize
              /\ \A i \in 1 .. Len(job.data) : job.data[i] = Expected(call)[job.at + i - 1]
         /\ \A a \in Sector \ Unverified(call) :
              \/ \E job \in Elements(SectorJobs) : a \in JobWords(job)
              \/ Expected(call)[a] = Erased /\ a % SectorSize < BlockSize
<1>1. /\ cur.data # <<>> /\ cur.sector = SectorOf(cur.off) /\ pc # "idle"
      /\ ram \in Seq(Values) /\ Len(ram) = SectorSize
      /\ cur.off \in Nat /\ cur.data \in Seq(Values) /\ cur.base \in Nat
  BY DEF Core, Basic, CallInv, TypeOK
<1>2. PICK start \in Nat, n \in Nat \ {0}, p \in Nat, l \in Nat \ {0} :
        /\ start = cur.base + SectorOf(cur.off) /\ n = SectorSize
        /\ p = Position /\ p = Here /\ l = TempLength
        /\ start % n = 0 /\ start <= p /\ p + l <= start + n /\ start + n <= Total
        /\ l <= Len(cur.data) /\ p + Len(cur.data) = call.off + Len(call.data)
        /\ l = Len(cur.data) \/ p + l = start + n
        /\ p = call.off \/ p = start
  BY <1>1, Place DEF Core
<1>3. SectorStart = start BY <1>1, <1>2 DEF SectorStart
<1>4. Sector = start .. start + n - 1 /\ Sector \subseteq Words
  <2>1. PICK s \in Nat, m \in Nat \ {0} :
          s = SectorStart /\ m = SectorSize /\ Sector = s .. s + m - 1 /\ Sector \subseteq Words
    BY InSector
  <2> QED BY <1>2, <1>3, <2>1
<1>5. ASSUME NEW a \in Sector, a < p \/ a >= p + l
      PROVE  Expected(call)[a] = call.before[a]
  <2>1. a \in Words /\ start <= a /\ a < start + n BY <1>4, <1>5
  <2> QED BY <1>1, <1>2, <1>5, <2>1, OutsideRange DEF Core
<1>6. ASSUME NEW a \in Sector, p <= a, a < p + l
      PROVE  a - p + 1 \in 1 .. l /\ Expected(call)[a] = cur.data[a - p + 1] /\ a \in Asked(call)
  <2>1. a \in Nat BY <1>4, <1>6
  <2>2. PICK i \in 1 .. l : i = a - p + 1
    <3>1. a - p + 1 \in 1 .. l BY <1>6, <2>1
    <3> QED BY <3>1
  <2>3. p + i - 1 = a BY <2>1, <2>2
  <2>4. i \in 1 .. Len(cur.data)
    <3>1. Len(cur.data) \in Nat BY <1>1
    <3> QED BY <1>2, <3>1
  <2>5. a \in Words BY <1>4
  <2>6. Position + i - 1 = a BY <1>2, <2>3
  <2>7. /\ Expected(call)[Position + i - 1] = cur.data[i]
        /\ Position + i - 1 \in Asked(call)
    BY <1>1, <2>4, <2>5, <2>6, ExpectedFacts DEF Core
  <2> QED BY <1>2, <2>2, <2>6, <2>7
<1>7. ASSUME NEW a \in Sector PROVE call.before[a] = ram[a - start + 1]
  <2>1. PICK i \in 1 .. n : i = a - start + 1
    <3>1. a - start + 1 \in 1 .. n BY <1>4
    <3> QED BY <3>1
  <2>2. start + i - 1 = a BY <1>4, <2>1
  <2>3. ram[i] = call.before[SectorStart + i - 1]
    BY <1>2, <2>1 DEF Core, SectorInv
  <2> QED BY <1>3, <2>1, <2>2, <2>3
<1>8. ASSUME NEW a \in Sector \ Unverified(call), call.op # "write", p <= a, a < p + l
      PROVE  Expected(call)[a] = Erased /\ a % SectorSize < BlockSize
  <2>1. call.op = "erase"
    <3>1. call.status = "RUNNING" BY <1>1 DEF Core, Basic, TypeOK
    <3>2. call.op # "none" BY <3>1 DEF Core, Basic, CallInv
    <3> QED BY <1>8, <3>2, CallFacts DEF Core, Basic
  <2>2. a \in Asked(call) /\ a \in Words BY <1>4, <1>6, <1>8
  <2>3. a % SectorSize < BlockSize
    <3>1. ~(a % SectorSize >= BlockSize) BY <1>8, <2>1, <2>2 DEF Unverified
    <3>2. a \in Nat BY <1>4
    <3>3. a % SectorSize \in Nat /\ BlockSize \in Nat
      BY <3>2, SectorOfFacts, Sizes DEF Core, Basic, TypeOK
    <3> QED BY <3>1, <3>3
  <2>4. Expected(call)[a] = call.data[a - call.off + 1] BY <2>2 DEF Expected
  <2>5. a - call.off + 1 \in 1 .. Len(call.data)
    <3>1. call.off \in Nat /\ Len(call.data) \in Nat BY CallFacts DEF Core, Basic
    <3> QED BY <2>2, <3>1 DEF Asked
  <2>6. call.data[a - call.off + 1] = Erased BY <2>1, <2>5 DEF Core, Basic, CallInv
  <2> QED BY <2>3, <2>4, <2>6
<1>9. PICK s \in Nat, off \in Nat, b \in Nat :
        s = cur.sector /\ off = cur.off /\ b = cur.base /\ start = b + s /\ p = b + off
  BY <1>1, <1>2, SectorOfFacts DEF Here, Core, Basic, TypeOK
<1>10. /\ SectorJobs \in Seq(Jobs)
       /\ \A job \in Elements(SectorJobs) :
            /\ s <= job.at /\ job.at + Len(job.data) <= s + n
            /\ job.at + Len(job.data) <= UnitOf(job.at) + UnitSize
            /\ \A i \in 1 .. Len(job.data) :
                 IF off < job.at + i /\ job.at + i <= off + l
                   THEN call.op = "write" /\ job.data[i] = cur.data[job.at - off + i]
                   ELSE job.data[i] = ram[job.at - s + i]
       /\ \A a \in s .. s + n - 1 :
            \/ call.op # "write" /\ off <= a /\ a < off + l
            \/ \E job \in Elements(SectorJobs) : a \in JobWords(job)
       /\ call.op # "write" /\ off = s /\ l = n => SectorJobs = <<>>
  BY <1>1, <1>2, <1>9, SectorJobsFacts DEF Core, Basic, TypeOK
<1>11. CASE b = 0
  <2>1. start = s /\ p = off BY <1>9, <1>11
  <2>2. ASSUME NEW job \in Elements(SectorJobs)
        PROVE  /\ JobWords(job) \subseteq Sector
               /\ job.at + Len(job.data) <= UnitOf(job.at) + UnitSize
               /\ \A i \in 1 .. Len(job.data) : job.data[i] = Expected(call)[job.at + i - 1]
    <3>1. job \in Jobs BY <1>10 DEF Elements
    <3>2. job.at \in Nat /\ Len(job.data) \in Nat BY <3>1 DEF Jobs
    <3>3. s <= job.at /\ job.at + Len(job.data) <= s + n BY <1>10
    <3>4. PICK at \in Nat, k \in Nat :
            at = job.at /\ k = Len(job.data) /\ start <= at /\ at + k <= start + n
      BY <2>1, <3>2, <3>3
    <3>5. start <= at /\ at + k <= start + n BY <3>4
    <3>6. JobWords(job) = at .. at + k - 1 BY <3>4 DEF JobWords
    <3>7. JobWords(job) \subseteq Sector BY <1>4, <3>5, <3>6
    <3>8. ASSUME NEW i \in 1 .. k PROVE job.data[i] = Expected(call)[at + i - 1]
      <4>1. PICK a \in Sector : a = at + i - 1 /\ a \in Nat
        <5>1. at + i - 1 \in start .. start + n - 1 BY <3>5
        <5> QED BY <1>4, <5>1
      <4>2. CASE p < at + i /\ at + i <= p + l
        <5>1. job.data[i] = cur.data[at - p + i] BY <1>10, <2>1, <3>4, <4>2
        <5>2. p <= a /\ a < p + l /\ a - p + 1 = at - p + i BY <4>1, <4>2
        <5>3. Expected(call)[a] = cur.data[a - p + 1] BY <1>6, <5>2
        <5> QED BY <4>1, <5>1, <5>2, <5>3
      <4>3. CASE ~(p < at + i /\ at + i <= p + l)
        <5>1. job.data[i] = ram[at - start + i] BY <1>10, <2>1, <3>4, <4>3
        <5>2. (a < p \/ a >= p + l) /\ a - start + 1 = at - start + i BY <4>1, <4>3
        <5>3. Expected(call)[a] = ram[a - start + 1] BY <1>5, <1>7, <5>2
        <5> QED BY <4>1, <5>1, <5>2, <5>3
      <4> QED BY <4>2, <4>3
    <3>9. at + k <= UnitOf(at) + UnitSize BY <1>10, <3>4
    <3> QED BY <3>4, <3>7, <3>8, <3>9
  <2>3. ASSUME NEW a \in Sector \ Unverified(call)
        PROVE  \/ \E job \in Elements(SectorJobs) : a \in JobWords(job)
               \/ Expected(call)[a] = Erased /\ a % SectorSize < BlockSize
    <3>1. a \in s .. s + n - 1 BY <1>4, <2>1
    <3>2. CASE call.op # "write" /\ p <= a /\ a < p + l BY <1>8, <3>2
    <3> QED BY <1>10, <2>1, <3>1, <3>2
  <2> QED BY <2>2, <2>3
<1>12. CASE b # 0
  <2>1. WholeSectors(call) BY <1>1, <1>9, <1>12 DEF Core, LoopInv
  <2>2. PICK o \in Nat, k \in Nat, r \in Nat :
          /\ o = call.off /\ k = Len(call.data) /\ r = Len(cur.data)
          /\ o % n = 0 /\ k % n = 0 /\ call.op = "erase"
    BY <1>2, <2>1, CallFacts DEF WholeSectors, Core, Basic
  <2>3. p = start
    <3>1. p = o \/ p = start BY <1>2, <2>2
    <3>2. p % n = 0 BY <1>2, <2>2, <3>1
    <3>3. p < start + n BY <1>2
    <3>4. p <= start BY <1>2, <3>2, <3>3, MultipleStep
    <3> QED BY <1>2, <3>4
  <2>4. l = n
    <3>1. PICK e \in Nat : e = o + k OBVIOUS
    <3>2. e % n = 0 BY <2>2, <3>1, MultipleSum
    <3>3. p + r = e /\ (l = r \/ p + l = start + n) /\ l <= r BY <1>2, <2>2, <3>1
    <3>4. start < e BY <2>3, <3>3
    <3>5. start + n <= e BY <1>2, <3>2, <3>4, MultipleNext
    <3>6. p + l <= start + n BY <1>2
    <3> QED BY <2>3, <3>3, <3>5, <3>6
  <2>5. off = s BY <1>9, <2>3
  <2>6. SectorJobs = <<>> BY <1>10, <2>2, <2>4, <2>5
  <2>7. Elements(SectorJobs) = {} BY <2>6 DEF Elements
  <2>8. ASSUME NEW a \in Sector \ Unverified(call)
        PROVE  Expected(call)[a] = Erased /\ a % SectorSize < BlockSize
    <3>1. p <= a /\ a < p + l BY <1>4, <2>3, <2>4
    <3> QED BY <1>8, <2>2, <3>1
  <2> QED BY <2>7, <2>8
<1> QED BY <1>11, <1>12

\* The sector is erased, in whole or in part; once verified it has its jobs.
LEMMA CoreErase ==
  ASSUME Core, SectorErase
  PROVE  LoopInv' /\ SectorInv'
<1>1. PICK S \in Reached(SectorStart, SectorSize) :
        LET f == EraseWords(S) IN
          /\ flash' = f
          /\ \/ /\ EraseVerified(f)
                /\ pc' = "program" /\ jobs' = SectorJobs
                /\ UNCHANGED <<call, cur, ram>>
             \/ UNCHANGED <<pc, call, cur, ram, jobs>>
             \/ Return("DEVICE_ERROR")
  BY DEF SectorErase
<1>2. par' = par /\ base' = base /\ pc = "erase" BY DEF SectorErase
<1>3. CASE pc' = "idle" BY <1>3 DEF LoopInv, SectorInv
<1>4. CASE /\ UNCHANGED <<call, cur, ram>>
           /\ \/ EraseVerified(flash') /\ pc' = "program" /\ jobs' = SectorJobs
              \/ pc' = pc
  <2>1. (AtHome' <=> AtHome) /\ Expected(call)' = Expected(call)
        /\ Unverified(call)' = Unverified(call)
    BY <1>2, <1>4, SameQuestion
  <2>2. ~AtHome' => LoopInv' /\ SectorInv' BY DEF LoopInv, SectorInv
  <2>3. SUFFICES ASSUME AtHome PROVE LoopInv' /\ SectorInv' BY <2>1, <2>2
  <2>4. \A a \in Words : a \notin Sector => flash'[a] = flash[a]
    BY <1>1, EraseFacts, CallFacts DEF Core, Basic, TypeOK
  <2>5. pc' \in {"erase", "program"} BY <1>2, <1>4
  <2>6. /\ LoopInv' /\ SectorStart' = SectorStart /\ SectorSize' = SectorSize /\ Sector' = Sector
        /\ Between(SectorStart, SectorStart + SectorSize)'
        /\ \A i \in 1 .. SectorSize' : ram'[i] = call'.before[SectorStart' + i - 1]
        /\ call'.op = "write" => \E a \in Sector' : Expected(call)'[a] # call'.before[a]
    BY <1>2, <1>4, <2>3, <2>4, <2>5, Inside
  <2>7. CASE EraseVerified(flash') /\ pc' = "program" /\ jobs' = SectorJobs
    <3>1. UnitSize' = UnitSize /\ \A a : UnitOf(a)' = UnitOf(a) BY <1>2, Geometry
    <3>2. PICK start \in Nat, n \in Nat \ {0} :
            /\ start = SectorStart /\ n = SectorSize /\ Sector = start .. start + n - 1
            /\ start % n = 0 /\ Sector \subseteq Words
      BY <1>2, <2>3, InSector
    <3>3. ASSUME NEW a \in Sector, a % SectorSize < BlockSize PROVE flash'[a] = Erased
      <4>1. a \in Nat /\ start <= a /\ a < start + n BY <3>2
      <4>2. PICK i \in Nat : i = a - start
        <5>1. a - start \in Nat BY <4>1
        <5> QED BY <5>1
      <4>3. a % n = i
        <5>1. start + i = a /\ i < n /\ i \in 0 .. n - 1 BY <4>1, <4>2
        <5>2. (start + i) % n = i % n BY <3>2, MultipleSum
        <5>3. i % n = i
          <6>1. 0 * n + i = i BY <4>2
          <6>2. (0 * n + i) % n = i BY <5>1, DivUnique
          <6> QED BY <6>1, <6>2
        <5> QED BY <5>1, <5>2, <5>3
      <4>4. BlockSize \in Nat BY Sizes DEF Core, Basic, TypeOK
      <4>5. i < BlockSize BY <3>2, <3>3, <4>3
      <4>6. a \in start .. start + BlockSize - 1 BY <4>1, <4>2, <4>4, <4>5
      <4>7. a \in Words BY <3>2
      <4> QED BY <2>7, <3>2, <4>6, <4>7 DEF EraseVerified
    <3>4. /\ \A job \in Elements(SectorJobs) :
               /\ JobWords(job) \subseteq Sector
               /\ job.at + Len(job.data) <= UnitOf(job.at) + UnitSize
               /\ \A i \in 1 .. Len(job.data) : job.data[i] = Expected(call)[job.at + i - 1]
          /\ \A a \in Sector \ Unverified(call) :
               \/ \E job \in Elements(SectorJobs) : a \in JobWords(job)
               \/ Expected(call)[a] = Erased /\ a % SectorSize < BlockSize
      BY <1>2, <2>3, JobsAreRight
    <3>5. \A k \in 1 .. Len(jobs') :
            /\ JobWords(jobs'[k]) \subseteq Sector'
            /\ jobs'[k].at + Len(jobs'[k].data) <= UnitOf(jobs[k].at)' + UnitSize'
            /\ \A i \in 1 .. Len(jobs'[k].data) :
                 jobs'[k].data[i] = Expected(call)'[jobs'[k].at + i - 1]
      <4>1. ASSUME NEW k \in 1 .. Len(jobs') PROVE jobs'[k] \in Elements(SectorJobs)
        BY <2>7, <4>1 DEF Elements
      <4>2. ASSUME NEW k \in 1 .. Len(jobs')
            PROVE  /\ JobWords(jobs'[k]) \subseteq Sector
                   /\ jobs'[k].at + Len(jobs'[k].data) <= UnitOf(jobs'[k].at) + UnitSize
                   /\ \A i \in 1 .. Len(jobs'[k].data) :
                        jobs'[k].data[i] = Expected(call)[jobs'[k].at + i - 1]
        <5>1. PICK job \in Elements(SectorJobs) : job = jobs'[k] BY <4>1
        <5> QED BY <3>4, <5>1
      <4> QED BY <2>1, <2>6, <3>1, <4>2
    <3>6. \A a \in Sector' \ Unverified(call)' :
            flash'[a] = Expected(call)'[a] \/ \E k \in 1 .. Len(jobs') : a \in JobWords(jobs'[k])
      <4>1. \A job \in Elements(SectorJobs) : \E k \in 1 .. Len(jobs') : job = jobs'[k]
        BY <2>7 DEF Elements
      <4> QED BY <2>1, <2>6, <3>3, <3>4, <4>1
    <3>7. (\A k \in 1 .. Len(jobs) :
              /\ JobWords(jobs[k]) \subseteq Sector
              /\ jobs[k].at + Len(jobs[k].data) <= UnitOf(jobs[k].at) + UnitSize
              /\ \A i \in 1 .. Len(jobs[k].data) :
                   jobs[k].data[i] = Expected(call)[jobs[k].at + i - 1])'
      BY <3>5 DEF JobWords
    <3>8. (\A a \in Sector \ Unverified(call) :
              flash[a] = Expected(call)[a] \/ \E k \in 1 .. Len(jobs) : a \in JobWords(jobs[k]))'
      BY <3>6 DEF JobWords
    <3>9. Between(SectorStart, SectorStart + SectorSize)' BY <2>6
    <3> QED BY <2>6, <3>7, <3>8, <3>9 DEF SectorInv
  <2>8. CASE pc' = pc
    BY <1>2, <2>6, <2>8 DEF SectorInv
  <2> QED BY <1>4, <2>7, <2>8
<1> QED BY <1>1, <1>3, <1>4 DEF Return

\* The job at the head is one of the sector in work.
LEMMA JobFacts ==
  ASSUME Core, AtHome, pc = "program", jobs # <<>>
  PROVE  /\ base = 0 /\ Job \in Jobs /\ JobWords(Job) \subseteq Sector
         /\ Job.at + Len(Job.data) <= UnitOf(Job.at) + UnitSize
         /\ \A a \in JobWords(Job) : Job.data[a - Job.at + 1] = Expected(call)[a]
         /\ \A a \in Sector \ Unverified(call) :
              \/ flash[a] = Expected(call)[a]
              \/ a \in JobWords(Job)
              \/ \E k \in 1 .. Len(jobs) - 1 : a \in JobWords(jobs[k + 1])
<1>1. base = 0 /\ jobs \in Seq(Jobs) BY DEF Core, Basic, TypeOK, LoopInv
<1>2. Job = jobs[1] /\ Len(jobs) \in Nat /\ 1 \in 1 .. Len(jobs) /\ Job \in Jobs
  BY <1>1 DEF Job
<1>3. /\ JobWords(Job) \subseteq Sector
      /\ Job.at + Len(Job.data) <= UnitOf(Job.at) + UnitSize
      /\ \A i \in 1 .. Len(Job.data) : Job.data[i] = Expected(call)[Job.at + i - 1]
  BY <1>2 DEF Core, SectorInv
<1>4. ASSUME NEW a \in JobWords(Job) PROVE Job.data[a - Job.at + 1] = Expected(call)[a]
  <2>1. PICK at \in Nat, l \in Nat : at = Job.at /\ l = Len(Job.data) BY <1>2 DEF Jobs
  <2>2. a \in at .. at + l - 1 BY <1>4, <2>1 DEF JobWords
  <2>3. PICK i \in 1 .. l : i = a - at + 1
    <3>1. a - at + 1 \in 1 .. l BY <2>2
    <3> QED BY <3>1
  <2>4. at + i - 1 = a BY <2>2, <2>3
  <2> QED BY <1>3, <2>1, <2>3, <2>4
<1>5. ASSUME NEW a \in Sector \ Unverified(call)
      PROVE  \/ flash[a] = Expected(call)[a]
             \/ a \in JobWords(Job)
             \/ \E k \in 1 .. Len(jobs) - 1 : a \in JobWords(jobs[k + 1])
  <2>1. CASE flash[a] = Expected(call)[a] BY <2>1
  <2>2. CASE \E k \in 1 .. Len(jobs) : a \in JobWords(jobs[k])
    <3>1. PICK k \in 1 .. Len(jobs) : a \in JobWords(jobs[k]) BY <2>2
    <3>2. CASE k = 1 BY <1>2, <3>1, <3>2
    <3>3. CASE k # 1
      <4>1. PICK j \in 1 .. Len(jobs) - 1 : k = j + 1
        <5>1. k - 1 \in 1 .. Len(jobs) - 1 /\ k = k - 1 + 1 BY <1>2, <3>3
        <5> QED BY <5>1
      <4> QED BY <3>1, <4>1
    <3> QED BY <3>2, <3>3
  <2> QED BY <2>1, <2>2 DEF Core, SectorInv
<1> QED BY <1>1, <1>2, <1>3, <1>4, <1>5

\* A unit that holds its data needs its job no more.
LEMMA CoreNext ==
  ASSUME Core, pc = "program", jobs # <<>>, NextJob, par' = par,
         UnitHolds(flash', base + UnitOf(Job.at), NewDataUnit(Job)),
         base = 0 => \A a \in Words : a \notin JobWords(Job) => flash'[a] = flash[a]
  PROVE  LoopInv' /\ SectorInv'
<1>1. jobs' = Tail(jobs) /\ pc' = pc /\ cur' = cur /\ ram' = ram BY DEF NextJob
<1>2. CASE Job.crosses
  <2>1. call' = [call EXCEPT !.home = FALSE] BY <1>2 DEF NextJob
  <2>2. call'.home = FALSE BY <2>1, MovedFacts DEF Core, Basic, TypeOK
  <2>3. ~AtHome' BY <2>2 DEF AtHome
  <2> QED BY <2>3 DEF LoopInv, SectorInv
<1>3. CASE ~Job.crosses
  <2>1. base' = base /\ call' = call BY <1>3 DEF NextJob
  <2>2. (AtHome' <=> AtHome) /\ Expected(call)' = Expected(call)
        /\ Unverified(call)' = Unverified(call)
    BY <2>1, SameQuestion
  <2>3. ~AtHome' => LoopInv' /\ SectorInv' BY DEF LoopInv, SectorInv
  <2>4. SUFFICES ASSUME AtHome PROVE LoopInv' /\ SectorInv' BY <2>2, <2>3
  <2>5. /\ base = 0 /\ Job \in Jobs /\ JobWords(Job) \subseteq Sector
        /\ Job.at + Len(Job.data) <= UnitOf(Job.at) + UnitSize
        /\ \A a \in JobWords(Job) : Job.data[a - Job.at + 1] = Expected(call)[a]
        /\ \A a \in Sector \ Unverified(call) :
             \/ flash[a] = Expected(call)[a]
             \/ a \in JobWords(Job)
             \/ \E k \in 1 .. Len(jobs) - 1 : a \in JobWords(jobs[k + 1])
    BY <2>4, JobFacts
  <2>6. \A a \in Words : a \notin JobWords(Job) => flash'[a] = flash[a] BY <2>5
  <2>7. \A a \in Words : a \notin Sector => flash'[a] = flash[a] BY <2>5, <2>6
  <2>8. /\ LoopInv' /\ SectorStart' = SectorStart /\ SectorSize' = SectorSize /\ Sector' = Sector
        /\ Between(SectorStart, SectorStart + SectorSize)'
        /\ \A i \in 1 .. SectorSize' : ram'[i] = call'.before[SectorStart' + i - 1]
        /\ call'.op = "write" => \E a \in Sector' : Expected(call)'[a] # call'.before[a]
    BY <1>1, <2>1, <2>4, <2>7, Inside
  <2>9. /\ jobs \in Seq(Jobs) /\ Len(jobs) \in Nat /\ Len(jobs') = Len(jobs) - 1
        /\ \A k \in 1 .. Len(jobs) - 1 : jobs'[k] = jobs[k + 1] /\ k + 1 \in 1 .. Len(jobs)
    <3>1. jobs \in Seq(Jobs) BY DEF Core, Basic, TypeOK
    <3> QED BY <1>1, <3>1
  <2>10. Sector \subseteq Words
    <3>1. PICK s \in Nat, m \in Nat \ {0} :
            s = SectorStart /\ m = SectorSize /\ Sector = s .. s + m - 1 /\ Sector \subseteq Words
      BY <2>4, InSector
    <3> QED BY <3>1
  <2>11. ASSUME NEW a \in Sector \ Unverified(call)
         PROVE  flash'[a] = Expected(call)[a] \/ \E k \in 1 .. Len(jobs') : a \in JobWords(jobs'[k])
    <3>1. CASE a \in JobWords(Job)
      <4>1. flash'[a] = Job.data[a - Job.at + 1]
        BY <2>5, <2>10, <3>1, HeldFacts DEF Core, Basic, TypeOK
      <4> QED BY <2>5, <3>1, <4>1
    <3>2. CASE flash[a] = Expected(call)[a] /\ a \notin JobWords(Job) BY <2>6, <2>10, <3>2
    <3>3. CASE \E k \in 1 .. Len(jobs) - 1 : a \in JobWords(jobs[k + 1])
      <4>1. PICK k \in 1 .. Len(jobs) - 1 : a \in JobWords(jobs[k + 1]) BY <3>3
      <4>2. k \in 1 .. Len(jobs') /\ jobs'[k] = jobs[k + 1] BY <2>9
      <4> QED BY <4>1, <4>2
    <3> QED BY <2>5, <3>1, <3>2, <3>3
  <2>12. UnitSize' = UnitSize /\ \A a : UnitOf(a)' = UnitOf(a) BY Geometry
  <2>13. (\A k \in 1 .. Len(jobs) :
              /\ JobWords(jobs[k]) \subseteq Sector
              /\ jobs[k].at + Len(jobs[k].data) <= UnitOf(jobs[k].at) + UnitSize
              /\ \A i \in 1 .. Len(jobs[k].data) :
                   jobs[k].data[i] = Expected(call)[jobs[k].at + i - 1])'
    <3>1. ASSUME NEW k \in 1 .. Len(jobs')
          PROVE  /\ JobWords(jobs'[k]) \subseteq Sector
                 /\ jobs'[k].at + Len(jobs'[k].data) <= UnitOf(jobs'[k].at) + UnitSize
                 /\ \A i \in 1 .. Len(jobs'[k].data) :
                      jobs'[k].data[i] = Expected(call)[jobs'[k].at + i - 1]
      <4>1. PICK j \in 1 .. Len(jobs) : jobs'[k] = jobs[j] BY <2>9
      <4>2. pc = "program" /\ AtHome BY <2>4
      <4>3. /\ JobWords(jobs[j]) \subseteq Sector
            /\ jobs[j].at + Len(jobs[j].data) <= UnitOf(jobs[j].at) + UnitSize
            /\ \A i \in 1 .. Len(jobs[j].data) :
                 jobs[j].data[i] = Expected(call)[jobs[j].at + i - 1]
        BY <4>2 DEF Core, SectorInv
      <4> QED BY <4>1, <4>3
    <3> QED BY <2>2, <2>8, <2>12, <3>1 DEF JobWords
  <2>14. (\A a \in Sector \ Unverified(call) :
              flash[a] = Expected(call)[a] \/ \E k \in 1 .. Len(jobs) : a \in JobWords(jobs[k]))'
    BY <2>2, <2>8, <2>11 DEF JobWords
  <2> QED BY <2>8, <2>13, <2>14 DEF SectorInv
<1> QED BY <1>2, <1>3

\* An attempt at a unit changes words of its job only.
LEMMA CoreProgram ==
  ASSUME Core, ProgramSkip \/ BufferWrite
  PROVE  LoopInv' /\ SectorInv'
<1>1. CASE ProgramSkip
  <2>1. /\ pc = "program" /\ jobs # <<>> /\ NextJob /\ par' = par /\ flash' = flash
        /\ UnitHolds(flash, base + UnitOf(Job.at), NewDataUnit(Job))
    BY <1>1 DEF ProgramSkip
  <2> QED BY <2>1, CoreNext
<1>2. CASE BufferWrite
  <2>1. PICK S \in Reached(base + UnitOf(Job.at), UnitSize) :
          LET f == Program(base + UnitOf(Job.at), NewDataUnit(Job), S \cap Words) IN
            /\ flash' = f
            /\ \/ UnitHolds(f, base + UnitOf(Job.at), NewDataUnit(Job)) /\ NextJob
               \/ UNCHANGED <<base, pc, call, cur, ram, jobs>>
               \/ Return("DEVICE_ERROR")
    BY <1>2 DEF BufferWrite
  <2>2. pc = "program" /\ jobs # <<>> /\ par' = par BY <1>2 DEF BufferWrite
  <2>3. jobs \in Seq(Jobs) BY DEF Core, Basic, TypeOK
  <2>4. Job \in Jobs BY <2>2, <2>3 DEF Job
  <2>5. base = 0 => \A a \in Words : a \notin JobWords(Job) => flash'[a] = flash[a]
    <3>1. PICK f : f = Program(base + UnitOf(Job.at), NewDataUnit(Job), S \cap Words) /\ flash' = f
      BY <2>1
    <3>2. par \in ParallelNums /\ flash \in [Words -> Values] /\ base \in Nat
      BY DEF Core, Basic, TypeOK
    <3>3. base = 0 => \A a \in Words : a \notin JobWords(Job) => f[a] = flash[a]
      BY <2>4, <3>1, <3>2, ProgramFacts
    <3> QED BY <3>1, <3>3
  <2>6. CASE UnitHolds(flash', base + UnitOf(Job.at), NewDataUnit(Job)) /\ NextJob
    BY <2>2, <2>5, <2>6, CoreNext
  <2>7. CASE UNCHANGED <<base, pc, call, cur, ram, jobs>>
    <3>1. base' = base /\ pc' = pc /\ call' = call /\ cur' = cur /\ ram' = ram /\ jobs' = jobs
      BY <2>7
    <3>2. (AtHome' <=> AtHome) /\ Expected(call)' = Expected(call)
          /\ Unverified(call)' = Unverified(call)
      BY <2>2, <3>1, SameQuestion
    <3>3. ~AtHome' => LoopInv' /\ SectorInv' BY DEF LoopInv, SectorInv
    <3>4. SUFFICES ASSUME AtHome PROVE LoopInv' /\ SectorInv' BY <3>2, <3>3
    <3>5. /\ base = 0 /\ JobWords(Job) \subseteq Sector
          /\ \A a \in Sector \ Unverified(call) :
               \/ flash[a] = Expected(call)[a]
               \/ a \in JobWords(Job)
               \/ \E k \in 1 .. Len(jobs) - 1 : a \in JobWords(jobs[k + 1])
      BY <2>2, <3>4, JobFacts
    <3>6. \A a \in Words : a \notin Sector => flash'[a] = flash[a] BY <2>5, <3>5
    <3>7. /\ LoopInv' /\ SectorStart' = SectorStart /\ SectorSize' = SectorSize /\ Sector' = Sector
          /\ Between(SectorStart, SectorStart + SectorSize)'
          /\ \A i \in 1 .. SectorSize' : ram'[i] = call'.before[SectorStart' + i - 1]
          /\ call'.op = "write" => \E a \in Sector' : Expected(call)'[a] # call'.before[a]
      BY <2>2, <3>1, <3>4, <3>6, Inside
    <3>8. Sector \subseteq Words
      <4>1. PICK s \in Nat, m \in Nat \ {0} :
              s = SectorStart /\ m = SectorSize /\ Sector = s .. s + m - 1 /\ Sector \subseteq Words
        BY <2>2, <3>4, InSector
      <4> QED BY <4>1
    <3>9. UnitSize' = UnitSize /\ \A a : UnitOf(a)' = UnitOf(a) BY <2>2, Geometry
    <3>10. (\A k \in 1 .. Len(jobs) :
                /\ JobWords(jobs[k]) \subseteq Sector
                /\ jobs[k].at + Len(jobs[k].data) <= UnitOf(jobs[k].at) + UnitSize
                /\ \A i \in 1 .. Len(jobs[k].data) :
                     jobs[k].data[i] = Expected(call)[jobs[k].at + i - 1])'
      <4>1. \A k \in 1 .. Len(jobs) :
              /\ JobWords(jobs[k]) \subseteq Sector
              /\ jobs[k].at + Len(jobs[k].data) <= UnitOf(jobs[k].at) + UnitSize
              /\ \A i \in 1 .. Len(jobs[k].data) :
                   jobs[k].data[i] = Expected(call)[jobs[k].at + i - 1]
        BY <2>2, <3>4 DEF Core, SectorInv
      <4> QED BY <3>1, <3>2, <3>7, <3>9, <4>1 DEF JobWords
    <3>11. ASSUME NEW a \in Sector \ Unverified(call)
           PROVE  flash'[a] = Expected(call)[a] \/ \E k \in 1 .. Len(jobs) : a \in JobWords(jobs[k])
      <4>1. Job = jobs[1] /\ 1 \in 1 .. Len(jobs) BY <2>2, <2>3 DEF Job
      <4>2. CASE a \in JobWords(Job) BY <4>1, <4>2
      <4>3. CASE a \notin JobWords(Job)
        <5>1. flash'[a] = flash[a] BY <2>5, <3>5, <3>8, <4>3
        <5>2. pc = "program" /\ AtHome BY <2>2, <3>4
        <5> QED BY <5>1, <5>2 DEF Core, SectorInv
      <4> QED BY <4>2, <4>3
    <3>12. (\A a \in Sector \ Unverified(call) :
                flash[a] = Expected(call)[a] \/ \E k \in 1 .. Len(jobs) : a \in JobWords(jobs[k]))'
      BY <3>1, <3>2, <3>7, <3>11 DEF JobWords
    <3> QED BY <3>7, <3>10, <3>12 DEF SectorInv
  <2>8. CASE Return("DEVICE_ERROR") BY <2>8 DEF Return, LoopInv, SectorInv
  <2> QED BY <2>1, <2>6, <2>7, <2>8
<1> QED BY <1>1, <1>2

\* At first no call runs.
LEMMA CoreInit ==
  ASSUME Init
  PROVE  Core
<1>1. Basic BY BasicInit
<1> QED BY <1>1 DEF Core, Init, LoopInv, SectorInv

\* The inductive step of the invariant, action by action.
LEMMA CoreStep ==
  ASSUME Core, [Next]_vars
  PROVE  Core'
<1>1. Basic' BY BasicStep DEF Core
<1>2. LoopInv' /\ SectorInv'
  <2>1. CASE CallErase \/ CallWrite
    <3>1. PICK op \in {"erase", "write"}, off \in Nat, data \in Seq(Values) :
            off \in Words /\ Begin(op, off, data)
      BY <2>1, CallsBegin DEF Core
    <3> QED BY <3>1, CoreBegin
  <2>2. CASE SkipSector BY <2>2, CoreSkip
  <2>3. CASE SaveSector BY <2>3, CoreSave
  <2>4. CASE SectorErase BY <2>4, CoreErase
  <2>5. CASE ProgramSkip \/ BufferWrite BY <2>5, CoreProgram
  <2>6. CASE SectorDone BY <2>6, CoreDone
  <2>7. CASE LoopDone \/ OutOfMemory \/ PowerLoss
    <3>1. pc' = "idle" BY <2>7 DEF LoopDone, OutOfMemory, PowerLoss, Return
    <3> QED BY <3>1 DEF LoopInv, SectorInv
  <2>8. CASE UNCHANGED vars
    <3>1. /\ par' = par /\ flash' = flash /\ base' = base /\ pc' = pc /\ call' = call
          /\ cur' = cur /\ ram' = ram /\ jobs' = jobs
      BY <2>8 DEF vars
    <3>2. (AtHome' <=> AtHome) /\ Expected(call)' = Expected(call)
          /\ Unverified(call)' = Unverified(call) /\ (WholeSectors(call)' <=> WholeSectors(call))
      BY <3>1, SameQuestion
    <3>3. Words' = Words /\ SectorSize' = SectorSize /\ UnitSize' = UnitSize
          /\ \A a : UnitOf(a)' = UnitOf(a)
      BY <3>1, Geometry
    <3>4. /\ Position' = Position /\ Here' = Here /\ SectorStart' = SectorStart /\ Sector' = Sector
      BY <3>1, <3>3 DEF Position, Here, SectorStart, Sector
    <3>5. LoopInv' BY <3>1, <3>2, <3>3, <3>4 DEF Core, LoopInv, Between
    <3>6. SectorInv' BY <3>1, <3>2, <3>3, <3>4 DEF Core, SectorInv, Between, JobWords
    <3> QED BY <3>5, <3>6
  <2> QED BY <2>1, <2>2, <2>3, <2>4, <2>5, <2>6, <2>7, <2>8 DEF Next, Step, Finished
<1> QED BY <1>1, <1>2 DEF Core

\* While a call runs, the sector in work, or the one the loop has come to,
\* is the only one at risk.
LEMMA RiskRunning ==
  Core /\ pc # "idle" => OneSectorAtRisk
<1> SUFFICES ASSUME Core, pc # "idle", AtHome PROVE OneSectorAtRisk BY DEF OneSectorAtRisk
<1>1. CASE pc \in {"erase", "program"}
  <2>1. PICK start \in Nat, n \in Nat \ {0} :
          /\ start = SectorStart /\ n = SectorSize /\ Sector = start .. start + n - 1
          /\ Sector \subseteq Words /\ start = SectorOf(start)
    BY <1>1, InSector
  <2>2. start \in Words
    <3>1. start \in start .. start + n - 1 OBVIOUS
    <3> QED BY <2>1, <3>1
  <2>3. Between(start, start + n) BY <1>1, <2>1 DEF Core, SectorInv
  <2>4. start \in {SectorOf(a) : a \in Words} BY <2>1, <2>2
  <2> QED BY <2>1, <2>3, <2>4 DEF OneSectorAtRisk, Between
<1>2. CASE pc = "loop"
  <2>1. /\ call.off \in Nat /\ Len(call.data) \in Nat /\ Len(cur.data) \in Nat
        /\ Len(cur.data) <= Len(call.data)
    BY CallFacts DEF Core, Basic, LoopInv
  <2>2. call.off + Len(call.data) <= Total
    <3>1. call.status = "RUNNING" BY DEF Core, Basic, TypeOK
    <3> QED BY <3>1 DEF Core, Basic, CallInv
  <2>3. PICK total \in Nat \ {0} : total = Total BY Sizes DEF Core, Basic, TypeOK
  <2>4. PICK p \in Nat : p = Position /\ p <= total
    <3>1. PICK o \in Nat, k \in Nat, l \in Nat :
            o = call.off /\ k = Len(call.data) /\ l = Len(cur.data)
      BY <2>1
    <3>2. l <= k /\ o + k <= total BY <2>1, <2>2, <2>3, <3>1
    <3>3. o + k - l \in Nat /\ o + k - l <= total BY <3>2
    <3>4. Position = o + k - l BY <3>1 DEF Position
    <3> QED BY <3>3, <3>4
  <2>5. PICK w \in Nat : w < total /\ w <= p /\ p <= w + 1 /\ (w = p \/ w + 1 = total)
    <3>1. PICK w \in Nat : w = IF p < total THEN p ELSE total - 1
      <4>1. (IF p < total THEN p ELSE total - 1) \in Nat OBVIOUS
      <4> QED BY <4>1
    <3>2. w < total /\ w <= p /\ p <= w + 1 /\ (w = p \/ w + 1 = total) BY <2>4, <3>1
    <3> QED BY <3>2
  <2>6. PICK s \in Nat, n \in Nat \ {0} :
          s = SectorOf(w) /\ n = SectorSize /\ s <= w /\ w < s + n
    BY SectorOfFacts, Sizes DEF Core, Basic, TypeOK
  <2>7. w \in Words BY <2>3, <2>5, WordsAre DEF Core
  <2>8. Between(p, p) BY <1>2, <2>4 DEF Core, LoopInv
  <2>9. ASSUME NEW a \in Words \ Unverified(call), a < s PROVE flash[a] = Expected(call)[a]
    <3>1. a \in Nat BY WordsAre DEF Core
    <3>2. a < p BY <2>5, <2>6, <2>9, <3>1
    <3> QED BY <2>8, <3>2 DEF Between
  <2>10. ASSUME NEW a \in Words, a >= s + n PROVE flash[a] = call.before[a]
    <3>1. a \in Nat /\ a < total BY <2>3, WordsAre DEF Core
    <3>2. a >= p BY <2>5, <2>6, <2>10, <3>1
    <3> QED BY <2>8, <3>2 DEF Between
  <2>11. s \in {SectorOf(a) : a \in Words} BY <2>6, <2>7
  <2> QED BY <2>6, <2>9, <2>10, <2>11 DEF OneSectorAtRisk
<1> QED BY <1>1, <1>2 DEF Core, Basic, TypeOK

\* A step of a call leaves the call as it is and changes the flash in the
\* sector in work only, or it moves gIndex.Base.
Kept ==
  /\ par' = par /\ call'.op = call.op /\ call'.off = call.off /\ call'.data = call.data
  /\ call'.before = call.before
  /\ AtHome' =>
       /\ call'.home = call.home
       /\ \/ flash' = flash
          \/ pc \in {"erase", "program"} /\ \A a \in Words : a \notin Sector => flash'[a] = flash[a]

\* A call that returns keeps what was asked.
LEMMA KeptReturn ==
  ASSUME Core, NEW status \in Statuses, Return(status)
  PROVE  /\ call'.op = call.op /\ call'.off = call.off /\ call'.data = call.data
         /\ call'.before = call.before /\ call'.home = call.home /\ call'.status = status
<1>1. call' = [call EXCEPT !.status = status] BY DEF Return
<1> QED BY <1>1, StatusFacts DEF Core, Basic, TypeOK

\* The next job keeps what was asked, or moves gIndex.Base.
LEMMA KeptNext ==
  ASSUME Core, NextJob
  PROVE  /\ call'.op = call.op /\ call'.off = call.off /\ call'.data = call.data
         /\ call'.before = call.before /\ call'.status = call.status
         /\ AtHome' => call'.home = call.home
<1>1. CASE Job.crosses
  <2>1. call' = [call EXCEPT !.home = FALSE] BY <1>1 DEF NextJob
  <2>2. /\ call'.op = call.op /\ call'.off = call.off /\ call'.data = call.data
        /\ call'.before = call.before /\ call'.status = call.status /\ call'.home = FALSE
    BY <2>1, MovedFacts DEF Core, Basic, TypeOK
  <2> QED BY <2>2 DEF AtHome
<1>2. CASE ~Job.crosses BY <1>2 DEF NextJob
<1> QED BY <1>1, <1>2

\* Every step of a call is of that kind.
LEMMA StepKeeps ==
  ASSUME Core, Step \/ OutOfMemory \/ PowerLoss
  PROVE  Kept /\ pc # "idle"
<1>1. CASE LoopDone \/ OutOfMemory \/ PowerLoss
  <2>1. PICK status \in Statuses : Return(status)
    BY <1>1 DEF LoopDone, OutOfMemory, PowerLoss, Statuses
  <2>2. par' = par /\ flash' = flash /\ pc # "idle" BY <1>1 DEF LoopDone, OutOfMemory, PowerLoss
  <2> QED BY <2>1, <2>2, KeptReturn DEF Kept
<1>2. CASE SkipSector \/ SaveSector \/ SectorDone
  BY <1>2 DEF SkipSector, SaveSector, SectorDone, Kept
<1>3. CASE SectorErase
  <2>1. par' = par /\ pc = "erase" BY <1>3 DEF SectorErase
  <2>2. PICK S \in Reached(SectorStart, SectorSize) : flash' = EraseWords(S)
    BY <1>3 DEF SectorErase
  <2>3. \A a \in Words : a \notin Sector => flash'[a] = flash[a]
    BY <2>2, EraseFacts, CallFacts DEF Core, Basic, TypeOK
  <2>4. CASE call' = call BY <2>1, <2>3, <2>4 DEF Kept
  <2>5. CASE Return("DEVICE_ERROR")
    <3>1. "DEVICE_ERROR" \in Statuses BY DEF Statuses
    <3> QED BY <2>1, <2>3, <2>5, <3>1, KeptReturn DEF Kept
  <2> QED BY <1>3, <2>4, <2>5 DEF SectorErase
<1>4. CASE ProgramSkip
  <2>1. par' = par /\ flash' = flash /\ pc = "program" /\ NextJob BY <1>4 DEF ProgramSkip
  <2> QED BY <2>1, KeptNext DEF Kept
<1>5. CASE BufferWrite
  <2>1. par' = par /\ pc = "program" /\ jobs # <<>> BY <1>5 DEF BufferWrite
  <2>2. PICK S \in Reached(base + UnitOf(Job.at), UnitSize) :
          flash' = Program(base + UnitOf(Job.at), NewDataUnit(Job), S \cap Words)
    BY <1>5 DEF BufferWrite
  <2>3. jobs \in Seq(Jobs) BY DEF Core, Basic, TypeOK
  <2>4. Job \in Jobs BY <2>1, <2>3 DEF Job
  <2>5. base = 0 => \A a \in Words : a \notin JobWords(Job) => flash'[a] = flash[a]
    <3>1. PICK f : f = Program(base + UnitOf(Job.at), NewDataUnit(Job), S \cap Words) /\ flash' = f
      BY <2>2
    <3>2. par \in ParallelNums /\ flash \in [Words -> Values] /\ base \in Nat
      BY DEF Core, Basic, TypeOK
    <3>3. base = 0 => \A a \in Words : a \notin JobWords(Job) => f[a] = flash[a]
      BY <2>4, <3>1, <3>2, ProgramFacts
    <3> QED BY <3>1, <3>3
  <2>6. AtHome => \A a \in Words : a \notin Sector => flash'[a] = flash[a]
    <3>1. SUFFICES ASSUME AtHome PROVE \A a \in Words : a \notin Sector => flash'[a] = flash[a]
      OBVIOUS
    <3>2. base = 0 /\ JobWords(Job) \subseteq Sector BY <2>1, <3>1, JobFacts
    <3> QED BY <2>5, <3>2
  <2>7. /\ call'.op = call.op /\ call'.off = call.off /\ call'.data = call.data
        /\ call'.before = call.before
        /\ AtHome' => call'.home = call.home
    <3>1. "DEVICE_ERROR" \in Statuses BY DEF Statuses
    <3>2. CASE NextJob BY <3>2, KeptNext
    <3>3. CASE call' = call BY <3>3
    <3>4. CASE Return("DEVICE_ERROR") BY <3>1, <3>4, KeptReturn
    <3> QED BY <1>5, <3>2, <3>3, <3>4 DEF BufferWrite
  <2>8. AtHome' => AtHome
    <3>1. SUFFICES ASSUME AtHome' PROVE AtHome OBVIOUS
    <3> QED BY <2>1, <2>7, <3>1, SameQuestion
  <2> QED BY <2>1, <2>6, <2>7, <2>8 DEF Kept
<1> QED BY <1>1, <1>2, <1>3, <1>4, <1>5 DEF Step

\* A step of a call, an end of it included, leaves one sector at risk.
LEMMA RiskKept ==
  ASSUME Core, pc # "idle", Kept
  PROVE  OneSectorAtRisk'
<1>1. SUFFICES ASSUME AtHome' PROVE OneSectorAtRisk' BY DEF OneSectorAtRisk
<1>2. /\ par' = par /\ call'.op = call.op /\ call'.off = call.off /\ call'.data = call.data
      /\ call'.before = call.before /\ call'.home = call.home
      /\ \/ flash' = flash
         \/ pc \in {"erase", "program"} /\ \A a \in Words : a \notin Sector => flash'[a] = flash[a]
  BY <1>1 DEF Kept
<1>3. AtHome /\ Expected(call)' = Expected(call) /\ Unverified(call)' = Unverified(call)
  BY <1>1, <1>2, SameQuestion
<1>4. Words' = Words /\ SectorSize' = SectorSize /\ \A a : SectorOf(a)' = SectorOf(a)
  BY <1>2, Geometry
<1>5. \E s \in {SectorOf(a) : a \in Words} :
        /\ \A a \in Words \ Unverified(call) : a < s => flash'[a] = Expected(call)[a]
        /\ \A a \in Words : a >= s + SectorSize => flash'[a] = call.before[a]
  <2>1. CASE flash' = flash
    <3>1. call.status = "RUNNING" BY DEF Core, Basic, TypeOK
    <3>2. OneSectorAtRisk BY RiskRunning
    <3> QED BY <1>3, <2>1, <3>1, <3>2 DEF OneSectorAtRisk
  <2>2. CASE pc \in {"erase", "program"} /\ \A a \in Words : a \notin Sector => flash'[a] = flash[a]
    <3>1. PICK start \in Nat, n \in Nat \ {0} :
            /\ start = SectorStart /\ n = SectorSize /\ Sector = start .. start + n - 1
            /\ Sector \subseteq Words /\ start = SectorOf(start)
      BY <1>3, <2>2, InSector
    <3>2. Between(start, start + n) BY <1>3, <2>2, <3>1 DEF Core, SectorInv
    <3>3. \A a \in Words : flash'[a] = flash[a] \/ (start <= a /\ a < start + n)
      <4>1. \A a \in Words : a \in Nat BY WordsAre DEF Core
      <4> QED BY <2>2, <3>1, <4>1
    <3>4. start + n \in Nat OBVIOUS
    <3>5. /\ \A a \in Words \ Unverified(call) : a < start => flash'[a] = Expected(call)[a]
          /\ \A a \in Words : a >= start + n => flash'[a] = call.before[a]
      BY <1>2, <3>2, <3>3, <3>4, BetweenStep DEF Core
    <3>6. start \in {SectorOf(a) : a \in Words}
      <4>1. start \in start .. start + n - 1 OBVIOUS
      <4>2. start \in Words BY <3>1, <4>1
      <4> QED BY <3>1, <4>2
    <3> QED BY <3>1, <3>5, <3>6
  <2> QED BY <1>2, <2>1, <2>2
<1>6. (\E s \in {SectorOf(a) : a \in Words} :
         /\ \A a \in Words \ Unverified(call) : a < s => flash[a] = Expected(call)[a]
         /\ \A a \in Words : a >= s + SectorSize => flash[a] = call.before[a])'
  BY <1>2, <1>3, <1>4, <1>5
<1> QED BY <1>6 DEF OneSectorAtRisk

\* A Write touches no sector that holds already what is asked.
LEMMA RewriteKept ==
  ASSUME Core, pc # "idle", Kept, RewriteKeepsSector
  PROVE  RewriteKeepsSector'
<1>1. SUFFICES ASSUME AtHome', call'.op = "write",
                      NEW w \in Words',
                      \A a \in (SectorOf(w) .. SectorOf(w) + SectorSize - 1)' :
                        Expected(call)'[a] = call'.before[a],
                      NEW a \in (SectorOf(w) .. SectorOf(w) + SectorSize - 1)'
               PROVE  flash'[a] = call'.before[a]
  BY DEF RewriteKeepsSector
<1>2. /\ par' = par /\ call'.op = call.op /\ call'.off = call.off /\ call'.data = call.data
      /\ call'.before = call.before /\ call'.home = call.home
      /\ \/ flash' = flash
         \/ pc \in {"erase", "program"} /\ \A b \in Words : b \notin Sector => flash'[b] = flash[b]
  BY <1>1 DEF Kept
<1>3. AtHome /\ Expected(call)' = Expected(call) BY <1>1, <1>2, SameQuestion
<1>4. Words' = Words /\ SectorSize' = SectorSize /\ \A b : SectorOf(b)' = SectorOf(b)
  BY <1>2, Geometry
<1>5. PICK s \in Nat, n \in Nat \ {0}, v \in Nat :
        s = SectorOf(w) /\ n = SectorSize /\ s % n = 0 /\ v = w /\ v < Total /\ s <= v
  BY <1>4, SectorOfFacts, Sizes, WordsAre DEF Core, Basic, TypeOK
<1>6. SectorOf(w)' = s BY <1>4, <1>5
<1>7. /\ \A b \in s .. s + n - 1 : Expected(call)[b] = call.before[b]
      /\ a \in s .. s + n - 1
  BY <1>1, <1>2, <1>3, <1>4, <1>5, <1>6
<1>8. flash[a] = call.before[a]
  <2>1. call.status = "RUNNING" BY DEF Core, Basic, TypeOK
  <2>2. s \in {SectorOf(b) : b \in Words} BY <1>4, <1>5
  <2> QED BY <1>1, <1>2, <1>3, <1>5, <1>7, <2>1, <2>2 DEF RewriteKeepsSector
<1>9. flash'[a] = flash[a]
  <2>1. CASE flash' = flash BY <2>1
  <2>2. CASE pc \in {"erase", "program"} /\ \A b \in Words : b \notin Sector => flash'[b] = flash[b]
    <3>1. PICK start \in Nat :
            /\ start = SectorStart /\ Sector = start .. start + n - 1
            /\ start % n = 0
      BY <1>3, <1>5, <2>2, InSector
    <3>2. PICK x \in Sector : Expected(call)[x] # call.before[x]
      BY <1>1, <1>2, <1>3, <2>2 DEF Core, SectorInv
    <3>3. start # s BY <1>7, <3>1, <3>2
    <3>4. a \in Nat /\ s <= a /\ a < s + n BY <1>7
    <3>5. a \in Words
      <4>1. PICK total \in Nat : total = Total BY WordsAre DEF Core
      <4>2. s < Total BY <1>5, <4>1
      <4>3. s + n <= Total BY <1>5, <4>2, SectorWords DEF Core, Basic, TypeOK
      <4>4. a < total BY <3>4, <4>3, <4>1
      <4> QED BY <3>4, <4>1, <4>4, WordsAre DEF Core
    <3>6. a \notin Sector
      <4>1. SUFFICES ASSUME a \in Sector PROVE FALSE OBVIOUS
      <4>2. start <= a /\ a < start + n BY <3>1, <4>1
      <4>3. SectorOf(a) = start
        BY <1>5, <3>1, <3>4, <4>2, SectorWords DEF Core, Basic, TypeOK
      <4>4. SectorOf(a) = s BY <1>5, <3>4, SectorWords DEF Core, Basic, TypeOK
      <4> QED BY <3>3, <4>3, <4>4
    <3> QED BY <2>2, <3>5, <3>6
  <2> QED BY <1>2, <2>1, <2>2
<1> QED BY <1>2, <1>8, <1>9

\* A new call: nothing has changed yet.
LEMMA RiskBegin ==
  ASSUME Core, Core', NEW op, NEW off, NEW data, Begin(op, off, data)
  PROVE  OneSectorAtRisk' /\ RewriteKeepsSector'
<1>1. RewriteKeepsSector'
  <2>1. call'.before = flash /\ flash' = flash BY DEF Begin
  <2> QED BY <2>1 DEF RewriteKeepsSector
<1>2. OneSectorAtRisk'
  <2>1. CASE pc' = "idle"
    <3>1. call'.status = "INVALID" BY <2>1 DEF Begin
    <3> QED BY <3>1 DEF OneSectorAtRisk
  <2>2. CASE pc' # "idle"
    <3>1. (Core /\ pc # "idle" => OneSectorAtRisk)' BY RiskRunning, PTL
    <3> QED BY <2>2, <3>1
  <2> QED BY <2>1, <2>2
<1> QED BY <1>1, <1>2

\* The inductive step of what an interruption can cost.
LEMMA RiskStep ==
  ASSUME Core, Core', OneSectorAtRisk, RewriteKeepsSector, [Next]_vars
  PROVE  OneSectorAtRisk' /\ RewriteKeepsSector'
<1>1. CASE CallErase \/ CallWrite
  <2>1. PICK op, off, data : Begin(op, off, data) BY <1>1 DEF CallErase, CallWrite
  <2> QED BY <2>1, RiskBegin
<1>2. CASE Step \/ OutOfMemory \/ PowerLoss
  <2>1. Kept /\ pc # "idle" BY <1>2, StepKeeps
  <2> QED BY <2>1, RiskKept, RewriteKept
<1>3. CASE UNCHANGED vars
  <2>1. par' = par /\ flash' = flash /\ call' = call BY <1>3 DEF vars
  <2>2. (AtHome' <=> AtHome) /\ Expected(call)' = Expected(call)
        /\ Unverified(call)' = Unverified(call)
    BY <2>1, SameQuestion
  <2>3. Words' = Words /\ SectorSize' = SectorSize /\ \A a : SectorOf(a)' = SectorOf(a)
    BY <2>1, Geometry
  <2>4. {SectorOf(a) : a \in Words}' = {SectorOf(a) : a \in Words} BY <2>3
  <2>5. OneSectorAtRisk' BY <2>1, <2>2, <2>3, <2>4 DEF OneSectorAtRisk
  <2>6. RewriteKeepsSector' BY <2>1, <2>2, <2>3, <2>4 DEF RewriteKeepsSector
  <2> QED BY <2>5, <2>6
<1> QED BY <1>1, <1>2, <1>3 DEF Next, Finished

\* The loop ends only when nothing is left.
LEMMA DoneStep ==
  ASSUME Core, Core', SuccessMeansDone, [Next]_vars
  PROVE  SuccessMeansDone'
<1>1. CASE LoopDone
  <2>1. /\ pc = "loop" /\ cur.data = <<>> /\ par' = par /\ flash' = flash
        /\ Return("SUCCESS")
    BY <1>1 DEF LoopDone
  <2>2. "SUCCESS" \in Statuses BY DEF Statuses
  <2>3. /\ call'.op = call.op /\ call'.off = call.off /\ call'.data = call.data
        /\ call'.before = call.before /\ call'.home = call.home
    BY <2>1, <2>2, KeptReturn
  <2>4. (AtHome' <=> AtHome) /\ Expected(call)' = Expected(call)
        /\ Unverified(call)' = Unverified(call)
    BY <2>1, <2>3, SameQuestion
  <2>5. Words' = Words BY <2>1, Geometry
  <2>6. ASSUME AtHome, NEW a \in Words \ Unverified(call) PROVE flash[a] = Expected(call)[a]
    <3>1. PICK p \in Nat : p = call.off + Len(call.data) /\ p = Position
      <4>1. PICK o \in Nat, k \in Nat : o = call.off /\ k = Len(call.data)
        BY CallFacts DEF Core, Basic
      <4>2. Len(cur.data) = 0 BY <2>1
      <4>3. Position = o + k BY <4>1, <4>2 DEF Position
      <4> QED BY <4>1, <4>3
    <3>2. Between(p, p) BY <2>1, <2>6, <3>1 DEF Core, LoopInv
    <3>3. a \in Nat BY WordsAre DEF Core
    <3>4. CASE a < p BY <3>2, <3>4 DEF Between
    <3>5. CASE a >= p
      <4>1. a \notin Asked(call) /\ Expected(call)[a] = call.before[a]
        BY <2>1, <2>6, <3>1, <3>5, ExpectedFacts DEF Core
      <4> QED BY <3>2, <3>5, <4>1 DEF Between
    <3> QED BY <3>3, <3>4, <3>5
  <2> QED BY <2>1, <2>4, <2>5, <2>6 DEF SuccessMeansDone
<1>2. CASE UNCHANGED vars
  <2>1. par' = par /\ flash' = flash /\ call' = call BY <1>2 DEF vars
  <2>2. (AtHome' <=> AtHome) /\ Expected(call)' = Expected(call)
        /\ Unverified(call)' = Unverified(call)
    BY <2>1, SameQuestion
  <2>3. Words' = Words BY <2>1, Geometry
  <2> QED BY <2>1, <2>2, <2>3 DEF SuccessMeansDone
<1>3. CASE ~LoopDone /\ ~UNCHANGED vars
  <2>1. CASE pc' # "idle"
    <3>1. call'.status = "RUNNING" BY <2>1 DEF Core, Basic, TypeOK
    <3> QED BY <3>1 DEF SuccessMeansDone
  <2>2. CASE pc' = "idle"
    <3>1. call'.status # "SUCCESS"
      <4>1. CASE CallErase \/ CallWrite
        <5>1. PICK op, off, data : Begin(op, off, data) BY <4>1 DEF CallErase, CallWrite
        <5>2. call'.status = "INVALID" BY <2>2, <5>1 DEF Begin
        <5> QED BY <5>2
      <4>2. CASE Step \/ OutOfMemory \/ PowerLoss
        <5>1. pc # "idle" BY <4>2, StepKeeps
        <5>2. PICK status \in Statuses \ {"SUCCESS"} : Return(status)
          BY <1>3, <2>2, <4>2, <5>1
            DEF Step, SkipSector, SaveSector, SectorErase, ProgramSkip, BufferWrite, SectorDone,
                NextJob, OutOfMemory, PowerLoss, Statuses
        <5> QED BY <5>2, KeptReturn
      <4> QED BY <1>3, <4>1, <4>2 DEF Next, Finished
    <3> QED BY <3>1 DEF SuccessMeansDone
  <2> QED BY <2>1, <2>2
<1> QED BY <1>1, <1>2, <1>3

\* Whatever the geometry of the flash, the buffers and the points at which
\* commands fail or power is lost: only one sector of an Erase or Write
\* can have lost data, and a Write leaves the sectors alone that hold what
\* it asks for.
THEOREM SectorsCorrect == Spec => []SectorsAtRisk
<1>1. Init => Core /\ OneSectorAtRisk /\ RewriteKeepsSector
  BY CoreInit DEF Init, NoCall, OneSectorAtRisk, RewriteKeepsSector
<1>2. Core /\ OneSectorAtRisk /\ RewriteKeepsSector /\ [Next]_vars
        => (Core /\ OneSectorAtRisk /\ RewriteKeepsSector)'
  BY CoreStep, RiskStep
<1>3. Core /\ OneSectorAtRisk /\ RewriteKeepsSector => SectorsAtRisk
  BY DEF Core, Basic, SectorsAtRisk
<1> QED BY <1>1, <1>2, <1>3, PTL DEF Spec

\* An Erase or Write that returns EFI_SUCCESS has done what was asked, and
\* nothing else, if its addresses are right (AtHome).
THEOREM SuccessCorrect == Spec => []SuccessMeansDone
<1>1. Init => Core /\ SuccessMeansDone
  BY CoreInit DEF Init, NoCall, SuccessMeansDone
<1>2. Core /\ SuccessMeansDone /\ [Next]_vars => (Core /\ SuccessMeansDone)'
  BY CoreStep, DoneStep
<1> QED BY <1>1, <1>2, PTL DEF Spec

================================================================================
