---------------------------- MODULE Lan91x_proofs ----------------------------
\* Proofs about Lan91x, for any memory of the controller, any chips with
\* any PHYs, and any traffic: the packet memory, the order of what is sent
\* and received, the registers, and the promise of SimpleNetwork.
EXTENDS Lan91x, SequenceTheorems, WellFoundedInduction, TLAPS

(* ------------------------------- sequences ----------------------------- *)

\* The elements of a sequence after an element has come or gone.
LEMMA TailFacts ==
  ASSUME NEW S, NEW q \in Seq(S), q # <<>>
  PROVE  /\ Head(q) \in S /\ Head(q) = q[1] /\ 1 \in DOMAIN q
         /\ Tail(q) \in Seq(S)
         /\ \A i \in DOMAIN Tail(q) : i + 1 \in DOMAIN q /\ Tail(q)[i] = q[i + 1]
         /\ \A i \in DOMAIN q : i # 1 => i - 1 \in DOMAIN Tail(q) /\ Tail(q)[i - 1] = q[i]
<1>1. Head(q) \in S /\ Tail(q) \in Seq(S) /\ Len(Tail(q)) = Len(q) - 1 BY HeadTailProperties
<1>2. Len(q) \in Nat /\ Len(q) # 0 /\ DOMAIN q = 1 .. Len(q) OBVIOUS
<1>3. Head(q) = q[1] /\ 1 \in DOMAIN q BY <1>2
<1>4. DOMAIN Tail(q) = 1 .. Len(q) - 1 BY <1>1
<1>5. \A i \in 1 .. Len(q) - 1 : Tail(q)[i] = q[i + 1] OBVIOUS
<1>6. \A i \in DOMAIN Tail(q) : i + 1 \in DOMAIN q /\ Tail(q)[i] = q[i + 1]
  BY <1>2, <1>4, <1>5
<1>7. ASSUME NEW i \in DOMAIN q, i # 1
      PROVE  i - 1 \in DOMAIN Tail(q) /\ Tail(q)[i - 1] = q[i]
  <2>1. i - 1 \in 1 .. Len(q) - 1 /\ (i - 1) + 1 = i BY <1>2, <1>7
  <2> QED BY <2>1, <1>4, <1>5
<1> QED BY <1>1, <1>3, <1>6, <1>7

LEMMA AppendFacts ==
  ASSUME NEW S, NEW q \in Seq(S), NEW e \in S
  PROVE  /\ Append(q, e) \in Seq(S)
         /\ DOMAIN Append(q, e) = DOMAIN q \cup {Len(q) + 1}
         /\ Len(q) + 1 \notin DOMAIN q
         /\ \A i \in DOMAIN q : Append(q, e)[i] = q[i] /\ i < Len(q) + 1
         /\ Append(q, e)[Len(q) + 1] = e
  OBVIOUS

LEMMA MembersAppend ==
  ASSUME NEW S, NEW q \in Seq(S), NEW e \in S
  PROVE  Members(Append(q, e)) = Members(q) \cup {e}
  BY AppendFacts DEF Members

\* A sequence stays ascending if its new element is above all others.
LEMMA AscendingAppend ==
  ASSUME NEW q \in Seq(Nat), NEW e \in Nat, Ascending(q), \A i \in DOMAIN q : q[i] < e
  PROVE  Ascending(Append(q, e))
<1> SUFFICES ASSUME NEW i \in DOMAIN Append(q, e), NEW j \in DOMAIN Append(q, e), i < j
             PROVE  Append(q, e)[i] < Append(q, e)[j]
  BY DEF Ascending
<1>1. i \in DOMAIN q BY AppendFacts
<1>2. CASE j \in DOMAIN q BY <1>1, <1>2, AppendFacts DEF Ascending
<1>3. CASE j = Len(q) + 1 BY <1>1, <1>3, AppendFacts
<1> QED BY <1>2, <1>3, AppendFacts

(* ------------------------------- the queues ---------------------------- *)

TxPacket == [page : Memory, pkt : Nat]
RxPacket == [page : Memory, pkt : Nat, ok : BOOLEAN]
Packets(q) == {q[i].pkt : i \in DOMAIN q}

\* No page twice; the packets in ascending order.
Apart(q) == \A i, j \in DOMAIN q : i # j => q[i].page # q[j].page
InOrder(q) == \A i, j \in DOMAIN q : i < j => q[i].pkt < q[j].pkt

\* A packet that is queued.
LEMMA QueueAppend ==
  ASSUME NEW S, S \in {TxPacket, RxPacket}, NEW q \in Seq(S), NEW e \in S
  PROVE  /\ Append(q, e) \in Seq(S)
         /\ Used(Append(q, e)) = Used(q) \cup {e.page}
         /\ Packets(Append(q, e)) = Packets(q) \cup {e.pkt}
         /\ Apart(q) /\ e.page \notin Used(q) => Apart(Append(q, e))
         /\ InOrder(q) /\ (\A i \in DOMAIN q : q[i].pkt < e.pkt) => InOrder(Append(q, e))
<1> DEFINE r == Append(q, e)
<1>1. /\ r \in Seq(S) /\ DOMAIN r = DOMAIN q \cup {Len(q) + 1} /\ Len(q) + 1 \notin DOMAIN q
      /\ \A i \in DOMAIN q : r[i] = q[i] /\ i < Len(q) + 1
      /\ r[Len(q) + 1] = e
  BY AppendFacts
<1>2. DOMAIN q \subseteq Nat /\ Len(q) + 1 \in Nat OBVIOUS
<1> HIDE DEF r
<1>3. Used(r) = Used(q) \cup {e.page} BY <1>1 DEF Used
<1>4. Packets(r) = Packets(q) \cup {e.pkt} BY <1>1 DEF Packets
<1>5. ASSUME Apart(q), e.page \notin Used(q) PROVE Apart(r)
  BY <1>1, <1>5 DEF Apart, Used
<1>6. ASSUME InOrder(q), \A i \in DOMAIN q : q[i].pkt < e.pkt PROVE InOrder(r)
  <2> SUFFICES ASSUME NEW i \in DOMAIN r, NEW j \in DOMAIN r, i < j
               PROVE  r[i].pkt < r[j].pkt
    BY DEF InOrder
  <2>1. i \in DOMAIN q BY <1>1, <1>2
  <2>2. CASE j \in DOMAIN q BY <2>1, <2>2, <1>1, <1>6 DEF InOrder
  <2>3. CASE j = Len(q) + 1 BY <2>1, <2>3, <1>1, <1>6
  <2> QED BY <2>2, <2>3, <1>1
<1> QED BY <1>1, <1>3, <1>4, <1>5, <1>6 DEF r

\* The first packet leaves.
LEMMA QueueTail ==
  ASSUME NEW S, S \in {TxPacket, RxPacket}, NEW q \in Seq(S), q # <<>>
  PROVE  /\ Tail(q) \in Seq(S) /\ Head(q) \in S
         /\ Used(q) = Used(Tail(q)) \cup {Head(q).page}
         /\ Packets(q) = Packets(Tail(q)) \cup {Head(q).pkt}
         /\ Apart(q) => Apart(Tail(q)) /\ Head(q).page \notin Used(Tail(q))
         /\ InOrder(q) => /\ InOrder(Tail(q))
                          /\ \A i \in DOMAIN Tail(q) : Head(q).pkt < Tail(q)[i].pkt
         /\ \E i \in DOMAIN q : q[i] = Head(q)
         /\ \A i \in DOMAIN Tail(q) : \E j \in DOMAIN q : Tail(q)[i] = q[j]
<1> DEFINE r == Tail(q)
           h == Head(q)
<1>1. /\ h \in S /\ h = q[1] /\ 1 \in DOMAIN q /\ r \in Seq(S)
      /\ \A i \in DOMAIN r : i + 1 \in DOMAIN q /\ r[i] = q[i + 1]
      /\ \A i \in DOMAIN q : i # 1 => i - 1 \in DOMAIN r /\ r[i - 1] = q[i]
  BY TailFacts
<1> HIDE DEF r, h
<1>2. \A i \in DOMAIN r : i \in Nat /\ i + 1 \in Nat /\ i + 1 # 1 /\ 1 < i + 1
  BY <1>1
<1>8. \A i \in DOMAIN q : i = 1 \/ \E j \in DOMAIN r : r[j] = q[i] BY <1>1
<1>9. \A j \in DOMAIN r : \E i \in DOMAIN q : r[j] = q[i] BY <1>1
<1>3. Used(q) = Used(r) \cup {h.page}
  <2>1. ASSUME NEW x \in Used(q) PROVE x \in Used(r) \cup {h.page}
    <3>1. PICK i \in DOMAIN q : x = q[i].page BY DEF Used
    <3>2. CASE i = 1 BY <3>1, <3>2, <1>1
    <3>3. CASE i # 1
      <4>1. PICK j \in DOMAIN r : r[j] = q[i] BY <1>8, <3>3
      <4> QED BY <3>1, <4>1 DEF Used
    <3> QED BY <3>2, <3>3
  <2>2. Used(r) \subseteq Used(q) BY <1>9 DEF Used
  <2>3. h.page \in Used(q) BY <1>1 DEF Used
  <2> QED BY <2>1, <2>2, <2>3
<1>4. Packets(q) = Packets(r) \cup {h.pkt}
  <2>1. ASSUME NEW x \in Packets(q) PROVE x \in Packets(r) \cup {h.pkt}
    <3>1. PICK i \in DOMAIN q : x = q[i].pkt BY DEF Packets
    <3>2. CASE i = 1 BY <3>1, <3>2, <1>1
    <3>3. CASE i # 1
      <4>1. PICK j \in DOMAIN r : r[j] = q[i] BY <1>8, <3>3
      <4> QED BY <3>1, <4>1 DEF Packets
    <3> QED BY <3>2, <3>3
  <2>2. Packets(r) \subseteq Packets(q) BY <1>9 DEF Packets
  <2>3. h.pkt \in Packets(q) BY <1>1 DEF Packets
  <2> QED BY <2>1, <2>2, <2>3
<1>5. ASSUME Apart(q) PROVE Apart(r) /\ h.page \notin Used(r)
  <2>1. \A i, j \in DOMAIN r : i # j => i + 1 # j + 1 BY <1>2
  <2>2. Apart(r) BY <2>1, <1>1, <1>5 DEF Apart
  <2>3. h.page \notin Used(r) BY <1>1, <1>2, <1>5 DEF Apart, Used
  <2> QED BY <2>2, <2>3
<1>6. ASSUME InOrder(q)
      PROVE  InOrder(r) /\ \A i \in DOMAIN r : h.pkt < r[i].pkt
  <2>1. \A i, j \in DOMAIN r : i < j => i + 1 < j + 1 BY <1>2
  <2>2. InOrder(r) BY <2>1, <1>1, <1>6 DEF InOrder
  <2>3. \A i \in DOMAIN r : h.pkt < r[i].pkt BY <1>1, <1>2, <1>6 DEF InOrder
  <2> QED BY <2>2, <2>3
<1>7. \A i \in DOMAIN r : \E j \in DOMAIN q : r[i] = q[j] BY <1>1
<1> QED BY <1>1, <1>3, <1>4, <1>5, <1>6, <1>7 DEF r, h

(* --------------------------- the packet memory ------------------------- *)

Pages == Memory \cup {NoPage}
Commands ==
  {c \in [op : {"none", "alloc", "push", "pop"}, page : Pages, pkt : Nat] :
     /\ c.op = "push" <=> c.page # NoPage
     /\ c.op # "push" => c.pkt = 0}
Nics ==
  [free : SUBSET Memory, txq : Seq(TxPacket), rxq : Seq(RxPacket), mmu : Commands,
   alloc : {"none", "asked", "done", "failed"}, arr : Pages]

\* What a command leaves behind.
Executes(n, c, e) ==
  /\ e \in Nics /\ e.mmu = NoCommand
  /\ \/ /\ c.op = "push" /\ e.txq = Append(n.txq, [page |-> c.page, pkt |-> c.pkt])
        /\ e.free = n.free /\ e.rxq = n.rxq /\ e.alloc = n.alloc /\ e.arr = n.arr
     \/ /\ c.op = "alloc" /\ e.alloc = "asked" /\ e.arr = NoPage
        /\ e.free = n.free /\ e.rxq = n.rxq /\ e.txq = n.txq
     \/ /\ c.op = "pop" /\ n.rxq # <<>>
        /\ e.rxq = Tail(n.rxq) /\ e.free = n.free \cup {Head(n.rxq).page}
        /\ e.txq = n.txq /\ e.alloc = n.alloc /\ e.arr = n.arr
     \/ /\ c.op = "none" \/ (c.op = "pop" /\ n.rxq = <<>>)
        /\ e.free = n.free /\ e.rxq = n.rxq /\ e.txq = n.txq
        /\ e.alloc = n.alloc /\ e.arr = n.arr

LEMMA NoCommandType == NoCommand \in Commands BY DEF NoCommand, Commands, Pages

LEMMA PushType ==
  ASSUME ConstantsOK, NEW p \in Memory, NEW k \in Nat
  PROVE  [op |-> "push", page |-> p, pkt |-> k] \in Commands
<1>1. p # NoPage BY DEF ConstantsOK, NoPage
<1> QED BY <1>1 DEF Commands, Pages

LEMMA CommandType ==
  ASSUME NEW o \in {"alloc", "pop"}
  PROVE  /\ Command(o) \in Commands /\ Command(o).op = o
         /\ Command(o).page = NoPage /\ Command(o).pkt = 0
<1>1. Command(o) = [op |-> o, page |-> NoPage, pkt |-> 0] BY DEF Command, NoCommand
<1> QED BY <1>1 DEF Commands, Pages

LEMMA ExecuteFacts ==
  ASSUME NEW n \in Nics, NEW c \in Commands
  PROVE  Executes(n, c, Execute(n, c))
<1>0. PICK e : e = Execute(n, c) OBVIOUS
<1>1. PICK done : done = [n EXCEPT !.mmu = NoCommand] OBVIOUS
<1>2. /\ done \in Nics /\ done.mmu = NoCommand /\ done.free = n.free /\ done.txq = n.txq
      /\ done.rxq = n.rxq /\ done.alloc = n.alloc /\ done.arr = n.arr
  BY <1>1, NoCommandType DEF Nics
<1>3. c.op \in {"none", "alloc", "push", "pop"} /\ c.page \in Pages /\ c.pkt \in Nat
      /\ (c.op = "push" => c.page \in Memory)
  BY DEF Commands, Pages
<1>4. n.txq \in Seq(TxPacket) /\ n.rxq \in Seq(RxPacket) /\ n.free \subseteq Memory
  BY DEF Nics
<1>5. CASE c.op = "push"
  <2>1. e = [done EXCEPT !.txq = Append(@, [page |-> c.page, pkt |-> c.pkt])]
    BY <1>0, <1>1, <1>5 DEF Execute
  <2>2. [page |-> c.page, pkt |-> c.pkt] \in TxPacket BY <1>3, <1>5 DEF TxPacket
  <2>3. Append(n.txq, [page |-> c.page, pkt |-> c.pkt]) \in Seq(TxPacket)
    BY <1>4, <2>2, AppendFacts
  <2>4. e \in Nics BY <1>2, <2>1, <2>3 DEF Nics
  <2>5. /\ e.txq = Append(n.txq, [page |-> c.page, pkt |-> c.pkt]) /\ e.mmu = NoCommand
        /\ e.free = n.free /\ e.rxq = n.rxq /\ e.alloc = n.alloc /\ e.arr = n.arr
    BY <1>2, <2>1 DEF Nics
  <2> QED BY <1>0, <1>5, <2>4, <2>5 DEF Executes
<1>6. CASE c.op = "alloc"
  <2>1. e = [done EXCEPT !.alloc = "asked", !.arr = NoPage]
    BY <1>0, <1>1, <1>6 DEF Execute
  <2>2. e \in Nics BY <1>2, <2>1 DEF Nics, Pages
  <2>3. /\ e.alloc = "asked" /\ e.arr = NoPage /\ e.mmu = NoCommand
        /\ e.free = n.free /\ e.rxq = n.rxq /\ e.txq = n.txq
    BY <1>2, <2>1 DEF Nics
  <2> QED BY <1>0, <1>6, <2>2, <2>3 DEF Executes
<1>7. CASE c.op = "pop" /\ n.rxq # <<>>
  <2>1. e = [done EXCEPT !.rxq = Tail(@), !.free = @ \cup {Head(n.rxq).page}]
    BY <1>0, <1>1, <1>7 DEF Execute
  <2>2. Head(n.rxq) \in RxPacket /\ Tail(n.rxq) \in Seq(RxPacket) BY <1>4, <1>7, TailFacts
  <2>3. Head(n.rxq).page \in Memory BY <2>2 DEF RxPacket
  <2>4. e \in Nics BY <1>2, <1>4, <2>1, <2>2, <2>3 DEF Nics
  <2>5. /\ e.rxq = Tail(n.rxq) /\ e.free = n.free \cup {Head(n.rxq).page}
        /\ e.txq = n.txq /\ e.alloc = n.alloc /\ e.arr = n.arr /\ e.mmu = NoCommand
    BY <1>2, <2>1 DEF Nics
  <2> QED BY <1>0, <1>7, <2>4, <2>5 DEF Executes
<1>8. CASE c.op = "none" \/ (c.op = "pop" /\ n.rxq = <<>>)
  <2>1. e = done BY <1>0, <1>1, <1>8 DEF Execute
  <2> QED BY <1>0, <1>2, <1>8, <2>1 DEF Executes
<1>9. \/ c.op = "push" \/ c.op = "alloc" \/ (c.op = "pop" /\ n.rxq # <<>>)
      \/ c.op = "none" \/ (c.op = "pop" /\ n.rxq = <<>>)
  BY <1>3
<1> QED BY <1>5, <1>6, <1>7, <1>8, <1>9

\* Every page is in one place: free, in a FIFO, granted, in somebody's
\* hands (the call's, or a pending command's) or leaked.
Split(F, T, R, G, H, L) ==
  /\ F \cup T \cup R \cup G \cup H \cup L = Memory
  /\ F \cap T = {} /\ F \cap R = {} /\ F \cap G = {} /\ F \cap H = {} /\ F \cap L = {}
  /\ T \cap R = {} /\ T \cap G = {} /\ T \cap H = {} /\ T \cap L = {}
  /\ R \cap G = {} /\ R \cap H = {} /\ R \cap L = {}
  /\ G \cap H = {} /\ G \cap L = {} /\ H \cap L = {}
Only(p) == {p} \ {NoPage}
Whole(n, hand, leaked) ==
  /\ Split(n.free, Used(n.txq), Used(n.rxq), Only(n.arr), hand, leaked)
  /\ Apart(n.txq) /\ Apart(n.rxq)
  /\ n.arr # NoPage <=> n.alloc = "done"

\* A command moves pages, and loses none but the grant it forgets.
LEMMA ExecuteWhole ==
  ASSUME ConstantsOK, NEW n \in Nics, NEW c \in Commands, NEW hand, NEW leaked,
         Whole(n, hand, leaked), c.page # NoPage => c.page \in hand
  PROVE  Whole(Execute(n, c), hand \ Only(c.page), leaked \cup Forgotten(n, c))
<1>0. PICK e : e = Execute(n, c) OBVIOUS
<1>1. Executes(n, c, e) BY <1>0, ExecuteFacts
<1>2. n.txq \in Seq(TxPacket) /\ n.rxq \in Seq(RxPacket) BY DEF Nics
<1>3. c.page \in Pages /\ (c.op = "push" <=> c.page # NoPage) BY DEF Commands
<1>4. NoPage \notin Memory BY DEF ConstantsOK, NoPage
<1>5. CASE c.op = "push"
  <2>1. PICK x : x = [page |-> c.page, pkt |-> c.pkt] OBVIOUS
  <2>2. x \in TxPacket /\ x.page = c.page
    BY <2>1, <1>3, <1>5 DEF TxPacket, Commands, Pages
  <2>3. e.txq = Append(n.txq, x) /\ e.free = n.free /\ e.rxq = n.rxq
        /\ e.alloc = n.alloc /\ e.arr = n.arr
    BY <1>1, <1>5, <2>1 DEF Executes
  <2>4. Forgotten(n, c) = {} BY <1>5 DEF Forgotten
  <2>5. c.page \notin Used(n.txq) BY <1>3, <1>5 DEF Whole, Split
  <2>6. /\ Used(e.txq) = Used(n.txq) \cup {c.page}
        /\ Apart(e.txq)
    BY <1>2, <2>2, <2>3, <2>5, QueueAppend DEF Whole
  <2>7. Only(c.page) = {c.page} BY <1>3, <1>5 DEF Only
  <2>8. Split(e.free, Used(e.txq), Used(e.rxq), Only(e.arr), hand \ Only(c.page), leaked)
    BY <1>3, <1>5, <2>3, <2>6, <2>7 DEF Whole, Split
  <2> QED BY <1>0, <2>3, <2>4, <2>6, <2>8 DEF Whole
<1>6. CASE c.op = "alloc"
  <2>1. e.alloc = "asked" /\ e.arr = NoPage
        /\ e.free = n.free /\ e.rxq = n.rxq /\ e.txq = n.txq
    BY <1>1, <1>6 DEF Executes
  <2>2. Forgotten(n, c) = Only(n.arr) /\ Only(c.page) = {} /\ Only(e.arr) = {}
    BY <1>3, <1>6, <2>1 DEF Forgotten, Only
  <2>3. Split(e.free, Used(e.txq), Used(e.rxq), {}, hand \ {}, leaked \cup Only(n.arr))
    BY <2>1 DEF Whole, Split
  <2> QED BY <1>0, <2>1, <2>2, <2>3 DEF Whole
<1>7. CASE c.op = "pop" /\ n.rxq # <<>>
  <2>1. e.rxq = Tail(n.rxq) /\ e.free = n.free \cup {Head(n.rxq).page}
        /\ e.txq = n.txq /\ e.alloc = n.alloc /\ e.arr = n.arr
    BY <1>1, <1>7 DEF Executes
  <2>2. Forgotten(n, c) = {} /\ Only(c.page) = {} BY <1>3, <1>7 DEF Forgotten, Only
  <2>3. /\ Used(n.rxq) = Used(e.rxq) \cup {Head(n.rxq).page}
        /\ Apart(e.rxq) /\ Head(n.rxq).page \notin Used(e.rxq)
    BY <1>2, <1>7, <2>1, QueueTail DEF Whole
  <2>4. Split(e.free, Used(e.txq), Used(e.rxq), Only(e.arr), hand \ {}, leaked)
    BY <2>1, <2>3 DEF Whole, Split
  <2> QED BY <1>0, <2>1, <2>2, <2>3, <2>4 DEF Whole
<1>8. CASE c.op = "none" \/ (c.op = "pop" /\ n.rxq = <<>>)
  <2>1. e.free = n.free /\ e.rxq = n.rxq /\ e.txq = n.txq
        /\ e.alloc = n.alloc /\ e.arr = n.arr
    BY <1>1, <1>8 DEF Executes
  <2>2. Forgotten(n, c) = {} /\ Only(c.page) = {} BY <1>3, <1>8 DEF Forgotten, Only
  <2> QED BY <1>0, <2>1, <2>2 DEF Whole
<1>9. \/ c.op = "push" \/ c.op = "alloc" \/ (c.op = "pop" /\ n.rxq # <<>>)
      \/ c.op = "none" \/ (c.op = "pop" /\ n.rxq = <<>>)
  BY DEF Commands
<1> QED BY <1>5, <1>6, <1>7, <1>8, <1>9

(* ---------------------------- what is sent ----------------------------- *)

\* Sent, then queued, in ascending order and all below the limit.
Out(n, sent, limit) ==
  /\ sent \in Seq(Nat) /\ Ascending(sent) /\ InOrder(n.txq)
  /\ \A i \in DOMAIN sent : sent[i] < limit
  /\ \A i \in DOMAIN sent, j \in DOMAIN n.txq : sent[i] < n.txq[j].pkt
  /\ \A j \in DOMAIN n.txq : n.txq[j].pkt < limit
Pending(c) == IF c.op = "push" THEN {c.pkt} ELSE {}

LEMMA OutRaise ==
  ASSUME NEW n \in Nics, NEW sent, NEW k \in Nat, NEW m \in Nat, k <= m, Out(n, sent, k)
  PROVE  Out(n, sent, m)
<1>1. sent \in Seq(Nat) /\ n.txq \in Seq(TxPacket) BY DEF Out, Nics
<1>2. \A i \in DOMAIN sent : sent[i] \in Nat BY <1>1
<1>3. ASSUME NEW j \in DOMAIN n.txq PROVE n.txq[j].pkt \in Nat
  <2>1. n.txq[j] \in TxPacket BY <1>1
  <2> QED BY <2>1 DEF TxPacket
<1>4. \A i \in DOMAIN sent : sent[i] < m BY <1>2 DEF Out
<1>5. \A j \in DOMAIN n.txq : n.txq[j].pkt < m BY <1>3 DEF Out
<1> QED BY <1>4, <1>5 DEF Out

\* A push queues its packet behind all others.
LEMMA ExecuteOut ==
  ASSUME NEW n \in Nics, NEW c \in Commands, NEW sent, NEW k \in Nat, Out(n, sent, k),
         c.op = "push" => k <= c.pkt
  PROVE  /\ Out(Execute(n, c), sent, IF c.op = "push" THEN c.pkt + 1 ELSE k)
         /\ Packets(Execute(n, c).txq) = Packets(n.txq) \cup Pending(c)
<1>0. PICK e : e = Execute(n, c) OBVIOUS
<1>1. Executes(n, c, e) BY <1>0, ExecuteFacts
<1>2. n.txq \in Seq(TxPacket) BY DEF Nics
<1>3. CASE c.op = "push"
  <2>1. PICK x : x = [page |-> c.page, pkt |-> c.pkt] OBVIOUS
  <2>2. c.page \in Memory /\ c.pkt \in Nat BY <1>3 DEF Commands, Pages
  <2>3. x \in TxPacket /\ x.pkt = c.pkt BY <2>1, <2>2 DEF TxPacket
  <2>4. e.txq = Append(n.txq, x) BY <1>1, <1>3, <2>1 DEF Executes
  <2>5. Out(n, sent, c.pkt) BY <1>3, <2>2, OutRaise
  <2>6. \A i \in DOMAIN n.txq : n.txq[i].pkt < x.pkt BY <2>3, <2>5 DEF Out
  <2>13. InOrder(n.txq) BY DEF Out
  <2>7. Packets(e.txq) = Packets(n.txq) \cup {c.pkt} /\ InOrder(e.txq)
    BY <1>2, <2>3, <2>4, <2>6, <2>13, QueueAppend
  <2>8. \A j \in DOMAIN e.txq : (j \in DOMAIN n.txq /\ e.txq[j] = n.txq[j]) \/ e.txq[j] = x
    BY <1>2, <2>3, <2>4, AppendFacts
  <2>9. Out(n, sent, c.pkt + 1) BY <2>2, <2>5, OutRaise
  <2>10. \A i \in DOMAIN sent, j \in DOMAIN e.txq : sent[i] < e.txq[j].pkt
    BY <2>3, <2>5, <2>8 DEF Out
  <2>11. \A j \in DOMAIN e.txq : e.txq[j].pkt < c.pkt + 1
    BY <2>2, <2>3, <2>8, <2>9 DEF Out
  <2>12. Out(e, sent, c.pkt + 1) BY <2>7, <2>9, <2>10, <2>11 DEF Out
  <2> QED BY <1>0, <1>3, <2>7, <2>12 DEF Pending
<1>4. CASE c.op # "push"
  <2>1. e.txq = n.txq BY <1>1, <1>4 DEF Executes
  <2> QED BY <1>0, <1>4, <2>1 DEF Out, Pending
<1> QED BY <1>3, <1>4

\* The first packet goes from the queue to the record of what was sent.
LEMMA SendOut ==
  ASSUME NEW n \in Nics, NEW e, NEW sent, NEW k \in Nat, Out(n, sent, k),
         n.txq # <<>>, e.txq = Tail(n.txq)
  PROVE  /\ Out(e, Append(sent, Head(n.txq).pkt), k)
         /\ Members(Append(sent, Head(n.txq).pkt)) \cup Packets(e.txq)
              = Members(sent) \cup Packets(n.txq)
<1>1. PICK p : p = Head(n.txq).pkt OBVIOUS
<1>2. n.txq \in Seq(TxPacket) /\ sent \in Seq(Nat) BY DEF Nics, Out
<1>3. /\ Head(n.txq) \in TxPacket
      /\ Packets(n.txq) = Packets(e.txq) \cup {p}
      /\ InOrder(e.txq) /\ \A i \in DOMAIN e.txq : p < e.txq[i].pkt
      /\ \E i \in DOMAIN n.txq : n.txq[i] = Head(n.txq)
      /\ \A i \in DOMAIN e.txq : \E j \in DOMAIN n.txq : e.txq[i] = n.txq[j]
  BY <1>1, <1>2, QueueTail DEF Out
<1>4. p \in Nat BY <1>1, <1>3 DEF TxPacket
<1>5. p < k BY <1>1, <1>3 DEF Out
<1>6. \A i \in DOMAIN sent : sent[i] < p BY <1>1, <1>3 DEF Out
<1>7. PICK s : s = Append(sent, p) OBVIOUS
<1>8. s \in Seq(Nat) /\ Ascending(s) BY <1>2, <1>4, <1>6, <1>7, AscendingAppend DEF Out
<1>9. \A i \in DOMAIN s : (i \in DOMAIN sent /\ s[i] = sent[i]) \/ s[i] = p
  BY <1>2, <1>4, <1>7, AppendFacts
<1>10. \A i \in DOMAIN s : s[i] < k BY <1>5, <1>9 DEF Out
<1>11. \A i \in DOMAIN sent, j \in DOMAIN e.txq : sent[i] < e.txq[j].pkt BY <1>3 DEF Out
<1>12. \A i \in DOMAIN s, j \in DOMAIN e.txq : s[i] < e.txq[j].pkt BY <1>3, <1>9, <1>11
<1>13. \A j \in DOMAIN e.txq : e.txq[j].pkt < k BY <1>3 DEF Out
<1>14. Out(e, s, k) BY <1>3, <1>8, <1>10, <1>12, <1>13 DEF Out
<1>15. Members(s) = Members(sent) \cup {p}
  <2>1. sent \in Seq(Nat) BY <1>2
  <2>2. Members(Append(sent, p)) = Members(sent) \cup {p} BY <1>4, <2>1, MembersAppend
  <2> QED BY <1>7, <2>2
<1> QED BY <1>1, <1>3, <1>7, <1>14, <1>15

(* --------------------------- what is received -------------------------- *)

\* The queue of what arrived, in ascending order.
Came(q, rx, good) ==
  /\ q \in Seq(RxPacket) /\ InOrder(q)
  /\ \A i \in DOMAIN q : q[i].pkt <= rx /\ (q[i].ok => q[i].pkt \in good)

\* The client's packets, then the queue; what is good is here, there or lost.
Handed(q, got, good, lost, rx) ==
  /\ Ascending(got) /\ Members(got) \subseteq good
  /\ \A i \in DOMAIN got : got[i] <= rx
  /\ \A i \in DOMAIN got, j \in DOMAIN q : got[i] < q[j].pkt
  /\ good \subseteq Members(got) \cup lost \cup Packets(q)

LEMMA CameTail ==
  ASSUME NEW q, NEW rx, NEW good, Came(q, rx, good), q # <<>>
  PROVE  Came(Tail(q), rx, good)
<1>1. q \in Seq(RxPacket) BY DEF Came
<1>2. /\ Tail(q) \in Seq(RxPacket) /\ InOrder(Tail(q))
      /\ \A i \in DOMAIN Tail(q) : \E j \in DOMAIN q : Tail(q)[i] = q[j]
  BY <1>1, QueueTail DEF Came
<1> QED BY <1>2 DEF Came

LEMMA CameAppend ==
  ASSUME NEW q, NEW rx \in Nat, NEW good, Came(q, rx, good), NEW ok \in BOOLEAN, NEW p \in Memory
  PROVE  Came(Append(q, [page |-> p, pkt |-> rx + 1, ok |-> ok]), rx + 1,
              IF ok THEN good \cup {rx + 1} ELSE good)
<1>1. PICK x : x = [page |-> p, pkt |-> rx + 1, ok |-> ok] OBVIOUS
<1>2. x \in RxPacket /\ x.pkt = rx + 1 /\ x.ok = ok BY <1>1 DEF RxPacket
<1>3. q \in Seq(RxPacket) BY DEF Came
<1>4. ASSUME NEW i \in DOMAIN q PROVE q[i].pkt \in Nat
  <2>1. q[i] \in RxPacket BY <1>3
  <2> QED BY <2>1 DEF RxPacket
<1>5. \A i \in DOMAIN q : q[i].pkt < x.pkt /\ q[i].pkt <= rx + 1 BY <1>2, <1>4 DEF Came
<1>6. Append(q, x) \in Seq(RxPacket) /\ InOrder(Append(q, x))
  BY <1>2, <1>3, <1>5, QueueAppend DEF Came
<1>7. PICK r : r = Append(q, x) OBVIOUS
<1>8. PICK g : g = IF ok THEN good \cup {rx + 1} ELSE good OBVIOUS
<1>9. \A i \in DOMAIN r : (i \in DOMAIN q /\ r[i] = q[i]) \/ r[i] = x
  BY <1>2, <1>3, <1>7, AppendFacts
<1>10. \A i \in DOMAIN q : q[i].ok => q[i].pkt \in g BY <1>8 DEF Came
<1>11. x.ok => x.pkt \in g BY <1>2, <1>8
<1>12. rx + 1 <= rx + 1 OBVIOUS
<1>13. \A i \in DOMAIN r : r[i].pkt <= rx + 1 /\ (r[i].ok => r[i].pkt \in g)
  BY <1>2, <1>5, <1>9, <1>10, <1>11, <1>12
<1> QED BY <1>1, <1>6, <1>7, <1>8, <1>13 DEF Came

\* A packet arrives.
LEMMA HandedArrives ==
  ASSUME NEW q, NEW rx \in Nat, NEW good, NEW got \in Seq(Nat), NEW lost,
         Came(q, rx, good), Handed(q, got, good, lost, rx),
         NEW ok \in BOOLEAN, NEW p \in Memory
  PROVE  Handed(Append(q, [page |-> p, pkt |-> rx + 1, ok |-> ok]), got,
                IF ok THEN good \cup {rx + 1} ELSE good, lost, rx + 1)
<1>1. PICK x : x = [page |-> p, pkt |-> rx + 1, ok |-> ok] OBVIOUS
<1>2. x \in RxPacket /\ x.pkt = rx + 1 /\ x.ok = ok BY <1>1 DEF RxPacket
<1>3. q \in Seq(RxPacket) BY DEF Came
<1>4. PICK r : r = Append(q, x) OBVIOUS
<1>5. PICK g : g = IF ok THEN good \cup {rx + 1} ELSE good OBVIOUS
<1>6. Packets(r) = Packets(q) \cup {rx + 1} BY <1>2, <1>3, <1>4, QueueAppend
<1>7. \A i \in DOMAIN r : (i \in DOMAIN q /\ r[i] = q[i]) \/ r[i] = x
  BY <1>2, <1>3, <1>4, AppendFacts
<1>8. \A i \in DOMAIN got : got[i] \in Nat /\ got[i] <= rx BY DEF Handed
<1>9. \A i \in DOMAIN got : got[i] <= rx + 1 /\ got[i] < x.pkt BY <1>2, <1>8
<1>10. \A i \in DOMAIN got, j \in DOMAIN r : got[i] < r[j].pkt BY <1>7, <1>9 DEF Handed
<1>11. Members(got) \subseteq g BY <1>5 DEF Handed
<1>12. g \subseteq Members(got) \cup lost \cup Packets(r) BY <1>5, <1>6 DEF Handed
<1>13. Handed(r, got, g, lost, rx + 1) BY <1>9, <1>10, <1>11, <1>12 DEF Handed
<1> QED BY <1>1, <1>4, <1>5, <1>13

\* The first packet of the queue goes to the client if it is good, or is lost.
LEMMA HandedTaken ==
  ASSUME NEW q, NEW rx \in Nat, NEW good, NEW got \in Seq(Nat), NEW lost,
         Came(q, rx, good), Handed(q, got, good, lost, rx), q # <<>>
  PROVE  /\ Head(q).ok => Handed(Tail(q), Append(got, Head(q).pkt), good, lost, rx)
         /\ Handed(Tail(q), got, good, lost \cup {Head(q).pkt}, rx)
<1>1. PICK p : p = Head(q).pkt OBVIOUS
<1>2. q \in Seq(RxPacket) BY DEF Came
<1>3. PICK r : r = Tail(q) OBVIOUS
<1>4. /\ Head(q) \in RxPacket
      /\ Packets(q) = Packets(r) \cup {p}
      /\ \A i \in DOMAIN r : p < r[i].pkt
      /\ \E i \in DOMAIN q : q[i] = Head(q)
      /\ \A i \in DOMAIN r : \E j \in DOMAIN q : r[i] = q[j]
  BY <1>1, <1>2, <1>3, QueueTail DEF Came
<1>5. p \in Nat /\ p <= rx /\ (Head(q).ok => p \in good) BY <1>1, <1>4 DEF Came, RxPacket
<1>6. \A i \in DOMAIN got : got[i] < p BY <1>1, <1>4 DEF Handed
<1>7. \A i \in DOMAIN got, j \in DOMAIN r : got[i] < r[j].pkt BY <1>4 DEF Handed
<1>8. Handed(r, got, good, lost \cup {p}, rx)
  <2>1. good \subseteq Members(got) \cup (lost \cup {p}) \cup Packets(r)
    BY <1>4 DEF Handed
  <2> QED BY <1>7, <2>1 DEF Handed
<1>9. ASSUME Head(q).ok PROVE Handed(r, Append(got, p), good, lost, rx)
  <2>1. PICK s : s = Append(got, p) OBVIOUS
  <2>2. Ascending(s) BY <1>5, <1>6, <2>1, AscendingAppend DEF Handed
  <2>3. \A i \in DOMAIN s : (i \in DOMAIN got /\ s[i] = got[i]) \/ s[i] = p
    BY <1>5, <2>1, AppendFacts
  <2>4. Members(s) = Members(got) \cup {p} BY <1>5, <2>1, MembersAppend
  <2>5. \A i \in DOMAIN s : s[i] <= rx BY <1>5, <2>3 DEF Handed
  <2>6. \A i \in DOMAIN s, j \in DOMAIN r : s[i] < r[j].pkt BY <1>4, <1>7, <2>3
  <2>7. Members(s) \subseteq good BY <1>5, <1>9, <2>4 DEF Handed
  <2>8. good \subseteq Members(s) \cup lost \cup Packets(r) BY <1>4, <2>4 DEF Handed
  <2> QED BY <2>1, <2>2, <2>5, <2>6, <2>7, <2>8 DEF Handed
<1> QED BY <1>1, <1>3, <1>8, <1>9

(* ------------------------------ registers ------------------------------ *)

Parts == UNION {m.chips : m \in Bounds}
Bits ==
  {"TXENA", "PAD_EN", "STRIP_CRC", "RXEN", "SOFT_RST", "EPH_POWER_EN", "NO_WAIT",
   "AUTO_REL", "RESERVED", "PRMS", "ALMUL"}
Names == SUBSET Bits
Tables == SUBSET (Nat \X Nat)
Abilities ==
  {"CSMA"} \cup UNION {UNION {part.phys[a].STATUS : a \in DOMAIN part.phys} : part \in Parts}

\* IAR holds an address, MT bits of the table, the others named bits.
OfType(r, v) ==
  CASE r = "IAR" -> v \in Nat
    [] r = "MT" -> v \in Tables
    [] OTHER -> v \in Names
Values == Nat \cup Tables \cup Names
Registers == {f \in [DOMAIN Bank -> Values] : \A r \in DOMAIN Bank : OfType(r, f[r])}

Chips ==
  [part : Parts, state : {"new", "ready", "failed"}, bank : 0 .. 3,
   BankSel : (0 .. 3) \cup {255}, reg : Registers, astray : BOOLEAN,
   PhyAd : -1 .. 31, advert : SUBSET Abilities, Permanent : Nat, Current : Nat,
   ReceiveFilterSetting : SUBSET DOMAIN RcrBit]

LEMMA BankFacts ==
  /\ DOMAIN Bank = {"TCR", "RCR", "CR", "IAR", "CTR", "MMUCR", "IST", "MT", "MGMT", "REV"}
  /\ \A r \in DOMAIN Bank : Bank[r] \in 0 .. 3
  /\ Bank["TCR"] = 0 /\ Bank["RCR"] = 0 /\ Bank["REV"] = 3
<1>1. DOMAIN Bank = {"TCR", "RCR", "CR", "IAR", "CTR", "MMUCR", "IST", "MT", "MGMT", "REV"}
  BY DEF Bank
<1>2. /\ Bank["TCR"] = 0 /\ Bank["RCR"] = 0 /\ Bank["CR"] = 1 /\ Bank["IAR"] = 1
      /\ Bank["CTR"] = 1 /\ Bank["MMUCR"] = 2 /\ Bank["IST"] = 2 /\ Bank["MT"] = 3
      /\ Bank["MGMT"] = 3 /\ Bank["REV"] = 3
  BY DEF Bank
<1>3. \A r \in DOMAIN Bank : Bank[r] \in 0 .. 3 BY <1>1, <1>2
<1> QED BY <1>1, <1>2, <1>3

LEMMA RegisterFacts ==
  ASSUME NEW f \in Registers
  PROVE  /\ f["IAR"] \in Nat /\ f["MT"] \in Tables
         /\ f["RCR"] \in Names /\ f["CR"] \in Names
         /\ f["CTR"] \in Names
<1>1. \A r \in DOMAIN Bank : OfType(r, f[r]) BY DEF Registers
<1> QED BY <1>1, BankFacts DEF OfType

Updated(f, r, v, g) ==
  /\ g \in Registers /\ g[r] = v
  /\ \A s \in DOMAIN Bank : s # r => g[s] = f[s]

LEMMA RegisterUpdate ==
  ASSUME NEW f \in Registers, NEW r \in DOMAIN Bank, NEW v, OfType(r, v)
  PROVE  Updated(f, r, v, [f EXCEPT ![r] = v])
<1>5. PICK g : g = [f EXCEPT ![r] = v] OBVIOUS
<1>1. v \in Values
  <2>1. CASE r = "IAR" BY <2>1 DEF OfType, Values
  <2>2. CASE r = "MT" BY <2>2 DEF OfType, Values
  <2>3. CASE r # "IAR" /\ r # "MT"
    <3>1. v \in Names BY <2>3 DEF OfType
    <3> QED BY <3>1 DEF Values
  <2> QED BY <2>1, <2>2, <2>3
<1>2. f \in [DOMAIN Bank -> Values] /\ \A s \in DOMAIN Bank : OfType(s, f[s])
  BY DEF Registers
<1>3. /\ g \in [DOMAIN Bank -> Values] /\ g[r] = v
      /\ \A s \in DOMAIN Bank : s # r => g[s] = f[s]
  BY <1>1, <1>2, <1>5
<1>4. \A s \in DOMAIN Bank : OfType(s, g[s]) BY <1>2, <1>3
<1> QED BY <1>3, <1>4, <1>5 DEF Registers, Updated

\* What the driver keeps of the chip besides its registers.
SameSoft(c, d) ==
  /\ d.part = c.part /\ d.state = c.state /\ d.PhyAd = c.PhyAd /\ d.advert = c.advert
  /\ d.Permanent = c.Permanent /\ d.Current = c.Current
  /\ d.ReceiveFilterSetting = c.ReceiveFilterSetting

\* No access went astray, and the bank remembered is the one selected.
InBank(c) == c.astray = FALSE /\ c.BankSel = c.bank

\* A read, and the write of a register that decides nothing.
Touched(c, d) ==
  /\ d \in Chips /\ InBank(d) /\ SameSoft(c, d)
  /\ d.reg["IAR"] = c.reg["IAR"] /\ d.reg["MT"] = c.reg["MT"] /\ d.reg["RCR"] = c.reg["RCR"]
Wrote(c, r, v, d) ==
  /\ d \in Chips /\ InBank(d) /\ SameSoft(c, d)
  /\ d.bank = Bank[r] /\ d.reg = [c.reg EXCEPT ![r] = v] /\ d.reg \in Registers
  /\ d.reg["IAR"] = IF r = "IAR" THEN v ELSE c.reg["IAR"]
  /\ d.reg["MT"] = IF r = "MT" THEN v ELSE c.reg["MT"]
  /\ d.reg["RCR"] = IF r = "RCR" THEN v ELSE c.reg["RCR"]

\* The bank is that of the register accessed.
LEMMA ReachFacts ==
  ASSUME NEW c \in Chips, c.astray = FALSE, NEW r \in DOMAIN Bank,
         c.BankSel = Bank[r] => c.bank = Bank[r]
  PROVE  /\ Reach(c, r) \in Chips /\ InBank(Reach(c, r)) /\ SameSoft(c, Reach(c, r))
         /\ Reach(c, r).bank = Bank[r] /\ Reach(c, r).reg = c.reg
<1>1. PICK s : s = SelectIoBank(c, r) OBVIOUS
<1>2. Bank[r] \in 0 .. 3 BY BankFacts
<1>3. /\ s \in Chips /\ s.bank = Bank[r] /\ s.BankSel = Bank[r] /\ s.astray = FALSE
      /\ SameSoft(c, s) /\ s.reg = c.reg
  <2>1. CASE c.BankSel = Bank[r]
    <3>1. s = c BY <1>1, <2>1 DEF SelectIoBank
    <3> QED BY <2>1, <3>1 DEF SameSoft
  <2>2. CASE c.BankSel # Bank[r]
    <3>1. s = [c EXCEPT !.bank = Bank[r], !.BankSel = Bank[r]]
      BY <1>1, <2>2 DEF SelectIoBank
    <3>2. s \in Chips BY <1>2, <3>1 DEF Chips
    <3>3. s.bank = Bank[r] /\ s.BankSel = Bank[r] /\ s.astray = FALSE /\ s.reg = c.reg
      BY <3>1 DEF Chips
    <3>4. SameSoft(c, s) BY <3>1 DEF Chips, SameSoft
    <3> QED BY <3>2, <3>3, <3>4
  <2> QED BY <2>1, <2>2
<1>4. PICK d : d = [s EXCEPT !.astray = FALSE] OBVIOUS
<1>5. Reach(c, r) = d BY <1>1, <1>3, <1>4 DEF Reach
<1>6. d \in Chips BY <1>3, <1>4 DEF Chips
<1>7. d.astray = FALSE /\ d.bank = s.bank /\ d.BankSel = s.BankSel /\ d.reg = s.reg
  BY <1>3, <1>4 DEF Chips
<1>8. SameSoft(s, d) BY <1>3, <1>4 DEF Chips, SameSoft
<1> QED BY <1>3, <1>5, <1>6, <1>7, <1>8 DEF InBank, SameSoft

LEMMA ReadFacts ==
  ASSUME NEW c \in Chips, InBank(c), NEW r \in DOMAIN Bank
  PROVE  Touched(c, ReadIoReg16(c, r)) /\ Touched(c, ReadIoReg8(c, r))
<1>1. c.astray = FALSE /\ (c.BankSel = Bank[r] => c.bank = Bank[r]) BY DEF InBank
<1>2. Touched(c, Reach(c, r)) BY <1>1, ReachFacts DEF Touched
<1> QED BY <1>2 DEF ReadIoReg16, ReadIoReg8

LEMMA WriteFacts ==
  ASSUME NEW c \in Chips, InBank(c), NEW r \in DOMAIN Bank, NEW v, OfType(r, v)
  PROVE  Wrote(c, r, v, WriteIoReg16(c, r, v)) /\ Wrote(c, r, v, WriteIoReg8(c, r, v))
<1>1. c.astray = FALSE /\ (c.BankSel = Bank[r] => c.bank = Bank[r]) BY DEF InBank
<1>2. PICK s : s = Reach(c, r) OBVIOUS
<1>3. s \in Chips /\ InBank(s) /\ SameSoft(c, s) /\ s.bank = Bank[r] /\ s.reg = c.reg
  BY <1>1, <1>2, ReachFacts
<1>4. PICK d : d = [s EXCEPT !.reg[r] = v] OBVIOUS
<1>5. WriteIoReg16(c, r, v) = d /\ WriteIoReg8(c, r, v) = d
  BY <1>2, <1>4 DEF WriteIoReg16, WriteIoReg8
<1>6. c.reg \in Registers BY DEF Chips
<1>7. PICK f : f = [c.reg EXCEPT ![r] = v] OBVIOUS
<1>8. f \in Registers /\ f[r] = v /\ \A t \in DOMAIN Bank : t # r => f[t] = c.reg[t]
  <2>1. Updated(c.reg, r, v, f) BY <1>6, <1>7, RegisterUpdate
  <2> QED BY <2>1 DEF Updated
<1>9. d = [s EXCEPT !.reg = f] BY <1>3, <1>4, <1>7 DEF Chips
<1>10. d \in Chips BY <1>3, <1>8, <1>9 DEF Chips
<1>11. d.reg = f /\ d.bank = s.bank /\ d.BankSel = s.BankSel /\ d.astray = s.astray
  BY <1>3, <1>9 DEF Chips
<1>12. SameSoft(s, d) BY <1>3, <1>9 DEF Chips, SameSoft
<1>13. SameSoft(c, d) BY <1>3, <1>12 DEF SameSoft
<1>14. "IAR" \in DOMAIN Bank /\ "MT" \in DOMAIN Bank /\ "RCR" \in DOMAIN Bank BY BankFacts
<1>15. /\ f["IAR"] = IF r = "IAR" THEN v ELSE c.reg["IAR"]
       /\ f["MT"] = IF r = "MT" THEN v ELSE c.reg["MT"]
       /\ f["RCR"] = IF r = "RCR" THEN v ELSE c.reg["RCR"]
  BY <1>8, <1>14
<1>16. InBank(d) BY <1>3, <1>11 DEF InBank
<1>17. d.bank = Bank[r] /\ d.reg = [c.reg EXCEPT ![r] = v] BY <1>3, <1>7, <1>11
<1>18. Wrote(c, r, v, d) BY <1>8, <1>10, <1>11, <1>13, <1>15, <1>16, <1>17 DEF Wrote
<1> QED BY <1>5, <1>18

\* A write to a register of which the rest of the proof says nothing.
LEMMA TouchFacts ==
  ASSUME NEW c \in Chips, InBank(c), NEW r \in {"TCR", "CR", "CTR", "MMUCR", "IST", "MGMT"},
         NEW v \in Names
  PROVE  Touched(c, WriteIoReg16(c, r, v)) /\ Touched(c, WriteIoReg8(c, r, v))
<1>1. r \in DOMAIN Bank /\ r # "IAR" /\ r # "MT" /\ r # "RCR" BY BankFacts
<1>2. OfType(r, v) BY <1>1 DEF OfType
<1>3. Wrote(c, r, v, WriteIoReg16(c, r, v)) /\ Wrote(c, r, v, WriteIoReg8(c, r, v))
  BY <1>1, <1>2, WriteFacts
<1> QED BY <1>1, <1>3 DEF Wrote, Touched

LEMMA RcrFacts ==
  ASSUME NEW c \in Chips, InBank(c), NEW v \in Names
  PROVE  Wrote(c, "RCR", v, WriteIoReg16(c, "RCR", v))
<1>1. "RCR" \in DOMAIN Bank /\ OfType("RCR", v) BY BankFacts DEF OfType
<1> QED BY <1>1, WriteFacts

\* ChipEnable and ChipDisable write RCR and leave the address and the table.
RcrSet(c, v, d) ==
  /\ d \in Chips /\ InBank(d) /\ SameSoft(c, d)
  /\ d.reg["IAR"] = c.reg["IAR"] /\ d.reg["MT"] = c.reg["MT"] /\ d.reg["RCR"] = v

LEMMA EnableFacts ==
  ASSUME NEW c \in Chips, InBank(c)
  PROVE  RcrSet(c, RCR_DEFAULT, ChipEnable(c)) /\ RcrSet(c, {}, ChipDisable(c))
<1>1. RCR_DEFAULT \in Names /\ TCR_DEFAULT \in Names /\ {} \in Names
  BY DEF RCR_DEFAULT, TCR_DEFAULT, Bits, Names
<1>2. RcrSet(c, RCR_DEFAULT, ChipEnable(c))
  <2>1. PICK d : d = WriteIoReg16(c, "TCR", TCR_DEFAULT) OBVIOUS
  <2>2. Touched(c, d) BY <1>1, <2>1, TouchFacts
  <2>3. d \in Chips /\ InBank(d) BY <2>2 DEF Touched
  <2>4. Wrote(d, "RCR", RCR_DEFAULT, WriteIoReg16(d, "RCR", RCR_DEFAULT))
    BY <1>1, <2>3, RcrFacts
  <2>5. RcrSet(c, RCR_DEFAULT, WriteIoReg16(d, "RCR", RCR_DEFAULT))
    BY <2>2, <2>4 DEF Touched, Wrote, RcrSet, SameSoft
  <2> QED BY <2>1, <2>5 DEF ChipEnable
<1>3. RcrSet(c, {}, ChipDisable(c))
  <2>1. PICK d : d = WriteIoReg16(c, "RCR", {}) OBVIOUS
  <2>2. Wrote(c, "RCR", {}, d) BY <1>1, <2>1, RcrFacts
  <2>3. d \in Chips /\ InBank(d) BY <2>2 DEF Wrote
  <2>4. Touched(d, WriteIoReg16(d, "TCR", {})) BY <1>1, <2>3, TouchFacts
  <2>5. RcrSet(c, {}, WriteIoReg16(d, "TCR", {}))
    BY <2>2, <2>4 DEF Touched, Wrote, RcrSet, SameSoft
  <2> QED BY <2>1, <2>5 DEF ChipDisable
<1> QED BY <1>2, <1>3

(* --------------------------- reset and the PHY ------------------------- *)

\* SoftReset keeps the address, and empties the table and RCR.
ResetTo(c, d) ==
  /\ d \in Chips /\ InBank(d) /\ SameSoft(c, d)
  /\ d.reg["IAR"] = c.reg["IAR"] /\ d.reg["MT"] = {} /\ d.reg["RCR"] = {}

LEMMA PowerOnReset ==
  ASSUME NEW f \in Registers
  PROVE  LET g == [PowerOn EXCEPT !.CR = f["CR"], !.IAR = f["IAR"]] IN
         g \in Registers /\ g["IAR"] = f["IAR"] /\ g["MT"] = {} /\ g["RCR"] = {}
<1>1. /\ "CR" \in DOMAIN Bank /\ "IAR" \in DOMAIN Bank /\ "MT" \in DOMAIN Bank
      /\ "RCR" \in DOMAIN Bank
  BY BankFacts
<1>2. f["IAR"] \in Nat /\ f["CR"] \in Names BY RegisterFacts
<1>3. {} \in Names /\ {} \in Tables /\ 0 \in Nat BY DEF Names, Tables
<1>4. PowerOn \in Registers /\ PowerOn["MT"] = {} /\ PowerOn["RCR"] = {}
  <2>1. \A r \in DOMAIN Bank : OfType(r, PowerOn[r]) BY <1>3 DEF PowerOn, OfType
  <2>2. \A r \in DOMAIN Bank : PowerOn[r] \in Values BY <1>3 DEF PowerOn, Values
  <2>3. PowerOn \in [DOMAIN Bank -> Values] BY <2>2 DEF PowerOn
  <2> QED BY <1>1, <2>1, <2>3 DEF Registers, PowerOn
<1>5. OfType("CR", f["CR"]) /\ OfType("IAR", f["IAR"]) BY <1>2 DEF OfType
<1>6. PICK r \in DOMAIN Bank : r = "CR" BY <1>1
<1>14. PICK v : v = f["CR"] OBVIOUS
<1>15. r \in DOMAIN Bank /\ OfType(r, v) BY <1>5, <1>6, <1>14
<1>7. PICK h : h = [PowerOn EXCEPT ![r] = v] OBVIOUS
<1>8. h \in Registers /\ \A t \in DOMAIN Bank : t # r => h[t] = PowerOn[t]
  <2>1. PowerOn \in Registers BY <1>4
  <2>2. Updated(PowerOn, r, v, h) BY <2>1, <1>7, <1>15, RegisterUpdate
  <2> QED BY <2>2 DEF Updated
<1>9. PICK s \in DOMAIN Bank : s = "IAR" BY <1>1
<1>16. PICK w : w = f["IAR"] OBVIOUS
<1>17. s \in DOMAIN Bank /\ OfType(s, w) BY <1>5, <1>9, <1>16
<1>10. PICK g : g = [h EXCEPT ![s] = w] OBVIOUS
<1>11. /\ g \in Registers /\ g[s] = w
       /\ \A t \in DOMAIN Bank : t # s => g[t] = h[t]
  <2>1. h \in Registers BY <1>8
  <2>2. Updated(h, s, w, g) BY <2>1, <1>10, <1>17, RegisterUpdate
  <2> QED BY <2>2 DEF Updated
<1>12. g["MT"] = {} /\ g["RCR"] = {} /\ g["IAR"] = f["IAR"]
  BY <1>1, <1>4, <1>6, <1>8, <1>9, <1>11, <1>16
<1>13. g = [PowerOn EXCEPT !.CR = f["CR"], !.IAR = f["IAR"]] BY <1>6, <1>7, <1>9, <1>10, <1>14, <1>16
<1> QED BY <1>11, <1>12, <1>13

LEMMA SoftResetFacts ==
  ASSUME NEW c \in Chips, InBank(c)
  PROVE  ResetTo(c, SoftReset(c))
<1>0. /\ {"SOFT_RST"} \in Names /\ {} \in Names /\ {"EPH_POWER_EN", "NO_WAIT"} \in Names
      /\ {"AUTO_REL"} \in Names
  BY DEF Names, Bits
<1>1. PICK a : a = WriteIoReg16(c, "RCR", {"SOFT_RST"}) OBVIOUS
<1>2. Wrote(c, "RCR", {"SOFT_RST"}, a) BY <1>0, <1>1, RcrFacts
<1>3. a \in Chips /\ a.bank = 0 /\ InBank(a) /\ SameSoft(c, a) /\ a.reg["IAR"] = c.reg["IAR"]
      /\ a.reg \in Registers
  BY <1>2, BankFacts DEF Wrote
<1>4. PICK g : g = [PowerOn EXCEPT !.CR = a.reg["CR"], !.IAR = a.reg["IAR"]] OBVIOUS
<1>5. g \in Registers /\ g["IAR"] = c.reg["IAR"] /\ g["MT"] = {} /\ g["RCR"] = {}
  BY <1>3, <1>4, PowerOnReset
<1>6. PICK b : b = [a EXCEPT !.reg = g, !.bank = 0] OBVIOUS
<1>7. Reset(a) = b BY <1>3, <1>4, <1>6 DEF Reset, Chips
<1>32. 0 \in 0 .. 3 OBVIOUS
<1>33. a \in Chips /\ g \in Registers BY <1>3, <1>5
<1>8. b \in Chips BY <1>6, <1>32, <1>33 DEF Chips
<1>9. b.reg = g /\ b.bank = 0 /\ b.BankSel = a.BankSel /\ b.astray = a.astray
  BY <1>3, <1>6 DEF Chips
<1>10. SameSoft(a, b) BY <1>3, <1>6 DEF Chips, SameSoft
<1>11. ResetTo(c, b) BY <1>3, <1>5, <1>8, <1>9, <1>10 DEF ResetTo, InBank, SameSoft
<1>12. PICK r1 : r1 = WriteIoReg16(b, "RCR", {}) OBVIOUS
<1>13. Wrote(b, "RCR", {}, r1) BY <1>0, <1>11, <1>12, RcrFacts DEF ResetTo
<1>14. ResetTo(c, r1) BY <1>11, <1>13 DEF ResetTo, Wrote, SameSoft
<1>15. PICK config : config = WriteIoReg16(r1, "CR", {"EPH_POWER_EN", "NO_WAIT"}) OBVIOUS
<1>16. Touched(r1, config) BY <1>0, <1>14, <1>15, TouchFacts DEF ResetTo
<1>17. ResetTo(c, config) BY <1>14, <1>16 DEF ResetTo, Touched, SameSoft
<1>18. PICK r2 : r2 = WriteIoReg16(config, "RCR", {}) OBVIOUS
<1>19. Wrote(config, "RCR", {}, r2) BY <1>0, <1>17, <1>18, RcrFacts DEF ResetTo
<1>20. ResetTo(c, r2) BY <1>17, <1>19 DEF ResetTo, Wrote, SameSoft
<1>21. PICK clear : clear = WriteIoReg16(r2, "TCR", {}) OBVIOUS
<1>22. Touched(r2, clear) BY <1>0, <1>20, <1>21, TouchFacts DEF ResetTo
<1>23. ResetTo(c, clear) BY <1>20, <1>22 DEF ResetTo, Touched, SameSoft
<1>24. clear.reg["CTR"] \cup {"AUTO_REL"} \in Names
  <2>1. clear.reg \in Registers BY <1>23 DEF ResetTo, Chips
  <2>2. clear.reg["CTR"] \in Names BY <2>1, RegisterFacts
  <2> QED BY <1>0, <2>2 DEF Names
<1>25. PICK s : s = WriteIoReg16(clear, "CTR", clear.reg["CTR"] \cup {"AUTO_REL"}) OBVIOUS
<1>26. Touched(clear, s) BY <1>23, <1>24, <1>25, TouchFacts DEF ResetTo
<1>27. ResetTo(c, s) BY <1>23, <1>26 DEF ResetTo, Touched, SameSoft
<1>28. "MMUCR" \in DOMAIN Bank BY BankFacts
<1>29. Touched(s, ReadIoReg16(s, "MMUCR")) BY <1>27, <1>28, ReadFacts DEF ResetTo
<1>30. ResetTo(c, ReadIoReg16(s, "MMUCR")) BY <1>27, <1>29 DEF ResetTo, Touched, SameSoft
<1>31. SoftReset(c) = ReadIoReg16(s, "MMUCR")
  BY <1>1, <1>7, <1>12, <1>15, <1>18, <1>21, <1>25 DEF SoftReset
<1> QED BY <1>30, <1>31

LEMMA FourthOfFive ==
  ASSUME NEW S, NEW a1 \in S, NEW a2 \in S, NEW a3 \in S, NEW a4 \in S, NEW a5 \in S
  PROVE  Append(Append(Append(Append(<<a1>>, a2), a3), a4), a5)[4] = a4
<1>1. <<a1>> \in Seq(S) /\ Len(<<a1>>) = 1 OBVIOUS
<1>2. Append(<<a1>>, a2) \in Seq(S) /\ Len(Append(<<a1>>, a2)) = 2 BY <1>1
<1>3. PICK w : w = Append(<<a1>>, a2) OBVIOUS
<1>4. PICK x : x = Append(w, a3) OBVIOUS
<1>5. x \in Seq(S) /\ Len(x) = 3 BY <1>2, <1>3, <1>4
<1>6. PICK y : y = Append(x, a4) OBVIOUS
<1>7. y \in Seq(S) /\ y[Len(x) + 1] = a4 /\ Len(x) + 1 \in DOMAIN y
  BY <1>5, <1>6, AppendFacts
<1>9. Len(x) + 1 = 4 BY <1>5
<1>8. Append(y, a5)[4] = a4 BY <1>7, <1>9, AppendFacts
<1> QED BY <1>3, <1>4, <1>6, <1>8

\* The address of the PHY goes out as the fourth field of the frame.
LEMMA WireFacts ==
  ASSUME NEW op, NEW a \in 0 .. 31, NEW r
  PROVE  PhyFrame(op, a, r)[4].value = a
<1>1. PICK a1 : a1 = [bits |-> 32, value |-> -1] OBVIOUS
<1>2. PICK a2 : a2 = [bits |-> 2, value |-> 1 % (2 ^ 2)] OBVIOUS
<1>3. PICK a3 : a3 = [bits |-> 2, value |-> op % (2 ^ 2)] OBVIOUS
<1>4. PICK a4 : a4 = [bits |-> 5, value |-> a % (2 ^ 5)] OBVIOUS
<1>5. PICK a5 : a5 = [bits |-> 5, value |-> r % (2 ^ 5)] OBVIOUS
<1>6. PICK S : S = {a1, a2, a3, a4, a5} OBVIOUS
<1>7. a1 \in S /\ a2 \in S /\ a3 \in S /\ a4 \in S /\ a5 \in S BY <1>6
<1>8. PhyFrame(op, a, r) = Append(Append(Append(Append(<<a1>>, a2), a3), a4), a5)
  BY <1>1, <1>2, <1>3, <1>4, <1>5 DEF PhyFrame, MdioOutput, Preamble
<1>9. PhyFrame(op, a, r)[4] = a4 BY <1>7, <1>8, FourthOfFive
<1>10. a4.value = a % (2 ^ 5) BY <1>4
<1>11. a % (2 ^ 5) = a OBVIOUS
<1> QED BY <1>9, <1>10, <1>11

\* A register of a PHY that is there; nobody else drives the line.
LEMMA PhyReadFacts ==
  ASSUME NEW c, NEW a \in 0 .. 31, NEW name \in {"ID1", "ID2", "STATUS"}
  PROVE  ReadPhyReg16(c, a, name) =
           IF a \in DOMAIN c.part.phys THEN c.part.phys[a][name] ELSE Absent[name]
<1>1. PhyFrame(READ, a, PhyRegAd[name])[4].value = a BY WireFacts
<1> QED BY <1>1 DEF ReadPhyReg16, MdioInput, Addressed

PhyDetected(c, d) ==
  /\ d \in Chips /\ InBank(d)
  /\ d.PhyAd # LAN91X_NO_PHY => d.PhyAd \in DOMAIN c.part.phys
  /\ d.part = c.part /\ d.state = c.state /\ d.advert = c.advert
  /\ d.Permanent = c.Permanent /\ d.Current = c.Current
  /\ d.ReceiveFilterSetting = c.ReceiveFilterSetting
  /\ d.reg["IAR"] = c.reg["IAR"] /\ d.reg["RCR"] = c.reg["RCR"]

LEMMA IdleFacts ==
  ASSUME NEW c \in Chips, InBank(c)
  PROVE  Touched(c, MdioIdle(c))
<1>1. {} \in Names BY DEF Names
<1> QED BY <1>1, TouchFacts DEF MdioIdle

LEMMA PhyDetectFacts ==
  ASSUME NEW c \in Chips, InBank(c)
  PROVE  PhyDetected(c, PhyDetect(c))
<1>1. PICK found : found = {a \in 0 .. 31 : /\ IdOk(ReadPhyReg16(c, a, "ID1"))
                                            /\ IdOk(ReadPhyReg16(c, a, "ID2"))}
  OBVIOUS
<1>2. \A a \in found : a \in 0 .. 31 /\ a \in DOMAIN c.part.phys
  <2> SUFFICES ASSUME NEW a \in 0 .. 31, IdOk(ReadPhyReg16(c, a, "ID1")),
                      a \notin DOMAIN c.part.phys
               PROVE  FALSE
    BY <1>1
  <2>1. ReadPhyReg16(c, a, "ID1") = Absent["ID1"] BY PhyReadFacts
  <2>2. Absent["ID1"] = "ones" BY DEF Absent
  <2> QED BY <2>1, <2>2 DEF IdOk
<1>3. PICK k : k = IF found = {} THEN -1
                   ELSE CHOOSE a \in found : \A b \in found : b <= a
  OBVIOUS
<1>4. found # {} => \E a \in found : \A b \in found : b <= a
  <2> SUFFICES ASSUME found # {} PROVE \E a \in found : \A b \in found : b <= a
    OBVIOUS
  <2>1. PICK T : T = {31 - a : a \in found} OBVIOUS
  <2>2. T \subseteq Nat /\ T # {} BY <1>2, <2>1
  <2>3. IsWellFoundedOn(OpToRel(<, Nat), Nat) BY NatLessThanWellFounded
  <2>4. PICK x \in T : \A y \in T : <<y, x>> \notin OpToRel(<, Nat)
    BY <2>2, <2>3, WFMin
  <2>5. \A y \in T : ~(y < x) BY <2>2, <2>4 DEF OpToRel
  <2>6. PICK a \in found : x = 31 - a BY <2>1
  <2>7. \A b \in found : 31 - b \in T BY <2>1
  <2>8. \A b \in found : b <= a BY <1>2, <2>5, <2>6, <2>7
  <2> QED BY <2>6, <2>8
<1>5. k # LAN91X_NO_PHY => k \in found BY <1>3, <1>4 DEF LAN91X_NO_PHY
<1>6. k \in -1 .. 31 BY <1>2, <1>3, <1>4
<1>7. PICK i : i = MdioIdle(c) OBVIOUS
<1>8. Touched(c, i) BY <1>7, IdleFacts
<1>9. i \in Chips BY <1>8 DEF Touched
<1>10. PICK d : d = [i EXCEPT !.PhyAd = k] OBVIOUS
<1>11. PhyDetect(c) = d BY <1>1, <1>3, <1>7, <1>10 DEF PhyDetect
<1>12. d \in Chips BY <1>6, <1>9, <1>10 DEF Chips
<1>13. /\ d.PhyAd = k /\ d.astray = i.astray /\ d.bank = i.bank /\ d.BankSel = i.BankSel
       /\ d.reg = i.reg /\ d.part = i.part /\ d.state = i.state /\ d.advert = i.advert
       /\ d.Permanent = i.Permanent /\ d.Current = i.Current
       /\ d.ReceiveFilterSetting = i.ReceiveFilterSetting
  BY <1>9, <1>10 DEF Chips
<1>14. PhyDetected(c, d)
  BY <1>2, <1>5, <1>8, <1>12, <1>13 DEF PhyDetected, Touched, InBank, SameSoft
<1> QED BY <1>11, <1>14

(* ---------------------------- PHY and filters -------------------------- *)

\* The PHY is one that answers; what is advertised is what it can do.
PhyOK(c) ==
  /\ c.PhyAd # LAN91X_NO_PHY => c.PhyAd \in DOMAIN c.part.phys
  /\ c.advert # {} => c.advert \ {"CSMA"} \subseteq c.part.phys[c.PhyAd].STATUS

\* A change of what the PHY advertises.
Advertised(c, v, d) ==
  /\ d \in Chips /\ InBank(d) /\ d.part = c.part /\ d.state = c.state /\ d.PhyAd = c.PhyAd
  /\ d.advert = c.advert \/ d.advert = v
  /\ d.Permanent = c.Permanent /\ d.Current = c.Current
  /\ d.ReceiveFilterSetting = c.ReceiveFilterSetting
  /\ d.reg["IAR"] = c.reg["IAR"] /\ d.reg["MT"] = c.reg["MT"] /\ d.reg["RCR"] = c.reg["RCR"]

LEMMA WritePhyFacts ==
  ASSUME NEW c \in Chips, InBank(c), NEW RegAd, NEW v \in SUBSET Abilities
  PROVE  Advertised(c, IF RegAd = 4 THEN v ELSE {}, WritePhyReg16(c, RegAd, v))
<1>1. PICK i : i = MdioIdle(c) OBVIOUS
<1>2. Touched(c, i) BY <1>1, IdleFacts
<1>3. Advertised(c, IF RegAd = 4 THEN v ELSE {}, i)
  BY <1>2 DEF Touched, Advertised, SameSoft
<1>4. PICK w : w = IF RegAd = 4 THEN v ELSE {} OBVIOUS
<1>5. w \in SUBSET Abilities BY <1>4
<1>6. PICK d : d = [i EXCEPT !.advert = w] OBVIOUS
<1>7. i \in Chips BY <1>2 DEF Touched
<1>8. d \in Chips BY <1>5, <1>6, <1>7 DEF Chips
<1>9. /\ d.PhyAd = i.PhyAd /\ d.astray = i.astray /\ d.bank = i.bank /\ d.BankSel = i.BankSel
      /\ d.reg = i.reg /\ d.part = i.part /\ d.state = i.state /\ d.advert = w
      /\ d.Permanent = i.Permanent /\ d.Current = i.Current
      /\ d.ReceiveFilterSetting = i.ReceiveFilterSetting
  BY <1>6, <1>7 DEF Chips
<1>10. Advertised(c, w, d)
  BY <1>2, <1>8, <1>9 DEF Touched, Advertised, SameSoft, InBank
<1>11. WritePhyReg16(c, RegAd, v) = i \/ WritePhyReg16(c, RegAd, v) = d
  BY <1>1, <1>4, <1>6 DEF WritePhyReg16
<1> QED BY <1>3, <1>4, <1>10, <1>11

\* The PHY's reset and its negotiation keep the other registers.
PhySet(c, d) ==
  /\ d \in Chips /\ InBank(d) /\ d.part = c.part /\ d.state = c.state /\ d.PhyAd = c.PhyAd
  /\ d.Permanent = c.Permanent /\ d.Current = c.Current
  /\ d.ReceiveFilterSetting = c.ReceiveFilterSetting
  /\ d.reg["IAR"] = c.reg["IAR"] /\ d.reg["MT"] = c.reg["MT"] /\ d.reg["RCR"] = c.reg["RCR"]
  /\ PhyOK(c) => PhyOK(d)

LEMMA PhyResetFacts ==
  ASSUME NEW c \in Chips, InBank(c)
  PROVE  PhySet(c, PhySoftReset(c))
<1>1. PICK d : d = PhySoftReset(c) OBVIOUS
<1>2. CASE c.PhyAd = LAN91X_NO_PHY
  <2>1. d = c BY <1>1, <1>2 DEF PhySoftReset
  <2> QED BY <1>1, <2>1 DEF PhySet
<1>3. CASE c.PhyAd # LAN91X_NO_PHY
  <2>1. d = WritePhyReg16(c, 0, {"RESET"}) BY <1>1, <1>3 DEF PhySoftReset
  <2>2. d = WritePhyReg16(c, 0, {})
    BY <2>1 DEF WritePhyReg16
  <2>3. {} \in SUBSET Abilities OBVIOUS
  <2>4. Advertised(c, IF 0 = 4 THEN {} ELSE {}, d) BY <2>2, <2>3, WritePhyFacts
  <2>5. PhyOK(c) => PhyOK(d) BY <2>4 DEF Advertised, PhyOK
  <2> QED BY <1>1, <2>4, <2>5 DEF Advertised, PhySet
<1> QED BY <1>2, <1>3

LEMMA NegotiateFacts ==
  ASSUME NEW c \in Chips, InBank(c), PhyOK(c)
  PROVE  PhySet(c, PhyAutoNegotiate(c))
<1>1. PICK d : d = PhyAutoNegotiate(c) OBVIOUS
<1>2. PICK status : status = ReadPhyReg16(c, c.PhyAd, "STATUS") OBVIOUS
<1>3. CASE c.PhyAd = LAN91X_NO_PHY \/ "AUTO_CAP" \notin status
  <2>1. d = c BY <1>1, <1>2, <1>3 DEF PhyAutoNegotiate
  <2> QED BY <1>1, <2>1 DEF PhySet
<1>4. CASE c.PhyAd # LAN91X_NO_PHY /\ "AUTO_CAP" \in status
  <2>1. PICK v : v = {"CSMA"} \cup (status \ {"AUTO_CAP"}) OBVIOUS
  <2>2. d = WritePhyReg16(c, 4, v) BY <1>1, <1>2, <1>4, <2>1 DEF PhyAutoNegotiate
  <2>3. c.PhyAd \in 0 .. 31 BY <1>4 DEF Chips, LAN91X_NO_PHY
  <2>4. c.PhyAd \in DOMAIN c.part.phys BY <1>4 DEF PhyOK
  <2>5. status = c.part.phys[c.PhyAd]["STATUS"] BY <1>2, <2>3, <2>4, PhyReadFacts
  <2>6. c.part \in Parts BY DEF Chips
  <2>7. v \in SUBSET Abilities BY <2>1, <2>4, <2>5, <2>6 DEF Abilities
  <2>8. Advertised(c, IF 4 = 4 THEN v ELSE {}, d) BY <2>2, <2>7, WritePhyFacts
  <2>9. v \ {"CSMA"} \subseteq c.part.phys[c.PhyAd].STATUS BY <2>1, <2>5
  <2>10. PhyOK(d) BY <2>8, <2>9 DEF Advertised, PhyOK
  <2> QED BY <1>1, <2>8, <2>10 DEF Advertised, PhySet
<1> QED BY <1>3, <1>4

LEMMA RcrBitFacts ==
  /\ DOMAIN RcrBit = {"PROMISCUOUS", "PROMISCUOUS_MULTICAST"}
  /\ RcrBit["PROMISCUOUS"] = "PRMS" /\ RcrBit["PROMISCUOUS_MULTICAST"] = "ALMUL"
  BY DEF RcrBit

(* -------------------------------- probe -------------------------------- *)

\* The chip before and after the probe.
Fresh(c) ==
  /\ c.astray = FALSE /\ c.advert = {} /\ c.ReceiveFilterSetting = {}
  /\ c.reg["RCR"] = {} /\ c.PhyAd = LAN91X_NO_PHY
Probed(c, d) ==
  /\ d \in Chips /\ d.astray = FALSE /\ d.advert = {} /\ d.ReceiveFilterSetting = {}
  /\ d.reg["RCR"] = {} /\ d.part = c.part /\ PhyOK(d)
Attached(c, d) == Probed(c, d) /\ InBank(d) /\ d.reg["IAR"] = d.Current

\* The address is reloaded from the EEPROM and becomes the current one.
LEMMA ReloadFacts ==
  ASSUME ConstantsOK, NEW c \in Chips, InBank(c)
  PROVE  LET d == GetCurrentMacAddress(Reloaded(c)) IN
         /\ d \in Chips /\ InBank(d) /\ d.part = c.part /\ d.state = c.state
         /\ d.PhyAd = c.PhyAd /\ d.advert = c.advert
         /\ d.ReceiveFilterSetting = c.ReceiveFilterSetting
         /\ d.Current = d.reg["IAR"]
<1>1. c.part.mac \in Nat
  <2>1. c.part \in Parts BY DEF Chips
  <2>2. PICK m \in Bounds : c.part \in m.chips BY <2>1 DEF Parts
  <2> QED BY <2>2 DEF ConstantsOK, PartOK
<1>2. PICK r \in DOMAIN Bank : r = "IAR" BY BankFacts
<1>3. PICK v : v = c.part.mac OBVIOUS
<1>4. r \in DOMAIN Bank /\ OfType(r, v) BY <1>1, <1>2, <1>3 DEF OfType
<1>5. PICK f : f = [c.reg EXCEPT ![r] = v] OBVIOUS
<1>6. c.reg \in Registers BY DEF Chips
<1>7. Updated(c.reg, r, v, f) BY <1>4, <1>5, <1>6, RegisterUpdate
<1>8. f \in Registers BY <1>7 DEF Updated
<1>9. PICK a : a = [c EXCEPT !.reg = f] OBVIOUS
<1>10. a \in Chips BY <1>8, <1>9 DEF Chips
<1>11. a.bank = c.bank /\ a.BankSel = c.BankSel /\ a.astray = c.astray BY <1>9 DEF Chips
<1>12. InBank(a) /\ SameSoft(c, a) BY <1>9, <1>11 DEF Chips, InBank, SameSoft
<1>13. a = [c EXCEPT !.reg.IAR = c.part.mac] BY <1>2, <1>3, <1>5, <1>9 DEF Chips
<1>14. {"RESERVED"} \in Names BY DEF Names, Bits
<1>15. PICK b : b = Reloaded(c) OBVIOUS
<1>16. b = WriteIoReg16(a, "CTR", {"RESERVED"}) BY <1>13, <1>15 DEF Reloaded
<1>17. Touched(a, b) BY <1>10, <1>12, <1>14, <1>16, TouchFacts
<1>18. PICK s : s = ReadIoReg8(b, "IAR") OBVIOUS
<1>19. "IAR" \in DOMAIN Bank BY BankFacts
<1>20. Touched(b, s) BY <1>17, <1>18, <1>19, ReadFacts DEF Touched
<1>21. s \in Chips /\ InBank(s) /\ SameSoft(c, s)
  BY <1>12, <1>17, <1>20 DEF Touched, SameSoft
<1>22. s.reg \in Registers BY <1>21 DEF Chips
<1>23. s.reg["IAR"] \in Nat BY <1>22, RegisterFacts
<1>24. PICK d : d = [s EXCEPT !.Permanent = s.reg["IAR"], !.Current = s.reg["IAR"]] OBVIOUS
<1>25. d \in Chips BY <1>21, <1>23, <1>24 DEF Chips
<1>26. /\ d.PhyAd = s.PhyAd /\ d.astray = s.astray /\ d.bank = s.bank /\ d.BankSel = s.BankSel
       /\ d.reg = s.reg /\ d.part = s.part /\ d.state = s.state /\ d.advert = s.advert
       /\ d.Current = s.reg["IAR"] /\ d.ReceiveFilterSetting = s.ReceiveFilterSetting
  BY <1>21, <1>24 DEF Chips
<1>27. GetCurrentMacAddress(Reloaded(c)) = d
  BY <1>15, <1>18, <1>24 DEF GetCurrentMacAddress
<1> QED BY <1>21, <1>25, <1>26, <1>27 DEF InBank, SameSoft

\* A change of the chip's state alone.
LEMMA StateSet ==
  ASSUME NEW c \in Chips, NEW v \in {"ready", "failed"}
  PROVE  LET d == [c EXCEPT !.state = v] IN
         /\ d \in Chips /\ d.state = v /\ d.part = c.part /\ d.bank = c.bank
         /\ d.BankSel = c.BankSel /\ d.reg = c.reg /\ d.astray = c.astray
         /\ d.PhyAd = c.PhyAd /\ d.advert = c.advert /\ d.Permanent = c.Permanent
         /\ d.Current = c.Current /\ d.ReceiveFilterSetting = c.ReceiveFilterSetting
  BY DEF Chips

LEMMA ProbedSet ==
  ASSUME NEW c \in Chips, NEW e, Probed(c, e), NEW v \in {"ready", "failed"}
  PROVE  Probed(c, [e EXCEPT !.state = v]) /\ [e EXCEPT !.state = v].state = v
<1>1. e \in Chips BY DEF Probed
<1>2. PICK d : d = [e EXCEPT !.state = v] OBVIOUS
<1>3. /\ d \in Chips /\ d.state = v /\ d.part = e.part /\ d.bank = e.bank
      /\ d.BankSel = e.BankSel /\ d.reg = e.reg /\ d.astray = e.astray
      /\ d.PhyAd = e.PhyAd /\ d.advert = e.advert /\ d.Permanent = e.Permanent
      /\ d.Current = e.Current /\ d.ReceiveFilterSetting = e.ReceiveFilterSetting
  BY <1>1, <1>2 DEF Chips
<1>4. Probed(c, d) BY <1>3 DEF Probed, PhyOK
<1> QED BY <1>2, <1>3, <1>4

LEMMA AttachedSet ==
  ASSUME NEW c \in Chips, NEW e, Attached(c, e)
  PROVE  Attached(c, [e EXCEPT !.state = "ready"]) /\ [e EXCEPT !.state = "ready"].state = "ready"
<1>1. e \in Chips BY DEF Attached, Probed
<1>2. PICK d : d = [e EXCEPT !.state = "ready"] OBVIOUS
<1>3. /\ d.state = "ready" /\ d.bank = e.bank /\ d.BankSel = e.BankSel /\ d.reg = e.reg
      /\ d.astray = e.astray /\ d.Current = e.Current
  BY <1>1, <1>2 DEF Chips
<1>4. Probed(c, d) BY <1>1, <1>2, ProbedSet DEF Attached
<1> QED BY <1>2, <1>3, <1>4 DEF Attached, InBank

\* Probe ends with the chip ready or given up, and never reads astray.
LEMMA ProbeFacts ==
  ASSUME ConstantsOK, NEW c \in Chips, Fresh(c)
  PROVE  /\ Probed(c, Probe(c)) /\ Probe(c).state \in {"ready", "failed"}
         /\ Probe(c).state = "ready" => Attached(c, Probe(c))
<1>0. PICK d : d = Probe(c) OBVIOUS
<1>1. PICK k : k = [c EXCEPT !.BankSel = 255] OBVIOUS
<1>2. k \in Chips BY <1>1 DEF Chips
<1>3. k.BankSel = 255 /\ k.astray = FALSE /\ k.reg = c.reg BY <1>1 DEF Chips, Fresh
<1>4. SameSoft(c, k) BY <1>1 DEF Chips, SameSoft
<1>5. PICK rev : rev = ReadIoReg16(k, "REV") OBVIOUS
<1>6. rev \in Chips /\ InBank(rev) /\ SameSoft(k, rev) /\ rev.bank = 3 /\ rev.reg = k.reg
  <2>1. "REV" \in DOMAIN Bank /\ Bank["REV"] = 3 BY BankFacts
  <2>2. k.BankSel = Bank["REV"] => k.bank = Bank["REV"] BY <1>3, <2>1
  <2>3. PICK r \in DOMAIN Bank : r = "REV" BY <2>1
  <2>4. /\ Reach(k, r) \in Chips /\ InBank(Reach(k, r)) /\ SameSoft(k, Reach(k, r))
        /\ Reach(k, r).bank = Bank[r] /\ Reach(k, r).reg = k.reg
    BY <1>2, <1>3, <2>2, <2>3, ReachFacts
  <2>5. rev = Reach(k, r) BY <1>5, <2>3 DEF ReadIoReg16
  <2> QED BY <2>1, <2>3, <2>4, <2>5
<1>7. Probed(c, rev)
  BY <1>3, <1>4, <1>6 DEF Probed, Fresh, InBank, SameSoft, PhyOK
<1>8. PICK l : l = GetCurrentMacAddress(Reloaded(rev)) OBVIOUS
<1>9. /\ l \in Chips /\ InBank(l) /\ l.part = rev.part /\ l.state = rev.state
      /\ l.PhyAd = rev.PhyAd /\ l.advert = rev.advert
      /\ l.ReceiveFilterSetting = rev.ReceiveFilterSetting
      /\ l.Current = l.reg["IAR"]
  BY <1>6, <1>8, ReloadFacts
<1>10. PICK c1 : c1 = SoftReset(l) OBVIOUS
<1>11. ResetTo(l, c1) BY <1>9, <1>10, SoftResetFacts
<1>12. c1 \in Chips /\ InBank(c1) BY <1>11 DEF ResetTo
<1>13. Attached(c, c1)
  BY <1>4, <1>6, <1>9, <1>11 DEF ResetTo, Attached, Probed, Fresh, InBank, SameSoft, PhyOK
<1>14. PhyDetected(c1, PhyDetect(c1)) BY <1>12, PhyDetectFacts
<1>15. Attached(c, PhyDetect(c1))
  BY <1>13, <1>14 DEF PhyDetected, Attached, Probed, InBank, PhyOK
<1>16. PICK nophy : nophy = [c1 EXCEPT !.PhyAd = LAN91X_NO_PHY] OBVIOUS
<1>17. Attached(c, nophy)
  <2>1. LAN91X_NO_PHY \in -1 .. 31 BY DEF LAN91X_NO_PHY
  <2>2. nophy \in Chips BY <1>12, <1>16, <2>1 DEF Chips
  <2>3. /\ nophy.PhyAd = LAN91X_NO_PHY /\ nophy.part = c1.part /\ nophy.bank = c1.bank
        /\ nophy.BankSel = c1.BankSel /\ nophy.reg = c1.reg /\ nophy.astray = c1.astray
        /\ nophy.advert = c1.advert /\ nophy.Current = c1.Current
        /\ nophy.ReceiveFilterSetting = c1.ReceiveFilterSetting
    BY <1>12, <1>16 DEF Chips
  <2> QED BY <1>13, <2>2, <2>3 DEF Attached, Probed, InBank, PhyOK
<1>18. PICK noload : noload = WriteIoReg16(rev, "CTR", {"RESERVED"}) OBVIOUS
<1>19. Probed(c, noload)
  <2>1. {"RESERVED"} \in Names BY DEF Names, Bits
  <2>2. Touched(rev, noload) BY <1>6, <1>18, <2>1, TouchFacts
  <2> QED BY <1>7, <2>2 DEF Touched, Probed, InBank, SameSoft, PhyOK
<1>20. \/ d = [rev EXCEPT !.state = "failed"] \/ d = [noload EXCEPT !.state = "failed"]
       \/ d = [PhyDetect(c1) EXCEPT !.state = "ready"]
       \/ d = [nophy EXCEPT !.state = "ready"]
  <2>1. [nophy EXCEPT !.state = "ready"] = [c1 EXCEPT !.state = "ready", !.PhyAd = LAN91X_NO_PHY]
    BY <1>12, <1>16 DEF Chips
  <2> QED BY <1>0, <1>1, <1>5, <1>8, <1>10, <1>18, <2>1 DEF Probe
<1>21. CASE d = [rev EXCEPT !.state = "failed"] BY <1>0, <1>7, <1>21, ProbedSet
<1>22. CASE d = [noload EXCEPT !.state = "failed"] BY <1>0, <1>19, <1>22, ProbedSet
<1>23. CASE d = [PhyDetect(c1) EXCEPT !.state = "ready"]
  BY <1>0, <1>15, <1>23, AttachedSet DEF Attached
<1>24. CASE d = [nophy EXCEPT !.state = "ready"]
  BY <1>0, <1>17, <1>24, AttachedSet DEF Attached
<1> QED BY <1>20, <1>21, <1>22, <1>23, <1>24

(* -------------------------- inductive invariant ------------------------ *)

Drivers ==
  [mode : {"Stopped", "Started", "Initialized"}, MediaPresent : BOOLEAN,
   TransmitQueue : Seq(Nat)]
Calls == [pc : {"idle", "alloc", "push"}, page : Pages]
Histories ==
  [max : Bounds, tx : Nat, rx : Nat, faults : Nat, calls : Nat,
   wanted : SUBSET DOMAIN Hash, filtersLost : BOOLEAN, good : SUBSET Nat,
   got : Seq(Nat), pushed : SUBSET Nat, sent : Seq(Nat), lost : SUBSET Nat,
   late : BOOLEAN, leaked : SUBSET Memory]

Types == drv \in Drivers /\ nic \in Nics /\ call \in Calls /\ hist \in Histories

\* A call holds a page from the grant to the release, and while it runs the
\* MMU has nothing left to do.
CallPart ==
  /\ call.pc = "push" <=> call.page # NoPage
  /\ call.pc # "idle" => nic.mmu = NoCommand

MemoryPart == Whole(nic, Only(call.page) \cup Only(nic.mmu.page), hist.leaked)

\* The number of the next packet to be pushed, or of the one being pushed.
Coming ==
  IF nic.mmu.op = "push" THEN nic.mmu.pkt
  ELSE IF call.pc = "idle" THEN hist.tx + 1 ELSE hist.tx
SendPart ==
  /\ Out(nic, hist.sent, Coming)
  /\ nic.mmu.op = "push" => nic.mmu.pkt <= hist.tx
  /\ hist.pushed \subseteq Members(hist.sent) \cup Packets(nic.txq) \cup Pending(nic.mmu)

ReceivePart ==
  /\ Came(nic.rxq, hist.rx, hist.good)
  /\ nic.mmu.op = "pop" => hist.late
  /\ ~hist.late => Handed(nic.rxq, hist.got, hist.good, hist.lost, hist.rx)

RegisterPart ==
  /\ chip \in Chips /\ chip.astray = FALSE /\ PhyOK(chip)
  /\ chip.state = "ready" => InBank(chip)
  /\ chip.state = "new" => Fresh(chip)

FilterPart ==
  /\ chip.state = "ready" => chip.reg["IAR"] = chip.Current
  /\ chip.state # "ready" => hist.wanted = {}
  /\ \A a \in hist.wanted :
       Hash[a][1] > 3 \/ Hash[a][2] > 3 \/ Hash[a] \in chip.reg["MT"]
  /\ \A f \in DOMAIN RcrBit :
       /\ RcrBit[f] \in chip.reg["RCR"] => f \in chip.ReceiveFilterSetting
       /\ f \in chip.ReceiveFilterSetting =>
            RcrBit[f] \in chip.reg["RCR"] \/ hist.filtersLost

\* Calls need a chip that was found; buffers come back in their order.
ClientPart ==
  /\ chip.state # "ready" => drv.mode = "Stopped"
  /\ call.pc # "idle" => drv.mode = "Initialized"
  /\ Ascending(drv.TransmitQueue)
  /\ \A i \in DOMAIN drv.TransmitQueue :
       /\ drv.TransmitQueue[i] <= hist.tx
       /\ call.pc # "idle" => drv.TransmitQueue[i] < hist.tx

IInv ==
  /\ Types /\ CallPart /\ MemoryPart /\ SendPart /\ ReceivePart
  /\ RegisterPart /\ FilterPart /\ ClientPart

\* A step that leaves packets and memory alone.
SameTraffic ==
  /\ nic' = nic /\ call' = call /\ hist'.tx = hist.tx /\ hist'.rx = hist.rx
  /\ hist'.good = hist.good /\ hist'.got = hist.got /\ hist'.pushed = hist.pushed
  /\ hist'.sent = hist.sent /\ hist'.lost = hist.lost /\ hist'.late = hist.late
  /\ hist'.leaked = hist.leaked

LEMMA QuietStep ==
  ASSUME IInv, SameTraffic
  PROVE  CallPart' /\ MemoryPart' /\ SendPart' /\ ReceivePart'
<1>1. CallPart' BY DEF IInv, SameTraffic, CallPart
<1>2. MemoryPart' BY DEF IInv, SameTraffic, MemoryPart
<1>3. SendPart' BY DEF IInv, SameTraffic, SendPart, Coming
<1>4. ReceivePart' BY DEF IInv, SameTraffic, ReceivePart
<1> QED BY <1>1, <1>2, <1>3, <1>4

SameClient ==
  /\ drv'.mode = drv.mode /\ drv'.TransmitQueue = drv.TransmitQueue
  /\ call'.pc = call.pc /\ hist'.tx = hist.tx

LEMMA ClientStep ==
  ASSUME IInv, SameClient, chip'.state = chip.state
  PROVE  ClientPart'
  BY DEF IInv, SameClient, ClientPart

SameFilters == hist'.wanted = hist.wanted /\ hist'.filtersLost = hist.filtersLost

\* A step that leaves the chip, or only touches it.
LEMMA ChipStays ==
  ASSUME IInv, chip' = chip, SameFilters
  PROVE  RegisterPart' /\ FilterPart'
<1>1. RegisterPart' BY DEF IInv, RegisterPart
<1>2. FilterPart' BY DEF IInv, FilterPart, SameFilters
<1> QED BY <1>1, <1>2

LEMMA ChipTouched ==
  ASSUME IInv, chip.state = "ready", Touched(chip, chip'), SameFilters
  PROVE  RegisterPart' /\ FilterPart' /\ chip'.state = chip.state
<1>1. chip'.state = "ready" BY DEF Touched, SameSoft
<1>2. RegisterPart'
  BY <1>1 DEF IInv, RegisterPart, Touched, SameSoft, InBank, PhyOK
<1>3. FilterPart'
  BY <1>1 DEF IInv, FilterPart, Touched, SameSoft, SameFilters
<1> QED BY <1>1, <1>2, <1>3

\* In a call, and whenever the interface is not stopped, the chip is ready.
LEMMA Ready ==
  ASSUME IInv
  PROVE  /\ drv.mode # "Stopped" => chip.state = "ready"
         /\ call.pc # "idle" => chip.state = "ready" /\ drv.mode = "Initialized"
         /\ chip.state = "ready" => chip \in Chips /\ InBank(chip)
  BY DEF IInv, ClientPart, RegisterPart

LEMMA FaultType ==
  ASSUME NEW h \in Histories
  PROVE  [h EXCEPT !.faults = @ + 1] \in Histories
<1>1. PICK n \in Nat : n = h.faults + 1 BY DEF Histories
<1>2. [h EXCEPT !.faults = n] \in Histories BY DEF Histories
<1> QED BY <1>1, <1>2

(* ----------------------- start, stop and the filters ------------------- *)

LEMMA EntryStep ==
  ASSUME ConstantsOK, IInv, Lan91xDxeEntry
  PROVE  IInv'
<1>1. chip.state = "new" /\ drv' = drv /\ nic' = nic /\ call' = call
  BY DEF Lan91xDxeEntry
<1>2. hist' = hist \/ hist' = [hist EXCEPT !.faults = @ + 1] BY DEF Lan91xDxeEntry
<1>3. hist' \in Histories /\ SameTraffic /\ SameFilters
  <2>1. hist \in Histories BY DEF IInv, Types
  <2>2. hist.faults \in Nat BY <2>1 DEF Histories
  <2>3. hist' \in Histories BY <1>2, <2>1, FaultType
  <2>4. SameTraffic BY <1>1, <1>2, <2>1 DEF Histories, SameTraffic
  <2>5. SameFilters BY <1>1, <1>2, <2>1 DEF Histories, SameFilters
  <2> QED BY <2>3, <2>4, <2>5
<1>4. Types' BY <1>1, <1>3 DEF IInv, Types
<1>5. chip \in Chips /\ Fresh(chip) BY <1>1 DEF IInv, RegisterPart
<1>6. PICK d : d = Probe(chip) OBVIOUS
<1>7. Probed(chip, d) /\ d.state \in {"ready", "failed"} /\ (d.state = "ready" => Attached(chip, d))
  BY <1>5, <1>6, ProbeFacts
<1>8. chip' = d \/ chip' = [d EXCEPT !.state = "failed"] BY <1>6 DEF Lan91xDxeEntry
<1>9. /\ Probed(chip, chip') /\ chip'.state \in {"ready", "failed"}
      /\ chip'.state = "ready" => Attached(chip, chip')
  BY <1>5, <1>7, <1>8, ProbedSet
<1>10. RegisterPart' BY <1>9 DEF RegisterPart, Probed, Attached
<1>11. drv.mode = "Stopped" BY <1>1 DEF IInv, ClientPart
<1>12. ClientPart'
  BY <1>1, <1>3, <1>11 DEF IInv, ClientPart, SameTraffic
<1>13. hist.wanted = {} BY <1>1 DEF IInv, FilterPart
<1>14. FilterPart' BY <1>3, <1>9, <1>13 DEF FilterPart, Probed, Attached, SameFilters
<1>15. CallPart' /\ MemoryPart' /\ SendPart' /\ ReceivePart' BY <1>3, QuietStep
<1> QED BY <1>4, <1>10, <1>12, <1>14, <1>15 DEF IInv

LEMMA StartStep ==
  ASSUME ConstantsOK, IInv, SnpStart
  PROVE  IInv'
<1>1. /\ chip.state = "ready" /\ nic' = nic /\ call' = call /\ chip' = chip /\ hist' = hist
      /\ call.pc = "idle" /\ drv' = [drv EXCEPT !.mode = "Started"]
  BY DEF SnpStart, Idle
<1>2. drv' \in Drivers /\ drv'.TransmitQueue = drv.TransmitQueue
  BY <1>1 DEF IInv, Types, Drivers
<1>3. Types' BY <1>1, <1>2 DEF IInv, Types
<1>4. CallPart' /\ MemoryPart' /\ SendPart' /\ ReceivePart'
  BY <1>1, QuietStep DEF SameTraffic
<1>5. RegisterPart' /\ FilterPart' BY <1>1, ChipStays DEF SameFilters
<1>6. ClientPart' BY <1>1, <1>2 DEF IInv, ClientPart
<1> QED BY <1>3, <1>4, <1>5, <1>6 DEF IInv

\* The chip is disabled: the filters are gone, and that is noted.
LEMMA DisableStep ==
  ASSUME IInv, chip.state = "ready", chip' = ChipDisable(chip), hist' = FiltersGone(hist),
         nic' = nic, call' = call
  PROVE  /\ hist' \in Histories /\ SameTraffic /\ RegisterPart' /\ FilterPart'
         /\ chip'.state = "ready"
<1>1. chip \in Chips /\ InBank(chip) BY DEF IInv, RegisterPart
<1>2. RcrSet(chip, {}, chip') BY <1>1, EnableFacts
<1>3. hist \in Histories BY DEF IInv, Types
<1>4. PICK b \in BOOLEAN : b = (hist.filtersLost \/ chip.ReceiveFilterSetting # {}) OBVIOUS
<1>5. hist' = [hist EXCEPT !.filtersLost = b] BY <1>4 DEF FiltersGone
<1>6. hist' \in Histories BY <1>3, <1>5 DEF Histories
<1>7. SameTraffic BY <1>3, <1>5 DEF Histories, SameTraffic
<1>8. hist'.wanted = hist.wanted /\ hist'.filtersLost = b BY <1>3, <1>5 DEF Histories
<1>9. chip'.state = "ready" BY <1>2 DEF RcrSet, SameSoft
<1>10. RegisterPart'
  BY <1>2, <1>9 DEF IInv, RegisterPart, RcrSet, SameSoft, InBank, PhyOK
<1>11. FilterPart'
  BY <1>2, <1>4, <1>8, <1>9 DEF IInv, FilterPart, RcrSet, SameSoft
<1> QED BY <1>6, <1>7, <1>9, <1>10, <1>11

LEMMA StopStep ==
  ASSUME ConstantsOK, IInv, SnpStop \/ SnpShutdown
  PROVE  IInv'
<1>1. /\ call.pc = "idle" /\ drv.mode # "Stopped" /\ chip' = ChipDisable(chip)
      /\ hist' = FiltersGone(hist) /\ nic' = nic /\ call' = call
      /\ drv' = drv \/ drv' = [drv EXCEPT !.mode = "Stopped"]
  BY DEF SnpStop, SnpShutdown, Idle
<1>2. chip.state = "ready" BY <1>1, Ready
<1>3. /\ hist' \in Histories /\ SameTraffic /\ RegisterPart' /\ FilterPart'
      /\ chip'.state = "ready"
  BY <1>1, <1>2, DisableStep
<1>4. drv' \in Drivers /\ drv'.TransmitQueue = drv.TransmitQueue
  BY <1>1 DEF IInv, Types, Drivers
<1>5. Types' BY <1>1, <1>3, <1>4 DEF IInv, Types
<1>6. CallPart' /\ MemoryPart' /\ SendPart' /\ ReceivePart' BY <1>3, QuietStep
<1>7. ClientPart' BY <1>1, <1>3, <1>4 DEF IInv, ClientPart, SameTraffic
<1> QED BY <1>3, <1>5, <1>6, <1>7 DEF IInv

\* The history when SoftReset has emptied the memory.
LEMMA ClearedFacts ==
  ASSUME IInv
  PROVE  /\ Cleared \in Histories
         /\ Cleared.leaked = {} /\ Cleared.wanted = {}
         /\ Cleared.filtersLost = (hist.filtersLost \/ chip.ReceiveFilterSetting # {})
         /\ Cleared.lost = hist.lost \cup Packets(nic.rxq)
         /\ Cleared.pushed = hist.pushed \ (Packets(nic.txq) \cup {nic.mmu.pkt})
         /\ Cleared.tx = hist.tx /\ Cleared.rx = hist.rx /\ Cleared.good = hist.good
         /\ Cleared.got = hist.got /\ Cleared.sent = hist.sent /\ Cleared.late = hist.late
<1>1. hist \in Histories /\ nic \in Nics BY DEF IInv, Types
<1>2. PICK b \in BOOLEAN : b = (hist.filtersLost \/ chip.ReceiveFilterSetting # {}) OBVIOUS
<1>3. PICK l : l = hist.lost \cup Packets(nic.rxq) OBVIOUS
<1>4. PICK p : p = hist.pushed \ (Packets(nic.txq) \cup {nic.mmu.pkt}) OBVIOUS
<1>5. l \in SUBSET Nat
  <2>1. nic.rxq \in Seq(RxPacket) /\ hist.lost \subseteq Nat BY <1>1 DEF Nics, Histories
  <2>2. \A i \in DOMAIN nic.rxq : nic.rxq[i] \in RxPacket BY <2>1
  <2>3. \A i \in DOMAIN nic.rxq : nic.rxq[i].pkt \in Nat BY <2>2 DEF RxPacket
  <2> QED BY <1>3, <2>1, <2>3 DEF Packets
<1>6. p \in SUBSET Nat BY <1>1, <1>4 DEF Histories
<1>7. PICK g : g = FiltersGone(hist) OBVIOUS
<1>8. g = [hist EXCEPT !.filtersLost = b] BY <1>2, <1>7 DEF FiltersGone
<1>9. g \in Histories BY <1>1, <1>8 DEF Histories
<1>10. /\ g.lost = hist.lost /\ g.pushed = hist.pushed /\ g.filtersLost = b
       /\ g.tx = hist.tx /\ g.rx = hist.rx /\ g.good = hist.good /\ g.got = hist.got
       /\ g.sent = hist.sent /\ g.late = hist.late
  BY <1>1, <1>8 DEF Histories
<1>11. PICK c : c = [g EXCEPT !.leaked = {}, !.wanted = {}, !.lost = l, !.pushed = p] OBVIOUS
<1>12. Cleared = c
  <2>1. Cleared = [g EXCEPT !.leaked = {}, !.wanted = {}, !.lost = g.lost \cup Packets(nic.rxq),
                            !.pushed = g.pushed \ (Packets(nic.txq) \cup {nic.mmu.pkt})]
    BY <1>7, <1>9 DEF Cleared, Packets, Histories
  <2> QED BY <1>3, <1>4, <1>10, <1>11, <2>1
<1>13. c \in Histories BY <1>5, <1>6, <1>9, <1>11 DEF Histories
<1>14. /\ c.leaked = {} /\ c.wanted = {} /\ c.lost = l /\ c.pushed = p
       /\ c.filtersLost = g.filtersLost
       /\ c.tx = g.tx /\ c.rx = g.rx /\ c.good = g.good /\ c.got = g.got
       /\ c.sent = g.sent /\ c.late = g.late
  BY <1>9, <1>11 DEF Histories
<1> QED BY <1>2, <1>3, <1>4, <1>10, <1>12, <1>13, <1>14

\* After the MMU's reset all memory is free and both FIFOs are empty.
LEMMA MmuResetStep ==
  ASSUME ConstantsOK, IInv, call.pc = "idle", call' = call, MmuReset,
         hist' \in Histories, hist'.leaked = {},
         hist'.lost = hist.lost \cup Packets(nic.rxq),
         hist'.pushed = hist.pushed \ (Packets(nic.txq) \cup {nic.mmu.pkt}),
         hist'.tx = hist.tx, hist'.rx = hist.rx, hist'.good = hist.good,
         hist'.got = hist.got, hist'.sent = hist.sent, hist'.late = hist.late
  PROVE  nic' \in Nics /\ CallPart' /\ MemoryPart' /\ SendPart' /\ ReceivePart'
<1>1. nic' = [free |-> Memory, txq |-> <<>>, rxq |-> <<>>,
              mmu |-> NoCommand, alloc |-> "none", arr |-> NoPage]
  BY DEF MmuReset
<1>2. <<>> \in Seq(TxPacket) /\ <<>> \in Seq(RxPacket) OBVIOUS
<1>3. NoPage \in Pages /\ NoCommand \in Commands BY NoCommandType DEF Pages
<1>4. nic' \in Nics BY <1>1, <1>2, <1>3 DEF Nics
<1>5. /\ nic'.free = Memory /\ nic'.txq = <<>> /\ nic'.rxq = <<>> /\ nic'.mmu = NoCommand
      /\ nic'.alloc = "none" /\ nic'.arr = NoPage
  BY <1>1
<1>6. CallPart' BY <1>5 DEF IInv, CallPart
<1>7. NoCommand.page = NoPage /\ NoCommand.op = "none" BY DEF NoCommand
<1>8. \A q : q = <<>> => /\ Used(q) = {} /\ Packets(q) = {} /\ Apart(q) /\ InOrder(q)
                         /\ DOMAIN q = {}
  BY DEF Used, Packets, Apart, InOrder
<1>9. Only(NoPage) = {} BY DEF Only
<1>10. MemoryPart'
  <2>1. call'.page = NoPage BY DEF IInv, CallPart
  <2>2. Split(nic'.free, Used(nic'.txq), Used(nic'.rxq), Only(nic'.arr), {}, {})
    BY <1>5, <1>8, <1>9 DEF Split
  <2> QED BY <1>5, <1>7, <1>8, <1>9, <2>1, <2>2 DEF MemoryPart, Whole
<1>11. SendPart'
  <2>1. Coming' = hist.tx + 1 BY <1>5, <1>7 DEF Coming
  <2>2. hist.tx \in Nat BY DEF IInv, Types, Histories
  <2>3. Coming \in Nat /\ Coming <= hist.tx + 1
    BY <2>2 DEF IInv, Types, Nics, Commands, Coming, SendPart
  <2>4. nic \in Nics BY DEF IInv, Types
  <2>5. Out(nic, hist.sent, hist.tx + 1)
    BY <2>2, <2>3, <2>4, OutRaise DEF IInv, SendPart
  <2>6. Out(nic', hist.sent, hist.tx + 1) BY <1>5, <1>8, <2>5 DEF Out
  <2>7. Pending(nic.mmu) \subseteq {nic.mmu.pkt} BY DEF Pending
  <2>8. hist'.pushed \subseteq Members(hist.sent) BY <2>7 DEF IInv, SendPart
  <2>9. nic'.mmu.op # "push" BY <1>5, <1>7
  <2> QED BY <2>1, <2>6, <2>8, <2>9 DEF SendPart
<1>12. ReceivePart'
  <2>1. Came(nic'.rxq, hist.rx, hist.good) BY <1>2, <1>5, <1>8 DEF Came
  <2>2. ASSUME ~hist.late PROVE Handed(nic'.rxq, hist.got, hist.good, hist'.lost, hist.rx)
    <3>1. Handed(nic.rxq, hist.got, hist.good, hist.lost, hist.rx)
      BY <2>2 DEF IInv, ReceivePart
    <3> QED BY <1>5, <1>8, <3>1 DEF Handed
  <2> QED BY <1>5, <1>7, <2>1, <2>2 DEF ReceivePart
<1> QED BY <1>4, <1>6, <1>10, <1>11, <1>12

LEMMA ResetStep ==
  ASSUME ConstantsOK, IInv, SnpInitialize \/ SnpReset
  PROVE  IInv'
<1>1. /\ call.pc = "idle" /\ drv.mode # "Stopped" /\ MmuReset /\ call' = call
      /\ drv' = drv \/ drv' = [drv EXCEPT !.mode = "Initialized"]
  BY DEF SnpInitialize, SnpReset, Idle
<1>2. chip.state = "ready" /\ chip \in Chips /\ InBank(chip) BY <1>1, Ready
<1>3. hist' = Cleared \/ hist' = [Cleared EXCEPT !.faults = @ + 1]
  BY DEF SnpInitialize, SnpReset
<1>4. /\ hist' \in Histories
      /\ hist'.leaked = {} /\ hist'.wanted = {}
      /\ hist'.filtersLost = (hist.filtersLost \/ chip.ReceiveFilterSetting # {})
      /\ hist'.lost = hist.lost \cup Packets(nic.rxq)
      /\ hist'.pushed = hist.pushed \ (Packets(nic.txq) \cup {nic.mmu.pkt})
      /\ hist'.tx = hist.tx /\ hist'.rx = hist.rx /\ hist'.good = hist.good
      /\ hist'.got = hist.got /\ hist'.sent = hist.sent /\ hist'.late = hist.late
  <2>1. PICK c : c = Cleared OBVIOUS
  <2>2. /\ c \in Histories
        /\ c.leaked = {} /\ c.wanted = {}
        /\ c.filtersLost = (hist.filtersLost \/ chip.ReceiveFilterSetting # {})
        /\ c.lost = hist.lost \cup Packets(nic.rxq)
        /\ c.pushed = hist.pushed \ (Packets(nic.txq) \cup {nic.mmu.pkt})
        /\ c.tx = hist.tx /\ c.rx = hist.rx /\ c.good = hist.good
        /\ c.got = hist.got /\ c.sent = hist.sent /\ c.late = hist.late
    BY <2>1, ClearedFacts
  <2>3. CASE hist' = c BY <2>2, <2>3
  <2>4. CASE hist' = [c EXCEPT !.faults = @ + 1]
    <3>1. hist' \in Histories BY <2>2, <2>4, FaultType
    <3>2. /\ hist'.leaked = c.leaked /\ hist'.wanted = c.wanted
          /\ hist'.filtersLost = c.filtersLost /\ hist'.lost = c.lost
          /\ hist'.pushed = c.pushed /\ hist'.tx = c.tx /\ hist'.rx = c.rx
          /\ hist'.good = c.good /\ hist'.got = c.got /\ hist'.sent = c.sent
          /\ hist'.late = c.late
      BY <2>2, <2>4 DEF Histories
    <3> QED BY <2>2, <3>1, <3>2
  <2> QED BY <1>3, <2>1, <2>3, <2>4
<1>5. nic' \in Nics /\ CallPart' /\ MemoryPart' /\ SendPart' /\ ReceivePart'
  BY <1>1, <1>4, MmuResetStep
<1>6. drv' \in Drivers /\ drv'.TransmitQueue = drv.TransmitQueue
      /\ drv'.mode # "Stopped"
  BY <1>1 DEF IInv, Types, Drivers
<1>7. Types' BY <1>1, <1>4, <1>5, <1>6 DEF IInv, Types
<1>8. PICK s : s = SoftReset(chip) OBVIOUS
<1>9. ResetTo(chip, s) BY <1>2, <1>8, SoftResetFacts
<1>10. PICK p : p = PhySoftReset(s) OBVIOUS
<1>11. PhySet(s, p) BY <1>9, <1>10, PhyResetFacts DEF ResetTo
<1>12. PhyOK(chip) BY DEF IInv, RegisterPart
<1>13. PhyOK(s) BY <1>9, <1>12 DEF ResetTo, SameSoft, PhyOK
<1>14. PhyOK(p) /\ p \in Chips /\ InBank(p) BY <1>11, <1>13 DEF PhySet
<1>15. PICK n : n = PhyAutoNegotiate(p) OBVIOUS
<1>16. PhySet(p, n) BY <1>14, <1>15, NegotiateFacts
<1>17. /\ PhyOK(n) /\ n \in Chips /\ InBank(n) /\ n.state = "ready"
       /\ n.reg["IAR"] = chip.reg["IAR"] /\ n.reg["RCR"] = {}
       /\ n.Current = chip.Current /\ n.ReceiveFilterSetting = chip.ReceiveFilterSetting
  BY <1>2, <1>9, <1>11, <1>14, <1>16 DEF PhySet, ResetTo, SameSoft
<1>18. /\ PhyOK(p) /\ p.state = "ready"
       /\ p.reg["IAR"] = chip.reg["IAR"] /\ p.reg["RCR"] = {}
       /\ p.Current = chip.Current /\ p.ReceiveFilterSetting = chip.ReceiveFilterSetting
  BY <1>2, <1>9, <1>11, <1>14 DEF PhySet, ResetTo, SameSoft
<1>19. PICK e : e = ChipEnable(n) OBVIOUS
<1>20. RcrSet(n, RCR_DEFAULT, e) BY <1>17, <1>19, EnableFacts
<1>21. e \in Chips /\ InBank(e) BY <1>20 DEF RcrSet
<1>22. {} \in Names BY DEF Names
<1>23. Touched(e, WriteIoReg8(e, "IST", {})) BY <1>21, <1>22, TouchFacts
<1>24. RcrSet(p, RCR_DEFAULT, ChipEnable(p)) BY <1>14, EnableFacts
<1>25. \/ chip' = WriteIoReg8(e, "IST", {}) \/ chip' = ChipEnable(p) \/ chip' = p
  BY <1>8, <1>10, <1>15, <1>19 DEF SnpInitialize, SnpReset
<1>26. /\ chip' \in Chips /\ InBank(chip') /\ PhyOK(chip') /\ chip'.state = "ready"
       /\ chip'.reg["IAR"] = chip.reg["IAR"] /\ chip'.Current = chip.Current
       /\ chip'.ReceiveFilterSetting = chip.ReceiveFilterSetting
       /\ chip'.reg["RCR"] = RCR_DEFAULT \/ chip'.reg["RCR"] = {}
  <2>1. CASE chip' = WriteIoReg8(e, "IST", {})
    BY <1>17, <1>20, <1>23, <2>1 DEF RcrSet, Touched, SameSoft, PhyOK
  <2>2. CASE chip' = ChipEnable(p)
    BY <1>14, <1>18, <1>24, <2>2 DEF RcrSet, SameSoft, PhyOK
  <2>3. CASE chip' = p BY <1>14, <1>18, <2>3
  <2> QED BY <1>25, <2>1, <2>2, <2>3
<1>27. RegisterPart' BY <1>26 DEF RegisterPart, InBank
<1>28. FilterPart'
  <2>1. \A f \in DOMAIN RcrBit : RcrBit[f] \notin RCR_DEFAULT
    BY RcrBitFacts DEF RCR_DEFAULT
  <2>2. \A f \in DOMAIN RcrBit : RcrBit[f] \notin chip'.reg["RCR"] BY <1>26, <2>1
  <2>3. chip.reg["IAR"] = chip.Current BY <1>2 DEF IInv, FilterPart
  <2> QED BY <1>4, <1>26, <2>2, <2>3 DEF FilterPart
<1>29. ClientPart' BY <1>1, <1>4, <1>6, <1>26 DEF IInv, ClientPart
<1> QED BY <1>5, <1>7, <1>27, <1>28, <1>29 DEF IInv

(* ----------------------- filters, address and status ------------------- *)

\* The address is written from what is current.
LEMMA MacFacts ==
  ASSUME NEW c \in Chips, InBank(c)
  PROVE  LET d == SetCurrentMacAddress(c) IN
         /\ d \in Chips /\ InBank(d) /\ SameSoft(c, d)
         /\ d.reg["IAR"] = c.Current
         /\ d.reg["MT"] = c.reg["MT"] /\ d.reg["RCR"] = c.reg["RCR"]
<1>1. PICK r \in DOMAIN Bank : r = "IAR" BY BankFacts
<1>2. PICK v : v = c.Current OBVIOUS
<1>3. r \in DOMAIN Bank /\ OfType(r, v) BY <1>1, <1>2 DEF OfType, Chips
<1>4. Wrote(c, r, v, WriteIoReg8(c, r, v)) BY <1>3, WriteFacts
<1>5. SetCurrentMacAddress(c) = WriteIoReg8(c, r, v)
  BY <1>1, <1>2 DEF SetCurrentMacAddress
<1> QED BY <1>1, <1>2, <1>4, <1>5 DEF Wrote

\* The bit of the table is in range; it is the right one for half the groups.
LEMMA HashFacts ==
  ASSUME ConstantsOK, NEW a \in DOMAIN Hash
  PROVE  /\ McastHashBit(a) \in Nat \X Nat
         /\ Hash[a][1] > 3 \/ Hash[a][2] > 3 \/ McastHashBit(a) = Hash[a]
<1>1. Hash[a] \in (0 .. 7) \X (0 .. 7) BY DEF ConstantsOK
<1>2. PICK i \in 0 .. 7, j \in 0 .. 7 : Hash[a] = <<i, j>> BY <1>1
<1>3. Hash[a][1] = i /\ Hash[a][2] = j BY <1>2
<1>4. McastHashBit(a) = <<i % 4, j % 4>> BY <1>3 DEF McastHashBit
<1>5. i % 4 \in Nat /\ j % 4 \in Nat OBVIOUS
<1>6. (i <= 3 => i % 4 = i) /\ (j <= 3 => j % 4 = j) OBVIOUS
<1>7. McastHashBit(a) \in Nat \X Nat BY <1>4, <1>5
<1>8. ASSUME ~(i > 3), ~(j > 3) PROVE McastHashBit(a) = Hash[a]
  BY <1>2, <1>4, <1>6, <1>8
<1> QED BY <1>3, <1>7, <1>8

\* The table after SnpReceiveFilters.
LEMMA TableFacts ==
  ASSUME ConstantsOK, NEW c \in Chips, InBank(c), NEW reset \in BOOLEAN,
         NEW Mfilter \in SUBSET DOMAIN Hash
  PROVE  LET hash == IF reset THEN {}
                     ELSE c.reg.MT \cup {McastHashBit(a) : a \in Mfilter}
             c1 == IF reset THEN c ELSE ReadIoReg8(c, "MT")
             c2 == IF reset \/ Mfilter # {} THEN WriteIoReg8(c1, "MT", hash) ELSE c1
         IN /\ c2 \in Chips /\ InBank(c2) /\ SameSoft(c, c2)
            /\ c2.reg["RCR"] = c.reg["RCR"] /\ c2.reg["MT"] = hash
<1>1. PICK hash : hash = IF reset THEN {}
                         ELSE c.reg["MT"] \cup {McastHashBit(a) : a \in Mfilter}
  OBVIOUS
<1>2. c.reg \in Registers BY DEF Chips
<1>3. c.reg["MT"] \in Tables BY <1>2, RegisterFacts
<1>4. \A a \in Mfilter : McastHashBit(a) \in Nat \X Nat BY HashFacts
<1>5. hash \in Tables BY <1>1, <1>3, <1>4 DEF Tables
<1>6. PICK r \in DOMAIN Bank : r = "MT" BY BankFacts
<1>7. r \in DOMAIN Bank /\ OfType(r, hash) BY <1>5, <1>6 DEF OfType
<1>8. PICK c1 : c1 = IF reset THEN c ELSE ReadIoReg8(c, "MT") OBVIOUS
<1>9. c1 \in Chips /\ InBank(c1) /\ SameSoft(c, c1) /\ c1.reg["RCR"] = c.reg["RCR"]
      /\ c1.reg["MT"] = c.reg["MT"]
  <2>1. Touched(c, ReadIoReg8(c, r)) BY ReadFacts
  <2>2. CASE reset BY <1>8, <2>2 DEF SameSoft
  <2>3. CASE ~reset BY <1>6, <1>8, <2>1, <2>3 DEF Touched
  <2> QED BY <2>2, <2>3
<1>10. PICK c2 : c2 = IF reset \/ Mfilter # {} THEN WriteIoReg8(c1, "MT", hash) ELSE c1
  OBVIOUS
<1>11. c2 \in Chips /\ InBank(c2) /\ SameSoft(c, c2) /\ c2.reg["RCR"] = c.reg["RCR"]
       /\ c2.reg["MT"] = hash
  <2>1. CASE reset \/ Mfilter # {}
    <3>1. Wrote(c1, r, hash, WriteIoReg8(c1, r, hash)) BY <1>7, <1>9, WriteFacts
    <3>2. c2 = WriteIoReg8(c1, r, hash) BY <1>6, <1>10, <2>1
    <3> QED BY <1>6, <1>9, <3>1, <3>2 DEF Wrote, SameSoft
  <2>2. CASE ~reset /\ Mfilter = {}
    <3>1. {McastHashBit(a) : a \in Mfilter} = {} BY <2>2
    <3>2. hash = c.reg["MT"] BY <1>1, <2>2, <3>1
    <3> QED BY <1>9, <1>10, <2>2, <3>2
  <2> QED BY <2>1, <2>2
<1> QED BY <1>1, <1>8, <1>10, <1>11

LEMMA FilterStep ==
  ASSUME ConstantsOK, IInv, SnpReceiveFilters
  PROVE  IInv'
<1>1. /\ call.pc = "idle" /\ drv.mode = "Initialized" /\ drv' = drv /\ nic' = nic
      /\ call' = call
  BY DEF SnpReceiveFilters, Idle
<1>2. chip.state = "ready" /\ chip \in Chips /\ InBank(chip) BY <1>1, Ready
<1>3. PICK mode \in DOMAIN RcrBit, reset \in BOOLEAN, Mfilter \in {{}, DOMAIN Hash} :
      \E Enable, Disable \in {{}, {mode}} :
       LET McastHash == IF reset THEN {}
                        ELSE chip.reg.MT \cup {McastHashBit(a) : a \in Mfilter}
           c1 == IF reset THEN chip ELSE ReadIoReg8(chip, "MT")
           c2 == IF reset \/ Mfilter # {} THEN WriteIoReg8(c1, "MT", McastHash) ELSE c1
           c3 == WriteIoReg16(ReadIoReg16(c2, "RCR"), "RCR",
                   (c2.reg.RCR \cup {RcrBit[f] : f \in Enable})
                                \ {RcrBit[f] : f \in Disable})
       IN /\ chip' = SetCurrentMacAddress([c3 EXCEPT
                       !.ReceiveFilterSetting = (@ \cup Enable) \ Disable])
          /\ hist' = [hist EXCEPT !.calls = @ + 1,
                       !.wanted = IF reset THEN {} ELSE @ \cup Mfilter]
  BY DEF SnpReceiveFilters
<1>4. PICK hash : hash = IF reset THEN {}
                         ELSE chip.reg.MT \cup {McastHashBit(a) : a \in Mfilter}
  OBVIOUS
<1>5. PICK c2 : c2 = LET c1 == IF reset THEN chip ELSE ReadIoReg8(chip, "MT") IN
                     IF reset \/ Mfilter # {} THEN WriteIoReg8(c1, "MT", hash) ELSE c1
  OBVIOUS
<1>6. Mfilter \in SUBSET DOMAIN Hash OBVIOUS
<1>7. c2 \in Chips /\ InBank(c2) /\ SameSoft(chip, c2)
      /\ c2.reg["RCR"] = chip.reg["RCR"] /\ c2.reg["MT"] = hash
  BY <1>2, <1>4, <1>5, <1>6, TableFacts
<1>8. PICK Enable \in {{}, {mode}}, Disable \in {{}, {mode}} :
        LET c3 == WriteIoReg16(ReadIoReg16(c2, "RCR"), "RCR",
                    (c2.reg.RCR \cup {RcrBit[f] : f \in Enable})
                                 \ {RcrBit[f] : f \in Disable})
        IN chip' = SetCurrentMacAddress([c3 EXCEPT
                      !.ReceiveFilterSetting = (@ \cup Enable) \ Disable])
  BY <1>3, <1>4, <1>5
<1>9. hist' = [hist EXCEPT !.calls = @ + 1, !.wanted = IF reset THEN {} ELSE @ \cup Mfilter]
  BY <1>3
<1>10. PICK v : v = (c2.reg["RCR"] \cup {RcrBit[f] : f \in Enable})
                      \ {RcrBit[f] : f \in Disable}
  OBVIOUS
<1>11. v \in Names
  <2>1. c2.reg \in Registers BY <1>7 DEF Chips
  <2>2. c2.reg["RCR"] \in Names BY <2>1, RegisterFacts
  <2>3. \A f \in DOMAIN RcrBit : RcrBit[f] \in Bits BY RcrBitFacts DEF Bits
  <2>4. Enable \subseteq DOMAIN RcrBit OBVIOUS
  <2> QED BY <1>10, <2>2, <2>3, <2>4 DEF Names
<1>12. PICK r : r = ReadIoReg16(c2, "RCR") OBVIOUS
<1>13. Touched(c2, r)
  <2>1. "RCR" \in DOMAIN Bank BY BankFacts
  <2> QED BY <1>7, <1>12, <2>1, ReadFacts
<1>14. PICK c3 : c3 = WriteIoReg16(r, "RCR", v) OBVIOUS
<1>15. Wrote(r, "RCR", v, c3) BY <1>11, <1>13, <1>14, RcrFacts DEF Touched
<1>16. /\ c3 \in Chips /\ InBank(c3) /\ SameSoft(chip, c3)
       /\ c3.reg["RCR"] = v /\ c3.reg["MT"] = hash
  BY <1>7, <1>13, <1>15 DEF Wrote, Touched, SameSoft
<1>17. PICK s : s = (chip.ReceiveFilterSetting \cup Enable) \ Disable OBVIOUS
<1>18. s \in SUBSET DOMAIN RcrBit
  <2>1. chip.ReceiveFilterSetting \in SUBSET DOMAIN RcrBit BY <1>2 DEF Chips
  <2> QED BY <1>17, <2>1
<1>19. PICK c4 : c4 = [c3 EXCEPT !.ReceiveFilterSetting = s] OBVIOUS
<1>20. chip' = SetCurrentMacAddress(c4)
  <2>1. c3.ReceiveFilterSetting = chip.ReceiveFilterSetting BY <1>16 DEF SameSoft
  <2>2. c4 = [c3 EXCEPT !.ReceiveFilterSetting = (@ \cup Enable) \ Disable]
    BY <1>16, <1>17, <1>19, <2>1 DEF Chips
  <2> QED BY <1>8, <1>10, <1>12, <1>14, <2>2
<1>21. c4 \in Chips BY <1>16, <1>18, <1>19 DEF Chips
<1>22. /\ c4.ReceiveFilterSetting = s /\ c4.part = c3.part /\ c4.state = c3.state
       /\ c4.bank = c3.bank /\ c4.BankSel = c3.BankSel /\ c4.reg = c3.reg
       /\ c4.astray = c3.astray /\ c4.PhyAd = c3.PhyAd /\ c4.advert = c3.advert
       /\ c4.Current = c3.Current
  BY <1>16, <1>19 DEF Chips
<1>23. InBank(c4) BY <1>16, <1>22 DEF InBank
<1>24. /\ chip' \in Chips /\ InBank(chip') /\ SameSoft(c4, chip')
       /\ chip'.reg["IAR"] = c4.Current
       /\ chip'.reg["MT"] = c4.reg["MT"] /\ chip'.reg["RCR"] = c4.reg["RCR"]
  BY <1>20, <1>21, <1>23, MacFacts
<1>25. /\ chip'.state = "ready" /\ chip'.part = chip.part /\ chip'.PhyAd = chip.PhyAd
       /\ chip'.advert = chip.advert /\ chip'.ReceiveFilterSetting = s
       /\ chip'.reg["IAR"] = chip'.Current /\ chip'.reg["MT"] = hash /\ chip'.reg["RCR"] = v
  BY <1>2, <1>16, <1>22, <1>24 DEF SameSoft
<1>26. RegisterPart'
  BY <1>24, <1>25 DEF IInv, RegisterPart, PhyOK, InBank
<1>27. PICK w : w = IF reset THEN {} ELSE hist.wanted \cup Mfilter OBVIOUS
<1>28. hist \in Histories BY DEF IInv, Types
<1>29. w \in SUBSET DOMAIN Hash BY <1>6, <1>27, <1>28 DEF Histories
<1>30. PICK n \in Nat : n = hist.calls + 1 BY <1>28 DEF Histories
<1>31. hist' = [hist EXCEPT !.calls = n, !.wanted = w] BY <1>9, <1>27, <1>28, <1>30 DEF Histories
<1>32. hist' \in Histories BY <1>28, <1>29, <1>31 DEF Histories
<1>33. SameTraffic BY <1>1, <1>28, <1>31 DEF Histories, SameTraffic
<1>34. hist'.wanted = w /\ hist'.filtersLost = hist.filtersLost BY <1>28, <1>31 DEF Histories
<1>35. FilterPart'
  <2>1. ASSUME NEW a \in w PROVE Hash[a][1] > 3 \/ Hash[a][2] > 3 \/ Hash[a] \in hash
    <3>1. ~reset /\ w = hist.wanted \cup Mfilter BY <1>27
    <3>2. hash = chip.reg.MT \cup {McastHashBit(b) : b \in Mfilter} BY <1>4, <3>1
    <3>3. CASE a \in hist.wanted BY <3>2, <3>3 DEF IInv, FilterPart
    <3>4. CASE a \in Mfilter
      <4>1. Hash[a][1] > 3 \/ Hash[a][2] > 3 \/ McastHashBit(a) = Hash[a]
        BY <1>6, <3>4, HashFacts
      <4> QED BY <3>2, <3>4, <4>1
    <3> QED BY <3>1, <3>3, <3>4
  <2>2. ASSUME NEW f \in DOMAIN RcrBit
        PROVE  /\ RcrBit[f] \in v => f \in s
               /\ f \in s => RcrBit[f] \in v \/ hist.filtersLost
    <3>1. /\ RcrBit[f] \in chip.reg["RCR"] => f \in chip.ReceiveFilterSetting
          /\ f \in chip.ReceiveFilterSetting =>
               RcrBit[f] \in chip.reg["RCR"] \/ hist.filtersLost
      BY DEF IInv, FilterPart
    <3>2. v = (chip.reg["RCR"] \cup {RcrBit[g] : g \in Enable})
                \ {RcrBit[g] : g \in Disable}
      BY <1>7, <1>10
    <3>3. Enable \subseteq DOMAIN RcrBit /\ Disable \subseteq DOMAIN RcrBit OBVIOUS
    <3>4. \A g, h \in DOMAIN RcrBit : RcrBit[g] = RcrBit[h] => g = h BY RcrBitFacts
    <3>5. RcrBit[f] \in {RcrBit[g] : g \in Enable} <=> f \in Enable BY <3>3, <3>4
    <3>6. RcrBit[f] \in {RcrBit[g] : g \in Disable} <=> f \in Disable BY <3>3, <3>4
    <3> QED BY <1>17, <3>1, <3>2, <3>5, <3>6
  <2> QED BY <1>25, <1>34, <2>1, <2>2 DEF FilterPart
<1>36. Types' BY <1>1, <1>32 DEF IInv, Types
<1>37. CallPart' /\ MemoryPart' /\ SendPart' /\ ReceivePart' BY <1>33, QuietStep
<1>38. ClientPart'
  BY <1>1, <1>2, <1>25, <1>33, ClientStep DEF SameClient, SameTraffic
<1> QED BY <1>26, <1>35, <1>36, <1>37, <1>38 DEF IInv

LEMMA AddressStep ==
  ASSUME ConstantsOK, IInv, SnpStationAddress
  PROVE  IInv'
<1>1. /\ call.pc = "idle" /\ drv.mode = "Initialized" /\ drv' = drv /\ nic' = nic
      /\ call' = call /\ hist' = [hist EXCEPT !.calls = @ + 1]
  BY DEF SnpStationAddress, Idle
<1>2. chip.state = "ready" /\ chip \in Chips /\ InBank(chip) BY <1>1, Ready
<1>3. PICK NewMac \in {chip.Permanent, chip.Permanent + 1} :
        chip' = SetCurrentMacAddress([chip EXCEPT !.Current = NewMac])
  BY DEF SnpStationAddress
<1>4. PICK c : c = [chip EXCEPT !.Current = NewMac] OBVIOUS
<1>5. NewMac \in Nat BY <1>2 DEF Chips
<1>6. c \in Chips BY <1>2, <1>4, <1>5 DEF Chips
<1>7. /\ c.ReceiveFilterSetting = chip.ReceiveFilterSetting /\ c.part = chip.part
      /\ c.state = chip.state /\ c.bank = chip.bank /\ c.BankSel = chip.BankSel
      /\ c.reg = chip.reg /\ c.astray = chip.astray /\ c.PhyAd = chip.PhyAd
      /\ c.advert = chip.advert
  BY <1>2, <1>4 DEF Chips
<1>8. InBank(c) BY <1>2, <1>7 DEF InBank
<1>9. /\ chip' \in Chips /\ InBank(chip') /\ SameSoft(c, chip')
      /\ chip'.reg["IAR"] = c.Current
      /\ chip'.reg["MT"] = c.reg["MT"] /\ chip'.reg["RCR"] = c.reg["RCR"]
  BY <1>3, <1>4, <1>6, <1>8, MacFacts
<1>10. hist \in Histories BY DEF IInv, Types
<1>11. PICK n \in Nat : n = hist.calls + 1 BY <1>10 DEF Histories
<1>12. hist' = [hist EXCEPT !.calls = n] BY <1>1, <1>11
<1>13. hist' \in Histories BY <1>10, <1>12 DEF Histories
<1>14. SameTraffic /\ SameFilters BY <1>1, <1>10, <1>12 DEF Histories, SameTraffic, SameFilters
<1>15. RegisterPart'
  BY <1>2, <1>7, <1>9 DEF IInv, RegisterPart, PhyOK, InBank, SameSoft
<1>16. FilterPart'
  BY <1>2, <1>7, <1>9, <1>14 DEF IInv, FilterPart, SameSoft, SameFilters
<1>17. Types' BY <1>1, <1>13 DEF IInv, Types
<1>18. CallPart' /\ MemoryPart' /\ SendPart' /\ ReceivePart' BY <1>14, QuietStep
<1>19. chip'.state = chip.state BY <1>7, <1>9 DEF SameSoft
<1>20. ClientPart' BY <1>1, <1>14, <1>19, ClientStep DEF SameClient, SameTraffic
<1> QED BY <1>15, <1>16, <1>17, <1>18, <1>20 DEF IInv

\* The oldest buffer goes back to the client.
LEMMA RecycleFacts ==
  ASSUME IInv, drv.TransmitQueue # <<>>
  PROVE  LET q == Tail(drv.TransmitQueue) IN
         /\ q \in Seq(Nat) /\ Ascending(q)
         /\ \A i \in DOMAIN q : \E j \in DOMAIN drv.TransmitQueue : q[i] = drv.TransmitQueue[j]
<1>1. PICK p : p = drv.TransmitQueue OBVIOUS
<1>2. p \in Seq(Nat) /\ p # <<>> /\ Ascending(p)
  BY <1>1 DEF IInv, Types, Drivers, ClientPart
<1>3. PICK q : q = Tail(p) OBVIOUS
<1>4. q \in Seq(Nat) /\ \A i \in DOMAIN q : i + 1 \in DOMAIN p /\ q[i] = p[i + 1]
  BY <1>2, <1>3, TailFacts
<1>5. \A i, j \in DOMAIN q : i < j => i + 1 < j + 1 BY <1>4
<1>6. Ascending(q) BY <1>2, <1>4, <1>5 DEF Ascending
<1> QED BY <1>1, <1>3, <1>4, <1>6

LEMMA StatusStep ==
  ASSUME ConstantsOK, IInv, SnpGetStatus
  PROVE  IInv'
<1>1. /\ call.pc = "idle" /\ drv.mode = "Initialized" /\ nic' = nic
      /\ call' = call /\ hist' = hist /\ chip' = CheckLinkStatus(ReadIoReg8(chip, "IST"))
  BY DEF SnpGetStatus, Idle
<1>2. chip.state = "ready" /\ chip \in Chips /\ InBank(chip) BY <1>1, Ready
<1>3. PICK link \in BOOLEAN :
        drv' = [drv EXCEPT !.MediaPresent = link,
                  !.TransmitQueue = IF @ = <<>> THEN @ ELSE Tail(@)]
  BY DEF SnpGetStatus
<1>4. PICK q : q = IF drv.TransmitQueue = <<>> THEN drv.TransmitQueue
                   ELSE Tail(drv.TransmitQueue)
  OBVIOUS
<1>5. drv \in Drivers BY DEF IInv, Types
<1>6. drv' = [drv EXCEPT !.MediaPresent = link, !.TransmitQueue = q]
  BY <1>3, <1>4, <1>5 DEF Drivers
<1>7. /\ q \in Seq(Nat) /\ Ascending(q)
      /\ \A i \in DOMAIN q : \E j \in DOMAIN drv.TransmitQueue : q[i] = drv.TransmitQueue[j]
  <2>1. CASE drv.TransmitQueue = <<>>
    BY <1>4, <2>1 DEF IInv, Types, Drivers, ClientPart
  <2>2. CASE drv.TransmitQueue # <<>> BY <1>4, <2>2, RecycleFacts
  <2> QED BY <2>1, <2>2
<1>8. drv' \in Drivers BY <1>5, <1>6, <1>7 DEF Drivers
<1>9. drv'.TransmitQueue = q /\ drv'.mode = drv.mode BY <1>5, <1>6 DEF Drivers
<1>10. PICK r : r = ReadIoReg8(chip, "IST") OBVIOUS
<1>11. "IST" \in DOMAIN Bank BY BankFacts
<1>12. Touched(chip, r) BY <1>2, <1>10, <1>11, ReadFacts
<1>13. Touched(r, chip') BY <1>1, <1>10, <1>12, IdleFacts DEF CheckLinkStatus, Touched
<1>14. Touched(chip, chip') BY <1>12, <1>13 DEF Touched, SameSoft
<1>15. RegisterPart' /\ FilterPart' /\ chip'.state = chip.state
  BY <1>1, <1>2, <1>14, ChipTouched DEF SameFilters
<1>16. CallPart' /\ MemoryPart' /\ SendPart' /\ ReceivePart'
  BY <1>1, QuietStep DEF SameTraffic
<1>17. Types' BY <1>1, <1>8 DEF IInv, Types
<1>18. ClientPart' BY <1>1, <1>2, <1>7, <1>9, <1>15 DEF IInv, ClientPart
<1> QED BY <1>15, <1>16, <1>17, <1>18 DEF IInv

(* -------------------------- commands of the MMU ------------------------ *)

\* What the next packet's number is above, when no command is pending.
Limit == IF call.pc = "idle" THEN hist.tx + 1 ELSE hist.tx

LEMMA ForgottenType ==
  ASSUME NEW n \in Nics, NEW c \in Commands
  PROVE  Forgotten(n, c) \in SUBSET Memory
<1>1. n.arr \in Pages BY DEF Nics
<1> QED BY <1>1 DEF Forgotten, Pages

\* The command still busy is done: what a call finds.
LEMMA SettledFacts ==
  ASSUME ConstantsOK, IInv, NEW s, s = Settled
  PROVE  /\ s \in Nics /\ s.mmu = NoCommand
         /\ Whole(s, Only(call.page), hist.leaked \cup Forgotten(nic, nic.mmu))
         /\ Out(s, hist.sent, Limit)
         /\ hist.pushed \subseteq Members(hist.sent) \cup Packets(s.txq)
         /\ Came(s.rxq, hist.rx, hist.good)
         /\ ~hist.late => s.rxq = nic.rxq
         /\ hist.leaked \cup Forgotten(nic, nic.mmu) \in SUBSET Memory
<1>1. nic \in Nics /\ hist \in Histories /\ call \in Calls BY DEF IInv, Types
<1>2. PICK c : c = nic.mmu OBVIOUS
<1>3. c \in Commands BY <1>1, <1>2 DEF Nics
<1>4. s = Execute(nic, c) BY <1>2 DEF Settled
<1>5. Executes(nic, c, s) BY <1>1, <1>3, <1>4, ExecuteFacts
<1>6. s \in Nics /\ s.mmu = NoCommand BY <1>5 DEF Executes
<1>7. call.page # NoPage => c.page = NoPage
  BY <1>2 DEF IInv, CallPart, NoCommand
<1>8. Whole(s, Only(call.page), hist.leaked \cup Forgotten(nic, c))
  <2>1. PICK hand : hand = Only(call.page) \cup Only(c.page) OBVIOUS
  <2>2. Whole(nic, hand, hist.leaked) BY <1>2, <2>1 DEF IInv, MemoryPart
  <2>3. c.page # NoPage => c.page \in hand BY <2>1 DEF Only
  <2>4. Whole(s, hand \ Only(c.page), hist.leaked \cup Forgotten(nic, c))
    BY <1>1, <1>3, <1>4, <2>2, <2>3, ExecuteWhole
  <2>5. hand \ Only(c.page) = Only(call.page) BY <1>7, <2>1 DEF Only
  <2> QED BY <2>4, <2>5
<1>9. hist.tx \in Nat BY <1>1 DEF Histories
<1>10. c.pkt \in Nat BY <1>3 DEF Commands
<1>11. c.op = "push" => call.pc = "idle"
  BY <1>2 DEF IInv, CallPart, NoCommand
<1>12. PICK k : k = Coming OBVIOUS
<1>13. k \in Nat /\ Out(nic, hist.sent, k)
  BY <1>2, <1>9, <1>10, <1>12 DEF IInv, SendPart, Coming
<1>14. c.op = "push" => k = c.pkt BY <1>2, <1>12 DEF Coming
<1>15. /\ Out(s, hist.sent, IF c.op = "push" THEN c.pkt + 1 ELSE k)
       /\ Packets(s.txq) = Packets(nic.txq) \cup Pending(c)
  <2>1. c.op = "push" => k <= c.pkt BY <1>13, <1>14
  <2> QED BY <1>1, <1>3, <1>4, <1>13, <2>1, ExecuteOut
<1>16. Out(s, hist.sent, Limit)
  <2>1. CASE c.op = "push"
    <3>1. Out(s, hist.sent, c.pkt + 1) BY <1>15, <2>1
    <3>2. Limit = hist.tx + 1 BY <1>11, <2>1 DEF Limit
    <3>3. c.pkt <= hist.tx BY <1>2, <2>1 DEF IInv, SendPart
    <3>4. /\ c.pkt + 1 \in Nat /\ hist.tx + 1 \in Nat
          /\ c.pkt + 1 <= hist.tx + 1
      BY <1>9, <1>10, <3>3
    <3> QED BY <1>6, <3>1, <3>2, <3>4, OutRaise
  <2>2. CASE c.op # "push"
    <3>1. k = Limit BY <1>2, <1>12, <2>2 DEF Coming, Limit
    <3> QED BY <1>15, <2>2, <3>1
  <2> QED BY <2>1, <2>2
<1>17. hist.pushed \subseteq Members(hist.sent) \cup Packets(s.txq)
  BY <1>2, <1>15 DEF IInv, SendPart
<1>18. Came(nic.rxq, hist.rx, hist.good) BY DEF IInv, ReceivePart
<1>19. Came(s.rxq, hist.rx, hist.good)
  <2>1. CASE c.op = "pop" /\ nic.rxq # <<>>
    <3>1. s.rxq = Tail(nic.rxq) BY <1>5, <2>1 DEF Executes
    <3> QED BY <1>18, <2>1, <3>1, CameTail
  <2>2. CASE ~(c.op = "pop" /\ nic.rxq # <<>>)
    BY <1>5, <1>18, <2>2 DEF Executes
  <2> QED BY <2>1, <2>2
<1>20. ASSUME ~hist.late PROVE s.rxq = nic.rxq
  <2>1. c.op # "pop" BY <1>2, <1>20 DEF IInv, ReceivePart
  <2> QED BY <1>5, <2>1 DEF Executes
<1>21. hist.leaked \cup Forgotten(nic, nic.mmu) \in SUBSET Memory
  <2>1. Forgotten(nic, c) \in SUBSET Memory BY <1>1, <1>3, ForgottenType
  <2> QED BY <1>1, <1>2, <2>1 DEF Histories
<1> QED BY <1>2, <1>6, <1>8, <1>16, <1>17, <1>19, <1>20, <1>21

\* The history handed to a command differs only in what the call is about.
Recorded(c, h) ==
  /\ h \in Histories /\ h.leaked = hist.leaked /\ h.sent = hist.sent /\ h.rx = hist.rx
  /\ h.good = hist.good /\ h.late = hist.late
  /\ h.wanted = hist.wanted /\ h.filtersLost = hist.filtersLost
  /\ h.pushed \subseteq hist.pushed \cup Pending(c)
\* The commands a call gives: a push is of the call's page and packet.
Given(c) ==
  /\ c \in Commands /\ c.page \in {NoPage, call.page}
  /\ c.op = "push" => call.pc = "push" /\ c.pkt = hist.tx
Kept(h) ==
  /\ hist' \in Histories /\ hist'.sent = hist.sent /\ hist'.rx = hist.rx
  /\ hist'.good = hist.good /\ hist'.wanted = hist.wanted
  /\ hist'.filtersLost = hist.filtersLost
  /\ hist'.tx = h.tx /\ hist'.got = h.got /\ hist'.lost = h.lost

LEMMA OperationFacts ==
  ASSUME ConstantsOK, IInv, NEW c, NEW h, Given(c), Recorded(c, h), MmuOperation(c, h)
  PROVE  /\ nic' \in Nics /\ nic'.mmu = NoCommand
         /\ Kept(h) /\ hist'.late = hist.late
         /\ Whole(nic', Only(call.page) \ Only(c.page), hist'.leaked)
         /\ Out(nic', hist.sent, IF c.op = "push" THEN hist.tx + 1 ELSE Limit)
         /\ hist'.pushed \subseteq Members(hist.sent) \cup Packets(nic'.txq)
         /\ Came(nic'.rxq, hist.rx, hist.good)
         /\ ~hist.late => nic'.rxq = IF c.op = "pop" /\ nic.rxq # <<>> THEN Tail(nic.rxq)
                                     ELSE nic.rxq
<1>1. PICK s : s = Settled OBVIOUS
<1>2. PICK L : L = hist.leaked \cup Forgotten(nic, nic.mmu) OBVIOUS
<1>3. /\ s \in Nics /\ s.mmu = NoCommand /\ Whole(s, Only(call.page), L)
      /\ Out(s, hist.sent, Limit)
      /\ hist.pushed \subseteq Members(hist.sent) \cup Packets(s.txq)
      /\ Came(s.rxq, hist.rx, hist.good)
      /\ ~hist.late => s.rxq = nic.rxq
      /\ L \in SUBSET Memory
  BY <1>1, <1>2, SettledFacts
<1>4. c \in Commands /\ h \in Histories BY DEF Given, Recorded
<1>5. nic' = Execute(s, c) BY <1>1 DEF MmuOperation
<1>6. PICK M : M = L \cup Forgotten(s, c) OBVIOUS
<1>7. hist' = [h EXCEPT !.leaked = M]
  <2>1. hist' = [h EXCEPT !.leaked = h.leaked \cup Forgotten(nic, nic.mmu) \cup Forgotten(s, c)]
    BY <1>1, <1>4 DEF MmuOperation, Histories
  <2>2. h.leaked = hist.leaked BY DEF Recorded
  <2>3. h.leaked \cup Forgotten(nic, nic.mmu) \cup Forgotten(s, c) = M
    BY <1>2, <1>6, <2>2
  <2> QED BY <2>1, <2>3
<1>8. M \in SUBSET Memory
  <2>1. Forgotten(s, c) \in SUBSET Memory BY <1>3, <1>4, ForgottenType
  <2> QED BY <1>3, <1>6, <2>1
<1>9. /\ hist' \in Histories /\ hist'.leaked = M /\ hist'.sent = h.sent /\ hist'.rx = h.rx
      /\ hist'.good = h.good /\ hist'.late = h.late /\ hist'.tx = h.tx
      /\ hist'.got = h.got /\ hist'.lost = h.lost /\ hist'.pushed = h.pushed
      /\ hist'.wanted = h.wanted /\ hist'.filtersLost = h.filtersLost
  BY <1>4, <1>7, <1>8 DEF Histories
<1>10. Kept(h) /\ hist'.late = hist.late BY <1>9 DEF Kept, Recorded
<1>11. Executes(s, c, nic') BY <1>3, <1>4, <1>5, ExecuteFacts
<1>12. nic' \in Nics /\ nic'.mmu = NoCommand BY <1>11 DEF Executes
<1>13. Whole(nic', Only(call.page) \ Only(c.page), hist'.leaked)
  <2>1. c.page # NoPage => c.page \in Only(call.page) BY DEF Given, Only
  <2>2. Whole(Execute(s, c), Only(call.page) \ Only(c.page), L \cup Forgotten(s, c))
    BY <1>3, <1>4, <2>1, ExecuteWhole
  <2> QED BY <1>5, <1>6, <1>9, <2>2
<1>14. hist.tx \in Nat BY DEF IInv, Types, Histories
<1>15. Limit \in Nat BY <1>14 DEF Limit
<1>16. c.op = "push" => Limit = hist.tx /\ c.pkt = hist.tx BY DEF Given, Limit
<1>17. /\ Out(nic', hist.sent, IF c.op = "push" THEN c.pkt + 1 ELSE Limit)
       /\ Packets(nic'.txq) = Packets(s.txq) \cup Pending(c)
  <2>1. c.op = "push" => Limit <= c.pkt BY <1>15, <1>16
  <2> QED BY <1>3, <1>4, <1>5, <1>15, <2>1, ExecuteOut
<1>18. Out(nic', hist.sent, IF c.op = "push" THEN hist.tx + 1 ELSE Limit) BY <1>16, <1>17
<1>19. hist'.pushed \subseteq Members(hist.sent) \cup Packets(nic'.txq)
  BY <1>3, <1>9, <1>17 DEF Recorded
<1>20. nic'.rxq = IF c.op = "pop" /\ s.rxq # <<>> THEN Tail(s.rxq) ELSE s.rxq
  BY <1>11 DEF Executes
<1>21. Came(nic'.rxq, hist.rx, hist.good)
  <2>1. CASE c.op = "pop" /\ s.rxq # <<>> BY <1>3, <1>20, <2>1, CameTail
  <2>2. CASE ~(c.op = "pop" /\ s.rxq # <<>>) BY <1>3, <1>20, <2>2
  <2> QED BY <2>1, <2>2
<1> QED BY <1>3, <1>10, <1>12, <1>13, <1>18, <1>19, <1>20, <1>21

LEMMA TimeoutFacts ==
  ASSUME ConstantsOK, IInv, NEW c, NEW h, Given(c), Recorded(c, h), MmuTimeout(c, h)
  PROVE  /\ nic' \in Nics /\ nic'.mmu = c
         /\ Kept(h) /\ hist'.late = (hist.late \/ c.op = "pop")
         /\ Whole(nic', Only(call.page), hist'.leaked)
         /\ Out(nic', hist.sent, Limit)
         /\ hist'.pushed \subseteq Members(hist.sent) \cup Packets(nic'.txq) \cup Pending(c)
         /\ Came(nic'.rxq, hist.rx, hist.good)
<1>1. PICK s : s = Settled OBVIOUS
<1>2. PICK L : L = hist.leaked \cup Forgotten(nic, nic.mmu) OBVIOUS
<1>3. /\ s \in Nics /\ s.mmu = NoCommand /\ Whole(s, Only(call.page), L)
      /\ Out(s, hist.sent, Limit)
      /\ hist.pushed \subseteq Members(hist.sent) \cup Packets(s.txq)
      /\ Came(s.rxq, hist.rx, hist.good)
      /\ L \in SUBSET Memory
  BY <1>1, <1>2, SettledFacts
<1>4. c \in Commands /\ h \in Histories BY DEF Given, Recorded
<1>5. nic' = [s EXCEPT !.mmu = c] BY <1>1 DEF MmuTimeout
<1>6. /\ nic' \in Nics /\ nic'.mmu = c /\ nic'.free = s.free /\ nic'.txq = s.txq
      /\ nic'.rxq = s.rxq /\ nic'.alloc = s.alloc /\ nic'.arr = s.arr
  BY <1>3, <1>4, <1>5 DEF Nics
<1>7. PICK f \in Nat : f = h.faults + 1 BY <1>4 DEF Histories
<1>8. PICK l \in BOOLEAN : l = (h.late \/ c.op = "pop") OBVIOUS
<1>9. hist' = [h EXCEPT !.leaked = L, !.faults = f, !.late = l]
  <2>1. hist' = [h EXCEPT !.leaked = h.leaked \cup Forgotten(nic, nic.mmu),
                          !.faults = h.faults + 1, !.late = h.late \/ c.op = "pop"]
    BY <1>4 DEF MmuTimeout, Histories
  <2>2. h.leaked \cup Forgotten(nic, nic.mmu) = L BY <1>2 DEF Recorded
  <2> QED BY <1>7, <1>8, <2>1, <2>2
<1>10. /\ hist' \in Histories /\ hist'.leaked = L /\ hist'.sent = h.sent /\ hist'.rx = h.rx
       /\ hist'.good = h.good /\ hist'.late = l /\ hist'.tx = h.tx
       /\ hist'.got = h.got /\ hist'.lost = h.lost /\ hist'.pushed = h.pushed
       /\ hist'.wanted = h.wanted /\ hist'.filtersLost = h.filtersLost
  <2>1. l \in BOOLEAN /\ f \in Nat OBVIOUS
  <2> QED BY <1>3, <1>4, <1>9, <2>1 DEF Histories
<1>11. Kept(h) /\ hist'.late = (hist.late \/ c.op = "pop")
  BY <1>8, <1>10 DEF Kept, Recorded
<1>12. Whole(nic', Only(call.page), hist'.leaked) BY <1>3, <1>6, <1>10 DEF Whole
<1>13. Out(nic', hist.sent, Limit) BY <1>3, <1>6 DEF Out
<1>14. hist'.pushed \subseteq Members(hist.sent) \cup Packets(nic'.txq) \cup Pending(c)
  BY <1>3, <1>6, <1>10 DEF Recorded
<1> QED BY <1>3, <1>6, <1>11, <1>12, <1>13, <1>14

(* ------------------------- transmit and receive ------------------------ *)

\* The driver reads the MMU's register before it gives a command.
LEMMA CommandTouches ==
  ASSUME IInv, chip.state = "ready"
  PROVE  /\ Touched(chip, ReadIoReg16(chip, "MMUCR"))
         /\ Touched(chip, ReadIoReg16(WriteIoData(chip), "MMUCR"))
         /\ Touched(chip, ReadIoReg16(ReadIoData(chip), "MMUCR"))
<1>1. chip \in Chips /\ InBank(chip) BY Ready
<1>2. "MMUCR" \in DOMAIN Bank /\ "IST" \in DOMAIN Bank BY BankFacts
<1>3. {} \in Names BY DEF Names
<1>4. PICK w : w = WriteIoData(chip) OBVIOUS
<1>5. Touched(chip, w) BY <1>1, <1>3, <1>4, TouchFacts DEF WriteIoData
<1>6. PICK r : r = ReadIoData(chip) OBVIOUS
<1>7. Touched(chip, r) BY <1>1, <1>2, <1>6, ReadFacts DEF ReadIoData
<1>8. w \in Chips /\ InBank(w) /\ r \in Chips /\ InBank(r) BY <1>5, <1>7 DEF Touched
<1>9. Touched(w, ReadIoReg16(w, "MMUCR")) BY <1>2, <1>8, ReadFacts
<1>10. Touched(r, ReadIoReg16(r, "MMUCR")) BY <1>2, <1>8, ReadFacts
<1>11. Touched(chip, ReadIoReg16(w, "MMUCR")) BY <1>5, <1>9 DEF Touched, SameSoft
<1>12. Touched(chip, ReadIoReg16(r, "MMUCR")) BY <1>7, <1>10 DEF Touched, SameSoft
<1>13. Touched(chip, ReadIoReg16(chip, "MMUCR")) BY <1>1, <1>2, ReadFacts
<1> QED BY <1>4, <1>6, <1>11, <1>12, <1>13

LEMMA TransmitStep ==
  ASSUME ConstantsOK, IInv, SnpTransmit
  PROVE  IInv'
<1>1. /\ call.pc = "idle" /\ drv.mode = "Initialized" /\ drv' = drv
      /\ chip' = ReadIoReg16(chip, "MMUCR")
  BY DEF SnpTransmit, Idle
<1>2. chip.state = "ready" BY <1>1, Ready
<1>3. hist \in Histories /\ nic \in Nics /\ call \in Calls /\ drv \in Drivers
  BY DEF IInv, Types
<1>4. PICK n \in Nat : n = hist.tx + 1 BY <1>3 DEF Histories
<1>5. PICK h : h = [hist EXCEPT !.tx = n] OBVIOUS
<1>6. /\ h \in Histories /\ h.leaked = hist.leaked /\ h.sent = hist.sent /\ h.rx = hist.rx
      /\ h.good = hist.good /\ h.late = hist.late /\ h.wanted = hist.wanted
      /\ h.filtersLost = hist.filtersLost /\ h.pushed = hist.pushed
      /\ h.tx = n /\ h.got = hist.got /\ h.lost = hist.lost
  <2>1. n \in Nat OBVIOUS
  <2> QED BY <1>3, <1>5, <2>1 DEF Histories
<1>7. PICK c : c = Command("alloc") OBVIOUS
<1>8. c \in Commands /\ c.op = "alloc" /\ c.page = NoPage BY <1>7, CommandType
<1>9. Given(c) /\ Recorded(c, h) BY <1>6, <1>8 DEF Given, Recorded
<1>10. \/ MmuOperation(c, h) /\ call' = [NoCall EXCEPT !.pc = "alloc"]
       \/ MmuTimeout(c, h) /\ call' = call
  BY <1>4, <1>5, <1>7 DEF SnpTransmit
<1>11. call.page = NoPage /\ Only(NoPage) = {} BY <1>1 DEF IInv, CallPart, Only
<1>12. Limit = n /\ Pending(c) = {} BY <1>1, <1>4, <1>8 DEF Limit, Pending
<1>13. RegisterPart' /\ FilterPart' /\ chip'.state = chip.state
  <2>1. Touched(chip, chip') BY <1>1, <1>2, CommandTouches
  <2>2. hist'.wanted = hist.wanted /\ hist'.filtersLost = hist.filtersLost
    BY <1>9, <1>10, OperationFacts, TimeoutFacts DEF Kept
  <2> QED BY <1>2, <2>1, <2>2, ChipTouched DEF SameFilters
<1>14. CASE MmuOperation(c, h) /\ call' = [NoCall EXCEPT !.pc = "alloc"]
  <2>1. /\ nic' \in Nics /\ nic'.mmu = NoCommand
        /\ Kept(h) /\ hist'.late = hist.late
        /\ Whole(nic', Only(call.page) \ Only(c.page), hist'.leaked)
        /\ Out(nic', hist.sent, Limit)
        /\ hist'.pushed \subseteq Members(hist.sent) \cup Packets(nic'.txq)
        /\ Came(nic'.rxq, hist.rx, hist.good)
        /\ ~hist.late => nic'.rxq = nic.rxq
    BY <1>8, <1>9, <1>14, OperationFacts
  <2>2. call' = [pc |-> "alloc", page |-> NoPage] BY <1>14 DEF NoCall
  <2>3. call' \in Calls /\ call'.pc = "alloc" /\ call'.page = NoPage
    BY <2>2 DEF Calls, Pages
  <2>4. NoCommand.op = "none" /\ NoCommand.page = NoPage BY DEF NoCommand
  <2>5. Types' BY <1>1, <1>3, <2>1, <2>3 DEF Types, Kept
  <2>6. CallPart' BY <2>1, <2>3 DEF CallPart
  <2>7. MemoryPart'
    <3>1. Only(call.page) \ Only(c.page) = {} BY <1>11
    <3> QED BY <1>11, <2>1, <2>3, <2>4, <3>1 DEF MemoryPart
  <2>8. SendPart'
    <3>1. Coming' = n BY <1>6, <2>1, <2>3, <2>4 DEF Coming, Kept
    <3> QED BY <1>12, <2>1, <2>4, <3>1 DEF SendPart, Kept
  <2>9. ReceivePart'
    BY <1>6, <2>1, <2>4 DEF IInv, ReceivePart, Kept
  <2>10. ClientPart'
    <3>1. \A i \in DOMAIN drv.TransmitQueue : drv.TransmitQueue[i] < n
      BY <1>3, <1>4 DEF IInv, ClientPart, Drivers, Histories
    <3>2. hist'.tx = n BY <1>6, <2>1 DEF Kept
    <3>3. \A i \in DOMAIN drv.TransmitQueue : drv.TransmitQueue[i] <= n
      BY <1>3, <3>1 DEF Drivers
    <3> QED BY <1>1, <1>2, <1>13, <3>1, <3>2, <3>3 DEF IInv, ClientPart
  <2> QED BY <1>13, <2>5, <2>6, <2>7, <2>8, <2>9, <2>10 DEF IInv
<1>15. CASE MmuTimeout(c, h) /\ call' = call
  <2>1. /\ nic' \in Nics /\ nic'.mmu = c
        /\ Kept(h) /\ hist'.late = (hist.late \/ c.op = "pop")
        /\ Whole(nic', Only(call.page), hist'.leaked)
        /\ Out(nic', hist.sent, Limit)
        /\ hist'.pushed \subseteq Members(hist.sent) \cup Packets(nic'.txq) \cup Pending(c)
        /\ Came(nic'.rxq, hist.rx, hist.good)
    BY <1>9, <1>15, TimeoutFacts
  <2>2. ~hist.late => nic'.rxq = nic.rxq
    <3>1. PICK s : s = Settled OBVIOUS
    <3>2. s \in Nics /\ (~hist.late => s.rxq = nic.rxq) BY <3>1, SettledFacts
    <3>3. nic' = [s EXCEPT !.mmu = c] BY <1>15, <3>1 DEF MmuTimeout
    <3> QED BY <3>2, <3>3 DEF Nics
  <2>5. Types' BY <1>1, <1>3, <1>15, <2>1 DEF Types, Kept
  <2>6. CallPart' BY <1>1, <1>11, <1>15 DEF CallPart
  <2>7. MemoryPart'
    <3>1. Only(call'.page) \cup Only(nic'.mmu.page) = Only(call.page)
      BY <1>8, <1>11, <1>15, <2>1
    <3> QED BY <2>1, <3>1 DEF MemoryPart
  <2>8. SendPart'
    <3>1. n + 1 \in Nat /\ n <= n + 1 OBVIOUS
    <3>2. Coming' = n + 1 BY <1>1, <1>6, <1>8, <1>15, <2>1 DEF Coming, Kept
    <3>3. n \in Nat OBVIOUS
    <3>4. Out(nic', hist.sent, n + 1) BY <1>12, <2>1, <3>1, <3>3, OutRaise
    <3> QED BY <1>8, <1>12, <2>1, <3>2, <3>4 DEF SendPart, Kept
  <2>9. ReceivePart'
    BY <1>6, <1>8, <2>1, <2>2 DEF IInv, ReceivePart, Kept
  <2>10. ClientPart'
    <3>1. \A i \in DOMAIN drv.TransmitQueue : drv.TransmitQueue[i] <= n
      BY <1>3, <1>4 DEF IInv, ClientPart, Drivers, Histories
    <3>2. hist'.tx = n BY <1>6, <2>1 DEF Kept
    <3> QED BY <1>1, <1>2, <1>13, <1>15, <3>1, <3>2 DEF IInv, ClientPart
  <2> QED BY <1>13, <2>5, <2>6, <2>7, <2>8, <2>9, <2>10 DEF IInv
<1> QED BY <1>10, <1>14, <1>15

\* The packet number granted is the call's.
LEMMA AllocDoneStep ==
  ASSUME ConstantsOK, IInv, AllocDone
  PROVE  IInv'
<1>1. /\ call.pc = "alloc" /\ nic.alloc = "done" /\ drv' = drv /\ chip' = chip /\ hist' = hist
      /\ call' = [pc |-> "push", page |-> nic.arr]
      /\ nic' = [nic EXCEPT !.alloc = "none", !.arr = NoPage]
  BY DEF AllocDone
<1>2. hist \in Histories /\ nic \in Nics /\ call \in Calls /\ drv \in Drivers
  BY DEF IInv, Types
<1>3. nic.arr # NoPage /\ nic.arr \in Pages
  BY <1>1, <1>2 DEF IInv, MemoryPart, Whole, Nics
<1>4. call' \in Calls /\ call'.pc = "push" /\ call'.page = nic.arr
  BY <1>1, <1>3 DEF Calls
<1>5. /\ nic' \in Nics /\ nic'.mmu = nic.mmu /\ nic'.free = nic.free /\ nic'.txq = nic.txq
      /\ nic'.rxq = nic.rxq /\ nic'.alloc = "none" /\ nic'.arr = NoPage
  BY <1>1, <1>2 DEF Nics, Pages
<1>6. call.page = NoPage /\ nic.mmu = NoCommand BY <1>1 DEF IInv, CallPart
<1>7. NoCommand.op = "none" /\ NoCommand.page = NoPage BY DEF NoCommand
<1>8. Types' BY <1>1, <1>2, <1>4, <1>5 DEF Types
<1>9. CallPart' BY <1>3, <1>4, <1>5, <1>6 DEF CallPart
<1>10. MemoryPart'
  <2>1. Whole(nic, {}, hist.leaked) BY <1>6, <1>7 DEF IInv, MemoryPart, Only
  <2>2. Only(nic'.arr) = {} /\ Only(call'.page) = Only(nic.arr) /\ Only(nic'.mmu.page) = {}
    BY <1>4, <1>5, <1>6, <1>7 DEF Only
  <2>3. Split(nic'.free, Used(nic'.txq), Used(nic'.rxq), Only(nic'.arr), Only(nic.arr), hist.leaked)
    BY <1>5, <2>1, <2>2 DEF Whole, Split
  <2>4. Whole(nic', Only(nic.arr), hist'.leaked)
    BY <1>1, <1>5, <2>1, <2>3 DEF Whole
  <2> QED BY <2>2, <2>4 DEF MemoryPart
<1>11. SendPart'
  <2>1. Coming' = Coming BY <1>1, <1>4, <1>5 DEF Coming
  <2> QED BY <1>1, <1>5, <2>1 DEF IInv, SendPart, Out
<1>12. ReceivePart' BY <1>1, <1>5 DEF IInv, ReceivePart
<1>13. RegisterPart' /\ FilterPart' BY <1>1, ChipStays DEF SameFilters
<1>14. ClientPart' BY <1>1, <1>4 DEF IInv, ClientPart
<1> QED BY <1>8, <1>9, <1>10, <1>11, <1>12, <1>13, <1>14 DEF IInv

\* The allocation took too long, or was refused.
LEMMA AllocGivenUpStep ==
  ASSUME ConstantsOK, IInv, AllocTimeout \/ AllocFailed
  PROVE  IInv'
<1>1. /\ call.pc = "alloc" /\ drv' = drv /\ chip' = chip /\ hist' = hist /\ nic' = nic
      /\ call' = NoCall
  BY DEF AllocTimeout, AllocFailed
<1>2. hist \in Histories /\ nic \in Nics /\ call \in Calls /\ drv \in Drivers
  BY DEF IInv, Types
<1>3. call' \in Calls /\ call'.pc = "idle" /\ call'.page = NoPage
  BY <1>1 DEF Calls, NoCall, Pages
<1>4. call.page = NoPage /\ nic.mmu = NoCommand BY <1>1 DEF IInv, CallPart
<1>5. Types' BY <1>1, <1>2, <1>3 DEF Types
<1>6. CallPart' BY <1>3 DEF CallPart
<1>7. MemoryPart' BY <1>1, <1>3, <1>4 DEF IInv, MemoryPart
<1>8. SendPart'
  <2>1. NoCommand.op = "none" BY DEF NoCommand
  <2>2. Coming = hist.tx /\ Coming' = hist.tx + 1 BY <1>1, <1>3, <1>4, <2>1 DEF Coming
  <2>3. hist.tx \in Nat /\ hist.tx + 1 \in Nat /\ hist.tx <= hist.tx + 1
    BY <1>2 DEF Histories
  <2>4. Out(nic, hist.sent, hist.tx) BY <2>2 DEF IInv, SendPart
  <2>5. Out(nic, hist.sent, hist.tx + 1) BY <1>2, <2>3, <2>4, OutRaise
  <2> QED BY <1>1, <2>2, <2>5 DEF IInv, SendPart
<1>9. ReceivePart' BY <1>1 DEF IInv, ReceivePart
<1>10. RegisterPart' /\ FilterPart' BY <1>1, ChipStays DEF SameFilters
<1>11. ClientPart' BY <1>1, <1>3 DEF IInv, ClientPart
<1> QED BY <1>5, <1>6, <1>7, <1>8, <1>9, <1>10, <1>11 DEF IInv

\* What a release of the call's packet leaves, whether or not it was waited for.
LEMMA PushFacts ==
  ASSUME ConstantsOK, IInv, Push
  PROVE  /\ nic' \in Nics /\ hist' \in Histories
         /\ CallPart' /\ MemoryPart' /\ SendPart' /\ ReceivePart'
         /\ hist'.tx = hist.tx /\ SameFilters
<1>1. call.pc = "push" /\ call' = NoCall BY DEF Push
<1>2. hist \in Histories /\ nic \in Nics /\ call \in Calls BY DEF IInv, Types
<1>3. call.page # NoPage /\ call.page \in Memory
  BY <1>1, <1>2 DEF IInv, CallPart, Calls, Pages
<1>4. hist.tx \in Nat BY <1>2 DEF Histories
<1>5. PICK c : c = [op |-> "push", page |-> call.page, pkt |-> hist.tx] OBVIOUS
<1>6. c \in Commands BY <1>3, <1>4, <1>5, PushType
<1>7. c.op = "push" /\ c.page = call.page /\ c.pkt = hist.tx /\ Pending(c) = {hist.tx}
  BY <1>5 DEF Pending
<1>8. Given(c) BY <1>1, <1>6, <1>7 DEF Given
<1>9. PICK p : p = hist.pushed \cup {hist.tx} OBVIOUS
<1>10. p \in SUBSET Nat BY <1>2, <1>4, <1>9 DEF Histories
<1>11. PICK g : g = [hist EXCEPT !.pushed = p] OBVIOUS
<1>12. /\ g \in Histories /\ g.leaked = hist.leaked /\ g.sent = hist.sent /\ g.rx = hist.rx
       /\ g.good = hist.good /\ g.late = hist.late /\ g.wanted = hist.wanted
       /\ g.filtersLost = hist.filtersLost /\ g.pushed = p
       /\ g.tx = hist.tx /\ g.got = hist.got /\ g.lost = hist.lost
  BY <1>2, <1>10, <1>11 DEF Histories
<1>13. PICK f : f = [g EXCEPT !.faults = @ + 1] OBVIOUS
<1>14. f \in Histories BY <1>12, <1>13, FaultType
<1>15. /\ f.leaked = g.leaked /\ f.sent = g.sent /\ f.rx = g.rx
       /\ f.good = g.good /\ f.late = g.late /\ f.wanted = g.wanted
       /\ f.filtersLost = g.filtersLost /\ f.pushed = g.pushed
       /\ f.tx = g.tx /\ f.got = g.got /\ f.lost = g.lost
  BY <1>12, <1>13 DEF Histories
<1>16. Recorded(c, g) BY <1>7, <1>9, <1>12 DEF Recorded
<1>17. Recorded(c, f) BY <1>7, <1>9, <1>12, <1>14, <1>15 DEF Recorded
<1>18. MmuOperation(c, g) \/ MmuTimeout(c, g) \/ MmuOperation(c, f)
  <2>1. /\ hist.pushed \cup {hist.tx} = p
        /\ [[hist EXCEPT !.pushed = @ \cup {hist.tx}] EXCEPT !.faults = @ + 1] = f
        /\ [hist EXCEPT !.pushed = @ \cup {hist.tx}] = g
    BY <1>2, <1>9, <1>11, <1>13 DEF Histories
  <2> QED BY <1>5, <2>1 DEF Push
<1>19. /\ call' \in Calls /\ call'.pc = "idle" /\ call'.page = NoPage
       /\ Only(NoPage) = {} /\ NoCommand.op = "none" /\ NoCommand.page = NoPage
  BY <1>1 DEF Calls, NoCall, Pages, Only, NoCommand
<1>20. CallPart' BY <1>19 DEF CallPart
<1>21. nic.rxq = nic.rxq /\ Limit = hist.tx BY <1>1 DEF Limit
<1>22. ASSUME NEW h \in {g, f}, MmuOperation(c, h)
       PROVE  /\ nic' \in Nics /\ hist' \in Histories
              /\ MemoryPart' /\ SendPart' /\ ReceivePart'
              /\ hist'.tx = hist.tx /\ SameFilters
  <2>1. /\ nic' \in Nics /\ nic'.mmu = NoCommand
        /\ Kept(h) /\ hist'.late = hist.late
        /\ Whole(nic', Only(call.page) \ Only(c.page), hist'.leaked)
        /\ Out(nic', hist.sent, hist.tx + 1)
        /\ hist'.pushed \subseteq Members(hist.sent) \cup Packets(nic'.txq)
        /\ Came(nic'.rxq, hist.rx, hist.good)
        /\ ~hist.late => nic'.rxq = nic.rxq
    BY <1>7, <1>8, <1>16, <1>17, <1>22, OperationFacts
  <2>2. /\ hist' \in Histories /\ hist'.sent = hist.sent /\ hist'.rx = hist.rx
        /\ hist'.good = hist.good /\ hist'.tx = hist.tx /\ hist'.got = hist.got
        /\ hist'.lost = hist.lost /\ SameFilters
    BY <1>12, <1>15, <2>1 DEF Kept, SameFilters
  <2>3. MemoryPart'
    <3>1. Only(call.page) \ Only(c.page) = {} BY <1>7
    <3> QED BY <1>19, <2>1, <3>1 DEF MemoryPart
  <2>4. SendPart'
    <3>1. Coming' = hist.tx + 1 BY <1>19, <2>1, <2>2 DEF Coming
    <3> QED BY <1>19, <2>1, <2>2, <3>1 DEF SendPart
  <2>5. ReceivePart' BY <1>19, <2>1, <2>2 DEF IInv, ReceivePart
  <2> QED BY <2>1, <2>2, <2>3, <2>4, <2>5
<1>23. ASSUME MmuTimeout(c, g)
       PROVE  /\ nic' \in Nics /\ hist' \in Histories
              /\ MemoryPart' /\ SendPart' /\ ReceivePart'
              /\ hist'.tx = hist.tx /\ SameFilters
  <2>1. /\ nic' \in Nics /\ nic'.mmu = c
        /\ Kept(g) /\ hist'.late = (hist.late \/ c.op = "pop")
        /\ Whole(nic', Only(call.page), hist'.leaked)
        /\ Out(nic', hist.sent, Limit)
        /\ hist'.pushed \subseteq Members(hist.sent) \cup Packets(nic'.txq) \cup Pending(c)
        /\ Came(nic'.rxq, hist.rx, hist.good)
    BY <1>8, <1>16, <1>23, TimeoutFacts
  <2>2. /\ hist' \in Histories /\ hist'.sent = hist.sent /\ hist'.rx = hist.rx
        /\ hist'.good = hist.good /\ hist'.tx = hist.tx /\ hist'.got = hist.got
        /\ hist'.lost = hist.lost /\ SameFilters /\ hist'.late = hist.late
    BY <1>7, <1>12, <1>2, <2>1 DEF Kept, SameFilters, Histories
  <2>3. MemoryPart'
    <3>1. Only(call'.page) \cup Only(nic'.mmu.page) = Only(call.page)
      BY <1>7, <1>19, <2>1
    <3> QED BY <2>1, <3>1 DEF MemoryPart
  <2>4. SendPart'
    <3>1. Coming' = hist.tx BY <1>7, <2>1 DEF Coming
    <3>2. hist.tx <= hist'.tx BY <1>4, <2>2
    <3> QED BY <1>7, <1>21, <2>1, <2>2, <3>1, <3>2 DEF SendPart
  <2>5. ~hist.late => nic'.rxq = nic.rxq
    <3>1. PICK s : s = Settled OBVIOUS
    <3>2. s \in Nics /\ (~hist.late => s.rxq = nic.rxq) BY <3>1, SettledFacts
    <3>3. nic' = [s EXCEPT !.mmu = c] BY <1>23, <3>1 DEF MmuTimeout
    <3> QED BY <3>2, <3>3 DEF Nics
  <2>6. ReceivePart' BY <1>7, <2>1, <2>2, <2>5 DEF IInv, ReceivePart
  <2> QED BY <2>1, <2>2, <2>3, <2>4, <2>6
<1> QED BY <1>18, <1>20, <1>22, <1>23

LEMMA PushStep ==
  ASSUME ConstantsOK, IInv, Push
  PROVE  IInv'
<1>1. /\ call.pc = "push" /\ call' = NoCall
      /\ chip' = ReadIoReg16(WriteIoData(chip), "MMUCR")
      /\ drv' = drv \/ drv' = [drv EXCEPT !.TransmitQueue = Append(@, hist.tx)]
  BY DEF Push
<1>2. chip.state = "ready" /\ drv.mode = "Initialized" BY <1>1, Ready
<1>3. /\ nic' \in Nics /\ hist' \in Histories
      /\ CallPart' /\ MemoryPart' /\ SendPart' /\ ReceivePart'
      /\ hist'.tx = hist.tx /\ SameFilters
  BY PushFacts
<1>4. RegisterPart' /\ FilterPart' /\ chip'.state = chip.state
  <2>1. Touched(chip, chip') BY <1>1, <1>2, CommandTouches
  <2> QED BY <1>2, <1>3, <2>1, ChipTouched
<1>5. PICK q : q = drv.TransmitQueue OBVIOUS
<1>6. /\ q \in Seq(Nat) /\ Ascending(q) /\ hist.tx \in Nat /\ drv \in Drivers
      /\ \A i \in DOMAIN q : q[i] <= hist.tx /\ q[i] < hist.tx
  BY <1>1, <1>5 DEF IInv, Types, Drivers, Histories, ClientPart
<1>7. PICK a : a = Append(q, hist.tx) OBVIOUS
<1>8. /\ a \in Seq(Nat) /\ Ascending(a)
      /\ \A i \in DOMAIN a : (i \in DOMAIN q /\ a[i] = q[i]) \/ a[i] = hist.tx
  BY <1>6, <1>7, AppendFacts, AscendingAppend
<1>9. hist.tx <= hist.tx BY <1>6
<1>10. \A i \in DOMAIN a : a[i] <= hist.tx BY <1>6, <1>8, <1>9
<1>11. /\ drv' \in Drivers /\ drv'.mode = "Initialized"
       /\ drv'.TransmitQueue = q \/ drv'.TransmitQueue = a
  <2>1. CASE drv' = drv BY <1>2, <1>5, <1>6, <2>1
  <2>2. CASE drv' = [drv EXCEPT !.TransmitQueue = Append(@, hist.tx)]
    <3>1. drv' = [drv EXCEPT !.TransmitQueue = a] BY <1>5, <1>6, <1>7, <2>2 DEF Drivers
    <3> QED BY <1>2, <1>6, <1>8, <3>1 DEF Drivers
  <2> QED BY <1>1, <2>1, <2>2
<1>12. call' \in Calls /\ call'.pc = "idle" BY <1>1 DEF Calls, NoCall, Pages
<1>13. Types' BY <1>3, <1>11, <1>12 DEF Types
<1>14. ClientPart'
  BY <1>2, <1>3, <1>4, <1>6, <1>8, <1>10, <1>11, <1>12 DEF ClientPart
<1> QED BY <1>3, <1>4, <1>13, <1>14 DEF IInv

\* The first packet is given to the client, or dropped, and then released.
LEMMA ReceiveStep ==
  ASSUME ConstantsOK, IInv, SnpReceive
  PROVE  IInv'
<1>1. /\ call.pc = "idle" /\ drv.mode = "Initialized" /\ drv' = drv /\ call' = call
      /\ nic.rxq # <<>> /\ chip' = ReadIoReg16(ReadIoData(chip), "MMUCR")
  BY DEF SnpReceive, Idle
<1>2. chip.state = "ready" BY <1>1, Ready
<1>3. hist \in Histories /\ nic \in Nics /\ call \in Calls /\ drv \in Drivers
  BY DEF IInv, Types
<1>4. PICK x : x = Head(nic.rxq) OBVIOUS
<1>5. nic.rxq \in Seq(RxPacket) BY <1>3 DEF Nics
<1>6. x \in RxPacket /\ x.pkt \in Nat
  <2>1. x \in RxPacket BY <1>1, <1>4, <1>5, QueueTail
  <2> QED BY <2>1 DEF RxPacket
<1>7. hist.got \in Seq(Nat) /\ hist.lost \subseteq Nat /\ hist.rx \in Nat
  BY <1>3 DEF Histories
<1>8. PICK a : a = Append(hist.got, x.pkt) OBVIOUS
<1>9. a \in Seq(Nat) BY <1>6, <1>7, <1>8
<1>10. PICK b : b = hist.lost \cup {x.pkt} OBVIOUS
<1>11. b \in SUBSET Nat BY <1>6, <1>7, <1>10
<1>12. PICK t : t = [hist EXCEPT !.got = a] OBVIOUS
<1>13. PICK d : d = [hist EXCEPT !.lost = b] OBVIOUS
<1>14. PICK c : c = Command("pop") OBVIOUS
<1>15. c \in Commands /\ c.op = "pop" /\ c.page = NoPage BY <1>14, CommandType
<1>16. /\ t \in Histories /\ t.leaked = hist.leaked /\ t.sent = hist.sent /\ t.rx = hist.rx
       /\ t.good = hist.good /\ t.late = hist.late /\ t.wanted = hist.wanted
       /\ t.filtersLost = hist.filtersLost /\ t.pushed = hist.pushed
       /\ t.tx = hist.tx /\ t.got = a /\ t.lost = hist.lost
  BY <1>3, <1>9, <1>12 DEF Histories
<1>17. /\ d \in Histories /\ d.leaked = hist.leaked /\ d.sent = hist.sent /\ d.rx = hist.rx
       /\ d.good = hist.good /\ d.late = hist.late /\ d.wanted = hist.wanted
       /\ d.filtersLost = hist.filtersLost /\ d.pushed = hist.pushed
       /\ d.tx = hist.tx /\ d.got = hist.got /\ d.lost = b
  BY <1>3, <1>11, <1>13 DEF Histories
<1>18. PICK h \in {t, d} :
         /\ (h = t /\ x.ok) \/ h = d
         /\ MmuOperation(c, h) \/ MmuTimeout(c, h)
  <2>1. /\ t = [hist EXCEPT !.got = Append(@, x.pkt)]
        /\ d = [hist EXCEPT !.lost = @ \cup {x.pkt}]
    BY <1>3, <1>8, <1>10, <1>12, <1>13 DEF Histories
  <2>2. PICK h \in (IF x.ok THEN {t, d} ELSE {d}) : MmuOperation(c, h) \/ MmuTimeout(c, h)
    BY <1>4, <1>14, <2>1 DEF SnpReceive
  <2>3. (h = t /\ x.ok) \/ h = d
    <3>1. CASE x.ok BY <2>2, <3>1
    <3>2. CASE ~x.ok BY <2>2, <3>2
    <3> QED BY <3>1, <3>2
  <2>4. h \in {t, d} BY <2>3
  <2> QED BY <2>2, <2>3, <2>4
<1>19. Given(c) /\ Recorded(c, h)
  BY <1>15, <1>16, <1>17, <1>18 DEF Given, Recorded
<1>20. MmuOperation(c, h) \/ MmuTimeout(c, h) BY <1>18
<1>21. Pending(c) = {} /\ call.page = NoPage /\ Only(NoPage) = {}
  BY <1>1, <1>15 DEF IInv, CallPart, Only, Pending
<1>22. /\ nic' \in Nics /\ nic'.mmu \in {c, NoCommand} /\ Kept(h)
       /\ Whole(nic', {}, hist'.leaked)
       /\ Out(nic', hist.sent, Limit)
       /\ hist'.pushed \subseteq Members(hist.sent) \cup Packets(nic'.txq)
       /\ Came(nic'.rxq, hist.rx, hist.good)
  <2>1. CASE MmuOperation(c, h)
    <3>1. Only(call.page) \ Only(c.page) = {} BY <1>21
    <3> QED BY <1>15, <1>19, <2>1, <3>1, OperationFacts
  <2>2. CASE MmuTimeout(c, h)
    BY <1>15, <1>19, <1>21, <2>2, TimeoutFacts
  <2> QED BY <1>20, <2>1, <2>2
<1>23. /\ hist' \in Histories /\ hist'.sent = hist.sent /\ hist'.rx = hist.rx
       /\ hist'.good = hist.good /\ hist'.tx = hist.tx /\ SameFilters
  BY <1>16, <1>17, <1>18, <1>22 DEF Kept, SameFilters
<1>24. RegisterPart' /\ FilterPart' /\ chip'.state = chip.state
  <2>1. Touched(chip, chip') BY <1>1, <1>2, CommandTouches
  <2> QED BY <1>2, <1>23, <2>1, ChipTouched
<1>25. Types' BY <1>1, <1>3, <1>22, <1>23 DEF Types
<1>26. CallPart' BY <1>1, <1>21 DEF CallPart
<1>27. nic'.mmu.op # "push" /\ nic'.mmu.page = NoPage /\ Pending(nic'.mmu) = {}
  BY <1>15, <1>22 DEF NoCommand, Pending
<1>28. MemoryPart'
  <2>1. Only(call'.page) \cup Only(nic'.mmu.page) = {} BY <1>1, <1>21, <1>27
  <2> QED BY <1>22, <2>1 DEF MemoryPart
<1>29. SendPart'
  <2>1. Coming' = Limit BY <1>1, <1>23, <1>27 DEF Coming, Limit
  <2> QED BY <1>22, <1>23, <1>27, <2>1 DEF SendPart
<1>30. ReceivePart'
  <2>1. CASE MmuTimeout(c, h)
    <3>1. hist'.late = TRUE BY <1>15, <1>19, <2>1, TimeoutFacts
    <3> QED BY <1>22, <1>23, <3>1 DEF ReceivePart
  <2>2. CASE MmuOperation(c, h)
    <3>1. /\ hist'.late = hist.late /\ nic'.mmu = NoCommand
          /\ ~hist.late => nic'.rxq = Tail(nic.rxq)
      BY <1>1, <1>15, <1>19, <2>2, OperationFacts
    <3>2. nic'.mmu.op # "pop" BY <3>1 DEF NoCommand
    <3>3. ASSUME ~hist.late
          PROVE  Handed(nic'.rxq, hist'.got, hist.good, hist'.lost, hist.rx)
      <4>1. Came(nic.rxq, hist.rx, hist.good)
            /\ Handed(nic.rxq, hist.got, hist.good, hist.lost, hist.rx)
        BY <3>3 DEF IInv, ReceivePart
      <4>2. /\ x.ok => Handed(Tail(nic.rxq), a, hist.good, hist.lost, hist.rx)
            /\ Handed(Tail(nic.rxq), hist.got, hist.good, b, hist.rx)
        BY <1>1, <1>4, <1>7, <1>8, <1>10, <4>1, HandedTaken
      <4>3. CASE h = d
        <5>1. hist'.got = hist.got /\ hist'.lost = b BY <1>17, <1>22, <4>3 DEF Kept
        <5> QED BY <3>1, <3>3, <4>2, <5>1
      <4>4. CASE h = t /\ h # d
        <5>1. hist'.got = a /\ hist'.lost = hist.lost BY <1>16, <1>22, <4>4 DEF Kept
        <5>2. x.ok BY <1>18, <4>4
        <5> QED BY <3>1, <3>3, <4>2, <5>1, <5>2
      <4> QED BY <1>18, <4>3, <4>4
    <3> QED BY <1>22, <1>23, <3>1, <3>2, <3>3 DEF ReceivePart
  <2> QED BY <1>20, <2>1, <2>2
<1>31. ClientPart' BY <1>1, <1>23, <1>24, ClientStep DEF SameClient
<1> QED BY <1>24, <1>25, <1>26, <1>28, <1>29, <1>30, <1>31 DEF IInv

(* ------------------------ steps of the controller ---------------------- *)

LEMMA MmuStep ==
  ASSUME ConstantsOK, IInv, NicMmu
  PROVE  IInv'
<1>1. /\ nic.mmu.op # "none" /\ nic' = Settled /\ drv' = drv /\ chip' = chip /\ call' = call
      /\ hist' = [hist EXCEPT !.leaked = @ \cup Forgotten(nic, nic.mmu)]
  BY DEF NicMmu
<1>2. hist \in Histories /\ nic \in Nics /\ call \in Calls /\ drv \in Drivers
  BY DEF IInv, Types
<1>3. PICK L : L = hist.leaked \cup Forgotten(nic, nic.mmu) OBVIOUS
<1>4. /\ nic' \in Nics /\ nic'.mmu = NoCommand /\ Whole(nic', Only(call.page), L)
      /\ Out(nic', hist.sent, Limit)
      /\ hist.pushed \subseteq Members(hist.sent) \cup Packets(nic'.txq)
      /\ Came(nic'.rxq, hist.rx, hist.good)
      /\ ~hist.late => nic'.rxq = nic.rxq
      /\ L \in SUBSET Memory
  BY <1>1, <1>3, SettledFacts
<1>5. hist' = [hist EXCEPT !.leaked = L] BY <1>1, <1>2, <1>3 DEF Histories
<1>6. /\ hist' \in Histories /\ hist'.leaked = L /\ hist'.sent = hist.sent
      /\ hist'.rx = hist.rx /\ hist'.good = hist.good /\ hist'.late = hist.late
      /\ hist'.tx = hist.tx /\ hist'.got = hist.got /\ hist'.lost = hist.lost
      /\ hist'.pushed = hist.pushed /\ SameFilters
  BY <1>2, <1>4, <1>5 DEF Histories, SameFilters
<1>7. NoCommand.op = "none" /\ NoCommand.page = NoPage /\ Only(NoPage) = {}
  BY DEF NoCommand, Only
<1>8. Types' BY <1>1, <1>2, <1>4, <1>6 DEF Types
<1>9. CallPart' BY <1>1, <1>4 DEF IInv, CallPart
<1>10. MemoryPart' BY <1>1, <1>4, <1>6, <1>7 DEF MemoryPart
<1>11. SendPart'
  <2>1. Coming' = Limit BY <1>1, <1>4, <1>6, <1>7 DEF Coming, Limit
  <2> QED BY <1>4, <1>6, <1>7, <2>1 DEF SendPart
<1>12. ReceivePart' BY <1>4, <1>6, <1>7 DEF IInv, ReceivePart
<1>13. RegisterPart' /\ FilterPart' BY <1>1, <1>6, ChipStays
<1>14. ClientPart' BY <1>1, <1>6, ClientStep DEF SameClient
<1> QED BY <1>8, <1>9, <1>10, <1>11, <1>12, <1>13, <1>14 DEF IInv

\* Memory is granted to the allocation, or the allocation is refused.
LEMMA GrantStep ==
  ASSUME ConstantsOK, IInv, NicGrant
  PROVE  IInv'
<1>1. /\ nic.alloc = "asked" /\ drv' = drv /\ chip' = chip /\ call' = call /\ hist' = hist
      /\ \/ /\ nic.free # {}
            /\ nic' = [nic EXCEPT !.alloc = "done", !.arr = Page, !.free = @ \ {Page}]
         \/ nic' = [nic EXCEPT !.alloc = "failed"]
  BY DEF NicGrant
<1>2. hist \in Histories /\ nic \in Nics /\ call \in Calls /\ drv \in Drivers
  BY DEF IInv, Types
<1>3. PICK p : p = Page OBVIOUS
<1>4. nic.free # {} => p \in nic.free BY <1>3 DEF Page
<1>5. nic.free \subseteq Memory BY <1>2 DEF Nics
<1>6. NoPage \notin Memory BY DEF ConstantsOK, NoPage
<1>7. PICK hand : hand = Only(call.page) \cup Only(nic.mmu.page) OBVIOUS
<1>8. Whole(nic, hand, hist.leaked) /\ nic.arr = NoPage
  BY <1>1, <1>7 DEF IInv, MemoryPart, Whole
<1>9. /\ nic' \in Nics /\ nic'.txq = nic.txq /\ nic'.rxq = nic.rxq /\ nic'.mmu = nic.mmu
      /\ Whole(nic', hand, hist.leaked)
  <2>1. CASE nic.free # {} /\ nic' = [nic EXCEPT !.alloc = "done", !.arr = Page, !.free = @ \ {Page}]
    <3>1. p \in nic.free /\ p \in Memory /\ p # NoPage BY <1>4, <1>5, <1>6, <2>1
    <3>2. PICK F : F = nic.free \ {p} OBVIOUS
    <3>3. F \in SUBSET Memory BY <1>5, <3>2
    <3>4. nic' = [nic EXCEPT !.alloc = "done", !.arr = p, !.free = F]
      BY <1>2, <1>3, <2>1, <3>2 DEF Nics
    <3>5. p \in Pages BY <3>1 DEF Pages
    <3>6. /\ nic' \in Nics /\ nic'.txq = nic.txq /\ nic'.rxq = nic.rxq /\ nic'.mmu = nic.mmu
          /\ nic'.alloc = "done" /\ nic'.arr = p /\ nic'.free = F
      BY <1>2, <3>3, <3>4, <3>5 DEF Nics
    <3>7. Only(nic.arr) = {} /\ Only(p) = {p} BY <1>8, <3>1 DEF Only
    <3>8. Split(F, Used(nic.txq), Used(nic.rxq), {p}, hand, hist.leaked)
      BY <1>8, <3>1, <3>2, <3>7 DEF Whole, Split
    <3> QED BY <1>8, <3>1, <3>6, <3>7, <3>8 DEF Whole
  <2>2. CASE nic' = [nic EXCEPT !.alloc = "failed"]
    <3>1. /\ nic' \in Nics /\ nic'.txq = nic.txq /\ nic'.rxq = nic.rxq /\ nic'.mmu = nic.mmu
          /\ nic'.alloc = "failed" /\ nic'.arr = nic.arr /\ nic'.free = nic.free
      BY <1>2, <2>2 DEF Nics
    <3> QED BY <1>8, <3>1 DEF Whole
  <2> QED BY <1>1, <2>1, <2>2
<1>10. Types' BY <1>1, <1>2, <1>9 DEF Types
<1>11. CallPart' BY <1>1, <1>9 DEF IInv, CallPart
<1>12. MemoryPart' BY <1>1, <1>7, <1>9 DEF MemoryPart
<1>13. SendPart'
  <2>1. Coming' = Coming BY <1>1, <1>9 DEF Coming
  <2> QED BY <1>1, <1>9, <2>1 DEF IInv, SendPart, Out
<1>14. ReceivePart' BY <1>1, <1>9 DEF IInv, ReceivePart
<1>15. RegisterPart' /\ FilterPart' BY <1>1, ChipStays DEF SameFilters
<1>16. ClientPart' BY <1>1, ClientStep DEF SameClient
<1> QED BY <1>10, <1>11, <1>12, <1>13, <1>14, <1>15, <1>16 DEF IInv

\* The first packet of the FIFO is sent, and its memory is free.
LEMMA SendStep ==
  ASSUME ConstantsOK, IInv, NicSend
  PROVE  IInv'
<1>1. /\ nic.txq # <<>> /\ drv' = drv /\ chip' = chip /\ call' = call
      /\ nic' = [nic EXCEPT !.txq = Tail(@), !.free = @ \cup {Head(nic.txq).page}]
      /\ hist' = [hist EXCEPT !.sent = Append(@, Head(nic.txq).pkt)]
  BY DEF NicSend
<1>2. hist \in Histories /\ nic \in Nics /\ call \in Calls /\ drv \in Drivers
  BY DEF IInv, Types
<1>3. nic.txq \in Seq(TxPacket) /\ nic.free \subseteq Memory BY <1>2 DEF Nics
<1>4. PICK x : x = Head(nic.txq) OBVIOUS
<1>5. PICK q : q = Tail(nic.txq) OBVIOUS
<1>6. /\ q \in Seq(TxPacket) /\ x \in TxPacket
      /\ Used(nic.txq) = Used(q) \cup {x.page}
      /\ Apart(nic.txq) => Apart(q) /\ x.page \notin Used(q)
  BY <1>1, <1>3, <1>4, <1>5, QueueTail
<1>7. x.page \in Memory /\ x.pkt \in Nat BY <1>6 DEF TxPacket
<1>8. PICK F : F = nic.free \cup {x.page} OBVIOUS
<1>9. F \in SUBSET Memory BY <1>3, <1>7, <1>8
<1>10. nic' = [nic EXCEPT !.txq = q, !.free = F]
  BY <1>1, <1>2, <1>4, <1>5, <1>8 DEF Nics
<1>11. /\ nic' \in Nics /\ nic'.txq = q /\ nic'.free = F /\ nic'.rxq = nic.rxq
       /\ nic'.mmu = nic.mmu /\ nic'.alloc = nic.alloc /\ nic'.arr = nic.arr
  BY <1>2, <1>6, <1>9, <1>10 DEF Nics
<1>12. PICK s : s = Append(hist.sent, x.pkt) OBVIOUS
<1>13. hist.sent \in Seq(Nat) /\ hist.tx \in Nat BY <1>2 DEF Histories
<1>14. s \in Seq(Nat) BY <1>7, <1>12, <1>13
<1>15. hist' = [hist EXCEPT !.sent = s] BY <1>1, <1>2, <1>4, <1>12 DEF Histories
<1>16. /\ hist' \in Histories /\ hist'.sent = s /\ hist'.leaked = hist.leaked
       /\ hist'.rx = hist.rx /\ hist'.good = hist.good /\ hist'.late = hist.late
       /\ hist'.tx = hist.tx /\ hist'.got = hist.got /\ hist'.lost = hist.lost
       /\ hist'.pushed = hist.pushed /\ SameFilters
  BY <1>2, <1>14, <1>15 DEF Histories, SameFilters
<1>17. Types' BY <1>1, <1>2, <1>11, <1>16 DEF Types
<1>18. CallPart' BY <1>1, <1>11 DEF IInv, CallPart
<1>19. MemoryPart'
  <2>1. PICK hand : hand = Only(call.page) \cup Only(nic.mmu.page) OBVIOUS
  <2>2. Whole(nic, hand, hist.leaked) BY <2>1 DEF IInv, MemoryPart
  <2>3. Apart(q) /\ x.page \notin Used(q) BY <1>6, <2>2 DEF Whole
  <2>4. Split(F, Used(q), Used(nic.rxq), Only(nic.arr), hand, hist.leaked)
    BY <1>6, <1>8, <2>2, <2>3 DEF Whole, Split
  <2>5. Whole(nic', hand, hist'.leaked) BY <1>11, <1>16, <2>2, <2>3, <2>4 DEF Whole
  <2> QED BY <1>1, <1>11, <2>1, <2>5 DEF MemoryPart
<1>20. SendPart'
  <2>1. PICK k : k = Coming OBVIOUS
  <2>2. k \in Nat BY <1>2, <1>13, <2>1 DEF Nics, Commands, Coming
  <2>3. Coming' = k BY <1>1, <1>11, <1>16, <2>1 DEF Coming
  <2>4. Out(nic, hist.sent, k) BY <2>1 DEF IInv, SendPart
  <2>5. /\ Out(nic', s, k)
        /\ Members(s) \cup Packets(nic'.txq) = Members(hist.sent) \cup Packets(nic.txq)
    <3>1. PICK e : e = nic' OBVIOUS
    <3>2. e.txq = Tail(nic.txq) BY <1>5, <1>11, <3>1
    <3>3. s = Append(hist.sent, Head(nic.txq).pkt) BY <1>4, <1>12
    <3>4. Out(e, s, k) /\ Members(s) \cup Packets(e.txq) = Members(hist.sent) \cup Packets(nic.txq)
      BY <1>1, <1>2, <2>2, <2>4, <3>2, <3>3, SendOut
    <3> QED BY <3>1, <3>4
  <2> QED BY <1>11, <1>16, <2>3, <2>5 DEF IInv, SendPart
<1>21. ReceivePart' BY <1>11, <1>16 DEF IInv, ReceivePart
<1>22. RegisterPart' /\ FilterPart' BY <1>1, <1>16, ChipStays
<1>23. ClientPart' BY <1>1, <1>16, ClientStep DEF SameClient
<1> QED BY <1>17, <1>18, <1>19, <1>20, <1>21, <1>22, <1>23 DEF IInv

\* A packet arrives, and takes memory from the pool.
LEMMA ArriveStep ==
  ASSUME ConstantsOK, IInv, NicReceive
  PROVE  IInv'
<1>1. nic.free # {} /\ drv' = drv /\ chip' = chip /\ call' = call BY DEF NicReceive
<1>2. PICK p : p = Page OBVIOUS
<1>3. PICK ok \in BOOLEAN :
        /\ nic' = [nic EXCEPT !.free = @ \ {p}, !.rxq = Append(@,
                     [page |-> p, pkt |-> hist.rx + 1, ok |-> ok])]
        /\ hist' = [hist EXCEPT !.rx = @ + 1,
                     !.good = IF ok THEN @ \cup {hist.rx + 1} ELSE @]
  BY <1>2 DEF NicReceive
<1>4. hist \in Histories /\ nic \in Nics /\ call \in Calls /\ drv \in Drivers
  BY DEF IInv, Types
<1>5. p \in nic.free BY <1>1, <1>2 DEF Page
<1>6. nic.rxq \in Seq(RxPacket) /\ nic.free \subseteq Memory /\ p \in Memory
  BY <1>4, <1>5 DEF Nics
<1>7. hist.rx \in Nat /\ hist.good \subseteq Nat /\ hist.got \in Seq(Nat)
  BY <1>4 DEF Histories
<1>8. PICK n \in Nat : n = hist.rx + 1 BY <1>7
<1>9. PICK x : x = [page |-> p, pkt |-> n, ok |-> ok] OBVIOUS
<1>10. ok \in BOOLEAN /\ n \in Nat OBVIOUS
<1>11. x \in RxPacket /\ x.page = p BY <1>6, <1>9, <1>10 DEF RxPacket
<1>12. PICK q : q = Append(nic.rxq, x) OBVIOUS
<1>13. /\ q \in Seq(RxPacket) /\ Used(q) = Used(nic.rxq) \cup {p}
       /\ Apart(nic.rxq) /\ p \notin Used(nic.rxq) => Apart(q)
  BY <1>6, <1>11, <1>12, QueueAppend
<1>14. PICK F : F = nic.free \ {p} OBVIOUS
<1>15. F \in SUBSET Memory BY <1>6, <1>14
<1>16. nic' = [nic EXCEPT !.free = F, !.rxq = q]
  BY <1>3, <1>4, <1>8, <1>9, <1>12, <1>14 DEF Nics
<1>17. /\ nic' \in Nics /\ nic'.txq = nic.txq /\ nic'.free = F /\ nic'.rxq = q
       /\ nic'.mmu = nic.mmu /\ nic'.alloc = nic.alloc /\ nic'.arr = nic.arr
  BY <1>4, <1>13, <1>15, <1>16 DEF Nics
<1>18. PICK g : g = IF ok THEN hist.good \cup {n} ELSE hist.good OBVIOUS
<1>19. g \in SUBSET Nat BY <1>7, <1>10, <1>18
<1>20. hist' = [hist EXCEPT !.rx = n, !.good = g] BY <1>3, <1>4, <1>8, <1>18 DEF Histories
<1>21. /\ hist' \in Histories /\ hist'.sent = hist.sent /\ hist'.leaked = hist.leaked
       /\ hist'.rx = n /\ hist'.good = g /\ hist'.late = hist.late
       /\ hist'.tx = hist.tx /\ hist'.got = hist.got /\ hist'.lost = hist.lost
       /\ hist'.pushed = hist.pushed /\ SameFilters
  BY <1>4, <1>10, <1>19, <1>20 DEF Histories, SameFilters
<1>22. Types' BY <1>1, <1>4, <1>17, <1>21 DEF Types
<1>23. CallPart' BY <1>1, <1>17 DEF IInv, CallPart
<1>24. MemoryPart'
  <2>1. PICK hand : hand = Only(call.page) \cup Only(nic.mmu.page) OBVIOUS
  <2>2. Whole(nic, hand, hist.leaked) BY <2>1 DEF IInv, MemoryPart
  <2>3. p \notin Used(nic.rxq) BY <1>5, <2>2 DEF Whole, Split
  <2>4. Apart(q) BY <1>13, <2>2, <2>3 DEF Whole
  <2>5. Split(F, Used(nic.txq), Used(q), Only(nic.arr), hand, hist.leaked)
    BY <1>5, <1>13, <1>14, <2>2 DEF Whole, Split
  <2>6. Whole(nic', hand, hist'.leaked) BY <1>17, <1>21, <2>2, <2>4, <2>5 DEF Whole
  <2> QED BY <1>1, <1>17, <2>1, <2>6 DEF MemoryPart
<1>25. SendPart'
  <2>1. Coming' = Coming BY <1>1, <1>17, <1>21 DEF Coming
  <2> QED BY <1>17, <1>21, <2>1 DEF IInv, SendPart, Out
<1>26. ReceivePart'
  <2>1. Came(nic.rxq, hist.rx, hist.good) BY DEF IInv, ReceivePart
  <2>2. /\ q = Append(nic.rxq, [page |-> p, pkt |-> hist.rx + 1, ok |-> ok])
        /\ g = (IF ok THEN hist.good \cup {hist.rx + 1} ELSE hist.good)
        /\ n = hist.rx + 1
    BY <1>8, <1>9, <1>12, <1>18
  <2>3. Came(q, n, g) BY <1>6, <1>7, <1>10, <2>1, <2>2, CameAppend
  <2>4. ASSUME ~hist.late PROVE Handed(q, hist.got, g, hist.lost, n)
    <3>1. Handed(nic.rxq, hist.got, hist.good, hist.lost, hist.rx)
      BY <2>4 DEF IInv, ReceivePart
    <3> QED BY <1>6, <1>7, <1>10, <2>1, <2>2, <3>1, HandedArrives
  <2> QED BY <1>17, <1>21, <2>3, <2>4 DEF IInv, ReceivePart
<1>27. RegisterPart' /\ FilterPart' BY <1>1, <1>21, ChipStays
<1>28. ClientPart' BY <1>1, <1>21, ClientStep DEF SameClient
<1> QED BY <1>22, <1>23, <1>24, <1>25, <1>26, <1>27, <1>28 DEF IInv

(* ------------------------------ the theorems --------------------------- *)

LEMMA Initially ==
  ASSUME ConstantsOK, Init
  PROVE  IInv
<1>1. PICK max \in Bounds : \E part \in max.chips :
        /\ chip = [part |-> part, state |-> "new", bank |-> part.bank, BankSel |-> 255,
                   reg |-> PowerOn, astray |-> FALSE, PhyAd |-> LAN91X_NO_PHY,
                   advert |-> {}, Permanent |-> 0, Current |-> 0,
                   ReceiveFilterSetting |-> {}]
        /\ hist = [max |-> max, tx |-> 0, rx |-> 0, faults |-> 0, calls |-> 0,
                   wanted |-> {}, filtersLost |-> FALSE, good |-> {}, got |-> <<>>,
                   pushed |-> {}, sent |-> <<>>, lost |-> {}, late |-> FALSE,
                   leaked |-> {}]
  BY DEF Init
<1>2. PICK part \in max.chips :
        chip = [part |-> part, state |-> "new", bank |-> part.bank, BankSel |-> 255,
                reg |-> PowerOn, astray |-> FALSE, PhyAd |-> LAN91X_NO_PHY,
                advert |-> {}, Permanent |-> 0, Current |-> 0,
                ReceiveFilterSetting |-> {}]
  BY <1>1
<1>3. drv = [mode |-> "Stopped", MediaPresent |-> FALSE, TransmitQueue |-> <<>>]
      /\ nic = [free |-> Memory, txq |-> <<>>, rxq |-> <<>>,
                mmu |-> NoCommand, alloc |-> "none", arr |-> NoPage]
      /\ call = NoCall
  BY DEF Init
<1>4. part \in Parts /\ part.bank \in 0 .. 3 BY DEF Parts, ConstantsOK, PartOK
<1>5. PowerOn \in Registers /\ PowerOn["RCR"] = {}
  <2>1. {} \in Names /\ {} \in Tables /\ 0 \in Nat BY DEF Names, Tables
  <2>2. \A r \in DOMAIN Bank : OfType(r, PowerOn[r]) BY <2>1 DEF PowerOn, OfType
  <2>3. \A r \in DOMAIN Bank : PowerOn[r] \in Values BY <2>1 DEF PowerOn, Values
  <2>4. PowerOn \in [DOMAIN Bank -> Values] BY <2>3 DEF PowerOn
  <2> QED BY <2>2, <2>4, BankFacts DEF Registers, PowerOn
<1>6. chip \in Chips
  <2>1. LAN91X_NO_PHY \in -1 .. 31 BY DEF LAN91X_NO_PHY
  <2>2. {} \in SUBSET Abilities /\ {} \in SUBSET DOMAIN RcrBit OBVIOUS
  <2> QED BY <1>2, <1>4, <1>5, <2>1, <2>2 DEF Chips
<1>7. hist \in Histories BY <1>1 DEF Histories
<1>8. nic \in Nics
  <2>1. <<>> \in Seq(TxPacket) /\ <<>> \in Seq(RxPacket) OBVIOUS
  <2>2. NoPage \in Pages /\ NoCommand \in Commands BY NoCommandType DEF Pages
  <2> QED BY <1>3, <2>1, <2>2 DEF Nics
<1>9. drv \in Drivers BY <1>3 DEF Drivers
<1>10. call \in Calls /\ call.pc = "idle" /\ call.page = NoPage
  BY <1>3 DEF Calls, NoCall, Pages
<1>11. Types BY <1>7, <1>8, <1>9, <1>10 DEF Types
<1>12. CallPart BY <1>10 DEF CallPart
<1>13. NoCommand.page = NoPage /\ NoCommand.op = "none" BY DEF NoCommand
<1>14. \A q : q = <<>> => /\ Used(q) = {} /\ Packets(q) = {} /\ Apart(q) /\ InOrder(q)
                          /\ Ascending(q) /\ Members(q) = {} /\ DOMAIN q = {}
  BY DEF Used, Packets, Apart, InOrder, Ascending, Members
<1>15. Only(NoPage) = {} BY DEF Only
<1>16. /\ nic.free = Memory /\ nic.txq = <<>> /\ nic.rxq = <<>> /\ nic.mmu = NoCommand
       /\ nic.alloc = "none" /\ nic.arr = NoPage
  BY <1>3
<1>17. /\ hist.tx = 0 /\ hist.rx = 0 /\ hist.wanted = {} /\ hist.good = {}
       /\ hist.got = <<>> /\ hist.pushed = {} /\ hist.sent = <<>> /\ hist.leaked = {}
  BY <1>1
<1>18. MemoryPart
  <2>1. Split(nic.free, Used(nic.txq), Used(nic.rxq), Only(nic.arr), {}, {})
    BY <1>14, <1>15, <1>16 DEF Split
  <2> QED BY <1>10, <1>13, <1>14, <1>15, <1>16, <1>17, <2>1 DEF MemoryPart, Whole
<1>19. SendPart
  <2>1. Coming = 1 BY <1>10, <1>13, <1>16, <1>17 DEF Coming
  <2>2. hist.sent \in Seq(Nat) BY <1>7 DEF Histories
  <2> QED BY <1>13, <1>14, <1>16, <1>17, <2>1, <2>2 DEF SendPart, Out
<1>20. ReceivePart
  <2>1. nic.rxq \in Seq(RxPacket) BY <1>8 DEF Nics
  <2> QED BY <1>13, <1>14, <1>16, <1>17, <2>1 DEF ReceivePart, Came, Handed
<1>21. /\ chip.state = "new" /\ chip.astray = FALSE /\ chip.advert = {}
       /\ chip.ReceiveFilterSetting = {} /\ chip.reg = PowerOn
       /\ chip.PhyAd = LAN91X_NO_PHY
  BY <1>2
<1>22. RegisterPart BY <1>5, <1>6, <1>21 DEF RegisterPart, PhyOK, Fresh
<1>23. FilterPart
  <2>1. \A f \in DOMAIN RcrBit : RcrBit[f] \notin chip.reg["RCR"] BY <1>5, <1>21
  <2> QED BY <1>17, <1>21, <2>1 DEF FilterPart
<1>24. ClientPart
  <2>1. drv.mode = "Stopped" /\ drv.TransmitQueue = <<>> BY <1>3
  <2> QED BY <1>10, <1>14, <2>1 DEF ClientPart
<1> QED BY <1>11, <1>12, <1>18, <1>19, <1>20, <1>22, <1>23, <1>24 DEF IInv

LEMMA Stuttering ==
  ASSUME IInv, UNCHANGED vars
  PROVE  IInv'
<1>1. drv' = drv /\ nic' = nic /\ chip' = chip /\ call' = call /\ hist' = hist BY DEF vars
<1>2. Types' BY <1>1 DEF IInv, Types
<1>3. CallPart' /\ MemoryPart' /\ SendPart' /\ ReceivePart'
  BY <1>1, QuietStep DEF SameTraffic
<1>4. RegisterPart' /\ FilterPart' BY <1>1, ChipStays DEF SameFilters
<1>5. ClientPart' BY <1>1, ClientStep DEF SameClient
<1> QED BY <1>2, <1>3, <1>4, <1>5 DEF IInv

LEMMA Steps ==
  ASSUME ConstantsOK, IInv, [Next]_vars
  PROVE  IInv'
<1>1. CASE Lan91xDxeEntry BY <1>1, EntryStep
<1>2. CASE SnpStart BY <1>2, StartStep
<1>3. CASE SnpStop \/ SnpShutdown BY <1>3, StopStep
<1>4. CASE SnpInitialize \/ SnpReset BY <1>4, ResetStep
<1>5. CASE SnpReceiveFilters BY <1>5, FilterStep
<1>6. CASE SnpStationAddress BY <1>6, AddressStep
<1>7. CASE SnpTransmit BY <1>7, TransmitStep
<1>8. CASE SnpGetStatus BY <1>8, StatusStep
<1>9. CASE SnpReceive BY <1>9, ReceiveStep
<1>10. CASE AllocDone BY <1>10, AllocDoneStep
<1>11. CASE AllocTimeout \/ AllocFailed BY <1>11, AllocGivenUpStep
<1>12. CASE Push BY <1>12, PushStep
<1>13. CASE NicMmu BY <1>13, MmuStep
<1>14. CASE NicGrant BY <1>14, GrantStep
<1>15. CASE NicSend BY <1>15, SendStep
<1>16. CASE NicReceive BY <1>16, ArriveStep
<1>17. CASE UNCHANGED vars BY <1>17, Stuttering
<1> QED
  BY <1>1, <1>2, <1>3, <1>4, <1>5, <1>6, <1>7, <1>8, <1>9, <1>10, <1>11, <1>12, <1>13,
     <1>14, <1>15, <1>16, <1>17 DEF Next, Client, Work, Controller

LEMMA Inductive ==
  ASSUME ConstantsOK
  PROVE  Spec => []IInv
<1>1. Init => IInv BY Initially
<1>2. IInv /\ [Next]_vars => IInv' BY Steps
<1> QED BY <1>1, <1>2, PTL DEF Spec

\* Five sets that share nothing.
LEMMA FiveParts ==
  ASSUME NEW A, NEW B, NEW C, NEW D, NEW E,
         A \cap B = {}, A \cap C = {}, A \cap D = {}, A \cap E = {}, B \cap C = {},
         B \cap D = {}, B \cap E = {}, C \cap D = {}, C \cap E = {}, D \cap E = {}
  PROVE  LET parts == <<A, B, C, D, E>> IN
         /\ UNION Members(parts) = A \cup B \cup C \cup D \cup E
         /\ \A i, j \in DOMAIN parts : i # j => parts[i] \cap parts[j] = {}
<1>1. PICK parts : parts = <<A, B, C, D, E>> OBVIOUS
<1>2. /\ DOMAIN parts = 1 .. 5 /\ parts[1] = A /\ parts[2] = B /\ parts[3] = C
      /\ parts[4] = D /\ parts[5] = E
  BY <1>1
<1>3. \A i \in 1 .. 5 : i \in {1, 2, 3, 4, 5} OBVIOUS
<1>4. Members(parts) = {A, B, C, D, E} BY <1>2, <1>3 DEF Members
<1>5. UNION {A, B, C, D, E} = A \cup B \cup C \cup D \cup E OBVIOUS
<1>6. ASSUME NEW i \in DOMAIN parts, NEW j \in DOMAIN parts, i # j
      PROVE  parts[i] \cap parts[j] = {}
  <2>1. i \in {1, 2, 3, 4, 5} /\ j \in {1, 2, 3, 4, 5} BY <1>2, <1>3
  <2>2. CASE i = 1 BY <1>2, <1>6, <2>1, <2>2
  <2>3. CASE i = 2 BY <1>2, <1>6, <2>1, <2>3
  <2>4. CASE i = 3 BY <1>2, <1>6, <2>1, <2>4
  <2>5. CASE i = 4 BY <1>2, <1>6, <2>1, <2>5
  <2>6. CASE i = 5 BY <1>2, <1>6, <2>1, <2>6
  <2> QED BY <2>1, <2>2, <2>3, <2>4, <2>5, <2>6
<1> QED BY <1>1, <1>4, <1>5, <1>6

\* The types, for every memory and all traffic.
THEOREM TypeCorrect ==
  ASSUME ConstantsOK
  PROVE  Spec => []TypeOK
<1>1. IInv => TypeOK
  BY DEF IInv, Types, TypeOK, Drivers, Nics, Calls, Pages
<1> QED BY <1>1, Inductive, PTL

\* Every packet number is in one place: free, in a FIFO, on its way to one, or
\* granted after its Transmit had given up.  However commands of the MMU and
\* time-outs follow each other, no memory is used twice.
THEOREM MemoryCorrect ==
  ASSUME ConstantsOK
  PROVE  Spec => []MemoryInStep
<1>1. ASSUME IInv PROVE MemoryInStep
  <2>1. PICK hand : hand = Only(call.page) \cup Only(nic.mmu.page) OBVIOUS
  <2>2. Whole(nic, hand, hist.leaked) BY <1>1, <2>1 DEF IInv, MemoryPart
  <2>3. Lone = Only(nic.arr) \cup hand BY <2>1 DEF Lone, Only
  <2>4. PICK F : F = nic.free OBVIOUS
  <2>5. PICK T : T = Used(nic.txq) OBVIOUS
  <2>6. PICK R : R = Used(nic.rxq) OBVIOUS
  <2>7. PICK L : L = Lone OBVIOUS
  <2>8. PICK K : K = hist.leaked OBVIOUS
  <2>9. /\ F \cap T = {} /\ F \cap R = {} /\ F \cap L = {} /\ F \cap K = {}
        /\ T \cap R = {} /\ T \cap L = {} /\ T \cap K = {}
        /\ R \cap L = {} /\ R \cap K = {} /\ L \cap K = {}
        /\ F \cup T \cup R \cup L \cup K = Memory
    BY <2>2, <2>3, <2>4, <2>5, <2>6, <2>7, <2>8 DEF Whole, Split
  <2>10. LET parts == <<F, T, R, L, K>> IN
         /\ UNION Members(parts) = Memory
         /\ \A i, j \in DOMAIN parts : i # j => parts[i] \cap parts[j] = {}
    BY <2>9, FiveParts
  <2>11. \A q \in {nic.txq, nic.rxq} :
           \A i, j \in DOMAIN q : i # j => q[i].page # q[j].page
    BY <2>2 DEF Whole, Apart
  <2> QED BY <2>4, <2>5, <2>6, <2>7, <2>8, <2>10, <2>11 DEF MemoryInStep
<1> QED BY <1>1, Inductive, PTL

\* What is pushed goes out once, in the order of the calls, and none of it is
\* lost: also when the release was still busy as the call returned.
THEOREM SentCorrect ==
  ASSUME ConstantsOK
  PROVE  Spec => []SentOnce
<1>1. ASSUME IInv PROVE SentOnce
  <2>1. Ascending(hist.sent) BY <1>1 DEF IInv, SendPart, Out
  <2>2. hist.pushed \subseteq Members(hist.sent) \cup Packets(nic.txq) \cup {nic.mmu.pkt}
    BY <1>1 DEF IInv, SendPart, Pending
  <2> QED BY <2>1, <2>2 DEF SentOnce, Packets
<1> QED BY <1>1, Inductive, PTL

\* No access ever reaches a register of another bank, whatever bank was
\* selected at power-on and whether or not a reset loses it; the PHY used is
\* one that answered, and it advertises what it can do.
THEOREM RegistersCorrect ==
  ASSUME ConstantsOK
  PROVE  Spec => []RegistersReached
<1>1. ASSUME IInv PROVE RegistersReached
  BY <1>1 DEF IInv, RegisterPart, PhyOK, InBank, RegistersReached
<1> QED BY <1>1, Inductive, PTL

\* The station address and the filters asked for are in force, with the two
\* exceptions that FiltersInForce names.
THEOREM FiltersCorrect ==
  ASSUME ConstantsOK
  PROVE  Spec => []FiltersInForce
<1>1. ASSUME IInv PROVE FiltersInForce BY <1>1 DEF IInv, FilterPart, FiltersInForce
<1> QED BY <1>1, Inductive, PTL

\* Good packets reach the client once and in order, and none is lost without a
\* drop or a reset, until a release is still busy when Receive returns.
THEOREM ReceivedCorrect ==
  ASSUME ConstantsOK
  PROVE  Spec => []ReceivedInOrder
<1>1. ASSUME IInv PROVE ReceivedInOrder
  BY <1>1 DEF IInv, ReceivePart, Handed, Packets, ReceivedInOrder
<1> QED BY <1>1, Inductive, PTL

(* ------------------------------ refinement ----------------------------- *)

Network == INSTANCE SimpleNetwork WITH
  Buffer <- Nat, mode <- drv.mode, held <- drv.TransmitQueue

LEMMA NetworkStep ==
  ASSUME ConstantsOK, IInv, [Next]_vars
  PROVE  [Network!SNNext]_(Network!snVars)
<1>1. drv \in Drivers BY DEF IInv, Types
<1>2. CASE SnpStart
  <2>1. /\ drv.mode = "Stopped" /\ drv'.mode = "Started"
        /\ drv'.TransmitQueue = drv.TransmitQueue
    BY <1>1, <1>2 DEF SnpStart, Drivers
  <2> QED BY <2>1 DEF Network!SNNext, Network!SNStart, Network!Stopped, Network!Started
<1>3. CASE SnpStop
  <2>1. /\ drv.mode # "Stopped" /\ drv'.mode = "Stopped"
        /\ drv'.TransmitQueue = drv.TransmitQueue
    BY <1>1, <1>3 DEF SnpStop, Drivers
  <2> QED BY <2>1 DEF Network!SNNext, Network!SNStop, Network!Stopped
<1>4. CASE SnpInitialize
  <2>1. /\ drv.mode = "Started" /\ drv'.mode = "Initialized"
        /\ drv'.TransmitQueue = drv.TransmitQueue
    BY <1>1, <1>4 DEF SnpInitialize, Drivers
  <2> QED
    BY <2>1 DEF Network!SNNext, Network!SNInitialize, Network!Started, Network!Initialized
<1>5. CASE Push
  <2>1. call.pc = "push" BY <1>5 DEF Push
  <2>2. /\ drv.mode = "Initialized" /\ hist.tx \in Nat
        /\ \A i \in DOMAIN drv.TransmitQueue : drv.TransmitQueue[i] < hist.tx
    BY <2>1 DEF IInv, Types, Histories, ClientPart
  <2>3. drv' = drv \/ drv' = [drv EXCEPT !.TransmitQueue = Append(@, hist.tx)]
    BY <1>5 DEF Push
  <2>4. CASE drv' = drv BY <2>4 DEF Network!snVars
  <2>5. CASE drv' = [drv EXCEPT !.TransmitQueue = Append(@, hist.tx)]
    <3>1. /\ drv'.mode = drv.mode
          /\ drv'.TransmitQueue = Append(drv.TransmitQueue, hist.tx)
      BY <1>1, <2>5 DEF Drivers
    <3> QED BY <2>2, <3>1 DEF Network!SNNext, Network!SNTransmit, Network!Initialized
  <2> QED BY <2>3, <2>4, <2>5
<1>6. CASE SnpGetStatus
  <2>1. PICK link \in BOOLEAN :
          drv' = [drv EXCEPT !.MediaPresent = link,
                    !.TransmitQueue = IF @ = <<>> THEN @ ELSE Tail(@)]
    BY <1>6 DEF SnpGetStatus
  <2>2. /\ drv'.mode = drv.mode
        /\ drv'.TransmitQueue = IF drv.TransmitQueue = <<>> THEN drv.TransmitQueue
                                ELSE Tail(drv.TransmitQueue)
    BY <1>1, <2>1 DEF Drivers
  <2>3. CASE drv.TransmitQueue = <<>> BY <2>2, <2>3 DEF Network!snVars
  <2>4. CASE drv.TransmitQueue # <<>>
    BY <2>2, <2>4 DEF Network!SNNext, Network!SNRecycle
  <2> QED BY <2>3, <2>4
<1>7. CASE drv' = drv BY <1>7 DEF Network!snVars
<1>8. SnpReset => drv' = drv BY DEF SnpReset
<1>9. SnpShutdown \/ SnpReceiveFilters \/ SnpStationAddress => drv' = drv
  BY DEF SnpShutdown, SnpReceiveFilters, SnpStationAddress
<1>10. Lan91xDxeEntry \/ SnpTransmit \/ SnpReceive => drv' = drv
  BY DEF Lan91xDxeEntry, SnpTransmit, SnpReceive
<1>11. AllocDone \/ AllocTimeout \/ AllocFailed => drv' = drv
  BY DEF AllocDone, AllocTimeout, AllocFailed
<1>12. Controller => drv' = drv BY DEF Controller, NicMmu, NicGrant, NicSend, NicReceive
<1>13. (UNCHANGED vars) => drv' = drv BY DEF vars
<1> QED
  BY <1>2, <1>3, <1>4, <1>5, <1>6, <1>7, <1>8, <1>9, <1>10, <1>11, <1>12, <1>13
  DEF Next, Client, Work

\* The driver keeps the promise every network driver makes to its client: the
\* three states, and buffers handed back once and in order.
THEOREM ImplementsNetwork ==
  ASSUME ConstantsOK
  PROVE  Spec => Network!SNSpec
<1>1. Init => Network!SNInit BY DEF Init, Network!SNInit, Network!Stopped
<1>2. IInv /\ [Next]_vars => [Network!SNNext]_(Network!snVars) BY NetworkStep
<1> QED BY <1>1, <1>2, Inductive, PTL DEF Spec, Network!SNSpec

=============================================================================
