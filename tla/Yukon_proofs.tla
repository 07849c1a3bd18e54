----------------------------- MODULE Yukon_proofs -----------------------------
\* Proofs about Yukon, for rings of any size and any traffic: the transmit
\* ring, the order of what is sent and received, and the promise of
\* SimpleNetwork.
EXTENDS Yukon, SequenceTheorems, WellFoundedInduction, TLAPS

(* -------------------------------- rings -------------------------------- *)

StatIdx == 0 .. MSK_STAT_RING_CNT - 1

\* How far b is after a, and the position after a, in a ring of size n.
Dist(n, a, b) == IF a <= b THEN b - a ELSE b - a + n
Succ(n, a) == IF a + 1 = n THEN 0 ELSE a + 1

TxDist(a, b) == Dist(MSK_TX_RING_CNT, a, b)
RxDist(a, b) == Dist(MSK_RX_BUF_CNT, a, b)
StatDist(a, b) == Dist(MSK_STAT_RING_CNT, a, b)

LEMMA Remainders ==
  ASSUME NEW n \in Nat \ {0}, NEW r \in 0 .. n - 1
  PROVE  r % n = r /\ (r + n) % n = r /\ (r - n) % n = r
  OBVIOUS

LEMMA DistFacts ==
  ASSUME NEW n \in Nat \ {0}, NEW a \in 0 .. n - 1, NEW b \in 0 .. n - 1
  PROVE  /\ (b - a) % n = Dist(n, a, b) /\ Dist(n, a, b) \in 0 .. n - 1
         /\ Dist(n, a, b) = 0 <=> a = b
         /\ (a + 1) % n = Succ(n, a) /\ Succ(n, a) \in 0 .. n - 1
         /\ Dist(n, a, Succ(n, b)) = IF Dist(n, a, b) + 1 = n THEN 0 ELSE Dist(n, a, b) + 1
<1>1. Dist(n, a, b) \in 0 .. n - 1 /\ Succ(n, a) \in 0 .. n - 1 BY DEF Dist, Succ
<1>2. b - a = Dist(n, a, b) \/ b - a = Dist(n, a, b) - n BY DEF Dist
<1>3. a + 1 = Succ(n, a) \/ a + 1 = Succ(n, a) + n BY DEF Succ
<1>4. (b - a) % n = Dist(n, a, b) BY <1>1, <1>2, Remainders
<1>5. (a + 1) % n = Succ(n, a) BY <1>1, <1>3, Remainders
<1> QED BY <1>1, <1>4, <1>5 DEF Dist, Succ

\* Distances from a place further on.
LEMMA FurtherFacts ==
  ASSUME NEW n \in Nat \ {0}, NEW a \in 0 .. n - 1, NEW c \in 0 .. n - 1, NEW b \in 0 .. n - 1
  PROVE  Dist(n, c, b) = IF Dist(n, a, c) <= Dist(n, a, b) THEN Dist(n, a, b) - Dist(n, a, c)
                         ELSE Dist(n, a, b) - Dist(n, a, c) + n
  BY DEF Dist

LEMMA SuccFacts ==
  ASSUME NEW n \in Nat \ {0}, NEW a \in 0 .. n - 1, NEW b \in 0 .. n - 1
  PROVE  Dist(n, Succ(n, a), b) = IF a = b THEN n - 1 ELSE Dist(n, a, b) - 1
  BY DEF Dist, Succ

(* ------------------------------ sequences ------------------------------ *)

\* The elements of a sequence after an element has come or gone.
LEMMA TailFacts ==
  ASSUME NEW S, NEW q \in Seq(S), q # <<>>
  PROVE  /\ Head(q) \in S /\ Head(q) = q[1] /\ 1 \in DOMAIN q
         /\ Tail(q) \in Seq(S)
         /\ \A i \in DOMAIN Tail(q) : i + 1 \in DOMAIN q /\ Tail(q)[i] = q[i + 1]
         /\ \A i \in DOMAIN q : i # 1 => i - 1 \in DOMAIN Tail(q) /\ Tail(q)[i - 1] = q[i]
<1>1. Head(q) \in S /\ Tail(q) \in Seq(S) /\ Len(Tail(q)) = Len(q) - 1 BY HeadTailProperties
<1>2. Len(q) \in Nat /\ Len(q) # 0 /\ DOMAIN q = 1 .. Len(q) OBVIOUS
<1>3. Head(q) = q[1] /\ 1 \in DOMAIN q BY <1>2
<1>4. DOMAIN Tail(q) = 1 .. Len(q) - 1 BY <1>1
<1>5. \A i \in 1 .. Len(q) - 1 : Tail(q)[i] = q[i + 1] OBVIOUS
<1>6. \A i \in DOMAIN Tail(q) : i + 1 \in DOMAIN q /\ Tail(q)[i] = q[i + 1]
  BY <1>2, <1>4, <1>5
<1>7. ASSUME NEW i \in DOMAIN q, i # 1
      PROVE  i - 1 \in DOMAIN Tail(q) /\ Tail(q)[i - 1] = q[i]
  <2>1. i - 1 \in 1 .. Len(q) - 1 /\ (i - 1) + 1 = i BY <1>2, <1>7
  <2> QED BY <2>1, <1>4, <1>5
<1> QED BY <1>1, <1>3, <1>6, <1>7

LEMMA AppendFacts ==
  ASSUME NEW S, NEW q \in Seq(S), NEW e \in S
  PROVE  /\ Append(q, e) \in Seq(S)
         /\ DOMAIN Append(q, e) = DOMAIN q \cup {Len(q) + 1}
         /\ Len(q) + 1 \notin DOMAIN q
         /\ \A i \in DOMAIN q : Append(q, e)[i] = q[i] /\ i < Len(q) + 1
         /\ Append(q, e)[Len(q) + 1] = e
  OBVIOUS

LEMMA MembersAppend ==
  ASSUME NEW S, NEW q \in Seq(S), NEW e \in S
  PROVE  Members(Append(q, e)) = Members(q) \cup {e}
  BY AppendFacts DEF Members

\* A sequence stays ascending if its new element is above all others.
LEMMA AscendingAppend ==
  ASSUME NEW S, NEW q \in Seq(S), NEW e \in S, Ascending(q), \A i \in DOMAIN q : q[i] < e
  PROVE  Ascending(Append(q, e))
<1> SUFFICES ASSUME NEW i \in DOMAIN Append(q, e), NEW j \in DOMAIN Append(q, e), i < j
             PROVE  Append(q, e)[i] < Append(q, e)[j]
  BY DEF Ascending
<1>1. i \in DOMAIN q BY AppendFacts
<1>2. CASE j \in DOMAIN q BY <1>1, <1>2, AppendFacts DEF Ascending
<1>3. CASE j = Len(q) + 1 BY <1>1, <1>3, AppendFacts
<1> QED BY <1>2, <1>3, AppendFacts

\* Queues that are joined: one element is added, or moves to the other.
LEMMA JoinFacts ==
  ASSUME NEW S, NEW s \in Seq(S), NEW t \in Seq(S)
  PROVE  /\ s \o t \in Seq(S)
         /\ \A x \in S : s \o Append(t, x) = Append(s \o t, x)
         /\ t # <<>> => Append(s, Head(t)) \o Tail(t) = s \o t
         /\ s # <<>> => s \o t # <<>> /\ Tail(s \o t) = Tail(s) \o t
         /\ s \o <<>> = s /\ <<>> \o t = t
<1>1. s \o t \in Seq(S) /\ s \o <<>> = s /\ <<>> \o t = t OBVIOUS
<1>2. ASSUME NEW x \in S PROVE s \o Append(t, x) = Append(s \o t, x)
  <2>1. /\ Append(t, x) = t \o <<x>> /\ Append(s \o t, x) = (s \o t) \o <<x>>
    BY <1>1, AppendIsConcat
  <2>2. <<x>> \in Seq(S) OBVIOUS
  <2> QED BY <2>1, <2>2, ConcatAssociative
<1>3. ASSUME t # <<>> PROVE Append(s, Head(t)) \o Tail(t) = s \o t
  <2>1. Head(t) \in S /\ Tail(t) \in Seq(S) BY <1>3
  <2>2. t = <<Head(t)>> \o Tail(t) BY <1>3, HeadTailProperties, ConcatProperties
  <2>3. Append(s, Head(t)) = s \o <<Head(t)>> BY <2>1, AppendIsConcat
  <2>4. <<Head(t)>> \in Seq(S) BY <2>1
  <2>5. (s \o <<Head(t)>>) \o Tail(t) = s \o (<<Head(t)>> \o Tail(t))
    BY <2>1, <2>4, ConcatAssociative
  <2> QED BY <2>2, <2>3, <2>5
<1>4. ASSUME s # <<>> PROVE s \o t # <<>> /\ Tail(s \o t) = Tail(s) \o t
  <2>1. Tail(s) \in Seq(S) /\ Head(s) \in S BY <1>4
  <2>2. /\ Len(s) \in Nat /\ Len(s) # 0 /\ Len(t) \in Nat
        /\ Len(s \o t) = Len(s) + Len(t) /\ Len(Tail(s)) = Len(s) - 1
    BY <1>4
  <2>3. s \o t # <<>> BY <2>2
  <2>4. Len(Tail(s \o t)) = Len(Tail(s) \o t) BY <1>1, <2>1, <2>2, <2>3
  <2>5. ASSUME NEW i \in 1 .. Len(Tail(s) \o t)
        PROVE  Tail(s \o t)[i] = (Tail(s) \o t)[i]
    BY <1>1, <2>1, <2>2, <2>3, <2>4, <2>5
  <2>6. Tail(s \o t) \in Seq(S) /\ Tail(s) \o t \in Seq(S) BY <1>1, <2>1, <2>3
  <2> QED BY <2>3, <2>4, <2>5, <2>6, SeqEqual
<1> QED BY <1>1, <1>2, <1>3, <1>4

LEMMA JoinMove ==
  ASSUME NEW S, NEW s \in Seq(S), NEW t \in Seq(S), t # <<>>
  PROVE  Append(s, Head(t)) \o Tail(t) = s \o t
  BY JoinFacts

LEMMA JoinTail ==
  ASSUME NEW S, NEW s \in Seq(S), NEW t \in Seq(S), s # <<>>
  PROVE  s \o t \in Seq(S) /\ s \o t # <<>> /\ Tail(s \o t) = Tail(s) \o t
  BY JoinFacts

LEMMA JoinAppend ==
  ASSUME NEW S, NEW s \in Seq(S), NEW t \in Seq(S), NEW x \in S
  PROVE  s \o Append(t, x) = Append(s \o t, x)
  BY JoinFacts
(* ------------------------------ the invariant -------------------------- *)

Elements ==
  {le \in [op : {"none", "addr64", "packet"}, val : Nat] :
     IF le.op = "packet" THEN le.val \in Packet ELSE le.val \in {0, 1}}
Events ==
  {e \in [own : BOOLEAN, op : {"none", "tx", "rx"}, arg : Nat, life : Nat] :
     /\ e.op = "tx" => e.arg \in TxIdx
     /\ e.op = "rx" => e.arg \in {0, 1}}
Buffers == Packet \cup {NoBuf, Empty}

Drivers ==
  [mode : {"Stopped", "Started", "Initialized"},
   TransmitQueue : Seq(Packet), TransmitFreeQueue : Seq(Packet), ReceiveQueue : Seq(Buffers),
   tx_ring : [TxIdx -> Elements], tx_m : [TxIdx -> Packet \cup {0}],
   tx_prod : TxIdx, tx_cons : TxIdx, tx_cnt : TxIdx, tx_high : {0, 1},
   rx_m : [RxIdx -> Buffers], rx_cons : RxIdx, rx_prod : RxIdx, stat_cons : StatIdx]
Nics ==
  [on : BOOLEAN, tx_put : TxIdx, tx_get : TxIdx, tx_told : TxIdx, tx_high : {0, 1},
   rx_put : RxIdx, rx_get : RxIdx, stat : [StatIdx -> Events], stat_put : StatIdx,
   irq : BOOLEAN]
Calls ==
  [op : {"none", "tick", "status", "receive"},
   pc : {"idle", "events", "finish", "ack", "rest"},
   cons : StatIdx, puts : Nat, prog : Nat, more : BOOLEAN]
Histories ==
  [max : Bounds, tx : Nat, rx : Nat, good : SUBSET Packet, sent : Seq(Nat),
   got : Seq(Buffers), lost : SUBSET Buffers, life : Nat, faults : Nat,
   stale : BOOLEAN, wild : BOOLEAN]
Types ==
  /\ drv \in Drivers /\ nic \in Nics /\ call \in Calls /\ hist \in Histories
  /\ hist.tx <= hist.max.tx /\ hist.rx <= hist.max.rx

\* The status ring: the events between the driver's index and the
\* controller's are the controller's gift, of this life or an earlier one.
Cons(c, d) == IF c.pc \in {"events", "finish"} THEN c.cons ELSE d.stat_cons
StatRing(n, cons, life) ==
  \A i \in StatIdx :
    /\ n.stat[i].own <=> StatDist(cons, i) < StatDist(cons, n.stat_put)
    /\ n.stat[i].own => n.stat[i].life <= life
EventPart == StatRing(nic, Cons(call, drv), hist.life)

\* The events of this life.
Live(n, life, i) == n.stat[i].own /\ n.stat[i].life = life
LiveTx(n, life) == {i \in StatIdx : Live(n, life, i) /\ n.stat[i].op = "tx"}
LiveRx(n, life) == {i \in StatIdx : Live(n, life, i) /\ n.stat[i].op = "rx"}

\* The transmit ring, from the driver's index of what is done over the
\* controller's of what it has read to the driver's of what it has filled.
\* A packet not yet read finds the high half of its address selected.
Filled(d, p) == TxDist(d.tx_cons, p) < d.tx_cnt
Unread(d, get, p) == Filled(d, p) /\ TxDist(d.tx_cons, get) <= TxDist(d.tx_cons, p)
After(le) == IF le.op = "packet" THEN Hi(le.val) ELSE le.val
Finds(d, p, high) ==
  /\ p = d.tx_prod => d.tx_high = high
  /\ p # d.tx_prod /\ d.tx_ring[p].op = "packet" => Hi(d.tx_ring[p].val) = high

TxIndices(d, get) ==
  /\ d.tx_cnt = TxDist(d.tx_cons, d.tx_prod)
  /\ d.tx_cnt <= MSK_TX_RING_CNT - MSK_RESERVED_TX_DESC_CNT + 1
  /\ TxDist(d.tx_cons, get) <= d.tx_cnt
TxMaps(d) ==
  \A p \in TxIdx :
    IF Filled(d, p)
      THEN \/ d.tx_ring[p].op = "packet" /\ d.tx_m[p] = d.tx_ring[p].val
           \/ d.tx_ring[p].op = "addr64" /\ d.tx_m[p] = 0
      ELSE d.tx_m[p] = 0
TxHigh(d, get, high) ==
  /\ Finds(d, get, high)
  /\ \A p \in TxIdx : Unread(d, get, p) =>
       Finds(d, Succ(MSK_TX_RING_CNT, p), After(d.tx_ring[p]))

\* Sent, in the ring, in the queue: in the order of Transmit.
UnreadPackets(d, get) == {p \in TxIdx : Unread(d, get, p) /\ d.tx_ring[p].op = "packet"}
TxOrder(d, get, sent, tx) ==
  /\ \A p, q \in UnreadPackets(d, get) :
       TxDist(d.tx_cons, p) < TxDist(d.tx_cons, q) =>
         d.tx_ring[p].val < d.tx_ring[q].val
  /\ \A p \in UnreadPackets(d, get) :
       /\ d.tx_ring[p].val <= tx
       /\ \A i \in DOMAIN sent : sent[i] < d.tx_ring[p].val
       /\ \A j \in DOMAIN d.TransmitQueue : d.tx_ring[p].val < d.TransmitQueue[j]
TxRing(d, get, high, sent, tx) ==
  TxIndices(d, get) /\ TxMaps(d) /\ TxHigh(d, get, high) /\ TxOrder(d, get, sent, tx)

\* What the events say is done has been read, the last as much as any.
TxEvents(d, n, cons, life) ==
  /\ TxDist(d.tx_cons, n.tx_told) <= TxDist(d.tx_cons, n.tx_get)
  /\ \A i \in LiveTx(n, life) :
       /\ TxDist(d.tx_cons, n.stat[i].arg) <= TxDist(d.tx_cons, n.tx_told)
       /\ \A j \in LiveTx(n, life) : StatDist(cons, i) <= StatDist(cons, j) =>
            TxDist(d.tx_cons, n.stat[i].arg) <= TxDist(d.tx_cons, n.stat[j].arg)

SendOrder(d, sent, tx) ==
  /\ Ascending(sent) /\ Ascending(d.TransmitQueue)
  /\ \A i \in DOMAIN sent : sent[i] <= tx
  /\ \A j \in DOMAIN d.TransmitQueue : d.TransmitQueue[j] <= tx
  /\ \A i \in DOMAIN sent, j \in DOMAIN d.TransmitQueue : sent[i] < d.TransmitQueue[j]

\* The receive ring: what has arrived, what may be filled, and the buffer
\* that is held back.  Every frame in it has its event, in the same order.
Came(d, get, p) == RxDist(d.rx_cons, p) < RxDist(d.rx_cons, get)
RxRing(d, n, rx) ==
  /\ RxDist(d.rx_cons, d.rx_prod) = MSK_RX_BUF_CNT - 1
  /\ RxDist(d.rx_cons, n.rx_get) <= RxDist(d.rx_cons, n.rx_put)
  /\ \A p \in RxIdx : IF Came(d, n.rx_get, p) THEN d.rx_m[p] \in 1 .. rx ELSE d.rx_m[p] = Empty
  /\ \A p, q \in RxIdx :
       Came(d, n.rx_get, q) /\ RxDist(d.rx_cons, p) < RxDist(d.rx_cons, q) =>
         d.rx_m[p] < d.rx_m[q]
Reports(at, d, n, cons, life, good) ==
  /\ \A i \in LiveRx(n, life) :
       /\ Came(d, n.rx_get, at[i])
       /\ n.stat[i].arg = 1 => d.rx_m[at[i]] \in good
  /\ \A i, j \in LiveRx(n, life) : StatDist(cons, i) < StatDist(cons, j) =>
       RxDist(d.rx_cons, at[i]) < RxDist(d.rx_cons, at[j])
  /\ \A p \in RxIdx : Came(d, n.rx_get, p) => \E i \in LiveRx(n, life) : at[i] = p
RxEvents(d, n, cons, life, good) ==
  \E at \in [StatIdx -> RxIdx] : Reports(at, d, n, cons, life, good)

\* What the client has and what waits for it.
Delivery(d, got) == got \o d.ReceiveQueue
InOrder(q, d, n, rx, good, lost) ==
  /\ Ascending(q) /\ Members(q) \subseteq good
  /\ \A i \in DOMAIN q : q[i] <= rx
  /\ good \subseteq Members(q) \cup lost \cup {d.rx_m[i] : i \in RxIdx}
Later(q, d, get) ==
  \A i \in DOMAIN q, p \in RxIdx : Came(d, get, p) => q[i] < d.rx_m[p]

SendPart ==
  ~hist.stale =>
    /\ ~hist.wild /\ SendOrder(drv, hist.sent, hist.tx)
    /\ drv.mode = "Initialized" =>
         /\ TxRing(drv, nic.tx_get, nic.tx_high, hist.sent, hist.tx)
         /\ TxEvents(drv, nic, Cons(call, drv), hist.life)
ReceivePart ==
  ~hist.stale =>
    /\ InOrder(Delivery(drv, hist.got), drv, nic, hist.rx, hist.good, hist.lost)
    /\ drv.mode = "Initialized" =>
         /\ RxRing(drv, nic, hist.rx)
         /\ RxEvents(drv, nic, Cons(call, drv), hist.life, hist.good)
         /\ Later(Delivery(drv, hist.got), drv, nic.rx_get)

\* Buffers lent are of packets that were accepted; an interface that is not
\* initialized maps nothing.
ClientPart ==
  /\ nic.on <=> drv.mode = "Initialized"
  /\ nic.on => nic.tx_put = drv.tx_prod
  /\ ~nic.on => \A p \in TxIdx : drv.tx_m[p] = 0
  /\ ~nic.on /\ ~hist.stale => \A p \in RxIdx : drv.rx_m[p] = NoBuf
  /\ \A i \in DOMAIN held : held[i] <= hist.tx

IInv == Types /\ EventPart /\ SendPart /\ ReceivePart /\ ClientPart

(* --------------------------- the constants ----------------------------- *)

LEMMA Sizes ==
  ASSUME ConstantsOK
  PROVE  /\ MSK_TX_RING_CNT \in Nat \ {0, 1, 2} /\ MSK_RESERVED_TX_DESC_CNT \in Nat
         /\ MSK_TX_RING_CNT - MSK_RESERVED_TX_DESC_CNT + 1 \in 2 .. MSK_TX_RING_CNT - 1
         /\ MSK_RX_BUF_CNT \in Nat \ {0} /\ MSK_STAT_RING_CNT \in Nat \ {0, 1}
         /\ MSK_PUT_WM \in Nat \ {0} /\ msk_process_limit \in Nat
         /\ MSK_TX_RING_CNT \in Nat /\ MSK_RX_BUF_CNT \in Nat /\ MSK_STAT_RING_CNT \in Nat
         /\ Packet \subseteq Nat /\ 0 \notin Packet /\ NoBuf \notin Packet /\ Empty \notin Packet
         /\ NoBuf # Empty
  BY DEF ConstantsOK, NoBuf, Empty

LEMMA TxRingFacts ==
  ASSUME ConstantsOK, NEW a \in TxIdx, NEW b \in TxIdx
  PROVE  /\ TxSpan(a, b) = TxDist(a, b) /\ TxDist(a, b) \in TxIdx
         /\ TxDist(a, b) = 0 <=> a = b
         /\ TxInc(a) = Succ(MSK_TX_RING_CNT, a) /\ Succ(MSK_TX_RING_CNT, a) \in TxIdx
         /\ Succ(MSK_TX_RING_CNT, a) # a
         /\ TxDist(a, Succ(MSK_TX_RING_CNT, b)) =
              IF TxDist(a, b) + 1 = MSK_TX_RING_CNT THEN 0 ELSE TxDist(a, b) + 1
<1>1. MSK_TX_RING_CNT \in Nat \ {0, 1, 2} BY Sizes
<1>2. Succ(MSK_TX_RING_CNT, a) # a BY <1>1 DEF Succ, TxIdx
<1>3. /\ (b - a) % MSK_TX_RING_CNT = TxDist(a, b) /\ TxDist(a, b) \in TxIdx
      /\ (TxDist(a, b) = 0 <=> a = b)
      /\ (a + 1) % MSK_TX_RING_CNT = Succ(MSK_TX_RING_CNT, a)
      /\ Succ(MSK_TX_RING_CNT, a) \in TxIdx
      /\ TxDist(a, Succ(MSK_TX_RING_CNT, b)) =
           IF TxDist(a, b) + 1 = MSK_TX_RING_CNT THEN 0 ELSE TxDist(a, b) + 1
  <2>1. MSK_TX_RING_CNT \in Nat \ {0} BY <1>1
  <2> QED BY <2>1, DistFacts DEF TxDist, TxIdx
<1>4. TxSpan(a, b) = TxDist(a, b) /\ TxInc(a) = Succ(MSK_TX_RING_CNT, a)
  BY <1>3 DEF TxSpan, TxInc
<1> QED BY <1>2, <1>3, <1>4

LEMMA TxApart ==
  ASSUME ConstantsOK, NEW a \in TxIdx, NEW b \in TxIdx, NEW c \in TxIdx
  PROVE  /\ TxDist(a, b) = TxDist(a, c) <=> b = c
         /\ TxDist(c, b) = IF TxDist(a, c) <= TxDist(a, b) THEN TxDist(a, b) - TxDist(a, c)
                           ELSE TxDist(a, b) - TxDist(a, c) + MSK_TX_RING_CNT
<1>1. MSK_TX_RING_CNT \in Nat \ {0} BY Sizes
<1>2. TxDist(a, b) = TxDist(a, c) <=> b = c BY <1>1 DEF TxDist, TxIdx, Dist
<1> QED BY <1>1, <1>2, FurtherFacts DEF TxDist, TxIdx

\* The place at a distance, and the distance of that place.
LEMMA TxPlace ==
  ASSUME ConstantsOK, NEW a \in TxIdx, NEW k \in TxIdx
  PROVE  /\ (a + k) % MSK_TX_RING_CNT \in TxIdx
         /\ TxDist(a, (a + k) % MSK_TX_RING_CNT) = k
         /\ \A b \in TxIdx : TxDist(a, b) = k => (a + k) % MSK_TX_RING_CNT = b
<1>1. PICK n \in Nat \ {0} : n = MSK_TX_RING_CNT BY Sizes
<1>2. TxIdx = 0 .. n - 1 BY <1>1 DEF TxIdx
<1>3. PICK b \in TxIdx : a + k = b \/ a + k = b + n
  <2>1. CASE a + k < n
    <3>1. a + k \in 0 .. n - 1 BY <1>2, <2>1
    <3> QED BY <1>2, <3>1
  <2>2. CASE a + k >= n
    <3>1. a + k - n \in 0 .. n - 1 /\ a + k = (a + k - n) + n BY <1>2, <2>2
    <3> QED BY <1>2, <3>1
  <2> QED BY <1>2, <2>1, <2>2
<1>4. (a + k) % n = b BY <1>2, <1>3, Remainders
<1>5. TxDist(a, b) = k BY <1>1, <1>2, <1>3 DEF TxDist, Dist
<1>6. ASSUME NEW c \in TxIdx, TxDist(a, c) = k PROVE c = b BY <1>5, <1>6, TxApart
<1> QED BY <1>1, <1>4, <1>5, <1>6

LEMMA RxRingFacts ==
  ASSUME ConstantsOK, NEW a \in RxIdx, NEW b \in RxIdx
  PROVE  /\ RxDist(a, b) \in RxIdx /\ (RxDist(a, b) = 0 <=> a = b)
         /\ RxInc(a) = Succ(MSK_RX_BUF_CNT, a) /\ Succ(MSK_RX_BUF_CNT, a) \in RxIdx
         /\ RxDist(a, Succ(MSK_RX_BUF_CNT, b)) =
              IF RxDist(a, b) + 1 = MSK_RX_BUF_CNT THEN 0 ELSE RxDist(a, b) + 1
         /\ RxDist(Succ(MSK_RX_BUF_CNT, a), b) =
              IF a = b THEN MSK_RX_BUF_CNT - 1 ELSE RxDist(a, b) - 1
         /\ \A c \in RxIdx : RxDist(a, b) = RxDist(a, c) <=> b = c
<1>1. MSK_RX_BUF_CNT \in Nat \ {0} BY Sizes
<1>2. \A c \in RxIdx : RxDist(a, b) = RxDist(a, c) <=> b = c
  BY <1>1 DEF RxDist, RxIdx, Dist
<1> QED BY <1>1, <1>2, DistFacts, SuccFacts DEF RxDist, RxIdx, RxInc

LEMMA RxNextPlace ==
  ASSUME ConstantsOK, NEW a \in RxIdx, NEW b \in RxIdx
  PROVE  RxDist(a, Succ(MSK_RX_BUF_CNT, b)) =
           IF RxDist(a, b) + 1 = MSK_RX_BUF_CNT THEN 0 ELSE RxDist(a, b) + 1
  BY RxRingFacts

LEMMA RxApart ==
  ASSUME ConstantsOK, NEW a \in RxIdx
  PROVE  \A b, c \in RxIdx : RxDist(a, b) = RxDist(a, c) <=> b = c
<1> SUFFICES ASSUME NEW b \in RxIdx, NEW c \in RxIdx
             PROVE  RxDist(a, b) = RxDist(a, c) <=> b = c
  OBVIOUS
<1> QED BY RxRingFacts

LEMMA StatRingFacts ==
  ASSUME ConstantsOK, NEW a \in StatIdx, NEW b \in StatIdx
  PROVE  /\ StatDist(a, b) \in StatIdx /\ (StatDist(a, b) = 0 <=> a = b)
         /\ StatInc(a) = Succ(MSK_STAT_RING_CNT, a) /\ Succ(MSK_STAT_RING_CNT, a) \in StatIdx
         /\ Succ(MSK_STAT_RING_CNT, a) # a
         /\ StatDist(a, Succ(MSK_STAT_RING_CNT, b)) =
              IF StatDist(a, b) + 1 = MSK_STAT_RING_CNT THEN 0 ELSE StatDist(a, b) + 1
         /\ StatDist(Succ(MSK_STAT_RING_CNT, a), b) =
              IF a = b THEN MSK_STAT_RING_CNT - 1 ELSE StatDist(a, b) - 1
         /\ \A c \in StatIdx : StatDist(a, b) = StatDist(a, c) <=> b = c
<1>1. MSK_STAT_RING_CNT \in Nat \ {0, 1} BY Sizes
<1>2. \A c \in StatIdx : StatDist(a, b) = StatDist(a, c) <=> b = c
  BY <1>1 DEF StatDist, StatIdx, Dist
<1>3. Succ(MSK_STAT_RING_CNT, a) # a BY <1>1 DEF Succ, StatIdx
<1> QED BY <1>1, <1>2, <1>3, DistFacts, SuccFacts DEF StatDist, StatIdx, StatInc

LEMMA Indices ==
  ASSUME ConstantsOK
  PROVE  /\ TxIdx \subseteq Nat /\ RxIdx \subseteq Nat /\ StatIdx \subseteq Nat
         /\ 0 \in TxIdx /\ 0 \in RxIdx /\ 0 \in StatIdx
         /\ \A a \in TxIdx : a < MSK_TX_RING_CNT
         /\ \A a \in RxIdx : a < MSK_RX_BUF_CNT
         /\ \A a \in StatIdx : a < MSK_STAT_RING_CNT
  BY Sizes DEF TxIdx, RxIdx, StatIdx

LEMMA TxFields ==
  ASSUME ConstantsOK, NEW d \in Drivers
  PROVE  /\ d.tx_cons \in TxIdx /\ d.tx_prod \in TxIdx /\ d.tx_cnt \in Nat
         /\ d.tx_high \in {0, 1} /\ d.tx_ring \in [TxIdx -> Elements]
         /\ d.tx_m \in [TxIdx -> Packet \cup {0}]
         /\ d.TransmitQueue \in Seq(Packet) /\ d.TransmitQueue \in Seq(Nat)
         /\ d.TransmitFreeQueue \in Seq(Packet)
<1>1. /\ d.tx_cons \in TxIdx /\ d.tx_prod \in TxIdx /\ d.tx_cnt \in TxIdx
      /\ d.tx_high \in {0, 1} /\ d.tx_ring \in [TxIdx -> Elements]
      /\ d.tx_m \in [TxIdx -> Packet \cup {0}]
      /\ d.TransmitQueue \in Seq(Packet) /\ d.TransmitFreeQueue \in Seq(Packet)
  BY DEF Drivers
<1>2. d.tx_cnt \in Nat BY <1>1, Indices
<1>3. Packet \subseteq Nat BY Sizes
<1>4. d.TransmitQueue \in Seq(Nat) BY <1>1, <1>3, SeqMonotonic
<1> QED BY <1>1, <1>2, <1>4

(* ---------------------------- msk_start -------------------------------- *)

SameRest(d, e) ==
  /\ e.mode = d.mode /\ e.ReceiveQueue = d.ReceiveQueue /\ e.rx_m = d.rx_m
  /\ e.rx_cons = d.rx_cons /\ e.rx_prod = d.rx_prod /\ e.stat_cons = d.stat_cons

\* The packet at the head of the queue is placed at si.
Placed(d, e, p, si) ==
  /\ e \in Drivers /\ SameRest(d, e) /\ e.tx_cons = d.tx_cons
  /\ \/ si = d.tx_prod /\ d.tx_high = Hi(p) /\ e.tx_cnt = d.tx_cnt + 1
     \/ /\ si = Succ(MSK_TX_RING_CNT, d.tx_prod) /\ d.tx_high # Hi(p)
        /\ e.tx_cnt = d.tx_cnt + 2
        /\ e.tx_ring[d.tx_prod] = [op |-> "addr64", val |-> Hi(p)]
  /\ e.tx_ring[si] = [op |-> "packet", val |-> p] /\ e.tx_m[si] = p
  /\ \A q \in TxIdx \ {si, d.tx_prod} : e.tx_ring[q] = d.tx_ring[q]
  /\ \A q \in TxIdx \ {si} : e.tx_m[q] = d.tx_m[q]
  /\ e.tx_high = Hi(p) /\ e.tx_prod = Succ(MSK_TX_RING_CNT, si)
  /\ e.TransmitQueue = Tail(d.TransmitQueue)
  /\ e.TransmitFreeQueue = Append(d.TransmitFreeQueue, p)

LEMMA EncapFacts ==
  ASSUME ConstantsOK, NEW d \in Drivers, TxRoom(d), d.TransmitQueue # <<>>
  PROVE  \E si \in TxIdx :
           Placed(d, msk_encap(d, Head(d.TransmitQueue)), Head(d.TransmitQueue), si)
<1>1. PICK p : p = Head(d.TransmitQueue) OBVIOUS
<1>2. d.TransmitQueue \in Seq(Packet) /\ d.TransmitFreeQueue \in Seq(Packet) BY DEF Drivers
<1>3. p \in Packet /\ Tail(d.TransmitQueue) \in Seq(Packet) BY <1>1, <1>2
<1>4. Hi(p) \in {0, 1} /\ p \in Nat BY <1>3, Sizes DEF Hi
<1>5. PICK e : e = msk_encap(d, p) OBVIOUS
<1>6. PICK more \in BOOLEAN : more = (Hi(p) # d.tx_high) OBVIOUS
<1>7. PICK si : si = IF more THEN TxInc(d.tx_prod) ELSE d.tx_prod OBVIOUS
<1>8. /\ d.tx_prod \in TxIdx /\ d.tx_ring \in [TxIdx -> Elements]
      /\ d.tx_m \in [TxIdx -> Packet \cup {0}] /\ d.tx_cnt \in TxIdx
  BY DEF Drivers
<1>9. si \in TxIdx /\ (more => si = Succ(MSK_TX_RING_CNT, d.tx_prod) /\ si # d.tx_prod)
  <2>1. CASE more BY <1>7, <1>8, <2>1, TxRingFacts
  <2>2. CASE ~more BY <1>7, <1>8, <2>2
  <2> QED BY <2>1, <2>2
<1>10. PICK ring : ring = IF more THEN [d.tx_ring EXCEPT ![d.tx_prod] =
                                          [op |-> "addr64", val |-> Hi(p)]]
                          ELSE d.tx_ring
  OBVIOUS
<1>11. PICK ring2 : ring2 = [ring EXCEPT ![si] = [op |-> "packet", val |-> p]] OBVIOUS
<1>12. [op |-> "addr64", val |-> Hi(p)] \in Elements /\ [op |-> "packet", val |-> p] \in Elements
  BY <1>3, <1>4 DEF Elements
<1>13. ring2 \in [TxIdx -> Elements] BY <1>8, <1>10, <1>11, <1>12
<1>14. e = [d EXCEPT !.tx_ring = ring2, !.tx_m[si] = p, !.tx_high = Hi(p),
               !.tx_cnt = @ + (IF more THEN 2 ELSE 1), !.tx_prod = TxInc(si),
               !.TransmitQueue = Tail(@), !.TransmitFreeQueue = Append(@, p)]
  BY <1>5, <1>6, <1>7, <1>10, <1>11 DEF msk_encap, Encapsulated
<1>15. PICK m : m = [d.tx_m EXCEPT ![si] = p] OBVIOUS
<1>16. m \in [TxIdx -> Packet \cup {0}] BY <1>3, <1>8, <1>15
<1>17. PICK c : c = d.tx_cnt + (IF more THEN 2 ELSE 1) OBVIOUS
<1>18. c \in TxIdx
  <2>1. d.tx_cnt \in Nat BY <1>8 DEF TxIdx
  <2>2. d.tx_cnt < MSK_TX_RING_CNT - MSK_RESERVED_TX_DESC_CNT BY DEF TxRoom
  <2>3. c = d.tx_cnt + 1 \/ c = d.tx_cnt + 2 BY <1>17
  <2>4. c <= MSK_TX_RING_CNT - 1 BY <2>1, <2>2, <2>3, Sizes
  <2>5. c \in Nat /\ MSK_TX_RING_CNT \in Nat BY <2>1, <2>3, Sizes
  <2>6. c \in 0 .. MSK_TX_RING_CNT - 1 BY <2>4, <2>5
  <2> QED BY <2>6 DEF TxIdx
<1>19. PICK f : f = Append(d.TransmitFreeQueue, p) OBVIOUS
<1>20. f \in Seq(Packet) BY <1>2, <1>3, <1>19
<1>21. TxInc(si) \in TxIdx /\ TxInc(si) = Succ(MSK_TX_RING_CNT, si) BY <1>9, TxRingFacts
<1>22. e = [d EXCEPT !.tx_ring = ring2, !.tx_m = m, !.tx_high = Hi(p), !.tx_cnt = c,
               !.tx_prod = TxInc(si), !.TransmitQueue = Tail(d.TransmitQueue),
               !.TransmitFreeQueue = f]
  BY <1>14, <1>15, <1>17, <1>19 DEF Drivers
<1>23. e \in Drivers BY <1>3, <1>4, <1>13, <1>16, <1>18, <1>20, <1>21, <1>22 DEF Drivers
<1>24. /\ e.tx_ring = ring2 /\ e.tx_m = m /\ e.tx_high = Hi(p) /\ e.tx_cnt = c
       /\ e.tx_prod = TxInc(si) /\ e.TransmitQueue = Tail(d.TransmitQueue)
       /\ e.TransmitFreeQueue = f /\ e.tx_cons = d.tx_cons /\ SameRest(d, e)
  BY <1>22 DEF Drivers, SameRest
<1>25. /\ ring2[si] = [op |-> "packet", val |-> p]
       /\ \A q \in TxIdx \ {si, d.tx_prod} : ring2[q] = d.tx_ring[q]
       /\ more => ring2[d.tx_prod] = [op |-> "addr64", val |-> Hi(p)]
  BY <1>8, <1>9, <1>10, <1>11
<1>26. m[si] = p /\ \A q \in TxIdx \ {si} : m[q] = d.tx_m[q] BY <1>8, <1>9, <1>15
<1>27. Placed(d, e, p, si)
  BY <1>6, <1>7, <1>9, <1>17, <1>19, <1>21, <1>23, <1>24, <1>25, <1>26 DEF Placed
<1> QED BY <1>1, <1>5, <1>9, <1>27

\* The first of an ascending queue, and the rest.
LEMMA AscendingTail ==
  ASSUME NEW q \in Seq(Nat), q # <<>>, Ascending(q)
  PROVE  /\ Ascending(Tail(q))
         /\ \A j \in DOMAIN Tail(q) : Head(q) < Tail(q)[j]
<1>1. /\ Head(q) = q[1] /\ 1 \in DOMAIN q
      /\ \A i \in DOMAIN Tail(q) : i + 1 \in DOMAIN q /\ Tail(q)[i] = q[i + 1]
  BY TailFacts
<1>2. \A i \in DOMAIN Tail(q) : i \in Nat /\ 1 < i + 1 BY TailFacts
<1>3. \A i, j \in DOMAIN Tail(q) : i < j => i + 1 < j + 1 BY <1>2
<1> QED BY <1>1, <1>2, <1>3 DEF Ascending

\* What was right with the ring and the queue stays right.
Keeps(d, e) ==
  \A get \in TxIdx, high \in {0, 1}, sent \in Seq(Nat), tx \in Nat :
    TxRing(d, get, high, sent, tx) /\ SendOrder(d, sent, tx) =>
      TxRing(e, get, high, sent, tx) /\ SendOrder(e, sent, tx)

LEMMA EncapRing ==
  ASSUME ConstantsOK, NEW d \in Drivers, TxRoom(d), d.TransmitQueue # <<>>,
         NEW p, p = Head(d.TransmitQueue), NEW e, NEW si \in TxIdx, Placed(d, e, p, si)
  PROVE  Keeps(d, e)
<1> SUFFICES ASSUME NEW get \in TxIdx, NEW high \in {0, 1}, NEW sent \in Seq(Nat),
                    NEW tx \in Nat, TxRing(d, get, high, sent, tx), SendOrder(d, sent, tx)
             PROVE  TxRing(e, get, high, sent, tx) /\ SendOrder(e, sent, tx)
  BY DEF Keeps
<1> DEFINE D(q) == TxDist(d.tx_cons, q)
           prod == d.tx_prod
<1>1. /\ d.tx_cons \in TxIdx /\ prod \in TxIdx /\ d.tx_cnt \in Nat
      /\ d.TransmitQueue \in Seq(Packet) /\ p \in Packet /\ p \in Nat
  <2>1. d.TransmitQueue \in Seq(Packet) BY TxFields
  <2>2. p \in Packet BY <2>1, TailFacts
  <2>3. p \in Nat BY <2>2, Sizes
  <2> QED BY <2>1, <2>2, <2>3, TxFields
<1>2. e \in Drivers /\ e.tx_cons = d.tx_cons /\ e.tx_prod \in TxIdx /\ e.tx_cnt \in Nat
  <2>1. e \in Drivers /\ e.tx_cons = d.tx_cons BY DEF Placed
  <2> QED BY <2>1, TxFields
<1>3. \A q \in TxIdx : D(q) \in Nat /\ D(q) < MSK_TX_RING_CNT
  BY <1>1, TxRingFacts, Indices
<1>4. D(prod) = d.tx_cnt /\ D(get) <= d.tx_cnt BY DEF TxRing, TxIndices
<1>5. /\ MSK_TX_RING_CNT \in Nat /\ MSK_RESERVED_TX_DESC_CNT \in Nat
      /\ d.tx_cnt + 2 < MSK_TX_RING_CNT
      /\ d.tx_cnt + 2 <= MSK_TX_RING_CNT - MSK_RESERVED_TX_DESC_CNT + 1
  <2>1. d.tx_cnt < MSK_TX_RING_CNT - MSK_RESERVED_TX_DESC_CNT BY DEF TxRoom
  <2>2. d.tx_cnt \in Nat BY <1>1
  <2>3. /\ MSK_TX_RING_CNT \in Nat /\ MSK_RESERVED_TX_DESC_CNT \in Nat
        /\ MSK_RESERVED_TX_DESC_CNT >= 2
    BY Sizes
  <2> QED BY <2>1, <2>2, <2>3
<1>22. ASSUME NEW q \in TxIdx, D(q) + 1 < MSK_TX_RING_CNT
       PROVE  D(Succ(MSK_TX_RING_CNT, q)) = D(q) + 1
  <2>1. /\ Succ(MSK_TX_RING_CNT, q) \in TxIdx
        /\ D(Succ(MSK_TX_RING_CNT, q)) =
             IF D(q) + 1 = MSK_TX_RING_CNT THEN 0 ELSE D(q) + 1
    BY <1>1, TxRingFacts
  <2> HIDE DEF D
  <2> QED BY <1>3, <1>5, <1>22, <2>1
<1>23. \A q \in TxIdx : D(q) = TxDist(d.tx_cons, q) OBVIOUS
<1>8. \A q, r \in TxIdx : D(q) = D(r) <=> q = r BY <1>1, TxApart
<1> HIDE DEF D
<1>6. \/ si = prod /\ D(si) = d.tx_cnt /\ e.tx_cnt = d.tx_cnt + 1
      \/ si # prod /\ si = Succ(MSK_TX_RING_CNT, prod) /\ D(si) = d.tx_cnt + 1
         /\ e.tx_cnt = d.tx_cnt + 2
  <2>1. D(Succ(MSK_TX_RING_CNT, prod)) = d.tx_cnt + 1
    <3>1. D(prod) + 1 < MSK_TX_RING_CNT BY <1>1, <1>4, <1>5
    <3> QED BY <1>1, <1>4, <1>22, <3>1
  <2>2. Succ(MSK_TX_RING_CNT, prod) # prod BY <1>1, TxRingFacts
  <2> QED BY <1>4, <2>1, <2>2 DEF Placed
<1>7. e.tx_prod = Succ(MSK_TX_RING_CNT, si) /\ D(e.tx_prod) = e.tx_cnt
  <2>1. e.tx_prod = Succ(MSK_TX_RING_CNT, si) BY DEF Placed
  <2>2. D(si) + 1 < MSK_TX_RING_CNT BY <1>1, <1>5, <1>6
  <2>3. D(e.tx_prod) = D(si) + 1 BY <1>3, <1>5, <2>1, <2>2, <1>22
  <2> QED BY <1>1, <1>6, <2>1, <2>3
<1>9. /\ ~Filled(d, prod) /\ ~Filled(d, si)
      /\ \A q \in TxIdx : Filled(e, q) <=> Filled(d, q) \/ q = prod \/ q = si
  <2>1. ~Filled(d, prod) /\ ~Filled(d, si) BY <1>1, <1>3, <1>4, <1>6, <1>23 DEF Filled
  <2>2. ASSUME NEW q \in TxIdx PROVE Filled(e, q) <=> Filled(d, q) \/ q = prod \/ q = si
    <3>1. Filled(e, q) <=> D(q) < e.tx_cnt BY <1>2, <1>23 DEF Filled
    <3>2. Filled(d, q) <=> D(q) < d.tx_cnt BY <1>23 DEF Filled
    <3>3. (q = prod <=> D(q) = D(prod)) /\ (q = si <=> D(q) = D(si)) BY <1>1, <1>8
    <3> QED BY <1>1, <1>3, <1>4, <1>6, <3>1, <3>2, <3>3
  <2> QED BY <2>1, <2>2
<1>10. \A q \in TxIdx : Unread(e, get, q) <=> Unread(d, get, q) \/ q = prod \/ q = si
  <2>1. D(get) <= D(prod) /\ D(get) <= D(si) BY <1>1, <1>3, <1>4, <1>6
  <2> QED BY <1>2, <1>9, <1>23, <2>1 DEF Unread
<1>11. /\ e.tx_ring[si] = [op |-> "packet", val |-> p]
       /\ si # prod => e.tx_ring[prod] = [op |-> "addr64", val |-> Hi(p)]
       /\ si = prod => d.tx_high = Hi(p)
       /\ \A q \in TxIdx : Filled(d, q) => e.tx_ring[q] = d.tx_ring[q]
       /\ e.tx_high = Hi(p)
  <2>1. \A q \in TxIdx : Filled(d, q) => q \in TxIdx \ {si, prod} BY <1>9
  <2> QED BY <1>6, <2>1 DEF Placed
<1>12. e.tx_m[si] = p /\ \A q \in TxIdx \ {si} : e.tx_m[q] = d.tx_m[q] BY DEF Placed
<1>13. TxIndices(e, get) 
  <2>1. e.tx_cnt = TxDist(e.tx_cons, e.tx_prod) BY <1>2, <1>7, <1>23
  <2>2. e.tx_cnt <= MSK_TX_RING_CNT - MSK_RESERVED_TX_DESC_CNT + 1 BY <1>1, <1>5, <1>6
  <2>3. D(get) <= e.tx_cnt BY <1>1, <1>3, <1>4, <1>6
  <2>4. TxDist(e.tx_cons, get) <= e.tx_cnt BY <1>2, <1>23, <2>3
  <2> QED BY <2>1, <2>2, <2>4 DEF TxIndices
<1>14. TxMaps(e)
  <2> SUFFICES ASSUME NEW q \in TxIdx
               PROVE  IF Filled(e, q)
                        THEN \/ e.tx_ring[q].op = "packet" /\ e.tx_m[q] = e.tx_ring[q].val
                             \/ e.tx_ring[q].op = "addr64" /\ e.tx_m[q] = 0
                        ELSE e.tx_m[q] = 0
    BY DEF TxMaps
  <2>1. IF Filled(d, q)
          THEN \/ d.tx_ring[q].op = "packet" /\ d.tx_m[q] = d.tx_ring[q].val
               \/ d.tx_ring[q].op = "addr64" /\ d.tx_m[q] = 0
          ELSE d.tx_m[q] = 0
    BY DEF TxRing, TxMaps
  <2>2. CASE q = si BY <1>9, <1>11, <1>12, <2>2
  <2>3. CASE q # si /\ q = prod BY <1>9, <1>11, <1>12, <2>1, <2>3
  <2>4. CASE q # si /\ q # prod /\ Filled(d, q) BY <1>9, <1>11, <1>12, <2>1, <2>4
  <2>5. CASE q # si /\ q # prod /\ ~Filled(d, q) BY <1>9, <1>12, <2>1, <2>5
  <2> QED BY <2>2, <2>3, <2>4, <2>5
<1>15. TxHigh(e, get, high)
  <2>1. ASSUME NEW q \in TxIdx, NEW h, Finds(d, q, h), D(q) <= d.tx_cnt
        PROVE  Finds(e, q, h)
    <3>1. q # e.tx_prod BY <1>1, <1>3, <1>6, <1>7, <2>1
    <3>2. CASE q = prod
      <4>1. d.tx_high = h BY <2>1, <3>2 DEF Finds
      <4>2. CASE si = prod BY <1>11, <3>1, <3>2, <4>1, <4>2 DEF Finds
      <4>3. CASE si # prod BY <1>11, <3>1, <3>2, <4>3 DEF Finds
      <4> QED BY <4>2, <4>3
    <3>3. CASE q # prod
      <4>1. D(q) # d.tx_cnt BY <1>1, <1>4, <1>8, <3>3
      <4>2. Filled(d, q) BY <1>1, <1>3, <1>23, <2>1, <4>1 DEF Filled
      <4>3. e.tx_ring[q] = d.tx_ring[q] BY <1>11, <4>2
      <4> QED BY <2>1, <3>1, <3>3, <4>3 DEF Finds
    <3> QED BY <3>2, <3>3
  <2>2. Finds(e, get, high) BY <1>4, <2>1 DEF TxRing, TxHigh
  <2>3. ASSUME NEW r \in TxIdx, Unread(e, get, r)
        PROVE  Finds(e, Succ(MSK_TX_RING_CNT, r), After(e.tx_ring[r]))
    <3>1. Succ(MSK_TX_RING_CNT, r) \in TxIdx BY <2>3, TxRingFacts
    <3>2. CASE r = si
      <4>1. After(e.tx_ring[r]) = Hi(p) BY <1>11, <3>2 DEF After
      <4> QED BY <1>7, <1>11, <3>2, <4>1 DEF Finds
    <3>3. CASE r # si /\ r = prod
      <4>1. After(e.tx_ring[r]) = Hi(p) BY <1>11, <3>3 DEF After
      <4>2. Succ(MSK_TX_RING_CNT, r) = si BY <1>6, <3>3
      <4>3. si # e.tx_prod BY <1>7, TxRingFacts
      <4> QED BY <1>11, <4>1, <4>2, <4>3 DEF Finds
    <3>4. CASE r # si /\ r # prod
      <4>1. Unread(d, get, r) /\ Filled(d, r) BY <1>10, <2>3, <3>4 DEF Unread
      <4>2. e.tx_ring[r] = d.tx_ring[r] BY <1>11, <4>1
      <4>3. Finds(d, Succ(MSK_TX_RING_CNT, r), After(d.tx_ring[r]))
        BY <4>1 DEF TxRing, TxHigh
      <4>4. D(r) < d.tx_cnt BY <1>23, <4>1 DEF Filled
      <4>5. D(Succ(MSK_TX_RING_CNT, r)) = D(r) + 1
        <5>1. D(r) \in Nat BY <1>3
        <5>2. d.tx_cnt \in Nat /\ MSK_TX_RING_CNT \in Nat /\ d.tx_cnt + 2 < MSK_TX_RING_CNT
          BY <1>1, <1>5
        <5>3. D(r) + 1 < MSK_TX_RING_CNT BY <4>4, <5>1, <5>2
        <5> QED BY <1>22, <5>3
      <4>6. D(Succ(MSK_TX_RING_CNT, r)) <= d.tx_cnt BY <1>1, <1>3, <4>4, <4>5
      <4> QED BY <2>1, <3>1, <4>2, <4>3, <4>6
    <3> QED BY <3>2, <3>3, <3>4
  <2> QED BY <2>2, <2>3 DEF TxHigh
<1>16. /\ \A j \in DOMAIN Tail(d.TransmitQueue) :
            /\ j + 1 \in DOMAIN d.TransmitQueue
            /\ Tail(d.TransmitQueue)[j] = d.TransmitQueue[j + 1]
       /\ 1 \in DOMAIN d.TransmitQueue /\ p = d.TransmitQueue[1]
       /\ Ascending(Tail(d.TransmitQueue))
       /\ \A j \in DOMAIN Tail(d.TransmitQueue) : p < Tail(d.TransmitQueue)[j]
  <2>1. d.TransmitQueue \in Seq(Nat) BY TxFields
  <2>2. Ascending(d.TransmitQueue) BY DEF SendOrder
  <2> QED BY <2>1, <2>2, TailFacts, AscendingTail
<1>17. e.TransmitQueue = Tail(d.TransmitQueue) BY DEF Placed
<1>18. SendOrder(e, sent, tx) BY <1>16, <1>17 DEF SendOrder
<1>19. \A q \in UnreadPackets(e, get) : q = si \/ q \in UnreadPackets(d, get)
  <2> SUFFICES ASSUME NEW q \in UnreadPackets(e, get), q # si
               PROVE  q \in UnreadPackets(d, get)
    OBVIOUS
  <2>1. q \in TxIdx /\ Unread(e, get, q) /\ e.tx_ring[q].op = "packet" BY DEF UnreadPackets
  <2>2. q # prod BY <1>11, <2>1
  <2>3. Unread(d, get, q) /\ Filled(d, q) BY <1>10, <2>1, <2>2 DEF Unread
  <2> QED BY <1>11, <2>1, <2>3 DEF UnreadPackets
<1>20. ASSUME NEW q \in UnreadPackets(d, get)
       PROVE  /\ q \in TxIdx /\ e.tx_ring[q].val = d.tx_ring[q].val /\ d.tx_ring[q].val \in Nat
              /\ D(q) < D(si) /\ q # si
  <2>1. q \in TxIdx /\ Filled(d, q) BY DEF UnreadPackets, Unread
  <2>2. D(q) < d.tx_cnt BY <1>23, <2>1 DEF Filled
  <2>3. d.tx_ring[q] \in Elements BY <2>1, TxFields
  <2>4. D(q) < D(si) BY <1>1, <1>3, <1>6, <2>1, <2>2
  <2>5. D(q) \in Nat BY <1>3, <2>1
  <2>6. d.tx_ring[q].val \in Nat BY <2>3 DEF Elements
  <2> QED BY <1>11, <2>1, <2>4, <2>5, <2>6
<1>21. TxOrder(e, get, sent, tx)
  <2>1. ASSUME NEW q \in UnreadPackets(e, get), NEW r \in UnreadPackets(e, get),
               TxDist(e.tx_cons, q) < TxDist(e.tx_cons, r)
        PROVE  e.tx_ring[q].val < e.tx_ring[r].val
    <3>1. D(q) < D(r) /\ q \in TxIdx /\ r \in TxIdx BY <1>2, <1>23, <2>1 DEF UnreadPackets
    <3>2. CASE r = si
      <4>1. q \in UnreadPackets(d, get) BY <1>3, <1>19, <3>1, <3>2
      <4>2. d.tx_ring[q].val < p BY <1>16, <4>1 DEF TxRing, TxOrder
      <4> QED BY <1>11, <1>20, <3>2, <4>1, <4>2
    <3>3. CASE r # si
      <4>1. r \in UnreadPackets(d, get) BY <1>19, <3>3
      <4>2. q # si BY <1>3, <1>20, <3>1, <4>1
      <4>3. q \in UnreadPackets(d, get) BY <1>19, <4>2
      <4>4. d.tx_ring[q].val < d.tx_ring[r].val BY <1>23, <3>1, <4>1, <4>3 DEF TxRing, TxOrder
      <4> QED BY <1>20, <4>1, <4>3, <4>4
    <3> QED BY <3>2, <3>3
  <2>2. ASSUME NEW q \in UnreadPackets(e, get)
        PROVE  /\ e.tx_ring[q].val <= tx
               /\ \A i \in DOMAIN sent : sent[i] < e.tx_ring[q].val
               /\ \A j \in DOMAIN e.TransmitQueue : e.tx_ring[q].val < e.TransmitQueue[j]
    <3>1. CASE q = si
      <4>1. e.tx_ring[q].val = p BY <1>11, <3>1
      <4> QED BY <1>16, <1>17, <4>1 DEF SendOrder
    <3>2. CASE q # si
      <4>1. q \in UnreadPackets(d, get) BY <1>19, <3>2
      <4> QED BY <1>16, <1>17, <1>20, <4>1 DEF TxRing, TxOrder
    <3> QED BY <3>1, <3>2
  <2> QED BY <2>1, <2>2 DEF TxOrder
<1> QED BY <1>13, <1>14, <1>15, <1>18, <1>21 DEF TxRing

\* Induction over a set of numbers.
LEMMA SetInduction ==
  ASSUME NEW T, 0 \in T, \A k \in Nat : k \in T => k + 1 \in T
  PROVE  Nat \subseteq T
<1> SUFFICES ASSUME Nat \ T # {} PROVE FALSE OBVIOUS
<1>1. IsWellFoundedOn(OpToRel(<, Nat), Nat) BY NatLessThanWellFounded
<1>2. PICK x \in Nat \ T : \A y \in Nat \ T : <<y, x>> \notin OpToRel(<, Nat)
  BY <1>1, WFMin
<1>3. \A y \in Nat \ T : ~(y < x) BY <1>2 DEF OpToRel
<1>4. x # 0 /\ x \in Nat BY <1>2
<1>6. x - 1 \in Nat /\ x - 1 < x /\ (x - 1) + 1 = x BY <1>4
<1>5. x - 1 \in T BY <1>3, <1>6
<1> QED BY <1>2, <1>5, <1>6

StartNext(e) == IF TxRoom(e) THEN msk_encap(e, Head(e.TransmitQueue)) ELSE e
StartRun(f, d, n) == f = [k \in 0 .. n |-> IF k = 0 THEN d ELSE StartNext(f[k - 1])]

LEMMA StartRuns ==
  ASSUME NEW d, NEW n \in Nat
  PROVE  \E f : StartRun(f, d, n)
<1> DEFINE T == {m \in Nat : \E f : StartRun(f, d, m)}
<1>1. 0 \in T
  <2>1. PICK f : f = [k \in 0 .. 0 |-> d] OBVIOUS
  <2>2. f = [k \in 0 .. 0 |-> IF k = 0 THEN d ELSE StartNext(f[k - 1])] BY <2>1
  <2> QED BY <2>2 DEF StartRun
<1>2. ASSUME NEW m \in Nat, m \in T PROVE m + 1 \in T
  <2>1. PICK g : g = [k \in 0 .. m |-> IF k = 0 THEN d ELSE StartNext(g[k - 1])]
    BY <1>2 DEF StartRun
  <2>2. PICK f : f = [k \in 0 .. m + 1 |-> IF k = m + 1 THEN StartNext(g[m]) ELSE g[k]]
    OBVIOUS
  <2>3. ASSUME NEW k \in 0 .. m + 1
        PROVE  f[k] = IF k = 0 THEN d ELSE StartNext(f[k - 1])
    <3>1. CASE k = m + 1
      <4>1. m \in 0 .. m + 1 /\ m # m + 1 /\ k - 1 = m /\ k # 0 BY <3>1
      <4>2. f[m] = g[m] BY <2>2, <4>1
      <4>3. f[k] = StartNext(g[m]) BY <2>2, <3>1
      <4> QED BY <4>1, <4>2, <4>3
    <3>2. CASE k # m + 1
      <4>1. k \in 0 .. m BY <3>2
      <4>2. f[k] = g[k] BY <2>2, <3>2
      <4>3. g[k] = IF k = 0 THEN d ELSE StartNext(g[k - 1]) BY <2>1, <4>1
      <4>4. CASE k = 0 BY <4>2, <4>3, <4>4
      <4>5. CASE k # 0
        <5>1. k - 1 \in 0 .. m + 1 /\ k - 1 # m + 1 BY <4>1, <4>5
        <5>2. f[k - 1] = g[k - 1] BY <2>2, <5>1
        <5> QED BY <4>2, <4>3, <4>5, <5>2
      <4> QED BY <4>4, <4>5
    <3> QED BY <3>1, <3>2
  <2>4. f = [k \in 0 .. m + 1 |-> f[k]] BY <2>2
  <2>5. f = [k \in 0 .. m + 1 |-> IF k = 0 THEN d ELSE StartNext(f[k - 1])]
    BY <2>3, <2>4
  <2>6. m + 1 \in Nat BY <1>2
  <2> QED BY <2>5, <2>6 DEF StartRun
<1> HIDE DEF T
<1>3. n \in T BY <1>1, <1>2, SetInduction
<1> QED BY <1>3 DEF T

\* What msk_start leaves behind.
Started(d, e) ==
  /\ e \in Drivers /\ SameRest(d, e) /\ e.tx_cons = d.tx_cons
  /\ e.TransmitFreeQueue \o e.TransmitQueue = d.TransmitFreeQueue \o d.TransmitQueue
  /\ Keeps(d, e)

LEMMA StartNextFacts ==
  ASSUME ConstantsOK, NEW d \in Drivers, NEW e, Started(d, e), TxRoom(e), e.TransmitQueue # <<>>
  PROVE  Started(d, StartNext(e)) /\ StartNext(e).TransmitQueue = Tail(e.TransmitQueue)
<1>1. PICK g : g = StartNext(e) OBVIOUS
<1>2. e \in Drivers BY DEF Started
<1>3. e.TransmitQueue \in Seq(Packet) /\ e.TransmitFreeQueue \in Seq(Packet)
  BY <1>2 DEF Drivers
<1>4. g = msk_encap(e, Head(e.TransmitQueue)) BY <1>1 DEF StartNext
<1>11. PICK p : p = Head(e.TransmitQueue) OBVIOUS
<1>5. PICK si \in TxIdx : Placed(e, g, p, si) BY <1>2, <1>4, <1>11, EncapFacts
<1>6. /\ g \in Drivers /\ SameRest(e, g) /\ g.tx_cons = e.tx_cons
      /\ g.TransmitQueue = Tail(e.TransmitQueue)
      /\ g.TransmitFreeQueue = Append(e.TransmitFreeQueue, Head(e.TransmitQueue))
  BY <1>5, <1>11 DEF Placed
<1>7. SameRest(d, g) /\ g.tx_cons = d.tx_cons BY <1>6 DEF Started, SameRest
<1>8. g.TransmitFreeQueue \o g.TransmitQueue = d.TransmitFreeQueue \o d.TransmitQueue
  <2>1. Append(e.TransmitFreeQueue, Head(e.TransmitQueue)) \o Tail(e.TransmitQueue)
          = e.TransmitFreeQueue \o e.TransmitQueue
    BY <1>3, JoinMove
  <2> QED BY <1>6, <2>1 DEF Started
<1>9. Keeps(d, g)
  <2>1. Keeps(e, g) BY <1>2, <1>5, <1>11, EncapRing
  <2> QED BY <2>1 DEF Started, Keeps
<1>10. Started(d, g) BY <1>6, <1>7, <1>8, <1>9 DEF Started
<1> QED BY <1>1, <1>6, <1>10

LEMMA StartFacts ==
  ASSUME ConstantsOK, NEW d \in Drivers, NEW n \in 0 .. Len(d.TransmitQueue)
  PROVE  Started(d, msk_start(d, n))
<1> DEFINE f == CHOOSE g : StartRun(g, d, n)
<1>1. n \in Nat /\ d.TransmitQueue \in Seq(Packet) /\ Len(d.TransmitQueue) \in Nat
      /\ n <= Len(d.TransmitQueue)
  BY DEF Drivers
<1>2. StartRun(f, d, n) BY <1>1, StartRuns
<1>3. msk_start(d, n) = f[n] BY DEF msk_start, StartRun, StartNext
<1> HIDE DEF f
<1>4. f = [k \in 0 .. n |-> IF k = 0 THEN d ELSE StartNext(f[k - 1])] BY <1>2 DEF StartRun
<1> DEFINE Good(k) == /\ Started(d, f[k])
                      /\ ~TxRoom(f[k]) \/ Len(f[k].TransmitQueue) >= Len(d.TransmitQueue) - k
           T == {k \in Nat : k <= n => Good(k)}
<1>5. 0 \in T
  <2>1. f[0] = d BY <1>1, <1>4
  <2>2. Started(d, d) BY DEF Started, SameRest, Keeps
  <2> QED BY <1>1, <2>1, <2>2
<1>6. ASSUME NEW k \in Nat, k \in T PROVE k + 1 \in T
  <2> SUFFICES ASSUME k + 1 <= n PROVE Good(k + 1) BY <1>6
  <2>1. k <= n /\ k + 1 \in 0 .. n /\ k + 1 # 0 /\ (k + 1) - 1 = k BY <1>1, <1>6
  <2>2. Good(k) BY <1>6, <2>1
  <2>3. PICK e : e = f[k] OBVIOUS
  <2>4. f[k + 1] = StartNext(e) BY <1>4, <2>1, <2>3
  <2>5. e \in Drivers BY <2>2, <2>3 DEF Started
  <2>6. CASE ~TxRoom(e)
    <3>1. f[k + 1] = e BY <2>4, <2>6 DEF StartNext
    <3> QED BY <2>2, <2>3, <2>6, <3>1
  <2>7. CASE TxRoom(e)
    <3>1. e.TransmitQueue \in Seq(Packet) /\ e.TransmitFreeQueue \in Seq(Packet)
      BY <2>5 DEF Drivers
    <3>2. Len(e.TransmitQueue) \in Nat /\ Len(e.TransmitQueue) >= Len(d.TransmitQueue) - k
      BY <2>2, <2>3, <2>7, <3>1
    <3>3. Len(e.TransmitQueue) # 0 BY <1>1, <2>1, <3>2
    <3>4. e.TransmitQueue # <<>> BY <3>1, <3>3
    <3>5. PICK g : g = f[k + 1] OBVIOUS
    <3>6. g = StartNext(e) BY <2>4, <3>5
    <3>7. Started(d, g) /\ g.TransmitQueue = Tail(e.TransmitQueue)
      <4>1. Started(d, e) BY <2>2, <2>3
      <4> QED BY <2>7, <3>4, <3>6, <4>1, StartNextFacts
    <3>13. Len(g.TransmitQueue) = Len(e.TransmitQueue) - 1
      BY <3>1, <3>4, <3>7, HeadTailProperties
    <3>14. Len(g.TransmitQueue) >= Len(d.TransmitQueue) - (k + 1)
      BY <1>1, <3>2, <3>13
    <3> QED BY <3>5, <3>7, <3>14
  <2> QED BY <2>6, <2>7
<1> HIDE DEF T
<1>7. n \in T BY <1>1, <1>5, <1>6, SetInduction
<1>8. Good(n) BY <1>1, <1>7 DEF T
<1> QED BY <1>3, <1>8

(* ----------------------------- msk_txeof ------------------------------- *)

\* The first k elements are taken off the ring, and their packets unmapped.
TakenOff(d, e, k) ==
  /\ e \in Drivers /\ SameRest(d, e)
  /\ e.TransmitQueue = d.TransmitQueue /\ e.TransmitFreeQueue = d.TransmitFreeQueue
  /\ e.tx_ring = d.tx_ring /\ e.tx_prod = d.tx_prod /\ e.tx_high = d.tx_high
  /\ TxDist(d.tx_cons, e.tx_cons) = k /\ e.tx_cnt = d.tx_cnt - k
  /\ \A q \in TxIdx :
       e.tx_m[q] = IF TxDist(d.tx_cons, q) < k /\ d.tx_ring[q].op = "packet" THEN 0 ELSE d.tx_m[q]

LEMMA EofFacts ==
  ASSUME ConstantsOK, NEW d \in Drivers, NEW idx \in TxIdx
  PROVE  \E k \in 0 .. d.tx_cnt :
           /\ k = IF TxDist(d.tx_cons, idx) < d.tx_cnt THEN TxDist(d.tx_cons, idx) ELSE d.tx_cnt
           /\ TakenOff(d, msk_txeof(d, idx), k)
<1>1. d.tx_cons \in TxIdx /\ d.tx_cnt \in TxIdx /\ d.tx_cnt \in Nat
      /\ d.tx_m \in [TxIdx -> Packet \cup {0}]
  BY Indices DEF Drivers
<1>2. TxDist(d.tx_cons, idx) \in TxIdx /\ TxDist(d.tx_cons, idx) \in Nat
      /\ TxSpan(d.tx_cons, idx) = TxDist(d.tx_cons, idx)
  BY <1>1, TxRingFacts, Indices
<1>3. PICK k : k = IF TxDist(d.tx_cons, idx) < d.tx_cnt THEN TxDist(d.tx_cons, idx) ELSE d.tx_cnt
  OBVIOUS
<1>4. k \in 0 .. d.tx_cnt /\ k \in TxIdx /\ k \in Nat
  <2>1. CASE TxDist(d.tx_cons, idx) < d.tx_cnt BY <1>1, <1>2, <1>3, <2>1
  <2>2. CASE ~(TxDist(d.tx_cons, idx) < d.tx_cnt) BY <1>1, <1>3, <2>2
  <2> QED BY <2>1, <2>2
<1>5. PICK done : done = {(d.tx_cons + i) % MSK_TX_RING_CNT : i \in 0 .. k - 1} OBVIOUS
<1>6. PICK e : e = msk_txeof(d, idx) OBVIOUS
<1>7. PICK m : m = [i \in TxIdx |-> IF i \in done /\ d.tx_ring[i].op = "packet"
                                      THEN 0 ELSE d.tx_m[i]]
  OBVIOUS
<1>8. e = [d EXCEPT !.tx_cons = (@ + k) % MSK_TX_RING_CNT, !.tx_cnt = @ - k, !.tx_m = m]
  BY <1>2, <1>3, <1>5, <1>6, <1>7 DEF msk_txeof
<1>9. m \in [TxIdx -> Packet \cup {0}] BY <1>1, <1>7
<1>10. ASSUME NEW i \in TxIdx
       PROVE  /\ (d.tx_cons + i) % MSK_TX_RING_CNT \in TxIdx
              /\ TxDist(d.tx_cons, (d.tx_cons + i) % MSK_TX_RING_CNT) = i
              /\ \A q \in TxIdx : TxDist(d.tx_cons, q) = i => (d.tx_cons + i) % MSK_TX_RING_CNT = q
  BY <1>1, TxPlace
<1>11. PICK c : c = (d.tx_cons + k) % MSK_TX_RING_CNT OBVIOUS
<1>12. c \in TxIdx /\ TxDist(d.tx_cons, c) = k BY <1>4, <1>10, <1>11
<1>13. PICK n : n = d.tx_cnt - k OBVIOUS
<1>14. n \in TxIdx
  <2>1. n \in Nat /\ n <= d.tx_cnt BY <1>1, <1>4, <1>13
  <2>2. d.tx_cnt < MSK_TX_RING_CNT BY <1>1, Indices
  <2> QED BY <1>1, <2>1, <2>2, Sizes DEF TxIdx
<1>15. e = [d EXCEPT !.tx_cons = c, !.tx_cnt = n, !.tx_m = m] BY <1>8, <1>11, <1>13 DEF Drivers
<1>16. e \in Drivers BY <1>9, <1>12, <1>14, <1>15 DEF Drivers
<1>17. /\ e.tx_cons = c /\ e.tx_cnt = n /\ e.tx_m = m /\ SameRest(d, e)
       /\ e.TransmitQueue = d.TransmitQueue /\ e.TransmitFreeQueue = d.TransmitFreeQueue
       /\ e.tx_ring = d.tx_ring /\ e.tx_prod = d.tx_prod /\ e.tx_high = d.tx_high
  BY <1>15 DEF Drivers, SameRest
<1>18. \A q \in TxIdx : q \in done <=> TxDist(d.tx_cons, q) < k
  <2> SUFFICES ASSUME NEW q \in TxIdx PROVE q \in done <=> TxDist(d.tx_cons, q) < k
    OBVIOUS
  <2>1. TxDist(d.tx_cons, q) \in TxIdx /\ TxDist(d.tx_cons, q) \in Nat
    BY <1>1, TxRingFacts, Indices
  <2>2. ASSUME q \in done PROVE TxDist(d.tx_cons, q) < k
    <3>1. PICK i \in 0 .. k - 1 : q = (d.tx_cons + i) % MSK_TX_RING_CNT BY <1>5, <2>2
    <3>2. i \in Nat /\ i < k BY <1>4, <3>1
    <3>3. i < MSK_TX_RING_CNT BY <1>4, <3>2, Indices, Sizes
    <3>4. i \in TxIdx BY <3>2, <3>3, Sizes DEF TxIdx
    <3>5. TxDist(d.tx_cons, q) = i BY <1>10, <3>1, <3>4
    <3> QED BY <3>2, <3>5
  <2>3. ASSUME TxDist(d.tx_cons, q) < k PROVE q \in done
    <3>1. TxDist(d.tx_cons, q) \in 0 .. k - 1 BY <1>4, <2>1, <2>3
    <3>2. q = (d.tx_cons + TxDist(d.tx_cons, q)) % MSK_TX_RING_CNT BY <1>10, <2>1
    <3> QED BY <1>5, <3>1, <3>2
  <2> QED BY <2>2, <2>3
<1>19. \A q \in TxIdx :
         m[q] = IF TxDist(d.tx_cons, q) < k /\ d.tx_ring[q].op = "packet" THEN 0 ELSE d.tx_m[q]
  BY <1>7, <1>18
<1>20. TakenOff(d, e, k) BY <1>12, <1>13, <1>16, <1>17, <1>19 DEF TakenOff
<1> QED BY <1>3, <1>4, <1>6, <1>20

\* Only what the controller has read is taken off: the ring stays right.
LEMMA EofRing ==
  ASSUME ConstantsOK, NEW d \in Drivers, NEW idx \in TxIdx, NEW get \in TxIdx,
         NEW high, NEW sent, NEW tx, TxRing(d, get, high, sent, tx),
         TxDist(d.tx_cons, idx) <= TxDist(d.tx_cons, get)
  PROVE  LET e == msk_txeof(d, idx) IN
         /\ TxRing(e, get, high, sent, tx)
         /\ \A x \in TxIdx : TxDist(d.tx_cons, idx) <= TxDist(d.tx_cons, x) =>
              TxDist(e.tx_cons, x) = TxDist(d.tx_cons, x) - TxDist(d.tx_cons, idx)
<1> DEFINE D(q) == TxDist(d.tx_cons, q)
<1>1. PICK e : e = msk_txeof(d, idx) OBVIOUS
<1>2. d.tx_cons \in TxIdx /\ d.tx_cnt \in Nat /\ d.tx_prod \in TxIdx BY TxFields
<1>3. \A q \in TxIdx : D(q) \in Nat /\ D(q) < MSK_TX_RING_CNT BY <1>2, TxRingFacts, Indices
<1>4. D(idx) <= D(get) /\ D(get) <= d.tx_cnt /\ D(d.tx_prod) = d.tx_cnt
      /\ d.tx_cnt <= MSK_TX_RING_CNT - MSK_RESERVED_TX_DESC_CNT + 1
  BY DEF TxRing, TxIndices
<1>5. PICK k \in 0 .. d.tx_cnt :
        k = (IF D(idx) < d.tx_cnt THEN D(idx) ELSE d.tx_cnt) /\ TakenOff(d, e, k)
  BY <1>1, EofFacts
<1>6. \A q \in TxIdx : D(q) = TxDist(d.tx_cons, q) OBVIOUS
<1>7. \A q, r \in TxIdx : D(q) = D(r) <=> q = r BY <1>2, TxApart
<1>8. \A q \in TxIdx : TxDist(idx, q) = IF D(idx) <= D(q) THEN D(q) - D(idx)
                                        ELSE D(q) - D(idx) + MSK_TX_RING_CNT
  BY <1>2, TxApart
<1>30. MSK_TX_RING_CNT \in Nat /\ MSK_RESERVED_TX_DESC_CNT \in Nat
       /\ MSK_RESERVED_TX_DESC_CNT >= 2
  BY Sizes
<1> HIDE DEF D
<1>9. k = D(idx) BY <1>2, <1>3, <1>4, <1>5
<1>10. e \in Drivers /\ e.tx_cons \in TxIdx BY <1>5, TxFields DEF TakenOff
<1>11. e.tx_cons = idx BY <1>5, <1>6, <1>7, <1>9, <1>10 DEF TakenOff
<1>12. /\ e.tx_cnt = d.tx_cnt - D(idx) /\ e.tx_ring = d.tx_ring /\ e.tx_prod = d.tx_prod
       /\ e.tx_high = d.tx_high /\ e.TransmitQueue = d.TransmitQueue
       /\ \A q \in TxIdx : e.tx_m[q] =
            IF D(q) < D(idx) /\ d.tx_ring[q].op = "packet" THEN 0 ELSE d.tx_m[q]
  BY <1>5, <1>6, <1>9 DEF TakenOff
<1>13. ASSUME NEW q \in TxIdx PROVE Filled(e, q) <=> D(idx) <= D(q) /\ D(q) < d.tx_cnt
  <2>1. Filled(e, q) <=> TxDist(idx, q) < d.tx_cnt - D(idx) BY <1>11, <1>12 DEF Filled
  <2> QED BY <1>2, <1>3, <1>4, <1>8, <1>30, <2>1
<1>14. ASSUME NEW q \in TxIdx PROVE Unread(e, get, q) <=> Unread(d, get, q)
  <2>1. TxDist(idx, get) = D(get) - D(idx) BY <1>3, <1>4, <1>8
  <2>2. Unread(d, get, q) <=> D(q) < d.tx_cnt /\ D(get) <= D(q) BY <1>6 DEF Unread, Filled
  <2>3. Unread(e, get, q) <=> Filled(e, q) /\ TxDist(idx, get) <= TxDist(idx, q)
    BY <1>11 DEF Unread
  <2> QED BY <1>2, <1>3, <1>4, <1>8, <1>13, <2>1, <2>2, <2>3
<1>15. TxIndices(e, get)
  <2>1. TxDist(idx, d.tx_prod) = D(d.tx_prod) - D(idx) BY <1>2, <1>3, <1>4, <1>8
  <2>2. TxDist(idx, get) = D(get) - D(idx) BY <1>3, <1>4, <1>8
  <2>3. e.tx_cnt = TxDist(e.tx_cons, e.tx_prod) BY <1>4, <1>11, <1>12, <2>1
  <2>4. d.tx_cnt - D(idx) <= MSK_TX_RING_CNT - MSK_RESERVED_TX_DESC_CNT + 1
    BY <1>2, <1>3, <1>4, <1>30
  <2>5. D(get) - D(idx) <= d.tx_cnt - D(idx) BY <1>2, <1>3, <1>4
  <2> QED BY <1>11, <1>12, <2>2, <2>3, <2>4, <2>5 DEF TxIndices
<1>16. TxMaps(e)
  <2> SUFFICES ASSUME NEW q \in TxIdx
               PROVE  IF Filled(e, q)
                        THEN \/ e.tx_ring[q].op = "packet" /\ e.tx_m[q] = e.tx_ring[q].val
                             \/ e.tx_ring[q].op = "addr64" /\ e.tx_m[q] = 0
                        ELSE e.tx_m[q] = 0
    BY DEF TxMaps
  <2>1. IF Filled(d, q)
          THEN \/ d.tx_ring[q].op = "packet" /\ d.tx_m[q] = d.tx_ring[q].val
               \/ d.tx_ring[q].op = "addr64" /\ d.tx_m[q] = 0
          ELSE d.tx_m[q] = 0
    BY DEF TxRing, TxMaps
  <2>2. Filled(d, q) <=> D(q) < d.tx_cnt BY <1>6 DEF Filled
  <2>3. CASE D(q) < D(idx)
    <3>1. ~Filled(e, q) BY <1>3, <1>13, <2>3
    <3>2. Filled(d, q) BY <1>2, <1>3, <1>4, <2>2, <2>3
    <3> QED BY <1>12, <2>1, <2>3, <3>1, <3>2
  <2>4. CASE ~(D(q) < D(idx))
    <3>1. Filled(e, q) <=> Filled(d, q) BY <1>3, <1>13, <2>2, <2>4
    <3>2. e.tx_m[q] = d.tx_m[q] /\ e.tx_ring[q] = d.tx_ring[q] BY <1>12, <2>4
    <3> QED BY <2>1, <3>1, <3>2
  <2> QED BY <2>3, <2>4
<1>17. TxHigh(e, get, high)
  <2>1. \A q, h : Finds(e, q, h) <=> Finds(d, q, h) BY <1>12 DEF Finds
  <2> QED BY <1>12, <1>14, <2>1 DEF TxRing, TxHigh
<1>18. TxOrder(e, get, sent, tx)
  <2>1. UnreadPackets(e, get) = UnreadPackets(d, get) BY <1>12, <1>14 DEF UnreadPackets
  <2>2. ASSUME NEW q \in UnreadPackets(d, get), NEW r \in UnreadPackets(d, get),
               TxDist(idx, q) < TxDist(idx, r)
        PROVE  D(q) < D(r)
    <3>1. q \in TxIdx /\ r \in TxIdx /\ D(get) <= D(q) /\ D(get) <= D(r)
      BY <1>6 DEF UnreadPackets, Unread
    <3>2. TxDist(idx, q) = D(q) - D(idx) /\ TxDist(idx, r) = D(r) - D(idx)
      BY <1>3, <1>4, <1>8, <3>1
    <3> QED BY <1>3, <2>2, <3>1, <3>2
  <2>3. \A q, r \in UnreadPackets(d, get) : D(q) < D(r) => d.tx_ring[q].val < d.tx_ring[r].val
    <3>1. UnreadPackets(d, get) \subseteq TxIdx BY DEF UnreadPackets
    <3> QED BY <1>6, <3>1 DEF TxRing, TxOrder
  <2>4. \A q, r \in UnreadPackets(e, get) :
          TxDist(e.tx_cons, q) < TxDist(e.tx_cons, r) => e.tx_ring[q].val < e.tx_ring[r].val
    BY <1>11, <1>12, <2>1, <2>2, <2>3
  <2> QED BY <1>12, <2>1, <2>4 DEF TxRing, TxOrder
<1>19. \A x \in TxIdx : D(idx) <= D(x) => TxDist(e.tx_cons, x) = D(x) - D(idx)
  BY <1>8, <1>11
<1> QED BY <1>1, <1>6, <1>15, <1>16, <1>17, <1>18, <1>19 DEF TxRing

(* --------------------------- status events ----------------------------- *)

\* Events with the same content in the same order.
SameEvents(n, cons, m, cons2, S) ==
  /\ \A i \in S : m.stat[i].arg = n.stat[i].arg
  /\ \A i, j \in S : StatDist(cons2, i) < StatDist(cons2, j) <=>
                       StatDist(cons, i) < StatDist(cons, j)

\* The driver takes the first event.
LEMMA ReleaseFacts ==
  ASSUME ConstantsOK, NEW n \in Nics, NEW m, NEW c \in StatIdx, NEW life \in Nat,
         StatRing(n, c, life), n.stat[c].own,
         m.stat = [n.stat EXCEPT ![c].own = FALSE], m.stat_put = n.stat_put
  PROVE  LET d == Succ(MSK_STAT_RING_CNT, c) IN
         /\ m.stat \in [StatIdx -> Events] /\ d \in StatIdx
         /\ StatRing(m, d, life)
         /\ LiveTx(m, life) = LiveTx(n, life) \ {c}
         /\ LiveRx(m, life) = LiveRx(n, life) \ {c}
         /\ \A i \in StatIdx \ {c} : StatDist(c, c) < StatDist(c, i)
         /\ SameEvents(n, c, m, d, StatIdx \ {c})
<1> DEFINE d == Succ(MSK_STAT_RING_CNT, c)
           D(i) == StatDist(c, i)
           put == n.stat_put
<1>1. n.stat \in [StatIdx -> Events] /\ put \in StatIdx BY DEF Nics
<1>2. \A i \in StatIdx \ {c} : m.stat[i] = n.stat[i] BY <1>1
<1>3. m.stat[c] = [n.stat[c] EXCEPT !.own = FALSE] BY <1>1
<1>4. m.stat[c] \in Events /\ m.stat[c].own = FALSE
  <2>1. n.stat[c] \in Events BY <1>1
  <2> QED BY <1>3, <2>1 DEF Events
<1>5. m.stat \in [StatIdx -> Events]
  <2>1. m.stat = [i \in StatIdx |-> m.stat[i]] BY <1>1
  <2>2. \A i \in StatIdx : m.stat[i] \in Events BY <1>1, <1>2, <1>4
  <2> QED BY <2>1, <2>2
<1>6. \A i \in StatIdx : D(i) \in Nat /\ (D(i) = 0 <=> c = i) BY StatRingFacts, Indices
<1>7. d \in StatIdx /\ \A i \in StatIdx :
        StatDist(d, i) = IF c = i THEN MSK_STAT_RING_CNT - 1 ELSE D(i) - 1
  BY StatRingFacts
<1>8. \A i \in StatIdx : /\ n.stat[i].own <=> D(i) < D(put)
                         /\ n.stat[i].own => n.stat[i].life <= life
  BY DEF StatRing
<1>9. MSK_STAT_RING_CNT \in Nat /\ \A i \in StatIdx : D(i) < MSK_STAT_RING_CNT
  BY StatRingFacts, Indices, Sizes
<1> HIDE DEF D
<1>10. D(put) > 0 /\ put # c BY <1>1, <1>6, <1>8
<1>11. StatDist(d, put) = D(put) - 1 BY <1>1, <1>7, <1>10
<1>12. ASSUME NEW i \in StatIdx
       PROVE  /\ m.stat[i].own <=> StatDist(d, i) < StatDist(d, put)
              /\ m.stat[i].own => m.stat[i].life <= life
  <2>1. CASE i = c
    <3>1. StatDist(d, i) = MSK_STAT_RING_CNT - 1 BY <1>7, <2>1
    <3>2. ~(StatDist(d, i) < StatDist(d, put)) BY <1>1, <1>6, <1>9, <1>11, <3>1
    <3> QED BY <1>4, <2>1, <3>2
  <2>2. CASE i # c
    <3>1. StatDist(d, i) = D(i) - 1 BY <1>7, <2>2
    <3>2. StatDist(d, i) < StatDist(d, put) <=> D(i) < D(put) BY <1>1, <1>6, <1>11, <3>1
    <3> QED BY <1>2, <1>8, <2>2, <3>2
  <2> QED BY <2>1, <2>2
<1>13. StatRing(m, d, life) BY <1>12 DEF StatRing
<1>14. LiveTx(m, life) = LiveTx(n, life) \ {c} /\ LiveRx(m, life) = LiveRx(n, life) \ {c}
  BY <1>2, <1>4 DEF LiveTx, LiveRx, Live
<1>15. \A i \in StatIdx \ {c} : D(c) < D(i) BY <1>6
<1>16. SameEvents(n, c, m, d, StatIdx \ {c})
  <2>1. ASSUME NEW i \in StatIdx \ {c}, NEW j \in StatIdx \ {c}
        PROVE  StatDist(d, i) < StatDist(d, j) <=> D(i) < D(j)
    <3>1. StatDist(d, i) = D(i) - 1 /\ StatDist(d, j) = D(j) - 1 BY <1>7
    <3>2. D(i) \in Nat /\ D(j) \in Nat BY <1>6
    <3> QED BY <3>1, <3>2
  <2>2. \A i \in StatIdx \ {c} : m.stat[i].arg = n.stat[i].arg BY <1>2
  <2> QED BY <2>1, <2>2 DEF SameEvents, D
<1> QED BY <1>5, <1>7, <1>13, <1>14, <1>15, <1>16 DEF D

\* The controller adds an event behind all others.
LEMMA PostFacts ==
  ASSUME ConstantsOK, NEW n \in Nics, NEW m, NEW c \in StatIdx, NEW life \in Nat,
         StatRing(n, c, life), ~n.stat[Succ(MSK_STAT_RING_CNT, n.stat_put)].own,
         NEW e \in Events, e.own, e.life = life,
         m.stat = [n.stat EXCEPT ![n.stat_put] = e],
         m.stat_put = Succ(MSK_STAT_RING_CNT, n.stat_put)
  PROVE  LET put == n.stat_put IN
         /\ m.stat \in [StatIdx -> Events] /\ put \in StatIdx /\ m.stat_put \in StatIdx
         /\ StatRing(m, c, life)
         /\ m.stat[put] = e /\ \A i \in StatIdx \ {put} : m.stat[i] = n.stat[i]
         /\ LiveTx(m, life) = LiveTx(n, life) \cup (IF e.op = "tx" THEN {put} ELSE {})
         /\ LiveRx(m, life) = LiveRx(n, life) \cup (IF e.op = "rx" THEN {put} ELSE {})
         /\ \A i \in LiveTx(n, life) \cup LiveRx(n, life) :
              i # put /\ StatDist(c, i) < StatDist(c, put)
<1> DEFINE put == n.stat_put
           D(i) == StatDist(c, i)
<1>1. n.stat \in [StatIdx -> Events] /\ put \in StatIdx BY DEF Nics
<1>2. m.stat[put] = e /\ \A i \in StatIdx \ {put} : m.stat[i] = n.stat[i] BY <1>1
<1>3. m.stat \in [StatIdx -> Events] BY <1>1
<1>4. m.stat_put \in StatIdx /\ m.stat_put # put BY <1>1, StatRingFacts
<1>5. \A i \in StatIdx : D(i) \in Nat /\ D(i) < MSK_STAT_RING_CNT BY StatRingFacts, Indices
<1>6. D(m.stat_put) = IF D(put) + 1 = MSK_STAT_RING_CNT THEN 0 ELSE D(put) + 1
  BY <1>1, StatRingFacts
<1>7. \A i, j \in StatIdx : D(i) = D(j) <=> i = j BY StatRingFacts
<1>8. \A i \in StatIdx : /\ n.stat[i].own <=> D(i) < D(put)
                         /\ n.stat[i].own => n.stat[i].life <= life
  BY DEF StatRing
<1>9. MSK_STAT_RING_CNT \in Nat /\ MSK_STAT_RING_CNT > 1 BY Sizes
<1> HIDE DEF D
<1>10. D(m.stat_put) = D(put) + 1
  <2>1. ~(D(m.stat_put) < D(put)) BY <1>4, <1>8
  <2>2. D(put) \in Nat /\ D(put) < MSK_STAT_RING_CNT BY <1>1, <1>5
  <2> QED BY <1>6, <1>9, <2>1, <2>2
<1>11. ASSUME NEW i \in StatIdx
       PROVE  /\ m.stat[i].own <=> D(i) < D(m.stat_put)
              /\ m.stat[i].own => m.stat[i].life <= life
  <2>1. CASE i = put BY <1>2, <1>5, <1>10, <2>1
  <2>2. CASE i # put
    <3>1. D(i) # D(put) BY <1>1, <1>7, <2>2
    <3>2. D(i) < D(m.stat_put) <=> D(i) < D(put) BY <1>1, <1>5, <1>10, <3>1
    <3> QED BY <1>2, <1>8, <2>2, <3>2
  <2> QED BY <2>1, <2>2
<1>12. StatRing(m, c, life) BY <1>11 DEF StatRing, D
<1>13. ~n.stat[put].own BY <1>1, <1>5, <1>8
<1>14. LiveTx(m, life) = LiveTx(n, life) \cup (IF e.op = "tx" THEN {put} ELSE {})
  BY <1>1, <1>2, <1>13 DEF LiveTx, Live
<1>15. LiveRx(m, life) = LiveRx(n, life) \cup (IF e.op = "rx" THEN {put} ELSE {})
  BY <1>1, <1>2, <1>13 DEF LiveRx, Live
<1>16. \A i \in LiveTx(n, life) \cup LiveRx(n, life) : i # put /\ D(i) < D(put)
  BY <1>8, <1>13 DEF LiveTx, LiveRx, Live
<1> QED BY <1>1, <1>2, <1>3, <1>4, <1>12, <1>14, <1>15, <1>16 DEF D

\* Events that stay.
LEMMA TxEventsStay ==
  ASSUME ConstantsOK, NEW d, NEW n, NEW m, NEW c \in StatIdx, NEW c2 \in StatIdx, NEW life,
         NEW d2, TxEvents(d, n, c, life), LiveTx(m, life) \subseteq LiveTx(n, life),
         SameEvents(n, c, m, c2, LiveTx(m, life)),
         d2.tx_cons = d.tx_cons, m.tx_told = n.tx_told, m.tx_get = n.tx_get
  PROVE  TxEvents(d2, m, c2, life)
<1>1. LiveTx(m, life) \subseteq StatIdx BY DEF LiveTx
<1>2. \A i, j \in LiveTx(m, life) :
        StatDist(c2, i) <= StatDist(c2, j) => StatDist(c, i) <= StatDist(c, j)
  <2> SUFFICES ASSUME NEW i \in LiveTx(m, life), NEW j \in LiveTx(m, life)
               PROVE  StatDist(c2, i) <= StatDist(c2, j) => StatDist(c, i) <= StatDist(c, j)
    OBVIOUS
  <2>1. /\ StatDist(c2, i) \in Nat /\ StatDist(c2, j) \in Nat
        /\ StatDist(c, i) \in Nat /\ StatDist(c, j) \in Nat
    BY <1>1, StatRingFacts, Indices
  <2>2. StatDist(c2, j) < StatDist(c2, i) <=> StatDist(c, j) < StatDist(c, i)
    BY DEF SameEvents
  <2> QED BY <2>1, <2>2
<1>3. \A i \in LiveTx(m, life) : m.stat[i].arg = n.stat[i].arg BY DEF SameEvents
<1> QED BY <1>2, <1>3 DEF TxEvents

LEMMA RxEventsStay ==
  ASSUME NEW d, NEW n, NEW m, NEW c, NEW c2, NEW life, NEW d2, NEW good, NEW good2,
         RxEvents(d, n, c, life, good), LiveRx(m, life) = LiveRx(n, life),
         SameEvents(n, c, m, c2, LiveRx(m, life)), good \subseteq good2,
         d2.rx_cons = d.rx_cons, d2.rx_m = d.rx_m, m.rx_get = n.rx_get
  PROVE  RxEvents(d2, m, c2, life, good2)
<1>1. PICK at \in [StatIdx -> RxIdx] : Reports(at, d, n, c, life, good) BY DEF RxEvents
<1>2. \A p : Came(d2, m.rx_get, p) <=> Came(d, n.rx_get, p) BY DEF Came
<1>3. Reports(at, d2, m, c2, life, good2) BY <1>1, <1>2 DEF Reports, SameEvents
<1> QED BY <1>3 DEF RxEvents

(* ------------------------ what a step leaves alone --------------------- *)

SameTx(d, e) ==
  /\ e.mode = d.mode /\ e.TransmitQueue = d.TransmitQueue
  /\ e.tx_ring = d.tx_ring /\ e.tx_m = d.tx_m /\ e.tx_high = d.tx_high
  /\ e.tx_prod = d.tx_prod /\ e.tx_cons = d.tx_cons /\ e.tx_cnt = d.tx_cnt
SameRx(d, e) ==
  /\ e.mode = d.mode /\ e.rx_m = d.rx_m /\ e.rx_cons = d.rx_cons /\ e.rx_prod = d.rx_prod

LEMMA TxStay ==
  ASSUME NEW d, NEW e, SameTx(d, e), NEW get, NEW high, NEW sent, NEW tx
  PROVE  /\ TxRing(d, get, high, sent, tx) => TxRing(e, get, high, sent, tx)
         /\ SendOrder(d, sent, tx) => SendOrder(e, sent, tx)
<1>1. \A p : Filled(e, p) <=> Filled(d, p) BY DEF SameTx, Filled
<1>2. \A p : Unread(e, get, p) <=> Unread(d, get, p) BY <1>1 DEF SameTx, Unread
<1>3. \A p, h : Finds(e, p, h) <=> Finds(d, p, h) BY DEF SameTx, Finds
<1>4. TxIndices(d, get) => TxIndices(e, get) BY DEF SameTx, TxIndices
<1>5. TxMaps(d) => TxMaps(e) BY <1>1 DEF SameTx, TxMaps
<1>6. TxHigh(d, get, high) => TxHigh(e, get, high) BY <1>2, <1>3 DEF SameTx, TxHigh
<1>7. UnreadPackets(e, get) = UnreadPackets(d, get) BY <1>2 DEF SameTx, UnreadPackets
<1>8. TxOrder(d, get, sent, tx) => TxOrder(e, get, sent, tx) BY <1>7 DEF SameTx, TxOrder
<1>9. SendOrder(d, sent, tx) => SendOrder(e, sent, tx) BY DEF SameTx, SendOrder
<1> QED BY <1>4, <1>5, <1>6, <1>8, <1>9 DEF TxRing

LEMMA SendStay ==
  ASSUME SendPart, SameTx(drv, drv'), nic'.tx_get = nic.tx_get, nic'.tx_high = nic.tx_high,
         hist'.sent = hist.sent, hist'.tx = hist.tx, hist'.wild = hist.wild,
         hist.stale => hist'.stale,
         TxEvents(drv, nic, Cons(call, drv), hist.life) =>
           TxEvents(drv', nic', Cons(call', drv'), hist'.life)
  PROVE  SendPart'
<1>1. drv'.mode = drv.mode BY DEF SameTx
<1>2. TxRing(drv, nic.tx_get, nic.tx_high, hist.sent, hist.tx) =>
        TxRing(drv', nic'.tx_get, nic'.tx_high, hist'.sent, hist'.tx)
  BY TxStay
<1>3. SendOrder(drv, hist.sent, hist.tx) => SendOrder(drv', hist'.sent, hist'.tx) BY TxStay
<1> QED BY <1>1, <1>2, <1>3 DEF SendPart

LEMMA RxStay ==
  ASSUME ConstantsOK, NEW d \in Drivers, NEW e \in Drivers, SameRx(d, e),
         NEW n \in Nics, NEW m \in Nics, m.rx_get = n.rx_get, m.rx_put \in {n.rx_put, d.rx_prod},
         NEW rx
  PROVE  /\ RxRing(d, n, rx) => RxRing(e, m, rx)
         /\ \A q, good, lost : InOrder(q, d, n, rx, good, lost) => InOrder(q, e, m, rx, good, lost)
         /\ \A q : Later(q, d, n.rx_get) => Later(q, e, m.rx_get)
<1>1. \A p : Came(e, m.rx_get, p) <=> Came(d, n.rx_get, p) BY DEF SameRx, Came
<1>2. ASSUME RxRing(d, n, rx) PROVE RxDist(e.rx_cons, m.rx_get) <= RxDist(e.rx_cons, m.rx_put)
  <2>1. d.rx_cons \in RxIdx /\ n.rx_get \in RxIdx BY DEF Drivers, Nics
  <2>2. RxDist(d.rx_cons, n.rx_get) \in Nat /\ RxDist(d.rx_cons, n.rx_get) < MSK_RX_BUF_CNT
        /\ MSK_RX_BUF_CNT \in Nat
    BY <2>1, RxRingFacts, Indices, Sizes
  <2>3. RxDist(d.rx_cons, d.rx_prod) = MSK_RX_BUF_CNT - 1
        /\ RxDist(d.rx_cons, n.rx_get) <= RxDist(d.rx_cons, n.rx_put)
    BY <1>2 DEF RxRing
  <2> QED BY <2>2, <2>3 DEF SameRx
<1>3. RxRing(d, n, rx) => RxRing(e, m, rx) BY <1>1, <1>2 DEF SameRx, RxRing
<1>4. \A q, good, lost : InOrder(q, d, n, rx, good, lost) => InOrder(q, e, m, rx, good, lost)
  BY DEF SameRx, InOrder
<1>5. \A q : Later(q, d, n.rx_get) => Later(q, e, m.rx_get) BY <1>1 DEF SameRx, Later
<1> QED BY <1>3, <1>4, <1>5

LEMMA ReceiveStay ==
  ASSUME ConstantsOK, ReceivePart, drv \in Drivers, drv' \in Drivers, nic \in Nics, nic' \in Nics,
         SameRx(drv, drv'), nic'.rx_get = nic.rx_get, nic'.rx_put \in {nic.rx_put, drv.rx_prod},
         hist'.rx = hist.rx, hist'.good = hist.good, hist'.lost = hist.lost,
         Delivery(drv', hist'.got) = Delivery(drv, hist.got), hist.stale => hist'.stale,
         RxEvents(drv, nic, Cons(call, drv), hist.life, hist.good) =>
           RxEvents(drv', nic', Cons(call', drv'), hist'.life, hist'.good)
  PROVE  ReceivePart'
<1>1. drv'.mode = drv.mode BY DEF SameRx
<1>2. /\ RxRing(drv, nic, hist.rx) => RxRing(drv', nic', hist.rx)
      /\ \A q, good, lost : InOrder(q, drv, nic, hist.rx, good, lost) =>
                              InOrder(q, drv', nic', hist.rx, good, lost)
      /\ \A q : Later(q, drv, nic.rx_get) => Later(q, drv', nic'.rx_get)
  BY RxStay
<1> QED BY <1>1, <1>2 DEF ReceivePart

LEMMA ClientStay ==
  ASSUME ClientPart, drv'.mode = drv.mode, drv'.tx_prod = drv.tx_prod, drv'.tx_m = drv.tx_m,
         drv'.rx_m = drv.rx_m, nic'.on = nic.on, nic'.tx_put = nic.tx_put,
         hist.stale => hist'.stale, \A i \in DOMAIN held' : held'[i] <= hist'.tx
  PROVE  ClientPart'
  BY DEF ClientPart

\* The events are as they were.
LEMMA EventsStay ==
  ASSUME NEW d, NEW e, e.tx_cons = d.tx_cons, e.rx_cons = d.rx_cons, e.rx_m = d.rx_m,
         NEW n, NEW m, m.stat = n.stat, m.stat_put = n.stat_put, m.rx_get = n.rx_get,
         NEW c, NEW life, NEW good
  PROVE  /\ StatRing(n, c, life) => StatRing(m, c, life)
         /\ m.tx_told = n.tx_told /\ m.tx_get = n.tx_get /\ TxEvents(d, n, c, life) =>
              TxEvents(e, m, c, life)
         /\ RxEvents(d, n, c, life, good) => RxEvents(e, m, c, life, good)
<1>1. LiveTx(m, life) = LiveTx(n, life) /\ LiveRx(m, life) = LiveRx(n, life)
  BY DEF LiveTx, LiveRx, Live
<1>2. \A p : Came(e, m.rx_get, p) <=> Came(d, n.rx_get, p) BY DEF Came
<1>3. \A at : Reports(at, d, n, c, life, good) => Reports(at, e, m, c, life, good)
  BY <1>1, <1>2 DEF Reports
<1>4. RxEvents(d, n, c, life, good) => RxEvents(e, m, c, life, good) BY <1>3 DEF RxEvents
<1>5. StatRing(n, c, life) => StatRing(m, c, life) BY DEF StatRing
<1> QED BY <1>1, <1>4, <1>5 DEF TxEvents

\* A step that moves neither ring.
LEMMA Quiet ==
  ASSUME ConstantsOK, IInv, Types', SameTx(drv, drv'), SameRx(drv, drv'),
         nic'.on = nic.on, nic'.tx_put = nic.tx_put, nic'.tx_get = nic.tx_get,
         nic'.tx_told = nic.tx_told, nic'.tx_high = nic.tx_high, nic'.rx_get = nic.rx_get,
         nic'.rx_put \in {nic.rx_put, drv.rx_prod}, nic'.stat = nic.stat,
         nic'.stat_put = nic.stat_put, Cons(call', drv') = Cons(call, drv),
         hist'.tx = hist.tx, hist'.rx = hist.rx, hist'.good = hist.good, hist'.sent = hist.sent,
         hist'.lost = hist.lost, hist'.life = hist.life, hist'.stale = hist.stale,
         hist'.wild = hist.wild, Delivery(drv', hist'.got) = Delivery(drv, hist.got),
         \A i \in DOMAIN held' : held'[i] <= hist'.tx
  PROVE  IInv'
<1>1. drv \in Drivers /\ drv' \in Drivers /\ nic \in Nics /\ nic' \in Nics
  BY DEF IInv, Types
<1>2. /\ drv'.tx_cons = drv.tx_cons /\ drv'.rx_cons = drv.rx_cons /\ drv'.rx_m = drv.rx_m
      /\ drv'.tx_m = drv.tx_m /\ drv'.tx_prod = drv.tx_prod /\ drv'.mode = drv.mode
  BY DEF SameTx, SameRx
<1> DEFINE c == Cons(call, drv)
<1>3. /\ StatRing(nic, c, hist.life) => StatRing(nic', c, hist.life)
      /\ TxEvents(drv, nic, c, hist.life) => TxEvents(drv', nic', c, hist.life)
      /\ RxEvents(drv, nic, c, hist.life, hist.good) => RxEvents(drv', nic', c, hist.life, hist.good)
  BY <1>2, EventsStay
<1>4. EventPart' BY <1>3 DEF IInv, EventPart
<1>5. SendPart' BY <1>3, SendStay DEF IInv
<1>6. ReceivePart' BY <1>1, <1>3, ReceiveStay DEF IInv
<1>7. ClientPart' BY <1>2, ClientStay DEF IInv
<1> QED BY <1>4, <1>5, <1>6, <1>7 DEF IInv

(* --------------------------- calls and events -------------------------- *)

LEMMA SameSelf == SameTx(drv, drv) /\ SameRx(drv, drv) BY DEF SameTx, SameRx

LEMMA Stuttering ==
  ASSUME ConstantsOK, IInv, UNCHANGED vars
  PROVE  IInv'
<1>1. drv' = drv /\ nic' = nic /\ call' = call /\ hist' = hist BY DEF vars
<1>2. Types' BY <1>1 DEF IInv, Types
<1>3. held' = held BY <1>1 DEF held
<1>4. \A i \in DOMAIN held' : held'[i] <= hist'.tx BY <1>1, <1>3 DEF IInv, ClientPart
<1> QED BY <1>1, <1>2, <1>4, SameSelf, Quiet

LEMMA EnterEventsFacts ==
  ASSUME IInv, NEW op \in {"tick", "status", "receive"}, EnterEvents(op), Idle
  PROVE  call' \in Calls /\ Cons(call', drv) = Cons(call, drv)
<1>1. drv.stat_cons \in StatIdx BY DEF IInv, Types, Drivers
<1>2. PICK pc \in {"ack", "events"} :
        call' = [op |-> op, pc |-> pc, cons |-> drv.stat_cons, puts |-> 0, prog |-> 0,
                 more |-> FALSE]
  BY DEF EnterEvents, NoCall
<1>3. call' \in Calls BY <1>1, <1>2 DEF Calls
<1>4. Cons(call', drv) = drv.stat_cons BY <1>2 DEF Cons
<1>5. Cons(call, drv) = drv.stat_cons BY DEF Cons, Idle
<1> QED BY <1>3, <1>4, <1>5

LEMMA CallStep ==
  ASSUME ConstantsOK, IInv, UNCHANGED <<drv, nic, hist>>, call' \in Calls,
         Cons(call', drv) = Cons(call, drv)
  PROVE  IInv'
<1>1. Types' BY DEF IInv, Types
<1>2. held' = held BY DEF held
<1>3. \A i \in DOMAIN held' : held'[i] <= hist'.tx BY <1>2 DEF IInv, ClientPart
<1> QED BY <1>1, <1>3, SameSelf, Quiet

LEMMA StepTick ==
  ASSUME ConstantsOK, IInv, mskc_tick
  PROVE  IInv'
  BY EnterEventsFacts, CallStep DEF mskc_tick

LEMMA StepIntr ==
  ASSUME ConstantsOK, IInv, SnpGetStatus \/ SnpReceive
  PROVE  IInv'
<1>1. PICK op \in {"status", "receive"} : msk_intr(op) BY DEF SnpGetStatus, SnpReceive
<1>2. CASE nic.irq
  <2>1. EnterEvents(op) /\ Idle /\ UNCHANGED <<drv, nic, hist>> BY <1>1, <1>2 DEF msk_intr
  <2> QED BY <2>1, EnterEventsFacts, CallStep
<1>3. CASE ~nic.irq
  <2>1. Idle /\ UNCHANGED <<drv, nic, hist>>
        /\ call' = [op |-> op, pc |-> "rest", cons |-> 0, puts |-> 0, prog |-> 0, more |-> FALSE]
    BY <1>1, <1>3 DEF msk_intr, NoCall
  <2>2. call' \in Calls BY <2>1, Indices DEF Calls
  <2>3. Cons(call', drv) = Cons(call, drv) BY <2>1 DEF Cons, Idle
  <2> QED BY <2>1, <2>2, <2>3, CallStep
<1> QED BY <1>2, <1>3

LEMMA NoCallFacts ==
  ASSUME ConstantsOK
  PROVE  NoCall \in Calls /\ NoCall.pc = "idle"
  BY Indices DEF NoCall, Calls

LEMMA StepFinish ==
  ASSUME ConstantsOK, IInv, FinishEvents
  PROVE  IInv'
<1>1. drv \in Drivers /\ nic \in Nics /\ call \in Calls /\ hist' = hist BY DEF IInv, Types, FinishEvents
<1>2. drv' = [drv EXCEPT !.stat_cons = call.cons] /\ call.cons \in StatIdx
      /\ call.pc \in {"finish", "events"}
  BY <1>1 DEF FinishEvents, Calls
<1>3. drv' \in Drivers /\ drv'.stat_cons = call.cons BY <1>1, <1>2 DEF Drivers
<1>4. SameTx(drv, drv') /\ SameRx(drv, drv') /\ drv'.ReceiveQueue = drv.ReceiveQueue
      /\ drv'.TransmitFreeQueue = drv.TransmitFreeQueue
  BY <1>1, <1>2 DEF Drivers, SameTx, SameRx
<1>5. PICK put \in {nic.rx_put, drv.rx_prod} : nic' = [nic EXCEPT !.rx_put = put]
  BY DEF FinishEvents
<1>6. put \in RxIdx BY <1>1 DEF Drivers, Nics
<1>7. nic' \in Nics BY <1>1, <1>5, <1>6 DEF Nics
<1>8. /\ nic'.on = nic.on /\ nic'.tx_put = nic.tx_put /\ nic'.tx_get = nic.tx_get
      /\ nic'.tx_told = nic.tx_told /\ nic'.tx_high = nic.tx_high /\ nic'.rx_get = nic.rx_get
      /\ nic'.rx_put = put /\ nic'.stat = nic.stat /\ nic'.stat_put = nic.stat_put
  BY <1>1, <1>5 DEF Nics
<1>9. PICK more \in BOOLEAN : call' = [call EXCEPT !.pc = "ack", !.more = more] BY DEF FinishEvents
<1>10. call' \in Calls /\ call'.pc = "ack" BY <1>1, <1>9 DEF Calls
<1>11. Cons(call', drv') = Cons(call, drv) BY <1>2, <1>3, <1>10 DEF Cons
<1>12. Types' BY <1>1, <1>3, <1>7, <1>10 DEF IInv, Types
<1>13. held' = held BY <1>4 DEF held, SameTx
<1>14. Delivery(drv', hist'.got) = Delivery(drv, hist.got) BY <1>1, <1>4 DEF Delivery
<1>15. \A i \in DOMAIN held' : held'[i] <= hist'.tx BY <1>1, <1>13 DEF IInv, ClientPart
<1> QED BY <1>1, <1>4, <1>5, <1>8, <1>11, <1>12, <1>14, <1>15, Quiet

LEMMA StepAck ==
  ASSUME ConstantsOK, IInv, AckEvents
  PROVE  IInv'
<1>1. drv' = drv /\ hist' = hist /\ nic \in Nics /\ call \in Calls /\ call.pc = "ack"
  BY DEF IInv, Types, AckEvents
<1>2. PICK irq \in BOOLEAN : nic' = [nic EXCEPT !.irq = irq] BY <1>1 DEF AckEvents, Nics
<1>3. nic' \in Nics BY <1>1, <1>2 DEF Nics
<1>4. /\ nic'.on = nic.on /\ nic'.tx_put = nic.tx_put /\ nic'.tx_get = nic.tx_get
      /\ nic'.tx_told = nic.tx_told /\ nic'.tx_high = nic.tx_high /\ nic'.rx_get = nic.rx_get
      /\ nic'.rx_put = nic.rx_put /\ nic'.stat = nic.stat /\ nic'.stat_put = nic.stat_put
  BY <1>1, <1>2 DEF Nics
<1>5. call' = NoCall \/ call' = [call EXCEPT !.pc = "rest"] BY DEF AckEvents
<1>6. call' \in Calls /\ call'.pc \in {"idle", "rest"} BY <1>1, <1>5, NoCallFacts DEF Calls
<1>7. Cons(call', drv') = Cons(call, drv) BY <1>1, <1>6 DEF Cons
<1>8. Types' BY <1>1, <1>3, <1>6 DEF IInv, Types
<1>9. held' = held BY <1>1 DEF held
<1>10. \A i \in DOMAIN held' : held'[i] <= hist'.tx BY <1>1, <1>9 DEF IInv, ClientPart
<1> QED BY <1>1, <1>4, <1>7, <1>8, <1>10, SameSelf, Quiet

LEMMA StepEndGetStatus ==
  ASSUME ConstantsOK, IInv, EndGetStatus
  PROVE  IInv'
<1>1. drv \in Drivers /\ nic' = nic /\ hist' = hist /\ call' = NoCall /\ call.pc = "rest"
  BY DEF IInv, Types, EndGetStatus
<1>2. drv.TransmitFreeQueue \in Seq(Packet) /\ drv.TransmitQueue \in Seq(Packet)
  BY <1>1 DEF Drivers
<1>3. \/ drv' = drv
      \/ drv.TransmitFreeQueue # <<>>
         /\ drv' = [drv EXCEPT !.TransmitFreeQueue = Tail(drv.TransmitFreeQueue)]
  BY <1>1 DEF EndGetStatus, Drivers
<1>4. drv' \in Drivers /\ SameTx(drv, drv') /\ SameRx(drv, drv')
      /\ drv'.ReceiveQueue = drv.ReceiveQueue /\ drv'.stat_cons = drv.stat_cons
  <2>1. CASE drv' = drv BY <2>1, <1>1, SameSelf
  <2>2. CASE drv.TransmitFreeQueue # <<>>
             /\ drv' = [drv EXCEPT !.TransmitFreeQueue = Tail(drv.TransmitFreeQueue)]
    <3>1. Tail(drv.TransmitFreeQueue) \in Seq(Packet) BY <1>2, <2>2, TailFacts
    <3> QED BY <1>1, <2>2, <3>1 DEF Drivers, SameTx, SameRx
  <2> QED BY <1>3, <2>1, <2>2
<1>5. \A i \in DOMAIN held' : held'[i] <= hist'.tx
  <2>1. \A i \in DOMAIN held : held[i] <= hist.tx BY DEF IInv, ClientPart
  <2>2. CASE drv' = drv BY <1>1, <2>1, <2>2 DEF held
  <2>3. CASE drv.TransmitFreeQueue # <<>>
             /\ drv' = [drv EXCEPT !.TransmitFreeQueue = Tail(drv.TransmitFreeQueue)]
    <3>1. drv'.TransmitFreeQueue = Tail(drv.TransmitFreeQueue) BY <1>1, <2>3 DEF Drivers
    <3>4. PICK s \in Seq(Packet) : s = drv.TransmitFreeQueue /\ s # <<>> BY <1>2, <2>3
    <3>5. PICK t \in Seq(Packet) : t = drv.TransmitQueue BY <1>2
    <3>6. s \o t \in Seq(Packet) /\ s \o t # <<>> /\ Tail(s \o t) = Tail(s) \o t
      BY <3>4, <3>5, JoinTail
    <3>7. held = s \o t BY <3>4, <3>5 DEF held
    <3>8. drv'.TransmitQueue = t /\ drv'.TransmitFreeQueue = Tail(s) BY <1>4, <3>1, <3>4, <3>5 DEF SameTx
    <3>9. held' = Tail(s) \o t BY <3>8 DEF held
    <3>2. held' = Tail(held) /\ held \in Seq(Packet) /\ held # <<>> BY <3>6, <3>7, <3>9
    <3>3. \A i \in DOMAIN Tail(held) : i + 1 \in DOMAIN held /\ Tail(held)[i] = held[i + 1]
      BY <3>2, TailFacts
    <3> QED BY <1>1, <2>1, <3>2, <3>3
  <2> QED BY <1>3, <2>2, <2>3
<1>6. Cons(call', drv') = Cons(call, drv) BY <1>1, <1>4, NoCallFacts DEF Cons
<1>7. Types' BY <1>1, <1>4, NoCallFacts DEF IInv, Types
<1>8. Delivery(drv', hist'.got) = Delivery(drv, hist.got) BY <1>1, <1>4 DEF Delivery
<1> QED BY <1>1, <1>4, <1>5, <1>6, <1>7, <1>8, Quiet

LEMMA StepEndReceive ==
  ASSUME ConstantsOK, IInv, EndReceive
  PROVE  IInv'
<1>1. drv \in Drivers /\ hist \in Histories /\ nic' = nic /\ call' = NoCall /\ call.pc = "rest"
  BY DEF IInv, Types, EndReceive
<1>2. NoCall \in Calls /\ NoCall.pc = "idle" BY NoCallFacts
<1>3. CASE drv' = drv /\ hist' = hist BY <1>1, <1>2, <1>3, CallStep DEF Cons
<1>4. CASE /\ drv.ReceiveQueue # <<>>
           /\ drv' = [drv EXCEPT !.ReceiveQueue = Tail(@)]
           /\ hist' = [hist EXCEPT !.got = Append(@, Head(drv.ReceiveQueue))]
  <2>1. drv.ReceiveQueue \in Seq(Buffers) /\ hist.got \in Seq(Buffers)
    BY <1>1 DEF Drivers, Histories
  <2>2. Tail(drv.ReceiveQueue) \in Seq(Buffers) /\ Head(drv.ReceiveQueue) \in Buffers
    BY <1>4, <2>1, TailFacts
  <2>3. PICK g : g = Append(hist.got, Head(drv.ReceiveQueue)) OBVIOUS
  <2>4. g \in Seq(Buffers) BY <2>1, <2>2, <2>3, AppendFacts
  <2>5. drv' = [drv EXCEPT !.ReceiveQueue = Tail(drv.ReceiveQueue)] /\ hist' = [hist EXCEPT !.got = g]
    BY <1>1, <1>4, <2>3 DEF Drivers, Histories
  <2>6. drv' \in Drivers /\ SameTx(drv, drv') /\ SameRx(drv, drv')
        /\ drv'.ReceiveQueue = Tail(drv.ReceiveQueue) /\ drv'.stat_cons = drv.stat_cons
        /\ drv'.TransmitFreeQueue = drv.TransmitFreeQueue
    BY <1>1, <2>2, <2>5 DEF Drivers, SameTx, SameRx
  <2>7. hist' \in Histories /\ hist'.got = g BY <1>1, <2>4, <2>5 DEF Histories
  <2>8. /\ hist'.tx = hist.tx /\ hist'.rx = hist.rx /\ hist'.good = hist.good
        /\ hist'.sent = hist.sent /\ hist'.lost = hist.lost /\ hist'.life = hist.life
        /\ hist'.stale = hist.stale /\ hist'.wild = hist.wild /\ hist'.max = hist.max
    BY <1>1, <2>5 DEF Histories
  <2>14. g \o Tail(drv.ReceiveQueue) = hist.got \o drv.ReceiveQueue BY <1>4, <2>1, <2>3, JoinMove
  <2>9. Delivery(drv', hist'.got) = Delivery(drv, hist.got) BY <2>6, <2>7, <2>14 DEF Delivery
  <2>10. held' = held BY <2>6 DEF held, SameTx
  <2>11. \A i \in DOMAIN held' : held'[i] <= hist'.tx BY <2>8, <2>10 DEF IInv, ClientPart
  <2>12. Cons(call', drv') = Cons(call, drv) BY <1>1, <1>2, <2>6 DEF Cons
  <2>13. Types' BY <1>1, <1>2, <2>6, <2>7, <2>8 DEF IInv, Types
  <2> QED BY <1>1, <2>6, <2>8, <2>9, <2>11, <2>12, <2>13, Quiet
<1> QED BY <1>3, <1>4 DEF EndReceive

(* ------------------------- the controller sends ------------------------ *)

\* It reads an element that the driver filled, and the ring stays right.
LEMMA ReadRing ==
  ASSUME ConstantsOK, NEW d \in Drivers, NEW get \in TxIdx, get # d.tx_prod,
         NEW high \in {0, 1}, NEW sent \in Seq(Nat), NEW tx \in Nat,
         TxRing(d, get, high, sent, tx), SendOrder(d, sent, tx), NEW le, le = d.tx_ring[get]
  PROVE  LET next == Succ(MSK_TX_RING_CNT, get) IN
         /\ TxDist(d.tx_cons, get) <= TxDist(d.tx_cons, next)
         /\ le.op = "packet" =>
              /\ d.tx_m[get] = le.val /\ high = Hi(le.val)
              /\ TxRing(d, next, high, Append(sent, le.val), tx)
              /\ SendOrder(d, Append(sent, le.val), tx)
         /\ le.op # "packet" => TxRing(d, next, le.val, sent, tx)
<1> DEFINE D(q) == TxDist(d.tx_cons, q)
<1>1. PICK next : next = Succ(MSK_TX_RING_CNT, get) OBVIOUS
<1>2. /\ d.tx_cons \in TxIdx /\ d.tx_prod \in TxIdx /\ d.tx_cnt \in Nat
      /\ d.tx_ring \in [TxIdx -> Elements]
  BY TxFields
<1>3. \A q \in TxIdx : D(q) \in Nat /\ D(q) < MSK_TX_RING_CNT BY <1>2, TxRingFacts, Indices
<1>4. \A q, r \in TxIdx : D(q) = D(r) <=> q = r BY <1>2, TxApart
<1>5. next \in TxIdx /\ D(next) = IF D(get) + 1 = MSK_TX_RING_CNT THEN 0 ELSE D(get) + 1
  BY <1>1, <1>2, TxRingFacts
<1>6. \A q : D(q) = TxDist(d.tx_cons, q) OBVIOUS
<1>7. TxIndices(d, get) /\ TxMaps(d) /\ TxHigh(d, get, high) /\ TxOrder(d, get, sent, tx)
  BY DEF TxRing
<1>8. D(get) <= d.tx_cnt /\ D(d.tx_prod) = d.tx_cnt BY <1>7 DEF TxIndices
<1> HIDE DEF D
<1>9. D(get) < d.tx_cnt BY <1>2, <1>3, <1>4, <1>8
<1>10. D(next) = D(get) + 1
  <2>1. d.tx_cnt < MSK_TX_RING_CNT /\ MSK_TX_RING_CNT \in Nat BY <1>2, <1>3, <1>8, Sizes
  <2>2. D(get) \in Nat BY <1>3
  <2> QED BY <1>2, <1>5, <1>9, <2>1, <2>2
<1>11. Filled(d, get) /\ Unread(d, get, get)
  <2>1. D(get) \in Nat BY <1>3
  <2> QED BY <1>6, <1>9, <2>1 DEF Filled, Unread
<1>12. ASSUME NEW q \in TxIdx
       PROVE  Unread(d, next, q) <=> Unread(d, get, q) /\ q # get
  <2>1. Unread(d, next, q) <=> D(q) < d.tx_cnt /\ D(get) + 1 <= D(q)
    BY <1>6, <1>10 DEF Unread, Filled
  <2>2. Unread(d, get, q) <=> D(q) < d.tx_cnt /\ D(get) <= D(q) BY <1>6 DEF Unread, Filled
  <2>3. D(q) \in Nat /\ D(get) \in Nat /\ (D(q) = D(get) <=> q = get) BY <1>3, <1>4
  <2> QED BY <1>2, <2>1, <2>2, <2>3
<1>13. TxIndices(d, next)
  <2>1. D(get) \in Nat BY <1>3
  <2>2. D(next) <= d.tx_cnt BY <1>2, <1>9, <1>10, <2>1
  <2> QED BY <1>6, <1>7, <2>2 DEF TxIndices
<1>14. TxHigh(d, next, After(le))
  <2>1. Finds(d, next, After(le)) BY <1>1, <1>7, <1>11 DEF TxHigh
  <2>2. \A q \in TxIdx : Unread(d, next, q) => Finds(d, Succ(MSK_TX_RING_CNT, q), After(d.tx_ring[q]))
    BY <1>7, <1>12 DEF TxHigh
  <2> QED BY <2>1, <2>2 DEF TxHigh
<1>15. UnreadPackets(d, next) = UnreadPackets(d, get) \ {get} BY <1>12 DEF UnreadPackets
<1>16. D(get) <= D(next)
  <2>1. D(get) \in Nat BY <1>3
  <2> QED BY <1>10, <2>1
<1>17. ASSUME le.op = "packet"
       PROVE  /\ d.tx_m[get] = le.val /\ high = Hi(le.val)
              /\ TxRing(d, next, high, Append(sent, le.val), tx)
              /\ SendOrder(d, Append(sent, le.val), tx)
  <2>1. d.tx_m[get] = le.val BY <1>7, <1>11, <1>17 DEF TxMaps
  <2>2. high = Hi(le.val) BY <1>7, <1>17 DEF TxHigh, Finds
  <2>3. high = After(le) BY <1>17, <2>2 DEF After
  <2>4. le.val \in Packet /\ le.val \in Nat BY <1>2, <1>17, Sizes DEF Elements
  <2>5. get \in UnreadPackets(d, get) BY <1>11, <1>17 DEF UnreadPackets
  <2>6. /\ le.val <= tx /\ \A i \in DOMAIN sent : sent[i] < le.val
        /\ \A j \in DOMAIN d.TransmitQueue : le.val < d.TransmitQueue[j]
    BY <1>7, <2>5 DEF TxOrder
  <2>7. PICK s : s = Append(sent, le.val) OBVIOUS
  <2>8. /\ s \in Seq(Nat) /\ DOMAIN s = DOMAIN sent \cup {Len(sent) + 1}
        /\ \A i \in DOMAIN sent : s[i] = sent[i]
        /\ s[Len(sent) + 1] = le.val
    BY <2>4, <2>7, AppendFacts
  <2>9. Ascending(s) BY <2>4, <2>6, <2>7, AscendingAppend DEF SendOrder
  <2>10. \A i \in DOMAIN s : s[i] = le.val \/ (i \in DOMAIN sent /\ s[i] = sent[i]) BY <2>8
  <2>11. SendOrder(d, s, tx)
    <3>1. \A i \in DOMAIN s : s[i] <= tx BY <2>6, <2>10 DEF SendOrder
    <3>2. \A i \in DOMAIN s, j \in DOMAIN d.TransmitQueue : s[i] < d.TransmitQueue[j]
      BY <2>6, <2>10 DEF SendOrder
    <3> QED BY <2>9, <3>1, <3>2 DEF SendOrder
  <2>12. ASSUME NEW q \in UnreadPackets(d, next)
         PROVE  /\ le.val < d.tx_ring[q].val
                /\ q \in UnreadPackets(d, get)
    <3>1. q \in UnreadPackets(d, get) /\ q # get /\ q \in TxIdx BY <1>15 DEF UnreadPackets
    <3>2. D(get) <= D(q) BY <1>6, <3>1 DEF UnreadPackets, Unread
    <3>3. D(get) \in Nat /\ D(q) \in Nat /\ D(get) # D(q) BY <1>3, <1>4, <3>1
    <3>4. D(get) < D(q) BY <3>2, <3>3
    <3>5. TxDist(d.tx_cons, get) < TxDist(d.tx_cons, q) BY <1>6, <3>4
    <3>6. d.tx_ring[get].val < d.tx_ring[q].val BY <1>7, <2>5, <3>1, <3>5 DEF TxOrder
    <3> QED BY <3>1, <3>6
  <2>13. TxOrder(d, next, s, tx)
    <3>1. \A p, q \in UnreadPackets(d, next) :
            TxDist(d.tx_cons, p) < TxDist(d.tx_cons, q) => d.tx_ring[p].val < d.tx_ring[q].val
      BY <1>7, <2>12 DEF TxOrder
    <3>2. ASSUME NEW p \in UnreadPackets(d, next)
          PROVE  /\ d.tx_ring[p].val <= tx
                 /\ \A i \in DOMAIN s : s[i] < d.tx_ring[p].val
                 /\ \A j \in DOMAIN d.TransmitQueue : d.tx_ring[p].val < d.TransmitQueue[j]
      <4>1. /\ d.tx_ring[p].val <= tx
            /\ \A i \in DOMAIN sent : sent[i] < d.tx_ring[p].val
            /\ \A j \in DOMAIN d.TransmitQueue : d.tx_ring[p].val < d.TransmitQueue[j]
        BY <1>7, <2>12 DEF TxOrder
      <4> QED BY <2>10, <2>12, <4>1
    <3> QED BY <3>1, <3>2 DEF TxOrder
  <2>14. TxRing(d, next, high, s, tx) BY <1>7, <1>13, <1>14, <2>3, <2>13 DEF TxRing
  <2> QED BY <2>1, <2>2, <2>7, <2>11, <2>14
<1>18. ASSUME le.op # "packet" PROVE TxRing(d, next, le.val, sent, tx)
  <2>1. le.val = After(le) BY <1>18 DEF After
  <2>2. UnreadPackets(d, next) \subseteq UnreadPackets(d, get) BY <1>15
  <2>3. TxOrder(d, next, sent, tx) BY <1>7, <2>2 DEF TxOrder
  <2> QED BY <1>7, <1>13, <1>14, <2>1, <2>3 DEF TxRing
<1> QED BY <1>1, <1>6, <1>16, <1>17, <1>18

LEMMA StepNicTx ==
  ASSUME ConstantsOK, IInv, NicTx
  PROVE  IInv'
<1>1. /\ drv \in Drivers /\ nic \in Nics /\ hist \in Histories /\ drv' = drv /\ call' = call
      /\ nic.on /\ nic.tx_get # nic.tx_put /\ drv.mode = "Initialized" /\ nic.tx_put = drv.tx_prod
  BY DEF IInv, Types, ClientPart, NicTx
<1>2. PICK le : le = drv.tx_ring[nic.tx_get] OBVIOUS
<1>3. nic.tx_get \in TxIdx /\ nic.tx_high \in {0, 1} /\ hist.sent \in Seq(Nat) /\ hist.tx \in Nat
      /\ hist.wild \in BOOLEAN
  BY <1>1 DEF Nics, Histories
<1>4. le \in Elements BY <1>1, <1>2, <1>3 DEF Drivers
<1>5. PICK next : next = Succ(MSK_TX_RING_CNT, nic.tx_get) OBVIOUS
<1>6. next \in TxIdx /\ TxInc(nic.tx_get) = next BY <1>3, <1>5, TxRingFacts
<1>7. PICK wild \in BOOLEAN : wild <=> \/ hist.wild \/ drv.tx_m[nic.tx_get] # le.val
                                      \/ nic.tx_high # Hi(le.val)
  OBVIOUS
\* What the step leaves, from what it sends and what it selects.
<1> DEFINE Leaves(s, high, w) ==
      /\ nic' \in Nics /\ hist' \in Histories
      /\ nic'.tx_get = next /\ nic'.tx_high = high /\ hist'.sent = s /\ hist'.wild = w
      /\ nic'.on = nic.on /\ nic'.tx_put = nic.tx_put /\ nic'.tx_told = nic.tx_told
      /\ nic'.rx_get = nic.rx_get /\ nic'.rx_put = nic.rx_put /\ nic'.stat = nic.stat
      /\ nic'.stat_put = nic.stat_put
      /\ hist'.max = hist.max /\ hist'.tx = hist.tx /\ hist'.rx = hist.rx
      /\ hist'.good = hist.good /\ hist'.got = hist.got /\ hist'.lost = hist.lost
      /\ hist'.life = hist.life /\ hist'.stale = hist.stale
<1>8. \/ le.op = "packet" /\ Leaves(Append(hist.sent, le.val), nic.tx_high, wild)
      \/ le.op # "packet" /\ Leaves(hist.sent, le.val, hist.wild)
  <2>1. CASE le.op = "packet"
    <3>1. PICK s : s = Append(hist.sent, le.val) OBVIOUS
    <3>2. s \in Seq(Nat) BY <1>3, <1>4, <3>1, AppendFacts DEF Elements
    <3>3. /\ hist' = [hist EXCEPT !.sent = s, !.wild = wild]
          /\ nic' = [nic EXCEPT !.tx_get = next]
      <4>1. /\ nic' = [nic EXCEPT !.tx_get = TxInc(@)]
            /\ hist' = [hist EXCEPT !.sent = Append(@, le.val),
                         !.wild = @ \/ drv.tx_m[nic.tx_get] # le.val \/ nic.tx_high # Hi(le.val)]
        BY <1>2, <2>1 DEF NicTx
      <4> QED BY <4>1, <1>1, <1>6, <1>7, <3>1 DEF Histories, Nics
    <3>4. nic' \in Nics BY <1>1, <1>6, <3>3 DEF Nics
    <3>5. hist' \in Histories BY <1>1, <3>2, <3>3 DEF Histories
    <3>6. Leaves(s, nic.tx_high, wild) BY <1>1, <3>3, <3>4, <3>5 DEF Nics, Histories
    <3> QED BY <2>1, <3>1, <3>6
  <2>2. CASE le.op # "packet"
    <3>1. hist' = hist /\ nic' = [nic EXCEPT !.tx_get = next, !.tx_high = le.val]
      BY <1>1, <1>2, <1>6, <2>2 DEF NicTx, Nics
    <3>2. le.val \in {0, 1} BY <1>4, <2>2 DEF Elements
    <3>3. nic' \in Nics BY <1>1, <1>6, <3>1, <3>2 DEF Nics
    <3>4. Leaves(hist.sent, le.val, hist.wild) BY <1>1, <3>1, <3>3 DEF Nics, Histories
    <3> QED BY <2>2, <3>4
  <2> QED BY <2>1, <2>2
<1>9. /\ nic' \in Nics /\ hist' \in Histories
      /\ nic'.tx_get = next
      /\ nic'.on = nic.on /\ nic'.tx_put = nic.tx_put /\ nic'.tx_told = nic.tx_told
      /\ nic'.rx_get = nic.rx_get /\ nic'.rx_put = nic.rx_put /\ nic'.stat = nic.stat
      /\ nic'.stat_put = nic.stat_put
      /\ hist'.max = hist.max /\ hist'.tx = hist.tx /\ hist'.rx = hist.rx
      /\ hist'.good = hist.good /\ hist'.got = hist.got /\ hist'.lost = hist.lost
      /\ hist'.life = hist.life /\ hist'.stale = hist.stale
  BY <1>8
<1>10. \/ /\ le.op = "packet" /\ hist'.sent = Append(hist.sent, le.val)
          /\ nic'.tx_high = nic.tx_high /\ hist'.wild = wild
       \/ /\ le.op # "packet" /\ hist'.sent = hist.sent
          /\ nic'.tx_high = le.val /\ hist'.wild = hist.wild
  BY <1>8
<1> HIDE DEF Leaves
<1> DEFINE c == Cons(call, drv)
<1>11. Cons(call', drv') = c BY <1>1
<1>12. Types' BY <1>1, <1>9 DEF IInv, Types
<1>13. /\ StatRing(nic, c, hist.life) => StatRing(nic', c, hist.life)
       /\ RxEvents(drv, nic, c, hist.life, hist.good) => RxEvents(drv', nic', c, hist.life, hist.good)
  BY <1>1, <1>9, EventsStay
<1>14. EventPart' BY <1>9, <1>11, <1>13 DEF IInv, EventPart
<1>15. Delivery(drv', hist'.got) = Delivery(drv, hist.got) BY <1>1, <1>9
<1>16. SameRx(drv, drv') BY <1>1, SameSelf
<1>17. ReceivePart' BY <1>1, <1>9, <1>11, <1>13, <1>15, <1>16, ReceiveStay DEF IInv
<1>18. held' = held BY <1>1 DEF held
<1>19. \A i \in DOMAIN held' : held'[i] <= hist'.tx BY <1>9, <1>18 DEF IInv, ClientPart
<1>20. ClientPart' BY <1>1, <1>9, <1>19, ClientStay DEF IInv
<1>21. SendPart'
  <2> SUFFICES ASSUME ~hist.stale
               PROVE  /\ ~hist'.wild /\ SendOrder(drv, hist'.sent, hist'.tx)
                      /\ TxRing(drv, nic'.tx_get, nic'.tx_high, hist'.sent, hist'.tx)
                      /\ TxEvents(drv, nic', c, hist.life)
    BY <1>1, <1>9, <1>11 DEF SendPart
  <2>1. /\ ~hist.wild /\ SendOrder(drv, hist.sent, hist.tx)
        /\ TxRing(drv, nic.tx_get, nic.tx_high, hist.sent, hist.tx)
        /\ TxEvents(drv, nic, c, hist.life)
    BY <1>1 DEF IInv, SendPart
  <2>2. /\ TxDist(drv.tx_cons, nic.tx_get) <= TxDist(drv.tx_cons, next)
        /\ le.op = "packet" =>
             /\ drv.tx_m[nic.tx_get] = le.val /\ nic.tx_high = Hi(le.val)
             /\ TxRing(drv, next, nic.tx_high, Append(hist.sent, le.val), hist.tx)
             /\ SendOrder(drv, Append(hist.sent, le.val), hist.tx)
        /\ le.op # "packet" => TxRing(drv, next, le.val, hist.sent, hist.tx)
    BY <1>1, <1>2, <1>3, <1>5, <2>1, ReadRing
  <2>3. TxEvents(drv, nic', c, hist.life)
    <3>1. LiveTx(nic', hist.life) = LiveTx(nic, hist.life) BY <1>9 DEF LiveTx, Live
    <3>2. TxDist(drv.tx_cons, nic.tx_told) <= TxDist(drv.tx_cons, nic.tx_get)
      BY <2>1 DEF TxEvents
    <3>3. /\ TxDist(drv.tx_cons, nic.tx_told) \in Nat /\ TxDist(drv.tx_cons, nic.tx_get) \in Nat
          /\ TxDist(drv.tx_cons, next) \in Nat
      <4>1. drv.tx_cons \in TxIdx /\ nic.tx_told \in TxIdx BY <1>1 DEF Drivers, Nics
      <4> QED BY <1>3, <1>6, <4>1, TxRingFacts, Indices
    <3>4. TxDist(drv.tx_cons, nic.tx_told) <= TxDist(drv.tx_cons, next) BY <2>2, <3>2, <3>3
    <3> QED BY <1>9, <2>1, <3>1, <3>4 DEF TxEvents
  <2>4. CASE le.op = "packet" BY <1>7, <1>9, <1>10, <2>1, <2>2, <2>3, <2>4
  <2>5. CASE le.op # "packet" BY <1>9, <1>10, <2>1, <2>2, <2>3, <2>5
  <2> QED BY <2>4, <2>5
<1> QED BY <1>12, <1>14, <1>17, <1>20, <1>21 DEF IInv

(* -------------------------- it reports an event ------------------------ *)

LEMMA ConsType ==
  ASSUME Types
  PROVE  Cons(call, drv) \in StatIdx
  BY DEF Types, Drivers, Calls, Cons

LEMMA PostNic ==
  ASSUME ConstantsOK, IInv, NEW op \in {"tx", "rx"}, NEW arg \in Nat, Post(op, arg),
         op = "tx" => arg \in TxIdx, op = "rx" => arg \in {0, 1}
  PROVE  LET c == Cons(call, drv)
             put == nic.stat_put
             life == hist.life IN
         /\ nic' \in Nics /\ put \in StatIdx /\ StatRing(nic', c, life)
         /\ nic'.on = nic.on /\ nic'.tx_put = nic.tx_put /\ nic'.tx_get = nic.tx_get
         /\ nic'.tx_high = nic.tx_high /\ nic'.rx_put = nic.rx_put
         /\ nic'.tx_told = IF op = "tx" THEN nic.tx_get ELSE nic.tx_told
         /\ nic'.rx_get = IF op = "rx" THEN Succ(MSK_RX_BUF_CNT, nic.rx_get) ELSE nic.rx_get
         /\ nic'.stat[put].arg = arg
         /\ \A i \in StatIdx \ {put} : nic'.stat[i] = nic.stat[i]
         /\ LiveTx(nic', life) = LiveTx(nic, life) \cup (IF op = "tx" THEN {put} ELSE {})
         /\ LiveRx(nic', life) = LiveRx(nic, life) \cup (IF op = "rx" THEN {put} ELSE {})
         /\ \A i \in LiveTx(nic, life) \cup LiveRx(nic, life) :
              i # put /\ StatDist(c, i) < StatDist(c, put)
<1>1. nic \in Nics /\ hist.life \in Nat BY DEF IInv, Types, Histories
<1>2. Cons(call, drv) \in StatIdx BY ConsType DEF IInv
<1>3. StatRing(nic, Cons(call, drv), hist.life) BY DEF IInv, EventPart
<1>4. nic.stat \in [StatIdx -> Events] /\ nic.stat_put \in StatIdx
      /\ nic.rx_get \in RxIdx /\ nic.tx_get \in TxIdx /\ nic.tx_told \in TxIdx
  BY <1>1 DEF Nics
<1>5. PICK e : e = [own |-> TRUE, op |-> op, arg |-> arg, life |-> hist.life] OBVIOUS
<1>6. e \in Events /\ e.own /\ e.life = hist.life /\ e.op = op /\ e.arg = arg
  BY <1>1, <1>5 DEF Events
<1>7. PICK stat : stat = [nic.stat EXCEPT ![nic.stat_put] = e] OBVIOUS
<1>8. stat \in [StatIdx -> Events] BY <1>4, <1>6, <1>7
<1>9. PICK told : told = IF op = "tx" THEN nic.tx_get ELSE nic.tx_told OBVIOUS
<1>10. PICK get : get = IF op = "rx" THEN Succ(MSK_RX_BUF_CNT, nic.rx_get) ELSE nic.rx_get OBVIOUS
<1>11. told \in TxIdx BY <1>4, <1>9
<1>12. get \in RxIdx /\ RxInc(nic.rx_get) = Succ(MSK_RX_BUF_CNT, nic.rx_get)
  BY <1>4, <1>10, RxRingFacts
<1>13. StatInc(nic.stat_put) = Succ(MSK_STAT_RING_CNT, nic.stat_put)
       /\ Succ(MSK_STAT_RING_CNT, nic.stat_put) \in StatIdx
  BY <1>4, StatRingFacts
<1>14. nic' = [nic EXCEPT !.stat = stat, !.stat_put = Succ(MSK_STAT_RING_CNT, nic.stat_put),
                 !.irq = TRUE, !.tx_told = told, !.rx_get = get]
  BY <1>1, <1>5, <1>7, <1>9, <1>10, <1>12, <1>13 DEF Post, Nics
<1>15. nic' \in Nics BY <1>1, <1>8, <1>11, <1>12, <1>13, <1>14 DEF Nics
<1>16. /\ nic'.on = nic.on /\ nic'.tx_put = nic.tx_put /\ nic'.tx_get = nic.tx_get
       /\ nic'.tx_high = nic.tx_high /\ nic'.rx_put = nic.rx_put
       /\ nic'.tx_told = told /\ nic'.rx_get = get /\ nic'.stat = stat
       /\ nic'.stat_put = Succ(MSK_STAT_RING_CNT, nic.stat_put)
  BY <1>1, <1>14 DEF Nics
<1>17. ~nic.stat[Succ(MSK_STAT_RING_CNT, nic.stat_put)].own BY <1>13 DEF Post
<1>18. LET c == Cons(call, drv)
           put == nic.stat_put
           life == hist.life IN
         /\ StatRing(nic', c, life)
         /\ nic'.stat[put] = e /\ \A i \in StatIdx \ {put} : nic'.stat[i] = nic.stat[i]
         /\ LiveTx(nic', life) = LiveTx(nic, life) \cup (IF e.op = "tx" THEN {put} ELSE {})
         /\ LiveRx(nic', life) = LiveRx(nic, life) \cup (IF e.op = "rx" THEN {put} ELSE {})
         /\ \A i \in LiveTx(nic, life) \cup LiveRx(nic, life) :
              i # put /\ StatDist(c, i) < StatDist(c, put)
  BY <1>1, <1>2, <1>3, <1>6, <1>7, <1>16, <1>17, PostFacts
<1> QED BY <1>4, <1>6, <1>9, <1>10, <1>15, <1>16, <1>18

LEMMA StepNicTxDone ==
  ASSUME ConstantsOK, IInv, NicTxDone
  PROVE  IInv'
<1> DEFINE c == Cons(call, drv)
           put == nic.stat_put
           life == hist.life
<1>1. /\ drv \in Drivers /\ nic \in Nics /\ drv' = drv /\ call' = call /\ hist' = hist
      /\ nic.on /\ drv.mode = "Initialized" /\ Post("tx", nic.tx_get)
  BY DEF IInv, Types, ClientPart, NicTxDone
<1>2. nic.tx_get \in TxIdx /\ nic.tx_get \in Nat /\ nic.tx_told \in TxIdx /\ drv.tx_cons \in TxIdx
  BY <1>1, Indices DEF Nics, Drivers
<1>3. /\ nic' \in Nics /\ put \in StatIdx /\ StatRing(nic', c, life)
      /\ nic'.on = nic.on /\ nic'.tx_put = nic.tx_put /\ nic'.tx_get = nic.tx_get
      /\ nic'.tx_high = nic.tx_high /\ nic'.rx_put = nic.rx_put
      /\ nic'.tx_told = nic.tx_get /\ nic'.rx_get = nic.rx_get
      /\ nic'.stat[put].arg = nic.tx_get
      /\ \A i \in StatIdx \ {put} : nic'.stat[i] = nic.stat[i]
      /\ LiveTx(nic', life) = LiveTx(nic, life) \cup {put}
      /\ LiveRx(nic', life) = LiveRx(nic, life)
      /\ \A i \in LiveTx(nic, life) \cup LiveRx(nic, life) :
           i # put /\ StatDist(c, i) < StatDist(c, put)
  BY <1>1, <1>2, PostNic
<1>4. Types' BY <1>1, <1>3 DEF IInv, Types
<1>5. Cons(call', drv') = c BY <1>1
<1>6. EventPart' BY <1>1, <1>3, <1>5 DEF EventPart
<1>7. LiveRx(nic, life) \subseteq StatIdx /\ LiveTx(nic, life) \subseteq StatIdx BY DEF LiveTx, LiveRx
<1>8. SameEvents(nic, c, nic', c, LiveRx(nic', life)) BY <1>3, <1>7 DEF SameEvents
<1>9. RxEvents(drv, nic, c, life, hist.good) => RxEvents(drv', nic', c, life, hist.good)
  BY <1>1, <1>3, <1>8, RxEventsStay
<1>10. Delivery(drv', hist'.got) = Delivery(drv, hist.got) BY <1>1
<1>11. ReceivePart' BY <1>1, <1>3, <1>5, <1>9, <1>10, SameSelf, ReceiveStay DEF IInv
<1>12. held' = held BY <1>1 DEF held
<1>13. \A i \in DOMAIN held' : held'[i] <= hist'.tx BY <1>1, <1>12 DEF IInv, ClientPart
<1>14. ClientPart' BY <1>1, <1>3, <1>13, ClientStay DEF IInv
<1>15. ASSUME TxEvents(drv, nic, c, life) PROVE TxEvents(drv', nic', c, life)
  <2> DEFINE D(q) == TxDist(drv.tx_cons, q)
             S(i) == StatDist(c, i)
  <2>1. D(nic.tx_get) \in Nat /\ D(nic.tx_told) \in Nat BY <1>2, TxRingFacts, Indices
  <2>2. D(nic.tx_told) <= D(nic.tx_get) BY <1>15 DEF TxEvents
  <2>3. ASSUME NEW i \in LiveTx(nic, life)
        PROVE  /\ nic'.stat[i] = nic.stat[i] /\ D(nic.stat[i].arg) <= D(nic.tx_get)
               /\ S(i) < S(put)
    <3>1. i \in StatIdx \ {put} /\ S(i) < S(put) BY <1>3, <1>7
    <3>2. nic.stat[i].arg \in TxIdx BY <1>1, <3>1 DEF Nics, Events, LiveTx
    <3>3. D(nic.stat[i].arg) \in Nat BY <1>2, <3>2, TxRingFacts, Indices
    <3>4. D(nic.stat[i].arg) <= D(nic.tx_told) BY <1>15 DEF TxEvents
    <3> QED BY <1>3, <2>1, <2>2, <3>1, <3>3, <3>4
  <2>4. \A i \in StatIdx : S(i) \in Nat
    <3>1. c \in StatIdx BY ConsType DEF IInv
    <3> QED BY <3>1, StatRingFacts, Indices
  <2>5. \A i, j \in LiveTx(nic, life) : S(i) <= S(j) => D(nic.stat[i].arg) <= D(nic.stat[j].arg)
    BY <1>15 DEF TxEvents
  <2> HIDE DEF D, S
  <2>6. ASSUME NEW i \in LiveTx(nic', life)
        PROVE  /\ D(nic'.stat[i].arg) <= D(nic.tx_get)
               /\ \A j \in LiveTx(nic', life) : S(i) <= S(j) =>
                    D(nic'.stat[i].arg) <= D(nic'.stat[j].arg)
    <3>1. CASE i = put
      <4>1. D(nic'.stat[i].arg) <= D(nic.tx_get) BY <1>3, <2>1, <3>1
      <4>2. ASSUME NEW j \in LiveTx(nic, life) PROVE ~(S(i) <= S(j))
        <5>1. S(j) < S(put) /\ j \in StatIdx BY <1>7, <2>3
        <5> QED BY <1>3, <2>4, <3>1, <5>1
      <4>3. D(nic'.stat[i].arg) <= D(nic'.stat[i].arg) BY <1>3, <2>1, <3>1
      <4> QED BY <1>3, <3>1, <4>1, <4>2, <4>3
    <3>2. CASE i \in LiveTx(nic, life) BY <1>3, <2>3, <2>5, <3>2
    <3> QED BY <1>3, <3>1, <3>2
  <2>7. D(nic.tx_get) <= D(nic.tx_get) BY <2>1
  <2> QED BY <1>1, <1>3, <2>6, <2>7 DEF TxEvents, D, S
<1>16. SendPart' BY <1>1, <1>3, <1>5, <1>15, SameSelf, SendStay DEF IInv
<1> QED BY <1>4, <1>6, <1>11, <1>14, <1>16 DEF IInv

(* ----------------------- the driver handles an event ------------------- *)

LEMMA NextEventFacts ==
  ASSUME ConstantsOK, call \in Calls, NEW rx \in BOOLEAN, NextEvent(rx)
  PROVE  /\ call' \in Calls /\ call'.pc \in {"events", "finish"}
         /\ call'.cons = Succ(MSK_STAT_RING_CNT, call.cons)
<1>1. call.cons \in StatIdx /\ call.puts \in Nat /\ call.prog \in Nat BY DEF Calls
<1>2. StatInc(call.cons) = Succ(MSK_STAT_RING_CNT, call.cons)
      /\ Succ(MSK_STAT_RING_CNT, call.cons) \in StatIdx
  BY <1>1, StatRingFacts
<1>3. PICK puts : puts = call.puts + (IF rx THEN 1 ELSE 0) OBVIOUS
<1>4. PICK prog : prog = call.prog + (IF rx THEN 1 ELSE 0) OBVIOUS
<1>5. puts \in Nat /\ prog \in Nat BY <1>1, <1>3, <1>4
<1>6. PICK left : left = IF puts >= MSK_PUT_WM THEN 0 ELSE puts OBVIOUS
<1>7. PICK pc : pc = IF prog > msk_process_limit THEN "finish" ELSE "events" OBVIOUS
<1>8. left \in Nat /\ pc \in {"events", "finish"} BY <1>5, <1>6, <1>7
<1>9. call' = [call EXCEPT !.cons = Succ(MSK_STAT_RING_CNT, call.cons), !.puts = left,
                 !.prog = prog, !.pc = pc]
  BY <1>2, <1>3, <1>4, <1>6, <1>7 DEF NextEvent, Calls
<1> QED BY <1>2, <1>5, <1>8, <1>9 DEF Calls

\* The event goes, the driver's index moves on.
LEMMA HandleFacts ==
  ASSUME ConstantsOK, IInv, call.pc = "events", Event.own, nic'.stat = Release,
         nic'.stat_put = nic.stat_put, NEW rx \in BOOLEAN, NextEvent(rx)
  PROVE  LET c == call.cons
             d == Succ(MSK_STAT_RING_CNT, c)
             life == hist.life IN
         /\ c \in StatIdx /\ d \in StatIdx /\ Cons(call, drv) = c /\ Cons(call', drv') = d
         /\ call' \in Calls /\ Event = nic.stat[c] /\ Event \in Events
         /\ nic'.stat \in [StatIdx -> Events] /\ StatRing(nic', d, life)
         /\ LiveTx(nic', life) = LiveTx(nic, life) \ {c}
         /\ LiveRx(nic', life) = LiveRx(nic, life) \ {c}
         /\ \A i \in StatIdx \ {c} : StatDist(c, c) < StatDist(c, i)
         /\ SameEvents(nic, c, nic', d, StatIdx \ {c})
<1>1. nic \in Nics /\ call \in Calls /\ hist.life \in Nat BY DEF IInv, Types, Histories
<1>2. call.cons \in StatIdx /\ Cons(call, drv) = call.cons BY <1>1 DEF Calls, Cons
<1>3. StatRing(nic, call.cons, hist.life) BY <1>2 DEF IInv, EventPart
<1>4. nic.stat[call.cons].own BY DEF Event
<1>5. Event = nic.stat[call.cons] /\ Event \in Events BY <1>1, <1>2 DEF Event, Nics
<1>6. call' \in Calls /\ call'.pc \in {"events", "finish"}
      /\ call'.cons = Succ(MSK_STAT_RING_CNT, call.cons)
  BY <1>1, NextEventFacts
<1>7. Cons(call', drv') = Succ(MSK_STAT_RING_CNT, call.cons) BY <1>6 DEF Cons
<1>8. nic'.stat = [nic.stat EXCEPT ![call.cons].own = FALSE] BY DEF Release
<1>9. LET c == call.cons
          d == Succ(MSK_STAT_RING_CNT, c)
          life == hist.life IN
         /\ nic'.stat \in [StatIdx -> Events] /\ d \in StatIdx
         /\ StatRing(nic', d, life)
         /\ LiveTx(nic', life) = LiveTx(nic, life) \ {c}
         /\ LiveRx(nic', life) = LiveRx(nic, life) \ {c}
         /\ \A i \in StatIdx \ {c} : StatDist(c, c) < StatDist(c, i)
         /\ SameEvents(nic, c, nic', d, StatIdx \ {c})
  BY <1>1, <1>2, <1>3, <1>4, <1>8, ReleaseFacts
<1> QED BY <1>2, <1>5, <1>6, <1>7, <1>9

\* A step that is not stale handles an event of this life.
LEMMA NotedFacts ==
  ASSUME hist \in Histories
  PROVE  /\ Noted \in Histories
         /\ ~Noted.stale => /\ ~hist.stale /\ Event.life = hist.life /\ drv.mode = "Initialized"
         /\ Noted.max = hist.max /\ Noted.tx = hist.tx /\ Noted.rx = hist.rx
         /\ Noted.good = hist.good /\ Noted.sent = hist.sent /\ Noted.got = hist.got
         /\ Noted.lost = hist.lost /\ Noted.life = hist.life /\ Noted.faults = hist.faults
         /\ Noted.wild = hist.wild
<1>1. PICK stale \in BOOLEAN : stale <=> \/ hist.stale \/ Event.life # hist.life
                                         \/ drv.mode # "Initialized"
  OBVIOUS
<1>2. hist.stale \in BOOLEAN BY DEF Histories
<1>3. stale = (hist.stale \/ Event.life # hist.life \/ drv.mode # "Initialized") BY <1>1, <1>2
<1>4. Noted = [hist EXCEPT !.stale = stale] BY <1>3 DEF Noted, Histories
<1> QED BY <1>1, <1>4 DEF Histories

LEMMA StepHandleTx ==
  ASSUME ConstantsOK, IInv, HandleTx
  PROVE  IInv'
<1> DEFINE c == call.cons
           c2 == Succ(MSK_STAT_RING_CNT, c)
           life == hist.life
           idx == nic.stat[c].arg
<1>1. /\ drv \in Drivers /\ nic \in Nics /\ hist \in Histories /\ hist' = Noted
      /\ call.pc = "events" /\ Event.own /\ Event.op = "tx" /\ NextEvent(FALSE)
      /\ drv' = msk_txeof(drv, Event.arg) /\ nic' = [nic EXCEPT !.stat = Release]
  BY DEF IInv, Types, HandleTx
<1>2. nic'.stat = Release /\ nic'.stat_put = nic.stat_put BY <1>1 DEF Nics
<1>3. /\ c \in StatIdx /\ c2 \in StatIdx /\ Cons(call, drv) = c /\ Cons(call', drv') = c2
      /\ call' \in Calls /\ Event = nic.stat[c] /\ Event \in Events
      /\ nic'.stat \in [StatIdx -> Events] /\ StatRing(nic', c2, life)
      /\ LiveTx(nic', life) = LiveTx(nic, life) \ {c}
      /\ LiveRx(nic', life) = LiveRx(nic, life) \ {c}
      /\ \A i \in StatIdx \ {c} : StatDist(c, c) < StatDist(c, i)
      /\ SameEvents(nic, c, nic', c2, StatIdx \ {c})
  BY <1>1, <1>2, HandleFacts
<1>4. /\ nic' \in Nics /\ nic'.on = nic.on /\ nic'.tx_put = nic.tx_put /\ nic'.tx_get = nic.tx_get
      /\ nic'.tx_told = nic.tx_told /\ nic'.tx_high = nic.tx_high /\ nic'.rx_get = nic.rx_get
      /\ nic'.rx_put = nic.rx_put
  BY <1>1, <1>2, <1>3 DEF Nics
<1>5. idx \in TxIdx /\ drv' = msk_txeof(drv, idx) BY <1>1, <1>3 DEF Events
<1>6. PICK k \in 0 .. drv.tx_cnt : TakenOff(drv, drv', k) BY <1>1, <1>5, EofFacts
<1>7. /\ drv' \in Drivers /\ SameRx(drv, drv') /\ drv'.ReceiveQueue = drv.ReceiveQueue
      /\ drv'.TransmitQueue = drv.TransmitQueue /\ drv'.tx_prod = drv.tx_prod
      /\ drv'.TransmitFreeQueue = drv.TransmitFreeQueue /\ drv'.mode = drv.mode
      /\ drv'.rx_m = drv.rx_m /\ drv'.rx_cons = drv.rx_cons
      /\ \A q \in TxIdx : drv'.tx_m[q] \in {0, drv.tx_m[q]}
  BY <1>6 DEF TakenOff, SameRest, SameRx
<1>8. /\ hist' \in Histories
      /\ ~hist'.stale => ~hist.stale /\ nic.stat[c].life = life /\ drv.mode = "Initialized"
      /\ hist'.max = hist.max /\ hist'.tx = hist.tx /\ hist'.rx = hist.rx
      /\ hist'.good = hist.good /\ hist'.sent = hist.sent /\ hist'.got = hist.got
      /\ hist'.lost = hist.lost /\ hist'.life = hist.life /\ hist'.wild = hist.wild
  BY <1>1, <1>3, NotedFacts
<1>9. Types' BY <1>3, <1>4, <1>7, <1>8 DEF IInv, Types
<1>10. EventPart' BY <1>3, <1>8 DEF EventPart
<1>11. nic.stat[c].op = "tx" /\ nic.stat[c].own BY <1>1, <1>3
<1>12. c \notin LiveRx(nic, life) BY <1>11 DEF LiveRx
<1>13. LiveRx(nic', life) = LiveRx(nic, life) /\ LiveRx(nic, life) \subseteq StatIdx \ {c}
       /\ LiveTx(nic', life) \subseteq StatIdx \ {c} /\ LiveTx(nic', life) \subseteq LiveTx(nic, life)
  BY <1>3, <1>12 DEF LiveRx, LiveTx
<1>14. SameEvents(nic, c, nic', c2, LiveRx(nic', life)) BY <1>3, <1>13 DEF SameEvents
<1>15. RxEvents(drv, nic, c, life, hist.good) => RxEvents(drv', nic', c2, life, hist.good)
  BY <1>4, <1>7, <1>13, <1>14, RxEventsStay
<1>16. Delivery(drv', hist'.got) = Delivery(drv, hist.got) BY <1>7, <1>8 DEF Delivery
<1>17. hist.stale => hist'.stale BY <1>8
<1>18. ReceivePart'
  BY <1>1, <1>3, <1>4, <1>7, <1>8, <1>15, <1>16, <1>17, ReceiveStay DEF IInv
<1>19. held' = held BY <1>7 DEF held
<1>20. ClientPart'
  <2>1. ~nic'.on => \A q \in TxIdx : drv'.tx_m[q] = 0 BY <1>4, <1>7 DEF IInv, ClientPart
  <2>2. ~nic'.on /\ ~hist'.stale => \A q \in RxIdx : drv'.rx_m[q] = NoBuf
    BY <1>4, <1>7, <1>17 DEF IInv, ClientPart
  <2> QED BY <1>4, <1>7, <1>8, <1>19, <2>1, <2>2 DEF IInv, ClientPart
<1>21. SendPart'
  <2> SUFFICES ASSUME ~hist'.stale
               PROVE  /\ ~hist'.wild /\ SendOrder(drv', hist.sent, hist.tx)
                      /\ TxRing(drv', nic.tx_get, nic.tx_high, hist.sent, hist.tx)
                      /\ TxEvents(drv', nic', c2, life)
    BY <1>3, <1>4, <1>8 DEF SendPart
  <2>1. /\ ~hist.wild /\ SendOrder(drv, hist.sent, hist.tx)
        /\ TxRing(drv, nic.tx_get, nic.tx_high, hist.sent, hist.tx)
        /\ TxEvents(drv, nic, c, life)
    BY <1>3, <1>8 DEF IInv, SendPart
  <2>2. SendOrder(drv', hist.sent, hist.tx) BY <1>7, <2>1 DEF SendOrder
  <2> DEFINE D(q) == TxDist(drv.tx_cons, q)
             S(i) == StatDist(c, i)
  <2>3. c \in LiveTx(nic, life) BY <1>3, <1>8, <1>11 DEF LiveTx, Live
  <2>4. /\ D(nic.tx_told) <= D(nic.tx_get)
        /\ \A i \in LiveTx(nic, life) :
             /\ D(nic.stat[i].arg) <= D(nic.tx_told)
             /\ \A j \in LiveTx(nic, life) : S(i) <= S(j) => D(nic.stat[i].arg) <= D(nic.stat[j].arg)
    BY <2>1 DEF TxEvents
  <2>5. \A q \in TxIdx : D(q) \in Nat
    <3>1. drv.tx_cons \in TxIdx BY <1>1 DEF Drivers
    <3> QED BY <3>1, TxRingFacts, Indices
  <2>6. nic.tx_get \in TxIdx /\ nic.tx_told \in TxIdx BY <1>1 DEF Nics
  <2>7. D(idx) <= D(nic.tx_told) /\ D(idx) <= D(nic.tx_get) BY <1>5, <2>3, <2>4, <2>5, <2>6
  <2>8. /\ TxRing(drv', nic.tx_get, nic.tx_high, hist.sent, hist.tx)
        /\ \A x \in TxIdx : D(idx) <= D(x) => TxDist(drv'.tx_cons, x) = D(x) - D(idx)
    BY <1>1, <1>5, <2>1, <2>6, <2>7, EofRing
  <2>9. ASSUME NEW i \in LiveTx(nic', life)
        PROVE  /\ i \in LiveTx(nic, life) /\ nic'.stat[i].arg = nic.stat[i].arg
               /\ nic.stat[i].arg \in TxIdx /\ D(idx) <= D(nic.stat[i].arg)
    <3>1. i \in LiveTx(nic, life) /\ i \in StatIdx \ {c} BY <1>13
    <3>2. nic'.stat[i].arg = nic.stat[i].arg BY <1>3, <3>1 DEF SameEvents
    <3>3. nic.stat[i].arg \in TxIdx BY <1>1, <3>1 DEF Nics, Events, LiveTx
    <3>4. S(c) < S(i) BY <1>3, <3>1
    <3>5. S(c) \in Nat /\ S(i) \in Nat BY <1>3, <3>1, StatRingFacts, Indices
    <3>6. S(c) <= S(i) BY <3>4, <3>5
    <3> QED BY <2>3, <2>4, <3>1, <3>2, <3>3, <3>6
  <2>10. \A i, j \in LiveTx(nic', life) :
           StatDist(c2, i) <= StatDist(c2, j) => S(i) <= S(j)
    <3> SUFFICES ASSUME NEW i \in LiveTx(nic', life), NEW j \in LiveTx(nic', life)
                 PROVE  StatDist(c2, i) <= StatDist(c2, j) => S(i) <= S(j)
      OBVIOUS
    <3>1. i \in StatIdx \ {c} /\ j \in StatIdx \ {c} BY <1>13
    <3>2. StatDist(c2, j) < StatDist(c2, i) <=> S(j) < S(i) BY <1>3, <3>1 DEF SameEvents
    <3>3. /\ StatDist(c2, i) \in Nat /\ StatDist(c2, j) \in Nat /\ S(i) \in Nat /\ S(j) \in Nat
      BY <1>3, <3>1, StatRingFacts, Indices
    <3> QED BY <3>2, <3>3
  <2> DEFINE E(x) == TxDist(drv'.tx_cons, x)
  <2>11. \A x \in TxIdx : D(idx) <= D(x) => E(x) = D(x) - D(idx) BY <2>8
  <2>16. D(idx) \in Nat /\ D(nic.tx_told) \in Nat /\ D(nic.tx_get) \in Nat BY <1>5, <2>5, <2>6
  <2> HIDE DEF D, S, E
  <2>12. E(nic.tx_told) = D(nic.tx_told) - D(idx) /\ E(nic.tx_get) = D(nic.tx_get) - D(idx)
    BY <2>6, <2>7, <2>11
  <2>13. E(nic.tx_told) <= E(nic.tx_get) BY <2>4, <2>12, <2>16
  <2>14. ASSUME NEW i \in LiveTx(nic', life)
         PROVE  /\ E(nic'.stat[i].arg) <= E(nic.tx_told)
                /\ \A j \in LiveTx(nic', life) : StatDist(c2, i) <= StatDist(c2, j) =>
                     E(nic'.stat[i].arg) <= E(nic'.stat[j].arg)
    <3>1. E(nic'.stat[i].arg) = D(nic.stat[i].arg) - D(idx) /\ D(nic.stat[i].arg) \in Nat
      BY <2>5, <2>9, <2>11
    <3>2. E(nic'.stat[i].arg) <= E(nic.tx_told) BY <2>4, <2>9, <2>12, <2>16, <3>1
    <3>3. ASSUME NEW j \in LiveTx(nic', life), StatDist(c2, i) <= StatDist(c2, j)
          PROVE  E(nic'.stat[i].arg) <= E(nic'.stat[j].arg)
      <4>1. D(nic.stat[i].arg) <= D(nic.stat[j].arg) BY <2>4, <2>9, <2>10, <3>3
      <4>2. E(nic'.stat[j].arg) = D(nic.stat[j].arg) - D(idx) /\ D(nic.stat[j].arg) \in Nat
        BY <2>5, <2>9, <2>11
      <4> QED BY <2>16, <3>1, <4>1, <4>2
    <3> QED BY <3>2, <3>3
  <2>15. TxEvents(drv', nic', c2, life) BY <1>4, <2>13, <2>14 DEF TxEvents, E
  <2> QED BY <1>8, <2>1, <2>2, <2>8, <2>15
<1> QED BY <1>9, <1>10, <1>18, <1>20, <1>21 DEF IInv

(* ------------------------ it handles a frame --------------------------- *)

\* The oldest event is of the oldest frame.
LEMMA FirstReport ==
  ASSUME ConstantsOK, NEW d \in Drivers, NEW n \in Nics, NEW c \in StatIdx, NEW life, NEW good,
         NEW at \in [StatIdx -> RxIdx], Reports(at, d, n, c, life, good), c \in LiveRx(n, life)
  PROVE  at[c] = d.rx_cons /\ Came(d, n.rx_get, d.rx_cons)
<1> DEFINE D(p) == RxDist(d.rx_cons, p)
<1>1. d.rx_cons \in RxIdx /\ n.rx_get \in RxIdx /\ at[c] \in RxIdx BY DEF Drivers, Nics
<1>2. \A p \in RxIdx : D(p) \in Nat /\ (D(p) = 0 <=> d.rx_cons = p)
  BY <1>1, RxRingFacts, Indices
<1>3. D(at[c]) < D(n.rx_get) BY DEF Reports, Came
<1>4. D(d.rx_cons) = 0 BY <1>1, <1>2
<1>5. Came(d, n.rx_get, d.rx_cons) <=> D(d.rx_cons) < D(n.rx_get) BY DEF Came
<1>6. \A i \in LiveRx(n, life) : StatDist(c, c) < StatDist(c, i) => D(at[c]) < D(at[i])
  BY DEF Reports
<1> HIDE DEF D
<1>7. Came(d, n.rx_get, d.rx_cons) BY <1>1, <1>2, <1>3, <1>4, <1>5
<1>8. PICK i \in LiveRx(n, life) : at[i] = d.rx_cons BY <1>1, <1>7 DEF Reports
<1>9. i = c
  <2> SUFFICES ASSUME i # c PROVE FALSE OBVIOUS
  <2>1. i \in StatIdx BY DEF LiveRx
  <2>2. StatDist(c, i) \in Nat /\ StatDist(c, c) = 0 /\ StatDist(c, i) # 0
    BY <2>1, StatRingFacts, Indices
  <2>3. StatDist(c, c) < StatDist(c, i) BY <2>2
  <2>4. D(at[c]) < D(at[i]) BY <1>6, <2>3
  <2> QED BY <1>1, <1>2, <1>4, <1>8, <2>4
<1> QED BY <1>7, <1>8, <1>9

\* The driver's two indices move on by one, and a buffer is empty again.
Turned(d, e, q) ==
  /\ e \in Drivers /\ SameTx(d, e) /\ e.TransmitFreeQueue = d.TransmitFreeQueue
  /\ e.rx_cons = Succ(MSK_RX_BUF_CNT, d.rx_cons) /\ e.rx_prod = Succ(MSK_RX_BUF_CNT, d.rx_prod)
  /\ e.rx_m = [d.rx_m EXCEPT ![d.rx_cons] = Empty] /\ e.ReceiveQueue = q

LEMMA TurnFacts ==
  ASSUME ConstantsOK, NEW d \in Drivers
  PROVE  /\ Turned(d, RxTake(d), Append(d.ReceiveQueue, d.rx_m[d.rx_cons]))
         /\ Turned(d, RxDrop(d), d.ReceiveQueue)
         /\ Turned(d, msk_discard_rxbuf(d), d.ReceiveQueue)
<1>1. d.rx_cons \in RxIdx /\ d.rx_prod \in RxIdx /\ d.rx_m \in [RxIdx -> Buffers]
      /\ d.ReceiveQueue \in Seq(Buffers)
  BY DEF Drivers
<1>2. PICK cons \in RxIdx : cons = RxInc(d.rx_cons) /\ cons = Succ(MSK_RX_BUF_CNT, d.rx_cons)
  BY <1>1, RxRingFacts
<1>3. PICK prod \in RxIdx : prod = RxInc(d.rx_prod) /\ prod = Succ(MSK_RX_BUF_CNT, d.rx_prod)
  BY <1>1, RxRingFacts
<1>4. PICK m : m = [d.rx_m EXCEPT ![d.rx_cons] = Empty] OBVIOUS
<1>5. m \in [RxIdx -> Buffers] BY <1>1, <1>4 DEF Buffers
<1>6. PICK q : q = Append(d.ReceiveQueue, d.rx_m[d.rx_cons]) OBVIOUS
<1>7. q \in Seq(Buffers)
  <2>1. d.rx_m[d.rx_cons] \in Buffers BY <1>1
  <2> QED BY <1>1, <1>6, <2>1, AppendFacts
<1>8. RxTake(d) = [d EXCEPT !.rx_m = m, !.ReceiveQueue = q, !.rx_cons = cons, !.rx_prod = prod]
  BY <1>2, <1>3, <1>4, <1>6 DEF RxTake, RxNext, Drivers
<1>9. msk_discard_rxbuf(d) = [d EXCEPT !.rx_m = m, !.rx_cons = cons, !.rx_prod = prod]
  BY <1>2, <1>3, <1>4 DEF msk_discard_rxbuf, RxNext, Drivers
<1>10. Turned(d, RxTake(d), q)
  <2>1. PICK e : e = [d EXCEPT !.rx_m = m, !.ReceiveQueue = q, !.rx_cons = cons, !.rx_prod = prod]
    OBVIOUS
  <2>2. e \in Drivers BY <1>5, <1>7, <2>1 DEF Drivers
  <2>3. SameTx(d, e) /\ e.TransmitFreeQueue = d.TransmitFreeQueue BY <2>1 DEF Drivers, SameTx
  <2>4. e.rx_cons = cons /\ e.rx_prod = prod /\ e.rx_m = m /\ e.ReceiveQueue = q
    BY <2>1 DEF Drivers
  <2> QED BY <1>2, <1>3, <1>4, <1>8, <2>1, <2>2, <2>3, <2>4 DEF Turned
<1>11. Turned(d, msk_discard_rxbuf(d), d.ReceiveQueue)
  BY <1>2, <1>3, <1>4, <1>5, <1>9 DEF Turned, Drivers, SameTx
<1> QED BY <1>6, <1>10, <1>11 DEF RxDrop

LEMMA TurnRing ==
  ASSUME ConstantsOK, NEW d \in Drivers, NEW e \in Drivers, NEW q, Turned(d, e, q),
         NEW n \in Nics, NEW m \in Nics, m.rx_get = n.rx_get, m.rx_put \in {n.rx_put, e.rx_prod},
         NEW rx \in Nat, RxRing(d, n, rx), Came(d, n.rx_get, d.rx_cons)
  PROVE  /\ RxRing(e, m, rx)
         /\ \A p \in RxIdx : Came(e, m.rx_get, p) <=> Came(d, n.rx_get, p) /\ p # d.rx_cons
         /\ \A p \in RxIdx : p # d.rx_cons =>
              e.rx_m[p] = d.rx_m[p] /\ RxDist(e.rx_cons, p) = RxDist(d.rx_cons, p) - 1
<1> DEFINE D(p) == RxDist(d.rx_cons, p)
           E(p) == RxDist(e.rx_cons, p)
<1>1. /\ d.rx_cons \in RxIdx /\ d.rx_prod \in RxIdx /\ n.rx_get \in RxIdx /\ n.rx_put \in RxIdx
      /\ d.rx_m \in [RxIdx -> Buffers] /\ e.rx_prod \in RxIdx /\ m.rx_put \in RxIdx
  BY DEF Drivers, Nics
<1>2. \A p \in RxIdx : D(p) \in Nat /\ (D(p) = 0 <=> d.rx_cons = p) /\ D(p) < MSK_RX_BUF_CNT
  BY <1>1, RxRingFacts, Indices
<1>3. \A p \in RxIdx : E(p) = IF d.rx_cons = p THEN MSK_RX_BUF_CNT - 1 ELSE D(p) - 1
  BY <1>1, RxRingFacts DEF Turned
<1>4. /\ D(d.rx_prod) = MSK_RX_BUF_CNT - 1 /\ D(n.rx_get) <= D(n.rx_put)
      /\ \A p \in RxIdx : IF Came(d, n.rx_get, p) THEN d.rx_m[p] \in 1 .. rx ELSE d.rx_m[p] = Empty
      /\ \A p, r \in RxIdx : Came(d, n.rx_get, r) /\ D(p) < D(r) => d.rx_m[p] < d.rx_m[r]
  BY DEF RxRing
<1>5. D(e.rx_prod) = IF D(d.rx_prod) + 1 = MSK_RX_BUF_CNT THEN 0 ELSE D(d.rx_prod) + 1
  BY <1>1, RxRingFacts DEF Turned
<1>6. MSK_RX_BUF_CNT \in Nat \ {0} BY Sizes
<1>7. \A p \in RxIdx : e.rx_m[p] = IF p = d.rx_cons THEN Empty ELSE d.rx_m[p] BY <1>1 DEF Turned
<1>8. \A p : Came(d, n.rx_get, p) <=> D(p) < D(n.rx_get) BY DEF Came
<1>9. \A p : Came(e, m.rx_get, p) <=> E(p) < E(n.rx_get) BY DEF Came
<1>20. (\A p : D(p) = RxDist(d.rx_cons, p)) /\ (\A p : E(p) = RxDist(e.rx_cons, p)) OBVIOUS
<1> HIDE DEF D, E
<1>10. D(n.rx_get) > 0 /\ n.rx_get # d.rx_cons BY <1>1, <1>2, <1>8
<1>11. E(n.rx_get) = D(n.rx_get) - 1 BY <1>1, <1>3, <1>10
<1>12. ASSUME NEW p \in RxIdx
       PROVE  Came(e, m.rx_get, p) <=> Came(d, n.rx_get, p) /\ p # d.rx_cons
  <2>1. CASE p = d.rx_cons
    <3>1. E(p) = MSK_RX_BUF_CNT - 1 BY <1>3, <2>1
    <3>2. D(n.rx_get) \in Nat /\ D(n.rx_get) < MSK_RX_BUF_CNT BY <1>1, <1>2
    <3>3. ~(E(p) < E(n.rx_get)) BY <1>6, <1>11, <3>1, <3>2
    <3> QED BY <1>9, <2>1, <3>3
  <2>2. CASE p # d.rx_cons
    <3>1. E(p) = D(p) - 1 BY <1>3, <2>2
    <3>2. D(p) \in Nat /\ D(n.rx_get) \in Nat BY <1>1, <1>2
    <3> QED BY <1>8, <1>9, <1>11, <2>2, <3>1, <3>2
  <2> QED BY <2>1, <2>2
<1>13. e.rx_prod = d.rx_cons BY <1>1, <1>2, <1>4, <1>5, <1>6
<1>14. E(e.rx_prod) = MSK_RX_BUF_CNT - 1 BY <1>1, <1>3, <1>13
<1>15. E(n.rx_get) <= E(m.rx_put)
  <2>1. D(n.rx_get) \in Nat /\ D(n.rx_get) < MSK_RX_BUF_CNT /\ D(n.rx_put) \in Nat BY <1>1, <1>2
  <2>2. CASE m.rx_put = e.rx_prod BY <1>6, <1>11, <1>14, <2>1, <2>2
  <2>3. CASE m.rx_put = n.rx_put
    <3>1. D(n.rx_put) # 0 BY <1>4, <1>10, <2>1
    <3>2. n.rx_put # d.rx_cons BY <1>1, <1>2, <3>1
    <3>3. E(n.rx_put) = D(n.rx_put) - 1 BY <1>1, <1>3, <3>2
    <3> QED BY <1>4, <1>11, <2>1, <2>3, <3>3
  <2> QED BY <2>2, <2>3
<1>16. \A p \in RxIdx : IF Came(e, m.rx_get, p) THEN e.rx_m[p] \in 1 .. rx ELSE e.rx_m[p] = Empty
  BY <1>4, <1>7, <1>12
<1>17. ASSUME NEW p \in RxIdx, NEW r \in RxIdx, Came(e, m.rx_get, r), E(p) < E(r)
       PROVE  e.rx_m[p] < e.rx_m[r]
  <2>1. Came(d, n.rx_get, r) /\ r # d.rx_cons /\ E(r) = D(r) - 1 BY <1>3, <1>12, <1>17
  <2>2. D(r) \in Nat /\ D(p) \in Nat /\ D(r) < MSK_RX_BUF_CNT BY <1>2
  <2>3. p # d.rx_cons
    <3>1. CASE p = d.rx_cons
      <4>1. E(p) = MSK_RX_BUF_CNT - 1 BY <1>3, <3>1
      <4> QED BY <1>6, <1>17, <2>1, <2>2, <4>1
    <3> QED BY <3>1
  <2>4. E(p) = D(p) - 1 BY <1>3, <2>3
  <2>5. D(p) < D(r) BY <1>17, <2>1, <2>2, <2>4
  <2>6. d.rx_m[p] < d.rx_m[r] BY <1>4, <2>1, <2>5
  <2> QED BY <1>7, <2>1, <2>3, <2>6
<1>18. RxRing(e, m, rx)
  <2>1. \A p, r \in RxIdx : Came(e, m.rx_get, r) /\ RxDist(e.rx_cons, p) < RxDist(e.rx_cons, r) =>
          e.rx_m[p] < e.rx_m[r]
    BY <1>17, <1>20
  <2> QED BY <1>14, <1>15, <1>16, <1>20, <2>1 DEF RxRing
<1>19. \A p \in RxIdx : p # d.rx_cons => e.rx_m[p] = d.rx_m[p] /\ E(p) = D(p) - 1
  BY <1>3, <1>7
<1> QED BY <1>12, <1>18, <1>19, <1>20

\* The other events are of the other frames.
LEMMA TurnReports ==
  ASSUME ConstantsOK, NEW d \in Drivers, NEW e \in Drivers, NEW q, Turned(d, e, q),
         NEW n \in Nics, NEW m \in Nics, m.rx_get = n.rx_get, m.rx_put \in {n.rx_put, e.rx_prod},
         NEW rx \in Nat, RxRing(d, n, rx), NEW c \in StatIdx, NEW c2 \in StatIdx, NEW life, NEW good,
         NEW at \in [StatIdx -> RxIdx], Reports(at, d, n, c, life, good), c \in LiveRx(n, life),
         LiveRx(m, life) = LiveRx(n, life) \ {c}, SameEvents(n, c, m, c2, StatIdx \ {c}),
         \A i \in StatIdx \ {c} : StatDist(c, c) < StatDist(c, i)
  PROVE  Reports(at, e, m, c2, life, good)
<1> DEFINE D(p) == RxDist(d.rx_cons, p)
           E(p) == RxDist(e.rx_cons, p)
<1>1. at[c] = d.rx_cons /\ Came(d, n.rx_get, d.rx_cons) BY FirstReport
<1>2. /\ \A p \in RxIdx : Came(e, m.rx_get, p) <=> Came(d, n.rx_get, p) /\ p # d.rx_cons
      /\ \A p \in RxIdx : p # d.rx_cons => e.rx_m[p] = d.rx_m[p] /\ E(p) = D(p) - 1
  BY <1>1, TurnRing
<1>3. d.rx_cons \in RxIdx BY DEF Drivers
<1>4. \A p \in RxIdx : D(p) \in Nat BY <1>3, RxRingFacts, Indices
<1>5. LiveRx(n, life) \subseteq StatIdx BY DEF LiveRx
<1>6. /\ \A i \in LiveRx(n, life) :
           /\ Came(d, n.rx_get, at[i])
           /\ n.stat[i].arg = 1 => d.rx_m[at[i]] \in good
      /\ \A i, j \in LiveRx(n, life) : StatDist(c, i) < StatDist(c, j) => D(at[i]) < D(at[j])
      /\ \A p \in RxIdx : Came(d, n.rx_get, p) => \E i \in LiveRx(n, life) : at[i] = p
  BY DEF Reports
<1> HIDE DEF D, E
<1>7. ASSUME NEW i \in LiveRx(m, life)
      PROVE  i \in LiveRx(n, life) /\ i \in StatIdx \ {c} /\ at[i] \in RxIdx /\ at[i] # d.rx_cons
  <2>1. i \in LiveRx(n, life) /\ i \in StatIdx \ {c} BY <1>5
  <2>2. D(at[c]) < D(at[i]) BY <1>6, <2>1
  <2>3. at[i] # at[c]
    <3>1. D(at[c]) \in Nat BY <1>1, <1>3, <1>4
    <3> QED BY <2>2, <3>1
  <2> QED BY <1>1, <2>1, <2>3
<1>8. ASSUME NEW i \in LiveRx(m, life)
      PROVE  /\ Came(e, m.rx_get, at[i])
             /\ m.stat[i].arg = 1 => e.rx_m[at[i]] \in good
  <2>1. m.stat[i].arg = n.stat[i].arg BY <1>7 DEF SameEvents
  <2> QED BY <1>2, <1>6, <1>7, <2>1
<1>9. ASSUME NEW i \in LiveRx(m, life), NEW j \in LiveRx(m, life), StatDist(c2, i) < StatDist(c2, j)
      PROVE  E(at[i]) < E(at[j])
  <2>1. StatDist(c, i) < StatDist(c, j) BY <1>7, <1>9 DEF SameEvents
  <2>2. D(at[i]) < D(at[j]) BY <1>6, <1>7, <2>1
  <2>3. D(at[i]) \in Nat /\ D(at[j]) \in Nat BY <1>4, <1>7
  <2>4. E(at[i]) = D(at[i]) - 1 /\ E(at[j]) = D(at[j]) - 1 BY <1>2, <1>7
  <2> QED BY <2>2, <2>3, <2>4
<1>10. ASSUME NEW p \in RxIdx, Came(e, m.rx_get, p) PROVE \E i \in LiveRx(m, life) : at[i] = p
  <2>1. Came(d, n.rx_get, p) /\ p # d.rx_cons BY <1>2, <1>10
  <2>2. PICK i \in LiveRx(n, life) : at[i] = p BY <1>6, <2>1
  <2> QED BY <1>1, <2>1, <2>2
<1> QED BY <1>8, <1>9, <1>10 DEF Reports, E

\* A frame goes to the queue, or it is lost.
Goes(d, r, f, good, lost, lost2) ==
  \/ r = d.ReceiveQueue /\ lost2 = lost \cup ({f} \ {NoBuf, Empty})
  \/ r = Append(d.ReceiveQueue, f) /\ f \in good /\ lost2 = lost

LEMMA TurnOrder ==
  ASSUME ConstantsOK, NEW d \in Drivers, NEW e \in Drivers, NEW n \in Nics, NEW m \in Nics,
         m.rx_get = n.rx_get, m.rx_put \in {n.rx_put, e.rx_prod}, NEW rx \in Nat,
         NEW f, f = d.rx_m[d.rx_cons], NEW r, Turned(d, e, r), RxRing(d, n, rx),
         Came(d, n.rx_get, d.rx_cons), NEW got \in Seq(Buffers), NEW good, NEW lost, NEW lost2,
         InOrder(Delivery(d, got), d, n, rx, good, lost), Later(Delivery(d, got), d, n.rx_get),
         Goes(d, r, f, good, lost, lost2)
  PROVE  /\ InOrder(Delivery(e, got), e, m, rx, good, lost2)
         /\ Later(Delivery(e, got), e, m.rx_get)
<1> DEFINE q == Delivery(d, got)
           q2 == Delivery(e, got)
<1>1. /\ d.rx_cons \in RxIdx /\ n.rx_get \in RxIdx /\ d.rx_m \in [RxIdx -> Buffers]
      /\ d.ReceiveQueue \in Seq(Buffers)
  BY DEF Drivers, Nics
<1>2. /\ \A p \in RxIdx : Came(e, m.rx_get, p) <=> Came(d, n.rx_get, p) /\ p # d.rx_cons
      /\ \A p \in RxIdx : p # d.rx_cons => e.rx_m[p] = d.rx_m[p]
  BY TurnRing
<1>3. f \in 1 .. rx /\ f \in Buffers BY <1>1 DEF RxRing
<1>4. q \in Seq(Buffers) BY <1>1, JoinFacts DEF Delivery
<1>5. /\ Ascending(q) /\ Members(q) \subseteq good /\ \A i \in DOMAIN q : q[i] <= rx
      /\ good \subseteq Members(q) \cup lost \cup {d.rx_m[i] : i \in RxIdx}
  BY DEF InOrder
<1>6. \A i \in DOMAIN q, p \in RxIdx : Came(d, n.rx_get, p) => q[i] < d.rx_m[p] BY DEF Later
<1>7. {d.rx_m[i] : i \in RxIdx} \subseteq {e.rx_m[i] : i \in RxIdx} \cup {f}
  <2> SUFFICES ASSUME NEW p \in RxIdx PROVE d.rx_m[p] \in {e.rx_m[i] : i \in RxIdx} \cup {f}
    OBVIOUS
  <2>1. CASE p = d.rx_cons BY <2>1
  <2>2. CASE p # d.rx_cons BY <1>2, <2>2
  <2> QED BY <2>1, <2>2
<1>8. f # NoBuf /\ f # Empty BY <1>3 DEF NoBuf, Empty
<1>9. CASE r = d.ReceiveQueue /\ lost2 = lost \cup ({f} \ {NoBuf, Empty})
  <2>1. q2 = q BY <1>9 DEF Delivery, Turned
  <2>2. f \in lost2 BY <1>8, <1>9
  <2>3. good \subseteq Members(q2) \cup lost2 \cup {e.rx_m[i] : i \in RxIdx}
    BY <1>5, <1>7, <1>9, <2>1, <2>2
  <2>4. InOrder(q2, e, m, rx, good, lost2) BY <1>5, <2>1, <2>3 DEF InOrder
  <2>5. Later(q2, e, m.rx_get) BY <1>2, <1>6, <2>1 DEF Later
  <2> QED BY <2>4, <2>5
<1>10. CASE r = Append(d.ReceiveQueue, f) /\ f \in good /\ lost2 = lost
  <2>1. got \o Append(d.ReceiveQueue, f) = Append(got \o d.ReceiveQueue, f)
    BY <1>1, <1>3, JoinFacts
  <2>2. q2 = Append(q, f) BY <1>10, <2>1 DEF Delivery, Turned
  <2>3. \A i \in DOMAIN q : q[i] < f BY <1>1, <1>6
  <2> HIDE DEF q, q2
  <2>4. Ascending(q2) BY <1>3, <1>4, <1>5, <2>2, <2>3, AscendingAppend
  <2>5. Members(q2) = Members(q) \cup {f} BY <1>3, <1>4, <2>2, MembersAppend
  <2>6. good \subseteq Members(q2) \cup lost2 \cup {e.rx_m[i] : i \in RxIdx}
    BY <1>5, <1>7, <1>10, <2>5
  <2>7. /\ DOMAIN q2 = DOMAIN q \cup {Len(q) + 1} /\ q2[Len(q) + 1] = f
        /\ \A i \in DOMAIN q : q2[i] = q[i]
    BY <1>3, <1>4, <2>2, AppendFacts
  <2>8. \A i \in DOMAIN q2 : q2[i] = f \/ (i \in DOMAIN q /\ q2[i] = q[i]) BY <2>7
  <2>9. f <= rx BY <1>3
  <2>10. \A i \in DOMAIN q2 : q2[i] <= rx BY <1>5, <2>8, <2>9
  <2>11. InOrder(q2, e, m, rx, good, lost2) BY <1>5, <1>10, <2>4, <2>5, <2>6, <2>10 DEF InOrder
  <2>12. \A p \in RxIdx : Came(e, m.rx_get, p) => f < d.rx_m[p]
    <3> SUFFICES ASSUME NEW p \in RxIdx, Came(e, m.rx_get, p) PROVE f < d.rx_m[p] OBVIOUS
    <3>1. Came(d, n.rx_get, p) /\ p # d.rx_cons BY <1>2
    <3>2. RxDist(d.rx_cons, d.rx_cons) = 0 /\ RxDist(d.rx_cons, p) \in Nat /\ RxDist(d.rx_cons, p) # 0
      BY <1>1, <3>1, RxRingFacts, Indices
    <3>3. RxDist(d.rx_cons, d.rx_cons) < RxDist(d.rx_cons, p) BY <3>2
    <3> QED BY <1>1, <3>1, <3>3 DEF RxRing
  <2>13. ASSUME NEW i \in DOMAIN q2, NEW p \in RxIdx, Came(e, m.rx_get, p)
         PROVE  q2[i] < e.rx_m[p]
    <3>1. e.rx_m[p] = d.rx_m[p] /\ Came(d, n.rx_get, p) BY <1>2, <2>13
    <3>2. CASE q2[i] = f BY <2>12, <2>13, <3>1, <3>2
    <3>3. CASE i \in DOMAIN q /\ q2[i] = q[i] BY <1>6, <3>1, <3>3
    <3> QED BY <2>8, <3>2, <3>3
  <2>14. Later(q2, e, m.rx_get) BY <2>13 DEF Later
  <2> QED BY <2>11, <2>14 DEF q2
<1> QED BY <1>9, <1>10 DEF Goes

LEMMA StepHandleRx ==
  ASSUME ConstantsOK, IInv, HandleRx
  PROVE  IInv'
<1> DEFINE c == call.cons
           c2 == Succ(MSK_STAT_RING_CNT, c)
           life == hist.life
<1>1. /\ drv \in Drivers /\ nic \in Nics /\ hist \in Histories
      /\ call.pc = "events" /\ Event.own /\ Event.op = "rx" /\ NextEvent(TRUE)
      /\ nic' = [nic EXCEPT !.stat = Release,
                   !.rx_put = IF call'.puts = 0 THEN drv'.rx_prod ELSE @]
  BY DEF IInv, Types, HandleRx
<1>2. nic'.stat = Release /\ nic'.stat_put = nic.stat_put BY <1>1 DEF Nics
<1>3. /\ c \in StatIdx /\ c2 \in StatIdx /\ Cons(call, drv) = c /\ Cons(call', drv') = c2
      /\ call' \in Calls /\ Event = nic.stat[c] /\ Event \in Events
      /\ nic'.stat \in [StatIdx -> Events] /\ StatRing(nic', c2, life)
      /\ LiveTx(nic', life) = LiveTx(nic, life) \ {c}
      /\ LiveRx(nic', life) = LiveRx(nic, life) \ {c}
      /\ \A i \in StatIdx \ {c} : StatDist(c, c) < StatDist(c, i)
      /\ SameEvents(nic, c, nic', c2, StatIdx \ {c})
  BY <1>1, <1>2, HandleFacts
<1>4. PICK f : f = drv.rx_m[drv.rx_cons] OBVIOUS
<1>5. f \in Buffers /\ drv.rx_prod \in RxIdx BY <1>1, <1>4 DEF Drivers
<1>6. PICK lose : lose = [Noted EXCEPT !.lost = @ \cup ({f} \ {NoBuf, Empty})] OBVIOUS
<1>7. \/ Event.arg = 1 /\ drv' = RxTake(drv) /\ hist' = Noted
      \/ drv' = RxDrop(drv) /\ hist' = Faulted(lose)
      \/ drv' = msk_discard_rxbuf(drv) /\ hist' = lose
  BY <1>4, <1>6 DEF HandleRx
<1>8. /\ Noted \in Histories
      /\ ~Noted.stale => /\ ~hist.stale /\ nic.stat[c].life = life /\ drv.mode = "Initialized"
      /\ Noted.max = hist.max /\ Noted.tx = hist.tx /\ Noted.rx = hist.rx
      /\ Noted.good = hist.good /\ Noted.sent = hist.sent /\ Noted.got = hist.got
      /\ Noted.lost = hist.lost /\ Noted.life = hist.life /\ Noted.faults = hist.faults
      /\ Noted.wild = hist.wild
  BY <1>1, <1>3, NotedFacts
\* The history, but for what is lost.
<1> DEFINE Leaves(h, lost) ==
      /\ h \in Histories /\ h.stale = Noted.stale /\ h.lost = lost
      /\ h.max = hist.max /\ h.tx = hist.tx /\ h.rx = hist.rx
      /\ h.good = hist.good /\ h.sent = hist.sent /\ h.got = hist.got
      /\ h.life = hist.life /\ h.wild = hist.wild
<1>9. Leaves(Noted, hist.lost) BY <1>8
<1>10. Leaves(lose, hist.lost \cup ({f} \ {NoBuf, Empty}))
       /\ Leaves(Faulted(lose), hist.lost \cup ({f} \ {NoBuf, Empty}))
  <2>1. PICK lost : lost = hist.lost \cup ({f} \ {NoBuf, Empty}) OBVIOUS
  <2>2. lost \in SUBSET Buffers BY <1>1, <1>5, <2>1 DEF Histories
  <2>3. PICK noted \in Histories : noted = Noted BY <1>8
  <2>4. lose = [noted EXCEPT !.lost = lost] BY <1>6, <1>8, <2>1, <2>3 DEF Histories
  <2>5. lose \in Histories /\ lose.stale = noted.stale /\ lose.lost = lost
        /\ lose.max = noted.max /\ lose.tx = noted.tx /\ lose.rx = noted.rx
        /\ lose.good = noted.good /\ lose.sent = noted.sent /\ lose.got = noted.got
        /\ lose.life = noted.life /\ lose.wild = noted.wild
    BY <2>2, <2>4 DEF Histories
  <2>6. Leaves(lose, lost) BY <1>8, <2>3, <2>5
  <2>7. PICK h : h = Faulted(lose) OBVIOUS
  <2>8. h = [lose EXCEPT !.faults = lose.faults + 1] BY <2>5, <2>7 DEF Faulted, Histories
  <2>9. h \in Histories /\ h.stale = lose.stale /\ h.lost = lose.lost
        /\ h.max = lose.max /\ h.tx = lose.tx /\ h.rx = lose.rx
        /\ h.good = lose.good /\ h.sent = lose.sent /\ h.got = lose.got
        /\ h.life = lose.life /\ h.wild = lose.wild
    BY <2>5, <2>8 DEF Histories
  <2>10. Leaves(h, lost) BY <2>6, <2>9
  <2> QED BY <2>1, <2>6, <2>7, <2>10
<1> HIDE DEF Leaves
<1>11. PICK r, lost :
         /\ Turned(drv, drv', r) /\ Leaves(hist', lost)
         /\ \/ r = drv.ReceiveQueue /\ lost = hist.lost \cup ({f} \ {NoBuf, Empty})
            \/ r = Append(drv.ReceiveQueue, f) /\ Event.arg = 1 /\ lost = hist.lost
  <2>1. /\ Turned(drv, RxTake(drv), Append(drv.ReceiveQueue, f))
        /\ Turned(drv, RxDrop(drv), drv.ReceiveQueue)
        /\ Turned(drv, msk_discard_rxbuf(drv), drv.ReceiveQueue)
    BY <1>1, <1>4, TurnFacts
  <2>2. CASE Event.arg = 1 /\ drv' = RxTake(drv) /\ hist' = Noted BY <1>9, <2>1, <2>2
  <2>3. CASE drv' = RxDrop(drv) /\ hist' = Faulted(lose) BY <1>10, <2>1, <2>3
  <2>4. CASE drv' = msk_discard_rxbuf(drv) /\ hist' = lose BY <1>10, <2>1, <2>4
  <2> QED BY <1>7, <2>2, <2>3, <2>4
<1>12. /\ hist' \in Histories
       /\ ~hist'.stale => /\ ~hist.stale /\ nic.stat[c].life = life /\ drv.mode = "Initialized"
       /\ hist'.max = hist.max /\ hist'.tx = hist.tx /\ hist'.rx = hist.rx
       /\ hist'.good = hist.good /\ hist'.sent = hist.sent /\ hist'.got = hist.got
       /\ hist'.lost = lost /\ hist'.life = hist.life /\ hist'.wild = hist.wild
  BY <1>8, <1>11 DEF Leaves
<1>13. /\ drv' \in Drivers /\ SameTx(drv, drv') /\ drv'.mode = drv.mode
       /\ drv'.TransmitFreeQueue = drv.TransmitFreeQueue /\ drv'.tx_prod = drv.tx_prod
       /\ drv'.TransmitQueue = drv.TransmitQueue /\ drv'.tx_m = drv.tx_m
       /\ drv'.tx_cons = drv.tx_cons
  BY <1>11 DEF Turned, SameTx
<1>14. PICK put \in {nic.rx_put, drv'.rx_prod} : nic' = [nic EXCEPT !.stat = Release, !.rx_put = put]
  BY <1>1 DEF Nics
<1>15. put \in RxIdx BY <1>1, <1>13 DEF Nics, Drivers
<1>16. /\ nic' \in Nics /\ nic'.on = nic.on /\ nic'.tx_put = nic.tx_put /\ nic'.tx_get = nic.tx_get
       /\ nic'.tx_told = nic.tx_told /\ nic'.tx_high = nic.tx_high /\ nic'.rx_get = nic.rx_get
       /\ nic'.rx_put \in {nic.rx_put, drv'.rx_prod}
  <2>1. PICK s \in [StatIdx -> Events] : s = Release BY <1>2, <1>3
  <2>2. nic' = [nic EXCEPT !.stat = s, !.rx_put = put] BY <1>14, <2>1
  <2> QED BY <1>1, <1>14, <1>15, <2>1, <2>2 DEF Nics
<1>17. Types' BY <1>3, <1>12, <1>13, <1>16 DEF IInv, Types
<1>18. EventPart' BY <1>3, <1>12 DEF EventPart
<1>19. nic.stat[c].op = "rx" /\ nic.stat[c].own BY <1>1, <1>3
<1>20. c \notin LiveTx(nic, life) BY <1>19 DEF LiveTx
<1>21. LiveTx(nic', life) \subseteq LiveTx(nic, life) /\ LiveTx(nic', life) \subseteq StatIdx \ {c}
  BY <1>3 DEF LiveTx
<1>22. SameEvents(nic, c, nic', c2, LiveTx(nic', life)) BY <1>3, <1>21 DEF SameEvents
<1>30. drv'.tx_cons = drv.tx_cons /\ nic'.tx_told = nic.tx_told /\ nic'.tx_get = nic.tx_get
  BY <1>13, <1>16
<1>31. c \in StatIdx BY <1>3
<1>32. c2 \in StatIdx BY <1>3
<1>33. /\ drv \in Drivers /\ drv' \in Drivers /\ nic \in Nics /\ nic' \in Nics
       /\ nic'.rx_get = nic.rx_get /\ nic'.rx_put \in {nic.rx_put, drv'.rx_prod}
       /\ Turned(drv, drv', r)
  BY <1>1, <1>11, <1>13, <1>16
<1>23. TxEvents(drv, nic, c, life) => TxEvents(drv', nic', c2, life)
  BY <1>30, <1>31, <1>32, <1>21, <1>22, TxEventsStay
<1>24. hist.stale => hist'.stale BY <1>12
<1>25. SendPart' BY <1>3, <1>12, <1>13, <1>16, <1>23, <1>24, SendStay DEF IInv
<1>26. held' = held BY <1>13 DEF held
<1>27. ClientPart'
  <2>1. ~hist'.stale => nic'.on BY <1>12, <1>16 DEF IInv, ClientPart
  <2> QED BY <1>12, <1>13, <1>16, <1>26, <2>1 DEF IInv, ClientPart
<1>28. ReceivePart'
  <2> SUFFICES ASSUME ~hist'.stale
               PROVE  /\ InOrder(Delivery(drv', hist.got), drv', nic', hist.rx, hist.good, lost)
                      /\ RxRing(drv', nic', hist.rx)
                      /\ RxEvents(drv', nic', c2, life, hist.good)
                      /\ Later(Delivery(drv', hist.got), drv', nic'.rx_get)
    BY <1>3, <1>12 DEF ReceivePart
  <2>1. /\ InOrder(Delivery(drv, hist.got), drv, nic, hist.rx, hist.good, hist.lost)
        /\ RxRing(drv, nic, hist.rx) /\ RxEvents(drv, nic, c, life, hist.good)
        /\ Later(Delivery(drv, hist.got), drv, nic.rx_get)
    BY <1>3, <1>12 DEF IInv, ReceivePart
  <2>2. c \in LiveRx(nic, life) BY <1>3, <1>12, <1>19 DEF LiveRx, Live
  <2>3. PICK at \in [StatIdx -> RxIdx] : Reports(at, drv, nic, c, life, hist.good)
    BY <2>1 DEF RxEvents
  <2>4. at[c] = drv.rx_cons /\ Came(drv, nic.rx_get, drv.rx_cons)
    BY <1>1, <1>3, <2>2, <2>3, FirstReport
  <2>5. Event.arg = 1 => f \in hist.good BY <1>3, <1>4, <2>2, <2>3, <2>4 DEF Reports
  <2>6. hist.rx \in Nat /\ hist.got \in Seq(Buffers) BY <1>1 DEF Histories
  <2>7. RxRing(drv', nic', hist.rx) BY <1>33, <2>1, <2>4, <2>6, TurnRing
  <2>8. Reports(at, drv', nic', c2, life, hist.good)
    BY <1>3, <1>31, <1>32, <1>33, <2>1, <2>2, <2>3, <2>6, TurnReports
  <2>9. RxEvents(drv', nic', c2, life, hist.good) BY <2>8 DEF RxEvents
  <2>10. Goes(drv, r, f, hist.good, hist.lost, lost) BY <1>11, <2>5 DEF Goes
  <2>12. /\ InOrder(Delivery(drv', hist.got), drv', nic', hist.rx, hist.good, lost)
         /\ Later(Delivery(drv', hist.got), drv', nic'.rx_get)
    BY <1>4, <1>33, <2>1, <2>4, <2>6, <2>10, TurnOrder
  <2> QED BY <2>7, <2>9, <2>12
<1> QED BY <1>17, <1>18, <1>25, <1>27, <1>28 DEF IInv

(* ---------------------------- a frame arrives -------------------------- *)

Arrives(d, e, get, f) ==
  /\ e \in Drivers /\ SameTx(d, e) /\ e.TransmitFreeQueue = d.TransmitFreeQueue
  /\ e.rx_cons = d.rx_cons /\ e.rx_prod = d.rx_prod /\ e.ReceiveQueue = d.ReceiveQueue
  /\ e.rx_m = [d.rx_m EXCEPT ![get] = f]

LEMMA ArriveRing ==
  ASSUME ConstantsOK, NEW d \in Drivers, NEW e \in Drivers, NEW n \in Nics, NEW m \in Nics,
         NEW rx \in Nat, n.rx_get # n.rx_put, m.rx_get = Succ(MSK_RX_BUF_CNT, n.rx_get),
         m.rx_put = n.rx_put, Arrives(d, e, n.rx_get, rx + 1), RxRing(d, n, rx)
  PROVE  /\ RxRing(e, m, rx + 1)
         /\ \A p \in RxIdx : Came(e, m.rx_get, p) <=> Came(d, n.rx_get, p) \/ p = n.rx_get
         /\ ~Came(d, n.rx_get, n.rx_get) /\ d.rx_m[n.rx_get] = Empty
         /\ e.rx_m[n.rx_get] = rx + 1
         /\ \A p \in RxIdx \ {n.rx_get} : e.rx_m[p] = d.rx_m[p]
<1> DEFINE D(p) == RxDist(d.rx_cons, p)
           get == n.rx_get
<1>1. /\ d.rx_cons \in RxIdx /\ get \in RxIdx /\ n.rx_put \in RxIdx /\ m.rx_get \in RxIdx
      /\ d.rx_m \in [RxIdx -> Buffers]
  BY DEF Drivers, Nics
<1>2. \A p \in RxIdx : D(p) \in Nat /\ D(p) < MSK_RX_BUF_CNT BY <1>1, RxRingFacts, Indices
<1>3. \A p, q \in RxIdx : D(p) = D(q) <=> p = q BY <1>1, RxApart
<1>4. /\ D(d.rx_prod) = MSK_RX_BUF_CNT - 1 /\ D(get) <= D(n.rx_put)
      /\ \A p \in RxIdx : IF Came(d, get, p) THEN d.rx_m[p] \in 1 .. rx ELSE d.rx_m[p] = Empty
      /\ \A p, r \in RxIdx : Came(d, get, r) /\ D(p) < D(r) => d.rx_m[p] < d.rx_m[r]
  BY DEF RxRing
<1>5. D(m.rx_get) = IF D(get) + 1 = MSK_RX_BUF_CNT THEN 0 ELSE D(get) + 1
  <2>1. D(Succ(MSK_RX_BUF_CNT, get)) = IF D(get) + 1 = MSK_RX_BUF_CNT THEN 0 ELSE D(get) + 1
    BY <1>1, RxNextPlace
  <2> QED BY <2>1
<1>6. MSK_RX_BUF_CNT \in Nat BY Sizes
<1>7. e.rx_m[get] = rx + 1 /\ \A p \in RxIdx \ {get} : e.rx_m[p] = d.rx_m[p]
  BY <1>1 DEF Arrives
<1>8. /\ \A p : Came(d, get, p) <=> D(p) < D(get)
      /\ \A p : Came(e, m.rx_get, p) <=> D(p) < D(m.rx_get)
      /\ RxDist(e.rx_cons, e.rx_prod) = D(d.rx_prod) /\ RxDist(e.rx_cons, m.rx_get) = D(m.rx_get)
      /\ RxDist(e.rx_cons, m.rx_put) = D(n.rx_put) /\ \A p : RxDist(e.rx_cons, p) = D(p)
  BY DEF Came, Arrives
<1> HIDE DEF D
<1>9. D(get) < D(n.rx_put)
  <2>1. D(get) \in Nat /\ D(n.rx_put) \in Nat /\ D(get) # D(n.rx_put) BY <1>1, <1>2, <1>3
  <2> QED BY <1>4, <2>1
<1>10. D(m.rx_get) = D(get) + 1
  <2>1. D(get) \in Nat /\ D(n.rx_put) \in Nat /\ D(n.rx_put) < MSK_RX_BUF_CNT BY <1>1, <1>2
  <2> QED BY <1>5, <1>6, <1>9, <2>1
<1>11. ASSUME NEW p \in RxIdx
       PROVE  Came(e, m.rx_get, p) <=> Came(d, get, p) \/ p = get
  <2>1. D(p) \in Nat /\ D(get) \in Nat /\ (D(p) = D(get) <=> p = get) BY <1>1, <1>2, <1>3
  <2> QED BY <1>8, <1>10, <2>1
<1>12. ~Came(d, get, get)
  <2>1. D(get) \in Nat BY <1>1, <1>2
  <2> QED BY <1>8, <2>1
<1>13. d.rx_m[get] = Empty BY <1>1, <1>4, <1>12
<1>14. RxDist(e.rx_cons, m.rx_get) <= RxDist(e.rx_cons, m.rx_put)
  <2>1. D(get) \in Nat /\ D(n.rx_put) \in Nat BY <1>1, <1>2
  <2> QED BY <1>8, <1>9, <1>10, <2>1
<1>15. ASSUME NEW p \in RxIdx
       PROVE  IF Came(e, m.rx_get, p) THEN e.rx_m[p] \in 1 .. rx + 1 ELSE e.rx_m[p] = Empty
  <2>1. CASE p = get BY <1>7, <1>11, <2>1
  <2>2. CASE p # get /\ Came(d, get, p)
    <3>1. d.rx_m[p] \in 1 .. rx BY <1>4, <2>2
    <3>2. d.rx_m[p] \in 1 .. rx + 1 BY <3>1
    <3> QED BY <1>7, <1>11, <2>2, <3>2
  <2>3. CASE p # get /\ ~Came(d, get, p) BY <1>4, <1>7, <1>11, <2>3
  <2> QED BY <2>1, <2>2, <2>3
<1>16. ASSUME NEW p \in RxIdx, NEW r \in RxIdx, Came(e, m.rx_get, r), D(p) < D(r)
       PROVE  e.rx_m[p] < e.rx_m[r]
  <2>1. D(p) \in Nat /\ D(r) \in Nat /\ D(get) \in Nat BY <1>1, <1>2
  <2>2. CASE r = get
    <3>1. Came(d, get, p) /\ p # get BY <1>8, <1>12, <1>16, <2>2
    <3>2. e.rx_m[p] \in 1 .. rx BY <1>4, <1>7, <3>1
    <3> QED BY <1>7, <2>2, <3>2
  <2>3. CASE r # get
    <3>1. Came(d, get, r) BY <1>11, <1>16, <2>3
    <3>2. D(r) < D(get) BY <1>8, <3>1
    <3>3. p # get BY <1>16, <2>1, <3>2
    <3>4. d.rx_m[p] < d.rx_m[r] BY <1>4, <1>16, <3>1
    <3> QED BY <1>7, <2>3, <3>3, <3>4
  <2> QED BY <2>2, <2>3
<1>17. \A p, r \in RxIdx :
         Came(e, m.rx_get, r) /\ RxDist(e.rx_cons, p) < RxDist(e.rx_cons, r) => e.rx_m[p] < e.rx_m[r]
  BY <1>8, <1>16
<1>18. RxDist(e.rx_cons, e.rx_prod) = MSK_RX_BUF_CNT - 1 BY <1>4, <1>8
<1>19. RxRing(e, m, rx + 1) BY <1>14, <1>15, <1>17, <1>18 DEF RxRing
<1> QED BY <1>7, <1>11, <1>12, <1>13, <1>19

\* The event of the frame is the last one.
LEMMA ArriveReports ==
  ASSUME ConstantsOK, NEW d \in Drivers, NEW e \in Drivers, NEW n \in Nics, NEW m \in Nics,
         NEW rx \in Nat, n.rx_get # n.rx_put, m.rx_get = Succ(MSK_RX_BUF_CNT, n.rx_get),
         m.rx_put = n.rx_put, Arrives(d, e, n.rx_get, rx + 1), RxRing(d, n, rx),
         NEW c \in StatIdx, NEW life, NEW good, NEW good2, RxEvents(d, n, c, life, good),
         NEW put \in StatIdx, LiveRx(m, life) = LiveRx(n, life) \cup {put},
         \A i \in StatIdx \ {put} : m.stat[i] = n.stat[i],
         \A i \in LiveTx(n, life) \cup LiveRx(n, life) :
           i # put /\ StatDist(c, i) < StatDist(c, put),
         good \subseteq good2, m.stat[put].arg = 1 => rx + 1 \in good2
  PROVE  RxEvents(e, m, c, life, good2)
<1> DEFINE D(p) == RxDist(d.rx_cons, p)
           S(i) == StatDist(c, i)
           get == n.rx_get
<1>1. PICK at \in [StatIdx -> RxIdx] : Reports(at, d, n, c, life, good) BY DEF RxEvents
<1>2. get \in RxIdx /\ d.rx_cons \in RxIdx BY DEF Nics, Drivers
<1>3. PICK to : to = [at EXCEPT ![put] = get] OBVIOUS
<1>4. to \in [StatIdx -> RxIdx] /\ to[put] = get /\ \A i \in StatIdx \ {put} : to[i] = at[i]
  BY <1>2, <1>3
<1>5. /\ \A p \in RxIdx : Came(e, m.rx_get, p) <=> Came(d, get, p) \/ p = get
      /\ ~Came(d, get, get) /\ e.rx_m[get] = rx + 1
      /\ \A p \in RxIdx \ {get} : e.rx_m[p] = d.rx_m[p]
  BY ArriveRing
<1>6. LiveRx(n, life) \subseteq StatIdx \ {put} BY DEF LiveRx
<1>7. /\ \A i \in LiveRx(n, life) :
           /\ Came(d, get, at[i])
           /\ n.stat[i].arg = 1 => d.rx_m[at[i]] \in good
      /\ \A i, j \in LiveRx(n, life) : S(i) < S(j) => D(at[i]) < D(at[j])
      /\ \A p \in RxIdx : Came(d, get, p) => \E i \in LiveRx(n, life) : at[i] = p
  BY <1>1 DEF Reports
<1>8. \A p : Came(d, get, p) <=> D(p) < D(get) BY DEF Came
<1>9. \A i \in StatIdx : S(i) \in Nat BY StatRingFacts, Indices
<1>10. \A i \in LiveRx(n, life) : S(i) < S(put) OBVIOUS
<1>11. \A p : RxDist(e.rx_cons, p) = D(p) BY DEF Arrives
<1> HIDE DEF D, S
<1>12. ASSUME NEW i \in LiveRx(m, life)
       PROVE  /\ Came(e, m.rx_get, to[i])
              /\ m.stat[i].arg = 1 => e.rx_m[to[i]] \in good2
  <2>1. CASE i = put BY <1>2, <1>4, <1>5, <2>1
  <2>2. CASE i \in LiveRx(n, life)
    <3>1. to[i] = at[i] /\ m.stat[i] = n.stat[i] /\ at[i] \in RxIdx BY <1>1, <1>4, <1>6, <2>2
    <3>2. Came(d, get, at[i]) /\ at[i] # get BY <1>5, <1>7, <2>2
    <3>3. e.rx_m[at[i]] = d.rx_m[at[i]] BY <1>5, <3>1, <3>2
    <3> QED BY <1>5, <1>7, <2>2, <3>1, <3>2, <3>3
  <2> QED BY <2>1, <2>2
<1>13. ASSUME NEW i \in LiveRx(m, life), NEW j \in LiveRx(m, life), S(i) < S(j)
       PROVE  D(to[i]) < D(to[j])
  <2>1. i # put
    <3>1. CASE i = put
      <4>1. S(put) \in Nat BY <1>9
      <4>2. j = put \/ (j \in LiveRx(n, life) /\ S(j) \in Nat) BY <1>6, <1>9
      <4>3. CASE j = put BY <1>13, <3>1, <4>1, <4>3
      <4>4. CASE j \in LiveRx(n, life) /\ S(j) \in Nat BY <1>10, <1>13, <3>1, <4>1, <4>4
      <4> QED BY <4>2, <4>3, <4>4
    <3> QED BY <3>1
  <2>2. i \in LiveRx(n, life) /\ to[i] = at[i] BY <1>4, <1>6, <2>1
  <2>3. CASE j = put BY <1>4, <1>7, <1>8, <2>2, <2>3
  <2>4. CASE j \in LiveRx(n, life)
    <3>1. to[j] = at[j] BY <1>4, <1>6, <2>4
    <3> QED BY <1>7, <1>13, <2>2, <2>4, <3>1
  <2> QED BY <2>3, <2>4
<1>14. ASSUME NEW p \in RxIdx, Came(e, m.rx_get, p) PROVE \E i \in LiveRx(m, life) : to[i] = p
  <2>1. CASE p = get BY <1>4, <2>1
  <2>2. CASE p # get
    <3>1. PICK i \in LiveRx(n, life) : at[i] = p BY <1>5, <1>7, <1>14, <2>2
    <3> QED BY <1>4, <1>6, <3>1
  <2> QED BY <2>1, <2>2
<1>15. \A i, j \in LiveRx(m, life) : StatDist(c, i) < StatDist(c, j) =>
         RxDist(e.rx_cons, to[i]) < RxDist(e.rx_cons, to[j])
  BY <1>11, <1>13 DEF S
<1>16. Reports(to, e, m, c, life, good2) BY <1>12, <1>14, <1>15 DEF Reports
<1> QED BY <1>4, <1>16 DEF RxEvents

LEMMA ArriveOrder ==
  ASSUME ConstantsOK, NEW d \in Drivers, NEW e \in Drivers, NEW n \in Nics, NEW m \in Nics,
         NEW rx \in Nat, n.rx_get # n.rx_put, m.rx_get = Succ(MSK_RX_BUF_CNT, n.rx_get),
         m.rx_put = n.rx_put, Arrives(d, e, n.rx_get, rx + 1), RxRing(d, n, rx),
         NEW q \in Seq(Buffers), NEW good, good \subseteq Packet, NEW good2,
         good2 \in {good, good \cup {rx + 1}}, NEW lost,
         InOrder(q, d, n, rx, good, lost), Later(q, d, n.rx_get)
  PROVE  InOrder(q, e, m, rx + 1, good2, lost) /\ Later(q, e, m.rx_get)
<1> DEFINE get == n.rx_get
<1>1. /\ \A p \in RxIdx : Came(e, m.rx_get, p) <=> Came(d, get, p) \/ p = get
      /\ d.rx_m[get] = Empty /\ e.rx_m[get] = rx + 1
      /\ \A p \in RxIdx \ {get} : e.rx_m[p] = d.rx_m[p]
  BY ArriveRing
<1>2. get \in RxIdx BY DEF Nics
<1>3. /\ Ascending(q) /\ Members(q) \subseteq good /\ \A i \in DOMAIN q : q[i] <= rx
      /\ good \subseteq Members(q) \cup lost \cup {d.rx_m[i] : i \in RxIdx}
  BY DEF InOrder
<1>4. \A i \in DOMAIN q : q[i] \in Int
  <2>1. Buffers \subseteq Int BY Sizes DEF Buffers, NoBuf, Empty
  <2>2. \A i \in DOMAIN q : q[i] \in Buffers OBVIOUS
  <2> QED BY <2>1, <2>2
<1>5. \A i \in DOMAIN q : q[i] < rx + 1 /\ q[i] <= rx + 1
  <2> SUFFICES ASSUME NEW i \in DOMAIN q PROVE q[i] < rx + 1 /\ q[i] <= rx + 1 OBVIOUS
  <2>1. q[i] \in Int /\ q[i] <= rx BY <1>3, <1>4
  <2> QED BY <2>1
<1>6. \A x \in good : x # Empty BY Sizes
<1>7. good2 \subseteq Members(q) \cup lost \cup {e.rx_m[i] : i \in RxIdx}
  <2> SUFFICES ASSUME NEW x \in good2
               PROVE  x \in Members(q) \cup lost \cup {e.rx_m[i] : i \in RxIdx}
    OBVIOUS
  <2>1. CASE x = rx + 1 BY <1>1, <1>2, <2>1
  <2>2. CASE x \in good
    <3>1. CASE x \in Members(q) \cup lost BY <3>1
    <3>2. CASE x \in {d.rx_m[i] : i \in RxIdx}
      <4>1. PICK p \in RxIdx : x = d.rx_m[p] BY <3>2
      <4>2. p # get BY <1>1, <1>6, <2>2, <4>1
      <4> QED BY <1>1, <4>1, <4>2
    <3> QED BY <1>3, <2>2, <3>1, <3>2
  <2> QED BY <2>1, <2>2
<1>8. Members(q) \subseteq good2 BY <1>3
<1>9. InOrder(q, e, m, rx + 1, good2, lost) BY <1>3, <1>5, <1>7, <1>8 DEF InOrder
<1>10. ASSUME NEW i \in DOMAIN q, NEW p \in RxIdx, Came(e, m.rx_get, p) PROVE q[i] < e.rx_m[p]
  <2>1. CASE p = get BY <1>1, <1>5, <2>1
  <2>2. CASE p # get BY <1>1, <1>10, <2>2 DEF Later
  <2> QED BY <2>1, <2>2
<1> QED BY <1>9, <1>10 DEF Later

LEMMA StepNicRx ==
  ASSUME ConstantsOK, IInv, NicRx
  PROVE  IInv'
<1> DEFINE c == Cons(call, drv)
           life == hist.life
           get == nic.rx_get
           f == hist.rx + 1
<1>1. PICK ok \in {0, 1} :
        /\ Post("rx", ok) /\ drv' = [drv EXCEPT !.rx_m[nic.rx_get] = hist.rx + 1]
        /\ hist' = [hist EXCEPT !.rx = @ + 1,
                      !.good = IF ok = 1 THEN @ \cup {hist.rx + 1} ELSE @]
  BY DEF NicRx
<1>2. /\ drv \in Drivers /\ nic \in Nics /\ hist \in Histories /\ call' = call
      /\ nic.on /\ nic.rx_get # nic.rx_put /\ drv.mode = "Initialized"
      /\ hist.rx < hist.max.rx /\ hist.tx <= hist.max.tx /\ call \in Calls
  BY DEF IInv, Types, ClientPart, NicRx
<1>3. hist.rx \in Nat /\ f \in Packet /\ f \in Nat /\ hist.max.rx \in Nat
  <2>1. hist.max \in Bounds /\ hist.rx \in Nat BY <1>2 DEF Histories
  <2>2. hist.max.rx \in Nat /\ 1 .. hist.max.rx \subseteq Packet BY <2>1 DEF ConstantsOK
  <2>3. f \in 1 .. hist.max.rx BY <1>2, <2>1, <2>2
  <2> QED BY <2>1, <2>2, <2>3
<1>4. get \in RxIdx /\ drv.rx_m \in [RxIdx -> Buffers] BY <1>2 DEF Drivers, Nics
<1>5. PICK m : m = [drv.rx_m EXCEPT ![get] = f] OBVIOUS
<1>6. m \in [RxIdx -> Buffers] BY <1>3, <1>4, <1>5 DEF Buffers
<1>7. drv' = [drv EXCEPT !.rx_m = m] BY <1>1, <1>2, <1>5 DEF Drivers
<1>8. drv' \in Drivers /\ drv'.rx_m = m /\ drv'.mode = drv.mode /\ drv'.stat_cons = drv.stat_cons
      /\ drv'.TransmitQueue = drv.TransmitQueue /\ drv'.ReceiveQueue = drv.ReceiveQueue
      /\ drv'.TransmitFreeQueue = drv.TransmitFreeQueue /\ SameTx(drv, drv')
      /\ drv'.rx_cons = drv.rx_cons /\ drv'.rx_prod = drv.rx_prod /\ drv'.tx_cons = drv.tx_cons
      /\ drv'.tx_prod = drv.tx_prod /\ drv'.tx_m = drv.tx_m
  BY <1>2, <1>6, <1>7 DEF Drivers, SameTx
<1>9. Arrives(drv, drv', get, f) BY <1>5, <1>8 DEF Arrives
<1>10. PICK good : good = IF ok = 1 THEN hist.good \cup {f} ELSE hist.good OBVIOUS
<1>11. good \in SUBSET Packet /\ good \in {hist.good, hist.good \cup {f}}
       /\ hist.good \subseteq good /\ (ok = 1 => f \in good)
  BY <1>2, <1>3, <1>10 DEF Histories
<1>12. hist' = [hist EXCEPT !.rx = f, !.good = good] BY <1>1, <1>2, <1>10 DEF Histories
<1>13. /\ hist' \in Histories /\ hist'.rx = f /\ hist'.good = good /\ hist'.max = hist.max
       /\ hist'.tx = hist.tx /\ hist'.sent = hist.sent /\ hist'.got = hist.got
       /\ hist'.lost = hist.lost /\ hist'.life = hist.life /\ hist'.stale = hist.stale
       /\ hist'.wild = hist.wild
  BY <1>2, <1>3, <1>11, <1>12 DEF Histories
<1> DEFINE put == nic.stat_put
<1>14. /\ nic' \in Nics /\ put \in StatIdx /\ StatRing(nic', c, life)
       /\ nic'.on = nic.on /\ nic'.tx_put = nic.tx_put /\ nic'.tx_get = nic.tx_get
       /\ nic'.tx_high = nic.tx_high /\ nic'.rx_put = nic.rx_put
       /\ nic'.tx_told = nic.tx_told /\ nic'.rx_get = Succ(MSK_RX_BUF_CNT, get)
       /\ nic'.stat[put].arg = ok
       /\ \A i \in StatIdx \ {put} : nic'.stat[i] = nic.stat[i]
       /\ LiveTx(nic', life) = LiveTx(nic, life)
       /\ LiveRx(nic', life) = LiveRx(nic, life) \cup {put}
       /\ \A i \in LiveTx(nic, life) \cup LiveRx(nic, life) :
            i # put /\ StatDist(c, i) < StatDist(c, put)
  <2>1. ok \in Nat OBVIOUS
  <2>2. Post("rx", ok) BY <1>1
  <2> QED BY <2>1, <2>2, PostNic
<1>15. c \in StatIdx /\ Cons(call', drv') = c
  <2>1. c \in StatIdx BY ConsType DEF IInv
  <2>2. Cons(call', drv') = c BY <1>2, <1>8 DEF Cons
  <2> QED BY <2>1, <2>2
<1>16. Types'
  <2>1. f <= hist.max.rx BY <1>2, <1>3
  <2> QED BY <1>2, <1>8, <1>13, <1>14, <2>1 DEF Types
<1>17. EventPart' BY <1>13, <1>14, <1>15 DEF EventPart
<1>18. LiveTx(nic, life) \subseteq StatIdx \ {put} BY <1>14 DEF LiveTx
<1>19. SameEvents(nic, c, nic', c, LiveTx(nic', life)) BY <1>14, <1>18 DEF SameEvents
<1>20. TxEvents(drv, nic, c, life) => TxEvents(drv', nic', c, life)
  BY <1>8, <1>14, <1>15, <1>19, TxEventsStay
<1>21. SendPart' BY <1>8, <1>13, <1>14, <1>15, <1>20, SendStay DEF IInv
<1>22. held' = held BY <1>8 DEF held
<1>23. ClientPart' BY <1>2, <1>8, <1>13, <1>14, <1>22 DEF IInv, ClientPart
<1>24. ReceivePart'
  <2> SUFFICES ASSUME ~hist.stale
               PROVE  /\ InOrder(Delivery(drv, hist.got), drv', nic', f, good, hist.lost)
                      /\ RxRing(drv', nic', f)
                      /\ RxEvents(drv', nic', c, life, good)
                      /\ Later(Delivery(drv, hist.got), drv', nic'.rx_get)
    BY <1>8, <1>13, <1>15 DEF ReceivePart, Delivery
  <2>1. /\ InOrder(Delivery(drv, hist.got), drv, nic, hist.rx, hist.good, hist.lost)
        /\ RxRing(drv, nic, hist.rx) /\ RxEvents(drv, nic, c, life, hist.good)
        /\ Later(Delivery(drv, hist.got), drv, nic.rx_get)
    BY <1>2 DEF IInv, ReceivePart
  <2>2. drv \in Drivers /\ drv' \in Drivers /\ nic \in Nics /\ nic' \in Nics /\ hist.rx \in Nat
        /\ nic.rx_get # nic.rx_put /\ nic'.rx_get = Succ(MSK_RX_BUF_CNT, nic.rx_get)
        /\ nic'.rx_put = nic.rx_put /\ Arrives(drv, drv', nic.rx_get, hist.rx + 1)
    BY <1>2, <1>3, <1>8, <1>9, <1>14
  <2>3. RxRing(drv', nic', f) BY <2>1, <2>2, ArriveRing
  <2>4. Delivery(drv, hist.got) \in Seq(Buffers)
    <3>1. drv.ReceiveQueue \in Seq(Buffers) /\ hist.got \in Seq(Buffers) BY <1>2 DEF Drivers, Histories
    <3> QED BY <3>1, JoinFacts DEF Delivery
  <2>5. hist.good \subseteq Packet BY <1>2 DEF Histories
  <2>9. PICK q \in Seq(Buffers) : q = Delivery(drv, hist.got) BY <2>4
  <2>10. InOrder(q, drv, nic, hist.rx, hist.good, hist.lost) /\ Later(q, drv, nic.rx_get)
    BY <2>1, <2>9
  <2>11. RxRing(drv, nic, hist.rx) BY <2>1
  <2>12. good \in {hist.good, hist.good \cup {hist.rx + 1}} BY <1>11
  <2>13. InOrder(q, drv', nic', hist.rx + 1, good, hist.lost) /\ Later(q, drv', nic'.rx_get)
    BY <2>2, <2>5, <2>10, <2>11, <2>12, ArriveOrder
  <2>6. /\ InOrder(Delivery(drv, hist.got), drv', nic', f, good, hist.lost)
        /\ Later(Delivery(drv, hist.got), drv', nic'.rx_get)
    BY <2>9, <2>13
  <2>7. nic'.stat[put].arg = 1 => hist.rx + 1 \in good BY <1>11, <1>14
  <2>8. RxEvents(drv', nic', c, life, good)
    BY <1>11, <1>14, <1>15, <2>1, <2>2, <2>7, ArriveReports
  <2> QED BY <2>3, <2>6, <2>8
<1> QED BY <1>16, <1>17, <1>21, <1>23, <1>24 DEF IInv

(* ------------------------------ SnpTransmit ---------------------------- *)

\* A packet that is queued is later than all before it.
LEMMA QueueRing ==
  ASSUME ConstantsOK, NEW d \in Drivers, NEW get, NEW high, NEW sent \in Seq(Nat), NEW tx \in Nat,
         TxRing(d, get, high, sent, tx), SendOrder(d, sent, tx), NEW e,
         SameTx([d EXCEPT !.TransmitQueue = Append(@, tx + 1)], e)
  PROVE  TxRing(e, get, high, sent, tx + 1) /\ SendOrder(e, sent, tx + 1)
<1>1. /\ d.TransmitQueue \in Seq(Nat) /\ d.tx_ring \in [TxIdx -> Elements] /\ Packet \subseteq Nat
  BY TxFields, Sizes
<1>2. /\ e.TransmitQueue = Append(d.TransmitQueue, tx + 1)
      /\ e.tx_ring = d.tx_ring /\ e.tx_m = d.tx_m /\ e.tx_high = d.tx_high
      /\ e.tx_prod = d.tx_prod /\ e.tx_cons = d.tx_cons /\ e.tx_cnt = d.tx_cnt
  BY DEF SameTx, Drivers
<1>3. PICK q : q = e.TransmitQueue OBVIOUS
<1>4. /\ q \in Seq(Nat) /\ DOMAIN q = DOMAIN d.TransmitQueue \cup {Len(d.TransmitQueue) + 1}
      /\ \A i \in DOMAIN d.TransmitQueue : q[i] = d.TransmitQueue[i]
      /\ q[Len(d.TransmitQueue) + 1] = tx + 1
  <2>1. PICK t \in Seq(Nat) : t = d.TransmitQueue BY <1>1
  <2>2. PICK k \in Nat : k = tx + 1 OBVIOUS
  <2>3. q = Append(t, k) BY <1>2, <1>3, <2>1, <2>2
  <2>4. /\ Append(t, k) \in Seq(Nat) /\ DOMAIN Append(t, k) = DOMAIN t \cup {Len(t) + 1}
        /\ \A i \in DOMAIN t : Append(t, k)[i] = t[i]
        /\ Append(t, k)[Len(t) + 1] = k
    BY AppendFacts
  <2> QED BY <2>1, <2>2, <2>3, <2>4
<1>5. \A j \in DOMAIN q : \/ q[j] = tx + 1
                          \/ (j \in DOMAIN d.TransmitQueue /\ q[j] = d.TransmitQueue[j])
  BY <1>4
<1>6. \A j \in DOMAIN d.TransmitQueue : d.TransmitQueue[j] \in Nat BY <1>1
<1>7. \A i \in DOMAIN sent : sent[i] \in Nat OBVIOUS
<1>8. /\ Ascending(sent) /\ Ascending(d.TransmitQueue) /\ \A i \in DOMAIN sent : sent[i] <= tx
      /\ \A j \in DOMAIN d.TransmitQueue : d.TransmitQueue[j] <= tx
      /\ \A i \in DOMAIN sent, j \in DOMAIN d.TransmitQueue : sent[i] < d.TransmitQueue[j]
  BY DEF SendOrder
<1>9. \A i \in DOMAIN sent : sent[i] < tx + 1 /\ sent[i] <= tx + 1 BY <1>7, <1>8
<1>10. \A j \in DOMAIN d.TransmitQueue : d.TransmitQueue[j] < tx + 1 /\ d.TransmitQueue[j] <= tx + 1
  BY <1>6, <1>8
<1>11. Ascending(q)
  <2>1. q = Append(d.TransmitQueue, tx + 1) /\ tx + 1 \in Nat BY <1>2, <1>3
  <2>2. \A j \in DOMAIN d.TransmitQueue : d.TransmitQueue[j] < tx + 1 BY <1>10
  <2> QED BY <1>1, <1>8, <2>1, <2>2, AscendingAppend
<1>12. tx + 1 <= tx + 1 OBVIOUS
<1>13. SendOrder(e, sent, tx + 1)
  <2>1. \A j \in DOMAIN q : q[j] <= tx + 1 BY <1>5, <1>10, <1>12
  <2>2. \A i \in DOMAIN sent, j \in DOMAIN q : sent[i] < q[j] BY <1>5, <1>8, <1>9
  <2> QED BY <1>3, <1>8, <1>9, <1>11, <2>1, <2>2 DEF SendOrder
<1>14. \A p : Filled(e, p) <=> Filled(d, p) BY <1>2 DEF Filled
<1>15. \A p : Unread(e, get, p) <=> Unread(d, get, p) BY <1>2, <1>14 DEF Unread
<1>16. \A p, h : Finds(e, p, h) <=> Finds(d, p, h) BY <1>2 DEF Finds
<1>17. TxIndices(d, get) /\ TxMaps(d) /\ TxHigh(d, get, high) /\ TxOrder(d, get, sent, tx)
  BY DEF TxRing
<1>18. TxIndices(e, get) BY <1>2, <1>17 DEF TxIndices
<1>19. TxMaps(e) BY <1>2, <1>14, <1>17 DEF TxMaps
<1>20. TxHigh(e, get, high) BY <1>2, <1>15, <1>16, <1>17 DEF TxHigh
<1>21. UnreadPackets(e, get) = UnreadPackets(d, get) BY <1>2, <1>15 DEF UnreadPackets
<1>22. TxOrder(e, get, sent, tx + 1)
  <2>1. ASSUME NEW p \in UnreadPackets(d, get)
        PROVE  /\ d.tx_ring[p].val <= tx + 1
               /\ \A i \in DOMAIN sent : sent[i] < d.tx_ring[p].val
               /\ \A j \in DOMAIN q : d.tx_ring[p].val < q[j]
    <3>1. /\ d.tx_ring[p].val <= tx
          /\ \A i \in DOMAIN sent : sent[i] < d.tx_ring[p].val
          /\ \A j \in DOMAIN d.TransmitQueue : d.tx_ring[p].val < d.TransmitQueue[j]
      BY <1>17 DEF TxOrder
    <3>2. d.tx_ring[p] \in Elements BY <1>1 DEF UnreadPackets
    <3>3. d.tx_ring[p].val \in Nat BY <1>1, <3>2 DEF Elements
    <3>4. d.tx_ring[p].val <= tx + 1 /\ d.tx_ring[p].val < tx + 1 BY <3>1, <3>3
    <3> QED BY <1>5, <3>1, <3>4
  <2>2. \A p, r \in UnreadPackets(d, get) :
          TxDist(d.tx_cons, p) < TxDist(d.tx_cons, r) => d.tx_ring[p].val < d.tx_ring[r].val
    BY <1>17 DEF TxOrder
  <2> QED BY <1>2, <1>3, <1>21, <2>1, <2>2 DEF TxOrder
<1> QED BY <1>13, <1>18, <1>19, <1>20, <1>22 DEF TxRing

LEMMA StepTransmit ==
  ASSUME ConstantsOK, IInv, SnpTransmit
  PROVE  IInv' /\ \E p \in Packet : held' = Append(held, p) /\ \A i \in DOMAIN held : held[i] < p
<1> DEFINE c == Cons(call, drv)
           life == hist.life
<1>1. /\ drv \in Drivers /\ nic \in Nics /\ hist \in Histories /\ call' = call /\ call \in Calls
      /\ drv.mode = "Initialized" /\ hist.tx < hist.max.tx /\ hist.rx <= hist.max.rx
      /\ nic' = [nic EXCEPT !.tx_put = drv'.tx_prod]
  BY DEF IInv, Types, SnpTransmit
<1>2. PICK p : p = hist.tx + 1 OBVIOUS
<1>3. hist.tx \in Nat /\ p \in Packet /\ p \in Nat /\ p <= hist.max.tx
  <2>1. hist.max \in Bounds /\ hist.tx \in Nat BY <1>1 DEF Histories
  <2>2. hist.max.tx \in Nat /\ 1 .. hist.max.tx \subseteq Packet BY <2>1 DEF ConstantsOK
  <2>3. p \in 1 .. hist.max.tx BY <1>1, <1>2, <2>1, <2>2
  <2> QED BY <2>1, <2>2, <2>3
<1>4. PICK d : d = mskc_transmit(drv, p) OBVIOUS
<1>5. PICK h : h = [hist EXCEPT !.tx = p] OBVIOUS
<1>6. PICK n \in 0 .. Len(d.TransmitQueue) :
        /\ drv' = msk_start(d, n)
        /\ hist' = IF n < Len(d.TransmitQueue) THEN Faulted(h) ELSE h
  BY <1>2, <1>4, <1>5 DEF SnpTransmit
<1>7. drv.TransmitQueue \in Seq(Packet) /\ drv.TransmitFreeQueue \in Seq(Packet)
      /\ Append(drv.TransmitQueue, p) \in Seq(Packet)
  BY <1>1, <1>3, AppendFacts DEF Drivers
<1>8. d = [drv EXCEPT !.TransmitQueue = Append(drv.TransmitQueue, p)] BY <1>1, <1>4 DEF mskc_transmit, Drivers
<1>9. /\ d \in Drivers /\ SameRest(drv, d) /\ d.tx_cons = drv.tx_cons
      /\ d.TransmitQueue = Append(drv.TransmitQueue, p)
      /\ d.TransmitFreeQueue = drv.TransmitFreeQueue
  BY <1>1, <1>7, <1>8 DEF Drivers, SameRest
<1>10. SameTx([drv EXCEPT !.TransmitQueue = Append(@, hist.tx + 1)], d)
  BY <1>1, <1>2, <1>8 DEF Drivers, SameTx
<1>11. Started(d, drv') BY <1>6, <1>9, StartFacts
<1>12. /\ drv' \in Drivers /\ drv'.tx_cons = drv.tx_cons /\ drv'.mode = drv.mode
       /\ drv'.ReceiveQueue = drv.ReceiveQueue /\ drv'.rx_m = drv.rx_m
       /\ drv'.rx_cons = drv.rx_cons /\ drv'.rx_prod = drv.rx_prod
       /\ drv'.stat_cons = drv.stat_cons /\ SameRx(drv, drv')
  BY <1>9, <1>11 DEF Started, SameRest, SameRx
<1>13. /\ hist' \in Histories /\ hist'.tx = p /\ hist'.rx = hist.rx /\ hist'.good = hist.good
       /\ hist'.max = hist.max
       /\ hist'.sent = hist.sent /\ hist'.got = hist.got /\ hist'.lost = hist.lost
       /\ hist'.life = hist.life /\ hist'.stale = hist.stale /\ hist'.wild = hist.wild
  <2>1. /\ h \in Histories /\ h.tx = p /\ h.rx = hist.rx /\ h.good = hist.good
        /\ h.max = hist.max
        /\ h.sent = hist.sent /\ h.got = hist.got /\ h.lost = hist.lost
        /\ h.life = hist.life /\ h.stale = hist.stale /\ h.wild = hist.wild
    BY <1>1, <1>3, <1>5 DEF Histories
  <2>2. CASE hist' = h BY <2>1, <2>2
  <2>3. CASE hist' = Faulted(h)
    <3>1. PICK g : g = Faulted(h) OBVIOUS
    <3>4. h \in Histories BY <2>1
    <3>5. h.faults \in Nat BY <3>4 DEF Histories
    <3>6. PICK k \in Nat : k = h.faults + 1 BY <3>5
    <3>2. g = [h EXCEPT !.faults = k] BY <3>1, <3>4, <3>6 DEF Faulted, Histories
    <3>3. /\ g \in Histories /\ g.tx = h.tx /\ g.rx = h.rx /\ g.good = h.good
          /\ g.max = h.max /\ g.sent = h.sent /\ g.got = h.got /\ g.lost = h.lost
          /\ g.life = h.life /\ g.stale = h.stale /\ g.wild = h.wild
      BY <3>2, <3>4, <3>6 DEF Histories
    <3> QED BY <2>1, <2>3, <3>1, <3>3
  <2> QED BY <1>6, <2>2, <2>3
<1>14. drv'.tx_prod \in TxIdx BY <1>12 DEF Drivers
<1>15. /\ nic' \in Nics /\ nic'.tx_put = drv'.tx_prod /\ nic'.on = nic.on
       /\ nic'.tx_get = nic.tx_get /\ nic'.tx_told = nic.tx_told /\ nic'.tx_high = nic.tx_high
       /\ nic'.rx_get = nic.rx_get /\ nic'.rx_put = nic.rx_put /\ nic'.stat = nic.stat
       /\ nic'.stat_put = nic.stat_put
  BY <1>1, <1>14 DEF Nics
<1>16. Cons(call', drv') = c BY <1>1, <1>12 DEF Cons
<1>17. Types' BY <1>1, <1>3, <1>12, <1>13, <1>15 DEF Types
<1>18. /\ StatRing(nic, c, life) => StatRing(nic', c, life)
       /\ TxEvents(drv, nic, c, life) => TxEvents(drv', nic', c, life)
       /\ RxEvents(drv, nic, c, life, hist.good) => RxEvents(drv', nic', c, life, hist.good)
  BY <1>12, <1>15, EventsStay
<1>19. EventPart' BY <1>13, <1>16, <1>18 DEF IInv, EventPart
<1>20. Delivery(drv', hist'.got) = Delivery(drv, hist.got) BY <1>12, <1>13 DEF Delivery
<1>21. ReceivePart' BY <1>1, <1>12, <1>13, <1>15, <1>16, <1>18, <1>20, ReceiveStay DEF IInv
<1>22. SendPart'
  <2> SUFFICES ASSUME ~hist.stale
               PROVE  /\ ~hist.wild /\ SendOrder(drv', hist.sent, p)
                      /\ TxRing(drv', nic.tx_get, nic.tx_high, hist.sent, p)
                      /\ TxEvents(drv', nic', c, life)
    BY <1>13, <1>15, <1>16 DEF SendPart
  <2>1. /\ ~hist.wild /\ SendOrder(drv, hist.sent, hist.tx)
        /\ TxRing(drv, nic.tx_get, nic.tx_high, hist.sent, hist.tx)
        /\ TxEvents(drv, nic, c, life)
    BY <1>1 DEF IInv, SendPart
  <2>2. hist.sent \in Seq(Nat) /\ nic.tx_get \in TxIdx /\ nic.tx_high \in {0, 1}
    BY <1>1 DEF Histories, Nics
  <2>3. TxRing(d, nic.tx_get, nic.tx_high, hist.sent, p) /\ SendOrder(d, hist.sent, p)
    BY <1>1, <1>2, <1>3, <1>10, <2>1, <2>2, QueueRing
  <2>4. TxRing(drv', nic.tx_get, nic.tx_high, hist.sent, p) /\ SendOrder(drv', hist.sent, p)
    BY <1>3, <1>11, <2>2, <2>3 DEF Started, Keeps
  <2> QED BY <1>18, <2>1, <2>4
<1>23. held \in Seq(Packet) BY <1>7, JoinFacts DEF held
<1>24. held' = Append(held, p)
  <2>1. held' = d.TransmitFreeQueue \o d.TransmitQueue BY <1>11 DEF held, Started
  <2>2. drv.TransmitFreeQueue \o Append(drv.TransmitQueue, p) =
          Append(drv.TransmitFreeQueue \o drv.TransmitQueue, p)
    <3>1. PICK s \in Seq(Packet) : s = drv.TransmitFreeQueue BY <1>7
    <3>2. PICK t \in Seq(Packet) : t = drv.TransmitQueue BY <1>7
    <3>4. p \in Packet BY <1>3
    <3>3. s \o Append(t, p) = Append(s \o t, p) BY <3>4, JoinAppend
    <3> QED BY <3>1, <3>2, <3>3
  <2> QED BY <1>9, <2>1, <2>2 DEF held
<1>25. \A i \in DOMAIN held : held[i] < p /\ held[i] <= p
  <2> SUFFICES ASSUME NEW i \in DOMAIN held PROVE held[i] < p /\ held[i] <= p OBVIOUS
  <2>1. held[i] \in Nat /\ held[i] <= hist.tx BY <1>23, Sizes DEF IInv, ClientPart
  <2> QED BY <1>2, <1>3, <2>1
<1>26. \A i \in DOMAIN held' : held'[i] <= hist'.tx
  <2>1. \A i \in DOMAIN Append(held, p) : Append(held, p)[i] = p \/
          (i \in DOMAIN held /\ Append(held, p)[i] = held[i])
    BY <1>3, <1>23, AppendFacts
  <2>2. p <= p BY <1>3
  <2> QED BY <1>13, <1>24, <1>25, <2>1, <2>2
<1>27. ClientPart' BY <1>1, <1>12, <1>13, <1>15, <1>26 DEF IInv, ClientPart
<1> QED BY <1>3, <1>17, <1>19, <1>21, <1>22, <1>24, <1>25, <1>27 DEF IInv

(* ---------------------------- start and stop --------------------------- *)

\* What is left of two queues when the second is forgotten.
LEMMA PrefixFacts ==
  ASSUME NEW S, NEW s \in Seq(S), NEW t \in Seq(S)
  PROVE  /\ \A i \in DOMAIN s : i \in DOMAIN (s \o t) /\ (s \o t)[i] = s[i]
         /\ Members(s \o t) = Members(s) \cup Members(t)
         /\ Ascending(s \o t) => Ascending(s)
<1>1. /\ DOMAIN s = 1 .. Len(s) /\ DOMAIN t = 1 .. Len(t) /\ Len(s) \in Nat /\ Len(t) \in Nat
      /\ s \o t \in Seq(S) /\ Len(s \o t) = Len(s) + Len(t)
  OBVIOUS
<1>2. DOMAIN (s \o t) = 1 .. Len(s) + Len(t) BY <1>1
<1>3. /\ \A i \in 1 .. Len(s) : (s \o t)[i] = s[i]
      /\ \A i \in Len(s) + 1 .. Len(s) + Len(t) : (s \o t)[i] = t[i - Len(s)]
  BY <1>1
<1>4. \A i \in DOMAIN s : i \in DOMAIN (s \o t) /\ (s \o t)[i] = s[i] BY <1>1, <1>2, <1>3
<1>5. \A i \in DOMAIN (s \o t) : i \in DOMAIN s \/
        (i - Len(s) \in DOMAIN t /\ (s \o t)[i] = t[i - Len(s)])
  BY <1>1, <1>2, <1>3
<1>6. \A i \in DOMAIN t : /\ i + Len(s) \in DOMAIN (s \o t)
                          /\ (s \o t)[i + Len(s)] = t[i]
  <2> SUFFICES ASSUME NEW i \in DOMAIN t
               PROVE  /\ i + Len(s) \in DOMAIN (s \o t)
                      /\ (s \o t)[i + Len(s)] = t[i]
    OBVIOUS
  <2>1. i + Len(s) \in Len(s) + 1 .. Len(s) + Len(t) /\ (i + Len(s)) - Len(s) = i BY <1>1
  <2> QED BY <1>1, <1>2, <1>3, <2>1
<1>7. Members(s \o t) \subseteq Members(s) \cup Members(t) BY <1>4, <1>5 DEF Members
<1>8. Members(s) \cup Members(t) \subseteq Members(s \o t) BY <1>4, <1>6 DEF Members
<1>9. Ascending(s \o t) => Ascending(s) BY <1>4 DEF Ascending
<1> QED BY <1>4, <1>7, <1>8, <1>9

\* The driver without its buffers.
Bare(d, e) ==
  /\ e \in Drivers /\ e.stat_cons = d.stat_cons
  /\ \A i \in TxIdx : e.tx_m[i] = 0
  /\ \A i \in RxIdx : e.rx_m[i] = NoBuf
SameQueues(d, e) ==
  /\ e.TransmitQueue = d.TransmitQueue /\ e.TransmitFreeQueue = d.TransmitFreeQueue
  /\ e.ReceiveQueue = d.ReceiveQueue

LEMMA StopFacts ==
  ASSUME ConstantsOK, NEW d \in Drivers
  PROVE  /\ Bare(d, mskc_stop_if(d)) /\ SameQueues(d, mskc_stop_if(d))
         /\ mskc_stop_if(d).mode = d.mode
<1>1. [i \in TxIdx |-> 0] \in [TxIdx -> Packet \cup {0}]
      /\ [i \in RxIdx |-> NoBuf] \in [RxIdx -> Buffers]
  BY DEF Buffers
<1> QED BY <1>1 DEF Drivers, mskc_stop_if, Bare, SameQueues

LEMMA ModeFacts ==
  ASSUME NEW d, NEW e, Bare(d, e), NEW mode \in {"Stopped", "Started", "Initialized"}
  PROVE  /\ Bare(d, [e EXCEPT !.mode = mode]) /\ SameQueues(e, [e EXCEPT !.mode = mode])
         /\ [e EXCEPT !.mode = mode].mode = mode
  BY DEF Drivers, Bare, SameQueues

LEMMA InitTxFacts ==
  ASSUME ConstantsOK, NEW d \in Drivers
  PROVE  LET e == msk_init_tx_ring(d) IN
         /\ e \in Drivers /\ SameQueues(d, e) /\ SameRest(d, e)
         /\ e.tx_prod = 0 /\ e.tx_cons = 0 /\ e.tx_cnt = 0 /\ e.tx_high = 0
         /\ \A i \in TxIdx : e.tx_m[i] = 0
<1>1. NoLe \in Elements BY DEF NoLe, Elements
<1>2. [i \in TxIdx |-> 0] \in [TxIdx -> Packet \cup {0}]
      /\ [i \in TxIdx |-> NoLe] \in [TxIdx -> Elements] /\ 0 \in TxIdx
  BY <1>1, Indices
<1> QED BY <1>2 DEF Drivers, msk_init_tx_ring, SameQueues, SameRest

LEMMA InitRxFacts ==
  ASSUME ConstantsOK, NEW d \in Drivers
  PROVE  LET e == msk_init_rx_ring(d) IN
         /\ e \in Drivers /\ SameQueues(d, e) /\ SameTx(d, e)
         /\ e.stat_cons = d.stat_cons
         /\ e.rx_cons = 0 /\ e.rx_prod = MSK_RX_BUF_CNT - 1
         /\ \A i \in RxIdx : e.rx_m[i] = Empty
<1>1. [i \in RxIdx |-> Empty] \in [RxIdx -> Buffers] BY DEF Buffers
<1>2. 0 \in RxIdx /\ MSK_RX_BUF_CNT - 1 \in RxIdx BY Sizes DEF RxIdx
<1> QED BY <1>1, <1>2 DEF Drivers, msk_init_rx_ring, SameQueues, SameTx

\* What the ring held is lost.
SameHistory(g, h) ==
  /\ h \in Histories /\ h.max = g.max /\ h.tx = g.tx /\ h.rx = g.rx /\ h.good = g.good
  /\ h.sent = g.sent /\ h.got = g.got /\ h.stale = g.stale /\ h.wild = g.wild
InRing == {drv.rx_m[i] : i \in RxIdx}

LEMMA EndedFacts ==
  ASSUME hist \in Histories, drv \in Drivers
  PROVE  /\ SameHistory(hist, Ended) /\ Ended.life = hist.life /\ Ended.faults = hist.faults
         /\ Ended.lost = hist.lost \cup (InRing \ {NoBuf, Empty})
<1>1. PICK l : l = hist.lost \cup (InRing \ {NoBuf, Empty}) OBVIOUS
<1>2. InRing \subseteq Buffers BY DEF InRing, Drivers
<1>3. hist.lost \subseteq Buffers BY DEF Histories
<1>4. l \in SUBSET Buffers BY <1>1, <1>2, <1>3
<1>5. Ended = [hist EXCEPT !.lost = l] BY <1>1 DEF Ended, InRing, Histories
<1> QED BY <1>1, <1>4, <1>5 DEF Histories, SameHistory

LEMMA NewLifeFacts ==
  ASSUME hist \in Histories, drv \in Drivers, NEW h,
         h \in {[Ended EXCEPT !.life = @ + 1], Faulted([Ended EXCEPT !.life = @ + 1])}
  PROVE  /\ SameHistory(hist, h) /\ h.life = hist.life + 1
         /\ h.lost = hist.lost \cup (InRing \ {NoBuf, Empty})
<1>1. PICK g : g = Ended OBVIOUS
<1>2. /\ SameHistory(hist, g) /\ g.life = hist.life
      /\ g.lost = hist.lost \cup (InRing \ {NoBuf, Empty})
  BY <1>1, EndedFacts
<1>3. g \in Histories BY <1>2 DEF SameHistory
<1>4. PICK k \in Nat : k = hist.life + 1 BY DEF Histories
<1>5. PICK f : f = [g EXCEPT !.life = k] OBVIOUS
<1>6. [Ended EXCEPT !.life = @ + 1] = f BY <1>1, <1>2, <1>3, <1>4, <1>5 DEF Histories
<1>7. f \in Histories /\ SameHistory(hist, f) /\ f.life = k /\ f.lost = g.lost
  BY <1>2, <1>3, <1>5 DEF Histories, SameHistory
<1>8. PICK m \in Nat : m = f.faults + 1 BY <1>7 DEF Histories
<1>9. Faulted(f) = [f EXCEPT !.faults = m] BY <1>7, <1>8 DEF Faulted, Histories
<1>10. PICK e : e = Faulted(f) OBVIOUS
<1>11. SameHistory(hist, e) /\ e.life = k /\ e.lost = f.lost
  BY <1>7, <1>9, <1>10 DEF Histories, SameHistory
<1>12. h = f \/ h = e BY <1>6, <1>10
<1> QED BY <1>2, <1>4, <1>7, <1>11, <1>12

\* A frame that was in the ring of an interface that stops is lost.
LEMMA EndedOrder ==
  ASSUME ConstantsOK, IInv, ~hist.stale, NEW e, NEW n,
         NEW lost, lost = hist.lost \cup (InRing \ {NoBuf, Empty}), SameQueues(drv, e)
  PROVE  InOrder(Delivery(e, hist.got), e, n, hist.rx, hist.good, lost)
<1>1. PICK q : q = Delivery(drv, hist.got) OBVIOUS
<1>2. Delivery(e, hist.got) = q BY <1>1 DEF Delivery, SameQueues
<1>3. InOrder(q, drv, nic, hist.rx, hist.good, hist.lost) BY <1>1 DEF IInv, ReceivePart
<1>4. hist.good \subseteq Packet BY DEF IInv, Types, Histories
<1>5. NoBuf \notin hist.good /\ Empty \notin hist.good BY <1>4, Sizes
<1> QED BY <1>2, <1>3, <1>5 DEF InOrder, InRing

\* An interface that is not initialized has no rings to keep in step.
LEMMA Down ==
  ASSUME ConstantsOK, IInv, Types', drv'.mode # "Initialized", ~nic'.on, Bare(drv, drv'),
         nic'.stat = nic.stat, nic'.stat_put = nic.stat_put, call' = call, Idle,
         hist.life <= hist'.life, SameHistory(hist, hist'),
         drv'.TransmitQueue = drv.TransmitQueue \/ drv'.TransmitQueue = <<>>,
         held' = held \/ held' = <<>>,
         ~hist.stale => InOrder(Delivery(drv', hist.got), drv', nic', hist.rx, hist.good, hist'.lost)
  PROVE  IInv'
<1>1. /\ hist'.tx = hist.tx /\ hist'.rx = hist.rx /\ hist'.good = hist.good
      /\ hist'.sent = hist.sent /\ hist'.got = hist.got /\ hist'.stale = hist.stale
      /\ hist'.wild = hist.wild
  BY DEF SameHistory
<1>2. Cons(call, drv) = Cons(call', drv') BY DEF Idle, Bare, Cons
<1>3. EventPart'
  <2>1. nic.stat \in [StatIdx -> Events] /\ hist.life \in Nat /\ hist'.life \in Nat
    BY DEF IInv, Types, Nics, Histories
  <2>2. StatRing(nic, Cons(call, drv), hist.life) BY DEF IInv, EventPart
  <2>3. \A i \in StatIdx : nic.stat[i].life \in Nat BY <2>1 DEF Events
  <2>4. StatRing(nic', Cons(call, drv), hist'.life) BY <2>1, <2>2, <2>3 DEF StatRing
  <2> QED BY <1>2, <2>4 DEF EventPart
<1>4. SendPart'
  <2> SUFFICES ASSUME ~hist.stale PROVE ~hist.wild /\ SendOrder(drv', hist.sent, hist.tx)
    BY <1>1 DEF SendPart
  <2>1. ~hist.wild /\ SendOrder(drv, hist.sent, hist.tx) BY DEF IInv, SendPart
  <2> QED BY <2>1 DEF SendOrder, Ascending
<1>5. ReceivePart' BY <1>1 DEF ReceivePart
<1>6. ClientPart'
  <2>1. \A i \in DOMAIN held : held[i] <= hist.tx BY DEF IInv, ClientPart
  <2>2. \A i \in DOMAIN held' : held'[i] <= hist'.tx BY <1>1, <2>1
  <2> QED BY <2>2 DEF ClientPart, Bare
<1> QED BY <1>3, <1>4, <1>5, <1>6 DEF IInv

LEMMA StepStart ==
  ASSUME ConstantsOK, IInv, SnpStart
  PROVE  IInv' /\ drv'.mode = "Started" /\ held' = <<>>
<1>1. /\ drv \in Drivers /\ hist \in Histories /\ nic' = nic /\ call' = call /\ Idle
      /\ drv.mode = "Stopped"
  BY DEF IInv, Types, SnpStart
<1>2. PICK a : a = mskc_stop_if(drv) OBVIOUS
<1>3. Bare(drv, a) BY <1>1, <1>2, StopFacts
<1>4. PICK e : e = [a EXCEPT !.TransmitQueue = <<>>, !.TransmitFreeQueue = <<>>,
                             !.ReceiveQueue = <<>>]
  OBVIOUS
<1>5. drv' = [e EXCEPT !.mode = "Started"]
  BY <1>2, <1>4 DEF SnpStart, mskc_attach_if, msk_txrx_dma_alloc, mskc_stop_if
<1>6. /\ Bare(drv, e) /\ e.TransmitQueue = <<>> /\ e.TransmitFreeQueue = <<>>
      /\ e.ReceiveQueue = <<>>
  <2>1. a \in Drivers /\ <<>> \in Seq(Packet) /\ <<>> \in Seq(Buffers) BY <1>3 DEF Bare
  <2> QED BY <1>3, <1>4, <2>1 DEF Bare, Drivers
<1>7. /\ Bare(drv, drv') /\ SameQueues(e, drv') /\ drv'.mode = "Started"
  <2>1. "Started" \in {"Stopped", "Started", "Initialized"} OBVIOUS
  <2> QED BY <1>5, <1>6, <2>1, ModeFacts
<1>8. PICK l : l = hist.lost \cup Members(drv.ReceiveQueue) OBVIOUS
<1>9. hist' = [hist EXCEPT !.lost = l] BY <1>1, <1>8 DEF SnpStart, Members, Histories
<1>10. l \in SUBSET Buffers
  <2>1. drv.ReceiveQueue \in Seq(Buffers) /\ hist.lost \subseteq Buffers
    BY <1>1 DEF Drivers, Histories
  <2>2. Members(drv.ReceiveQueue) \subseteq Buffers BY <2>1 DEF Members
  <2> QED BY <1>8, <2>1, <2>2
<1>11. SameHistory(hist, hist') /\ hist'.life = hist.life /\ hist'.lost = l
  BY <1>1, <1>9, <1>10 DEF Histories, SameHistory
<1>12. Types' BY <1>1, <1>7, <1>11 DEF IInv, Types, Bare, SameHistory
<1>13. /\ drv'.TransmitQueue = <<>> /\ drv'.TransmitFreeQueue = <<>> /\ drv'.ReceiveQueue = <<>>
  BY <1>6, <1>7 DEF SameQueues
<1>14. held' = <<>>
  <2>1. <<>> \o <<>> = <<>> OBVIOUS
  <2> QED BY <1>13, <2>1 DEF held
<1>15. ASSUME ~hist.stale
       PROVE  InOrder(Delivery(drv', hist.got), drv', nic', hist.rx, hist.good, hist'.lost)
  <2>1. InOrder(Delivery(drv, hist.got), drv, nic, hist.rx, hist.good, hist.lost)
    BY <1>15 DEF IInv, ReceivePart
  <2>2. \A p \in RxIdx : drv.rx_m[p] = NoBuf BY <1>1, <1>15 DEF IInv, ClientPart
  <2>3. PICK s \in Seq(Buffers) : s = hist.got BY <1>1 DEF Histories
  <2>4. PICK t \in Seq(Buffers) : t = drv.ReceiveQueue BY <1>1 DEF Drivers
  <2>5. Delivery(drv, hist.got) = s \o t /\ Delivery(drv', hist.got) = s
    BY <1>13, <2>3, <2>4 DEF Delivery
  <2>6. /\ \A i \in DOMAIN s : i \in DOMAIN (s \o t) /\ (s \o t)[i] = s[i]
        /\ Members(s \o t) = Members(s) \cup Members(t)
        /\ Ascending(s \o t) => Ascending(s)
    BY PrefixFacts
  <2>7. NoBuf \notin hist.good
    <3>1. hist.good \subseteq Packet BY <1>1 DEF Histories
    <3> QED BY <3>1, Sizes
  <2>8. InOrder(s \o t, drv, nic, hist.rx, hist.good, hist.lost) BY <2>1, <2>5
  <2>9. /\ Ascending(s \o t) /\ Members(s \o t) \subseteq hist.good
        /\ \A i \in DOMAIN (s \o t) : (s \o t)[i] <= hist.rx
        /\ hist.good \subseteq Members(s \o t) \cup hist.lost \cup InRing
    BY <2>8 DEF InOrder, InRing
  <2>10. /\ Ascending(s) /\ Members(s) \subseteq hist.good
         /\ \A i \in DOMAIN s : s[i] <= hist.rx
    BY <2>6, <2>9
  <2>11. InRing \subseteq {NoBuf} BY <2>2 DEF InRing
  <2>12. hist.good \subseteq Members(s) \cup hist'.lost
    BY <1>8, <1>11, <2>4, <2>6, <2>7, <2>9, <2>11
  <2>13. InOrder(s, drv', nic', hist.rx, hist.good, hist'.lost) BY <2>10, <2>12 DEF InOrder
  <2> QED BY <2>5, <2>13
<1>16. ~nic'.on /\ drv'.mode # "Initialized" /\ hist.life <= hist'.life
  <2>1. hist.life \in Nat BY <1>1 DEF Histories
  <2> QED BY <1>1, <1>7, <1>11, <2>1 DEF IInv, ClientPart
<1>17. IInv' BY <1>1, <1>7, <1>11, <1>12, <1>13, <1>14, <1>15, <1>16, Down
<1> QED BY <1>7, <1>14, <1>17

\* The controller is off: nothing else of it changes.
LEMMA StopNicFacts ==
  ASSUME nic \in Nics
  PROVE  /\ StopNic \in Nics /\ ~StopNic.on
         /\ StopNic.stat = nic.stat /\ StopNic.stat_put = nic.stat_put
  BY DEF Nics, StopNic

\* SnpShutdown, SnpStop and an SnpInitialize that fails.
LEMMA StepDown ==
  ASSUME ConstantsOK, IInv, Idle, call' = call, nic' = StopNic, Bare(drv, drv'),
         SameQueues(drv, drv'), drv'.mode # "Initialized", SameHistory(hist, hist'),
         hist'.life \in {hist.life, hist.life + 1},
         hist'.lost = hist.lost \cup (InRing \ {NoBuf, Empty})
  PROVE  IInv' /\ held' = held
<1>1. drv \in Drivers /\ nic \in Nics /\ hist \in Histories BY DEF IInv, Types
<1>2. /\ nic' \in Nics /\ ~nic'.on /\ nic'.stat = nic.stat /\ nic'.stat_put = nic.stat_put
  BY <1>1, StopNicFacts
<1>3. Types' BY <1>2 DEF IInv, Types, Bare, SameHistory
<1>4. held' = held BY DEF held, SameQueues
<1>5. hist.life <= hist'.life
  <2>1. hist.life \in Nat BY <1>1 DEF Histories
  <2> QED BY <2>1
<1>6. ~hist.stale => InOrder(Delivery(drv', hist.got), drv', nic', hist.rx, hist.good, hist'.lost)
  BY EndedOrder
<1>7. drv'.TransmitQueue = drv.TransmitQueue BY DEF SameQueues
<1>8. IInv' BY <1>2, <1>3, <1>4, <1>5, <1>6, <1>7, Down
<1> QED BY <1>4, <1>8

LEMMA StepShutdown ==
  ASSUME ConstantsOK, IInv, SnpShutdown
  PROVE  IInv' /\ held' = held /\ drv'.mode = "Started"
<1>1. drv \in Drivers /\ hist \in Histories BY DEF IInv, Types
<1>2. PICK a : a = mskc_stop_if(drv) OBVIOUS
<1>3. Bare(drv, a) /\ SameQueues(drv, a) BY <1>1, <1>2, StopFacts
<1>4. drv' = [a EXCEPT !.mode = "Started"] BY <1>2 DEF SnpShutdown
<1>5. Bare(drv, drv') /\ SameQueues(a, drv') /\ drv'.mode = "Started"
  <2>1. "Started" \in {"Stopped", "Started", "Initialized"} OBVIOUS
  <2> QED BY <1>3, <1>4, <2>1, ModeFacts
<1>6. SameQueues(drv, drv') BY <1>3, <1>5 DEF SameQueues
<1>7. hist' = Ended /\ nic' = StopNic /\ Idle /\ call' = call BY DEF SnpShutdown
<1>8. /\ SameHistory(hist, hist') /\ hist'.life = hist.life
      /\ hist'.lost = hist.lost \cup (InRing \ {NoBuf, Empty})
  BY <1>1, <1>7, EndedFacts
<1>9. drv'.mode # "Initialized" BY <1>5
<1>10. IInv' /\ held' = held BY <1>5, <1>6, <1>7, <1>8, <1>9, StepDown
<1> QED BY <1>5, <1>10

LEMMA StepStop ==
  ASSUME ConstantsOK, IInv, SnpStop
  PROVE  IInv' /\ held' = held /\ drv'.mode = "Stopped"
<1>1. drv \in Drivers /\ hist \in Histories BY DEF IInv, Types
<1>2. PICK a : a = mskc_stop_if(drv) OBVIOUS
<1>3. Bare(drv, a) /\ SameQueues(drv, a) BY <1>1, <1>2, StopFacts
<1>4. PICK b : b = mskc_stop_if(a) OBVIOUS
<1>5. Bare(a, b) /\ SameQueues(a, b) BY <1>3, <1>4, StopFacts DEF Bare
<1>6. Bare(drv, b) /\ SameQueues(drv, b) BY <1>3, <1>5 DEF Bare, SameQueues
<1>7. drv' = [b EXCEPT !.mode = "Stopped"] BY <1>2, <1>4 DEF SnpStop, msk_txrx_dma_free
<1>8. Bare(drv, drv') /\ SameQueues(b, drv') /\ drv'.mode = "Stopped"
  <2>1. "Stopped" \in {"Stopped", "Started", "Initialized"} OBVIOUS
  <2> QED BY <1>6, <1>7, <2>1, ModeFacts
<1>9. SameQueues(drv, drv') BY <1>6, <1>8 DEF SameQueues
<1>10. hist' = Ended /\ nic' = StopNic /\ Idle /\ call' = call BY DEF SnpStop
<1>11. /\ SameHistory(hist, hist') /\ hist'.life = hist.life
       /\ hist'.lost = hist.lost \cup (InRing \ {NoBuf, Empty})
  BY <1>1, <1>10, EndedFacts
<1>12. drv'.mode # "Initialized" BY <1>8
<1>13. IInv' /\ held' = held BY <1>8, <1>9, <1>10, <1>11, <1>12, StepDown
<1> QED BY <1>8, <1>13

\* Rings that nothing has used yet.
Fresh(d) ==
  /\ d \in Drivers /\ d.mode = "Initialized"
  /\ d.tx_prod = 0 /\ d.tx_cons = 0 /\ d.tx_cnt = 0 /\ d.tx_high = 0
  /\ \A i \in TxIdx : d.tx_m[i] = 0
  /\ d.rx_cons = 0 /\ d.rx_prod = MSK_RX_BUF_CNT - 1
  /\ \A i \in RxIdx : d.rx_m[i] = Empty

LEMMA FreshTx ==
  ASSUME ConstantsOK, NEW d, Fresh(d), NEW sent, NEW tx
  PROVE  TxRing(d, 0, 0, sent, tx)
<1>1. d \in Drivers /\ 0 \in TxIdx BY Indices DEF Fresh
<1>2. TxDist(0, 0) = 0 BY <1>1, TxRingFacts
<1>3. ASSUME NEW p \in TxIdx PROVE ~Filled(d, p)
  <2>1. TxDist(0, p) \in Nat BY <1>1, TxRingFacts, Indices
  <2> QED BY <2>1 DEF Fresh, Filled
<1>4. \A p \in TxIdx : ~Unread(d, 0, p) BY <1>3 DEF Unread
<1>5. TxIndices(d, 0)
  <2>1. 0 <= MSK_TX_RING_CNT - MSK_RESERVED_TX_DESC_CNT + 1 BY Sizes
  <2> QED BY <1>2, <2>1 DEF TxIndices, Fresh
<1>6. TxMaps(d) BY <1>3 DEF TxMaps, Fresh
<1>7. TxHigh(d, 0, 0) BY <1>4 DEF TxHigh, Finds, Fresh
<1>8. UnreadPackets(d, 0) = {} BY <1>4 DEF UnreadPackets
<1>9. TxOrder(d, 0, sent, tx) BY <1>8 DEF TxOrder
<1> QED BY <1>5, <1>6, <1>7, <1>9 DEF TxRing

LEMMA FreshRx ==
  ASSUME ConstantsOK, NEW d, Fresh(d), NEW n, n.rx_get = 0, n.rx_put = MSK_RX_BUF_CNT - 1, NEW rx
  PROVE  RxRing(d, n, rx) /\ \A p \in RxIdx : ~Came(d, 0, p)
<1>1. 0 \in RxIdx /\ MSK_RX_BUF_CNT - 1 \in RxIdx /\ MSK_RX_BUF_CNT \in Nat
  BY Indices, Sizes DEF RxIdx
<1>2. RxDist(0, 0) = 0 /\ RxDist(0, MSK_RX_BUF_CNT - 1) = MSK_RX_BUF_CNT - 1
  BY <1>1, Sizes DEF RxDist, Dist
<1>3. ASSUME NEW p \in RxIdx PROVE ~Came(d, 0, p)
  <2>1. RxDist(0, p) \in Nat BY <1>1, RxRingFacts, Indices
  <2> QED BY <1>2, <2>1 DEF Fresh, Came
<1>4. 0 <= MSK_RX_BUF_CNT - 1 BY Sizes
<1>5. RxRing(d, n, rx) BY <1>2, <1>3, <1>4 DEF RxRing, Fresh
<1> QED BY <1>3, <1>5

\* The events of earlier lives are not of the new one.
LEMMA NoLive ==
  ASSUME ConstantsOK, nic \in Nics, NEW c, NEW life \in Nat, StatRing(nic, c, life), NEW n,
         n.stat = nic.stat, n.stat_put = nic.stat_put
  PROVE  /\ StatRing(n, c, life + 1)
         /\ LiveTx(n, life + 1) = {} /\ LiveRx(n, life + 1) = {}
<1>1. \A i \in StatIdx : nic.stat[i].life \in Nat BY DEF Nics, Events
<1>2. \A i \in StatIdx : nic.stat[i].own =>
        nic.stat[i].life <= life + 1 /\ nic.stat[i].life # life + 1
  BY <1>1 DEF StatRing
<1>3. StatRing(n, c, life + 1) BY <1>2 DEF StatRing
<1> QED BY <1>2, <1>3 DEF LiveTx, LiveRx, Live

LEMMA StartNicFacts ==
  ASSUME ConstantsOK, nic \in Nics
  PROVE  /\ StartNic \in Nics /\ StartNic.on /\ StartNic.tx_put = 0 /\ StartNic.tx_get = 0
         /\ StartNic.tx_told = 0 /\ StartNic.tx_high = 0 /\ StartNic.rx_get = 0
         /\ StartNic.rx_put = MSK_RX_BUF_CNT - 1
         /\ StartNic.stat = nic.stat /\ StartNic.stat_put = nic.stat_put
<1>1. 0 \in TxIdx /\ 0 \in RxIdx /\ MSK_RX_BUF_CNT - 1 \in RxIdx BY Indices, Sizes DEF RxIdx
<1> QED BY <1>1 DEF Nics, StartNic

LEMMA StepUp ==
  ASSUME ConstantsOK, IInv, Idle, call' = call, nic' = StartNic, Fresh(drv'),
         SameQueues(drv, drv'), drv'.stat_cons = drv.stat_cons, SameHistory(hist, hist'),
         hist'.life = hist.life + 1, hist'.lost = hist.lost \cup (InRing \ {NoBuf, Empty})
  PROVE  IInv' /\ held' = held
<1>1. drv \in Drivers /\ nic \in Nics /\ hist \in Histories /\ hist.life \in Nat
      /\ drv' \in Drivers /\ hist' \in Histories /\ call \in Calls
  BY DEF IInv, Types, Histories, Fresh, SameHistory
<1>2. /\ nic' \in Nics /\ nic'.on /\ nic'.tx_put = 0 /\ nic'.tx_get = 0
      /\ nic'.tx_told = 0 /\ nic'.tx_high = 0 /\ nic'.rx_get = 0
      /\ nic'.rx_put = MSK_RX_BUF_CNT - 1
      /\ nic'.stat = nic.stat /\ nic'.stat_put = nic.stat_put
  BY <1>1, StartNicFacts
<1>3. /\ hist'.tx = hist.tx /\ hist'.rx = hist.rx /\ hist'.good = hist.good
      /\ hist'.sent = hist.sent /\ hist'.got = hist.got /\ hist'.stale = hist.stale
      /\ hist'.wild = hist.wild /\ hist'.max = hist.max
  BY DEF SameHistory
<1>4. Types' BY <1>1, <1>2, <1>3 DEF IInv, Types
<1>5. PICK c : c = Cons(call, drv) OBVIOUS
<1>6. Cons(call', drv') = c BY <1>5 DEF Cons
<1>7. StatRing(nic, c, hist.life) BY <1>5 DEF IInv, EventPart
<1>8. PICK life : life = hist'.life OBVIOUS
<1>9. /\ StatRing(nic', c, life) /\ LiveTx(nic', life) = {} /\ LiveRx(nic', life) = {}
  <2>1. life = hist.life + 1 BY <1>8
  <2>2. StatRing(nic', c, hist.life + 1) /\ LiveTx(nic', hist.life + 1) = {}
        /\ LiveRx(nic', hist.life + 1) = {}
    BY <1>1, <1>2, <1>7, NoLive
  <2> QED BY <2>1, <2>2
<1>10. EventPart' BY <1>6, <1>8, <1>9 DEF EventPart
<1>11. held' = held BY DEF held, SameQueues
<1>12. Fresh(drv') /\ drv'.mode = "Initialized" /\ drv'.tx_cons = 0 /\ drv'.tx_prod = 0
  BY DEF Fresh
<1>13. SendPart'
  <2> SUFFICES ASSUME ~hist.stale
               PROVE  /\ ~hist.wild /\ SendOrder(drv', hist.sent, hist.tx)
                      /\ TxRing(drv', 0, 0, hist.sent, hist.tx)
                      /\ TxEvents(drv', nic', c, life)
    BY <1>2, <1>3, <1>6, <1>8 DEF SendPart
  <2>1. ~hist.wild /\ SendOrder(drv, hist.sent, hist.tx) BY DEF IInv, SendPart
  <2>2. SendOrder(drv', hist.sent, hist.tx) BY <2>1 DEF SendOrder, SameQueues
  <2>3. TxRing(drv', 0, 0, hist.sent, hist.tx) BY <1>12, FreshTx
  <2>4. TxDist(0, 0) <= TxDist(0, 0)
    <3>1. TxDist(0, 0) = 0 BY Indices, TxRingFacts
    <3> QED BY <3>1
  <2>5. TxEvents(drv', nic', c, life) BY <1>2, <1>9, <1>12, <2>4 DEF TxEvents
  <2> QED BY <2>1, <2>2, <2>3, <2>5
<1>14. ReceivePart'
  <2> SUFFICES ASSUME ~hist.stale
               PROVE  /\ InOrder(Delivery(drv', hist.got), drv', nic', hist.rx, hist.good,
                                 hist'.lost)
                      /\ RxRing(drv', nic', hist.rx)
                      /\ RxEvents(drv', nic', c, life, hist.good)
                      /\ Later(Delivery(drv', hist.got), drv', nic'.rx_get)
    BY <1>3, <1>6, <1>8 DEF ReceivePart
  <2>1. InOrder(Delivery(drv', hist.got), drv', nic', hist.rx, hist.good, hist'.lost)
    BY EndedOrder
  <2>2. RxRing(drv', nic', hist.rx) /\ \A p \in RxIdx : ~Came(drv', 0, p)
    BY <1>2, <1>12, FreshRx
  <2>3. RxEvents(drv', nic', c, life, hist.good)
    <3>1. PICK at \in [StatIdx -> RxIdx] : at = [i \in StatIdx |-> 0] BY Indices
    <3>2. Reports(at, drv', nic', c, life, hist.good) BY <1>2, <1>9, <2>2 DEF Reports
    <3> QED BY <3>1, <3>2 DEF RxEvents
  <2>4. Later(Delivery(drv', hist.got), drv', nic'.rx_get) BY <1>2, <2>2 DEF Later
  <2> QED BY <2>1, <2>2, <2>3, <2>4
<1>15. ClientPart'
  <2>1. \A i \in DOMAIN held' : held'[i] <= hist'.tx BY <1>3, <1>11 DEF IInv, ClientPart
  <2> QED BY <1>2, <1>12, <2>1 DEF ClientPart
<1> QED BY <1>4, <1>10, <1>11, <1>13, <1>14, <1>15 DEF IInv

LEMMA StepInitialize ==
  ASSUME ConstantsOK, IInv, SnpInitialize
  PROVE  IInv' /\ held' = held /\ drv.mode = "Started" /\ drv'.mode \in {"Started", "Initialized"}
<1>1. /\ drv \in Drivers /\ hist \in Histories /\ drv.mode = "Started" /\ Idle /\ call' = call
  BY DEF IInv, Types, SnpInitialize
<1>2. PICK a : a = mskc_stop_if(drv) OBVIOUS
<1>3. Bare(drv, a) /\ SameQueues(drv, a) /\ a.mode = drv.mode /\ a \in Drivers
  BY <1>1, <1>2, StopFacts DEF Bare
<1>4. PICK b : b = msk_init_tx_ring(a) OBVIOUS
<1>5. /\ b \in Drivers /\ SameQueues(a, b) /\ SameRest(a, b)
      /\ b.tx_prod = 0 /\ b.tx_cons = 0 /\ b.tx_cnt = 0 /\ b.tx_high = 0
      /\ \A i \in TxIdx : b.tx_m[i] = 0
  BY <1>3, <1>4, InitTxFacts
<1>6. CASE /\ drv' = [msk_init_rx_ring(b) EXCEPT !.mode = "Initialized"]
           /\ nic' = StartNic /\ hist' = [Ended EXCEPT !.life = @ + 1]
  <2>1. PICK d : d = msk_init_rx_ring(b) OBVIOUS
  <2>2. /\ d \in Drivers /\ SameQueues(b, d) /\ SameTx(b, d) /\ d.stat_cons = b.stat_cons
        /\ d.rx_cons = 0 /\ d.rx_prod = MSK_RX_BUF_CNT - 1
        /\ \A i \in RxIdx : d.rx_m[i] = Empty
    BY <1>5, <2>1, InitRxFacts
  <2>3. /\ d.tx_prod = 0 /\ d.tx_cons = 0 /\ d.tx_cnt = 0 /\ d.tx_high = 0
        /\ \A i \in TxIdx : d.tx_m[i] = 0
    BY <1>5, <2>2 DEF SameTx
  <2>4. /\ d.stat_cons = drv.stat_cons /\ SameQueues(drv, d)
    BY <1>3, <1>5, <2>2 DEF Bare, SameRest, SameQueues
  <2>5. drv' = [d EXCEPT !.mode = "Initialized"] BY <1>6, <2>1
  <2>6. Fresh(drv') BY <2>2, <2>3, <2>5 DEF Drivers, Fresh
  <2>7. SameQueues(drv, drv') /\ drv'.stat_cons = drv.stat_cons
    BY <2>2, <2>4, <2>5 DEF Drivers, SameQueues
  <2>8. /\ SameHistory(hist, hist') /\ hist'.life = hist.life + 1
        /\ hist'.lost = hist.lost \cup (InRing \ {NoBuf, Empty})
    BY <1>1, <1>6, NewLifeFacts
  <2>9. IInv' /\ held' = held BY <1>1, <1>6, <2>6, <2>7, <2>8, StepUp
  <2>10. drv'.mode = "Initialized" BY <2>6 DEF Fresh
  <2> QED BY <1>1, <2>9, <2>10
<1>7. CASE /\ drv' = mskc_stop_if(b) /\ nic' = StopNic
           /\ hist' = Faulted([Ended EXCEPT !.life = @ + 1])
  <2>1. Bare(b, drv') /\ SameQueues(b, drv') /\ drv'.mode = b.mode BY <1>5, <1>7, StopFacts
  <2>2. Bare(drv, drv') /\ SameQueues(drv, drv')
    BY <1>3, <1>5, <2>1 DEF Bare, SameRest, SameQueues
  <2>3. drv'.mode = "Started" BY <1>1, <1>3, <1>5, <2>1 DEF SameRest
  <2>4. /\ SameHistory(hist, hist') /\ hist'.life = hist.life + 1
        /\ hist'.lost = hist.lost \cup (InRing \ {NoBuf, Empty})
    BY <1>1, <1>7, NewLifeFacts
  <2>5. drv'.mode # "Initialized" BY <2>3
  <2>6. IInv' /\ held' = held BY <1>1, <1>7, <2>2, <2>4, <2>5, StepDown
  <2> QED BY <1>1, <2>3, <2>6
<1> QED BY <1>2, <1>4, <1>6, <1>7 DEF SnpInitialize

(* ---------------------------- the invariant ---------------------------- *)

LEMMA Initially ==
  ASSUME ConstantsOK, Init
  PROVE  IInv
<1>1. 0 \in TxIdx /\ 0 \in RxIdx /\ 0 \in StatIdx /\ StatIdx = 0 .. MSK_STAT_RING_CNT - 1
  BY Indices DEF StatIdx
<1>2. drv \in Drivers
  <2>1. NoLe \in Elements BY DEF NoLe, Elements
  <2>2. /\ [i \in TxIdx |-> NoLe] \in [TxIdx -> Elements]
        /\ [i \in TxIdx |-> 0] \in [TxIdx -> Packet \cup {0}]
        /\ [i \in RxIdx |-> NoBuf] \in [RxIdx -> Buffers]
    BY <2>1 DEF Buffers
  <2> QED BY <1>1, <2>2 DEF Init, Drivers
<1>3. nic \in Nics
  <2>1. NoEvent \in Events BY DEF NoEvent, Events
  <2>2. [i \in StatIdx |-> NoEvent] \in [StatIdx -> Events] BY <2>1
  <2> QED BY <1>1, <2>2 DEF Init, Nics
<1>4. call \in Calls /\ call.pc = "idle" BY NoCallFacts DEF Init
<1>5. PICK max \in Bounds :
        hist = [max |-> max, tx |-> 0, rx |-> 0, good |-> {}, sent |-> <<>>,
                got |-> <<>>, lost |-> {}, life |-> 0, faults |-> 0,
                stale |-> FALSE, wild |-> FALSE]
  BY DEF Init
<1>6. max.tx \in Nat /\ max.rx \in Nat BY DEF ConstantsOK
<1>7. hist \in Histories /\ hist.tx <= hist.max.tx /\ hist.rx <= hist.max.rx
  BY <1>5, <1>6 DEF Histories
<1>8. Types BY <1>2, <1>3, <1>4, <1>7 DEF Types
<1>9. /\ drv.mode = "Stopped" /\ drv.TransmitQueue = <<>> /\ drv.TransmitFreeQueue = <<>>
      /\ drv.ReceiveQueue = <<>> /\ drv.stat_cons = 0
      /\ \A i \in TxIdx : drv.tx_m[i] = 0
      /\ \A i \in RxIdx : drv.rx_m[i] = NoBuf
  BY DEF Init
<1>10. /\ nic.on = FALSE /\ nic.stat_put = 0
       /\ \A i \in StatIdx : ~nic.stat[i].own
  BY <1>1 DEF Init, NoEvent
<1>11. Cons(call, drv) = 0 BY <1>4, <1>9 DEF Cons
<1>12. EventPart
  <2>1. StatDist(0, 0) = 0 BY <1>1, StatRingFacts
  <2>2. \A i \in StatIdx : StatDist(0, i) \in Nat BY <1>1, StatRingFacts, Indices
  <2>3. \A i \in StatIdx : ~(StatDist(0, i) < StatDist(0, nic.stat_put)) BY <1>10, <2>1, <2>2
  <2> QED BY <1>10, <1>11, <2>3 DEF EventPart, StatRing
<1>13. SendPart BY <1>5, <1>9 DEF SendPart, SendOrder, Ascending
<1>14. <<>> \o <<>> = <<>> OBVIOUS
<1>15. ReceivePart
  <2>1. hist.got = <<>> /\ hist.good = {} BY <1>5
  <2>2. Delivery(drv, hist.got) = <<>> BY <1>9, <1>14, <2>1 DEF Delivery
  <2>3. InOrder(<<>>, drv, nic, hist.rx, hist.good, hist.lost)
    BY <2>1 DEF InOrder, Ascending, Members
  <2> QED BY <1>9, <2>2, <2>3 DEF ReceivePart
<1>16. held = <<>> BY <1>9, <1>14 DEF held
<1>17. ClientPart BY <1>9, <1>10, <1>16 DEF ClientPart
<1> QED BY <1>8, <1>12, <1>13, <1>15, <1>17 DEF IInv

LEMMA Steps ==
  ASSUME ConstantsOK, IInv, [Next]_vars
  PROVE  IInv'
<1>1. CASE Client
  BY <1>1, StepStart, StepInitialize, StepShutdown, StepStop, StepTransmit, StepIntr DEF Client
<1>2. CASE Work
  BY <1>2, StepHandleTx, StepHandleRx, StepFinish, StepAck, StepEndGetStatus, StepEndReceive
  DEF Work
<1>3. CASE mskc_tick BY <1>3, StepTick
<1>4. CASE NicTx BY <1>4, StepNicTx
<1>5. CASE NicTxDone BY <1>5, StepNicTxDone
<1>6. CASE NicRx BY <1>6, StepNicRx
<1>7. CASE UNCHANGED vars BY <1>7, Stuttering
<1> QED BY <1>1, <1>2, <1>3, <1>4, <1>5, <1>6, <1>7 DEF Next

LEMMA Inductive ==
  ASSUME ConstantsOK
  PROVE  Spec => []IInv
<1>1. Init => IInv BY Initially
<1>2. IInv /\ [Next]_vars => IInv' BY Steps
<1> QED BY <1>1, <1>2, PTL DEF Spec

(* ------------------------------- theorems ------------------------------ *)

\* Every index stays in its ring, and every position holds what it may hold.
THEOREM TypeCorrect ==
  ASSUME ConstantsOK
  PROVE  Spec => []TypeOK
<1>1. IInv => TypeOK
  BY DEF IInv, Types, TypeOK, Drivers, Nics, Calls, Buffers
<1> QED BY <1>1, Inductive, PTL

\* What is in flight is what lies between the driver's two indices.
LEMMA FlightFacts ==
  ASSUME ConstantsOK, drv \in Drivers
  PROVE  InFlight = {p \in TxIdx : Filled(drv, p)}
<1>1. drv.tx_cons \in TxIdx /\ drv.tx_cnt \in TxIdx /\ drv.tx_cnt \in Nat
  BY Indices DEF Drivers
<1>2. ASSUME NEW i \in 0 .. drv.tx_cnt - 1
      PROVE  /\ (drv.tx_cons + i) % MSK_TX_RING_CNT \in TxIdx
             /\ Filled(drv, (drv.tx_cons + i) % MSK_TX_RING_CNT)
  <2>1. i \in TxIdx /\ i < drv.tx_cnt BY <1>1, Sizes DEF TxIdx
  <2> QED BY <1>1, <2>1, TxPlace DEF Filled
<1>3. ASSUME NEW p \in TxIdx, Filled(drv, p)
      PROVE  \E i \in 0 .. drv.tx_cnt - 1 : p = (drv.tx_cons + i) % MSK_TX_RING_CNT
  <2>1. PICK k \in TxIdx : k = TxDist(drv.tx_cons, p) BY <1>1, TxRingFacts
  <2>2. k \in 0 .. drv.tx_cnt - 1 BY <1>1, <1>3, <2>1, Indices DEF Filled
  <2>3. (drv.tx_cons + k) % MSK_TX_RING_CNT = p BY <1>1, <2>1, TxPlace
  <2> QED BY <2>2, <2>3
<1> QED BY <1>2, <1>3 DEF InFlight

\* However the client, the timer and the controller interleave, and whatever
\* allocation fails: no transmit element is overwritten before the controller
\* has read it, no packet unmapped before, no mapping forgotten, and no packet
\* read at the wrong half of the address space.
THEOREM TxRingKept ==
  ASSUME ConstantsOK
  PROVE  Spec => []TxRingInStep
<1>1. ASSUME IInv PROVE TxRingInStep
  <2>1. /\ drv \in Drivers /\ nic \in Nics /\ drv.tx_cons \in TxIdx /\ drv.tx_prod \in TxIdx
        /\ nic.tx_told \in TxIdx /\ nic.tx_get \in TxIdx
        /\ drv.tx_ring \in [TxIdx -> Elements] /\ drv.tx_m \in [TxIdx -> Packet \cup {0}]
    BY <1>1 DEF IInv, Types, Drivers, Nics
  <2>2. /\ TxSpan(drv.tx_cons, drv.tx_prod) = TxDist(drv.tx_cons, drv.tx_prod)
        /\ TxSpan(drv.tx_cons, nic.tx_told) = TxDist(drv.tx_cons, nic.tx_told)
        /\ TxSpan(drv.tx_cons, nic.tx_get) = TxDist(drv.tx_cons, nic.tx_get)
    BY <2>1, TxRingFacts
  <2>3. ASSUME ~hist.stale PROVE ~hist.wild BY <1>1, <2>3 DEF IInv, SendPart
  <2>4. ASSUME ~hist.stale, drv.mode = "Initialized"
        PROVE  /\ TxIndices(drv, nic.tx_get) /\ TxMaps(drv)
               /\ TxDist(drv.tx_cons, nic.tx_told) <= TxDist(drv.tx_cons, nic.tx_get)
    BY <1>1, <2>4 DEF IInv, SendPart, TxRing, TxEvents
  <2>5. ASSUME ~hist.stale, drv.mode = "Initialized"
        PROVE  {i \in TxIdx : drv.tx_m[i] # 0} = {i \in InFlight : drv.tx_ring[i].op = "packet"}
    <3>1. InFlight = {p \in TxIdx : Filled(drv, p)} BY <2>1, FlightFacts
    <3>2. TxMaps(drv) BY <2>4, <2>5
    <3>3. ASSUME NEW p \in TxIdx
          PROVE  drv.tx_m[p] # 0 <=> Filled(drv, p) /\ drv.tx_ring[p].op = "packet"
      <4>1. drv.tx_ring[p] \in Elements BY <2>1
      <4>2. drv.tx_ring[p].op = "packet" => drv.tx_ring[p].val # 0 BY <4>1, Sizes DEF Elements
      <4> QED BY <3>2, <4>2 DEF TxMaps
    <3> QED BY <3>1, <3>3
  <2>6. drv.mode # "Initialized" => \A i \in TxIdx : drv.tx_m[i] = 0
    BY <1>1 DEF IInv, ClientPart
  <2> QED BY <2>2, <2>3, <2>4, <2>5, <2>6 DEF TxRingInStep, TxIndices
<1> QED BY <1>1, Inductive, PTL

\* The controller sends the packets in the order in which Transmit got them,
\* none of them twice, over any number of Shutdowns and Initializes.
THEOREM SentOnceInOrder ==
  ASSUME ConstantsOK
  PROVE  Spec => []SentInOrder
<1>1. IInv => SentInOrder BY DEF IInv, SendPart, SendOrder, SentInOrder
<1> QED BY <1>1, Inductive, PTL

\* Type correctness, the transmit ring and the order of sending, as the run
\* of the network drivers states them of this one.
THEOREM RingsKept ==
  ASSUME ConstantsOK
  PROVE  Spec => []RingsInStep
<1>1. TypeOK /\ TxRingInStep /\ SentInOrder => RingsInStep BY DEF RingsInStep
<1> QED BY <1>1, TypeCorrect, TxRingKept, SentOnceInOrder, PTL

\* Good frames reach the client once and in the order of arrival, and none
\* disappears but for want of memory or at a stop.
THEOREM NoFrameLost ==
  ASSUME ConstantsOK
  PROVE  Spec => []ReceivedInOrder
<1>1. ASSUME IInv PROVE ReceivedInOrder
  <2>1. ~hist.stale =>
          InOrder(hist.got \o drv.ReceiveQueue, drv, nic, hist.rx, hist.good, hist.lost)
    BY <1>1 DEF IInv, ReceivePart, Delivery
  <2> QED BY <2>1 DEF ReceivedInOrder, InOrder
<1> QED BY <1>1, Inductive, PTL

(* ----------------------- the promise to the client --------------------- *)

Network == INSTANCE SimpleNetwork WITH Buffer <- Packet, mode <- drv.mode, held <- held

\* A step of the driver's rings or of a call neither lends nor hands back.
LEMMA NetworkSame ==
  ASSUME drv'.mode = drv.mode, drv'.TransmitQueue = drv.TransmitQueue,
         drv'.TransmitFreeQueue = drv.TransmitFreeQueue
  PROVE  [Network!SNNext]_(Network!snVars)
<1>1. held' = held BY DEF held
<1> QED BY <1>1 DEF Network!snVars

LEMMA NetworkRings ==
  ASSUME ConstantsOK, IInv, HandleTx \/ HandleRx \/ FinishEvents \/ NicRx
  PROVE  [Network!SNNext]_(Network!snVars)
<1>1. drv \in Drivers /\ nic \in Nics /\ call \in Calls /\ hist \in Histories BY DEF IInv, Types
<1>2. CASE HandleTx
  <2>1. drv' = msk_txeof(drv, Event.arg) /\ Event.op = "tx" BY <1>2 DEF HandleTx
  <2>2. Event \in Events BY <1>1 DEF Event, Nics, Calls
  <2>3. Event.arg \in TxIdx BY <2>1, <2>2 DEF Events
  <2>4. PICK k : TakenOff(drv, drv', k) BY <1>1, <2>1, <2>3, EofFacts
  <2> QED BY <2>4, NetworkSame DEF TakenOff, SameRest
<1>3. CASE HandleRx
  <2>1. drv' \in {RxTake(drv), RxDrop(drv), msk_discard_rxbuf(drv)} BY <1>3 DEF HandleRx
  <2>2. \E q : Turned(drv, drv', q) BY <1>1, <2>1, TurnFacts
  <2> QED BY <2>2, NetworkSame DEF Turned, SameTx
<1>4. CASE FinishEvents
  <2>1. drv' = [drv EXCEPT !.stat_cons = call.cons] BY <1>4 DEF FinishEvents
  <2> QED BY <1>1, <2>1, NetworkSame DEF Drivers
<1>5. CASE NicRx
  <2>1. drv' = [drv EXCEPT !.rx_m[nic.rx_get] = hist.rx + 1] BY <1>5 DEF NicRx
  <2>2. PICK m : m = [drv.rx_m EXCEPT ![nic.rx_get] = hist.rx + 1] OBVIOUS
  <2>3. drv' = [drv EXCEPT !.rx_m = m] BY <1>1, <2>1, <2>2 DEF Drivers
  <2> QED BY <1>1, <2>3, NetworkSame DEF Drivers
<1> QED BY <1>2, <1>3, <1>4, <1>5

LEMMA NetworkStep ==
  ASSUME ConstantsOK, IInv, [Next]_vars
  PROVE  [Network!SNNext]_(Network!snVars)
<1>1. drv \in Drivers BY DEF IInv, Types
<1>2. CASE SnpStart
  <2>1. drv.mode = "Stopped" BY <1>2 DEF SnpStart
  <2>2. drv'.mode = "Started" /\ held' = <<>> BY <1>2, StepStart
  <2> QED BY <2>1, <2>2 DEF Network!SNNext, Network!SNStart, Network!Stopped, Network!Started
<1>3. CASE SnpInitialize
  <2>1. drv.mode = "Started" /\ held' = held /\ drv'.mode \in {"Started", "Initialized"}
    BY <1>3, StepInitialize
  <2>2. CASE drv'.mode = "Started" BY <2>1, <2>2 DEF Network!snVars
  <2>3. CASE drv'.mode = "Initialized"
    BY <2>1, <2>3 DEF Network!SNNext, Network!SNInitialize, Network!Started, Network!Initialized
  <2> QED BY <2>1, <2>2, <2>3
<1>4. CASE SnpShutdown
  <2>1. drv.mode = "Initialized" BY <1>4 DEF SnpShutdown
  <2>2. held' = held /\ drv'.mode = "Started" BY <1>4, StepShutdown
  <2> QED
    BY <2>1, <2>2 DEF Network!SNNext, Network!SNShutdown, Network!Initialized, Network!Started
<1>5. CASE SnpStop
  <2>1. drv.mode = "Started" BY <1>5 DEF SnpStop
  <2>2. held' = held /\ drv'.mode = "Stopped" BY <1>5, StepStop
  <2> QED BY <2>1, <2>2 DEF Network!SNNext, Network!SNStop, Network!Stopped
<1>6. CASE SnpTransmit
  <2>1. drv.mode = "Initialized" BY <1>6 DEF SnpTransmit
  <2>2. \E p \in Packet : held' = Append(held, p) /\ \A i \in DOMAIN held : held[i] < p
    BY <1>6, StepTransmit
  <2>3. drv'.mode = drv.mode
    <3>1. IInv' BY <1>6, StepTransmit
    <3>2. nic'.on = nic.on BY <1>6 DEF SnpTransmit, IInv, Types, Nics
    <3> QED BY <2>1, <3>1, <3>2 DEF IInv, ClientPart
  <2> QED BY <2>1, <2>2, <2>3 DEF Network!SNNext, Network!SNTransmit, Network!Initialized
<1>7. CASE EndGetStatus
  <2>1. \/ drv' = drv
        \/ drv.TransmitFreeQueue # <<>>
           /\ drv' = [drv EXCEPT !.TransmitFreeQueue = Tail(drv.TransmitFreeQueue)]
    BY <1>1, <1>7 DEF EndGetStatus, Drivers
  <2>2. CASE drv' = drv BY <2>2, NetworkSame
  <2>3. CASE drv.TransmitFreeQueue # <<>>
             /\ drv' = [drv EXCEPT !.TransmitFreeQueue = Tail(drv.TransmitFreeQueue)]
    <3>1. PICK s \in Seq(Packet) : s = drv.TransmitFreeQueue /\ s # <<>>
      BY <1>1, <2>3 DEF Drivers
    <3>2. PICK t \in Seq(Packet) : t = drv.TransmitQueue BY <1>1 DEF Drivers
    <3>3. s \o t # <<>> /\ Tail(s \o t) = Tail(s) \o t BY <3>1, <3>2, JoinTail
    <3>4. drv'.TransmitFreeQueue = Tail(s) /\ drv'.TransmitQueue = t /\ drv'.mode = drv.mode
      BY <1>1, <2>3, <3>1, <3>2 DEF Drivers
    <3>5. held = s \o t /\ held' = Tail(s) \o t BY <3>1, <3>2, <3>4 DEF held
    <3>6. held # <<>> /\ held' = Tail(held) BY <3>3, <3>5
    <3> QED BY <3>4, <3>6 DEF Network!SNNext, Network!SNRecycle
  <2> QED BY <2>1, <2>2, <2>3
<1>8. CASE EndReceive
  <2>1. drv' = drv \/ drv' = [drv EXCEPT !.ReceiveQueue = Tail(@)] BY <1>8 DEF EndReceive
  <2>2. /\ drv'.mode = drv.mode /\ drv'.TransmitQueue = drv.TransmitQueue
        /\ drv'.TransmitFreeQueue = drv.TransmitFreeQueue
    BY <1>1, <2>1 DEF Drivers
  <2> QED BY <2>2, NetworkSame
<1>9. CASE HandleTx \/ HandleRx \/ FinishEvents \/ NicRx BY <1>9, NetworkRings
<1>10. CASE drv' = drv BY <1>10, NetworkSame
<1>11. SnpGetStatus \/ SnpReceive \/ mskc_tick \/ AckEvents => drv' = drv
  BY DEF SnpGetStatus, SnpReceive, msk_intr, mskc_tick, AckEvents
<1>12. NicTx \/ NicTxDone => drv' = drv BY DEF NicTx, NicTxDone
<1>13. (UNCHANGED vars) => drv' = drv BY DEF vars
<1> QED
  BY <1>2, <1>3, <1>4, <1>5, <1>6, <1>7, <1>8, <1>9, <1>10, <1>11, <1>12, <1>13
  DEF Next, Client, Work

\* The driver keeps the promise every network driver makes to its client: the
\* three states, and buffers handed back once and in order.
THEOREM ImplementsNetwork ==
  ASSUME ConstantsOK
  PROVE  Spec => Network!SNSpec
<1>1. ASSUME Init PROVE Network!SNInit
  <2>1. /\ drv.mode = "Stopped" /\ drv.TransmitQueue = <<>> /\ drv.TransmitFreeQueue = <<>>
    BY <1>1 DEF Init
  <2>2. <<>> \o <<>> = <<>> OBVIOUS
  <2> QED BY <2>1, <2>2 DEF held, Network!SNInit, Network!Stopped
<1>2. IInv /\ [Next]_vars => [Network!SNNext]_(Network!snVars) BY NetworkStep
<1> QED BY <1>1, <1>2, Inductive, PTL DEF Spec, Network!SNSpec

=============================================================================
