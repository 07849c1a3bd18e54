------------------------------ MODULE Pp2_proofs ------------------------------
\* Proofs about Pp2, for any number of ports, queues and pools of any
\* size: packets are sent once, a completion is of a packet that was sent,
\* receive buffers are in one place, good packets come in order, and every
\* port keeps the promise of SimpleNetwork.
EXTENDS Pp2, SequenceTheorems, FiniteSetTheorems, TLAPS

(* ------------------------------ sequences ------------------------------ *)

\* The elements of a sequence after an element has come or gone.
LEMMA TailFacts ==
  ASSUME NEW S, NEW q \in Seq(S), q # <<>>
  PROVE  /\ Head(q) \in S /\ Head(q) = q[1] /\ 1 \in DOMAIN q
         /\ Tail(q) \in Seq(S)
         /\ \A i \in DOMAIN Tail(q) : i + 1 \in DOMAIN q /\ Tail(q)[i] = q[i + 1]
         /\ \A i \in DOMAIN q : i # 1 => i - 1 \in DOMAIN Tail(q) /\ Tail(q)[i - 1] = q[i]
<1>1. Head(q) \in S /\ Tail(q) \in Seq(S) /\ Len(Tail(q)) = Len(q) - 1 BY HeadTailProperties
<1>2. Len(q) \in Nat /\ Len(q) # 0 /\ DOMAIN q = 1 .. Len(q) OBVIOUS
<1>3. Head(q) = q[1] /\ 1 \in DOMAIN q BY <1>2
<1>4. DOMAIN Tail(q) = 1 .. Len(q) - 1 BY <1>1
<1>5. \A i \in 1 .. Len(q) - 1 : Tail(q)[i] = q[i + 1] OBVIOUS
<1>6. \A i \in DOMAIN Tail(q) : i + 1 \in DOMAIN q /\ Tail(q)[i] = q[i + 1]
  BY <1>2, <1>4, <1>5
<1>7. ASSUME NEW i \in DOMAIN q, i # 1
      PROVE  i - 1 \in DOMAIN Tail(q) /\ Tail(q)[i - 1] = q[i]
  <2>1. i - 1 \in 1 .. Len(q) - 1 /\ (i - 1) + 1 = i BY <1>2, <1>7
  <2> QED BY <2>1, <1>4, <1>5
<1> QED BY <1>1, <1>3, <1>6, <1>7

LEMMA PlacesFollow ==
  ASSUME NEW S, NEW q \in Seq(S)
  PROVE  \A i \in DOMAIN q : i \in Nat /\ 1 < i + 1 /\ i + 1 # 1
OBVIOUS

LEMMA AppendFacts ==
  ASSUME NEW S, NEW q \in Seq(S), NEW e \in S
  PROVE  /\ Append(q, e) \in Seq(S)
         /\ DOMAIN Append(q, e) = DOMAIN q \cup {Len(q) + 1}
         /\ Len(q) + 1 \notin DOMAIN q
         /\ \A i \in DOMAIN q : Append(q, e)[i] = q[i] /\ i < Len(q) + 1
         /\ Append(q, e)[Len(q) + 1] = e
  OBVIOUS

LEMMA MembersAppend ==
  ASSUME NEW q \in Seq(Nat), NEW e \in Nat
  PROVE  Members(Append(q, e)) = Members(q) \cup {e}
  BY AppendFacts DEF Members

\* A sequence stays ascending if its new element is above all others.
LEMMA AscendingAppend ==
  ASSUME NEW S, NEW q \in Seq(S), NEW e \in S, Ascending(q), \A i \in DOMAIN q : q[i] < e
  PROVE  Ascending(Append(q, e))
<1> SUFFICES ASSUME NEW i \in DOMAIN Append(q, e), NEW j \in DOMAIN Append(q, e), i < j
             PROVE  Append(q, e)[i] < Append(q, e)[j]
  BY DEF Ascending
<1>1. i \in DOMAIN q BY AppendFacts
<1>2. CASE j \in DOMAIN q BY <1>1, <1>2, AppendFacts DEF Ascending
<1>3. CASE j = Len(q) + 1 BY <1>1, <1>3, AppendFacts
<1> QED BY <1>2, <1>3, AppendFacts

\* What an ascending sequence without its head is.
LEMMA AscendingTail ==
  ASSUME NEW S, NEW q \in Seq(S), q # <<>>, Ascending(q)
  PROVE  Ascending(Tail(q))
<1> SUFFICES ASSUME NEW i \in DOMAIN Tail(q), NEW j \in DOMAIN Tail(q), i < j
             PROVE  Tail(q)[i] < Tail(q)[j]
  BY DEF Ascending
<1>1. /\ i + 1 \in DOMAIN q /\ j + 1 \in DOMAIN q
      /\ Tail(q)[i] = q[i + 1] /\ Tail(q)[j] = q[j + 1]
  BY TailFacts
<1>2. i \in Int /\ j \in Int
  <2>1. Tail(q) \in Seq(S) BY TailFacts
  <2> QED BY <2>1
<1>3. i + 1 < j + 1 BY <1>2
<1> QED BY <1>1, <1>3 DEF Ascending

\* A sequence without repetition has as many elements as places.
LEMMA CountDistinct ==
  ASSUME NEW S, NEW q \in Seq(S), \A i, j \in DOMAIN q : q[i] = q[j] => i = j
  PROVE  Cardinality(Members(q)) = Len(q)
<1>1. Len(q) \in Nat /\ DOMAIN q = 1 .. Len(q) OBVIOUS
<1> DEFINE f == [i \in 1 .. Len(q) |-> q[i]]
<1>2. f \in Bijection(1 .. Len(q), Members(q))
  BY <1>1 DEF Bijection, Injection, Surjection, IsInjective, Members
<1>3. ExistsBijection(1 .. Len(q), Members(q)) BY <1>2 DEF ExistsBijection
<1>4. IsFiniteSet(1 .. Len(q)) /\ Cardinality(1 .. Len(q)) = Len(q) BY <1>1, FS_Interval
<1> QED BY <1>3, <1>4, FS_Bijection

(* ------------------------- the inductive invariant --------------------- *)

Rank == {"Stopped", "Started", "Initialized"}
Txds == [port : Port \cup {0}, buf : Nat]
Rxds == [buf : 0 .. MVPP2_BM_SIZE, bad : BOOLEAN]
Drivers ==
  [mode : [Port -> Rank], Initialized : [Port -> BOOLEAN], LateInitialized : [Port -> BOOLEAN],
   Txqs : [Port -> BOOLEAN], Rxqs : [Port -> BOOLEAN],
   MediaPresent : [Port -> BOOLEAN], CompletionQueue : [Port -> Seq(Nat)],
   RxNextDesc : [Port -> RxIdx], AggrNextDesc : AggrIdx]
Nics ==
  [aggr : [AggrIdx -> Txds], aggrGet : AggrIdx, aggrPend : Nat, txq : [Port -> Seq(Nat)],
   sent : [Port -> Nat], pool : Seq(0 .. MVPP2_BM_SIZE), data : [0 .. MVPP2_BM_SIZE -> Nat],
   descs : [RxIdx -> Rxds], rxPut : [Port -> RxIdx], occupied : [Port -> Nat],
   free : [Port -> Nat]]
Calls == [pc : {"idle", "aggr", "sent", "crash"}, port : Port \cup {0}, buf : Nat]
Histories ==
  [max : Bounds, tx : Nat, rx : Nat, faults : Nat, good : [Port -> SUBSET Nat],
   got : [Port -> Seq(Nat)], sent : Seq(Nat), queued : Seq(Nat), late : [Port -> BOOLEAN],
   skewed : [Port -> BOOLEAN], failed : [Port -> BOOLEAN], moved : BOOLEAN, overrun : BOOLEAN]
Types == drv \in Drivers /\ nic \in Nics /\ call \in Calls /\ hist \in Histories

\* The descriptors the hardware has not done with, and those the driver has
\* not read.
Ring(f, n, get, len) == [i \in 1 .. len |-> f[(get + i - 1) % n]]
Pend(n) == Ring(n.aggr, MVPP2_AGGR_TXQ_SIZE, n.aggrGet, n.aggrPend)
Came(d, n, p) == Ring(n.descs, MVPP2_MAX_RXD, d.RxNextDesc[p], n.occupied[p])

\* A port that was opened has its queues, and a Transmit is of a port that is
\* open or failed to open; what waits in
\* a completion queue is older than the call's packet.
Sending(c) == c.pc \in {"aggr", "sent"}
Active(c, p) == Sending(c) /\ c.port = p
ClientPart ==
  /\ \A p \in Port :
       /\ drv.mode[p] = "Initialized" => drv.Initialized[p]
       /\ drv.Initialized[p] => drv.LateInitialized[p] \/ hist.failed[p]
       /\ drv.LateInitialized[p] => drv.Initialized[p] /\ drv.Txqs[p] /\ drv.Rxqs[p]
       /\ Len(drv.CompletionQueue[p]) < QUEUE_DEPTH
       /\ Ascending(drv.CompletionQueue[p])
       /\ \A i \in DOMAIN drv.CompletionQueue[p] :
            /\ drv.CompletionQueue[p][i] <= hist.tx
            /\ Sending(call) => drv.CompletionQueue[p][i] < call.buf
  /\ Sending(call) =>
       /\ call.port \in Port /\ call.buf = hist.tx
       /\ drv.mode[call.port] = "Initialized"
  /\ CrashesUnopened /\ (call.pc = "crash" => call.port \in Port)

\* A packet is in one place: it pends in the shared queue, waits in its
\* port's, or has been sent.
Apart(pend, txq, sent) ==
  /\ \A i, j \in DOMAIN pend : pend[i].buf = pend[j].buf => i = j
  /\ \A i, j \in DOMAIN sent : sent[i] = sent[j] => i = j
  /\ \A p \in Port : \A i, j \in DOMAIN txq[p] : txq[p][i] = txq[p][j] => i = j
  /\ \A p, q \in Port : \A i \in DOMAIN txq[p], j \in DOMAIN txq[q] :
       p # q => txq[p][i] # txq[q][j]
  /\ \A i \in DOMAIN pend : \A p \in Port : \A j \in DOMAIN txq[p] : pend[i].buf # txq[p][j]
  /\ \A i \in DOMAIN pend : \A j \in DOMAIN sent : pend[i].buf # sent[j]
  /\ \A p \in Port : \A i \in DOMAIN txq[p] : \A j \in DOMAIN sent : txq[p][i] # sent[j]
Somewhere(b, pend, txq, sent) ==
  \/ \E i \in DOMAIN pend : pend[i].buf = b
  \/ \E p \in Port : \E i \in DOMAIN txq[p] : txq[p][i] = b
  \/ \E i \in DOMAIN sent : sent[i] = b
SendPart ==
  /\ Members(hist.queued) = 1 .. hist.tx
  /\ ~Overwritten =>
       /\ nic.aggrPend <= MVPP2_AGGR_TXQ_SIZE
       /\ drv.AggrNextDesc = (nic.aggrGet + nic.aggrPend) % MVPP2_AGGR_TXQ_SIZE
       /\ \A i \in DOMAIN Pend(nic) :
            Pend(nic)[i].port \in Port /\ drv.Initialized[Pend(nic)[i].port]
       /\ \A p \in Port : nic.txq[p] # <<>> => drv.Initialized[p]
       /\ Apart(Pend(nic), nic.txq, hist.sent)
       /\ \A b \in Nat : b \in 1 .. hist.tx <=> Somewhere(b, Pend(nic), nic.txq, hist.sent)

\* A port no call of which has given up: nothing of it is on its way but
\* the packet of the call, and the counter of what was sent counts it.
CompletionPart ==
  ~Overwritten => \A p \in Port : ~hist.late[p] =>
    /\ \A i \in DOMAIN drv.CompletionQueue[p] : drv.CompletionQueue[p][i] \in Members(hist.sent)
    /\ call.pc # "crash" =>
         /\ \A i \in DOMAIN Pend(nic) :
              Pend(nic)[i].port = p => Active(call, p) /\ Pend(nic)[i].buf = call.buf
         /\ \A i \in DOMAIN nic.txq[p] : Active(call, p) /\ nic.txq[p][i] = call.buf
         /\ nic.sent[p] > 0 => Active(call, p) /\ call.buf \in Members(hist.sent)

\* With one port open: a buffer is in the pool or in one descriptor, and
\* the descriptors hold what has arrived since what the client has.
Alone(d) == \A p, q \in Port : d.LateInitialized[p] /\ d.LateInitialized[q] => p = q
Stocked(came, pool) ==
  /\ Len(pool) + Len(came) = MVPP2_BM_SIZE
  /\ \A i, j \in DOMAIN pool : pool[i] = pool[j] => i = j
  /\ \A i, j \in DOMAIN came : came[i].buf = came[j].buf => i = j
  /\ \A i \in DOMAIN came, j \in DOMAIN pool : came[i].buf # pool[j]
  /\ \A b \in 0 .. MVPP2_BM_SIZE :
       b \in Buffers <=> \/ \E i \in DOMAIN pool : pool[i] = b
                         \/ \E i \in DOMAIN came : came[i].buf = b
Arrivals(came, data, got, good, rx) ==
  /\ \A i, j \in DOMAIN came : i < j => data[came[i].buf] < data[came[j].buf]
  /\ \A i \in DOMAIN came : data[came[i].buf] <= rx
  /\ Ascending(got)
  /\ \A i \in DOMAIN got : got[i] <= rx
  /\ \A i \in DOMAIN got, j \in DOMAIN came : got[i] < data[came[j].buf]
  /\ \A n \in Nat :
       n \in good <=> \/ \E i \in DOMAIN got : got[i] = n
                      \/ \E i \in DOMAIN came : ~came[i].bad /\ data[came[i].buf] = n
Fresh(d, n, h, p) ==
  /\ n.occupied[p] = 0 /\ n.free[p] = 0 /\ d.RxNextDesc[p] = 0
  /\ h.good[p] = {} /\ h.got[p] = <<>> /\ ~h.skewed[p]
InUse(d, n, h, p) ==
  /\ n.free[p] + n.occupied[p] = MVPP2_MAX_RXD
  /\ n.rxPut[p] = (d.RxNextDesc[p] + n.occupied[p]) % MVPP2_MAX_RXD
  /\ Stocked(Came(d, n, p), n.pool)
  /\ Arrivals(Came(d, n, p), n.data, h.got[p], h.good[p], h.rx)
ReceivePart ==
  /\ \A p \in Port : ~drv.LateInitialized[p] => Fresh(drv, nic, hist, p)
  /\ (\A p \in Port : ~drv.LateInitialized[p]) => Stocked(<<>>, nic.pool)
  /\ Alone(drv) => \A p \in Port :
       drv.LateInitialized[p] /\ ~hist.skewed[p] => InUse(drv, nic, hist, p)

IInv == Types /\ ClientPart /\ SendPart /\ CompletionPart /\ ReceivePart

(* ------------------------------ rings as sequences --------------------- *)

LEMMA Remainders ==
  ASSUME NEW n \in Nat \ {0}, NEW r \in 0 .. n - 1
  PROVE  r % n = r /\ (r + n) % n = r
  OBVIOUS

\* Nothing is ahead of an index but the index itself.
Settled(n, k) == k % n = k /\ (k + 0) % n = k
LEMMA SettledIndex ==
  ASSUME NEW n \in Nat \ {0}, NEW k \in 0 .. n - 1
  PROVE  Settled(n, k)
<1>1. k + 0 = k OBVIOUS
<1> QED BY <1>1, Remainders DEF Settled

Wrap(n, x) == IF x < n THEN x ELSE x - n

LEMMA WrapFacts ==
  ASSUME NEW n \in Nat \ {0}, NEW x \in Nat, x < n + n
  PROVE  x % n = Wrap(n, x) /\ Wrap(n, x) \in 0 .. n - 1
<1>1. Wrap(n, x) \in 0 .. n - 1 BY DEF Wrap
<1>2. x = Wrap(n, x) \/ x = Wrap(n, x) + n BY DEF Wrap
<1> QED BY <1>1, <1>2, Remainders

\* What is put behind the last one is appended.
PutBehind(f, n, get, len, put, e) ==
  /\ put \in 0 .. n - 1 /\ (put + 1) % n = (get + (len + 1)) % n
  /\ Ring([f EXCEPT ![put] = e], n, get, len + 1) = Append(Ring(f, n, get, len), e)
LEMMA RingPut ==
  ASSUME NEW n \in Nat \ {0}, NEW S, NEW f \in [0 .. n - 1 -> S], NEW get \in 0 .. n - 1,
         NEW len \in Nat, len < n, NEW e \in S, NEW put, put = (get + len) % n
  PROVE  PutBehind(f, n, get, len, put, e)
<1> DEFINE g == [f EXCEPT ![put] = e]
           old == Ring(f, n, get, len)
           new == Ring(g, n, get, len + 1)
<1>0. get + len \in Nat /\ get + len < n + n OBVIOUS
<1>1. put = Wrap(n, get + len) /\ put \in 0 .. n - 1 BY <1>0, WrapFacts
<1>2. (put + 1) % n = Wrap(n, put + 1) BY <1>1, WrapFacts
<1>3. (get + (len + 1)) % n = (put + 1) % n
  <2>1. CASE get + (len + 1) < n + n
    <3>0. get + (len + 1) \in Nat OBVIOUS
    <3>1. (get + (len + 1)) % n = Wrap(n, get + (len + 1)) BY <2>1, <3>0, WrapFacts
    <3> QED BY <1>1, <1>2, <3>1 DEF Wrap
  <2>2. CASE get + (len + 1) = n + n
    <3>1. get = n - 1 \/ len # n - 1 BY <2>2
    <3> QED BY <2>2, <3>1
  <2> QED BY <2>1, <2>2
<1>4. g \in [0 .. n - 1 -> S] BY <1>1
<1>r. \A i \in 1 .. len + 1 : (get + i - 1) % n \in 0 .. n - 1 OBVIOUS
<1>5. /\ old \in Seq(S) /\ Len(old) = len
      /\ \A i \in 1 .. len : old[i] = f[(get + i - 1) % n]
  <2>1. \A i \in 1 .. len : f[(get + i - 1) % n] \in S BY <1>r
  <2> QED BY <2>1 DEF Ring
<1>6. /\ new \in Seq(S) /\ Len(new) = len + 1
      /\ \A i \in 1 .. len + 1 : new[i] = g[(get + i - 1) % n]
  <2>1. \A i \in 1 .. len + 1 : g[(get + i - 1) % n] \in S BY <1>4, <1>r
  <2> HIDE DEF g
  <2> QED BY <2>1 DEF Ring
<1> HIDE DEF g, old, new
<1>7. ASSUME NEW i \in 1 .. len PROVE new[i] = old[i]
  <2>0. get + i - 1 \in Nat /\ get + i - 1 < n + n OBVIOUS
  <2>1. (get + i - 1) % n = Wrap(n, get + i - 1) /\ (get + i - 1) % n \in 0 .. n - 1
    BY <2>0, WrapFacts
  <2>2. Wrap(n, get + i - 1) # put BY <1>1 DEF Wrap
  <2>3. (get + i - 1) % n # put BY <2>1, <2>2
  <2>4. g[(get + i - 1) % n] = f[(get + i - 1) % n] BY <2>1, <2>3 DEF g
  <2> QED BY <1>5, <1>6, <2>4
<1>8. new[len + 1] = e
  <2>1. get + (len + 1) - 1 = get + len OBVIOUS
  <2>2. new[len + 1] = g[(get + len) % n] BY <1>6, <2>1
  <2> QED BY <1>1, <2>2 DEF g
<1>9. Append(old, e) \in Seq(S) /\ Len(Append(old, e)) = len + 1 BY <1>5
<1>10. \A i \in 1 .. len + 1 : new[i] = Append(old, e)[i] BY <1>5, <1>7, <1>8
<1>11. new = Append(old, e) BY <1>6, <1>9, <1>10, SeqEqual
<1> QED BY <1>1, <1>3, <1>11 DEF PutBehind, g, old, new

\* What is taken from the front is the head.
TakenFirst(f, n, get, len, next) ==
  /\ next \in 0 .. n - 1 /\ (next + (len - 1)) % n = (get + len) % n
  /\ Ring(f, n, get, len) # <<>> /\ Head(Ring(f, n, get, len)) = f[get]
  /\ Ring(f, n, next, len - 1) = Tail(Ring(f, n, get, len))
LEMMA RingGet ==
  ASSUME NEW n \in Nat \ {0}, NEW S, NEW f \in [0 .. n - 1 -> S], NEW get \in 0 .. n - 1,
         NEW len \in Nat, len > 0, len <= n, NEW next, next = (get + 1) % n
  PROVE  TakenFirst(f, n, get, len, next)
<1> DEFINE old == Ring(f, n, get, len)
           new == Ring(f, n, next, len - 1)
<1>1. next = Wrap(n, get + 1) /\ next \in 0 .. n - 1 BY WrapFacts
<1>2. ASSUME NEW i \in 0 .. len - 1 PROVE (next + i) % n = (get + (i + 1)) % n
  <2>0. next + i \in Nat /\ next + i < n + n /\ get + (i + 1) \in Nat BY <1>1
  <2>1. (next + i) % n = Wrap(n, next + i) BY <2>0, WrapFacts
  <2>2. CASE get + (i + 1) < n + n
    <3>1. (get + (i + 1)) % n = Wrap(n, get + (i + 1)) BY <2>0, <2>2, WrapFacts
    <3> QED BY <1>1, <2>1, <3>1 DEF Wrap
  <2>3. CASE get + (i + 1) = n + n BY <1>1, <2>1, <2>3 DEF Wrap
  <2> QED BY <2>2, <2>3
<1>3. /\ old \in Seq(S) /\ Len(old) = len
      /\ \A i \in 1 .. len : old[i] = f[(get + i - 1) % n]
  <2>1. \A i \in 1 .. len : (get + i - 1) % n \in 0 .. n - 1 OBVIOUS
  <2>2. \A i \in 1 .. len : f[(get + i - 1) % n] \in S BY <2>1
  <2> QED BY <2>2 DEF Ring
<1>4. len - 1 \in Nat OBVIOUS
<1>5. /\ new \in Seq(S) /\ Len(new) = len - 1
      /\ \A i \in 1 .. len - 1 : new[i] = f[(next + i - 1) % n]
  <2>1. \A i \in 1 .. len - 1 : (next + i - 1) % n \in 0 .. n - 1 BY <1>1
  <2>2. \A i \in 1 .. len - 1 : f[(next + i - 1) % n] \in S BY <2>1
  <2> QED BY <1>4, <2>2 DEF Ring
<1> HIDE DEF old, new
<1>6. old # <<>> BY <1>3
<1>7. Head(old) = f[get]
  <2>1. get + 1 - 1 = get /\ get % n = get BY Remainders
  <2>2. old[1] = f[get] BY <1>3, <2>1
  <2> QED BY <1>3, <1>6, <2>2, TailFacts
<1>8. Tail(old) \in Seq(S) /\ Len(Tail(old)) = len - 1 BY <1>3, <1>6, HeadTailProperties
<1>9. ASSUME NEW i \in 1 .. len - 1 PROVE new[i] = Tail(old)[i]
  <2>1. i \in DOMAIN Tail(old) BY <1>8
  <2>2. Tail(old)[i] = old[i + 1] BY <1>3, <1>6, <2>1, TailFacts
  <2>3. i - 1 \in 0 .. len - 1 /\ next + (i - 1) = next + i - 1 /\ get + ((i - 1) + 1) = get + (i + 1) - 1
    BY <1>1
  <2>4. (next + i - 1) % n = (get + (i + 1) - 1) % n BY <1>2, <2>3
  <2>5. i + 1 \in 1 .. len OBVIOUS
  <2>6. old[i + 1] = f[(get + (i + 1) - 1) % n] BY <1>3, <2>5
  <2>7. new[i] = f[(next + i - 1) % n] BY <1>5
  <2> QED BY <2>2, <2>4, <2>6, <2>7
<1>10. new = Tail(old) BY <1>4, <1>5, <1>8, <1>9, SeqEqual
<1>11. (next + (len - 1)) % n = (get + len) % n
  <2>1. len - 1 \in 0 .. len - 1 /\ (len - 1) + 1 = len OBVIOUS
  <2> QED BY <1>2, <2>1
<1> QED BY <1>1, <1>6, <1>7, <1>10, <1>11 DEF TakenFirst, old, new

\* A ring of that type is a sequence of what it may hold.
IsRing(f, n, get, len, S) ==
  /\ Ring(f, n, get, len) \in Seq(S) /\ Len(Ring(f, n, get, len)) = len
  /\ DOMAIN Ring(f, n, get, len) = 1 .. len
LEMMA RingType ==
  ASSUME NEW n \in Nat \ {0}, NEW S, NEW f \in [0 .. n - 1 -> S], NEW get \in 0 .. n - 1,
         NEW len \in Nat
  PROVE  IsRing(f, n, get, len, S)
<1>1. \A i \in 1 .. len : (get + i - 1) % n \in 0 .. n - 1 OBVIOUS
<1>2. \A i \in 1 .. len : f[(get + i - 1) % n] \in S BY <1>1
<1> QED BY <1>2 DEF Ring, IsRing

(* ------------------------------ the fields ----------------------------- *)

LEMMA Sizes ==
  ASSUME ConstantsOK
  PROVE  /\ MVPP2_AGGR_TXQ_SIZE \in Nat \ {0} /\ MVPP2_MAX_RXD \in Nat \ {0}
         /\ MVPP2_BM_SIZE \in Nat \ {0} /\ QUEUE_DEPTH \in Nat /\ QUEUE_DEPTH >= 2
         /\ IsFiniteSet(Port) /\ 0 \notin Port
         /\ AggrIdx = 0 .. MVPP2_AGGR_TXQ_SIZE - 1 /\ RxIdx = 0 .. MVPP2_MAX_RXD - 1
         /\ 0 \in AggrIdx /\ 0 \in RxIdx
  BY DEF ConstantsOK, AggrIdx, RxIdx

LEMMA DrvFields ==
  ASSUME Types
  PROVE  /\ drv \in Drivers
         /\ drv.mode \in [Port -> Rank] /\ drv.Initialized \in [Port -> BOOLEAN]
         /\ drv.LateInitialized \in [Port -> BOOLEAN]
         /\ drv.Txqs \in [Port -> BOOLEAN] /\ drv.Rxqs \in [Port -> BOOLEAN]
         /\ drv.MediaPresent \in [Port -> BOOLEAN]
         /\ drv.CompletionQueue \in [Port -> Seq(Nat)] /\ drv.RxNextDesc \in [Port -> RxIdx]
         /\ drv.AggrNextDesc \in AggrIdx
  BY DEF Types, Drivers

LEMMA NicFields ==
  ASSUME Types
  PROVE  /\ nic \in Nics
         /\ nic.aggr \in [AggrIdx -> Txds] /\ nic.aggrGet \in AggrIdx /\ nic.aggrPend \in Nat
         /\ nic.txq \in [Port -> Seq(Nat)] /\ nic.sent \in [Port -> Nat]
         /\ nic.pool \in Seq(0 .. MVPP2_BM_SIZE) /\ nic.data \in [0 .. MVPP2_BM_SIZE -> Nat]
         /\ nic.descs \in [RxIdx -> Rxds] /\ nic.rxPut \in [Port -> RxIdx]
         /\ nic.occupied \in [Port -> Nat] /\ nic.free \in [Port -> Nat]
  BY DEF Types, Nics

LEMMA HistFields ==
  ASSUME Types
  PROVE  /\ hist \in Histories
         /\ hist.max \in Bounds /\ hist.tx \in Nat /\ hist.rx \in Nat /\ hist.faults \in Nat
         /\ hist.good \in [Port -> SUBSET Nat] /\ hist.got \in [Port -> Seq(Nat)]
         /\ hist.sent \in Seq(Nat) /\ hist.queued \in Seq(Nat)
         /\ hist.late \in [Port -> BOOLEAN] /\ hist.skewed \in [Port -> BOOLEAN]
         /\ hist.failed \in [Port -> BOOLEAN]
         /\ hist.moved \in BOOLEAN /\ hist.overrun \in BOOLEAN
  BY DEF Types, Histories

LEMMA CallFields ==
  ASSUME Types
  PROVE  /\ call \in Calls /\ call.pc \in {"idle", "aggr", "sent", "crash"}
         /\ call.port \in Port \cup {0} /\ call.buf \in Nat
  BY DEF Types, Calls

(* ------------------------- what a step leaves alone -------------------- *)

SameCall == call' = call
SamePorts ==
  /\ drv'.Initialized = drv.Initialized /\ drv'.LateInitialized = drv.LateInitialized
  /\ drv'.Txqs = drv.Txqs /\ drv'.Rxqs = drv.Rxqs
  /\ hist'.failed = hist.failed
SameSending ==
  /\ nic'.aggr = nic.aggr /\ nic'.aggrGet = nic.aggrGet /\ nic'.aggrPend = nic.aggrPend
  /\ nic'.txq = nic.txq /\ hist'.sent = hist.sent
  /\ hist'.queued = hist.queued /\ hist'.tx = hist.tx
  /\ hist'.moved = hist.moved /\ hist'.overrun = hist.overrun
  /\ drv'.AggrNextDesc = drv.AggrNextDesc
  /\ \A p \in Port : drv.Initialized[p] => drv'.Initialized[p]
SameReceiving ==
  /\ drv'.LateInitialized = drv.LateInitialized /\ drv'.RxNextDesc = drv.RxNextDesc
  /\ nic'.occupied = nic.occupied /\ nic'.free = nic.free /\ nic'.rxPut = nic.rxPut
  /\ nic'.pool = nic.pool /\ nic'.data = nic.data /\ nic'.descs = nic.descs
  /\ hist'.good = hist.good /\ hist'.got = hist.got /\ hist'.skewed = hist.skewed
  /\ hist'.rx = hist.rx
SameQueues ==
  drv'.CompletionQueue = drv.CompletionQueue /\ hist'.late = hist.late /\ nic'.sent = nic.sent

LEMMA ClientStays ==
  ASSUME ClientPart, SameCall, SamePorts, SameQueues, drv'.mode = drv.mode, hist'.tx = hist.tx
  PROVE  ClientPart'
  BY DEF ClientPart, CrashesUnopened, SameCall, SamePorts, SameQueues, Sending

LEMMA SendStays ==
  ASSUME SendPart, SameSending
  PROVE  SendPart'
  BY DEF SendPart, SameSending, Overwritten, Pend

LEMMA CompletionStays ==
  ASSUME CompletionPart, SameCall, SameSending, SameQueues
  PROVE  CompletionPart'
  BY DEF CompletionPart, SameCall, SameSending, SameQueues, Overwritten, Pend, Active, Sending

LEMMA ReceiveStays ==
  ASSUME ReceivePart, SameReceiving
  PROVE  ReceivePart'
  BY DEF ReceivePart, SameReceiving, Alone, Fresh, InUse, Came

LEMMA Stuttering ==
  ASSUME IInv, UNCHANGED vars
  PROVE  IInv'
<1>1. drv' = drv /\ nic' = nic /\ call' = call /\ hist' = hist BY DEF vars
<1>2. SameCall /\ SamePorts /\ SameSending /\ SameReceiving /\ SameQueues
  BY <1>1 DEF SameCall, SamePorts, SameSending, SameReceiving, SameQueues
<1>3. Types' BY <1>1 DEF IInv, Types
<1> QED BY <1>1, <1>2, <1>3, ClientStays, SendStays, CompletionStays, ReceiveStays DEF IInv

(* --------------------------- the interface's mode ---------------------- *)

LEMMA StepStart ==
  ASSUME ConstantsOK, IInv, NEW p \in Port, Pp2SnpStart(p) \/ Pp2SnpStop(p)
  PROVE  IInv'
<1>1. PICK m \in {"Stopped", "Started"} : drv' = [drv EXCEPT !.mode[p] = m]
  BY DEF Pp2SnpStart, Pp2SnpStop
<1>2. nic' = nic /\ call' = call /\ hist' = hist /\ call.pc = "idle"
  BY DEF Pp2SnpStart, Pp2SnpStop, Idle
<1>3. /\ drv' \in Drivers /\ drv'.mode = [drv.mode EXCEPT ![p] = m]
      /\ drv'.Initialized = drv.Initialized /\ drv'.LateInitialized = drv.LateInitialized
      /\ drv'.Txqs = drv.Txqs /\ drv'.Rxqs = drv.Rxqs
      /\ drv'.CompletionQueue = drv.CompletionQueue /\ drv'.RxNextDesc = drv.RxNextDesc
      /\ drv'.AggrNextDesc = drv.AggrNextDesc
  BY <1>1 DEF IInv, Types, Drivers, Rank
<1>4. SameCall /\ SamePorts /\ SameSending /\ SameReceiving /\ SameQueues
  BY <1>2, <1>3 DEF SameCall, SamePorts, SameSending, SameReceiving, SameQueues
<1>5. Types' BY <1>2, <1>3 DEF IInv, Types
<1>6. ClientPart'
  <2>1. \A q \in Port : drv'.mode[q] = "Initialized" => drv.mode[q] = "Initialized"
    BY <1>3, DrvFields DEF IInv
  <2> QED BY <1>2, <1>3, <2>1 DEF IInv, ClientPart, CrashesUnopened, Sending
<1> QED BY <1>2, <1>4, <1>5, <1>6, SendStays, CompletionStays, ReceiveStays DEF IInv

LEMMA PendType ==
  ASSUME ConstantsOK, Types
  PROVE  /\ Pend(nic) \in Seq(Txds) /\ Len(Pend(nic)) = nic.aggrPend
         /\ DOMAIN Pend(nic) = 1 .. nic.aggrPend
<1>1. IsRing(nic.aggr, MVPP2_AGGR_TXQ_SIZE, nic.aggrGet, nic.aggrPend, Txds)
  BY NicFields, Sizes, RingType
<1> QED BY <1>1 DEF IsRing, Pend

LEMMA CameType ==
  ASSUME ConstantsOK, Types, NEW p \in Port
  PROVE  /\ Came(drv, nic, p) \in Seq(Rxds) /\ Len(Came(drv, nic, p)) = nic.occupied[p]
         /\ DOMAIN Came(drv, nic, p) = 1 .. nic.occupied[p]
<1>1. /\ drv.RxNextDesc[p] \in 0 .. MVPP2_MAX_RXD - 1 /\ nic.occupied[p] \in Nat
      /\ nic.descs \in [0 .. MVPP2_MAX_RXD - 1 -> Rxds]
  BY DrvFields, NicFields, Sizes
<1>2. IsRing(nic.descs, MVPP2_MAX_RXD, drv.RxNextDesc[p], nic.occupied[p], Rxds)
  BY <1>1, Sizes, RingType
<1> QED BY <1>2 DEF IsRing, Came

LEMMA EmptyRing ==
  ASSUME NEW f, NEW n, NEW get
  PROVE  Ring(f, n, get, 0) = <<>>
  BY DEF Ring

\* The mode of an interface whose port was opened, or failed to, before.
LEMMA StepAgain ==
  ASSUME ConstantsOK, IInv, NEW p \in Port, Idle, UNCHANGED <<nic, call>>,
         NEW i, i = TRUE, NEW t \in BOOLEAN, NEW r \in BOOLEAN,
         drv' = [drv EXCEPT !.mode[p] = "Initialized", !.Initialized[p] = i,
                            !.Txqs[p] = t, !.Rxqs[p] = r],
         \/ drv.Initialized[p] /\ hist' = hist /\ t = drv.Txqs[p] /\ r = drv.Rxqs[p]
         \/ ~drv.Initialized[p] /\ hist' = [hist EXCEPT !.failed[p] = TRUE, !.faults = @ + 1]
  PROVE  IInv'
<1>1. /\ drv' \in Drivers /\ drv'.mode = [drv.mode EXCEPT ![p] = "Initialized"]
      /\ drv'.Initialized = [drv.Initialized EXCEPT ![p] = TRUE]
      /\ drv'.LateInitialized = drv.LateInitialized
      /\ drv'.Txqs = [drv.Txqs EXCEPT ![p] = t] /\ drv'.Rxqs = [drv.Rxqs EXCEPT ![p] = r]
      /\ drv'.CompletionQueue = drv.CompletionQueue /\ drv'.RxNextDesc = drv.RxNextDesc
      /\ drv'.AggrNextDesc = drv.AggrNextDesc
  BY DEF IInv, Types, Drivers, Rank
<1>2. /\ hist' \in Histories
      /\ hist'.tx = hist.tx /\ hist'.rx = hist.rx
      /\ hist'.good = hist.good /\ hist'.got = hist.got /\ hist'.sent = hist.sent
      /\ hist'.queued = hist.queued /\ hist'.late = hist.late
      /\ hist'.skewed = hist.skewed /\ hist'.moved = hist.moved
      /\ hist'.overrun = hist.overrun
      /\ \A q \in Port : hist.failed[q] => hist'.failed[q]
      /\ drv.Initialized[p] \/ hist'.failed[p]
  <2>1. CASE drv.Initialized[p] /\ hist' = hist BY <2>1 DEF IInv, Types
  <2>2. CASE hist' = [hist EXCEPT !.failed[p] = TRUE, !.faults = @ + 1]
    <3>1. hist.failed \in [Port -> BOOLEAN] BY HistFields DEF IInv
    <3>3. PICK n \in Nat : n = hist.faults + 1 BY HistFields DEF IInv
    <3>4. hist' = [hist EXCEPT !.failed[p] = TRUE, !.faults = n] BY <2>2, <3>3
    <3>2. /\ hist' \in Histories
          /\ hist'.tx = hist.tx /\ hist'.rx = hist.rx
          /\ hist'.good = hist.good /\ hist'.got = hist.got /\ hist'.sent = hist.sent
          /\ hist'.queued = hist.queued /\ hist'.late = hist.late
          /\ hist'.skewed = hist.skewed /\ hist'.moved = hist.moved
          /\ hist'.overrun = hist.overrun
          /\ hist'.failed = [hist.failed EXCEPT ![p] = TRUE]
      BY <3>1, <3>4, HistFields DEF IInv, Histories
    <3> QED BY <3>1, <3>2
  <2> QED BY <2>1, <2>2
<1>6. \A q \in Port : drv.Initialized[q] => drv'.Initialized[q] BY <1>1, DrvFields DEF IInv
<1>3. SameCall /\ SameSending /\ SameReceiving /\ SameQueues
  BY <1>1, <1>2, <1>6 DEF SameCall, SameSending, SameReceiving, SameQueues
<1>4. Types' BY <1>1, <1>2 DEF IInv, Types
<1>5. ClientPart'
  <2>1. \A q \in Port : q # p => /\ drv'.mode[q] = drv.mode[q]
                                 /\ drv'.Initialized[q] = drv.Initialized[q]
                                 /\ drv'.Txqs[q] = drv.Txqs[q] /\ drv'.Rxqs[q] = drv.Rxqs[q]
    BY <1>1, DrvFields DEF IInv
  <2>2. drv'.mode[p] = "Initialized" /\ drv'.Initialized[p] BY <1>1, DrvFields DEF IInv
  <2>3. ASSUME NEW q \in Port
        PROVE  /\ drv'.mode[q] = "Initialized" => drv'.Initialized[q]
               /\ drv'.Initialized[q] => drv'.LateInitialized[q] \/ hist'.failed[q]
    BY <1>1, <1>2, <2>1, <2>2 DEF IInv, ClientPart
  <2>4. drv.LateInitialized[p] => drv'.Txqs[p] /\ drv'.Rxqs[p]
    BY <1>1, DrvFields DEF IInv, ClientPart
  <2>5. ASSUME NEW q \in Port, drv'.LateInitialized[q]
        PROVE  drv'.Initialized[q] /\ drv'.Txqs[q] /\ drv'.Rxqs[q]
    BY <1>1, <2>1, <2>2, <2>4, <2>5 DEF IInv, ClientPart
  <2> QED BY <1>1, <1>2, <2>3, <2>5 DEF IInv, ClientPart, CrashesUnopened, Sending, Idle
<1> QED BY <1>3, <1>4, <1>5, SendStays, CompletionStays, ReceiveStays DEF IInv, SameCall

\* A port is opened: the shared queue's index is where the hardware is.
LEMMA StepOpen ==
  ASSUME ConstantsOK, IInv, NEW p \in Port, Idle, ~drv.Initialized[p],
         ~drv.LateInitialized[p], Pp2DxeOpen(p),
         UNCHANGED call
  PROVE  IInv'
<1> USE DEF IInv
<1>1. /\ drv' \in Drivers /\ drv'.mode = [drv.mode EXCEPT ![p] = "Initialized"]
      /\ drv'.Initialized = [drv.Initialized EXCEPT ![p] = TRUE]
      /\ drv'.LateInitialized = [drv.LateInitialized EXCEPT ![p] = TRUE]
      /\ drv'.Txqs = [drv.Txqs EXCEPT ![p] = TRUE] /\ drv'.Rxqs = [drv.Rxqs EXCEPT ![p] = TRUE]
      /\ drv'.CompletionQueue = drv.CompletionQueue /\ drv'.RxNextDesc = drv.RxNextDesc
      /\ drv'.AggrNextDesc = nic.aggrGet
  BY NicFields DEF Pp2DxeOpen, Mvpp2AggrTxqHwInit, Types, Drivers, Rank
<1>2. /\ nic' \in Nics /\ nic'.aggr = nic.aggr /\ nic'.aggrGet = nic.aggrGet
      /\ nic'.aggrPend = nic.aggrPend /\ nic'.txq = [nic.txq EXCEPT ![p] = <<>>]
      /\ nic'.sent = nic.sent /\ nic'.pool = nic.pool /\ nic'.data = nic.data
      /\ nic'.descs = nic.descs
      /\ nic'.rxPut = [nic.rxPut EXCEPT ![p] = 0]
      /\ nic'.occupied = [nic.occupied EXCEPT ![p] = 0]
      /\ nic'.free = [nic.free EXCEPT ![p] = MVPP2_MAX_RXD]
  <2>1. <<>> \in Seq(Nat) /\ 0 \in RxIdx /\ MVPP2_MAX_RXD \in Nat BY Sizes
  <2> QED BY <2>1 DEF Pp2DxeOpen, Mvpp2TxqHwInit, Mvpp2RxqHwInit, Types, Nics
<1>3. /\ hist' \in Histories /\ hist'.tx = hist.tx /\ hist'.rx = hist.rx
      /\ hist'.good = hist.good /\ hist'.got = hist.got /\ hist'.sent = hist.sent
      /\ hist'.queued = hist.queued /\ hist'.late = hist.late /\ hist'.skewed = hist.skewed
      /\ hist'.failed = hist.failed /\ hist'.overrun = hist.overrun
      /\ hist'.moved = (hist.moved \/ nic.aggrPend > 0)
  BY DEF Pp2DxeOpen, Types, Histories
<1>4. call' = call /\ call.pc = "idle" BY DEF Idle
<1>5. Types' BY <1>1, <1>2, <1>3, <1>4 DEF Types
<1>6. /\ drv'.mode[p] = "Initialized" /\ drv'.Initialized[p] /\ drv'.LateInitialized[p]
      /\ \A q \in Port : q # p => /\ drv'.mode[q] = drv.mode[q]
                                  /\ drv'.Initialized[q] = drv.Initialized[q]
                                  /\ drv'.LateInitialized[q] = drv.LateInitialized[q]
                                  /\ drv'.Txqs[q] = drv.Txqs[q] /\ drv'.Rxqs[q] = drv.Rxqs[q]
      /\ drv'.Txqs[p] /\ drv'.Rxqs[p]
      /\ \A q \in Port : drv.Initialized[q] => drv'.Initialized[q]
      /\ \A q \in Port : drv.LateInitialized[q] => drv'.LateInitialized[q]
  BY <1>1, DrvFields
<1>7. ClientPart'
  <2>1. ASSUME NEW q \in Port
        PROVE  /\ drv'.mode[q] = "Initialized" => drv'.Initialized[q]
               /\ drv'.Initialized[q] => drv'.LateInitialized[q] \/ hist'.failed[q]
               /\ drv'.LateInitialized[q] =>
                    drv'.Initialized[q] /\ drv'.Txqs[q] /\ drv'.Rxqs[q]
    BY <1>3, <1>6 DEF ClientPart
  <2> QED BY <1>1, <1>3, <1>4, <2>1 DEF ClientPart, CrashesUnopened, Sending
<1>8. ASSUME ~Overwritten'
      PROVE  /\ ~Overwritten /\ nic.aggrPend = 0 /\ nic'.txq = nic.txq
             /\ drv'.AggrNextDesc = (nic.aggrGet + nic.aggrPend) % MVPP2_AGGR_TXQ_SIZE
  <2>5. ~hist.moved /\ ~hist.overrun /\ ~(nic.aggrPend > 0) BY <1>3, <1>8 DEF Overwritten
  <2>6. nic.aggrPend \in Nat BY NicFields
  <2>1. ~Overwritten /\ nic.aggrPend = 0 BY <2>5, <2>6 DEF Overwritten
  <2>2. nic.txq[p] = <<>> BY <1>4, <2>1 DEF SendPart
  <2>7. nic.txq \in [Port -> Seq(Nat)] BY NicFields
  <2>8. PICK f \in [Port -> Seq(Nat)] : f = nic.txq BY <2>7
  <2>9. [f EXCEPT ![p] = <<>>] = f BY <2>2, <2>8
  <2>3. nic'.txq = nic.txq BY <1>2, <2>8, <2>9
  <2>4. (nic.aggrGet + 0) % MVPP2_AGGR_TXQ_SIZE = nic.aggrGet
    <3>1. MVPP2_AGGR_TXQ_SIZE \in Nat \ {0} /\ nic.aggrGet \in 0 .. MVPP2_AGGR_TXQ_SIZE - 1
      BY Sizes, NicFields
    <3>2. Settled(MVPP2_AGGR_TXQ_SIZE, nic.aggrGet) BY <3>1, SettledIndex
    <3> QED BY <3>2 DEF Settled
  <2> QED BY <1>1, <2>1, <2>3, <2>4
<1>9. SendPart'
  <2>1. CASE Overwritten' BY <1>3, <2>1 DEF SendPart
  <2>2. CASE ~Overwritten'
    <3>1. Pend(nic') = Pend(nic) BY <1>2 DEF Pend
    <3> QED BY <1>2, <1>3, <1>4, <1>6, <1>8, <2>2, <3>1, PendType DEF SendPart
  <2> QED BY <2>1, <2>2
<1>10. CompletionPart'
  <2> SUFFICES ASSUME ~Overwritten' PROVE CompletionPart' BY DEF CompletionPart
  <2>1. Pend(nic') = Pend(nic) BY <1>2 DEF Pend
  <2> QED BY <1>1, <1>2, <1>3, <1>4, <1>8, <2>1 DEF CompletionPart, Active, Sending
<1>11. /\ drv'.RxNextDesc[p] = 0 /\ nic'.rxPut[p] = 0 /\ nic'.occupied[p] = 0
       /\ nic'.free[p] = MVPP2_MAX_RXD /\ hist'.got[p] = <<>> /\ hist'.good[p] = {}
       /\ \A q \in Port : q # p => /\ nic'.occupied[q] = nic.occupied[q]
                                   /\ nic'.free[q] = nic.free[q]
  BY <1>1, <1>2, <1>3, NicFields, DrvFields DEF ReceivePart, Fresh
<1>12. ReceivePart'
  <2>1. ASSUME NEW q \in Port, ~drv'.LateInitialized[q]
        PROVE  Fresh(drv', nic', hist', q)
    <3>1. q # p /\ ~drv.LateInitialized[q] BY <1>6, <2>1
    <3>2. Fresh(drv, nic, hist, q) BY <3>1 DEF ReceivePart
    <3> QED BY <1>1, <1>3, <1>11, <3>1, <3>2 DEF Fresh
  <2>2. ASSUME Alone(drv'), NEW q \in Port, drv'.LateInitialized[q]
        PROVE  InUse(drv', nic', hist', q)
    <3>1. q = p /\ \A r \in Port : ~drv.LateInitialized[r] BY <1>6, <2>2 DEF Alone
    <3>2. Stocked(<<>>, nic.pool) BY <3>1 DEF ReceivePart
    <3>3. Came(drv', nic', p) = <<>> BY <1>11, EmptyRing DEF Came
    <3>4. 0 + 0 = 0 /\ 0 % MVPP2_MAX_RXD = 0 /\ MVPP2_MAX_RXD + 0 = MVPP2_MAX_RXD
      BY Sizes, Remainders
    <3>5. Arrivals(<<>>, nic'.data, hist'.got[p], hist'.good[p], hist'.rx)
      BY <1>11 DEF Arrivals, Ascending
    <3> QED BY <1>2, <1>11, <3>1, <3>2, <3>3, <3>4, <3>5 DEF InUse
  <2>3. ~\A q \in Port : ~drv'.LateInitialized[q] BY <1>6
  <2> QED BY <2>1, <2>2, <2>3 DEF ReceivePart
<1> QED BY <1>5, <1>7, <1>9, <1>10, <1>12

LEMMA StepInitialize ==
  ASSUME ConstantsOK, IInv, NEW p \in Port, Pp2DxeSnpInitialize(p)
  PROVE  IInv'
<1>1. CASE drv.Initialized[p] /\ drv' = [drv EXCEPT !.mode[p] = "Initialized"]
            /\ UNCHANGED <<nic, hist>>
  <2>1. PICK t \in BOOLEAN, r \in BOOLEAN : t = drv.Txqs[p] /\ r = drv.Rxqs[p]
    BY DrvFields DEF IInv
  <2>2. drv' = [drv EXCEPT !.mode[p] = "Initialized", !.Initialized[p] = TRUE,
                           !.Txqs[p] = t, !.Rxqs[p] = r]
    <3>1. /\ [drv.Initialized EXCEPT ![p] = TRUE] = drv.Initialized
          /\ [drv.Txqs EXCEPT ![p] = t] = drv.Txqs /\ [drv.Rxqs EXCEPT ![p] = r] = drv.Rxqs
      BY <1>1, <2>1, DrvFields DEF IInv
    <3> QED BY <1>1, <2>1, <3>1, DrvFields DEF IInv, Drivers
  <2> QED BY <1>1, <2>1, <2>2, StepAgain DEF Pp2DxeSnpInitialize
<1>2. CASE ~drv.Initialized[p] /\ Pp2DxeLateInitialize(p)
  BY <1>2, StepOpen DEF Pp2DxeSnpInitialize, Pp2DxeLateInitialize
<1>3. CASE /\ ~drv.Initialized[p]
           /\ \E t, r \in BOOLEAN :
                drv' = [drv EXCEPT !.mode[p] = "Initialized", !.Initialized[p] = TRUE,
                                   !.Txqs[p] = t, !.Rxqs[p] = r]
           /\ hist' = [hist EXCEPT !.failed[p] = TRUE, !.faults = @ + 1]
           /\ UNCHANGED nic
  BY <1>3, StepAgain DEF Pp2DxeSnpInitialize
<1> QED BY <1>1, <1>2, <1>3 DEF Pp2DxeSnpInitialize

(* ------------------------------ transmit ------------------------------- *)

LEMMA StepAsserts ==
  ASSUME ConstantsOK, IInv, NEW p \in Port, ReceiveAsserts(p)
  PROVE  IInv'
<1>1. /\ drv' = drv /\ nic' = nic /\ hist' = hist
      /\ call.pc = "idle" /\ call' = [NoCall EXCEPT !.pc = "crash", !.port = p]
      /\ ~drv.Rxqs[p]
  BY DEF ReceiveAsserts, Idle
<1>2. call'.pc = "crash" /\ call'.port = p /\ call'.buf = 0 /\ call' \in Calls
  BY <1>1 DEF NoCall, Calls
<1>3. SamePorts /\ SameSending /\ SameReceiving /\ SameQueues
  BY <1>1 DEF SamePorts, SameSending, SameReceiving, SameQueues
<1>4. Types' BY <1>1, <1>2 DEF IInv, Types
<1>5. ~drv.LateInitialized[p] BY <1>1 DEF IInv, ClientPart
<1>6. ClientPart' BY <1>1, <1>2, <1>5 DEF IInv, ClientPart, CrashesUnopened, Sending
<1>7. SendPart' BY <1>1, <1>3, SendStays DEF IInv
<1>8. CompletionPart' BY <1>1, <1>2 DEF IInv, CompletionPart, Overwritten, Active, Sending
<1> QED BY <1>3, <1>4, <1>6, <1>7, <1>8, ReceiveStays DEF IInv

LEMMA StepPollAggr ==
  ASSUME ConstantsOK, IInv, PollAggr
  PROVE  IInv'
<1>1. /\ drv' = drv /\ nic' = nic /\ hist' = hist
      /\ call.pc = "aggr"
      /\ call' = [call EXCEPT !.pc = IF drv.Txqs[call.port] THEN "sent" ELSE "crash"]
  BY DEF PollAggr
<1>2. /\ call'.port = call.port /\ call'.buf = call.buf /\ call' \in Calls
      /\ call'.pc = IF drv.Txqs[call.port] THEN "sent" ELSE "crash"
  BY <1>1, CallFields DEF IInv, Calls
<1>8. /\ Sending(call) /\ call.port \in Port
      /\ ~drv.Txqs[call.port] => ~drv.LateInitialized[call.port] /\ hist.failed[call.port]
  BY <1>1 DEF IInv, ClientPart, Sending
<1>3. SamePorts /\ SameSending /\ SameReceiving /\ SameQueues
  BY <1>1 DEF SamePorts, SameSending, SameReceiving, SameQueues
<1>4. Types' BY <1>1, <1>2 DEF IInv, Types
<1>5. ClientPart' BY <1>1, <1>2, <1>8 DEF IInv, ClientPart, CrashesUnopened, Sending
<1>6. SendPart' BY <1>1, <1>3, SendStays DEF IInv
<1>7. CompletionPart' BY <1>1, <1>2 DEF IInv, CompletionPart, Overwritten, Active, Sending
<1> QED BY <1>3, <1>4, <1>5, <1>6, <1>7, ReceiveStays DEF IInv

\* What can become of a completion queue.
LEMMA InsertFacts ==
  ASSUME ConstantsOK, NEW q \in Seq(Nat), NEW b \in Nat, Len(q) < QUEUE_DEPTH, Ascending(q),
         \A i \in DOMAIN q : q[i] < b
  PROVE  /\ QueueInsert(q, b) \in Seq(Nat) /\ Len(QueueInsert(q, b)) < QUEUE_DEPTH
         /\ Ascending(QueueInsert(q, b))
         /\ \A i \in DOMAIN QueueInsert(q, b) :
              \/ QueueInsert(q, b)[i] = b
              \/ \E j \in DOMAIN q : QueueInsert(q, b)[i] = q[j]
<1>1. CASE Len(q) = QUEUE_DEPTH - 1 BY <1>1 DEF QueueInsert
<1>2. CASE Len(q) # QUEUE_DEPTH - 1
  <2>1. QueueInsert(q, b) = Append(q, b) BY <1>2 DEF QueueInsert
  <2>2. Ascending(Append(q, b)) BY AscendingAppend
  <2>3. Len(q) \in Nat /\ QUEUE_DEPTH \in Nat /\ Len(q) + 1 < QUEUE_DEPTH BY <1>2, Sizes
  <2>4. Len(Append(q, b)) = Len(q) + 1 OBVIOUS
  <2>5. \A i \in DOMAIN Append(q, b) : Append(q, b)[i] = b \/ \E j \in DOMAIN q : Append(q, b)[i] = q[j]
    BY AppendFacts
  <2> QED BY <2>1, <2>2, <2>3, <2>4, <2>5, AppendFacts
<1> QED BY <1>1, <1>2

LEMMA RemoveFacts ==
  ASSUME NEW q \in Seq(Nat), Ascending(q)
  PROVE  /\ QueueRemove(q) \in Seq(Nat) /\ Len(QueueRemove(q)) <= Len(q)
         /\ Ascending(QueueRemove(q))
         /\ \A i \in DOMAIN QueueRemove(q) : \E j \in DOMAIN q : QueueRemove(q)[i] = q[j]
<1>1. CASE q = <<>> BY <1>1 DEF QueueRemove
<1>2. CASE q # <<>>
  <2>1. QueueRemove(q) = Tail(q) BY <1>2 DEF QueueRemove
  <2>2. Len(Tail(q)) = Len(q) - 1 /\ Len(q) \in Nat BY <1>2, HeadTailProperties
  <2>3. Ascending(Tail(q)) BY <1>2, AscendingTail
  <2>4. \A i \in DOMAIN Tail(q) : \E j \in DOMAIN q : Tail(q)[i] = q[j] BY <1>2, TailFacts
  <2> QED BY <1>2, <2>1, <2>2, <2>3, <2>4, TailFacts
<1> QED BY <1>1, <1>2

LEMMA StepPollSent ==
  ASSUME ConstantsOK, IInv, PollSent
  PROVE  IInv'
<1> USE DEF IInv
<1>1. /\ call.pc = "sent" /\ hist' = hist /\ call' = NoCall
      /\ nic' = [nic EXCEPT !.sent[call.port] = 0] /\ nic.sent[call.port] > 0
      /\ drv' = [drv EXCEPT !.CompletionQueue[call.port] = QueueInsert(@, call.buf)]
  BY DEF PollSent
<1>2. PICK p \in Port : p = call.port /\ call.buf = hist.tx BY <1>1 DEF ClientPart, Sending
<1>3. PICK q \in Seq(Nat) : q = drv.CompletionQueue[p] BY DrvFields
<1>4. PICK b \in Nat : b = call.buf BY CallFields
<1>5. /\ Len(q) < QUEUE_DEPTH /\ Ascending(q) /\ \A i \in DOMAIN q : q[i] < b
  BY <1>1, <1>2, <1>3, <1>4 DEF ClientPart, Sending
<1>6. PICK r : r = QueueInsert(q, b) OBVIOUS
<1>7. /\ r \in Seq(Nat) /\ Len(r) < QUEUE_DEPTH /\ Ascending(r)
      /\ \A i \in DOMAIN r : r[i] = b \/ \E j \in DOMAIN q : r[i] = q[j]
  BY <1>5, <1>6, InsertFacts
<1>8. /\ drv' \in Drivers /\ drv'.mode = drv.mode
      /\ drv'.Initialized = drv.Initialized /\ drv'.LateInitialized = drv.LateInitialized
      /\ drv'.Txqs = drv.Txqs /\ drv'.Rxqs = drv.Rxqs
      /\ drv'.CompletionQueue = [drv.CompletionQueue EXCEPT ![p] = r]
      /\ drv'.RxNextDesc = drv.RxNextDesc /\ drv'.AggrNextDesc = drv.AggrNextDesc
  <2>1. drv' = [drv EXCEPT !.CompletionQueue[p] = r] BY <1>1, <1>2, <1>3, <1>4, <1>6
  <2> QED BY <1>7, <2>1, DrvFields DEF Drivers
<1>9. /\ nic' \in Nics /\ nic'.aggr = nic.aggr /\ nic'.aggrGet = nic.aggrGet
      /\ nic'.aggrPend = nic.aggrPend /\ nic'.txq = nic.txq
      /\ nic'.sent = [nic.sent EXCEPT ![p] = 0] /\ nic'.pool = nic.pool
      /\ nic'.data = nic.data /\ nic'.descs = nic.descs /\ nic'.rxPut = nic.rxPut
      /\ nic'.occupied = nic.occupied /\ nic'.free = nic.free
  BY <1>1, <1>2, NicFields DEF Nics
<1>10. call' \in Calls /\ call'.pc = "idle" BY <1>1 DEF NoCall, Calls
<1>11. SamePorts /\ SameSending /\ SameReceiving
  BY <1>1, <1>8, <1>9 DEF SamePorts, SameSending, SameReceiving
<1>12. Types' BY <1>1, <1>8, <1>9, <1>10 DEF Types
<1>13. /\ drv'.CompletionQueue[p] = r
       /\ \A x \in Port : x # p => drv'.CompletionQueue[x] = drv.CompletionQueue[x]
                                   /\ nic'.sent[x] = nic.sent[x]
       /\ nic'.sent[p] = 0
  BY <1>8, <1>9, DrvFields, NicFields
<1>14. ClientPart'
  <2>1. ASSUME NEW i \in DOMAIN r PROVE r[i] <= hist.tx
    <3>1. CASE r[i] = b BY <1>2, <1>4, <3>1
    <3>2. CASE \E j \in DOMAIN q : r[i] = q[j] BY <1>3, <3>2 DEF ClientPart
    <3> QED BY <1>7, <3>1, <3>2
  <2>2. \A x \in Port : /\ Len(drv'.CompletionQueue[x]) < QUEUE_DEPTH
                        /\ Ascending(drv'.CompletionQueue[x])
                        /\ \A i \in DOMAIN drv'.CompletionQueue[x] :
                             drv'.CompletionQueue[x][i] <= hist.tx
    BY <1>7, <1>13, <2>1 DEF ClientPart
  <2> QED BY <1>1, <1>8, <1>10, <2>2 DEF ClientPart, CrashesUnopened, Sending
<1>15. SendPart' BY <1>1, <1>11, SendStays
<1>16. CompletionPart'
  <2> SUFFICES ASSUME ~Overwritten, NEW x \in Port, ~hist.late[x]
               PROVE  /\ \A i \in DOMAIN drv'.CompletionQueue[x] :
                           drv'.CompletionQueue[x][i] \in Members(hist.sent)
                      /\ \A i \in DOMAIN Pend(nic) : Pend(nic)[i].port # x
                      /\ \A i \in DOMAIN nic.txq[x] : FALSE
                      /\ ~(nic'.sent[x] > 0)
    <3>1. Pend(nic') = Pend(nic) BY <1>9 DEF Pend
    <3> QED BY <1>1, <1>9, <3>1 DEF CompletionPart, Overwritten
  <2>1. CASE x = p
    <3>1. b \in Members(hist.sent) BY <1>1, <1>2, <1>4, <2>1 DEF CompletionPart
    <3>2. PICK k \in DOMAIN hist.sent : hist.sent[k] = b BY <3>1 DEF Members
    <3>3. Apart(Pend(nic), nic.txq, hist.sent) BY <1>1 DEF SendPart
    <3>4. \A i \in DOMAIN Pend(nic) : Pend(nic)[i].port # x
      BY <1>1, <1>2, <1>4, <2>1, <3>2, <3>3 DEF CompletionPart, Apart
    <3>6. \A i \in DOMAIN nic.txq[x] : FALSE
      BY <1>1, <1>2, <1>4, <2>1, <3>2, <3>3 DEF CompletionPart, Apart
    <3>8. \A i \in DOMAIN r : r[i] \in Members(hist.sent)
      BY <1>3, <1>7, <2>1, <3>1 DEF CompletionPart
    <3> QED BY <1>13, <2>1, <3>4, <3>6, <3>8
  <2>2. CASE x # p
    <3>1. ~Active(call, x) BY <1>2, <2>2 DEF Active
    <3> QED BY <1>1, <1>13, <2>2, <3>1 DEF CompletionPart
  <2> QED BY <2>1, <2>2
<1> QED BY <1>11, <1>12, <1>14, <1>15, <1>16, ReceiveStays

LEMMA StepPollTimeout ==
  ASSUME ConstantsOK, IInv, PollTimeout
  PROVE  IInv'
<1> USE DEF IInv
<1>1. /\ call.pc \in {"aggr", "sent"} /\ call' = NoCall /\ drv' = drv /\ nic' = nic
      /\ hist' = [hist EXCEPT !.late[call.port] = TRUE]
  BY DEF PollTimeout
<1>2. PICK p \in Port : p = call.port BY <1>1 DEF ClientPart, Sending
<1>3. /\ hist' \in Histories /\ hist'.tx = hist.tx /\ hist'.rx = hist.rx
      /\ hist'.good = hist.good /\ hist'.got = hist.got /\ hist'.sent = hist.sent
      /\ hist'.queued = hist.queued /\ hist'.late = [hist.late EXCEPT ![p] = TRUE]
      /\ hist'.skewed = hist.skewed /\ hist'.failed = hist.failed
      /\ hist'.moved = hist.moved /\ hist'.overrun = hist.overrun
  BY <1>1, <1>2, HistFields DEF Histories
<1>4. call' \in Calls /\ call'.pc = "idle" BY <1>1 DEF NoCall, Calls
<1>5. SamePorts /\ SameSending /\ SameReceiving
  BY <1>1, <1>3 DEF SamePorts, SameSending, SameReceiving
<1>6. Types' BY <1>1, <1>3, <1>4 DEF Types
<1>7. ClientPart' BY <1>1, <1>3, <1>4 DEF ClientPart, CrashesUnopened, Sending
<1>8. SendPart' BY <1>1, <1>5, SendStays
<1>9. CompletionPart'
  <2>1. \A x \in Port : ~hist'.late[x] => ~hist.late[x] /\ ~Active(call, x)
    BY <1>2, <1>3, HistFields DEF Active
  <2> QED BY <1>1, <1>3, <1>4, <2>1 DEF CompletionPart, Overwritten
<1> QED BY <1>5, <1>6, <1>7, <1>8, <1>9, ReceiveStays

LEMMA StepGetStatus ==
  ASSUME ConstantsOK, IInv, NEW p \in Port, Pp2SnpGetStatus(p)
  PROVE  IInv'
<1> USE DEF IInv
<1>1. PICK up \in BOOLEAN :
        drv' = [drv EXCEPT !.MediaPresent[p] = up, !.CompletionQueue[p] = QueueRemove(@)]
  <2>1. hist.max.link \subseteq BOOLEAN BY HistFields DEF ConstantsOK
  <2> QED BY <2>1 DEF Pp2SnpGetStatus
<1>2. call.pc = "idle" /\ call' = call /\ nic' = nic /\ hist' = hist BY DEF Pp2SnpGetStatus, Idle
<1>3. PICK q \in Seq(Nat) : q = drv.CompletionQueue[p] BY DrvFields
<1>4. Len(q) < QUEUE_DEPTH /\ Ascending(q) BY <1>3 DEF ClientPart
<1>5. PICK r : r = QueueRemove(q) OBVIOUS
<1>6. /\ r \in Seq(Nat) /\ Len(r) <= Len(q) /\ Ascending(r)
      /\ \A i \in DOMAIN r : \E j \in DOMAIN q : r[i] = q[j]
  BY <1>4, <1>5, RemoveFacts
<1>7. /\ drv' \in Drivers /\ drv'.mode = drv.mode
      /\ drv'.Initialized = drv.Initialized /\ drv'.LateInitialized = drv.LateInitialized
      /\ drv'.Txqs = drv.Txqs /\ drv'.Rxqs = drv.Rxqs
      /\ drv'.CompletionQueue = [drv.CompletionQueue EXCEPT ![p] = r]
      /\ drv'.RxNextDesc = drv.RxNextDesc /\ drv'.AggrNextDesc = drv.AggrNextDesc
  <2>1. drv' = [drv EXCEPT !.MediaPresent[p] = up, !.CompletionQueue[p] = r]
    BY <1>1, <1>3, <1>5
  <2> QED BY <1>6, <2>1, DrvFields DEF Drivers
<1>8. SamePorts /\ SameSending /\ SameReceiving
  BY <1>2, <1>7 DEF SamePorts, SameSending, SameReceiving
<1>9. Types' BY <1>2, <1>7 DEF Types
<1>10. /\ drv'.CompletionQueue[p] = r
       /\ \A x \in Port : x # p => drv'.CompletionQueue[x] = drv.CompletionQueue[x]
  BY <1>7, DrvFields
<1>11. ClientPart'
  <2>1. \A i \in DOMAIN r : r[i] <= hist.tx BY <1>3, <1>6 DEF ClientPart
  <2>2. Len(r) < QUEUE_DEPTH
    <3>1. Len(r) \in Nat /\ Len(q) \in Nat /\ QUEUE_DEPTH \in Nat BY <1>6, Sizes
    <3> QED BY <1>4, <1>6, <3>1
  <2>3. \A x \in Port : /\ Len(drv'.CompletionQueue[x]) < QUEUE_DEPTH
                        /\ Ascending(drv'.CompletionQueue[x])
                        /\ \A i \in DOMAIN drv'.CompletionQueue[x] :
                             drv'.CompletionQueue[x][i] <= hist.tx
    BY <1>6, <1>10, <2>1, <2>2 DEF ClientPart
  <2> QED BY <1>2, <1>7, <2>3 DEF ClientPart, CrashesUnopened, Sending
<1>12. SendPart' BY <1>2, <1>8, SendStays
<1>13. CompletionPart'
  <2>1. ASSUME ~Overwritten, ~hist.late[p]
        PROVE  \A i \in DOMAIN r : r[i] \in Members(hist.sent)
    BY <1>3, <1>6, <2>1 DEF CompletionPart
  <2>2. ASSUME ~Overwritten, NEW x \in Port, ~hist.late[x]
        PROVE  \A i \in DOMAIN drv'.CompletionQueue[x] :
                 drv'.CompletionQueue[x][i] \in Members(hist.sent)
    BY <1>10, <2>1, <2>2 DEF CompletionPart
  <2> QED BY <1>2, <2>2 DEF CompletionPart, Overwritten
<1> QED BY <1>8, <1>9, <1>11, <1>12, <1>13, ReceiveStays

(* ------------------- where the packets are, step by step --------------- *)

\* A packet nobody has yet is put in the shared queue.
LEMMA PlaceAppend ==
  ASSUME NEW pend \in Seq(Txds), NEW txq \in [Port -> Seq(Nat)], NEW sent \in Seq(Nat),
         NEW e \in Txds, Apart(pend, txq, sent), ~Somewhere(e.buf, pend, txq, sent)
  PROVE  /\ Apart(Append(pend, e), txq, sent)
         /\ \A b \in Nat : Somewhere(b, Append(pend, e), txq, sent) <=>
                             b = e.buf \/ Somewhere(b, pend, txq, sent)
<1>1. PICK q : q = Append(pend, e) OBVIOUS
<1>2. PICK n : n = Len(pend) + 1 OBVIOUS
<1>3. /\ DOMAIN q = DOMAIN pend \cup {n} /\ n \notin DOMAIN pend /\ q[n] = e
      /\ \A i \in DOMAIN pend : q[i] = pend[i]
  BY <1>1, <1>2, AppendFacts
<1>4. \A i, j \in DOMAIN q : q[i].buf = q[j].buf => i = j
  BY <1>3 DEF Apart, Somewhere
<1>5. \A i \in DOMAIN q : \A p \in Port : \A j \in DOMAIN txq[p] : q[i].buf # txq[p][j]
  BY <1>3 DEF Apart, Somewhere
<1>6. \A i \in DOMAIN q : \A j \in DOMAIN sent : q[i].buf # sent[j]
  BY <1>3 DEF Apart, Somewhere
<1>7. Apart(q, txq, sent) BY <1>4, <1>5, <1>6 DEF Apart
<1>8. ASSUME NEW b \in Nat
      PROVE  Somewhere(b, q, txq, sent) <=> b = e.buf \/ Somewhere(b, pend, txq, sent)
  <2>1. (\E i \in DOMAIN q : q[i].buf = b) <=> b = e.buf \/ \E i \in DOMAIN pend : pend[i].buf = b
    BY <1>3
  <2> QED BY <2>1 DEF Somewhere
<1> QED BY <1>1, <1>7, <1>8

\* The first packet of the shared queue moves to the queue of its port.
Moved(txq, d) == [txq EXCEPT ![d.port] = Append(@, d.buf)]
LEMMA PlaceMove ==
  ASSUME NEW pend \in Seq(Txds), pend # <<>>, NEW txq \in [Port -> Seq(Nat)],
         NEW sent \in Seq(Nat), NEW d \in Txds, d = Head(pend), d.port \in Port,
         Apart(pend, txq, sent)
  PROVE  /\ Moved(txq, d) \in [Port -> Seq(Nat)]
         /\ Apart(Tail(pend), Moved(txq, d), sent)
         /\ \A b \in Nat : Somewhere(b, Tail(pend), Moved(txq, d), sent) <=>
                             Somewhere(b, pend, txq, sent)
<1>1. PICK t : t = Tail(pend) OBVIOUS
<1>2. PICK D \in Port : D = d.port OBVIOUS
<1>3. PICK c \in Nat : c = d.buf BY DEF Txds
<1>4. PICK old \in Seq(Nat) : old = txq[D] OBVIOUS
<1>5. PICK new : new = Append(old, c) OBVIOUS
<1>6. PICK n : n = Len(old) + 1 OBVIOUS
<1>7. PICK T : T = Moved(txq, d) OBVIOUS
<1>8. /\ new \in Seq(Nat) /\ DOMAIN new = DOMAIN old \cup {n} /\ n \notin DOMAIN old
      /\ new[n] = c /\ \A i \in DOMAIN old : new[i] = old[i]
  BY <1>5, <1>6, AppendFacts
<1>9. /\ T \in [Port -> Seq(Nat)] /\ T[D] = new /\ \A x \in Port : x # D => T[x] = txq[x]
  BY <1>2, <1>3, <1>4, <1>5, <1>7, <1>8 DEF Moved
<1>10. /\ d = pend[1] /\ 1 \in DOMAIN pend /\ t \in Seq(Txds)
       /\ \A i \in DOMAIN t : i + 1 \in DOMAIN pend /\ t[i] = pend[i + 1]
       /\ \A i \in DOMAIN pend : i # 1 => i - 1 \in DOMAIN t /\ t[i - 1] = pend[i]
  BY <1>1, TailFacts
<1>11. \A i \in DOMAIN t : i \in Nat /\ i + 1 # 1
  <2>1. \A i \in DOMAIN t : i \in Nat /\ i >= 1 BY <1>10
  <2> QED BY <2>1
<1>12. c = pend[1].buf BY <1>3, <1>10
<1>13. \A i, j \in DOMAIN t : t[i].buf = t[j].buf => i = j
  <2> SUFFICES ASSUME NEW i \in DOMAIN t, NEW j \in DOMAIN t, t[i].buf = t[j].buf PROVE i = j
    OBVIOUS
  <2>1. i + 1 = j + 1 BY <1>10 DEF Apart
  <2> QED BY <1>11, <2>1
<1>14. ASSUME NEW i \in DOMAIN t PROVE t[i].buf # c
  <2>1. i + 1 \in DOMAIN pend /\ i + 1 # 1 /\ t[i] = pend[i + 1] BY <1>10, <1>11
  <2>2. PICK k \in DOMAIN pend : k # 1 /\ t[i] = pend[k] BY <2>1
  <2> QED BY <1>10, <1>12, <2>2 DEF Apart
<1>15. \A i \in DOMAIN t : \A x \in Port : \A j \in DOMAIN txq[x] : t[i].buf # txq[x][j]
  BY <1>10 DEF Apart
<1>16. \A x \in Port : \A j \in DOMAIN txq[x] : c # txq[x][j] BY <1>10, <1>12 DEF Apart
<1>17. \A j \in DOMAIN sent : c # sent[j] BY <1>10, <1>12 DEF Apart
<1>18. \A x \in Port : \A i \in DOMAIN T[x] :
         \/ i \in DOMAIN txq[x] /\ T[x][i] = txq[x][i]
         \/ x = D /\ i = n /\ T[x][i] = c
  BY <1>4, <1>8, <1>9
<1>19. \A x \in Port : \A i, j \in DOMAIN T[x] : T[x][i] = T[x][j] => i = j
  <2> SUFFICES ASSUME NEW x \in Port, NEW i \in DOMAIN T[x], NEW j \in DOMAIN T[x],
                      T[x][i] = T[x][j]
               PROVE  i = j
    OBVIOUS
  <2>1. CASE x = D
    <3>1. /\ (i \in DOMAIN old /\ T[x][i] = old[i]) \/ (i = n /\ T[x][i] = c)
          /\ (j \in DOMAIN old /\ T[x][j] = old[j]) \/ (j = n /\ T[x][j] = c)
      BY <1>8, <1>9, <2>1
    <3> QED BY <1>4, <1>16, <3>1 DEF Apart
  <2>2. CASE x # D BY <1>9, <2>2 DEF Apart
  <2> QED BY <2>1, <2>2
<1>20. \A x, y \in Port : \A i \in DOMAIN T[x], j \in DOMAIN T[y] : x # y => T[x][i] # T[y][j]
  <2> SUFFICES ASSUME NEW x \in Port, NEW y \in Port, NEW i \in DOMAIN T[x],
                      NEW j \in DOMAIN T[y], x # y
               PROVE  T[x][i] # T[y][j]
    OBVIOUS
  <2>1. CASE x = D BY <1>9, <1>16, <1>18, <2>1 DEF Apart
  <2>2. CASE x # D BY <1>9, <1>16, <1>18, <2>2 DEF Apart
  <2> QED BY <2>1, <2>2
<1>21. \A i \in DOMAIN t : \A x \in Port : \A j \in DOMAIN T[x] : t[i].buf # T[x][j]
  BY <1>14, <1>15, <1>18
<1>22. \A i \in DOMAIN t : \A j \in DOMAIN sent : t[i].buf # sent[j] BY <1>10 DEF Apart
<1>23. \A x \in Port : \A i \in DOMAIN T[x] : \A j \in DOMAIN sent : T[x][i] # sent[j]
  BY <1>17, <1>18 DEF Apart
<1>24. Apart(t, T, sent) BY <1>13, <1>19, <1>20, <1>21, <1>22, <1>23 DEF Apart
<1>25. ASSUME NEW b \in Nat
       PROVE  Somewhere(b, t, T, sent) <=> Somewhere(b, pend, txq, sent)
  <2>1. (\E i \in DOMAIN pend : pend[i].buf = b) <=> b = c \/ \E i \in DOMAIN t : t[i].buf = b
    <3>1. ASSUME NEW i \in DOMAIN pend, pend[i].buf = b, b # c
          PROVE  \E k \in DOMAIN t : t[k].buf = b
      BY <1>10, <1>12, <3>1
    <3>2. ASSUME NEW i \in DOMAIN t, t[i].buf = b
          PROVE  \E k \in DOMAIN pend : pend[k].buf = b
      BY <1>10, <3>2
    <3> QED BY <1>10, <1>12, <3>1, <3>2
  <2>2. (\E x \in Port : \E i \in DOMAIN T[x] : T[x][i] = b) <=>
           b = c \/ \E x \in Port : \E i \in DOMAIN txq[x] : txq[x][i] = b
    <3>1. ASSUME NEW x \in Port, NEW i \in DOMAIN txq[x]
          PROVE  i \in DOMAIN T[x] /\ T[x][i] = txq[x][i]
      BY <1>4, <1>8, <1>9
    <3>2. n \in DOMAIN T[D] /\ T[D][n] = c BY <1>8, <1>9
    <3>3. ASSUME NEW x \in Port, NEW i \in DOMAIN T[x], T[x][i] = b, b # c
          PROVE  i \in DOMAIN txq[x] /\ txq[x][i] = b
      BY <1>18, <3>3
    <3> QED BY <3>1, <3>2, <3>3
  <2> QED BY <2>1, <2>2 DEF Somewhere
<1> QED BY <1>1, <1>7, <1>9, <1>24, <1>25

\* The first packet of a port's queue is sent.
Sent(txq, p) == [txq EXCEPT ![p] = Tail(@)]
SentPlaces(pend, txq, sent, p) ==
  /\ Apart(pend, Sent(txq, p), Append(sent, Head(txq[p])))
  /\ \A b \in Nat : Somewhere(b, pend, Sent(txq, p), Append(sent, Head(txq[p]))) <=>
                      Somewhere(b, pend, txq, sent)
  /\ \A x \in Port : \A i \in DOMAIN Sent(txq, p)[x] :
       \E k \in DOMAIN txq[x] : Sent(txq, p)[x][i] = txq[x][k]
LEMMA PlaceSend ==
  ASSUME NEW pend \in Seq(Txds), NEW txq \in [Port -> Seq(Nat)], NEW sent \in Seq(Nat),
         NEW p \in Port, txq[p] # <<>>, Apart(pend, txq, sent)
  PROVE  /\ Head(txq[p]) \in Nat /\ Sent(txq, p) \in [Port -> Seq(Nat)]
         /\ SentPlaces(pend, txq, sent, p)
<1>1. PICK old \in Seq(Nat) : old = txq[p] OBVIOUS
<1>2. PICK t : t = Tail(old) OBVIOUS
<1>3. PICK T : T = Sent(txq, p) OBVIOUS
<1>4. PICK c \in Nat : c = Head(old) BY <1>1, TailFacts
<1>5. /\ c \in Nat /\ c = old[1] /\ 1 \in DOMAIN old /\ t \in Seq(Nat)
      /\ \A i \in DOMAIN t : i + 1 \in DOMAIN old /\ t[i] = old[i + 1]
      /\ \A i \in DOMAIN old : i # 1 => i - 1 \in DOMAIN t /\ t[i - 1] = old[i]
  BY <1>1, <1>2, <1>4, TailFacts
<1>6. \A i \in DOMAIN t : i \in Nat /\ i + 1 # 1
  <2>1. t \in Seq(Nat) BY <1>5
  <2> QED BY <2>1, PlacesFollow
<1>7. T \in [Port -> Seq(Nat)] /\ T[p] = t /\ \A x \in Port : x # p => T[x] = txq[x]
  BY <1>1, <1>2, <1>3, <1>5 DEF Sent
<1>8. PICK s : s = Append(sent, c) OBVIOUS
<1>9. PICK n : n = Len(sent) + 1 OBVIOUS
<1>10. /\ DOMAIN s = DOMAIN sent \cup {n} /\ n \notin DOMAIN sent /\ s[n] = c
       /\ \A i \in DOMAIN sent : s[i] = sent[i]
  <2>1. /\ DOMAIN Append(sent, c) = DOMAIN sent \cup {Len(sent) + 1}
        /\ Len(sent) + 1 \notin DOMAIN sent /\ Append(sent, c)[Len(sent) + 1] = c
        /\ \A i \in DOMAIN sent : Append(sent, c)[i] = sent[i]
    BY AppendFacts
  <2> QED BY <1>8, <1>9, <2>1
<1>11. \A x \in Port : \A i \in DOMAIN T[x] :
         \E k \in DOMAIN txq[x] : T[x][i] = txq[x][k] /\ (x = p => k = i + 1)
                                  /\ (x # p => k = i)
  BY <1>1, <1>5, <1>7
<1>12. \A x \in Port : \A i \in DOMAIN T[x] : T[x][i] # c
  <2> SUFFICES ASSUME NEW x \in Port, NEW i \in DOMAIN T[x] PROVE T[x][i] # c OBVIOUS
  <2>1. CASE x = p
    <3>1. i \in DOMAIN t /\ T[x][i] = old[i + 1] BY <1>5, <1>7, <2>1
    <3>2. i + 1 \in DOMAIN old /\ i + 1 # 1 BY <1>5, <1>6, <3>1
    <3> QED BY <1>1, <1>5, <3>1, <3>2 DEF Apart
  <2>2. CASE x # p BY <1>1, <1>5, <1>7, <2>2 DEF Apart
  <2> QED BY <2>1, <2>2
<1>13. \A x \in Port : \A i, j \in DOMAIN T[x] : T[x][i] = T[x][j] => i = j
  <2> SUFFICES ASSUME NEW x \in Port, NEW i \in DOMAIN T[x], NEW j \in DOMAIN T[x],
                      T[x][i] = T[x][j]
               PROVE  i = j
    OBVIOUS
  <2>1. CASE x = p
    <3>1. i \in DOMAIN t /\ j \in DOMAIN t /\ old[i + 1] = old[j + 1] BY <1>5, <1>7, <2>1
    <3>2. i + 1 = j + 1 BY <1>1, <1>5, <3>1 DEF Apart
    <3> QED BY <1>6, <3>1, <3>2
  <2>2. CASE x # p BY <1>7, <2>2 DEF Apart
  <2> QED BY <2>1, <2>2
<1>14. \A x, y \in Port : \A i \in DOMAIN T[x], j \in DOMAIN T[y] : x # y => T[x][i] # T[y][j]
  BY <1>11 DEF Apart
<1>15. \A i \in DOMAIN pend : \A x \in Port : \A j \in DOMAIN T[x] : pend[i].buf # T[x][j]
  BY <1>11 DEF Apart
<1>16. \A i, j \in DOMAIN s : s[i] = s[j] => i = j BY <1>1, <1>5, <1>10 DEF Apart
<1>17. \A i \in DOMAIN pend : \A j \in DOMAIN s : pend[i].buf # s[j]
  BY <1>1, <1>5, <1>10 DEF Apart
<1>18. \A x \in Port : \A i \in DOMAIN T[x] : \A j \in DOMAIN s : T[x][i] # s[j]
  BY <1>10, <1>11, <1>12 DEF Apart
<1>19. Apart(pend, T, s) BY <1>13, <1>14, <1>15, <1>16, <1>17, <1>18 DEF Apart
<1>20. ASSUME NEW b \in Nat
       PROVE  Somewhere(b, pend, T, s) <=> Somewhere(b, pend, txq, sent)
  <2>1. (\E i \in DOMAIN s : s[i] = b) <=> b = c \/ \E i \in DOMAIN sent : sent[i] = b
    BY <1>10
  <2>2. (\E x \in Port : \E i \in DOMAIN txq[x] : txq[x][i] = b) <=>
           b = c \/ \E x \in Port : \E i \in DOMAIN T[x] : T[x][i] = b
    <3>1. ASSUME NEW x \in Port, NEW i \in DOMAIN txq[x], txq[x][i] = b, b # c
          PROVE  \E j \in DOMAIN T[x] : T[x][j] = b
      <4>1. CASE x = p BY <1>1, <1>5, <1>7, <3>1, <4>1
      <4>2. CASE x # p BY <1>7, <3>1, <4>2
      <4> QED BY <4>1, <4>2
    <3>2. 1 \in DOMAIN txq[p] /\ txq[p][1] = c BY <1>1, <1>5
    <3>3. ASSUME NEW x \in Port, NEW i \in DOMAIN T[x], T[x][i] = b
          PROVE  \E k \in DOMAIN txq[x] : txq[x][k] = b
      BY <1>11, <3>3
    <3> QED BY <3>1, <3>2, <3>3
  <2> QED BY <2>1, <2>2 DEF Somewhere
<1>21. \A x \in Port : \A i \in DOMAIN T[x] : \E k \in DOMAIN txq[x] : T[x][i] = txq[x][k]
  BY <1>11
<1>22. c = Head(txq[p]) BY <1>1, <1>4
<1> QED BY <1>3, <1>5, <1>7, <1>8, <1>19, <1>20, <1>21, <1>22 DEF SentPlaces

LEMMA StepTransmit ==
  ASSUME ConstantsOK, IInv, NEW p \in Port, Pp2SnpTransmit(p)
  PROVE  IInv'
<1> USE DEF IInv
<1>1. PICK b \in Nat : b = hist.tx + 1 BY HistFields
<1>2. PICK e \in Txds : e = [port |-> p, buf |-> b] BY DEF Txds
<1>3. PICK k \in Nat : k = nic.aggrPend + 1 BY NicFields
<1>4. PICK o \in BOOLEAN : o = (hist.overrun \/ nic.aggrPend = MVPP2_AGGR_TXQ_SIZE) OBVIOUS
<1>5. PICK put \in AggrIdx : put = drv.AggrNextDesc BY DrvFields
<1>6. PICK next \in AggrIdx : next = AggrNext(put)
  <2>1. (put + 1) % MVPP2_AGGR_TXQ_SIZE \in AggrIdx
    BY <1>5, Sizes
  <2> QED BY <2>1 DEF AggrNext
<1>7. /\ call.pc = "idle" /\ drv.mode[p] = "Initialized"
      /\ call' = [pc |-> "aggr", port |-> p, buf |-> b]
      /\ nic' = [nic EXCEPT !.aggr[put] = e, !.aggrPend = k]
      /\ hist' = [hist EXCEPT !.tx = b, !.queued = Append(@, b), !.overrun = o]
      /\ drv' = [drv EXCEPT !.AggrNextDesc = next]
  BY <1>1, <1>2, <1>3, <1>4, <1>5, <1>6 DEF Pp2SnpTransmit, Idle
<1>8. call' \in Calls /\ call'.port = p /\ call'.buf = b /\ call'.pc = "aggr"
  BY <1>7 DEF Calls
<1>9. /\ nic' \in Nics /\ nic'.aggr = [nic.aggr EXCEPT ![put] = e]
      /\ nic'.aggrGet = nic.aggrGet /\ nic'.aggrPend = k /\ nic'.txq = nic.txq
      /\ nic'.sent = nic.sent /\ nic'.pool = nic.pool
      /\ nic'.data = nic.data /\ nic'.descs = nic.descs /\ nic'.rxPut = nic.rxPut
      /\ nic'.occupied = nic.occupied /\ nic'.free = nic.free
  BY <1>7, NicFields DEF Nics
<1>10. /\ hist' \in Histories /\ hist'.tx = b /\ hist'.rx = hist.rx
       /\ hist'.good = hist.good /\ hist'.got = hist.got /\ hist'.sent = hist.sent
       /\ hist'.queued = Append(hist.queued, b) /\ hist'.late = hist.late
       /\ hist'.skewed = hist.skewed /\ hist'.failed = hist.failed
       /\ hist'.moved = hist.moved /\ hist'.overrun = o
  <2>1. Append(hist.queued, b) \in Seq(Nat) BY HistFields, AppendFacts
  <2> QED BY <1>7, <2>1, HistFields DEF Histories
<1>11. /\ drv' \in Drivers /\ drv'.mode = drv.mode
       /\ drv'.Initialized = drv.Initialized /\ drv'.LateInitialized = drv.LateInitialized
       /\ drv'.Txqs = drv.Txqs /\ drv'.Rxqs = drv.Rxqs
       /\ drv'.CompletionQueue = drv.CompletionQueue
       /\ drv'.RxNextDesc = drv.RxNextDesc /\ drv'.AggrNextDesc = next
  BY <1>7, DrvFields DEF Drivers
<1>12. SamePorts /\ SameReceiving BY <1>9, <1>10, <1>11 DEF SamePorts, SameReceiving
<1>13. Types' BY <1>8, <1>9, <1>10, <1>11 DEF Types
<1>14. ClientPart'
  <2>2. ASSUME NEW x \in Port, NEW i \in DOMAIN drv.CompletionQueue[x]
        PROVE  drv.CompletionQueue[x][i] <= b /\ drv.CompletionQueue[x][i] < b
    <3>1. drv.CompletionQueue[x] \in Seq(Nat) BY DrvFields
    <3>2. drv.CompletionQueue[x][i] \in Nat /\ drv.CompletionQueue[x][i] <= hist.tx
      BY <3>1 DEF ClientPart
    <3> QED BY <1>1, <3>2, HistFields
  <2> QED BY <1>7, <1>8, <1>10, <1>11, <2>2 DEF ClientPart, CrashesUnopened, Sending
<1>15. Members(hist'.queued) = 1 .. b
  <2>1. Members(hist'.queued) = Members(hist.queued) \cup {b}
    <3>1. PICK s \in Seq(Nat) : s = hist.queued BY HistFields
    <3>2. Members(Append(s, b)) = Members(s) \cup {b} BY MembersAppend
    <3> QED BY <1>10, <3>1, <3>2
  <2>2. Members(hist.queued) = 1 .. hist.tx BY DEF SendPart
  <2> QED BY <1>1, <2>1, <2>2, HistFields
<1>16. ASSUME ~Overwritten'
       PROVE  /\ ~Overwritten /\ k <= MVPP2_AGGR_TXQ_SIZE
              /\ next = (nic.aggrGet + k) % MVPP2_AGGR_TXQ_SIZE
              /\ Pend(nic') = Append(Pend(nic), e)
  <2>1. ~hist.moved /\ ~hist.overrun /\ nic.aggrPend # MVPP2_AGGR_TXQ_SIZE
    BY <1>4, <1>10, <1>16 DEF Overwritten
  <2>2. /\ ~Overwritten /\ nic.aggrPend <= MVPP2_AGGR_TXQ_SIZE
        /\ put = (nic.aggrGet + nic.aggrPend) % MVPP2_AGGR_TXQ_SIZE
    BY <1>5, <1>7, <2>1 DEF Overwritten, SendPart
  <2>3. nic.aggrPend < MVPP2_AGGR_TXQ_SIZE
    <3>1. PICK x \in Nat, y \in Nat : x = nic.aggrPend /\ y = MVPP2_AGGR_TXQ_SIZE
      BY Sizes, NicFields
    <3>2. x <= y /\ x # y => x < y OBVIOUS
    <3> QED BY <2>1, <2>2, <3>1, <3>2
  <2>4. PutBehind(nic.aggr, MVPP2_AGGR_TXQ_SIZE, nic.aggrGet, nic.aggrPend, put, e)
    <3>1. /\ nic.aggr \in [0 .. MVPP2_AGGR_TXQ_SIZE - 1 -> Txds]
          /\ nic.aggrGet \in 0 .. MVPP2_AGGR_TXQ_SIZE - 1 /\ nic.aggrPend \in Nat
      BY Sizes, NicFields
    <3> QED BY <2>2, <2>3, <3>1, Sizes, RingPut
  <2>5. k <= MVPP2_AGGR_TXQ_SIZE
    <3>1. MVPP2_AGGR_TXQ_SIZE \in Int /\ nic.aggrPend \in Int BY Sizes, NicFields
    <3> QED BY <1>3, <2>3, <3>1
  <2> QED BY <1>3, <1>6, <1>9, <2>2, <2>4, <2>5 DEF PutBehind, Pend, AggrNext
<1>17. ASSUME ~Overwritten'
       PROVE  /\ Apart(Pend(nic), nic.txq, hist.sent)
              /\ \A x \in Nat : x \in 1 .. hist.tx <=> Somewhere(x, Pend(nic), nic.txq, hist.sent)
  BY <1>7, <1>16, <1>17 DEF SendPart
<1>18. ASSUME ~Overwritten'
       PROVE  /\ Apart(Pend(nic'), nic.txq, hist.sent)
              /\ \A x \in Nat : x \in 1 .. b <=> Somewhere(x, Pend(nic'), nic.txq, hist.sent)
  <2>1. e.buf = b /\ b \notin 1 .. hist.tx BY <1>1, <1>2, HistFields
  <2>2. ~Somewhere(e.buf, Pend(nic), nic.txq, hist.sent) BY <1>17, <1>18, <2>1
  <2>3. /\ Apart(Append(Pend(nic), e), nic.txq, hist.sent)
        /\ \A x \in Nat : Somewhere(x, Append(Pend(nic), e), nic.txq, hist.sent) <=>
                            x = e.buf \/ Somewhere(x, Pend(nic), nic.txq, hist.sent)
    BY <1>17, <1>18, <2>2, NicFields, HistFields, PendType, PlaceAppend
  <2>4. \A x \in Nat : x \in 1 .. b <=> x = b \/ x \in 1 .. hist.tx BY <1>1, HistFields
  <2>5. Pend(nic') = Append(Pend(nic), e) BY <1>16, <1>18
  <2> QED BY <1>17, <1>18, <2>1, <2>3, <2>4, <2>5
<1>19. /\ Append(Pend(nic), e) \in Seq(Txds)
       /\ \A i \in DOMAIN Append(Pend(nic), e) :
            \/ Append(Pend(nic), e)[i] = e
            \/ i \in DOMAIN Pend(nic) /\ Append(Pend(nic), e)[i] = Pend(nic)[i]
  BY PendType, AppendFacts
<1>20. SendPart'
  <2> SUFFICES ASSUME ~Overwritten' PROVE SendPart' BY <1>10, <1>15 DEF SendPart
  <2>1. drv.Initialized[p] BY <1>7 DEF ClientPart
  <2>2. \A i \in DOMAIN Pend(nic') : Pend(nic')[i].port \in Port
                                      /\ drv.Initialized[Pend(nic')[i].port]
    BY <1>2, <1>7, <1>16, <1>19, <2>1 DEF SendPart
  <2>3. \A x \in Port : nic.txq[x] # <<>> => drv.Initialized[x]
    BY <1>7, <1>16 DEF SendPart
  <2> QED BY <1>9, <1>10, <1>11, <1>15, <1>16, <1>18, <2>2, <2>3 DEF SendPart
<1>21. CompletionPart'
  <2> SUFFICES ASSUME ~Overwritten' PROVE CompletionPart' BY DEF CompletionPart
  <2>1. Sending(call') /\ \A x \in Port : ~Active(call, x) BY <1>7, <1>8 DEF Sending, Active
  <2>2. ASSUME NEW x \in Port, ~hist.late[x], NEW i \in DOMAIN Pend(nic'),
               Pend(nic')[i].port = x
        PROVE  Active(call', x) /\ Pend(nic')[i].buf = b
    <3>1. CASE Pend(nic')[i] = e BY <1>2, <1>8, <2>1, <2>2, <3>1 DEF Active
    <3>2. CASE i \in DOMAIN Pend(nic) /\ Pend(nic')[i] = Pend(nic)[i]
      BY <1>7, <1>16, <2>1, <2>2, <3>2 DEF CompletionPart
    <3> QED BY <1>16, <1>19, <2>2, <3>1, <3>2
  <2>3. ASSUME NEW x \in Port, ~hist.late[x]
        PROVE  /\ \A i \in DOMAIN nic.txq[x] : FALSE
               /\ ~(nic.sent[x] > 0)
               /\ \A i \in DOMAIN drv.CompletionQueue[x] :
                    drv.CompletionQueue[x][i] \in Members(hist.sent)
    BY <1>7, <1>16, <2>1, <2>3 DEF CompletionPart
  <2> QED BY <1>8, <1>9, <1>10, <1>11, <2>2, <2>3 DEF CompletionPart
<1> QED BY <1>12, <1>13, <1>14, <1>20, <1>21, ReceiveStays

(* ----------------------------- the hardware ---------------------------- *)

LEMMA StepNicAggr ==
  ASSUME ConstantsOK, IInv, NicAggr
  PROVE  IInv'
<1> USE DEF IInv
<1>1. drv' = drv /\ call' = call /\ hist' = hist /\ nic.aggrPend > 0 BY DEF NicAggr
<1>2. PICK d \in Txds : d = nic.aggr[nic.aggrGet] BY NicFields
<1>3. PICK k \in Nat : k = nic.aggrPend - 1 BY <1>1, NicFields
<1>4. PICK next \in AggrIdx : next = AggrNext(nic.aggrGet)
  <2>1. nic.aggrGet \in AggrIdx BY NicFields
  <2>2. (nic.aggrGet + 1) % MVPP2_AGGR_TXQ_SIZE \in AggrIdx BY <2>1, Sizes
  <2> QED BY <2>2 DEF AggrNext
<1>5. PICK txq \in [Port -> Seq(Nat)] :
        txq = IF d.port \in Port THEN Moved(nic.txq, d) ELSE nic.txq
  <2>1. CASE d.port \in Port
    <3>1. nic.txq[d.port] \in Seq(Nat) /\ d.buf \in Nat BY <2>1, NicFields DEF Txds
    <3>2. Append(nic.txq[d.port], d.buf) \in Seq(Nat) BY <3>1, AppendFacts
    <3> QED BY <2>1, <3>2, NicFields DEF Moved
  <2>2. CASE d.port \notin Port BY <2>2, NicFields
  <2> QED BY <2>1, <2>2
<1>6. nic' = [nic EXCEPT !.aggrGet = next, !.aggrPend = k, !.txq = txq]
  <2>1. nic' = [nic EXCEPT !.aggrGet = next, !.aggrPend = k,
                  !.txq = IF d.port \in Port THEN Moved(@, d) ELSE @]
    BY <1>2, <1>3, <1>4 DEF NicAggr, Moved
  <2>2. txq = IF d.port \in Port THEN Moved(nic.txq, d) ELSE nic.txq BY <1>5
  <2> HIDE DEF Moved
  <2> QED BY <2>1, <2>2, NicFields DEF Nics
<1>7. /\ nic' \in Nics /\ nic'.aggr = nic.aggr /\ nic'.aggrGet = next
      /\ nic'.aggrPend = k /\ nic'.txq = txq /\ nic'.sent = nic.sent
      /\ nic'.pool = nic.pool /\ nic'.data = nic.data /\ nic'.descs = nic.descs
      /\ nic'.rxPut = nic.rxPut /\ nic'.occupied = nic.occupied /\ nic'.free = nic.free
  BY <1>6, NicFields DEF Nics
<1>8. SameCall /\ SamePorts /\ SameReceiving /\ SameQueues
  BY <1>1, <1>7 DEF SameCall, SamePorts, SameReceiving, SameQueues
<1>9. Types' BY <1>1, <1>7 DEF Types
<1>10. ASSUME ~Overwritten
       PROVE  /\ Pend(nic) # <<>> /\ Head(Pend(nic)) = d /\ Pend(nic') = Tail(Pend(nic))
              /\ k <= MVPP2_AGGR_TXQ_SIZE
              /\ drv.AggrNextDesc = (next + k) % MVPP2_AGGR_TXQ_SIZE
              /\ d.port \in Port /\ drv.Initialized[d.port] /\ txq = Moved(nic.txq, d)
              /\ Pend(nic)[1] = d /\ 1 \in DOMAIN Pend(nic)
              /\ \A i \in DOMAIN Pend(nic') :
                   i + 1 \in DOMAIN Pend(nic) /\ Pend(nic')[i] = Pend(nic)[i + 1]
  <2>1. /\ nic.aggrPend <= MVPP2_AGGR_TXQ_SIZE
        /\ drv.AggrNextDesc = (nic.aggrGet + nic.aggrPend) % MVPP2_AGGR_TXQ_SIZE
    BY <1>10 DEF SendPart
  <2>2. TakenFirst(nic.aggr, MVPP2_AGGR_TXQ_SIZE, nic.aggrGet, nic.aggrPend, next)
    <3>1. /\ nic.aggr \in [0 .. MVPP2_AGGR_TXQ_SIZE - 1 -> Txds]
          /\ nic.aggrGet \in 0 .. MVPP2_AGGR_TXQ_SIZE - 1 /\ nic.aggrPend \in Nat
          /\ next = (nic.aggrGet + 1) % MVPP2_AGGR_TXQ_SIZE
      BY <1>4, Sizes, NicFields DEF AggrNext
    <3> QED BY <1>1, <2>1, <3>1, Sizes, RingGet
  <2>3. /\ Pend(nic) # <<>> /\ Head(Pend(nic)) = d /\ Pend(nic') = Tail(Pend(nic))
        /\ drv.AggrNextDesc = (next + k) % MVPP2_AGGR_TXQ_SIZE
    BY <1>2, <1>3, <1>7, <2>1, <2>2 DEF TakenFirst, Pend
  <2>4. /\ Pend(nic)[1] = d /\ 1 \in DOMAIN Pend(nic)
        /\ \A i \in DOMAIN Pend(nic') :
             i + 1 \in DOMAIN Pend(nic) /\ Pend(nic')[i] = Pend(nic)[i + 1]
    BY <2>3, PendType, TailFacts
  <2>5. d.port \in Port /\ drv.Initialized[d.port] BY <1>10, <2>4 DEF SendPart
  <2>6. k <= MVPP2_AGGR_TXQ_SIZE BY <1>3, <2>1, Sizes, NicFields
  <2> QED BY <1>5, <2>3, <2>4, <2>5, <2>6
<1>11. SendPart'
  <2> SUFFICES ASSUME ~Overwritten PROVE SendPart'
    BY <1>1 DEF SendPart, Overwritten
  <2>1. /\ Apart(Pend(nic), nic.txq, hist.sent)
        /\ \A b \in Nat : b \in 1 .. hist.tx <=> Somewhere(b, Pend(nic), nic.txq, hist.sent)
    BY DEF SendPart
  <2>2. /\ Apart(Pend(nic'), txq, hist.sent)
        /\ \A b \in Nat : Somewhere(b, Pend(nic'), txq, hist.sent) <=>
                            Somewhere(b, Pend(nic), nic.txq, hist.sent)
    <3>1. PICK pend \in Seq(Txds) : pend = Pend(nic) BY PendType
    <3>2. PICK f \in [Port -> Seq(Nat)] : f = nic.txq BY NicFields
    <3>3. PICK s \in Seq(Nat) : s = hist.sent BY HistFields
    <3>4. Apart(pend, f, s) /\ pend # <<>> /\ d = Head(pend) /\ d.port \in Port
      BY <1>10, <2>1, <3>1, <3>2, <3>3
    <3>5. /\ Apart(Tail(pend), Moved(f, d), s)
          /\ \A b \in Nat : Somewhere(b, Tail(pend), Moved(f, d), s) <=> Somewhere(b, pend, f, s)
      BY <3>4, PlaceMove
    <3>6. Tail(pend) = Pend(nic') /\ Moved(f, d) = txq BY <1>10, <3>1, <3>2
    <3> QED BY <3>1, <3>2, <3>3, <3>5, <3>6
  <2>3. \A i \in DOMAIN Pend(nic') : Pend(nic')[i].port \in Port
                                      /\ drv.Initialized[Pend(nic')[i].port]
    BY <1>10 DEF SendPart
  <2>4. \A x \in Port : txq[x] # <<>> => drv.Initialized[x]
    <3> SUFFICES ASSUME NEW x \in Port, txq[x] # <<>> PROVE drv.Initialized[x] OBVIOUS
    <3>1. CASE x = d.port BY <1>10, <3>1
    <3>2. CASE x # d.port
      <4>1. txq[x] = nic.txq[x] BY <1>10, <3>2, NicFields DEF Moved
      <4> QED BY <4>1 DEF SendPart
    <3> QED BY <3>1, <3>2
  <2>5. \A b \in Nat : b \in 1 .. hist.tx <=> Somewhere(b, Pend(nic'), txq, hist.sent)
    BY <2>1, <2>2
  <2>6. Members(hist.queued) = 1 .. hist.tx BY DEF SendPart
  <2> QED BY <1>1, <1>7, <1>10, <2>2, <2>3, <2>4, <2>5, <2>6 DEF SendPart, Overwritten
<1>12. CompletionPart'
  <2>1. ASSUME ~Overwritten, call.pc # "crash", NEW x \in Port, ~hist.late[x]
        PROVE  /\ \A i \in DOMAIN Pend(nic') :
                    Pend(nic')[i].port = x => Active(call, x) /\ Pend(nic')[i].buf = call.buf
               /\ \A i \in DOMAIN txq[x] : Active(call, x) /\ txq[x][i] = call.buf
    <3>1. \A i \in DOMAIN Pend(nic') :
            Pend(nic')[i].port = x => Active(call, x) /\ Pend(nic')[i].buf = call.buf
      BY <1>10, <2>1 DEF CompletionPart
    <3>2. ASSUME NEW i \in DOMAIN txq[x]
          PROVE  Active(call, x) /\ txq[x][i] = call.buf
      <4>1. CASE x # d.port
        <5>1. txq[x] = nic.txq[x] BY <1>10, <2>1, <4>1, NicFields DEF Moved
        <5> QED BY <2>1, <3>2, <5>1 DEF CompletionPart
      <4>2. CASE x = d.port
        <5>1. Active(call, x) /\ d.buf = call.buf BY <1>10, <2>1, <4>2 DEF CompletionPart
        <5>2. nic.txq[x] \in Seq(Nat) /\ d.buf \in Nat BY NicFields DEF Txds
        <5>3. txq[x] = Append(nic.txq[x], d.buf) BY <1>10, <2>1, <4>2, NicFields DEF Moved
        <5>4. \/ txq[x][i] = d.buf
              \/ \E m \in DOMAIN nic.txq[x] : txq[x][i] = nic.txq[x][m]
          <6>1. PICK f \in Seq(Nat), b \in Nat : f = nic.txq[x] /\ b = d.buf BY <5>2
          <6>2. Members(Append(f, b)) = Members(f) \cup {b} BY MembersAppend
          <6>3. txq[x][i] \in Members(txq[x]) BY <3>2 DEF Members
          <6>4. txq[x][i] \in Members(f) \cup {b} BY <5>3, <6>1, <6>2, <6>3
          <6> QED BY <6>1, <6>4 DEF Members
        <5>5. \A j \in DOMAIN nic.txq[x] : nic.txq[x][j] = call.buf
          BY <2>1 DEF CompletionPart
        <5> QED BY <5>1, <5>4, <5>5
      <4> QED BY <4>1, <4>2
    <3> QED BY <3>1, <3>2
  <2> QED BY <1>1, <1>7, <2>1 DEF CompletionPart, Overwritten
<1>13. ClientPart' BY <1>1, <1>8, ClientStays
<1> QED BY <1>8, <1>9, <1>11, <1>12, <1>13, ReceiveStays

LEMMA StepNicSend ==
  ASSUME ConstantsOK, IInv, NEW p \in Port, NicSend(p)
  PROVE  IInv'
<1> USE DEF IInv
<1>1. drv' = drv /\ call' = call /\ nic.txq[p] # <<>> BY DEF NicSend
<1>2. PICK c \in Nat : c = Head(nic.txq[p])
  <2>1. nic.txq[p] \in Seq(Nat) BY NicFields
  <2> QED BY <1>1, <2>1, TailFacts
<1>3. PICK txq \in [Port -> Seq(Nat)] : txq = Sent(nic.txq, p)
  <2>1. nic.txq[p] \in Seq(Nat) BY NicFields
  <2>2. Tail(nic.txq[p]) \in Seq(Nat) BY <1>1, <2>1, TailFacts
  <2> QED BY <2>2, NicFields DEF Sent
<1>4. PICK n \in Nat : n = nic.sent[p] + 1 BY NicFields
<1>5. PICK sent \in Seq(Nat) : sent = Append(hist.sent, c) BY HistFields, AppendFacts
<1>6. /\ nic' = [nic EXCEPT !.txq = txq, !.sent[p] = n]
      /\ hist' = [hist EXCEPT !.sent = sent]
  BY <1>2, <1>3, <1>4, <1>5 DEF NicSend, Sent
<1>7. /\ nic' \in Nics /\ nic'.aggr = nic.aggr /\ nic'.aggrGet = nic.aggrGet
      /\ nic'.aggrPend = nic.aggrPend /\ nic'.txq = txq
      /\ nic'.sent = [nic.sent EXCEPT ![p] = n]
      /\ nic'.pool = nic.pool /\ nic'.data = nic.data /\ nic'.descs = nic.descs
      /\ nic'.rxPut = nic.rxPut /\ nic'.occupied = nic.occupied /\ nic'.free = nic.free
  BY <1>6, NicFields DEF Nics
<1>8. /\ hist' \in Histories /\ hist'.tx = hist.tx /\ hist'.rx = hist.rx
      /\ hist'.good = hist.good /\ hist'.got = hist.got /\ hist'.sent = sent
      /\ hist'.queued = hist.queued /\ hist'.late = hist.late
      /\ hist'.skewed = hist.skewed /\ hist'.failed = hist.failed
      /\ hist'.moved = hist.moved /\ hist'.overrun = hist.overrun
  BY <1>6, HistFields DEF Histories
<1>9. SameCall /\ SamePorts /\ SameReceiving
  BY <1>1, <1>7, <1>8 DEF SameCall, SamePorts, SameReceiving
<1>10. Types' BY <1>1, <1>7, <1>8 DEF Types
<1>11. Pend(nic') = Pend(nic) BY <1>7 DEF Pend
<1>12. ASSUME ~Overwritten
       PROVE  /\ Apart(Pend(nic), txq, sent)
              /\ \A b \in Nat : Somewhere(b, Pend(nic), txq, sent) <=>
                                  Somewhere(b, Pend(nic), nic.txq, hist.sent)
              /\ \A x \in Port : \A i \in DOMAIN txq[x] :
                   \E k \in DOMAIN nic.txq[x] : txq[x][i] = nic.txq[x][k]
  <2>1. Apart(Pend(nic), nic.txq, hist.sent) BY <1>12 DEF SendPart
  <2>2. PICK pend \in Seq(Txds) : pend = Pend(nic) BY PendType
  <2>3. PICK f \in [Port -> Seq(Nat)] : f = nic.txq BY NicFields
  <2>4. PICK s \in Seq(Nat) : s = hist.sent BY HistFields
  <2>5. Apart(pend, f, s) /\ f[p] # <<>> BY <1>1, <2>1, <2>2, <2>3, <2>4
  <2>6. /\ Apart(pend, Sent(f, p), Append(s, Head(f[p])))
        /\ \A b \in Nat : Somewhere(b, pend, Sent(f, p), Append(s, Head(f[p]))) <=>
                            Somewhere(b, pend, f, s)
        /\ \A x \in Port : \A i \in DOMAIN Sent(f, p)[x] :
             \E k \in DOMAIN f[x] : Sent(f, p)[x][i] = f[x][k]
    <3>1. SentPlaces(pend, f, s, p) BY <2>5, PlaceSend
    <3> QED BY <3>1 DEF SentPlaces
  <2>7. Sent(f, p) = txq /\ Append(s, Head(f[p])) = sent BY <1>2, <1>3, <1>5, <2>3, <2>4
  <2> QED BY <2>2, <2>3, <2>4, <2>6, <2>7
<1>13. SendPart'
  <2> SUFFICES ASSUME ~Overwritten PROVE SendPart'
    BY <1>1, <1>8 DEF SendPart, Overwritten
  <2>1. \A x \in Port : txq[x] # <<>> => drv.Initialized[x]
    <3> SUFFICES ASSUME NEW x \in Port, txq[x] # <<>> PROVE drv.Initialized[x] OBVIOUS
    <3>1. CASE x = p BY <1>1, <3>1 DEF SendPart
    <3>2. CASE x # p
      <4>1. txq[x] = nic.txq[x] BY <1>3, <3>2, NicFields DEF Sent
      <4> QED BY <4>1 DEF SendPart
    <3> QED BY <3>1, <3>2
  <2>2. \A b \in Nat : b \in 1 .. hist.tx <=> Somewhere(b, Pend(nic), txq, sent)
    BY <1>12 DEF SendPart
  <2>3. /\ Members(hist.queued) = 1 .. hist.tx
        /\ nic.aggrPend <= MVPP2_AGGR_TXQ_SIZE
        /\ drv.AggrNextDesc = (nic.aggrGet + nic.aggrPend) % MVPP2_AGGR_TXQ_SIZE
        /\ \A i \in DOMAIN Pend(nic) :
             Pend(nic)[i].port \in Port /\ drv.Initialized[Pend(nic)[i].port]
    BY DEF SendPart
  <2> QED BY <1>1, <1>7, <1>8, <1>11, <1>12, <2>1, <2>2, <2>3 DEF SendPart, Overwritten
<1>14. Members(sent) = Members(hist.sent) \cup {c}
  <2>1. PICK s \in Seq(Nat) : s = hist.sent BY HistFields
  <2>2. Members(Append(s, c)) = Members(s) \cup {c} BY MembersAppend
  <2> QED BY <1>5, <2>1, <2>2
<1>15. CompletionPart'
  <2>1. ASSUME ~Overwritten, NEW x \in Port, ~hist.late[x], call.pc # "crash"
        PROVE  /\ \A i \in DOMAIN Pend(nic) :
                    Pend(nic)[i].port = x => Active(call, x) /\ Pend(nic)[i].buf = call.buf
               /\ \A i \in DOMAIN txq[x] : Active(call, x) /\ txq[x][i] = call.buf
               /\ nic'.sent[x] > 0 => Active(call, x) /\ call.buf \in Members(sent)
    <3>1. nic'.sent[x] > 0 => Active(call, x) /\ call.buf \in Members(sent)
      <4>1. CASE x = p
        <5>1. nic.txq[p] \in Seq(Nat) BY NicFields
        <5>2. 1 \in DOMAIN nic.txq[p] /\ nic.txq[p][1] = c BY <1>1, <1>2, <5>1, TailFacts
        <5>3. Active(call, x) /\ call.buf = c BY <2>1, <4>1, <5>2 DEF CompletionPart
        <5> QED BY <1>14, <5>3
      <4>2. CASE x # p
        <5>1. nic'.sent[x] = nic.sent[x] BY <1>7, <4>2, NicFields
        <5> QED BY <1>14, <2>1, <5>1 DEF CompletionPart
      <4> QED BY <4>1, <4>2
    <3>2. \A i \in DOMAIN txq[x] : Active(call, x) /\ txq[x][i] = call.buf
      BY <1>12, <2>1 DEF CompletionPart
    <3> QED BY <2>1, <3>1, <3>2 DEF CompletionPart
  <2>2. ASSUME ~Overwritten, NEW x \in Port, ~hist.late[x]
        PROVE  \A i \in DOMAIN drv.CompletionQueue[x] :
                 drv.CompletionQueue[x][i] \in Members(sent)
    BY <1>14, <2>2 DEF CompletionPart
  <2> QED BY <1>1, <1>7, <1>8, <1>11, <2>1, <2>2 DEF CompletionPart, Overwritten
<1>16. ClientPart' BY <1>1, <1>8 DEF ClientPart, CrashesUnopened
<1> QED BY <1>9, <1>10, <1>13, <1>15, <1>16, ReceiveStays

(* ------------------- where the buffers are, step by step --------------- *)

\* A packet waits only at a port that was opened.
LEMMA ReceivingOpen ==
  ASSUME IInv, NEW p \in Port, Receiving(p)
  PROVE  drv.LateInitialized[p]
<1>1. nic.occupied[p] > 0 BY DEF Receiving
<1> QED BY <1>1 DEF IInv, ReceivePart, Fresh

\* The first packet that came is read and its buffer goes back to the pool.
LEMMA StockRead ==
  ASSUME NEW came \in Seq(Rxds), NEW pool \in Seq(0 .. MVPP2_BM_SIZE), came # <<>>,
         Stocked(came, pool), MVPP2_BM_SIZE \in Nat
  PROVE  Stocked(Tail(came), Append(pool, Head(came).buf))
<1>1. PICK t : t = Tail(came) OBVIOUS
<1>2. PICK c \in 0 .. MVPP2_BM_SIZE : c = Head(came).buf
  <2>1. Head(came) \in Rxds BY TailFacts
  <2> QED BY <2>1 DEF Rxds
<1>3. PICK q \in Seq(0 .. MVPP2_BM_SIZE) : q = Append(pool, c) BY AppendFacts
<1>4. PICK n : n = Len(pool) + 1 OBVIOUS
<1>5. /\ DOMAIN q = DOMAIN pool \cup {n} /\ n \notin DOMAIN pool /\ q[n] = c
      /\ \A i \in DOMAIN pool : q[i] = pool[i]
  <2>1. /\ DOMAIN Append(pool, c) = DOMAIN pool \cup {Len(pool) + 1}
        /\ Len(pool) + 1 \notin DOMAIN pool /\ Append(pool, c)[Len(pool) + 1] = c
        /\ \A i \in DOMAIN pool : Append(pool, c)[i] = pool[i]
    BY AppendFacts, SMTT(20)
  <2> QED BY <1>3, <1>4, <2>1
<1>6. /\ c = came[1].buf /\ 1 \in DOMAIN came /\ t \in Seq(Rxds)
      /\ \A i \in DOMAIN t : i + 1 \in DOMAIN came /\ t[i] = came[i + 1]
      /\ \A i \in DOMAIN came : i # 1 => i - 1 \in DOMAIN t /\ t[i - 1] = came[i]
  BY <1>1, <1>2, TailFacts
<1>7. \A i \in DOMAIN t : i \in Nat /\ i + 1 # 1
  <2>1. t \in Seq(Rxds) BY <1>6
  <2> QED BY <2>1, PlacesFollow
<1>8. Len(q) + Len(t) = MVPP2_BM_SIZE
  <2>1. PICK x \in Nat, y \in Nat : x = Len(pool) /\ y = Len(came) OBVIOUS
  <2>2. Len(t) = y - 1 BY <1>1, <2>1, HeadTailProperties
  <2>3. Len(q) = x + 1 BY <1>3, <2>1
  <2>4. x + y = MVPP2_BM_SIZE BY <2>1 DEF Stocked
  <2>5. (x + 1) + (y - 1) = x + y BY <2>1
  <2> QED BY <2>2, <2>3, <2>4, <2>5
<1>9. \A i, j \in DOMAIN q : q[i] = q[j] => i = j BY <1>5, <1>6 DEF Stocked
<1>10. \A i, j \in DOMAIN t : t[i].buf = t[j].buf => i = j
  <2> SUFFICES ASSUME NEW i \in DOMAIN t, NEW j \in DOMAIN t, t[i].buf = t[j].buf PROVE i = j
    OBVIOUS
  <2>1. i + 1 = j + 1 BY <1>6 DEF Stocked
  <2> QED BY <1>7, <2>1
<1>11. ASSUME NEW i \in DOMAIN t PROVE t[i].buf # c
  <2>1. i + 1 \in DOMAIN came /\ i + 1 # 1 /\ t[i] = came[i + 1] BY <1>6, <1>7
  <2>2. \A k \in DOMAIN came : k # 1 => came[k].buf # c BY <1>6 DEF Stocked
  <2> QED BY <2>1, <2>2
<1>12. ASSUME NEW i \in DOMAIN t, NEW j \in DOMAIN q PROVE t[i].buf # q[j]
  <2>1. i + 1 \in DOMAIN came /\ t[i] = came[i + 1] BY <1>6
  <2>2. \A k \in DOMAIN came : \A l \in DOMAIN pool : came[k].buf # pool[l] BY DEF Stocked
  <2> QED BY <1>5, <1>11, <2>1, <2>2
<1>13. ASSUME NEW b \in 0 .. MVPP2_BM_SIZE
       PROVE  b \in Buffers <=> \/ \E i \in DOMAIN q : q[i] = b
                                \/ \E i \in DOMAIN t : t[i].buf = b
  <2>1. (\E i \in DOMAIN q : q[i] = b) <=> b = c \/ \E i \in DOMAIN pool : pool[i] = b
    BY <1>5
  <2>2. (\E i \in DOMAIN came : came[i].buf = b) <=> b = c \/ \E i \in DOMAIN t : t[i].buf = b
    <3>1. ASSUME NEW i \in DOMAIN came, came[i].buf = b, b # c
          PROVE  \E k \in DOMAIN t : t[k].buf = b
      BY <1>6, <3>1
    <3>2. ASSUME NEW i \in DOMAIN t, t[i].buf = b
          PROVE  \E k \in DOMAIN came : came[k].buf = b
      BY <1>6, <3>2
    <3> QED BY <1>6, <3>1, <3>2
  <2> QED BY <2>1, <2>2 DEF Stocked
<1>14. Stocked(t, q) BY <1>8, <1>9, <1>10, <1>12, <1>13 DEF Stocked
<1> QED BY <1>1, <1>2, <1>3, <1>14

\* The first buffer of the pool is taken for a packet.
LEMMA StockTake ==
  ASSUME NEW came \in Seq(Rxds), NEW pool \in Seq(0 .. MVPP2_BM_SIZE), pool # <<>>,
         Stocked(came, pool), NEW e \in Rxds, e.buf = Head(pool), MVPP2_BM_SIZE \in Nat
  PROVE  /\ Stocked(Append(came, e), Tail(pool))
         /\ e.buf \in Buffers /\ \A i \in DOMAIN came : came[i].buf # e.buf
<1>1. PICK t : t = Tail(pool) OBVIOUS
<1>2. PICK c \in 0 .. MVPP2_BM_SIZE : c = e.buf BY DEF Rxds
<1>3. PICK q \in Seq(Rxds) : q = Append(came, e) BY AppendFacts
<1>4. PICK n : n = Len(came) + 1 OBVIOUS
<1>5. /\ DOMAIN q = DOMAIN came \cup {n} /\ n \notin DOMAIN came /\ q[n] = e
      /\ \A i \in DOMAIN came : q[i] = came[i]
  <2>1. /\ DOMAIN Append(came, e) = DOMAIN came \cup {Len(came) + 1}
        /\ Len(came) + 1 \notin DOMAIN came /\ Append(came, e)[Len(came) + 1] = e
        /\ \A i \in DOMAIN came : Append(came, e)[i] = came[i]
    BY AppendFacts, SMTT(20)
  <2> QED BY <1>3, <1>4, <2>1
<1>6. /\ c = pool[1] /\ 1 \in DOMAIN pool /\ t \in Seq(0 .. MVPP2_BM_SIZE)
      /\ \A i \in DOMAIN t : i + 1 \in DOMAIN pool /\ t[i] = pool[i + 1]
      /\ \A i \in DOMAIN pool : i # 1 => i - 1 \in DOMAIN t /\ t[i - 1] = pool[i]
  BY <1>1, <1>2, TailFacts
<1>7. \A i \in DOMAIN t : i \in Nat /\ i + 1 # 1
  <2>1. t \in Seq(0 .. MVPP2_BM_SIZE) BY <1>6
  <2> QED BY <2>1, PlacesFollow
<1>8. Len(t) + Len(q) = MVPP2_BM_SIZE
  <2>1. PICK x \in Nat, y \in Nat : x = Len(pool) /\ y = Len(came) OBVIOUS
  <2>2. Len(t) = x - 1 BY <1>1, <2>1, HeadTailProperties
  <2>3. Len(q) = y + 1 BY <1>3, <2>1
  <2>4. x + y = MVPP2_BM_SIZE BY <2>1 DEF Stocked
  <2>5. (x - 1) + (y + 1) = x + y BY <2>1
  <2> QED BY <2>2, <2>3, <2>4, <2>5
<1>9. \A i \in DOMAIN came : came[i].buf # c BY <1>6 DEF Stocked
<1>10. \A i, j \in DOMAIN q : q[i].buf = q[j].buf => i = j BY <1>2, <1>5, <1>9 DEF Stocked
<1>11. \A i, j \in DOMAIN t : t[i] = t[j] => i = j
  <2> SUFFICES ASSUME NEW i \in DOMAIN t, NEW j \in DOMAIN t, t[i] = t[j] PROVE i = j
    OBVIOUS
  <2>1. i + 1 = j + 1 BY <1>6 DEF Stocked
  <2> QED BY <1>7, <2>1
<1>12. ASSUME NEW i \in DOMAIN t PROVE t[i] # c
  <2>1. i + 1 \in DOMAIN pool /\ i + 1 # 1 /\ t[i] = pool[i + 1] BY <1>6, <1>7
  <2>2. \A k \in DOMAIN pool : k # 1 => pool[k] # c BY <1>6 DEF Stocked
  <2> QED BY <2>1, <2>2
<1>13. ASSUME NEW i \in DOMAIN q, NEW j \in DOMAIN t PROVE q[i].buf # t[j]
  <2>1. j + 1 \in DOMAIN pool /\ t[j] = pool[j + 1] BY <1>6
  <2>2. \A k \in DOMAIN came : \A l \in DOMAIN pool : came[k].buf # pool[l] BY DEF Stocked
  <2> QED BY <1>2, <1>5, <1>12, <2>1, <2>2
<1>14. ASSUME NEW b \in 0 .. MVPP2_BM_SIZE
       PROVE  b \in Buffers <=> \/ \E i \in DOMAIN t : t[i] = b
                                \/ \E i \in DOMAIN q : q[i].buf = b
  <2>1. (\E i \in DOMAIN q : q[i].buf = b) <=> b = c \/ \E i \in DOMAIN came : came[i].buf = b
    BY <1>2, <1>5
  <2>2. (\E i \in DOMAIN pool : pool[i] = b) <=> b = c \/ \E i \in DOMAIN t : t[i] = b
    <3>1. ASSUME NEW i \in DOMAIN pool, pool[i] = b, b # c
          PROVE  \E k \in DOMAIN t : t[k] = b
      BY <1>6, <3>1
    <3>2. ASSUME NEW i \in DOMAIN t, t[i] = b
          PROVE  \E k \in DOMAIN pool : pool[k] = b
      BY <1>6, <3>2
    <3> QED BY <1>6, <3>1, <3>2
  <2> QED BY <2>1, <2>2 DEF Stocked
<1>15. Stocked(q, t) BY <1>8, <1>10, <1>11, <1>13, <1>14 DEF Stocked
<1>16. c \in Buffers BY <1>6 DEF Stocked
<1> QED BY <1>1, <1>2, <1>3, <1>9, <1>15, <1>16

\* What the client has after reading a packet, and the order of the rest.
LEMMA OrderRead ==
  ASSUME NEW came \in Seq(Rxds), came # <<>>, NEW data \in [0 .. MVPP2_BM_SIZE -> Nat],
         NEW got \in Seq(Nat), NEW good \in SUBSET Nat, NEW rx \in Nat,
         Arrivals(came, data, got, good, rx), NEW new,
         new = IF Head(came).bad THEN got ELSE Append(got, data[Head(came).buf])
  PROVE  new \in Seq(Nat) /\ Arrivals(Tail(came), data, new, good, rx)
<1>1. PICK t : t = Tail(came) OBVIOUS
<1>2. PICK h \in Rxds : h = Head(came) BY TailFacts
<1>3. PICK v \in Nat : v = data[h.buf] BY DEF Rxds
<1>4. PICK n : n = Len(got) + 1 OBVIOUS
<1>5. /\ h = came[1] /\ 1 \in DOMAIN came /\ t \in Seq(Rxds)
      /\ \A i \in DOMAIN t : i + 1 \in DOMAIN came /\ t[i] = came[i + 1]
      /\ \A i \in DOMAIN came : i # 1 => i - 1 \in DOMAIN t /\ t[i - 1] = came[i]
  BY <1>1, <1>2, TailFacts
<1>6. \A i \in DOMAIN t : i \in Nat /\ 1 < i + 1
  <2>1. t \in Seq(Rxds) BY <1>5
  <2> QED BY <2>1, PlacesFollow
<1>7. /\ \A i \in DOMAIN t : v < data[t[i].buf]
      /\ \A i, j \in DOMAIN t : i < j => data[t[i].buf] < data[t[j].buf]
      /\ \A i \in DOMAIN t : data[t[i].buf] <= rx
      /\ v <= rx /\ \A i \in DOMAIN got : got[i] < v
  <2>1. ASSUME NEW i \in DOMAIN t PROVE v < data[t[i].buf]
    BY <1>3, <1>5, <1>6 DEF Arrivals
  <2>2. ASSUME NEW i \in DOMAIN t, NEW j \in DOMAIN t, i < j
        PROVE  data[t[i].buf] < data[t[j].buf]
    <3>1. i + 1 < j + 1 BY <1>6, <2>2
    <3> QED BY <1>5, <3>1 DEF Arrivals
  <2>3. \A i \in DOMAIN t : data[t[i].buf] <= rx BY <1>5 DEF Arrivals
  <2>4. v <= rx /\ \A i \in DOMAIN got : got[i] < v BY <1>3, <1>5 DEF Arrivals
  <2> QED BY <2>1, <2>2, <2>3, <2>4
<1>8. ASSUME NEW m
      PROVE  (\E i \in DOMAIN came : ~came[i].bad /\ data[came[i].buf] = m) <=>
               \/ ~h.bad /\ v = m
               \/ \E i \in DOMAIN t : ~t[i].bad /\ data[t[i].buf] = m
  <2>1. ASSUME NEW i \in DOMAIN came, ~came[i].bad, data[came[i].buf] = m, i # 1
        PROVE  \E k \in DOMAIN t : ~t[k].bad /\ data[t[k].buf] = m
    BY <1>5, <2>1
  <2>2. ASSUME NEW i \in DOMAIN t, ~t[i].bad, data[t[i].buf] = m
        PROVE  \E k \in DOMAIN came : ~came[k].bad /\ data[came[k].buf] = m
    BY <1>5, <2>2
  <2> QED BY <1>3, <1>5, <2>1, <2>2
<1>9. CASE h.bad
  <2>1. new = got BY <1>2, <1>9
  <2>2. \A i \in DOMAIN got, j \in DOMAIN t : got[i] < data[t[j].buf] BY <1>5 DEF Arrivals
  <2>3. \A m \in Nat : m \in good <=> \/ \E i \in DOMAIN got : got[i] = m
                                      \/ \E i \in DOMAIN t : ~t[i].bad /\ data[t[i].buf] = m
    BY <1>8, <1>9 DEF Arrivals
  <2>4. Ascending(got) /\ \A i \in DOMAIN got : got[i] <= rx BY DEF Arrivals
  <2> QED BY <1>1, <1>7, <2>1, <2>2, <2>3, <2>4, SMTT(20) DEF Arrivals
<1>10. CASE ~h.bad
  <2>1. new = Append(got, v) BY <1>2, <1>3, <1>10
  <2>2. /\ DOMAIN Append(got, v) = DOMAIN got \cup {Len(got) + 1}
        /\ Append(got, v)[Len(got) + 1] = v /\ Append(got, v) \in Seq(Nat)
        /\ \A i \in DOMAIN got : Append(got, v)[i] = got[i]
    BY AppendFacts
  <2>3. /\ new \in Seq(Nat) /\ DOMAIN new = DOMAIN got \cup {n} /\ new[n] = v
        /\ \A i \in DOMAIN got : new[i] = got[i]
    BY <1>4, <2>1, <2>2
  <2>4. Ascending(new)
    <3>1. Ascending(got) BY DEF Arrivals
    <3> QED BY <1>7, <2>1, <3>1, AscendingAppend
  <2>5. \A i \in DOMAIN new : new[i] <= rx BY <1>7, <2>3 DEF Arrivals
  <2>6. \A i \in DOMAIN new, j \in DOMAIN t : new[i] < data[t[j].buf]
    <3> SUFFICES ASSUME NEW i \in DOMAIN new, NEW j \in DOMAIN t
                 PROVE  new[i] < data[t[j].buf]
      OBVIOUS
    <3>1. CASE i \in DOMAIN got
      <4>1. j + 1 \in DOMAIN came /\ t[j] = came[j + 1] BY <1>5
      <4>2. got[i] < data[came[j + 1].buf] BY <3>1, <4>1 DEF Arrivals
      <4> QED BY <2>3, <3>1, <4>1, <4>2
    <3>2. CASE i = n BY <1>7, <2>3, <3>2
    <3> QED BY <2>3, <3>1, <3>2
  <2>7. ASSUME NEW m \in Nat
        PROVE  m \in good <=> \/ \E i \in DOMAIN new : new[i] = m
                              \/ \E i \in DOMAIN t : ~t[i].bad /\ data[t[i].buf] = m
    <3>1. (\E i \in DOMAIN new : new[i] = m) <=> v = m \/ \E i \in DOMAIN got : got[i] = m
      BY <2>3
    <3> QED BY <1>8, <1>10, <3>1 DEF Arrivals
  <2> QED BY <1>1, <1>7, <2>3, <2>4, <2>5, <2>6, <2>7 DEF Arrivals
<1> QED BY <1>9, <1>10

\* A packet arrives behind all others.
LEMMA OrderArrive ==
  ASSUME NEW came \in Seq(Rxds), NEW data \in [0 .. MVPP2_BM_SIZE -> Nat],
         NEW got \in Seq(Nat), NEW good \in SUBSET Nat, NEW rx \in Nat,
         Arrivals(came, data, got, good, rx),
         NEW e \in Rxds, \A i \in DOMAIN came : came[i].buf # e.buf,
         NEW n \in Nat, n = rx + 1, NEW now,
         now = IF e.bad THEN good ELSE good \cup {n}
  PROVE  Arrivals(Append(came, e), [data EXCEPT ![e.buf] = n], got, now, n)
<1>1. PICK q \in Seq(Rxds) : q = Append(came, e) BY AppendFacts
<1>2. PICK l \in Nat : l = Len(came) + 1 OBVIOUS
<1>3. /\ DOMAIN q = DOMAIN came \cup {l} /\ q[l] = e
      /\ \A i \in DOMAIN came : q[i] = came[i] /\ i < l
  <2>1. /\ DOMAIN Append(came, e) = DOMAIN came \cup {Len(came) + 1}
        /\ Append(came, e)[Len(came) + 1] = e
        /\ \A i \in DOMAIN came : Append(came, e)[i] = came[i] /\ i < Len(came) + 1
    BY AppendFacts
  <2> QED BY <1>1, <1>2, <2>1
<1>4. PICK m : m = [data EXCEPT ![e.buf] = n] OBVIOUS
<1>5. m[e.buf] = n /\ \A i \in DOMAIN came : m[came[i].buf] = data[came[i].buf]
  <2>1. e.buf \in 0 .. MVPP2_BM_SIZE BY DEF Rxds
  <2>2. \A i \in DOMAIN came : came[i] \in Rxds OBVIOUS
  <2>3. \A i \in DOMAIN came : came[i].buf \in 0 .. MVPP2_BM_SIZE BY <2>2 DEF Rxds
  <2> QED BY <1>4, <2>1, <2>3
<1>6. \A i \in DOMAIN came : data[came[i].buf] \in Nat /\ data[came[i].buf] <= rx
  <2>1. \A i \in DOMAIN came : came[i] \in Rxds OBVIOUS
  <2>2. \A i \in DOMAIN came : came[i].buf \in 0 .. MVPP2_BM_SIZE BY <2>1 DEF Rxds
  <2> QED BY <2>2 DEF Arrivals
<1>7. \A i \in DOMAIN came : i \in Nat OBVIOUS
<1>8. \A i, j \in DOMAIN q : i < j => m[q[i].buf] < m[q[j].buf]
  <2> SUFFICES ASSUME NEW i \in DOMAIN q, NEW j \in DOMAIN q, i < j
               PROVE  m[q[i].buf] < m[q[j].buf]
    OBVIOUS
  <2>1. i \in DOMAIN came BY <1>2, <1>3, <1>7
  <2>2. CASE j \in DOMAIN came BY <1>3, <1>5, <2>1, <2>2 DEF Arrivals
  <2>3. CASE j = l
    <3>1. m[q[j].buf] = n /\ m[q[i].buf] = data[came[i].buf] BY <1>3, <1>5, <2>1, <2>3
    <3> QED BY <1>6, <2>1, <3>1
  <2> QED BY <1>3, <2>2, <2>3
<1>9. \A i \in DOMAIN q : m[q[i].buf] <= n
  <2>1. \A i \in DOMAIN came : data[came[i].buf] <= n BY <1>6
  <2> QED BY <1>3, <1>5, <2>1
<1>10. \A i \in DOMAIN got : got[i] <= rx /\ got[i] <= n /\ got[i] < n
  <2>1. \A i \in DOMAIN got : got[i] \in Nat /\ got[i] <= rx BY DEF Arrivals
  <2> QED BY <2>1
<1>11. \A i \in DOMAIN got, j \in DOMAIN q : got[i] < m[q[j].buf]
  <2> SUFFICES ASSUME NEW i \in DOMAIN got, NEW j \in DOMAIN q
               PROVE  got[i] < m[q[j].buf]
    OBVIOUS
  <2>1. CASE j \in DOMAIN came
    <3>1. m[q[j].buf] = data[came[j].buf] BY <1>3, <1>5, <2>1
    <3> QED BY <2>1, <3>1 DEF Arrivals
  <2>2. CASE j = l BY <1>3, <1>5, <1>10, <2>2
  <2> QED BY <1>3, <2>1, <2>2
<1>12. ASSUME NEW k \in Nat
       PROVE  k \in now <=> \/ \E i \in DOMAIN got : got[i] = k
                            \/ \E i \in DOMAIN q : ~q[i].bad /\ m[q[i].buf] = k
  <2>1. (\E i \in DOMAIN q : ~q[i].bad /\ m[q[i].buf] = k) <=>
          \/ ~e.bad /\ n = k
          \/ \E i \in DOMAIN came : ~came[i].bad /\ data[came[i].buf] = k
    BY <1>3, <1>5
  <2>2. k \in now <=> k \in good \/ (~e.bad /\ n = k) OBVIOUS
  <2> QED BY <2>1, <2>2 DEF Arrivals
<1>13. Ascending(got) BY DEF Arrivals
<1>14. Arrivals(q, m, got, now, n) BY <1>8, <1>9, <1>10, <1>11, <1>12, <1>13 DEF Arrivals
<1> QED BY <1>1, <1>4, <1>14

(* ------------------------------- receive ------------------------------- *)

LEMMA MovedOver ==
  ASSUME NEW m \in Nat, NEW len \in Nat
  PROVE  (m + 1) + (len - 1) = m + len /\ (m - 1) + (len + 1) = m + len
OBVIOUS

\* Only the port's own receive state changes, and that of the pool.
OthersKeep(p) ==
  \A q \in Port : q # p =>
    /\ nic'.occupied[q] = nic.occupied[q] /\ nic'.free[q] = nic.free[q]
    /\ drv'.RxNextDesc[q] = drv.RxNextDesc[q]
    /\ hist'.good[q] = hist.good[q] /\ hist'.got[q] = hist.got[q]
    /\ hist'.skewed[q] = hist.skewed[q]

LEMMA ReceiveKeeps ==
  ASSUME ReceivePart, NEW p \in Port, drv.LateInitialized[p],
         drv'.LateInitialized = drv.LateInitialized, OthersKeep(p),
         Alone(drv) /\ ~hist'.skewed[p] => InUse(drv', nic', hist', p)
  PROVE  ReceivePart'
<1>1. ASSUME NEW q \in Port, ~drv.LateInitialized[q]
      PROVE  Fresh(drv', nic', hist', q)
  <2>1. q # p /\ Fresh(drv, nic, hist, q) BY <1>1 DEF ReceivePart
  <2> QED BY <2>1 DEF Fresh, OthersKeep
<1>2. Alone(drv') <=> Alone(drv) BY DEF Alone
<1>3. ASSUME Alone(drv), NEW q \in Port, drv.LateInitialized[q], ~hist'.skewed[q]
      PROVE  InUse(drv', nic', hist', q)
  <2>1. q = p BY <1>3 DEF Alone
  <2> QED BY <1>3, <2>1
<1> QED BY <1>1, <1>2, <1>3 DEF ReceivePart

LEMMA StepRead ==
  ASSUME ConstantsOK, IInv, NEW p \in Port, Receiving(p), Refill(p),
         \/ ~RxDesc(p).bad /\ hist' = [hist EXCEPT !.got[p] = Append(@, nic.data[RxDesc(p).buf])]
         \/ RxDesc(p).bad /\ hist' = hist
  PROVE  IInv'
<1> USE DEF IInv
<1>1. /\ call.pc = "idle" /\ call' = call /\ drv.LateInitialized[p] /\ nic.occupied[p] > 0
      /\ drv' = [drv EXCEPT !.RxNextDesc[p] = RxNext(@)]
  BY ReceivingOpen DEF Receiving, RxAdvance, Idle
<1>2. PICK get \in RxIdx : get = drv.RxNextDesc[p] BY DrvFields
<1>3. PICK e \in Rxds : e = nic.descs[get] BY NicFields
<1>4. PICK len \in Nat : len = nic.occupied[p] BY NicFields
<1>5. PICK next \in RxIdx : next = RxNext(get)
  <2>1. (get + 1) % MVPP2_MAX_RXD \in RxIdx BY Sizes
  <2> QED BY <2>1 DEF RxNext
<1>6. PICK less \in Nat : less = len - 1 BY <1>1, <1>4
<1>7. PICK f \in Nat : f = nic.free[p] + 1 BY NicFields
<1>8. e.buf \in 0 .. MVPP2_BM_SIZE /\ RxDesc(p) = e BY <1>2, <1>3 DEF RxDesc, Rxds
<1>9. PICK pool \in Seq(0 .. MVPP2_BM_SIZE) : pool = Append(nic.pool, e.buf)
  BY <1>8, NicFields, AppendFacts
<1>10. PICK new \in Seq(Nat) :
         new = IF e.bad THEN hist.got[p] ELSE Append(hist.got[p], nic.data[e.buf])
  <2>1. nic.data[e.buf] \in Nat /\ hist.got[p] \in Seq(Nat) BY <1>8, NicFields, HistFields
  <2>2. Append(hist.got[p], nic.data[e.buf]) \in Seq(Nat) BY <2>1, AppendFacts
  <2> QED BY <2>1, <2>2
<1>11. /\ nic' \in Nics /\ nic'.aggr = nic.aggr /\ nic'.aggrGet = nic.aggrGet
       /\ nic'.aggrPend = nic.aggrPend /\ nic'.txq = nic.txq /\ nic'.sent = nic.sent
       /\ nic'.pool = pool /\ nic'.data = nic.data /\ nic'.descs = nic.descs
       /\ nic'.rxPut = nic.rxPut
       /\ nic'.occupied = [nic.occupied EXCEPT ![p] = less]
       /\ nic'.free = [nic.free EXCEPT ![p] = f]
  <2>1. nic' = [nic EXCEPT !.pool = pool, !.occupied[p] = less, !.free[p] = f]
    BY <1>4, <1>6, <1>7, <1>8, <1>9 DEF Refill
  <2> QED BY <2>1, NicFields DEF Nics
<1>12. /\ drv' \in Drivers /\ drv'.mode = drv.mode
       /\ drv'.Initialized = drv.Initialized /\ drv'.LateInitialized = drv.LateInitialized
       /\ drv'.Txqs = drv.Txqs /\ drv'.Rxqs = drv.Rxqs
       /\ drv'.CompletionQueue = drv.CompletionQueue
       /\ drv'.RxNextDesc = [drv.RxNextDesc EXCEPT ![p] = next]
       /\ drv'.AggrNextDesc = drv.AggrNextDesc
  <2>1. drv' = [drv EXCEPT !.RxNextDesc[p] = next] BY <1>1, <1>2, <1>5
  <2> QED BY <2>1, DrvFields DEF Drivers
<1>13. /\ hist' \in Histories /\ hist'.tx = hist.tx /\ hist'.rx = hist.rx
       /\ hist'.good = hist.good /\ hist'.got = [hist.got EXCEPT ![p] = new]
       /\ hist'.sent = hist.sent /\ hist'.queued = hist.queued /\ hist'.late = hist.late
       /\ hist'.skewed = hist.skewed /\ hist'.failed = hist.failed
       /\ hist'.moved = hist.moved /\ hist'.overrun = hist.overrun
  <2>1. CASE e.bad
    <3>1. hist' = hist /\ new = hist.got[p] BY <1>8, <1>10, <2>1
    <3>2. PICK g \in [Port -> Seq(Nat)] : g = hist.got BY HistFields
    <3>3. [g EXCEPT ![p] = g[p]] = g BY <3>2
    <3>4. hist.got = [hist.got EXCEPT ![p] = new] BY <3>1, <3>2, <3>3
    <3> QED BY <3>1, <3>4, HistFields
  <2>2. CASE ~e.bad
    <3>1. hist' = [hist EXCEPT !.got[p] = new] BY <1>8, <1>10, <2>2
    <3> QED BY <3>1, HistFields DEF Histories
  <2> QED BY <2>1, <2>2
<1>14. SameCall /\ SamePorts /\ SameSending /\ SameQueues
  BY <1>1, <1>11, <1>12, <1>13 DEF SameCall, SamePorts, SameSending, SameQueues
<1>15. Types' BY <1>1, <1>11, <1>12, <1>13 DEF Types
<1>16. ClientPart' BY <1>12, <1>13, <1>14, ClientStays
<1>17. SendPart' BY <1>1, <1>14, SendStays
<1>18. CompletionPart' BY <1>14, CompletionStays
<1>19. /\ nic'.occupied[p] = less /\ nic'.free[p] = f /\ drv'.RxNextDesc[p] = next
       /\ hist'.got[p] = new
  <2>1. nic'.occupied[p] = less /\ nic'.free[p] = f BY <1>11, NicFields
  <2>2. drv'.RxNextDesc[p] = next BY <1>12, DrvFields
  <2>3. hist'.got[p] = new BY <1>13, HistFields
  <2> QED BY <2>1, <2>2, <2>3
<1>20. OthersKeep(p)
  <2>1. \A q \in Port : q # p =>
          nic'.occupied[q] = nic.occupied[q] /\ nic'.free[q] = nic.free[q]
    BY <1>11, NicFields
  <2>2. \A q \in Port : q # p => drv'.RxNextDesc[q] = drv.RxNextDesc[q] BY <1>12, DrvFields
  <2>3. \A q \in Port : q # p => hist'.got[q] = hist.got[q] BY <1>13, HistFields
  <2> QED BY <1>13, <2>1, <2>2, <2>3 DEF OthersKeep
<1>21. ASSUME InUse(drv, nic, hist, p) PROVE InUse(drv', nic', hist', p)
  <2>1. PICK came \in Seq(Rxds) : came = Came(drv, nic, p) BY CameType
  <2>2. /\ nic.free[p] + len = MVPP2_MAX_RXD
        /\ nic.rxPut[p] = (get + len) % MVPP2_MAX_RXD
        /\ Stocked(came, nic.pool)
        /\ Arrivals(came, nic.data, hist.got[p], hist.good[p], hist.rx)
    BY <1>2, <1>4, <1>21, <2>1 DEF InUse
  <2>3. TakenFirst(nic.descs, MVPP2_MAX_RXD, get, len, next)
    <3>1. /\ nic.descs \in [0 .. MVPP2_MAX_RXD - 1 -> Rxds] /\ get \in 0 .. MVPP2_MAX_RXD - 1
          /\ next = (get + 1) % MVPP2_MAX_RXD
      BY <1>5, Sizes, NicFields DEF RxNext
    <3>2. PICK n \in Nat \ {0} : n = MVPP2_MAX_RXD BY Sizes
    <3>3. PICK m \in Nat : m = nic.free[p] BY NicFields
    <3>4. len > 0 /\ len <= MVPP2_MAX_RXD BY <1>1, <1>4, <2>2, <3>2, <3>3
    <3> QED BY <3>1, <3>4, Sizes, RingGet
  <2>4. /\ came # <<>> /\ Head(came) = e /\ Came(drv', nic', p) = Tail(came)
        /\ nic'.rxPut[p] = (next + less) % MVPP2_MAX_RXD
    <3>1. PICK r : r = Ring(nic.descs, MVPP2_MAX_RXD, get, len) OBVIOUS
    <3>2. came = r BY <1>2, <1>4, <2>1, <3>1 DEF Came
    <3>3. /\ r # <<>> /\ Head(r) = nic.descs[get]
          /\ Ring(nic.descs, MVPP2_MAX_RXD, next, less) = Tail(r)
      BY <1>6, <2>3, <3>1 DEF TakenFirst
    <3>4. Came(drv', nic', p) = Ring(nic.descs, MVPP2_MAX_RXD, next, less)
      BY <1>11, <1>19 DEF Came
    <3>5. nic'.rxPut[p] = (next + less) % MVPP2_MAX_RXD
      BY <1>6, <1>11, <2>2, <2>3 DEF TakenFirst
    <3> QED BY <1>3, <3>2, <3>3, <3>4, <3>5
  <2>5. Stocked(Tail(came), pool)
    <3>1. PICK q \in Seq(0 .. MVPP2_BM_SIZE) : q = nic.pool BY NicFields
    <3>2. Stocked(came, q) /\ MVPP2_BM_SIZE \in Nat BY <2>2, <3>1, Sizes
    <3>3. Stocked(Tail(came), Append(q, Head(came).buf)) BY <2>4, <3>2, StockRead
    <3> QED BY <1>9, <2>4, <3>1, <3>3
  <2>6. Arrivals(Tail(came), nic.data, new, hist.good[p], hist.rx)
    <3>1. PICK data \in [0 .. MVPP2_BM_SIZE -> Nat] : data = nic.data BY NicFields
    <3>2. PICK got \in Seq(Nat) : got = hist.got[p] BY HistFields
    <3>3. PICK good \in SUBSET Nat : good = hist.good[p] BY HistFields
    <3>4. PICK rx \in Nat : rx = hist.rx BY HistFields
    <3>5. Arrivals(came, data, got, good, rx) BY <2>2, <3>1, <3>2, <3>3, <3>4
    <3>6. new = IF Head(came).bad THEN got ELSE Append(got, data[Head(came).buf])
      BY <1>10, <2>4, <3>1, <3>2
    <3>7. Arrivals(Tail(came), data, new, good, rx) BY <2>4, <3>5, <3>6, OrderRead
    <3> QED BY <3>1, <3>3, <3>4, <3>7
  <2>7. f + less = MVPP2_MAX_RXD
    <3>1. PICK m \in Nat : m = nic.free[p] BY NicFields
    <3>2. (m + 1) + (len - 1) = m + len BY MovedOver
    <3> QED BY <1>6, <1>7, <2>2, <3>1, <3>2
  <2> QED BY <1>11, <1>13, <1>19, <2>4, <2>5, <2>6, <2>7 DEF InUse
<1>22. ReceivePart'
  <2>1. Alone(drv) /\ ~hist'.skewed[p] => InUse(drv', nic', hist', p)
    BY <1>1, <1>13, <1>21 DEF ReceivePart
  <2> QED BY <1>1, <1>12, <1>20, <2>1, ReceiveKeeps
<1> QED BY <1>15, <1>16, <1>17, <1>18, <1>22

LEMMA StepTooSmall ==
  ASSUME ConstantsOK, IInv, NEW p \in Port, ReceiveTooSmall(p)
  PROVE  IInv'
<1> USE DEF IInv
<1>1. /\ call.pc = "idle" /\ call' = call /\ drv.LateInitialized[p] /\ nic' = nic
      /\ drv' = [drv EXCEPT !.RxNextDesc[p] = RxNext(@)]
      /\ hist' = [hist EXCEPT !.skewed[p] = TRUE]
  BY ReceivingOpen DEF ReceiveTooSmall, Receiving, RxAdvance, Idle
<1>2. PICK get \in RxIdx : get = drv.RxNextDesc[p] BY DrvFields
<1>3. PICK next \in RxIdx : next = RxNext(get)
  <2>1. (get + 1) % MVPP2_MAX_RXD \in RxIdx BY Sizes
  <2> QED BY <2>1 DEF RxNext
<1>4. /\ drv' \in Drivers /\ drv'.mode = drv.mode
      /\ drv'.Initialized = drv.Initialized /\ drv'.LateInitialized = drv.LateInitialized
      /\ drv'.Txqs = drv.Txqs /\ drv'.Rxqs = drv.Rxqs
      /\ drv'.CompletionQueue = drv.CompletionQueue
      /\ drv'.RxNextDesc = [drv.RxNextDesc EXCEPT ![p] = next]
      /\ drv'.AggrNextDesc = drv.AggrNextDesc
  <2>1. drv' = [drv EXCEPT !.RxNextDesc[p] = next] BY <1>1, <1>2, <1>3
  <2> QED BY <2>1, DrvFields DEF Drivers
<1>5. /\ hist' \in Histories /\ hist'.tx = hist.tx /\ hist'.rx = hist.rx
      /\ hist'.good = hist.good /\ hist'.got = hist.got
      /\ hist'.sent = hist.sent /\ hist'.queued = hist.queued /\ hist'.late = hist.late
      /\ hist'.skewed = [hist.skewed EXCEPT ![p] = TRUE] /\ hist'.failed = hist.failed
      /\ hist'.moved = hist.moved /\ hist'.overrun = hist.overrun
  BY <1>1, HistFields DEF Histories
<1>6. SameCall /\ SamePorts /\ SameSending /\ SameQueues
  BY <1>1, <1>4, <1>5 DEF SameCall, SamePorts, SameSending, SameQueues
<1>7. Types' BY <1>1, <1>4, <1>5 DEF Types
<1>8. ClientPart' BY <1>4, <1>5, <1>6, ClientStays
<1>9. SendPart' BY <1>1, <1>6, SendStays
<1>10. CompletionPart' BY <1>6, CompletionStays
<1>11. OthersKeep(p)
  <2>1. \A q \in Port : q # p => drv'.RxNextDesc[q] = drv.RxNextDesc[q] BY <1>4, DrvFields
  <2>2. \A q \in Port : q # p => hist'.skewed[q] = hist.skewed[q] BY <1>5, HistFields
  <2> QED BY <1>1, <1>5, <2>1, <2>2 DEF OthersKeep
<1>12. hist'.skewed[p] BY <1>5, HistFields
<1>13. ReceivePart' BY <1>1, <1>4, <1>11, <1>12, ReceiveKeeps
<1> QED BY <1>7, <1>8, <1>9, <1>10, <1>13

LEMMA StepNicRx ==
  ASSUME ConstantsOK, IInv, NEW p \in Port, NicRx(p)
  PROVE  IInv'
<1> USE DEF IInv
<1>1. PICK bad \in BOOLEAN :
        LET b == Head(nic.pool) n == hist.rx + 1 IN
          /\ nic' = [nic EXCEPT !.pool = Tail(@), !.data[b] = n,
               !.descs[nic.rxPut[p]] = [buf |-> b, bad |-> bad],
               !.rxPut[p] = RxNext(@), !.free[p] = @ - 1, !.occupied[p] = @ + 1]
          /\ hist' = [hist EXCEPT !.rx = n, !.good[p] = IF bad THEN @ ELSE @ \cup {n}]
  BY DEF NicRx
<1>2. drv' = drv /\ call' = call /\ nic.free[p] > 0 /\ nic.pool # <<>> BY DEF NicRx
<1>3. PICK old \in Seq(0 .. MVPP2_BM_SIZE) : old = nic.pool BY NicFields
<1>4. PICK b \in 0 .. MVPP2_BM_SIZE : b = Head(old) BY <1>2, <1>3, TailFacts
<1>5. PICK pool \in Seq(0 .. MVPP2_BM_SIZE) : pool = Tail(old) BY <1>2, <1>3, TailFacts
<1>6. PICK n \in Nat : n = hist.rx + 1 BY HistFields
<1>7. PICK e \in Rxds : e = [buf |-> b, bad |-> bad] BY DEF Rxds
<1>8. PICK put \in RxIdx : put = nic.rxPut[p] BY NicFields
<1>9. PICK next \in RxIdx : next = RxNext(put)
  <2>1. (put + 1) % MVPP2_MAX_RXD \in RxIdx BY Sizes
  <2> QED BY <2>1 DEF RxNext
<1>10. PICK f \in Nat : f = nic.free[p] - 1 BY <1>2, NicFields
<1>11. PICK len \in Nat : len = nic.occupied[p] BY NicFields
<1>12. PICK more \in Nat : more = len + 1 OBVIOUS
<1>13. PICK good \in SUBSET Nat : good = IF bad THEN hist.good[p] ELSE hist.good[p] \cup {n}
  <2>1. hist.good[p] \in SUBSET Nat BY HistFields
  <2>2. hist.good[p] \cup {n} \in SUBSET Nat BY <2>1
  <2> QED BY <2>1, <2>2
<1>14. /\ nic' \in Nics /\ nic'.aggr = nic.aggr /\ nic'.aggrGet = nic.aggrGet
       /\ nic'.aggrPend = nic.aggrPend /\ nic'.txq = nic.txq /\ nic'.sent = nic.sent
       /\ nic'.pool = pool /\ nic'.data = [nic.data EXCEPT ![b] = n]
       /\ nic'.descs = [nic.descs EXCEPT ![put] = e]
       /\ nic'.rxPut = [nic.rxPut EXCEPT ![p] = next]
       /\ nic'.occupied = [nic.occupied EXCEPT ![p] = more]
       /\ nic'.free = [nic.free EXCEPT ![p] = f]
  <2>1. nic' = [nic EXCEPT !.pool = pool, !.data[b] = n, !.descs[put] = e, !.rxPut[p] = next,
                           !.free[p] = f, !.occupied[p] = more]
    BY <1>1, <1>3, <1>4, <1>5, <1>6, <1>7, <1>8, <1>9, <1>10, <1>11, <1>12
  <2> QED BY <2>1, NicFields DEF Nics
<1>15. /\ hist' \in Histories /\ hist'.tx = hist.tx /\ hist'.rx = n
       /\ hist'.good = [hist.good EXCEPT ![p] = good] /\ hist'.got = hist.got
       /\ hist'.sent = hist.sent /\ hist'.queued = hist.queued /\ hist'.late = hist.late
       /\ hist'.skewed = hist.skewed /\ hist'.failed = hist.failed
       /\ hist'.moved = hist.moved /\ hist'.overrun = hist.overrun
  <2>1. hist' = [hist EXCEPT !.rx = n, !.good[p] = good] BY <1>1, <1>6, <1>13
  <2> QED BY <2>1, HistFields DEF Histories
<1>16. SameCall /\ SamePorts /\ SameSending /\ SameQueues
  BY <1>2, <1>14, <1>15 DEF SameCall, SamePorts, SameSending, SameQueues
<1>17. Types' BY <1>2, <1>14, <1>15 DEF Types
<1>18. ClientPart' BY <1>2, <1>15, <1>16, ClientStays
<1>19. SendPart' BY <1>2, <1>16, SendStays
<1>20. CompletionPart' BY <1>16, CompletionStays
<1>21. /\ nic'.occupied[p] = more /\ nic'.free[p] = f /\ nic'.rxPut[p] = next
       /\ hist'.good[p] = good
  BY <1>14, <1>15, NicFields, HistFields
<1>22. OthersKeep(p)
  <2>1. \A q \in Port : q # p =>
          nic'.occupied[q] = nic.occupied[q] /\ nic'.free[q] = nic.free[q]
    BY <1>14, NicFields
  <2>2. \A q \in Port : q # p => hist'.good[q] = hist.good[q] BY <1>15, HistFields
  <2> QED BY <1>2, <1>15, <2>1, <2>2 DEF OthersKeep
<1>23. drv.LateInitialized[p]
  <2>1. nic.free[p] # 0 BY <1>2, NicFields
  <2> QED BY <2>1 DEF ReceivePart, Fresh
<1>24. ASSUME InUse(drv, nic, hist, p) PROVE InUse(drv', nic', hist', p)
  <2>1. PICK came \in Seq(Rxds) : came = Came(drv, nic, p) BY CameType
  <2>2. PICK get \in RxIdx : get = drv.RxNextDesc[p] BY DrvFields
  <2>3. /\ nic.free[p] + len = MVPP2_MAX_RXD
        /\ put = (get + len) % MVPP2_MAX_RXD
        /\ Stocked(came, old)
        /\ Arrivals(came, nic.data, hist.got[p], hist.good[p], hist.rx)
    BY <1>3, <1>8, <1>11, <1>24, <2>1, <2>2 DEF InUse
  <2>4. PICK m \in Nat : m = nic.free[p] BY NicFields
  <2>5. PutBehind(nic.descs, MVPP2_MAX_RXD, get, len, put, e)
    <3>1. nic.descs \in [0 .. MVPP2_MAX_RXD - 1 -> Rxds] /\ get \in 0 .. MVPP2_MAX_RXD - 1
      BY Sizes, NicFields
    <3>2. PICK k \in Nat \ {0} : k = MVPP2_MAX_RXD BY Sizes
    <3>3. len < MVPP2_MAX_RXD BY <1>2, <2>3, <2>4, <3>2
    <3> QED BY <2>3, <3>1, <3>3, Sizes, RingPut
  <2>6. /\ Came(drv', nic', p) = Append(came, e)
        /\ nic'.rxPut[p] = (get + more) % MVPP2_MAX_RXD
    BY <1>2, <1>9, <1>11, <1>12, <1>14, <1>21, <2>1, <2>2, <2>5 DEF PutBehind, Came, RxNext
  <2>7. /\ Stocked(Append(came, e), pool)
        /\ \A i \in DOMAIN came : came[i].buf # e.buf
    <3>1. old # <<>> /\ e.buf = Head(old) /\ MVPP2_BM_SIZE \in Nat BY <1>2, <1>3, <1>4, <1>7, Sizes
    <3> QED BY <1>5, <2>3, <3>1, StockTake
  <2>8. Arrivals(Append(came, e), nic'.data, hist.got[p], good, n)
    <3>1. PICK data \in [0 .. MVPP2_BM_SIZE -> Nat] : data = nic.data BY NicFields
    <3>2. PICK got \in Seq(Nat) : got = hist.got[p] BY HistFields
    <3>3. PICK was \in SUBSET Nat : was = hist.good[p] BY HistFields
    <3>4. PICK rx \in Nat : rx = hist.rx BY HistFields
    <3>5. Arrivals(came, data, got, was, rx) BY <2>3, <3>1, <3>2, <3>3, <3>4
    <3>6. good = IF e.bad THEN was ELSE was \cup {n} BY <1>7, <1>13, <3>3
    <3>7. n = rx + 1 BY <1>6, <3>4
    <3>8. Arrivals(Append(came, e), [data EXCEPT ![e.buf] = n], got, good, n)
      BY <2>7, <3>5, <3>6, <3>7, OrderArrive
    <3>9. [data EXCEPT ![e.buf] = n] = nic'.data BY <1>7, <1>14, <3>1
    <3> QED BY <3>2, <3>8, <3>9
  <2>9. f + more = MVPP2_MAX_RXD
    <3>1. (m - 1) + (len + 1) = m + len BY MovedOver
    <3> QED BY <1>10, <1>12, <2>3, <2>4, <3>1
  <2> QED BY <1>2, <1>14, <1>15, <1>21, <2>2, <2>6, <2>7, <2>8, <2>9 DEF InUse
<1>25. ReceivePart'
  <2>1. Alone(drv) /\ ~hist'.skewed[p] => InUse(drv', nic', hist', p)
    BY <1>15, <1>23, <1>24 DEF ReceivePart
  <2> QED BY <1>2, <1>22, <1>23, <2>1, ReceiveKeeps
<1> QED BY <1>17, <1>18, <1>19, <1>20, <1>25

(* --------------------------- the specification ------------------------- *)

LEMMA Initially ==
  ASSUME ConstantsOK, Init
  PROVE  IInv
<1>1. drv \in Drivers
  <2>1. <<>> \in Seq(Nat) OBVIOUS
  <2>2. /\ EachPort("Stopped") \in [Port -> Rank] /\ EachPort(FALSE) \in [Port -> BOOLEAN]
        /\ EachPort(<<>>) \in [Port -> Seq(Nat)] /\ EachPort(0) \in [Port -> RxIdx]
    BY <2>1, Sizes DEF EachPort, Rank
  <2> QED BY <2>2, Sizes DEF Init, Drivers
<1>2. PICK all : all = [i \in Buffers |-> i] OBVIOUS
<1>3. /\ all \in Seq(0 .. MVPP2_BM_SIZE) /\ Len(all) = MVPP2_BM_SIZE /\ DOMAIN all = Buffers
      /\ \A i \in Buffers : all[i] = i
  BY <1>2, Sizes DEF Buffers
<1>4. nic \in Nics
  <2>1. NoTx \in Txds /\ NoRx \in Rxds BY Sizes DEF NoTx, Txds, NoRx, Rxds
  <2>2. <<>> \in Seq(Nat) OBVIOUS
  <2>3. /\ EachPort(<<>>) \in [Port -> Seq(Nat)] /\ EachPort(0) \in [Port -> RxIdx]
        /\ EachPort(0) \in [Port -> Nat]
    BY <2>2, Sizes DEF EachPort
  <2>4. /\ [i \in AggrIdx |-> NoTx] \in [AggrIdx -> Txds]
        /\ [i \in RxIdx |-> NoRx] \in [RxIdx -> Rxds]
        /\ [b \in 0 .. MVPP2_BM_SIZE |-> 0] \in [0 .. MVPP2_BM_SIZE -> Nat]
    BY <2>1
  <2> QED BY <1>2, <1>3, <2>3, <2>4, Sizes DEF Init, Nics
<1>5. call \in Calls /\ call.pc = "idle" BY DEF Init, NoCall, Calls
<1>6. PICK max \in Bounds :
     hist = [max |-> max, tx |-> 0, rx |-> 0, faults |-> 0,
             good |-> EachPort({}), got |-> EachPort(<<>>), sent |-> <<>>, queued |-> <<>>,
             late |-> EachPort(FALSE), skewed |-> EachPort(FALSE), failed |-> EachPort(FALSE),
             moved |-> FALSE, overrun |-> FALSE]
  BY DEF Init
<1>7. hist \in Histories
  <2>1. <<>> \in Seq(Nat) OBVIOUS
  <2>2. /\ EachPort({}) \in [Port -> SUBSET Nat] /\ EachPort(<<>>) \in [Port -> Seq(Nat)]
        /\ EachPort(FALSE) \in [Port -> BOOLEAN]
    BY <2>1 DEF EachPort
  <2> QED BY <1>6, <2>1, <2>2 DEF Histories
<1>8. Types BY <1>1, <1>4, <1>5, <1>7 DEF Types
<1>9. \A p \in Port :
        /\ drv.mode[p] = "Stopped" /\ ~drv.Initialized[p] /\ ~drv.LateInitialized[p]
        /\ drv.CompletionQueue[p] = <<>> /\ drv.RxNextDesc[p] = 0
        /\ nic.txq[p] = <<>> /\ nic.sent[p] = 0 /\ nic.occupied[p] = 0 /\ nic.free[p] = 0
        /\ hist.good[p] = {} /\ hist.got[p] = <<>> /\ ~hist.skewed[p]
  BY <1>6 DEF Init, EachPort
<1>10. /\ nic.aggrGet = 0 /\ nic.aggrPend = 0 /\ drv.AggrNextDesc = 0 /\ nic.pool = all
       /\ hist.tx = 0 /\ hist.sent = <<>> /\ hist.queued = <<>>
  BY <1>2, <1>6 DEF Init
<1>11. Pend(nic) = <<>> BY <1>10, EmptyRing DEF Pend
<1>12. ClientPart
  <2>1. \A p \in Port : Len(drv.CompletionQueue[p]) < QUEUE_DEPTH BY <1>9, Sizes
  <2> QED BY <1>5, <1>9, <2>1 DEF ClientPart, CrashesUnopened, Sending, Ascending
<1>13. SendPart
  <2>1. Members(<<>>) = {} /\ 1 .. 0 = {} BY DEF Members
  <2>2. 0 <= MVPP2_AGGR_TXQ_SIZE /\ (0 + 0) % MVPP2_AGGR_TXQ_SIZE = 0 BY Sizes, Remainders
  <2>3. Apart(Pend(nic), nic.txq, hist.sent) BY <1>9, <1>10, <1>11 DEF Apart
  <2>4. \A b \in Nat : ~Somewhere(b, Pend(nic), nic.txq, hist.sent)
    BY <1>9, <1>10, <1>11 DEF Somewhere
  <2> QED BY <1>9, <1>10, <1>11, <2>1, <2>2, <2>3, <2>4 DEF SendPart
<1>14. CompletionPart BY <1>9, <1>10, <1>11 DEF CompletionPart
<1>15. ReceivePart
  <2>1. Stocked(<<>>, all)
    <3>1. MVPP2_BM_SIZE + 0 = MVPP2_BM_SIZE BY Sizes
    <3> QED BY <1>3, <3>1 DEF Stocked
  <2> QED BY <1>9, <1>10, <2>1 DEF ReceivePart, Fresh
<1> QED BY <1>8, <1>12, <1>13, <1>14, <1>15 DEF IInv

LEMMA Steps ==
  ASSUME ConstantsOK, IInv, [Next]_vars
  PROVE  IInv'
<1>1. ASSUME NEW p \in Port, Client(p) PROVE IInv'
  <2>1. CASE Pp2SnpReceive(p) BY <2>1, StepRead DEF Pp2SnpReceive
  <2>2. CASE ReceiveDrop(p)
    <3>1. hist' = hist BY <2>2 DEF ReceiveDrop
    <3> QED BY <2>2, <3>1, StepRead DEF ReceiveDrop
  <2> QED
    BY <1>1, <2>1, <2>2, StepStart, StepInitialize, StepTransmit, StepGetStatus, StepTooSmall,
       StepAsserts
    DEF Client
<1>2. ASSUME NEW p \in Port, NicSend(p) \/ NicRx(p) PROVE IInv' BY <1>2, StepNicSend, StepNicRx
<1>3. CASE Poll BY <1>3, StepPollAggr, StepPollSent, StepPollTimeout DEF Poll
<1>4. CASE NicAggr BY <1>4, StepNicAggr
<1>5. CASE UNCHANGED vars BY <1>5, Stuttering
<1> QED BY <1>1, <1>2, <1>3, <1>4, <1>5 DEF Next

LEMMA Inductive ==
  ASSUME ConstantsOK
  PROVE  Spec => []IInv
<1>1. Init => IInv BY Initially
<1>2. IInv /\ [Next]_vars => IInv' BY Steps
<1> QED BY <1>1, <1>2, PTL DEF Spec

(* ------------------------------- theorems ------------------------------ *)

\* The modes, the indices and the call stay what they may be, and a completion
\* queue keeps one element free.
THEOREM TypeCorrect ==
  ASSUME ConstantsOK
  PROVE  Spec => []TypeOK
<1>1. IInv => TypeOK
  BY DEF IInv, Types, TypeOK, Drivers, Calls, Rank, ClientPart
<1> QED BY <1>1, Inductive, PTL

\* A port that was opened never runs into a null queue: the queues are there
\* whenever LateInitialized is set, and Transmit is refused to a port that was
\* neither opened nor failed to open.
THEOREM CrashCorrect ==
  ASSUME ConstantsOK
  PROVE  Spec => []CrashesUnopened
<1>1. IInv => CrashesUnopened BY DEF IInv, ClientPart
<1> QED BY <1>1, Inductive, PTL

\* What GetStatus hands back has been sent, unless a Transmit of that port gave
\* up: then the counter of sent packets counts one that another call waits for.
THEOREM CompletedCorrect ==
  ASSUME ConstantsOK
  PROVE  Spec => []CompletedWasSent
<1>1. IInv => CompletedWasSent BY DEF IInv, CompletionPart, CompletedWasSent, Members
<1> QED BY <1>1, Inductive, PTL

\* The places of a ring are those of its sequence, counted from zero.
Places(f, n, get, len) ==
  /\ \A i \in 0 .. len - 1 :
       /\ i + 1 \in DOMAIN Ring(f, n, get, len)
       /\ Ring(f, n, get, len)[i + 1] = f[(get + i) % n]
  /\ \A i \in DOMAIN Ring(f, n, get, len) :
       i - 1 \in 0 .. len - 1 /\ Ring(f, n, get, len)[i] = f[(get + (i - 1)) % n]
LEMMA RingPlaces ==
  ASSUME NEW f, NEW n \in Nat \ {0}, NEW get \in Nat, NEW len \in Nat
  PROVE  Places(f, n, get, len)
<1>1. DOMAIN Ring(f, n, get, len) = 1 .. len BY DEF Ring
<1>2. \A i \in 1 .. len : Ring(f, n, get, len)[i] = f[(get + i - 1) % n] BY DEF Ring
<1>3. ASSUME NEW i \in 0 .. len - 1
      PROVE  /\ i + 1 \in DOMAIN Ring(f, n, get, len)
             /\ Ring(f, n, get, len)[i + 1] = f[(get + i) % n]
  <2>1. i + 1 \in 1 .. len /\ get + (i + 1) - 1 = get + i OBVIOUS
  <2> QED BY <1>1, <1>2, <2>1
<1>4. ASSUME NEW i \in DOMAIN Ring(f, n, get, len)
      PROVE  i - 1 \in 0 .. len - 1 /\ Ring(f, n, get, len)[i] = f[(get + (i - 1)) % n]
  <2>1. i \in 1 .. len BY <1>1
  <2>2. i - 1 \in 0 .. len - 1 /\ get + i - 1 = get + (i - 1) BY <2>1
  <2> QED BY <1>2, <2>1, <2>2
<1> QED BY <1>3, <1>4 DEF Places

\* A packet given to the hardware is sent once and is not lost, whatever calls
\* gave up on it, unless descriptors that were pending have been written over.
THEOREM SentOnceCorrect ==
  ASSUME ConstantsOK
  PROVE  Spec => []SentOnce
<1>1. ASSUME IInv, ~Overwritten
      PROVE  /\ Cardinality(Members(hist.sent)) = Len(hist.sent)
             /\ Members(hist.queued) = Members(hist.sent) \cup Pending
                                        \cup UNION {Members(nic.txq[p]) : p \in Port}
  <2>1. /\ Apart(Pend(nic), nic.txq, hist.sent) /\ Members(hist.queued) = 1 .. hist.tx
        /\ \A b \in Nat : b \in 1 .. hist.tx <=> Somewhere(b, Pend(nic), nic.txq, hist.sent)
    BY <1>1 DEF IInv, SendPart
  <2>2. hist.sent \in Seq(Nat) /\ nic.txq \in [Port -> Seq(Nat)] BY <1>1, HistFields, NicFields DEF IInv
  <2>3. \A i, j \in DOMAIN hist.sent : hist.sent[i] = hist.sent[j] => i = j BY <2>1 DEF Apart
  <2>4. Cardinality(Members(hist.sent)) = Len(hist.sent) BY <2>2, <2>3, CountDistinct
  <2>5. Pending = {Pend(nic)[i].buf : i \in DOMAIN Pend(nic)}
    <3>1. nic.aggrGet \in Nat /\ nic.aggrPend \in Nat BY <1>1, NicFields, Sizes DEF IInv
    <3>2. Places(nic.aggr, MVPP2_AGGR_TXQ_SIZE, nic.aggrGet, nic.aggrPend)
      BY <3>1, Sizes, RingPlaces
    <3> QED BY <3>2 DEF Places, Pend, Pending, PendingDescs
  <2>6. /\ Members(hist.sent) \subseteq Nat
        /\ \A p \in Port : Members(nic.txq[p]) \subseteq Nat
        /\ Pending \subseteq Nat
    <3>1. Pend(nic) \in Seq(Txds) BY <1>1, PendType DEF IInv
    <3>2. \A i \in DOMAIN Pend(nic) : Pend(nic)[i].buf \in Nat
      <4>1. PICK s \in Seq(Txds) : s = Pend(nic) BY <3>1
      <4>2. \A i \in DOMAIN s : s[i] \in Txds OBVIOUS
      <4> QED BY <4>1, <4>2 DEF Txds
    <3>3. \A q \in Seq(Nat) : Members(q) \subseteq Nat BY DEF Members
    <3> QED BY <2>2, <2>5, <3>2, <3>3
  <2>7. ASSUME NEW b
        PROVE  b \in Members(hist.queued) <=>
                 b \in Members(hist.sent) \cup Pending \cup UNION {Members(nic.txq[p]) : p \in Port}
    <3>1. b \in Members(hist.queued) => b \in Nat
      <4>1. hist.tx \in Nat BY <1>1, HistFields DEF IInv
      <4> QED BY <2>1, <4>1
    <3>2. b \in Nat => (b \in Members(hist.queued) <=> Somewhere(b, Pend(nic), nic.txq, hist.sent))
      BY <2>1
    <3>3. Somewhere(b, Pend(nic), nic.txq, hist.sent) <=>
            \/ b \in Pending \/ b \in Members(hist.sent) \/ \E p \in Port : b \in Members(nic.txq[p])
      BY <2>5 DEF Somewhere, Members
    <3> QED BY <2>6, <3>1, <3>2, <3>3
  <2> QED BY <2>4, <2>7
<1> QED BY <1>1, Inductive, PTL DEF SentOnce

LEMMA ElementType ==
  ASSUME NEW S, NEW q \in Seq(S)
  PROVE  \A i \in DOMAIN q : q[i] \in S
OBVIOUS

\* With one port in use there are no two.
LEMMA AloneFacts ==
  ASSUME ConstantsOK, ~Shared
  PROVE  Alone(drv)
<1> DEFINE open == {p \in Port : drv.LateInitialized[p]}
<1>1. ASSUME NEW p \in open, NEW q \in open, p # q PROVE FALSE
  <2>1. IsFiniteSet(open) /\ Cardinality(open) \in Nat
    <3>1. IsFiniteSet(Port) /\ open \in SUBSET Port BY Sizes
    <3> HIDE DEF open
    <3> QED BY <3>1, FS_Subset, FS_CardinalityType
  <2>2. IsFiniteSet({p}) /\ Cardinality({p}) = 1 BY FS_Singleton
  <2>3. Cardinality({p} \cup {q}) = 2
    <3>1. PICK one : one = {p} OBVIOUS
    <3>2. q \notin one /\ IsFiniteSet(one) /\ Cardinality(one) = 1 BY <1>1, <2>2, <3>1
    <3>3. Cardinality(one \cup {q}) = Cardinality(one) + 1 BY <3>2, FS_AddElement
    <3>4. Cardinality(one \cup {q}) = 2 BY <3>2, <3>3
    <3> QED BY <3>1, <3>4
  <2>4. {p} \cup {q} \in SUBSET open OBVIOUS
  <2>5. Cardinality({p} \cup {q}) <= Cardinality(open)
    <3> HIDE DEF open
    <3> QED BY <2>1, <2>4, FS_Subset
  <2>6. ~(Cardinality(open) > 1) BY DEF Shared
  <2> HIDE DEF open
  <2> QED BY <2>1, <2>3, <2>5, <2>6
<1> QED BY <1>1 DEF Alone

\* The descriptors at the waiting places are the sequence of what came.
LEMMA WaitingFacts ==
  ASSUME ConstantsOK, Types, NEW p \in Port
  PROVE  /\ \A i \in Waiting(p) :
              \E j \in DOMAIN Came(drv, nic, p) : Came(drv, nic, p)[j] = nic.descs[i]
         /\ \A j \in DOMAIN Came(drv, nic, p) :
              \E i \in Waiting(p) : Came(drv, nic, p)[j] = nic.descs[i]
         /\ \A j \in DOMAIN Came(drv, nic, p) : Came(drv, nic, p)[j] \in Rxds
<1>1. drv.RxNextDesc[p] \in Nat /\ nic.occupied[p] \in Nat BY DrvFields, NicFields, Sizes, SMTT(20)
<1>2. Places(nic.descs, MVPP2_MAX_RXD, drv.RxNextDesc[p], nic.occupied[p])
  BY <1>1, Sizes, RingPlaces
<1>3. ASSUME NEW i \in Waiting(p)
      PROVE  \E j \in DOMAIN Came(drv, nic, p) : Came(drv, nic, p)[j] = nic.descs[i]
  <2>1. PICK k \in 0 .. nic.occupied[p] - 1 : i = (drv.RxNextDesc[p] + k) % MVPP2_MAX_RXD
    BY DEF Waiting
  <2> QED BY <1>2, <2>1 DEF Places, Came
<1>4. ASSUME NEW j \in DOMAIN Came(drv, nic, p)
      PROVE  \E i \in Waiting(p) : Came(drv, nic, p)[j] = nic.descs[i]
  <2>1. /\ j - 1 \in 0 .. nic.occupied[p] - 1
        /\ Came(drv, nic, p)[j] = nic.descs[(drv.RxNextDesc[p] + (j - 1)) % MVPP2_MAX_RXD]
    BY <1>2 DEF Places, Came
  <2> QED BY <2>1 DEF Waiting
<1>5. \A j \in DOMAIN Came(drv, nic, p) : Came(drv, nic, p)[j] \in Rxds
  <2>1. PICK s \in Seq(Rxds) : s = Came(drv, nic, p) BY CameType
  <2>2. \A i \in DOMAIN s : s[i] \in Rxds OBVIOUS
  <2> QED BY <2>1, <2>2
<1> QED BY <1>3, <1>4, <1>5

\* As long as one port is in use, and no packet was too large for the client,
\* the driver reads the descriptor the hardware wrote, and every buffer is in
\* the pool or in one waiting descriptor.
THEOREM PoolCorrect ==
  ASSUME ConstantsOK
  PROVE  Spec => []PoolInStep
<1>1. ASSUME IInv, ~Shared, NEW p \in Port, drv.LateInitialized[p], ~hist.skewed[p]
      PROVE  /\ (drv.RxNextDesc[p] + nic.occupied[p]) % MVPP2_MAX_RXD = nic.rxPut[p]
             /\ Len(nic.pool) + nic.occupied[p] = MVPP2_BM_SIZE
             /\ Members(nic.pool) \cup {nic.descs[i].buf : i \in Waiting(p)} = Buffers
  <2>1. InUse(drv, nic, hist, p) BY <1>1, AloneFacts DEF IInv, ReceivePart
  <2>2. Types BY <1>1 DEF IInv
  <2>3. Len(Came(drv, nic, p)) = nic.occupied[p] BY <2>2, CameType
  <2>4. PICK pool \in Seq(0 .. MVPP2_BM_SIZE) : pool = nic.pool BY <2>2, NicFields
  <2>5. PICK came : came = Came(drv, nic, p) OBVIOUS
  <2>6. /\ Len(pool) + Len(came) = MVPP2_BM_SIZE
        /\ \A b \in 0 .. MVPP2_BM_SIZE :
             b \in Buffers <=> \/ \E i \in DOMAIN pool : pool[i] = b
                               \/ \E i \in DOMAIN came : came[i].buf = b
    BY <2>1, <2>4, <2>5 DEF InUse, Stocked
  <2>7. /\ \A i \in Waiting(p) : \E j \in DOMAIN came : came[j] = nic.descs[i]
        /\ \A j \in DOMAIN came : \E i \in Waiting(p) : came[j] = nic.descs[i]
        /\ \A j \in DOMAIN came : came[j].buf \in 0 .. MVPP2_BM_SIZE
    BY <2>2, <2>5, WaitingFacts DEF Rxds
  <2>8. {nic.descs[i].buf : i \in Waiting(p)} = {came[j].buf : j \in DOMAIN came} BY <2>7
  <2>9. \A i \in DOMAIN pool : pool[i] \in 0 .. MVPP2_BM_SIZE BY ElementType
  <2>10. Buffers \subseteq 0 .. MVPP2_BM_SIZE BY Sizes DEF Buffers
  <2>11. Members(pool) \cup {came[j].buf : j \in DOMAIN came} = Buffers
    <3> DEFINE left == {came[j].buf : j \in DOMAIN came}
    <3>1. \A b : b \in left <=> \E i \in DOMAIN came : came[i].buf = b OBVIOUS
    <3>2. \A b : b \in Members(pool) <=> \E i \in DOMAIN pool : pool[i] = b BY DEF Members
    <3>3. left \subseteq 0 .. MVPP2_BM_SIZE BY <2>7
    <3>4. Members(pool) \subseteq 0 .. MVPP2_BM_SIZE BY <2>9, <3>2
    <3> HIDE DEF left
    <3>5. \A b \in 0 .. MVPP2_BM_SIZE : b \in Buffers <=> b \in Members(pool) \/ b \in left
      BY <2>6, <3>1, <3>2
    <3>6. Members(pool) \cup left = Buffers BY <2>10, <3>3, <3>4, <3>5
    <3> QED BY <3>6 DEF left
  <2> QED BY <2>1, <2>3, <2>4, <2>5, <2>6, <2>8, <2>11 DEF InUse
<1>2. IInv => PoolInStep BY <1>1 DEF PoolInStep
<1> QED BY <1>2, Inductive, PTL

\* Types, sending, completion, the pool and crashes, as the run of the network
\* drivers states them of this one.
THEOREM RingsKept ==
  ASSUME ConstantsOK
  PROVE  Spec => []RingsInStep
<1>1. TypeOK /\ SentOnce /\ CompletedWasSent /\ PoolInStep /\ CrashesUnopened => RingsInStep
  BY DEF RingsInStep
<1> QED
  BY <1>1, TypeCorrect, SentOnceCorrect, CompletedCorrect, PoolCorrect, CrashCorrect, PTL

\* Good packets in order, none twice, none lost, under the same conditions.
THEOREM NoFrameLost ==
  ASSUME ConstantsOK
  PROVE  Spec => []ReceivedInOrder
<1>1. ASSUME IInv, ~Shared, NEW p \in Port, ~hist.skewed[p]
      PROVE  /\ Ascending(hist.got[p])
             /\ Members(hist.got[p]) \subseteq hist.good[p]
             /\ drv.LateInitialized[p] =>
                  hist.good[p] = Members(hist.got[p]) \cup
                    {nic.data[nic.descs[i].buf] :
                       i \in {j \in Waiting(p) : ~nic.descs[j].bad}}
  <2>1. CASE ~drv.LateInitialized[p]
    <3>1. hist.got[p] = <<>> /\ hist.good[p] = {} BY <1>1, <2>1 DEF IInv, ReceivePart, Fresh
    <3> QED BY <2>1, <3>1 DEF Ascending, Members
  <2>2. CASE drv.LateInitialized[p]
    <3>1. InUse(drv, nic, hist, p) BY <1>1, <2>2, AloneFacts DEF IInv, ReceivePart
    <3>2. Types BY <1>1 DEF IInv
    <3>3. PICK came : came = Came(drv, nic, p) OBVIOUS
    <3>4. PICK got \in Seq(Nat) : got = hist.got[p] BY <3>2, HistFields
    <3>5. PICK good \in SUBSET Nat : good = hist.good[p] BY <3>2, HistFields
    <3>6. PICK data \in [0 .. MVPP2_BM_SIZE -> Nat] : data = nic.data BY <3>2, NicFields
    <3>7. /\ Ascending(got)
          /\ \A n \in Nat :
               n \in good <=> \/ \E i \in DOMAIN got : got[i] = n
                              \/ \E i \in DOMAIN came : ~came[i].bad /\ data[came[i].buf] = n
      BY <3>1, <3>3, <3>4, <3>5, <3>6 DEF InUse, Arrivals
    <3>8. /\ \A i \in Waiting(p) : \E j \in DOMAIN came : came[j] = nic.descs[i]
          /\ \A j \in DOMAIN came : \E i \in Waiting(p) : came[j] = nic.descs[i]
          /\ \A j \in DOMAIN came : came[j].buf \in 0 .. MVPP2_BM_SIZE
      BY <3>2, <3>3, WaitingFacts DEF Rxds
    <3>9. {data[nic.descs[i].buf] : i \in {j \in Waiting(p) : ~nic.descs[j].bad}} =
            {data[came[j].buf] : j \in {i \in DOMAIN came : ~came[i].bad}}
      BY <3>8
    <3>10. \A i \in DOMAIN got : got[i] \in Nat OBVIOUS
    <3>11. \A j \in DOMAIN came : data[came[j].buf] \in Nat BY <3>8
    <3>12. good = Members(got) \cup {data[came[j].buf] : j \in {i \in DOMAIN came : ~came[i].bad}}
      <4> DEFINE left == {data[came[j].buf] : j \in {i \in DOMAIN came : ~came[i].bad}}
      <4>1. \A n : n \in left <=> \E i \in DOMAIN came : ~came[i].bad /\ data[came[i].buf] = n
        OBVIOUS
      <4>2. \A n : n \in Members(got) <=> \E i \in DOMAIN got : got[i] = n BY DEF Members
      <4>3. left \subseteq Nat BY <3>11
      <4>4. Members(got) \subseteq Nat BY <3>10, <4>2
      <4> HIDE DEF left
      <4>5. \A n \in Nat : n \in good <=> n \in Members(got) \/ n \in left BY <3>7, <4>1, <4>2
      <4>6. good = Members(got) \cup left BY <4>3, <4>4, <4>5
      <4> QED BY <4>6 DEF left
    <3>13. Members(got) \subseteq good BY <3>12
    <3>14. hist.good[p] = Members(hist.got[p]) \cup
             {nic.data[nic.descs[i].buf] : i \in {j \in Waiting(p) : ~nic.descs[j].bad}}
      BY <3>4, <3>5, <3>6, <3>9, <3>12
    <3> QED BY <3>4, <3>5, <3>7, <3>13, <3>14
  <2> QED BY <2>1, <2>2
<1>2. IInv => ReceivedInOrder BY <1>1 DEF ReceivedInOrder
<1> QED BY <1>2, Inductive, PTL

(* ----------------------- the promise to the client --------------------- *)

Network(p) == INSTANCE SimpleNetwork WITH
  Buffer <- Nat, mode <- drv.mode[p], held <- drv.CompletionQueue[p]

\* A step that leaves the mode and the completion queue of the port alone.
LEMMA NetworkSame ==
  ASSUME NEW p \in Port, drv'.mode[p] = drv.mode[p],
         drv'.CompletionQueue[p] = drv.CompletionQueue[p]
  PROVE  [Network(p)!SNNext]_(Network(p)!snVars)
  BY DEF Network!snVars

\* Start, Initialize and Stop, of this port or of another.
LEMMA NetworkMode ==
  ASSUME ConstantsOK, IInv, NEW p \in Port, NEW q \in Port,
         Pp2SnpStart(q) \/ Pp2DxeSnpInitialize(q) \/ Pp2SnpStop(q)
  PROVE  [Network(p)!SNNext]_(Network(p)!snVars)
<1>1. /\ drv \in Drivers /\ drv.mode \in [Port -> Rank] /\ drv.Initialized \in [Port -> BOOLEAN]
      /\ drv.LateInitialized \in [Port -> BOOLEAN]
  BY DrvFields DEF IInv
<1>2. CASE Pp2SnpStart(q)
  <2>1. drv.mode[q] = "Stopped" /\ drv' = [drv EXCEPT !.mode[q] = "Started"]
    BY <1>2 DEF Pp2SnpStart
  <2>2. /\ drv'.mode = [drv.mode EXCEPT ![q] = "Started"]
        /\ drv'.CompletionQueue = drv.CompletionQueue
    BY <1>1, <2>1 DEF Drivers
  <2>3. CASE q # p
    <3>1. drv'.mode[p] = drv.mode[p] BY <1>1, <2>2, <2>3
    <3> QED BY <2>2, <3>1, NetworkSame
  <2>4. CASE q = p
    <3>1. drv.mode[p] = "Stopped" /\ drv'.mode[p] = "Started" BY <1>1, <2>1, <2>2, <2>4
    <3> QED BY <2>2, <3>1 DEF Network!SNNext, Network!SNStart, Network!Stopped, Network!Started
  <2> QED BY <2>3, <2>4
<1>3. CASE Pp2SnpStop(q)
  <2>1. drv.mode[q] # "Stopped" /\ drv' = [drv EXCEPT !.mode[q] = "Stopped"]
    BY <1>3 DEF Pp2SnpStop
  <2>2. /\ drv'.mode = [drv.mode EXCEPT ![q] = "Stopped"]
        /\ drv'.CompletionQueue = drv.CompletionQueue
    BY <1>1, <2>1 DEF Drivers
  <2>3. CASE q # p
    <3>1. drv'.mode[p] = drv.mode[p] BY <1>1, <2>2, <2>3
    <3> QED BY <2>2, <3>1, NetworkSame
  <2>4. CASE q = p
    <3>1. drv.mode[p] # "Stopped" /\ drv'.mode[p] = "Stopped" BY <1>1, <2>1, <2>2, <2>4
    <3> QED BY <2>2, <3>1 DEF Network!SNNext, Network!SNStop, Network!Stopped
  <2> QED BY <2>3, <2>4
<1>4. CASE Pp2DxeSnpInitialize(q)
  <2>1. drv.mode[q] = "Started" BY <1>4 DEF Pp2DxeSnpInitialize
  <2>2. /\ drv'.mode = [drv.mode EXCEPT ![q] = "Initialized"]
        /\ drv'.CompletionQueue = drv.CompletionQueue
    <3>1. CASE drv' = [drv EXCEPT !.mode[q] = "Initialized"] BY <1>1, <3>1 DEF Drivers
    <3>2. ASSUME NEW t, NEW r, drv' = [drv EXCEPT !.mode[q] = "Initialized",
                   !.Initialized[q] = TRUE, !.Txqs[q] = t, !.Rxqs[q] = r]
          PROVE  /\ drv'.mode = [drv.mode EXCEPT ![q] = "Initialized"]
                 /\ drv'.CompletionQueue = drv.CompletionQueue
      BY <1>1, <3>2 DEF Drivers
    <3>3. CASE Pp2DxeOpen(q) BY <1>1, <3>3 DEF Pp2DxeOpen, Mvpp2AggrTxqHwInit, Drivers
    <3> QED BY <1>4, <3>1, <3>2, <3>3 DEF Pp2DxeSnpInitialize, Pp2DxeLateInitialize
  <2>3. CASE q # p
    <3>1. drv'.mode[p] = drv.mode[p] BY <1>1, <2>2, <2>3
    <3> QED BY <2>2, <3>1, NetworkSame
  <2>4. CASE q = p
    <3>1. drv.mode[p] = "Started" /\ drv'.mode[p] = "Initialized" BY <1>1, <2>1, <2>2, <2>4
    <3> QED
      BY <2>2, <3>1 DEF Network!SNNext, Network!SNInitialize, Network!Started, Network!Initialized
  <2> QED BY <2>3, <2>4
<1> QED BY <1>2, <1>3, <1>4

\* A packet is lent when its call returns, and handed back by GetStatus.
LEMMA NetworkQueue ==
  ASSUME ConstantsOK, IInv, NEW p \in Port,
         PollSent \/ \E q \in Port : Pp2SnpGetStatus(q)
  PROVE  [Network(p)!SNNext]_(Network(p)!snVars)
<1>1. drv \in Drivers /\ drv.CompletionQueue \in [Port -> Seq(Nat)] BY DrvFields DEF IInv
<1>2. CASE PollSent
  <2>1. /\ Sending(call) /\ call.port \in Port /\ drv.mode[call.port] = "Initialized"
        /\ \A i \in DOMAIN drv.CompletionQueue[call.port] :
             drv.CompletionQueue[call.port][i] < call.buf
    BY <1>2 DEF PollSent, Sending, IInv, ClientPart
  <2>2. PICK b \in Nat : b = call.buf BY CallFields DEF IInv
  <2>3. PICK s \in Seq(Nat) : s = drv.CompletionQueue[call.port] BY <1>1, <2>1
  <2>4. /\ drv'.mode = drv.mode
        /\ drv'.CompletionQueue = [drv.CompletionQueue EXCEPT ![call.port] = QueueInsert(s, b)]
    BY <1>1, <1>2, <2>2, <2>3 DEF PollSent, Drivers
  <2>5. CASE call.port # p
    <3>1. drv'.CompletionQueue[p] = drv.CompletionQueue[p] BY <1>1, <2>4, <2>5
    <3> QED BY <2>4, <3>1, NetworkSame
  <2>6. CASE call.port = p
    <3>1. drv'.CompletionQueue[p] = QueueInsert(s, b) BY <1>1, <2>4, <2>6
    <3>2. CASE Len(s) = QUEUE_DEPTH - 1
      <4>1. drv'.CompletionQueue[p] = drv.CompletionQueue[p]
        BY <2>3, <2>6, <3>1, <3>2 DEF QueueInsert
      <4> QED BY <2>4, <4>1, NetworkSame
    <3>3. CASE Len(s) # QUEUE_DEPTH - 1
      <4>1. drv'.CompletionQueue[p] = Append(drv.CompletionQueue[p], b)
        BY <2>3, <2>6, <3>1, <3>3 DEF QueueInsert
      <4>2. /\ drv.mode[p] = "Initialized" /\ drv'.mode[p] = drv.mode[p]
            /\ \A i \in DOMAIN drv.CompletionQueue[p] : drv.CompletionQueue[p][i] < b
        BY <2>1, <2>2, <2>4, <2>6
      <4> QED BY <4>1, <4>2 DEF Network!SNNext, Network!SNTransmit, Network!Initialized
    <3> QED BY <3>2, <3>3
  <2> QED BY <2>5, <2>6
<1>3. ASSUME NEW q \in Port, Pp2SnpGetStatus(q)
      PROVE  [Network(p)!SNNext]_(Network(p)!snVars)
  <2>1. PICK LinkUp :
          drv' = [drv EXCEPT !.MediaPresent[q] = LinkUp, !.CompletionQueue[q] = QueueRemove(@)]
    BY <1>3 DEF Pp2SnpGetStatus
  <2>2. PICK s \in Seq(Nat) : s = drv.CompletionQueue[q] BY <1>1
  <2>3. /\ drv'.mode = drv.mode
        /\ drv'.CompletionQueue = [drv.CompletionQueue EXCEPT ![q] = QueueRemove(s)]
    BY <1>1, <2>1, <2>2 DEF Drivers
  <2>4. CASE q # p
    <3>1. drv'.CompletionQueue[p] = drv.CompletionQueue[p] BY <1>1, <2>3, <2>4
    <3> QED BY <2>3, <3>1, NetworkSame
  <2>5. CASE q = p /\ s = <<>>
    <3>1. drv'.CompletionQueue[p] = drv.CompletionQueue[p]
      BY <1>1, <2>2, <2>3, <2>5 DEF QueueRemove
    <3> QED BY <2>3, <3>1, NetworkSame
  <2>6. CASE q = p /\ s # <<>>
    <3>1. drv'.CompletionQueue[p] = Tail(drv.CompletionQueue[p]) /\ drv.CompletionQueue[p] # <<>>
      BY <1>1, <2>2, <2>3, <2>6 DEF QueueRemove
    <3> QED BY <2>3, <3>1 DEF Network!SNNext, Network!SNRecycle
  <2> QED BY <2>4, <2>5, <2>6
<1> QED BY <1>2, <1>3

LEMMA NetworkStep ==
  ASSUME ConstantsOK, IInv, NEW p \in Port, [Next]_vars
  PROVE  [Network(p)!SNNext]_(Network(p)!snVars)
<1>1. drv \in Drivers BY DrvFields DEF IInv
<1>2. ASSUME NEW q \in Port, Client(q)
      PROVE  [Network(p)!SNNext]_(Network(p)!snVars)
  <2>1. CASE Pp2SnpTransmit(q)
    <3>1. drv' = [drv EXCEPT !.AggrNextDesc = AggrNext(@)] BY <2>1 DEF Pp2SnpTransmit
    <3>2. drv'.mode = drv.mode /\ drv'.CompletionQueue = drv.CompletionQueue
      BY <1>1, <3>1 DEF Drivers
    <3> QED BY <3>2, NetworkSame
  <2>2. CASE Pp2SnpReceive(q) \/ ReceiveDrop(q) \/ ReceiveTooSmall(q)
    <3>1. drv' = [drv EXCEPT !.RxNextDesc[q] = RxNext(@)]
      BY <2>2 DEF Pp2SnpReceive, ReceiveDrop, ReceiveTooSmall, Receiving, RxAdvance
    <3>2. drv'.mode = drv.mode /\ drv'.CompletionQueue = drv.CompletionQueue
      BY <1>1, <3>1 DEF Drivers
    <3> QED BY <3>2, NetworkSame
  <2>3. CASE ReceiveAsserts(q)
    <3>1. drv' = drv BY <2>3 DEF ReceiveAsserts
    <3> QED BY <3>1, NetworkSame
  <2> QED BY <1>2, <2>1, <2>2, <2>3, NetworkMode, NetworkQueue DEF Client
<1>3. CASE PollSent BY <1>3, NetworkQueue
<1>4. CASE drv' = drv BY <1>4, NetworkSame
<1>5. PollAggr \/ PollTimeout \/ NicAggr => drv' = drv BY DEF PollAggr, PollTimeout, NicAggr
<1>6. \A q \in Port : NicSend(q) \/ NicRx(q) => drv' = drv BY DEF NicSend, NicRx
<1>7. UNCHANGED vars => drv' = drv BY DEF vars
<1> QED BY <1>2, <1>3, <1>4, <1>5, <1>6, <1>7 DEF Next, Poll

\* Every port keeps the promise every network driver makes to its client: the
\* three states, and buffers handed back once and in order, whatever the other
\* ports do with what they share.
THEOREM ImplementsNetwork ==
  ASSUME ConstantsOK, NEW p \in Port
  PROVE  Spec => Network(p)!SNSpec
<1>1. Init => Network(p)!SNInit
  BY DEF Init, EachPort, Network!SNInit, Network!Stopped
<1>2. IInv /\ [Next]_vars => [Network(p)!SNNext]_(Network(p)!snVars) BY NetworkStep
<1> QED BY <1>1, <1>2, Inductive, PTL DEF Spec, Network!SNSpec
=============================================================================
