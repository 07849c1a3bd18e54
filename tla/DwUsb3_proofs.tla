--------------------------- MODULE DwUsb3_proofs ----------------------------
\* Proofs about DwUsb3, for any chunk sizes and packet sizes that divide
\* them, and any scenario: any number of bus resets, control transfers,
\* aborts, downloads of any size and Sends that time out.
EXTENDS DwUsb3, SequenceTheorems, TLAPS

\* The handlers are functions on the record of the driver.  Each has a
\* lemma that says which of its fields it sets and that it keeps the
\* type.  Fields that are handled together are kept together.
SameEp0(d, e) ==
  /\ e.st = d.st /\ e.isIn = d.isIn /\ e.stalled = d.stalled /\ e.hw0 = d.hw0
  /\ e.resp = d.resp /\ e.packet = d.packet /\ e.answer = d.answer
SameBulk(d, e) ==
  /\ e.out = d.out /\ e.in = d.in /\ e.live = d.live /\ e.refused = d.refused
  /\ e.dataBufferSize = d.dataBufferSize
SameCore(d, e) == e.addr = d.addr /\ e.state = d.state /\ e.speed = d.speed /\ e.feat = d.feat
OnlyEp0(d, e) == e \in Dev /\ e.events = d.events /\ SameBulk(d, e) /\ SameCore(d, e)

(* -------------------------- the control endpoint ----------------------- *)

\* DwUsb3DepStartXfer arms an idle direction and leaves a busy one.
Started0(d, dir, trb, e) ==
  /\ OnlyEp0(d, e)
  /\ e.st = d.st /\ e.isIn = d.isIn /\ e.stalled = d.stalled
  /\ e.packet = d.packet /\ e.answer = d.answer
  /\ e.hw0["in"] = IF dir = "in" /\ d.hw0["in"] = "none" THEN trb ELSE d.hw0["in"]
  /\ e.hw0["out"] = IF dir = "out" /\ d.hw0["out"] = "none" THEN trb ELSE d.hw0["out"]
  /\ d.hw0[dir] = "none" => e.resp = "ok"

LEMMA Start0Facts ==
  ASSUME NEW d \in Dev, NEW dir \in {"in", "out"}, NEW trb \in Descriptors
  PROVE  Started0(d, dir, trb, Start0(d, dir, trb))
<1>0. PICK e : e = Start0(d, dir, trb) OBVIOUS
<1>4. "ok" \in Responses BY DEF Responses
<1>1. CASE d.hw0[dir] # "none"
  <2>1. e = d BY <1>0, <1>1 DEF Start0
  <2> QED BY <1>0, <1>1, <2>1 DEF Started0, OnlyEp0, SameBulk, SameCore
<1>2. CASE d.hw0[dir] = "none" /\ dir = "in"
  <2>1. e = [d EXCEPT !.hw0["in"] = trb, !.nrdy = @ \ {"in"}, !.resp = "ok"]
    BY <1>0, <1>2 DEF Start0
  <2>2. e \in Dev BY <1>4, <2>1 DEF Dev
  <2>3. OnlyEp0(d, e) BY <2>1, <2>2 DEF Dev, OnlyEp0, SameBulk, SameCore
  <2>4. /\ e.st = d.st /\ e.isIn = d.isIn /\ e.stalled = d.stalled
        /\ e.packet = d.packet /\ e.answer = d.answer
        /\ e.hw0["in"] = trb /\ e.hw0["out"] = d.hw0["out"] /\ e.resp = "ok"
    BY <2>1 DEF Dev
  <2> QED BY <1>0, <1>2, <2>3, <2>4 DEF Started0
<1>3. CASE d.hw0[dir] = "none" /\ dir = "out"
  <2>1. e = [d EXCEPT !.hw0["out"] = trb, !.nrdy = @ \ {"out"}, !.resp = "ok"]
    BY <1>0, <1>3 DEF Start0
  <2>2. e \in Dev BY <1>4, <2>1 DEF Dev
  <2>3. OnlyEp0(d, e) BY <2>1, <2>2 DEF Dev, OnlyEp0, SameBulk, SameCore
  <2>4. /\ e.st = d.st /\ e.isIn = d.isIn /\ e.stalled = d.stalled
        /\ e.packet = d.packet /\ e.answer = d.answer
        /\ e.hw0["out"] = trb /\ e.hw0["in"] = d.hw0["in"] /\ e.resp = "ok"
    BY <2>1 DEF Dev
  <2> QED BY <1>0, <1>3, <2>3, <2>4 DEF Started0
<1> QED BY <1>1, <1>2, <1>3

\* A change of the control endpoint's own fields keeps the type.
Ep0Set(d, t, i, s, e) ==
  /\ OnlyEp0(d, e) /\ e.packet = d.packet /\ e.answer = d.answer /\ e.hw0 = d.hw0
  /\ e.resp = d.resp /\ e.stalled = t /\ e.isIn = i /\ e.st = s

LEMMA Ep0Update ==
  ASSUME NEW d \in Dev, NEW t \in BOOLEAN, NEW i \in BOOLEAN, NEW s \in States
  PROVE  Ep0Set(d, t, i, s, [d EXCEPT !.stalled = t, !.isIn = i, !.st = s])
<1>0. PICK e : e = [d EXCEPT !.stalled = t, !.isIn = i, !.st = s] OBVIOUS
<1>1. e \in Dev BY <1>0 DEF Dev
<1>2. OnlyEp0(d, e) BY <1>0, <1>1 DEF Dev, OnlyEp0, SameBulk, SameCore
<1>3. /\ e.packet = d.packet /\ e.answer = d.answer /\ e.hw0 = d.hw0
      /\ e.resp = d.resp /\ e.stalled = t /\ e.isIn = i /\ e.st = s
  BY <1>0 DEF Dev
<1> QED BY <1>0, <1>2, <1>3 DEF Ep0Set

NoDescriptor(d) == d.hw0["in"] = "none" /\ d.hw0["out"] = "none"

\* The control endpoint runs the descriptor of its state, and no other.
Ready(e) ==
  /\ e.hw0[Ep0Dir(e.st)] = Ep0Trb(e.st) /\ e.hw0[Other(Ep0Dir(e.st))] = "none"
  /\ e.st \notin {"IDLE", "IN_STATUS", "OUT_STATUS"} => (e.isIn <=> Ep0Dir(e.st) = "in")

\* EndPoint0DoStall arms the SETUP descriptor.
Stalls(d, e) ==
  /\ OnlyEp0(d, e) /\ e.packet = d.packet
  /\ e.stalled /\ ~e.isIn /\ e.st = "IDLE"
  /\ e.hw0["in"] = d.hw0["in"]
  /\ e.hw0["out"] = IF d.hw0["out"] = "none" THEN "setup" ELSE d.hw0["out"]

LEMMA StallFacts ==
  ASSUME NEW d \in Dev
  PROVE  Stalls(d, EndPoint0DoStall(d))
<1>1. PICK c : c = [d EXCEPT !.stalled = TRUE, !.isIn = FALSE, !.st = "IDLE"] OBVIOUS
<1>2. "IDLE" \in States BY DEF States
<1>3. /\ OnlyEp0(d, c) /\ c.packet = d.packet /\ c.hw0 = d.hw0
      /\ c.stalled = TRUE /\ c.isIn = FALSE /\ c.st = "IDLE"
  <2>1. Ep0Set(d, TRUE, FALSE, "IDLE", [d EXCEPT !.stalled = TRUE, !.isIn = FALSE, !.st = "IDLE"])
    BY <1>2, Ep0Update
  <2> QED BY <1>1, <2>1 DEF Ep0Set
<1>4. c \in Dev /\ "setup" \in Descriptors BY <1>3 DEF OnlyEp0, Descriptors
<1>5. Started0(c, "out", "setup", Start0(c, "out", "setup")) BY <1>4, Start0Facts
<1>6. EndPoint0DoStall(d) = Start0(c, "out", "setup") BY <1>1 DEF EndPoint0DoStall, DwUsb3Ep0OutStart
<1> QED BY <1>3, <1>5, <1>6 DEF Stalls, Started0, OnlyEp0, SameBulk, SameCore

\* DwUsb3EndPoint0StartTransfer in the direction of the request.
LEMMA StartTransferFacts ==
  ASSUME NEW d \in Dev
  PROVE  Started0(d, IF d.isIn THEN "in" ELSE "out",
                  IF d.st \in {"IN_STATUS", "OUT_STATUS"} THEN "status" ELSE "data",
                  DwUsb3EndPoint0StartTransfer(d))
<1>1. PICK dir \in {"in", "out"} : dir = IF d.isIn THEN "in" ELSE "out" OBVIOUS
<1>2. PICK trb \in Descriptors :
        trb = IF d.st \in {"IN_STATUS", "OUT_STATUS"} THEN "status" ELSE "data"
  BY DEF Descriptors
<1>3. Started0(d, dir, trb, Start0(d, dir, trb)) BY <1>1, <1>2, Start0Facts
<1>4. DwUsb3EndPoint0StartTransfer(d) = Start0(d, dir, trb)
  BY <1>1, <1>2 DEF DwUsb3EndPoint0StartTransfer
<1> QED BY <1>1, <1>2, <1>3, <1>4

\* DwUsb3HandleEndPoint0 goes on to the state that follows, with its
\* descriptor, and to no data stage; a short data stage is stalled.
Follows(d, e) ==
  /\ OnlyEp0(d, e) /\ e.packet = d.packet
  /\ Ready(e) /\ e.st \notin {"IN_DATA", "OUT_DATA"}
  /\ e.stalled <=> d.stalled \/ (d.st \in {"IN_DATA", "OUT_DATA"} /\ d.resp = "short")

LEMMA HandleFacts ==
  ASSUME NEW d \in Dev, NoDescriptor(d), d.st # "IDLE",
         d.st \notin {"IN_STATUS", "OUT_STATUS"} => (d.isIn <=> Ep0Dir(d.st) = "in")
  PROVE  Follows(d, DwUsb3OsHandleEndPoint0(d))
<1>0. PICK e : e = DwUsb3OsHandleEndPoint0(d) OBVIOUS
<1>1. e = DwUsb3HandleEndPoint0(d) BY <1>0 DEF DwUsb3OsHandleEndPoint0
<1>2. /\ d.st \in States /\ d.isIn \in BOOLEAN /\ d.stalled \in BOOLEAN
      /\ States = {"IDLE", "IN_DATA", "OUT_DATA", "IN_WAIT_NRDY", "OUT_WAIT_NRDY", "IN_STATUS",
                   "OUT_STATUS"}
  BY DEF Dev, States
<1>3. CASE d.st \in {"IN_DATA", "OUT_DATA"} /\ d.resp = "short"
  <2>1. e = EndPoint0DoStall(d) BY <1>1, <1>3 DEF DwUsb3HandleEndPoint0, NoDescriptor
  <2>2. Stalls(d, e) BY <2>1, StallFacts
  <2> QED BY <1>0, <1>3, <2>2 DEF Stalls, Follows, Ready, Ep0Dir, Ep0Trb, Other, NoDescriptor
<1>4. CASE d.st \in {"IN_DATA", "OUT_DATA"} /\ d.resp # "short"
  <2>1. e = EndPoint0CompleteRequest(d) BY <1>1, <1>4 DEF DwUsb3HandleEndPoint0, NoDescriptor
  <2>2. PICK i \in BOOLEAN, s \in States :
          /\ i = ~d.isIn /\ s = IF d.isIn THEN "OUT_WAIT_NRDY" ELSE "IN_WAIT_NRDY"
    BY <1>2
  <2>3. e = [d EXCEPT !.isIn = i, !.st = s]
    BY <1>2, <2>1, <2>2 DEF EndPoint0CompleteRequest
  <2>4. e = [d EXCEPT !.stalled = d.stalled, !.isIn = i, !.st = s] BY <2>3 DEF Dev
  <2>5. /\ OnlyEp0(d, e) /\ e.packet = d.packet /\ e.hw0 = d.hw0
        /\ e.stalled = d.stalled /\ e.isIn = i /\ e.st = s
    <3>1. Ep0Set(d, d.stalled, i, s, [d EXCEPT !.stalled = d.stalled, !.isIn = i, !.st = s])
      BY <1>2, <2>2, Ep0Update
    <3> QED BY <2>4, <3>1 DEF Ep0Set
  <2> QED BY <1>0, <1>2, <1>4, <2>2, <2>5 DEF Follows, Ready, Ep0Dir, Ep0Trb, Other, NoDescriptor
<1>5. CASE d.st \in {"IN_WAIT_NRDY", "OUT_WAIT_NRDY"}
  <2>1. e = SetupStatusPhase(d) BY <1>1, <1>5 DEF DwUsb3HandleEndPoint0
  <2>2. PICK s \in States : s = IF d.isIn THEN "IN_STATUS" ELSE "OUT_STATUS" BY <1>2
  <2>3. PICK c : c = [d EXCEPT !.st = s] OBVIOUS
  <2>4. c = [d EXCEPT !.stalled = d.stalled, !.isIn = d.isIn, !.st = s] BY <2>3 DEF Dev
  <2>5. /\ OnlyEp0(d, c) /\ c.packet = d.packet /\ c.hw0 = d.hw0
        /\ c.stalled = d.stalled /\ c.isIn = d.isIn /\ c.st = s
    <3>1. Ep0Set(d, d.stalled, d.isIn, s,
                 [d EXCEPT !.stalled = d.stalled, !.isIn = d.isIn, !.st = s])
      BY <1>2, <2>2, Ep0Update
    <3> QED BY <2>4, <3>1 DEF Ep0Set
  <2>6. e = DwUsb3EndPoint0StartTransfer(c) BY <2>1, <2>2, <2>3 DEF SetupStatusPhase
  <2>7. Started0(c, IF c.isIn THEN "in" ELSE "out", "status", e)
    <3>1. c \in Dev /\ c.st \in {"IN_STATUS", "OUT_STATUS"} BY <2>2, <2>5 DEF OnlyEp0
    <3> QED BY <2>6, <3>1, StartTransferFacts
  <2>8. OnlyEp0(d, e) /\ e.packet = d.packet
    BY <2>5, <2>7 DEF Started0, OnlyEp0, SameBulk, SameCore
  <2>9. e.st = s /\ e.stalled = d.stalled BY <2>5, <2>7 DEF Started0
  <2>10. /\ e.hw0["in"] = IF d.isIn THEN "status" ELSE "none"
         /\ e.hw0["out"] = IF d.isIn THEN "none" ELSE "status"
    BY <1>2, <2>5, <2>7 DEF Started0, NoDescriptor
  <2> QED BY <1>0, <1>2, <1>5, <2>2, <2>8, <2>9, <2>10 DEF Follows, Ready, Ep0Dir, Ep0Trb, Other
<1>6. CASE d.st \in {"IN_STATUS", "OUT_STATUS"}
  <2>1. PICK c : c = [d EXCEPT !.st = "IDLE", !.isIn = FALSE] OBVIOUS
  <2>2. c = [d EXCEPT !.stalled = d.stalled, !.isIn = FALSE, !.st = "IDLE"] BY <2>1 DEF Dev
  <2>3. /\ OnlyEp0(d, c) /\ c.packet = d.packet /\ c.hw0 = d.hw0
        /\ c.stalled = d.stalled /\ c.st = "IDLE"
    <3>1. Ep0Set(d, d.stalled, FALSE, "IDLE",
                 [d EXCEPT !.stalled = d.stalled, !.isIn = FALSE, !.st = "IDLE"])
      BY <1>2, Ep0Update
    <3> QED BY <2>2, <3>1 DEF Ep0Set
  <2>4. e = Start0(c, "out", "setup")
    BY <1>1, <1>6, <2>1 DEF DwUsb3HandleEndPoint0, DwUsb3Ep0OutStart
  <2>5. Started0(c, "out", "setup", e)
    BY <2>3, <2>4, Start0Facts DEF OnlyEp0, Descriptors
  <2>6. OnlyEp0(d, e) /\ e.packet = d.packet
    BY <2>3, <2>5 DEF Started0, OnlyEp0, SameBulk, SameCore
  <2>7. /\ e.st = "IDLE" /\ e.stalled = d.stalled
        /\ e.hw0["in"] = "none" /\ e.hw0["out"] = "setup"
    BY <2>3, <2>5 DEF Started0, NoDescriptor
  <2> QED BY <1>0, <1>6, <2>6, <2>7 DEF Follows, Ready, Ep0Dir, Ep0Trb, Other
<1> QED BY <1>2, <1>3, <1>4, <1>5, <1>6

(* --------------------------- the bulk endpoints ------------------------ *)

LEMMA DivFacts ==
  ASSUME NEW a \in Nat, NEW n \in Nat \ {0}
  PROVE  a \div n \in Nat /\ a % n \in 0 .. n - 1 /\ a = (a \div n) * n + (a % n)
  OBVIOUS

\* A length that the chunk size bounds stays below it when it is rounded up
\* to whole packets, which divide the chunk size.
LEMMA RoundUpFacts ==
  ASSUME NEW mp \in Nat \ {0}, NEW top \in Nat, top % mp = 0, NEW n \in 1 .. top
  PROVE  RoundUp(n, mp) \in n .. top
<1>1. PICK q \in Nat : top = q * mp
  <2>1. top \div mp \in Nat /\ top = (top \div mp) * mp + (top % mp) BY DivFacts
  <2>2. PICK q \in Nat : q = top \div mp BY <2>1
  <2>3. q * mp \in Nat OBVIOUS
  <2> QED BY <2>1, <2>2, <2>3
<1>2. PICK m \in Nat : m = n + mp - 1 OBVIOUS
<1>3. PICK k \in Nat, r \in 0 .. mp - 1 : m = k * mp + r /\ k = m \div mp
  <2>1. m \div mp \in Nat /\ m % mp \in 0 .. mp - 1 /\ m = (m \div mp) * mp + (m % mp)
    BY DivFacts
  <2> QED BY <2>1
<1>4. k * mp \in Nat OBVIOUS
<1>5. n <= k * mp BY <1>2, <1>3, <1>4
<1>6. k <= q
  <2> SUFFICES ASSUME k > q PROVE FALSE OBVIOUS
  <2>1. PICK j \in Nat : k = q + 1 + j
    <3>1. k - q - 1 \in Nat OBVIOUS
    <3> QED BY <3>1
  <2>2. k * mp = q * mp + mp + j * mp BY <2>1
  <2>3. j * mp \in Nat /\ q * mp \in Nat OBVIOUS
  <2>4. m >= top + mp BY <1>1, <1>3, <2>2, <2>3
  <2> QED BY <1>2, <2>4
<1>7. k * mp <= q * mp
  <2>1. PICK j \in Nat : q = k + j
    <3>1. q - k \in Nat BY <1>6
    <3> QED BY <3>1
  <2>2. q * mp = k * mp + j * mp /\ j * mp \in Nat /\ k * mp \in Nat BY <2>1
  <2> QED BY <2>2
<1>8. RoundUp(n, mp) = k * mp BY <1>2, <1>3 DEF RoundUp
<1> QED BY <1>1, <1>4, <1>5, <1>7, <1>8

\* The next chunk is not empty and fits in the buffer.
LEMMA NextLengthFacts ==
  ASSUME NEW left \in Nat
  PROVE  NextLength(left).len \in 1 .. DATA_SIZE /\ NextLength(left).left \in Nat
<1>1. CMD_SIZE \in Nat /\ DATA_SIZE \in Nat /\ 0 < CMD_SIZE /\ CMD_SIZE <= DATA_SIZE
  BY SizesAssumption
<1> QED BY <1>1 DEF NextLength

\* The OUT endpoint, what is left to arm and whether a start was refused.
OutSet(d, n, o, r, e) ==
  /\ e \in Dev /\ e.events = d.events
  /\ SameEp0(d, e) /\ SameCore(d, e)
  /\ e.in = d.in /\ e.live = d.live
  /\ e.dataBufferSize = n /\ e.out = o /\ e.refused = r

LEMMA OutUpdate ==
  ASSUME NEW d \in Dev, NEW n \in Nat, NEW o \in OutEndpoint, NEW r \in BOOLEAN
  PROVE  OutSet(d, n, o, r, [d EXCEPT !.dataBufferSize = n, !.out = o, !.refused = r])
<1>0. PICK e : e = [d EXCEPT !.dataBufferSize = n, !.out = o, !.refused = r] OBVIOUS
<1>1. e \in Dev BY <1>0 DEF Dev
<1>2. e.events = d.events /\ SameEp0(d, e) /\ SameCore(d, e)
  BY <1>0 DEF Dev, SameEp0, SameCore
<1>3. /\ e.in = d.in /\ e.live = d.live
      /\ e.dataBufferSize = n /\ e.out = o /\ e.refused = r
  BY <1>0 DEF Dev
<1> QED BY <1>0, <1>1, <1>2, <1>3 DEF OutSet

\* A new buffer on the OUT endpoint is armed and, unless it runs, started.
Armed(d, e) ==
  /\ e \in Dev /\ e.events = d.events
  /\ SameEp0(d, e) /\ SameCore(d, e)
  /\ e.in = d.in /\ e.live = d.live
  /\ e.out.started /\ (e.out.active <=> ~d.out.started \/ d.out.active)
  /\ e.out.hwo /\ e.out.trb /\ e.out.got = 0 /\ e.out.len \in 1 .. DATA_SIZE
  /\ e.out.mps = d.out.mps
  /\ (e.refused <=> d.refused \/ (~d.out.started /\ d.out.active))

LEMMA ArmOutFacts ==
  ASSUME NEW d \in Dev, d.speed \in Speeds
  PROVE  Armed(d, ArmOut(d))
<1>0. PICK e : e = ArmOut(d) OBVIOUS
<1>1. PICK n \in Nat : n = NextLength(d.dataBufferSize).left BY NextLengthFacts DEF Dev
<1>2. PICK len \in 1 .. DATA_SIZE :
        len = RoundUp(NextLength(d.dataBufferSize).len, MaxPacket[d.speed])
  <2>1. PICK mp \in Nat \ {0} : mp = MaxPacket[d.speed] /\ DATA_SIZE % mp = 0
    BY SizesAssumption
  <2>2. PICK k \in 1 .. DATA_SIZE : k = NextLength(d.dataBufferSize).len
    BY NextLengthFacts DEF Dev
  <2>3. DATA_SIZE \in Nat BY SizesAssumption
  <2>4. RoundUp(k, mp) \in k .. DATA_SIZE BY <2>1, <2>3, RoundUpFacts
  <2> QED BY <2>1, <2>2, <2>3, <2>4
<1>3. d.out \in OutEndpoint /\ d.refused \in BOOLEAN BY DEF Dev
<1>4. len \in Nat BY SizesAssumption
<1>5. d.out.started \in BOOLEAN /\ d.out.active \in BOOLEAN BY <1>3 DEF OutEndpoint
<1>6. PICK c : c = [d EXCEPT !.dataBufferSize = n, !.out.trb = TRUE,
                      !.out.hwo = TRUE, !.out.got = 0, !.out.len = len]
  OBVIOUS
<1>7. e = IF d.out.started THEN c ELSE StartBulk(c, "out")
  BY <1>0, <1>1, <1>2, <1>6 DEF ArmOut
<1>8. PICK o : o = [d.out EXCEPT !.trb = TRUE, !.hwo = TRUE, !.got = 0, !.len = len] OBVIOUS
<1>9. /\ o \in OutEndpoint /\ o.started = d.out.started /\ o.active = d.out.active
      /\ o.mps = d.out.mps /\ o.trb /\ o.hwo /\ o.got = 0 /\ o.len = len
  BY <1>3, <1>4, <1>8 DEF OutEndpoint
<1>10. c = [d EXCEPT !.dataBufferSize = n, !.out = o] BY <1>6, <1>8 DEF Dev
<1>11. CASE d.out.started
  <2>1. e = [d EXCEPT !.dataBufferSize = n, !.out = o, !.refused = d.refused]
    BY <1>7, <1>10, <1>11 DEF Dev
  <2>2. OutSet(d, n, o, d.refused, e) BY <1>3, <1>9, <2>1, OutUpdate
  <2> QED BY <1>0, <1>3, <1>5, <1>9, <1>11, <2>2 DEF OutSet, Armed
<1>12. CASE ~d.out.started
  <2>1. PICK p : p = [o EXCEPT !.active = TRUE, !.started = TRUE] OBVIOUS
  <2>2. /\ p \in OutEndpoint /\ p.started /\ p.active
        /\ p.mps = d.out.mps /\ p.trb /\ p.hwo /\ p.got = 0 /\ p.len = len
    BY <1>9, <2>1 DEF OutEndpoint
  <2>3. c.out = o /\ c.out.active = d.out.active BY <1>9, <1>10 DEF Dev
  <2>4. CASE d.out.active
    <3>1. e = [c EXCEPT !.refused = TRUE, !.out.started = TRUE]
      BY <1>7, <1>12, <2>3, <2>4 DEF StartBulk, Dev
    <3>2. p = [o EXCEPT !.started = TRUE] BY <1>9, <2>1, <2>4 DEF OutEndpoint
    <3>3. e = [d EXCEPT !.dataBufferSize = n, !.out = p, !.refused = TRUE]
      BY <1>10, <3>1, <3>2 DEF Dev
    <3>4. OutSet(d, n, p, TRUE, e) BY <1>3, <2>2, <3>3, OutUpdate
    <3> QED BY <1>0, <1>3, <1>5, <1>12, <2>2, <2>4, <3>4 DEF OutSet, Armed
  <2>5. CASE ~d.out.active
    <3>1. e = [c EXCEPT !.out.active = TRUE, !.out.started = TRUE]
      BY <1>7, <1>12, <2>3, <2>5 DEF StartBulk, Dev
    <3>3. e = [d EXCEPT !.dataBufferSize = n, !.out = p, !.refused = d.refused]
      BY <1>10, <2>1, <3>1 DEF Dev
    <3>4. OutSet(d, n, p, d.refused, e) BY <1>3, <2>2, <3>3, OutUpdate
    <3> QED BY <1>0, <1>3, <1>5, <1>12, <2>2, <2>5, <3>4 DEF OutSet, Armed
  <2> QED BY <1>5, <2>4, <2>5
<1> QED BY <1>5, <1>11, <1>12

\* DwUsb3EndPointcompleteRequest: the next transfer is armed if there is one
\* that the controller has given back, which runs no more.
Completed(d, e) ==
  /\ e \in Dev /\ e.events = d.events
  /\ SameEp0(d, e) /\ SameCore(d, e)
  /\ e.in = d.in /\ e.live = d.live /\ e.out.mps = d.out.mps
  /\ Completes(d) =>
       /\ e.out.started /\ e.out.active /\ e.out.hwo /\ e.out.trb
       /\ e.out.got = 0 /\ e.out.len \in 1 .. DATA_SIZE
       /\ e.refused <=> d.refused \/ d.out.active
  /\ ~Completes(d) =>
       /\ ~e.out.started /\ e.out.active = d.out.active /\ e.out.hwo = d.out.hwo
       /\ e.out.trb = d.out.trb /\ e.out.got = d.out.got /\ e.out.len = d.out.len
       /\ e.refused = d.refused

LEMMA CompleteOutFacts ==
  ASSUME NEW d \in Dev, d.speed \in Speeds
  PROVE  Completed(d, CompleteOut(d))
<1>0. PICK e : e = CompleteOut(d) OBVIOUS
<1>1. /\ d.out \in OutEndpoint /\ d.refused \in BOOLEAN /\ d.dataBufferSize \in Nat
      /\ d.out.started \in BOOLEAN /\ d.out.active \in BOOLEAN /\ d.out.hwo \in BOOLEAN
      /\ d.out.trb \in BOOLEAN
  BY DEF Dev, OutEndpoint
<1>2. CASE ~Completes(d)
  <2>1. PICK o : o = [d.out EXCEPT !.started = FALSE] OBVIOUS
  <2>2. /\ o \in OutEndpoint /\ ~o.started /\ o.active = d.out.active /\ o.hwo = d.out.hwo
        /\ o.trb = d.out.trb /\ o.got = d.out.got /\ o.len = d.out.len /\ o.mps = d.out.mps
    BY <1>1, <2>1 DEF OutEndpoint
  <2>3. e = [d EXCEPT !.out.started = FALSE] BY <1>0, <1>2 DEF CompleteOut
  <2>4. e = [d EXCEPT !.dataBufferSize = d.dataBufferSize, !.out = o, !.refused = d.refused]
    BY <2>1, <2>3 DEF Dev
  <2>5. OutSet(d, d.dataBufferSize, o, d.refused, e) BY <1>1, <2>2, <2>4, OutUpdate
  <2> QED BY <1>0, <1>1, <1>2, <2>2, <2>5 DEF OutSet, Completed
<1>3. CASE Completes(d)
  <2>1. PICK o : o = [d.out EXCEPT !.started = FALSE, !.trb = FALSE] OBVIOUS
  <2>2. o \in OutEndpoint /\ ~o.started /\ o.active = d.out.active /\ o.mps = d.out.mps
    BY <1>1, <2>1 DEF OutEndpoint
  <2>3. PICK c : c = [d EXCEPT !.out.started = FALSE, !.out.trb = FALSE] OBVIOUS
  <2>4. c = [d EXCEPT !.dataBufferSize = d.dataBufferSize, !.out = o, !.refused = d.refused]
    BY <2>1, <2>3 DEF Dev
  <2>5. OutSet(d, d.dataBufferSize, o, d.refused, c) BY <1>1, <2>2, <2>4, OutUpdate
  <2>6. e = ArmOut(c) BY <1>0, <1>3, <2>3 DEF CompleteOut
  <2>7. Armed(c, e) BY <2>5, <2>6, ArmOutFacts DEF OutSet, SameCore
  <2> QED BY <1>0, <1>1, <1>3, <2>2, <2>5, <2>7 DEF OutSet, Armed, Completed, SameEp0, SameCore
<1> QED BY <1>2, <1>3

\* A bus reset ends the transfers the driver knows of.
WasReset(d, e) ==
  /\ e \in Dev /\ e.events = d.events /\ SameEp0(d, e)
  /\ e.addr = 0 /\ ~e.live /\ e.feat = d.feat \ {"ltm"}
  /\ e.state = d.state /\ e.speed = d.speed /\ e.refused = d.refused
  /\ e.in.started = d.in.started /\ e.in.hwo = d.in.hwo /\ e.in.sent = d.in.sent
  /\ e.in.msg = d.in.msg /\ (e.in.active <=> d.in.active /\ ~d.in.started)
  /\ e.out.started = d.out.started /\ e.out.hwo = d.out.hwo /\ e.out.got = d.out.got
  /\ e.out.len = d.out.len /\ (e.out.active <=> d.out.active /\ ~d.out.started)

LEMMA ResetFacts ==
  ASSUME NEW d \in Dev
  PROVE  WasReset(d, DwUsb3HandleUsbResetInterrupt(d))
<1>0. PICK e : e = DwUsb3HandleUsbResetInterrupt(d) OBVIOUS
<1>1. /\ d.out \in OutEndpoint /\ d.in \in InEndpoint
      /\ d.out.started \in BOOLEAN /\ d.out.active \in BOOLEAN
      /\ d.in.started \in BOOLEAN /\ d.in.active \in BOOLEAN
  BY DEF Dev, OutEndpoint, InEndpoint
<1>2. PICK i : i = IF d.in.started THEN [d.in EXCEPT !.active = FALSE] ELSE d.in OBVIOUS
<1>3. PICK o : o = IF d.out.started THEN [d.out EXCEPT !.active = FALSE] ELSE d.out OBVIOUS
<1>4. /\ i \in InEndpoint
      /\ i.started = d.in.started /\ i.hwo = d.in.hwo /\ i.sent = d.in.sent
      /\ i.msg = d.in.msg /\ (i.active <=> d.in.active /\ ~d.in.started)
  BY <1>1, <1>2 DEF InEndpoint
<1>5. /\ o \in OutEndpoint
      /\ o.started = d.out.started /\ o.hwo = d.out.hwo /\ o.got = d.out.got
      /\ o.len = d.out.len /\ (o.active <=> d.out.active /\ ~d.out.started)
  BY <1>1, <1>3 DEF OutEndpoint
<1>6. PICK c : c = StopBulk(d, "in") OBVIOUS
<1>7. c = [d EXCEPT !.in = i]
  <2>1. CASE d.in.started
    <3>1. c = [d EXCEPT !.in.active = FALSE] BY <1>6, <2>1 DEF StopBulk, Dev
    <3> QED BY <1>2, <2>1, <3>1 DEF Dev
  <2>2. CASE ~d.in.started
    <3>1. c = d BY <1>6, <2>2 DEF StopBulk, Dev
    <3> QED BY <1>2, <2>2, <3>1 DEF Dev
  <2> QED BY <2>1, <2>2
<1>8. c \in Dev /\ c.out = d.out BY <1>4, <1>7 DEF Dev
<1>9. PICK b : b = StopBulk(c, "out") OBVIOUS
<1>10. b = [d EXCEPT !.in = i, !.out = o]
  <2>1. CASE d.out.started
    <3>1. b = [c EXCEPT !.out.active = FALSE] BY <1>8, <1>9, <2>1 DEF StopBulk, Dev
    <3>2. o = [d.out EXCEPT !.active = FALSE] BY <1>3, <2>1
    <3> QED BY <1>7, <3>1, <3>2 DEF Dev
  <2>2. CASE ~d.out.started
    <3>1. b = c /\ o = d.out BY <1>3, <1>8, <1>9, <2>2 DEF StopBulk, Dev
    <3> QED BY <1>7, <3>1 DEF Dev
  <2> QED BY <2>1, <2>2
<1>11. e = [b EXCEPT !.addr = 0, !.live = FALSE, !.feat = @ \ {"ltm"}]
  BY <1>0, <1>6, <1>9 DEF DwUsb3HandleUsbResetInterrupt
<1>12. e = [d EXCEPT !.in = i, !.out = o, !.addr = 0, !.live = FALSE, !.feat = @ \ {"ltm"}]
  BY <1>10, <1>11 DEF Dev
<1>13. e \in Dev BY <1>4, <1>5, <1>12 DEF Dev
<1>14. SameEp0(d, e) /\ e.events = d.events BY <1>12 DEF Dev, SameEp0
<1>15. /\ e.addr = 0 /\ ~e.live /\ e.feat = d.feat \ {"ltm"}
       /\ e.state = d.state /\ e.speed = d.speed /\ e.refused = d.refused
       /\ e.in = i /\ e.out = o
  BY <1>12 DEF Dev
<1> QED BY <1>0, <1>4, <1>5, <1>13, <1>14, <1>15 DEF WasReset

\* DwUsb3DoSetConfig sets up both bulk endpoints for the speed at hand.
Configured(d, e) ==
  /\ e \in Dev /\ e.events = d.events
  /\ e.packet = d.packet /\ e.stalled = d.stalled /\ e.hw0 = d.hw0 /\ e.resp = d.resp
  /\ e.isIn /\ e.st = "IN_WAIT_NRDY"
  /\ e.addr = d.addr /\ e.state = "CONFIGURED" /\ e.speed = d.speed
  /\ e.feat = (d.feat \ {"in", "out"}) \cup {"configured"}
  /\ e.live /\ (e.refused <=> d.refused \/ d.out.active)
  /\ ~e.in.started /\ ~e.in.hwo /\ e.in.active = d.in.active /\ e.in.sent = d.in.sent
  /\ e.in.msg = d.in.msg /\ e.in.mps = d.speed
  /\ e.out.started /\ e.out.active /\ e.out.hwo /\ e.out.trb /\ e.out.mps = d.speed
  /\ e.out.got = 0 /\ e.out.len \in 1 .. DATA_SIZE

LEMMA SetConfigFacts ==
  ASSUME NEW d \in Dev, d.speed \in Speeds
  PROVE  Configured(d, DwUsb3DoSetConfig(d))
<1>0. PICK e : e = DwUsb3DoSetConfig(d) OBVIOUS
<1>1. /\ d.out \in OutEndpoint /\ d.in \in InEndpoint /\ d.speed \in SpeedsOrNone
      /\ d.feat \in SUBSET Features /\ "configured" \in Features
      /\ d.refused \in BOOLEAN /\ d.out.active \in BOOLEAN
  BY DEF Dev, OutEndpoint, Features
<1>2. PICK i : i = [d.in EXCEPT !.started = FALSE, !.hwo = FALSE, !.mps = d.speed] OBVIOUS
<1>3. /\ i \in InEndpoint /\ ~i.started /\ ~i.hwo /\ i.active = d.in.active
      /\ i.sent = d.in.sent /\ i.msg = d.in.msg /\ i.mps = d.speed
  BY <1>1, <1>2 DEF InEndpoint
<1>4. PICK o : o = [d.out EXCEPT !.started = FALSE, !.hwo = FALSE, !.mps = d.speed] OBVIOUS
<1>5. o \in OutEndpoint /\ ~o.started /\ o.active = d.out.active /\ o.mps = d.speed
  BY <1>1, <1>4 DEF OutEndpoint
<1>6. PICK c : c = Usb3PcdEpEnable(d, "in") OBVIOUS
<1>7. c = [d EXCEPT !.in = i, !.feat = @ \ {"in"}]
  BY <1>2, <1>6 DEF Usb3PcdEpEnable, DwUsb3EpActivate, Dev
<1>8. c \in Dev /\ c.out = d.out /\ c.speed = d.speed BY <1>3, <1>7 DEF Dev
<1>9. PICK b : b = Usb3PcdEpEnable(c, "out") OBVIOUS
<1>10. b = [c EXCEPT !.out = o, !.feat = @ \ {"out"}]
  BY <1>4, <1>8, <1>9 DEF Usb3PcdEpEnable, DwUsb3EpActivate, Dev
<1>11. PICK a : a = [b EXCEPT !.state = "CONFIGURED", !.feat = @ \cup {"configured"}] OBVIOUS
<1>12. PICK f : f = (d.feat \ {"in", "out"}) \cup {"configured"} OBVIOUS
<1>13. f \in SUBSET Features /\ f = ((d.feat \ {"in"}) \ {"out"}) \cup {"configured"}
  BY <1>1, <1>12
<1>14. a = [d EXCEPT !.in = i, !.out = o, !.state = "CONFIGURED", !.feat = f]
  BY <1>7, <1>10, <1>11, <1>13 DEF Dev
<1>15. "CONFIGURED" \in DeviceStates BY DEF DeviceStates
<1>16. a \in Dev BY <1>3, <1>5, <1>13, <1>14, <1>15 DEF Dev
<1>17. SameEp0(d, a) /\ a.events = d.events BY <1>14 DEF Dev, SameEp0
<1>18. /\ a.addr = d.addr /\ a.state = "CONFIGURED" /\ a.speed = d.speed /\ a.feat = f
       /\ a.in = i /\ a.out = o /\ a.refused = d.refused
  BY <1>14 DEF Dev
<1>19. PICK g : g = ArmOut(a) OBVIOUS
<1>20. Armed(a, g) BY <1>16, <1>18, <1>19, ArmOutFacts
<1>21. e = [g EXCEPT !.isIn = TRUE, !.st = "IN_WAIT_NRDY", !.live = TRUE]
  BY <1>0, <1>6, <1>9, <1>11, <1>19 DEF DwUsb3DoSetConfig
<1>22. "IN_WAIT_NRDY" \in States BY DEF States
<1>23. g \in Dev BY <1>20 DEF Armed
<1>24. e \in Dev BY <1>21, <1>22, <1>23 DEF Dev
<1>25. /\ e.isIn /\ e.st = "IN_WAIT_NRDY" /\ e.live
       /\ e.packet = g.packet /\ e.stalled = g.stalled /\ e.hw0 = g.hw0 /\ e.resp = g.resp
       /\ e.events = g.events /\ e.in = g.in /\ e.out = g.out /\ e.refused = g.refused
       /\ SameCore(g, e)
  BY <1>21, <1>23 DEF Dev, SameCore
<1>26. /\ g.packet = d.packet /\ g.stalled = d.stalled /\ g.hw0 = d.hw0 /\ g.resp = d.resp
       /\ g.events = d.events /\ SameCore(a, g) /\ g.in = i
  BY <1>17, <1>18, <1>20 DEF Armed, SameEp0
<1>28. g.refused <=> d.refused \/ d.out.active BY <1>1, <1>5, <1>18, <1>20 DEF Armed
<1>27. /\ g.out.started /\ g.out.active /\ g.out.hwo /\ g.out.trb /\ g.out.mps = d.speed
       /\ g.out.got = 0 /\ g.out.len \in 1 .. DATA_SIZE
  BY <1>5, <1>18, <1>20 DEF Armed
<1>29. /\ e.events = d.events /\ e.packet = d.packet /\ e.stalled = d.stalled /\ e.hw0 = d.hw0
       /\ e.resp = d.resp /\ e.in = i
       /\ e.addr = d.addr /\ e.state = "CONFIGURED" /\ e.speed = d.speed /\ e.feat = f
  BY <1>18, <1>25, <1>26 DEF SameCore
<1>30. e.refused <=> d.refused \/ d.out.active BY <1>25, <1>28
<1> QED BY <1>0, <1>3, <1>12, <1>24, <1>25, <1>27, <1>29, <1>30 DEF Configured

(* -------------------------------- requests ----------------------------- *)

\* The features that requests set and clear.
LEMMA FeatureRequests ==
  /\ DOMAIN Sets = {"setU1", "setU2", "setLtm", "haltIn", "haltOut"}
  /\ DOMAIN Clears = {"clearU1", "clearU2", "clearLtm", "clearIn", "clearOut"}
  /\ \A req \in DOMAIN Sets : Sets[req] \in Features
  /\ \A req \in DOMAIN Clears : Clears[req] \in Features
<1>1. DOMAIN Sets = {"setU1", "setU2", "setLtm", "haltIn", "haltOut"} BY DEF Sets
<1>2. DOMAIN Clears = {"clearU1", "clearU2", "clearLtm", "clearIn", "clearOut"} BY DEF Clears
<1>3. ASSUME NEW req \in DOMAIN Sets PROVE Sets[req] \in Features
  BY <1>1 DEF Sets, Features, SuperOnly
<1>4. ASSUME NEW req \in DOMAIN Clears PROVE Clears[req] \in Features
  BY <1>2 DEF Clears, Features, SuperOnly
<1> QED BY <1>1, <1>2, <1>3, <1>4

NoData == {"stall", "address", "config", "unconfig", "badConfig"} \cup DOMAIN Sets
          \cup DOMAIN Clears

\* Requests by their data stage.
LEMMA DataStages ==
  ASSUME NEW req \in Requests
  PROVE  /\ req \in {"get", "badString", "stallIn"} \cup Queries <=> Data(req) = "in"
         /\ req = "setSel" <=> Data(req) = "out"
         /\ req \in NoData <=> Data(req) = "none"
<1>1. req \in {"get", "badString", "stallIn"} \cup Queries => Data(req) = "in" BY DEF Data, Queries
<1>2. req = "setSel" => Data(req) = "out" BY DEF Data, Queries
<1>3. req \in NoData => Data(req) = "none" BY FeatureRequests DEF Data, Queries, NoData
<1>4. req \in {"get", "badString", "stallIn"} \cup Queries \/ req = "setSel" \/ req \in NoData
  BY DEF Requests, NoData
<1> QED BY <1>1, <1>2, <1>3, <1>4

\* Address, state and features.
CoreSet(d, a, s, f, e) ==
  /\ e \in Dev /\ e.events = d.events
  /\ SameEp0(d, e) /\ SameBulk(d, e)
  /\ e.addr = a /\ e.state = s /\ e.feat = f /\ e.speed = d.speed

LEMMA CoreUpdate ==
  ASSUME NEW d \in Dev, NEW a \in {0, 1}, NEW s \in DeviceStates, NEW f \in SUBSET Features
  PROVE  CoreSet(d, a, s, f, [d EXCEPT !.addr = a, !.state = s, !.feat = f])
<1>0. PICK e : e = [d EXCEPT !.addr = a, !.state = s, !.feat = f] OBVIOUS
<1>1. e \in Dev BY <1>0 DEF Dev
<1>2. e.events = d.events /\ SameEp0(d, e) /\ SameBulk(d, e)
  BY <1>0 DEF Dev, SameEp0, SameBulk
<1>3. e.addr = a /\ e.state = s /\ e.feat = f /\ e.speed = d.speed BY <1>0 DEF Dev
<1> QED BY <1>0, <1>1, <1>2, <1>3 DEF CoreSet

\* What the driver does of a request: whether it stalls it, the features it
\* leaves, and what it answers.
Refuses(d) ==
  \/ d.packet \in {"stall", "stallIn", "badString", "badConfig"}
  \/ d.packet \in DOMAIN Sets /\ ~Allowed(d, Sets[d.packet])
  \/ d.packet \in DOMAIN Clears /\ ~Allowed(d, Clears[d.packet])
  \/ d.packet = "bos" /\ d.speed # "super"
Left(d) ==
  IF d.packet = "config" THEN ((d.feat \ {"in", "out"}) \cup {"configured"}) \ {"ltm"}
  ELSE IF d.packet = "unconfig" THEN d.feat \ {"configured", "ltm"}
  ELSE IF d.packet = "badConfig" THEN d.feat \ {"ltm"}
  ELSE IF d.packet \in DOMAIN Sets /\ ~Refuses(d) THEN d.feat \cup {Sets[d.packet]}
  ELSE IF d.packet \in DOMAIN Clears /\ ~Refuses(d) THEN d.feat \ {Clears[d.packet]}
  ELSE d.feat
Answer(d) ==
  IF d.packet = "getStatus" THEN {f \in d.feat \cap SuperOnly : Allowed(d, f)}
  ELSE IF d.packet = "statusIn" THEN d.feat \cap {"in"}
  ELSE IF d.packet = "statusOut" THEN d.feat \cap {"out"}
  ELSE IF d.packet = "getConfig" THEN d.feat \cap {"configured"} ELSE {d.speed}

\* The endpoints after SET_CONFIGURATION, and otherwise as they were.
BulkSetUp(d, e) ==
  /\ e.live /\ (e.refused <=> d.refused \/ d.out.active)
  /\ ~e.in.started /\ ~e.in.hwo /\ e.in.active = d.in.active /\ e.in.sent = d.in.sent
  /\ e.in.msg = d.in.msg /\ e.in.mps = d.speed
  /\ e.out.started /\ e.out.active /\ e.out.hwo /\ e.out.trb /\ e.out.mps = d.speed
  /\ e.out.got = 0 /\ e.out.len \in 1 .. DATA_SIZE

WasSetUp(d, e) ==
  /\ e \in Dev /\ e.events = d.events /\ e.packet = d.packet /\ e.speed = d.speed
  /\ Ready(e)
  /\ e.st \in {"IN_DATA", "OUT_DATA"} => e.resp = "ok"
  /\ IF d.packet = "config" THEN BulkSetUp(d, e) ELSE SameBulk(d, e)
  /\ e.addr = IF d.packet = "address" THEN 1 ELSE d.addr
  /\ e.state = IF d.packet = "config" THEN "CONFIGURED"
               ELSE IF d.packet \in {"address", "unconfig"} THEN "ADDRESSED" ELSE d.state
  /\ e.feat = Left(d)
  /\ e.stalled <=> Refuses(d)
  /\ d.packet \in Queries /\ ~e.stalled => e.answer = Answer(d)

\* The state in which DwUsb3DoSetup begins to look at a request.
Begun(d, e) ==
  /\ OnlyEp0(d, e) /\ e.packet = d.packet /\ ~e.stalled
  /\ e.hw0["in"] = "none" /\ e.hw0["out"] = "none"
  /\ e.isIn <=> Data(d.packet) # "out"
  /\ e.st = IF Data(d.packet) = "in" THEN "IN_DATA"
            ELSE IF Data(d.packet) = "out" THEN "OUT_DATA" ELSE "IN_WAIT_NRDY"

LEMMA BeginFacts ==
  ASSUME NEW d \in Dev, NoDescriptor(d), ~d.stalled, NEW e,
         e = (CASE Data(d.packet) = "in"  -> [d EXCEPT !.isIn = TRUE, !.st = "IN_DATA"]
                [] Data(d.packet) = "out" -> [d EXCEPT !.isIn = FALSE, !.st = "OUT_DATA"]
                [] OTHER -> [d EXCEPT !.isIn = TRUE, !.st = "IN_WAIT_NRDY"])
  PROVE  Begun(d, e)
<1>1. PICK i \in BOOLEAN, s \in States :
        /\ i <=> Data(d.packet) # "out"
        /\ s = IF Data(d.packet) = "in" THEN "IN_DATA"
               ELSE IF Data(d.packet) = "out" THEN "OUT_DATA" ELSE "IN_WAIT_NRDY"
  <2>1. {"IN_DATA", "OUT_DATA", "IN_WAIT_NRDY"} \subseteq States BY DEF States
  <2> QED BY <2>1
<1>2. e = [d EXCEPT !.isIn = i, !.st = s] BY <1>1
<1>3. d.stalled \in BOOLEAN BY DEF Dev
<1>4. e = [d EXCEPT !.stalled = d.stalled, !.isIn = i, !.st = s] BY <1>2 DEF Dev
<1>5. Ep0Set(d, d.stalled, i, s, [d EXCEPT !.stalled = d.stalled, !.isIn = i, !.st = s])
  BY <1>1, <1>3, Ep0Update
<1>6. Ep0Set(d, d.stalled, i, s, e) BY <1>4, <1>5
<1> QED BY <1>1, <1>6 DEF Ep0Set, Begun, NoDescriptor

LEMMA SetupFacts ==
  ASSUME NEW d \in Dev, NoDescriptor(d), d.st = "IDLE", ~d.stalled, d.speed \in Speeds
  PROVE  WasSetUp(d, DwUsb3OsHandleEndPoint0(d))
<1>0. PICK req \in Requests : req = d.packet BY DEF Dev
<1>1. PICK c :
        c = (CASE Data(d.packet) = "in"  -> [d EXCEPT !.isIn = TRUE, !.st = "IN_DATA"]
               [] Data(d.packet) = "out" -> [d EXCEPT !.isIn = FALSE, !.st = "OUT_DATA"]
               [] OTHER -> [d EXCEPT !.isIn = TRUE, !.st = "IN_WAIT_NRDY"])
  OBVIOUS
<1>2. Begun(d, c) BY <1>1, BeginFacts
<1>3. PICK e : e = DwUsb3OsHandleEndPoint0(d) OBVIOUS
<1>4. e = (CASE req \in {"stall", "stallIn"} -> EndPoint0DoStall(c)
             [] req \in {"get", "setSel"}    -> DwUsb3EndPoint0StartTransfer(c)
             [] req = "badString" -> DwUsb3EndPoint0StartTransfer(EndPoint0DoStall(c))
             [] req = "address"   -> DwUsb3DoSetAddress(c)
             [] req = "config"    -> [DwUsb3DoSetConfig(c) EXCEPT !.feat = @ \ {"ltm"}]
             [] req = "unconfig"  ->
                  [c EXCEPT !.state = "ADDRESSED", !.feat = @ \ {"configured", "ltm"}]
             [] req = "badConfig" -> [EndPoint0DoStall(c) EXCEPT !.feat = @ \ {"ltm"}]
             [] req \in DOMAIN Sets   -> DwUsb3DoSetFeature(c, Sets[req])
             [] req \in DOMAIN Clears -> DwUsb3DoClearFeature(c, Clears[req])
             [] req \in {"getStatus", "statusIn", "statusOut"} -> DwUsb3DoGetStatus(c, req)
             [] req = "getConfig" -> DwUsb3DoGetConfig(c)
             [] req \in {"getSpeed", "bos"} -> DwUsb3DoGetDescriptor(c, req)
             [] OTHER -> c)
  BY <1>0, <1>1, <1>3 DEF DwUsb3OsHandleEndPoint0, DwUsb3DoSetup
<1>5. c \in Dev /\ c.packet = req /\ SameCore(d, c) /\ SameBulk(d, c) /\ c.events = d.events
  BY <1>0, <1>2 DEF Begun, OnlyEp0
<1>6. \A f : Allowed(c, f) <=> Allowed(d, f) BY <1>5 DEF Allowed, SameCore
<1>7. /\ DOMAIN Sets = {"setU1", "setU2", "setLtm", "haltIn", "haltOut"}
      /\ DOMAIN Clears = {"clearU1", "clearU2", "clearLtm", "clearIn", "clearOut"}
      /\ Queries = {"getStatus", "statusIn", "statusOut", "getConfig", "getSpeed", "bos"}
  BY FeatureRequests DEF Queries
<1>8. /\ c.addr \in {0, 1} /\ c.state \in DeviceStates /\ c.feat \in SUBSET Features
      /\ c.addr = d.addr /\ c.state = d.state /\ c.feat = d.feat /\ c.speed = d.speed
  BY <1>5 DEF Dev, SameCore
\* A request that is stalled.
<1>9. ASSUME NEW b, Stalls(c, b)
      PROVE  /\ b \in Dev /\ b.events = d.events /\ b.packet = d.packet /\ b.speed = d.speed
             /\ Ready(b) /\ b.st = "IDLE" /\ SameBulk(d, b)
             /\ b.addr = d.addr /\ b.state = d.state /\ b.feat = d.feat /\ b.stalled
             /\ ~b.isIn /\ b.hw0["out"] = "setup"
  <2>1. OnlyEp0(c, b) /\ b.packet = d.packet BY <1>0, <1>5, <1>9 DEF Stalls
  <2>2. /\ b \in Dev /\ b.events = d.events /\ b.speed = d.speed /\ SameBulk(d, b)
        /\ b.addr = d.addr /\ b.state = d.state /\ b.feat = d.feat
    BY <1>5, <2>1 DEF OnlyEp0, SameCore, SameBulk
  <2>3. b.stalled /\ ~b.isIn /\ b.st = "IDLE" /\ b.hw0["out"] = "setup" /\ b.hw0["in"] = "none"
    BY <1>2, <1>9 DEF Stalls, Begun
  <2> QED BY <2>1, <2>2, <2>3 DEF Ready, Ep0Dir, Ep0Trb, Other
\* A request whose data stage is armed.
<1>10. ASSUME NEW a, NEW b, req \notin NoData, a \in Dev, SameCore(c, a), SameBulk(c, a),
              a.events = c.events, a.st = c.st, a.isIn = c.isIn, a.stalled = c.stalled,
              a.packet = c.packet, a.hw0 = c.hw0, b = DwUsb3EndPoint0StartTransfer(a)
       PROVE  /\ b \in Dev /\ b.events = d.events /\ b.packet = d.packet /\ b.speed = d.speed
              /\ Ready(b) /\ b.resp = "ok" /\ SameBulk(d, b)
              /\ b.addr = d.addr /\ b.state = d.state /\ b.feat = d.feat /\ ~b.stalled
              /\ b.answer = a.answer
  <2>1. PICK dir, trb : /\ dir = IF a.isIn THEN "in" ELSE "out"
                        /\ trb = IF a.st \in {"IN_STATUS", "OUT_STATUS"} THEN "status" ELSE "data"
                        /\ Started0(a, dir, trb, b)
    BY <1>10, StartTransferFacts
  <2>2. /\ c.isIn <=> Data(req) # "out"
        /\ c.st = IF Data(req) = "in" THEN "IN_DATA" ELSE "OUT_DATA"
        /\ c.hw0["in"] = "none" /\ c.hw0["out"] = "none" /\ ~c.stalled
        /\ Data(req) \in {"in", "out"}
    <3>1. Data(req) \in {"in", "out"}
      <4>1. Data(req) # "none" BY <1>10, DataStages
      <4> QED BY <4>1 DEF Data
    <3> QED BY <1>0, <1>2, <3>1 DEF Begun
  <2>3. trb = "data" /\ dir = Data(req) /\ (dir = "in" <=> c.isIn) /\ dir \in {"in", "out"}
    BY <1>10, <2>1, <2>2
  <2>4. /\ b \in Dev /\ b.events = a.events /\ SameBulk(a, b) /\ SameCore(a, b)
        /\ b.packet = a.packet /\ b.answer = a.answer /\ b.st = a.st /\ b.isIn = a.isIn
        /\ b.stalled = a.stalled
    BY <2>1 DEF Started0, OnlyEp0
  <2>5. /\ b.events = d.events /\ b.packet = d.packet /\ b.speed = d.speed /\ SameBulk(d, b)
        /\ b.addr = d.addr /\ b.state = d.state /\ b.feat = d.feat
    BY <1>0, <1>5, <1>10, <2>4 DEF SameCore, SameBulk
  <2>6. /\ b.hw0["in"] = IF dir = "in" THEN "data" ELSE "none"
        /\ b.hw0["out"] = IF dir = "out" THEN "data" ELSE "none"
        /\ b.resp = "ok"
    BY <1>10, <2>1, <2>2, <2>3 DEF Started0
  <2>7. Ready(b) BY <1>10, <2>2, <2>3, <2>4, <2>6 DEF Ready, Ep0Dir, Ep0Trb, Other
  <2> QED BY <1>10, <2>2, <2>4, <2>5, <2>6, <2>7
\* A request without a data stage.
<1>11. ASSUME NEW b, req \in NoData, b \in Dev, b.events = c.events, SameEp0(c, b)
       PROVE  /\ b.events = d.events /\ b.packet = d.packet /\ Ready(b) /\ ~b.stalled
              /\ b.st = "IN_WAIT_NRDY"
  <2>1. Data(req) = "none" BY <1>11, DataStages
  <2> QED BY <1>0, <1>2, <1>5, <1>11, <2>1
          DEF Begun, SameEp0, Ready, Ep0Dir, Ep0Trb, Other
<1>12. CASE req \in {"stall", "stallIn"}
  <2>2. e = EndPoint0DoStall(c) BY <1>4, <1>7, <1>12
  <2>1. Stalls(c, e) BY <1>5, <2>2, StallFacts
  <2> QED BY <1>0, <1>3, <1>7, <1>9, <1>12, <2>1 DEF WasSetUp, Refuses, Left
<1>13. CASE req \in {"get", "setSel"}
  <2>1. e = DwUsb3EndPoint0StartTransfer(c) BY <1>4, <1>7, <1>13
  <2>2. req \notin NoData BY <1>7, <1>13 DEF NoData
  <2> QED BY <1>0, <1>3, <1>5, <1>7, <1>10, <1>13, <2>1, <2>2
          DEF WasSetUp, Refuses, Left, SameCore, SameBulk
<1>14. CASE req = "badString"
  <2>1. PICK b : b = EndPoint0DoStall(c) OBVIOUS
  <2>2. Stalls(c, b) BY <1>5, <2>1, StallFacts
  <2>3. e = DwUsb3EndPoint0StartTransfer(b) BY <1>4, <1>7, <1>14, <2>1
  <2>4. e = Start0(b, "out", "data")
    BY <1>9, <2>2, <2>3 DEF DwUsb3EndPoint0StartTransfer
  <2>5. e = b BY <1>9, <2>2, <2>4 DEF Start0
  <2> QED BY <1>0, <1>3, <1>7, <1>9, <1>14, <2>2, <2>5 DEF WasSetUp, Refuses, Left
<1>15. CASE req = "address"
  <2>1. e = [c EXCEPT !.addr = 1, !.state = "ADDRESSED", !.isIn = TRUE, !.st = "IN_WAIT_NRDY"]
    BY <1>4, <1>7, <1>15 DEF DwUsb3DoSetAddress
  <2>2. req \in NoData BY <1>15 DEF NoData
  <2>3. c.st = "IN_WAIT_NRDY" /\ c.isIn
    BY <1>0, <1>2, <2>2, DataStages DEF Begun
  <2>4. c.isIn = TRUE BY <1>5, <2>3 DEF Dev
  <2>5. e = [c EXCEPT !.addr = 1, !.state = "ADDRESSED", !.feat = c.feat]
    BY <1>5, <2>1, <2>3, <2>4 DEF Dev
  <2>6. "ADDRESSED" \in DeviceStates BY DEF DeviceStates
  <2>7. CoreSet(c, 1, "ADDRESSED", c.feat, e) BY <1>5, <1>8, <2>5, <2>6, CoreUpdate
  <2>8. /\ e \in Dev /\ e.events = c.events /\ SameEp0(c, e) /\ SameBulk(c, e)
        /\ e.addr = 1 /\ e.state = "ADDRESSED" /\ e.feat = d.feat /\ e.speed = d.speed
    BY <1>8, <2>7 DEF CoreSet
  <2>9. SameBulk(d, e) BY <1>5, <2>8 DEF SameBulk
  <2> QED BY <1>0, <1>3, <1>7, <1>11, <1>15, <2>2, <2>8, <2>9 DEF WasSetUp, Refuses, Left
<1>16. CASE req = "config"
  <2>1. PICK b : b = DwUsb3DoSetConfig(c) OBVIOUS
  <2>2. Configured(c, b) BY <1>5, <1>8, <2>1, SetConfigFacts
  <2>3. req \in NoData BY <1>16 DEF NoData
  <2>4. PICK f : f = b.feat \ {"ltm"} OBVIOUS
  <2>5. b \in Dev BY <2>2 DEF Configured
  <2>6. e = [b EXCEPT !.feat = f] BY <1>4, <1>7, <1>16, <2>1, <2>4
  <2>7. /\ f \in SUBSET Features /\ b.addr \in {0, 1} /\ b.state \in DeviceStates
    BY <2>4, <2>5 DEF Dev
  <2>8. e = [b EXCEPT !.addr = b.addr, !.state = b.state, !.feat = f] BY <2>5, <2>6 DEF Dev
  <2>9. CoreSet(b, b.addr, b.state, f, e) BY <2>5, <2>7, <2>8, CoreUpdate
  <2>10. /\ e \in Dev /\ e.events = b.events /\ SameEp0(b, e) /\ SameBulk(b, e)
         /\ e.addr = b.addr /\ e.state = b.state /\ e.feat = f /\ e.speed = b.speed
    BY <2>9 DEF CoreSet
  <2>11. f = ((d.feat \ {"in", "out"}) \cup {"configured"}) \ {"ltm"}
    BY <1>8, <2>2, <2>4 DEF Configured
  <2>12. /\ e.events = d.events /\ e.packet = d.packet /\ ~e.stalled /\ e.st = "IN_WAIT_NRDY"
         /\ e.isIn /\ e.hw0["in"] = "none" /\ e.hw0["out"] = "none"
         /\ e.addr = d.addr /\ e.state = "CONFIGURED" /\ e.speed = d.speed
    BY <1>0, <1>2, <1>5, <1>8, <2>2, <2>10 DEF Configured, SameEp0, Begun
  <2>13. BulkSetUp(d, e)
    <3>1. BulkSetUp(c, e) BY <2>2, <2>10 DEF Configured, SameBulk, BulkSetUp
    <3> QED BY <1>5, <1>8, <3>1 DEF BulkSetUp, SameBulk
  <2>14. Ready(e) BY <2>12 DEF Ready, Ep0Dir, Ep0Trb, Other
  <2>15. e.feat = Left(d) /\ ~Refuses(d)
    BY <1>0, <1>7, <1>16, <2>10, <2>11 DEF Left, Refuses
  <2> QED BY <1>0, <1>3, <1>7, <1>16, <2>10, <2>12, <2>13, <2>14, <2>15 DEF WasSetUp
<1>17. CASE req = "unconfig"
  <2>1. PICK f : f = c.feat \ {"configured", "ltm"} OBVIOUS
  <2>2. f \in SUBSET Features BY <1>8, <2>1
  <2>9. e = [c EXCEPT !.state = "ADDRESSED", !.feat = f] BY <1>4, <1>7, <1>17, <2>1
  <2>3. e = [c EXCEPT !.addr = c.addr, !.state = "ADDRESSED", !.feat = f]
    BY <1>5, <2>1, <2>9 DEF Dev
  <2>4. "ADDRESSED" \in DeviceStates BY DEF DeviceStates
  <2>5. CoreSet(c, c.addr, "ADDRESSED", f, e) BY <1>5, <1>8, <2>2, <2>3, <2>4, CoreUpdate
  <2>6. /\ e \in Dev /\ e.events = c.events /\ SameEp0(c, e) /\ SameBulk(c, e)
        /\ e.addr = d.addr /\ e.state = "ADDRESSED" /\ e.speed = d.speed
        /\ e.feat = d.feat \ {"configured", "ltm"}
    BY <1>8, <2>1, <2>5 DEF CoreSet
  <2>7. SameBulk(d, e) BY <1>5, <2>6 DEF SameBulk
  <2>8. req \in NoData BY <1>17 DEF NoData
  <2> QED BY <1>0, <1>3, <1>7, <1>11, <1>17, <2>6, <2>7, <2>8 DEF WasSetUp, Refuses, Left
<1>18. CASE req = "badConfig"
  <2>1. PICK b : b = EndPoint0DoStall(c) OBVIOUS
  <2>2. Stalls(c, b) BY <1>5, <2>1, StallFacts
  <2>3. PICK f : f = b.feat \ {"ltm"} OBVIOUS
  <2>4. b \in Dev BY <1>9, <2>2
  <2>5. f \in SUBSET Features /\ b.addr \in {0, 1} /\ b.state \in DeviceStates
    BY <2>3, <2>4 DEF Dev
  <2>12. e = [b EXCEPT !.feat = f] BY <1>4, <1>7, <1>18, <2>1, <2>3
  <2>6. e = [b EXCEPT !.addr = b.addr, !.state = b.state, !.feat = f]
    BY <2>3, <2>4, <2>12 DEF Dev
  <2>7. CoreSet(b, b.addr, b.state, f, e) BY <2>4, <2>5, <2>6, CoreUpdate
  <2>8. /\ e \in Dev /\ e.events = b.events /\ SameEp0(b, e) /\ SameBulk(b, e)
        /\ e.addr = b.addr /\ e.state = b.state /\ e.feat = f /\ e.speed = b.speed
    BY <2>7 DEF CoreSet
  <2>9. SameBulk(d, e) BY <1>9, <2>2, <2>8 DEF SameBulk
  <2>10. Ready(e) BY <1>9, <2>2, <2>8 DEF Ready, SameEp0
  <2>11. /\ e.events = d.events /\ e.packet = d.packet /\ e.speed = d.speed /\ e.st = "IDLE"
         /\ e.addr = d.addr /\ e.state = d.state /\ e.feat = d.feat \ {"ltm"} /\ e.stalled
    BY <1>9, <2>2, <2>3, <2>8 DEF SameEp0
  <2> QED BY <1>0, <1>3, <1>7, <1>18, <2>8, <2>9, <2>10, <2>11 DEF WasSetUp, Refuses, Left
\* SET_FEATURE and CLEAR_FEATURE.
<1>19. ASSUME NEW f \in SUBSET Features, req \in NoData, e = [c EXCEPT !.feat = f]
       PROVE  /\ e \in Dev /\ e.events = d.events /\ e.packet = d.packet /\ e.speed = d.speed
              /\ Ready(e) /\ SameBulk(d, e) /\ e.st = "IN_WAIT_NRDY"
              /\ e.addr = d.addr /\ e.state = d.state /\ e.feat = f /\ ~e.stalled
  <2>1. e = [c EXCEPT !.addr = c.addr, !.state = c.state, !.feat = f] BY <1>5, <1>19 DEF Dev
  <2>2. CoreSet(c, c.addr, c.state, f, e) BY <1>5, <1>8, <2>1, CoreUpdate
  <2>3. /\ e \in Dev /\ e.events = c.events /\ SameEp0(c, e) /\ SameBulk(c, e)
        /\ e.addr = d.addr /\ e.state = d.state /\ e.speed = d.speed /\ e.feat = f
    BY <1>8, <2>2 DEF CoreSet
  <2>4. SameBulk(d, e) BY <1>5, <2>3 DEF SameBulk
  <2> QED BY <1>11, <1>19, <2>3, <2>4
<1>20. CASE req \in DOMAIN Sets
  <2>1. e = DwUsb3DoSetFeature(c, Sets[req]) BY <1>4, <1>7, <1>20
  <2>2. req \in NoData BY <1>20 DEF NoData
  <2>3. PICK f \in Features : f = Sets[req] BY <1>20, FeatureRequests
  <2>4. CASE Allowed(d, f)
    <3>1. e = [c EXCEPT !.feat = @ \cup {f}] BY <1>6, <2>1, <2>3, <2>4 DEF DwUsb3DoSetFeature
    <3>2. PICK g \in SUBSET Features : g = d.feat \cup {f} BY <1>8
    <3>3. e = [c EXCEPT !.feat = g] BY <1>8, <3>1, <3>2
    <3>4. /\ e \in Dev /\ e.events = d.events /\ e.packet = d.packet /\ e.speed = d.speed
          /\ Ready(e) /\ SameBulk(d, e) /\ e.st = "IN_WAIT_NRDY"
          /\ e.addr = d.addr /\ e.state = d.state /\ e.feat = g /\ ~e.stalled
      BY <1>19, <2>2, <3>3
    <3>5. ~Refuses(d) BY <1>0, <1>7, <1>20, <2>3, <2>4 DEF Refuses
    <3>6. Left(d) = g BY <1>0, <1>7, <1>20, <2>3, <3>2, <3>5 DEF Left
    <3> QED BY <1>0, <1>3, <1>7, <1>20, <3>4, <3>5, <3>6 DEF WasSetUp
  <2>5. CASE ~Allowed(d, f)
    <3>1. e = EndPoint0DoStall(c) BY <1>6, <2>1, <2>3, <2>5 DEF DwUsb3DoSetFeature
    <3>2. Stalls(c, e) BY <1>5, <3>1, StallFacts
    <3>3. Refuses(d) BY <1>0, <1>20, <2>3, <2>5 DEF Refuses
    <3>4. Left(d) = d.feat BY <1>0, <1>7, <1>20, <3>3 DEF Left
    <3> QED BY <1>0, <1>3, <1>7, <1>9, <1>20, <3>2, <3>3, <3>4 DEF WasSetUp
  <2> QED BY <2>4, <2>5
<1>21. CASE req \in DOMAIN Clears
  <2>1. e = DwUsb3DoClearFeature(c, Clears[req]) BY <1>4, <1>7, <1>21
  <2>2. req \in NoData BY <1>21 DEF NoData
  <2>3. PICK f \in Features : f = Clears[req] BY <1>21, FeatureRequests
  <2>4. CASE Allowed(d, f)
    <3>1. e = [c EXCEPT !.feat = @ \ {f}]
      BY <1>6, <2>1, <2>3, <2>4 DEF DwUsb3DoClearFeature, DoClearHalt
    <3>2. PICK g \in SUBSET Features : g = d.feat \ {f} BY <1>8
    <3>3. e = [c EXCEPT !.feat = g] BY <1>8, <3>1, <3>2
    <3>4. /\ e \in Dev /\ e.events = d.events /\ e.packet = d.packet /\ e.speed = d.speed
          /\ Ready(e) /\ SameBulk(d, e) /\ e.st = "IN_WAIT_NRDY"
          /\ e.addr = d.addr /\ e.state = d.state /\ e.feat = g /\ ~e.stalled
      BY <1>19, <2>2, <3>3
    <3>5. ~Refuses(d) BY <1>0, <1>7, <1>21, <2>3, <2>4 DEF Refuses
    <3>6. Left(d) = g BY <1>0, <1>7, <1>21, <2>3, <3>2, <3>5 DEF Left
    <3> QED BY <1>0, <1>3, <1>7, <1>21, <3>4, <3>5, <3>6 DEF WasSetUp
  <2>5. CASE ~Allowed(d, f)
    <3>1. e = EndPoint0DoStall(c) BY <1>6, <2>1, <2>3, <2>5 DEF DwUsb3DoClearFeature
    <3>2. Stalls(c, e) BY <1>5, <3>1, StallFacts
    <3>3. Refuses(d) BY <1>0, <1>21, <2>3, <2>5 DEF Refuses
    <3>4. Left(d) = d.feat BY <1>0, <1>7, <1>21, <3>3 DEF Left
    <3> QED BY <1>0, <1>3, <1>7, <1>9, <1>21, <3>2, <3>3, <3>4 DEF WasSetUp
  <2> QED BY <2>4, <2>5
<1>22. CASE req \in Queries
  <2>1. req \notin NoData BY <1>7, <1>22 DEF NoData
  <2>2. CASE req = "bos" /\ d.speed # "super"
    <3>1. e = EndPoint0DoStall(c) BY <1>4, <1>7, <1>8, <2>2 DEF DwUsb3DoGetDescriptor
    <3>2. Stalls(c, e) BY <1>5, <3>1, StallFacts
    <3>3. Refuses(d) /\ Left(d) = d.feat BY <1>0, <1>7, <2>2 DEF Refuses, Left
    <3> QED BY <1>0, <1>3, <1>9, <2>2, <3>2, <3>3 DEF WasSetUp
  <2>3. CASE ~(req = "bos" /\ d.speed # "super")
    <3>1. PICK w : w = Answer(d) OBVIOUS
    <3>2. w \in SUBSET (Features \cup Speeds)
      <4>1. d.feat \in SUBSET Features /\ d.speed \in Speeds BY DEF Dev
      <4> QED BY <3>1, <4>1 DEF Answer
    <3>3. e = Reply(c, w)
      <4>1. CASE req \in {"getStatus", "statusIn", "statusOut"}
        <5>1. e = DwUsb3DoGetStatus(c, req) BY <1>4, <1>7, <4>1
        <5> QED BY <1>0, <1>6, <1>8, <3>1, <4>1, <5>1 DEF DwUsb3DoGetStatus, Answer
      <4>2. CASE req = "getConfig"
        <5>1. e = DwUsb3DoGetConfig(c) BY <1>4, <1>7, <4>2
        <5> QED BY <1>0, <1>8, <3>1, <4>2, <5>1 DEF DwUsb3DoGetConfig, Answer
      <4>3. CASE req \in {"getSpeed", "bos"}
        <5>1. e = DwUsb3DoGetDescriptor(c, req) BY <1>4, <1>7, <4>3
        <5> QED BY <1>0, <1>8, <2>3, <3>1, <4>3, <5>1 DEF DwUsb3DoGetDescriptor, Answer
      <4> QED BY <1>7, <1>22, <4>1, <4>2, <4>3
    <3>4. PICK a : a = [c EXCEPT !.answer = w] OBVIOUS
    <3>5. a \in Dev BY <1>5, <3>2, <3>4 DEF Dev
    <3>6. /\ SameCore(c, a) /\ SameBulk(c, a) /\ a.events = c.events /\ a.st = c.st
          /\ a.isIn = c.isIn /\ a.stalled = c.stalled /\ a.packet = c.packet /\ a.hw0 = c.hw0
          /\ a.answer = w
      BY <1>5, <3>4 DEF Dev, SameCore, SameBulk
    <3>7. e = DwUsb3EndPoint0StartTransfer(a) BY <3>3, <3>4 DEF Reply
    <3>8. ~Refuses(d) /\ Left(d) = d.feat
      BY <1>0, <1>7, <1>22, <2>3 DEF Refuses, Left
    <3>9. /\ e \in Dev /\ e.events = d.events /\ e.packet = d.packet /\ e.speed = d.speed
          /\ Ready(e) /\ e.resp = "ok" /\ SameBulk(d, e)
          /\ e.addr = d.addr /\ e.state = d.state /\ e.feat = d.feat /\ ~e.stalled
          /\ e.answer = w
      BY <1>10, <2>1, <3>5, <3>6, <3>7
    <3> QED BY <1>0, <1>3, <1>7, <1>22, <3>1, <3>8, <3>9 DEF WasSetUp
  <2> QED BY <2>2, <2>3
<1>23. \/ req \in {"stall", "stallIn"} \/ req \in {"get", "setSel"} \/ req = "badString"
       \/ req = "address" \/ req = "config" \/ req = "unconfig" \/ req = "badConfig"
       \/ req \in DOMAIN Sets \/ req \in DOMAIN Clears \/ req \in Queries
  BY DEF Requests
<1> QED BY <1>12, <1>13, <1>14, <1>15, <1>16, <1>17, <1>18, <1>20, <1>21, <1>22, <1>23

(* --------------------- the events that are waiting --------------------- *)

IsNrdy(ev) == ev.type = "nrdy" /\ ev.ep \in {"ep0in", "ep0out"} /\ ev.trb = "none"

\* An event is of one kind, which its fields tell.
LEMMA EventKinds ==
  ASSUME NEW ev \in Events
  PROVE  /\ IsReset(ev) \/ IsConn(ev) \/ IsNrdy(ev) \/ IsEp0(ev) \/ IsOut(ev)
         /\ IsReset(ev) <=> ev.type = "reset"
         /\ IsConn(ev) <=> ev.type = "conn"
         /\ IsNrdy(ev) <=> ev.type = "nrdy"
         /\ IsOut(ev) <=> ev.ep = "out"
         /\ IsSetup(ev) <=> ev.trb = "setup"
         /\ IsBus(ev) <=> IsReset(ev) \/ IsConn(ev)
         /\ IsReset(ev) => ~IsConn(ev) /\ ~IsOut(ev) /\ ~IsEp0(ev) /\ ~IsSetup(ev)
         /\ IsConn(ev) => ~IsOut(ev) /\ ~IsEp0(ev) /\ ~IsSetup(ev)
         /\ IsNrdy(ev) => ~IsBus(ev) /\ ~IsOut(ev) /\ ~IsEp0(ev) /\ ~IsSetup(ev)
         /\ IsOut(ev) => ~IsEp0(ev) /\ ~IsSetup(ev) /\ ~IsBus(ev) /\ ev.type = "cmpl"
         /\ IsEp0(ev) => ~IsBus(ev) /\ ~IsOut(ev) /\ ev.type = "cmpl"
         /\ IsSetup(ev) => IsEp0(ev)
<1> USE DEF IsReset, IsConn, IsNrdy, IsEp0, IsOut, IsSetup, IsBus, BusEvent, Nrdy, Cmpl
<1>1. \/ \E type \in {"reset", "conn"} : ev = BusEvent(type)
      \/ \E ep \in {"ep0in", "ep0out"} : ev = Nrdy(ep)
      \/ \E ep \in {"ep0in", "ep0out"}, trb \in {"data", "status"} : ev = Cmpl(ep, trb)
      \/ ev = Cmpl("ep0out", "setup") \/ ev = Cmpl("out", "data")
  BY DEF Events
<1>2. CASE \E type \in {"reset", "conn"} : ev = BusEvent(type) BY <1>2
<1>3. CASE \E ep \in {"ep0in", "ep0out"} : ev = Nrdy(ep) BY <1>3
<1>4. CASE \E ep \in {"ep0in", "ep0out"}, trb \in {"data", "status"} : ev = Cmpl(ep, trb)
  BY <1>4
<1>5. CASE ev = Cmpl("out", "data") BY <1>5
<1>6. CASE ev = Cmpl("ep0out", "setup") BY <1>6
<1> QED BY <1>1, <1>2, <1>3, <1>4, <1>5, <1>6

\* The events the controller raises.
LEMMA EventTypes ==
  /\ BusEvent("reset") \in Events /\ BusEvent("conn") \in Events
  /\ Nrdy("ep0in") \in Events /\ Nrdy("ep0out") \in Events
  /\ Cmpl("out", "data") \in Events /\ Cmpl("ep0out", "setup") \in Events
  /\ \A dir \in {"in", "out"}, trb \in {"data", "status"} :
       Cmpl(Ep0Of(dir), trb) \in Events /\ IsEp0(Cmpl(Ep0Of(dir), trb))
  /\ \A dir \in {"in", "out"} : Nrdy(Ep0Of(dir)) \in Events
  BY DEF Events, Ep0Of, IsEp0, Cmpl

\* The parts of EventsInOrder and OneDescriptor that speak of the events only.
ConnWaits == \E i \in Slots : IsConn(At(i))
Ep0Waits == \E i \in Slots : IsEp0(At(i))
ResetsConnect == \A i \in Slots : IsReset(At(i)) => \E j \in Slots : j > i /\ IsConn(At(j))
OutsFirst == \A i, j \in Slots : IsOut(At(i)) /\ IsReset(At(j)) => i < j
SetupsLast == \A i, j \in Slots : IsSetup(At(i)) /\ IsBus(At(j)) => j < i
SetupsConnected == \A i \in Slots : IsSetup(At(i)) => \E j \in Slots : j < i /\ IsConn(At(j))
OutOnce == \A i, j \in Slots : IsOut(At(i)) /\ IsOut(At(j)) => j = i
Ep0Only(ev) ==
  \A i \in Slots : IsEp0(At(i)) => At(i) = ev /\ \A j \in Slots : IsEp0(At(j)) => j = i

LEMMA EventsParts ==
  EventsInOrder <=>
    /\ host.stage # "idle" \/ host.bulk # "off" => hist.resets > 0
    /\ hist.resets > 0 => dev.speed = host.speed \/ ConnWaits
    /\ ResetsConnect /\ OutsFirst
    /\ Underway => SetupsLast
    /\ dev.speed # "unknown" \/ SetupsConnected
<1>1. (\A i, j \in Slots : Underway /\ IsSetup(At(i)) /\ IsBus(At(j)) => j < i)
      <=> (Underway => SetupsLast)
  BY Zenon DEF SetupsLast
<1>2. (\A i \in Slots : IsSetup(At(i)) =>
         dev.speed # "unknown" \/ \E j \in Slots : j < i /\ IsConn(At(j)))
      <=> (dev.speed # "unknown" \/ SetupsConnected)
  BY Zenon DEF SetupsConnected
<1> QED BY <1>1, <1>2, Zenon DEF EventsInOrder, ConnWaits, ResetsConnect, OutsFirst

LEMMA OneDescriptorParts ==
  OneDescriptor <=>
    /\ dev.hw0[Ep0Dir(dev.st)] \in {"none", Ep0Trb(dev.st)}
    /\ dev.hw0[Other(Ep0Dir(dev.st))] = "none"
    /\ Ep0Trb(dev.st) # "none" => dev.hw0[Ep0Dir(dev.st)] = Ep0Trb(dev.st) \/ Ep0Waits
    /\ Ep0Waits => Ep0Trb(dev.st) # "none" /\ dev.hw0[Ep0Dir(dev.st)] = "none"
    /\ Ep0Only(Cmpl(Ep0Of(Ep0Dir(dev.st)), Ep0Trb(dev.st)))
    /\ dev.st \notin {"IDLE", "IN_STATUS", "OUT_STATUS"} => (dev.isIn <=> Ep0Dir(dev.st) = "in")
<1>1. PICK dir, trb : dir = Ep0Dir(dev.st) /\ trb = Ep0Trb(dev.st) OBVIOUS
<1>2. (\A i \in Slots : IsEp0(At(i)) =>
         /\ trb # "none" /\ dev.hw0[dir] = "none" /\ At(i) = Cmpl(Ep0Of(dir), trb)
         /\ \A j \in Slots : IsEp0(At(j)) => j = i)
      <=> /\ Ep0Waits => trb # "none" /\ dev.hw0[dir] = "none"
          /\ Ep0Only(Cmpl(Ep0Of(dir), trb))
  BY Zenon DEF Ep0Waits, Ep0Only
<1> QED BY <1>1, <1>2 DEF OneDescriptor, Ep0Waits

\* Nothing is raised and nothing handled.
LEMMA EventsSame ==
  ASSUME dev'.events = dev.events
  PROVE  /\ ResetWaits' = ResetWaits /\ BusWaits' = BusWaits /\ SetupWaits' = SetupWaits
         /\ OutWaits' = OutWaits /\ ConnWaits' = ConnWaits /\ Ep0Waits' = Ep0Waits
         /\ ResetsConnect' = ResetsConnect /\ OutsFirst' = OutsFirst
         /\ SetupsLast' = SetupsLast /\ SetupsConnected' = SetupsConnected
         /\ OutOnce' = OutOnce /\ \A ev : Ep0Only(ev)' = Ep0Only(ev)
  BY DEF ResetWaits, BusWaits, SetupWaits, OutWaits, ConnWaits, Ep0Waits, ResetsConnect, OutsFirst,
         SetupsLast, SetupsConnected, OutOnce, Ep0Only, Slots, At

\* The controller raises an event behind those that wait.
LEMMA EventRaised ==
  ASSUME NEW ev \in Events, dev.events \in Seq(Events), dev'.events = Append(dev.events, ev)
  PROVE  /\ ResetWaits' <=> ResetWaits \/ IsReset(ev)
         /\ BusWaits' <=> BusWaits \/ IsBus(ev)
         /\ SetupWaits' <=> SetupWaits \/ IsSetup(ev)
         /\ OutWaits' <=> OutWaits \/ IsOut(ev)
         /\ ConnWaits' <=> ConnWaits \/ IsConn(ev)
         /\ Ep0Waits' <=> Ep0Waits \/ IsEp0(ev)
         /\ ResetsConnect /\ ~IsReset(ev) => ResetsConnect'
         /\ OutsFirst /\ (IsOut(ev) => ~ResetWaits) => OutsFirst'
         /\ SetupsLast /\ ~IsBus(ev) /\ ~IsSetup(ev) => SetupsLast'
         /\ IsSetup(ev) /\ ~SetupWaits => SetupsLast'
         /\ SetupsConnected /\ (IsSetup(ev) => ConnWaits) => SetupsConnected'
         /\ OutOnce /\ (IsOut(ev) => ~OutWaits) => OutOnce'
         /\ \A x : Ep0Only(x) /\ ~IsEp0(ev) => Ep0Only(x)'
         /\ ~Ep0Waits => Ep0Only(ev)'
<1>1. PICK n \in Nat : n = Len(dev.events) + 1 /\ \A i \in Slots : i \in Nat /\ i < n
  BY DEF Slots
<1>2. Slots' = Slots \cup {n} BY <1>1 DEF Slots
<1>3. At(n)' = ev /\ \A i \in Slots : At(i)' = At(i) BY <1>1 DEF Slots, At

<1>4. /\ ResetWaits' <=> ResetWaits \/ IsReset(ev)
      /\ BusWaits' <=> BusWaits \/ IsBus(ev)
      /\ SetupWaits' <=> SetupWaits \/ IsSetup(ev)
  BY <1>2, <1>3, Zenon DEF ResetWaits, BusWaits, SetupWaits
<1>5. /\ OutWaits' <=> OutWaits \/ IsOut(ev)
      /\ ConnWaits' <=> ConnWaits \/ IsConn(ev)
      /\ Ep0Waits' <=> Ep0Waits \/ IsEp0(ev)
  BY <1>2, <1>3, Zenon DEF OutWaits, ConnWaits, Ep0Waits
<1>6. ResetsConnect /\ ~IsReset(ev) => ResetsConnect'
  BY <1>2, <1>3, Zenon DEF ResetsConnect
<1>7. OutsFirst /\ (IsOut(ev) => ~ResetWaits) => OutsFirst'
  <2> SUFFICES ASSUME OutsFirst, IsOut(ev) => ~ResetWaits,
                      NEW i \in Slots', NEW j \in Slots', IsOut(At(i)'), IsReset(At(j)')
               PROVE  i < j
    BY Zenon DEF OutsFirst
  <2>1. CASE j = n
    <3>1. ~IsOut(ev) BY <1>3, <2>1, EventKinds
    <3> QED BY <1>1, <1>2, <1>3, <2>1, <3>1
  <2>2. CASE j # n
    <3>1. j \in Slots /\ IsReset(At(j)) BY <1>2, <1>3, <2>2
    <3>2. ResetWaits BY <3>1 DEF ResetWaits
    <3>3. i # n BY <1>3, <3>2
    <3> QED BY <1>2, <1>3, <3>1, <3>3 DEF OutsFirst
  <2> QED BY <2>1, <2>2
<1>8. SetupsLast /\ ~IsBus(ev) /\ ~IsSetup(ev) => SetupsLast'
  BY <1>2, <1>3, Zenon DEF SetupsLast
<1>9. IsSetup(ev) /\ ~SetupWaits => SetupsLast'
  <2> SUFFICES ASSUME IsSetup(ev), ~SetupWaits,
                      NEW i \in Slots', NEW j \in Slots', IsSetup(At(i)'), IsBus(At(j)')
               PROVE  j < i
    BY Zenon DEF SetupsLast
  <2>1. i = n BY <1>2, <1>3 DEF SetupWaits
  <2>2. ~IsBus(ev) BY EventKinds
  <2>3. j \in Slots BY <1>2, <1>3, <2>2
  <2> QED BY <1>1, <2>1, <2>3
<1>10. SetupsConnected /\ (IsSetup(ev) => ConnWaits) => SetupsConnected'
  <2> SUFFICES ASSUME SetupsConnected, IsSetup(ev) => ConnWaits, NEW i \in Slots', IsSetup(At(i)')
               PROVE  \E j \in Slots' : j < i /\ IsConn(At(j)')
    BY Zenon DEF SetupsConnected
  <2>1. CASE i = n
    <3>1. PICK j \in Slots : IsConn(At(j)) BY <1>3, <2>1 DEF ConnWaits
    <3> QED BY <1>1, <1>2, <1>3, <2>1, <3>1
  <2>2. CASE i # n
    <3>1. i \in Slots /\ IsSetup(At(i)) BY <1>2, <1>3, <2>2
    <3>2. PICK j \in Slots : j < i /\ IsConn(At(j)) BY <3>1 DEF SetupsConnected
    <3> QED BY <1>2, <1>3, <3>2
  <2> QED BY <2>1, <2>2
<1>11. OutOnce /\ (IsOut(ev) => ~OutWaits) => OutOnce'
  BY <1>2, <1>3, Zenon DEF OutOnce, OutWaits
<1>12. ASSUME NEW x, Ep0Only(x), ~IsEp0(ev) PROVE Ep0Only(x)'
  BY <1>2, <1>3, <1>12, Zenon DEF Ep0Only
<1>13. ~Ep0Waits => Ep0Only(ev)' BY <1>2, <1>3, Zenon DEF Ep0Only, Ep0Waits
<1> QED BY <1>4, <1>5, <1>6, <1>7, <1>8, <1>9, <1>10, <1>11, <1>12, <1>13

\* The driver takes the first event.
LEMMA EventTaken ==
  ASSUME dev.events \in Seq(Events), dev.events # <<>>, dev'.events = Tail(dev.events),
         NEW ev, ev = Head(dev.events)
  PROVE  /\ ev \in Events
         /\ ResetWaits <=> ResetWaits' \/ IsReset(ev)
         /\ BusWaits <=> BusWaits' \/ IsBus(ev)
         /\ SetupWaits <=> SetupWaits' \/ IsSetup(ev)
         /\ OutWaits <=> OutWaits' \/ IsOut(ev)
         /\ ConnWaits <=> ConnWaits' \/ IsConn(ev)
         /\ Ep0Waits <=> Ep0Waits' \/ IsEp0(ev)
         /\ ResetsConnect => ResetsConnect' /\ (IsReset(ev) => ConnWaits')
         /\ OutsFirst => OutsFirst' /\ (IsReset(ev) => ~OutWaits')
         /\ SetupsLast => SetupsLast' /\ (IsSetup(ev) => ~BusWaits)
         /\ SetupsConnected => ~IsSetup(ev) /\ (IsConn(ev) \/ SetupsConnected')
         /\ OutOnce => OutOnce' /\ (IsOut(ev) => ~OutWaits')
         /\ \A x : Ep0Only(x) => Ep0Only(x)' /\ (IsEp0(ev) => ev = x /\ ~Ep0Waits')
<1>1. ev \in Events /\ 1 \in Slots /\ At(1) = ev BY DEF Slots, At
<1>2. \A i \in Slots : i \in Nat /\ i >= 1 BY DEF Slots
<1>3. \A i \in Slots' : i \in Nat /\ i >= 1 /\ i + 1 \in Slots /\ At(i)' = At(i + 1)
  BY DEF Slots, At
<1>4. \A i \in Slots : i # 1 => i - 1 \in Slots' /\ At(i - 1)' = At(i) BY DEF Slots, At

<1>5. /\ ResetWaits <=> ResetWaits' \/ IsReset(ev)
      /\ BusWaits <=> BusWaits' \/ IsBus(ev)
      /\ SetupWaits <=> SetupWaits' \/ IsSetup(ev)
  BY <1>1, <1>3, <1>4, Zenon DEF ResetWaits, BusWaits, SetupWaits
<1>6. /\ OutWaits <=> OutWaits' \/ IsOut(ev)
      /\ ConnWaits <=> ConnWaits' \/ IsConn(ev)
      /\ Ep0Waits <=> Ep0Waits' \/ IsEp0(ev)
  BY <1>1, <1>3, <1>4, Zenon DEF OutWaits, ConnWaits, Ep0Waits
<1>7. ASSUME ResetsConnect PROVE ResetsConnect' /\ (IsReset(ev) => ConnWaits')
  <2>1. ASSUME NEW i \in Slots', IsReset(At(i)') PROVE \E j \in Slots' : j > i /\ IsConn(At(j)')
    <3>1. i + 1 \in Slots /\ IsReset(At(i + 1)) /\ i \in Nat BY <1>3, <2>1
    <3>2. PICK j \in Slots : j > i + 1 /\ IsConn(At(j)) BY <1>7, <3>1 DEF ResetsConnect
    <3>3. j - 1 \in Slots' /\ At(j - 1)' = At(j) /\ j - 1 > i BY <1>2, <1>4, <3>1, <3>2
    <3> QED BY <3>2, <3>3
  <2>2. ASSUME IsReset(ev) PROVE ConnWaits'
    <3>1. PICK j \in Slots : j > 1 /\ IsConn(At(j)) BY <1>1, <1>7, <2>2 DEF ResetsConnect
    <3>2. j - 1 \in Slots' /\ At(j - 1)' = At(j) BY <1>2, <1>4, <3>1
    <3> QED BY <3>1, <3>2 DEF ConnWaits
  <2> QED BY <2>1, <2>2, Zenon DEF ResetsConnect
<1>8. ASSUME OutsFirst PROVE OutsFirst' /\ (IsReset(ev) => ~OutWaits')
  <2>1. ASSUME NEW i \in Slots', NEW j \in Slots', IsOut(At(i)'), IsReset(At(j)') PROVE i < j
    <3>1. i + 1 \in Slots /\ IsOut(At(i + 1)) /\ i \in Nat BY <1>3, <2>1
    <3>2. j + 1 \in Slots /\ IsReset(At(j + 1)) /\ j \in Nat BY <1>3, <2>1
    <3> QED BY <1>8, <3>1, <3>2 DEF OutsFirst
  <2>2. ASSUME IsReset(ev), NEW i \in Slots', IsOut(At(i)') PROVE FALSE
    <3>1. i + 1 \in Slots /\ IsOut(At(i + 1)) /\ i \in Nat BY <1>3, <2>2
    <3>2. i + 1 < 1 BY <1>1, <1>8, <2>2, <3>1 DEF OutsFirst
    <3> QED BY <3>1, <3>2
  <2> QED BY <2>1, <2>2, Zenon DEF OutsFirst, OutWaits
<1>9. ASSUME SetupsLast PROVE SetupsLast' /\ (IsSetup(ev) => ~BusWaits)
  <2>1. ASSUME NEW i \in Slots', NEW j \in Slots', IsSetup(At(i)'), IsBus(At(j)') PROVE j < i
    <3>1. i + 1 \in Slots /\ IsSetup(At(i + 1)) /\ i \in Nat BY <1>3, <2>1
    <3>2. j + 1 \in Slots /\ IsBus(At(j + 1)) /\ j \in Nat BY <1>3, <2>1
    <3> QED BY <1>9, <3>1, <3>2 DEF SetupsLast
  <2>2. ASSUME IsSetup(ev), NEW j \in Slots, IsBus(At(j)) PROVE FALSE
    <3>1. j < 1 BY <1>1, <1>9, <2>2 DEF SetupsLast
    <3> QED BY <1>2, <3>1
  <2> QED BY <2>1, <2>2, Zenon DEF SetupsLast, BusWaits
<1>10. ASSUME SetupsConnected PROVE ~IsSetup(ev) /\ (IsConn(ev) \/ SetupsConnected')
  <2>1. ~IsSetup(ev)
    <3>1. SUFFICES ASSUME IsSetup(ev) PROVE FALSE OBVIOUS
    <3>2. PICK j \in Slots : j < 1 BY <1>1, <1>10, <3>1 DEF SetupsConnected
    <3> QED BY <1>2, <3>2
  <2>2. ASSUME ~IsConn(ev), NEW i \in Slots', IsSetup(At(i)')
        PROVE  \E j \in Slots' : j < i /\ IsConn(At(j)')
    <3>1. i + 1 \in Slots /\ IsSetup(At(i + 1)) /\ i \in Nat BY <1>3, <2>2
    <3>2. PICK j \in Slots : j < i + 1 /\ IsConn(At(j)) BY <1>10, <3>1 DEF SetupsConnected
    <3>3. j # 1 BY <1>1, <2>2, <3>2
    <3>4. j - 1 \in Slots' /\ At(j - 1)' = At(j) /\ j - 1 < i BY <1>2, <1>4, <3>1, <3>2, <3>3
    <3> QED BY <3>2, <3>4
  <2> QED BY <2>1, <2>2, Zenon DEF SetupsConnected
<1>11. ASSUME OutOnce PROVE OutOnce' /\ (IsOut(ev) => ~OutWaits')
  <2>1. ASSUME NEW i \in Slots', NEW j \in Slots', IsOut(At(i)'), IsOut(At(j)') PROVE j = i
    <3>1. i + 1 \in Slots /\ IsOut(At(i + 1)) /\ i \in Nat BY <1>3, <2>1
    <3>2. j + 1 \in Slots /\ IsOut(At(j + 1)) /\ j \in Nat BY <1>3, <2>1
    <3>3. j + 1 = i + 1 BY <1>11, <3>1, <3>2 DEF OutOnce
    <3> QED BY <3>1, <3>2, <3>3
  <2>2. ASSUME IsOut(ev), NEW i \in Slots', IsOut(At(i)') PROVE FALSE
    <3>1. i + 1 \in Slots /\ IsOut(At(i + 1)) /\ i \in Nat /\ i >= 1 BY <1>3, <2>2
    <3>2. i + 1 = 1 BY <1>1, <1>11, <2>2, <3>1 DEF OutOnce
    <3> QED BY <3>1, <3>2
  <2> QED BY <2>1, <2>2, Zenon DEF OutOnce, OutWaits
<1>12. ASSUME NEW x, Ep0Only(x) PROVE Ep0Only(x)' /\ (IsEp0(ev) => ev = x /\ ~Ep0Waits')
  <2>1. ASSUME NEW i \in Slots', IsEp0(At(i)'), NEW j \in Slots', IsEp0(At(j)')
        PROVE  At(i)' = x /\ j = i
    <3>1. i + 1 \in Slots /\ IsEp0(At(i + 1)) /\ i \in Nat /\ At(i)' = At(i + 1) BY <1>3, <2>1
    <3>2. j + 1 \in Slots /\ IsEp0(At(j + 1)) /\ j \in Nat BY <1>3, <2>1
    <3>3. j + 1 = i + 1 /\ At(i + 1) = x BY <1>12, <3>1, <3>2 DEF Ep0Only
    <3> QED BY <3>1, <3>2, <3>3
  <2>2. ASSUME IsEp0(ev), NEW i \in Slots', IsEp0(At(i)') PROVE FALSE
    <3>1. i + 1 \in Slots /\ IsEp0(At(i + 1)) /\ i \in Nat /\ i >= 1 BY <1>3, <2>2
    <3>2. i + 1 = 1 BY <1>1, <1>12, <2>2, <3>1 DEF Ep0Only
    <3> QED BY <3>1, <3>2
  <2>3. IsEp0(ev) => ev = x BY <1>1, <1>12 DEF Ep0Only
  <2>4. Ep0Only(x)' BY <2>1, Zenon DEF Ep0Only
  <2> QED BY <2>2, <2>3, <2>4, Zenon DEF Ep0Waits
<1> QED BY <1>1, <1>5, <1>6, <1>7, <1>8, <1>9, <1>10, <1>11, <1>12

(* ------------------------------ the host ------------------------------- *)

\* What the host has and knows when a control transfer is over.
Over(h, a, b, f, s, e) ==
  /\ e \in Host /\ e.stage = "idle" /\ e.req = "get"
  /\ e.addr = a /\ e.bulk = b /\ e.feat = f /\ e.sent = s
  /\ e.size = h.size /\ e.left = h.left /\ e.speed = h.speed

LEMMA OverFacts ==
  ASSUME NEW h \in Host, NEW a \in {0, 1}, NEW b \in BulkStages, NEW f \in SUBSET Features,
         NEW s \in Nat
  PROVE  Over(h, a, b, f, s, [h EXCEPT !.stage = "idle", !.req = "get", !.addr = a, !.bulk = b,
                                       !.feat = f, !.sent = s])
<1>0. PICK e : e = [h EXCEPT !.stage = "idle", !.req = "get", !.addr = a, !.bulk = b,
                             !.feat = f, !.sent = s]
  OBVIOUS
<1>1. "idle" \in Stages /\ "get" \in Requests BY DEF Stages, Requests
<1>2. e \in Host BY <1>0, <1>1 DEF Host
<1>3. /\ e.stage = "idle" /\ e.req = "get" /\ e.addr = a /\ e.bulk = b /\ e.feat = f /\ e.sent = s
      /\ e.size = h.size /\ e.left = h.left /\ e.speed = h.speed
  BY <1>0 DEF Host
<1> QED BY <1>0, <1>2, <1>3 DEF Over

LEMMA StalledFacts ==
  ASSUME NEW h \in Host
  PROVE  /\ Over(h, h.addr, h.bulk, h.feat, h.sent, Idle(h))
         /\ Over(h, h.addr, h.bulk, IF h.req = "badConfig" THEN h.feat \ {"ltm"} ELSE h.feat,
                 h.sent, Stalled(h))
<1>1. /\ h.addr \in {0, 1} /\ h.bulk \in BulkStages /\ h.feat \in SUBSET Features /\ h.sent \in Nat
  BY DEF Host
<1>2. Over(h, h.addr, h.bulk, h.feat, h.sent, Idle(h))
  <2>1. Idle(h) = [h EXCEPT !.stage = "idle", !.req = "get", !.addr = h.addr, !.bulk = h.bulk,
                            !.feat = h.feat, !.sent = h.sent]
    BY DEF Idle, Host
  <2>2. Over(h, h.addr, h.bulk, h.feat, h.sent,
             [h EXCEPT !.stage = "idle", !.req = "get", !.addr = h.addr, !.bulk = h.bulk,
                       !.feat = h.feat, !.sent = h.sent])
    BY <1>1, OverFacts
  <2> QED BY <2>1, <2>2
<1>3. PICK f \in SUBSET Features : f = IF h.req = "badConfig" THEN h.feat \ {"ltm"} ELSE h.feat
  BY <1>1
<1>4. Over(h, h.addr, h.bulk, f, h.sent, Stalled(h))
  <2>1. Stalled(h) = [h EXCEPT !.stage = "idle", !.req = "get", !.addr = h.addr, !.bulk = h.bulk,
                               !.feat = f, !.sent = h.sent]
    BY <1>3 DEF Stalled, Idle, Host
  <2>2. Over(h, h.addr, h.bulk, f, h.sent,
             [h EXCEPT !.stage = "idle", !.req = "get", !.addr = h.addr, !.bulk = h.bulk,
                       !.feat = f, !.sent = h.sent])
    BY <1>1, <1>3, OverFacts
  <2> QED BY <2>1, <2>2
<1> QED BY <1>2, <1>3, <1>4

FinishedAddr(h) == IF h.req = "address" THEN 1 ELSE h.addr
FinishedFeat(h) ==
  IF h.req = "config" THEN (h.feat \ {"in", "out", "ltm"}) \cup {"configured"}
  ELSE IF h.req = "unconfig" THEN h.feat \ {"configured", "ltm"}
  ELSE IF h.req \in DOMAIN Sets THEN h.feat \cup {Sets[h.req]}
  ELSE IF h.req \in DOMAIN Clears THEN h.feat \ {Clears[h.req]} ELSE h.feat
FinishedBulk(h) ==
  IF h.req = "config" THEN "ready" ELSE IF h.req = "unconfig" THEN "off" ELSE h.bulk

LEMMA FinishedFacts ==
  ASSUME NEW h \in Host
  PROVE  Over(h, FinishedAddr(h), FinishedBulk(h), FinishedFeat(h),
              IF h.req = "config" THEN 0 ELSE h.sent, Finished(h))
<1>1. /\ h.addr \in {0, 1} /\ h.bulk \in BulkStages /\ h.feat \in SUBSET Features /\ h.sent \in Nat
  BY DEF Host
<1>2. PICK a \in {0, 1} : a = FinishedAddr(h) BY <1>1 DEF FinishedAddr
<1>3. PICK b \in BulkStages : b = FinishedBulk(h) BY <1>1 DEF FinishedBulk, BulkStages
<1>4. PICK f \in SUBSET Features : f = FinishedFeat(h)
  <2>1. h.req \in DOMAIN Sets => Sets[h.req] \in Features BY FeatureRequests
  <2>2. "configured" \in Features BY DEF Features
  <2> QED BY <1>1, <2>1, <2>2 DEF FinishedFeat
<1>5. PICK s \in Nat : s = IF h.req = "config" THEN 0 ELSE h.sent BY <1>1
<1>6. Finished(h) = [h EXCEPT !.stage = "idle", !.req = "get", !.addr = a, !.bulk = b,
                              !.feat = f, !.sent = s]
  <2>1. /\ DOMAIN Sets = {"setU1", "setU2", "setLtm", "haltIn", "haltOut"}
        /\ DOMAIN Clears = {"clearU1", "clearU2", "clearLtm", "clearIn", "clearOut"}
    BY FeatureRequests
  <2>2. CASE h.req = "address"
    <3>1. Finished(h) = [Idle(h) EXCEPT !.addr = 1] BY <2>1, <2>2 DEF Finished
    <3>2. a = 1 /\ b = h.bulk /\ f = h.feat /\ s = h.sent
      BY <1>2, <1>3, <1>4, <1>5, <2>1, <2>2 DEF FinishedAddr, FinishedBulk, FinishedFeat
    <3> QED BY <3>1, <3>2 DEF Idle, Host
  <2>3. CASE h.req = "config"
    <3>1. Finished(h) = [Idle(h) EXCEPT !.bulk = "ready", !.sent = 0,
                           !.feat = (@ \ {"in", "out", "ltm"}) \cup {"configured"}]
      BY <2>1, <2>3 DEF Finished
    <3>2. /\ a = h.addr /\ b = "ready" /\ s = 0
          /\ f = (h.feat \ {"in", "out", "ltm"}) \cup {"configured"}
      BY <1>2, <1>3, <1>4, <1>5, <2>1, <2>3 DEF FinishedAddr, FinishedBulk, FinishedFeat
    <3> QED BY <3>1, <3>2 DEF Idle, Host
  <2>4. CASE h.req = "unconfig"
    <3>1. Finished(h) = [Idle(h) EXCEPT !.bulk = "off", !.feat = @ \ {"configured", "ltm"}]
      BY <2>1, <2>4 DEF Finished
    <3>2. a = h.addr /\ b = "off" /\ s = h.sent /\ f = h.feat \ {"configured", "ltm"}
      BY <1>2, <1>3, <1>4, <1>5, <2>1, <2>4 DEF FinishedAddr, FinishedBulk, FinishedFeat
    <3> QED BY <3>1, <3>2 DEF Idle, Host
  <2>5. CASE h.req \in DOMAIN Sets
    <3>1. Finished(h) = [Idle(h) EXCEPT !.feat = @ \cup {Sets[h.req]}] BY <2>1, <2>5 DEF Finished
    <3>2. a = h.addr /\ b = h.bulk /\ s = h.sent /\ f = h.feat \cup {Sets[h.req]}
      BY <1>2, <1>3, <1>4, <1>5, <2>1, <2>5 DEF FinishedAddr, FinishedBulk, FinishedFeat
    <3> QED BY <3>1, <3>2 DEF Idle, Host
  <2>6. CASE h.req \in DOMAIN Clears
    <3>1. Finished(h) = [Idle(h) EXCEPT !.feat = @ \ {Clears[h.req]}] BY <2>1, <2>6 DEF Finished
    <3>2. a = h.addr /\ b = h.bulk /\ s = h.sent /\ f = h.feat \ {Clears[h.req]}
      BY <1>2, <1>3, <1>4, <1>5, <2>1, <2>6 DEF FinishedAddr, FinishedBulk, FinishedFeat
    <3> QED BY <3>1, <3>2 DEF Idle, Host
  <2>7. CASE h.req \notin {"address", "config", "unconfig"} \cup DOMAIN Sets \cup DOMAIN Clears
    <3>1. Finished(h) = Idle(h) BY <2>1, <2>7 DEF Finished
    <3>2. a = h.addr /\ b = h.bulk /\ s = h.sent /\ f = h.feat
      BY <1>2, <1>3, <1>4, <1>5, <2>1, <2>7 DEF FinishedAddr, FinishedBulk, FinishedFeat
    <3> QED BY <3>1, <3>2 DEF Idle, Host
  <2> QED BY <2>2, <2>3, <2>4, <2>5, <2>6, <2>7
<1>7. Over(h, a, b, f, s, [h EXCEPT !.stage = "idle", !.req = "get", !.addr = a, !.bulk = b,
                                    !.feat = f, !.sent = s])
  BY <1>1, <1>2, <1>3, <1>4, <1>5, OverFacts
<1> QED BY <1>2, <1>3, <1>4, <1>5, <1>6, <1>7

(* ------------------ the invariants, field by field --------------------- *)

\* What is agreed on while a handled request is under way.
AgreesStalled ==
  /\ dev.addr = host.addr
  /\ dev.feat = IF host.req = "badConfig" THEN host.feat \ {"ltm"} ELSE host.feat
  /\ dev.state = "CONFIGURED" <=> host.bulk # "off"
AgreesFinished ==
  /\ dev.addr = FinishedAddr(host) /\ dev.feat = FinishedFeat(host)
  /\ dev.state = "CONFIGURED" <=> FinishedBulk(host) # "off"
  /\ host.req \in Queries /\ dev.hw0["in"] = "data" => dev.answer = Expected(host)
  /\ host.req \in DOMAIN Sets => MayHave(host, Sets[host.req])

Honest ==
  /\ SetupWaits => Underway
  /\ host.addr = 0 => host.bulk = "off"
  /\ ResetWaits => host.addr = 0 /\ dev.feat \ {"ltm"} = host.feat
  /\ ~ResetWaits /\ ~Handled => dev.addr = host.addr /\ dev.feat = host.feat
  /\ ~BusWaits /\ ~Handled => (dev.state = "CONFIGURED" <=> host.bulk # "off")
  /\ Handled /\ dev.stalled => AgreesStalled
  /\ Handled /\ ~dev.stalled => AgreesFinished
  /\ ~hist.lied

LEMMA HonestParts ==
  ASSUME dev \in Dev, host \in Host
  PROVE  StatusIsHonest <=> HandledInStep /\ (hist.cut \/ Honest)
<1>1. Agrees(Stalled(host)) <=> AgreesStalled
  BY StalledFacts DEF Agrees, AgreesStalled, Over
<1>2. Agrees(Finished(host)) <=> /\ dev.addr = FinishedAddr(host) /\ dev.feat = FinishedFeat(host)
                                 /\ dev.state = "CONFIGURED" <=> FinishedBulk(host) # "off"
  BY FinishedFacts DEF Agrees, Over
<1>3. dev.hw0.in = dev.hw0["in"] BY DEF Dev
<1>4. HostAgrees /\ ~hist.lied <=> Honest
  BY <1>1, <1>2, <1>3 DEF HostAgrees, Honest, AgreesFinished
<1>5. HandledInStep /\ ~hist.cut /\ Honest => RequestsAreDone
  BY DEF HandledInStep, Honest, RequestsAreDone, Handled, Underway
<1>6. RequestsAreDone => hist.cut \/ ~hist.lied BY DEF RequestsAreDone
<1>7. hist.cut => RequestsAreDone BY DEF RequestsAreDone
<1> QED BY <1>4, <1>5, <1>6, <1>7 DEF StatusIsHonest


\* The driver's control endpoint beside the events that wait.
Fits(d) ==
  /\ d.hw0[Ep0Dir(d.st)] \in {"none", Ep0Trb(d.st)} /\ d.hw0[Other(Ep0Dir(d.st))] = "none"
  /\ d.st \notin {"IDLE", "IN_STATUS", "OUT_STATUS"} => (d.isIn <=> Ep0Dir(d.st) = "in")
Expects(d) == Cmpl(Ep0Of(Ep0Dir(d.st)), Ep0Trb(d.st))

Ep0Fits ==
  /\ Fits(dev) /\ Ep0Only(Expects(dev))
  /\ Ep0Trb(dev.st) # "none" => dev.hw0[Ep0Dir(dev.st)] = Ep0Trb(dev.st) \/ Ep0Waits
  /\ Ep0Waits => Ep0Trb(dev.st) # "none" /\ dev.hw0[Ep0Dir(dev.st)] = "none"
  /\ SetupWaits <=> dev.st = "IDLE" /\ Ep0Waits

InOrder ==
  /\ host.stage # "idle" \/ host.bulk # "off" => hist.resets > 0
  /\ hist.resets > 0 => dev.speed = host.speed \/ ConnWaits
  /\ ResetsConnect /\ OutsFirst
  /\ Underway => SetupsLast
  /\ dev.speed # "unknown" \/ SetupsConnected
  /\ BusWaits <=> ResetWaits \/ ConnWaits

OutFits ==
  /\ dev.live => (dev.out.active /\ dev.out.hwo) \/ OutWaits
  /\ dev.refused => hist.reconf \/ hist.strayed
  /\ dev.live => dev.out.trb /\ dev.speed # "unknown" /\ (dev.out.hwo => dev.out.active)
  /\ OutWaits => dev.live
  /\ dev.out.active => dev.out.hwo
  /\ dev.out.hwo => dev.out.got < dev.out.len
  /\ dev.out.active /\ ~hist.reconf => dev.out.started /\ dev.live
  /\ ~hist.reconf => OutOnce /\ (OutWaits => ~dev.out.hwo)

\* The inductive invariant.
IInv ==
  /\ TypeOK /\ InOrder /\ Ep0Fits /\ OutFits /\ InRuns /\ DownloadInStep
  /\ HandledInStep /\ (hist.cut \/ Honest) /\ NothingLost

LEMMA Ep0Parts ==
  ASSUME dev \in Dev
  PROVE  Ep0InStep <=> Ep0Fits
<1>1. dev.st \in States /\ dev.hw0.in = dev.hw0["in"] /\ dev.hw0.out = dev.hw0["out"]
  BY DEF Dev
<1>2. States = {"IDLE", "IN_DATA", "OUT_DATA", "IN_WAIT_NRDY", "OUT_WAIT_NRDY", "IN_STATUS",
                "OUT_STATUS"}
  BY DEF States
<1>3. IsSetup(Expects(dev)) <=> dev.st = "IDLE"
  BY <1>1, <1>2 DEF IsSetup, Expects, Cmpl, Ep0Of, Ep0Dir, Ep0Trb
<1>4. \A ev : IsSetup(ev) => IsEp0(ev) BY DEF IsSetup, IsEp0, Cmpl
<1>5. Ep0Only(Expects(dev)) => (SetupWaits <=> dev.st = "IDLE" /\ Ep0Waits)
  BY <1>3, <1>4, Zenon DEF Ep0Only, SetupWaits, Ep0Waits
<1>6. OneDescriptor <=> Ep0Fits BY <1>5, OneDescriptorParts DEF Ep0Fits, Fits, Expects
<1>7. Ep0Fits => /\ dev.st = "IDLE" <=> dev.hw0["out"] = "setup" \/ SetupWaits
                 /\ dev.hw0["in"] = "data" => dev.st = "IN_DATA"
                 /\ dev.hw0["in"] = "status" => dev.st = "IN_STATUS"
                 /\ dev.hw0["out"] = "data" => dev.st = "OUT_DATA"
                 /\ dev.hw0["out"] = "status" => dev.st = "OUT_STATUS"
  BY <1>1, <1>2 DEF Ep0Fits, Fits, Ep0Dir, Ep0Trb, Other
<1> QED BY <1>1, <1>6, <1>7 DEF Ep0InStep

LEMMA OutParts ==
  ReceiveNeverDeaf /\ NeverRefused /\ OutRuns <=> OutFits
<1>1. (\A i \in Slots : IsOut(At(i)) /\ ~hist.reconf =>
         ~dev.out.hwo /\ \A j \in Slots : IsOut(At(j)) => j = i)
      <=> (~hist.reconf => OutOnce /\ (OutWaits => ~dev.out.hwo))
  BY Zenon DEF OutOnce, OutWaits
<1> QED BY <1>1 DEF OutFits, ReceiveNeverDeaf, NeverRefused, OutRuns

LEMMA Parts ==
  IInv <=> BulkInStep /\ Ep0InStep /\ StatusIsHonest /\ NothingLost
<1>1. ASSUME dev \in Dev PROVE BusWaits <=> ResetWaits \/ ConnWaits
  <2>1. \A i \in Slots : At(i) \in Events BY <1>1 DEF Dev, Slots, At
  <2>2. \A i \in Slots : IsBus(At(i)) <=> IsReset(At(i)) \/ IsConn(At(i)) BY <2>1, EventKinds
  <2> QED BY <2>2, Zenon DEF BusWaits, ResetWaits, ConnWaits
<1> QED BY <1>1, EventsParts, Ep0Parts, OutParts, HonestParts DEF IInv, TypeOK, InOrder, BulkInStep

(* ----------------------- what an action leaves ------------------------- *)

LEMMA Ep0Frame ==
  ASSUME Ep0Fits, dev'.st = dev.st, dev'.isIn = dev.isIn, dev'.hw0 = dev.hw0,
         Ep0Waits' <=> Ep0Waits, SetupWaits' <=> SetupWaits, \A x : Ep0Only(x) => Ep0Only(x)'
  PROVE  Ep0Fits'
<1>1. Fits(dev)' <=> Fits(dev) BY DEF Fits
<1>2. Expects(dev)' = Expects(dev) BY DEF Expects
<1>3. Ep0Only(Expects(dev)) => Ep0Only(Expects(dev))' BY <1>2 DEF Ep0Only
<1> QED BY <1>1, <1>3 DEF Ep0Fits

LEMMA HonestFrame ==
  ASSUME HandledInStep, hist.cut \/ Honest,
         SameEp0(dev, dev'), SameCore(dev, dev'), dev'.live = dev.live,
         dev'.in.mps = dev.in.mps, dev'.out.mps = dev.out.mps,
         ResetWaits' <=> ResetWaits, BusWaits' <=> BusWaits, SetupWaits' <=> SetupWaits,
         host'.stage = host.stage, host'.req = host.req, host'.addr = host.addr,
         host'.speed = host.speed, host'.feat = host.feat,
         host'.bulk = "off" <=> host.bulk = "off",
         host.bulk = "off" => dev'.out.got \in {dev.out.got, 0},
         hist'.cut = hist.cut, hist'.lied = hist.lied, hist.reconf => hist'.reconf
  PROVE  HandledInStep' /\ (hist'.cut \/ Honest')
<1>1. /\ Underway' <=> Underway
      /\ Handled' <=> Handled
      /\ BulkReady' <=> BulkReady
  BY DEF Underway, Handled, BulkReady
<1>2. HandledInStep' BY <1>1 DEF HandledInStep, SameEp0
<1>3. Expected(host)' = Expected(host) BY DEF Expected
<1>4. \A f : MayHave(host, f)' <=> MayHave(host, f) BY DEF MayHave
<1>5. AgreesStalled' <=> AgreesStalled BY DEF AgreesStalled, SameCore
<1>6. AgreesFinished' <=> AgreesFinished
  <2>1. /\ FinishedAddr(host)' = FinishedAddr(host) /\ FinishedFeat(host)' = FinishedFeat(host)
        /\ FinishedBulk(host)' # "off" <=> FinishedBulk(host) # "off"
    BY DEF FinishedAddr, FinishedFeat, FinishedBulk
  <2> QED BY <1>3, <1>4, <2>1 DEF AgreesFinished, SameCore, SameEp0
<1>7. Honest => Honest' BY <1>1, <1>5, <1>6 DEF Honest, SameCore, SameEp0
<1> QED BY <1>2, <1>7

\* No event is raised or handled, and the control endpoint is left alone.
LEMMA Quiet ==
  ASSUME IInv, dev'.events = dev.events,
         SameEp0(dev, dev'), SameCore(dev, dev'), dev'.live = dev.live,
         dev'.in.mps = dev.in.mps, dev'.out = dev.out, host' = host,
         hist'.cut = hist.cut, hist'.lied = hist.lied, hist'.reconf = hist.reconf,
         hist'.resets = hist.resets, app'.got = app.got
  PROVE  InOrder' /\ Ep0Fits' /\ HandledInStep' /\ (hist'.cut \/ Honest') /\ NothingLost'
<1>1. InOrder' BY EventsSame DEF IInv, InOrder, Underway, SameCore
<1>2. Ep0Fits' BY Ep0Frame, EventsSame DEF IInv, SameEp0
<1>3. HandledInStep' /\ (hist'.cut \/ Honest') BY HonestFrame, EventsSame DEF IInv
<1>4. NothingLost' BY DEF IInv, NothingLost
<1> QED BY <1>1, <1>2, <1>3, <1>4

\* The IN endpoint, and whether a start was refused.
InSet(d, i, r, e) ==
  /\ e \in Dev /\ e.events = d.events
  /\ SameEp0(d, e) /\ SameCore(d, e)
  /\ e.out = d.out /\ e.live = d.live /\ e.dataBufferSize = d.dataBufferSize
  /\ e.in = i /\ e.refused = r

LEMMA InUpdate ==
  ASSUME NEW d \in Dev, NEW i \in InEndpoint, NEW r \in BOOLEAN
  PROVE  InSet(d, i, r, [d EXCEPT !.in = i, !.refused = r])
<1>0. PICK e : e = [d EXCEPT !.in = i, !.refused = r] OBVIOUS
<1>1. e \in Dev BY <1>0 DEF Dev
<1>2. e.events = d.events /\ SameEp0(d, e) /\ SameCore(d, e)
  BY <1>0 DEF Dev, SameEp0, SameCore
<1>3. /\ e.out = d.out /\ e.live = d.live /\ e.dataBufferSize = d.dataBufferSize
      /\ e.in = i /\ e.refused = r
  BY <1>0 DEF Dev
<1> QED BY <1>0, <1>1, <1>2, <1>3 DEF InSet

\* The parts that speak of the bulk endpoints hold after a change of the IN
\* endpoint that leaves the events.
LEMMA OutQuiet ==
  ASSUME IInv, dev'.events = dev.events, SameCore(dev, dev'), dev'.live = dev.live,
         dev'.out = dev.out, hist'.reconf = hist.reconf,
         dev'.refused => dev.refused \/ hist'.reconf \/ hist'.strayed,
         hist.strayed => hist'.strayed
  PROVE  OutFits'
  BY EventsSame DEF IInv, OutFits, SameCore

(* ------------------------------- Send ---------------------------------- *)

LEMMA SendFillKeeps ==
  ASSUME IInv, SendFill
  PROVE  IInv'
<1>0. /\ dev \in Dev /\ dev.in \in InEndpoint /\ dev.refused \in BOOLEAN
      /\ snd \in Snd /\ hist \in Hist /\ snd.msg \in Messages
      /\ dev.in.started \in BOOLEAN /\ dev.in.hwo \in BOOLEAN
  BY DEF IInv, TypeOK, Dev, Snd, InEndpoint
<1>1. PICK i : i = [dev.in EXCEPT !.hwo = TRUE, !.msg = snd.msg, !.started = @ /\ dev.in.hwo]
  OBVIOUS
<1>2. i \in InEndpoint BY <1>0, <1>1 DEF InEndpoint
<1>3. /\ i.hwo /\ i.msg = snd.msg /\ (i.started <=> dev.in.started /\ dev.in.hwo)
      /\ i.active = dev.in.active /\ i.sent = dev.in.sent /\ i.mps = dev.in.mps
  BY <1>0, <1>1 DEF InEndpoint
<1>4. dev' = [dev EXCEPT !.in = i, !.refused = dev.refused] BY <1>0, <1>1 DEF SendFill, Dev
<1>5. InSet(dev, i, dev.refused, [dev EXCEPT !.in = i, !.refused = dev.refused])
  BY <1>0, <1>2, InUpdate
<1>6. InSet(dev, i, dev.refused, dev') BY <1>4, <1>5
<1>7. snd' \in Snd /\ snd'.pc = "start" /\ snd'.msg = snd.msg /\ snd.pc = "fill"
  BY <1>0 DEF SendFill, Snd
<1>8. /\ hist' \in Hist /\ hist'.cut = hist.cut /\ hist'.reconf = hist.reconf
      /\ hist'.lied = hist.lied /\ hist'.resets = hist.resets
      /\ hist'.strayed <=> hist.strayed \/ ~dev.live
  BY <1>0 DEF SendFill, Hist
<1>9. app' = app /\ host' = host BY DEF SendFill
<1>10. TypeOK' BY <1>6, <1>7, <1>8, <1>9 DEF IInv, TypeOK, InSet
<1>11. InOrder' /\ Ep0Fits' /\ HandledInStep' /\ (hist'.cut \/ Honest') /\ NothingLost'
  BY <1>3, <1>6, <1>8, <1>9, Quiet DEF InSet
<1>12. OutFits' BY <1>6, <1>8, OutQuiet DEF InSet, IInv, OutFits
<1>13. InRuns' BY <1>3, <1>6, <1>7, <1>8 DEF InSet, IInv, InRuns
<1>14. DownloadInStep'
  BY <1>3, <1>6, <1>7, <1>8, <1>9, EventsSame DEF InSet, IInv, DownloadInStep, DataSent, DataComes
<1> QED BY <1>10, <1>11, <1>12, <1>13, <1>14 DEF IInv

LEMMA SendStartKeeps ==
  ASSUME IInv, SendStart
  PROVE  IInv'
<1>0. /\ dev \in Dev /\ dev.in \in InEndpoint /\ dev.refused \in BOOLEAN
      /\ snd \in Snd /\ hist \in Hist
      /\ dev.in.started \in BOOLEAN /\ dev.in.active \in BOOLEAN
      /\ dev.in.sent \in SUBSET Messages /\ dev.in.msg \in Messages
  BY DEF IInv, TypeOK, Dev, Snd, InEndpoint
<1>1. PICK sent \in SUBSET Messages :
        sent = IF dev.in.active THEN dev.in.sent \cup {dev.in.msg} ELSE {dev.in.msg}
  BY <1>0
<1>2. PICK i \in InEndpoint, r \in BOOLEAN :
        /\ i.started /\ (i.active <=> dev.in.active \/ ~dev.in.started) /\ i.sent = sent
        /\ i.hwo = dev.in.hwo /\ i.msg = dev.in.msg /\ i.mps = dev.in.mps
        /\ r <=> dev.refused \/ (~dev.in.started /\ dev.in.active)
        /\ dev' = [dev EXCEPT !.in = i, !.refused = r]
  <2>1. PICK j : j = [dev.in EXCEPT !.sent = sent] OBVIOUS
  <2>2. /\ j \in InEndpoint /\ j.started = dev.in.started /\ j.active = dev.in.active
        /\ j.sent = sent /\ j.hwo = dev.in.hwo /\ j.msg = dev.in.msg /\ j.mps = dev.in.mps
    BY <1>0, <2>1 DEF InEndpoint
  <2>3. PICK d : d = [dev EXCEPT !.in = j] OBVIOUS
  <2>4. d.in = j /\ d.refused = dev.refused /\ d["in"] = j BY <1>0, <2>3 DEF Dev
  <2>5. dev' = IF dev.in.started THEN d ELSE StartBulk(d, "in")
    <3>1. d = [dev EXCEPT !.in.sent = sent] BY <1>0, <2>1, <2>3 DEF Dev
    <3> QED BY <1>1, <3>1 DEF SendStart
  <2>6. CASE dev.in.started
    <3>1. d = [dev EXCEPT !.in = j, !.refused = dev.refused] BY <1>0, <2>3 DEF Dev
    <3> QED BY <1>0, <2>2, <2>5, <2>6, <3>1
  <2>7. CASE ~dev.in.started
    <3>1. PICK k : k = [j EXCEPT !.active = TRUE, !.started = TRUE] OBVIOUS
    <3>2. /\ k \in InEndpoint /\ k.started /\ k.active /\ k.sent = sent /\ k.hwo = dev.in.hwo
          /\ k.msg = dev.in.msg /\ k.mps = dev.in.mps
      BY <2>2, <3>1 DEF InEndpoint
    <3>3. CASE dev.in.active
      <4>1. k = [j EXCEPT !.started = TRUE] BY <2>2, <3>1, <3>3 DEF InEndpoint
      <4>2. dev' = [d EXCEPT !.refused = TRUE, !["in"].started = TRUE]
        BY <2>2, <2>4, <2>5, <2>7, <3>3 DEF StartBulk
      <4>3. dev' = [dev EXCEPT !.in = k, !.refused = TRUE]
        BY <1>0, <2>3, <2>4, <4>1, <4>2 DEF Dev
      <4> QED BY <1>0, <2>7, <3>2, <3>3, <4>3
    <3>4. CASE ~dev.in.active
      <4>1. dev' = [d EXCEPT !["in"].active = TRUE, !["in"].started = TRUE]
        BY <2>2, <2>4, <2>5, <2>7, <3>4 DEF StartBulk
      <4>2. dev' = [dev EXCEPT !.in = k, !.refused = dev.refused]
        BY <1>0, <2>3, <2>4, <3>1, <4>1 DEF Dev
      <4> QED BY <1>0, <2>7, <3>2, <3>4, <4>2
    <3> QED BY <3>3, <3>4
  <2> QED BY <2>6, <2>7
<1>3. InSet(dev, i, r, [dev EXCEPT !.in = i, !.refused = r]) BY <1>0, InUpdate
<1>4. InSet(dev, i, r, dev') BY <1>2, <1>3
<1>5. snd' \in Snd /\ snd'.pc = "wait" /\ snd'.msg = snd.msg /\ snd.pc = "start"
  BY <1>0 DEF SendStart, Snd
<1>6. /\ hist' \in Hist /\ hist'.cut = hist.cut /\ hist'.reconf = hist.reconf
      /\ hist'.lied = hist.lied /\ hist'.resets = hist.resets
      /\ hist'.strayed <=> hist.strayed \/ ~dev.live
  BY <1>0 DEF SendStart, Hist
<1>7. app' = app /\ host' = host BY DEF SendStart
<1>8. TypeOK' BY <1>4, <1>5, <1>6, <1>7 DEF IInv, TypeOK, InSet
<1>9. InOrder' /\ Ep0Fits' /\ HandledInStep' /\ (hist'.cut \/ Honest') /\ NothingLost'
  BY <1>2, <1>4, <1>6, <1>7, Quiet DEF InSet
<1>10. r => dev.refused \/ hist.reconf \/ hist.strayed BY <1>2 DEF IInv, InRuns
<1>11. OutFits' BY <1>4, <1>6, <1>10, OutQuiet DEF InSet
<1>12. InRuns' BY <1>2, <1>4, <1>5, <1>6 DEF InSet, IInv, InRuns
<1>13. DownloadInStep'
  <2>1. dev.in.msg = snd.msg BY <1>5 DEF IInv, DownloadInStep
  <2>2. DataSent' => DataSent \/ DataComes
    BY <1>1, <1>2, <1>4, <1>5, <2>1 DEF InSet, DataSent, DataComes
  <2>3. ~DataComes' BY <1>5 DEF DataComes
  <2> QED BY <1>4, <1>5, <1>7, <2>2, <2>3, EventsSame DEF InSet, IInv, DownloadInStep
<1> QED BY <1>8, <1>9, <1>11, <1>12, <1>13 DEF IInv

LEMMA SendDoneKeeps ==
  ASSUME IInv, SendDone
  PROVE  IInv'
<1>0. /\ dev \in Dev /\ dev.in \in InEndpoint /\ dev.refused \in BOOLEAN /\ snd \in Snd
  BY DEF IInv, TypeOK, Dev, Snd
<1>1. PICK i : i = [dev.in EXCEPT !.started = FALSE] OBVIOUS
<1>2. /\ i \in InEndpoint /\ ~i.started /\ i.hwo = dev.in.hwo /\ i.msg = dev.in.msg
      /\ i.active = dev.in.active /\ i.sent = dev.in.sent /\ i.mps = dev.in.mps
  BY <1>0, <1>1 DEF InEndpoint
<1>3. dev' = [dev EXCEPT !.in = i, !.refused = dev.refused] BY <1>0, <1>1 DEF SendDone, Dev
<1>4. InSet(dev, i, dev.refused, [dev EXCEPT !.in = i, !.refused = dev.refused])
  BY <1>0, <1>2, InUpdate
<1>5. InSet(dev, i, dev.refused, dev') BY <1>3, <1>4
<1>6. snd' \in Snd /\ snd'.pc = "idle" /\ snd.pc = "wait" /\ ~dev.in.hwo
  BY <1>0 DEF SendDone, Snd
<1>7. app' = app /\ host' = host /\ hist' = hist BY DEF SendDone
<1>8. TypeOK' BY <1>5, <1>6, <1>7 DEF IInv, TypeOK, InSet
<1>9. InOrder' /\ Ep0Fits' /\ HandledInStep' /\ (hist'.cut \/ Honest') /\ NothingLost'
  BY <1>2, <1>5, <1>7, Quiet DEF InSet
<1>10. OutFits' BY <1>5, <1>7, OutQuiet DEF InSet, IInv, OutFits
<1>11. InRuns' BY <1>2, <1>5, <1>6, <1>7 DEF InSet, IInv, InRuns
<1>12. DownloadInStep'
  BY <1>2, <1>5, <1>6, <1>7, EventsSame DEF InSet, IInv, DownloadInStep, DataSent, DataComes
<1> QED BY <1>8, <1>9, <1>10, <1>11, <1>12 DEF IInv

LEMMA SendTimeoutKeeps ==
  ASSUME IInv, SendTimeout
  PROVE  IInv'
<1>0. snd \in Snd /\ hist \in Hist BY DEF IInv, TypeOK
<1>1. snd' \in Snd /\ snd'.pc = "idle" /\ snd.pc = "wait"
  BY <1>0 DEF SendTimeout, Snd
<1>2. /\ hist' \in Hist /\ hist'.cut = hist.cut /\ hist'.reconf = hist.reconf
      /\ hist'.lied = hist.lied /\ hist'.resets = hist.resets /\ hist'.strayed = hist.strayed
  BY <1>0 DEF SendTimeout, Hist
<1>3. dev' = dev /\ app' = app /\ host' = host BY DEF SendTimeout
<1>4. TypeOK' BY <1>1, <1>2, <1>3 DEF IInv, TypeOK
<1>5. InOrder' /\ Ep0Fits' /\ HandledInStep' /\ (hist'.cut \/ Honest') /\ NothingLost'
  BY <1>2, <1>3, Quiet DEF SameEp0, SameCore
<1>6. OutFits' BY <1>2, <1>3, OutQuiet DEF SameCore, IInv, OutFits
<1>7. InRuns' BY <1>1, <1>2, <1>3 DEF IInv, InRuns
<1>8. DownloadInStep'
  BY <1>1, <1>3, EventsSame DEF IInv, DownloadInStep, DataSent, DataComes
<1> QED BY <1>4, <1>5, <1>6, <1>7, <1>8 DEF IInv

(* ---------------------------- application ------------------------------ *)

LEMMA AppDownloadKeeps ==
  ASSUME IInv, AppDownload
  PROVE  IInv'
<1>0. /\ dev \in Dev /\ snd \in Snd /\ app \in App /\ host.size \in Nat /\ "DATA" \in Messages
  BY DEF IInv, TypeOK, Host, Messages
<1>1. PICK e : e = [dev EXCEPT !.dataBufferSize = host.size] OBVIOUS
<1>2. e \in Dev BY <1>0, <1>1 DEF Dev
<1>3. e.events = dev.events /\ SameEp0(dev, e) /\ SameCore(dev, e)
  BY <1>0, <1>1 DEF Dev, SameEp0, SameCore
<1>4. e.in = dev.in /\ e.out = dev.out /\ e.live = dev.live /\ e.refused = dev.refused
  BY <1>0, <1>1 DEF Dev
<1>5. dev' = e BY <1>1 DEF AppDownload
<1>6. snd' \in Snd /\ snd'.pc = "fill" /\ snd'.msg = "DATA" /\ snd.pc = "idle"
  BY <1>0 DEF AppDownload, Snd
<1>7. /\ app' \in App /\ app'.todo = "none" /\ app'.mode = "data" /\ app'.left = host.size
      /\ app'.got = app.got /\ app.todo = "download"
  BY <1>0 DEF AppDownload, App
<1>8. host' = host /\ hist' = hist BY DEF AppDownload
<1>9. TypeOK' BY <1>2, <1>4, <1>5, <1>6, <1>7, <1>8 DEF IInv, TypeOK
<1>10. InOrder' /\ Ep0Fits' /\ HandledInStep' /\ (hist'.cut \/ Honest') /\ NothingLost'
  BY <1>3, <1>4, <1>5, <1>7, <1>8, Quiet
<1>11. OutFits' BY <1>3, <1>4, <1>5, <1>8, OutQuiet DEF IInv, OutFits
<1>12. InRuns' BY <1>4, <1>5, <1>6, <1>8 DEF IInv, InRuns
<1>13. DownloadInStep'
  <2>1. DataSent' <=> DataSent BY <1>4, <1>5 DEF DataSent
  <2>2. app.mode = "cmd" /\ dev.out.got = 0 /\ ~DataSent /\ host.bulk # "data" /\ host.size # 0
    BY <1>7 DEF IInv, DownloadInStep
  <2> QED BY <1>0, <1>4, <1>5, <1>6, <1>7, <1>8, <2>1, <2>2 DEF DownloadInStep, DataComes
<1> QED BY <1>9, <1>10, <1>11, <1>12, <1>13 DEF IInv

LEMMA AppOkayKeeps ==
  ASSUME IInv, AppOkay
  PROVE  IInv'
<1>0. /\ snd \in Snd /\ app \in App /\ "OKAY" \in Messages BY DEF IInv, TypeOK, Messages
<1>1. snd' \in Snd /\ snd'.pc = "fill" /\ snd'.msg = "OKAY" /\ snd.pc = "idle"
  BY <1>0 DEF AppOkay, Snd
<1>2. /\ app' \in App /\ app'.todo = "none" /\ app'.mode = "cmd"
      /\ app'.got = app.got /\ app.todo = "okay"
  BY <1>0 DEF AppOkay, App
<1>3. dev' = dev /\ host' = host /\ hist' = hist BY DEF AppOkay
<1>4. TypeOK' BY <1>1, <1>2, <1>3 DEF IInv, TypeOK
<1>5. InOrder' /\ Ep0Fits' /\ HandledInStep' /\ (hist'.cut \/ Honest') /\ NothingLost'
  BY <1>2, <1>3, Quiet DEF SameEp0, SameCore
<1>6. OutFits' BY <1>3, OutQuiet DEF SameCore, IInv, OutFits
<1>7. InRuns' BY <1>1, <1>3 DEF IInv, InRuns
<1>8. DownloadInStep'
  BY <1>1, <1>2, <1>3, EventsSame DEF IInv, DownloadInStep, DataSent, DataComes
<1> QED BY <1>4, <1>5, <1>6, <1>7, <1>8 DEF IInv

(* ------------------------- control transfers --------------------------- *)

LEMMA HostSetupKeeps ==
  ASSUME IInv, HostSetup
  PROVE  IInv'
<1>0. hist \in Hist /\ host \in Host /\ hist.requests \in Nat BY DEF IInv, TypeOK, Hist
<1>1. PICK req \in {"address", "config"} \cup hist.bound.asks, k \in Nat :
        /\ req \in {"config", "unconfig", "badConfig"} => host.addr = 1
        /\ req = "address" => host.addr = 0
        /\ host' = [host EXCEPT !.stage = "setup", !.req = req]
        /\ hist' = [hist EXCEPT !.requests = k]
  <2>1. PICK req \in {"address", "config"} \cup hist.bound.asks :
          /\ req \in {"config", "unconfig", "badConfig"} => host.addr = 1
          /\ req = "address" => host.addr = 0
          /\ host' = [host EXCEPT !.stage = "setup", !.req = req]
          /\ hist' = [hist EXCEPT !.requests =
                        IF req = "address" \/ (req = "config" /\ host.bulk = "off")
                          THEN @ ELSE @ + 1]
    BY DEF HostSetup
  <2>2. PICK k \in Nat :
          k = IF req = "address" \/ (req = "config" /\ host.bulk = "off")
                THEN hist.requests ELSE hist.requests + 1
    BY <1>0
  <2> QED BY <2>1, <2>2
<1>2. req \in Requests
  <2>1. hist.bound \in ScenarioType BY <1>0, SizesAssumption DEF Hist
  <2> QED BY <1>1, <2>1 DEF ScenarioType, Requests
<1>3. /\ host' \in Host /\ host'.stage = "setup" /\ host'.req = req /\ host'.addr = host.addr
      /\ host'.bulk = host.bulk /\ host'.size = host.size /\ host'.left = host.left
      /\ host'.sent = host.sent /\ host'.speed = host.speed /\ host'.feat = host.feat
  BY <1>0, <1>1, <1>2 DEF Host, Stages
<1>4. /\ hist' \in Hist /\ hist'.cut = hist.cut /\ hist'.reconf = hist.reconf
      /\ hist'.lied = hist.lied /\ hist'.resets = hist.resets /\ hist'.strayed = hist.strayed
  BY <1>0, <1>1 DEF Hist
<1>5. dev' = dev /\ app' = app /\ snd' = snd /\ host.stage = "idle" /\ hist.resets > 0
  BY DEF HostSetup
<1>6. ~Underway /\ ~Underway' BY <1>3, <1>5 DEF Underway
<1>7. TypeOK' BY <1>3, <1>4, <1>5 DEF IInv, TypeOK
<1>8. InOrder' BY <1>3, <1>4, <1>5, <1>6, EventsSame DEF IInv, InOrder
<1>9. Ep0Fits' BY <1>5, Ep0Frame, EventsSame DEF IInv
<1>10. OutFits' BY <1>4, <1>5, OutQuiet DEF SameCore, IInv, OutFits
<1>11. InRuns' BY <1>4, <1>5 DEF IInv, InRuns
<1>12. DownloadInStep'
  BY <1>3, <1>5, EventsSame DEF IInv, DownloadInStep, DataSent, DataComes
<1>13. HandledInStep'
  BY <1>1, <1>3, <1>5, <1>6, EventsSame DEF IInv, HandledInStep, Handled, BulkReady
<1>14. hist'.cut \/ Honest'
  BY <1>3, <1>4, <1>5, <1>6, EventsSame DEF IInv, Honest, Handled
<1>15. NothingLost' BY <1>3, <1>4, <1>5 DEF IInv, NothingLost
<1> QED BY <1>7, <1>8, <1>9, <1>10, <1>11, <1>12, <1>13, <1>14, <1>15 DEF IInv

LEMMA HostAbortKeeps ==
  ASSUME IInv, HostAbort
  PROVE  IInv'
<1>0. hist \in Hist /\ host \in Host BY DEF IInv, TypeOK
<1>1. /\ hist' \in Hist /\ hist'.cut /\ hist'.reconf = hist.reconf
      /\ hist'.lied = hist.lied /\ hist'.resets = hist.resets /\ hist'.strayed = hist.strayed
  <2>1. PICK k \in Nat : k = hist.aborts + 1 BY <1>0 DEF Hist
  <2>2. hist' = [hist EXCEPT !.aborts = k, !.cut = TRUE] BY <2>1 DEF HostAbort
  <2> QED BY <1>0, <2>2 DEF Hist
<1>2. Over(host, host.addr, host.bulk, host.feat, host.sent, host')
  BY <1>0, StalledFacts DEF HostAbort
<1>3. dev' = dev /\ app' = app /\ snd' = snd BY DEF HostAbort
<1>4. ~Underway' BY <1>2 DEF Underway, Over
<1>5. TypeOK' BY <1>1, <1>2, <1>3 DEF IInv, TypeOK, Over
<1>6. InOrder' BY <1>1, <1>2, <1>3, <1>4, EventsSame DEF IInv, InOrder, Over
<1>7. Ep0Fits' BY <1>3, Ep0Frame, EventsSame DEF IInv
<1>8. OutFits' BY <1>1, <1>3, OutQuiet DEF SameCore, IInv, OutFits
<1>9. InRuns' BY <1>1, <1>3 DEF IInv, InRuns
<1>10. DownloadInStep'
  BY <1>2, <1>3, EventsSame DEF IInv, DownloadInStep, DataSent, DataComes, Over
<1>11. HandledInStep'
  BY <1>2, <1>3, <1>4, EventsSame DEF IInv, HandledInStep, Handled, BulkReady, Over
<1>12. NothingLost' BY <1>1, <1>2, <1>3 DEF IInv, NothingLost, Over
<1> QED BY <1>1, <1>5, <1>6, <1>7, <1>8, <1>9, <1>10, <1>11, <1>12 DEF IInv

(* ------------------------- the bulk endpoints -------------------------- *)

\* n bytes have reached the OUT transfer, which ends or runs on.
Received(n) ==
  /\ dev' \in Dev /\ SameEp0(dev, dev') /\ SameCore(dev, dev')
  /\ dev'.in = dev.in /\ dev'.live = dev.live /\ dev'.refused = dev.refused
  /\ dev'.out.started = dev.out.started /\ dev'.out.trb = dev.out.trb
  /\ dev'.out.len = dev.out.len /\ dev'.out.mps = dev.out.mps
  /\ dev'.out.got = dev.out.got + n /\ dev'.out.got <= dev'.out.len
  /\ dev'.out.hwo <=> dev'.out.active
  /\ dev'.out.active => dev'.out.got < dev'.out.len
  /\ \/ dev'.out.active /\ dev'.events = dev.events
     \/ ~dev'.out.active /\ dev'.events = Append(dev.events, Cmpl("out", "data"))

LEMMA ReceiveFacts ==
  ASSUME IInv, NEW n \in Nat, dev.out.active, dev.out.hwo, dev.out.got + n <= dev.out.len,
         Receive(n)
  PROVE  Received(n)
<1>0. /\ dev \in Dev /\ dev.out \in OutEndpoint /\ dev.events \in Seq(Events)
      /\ dev.out.got \in Nat /\ dev.out.len \in Nat
  BY DEF IInv, TypeOK, Dev, OutEndpoint
<1> DEFINE full == dev.out.got + n = dev.out.len \/ n < MaxPacket[host.speed]
<1>1. full \in BOOLEAN /\ (~full => dev.out.got + n # dev.out.len) OBVIOUS
<1> HIDE DEF full
<1>2. PICK o : o = [dev.out EXCEPT !.got = dev.out.got + n, !.active = ~full, !.hwo = @ /\ ~full]
  OBVIOUS
<1>3. /\ o \in OutEndpoint /\ o.started = dev.out.started /\ o.trb = dev.out.trb
      /\ o.len = dev.out.len /\ o.mps = dev.out.mps /\ o.got = dev.out.got + n
      /\ (o.active <=> ~full) /\ (o.hwo <=> ~full)
  <2>1. PICK g \in Nat : g = dev.out.got + n BY <1>0
  <2>2. dev.out.hwo \in BOOLEAN BY <1>0 DEF OutEndpoint
  <2>3. PICK a \in BOOLEAN, h \in BOOLEAN : a = ~full /\ h = (dev.out.hwo /\ ~full) OBVIOUS
  <2>4. o = [dev.out EXCEPT !.got = g, !.active = a, !.hwo = h] BY <1>2, <2>1, <2>3
  <2>5. o \in OutEndpoint /\ o.got = g /\ o.active = a /\ o.hwo = h BY <1>0, <2>4 DEF OutEndpoint
  <2>6. /\ o.started = dev.out.started /\ o.trb = dev.out.trb
        /\ o.len = dev.out.len /\ o.mps = dev.out.mps
    BY <1>0, <2>4 DEF OutEndpoint
  <2> QED BY <2>1, <2>3, <2>5, <2>6
<1>4. PICK d : d = [dev EXCEPT !.out = o] OBVIOUS
<1>5. dev' = IF full THEN Raise(d, Cmpl("out", "data")) ELSE d
  <2>1. d = [dev EXCEPT !.out.got = dev.out.got + n, !.out.active = ~full, !.out.hwo = @ /\ ~full]
    BY <1>0, <1>2, <1>4 DEF Dev
  <2> QED BY <2>1 DEF Receive, full
<1>6. PICK q \in Seq(Events) :
        q = IF full THEN Append(dev.events, Cmpl("out", "data")) ELSE dev.events
  <2>1. PICK ev \in Events : ev = Cmpl("out", "data") BY EventTypes
  <2>2. Append(dev.events, ev) \in Seq(Events) BY <1>0
  <2> QED BY <1>0, <2>1, <2>2
<1>7. dev' = [dev EXCEPT !.out = o, !.events = q]
  BY <1>0, <1>4, <1>5, <1>6 DEF Raise, Dev
<1>8. dev' \in Dev BY <1>0, <1>3, <1>6, <1>7 DEF Dev
<1>9. /\ SameEp0(dev, dev') /\ SameCore(dev, dev')
      /\ dev'.in = dev.in /\ dev'.live = dev.live /\ dev'.refused = dev.refused
      /\ dev'.out = o /\ dev'.events = q
  BY <1>0, <1>7 DEF Dev, SameEp0, SameCore
<1>10. ~full => dev.out.got + n < dev.out.len
  <2>1. ~full => dev.out.got + n # dev.out.len BY <1>1
  <2>2. \A a, b, c \in Nat : a + b <= c /\ a + b # c => a + b < c OBVIOUS
  <2> QED BY <1>0, <2>1, <2>2
<1> QED BY <1>3, <1>6, <1>8, <1>9, <1>10 DEF Received

\* What of the invariant does not speak of the application.
LEMMA ReceiveKeeps ==
  ASSUME IInv, NEW n \in Nat, dev.out.active, dev.out.hwo, Received(n),
         host'.stage = host.stage, host'.req = host.req, host'.addr = host.addr,
         host'.speed = host.speed, host'.feat = host.feat, host.bulk # "off", host'.bulk # "off",
         host'.sent = host.sent + n, snd' = snd, app' = app,
         hist'.cut = hist.cut, hist'.lied = hist.lied, hist'.reconf = hist.reconf,
         hist'.strayed = hist.strayed, hist'.resets = hist.resets
  PROVE  /\ InOrder' /\ Ep0Fits' /\ OutFits' /\ InRuns' /\ HandledInStep'
         /\ (hist'.cut \/ Honest') /\ NothingLost'
<1>0. PICK ev \in Events :
        /\ ev = Cmpl("out", "data") /\ IsOut(ev)
        /\ ~IsReset(ev) /\ ~IsBus(ev) /\ ~IsSetup(ev) /\ ~IsConn(ev) /\ ~IsEp0(ev)
  BY EventTypes, EventKinds DEF IsOut
<1>1. dev.live /\ ~BusWaits /\ ~ResetWaits
  BY DEF IInv, InOrder, HandledInStep, BulkReady
<1>2. dev.events \in Seq(Events) BY DEF IInv, TypeOK, Dev
<1>3. /\ ResetWaits' <=> ResetWaits
      /\ BusWaits' <=> BusWaits
      /\ SetupWaits' <=> SetupWaits
      /\ ConnWaits' <=> ConnWaits
      /\ Ep0Waits' <=> Ep0Waits
      /\ OutWaits' <=> OutWaits \/ ~dev'.out.active
      /\ ResetsConnect => ResetsConnect'
      /\ OutsFirst => OutsFirst'
      /\ SetupsLast => SetupsLast'
      /\ SetupsConnected => SetupsConnected'
      /\ OutOnce /\ ~OutWaits => OutOnce'
      /\ \A x : Ep0Only(x) => Ep0Only(x)'
  <2>1. CASE dev'.out.active /\ dev'.events = dev.events BY <2>1, EventsSame
  <2>2. CASE ~dev'.out.active /\ dev'.events = Append(dev.events, ev)
    BY <1>0, <1>1, <1>2, <2>2, EventRaised
  <2> QED BY <1>0, <2>1, <2>2 DEF Received
<1>4. InOrder' BY <1>1, <1>3 DEF IInv, InOrder, Underway, Received, SameCore
<1>5. Ep0Fits' BY <1>3, Ep0Frame DEF IInv, Received, SameEp0
<1>6. OutFits' BY <1>1, <1>3 DEF IInv, OutFits, Received, SameCore
<1>7. InRuns' BY DEF IInv, InRuns, Received
<1>8. HandledInStep' /\ (hist'.cut \/ Honest') BY <1>3, HonestFrame DEF IInv, Received
<1>9. NothingLost'
  <2>1. /\ host.sent \in Nat /\ app.got \in Nat /\ dev.out.got \in Nat
    BY DEF IInv, TypeOK, Dev, OutEndpoint, App, Host
  <2> QED BY <2>1 DEF IInv, NothingLost, Received
<1> QED BY <1>4, <1>5, <1>6, <1>7, <1>8, <1>9

LEMMA HostCommandKeeps ==
  ASSUME IInv, HostCommand
  PROVE  IInv'
<1>0. /\ hist \in Hist /\ host \in Host /\ hist.bound \in ScenarioType
      /\ dev.out.got \in Nat /\ dev.out.len \in Nat /\ host.sent \in Nat /\ hist.downloads \in Nat
  BY SizesAssumption DEF IInv, TypeOK, Hist, Host, Dev, OutEndpoint
<1>1. Received(1)
  <2>1. dev.out.active /\ dev.out.hwo /\ dev.out.got < dev.out.len
    BY DEF HostCommand, IInv, OutFits
  <2> QED BY <1>0, <2>1, ReceiveFacts DEF HostCommand
<1>2. PICK n \in Nat \ {0} :
        host' = [host EXCEPT !.bulk = "reply", !.size = n, !.sent = @ + 1]
  BY <1>0 DEF HostCommand, ScenarioType
<1>3. /\ host' \in Host /\ host'.stage = host.stage /\ host'.req = host.req
      /\ host'.addr = host.addr /\ host'.bulk = "reply" /\ host'.size = n /\ host'.left = host.left
      /\ host'.sent = host.sent + 1 /\ host'.speed = host.speed /\ host'.feat = host.feat
  <2>1. PICK b \in BulkStages, k \in Nat : b = "reply" /\ k = host.sent + 1
    BY <1>0 DEF BulkStages
  <2>2. host' = [host EXCEPT !.bulk = b, !.size = n, !.sent = k] BY <1>2, <2>1
  <2> QED BY <1>0, <2>1, <2>2 DEF Host
<1>4. /\ hist' \in Hist /\ hist'.cut = hist.cut /\ hist'.reconf = hist.reconf
      /\ hist'.lied = hist.lied /\ hist'.resets = hist.resets /\ hist'.strayed = hist.strayed
  BY <1>0 DEF HostCommand, Hist
<1>5. /\ snd' = snd /\ app' = app /\ host.bulk = "ready"
      /\ app.mode = "cmd" /\ app.todo = "none" /\ snd.pc = "idle" /\ dev.out.active /\ dev.out.hwo
  BY DEF HostCommand
<1>6. TypeOK' BY <1>1, <1>3, <1>4, <1>5 DEF IInv, TypeOK, Received
<1>7. /\ InOrder' /\ Ep0Fits' /\ OutFits' /\ InRuns' /\ HandledInStep'
      /\ (hist'.cut \/ Honest') /\ NothingLost'
  BY <1>1, <1>3, <1>4, <1>5, ReceiveKeeps
<1>8. DownloadInStep'
  BY <1>1, <1>3, <1>5 DEF IInv, DownloadInStep, DataSent, DataComes, Received
<1> QED BY <1>6, <1>7, <1>8 DEF IInv

LEMMA HostPacketKeeps ==
  ASSUME IInv, HostPacket
  PROVE  IInv'
<1>0. /\ host \in Host /\ host.left \in Nat /\ host.sent \in Nat /\ host.speed \in Speeds
      /\ dev.out.got \in Nat /\ dev.out.len \in Nat /\ app.left \in Nat
  BY DEF IInv, TypeOK, Host, Dev, OutEndpoint, App
<1>1. PICK n \in Nat :
        /\ n = IF host.left < MaxPacket[host.speed] THEN host.left ELSE MaxPacket[host.speed]
        /\ n <= host.left
  BY <1>0, SizesAssumption
<1>2. /\ dev.out.got + n <= dev.out.len /\ Receive(n)
      /\ host' = [host EXCEPT !.left = @ - n, !.sent = @ + n,
                    !.bulk = IF host.left = n THEN "reply" ELSE "data"]
  BY <1>1 DEF HostPacket
<1>3. /\ snd' = snd /\ app' = app /\ hist' = hist /\ host.bulk = "data"
      /\ dev.out.active /\ dev.out.hwo
  BY DEF HostPacket
<1>4. Received(n) BY <1>2, <1>3, ReceiveFacts
<1>5. PICK b \in BulkStages, k \in Nat :
        b = (IF host.left = n THEN "reply" ELSE "data") /\ k = host.left - n
  BY <1>0, <1>1 DEF BulkStages
<1>6. /\ host' \in Host /\ host'.stage = host.stage /\ host'.req = host.req
      /\ host'.addr = host.addr /\ host'.bulk = b /\ host'.size = host.size /\ host'.left = k
      /\ host'.sent = host.sent + n /\ host'.speed = host.speed /\ host'.feat = host.feat
  <2>1. PICK s \in Nat : s = host.sent + n BY <1>0
  <2>2. host' = [host EXCEPT !.left = k, !.sent = s, !.bulk = b] BY <1>2, <1>5, <2>1
  <2> QED BY <1>0, <1>5, <2>1, <2>2 DEF Host
<1>7. TypeOK' BY <1>3, <1>4, <1>6 DEF IInv, TypeOK, Received
<1>8. /\ InOrder' /\ Ep0Fits' /\ OutFits' /\ InRuns' /\ HandledInStep'
      /\ (hist'.cut \/ Honest') /\ NothingLost'
  BY <1>3, <1>4, <1>5, <1>6, ReceiveKeeps
<1>9. DownloadInStep'
  <2>1. /\ host.left > 0 /\ app.mode = "data" /\ app.left >= host.left + dev.out.got
        /\ ~DataSent /\ ~DataComes /\ app.todo # "okay" /\ app.todo # "download" /\ host.size # 0
    BY <1>3 DEF IInv, DownloadInStep
  <2>2. ~DataSent' /\ ~DataComes' BY <1>3, <1>4, <2>1 DEF DataSent, DataComes, Received
  <2>3. snd'.pc = "start" => dev'.in.msg = snd'.msg
    BY <1>3, <1>4 DEF IInv, DownloadInStep, Received
  <2>4. app.left >= k + dev'.out.got /\ app.left >= dev'.out.got /\ (b = "data" => k > 0)
    BY <1>0, <1>1, <1>4, <1>5, <2>1 DEF Received
  <2> QED BY <1>3, <1>6, <2>1, <2>2, <2>3, <2>4 DEF DownloadInStep
<1> QED BY <1>7, <1>8, <1>9 DEF IInv

LEMMA HostReadKeeps ==
  ASSUME IInv, HostRead
  PROVE  IInv'
<1>0. /\ dev \in Dev /\ dev.in \in InEndpoint /\ dev.refused \in BOOLEAN /\ host \in Host
      /\ host.size \in Nat
  BY DEF IInv, TypeOK, Dev, Host
<1>1. PICK m \in dev.in.sent :
        host' = [host EXCEPT !.bulk = IF m = "DATA" THEN "data" ELSE "ready",
                             !.left = IF m = "DATA" THEN host.size ELSE 0]
  BY DEF HostRead
<1>2. PICK b \in BulkStages, k \in Nat :
        /\ b = IF m = "DATA" THEN "data" ELSE "ready"
        /\ k = IF m = "DATA" THEN host.size ELSE 0
  BY <1>0 DEF BulkStages
<1>3. /\ host' \in Host /\ host'.stage = host.stage /\ host'.req = host.req
      /\ host'.addr = host.addr /\ host'.bulk = b /\ host'.size = host.size /\ host'.left = k
      /\ host'.sent = host.sent /\ host'.speed = host.speed /\ host'.feat = host.feat
  <2>1. host' = [host EXCEPT !.bulk = b, !.left = k] BY <1>1, <1>2
  <2> QED BY <1>0, <1>2, <2>1 DEF Host
<1>4. PICK i : i = [dev.in EXCEPT !.active = FALSE, !.hwo = FALSE] OBVIOUS
<1>5. /\ i \in InEndpoint /\ i.started = dev.in.started /\ ~i.hwo /\ i.msg = dev.in.msg
      /\ ~i.active /\ i.sent = dev.in.sent /\ i.mps = dev.in.mps
  BY <1>0, <1>4 DEF InEndpoint
<1>6. dev' = [dev EXCEPT !.in = i, !.refused = dev.refused] BY <1>0, <1>4 DEF HostRead, Dev
<1>7. InSet(dev, i, dev.refused, [dev EXCEPT !.in = i, !.refused = dev.refused])
  BY <1>0, <1>5, InUpdate
<1>8. InSet(dev, i, dev.refused, dev') BY <1>6, <1>7
<1>9. snd' = snd /\ app' = app /\ hist' = hist /\ host.bulk = "reply" /\ dev.in.active
  BY DEF HostRead
<1>10. TypeOK' BY <1>3, <1>8, <1>9 DEF IInv, TypeOK, InSet
<1>11. InOrder' BY <1>2, <1>3, <1>8, <1>9, EventsSame DEF IInv, InOrder, Underway, InSet, SameCore
<1>12. Ep0Fits' BY <1>8, Ep0Frame, EventsSame DEF IInv, InSet, SameEp0
<1>13. OutFits' BY <1>8, <1>9, OutQuiet DEF InSet, IInv, OutFits
<1>14. InRuns' BY <1>5, <1>8, <1>9 DEF IInv, InRuns, InSet
<1>15. DownloadInStep'
  <2>1. m = "DATA" => DataSent BY <1>9 DEF DataSent
  <2>2. ~DataSent' /\ (DataComes' <=> DataComes) BY <1>5, <1>8, <1>9 DEF DataSent, DataComes, InSet
  <2>3. host.size # 0 /\ (app.mode = "data" => app.left >= dev.out.got)
    BY <1>9 DEF IInv, DownloadInStep
  <2>4. /\ app.todo = "download" => app.mode = "cmd" /\ dev.out.got = 0
        /\ app.todo = "okay" => app.mode = "data"
        /\ snd.pc = "start" => dev.in.msg = snd.msg
    BY DEF IInv, DownloadInStep
  <2>5. app.mode = "cmd" \/ app.todo = "okay" => ~DataSent /\ ~DataComes
    BY DEF IInv, DownloadInStep
  <2>6. DataSent => app.mode = "data" /\ app.left >= host.size + dev.out.got /\ ~DataComes
    BY <1>0, <2>5 DEF IInv, DownloadInStep, TypeOK, App
  <2>7. m # "DATA" => (app.mode = "data" /\ DataComes => app.left >= host.size + dev.out.got)
    BY DEF IInv, DownloadInStep
  <2>8. k > 0 <=> m = "DATA" BY <1>0, <1>2, <2>3
  <2>9. dev'.out = dev.out /\ dev'.in.msg = dev.in.msg BY <1>5, <1>8 DEF InSet
  <2>10. app.todo = "okay" \/ app.mode = "cmd" => b = "ready" BY <1>2, <2>1, <2>5
  <2>11. b = "data" => /\ app.mode = "data" /\ app.left >= k + dev.out.got /\ k > 0
                       /\ ~DataComes
    BY <1>2, <2>1, <2>6, <2>8
  <2>12. app.mode = "data" /\ DataComes =>
           b # "data" /\ app.left >= host.size + dev.out.got
    BY <1>2, <2>1, <2>6, <2>7
  <2> QED BY <1>3, <1>9, <2>2, <2>3, <2>4, <2>5, <2>9, <2>10, <2>11, <2>12 DEF DownloadInStep
<1>16. HandledInStep' /\ (hist'.cut \/ Honest')
  BY <1>2, <1>3, <1>5, <1>8, <1>9, HonestFrame, EventsSame DEF IInv, InSet
<1>17. NothingLost' BY <1>3, <1>8, <1>9 DEF IInv, NothingLost, InSet
<1> QED BY <1>10, <1>11, <1>12, <1>13, <1>14, <1>15, <1>16, <1>17 DEF IInv

(* --------------------- the control endpoint's wire --------------------- *)

\* The bulk endpoints when nothing on them happens.
LEMMA BulkFrame ==
  ASSUME IInv, SameBulk(dev, dev'), dev'.speed = dev.speed,
         OutWaits' <=> OutWaits, OutOnce => OutOnce', snd' = snd,
         app'.mode = app.mode, app'.todo = app.todo, app'.left = app.left,
         host'.size = host.size, host'.bulk \in {host.bulk, "off", "ready"},
         host'.bulk = "data" => host'.left = host.left,
         hist'.reconf = hist.reconf, hist'.strayed = hist.strayed
  PROVE  OutFits' /\ InRuns' /\ DownloadInStep'
<1>1. OutFits' BY DEF IInv, OutFits, SameBulk
<1>2. InRuns' BY DEF IInv, InRuns, SameBulk
<1>3. DownloadInStep' BY DEF IInv, DownloadInStep, DataSent, DataComes, SameBulk
<1> QED BY <1>1, <1>2, <1>3

\* The controller's side of the control endpoint, and the event it raises.
ControlSet(d, h, t, r, p, ev, e) ==
  /\ e \in Dev /\ e.st = d.st /\ e.isIn = d.isIn /\ e.answer = d.answer
  /\ SameBulk(d, e) /\ SameCore(d, e)
  /\ e.hw0 = h /\ e.stalled = t /\ e.resp = r /\ e.packet = p
  /\ e.events = Append(d.events, ev)

LEMMA ControlUpdate ==
  ASSUME NEW d \in Dev, NEW h \in [out : Descriptors, in : Descriptors], NEW t \in BOOLEAN,
         NEW w \in SUBSET {"in", "out"}, NEW r \in Responses, NEW p \in Requests,
         NEW ev \in Events
  PROVE  ControlSet(d, h, t, r, p, ev,
                    [d EXCEPT !.hw0 = h, !.stalled = t, !.nrdy = w, !.resp = r, !.packet = p,
                              !.events = Append(d.events, ev)])
<1>0. PICK e : e = [d EXCEPT !.hw0 = h, !.stalled = t, !.nrdy = w, !.resp = r, !.packet = p,
                              !.events = Append(d.events, ev)]
  OBVIOUS
<1>1. d.events \in Seq(Events) BY DEF Dev
<1>2. PICK q \in Seq(Events) : q = Append(d.events, ev)
  <2>1. Append(d.events, ev) \in Seq(Events) BY <1>1
  <2> QED BY <2>1
<1>3. e = [d EXCEPT !.hw0 = h, !.stalled = t, !.nrdy = w, !.resp = r, !.packet = p, !.events = q]
  BY <1>0, <1>2
<1>4. e \in Dev BY <1>3 DEF Dev
<1>5. /\ e.st = d.st /\ e.isIn = d.isIn /\ e.answer = d.answer /\ e.events = q
      /\ SameBulk(d, e) /\ SameCore(d, e)
  BY <1>3 DEF Dev, SameBulk, SameCore
<1>6. e.hw0 = h /\ e.stalled = t /\ e.resp = r /\ e.packet = p BY <1>3 DEF Dev
<1> QED BY <1>0, <1>2, <1>4, <1>5, <1>6 DEF ControlSet

\* A descriptor is given back.
LEMMA NoneFacts ==
  ASSUME NEW h \in [out : Descriptors, in : Descriptors], NEW dir \in {"in", "out"},
         h[Other(dir)] = "none"
  PROVE  \E g \in [out : Descriptors, in : Descriptors] :
           g = [h EXCEPT ![dir] = "none"] /\ g["out"] = "none" /\ g["in"] = "none"
<1>1. "none" \in Descriptors BY DEF Descriptors
<1>2. [h EXCEPT ![dir] = "none"] \in [out : Descriptors, in : Descriptors] BY <1>1
<1>3. CASE dir = "in"
  <2>1. h["out"] = "none" BY <1>3 DEF Other
  <2> QED BY <1>2, <1>3, <2>1
<1>4. CASE dir = "out"
  <2>1. h["in"] = "none" BY <1>4 DEF Other
  <2> QED BY <1>2, <1>4, <2>1
<1> QED BY <1>3, <1>4

\* A descriptor that runs on the control endpoint is the one of the state.
LEMMA RunningFacts ==
  ASSUME IInv, NEW dir \in {"in", "out"}, dev.hw0[dir] \in {"setup", "data", "status"}
  PROVE  /\ dir = Ep0Dir(dev.st) /\ dev.hw0[dir] = Ep0Trb(dev.st) /\ dev.hw0[Other(dir)] = "none"
         /\ ~Ep0Waits /\ ~SetupWaits
         /\ dev.hw0[dir] = "setup" <=> dev.st = "IDLE"
         /\ Cmpl(Ep0Of(dir), dev.hw0[dir]) = Expects(dev)
<1>1. dev.st \in States BY DEF IInv, TypeOK, Dev
<1>2. States = {"IDLE", "IN_DATA", "OUT_DATA", "IN_WAIT_NRDY", "OUT_WAIT_NRDY", "IN_STATUS",
                "OUT_STATUS"}
  BY DEF States
<1>3. dir = Ep0Dir(dev.st) BY DEF IInv, Ep0Fits, Fits, Ep0Dir, Other
<1>4. dev.hw0[dir] = Ep0Trb(dev.st) /\ dev.hw0[Other(dir)] = "none" /\ ~Ep0Waits /\ ~SetupWaits
  BY <1>3 DEF IInv, Ep0Fits, Fits
<1>5. dev.hw0[dir] = "setup" <=> dev.st = "IDLE" BY <1>1, <1>2, <1>4 DEF Ep0Trb
<1> QED BY <1>3, <1>4, <1>5 DEF Expects

\* Its completion is raised: it waits alone.
LEMMA CompletionRaised ==
  ASSUME IInv, NEW dir \in {"in", "out"}, dev.hw0[dir] \in {"setup", "data", "status"},
         dev'.st = dev.st, dev'.isIn = dev.isIn, dev'.hw0["in"] = "none", dev'.hw0["out"] = "none",
         dev'.events = Append(dev.events, Cmpl(Ep0Of(dir), dev.hw0[dir]))
  PROVE  /\ Ep0Fits'
         /\ ResetWaits' <=> ResetWaits
         /\ BusWaits' <=> BusWaits
         /\ ConnWaits' <=> ConnWaits
         /\ OutWaits' <=> OutWaits
         /\ SetupWaits' <=> dev.hw0[dir] = "setup"
         /\ ResetsConnect => ResetsConnect'
         /\ OutsFirst => OutsFirst'
         /\ SetupsLast /\ dev.hw0[dir] # "setup" => SetupsLast'
         /\ dev.hw0[dir] = "setup" => SetupsLast'
         /\ SetupsConnected /\ (dev.hw0[dir] = "setup" => ConnWaits) => SetupsConnected'
         /\ OutOnce => OutOnce'
<1>1. PICK ev : ev = Cmpl(Ep0Of(dir), dev.hw0[dir]) OBVIOUS
<1>2. ev = Expects(dev) /\ dir = Ep0Dir(dev.st) /\ dev.hw0[dir] = Ep0Trb(dev.st)
  BY <1>1, RunningFacts
<1>3. dev.hw0[dir] = "setup" => dir = "out"
  BY RunningFacts DEF Ep0Dir
<1>4. ev \in Events /\ (IsSetup(ev) <=> dev.hw0[dir] = "setup")
  <2>1. CASE dev.hw0[dir] = "setup"
    BY <1>1, <1>3, <2>1, EventTypes DEF Ep0Of, IsSetup
  <2>2. CASE dev.hw0[dir] \in {"data", "status"}
    BY <1>1, <2>2, EventTypes DEF Cmpl, IsSetup
  <2> QED BY <2>1, <2>2
<1>5. IsEp0(ev) BY <1>1 DEF IsEp0, Cmpl, Ep0Of
<1>6. ~IsReset(ev) /\ ~IsBus(ev) /\ ~IsConn(ev) /\ ~IsOut(ev) BY <1>4, <1>5, EventKinds
<1>7. dev.events \in Seq(Events) BY DEF IInv, TypeOK, Dev
<1>8. ~Ep0Waits /\ ~SetupWaits BY RunningFacts
<1>9. /\ ResetWaits' <=> ResetWaits
      /\ BusWaits' <=> BusWaits
      /\ ConnWaits' <=> ConnWaits
      /\ OutWaits' <=> OutWaits
      /\ SetupWaits' <=> dev.hw0[dir] = "setup"
      /\ ResetsConnect => ResetsConnect'
      /\ OutsFirst => OutsFirst'
      /\ SetupsLast /\ dev.hw0[dir] # "setup" => SetupsLast'
      /\ dev.hw0[dir] = "setup" => SetupsLast'
      /\ SetupsConnected /\ (dev.hw0[dir] = "setup" => ConnWaits) => SetupsConnected'
      /\ OutOnce => OutOnce'
      /\ Ep0Waits' /\ Ep0Only(ev)'
  BY <1>1, <1>4, <1>5, <1>6, <1>7, <1>8, EventRaised
<1>10. Ep0Fits'
  <2>1. Expects(dev)' = Expects(dev) BY DEF Expects
  <2>2. Ep0Only(Expects(dev))' BY <1>2, <1>9, <2>1 DEF Ep0Only
  <2>3. Ep0Trb(dev'.st) # "none" /\ dev'.hw0[Ep0Dir(dev'.st)] = "none" BY <1>2 
  <2>4. Fits(dev)' 
    <3>1. Fits(dev) BY DEF IInv, Ep0Fits
    <3>2. Other(dir) \in {"in", "out"} BY DEF Other
    <3> QED BY <1>2, <3>1, <3>2 DEF Fits
  <2>5. SetupWaits' <=> dev'.st = "IDLE" /\ Ep0Waits' BY <1>9, RunningFacts
  <2> QED BY <1>9, <2>2, <2>3, <2>4, <2>5 DEF Ep0Fits
<1> QED BY <1>9, <1>10

LEMMA SetupArrivesKeeps ==
  ASSUME IInv, SetupArrives
  PROVE  IInv'
<1>0. /\ dev \in Dev /\ host \in Host /\ host.req \in Requests /\ dev.resp \in Responses
      /\ host.speed \in Speeds /\ dev.hw0 \in [out : Descriptors, in : Descriptors]
  BY DEF IInv, TypeOK, Host, Dev
<1>1. /\ host.stage = "setup" /\ dev.hw0["out"] = "setup" /\ dev.addr = host.addr
      /\ snd' = snd /\ app' = app /\ hist' = hist
  BY <1>0 DEF SetupArrives
<1>2. /\ dev.st = "IDLE" /\ dev.hw0["in"] = "none" /\ ~Ep0Waits /\ ~SetupWaits
  BY <1>1, RunningFacts DEF Other
<1>3. PICK h \in [out : Descriptors, in : Descriptors] :
        h = [dev.hw0 EXCEPT !["out"] = "none"] /\ h["out"] = "none" /\ h["in"] = "none"
  <2>1. dev.hw0[Other("out")] = "none" BY <1>2 DEF Other
  <2> QED BY <1>0, <2>1, NoneFacts
<1>4. PICK ev \in Events : ev = Cmpl("ep0out", "setup") BY EventTypes
<1>5. dev' = [dev EXCEPT !.hw0 = h, !.stalled = FALSE, !.nrdy = {}, !.resp = dev.resp,
                         !.packet = host.req, !.events = Append(dev.events, ev)]
  BY <1>0, <1>3, <1>4 DEF SetupArrives, Raise, Dev
<1>6. ControlSet(dev, h, FALSE, dev.resp, host.req, ev, dev')
  BY <1>0, <1>3, <1>4, <1>5, ControlUpdate
<1>7. PICK s \in Stages : s = IF Data(host.req) = "none" THEN "status" ELSE "data"
  BY DEF Stages
<1>8. /\ host' \in Host /\ host'.stage = s /\ host'.req = host.req
      /\ host'.addr = host.addr /\ host'.bulk = host.bulk /\ host'.size = host.size
      /\ host'.left = host.left /\ host'.sent = host.sent /\ host'.speed = host.speed
      /\ host'.feat = host.feat
  <2>1. host' = [host EXCEPT !.stage = s] BY <1>7 DEF SetupArrives
  <2> QED BY <1>0, <2>1 DEF Host
<1>9. /\ Ep0Fits'
      /\ ResetWaits' <=> ResetWaits
      /\ BusWaits' <=> BusWaits
      /\ ConnWaits' <=> ConnWaits
      /\ OutWaits' <=> OutWaits
      /\ SetupWaits'
      /\ ResetsConnect => ResetsConnect'
      /\ OutsFirst => OutsFirst'
      /\ SetupsLast'
      /\ SetupsConnected /\ ConnWaits => SetupsConnected'
      /\ OutOnce => OutOnce'
  <2>1. dev'.events = Append(dev.events, Cmpl(Ep0Of("out"), dev.hw0["out"]))
    BY <1>1, <1>4, <1>6 DEF ControlSet, Ep0Of
  <2> QED BY <1>1, <1>3, <1>6, <2>1, CompletionRaised DEF ControlSet
<1>10. ~Underway /\ ~Handled /\ ~Handled' BY <1>1, <1>9 DEF Underway, Handled
<1>11. TypeOK' BY <1>1, <1>6, <1>8 DEF IInv, TypeOK, ControlSet, SameBulk
<1>12. InOrder'
  <2>1. hist.resets > 0 BY <1>1 DEF IInv, InOrder
  <2>2. dev.speed # "unknown" \/ (SetupsConnected /\ ConnWaits)
    BY <1>0, <2>1, SizesAssumption DEF IInv, InOrder
  <2> QED BY <1>1, <1>6, <1>8, <1>9, <2>1, <2>2 DEF IInv, InOrder, ControlSet, SameCore
<1>13. OutFits' /\ InRuns' /\ DownloadInStep'
  BY <1>1, <1>6, <1>8, <1>9, BulkFrame DEF ControlSet, SameCore
<1>14. BulkReady' <=> BulkReady BY <1>6, <1>8 DEF BulkReady, ControlSet, SameBulk
<1>15. HandledInStep'
  BY <1>1, <1>6, <1>7, <1>8, <1>9, <1>10, <1>14 DEF IInv, HandledInStep, ControlSet
<1>16. hist'.cut \/ Honest'
  BY <1>1, <1>2, <1>6, <1>7, <1>8, <1>9, <1>10
     DEF IInv, Honest, ControlSet, SameCore, Underway
<1>17. NothingLost' BY <1>1, <1>6, <1>8 DEF IInv, NothingLost, ControlSet, SameBulk
<1> QED BY <1>9, <1>11, <1>12, <1>13, <1>15, <1>16, <1>17 DEF IInv

LEMMA SetupPendsKeeps ==
  ASSUME IInv, SetupPends
  PROVE  IInv'
<1>0. /\ dev \in Dev /\ dev.packet \in Requests /\ dev.stalled \in BOOLEAN
      /\ dev.nrdy \in SUBSET {"in", "out"} /\ "pend" \in Responses
      /\ dev.hw0 \in [out : Descriptors, in : Descriptors]
  BY DEF IInv, TypeOK, Dev, Responses
<1>1. PICK dir \in {"in", "out"} :
        /\ dev.hw0[dir] \in {"data", "status"}
        /\ dev' = Raise([dev EXCEPT !.hw0[dir] = "none", !.resp = "pend"],
                        Cmpl(IF dir = "in" THEN "ep0in" ELSE "ep0out", dev.hw0[dir]))
  BY DEF SetupPends
<1>2. host.stage = "setup" /\ snd' = snd /\ app' = app /\ host' = host /\ hist' = hist
  BY DEF SetupPends
<1>3. PICK ev \in Events : ev = Cmpl(Ep0Of(dir), dev.hw0[dir]) BY <1>1, EventTypes
<1>4. PICK h \in [out : Descriptors, in : Descriptors] :
        h = [dev.hw0 EXCEPT ![dir] = "none"] /\ h["out"] = "none" /\ h["in"] = "none"
  <2>1. dev.hw0[Other(dir)] = "none" BY <1>1, RunningFacts
  <2> QED BY <1>0, <2>1, NoneFacts
<1>5. dev' = [dev EXCEPT !.hw0 = h, !.stalled = dev.stalled, !.nrdy = dev.nrdy, !.resp = "pend",
                         !.packet = dev.packet, !.events = Append(dev.events, ev)]
  BY <1>0, <1>1, <1>3, <1>4 DEF Raise, Dev, Ep0Of
<1>6. ControlSet(dev, h, dev.stalled, "pend", dev.packet, ev, dev')
  <2>1. PICK t \in BOOLEAN, w \in SUBSET {"in", "out"}, p \in Requests :
          t = dev.stalled /\ w = dev.nrdy /\ p = dev.packet
    BY <1>0
  <2>2. ControlSet(dev, h, t, "pend", p, ev,
          [dev EXCEPT !.hw0 = h, !.stalled = t, !.nrdy = w, !.resp = "pend", !.packet = p,
                      !.events = Append(dev.events, ev)])
    BY <1>0, ControlUpdate
  <2> QED BY <1>5, <2>1, <2>2
<1>7. /\ Ep0Fits'
      /\ ResetWaits' <=> ResetWaits
      /\ BusWaits' <=> BusWaits
      /\ ConnWaits' <=> ConnWaits
      /\ OutWaits' <=> OutWaits
      /\ SetupWaits' <=> SetupWaits
      /\ ResetsConnect => ResetsConnect'
      /\ OutsFirst => OutsFirst'
      /\ SetupsConnected => SetupsConnected'
      /\ OutOnce => OutOnce'
  BY <1>1, <1>3, <1>4, <1>6, CompletionRaised, RunningFacts DEF ControlSet
<1>8. ~Underway /\ ~Handled /\ ~Handled' /\ ~Underway' BY <1>2 DEF Underway, Handled
<1>9. TypeOK' BY <1>2, <1>6 DEF IInv, TypeOK, ControlSet, SameBulk
<1>10. InOrder' BY <1>2, <1>6, <1>7, <1>8 DEF IInv, InOrder, ControlSet, SameCore
<1>11. OutFits' /\ InRuns' /\ DownloadInStep'
  BY <1>2, <1>6, <1>7, BulkFrame DEF ControlSet, SameCore
<1>12. BulkReady' <=> BulkReady BY <1>2, <1>6 DEF BulkReady, ControlSet, SameBulk
<1>13. HandledInStep'
  BY <1>2, <1>6, <1>7, <1>8, <1>12 DEF IInv, HandledInStep, ControlSet
<1>14. hist'.cut \/ Honest'
  BY <1>2, <1>6, <1>7, <1>8 DEF IInv, Honest, ControlSet, SameCore
<1>15. NothingLost' BY <1>2, <1>6 DEF IInv, NothingLost, ControlSet, SameBulk
<1> QED BY <1>7, <1>9, <1>10, <1>11, <1>13, <1>14, <1>15 DEF IInv

\* A request for a stage that no descriptor waits for changes nothing else.
LEMMA NrdyRaised ==
  ASSUME IInv, NEW dir \in {"in", "out"},
         dev' = Raise([dev EXCEPT !.nrdy = @ \cup {dir}], Nrdy(Ep0Of(dir))),
         UNCHANGED <<snd, app, host, hist>>
  PROVE  IInv'
<1>0. /\ dev \in Dev /\ dev.packet \in Requests /\ dev.stalled \in BOOLEAN
      /\ dev.nrdy \in SUBSET {"in", "out"} /\ dev.resp \in Responses
      /\ dev.hw0 \in [out : Descriptors, in : Descriptors] /\ dev.events \in Seq(Events)
  BY DEF IInv, TypeOK, Dev
<1>1. PICK ev \in Events : ev = Nrdy(Ep0Of(dir)) BY EventTypes
<1>2. PICK w \in SUBSET {"in", "out"} : w = dev.nrdy \cup {dir} BY <1>0
<1>3. dev' = [dev EXCEPT !.hw0 = dev.hw0, !.stalled = dev.stalled, !.nrdy = w, !.resp = dev.resp,
                         !.packet = dev.packet, !.events = Append(dev.events, ev)]
  BY <1>0, <1>1, <1>2 DEF Raise, Dev
<1>4. ControlSet(dev, dev.hw0, dev.stalled, dev.resp, dev.packet, ev, dev')
  <2>1. PICK h \in [out : Descriptors, in : Descriptors], t \in BOOLEAN, r \in Responses,
             p \in Requests :
          h = dev.hw0 /\ t = dev.stalled /\ r = dev.resp /\ p = dev.packet
    BY <1>0
  <2>2. ControlSet(dev, h, t, r, p, ev,
          [dev EXCEPT !.hw0 = h, !.stalled = t, !.nrdy = w, !.resp = r, !.packet = p,
                      !.events = Append(dev.events, ev)])
    BY <1>0, ControlUpdate
  <2> QED BY <1>3, <2>1, <2>2
<1>5. IsNrdy(ev) BY <1>1 DEF IsNrdy, Nrdy, Ep0Of
<1>6. ~IsReset(ev) /\ ~IsBus(ev) /\ ~IsConn(ev) /\ ~IsOut(ev) /\ ~IsEp0(ev) /\ ~IsSetup(ev)
  BY <1>5, EventKinds
<1>7. /\ ResetWaits' <=> ResetWaits
      /\ BusWaits' <=> BusWaits
      /\ ConnWaits' <=> ConnWaits
      /\ OutWaits' <=> OutWaits
      /\ SetupWaits' <=> SetupWaits
      /\ Ep0Waits' <=> Ep0Waits
      /\ ResetsConnect => ResetsConnect'
      /\ OutsFirst => OutsFirst'
      /\ SetupsLast => SetupsLast'
      /\ SetupsConnected => SetupsConnected'
      /\ OutOnce => OutOnce'
      /\ \A x : Ep0Only(x) => Ep0Only(x)'
  BY <1>0, <1>4, <1>6, EventRaised DEF ControlSet
<1>8. SameEp0(dev, dev') /\ SameBulk(dev, dev') /\ SameCore(dev, dev') /\ dev' \in Dev
  BY <1>4 DEF ControlSet, SameEp0
<1>9. snd' = snd /\ app' = app /\ host' = host /\ hist' = hist OBVIOUS
<1>10. TypeOK' BY <1>8, <1>9 DEF IInv, TypeOK, SameBulk
<1>11. InOrder' BY <1>7, <1>8, <1>9 DEF IInv, InOrder, SameCore, Underway
<1>12. Ep0Fits' BY <1>7, <1>8, Ep0Frame DEF IInv, SameEp0
<1>13. OutFits' /\ InRuns' /\ DownloadInStep'
  BY <1>7, <1>8, <1>9, BulkFrame DEF SameCore
<1>14. HandledInStep' /\ (hist'.cut \/ Honest')
  BY <1>7, <1>8, <1>9, HonestFrame DEF IInv, SameBulk
<1>15. NothingLost' BY <1>8, <1>9 DEF IInv, NothingLost, SameBulk
<1> QED BY <1>10, <1>11, <1>12, <1>13, <1>14, <1>15 DEF IInv

LEMMA StaleNrdyKeeps ==
  ASSUME IInv, StaleNrdy
  PROVE  IInv'
<1>1. PICK dir \in {"in", "out"} :
        dev' = Raise([dev EXCEPT !.nrdy = @ \cup {dir}],
                     Nrdy(IF dir = "in" THEN "ep0in" ELSE "ep0out"))
  BY DEF StaleNrdy
<1>2. UNCHANGED <<snd, app, host, hist>> BY DEF StaleNrdy
<1> QED BY <1>1, <1>2, NrdyRaised DEF Ep0Of

\* The host is stalled: it knows what the request has done before that.
LEMMA StageStalled ==
  ASSUME IInv, Underway, dev.stalled, host' = Stalled(host), UNCHANGED <<dev, snd, app, hist>>
  PROVE  IInv'
<1>0. host \in Host BY DEF IInv, TypeOK
<1>1. dev' = dev /\ snd' = snd /\ app' = app /\ hist' = hist OBVIOUS
<1>2. Over(host, host.addr, host.bulk,
           IF host.req = "badConfig" THEN host.feat \ {"ltm"} ELSE host.feat, host.sent, host')
  BY <1>0, StalledFacts
<1>3. Handled /\ ~SetupWaits /\ ~BusWaits /\ ~ResetWaits BY DEF IInv, InOrder, HandledInStep, Handled
<1>4. ~Underway' /\ ~Handled' BY <1>2 DEF Underway, Handled, Over
<1>5. TypeOK' BY <1>1, <1>2 DEF IInv, TypeOK, Over
<1>6. InOrder' BY <1>1, <1>2, <1>4, EventsSame DEF IInv, InOrder, Over
<1>7. Ep0Fits' BY <1>1, Ep0Frame, EventsSame DEF IInv
<1>8. OutFits' /\ InRuns' /\ DownloadInStep'
  BY <1>1, <1>2, BulkFrame, EventsSame DEF SameBulk, Over
<1>9. HandledInStep'
  BY <1>1, <1>2, <1>3, <1>4, EventsSame DEF IInv, HandledInStep, BulkReady, Over
<1>10. hist'.cut \/ Honest'
  BY <1>1, <1>2, <1>3, <1>4, EventsSame DEF IInv, Honest, AgreesStalled, Over
<1>11. NothingLost' BY <1>1, <1>2 DEF IInv, NothingLost, Over
<1> QED BY <1>5, <1>6, <1>7, <1>8, <1>9, <1>10, <1>11 DEF IInv

\* The stage the host is in succeeds.
StageCompletes(dir) ==
  /\ Underway /\ ~dev.stalled /\ dev.hw0[dir] = host.stage
  /\ dev' = Raise([dev EXCEPT !.hw0[dir] = "none",
                     !.resp = IF host.req = "setSel" /\ host.stage = "data"
                                THEN "short" ELSE "ok"],
                  Cmpl(IF dir = "in" THEN "ep0in" ELSE "ep0out", host.stage))
  /\ host' = IF host.stage = "data" THEN [host EXCEPT !.stage = "status"] ELSE Finished(host)
  /\ app' = IF host.stage = "status" /\ host.req = "config" THEN [app EXCEPT !.got = 0] ELSE app
  /\ hist' = [hist EXCEPT !.lied =
       \/ @
       \/ /\ host.req \in Queries /\ host.stage = "data"
          /\ dev.answer # Expected(host)
       \/ host.req \in DOMAIN Sets /\ ~MayHave(host, Sets[host.req])]
  /\ UNCHANGED snd

LEMMA StageCompleted ==
  ASSUME IInv, NEW dir \in {"in", "out"}, dir = Asked, StageCompletes(dir)
  PROVE  IInv'
<1>0. /\ dev \in Dev /\ host \in Host /\ app \in App /\ hist \in Hist
      /\ dev.packet \in Requests /\ dev.stalled \in BOOLEAN
      /\ dev.nrdy \in SUBSET {"in", "out"} /\ hist.lied \in BOOLEAN
      /\ dev.hw0 \in [out : Descriptors, in : Descriptors]
  BY DEF IInv, TypeOK, Dev, Hist
<1>1. Underway /\ ~dev.stalled /\ dev.hw0[dir] = host.stage /\ snd' = snd BY DEF StageCompletes
<1>2. host.stage \in {"data", "status"} /\ dev.hw0[dir] \in {"data", "status"}
  BY <1>1 DEF Underway
<1>3. PICK r \in Responses :
        r = IF host.req = "setSel" /\ host.stage = "data" THEN "short" ELSE "ok"
  BY DEF Responses
<1>4. PICK ev \in Events : ev = Cmpl(Ep0Of(dir), dev.hw0[dir]) BY <1>2, EventTypes
<1>5. PICK h \in [out : Descriptors, in : Descriptors] :
        h = [dev.hw0 EXCEPT ![dir] = "none"] /\ h["out"] = "none" /\ h["in"] = "none"
  <2>1. dev.hw0[Other(dir)] = "none" BY <1>2, RunningFacts
  <2> QED BY <1>0, <2>1, NoneFacts
<1>6. dev' = [dev EXCEPT !.hw0 = h, !.stalled = dev.stalled, !.nrdy = dev.nrdy, !.resp = r,
                         !.packet = dev.packet, !.events = Append(dev.events, ev)]
  BY <1>0, <1>1, <1>3, <1>4, <1>5 DEF StageCompletes, Raise, Dev, Ep0Of
<1>7. ControlSet(dev, h, dev.stalled, r, dev.packet, ev, dev')
  <2>1. PICK t \in BOOLEAN, w \in SUBSET {"in", "out"}, p \in Requests :
          t = dev.stalled /\ w = dev.nrdy /\ p = dev.packet
    BY <1>0
  <2>2. ControlSet(dev, h, t, r, p, ev,
          [dev EXCEPT !.hw0 = h, !.stalled = t, !.nrdy = w, !.resp = r, !.packet = p,
                      !.events = Append(dev.events, ev)])
    BY <1>0, ControlUpdate
  <2> QED BY <1>6, <2>1, <2>2
<1>8. ~SetupWaits /\ Handled /\ ~BusWaits /\ ~ResetWaits
  BY <1>1, <1>2, RunningFacts DEF IInv, InOrder, HandledInStep, Handled
<1>9. /\ Ep0Fits'
      /\ ~ResetWaits' /\ ~BusWaits' /\ ~SetupWaits'
      /\ ConnWaits' <=> ConnWaits
      /\ OutWaits' <=> OutWaits
      /\ ResetsConnect => ResetsConnect'
      /\ OutsFirst => OutsFirst'
      /\ SetupsLast => SetupsLast'
      /\ SetupsConnected => SetupsConnected'
      /\ OutOnce => OutOnce'
  BY <1>2, <1>4, <1>5, <1>7, <1>8, CompletionRaised DEF ControlSet
<1>10. /\ hist' \in Hist /\ hist'.cut = hist.cut /\ hist'.reconf = hist.reconf
       /\ hist'.resets = hist.resets /\ hist'.strayed = hist.strayed
       /\ hist'.lied <=> \/ hist.lied
                         \/ /\ host.req \in Queries /\ host.stage = "data"
                            /\ dev.answer # Expected(host)
                         \/ host.req \in DOMAIN Sets /\ ~MayHave(host, Sets[host.req])
  <2>1. PICK l \in BOOLEAN :
          l = (\/ hist.lied
               \/ /\ host.req \in Queries /\ host.stage = "data"
                  /\ dev.answer # Expected(host)
               \/ host.req \in DOMAIN Sets /\ ~MayHave(host, Sets[host.req]))
    OBVIOUS
  <2>2. hist' = [hist EXCEPT !.lied = l] BY <2>1 DEF StageCompletes
  <2>3. /\ hist' \in Hist /\ hist'.cut = hist.cut /\ hist'.reconf = hist.reconf
        /\ hist'.resets = hist.resets /\ hist'.strayed = hist.strayed /\ hist'.lied = l
    BY <1>0, <2>2 DEF Hist
  <2> QED BY <2>1, <2>3
<1>11. hist.cut \/ (AgreesFinished /\ ~hist'.lied)
  <2>1. hist.cut \/ (AgreesFinished /\ ~hist.lied) BY <1>1, <1>8 DEF IInv, Honest
  <2>2. host.req \in Queries /\ host.stage = "data" => dev.hw0["in"] = "data"
    <3>1. host.req \in Queries => Data(host.req) = "in" BY DEF Data, Queries
    <3> QED BY <1>1, <3>1 DEF Asked
  <2> QED BY <1>10, <2>1, <2>2 DEF AgreesFinished
<1>12. /\ app' \in App /\ app'.mode = app.mode /\ app'.todo = app.todo /\ app'.left = app.left
       /\ app'.got = IF host.stage = "status" /\ host.req = "config" THEN 0 ELSE app.got
  <2>1. PICK g \in Nat :
          g = IF host.stage = "status" /\ host.req = "config" THEN 0 ELSE app.got
    BY <1>0 DEF App
  <2>2. app' = [app EXCEPT !.got = g] BY <1>0, <2>1 DEF StageCompletes, App
  <2> QED BY <1>0, <2>1, <2>2 DEF App
<1>13. SameBulk(dev, dev') /\ SameCore(dev, dev') /\ dev' \in Dev BY <1>7 DEF ControlSet
\* The data stage: the status stage is to come.
<1>14. CASE host.stage = "data"
  <2>1. /\ host' \in Host /\ host'.stage = "status" /\ host'.req = host.req
        /\ host'.addr = host.addr /\ host'.bulk = host.bulk /\ host'.size = host.size
        /\ host'.left = host.left /\ host'.sent = host.sent /\ host'.speed = host.speed
        /\ host'.feat = host.feat
    BY <1>0, <1>14 DEF StageCompletes, Host, Stages
  <2>2. Underway' /\ Handled' BY <1>9, <2>1 DEF Underway, Handled
  <2>3. TypeOK' BY <1>1, <1>10, <1>12, <1>13, <2>1 DEF IInv, TypeOK, SameBulk
  <2>4. InOrder' BY <1>1, <1>8, <1>9, <1>10, <1>13, <1>14, <2>1 DEF IInv, InOrder, SameCore
  <2>5. OutFits' /\ InRuns' /\ DownloadInStep'
    BY <1>1, <1>9, <1>10, <1>12, <1>13, <2>1, BulkFrame DEF SameCore
  <2>6. BulkReady' <=> BulkReady BY <1>13, <2>1 DEF BulkReady, SameBulk
  <2>7. HandledInStep'
    BY <1>3, <1>7, <1>8, <1>9, <1>10, <1>13, <1>14, <2>1, <2>2, <2>6
       DEF IInv, HandledInStep, Underway, ControlSet, SameBulk
  <2>8. hist'.cut \/ Honest'
    <3>1. /\ FinishedAddr(host)' = FinishedAddr(host) /\ FinishedFeat(host)' = FinishedFeat(host)
          /\ FinishedBulk(host)' = FinishedBulk(host)
      BY <2>1 DEF FinishedAddr, FinishedFeat, FinishedBulk
    <3>2. \A f : MayHave(host, f)' <=> MayHave(host, f) BY <2>1 DEF MayHave
    <3>3. dev'.hw0["in"] # "data" BY <1>5, <1>7 DEF ControlSet
    <3>4. hist.cut \/ AgreesFinished'
      BY <1>11, <1>13, <2>1, <3>1, <3>2, <3>3 DEF AgreesFinished, SameCore
    <3> QED BY <1>1, <1>7, <1>9, <1>10, <1>11, <2>1, <2>2, <3>4 DEF IInv, Honest, ControlSet
  <2>9. NothingLost' BY <1>10, <1>12, <1>13, <1>14, <2>1 DEF IInv, NothingLost, SameBulk
  <2> QED BY <1>9, <2>3, <2>4, <2>5, <2>7, <2>8, <2>9 DEF IInv
\* The status stage: the request is over.
<1>15. CASE host.stage = "status"
  <2>1. Over(host, FinishedAddr(host), FinishedBulk(host), FinishedFeat(host),
             IF host.req = "config" THEN 0 ELSE host.sent, host')
    <3>1. host' = Finished(host) BY <1>15 DEF StageCompletes
    <3> QED BY <1>0, <3>1, FinishedFacts
  <2>2. ~Underway' /\ ~Handled' BY <2>1 DEF Underway, Handled, Over
  <2>3. TypeOK' BY <1>1, <1>10, <1>12, <1>13, <2>1 DEF IInv, TypeOK, SameBulk, Over
  <2>4. hist.resets > 0 BY <1>15 DEF IInv, InOrder
  <2>5. InOrder' BY <1>8, <1>9, <1>10, <1>13, <2>1, <2>2, <2>4 DEF IInv, InOrder, SameCore, Over
  <2>6. host'.bulk \in {host.bulk, "off", "ready"} BY <2>1 DEF FinishedBulk, Over
  <2>7. OutFits' /\ InRuns' /\ DownloadInStep'
    BY <1>1, <1>9, <1>10, <1>12, <1>13, <2>1, <2>6, BulkFrame DEF SameCore, Over
  <2>8. BulkReady' <=> BulkReady BY <1>13, <2>1 DEF BulkReady, SameBulk, Over
  <2>9. host'.bulk # "off" => host.bulk # "off" \/ host.req = "config"
    BY <2>1 DEF FinishedBulk, Over
  <2>10. host'.bulk # "off" => BulkReady BY <1>8, <2>9 DEF IInv, HandledInStep
  <2>11. HandledInStep'
    BY <1>9, <2>1, <2>2, <2>8, <2>10 DEF HandledInStep, Over
  <2>12. host'.addr = 0 => host'.bulk = "off" \/ hist.cut
    <3>1. host.req = "config" => host.addr = 1 BY <1>15 DEF IInv, HandledInStep
    <3>2. host.addr = 0 => host.bulk = "off" \/ hist.cut BY DEF IInv, Honest
    <3> QED BY <2>1, <3>1, <3>2 DEF FinishedAddr, FinishedBulk, Over
  <2>13. hist'.cut \/ Honest'
    BY <1>9, <1>10, <1>11, <1>13, <2>1, <2>2, <2>12 DEF Honest, AgreesFinished, SameCore, Over
  <2>14. NothingLost'
    <3>1. CASE host.req = "config"
      <4>1. hist.reconf \/ dev.out.got = 0 BY <1>8, <3>1 DEF IInv, HandledInStep
      <4> QED BY <1>10, <1>12, <1>13, <1>15, <2>1, <3>1, <4>1 DEF NothingLost, SameBulk, Over
    <3>2. CASE host.req # "config"
      <4>1. host'.bulk # "off" => host.bulk # "off" BY <2>9, <3>2
      <4> QED BY <1>10, <1>12, <1>13, <2>1, <3>2, <4>1 DEF IInv, NothingLost, SameBulk, Over
    <3> QED BY <3>1, <3>2
  <2> QED BY <1>9, <2>3, <2>5, <2>7, <2>11, <2>13, <2>14 DEF IInv
<1> QED BY <1>2, <1>14, <1>15

LEMMA ControlStageKeeps ==
  ASSUME IInv, ControlStage
  PROVE  IInv'
<1>1. PICK dir : dir = Asked OBVIOUS
<1>2. Underway BY DEF ControlStage
<1>3. dir \in {"in", "out"}
  <2>1. host.stage = "data" => Data(host.req) \in {"in", "out"} BY DEF IInv, HandledInStep, Data
  <2> QED BY <1>1, <2>1 DEF Asked
<1>4. \/ dev.stalled /\ host' = Stalled(host) /\ UNCHANGED <<dev, snd, app, hist>>
      \/ StageCompletes(dir)
      \/ /\ dev' = Raise([dev EXCEPT !.nrdy = @ \cup {dir}], Nrdy(Ep0Of(dir)))
         /\ UNCHANGED <<snd, app, host, hist>>
  BY <1>1, <1>2 DEF ControlStage, StageCompletes, Ep0Of
<1> QED BY <1>1, <1>2, <1>3, <1>4, StageStalled, StageCompleted, NrdyRaised

(* ------------------------------ bus reset ------------------------------ *)

LEMMA ResetRaised ==
  ASSUME dev.events \in Seq(Events),
         dev'.events = Append(Append(dev.events, BusEvent("reset")), BusEvent("conn"))
  PROVE  /\ ResetWaits' /\ BusWaits' /\ ConnWaits'
         /\ SetupWaits' <=> SetupWaits
         /\ OutWaits' <=> OutWaits
         /\ Ep0Waits' <=> Ep0Waits
         /\ ResetsConnect => ResetsConnect'
         /\ OutsFirst => OutsFirst'
         /\ SetupsConnected => SetupsConnected'
         /\ OutOnce => OutOnce'
         /\ \A x : Ep0Only(x) => Ep0Only(x)'
<1>1. PICK n \in Nat : n = Len(dev.events) + 1 /\ \A i \in Slots : i \in Nat /\ i < n
  BY DEF Slots
<1>2. PICK r \in Events, c \in Events : r = BusEvent("reset") /\ c = BusEvent("conn")
  BY EventTypes
<1>3. Slots' = Slots \cup {n, n + 1}
  <2>1. Append(dev.events, r) \in Seq(Events) /\ Len(Append(dev.events, r)) = n BY <1>1
  <2>2. Len(Append(Append(dev.events, r), c)) = n + 1 BY <2>1
  <2>3. DOMAIN dev'.events = 1 .. n + 1 BY <1>2, <2>1, <2>2
  <2> QED BY <1>1, <2>3 DEF Slots
<1>4. At(n)' = r /\ At(n + 1)' = c /\ \A i \in Slots : At(i)' = At(i)
  <2>1. PICK q \in Seq(Events) : q = Append(dev.events, r)
    <3>1. Append(dev.events, r) \in Seq(Events) OBVIOUS
    <3> QED BY <3>1
  <2>2. Len(q) = n /\ q[n] = r /\ \A i \in Slots : q[i] = At(i) /\ i \in 1 .. n
    BY <1>1, <2>1 DEF Slots, At
  <2>3. dev'.events = Append(q, c) BY <1>2, <2>1
  <2>4. Append(q, c)[n + 1] = c /\ \A i \in 1 .. n : Append(q, c)[i] = q[i] BY <2>2
  <2>5. At(n + 1)' = c BY <2>3, <2>4 DEF At
  <2>6. n \in 1 .. n BY <1>1
  <2>7. At(n)' = r BY <2>2, <2>3, <2>4, <2>6 DEF At
  <2>8. ASSUME NEW i \in Slots PROVE At(i)' = At(i)
    <3>1. i \in 1 .. n /\ q[i] = At(i) BY <2>2
    <3>2. dev'.events[i] = q[i] BY <2>3, <2>4, <3>1
    <3> QED BY <3>1, <3>2 DEF At
  <2> QED BY <2>5, <2>7, <2>8
<1>5. /\ IsReset(r) /\ IsBus(r) /\ ~IsConn(r) /\ ~IsOut(r) /\ ~IsEp0(r) /\ ~IsSetup(r)
      /\ IsConn(c) /\ IsBus(c) /\ ~IsReset(c) /\ ~IsOut(c) /\ ~IsEp0(c) /\ ~IsSetup(c)
  BY <1>2, EventKinds DEF IsReset, IsConn
<1>6. ResetWaits' /\ BusWaits' /\ ConnWaits'
  BY <1>3, <1>4, <1>5 DEF ResetWaits, BusWaits, ConnWaits
<1>7. /\ SetupWaits' <=> SetupWaits
      /\ OutWaits' <=> OutWaits
      /\ Ep0Waits' <=> Ep0Waits
  BY <1>3, <1>4, <1>5, Zenon DEF SetupWaits, OutWaits, Ep0Waits
<1>8. ASSUME ResetsConnect PROVE ResetsConnect'
  <2>1. ASSUME NEW i \in Slots', IsReset(At(i)') PROVE \E j \in Slots' : j > i /\ IsConn(At(j)')
    <3>1. CASE i \in Slots
      <4>1. n + 1 > i BY <1>1, <3>1
      <4> QED BY <1>3, <1>4, <1>5, <4>1
    <3>2. CASE i = n
      <4>1. n + 1 > i BY <3>2
      <4> QED BY <1>3, <1>4, <1>5, <4>1
    <3>3. i # n + 1 BY <1>4, <1>5, <2>1
    <3> QED BY <1>3, <3>1, <3>2, <3>3
  <2> QED BY <2>1, Zenon DEF ResetsConnect
<1>9. ASSUME OutsFirst PROVE OutsFirst'
  <2>1. ASSUME NEW i \in Slots', NEW j \in Slots', IsOut(At(i)'), IsReset(At(j)') PROVE i < j
    <3>1. i \in Slots /\ IsOut(At(i)) BY <1>3, <1>4, <1>5, <2>1
    <3>2. CASE j \in Slots
      <4>1. IsReset(At(j)) BY <1>4, <2>1, <3>2
      <4> QED BY <1>9, <3>1, <3>2, <4>1 DEF OutsFirst
    <3>3. CASE j = n BY <1>1, <3>1, <3>3
    <3>4. j # n + 1 BY <1>4, <1>5, <2>1
    <3> QED BY <1>3, <3>2, <3>3, <3>4
  <2> QED BY <2>1, Zenon DEF OutsFirst
<1>10. SetupsConnected => SetupsConnected'
  BY <1>3, <1>4, <1>5, Zenon DEF SetupsConnected
<1>11. OutOnce => OutOnce' BY <1>3, <1>4, <1>5, Zenon DEF OutOnce
<1>12. ASSUME NEW x, Ep0Only(x) PROVE Ep0Only(x)' BY <1>3, <1>4, <1>5, <1>12, Zenon DEF Ep0Only
<1> QED BY <1>6, <1>7, <1>8, <1>9, <1>10, <1>11, <1>12

LEMMA HostResetKeeps ==
  ASSUME IInv, HostReset
  PROVE  IInv'
<1>0. /\ dev \in Dev /\ host \in Host /\ hist \in Hist /\ dev.events \in Seq(Events)
      /\ hist.bound \in ScenarioType /\ hist.resets \in Nat /\ hist.cut \in BOOLEAN
      /\ host.feat \in SUBSET Features
  BY SizesAssumption DEF IInv, TypeOK, Dev, Hist, Host
<1>1. PICK q \in Seq(Events) :
        q = Append(Append(dev.events, BusEvent("reset")), BusEvent("conn"))
  <2>1. PICK r \in Events, c \in Events : r = BusEvent("reset") /\ c = BusEvent("conn")
    BY EventTypes
  <2>2. Append(dev.events, r) \in Seq(Events) BY <1>0
  <2>3. Append(Append(dev.events, r), c) \in Seq(Events) BY <2>2
  <2> QED BY <2>1, <2>3
<1>2. dev' = [dev EXCEPT !.nrdy = {}, !.events = q] BY <1>0, <1>1 DEF HostReset, Raise, Dev
<1>3. /\ dev' \in Dev /\ SameEp0(dev, dev') /\ SameCore(dev, dev') /\ SameBulk(dev, dev')
      /\ dev'.events = q
  <2>1. dev' \in Dev BY <1>0, <1>2 DEF Dev
  <2>2. SameEp0(dev, dev') /\ SameCore(dev, dev') /\ SameBulk(dev, dev') /\ dev'.events = q
    BY <1>0, <1>2 DEF Dev, SameEp0, SameCore, SameBulk
  <2> QED BY <2>1, <2>2
<1>4. PICK s \in Speeds :
        host' = [Idle(host) EXCEPT !.speed = s, !.addr = 0, !.bulk = "off",
                                   !.left = 0, !.feat = @ \ {"ltm"}]
  BY <1>0 DEF HostReset, ScenarioType
<1>5. /\ host' \in Host /\ host'.stage = "idle" /\ host'.req = "get" /\ host'.addr = 0
      /\ host'.bulk = "off" /\ host'.size = host.size /\ host'.left = 0
      /\ host'.sent = host.sent /\ host'.speed = s /\ host'.feat = host.feat \ {"ltm"}
  <2>1. PICK g : g = Idle(host) OBVIOUS
  <2>2. Over(host, host.addr, host.bulk, host.feat, host.sent, g) BY <1>0, <2>1, StalledFacts
  <2>3. PICK f \in SUBSET Features : f = host.feat \ {"ltm"} BY <1>0
  <2>4. PICK b \in BulkStages : b = "off" BY DEF BulkStages
  <2>5. host' = [g EXCEPT !.speed = s, !.addr = 0, !.bulk = b, !.left = 0, !.feat = f]
    BY <1>4, <2>1, <2>2, <2>3, <2>4 DEF Over, Host
  <2>6. g \in Host BY <2>2 DEF Over
  <2>7. /\ host' \in Host /\ host'.stage = g.stage /\ host'.req = g.req /\ host'.addr = 0
        /\ host'.bulk = b /\ host'.size = g.size /\ host'.left = 0
        /\ host'.sent = g.sent /\ host'.speed = s /\ host'.feat = f
    BY <2>5, <2>6 DEF Host
  <2> QED BY <2>2, <2>3, <2>4, <2>7 DEF Over
<1>6. /\ hist' \in Hist /\ (hist'.cut <=> hist.cut \/ ControlBusy) /\ hist'.reconf = hist.reconf
      /\ hist'.lied = hist.lied /\ hist'.resets > 0 /\ hist'.strayed = hist.strayed
  <2>1. PICK k \in Nat : k = hist.resets + 1 /\ k > 0 BY <1>0
  <2>2. PICK c \in BOOLEAN : c = (hist.cut \/ ControlBusy) OBVIOUS
  <2>3. hist' = [hist EXCEPT !.resets = k, !.cut = c] BY <2>1, <2>2 DEF HostReset
  <2>4. /\ hist' \in Hist /\ hist'.cut = c /\ hist'.reconf = hist.reconf
        /\ hist'.lied = hist.lied /\ hist'.resets = k /\ hist'.strayed = hist.strayed
    BY <1>0, <2>3 DEF Hist
  <2> QED BY <2>1, <2>2, <2>4
<1>7. snd' = snd /\ app' = app BY DEF HostReset
<1>8. /\ ResetWaits' /\ BusWaits' /\ ConnWaits'
      /\ SetupWaits' <=> SetupWaits
      /\ OutWaits' <=> OutWaits
      /\ Ep0Waits' <=> Ep0Waits
      /\ ResetsConnect => ResetsConnect'
      /\ OutsFirst => OutsFirst'
      /\ SetupsConnected => SetupsConnected'
      /\ OutOnce => OutOnce'
      /\ \A x : Ep0Only(x) => Ep0Only(x)'
  BY <1>0, <1>1, <1>3, ResetRaised
<1>9. ~Underway' /\ ~Handled' BY <1>5 DEF Underway, Handled
<1>10. TypeOK' BY <1>3, <1>5, <1>6, <1>7 DEF IInv, TypeOK, SameBulk
<1>11. InOrder' BY <1>3, <1>5, <1>6, <1>8, <1>9 DEF IInv, InOrder, SameCore
<1>12. Ep0Fits' BY <1>3, <1>8, Ep0Frame DEF IInv, SameEp0
<1>13. OutFits' /\ InRuns' /\ DownloadInStep'
  BY <1>3, <1>5, <1>6, <1>7, <1>8, BulkFrame DEF SameCore
<1>14. HandledInStep' BY <1>3, <1>5, <1>8, <1>9 DEF IInv, HandledInStep, SameEp0
<1>15. ASSUME ~hist'.cut PROVE Honest'
  <2>1. ~hist.cut /\ host.stage = "idle" /\ dev.hw0["out"] = "setup"
    <3>1. dev.hw0.out = dev.hw0["out"] BY <1>0 DEF Dev
    <3> QED BY <1>6, <1>15, <3>1 DEF ControlBusy
  <2>2. ~SetupWaits' BY <1>8, <2>1, RunningFacts
  <2>3. ~Handled BY <2>1 DEF Handled, Underway
  <2>4. dev.feat \ {"ltm"} = host.feat \ {"ltm"}
    BY <2>1, <2>3 DEF IInv, Honest
  <2> QED BY <1>3, <1>5, <1>6, <1>8, <1>9, <2>1, <2>2, <2>4 DEF IInv, Honest, SameCore
<1>16. NothingLost' BY <1>5 DEF NothingLost
<1> QED BY <1>10, <1>11, <1>12, <1>13, <1>14, <1>15, <1>16 DEF IInv

(* ---------------------------- the event loop --------------------------- *)

LEMMA BusNext ==
  ASSUME dev' \in Dev
  PROVE  BusWaits' <=> ResetWaits' \/ ConnWaits'
<1>1. \A i \in Slots' : At(i)' \in Events BY DEF Dev, Slots, At
<1>2. \A i \in Slots' : IsBus(At(i)') <=> IsReset(At(i)') \/ IsConn(At(i)') BY <1>1, EventKinds
<1> QED BY <1>2, Zenon DEF BusWaits, ResetWaits, ConnWaits

\* The driver with the first event taken, and what is noted of the step.
Taken(d, ev) ==
  /\ dev.events # <<>> /\ ev = Head(dev.events) /\ ev \in Events
  /\ d \in Dev /\ d.events = Tail(dev.events)
  /\ SameEp0(dev, d) /\ SameBulk(dev, d) /\ SameCore(dev, d)
  /\ dev' = Handle(d, ev) /\ snd' = snd /\ host' = host
  /\ app' = IF ev.ep = "out" /\ Completes(d) THEN RxCallback(d.out.got) ELSE app
  /\ hist' \in Hist /\ hist'.cut = hist.cut /\ hist'.lied = hist.lied
  /\ hist'.resets = hist.resets
  /\ hist'.reconf <=> hist.reconf \/ (Configures(d, ev) /\ d.live)
  /\ hist'.strayed <=> hist.strayed \/ (/\ snd.pc = "start"
                                        /\ (ev.type = "reset" \/ Configures(d, ev)))

LEMMA PollFacts ==
  ASSUME IInv, DwUsb3Poll
  PROVE  \E d, ev : Taken(d, ev)
<1>0. dev \in Dev /\ hist \in Hist /\ dev.events \in Seq(Events) BY DEF IInv, TypeOK, Dev
<1>1. PICK ev : ev = Head(dev.events) OBVIOUS
<1>2. dev.events # <<>> /\ ev \in Events BY <1>0, <1>1 DEF DwUsb3Poll
<1>3. PICK q \in Seq(Events) : q = Tail(dev.events)
  <2>1. Tail(dev.events) \in Seq(Events) BY <1>0, <1>2
  <2> QED BY <2>1
<1>4. PICK d : d = [dev EXCEPT !.events = q] OBVIOUS
<1>5. d \in Dev BY <1>0, <1>4 DEF Dev
<1>6. d.events = q /\ SameEp0(dev, d) /\ SameBulk(dev, d) /\ SameCore(dev, d)
  BY <1>0, <1>4 DEF Dev, SameEp0, SameBulk, SameCore
<1>7. d = [dev EXCEPT !.events = Tail(@)] BY <1>0, <1>3, <1>4 DEF Dev
<1>8. /\ dev' = Handle(d, ev) /\ snd' = snd /\ host' = host
      /\ app' = IF ev.ep = "out" /\ Completes(d) THEN RxCallback(d.out.got) ELSE app
  BY <1>1, <1>7 DEF DwUsb3Poll
<1>9. PICK r \in BOOLEAN, s \in BOOLEAN :
        /\ r = (hist.reconf \/ (Configures(d, ev) /\ d.live))
        /\ s = (hist.strayed \/ (/\ snd.pc = "start"
                                 /\ (ev.type = "reset" \/ Configures(d, ev))))
  OBVIOUS
<1>10. hist' = [hist EXCEPT !.reconf = r, !.strayed = s] BY <1>1, <1>7, <1>9 DEF DwUsb3Poll
<1>11. /\ hist' \in Hist /\ hist'.cut = hist.cut /\ hist'.lied = hist.lied
       /\ hist'.resets = hist.resets /\ hist'.reconf = r /\ hist'.strayed = s
  BY <1>0, <1>10 DEF Hist
<1>12. /\ hist'.reconf <=> hist.reconf \/ (Configures(d, ev) /\ d.live)
       /\ hist'.strayed <=> hist.strayed \/ (/\ snd.pc = "start"
                                             /\ (ev.type = "reset" \/ Configures(d, ev)))
  BY <1>9, <1>11
<1> QED BY <1>1, <1>2, <1>3, <1>5, <1>6, <1>8, <1>11, <1>12 DEF Taken

\* A bus reset.
LEMMA PollReset ==
  ASSUME IInv, NEW d, NEW ev, Taken(d, ev), IsReset(ev)
  PROVE  IInv'
<1>1. ev.type = "reset" /\ ev.trb # "setup" /\ ev.ep # "out" /\ ~IsSetup(ev) /\ ~IsOut(ev)
      /\ ~IsEp0(ev) /\ IsBus(ev) /\ ~IsConn(ev)
  BY EventKinds DEF Taken
<1>2. dev' = DwUsb3HandleUsbResetInterrupt(d) BY <1>1 DEF Taken, Handle
<1>3. d \in Dev /\ dev.events \in Seq(Events) BY DEF Taken, IInv, TypeOK, Dev
<1>4. WasReset(d, dev') BY <1>2, <1>3, ResetFacts
<1>5. /\ dev.events # <<>> /\ ev = Head(dev.events) /\ dev'.events = Tail(dev.events)
      /\ SameEp0(dev, d) /\ SameBulk(dev, d) /\ SameCore(dev, d)
      /\ snd' = snd /\ host' = host /\ app' = app
  BY <1>1, <1>4 DEF Taken, WasReset
<1>6. /\ hist' \in Hist /\ hist'.cut = hist.cut /\ hist'.lied = hist.lied
      /\ hist'.resets = hist.resets
      /\ hist'.reconf <=> hist.reconf
      /\ hist'.strayed <=> hist.strayed \/ snd.pc = "start"
  BY <1>1 DEF Taken, Configures
<1>7. /\ ResetWaits
      /\ BusWaits
      /\ SetupWaits' <=> SetupWaits
      /\ ~OutWaits'
      /\ ConnWaits'
      /\ Ep0Waits' <=> Ep0Waits
      /\ ResetsConnect' /\ OutsFirst'
      /\ SetupsLast => SetupsLast'
      /\ SetupsConnected => SetupsConnected'
      /\ OutOnce => OutOnce'
      /\ \A x : Ep0Only(x) => Ep0Only(x)'
  BY <1>1, <1>3, <1>5, EventTaken DEF IInv, InOrder
<1>8. BusWaits' BY <1>4, <1>7, BusNext DEF WasReset
<1>9. host.bulk = "off" /\ ~Handled /\ ~Handled' /\ (Underway' <=> Underway)
  BY <1>5, <1>7 DEF IInv, HandledInStep, Handled, Underway
<1>10. SameEp0(dev, dev') BY <1>4, <1>5 DEF WasReset, SameEp0
<1>11. TypeOK' BY <1>4, <1>5, <1>6 DEF IInv, TypeOK, WasReset, SameBulk
<1>12. InOrder' BY <1>4, <1>5, <1>6, <1>7, <1>8, <1>9 DEF IInv, InOrder, WasReset, SameCore
<1>13. Ep0Fits' BY <1>7, <1>10, Ep0Frame DEF IInv, SameEp0
<1>14. OutFits' BY <1>4, <1>5, <1>6, <1>7 DEF IInv, OutFits, WasReset, SameBulk
<1>15. InRuns' BY <1>4, <1>5, <1>6 DEF IInv, InRuns, WasReset, SameBulk
<1>16. DownloadInStep'
  <2>1. DataSent' => DataSent BY <1>4, <1>5 DEF DataSent, WasReset, SameBulk
  <2>2. DataComes' <=> DataComes BY <1>5 DEF DataComes
  <2>3. dev'.in.msg = dev.in.msg /\ dev'.out.got = dev.out.got
    BY <1>4, <1>5 DEF WasReset, SameBulk
  <2> QED BY <1>5, <1>7, <2>1, <2>2, <2>3 DEF IInv, DownloadInStep
<1>17. HandledInStep'
  BY <1>5, <1>7, <1>9, <1>10 DEF IInv, HandledInStep, SameEp0
<1>18. hist'.cut \/ Honest'
  BY <1>4, <1>5, <1>6, <1>7, <1>8, <1>9 DEF IInv, Honest, WasReset, SameCore
<1>19. NothingLost' BY <1>5, <1>9 DEF NothingLost
<1> QED BY <1>11, <1>12, <1>13, <1>14, <1>15, <1>16, <1>17, <1>18, <1>19 DEF IInv

\* The connection after it: the speed is known.
LEMMA PollConnect ==
  ASSUME IInv, NEW d, NEW ev, Taken(d, ev), IsConn(ev)
  PROVE  IInv'
<1>1. ev.type = "conn" /\ ev.trb # "setup" /\ ev.ep # "out" /\ ~IsSetup(ev) /\ ~IsOut(ev)
      /\ ~IsEp0(ev) /\ IsBus(ev) /\ ~IsReset(ev)
  BY EventKinds DEF Taken
<1>2. dev' = DwUsb3HandleConnectDoneInterrupt(d) BY <1>1 DEF Taken, Handle
<1>3. d \in Dev /\ dev.events \in Seq(Events) /\ host.speed \in Speeds
  BY DEF Taken, IInv, TypeOK, Dev, Host
<1>4. /\ dev' \in Dev /\ dev'.events = d.events /\ SameEp0(d, dev') /\ SameBulk(d, dev')
      /\ dev'.addr = d.addr /\ dev'.feat = d.feat
      /\ dev'.speed = host.speed /\ dev'.state = "DEFAULT"
  <2>1. PICK s \in SpeedsOrNone, t \in DeviceStates : s = host.speed /\ t = "DEFAULT"
    BY <1>3 DEF SpeedsOrNone, DeviceStates
  <2>2. dev' = [d EXCEPT !.speed = s, !.state = t]
    BY <1>2, <2>1 DEF DwUsb3HandleConnectDoneInterrupt
  <2>3. dev' \in Dev BY <1>3, <2>2 DEF Dev
  <2>4. /\ dev'.events = d.events /\ SameEp0(d, dev') /\ SameBulk(d, dev')
        /\ dev'.addr = d.addr /\ dev'.feat = d.feat /\ dev'.speed = s /\ dev'.state = t
    BY <1>3, <2>2 DEF Dev, SameEp0, SameBulk
  <2> QED BY <2>1, <2>3, <2>4
<1>5. /\ dev.events # <<>> /\ ev = Head(dev.events) /\ dev'.events = Tail(dev.events)
      /\ SameEp0(dev, d) /\ SameBulk(dev, d) /\ SameCore(dev, d)
      /\ snd' = snd /\ host' = host /\ app' = app
  BY <1>1, <1>4 DEF Taken
<1>6. /\ hist' \in Hist /\ hist'.cut = hist.cut /\ hist'.lied = hist.lied
      /\ hist'.resets = hist.resets
      /\ hist'.reconf <=> hist.reconf
      /\ hist'.strayed <=> hist.strayed
  BY <1>1 DEF Taken, Configures
<1>7. /\ BusWaits
      /\ ResetWaits' <=> ResetWaits
      /\ SetupWaits' <=> SetupWaits
      /\ OutWaits' <=> OutWaits
      /\ Ep0Waits' <=> Ep0Waits
      /\ ResetsConnect' /\ OutsFirst'
      /\ SetupsLast => SetupsLast'
      /\ OutOnce => OutOnce'
      /\ \A x : Ep0Only(x) => Ep0Only(x)'
  BY <1>1, <1>3, <1>5, EventTaken DEF IInv, InOrder
<1>8. BusWaits' <=> ResetWaits' \/ ConnWaits' BY <1>4, BusNext
<1>9. host.bulk = "off" /\ ~Handled /\ ~Handled' /\ (Underway' <=> Underway)
  BY <1>5, <1>7 DEF IInv, HandledInStep, Handled, Underway
<1>10. SameEp0(dev, dev') /\ SameBulk(dev, dev')
  BY <1>4, <1>5 DEF SameEp0, SameBulk
<1>11. TypeOK' BY <1>4, <1>5, <1>6, <1>10 DEF IInv, TypeOK, SameBulk
<1>12. InOrder'
  <2>1. dev'.speed # "unknown" BY <1>3, <1>4, SizesAssumption
  <2> QED BY <1>4, <1>5, <1>6, <1>7, <1>8, <1>9, <2>1 DEF IInv, InOrder
<1>13. Ep0Fits' BY <1>7, <1>10, Ep0Frame DEF IInv, SameEp0
<1>14. OutFits'
  <2>1. dev'.speed # "unknown" BY <1>3, <1>4, SizesAssumption
  <2> QED BY <1>6, <1>7, <1>10, <2>1 DEF IInv, OutFits, SameBulk
<1>15. InRuns' BY <1>5, <1>6, <1>10 DEF IInv, InRuns, SameBulk
<1>16. DownloadInStep'
  BY <1>5, <1>7, <1>10 DEF IInv, DownloadInStep, DataSent, DataComes, SameBulk
<1>17. HandledInStep'
  BY <1>5, <1>7, <1>9, <1>10 DEF IInv, HandledInStep, SameEp0
<1>18. hist'.cut \/ Honest'
  BY <1>4, <1>5, <1>6, <1>7, <1>9 DEF IInv, Honest, SameCore
<1>19. NothingLost' BY <1>5, <1>9 DEF NothingLost
<1> QED BY <1>11, <1>12, <1>13, <1>14, <1>15, <1>16, <1>17, <1>18, <1>19 DEF IInv

\* The completion of an OUT transfer.
LEMMA PollOut ==
  ASSUME IInv, NEW d, NEW ev, Taken(d, ev), IsOut(ev)
  PROVE  IInv'
<1>1. ev.type = "cmpl" /\ ev.trb # "setup" /\ ev.ep = "out" /\ ~IsSetup(ev)
      /\ ~IsEp0(ev) /\ ~IsBus(ev) /\ ~IsConn(ev) /\ ~IsReset(ev)
  BY EventKinds DEF Taken
<1>2. dev' = CompleteOut(d) BY <1>1 DEF Taken, Handle
<1>3. /\ d \in Dev /\ dev \in Dev /\ dev.events \in Seq(Events) /\ app \in App
      /\ d.out.trb \in BOOLEAN /\ d.out.hwo \in BOOLEAN /\ d.out.got \in Nat
      /\ host.size \in Nat /\ host.left \in Nat /\ app.left \in Nat /\ app.got \in Nat
  BY DEF Taken, IInv, TypeOK, Dev, OutEndpoint, Host, App
<1>4. /\ dev.events # <<>> /\ ev = Head(dev.events) /\ d.events = Tail(dev.events)
      /\ SameEp0(dev, d) /\ SameBulk(dev, d) /\ SameCore(dev, d)
      /\ snd' = snd /\ host' = host
      /\ app' = IF Completes(d) THEN RxCallback(d.out.got) ELSE app
  BY <1>1 DEF Taken
<1>5. /\ hist' \in Hist /\ hist'.cut = hist.cut /\ hist'.lied = hist.lied
      /\ hist'.resets = hist.resets
      /\ hist'.reconf = hist.reconf /\ hist'.strayed = hist.strayed
  BY <1>1 DEF Taken, Configures, IInv, TypeOK, Hist
<1>6. OutWaits
  <2>1. 1 \in Slots /\ At(1) = ev BY <1>3, <1>4 DEF Slots, At
  <2> QED BY <2>1 DEF OutWaits
<1>7. dev.live /\ dev.out.trb /\ dev.speed \in Speeds
  BY <1>3, <1>6 DEF IInv, OutFits, Dev, SpeedsOrNone
<1>8. Completed(d, dev') BY <1>2, <1>3, <1>4, <1>7, CompleteOutFacts DEF SameCore
<1>9. Completes(d) <=> ~dev.out.hwo BY <1>4, <1>7 DEF Completes, SameBulk
<1>10. ~hist.reconf => Completes(d) BY <1>6, <1>9 DEF IInv, OutFits
<1>11. /\ ResetWaits' <=> ResetWaits
       /\ BusWaits' <=> BusWaits
       /\ ConnWaits' <=> ConnWaits
       /\ SetupWaits' <=> SetupWaits
       /\ Ep0Waits' <=> Ep0Waits
       /\ ResetsConnect' /\ OutsFirst'
       /\ SetupsLast => SetupsLast'
       /\ SetupsConnected => SetupsConnected'
       /\ OutOnce => OutOnce' /\ ~OutWaits'
       /\ \A x : Ep0Only(x) => Ep0Only(x)'
  <2>1. dev'.events = Tail(dev.events) BY <1>4, <1>8 DEF Completed
  <2> QED BY <1>1, <1>3, <1>4, <2>1, EventTaken DEF IInv, InOrder
<1>12. SameEp0(dev, dev') /\ SameCore(dev, dev')
  BY <1>4, <1>8 DEF Completed, SameEp0, SameCore
<1>13. /\ app' \in App /\ app'.mode = app.mode
       /\ Completes(d) =>
            /\ app'.got = app.got + dev.out.got
            /\ app.mode = "cmd" => app'.todo = "download"
            /\ app.mode = "data" =>
                 /\ app'.left = app.left - dev.out.got
                 /\ app'.todo = IF app.left - dev.out.got <= 0 THEN "okay" ELSE "none"
       /\ ~Completes(d) => app' = app
  <2>1. app.mode = "data" => app.left >= dev.out.got BY DEF IInv, DownloadInStep
  <2>2. d.out.got = dev.out.got BY <1>4 DEF SameBulk
  <2>3. CASE Completes(d)
    <3>1. PICK n \in Nat, l \in Nat, t \in {"none", "download", "okay"} :
            /\ n = app.got + dev.out.got
            /\ l = IF app.mode = "data" THEN app.left - dev.out.got ELSE 0
            /\ t = IF app.mode = "cmd" THEN "download"
                   ELSE IF app.left - dev.out.got <= 0 THEN "okay" ELSE "none"
      <4>1. PICK n \in Nat : n = app.got + dev.out.got BY <1>3, <2>2
      <4>2. PICK l \in Nat : l = IF app.mode = "data" THEN app.left - dev.out.got ELSE 0
        BY <1>3, <2>1, <2>2
      <4>3. PICK t \in {"none", "download", "okay"} :
              t = IF app.mode = "cmd" THEN "download"
                  ELSE IF app.left - dev.out.got <= 0 THEN "okay" ELSE "none"
        OBVIOUS
      <4> QED BY <4>1, <4>2, <4>3
    <3>2. app' = [app EXCEPT !.got = n, !.left = l, !.todo = t]
      BY <1>4, <2>2, <2>3, <3>1 DEF RxCallback
    <3>3. app' \in App /\ app'.mode = app.mode /\ app'.got = n /\ app'.left = l /\ app'.todo = t
      BY <1>3, <3>2 DEF App
    <3>4. app.mode = "cmd" => t = "download" BY <3>1
    <3>5. app.mode = "data" =>
            t = IF app.left - dev.out.got <= 0 THEN "okay" ELSE "none"
      BY <3>1
    <3> QED BY <2>3, <3>1, <3>3, <3>4, <3>5
  <2>4. CASE ~Completes(d) BY <1>3, <1>4, <2>4
  <2> QED BY <2>3, <2>4
<1>14. TypeOK'
  <2>1. dev'.out.got <= dev'.out.len /\ dev'.out.len <= DATA_SIZE
    BY <1>4, <1>8 DEF Completed, SameBulk, IInv, TypeOK
  <2> QED BY <1>4, <1>5, <1>8, <1>13, <2>1 DEF IInv, TypeOK, Completed
<1>15. InOrder' BY <1>4, <1>5, <1>11, <1>12 DEF IInv, InOrder, SameCore, Underway
<1>16. Ep0Fits' BY <1>11, <1>12, Ep0Frame DEF IInv, SameEp0
<1>17. OutFits'
  <2>1. CASE Completes(d)
    <3>1. ~dev.out.active BY <1>9, <2>1 DEF IInv, OutFits
    <3> QED BY <1>4, <1>5, <1>7, <1>8, <1>11, <1>12, <2>1, <3>1
            DEF IInv, OutFits, Completed, SameBulk, SameCore
  <2>2. CASE ~Completes(d)
    BY <1>4, <1>5, <1>7, <1>8, <1>9, <1>10, <1>11, <1>12, <2>2
       DEF IInv, OutFits, Completed, SameBulk, SameCore
  <2> QED BY <2>1, <2>2
<1>18. InRuns' BY <1>4, <1>5, <1>8 DEF IInv, InRuns, Completed, SameBulk
<1>19. DownloadInStep'
  <2>1. /\ DataSent' <=> DataSent
        /\ DataComes' <=> DataComes
        /\ dev'.in.msg = dev.in.msg
    BY <1>4, <1>8 DEF DataSent, DataComes, Completed, SameBulk
  <2>2. host.size # 0 BY <1>6 DEF IInv, DownloadInStep
  <2>3. CASE ~Completes(d)
    <3>1. dev'.out.got = dev.out.got /\ app' = app
      BY <1>4, <1>8, <1>13, <2>3 DEF Completed, SameBulk
    <3> QED BY <1>4, <2>1, <2>2, <3>1 DEF IInv, DownloadInStep
  <2>4. CASE Completes(d) /\ app.mode = "cmd"
    <3>1. dev'.out.got = 0 /\ app'.mode = "cmd" /\ app'.todo = "download"
      BY <1>8, <1>13, <2>4 DEF Completed
    <3>2. host.bulk # "data" /\ ~DataSent /\ ~DataComes BY <2>4 DEF IInv, DownloadInStep
    <3> QED BY <1>4, <2>1, <2>2, <3>1, <3>2 DEF IInv, DownloadInStep
  <2>5. CASE Completes(d) /\ app.mode = "data"
    <3>1. /\ dev'.out.got = 0 /\ app'.mode = "data" /\ app'.left = app.left - dev.out.got
          /\ app'.todo = IF app.left - dev.out.got <= 0 THEN "okay" ELSE "none"
      BY <1>8, <1>13, <2>5 DEF Completed
    <3>2. dev.out.got \in Nat /\ app.left >= dev.out.got
      BY <1>3, <1>4, <2>5 DEF IInv, DownloadInStep, SameBulk
    <3>3. DataSent \/ DataComes => host.bulk # "data" /\ app.left >= host.size + dev.out.got
      BY <2>5 DEF IInv, DownloadInStep
    <3>4. host.bulk = "data" => host.left > 0 /\ app.left >= host.left + dev.out.got
      BY DEF IInv, DownloadInStep
    <3>5. DataSent \/ DataComes => app'.todo # "okay" /\ app'.left >= host.size
      BY <1>3, <2>2, <3>1, <3>2, <3>3
    <3>6. host.bulk = "data" => app'.todo # "okay" /\ app'.left >= host.left
      BY <1>3, <3>1, <3>2, <3>4
    <3>7. app'.left >= 0 /\ app'.todo # "download" BY <1>3, <3>1, <3>2
    <3>8. \A n \in Nat : n + dev'.out.got = n BY <3>1
    <3> QED BY <1>3, <1>4, <2>1, <2>2, <3>1, <3>3, <3>4, <3>5, <3>6, <3>7, <3>8
            DEF IInv, DownloadInStep
  <2> QED BY <1>3, <2>3, <2>4, <2>5 DEF App
<1>20. HandledInStep' /\ (hist'.cut \/ Honest')
  <2>1. dev'.out.got \in {dev.out.got, 0} BY <1>4, <1>8 DEF Completed, SameBulk
  <2>2. dev'.live = dev.live /\ dev'.in.mps = dev.in.mps /\ dev'.out.mps = dev.out.mps
    BY <1>4, <1>8 DEF Completed, SameBulk
  <2> QED BY <1>4, <1>5, <1>11, <1>12, <2>1, <2>2, HonestFrame DEF IInv
<1>21. NothingLost'
  <2>1. ~hist.reconf => dev'.out.got = 0 /\ app'.got = app.got + dev.out.got
    BY <1>8, <1>10, <1>13 DEF Completed
  <2> QED BY <1>3, <1>4, <1>5, <2>1 DEF IInv, NothingLost, SameBulk
<1> QED BY <1>14, <1>15, <1>16, <1>17, <1>18, <1>19, <1>20, <1>21 DEF IInv

\* With no event of the control endpoint waiting, the descriptor of its
\* state runs.
LEMMA ReadyFits ==
  ASSUME dev' \in Dev, Ready(dev)', ~Ep0Waits', ~SetupWaits'
  PROVE  Ep0Fits'
<1>1. Ep0Only(Expects(dev))'
  BY Zenon DEF Ep0Only, Ep0Waits
<1>2. Fits(dev)' BY DEF Ready, Fits
<1> QED BY <1>1, <1>2 DEF Ep0Fits, Ready

\* What of the step does not touch the control endpoint.
LEMMA TakenFacts ==
  ASSUME IInv, NEW d, NEW ev, Taken(d, ev), IsEp0(ev) \/ IsNrdy(ev), dev'.events = d.events
  PROVE  /\ dev.events \in Seq(Events) /\ app' = app
         /\ ResetWaits' <=> ResetWaits
         /\ BusWaits' <=> BusWaits
         /\ ConnWaits' <=> ConnWaits
         /\ OutWaits' <=> OutWaits
         /\ SetupWaits <=> SetupWaits' \/ IsSetup(ev)
         /\ Ep0Waits <=> Ep0Waits' \/ IsEp0(ev)
         /\ ResetsConnect' /\ OutsFirst'
         /\ SetupsLast => SetupsLast' /\ (IsSetup(ev) => ~BusWaits)
         /\ SetupsConnected => ~IsSetup(ev) /\ SetupsConnected'
         /\ OutOnce => OutOnce'
         /\ \A x : Ep0Only(x) => Ep0Only(x)' /\ (IsEp0(ev) => ev = x /\ ~Ep0Waits')
<1>1. ~IsReset(ev) /\ ~IsBus(ev) /\ ~IsConn(ev) /\ ~IsOut(ev) /\ ev.ep # "out"
  BY EventKinds DEF Taken
<1>2. dev.events \in Seq(Events) BY DEF IInv, TypeOK, Dev
<1>3. app' = app BY <1>1 DEF Taken
<1>4. dev.events # <<>> /\ dev'.events = Tail(dev.events) /\ ev = Head(dev.events)
  BY DEF Taken
<1> QED BY <1>1, <1>2, <1>3, <1>4, EventTaken DEF IInv, InOrder

\* The driver goes on to the state that follows.
LEMMA PollFollows ==
  ASSUME IInv, NEW d, NEW ev, Taken(d, ev), IsEp0(ev) \/ IsNrdy(ev), dev.st # "IDLE",
         NoDescriptor(dev), IsNrdy(ev) => ~Ep0Waits, dev' = DwUsb3OsHandleEndPoint0(d)
  PROVE  IInv'
<1>1. /\ d \in Dev /\ d.events = Tail(dev.events)
      /\ SameEp0(dev, d) /\ SameBulk(dev, d) /\ SameCore(dev, d)
      /\ snd' = snd /\ host' = host
      /\ hist' \in Hist /\ hist'.cut = hist.cut /\ hist'.lied = hist.lied
      /\ hist'.resets = hist.resets
  BY DEF Taken
<1>2. Follows(d, dev')
  <2>1. /\ d.st # "IDLE" /\ NoDescriptor(d)
        /\ d.st \notin {"IN_STATUS", "OUT_STATUS"} => (d.isIn <=> Ep0Dir(d.st) = "in")
    BY <1>1 DEF SameEp0, NoDescriptor, IInv, Ep0Fits, Fits
  <2> QED BY <1>1, <2>1, HandleFacts
<1>3. /\ dev' \in Dev /\ dev'.events = d.events
      /\ SameBulk(dev, dev') /\ SameCore(dev, dev') /\ dev'.packet = dev.packet
      /\ Ready(dev') /\ dev'.st \notin {"IN_DATA", "OUT_DATA"}
      /\ dev'.stalled <=>
           dev.stalled \/ (dev.st \in {"IN_DATA", "OUT_DATA"} /\ dev.resp = "short")
  BY <1>1, <1>2 DEF Follows, OnlyEp0, SameBulk, SameCore, SameEp0
<1>4. ~SetupWaits BY DEF IInv, Ep0Fits
<1>5. /\ app' = app
      /\ ResetWaits' <=> ResetWaits
      /\ BusWaits' <=> BusWaits
      /\ ConnWaits' <=> ConnWaits
      /\ OutWaits' <=> OutWaits
      /\ ~SetupWaits' /\ ~Ep0Waits' /\ ~IsSetup(ev)
      /\ ResetsConnect' /\ OutsFirst'
      /\ SetupsLast => SetupsLast'
      /\ SetupsConnected => SetupsConnected'
      /\ OutOnce => OutOnce'
  BY <1>3, <1>4, TakenFacts DEF IInv, Ep0Fits
<1>6. ev.trb # "setup" /\ ev.type # "reset"
  BY <1>5, EventKinds DEF Taken
<1>7. hist'.reconf = hist.reconf /\ hist'.strayed = hist.strayed
  BY <1>6 DEF Taken, Configures, IInv, TypeOK, Hist
<1>8. Underway' <=> Underway
  BY <1>1 DEF Underway
<1>9. Handled' <=> Handled
  BY <1>4, <1>5, <1>8 DEF Handled
<1>10. TypeOK' BY <1>1, <1>3, <1>5 DEF IInv, TypeOK, SameBulk
<1>11. InOrder' BY <1>1, <1>3, <1>5, <1>8 DEF IInv, InOrder, SameCore
<1>12. Ep0Fits' BY <1>3, <1>5, ReadyFits DEF Ready
<1>13. OutFits' /\ InRuns' /\ DownloadInStep'
  BY <1>1, <1>3, <1>5, <1>7, BulkFrame DEF SameCore
<1>14. BulkReady' <=> BulkReady BY <1>1, <1>3 DEF BulkReady, SameBulk
<1>15. HandledInStep'
  BY <1>1, <1>3, <1>4, <1>5, <1>7, <1>8, <1>9, <1>14 DEF IInv, HandledInStep, SameBulk
<1>16. hist'.cut \/ Honest'
  <2>1. Handled /\ ~dev.stalled /\ AgreesFinished /\ dev'.stalled => AgreesStalled
    <3>1. Handled /\ ~dev.stalled /\ dev'.stalled => host.req = "setSel"
      BY <1>3 DEF IInv, HandledInStep
    <3>2. host.req = "setSel" => host.req \notin DOMAIN Sets \cup DOMAIN Clears
      BY FeatureRequests
    <3>3. host.req = "setSel" => /\ FinishedAddr(host) = host.addr
                                 /\ FinishedFeat(host) = host.feat
                                 /\ FinishedBulk(host) = host.bulk
      BY <3>2 DEF FinishedAddr, FinishedFeat, FinishedBulk
    <3> QED BY <3>1, <3>3 DEF AgreesFinished, AgreesStalled
  <2>2. AgreesStalled' <=> AgreesStalled BY <1>1, <1>3 DEF AgreesStalled, SameCore
  <2>3. dev'.hw0["in"] # "data" BY <1>3 DEF Ready, Ep0Dir, Ep0Trb, Other
  <2>4. /\ FinishedAddr(host)' = FinishedAddr(host) /\ FinishedFeat(host)' = FinishedFeat(host)
        /\ FinishedBulk(host)' = FinishedBulk(host)
    BY <1>1 DEF FinishedAddr, FinishedFeat, FinishedBulk
  <2>5. \A f : MayHave(host, f)' <=> MayHave(host, f) BY <1>1 DEF MayHave
  <2>6. AgreesFinished => AgreesFinished'
    BY <1>1, <1>3, <2>3, <2>4, <2>5 DEF AgreesFinished, SameCore
  <2>7. ~dev'.stalled => ~dev.stalled BY <1>3
  <2>8. Honest => Honest'
    BY <1>1, <1>3, <1>4, <1>5, <1>9, <2>1, <2>2, <2>6, <2>7 DEF Honest, SameCore
  <2> QED BY <1>1, <2>8 DEF IInv
<1>17. NothingLost' BY <1>1, <1>3, <1>5, <1>7 DEF IInv, NothingLost, SameBulk
<1> QED BY <1>10, <1>11, <1>12, <1>13, <1>15, <1>16, <1>17 DEF IInv

\* The host asks for a stage: the driver starts the status stage if it
\* waits for that.
LEMMA PollNrdy ==
  ASSUME IInv, NEW d, NEW ev, Taken(d, ev), IsNrdy(ev)
  PROVE  IInv'
<1>1. /\ d \in Dev /\ d.events = Tail(dev.events) /\ dev' = Handle(d, ev)
      /\ SameEp0(dev, d) /\ SameBulk(dev, d) /\ SameCore(dev, d)
      /\ snd' = snd /\ host' = host
      /\ hist' \in Hist /\ hist'.cut = hist.cut /\ hist'.lied = hist.lied
      /\ hist'.resets = hist.resets
  BY DEF Taken
<1>2. ev.type = "nrdy" /\ ev.ep # "out" /\ ~IsSetup(ev) /\ ~IsEp0(ev) /\ ev.trb # "setup"
  BY EventKinds DEF Taken
<1>3. dev' = NrdyInterrupt(d, ev) BY <1>1, <1>2 DEF Handle
<1>4. CASE \/ d.st = "IN_WAIT_NRDY" /\ ev.ep = "ep0in"
           \/ d.st = "OUT_WAIT_NRDY" /\ ev.ep = "ep0out"
  <2>1. dev' = DwUsb3OsHandleEndPoint0(d) BY <1>3, <1>4 DEF NrdyInterrupt
  <2>2. dev.st \in {"IN_WAIT_NRDY", "OUT_WAIT_NRDY"} BY <1>1, <1>4 DEF SameEp0
  <2>3. Ep0Trb(dev.st) = "none" BY <2>2 DEF Ep0Trb
  <2>4. ~Ep0Waits BY <2>3 DEF IInv, Ep0Fits
  <2>5. NoDescriptor(dev)
    BY <2>3 DEF IInv, Ep0Fits, Fits, NoDescriptor, Ep0Dir, Other
  <2> QED BY <2>1, <2>2, <2>4, <2>5, PollFollows
<1>5. CASE ~(\/ d.st = "IN_WAIT_NRDY" /\ ev.ep = "ep0in"
             \/ d.st = "OUT_WAIT_NRDY" /\ ev.ep = "ep0out")
  <2>1. dev' = d BY <1>3, <1>5 DEF NrdyInterrupt
  <2>2. /\ app' = app
        /\ ResetWaits' <=> ResetWaits
        /\ BusWaits' <=> BusWaits
        /\ ConnWaits' <=> ConnWaits
        /\ OutWaits' <=> OutWaits
        /\ SetupWaits' <=> SetupWaits
        /\ Ep0Waits' <=> Ep0Waits
        /\ ResetsConnect' /\ OutsFirst'
        /\ SetupsLast => SetupsLast'
        /\ SetupsConnected => SetupsConnected'
        /\ OutOnce => OutOnce'
        /\ \A x : Ep0Only(x) => Ep0Only(x)'
    BY <1>2, <2>1, TakenFacts
  <2>3. hist'.reconf = hist.reconf /\ hist'.strayed = hist.strayed
    BY <1>2 DEF Taken, Configures, IInv, TypeOK, Hist
  <2>4. TypeOK' BY <1>1, <2>1, <2>2 DEF IInv, TypeOK, SameBulk
  <2>5. InOrder' BY <1>1, <2>1, <2>2 DEF IInv, InOrder, SameCore, Underway
  <2>6. Ep0Fits' BY <1>1, <2>1, <2>2, Ep0Frame DEF IInv, SameEp0
  <2>7. OutFits' /\ InRuns' /\ DownloadInStep'
    BY <1>1, <2>1, <2>2, <2>3, BulkFrame DEF SameCore
  <2>8. HandledInStep' /\ (hist'.cut \/ Honest')
    BY <1>1, <2>1, <2>2, <2>3, HonestFrame DEF IInv, SameBulk
  <2>9. NothingLost' BY <1>1, <2>1, <2>2, <2>3 DEF IInv, NothingLost, SameBulk
  <2> QED BY <2>4, <2>5, <2>6, <2>7, <2>8, <2>9 DEF IInv
<1> QED BY <1>4, <1>5

\* A SETUP packet is handled.
SetUp(d, ev) ==
  /\ Taken(d, ev) /\ IsSetup(ev)
  /\ dev.st = "IDLE" /\ ~dev.stalled /\ dev.speed \in Speeds
  /\ dev' \in Dev /\ dev'.events = Tail(dev.events) /\ WasSetUp(d, dev') /\ app' = app
  /\ ~Ep0Waits' /\ ~SetupWaits' /\ SetupWaits
  /\ Underway => ~BusWaits /\ ~ResetWaits /\ ~ConnWaits
  /\ ResetWaits' <=> ResetWaits
  /\ BusWaits' <=> BusWaits
  /\ ConnWaits' <=> ConnWaits
  /\ OutWaits' <=> OutWaits
  /\ ResetsConnect' /\ OutsFirst'
  /\ SetupsLast => SetupsLast'
  /\ SetupsConnected => SetupsConnected'
  /\ OutOnce => OutOnce'
  /\ hist'.reconf <=> hist.reconf \/ (dev.packet = "config" /\ dev.live)
  /\ hist'.strayed <=> hist.strayed \/ (snd.pc = "start" /\ dev.packet = "config")

LEMMA SetUpFacts ==
  ASSUME IInv, NEW d, NEW ev, Taken(d, ev), IsSetup(ev)
  PROVE  SetUp(d, ev)
<1>1. /\ d \in Dev /\ d.events = Tail(dev.events) /\ dev' = Handle(d, ev)
      /\ SameEp0(dev, d) /\ SameBulk(dev, d) /\ SameCore(dev, d)
  BY DEF Taken
<1>2. /\ ev.type = "cmpl" /\ ev.ep # "out" /\ ev.trb = "setup" /\ IsEp0(ev)
      /\ ~IsReset(ev) /\ ~IsBus(ev) /\ ~IsConn(ev) /\ ~IsOut(ev)
  BY EventKinds DEF Taken
<1>3. dev' = DwUsb3OsHandleEndPoint0(d) BY <1>1, <1>2 DEF Handle
<1>4. SetupWaits /\ Ep0Waits /\ (SetupsConnected => ~IsSetup(ev))
  <2>1. dev.events # <<>> /\ ev = Head(dev.events) /\ dev.events \in Seq(Events)
    BY DEF Taken, IInv, TypeOK, Dev
  <2>2. 1 \in Slots /\ At(1) = ev BY <2>1 DEF Slots, At
  <2>3. ~SetupsConnected
    <3>1. SUFFICES ASSUME SetupsConnected PROVE FALSE OBVIOUS
    <3>2. PICK j \in Slots : j < 1 BY <2>2, <3>1 DEF SetupsConnected
    <3>3. j \in Nat /\ j >= 1 BY <2>1 DEF Slots
    <3> QED BY <3>2, <3>3
  <2> QED BY <1>2, <2>2, <2>3 DEF SetupWaits, Ep0Waits
<1>5. dev.st = "IDLE" /\ ~dev.stalled BY <1>4 DEF IInv, Ep0Fits, HandledInStep
<1>6. dev.speed \in Speeds BY <1>4 DEF IInv, InOrder, TypeOK, Dev, SpeedsOrNone
<1>7. NoDescriptor(dev) BY <1>4, <1>5 DEF IInv, Ep0Fits, Fits, NoDescriptor, Ep0Dir, Other
<1>8. WasSetUp(d, dev')
  <2>1. NoDescriptor(d) /\ d.st = "IDLE" /\ ~d.stalled /\ d.speed \in Speeds
    BY <1>1, <1>5, <1>6, <1>7 DEF SameEp0, SameCore, NoDescriptor
  <2> QED BY <1>1, <1>3, <2>1, SetupFacts
<1>9. dev' \in Dev /\ dev'.events = d.events BY <1>8 DEF WasSetUp
<1>10. /\ app' = app
       /\ ResetWaits' <=> ResetWaits
       /\ BusWaits' <=> BusWaits
       /\ ConnWaits' <=> ConnWaits
       /\ OutWaits' <=> OutWaits
       /\ ~Ep0Waits' /\ (SetupWaits' => Ep0Waits')
       /\ ResetsConnect' /\ OutsFirst'
       /\ SetupsLast => SetupsLast' /\ ~BusWaits
       /\ SetupsConnected => SetupsConnected'
       /\ OutOnce => OutOnce'
  <2>1. \A x : IsSetup(x) => IsEp0(x) BY DEF IsSetup, IsEp0, Cmpl
  <2>2. SetupWaits' => Ep0Waits' BY <2>1, Zenon DEF SetupWaits, Ep0Waits
  <2> QED BY <1>2, <1>9, <2>2, TakenFacts DEF IInv, Ep0Fits
<1>11. /\ hist'.reconf <=> hist.reconf \/ (dev.packet = "config" /\ dev.live)
       /\ hist'.strayed <=> hist.strayed \/ (snd.pc = "start" /\ dev.packet = "config")
  BY <1>1, <1>2 DEF Taken, Configures, SameEp0, SameBulk
<1>12. Underway => ~BusWaits /\ ~ResetWaits /\ ~ConnWaits
  BY <1>10 DEF IInv, InOrder
<1> QED BY <1>1, <1>4, <1>5, <1>6, <1>8, <1>9, <1>10, <1>11, <1>12 DEF SetUp

\* The bulk endpoints after it.
LEMMA SetUpBulk ==
  ASSUME IInv, NEW d, NEW ev, SetUp(d, ev)
  PROVE  /\ OutFits' /\ InRuns' /\ DownloadInStep' /\ NothingLost'
         /\ dev'.out.got <= dev'.out.len /\ dev'.out.len <= DATA_SIZE
         /\ host.bulk # "off" => BulkReady'
         /\ Underway /\ host.req = "config" =>
              BulkReady' /\ (hist'.reconf \/ (host.bulk = "off" /\ dev'.out.got = 0))
<1>1. /\ SameEp0(dev, d) /\ SameBulk(dev, d) /\ SameCore(dev, d) /\ WasSetUp(d, dev')
      /\ snd' = snd /\ host' = host /\ app' = app
      /\ d.packet = dev.packet /\ dev'.speed = dev.speed /\ dev.speed \in Speeds
      /\ hist'.resets = hist.resets
  BY DEF SetUp, Taken, SameEp0, SameCore, WasSetUp
<1>2. (Underway => dev.packet = host.req) /\ "unknown" \notin Speeds
  BY SizesAssumption DEF IInv, HandledInStep
<1>3. host.bulk # "off" => dev.live /\ BulkReady /\ dev.speed = host.speed
  BY DEF IInv, InOrder, HandledInStep, BulkReady
<1>4. Underway => dev.speed = host.speed BY DEF IInv, InOrder, SetUp, Underway
<1>5. CASE dev.packet # "config"
  <2>1. SameBulk(dev, dev') BY <1>1, <1>5 DEF WasSetUp, SameBulk
  <2>2. hist'.reconf = hist.reconf /\ hist'.strayed = hist.strayed
    BY <1>5 DEF SetUp, Taken, IInv, TypeOK, Hist
  <2>3. OutFits' /\ InRuns' /\ DownloadInStep'
    BY <1>1, <2>1, <2>2, BulkFrame DEF SetUp
  <2>4. NothingLost' BY <1>1, <2>1, <2>2 DEF IInv, NothingLost, SameBulk
  <2>5. BulkReady' <=> BulkReady BY <1>1, <2>1 DEF BulkReady, SameBulk
  <2>6. dev'.out.got <= dev'.out.len /\ dev'.out.len <= DATA_SIZE
    BY <2>1 DEF IInv, TypeOK, SameBulk
  <2> QED BY <1>2, <1>3, <1>5, <2>3, <2>4, <2>5, <2>6
<1>6. CASE dev.packet = "config"
  <2>1. BulkSetUp(d, dev') BY <1>1, <1>6 DEF WasSetUp
  <2>2. /\ dev'.live
        /\ dev'.refused <=> dev.refused \/ dev.out.active
        /\ dev'.in.active = dev.in.active /\ dev'.in.sent = dev.in.sent
        /\ dev'.in.msg = dev.in.msg /\ dev'.in.mps = dev.speed /\ dev'.out.mps = dev.speed
        /\ dev'.out.started /\ dev'.out.active /\ dev'.out.hwo /\ dev'.out.trb
        /\ dev'.out.got = 0 /\ dev'.out.len \in 1 .. DATA_SIZE
    BY <1>1, <2>1 DEF BulkSetUp, SameBulk, SameCore
  <2>3. DATA_SIZE \in Nat BY SizesAssumption
  <2>4. dev'.out.got < dev'.out.len /\ dev'.out.len <= DATA_SIZE BY <2>2, <2>3
  <2>5. /\ hist'.reconf <=> hist.reconf \/ dev.live
        /\ hist'.strayed <=> hist.strayed \/ snd.pc = "start"
    BY <1>6 DEF SetUp
  <2>6. OutFits'
    BY <1>1, <1>2, <2>2, <2>4, <2>5 DEF IInv, OutFits, SetUp
  <2>7. InRuns' BY <1>1, <2>2, <2>5 DEF IInv, InRuns
  <2>8. DownloadInStep'
    <3>1. /\ DataSent' <=> DataSent
          /\ DataComes' <=> DataComes
      BY <1>1, <2>2 DEF DataSent, DataComes
    <3>2. /\ dev.out.got \in Nat /\ host.size \in Nat /\ host.left \in Nat /\ app.left \in Nat
      BY DEF IInv, TypeOK, Dev, OutEndpoint, Host, App
    <3>3. /\ \A n \in Nat : n + dev'.out.got = n
          /\ host.size + dev.out.got >= host.size /\ host.left + dev.out.got >= host.left
          /\ app.left >= dev'.out.got
      BY <2>2, <3>2
    <3>4. /\ app.mode = "data" /\ (DataSent \/ DataComes) =>
               host.bulk # "data" /\ app.left >= host.size + dev'.out.got
          /\ host.bulk = "data" =>
               host.left > 0 /\ app.mode = "data" /\ app.left >= host.left + dev'.out.got
      <4>1. /\ app.mode = "data" /\ (DataSent \/ DataComes) =>
                 host.bulk # "data" /\ app.left >= host.size + dev.out.got
            /\ host.bulk = "data" =>
                 host.left > 0 /\ app.mode = "data" /\ app.left >= host.left + dev.out.got
        BY DEF IInv, DownloadInStep
      <4> QED BY <3>2, <3>3, <4>1
    <3> QED BY <1>1, <2>2, <3>1, <3>3, <3>4 DEF IInv, DownloadInStep, SetUp
  <2>9. NothingLost' BY <1>1, <1>3, <2>5 DEF NothingLost
  <2>10. host.bulk # "off" \/ Underway => BulkReady' BY <1>1, <1>3, <1>4, <2>2 DEF BulkReady
  <2> QED BY <1>3, <2>2, <2>4, <2>5, <2>6, <2>7, <2>8, <2>9, <2>10
<1> QED BY <1>5, <1>6

\* What the driver does of a request is what the host takes for done.
LEMMA SetUpHonest ==
  ASSUME IInv, NEW d, NEW ev, SetUp(d, ev), Honest
  PROVE  Honest'
<1>1. /\ SameEp0(dev, d) /\ SameCore(dev, d) /\ WasSetUp(d, dev')
      /\ host' = host /\ d.packet = dev.packet /\ dev'.speed = dev.speed
      /\ hist'.lied = hist.lied /\ SetupWaits /\ ~SetupWaits'
  BY DEF SetUp, Taken, SameEp0, SameCore, WasSetUp
<1>2. /\ Underway /\ Underway' /\ ~Handled /\ Handled'
      /\ ~BusWaits /\ ~ResetWaits /\ ~ResetWaits'
  BY <1>1 DEF Honest, Handled, Underway, SetUp
<1>3. /\ dev.addr = host.addr /\ dev.feat = host.feat
      /\ dev.state = "CONFIGURED" <=> host.bulk # "off"
      /\ host.addr = 0 => host.bulk = "off"
      /\ ~hist.lied
  BY <1>2 DEF Honest
<1>4. dev.speed = host.speed /\ dev.packet = host.req /\ (host.req = "address" => host.addr = 0)
  BY <1>2 DEF IInv, InOrder, HandledInStep, SetUp, Underway
<1>5. PICK req \in Requests : req = host.req BY DEF IInv, TypeOK, Host
<1>6. /\ d.packet = req /\ d.addr = host.addr /\ d.feat = host.feat /\ d.speed = host.speed
      /\ d.state = "CONFIGURED" <=> host.bulk # "off"
  BY <1>1, <1>3, <1>4, <1>5 DEF SameCore
<1>7. \A f : Allowed(d, f) <=> MayHave(host, f) BY <1>6 DEF Allowed, MayHave
<1>8. /\ dev'.addr = IF req = "address" THEN 1 ELSE host.addr
      /\ dev'.state = IF req = "config" THEN "CONFIGURED"
                      ELSE IF req \in {"address", "unconfig"} THEN "ADDRESSED" ELSE d.state
      /\ dev'.feat = Left(d)
      /\ dev'.stalled <=> Refuses(d)
      /\ req \in Queries /\ ~dev'.stalled => dev'.answer = Answer(d)
  BY <1>1, <1>6 DEF WasSetUp
<1>9. /\ DOMAIN Sets = {"setU1", "setU2", "setLtm", "haltIn", "haltOut"}
      /\ DOMAIN Clears = {"clearU1", "clearU2", "clearLtm", "clearIn", "clearOut"}
  BY FeatureRequests
<1>10. Refuses(d) => req \notin {"address", "config", "unconfig"}
  BY <1>6, <1>9 DEF Refuses
<1>11. ASSUME Refuses(d) PROVE AgreesStalled'
  <2>1. dev'.addr = host.addr /\ dev'.state = d.state BY <1>8, <1>10, <1>11
  <2>2. dev'.feat = IF req = "badConfig" THEN host.feat \ {"ltm"} ELSE host.feat
    BY <1>6, <1>8, <1>10, <1>11 DEF Left
  <2> QED BY <1>1, <1>5, <1>6, <2>1, <2>2 DEF AgreesStalled
<1>12. ASSUME ~Refuses(d) PROVE AgreesFinished'
  <2>1. FinishedAddr(host)' = FinishedAddr(host) /\ dev'.addr = FinishedAddr(host)
    BY <1>1, <1>5, <1>8 DEF FinishedAddr
  <2>2. FinishedFeat(host)' = FinishedFeat(host) /\ dev'.feat = FinishedFeat(host)
    <3>1. req # "badConfig" BY <1>6, <1>12 DEF Refuses
    <3>2. ((host.feat \ {"in", "out"}) \cup {"configured"}) \ {"ltm"}
            = (host.feat \ {"in", "out", "ltm"}) \cup {"configured"}
      OBVIOUS
    <3>3. Left(d) = FinishedFeat(host)
      BY <1>5, <1>6, <1>9, <1>12, <3>1, <3>2 DEF Left, FinishedFeat
    <3> QED BY <1>1, <1>8, <3>3 DEF FinishedFeat
  <2>3. FinishedBulk(host)' = FinishedBulk(host) BY <1>1 DEF FinishedBulk
  <2>4. dev'.state = "CONFIGURED" <=> FinishedBulk(host) # "off"
    BY <1>3, <1>4, <1>5, <1>6, <1>8 DEF FinishedBulk
  <2>5. req \in Queries => dev'.answer = Expected(host)
    <3>1. Queries = {"getStatus", "statusIn", "statusOut", "getConfig", "getSpeed", "bos"}
      BY DEF Queries
    <3>2. {f \in host.feat \cap SuperOnly : MayHave(host, f)}
            = IF host.speed = "super" /\ host.bulk # "off" THEN host.feat \cap SuperOnly ELSE {}
      BY DEF MayHave
    <3>3. {f \in d.feat \cap SuperOnly : Allowed(d, f)}
            = {f \in host.feat \cap SuperOnly : MayHave(host, f)}
      BY <1>6, <1>7
    <3>4. req \in Queries => Answer(d) = Expected(host)
      BY <1>5, <1>6, <3>1, <3>2, <3>3 DEF Answer, Expected
    <3> QED BY <1>8, <1>12, <3>4
  <2>6. req \in DOMAIN Sets => MayHave(host, Sets[req])
    BY <1>6, <1>7, <1>12 DEF Refuses
  <2>7. Expected(host)' = Expected(host) /\ \A f : MayHave(host, f)' <=> MayHave(host, f)
    BY <1>1 DEF Expected, MayHave
  <2> QED BY <1>1, <1>5, <2>1, <2>2, <2>3, <2>4, <2>5, <2>6, <2>7 DEF AgreesFinished
<1> QED BY <1>1, <1>2, <1>3, <1>8, <1>11, <1>12 DEF Honest

LEMMA PollSetup ==
  ASSUME IInv, NEW d, NEW ev, Taken(d, ev), IsSetup(ev)
  PROVE  IInv'
<1>1. SetUp(d, ev) BY SetUpFacts
<1>2. /\ SameEp0(dev, d) /\ SameCore(dev, d) /\ WasSetUp(d, dev') /\ dev' \in Dev
      /\ snd' = snd /\ host' = host /\ app' = app
      /\ hist' \in Hist /\ hist'.cut = hist.cut /\ hist'.resets = hist.resets
  BY <1>1 DEF SetUp, Taken
<1>3. /\ OutFits' /\ InRuns' /\ DownloadInStep' /\ NothingLost'
      /\ dev'.out.got <= dev'.out.len /\ dev'.out.len <= DATA_SIZE
      /\ host.bulk # "off" => BulkReady'
      /\ Underway /\ host.req = "config" =>
           BulkReady' /\ (hist'.reconf \/ (host.bulk = "off" /\ dev'.out.got = 0))
  BY <1>1, SetUpBulk
<1>4. (Underway' <=> Underway) /\ (Handled' <=> Underway)
  BY <1>1, <1>2 DEF Underway, Handled, SetUp
<1>5. TypeOK' BY <1>2, <1>3 DEF IInv, TypeOK
<1>6. InOrder'
  <2>1. dev'.speed = dev.speed BY <1>2 DEF WasSetUp, SameCore
  <2> QED BY <1>1, <1>2, <1>4, <2>1 DEF IInv, InOrder, SetUp
<1>7. Ep0Fits'
  <2>1. Ready(dev)' BY <1>2 DEF WasSetUp, Ready
  <2> QED BY <1>1, <1>2, <2>1, ReadyFits DEF SetUp
<1>8. HandledInStep'
  <2>1. dev'.packet = dev.packet /\ (dev'.st \in {"IN_DATA", "OUT_DATA"} => dev'.resp = "ok")
    BY <1>2 DEF WasSetUp, SameEp0
  <2>2. Underway \/ host.bulk # "off" => ~BusWaits'
    BY <1>1 DEF SetUp, IInv, HandledInStep
  <2> QED BY <1>1, <1>2, <1>3, <1>4, <2>1, <2>2 DEF IInv, HandledInStep, SetUp
<1>9. hist'.cut \/ Honest' BY <1>1, <1>2, SetUpHonest DEF IInv
<1> QED BY <1>3, <1>5, <1>6, <1>7, <1>8, <1>9 DEF IInv

\* The completion of a data or status stage.
LEMMA PollEp0 ==
  ASSUME IInv, NEW d, NEW ev, Taken(d, ev), IsEp0(ev), ~IsSetup(ev)
  PROVE  IInv'
<1>1. ev.type = "cmpl" /\ ev.ep # "out" BY EventKinds DEF Taken
<1>2. dev' = DwUsb3OsHandleEndPoint0(d) BY <1>1 DEF Taken, Handle
<1>3. dev.events # <<>> /\ ev = Head(dev.events) /\ dev.events \in Seq(Events)
  BY DEF Taken, IInv, TypeOK, Dev
<1>4. 1 \in Slots /\ At(1) = ev BY <1>3 DEF Slots, At
<1>5. Ep0Waits /\ ev = Expects(dev)
  BY <1>4 DEF IInv, Ep0Fits, Ep0Only, Ep0Waits
<1>6. dev.st # "IDLE"
  BY <1>5 DEF Expects, Ep0Dir, Ep0Trb, Ep0Of, IsSetup
<1>7. NoDescriptor(dev)
  BY <1>5 DEF IInv, Ep0Fits, Fits, NoDescriptor, Ep0Dir, Other
<1>8. ~IsNrdy(ev) BY <1>1 DEF IsNrdy
<1> QED BY <1>2, <1>6, <1>7, <1>8, PollFollows

LEMMA PollKeeps ==
  ASSUME IInv, DwUsb3Poll
  PROVE  IInv'
<1>1. PICK d, ev : Taken(d, ev) BY PollFacts
<1>2. IsReset(ev) \/ IsConn(ev) \/ IsNrdy(ev) \/ IsEp0(ev) \/ IsOut(ev)
  BY <1>1, EventKinds DEF Taken
<1> QED BY <1>1, <1>2, PollReset, PollConnect, PollNrdy, PollOut, PollSetup, PollEp0

(* --------------------------------- theorems ---------------------------- *)

\* The driver as DwUsb3Start leaves it, with the values the initial state of
\* the host and the application is compared to.
Started(d) ==
  /\ d \in Dev /\ d.events = <<>> /\ d.st = "IDLE" /\ ~d.stalled
  /\ d.hw0["out"] = "setup" /\ d.hw0["in"] = "none"
  /\ d.addr = 0 /\ d.state = "UNCONNECTED" /\ d.speed = "unknown" /\ d.feat = {"in", "out"}
  /\ ~d.live /\ ~d.refused /\ d.resp = "ok"
  /\ ~d.out.active /\ ~d.out.hwo /\ d.out.len = 0 /\ d.out.got = 0
  /\ ~d.in.active /\ ~d.in.started /\ ~d.in.hwo /\ d.in.sent = {}

LEMMA DriverStarts ==
  Started(DwUsb3Init(DriverInit))
<1>1. PICK o : o = [started |-> FALSE, active |-> FALSE, hwo |-> FALSE, mps |-> "unknown",
                    trb |-> FALSE, len |-> 0, got |-> 0]
  OBVIOUS
<1>2. PICK i : i = [started |-> FALSE, active |-> FALSE, hwo |-> FALSE, mps |-> "unknown",
                    msg |-> "DATA", sent |-> {}]
  OBVIOUS
<1>3. o \in OutEndpoint BY <1>1 DEF OutEndpoint, SpeedsOrNone
<1>4. i \in InEndpoint BY <1>2 DEF InEndpoint, SpeedsOrNone, Messages
<1>5. PICK c : c = [DriverInit EXCEPT !.addr = 0, !.events = <<>>] OBVIOUS
<1>6. c = [st |-> "IDLE", isIn |-> FALSE, stalled |-> FALSE, nrdy |-> {},
           hw0 |-> [out |-> "none", in |-> "none"], resp |-> "ok",
           packet |-> "get", addr |-> 0, state |-> "UNCONNECTED",
           speed |-> "unknown", events |-> <<>>, dataBufferSize |-> 0,
           live |-> FALSE, refused |-> FALSE, feat |-> {"in", "out"}, answer |-> {},
           out |-> o, in |-> i]
  BY <1>1, <1>2, <1>5 DEF DriverInit
<1>7. c \in Dev
  <2>1. /\ "IDLE" \in States /\ {"none", "setup"} \subseteq Descriptors /\ "ok" \in Responses
        /\ "UNCONNECTED" \in DeviceStates /\ "unknown" \in SpeedsOrNone
    BY DEF States, Descriptors, Responses, DeviceStates, SpeedsOrNone
  <2>2. "get" \in Requests BY DEF Requests
  <2>3. {"in", "out"} \in SUBSET Features BY DEF Features
  <2>4. <<>> \in Seq(Events) OBVIOUS
  <2> QED BY <1>3, <1>4, <1>6, <2>1, <2>2, <2>3, <2>4 DEF Dev
<1>8. DwUsb3Init(DriverInit) = Start0(c, "out", "setup") BY <1>5 DEF DwUsb3Init, DwUsb3Ep0OutStart
<1>9. PICK e : e = Start0(c, "out", "setup") OBVIOUS
<1>10. Started0(c, "out", "setup", e)
  <2>1. "setup" \in Descriptors BY DEF Descriptors
  <2> QED BY <1>7, <1>9, <2>1, Start0Facts
<1>11. /\ c.hw0["out"] = "none" /\ c.hw0["in"] = "none"
       /\ c.st = "IDLE" /\ c.stalled = FALSE /\ c.events = <<>> /\ c.addr = 0
       /\ c.state = "UNCONNECTED" /\ c.speed = "unknown" /\ c.feat = {"in", "out"}
       /\ c.live = FALSE /\ c.refused = FALSE /\ c.out = o /\ c.in = i
  BY <1>6
<1>12. e.out = o /\ e.in = i BY <1>10, <1>11 DEF Started0, OnlyEp0, SameBulk
<1>13. /\ e \in Dev /\ e.events = <<>> /\ e.st = "IDLE" /\ ~e.stalled
       /\ e.hw0["out"] = "setup" /\ e.hw0["in"] = "none"
       /\ e.addr = 0 /\ e.state = "UNCONNECTED" /\ e.speed = "unknown" /\ e.feat = {"in", "out"}
       /\ ~e.live /\ ~e.refused /\ e.resp = "ok"
  BY <1>10, <1>11 DEF Started0, OnlyEp0, SameBulk, SameCore
<1>14. /\ ~e.out.active /\ ~e.out.hwo /\ e.out.len = 0 /\ e.out.got = 0
       /\ ~e.in.active /\ ~e.in.started /\ ~e.in.hwo /\ e.in.sent = {}
  BY <1>1, <1>2, <1>12
<1> QED BY <1>8, <1>9, <1>13, <1>14 DEF Started

LEMMA InitHolds ==
  ASSUME Init
  PROVE  IInv
<1>1. Started(dev) BY DriverStarts DEF Init
<1>2. Slots = {} BY <1>1 DEF Started, Slots
<1>3. /\ ~ResetWaits /\ ~BusWaits /\ ~SetupWaits /\ ~OutWaits /\ ~ConnWaits /\ ~Ep0Waits
      /\ ResetsConnect /\ OutsFirst /\ SetupsLast /\ SetupsConnected /\ OutOnce
      /\ Ep0Only(Expects(dev))
  BY <1>2 DEF ResetWaits, BusWaits, SetupWaits, OutWaits, ConnWaits, Ep0Waits, ResetsConnect,
              OutsFirst, SetupsLast, SetupsConnected, OutOnce, Ep0Only
<1>4. PICK tpl \in {"application", "callback"} : snd = [pc |-> "idle", msg |-> "DATA", tpl |-> tpl]
  BY DEF Init
<1>5. PICK s \in Speeds :
        host = [stage |-> "idle", req |-> "get", addr |-> 0, bulk |-> "off",
                size |-> 0, left |-> 0, sent |-> 0, speed |-> s, feat |-> {"in", "out"}]
  <2>1. (CHOOSE s \in Speeds : TRUE) \in Speeds BY SizesAssumption
  <2> QED BY <2>1 DEF Init
<1>6. PICK b \in Scenarios :
        hist = [bound |-> b, resets |-> 0, requests |-> 0, aborts |-> 0,
                downloads |-> 0, timeouts |-> 0, cut |-> FALSE,
                reconf |-> FALSE, strayed |-> FALSE, lied |-> FALSE]
  BY DEF Init
<1>7. app = [mode |-> "cmd", todo |-> "none", left |-> 0, got |-> 0] BY DEF Init
<1>8. TypeOK
  <2>1. "get" \in Requests BY DEF Requests
  <2>2. {"in", "out"} \in SUBSET Features BY DEF Features
  <2>3. host \in Host BY <1>5, <2>1, <2>2 DEF Host, Stages, BulkStages
  <2>4. snd \in Snd BY <1>4 DEF Snd, Messages
  <2>5. app \in App BY <1>7 DEF App
  <2>6. hist \in Hist BY <1>6 DEF Hist
  <2>7. 0 <= DATA_SIZE /\ DATA_SIZE \in Nat BY SizesAssumption
  <2> QED BY <1>1, <2>3, <2>4, <2>5, <2>6, <2>7 DEF TypeOK, Started
<1>9. ~Underway /\ ~Handled BY <1>5 DEF Underway, Handled
<1>10. InOrder BY <1>3, <1>5, <1>6, <1>9 DEF InOrder
<1>11. Ep0Fits
  BY <1>1, <1>3 DEF Started, Ep0Fits, Fits, Ep0Dir, Ep0Trb, Other
<1>12. OutFits BY <1>1, <1>3, <1>6 DEF Started, OutFits
<1>13. InRuns BY <1>1, <1>4 DEF Started, InRuns
<1>14. DownloadInStep
  BY <1>1, <1>3, <1>4, <1>5, <1>7 DEF Started, DownloadInStep, DataSent, DataComes
<1>15. HandledInStep BY <1>3, <1>5, <1>9 DEF HandledInStep
<1>16. Honest BY <1>1, <1>3, <1>5, <1>6, <1>9 DEF Honest, Started
<1>17. NothingLost BY <1>5 DEF NothingLost
<1> QED BY <1>8, <1>10, <1>11, <1>12, <1>13, <1>14, <1>15, <1>16, <1>17 DEF IInv

LEMMA StepKeeps ==
  ASSUME IInv, [Next]_vars
  PROVE  IInv'
<1>1. CASE UNCHANGED vars
  <2>1. UNCHANGED <<dev, snd, app, host, hist>> BY <1>1 DEF vars
  <2>2. (BulkInStep /\ Ep0InStep /\ StatusIsHonest /\ NothingLost)'
    <3>1. BulkInStep /\ Ep0InStep /\ StatusIsHonest /\ NothingLost BY Parts
    <3>2. BulkInStep' BY <2>1, <3>1
            DEF BulkInStep, TypeOK, EventsInOrder, ReceiveNeverDeaf, NeverRefused, OutRuns, InRuns,
                DownloadInStep, DataSent, DataComes, OutWaits, Slots, At, Underway
    <3>3. Ep0InStep' BY <2>1, <3>1 DEF Ep0InStep, OneDescriptor, SetupWaits, Slots, At
    <3>4. StatusIsHonest' BY <2>1, <3>1
            DEF StatusIsHonest, RequestsAreDone, HandledInStep, HostAgrees, BulkReady, Handled,
                Underway, SetupWaits, ResetWaits, BusWaits, Slots, At, Agrees
    <3>5. NothingLost' BY <2>1, <3>1 DEF NothingLost
    <3> QED BY <3>2, <3>3, <3>4, <3>5
  <2>3. (BulkInStep /\ Ep0InStep /\ StatusIsHonest /\ NothingLost => IInv)' BY Parts, PTL
  <2> QED BY <2>2, <2>3
<1>2. CASE DwUsb3Poll BY <1>2, PollKeeps
<1>3. CASE Send
  BY <1>3, SendFillKeeps, SendStartKeeps, SendDoneKeeps, SendTimeoutKeeps DEF Send
<1>4. CASE Application BY <1>4, AppDownloadKeeps, AppOkayKeeps DEF Application
<1>5. CASE HostBulk BY <1>5, HostCommandKeeps, HostPacketKeeps, HostReadKeeps DEF HostBulk
<1>6. CASE HostControl
  BY <1>6, SetupArrivesKeeps, SetupPendsKeeps, ControlStageKeeps DEF HostControl
<1>7. CASE HostReset BY <1>7, HostResetKeeps
<1>8. CASE HostSetup BY <1>8, HostSetupKeeps
<1>9. CASE HostAbort BY <1>9, HostAbortKeeps
<1>10. CASE StaleNrdy BY <1>10, StaleNrdyKeeps
<1> QED BY <1>1, <1>2, <1>3, <1>4, <1>5, <1>6, <1>7, <1>8, <1>9, <1>10 DEF Next

\* The four invariants of the run are one inductive invariant: whatever the
\* host resets, aborts, asks for or downloads, and whenever a Send times out.
LEMMA Invariant ==
  Spec => []IInv
<1>1. Init => IInv BY InitHolds
<1>2. IInv /\ [Next]_vars => IInv' BY StepKeeps
<1> QED BY <1>1, <1>2, PTL DEF Spec

\* The bulk endpoints: once the device is configured the OUT endpoint has a
\* transfer the controller owns or a completion that arms the next one, no
\* transfer is started twice, no transfer is longer than gRxBuf, and host,
\* driver and application agree on where a download is.
THEOREM BulkCorrect ==
  Spec => []BulkInStep
<1>1. IInv => BulkInStep BY Parts
<1> QED BY <1>1, Invariant, PTL

\* The control endpoint is idle exactly when its SETUP descriptor is armed or
\* a SETUP waits to be handled, and otherwise has the one descriptor of its
\* state: the device answers the next control transfer after any abort.
THEOREM Ep0Correct ==
  Spec => []Ep0InStep
<1>1. IInv => Ep0InStep BY Parts
<1> QED BY <1>1, Invariant, PTL

\* A control request the host saw succeed has been done, and what the driver
\* answers is what the requests before left, across bus resets.
THEOREM HonestCorrect ==
  Spec => []StatusIsHonest
<1>1. IInv => StatusIsHonest BY Parts
<1> QED BY <1>1, Invariant, PTL

\* Every byte the host has sent since it configured the device is in the armed
\* buffer or has gone to the application, over all chunks of a download.
THEOREM NothingLostCorrect ==
  Spec => []NothingLost
<1>1. IInv => NothingLost BY Parts
<1> QED BY <1>1, Invariant, PTL
=============================================================================
