------------------------ MODULE DwMmcPassThru_proofs ------------------------
(***************************************************************************)
(* Proofs about DwMmcPassThru, for every set of requests, priority level,  *)
(* card and number of starts: SafetyInv is an inductive invariant, and the *)
(* driver implements AsyncPassThru step by step.                           *)
(*                                                                         *)
(* The lemmas follow the invariant's parts, each assuming the earlier      *)
(* ones: types and control (ControlInv), the queue and the clients         *)
(* (MapInv), one call at a time (QueueInv), the bus (Bus), the order of    *)
(* answers, the DMA engine (Dma), and the errors of the card (Faults).     *)
(***************************************************************************)
EXTENDS DwMmcPassThru, SequenceTheorems, TLAPS

\* Request queues and the records made of them: sequences that grow at the
\* tail, shrink at the head and are concatenated, the set of their
\* elements, and sequences without duplicates.

\* Taking the head off a queue leaves a shorter queue of the same elements.
LEMMA HeadTailType ==
  ASSUME NEW S, NEW q \in Seq(S), q # <<>>
  PROVE  Head(q) \in S /\ Tail(q) \in Seq(S)
  BY HeadTailProperties

\* Appending to a queue that has a head leaves it its head.
LEMMA HeadAppend ==
  ASSUME NEW S, NEW q \in Seq(S), NEW e \in S
  PROVE  Append(q, e) # <<>> /\ (q # <<>> => Head(Append(q, e)) = Head(q))
  BY AppendProperties

\* A request moved from the front of the queue to the end of the record of
\* signalled ones leaves their concatenation as it was.
LEMMA MoveHead ==
  ASSUME NEW S, NEW p \in Seq(S), NEW q \in Seq(S), q # <<>>
  PROVE  Append(p, Head(q)) \o Tail(q) = p \o q
<1>1. Head(q) \in S /\ Tail(q) \in Seq(S) BY HeadTailType
<1>2. q = <<Head(q)>> \o Tail(q) BY <1>1
<1>3. Append(p, Head(q)) = p \o <<Head(q)>> BY <1>1
<1>4. (p \o <<Head(q)>>) \o Tail(q) = p \o (<<Head(q)>> \o Tail(q)) BY <1>1
<1> QED BY <1>2, <1>3, <1>4

\* An element appended to the second of two sequences ends both.
LEMMA AppendConcat ==
  ASSUME NEW S, NEW p \in Seq(S), NEW q \in Seq(S), NEW e \in S
  PROVE  p \o Append(q, e) = Append(p \o q, e) /\ Append(q, e) \in Seq(S)
  OBVIOUS

\* The elements of a sequence, by their place.
LEMMA ElementOf ==
  ASSUME NEW S, NEW q \in Seq(S), NEW i \in 1 .. Len(q)
  PROVE  q[i] \in S /\ q[i] \in Range(q)
  BY DEF Range

\* The concatenation, place by place.
LEMMA ConcatAsFunction ==
  ASSUME NEW S, NEW p \in Seq(S), NEW q \in Seq(S)
  PROVE  p \o q = [i \in 1 .. Len(p) + Len(q) |-> IF i <= Len(p) THEN p[i] ELSE q[i - Len(p)]]
<1> DEFINE c == p \o q
<1>1. c \in Seq(S) /\ Len(c) = Len(p) + Len(q) OBVIOUS
<1>2. \A i \in 1 .. Len(p) + Len(q) : c[i] = IF i <= Len(p) THEN p[i] ELSE q[i - Len(p)]
  BY ConcatProperties
<1>3. c = [i \in 1 .. Len(c) |-> c[i]]
  <2> HIDE DEF c
  <2> QED BY <1>1
<1>4. c = [i \in 1 .. Len(p) + Len(q) |-> c[i]]
  <2> HIDE DEF c
  <2> QED BY <1>1, <1>3
<1>5. c = [i \in 1 .. Len(p) + Len(q) |-> IF i <= Len(p) THEN p[i] ELSE q[i - Len(p)]]
  <2> HIDE DEF c
  <2> QED BY <1>4, <1>2
<1> QED BY <1>5

\* The elements of a sequence are of its type.
LEMMA RangeType ==
  ASSUME NEW S, NEW q \in Seq(S)
  PROVE  Range(q) \subseteq S
  BY DEF Range

\* What InsertTailList does to the set of queued elements.
LEMMA RangeAppend ==
  ASSUME NEW S, NEW q \in Seq(S), NEW e \in S
  PROVE  Range(Append(q, e)) = Range(q) \cup {e}
<1>1. /\ DOMAIN Append(q, e) = DOMAIN q \cup {Len(q) + 1}
      /\ \A i \in DOMAIN q : Append(q, e)[i] = q[i]
      /\ Append(q, e)[Len(q) + 1] = e
  OBVIOUS
<1> QED BY <1>1 DEF Range

\* The elements of a concatenation are those of its parts.
LEMMA RangeConcat ==
  ASSUME NEW S, NEW p \in Seq(S), NEW q \in Seq(S)
  PROVE  Range(p \o q) = Range(p) \cup Range(q)
<1>1. /\ \A i \in DOMAIN p : i \in DOMAIN (p \o q) /\ (p \o q)[i] = p[i]
      /\ \A i \in DOMAIN q : Len(p) + i \in DOMAIN (p \o q) /\ (p \o q)[Len(p) + i] = q[i]
  OBVIOUS
<1>2. ASSUME NEW k \in DOMAIN (p \o q)
      PROVE  (p \o q)[k] \in Range(p) \cup Range(q)
  <2>1. CASE k <= Len(p) BY <2>1 DEF Range
  <2>2. CASE k > Len(p)
    <3>1. k - Len(p) \in DOMAIN q /\ (p \o q)[k] = q[k - Len(p)] BY <2>2
    <3> QED BY <3>1 DEF Range
  <2> QED BY <2>1, <2>2
<1>3. Range(p \o q) \subseteq Range(p) \cup Range(q) BY <1>2 DEF Range
<1>4. Range(p) \subseteq Range(p \o q)
  <2> SUFFICES ASSUME NEW x \in Range(p) PROVE x \in Range(p \o q) OBVIOUS
  <2>1. PICK i \in DOMAIN p : p[i] = x BY DEF Range
  <2>2. i \in DOMAIN (p \o q) /\ (p \o q)[i] = x BY <1>1, <2>1
  <2> QED BY <2>2 DEF Range
<1>5. Range(q) \subseteq Range(p \o q)
  <2> SUFFICES ASSUME NEW x \in Range(q) PROVE x \in Range(p \o q) OBVIOUS
  <2>1. PICK i \in DOMAIN q : q[i] = x BY DEF Range
  <2>2. Len(p) + i \in DOMAIN (p \o q) /\ (p \o q)[Len(p) + i] = x BY <1>1, <2>1
  <2> QED BY <2>2 DEF Range
<1> QED BY <1>3, <1>4, <1>5

\* The elements of a queue are its head and those of its tail.
LEMMA RangeHead ==
  ASSUME NEW S, NEW q \in Seq(S), q # <<>>
  PROVE  Range(q) = {Head(q)} \cup Range(Tail(q))
<1>1. Head(q) \in S /\ Tail(q) \in Seq(S) BY HeadTailType
<1>2. q = <<Head(q)>> \o Tail(q) BY <1>1
<1>3. <<Head(q)>> \in Seq(S) /\ Range(<<Head(q)>>) = {Head(q)} BY <1>1 DEF Range
<1>4. \A a, b \in Seq(S) : Range(a \o b) = Range(a) \cup Range(b) BY RangeConcat
<1>5. Range(<<Head(q)>> \o Tail(q)) = Range(<<Head(q)>>) \cup Range(Tail(q))
  BY <1>1, <1>3, <1>4
<1> QED BY <1>2, <1>3, <1>5

\* No element occurs twice.
Distinct(q) == \A i, j \in DOMAIN q : q[i] = q[j] => i = j

\* A new element at the tail leaves a sequence without duplicates.
LEMMA DistinctAppend ==
  ASSUME NEW S, NEW q \in Seq(S), NEW e \in S, Distinct(q), e \notin Range(q)
  PROVE  Distinct(Append(q, e))
  BY DEF Distinct, Range

\* The two parts of a queue without duplicates have none, and are disjoint.
LEMMA DistinctParts ==
  ASSUME NEW S, NEW p \in Seq(S), NEW q \in Seq(S), Distinct(p \o q)
  PROVE  Distinct(p) /\ Distinct(q) /\ Range(p) \cap Range(q) = {}
<1>1. /\ \A i \in DOMAIN p : i \in DOMAIN (p \o q) /\ (p \o q)[i] = p[i]
      /\ \A i \in DOMAIN q : Len(p) + i \in DOMAIN (p \o q) /\ (p \o q)[Len(p) + i] = q[i]
  OBVIOUS
<1>2. Distinct(p) BY <1>1 DEF Distinct
<1>3. Distinct(q)
  <2> SUFFICES ASSUME NEW i \in DOMAIN q, NEW j \in DOMAIN q, q[i] = q[j] PROVE i = j
    BY DEF Distinct
  <2>1. Len(p) + i = Len(p) + j BY <1>1 DEF Distinct
  <2> QED BY <2>1
<1>4. ASSUME NEW i \in DOMAIN p, NEW j \in DOMAIN q PROVE p[i] # q[j]
  <2>1. i # Len(p) + j OBVIOUS
  <2> QED BY <1>1, <2>1 DEF Distinct
<1> QED BY <1>2, <1>3, <1>4 DEF Range

\* The head of a queue without duplicates is not in its tail.
LEMMA DistinctHead ==
  ASSUME NEW S, NEW q \in Seq(S), q # <<>>, Distinct(q)
  PROVE  Head(q) \notin Range(Tail(q))
<1>1. Head(q) \in S /\ Tail(q) \in Seq(S) BY HeadTailType
<1>2. q = <<Head(q)>> \o Tail(q) BY <1>1
<1>3. <<Head(q)>> \in Seq(S) /\ Range(<<Head(q)>>) = {Head(q)} BY <1>1 DEF Range
<1> QED BY <1>1, <1>2, <1>3, DistinctParts

USE DwAssumption

(* --- Types --- *)
\* Every status a request may have.
Status == Final \cup {"none", "issued"}

\* The head of the queue is a request, and so is the rest of the queue.
LEMMA HeadType ==
  ASSUME TypeOK, queue # <<>>
  PROVE  Head(queue) \in AsyncReq /\ Tail(queue) \in Seq(AsyncReq) /\ Head(queue) \in Req
  BY HeadTailType DEF TypeOK, TrbType

\* The ways a call or the timer may end leave the types as they are.
LEMMA ReturnType ==
  ASSUME TypeOK, NEW th \in {"App", "Cb"}, cur[th] \in Req, NEW st \in Final, Return(th, st)
  PROVE  TrbType' /\ LogType' /\ pc' \in [Thread -> Label] /\ cur' \in [Thread -> Req \cup {None}]
  BY DEF TypeOK, TrbType, LogType, ThreadType, Return, Goto, Thread, Label

LEMMA AnswerHeadType ==
  ASSUME TypeOK, queue # <<>>, NEW st \in Final, AnswerHead(st)
  PROVE  TrbType' /\ LogType'
<1>1. Head(queue) \in AsyncReq /\ Tail(queue) \in Seq(AsyncReq) /\ Head(queue) \in Req
  BY HeadType
<1>2. TrbType' BY <1>1 DEF TypeOK, TrbType, AnswerHead
<1>3. \A q \in Seq(AsyncReq), e \in AsyncReq : Append(q, e) \in Seq(AsyncReq) BY AppendConcat
<1>4. LogType' BY <1>1, <1>3 DEF TypeOK, LogType, AnswerHead
<1> QED BY <1>2, <1>4

LEMMA FinishType ==
  ASSUME TypeOK, ControlInv, NEW th \in Thread, pc[th] \in Running, NEW st \in Final,
         Finish(th, st)
  PROVE  TrbType' /\ LogType' /\ pc' \in [Thread -> Label] /\ cur' \in [Thread -> Req \cup {None}]
<1>1. CASE th = "Tick"
  <2>1. queue # <<>> BY <1>1 DEF ControlInv, TickControl, Running
  <2>2. TrbType' /\ LogType' BY <1>1, <2>1, AnswerHeadType DEF Finish
  <2> QED BY <1>1, <2>2 DEF TypeOK, ThreadType, Finish, Goto, Thread, Label
<1>2. CASE th # "Tick"
  <2>1. th \in {"App", "Cb"} BY <1>2 DEF Thread
  <2>2. cur[th] \in Req
    BY <2>1 DEF ControlInv, CallControl, Running, TypeOK, ThreadType, Thread
  <2> QED BY <1>2, <2>1, <2>2, ReturnType DEF Finish
<1> QED BY <1>1, <1>2

LEMMA SignalAllType ==
  ASSUME TypeOK, NEW st \in Final, SignalAll(st)
  PROVE  TrbType' /\ LogType'
<1>1. signalled \o queue \in Seq(AsyncReq) BY DEF TypeOK, TrbType, LogType
<1>2. TrbType' BY DEF TypeOK, TrbType, SignalAll
<1>3. LogType' BY <1>1 DEF TypeOK, LogType, SignalAll
<1> QED BY <1>2, <1>3

\* What the execution of a TRB does besides answering it.
LEMMA ExecuteShape ==
  ASSUME NEW th \in Thread, Execute(th)
  PROVE  /\ pc[th] \in Running /\ CanRun(th) /\ UNCHANGED <<drvVars, cardVars, shared, nested>>
         /\ \/ /\ UNCHANGED <<trbVars, cur, logVars>>
               /\ pc' = pc \/ \E l \in Running : pc' = [pc EXCEPT ![th] = l]
            \/ \E st \in {"SUCCESS", "DEVICE_ERROR"} : Finish(th, st)
  BY DEF Execute, ExecClear, ExecCommand, ExecDone, ExecOver, CheckTrbResult, ReadFifo,
         ReadFifoEnd, At, Goto, Running, thrVars, dmaVars, hisVars, lineVars

LEMMA ExecuteType ==
  ASSUME TypeOK, ControlInv, NEW th \in Thread, Execute(th)
  PROVE  TypeOK'
<1>1. DriverType' BY ExecuteShape DEF drvVars, cardVars, TypeOK, DriverType
<1>2. pc[th] \in Running BY ExecuteShape
<1>3. TrbType' /\ LogType' /\ pc' \in [Thread -> Label] /\ cur' \in [Thread -> Req \cup {None}]
  <2>1. CASE \E st \in {"SUCCESS", "DEVICE_ERROR"} : Finish(th, st)
    BY <1>2, <2>1, FinishType DEF Final, Failure
  <2>2. CASE UNCHANGED <<trbVars, cur, logVars>>
             /\ (pc' = pc \/ \E l \in Running : pc' = [pc EXCEPT ![th] = l])
    BY <2>2 DEF trbVars, logVars, TypeOK, TrbType, LogType, ThreadType, Running, Label, Thread
  <2> QED BY <2>1, <2>2, ExecuteShape
<1>4. cur[th] \in Req
  BY <1>2, HeadType DEF ControlInv, CallControl, TickControl, Running, TypeOK, ThreadType, Thread
<1>5. received' \subseteq Thread /\ LineType' /\ DmaType' /\ HistoryType'
  BY <1>4 DEF Execute, ExecClear, ExecCommand, ExecDone, ExecOver, CheckTrbResult, ReadFifo,
     ReadFifoEnd, lineVars, dmaVars, hisVars, TypeOK, ThreadType, LineType, DmaType, HistoryType,
     Bits
<1> QED BY <1>1, <1>3, <1>5 DEF TypeOK, ThreadType

\* A call does not work on its TRB before it has one.
LEMMA CallType ==
  ASSUME TypeOK, ControlInv, NEW th \in {"App", "Cb"}, Call(th)
  PROVE  TypeOK'
<1>1. CASE CreateTrb(th)
  BY <1>1 DEF CreateTrb, BuildDmaDescTable, At, Goto, TypeOK, DriverType, TrbType, ThreadType,
     LineType, DmaType, LogType, HistoryType, drvVars, lineVars, cardVars, logVars, dmaVars, Label,
     Thread
<1>2. CASE CreateTrbFails(th)
  <2>1. cur[th] \in Req
    BY <1>2 DEF CreateTrbFails, At, ControlInv, CallControl, TypeOK, ThreadType, Thread
  <2>2. Return(th, "OUT_OF_RESOURCES") /\ "OUT_OF_RESOURCES" \in Final
    BY <1>2 DEF CreateTrbFails, Final, Failure
  <2>3. TrbType' /\ LogType' /\ pc' \in [Thread -> Label] /\ cur' \in [Thread -> Req \cup {None}]
    BY <2>1, <2>2, ReturnType
  <2>4. received' \subseteq Thread /\ LineType' /\ DmaType' /\ HistoryType' /\ DriverType'
    BY <1>2, <2>1 DEF CreateTrbFails, BuildDmaDescTable, TypeOK, DriverType, ThreadType,
       LineType, DmaType, HistoryType, drvVars, lineVars, cardVars, dmaVars
  <2> QED BY <2>3, <2>4 DEF TypeOK, ThreadType
<1>3. CASE InsertTrb(th)
  <2>1. cur[th] \in AsyncReq BY <1>3 DEF InsertTrb, At, ControlInv, CallControl
  <2>2. \A q \in Seq(AsyncReq), e \in AsyncReq : Append(q, e) \in Seq(AsyncReq) BY AppendConcat
  <2>3. TrbType' /\ LogType'
    BY <1>3, <2>1, <2>2 DEF InsertTrb, InsertTail, TypeOK, TrbType, LogType
  <2>4. ThreadType' BY <1>3 DEF InsertTrb, Goto, TypeOK, ThreadType, Label, Thread
  <2> QED BY <1>3, <2>3, <2>4 DEF InsertTrb, TypeOK, DriverType, LineType, DmaType, HistoryType,
       drvVars, lineVars, cardVars, dmaVars, hisVars
<1>4. CASE WaitQueueEmpty(th)
  BY <1>4 DEF WaitQueueEmpty, At, Goto, TypeOK, DriverType, TrbType, ThreadType, LineType,
     DmaType, LogType, HistoryType, drvVars, trbVars, lineVars, dmaVars, cardVars, logVars,
     hisVars, Label
<1>5. CASE Execute(th) BY <1>5, ExecuteType DEF Thread
<1> QED BY <1>1, <1>2, <1>3, <1>4, <1>5 DEF Call

LEMMA BindingType ==
  ASSUME TypeOK, ControlInv, Binding
  PROVE  TypeOK'
<1>1. CASE Start
  <2>1. DriverType'
    <3>1. driver' \in {driver, "started", "stuck"} BY <1>1 DEF Start
    <3>2. media' \in BOOLEAN BY <1>1, Zenon DEF Start, TypeOK, DriverType
    <3>3. starts' \in Nat BY <1>1 DEF Start, TypeOK, DriverType
    <3>4. UNCHANGED <<stopNext, cardIn, card>> BY <1>1 DEF Start, cardVars
    <3>5. driver' \in {"stopped", "started", "stopping", "stuck"} BY <3>1 DEF TypeOK, DriverType
    <3>6. stopNext' \in AsyncReq \cup {None} /\ cardIn' \in BOOLEAN /\ card' \in Cards
      BY <3>4, Zenon DEF TypeOK, DriverType
    <3> QED BY <3>2, <3>3, <3>5, <3>6, Zenon DEF DriverType
  <2>2. UNCHANGED <<lineVars, dmaVars>> \/ HcReset BY <1>1 DEF Start
  <2>3. LineType' /\ DmaType' BY <2>2 DEF HcReset, TypeOK, LineType, DmaType, lineVars, dmaVars
  <2> QED BY <1>1, <2>1, <2>3 DEF Start, TypeOK, TrbType, ThreadType, LogType, HistoryType,
       trbVars, thrVars, logVars, hisVars
<1>2. CASE Stop
  <2>1. stopNext' \in AsyncReq \cup {None} BY <1>2, HeadType DEF Stop
  <2> QED BY <1>2, <2>1 DEF Stop, Goto, TypeOK, DriverType, TrbType, ThreadType, LineType,
       DmaType, LogType, HistoryType, trbVars, lineVars, dmaVars, cardVars, logVars, hisVars,
       Label
<1>3. CASE StopAbort
  <2>1. queue # <<>> BY <1>3 DEF StopAbort, At, ControlInv, StopControl
  <2>2. TrbType' /\ LogType' BY <1>3, <2>1, AnswerHeadType DEF StopAbort, Final, Failure
  <2>3. Second(queue) \in AsyncReq \cup {None}
    <3>1. queue \in Seq(AsyncReq) BY DEF TypeOK, TrbType
    <3> QED BY <3>1 DEF Second
  <2> QED BY <1>3, <2>2, <2>3 DEF StopAbort, TypeOK, DriverType, ThreadType, LineType, DmaType,
       HistoryType, thrVars, lineVars, dmaVars, cardVars, hisVars
<1>4. CASE StopFree
  <2>1. queue' \in Seq(AsyncReq) /\ Range(queue) \subseteq AsyncReq
    BY <1>4, RangeType DEF StopFree, TypeOK, TrbType
  <2> QED BY <1>4, <2>1 DEF StopFree, Goto, TypeOK, DriverType, TrbType, ThreadType, LineType,
       DmaType, LogType, HistoryType, lineVars, dmaVars, cardVars, hisVars, Label
<1> QED BY <1>1, <1>2, <1>3, <1>4 DEF Binding

LEMMA TypeNext ==
  ASSUME TypeOK, ControlInv, [Next]_vars
  PROVE  TypeOK'
<1>1. CASE Timer
  <2>1. CASE TickStart
    <3>1. Head(queue) \in Req BY <2>1, HeadType DEF TickStart
    <3> QED BY <2>1, <3>1 DEF TickStart, Goto, TypeOK, DriverType, TrbType, ThreadType, LineType,
         DmaType, LogType, HistoryType, drvVars, trbVars, lineVars, dmaVars, cardVars, logVars,
         hisVars, Label
  <2> QED BY <1>1, <2>1, ExecuteType DEF Timer, Thread
<1>2. CASE Binding BY <1>2, BindingType
<1>3. CASE ResetDevice
  <2>1. TrbType' /\ LogType' BY <1>3, SignalAllType DEF ResetDevice, Final, Failure
  <2> QED BY <1>3, <2>1 DEF ResetDevice, TypeOK, DriverType, ThreadType, LineType, DmaType,
       HistoryType, drvVars, thrVars, lineVars, dmaVars, cardVars, hisVars
<1>4. CASE Controller
  <2>1. HwFrame BY <1>4 DEF Controller, HwCommand, HwCommandError, HwData, HwDataError
  <2>2. DriverType' /\ TrbType' /\ ThreadType' /\ LogType'
    BY <2>1 DEF HwFrame, TypeOK, DriverType, TrbType, ThreadType, LogType, drvVars, trbVars,
       thrVars, cardVars, logVars
  <2>3. CASE HwCommand \/ HwCommandError
    BY <2>1, <2>2, <2>3 DEF HwFrame, HwCommand, HwCommandError, TypeOK, LineType, DmaType,
       HistoryType, Bits
  <2>4. CASE HwData
    <3>1. LineType' /\ DmaType' BY <2>1, <2>4 DEF HwFrame, HwData, TypeOK, LineType, DmaType, Bits
    <3>2. HistoryType' BY <2>1, <2>4 DEF HwFrame, HwData, TypeOK, LineType, DmaType, HistoryType
    <3> QED BY <2>2, <3>1, <3>2 DEF TypeOK
  <2>5. CASE HwDataError
    BY <2>1, <2>2, <2>5 DEF HwFrame, HwDataError, TypeOK, LineType, DmaType, HistoryType, Bits
  <2> QED BY <1>4, <2>3, <2>4, <2>5 DEF Controller
<1>5. ASSUME NEW th \in {"App", "Cb"}, Call(th) PROVE TypeOK' BY <1>5, CallType
<1>6. ASSUME NEW th \in {"App", "Cb"}, NEW r \in LevelReq(th), Submit(th, r) PROVE TypeOK'
  <2>1. r \in Req BY DEF LevelReq
  <2>2. ThreadType' BY <1>6, <2>1 DEF Submit, Goto, TypeOK, ThreadType, Label, Thread
  <2>3. LogType' BY <1>6, <2>1 DEF Submit, SlotStatus, TypeOK, LogType, Final, Failure
  <2>4. HistoryType' BY <1>6 DEF Submit, TypeOK, HistoryType
  <2> QED BY <1>6, <2>2, <2>3, <2>4 DEF Submit, TypeOK, DriverType, TrbType, LineType, DmaType,
       drvVars, trbVars, lineVars, dmaVars, cardVars
<1>7. CASE UNCHANGED vars
  BY <1>7 DEF vars, TypeOK, DriverType, TrbType, ThreadType, LineType, DmaType, LogType,
     HistoryType, drvVars, trbVars, thrVars, lineVars, dmaVars, cardVars, logVars, hisVars
<1> QED BY <1>1, <1>2, <1>3, <1>4, <1>5, <1>6, <1>7 DEF Next

(* --- The control state --- *)
\* Nothing a thread does while a thread above it is at work.
LEMMA Preemption ==
  /\ CanRun("App") <=> pc["Cb"] = "idle" /\ pc["Tick"] = "idle"
  /\ CanRun("Cb") <=> pc["Tick"] = "idle"
  /\ CanRun("Tick")
  BY DEF CanRun, Above

\* The other threads, and the driver, are left alone by the execution of a TRB.
LEMMA ExecuteControl ==
  ASSUME TypeOK, ControlInv, NEW th \in Thread, Execute(th)
  PROVE  ControlInv'
<1>1. /\ pc[th] \in Running /\ CanRun(th) /\ UNCHANGED <<driver, stopNext, card>>
  BY ExecuteShape DEF drvVars, cardVars
<1>2. CASE UNCHANGED <<trbVars, cur, logVars>>
           /\ (pc' = pc \/ \E l \in Running : pc' = [pc EXCEPT ![th] = l])
  <2>1. CallControl' /\ TickControl' /\ StopControl'
    BY <1>1, <1>2 DEF ControlInv, CallControl, TickControl, StopControl, Running, trbVars,
       TypeOK, ThreadType, Thread, Installed, Label
  <2>2. ExecControl'
    BY <1>1, <1>2 DEF ControlInv, ExecControl, Execute, ExecClear, ExecCommand, ExecDone, ExecOver,
       CheckTrbResult, ReadFifo, ReadFifoEnd, Finish, Return, At, Goto, Emmc, TypeOK, ThreadType,
       Thread, Running
  <2> QED BY <2>1, <2>2 DEF ControlInv
<1>3. CASE \E st \in {"SUCCESS", "DEVICE_ERROR"} : Finish(th, st)
  <2>1. CASE th = "Tick"
    BY <1>1, <1>3, <2>1 DEF Finish, AnswerHead, Goto, ControlInv, CallControl, TickControl,
       StopControl, ExecControl, Emmc, Running, TypeOK, ThreadType, Thread, Installed
  <2>2. CASE th # "Tick"
    BY <1>1, <1>3, <2>2, Preemption DEF Finish, Return, Goto, ControlInv, CallControl,
       TickControl, StopControl, ExecControl, Emmc, Running, TypeOK, ThreadType, Thread, Installed
  <2> QED BY <2>1, <2>2
<1> QED BY <1>2, <1>3, ExecuteShape

LEMMA CallsControl ==
  ASSUME TypeOK, ControlInv, NEW th \in {"App", "Cb"}, Call(th)
  PROVE  ControlInv'
<1>1. CASE Execute(th) BY <1>1, ExecuteControl DEF Thread
<1>2. CASE CreateTrb(th) \/ CreateTrbFails(th) \/ InsertTrb(th) \/ WaitQueueEmpty(th)
  <2>1. /\ pc \in [Thread -> Label] /\ cur \in [Thread -> Req \cup {None}] /\ th \in Thread
    BY DEF TypeOK, ThreadType, Thread
  <2>2. pc[th] \in {"create", "insert", "waitq"} /\ pc["Tick"] = "idle"
    BY <1>2, Preemption DEF CreateTrb, CreateTrbFails, InsertTrb, WaitQueueEmpty, At
  <2>3. UNCHANGED <<driver, stopNext, card>>
    BY <1>2 DEF CreateTrb, CreateTrbFails, InsertTrb, WaitQueueEmpty, drvVars, cardVars
  <2>4. queue' = queue \/ queue' = Append(queue, cur[th])
    BY <1>2 DEF CreateTrb, CreateTrbFails, InsertTrb, InsertTail, WaitQueueEmpty, Return, trbVars
  <2>5. \/ pc' = [pc EXCEPT ![th] = "idle"] /\ cur' = [cur EXCEPT ![th] = None]
        \/ /\ cur' = cur /\ pc[th] \in {"create", "waitq"}
           /\ IF pc[th] = "create" /\ cur[th] \in AsyncReq
                THEN pc' = [pc EXCEPT ![th] = "insert"]
                ELSE \E l \in {"waitq", "exec"} : pc' = [pc EXCEPT ![th] = l]
    BY <1>2 DEF CreateTrb, CreateTrbFails, InsertTrb, WaitQueueEmpty, Return, Goto, At, ControlInv,
       CallControl
  <2>6. cur[th] \in Req /\ Installed
    BY <2>1, <2>2 DEF ControlInv, CallControl, StopControl
  <2>7. CallControl'
    <3>1. CASE pc' = [pc EXCEPT ![th] = "idle"] /\ cur' = [cur EXCEPT ![th] = None]
      BY <2>1, <3>1 DEF ControlInv, CallControl, Running, Thread
    <3>2. CASE cur' = cur /\ cur[th] \in AsyncReq /\ pc' = [pc EXCEPT ![th] = "insert"]
      BY <2>1, <2>2, <3>2 DEF ControlInv, CallControl, Running, Thread
    <3>3. CASE cur' = cur /\ cur[th] \notin AsyncReq
               /\ \E l \in {"waitq", "exec"} : pc' = [pc EXCEPT ![th] = l]
      BY <2>1, <2>2, <3>3 DEF ControlInv, CallControl, Running, Thread
    <3>4. pc[th] = "waitq" => cur[th] \notin AsyncReq BY DEF ControlInv, CallControl
    <3> QED BY <2>5, <3>1, <3>2, <3>3, <3>4
  <2>8. TickControl'
    <3>1. pc'["Tick"] = pc["Tick"] /\ cur'["Tick"] = cur["Tick"]
      <4>1. th # "Tick" OBVIOUS
      <4>2. pc'["Tick"] = pc["Tick"]
        <5>1. \A l : [pc EXCEPT ![th] = l]["Tick"] = pc["Tick"] BY <2>1, <4>1 DEF Thread
        <5> QED BY <2>5, <5>1
      <4>3. cur'["Tick"] = cur["Tick"] BY <2>1, <2>5, <4>1 DEF Thread
      <4> QED BY <4>2, <4>3
    <3> QED BY <2>2, <3>1 DEF ControlInv, TickControl
  <2>9. queue # <<>> => queue' # <<>>
    <3>1. \A q \in Seq(Req), e \in Req : Append(q, e) # <<>> BY HeadAppend
    <3>2. queue \in Seq(Req) BY DEF TypeOK, TrbType
    <3> QED BY <2>4, <2>6, <3>1, <3>2
  <2>10. pc'["App"] = "stop" <=> pc["App"] = "stop"
    <3>1. \A l \in Label \ {"stop"} : [pc EXCEPT ![th] = l]["App"] = "stop" <=> pc["App"] = "stop"
      BY <2>1, <2>2 DEF Thread
    <3> QED BY <2>5, <3>1 DEF Label
  <2>11. StopControl'
    BY <2>3, <2>6, <2>9, <2>10 DEF ControlInv, StopControl, Installed
  <2>12. ExecControl' BY <2>1, <2>3, <2>5 DEF ControlInv, ExecControl, Emmc
  <2> QED BY <2>7, <2>8, <2>11, <2>12 DEF ControlInv
<1> QED BY <1>1, <1>2 DEF Call

LEMMA BindingControl ==
  ASSUME TypeOK, ControlInv, Binding
  PROVE  ControlInv'
<1>1. CASE Start
  BY <1>1, Preemption DEF Start, At, ControlInv, CallControl, TickControl, StopControl, ExecControl, Emmc,
     Installed, Running, trbVars, thrVars, cardVars, Thread, TypeOK, DriverType
<1>2. CASE Stop
  <2>1. Head(queue) = None => queue = <<>> BY HeadType
  <2> QED BY <1>2, <2>1, Preemption DEF Stop, At, Goto, ControlInv, CallControl, TickControl, StopControl,
       ExecControl, Emmc, Installed, Running, trbVars, cardVars, Thread, TypeOK, ThreadType
<1>3. CASE StopAbort
  <2>1. /\ queue # <<>> /\ pc["Tick"] = "idle" /\ driver = "stopping"
    BY <1>3, Preemption DEF StopAbort, At, ControlInv, StopControl
  <2>2. Second(queue) # None => Tail(queue) # <<>>
    <3>1. queue \in Seq(AsyncReq) BY DEF TypeOK, TrbType
    <3>2. ASSUME Tail(queue) = <<>> PROVE Len(queue) = 1
      <4>1. Len(Tail(queue)) = Len(queue) - 1 /\ Len(queue) \in Nat
        BY <2>1, <3>1, HeadTailProperties
      <4>2. Len(<<>>) = 0 OBVIOUS
      <4>3. Len(Tail(queue)) = 0
        <5>1. Len(Tail(queue)) = Len(<<>>) BY <3>2
        <5> QED BY <5>1, <4>2
      <4> QED BY <4>1, <4>3
    <3> QED BY <3>2 DEF Second
  <2> QED BY <1>3, <2>1, <2>2 DEF StopAbort, AnswerHead, ControlInv, CallControl, TickControl,
       StopControl, ExecControl, Emmc, Installed, thrVars, cardVars, Thread
<1>4. CASE StopFree
  BY <1>4, Preemption DEF StopFree, At, Goto, ControlInv, CallControl, TickControl, StopControl,
     ExecControl, Emmc, Installed, Running, cardVars, Thread, TypeOK, ThreadType
<1> QED BY <1>1, <1>2, <1>3, <1>4 DEF Binding

LEMMA ControlNext ==
  ASSUME TypeOK, ControlInv, [Next]_vars
  PROVE  ControlInv'
<1>1. CASE TickStart
  BY <1>1 DEF TickStart, Goto, ControlInv, CallControl, TickControl, StopControl, ExecControl, Emmc,
     Installed, Running, drvVars, trbVars, cardVars, Thread, TypeOK, ThreadType
<1>2. CASE Execute("Tick") BY <1>2, ExecuteControl DEF Thread
<1>3. CASE Binding BY <1>3, BindingControl
<1>4. CASE ResetDevice
  BY <1>4, Preemption DEF ResetDevice, SignalAll, At, ControlInv, CallControl, TickControl,
     StopControl, ExecControl, Emmc, Installed, drvVars, thrVars, cardVars, Thread
<1>5. CASE Controller \/ UNCHANGED vars
  BY <1>5 DEF Controller, HwCommand, HwCommandError, HwData, HwDataError, HwFrame, vars,
     ControlInv, CallControl, TickControl, StopControl, ExecControl, Emmc, Installed, drvVars,
     trbVars, thrVars, cardVars
<1>6. ASSUME NEW th \in {"App", "Cb"}, Call(th) PROVE ControlInv' BY <1>6, CallsControl
<1>7. ASSUME NEW th \in {"App", "Cb"}, NEW r \in LevelReq(th), Submit(th, r) PROVE ControlInv'
  <2>1. r \in Req BY DEF LevelReq
  <2> QED BY <1>7, <2>1, Preemption DEF Submit, At, Goto, ControlInv, CallControl, TickControl,
       StopControl, ExecControl, Emmc, Installed, Running, drvVars, trbVars, cardVars, Thread,
       TypeOK, ThreadType
<1> QED BY <1>1, <1>2, <1>3, <1>4, <1>5, <1>6, <1>7 DEF Next, Timer

(* --- Who works on what: callers, queue and record of answers --- *)
Clients == TypeOK /\ ControlInv /\ AnsweredInOrder /\ CallerInv /\ QueuedOnce

\* What the record of accepted requests says of queue and answers.
LEMMA QueueFacts ==
  ASSUME Clients
  PROVE  /\ queue \in Seq(AsyncReq) /\ signalled \in Seq(AsyncReq) /\ accepted \in Seq(AsyncReq)
         /\ Range(accepted) = Range(signalled) \cup Range(queue)
         /\ Distinct(signalled) /\ Distinct(queue) /\ Distinct(accepted)
         /\ Range(signalled) \cap Range(queue) = {}
         /\ Range(queue) \subseteq AsyncReq /\ Range(signalled) \subseteq AsyncReq
<1>1. queue \in Seq(AsyncReq) /\ signalled \in Seq(AsyncReq) /\ accepted \in Seq(AsyncReq)
  BY DEF Clients, TypeOK, TrbType, LogType
<1>2. accepted = signalled \o queue BY DEF Clients, AnsweredInOrder
<1>3. Distinct(accepted) BY DEF Clients, QueuedOnce, Distinct
<1> QED BY <1>1, <1>2, <1>3, RangeConcat, DistinctParts, RangeType

\* What the head of a queue without duplicates and the rest of it are.
LEMMA HeadFacts ==
  ASSUME Clients, queue # <<>>
  PROVE  /\ Head(queue) \in AsyncReq /\ Tail(queue) \in Seq(AsyncReq)
         /\ Range(queue) = {Head(queue)} \cup Range(Tail(queue))
         /\ Head(queue) \notin Range(Tail(queue)) /\ Head(queue) \notin Range(signalled)
<1>1. queue \in Seq(AsyncReq) /\ Distinct(queue) /\ Range(signalled) \cap Range(queue) = {}
  BY QueueFacts
<1>2. Range(queue) = {Head(queue)} \cup Range(Tail(queue)) BY <1>1, RangeHead
<1> QED BY <1>1, <1>2, HeadTailType, DistinctHead

\* A call works on a TRB that is neither queued nor that of the other call.
LEMMA CallFacts ==
  ASSUME Clients
  PROVE  /\ \A th \in {"App", "Cb"} : cur[th] \in Req \cup {None} /\ cur[th] \notin Range(queue)
         /\ cur["App"] = cur["Cb"] => cur["App"] = None
<1>1. Range(queue) \subseteq AsyncReq /\ Range(queue) \subseteq Range(accepted)
  BY QueueFacts
<1>2. \A th \in {"App", "Cb"} : cur[th] \in Req \cup {None}
  BY DEF Clients, TypeOK, ThreadType, Thread
<1>3. \A th \in {"App", "Cb"} : cur[th] \notin Range(queue)
  BY <1>1 DEF Clients, CallerInv
<1>4. cur["App"] = cur["Cb"] => cur["App"] = None
  BY <1>2 DEF Clients, CallerInv, LevelReq
<1> QED BY <1>2, <1>3, <1>4

LEMMA AnswerHeadClients ==
  ASSUME Clients, queue # <<>>, NEW st \in Final, AnswerHead(st),
         \A th \in {"App", "Cb"} : cur'[th] = cur[th]
  PROVE  CallerInv' /\ QueuedOnce'
<1>1. /\ Head(queue) \in AsyncReq /\ Tail(queue) \in Seq(AsyncReq)
      /\ Range(queue) = {Head(queue)} \cup Range(Tail(queue))
      /\ Head(queue) \notin Range(Tail(queue)) /\ Head(queue) \notin Range(signalled)
  BY HeadFacts
<1>2. status \in [Req -> Status] BY DEF Clients, TypeOK, LogType, Status
<1>3. /\ status'[Head(queue)] = st
      /\ \A r \in Req \ {Head(queue)} : status'[r] = status[r]
  BY <1>1, <1>2 DEF AnswerHead
<1>4. CallerInv'
  BY <1>1, <1>3, CallFacts DEF Clients, CallerInv, AnswerHead, LevelReq
<1>5. Range(signalled') = Range(signalled) \cup {Head(queue)}
  BY <1>1, RangeAppend, QueueFacts DEF AnswerHead
<1>6. \A r \in Range(queue') : status'[r] = "issued"
  BY <1>1, <1>3 DEF AnswerHead, Clients, QueuedOnce
<1>7. \A r \in Range(signalled') : status'[r] \in Final
  <2>1. Range(signalled) \subseteq AsyncReq BY QueueFacts
  <2> QED BY <1>1, <1>3, <1>5, <2>1 DEF AnswerHead, Clients, QueuedOnce
<1> QED BY <1>4, <1>6, <1>7 DEF AnswerHead, Clients, QueuedOnce

LEMMA SignalAllClients ==
  ASSUME Clients, NEW st \in Final, SignalAll(st), UNCHANGED cur
  PROVE  CallerInv' /\ QueuedOnce'
<1>1. \A r \in Req : status'[r] = IF r \in Range(queue) THEN st ELSE status[r]
  BY DEF SignalAll
<1>2. CallerInv'
  BY <1>1, CallFacts DEF Clients, CallerInv, SignalAll, LevelReq
<1>3. Range(signalled') = Range(signalled) \cup Range(queue)
  BY QueueFacts, RangeConcat DEF SignalAll
<1>4. Range(signalled) \subseteq AsyncReq /\ Range(queue) \subseteq AsyncReq
  BY QueueFacts
<1>5. \A r \in Range(signalled') : status'[r] \in Final
  BY <1>1, <1>3, <1>4 DEF Clients, QueuedOnce
<1>6. Range(queue') = {} BY DEF SignalAll, Range
<1> QED BY <1>2, <1>5, <1>6 DEF SignalAll, Clients, QueuedOnce

(* --- The mappings --- *)
MapInv == Clients /\ MappingsMatchRequests

LEMMA AnswerHeadMappings ==
  ASSUME MapInv, queue # <<>>, NEW st \in Final, AnswerHead(st), UNCHANGED card,
         cur'["Tick"] = None,
         \A th \in {"App", "Cb"} : pc'[th] = pc[th] /\ cur'[th] = cur[th]
  PROVE  MappingsMatchRequests'
<1>1. Clients BY DEF MapInv
<1>2. /\ Range(queue) = {Head(queue)} \cup Range(Tail(queue))
      /\ Head(queue) \notin Range(Tail(queue)) /\ Head(queue) \in AsyncReq
  BY <1>1, HeadFacts
<1>3. \A th \in {"App", "Cb"} : cur[th] # Head(queue)
  BY <1>1, <1>2, CallFacts
<1>4. queue' = Tail(queue) /\ mapped' = mapped \ {Head(queue)}
  BY DEF AnswerHead
<1>5. /\ status \in [Req -> Status] /\ mapped \subseteq DatReq
  BY <1>1 DEF Clients, TypeOK, LogType, TrbType, Status
<1>6. \A r \in Req \ {Head(queue)} : status'[r] = status[r] BY <1>5 DEF AnswerHead
<1> QED BY <1>2, <1>3, <1>4, <1>5, <1>6 DEF MapInv, MappingsMatchRequests, Thread, Emmc

LEMMA SignalAllMappings ==
  ASSUME MapInv, NEW st, SignalAll(st), UNCHANGED <<cur, card>>, cur["Tick"] = None,
         \A th \in {"App", "Cb"} : pc'[th] = pc[th]
  PROVE  MappingsMatchRequests'
<1>1. Clients BY DEF MapInv
<1>2. \A th \in {"App", "Cb"} : cur[th] \notin Range(queue)
  BY <1>1, CallFacts
<1>3. /\ queue' = <<>> /\ mapped' = mapped \ Range(queue)
      /\ \A r \in Req \ Range(queue) : status'[r] = status[r]
  BY DEF SignalAll
<1>4. Range(queue') = {} BY <1>3 DEF Range
<1>5. mapped \subseteq DatReq BY <1>1 DEF Clients, TypeOK, TrbType
<1> QED BY <1>2, <1>3, <1>4, <1>5 DEF MapInv, MappingsMatchRequests, Thread, Emmc

(* --- The steps that touch the clients' variables, and those that do not --- *)
\* A call loses its TRB only when it ends, and the timer takes the queue's head.
ClientsKept ==
  /\ UNCHANGED <<queue, mapped, logVars, card>>
  /\ \A th \in {"App", "Cb"} : cur'[th] = cur[th] /\ (pc[th] = "create" => pc'[th] = "create")
  /\ cur'["Tick"] \in {cur["Tick"], None} \cup Range(queue)
  /\ cur'["Tick"] \in Req => pc["Tick"] # "create"

LEMMA ClientFrame ==
  ASSUME MapInv, ClientsKept
  PROVE  CallerInv' /\ QueuedOnce' /\ MappingsMatchRequests'
<1>1. CallerInv' /\ QueuedOnce'
  BY DEF MapInv, Clients, CallerInv, QueuedOnce, LevelReq, logVars, ClientsKept
<1>2. MappingsMatchRequests'
  <2> SUFFICES ASSUME card = "emmc"
               PROVE  \A th \in Thread : cur'[th] \in DatReq /\ pc'[th] # "create" => cur'[th] \in mapped
    BY DEF MapInv, MappingsMatchRequests, logVars, ClientsKept, Emmc
  <2>1. ASSUME NEW th \in {"App", "Cb"}, cur'[th] \in DatReq, pc'[th] # "create"
        PROVE  cur'[th] \in mapped
    BY <2>1 DEF MapInv, MappingsMatchRequests, ClientsKept, Emmc, Thread
  <2>2. cur'["Tick"] \in DatReq => cur'["Tick"] \in mapped
    BY DEF MapInv, MappingsMatchRequests, ClientsKept, Emmc, Thread
  <2> QED BY <2>1, <2>2 DEF Thread
<1> QED BY <1>1, <1>2

LEMMA SubmitClients ==
  ASSUME MapInv, NEW th \in {"App", "Cb"}, NEW r \in LevelReq(th), Submit(th, r)
  PROVE  CallerInv' /\ QueuedOnce' /\ MappingsMatchRequests'
<1>1. Clients BY DEF MapInv
<1>2. r \in Req /\ status[r] = "none" BY DEF Submit, LevelReq
<1>3. r \notin Range(accepted)
  <2>1. Range(accepted) = Range(signalled) \cup Range(queue) BY <1>1, QueueFacts
  <2>2. "none" \notin Final /\ "none" # "issued" BY DEF Final, Failure
  <2> QED BY <1>2, <2>1, <2>2 DEF MapInv, Clients, QueuedOnce
<1>4. /\ status \in [Req -> Status] /\ cur \in [Thread -> Req \cup {None}] /\ pc \in [Thread -> Label]
      /\ mapped \subseteq DatReq
  BY DEF MapInv, Clients, TypeOK, LogType, ThreadType, TrbType, Status
<1>5. UNCHANGED <<accepted, queue, signalled, mapped, lost, card>> BY DEF Submit, trbVars, cardVars
<1>6. \A q \in Req \ {r} : status'[q] = status[q] BY <1>4 DEF Submit
<1>7. QueuedOnce'
  <2>1. Range(accepted) = Range(signalled) \cup Range(queue) /\ Range(accepted) \subseteq Req
    BY <1>1, QueueFacts, RangeType
  <2> QED BY <1>3, <1>5, <1>6, <2>1 DEF MapInv, Clients, QueuedOnce
<1>8. r \notin mapped \/ card # "emmc"
  BY <1>2 DEF MapInv, MappingsMatchRequests, Emmc
<1>9. CASE SlotStatus = "SUCCESS"
  <2>1. status' = [status EXCEPT ![r] = "issued"] /\ cur' = [cur EXCEPT ![th] = r]
        /\ pc' = [pc EXCEPT ![th] = "create"]
    BY <1>9 DEF Submit, Goto
  <2>2. CallerInv'
    BY <1>2, <1>3, <1>4, <1>5, <2>1 DEF MapInv, Clients, CallerInv, LevelReq, Thread
  <2>3. MappingsMatchRequests'
    BY <1>4, <1>5, <1>6, <1>8, <2>1 DEF MapInv, MappingsMatchRequests, Thread, Emmc
  <2> QED BY <1>7, <2>2, <2>3
<1>10. CASE SlotStatus # "SUCCESS"
  <2>1. status' = [status EXCEPT ![r] = SlotStatus] /\ UNCHANGED <<pc, cur>>
    BY <1>10 DEF Submit
  <2>2. CallerInv'
    BY <1>2, <1>4, <1>5, <2>1 DEF MapInv, Clients, CallerInv, LevelReq, Thread
  <2>3. MappingsMatchRequests'
    BY <1>4, <1>5, <1>6, <1>8, <2>1 DEF MapInv, MappingsMatchRequests, Emmc
  <2> QED BY <1>7, <2>2, <2>3
<1> QED BY <1>9, <1>10

\* A call that returns has its status, and gives its TRB and the mapping up.
LEMMA ReturnClients ==
  ASSUME MapInv, NEW th \in {"App", "Cb"}, NEW st \in Final, Return(th, st), cur[th] \in Req,
         UNCHANGED card
  PROVE  CallerInv' /\ QueuedOnce' /\ MappingsMatchRequests'
<1>1. Clients BY DEF MapInv
<1>3. /\ status \in [Req -> Status] /\ cur \in [Thread -> Req \cup {None}] /\ pc \in [Thread -> Label]
      /\ mapped \subseteq DatReq
  BY DEF MapInv, Clients, TypeOK, LogType, ThreadType, TrbType, Status
<1>4. UNCHANGED <<accepted, queue, signalled, lost>> /\ mapped' = mapped \ {cur[th]} BY DEF Return
<1>5. cur' = [cur EXCEPT ![th] = None] BY DEF Return
<1>6. \A u \in Thread \ {th} : pc'[u] = pc[u]
  BY <1>3 DEF Return, Goto
<1>7. /\ \A q \in Req \ {cur[th]} : status'[q] = status[q]
      /\ cur[th] \notin Range(accepted)
  BY <1>3 DEF Return, MapInv, Clients, CallerInv
<1>8. QueuedOnce'
  <2>1. Range(accepted) = Range(signalled) \cup Range(queue) /\ Range(accepted) \subseteq Req
    BY <1>1, QueueFacts, RangeType
  <2> QED BY <1>4, <1>7, <2>1 DEF MapInv, Clients, QueuedOnce
<1>9. CallerInv'
  <2> SUFFICES ASSUME NEW u \in {"App", "Cb"}, cur'[u] \in Req
               PROVE  /\ cur'[u] \in LevelReq(u) /\ status'[cur'[u]] = "issued"
                      /\ cur'[u] \notin Range(accepted')
    BY DEF CallerInv, LevelReq
  <2>1. u # th /\ cur'[u] = cur[u] BY <1>3, <1>5 DEF Thread
  <2>2. cur[u] # cur[th] BY <1>1, <2>1, CallFacts
  <2> QED BY <1>4, <1>7, <2>1, <2>2 DEF MapInv, Clients, CallerInv
<1>10. MappingsMatchRequests'
  <2>1. \A u \in Thread \ {th} : cur[u] = cur[th] => u \notin {"App", "Cb"} \/ cur[u] = None
    BY <1>1, CallFacts
  <2>2. cur["Tick"] # cur[th]
    <3>1. cur["Tick"] = None \/ (queue # <<>> /\ cur["Tick"] = Head(queue))
      <4>1. TickControl BY <1>1 DEF Clients, ControlInv
      <4> QED BY <4>1 DEF TickControl
    <3>2. queue # <<>> => Head(queue) \in Range(queue) BY <1>1, HeadFacts
    <3> QED BY <1>1, <3>1, <3>2, CallFacts
  <2>3. cur[th] \notin Range(queue) BY <1>1, CallFacts
  <2> QED BY <1>3, <1>4, <1>5, <1>6, <1>7, <2>1, <2>2, <2>3
          DEF MapInv, MappingsMatchRequests, Thread, Emmc
<1> QED BY <1>8, <1>9, <1>10

LEMMA CreateTrbClients ==
  ASSUME MapInv, NEW th \in {"App", "Cb"}, CreateTrb(th)
  PROVE  CallerInv' /\ QueuedOnce' /\ MappingsMatchRequests'
<1>1. cur[th] \in Req /\ pc[th] = "create"
  BY DEF CreateTrb, At, MapInv, Clients, ControlInv, CallControl, TypeOK, ThreadType, Thread
<1>2. cur \in [Thread -> Req \cup {None}] /\ pc \in [Thread -> Label]
  BY DEF MapInv, Clients, TypeOK, ThreadType
<1>3. UNCHANGED <<queue, cur, card, logVars>> BY DEF CreateTrb, cardVars
<1>4. mapped' = IF Emmc /\ cur[th] \in DatReq THEN mapped \cup {cur[th]} ELSE mapped
  BY DEF CreateTrb
<1>5. CallerInv' /\ QueuedOnce'
  BY <1>3 DEF MapInv, Clients, CallerInv, QueuedOnce, LevelReq, logVars
<1>6. \A u \in Thread \ {th} : pc'[u] = pc[u] BY <1>2 DEF CreateTrb, Goto
<1>7. status[cur[th]] = "issued" BY <1>1 DEF MapInv, Clients, CallerInv
<1>8. MappingsMatchRequests'
  BY <1>1, <1>2, <1>3, <1>4, <1>6, <1>7 DEF MapInv, MappingsMatchRequests, Emmc, logVars
<1> QED BY <1>5, <1>8

LEMMA InsertTrbClients ==
  ASSUME MapInv, NEW th \in {"App", "Cb"}, InsertTrb(th)
  PROVE  CallerInv' /\ QueuedOnce' /\ MappingsMatchRequests'
<1>1. Clients BY DEF MapInv
<1>2. cur[th] \in AsyncReq BY DEF InsertTrb, At, MapInv, Clients, ControlInv, CallControl
<1>3. cur \in [Thread -> Req \cup {None}] /\ pc \in [Thread -> Label]
  BY DEF MapInv, Clients, TypeOK, ThreadType
<1>4. /\ queue' = Append(queue, cur[th]) /\ accepted' = Append(accepted, cur[th])
      /\ cur' = [cur EXCEPT ![th] = None] /\ pc' = [pc EXCEPT ![th] = "idle"]
      /\ UNCHANGED <<status, signalled, lost, mapped, card>> /\ pc[th] = "insert"
  BY DEF InsertTrb, At, InsertTail, Goto, cardVars
<1>5. /\ Range(queue') = Range(queue) \cup {cur[th]}
      /\ Range(accepted') = Range(accepted) \cup {cur[th]}
  BY <1>1, <1>2, <1>4, QueueFacts, RangeAppend
<1>6. cur[th] \notin Range(accepted) /\ status[cur[th]] = "issued"
  BY <1>2 DEF MapInv, Clients, CallerInv
<1>7. Distinct(accepted')
  BY <1>1, <1>2, <1>4, <1>6, QueueFacts, DistinctAppend
<1>8. QueuedOnce'
  BY <1>4, <1>5, <1>6, <1>7 DEF MapInv, Clients, QueuedOnce, Distinct
<1>9. CallerInv'
  <2> SUFFICES ASSUME NEW u \in {"App", "Cb"}, cur'[u] \in Req
               PROVE  /\ cur'[u] \in LevelReq(u) /\ status'[cur'[u]] = "issued"
                      /\ cur'[u] \notin Range(accepted')
    BY DEF CallerInv, LevelReq
  <2>1. u # th /\ cur'[u] = cur[u] BY <1>3, <1>4 DEF Thread
  <2>2. cur[u] # cur[th] BY <1>1, <1>2, <2>1, CallFacts
  <2> QED BY <1>4, <1>5, <2>1, <2>2 DEF MapInv, Clients, CallerInv
<1>10. MappingsMatchRequests'
  BY <1>3, <1>4, <1>5 DEF MapInv, MappingsMatchRequests, Thread, Emmc
<1> QED BY <1>8, <1>9, <1>10

LEMMA StopFreeClients ==
  ASSUME MapInv, StopFree
  PROVE  CallerInv' /\ QueuedOnce' /\ MappingsMatchRequests'
<1>1. Clients BY DEF MapInv
<1>2. Range(accepted) = Range(signalled) \cup Range(queue) /\ Distinct(signalled)
  BY <1>1, QueueFacts
<1>3. /\ UNCHANGED <<cur, status, signalled, mapped, card>> /\ accepted' = signalled
      /\ queue' = <<>> /\ lost' = lost \cup Range(queue)
  BY DEF StopFree, cardVars
<1>4. Range(queue') = {} BY <1>3 DEF Range
<1>5. CallerInv' /\ QueuedOnce'
  BY <1>2, <1>3, <1>4 DEF MapInv, Clients, CallerInv, QueuedOnce, LevelReq, Distinct
<1>6. cur["App"] = None
  BY DEF StopFree, At, MapInv, Clients, ControlInv, CallControl
<1>7. \A u \in Thread \ {"App"} : pc'[u] = pc[u]
  BY DEF StopFree, Goto, MapInv, Clients, TypeOK, ThreadType
<1>8. MappingsMatchRequests'
  BY <1>3, <1>4, <1>6, <1>7 DEF MapInv, MappingsMatchRequests, Thread, Emmc
<1> QED BY <1>5, <1>8

\* The execution of a TRB either goes on or ends with its answer.
LEMMA ExecuteClients ==
  ASSUME MapInv, NEW th \in Thread, Execute(th)
  PROVE  CallerInv' /\ QueuedOnce' /\ MappingsMatchRequests'
<1>1. pc[th] \in Running /\ CanRun(th) /\ UNCHANGED card BY ExecuteShape DEF cardVars
<1>2. Clients /\ pc \in [Thread -> Label] /\ cur \in [Thread -> Req \cup {None}]
  BY DEF MapInv, Clients, TypeOK, ThreadType
<1>3. CASE UNCHANGED <<trbVars, cur, logVars>>
           /\ (pc' = pc \/ \E l \in Running : pc' = [pc EXCEPT ![th] = l])
  <2>1. \A u \in Thread : pc[u] = "create" => pc'[u] = "create"
    BY <1>1, <1>2, <1>3 DEF Running
  <2>2. pc["Tick"] # "create" BY <1>2 DEF Clients, ControlInv, TickControl, Running
  <2>3. ClientsKept BY <1>1, <1>3, <2>1, <2>2 DEF ClientsKept, trbVars, Thread
  <2> QED BY <2>3, ClientFrame
<1>4. ASSUME NEW st \in {"SUCCESS", "DEVICE_ERROR"}, Finish(th, st)
      PROVE  CallerInv' /\ QueuedOnce' /\ MappingsMatchRequests'
  <2>1. st \in Final BY DEF Final, Failure
  <2>2. CASE th = "Tick"
    <3>1. queue # <<>> BY <1>1, <1>2, <2>2 DEF Clients, ControlInv, TickControl, Running
    <3>2. AnswerHead(st) /\ cur'["Tick"] = None
          /\ \A u \in {"App", "Cb"} : pc'[u] = pc[u] /\ cur'[u] = cur[u]
      BY <1>2, <1>4, <2>2 DEF Finish, Goto, Thread
    <3> QED BY <1>1, <1>2, <2>1, <3>1, <3>2, AnswerHeadClients, AnswerHeadMappings
  <2>3. CASE th # "Tick"
    <3>1. th \in {"App", "Cb"} /\ Return(th, st) BY <1>4, <2>3 DEF Finish, Thread
    <3>2. cur[th] \in Req BY <1>1, <1>2, <3>1 DEF Clients, ControlInv, CallControl, Running
    <3> QED BY <1>1, <2>1, <3>1, <3>2, ReturnClients
  <2> QED BY <2>2, <2>3
<1> QED BY <1>3, <1>4, ExecuteShape

LEMMA ClientsNext ==
  ASSUME MapInv, [Next]_vars
  PROVE  CallerInv' /\ QueuedOnce' /\ MappingsMatchRequests'
<1> USE DEF MapInv, Clients
<1>1. pc \in [Thread -> Label] /\ cur \in [Thread -> Req \cup {None}]
      /\ (pc["Tick"] # "idle" => pc["Tick"] \in Running)
      /\ (pc["Tick"] = "idle" => cur["Tick"] = None)
  BY DEF TypeOK, ThreadType, ControlInv, TickControl
<1>2. CASE Execute("Tick") BY <1>2, ExecuteClients DEF Thread
<1>3. CASE TickStart
  <2>1. /\ UNCHANGED <<queue, mapped, logVars, card>> /\ cur'["Tick"] = Head(queue) /\ queue # <<>>
        /\ pc["Tick"] = "idle" /\ \A th \in {"App", "Cb"} : cur'[th] = cur[th] /\ pc'[th] = pc[th]
    BY <1>1, <1>3 DEF TickStart, Goto, Thread, trbVars, cardVars
  <2>2. Head(queue) \in Range(queue) BY <2>1, HeadFacts
  <2> QED BY <2>1, <2>2, ClientFrame DEF ClientsKept
<1>4. CASE ResetDevice
  <2>1. /\ SignalAll("ABORTED") /\ UNCHANGED <<cur, pc, card>> /\ cur["Tick"] = None
    BY <1>1, <1>4, Preemption DEF ResetDevice, At, thrVars, cardVars
  <2> QED BY <2>1, SignalAllClients, SignalAllMappings DEF Final, Failure
<1>5. CASE Start \/ Stop \/ Controller \/ UNCHANGED vars
  <2>1. /\ UNCHANGED <<queue, mapped, logVars, card, cur>>
        /\ \A th \in {"App", "Cb"} : pc[th] = "create" => pc'[th] = "create"
    BY <1>1, <1>5 DEF Start, Stop, At, Goto, Controller, HwCommand, HwCommandError, HwData,
       HwDataError, HwFrame, vars, trbVars, thrVars, cardVars, Thread
  <2>2. pc["Tick"] # "create" BY <1>1 DEF Running
  <2> QED BY <2>1, <2>2, ClientFrame DEF ClientsKept
<1>6. CASE StopAbort
  <2>1. queue # <<>> /\ cur["Tick"] = None
    BY <1>1, <1>6, Preemption DEF StopAbort, At, ControlInv, StopControl
  <2>2. AnswerHead("ABORTED") /\ UNCHANGED <<cur, pc, card>>
    BY <1>6 DEF StopAbort, thrVars, cardVars
  <2> QED BY <2>1, <2>2, AnswerHeadClients, AnswerHeadMappings DEF Final, Failure
<1>7. CASE StopFree BY <1>7, StopFreeClients
<1>8. ASSUME NEW th \in {"App", "Cb"}, Call(th)
      PROVE  CallerInv' /\ QueuedOnce' /\ MappingsMatchRequests'
  <2>1. CASE CreateTrbFails(th)
    <3>1. cur[th] \in Req
      BY <1>1, <2>1 DEF CreateTrbFails, At, ControlInv, CallControl, Thread
    <3> QED BY <2>1, <3>1, ReturnClients DEF CreateTrbFails, Final, Failure, cardVars
  <2>2. CASE WaitQueueEmpty(th)
    <3>1. /\ UNCHANGED <<queue, mapped, logVars, card, cur>>
          /\ \A u \in {"App", "Cb"} : pc[u] = "create" => pc'[u] = "create"
      BY <1>1, <2>2 DEF WaitQueueEmpty, At, Goto, trbVars, cardVars, Thread
    <3>2. pc["Tick"] # "create" BY <1>1 DEF Running
    <3> QED BY <3>1, <3>2, ClientFrame DEF ClientsKept
  <2> QED BY <1>8, <2>1, <2>2, CreateTrbClients, InsertTrbClients, ExecuteClients DEF Call, Thread
<1>9. ASSUME NEW th \in {"App", "Cb"}, NEW r \in LevelReq(th), Submit(th, r)
      PROVE  CallerInv' /\ QueuedOnce' /\ MappingsMatchRequests'
  BY <1>9, SubmitClients
<1> QED BY <1>2, <1>3, <1>4, <1>5, <1>6, <1>7, <1>8, <1>9 DEF Next, Timer, Binding

(* --- Without nesting: one call at a time, synchronous ones on an empty queue --- *)
QueueInv == MapInv /\ AloneInv /\ SyncRunsAlone /\ StopLeavesNothing

\* A request that is submitted in the middle of a call is remembered.
LEMMA NestedKept ==
  ASSUME [Next]_vars, ~nested'
  PROVE  ~nested
  BY DEF Next, Timer, TickStart, Execute, ExecClear, ExecCommand, ExecDone, ExecOver,
     CheckTrbResult, ReadFifo, ReadFifoEnd, Binding, Start, Stop, StopAbort, StopFree, ResetDevice,
     Controller, HwCommand, HwCommandError, HwData, HwDataError, HwFrame, Call, CreateTrb,
     CreateTrbFails, InsertTrb, WaitQueueEmpty, Submit, vars, hisVars

\* One thread executes a TRB, and the timer does when a queue is left.
LEMMA OneExecutes ==
  ASSUME QueueInv, ~nested
  PROVE  /\ \A t, u \in Thread : pc[t] \in Running /\ pc[u] \in Running => t = u
         /\ \A th \in Thread : pc[th] \in Running => cur[th] \in Req /\ status[cur[th]] = "issued"
<1> USE DEF QueueInv, MapInv, Clients
<1>1. pc["App"] = "idle" \/ pc["Cb"] = "idle" BY DEF AloneInv
<1>2. "idle" \notin Running BY DEF Running
<1>3. pc["Tick"] \in Running => queue # <<>> /\ cur["Tick"] = Head(queue)
  BY <1>2 DEF ControlInv, TickControl
<1>4. \A th \in {"App", "Cb"} : pc[th] \in Running => queue = <<>> BY DEF SyncRunsAlone
<1>5. \A th \in {"App", "Cb"} : pc[th] \in Running => cur[th] \in Req
  BY DEF ControlInv, CallControl, TypeOK, ThreadType, Thread, Running
<1>6. \A th \in {"App", "Cb"} : pc[th] \in Running => status[cur[th]] = "issued"
  BY <1>5 DEF CallerInv
<1>7. pc["Tick"] \in Running => cur["Tick"] \in Req /\ status[cur["Tick"]] = "issued"
  BY <1>3, HeadFacts DEF QueuedOnce
<1> QED BY <1>1, <1>2, <1>3, <1>4, <1>5, <1>6, <1>7 DEF Thread

\* Steps of the timer, of the bus and of the threads that leave queue and calls alone.
LEMMA AloneFrame ==
  ASSUME QueueInv, ~nested, UNCHANGED <<queue, lost, stopNext>>,
         \A th \in {"App", "Cb"} :
            pc'[th] = pc[th] \/ (pc[th] \in Running /\ pc'[th] \in {"idle"} \cup Running)
  PROVE  AloneInv' /\ SyncRunsAlone' /\ StopLeavesNothing'
<1>1. "idle" \notin Running /\ "stop" \notin Running BY DEF Running
<1> QED BY <1>1 DEF QueueInv, AloneInv, SyncRunsAlone, StopLeavesNothing

\* A call alone that is not executing yet.
LEMMA CallAlone ==
  ASSUME QueueInv, ~nested, NEW th \in {"App", "Cb"}, UNCHANGED <<lost, stopNext>>,
         pc[th] # "idle", \E l \in Label \ {"stop"} : pc' = [pc EXCEPT ![th] = l],
         pc'[th] \in Running => queue' = <<>>
  PROVE  AloneInv' /\ SyncRunsAlone' /\ StopLeavesNothing'
<1>1. pc \in [Thread -> Label] /\ th \in Thread
  BY DEF QueueInv, MapInv, Clients, TypeOK, ThreadType, Thread
<1>2. PICK l \in Label \ {"stop"} : pc' = [pc EXCEPT ![th] = l] OBVIOUS
<1>3. \A u \in {"App", "Cb"} \ {th} : pc'[u] = "idle"
  BY <1>1, <1>2 DEF QueueInv, AloneInv, Thread
<1>4. "idle" \notin Running BY DEF Running
<1>5. pc'[th] # "stop" BY <1>1, <1>2
<1>6. SyncRunsAlone' BY <1>3, <1>4 DEF SyncRunsAlone
<1>7. AloneInv' BY <1>3, <1>5 DEF AloneInv
<1> QED BY <1>6, <1>7 DEF QueueInv, StopLeavesNothing

LEMMA BindingAlone ==
  ASSUME QueueInv, ~nested, Binding
  PROVE  AloneInv' /\ SyncRunsAlone' /\ StopLeavesNothing'
<1> USE DEF QueueInv, MapInv, Clients
<1>1. pc \in [Thread -> Label] /\ "stop" \notin Running /\ "idle" \notin Running
  BY DEF TypeOK, ThreadType, Running
<1>2. CASE Start
  BY <1>2, AloneFrame DEF Start, trbVars, thrVars, logVars
<1>4. CASE Stop
  <2>1. pc' = [pc EXCEPT !["App"] = "stop"] /\ lost' = lost /\ queue' = queue
    BY <1>4 DEF Stop, Goto, trbVars, logVars
  <2>2. pc'["Cb"] = "idle" /\ pc'["App"] = "stop"
    BY <1>1, <1>4, <2>1, Preemption DEF Stop, At, Thread
  <2>3. stopNext' = None => queue = <<>> BY <1>4, HeadFacts DEF Stop
  <2> QED BY <1>1, <2>1, <2>2, <2>3 DEF AloneInv, SyncRunsAlone, StopLeavesNothing
<1>5. CASE StopAbort
  <2>1. UNCHANGED <<pc, lost>> /\ queue' = Tail(queue) /\ stopNext' = Second(queue)
        /\ pc["Cb"] = "idle" /\ pc["App"] = "stop" /\ queue # <<>>
    BY <1>5, Preemption DEF StopAbort, AnswerHead, At, thrVars, ControlInv, StopControl
  <2>2. queue \in Seq(AsyncReq) BY DEF TypeOK, TrbType
  <2>3. Second(queue) = None => Tail(queue) = <<>>
    <3>1. Len(queue) > 1 => queue[2] \in AsyncReq BY <2>2
    <3>2. Second(queue) = None => Len(queue) = 1
      <4>1. Len(queue) > 1 => Second(queue) \in AsyncReq BY <3>1 DEF Second
      <4>2. Len(queue) \in Nat /\ Len(queue) # 0 BY <2>1, <2>2
      <4>3. None \notin AsyncReq OBVIOUS
      <4>4. Second(queue) = None => ~(Len(queue) > 1) BY <4>1, <4>3
      <4>5. \A n \in Nat \ {0} : n > 1 \/ n = 1 OBVIOUS
      <4>6. Len(queue) > 1 \/ Len(queue) = 1 BY <4>2, <4>5
      <4> QED BY <4>4, <4>6
    <3>3. Len(queue) = 1 => Tail(queue) = <<>>
      <4>1. Len(Tail(queue)) = Len(queue) - 1 /\ Tail(queue) \in Seq(AsyncReq)
        BY <2>1, <2>2, HeadTailProperties
      <4>2. Tail(queue) # <<>> => Len(Tail(queue)) \in Nat \ {0} BY <4>1, EmptySeq
      <4>3. Len(queue) \in Nat BY <2>2
      <4>4. ASSUME Len(queue) = 1 PROVE Len(Tail(queue)) = 0 BY <4>1, <4>3, <4>4
      <4> QED BY <4>2, <4>4
    <3> QED BY <3>2, <3>3
  <2> QED BY <1>1, <2>1, <2>3 DEF AloneInv, SyncRunsAlone, StopLeavesNothing
<1>6. CASE StopFree
  <2>1. queue = <<>> BY <1>6 DEF StopFree, At, AloneInv
  <2>2. lost' = lost \cup Range(queue) /\ Range(queue) = {}
    BY <1>6, <2>1 DEF StopFree, Range
  <2>3. pc' = [pc EXCEPT !["App"] = "idle"] /\ queue' = <<>> BY <1>6 DEF StopFree, Goto
  <2>4. pc'["App"] = "idle" BY <1>1, <2>3 DEF Thread
  <2> QED BY <1>1, <2>2, <2>3, <2>4 DEF AloneInv, SyncRunsAlone, StopLeavesNothing
<1> QED BY <1>2, <1>4, <1>5, <1>6 DEF Binding

LEMMA AloneNext ==
  ASSUME QueueInv, [Next]_vars
  PROVE  AloneInv' /\ SyncRunsAlone' /\ StopLeavesNothing'
<1> SUFFICES ASSUME ~nested'
             PROVE  AloneInv' /\ SyncRunsAlone' /\ StopLeavesNothing'
  BY DEF AloneInv, SyncRunsAlone, StopLeavesNothing
<1>1. ~nested BY NestedKept
<1>2. pc \in [Thread -> Label] /\ ControlInv /\ "idle" \notin Running /\ "stop" \notin Running
      /\ Running \subseteq Label
  BY DEF QueueInv, MapInv, Clients, TypeOK, ThreadType, Running, Label
<1>3. CASE TickStart
  <2>1. UNCHANGED <<queue, lost, stopNext>> /\ \A th \in {"App", "Cb"} : pc'[th] = pc[th]
    BY <1>2, <1>3 DEF TickStart, Goto, trbVars, logVars, drvVars, Thread
  <2> QED BY <1>1, <2>1, AloneFrame
<1>4. CASE Execute("Tick")
  <2>1. pc["Tick"] \in Running /\ UNCHANGED stopNext
    BY <1>4, ExecuteShape DEF Thread, drvVars
  <2>2. queue # <<>> /\ driver = "started" BY <1>2, <2>1 DEF ControlInv, TickControl
  <2>3. pc["App"] # "stop" /\ \A th \in {"App", "Cb"} : pc[th] \notin Running
    BY <1>1, <1>2, <2>2 DEF ControlInv, StopControl, QueueInv, SyncRunsAlone
  <2>4. lost' = lost /\ \A th \in {"App", "Cb"} : pc'[th] = pc[th]
    <3>1. CASE \E st \in {"SUCCESS", "DEVICE_ERROR"} : Finish("Tick", st)
      BY <1>2, <3>1 DEF Finish, AnswerHead, Goto, Thread
    <3>2. CASE UNCHANGED <<trbVars, cur, logVars>>
               /\ (pc' = pc \/ \E l \in Running : pc' = [pc EXCEPT !["Tick"] = l])
      BY <1>2, <3>2 DEF logVars, Thread
    <3> QED BY <1>4, <3>1, <3>2, ExecuteShape DEF Thread
  <2> QED BY <1>1, <1>2, <2>3, <2>4 DEF QueueInv, AloneInv, SyncRunsAlone, StopLeavesNothing
<1>5. CASE Binding BY <1>1, <1>5, BindingAlone
<1>6. CASE ResetDevice
  BY <1>1, <1>6 DEF ResetDevice, SignalAll, At, drvVars, thrVars, QueueInv, AloneInv,
     SyncRunsAlone, StopLeavesNothing
<1>7. CASE Controller \/ UNCHANGED vars
  <2>1. UNCHANGED <<queue, lost, stopNext, pc>>
    BY <1>7 DEF Controller, HwCommand, HwCommandError, HwData, HwDataError, HwFrame, vars, trbVars,
       logVars, drvVars, thrVars
  <2> QED BY <1>1, <2>1, AloneFrame
<1>8. ASSUME NEW th \in {"App", "Cb"}, Call(th)
      PROVE  AloneInv' /\ SyncRunsAlone' /\ StopLeavesNothing'
  <2>1. CASE CreateTrb(th) \/ CreateTrbFails(th) \/ InsertTrb(th)
    <3>1. UNCHANGED <<lost, stopNext>> /\ pc[th] # "idle"
      BY <2>1 DEF CreateTrb, CreateTrbFails, InsertTrb, At, Return, logVars, drvVars
    <3>2. \E l \in {"idle", "insert", "waitq"} : pc' = [pc EXCEPT ![th] = l]
      BY <2>1 DEF CreateTrb, CreateTrbFails, InsertTrb, Return, Goto
    <3>3. pc'[th] \notin Running BY <1>2, <3>2 DEF Running, Thread
    <3>4. \E l \in Label \ {"stop"} : pc' = [pc EXCEPT ![th] = l] BY <3>2 DEF Label
    <3> QED BY <1>1, <3>1, <3>3, <3>4, CallAlone
  <2>2. CASE WaitQueueEmpty(th)
    <3>1. UNCHANGED <<lost, stopNext, queue>> /\ pc[th] # "idle" /\ queue = <<>>
          /\ pc' = [pc EXCEPT ![th] = "exec"]
      BY <2>2 DEF WaitQueueEmpty, At, Goto, logVars, drvVars, trbVars
    <3> QED BY <1>1, <3>1, CallAlone DEF Label
  <2>3. CASE Execute(th)
    <3>1. pc[th] \in Running /\ UNCHANGED stopNext BY <2>3, ExecuteShape DEF drvVars, Thread
    <3>2. /\ UNCHANGED <<queue, lost>>
          /\ pc' = pc \/ \E l \in {"idle"} \cup Running : pc' = [pc EXCEPT ![th] = l]
      BY <2>3, ExecuteShape DEF Thread, Finish, Return, Goto, trbVars, logVars
    <3>3. \A u \in {"App", "Cb"} :
             pc'[u] = pc[u] \/ (pc[u] \in Running /\ pc'[u] \in {"idle"} \cup Running)
      BY <1>2, <3>1, <3>2 DEF Thread
    <3> QED BY <1>1, <3>1, <3>2, <3>3, AloneFrame
  <2> QED BY <1>8, <2>1, <2>2, <2>3 DEF Call
<1>9. ASSUME NEW th \in {"App", "Cb"}, NEW r \in LevelReq(th), Submit(th, r)
      PROVE  AloneInv' /\ SyncRunsAlone' /\ StopLeavesNothing'
  <2>1. UNCHANGED <<queue, lost, stopNext>> /\ \A u \in Thread : pc[u] = "idle"
    BY <1>9 DEF Submit, At, trbVars, drvVars
  <2>2. pc' = pc \/ pc' = [pc EXCEPT ![th] = "create"] BY <1>9 DEF Submit, Goto
  <2>3. \A u \in {"App", "Cb"} : pc'[u] \notin Running \cup {"stop"}
    BY <1>2, <2>1, <2>2 DEF Running, Thread
  <2>4. pc'["App"] = "idle" \/ pc'["Cb"] = "idle" BY <1>2, <2>1, <2>2 DEF Thread
  <2> QED BY <1>1, <2>1, <2>3, <2>4 DEF QueueInv, AloneInv, SyncRunsAlone, StopLeavesNothing
<1> QED BY <1>3, <1>4, <1>5, <1>6, <1>7, <1>8, <1>9 DEF Next, Timer

(* --- The bus: command, data phase and FIFO are of the TRB being executed --- *)
Bus == BusIsOwned /\ BusInOrder /\ ExecInStep

\* While a thread executes a TRB no other one does, and the bus is its own.
LEMMA BusOfThread ==
  ASSUME QueueInv, ~nested, BusIsOwned, NEW th \in Thread, pc[th] \in Running
  PROVE  /\ \A u \in Thread \ {th} : pc[u] \notin Running
         /\ cur[th] \in Req /\ status[cur[th]] = "issued"
         /\ \A r \in {cmd, dat, fifo} : r # None => r = cur[th] /\ pc[th] \in Issued
         /\ {dat, fifo} \subseteq DatReq \cup {None}
<1>1. Issued \subseteq Running BY DEF Issued, Running
<1>2. {dat, fifo} \subseteq DatReq \cup {None}
  BY DEF QueueInv, MapInv, Clients, TypeOK, LineType
<1> QED BY <1>1, <1>2, OneExecutes DEF BusIsOwned

\* Steps that start or end no execution, and leave the controller alone.
LEMMA BusFrame ==
  ASSUME Bus, UNCHANGED <<lineVars, card>>,
         \A th \in Thread : pc[th] \in Issued \/ pc'[th] \in Issued \cup {"cmd"} =>
                              pc'[th] = pc[th] /\ cur'[th] = cur[th] /\ (th \in received' <=> th \in received)
  PROVE  Bus'
<1>1. BusIsOwned' BY DEF Bus, BusIsOwned, lineVars
<1>2. BusInOrder' BY DEF Bus, BusInOrder, lineVars, Emmc
<1>3. ExecInStep' BY DEF Bus, ExecInStep, lineVars, Issued
<1> QED BY <1>1, <1>2, <1>3 DEF Bus

\* A TRB that is answered leaves an empty bus behind.
LEMMA FinishBus ==
  ASSUME QueueInv, ~nested, Bus, NEW th \in Thread, pc[th] \in Running,
         NEW st, Finish(th, st), UNCHANGED <<cmd, dat, fifo>>,
         cmd = None, dat = None, fifo = None
  PROVE  Bus'
<1>1. pc \in [Thread -> Label] BY DEF QueueInv, MapInv, Clients, TypeOK, ThreadType
<1>2. pc' = [pc EXCEPT ![th] = "idle"] BY DEF Finish, Return, Goto
<1>3. \A u \in Thread : pc'[u] \notin Running
  <2>1. "idle" \notin Running BY DEF Running
  <2> QED BY <1>1, <1>2, <2>1, BusOfThread DEF Bus
<1>4. BusIsOwned' BY DEF BusIsOwned
<1>5. BusInOrder' BY DEF BusInOrder
<1>6. ExecInStep' BY <1>3 DEF ExecInStep, Running
<1> QED BY <1>4, <1>5, <1>6 DEF Bus

LEMMA ExecuteBus ==
  ASSUME QueueInv, ~nested, Bus, NEW th \in Thread, Execute(th)
  PROVE  Bus'
<1>1. pc[th] \in Running /\ card' = card BY ExecuteShape DEF cardVars
<1>2. /\ \A u \in Thread \ {th} : pc[u] \notin Running
      /\ cur[th] \in Req
      /\ \A r \in {cmd, dat, fifo} : r # None => r = cur[th] /\ pc[th] \in Issued
      /\ {dat, fifo} \subseteq DatReq \cup {None}
  BY <1>1, BusOfThread DEF Bus
<1>3. pc \in [Thread -> Label] /\ None \notin Req
  BY DEF QueueInv, MapInv, Clients, TypeOK, ThreadType
<1>4. /\ pc[th] \in {"done", "over", "idsts"} => Emmc
      /\ pc[th] = "readfifo" => ~Emmc
  BY DEF QueueInv, MapInv, Clients, ControlInv, ExecControl
<1>5. CASE ExecClear(th)
  <2>1. pc[th] = "exec" /\ rint' = {} /\ pc' = [pc EXCEPT ![th] = "cmd"]
        /\ received' = received \ {th} /\ UNCHANGED <<cur, cmd, dat, fifo>>
    BY <1>5 DEF ExecClear, At, Goto
  <2>2. cmd = None /\ dat = None /\ fifo = None BY <1>2, <2>1 DEF Issued
  <2>3. \A u \in Thread \ {th} : pc'[u] \notin Running BY <1>2, <1>3, <2>1
  <2>4. pc'[th] = "cmd" /\ th \notin received' BY <1>3, <2>1
  <2>5. BusIsOwned' /\ BusInOrder' BY <2>1, <2>2 DEF BusIsOwned, BusInOrder
  <2>6. ExecInStep' BY <2>1, <2>3, <2>4 DEF ExecInStep, Running
  <2> QED BY <2>5, <2>6 DEF Bus
<1>6. CASE ExecCommand(th)
  <2>1. pc[th] = "cmd" /\ UNCHANGED <<cur, dat, fifo, received>>
        /\ \E l \in {"done", "readfifo"} : pc' = [pc EXCEPT ![th] = l]
    BY <1>6 DEF ExecCommand, At, Goto
  <2>2. /\ cmd = None /\ dat = None /\ fifo = None /\ rint = {} /\ th \notin received
    BY <1>2, <2>1 DEF Issued, Bus, ExecInStep
  <2>3. cmd' = cur[th] /\ rint' = rint BY <1>6, <2>2 DEF ExecCommand
  <2>4. \A u \in Thread \ {th} : pc'[u] \notin Running BY <1>2, <1>3, <2>1
  <2>5. pc'[th] \in {"done", "readfifo"} BY <1>3, <2>1
  <2>6. BusIsOwned' BY <2>1, <2>2, <2>3, <2>5 DEF BusIsOwned, Issued
  <2>7. BusInOrder' BY <2>1, <2>2, <2>3 DEF BusInOrder
  <2>8. ExecInStep' BY <2>1, <2>2, <2>4, <2>5 DEF ExecInStep, Running
  <2> QED BY <2>6, <2>7, <2>8 DEF Bus
<1>7. CASE ExecDone(th)
  <2>1. pc[th] = "done" /\ "CD" \in rint /\ UNCHANGED lineVars /\ received' = received
    BY <1>7 DEF ExecDone, At
  <2>2. cmd = None /\ fifo = None BY <1>4, <2>1 DEF Bus, BusInOrder
  <2>3. CASE cur[th] \in DatReq
    <3>1. pc' = [pc EXCEPT ![th] = "over"] /\ cur' = cur BY <1>7, <2>3 DEF ExecDone, Goto
    <3>2. \A u \in Thread \ {th} : pc'[u] \notin Running BY <1>2, <1>3, <3>1
    <3>3. pc'[th] = "over" BY <1>3, <3>1
    <3>4. BusIsOwned' BY <1>2, <2>1, <3>1, <3>3 DEF BusIsOwned, Issued, lineVars
    <3>5. BusInOrder' BY <1>1, <2>1 DEF Bus, BusInOrder, lineVars, Emmc
    <3>6. ExecInStep' BY <2>1, <2>2, <3>2, <3>3 DEF ExecInStep, Running, lineVars
    <3> QED BY <3>4, <3>5, <3>6 DEF Bus
  <2>4. CASE cur[th] \notin DatReq
    <3>1. dat = None BY <1>2, <2>4
    <3> QED BY <1>1, <1>7, <2>1, <2>2, <2>4, <3>1, FinishBus DEF ExecDone, lineVars
  <2> QED BY <2>3, <2>4
<1>8. CASE ExecOver(th)
  <2>1. pc[th] = "over" /\ UNCHANGED lineVars /\ received' = received
    BY <1>8 DEF ExecOver, At
  <2>2. cmd = None /\ fifo = None BY <1>4, <2>1 DEF Bus, BusInOrder, ExecInStep
  <2>3. "ERR" \in rint \/ "DTO" \in rint BY <1>8 DEF ExecOver
  <2>4. dat = None BY <2>3 DEF Bus, BusInOrder
  <2>5. CASE Finish(th, "DEVICE_ERROR")
    BY <1>1, <2>1, <2>2, <2>4, <2>5, FinishBus DEF lineVars
  <2>6. CASE ~Finish(th, "DEVICE_ERROR")
    <3>1. pc' = [pc EXCEPT ![th] = "idsts"] /\ cur' = cur BY <1>8, <2>6 DEF ExecOver, Goto
    <3>2. \A u \in Thread \ {th} : pc'[u] \notin Running BY <1>2, <1>3, <3>1
    <3>3. pc'[th] = "idsts" BY <1>3, <3>1
    <3>4. BusIsOwned' /\ BusInOrder' BY <2>1, <2>2, <2>4 DEF BusIsOwned, BusInOrder, lineVars
    <3>5. ExecInStep' BY <2>1, <2>2, <2>4, <3>2, <3>3 DEF ExecInStep, Running, lineVars
    <3> QED BY <3>4, <3>5 DEF Bus
  <2> QED BY <2>5, <2>6
<1>9. CASE CheckTrbResult(th)
  <2>1. pc[th] = "idsts" /\ UNCHANGED lineVars /\ Finish(th, "SUCCESS")
    BY <1>9 DEF CheckTrbResult, At
  <2>2. cmd = None /\ fifo = None /\ dat = None
    BY <1>4, <2>1 DEF Bus, BusInOrder, ExecInStep
  <2> QED BY <1>1, <2>1, <2>2, FinishBus DEF lineVars
<1>10. CASE ReadFifo(th)
  <2>1. /\ pc[th] = "readfifo" /\ "DTO" \in rint /\ fifo' = None
        /\ UNCHANGED <<pc, cur, cmd, dat, rint>> /\ received' = received \cup {th}
    BY <1>10 DEF ReadFifo, At
  <2>2. cmd = None /\ dat = None BY <2>1 DEF Bus, BusInOrder
  <2>3. BusIsOwned' /\ BusInOrder' BY <2>1, <2>2 DEF BusIsOwned, BusInOrder
  <2>4. ExecInStep' BY <1>2, <2>1, <2>2 DEF ExecInStep, Running
  <2> QED BY <2>3, <2>4 DEF Bus
<1>11. CASE ReadFifoEnd(th)
  <2>1. /\ pc[th] = "readfifo" /\ "CD" \in rint /\ (cur[th] \in DatReq => th \in received)
        /\ UNCHANGED <<cmd, dat, fifo>> /\ Finish(th, "SUCCESS")
    BY <1>11 DEF ReadFifoEnd, At
  <2>2. cmd = None BY <2>1 DEF Bus, BusInOrder
  <2>3. dat = None /\ fifo = None
    <3>1. CASE cur[th] \in DatReq BY <2>1, <3>1 DEF Bus, ExecInStep
    <3>2. CASE cur[th] \notin DatReq BY <1>2, <3>2
    <3> QED BY <3>1, <3>2
  <2> QED BY <1>1, <2>1, <2>2, <2>3, FinishBus
<1> QED BY <1>5, <1>6, <1>7, <1>8, <1>9, <1>10, <1>11 DEF Execute

\* The controller works for the thread that executes.
LEMMA ControllerBus ==
  ASSUME QueueInv, ~nested, Bus, Controller
  PROVE  Bus'
<1>1. UNCHANGED <<pc, cur, received, card>>
  BY DEF Controller, HwCommand, HwCommandError, HwData, HwDataError, HwFrame, thrVars, cardVars
<1>2. None \notin Req /\ {cmd} \subseteq Req \cup {None} /\ {dat, fifo} \subseteq DatReq \cup {None}
      /\ rint \subseteq Bits
  BY DEF QueueInv, MapInv, Clients, TypeOK, LineType
<1>3. PICK th \in Thread : pc[th] \in Issued /\ cur[th] \in {cmd, dat}
                           /\ (cmd # None => cmd = cur[th]) /\ (dat # None => dat = cur[th])
  <2>1. cmd # None \/ dat # None
    BY <1>2 DEF Controller, HwCommand, HwCommandError, HwData, HwDataError
  <2>2. cmd # None => dat = None BY DEF Bus, BusInOrder
  <2> QED BY <1>2, <2>1, <2>2 DEF Bus, BusIsOwned
<1>4. \A u \in Thread \ {th} : pc[u] \notin Running
  <2>1. pc[th] \in Running BY <1>3 DEF Issued, Running
  <2> QED BY <2>1, BusOfThread DEF Bus
<1>5. CASE HwCommand
  <2>1. cmd # None /\ dat = None /\ fifo = None /\ rint = {} BY <1>5 DEF HwCommand, Bus, BusInOrder
  <2>2. /\ cmd' = None /\ rint' = {"CD"} /\ fifo' = None
        /\ dat' = IF cmd \in DatReq THEN cmd ELSE None
    BY <1>5, <2>1 DEF HwCommand
  <2>3. BusIsOwned' BY <1>1, <1>3, <2>1, <2>2 DEF BusIsOwned
  <2>4. BusInOrder' BY <2>2 DEF BusInOrder
  <2>5. pc[th] \in {"done", "readfifo"} /\ (pc[th] = "readfifo" => th \notin received)
    BY <1>3, <2>1 DEF Bus, ExecInStep, Issued
  <2>6. ExecInStep' BY <1>1, <1>4, <2>2, <2>5 DEF ExecInStep, Running
  <2> QED BY <2>3, <2>4, <2>6 DEF Bus
<1>6. CASE HwCommandError
  <2>1. cmd # None BY <1>2, <1>6 DEF HwCommandError
  <2>2. cmd' = None /\ dat' = None /\ fifo' = None
    BY <1>6, <2>1 DEF HwCommandError, Bus, BusInOrder
  <2>3. BusIsOwned' /\ BusInOrder' BY <2>2 DEF BusIsOwned, BusInOrder
  <2>4. ExecInStep' BY <1>1, <1>3, <1>4, <2>2 DEF ExecInStep, Running, Issued
  <2> QED BY <2>3, <2>4 DEF Bus
<1>7. CASE HwData \/ HwDataError
  <2>1. dat # None BY <1>2, <1>7 DEF HwData, HwDataError
  <2>2. cmd = None /\ fifo = None BY <2>1 DEF Bus, BusInOrder
  <2>3. /\ cmd' = None /\ dat' = None /\ fifo' \in {None, dat}
        /\ Emmc => fifo' = None
    BY <1>7, <2>2 DEF HwData, HwDataError
  <2>4. BusIsOwned' BY <1>1, <1>3, <2>1, <2>3 DEF BusIsOwned
  <2>5. BusInOrder' BY <1>1, <2>3 DEF BusInOrder, Emmc
  <2>6. pc[th] \in {"done", "over", "readfifo"} /\ (pc[th] = "readfifo" => th \notin received)
    BY <1>3, <2>1 DEF Bus, ExecInStep, Issued
  <2>7. ExecInStep' BY <1>1, <1>4, <2>3, <2>6 DEF ExecInStep, Running
  <2> QED BY <2>4, <2>5, <2>7 DEF Bus
<1> QED BY <1>5, <1>6, <1>7 DEF Controller

LEMMA BusNext ==
  ASSUME QueueInv, BusInv, [Next]_vars
  PROVE  BusInv'
<1> SUFFICES ASSUME ~nested' PROVE Bus' BY DEF BusInv, Bus
<1>1. ~nested /\ Bus BY NestedKept DEF BusInv, Bus
<1>2. pc \in [Thread -> Label] /\ cur \in [Thread -> Req \cup {None}] /\ ControlInv
  BY DEF QueueInv, MapInv, Clients, TypeOK, ThreadType
<1>3. CASE TickStart
  <2>1. /\ UNCHANGED <<lineVars, card, received>> /\ pc["Tick"] = "idle"
        /\ pc' = [pc EXCEPT !["Tick"] = "exec"] /\ cur' = [cur EXCEPT !["Tick"] = Head(queue)]
    BY <1>3 DEF TickStart, Goto, cardVars
  <2> QED BY <1>1, <1>2, <2>1, BusFrame DEF Issued
<1>4. CASE Execute("Tick") BY <1>1, <1>4, ExecuteBus DEF Thread
<1>5. CASE Start
  <2>1. UNCHANGED <<pc, cur, received, card>> /\ \A th \in Thread : pc[th] = "idle"
    BY <1>5, Preemption DEF Start, At, thrVars, cardVars, Thread
  <2>2. CASE UNCHANGED lineVars BY <1>1, <2>1, <2>2, BusFrame DEF lineVars
  <2>3. CASE HcReset
    BY <2>1, <2>3 DEF HcReset, Bus, BusIsOwned, BusInOrder, ExecInStep
  <2> QED BY <1>5, <2>2, <2>3 DEF Start
<1>6. CASE Stop \/ StopAbort \/ StopFree \/ ResetDevice \/ UNCHANGED vars
  <2>1. UNCHANGED <<lineVars, card, received, cur>>
    BY <1>6 DEF Stop, StopAbort, StopFree, ResetDevice, thrVars, cardVars, vars
  <2>2. pc' = pc \/ (pc["App"] \in {"idle", "stop"} /\ \E l \in {"idle", "stop"} : Goto("App", l))
    BY <1>6 DEF Stop, StopAbort, StopFree, ResetDevice, At, thrVars, vars
  <2>3. CASE pc' = pc BY <1>1, <1>2, <2>1, <2>3, BusFrame
  <2>4. CASE pc["App"] \in {"idle", "stop"} /\ \E l \in {"idle", "stop"} : Goto("App", l)
    BY <1>1, <1>2, <2>1, <2>4, BusFrame DEF Goto, Issued
  <2> QED BY <2>2, <2>3, <2>4
<1>7. CASE Controller BY <1>1, <1>7, ControllerBus
<1>8. ASSUME NEW th \in {"App", "Cb"},
             CreateTrb(th) \/ CreateTrbFails(th) \/ InsertTrb(th) \/ WaitQueueEmpty(th)
      PROVE  Bus'
  <2>1. UNCHANGED <<lineVars, card, received>> /\ pc[th] \notin Issued
    BY <1>8 DEF CreateTrb, CreateTrbFails, InsertTrb, WaitQueueEmpty, At, cardVars, Issued
  <2>2. /\ \E l \in {"idle", "insert", "waitq", "exec"} : pc' = [pc EXCEPT ![th] = l]
        /\ cur' = cur \/ cur' = [cur EXCEPT ![th] = None]
    BY <1>8 DEF CreateTrb, CreateTrbFails, InsertTrb, WaitQueueEmpty, Return, Goto
  <2> QED BY <1>1, <1>2, <2>1, <2>2, BusFrame DEF Issued
<1>9. ASSUME NEW th \in {"App", "Cb"}, NEW r \in LevelReq(th), Submit(th, r)
      PROVE  Bus'
  <2>1. /\ UNCHANGED <<lineVars, card, received>> /\ pc[th] = "idle"
        /\ pc' = pc \/ pc' = [pc EXCEPT ![th] = "create"]
        /\ cur' = cur \/ cur' = [cur EXCEPT ![th] = r]
    BY <1>9 DEF Submit, At, Goto, cardVars
  <2> QED BY <1>1, <1>2, <2>1, BusFrame DEF Issued
<1>10. ASSUME NEW th \in {"App", "Cb"}, Execute(th) PROVE Bus'
  BY <1>1, <1>10, ExecuteBus DEF Thread
<1> QED BY <1>3, <1>4, <1>5, <1>6, <1>7, <1>8, <1>9, <1>10 DEF Next, Timer, Binding, Call

(* --- Answers come in the order of acceptance --- *)
LEMMA AnswerHeadOrder ==
  ASSUME TypeOK, AnsweredInOrder, queue # <<>>, NEW st, AnswerHead(st)
  PROVE  AnsweredInOrder'
  BY MoveHead DEF TypeOK, TrbType, LogType, AnsweredInOrder, AnswerHead

LEMMA SignalAllOrder ==
  ASSUME TypeOK, AnsweredInOrder, NEW st, SignalAll(st)
  PROVE  AnsweredInOrder'
<1>1. (signalled \o queue) \o <<>> = signalled \o queue BY DEF TypeOK, TrbType, LogType
<1> QED BY <1>1 DEF AnsweredInOrder, SignalAll

LEMMA InsertTrbOrder ==
  ASSUME TypeOK, ControlInv, AnsweredInOrder, NEW th \in {"App", "Cb"}, InsertTrb(th)
  PROVE  AnsweredInOrder'
<1>1. cur[th] \in AsyncReq BY DEF InsertTrb, At, ControlInv, CallControl
<1>2. signalled \in Seq(AsyncReq) /\ queue \in Seq(AsyncReq) BY DEF TypeOK, TrbType, LogType
<1>3. signalled \o Append(queue, cur[th]) = Append(signalled \o queue, cur[th])
  BY <1>1, <1>2, AppendConcat
<1> QED BY <1>3 DEF AnsweredInOrder, InsertTrb, InsertTail

LEMMA ExecuteOrder ==
  ASSUME TypeOK, ControlInv, AnsweredInOrder, NEW th \in Thread, Execute(th)
  PROVE  AnsweredInOrder'
<1>1. pc[th] \in Running /\ "idle" \notin Running BY ExecuteShape DEF Running
<1>2. CASE UNCHANGED <<trbVars, cur, logVars>> BY <1>2 DEF AnsweredInOrder, trbVars, logVars
<1>3. ASSUME NEW st, Finish(th, st) PROVE AnsweredInOrder'
  <2>1. CASE th = "Tick"
    <3>1. queue # <<>> BY <1>1, <2>1 DEF ControlInv, TickControl
    <3> QED BY <1>3, <2>1, <3>1, AnswerHeadOrder DEF Finish
  <2>2. CASE th # "Tick" BY <1>3, <2>2 DEF Finish, Return, AnsweredInOrder
  <2> QED BY <2>1, <2>2
<1> QED BY <1>2, <1>3, ExecuteShape

LEMMA OrderNext ==
  ASSUME TypeOK, ControlInv, AnsweredInOrder, [Next]_vars
  PROVE  AnsweredInOrder'
<1>1. CASE TickStart BY <1>1 DEF TickStart, AnsweredInOrder, trbVars, logVars
<1>2. CASE Execute("Tick") BY <1>2, ExecuteOrder DEF Thread
<1>3. CASE StopAbort
  <2>1. queue # <<>> BY <1>3 DEF StopAbort, At, ControlInv, StopControl
  <2> QED BY <1>3, <2>1, AnswerHeadOrder DEF StopAbort
<1>4. CASE StopFree
  <2>1. signalled \o <<>> = signalled BY DEF TypeOK, LogType
  <2> QED BY <1>4, <2>1 DEF StopFree, AnsweredInOrder
<1>5. CASE ResetDevice BY <1>5, SignalAllOrder DEF ResetDevice
<1>6. CASE Start \/ Stop BY <1>6 DEF Start, Stop, AnsweredInOrder, trbVars, logVars
<1>7. CASE Controller \/ UNCHANGED vars
  BY <1>7 DEF Controller, HwCommand, HwCommandError, HwData, HwDataError, HwFrame, vars,
     AnsweredInOrder, trbVars, logVars
<1>8. ASSUME NEW th \in {"App", "Cb"}, Call(th) PROVE AnsweredInOrder'
  <2>1. CASE CreateTrb(th) \/ CreateTrbFails(th) \/ WaitQueueEmpty(th)
    BY <2>1 DEF CreateTrb, CreateTrbFails, WaitQueueEmpty, Return, AnsweredInOrder, trbVars, logVars
  <2> QED BY <1>8, <2>1, InsertTrbOrder, ExecuteOrder DEF Call, Thread
<1>9. ASSUME NEW th \in {"App", "Cb"}, NEW r \in LevelReq(th), Submit(th, r)
      PROVE  AnsweredInOrder'
  BY <1>9 DEF Submit, AnsweredInOrder, trbVars
<1> QED BY <1>1, <1>2, <1>3, <1>4, <1>5, <1>6, <1>7, <1>8, <1>9 DEF Next, Timer, Binding

(* --- The DMA engine: whose descriptors it has, and whose data it moved --- *)
Loads == Emmc => \A r \in DatReq : Loaded(r) => desc = r
Mover(th) == pc[th] \in {"done", "over", "idsts"} /\ cur[th] \in DatReq /\ buffer[cur[th]] = cur[th]
Ready == idsts => "ERR" \notin rint /\ dat = None /\ cmd = None /\ \E th \in Thread : Mover(th)
Fetched ==
  \A th \in Thread : pc[th] = "readfifo" /\ th \in received /\ cur[th] \in DatReq =>
    buffer[cur[th]] = cur[th]
OwnData ==
  \A r \in DatReq : buffer[r] \in {r, None} /\ (status[r] = "SUCCESS" => buffer[r] = r)
Dma == Loads /\ Ready /\ Fetched /\ OwnData

LEMMA DmaParts == (DmaInv /\ OwnDataWhenAlone) <=> (~nested /\ ~shared => Dma)
  BY DEF DmaInv, OwnDataWhenAlone, Dma, Loads, Ready, Mover, Fetched, OwnData

\* A data TRB that was created beside another one is remembered.
LEMMA SharedKept ==
  ASSUME [Next]_vars, ~shared'
  PROVE  ~shared
  BY DEF Next, Timer, TickStart, Execute, ExecClear, ExecCommand, ExecDone, ExecOver,
     CheckTrbResult, ReadFifo, ReadFifoEnd, Binding, Start, Stop, StopAbort, StopFree, ResetDevice,
     Controller, HwCommand, HwCommandError, HwData, HwDataError, HwFrame, Call, CreateTrb,
     CreateTrbFails, InsertTrb, WaitQueueEmpty, Submit, vars, hisVars

\* The status of the DMA engine tells of the TRB that is being executed.
LEMMA ReadyOfThread ==
  ASSUME QueueInv, ~nested, Ready, idsts, NEW th \in Thread, pc[th] \in Running
  PROVE  Mover(th) /\ Emmc
<1>1. PICK u \in Thread : Mover(u) BY DEF Ready
<1>2. u = th BY <1>1, OneExecutes DEF Mover, Running
<1> QED BY <1>1, <1>2 DEF Mover, QueueInv, MapInv, Clients, ControlInv, ExecControl

\* Steps that load no descriptors, move no data and succeed with nothing.
LEMMA DmaFrame ==
  ASSUME Dma, UNCHANGED <<desc, card, buffer>>,
         \A r \in DatReq : Loaded(r)' => Loaded(r),
         \A r \in DatReq : status'[r] = "SUCCESS" => status[r] = "SUCCESS" \/ buffer[r] = r,
         idsts' => UNCHANGED <<idsts, rint, dat, cmd>> /\ \A th \in Thread : Mover(th) => Mover(th)',
         \A th \in Thread : pc'[th] = "readfifo" /\ th \in received' =>
                              pc[th] = "readfifo" /\ th \in received /\ cur'[th] = cur[th]
  PROVE  Dma'
<1>1. Loads' BY DEF Dma, Loads, Emmc
<1>2. Ready' BY DEF Dma, Ready
<1>3. Fetched' BY DEF Dma, Fetched
<1>4. OwnData' BY DEF Dma, OwnData
<1> QED BY <1>1, <1>2, <1>3, <1>4 DEF Dma

\* The end of an execution, by a call or by the timer.
LEMMA FinishDma ==
  ASSUME QueueInv, ~nested, Dma, NEW th \in Thread, pc[th] \in Running, NEW st, Finish(th, st),
         UNCHANGED <<desc, card, buffer, received>>, ~idsts',
         st = "SUCCESS" /\ cur[th] \in DatReq => buffer[cur[th]] = cur[th]
  PROVE  Dma'
<1>1. /\ pc \in [Thread -> Label] /\ cur \in [Thread -> Req \cup {None}]
      /\ status \in [Req -> Status] /\ ControlInv /\ None \notin DatReq
  BY DEF QueueInv, MapInv, Clients, TypeOK, ThreadType, LogType, Status
<1>2. pc' = [pc EXCEPT ![th] = "idle"] /\ cur' = [cur EXCEPT ![th] = None]
  BY DEF Finish, Return, Goto
<1>3. /\ Range(queue') \subseteq Range(queue)
      /\ status' = [status EXCEPT ![cur[th]] = st]
  <2>1. CASE th = "Tick"
    <3>1. queue # <<>> /\ cur["Tick"] = Head(queue)
      BY <1>1, <2>1 DEF ControlInv, TickControl, Running
    <3>2. Range(queue) = {Head(queue)} \cup Range(Tail(queue))
      BY <3>1, HeadFacts DEF QueueInv, MapInv
    <3> QED BY <2>1, <3>1, <3>2 DEF Finish, AnswerHead
  <2>2. CASE th # "Tick" BY <2>2 DEF Finish, Return
  <2> QED BY <2>1, <2>2
<1>4. \A r \in DatReq : Loaded(r)' => Loaded(r) BY <1>1, <1>2, <1>3 DEF Loaded
<1>5. \A r \in DatReq : status'[r] = "SUCCESS" => status[r] = "SUCCESS" \/ buffer[r] = r
  BY <1>1, <1>3
<1>6. \A u \in Thread : pc'[u] = "readfifo" /\ u \in received' =>
                          pc[u] = "readfifo" /\ u \in received /\ cur'[u] = cur[u]
  BY <1>1, <1>2
<1> QED BY <1>4, <1>5, <1>6, DmaFrame

LEMMA ExecuteDma ==
  ASSUME QueueInv, ~nested, Bus, Dma, NEW th \in Thread, Execute(th)
  PROVE  Dma'
<1>1. pc[th] \in Running /\ card' = card BY ExecuteShape DEF cardVars
<1>2. /\ \A u \in Thread \ {th} : pc[u] \notin Running
      /\ cur[th] \in Req
      /\ \A r \in {cmd, dat, fifo} : r # None => r = cur[th] /\ pc[th] \in Issued
      /\ {dat, fifo} \subseteq DatReq \cup {None}
  BY <1>1, BusOfThread DEF Bus
<1>3. /\ pc \in [Thread -> Label] /\ cur \in [Thread -> Req \cup {None}] /\ None \notin Req
      /\ buffer \in [Req -> Req \cup {None}]
  BY DEF QueueInv, MapInv, Clients, TypeOK, ThreadType, HistoryType
<1>4. idsts => Mover(th) /\ Emmc BY <1>1, ReadyOfThread DEF Dma
<1>5. /\ pc[th] \in {"done", "over", "idsts"} => Emmc
      /\ pc[th] = "readfifo" => ~Emmc
      /\ pc[th] \in {"over", "idsts"} => cur[th] \in DatReq
  BY DEF QueueInv, MapInv, Clients, ControlInv, ExecControl
<1>6. CASE ExecClear(th)
  <2>1. /\ pc[th] = "exec" /\ pc' = [pc EXCEPT ![th] = "cmd"] /\ received' = received \ {th}
        /\ UNCHANGED <<cur, queue, desc, buffer, status, idsts>>
    BY <1>6 DEF ExecClear, At, Goto, trbVars, dmaVars, logVars, hisVars
  <2>2. ~idsts' BY <1>4, <2>1 DEF Mover
  <2>3. \A r \in DatReq : Loaded(r)' => Loaded(r) BY <1>3, <2>1 DEF Loaded
  <2>4. \A u \in Thread : pc'[u] = "readfifo" /\ u \in received' =>
                            pc[u] = "readfifo" /\ u \in received /\ cur'[u] = cur[u]
    BY <1>3, <2>1
  <2> QED BY <1>1, <2>1, <2>2, <2>3, <2>4, DmaFrame
<1>7. CASE ExecCommand(th)
  <2>1. /\ pc[th] = "cmd" /\ UNCHANGED <<received, cur, queue, desc, buffer, status, idsts>>
        /\ \E l \in {"done", "readfifo"} : pc' = [pc EXCEPT ![th] = l]
    BY <1>7 DEF ExecCommand, At, Goto, trbVars, dmaVars, logVars, hisVars
  <2>2. ~idsts' BY <1>4, <2>1 DEF Mover
  <2>3. \A r \in DatReq : Loaded(r)' => Loaded(r) BY <1>3, <2>1 DEF Loaded
  <2>4. th \notin received BY <2>1 DEF Bus, ExecInStep
  <2>5. \A u \in Thread : pc'[u] = "readfifo" /\ u \in received' =>
                            pc[u] = "readfifo" /\ u \in received /\ cur'[u] = cur[u]
    BY <1>3, <2>1, <2>4
  <2> QED BY <1>1, <2>1, <2>2, <2>3, <2>5, DmaFrame
<1>8. CASE ExecDone(th) \/ ExecOver(th)
  <2>1. /\ pc[th] \in {"done", "over"} /\ UNCHANGED <<received, desc, buffer, idsts, lineVars>>
    BY <1>8 DEF ExecDone, ExecOver, At, dmaVars, hisVars
  <2>2. CASE \E l \in {"over", "idsts"} : pc' = [pc EXCEPT ![th] = l] /\ UNCHANGED <<cur, queue, status>>
    <3>1. PICK l \in {"over", "idsts"} : pc' = [pc EXCEPT ![th] = l] BY <2>2
    <3>2. UNCHANGED <<cur, queue, status>> BY <2>2
    <3>3. \A r \in DatReq : Loaded(r)' => Loaded(r) BY <1>3, <2>1, <3>1, <3>2 DEF Loaded
    <3>4. \A u \in Thread : Mover(u) => Mover(u)' BY <1>3, <2>1, <3>1, <3>2 DEF Mover
    <3>5. \A u \in Thread : pc'[u] = "readfifo" /\ u \in received' =>
                              pc[u] = "readfifo" /\ u \in received /\ cur'[u] = cur[u]
      BY <1>3, <2>1, <3>1, <3>2
    <3> QED BY <1>1, <2>1, <3>2, <3>3, <3>4, <3>5, DmaFrame DEF lineVars
  <2>3. CASE cur[th] \notin DatReq /\ Finish(th, "SUCCESS")
    <3>1. ~idsts' BY <1>4, <2>1, <2>3 DEF Mover
    <3> QED BY <1>1, <2>1, <2>3, <3>1, FinishDma
  <2>4. CASE "ERR" \in rint /\ Finish(th, "DEVICE_ERROR")
    <3>1. ~idsts' BY <2>1, <2>4 DEF Dma, Ready
    <3> QED BY <1>1, <2>1, <2>4, <3>1, FinishDma
  <2> QED BY <1>8, <2>2, <2>3, <2>4 DEF ExecDone, ExecOver, Goto, trbVars, logVars
<1>9. CASE CheckTrbResult(th)
  <2>1. /\ idsts /\ idsts' = FALSE /\ Finish(th, "SUCCESS")
        /\ UNCHANGED <<received, desc, buffer>>
    BY <1>9 DEF CheckTrbResult, hisVars
  <2>2. buffer[cur[th]] = cur[th] BY <1>4, <2>1 DEF Mover
  <2> QED BY <1>1, <2>1, <2>2, FinishDma
<1>10. CASE ReadFifo(th)
  <2>1. /\ pc[th] = "readfifo" /\ cur[th] \in DatReq /\ fifo # None
        /\ buffer' = [buffer EXCEPT ![fifo] = cur[th]] /\ received' = received \cup {th}
        /\ UNCHANGED <<pc, cur, queue, desc, status, idsts>>
    BY <1>10 DEF ReadFifo, At, trbVars, dmaVars, logVars
  <2>2. fifo = cur[th] /\ ~Emmc BY <1>2, <1>5, <2>1
  <2>3. Loads' BY <1>1, <2>2 DEF Loads, Emmc
  <2>4. Ready' BY <1>4, <2>1, <2>2 DEF Ready
  <2>5. buffer'[cur[th]] = cur[th] /\ \A r \in Req \ {cur[th]} : buffer'[r] = buffer[r]
    BY <1>2, <1>3, <2>1, <2>2
  <2>6. Fetched' BY <1>2, <2>1, <2>5 DEF Fetched, Running
  <2>7. OwnData' BY <2>1, <2>5 DEF Dma, OwnData
  <2> QED BY <2>3, <2>4, <2>6, <2>7 DEF Dma
<1>11. CASE ReadFifoEnd(th)
  <2>1. /\ pc[th] = "readfifo" /\ (cur[th] \in DatReq => th \in received) /\ Finish(th, "SUCCESS")
        /\ UNCHANGED <<received, desc, buffer, idsts>>
    BY <1>11 DEF ReadFifoEnd, At, dmaVars, hisVars
  <2>2. ~idsts' BY <1>4, <1>5, <2>1
  <2>3. cur[th] \in DatReq => buffer[cur[th]] = cur[th] BY <2>1 DEF Dma, Fetched
  <2> QED BY <1>1, <2>1, <2>2, <2>3, FinishDma
<1> QED BY <1>6, <1>7, <1>8, <1>9, <1>10, <1>11 DEF Execute

\* What the DMA engine moves goes to the buffer of the request it moves it for.
LEMMA ControllerDma ==
  ASSUME QueueInv, ~nested, Bus, Dma, Controller
  PROVE  Dma'
<1>1. UNCHANGED <<pc, cur, received, card, queue, desc, status>>
  BY DEF Controller, HwCommand, HwCommandError, HwData, HwDataError, HwFrame, thrVars, cardVars,
     trbVars, logVars
<1>2. /\ None \notin Req /\ {dat, fifo} \subseteq DatReq \cup {None}
      /\ buffer \in [Req -> Req \cup {None}]
  BY DEF QueueInv, MapInv, Clients, TypeOK, LineType, HistoryType
<1>3. cmd # None \/ dat # None
  BY <1>2 DEF Controller, HwCommand, HwCommandError, HwData, HwDataError
<1>4. ~idsts BY <1>3 DEF Dma, Ready
<1>5. CASE UNCHANGED <<idsts, buffer>>
  BY <1>1, <1>4, <1>5, DmaFrame DEF Loaded
<1>6. CASE HwData /\ Emmc
  <2>1. /\ dat # None /\ buffer' = [buffer EXCEPT ![dat] = desc] /\ dat' = None /\ cmd' = cmd
        /\ rint' = rint \cup {"DTO"}
    BY <1>6 DEF HwData
  <2>2. PICK th \in Thread : pc[th] \in Issued /\ cur[th] = dat BY <2>1 DEF Bus, BusIsOwned
  <2>3. pc[th] \in {"done", "over", "idsts"}
    BY <1>6, <2>2 DEF Issued, QueueInv, MapInv, Clients, ControlInv, ExecControl
  <2>4. dat \in DatReq BY <1>2, <2>1
  <2>5. desc = dat BY <1>6, <2>2, <2>3, <2>4 DEF Dma, Loads, Loaded
  <2>6. buffer'[dat] = dat /\ \A r \in Req \ {dat} : buffer'[r] = buffer[r]
    BY <1>2, <2>1, <2>4, <2>5
  <2>7. cmd = None /\ "ERR" \notin rint BY <2>1 DEF Bus, BusInOrder
  <2>8. Ready' BY <1>1, <2>1, <2>2, <2>3, <2>4, <2>6, <2>7 DEF Ready, Mover
  <2>9. Loads' BY <1>1 DEF Dma, Loads, Loaded, Emmc
  <2>10. Fetched' BY <1>1, <2>4, <2>6 DEF Dma, Fetched
  <2>11. OwnData' BY <1>1, <2>6 DEF Dma, OwnData
  <2> QED BY <2>8, <2>9, <2>10, <2>11 DEF Dma
<1> QED BY <1>5, <1>6 DEF Controller, HwCommand, HwCommandError, HwData, HwDataError

\* The list of a new TRB replaces no other one's, as long as none is shared.
LEMMA CreateDma ==
  ASSUME QueueInv, ~nested, Dma, ~shared', NEW th \in {"App", "Cb"},
         CreateTrb(th) \/ CreateTrbFails(th)
  PROVE  Dma'
<1>1. /\ pc \in [Thread -> Label] /\ cur \in [Thread -> Req \cup {None}] /\ th \in Thread
      /\ status \in [Req -> Status] /\ None \notin DatReq
  BY DEF QueueInv, MapInv, Clients, TypeOK, ThreadType, LogType, Status, Thread
<1>2. /\ pc[th] = "create" /\ UNCHANGED <<queue, card, received, lineVars, buffer>>
      /\ \E l \in {"idle", "insert", "waitq"} : pc' = [pc EXCEPT ![th] = l]
      /\ cur' = cur \/ cur' = [cur EXCEPT ![th] = None]
  BY DEF CreateTrb, CreateTrbFails, At, Return, Goto, cardVars
<1>3. cur[th] \in Req BY <1>1, <1>2 DEF QueueInv, MapInv, Clients, ControlInv, CallControl
<1>4. status' = status \/ status' = [status EXCEPT ![cur[th]] = "OUT_OF_RESOURCES"]
  BY DEF CreateTrb, CreateTrbFails, Return, logVars
<1>5. \A r \in DatReq : status'[r] = "SUCCESS" => status[r] = "SUCCESS"
  BY <1>1, <1>3, <1>4
<1>6. \A u \in Thread : pc'[u] \in {"done", "over", "idsts", "readfifo"} =>
                          pc'[u] = pc[u] /\ cur'[u] = cur[u]
  BY <1>1, <1>2
<1>7. CASE UNCHANGED dmaVars /\ (Emmc => cur[th] \notin DatReq \/ cur' = [cur EXCEPT ![th] = None])
  <2>1. \A r \in DatReq : Emmc => (Loaded(r)' => Loaded(r)) BY <1>1, <1>2, <1>7 DEF Loaded
  <2>2. Loads' BY <1>2, <1>7, <2>1 DEF Dma, Loads, Emmc, dmaVars
  <2>3. \A u \in Thread : Mover(u) => Mover(u)' BY <1>1, <1>2 DEF Mover
  <2>4. Ready' BY <1>2, <1>7, <2>3 DEF Dma, Ready, dmaVars, lineVars
  <2>5. Fetched' BY <1>2, <1>6 DEF Dma, Fetched
  <2>6. OwnData' BY <1>2, <1>5 DEF Dma, OwnData
  <2> QED BY <2>2, <2>4, <2>5, <2>6 DEF Dma
<1>8. CASE desc' = cur[th] /\ idsts' = FALSE /\ Alive(th) \cap DatReq = {}
  <2>1. \A r \in DatReq : Loaded(r)' => r = cur[th] BY <1>1, <1>2, <1>8 DEF Loaded, Alive
  <2>2. Loads' BY <1>8, <2>1 DEF Loads
  <2>3. Ready' BY <1>8 DEF Ready
  <2>4. Fetched' BY <1>2, <1>6 DEF Dma, Fetched
  <2>5. OwnData' BY <1>2, <1>5 DEF Dma, OwnData
  <2> QED BY <2>2, <2>3, <2>4, <2>5 DEF Dma
<1> QED BY <1>7, <1>8 DEF CreateTrb, CreateTrbFails, BuildDmaDescTable, Return

\* Start resets the controller while no request is alive.
LEMMA StartDma ==
  ASSUME QueueInv, Dma, Start
  PROVE  Dma'
<1>1. /\ UNCHANGED <<pc, cur, received, card, queue, status, buffer>>
      /\ UNCHANGED <<lineVars, dmaVars>> \/ (desc' = None /\ idsts' = FALSE)
      /\ driver = "stopped"
  BY DEF Start, HcReset, trbVars, thrVars, cardVars, logVars, hisVars
<1>2. \A r \in DatReq : ~Loaded(r)
  <2>1. ~Installed /\ None \notin DatReq BY <1>1 DEF Installed
  <2>2. queue = <<>> /\ \A th \in Thread : pc[th] = "idle"
    BY <2>1 DEF QueueInv, MapInv, Clients, ControlInv, StopControl
  <2>3. \A th \in Thread : cur[th] = None
    BY <2>2 DEF QueueInv, MapInv, Clients, ControlInv, CallControl, TickControl, Thread
  <2> QED BY <2>1, <2>2, <2>3 DEF Loaded, Range
<1>3. Loads' BY <1>1, <1>2 DEF Loads, Loaded
<1>4. Ready' BY <1>1 DEF Dma, Ready, Mover, lineVars, dmaVars
<1>5. Fetched' BY <1>1 DEF Dma, Fetched
<1>6. OwnData' BY <1>1 DEF Dma, OwnData
<1> QED BY <1>3, <1>4, <1>5, <1>6 DEF Dma

\* Steps of the clients and of Stop that shorten the queue, or leave it.
LEMMA DmaOther ==
  ASSUME QueueInv, Dma, UNCHANGED <<lineVars, dmaVars, card, received, buffer>>,
         \A r \in Range(queue') : Loaded(r),
         \A r \in DatReq : status'[r] = "SUCCESS" => status[r] = "SUCCESS",
         \A th \in Thread :
            \/ pc'[th] = pc[th] /\ cur'[th] = cur[th]
            \/ pc[th] \in {"idle", "insert", "waitq", "stop"} /\ cur'[th] \in {cur[th], None}
               /\ pc'[th] \in {"idle", "exec", "stop"}
            \/ pc[th] = "idle" /\ pc'[th] \in {"create", "exec"}
               /\ (pc'[th] = "exec" => Loaded(cur'[th]))
  PROVE  Dma'
<1>1. \A th \in {"App", "Cb"} : pc[th] = "idle" => cur[th] = None
  BY DEF QueueInv, MapInv, Clients, ControlInv, CallControl
<1>2. cur["Tick"] = None \/ pc["Tick"] \in Running
  BY DEF QueueInv, MapInv, Clients, ControlInv, TickControl
<1>3. None \notin DatReq OBVIOUS
<1>4. \A r \in DatReq, th \in Thread : cur'[th] = r /\ pc'[th] # "create" => Loaded(r)
  BY <1>3 DEF Loaded
<1>5. \A r \in DatReq : Loaded(r)' => Loaded(r) BY <1>4 DEF Loaded
<1>6. \A th \in Thread : Mover(th) => Mover(th)' BY DEF Mover
<1>7. \A th \in Thread : pc'[th] = "readfifo" /\ th \in received' =>
                           pc[th] = "readfifo" /\ th \in received /\ cur'[th] = cur[th]
  OBVIOUS
<1> QED BY <1>5, <1>6, <1>7, DmaFrame DEF lineVars, dmaVars

LEMMA StopDma ==
  ASSUME QueueInv, Dma, Stop \/ StopAbort \/ StopFree \/ ResetDevice
  PROVE  Dma'
<1>1. /\ pc \in [Thread -> Label] /\ cur \in [Thread -> Req \cup {None}] /\ Clients
      /\ status \in [Req -> Status]
  BY DEF QueueInv, MapInv, Clients, TypeOK, ThreadType, LogType, Status
<1>2. UNCHANGED <<lineVars, dmaVars, card, received, buffer, cur>>
  BY DEF Stop, StopAbort, StopFree, ResetDevice, thrVars, cardVars, hisVars
<1>3. \A th \in Thread : pc'[th] = pc[th] \/ (pc[th] \in {"idle", "stop"} /\ pc'[th] \in {"idle", "stop"})
  <2>1. CASE pc' = pc BY <2>1
  <2>2. CASE pc["App"] \in {"idle", "stop"} /\ \E l \in {"idle", "stop"} : Goto("App", l)
    BY <1>1, <2>2 DEF Goto, Thread
  <2> QED BY <2>1, <2>2 DEF Stop, StopAbort, StopFree, ResetDevice, At, thrVars
<1>4. Range(queue') \subseteq Range(queue)
  <2>1. CASE queue' = <<>> BY <2>1 DEF Range
  <2>2. CASE queue' = queue BY <2>2
  <2>3. CASE StopAbort
    <3>1. queue # <<>> /\ queue' = Tail(queue)
      BY <1>1, <2>3 DEF StopAbort, AnswerHead, At, Clients, ControlInv, StopControl
    <3> QED BY <1>1, <3>1, HeadFacts
  <2> QED BY <2>1, <2>2, <2>3 DEF Stop, StopFree, ResetDevice, SignalAll, trbVars
<1>5. \A r \in DatReq : status'[r] = "SUCCESS" => status[r] = "SUCCESS"
  BY <1>1 DEF Stop, StopAbort, StopFree, ResetDevice, SignalAll, AnswerHead, logVars
<1>6. \A r \in Range(queue') : Loaded(r) BY <1>4 DEF Loaded
<1> QED BY <1>2, <1>3, <1>5, <1>6, DmaOther

LEMMA ClientDma ==
  ASSUME QueueInv, Dma, NEW th \in {"App", "Cb"},
         InsertTrb(th) \/ WaitQueueEmpty(th) \/ \E r \in LevelReq(th) : Submit(th, r)
  PROVE  Dma'
<1>1. /\ pc \in [Thread -> Label] /\ cur \in [Thread -> Req \cup {None}] /\ th \in Thread
      /\ status \in [Req -> Status] /\ queue \in Seq(AsyncReq)
  BY DEF QueueInv, MapInv, Clients, TypeOK, ThreadType, TrbType, LogType, Status, Thread
<1>2. UNCHANGED <<lineVars, dmaVars, card, received, buffer>>
  BY DEF InsertTrb, WaitQueueEmpty, Submit, cardVars, hisVars
<1>3. CASE InsertTrb(th)
  <2>1. /\ pc[th] = "insert" /\ cur[th] \in AsyncReq /\ queue' = Append(queue, cur[th])
        /\ pc' = [pc EXCEPT ![th] = "idle"] /\ cur' = [cur EXCEPT ![th] = None]
        /\ status' = status
    BY <1>3 DEF InsertTrb, InsertTail, At, Goto, QueueInv, MapInv, Clients, ControlInv, CallControl
  <2>2. Range(queue') = Range(queue) \cup {cur[th]} BY <1>1, <2>1, RangeAppend
  <2>3. \A r \in Range(queue') : Loaded(r) BY <1>1, <2>1, <2>2 DEF Loaded
  <2>4. \A u \in Thread :
           \/ pc'[u] = pc[u] /\ cur'[u] = cur[u]
           \/ pc[u] \in {"idle", "insert", "waitq", "stop"} /\ cur'[u] \in {cur[u], None}
              /\ pc'[u] \in {"idle", "exec", "stop"}
    BY <1>1, <2>1
  <2> QED BY <1>2, <2>1, <2>3, <2>4, DmaOther
<1>4. CASE WaitQueueEmpty(th)
  <2>1. /\ pc[th] = "waitq" /\ pc' = [pc EXCEPT ![th] = "exec"] /\ UNCHANGED <<cur, queue, status>>
    BY <1>4 DEF WaitQueueEmpty, At, Goto, trbVars, logVars
  <2>2. \A u \in Thread :
           \/ pc'[u] = pc[u] /\ cur'[u] = cur[u]
           \/ pc[u] \in {"idle", "insert", "waitq", "stop"} /\ cur'[u] \in {cur[u], None}
              /\ pc'[u] \in {"idle", "exec", "stop"}
    BY <1>1, <2>1
  <2>3. \A r \in Range(queue') : Loaded(r) BY <2>1 DEF Loaded
  <2> QED BY <1>2, <2>1, <2>2, <2>3, DmaOther
<1>5. ASSUME NEW r \in LevelReq(th), Submit(th, r) PROVE Dma'
  <2>1. /\ pc[th] = "idle" /\ queue' = queue /\ r \in Req
        /\ \/ UNCHANGED <<pc, cur>>
           \/ pc' = [pc EXCEPT ![th] = "create"] /\ cur' = [cur EXCEPT ![th] = r]
        /\ \E st \in {"issued", "INVALID"} : status' = [status EXCEPT ![r] = st]
    BY <1>5 DEF Submit, At, Goto, SlotStatus, trbVars, LevelReq
  <2>2. \A u \in Thread :
           \/ pc'[u] = pc[u] /\ cur'[u] = cur[u]
           \/ pc[u] = "idle" /\ pc'[u] = "create"
    BY <1>1, <2>1
  <2>3. \A q \in DatReq : status'[q] = "SUCCESS" => status[q] = "SUCCESS" BY <1>1, <2>1
  <2>4. \A q \in Range(queue') : Loaded(q) BY <2>1 DEF Loaded
  <2> QED BY <1>2, <2>2, <2>3, <2>4, DmaOther
<1> QED BY <1>3, <1>4, <1>5

LEMMA DmaNext ==
  ASSUME QueueInv, BusInv, DmaInv, OwnDataWhenAlone, [Next]_vars
  PROVE  DmaInv' /\ OwnDataWhenAlone'
<1>1. (DmaInv' /\ OwnDataWhenAlone') <=> (~nested' /\ ~shared' => Dma')
  BY DEF DmaInv, OwnDataWhenAlone, Dma, Loads, Ready, Mover, Fetched, OwnData
<1> SUFFICES ASSUME ~nested', ~shared' PROVE Dma' BY <1>1
<1>2. ~nested /\ ~shared BY NestedKept, SharedKept
<1>3. Dma /\ Bus BY <1>2, DmaParts DEF BusInv, Bus
<1>4. CASE TickStart
  <2>1. /\ UNCHANGED <<lineVars, dmaVars, card, received, buffer, queue, status>>
        /\ pc["Tick"] = "idle" /\ queue # <<>>
        /\ pc' = [pc EXCEPT !["Tick"] = "exec"] /\ cur' = [cur EXCEPT !["Tick"] = Head(queue)]
    BY <1>4 DEF TickStart, Goto, trbVars, cardVars, logVars, hisVars
  <2>2. pc \in [Thread -> Label] /\ cur \in [Thread -> Req \cup {None}]
    BY DEF QueueInv, MapInv, Clients, TypeOK, ThreadType
  <2>3. Loaded(Head(queue)) BY <2>1, HeadFacts DEF QueueInv, MapInv, Loaded
  <2>4. \A u \in Thread :
           \/ pc'[u] = pc[u] /\ cur'[u] = cur[u]
           \/ pc[u] = "idle" /\ pc'[u] = "exec" /\ Loaded(cur'[u])
    BY <2>1, <2>2, <2>3
  <2>5. \A r \in Range(queue') : Loaded(r) BY <2>1 DEF Loaded
  <2> QED BY <1>3, <2>1, <2>4, <2>5, DmaOther
<1>5. CASE Execute("Tick") BY <1>2, <1>3, <1>5, ExecuteDma DEF Thread
<1>6. CASE Start BY <1>3, <1>6, StartDma
<1>7. CASE Stop \/ StopAbort \/ StopFree \/ ResetDevice BY <1>3, <1>7, StopDma
<1>8. CASE Controller BY <1>2, <1>3, <1>8, ControllerDma
<1>9. CASE UNCHANGED vars
  <2>1. UNCHANGED <<pc, cur, received, card, queue, status, buffer, lineVars, dmaVars>>
    BY <1>9 DEF vars, trbVars, thrVars, cardVars, logVars, hisVars
  <2>2. Loads' BY <1>3, <2>1 DEF Dma, Loads, Loaded, Emmc, dmaVars
  <2>3. Ready' BY <1>3, <2>1 DEF Dma, Ready, Mover, lineVars, dmaVars
  <2>4. Fetched' /\ OwnData' BY <1>3, <2>1 DEF Dma, Fetched, OwnData
  <2> QED BY <2>2, <2>3, <2>4 DEF Dma
<1>10. ASSUME NEW th \in {"App", "Cb"}, Call(th) PROVE Dma'
  BY <1>2, <1>3, <1>10, CreateDma, ClientDma, ExecuteDma DEF Call, Thread
<1>11. ASSUME NEW th \in {"App", "Cb"}, NEW r \in LevelReq(th), Submit(th, r) PROVE Dma'
  BY <1>3, <1>11, ClientDma
<1> QED BY <1>4, <1>5, <1>6, <1>7, <1>8, <1>9, <1>10, <1>11 DEF Next, Timer, Binding

(* --- Errors of the card: noted until the request ends, and reported --- *)
Noted(r) == "ERR" \in rint /\ \E th \in Thread : pc[th] \in {"done", "over"} /\ cur[th] = r
Faults == Emmc => \A r \in faults : status[r] \in Final \/ Noted(r)
Errors == Emmc => \A r \in DatReq \cap faults : status[r] # "SUCCESS"

\* Of the steps that write a status, those that end an execution may succeed.
LEMMA StatusKept ==
  ASSUME QueueInv, [Next]_vars, NEW r \in Req, status'[r] # status[r]
  PROVE  /\ status[r] \notin Final
         /\ \/ status'[r] # "SUCCESS"
            \/ \E th \in Thread, st \in {"SUCCESS", "DEVICE_ERROR"} :
                 Execute(th) /\ Finish(th, st) /\ cur[th] = r
<1>1. /\ status \in [Req -> Status] /\ Clients /\ TypeOK /\ ControlInv /\ QueuedOnce
      /\ CallerInv
  BY DEF QueueInv, MapInv, Clients, TypeOK, LogType, Status
<1>2. "none" \notin Final /\ "issued" \notin Final BY DEF Final, Failure
<1>3. ASSUME NEW th \in Thread, NEW st, Finish(th, st), pc[th] \in Running
      PROVE  cur[th] = r /\ status[r] = "issued"
  <2>1. "idle" \notin Running BY DEF Running
  <2>2. CASE th = "Tick"
    <3>1. queue # <<>> /\ cur["Tick"] = Head(queue) BY <1>1, <1>3, <2>1, <2>2 DEF ControlInv, TickControl
    <3>2. Head(queue) \in Range(queue) BY <1>1, <3>1, HeadFacts
    <3> QED BY <1>1, <1>3, <2>2, <3>1, <3>2 DEF Finish, AnswerHead, QueuedOnce
  <2>3. CASE th # "Tick"
    <3>1. cur[th] \in Req
      BY <1>1, <1>3, <2>1, <2>3 DEF ControlInv, CallControl, TypeOK, ThreadType, Thread, Running
    <3> QED BY <1>1, <1>3, <2>3, <3>1 DEF Finish, Return, CallerInv, Thread
  <2> QED BY <2>2, <2>3
<1>4. ASSUME NEW th \in Thread, Execute(th)
      PROVE  status[r] = "issued" /\ \E st \in {"SUCCESS", "DEVICE_ERROR"} :
                 Finish(th, st) /\ cur[th] = r
  BY <1>3, <1>4, ExecuteShape DEF logVars
<1>5. CASE Stop \/ StopAbort \/ StopFree \/ ResetDevice
  <2>1. StopAbort => queue # <<>> BY <1>1 DEF StopAbort, At, ControlInv, StopControl
  <2>2. StopAbort => Head(queue) \in Range(queue) BY <1>1, <2>1, HeadFacts
  <2>3. r \in Range(queue) /\ status'[r] = "ABORTED"
    BY <1>1, <1>5, <2>2 DEF Stop, StopAbort, StopFree, ResetDevice, AnswerHead, SignalAll, logVars
  <2> QED BY <1>1, <1>2, <2>3 DEF QueuedOnce
<1>6. ASSUME NEW th \in {"App", "Cb"}, CreateTrbFails(th)
      PROVE  status[r] = "issued" /\ status'[r] = "OUT_OF_RESOURCES"
  <2>1. cur[th] \in Req
    BY <1>1, <1>6 DEF CreateTrbFails, At, ControlInv, CallControl, TypeOK, ThreadType, Thread
  <2> QED BY <1>1, <1>6, <2>1 DEF CreateTrbFails, Return, CallerInv
<1>7. ASSUME NEW th \in {"App", "Cb"}, NEW q \in LevelReq(th), Submit(th, q)
      PROVE  status[r] = "none" /\ status'[r] \in {"issued", "INVALID"}
  BY <1>1, <1>7 DEF Submit, SlotStatus
<1>8. ASSUME NEW th \in {"App", "Cb"}, CreateTrb(th) \/ InsertTrb(th) \/ WaitQueueEmpty(th)
      PROVE  FALSE
  BY <1>8 DEF CreateTrb, InsertTrb, WaitQueueEmpty, logVars
<1>9. ~(TickStart \/ Start \/ Controller \/ UNCHANGED vars)
  BY DEF TickStart, Start, Controller, HwCommand, HwCommandError, HwData, HwDataError, HwFrame,
     logVars, vars
<1> QED BY <1>2, <1>4, <1>5, <1>6, <1>7, <1>8, <1>9 DEF Next, Timer, Call, Binding, Thread

\* Steps that leave what an error of the card is noted by.
LEMMA FaultFrame ==
  ASSUME QueueInv, [Next]_vars, Faults, Errors, UNCHANGED <<card, faults>>, \A th \in Thread : ~Execute(th),
         \A r \in faults : Noted(r) => Noted(r)'
  PROVE  Faults' /\ Errors'
<1>1. faults \subseteq Req BY DEF QueueInv, MapInv, Clients, TypeOK, HistoryType
<1>2. \A r \in faults : status[r] \in Final => status'[r] = status[r] BY <1>1, StatusKept
<1>3. \A r \in faults : status'[r] = "SUCCESS" => status[r] = "SUCCESS" BY <1>1, StatusKept
<1>4. Faults' BY <1>2 DEF Faults, Emmc
<1>5. Errors' BY <1>3 DEF Errors, Emmc
<1> QED BY <1>4, <1>5

\* A TRB whose error is noted ends with it, and no other one is executed.
LEMMA ExecuteFaults ==
  ASSUME QueueInv, ~nested, Bus, Faults, Errors, [Next]_vars, NEW th \in Thread, Execute(th)
  PROVE  Faults' /\ Errors'
<1>1. pc[th] \in Running /\ card' = card /\ faults' = faults
  BY DEF Execute, ExecClear, ExecCommand, ExecDone, ExecOver, CheckTrbResult, ReadFifo,
     ReadFifoEnd, At, Running, cardVars, hisVars
<1>2. /\ \A u \in Thread \ {th} : pc[u] \notin Running
      /\ cur[th] \in Req /\ status[cur[th]] = "issued"
  BY <1>1, BusOfThread DEF Bus
<1>3. /\ pc \in [Thread -> Label] /\ faults \subseteq Req /\ "issued" \notin Final
      /\ "SUCCESS" \in Final /\ "DEVICE_ERROR" \in Final
      /\ status \in [Req -> Status]
  BY DEF QueueInv, MapInv, Clients, TypeOK, ThreadType, HistoryType, LogType, Final, Failure, Status
<1>4. pc[th] \in {"over", "idsts"} => cur[th] \in DatReq
  BY DEF QueueInv, MapInv, Clients, ControlInv, ExecControl
<1>5. \A r \in faults : status[r] \in Final => status'[r] = status[r] BY <1>3, StatusKept
<1>6. SUFFICES ASSUME Emmc
               PROVE  /\ \A r \in faults : status'[r] \in Final \/ Noted(r)'
                      /\ \A r \in DatReq \cap faults : status'[r] # "SUCCESS"
  BY <1>1 DEF Faults, Errors, Emmc
<1>7. \A r \in faults : status[r] \notin Final =>
          "ERR" \in rint /\ pc[th] \in {"done", "over"} /\ cur[th] = r
  BY <1>2, <1>6 DEF Faults, Noted, Running
<1>8. ASSUME NEW r \in faults, status[r] \notin Final
      PROVE  /\ status'[r] \in Final \/ Noted(r)'
             /\ r \in DatReq => status'[r] # "SUCCESS"
  <2>1. "ERR" \in rint /\ pc[th] \in {"done", "over"} /\ cur[th] = r BY <1>7, <1>8
  <2>2. CASE Finish(th, "DEVICE_ERROR")
    <3>1. status'[r] = "DEVICE_ERROR"
      <4>1. CASE th = "Tick"
        <5>1. cur[th] = Head(queue)
          BY <1>1, <4>1 DEF QueueInv, MapInv, Clients, ControlInv, TickControl, Running
        <5> QED BY <1>2, <1>3, <2>1, <2>2, <4>1, <5>1 DEF Finish, AnswerHead
      <4>2. CASE th # "Tick" BY <1>2, <1>3, <2>1, <2>2, <4>2 DEF Finish, Return
      <4> QED BY <4>1, <4>2
    <3> QED BY <1>3, <3>1
  <2>3. CASE ExecDone(th) /\ cur[th] \in DatReq
    <3>1. pc' = [pc EXCEPT ![th] = "over"] /\ UNCHANGED <<cur, rint, status>>
      BY <2>3 DEF ExecDone, Goto, lineVars, logVars
    <3>2. pc'[th] = "over" BY <1>3, <3>1
    <3>3. Noted(r)' BY <2>1, <3>1, <3>2 DEF Noted
    <3> QED BY <1>3, <1>8, <3>1, <3>3
  <2>4. CASE ExecDone(th) /\ cur[th] \notin DatReq
    <3>1. Finish(th, "SUCCESS") BY <2>4 DEF ExecDone
    <3>2. status'[r] = "SUCCESS"
      <4>1. CASE th = "Tick"
        <5>1. cur[th] = Head(queue)
          BY <1>1, <4>1 DEF QueueInv, MapInv, Clients, ControlInv, TickControl, Running
        <5> QED BY <1>2, <1>3, <2>1, <3>1, <4>1, <5>1 DEF Finish, AnswerHead
      <4>2. CASE th # "Tick" BY <1>2, <1>3, <2>1, <3>1, <4>2 DEF Finish, Return
      <4> QED BY <4>1, <4>2
    <3> QED BY <1>3, <2>1, <2>4, <3>2
  <2>5. ExecDone(th) \/ (ExecOver(th) /\ Finish(th, "DEVICE_ERROR"))
    BY <2>1 DEF Execute, ExecClear, ExecCommand, ExecDone, ExecOver, CheckTrbResult, ReadFifo,
       ReadFifoEnd, At
  <2> QED BY <2>2, <2>3, <2>4, <2>5
<1> QED BY <1>5, <1>6, <1>8 DEF Errors

\* The card answers with an error while its request is being executed.
LEMMA ControllerFaults ==
  ASSUME QueueInv, ~nested, Bus, Faults, Errors, Controller
  PROVE  Faults' /\ Errors'
<1>1. UNCHANGED <<pc, cur, card, status>> /\ rint \subseteq rint'
  BY DEF Controller, HwCommand, HwCommandError, HwData, HwDataError, HwFrame, thrVars, cardVars,
     logVars
<1>2. None \notin Req BY DEF QueueInv
<1>3. CASE faults' = faults
  BY <1>1, <1>3 DEF Faults, Errors, Noted, Emmc
<1>4. ASSUME NEW r \in {cmd, dat} \ {None}, faults' = faults \cup {r}, "ERR" \in rint', r \in Faulty
      PROVE  Faults' /\ Errors'
  <2>1. PICK th \in Thread : pc[th] \in Issued /\ cur[th] = r
    BY <1>4 DEF Bus, BusIsOwned
  <2>2. SUFFICES ASSUME Emmc PROVE Faults' /\ Errors' BY <1>1 DEF Faults, Errors, Emmc
  <2>3. pc[th] \in {"done", "over"}
    BY <1>4, <2>1, <2>2 DEF Issued, Bus, ExecInStep, QueueInv, MapInv, Clients, ControlInv, ExecControl
  <2>4. status[r] = "issued"
    <3>1. pc[th] \in Running BY <2>3 DEF Running
    <3> QED BY <2>1, <3>1, BusOfThread DEF Bus
  <2>5. Faults' BY <1>1, <1>4, <2>1, <2>2, <2>3 DEF Faults, Noted
  <2>6. Errors' BY <1>1, <1>4, <2>2, <2>4 DEF Errors
  <2> QED BY <2>5, <2>6
<1>5. \/ faults' = faults
      \/ \E r \in {cmd, dat} \ {None} : faults' = faults \cup {r} /\ "ERR" \in rint' /\ r \in Faulty
  BY <1>2 DEF Controller, HwCommand, HwCommandError, HwData, HwDataError
<1> QED BY <1>3, <1>4, <1>5

LEMMA FaultNext ==
  ASSUME QueueInv, BusInv, FaultInv, DataErrorsReported, [Next]_vars
  PROVE  FaultInv' /\ DataErrorsReported'
<1>1. (FaultInv /\ DataErrorsReported) <=> (~nested => Faults /\ Errors)
  BY DEF FaultInv, DataErrorsReported, Faults, Errors, Noted
<1>2. (FaultInv' /\ DataErrorsReported') <=> (~nested' => Faults' /\ Errors')
  BY DEF FaultInv, DataErrorsReported, Faults, Errors, Noted
<1> SUFFICES ASSUME ~nested' PROVE Faults' /\ Errors' BY <1>2
<1>3. ~nested /\ Faults /\ Errors /\ Bus BY <1>1, NestedKept DEF BusInv, Bus
<1>4. pc \in [Thread -> Label] /\ cur \in [Thread -> Req \cup {None}] /\ TypeOK /\ ControlInv
  BY DEF QueueInv, MapInv, Clients, TypeOK, ThreadType
<1>5. ASSUME NEW th \in Thread, Execute(th) PROVE Faults' /\ Errors'
  BY <1>3, <1>5, ExecuteFaults
<1>6. CASE Controller BY <1>3, <1>6, ControllerFaults
<1> DEFINE Apart == \A th \in Thread : pc[th] \in {"done", "over"} => pc'[th] = pc[th] /\ cur'[th] = cur[th]
<1>7. ASSUME Apart, UNCHANGED <<card, faults, rint>>, \A th \in Thread : ~Execute(th)
      PROVE  Faults' /\ Errors'
  <2>1. \A r \in faults : Noted(r) => Noted(r)' BY <1>7 DEF Noted
  <2> QED BY <1>3, <1>7, <2>1, FaultFrame
<1>8. CASE TickStart
  <2>1. Apart /\ UNCHANGED <<card, faults, rint>>
    BY <1>4, <1>8 DEF TickStart, Goto, cardVars, hisVars, lineVars
  <2> QED BY <1>5, <1>7, <2>1
<1>9. CASE Start
  <2>1. ~Installed BY <1>9 DEF Start, Installed
  <2>2. (\A th \in Thread : pc[th] = "idle") /\ UNCHANGED <<pc, card, faults>>
    BY <1>4, <1>9, <2>1 DEF Start, ControlInv, StopControl, cardVars, hisVars, thrVars
  <2>3. \A r \in faults : ~Noted(r) BY <2>2 DEF Noted
  <2> QED BY <1>3, <1>5, <2>2, <2>3, FaultFrame
<1>10. CASE Stop \/ StopAbort \/ StopFree \/ ResetDevice \/ UNCHANGED vars
  <2>1. UNCHANGED <<cur, card, faults, rint>>
    BY <1>10 DEF Stop, StopAbort, StopFree, ResetDevice, thrVars, cardVars, hisVars, lineVars, vars
  <2>2. pc' = pc \/ (pc["App"] \in {"idle", "stop"} /\ \E l \in {"idle", "stop"} : Goto("App", l))
    BY <1>10 DEF Stop, StopAbort, StopFree, ResetDevice, At, thrVars, vars
  <2>3. Apart
    <3>1. CASE pc' = pc BY <2>1, <3>1
    <3>2. CASE pc["App"] \in {"idle", "stop"} /\ \E l \in {"idle", "stop"} : Goto("App", l)
      BY <1>4, <2>1, <3>2 DEF Goto, Thread
    <3> QED BY <2>2, <3>1, <3>2
  <2> QED BY <1>5, <1>7, <2>1, <2>3
<1>11. ASSUME NEW th \in {"App", "Cb"},
              CreateTrb(th) \/ CreateTrbFails(th) \/ InsertTrb(th) \/ WaitQueueEmpty(th)
       PROVE  Faults' /\ Errors'
  <2>1. UNCHANGED <<card, faults, rint>> /\ pc[th] \in {"create", "insert", "waitq"}
    BY <1>11 DEF CreateTrb, CreateTrbFails, InsertTrb, WaitQueueEmpty, At, cardVars, hisVars, lineVars
  <2>2. /\ \E l \in Label : pc' = [pc EXCEPT ![th] = l]
        /\ cur' = cur \/ cur' = [cur EXCEPT ![th] = None]
    BY <1>11 DEF CreateTrb, CreateTrbFails, InsertTrb, WaitQueueEmpty, Return, Goto, Label
  <2>3. Apart BY <1>4, <2>1, <2>2
  <2> QED BY <1>5, <1>7, <2>1, <2>3
<1>12. ASSUME NEW th \in {"App", "Cb"}, NEW r \in LevelReq(th), Submit(th, r)
       PROVE  Faults' /\ Errors'
  <2>1. UNCHANGED <<card, faults, rint>> /\ pc[th] = "idle"
    BY <1>12 DEF Submit, At, cardVars, lineVars
  <2>2. \/ UNCHANGED <<pc, cur>>
        \/ pc' = [pc EXCEPT ![th] = "create"] /\ cur' = [cur EXCEPT ![th] = r]
    BY <1>12 DEF Submit, Goto
  <2>3. Apart BY <1>4, <2>1, <2>2
  <2> QED BY <1>5, <1>7, <2>1, <2>3
<1> QED BY <1>5, <1>6, <1>8, <1>9, <1>10, <1>11, <1>12 DEF Next, Timer, Call, Binding, Thread

(* --- The safety of PassThru --- *)
LEMMA InitSafety == Init => SafetyInv
<1> SUFFICES ASSUME Init PROVE SafetyInv OBVIOUS
<1>1. Range(<<>>) = {} BY DEF Range
<1>2. TypeOK
  <2>1. DriverType
    <3>1. cardIn \in BOOLEAN /\ card \in Cards /\ media \in BOOLEAN BY Zenon DEF Init
    <3> QED BY <3>1 DEF Init, DriverType
  <2>2. TrbType BY DEF Init, TrbType
  <2>3. ThreadType BY DEF Init, ThreadType, Label
  <2>4. LineType BY DEF Init, LineType
  <2>5. DmaType
    <3>1. idsts \in BOOLEAN BY Zenon DEF Init
    <3> QED BY <3>1 DEF Init, DmaType
  <2>6. LogType BY DEF Init, LogType
  <2>7. HistoryType
    <3>1. shared \in BOOLEAN /\ nested \in BOOLEAN BY Zenon DEF Init
    <3>2. buffer \in [Req -> Req \cup {None}] /\ faults \subseteq Req BY DEF Init
    <3> QED BY <3>1, <3>2 DEF HistoryType
  <2> QED BY <2>1, <2>2, <2>3, <2>4, <2>5, <2>6, <2>7 DEF TypeOK
<1>3. ControlInv
  BY DEF Init, ControlInv, CallControl, TickControl, StopControl, ExecControl, Installed, Running, Thread
<1>4. AnsweredInOrder BY DEF Init, AnsweredInOrder
<1>5. CallerInv BY DEF Init, CallerInv, Thread
<1>6. QueuedOnce BY <1>1 DEF Init, QueuedOnce
<1>7. MappingsMatchRequests BY <1>1 DEF Init, MappingsMatchRequests
<1>8. AloneInv /\ SyncRunsAlone /\ StopLeavesNothing
  BY DEF Init, AloneInv, SyncRunsAlone, StopLeavesNothing, Thread
<1>9. BusInv BY DEF Init, BusInv, BusIsOwned, BusInOrder, ExecInStep
<1>10. DmaInv BY <1>1 DEF Init, DmaInv, Loaded
<1>11. OwnDataWhenAlone BY DEF Init, OwnDataWhenAlone
<1>12. FaultInv /\ DataErrorsReported BY DEF Init, FaultInv, DataErrorsReported
<1> QED
  BY <1>2, <1>3, <1>4, <1>5, <1>6, <1>7, <1>8, <1>9, <1>10, <1>11, <1>12 DEF SafetyInv

LEMMA NextSafety == SafetyInv /\ [Next]_vars => SafetyInv'
<1> SUFFICES ASSUME SafetyInv, [Next]_vars PROVE SafetyInv' OBVIOUS
<1>1. QueueInv BY DEF SafetyInv, QueueInv, MapInv, Clients
<1>2. TypeOK' /\ ControlInv' BY TypeNext, ControlNext DEF SafetyInv
<1>3. AnsweredInOrder' BY OrderNext DEF SafetyInv
<1>4. CallerInv' /\ QueuedOnce' /\ MappingsMatchRequests' BY <1>1, ClientsNext DEF QueueInv
<1>5. AloneInv' /\ SyncRunsAlone' /\ StopLeavesNothing' BY <1>1, AloneNext
<1>6. BusInv' BY <1>1, BusNext DEF SafetyInv
<1>7. DmaInv' /\ OwnDataWhenAlone' BY <1>1, DmaNext DEF SafetyInv
<1>8. FaultInv' /\ DataErrorsReported' BY <1>1, FaultNext DEF SafetyInv
<1> QED BY <1>2, <1>3, <1>4, <1>5, <1>6, <1>7, <1>8 DEF SafetyInv

\* The invariant of the whole driver: the control state, the queue and its
\* records, the calls, the mappings, and, as long as no request is submitted
\* in the middle of another call, the bus and the DMA engine.
THEOREM SafetyCorrect == Spec => []SafetyInv
<1> QED BY InitSafety, NextSafety, PTL DEF Spec

\* Asynchronous requests are answered in the order they were queued, each once,
\* under every interleaving of PassThru, the timer, ResetDevice and Stop.
THEOREM OrderCorrect == Spec => []AnsweredInOrder
<1>1. SafetyInv => AnsweredInOrder BY DEF SafetyInv
<1> QED BY <1>1, SafetyCorrect, PTL

\* A data buffer is mapped from the creation of its TRB to its answer, and no
\* path that ends a request leaves a mapping behind (DwMmcFreeTrb, CreateTrb).
THEOREM MappingsCorrect == Spec => []MappingsMatchRequests
<1>1. SafetyInv => MappingsMatchRequests BY DEF SafetyInv
<1> QED BY <1>1, SafetyCorrect, PTL

\* A synchronous request is executed on an empty queue, and Stop frees no
\* request that it has not answered (WaitQueueEmpty, DriverBindingStop).
THEOREM QueueCorrect == Spec => [](SyncRunsAlone /\ StopLeavesNothing)
<1>1. SafetyInv => SyncRunsAlone /\ StopLeavesNothing BY DEF SafetyInv
<1> QED BY <1>1, SafetyCorrect, PTL

\* A request that was answered, by its completion, a device reset or Stop, is
\* off the bus (DwMmcFreeTrb).
THEOREM OffTheBusCorrect == Spec => []AnsweredIsOffTheBus
<1>1. SafetyInv => AnsweredIsOffTheBus
  <2> SUFFICES ASSUME SafetyInv, ~nested, NEW r \in Req, status[r] \in Final, r \in {cmd, dat}
               PROVE  FALSE
    BY DEF AnsweredIsOffTheBus
  <2>1. PICK th \in Thread : pc[th] \in Issued /\ cur[th] = r BY DEF SafetyInv, BusInv, BusIsOwned
  <2>2. pc[th] \in Running BY <2>1 DEF Issued, Running
  <2>3. status[r] = "issued"
    BY <2>1, <2>2, OneExecutes DEF SafetyInv, QueueInv, MapInv, Clients
  <2> QED BY <2>3 DEF Final, Failure
<1> QED BY <1>1, SafetyCorrect, PTL

\* As long as no two eMMC data TRBs were alive at once, a request's data moves
\* through its own buffer, and SUCCESS says that it did (DwMmcCheckTrbResult,
\* ReadFifo).
THEOREM OwnDataCorrect == Spec => []OwnDataWhenAlone
<1>1. SafetyInv => OwnDataWhenAlone BY DEF SafetyInv
<1> QED BY <1>1, SafetyCorrect, PTL

\* A data command of an eMMC card that failed is not reported as successful
\* (DwEmmcExecTrb).
THEOREM ErrorsCorrect == Spec => []DataErrorsReported
<1>1. SafetyInv => DataErrorsReported BY DEF SafetyInv
<1> QED BY <1>1, SafetyCorrect, PTL

(* --- PassThru keeps the promise to its asynchronous clients, step by step --- *)
Answers == [i \in DOMAIN signalled |-> <<signalled[i], status[signalled[i]]>>]

LEMMA AnswersDef ==
  /\ Async!aVars = <<queue, Answers>> /\ Async!aVars' = <<queue', Answers'>>
  BY DEF Async!aVars, Answers

\* The answers given so far are final.
LEMMA AnswersKept ==
  ASSUME SafetyInv, UNCHANGED <<queue, signalled>>,
         \A r \in Range(signalled) : status'[r] = status[r]
  PROVE  UNCHANGED Async!aVars
<1>1. \A i \in DOMAIN signalled : status'[signalled[i]] = status[signalled[i]]
  BY DEF Range
<1>2. Answers' = Answers BY <1>1 DEF Answers
<1> QED BY <1>2, AnswersDef

LEMMA AnswersType ==
  ASSUME SafetyInv
  PROVE  /\ signalled \in Seq(AsyncReq) /\ queue \in Seq(AsyncReq) /\ status \in [Req -> Status]
         /\ Answers \in Seq(AsyncReq \X Status) /\ Len(Answers) = Len(signalled)
         /\ Clients
<1>1. signalled \in Seq(AsyncReq) /\ queue \in Seq(AsyncReq) /\ status \in [Req -> Status]
  BY DEF SafetyInv, TypeOK, LogType, TrbType, Status
<1>2. \A i \in DOMAIN signalled : <<signalled[i], status[signalled[i]]>> \in AsyncReq \X Status
  BY <1>1
<1>3. Answers \in Seq(AsyncReq \X Status) /\ Len(Answers) = Len(signalled)
  BY <1>1, <1>2 DEF Answers
<1> QED BY <1>1, <1>3 DEF SafetyInv, Clients

LEMMA AnswerHeadReplies ==
  ASSUME SafetyInv, queue # <<>>, NEW st \in Final, AnswerHead(st)
  PROVE  Async!ANext
<1>1. /\ Head(queue) \in AsyncReq /\ Head(queue) \notin Range(signalled)
      /\ signalled \in Seq(AsyncReq) /\ status \in [Req -> Status]
      /\ Answers \in Seq(AsyncReq \X Status) /\ Len(Answers) = Len(signalled)
  BY AnswersType, HeadFacts
<1>2. /\ queue' = Tail(queue) /\ signalled' = Append(signalled, Head(queue))
      /\ status' = [status EXCEPT ![Head(queue)] = st]
  BY DEF AnswerHead
<1>3. /\ DOMAIN signalled' = 1 .. Len(signalled) + 1 /\ DOMAIN signalled = 1 .. Len(signalled)
      /\ \A i \in 1 .. Len(signalled) : signalled'[i] = signalled[i]
      /\ signalled'[Len(signalled) + 1] = Head(queue)
  BY <1>1, <1>2
<1>4. \A i \in 1 .. Len(signalled) : status'[signalled[i]] = status[signalled[i]]
  <2> TAKE i \in 1 .. Len(signalled)
  <2>1. signalled[i] \in Range(signalled) /\ signalled[i] \in AsyncReq BY <1>1, ElementOf
  <2> QED BY <1>1, <1>2, <2>1
<1>5. Answers' = Append(Answers, <<Head(queue), st>>)
  <2>1. Answers' = [i \in 1 .. Len(signalled) + 1 |->
                      IF i <= Len(signalled) THEN <<signalled[i], status[signalled[i]]>>
                                             ELSE <<Head(queue), st>>]
    BY <1>1, <1>2, <1>3, <1>4 DEF Answers
  <2>2. Append(Answers, <<Head(queue), st>>) =
          [i \in 1 .. Len(signalled) + 1 |->
             IF i <= Len(signalled) THEN Answers[i] ELSE <<Head(queue), st>>]
    BY <1>1
  <2>3. \A i \in 1 .. Len(signalled) : Answers[i] = <<signalled[i], status[signalled[i]]>>
    BY <1>3 DEF Answers
  <2>4. ASSUME NEW i \in 1 .. Len(signalled) + 1
        PROVE  (IF i <= Len(signalled) THEN <<signalled[i], status[signalled[i]]>>
                                       ELSE <<Head(queue), st>>)
               = (IF i <= Len(signalled) THEN Answers[i] ELSE <<Head(queue), st>>)
    <3>1. i <= Len(signalled) => i \in 1 .. Len(signalled) BY <1>1
    <3> QED BY <2>3, <3>1
  <2> QED BY <2>1, <2>2, <2>4
<1>6. Async!Reply(st) BY <1>2, <1>5 DEF Async!Reply, Answers
<1> QED BY <1>6 DEF Async!ANext, Async!Answering

LEMMA SignalAllFlushes ==
  ASSUME SafetyInv, NEW st \in Failure, SignalAll(st)
  PROVE  Async!ANext
<1>1. /\ signalled \in Seq(AsyncReq) /\ queue \in Seq(AsyncReq)
      /\ Answers \in Seq(AsyncReq \X Status) /\ Len(Answers) = Len(signalled)
      /\ Range(signalled) \cap Range(queue) = {}
  BY AnswersType, QueueFacts
<1>2. /\ queue' = <<>> /\ signalled' = signalled \o queue
      /\ \A r \in Req : status'[r] = IF r \in Range(queue) THEN st ELSE status[r]
  BY DEF SignalAll
<1> DEFINE m == Len(signalled)
           n == Len(queue)
           F == [i \in DOMAIN queue |-> <<queue[i], st>>]
<1>3. /\ DOMAIN signalled' = 1 .. m + n /\ DOMAIN signalled = 1 .. m /\ DOMAIN queue = 1 .. n
      /\ m \in Nat /\ n \in Nat
      /\ \A i \in 1 .. m : signalled'[i] = signalled[i]
      /\ \A i \in m + 1 .. m + n : signalled'[i] = queue[i - m]
  BY <1>1, <1>2
<1>4. \A i \in 1 .. m : status'[signalled[i]] = status[signalled[i]]
  <2> TAKE i \in 1 .. m
  <2>1. signalled[i] \in Range(signalled) /\ signalled[i] \in AsyncReq BY <1>1, ElementOf
  <2> QED BY <1>1, <1>2, <2>1
<1>5. \A i \in 1 .. n : status'[queue[i]] = st
  <2> TAKE i \in 1 .. n
  <2>1. queue[i] \in Range(queue) /\ queue[i] \in AsyncReq BY <1>1, ElementOf
  <2> QED BY <1>2, <2>1
<1>6. \A i \in 1 .. m : Answers[i] = <<signalled[i], status[signalled[i]]>>
  BY <1>3 DEF Answers
<1>7. F \in Seq(AsyncReq \X {st}) /\ Len(F) = n /\ \A i \in 1 .. n : F[i] = <<queue[i], st>>
  BY <1>1, <1>3
<1>8. Answers' = [i \in 1 .. m + n |->
                    IF i <= m THEN <<signalled[i], status[signalled[i]]>>
                              ELSE <<queue[i - m], st>>]
  <2>1. Answers' = [i \in 1 .. m + n |-> <<signalled'[i], status'[signalled'[i]]>>]
    BY <1>3 DEF Answers
  <2>2. ASSUME NEW i \in 1 .. m + n
        PROVE  <<signalled'[i], status'[signalled'[i]]>> =
                 IF i <= m THEN <<signalled[i], status[signalled[i]]>> ELSE <<queue[i - m], st>>
    <3>1. CASE i <= m BY <1>3, <1>4, <3>1
    <3>2. CASE i > m
      <4>1. i \in m + 1 .. m + n /\ i - m \in 1 .. n BY <1>3, <3>2
      <4> QED BY <1>3, <1>5, <3>2, <4>1
    <3> QED BY <1>3, <3>1, <3>2
  <2> QED BY <2>1, <2>2
<1>9. Answers \o F = [i \in 1 .. m + n |-> IF i <= m THEN Answers[i] ELSE F[i - m]]
  <2>1. st \in Status BY DEF Failure, Final, Status
  <2>2. F \in Seq(AsyncReq \X Status) BY <1>1, <1>3, <2>1
  <2>3. Len(Answers) = m /\ Len(F) = n BY <1>1, <1>7
  <2>4. \A p, q \in Seq(AsyncReq \X Status) :
          p \o q = [i \in 1 .. Len(p) + Len(q) |->
                     IF i <= Len(p) THEN p[i] ELSE q[i - Len(p)]]
    BY ConcatAsFunction
  <2> HIDE DEF F, m, n
  <2>5. Answers \o F = [i \in 1 .. Len(Answers) + Len(F) |->
                          IF i <= Len(Answers) THEN Answers[i] ELSE F[i - Len(Answers)]]
    BY <1>1, <2>2, <2>4, Zenon
  <2> QED BY <2>3, <2>5
<1>10. Answers' = Answers \o F
  <2>1. ASSUME NEW i \in 1 .. m + n
        PROVE  (IF i <= m THEN <<signalled[i], status[signalled[i]]>> ELSE <<queue[i - m], st>>)
               = (IF i <= m THEN Answers[i] ELSE F[i - m])
    <3> HIDE DEF F
    <3>1. CASE i <= m BY <1>3, <1>6, <3>1
    <3>2. CASE i > m
      <4>1. i - m \in 1 .. n /\ ~(i <= m) BY <1>3, <3>2
      <4>2. F[i - m] = <<queue[i - m], st>> BY <1>7, <4>1
      <4> QED BY <4>1, <4>2
    <3> QED BY <1>3, <3>1, <3>2
  <2> HIDE DEF F
  <2> QED BY <1>8, <1>9, <2>1
<1>11. Async!Flush(st) BY <1>2, <1>10 DEF Async!Flush, Answers
<1> QED BY <1>11 DEF Async!ANext, Async!Answering

LEMMA InsertTrbAccepts ==
  ASSUME SafetyInv, NEW th \in {"App", "Cb"}, InsertTrb(th)
  PROVE  Async!ANext
<1>1. /\ signalled \in Seq(AsyncReq) /\ Range(accepted) = Range(signalled) \cup Range(queue)
      /\ Len(Answers) = Len(signalled)
  BY AnswersType, QueueFacts
<1>2. cur[th] \in AsyncReq BY DEF SafetyInv, ControlInv, CallControl, InsertTrb, At
<1>3. cur[th] \notin Range(accepted) BY <1>2 DEF SafetyInv, CallerInv
<1>4. Async!Requests(queue) = Range(queue) BY DEF Async!Requests, Range
<1>5. {p[1] : p \in Async!Requests(Answers)} = Range(signalled)
  <2>1. DOMAIN Answers = DOMAIN signalled /\ \A i \in DOMAIN signalled : Answers[i][1] = signalled[i]
    BY DEF Answers
  <2>2. Async!Requests(Answers) = {Answers[i] : i \in DOMAIN Answers} BY DEF Async!Requests
  <2> QED BY <2>1, <2>2 DEF Range
<1>6. cur[th] \notin Async!Asked
  BY <1>1, <1>3, <1>4, <1>5 DEF Async!Asked, Answers
<1>7. queue' = Append(queue, cur[th]) /\ Answers' = Answers
  BY DEF InsertTrb, InsertTail, Answers
<1>8. Async!Accept(cur[th]) BY <1>6, <1>7 DEF Async!Accept, Answers
<1> QED BY <1>2, <1>8 DEF Async!ANext

LEMMA NextImplements ==
  ASSUME SafetyInv, [Next]_vars
  PROVE  [nested' \/ Async!ANext]_(Async!aVars)
<1> SUFFICES ASSUME ~nested' PROVE [Async!ANext]_(Async!aVars) OBVIOUS
<1>1. /\ ~nested /\ QueueInv BY NestedKept DEF SafetyInv, QueueInv, MapInv, Clients
<1>2. /\ StopControl /\ TickControl
      /\ \A r \in Range(signalled) : r \in Req /\ status'[r] = status[r]
  <2>1. Range(signalled) \subseteq AsyncReq BY AnswersType, QueueFacts
  <2>2. \A r \in Range(signalled) : status[r] \in Final BY DEF SafetyInv, QueuedOnce
  <2> QED BY <1>1, <2>1, <2>2, StatusKept DEF SafetyInv, ControlInv
<1>3. ASSUME NEW th \in Thread, Execute(th) PROVE [Async!ANext]_(Async!aVars)
  <2>1. CASE UNCHANGED <<trbVars, cur, logVars>>
    BY <1>2, <2>1, AnswersKept DEF trbVars, logVars
  <2>2. ASSUME NEW st \in {"SUCCESS", "DEVICE_ERROR"}, Finish(th, st)
        PROVE  [Async!ANext]_(Async!aVars)
    <3>1. CASE th = "Tick"
      <4>1. queue # <<>> BY <1>2, <1>3, <3>1, ExecuteShape DEF TickControl, Running
      <4> QED BY <2>2, <3>1, <4>1, AnswerHeadReplies DEF Finish, Final, Failure
    <3>2. CASE th # "Tick" BY <1>2, <2>2, <3>2, AnswersKept DEF Finish, Return
    <3> QED BY <3>1, <3>2
  <2> QED BY <1>3, <2>1, <2>2, ExecuteShape
<1>4. CASE StopAbort
  BY <1>2, <1>4, AnswerHeadReplies DEF StopAbort, At, StopControl, Final, Failure
<1>5. CASE StopFree
  <2>1. queue = <<>> BY <1>1, <1>5 DEF StopFree, At, SafetyInv, AloneInv
  <2> QED BY <1>2, <1>5, <2>1, AnswersKept DEF StopFree
<1>6. CASE ResetDevice BY <1>6, SignalAllFlushes DEF ResetDevice, Failure
<1>7. CASE TickStart \/ Start \/ Stop \/ Controller \/ UNCHANGED vars
  <2>1. UNCHANGED <<queue, signalled>>
    BY <1>7 DEF TickStart, Start, Stop, Controller, HwCommand, HwCommandError, HwData, HwDataError,
       HwFrame, vars, trbVars, logVars
  <2> QED BY <1>2, <2>1, AnswersKept
<1>8. ASSUME NEW th \in {"App", "Cb"},
             CreateTrb(th) \/ CreateTrbFails(th) \/ WaitQueueEmpty(th)
             \/ \E r \in LevelReq(th) : Submit(th, r)
      PROVE  [Async!ANext]_(Async!aVars)
  <2>1. UNCHANGED <<queue, signalled>>
    BY <1>8 DEF CreateTrb, CreateTrbFails, WaitQueueEmpty, Submit, Return, trbVars, logVars
  <2> QED BY <1>2, <2>1, AnswersKept
<1>9. ASSUME NEW th \in {"App", "Cb"}, InsertTrb(th) PROVE [Async!ANext]_(Async!aVars)
  BY <1>9, InsertTrbAccepts
<1> QED
  BY <1>3, <1>4, <1>5, <1>6, <1>7, <1>8, <1>9 DEF Next, Timer, Call, Binding, Thread

\* The driver implements AsyncPassThru as long as no notification function
\* submits a request in the middle of another call: what was queued is answered
\* once, in its turn, and a device reset or Stop answers all that are pending.
THEOREM AsyncCorrect == Spec => ImplementsAsync
<1>1. Init => Async!AInit BY DEF Init, Async!AInit
<1>2. SafetyInv /\ [Next]_vars => [nested' \/ Async!ANext]_(Async!aVars) BY NextImplements
<1> QED BY <1>1, <1>2, SafetyCorrect, PTL DEF Spec, ImplementsAsync
=============================================================================
