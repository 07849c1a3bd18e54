------------------------ MODULE XenonPassThru_proofs ------------------------
\* Proofs about XenonPassThru, for any set of requests, any timeouts and
\* any division of the requests among the task priority levels.
EXTENDS XenonPassThru, SequenceTheorems, TLAPS

\* Request queues and the records made of them: sequences that grow at the
\* tail, shrink at the head and are concatenated, the set of their
\* elements, and sequences without duplicates.

\* Taking the head off a queue leaves a shorter queue of the same elements.
LEMMA HeadTailType ==
  ASSUME NEW S, NEW q \in Seq(S), q # <<>>
  PROVE  Head(q) \in S /\ Tail(q) \in Seq(S)
  BY HeadTailProperties

\* Appending to a queue that has a head leaves it its head.
LEMMA HeadAppend ==
  ASSUME NEW S, NEW q \in Seq(S), NEW e \in S
  PROVE  Append(q, e) # <<>> /\ (q # <<>> => Head(Append(q, e)) = Head(q))
  BY AppendProperties

\* A request moved from the front of the queue to the end of the record of
\* signalled ones leaves their concatenation as it was.
LEMMA MoveHead ==
  ASSUME NEW S, NEW p \in Seq(S), NEW q \in Seq(S), q # <<>>
  PROVE  Append(p, Head(q)) \o Tail(q) = p \o q
<1>1. Head(q) \in S /\ Tail(q) \in Seq(S) BY HeadTailType
<1>2. q = <<Head(q)>> \o Tail(q) BY <1>1
<1>3. Append(p, Head(q)) = p \o <<Head(q)>> BY <1>1
<1>4. (p \o <<Head(q)>>) \o Tail(q) = p \o (<<Head(q)>> \o Tail(q)) BY <1>1
<1> QED BY <1>2, <1>3, <1>4

\* An element appended to the second of two sequences ends both.
LEMMA AppendConcat ==
  ASSUME NEW S, NEW p \in Seq(S), NEW q \in Seq(S), NEW e \in S
  PROVE  p \o Append(q, e) = Append(p \o q, e) /\ Append(q, e) \in Seq(S)
  OBVIOUS

\* The elements of a sequence, by their place.
LEMMA ElementOf ==
  ASSUME NEW S, NEW q \in Seq(S), NEW i \in 1 .. Len(q)
  PROVE  q[i] \in S /\ q[i] \in Range(q)
  BY DEF Range

\* The concatenation, place by place.
LEMMA ConcatAsFunction ==
  ASSUME NEW S, NEW p \in Seq(S), NEW q \in Seq(S)
  PROVE  p \o q = [i \in 1 .. Len(p) + Len(q) |-> IF i <= Len(p) THEN p[i] ELSE q[i - Len(p)]]
<1> DEFINE c == p \o q
<1>1. c \in Seq(S) /\ Len(c) = Len(p) + Len(q) OBVIOUS
<1>2. \A i \in 1 .. Len(p) + Len(q) : c[i] = IF i <= Len(p) THEN p[i] ELSE q[i - Len(p)]
  BY ConcatProperties
<1>3. c = [i \in 1 .. Len(c) |-> c[i]]
  <2> HIDE DEF c
  <2> QED BY <1>1
<1>4. c = [i \in 1 .. Len(p) + Len(q) |-> c[i]]
  <2> HIDE DEF c
  <2> QED BY <1>1, <1>3
<1>5. c = [i \in 1 .. Len(p) + Len(q) |-> IF i <= Len(p) THEN p[i] ELSE q[i - Len(p)]]
  <2> HIDE DEF c
  <2> QED BY <1>4, <1>2
<1> QED BY <1>5

\* The elements of a sequence are of its type.
LEMMA RangeType ==
  ASSUME NEW S, NEW q \in Seq(S)
  PROVE  Range(q) \subseteq S
  BY DEF Range

\* What InsertTailList does to the set of queued elements.
LEMMA RangeAppend ==
  ASSUME NEW S, NEW q \in Seq(S), NEW e \in S
  PROVE  Range(Append(q, e)) = Range(q) \cup {e}
<1>1. /\ DOMAIN Append(q, e) = DOMAIN q \cup {Len(q) + 1}
      /\ \A i \in DOMAIN q : Append(q, e)[i] = q[i]
      /\ Append(q, e)[Len(q) + 1] = e
  OBVIOUS
<1> QED BY <1>1 DEF Range

\* The elements of a concatenation are those of its parts.
LEMMA RangeConcat ==
  ASSUME NEW S, NEW p \in Seq(S), NEW q \in Seq(S)
  PROVE  Range(p \o q) = Range(p) \cup Range(q)
<1>1. /\ \A i \in DOMAIN p : i \in DOMAIN (p \o q) /\ (p \o q)[i] = p[i]
      /\ \A i \in DOMAIN q : Len(p) + i \in DOMAIN (p \o q) /\ (p \o q)[Len(p) + i] = q[i]
  OBVIOUS
<1>2. ASSUME NEW k \in DOMAIN (p \o q)
      PROVE  (p \o q)[k] \in Range(p) \cup Range(q)
  <2>1. CASE k <= Len(p) BY <2>1 DEF Range
  <2>2. CASE k > Len(p)
    <3>1. k - Len(p) \in DOMAIN q /\ (p \o q)[k] = q[k - Len(p)] BY <2>2
    <3> QED BY <3>1 DEF Range
  <2> QED BY <2>1, <2>2
<1>3. Range(p \o q) \subseteq Range(p) \cup Range(q) BY <1>2 DEF Range
<1>4. Range(p) \subseteq Range(p \o q)
  <2> SUFFICES ASSUME NEW x \in Range(p) PROVE x \in Range(p \o q) OBVIOUS
  <2>1. PICK i \in DOMAIN p : p[i] = x BY DEF Range
  <2>2. i \in DOMAIN (p \o q) /\ (p \o q)[i] = x BY <1>1, <2>1
  <2> QED BY <2>2 DEF Range
<1>5. Range(q) \subseteq Range(p \o q)
  <2> SUFFICES ASSUME NEW x \in Range(q) PROVE x \in Range(p \o q) OBVIOUS
  <2>1. PICK i \in DOMAIN q : q[i] = x BY DEF Range
  <2>2. Len(p) + i \in DOMAIN (p \o q) /\ (p \o q)[Len(p) + i] = x BY <1>1, <2>1
  <2> QED BY <2>2 DEF Range
<1> QED BY <1>3, <1>4, <1>5

\* The elements of a queue are its head and those of its tail.
LEMMA RangeHead ==
  ASSUME NEW S, NEW q \in Seq(S), q # <<>>
  PROVE  Range(q) = {Head(q)} \cup Range(Tail(q))
<1>1. Head(q) \in S /\ Tail(q) \in Seq(S) BY HeadTailType
<1>2. q = <<Head(q)>> \o Tail(q) BY <1>1
<1>3. <<Head(q)>> \in Seq(S) /\ Range(<<Head(q)>>) = {Head(q)} BY <1>1 DEF Range
<1>4. \A a, b \in Seq(S) : Range(a \o b) = Range(a) \cup Range(b) BY RangeConcat
<1>5. Range(<<Head(q)>> \o Tail(q)) = Range(<<Head(q)>>) \cup Range(Tail(q))
  BY <1>1, <1>3, <1>4
<1> QED BY <1>2, <1>3, <1>5

\* No element occurs twice.
Distinct(q) == \A i, j \in DOMAIN q : q[i] = q[j] => i = j

\* A new element at the tail leaves a sequence without duplicates.
LEMMA DistinctAppend ==
  ASSUME NEW S, NEW q \in Seq(S), NEW e \in S, Distinct(q), e \notin Range(q)
  PROVE  Distinct(Append(q, e))
  BY DEF Distinct, Range

\* The two parts of a queue without duplicates have none, and are disjoint.
LEMMA DistinctParts ==
  ASSUME NEW S, NEW p \in Seq(S), NEW q \in Seq(S), Distinct(p \o q)
  PROVE  Distinct(p) /\ Distinct(q) /\ Range(p) \cap Range(q) = {}
<1>1. /\ \A i \in DOMAIN p : i \in DOMAIN (p \o q) /\ (p \o q)[i] = p[i]
      /\ \A i \in DOMAIN q : Len(p) + i \in DOMAIN (p \o q) /\ (p \o q)[Len(p) + i] = q[i]
  OBVIOUS
<1>2. Distinct(p) BY <1>1 DEF Distinct
<1>3. Distinct(q)
  <2> SUFFICES ASSUME NEW i \in DOMAIN q, NEW j \in DOMAIN q, q[i] = q[j] PROVE i = j
    BY DEF Distinct
  <2>1. Len(p) + i = Len(p) + j BY <1>1 DEF Distinct
  <2> QED BY <2>1
<1>4. ASSUME NEW i \in DOMAIN p, NEW j \in DOMAIN q PROVE p[i] # q[j]
  <2>1. i # Len(p) + j OBVIOUS
  <2> QED BY <1>1, <2>1 DEF Distinct
<1> QED BY <1>2, <1>3, <1>4 DEF Range

\* The head of a queue without duplicates is not in its tail.
LEMMA DistinctHead ==
  ASSUME NEW S, NEW q \in Seq(S), q # <<>>, Distinct(q)
  PROVE  Head(q) \notin Range(Tail(q))
<1>1. Head(q) \in S /\ Tail(q) \in Seq(S) BY HeadTailType
<1>2. q = <<Head(q)>> \o Tail(q) BY <1>1
<1>3. <<Head(q)>> \in Seq(S) /\ Range(<<Head(q)>>) = {Head(q)} BY <1>1 DEF Range
<1> QED BY <1>1, <1>2, <1>3, DistinctParts

USE ReqAssumption DEF Trb

(* --- The queue and the records made of it --- *)
LEMMA HeadType ==
  ASSUME TrbType, queue # <<>>
  PROVE  Head(queue) \in AsyncReq /\ Tail(queue) \in Seq(AsyncReq)
  BY HeadTailType DEF TrbType

\* NextLink, when there is one, is still in the queue after Link is removed.
LEMMA SecondInTail ==
  ASSUME NEW q \in Seq(AsyncReq), q # <<>>, Second(q) # None
  PROVE  Second(q) \in AsyncReq /\ Tail(q) # <<>>
<1>1. Len(q) > 1 /\ Second(q) = q[2] BY DEF Second
<1>2. Len(Tail(q)) = Len(q) - 1 /\ Len(q) \in Nat BY HeadTailProperties
<1>3. Tail(q) # <<>>
  <2>1. Len(Tail(q)) # 0 BY <1>1, <1>2
  <2>2. Len(<<>>) = 0 OBVIOUS
  <2>3. ASSUME Tail(q) = <<>> PROVE FALSE
    <3>1. Len(Tail(q)) = Len(<<>>) BY <2>3
    <3> QED BY <3>1, <2>1, <2>2
  <2> QED BY <2>3
<1>4. q[2] \in AsyncReq BY <1>1, <1>2
<1> QED BY <1>1, <1>3, <1>4

\* Answering the head, for whatever reason, keeps the types.
LEMMA AnswerHeadType ==
  ASSUME TrbType, LogType, queue # <<>>, NEW st \in Final, AnswerHead(st)
  PROVE  TrbType' /\ LogType'
<1>1. Head(queue) \in AsyncReq /\ Tail(queue) \in Seq(AsyncReq) BY HeadType
<1>2. TrbType' BY <1>1 DEF TrbType, AnswerHead
<1>3. Append(signalled, Head(queue)) \in Seq(AsyncReq) BY <1>1, AppendConcat DEF LogType
<1>4. LogType' BY <1>1, <1>3 DEF LogType, AnswerHead, Status
<1> QED BY <1>2, <1>4

LEMMA NotReadyType ==
  ASSUME TrbType, LogType, queue # <<>>, NotReady(Head(queue))
  PROVE  TrbType' /\ LogType'
<1>1. Head(queue) \in Trb BY HeadType
<1>2. CASE SignalHead("TIMEOUT")
  BY <1>2, AnswerHeadType DEF SignalHead, Final, Failure
<1>3. CASE ~SignalHead("TIMEOUT")
  <2>1. ~(Timeout[Head(queue)] # 0 /\ left[Head(queue)] = 0) BY <1>3 DEF NotReady
  <2>2. left' = IF Timeout[Head(queue)] = 0 THEN left
                ELSE [left EXCEPT ![Head(queue)] = @ - 1]
    BY <2>1 DEF NotReady
  <2>3. UNCHANGED <<queue, started, mapped, logVars>> BY <2>1 DEF NotReady
  <2>4. left' \in [Trb -> Nat] BY <1>1, <2>1, <2>2 DEF TrbType
  <2> QED BY <2>3, <2>4 DEF TrbType, LogType, logVars
<1> QED BY <1>2, <1>3

(* --- Every action keeps the types and the control invariant --- *)
LEMMA TickRefuseInd ==
  ASSUME IndInv, TickRefuse
  PROVE  IndInv'
<1>1. TrbType'
  BY NotReadyType, AnswerHeadType DEF IndInv, TypeOK, ControlInv, TickRefuse, SignalHead,
       Final, Failure
<1>2. LogType'
  BY NotReadyType, AnswerHeadType DEF IndInv, TypeOK, ControlInv, TickRefuse, SignalHead,
       Final, Failure
<1>3. HistoryType'
  BY DEF IndInv, TypeOK, ControlInv, TickRefuse, NotReady, AnswerHead, SignalHead, Orphaned,
       OnBus, HistoryType, Goto, Thread, Label, Status, Final, Failure, Err, Working
<1>4. TickControl'
  BY DEF IndInv, TypeOK, ControlInv, TickRefuse, NotReady, AnswerHead, SignalHead, Orphaned,
       OnBus, TickControl, driverVars, thrVars, trbVars, Goto, Thread, Label, Status, Final,
       Failure, Err, Working
<1>5. StopControl'
  BY DEF IndInv, TypeOK, ControlInv, TickRefuse, NotReady, AnswerHead, SignalHead, Orphaned,
       OnBus, StopControl, TickControl, driverVars, thrVars, trbVars, Goto, Thread, Label,
       Status, Final, Failure, Err, Working
<1>6. DriverType' /\ ThreadType' /\ HwType' /\ CardType'
  BY DEF IndInv, TypeOK, ControlInv, TickRefuse, NotReady, AnswerHead, SignalHead, Orphaned,
       OnBus, DriverType, ThreadType, HwType, CardType, cardVars, driverVars, hwVars,
       thrVars
<1>7. CallControl' /\ IdentControl'
  BY DEF IndInv, TypeOK, ControlInv, TickRefuse, NotReady, AnswerHead, SignalHead, Orphaned,
       OnBus, CallControl, IdentControl, driverVars, thrVars
<1> QED BY <1>1, <1>2, <1>3, <1>4, <1>5, <1>6, <1>7 DEF IndInv, TypeOK, ControlInv

LEMMA TickExecInd ==
  ASSUME IndInv, TickExec
  PROVE  IndInv'
<1>1. TrbType'
  BY HeadTailType DEF IndInv, TypeOK, ControlInv, TickExec, EnvReady, ProgramTrb,
       WriteCommand, TrbType, trbVars, Goto, Thread, Label, Status, Final, Failure, Err,
       Working
<1>2. ThreadType'
  BY DEF IndInv, TypeOK, ControlInv, TickExec, EnvReady, ProgramTrb, WriteCommand,
       ThreadType, thrVars, Goto, Thread, Label, Status, Final, Failure, Err, Working
<1>3. HwType'
  BY HeadTailType DEF IndInv, TypeOK, ControlInv, TickExec, EnvReady, ProgramTrb,
       WriteCommand, HwType, TrbType, hwVars, trbVars, Goto, Thread, Label, Status, Final,
       Failure, Err, Working
<1>4. HistoryType'
  BY DEF IndInv, TypeOK, ControlInv, TickExec, EnvReady, ProgramTrb, WriteCommand,
       HistoryType, Goto, Thread, Label, Status, Final, Failure, Err, Working
<1>5. TickControl'
  BY DEF IndInv, TypeOK, ControlInv, TickExec, EnvReady, ProgramTrb, WriteCommand,
       TickControl, ThreadType, driverVars, thrVars, trbVars, Goto, Thread, Label, Status,
       Final, Failure, Err, Working
<1>6. StopControl'
  BY DEF IndInv, TypeOK, ControlInv, TickExec, EnvReady, ProgramTrb, WriteCommand,
       StopControl, ThreadType, driverVars, thrVars, trbVars, Goto, Thread, Label, Status,
       Final, Failure, Err, Working
<1>7. CallControl'
  BY DEF IndInv, TypeOK, ControlInv, TickExec, EnvReady, ProgramTrb, WriteCommand,
       CallControl, ThreadType, thrVars, Goto, Thread, Label, Status, Final, Failure, Err,
       Working
<1>8. IdentControl'
  BY DEF IndInv, TypeOK, ControlInv, TickExec, EnvReady, ProgramTrb, WriteCommand,
       IdentControl, ThreadType, driverVars, thrVars, Goto, Thread, Label, Status, Final,
       Failure, Err, Working
<1>9. DriverType' /\ CardType' /\ LogType'
  BY DEF IndInv, TypeOK, ControlInv, TickExec, EnvReady, ProgramTrb, WriteCommand,
       DriverType, CardType, LogType, cardVars, driverVars, logVars
<1> QED BY <1>1, <1>2, <1>3, <1>4, <1>5, <1>6, <1>7, <1>8, <1>9 DEF IndInv, TypeOK,
       ControlInv

LEMMA TickCheckInd ==
  ASSUME IndInv, TickCheck
  PROVE  IndInv'
<1>1. TrbType'
  BY NotReadyType, AnswerHeadType DEF IndInv, TypeOK, ControlInv, TickCheck, TickControl,
       CheckTrbResult, Final, Failure
<1>2. ThreadType'
  BY DEF IndInv, TypeOK, ControlInv, TickCheck, NotReady, RecoverLines, CheckTrbResult,
       TickIdle, OrphanedAfter, AnswerHead, SignalHead, Orphaned, OnBus, ThreadType,
       thrVars, Goto, Thread, Label, Status, Final, Failure, Err, Working
<1>3. HwType'
  BY DEF IndInv, TypeOK, ControlInv, TickCheck, NotReady, RecoverLines, CheckTrbResult,
       TickIdle, OrphanedAfter, AnswerHead, SignalHead, Orphaned, OnBus, HwType, hwVars,
       Goto, Thread, Label, Status, Final, Failure, Err, Working
<1>4. LogType'
  BY NotReadyType, AnswerHeadType DEF IndInv, TypeOK, ControlInv, TickCheck, TickControl,
       CheckTrbResult, Final, Failure
<1>5. HistoryType'
  BY DEF IndInv, TypeOK, ControlInv, TickCheck, NotReady, RecoverLines, CheckTrbResult,
       TickIdle, OrphanedAfter, AnswerHead, SignalHead, Orphaned, OnBus, HistoryType, Goto,
       Thread, Label, Status, Final, Failure, Err, Working
<1>6. TickControl'
  BY DEF IndInv, TypeOK, ControlInv, TickCheck, NotReady, RecoverLines, CheckTrbResult,
       TickIdle, OrphanedAfter, AnswerHead, SignalHead, Orphaned, OnBus, TickControl,
       ThreadType, driverVars, thrVars, trbVars, Goto, Thread, Label, Status, Final,
       Failure, Err, Working
<1>7. StopControl'
  BY DEF IndInv, TypeOK, ControlInv, TickCheck, NotReady, RecoverLines, CheckTrbResult,
       TickIdle, OrphanedAfter, AnswerHead, SignalHead, Orphaned, OnBus, StopControl,
       TickControl, ThreadType, driverVars, thrVars, trbVars, Goto, Thread, Label, Status,
       Final, Failure, Err, Working
<1>8. CallControl'
  BY DEF IndInv, TypeOK, ControlInv, TickCheck, NotReady, RecoverLines, CheckTrbResult,
       TickIdle, OrphanedAfter, AnswerHead, SignalHead, Orphaned, OnBus, CallControl,
       ThreadType, thrVars, Goto, Thread, Label, Status, Final, Failure, Err, Working
<1>9. IdentControl'
  BY DEF IndInv, TypeOK, ControlInv, TickCheck, NotReady, RecoverLines, CheckTrbResult,
       TickIdle, OrphanedAfter, AnswerHead, SignalHead, Orphaned, OnBus, IdentControl,
       ThreadType, driverVars, thrVars, Goto, Thread, Label, Status, Final, Failure, Err,
       Working
<1>10. DriverType' /\ CardType'
  BY DEF IndInv, TypeOK, ControlInv, TickCheck, NotReady, RecoverLines, CheckTrbResult,
       TickIdle, OrphanedAfter, AnswerHead, SignalHead, Orphaned, OnBus, DriverType,
       CardType, cardVars, driverVars
<1> QED BY <1>1, <1>2, <1>3, <1>4, <1>5, <1>6, <1>7, <1>8, <1>9, <1>10 DEF IndInv, TypeOK,
       ControlInv

LEMMA EnumerateRemovedInd ==
  ASSUME IndInv, EnumerateRemoved
  PROVE  IndInv'
<1>1. DriverType'
  BY DEF IndInv, TypeOK, ControlInv, EnumerateRemoved, EnumerateGuard, SignalAll, Orphaned,
       OnBus, DriverType, driverVars, Goto, Thread, Label, Status, Final, Failure, Err,
       Working
<1>2. TrbType'
  BY DEF IndInv, TypeOK, ControlInv, EnumerateRemoved, EnumerateGuard, SignalAll, Orphaned,
       OnBus, TrbType, trbVars, Goto, Thread, Label, Status, Final, Failure, Err, Working
<1>3. CardType'
  BY DEF IndInv, TypeOK, ControlInv, EnumerateRemoved, EnumerateGuard, SignalAll, Orphaned,
       OnBus, CardType, cardVars, Goto, Thread, Label, Status, Final, Failure, Err, Working
<1>4. LogType'
  BY DEF IndInv, TypeOK, ControlInv, EnumerateRemoved, EnumerateGuard, SignalAll, Orphaned,
       OnBus, LogType, TrbType, logVars, trbVars, Goto, Thread, Label, Status, Final,
       Failure, Err, Working
<1>5. HistoryType'
  BY DEF IndInv, TypeOK, ControlInv, EnumerateRemoved, EnumerateGuard, SignalAll, Orphaned,
       OnBus, HistoryType, Goto, Thread, Label, Status, Final, Failure, Err, Working
<1>6. TickControl'
  BY DEF IndInv, TypeOK, ControlInv, EnumerateRemoved, EnumerateGuard, SignalAll, Orphaned,
       OnBus, TickControl, CanRun, Above, driverVars, thrVars, trbVars, Goto, Thread, Label,
       Status, Final, Failure, Err, Working
<1>7. StopControl'
  BY DEF IndInv, TypeOK, ControlInv, EnumerateRemoved, EnumerateGuard, SignalAll, Orphaned,
       OnBus, StopControl, driverVars, thrVars, trbVars, Goto, Thread, Label, Status, Final,
       Failure, Err, Working
<1>8. ThreadType' /\ HwType' /\ CallControl' /\ IdentControl'
  BY DEF IndInv, TypeOK, ControlInv, EnumerateRemoved, EnumerateGuard, SignalAll, Orphaned,
       OnBus, ThreadType, HwType, CallControl, IdentControl, driverVars, hwVars, thrVars
<1> QED BY <1>1, <1>2, <1>3, <1>4, <1>5, <1>6, <1>7, <1>8 DEF IndInv, TypeOK, ControlInv

LEMMA EnumerateInsertedInd ==
  ASSUME IndInv, EnumerateInserted
  PROVE  IndInv'
<1>1. DriverType'
  BY DEF IndInv, TypeOK, ControlInv, EnumerateInserted, EnumerateGuard, HcReset, DriverType,
       driverVars, Goto, Thread, Label, Status, Final, Failure, Err, Working
<1>2. ThreadType'
  BY DEF IndInv, TypeOK, ControlInv, EnumerateInserted, EnumerateGuard, HcReset, ThreadType,
       thrVars, Goto, Thread, Label, Status, Final, Failure, Err, Working
<1>3. HwType'
  BY DEF IndInv, TypeOK, ControlInv, EnumerateInserted, EnumerateGuard, HcReset, HwType,
       hwVars, Goto, Thread, Label, Status, Final, Failure, Err, Working
<1>4. CardType'
  BY DEF IndInv, TypeOK, ControlInv, EnumerateInserted, EnumerateGuard, HcReset, CardType,
       cardVars, Goto, Thread, Label, Status, Final, Failure, Err, Working
<1>5. HistoryType'
  BY DEF IndInv, TypeOK, ControlInv, EnumerateInserted, EnumerateGuard, HcReset,
       HistoryType, Goto, Thread, Label, Status, Final, Failure, Err, Working
<1>6. TickControl'
  BY DEF IndInv, TypeOK, ControlInv, EnumerateInserted, EnumerateGuard, HcReset,
       TickControl, ThreadType, driverVars, thrVars, trbVars, Goto, Thread, Label, Status,
       Final, Failure, Err, Working
<1>7. StopControl'
  BY DEF IndInv, TypeOK, ControlInv, EnumerateInserted, EnumerateGuard, HcReset,
       StopControl, ThreadType, driverVars, thrVars, trbVars, Goto, Thread, Label, Status,
       Final, Failure, Err, Working
<1>8. CallControl'
  BY DEF IndInv, TypeOK, ControlInv, EnumerateInserted, EnumerateGuard, HcReset,
       CallControl, ThreadType, thrVars, Goto, Thread, Label, Status, Final, Failure, Err,
       Working
<1>9. IdentControl'
  BY DEF IndInv, TypeOK, ControlInv, EnumerateInserted, EnumerateGuard, HcReset,
       IdentControl, ThreadType, driverVars, thrVars, Goto, Thread, Label, Status, Final,
       Failure, Err, Working
<1>10. TrbType' /\ LogType'
  BY DEF IndInv, TypeOK, ControlInv, EnumerateInserted, EnumerateGuard, HcReset, TrbType,
       LogType, logVars, trbVars
<1> QED BY <1>1, <1>2, <1>3, <1>4, <1>5, <1>6, <1>7, <1>8, <1>9, <1>10 DEF IndInv, TypeOK,
       ControlInv

LEMMA EnumerateInitFailsInd ==
  ASSUME IndInv, EnumerateInitFails
  PROVE  IndInv'
<1>1. HwType'
  BY DEF IndInv, TypeOK, ControlInv, EnumerateInitFails, EnumerateGuard, HcReset, HwType,
       hwVars, Goto, Thread, Label, Status, Final, Failure, Err, Working
<1>2. CardType'
  BY DEF IndInv, TypeOK, ControlInv, EnumerateInitFails, EnumerateGuard, HcReset, CardType,
       cardVars, Goto, Thread, Label, Status, Final, Failure, Err, Working
<1>3. HistoryType'
  BY DEF IndInv, TypeOK, ControlInv, EnumerateInitFails, EnumerateGuard, HcReset,
       HistoryType, Goto, Thread, Label, Status, Final, Failure, Err, Working
<1>4. DriverType' /\ TrbType' /\ ThreadType' /\ LogType'
  BY DEF IndInv, TypeOK, ControlInv, EnumerateInitFails, EnumerateGuard, HcReset,
       DriverType, TrbType, ThreadType, LogType, driverVars, logVars, thrVars, trbVars
<1>5. TickControl' /\ StopControl' /\ CallControl' /\ IdentControl'
  BY DEF IndInv, TypeOK, ControlInv, EnumerateInitFails, EnumerateGuard, HcReset,
       TickControl, StopControl, CallControl, IdentControl, driverVars, thrVars, trbVars
<1> QED BY <1>1, <1>2, <1>3, <1>4, <1>5 DEF IndInv, TypeOK, ControlInv

LEMMA StartInd ==
  ASSUME IndInv, Start
  PROVE  IndInv'
<1>1. DriverType'
  BY DEF IndInv, TypeOK, ControlInv, Start, DriverType, driverVars, Goto, Thread, Label,
       Status, Final, Failure, Err, Working
<1>2. ThreadType'
  BY DEF IndInv, TypeOK, ControlInv, Start, ThreadType, thrVars, Goto, Thread, Label,
       Status, Final, Failure, Err, Working
<1>3. CardType'
  BY DEF IndInv, TypeOK, ControlInv, Start, CardType, cardVars, Goto, Thread, Label, Status,
       Final, Failure, Err, Working
<1>4. TickControl'
  BY DEF IndInv, TypeOK, ControlInv, Start, TickControl, ThreadType, CanRun, Above,
       driverVars, thrVars, trbVars, Goto, Thread, Label, Status, Final, Failure, Err,
       Working
<1>5. StopControl'
  BY DEF IndInv, TypeOK, ControlInv, Start, StopControl, ThreadType, driverVars, thrVars,
       trbVars, Goto, Thread, Label, Status, Final, Failure, Err, Working
<1>6. CallControl'
  BY DEF IndInv, TypeOK, ControlInv, Start, CallControl, ThreadType, thrVars, Goto, Thread,
       Label, Status, Final, Failure, Err, Working
<1>7. IdentControl'
  BY DEF IndInv, TypeOK, ControlInv, Start, IdentControl, ThreadType, driverVars, thrVars,
       Goto, Thread, Label, Status, Final, Failure, Err, Working
<1>8. TrbType' /\ HwType' /\ LogType' /\ HistoryType'
  BY DEF IndInv, TypeOK, ControlInv, Start, TrbType, HwType, LogType, HistoryType, hwVars,
       logVars, trbVars
<1> QED BY <1>1, <1>2, <1>3, <1>4, <1>5, <1>6, <1>7, <1>8 DEF IndInv, TypeOK, ControlInv

LEMMA StopInd ==
  ASSUME IndInv, Stop
  PROVE  IndInv'
<1>1. DriverType'
  BY HeadTailType DEF IndInv, TypeOK, ControlInv, Stop, DriverType, TrbType, driverVars,
       trbVars, Goto, Thread, Label, Status, Final, Failure, Err, Working
<1>2. ThreadType'
  BY DEF IndInv, TypeOK, ControlInv, Stop, ThreadType, thrVars, Goto, Thread, Label, Status,
       Final, Failure, Err, Working
<1>3. TickControl'
  BY DEF IndInv, TypeOK, ControlInv, Stop, TickControl, ThreadType, CanRun, Above,
       driverVars, thrVars, trbVars, Goto, Thread, Label, Status, Final, Failure, Err,
       Working
<1>4. StopControl'
  BY DEF IndInv, TypeOK, ControlInv, Stop, StopControl, ThreadType, driverVars, thrVars,
       trbVars, Goto, Thread, Label, Status, Final, Failure, Err, Working
<1>5. CallControl'
  BY DEF IndInv, TypeOK, ControlInv, Stop, CallControl, ThreadType, thrVars, Goto, Thread,
       Label, Status, Final, Failure, Err, Working
<1>6. IdentControl'
  BY DEF IndInv, TypeOK, ControlInv, Stop, IdentControl, ThreadType, CanRun, Above,
       CallControl, driverVars, thrVars, Goto, Thread, Label, Status, Final, Failure, Err,
       Working
<1>7. TrbType' /\ HwType' /\ CardType' /\ LogType'
  BY DEF IndInv, TypeOK, ControlInv, Stop, TrbType, HwType, CardType, LogType, cardVars,
       hwVars, logVars, trbVars
<1>8. HistoryType'
  BY DEF IndInv, TypeOK, ControlInv, Stop, HistoryType
<1> QED BY <1>1, <1>2, <1>3, <1>4, <1>5, <1>6, <1>7, <1>8 DEF IndInv, TypeOK, ControlInv

LEMMA StopAbortInd ==
  ASSUME IndInv, StopAbort
  PROVE  IndInv'
<1>1. DriverType'
  BY SecondInTail DEF IndInv, TypeOK, ControlInv, StopAbort, StopControl, DriverType,
       TrbType, Second
<1>2. TrbType'
  BY AnswerHeadType DEF IndInv, TypeOK, ControlInv, StopAbort, SignalHead, StopControl,
       Final, Failure, Second
<1>3. LogType'
  BY AnswerHeadType DEF IndInv, TypeOK, ControlInv, StopAbort, SignalHead, StopControl,
       Final, Failure, Second
<1>4. HistoryType'
  BY DEF IndInv, TypeOK, ControlInv, StopAbort, Second, AnswerHead, SignalHead, Orphaned,
       OnBus, HistoryType, Goto, Thread, Label, Status, Final, Failure, Err, Working
<1>5. TickControl'
  BY DEF IndInv, TypeOK, ControlInv, StopAbort, Second, AnswerHead, SignalHead, Orphaned,
       OnBus, TickControl, StopControl, driverVars, thrVars, trbVars, Goto, Thread, Label,
       Status, Final, Failure, Err, Working
<1>6. StopControl'
  BY SecondInTail DEF IndInv, TypeOK, ControlInv, StopAbort, StopControl, TrbType,
       SignalHead, AnswerHead, thrVars, Second
<1>7. ThreadType' /\ HwType' /\ CardType' /\ CallControl'
  BY DEF IndInv, TypeOK, ControlInv, StopAbort, Second, AnswerHead, SignalHead, Orphaned,
       OnBus, ThreadType, HwType, CardType, CallControl, cardVars, hwVars, thrVars
<1>8. IdentControl'
  BY DEF IndInv, TypeOK, ControlInv, StopAbort, Second, AnswerHead, SignalHead, Orphaned,
       OnBus, IdentControl, driverVars, thrVars
<1> QED BY <1>1, <1>2, <1>3, <1>4, <1>5, <1>6, <1>7, <1>8 DEF IndInv, TypeOK, ControlInv

LEMMA StopFreeInd ==
  ASSUME IndInv, StopFree
  PROVE  IndInv'
<1>1. DriverType'
  BY DEF IndInv, TypeOK, ControlInv, StopFree, DriverType, driverVars, Goto, Thread, Label,
       Status, Final, Failure, Err, Working
<1>2. TrbType'
  BY DEF IndInv, TypeOK, ControlInv, StopFree, TrbType, trbVars, Goto, Thread, Label,
       Status, Final, Failure, Err, Working
<1>3. ThreadType'
  BY DEF IndInv, TypeOK, ControlInv, StopFree, ThreadType, thrVars, Goto, Thread, Label,
       Status, Final, Failure, Err, Working
<1>4. LogType'
  BY RangeType DEF IndInv, TypeOK, ControlInv, StopFree, LogType, TrbType
<1>5. TickControl'
  BY DEF IndInv, TypeOK, ControlInv, StopFree, TickControl, ThreadType, CanRun, Above,
       driverVars, thrVars, trbVars, Goto, Thread, Label, Status, Final, Failure, Err,
       Working
<1>6. StopControl'
  BY DEF IndInv, TypeOK, ControlInv, StopFree, StopControl, ThreadType, driverVars, thrVars,
       trbVars, Goto, Thread, Label, Status, Final, Failure, Err, Working
<1>7. CallControl'
  BY DEF IndInv, TypeOK, ControlInv, StopFree, CallControl, ThreadType, thrVars, Goto,
       Thread, Label, Status, Final, Failure, Err, Working
<1>8. IdentControl'
  BY DEF IndInv, TypeOK, ControlInv, StopFree, IdentControl, ThreadType, CanRun, Above,
       StopControl, driverVars, thrVars, trbVars, Goto, Thread, Label, Status, Final,
       Failure, Err, Working
<1>9. HwType' /\ CardType' /\ HistoryType'
  BY DEF IndInv, TypeOK, ControlInv, StopFree, HwType, CardType, HistoryType, cardVars,
       hwVars
<1> QED BY <1>1, <1>2, <1>3, <1>4, <1>5, <1>6, <1>7, <1>8, <1>9 DEF IndInv, TypeOK,
       ControlInv

LEMMA ResetDeviceInd ==
  ASSUME IndInv, ResetDevice
  PROVE  IndInv'
<1>1. TrbType'
  BY DEF IndInv, TypeOK, ControlInv, ResetDevice, SignalAll, Orphaned, OnBus, TrbType,
       trbVars, Goto, Thread, Label, Status, Final, Failure, Err, Working
<1>2. LogType'
  BY DEF IndInv, TypeOK, ControlInv, ResetDevice, SignalAll, Orphaned, OnBus, LogType,
       TrbType, logVars, trbVars, Goto, Thread, Label, Status, Final, Failure, Err, Working
<1>3. HistoryType'
  BY DEF IndInv, TypeOK, ControlInv, ResetDevice, SignalAll, Orphaned, OnBus, HistoryType,
       Goto, Thread, Label, Status, Final, Failure, Err, Working
<1>4. TickControl'
  BY DEF IndInv, TypeOK, ControlInv, ResetDevice, SignalAll, Orphaned, OnBus, TickControl,
       CanRun, Above, driverVars, thrVars, trbVars, Goto, Thread, Label, Status, Final,
       Failure, Err, Working
<1>5. StopControl'
  BY DEF IndInv, TypeOK, ControlInv, ResetDevice, SignalAll, Orphaned, OnBus, StopControl,
       driverVars, thrVars, trbVars, Goto, Thread, Label, Status, Final, Failure, Err,
       Working
<1>6. DriverType' /\ ThreadType' /\ HwType' /\ CardType'
  BY DEF IndInv, TypeOK, ControlInv, ResetDevice, SignalAll, Orphaned, OnBus, DriverType,
       ThreadType, HwType, CardType, cardVars, driverVars, hwVars, thrVars
<1>7. CallControl' /\ IdentControl'
  BY DEF IndInv, TypeOK, ControlInv, ResetDevice, SignalAll, Orphaned, OnBus, CallControl,
       IdentControl, driverVars, thrVars
<1> QED BY <1>1, <1>2, <1>3, <1>4, <1>5, <1>6, <1>7 DEF IndInv, TypeOK, ControlInv

LEMMA HwResponseInd ==
  ASSUME IndInv, HwResponse
  PROVE  IndInv'
<1>f. UNCHANGED <<driverVars, trbVars, thrVars, cardVars, logVars, starts>>
  BY DEF HwResponse
<1>1. HwType'
  BY DEF IndInv, TypeOK, ControlInv, HwResponse, HwType, hwVars, Goto, Thread, Label,
       Status, Final, Failure, Err, Working
<1>2. HistoryType'
  BY DEF IndInv, TypeOK, ControlInv, HwResponse, HistoryType, HwType, hwVars, Goto, Thread,
       Label, Status, Final, Failure, Err, Working
<1>3. DriverType' /\ TrbType' /\ ThreadType' /\ CardType'
  BY <1>f DEF IndInv, TypeOK, ControlInv, DriverType, TrbType, ThreadType, CardType,
       cardVars, driverVars, thrVars, trbVars
<1>4. LogType' /\ TickControl' /\ StopControl' /\ CallControl'
  BY <1>f DEF IndInv, TypeOK, ControlInv, LogType, TickControl, StopControl, CallControl,
       driverVars, logVars, thrVars, trbVars
<1>5. IdentControl'
  BY <1>f DEF IndInv, TypeOK, ControlInv, IdentControl, driverVars, thrVars
<1> QED BY <1>1, <1>2, <1>3, <1>4, <1>5 DEF IndInv, TypeOK, ControlInv

LEMMA HwCmdErrorInd ==
  ASSUME IndInv, HwCmdError
  PROVE  IndInv'
<1>f. UNCHANGED <<driverVars, trbVars, thrVars, cardVars, logVars, done, causes, starts>>
  BY DEF HwCmdError
<1>1. HwType'
  BY DEF IndInv, TypeOK, ControlInv, HwCmdError, HwType, hwVars, Goto, Thread, Label,
       Status, Final, Failure, Err, Working
<1>2. DriverType' /\ TrbType' /\ ThreadType' /\ CardType'
  BY <1>f DEF IndInv, TypeOK, ControlInv, DriverType, TrbType, ThreadType, CardType,
       cardVars, driverVars, thrVars, trbVars
<1>3. LogType' /\ HistoryType' /\ TickControl' /\ StopControl'
  BY <1>f DEF IndInv, TypeOK, ControlInv, LogType, HistoryType, TickControl, StopControl,
       driverVars, logVars, thrVars, trbVars
<1>4. CallControl' /\ IdentControl'
  BY <1>f DEF IndInv, TypeOK, ControlInv, CallControl, IdentControl, driverVars, thrVars
<1> QED BY <1>1, <1>2, <1>3, <1>4 DEF IndInv, TypeOK, ControlInv

LEMMA HwTransferInd ==
  ASSUME IndInv, HwTransfer
  PROVE  IndInv'
<1>f. UNCHANGED <<driverVars, trbVars, thrVars, cardVars, logVars, starts>>
  BY DEF HwTransfer
<1>1. HwType'
  BY DEF IndInv, TypeOK, ControlInv, HwTransfer, HwType, hwVars, Goto, Thread, Label,
       Status, Final, Failure, Err, Working
<1>2. HistoryType'
  BY DEF IndInv, TypeOK, ControlInv, HwTransfer, HistoryType, HwType, hwVars, Goto, Thread,
       Label, Status, Final, Failure, Err, Working
<1>3. DriverType' /\ TrbType' /\ ThreadType' /\ CardType'
  BY <1>f DEF IndInv, TypeOK, ControlInv, DriverType, TrbType, ThreadType, CardType,
       cardVars, driverVars, thrVars, trbVars
<1>4. LogType' /\ TickControl' /\ StopControl' /\ CallControl'
  BY <1>f DEF IndInv, TypeOK, ControlInv, LogType, TickControl, StopControl, CallControl,
       driverVars, logVars, thrVars, trbVars
<1>5. IdentControl'
  BY <1>f DEF IndInv, TypeOK, ControlInv, IdentControl, driverVars, thrVars
<1> QED BY <1>1, <1>2, <1>3, <1>4, <1>5 DEF IndInv, TypeOK, ControlInv

LEMMA HwDatErrorInd ==
  ASSUME IndInv, HwDatError
  PROVE  IndInv'
<1>f. UNCHANGED <<driverVars, trbVars, thrVars, cardVars, logVars, done, causes, starts>>
  BY DEF HwDatError
<1>1. HwType'
  BY DEF IndInv, TypeOK, ControlInv, HwDatError, HwType, hwVars, Goto, Thread, Label,
       Status, Final, Failure, Err, Working
<1>2. DriverType' /\ TrbType' /\ ThreadType' /\ CardType'
  BY <1>f DEF IndInv, TypeOK, ControlInv, DriverType, TrbType, ThreadType, CardType,
       cardVars, driverVars, thrVars, trbVars
<1>3. LogType' /\ HistoryType' /\ TickControl' /\ StopControl'
  BY <1>f DEF IndInv, TypeOK, ControlInv, LogType, HistoryType, TickControl, StopControl,
       driverVars, logVars, thrVars, trbVars
<1>4. CallControl' /\ IdentControl'
  BY <1>f DEF IndInv, TypeOK, ControlInv, CallControl, IdentControl, driverVars, thrVars
<1> QED BY <1>1, <1>2, <1>3, <1>4 DEF IndInv, TypeOK, ControlInv

LEMMA CardEventInd ==
  ASSUME IndInv, CardEvent
  PROVE  IndInv'
<1>f. UNCHANGED <<driverVars, trbVars, thrVars, hwVars, logVars, done, causes, starts>>
  BY DEF CardEvent
<1>1. CardType'
  BY DEF IndInv, TypeOK, ControlInv, CardEvent, CardType, cardVars, Goto, Thread, Label,
       Status, Final, Failure, Err, Working
<1>2. DriverType' /\ TrbType' /\ ThreadType' /\ HwType'
  BY <1>f DEF IndInv, TypeOK, ControlInv, DriverType, TrbType, ThreadType, HwType,
       driverVars, hwVars, thrVars, trbVars
<1>3. LogType' /\ HistoryType' /\ TickControl' /\ StopControl'
  BY <1>f DEF IndInv, TypeOK, ControlInv, LogType, HistoryType, TickControl, StopControl,
       driverVars, logVars, thrVars, trbVars
<1>4. CallControl' /\ IdentControl'
  BY <1>f DEF IndInv, TypeOK, ControlInv, CallControl, IdentControl, driverVars, thrVars
<1> QED BY <1>1, <1>2, <1>3, <1>4 DEF IndInv, TypeOK, ControlInv

LEMMA SubmitInd ==
  ASSUME NEW th \in {"App", "Cb"}, NEW r \in LevelReq(th), IndInv, Submit(th, r)
  PROVE  IndInv'
<1>1. ThreadType'
  BY DEF IndInv, TypeOK, ControlInv, Submit, SlotStatus, LevelReq, ThreadType, thrVars,
       Goto, Thread, Label, Status, Final, Failure, Err, Working
<1>2. LogType'
  BY DEF IndInv, TypeOK, ControlInv, Submit, SlotStatus, LevelReq, LogType, logVars, Goto,
       Thread, Label, Status, Final, Failure, Err, Working
<1>3. TickControl'
  BY DEF IndInv, TypeOK, ControlInv, Submit, SlotStatus, LevelReq, TickControl, ThreadType,
       driverVars, thrVars, trbVars, Goto, Thread, Label, Status, Final, Failure, Err,
       Working
<1>4. StopControl'
  BY DEF IndInv, TypeOK, ControlInv, Submit, SlotStatus, LevelReq, StopControl, ThreadType,
       driverVars, thrVars, trbVars, Goto, Thread, Label, Status, Final, Failure, Err,
       Working
<1>5. CallControl'
  BY DEF IndInv, TypeOK, ControlInv, Submit, SlotStatus, LevelReq, CallControl, ThreadType,
       thrVars, Goto, Thread, Label, Status, Final, Failure, Err, Working
<1>6. IdentControl'
  BY DEF IndInv, TypeOK, ControlInv, Submit, SlotStatus, LevelReq, IdentControl, ThreadType,
       CallControl, driverVars, thrVars, Goto, Thread, Label, Status, Final, Failure, Err,
       Working
<1>7. DriverType' /\ TrbType' /\ HwType' /\ CardType'
  BY DEF IndInv, TypeOK, ControlInv, Submit, DriverType, TrbType, HwType, CardType,
       cardVars, driverVars, hwVars, trbVars
<1>8. HistoryType'
  BY DEF IndInv, TypeOK, ControlInv, Submit, HistoryType
<1> QED BY <1>1, <1>2, <1>3, <1>4, <1>5, <1>6, <1>7, <1>8 DEF IndInv, TypeOK, ControlInv

LEMMA CreateTrbInd ==
  ASSUME NEW th \in {"App", "Cb"}, IndInv, CreateTrb(th)
  PROVE  IndInv'
<1>a. cur[th] \in Trb
  BY DEF IndInv, ControlInv, CallControl, CreateTrb, Working, Thread
<1>b. cur[th] \in AsyncReq => /\ Append(queue, cur[th]) \in Seq(AsyncReq)
                             /\ Append(accepted, cur[th]) \in Seq(AsyncReq)
  BY AppendConcat DEF IndInv, TypeOK, TrbType, LogType
<1>1. TrbType'
  BY <1>a, <1>b DEF IndInv, TypeOK, ControlInv, CreateTrb, TrbType, InsertTail
<1>2. ThreadType'
  BY DEF IndInv, TypeOK, ControlInv, CreateTrb, InsertTail, ThreadType, thrVars, Goto,
       Thread, Label, Status, Final, Failure, Err, Working
<1>3. LogType'
  BY <1>a, <1>b DEF IndInv, TypeOK, ControlInv, CreateTrb, LogType, InsertTail
<1>4. HistoryType'
  BY DEF IndInv, TypeOK, ControlInv, CreateTrb, InsertTail, HistoryType, Goto, Thread,
       Label, Status, Final, Failure, Err, Working
<1>5. TickControl'
  BY DEF IndInv, TypeOK, ControlInv, CreateTrb, InsertTail, TickControl, ThreadType,
       TrbType, driverVars, thrVars, trbVars, Goto, Thread, Label, Status, Final, Failure,
       Err, Working
<1>6. StopControl'
  BY DEF IndInv, TypeOK, ControlInv, CreateTrb, InsertTail, StopControl, ThreadType,
       TrbType, driverVars, thrVars, trbVars, Goto, Thread, Label, Status, Final, Failure,
       Err, Working
<1>7. CallControl'
  BY DEF IndInv, TypeOK, ControlInv, CreateTrb, InsertTail, CallControl, ThreadType,
       thrVars, Goto, Thread, Label, Status, Final, Failure, Err, Working
<1>8. IdentControl'
  BY DEF IndInv, TypeOK, ControlInv, CreateTrb, InsertTail, IdentControl, ThreadType,
       driverVars, thrVars, Goto, Thread, Label, Status, Final, Failure, Err, Working
<1>9. DriverType' /\ HwType' /\ CardType'
  BY DEF IndInv, TypeOK, ControlInv, CreateTrb, InsertTail, DriverType, HwType, CardType,
       cardVars, driverVars, hwVars
<1> QED BY <1>1, <1>2, <1>3, <1>4, <1>5, <1>6, <1>7, <1>8, <1>9 DEF IndInv, TypeOK,
       ControlInv

LEMMA CreateTrbFailsInd ==
  ASSUME NEW th \in {"App", "Cb"}, IndInv, CreateTrbFails(th)
  PROVE  IndInv'
<1>1. DriverType'
  BY DEF IndInv, TypeOK, ControlInv, CreateTrbFails, Return, EndRoutine, DriverType,
       driverVars, Goto, Thread, Label, Status, Final, Failure, Err, Working
<1>2. ThreadType'
  BY DEF IndInv, TypeOK, ControlInv, CreateTrbFails, Return, EndRoutine, ThreadType,
       thrVars, Goto, Thread, Label, Status, Final, Failure, Err, Working
<1>3. LogType'
  BY DEF IndInv, TypeOK, ControlInv, CreateTrbFails, Return, EndRoutine, LogType,
       CallControl, logVars, thrVars, Goto, Thread, Label, Status, Final, Failure, Err,
       Working
<1>4. TickControl'
  BY DEF IndInv, TypeOK, ControlInv, CreateTrbFails, Return, EndRoutine, TickControl,
       ThreadType, IdentControl, CanRun, Above, driverVars, thrVars, trbVars, Goto, Thread,
       Label, Status, Final, Failure, Err, Working
<1>5. StopControl'
  BY DEF IndInv, TypeOK, ControlInv, CreateTrbFails, Return, EndRoutine, StopControl,
       ThreadType, IdentControl, CanRun, Above, driverVars, thrVars, trbVars, Goto, Thread,
       Label, Status, Final, Failure, Err, Working
<1>6. CallControl'
  BY DEF IndInv, TypeOK, ControlInv, CreateTrbFails, Return, EndRoutine, CallControl,
       ThreadType, thrVars, Goto, Thread, Label, Status, Final, Failure, Err, Working
<1>7. IdentControl'
  BY DEF IndInv, TypeOK, ControlInv, CreateTrbFails, Return, EndRoutine, IdentControl,
       ThreadType, CanRun, Above, CallControl, driverVars, thrVars, Goto, Thread, Label,
       Status, Final, Failure, Err, Working
<1>8. TrbType' /\ HwType' /\ CardType' /\ HistoryType'
  BY DEF IndInv, TypeOK, ControlInv, CreateTrbFails, Return, EndRoutine, TrbType, HwType,
       CardType, HistoryType, cardVars, hwVars, trbVars
<1> QED BY <1>1, <1>2, <1>3, <1>4, <1>5, <1>6, <1>7, <1>8 DEF IndInv, TypeOK, ControlInv

LEMMA WaitQueueEmptyInd ==
  ASSUME NEW th \in {"App", "Cb"}, IndInv, WaitQueueEmpty(th)
  PROVE  IndInv'
<1>f. UNCHANGED <<driverVars, trbVars, hwVars, cardVars, logVars, done, causes, starts>>
  BY DEF WaitQueueEmpty
<1>1. ThreadType'
  BY DEF IndInv, TypeOK, ControlInv, WaitQueueEmpty, ThreadType, thrVars, Goto, Thread,
       Label, Status, Final, Failure, Err, Working
<1>2. TickControl'
  BY DEF IndInv, TypeOK, ControlInv, WaitQueueEmpty, TickControl, ThreadType, driverVars,
       thrVars, trbVars, Goto, Thread, Label, Status, Final, Failure, Err, Working
<1>3. StopControl'
  BY DEF IndInv, TypeOK, ControlInv, WaitQueueEmpty, StopControl, ThreadType, driverVars,
       thrVars, trbVars, Goto, Thread, Label, Status, Final, Failure, Err, Working
<1>4. CallControl'
  BY DEF IndInv, TypeOK, ControlInv, WaitQueueEmpty, CallControl, ThreadType, thrVars, Goto,
       Thread, Label, Status, Final, Failure, Err, Working
<1>5. IdentControl'
  BY DEF IndInv, TypeOK, ControlInv, WaitQueueEmpty, IdentControl, ThreadType, CallControl,
       driverVars, thrVars, Goto, Thread, Label, Status, Final, Failure, Err, Working
<1>6. DriverType' /\ TrbType' /\ HwType' /\ CardType'
  BY <1>f DEF IndInv, TypeOK, ControlInv, DriverType, TrbType, HwType, CardType, cardVars,
       driverVars, hwVars, trbVars
<1>7. LogType' /\ HistoryType'
  BY <1>f DEF IndInv, TypeOK, ControlInv, LogType, HistoryType, logVars
<1> QED BY <1>1, <1>2, <1>3, <1>4, <1>5, <1>6, <1>7 DEF IndInv, TypeOK, ControlInv

LEMMA WaitTrbEnvInd ==
  ASSUME NEW th \in {"App", "Cb"}, IndInv, WaitTrbEnv(th)
  PROVE  IndInv'
<1>f. UNCHANGED <<driverVars, trbVars, hwVars, cardVars, logVars, done, causes, starts>>
  BY DEF WaitTrbEnv
<1>1. ThreadType'
  BY DEF IndInv, TypeOK, ControlInv, WaitTrbEnv, EnvReady, ThreadType, thrVars, Goto,
       Thread, Label, Status, Final, Failure, Err, Working
<1>2. TickControl'
  BY DEF IndInv, TypeOK, ControlInv, WaitTrbEnv, EnvReady, TickControl, ThreadType,
       driverVars, thrVars, trbVars, Goto, Thread, Label, Status, Final, Failure, Err,
       Working
<1>3. StopControl'
  BY DEF IndInv, TypeOK, ControlInv, WaitTrbEnv, EnvReady, StopControl, ThreadType,
       driverVars, thrVars, trbVars, Goto, Thread, Label, Status, Final, Failure, Err,
       Working
<1>4. CallControl'
  BY DEF IndInv, TypeOK, ControlInv, WaitTrbEnv, EnvReady, CallControl, ThreadType, thrVars,
       Goto, Thread, Label, Status, Final, Failure, Err, Working
<1>5. IdentControl'
  BY DEF IndInv, TypeOK, ControlInv, WaitTrbEnv, EnvReady, IdentControl, ThreadType,
       CallControl, driverVars, thrVars, Goto, Thread, Label, Status, Final, Failure, Err,
       Working
<1>6. DriverType' /\ TrbType' /\ HwType' /\ CardType'
  BY <1>f DEF IndInv, TypeOK, ControlInv, DriverType, TrbType, HwType, CardType, cardVars,
       driverVars, hwVars, trbVars
<1>7. LogType' /\ HistoryType'
  BY <1>f DEF IndInv, TypeOK, ControlInv, LogType, HistoryType, logVars
<1> QED BY <1>1, <1>2, <1>3, <1>4, <1>5, <1>6, <1>7 DEF IndInv, TypeOK, ControlInv

LEMMA ExecTrbProgramInd ==
  ASSUME NEW th \in {"App", "Cb"}, IndInv, ExecTrbProgram(th)
  PROVE  IndInv'
<1>f. UNCHANGED <<driverVars, trbVars, cardVars, logVars, starts>>
  BY DEF ExecTrbProgram
<1>1. ThreadType'
  BY DEF IndInv, TypeOK, ControlInv, ExecTrbProgram, ProgramTrb, ThreadType, thrVars, Goto,
       Thread, Label, Status, Final, Failure, Err, Working
<1>2. HwType'
  BY DEF IndInv, TypeOK, ControlInv, ExecTrbProgram, ProgramTrb, HwType, CallControl,
       hwVars, thrVars, Goto, Thread, Label, Status, Final, Failure, Err, Working
<1>3. HistoryType'
  BY DEF IndInv, TypeOK, ControlInv, ExecTrbProgram, ProgramTrb, HistoryType, Goto, Thread,
       Label, Status, Final, Failure, Err, Working
<1>4. TickControl'
  BY DEF IndInv, TypeOK, ControlInv, ExecTrbProgram, ProgramTrb, TickControl, ThreadType,
       driverVars, thrVars, trbVars, Goto, Thread, Label, Status, Final, Failure, Err,
       Working
<1>5. StopControl'
  BY DEF IndInv, TypeOK, ControlInv, ExecTrbProgram, ProgramTrb, StopControl, ThreadType,
       driverVars, thrVars, trbVars, Goto, Thread, Label, Status, Final, Failure, Err,
       Working
<1>6. CallControl'
  BY DEF IndInv, TypeOK, ControlInv, ExecTrbProgram, ProgramTrb, CallControl, ThreadType,
       thrVars, Goto, Thread, Label, Status, Final, Failure, Err, Working
<1>7. IdentControl'
  BY DEF IndInv, TypeOK, ControlInv, ExecTrbProgram, ProgramTrb, IdentControl, ThreadType,
       CallControl, driverVars, thrVars, Goto, Thread, Label, Status, Final, Failure, Err,
       Working
<1>8. DriverType' /\ TrbType' /\ CardType' /\ LogType'
  BY <1>f DEF IndInv, TypeOK, ControlInv, DriverType, TrbType, CardType, LogType, cardVars,
       driverVars, logVars, trbVars
<1> QED BY <1>1, <1>2, <1>3, <1>4, <1>5, <1>6, <1>7, <1>8 DEF IndInv, TypeOK, ControlInv

LEMMA ExecTrbCommandInd ==
  ASSUME NEW th \in {"App", "Cb"}, IndInv, ExecTrbCommand(th)
  PROVE  IndInv'
<1>f. UNCHANGED <<driverVars, trbVars, cardVars, logVars, done, causes, starts>>
  BY DEF ExecTrbCommand
<1>1. ThreadType'
  BY DEF IndInv, TypeOK, ControlInv, ExecTrbCommand, WriteCommand, EnvReady, ThreadType,
       thrVars, Goto, Thread, Label, Status, Final, Failure, Err, Working
<1>2. HwType'
  BY DEF IndInv, TypeOK, ControlInv, ExecTrbCommand, WriteCommand, EnvReady, HwType,
       CallControl, hwVars, thrVars, Goto, Thread, Label, Status, Final, Failure, Err,
       Working
<1>3. TickControl'
  BY DEF IndInv, TypeOK, ControlInv, ExecTrbCommand, WriteCommand, EnvReady, TickControl,
       ThreadType, driverVars, thrVars, trbVars, Goto, Thread, Label, Status, Final,
       Failure, Err, Working
<1>4. StopControl'
  BY DEF IndInv, TypeOK, ControlInv, ExecTrbCommand, WriteCommand, EnvReady, StopControl,
       ThreadType, driverVars, thrVars, trbVars, Goto, Thread, Label, Status, Final,
       Failure, Err, Working
<1>5. CallControl'
  BY DEF IndInv, TypeOK, ControlInv, ExecTrbCommand, WriteCommand, EnvReady, CallControl,
       ThreadType, thrVars, Goto, Thread, Label, Status, Final, Failure, Err, Working
<1>6. IdentControl'
  BY DEF IndInv, TypeOK, ControlInv, ExecTrbCommand, WriteCommand, EnvReady, IdentControl,
       ThreadType, CallControl, driverVars, thrVars, Goto, Thread, Label, Status, Final,
       Failure, Err, Working
<1>7. DriverType' /\ TrbType' /\ CardType' /\ LogType'
  BY <1>f DEF IndInv, TypeOK, ControlInv, DriverType, TrbType, CardType, LogType, cardVars,
       driverVars, logVars, trbVars
<1>8. HistoryType'
  BY <1>f DEF IndInv, TypeOK, ControlInv, HistoryType
<1> QED BY <1>1, <1>2, <1>3, <1>4, <1>5, <1>6, <1>7, <1>8 DEF IndInv, TypeOK, ControlInv

LEMMA WaitTrbResultInd ==
  ASSUME NEW th \in {"App", "Cb"}, IndInv, WaitTrbResult(th)
  PROVE  IndInv'
<1>1. DriverType'
  BY DEF IndInv, TypeOK, ControlInv, WaitTrbResult, Return, EndRoutine, RecoverLines,
       CheckTrbResult, OrphanedAfter, DriverType, driverVars, Goto, Thread, Label, Status,
       Final, Failure, Err, Working
<1>2. ThreadType'
  BY DEF IndInv, TypeOK, ControlInv, WaitTrbResult, Return, EndRoutine, RecoverLines,
       CheckTrbResult, OrphanedAfter, ThreadType, thrVars, Goto, Thread, Label, Status,
       Final, Failure, Err, Working
<1>3. HwType'
  BY DEF IndInv, TypeOK, ControlInv, WaitTrbResult, Return, EndRoutine, RecoverLines,
       CheckTrbResult, OrphanedAfter, HwType, hwVars, Goto, Thread, Label, Status, Final,
       Failure, Err, Working
<1>4. LogType'
  BY DEF IndInv, TypeOK, ControlInv, WaitTrbResult, Return, EndRoutine, RecoverLines,
       CheckTrbResult, OrphanedAfter, LogType, CallControl, logVars, thrVars, Goto, Thread,
       Label, Status, Final, Failure, Err, Working
<1>5. HistoryType'
  BY DEF IndInv, TypeOK, ControlInv, WaitTrbResult, Return, EndRoutine, RecoverLines,
       CheckTrbResult, OrphanedAfter, HistoryType, Goto, Thread, Label, Status, Final,
       Failure, Err, Working
<1>6. TickControl'
  BY DEF IndInv, TypeOK, ControlInv, WaitTrbResult, Return, EndRoutine, RecoverLines,
       CheckTrbResult, OrphanedAfter, TickControl, ThreadType, IdentControl, CanRun, Above,
       driverVars, thrVars, trbVars, Goto, Thread, Label, Status, Final, Failure, Err,
       Working
<1>7. StopControl'
  BY DEF IndInv, TypeOK, ControlInv, WaitTrbResult, Return, EndRoutine, RecoverLines,
       CheckTrbResult, OrphanedAfter, StopControl, ThreadType, IdentControl, CanRun, Above,
       driverVars, thrVars, trbVars, Goto, Thread, Label, Status, Final, Failure, Err,
       Working
<1>8. CallControl'
  BY DEF IndInv, TypeOK, ControlInv, WaitTrbResult, Return, EndRoutine, RecoverLines,
       CheckTrbResult, OrphanedAfter, CallControl, ThreadType, thrVars, Goto, Thread, Label,
       Status, Final, Failure, Err, Working
<1>9. IdentControl'
  BY DEF IndInv, TypeOK, ControlInv, WaitTrbResult, Return, EndRoutine, RecoverLines,
       CheckTrbResult, OrphanedAfter, IdentControl, ThreadType, CanRun, Above, CallControl,
       driverVars, thrVars, Goto, Thread, Label, Status, Final, Failure, Err, Working
<1>10. TrbType' /\ CardType'
  BY DEF IndInv, TypeOK, ControlInv, WaitTrbResult, Return, EndRoutine, RecoverLines,
       CheckTrbResult, OrphanedAfter, TrbType, CardType, cardVars, trbVars
<1> QED BY <1>1, <1>2, <1>3, <1>4, <1>5, <1>6, <1>7, <1>8, <1>9, <1>10 DEF IndInv, TypeOK,
       ControlInv

LEMMA WaitTimeoutInd ==
  ASSUME NEW th \in {"App", "Cb"}, IndInv, WaitTimeout(th)
  PROVE  IndInv'
<1>1. DriverType'
  BY DEF IndInv, TypeOK, ControlInv, WaitTimeout, Return, EndRoutine, CheckTrbResult,
       Orphaned, OnBus, EnvReady, DriverType, driverVars, Goto, Thread, Label, Status,
       Final, Failure, Err, Working
<1>2. ThreadType'
  BY DEF IndInv, TypeOK, ControlInv, WaitTimeout, Return, EndRoutine, CheckTrbResult,
       Orphaned, OnBus, EnvReady, ThreadType, thrVars, Goto, Thread, Label, Status, Final,
       Failure, Err, Working
<1>3. LogType'
  BY DEF IndInv, TypeOK, ControlInv, WaitTimeout, Return, EndRoutine, CheckTrbResult,
       Orphaned, OnBus, EnvReady, LogType, CallControl, logVars, thrVars, Goto, Thread,
       Label, Status, Final, Failure, Err, Working
<1>4. HistoryType'
  BY DEF IndInv, TypeOK, ControlInv, WaitTimeout, Return, EndRoutine, CheckTrbResult,
       Orphaned, OnBus, EnvReady, HistoryType, Goto, Thread, Label, Status, Final, Failure,
       Err, Working
<1>5. TickControl'
  BY DEF IndInv, TypeOK, ControlInv, WaitTimeout, Return, EndRoutine, CheckTrbResult,
       Orphaned, OnBus, EnvReady, TickControl, ThreadType, IdentControl, CanRun, Above,
       driverVars, thrVars, trbVars, Goto, Thread, Label, Status, Final, Failure, Err,
       Working
<1>6. StopControl'
  BY DEF IndInv, TypeOK, ControlInv, WaitTimeout, Return, EndRoutine, CheckTrbResult,
       Orphaned, OnBus, EnvReady, StopControl, ThreadType, IdentControl, CanRun, Above,
       driverVars, thrVars, trbVars, Goto, Thread, Label, Status, Final, Failure, Err,
       Working
<1>7. CallControl'
  BY DEF IndInv, TypeOK, ControlInv, WaitTimeout, Return, EndRoutine, CheckTrbResult,
       Orphaned, OnBus, EnvReady, CallControl, ThreadType, thrVars, Goto, Thread, Label,
       Status, Final, Failure, Err, Working
<1>8. IdentControl'
  BY DEF IndInv, TypeOK, ControlInv, WaitTimeout, Return, EndRoutine, CheckTrbResult,
       Orphaned, OnBus, EnvReady, IdentControl, ThreadType, CanRun, Above, CallControl,
       driverVars, thrVars, Goto, Thread, Label, Status, Final, Failure, Err, Working
<1>9. TrbType' /\ HwType' /\ CardType'
  BY DEF IndInv, TypeOK, ControlInv, WaitTimeout, Return, EndRoutine, CheckTrbResult,
       Orphaned, OnBus, EnvReady, TrbType, HwType, CardType, cardVars, hwVars, trbVars
<1> QED BY <1>1, <1>2, <1>3, <1>4, <1>5, <1>6, <1>7, <1>8, <1>9 DEF IndInv, TypeOK,
       ControlInv

LEMMA SendIdentInd ==
  ASSUME NEW th \in {"App", "Cb"}, IndInv, SendIdent(th)
  PROVE  IndInv'
<1>f. UNCHANGED <<driverVars, trbVars, hwVars, cardVars, logVars, done, causes, starts>>
  BY DEF SendIdent
<1>1. ThreadType'
  BY DEF IndInv, TypeOK, ControlInv, SendIdent, ThreadType, thrVars, Goto, Thread, Label,
       Status, Final, Failure, Err, Working
<1>2. TickControl'
  BY DEF IndInv, TypeOK, ControlInv, SendIdent, TickControl, ThreadType, driverVars,
       thrVars, trbVars, Goto, Thread, Label, Status, Final, Failure, Err, Working
<1>3. StopControl'
  BY DEF IndInv, TypeOK, ControlInv, SendIdent, StopControl, ThreadType, driverVars,
       thrVars, trbVars, Goto, Thread, Label, Status, Final, Failure, Err, Working
<1>4. CallControl'
  BY DEF IndInv, TypeOK, ControlInv, SendIdent, CallControl, ThreadType, thrVars, Goto,
       Thread, Label, Status, Final, Failure, Err, Working
<1>5. IdentControl'
  BY DEF IndInv, TypeOK, ControlInv, SendIdent, IdentControl, ThreadType, CallControl,
       driverVars, thrVars, Goto, Thread, Label, Status, Final, Failure, Err, Working
<1>6. DriverType' /\ TrbType' /\ HwType' /\ CardType'
  BY <1>f DEF IndInv, TypeOK, ControlInv, DriverType, TrbType, HwType, CardType, cardVars,
       driverVars, hwVars, trbVars
<1>7. LogType' /\ HistoryType'
  BY <1>f DEF IndInv, TypeOK, ControlInv, LogType, HistoryType, logVars
<1> QED BY <1>1, <1>2, <1>3, <1>4, <1>5, <1>6, <1>7 DEF IndInv, TypeOK, ControlInv

LEMMA InitInd == Init => IndInv
<1> SUFFICES ASSUME Init PROVE IndInv
  OBVIOUS
<1>1. DriverType /\ CardType BY DEF Init, DriverType, CardType
<1>2. TrbType BY DEF Init, TrbType
<1>3. ThreadType BY DEF Init, ThreadType, Thread, Label
<1>4. HwType /\ HistoryType BY DEF Init, HwType, HistoryType
<1>5. LogType BY DEF Init, LogType, Status
<1>6. TickControl /\ StopControl BY DEF Init, TickControl, StopControl, Thread
<1>7. CallControl BY DEF Init, CallControl, Thread, Working
<1>8. IdentControl BY DEF Init, IdentControl, Thread
<1> QED BY <1>1, <1>2, <1>3, <1>4, <1>5, <1>6, <1>7, <1>8 DEF IndInv, TypeOK, ControlInv

LEMMA StutterInd == IndInv /\ UNCHANGED vars => IndInv'
BY DEF IndInv, TypeOK, ControlInv, DriverType, TrbType, ThreadType, HwType, CardType,
       LogType, HistoryType, TickControl, StopControl, CallControl, IdentControl, vars,
       driverVars, trbVars, thrVars, hwVars, cardVars, logVars

LEMMA NextInd == IndInv /\ [Next]_vars => IndInv'
<1> SUFFICES ASSUME IndInv, [Next]_vars PROVE IndInv'
  OBVIOUS
<1>1. CASE TickRefuse BY <1>1, TickRefuseInd
<1>2. CASE TickExec BY <1>2, TickExecInd
<1>3. CASE TickCheck BY <1>3, TickCheckInd
<1>4. CASE EnumerateRemoved BY <1>4, EnumerateRemovedInd
<1>5. CASE EnumerateInserted BY <1>5, EnumerateInsertedInd
<1>6. CASE EnumerateInitFails BY <1>6, EnumerateInitFailsInd
<1>7. CASE Start BY <1>7, StartInd
<1>8. CASE Stop BY <1>8, StopInd
<1>9. CASE StopAbort BY <1>9, StopAbortInd
<1>10. CASE StopFree BY <1>10, StopFreeInd
<1>11. CASE ResetDevice BY <1>11, ResetDeviceInd
<1>12. CASE HwResponse BY <1>12, HwResponseInd
<1>13. CASE HwCmdError BY <1>13, HwCmdErrorInd
<1>14. CASE HwTransfer BY <1>14, HwTransferInd
<1>15. CASE HwDatError BY <1>15, HwDatErrorInd
<1>16. CASE CardEvent BY <1>16, CardEventInd
<1>17. ASSUME NEW th \in {"App", "Cb"}, SyncStep(th) PROVE IndInv'
  BY <1>17, CreateTrbInd, CreateTrbFailsInd, WaitQueueEmptyInd, WaitTrbEnvInd,
       ExecTrbProgramInd, ExecTrbCommandInd, WaitTrbResultInd, WaitTimeoutInd, SendIdentInd
       DEF SyncStep
<1>18. ASSUME NEW th \in {"App", "Cb"}, NEW r \in LevelReq(th), Submit(th, r) PROVE IndInv'
  BY <1>18, SubmitInd
<1>19. CASE UNCHANGED vars BY <1>19, StutterInd
<1> QED
  BY <1>1, <1>2, <1>3, <1>4, <1>5, <1>6, <1>7, <1>8, <1>9, <1>10, <1>11, <1>12, <1>13,
       <1>14, <1>15, <1>16, <1>17, <1>18, <1>19
     DEF Next, Timer, Enumerate, Binding, Controller

\* The types and the control state together are the inductive invariant,
\* whatever the requests, the timeouts and the interleaving of the priority
\* levels (SD_MMC_HC_PRIVATE_DATA, its TRBs and the routines that use them).
THEOREM IndInvCorrect == Spec => []IndInv
<1>1. Init => IndInv BY InitInd
<1>2. IndInv /\ [Next]_vars => IndInv' BY NextInd
<1> QED BY <1>1, <1>2, PTL DEF Spec

\* The timer callback, the loop of Stop, a synchronous call and identification
\* are active only in the driver states they belong to, with a TRB to work on.
THEOREM ControlCorrect == Spec => []ControlInv
<1>1. IndInv => ControlInv BY DEF IndInv
<1> QED BY <1>1, IndInvCorrect, PTL

(* --- Answers come in the order of acceptance --- *)
LEMMA AnswerHeadOrder ==
  ASSUME IndInv, AnsweredInOrder, queue # <<>>, NEW st, AnswerHead(st)
  PROVE  AnsweredInOrder'
  BY MoveHead DEF IndInv, TypeOK, TrbType, LogType, AnsweredInOrder, AnswerHead

LEMMA SignalAllOrder ==
  ASSUME IndInv, AnsweredInOrder, NEW st, SignalAll(st)
  PROVE  AnsweredInOrder'
<1>1. (signalled \o queue) \o <<>> = signalled \o queue
  BY DEF IndInv, TypeOK, TrbType, LogType
<1> QED BY <1>1 DEF AnsweredInOrder, SignalAll

LEMMA NotReadyOrder ==
  ASSUME IndInv, AnsweredInOrder, queue # <<>>, NotReady(Head(queue))
  PROVE  AnsweredInOrder'
  BY AnswerHeadOrder DEF NotReady, SignalHead, AnsweredInOrder, logVars

LEMMA CreateTrbOrder ==
  ASSUME NEW th \in {"App", "Cb"}, IndInv, AnsweredInOrder, CreateTrb(th)
  PROVE  AnsweredInOrder'
<1>1. CASE cur[th] \in AsyncReq
  <2>1. signalled \in Seq(AsyncReq) /\ queue \in Seq(AsyncReq)
    BY DEF IndInv, TypeOK, TrbType, LogType
  <2>2. signalled \o Append(queue, cur[th]) = Append(signalled \o queue, cur[th])
    BY <1>1, <2>1, AppendConcat
  <2> QED BY <1>1, <2>2 DEF AnsweredInOrder, CreateTrb, InsertTail
<1>2. CASE cur[th] \notin AsyncReq
  BY <1>2 DEF AnsweredInOrder, CreateTrb
<1> QED BY <1>1, <1>2

LEMMA OrderNext == IndInv /\ AnsweredInOrder /\ [Next]_vars => AnsweredInOrder'
<1> SUFFICES ASSUME IndInv, AnsweredInOrder, [Next]_vars PROVE AnsweredInOrder'
  OBVIOUS
<1>1. CASE TickRefuse BY <1>1, AnswerHeadOrder, NotReadyOrder DEF TickRefuse, SignalHead
<1>2. CASE TickExec BY <1>2 DEF TickExec, AnsweredInOrder, logVars
<1>3. CASE TickCheck
  <2>1. queue # <<>> BY <1>3 DEF TickCheck, IndInv, ControlInv, TickControl
  <2> QED BY <1>3, <2>1, AnswerHeadOrder, NotReadyOrder DEF TickCheck
<1>4. CASE StopAbort
  <2>1. queue # <<>> BY <1>4 DEF StopAbort, IndInv, ControlInv, StopControl
  <2> QED BY <1>4, <2>1, AnswerHeadOrder DEF StopAbort, SignalHead
<1>5. CASE StopFree
  <2>1. signalled \o <<>> = signalled BY DEF IndInv, TypeOK, LogType
  <2> QED BY <1>5, <2>1 DEF StopFree, AnsweredInOrder
<1>6. CASE EnumerateRemoved BY <1>6, SignalAllOrder DEF EnumerateRemoved
<1>7. CASE ResetDevice BY <1>7, SignalAllOrder DEF ResetDevice
<1>8. CASE EnumerateInserted \/ EnumerateInitFails \/ Start \/ Stop
  BY <1>8 DEF EnumerateInserted, EnumerateInitFails, Start, Stop, AnsweredInOrder, trbVars,
              logVars
<1>9. CASE Controller \/ CardEvent
  BY <1>9 DEF Controller, HwResponse, HwCmdError, HwTransfer, HwDatError, CardEvent,
              AnsweredInOrder, trbVars, logVars
<1>10. ASSUME NEW th \in {"App", "Cb"}, SyncStep(th) PROVE AnsweredInOrder'
  <2>1. CASE CreateTrb(th) BY <2>1, CreateTrbOrder
  <2>2. CASE CreateTrbFails(th) \/ WaitTrbResult(th) \/ WaitTimeout(th)
    BY <2>2 DEF CreateTrbFails, WaitTrbResult, WaitTimeout, Return, AnsweredInOrder, trbVars
  <2>3. CASE WaitQueueEmpty(th) \/ WaitTrbEnv(th) \/ SendIdent(th)
    BY <2>3 DEF WaitQueueEmpty, WaitTrbEnv, SendIdent, AnsweredInOrder, trbVars, logVars
  <2>4. CASE ExecTrbProgram(th) \/ ExecTrbCommand(th)
    BY <2>4 DEF ExecTrbProgram, ExecTrbCommand, AnsweredInOrder, trbVars, logVars
  <2> QED BY <1>10, <2>1, <2>2, <2>3, <2>4 DEF SyncStep
<1>11. ASSUME NEW th \in {"App", "Cb"}, NEW r \in LevelReq(th), Submit(th, r)
       PROVE  AnsweredInOrder'
  BY <1>11 DEF Submit, AnsweredInOrder, trbVars
<1>12. CASE UNCHANGED vars BY <1>12 DEF vars, AnsweredInOrder, trbVars, logVars
<1> QED
  BY <1>1, <1>2, <1>3, <1>4, <1>5, <1>6, <1>7, <1>8, <1>9, <1>10, <1>11, <1>12
     DEF Next, Timer, Enumerate, Binding

\* Asynchronous requests are answered in the order they were queued, and a
\* request leaves the queue exactly when its event is signalled, under every
\* interleaving of PassThru, the timer, ResetDevice, enumeration and Stop.
THEOREM OrderCorrect == Spec => []AnsweredInOrder
<1>1. Init => AnsweredInOrder BY DEF Init, AnsweredInOrder
<1>2. Init => IndInv BY InitInd
<1>3. IndInv /\ [Next]_vars => IndInv' BY NextInd
<1> QED BY <1>1, <1>2, <1>3, OrderNext, PTL DEF Spec

(* --- Ranges of queues --- *)
(* --- Who works on what: callers, queue and record of answers --- *)
Clients == IndInv /\ AnsweredInOrder /\ CallerInv /\ QueuedOnce

\* What the record of accepted requests says of queue and answers.
LEMMA QueueFacts ==
  ASSUME Clients
  PROVE  /\ queue \in Seq(AsyncReq) /\ signalled \in Seq(AsyncReq) /\ accepted \in Seq(AsyncReq)
         /\ Range(accepted) = Range(signalled) \cup Range(queue)
         /\ Distinct(signalled) /\ Distinct(queue) /\ Distinct(accepted)
         /\ Range(signalled) \cap Range(queue) = {}
         /\ Range(queue) \subseteq AsyncReq
<1>1. queue \in Seq(AsyncReq) /\ signalled \in Seq(AsyncReq) /\ accepted \in Seq(AsyncReq)
  BY DEF Clients, IndInv, TypeOK, TrbType, LogType
<1>2. accepted = signalled \o queue BY DEF Clients, AnsweredInOrder
<1>3. Distinct(accepted) BY DEF Clients, QueuedOnce, Distinct
<1> QED BY <1>1, <1>2, <1>3, RangeConcat, DistinctParts, RangeType

\* What the head of a queue without duplicates and the rest of it are.
LEMMA HeadFacts ==
  ASSUME Clients, queue # <<>>
  PROVE  /\ Head(queue) \in AsyncReq /\ Tail(queue) \in Seq(AsyncReq)
         /\ Range(queue) = {Head(queue)} \cup Range(Tail(queue))
         /\ Head(queue) \notin Range(Tail(queue)) /\ Head(queue) \notin Range(signalled)
<1>1. queue \in Seq(AsyncReq) /\ Distinct(queue) /\ Range(signalled) \cap Range(queue) = {}
  BY QueueFacts
<1>2. Range(queue) = {Head(queue)} \cup Range(Tail(queue)) BY <1>1, RangeHead
<1> QED BY <1>1, <1>2, HeadTailType, DistinctHead

\* A call works on a TRB that is neither queued nor that of the other call.
LEMMA CallFacts ==
  ASSUME Clients
  PROVE  /\ \A th \in {"App", "Cb"} : cur[th] \in Trb \cup {None} /\ cur[th] \notin Range(queue)
         /\ cur["App"] = cur["Cb"] => cur["App"] = None
         /\ cur["Tick"] = None
<1>1. Range(queue) \subseteq AsyncReq /\ Range(queue) \subseteq Range(accepted)
  BY QueueFacts
<1>2. \A th \in {"App", "Cb"} : cur[th] \in Trb \cup {None}
  BY DEF Clients, IndInv, TypeOK, ThreadType, Thread
<1>3. \A th \in {"App", "Cb"} : cur[th] \notin Range(queue)
  BY <1>1 DEF Clients, CallerInv
<1>4. cur["App"] = cur["Cb"] => cur["App"] = None
  <2>1. ~(cur["App"] = Ident /\ cur["Cb"] = Ident)
    BY DEF Clients, IndInv, ControlInv, IdentControl
  <2> QED BY <1>2, <2>1 DEF Clients, CallerInv, LevelReq
<1>5. cur["Tick"] = None
  BY DEF Clients, IndInv, ControlInv, CallControl, TickControl, Thread, Working
<1> QED BY <1>2, <1>3, <1>4, <1>5

LEMMA AnswerHeadClients ==
  ASSUME Clients, queue # <<>>, NEW st \in Final, AnswerHead(st), UNCHANGED cur
  PROVE  CallerInv' /\ QueuedOnce'
<1>1. /\ Head(queue) \in AsyncReq /\ Tail(queue) \in Seq(AsyncReq)
      /\ Range(queue) = {Head(queue)} \cup Range(Tail(queue))
      /\ Head(queue) \notin Range(Tail(queue)) /\ Head(queue) \notin Range(signalled)
  BY HeadFacts
<1>2. status \in [Req -> Status] BY DEF Clients, IndInv, TypeOK, LogType
<1>3. /\ status'[Head(queue)] = st
      /\ \A r \in Req \ {Head(queue)} : status'[r] = status[r]
  BY <1>1, <1>2 DEF AnswerHead
<1>4. CallerInv' 
  BY <1>1, <1>3, CallFacts DEF Clients, CallerInv, AnswerHead, LevelReq
<1>5. Range(signalled') = Range(signalled) \cup {Head(queue)}
  BY <1>1, RangeAppend, QueueFacts DEF AnswerHead
<1>6. \A r \in Range(queue') : status'[r] = "issued"
  BY <1>1, <1>3 DEF AnswerHead, Clients, QueuedOnce
<1>7. \A r \in Range(signalled') : status'[r] \in Final
  <2>1. Range(signalled) \subseteq AsyncReq BY QueueFacts, RangeType
  <2> QED BY <1>1, <1>3, <1>5, <2>1 DEF AnswerHead, Clients, QueuedOnce
<1> QED BY <1>4, <1>6, <1>7 DEF AnswerHead, Clients, QueuedOnce

LEMMA SignalAllClients ==
  ASSUME Clients, NEW st \in Final, SignalAll(st), UNCHANGED cur
  PROVE  CallerInv' /\ QueuedOnce'
<1>1. \A r \in Req : status'[r] = IF r \in Range(queue) THEN st ELSE status[r]
  BY DEF SignalAll
<1>2. CallerInv'
  BY <1>1, CallFacts DEF Clients, CallerInv, SignalAll, LevelReq
<1>3. Range(signalled') = Range(signalled) \cup Range(queue)
  BY QueueFacts, RangeConcat DEF SignalAll
<1>4. Range(signalled) \subseteq AsyncReq /\ Range(queue) \subseteq AsyncReq
  BY QueueFacts, RangeType
<1>5. \A r \in Range(signalled') : status'[r] \in Final
  BY <1>1, <1>3, <1>4 DEF Clients, QueuedOnce
<1>6. Range(queue') = {} BY DEF SignalAll, Range
<1> QED BY <1>2, <1>5, <1>6 DEF SignalAll, Clients, QueuedOnce

MapInv == Clients /\ MappingsMatchRequests

LEMMA AnswerHeadMappings ==
  ASSUME MapInv, queue # <<>>, NEW st \in Final, AnswerHead(st), UNCHANGED cur,
         \A th \in {"App", "Cb"} : pc'[th] = pc[th]
  PROVE  MappingsMatchRequests'
<1>1. Clients BY DEF MapInv
<1>2. /\ Range(queue) = {Head(queue)} \cup Range(Tail(queue))
      /\ Head(queue) \notin Range(Tail(queue))
  BY <1>1, HeadFacts
<1>3. /\ \A th \in {"App", "Cb"} : cur[th] # Head(queue)
      /\ cur["Tick"] = None
  BY <1>1, <1>2, CallFacts
<1>4. queue' = Tail(queue) /\ mapped' = mapped \ {Head(queue)} /\ lost' = lost
  BY DEF AnswerHead
<1> QED BY <1>2, <1>3, <1>4 DEF MapInv, MappingsMatchRequests, Thread

LEMMA SignalAllMappings ==
  ASSUME MapInv, NEW st, SignalAll(st), UNCHANGED cur,
         \A th \in {"App", "Cb"} : pc'[th] = pc[th]
  PROVE  MappingsMatchRequests'
<1>1. Clients BY DEF MapInv
<1>2. /\ \A th \in {"App", "Cb"} : cur[th] \notin Range(queue)
      /\ cur["Tick"] = None
  BY <1>1, CallFacts
<1>3. queue' = <<>> /\ mapped' = mapped \ Range(queue) /\ lost' = lost
  BY DEF SignalAll
<1>4. Range(queue') = {} BY <1>3 DEF Range
<1> QED BY <1>2, <1>3, <1>4 DEF MapInv, MappingsMatchRequests, Thread

\* Steps that leave the clients' variables alone.
LEMMA ClientFrame ==
  ASSUME MapInv, UNCHANGED <<queue, mapped, logVars>>,
         \/ UNCHANGED thrVars
         \/ \E th \in Thread, label \in Label :
              Goto(th, label) /\ UNCHANGED cur /\ (th = "Tick" \/ pc[th] # "create")
  PROVE  CallerInv' /\ QueuedOnce' /\ MappingsMatchRequests'
<1>1. CallerInv' /\ QueuedOnce'
  BY DEF MapInv, Clients, CallerInv, QueuedOnce, LevelReq, logVars, thrVars
<1>2. pc \in [Thread -> Label] /\ cur["Tick"] = None
  BY CallFacts DEF MapInv, Clients, IndInv, TypeOK, ThreadType
<1>3. MappingsMatchRequests'
  BY <1>2 DEF MapInv, MappingsMatchRequests, logVars, thrVars, Goto
<1> QED BY <1>1, <1>3

LEMMA SubmitClients ==
  ASSUME MapInv, NEW th \in {"App", "Cb"}, NEW r \in LevelReq(th), Submit(th, r)
  PROVE  CallerInv' /\ QueuedOnce' /\ MappingsMatchRequests'
<1>1. Clients BY DEF MapInv
<1>2. r \in Req /\ status[r] = "none" BY DEF Submit, LevelReq
<1>3. r \notin Range(accepted)
  <2>1. Range(accepted) = Range(signalled) \cup Range(queue) BY <1>1, QueueFacts
  <2>2. "none" \notin Final /\ "none" # "issued" BY DEF Final, Failure
  <2> QED BY <1>2, <2>1, <2>2 DEF MapInv, Clients, QueuedOnce
<1>4. status \in [Req -> Status] /\ cur \in [Thread -> Trb \cup {None}] /\ pc \in [Thread -> Label]
  BY DEF MapInv, Clients, IndInv, TypeOK, LogType, ThreadType
<1>5. UNCHANGED <<accepted, queue, signalled, mapped, lost>> BY DEF Submit, trbVars
<1>6. \A q \in Req : q \in Range(accepted) => status'[q] = status[q]
  BY <1>3, <1>4 DEF Submit
<1>7. QueuedOnce'
  <2>1. Range(accepted) = Range(signalled) \cup Range(queue) /\ Range(accepted) \subseteq Req
    BY <1>1, QueueFacts, RangeType
  <2> QED BY <1>5, <1>6, <2>1 DEF MapInv, Clients, QueuedOnce
<1>8. CASE SlotStatus = "SUCCESS"
  <2>1. status' = [status EXCEPT ![r] = "issued"] /\ cur' = [cur EXCEPT ![th] = r]
        /\ pc' = [pc EXCEPT ![th] = "create"]
    BY <1>8 DEF Submit, Goto
  <2>2. CallerInv'
    BY <1>2, <1>3, <1>4, <1>5, <2>1 DEF MapInv, Clients, CallerInv, LevelReq, Thread
  <2>3. MappingsMatchRequests'
    BY <1>4, <1>5, <2>1 DEF MapInv, MappingsMatchRequests, Thread
  <2> QED BY <1>7, <2>2, <2>3
<1>9. CASE SlotStatus # "SUCCESS"
  <2>1. status' = [status EXCEPT ![r] = SlotStatus] /\ UNCHANGED <<pc, cur>>
    BY <1>9 DEF Submit, thrVars
  <2>2. CallerInv'
    BY <1>2, <1>4, <1>5, <2>1 DEF MapInv, Clients, CallerInv, LevelReq, Thread
  <2>3. MappingsMatchRequests'
    BY <1>5, <2>1 DEF MapInv, MappingsMatchRequests
  <2> QED BY <1>7, <2>2, <2>3
<1> QED BY <1>8, <1>9

\* A call that returns has its status, and gives its TRB up.
LEMMA ReturnClients ==
  ASSUME MapInv, NEW th \in {"App", "Cb"}, NEW st \in Final, Return(th, st),
         pc[th] \in Working, UNCHANGED <<queue, mapped>>
  PROVE  CallerInv' /\ QueuedOnce' /\ MappingsMatchRequests'
<1>1. Clients BY DEF MapInv
<1>2. cur[th] \in Trb
  BY DEF MapInv, Clients, IndInv, ControlInv, CallControl, Thread
<1>3. status \in [Req -> Status] /\ cur \in [Thread -> Trb \cup {None}] /\ pc \in [Thread -> Label]
  BY DEF MapInv, Clients, IndInv, TypeOK, LogType, ThreadType
<1>4. UNCHANGED <<accepted, queue, signalled, mapped, lost>> BY DEF Return
<1>5. cur' = [cur EXCEPT ![th] = None] BY DEF Return
<1>6. \A u \in Thread \ {th} : pc'[u] = pc[u]
  BY <1>3 DEF Return, EndRoutine, Goto
<1>7. /\ \A q \in Req \ {cur[th]} : status'[q] = status[q]
      /\ cur[th] \in Req => cur[th] \notin Range(accepted)
  BY <1>2, <1>3 DEF Return, MapInv, Clients, CallerInv
<1>8. QueuedOnce'
  <2>1. Range(accepted) = Range(signalled) \cup Range(queue) /\ Range(accepted) \subseteq Req
    BY <1>1, QueueFacts, RangeType
  <2> QED BY <1>4, <1>7, <2>1 DEF MapInv, Clients, QueuedOnce
<1>9. CallerInv'
  <2> SUFFICES ASSUME NEW u \in {"App", "Cb"}, cur'[u] \in Req
               PROVE  /\ cur'[u] \in LevelReq(u) /\ status'[cur'[u]] = "issued"
                      /\ cur'[u] \notin Range(accepted')
    BY DEF CallerInv, LevelReq
  <2>1. u # th /\ cur'[u] = cur[u] BY <1>3, <1>5 DEF Thread
  <2>2. cur[u] # cur[th] BY <1>1, <1>2, <2>1, CallFacts
  <2> QED BY <1>4, <1>7, <2>1, <2>2 DEF MapInv, Clients, CallerInv
<1>10. MappingsMatchRequests'
  BY <1>3, <1>4, <1>5, <1>6 DEF MapInv, MappingsMatchRequests, Thread
<1> QED BY <1>8, <1>9, <1>10

LEMMA CreateTrbClients ==
  ASSUME MapInv, NEW th \in {"App", "Cb"}, CreateTrb(th)
  PROVE  CallerInv' /\ QueuedOnce' /\ MappingsMatchRequests'
<1>1. Clients BY DEF MapInv
<1>2. cur[th] \in Trb /\ pc[th] = "create"
  BY DEF CreateTrb, MapInv, Clients, IndInv, ControlInv, CallControl, Thread, Working
<1>3. cur \in [Thread -> Trb \cup {None}] /\ pc \in [Thread -> Label]
  BY DEF MapInv, Clients, IndInv, TypeOK, ThreadType
<1>4. UNCHANGED <<status, signalled, lost>> /\ mapped' = mapped \cup ({cur[th]} \cap DmaReq)
  BY DEF CreateTrb
<1>5. CASE cur[th] \in AsyncReq
  <2>1. /\ queue' = Append(queue, cur[th]) /\ accepted' = Append(accepted, cur[th])
        /\ cur' = [cur EXCEPT ![th] = None] /\ pc' = [pc EXCEPT ![th] = "idle"]
    BY <1>5 DEF CreateTrb, InsertTail, Goto
  <2>2. /\ Range(queue') = Range(queue) \cup {cur[th]}
        /\ Range(accepted') = Range(accepted) \cup {cur[th]}
    BY <1>1, <1>5, <2>1, QueueFacts, RangeAppend
  <2>3. cur[th] \notin Range(accepted) /\ status[cur[th]] = "issued"
    BY <1>5 DEF MapInv, Clients, CallerInv
  <2>4. Distinct(accepted')
    BY <1>1, <1>5, <2>1, <2>3, QueueFacts, DistinctAppend
  <2>5. QueuedOnce'
    BY <1>4, <2>2, <2>3, <2>4 DEF MapInv, Clients, QueuedOnce, Distinct
  <2>6. CallerInv'
    <3> SUFFICES ASSUME NEW u \in {"App", "Cb"}, cur'[u] \in Req
                 PROVE  /\ cur'[u] \in LevelReq(u) /\ status'[cur'[u]] = "issued"
                        /\ cur'[u] \notin Range(accepted')
      BY DEF CallerInv, LevelReq
    <3>1. u # th /\ cur'[u] = cur[u] BY <1>3, <2>1 DEF Thread
    <3>2. cur[u] # cur[th] BY <1>1, <1>2, <3>1, CallFacts
    <3> QED BY <1>4, <2>2, <3>1, <3>2 DEF MapInv, Clients, CallerInv
  <2>7. MappingsMatchRequests'
    BY <1>3, <1>4, <1>5, <2>1, <2>2 DEF MapInv, MappingsMatchRequests, Thread
  <2> QED BY <2>5, <2>6, <2>7
<1>6. CASE cur[th] \notin AsyncReq
  <2>1. UNCHANGED <<queue, accepted, cur>> /\ pc' = [pc EXCEPT ![th] = "waitq"]
    BY <1>6 DEF CreateTrb, Goto
  <2>2. CallerInv' /\ QueuedOnce'
    BY <1>4, <2>1 DEF MapInv, Clients, CallerInv, QueuedOnce, LevelReq
  <2>3. MappingsMatchRequests'
    BY <1>3, <1>4, <1>6, <2>1 DEF MapInv, MappingsMatchRequests, Thread
  <2> QED BY <2>2, <2>3
<1> QED BY <1>5, <1>6

LEMMA StopFreeClients ==
  ASSUME MapInv, StopFree
  PROVE  CallerInv' /\ QueuedOnce' /\ MappingsMatchRequests'
<1>1. Clients BY DEF MapInv
<1>2. Range(accepted) = Range(signalled) \cup Range(queue) /\ Distinct(signalled)
  BY <1>1, QueueFacts
<1>3. /\ UNCHANGED <<cur, status, signalled, mapped>> /\ accepted' = signalled
      /\ queue' = <<>> /\ lost' = lost \cup Range(queue)
  BY DEF StopFree
<1>4. Range(queue') = {} BY <1>3 DEF Range
<1>5. CallerInv' /\ QueuedOnce'
  BY <1>2, <1>3, <1>4 DEF MapInv, Clients, CallerInv, QueuedOnce, LevelReq, Distinct
<1>6. cur["App"] = None
  BY DEF StopFree, MapInv, Clients, IndInv, ControlInv, CallControl, Thread, Working
<1>7. \A u \in Thread \ {"App"} : pc'[u] = pc[u]
  BY DEF StopFree, Goto, MapInv, Clients, IndInv, TypeOK, ThreadType
<1>8. MappingsMatchRequests'
  BY <1>3, <1>4, <1>6, <1>7 DEF MapInv, MappingsMatchRequests, Thread
<1> QED BY <1>5, <1>8

LEMMA SendIdentClients ==
  ASSUME MapInv, NEW th \in {"App", "Cb"}, SendIdent(th)
  PROVE  CallerInv' /\ QueuedOnce' /\ MappingsMatchRequests'
<1>1. cur \in [Thread -> Trb \cup {None}] /\ pc \in [Thread -> Label]
  BY DEF MapInv, Clients, IndInv, TypeOK, ThreadType
<1>2. /\ cur' = [cur EXCEPT ![th] = Ident] /\ pc' = [pc EXCEPT ![th] = "create"]
      /\ UNCHANGED <<queue, mapped, logVars>>
  BY DEF SendIdent, Goto, trbVars
<1>3. CallerInv' /\ QueuedOnce'
  BY <1>1, <1>2 DEF MapInv, Clients, CallerInv, QueuedOnce, LevelReq, logVars, Thread
<1>4. MappingsMatchRequests'
  BY <1>1, <1>2 DEF MapInv, MappingsMatchRequests, logVars, Thread
<1> QED BY <1>3, <1>4

LEMMA NotReadyClients ==
  ASSUME MapInv, queue # <<>>, NotReady(Head(queue)), UNCHANGED cur,
         \A th \in {"App", "Cb"} : pc'[th] = pc[th]
  PROVE  CallerInv' /\ QueuedOnce' /\ MappingsMatchRequests'
<1>1. CASE SignalHead("TIMEOUT")
  BY <1>1, AnswerHeadClients, AnswerHeadMappings DEF SignalHead, MapInv, Final, Failure
<1>2. CASE ~SignalHead("TIMEOUT")
  <2>1. UNCHANGED <<queue, mapped, logVars, cur>> BY <1>2 DEF NotReady
  <2>2. cur["Tick"] = None BY CallFacts DEF MapInv
  <2>3. CallerInv' /\ QueuedOnce'
    BY <2>1 DEF MapInv, Clients, CallerInv, QueuedOnce, LevelReq, logVars
  <2>4. MappingsMatchRequests'
    BY <2>1, <2>2 DEF MapInv, MappingsMatchRequests, logVars, Thread
  <2> QED BY <2>3, <2>4
<1> QED BY <1>1, <1>2

LEMMA TickClients ==
  ASSUME MapInv, Timer
  PROVE  CallerInv' /\ QueuedOnce' /\ MappingsMatchRequests'
<1>1. pc \in [Thread -> Label] BY DEF MapInv, Clients, IndInv, TypeOK, ThreadType
<1>2. CASE TickRefuse
  <2>1. queue # <<>> /\ UNCHANGED thrVars BY <1>2 DEF TickRefuse
  <2>2. CASE SignalHead("NO_MEDIA")
    BY <2>1, <2>2, AnswerHeadClients, AnswerHeadMappings
       DEF SignalHead, MapInv, Final, Failure, thrVars
  <2>3. CASE NotReady(Head(queue))
    BY <2>1, <2>3, NotReadyClients DEF thrVars
  <2> QED BY <1>2, <2>2, <2>3 DEF TickRefuse
<1>3. CASE TickExec
  <2>1. /\ UNCHANGED <<queue, mapped, logVars, cur>>
        /\ Goto("Tick", "check")
    BY <1>3 DEF TickExec, Goto
  <2> QED BY <2>1, ClientFrame DEF Thread, Label
<1>4. CASE TickCheck
  <2>1. queue # <<>> BY <1>4 DEF TickCheck, MapInv, Clients, IndInv, ControlInv, TickControl
  <2>2. UNCHANGED cur /\ \A th \in {"App", "Cb"} : pc'[th] = pc[th]
    BY <1>1, <1>4 DEF TickCheck, TickIdle
  <2>3. CASE NotReady(Head(queue)) BY <2>1, <2>2, <2>3, NotReadyClients
  <2>4. CASE ~NotReady(Head(queue))
    <3>1. PICK res \in Final : AnswerHead(res)
      BY <1>4, <2>4 DEF TickCheck, CheckTrbResult, Final, Failure
    <3> QED BY <2>1, <2>2, <3>1, AnswerHeadClients, AnswerHeadMappings DEF MapInv
  <2> QED BY <2>3, <2>4
<1> QED BY <1>2, <1>3, <1>4 DEF Timer

LEMMA CallClients ==
  ASSUME MapInv, NEW th \in {"App", "Cb"}, SyncStep(th)
  PROVE  CallerInv' /\ QueuedOnce' /\ MappingsMatchRequests'
<1>1. CASE CreateTrb(th) BY <1>1, CreateTrbClients
<1>2. CASE CreateTrbFails(th) \/ WaitTimeout(th)
  <2>1. UNCHANGED <<queue, mapped>> /\ pc[th] \in Working
    BY <1>2 DEF CreateTrbFails, WaitTimeout, trbVars, Working
  <2>2. \E st \in Final : Return(th, st)
    BY <1>2 DEF CreateTrbFails, WaitTimeout, Final, Failure
  <2> QED BY <2>1, <2>2, ReturnClients
<1>3. CASE WaitTrbResult(th)
  <2>1. UNCHANGED <<queue, mapped>> /\ pc[th] \in Working
    BY <1>3 DEF WaitTrbResult, trbVars, Working
  <2>2. \E st \in Final : Return(th, st)
    BY <1>3 DEF WaitTrbResult, CheckTrbResult, Final, Failure
  <2> QED BY <2>1, <2>2, ReturnClients
<1>4. CASE WaitQueueEmpty(th) \/ WaitTrbEnv(th) \/ ExecTrbProgram(th) \/ ExecTrbCommand(th)
  <2>1. UNCHANGED <<queue, mapped, logVars, cur>> /\ pc[th] # "create"
    BY <1>4 DEF WaitQueueEmpty, WaitTrbEnv, ExecTrbProgram, ExecTrbCommand, trbVars
  <2>2. \E label \in Label : Goto(th, label)
    BY <1>4 DEF WaitQueueEmpty, WaitTrbEnv, ExecTrbProgram, ExecTrbCommand, Label
  <2> QED BY <2>1, <2>2, ClientFrame DEF Thread
<1>5. CASE SendIdent(th) BY <1>5, SendIdentClients
<1> QED BY <1>1, <1>2, <1>3, <1>4, <1>5 DEF SyncStep

LEMMA OtherClients ==
  ASSUME MapInv,
         Enumerate \/ Binding \/ ResetDevice \/ Controller \/ CardEvent \/ UNCHANGED vars
  PROVE  CallerInv' /\ QueuedOnce' /\ MappingsMatchRequests'
<1>1. CASE EnumerateRemoved
  BY <1>1, SignalAllClients, SignalAllMappings
     DEF EnumerateRemoved, MapInv, thrVars, Final, Failure
<1>2. CASE ResetDevice
  BY <1>2, SignalAllClients, SignalAllMappings DEF ResetDevice, MapInv, thrVars, Final, Failure
<1>3. CASE EnumerateInserted
  <2>1. /\ UNCHANGED <<queue, mapped, logVars, cur>> /\ pc["Cb"] # "create"
        /\ Goto("Cb", "ident")
    BY <1>3 DEF EnumerateInserted, EnumerateGuard, trbVars
  <2> QED BY <2>1, ClientFrame DEF Thread, Label
<1>4. CASE Start \/ Stop
  <2>1. /\ UNCHANGED <<queue, mapped, logVars, cur>> /\ pc["App"] # "create"
        /\ Goto("App", "ident") \/ Goto("App", "stop")
    BY <1>4 DEF Start, Stop, trbVars
  <2> QED BY <2>1, ClientFrame DEF Thread, Label
<1>5. CASE StopAbort
  <2>1. queue # <<>> BY <1>5 DEF StopAbort, MapInv, Clients, IndInv, ControlInv, StopControl
  <2> QED
    BY <1>5, <2>1, AnswerHeadClients, AnswerHeadMappings
       DEF StopAbort, SignalHead, MapInv, thrVars, Final, Failure
<1>6. CASE StopFree BY <1>6, StopFreeClients
<1>7. CASE EnumerateInitFails \/ Controller \/ CardEvent \/ UNCHANGED vars
  <2>1. UNCHANGED <<queue, mapped, logVars, thrVars>>
    BY <1>7 DEF EnumerateInitFails, Controller, HwResponse, HwCmdError, HwTransfer,
                HwDatError, CardEvent, vars, trbVars
  <2> QED BY <2>1, ClientFrame
<1> QED BY <1>1, <1>2, <1>3, <1>4, <1>5, <1>6, <1>7 DEF Enumerate, Binding

LEMMA ClientsNext ==
  ASSUME MapInv, [Next]_vars
  PROVE  CallerInv' /\ QueuedOnce' /\ MappingsMatchRequests'
  BY TickClients, CallClients, SubmitClients, OtherClients DEF Next

(* --- The timer works on the head of the queue --- *)
\* Removing the head, started or not, leaves nothing started.
LEMMA AnswerHeadTimer ==
  ASSUME MapInv, TimerInv, queue # <<>>, NEW st, AnswerHead(st)
  PROVE  started' = {}
  BY DEF TimerInv, OnlyHeadStarted, AnswerHead

LEMMA SignalAllTimer ==
  ASSUME MapInv, TimerInv, NEW st, SignalAll(st)
  PROVE  started' = {}
<1>1. queue # <<>> => Head(queue) \in Range(queue)
  BY HeadFacts DEF MapInv
<1> QED BY <1>1 DEF TimerInv, OnlyHeadStarted, SignalAll

LEMMA TimerNext ==
  ASSUME MapInv, TimerInv, [Next]_vars
  PROVE  TimerInv'
<1>1. /\ pc \in [Thread -> Label] /\ TickControl /\ StopControl
      /\ queue \in Seq(AsyncReq)
  BY DEF MapInv, Clients, IndInv, TypeOK, ThreadType, TrbType, ControlInv
<1>2. CASE TickRefuse
  <2>1. queue # <<>> /\ UNCHANGED <<thrVars, stopNext>> /\ pc["Tick"] = "idle"
    BY <1>2 DEF TickRefuse, driverVars
  <2>2. CASE \E st \in Final : AnswerHead(st)
    BY <2>1, <2>2, AnswerHeadTimer DEF TimerInv, OnlyHeadStarted, thrVars
  <2>3. CASE UNCHANGED <<queue, started>>
    BY <2>1, <2>3 DEF TimerInv, OnlyHeadStarted, thrVars
  <2> QED BY <1>2, <2>2, <2>3 DEF TickRefuse, NotReady, SignalHead, Final, Failure
<1>3. CASE TickExec
  <2>1. /\ queue # <<>> /\ UNCHANGED <<queue, stopNext>> /\ driver = "started"
        /\ started' = started \cup {Head(queue)} /\ pc' = [pc EXCEPT !["Tick"] = "check"]
    BY <1>3 DEF TickExec, driverVars
  <2>2. pc["App"] # "stop" BY <1>1, <2>1 DEF StopControl
  <2> QED BY <1>1, <2>1, <2>2 DEF TimerInv, OnlyHeadStarted, Thread
<1>4. CASE TickCheck
  <2>1. /\ queue # <<>> /\ UNCHANGED stopNext /\ pc' = [pc EXCEPT !["Tick"] = "idle"]
    BY <1>1, <1>4 DEF TickCheck, TickIdle, TickControl, driverVars
  <2>2. CASE \E st \in Final : AnswerHead(st)
    BY <1>1, <2>1, <2>2, AnswerHeadTimer DEF TimerInv, OnlyHeadStarted, Thread
  <2>3. CASE UNCHANGED <<queue, started>>
    BY <1>1, <2>1, <2>3 DEF TimerInv, OnlyHeadStarted, Thread
  <2> QED BY <1>4, <2>2, <2>3
          DEF TickCheck, NotReady, SignalHead, CheckTrbResult, Final, Failure
<1>5. CASE EnumerateRemoved \/ ResetDevice
  <2>1. started' = {} BY <1>5, SignalAllTimer DEF EnumerateRemoved, ResetDevice
  <2>2. pc'["Tick"] = "idle"
    BY <1>5 DEF EnumerateRemoved, EnumerateGuard, ResetDevice, CanRun, Above, thrVars
  <2> QED BY <2>1, <2>2 DEF TimerInv, OnlyHeadStarted
<1>6. CASE Stop
  <2>1. /\ UNCHANGED <<queue, started>> /\ pc' = [pc EXCEPT !["App"] = "stop"]
        /\ stopNext' = IF queue = <<>> THEN None ELSE Head(queue)
    BY <1>6 DEF Stop, Goto, trbVars
  <2>2. queue # <<>> => stopNext' # None
    BY <1>1, <2>1, HeadTailType
  <2> QED BY <1>1, <2>1, <2>2 DEF TimerInv, OnlyHeadStarted, Thread
<1>7. CASE StopAbort
  <2>1. queue # <<>> /\ pc["Tick"] = "idle" /\ UNCHANGED thrVars
    BY <1>1, <1>7 DEF StopAbort, StopControl, CanRun, Above
  <2>2. started' = {} BY <1>7, <2>1, AnswerHeadTimer DEF StopAbort, SignalHead
  <2> QED BY <2>1, <2>2 DEF TimerInv, OnlyHeadStarted, thrVars
<1>8. CASE StopFree
  <2>1. pc' = [pc EXCEPT !["App"] = "idle"] /\ started' = {} /\ pc["Tick"] = "idle"
    BY <1>8 DEF StopFree, Goto, TimerInv, CanRun, Above
  <2> QED BY <1>1, <2>1 DEF TimerInv, OnlyHeadStarted, Thread
<1>9. CASE Start \/ EnumerateInserted
  <2>1. /\ UNCHANGED <<queue, started, stopNext>>
        /\ pc' = [pc EXCEPT !["App"] = "ident"] \/ pc' = [pc EXCEPT !["Cb"] = "ident"]
    BY <1>9 DEF Start, EnumerateInserted, Goto, trbVars
  <2> QED BY <1>1, <2>1 DEF TimerInv, OnlyHeadStarted, Thread
<1>10. ASSUME NEW th \in {"App", "Cb"}, CreateTrb(th) PROVE TimerInv'
  <2>1. /\ UNCHANGED <<started, stopNext>> /\ CanRun(th)
        /\ queue' = queue \/ (cur[th] \in AsyncReq /\ queue' = Append(queue, cur[th]))
        /\ \E label \in {"idle", "waitq"} : pc' = [pc EXCEPT ![th] = label]
    BY <1>10 DEF CreateTrb, InsertTail, Goto, driverVars
  <2>2. queue # <<>> => queue' # <<>> /\ Head(queue') = Head(queue)
    BY <1>1, <2>1, HeadAppend
  <2> QED BY <1>1, <2>1, <2>2 DEF TimerInv, OnlyHeadStarted, Thread, TickControl
<1>11. ASSUME NEW th \in {"App", "Cb"},
              (SyncStep(th) /\ ~CreateTrb(th)) \/ \E r \in LevelReq(th) : Submit(th, r)
       PROVE  TimerInv'
  <2>1. UNCHANGED <<queue, started, stopNext>>
    BY <1>11 DEF SyncStep, Submit, CreateTrbFails, WaitQueueEmpty, WaitTrbEnv, ExecTrbProgram,
       ExecTrbCommand, WaitTrbResult, WaitTimeout, SendIdent, Return, trbVars, driverVars
  <2>2. pc' = pc \/ \E label \in Label \ {"stop"} : pc' = [pc EXCEPT ![th] = label]
    BY <1>11 DEF SyncStep, Submit, CreateTrbFails, WaitQueueEmpty, WaitTrbEnv, ExecTrbProgram,
       ExecTrbCommand, WaitTrbResult, WaitTimeout, SendIdent, Return, EndRoutine, Goto,
       thrVars, Label
  <2> QED BY <1>1, <2>1, <2>2 DEF TimerInv, OnlyHeadStarted, Thread
<1>12. CASE EnumerateInitFails \/ Controller \/ CardEvent \/ UNCHANGED vars
  <2>1. UNCHANGED <<queue, started, stopNext, thrVars>>
    BY <1>12 DEF EnumerateInitFails, Controller, HwResponse, HwCmdError, HwTransfer,
                 HwDatError, CardEvent, vars, trbVars, driverVars
  <2> QED BY <2>1 DEF TimerInv, OnlyHeadStarted, thrVars
<1> QED
  BY <1>2, <1>3, <1>4, <1>5, <1>6, <1>7, <1>8, <1>9, <1>10, <1>11, <1>12
     DEF Next, Timer, Enumerate, Binding

(* --- The controller works for one TRB at a time --- *)
QueueInv == MapInv /\ TimerInv

LEMMA ExecutingMembers ==
  /\ Executing = started \cup {cur[th] : th \in {u \in {"App", "Cb"} : pc[u] \in {"cmd", "result"}}}
  /\ Executing' = started' \cup {cur'[th] : th \in {u \in {"App", "Cb"} : pc'[u] \in {"cmd", "result"}}}
  BY DEF Executing

\* The head of the queue, when it is started, is the timer's; a call's TRB is
\* another, and executing only from its first register write to its end.
LEMMA ExecutingFacts ==
  ASSUME QueueInv
  PROVE  /\ \A t \in started : queue # <<>> /\ t = Head(queue)
         /\ \A th \in {"App", "Cb"} : cur[th] \notin started
         /\ \A th \in {"App", "Cb"} :
              cur[th] # None => (cur[th] \in Executing <=> pc[th] \in {"cmd", "result"})
         /\ Executing \subseteq Trb
<1>1. Clients BY DEF QueueInv, MapInv
<1>2. \A t \in started : queue # <<>> /\ t = Head(queue) /\ t \in Range(queue)
  BY <1>1, HeadFacts DEF QueueInv, TimerInv, OnlyHeadStarted
<1>3. \A th \in {"App", "Cb"} : cur[th] \notin started
  BY <1>1, <1>2, CallFacts
<1>4. cur["App"] = cur["Cb"] => cur["App"] = None BY <1>1, CallFacts
<1>5. \A th \in {"App", "Cb"} :
        cur[th] # None => (cur[th] \in Executing <=> pc[th] \in {"cmd", "result"})
  BY <1>3, <1>4, ExecutingMembers
<1>6. \A th \in {"App", "Cb"} : pc[th] \in {"cmd", "result"} => cur[th] \in Trb
  BY <1>1 DEF Clients, IndInv, ControlInv, CallControl, Thread, Working
<1>7. started \subseteq Trb BY <1>1 DEF Clients, IndInv, TypeOK, TrbType
<1>8. Executing \subseteq Trb BY <1>6, <1>7, ExecutingMembers
<1> QED BY <1>2, <1>3, <1>5, <1>8

\* Steps by which the controller is not touched and TRBs at most stop being
\* executed, none of them on the bus.
LEMMA BusShrinks ==
  ASSUME BusInv, Executing' \subseteq Executing, UNCHANGED hwVars,
         \A t \in Executing' : t \in done => t \in done',
         causes' = {} => causes = {} /\ {cmdLine, datLine} \subseteq Executing' \cup {None},
         \A th \in {"App", "Cb"} : pc'[th] = "cmd" => pc[th] = "cmd"
  PROVE  BusInv'
<1> SUFFICES ASSUME causes' = {}
             PROVE  (OneExecutes /\ BusIsOwned /\ StatusIsTrue /\ DmaIsLoaded)'
  BY DEF BusInv
<1>1. OneExecutes /\ BusIsOwned /\ StatusIsTrue /\ DmaIsLoaded BY DEF BusInv
<1>2. OneExecutes' BY <1>1 DEF OneExecutes
<1>3. BusIsOwned' BY <1>1 DEF BusIsOwned, hwVars
<1>4. StatusIsTrue' BY <1>1 DEF StatusIsTrue, hwVars
<1>5. DmaIsLoaded' BY <1>1 DEF DmaIsLoaded, hwVars
<1> QED BY <1>2, <1>3, <1>4, <1>5

LEMMA BusIdle ==
  ASSUME causes' = {} => Executing' = {} /\ cmdLine' = None /\ datLine' = None,
         \A th \in {"App", "Cb"} : pc'[th] = "cmd" => cur'[th] \in Executing'
  PROVE  BusInv'
  BY DEF BusInv, OneExecutes, BusIsOwned, StatusIsTrue, DmaIsLoaded

\* A TRB reported as successful has been executed, and has left the bus.
LEMMA SuccessIsTrue ==
  ASSUME BusInv, causes = {}, NEW t \in Executing, CheckTrbResult(t) = "SUCCESS"
  PROVE  t \in done /\ cmdLine = None /\ datLine = None
<1>1. OneExecutes /\ BusIsOwned /\ StatusIsTrue BY DEF BusInv
<1>2. CASE "TC" \in sts
  <2>1. sts \cap Err = {} \/ "DATTMO" \in sts BY <1>2 DEF CheckTrbResult
  <2> QED BY <1>1, <1>2, <2>1 DEF StatusIsTrue
<1>3. CASE "TC" \notin sts
  <2>1. t \notin DatReq /\ "CC" \in sts BY <1>3 DEF CheckTrbResult
  <2>2. datLine = None BY <1>1, <2>1 DEF OneExecutes, BusIsOwned
  <2> QED BY <1>1, <2>1, <2>2 DEF StatusIsTrue
<1> QED BY <1>2, <1>3

\* The TRB whose result was looked at retires from the controller.
LEMMA BusRetires ==
  ASSUME BusInv, NEW t \in Executing, NEW res, res = CheckTrbResult(t),
         RecoverLines, causes' = OrphanedAfter(t, res),
         Executing' \subseteq Executing \ {t},
         \A th \in {"App", "Cb"} : pc'[th] = "cmd" => cur'[th] \in Executing'
  PROVE  BusInv'
<1> SUFFICES ASSUME causes' = {}
             PROVE  Executing' = {} /\ cmdLine' = None /\ datLine' = None
  BY BusIdle
<1>1. causes = {} BY DEF OrphanedAfter
<1>2. OneExecutes /\ BusIsOwned BY <1>1 DEF BusInv
<1>3. Executing' = {} BY <1>2 DEF OneExecutes
<1>4. {cmdLine', datLine'} \subseteq {t, None}
  BY <1>2 DEF OneExecutes, BusIsOwned, RecoverLines
<1>5. CASE res = "SUCCESS"
  BY <1>1, <1>5, SuccessIsTrue, <1>3 DEF RecoverLines
<1>6. CASE res # "SUCCESS"
  BY <1>3, <1>4, <1>6 DEF OrphanedAfter
<1> QED BY <1>5, <1>6

\* Steps that move no TRB and not the controller.
LEMMA BusFrame ==
  ASSUME QueueInv, BusInv, UNCHANGED <<started, hwVars, done, causes>>,
         \/ UNCHANGED thrVars
         \/ \E th \in {"App", "Cb"}, label \in Label :
              /\ Goto(th, label) /\ \A u \in {"App", "Cb"} \ {th} : cur'[u] = cur[u]
              /\ {pc[th], label} \cap {"cmd", "result"} = {}
  PROVE  BusInv'
<1>1. pc \in [Thread -> Label] BY DEF QueueInv, MapInv, Clients, IndInv, TypeOK, ThreadType
<1>2. Executing' = Executing
  <2>1. CASE UNCHANGED thrVars BY <2>1, ExecutingMembers DEF thrVars
  <2>2. ASSUME NEW th \in {"App", "Cb"}, NEW label \in Label,
               Goto(th, label) /\ \A u \in {"App", "Cb"} \ {th} : cur'[u] = cur[u],
               {pc[th], label} \cap {"cmd", "result"} = {}
        PROVE  Executing' = Executing
    <3>1. \A u \in {"App", "Cb"} : pc'[u] = IF u = th THEN label ELSE pc[u]
      BY <1>1, <2>2 DEF Goto, Thread
    <3>2. \A u \in {"App", "Cb"} : pc'[u] \in {"cmd", "result"} <=> pc[u] \in {"cmd", "result"}
      BY <2>2, <3>1
    <3>3. \A u \in {"App", "Cb"} : pc[u] \in {"cmd", "result"} => cur'[u] = cur[u]
      BY <2>2
    <3> QED BY <3>2, <3>3, ExecutingMembers
  <2> QED BY <2>1, <2>2
<1>3. \A th \in {"App", "Cb"} : pc'[th] = "cmd" => pc[th] = "cmd"
  BY <1>1 DEF thrVars, Goto, Thread
<1>4. causes = {} => {cmdLine, datLine} \subseteq Executing \cup {None}
  BY DEF BusInv, BusIsOwned
<1> QED BY <1>2, <1>3, <1>4, BusShrinks

\* TRBs of the queue are answered while the controller runs on.
LEMMA BusAnswers ==
  ASSUME QueueInv, BusInv, NEW S, started' = started \ S, causes' = Orphaned(S),
         UNCHANGED <<cur, hwVars, done>>, \A th \in {"App", "Cb"} : pc'[th] = pc[th],
         S \subseteq Range(queue)
  PROVE  BusInv'
<1>1. \A th \in {"App", "Cb"} : cur[th] \notin S
  BY CallFacts DEF QueueInv, MapInv
<1>2. Executing' = Executing \ S
  BY <1>1, ExecutingMembers
<1>3. causes' = {} => causes = {} /\ {cmdLine, datLine} \subseteq Executing' \cup {None}
  BY <1>2 DEF Orphaned, OnBus, BusInv, BusIsOwned
<1> QED BY <1>2, <1>3, BusShrinks

LEMMA AnswerHeadBus ==
  ASSUME QueueInv, BusInv, queue # <<>>, NEW st, SignalHead(st),
         UNCHANGED <<cur, hwVars, done>>, \A th \in {"App", "Cb"} : pc'[th] = pc[th]
  PROVE  BusInv'
<1>1. {Head(queue)} \subseteq Range(queue) BY HeadFacts DEF QueueInv, MapInv
<1> QED BY <1>1, BusAnswers DEF SignalHead, AnswerHead

LEMMA NotReadyBus ==
  ASSUME QueueInv, BusInv, queue # <<>>, NotReady(Head(queue)),
         UNCHANGED <<cur, hwVars, done>>, \A th \in {"App", "Cb"} : pc'[th] = pc[th]
  PROVE  BusInv'
<1>1. CASE SignalHead("TIMEOUT") BY <1>1, AnswerHeadBus
<1>2. CASE ~SignalHead("TIMEOUT")
  <2>1. UNCHANGED <<started, causes>> BY <1>2 DEF NotReady
  <2>2. Executing' = Executing BY <2>1, ExecutingMembers
  <2>3. causes = {} => {cmdLine, datLine} \subseteq Executing \cup {None}
    BY DEF BusInv, BusIsOwned
  <2> QED BY <2>1, <2>2, <2>3, BusShrinks
<1> QED BY <1>1, <1>2

\* A TRB is programmed: nothing else was being executed.
LEMMA BusPrograms ==
  ASSUME QueueInv, BusInv, NEW t \in Trb, t \notin Executing, ProgramTrb(t),
         Executing' \subseteq Executing \cup {t},
         datLine' = datLine, dmaBuf' = dmaBuf,
         \/ cmdLine' = cmdLine
         \/ /\ cmdLine' = t /\ t \in Executing'
            /\ \A th \in {"App", "Cb"} : pc'[th] = "cmd" => cur'[th] \in Executing' \ {t}
  PROVE  BusInv'
<1> SUFFICES ASSUME causes' = {}
             PROVE  (OneExecutes /\ BusIsOwned /\ StatusIsTrue /\ DmaIsLoaded)'
  BY DEF BusInv
<1>1. causes = {} /\ Executing = {} /\ sts' = {} /\ dmaReg' = IF t \in DmaReq THEN t ELSE dmaReg
  BY DEF ProgramTrb
<1>2. cmdLine = None /\ datLine = None BY <1>1 DEF BusInv, BusIsOwned
<1>3. OneExecutes' BY <1>1 DEF OneExecutes
<1>4. BusIsOwned' BY <1>1, <1>2 DEF BusIsOwned
<1>5. StatusIsTrue' BY <1>1, <1>2 DEF StatusIsTrue
<1>6. DmaIsLoaded' BY <1>1, <1>2 DEF DmaIsLoaded
<1> QED BY <1>3, <1>4, <1>5, <1>6

LEMMA TimerBus ==
  ASSUME QueueInv, BusInv, Timer
  PROVE  BusInv'
<1>1. /\ pc \in [Thread -> Label] /\ TickControl /\ queue \in Seq(AsyncReq)
  BY DEF QueueInv, MapInv, Clients, IndInv, TypeOK, ThreadType, TrbType, ControlInv
<1>2. CASE TickRefuse
  BY <1>2, AnswerHeadBus, NotReadyBus DEF TickRefuse, thrVars
<1>3. CASE TickExec
  <2>1. /\ queue # <<>> /\ Head(queue) \notin started /\ ProgramTrb(Head(queue))
        /\ cmdLine' = Head(queue) /\ UNCHANGED <<datLine, dmaBuf, cur>>
        /\ started' = started \cup {Head(queue)} /\ pc' = [pc EXCEPT !["Tick"] = "check"]
    BY <1>3 DEF TickExec, WriteCommand
  <2>2. Head(queue) \in Trb /\ \A th \in {"App", "Cb"} : cur[th] # Head(queue)
    BY <1>1, <2>1, HeadFacts, CallFacts, HeadTailType DEF QueueInv, MapInv
  <2>3. \A th \in {"App", "Cb"} : pc'[th] = pc[th] BY <1>1, <2>1 DEF Thread
  <2>4. Executing' = Executing \cup {Head(queue)} /\ Head(queue) \notin Executing
    BY <2>1, <2>2, <2>3, ExecutingMembers
  <2>5. \A th \in {"App", "Cb"} : pc'[th] = "cmd" => cur'[th] \in Executing' \ {Head(queue)}
    BY <2>1, <2>2, <2>3, ExecutingMembers
  <2> QED BY <2>1, <2>2, <2>4, <2>5, BusPrograms
<1>4. CASE TickCheck
  <2>1. /\ queue # <<>> /\ UNCHANGED <<cur, done>> /\ Head(queue) \in started
        /\ pc' = [pc EXCEPT !["Tick"] = "idle"]
    BY <1>1, <1>4 DEF TickCheck, TickIdle, TickControl, QueueInv, TimerInv
  <2>2. \A th \in {"App", "Cb"} : pc'[th] = pc[th] BY <1>1, <2>1 DEF Thread
  <2>3. CASE NotReady(Head(queue)) /\ UNCHANGED hwVars
    BY <2>1, <2>2, <2>3, NotReadyBus
  <2>4. CASE ~(NotReady(Head(queue)) /\ UNCHANGED hwVars)
    <3> DEFINE t == Head(queue)
    <3>1. /\ RecoverLines /\ causes' = OrphanedAfter(t, CheckTrbResult(t))
          /\ started' = started \ {t}
      BY <1>4, <2>4 DEF TickCheck, AnswerHead
    <3>2. t \in Executing /\ \A th \in {"App", "Cb"} : cur[th] # t
      BY <2>1, ExecutingMembers, ExecutingFacts
    <3>3. Executing' \subseteq Executing \ {t}
      BY <2>1, <2>2, <3>1, <3>2, ExecutingMembers
    <3>4. \A th \in {"App", "Cb"} : pc'[th] = "cmd" => cur'[th] \in Executing'
      BY ExecutingMembers
    <3> QED BY <3>1, <3>2, <3>3, <3>4, BusRetires
  <2> QED BY <2>3, <2>4
<1> QED BY <1>2, <1>3, <1>4 DEF Timer

\* The call of a level ends; what it executed is off the bus, or an orphan.
LEMMA ReturnExecuting ==
  ASSUME QueueInv, NEW th \in {"App", "Cb"}, NEW st, Return(th, st), pc[th] \in Working,
         started' = started
  PROVE  Executing' = Executing \ {cur[th]}
<1>1. /\ pc \in [Thread -> Label] /\ cur \in [Thread -> Trb \cup {None}] /\ cur[th] \in Trb
  BY DEF QueueInv, MapInv, Clients, IndInv, TypeOK, ThreadType, ControlInv, CallControl, Thread
<1>2. /\ \A u \in {"App", "Cb"} \ {th} : pc'[u] = pc[u] /\ cur'[u] = cur[u]
      /\ pc'[th] \in {"idle", "ident"}
  BY <1>1 DEF Return, EndRoutine, Goto, Thread
<1>3. /\ \A u \in {"App", "Cb"} \ {th} : cur[u] # cur[th]
      /\ cur[th] \notin started
  BY <1>1, CallFacts, ExecutingFacts DEF QueueInv, MapInv
<1> QED BY <1>2, <1>3, ExecutingMembers

LEMMA CallBus ==
  ASSUME QueueInv, BusInv, NEW th \in {"App", "Cb"}, SyncStep(th)
  PROVE  BusInv'
<1>1. /\ pc \in [Thread -> Label] /\ cur \in [Thread -> Trb \cup {None}]
      /\ pc[th] \in Working => cur[th] \in Trb
  BY DEF QueueInv, MapInv, Clients, IndInv, TypeOK, ThreadType, ControlInv, CallControl, Thread
<1>2. CASE CreateTrb(th)
  <2>1. /\ UNCHANGED <<started, hwVars, causes>> /\ done' = done \ {cur[th]}
        /\ pc[th] = "create" /\ \E label \in {"idle", "waitq"} : pc' = [pc EXCEPT ![th] = label]
        /\ cur' = cur \/ cur' = [cur EXCEPT ![th] = None]
    BY <1>2 DEF CreateTrb, Goto
  <2>2. \A u \in {"App", "Cb"} \ {th} : pc'[u] = pc[u] /\ cur'[u] = cur[u]
    BY <1>1, <2>1 DEF Thread
  <2>3. pc'[th] \notin {"cmd", "result"} BY <1>1, <2>1 DEF Thread
  <2>4. Executing' = Executing BY <2>1, <2>2, <2>3, ExecutingMembers
  <2>5. cur[th] \notin Executing BY <1>1, <2>1, ExecutingFacts DEF Working
  <2>6. causes = {} => {cmdLine, datLine} \subseteq Executing \cup {None}
    BY DEF BusInv, BusIsOwned
  <2> QED BY <2>1, <2>2, <2>3, <2>4, <2>5, <2>6, BusShrinks
<1>3. CASE CreateTrbFails(th) \/ WaitTimeout(th)
  <2>1. /\ UNCHANGED <<started, hwVars, done>> /\ pc[th] \in Working
        /\ \E st \in Final : Return(th, st)
    BY <1>3 DEF CreateTrbFails, WaitTimeout, trbVars, Working, Final, Failure
  <2>2. Executing' = Executing \ {cur[th]} BY <2>1, ReturnExecuting
  <2>3. \A u \in {"App", "Cb"} : pc'[u] = "cmd" => pc[u] = "cmd"
    BY <1>1, <2>1 DEF Return, EndRoutine, Goto, Thread
  <2>4. causes' = {} => causes = {} /\ {cmdLine, datLine} \subseteq Executing' \cup {None}
    <3>1. CASE CreateTrbFails(th)
      <4>1. cur[th] \notin Executing
        BY <1>1, <2>1, <3>1, ExecutingFacts DEF CreateTrbFails
      <4> QED BY <2>2, <3>1, <4>1 DEF CreateTrbFails, BusInv, BusIsOwned
    <3>2. CASE WaitTimeout(th)
      BY <2>2, <3>2 DEF WaitTimeout, Orphaned, OnBus, BusInv, BusIsOwned
    <3> QED BY <1>3, <3>1, <3>2
  <2> QED BY <2>1, <2>2, <2>3, <2>4, BusShrinks
<1>4. CASE WaitQueueEmpty(th) \/ WaitTrbEnv(th) \/ SendIdent(th)
  <2>1. /\ UNCHANGED <<started, hwVars, done, causes>>
        /\ \A u \in {"App", "Cb"} \ {th} : cur'[u] = cur[u]
    BY <1>1, <1>4 DEF WaitQueueEmpty, WaitTrbEnv, SendIdent, trbVars, Thread
  <2>2. \E label \in Label : Goto(th, label) /\ {pc[th], label} \cap {"cmd", "result"} = {}
    BY <1>4 DEF WaitQueueEmpty, WaitTrbEnv, SendIdent, Label
  <2> QED BY <2>1, <2>2, BusFrame
<1>5. CASE ExecTrbProgram(th)
  <2>1. /\ UNCHANGED <<started, cur, cmdLine, datLine, dmaBuf>> /\ ProgramTrb(cur[th])
        /\ pc[th] = "exec" /\ pc' = [pc EXCEPT ![th] = "cmd"]
    BY <1>5 DEF ExecTrbProgram, Goto, trbVars
  <2>2. \A u \in {"App", "Cb"} \ {th} : pc'[u] = pc[u] BY <1>1, <2>1 DEF Thread
  <2>3. Executing' \subseteq Executing \cup {cur[th]}
    BY <2>1, <2>2, ExecutingMembers
  <2>4. cur[th] \in Trb /\ cur[th] \notin Executing
    BY <1>1, <2>1, ExecutingFacts DEF Working
  <2> QED BY <2>1, <2>3, <2>4, BusPrograms
<1>6. CASE ExecTrbCommand(th)
  <2>1. /\ UNCHANGED <<started, cur, datLine, sts, dmaReg, dmaBuf, done, causes>>
        /\ WriteCommand(cur[th]) /\ pc[th] = "cmd" /\ pc' = [pc EXCEPT ![th] = "result"]
    BY <1>6 DEF ExecTrbCommand, Goto, trbVars
  <2>2. \A u \in {"App", "Cb"} : pc'[u] = IF u = th THEN "result" ELSE pc[u]
    BY <1>1, <2>1 DEF Thread
  <2>3. Executing' = Executing BY <2>1, <2>2, ExecutingMembers
  <2>4. cur[th] \in Executing BY <2>1, ExecutingMembers
  <2> SUFFICES ASSUME causes' = {}
               PROVE  (OneExecutes /\ BusIsOwned /\ StatusIsTrue /\ DmaIsLoaded)'
    BY DEF BusInv
  <2>5. OneExecutes /\ BusIsOwned /\ StatusIsTrue /\ DmaIsLoaded BY <2>1 DEF BusInv
  <2>6. cmdLine = None /\ datLine = None /\ sts = {} /\ cmdLine' = cur[th]
    BY <2>1, <2>5 DEF BusIsOwned, WriteCommand, EnvReady
  <2>7. \A u \in {"App", "Cb"} : pc'[u] # "cmd"
    <3> SUFFICES ASSUME NEW u \in {"App", "Cb"}, u # th, pc[u] = "cmd" PROVE FALSE
      BY <2>2
    <3>1. cur[u] \in Executing BY ExecutingMembers
    <3>2. cur[u] = cur[th] BY <2>4, <2>5, <3>1 DEF OneExecutes
    <3>3. cur[th] # None BY <1>1, <2>1 DEF Working
    <3> QED BY <3>2, <3>3, CallFacts DEF QueueInv, MapInv
  <2>8. OneExecutes' BY <2>3, <2>5 DEF OneExecutes
  <2>9. BusIsOwned' BY <2>1, <2>3, <2>4, <2>6, <2>7 DEF BusIsOwned
  <2>10. StatusIsTrue' BY <2>1, <2>6 DEF StatusIsTrue
  <2>11. DmaIsLoaded' BY <2>1, <2>3, <2>5 DEF DmaIsLoaded
  <2> QED BY <2>8, <2>9, <2>10, <2>11
<1>7. CASE WaitTrbResult(th)
  <2> DEFINE t == cur[th]
  <2>1. /\ UNCHANGED started /\ pc[th] = "result" /\ RecoverLines
        /\ causes' = OrphanedAfter(t, CheckTrbResult(t)) /\ Return(th, CheckTrbResult(t))
    BY <1>7 DEF WaitTrbResult, trbVars
  <2>2. Executing' = Executing \ {t} BY <2>1, ReturnExecuting DEF Working
  <2>3. t \in Executing BY <2>1, ExecutingMembers
  <2>4. \A u \in {"App", "Cb"} : pc'[u] = "cmd" => cur'[u] \in Executing'
    BY ExecutingMembers
  <2> QED BY <2>1, <2>2, <2>3, <2>4, BusRetires
<1> QED BY <1>2, <1>3, <1>4, <1>5, <1>6, <1>7 DEF SyncStep

LEMMA ControllerBus ==
  ASSUME QueueInv, BusInv, Controller
  PROVE  BusInv'
<1>1. UNCHANGED <<started, cur, pc, causes, dmaReg>>
  BY DEF Controller, HwResponse, HwCmdError, HwTransfer, HwDatError, trbVars, thrVars
<1>2. Executing' = Executing BY <1>1, ExecutingMembers
<1>3. None \notin Executing BY ExecutingFacts
<1> SUFFICES ASSUME causes' = {}
             PROVE  (OneExecutes /\ BusIsOwned /\ StatusIsTrue /\ DmaIsLoaded)'
  BY DEF BusInv
<1>4. OneExecutes /\ BusIsOwned /\ StatusIsTrue /\ DmaIsLoaded BY <1>1 DEF BusInv
<1>5. OneExecutes' BY <1>2, <1>4 DEF OneExecutes
<1>6. CASE HwResponse
  <2>1. /\ cmdLine \in Executing /\ datLine = None /\ "TC" \notin sts
    BY <1>4, <1>6 DEF HwResponse, BusIsOwned, StatusIsTrue
  <2>2. BusIsOwned' BY <1>1, <1>2, <1>4, <1>6, <2>1 DEF HwResponse, BusIsOwned
  <2>3. StatusIsTrue'
    BY <1>2, <1>4, <1>6, <2>1 DEF HwResponse, StatusIsTrue, OneExecutes, Err
  <2>4. DmaIsLoaded' BY <1>1, <1>2, <1>4, <1>6, <2>1 DEF HwResponse, DmaIsLoaded
  <2> QED BY <1>5, <2>2, <2>3, <2>4
<1>7. CASE HwCmdError
  <2>1. sts \cap {"CC", "TC"} = {} BY <1>4, <1>7 DEF HwCmdError, StatusIsTrue
  <2>2. BusIsOwned' BY <1>1, <1>2, <1>4, <1>7 DEF HwCmdError, BusIsOwned
  <2>3. StatusIsTrue' BY <1>2, <1>4, <1>7, <2>1 DEF HwCmdError, StatusIsTrue, Err
  <2>4. DmaIsLoaded' BY <1>1, <1>2, <1>4, <1>7 DEF HwCmdError, DmaIsLoaded
  <2> QED BY <1>5, <2>2, <2>3, <2>4
<1>8. CASE HwTransfer
  <2>1. datLine \in Executing /\ cmdLine = None
    BY <1>4, <1>8 DEF HwTransfer, BusIsOwned
  <2>2. BusIsOwned' BY <1>1, <1>2, <1>4, <1>8, <2>1 DEF HwTransfer, BusIsOwned
  <2>3. StatusIsTrue'
    BY <1>2, <1>4, <1>8, <2>1 DEF HwTransfer, StatusIsTrue, OneExecutes, Err
  <2>4. DmaIsLoaded' BY <1>1, <1>2, <1>4, <1>8 DEF HwTransfer, DmaIsLoaded
  <2> QED BY <1>5, <2>2, <2>3, <2>4
<1>9. CASE HwDatError
  <2>1. datLine \in Executing /\ cmdLine = None /\ datLine \in DatReq /\ "TC" \notin sts
    BY <1>4, <1>9 DEF HwDatError, BusIsOwned, StatusIsTrue
  <2>2. BusIsOwned' BY <1>1, <1>2, <1>4, <1>9, <2>1 DEF HwDatError, BusIsOwned
  <2>3. StatusIsTrue'
    BY <1>2, <1>4, <1>9, <2>1 DEF HwDatError, StatusIsTrue, OneExecutes, Err
  <2>4. DmaIsLoaded' BY <1>1, <1>2, <1>4, <1>9 DEF HwDatError, DmaIsLoaded
  <2> QED BY <1>5, <2>2, <2>3, <2>4
<1> QED BY <1>6, <1>7, <1>8, <1>9 DEF Controller

LEMMA OtherBus ==
  ASSUME QueueInv, BusInv,
         Enumerate \/ Binding \/ ResetDevice \/ CardEvent \/ UNCHANGED vars
  PROVE  BusInv'
<1>1. /\ pc \in [Thread -> Label] /\ StopControl
  BY DEF QueueInv, MapInv, Clients, IndInv, TypeOK, ThreadType, ControlInv
<1>2. CASE EnumerateRemoved \/ ResetDevice
  <2>1. UNCHANGED <<thrVars, hwVars, done>> /\ \E st \in Final : SignalAll(st)
    BY <1>2 DEF EnumerateRemoved, ResetDevice, Final, Failure
  <2> QED BY <2>1, BusAnswers DEF SignalAll, thrVars
<1>3. CASE EnumerateInserted \/ EnumerateInitFails
  <2>1. HcReset /\ UNCHANGED <<started, cur>>
    BY <1>3 DEF EnumerateInserted, EnumerateInitFails, trbVars, thrVars
  <2>2. \A th \in {"App", "Cb"} : pc'[th] \in {"cmd", "result"} => pc[th] \in {"cmd", "result"}
    BY <1>1, <1>3 DEF EnumerateInserted, EnumerateInitFails, Goto, thrVars, Thread
  <2>3. Executing' \subseteq Executing BY <2>1, <2>2, ExecutingMembers
  <2>4. causes' = {} => Executing' = {} /\ cmdLine' = None /\ datLine' = None
    BY <2>1, <2>3 DEF HcReset
  <2> QED BY <2>4, BusIdle, ExecutingMembers
<1>4. CASE Start \/ Stop
  <2>1. UNCHANGED <<started, hwVars, done, causes, cur>> /\ pc["App"] = "idle"
        /\ \E label \in {"ident", "stop"} : Goto("App", label)
    BY <1>4 DEF Start, Stop, trbVars
  <2> QED BY <2>1, BusFrame DEF Label
<1>5. CASE StopAbort
  <2>1. queue # <<>> BY <1>1, <1>5 DEF StopAbort, StopControl
  <2> QED BY <1>5, <2>1, AnswerHeadBus DEF StopAbort, thrVars
<1>6. CASE StopFree
  <2>1. /\ UNCHANGED <<hwVars, done, causes, cur>> /\ pc["App"] = "stop"
        /\ Goto("App", "idle")
    BY <1>6 DEF StopFree
  <2>2. started = {} /\ started' = started
    BY <1>6 DEF StopFree, QueueInv, TimerInv
  <2> QED BY <2>1, <2>2, BusFrame DEF Label
<1>7. CASE CardEvent \/ UNCHANGED vars
  BY <1>7, BusFrame DEF CardEvent, vars, trbVars
<1> QED BY <1>2, <1>3, <1>4, <1>5, <1>6, <1>7 DEF Enumerate, Binding

LEMMA SubmitBus ==
  ASSUME QueueInv, BusInv, NEW th \in {"App", "Cb"}, NEW r \in LevelReq(th), Submit(th, r)
  PROVE  BusInv'
<1>1. /\ UNCHANGED <<started, hwVars, done, causes>> /\ pc[th] = "idle"
      /\ UNCHANGED thrVars \/ (Goto(th, "create") /\ cur' = [cur EXCEPT ![th] = r])
  BY DEF Submit, trbVars
<1>2. cur \in [Thread -> Trb \cup {None}]
  BY DEF QueueInv, MapInv, Clients, IndInv, TypeOK, ThreadType
<1>3. \A u \in {"App", "Cb"} \ {th} : cur'[u] = cur[u]
  BY <1>1, <1>2 DEF thrVars, Thread
<1> QED BY <1>1, <1>3, BusFrame DEF Label

LEMMA BusNext ==
  ASSUME QueueInv, BusInv, [Next]_vars
  PROVE  BusInv'
  BY TimerBus, CallBus, SubmitBus, ControllerBus, OtherBus DEF Next

(* --- SUCCESS is told of executed requests --- *)
\* Steps that give failures only, and forget nothing that was executed.
LEMMA EarnedFrame ==
  ASSUME SuccessIsEarned, causes' = {} => causes = {},
         \A r \in Req : status'[r] = "SUCCESS" => status[r] = "SUCCESS" /\ (r \in done => r \in done')
  PROVE  SuccessIsEarned'
  BY DEF SuccessIsEarned

\* One request is told SUCCESS, after it was executed.
LEMMA EarnedOne ==
  ASSUME SuccessIsEarned, causes' = {} => causes = {}, NEW t,
         UNCHANGED done, \A r \in Req \ {t} : status'[r] = status[r],
         causes' = {} /\ t \in Req /\ status'[t] = "SUCCESS" => t \in done
  PROVE  SuccessIsEarned'
  BY DEF SuccessIsEarned

LEMMA AnswerHeadEarned ==
  ASSUME QueueInv, SuccessIsEarned, queue # <<>>, NEW st, AnswerHead(st), UNCHANGED done,
         causes' = {} => causes = {} /\ (st = "SUCCESS" => Head(queue) \in done)
  PROVE  SuccessIsEarned'
<1>1. Head(queue) \in Req BY HeadFacts DEF QueueInv, MapInv
<1>2. status \in [Req -> Status] BY DEF QueueInv, MapInv, Clients, IndInv, TypeOK, LogType
<1> QED BY <1>1, <1>2, EarnedOne DEF AnswerHead

LEMMA EarnedNext ==
  ASSUME QueueInv, BusInv, SuccessIsEarned, [Next]_vars
  PROVE  SuccessIsEarned'
<1>1. /\ status \in [Req -> Status] /\ TickControl /\ StopControl /\ CallControl
      /\ cur \in [Thread -> Trb \cup {None}]
  BY DEF QueueInv, MapInv, Clients, IndInv, TypeOK, LogType, ControlInv, ThreadType
<1>2. ASSUME queue # <<>>, NotReady(Head(queue)), UNCHANGED done PROVE SuccessIsEarned'
  <2>1. CASE SignalHead("TIMEOUT")
    BY <1>2, <2>1, AnswerHeadEarned DEF SignalHead, Orphaned
  <2>2. CASE ~SignalHead("TIMEOUT")
    BY <1>2, <2>2, EarnedFrame DEF NotReady, logVars
  <2> QED BY <2>1, <2>2
<1>3. CASE TickRefuse
  BY <1>2, <1>3, AnswerHeadEarned DEF TickRefuse, SignalHead, Orphaned
<1>4. CASE TickCheck
  <2>1. queue # <<>> /\ Head(queue) \in started /\ UNCHANGED done
    BY <1>1, <1>4 DEF TickCheck, TickControl, QueueInv, TimerInv
  <2>2. Head(queue) \in Executing BY <2>1, ExecutingMembers
  <2>3. CASE NotReady(Head(queue)) BY <1>2, <2>1, <2>3
  <2>4. CASE ~NotReady(Head(queue))
    <3> DEFINE res == CheckTrbResult(Head(queue))
    <3>1. AnswerHead(res) /\ causes' = OrphanedAfter(Head(queue), res)
      BY <1>4, <2>4 DEF TickCheck
    <3>2. causes' = {} => causes = {} BY <3>1 DEF OrphanedAfter
    <3>3. causes = {} /\ res = "SUCCESS" => Head(queue) \in done
      BY <2>2, SuccessIsTrue
    <3> QED BY <2>1, <3>1, <3>2, <3>3, AnswerHeadEarned
  <2> QED BY <2>3, <2>4
<1>5. CASE StopAbort
  BY <1>1, <1>5, AnswerHeadEarned DEF StopAbort, StopControl, SignalHead, Orphaned
<1>6. CASE EnumerateRemoved \/ ResetDevice
  <2>1. UNCHANGED done /\ causes' = Orphaned(Range(queue))
    BY <1>6 DEF EnumerateRemoved, ResetDevice, SignalAll
  <2>2. \A r \in Req : status'[r] = "SUCCESS" => status[r] = "SUCCESS"
    BY <1>6 DEF EnumerateRemoved, ResetDevice, SignalAll
  <2> QED BY <2>1, <2>2, EarnedFrame DEF Orphaned
<1>7. CASE TickExec \/ EnumerateInserted \/ EnumerateInitFails \/ Start \/ Stop \/ StopFree
  <2>1. UNCHANGED <<done, status>>
    BY <1>7 DEF TickExec, EnumerateInserted, EnumerateInitFails, Start, Stop, StopFree, logVars
  <2>2. causes' = {} => causes = {}
    BY <1>7 DEF TickExec, ProgramTrb, EnumerateInserted, EnumerateInitFails, HcReset, Start,
                Stop, StopFree
  <2> QED BY <2>1, <2>2, EarnedFrame
<1>8. CASE Controller \/ CardEvent \/ UNCHANGED vars
  <2>1. UNCHANGED <<status, causes>> /\ done \subseteq done'
    BY <1>8 DEF Controller, HwResponse, HwCmdError, HwTransfer, HwDatError, CardEvent, vars,
                logVars
  <2> QED BY <2>1, EarnedFrame
<1>9. ASSUME NEW th \in {"App", "Cb"}, SyncStep(th) PROVE SuccessIsEarned'
  <2>1. CASE CreateTrb(th)
    <3>1. UNCHANGED <<status, causes>> /\ done' = done \ {cur[th]} /\ pc[th] = "create"
      BY <2>1 DEF CreateTrb
    <3>2. cur[th] \in Req => status[cur[th]] = "issued"
      BY DEF QueueInv, MapInv, Clients, CallerInv
    <3> QED BY <3>1, <3>2, EarnedFrame
  <2>2. CASE CreateTrbFails(th) \/ WaitTimeout(th)
    <3>1. UNCHANGED done /\ (causes' = {} => causes = {})
      BY <2>2 DEF CreateTrbFails, WaitTimeout, Orphaned
    <3>2. status' = status \/ \E st \in Failure : status' = [status EXCEPT ![cur[th]] = st]
      BY <2>2 DEF CreateTrbFails, WaitTimeout, Return, Failure
    <3>3. \A r \in Req : status'[r] = "SUCCESS" => status[r] = "SUCCESS"
      BY <1>1, <3>2 DEF Failure
    <3> QED BY <3>1, <3>3, EarnedFrame
  <2>3. CASE WaitTrbResult(th)
    <3> DEFINE res == CheckTrbResult(cur[th])
    <3>1. /\ UNCHANGED done /\ (causes' = {} => causes = {}) /\ pc[th] = "result"
          /\ status' = status \/ status' = [status EXCEPT ![cur[th]] = res]
      BY <2>3 DEF WaitTrbResult, OrphanedAfter, Return
    <3>2. cur[th] \in Executing BY <3>1, ExecutingMembers
    <3>3. causes = {} /\ res = "SUCCESS" => cur[th] \in done
      BY <3>2, SuccessIsTrue
    <3>4. CASE status' = status BY <3>1, <3>4, EarnedFrame
    <3>5. CASE status' = [status EXCEPT ![cur[th]] = res]
      <4>1. \A r \in Req \ {cur[th]} : status'[r] = status[r] BY <1>1, <3>5
      <4>2. cur[th] \in Req => status'[cur[th]] = res BY <1>1, <3>5
      <4> QED BY <3>1, <3>3, <4>1, <4>2, EarnedOne
    <3> QED BY <3>1, <3>4, <3>5
  <2>4. CASE WaitQueueEmpty(th) \/ WaitTrbEnv(th) \/ ExecTrbProgram(th) \/ ExecTrbCommand(th)
             \/ SendIdent(th)
    <3>1. UNCHANGED <<done, status>> /\ (causes' = {} => causes = {})
      BY <2>4 DEF WaitQueueEmpty, WaitTrbEnv, ExecTrbProgram, ProgramTrb, ExecTrbCommand,
                  SendIdent, logVars
    <3> QED BY <3>1, EarnedFrame
  <2> QED BY <1>9, <2>1, <2>2, <2>3, <2>4 DEF SyncStep
<1>10. ASSUME NEW th \in {"App", "Cb"}, NEW r \in LevelReq(th), Submit(th, r)
       PROVE  SuccessIsEarned'
  <2>1. UNCHANGED <<done, causes>> /\ r \in Req BY <1>10 DEF Submit, LevelReq
  <2>2. status' = [status EXCEPT ![r] = "issued"]
        \/ (SlotStatus # "SUCCESS" /\ status' = [status EXCEPT ![r] = SlotStatus])
    BY <1>10 DEF Submit
  <2>3. \A q \in Req : status'[q] = "SUCCESS" => status[q] = "SUCCESS"
    BY <1>1, <2>1, <2>2
  <2> QED BY <2>1, <2>3, EarnedFrame
<1> QED
  BY <1>3, <1>4, <1>5, <1>6, <1>7, <1>8, <1>9, <1>10 DEF Next, Timer, Enumerate, Binding

\* No NextLink: the queue has one element, and is empty without it.
LEMMA SecondNone ==
  ASSUME NEW q \in Seq(AsyncReq), q # <<>>, Second(q) = None
  PROVE  Tail(q) = <<>>
<1>1. Len(q) \in Nat /\ Len(Tail(q)) = Len(q) - 1 /\ Tail(q) \in Seq(AsyncReq)
  BY HeadTailProperties
<1>2. Len(q) <= 1
  <2>1. ASSUME Len(q) > 1 PROVE FALSE
    <3>1. q[2] \in AsyncReq BY <1>1, <2>1
    <3> QED BY <2>1, <3>1 DEF Second
  <2> QED BY <1>1, <2>1
<1>3. Len(Tail(q)) = 0
  <2>1. Len(q) # 0 BY EmptySeq
  <2> QED BY <1>1, <1>2, <2>1
<1> QED BY <1>1, <1>3, EmptySeq

(* --- Clients of one level --- *)
\* The steps that leave the queue as it is, or shorter, and do not move a
\* call to where it needs an empty queue.
LEMMA LevelFrame ==
  ASSUME LevelInv, queue = <<>> => queue' = <<>>, UNCHANGED lost,
         \A th \in {"App", "Cb"} :
           pc'[th] \in {"env", "exec", "cmd", "result"} =>
             pc[th] \in {"env", "exec", "cmd", "result"} \/ queue = <<>>,
         CbReq = {} /\ pc'["App"] = "stop" =>
           pc'["Cb"] = "idle" /\ (stopNext' = None => queue' = <<>>)
  PROVE  LevelInv'
  BY DEF LevelInv

LEMMA LevelNext ==
  ASSUME QueueInv, LevelInv, [Next]_vars
  PROVE  LevelInv'
<1>1. /\ pc \in [Thread -> Label] /\ TickControl /\ StopControl /\ CallControl
      /\ cur \in [Thread -> Trb \cup {None}]
      /\ queue \in Seq(AsyncReq)
  BY DEF QueueInv, MapInv, Clients, IndInv, TypeOK, TrbType, ControlInv, ThreadType
<1>2. CASE Timer
  <2>1. UNCHANGED <<stopNext, lost>> /\ driver = "started" /\ queue # <<>>
    BY <1>1, <1>2 DEF Timer, TickRefuse, TickExec, TickCheck, NotReady, SignalHead, AnswerHead,
         TickControl, driverVars, logVars
  <2>2. \A th \in {"App", "Cb"} : pc'[th] = pc[th]
    BY <1>1, <1>2 DEF Timer, TickRefuse, TickExec, TickCheck, TickIdle, thrVars, Thread
  <2>3. pc["App"] # "stop" BY <1>1, <2>1 DEF StopControl
  <2> QED BY <2>1, <2>2, <2>3, LevelFrame
<1>3. CASE EnumerateRemoved \/ ResetDevice
  BY <1>3, LevelFrame DEF EnumerateRemoved, ResetDevice, SignalAll, thrVars, LevelInv
<1>4. CASE EnumerateInserted \/ EnumerateInitFails
  <2>1. UNCHANGED <<queue, stopNext, lost>> /\ driver = "started"
    BY <1>4 DEF EnumerateInserted, EnumerateInitFails, EnumerateGuard, driverVars, trbVars, logVars
  <2>2. pc["App"] # "stop" /\ pc'["App"] = pc["App"]
        /\ pc'["Cb"] \in {pc["Cb"], "ident"}
    BY <1>1, <1>4, <2>1
       DEF StopControl, EnumerateInserted, EnumerateInitFails, Goto, thrVars, Thread
  <2> QED BY <2>1, <2>2, LevelFrame
<1>5. CASE Start \/ Stop
  <2>1. UNCHANGED <<queue, lost>> /\ pc["Cb"] = "idle"
    BY <1>5 DEF Start, Stop, trbVars, logVars, CanRun, Above
  <2>2. /\ pc'["Cb"] = pc["Cb"] /\ pc'["App"] \in {"ident", "stop"}
        /\ pc'["App"] = "stop" => stopNext' = IF queue = <<>> THEN None ELSE Head(queue)
    BY <1>1, <1>5 DEF Start, Stop, Goto, Thread
  <2>3. queue # <<>> => Head(queue) # None BY <1>1, HeadTailType
  <2> QED BY <2>1, <2>2, <2>3, LevelFrame
<1>6. CASE StopAbort
  <2>1. /\ UNCHANGED <<pc, lost>> /\ queue # <<>> /\ queue' = Tail(queue)
        /\ stopNext' = Second(queue) /\ pc["Cb"] = "idle"
    BY <1>1, <1>6 DEF StopAbort, SignalHead, AnswerHead, StopControl, thrVars, CanRun, Above
  <2>2. Second(queue) = None => Tail(queue) = <<>>
    BY <1>1, <2>1, SecondNone
  <2> QED BY <1>1, <2>1, <2>2, LevelFrame
<1>7. CASE StopFree
  <2>1. pc["App"] = "stop" /\ stopNext = None /\ queue' = <<>>
        /\ lost' = lost \cup Range(queue) /\ pc' = [pc EXCEPT !["App"] = "idle"]
    BY <1>7 DEF StopFree, Goto
  <2>2. CASE CbReq = {}
    <3>1. queue = <<>> /\ lost = {} BY <2>1, <2>2 DEF LevelInv
    <3>2. lost' = {} BY <2>1, <3>1 DEF Range
    <3> QED BY <1>1, <2>1, <3>2 DEF LevelInv, Thread
  <2> QED BY <2>2 DEF LevelInv
<1>8. CASE Controller \/ CardEvent \/ UNCHANGED vars
  <2>1. UNCHANGED <<queue, lost, pc, stopNext>>
    BY <1>8 DEF Controller, HwResponse, HwCmdError, HwTransfer, HwDatError, CardEvent, vars,
                trbVars, logVars, thrVars, driverVars
  <2> QED BY <2>1 DEF LevelInv
<1>9. ASSUME NEW th \in {"App", "Cb"}, SyncStep(th) PROVE LevelInv'
  <2>1. UNCHANGED <<lost, stopNext>>
    BY <1>9 DEF SyncStep, CreateTrb, CreateTrbFails, WaitQueueEmpty, WaitTrbEnv, ExecTrbProgram,
         ExecTrbCommand, WaitTrbResult, WaitTimeout, SendIdent, Return, driverVars, logVars
  <2>2. \A u \in {"App", "Cb"} \ {th} : pc'[u] = pc[u]
    BY <1>1, <1>9 DEF SyncStep, CreateTrb, CreateTrbFails, WaitQueueEmpty, WaitTrbEnv,
         ExecTrbProgram, ExecTrbCommand, WaitTrbResult, WaitTimeout, SendIdent, Return,
         EndRoutine, Goto, Thread
  <2>3. pc'[th] # "stop" /\ pc[th] \notin {"idle", "stop"} /\ CanRun(th)
    BY <1>1, <1>9 DEF SyncStep, CreateTrb, CreateTrbFails, WaitQueueEmpty, WaitTrbEnv,
         ExecTrbProgram, ExecTrbCommand, WaitTrbResult, WaitTimeout, SendIdent, Return,
         EndRoutine, Goto, Thread
  <2>4. pc'["App"] = "stop" => th = "Cb" /\ pc["App"] = "stop" BY <2>2, <2>3
  <2>5. CASE CreateTrb(th) /\ cur[th] \in AsyncReq
    <3> SUFFICES ASSUME CbReq = {} PROVE LevelInv'
      BY DEF LevelInv
    <3>1. th = "App"
      BY <2>5 DEF QueueInv, MapInv, Clients, CallerInv, LevelReq
    <3>2. pc["Cb"] = "idle" BY <2>3, <3>1 DEF CanRun, Above
    <3>3. pc'["App"] = "idle" /\ pc'["Cb"] = "idle"
      BY <1>1, <2>2, <2>5, <3>1, <3>2 DEF CreateTrb, Goto, Thread
    <3> QED BY <2>1, <3>3 DEF LevelInv
  <2>6. CASE ~(CreateTrb(th) /\ cur[th] \in AsyncReq)
    <3>1. UNCHANGED queue
      BY <1>9, <2>6 DEF SyncStep, CreateTrb, CreateTrbFails, WaitQueueEmpty, WaitTrbEnv,
           ExecTrbProgram, ExecTrbCommand, WaitTrbResult, WaitTimeout, SendIdent, trbVars
    <3>2. pc'[th] \in {"env", "exec", "cmd", "result"} =>
            pc[th] \in {"env", "exec", "cmd", "result"} \/ queue = <<>>
      BY <1>1, <1>9 DEF SyncStep, CreateTrb, CreateTrbFails, WaitQueueEmpty, WaitTrbEnv,
           ExecTrbProgram, ExecTrbCommand, WaitTrbResult, WaitTimeout, SendIdent, Return,
           EndRoutine, Goto, Thread
    <3>3. CbReq = {} => pc'["App"] # "stop"
      BY <2>3, <2>4 DEF LevelInv
    <3> QED BY <2>1, <2>2, <3>1, <3>2, <3>3, LevelFrame
  <2> QED BY <2>5, <2>6
<1>10. ASSUME NEW th \in {"App", "Cb"}, NEW r \in LevelReq(th), Submit(th, r)
       PROVE  LevelInv'
  <2>1. UNCHANGED <<queue, lost, stopNext>> /\ pc[th] = "idle" /\ CanRun(th)
    BY <1>10 DEF Submit, trbVars, driverVars
  <2>2. /\ \A u \in {"App", "Cb"} \ {th} : pc'[u] = pc[u]
        /\ pc'[th] \in {"idle", "create"}
    BY <1>1, <1>10, <2>1 DEF Submit, Goto, thrVars, Thread
  <2>3. CbReq = {} => th = "App" BY DEF LevelReq
  <2> QED BY <2>1, <2>2, <2>3, LevelFrame
<1> QED
  BY <1>2, <1>3, <1>4, <1>5, <1>6, <1>7, <1>8, <1>9, <1>10 DEF Next, Enumerate, Binding

(* --- The safety of PassThru --- *)
LEMMA InitSafety == Init => SafetyInv
<1> SUFFICES ASSUME Init PROVE SafetyInv
  OBVIOUS
<1>1. IndInv BY InitInd
<1>2. AnsweredInOrder BY DEF Init, AnsweredInOrder
<1>3. CallerInv BY DEF Init, CallerInv, Thread
<1>4. TimerInv BY DEF Init, TimerInv, OnlyHeadStarted, Thread
<1>5. Executing = {} /\ cmdLine = None /\ datLine = None BY DEF Init, Executing, Thread
<1>6. BusInv
  BY <1>5 DEF Init, BusInv, OneExecutes, BusIsOwned, StatusIsTrue, DmaIsLoaded, Thread
<1>7. LevelInv BY DEF Init, LevelInv, Thread
<1>8. Range(<<>>) = {} BY DEF Range
<1>9. QueuedOnce BY <1>8 DEF Init, QueuedOnce
<1>10. MappingsMatchRequests BY <1>8 DEF Init, MappingsMatchRequests, Thread
<1>11. SuccessIsEarned BY DEF Init, SuccessIsEarned
<1> QED BY <1>1, <1>2, <1>3, <1>4, <1>6, <1>7, <1>9, <1>10, <1>11 DEF SafetyInv

LEMMA NextSafety == SafetyInv /\ [Next]_vars => SafetyInv'
<1> SUFFICES ASSUME SafetyInv, [Next]_vars PROVE SafetyInv'
  OBVIOUS
<1>1. QueueInv BY DEF SafetyInv, QueueInv, MapInv, Clients
<1>2. IndInv' BY NextInd DEF SafetyInv
<1>3. AnsweredInOrder' BY OrderNext DEF SafetyInv
<1>4. CallerInv' /\ QueuedOnce' /\ MappingsMatchRequests' BY <1>1, ClientsNext DEF QueueInv
<1>5. TimerInv' BY <1>1, TimerNext DEF QueueInv
<1>6. BusInv' BY <1>1, BusNext DEF SafetyInv
<1>7. LevelInv' BY <1>1, LevelNext DEF SafetyInv
<1>8. SuccessIsEarned' BY <1>1, EarnedNext DEF SafetyInv
<1> QED BY <1>2, <1>3, <1>4, <1>5, <1>6, <1>7, <1>8 DEF SafetyInv

\* The invariant of the whole driver: the control state, the queue and its
\* records, the calls, the mappings, and the controller as long as one TRB at
\* a time has it.
THEOREM SafetyCorrect == Spec => []SafetyInv
<1>1. Init => SafetyInv BY InitSafety
<1>2. SafetyInv /\ [Next]_vars => SafetyInv' BY NextSafety
<1> QED BY <1>1, <1>2, PTL DEF Spec

\* No request is queued twice, a queued one is unanswered, and an event is
\* signalled only for a request that has its final status.
THEOREM QueuedOnceCorrect == Spec => []QueuedOnce
<1>1. SafetyInv => QueuedOnce BY DEF SafetyInv
<1> QED BY <1>1, SafetyCorrect, PTL

\* A buffer is mapped while its request is queued or running, and the paths
\* of an asynchronous request (CreateTrb, FreeTrb) leave no mapping behind.
THEOREM MappingsCorrect == Spec => []MappingsMatchRequests
<1>1. SafetyInv => MappingsMatchRequests BY DEF SafetyInv
<1> QED BY <1>1, SafetyCorrect, PTL

\* As long as the controller was not shared, SUCCESS says that the controller
\* executed the request (SdMmcCheckTrbResult, every path that ends a TRB).
THEOREM SuccessCorrect == Spec => []SuccessIsEarned
<1>1. SafetyInv => SuccessIsEarned BY DEF SafetyInv
<1> QED BY <1>1, SafetyCorrect, PTL

\* As long as the controller was not shared, a transfer moves through the
\* buffer of its own request, and that buffer is still mapped.
THEOREM TransferCorrect == Spec => []TransferOwnsBuffer
<1>1. SafetyInv => TransferOwnsBuffer
  <2> SUFFICES ASSUME SafetyInv, causes = {}, datLine \in DmaReq
               PROVE  dmaBuf = datLine /\ datLine \in mapped
    BY DEF TransferOwnsBuffer
  <2>1. QueueInv /\ Clients BY DEF SafetyInv, QueueInv, MapInv, Clients
  <2>2. dmaBuf = datLine /\ datLine \in Executing
    BY DEF SafetyInv, BusInv, DmaIsLoaded, BusIsOwned
  <2>3. CASE datLine \in started
    <3>1. datLine \in Range(queue) BY <2>1, <2>3, ExecutingFacts, HeadFacts
    <3> QED BY <2>2, <3>1 DEF SafetyInv, MappingsMatchRequests
  <2>4. CASE datLine \notin started
    <3>1. PICK th \in {"App", "Cb"} : datLine = cur[th] /\ pc[th] \in {"cmd", "result"}
      BY <2>2, <2>4, ExecutingMembers
    <3> QED BY <2>2, <3>1 DEF SafetyInv, MappingsMatchRequests, Thread
  <2> QED BY <2>3, <2>4
<1> QED BY <1>1, SafetyCorrect, PTL

\* When no client runs at TPL_CALLBACK: the timer starts the head only, a
\* synchronous request has the controller while nothing is queued, and Stop
\* frees no request that it has not answered.
THEOREM QueueCorrect ==
  ASSUME CbReq = {}
  PROVE  Spec => []QueueInStep
<1>1. SafetyInv => QueueInStep
  <2> SUFFICES ASSUME SafetyInv PROVE QueueInStep
    OBVIOUS
  <2>1. OnlyHeadStarted /\ LevelInv BY DEF SafetyInv, TimerInv
  <2>2. pc["Tick"] \in {"idle", "check"} BY DEF SafetyInv, IndInv, ControlInv, TickControl
  <2>3. SyncRunsAlone BY <2>1, <2>2 DEF LevelInv, SyncRunsAlone, Thread
  <2> QED BY <2>1, <2>3 DEF QueueInStep, LevelInv
<1> QED BY <1>1, SafetyCorrect, PTL

(* --- PassThru keeps the promise to its asynchronous clients, step by step --- *)
Answers == [i \in DOMAIN signalled |-> <<signalled[i], status[signalled[i]]>>]

LEMMA AnswersDef ==
  /\ Async!aVars = <<queue, Answers>> /\ Async!aVars' = <<queue', Answers'>>
  BY DEF Async!aVars, Answers

\* The answers given so far are final.
LEMMA AnswersKept ==
  ASSUME SafetyInv, UNCHANGED <<queue, signalled>>,
         \A r \in Range(signalled) : status'[r] = status[r]
  PROVE  UNCHANGED Async!aVars
<1>1. \A i \in DOMAIN signalled : status'[signalled[i]] = status[signalled[i]]
  BY DEF Range
<1>2. Answers' = Answers BY <1>1 DEF Answers
<1> QED BY <1>2, AnswersDef

LEMMA AnswersType ==
  ASSUME SafetyInv
  PROVE  /\ signalled \in Seq(AsyncReq) /\ queue \in Seq(AsyncReq) /\ status \in [Req -> Status]
         /\ Answers \in Seq(AsyncReq \X Status) /\ Len(Answers) = Len(signalled)
         /\ Clients
<1>1. signalled \in Seq(AsyncReq) /\ queue \in Seq(AsyncReq) /\ status \in [Req -> Status]
  BY DEF SafetyInv, IndInv, TypeOK, LogType, TrbType
<1>2. \A i \in DOMAIN signalled : <<signalled[i], status[signalled[i]]>> \in AsyncReq \X Status
  BY <1>1
<1>3. Answers \in Seq(AsyncReq \X Status) /\ Len(Answers) = Len(signalled)
  BY <1>1, <1>2 DEF Answers
<1> QED BY <1>1, <1>3 DEF SafetyInv, Clients

LEMMA AnswerHeadReplies ==
  ASSUME SafetyInv, queue # <<>>, NEW st \in Final, AnswerHead(st)
  PROVE  Async!ANext
<1>1. /\ Head(queue) \in AsyncReq /\ Head(queue) \notin Range(signalled)
      /\ signalled \in Seq(AsyncReq) /\ status \in [Req -> Status]
      /\ Answers \in Seq(AsyncReq \X Status) /\ Len(Answers) = Len(signalled)
  BY AnswersType, HeadFacts
<1>2. /\ queue' = Tail(queue) /\ signalled' = Append(signalled, Head(queue))
      /\ status' = [status EXCEPT ![Head(queue)] = st]
  BY DEF AnswerHead
<1>3. /\ DOMAIN signalled' = 1 .. Len(signalled) + 1 /\ DOMAIN signalled = 1 .. Len(signalled)
      /\ \A i \in 1 .. Len(signalled) : signalled'[i] = signalled[i]
      /\ signalled'[Len(signalled) + 1] = Head(queue)
  BY <1>1, <1>2
<1>4. \A i \in 1 .. Len(signalled) : status'[signalled[i]] = status[signalled[i]]
  <2> TAKE i \in 1 .. Len(signalled)
  <2>1. signalled[i] \in Range(signalled) /\ signalled[i] \in AsyncReq BY <1>1, ElementOf
  <2> QED BY <1>1, <1>2, <2>1
<1>5. Answers' = Append(Answers, <<Head(queue), st>>)
  <2>1. Answers' = [i \in 1 .. Len(signalled) + 1 |->
                      IF i <= Len(signalled) THEN <<signalled[i], status[signalled[i]]>>
                                             ELSE <<Head(queue), st>>]
    BY <1>1, <1>2, <1>3, <1>4 DEF Answers
  <2>2. Append(Answers, <<Head(queue), st>>) =
          [i \in 1 .. Len(signalled) + 1 |->
             IF i <= Len(signalled) THEN Answers[i] ELSE <<Head(queue), st>>]
    BY <1>1
  <2>3. \A i \in 1 .. Len(signalled) : Answers[i] = <<signalled[i], status[signalled[i]]>>
    BY <1>3 DEF Answers
  <2>4. ASSUME NEW i \in 1 .. Len(signalled) + 1
        PROVE  (IF i <= Len(signalled) THEN <<signalled[i], status[signalled[i]]>>
                                       ELSE <<Head(queue), st>>)
               = (IF i <= Len(signalled) THEN Answers[i] ELSE <<Head(queue), st>>)
    <3>1. i <= Len(signalled) => i \in 1 .. Len(signalled) BY <1>1
    <3> QED BY <2>3, <3>1
  <2> QED BY <2>1, <2>2, <2>4
<1>6. Async!Reply(st) BY <1>2, <1>5 DEF Async!Reply, Answers
<1> QED BY <1>6 DEF Async!ANext, Async!Answering

LEMMA SignalAllFlushes ==
  ASSUME SafetyInv, NEW st \in Failure, SignalAll(st)
  PROVE  Async!ANext
<1>1. /\ signalled \in Seq(AsyncReq) /\ queue \in Seq(AsyncReq)
      /\ Answers \in Seq(AsyncReq \X Status) /\ Len(Answers) = Len(signalled)
      /\ Range(signalled) \cap Range(queue) = {}
  BY AnswersType, QueueFacts
<1>2. /\ queue' = <<>> /\ signalled' = signalled \o queue
      /\ \A r \in Req : status'[r] = IF r \in Range(queue) THEN st ELSE status[r]
  BY DEF SignalAll
<1> DEFINE m == Len(signalled)
           n == Len(queue)
           F == [i \in DOMAIN queue |-> <<queue[i], st>>]
<1>3. /\ DOMAIN signalled' = 1 .. m + n /\ DOMAIN signalled = 1 .. m /\ DOMAIN queue = 1 .. n
      /\ m \in Nat /\ n \in Nat
      /\ \A i \in 1 .. m : signalled'[i] = signalled[i]
      /\ \A i \in m + 1 .. m + n : signalled'[i] = queue[i - m]
  BY <1>1, <1>2
<1>4. \A i \in 1 .. m : status'[signalled[i]] = status[signalled[i]]
  <2> TAKE i \in 1 .. m
  <2>1. signalled[i] \in Range(signalled) /\ signalled[i] \in AsyncReq BY <1>1, ElementOf
  <2> QED BY <1>1, <1>2, <2>1
<1>5. \A i \in 1 .. n : status'[queue[i]] = st
  <2> TAKE i \in 1 .. n
  <2>1. queue[i] \in Range(queue) /\ queue[i] \in AsyncReq BY <1>1, ElementOf
  <2> QED BY <1>2, <2>1
<1>6. \A i \in 1 .. m : Answers[i] = <<signalled[i], status[signalled[i]]>>
  BY <1>3 DEF Answers
<1>7. F \in Seq(AsyncReq \X {st}) /\ Len(F) = n /\ \A i \in 1 .. n : F[i] = <<queue[i], st>>
  BY <1>1, <1>3
<1>8. Answers' = [i \in 1 .. m + n |->
                    IF i <= m THEN <<signalled[i], status[signalled[i]]>>
                              ELSE <<queue[i - m], st>>]
  <2>1. Answers' = [i \in 1 .. m + n |-> <<signalled'[i], status'[signalled'[i]]>>]
    BY <1>3 DEF Answers
  <2>2. ASSUME NEW i \in 1 .. m + n
        PROVE  <<signalled'[i], status'[signalled'[i]]>> =
                 IF i <= m THEN <<signalled[i], status[signalled[i]]>> ELSE <<queue[i - m], st>>
    <3>1. CASE i <= m BY <1>3, <1>4, <3>1
    <3>2. CASE i > m
      <4>1. i \in m + 1 .. m + n /\ i - m \in 1 .. n BY <1>3, <3>2
      <4> QED BY <1>3, <1>5, <3>2, <4>1
    <3> QED BY <1>3, <3>1, <3>2
  <2> QED BY <2>1, <2>2
<1>9. Answers \o F = [i \in 1 .. m + n |-> IF i <= m THEN Answers[i] ELSE F[i - m]]
  <2>1. st \in Status BY DEF Failure, Final, Status
  <2>2. F \in Seq(AsyncReq \X Status) BY <1>1, <1>3, <2>1
  <2>3. Len(Answers) = m /\ Len(F) = n BY <1>1, <1>7
  <2>4. \A p, q \in Seq(AsyncReq \X Status) :
          p \o q = [i \in 1 .. Len(p) + Len(q) |->
                     IF i <= Len(p) THEN p[i] ELSE q[i - Len(p)]]
    BY ConcatAsFunction
  <2> HIDE DEF F, m, n
  <2>5. Answers \o F = [i \in 1 .. Len(Answers) + Len(F) |->
                          IF i <= Len(Answers) THEN Answers[i] ELSE F[i - Len(Answers)]]
    BY <1>1, <2>2, <2>4, Zenon
  <2> QED BY <2>3, <2>5
<1>10. Answers' = Answers \o F
  <2>1. ASSUME NEW i \in 1 .. m + n
        PROVE  (IF i <= m THEN <<signalled[i], status[signalled[i]]>> ELSE <<queue[i - m], st>>)
               = (IF i <= m THEN Answers[i] ELSE F[i - m])
    <3> HIDE DEF F
    <3>1. CASE i <= m BY <1>3, <1>6, <3>1
    <3>2. CASE i > m
      <4>1. i - m \in 1 .. n /\ ~(i <= m) BY <1>3, <3>2
      <4>2. F[i - m] = <<queue[i - m], st>> BY <1>7, <4>1
      <4> QED BY <4>1, <4>2
    <3> QED BY <1>3, <3>1, <3>2
  <2> HIDE DEF F
  <2> QED BY <1>8, <1>9, <2>1
<1>11. Async!Flush(st) BY <1>2, <1>10 DEF Async!Flush, Answers
<1> QED BY <1>11 DEF Async!ANext, Async!Answering

LEMMA CreateTrbAccepts ==
  ASSUME SafetyInv, NEW th \in {"App", "Cb"}, CreateTrb(th), cur[th] \in AsyncReq
  PROVE  Async!ANext
<1>1. /\ signalled \in Seq(AsyncReq) /\ Range(accepted) = Range(signalled) \cup Range(queue)
      /\ Len(Answers) = Len(signalled)
  BY AnswersType, QueueFacts
<1>2. cur[th] \notin Range(accepted) BY DEF SafetyInv, CallerInv
<1>3. Async!Requests(queue) = Range(queue) BY DEF Async!Requests, Range
<1>4. {p[1] : p \in Async!Requests(Answers)} = Range(signalled)
  <2>1. DOMAIN Answers = DOMAIN signalled /\ \A i \in DOMAIN signalled : Answers[i][1] = signalled[i]
    BY DEF Answers
  <2>2. Async!Requests(Answers) = {Answers[i] : i \in DOMAIN Answers} BY DEF Async!Requests
  <2> QED BY <2>1, <2>2 DEF Range
<1>5. cur[th] \notin Async!Asked
  BY <1>1, <1>2, <1>3, <1>4 DEF Async!Asked, Answers
<1>6. queue' = Append(queue, cur[th]) /\ Answers' = Answers
  BY DEF CreateTrb, InsertTail, Answers
<1>7. Async!Accept(cur[th]) BY <1>5, <1>6 DEF Async!Accept, Answers
<1> QED BY <1>7 DEF Async!ANext

LEMMA NextImplements ==
  ASSUME CbReq = {}, SafetyInv, [Next]_vars
  PROVE  [Async!ANext]_(Async!aVars)
<1>1. /\ StopControl /\ TickControl /\ status \in [Req -> Status]
      /\ \A r \in Range(signalled) : status[r] \in Final /\ r \in Req
      /\ \A th \in {"App", "Cb"} : cur[th] \notin Range(signalled)
  <2>1. Range(signalled) \subseteq Range(accepted) /\ Range(signalled) \subseteq AsyncReq
    BY AnswersType, QueueFacts, RangeType
  <2> QED
    BY <2>1, AnswersType, CallFacts
       DEF SafetyInv, IndInv, ControlInv, QueuedOnce, CallerInv
<1>2. ASSUME queue # <<>>, NotReady(Head(queue)) PROVE [Async!ANext]_(Async!aVars)
  BY <1>2, AnswerHeadReplies, AnswersKept DEF NotReady, SignalHead, logVars, Final, Failure
<1>3. CASE TickRefuse
  BY <1>2, <1>3, AnswerHeadReplies DEF TickRefuse, SignalHead, Final, Failure
<1>4. CASE TickCheck
  BY <1>1, <1>2, <1>4, AnswerHeadReplies
     DEF TickCheck, TickControl, CheckTrbResult, Final, Failure
<1>5. CASE StopAbort
  BY <1>1, <1>5, AnswerHeadReplies DEF StopAbort, StopControl, SignalHead, Final, Failure
<1>6. CASE EnumerateRemoved \/ ResetDevice
  BY <1>6, SignalAllFlushes DEF EnumerateRemoved, ResetDevice, Failure
<1>7. CASE TickExec \/ EnumerateInserted \/ EnumerateInitFails \/ Start \/ Stop
  BY <1>7, AnswersKept
     DEF TickExec, EnumerateInserted, EnumerateInitFails, Start, Stop, logVars, trbVars
<1>8. CASE StopFree
  <2>1. queue = <<>> BY <1>8 DEF StopFree, SafetyInv, LevelInv
  <2> QED BY <1>8, <2>1, AnswersKept DEF StopFree
<1>9. CASE Controller \/ CardEvent \/ UNCHANGED vars
  BY <1>9, AnswersKept
     DEF Controller, HwResponse, HwCmdError, HwTransfer, HwDatError, CardEvent, vars, logVars,
         trbVars
<1>10. ASSUME NEW th \in {"App", "Cb"}, SyncStep(th) PROVE [Async!ANext]_(Async!aVars)
  <2>1. CASE CreateTrb(th) /\ cur[th] \in AsyncReq BY <2>1, CreateTrbAccepts
  <2>2. CASE CreateTrb(th) /\ cur[th] \notin AsyncReq
    BY <2>2, AnswersKept DEF CreateTrb
  <2>3. CASE CreateTrbFails(th) \/ WaitTrbResult(th) \/ WaitTimeout(th)
    <3>1. UNCHANGED <<queue, signalled>> /\ \E st \in Final : Return(th, st)
      BY <2>3 DEF CreateTrbFails, WaitTrbResult, WaitTimeout, Return, trbVars, CheckTrbResult,
                  Final, Failure
    <3>2. \A r \in Range(signalled) : status'[r] = status[r]
      BY <1>1, <3>1 DEF Return
    <3> QED BY <3>1, <3>2, AnswersKept
  <2>4. CASE WaitQueueEmpty(th) \/ WaitTrbEnv(th) \/ ExecTrbProgram(th) \/ ExecTrbCommand(th)
             \/ SendIdent(th)
    BY <2>4, AnswersKept DEF WaitQueueEmpty, WaitTrbEnv, ExecTrbProgram, ExecTrbCommand,
       SendIdent, logVars, trbVars
  <2> QED BY <1>10, <2>1, <2>2, <2>3, <2>4 DEF SyncStep
<1>11. ASSUME NEW th \in {"App", "Cb"}, NEW r \in LevelReq(th), Submit(th, r)
       PROVE  [Async!ANext]_(Async!aVars)
  <2>1. UNCHANGED <<queue, signalled>> /\ status[r] = "none" /\ "none" \notin Final
    BY <1>11 DEF Submit, trbVars, Final, Failure
  <2>2. \A q \in Range(signalled) : status'[q] = status[q]
    BY <1>1, <1>11, <2>1 DEF Submit
  <2> QED BY <2>1, <2>2, AnswersKept
<1> QED
  BY <1>3, <1>4, <1>5, <1>6, <1>7, <1>8, <1>9, <1>10, <1>11
     DEF Next, Timer, Enumerate, Binding

\* When no client runs at TPL_CALLBACK, the driver implements AsyncPassThru:
\* an accepted request is answered once, in its turn, by its own event, and a
\* flush answers all that are pending.
THEOREM ImplementsAsyncSafety ==
  ASSUME CbReq = {}
  PROVE  Spec => Async!ASpec
<1>1. Init => Async!AInit BY DEF Init, Async!AInit
<1>2. SafetyInv /\ [Next]_vars => [Async!ANext]_(Async!aVars) BY NextImplements
<1> QED BY <1>1, <1>2, SafetyCorrect, PTL DEF Spec, Async!ASpec
=============================================================================
