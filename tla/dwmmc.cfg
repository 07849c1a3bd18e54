\* Two asynchronous requests and two synchronous ones, one of each submitted at
\* TPL_CALLBACK; one of them carries no data.
SPECIFICATION FairSpec
CONSTANTS
  None = None
  Req = {a1, a2, s1, s2}
  AsyncReq = {a1, a2}
  CbReq = {a2, s2}
  DatReq = {a1, a2, s1}
  Faulty = {a1, a2}
  Cards = {"emmc", "sd"}
  MaxStarts = 1
CHECK_DEADLOCK FALSE
INVARIANTS SafetyInv AnsweredIsOffTheBus OwnDataWhenAlone DataErrorsReported
PROPERTIES ImplementsAsync EveryRequestAnswered
