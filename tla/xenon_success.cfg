SPECIFICATION Spec
CONSTANTS
  None = None
  Ident = Ident
  Req = {a1, a2, s1}
  AsyncReq = {a1, a2}
  CbReq = {}
  DatReq = {a1, s1}
  DmaReq = {a1, s1}
  Timeout <- FiniteTimeout
  Removable = FALSE
  MaxStarts = 1
  MaxCardEvents = 0
CHECK_DEADLOCK FALSE
INVARIANTS SuccessMeansExecuted
