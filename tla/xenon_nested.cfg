SPECIFICATION FairSpec
CONSTANTS
  None = None
  Ident = Ident
  Req = {a1, s1}
  AsyncReq = {a1}
  CbReq = {a1}
  DatReq = {a1, s1}
  DmaReq = {a1, s1}
  Timeout <- FiniteTimeout
  Removable = TRUE
  MaxStarts = 1
  MaxCardEvents = 2
CHECK_DEADLOCK FALSE
INVARIANTS QueuedOnce MappingsMatchRequests
