\* The same requests, all submitted by the application.
SPECIFICATION Spec
CONSTANTS
  None = None
  Req = {a1, a2, s1, s2}
  AsyncReq = {a1, a2}
  CbReq = {}
  DatReq = {a1, a2, s1}
  Faulty = {}
  Cards = {"emmc"}
  MaxStarts = 1
CHECK_DEADLOCK FALSE
INVARIANTS SuccessMeansData
