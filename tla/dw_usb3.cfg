SPECIFICATION Spec
CONSTANTS
  CMD_SIZE = 4
  DATA_SIZE = 16
  MaxPacket <- MCMaxPacket
  Scenarios <- MCScenarios
CHECK_DEADLOCK FALSE
INVARIANTS BulkInStep Ep0InStep StatusIsHonest NothingLost
PROPERTIES DownloadCompletes ControlEnds
