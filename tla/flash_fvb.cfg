\* A region of two blocks of two slots inside a flash of four blocks.
SPECIFICATION Spec
CONSTANTS
  Data = {d1, d2}
  BlockSize = 2
  RegionBlocks = 2
  RegionStart = 1
  DeviceBlocks = 4
  FLASH_ERASE_RETRY = 2
  MaxCalls = 2
  MaxFaults = 2
CHECK_DEADLOCK FALSE
INVARIANTS AckedSurvives WipesOnlyInvalid NoStaleUnderHeader RequestsChecked
PROPERTIES OutsideUntouched
