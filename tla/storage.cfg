SPECIFICATION Spec
CHECK_DEADLOCK FALSE
INVARIANTS
  BusesAgree
  CommandsKeptApart
  FlashIsTrue
PROPERTIES
  RoutinesEnd
