SPECIFICATION Spec
CHECK_DEADLOCK FALSE
INVARIANTS
  RingsInStep
  ReceivedInOrder
PROPERTIES
  ImplementsNetwork
  PacketsMove
