SPECIFICATION Spec
CHECK_DEADLOCK FALSE
INVARIANTS
  RecordsInStep
  ResultsAreTrue
PROPERTIES
  CallsEnd
