SPECIFICATION Spec
CONSTANTS
  MaxRequests = 2
  MaxAnswers = 2
INVARIANTS
  BridgeTypeOK
  PrefaceFirst
  EndIsTrue
PROPERTIES
  CloseCollects
