SPECIFICATION Spec
CONSTANTS
  Request = {"call1", "note", "close", "bad"}
  Target = {"s1", "s2"}
  None = "none"
  Kind <- KindFor
  To <- ToFor
  HasId <- WithId
INVARIANTS
  OneConnectionPerTarget
PROPERTIES
  EndsWithItsParent
  ServiceSpec
