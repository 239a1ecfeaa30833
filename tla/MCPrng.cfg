SPECIFICATION Spec
CONSTANTS
  Shifts = 3
  Words = 2
  Wraps = 2
  TWords = 2
INVARIANTS
  TypeOK
  WholeKeyErased
PROPERTIES
  RandomStays
  FreshWordsCome
