SPECIFICATION Spec
CONSTANTS
  Half = 4
  MaxGap = 4
  Horizon = 4
INVARIANTS
  TypeOK
  ReadIsExact
PROPERTIES
  TimeNeverRunsBack
