SPECIFICATION Spec
CONSTANTS
  PACKET_RING_LEN = 3
  Requests = {q1, q2}
  Others = {}
INVARIANTS
  TypeOK
  NoBufferShared
  NoBufferLost
  TxNeverOverrun
  RingsInStep
  DescriptorsInOrder
PROPERTIES
  QueuedFrameStable
  ImplementsFrameService
