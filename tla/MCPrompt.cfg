SPECIFICATION PromptFairSpec
CONSTANTS
  PACKET_RING_LEN = 3
  Requests = {q1}
  Others = {o1}
INVARIANTS
  QuietBuffersAtRest
  QuietEngineHasNoWork
PROPERTIES
  HandlerReturns
