SPECIFICATION Spec
CONSTANTS
  PACKET_RING_LEN = 3
  Requests = {q1}
  Others = {}
INVARIANTS
  QuietBuffersAtRest
