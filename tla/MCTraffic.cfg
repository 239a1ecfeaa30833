SPECIFICATION PacedTrafficSpec
CONSTANTS
  PACKET_RING_LEN = 8
  Requests = {q1}
  Others = {}
PROPERTIES
  BuffersCirculate
