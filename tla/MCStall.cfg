SPECIFICATION FairSpec
CONSTANTS
  Devices = {d1}
  Hosts = {h1}
  Pipe = 2
  Losses = 2
  Kinds = {"T", "C"}
  Lengths = {}
PROPERTIES
  DataKeepsComing
CHECK_DEADLOCK FALSE
