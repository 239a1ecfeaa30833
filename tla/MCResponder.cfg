SPECIFICATION FairSpec
CONSTANTS
  Devices = {d1, d2}
  Hosts = {h1, h2}
  Pipe = 2
  Losses = 1
  Kinds = {"T", "C"}
  Lengths <- MCLengths
INVARIANTS
  TypeOK
  AnswersAsAsked
PROPERTIES
  LengthsAgree
  ExchangesEnd
  DataKeepsComing
