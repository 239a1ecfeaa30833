SPECIFICATION Spec
CONSTANTS
  Ids <- MCIds
  Macs <- MCMacs
INVARIANTS
  TypeOK
  HeadersAgree
  DiscoverParses
PROPERTIES
  NothingOverwritten
