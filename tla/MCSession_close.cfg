SPECIFICATION LiveSpec
CONSTANTS
  Calls = {c1}
  InIds = {i1}
  Codes = {4000, 4400, 4426}
  NoArg = NoArg
  MaxInFlight = 1
  MaxRecvs = 2
  MaxExtras = 1
INVARIANTS
  PublishedIsSettled
PROPERTIES
  ReadyResolves
  CloseCompletes
  SilentPeerIsDropped
