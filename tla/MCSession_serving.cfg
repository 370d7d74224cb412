SPECIFICATION Spec
CONSTANTS
  Calls = {}
  InIds = {i1, i2, i3}
  Codes = {4000, 4400, 4426}
  NoArg = NoArg
  MaxInFlight = 2
  MaxRecvs = 5
  MaxExtras = 0
SYMMETRY IdSymmetry
INVARIANTS ExactlyOneAnswer InFlightAgrees
