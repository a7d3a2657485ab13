CONSTANTS
  mapped = mapped
  strange = strange
  known = known
  foreign = foreign
  None = None
  Oid = {mapped, strange}
  Address = {known, foreign}
  Form <- MCForm
  Setup <- MCSetup
  Ord = {}
  MinOrd <- MCMinOrd
  Offset = 10
  MaxId = 3
  MaxEdits = 2
  MaxEvents = 0
SPECIFICATION Spec
CHECK_DEADLOCK FALSE
INVARIANT OffsetNeverTrips
