SPECIFICATION Spec
CONSTANTS
  e1 = e1
  e2 = e2
  e3 = e3
  e4 = e4
  e5 = e5
  e6 = e6
  k1 = k1
  k2 = k2
  Event = {e1, e2, e3}
  Key = {k1}
  KeyOf <- OneKey
  Configs <- MCConfigs
  LastReceipt = 2
  Horizon = 3
  MaxLag = 1
  MaxRestarts = 1
  Reconfigurable = TRUE
SYMMETRY OneKeySymmetry
INVARIANT TypeOK
INVARIANT HeldOnce
INVARIANT SuppressedCovered
INVARIANT DedupeSpacing
PROPERTY HeldWaitBounded
PROPERTY LostOnlyAtWindowTurn
PROPERTY ImplementsContract
