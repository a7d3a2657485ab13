SPECIFICATION Spec
CONSTANTS
  e1 = e1
  e2 = e2
  e3 = e3
  e4 = e4
  e5 = e5
  e6 = e6
  k1 = k1
  k2 = k2
  Event = {e1, e2, e3, e4, e5, e6}
  Key = {k1, k2}
  KeyOf <- TwoKeys
  Configs <- RateOneOrTwo
  LastReceipt = 3
  Horizon = 4
  MaxLag = 1
  MaxRestarts = 0
  Reconfigurable = FALSE
SYMMETRY TwoKeySymmetry
INVARIANT RateBound
INVARIANT HeldOnce
