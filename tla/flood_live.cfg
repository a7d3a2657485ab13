SPECIFICATION FairSpec
CONSTANTS
  e1 = e1
  e2 = e2
  e3 = e3
  e4 = e4
  e5 = e5
  e6 = e6
  k1 = k1
  k2 = k2
  Event = {e1, e2}
  Key = {k1}
  KeyOf <- OneKey
  Configs <- RateOrDigest
  LastReceipt = 1
  Horizon = 5
  MaxLag = 1
  MaxRestarts = 0
  Reconfigurable = TRUE
PROPERTY DigestFlushed
PROPERTY SummaryFlushed
