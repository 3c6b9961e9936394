CONSTANTS
  a1 = a1
  a2 = a2
  b = b
  sa = sa
  sb = sb
  c1 = c1
  c2 = c2
  Instance = {a1, a2, b}
  Services = {sa, sb}
  Service <- ServiceOf
  Config = {c1, c2}
  Brokers <- BrokersOf
  NoConfig = NoConfig
  NoRows = NoRows
  MaxFaults = 1
SPECIFICATION FairSpec
INVARIANTS TypeOK Served CacheOnlyMisses
PROPERTY EventuallyUp
