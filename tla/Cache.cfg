SPECIFICATION CacheSpec
CONSTANTS
  Names = {1}
  NxNames = {1}
  Asked <- Addresses
  Types = {"A", "CNAME", "ANY"}
  Partitions <- Networks
  Data = {d1}
  Verdicts = {FALSE}
  Negative = Negative
  Scores = {1, 2, 3}
  MinAdmit = 1
  WarmAdmit = 2
  HotAdmit = 3
  Capacity <- Narrow
  NxCapacity = 1
  EvictStride = 8
  Ttls = {2}
  MaxTtlCap = 1
  NegativeTtlCap = 1
  StaleWindow = 1
  Second = 2
  MaxTime = 3
  Persist = FALSE
  NoEntry = NoEntry
INVARIANTS TiersSound OneTierPerKey MostSpecificAnswer LifetimeCapped
