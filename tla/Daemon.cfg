SPECIFICATION FairSpec
CONSTANTS
  Clients = {c1, c2}
  Nobody = Nobody
  Readers = {c1}
  MaxConnections = 1
  Lines = {"list", "notice", "binary", "subscribe"}
  Rows = {r1, r2}
  Notes = {n1}
  NoList = NoList
  Talkers = {c1}
  MaxSends = 2
  MaxChanges = 2
  OutCap = 1
INVARIANTS
  SlotsInv
  StreamInv
PROPERTIES
  RefusedOnlyWhenFull
  EveryClientGetsOn
CHECK_DEADLOCK FALSE
