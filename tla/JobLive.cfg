\* Without faults: every job comes to an end.
SPECIFICATION FairSpec
CONSTANTS
  c1 = c1
  c2 = c2
  full = full
  cover = cover
  transcode = transcode
  Clients = {c1}
  Ids = {t1, t2}
  NoId = NoId
  Fps = {full, cover, transcode}
  NoFp = NoFp
  Plans <- MCPlans
  MaxRetry <- MCMaxRetry
  Slots = {s1}
  NoSlot = NoSlot
  Faults = {}
  MaxFaults = 0
PROPERTY JobsSettle
