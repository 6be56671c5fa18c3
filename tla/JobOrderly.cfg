\* One task; workers crash and contexts expire, but nothing outlives a shutdown.
SPECIFICATION Spec
CONSTANTS
  c1 = c1
  c2 = c2
  full = full
  cover = cover
  transcode = transcode
  Clients = {c1}
  Ids = {t1}
  NoId = NoId
  Fps = {full}
  NoFp = NoFp
  Plans <- MCPlans
  MaxRetry <- MCUniformRetry
  Slots = {s1, s2, s3}
  NoSlot = NoSlot
  Faults = {"insert", "crash", "expire"}
  MaxFaults = 3
INVARIANTS CompletedIsWhole 
PROPERTY KeepsContract
