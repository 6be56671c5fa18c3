\* One task with two live handlers and up to three faults of every kind, under
\* fair scheduling: however the faults fall, the task ends.
SPECIFICATION FairSpec
CONSTANTS
  c1 = c1
  c2 = c2
  full = full
  cover = cover
  transcode = transcode
  Clients = {c1}
  Ids = {t1}
  NoId = NoId
  Fps = {full}
  NoFp = NoFp
  Plans <- MCPlans
  MaxRetry <- MCUniformRetry
  Slots = {s1, s2}
  NoSlot = NoSlot
  Faults = {"db", "insert", "crash", "shutdown", "expire"}
  MaxFaults = 3
INVARIANTS TypeOK AnnouncedIsUploaded
PROPERTY TasksSettle
