\* One request, no fault: the worker may be done before the row is inserted.
SPECIFICATION Spec
CONSTANTS
  c1 = c1
  c2 = c2
  full = full
  cover = cover
  transcode = transcode
  Clients = {c1}
  Ids = {t1}
  NoId = NoId
  Fps = {full}
  NoFp = NoFp
  Plans <- MCPlans
  MaxRetry <- MCNoRetry
  Slots = {s1}
  NoSlot = NoSlot
  Faults = {}
  MaxFaults = 0
INVARIANT DoneIsCompleted
