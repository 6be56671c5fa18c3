\* Two requests for one video, and their retries, race; one insert may be lost.
SPECIFICATION Spec
CONSTANTS
  c1 = c1
  c2 = c2
  full = full
  cover = cover
  transcode = transcode
  Clients = {c1, c2}
  Ids = {t1, t2, t3}
  NoId = NoId
  Fps = {full}
  NoFp = NoFp
  Plans <- MCPlans
  MaxRetry <- MCNoRetry
  Slots = {s1}
  NoSlot = NoSlot
  Faults = {"insert"}
  MaxFaults = 1
SYMMETRY MCSymmetry
INVARIANTS SequentialIdempotency RetryLineage RowAgreesWithQueue
