\* One job, its retries and redeliveries, against repeated cleanups.
SPECIFICATION CleanupSpec
CONSTANTS
  job = job
  Clients = {c1}
  Ids = {t1}
  NoId = NoId
  Fps = {job}
  NoFp = NoFp
  Plans <- MCPlans
  MaxRetry <- MCMaxRetry
  Slots = {s1}
  NoSlot = NoSlot
  Faults = {"insert", "crash"}
  MaxFaults = 1
  Requests = {}
  Procs = {p1}
  Sources = {src}
  Hashed = {src}
  Options = {small}
  NoImage = NoImage
  Attempts = 2
INVARIANTS CleanupTypeOK ConfirmedIsGone
PROPERTIES RecordsGoLast CleanupEnds
