\* Rendition requests in two API processes against repeated cleanups.
SPECIFICATION CleanupSpec
CONSTANTS
  job = job
  Clients = {}
  Ids = {}
  NoId = NoId
  Fps = {job}
  NoFp = NoFp
  Plans <- MCPlans
  MaxRetry <- MCMaxRetry
  Slots = {}
  NoSlot = NoSlot
  Faults = {}
  MaxFaults = 0
  Requests = {r1, r2}
  Procs = {p1, p2}
  Sources = {src, plain}
  Hashed = {src}
  Options = {small}
  NoImage = NoImage
  Attempts = 2
INVARIANTS ImageTypeOK CachedIsTracked AnswerIsRight HangUpIsPrivate
PROPERTIES KeepsPromise IndexGoesLast
SYMMETRY MCSymmetry
