\* Two deliveries for one hash, of one job or of two, and their callbacks.
SPECIFICATION Spec
CONSTANTS
  Workers = {w1, w2}
  Jobs = {j1, j2}
  NoJob = NoJob
  NoWorker = NoWorker
  Posts = 2
  Keys = {k1, k2}
  Clear = Clear
  Absent = Absent
  NFiles = 2
  Orders <- MCOrders
INVARIANTS TypeOK ReportIsTrue OneCulprit PublishedPlays StatusIsOfNewest SentIsAccepted
SYMMETRY MCSymmetry
CHECK_DEADLOCK FALSE
