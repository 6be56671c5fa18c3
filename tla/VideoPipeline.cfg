\* Two deliveries for one hash, of any kind, overlap in every way.
SPECIFICATION Spec
CONSTANTS
  Workers = {w1, w2}
  Keys = {k1, k2}
  Clear = Clear
  Absent = Absent
  NFiles = 2
SYMMETRY MCSymmetry
INVARIANTS TypeOK PlanCoversMissing ReportIsTrue CompletedIsPlayable
CHECK_DEADLOCK FALSE
