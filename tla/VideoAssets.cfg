\* One job fails half way, another one for the same hash publishes again.
SPECIFICATION FairSpec
CONSTANTS
  Workers = {w1, w2}
  Keys = {k1, k2}
  Clear = Clear
  Absent = Absent
  NFiles = 2
PROPERTY AssetsImmutable
CHECK_DEADLOCK FALSE
