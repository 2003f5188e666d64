\* Expected violation: the two reads of uploaded.json straddle another scan's save.
CONSTANTS
  Sessions = {h1, h2}
  Digests = {d1, d2}
  Scans = {s1, s2, s3}
  None = None
  MaxCopies = 1
  MaxSkipped = 2
  MaxRunning = 3
  MaxFaults = 0
  MaxCrashes = 0
  MaxRevisions = 0
SPECIFICATION Spec
SYMMETRY Symmetry
CHECK_DEADLOCK FALSE
PROPERTY ChainAsRecomputed
