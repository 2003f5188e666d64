\* Expected violation: a resolvable skipped session dropped by the full fallback.
CONSTANTS
  Sessions = {h1, h2}
  Digests = {d1}
  Scans = {s1}
  None = None
  MaxCopies = 1
  MaxSkipped = 2
  MaxRunning = 1
  MaxFaults = 0
  MaxCrashes = 0
  MaxRevisions = 1
SPECIFICATION Spec
SYMMETRY Symmetry
CHECK_DEADLOCK FALSE
PROPERTIES SkippedStaysScored
