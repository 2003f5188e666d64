\* Every scan that parses all its sessions scores when nothing fails.
CONSTANTS
  Sessions = {h1, h2}
  Digests = {d1}
  Scans = {s1, s2}
  None = None
  MaxCopies = 1
  MaxSkipped = 0
  MaxRunning = 2
  MaxFaults = 0
  MaxCrashes = 0
  MaxRevisions = 1
SPECIFICATION FairSpec
CHECK_DEADLOCK FALSE
PROPERTIES ScanScores
