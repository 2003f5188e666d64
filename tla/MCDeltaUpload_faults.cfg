\* Duplicate session hashes, failures and a kill; two scans interleaved.
CONSTANTS
  Sessions = {h1}
  Digests = {d1, d2}
  Scans = {s1, s2}
  None = None
  MaxCopies = 2
  MaxSkipped = 2
  MaxRunning = 2
  MaxFaults = 2
  MaxCrashes = 1
  MaxRevisions = 1
SPECIFICATION Spec
SYMMETRY Symmetry
CHECK_DEADLOCK FALSE
INVARIANTS TypeOK GivesUpOnlyInFull
PROPERTIES LoneSaveNeverTears UploadsAsIfFull
