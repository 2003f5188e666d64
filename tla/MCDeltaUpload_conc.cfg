\* Two scans interleaved over one ledger file; without failures.
CONSTANTS
  Sessions = {h1, h2}
  Digests = {d1, d2}
  Scans = {s1, s2}
  None = None
  MaxCopies = 1
  MaxSkipped = 2
  MaxRunning = 2
  MaxFaults = 0
  MaxCrashes = 0
  MaxRevisions = 1
SPECIFICATION Spec
SYMMETRY Symmetry
CHECK_DEADLOCK FALSE
INVARIANTS LedgerIsOneUpload
PROPERTIES ChainAsRecomputed SkippedKeptUnlessListed UploadsAsIfFull
