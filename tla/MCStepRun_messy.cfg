\* Step and blocking runs one after the other, with a daily scan, a scan that dies and a call that is killed.
CONSTANTS
  Pids = {p1, p2}
  Calls = {c1}
  None = None
  Modes = {"step", "blocking"}
  FullPercent = 1
  QuietLimit = 1
  MaxPosts = 1
  LifeLimit = 3
  StaleAfter = 1
  MaxAge = 2
  MaxCalls = 1
  MaxDaily = 1
  MaxDeaths = 1
  MaxKills = 1
SPECIFICATION Spec
SYMMETRY Symmetry
INVARIANTS ReportsOwnScan
PROPERTIES ReportedOnce ProgressNeverBack
