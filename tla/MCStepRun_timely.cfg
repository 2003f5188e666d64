\* Calls one after the other, a scan silent for less than StaleAfter and never older than MaxAge.
CONSTANTS
  Pids = {p1, p2}
  Calls = {c1}
  None = None
  Modes = {"step", "blocking"}
  FullPercent = 1
  QuietLimit = 1
  MaxPosts = 2
  LifeLimit = 5
  StaleAfter = 3
  MaxAge = 6
  MaxCalls = 1
  MaxDaily = 0
  MaxDeaths = 1
  MaxKills = 0
SPECIFICATION FairSpec
INVARIANTS TypeOK
PROPERTIES ScanRunsAlone NeverLockedOut
