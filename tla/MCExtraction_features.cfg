\* Two scans that overlap or follow each other, a read that fails or a scan that stops.
CONSTANTS
  Sessions = {1, 2}
  Prior <- TwoInARow
  Written <- ThreeFiles
  Planners = {1}
  Scans = {s1, s2}
  None = None
  Torn = Torn
  MaxEdits = 1
  MaxSkips = 1
SPECIFICATION Spec
SYMMETRY Symmetry
CHECK_DEADLOCK FALSE
INVARIANTS TypeOK CacheSound
PROPERTIES SameAsCold
