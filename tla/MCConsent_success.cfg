\* The daily scan beside the scan of a step, one account: whose end is reported?
CONSTANTS
  Agents = {claude, codex}
  Active = {claude, codex}
  Bases = {prod}
  Accounts = {a1}
  Scans = {s1, s2}
  None = None
  Silences = {FALSE}
  MaxChanges = 0
  MaxKills = 0
SPECIFICATION Spec
SYMMETRY Symmetry
CHECK_DEADLOCK FALSE
INVARIANTS RecordsSuccess
