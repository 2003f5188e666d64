\* Two accounts that alternate, a scan that is chosen for and one that reads, silent scans, a kill anywhere.
CONSTANTS
  Agents = {claude, codex}
  Active = {claude, codex}
  Bases = {prod}
  Accounts = {a1, a2}
  Scans = {s1, s2}
  None = None
  Silences = {FALSE, TRUE}
  MaxChanges = 1
  MaxKills = 1
SPECIFICATION Spec
SYMMETRY Symmetry
CHECK_DEADLOCK FALSE
INVARIANTS TypeOK ReadsOnlyGranted
PROPERTIES ChoiceKept
