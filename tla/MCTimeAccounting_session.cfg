\* Sessions of up to four events at ticks 0 to 4, beside a subagent; and transcripts of
\* up to three lines stamped with these ticks in any order.
CONSTANTS
  Ids = {c1, c2}
  None = None
  Menus <- FiveMenus
  Agents = {a1}
  AgentMenu <- SubMenu
  MaxEvents = 4
  MaxLines = 3
  MaxTime = 4
  MaxAgentEvents = 2
  KTurn = 1
  KBridge = 1
  KPrompt = 1
  KGrace = 1
  KCap = 2
  KInterrupted = 1
  PollRunMin = 2
SPECIFICATION ScannedSpec
SYMMETRY Symmetry
CHECK_DEADLOCK FALSE
INVARIANTS TypeOK TurnsApart NoWorkLost StreaksAddUp PartitionExact GraceShared Identities LongestRunIsLongest TurnsByTime SettledTurnsStay

