\* Two API bases and two accounts; two changes of base or account, two faults and a kill.
CONSTANTS
  Bases = {prod, dev}
  Accounts = {a1, a2}
  None = None
  MaxChanges = 2
  MaxFaults = 2
  MaxKills = 1
SPECIFICATION FairSpec
INVARIANTS TypeOK TokensOfTheirBase TokensOfThisDevice
PROPERTIES TokenKept SameCodeResumed PairsAndForgets LoginCompletes
