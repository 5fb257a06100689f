SPECIFICATION CliSpec
CONSTANTS
  Null = Null
  Company <- Companies
  Usual <- UsualChoice
  Typed <- TypedValues
  MaxDeparts = 1
  MaxRuns = 2
  MaxDrops = 1
CHECK_DEADLOCK FALSE
INVARIANTS NotSureNeverCosts EnterKeepsTheDossier CompanionIsCurrent
