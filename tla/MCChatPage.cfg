CONSTANTS
  s1 = s1
  NoSession = NoSession
  Session <- MCSession
  RestPages = 2
  ScrapeConcurrency = 1
  MaxPolls = 2
  MaxTurns = 2
SPECIFICATION FairSpec
INVARIANTS SiteActTells TraceIsSettled ChipsAreThisTurns
PROPERTY ReadSettles
CHECK_DEADLOCK FALSE
