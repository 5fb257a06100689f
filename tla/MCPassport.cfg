CONSTANTS
  AnyAudience = AnyAudience
  NoFact = NoFact
  Fact <- FactsArriving
  Engagements <- NoEngagements
  MaxFacts = 2
SPECIFICATION PassportSpec
INVARIANT RenderedIsVisible
CHECK_DEADLOCK FALSE
