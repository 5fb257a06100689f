CONSTANTS
  f1 = f1
  f2 = f2
  p1 = p1
  p2 = p2
  p3 = p3
  s1 = s1
  s2 = s2
  Null = Null
  AnyAudience = AnyAudience
  NoFact = NoFact
  Founder = {f1, f2}
  Page = {p1, p2, p3}
  Request <- Requests
  Auth0Set = TRUE
  AccessSet = TRUE
  Session = {s1, s2}
  SessionOf <- Sessions
  Statement <- Statements
  Name <- Names
  Value <- Values
  MaxStatements = 2
  MaxCrashes = 1
  Fact <- FactsArriving
  Engagements <- EngagementsHeld
  MaxFacts = 3
  MemoryCap = 2
  MaxUrls = 2
  MaxConcurrent = 1
  RateMax = 2
  RateWindow = 2
  BatchTtl = 1
  LastTick = 3
  MaxBatches = 3
  MaxRestarts = 1
  Silent = Silent
  Question <- Questions
  Stopped = {"which", "model", "find", "data", "open", "our"}
  Models <- ModelRegister
  DataSets <- DataRegister
  Capability <- CapabilityTerms
  RegisterNouns = {"model", "data"}
  PageLimit = 2
SPECIFICATION Spec
INVARIANTS OneOwner FounderWordStands ViewersNeverDisagree  FreeFirstAndCounted
PROPERTIES LitStaysLit EveryReadSettles
CHECK_DEADLOCK FALSE
