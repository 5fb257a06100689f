SPECIFICATION FairSpec
CONSTANTS
  f1 = f1
  f2 = f2
  s1 = s1
  s2 = s2
  df = df
  d1 = d1
  d2 = d2
  sf = sf
  sig = sig
  Absent = Absent
  Ticks = {t1, t2}
  Mail <- MailsSent
  Registrant = {f1, f2}
  Address <- Addresses
  Platform = {}
  Answers <- AnswersHeard
  PageSize = 3
  MaxDepth = 4
  MaxFaults = 1
CHECK_DEADLOCK FALSE
INVARIANT DoorIsHonest
PROPERTIES ReadIsAnswered DoorKeepsUp
