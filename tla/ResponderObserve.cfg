SPECIFICATION FairSpec
CONSTANTS
  s1 = s1
  s2 = s2
  ip1 = ip1
  ip2 = ip2
  trained = trained
  heuristic = heuristic
  Sessions = {s1, s2}
  Attackers = {ip1}
  IpOf <- MCOneAttacker
  MaxEvents = 2
  MaxLines = 4
  MayTear = {2, 3}
  MaxRotated = 1
  Models = {trained, heuristic}
  ScoreOf <- MCScores
  Enforce = FALSE
  FromStart = FALSE
  MaxCrashes = 1
  Requests = {q1}
  NoVerdict = NoVerdict
  Idle = Idle
INVARIANTS
  ObserveIsPassive
  AnsweredOncePerRun
  VerdictsAreWhole
  DecoysAreExplained
PROPERTIES
  EveryCloseIsAnswered
CHECK_DEADLOCK FALSE
