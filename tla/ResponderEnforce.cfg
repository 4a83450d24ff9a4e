SPECIFICATION Spec
CONSTANTS
  s1 = s1
  s2 = s2
  ip1 = ip1
  ip2 = ip2
  trained = trained
  heuristic = heuristic
  Sessions = {s1, s2}
  Attackers = {ip1, ip2}
  IpOf <- MCTwoAttackers
  MaxEvents = 1
  MaxLines = 3
  MayTear = {1}
  MaxRotated = 0
  Models = {trained, heuristic}
  ScoreOf <- MCScores
  Enforce = TRUE
  FromStart = TRUE
  MaxCrashes = 1
  Requests = {q1}
  NoVerdict = NoVerdict
  Idle = Idle
INVARIANTS
  TypeOK
  OutcomesAreTruthful
  EffectsAreRecorded
  ActionsAreJustified
  RowsFollowThePlan
CHECK_DEADLOCK FALSE
