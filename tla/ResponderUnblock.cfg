SPECIFICATION Spec
CONSTANTS
  s1 = s1
  s2 = s2
  ip1 = ip1
  ip2 = ip2
  trained = trained
  heuristic = heuristic
  Sessions = {s1, s2}
  Attackers = {ip1}
  IpOf <- MCOneAttacker
  MaxEvents = 1
  MaxLines = 4
  MayTear = {}
  MaxRotated = 0
  Models = {trained, heuristic}
  ScoreOf <- MCScores
  Enforce = TRUE
  FromStart = FALSE
  MaxCrashes = 0
  Requests = {q1}
  NoVerdict = NoVerdict
  Idle = Idle
PROPERTIES
  UnblockUnblocks
CHECK_DEADLOCK FALSE
