SPECIFICATION Spec
CONSTANTS
  s1 = s1
  s2 = s2
  s3 = s3
  ip1 = ip1
  ip2 = ip2
  Sessions = {s1, s2, s3}
  Attackers = {ip1, ip2}
  IpOf <- MCIpOf
  ContentsOf <- MCContentsOf
  StartOf <- MCStartOf
  EndOf <- MCEndOf
  ModelAnswers <- MCModelAnswers
  MaxAnalyses = 3
  MaxCrashes = 1
  NoProfile = NoProfile
  NoVerdict = NoVerdict
  NoCampaign = NoCampaign
INVARIANTS
  TypeOK
  ProfilesSumUp
  StoredProfilesSumUp
  CampaignsFollowSessions
  ScoresStayLow
  BandsAgree
PROPERTIES
  PeaksFallOnlyAnew
CHECK_DEADLOCK FALSE
