SPECIFICATION FairSpec
CONSTANTS
  e1 = e1
  e2 = e2
  Envs = {e1, e2}
  Services = {"ssh", "telnet"}
  Tiers = {"beginner", "bot"}
  ServicesOf <- MCServicesOf
  TtlOf <- MCTtlOf
  Docker = TRUE
  Managed = TRUE
INVARIANTS
  TypeOK
  LeftoversAreExplained
  HealthyMeansStarted
PROPERTIES
  TeardownIsContained
  EveryEnvironmentIsReaped
CHECK_DEADLOCK FALSE
