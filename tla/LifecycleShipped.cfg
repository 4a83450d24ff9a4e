SPECIFICATION FairSpec
CONSTANTS
  e1 = e1
  e2 = e2
  Envs = {e1, e2}
  Services = {"ssh", "telnet"}
  Tiers = {"beginner", "bot"}
  ServicesOf <- MCServicesOf
  TtlOf <- MCTtlOf
  Docker = TRUE
  Managed = FALSE
PROPERTIES
  EveryEnvironmentIsReaped
CHECK_DEADLOCK FALSE
