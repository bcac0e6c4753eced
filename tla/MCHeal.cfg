SPECIFICATION FairSpec
CONSTANTS
  Checks <- MCChecks
  Healable = {"redis", "scheduler", "workers", "queues"}
  Quiet = {"queues"}
  Gravest = {"queues"}
  Alerting <- MCAlerting
  Store = "redis"
  Host = "scheduler"
  Window = 2
  MaxRestarts = 2
  MaxConsecutive = 2
  OpenTTL = 3
  MaxAttempts = 2
  MaxFaults = 2
INVARIANTS
  RestartBudget
  FailureBudget
  SilenceMeansHealthy
PROPERTIES
  HealingResumes
