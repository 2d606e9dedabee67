SPECIFICATION FairSpec
CONSTANTS
  None = None
  NoActor = NoActor
  Records = {1, 2}
  Clients = {"w", "c"}
  workload <- MCWorkload
  ns_of <- MCNamespace
  actor_of <- MCActor
  overlap <- MCOverlap
  k = 1
  PageSize = 1
  Faults = {"raise"}
  MaxBroken = 2
INVARIANTS
  TypeOK
  IndexesAgree
PROPERTIES
  ImplementsBackend
  CallsEnd
