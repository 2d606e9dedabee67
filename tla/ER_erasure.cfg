SPECIFICATION FairSpec
CONSTANTS
  None = None
  Records = {r1}
  namespace_of <- MCNamespace
  Actors = {"alice", "bob"}
  actor_of <- MCActor
  Events = {}
  session_of <- MCSession
  speaker_of <- MCSpeaker
  Writers = {w1}
  Scanners = {s1}
  Erasers = {e1}
  subject <- MCSubject
  Sweepers = {}
  BatchSize = 1
  Lookback = 1
  ttl = 1
  extraction_ttl = 1
  StaleIndex = TRUE
  Faults = {"partial", "scan", "raise"}
  MaxUpdates = 1
  MaxClock = 0
  Holdable = {r1}
INVARIANTS
  HoldsRespected
  NothingOverlooked
  DeletionsOnRecord
  ErasedAwaitsItsEvent
PROPERTIES
  ErasedIsForgotten
CHECK_DEADLOCK FALSE
