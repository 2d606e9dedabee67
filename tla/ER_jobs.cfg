SPECIFICATION Spec
CONSTANTS
  None = None
  Records = {r1, r2}
  namespace_of <- MCNamespace
  Actors = {"alice", "bob"}
  actor_of <- MCActor
  Events = {v1}
  session_of <- MCSession
  speaker_of <- MCSpeaker
  Writers = {w1}
  Scanners = {}
  Erasers = {e1}
  subject <- MCSubject
  Sweepers = {c1}
  BatchSize = 1
  Lookback = 1
  ttl = 1
  extraction_ttl = 1
  StaleIndex = FALSE
  Faults = {}
  MaxUpdates = 0
  MaxClock = 1
  Holdable = {r1}
INVARIANTS
  TypeOK
  HoldsRespected
  NothingOverlooked
  DeletionsOnRecord
CHECK_DEADLOCK FALSE
