SPECIFICATION Spec
CONSTANTS
  None = None
  Digests <- MCDigests
  sha256_hex <- MCSha256
  l1_score <- MCScore
  DropQuarantined = TRUE
  VerifyIntegrity = TRUE
  Contents = {"plain", "risky"}
  Records = {r1}
  Channels = {"user_turn", "web_fetch"}
  Writers = {w1}
  Readers = {p1}
  Scanners = {s1}
  MinTier = 2
  ScanTiers = {0, 1}
  ttl <- MCOneTick
  Assess <- MCAssess
  UseOracle = TRUE
  LruSize = 1
  OrderedStream = FALSE
  ForeignReads = TRUE
  Faults = {"restart", "write", "scan", "envelopes", "quarantine", "audit"}
  MaxEvents = 1
  MaxClock = 1
INVARIANTS
  BelowFloorNeedsClearance
PROPERTIES
  NoSilentDrop
  RetentionHonoured
