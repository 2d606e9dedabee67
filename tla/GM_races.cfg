SPECIFICATION Spec
CONSTANTS
  None = None
  Digests <- MCDigests
  sha256_hex <- MCSha256
  l1_score <- MCScore
  DropQuarantined = TRUE
  VerifyIntegrity = TRUE
  Contents = {"plain", "flagged", "hostile"}
  Records = {r1}
  Channels = {"user_turn", "web_fetch"}
  Writers = {w1}
  Readers = {p1}
  Scanners = {s1}
  MinTier = 2
  ScanTiers = {0, 1}
  ttl <- MCForever
  Assess <- MCAssess
  UseOracle = FALSE
  LruSize = 1
  OrderedStream = FALSE
  ForeignReads = FALSE
  Faults = {"write", "scan"}
  MaxEvents = 2
  MaxClock = 0
INVARIANTS
  TypeOK
  BelowFloorNeedsClearance
  QuarantinedInvisible
  NoUnattestedContent
  StoredIsAudited
