SPECIFICATION Spec
CONSTANTS
  None = None
  Digests <- MCDigests
  sha256_hex <- MCSha256
  l1_score <- MCScore
  DropQuarantined = TRUE
  VerifyIntegrity = TRUE
  Contents = {"plain", "risky"}
  Records = {r1}
  Channels = {"user_turn", "web_fetch"}
  Writers = {w1}
  Readers = {p1}
  Scanners = {s1}
  MinTier = 2
  ScanTiers = {0, 1}
  ttl <- MCForever
  Assess <- MCAssess
  UseOracle = FALSE
  LruSize = 1
  OrderedStream = TRUE
  ForeignReads = FALSE
  Faults = {}
  MaxEvents = 1
  MaxClock = 0
INVARIANTS
  ProvenanceKept
