SPECIFICATION Spec
CONSTANTS
  GENESIS <- MCGenesis
  _entry_hash <- MCHash
  sha256 <- MCLeaf
  sha256_pair <- MCPair
  hash_less <- MCLess
  Tenants = {"t1", "t2"}
  TenantLists = {{"t1", "t2"}, {"t2"}}
  Ops = {"a", "b"}
  Anchorers = {"a1"}
  Auditors = {"v1"}
  StaleReads = TRUE
  Faults = {"raise", "chain", "anchor"}
  PageSize = 2
  MaxEntries <- MCMaxEntries
  MaxAnchors = 2
  MaxDamage = 1
INVARIANTS
  TypeOK
  AnchoredIntact
  SoundChainAccepted
  AnchorsGrounded
CHECK_DEADLOCK FALSE
