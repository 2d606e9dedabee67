SPECIFICATION Spec
CONSTANTS
  None = None
  Digests <- MCDigests
  sha256_hex <- MCSha256
  l1_score <- MCScore
  Contents = {"override", "promo", "sleeper", "portal", "plain", "altered"}
  Attacks = {"override", "promo", "sleeper"}
  NearMisses = {"portal"}
  Benign = {"plain"}
  Altered = "altered"
  Tenants = {t1, t2}
  Actors = {a1, a2}
  Subs = {"notes", "pii"}
  TRUSTED_CHANNELS = {"user_turn"}
  UNTRUSTED_CHANNELS = {"web_fetch", "tool_output"}
  DERIVED_CHANNELS = {"extraction"}
  writes = 2
  k = 1
INVARIANTS
  TypeOK
  NoAttackAdmissible
  LedgerBalances
  BenignAvailable
  Survivors
  AccountsBalance
SYMMETRY MCSymmetry
