------------------------------ MODULE Envelope ------------------------------
(***************************************************************************)
(* The governance envelope (memwarden/envelope.py): trust tiers, the       *)
(* channel-to-tier table, stamping, expiry and the integrity re-hash.  The *)
(* fields kept are those the gates, the scanner and the sweep read.        *)
(***************************************************************************)
EXTENDS Naturals

CONSTANTS
  Contents,     \* the texts a memory record can hold
  Digests,      \* SHA-256 values
  sha256_hex,   \* the hash function, [Contents -> Digests]
  None          \* Python's None

(***************************************************************************)
(* SHA-256 is taken to be collision-free on the contents of an instance.   *)
(***************************************************************************)
ASSUME Sha256Assumption ==
  /\ sha256_hex \in [Contents -> Digests]
  /\ \A c, d \in Contents : sha256_hex[c] = sha256_hex[d] => c = d

UNTRUSTED   == 0
DERIVED     == 1
FIRST_PARTY == 2
SYSTEM      == 3
TrustTier   == UNTRUSTED..SYSTEM

CHANNEL_TIERS ==
  [web_fetch   |-> UNTRUSTED,   tool_output     |-> UNTRUSTED,
   inbound_email |-> UNTRUSTED, third_party_doc |-> UNTRUSTED,
   a2a         |-> UNTRUSTED,
   extraction  |-> DERIVED,     llm_extraction  |-> DERIVED,
   user_turn   |-> FIRST_PARTY, agent_turn      |-> FIRST_PARTY,
   operator    |-> SYSTEM,      system_seed     |-> SYSTEM]

\* Fail-closed provenance: a channel outside the table is untrusted.
tier_for_channel(channel) ==
  IF channel \in DOMAIN CHANNEL_TIERS THEN CHANNEL_TIERS[channel] ELSE UNTRUSTED

Envelope ==
  [trust_tier       : TrustTier,
   content_sha256   : Digests,
   expires_at_epoch : Nat \cup {None},
   quarantined      : BOOLEAN]

ASSUME NoneAssumption == None \notin Envelope /\ None \notin Nat

\* A retention class with ttl_days = 0 stamps no expiry at all.
expires_at(now, ttl) == IF ttl # 0 THEN now + ttl ELSE None

\* Mutant: the stamp leaves the hash to be filled in later.
stamp_unhashed(tier, content, expires, quarantined) ==
  [trust_tier |-> tier, content_sha256 |-> None,
   expires_at_epoch |-> expires, quarantined |-> quarantined]

stamp(tier, content, expires, quarantined) ==
  [trust_tier |-> tier, content_sha256 |-> sha256_hex[content],
   expires_at_epoch |-> expires, quarantined |-> quarantined]

verify_integrity(env, content) == sha256_hex[content] = env.content_sha256

expired(env, now) ==
  env.expires_at_epoch # None /\ now >= env.expires_at_epoch
=============================================================================
