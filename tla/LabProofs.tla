----------------------------- MODULE LabProofs ------------------------------
(***************************************************************************)
(* Theorems about Lab for any tenants, actors, texts, scores, channels and *)
(* number of writes.                                                       *)
(***************************************************************************)
EXTENDS Lab, FiniteSetTheorems, TLAPS

-----------------------------------------------------------------------------
(* The policy.                                                             *)

LEMMA TierFacts ==
  /\ \A channel \in Channels : tier_for_channel(channel) \in {UNTRUSTED, DERIVED, FIRST_PARTY}
  /\ \A channel \in UNTRUSTED_CHANNELS : tier_for_channel(channel) = UNTRUSTED
  /\ {UNTRUSTED, DERIVED, FIRST_PARTY} \subseteq TrustTier
BY LabAssumption DEF Channels, UNTRUSTED, DERIVED, FIRST_PARTY, SYSTEM, TrustTier

\* What comes from the web is kept for a day, anything else for a month at least.
LEMMA RetentionFacts ==
  ASSUME NEW channel, NEW sub \in Subs
  PROVE  /\ channel = "web_fetch" => resolve_retention(channel, sub) = 1
         /\ channel # "web_fetch" => resolve_retention(channel, sub) \in {30, 90, 2555}
<1> DEFINE hits == {i \in DOMAIN retention_rules : Matches(retention_rules[i], channel, sub)}
           Least(j) == j \in hits /\ \A h \in hits : j <= h
           i == CHOOSE j \in hits : \A h \in hits : j <= h
<1>1. /\ DOMAIN retention_rules = 1..4
      /\ retention_rules[1] = [channel |-> "web_fetch", sub |-> Anything,  class |-> "ephemeral_24h"]
      /\ retention_rules[2] = [channel |-> Anything,    sub |-> "pii",     class |-> "pii_30d"]
      /\ retention_rules[3] = [channel |-> Anything,    sub |-> "finance", class |-> "regulatory_7y"]
      /\ retention_rules[4] = [channel |-> Anything,    sub |-> Anything,  class |-> "standard_90d"]
  BY DEF retention_rules
<1>2. hits \subseteq 1..4 /\ 4 \in hits
  BY <1>1 DEF Matches, Anything
<1>3. \E j \in hits : \A h \in hits : j <= h
  <2>1. CASE 1 \in hits
    BY <1>2, <2>1
  <2>2. CASE 1 \notin hits /\ 2 \in hits
    BY <1>2, <2>2
  <2>3. CASE 1 \notin hits /\ 2 \notin hits /\ 3 \in hits
    BY <1>2, <2>3
  <2>4. CASE 1 \notin hits /\ 2 \notin hits /\ 3 \notin hits
    BY <1>2, <2>4
  <2> QED
    BY <2>1, <2>2, <2>3, <2>4
<1>4. i \in hits /\ \A h \in hits : i <= h
  <2> HIDE DEF hits
  <2> QED
    BY <1>3
<1>5. resolve_retention(channel, sub) = retention_classes[retention_rules[i].class]
  BY DEF resolve_retention
<1>6. 1 \in hits <=> channel = "web_fetch"
  BY <1>1, LabAssumption DEF Matches, Anything
<1> HIDE DEF i
<1>7. CASE channel = "web_fetch"
  <2>1. i = 1
    BY <1>2, <1>4, <1>6, <1>7
  <2> QED
    BY <1>1, <1>5, <1>7, <2>1 DEF retention_classes
<1>8. CASE channel # "web_fetch"
  <2>1. i \in {2, 3, 4}
    BY <1>2, <1>4, <1>6, <1>8
  <2> QED
    BY <1>1, <1>5, <1>8, <2>1 DEF retention_classes
<1> QED
  BY <1>7, <1>8

\* The envelope that write() stamps.
LEMMA StampFacts ==
  ASSUME NEW channel \in Channels, NEW sub \in Subs, NEW content \in Contents, NEW bad \in BOOLEAN,
         NEW env, env = stamp(tier_for_channel(channel), content,
                              expires_at(0, resolve_retention(channel, sub)), bad)
  PROVE  /\ env \in Envelope
         /\ env.trust_tier = tier_for_channel(channel)
         /\ env.content_sha256 = sha256_hex[content] /\ env.quarantined = bad
         /\ env.expires_at_epoch \in Nat \ {0}
         /\ env.expires_at_epoch <= 2 <=> channel = "web_fetch"
<1>1. PICK days : days = resolve_retention(channel, sub)
  OBVIOUS
<1>2. /\ channel = "web_fetch" => days = 1
      /\ channel # "web_fetch" => days \in {30, 90, 2555}
  BY <1>1, RetentionFacts
<1>3. env = [trust_tier |-> tier_for_channel(channel), content_sha256 |-> sha256_hex[content],
             expires_at_epoch |-> days, quarantined |-> bad]
  BY <1>1, <1>2 DEF stamp, expires_at
<1>4. days \in Nat \ {0} /\ (days <= 2 <=> channel = "web_fetch")
  BY <1>2
<1>5. tier_for_channel(channel) \in TrustTier /\ sha256_hex[content] \in Digests
  BY TierFacts, Sha256Assumption
<1> QED
  BY <1>3, <1>4, <1>5 DEF Envelope

-----------------------------------------------------------------------------
(* Types.                                                                  *)

Report == {"delayed", "final", "l2_cleared", "l2_failed", "tamper", "cross_tenant", "erasure", "sweep"}

TypeInv == TypeOK /\ DOMAIN metrics = Report /\ (phase # "done" => clock = 0)

LEMMA TypeInit == Init => TypeInv
<1> SUFFICES ASSUME Init  PROVE TypeInv
  OBVIOUS
<1>1. features \subseteq AllFeatures
  BY DEF Init, sample_config
<1>2. audit \in [Tenants -> [{"WRITE", "WRITE_REJECTED", "deleted"} -> Nat]]
  BY DEF Init
<1>3. ledger \in [Attacks -> [{"injected"} \cup Outcome -> Nat]]
  BY DEF Init, Outcome
<1>4. DOMAIN metrics = Report
  BY DEF Init, NoMetrics, Report
<1>5. 0 \in 0..writes
  BY LabAssumption
<1> QED
  BY <1>1, <1>2, <1>3, <1>4, <1>5 DEF Init, TypeInv, TypeOK

LEMMA NotedTyped ==
  ASSUME TypeOK, NEW content \in Contents, NEW outcome \in Outcome, Noted(content, outcome)
  PROVE  known' \subseteq Attacks /\ ledger' \in [Attacks -> [{"injected"} \cup Outcome -> Nat]]
<1>1. CASE content \notin Attacks
  BY <1>1 DEF Noted, TypeOK
<1>2. CASE content \in Attacks
  <2> DEFINE Entry == [{"injected"} \cup Outcome -> Nat]
  <2>1. PICK e : e = ledger[content]
    OBVIOUS
  <2>2. e \in Entry
    BY <1>2, <2>1 DEF TypeOK
  <2>3. PICK f : f = [[e EXCEPT !.injected = e.injected + 1] EXCEPT ![outcome] = e[outcome] + 1]
    OBVIOUS
  <2>4. f \in Entry
    BY <2>2, <2>3 DEF Outcome
  <2>5. ledger' = [ledger EXCEPT ![content] = f]
    BY <1>2, <2>1, <2>2, <2>3 DEF Noted, TypeOK, Outcome
  <2> QED
    BY <1>2, <2>4, <2>5 DEF Noted, TypeOK
<1> QED
  BY <1>1, <1>2

\* What a successful write() leaves: a record of its number, and its row.
Wrote(r, t, actor, content, channel, env) ==
  /\ env.trust_tier = tier_for_channel(channel)
  /\ env.content_sha256 = sha256_hex[content]
  /\ env.expires_at_epoch \in Nat \ {0}
  /\ env.expires_at_epoch <= 2 <=> channel = "web_fetch"
  /\ rows' = [rows EXCEPT ![r] = [tenant |-> t, actor |-> actor, env |-> env]]
  /\ verdicts' = [verdicts EXCEPT ![r] =
       IF env.quarantined
       THEN [verdict |-> PENDING, verdict_digest |-> env.content_sha256] ELSE None]
  /\ Noted(content, IF env.quarantined THEN "quarantined" ELSE "persisted_held")

LEMMA Written ==
  ASSUME TypeInv, NEW t \in Tenants, NEW sub \in Subs, NEW actor \in Actors,
         NEW content \in Contents, NEW channel \in Channels,
         write(t, sub, actor, content, channel), NEW r, r = attempts + 1
  PROVE  /\ r \in Records /\ attempts' = r
         /\ \E env \in Envelope : Wrote(r, t, actor, content, channel, env)
<1>1. PICK bad \in BOOLEAN : bad = (ScoreOf(content, channel) >= QUARANTINE_THRESHOLD)
  <2>1. PICK score \in Int : score = ScoreOf(content, channel)
    BY LabAssumption DEF ScoreOf, scan
  <2>2. (score >= 50) \in BOOLEAN
    BY <2>1
  <2>3. \E bad \in BOOLEAN : bad = (score >= 50)
    BY <2>2, Zenon
  <2> QED
    BY <2>1, <2>3, Zenon DEF QUARANTINE_THRESHOLD
<1>2. PICK env : env = stamp(tier_for_channel(channel), content,
                             expires_at(clock, resolve_retention(channel, sub)), bad)
  OBVIOUS
<1>3. /\ rows' = [rows EXCEPT ![r] = [tenant |-> t, actor |-> actor, env |-> env]]
      /\ verdicts' = [verdicts EXCEPT ![r] =
           IF bad THEN [verdict |-> PENDING, verdict_digest |-> env.content_sha256] ELSE None]
      /\ Noted(content, IF bad THEN "quarantined" ELSE "persisted_held")
      /\ attempts' = r /\ phase = "write" /\ attempts < writes
  BY <1>1, <1>2 DEF write
<1>4. clock = 0 /\ attempts \in Nat /\ writes \in Nat /\ attempts \in 0..writes
  BY <1>3, LabAssumption DEF TypeInv, TypeOK
<1>5. /\ env \in Envelope /\ env.trust_tier = tier_for_channel(channel)
      /\ env.content_sha256 = sha256_hex[content] /\ env.quarantined = bad
      /\ env.expires_at_epoch \in Nat \ {0}
      /\ env.expires_at_epoch <= 2 <=> channel = "web_fetch"
  BY <1>2, <1>4, StampFacts
<1>6. r \in Records
  BY <1>3, <1>4 DEF Records
<1> QED
  BY <1>3, <1>5, <1>6 DEF Wrote

LEMMA TypeStep == TypeInv /\ [Next]_vars => TypeInv'
<1> SUFFICES ASSUME TypeInv, [Next]_vars  PROVE TypeInv'
  OBVIOUS
<1> USE DEF data, books, history
<1>a. TypeOK /\ DOMAIN metrics = Report /\ (phase # "done" => clock = 0)
  BY DEF TypeInv
<1>1. ASSUME NEW t \in Tenants, NEW content \in Contents, NEW channel \in Channels,
             WriteRejected(t, content, channel)
      PROVE  TypeInv'
  <2>1. attempts' \in 0..writes
    BY <1>1, <1>a, LabAssumption DEF WriteRejected, TypeOK
  <2>2. known' \subseteq Attacks /\ ledger' \in [Attacks -> [{"injected"} \cup Outcome -> Nat]]
    BY <1>1, <1>a, NotedTyped DEF WriteRejected, Outcome
  <2>3. audit' \in [Tenants -> [{"WRITE", "WRITE_REJECTED", "deleted"} -> Nat]]
    <3>1. PICK e : e = audit[t]
      OBVIOUS
    <3>2. PICK f : f = [e EXCEPT !.WRITE_REJECTED = e.WRITE_REJECTED + 1]
      OBVIOUS
    <3>3. f \in [{"WRITE", "WRITE_REJECTED", "deleted"} -> Nat]
      BY <3>1, <3>2, <1>a DEF TypeOK
    <3>4. audit' = [audit EXCEPT ![t] = f]
      BY <1>1, <1>a, <3>1, <3>2 DEF WriteRejected, TypeOK
    <3> QED
      BY <1>a, <3>3, <3>4 DEF TypeOK
  <2> QED
    BY <1>1, <1>a, <2>1, <2>2, <2>3 DEF WriteRejected, TypeInv, TypeOK
<1>2. ASSUME NEW t \in Tenants, NEW sub \in Subs, NEW actor \in Actors,
             NEW content \in Contents, NEW channel \in Channels,
             write(t, sub, actor, content, channel)
      PROVE  TypeInv'
  <2>1. PICK r : r = attempts + 1
    OBVIOUS
  <2>2. PICK env \in Envelope : Wrote(r, t, actor, content, channel, env)
    BY <1>2, <2>1, Written
  <2>10. r \in Records /\ attempts' = r
    BY <1>2, <2>1, Written
  <2>3. rows' \in [Records -> Row \cup {None}]
    BY <1>a, <2>2, <2>10 DEF Wrote, TypeOK, Row
  <2>4. verdicts' \in [Records -> Verdict \cup {None}]
    <3>1. [verdict |-> PENDING, verdict_digest |-> env.content_sha256] \in Verdict
      BY <2>2, Sha256Assumption DEF Wrote, Verdict
    <3> QED
      BY <1>a, <2>2, <2>10, <3>1 DEF Wrote, TypeOK
  <2>5. known' \subseteq Attacks /\ ledger' \in [Attacks -> [{"injected"} \cup Outcome -> Nat]]
    BY <1>a, <2>2, NotedTyped DEF Wrote, Outcome
  <2>6. audit' \in [Tenants -> [{"WRITE", "WRITE_REJECTED", "deleted"} -> Nat]]
    <3>1. PICK e : e = audit[t]
      OBVIOUS
    <3>2. PICK f : f = [e EXCEPT !.WRITE = e.WRITE + 1]
      OBVIOUS
    <3>3. f \in [{"WRITE", "WRITE_REJECTED", "deleted"} -> Nat]
      BY <3>1, <3>2, <1>a DEF TypeOK
    <3>4. audit' = [audit EXCEPT ![t] = f]
      BY <1>2, <1>a, <3>1, <3>2 DEF write, TypeOK
    <3> QED
      BY <1>a, <3>3, <3>4 DEF TypeOK
  <2>7. store' \in [Records -> Record \cup {None}]
    <3>1. [tenant |-> t, sub |-> sub, actor |-> actor, content |-> content] \in Record
      BY DEF Record
    <3>2. store' = [store EXCEPT ![r] =
            [tenant |-> t, sub |-> sub, actor |-> actor, content |-> content]]
      BY <1>2, <2>1 DEF write
    <3> QED
      BY <1>a, <2>10, <3>1, <3>2 DEF TypeOK
  <2>8. origin' \in [Records -> Origin \cup {None}]
    <3>1. [place |-> <<t, actor>>, channel |-> channel, content |-> content] \in Origin
      BY DEF Origin
    <3>2. origin' = [origin EXCEPT ![r] =
            [place |-> <<t, actor>>, channel |-> channel, content |-> content]]
      BY <1>2, <2>1 DEF write
    <3> QED
      BY <1>a, <2>10, <3>1, <3>2 DEF TypeOK
  <2>9. persisted' \subseteq Records /\ attempts' \in 0..writes
    BY <1>2, <1>a, <2>1, <2>10, LabAssumption DEF write, TypeOK, Records
  <2> QED
    BY <1>2, <1>a, <2>3, <2>4, <2>5, <2>6, <2>7, <2>8, <2>9 DEF write, TypeInv, TypeOK
<1>3. CASE EndWrites
  BY <1>3, <1>a DEF EndWrites, TypeInv, TypeOK
<1>4. CASE ProbeDelayed
  <2>1. DOMAIN metrics' = Report
    BY <1>4, <1>a DEF ProbeDelayed
  <2> QED
    BY <1>4, <1>a, <2>1 DEF ProbeDelayed, TypeInv, TypeOK
<1>5. CASE DeepScan
  <2>1. DOMAIN metrics' = Report
    BY <1>5, <1>a DEF DeepScan
  <2>2. verdicts' \in [Records -> Verdict \cup {None}]
    <3>1. ASSUME NEW r \in Stored  PROVE sha256_hex[store[r].content] \in Digests
      BY <1>a, Sha256Assumption, RecordsAssumption DEF Stored, TypeOK, Record
    <3>2. PICK seen : seen = {r \in Stored : Scanned(r)}
      OBVIOUS
    <3>3. verdicts' = [r \in Records |->
            IF r \in seen
            THEN [verdict |-> IF assess(store[r].content) THEN FAILED ELSE CLEARED,
                  verdict_digest |-> sha256_hex[store[r].content]]
            ELSE verdicts[r]]
      BY <1>5, <3>2 DEF DeepScan
    <3> QED
      BY <1>a, <3>1, <3>2, <3>3 DEF TypeOK, Verdict
  <2> QED
    BY <1>5, <1>a, <2>1, <2>2 DEF DeepScan, TypeInv, TypeOK
<1>6. CASE ProbeFinal
  <2>1. DOMAIN metrics' = Report
    BY <1>6, <1>a DEF ProbeFinal
  <2> QED
    BY <1>6, <1>a, <2>1 DEF ProbeFinal, TypeInv, TypeOK
<1>7. ASSUME NEW r \in Records, Tamper(r)  PROVE TypeInv'
  <2>1. DOMAIN metrics' = Report
    BY <1>7, <1>a DEF Tamper
  <2>2. store' \in [Records -> Record \cup {None}]
    <3>1. PICK rec : rec = store[r]
      OBVIOUS
    <3>2. rec \in Record /\ [rec EXCEPT !.content = Altered] \in Record
      BY <1>7, <1>a, <3>1, LabAssumption DEF Tamper, Tamperable, Stored, TypeOK, Record
    <3>3. store' = [store EXCEPT ![r] = [rec EXCEPT !.content = Altered]]
      BY <1>7, <1>a, <3>1 DEF Tamper, TypeOK
    <3> QED
      BY <1>a, <3>2, <3>3 DEF TypeOK
  <2> QED
    BY <1>7, <1>a, <2>1, <2>2 DEF Tamper, TypeInv, TypeOK
<1>8. CASE CrossTenant
  <2>1. DOMAIN metrics' = Report
    BY <1>8, <1>a DEF CrossTenant
  <2> QED
    BY <1>8, <1>a, <2>1 DEF CrossTenant, TypeInv, TypeOK
<1>9. ASSUME NEW t \in Tenants, NEW actor \in Actors, erase_subject(t, actor)  PROVE TypeInv'
  <2>1. PICK gone \in SUBSET Records : erase(t, gone)
    BY <1>9 DEF erase_subject
  <2>2. /\ store' \in [Records -> Record \cup {None}] /\ rows' \in [Records -> Row \cup {None}]
        /\ verdicts' \in [Records -> Verdict \cup {None}]
    BY <1>a, <2>1 DEF erase, Without, TypeOK
  <2>3. audit' \in [Tenants -> [{"WRITE", "WRITE_REJECTED", "deleted"} -> Nat]]
    <3>1. PICK e : e = audit[t]
      OBVIOUS
    <3>2. PICK f : f = [e EXCEPT !.deleted = e.deleted + Cardinality(gone)]
      OBVIOUS
    <3>3. IsFiniteSet(gone) /\ Cardinality(gone) \in Nat
      <4>1. IsFiniteSet(Records)
        BY LabAssumption, FS_Interval DEF Records
      <4> QED
        BY <4>1, FS_Subset, FS_CardinalityType
    <3>4. f \in [{"WRITE", "WRITE_REJECTED", "deleted"} -> Nat]
      BY <3>1, <3>2, <3>3, <1>a DEF TypeOK
    <3>5. audit' = [audit EXCEPT ![t] = f]
      BY <2>1, <1>a, <3>1, <3>2 DEF erase, TypeOK
    <3> QED
      BY <1>a, <3>4, <3>5 DEF TypeOK
  <2>4. DOMAIN metrics' = Report /\ erased' \subseteq Tenants \X Actors
    BY <1>9, <1>a DEF erase_subject
  <2> QED
    BY <1>9, <1>a, <2>2, <2>3, <2>4 DEF erase_subject, TypeInv, TypeOK
<1>10. CASE Sweep
  <2>1. PICK gone \in SUBSET Records : gone = {r \in Records : rows[r] # None /\ expired(rows[r].env, clock + 2)}
    OBVIOUS
  <2>2. /\ store' = Without(store, gone) /\ rows' = Without(rows, gone)
        /\ verdicts' = Without(verdicts, gone)
        /\ audit' = [t \in Tenants |-> [audit[t] EXCEPT !.deleted =
                       @ + Cardinality({r \in gone : rows[r].tenant = t})]]
        /\ DOMAIN metrics' = Report
    BY <1>10, <1>a, <2>1 DEF Sweep
  <2>3. /\ store' \in [Records -> Record \cup {None}] /\ rows' \in [Records -> Row \cup {None}]
        /\ verdicts' \in [Records -> Verdict \cup {None}]
    BY <1>a, <2>2 DEF Without, TypeOK
  <2>4. ASSUME NEW t \in Tenants
        PROVE  audit'[t] \in [{"WRITE", "WRITE_REJECTED", "deleted"} -> Nat]
    <3>1. PICK part \in SUBSET Records : part = {r \in gone : rows[r].tenant = t}
      OBVIOUS
    <3>2. PICK e : e = audit[t]
      OBVIOUS
    <3>3. audit'[t] = [e EXCEPT !.deleted = e.deleted + Cardinality(part)]
      BY <2>2, <3>1, <3>2
    <3>4. Cardinality(part) \in Nat
      <4>1. IsFiniteSet(Records)
        BY LabAssumption, FS_Interval DEF Records
      <4> QED
        BY <4>1, FS_Subset, FS_CardinalityType
    <3> QED
      BY <1>a, <3>2, <3>3, <3>4 DEF TypeOK
  <2>5. audit' \in [Tenants -> [{"WRITE", "WRITE_REJECTED", "deleted"} -> Nat]]
    BY <2>2, <2>4
  <2>6. clock' \in Nat /\ phase' = "done"
    BY <1>10, <1>a DEF Sweep, TypeOK
  <2> QED
    BY <1>10, <1>a, <2>2, <2>3, <2>5, <2>6 DEF Sweep, TypeInv, TypeOK
<1>11. CASE NotEnabled
  BY <1>11, <1>a DEF NotEnabled, TypeInv, TypeOK
<1>12. CASE UNCHANGED vars
  BY <1>12, <1>a DEF vars, TypeInv, TypeOK
<1> QED
  BY <1>1, <1>2, <1>3, <1>4, <1>5, <1>6, <1>7, <1>8, <1>9, <1>10, <1>11, <1>12 DEF Next, Done

\* Tables and books keep their shapes through all phases of the lab.
THEOREM LabTypeCorrect == Spec => []TypeOK
<1>1. TypeInv => TypeOK
  BY DEF TypeInv
<1> QED
  BY <1>1, TypeInit, TypeStep, PTL DEF Spec

-----------------------------------------------------------------------------
(* What holds of each record, from the phase it was written in to the end. *)

\* The phases before anything is deleted, and those before the deep scan.
Whole     == {"write", "probe", "l2", "final", "tamper", "erase"}
Unscanned == {"write", "probe", "l2"}

\* What the scenario remembers of a write is what was asked for.
OriginInv(r) ==
  /\ r > attempts => origin[r] = None
  /\ origin[r] = None => r \notin persisted /\ r \notin tampered /\ rows[r] = None
  /\ origin[r] # None => (r \in persisted <=> origin[r].content \in Attacks)
  /\ r \in persisted => origin[r].channel \in UNTRUSTED_CHANNELS /\ origin[r].content \in known

\* A record, its envelope and its verdict come and go together.
TablesInv(r) ==
  /\ store[r] # None <=> rows[r] # None
  /\ verdicts[r] # None => rows[r] # None

\* The envelope says what the write asked for, and only an envelope of the first
\* party is left without its content.
RowInv(r) ==
  rows[r] # None =>
    /\ <<rows[r].tenant, rows[r].actor>> = origin[r].place
    /\ store[r].tenant = rows[r].tenant
    /\ rows[r].env.trust_tier = tier_for_channel(origin[r].channel)
    /\ rows[r].env.content_sha256 = sha256_hex[origin[r].content]
    /\ rows[r].env.expires_at_epoch \in Nat \ {0}
    /\ rows[r].env.expires_at_epoch <= 2 <=> origin[r].channel = "web_fetch"
    /\ r \notin tampered => store[r].content = origin[r].content
    /\ r \in tampered => rows[r].env.trust_tier = FIRST_PARTY

\* No verdict clears an attack, and the scan has left a verdict on everything of
\* an untrusted or derived tier.
VerdictInv(r) ==
  /\ r \in persisted /\ verdicts[r] # None => verdicts[r].verdict # CLEARED
  /\ /\ "l2" \in features /\ phase \notin Unscanned /\ rows[r] # None
     /\ rows[r].env.trust_tier \in scan_tiers /\ r \notin persisted
     => cleared(r)

\* What has been deleted, by phase.
Gone(r) ==
  \/ origin[r].place \in erased
  \/ "sweep" \in features /\ origin[r].channel = "web_fetch"

FateInv(r) ==
  origin[r] # None =>
    /\ phase \in Whole => rows[r] # None
    /\ phase = "sweep" => (rows[r] = None <=> origin[r].place \in erased)
    /\ phase = "done" => (rows[r] = None <=> Gone(r))

RecordInv(r) == OriginInv(r) /\ TablesInv(r) /\ RowInv(r) /\ VerdictInv(r) /\ FateInv(r)

RecordsInv ==
  /\ phase \in Whole => erased = {}
  /\ \A r \in Records : RecordInv(r)

LEMMA RecordsInit == Init => RecordsInv
<1> SUFFICES ASSUME Init  PROVE RecordsInv
  OBVIOUS
<1>1. ASSUME NEW r \in Records  PROVE RecordInv(r)
  BY <1>1 DEF Init, RecordInv, OriginInv, TablesInv, RowInv, VerdictInv, FateInv
<1> QED
  BY <1>1 DEF Init, RecordsInv

\* A step that leaves a record, its tables and its past alone, and goes to a phase
\* where nothing more is promised of it.
LEMMA RecordStays ==
  ASSUME NEW r \in Records, RecordInv(r),
         /\ store'[r] = store[r] /\ rows'[r] = rows[r] /\ verdicts'[r] = verdicts[r]
         /\ origin'[r] = origin[r]
         /\ r \in persisted' <=> r \in persisted
         /\ r \in tampered' <=> r \in tampered
         /\ known \subseteq known' /\ features' = features,
         r > attempts' => r > attempts,
         "l2" \in features /\ phase' \notin Unscanned => phase \notin Unscanned,
         phase \in Whole, phase' \in Whole
  PROVE  RecordInv(r)'
<1>1. OriginInv(r)'
  BY DEF RecordInv, OriginInv
<1>2. TablesInv(r)'
  BY DEF RecordInv, TablesInv
<1>3. RowInv(r)'
  BY DEF RecordInv, RowInv
<1>4. VerdictInv(r)'
  BY DEF RecordInv, VerdictInv, cleared
<1>5. FateInv(r)'
  BY DEF RecordInv, FateInv, Whole
<1> QED
  BY <1>1, <1>2, <1>3, <1>4, <1>5 DEF RecordInv

LEMMA NoneFacts == None \notin Record /\ None \notin Row /\ None \notin Verdict /\ None \notin Origin
BY RecordsAssumption

\* The new record of write().
LEMMA WriteMakesRecord ==
  ASSUME TypeInv, RecordsInv, NEW t \in Tenants, NEW sub \in Subs, NEW actor \in Actors,
         NEW content \in Contents, NEW channel \in Channels,
         write(t, sub, actor, content, channel), NEW r, r = attempts + 1
  PROVE  r \in Records /\ RecordInv(r)'
<1>1. PICK env \in Envelope : Wrote(r, t, actor, content, channel, env)
  BY Written
<1>2. r \in Records /\ attempts' = r
  BY Written
<1>3. PICK rec : rec = [tenant |-> t, sub |-> sub, actor |-> actor, content |-> content]
  OBVIOUS
<1>4. PICK org : org = [place |-> <<t, actor>>, channel |-> channel, content |-> content]
  OBVIOUS
<1>5. PICK row : row = [tenant |-> t, actor |-> actor, env |-> env]
  OBVIOUS
<1>6. rec \in Record /\ org \in Origin /\ row \in Row
  BY <1>3, <1>4, <1>5 DEF Record, Origin, Row
<1>7. rec # None /\ org # None /\ row # None
  BY <1>6, NoneFacts
<1>8. /\ store \in [Records -> Record \cup {None}] /\ rows \in [Records -> Row \cup {None}]
      /\ verdicts \in [Records -> Verdict \cup {None}] /\ origin \in [Records -> Origin \cup {None}]
      /\ attempts \in Nat
  BY LabAssumption DEF TypeInv, TypeOK
<1>9. /\ store'[r] = rec /\ origin'[r] = org /\ rows'[r] = row
      /\ persisted' = IF content \in Attacks THEN persisted \cup {r} ELSE persisted
      /\ tampered' = tampered /\ phase' = "write" /\ Drawn(content, channel)
  BY <1>1, <1>2, <1>3, <1>4, <1>5, <1>8 DEF write, Wrote
<1>10. verdicts'[r] = IF env.quarantined
                      THEN [verdict |-> PENDING, verdict_digest |-> env.content_sha256] ELSE None
  BY <1>1, <1>2, <1>8 DEF Wrote
<1>11. r \notin persisted /\ r \notin tampered
  BY <1>2, <1>8 DEF RecordsInv, RecordInv, OriginInv
<1>12. content \in Attacks => channel \in UNTRUSTED_CHANNELS /\ content \in known'
  BY <1>1, <1>9, LabAssumption DEF Drawn, Wrote, Noted
<1>13. OriginInv(r)'
  BY <1>2, <1>4, <1>7, <1>8, <1>9, <1>11, <1>12 DEF OriginInv
<1>14. TablesInv(r)'
  BY <1>7, <1>9 DEF TablesInv
<1>15. RowInv(r)'
  BY <1>1, <1>3, <1>4, <1>5, <1>9, <1>11 DEF RowInv, Wrote
<1>16. VerdictInv(r)'
  BY <1>9, <1>10 DEF VerdictInv, Unscanned, PENDING, CLEARED
<1>17. FateInv(r)'
  BY <1>7, <1>9 DEF FateInv, Whole
<1> QED
  BY <1>2, <1>13, <1>14, <1>15, <1>16, <1>17 DEF RecordInv

LEMMA RecordsStep == TypeInv /\ RecordsInv /\ [Next]_vars => RecordsInv'
<1> SUFFICES ASSUME TypeInv, RecordsInv, [Next]_vars  PROVE RecordsInv'
  OBVIOUS
<1> USE DEF data, books, history
<1>a. /\ store \in [Records -> Record \cup {None}] /\ rows \in [Records -> Row \cup {None}]
      /\ verdicts \in [Records -> Verdict \cup {None}] /\ origin \in [Records -> Origin \cup {None}]
      /\ attempts \in Nat /\ known \subseteq Attacks /\ Records \subseteq Nat
      /\ phase # "done" => clock = 0
  BY LabAssumption DEF TypeInv, TypeOK, Records
<1>b. \A r \in Records : RecordInv(r)
  BY DEF RecordsInv
<1>c. phase \in Whole => erased = {}
  BY DEF RecordsInv
<1>1. ASSUME NEW t \in Tenants, NEW content \in Contents, NEW channel \in Channels,
             WriteRejected(t, content, channel)
      PROVE  RecordsInv'
  <2>1. ASSUME NEW r \in Records  PROVE RecordInv(r)'
    BY <1>1, <1>a, <1>b, RecordStays DEF WriteRejected, Noted, Whole
  <2> QED
    BY <1>1, <1>c, <2>1 DEF RecordsInv, WriteRejected, Whole
<1>2. ASSUME NEW t \in Tenants, NEW sub \in Subs, NEW actor \in Actors,
             NEW content \in Contents, NEW channel \in Channels,
             write(t, sub, actor, content, channel)
      PROVE  RecordsInv'
  <2>1. PICK q : q = attempts + 1
    OBVIOUS
  <2>2. q \in Records /\ RecordInv(q)'
    BY <1>2, <2>1, WriteMakesRecord
  <2>3. ASSUME NEW r \in Records, r # q  PROVE RecordInv(r)'
    <3>1. PICK env \in Envelope : Wrote(q, t, actor, content, channel, env)
      BY <1>2, <2>1, Written
    <3>2. /\ store'[r] = store[r] /\ rows'[r] = rows[r] /\ verdicts'[r] = verdicts[r]
          /\ origin'[r] = origin[r]
      BY <1>2, <1>a, <2>1, <2>3, <3>1 DEF write, Wrote
    <3>3. /\ r \in persisted' <=> r \in persisted
          /\ tampered' = tampered /\ features' = features /\ phase = "write" /\ phase' = "write"
          /\ attempts' = attempts + 1
      BY <1>2, <2>1, <2>3 DEF write
    <3>4. known \subseteq known'
      BY <3>1 DEF Wrote, Noted
    <3> QED
      BY <1>a, <1>b, <3>2, <3>3, <3>4, RecordStays DEF Whole
  <2> QED
    BY <1>2, <1>c, <2>2, <2>3 DEF RecordsInv, write, Whole
<1>3. CASE EndWrites
  BY <1>3, <1>b, <1>c, RecordStays DEF EndWrites, RecordsInv, Whole, Unscanned
<1>4. CASE ProbeDelayed
  BY <1>4, <1>b, <1>c, RecordStays DEF ProbeDelayed, RecordsInv, Whole, Unscanned
<1>5. CASE DeepScan
  <2>1. ASSUME NEW r \in Records  PROVE RecordInv(r)'
    <3>1. PICK scope : scope = {q \in Stored : Scanned(q)}
      OBVIOUS
    <3>2. RecordInv(r)
      BY <1>b
    <3>3. /\ phase = "l2" /\ phase' = "final" /\ features' = features
          /\ tampered' = tampered /\ store' = store
          /\ rows' = rows /\ origin' = origin /\ attempts' = attempts
          /\ persisted' = persisted /\ known' = known
      BY <1>5 DEF DeepScan
    <3>4. r \in scope <=> Scanned(r)
      BY <3>1, <3>2 DEF Stored, Scanned, RecordInv, TablesInv
    <3>5. verdicts'[r] =
            IF r \in scope
            THEN [verdict |-> IF assess(store[r].content) THEN FAILED ELSE CLEARED,
                  verdict_digest |-> sha256_hex[store[r].content]]
            ELSE verdicts[r]
      BY <1>5, <3>1 DEF DeepScan
    <3>6. OriginInv(r)' /\ RowInv(r)' /\ FateInv(r)'
      BY <3>2, <3>3 DEF RecordInv, OriginInv, RowInv, FateInv, Gone, Whole
    <3>7. CASE ~Scanned(r)
      <4>1. verdicts'[r] = verdicts[r]
        BY <3>4, <3>5, <3>7
      <4>2. TablesInv(r)'
        BY <3>2, <3>3, <4>1 DEF RecordInv, TablesInv
      <4>3. VerdictInv(r)'
        BY <3>2, <3>3, <3>7, <4>1 DEF RecordInv, VerdictInv, Scanned
      <4> QED
        BY <3>6, <4>2, <4>3 DEF RecordInv
    <3>8. CASE Scanned(r)
      <4>1. /\ rows[r] # None /\ rows[r].env.trust_tier # FIRST_PARTY /\ origin[r] # None
        BY <3>2, <3>8 DEF RecordInv, OriginInv, Scanned, scan_tiers, UNTRUSTED, DERIVED, FIRST_PARTY
      <4>2. PICK content : content = origin[r].content
        OBVIOUS
      <4>3. store[r].content = content /\ rows[r].env.content_sha256 = sha256_hex[content]
        BY <3>2, <4>1, <4>2 DEF RecordInv, RowInv
      <4>4. content \in Attacks <=> r \in persisted
        BY <3>2, <4>1, <4>2 DEF RecordInv, OriginInv
      <4>5. assess(content) <=> r \in persisted
        BY <1>a, <3>2, <4>2, <4>4 DEF RecordInv, OriginInv, assess
      <4>6. PICK found : found = [verdict |-> IF r \in persisted THEN FAILED ELSE CLEARED,
                                  verdict_digest |-> sha256_hex[content]]
        OBVIOUS
      <4>7. found # None /\ found.verdict = (IF r \in persisted THEN FAILED ELSE CLEARED)
            /\ found.verdict_digest = sha256_hex[content]
        <5>1. content \in Contents
          BY <1>a, <4>1, <4>2 DEF Origin
        <5>2. found \in Verdict
          BY <4>6, <5>1, Sha256Assumption DEF Verdict
        <5> QED
          BY <4>6, <5>2, NoneFacts
      <4>8. verdicts'[r] = found
        BY <3>4, <3>5, <3>8, <4>3, <4>5, <4>6
      <4>9. TablesInv(r)'
        BY <3>2, <3>3, <4>1 DEF RecordInv, TablesInv
      <4>10. VerdictInv(r)'
        BY <3>3, <4>3, <4>7, <4>8 DEF VerdictInv, cleared, CLEARED, FAILED
      <4> QED
        BY <3>6, <4>9, <4>10 DEF RecordInv
    <3> QED
      BY <3>7, <3>8
  <2> QED
    BY <1>5, <1>c, <2>1 DEF RecordsInv, DeepScan, Whole
<1>6. CASE ProbeFinal
  BY <1>6, <1>b, <1>c, RecordStays DEF ProbeFinal, RecordsInv, Whole, Unscanned
<1>7. ASSUME NEW q \in Records, Tamper(q)  PROVE RecordsInv'
  <2>1. /\ phase = "tamper" /\ phase' = "tamper" /\ tampered' = tampered \cup {q}
        /\ rows' = rows /\ verdicts' = verdicts /\ origin' = origin /\ attempts' = attempts
        /\ persisted' = persisted /\ known' = known /\ features' = features /\ erased' = erased
        /\ store[q] # None /\ rows[q] # None /\ rows[q].env.trust_tier >= FIRST_PARTY
    BY <1>7 DEF Tamper, Tamperable, Stored
  <2>2. ASSUME NEW r \in Records, r # q  PROVE RecordInv(r)'
    <3>1. store'[r] = store[r]
      BY <1>7, <1>a, <2>2 DEF Tamper
    <3> QED
      BY <1>b, <2>1, <2>2, <3>1, RecordStays DEF Whole
  <2>3. RecordInv(q)'
    <3>1. RecordInv(q)
      BY <1>b
    <3>2. PICK rec : rec = store[q]
      OBVIOUS
    <3>3. rec \in Record /\ rec # None
      BY <1>a, <2>1, <3>2
    <3>4. PICK changed : changed = [rec EXCEPT !.content = Altered]
      OBVIOUS
    <3>5. changed \in Record /\ changed # None /\ changed.tenant = rec.tenant
      <4>1. changed \in Record /\ changed.tenant = rec.tenant
        BY <3>3, <3>4, LabAssumption DEF Record
      <4> QED
        BY <4>1, NoneFacts
    <3>6. store'[q] = changed
      BY <1>7, <1>a, <3>2, <3>4 DEF Tamper
    <3>7. rows[q].env.trust_tier = FIRST_PARTY
      <4>1. origin[q] # None
        BY <2>1, <3>1 DEF RecordInv, OriginInv
      <4>2. origin[q].channel \in Channels
        BY <1>a, <4>1 DEF Origin
      <4>3. rows[q].env.trust_tier = tier_for_channel(origin[q].channel)
        BY <2>1, <3>1 DEF RecordInv, RowInv
      <4> QED
        BY <2>1, <4>2, <4>3, TierFacts DEF UNTRUSTED, DERIVED, FIRST_PARTY
    <3>8. OriginInv(q)'
      BY <2>1, <3>1 DEF RecordInv, OriginInv
    <3>9. TablesInv(q)'
      BY <2>1, <3>1, <3>5, <3>6 DEF RecordInv, TablesInv
    <3>10. RowInv(q)'
      BY <2>1, <3>1, <3>2, <3>5, <3>6, <3>7 DEF RecordInv, RowInv
    <3>11. VerdictInv(q)'
      BY <2>1, <3>1 DEF RecordInv, VerdictInv, cleared
    <3>12. FateInv(q)'
      BY <2>1, <3>1 DEF RecordInv, FateInv, Gone
    <3> QED
      BY <3>8, <3>9, <3>10, <3>11, <3>12 DEF RecordInv
  <2> QED
    BY <1>c, <2>1, <2>2, <2>3 DEF RecordsInv, Whole
<1>8. CASE CrossTenant
  BY <1>8, <1>b, <1>c, RecordStays DEF CrossTenant, RecordsInv, Whole, Unscanned
<1>9. ASSUME NEW t \in Tenants, NEW actor \in Actors, erase_subject(t, actor)  PROVE RecordsInv'
  <2>1. PICK gone : gone = {r \in Records : rows[r] # None /\ rows[r].tenant = t /\ rows[r].actor = actor}
    OBVIOUS
  <2>2. /\ phase = "erase" /\ phase' = "sweep" /\ erased' = {<<t, actor>>} /\ features' = features
        /\ store' = Without(store, gone) /\ rows' = Without(rows, gone)
        /\ verdicts' = Without(verdicts, gone)
        /\ tampered' = tampered /\ origin' = origin /\ attempts' = attempts
        /\ persisted' = persisted /\ known' = known
    BY <1>9, <2>1 DEF erase_subject, erase
  <2>3. ASSUME NEW r \in Records  PROVE RecordInv(r)'
    <3>1. RecordInv(r)
      BY <1>b
    <3>2. /\ store'[r] = (IF r \in gone THEN None ELSE store[r])
          /\ rows'[r] = (IF r \in gone THEN None ELSE rows[r])
          /\ verdicts'[r] = (IF r \in gone THEN None ELSE verdicts[r])
      BY <2>2 DEF Without
    <3>3. OriginInv(r)' /\ TablesInv(r)' /\ RowInv(r)'
      BY <2>2, <3>1, <3>2 DEF RecordInv, OriginInv, TablesInv, RowInv
    <3>4. VerdictInv(r)'
      BY <2>2, <3>1, <3>2 DEF RecordInv, VerdictInv, cleared, Unscanned
    <3>5. FateInv(r)'
      <4>1. origin[r] # None => rows[r] # None
        BY <2>2, <3>1 DEF RecordInv, FateInv, Whole
      <4>2. origin[r] # None => (r \in gone <=> origin[r].place = <<t, actor>>)
        BY <2>1, <3>1, <4>1 DEF RecordInv, RowInv
      <4> QED
        BY <2>2, <3>2, <4>1, <4>2 DEF FateInv, Whole
    <3> QED
      BY <3>3, <3>4, <3>5 DEF RecordInv
  <2> QED
    BY <2>2, <2>3 DEF RecordsInv, Whole
<1>10. CASE Sweep
  <2>1. PICK gone : gone = {r \in Records : rows[r] # None /\ expired(rows[r].env, 2)}
    OBVIOUS
  <2>2. clock + 2 = 2
    BY <1>10, <1>a DEF Sweep
  <2>3. /\ phase = "sweep" /\ phase' = "done" /\ erased' = erased
        /\ features' = features /\ "sweep" \in features
        /\ store' = Without(store, gone) /\ rows' = Without(rows, gone)
        /\ verdicts' = Without(verdicts, gone)
        /\ tampered' = tampered /\ origin' = origin /\ attempts' = attempts
        /\ persisted' = persisted /\ known' = known
    BY <1>10, <2>1, <2>2 DEF Sweep
  <2>4. ASSUME NEW r \in Records  PROVE RecordInv(r)'
    <3>1. RecordInv(r)
      BY <1>b
    <3>2. /\ store'[r] = (IF r \in gone THEN None ELSE store[r])
          /\ rows'[r] = (IF r \in gone THEN None ELSE rows[r])
          /\ verdicts'[r] = (IF r \in gone THEN None ELSE verdicts[r])
      BY <2>3 DEF Without
    <3>3. OriginInv(r)' /\ TablesInv(r)' /\ RowInv(r)'
      BY <2>3, <3>1, <3>2 DEF RecordInv, OriginInv, TablesInv, RowInv
    <3>4. VerdictInv(r)'
      BY <2>3, <3>1, <3>2 DEF RecordInv, VerdictInv, cleared, Unscanned
    <3>5. FateInv(r)'
      <4>1. rows[r] # None => (r \in gone <=> origin[r].channel = "web_fetch")
        BY <2>1, <3>1, NoneAssumption DEF RecordInv, RowInv, expired
      <4>2. origin[r] # None => (rows[r] = None <=> origin[r].place \in erased)
        BY <2>3, <3>1 DEF RecordInv, FateInv
      <4> QED
        BY <2>3, <3>2, <4>1, <4>2 DEF FateInv, Gone, Whole
    <3> QED
      BY <3>3, <3>4, <3>5 DEF RecordInv
  <2> QED
    BY <2>3, <2>4 DEF RecordsInv, Whole
<1>11. CASE NotEnabled
  <2>1. ASSUME NEW r \in Records  PROVE RecordInv(r)'
    <3>1. RecordInv(r)
      BY <1>b
    <3>2. OriginInv(r)' /\ TablesInv(r)' /\ RowInv(r)'
      BY <1>11, <3>1 DEF NotEnabled, RecordInv, OriginInv, TablesInv, RowInv
    <3>3. VerdictInv(r)'
      BY <1>11, <3>1 DEF NotEnabled, RecordInv, VerdictInv, cleared, Unscanned
    <3>4. FateInv(r)'
      <4>1. CASE phase = "erase" /\ phase' = "sweep"
        BY <1>11, <1>c, <3>1, <4>1 DEF NotEnabled, RecordInv, FateInv, Whole
      <4>2. CASE phase = "sweep" /\ "sweep" \notin features /\ phase' = "done"
        BY <1>11, <3>1, <4>2 DEF NotEnabled, RecordInv, FateInv, Gone, Whole
      <4> QED
        BY <1>11, <4>1, <4>2 DEF NotEnabled
    <3> QED
      BY <3>2, <3>3, <3>4 DEF RecordInv
  <2> QED
    BY <1>11, <1>c, <2>1 DEF RecordsInv, NotEnabled, Whole
<1>12. CASE UNCHANGED vars
  <2>1. ASSUME NEW r \in Records  PROVE RecordInv(r)'
    BY <1>12, <1>b DEF vars, RecordInv, OriginInv, TablesInv, RowInv, VerdictInv, FateInv, cleared, Gone
  <2> QED
    BY <1>12, <1>c, <2>1 DEF vars, RecordsInv
<1> QED
  BY <1>1, <1>2, <1>3, <1>4, <1>5, <1>6, <1>7, <1>8, <1>9, <1>10, <1>11, <1>12 DEF Next, Done

LEMMA RecordsAlways == Spec => [](TypeInv /\ RecordsInv)
BY TypeInit, TypeStep, RecordsInit, RecordsStep, PTL DEF Spec

-----------------------------------------------------------------------------
(* Attacks.                                                                *)

LEMMA AttackRefused ==
  ASSUME TypeInv, RecordsInv, NEW r \in persisted  PROVE ~admit(r)
<1>1. r \in Records /\ RecordInv(r)
  BY DEF TypeInv, TypeOK, RecordsInv
<1>2. CASE rows[r] = None
  BY <1>2 DEF admit
<1>3. CASE rows[r] # None
  <2>1. origin[r] # None /\ origin[r].channel \in UNTRUSTED_CHANNELS
    BY <1>1 DEF RecordInv, OriginInv
  <2>2. rows[r].env.trust_tier = UNTRUSTED
    BY <1>1, <1>3, <2>1, TierFacts DEF RecordInv, RowInv
  <2>3. ~cleared(r)
    BY <1>1 DEF RecordInv, VerdictInv, cleared
  <2> QED
    BY <2>2, <2>3 DEF admit, min_tier, UNTRUSTED, FIRST_PARTY
<1> QED
  BY <1>2, <1>3

\* A probe that asks for the attacks gets none of them.
LEMMA NoHits ==
  ASSUME TypeInv, RecordsInv, NEW hits, attack_admitted(hits)  PROVE hits = 0
<1>1. PICK back \in SUBSET persisted : (\A r \in back : admit(r)) /\ hits = Cardinality(back)
  BY DEF attack_admitted
<1>2. back = {}
  BY <1>1, AttackRefused
<1> QED
  BY <1>1, <1>2, FS_EmptySet

ReportInv == metrics.delayed = 0 /\ metrics.final = 0

LEMMA ReportInit == Init => ReportInv
BY DEF Init, NoMetrics, ReportInv

LEMMA ReportStep == TypeInv /\ RecordsInv /\ ReportInv /\ [Next]_vars => ReportInv'
<1> SUFFICES ASSUME TypeInv, RecordsInv, ReportInv, [Next]_vars  PROVE ReportInv'
  OBVIOUS
<1> USE DEF data, books, history
<1>a. DOMAIN metrics = Report
  BY DEF TypeInv
<1>1. CASE ProbeDelayed
  <2>1. PICK hits : attack_admitted(hits) /\ metrics' = [metrics EXCEPT !.delayed = hits]
    BY <1>1 DEF ProbeDelayed
  <2>2. hits = 0
    BY <2>1, NoHits
  <2> QED
    BY <1>a, <2>1, <2>2 DEF ReportInv, Report
<1>2. CASE ProbeFinal
  <2>1. PICK hits : attack_admitted(hits) /\ metrics' =
          [metrics EXCEPT !.final = hits, !.tamper = IF "tamper" \in features THEN FALSE ELSE None]
    BY <1>2 DEF ProbeFinal
  <2>2. hits = 0
    BY <2>1, NoHits
  <2>3. metrics'.final = hits /\ metrics'.delayed = metrics.delayed
    BY <1>a, <2>1 DEF Report
  <2> QED
    BY <2>2, <2>3 DEF ReportInv
<1>3. CASE DeepScan
  <2>1. metrics'.final = metrics.final /\ metrics'.delayed = metrics.delayed
    BY <1>3, <1>a DEF DeepScan, Report
  <2> QED
    BY <2>1 DEF ReportInv
<1>4. ASSUME NEW r \in Records, Tamper(r)  PROVE ReportInv'
  <2>1. metrics'.final = metrics.final /\ metrics'.delayed = metrics.delayed
    BY <1>4, <1>a DEF Tamper, Report
  <2> QED
    BY <2>1 DEF ReportInv
<1>5. CASE CrossTenant
  <2>1. metrics'.final = metrics.final /\ metrics'.delayed = metrics.delayed
    BY <1>5, <1>a DEF CrossTenant, Report
  <2> QED
    BY <2>1 DEF ReportInv
<1>6. ASSUME NEW t \in Tenants, NEW actor \in Actors, erase_subject(t, actor)  PROVE ReportInv'
  <2>1. metrics'.final = metrics.final /\ metrics'.delayed = metrics.delayed
    BY <1>6, <1>a DEF erase_subject, Report
  <2> QED
    BY <2>1 DEF ReportInv
<1>7. CASE Sweep
  <2>1. metrics'.final = metrics.final /\ metrics'.delayed = metrics.delayed
    BY <1>7, <1>a DEF Sweep, Report
  <2> QED
    BY <2>1 DEF ReportInv
<1>8. ASSUME NEW t \in Tenants, NEW content \in Contents, NEW channel \in Channels,
             WriteRejected(t, content, channel)
      PROVE  ReportInv'
  BY <1>8 DEF WriteRejected, ReportInv
<1>9. ASSUME NEW t \in Tenants, NEW sub \in Subs, NEW actor \in Actors,
             NEW content \in Contents, NEW channel \in Channels,
             write(t, sub, actor, content, channel)
      PROVE  ReportInv'
  BY <1>9 DEF write, ReportInv
<1>10. CASE EndWrites \/ NotEnabled \/ UNCHANGED vars
  BY <1>10 DEF EndWrites, NotEnabled, vars, ReportInv
<1> QED
  BY <1>1, <1>2, <1>3, <1>4, <1>5, <1>6, <1>7, <1>8, <1>9, <1>10 DEF Next, Done

\* lab.py:12-13: at no moment of a scenario, before or after the scan, tampering,
\* erasure or sweep, do the gates admit a record that holds an attack, so both
\* probes of the report count none.
THEOREM NoAttackEverAdmissible == Spec => []NoAttackAdmissible
<1>1. TypeInv /\ RecordsInv /\ ReportInv => NoAttackAdmissible
  <2> SUFFICES ASSUME TypeInv, RecordsInv, ReportInv  PROVE NoAttackAdmissible
    OBVIOUS
  <2>1. \A r \in persisted \cap Stored : ~admit(r)
    BY AttackRefused
  <2> QED
    BY <2>1 DEF NoAttackAdmissible, ReportInv
<1> QED
  BY <1>1, TypeInit, TypeStep, RecordsInit, RecordsStep, ReportInit, ReportStep, PTL DEF Spec

-----------------------------------------------------------------------------
(* Everybody else.                                                         *)

\* lab.py:292: once the deep scan is through, a record that is no attack and was
\* left alone is admitted, unless its day is over or L1 quarantined it in
\* first-party hands, where the scan does not look.
THEOREM BenignStaysAvailable == Spec => []BenignAvailable
<1>1. TypeInv /\ RecordsInv => BenignAvailable
  <2> SUFFICES ASSUME TypeInv, RecordsInv, "l2" \in features, phase \notin {"write", "probe", "l2"},
                      NEW r \in Stored \ (persisted \cup tampered), ~expired(rows[r].env, clock),
                      ~(rows[r].env.quarantined /\ rows[r].env.trust_tier = FIRST_PARTY)
               PROVE  admit(r)
    BY DEF BenignAvailable
  <2>1. r \in Records /\ RecordInv(r) /\ rows[r] # None
    BY DEF Stored, RecordsInv, RecordInv, TablesInv
  <2>2. PICK org : org = origin[r]
    OBVIOUS
  <2>3. org \in Origin
    BY <2>1, <2>2 DEF RecordInv, OriginInv, TypeInv, TypeOK
  <2>4. rows[r].env.trust_tier \in {UNTRUSTED, DERIVED, FIRST_PARTY}
    BY <2>1, <2>2, <2>3, TierFacts DEF RecordInv, RowInv, Origin
  <2>5. verify_integrity(rows[r].env, store[r].content)
    BY <2>1 DEF RecordInv, RowInv, verify_integrity
  <2>6. CASE rows[r].env.trust_tier \in scan_tiers
    <3>1. cleared(r)
      BY <2>1, <2>6 DEF RecordInv, VerdictInv, Unscanned
    <3> QED
      BY <2>1, <2>5, <3>1 DEF admit
  <2>7. CASE rows[r].env.trust_tier = FIRST_PARTY
    BY <2>1, <2>5, <2>7 DEF admit, min_tier, FIRST_PARTY
  <2> QED
    BY <2>4, <2>6, <2>7 DEF scan_tiers
<1> QED
  BY <1>1, RecordsAlways, PTL

\* What is missing at the end is what the erasure of the one subject and the sweep
\* of what came from the web account for, and nothing else (policy.py:102).
THEOREM SurvivorsAsStated == Spec => []Survivors
<1>1. TypeInv /\ RecordsInv => Survivors
  BY DEF RecordsInv, RecordInv, FateInv, TablesInv, Survivors, Stored, Gone
<1> QED
  BY <1>1, RecordsAlways, PTL

-----------------------------------------------------------------------------
(* The books.                                                              *)

LEMMA RecordsFinite == \A S \in SUBSET Records : IsFiniteSet(S) /\ Cardinality(S) \in Nat
<1>1. IsFiniteSet(Records)
  BY LabAssumption, FS_Interval DEF Records
<1> QED
  BY <1>1, FS_Subset, FS_CardinalityType

\* A set of records from which a later one differs in one new record at most.
LEMMA OneMore ==
  ASSUME NEW S \in SUBSET Records, NEW T \in SUBSET Records, NEW r \in Records, r \notin S,
         \A q \in Records : q # r => (q \in T <=> q \in S)
  PROVE  Cardinality(T) = IF r \in T THEN Cardinality(S) + 1 ELSE Cardinality(S)
<1>1. CASE r \in T
  <2>1. T = S \cup {r}
    BY <1>1
  <2> QED
    BY <1>1, <2>1, RecordsFinite, FS_AddElement
<1>2. CASE r \notin T
  <2>1. T = S
    BY <1>2
  <2> QED
    BY <1>2, <2>1
<1> QED
  BY <1>1, <1>2

LEMMA SoManyLess ==
  ASSUME NEW S \in SUBSET Records, NEW G \in SUBSET S
  PROVE  Cardinality(S) = Cardinality(S \ G) + Cardinality(G)
<1>1. IsFiniteSet(S) /\ IsFiniteSet(G)
  BY RecordsFinite
<1>2. Cardinality(S \ G) = Cardinality(S) - Cardinality(S \cap G)
  BY <1>1, FS_Difference
<1>3. S \cap G = G
  OBVIOUS
<1>4. PICK s \in Nat, g \in Nat : s = Cardinality(S) /\ g = Cardinality(G)
  BY RecordsFinite
<1>5. Cardinality(S \ G) = s - g
  BY <1>2, <1>3, <1>4
<1> QED
  BY <1>4, <1>5

PersistedOf(a) == {r \in persisted \cap Stored : origin[r].content = a}

LedgerInv ==
  \A a \in Attacks :
    /\ ledger[a].injected =
         ledger[a].blocked_at_write + ledger[a].quarantined + ledger[a].persisted_held
    /\ phase \in Whole =>
         Cardinality(PersistedOf(a)) = ledger[a].quarantined + ledger[a].persisted_held

AccountsInv == \A t \in Tenants : audit[t].WRITE = Cardinality(Of(t)) + audit[t].deleted

LEMMA BooksInit == Init => LedgerInv /\ AccountsInv
<1> SUFFICES ASSUME Init  PROVE LedgerInv /\ AccountsInv
  OBVIOUS
<1>1. \A a \in Attacks : PersistedOf(a) = {}
  BY DEF Init, PersistedOf
<1>2. \A t \in Tenants : Of(t) = {}
  <2>1. Stored = {}
    BY DEF Init, Stored
  <2> QED
    BY <2>1 DEF Of
<1>3. \A a \in Attacks : Cardinality(PersistedOf(a)) = 0
  BY <1>1, FS_EmptySet
<1>4. \A t \in Tenants : Cardinality(Of(t)) = 0
  BY <1>2, FS_EmptySet
<1>5. LedgerInv
  BY <1>3 DEF Init, LedgerInv
<1>6. AccountsInv
  BY <1>4 DEF Init, AccountsInv
<1> QED
  BY <1>5, <1>6

\* Booking an attack: one more injected, and one more of its outcome.
LEMMA NotedBooks ==
  ASSUME TypeOK, NEW content \in Contents, NEW outcome \in Outcome, Noted(content, outcome),
         NEW a \in Attacks
  PROVE  /\ ledger[a] \in [{"injected"} \cup Outcome -> Nat]
         /\ a # content => ledger'[a] = ledger[a]
         /\ a = content =>
              ledger'[a] = [o \in {"injected"} \cup Outcome |->
                              IF o \in {"injected", outcome} THEN ledger[a][o] + 1 ELSE ledger[a][o]]
<1>1. PICK e \in [{"injected"} \cup Outcome -> Nat] : e = ledger[a]
  BY DEF TypeOK
<1>2. CASE a # content
  BY <1>1, <1>2 DEF Noted, TypeOK
<1>3. CASE a = content
  <2>1. PICK f : f = [[e EXCEPT !.injected = e.injected + 1] EXCEPT ![outcome] = e[outcome] + 1]
    OBVIOUS
  <2>2. ledger' = [ledger EXCEPT ![content] = f]
    BY <1>1, <1>3, <2>1 DEF Noted, TypeOK, Outcome
  <2>3. ledger'[a] = f
    BY <1>3, <2>2 DEF TypeOK
  <2>4. f = [o \in {"injected"} \cup Outcome |-> IF o \in {"injected", outcome} THEN e[o] + 1 ELSE e[o]]
    BY <1>1, <2>1 DEF Outcome
  <2> QED
    BY <1>1, <1>3, <2>3, <2>4
<1> QED
  BY <1>1, <1>2, <1>3

LEMMA LedgerStays ==
  ASSUME LedgerInv, ledger' = ledger,
         phase' \in Whole => phase \in Whole /\ UNCHANGED <<origin, persisted, Stored>>
  PROVE  LedgerInv'
<1>1. ASSUME NEW a \in Attacks, phase' \in Whole  PROVE PersistedOf(a)' = PersistedOf(a)
  BY <1>1 DEF PersistedOf
<1> QED
  BY <1>1 DEF LedgerInv

\* What write() adds to the sets that are counted.
LEMMA WriteCounts ==
  ASSUME TypeInv, RecordsInv, NEW t \in Tenants, NEW sub \in Subs, NEW actor \in Actors,
         NEW content \in Contents, NEW channel \in Channels,
         write(t, sub, actor, content, channel), NEW r, r = attempts + 1
  PROVE  /\ \A a \in Attacks : Cardinality(PersistedOf(a)') =
              IF a = content THEN Cardinality(PersistedOf(a)) + 1 ELSE Cardinality(PersistedOf(a))
         /\ \A u \in Tenants : Cardinality(Of(u)') =
              IF u = t THEN Cardinality(Of(u)) + 1 ELSE Cardinality(Of(u))
<1>1. r \in Records /\ r > attempts
  <2>1. r \in Records
    BY Written
  <2>2. attempts \in Nat
    BY LabAssumption DEF TypeInv, TypeOK
  <2> QED
    BY <2>1, <2>2
<1>2. PICK rec : rec = [tenant |-> t, sub |-> sub, actor |-> actor, content |-> content]
  OBVIOUS
<1>3. rec \in Record /\ rec # None /\ rec.tenant = t
  BY <1>2, NoneFacts DEF Record
<1>4. PICK org : org = [place |-> <<t, actor>>, channel |-> channel, content |-> content]
  OBVIOUS
<1>5. org.content = content
  BY <1>4
<1>6. /\ store' = [store EXCEPT ![r] = rec] /\ origin' = [origin EXCEPT ![r] = org]
      /\ persisted' = IF content \in Attacks THEN persisted \cup {r} ELSE persisted
  BY <1>2, <1>4 DEF write
<1>7. store \in [Records -> Record \cup {None}] /\ origin \in [Records -> Origin \cup {None}]
  BY DEF TypeInv, TypeOK
<1>8. r \notin persisted /\ r \notin Stored
  BY <1>1 DEF RecordsInv, RecordInv, OriginInv, TablesInv, Stored
<1>9. Stored' = Stored \cup {r}
  BY <1>1, <1>3, <1>6, <1>7 DEF Stored
<1>10. ASSUME NEW a \in Attacks
       PROVE  Cardinality(PersistedOf(a)') =
                IF a = content THEN Cardinality(PersistedOf(a)) + 1 ELSE Cardinality(PersistedOf(a))
  <2>1. PersistedOf(a) \in SUBSET Records /\ PersistedOf(a)' \in SUBSET Records
    BY DEF PersistedOf, Stored
  <2>2. r \notin PersistedOf(a)
    BY <1>8 DEF PersistedOf
  <2>3. ASSUME NEW q \in Records, q # r
        PROVE  q \in PersistedOf(a)' <=> q \in PersistedOf(a)
    BY <1>6, <1>7, <1>9, <2>3 DEF PersistedOf
  <2>4. r \in PersistedOf(a)' <=> a = content
    BY <1>1, <1>5, <1>6, <1>7, <1>8, <1>9 DEF PersistedOf
  <2> QED
    BY <1>1, <2>1, <2>2, <2>3, <2>4, OneMore
<1>11. ASSUME NEW u \in Tenants
       PROVE  Cardinality(Of(u)') = IF u = t THEN Cardinality(Of(u)) + 1 ELSE Cardinality(Of(u))
  <2>1. Of(u) \in SUBSET Records /\ Of(u)' \in SUBSET Records
    BY DEF Of, Stored
  <2>2. r \notin Of(u)
    BY <1>8 DEF Of
  <2>3. ASSUME NEW q \in Records, q # r  PROVE q \in Of(u)' <=> q \in Of(u)
    BY <1>6, <1>7, <1>9, <2>3 DEF Of
  <2>4. r \in Of(u)' <=> u = t
    BY <1>1, <1>3, <1>6, <1>7, <1>9 DEF Of
  <2> QED
    BY <1>1, <2>1, <2>2, <2>3, <2>4, OneMore
<1> QED
  BY <1>10, <1>11

LEMMA LedgerStep == TypeInv /\ RecordsInv /\ LedgerInv /\ [Next]_vars => LedgerInv'
<1> SUFFICES ASSUME TypeInv, RecordsInv, LedgerInv, [Next]_vars  PROVE LedgerInv'
  OBVIOUS
<1> USE DEF data, books, history
<1>a. TypeOK /\ \A a \in Attacks : Cardinality(PersistedOf(a)) \in Nat
  BY RecordsFinite DEF TypeInv, PersistedOf, Stored
<1>1. ASSUME NEW t \in Tenants, NEW content \in Contents, NEW channel \in Channels,
             WriteRejected(t, content, channel)
      PROVE  LedgerInv'
  <2>1. Noted(content, "blocked_at_write") /\ phase' = phase
        /\ UNCHANGED <<store, origin, persisted>>
    BY <1>1 DEF WriteRejected
  <2>2. ASSUME NEW a \in Attacks
        PROVE  /\ PersistedOf(a)' = PersistedOf(a)
               /\ ledger'[a].quarantined = ledger[a].quarantined
               /\ ledger'[a].persisted_held = ledger[a].persisted_held
               /\ ledger'[a].injected - ledger[a].injected =
                    ledger'[a].blocked_at_write - ledger[a].blocked_at_write
               /\ ledger'[a].injected \in Nat /\ ledger'[a].blocked_at_write \in Nat
               /\ ledger[a] \in [{"injected"} \cup Outcome -> Nat]
    <3>1. PersistedOf(a)' = PersistedOf(a)
      BY <2>1 DEF PersistedOf, Stored
    <3>2. PICK old, new : old = ledger[a] /\ new = ledger'[a]
      OBVIOUS
    <3>3. /\ old \in [{"injected"} \cup Outcome -> Nat]
          /\ a # content => new = old
          /\ a = content =>
               new = [o \in {"injected"} \cup Outcome |->
                        IF o \in {"injected", "blocked_at_write"} THEN old[o] + 1 ELSE old[o]]
      BY <1>a, <2>1, <3>2, NotedBooks DEF Outcome
    <3>4. /\ new.quarantined = old.quarantined /\ new.persisted_held = old.persisted_held
          /\ new.injected - old.injected = new.blocked_at_write - old.blocked_at_write
          /\ new.injected \in Nat /\ new.blocked_at_write \in Nat
      BY <3>3 DEF Outcome
    <3> QED
      BY <3>1, <3>2, <3>3, <3>4
  <2>3. ASSUME NEW a \in Attacks
        PROVE  ledger'[a].injected =
                 ledger'[a].blocked_at_write + ledger'[a].quarantined + ledger'[a].persisted_held
    BY <2>2 DEF LedgerInv, Outcome
  <2> QED
    BY <2>1, <2>2, <2>3 DEF LedgerInv
<1>2. ASSUME NEW t \in Tenants, NEW sub \in Subs, NEW actor \in Actors,
             NEW content \in Contents, NEW channel \in Channels,
             write(t, sub, actor, content, channel)
      PROVE  LedgerInv'
  <2>1. PICK r : r = attempts + 1
    OBVIOUS
  <2>2. PICK outcome \in {"quarantined", "persisted_held"} : Noted(content, outcome)
    <3>1. PICK env \in Envelope : Wrote(r, t, actor, content, channel, env)
      BY <1>2, <2>1, Written
    <3>2. Noted(content, IF env.quarantined THEN "quarantined" ELSE "persisted_held")
      BY <3>1 DEF Wrote
    <3> QED
      BY <3>2
  <2>3. phase = "write"
    BY <1>2 DEF write
  <2>4. ASSUME NEW a \in Attacks
        PROVE  /\ ledger'[a].injected =
                    ledger'[a].blocked_at_write + ledger'[a].quarantined + ledger'[a].persisted_held
               /\ Cardinality(PersistedOf(a)') = ledger'[a].quarantined + ledger'[a].persisted_held
    <3>1. PICK old, new : old = ledger[a] /\ new = ledger'[a]
      OBVIOUS
    <3>2. /\ old \in [{"injected"} \cup Outcome -> Nat]
          /\ a # content => new = old
          /\ a = content =>
               new = [o \in {"injected"} \cup Outcome |->
                        IF o \in {"injected", outcome} THEN old[o] + 1 ELSE old[o]]
      BY <1>a, <2>2, <3>1, NotedBooks DEF Outcome
    <3>3. PICK held \in Nat : held = Cardinality(PersistedOf(a))
      BY <1>a
    <3>4. PICK heldnow : heldnow = Cardinality(PersistedOf(a)')
      OBVIOUS
    <3>5. heldnow = IF a = content THEN held + 1 ELSE held
      BY <1>2, <2>1, <3>3, <3>4, WriteCounts
    <3>6. /\ old.injected = old.blocked_at_write + old.quarantined + old.persisted_held
          /\ held = old.quarantined + old.persisted_held
      BY <2>3, <3>1, <3>3 DEF LedgerInv, Whole
    <3>7. /\ new.injected = new.blocked_at_write + new.quarantined + new.persisted_held
          /\ heldnow = new.quarantined + new.persisted_held
      <4>1. CASE a # content
        BY <3>2, <3>5, <3>6, <4>1
      <4>2. CASE a = content /\ outcome = "quarantined"
        BY <3>2, <3>5, <3>6, <4>2 DEF Outcome
      <4>3. CASE a = content /\ outcome = "persisted_held"
        BY <3>2, <3>5, <3>6, <4>3 DEF Outcome
      <4> QED
        BY <4>1, <4>2, <4>3
    <3> QED
      BY <3>1, <3>7, <3>4
  <2> QED
    BY <2>4 DEF LedgerInv
<1>3. CASE EndWrites \/ ProbeDelayed \/ DeepScan \/ ProbeFinal \/ CrossTenant
  BY <1>3, LedgerStays DEF EndWrites, ProbeDelayed, DeepScan, ProbeFinal, CrossTenant, Stored, Whole
<1>4. ASSUME NEW r \in Records, Tamper(r)  PROVE LedgerInv'
  <2>1. PICK rec \in Record : rec = store[r]
    BY <1>4, <1>a DEF Tamper, Tamperable, Stored, TypeOK
  <2>2. PICK changed : changed = [rec EXCEPT !.content = Altered]
    OBVIOUS
  <2>3. changed # None
    <3>1. changed \in Record
      BY <2>1, <2>2, LabAssumption DEF Record
    <3> QED
      BY <3>1, NoneFacts
  <2>4. store' = [store EXCEPT ![r] = changed] /\ store[r] # None
    BY <1>4, <1>a, <2>1, <2>2 DEF Tamper, Tamperable, Stored, TypeOK
  <2>5. Stored' = Stored
    BY <1>a, <2>3, <2>4 DEF Stored, TypeOK
  <2> QED
    BY <1>4, <2>5, LedgerStays DEF Tamper, Whole
<1>5. ASSUME NEW t \in Tenants, NEW actor \in Actors, erase_subject(t, actor)  PROVE LedgerInv'
  BY <1>5, LedgerStays DEF erase_subject, Whole
<1>6. CASE Sweep \/ NotEnabled
  BY <1>6, LedgerStays DEF Sweep, NotEnabled, Whole
<1>7. CASE UNCHANGED vars
  BY <1>7, LedgerStays DEF vars, Stored
<1> QED
  BY <1>1, <1>2, <1>3, <1>4, <1>5, <1>6, <1>7 DEF Next, Done

\* Deleting records and their rows: what a tenant stored before is what it still
\* stores and what was deleted of its own.
LEMMA DeletionCounts ==
  ASSUME TypeInv, RecordsInv, NEW gone \in SUBSET Records, \A r \in gone : rows[r] # None,
         store' = Without(store, gone), NEW t \in Tenants
  PROVE  Cardinality(Of(t)) =
           Cardinality(Of(t)') + Cardinality({r \in gone : rows[r].tenant = t})
<1>1. PICK part \in SUBSET Records : part = {r \in gone : rows[r].tenant = t}
  OBVIOUS
<1>2. Of(t) \in SUBSET Records
  BY DEF Of, Stored
<1>3. ASSUME NEW r \in Records
      PROVE  r \in part <=> r \in gone /\ r \in Of(t)
  BY <1>1 DEF RecordsInv, RecordInv, TablesInv, RowInv, Of, Stored
<1>4. part \in SUBSET Of(t)
  BY <1>1, <1>3
<1>5. Of(t)' = Of(t) \ part
  <2>1. ASSUME NEW r \in Records
        PROVE  r \in Of(t)' <=> r \in Of(t) /\ r \notin gone
    BY DEF Of, Stored, Without
  <2>2. Of(t)' \subseteq Records
    BY DEF Of, Stored
  <2> QED
    BY <1>2, <1>3, <2>1, <2>2
<1> QED
  BY <1>1, <1>2, <1>4, <1>5, SoManyLess

LEMMA AccountsStay ==
  ASSUME AccountsInv, audit' = audit, \A t \in Tenants : Of(t)' = Of(t)
  PROVE  AccountsInv'
BY DEF AccountsInv

LEMMA AccountsStep == TypeInv /\ RecordsInv /\ AccountsInv /\ [Next]_vars => AccountsInv'
<1> SUFFICES ASSUME TypeInv, RecordsInv, AccountsInv, [Next]_vars  PROVE AccountsInv'
  OBVIOUS
<1> USE DEF data, books, history
<1>a. /\ TypeOK /\ audit \in [Tenants -> [{"WRITE", "WRITE_REJECTED", "deleted"} -> Nat]]
      /\ \A t \in Tenants : Cardinality(Of(t)) \in Nat /\ Cardinality(Of(t)') \in Nat
  BY RecordsFinite DEF TypeInv, TypeOK, Of, Stored
<1>1. ASSUME NEW t \in Tenants, NEW content \in Contents, NEW channel \in Channels,
             WriteRejected(t, content, channel)
      PROVE  AccountsInv'
  <2>1. ASSUME NEW u \in Tenants
        PROVE  audit'[u].WRITE = audit[u].WRITE /\ audit'[u].deleted = audit[u].deleted
    BY <1>1, <1>a DEF WriteRejected
  <2>2. ASSUME NEW u \in Tenants  PROVE Of(u)' = Of(u)
    BY <1>1 DEF WriteRejected, Of, Stored
  <2> QED
    BY <2>1, <2>2 DEF AccountsInv
<1>2. ASSUME NEW t \in Tenants, NEW sub \in Subs, NEW actor \in Actors,
             NEW content \in Contents, NEW channel \in Channels,
             write(t, sub, actor, content, channel)
      PROVE  AccountsInv'
  <2>1. ASSUME NEW u \in Tenants
        PROVE  audit'[u].WRITE = Cardinality(Of(u)') + audit'[u].deleted
    <3>1. audit'[u].deleted = audit[u].deleted
      BY <1>2, <1>a DEF write
    <3>2. audit'[u].WRITE = IF u = t THEN audit[u].WRITE + 1 ELSE audit[u].WRITE
      BY <1>2, <1>a DEF write
    <3>3. Cardinality(Of(u)') = IF u = t THEN Cardinality(Of(u)) + 1 ELSE Cardinality(Of(u))
      BY <1>2, WriteCounts
    <3>4. PICK n \in Nat, d \in Nat : n = Cardinality(Of(u)) /\ d = audit[u].deleted
      BY <1>a
    <3>5. audit[u].WRITE = n + d
      BY <3>4 DEF AccountsInv
    <3> QED
      BY <3>1, <3>2, <3>3, <3>4, <3>5
  <2> QED
    BY <2>1 DEF AccountsInv
<1>3. CASE EndWrites \/ ProbeDelayed \/ DeepScan \/ ProbeFinal \/ CrossTenant \/ NotEnabled \/ UNCHANGED vars
  <2>1. audit' = audit /\ store' = store
    BY <1>3 DEF EndWrites, ProbeDelayed, DeepScan, ProbeFinal, CrossTenant, NotEnabled, vars
  <2> QED
    BY <2>1, AccountsStay DEF Of, Stored
<1>4. ASSUME NEW r \in Records, Tamper(r)  PROVE AccountsInv'
  <2>1. PICK rec \in Record : rec = store[r]
    BY <1>4, <1>a DEF Tamper, Tamperable, Stored, TypeOK
  <2>2. PICK changed : changed = [rec EXCEPT !.content = Altered]
    OBVIOUS
  <2>3. changed # None /\ changed.tenant = rec.tenant
    <3>1. changed \in Record /\ changed.tenant = rec.tenant
      BY <2>1, <2>2, LabAssumption DEF Record
    <3> QED
      BY <3>1, NoneFacts
  <2>4. store' = [store EXCEPT ![r] = changed] /\ store[r] # None /\ audit' = audit
    BY <1>4, <1>a, <2>1, <2>2 DEF Tamper, Tamperable, Stored, TypeOK
  <2>5. ASSUME NEW u \in Tenants  PROVE Of(u)' = Of(u)
    BY <1>a, <2>1, <2>3, <2>4 DEF Of, Stored, TypeOK
  <2> QED
    BY <2>4, <2>5, AccountsStay
<1>5. ASSUME NEW t \in Tenants, NEW actor \in Actors, erase_subject(t, actor)  PROVE AccountsInv'
  <2>1. PICK gone \in SUBSET Records :
          /\ gone = {r \in Records : rows[r] # None /\ rows[r].tenant = t /\ rows[r].actor = actor}
          /\ erase(t, gone)
    BY <1>5 DEF erase_subject
  <2>2. ASSUME NEW u \in Tenants
        PROVE  audit'[u].WRITE = Cardinality(Of(u)') + audit'[u].deleted
    <3>1. PICK part \in SUBSET Records : part = {r \in gone : rows[r].tenant = u}
      OBVIOUS
    <3>2. Cardinality(Of(u)) = Cardinality(Of(u)') + Cardinality(part)
      BY <2>1, <3>1, DeletionCounts DEF erase
    <3>3. part = IF u = t THEN gone ELSE {}
      BY <2>1, <3>1
    <3>4. audit'[u].WRITE = audit[u].WRITE
      BY <1>a, <2>1 DEF erase
    <3>5. audit'[u].deleted = audit[u].deleted + Cardinality(part)
      <4>1. Cardinality({}) = 0
        BY FS_EmptySet
      <4> QED
        BY <1>a, <2>1, <3>3, <4>1 DEF erase
    <3>6. PICK n \in Nat, d \in Nat, p \in Nat :
            n = Cardinality(Of(u)') /\ d = audit[u].deleted /\ p = Cardinality(part)
      BY <1>a, <3>1, RecordsFinite
    <3>7. audit[u].WRITE = (n + p) + d
      BY <3>2, <3>6 DEF AccountsInv
    <3> QED
      BY <3>4, <3>5, <3>6, <3>7
  <2> QED
    BY <2>2 DEF AccountsInv
<1>6. CASE Sweep
  <2>1. PICK gone \in SUBSET Records :
          gone = {r \in Records : rows[r] # None /\ expired(rows[r].env, clock + 2)}
    OBVIOUS
  <2>2. /\ store' = Without(store, gone)
        /\ audit' = [t \in Tenants |-> [audit[t] EXCEPT !.deleted =
                       @ + Cardinality({r \in gone : rows[r].tenant = t})]]
    BY <1>6, <2>1 DEF Sweep
  <2>3. ASSUME NEW u \in Tenants
        PROVE  audit'[u].WRITE = Cardinality(Of(u)') + audit'[u].deleted
    <3>1. PICK part \in SUBSET Records : part = {r \in gone : rows[r].tenant = u}
      OBVIOUS
    <3>2. Cardinality(Of(u)) = Cardinality(Of(u)') + Cardinality(part)
      BY <2>1, <2>2, <3>1, DeletionCounts
    <3>3. PICK e \in [{"WRITE", "WRITE_REJECTED", "deleted"} -> Nat] : e = audit[u]
      BY <1>a
    <3>4. audit'[u] = [e EXCEPT !.deleted = e.deleted + Cardinality(part)]
      BY <2>2, <3>1, <3>3
    <3>5. audit'[u].WRITE = e.WRITE /\ audit'[u].deleted = e.deleted + Cardinality(part)
      BY <3>3, <3>4
    <3>6. PICK n \in Nat, p \in Nat : n = Cardinality(Of(u)') /\ p = Cardinality(part)
      BY <1>a, <3>1, RecordsFinite
    <3>7. e.WRITE = (n + p) + e.deleted
      BY <3>2, <3>3, <3>6 DEF AccountsInv
    <3> QED
      BY <3>3, <3>5, <3>6, <3>7
  <2> QED
    BY <2>3 DEF AccountsInv
<1> QED
  BY <1>1, <1>2, <1>3, <1>4, <1>5, <1>6 DEF Next, Done

\* lab.py:225, 245-256: every attack injected is booked under exactly one outcome,
\* and until something is deleted those not blocked are the attacks in the stores.
THEOREM LedgerAlwaysBalances == Spec => []LedgerBalances
<1>1. LedgerInv => LedgerBalances
  BY DEF LedgerInv, LedgerBalances, PersistedOf, Whole
<1> QED
  BY <1>1, TypeInit, TypeStep, RecordsInit, RecordsStep, BooksInit, LedgerStep, PTL DEF Spec

\* What the audit chain of a tenant reports as written, less what certificates and
\* sweep batches report as deleted, is what its store holds; and no record, envelope
\* or verdict is left without its others.
THEOREM AccountsAlwaysBalance == Spec => []AccountsBalance
<1>1. RecordsInv /\ AccountsInv => AccountsBalance
  BY DEF RecordsInv, RecordInv, TablesInv, AccountsInv, AccountsBalance
<1> QED
  BY <1>1, TypeInit, TypeStep, RecordsInit, RecordsStep, BooksInit, AccountsStep, PTL DEF Spec
=============================================================================
