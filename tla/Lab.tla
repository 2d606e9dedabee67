-------------------------------- MODULE Lab ---------------------------------
(***************************************************************************)
(* The library topology end to end, as the lab drives it                   *)
(* (memwarden/lab.py): one process, per tenant an in-memory backend and a   *)
(* LocalSidecar, and a scenario in phases: writes, probes for admitted     *)
(* attacks, the deep scan, and what the configuration enables of           *)
(* tampering, a cross-tenant probe, an erasure and a sweep.  Nothing runs  *)
(* at the same time here, so a public call is one step; READ and READ_DROP *)
(* entries and the benign reads, which change nothing else, are left out.  *)
(***************************************************************************)
EXTENDS Detect, FiniteSets

CONSTANTS
  Tenants, Actors,   \* a name of an actor may occur in every tenant
  Subs,              \* the kinds of namespace: "notes", "pii", "finance"
  Attacks,           \* ATTACKS, each of a family of its own
  NearMisses,        \* BENIGN_NEARMISS
  Benign,            \* what _benign() makes of _WORDS
  Altered,           \* a text tampered with out of band
  TRUSTED_CHANNELS, UNTRUSTED_CHANNELS, DERIVED_CHANNELS,
  writes,            \* bound: cfg["writes"]
  k                  \* records a retrieve() returns at most, 8

ASSUME LabAssumption ==
  /\ Contents = Attacks \cup NearMisses \cup Benign \cup {Altered}
  /\ Altered \notin Attacks \cup NearMisses \cup Benign
  /\ (NearMisses \cup Benign) \cap Attacks = {}
  /\ l1_score \in [Contents -> 0..100]
  /\ Subs \subseteq {"notes", "pii", "finance"}
  /\ \A channel \in TRUSTED_CHANNELS   : tier_for_channel(channel) = FIRST_PARTY
  /\ \A channel \in UNTRUSTED_CHANNELS : tier_for_channel(channel) = UNTRUSTED
  /\ \A channel \in DERIVED_CHANNELS   : tier_for_channel(channel) = DERIVED
  /\ writes \in Nat /\ k \in Nat \ {0}

Records  == 1..writes   \* a record has the number of the write that made it
Channels == TRUSTED_CHANNELS \cup UNTRUSTED_CHANNELS \cup DERIVED_CHANNELS

VARIABLES
  phase,      \* where run_scenario() is
  features,   \* what the configuration enables
  attempts,   \* writes so far
  store,      \* the backends: records with tenant and namespace
  rows,       \* the sidecars' envelopes
  verdicts,   \* the sidecars' verdicts
  audit,      \* per tenant: entries by operation, and deletions they report
  clock,      \* days
  persisted,  \* persisted_attacks
  known,      \* known_attacks
  ledger,     \* attack_ledger
  metrics,    \* what the report will say
  origin,     \* history: what each write asked for
  erased,     \* history: <<tenant, actor>> of the erasure, if any
  tampered    \* history: records tampered with

data    == <<store, rows, verdicts>>
books   == <<persisted, known, ledger>>
history == <<origin, erased, tampered>>
vars    == <<phase, features, attempts, data, audit, clock, books, metrics, history>>

-----------------------------------------------------------------------------
(* The policy of the lab.                                                  *)

retention_classes ==
  [standard_90d |-> 90, pii_30d |-> 30, ephemeral_24h |-> 1, regulatory_7y |-> 2555]

Anything == "*"
retention_rules ==
  <<[channel |-> "web_fetch", sub |-> Anything,  class |-> "ephemeral_24h"],
    [channel |-> Anything,    sub |-> "pii",     class |-> "pii_30d"],
    [channel |-> Anything,    sub |-> "finance", class |-> "regulatory_7y"],
    [channel |-> Anything,    sub |-> Anything,  class |-> "standard_90d"]>>

\* Policy() refuses a document whose rules name a class it does not define.
ASSUME PolicyAccepted ==
  \A i \in DOMAIN retention_rules : retention_rules[i].class \in DOMAIN retention_classes

Matches(rule, channel, sub) == rule.channel \in {Anything, channel} /\ rule.sub \in {Anything, sub}

\* Mutant: the rules of namespaces are looked at before those of channels.
resolve_retention_by_sub(channel, sub) ==
  LET hits == {i \in DOMAIN retention_rules : Matches(retention_rules[i], channel, sub)}
      i    == IF 2 \in hits THEN 2 ELSE CHOOSE j \in hits : \A h \in hits : j <= h
  IN  retention_classes[retention_rules[i].class]

\* The first rule that matches wins.
resolve_retention(channel, sub) ==
  LET hits == {i \in DOMAIN retention_rules : Matches(retention_rules[i], channel, sub)}
      i    == CHOOSE j \in hits : \A h \in hits : j <= h
  IN  retention_classes[retention_rules[i].class]

min_tier   == FIRST_PARTY
scan_tiers == {UNTRUSTED, DERIVED}

\* sample_config(): which probes a scenario of so many tenants runs.
AllFeatures == {"l2", "erasure", "sweep", "tamper", "cross_tenant"}
sample_config ==
  IF Cardinality(Tenants) = 1 THEN {{}}
  ELSE {chosen \in SUBSET AllFeatures : Cardinality(chosen) \in {2, 4}}

-----------------------------------------------------------------------------
(* Values.                                                                 *)

PENDING == "PENDING"
CLEARED == "CLEARED"
FAILED  == "FAILED"

Record  == [tenant : Tenants, sub : Subs, actor : Actors, content : Contents]
Row     == [tenant : Tenants, actor : Actors, env : Envelope]
Verdict == [verdict : {PENDING, CLEARED, FAILED}, verdict_digest : Digests]
Outcome == {"blocked_at_write", "quarantined", "persisted_held"}
Origin  == [place : Tenants \X Actors, channel : Channels, content : Contents]

ASSUME RecordsAssumption == None \notin Record \cup Row \cup Verdict \cup Origin

NoMetrics ==
  [delayed |-> 0, final |-> 0, l2_cleared |-> 0, l2_failed |-> 0, tamper |-> None,
   cross_tenant |-> None, erasure |-> None, sweep |-> None]

Init ==
  /\ phase     = "write"
  /\ features  \in sample_config
  /\ attempts  = 0
  /\ store     = [r \in Records |-> None]
  /\ rows      = [r \in Records |-> None]
  /\ verdicts  = [r \in Records |-> None]
  /\ audit     = [t \in Tenants |-> [WRITE |-> 0, WRITE_REJECTED |-> 0, deleted |-> 0]]
  /\ clock     = 0
  /\ persisted = {}
  /\ known     = {}
  /\ ledger    = [a \in Attacks |-> [injected |-> 0, blocked_at_write |-> 0,
                                     quarantined |-> 0, persisted_held |-> 0]]
  /\ metrics   = NoMetrics
  /\ origin    = [r \in Records |-> None]
  /\ erased    = {}
  /\ tampered  = {}

Stored == {r \in Records : store[r] # None}
Of(t)  == {r \in Stored : store[r].tenant = t}

-----------------------------------------------------------------------------
(* write(), on the draws of the scenario.                                  *)

\* Attacks come from untrusted channels, near misses from any that a writer
\* names, benign texts from every channel.
Drawn(content, channel) ==
  \/ content \in Attacks    /\ channel \in UNTRUSTED_CHANNELS
  \/ content \in NearMisses /\ channel \in TRUSTED_CHANNELS \cup UNTRUSTED_CHANNELS
  \/ content \in Benign     /\ channel \in Channels

Noted(content, outcome) ==
  /\ known' = IF content \in Attacks THEN known \cup {content} ELSE known
  /\ ledger' = IF content \in Attacks
               THEN [ledger EXCEPT ![content].injected = @ + 1, ![content][outcome] = @ + 1]
               ELSE ledger

\* Mutant: the attack is booked when write() is called, and the rejection is not.
WriteRejectedUnbooked(t, content, channel) ==
  /\ phase = "write" /\ attempts < writes /\ Drawn(content, channel)
  /\ ScoreOf(content, channel) >= REJECT_THRESHOLD
  /\ attempts' = attempts + 1
  /\ audit' = [audit EXCEPT ![t].WRITE_REJECTED = @ + 1]
  /\ known' = known \cup {content}
  /\ ledger' = IF content \in Attacks THEN [ledger EXCEPT ![content].injected = @ + 1] ELSE ledger
  /\ UNCHANGED <<phase, features, data, clock, persisted, metrics, history>>

WriteRejected(t, content, channel) ==
  /\ phase = "write" /\ attempts < writes /\ Drawn(content, channel)
  /\ ScoreOf(content, channel) >= REJECT_THRESHOLD
  /\ attempts' = attempts + 1
  /\ audit' = [audit EXCEPT ![t].WRITE_REJECTED = @ + 1]
  /\ Noted(content, "blocked_at_write")
  /\ UNCHANGED <<phase, features, data, clock, persisted, metrics, history>>

\* Nobody else writes verdicts meanwhile, so get_verdict says PENDING just when
\* write() has put it: the outcome booked is read off bad.
write(t, sub, actor, content, channel) ==
  LET r   == attempts + 1
      bad == ScoreOf(content, channel) >= QUARANTINE_THRESHOLD
      env == stamp(tier_for_channel(channel), content,
                   expires_at(clock, resolve_retention(channel, sub)), bad)
  IN  /\ phase = "write" /\ attempts < writes /\ Drawn(content, channel)
      /\ ScoreOf(content, channel) < REJECT_THRESHOLD
      /\ attempts' = r
      /\ audit' = [audit EXCEPT ![t].WRITE = @ + 1]
      /\ store' = [store EXCEPT ![r] =
                     [tenant |-> t, sub |-> sub, actor |-> actor, content |-> content]]
      /\ rows' = [rows EXCEPT ![r] = [tenant |-> t, actor |-> actor, env |-> env]]
      /\ verdicts' = [verdicts EXCEPT ![r] =
           IF bad THEN [verdict |-> PENDING, verdict_digest |-> env.content_sha256] ELSE None]
      /\ persisted' = IF content \in Attacks THEN persisted \cup {r} ELSE persisted
      /\ Noted(content, IF bad THEN "quarantined" ELSE "persisted_held")
      /\ origin' = [origin EXCEPT ![r] =
                      [place |-> <<t, actor>>, channel |-> channel, content |-> content]]
      /\ UNCHANGED <<phase, features, clock, metrics, erased, tampered>>

EndWrites ==
  /\ phase = "write" /\ attempts = writes
  /\ phase' = "probe"
  /\ UNCHANGED <<features, attempts, data, audit, clock, books, metrics, history>>

-----------------------------------------------------------------------------
(* retrieve(): the backend's candidates and the gates of _admit().         *)

cleared(r) ==
  /\ verdicts[r] # None /\ verdicts[r].verdict = CLEARED
  /\ verdicts[r].verdict_digest = rows[r].env.content_sha256

admit(r) ==
  /\ rows[r] # None
  /\ rows[r].env.quarantined => cleared(r)
  /\ ~expired(rows[r].env, clock)
  /\ verify_integrity(rows[r].env, store[r].content)
  /\ rows[r].env.trust_tier < min_tier => cleared(r)

Namespace(r) ==
  {q \in Of(store[r].tenant) : store[q].sub = store[r].sub /\ store[q].actor = store[r].actor}

\* The answers to the content of r as a query: k records of its namespace, those
\* with this very content first, and among equals in the order of their ids,
\* which is any order.
Answers(r) ==
  LET Same == {q \in Namespace(r) : store[q].content = store[r].content}
  IN  {found \in SUBSET Namespace(r) :
         /\ Cardinality(found) =
              IF Cardinality(Namespace(r)) < k THEN Cardinality(Namespace(r)) ELSE k
         /\ found \subseteq Same \/ Same \subseteq found}

\* attack_admitted(): how many persisted attacks come back when asked for.
attack_admitted(hits) ==
  \E back \in SUBSET persisted :
    /\ \A r \in back : admit(r) /\ \E found \in Answers(r) : r \in found
    /\ \A r \in persisted \ back : ~admit(r) \/ \E found \in Answers(r) : r \notin found
    /\ hits = Cardinality(back)

ProbeDelayed ==
  /\ phase = "probe"
  /\ \E hits \in 0..Cardinality(persisted) :
       attack_admitted(hits) /\ metrics' = [metrics EXCEPT !.delayed = hits]
  /\ phase' = IF "l2" \in features THEN "l2" ELSE "final"
  /\ UNCHANGED <<features, attempts, data, audit, clock, books, history>>

-----------------------------------------------------------------------------
(* The deep scan: every record of an untrusted or derived tier once.       *)

\* Mutant: the stand-in recognises what L1 flags, not what was injected.
assess_by_score(content) == l1_score[content] >= QUARANTINE_THRESHOLD

\* SimGuardrail.
assess(content) == content \in known

\* Mutant: derived records are left to be scanned later.
ScannedUntrusted(r) == rows[r] # None /\ rows[r].env.trust_tier = UNTRUSTED

Scanned(r) == rows[r] # None /\ rows[r].env.trust_tier \in scan_tiers

\* handle_record_event() for each of them: the digest bound is the content's.
DeepScan ==
  LET scope == {r \in Stored : Scanned(r)}
  IN  /\ phase = "l2"
      /\ verdicts' = [r \in Records |->
           IF r \in scope
           THEN [verdict |-> IF assess(store[r].content) THEN FAILED ELSE CLEARED,
                 verdict_digest |-> sha256_hex[store[r].content]]
           ELSE verdicts[r]]
      /\ metrics' = [metrics EXCEPT
           !.l2_failed  = Cardinality({r \in scope : assess(store[r].content)}),
           !.l2_cleared = Cardinality({r \in scope : ~assess(store[r].content)})]
      /\ phase' = "final"
      /\ UNCHANGED <<features, attempts, store, rows, audit, clock, books, history>>

ProbeFinal ==
  /\ phase = "final"
  /\ \E hits \in 0..Cardinality(persisted) :
       /\ attack_admitted(hits)
       /\ metrics' = [metrics EXCEPT !.final = hits,
                                     !.tamper = IF "tamper" \in features THEN FALSE ELSE None]
  /\ phase' = "tamper"
  /\ UNCHANGED <<features, attempts, data, audit, clock, books, history>>

-----------------------------------------------------------------------------
(* The probes a configuration may enable.                                  *)

\* First-party records that are not quarantined, in namespaces not yet tried.
Tamperable ==
  {r \in Stored : /\ "tamper" \in features /\ metrics.tamper = FALSE
                  /\ rows[r] # None /\ rows[r].env.trust_tier >= FIRST_PARTY
                  /\ ~rows[r].env.quarantined /\ Namespace(r) \cap tampered = {}}

\* The content is replaced in place and asked for, which finds no better match.
Tamper(r) ==
  /\ phase = "tamper" /\ r \in Tamperable
  /\ store' = [store EXCEPT ![r].content = Altered]
  /\ tampered' = tampered \cup {r}
  /\ UNCHANGED <<phase, features, attempts, rows, verdicts, audit, clock, books, origin, erased>>
  /\ metrics' = [metrics EXCEPT !.tamper = ~admit(r)']

\* The namespace of another tenant is out of scope: the answer is empty.
CrossTenant ==
  /\ phase = "tamper" /\ Tamperable = {}
  /\ metrics' = [metrics EXCEPT !.cross_tenant =
       IF "cross_tenant" \in features /\ Cardinality(Tenants) > 1 THEN TRUE ELSE None]
  /\ phase' = "erase"
  /\ UNCHANGED <<features, attempts, data, audit, clock, books, history>>

Without(f, gone) == [r \in Records |-> IF r \in gone THEN None ELSE f[r]]

\* Mutant: the envelopes are left to the sweep.
erase_records(t, gone) ==
  /\ store' = Without(store, gone)
  /\ verdicts' = Without(verdicts, gone)
  /\ audit' = [audit EXCEPT ![t].deleted = @ + Cardinality(gone)]
  /\ UNCHANGED rows

\* batch_delete() and the rows of the records, and the entry that reports them.
erase(t, gone) ==
  /\ store' = Without(store, gone)
  /\ rows' = Without(rows, gone)
  /\ verdicts' = Without(verdicts, gone)
  /\ audit' = [audit EXCEPT ![t].deleted = @ + Cardinality(gone)]

\* envelopes_by_actor(); the lab sets no legal hold.
erase_subject(t, actor) ==
  LET gone == {r \in Records : rows[r] # None /\ rows[r].tenant = t /\ rows[r].actor = actor}
  IN  /\ phase = "erase" /\ "erasure" \in features
      /\ erase(t, gone)
      /\ erased' = {<<t, actor>>}
      /\ metrics' = [metrics EXCEPT !.erasure = TRUE]
      /\ phase' = "sweep"
      /\ UNCHANGED <<features, attempts, clock, books, origin, tampered>>

\* sweep_tenant() of every tenant, two days later.
Sweep ==
  LET gone == {r \in Records : rows[r] # None /\ expired(rows[r].env, clock + 2)}
  IN  /\ phase = "sweep" /\ "sweep" \in features
      /\ clock' = clock + 2
      /\ store' = Without(store, gone)
      /\ rows' = Without(rows, gone)
      /\ verdicts' = Without(verdicts, gone)
      /\ audit' = [t \in Tenants |-> [audit[t] EXCEPT !.deleted =
                     @ + Cardinality({r \in gone : rows[r].tenant = t})]]
      /\ metrics' = [metrics EXCEPT !.sweep = Cardinality(gone)]
      /\ phase' = "done"
      /\ UNCHANGED <<features, attempts, books, history>>

NotEnabled ==
  /\ \/ phase = "erase" /\ "erasure" \notin features /\ phase' = "sweep"
     \/ phase = "sweep" /\ "sweep" \notin features /\ phase' = "done"
  /\ UNCHANGED <<features, attempts, data, audit, clock, books, metrics, history>>

\* The report is made and the process ends.
Done == phase = "done" /\ UNCHANGED vars

-----------------------------------------------------------------------------
Next ==
  \/ \E t \in Tenants, content \in Contents, channel \in Channels :
       \/ WriteRejected(t, content, channel)
       \/ \E sub \in Subs, actor \in Actors : write(t, sub, actor, content, channel)
  \/ EndWrites
  \/ ProbeDelayed \/ DeepScan \/ ProbeFinal
  \/ \E r \in Records : Tamper(r)
  \/ CrossTenant
  \/ \E t \in Tenants, actor \in Actors : erase_subject(t, actor)
  \/ Sweep \/ NotEnabled
  \/ Done

Spec == Init /\ [][Next]_vars

-----------------------------------------------------------------------------
(* Properties.                                                             *)

\* Tables and books have their shapes; what the report counts is said by NoAttackAdmissible.
TypeOK ==
  /\ phase \in {"write", "probe", "l2", "final", "tamper", "erase", "sweep", "done"}
  /\ features \subseteq AllFeatures
  /\ store \in [Records -> Record \cup {None}]
  /\ rows \in [Records -> Row \cup {None}]
  /\ verdicts \in [Records -> Verdict \cup {None}]
  /\ audit \in [Tenants -> [{"WRITE", "WRITE_REJECTED", "deleted"} -> Nat]]
  /\ clock \in Nat /\ attempts \in 0..writes
  /\ persisted \subseteq Records /\ known \subseteq Attacks /\ tampered \subseteq Records
  /\ ledger \in [Attacks -> [{"injected"} \cup Outcome -> Nat]]
  /\ origin \in [Records -> Origin \cup {None}] /\ erased \subseteq Tenants \X Actors

\* lab.py:12-13, the invariant the lab is for: no adversarial record is ever
\* admitted.  The lab asks with two queries at two moments; this is every moment,
\* that is before, between and after the scan, tampering, erasure and sweep, and
\* any query: the gates themselves refuse the record, and the report says so.
NoAttackAdmissible ==
  /\ \A r \in persisted \cap Stored : ~admit(r)
  /\ metrics.delayed = 0 /\ metrics.final = 0

\* The attack ledger and the store tell the same story: each attack injected had
\* one outcome, and those not blocked are the persisted ones, as long as nothing
\* is deleted (lab.py:225, 245-256).
LedgerBalances ==
  /\ \A a \in Attacks :
       ledger[a].injected =
         ledger[a].blocked_at_write + ledger[a].quarantined + ledger[a].persisted_held
  /\ phase \in {"write", "probe", "l2", "final", "tamper", "erase"} =>
       \A a \in Attacks :
         Cardinality({r \in persisted \cap Stored : origin[r].content = a}) =
           ledger[a].quarantined + ledger[a].persisted_held

\* What the scan is for: once it has run, no record that is not an attack stays
\* locked out, unless it was tampered with, is expired, or L1 quarantined it in
\* first-party hands, where the scan does not look (lab.py:292).
BenignAvailable ==
  "l2" \in features /\ phase \notin {"write", "probe", "l2"} =>
    \A r \in Stored \ (persisted \cup tampered) :
      \/ admit(r)
      \/ expired(rows[r].env, clock)
      \/ rows[r].env.quarantined /\ rows[r].env.trust_tier = FIRST_PARTY

\* Who is left at the end: everything written except the erased actor's records
\* in that one tenant and, if the sweep ran, what came from the web, whatever
\* its namespace: the first retention rule beats the others (policy.py:102).
Survivors ==
  phase = "done" =>
    \A r \in Records : origin[r] # None =>
      (r \notin Stored <=> (\/ origin[r].place \in erased
                            \/ "sweep" \in features /\ origin[r].channel = "web_fetch"))

\* Per tenant, the audit chain accounts for the store: the records written less
\* the deletions certificates and sweep batches report are those stored, and
\* every one of them has its envelope, every envelope its record, every verdict
\* its envelope.
AccountsBalance ==
  /\ \A t \in Tenants : audit[t].WRITE = Cardinality(Of(t)) + audit[t].deleted
  /\ \A r \in Records : store[r] # None <=> rows[r] # None
  /\ \A r \in Records : verdicts[r] # None => rows[r] # None
=============================================================================
