--------------------------- MODULE GovernedMemory ---------------------------
(***************************************************************************)
(* The interceptor (memwarden/governed.py) and the out-of-band scanner     *)
(* (memwarden/l2/scanner.py) over a shared sidecar, as they run in         *)
(* production: several writers and readers of one interceptor process, and *)
(* stream consumers of their own.  One action is one call on shared state  *)
(* (backend, envelope table, verdict table, audit chain, oracle) with the  *)
(* local computation up to the next such call.  The sidecar passes         *)
(* envelopes by value, as the DynamoDB one does.                           *)
(***************************************************************************)
EXTENDS Detect, FiniteSets

CONSTANTS
  Records,            \* record ids the backend may assign
  Channels,           \* source channels the callers of write() name
  Writers, Readers,   \* threads of the interceptor inside write(), retrieve()
  Scanners,           \* consumers of the record stream
  MinTier,            \* policy.min_trust_tier_without_deep_scan
  DropQuarantined,    \* policy.drop_quarantined
  VerifyIntegrity,    \* policy.verify_integrity
  ScanTiers,          \* policy.l2_scan_tiers
  ttl,                \* retention of a channel in clock units, 0 = for ever
  Assess,             \* the answers the guardrail may give: is it an attack?
  UseOracle, LruSize, \* the optional verdict cache and the bound of its LRU
  OrderedStream,      \* one consumer per record, events in emission order
  ForeignReads,       \* does some agent ask for another tenant's namespace?
  Faults,             \* what may fail, see FaultKinds
  MaxEvents, MaxClock \* bounds: lifecycle events per record, clock

FaultKinds ==
  {"write",        \* a call inside write() raises: the steps done so far stay
   "scan",         \* the scanner dies or raises between two calls
   "restart",      \* the interceptor process dies and restarts
   "envelopes", "quarantine", "audit"}   \* outage of that sidecar table

Retentions == Channels \cup {"extraction"}

ASSUME PolicyAssumption ==
  /\ MinTier \in TrustTier /\ ScanTiers \subseteq TrustTier
  /\ DropQuarantined \in BOOLEAN /\ VerifyIntegrity \in BOOLEAN
  /\ ttl \in [Retentions -> Nat]

ASSUME EnvironmentAssumption ==
  /\ l1_score \in [Contents -> 0..100]
  /\ Assess \in [Contents -> (SUBSET BOOLEAN) \ {{}}]
  /\ UseOracle \in BOOLEAN /\ OrderedStream \in BOOLEAN /\ ForeignReads \in BOOLEAN
  /\ LruSize \in Nat \ {0} /\ MaxEvents \in Nat \ {0} /\ MaxClock \in Nat
  /\ Faults \subseteq FaultKinds

ASSUME NoneIsNoData == None \notin Contents /\ None \notin Records

VARIABLES
  store,       \* backend: content of each record, None when absent
  stream,      \* lifecycle events not yet acknowledged
  emitted,     \* events emitted per record so far
  envelopes,   \* sidecar envelope table
  verdicts,    \* sidecar verdict table
  audit,       \* entries on the audit chain (as a set)
  bloom, lru,  \* the oracle: ids in the filter, cached verdicts
  env_cache,   \* the interceptor's write-through envelope cache
  clock,
  writer, reader, scanner,  \* local state of the threads
  origin,      \* history: the envelope each record is born to carry
  benign,      \* history: <<record, content>> the guardrail found benign
  attested,    \* history: <<record, content>> stamped, or bound from an event
  delivered    \* history: what retrieve() has returned

backend == <<store, stream, emitted>>
tables  == <<envelopes, verdicts, audit>>
caches  == <<bloom, lru, env_cache>>
threads == <<writer, reader, scanner>>
history == <<origin, benign, attested, delivered>>
vars    == <<backend, tables, caches, clock, threads, history>>

-----------------------------------------------------------------------------
(* Values. *)

PENDING == "PENDING"
CLEARED == "CLEARED"
FAILED  == "FAILED"

Verdict == [verdict : {PENDING, CLEARED, FAILED}, verdict_digest : Digests]

ASSUME NoneIsNoVerdict == None \notin Verdict

Item    == [rec : Records, content : Contents]
Event   == [event_type : {"CREATE", "UPDATE", "DELETE"}, rec : Records,
            content : Contents \cup {None}, ts : Nat, seq : Nat]
AuditEntry == [op : {"WRITE", "WRITE_REJECTED", "READ", "READ_DROP"},
               rec : Records \cup {None}]

IdleWriter  == [pc |-> "idle"]
IdleReader  == [pc |-> "idle"]
IdleScanner == [pc |-> "idle"]

WriterState  == [pc : {"put", "envelope", "pending", "finish"},
                 rec : Records, content : Contents, env : Envelope]
ReaderState  == [pc : {"next", "oracle", "hop", "drop"},
                 todo : SUBSET Item, admitted : SUBSET Item,
                 item : Item \cup {None}, now : Nat,
                 env : Envelope \cup {None},
                 gate : {"", "envelope_miss", "degraded", "quarantine", "ttl",
                         "integrity", "trust_gate"}]
ScannerState == [pc : {"bind", "existing", "assess", "publish", "delete", "ack"},
                 event : Event, env : Envelope \cup {None},
                 verdict : Verdict \cup {None}]

StampFor(content, channel) ==
  stamp(tier_for_channel(channel), content, expires_at(clock, ttl[channel]),
        ScoreOf(content, channel) >= QUARANTINE_THRESHOLD)

\* What the extraction pipeline's records get: DERIVED, never quarantined.
StampDerived(content, ts) ==
  stamp(DERIVED, content, expires_at(ts, ttl["extraction"]), FALSE)

Entry(op, rec) == [op |-> op, rec |-> rec]

\* Mutant: a failed append is swallowed.
audit_append_best_effort(op, rec) == audit' \in {audit, audit \cup {Entry(op, rec)}}

audit_append(op, rec) == audit' = audit \cup {Entry(op, rec)}

Init ==
  /\ store     = [r \in Records |-> None]
  /\ stream    = {}
  /\ emitted   = [r \in Records |-> 0]
  /\ envelopes = [r \in Records |-> None]
  /\ verdicts  = [r \in Records |-> None]
  /\ audit     = {}
  /\ bloom     = {}
  /\ lru       = [r \in Records |-> None]
  /\ env_cache = [r \in Records |-> None]
  /\ clock     = 0
  /\ writer    = [w \in Writers |-> IdleWriter]
  /\ reader    = [p \in Readers |-> IdleReader]
  /\ scanner   = [s \in Scanners |-> IdleScanner]
  /\ origin    = [r \in Records |-> None]
  /\ benign    = {}
  /\ attested  = {}
  /\ delivered = {}

-----------------------------------------------------------------------------
(* The backend and its record stream: every change emits an event.         *)

emit(event_type, r, content) ==
  /\ stream' = stream \cup {[event_type |-> event_type, rec |-> r,
                             content |-> content, ts |-> clock,
                             seq |-> emitted[r]]}
  /\ emitted' = [emitted EXCEPT ![r] = @ + 1]

\* The managed extraction pipeline creates a record write() never saw.
ExtractionCreate(r, content) ==
  /\ origin[r] = None
  /\ store' = [store EXCEPT ![r] = content]
  /\ emit("CREATE", r, content)
  /\ origin' = [origin EXCEPT ![r] = StampDerived(content, clock)]
  /\ UNCHANGED <<tables, caches, clock, threads, benign, attested, delivered>>

\* The managed backend rewrites a record (consolidation, or an outsider).
BackendUpdate(r, content) ==
  /\ store[r] \notin {None, content} /\ emitted[r] < MaxEvents
  /\ store' = [store EXCEPT ![r] = content]
  /\ emit("UPDATE", r, content)
  /\ UNCHANGED <<tables, caches, clock, threads, history>>

BackendDelete(r) ==
  /\ store[r] # None /\ emitted[r] < MaxEvents
  /\ store' = [store EXCEPT ![r] = None]
  /\ emit("DELETE", r, None)
  /\ UNCHANGED <<tables, caches, clock, threads, history>>

Tick ==
  /\ clock < MaxClock
  /\ clock' = clock + 1
  /\ UNCHANGED <<backend, tables, caches, threads, history>>

-----------------------------------------------------------------------------
(* The oracle.                                                             *)

\* Mutant: only clearances are published, failures are not.
publish_clearances(r, v) ==
  IF v.verdict = FAILED THEN UNCHANGED <<bloom, lru>>
  ELSE bloom' = bloom \cup {r} /\ lru' = [lru EXCEPT ![r] = v]

\* The newest verdict is kept; over the bound, older ones are evicted.
publish(r, v) ==
  IF ~UseOracle THEN UNCHANGED <<bloom, lru>>
  ELSE /\ bloom' = bloom \cup {r}
       /\ \E kept \in SUBSET {q \in Records \ {r} : lru[q] # None} :
            LET cached == {q \in Records \ {r} : lru[q] # None}
            IN  /\ IF Cardinality(cached) < LruSize
                   THEN kept = cached ELSE Cardinality(kept) = LruSize - 1
                /\ lru' = [q \in Records |-> IF q = r THEN v
                                             ELSE IF q \in kept THEN lru[q]
                                             ELSE None]

-----------------------------------------------------------------------------
(* write(): scan, stamp, audit, backend.put, put_envelope, PENDING verdict,*)
(* local caches.  The record id, which backend.put chooses, is named one   *)
(* step early, where the code has the envelope id.                         *)

RejectWrite(w, content, channel) ==
  /\ writer[w] = IdleWriter
  /\ ScoreOf(content, channel) >= REJECT_THRESHOLD
  /\ audit_append("WRITE_REJECTED", None)
  /\ UNCHANGED <<backend, envelopes, verdicts, caches, clock, threads, history>>

StartWrite(w, r, content, channel) ==
  LET env == StampFor(content, channel)
  IN  /\ writer[w] = IdleWriter /\ origin[r] = None
      /\ ScoreOf(content, channel) < REJECT_THRESHOLD
      /\ audit_append("WRITE", r)
      /\ writer' = [writer EXCEPT ![w] = [pc |-> "put", rec |-> r,
                                          content |-> content, env |-> env]]
      /\ origin' = [origin EXCEPT ![r] = env]
      /\ attested' = attested \cup {<<r, content>>}
      /\ UNCHANGED <<backend, envelopes, verdicts, caches, clock, reader,
                     scanner, benign, delivered>>

BackendPut(w) ==
  /\ writer[w].pc = "put"
  /\ store' = [store EXCEPT ![writer[w].rec] = writer[w].content]
  /\ emit("CREATE", writer[w].rec, writer[w].content)
  /\ writer' = [writer EXCEPT ![w].pc = "envelope"]
  /\ UNCHANGED <<tables, caches, clock, reader, scanner, history>>

PutEnvelope(w) ==
  /\ writer[w].pc = "envelope"
  /\ envelopes' = [envelopes EXCEPT ![writer[w].rec] = writer[w].env]
  /\ writer' = [writer EXCEPT ![w].pc =
                  IF writer[w].env.quarantined THEN "pending" ELSE "finish"]
  /\ UNCHANGED <<backend, verdicts, audit, caches, clock, reader, scanner, history>>

PendingVerdict(w) ==
  [verdict |-> PENDING, verdict_digest |-> writer[w].env.content_sha256]

PutPending(w) ==
  /\ writer[w].pc = "pending"
  /\ verdicts' = [verdicts EXCEPT ![writer[w].rec] = PendingVerdict(w)]
  /\ writer' = [writer EXCEPT ![w].pc = "finish"]
  /\ UNCHANGED <<backend, envelopes, audit, caches, clock, reader, scanner, history>>

FinishWrite(w) ==
  /\ writer[w].pc = "finish"
  /\ IF writer[w].env.quarantined THEN publish(writer[w].rec, PendingVerdict(w))
                                  ELSE UNCHANGED <<bloom, lru>>
  /\ env_cache' = [env_cache EXCEPT ![writer[w].rec] = writer[w].env]
  /\ writer' = [writer EXCEPT ![w] = IdleWriter]
  /\ UNCHANGED <<backend, tables, clock, reader, scanner, history>>

\* A call of write() raises, with or without having taken effect.
WriteRaises(w) ==
  /\ "write" \in Faults /\ writer[w] # IdleWriter
  /\ writer' = [writer EXCEPT ![w] = IdleWriter]
  /\ UNCHANGED <<backend, tables, caches, clock, reader, scanner, history>>

-----------------------------------------------------------------------------
(* retrieve(): the gates, as functions of a reader's local state.          *)

\* Mutant: a clearance of any content the record ever had will do.
cleared_once(env, v) == v # None /\ v.verdict = CLEARED

\* _cleared() is True: a CLEARED verdict for the envelope's current digest.
cleared(env, v) ==
  /\ v # None
  /\ v.verdict_digest = env.content_sha256
  /\ v.verdict = CLEARED

Advance(st, admitted) ==
  [st EXCEPT !.pc = "next", !.admitted = admitted, !.item = None,
             !.now = 0, !.env = None, !.gate = ""]
Admit(st)        == Advance(st, st.admitted \cup {st.item})
DropAt(st, gate) == [st EXCEPT !.pc = "drop", !.gate = gate]
Ask(st, gate)    == [st EXCEPT !.pc = IF UseOracle THEN "oracle" ELSE "hop",
                               !.gate = gate]

Intact(env, item) == VerifyIntegrity => verify_integrity(env, item.content)

\* Mutant: the integrity gate is left out.
StoppedByTtl(st, env) == IF expired(env, st.now) THEN "ttl" ELSE ""

\* Gates 2 (TTL) and 3 (integrity), in that order: the one that stops env.
StoppedBy(st, env) ==
  IF expired(env, st.now) THEN "ttl"
  ELSE IF ~Intact(env, st.item) THEN "integrity" ELSE ""

\* Mutant: the policy floor is off by one.
AfterQuarantineBelow(st) ==
  IF StoppedBy(st, st.env) # "" THEN DropAt(st, StoppedBy(st, st.env))
  ELSE IF st.env.trust_tier + 1 < MinTier THEN Ask(st, "trust_gate") ELSE Admit(st)

\* Gates 2, 3 and 4 (trust tier).
AfterQuarantine(st) ==
  IF StoppedBy(st, st.env) # "" THEN DropAt(st, StoppedBy(st, st.env))
  ELSE IF st.env.trust_tier < MinTier THEN Ask(st, "trust_gate") ELSE Admit(st)

\* Mutant: gate 1 is left out.
AfterEnvelopeUngated(st) ==
  IF st.env = None THEN DropAt(st, "envelope_miss") ELSE AfterQuarantine(st)

AfterEnvelope(st) ==
  IF st.env = None THEN DropAt(st, "envelope_miss")
  ELSE IF st.env.quarantined /\ DropQuarantined THEN Ask(st, "quarantine")
  ELSE AfterQuarantine(st)

AfterVerdict(st, v) ==
  IF ~cleared(st.env, v) THEN DropAt(st, st.gate)
  ELSE IF st.gate = "quarantine" THEN AfterQuarantine(st) ELSE Admit(st)

\* Mutant: degraded mode forgets the retention.
DegradeExpired(st) ==
  IF /\ st.env.trust_tier >= FIRST_PARTY /\ ~st.env.quarantined
     /\ verify_integrity(st.env, st.item.content)
  THEN Admit(st) ELSE DropAt(st, "degraded")

\* SidecarUnavailable inside the gates, the envelope being at hand.
Degrade(st) ==
  IF /\ st.env.trust_tier >= FIRST_PARTY /\ ~expired(st.env, st.now)
     /\ verify_integrity(st.env, st.item.content) /\ ~st.env.quarantined
  THEN Admit(st) ELSE DropAt(st, "degraded")

\* Mutant: degraded mode trusts whatever is cached locally.
DegradeWithoutTier(st, cached) ==
  IF cached = None THEN DropAt(st, "degraded")
  ELSE IF StoppedBy(st, cached) # "" THEN DropAt(st, StoppedBy(st, cached))
  ELSE Admit(st)

\* SidecarUnavailable from get_envelope: decide on the locally cached one.
DegradeWithout(st, cached) ==
  IF cached = None \/ cached.trust_tier < FIRST_PARTY THEN DropAt(st, "degraded")
  ELSE IF StoppedBy(st, cached) # "" THEN DropAt(st, StoppedBy(st, cached))
  ELSE Admit(st)

\* A drop whose audit entry fails is caught by the gates' own handler.
Guarded(st) == st.env # None /\ st.gate # "degraded"

-----------------------------------------------------------------------------
(* retrieve(): the calls.                                                  *)

\* A step that changes nothing but the reader's local state.
ReaderTo(p, st) ==
  /\ reader' = [reader EXCEPT ![p] = st]
  /\ UNCHANGED <<backend, tables, caches, clock, writer, scanner, history>>

Down(table) == table \in Faults

Stored == {item \in Item : store[item.rec] = item.content}

\* backend.retrieve answers with its k best matches: any of the stored records.
StartRetrieve(p, candidates) ==
  /\ reader[p] = IdleReader
  /\ candidates # {} /\ candidates \subseteq Stored
  /\ ReaderTo(p, [pc |-> "next", todo |-> candidates, admitted |-> {},
                  item |-> None, now |-> 0, env |-> None, gate |-> ""])

\* A namespace outside the tenant's prefix is answered with nothing, on record.
RetrieveElsewhere(p) ==
  /\ ForeignReads /\ reader[p] = IdleReader
  /\ audit_append("READ_DROP", None)
  /\ UNCHANGED <<backend, envelopes, verdicts, caches, clock, threads, history>>

\* The state in which _admit() has read the clock and fetched the envelope.
Judging(p, item, env) ==
  [reader[p] EXCEPT !.todo = @ \ {item}, !.item = item, !.now = clock, !.env = env]

GetEnvelope(p, item) ==
  /\ reader[p].pc = "next" /\ item \in reader[p].todo
  /\ ReaderTo(p, AfterEnvelope(Judging(p, item, envelopes[item.rec])))

EnvelopeTableDown(p, item) ==
  /\ Down("envelopes")
  /\ reader[p].pc = "next" /\ item \in reader[p].todo
  /\ ReaderTo(p, DegradeWithout(Judging(p, item, None), env_cache[item.rec]))

\* oracle.lookup: a filter negative decides, a cached verdict decides, a filter
\* positive without one (or a false positive) goes to the sidecar.
ConsultOracle(p) ==
  LET r == reader[p].item.rec
  IN  /\ reader[p].pc = "oracle"
      /\ \/ r \notin bloom /\ ReaderTo(p, AfterVerdict(reader[p], None))
         \/ r \in bloom /\ lru[r] # None /\ ReaderTo(p, AfterVerdict(reader[p], lru[r]))
         \/ lru[r] = None /\ ReaderTo(p, [reader[p] EXCEPT !.pc = "hop"])

GetVerdict(p) ==
  /\ reader[p].pc = "hop"
  /\ ReaderTo(p, AfterVerdict(reader[p], verdicts[reader[p].item.rec]))

QuarantineTableDown(p) ==
  /\ Down("quarantine") /\ reader[p].pc = "hop"
  /\ ReaderTo(p, Degrade(reader[p]))

Drop(p) ==
  /\ reader[p].pc = "drop"
  /\ audit_append("READ_DROP", reader[p].item.rec)
  /\ reader' = [reader EXCEPT ![p] = Advance(reader[p], reader[p].admitted)]
  /\ UNCHANGED <<backend, envelopes, verdicts, caches, clock, writer, scanner, history>>

\* Mutant: the reader goes on without the entry.
DropAuditDownSilently(p) ==
  /\ Down("audit") /\ reader[p].pc = "drop"
  /\ ReaderTo(p, Advance(reader[p], reader[p].admitted))

DropAuditDown(p) ==
  /\ Down("audit") /\ reader[p].pc = "drop"
  /\ ReaderTo(p, IF Guarded(reader[p]) THEN Degrade(reader[p]) ELSE IdleReader)

Return(p) ==
  /\ reader[p].pc = "next" /\ reader[p].todo = {}
  /\ audit_append("READ", None)
  /\ delivered' = delivered \cup reader[p].admitted
  /\ reader' = [reader EXCEPT ![p] = IdleReader]
  /\ UNCHANGED <<backend, envelopes, verdicts, caches, clock, writer, scanner,
                 origin, benign, attested>>

ReturnAuditDown(p) ==
  /\ Down("audit") /\ reader[p].pc = "next" /\ reader[p].todo = {}
  /\ ReaderTo(p, IdleReader)

\* The interceptor process restarts: its threads, caches and oracle are gone.
Restart ==
  /\ "restart" \in Faults
  /\ writer' = [w \in Writers |-> IdleWriter]
  /\ reader' = [p \in Readers |-> IdleReader]
  /\ bloom' = {}
  /\ lru' = [r \in Records |-> None]
  /\ env_cache' = [r \in Records |-> None]
  /\ UNCHANGED <<backend, tables, clock, scanner, history>>

-----------------------------------------------------------------------------
(* handle_record_event(): one action per sidecar call.                     *)

\* A step that changes nothing but the scanner's local state.
ScannerTo(s, st) ==
  /\ scanner' = [scanner EXCEPT ![s] = st]
  /\ UNCHANGED <<backend, tables, caches, clock, writer, reader, history>>

\* At-least-once delivery: an event stays in the stream until acknowledged.
Deliverable(s, e) ==
  /\ scanner[s] = IdleScanner /\ e \in stream
  /\ OrderedStream =>
       /\ \A f \in stream : f.rec = e.rec => e.seq <= f.seq
       /\ \A t \in Scanners : scanner[t] # IdleScanner => scanner[t].event.rec # e.rec

\* A missing envelope becomes a DERIVED one; an existing one takes the digest
\* of the event's content, whichever it had.
Upserted(found, e) ==
  IF found = None
  THEN StampDerived(e.content, e.ts)
  ELSE [found EXCEPT !.content_sha256 = sha256_hex[e.content]]

Receive(s, e) ==
  LET env == Upserted(envelopes[e.rec], e)
  IN  /\ Deliverable(s, e) /\ e.event_type # "DELETE"
      /\ ScannerTo(s, [pc |-> IF envelopes[e.rec] = env THEN "existing" ELSE "bind",
                       event |-> e, env |-> env, verdict |-> None])

ReceiveDelete(s, e) ==
  /\ Deliverable(s, e) /\ e.event_type = "DELETE"
  /\ envelopes' = [envelopes EXCEPT ![e.rec] = None]
  /\ scanner' = [scanner EXCEPT ![s] =
       [pc |-> "delete", event |-> e, env |-> None, verdict |-> None]]
  /\ UNCHANGED <<backend, verdicts, audit, caches, clock, writer, reader, history>>

DeleteVerdict(s) ==
  /\ scanner[s].pc = "delete"
  /\ verdicts' = [verdicts EXCEPT ![scanner[s].event.rec] = None]
  /\ scanner' = [scanner EXCEPT ![s].pc = "ack"]
  /\ UNCHANGED <<backend, envelopes, audit, caches, clock, writer, reader, history>>

Bind(s) ==
  LET e == scanner[s].event
  IN  /\ scanner[s].pc = "bind"
      /\ envelopes' = [envelopes EXCEPT ![e.rec] = scanner[s].env]
      /\ attested' = attested \cup {<<e.rec, e.content>>}
      /\ scanner' = [scanner EXCEPT ![s].pc = "existing"]
      /\ UNCHANGED <<backend, verdicts, audit, caches, clock, writer, reader,
                     origin, benign, delivered>>

\* Mutant: any final verdict makes a delivery a redelivery.
SettledAnyDigest(existing, digest) ==
  existing # None /\ existing.verdict \in {CLEARED, FAILED}

\* The redelivery no-op: this very content has its final verdict already.
Settled(existing, digest) ==
  /\ existing # None
  /\ existing.verdict_digest = digest
  /\ existing.verdict \in {CLEARED, FAILED}

InScope(env, existing) ==
  \/ env.trust_tier \in ScanTiers
  \/ existing # None /\ existing.verdict \notin {CLEARED, FAILED}

ReadExisting(s) ==
  LET existing == verdicts[scanner[s].event.rec]
      digest   == sha256_hex[scanner[s].event.content]
  IN  /\ scanner[s].pc = "existing"
      /\ ScannerTo(s, [scanner[s] EXCEPT !.pc =
           IF InScope(scanner[s].env, existing) /\ ~Settled(existing, digest)
           THEN "assess" ELSE "ack"])

\* guardrail.assess and put_verdict.
AssessContent(s, attack) ==
  LET e == scanner[s].event
      v == [verdict |-> IF attack THEN FAILED ELSE CLEARED,
            verdict_digest |-> sha256_hex[e.content]]
  IN  /\ scanner[s].pc = "assess" /\ attack \in Assess[e.content]
      /\ verdicts' = [verdicts EXCEPT ![e.rec] = v]
      /\ benign' = IF attack THEN benign ELSE benign \cup {<<e.rec, e.content>>}
      /\ scanner' = [scanner EXCEPT ![s].pc = IF UseOracle THEN "publish" ELSE "ack",
                                    ![s].verdict = v]
      /\ UNCHANGED <<backend, envelopes, audit, caches, clock, writer, reader,
                     origin, attested, delivered>>

Publish(s) ==
  /\ scanner[s].pc = "publish"
  /\ publish(scanner[s].event.rec, scanner[s].verdict)
  /\ scanner' = [scanner EXCEPT ![s].pc = "ack"]
  /\ UNCHANGED <<backend, tables, env_cache, clock, writer, reader, history>>

\* The handler has returned: the stream's checkpoint moves past the event...
Acknowledge(s) ==
  /\ scanner[s].pc = "ack"
  /\ stream' = stream \ {scanner[s].event}
  /\ scanner' = [scanner EXCEPT ![s] = IdleScanner]
  /\ UNCHANGED <<store, emitted, tables, caches, clock, writer, reader, history>>

\* ... or is lost, and the event will be delivered again.
LoseCheckpoint(s) ==
  /\ scanner[s].pc = "ack"
  /\ ScannerTo(s, IdleScanner)

ScanRaises(s) ==
  /\ "scan" \in Faults /\ scanner[s] # IdleScanner /\ scanner[s].pc # "ack"
  /\ ScannerTo(s, IdleScanner)

-----------------------------------------------------------------------------
Environment ==
  \/ \E r \in Records, content \in Contents :
       ExtractionCreate(r, content) \/ BackendUpdate(r, content)
  \/ \E r \in Records : BackendDelete(r)
  \/ Tick
  \/ Restart

WriterStep(w) ==
  \/ BackendPut(w) \/ PutEnvelope(w) \/ PutPending(w) \/ FinishWrite(w)

WriterNext(w) ==
  \/ \E content \in Contents, channel \in Channels :
       \/ RejectWrite(w, content, channel)
       \/ \E r \in Records : StartWrite(w, r, content, channel)
  \/ WriterStep(w)
  \/ WriteRaises(w)

ReaderNext(p) ==
  \/ RetrieveElsewhere(p)
  \/ \E candidates \in SUBSET Stored : StartRetrieve(p, candidates)
  \/ \E item \in Item : GetEnvelope(p, item) \/ EnvelopeTableDown(p, item)
  \/ ConsultOracle(p) \/ GetVerdict(p) \/ QuarantineTableDown(p)
  \/ Drop(p) \/ DropAuditDown(p)
  \/ Return(p) \/ ReturnAuditDown(p)

ScannerStep(s) ==
  \/ DeleteVerdict(s) \/ Bind(s) \/ ReadExisting(s)
  \/ \E attack \in BOOLEAN : AssessContent(s, attack)
  \/ Publish(s)

ScannerNext(s) ==
  \/ \E e \in stream : Receive(s, e) \/ ReceiveDelete(s, e)
  \/ ScannerStep(s)
  \/ Acknowledge(s) \/ LoseCheckpoint(s)
  \/ ScanRaises(s)

Next ==
  \/ Environment
  \/ \E w \in Writers : WriterNext(w)
  \/ \E p \in Readers : ReaderNext(p)
  \/ \E s \in Scanners : ScannerNext(s)

Spec == Init /\ [][Next]_vars

-----------------------------------------------------------------------------
(* Properties.                                                             *)

\* Every variable stays in its type; in particular a thread inside a call
\* holds the envelope, item or event that call works on.
TypeOK ==
  /\ store     \in [Records -> Contents \cup {None}]
  /\ stream    \in SUBSET Event
  /\ emitted   \in [Records -> Nat]
  /\ envelopes \in [Records -> Envelope \cup {None}]
  /\ verdicts  \in [Records -> Verdict \cup {None}]
  /\ audit     \in SUBSET AuditEntry
  /\ bloom     \in SUBSET Records
  /\ lru       \in [Records -> Verdict \cup {None}]
  /\ env_cache \in [Records -> Envelope \cup {None}]
  /\ clock     \in Nat
  /\ writer    \in [Writers -> WriterState \cup {IdleWriter}]
  /\ reader    \in [Readers -> ReaderState \cup {IdleReader}]
  /\ scanner   \in [Scanners -> ScannerState \cup {IdleScanner}]
  /\ origin    \in [Records -> Envelope \cup {None}]
  /\ benign    \in SUBSET (Records \X Contents)
  /\ attested  \in SUBSET (Records \X Contents)
  /\ delivered \in SUBSET Item

FoundBenign(item) == <<item.rec, item.content>> \in benign

\* Gate 4's promise (governed.py:207): what a record of a tier below the policy
\* floor says reaches an agent only if the deep scan found exactly that content
\* benign, whatever the interleaving of writer, scanner, readers and outages.
BelowFloorNeedsClearance ==
  \A item \in delivered :
    origin[item.rec].trust_tier < MinTier => FoundBenign(item)

\* Gate 1's promise (detect/rules.py:9): a record L1 quarantined stays invisible
\* until the deep scan clears the content that is delivered.
QuarantinedInvisible ==
  \A item \in delivered : origin[item.rec].quarantined => FoundBenign(item)

\* Gate 3's promise: content swapped in the backend is never delivered before
\* the scanner has seen it; every delivered content was stamped or scanned.
NoUnattestedContent ==
  \A item \in delivered : <<item.rec, item.content>> \in attested

\* The normative write order: no record write() put in the backend lacks its
\* WRITE entry, however the write ended.
StoredIsAudited ==
  \A r \in Records :
    store[r] # None /\ origin[r].trust_tier # DERIVED => Entry("WRITE", r) \in audit

\* No candidate disappears silently: one that a reader neither keeps for later
\* nor admits is dropped under a READ_DROP entry, or retrieve() raises.
NoSilentDrop ==
  [][\A p \in Readers : reader[p] # IdleReader /\ reader'[p] # IdleReader =>
       \A item \in (reader[p].todo \cup {reader[p].item}) \ {None} :
         \/ item \in reader'[p].todo \cup {reader'[p].item} \cup reader'[p].admitted
         \/ Entry("READ_DROP", item.rec) \in audit']_vars

\* The clock reading on which reader p bases its current decision.
ReadTime(p) == IF reader[p].pc = "next" THEN clock ELSE reader[p].now

NewlyAdmitted(p) ==
  IF reader[p] = IdleReader \/ reader'[p] = IdleReader THEN {}
  ELSE reader'[p].admitted \ reader[p].admitted

\* Reader p decides on an envelope that the scanner stamped, whose retention
\* runs from an event (see ProvenanceKept for a record write() had stamped).
ByDerivedStamp(p, r) ==
  LET env == IF reader[p].pc = "next" THEN envelopes[r] ELSE reader[p].env
  IN  env # None /\ env.trust_tier = DERIVED

\* Gate 2's promise: no path of _admit(), degraded ones included, admits a
\* record past the retention it was written with.
RetentionHonoured ==
  [][\A p \in Readers : \A item \in NewlyAdmitted(p) :
       expired(origin[item.rec], ReadTime(p)) => ByDerivedStamp(p, item.rec)]_vars

\* A verdict on its way to the oracle.
Publishing(r) ==
  \/ \E w \in Writers : writer[w].pc = "finish" /\ writer[w].rec = r
  \/ \E s \in Scanners : scanner[s].pc = "publish" /\ scanner[s].event.rec = r

\* cache.py:8: the filter has no false negatives: a record whose verdict is in
\* the table is in the filter, or its verdict is just being published.
NoFalseNegatives ==
  \A r \in Records : verdicts[r] # None => r \in bloom \/ Publishing(r)

\* scanner.py:57: only a write the interceptor never saw gets the DERIVED
\* envelope; a record write() stamped keeps its tier, expiry and quarantine.
ProvenanceKept ==
  \A r \in Records :
    (envelopes[r] # None /\ \A w \in Writers : writer[w] # IdleWriter => writer[w].rec # r)
    => [envelopes[r] EXCEPT !.content_sha256 = origin[r].content_sha256] = origin[r]

\* Fairness: a thread inside write() and a scanner inside its handler run on,
\* the stream delivers what it holds, and not every checkpoint is lost.
Fairness ==
  /\ \A w \in Writers : WF_vars(WriterStep(w))
  /\ \A s \in Scanners :
       /\ WF_vars(ScannerStep(s))
       /\ WF_vars(\E e \in stream : Receive(s, e) \/ ReceiveDelete(s, e))
       /\ SF_vars(Acknowledge(s))

FairSpec == Spec /\ Fairness

\* A final verdict on what the record holds now.
Judged(r) ==
  /\ verdicts[r] # None /\ verdicts[r].verdict # PENDING
  /\ verdicts[r].verdict_digest = sha256_hex[store[r]]

\* The safety half of UntrustedEventuallyJudged, in an ordered stream and whatever raises:
\* what a record in scope holds has its final verdict, or is the content of the
\* last event of the record, and that event is still to be acknowledged.  What write()
\* quarantined is QuarantineResolves' subject, and does not hold.
UnjudgedIsPending ==
  \A r \in Records :
    (store[r] # None /\ origin[r].trust_tier \in ScanTiers /\ ~origin[r].quarantined)
    => \/ Judged(r)
       \/ \E e \in stream :
            /\ e.rec = r /\ e.event_type # "DELETE" /\ e.content = store[r]
            /\ \A f \in stream : f.rec = r => f.seq <= e.seq

\* README: untrusted content is delayed until classified: the scanner ends up
\* with a final verdict on what a record in scope holds, updates included, unless
\* write() quarantined it (QuarantineResolves).
UntrustedEventuallyJudged ==
  \A r \in Records :
    (store[r] # None /\ origin[r].trust_tier \in ScanTiers /\ ~origin[r].quarantined)
      ~> (store[r] = None \/ Judged(r))

\* scanner.py:84: a record the interceptor quarantined is always scanned, so
\* that its quarantine resolves.
QuarantineResolves ==
  \A r \in Records :
    (store[r] # None /\ origin[r].quarantined) ~> (store[r] = None \/ Judged(r))
=============================================================================
