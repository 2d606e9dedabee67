# memwarden: specification and proofs

This directory specifies memwarden, a governance layer between LLM agents and a
managed memory store, in TLA+. The modules model the concurrent core of the
code as it runs in production, where several threads, stream consumers and processes
share only a few DynamoDB tables, and its library topology, where one process does everything.
TLC checks small instances and TLAPS proves the central safety
properties for every value of the constants. Paths are relative to the
repository; `governed.py` is `memwarden/governed.py`, and so on.

## The system

| Part | State | Operations |
|---|---|---|
| interceptor (`governed.py`) | write-through envelope cache `_env_cache` | `write`, `retrieve` with the gates of `_admit`, `erase_subject`, `verify_certificate` |
| envelope (`envelope.py`) | none, a value | `stamp`, `expired`, `verify_integrity`, `tier_for_channel` |
| deep scanner (`l2/scanner.py`) | none of its own | `handle_record_event` for CREATE, UPDATE and DELETE of a record |
| verdict oracle (`cache.py`) | Bloom filter, LRU of verdicts | `publish`, `lookup` |
| sidecar (`sidecar/dynamo.py`, `sidecar/local.py`) | tables of envelopes, verdicts, audit entries and certificates; per process a cache of the audit head | reads and writes of one row each, `audit_append`, `set_legal_hold`, index walks |
| audit chain (`audit.py`) | the entries of a tenant | linking, `verify`, `merkle_root` |
| anchor and verifier (`anchor.py`, `verify_cli.py`) | write-once anchors | `anchor_chains`, `verify_tenant` |
| sweep (`sweep.py`) | none | `sweep_tenant` |
| first-line scan (`detect/rules.py`) | none | `scan` |
| policy (`policy.py`) | none | `resolve_retention`, admission parameters |
| backends (`backends/*.py`) | the records, outside the layer's control | `put`, `retrieve`, `list`, `list_by_actor`, `delete`, `batch_delete` |
| Redis adapter (`backends/redis.py`) | a hash per record, a set of ids per namespace and per actor | the same, each several commands |
| lab (`lab.py`) | what it injected and what became of it | `run_scenario`: writes, probes, deep scan, tampering, erasure, sweep, report |

How they interact. A caller's `write()` scores the content, stamps an envelope, appends
to the audit chain, puts the record in the backend, then the envelope and, for
content in the quarantine band, a PENDING verdict. `backend.put` makes the
managed store emit a CREATE event, so from that moment on a scanner runs against the
tail of the same `write()`. The scanner refreshes or creates the
envelope, asks a guardrail and puts a verdict. A reader fetches the envelope
and, where the gates want one, a verdict, while both of the others go on and while
the backend may rewrite the record. Nothing locks anything: every row is put
unconditionally, except audit entries, whose put is conditional on a free sort key.

What is hard about it:

- every sidecar call is a point at which another actor's step fits, and each actor
  keeps what it read across such points;
- lifecycle events are delivered at least once, late, and to two consumers at a time;
- a call may fail before or after it took effect, and `write()` leaves what it did;
- with a table out of reach, reads go on in one of two degraded modes;
- audit heads are read with eventually consistent queries and cached per process;
- an anchor notes the heads of many chains one after the other, and a verifier reads an anchor
  and a chain page by page, while appends to all of them go on;
- a Redis record is in three places, and no transaction binds them.

## Modules

| Module | Models | Reads like |
|---|---|---|
| `Envelope` | `envelope.py` | operators on envelopes |
| `Detect` | the score of `detect/rules.py`, the thresholds of `write()` | operators on scores |
| `GovernedMemory` | `governed.py` (`write`, `retrieve`), `l2/scanner.py`, `cache.py`, the envelope and verdict tables | one action per call on shared state |
| `MCGovernedMemory` | - | contents, scores, hashes and retentions for TLC |
| `GovernedMemoryProofs` | - | theorems and their proofs |
| `InterceptorProofs` | - | more of them: writes, reads, retention, the filter, what the scanner is owed |
| `AuditChain` | `audit.py` | operators on entries |
| `AuditLog` | what `audit_append` promises its callers | abstract specification |
| `Anchor` | `anchor.py`, `verify_cli.py`, `merkle_root` of `audit.py`, the paged reads of the audit table | one action per call, one per page |
| `MCAnchor` | - | hashes that spell their preimage, two tenants; `merkle_root` on all short lists |
| `AnchorProofs` | - | theorems and their proofs |
| `DynamoAudit` | `audit_append` and `_read_head` of `sidecar/dynamo.py` | one action per request |
| `MCDynamoAudit` | - | a hash that is its own preimage, two processes |
| `DynamoAuditProofs` | - | theorems and their proofs |
| `Erasure` | `erase_subject`, `sweep.py`, legal holds, the indexes, `batch_delete` and the event tier, against `write` and the scanner | one action per call on shared state |
| `MCErasure` | - | the records and events of one actor |
| `ErasureProofs` | - | theorems and their proofs |
| `MemoryBackend` | `backends/base.py` for callers that run at once | abstract specification |
| `RedisBackend` | `backends/redis.py` | one action per Redis command |
| `MCRedisBackend` | - | a namespace, an actor, a query |
| `RedisBackendProofs` | - | theorems and their proofs |
| `RedisBackendRefinement` | - | that `RedisBackend` implements `MemoryBackend`, proved |
| `Lab` | `lab.py`, and of the library it drives: `write`, `_admit`, `erase_subject`, `sweep_tenant`, `resolve_retention`, `InMemoryBackend`, `LocalSidecar` | one action per public call or phase |
| `MCLab` | - | attacks that L1 rejects, quarantines or overlooks |
| `LabProofs` | - | theorems and their proofs |

`GovernedMemory` and `Lab` extend `Detect`, which extends `Envelope`; `DynamoAudit` and `Anchor` extend
`AuditChain`. `DynamoAudit` instantiates `AuditLog` and `RedisBackend` instantiates `MemoryBackend`
as the specifications they implement.

### GovernedMemory

State: `store`, `stream` and `emitted` are the backend and its record stream;
`envelopes`, `verdicts` and `audit` the sidecar tables; `bloom` and `lru` the
oracle; `env_cache` and `clock` the interceptor's. `writer`, `reader` and
`scanner` hold each thread's position and locals: a thread stands just before its
next call on shared state, and an action is that call with the computation that
follows up to the next one. The gates of `_admit()` are therefore functions of a reader's
locals (`AfterEnvelope`, `AfterQuarantine`, `AfterVerdict`, `Degrade`,
`DegradeWithout`) that say where the reader stands next. The history
variables `origin`, `benign`, `attested` and `delivered` record what a property needs to
speak of: the envelope a record was born to carry, what the guardrail found benign,
what was ever stamped or scanned, and what agents received.

Conventions: an envelope keeps the four fields the gates and the scanner read;
audit entries are a set here, since their order is the subject of `DynamoAudit`;
a record id, which the backend chooses in `put`, is named in `StartWrite`, one step
early; a Bloom filter positive on an absent id is a nondeterministic choice of
`ConsultOracle`; the guardrail may answer anything in `Assess`. `assess` and
`put_verdict` are one action, because nothing shared is read between them. Envelopes pass by
value, as with DynamoDB; `LocalSidecar` hands out references and is meant for a
single process. Tables are read as they are at the moment of the call: the eventual
consistency of `get_item` is not modelled here.

### DynamoAudit

`chain` is the table, `head_cache` the cache each `DynamoSidecar` keeps and its
threads share, `pc`, `held` and `tries` the locals of each call. `ReadableHeads` is
what `_read_head()` may answer: with `StaleReads`, any head the chain has had.
`PutItem` is the conditional put. It may succeed (`Put`), succeed with its response lost so
that the SDK sends it again and meets its own entry (`PutResent`, then
`Conflict`), or succeed and still raise for the caller (`PutRaises`). `Crash` empties a process's
cache and ends its calls. The hash is a constant operator: what is proved
needs no property of it.

`AuditLog` is what callers may rely on: payloads are added at the end only, a call
that returned has its payload in the log, one that raised may or may not.
`DynamoAudit` implements it: an entry's payload is its log element, a call is open until it returned
or raised.

### Erasure

How records end. `rows` is the envelope table, `indexed` what its two secondary indexes show
(the same, or an older row with `StaleIndex`), `job` the position and locals of each
`erase_subject` or `sweep_tenant`. The two share their shape: a walk over an index (`ReadRow`)
that sorts ids into `held` and `plan`, per namespace the batches of `batch_delete`
(`DeleteBatch`, which may miss records) and then the rows of all ids, deleted or not
(`DropEnvelope`, `DropVerdict`). A sweep logs each batch (`LogBatch`); an erasure goes on to the
actor's events and its certificate. A content is its version number and a verdict just a row: what
`GovernedMemory` models in detail is reduced here to what erasure can tell apart. `write()`
is modelled from `backend.put` on, and the record stream in order per record.
Time is in days, the unit of the expiry index. `set_legal_hold` is an unconditional update of any record that has ever been
stored, an erased one included. A row that it created by itself (`HoldOnly`, `BareHold`) carries no index keys and no fields: no walk
sees it, and the scanner raises on it, so `Receive` is not enabled and the event stays where it is until a writer
or a job replaces the row.
History: `protected` and `due` (per job, records whose hold its walk has to see and records that it
has to see at all), `erased`, and in a job the fields `gone`, `missed` and `due_events`.

### Anchor

`chain` holds the chains of all tenants, `anchors` the write-once store, `anchorer` and `auditor` the
place and locals of each run of `anchor_chains()` and of memwarden-verify. `chain_head` notes one
head, under `StaleReads` any the chain has had; `put_anchor` stores heads and root; `NoteAnchor`
appends the ANCHOR entries, one per chain, and `AnchorRaises` ends a run at any of these. The
verifier fetches the last anchor (`FetchAnchor`), then reads the chain (`ReadPage`, `ReadLastPage`) as
it is at each page, and judges what it has read (`verify_tenant`). `DamageChain` and
`DamageAnchor` stand for what the verifier is there to find: a lost tail, an entry changed with or without
a new hash, dropped or swapped, a head of an anchor exchanged. A chain goes on growing
after the damage. Linking an entry is one step here: how two appenders race for a number is `DynamoAudit`'s subject.
`sealed` and `damaged` are history. The signature of an anchor is left out: `anchor.py` makes it and
nothing checks it.

### RedisBackend

`hashes`, `ns_set` and `actor_set` are the keys of `redis.py:28-35`, `client` the place and locals of each
caller. `put()` is `hset`, `sadd_ns`, `sadd_actor`; a deletion is `del` and `srem` per record, and
like the code it leaves the actor's set alone; the walks read a set or a page of it and then `get` each record.
A page is `Chunk`, its cursor `nxt`: the id of its last record, and a listing starts over when that id is gone. Callers
delete ids they were told (`known`) by a put or a walk, also of records whose put has not returned. `Raise`
ends a call at any command. `must` (what a walk owes), `count`, `returned` and `broken` serve the properties.

`MemoryBackend` says what the protocol promises: a record is open while it is put, then
stored, then deleted, by exactly one of the calls that delete it; a walk returns every record that was stored when
it began and not deleted since. Under the mapping `Backend`, a record's stage is read off its hash
and its put, and only the command that removes the hash is a step of `Delete`.

### Lab

One process, in phases; a public call is a step. `store`, `rows`, `verdicts`, `audit` and `clock` are the
backends and sidecars of all tenants, `persisted`, `known`, `ledger` and `metrics` the books of `run_scenario`.
`sample_config` chooses which probes are on. The draws of tenant, namespace, actor, text and channel are
nondeterministic and keep what the draws exclude (attacks come from untrusted channels only). `admit` is `_admit` without
outages, `Answers` the ranking of `InMemoryBackend.retrieve`, `assess` the stand-in guardrail that knows what was injected.

## Runs

Every run finishes. Constants are small on purpose: the hazards need one record, one writer, one
reader and one scanner with room for one update of the record (two lifecycle events), and
all interleavings of these are explored. Bounds are `MaxEvents` (lifecycle
events per record), `Holdable`, `MaxClock`, `MaxUpdates`, `Budget` (attempts of an append), `MaxResent`, `MaxEntries`
(entries operations add per chain), `MaxAnchors`, `MaxDamage`, `MaxBroken` (records left half done) and
`writes`. `PageSize` is 1 or 2 where the code has 100, so that a page boundary falls inside the data; `k` is 1 where
it has 8, so that one record crowds out another.

| Run | Question | Instance |
|---|---|---|
| `GM_races` | Does anything below the floor, quarantined or unattested get through the race of writer, scanner, reader and backend, with writes and scans that die at any call? Is every stored record audited? | 1 record, a content of each score class, first-party and untrusted channel |
| `GM_outages` | Do both degraded modes keep the floor, is no candidate dropped without an entry, does no path admit an expired record? | every fault at once, oracle, restarts, a clock that passes the TTL, reads of a foreign namespace |
| `GM_live` | Does every content in scope get its final verdict, does an event still on its way bring each unjudged record to the scanner, and does the filter know every record with a verdict? | ordered stream, lost checkpoints, one update |
| `DA_append` | Does the audit table always replay, is a call on it once, does every call end, do callers see a log? | 2 threads of one process and 1 of another, 2 attempts, 1 resent put, stale heads, all faults |
| `ER_jobs` | Do a concurrent erasure and sweep respect holds, overlook nothing, report exactly what they deleted, and does a certificate wait for the events? | a record of the subject, with holds that come and go, also after its deletion, and one of another actor, batches of 1, a write at a time, 1 event |
| `ER_erasure` | Do holds, counts and the certificate stay right under a lagging index and a short `batch_delete`, does an envelope or a verdict left of an erased record wait for its DELETE event, and does the record end up without envelope and, unless a bare hold blocks its stream, without verdict? | 1 record with one update and holds at any time, scanner with lost checkpoints, any call of the job may raise |
| `AN_anchor` | Is what an anchor sealed still on an accepted chain, is a sound chain accepted, are announced anchors stored? | 2 chains, 2 anchors, pages of 2, stale heads, one damage of a chain or an anchor |
| `RB_redis` | Do indexes agree, is the adapter the backend of the protocol, do calls end? | a writer and a walker that both delete, 2 records, pages of 1, any command may raise |
| `LB_lab` | Does any attack become admissible, stay benign records locked out, do books and store balance, is exactly the right rest left? | every scenario of 2 writes in 2 tenants with the same actor names |
| `GM_v_degraded` | A quarantined first-party record during an outage of the envelope table | violated, see below |
| `GM_v_stuck` | Does a quarantine always resolve? | violated |
| `GM_v_provenance` | Does a stamped record keep its envelope? | violated |

Fairness. `GM_live` assumes weak fairness of the steps of a thread inside `write()` and
of a scanner inside its handler (a running thread is scheduled), weak fairness of delivery
(the stream hands its events to an idle consumer), and strong fairness of
`Acknowledge` (not every checkpoint is lost). It is stated for an ordered stream; without order a late
event may leave an old digest bound for good. `DA_append` assumes weak fairness of the
steps of each call; resent puts are bounded, and no fairness is assumed of faults.
`ER_erasure` assumes that the stream delivers to an idle consumer (weak fairness) and that a
call which a consumer makes again and again succeeds in the end (strong fairness of each): an
event that can never be handled would block its record's stream for good. That is what a bare hold does, whose removal
nobody owes: `Receive` is then not enabled, and fairness asks nothing of it.
`RB_redis` assumes weak fairness of the steps of each call, and none of beginning one: a
listing sent back to its start by a deletion ends because there are finitely many records to delete.
`Anchor` and `Lab` promise nothing in the long run: `anchor_chains` and `run_scenario` are straight lines.

Two records are enough for `RB_redis`: a page boundary, a cursor whose record goes, and a put overtaken by a deletion
need no more; the theorems of `RedisBackendProofs` hold for any number. Two writes are enough for
`LB_lab`: a record interacts with at most one other (same namespace, same actor name, or an attack that makes its text
known). `ER_jobs` has the short-term events and two jobs, whose erasure has a single record, and no raising calls; `ER_erasure` has these with one job. The theorems
of `ErasureProofs` hold for all of it together, with any number of records. `DeletionsOnRecord` says nothing of a job that raised: the chain does not
report the batch it was at. In `GM_outages` the integrity gate is not checked, since the theorem `OnlyAttestedDelivered` covers outages.

## What the runs disagree about

Three statements of the repository are not what the code does; each has a run and an
entry under "findings" in `PROJECT.json`.

- With the envelope table out of reach, the cached envelope of a quarantined
  first-party record admits it (`governed.py:177-184`); the second degraded mode
  (`governed.py:214`) does look at the flag.
- The scanner looks for the PENDING verdict once. If it handles the CREATE event before
  `write()` puts the verdict, a first-party quarantine never resolves. `UnjudgedIsPending` and
  `UntrustedEventuallyJudged` leave out what `write()` quarantined for this reason.
- The scanner's read of a missing envelope may be stale by the time it writes, and its
  DERIVED envelope then replaces the one `write()` stamped, with its tier, expiry and quarantine.

Met while modelling, without a run of their own, because the promise is a matter of configuration
or of reading: under a floor of DERIVED the last item admits untrusted
content unscanned, and under a floor of SYSTEM the degraded modes still stop at FIRST_PARTY
(`governed.py:178`, `:214`); a record the scanner failed while it was bound
DERIVED is admitted once the writer's FIRST_PARTY envelope replaces it, since no
verdict is then looked up; two deliveries of one event may overwrite each other's final
verdict if the guardrail answers differently; a restart empties the oracle, whose
filter then answers "no verdict" for records the table has cleared; a record the scanner re-stamped
expires by the retention of the extraction class. A hold set between the scanner's read of an envelope and its put
is lost with it, and one set between a job's walk and its deletion comes too late; `HoldsRespected`
therefore speaks of holds in place when the job starts and not lost since. A hold set on a record that is already erased
(`dynamo.py:135-139` updates without a condition) leaves a bare row: for ever, if the DELETE event has been handled, and if earlier events
are still queued, the scanner raises on the row at each of them, so that the DELETE event is not reached and a verdict may stay too.
`ErasedIsForgotten` therefore promises that no *envelope* remains, and names the bare hold as the one state in which a verdict may. No line of the
repository says that nothing at all remains. Records that
`batch_delete` missed lose their envelope all the same, and no later job finds them. Verdict and
oracle are updated in two steps by two actors, so the oracle may serve the older verdict for
as long as it is cached. The short-term events of an actor are deleted by actor id alone (`governed.py:243`), which on a
backend that tenants share takes those of the same name elsewhere.

In the audit and its tools: the anchored head of a chain that was empty is GENESIS, which no entry carries, so
`verify_cli.py:25-29` rejects that sound chain until the next anchor; `SoundChainAccepted` leaves this head out.

In the backends: a deletion in Redis leaves the actor's set as it is, so it only grows; the
generator of `InMemoryBackend.list_by_actor` walks a live dictionary and raises if a caller
deletes as it goes (`erase_subject` does not, it walks envelopes); `retrieve` takes the best `k` before the gates, so dropped
records take the place of admissible ones.

In the lab: the cross-tenant probe asks another backend altogether and the certificate check looks at the
signature only, so neither can fail; the report prints "0 admitted" (`lab.py:402`) whatever was counted, and
tampering as missed (`lab.py:412`) when there was nothing to tamper with; a near miss that L1 quarantined in first-party hands is
never scanned by it (`lab.py:292`), since its guardrail run looks at tiers alone.

## Proofs

`GovernedMemoryProofs` proves, for any number of records, contents, threads and
events, any policy and faults except where stated:

- `TypeCorrect`: the type invariant.
- `FloorNeedsClearance`: below the floor, only what the guardrail found benign is
  delivered. Assumes `FloorPolicy`: the integrity gate is on, the floor is not
  DERIVED, and under a floor of SYSTEM no table is ever out of reach. The cases left out are those above in which the code breaks it.
- `QuarantineNeedsClearance`: the same of what L1 quarantined. Assumes
  `QuarantinePolicy`: integrity gate and quarantine gate on, a floor of at least FIRST_PARTY, the
  envelope table in reach (compare `GM_v_degraded`).
- `OnlyAttestedDelivered`: with the integrity gate on, what is delivered was stamped by
  `write()` or bound by the scanner, outages included.

The four delivered properties are not inductive. The invariant `IInv` follows an envelope
and a verdict through every place they are copied to: tables, caches and the locals of
threads that hold them across other threads' steps. It says that a trusted tier
is the record's own with its quarantine flag (`TierSound`), that a digest is of a content
that was stamped or scanned (`DigestSound`), that a clearance is the guardrail's for the
content it is keyed to (`VerdictSound`), and what a reader halfway through the gates may rely
on (`ReaderSound`). Assumptions are `Sha256Assumption` (no collisions
among the contents) and the types of the constants. Every action has a step in the proof.

`InterceptorProofs` proves, with the type invariant of `GovernedMemoryProofs` and its `IInv`:

- `StoredIsAuditedAlways`: the write order. `WriteOrder` adds that a writer about to put has its entry.
- `CandidatesAccountedFor`: the action property `NoSilentDrop`. A reader between two candidates holds none (`Between`), so a
  step either moves a candidate on, admits it, or ends in its READ_DROP entry.
- `RetentionAlwaysHonoured`: the action property `RetentionHonoured`. An envelope that is not DERIVED expires
  when its record's `write()` said, in the table, in the caches and in every thread (`ExpiryInv`), and a
  reader past gates 2 and 3 has looked at it (`Passed`).
- `FilterHasNoFalseNegatives`: the filter of the oracle. Assumes `Steady`: the oracle is in use, no `write()` or scan
  raises and nobody restarts (whoever raises between `put_verdict` and `publish` leaves a verdict the filter does not know). `FilterInv` follows a verdict from the table to whoever owes its publication.
- `UnjudgedAlwaysPending`: `UnjudgedIsPending`, the safety half of `UntrustedEventuallyJudged`, under any
  faults. Assumes `OrderedStream` and that DERIVED is scanned (it is by default, `policy.py:93`). `PendInv` says that the last event
  of a record tells what the backend holds and one writer creates it (`StreamInv`, `BirthInv`), that a consumer inside the handler
  is at the oldest event (`ConsumerInv`), that a record in scope stays so (`ScopeInv`), and that whoever is
  through with the last event has put its verdict (`JudgedInv`).

`DynamoAuditProofs` proves, for any calls, processes, budget and faults:

- `AuditTypeCorrect`, `ChainAlwaysVerifies`, `AppendsOnce`: the three invariants of `DA_append`.
- `LogImplemented`: the refinement of `AuditLog`.

The invariant `AInv` adds that cached and held heads are real, if stale (`HeadsReal`): a head
is never invented, so an entry put under the next free number hashes over the one
before it, and no gap can open. `AttemptsLeft` and `OnceInv` tie a call's place to whether it is on the chain.

`AnchorProofs` proves, for any tenants, runs, pages, stale heads, faults and damage:

- `AnchorTypeCorrect`, `NotesAlwaysGrounded`, `SoundAlwaysAccepted`: three invariants of `AN_anchor`.
- `AcceptedIsIntact`: `AnchoredIntact`. Assumes hashes without collisions: `EntryHashBinds` (the hash of an entry tells
  the one before it and the body) and `RootBinds` (another head, another root; TLC finds this so for up to four leaves).

The invariant `CInv` says that what anyone has read or sealed of an undamaged chain is an initial segment
of it (`Part`, kept because sound chains only grow: `Grows`), that an anchor has the heads of what it
sealed, or one head damaged under the old root (`AnchorOf`), and what a run that tells the chains and a verifier that judges
rely on (`AnchorerInv`, `AuditorInv`). `AcceptedIsIntact` then follows an accepted chain back from the
anchored head, entry by entry (`HeadTellsAll`; induction as a least counterexample, `LeastExists`).

`ErasureProofs` proves, for any records, actors, jobs, threads, batch sizes, lookback, retentions
and faults:

- `TypesCorrect`: the type invariant, with the shapes of rows, certificates and of every thread's locals.
- `ErasureHoldsRespected`: a record with a hold at a job's start is not deleted by it.

`TypeOK` needs `OneConsumer` (a consumer inside the handler has its record's stream to itself and its
event still at the head). `HoldInv` strengthens `HoldsRespected`: a record
under protection still shows its hold in the table *and* in the lagging index, and is in no batch still
to come. Only `PutRow` can take the hold away, and strikes the record from the list. `ErasureAssumption`
asks for finitely many records, since the code counts them.

It also proves, under the same assumptions:

- `DeletionsAlwaysOnRecord`: `DeletionsOnRecord`. `CountInv` ties a job's count to the records it deleted and to the chain: a
  sweep has logged all but the batch at hand, an erasure nothing until its ERASURE_CERT entry (`Counts`), and a
  certificate points at that entry (`Certified`). What the chain reports is a sum over its length; that an entry
  adds just its own share (`TotalAppend`) is an induction as a least counterexample.
- `NothingEverOverlooked`: `NothingOverlooked`. A record due to a job is deleted by somebody or missed, which it
  stays (`LostStays`), or on one of the job's lists with table and index still showing it (`Awaits`). A row goes out of sight
  only once its record is lost, so `RowsBorn` and `StoredBorn` follow records from their creation to their DELETE event. An event
  due to an erasure is in a session still to list or on the list at hand (`Listed`).
- `ErasedAlwaysAwaitsItsEvent`: `ErasedAwaitsItsEvent`, the safety half of `ErasedIsForgotten`. By `ForgetInv` an erased record is
  out of the backend and of every writer's hands, its DELETE event is the last of its stream, and the consumer that handles
  that event has dropped the envelope, and the verdict once it is through (`Forgets`). Holds are set on it at any moment: that a hold
  makes no envelope of a row that is none is `HoldReadable`.

`RedisBackendProofs` proves, for any finite set of records, any callers, page size and faults:

- `RedisTypeCorrect`: the type invariant; its one hard part is that a cursor is an id, since a page
  that is not the last has a greatest element (`GreatestExists`).
- `IndexesAlwaysAgree`: `IndexesAgree`. `RInv` adds that nobody has seen an id before its namespace lists it
  (`Unborn`, `FreshPut`), so that no deletion overtakes the first half of a put; that a deletion leaves nothing of the records
  it is through with (`DeleteDone`); and where the call stands that will settle a disagreement of hash and index (`Located`).

`RedisBackendRefinement` proves, under the same assumptions:

- `RedisImplementsBackend`: the refinement `ImplementsBackend`. `FInv` adds that what a put has
  returned for stays in its sets while its hash is there (`Indexed`), and that what a walk owes is found, at hand, or behind
  its cursor (`WalksOwe`). The step that matters is paging: a page is an initial segment of what comes after its cursor
  (`ChunkInitial`), so a page puts nothing owed out of reach (`PageCovers`), the full set after a deleted cursor included.
  A deletion maps to the abstract one when its command finds the hash, and to a stutter when another's did first.

`LabProofs` proves, for any tenants, actors, texts, scores, channels, features and number of writes:

- `LabTypeCorrect`: the type invariant of tables and books, which includes where a record comes from and what erased it.
- `NoAttackEverAdmissible`, `BenignStaysAvailable`: what the report may claim of admission, in both directions.
- `SurvivorsAsStated`: in the end exactly the erased actor's records in its one tenant and, after a sweep, those kept for a day are gone.
- `LedgerAlwaysBalances`, `AccountsAlwaysBalance`: counts and certificates against the stores.

The invariant follows each record through the phases: what write made of it (`OriginInv`), which tables
have it (`TablesInv`), its envelope and its verdict (`RowInv`, `VerdictInv`), and what erasure and sweep did (`FateInv`); `LedgerInv` and
`AccountsInv` add the books, whose sums change by one write (`WriteCounts`) or by the records deleted
(`DeletionCounts`). `LabAssumption` states the tiers of the channels the lab draws from (`lab.py:98-100`) among the types of the
constants, `RecordsAssumption` that None is no data.

Every invariant and every safety action property of the passing runs is thus a theorem. Only model-checked
is liveness (`UntrustedEventuallyJudged`, `EveryCallEnds`, `ErasedIsForgotten`, `CallsEnd`), which the provers
do not reach. That `merkle_root` binds its leaves
is compared by TLC on all lists of up to four of them (`MerkleBinds`) and assumed in `AcceptedIsIntact`.

## Not modelled

The regular expressions of the first-line scan (any score per content stands for them), YAML loading and schema
validation, signing (of anchors and certificates alike: a MAC over canonical JSON, without state), metrics, the pgvector
adapter, the vendor calls behind the AgentCore adapter, benchmarks and examples. Of modelled parts: the
eventual consistency of single-row reads, the paging of the index walks (any order of the rows stands for it), the layout of
reports. `PROJECT.json` gives the reason for each.

## Plan

What is left, in this order.

1. `Erasure`: an abstract specification (what a job deletes and keeps, in one step per record) for it to implement.
2. The pgvector adapter as a second implementation of `MemoryBackend`.
