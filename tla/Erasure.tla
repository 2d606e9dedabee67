------------------------------ MODULE Erasure -------------------------------
(***************************************************************************)
(* How records end: erase_subject (memwarden/governed.py) and sweep_tenant *)
(* (memwarden/sweep.py) of one tenant, against legal holds, writes in      *)
(* flight, and the record stream (memwarden/l2/scanner.py), which puts and *)
(* deletes the rows of the same tables.  A content is its version number;  *)
(* what the scanner decides about it does not matter here, only the rows   *)
(* it leaves.  Time is counted in days, the partitions of the expiry index.*)
(***************************************************************************)
EXTENDS Naturals, Sequences, FiniteSets

CONSTANTS
  Records, namespace_of,  \* [Records -> namespaces]
  Actors, actor_of,       \* [Records -> Actors]
  Events, session_of,     \* short-term events, [Events -> sessions]
  speaker_of,             \* [Events -> Actors]
  Writers, Scanners,      \* threads inside write(), consumers of the stream
  Erasers, subject,       \* threads inside erase_subject, [Erasers -> Actors]
  Sweepers,               \* processes inside sweep_tenant
  BatchSize, Lookback,    \* 100 records per call, 5 day partitions before today's
  ttl, extraction_ttl,    \* retention in days, 0 = for ever
  StaleIndex,             \* do the two indexes lag behind the envelope table?
  Faults,                 \* what may fail, see FaultKinds
  MaxUpdates, MaxClock,   \* bounds: updates of a record, days
  Holdable,               \* bound: the records that somebody sets a hold on
  None                    \* Python's None

Jobs == Erasers \cup Sweepers

FaultKinds ==
  {"raise",    \* a call of a job raises: what it did so far stays
   "partial",  \* batch_delete leaves some of its records in place
   "scan"}     \* the scanner dies between two calls; the event comes again

ASSUME ErasureAssumption ==
  /\ actor_of \in [Records -> Actors] /\ subject \in [Erasers -> Actors]
  /\ speaker_of \in [Events -> Actors]
  /\ DOMAIN namespace_of = Records /\ DOMAIN session_of = Events
  /\ Erasers \cap Sweepers = {} /\ Records \cap Events = {}
  /\ BatchSize \in Nat \ {0} /\ Lookback \in Nat
  /\ ttl \in Nat /\ extraction_ttl \in Nat
  /\ StaleIndex \in BOOLEAN /\ Faults \subseteq FaultKinds /\ IsFiniteSet(Records)
  /\ MaxUpdates \in Nat /\ MaxClock \in Nat /\ None \notin Nat
  /\ Holdable \subseteq Records

VARIABLES
  store,       \* backend: version of each record, None when absent
  stream,      \* per record: lifecycle events not yet acknowledged, in order
  born,        \* records and events that have been created
  events,      \* short-term events of the actors
  rows,        \* envelope table
  indexed,     \* what the actor and expiry indexes show of it
  verdicts,    \* records with a row in the verdict table
  env_cache,   \* records in the interceptor's envelope cache
  audit,       \* SWEEP_BATCH and ERASURE_CERT entries
  certs,       \* certificate table
  clock,
  writer, scanner, job,  \* local state of the threads
  protected,   \* history: per job, records whose hold its walk has to see
  due,         \* history: per job, records that it has to see
  erased       \* history: records a finished job deleted, no write in flight

backend == <<store, stream, born, events>>
tables  == <<rows, indexed, verdicts, audit, certs>>
locals  == <<env_cache, clock>>
threads == <<writer, scanner, job>>
history == <<protected, due, erased>>
vars    == <<backend, tables, locals, threads, history>>

-----------------------------------------------------------------------------
(* Envelope rows.                                                          *)

Versions == 0..MaxUpdates

Envelope ==
  [version : Versions, expires_at : Nat \cup {None}, legal_hold : BOOLEAN]

\* What an update of a missing row leaves: nothing but the hold.
HoldOnly == [legal_hold : BOOLEAN]

ASSUME NoneAssumption == None \notin Envelope \cup HoldOnly

\* from_item() can make an envelope of it, and the indexes show it.
Readable(row) == row # None /\ "version" \in DOMAIN row

expires_at(now, days) == IF days # 0 THEN now + days ELSE None

stamp(version, now, days) ==
  [version |-> version, expires_at |-> expires_at(now, days), legal_hold |-> FALSE]

Holds(row) == row # None /\ row.legal_hold

\* In one of the day partitions that a sweep looks at, and expired.
InWindow(row, now) ==
  /\ row.expires_at # None
  /\ row.expires_at <= now /\ now <= row.expires_at + Lookback

\* In the part of the index that a job begun at now walks.
IsDue(j, r, row, now) ==
  /\ Readable(row)
  /\ IF j \in Erasers THEN actor_of[r] = subject[j] ELSE InWindow(row, now)

Walked(j, r, row) == IsDue(j, r, row, job[j].now)

\* Every write of a row: the indexes follow at once or later.
PutRow(r, row) ==
  /\ rows' = [rows EXCEPT ![r] = row]
  /\ indexed' = IF StaleIndex THEN indexed ELSE [indexed EXCEPT ![r] = row]
  /\ protected' = IF Holds(row) THEN protected
                  ELSE [j \in Jobs |-> protected[j] \ {r}]
  /\ due' = [j \in Jobs |-> IF Readable(row) /\ ~Walked(j, r, row) THEN due[j] \ {r} ELSE due[j]]

Propagate(r) ==
  /\ StaleIndex /\ indexed[r] # rows[r]
  /\ indexed' = [indexed EXCEPT ![r] = rows[r]]
  /\ UNCHANGED <<backend, rows, verdicts, audit, certs, locals, threads, history>>

\* What set_legal_hold leaves of a row that was not there.
BareHold(row) == row # None /\ ~Readable(row)

\* set_legal_hold: an unconditional update.  Nothing asks whether the record
\* is still stored; its id has to be known, so the record once was.
set_legal_hold(r, hold) ==
  /\ r \in born
  /\ PutRow(r, IF rows[r] = None THEN [legal_hold |-> hold]
               ELSE [rows[r] EXCEPT !.legal_hold = hold])
  /\ UNCHANGED <<backend, verdicts, audit, certs, locals, threads, erased>>

-----------------------------------------------------------------------------
IdleThread == [pc |-> "idle"]

IdleJob ==
  [pc |-> "idle", now |-> 0, unread |-> {}, held |-> {}, plan |-> {}, purge |-> {},
   rid |-> None, deleted |-> 0, batch |-> 0, sessions |-> {}, doomed |-> {},
   events_deleted |-> 0, gone |-> {}, missed |-> {}, due_events |-> {}]

Init ==
  /\ store     = [r \in Records |-> None]
  /\ stream    = [r \in Records |-> <<>>]
  /\ born      = {}
  /\ events    = {}
  /\ rows      = [r \in Records |-> None]
  /\ indexed   = [r \in Records |-> None]
  /\ verdicts  = {}
  /\ env_cache = {}
  /\ audit     = <<>>
  /\ certs     = {}
  /\ clock     = 0
  /\ writer    = [w \in Writers |-> IdleThread]
  /\ scanner   = [s \in Scanners |-> IdleThread]
  /\ job       = [j \in Jobs |-> IdleJob]
  /\ protected = [j \in Jobs |-> {}]
  /\ due       = [j \in Jobs |-> {}]
  /\ erased    = {}

emit(r, event_type, version) ==
  stream' = [stream EXCEPT ![r] =
    Append(@, [event_type |-> event_type, version |-> version, ts |-> clock])]

-----------------------------------------------------------------------------
(* The backend on its own, and the clock.                                  *)

ExtractionCreate(r) ==
  /\ r \notin born
  /\ born' = born \cup {r}
  /\ store' = [store EXCEPT ![r] = 0]
  /\ emit(r, "CREATE", 0)
  /\ UNCHANGED <<events, tables, locals, threads, history>>

BackendUpdate(r) ==
  /\ store[r] # None /\ store[r] < MaxUpdates
  /\ store' = [store EXCEPT ![r] = @ + 1]
  /\ emit(r, "UPDATE", store[r] + 1)
  /\ UNCHANGED <<born, events, tables, locals, threads, history>>

create_event(e) ==
  /\ e \notin born
  /\ born' = born \cup {e}
  /\ events' = events \cup {e}
  /\ UNCHANGED <<store, stream, tables, locals, threads, history>>

Tick ==
  /\ clock < MaxClock
  /\ clock' = clock + 1
  /\ UNCHANGED <<backend, tables, env_cache, threads, history>>

-----------------------------------------------------------------------------
(* write(), from backend.put on.                                           *)

BackendPut(w, r) ==
  /\ writer[w] = IdleThread /\ r \notin born
  /\ born' = born \cup {r}
  /\ store' = [store EXCEPT ![r] = 0]
  /\ emit(r, "CREATE", 0)
  /\ writer' = [writer EXCEPT ![w] = [pc |-> "envelope", rec |-> r,
                                      env |-> stamp(0, clock, ttl)]]
  /\ UNCHANGED <<events, tables, locals, scanner, job, history>>

PutEnvelope(w) ==
  /\ writer[w].pc = "envelope"
  /\ PutRow(writer[w].rec, writer[w].env)
  /\ writer' = [writer EXCEPT ![w].pc = "verdict"]
  /\ UNCHANGED <<backend, verdicts, audit, certs, locals, scanner, job, erased>>

\* A PENDING verdict if the content was quarantined, then the local cache.
FinishWrite(w) ==
  /\ writer[w].pc = "verdict"
  /\ verdicts' \in {verdicts, verdicts \cup {writer[w].rec}}
  /\ env_cache' = env_cache \cup {writer[w].rec}
  /\ writer' = [writer EXCEPT ![w] = IdleThread]
  /\ UNCHANGED <<backend, rows, indexed, audit, certs, clock, scanner, job, history>>

Writing(r) == \E w \in Writers : writer[w] # IdleThread /\ writer[w].rec = r

-----------------------------------------------------------------------------
(* handle_record_event() and the stream, one consumer per record.          *)

ScannerTo(s, st) ==
  /\ scanner' = [scanner EXCEPT ![s] = st]
  /\ UNCHANGED <<backend, tables, locals, writer, job, history>>

Deliverable(s, r) ==
  /\ scanner[s] = IdleThread /\ stream[r] # <<>>
  /\ \A t \in Scanners : scanner[t] # IdleThread => scanner[t].rec # r

\* The row that goes with the event's content; a missing one is created.
Upserted(row, e) ==
  IF row = None THEN stamp(e.version, e.ts, extraction_ttl)
  ELSE [row EXCEPT !.version = e.version]

\* A row that holds nothing but a hold cannot be read: the handler raises, and
\* the event stays at the head of the stream.
Receive(s, r) ==
  LET e == Head(stream[r])
  IN  /\ Deliverable(s, r) /\ e.event_type # "DELETE"
      /\ rows[r] = None \/ Readable(rows[r])
      /\ ScannerTo(s, [pc |-> IF rows[r] = Upserted(rows[r], e) THEN "judge" ELSE "bind",
                       rec |-> r, env |-> Upserted(rows[r], e)])

Bind(s) ==
  /\ scanner[s].pc = "bind"
  /\ PutRow(scanner[s].rec, scanner[s].env)
  /\ scanner' = [scanner EXCEPT ![s].pc = "judge"]
  /\ UNCHANGED <<backend, verdicts, audit, certs, locals, writer, job, erased>>

\* The content is in scope and gets a verdict, or not.
PutVerdict(s) ==
  /\ scanner[s].pc = "judge"
  /\ verdicts' \in {verdicts, verdicts \cup {scanner[s].rec}}
  /\ scanner' = [scanner EXCEPT ![s].pc = "ack"]
  /\ UNCHANGED <<backend, rows, indexed, audit, certs, locals, writer, job, history>>

\* Mutant: the verdict is forgotten.
ReceiveDeleteEnvelope(s, r) ==
  /\ Deliverable(s, r) /\ Head(stream[r]).event_type = "DELETE"
  /\ PutRow(r, None)
  /\ scanner' = [scanner EXCEPT ![s] = [pc |-> "ack", rec |-> r, env |-> None]]
  /\ UNCHANGED <<backend, verdicts, audit, certs, locals, writer, job, erased>>

ReceiveDelete(s, r) ==
  /\ Deliverable(s, r) /\ Head(stream[r]).event_type = "DELETE"
  /\ PutRow(r, None)
  /\ scanner' = [scanner EXCEPT ![s] = [pc |-> "delete", rec |-> r, env |-> None]]
  /\ UNCHANGED <<backend, verdicts, audit, certs, locals, writer, job, erased>>

DeleteVerdict(s) ==
  /\ scanner[s].pc = "delete"
  /\ verdicts' = verdicts \ {scanner[s].rec}
  /\ scanner' = [scanner EXCEPT ![s].pc = "ack"]
  /\ UNCHANGED <<backend, rows, indexed, audit, certs, locals, writer, job, history>>

Acknowledge(s) ==
  /\ scanner[s].pc = "ack"
  /\ stream' = [stream EXCEPT ![scanner[s].rec] = Tail(@)]
  /\ scanner' = [scanner EXCEPT ![s] = IdleThread]
  /\ UNCHANGED <<store, born, events, tables, locals, writer, job, history>>

\* Raised, died, or lost its checkpoint: the event is delivered again.
ScanRaises(s) ==
  /\ "scan" \in Faults /\ scanner[s] # IdleThread
  /\ ScannerTo(s, IdleThread)

-----------------------------------------------------------------------------
(* erase_subject() and sweep_tenant(): a walk over an index that collects  *)
(* record ids, then per namespace the batches of batch_delete and the rows *)
(* of all their records; a sweep logs each batch, an erasure goes on to    *)
(* the short-term events and its certificate.                              *)

JobTo(j, st) ==
  /\ job' = [job EXCEPT ![j] = st]
  /\ UNCHANGED <<backend, tables, locals, writer, scanner, history>>

StartJob(j) ==
  /\ job[j].pc = "idle"
  /\ job' = [job EXCEPT ![j] =
       [IdleJob EXCEPT !.pc = "walk", !.now = clock, !.unread = Records,
          !.due_events = {e \in events : j \in Erasers /\ speaker_of[e] = subject[j]}]]
  /\ protected' = [protected EXCEPT ![j] =
       {r \in Records : Holds(indexed[r]) /\ Holds(rows[r])}]
  /\ due' = [due EXCEPT ![j] =
       {r \in Records : IsDue(j, r, indexed[r], clock) /\ IsDue(j, r, rows[r], clock)}]
  /\ UNCHANGED <<backend, tables, locals, writer, scanner, erased>>

\* Mutant: the hold flag is not looked at.
ReadRowUnheld(j, r) ==
  /\ job[j].pc = "walk" /\ r \in job[j].unread
  /\ JobTo(j, [job[j] EXCEPT
       !.unread = @ \ {r},
       !.pc     = IF job[j].unread = {r} THEN "delete" ELSE @,
       !.plan   = @ \cup {h \in {r} : Walked(j, h, indexed[h])}])

\* The walk gets to the index entry of a record, in any order.
ReadRow(j, r) ==
  /\ job[j].pc = "walk" /\ r \in job[j].unread
  /\ JobTo(j, [job[j] EXCEPT
       !.unread = @ \ {r},
       !.pc     = IF job[j].unread = {r} THEN "delete" ELSE @,
       !.held   = @ \cup {h \in {r} : Walked(j, h, indexed[h]) /\ Holds(indexed[h])},
       !.plan   = @ \cup {h \in {r} : Walked(j, h, indexed[h]) /\ ~Holds(indexed[h])}])

Within(records, n) == {r \in records : namespace_of[r] = n}

\* The next up to BatchSize records of the namespace under way.
IsBatch(j, batch) ==
  \E n \in {namespace_of[r] : r \in job[j].plan} :
    /\ batch \subseteq Within(job[j].plan, n) /\ job[j].purge = Within(job[j].purge, n)
    /\ \/ Cardinality(batch) = BatchSize
       \/ batch = Within(job[j].plan, n) /\ Cardinality(batch) < BatchSize

\* The backend deletes the records, one DELETE event for each.
Removes(removed) ==
  /\ store' = [r \in Records |-> IF r \in removed THEN None ELSE store[r]]
  /\ stream' = [r \in Records |->
       IF r \in removed
       THEN Append(stream[r], [event_type |-> "DELETE", version |-> store[r], ts |-> clock])
       ELSE stream[r]]
  /\ erased' = erased \cup {r \in removed : ~Writing(r)}
  /\ UNCHANGED <<born, events, tables, locals, writer, scanner, protected, due>>

\* Mutant: the records asked for are counted, not the deleted ones.
CountedAsked(st, batch, removed, missed, pc) ==
  [st EXCEPT !.pc = pc, !.plan = @ \ batch, !.purge = @ \cup batch,
             !.batch = Cardinality(batch), !.deleted = @ + Cardinality(batch),
             !.gone = @ \cup removed, !.missed = @ \cup missed]

\* Mutant: only the first batch of a namespace is asked for.
CountedOnce(st, batch, removed, missed, pc) ==
  LET done == UNION {Within(st.plan, namespace_of[r]) : r \in batch}
  IN  [st EXCEPT !.pc = pc, !.plan = @ \ done, !.purge = @ \cup done,
                 !.batch = Cardinality(removed), !.deleted = @ + Cardinality(removed),
                 !.gone = @ \cup removed, !.missed = @ \cup missed]

\* Mutant: the loop does not advance past the batch.
CountedAgain(st, batch, removed, missed, pc) ==
  [st EXCEPT !.pc = pc, !.purge = @ \cup batch,
             !.batch = Cardinality(removed), !.deleted = @ + Cardinality(removed),
             !.gone = @ \cup removed, !.missed = @ \cup missed]

\* The job's locals once batch_delete has answered with the number it deleted.
Counted(st, batch, removed, missed, pc) ==
  [st EXCEPT !.pc = pc, !.plan = @ \ batch, !.purge = @ \cup batch,
             !.batch = Cardinality(removed), !.deleted = @ + Cardinality(removed),
             !.gone = @ \cup removed, !.missed = @ \cup missed]

DeleteBatch(j, batch, missed) ==
  LET removed == {r \in batch \ missed : store[r] # None}
  IN  /\ job[j].pc = "delete" /\ IsBatch(j, batch)
      /\ missed \subseteq batch /\ (missed # {} => "partial" \in Faults)
      /\ Removes(removed)
      /\ job' = [job EXCEPT ![j] = Counted(@, batch, removed, missed,
                                           IF j \in Sweepers THEN "log" ELSE "delete")]

LogBatch(j) ==
  /\ job[j].pc = "log"
  /\ audit' = Append(audit, [op |-> "SWEEP_BATCH", job |-> j, deleted |-> job[j].batch])
  /\ job' = [job EXCEPT ![j].pc = "delete"]
  /\ UNCHANGED <<backend, rows, indexed, verdicts, certs, locals, writer, scanner, history>>

DropEnvelope(j, r) ==
  /\ job[j].pc = "delete" /\ r \in job[j].purge
  /\ Within(job[j].plan, namespace_of[r]) = {}
  /\ PutRow(r, None)
  /\ job' = [job EXCEPT ![j].pc = "verdict", ![j].rid = r]
  /\ UNCHANGED <<backend, verdicts, audit, certs, locals, writer, scanner, erased>>

DropVerdict(j) ==
  /\ job[j].pc = "verdict"
  /\ verdicts' = verdicts \ {job[j].rid}
  /\ env_cache' = IF j \in Erasers THEN env_cache \ {job[j].rid} ELSE env_cache
  /\ job' = [job EXCEPT ![j] = [job[j] EXCEPT !.pc = "delete",
                                             !.purge = @ \ {job[j].rid}, !.rid = None]]
  /\ UNCHANGED <<backend, rows, indexed, audit, certs, clock, writer, scanner, history>>

\* Mutant: the loop over the batches ends before the last one.
RecordsDoneEarly(j) == job[j].pc = "delete" /\ job[j].purge = {}

RecordsDone(j) == job[j].pc = "delete" /\ job[j].plan = {} /\ job[j].purge = {}

EndSweep(j) ==
  /\ j \in Sweepers /\ RecordsDone(j)
  /\ JobTo(j, [job[j] EXCEPT !.pc = "done"])

\* delete_actor_events: list the actor's sessions, then empty each of them.
ListSessions(j) ==
  /\ j \in Erasers /\ RecordsDone(j)
  /\ JobTo(j, [job[j] EXCEPT !.pc = "events",
       !.sessions = {session_of[e] : e \in {d \in events : speaker_of[d] = subject[j]}}])

ListEvents(j, session) ==
  /\ job[j].pc = "events" /\ job[j].doomed = {} /\ session \in job[j].sessions
  /\ JobTo(j, [job[j] EXCEPT !.sessions = @ \ {session},
       !.doomed = {e \in events : speaker_of[e] = subject[j] /\ session_of[e] = session}])

DeleteEvent(j, e) ==
  /\ job[j].pc = "events" /\ e \in job[j].doomed
  /\ events' = events \ {e}
  /\ job' = [job EXCEPT ![j].doomed = @ \ {e}, ![j].events_deleted = @ + 1]
  /\ UNCHANGED <<store, stream, born, tables, locals, writer, scanner, history>>

Certificate(j, seq) ==
  [job |-> j, records_deleted |-> job[j].deleted, events_deleted |-> job[j].events_deleted,
   holds_retained |-> Cardinality(job[j].held), chain_seq |-> seq]

CertEntry(j) ==
  [op |-> "ERASURE_CERT", job |-> j, deleted |-> job[j].deleted]

\* Mutant: the certificate does not wait for the last session.
AppendCertEarly(j) ==
  /\ job[j].pc = "events" /\ job[j].sessions = {}
  /\ audit' = Append(audit, CertEntry(j))
  /\ job' = [job EXCEPT ![j].pc = "cert", ![j].batch = Len(audit) + 1]
  /\ UNCHANGED <<backend, rows, indexed, verdicts, certs, locals, writer, scanner, history>>

AppendCert(j) ==
  /\ job[j].pc = "events" /\ job[j].sessions = {} /\ job[j].doomed = {}
  /\ audit' = Append(audit, CertEntry(j))
  /\ job' = [job EXCEPT ![j].pc = "cert", ![j].batch = Len(audit) + 1]
  /\ UNCHANGED <<backend, rows, indexed, verdicts, certs, locals, writer, scanner, history>>

put_certificate(j) ==
  /\ job[j].pc = "cert"
  /\ certs' = certs \cup {Certificate(j, job[j].batch)}
  /\ job' = [job EXCEPT ![j].pc = "done"]
  /\ UNCHANGED <<backend, rows, indexed, verdicts, audit, locals, writer, scanner, history>>

\* What it did stays; the history keeps nothing more of a job that raised.
JobRaises(j) ==
  /\ "raise" \in Faults /\ job[j].pc \notin {"idle", "done", "raised"}
  /\ job' = [job EXCEPT ![j] =
       [IdleJob EXCEPT !.pc = "raised", !.gone = job[j].gone, !.missed = job[j].missed]]
  /\ protected' = [protected EXCEPT ![j] = {}]
  /\ due' = [due EXCEPT ![j] = {}]
  /\ UNCHANGED <<backend, tables, locals, writer, scanner, erased>>

-----------------------------------------------------------------------------
Environment ==
  \/ \E r \in Records :
       \/ ExtractionCreate(r) \/ BackendUpdate(r) \/ Propagate(r)
       \/ r \in Holdable /\ \E hold \in BOOLEAN : set_legal_hold(r, hold)
  \/ \E e \in Events : create_event(e)
  \/ Tick

WriterNext(w) ==
  \/ \E r \in Records : BackendPut(w, r)
  \/ PutEnvelope(w) \/ FinishWrite(w)

ScannerNext(s) ==
  \/ \E r \in Records : Receive(s, r) \/ ReceiveDelete(s, r)
  \/ Bind(s) \/ PutVerdict(s) \/ DeleteVerdict(s) \/ Acknowledge(s) \/ ScanRaises(s)

JobNext(j) ==
  \/ StartJob(j)
  \/ \E r \in Records : ReadRow(j, r) \/ DropEnvelope(j, r)
  \/ \E batch \in SUBSET job[j].plan : \E missed \in SUBSET batch : DeleteBatch(j, batch, missed)
  \/ LogBatch(j) \/ DropVerdict(j) \/ EndSweep(j)
  \/ ListSessions(j) \/ (\E e \in Events : ListEvents(j, session_of[e]) \/ DeleteEvent(j, e))
  \/ AppendCert(j) \/ put_certificate(j)
  \/ JobRaises(j)

Next ==
  \/ Environment
  \/ \E w \in Writers : WriterNext(w)
  \/ \E s \in Scanners : ScannerNext(s)
  \/ \E j \in Jobs : JobNext(j)

Spec == Init /\ [][Next]_vars

\* Fairness: the stream hands its events to an idle consumer, and a call that
\* a consumer makes again and again succeeds in the end.
FairSpec ==
  /\ Spec
  /\ \A s \in Scanners :
       /\ \A r \in Records : WF_vars(Receive(s, r) \/ ReceiveDelete(s, r))
       /\ SF_vars(Bind(s)) /\ SF_vars(PutVerdict(s))
       /\ SF_vars(DeleteVerdict(s)) /\ SF_vars(Acknowledge(s))

-----------------------------------------------------------------------------
(* Properties.                                                             *)

Row == Envelope \cup HoldOnly \cup {None}

RecordEvent == [event_type : {"CREATE", "UPDATE", "DELETE"}, version : Versions, ts : Nat]

AuditEntry == [op : {"SWEEP_BATCH", "ERASURE_CERT"}, job : Jobs, deleted : Nat]

CertificateRow ==
  [job : Jobs, records_deleted : Nat, events_deleted : Nat, holds_retained : Nat,
   chain_seq : Nat]

WriterState == {IdleThread} \cup
  [pc : {"envelope", "verdict"}, rec : Records, env : Envelope]

ScannerState == {IdleThread} \cup
  [pc : {"bind", "judge", "ack"}, rec : Records, env : Envelope] \cup
  [pc : {"delete", "ack"}, rec : Records, env : {None}]

JobState ==
  [pc : {"idle", "walk", "delete", "log", "verdict", "events", "cert", "done", "raised"},
   now : Nat, unread : SUBSET Records, held : SUBSET Records, plan : SUBSET Records,
   purge : SUBSET Records, rid : Records \cup {None}, deleted : Nat, batch : Nat,
   sessions : SUBSET {session_of[e] : e \in Events}, doomed : SUBSET Events,
   events_deleted : Nat, gone : SUBSET Records, missed : SUBSET Records,
   due_events : SUBSET Events]

\* Types, and that a job's lists of records do not overlap.
TypeOK ==
  /\ store \in [Records -> Versions \cup {None}]
  /\ stream \in [Records -> Seq(RecordEvent)]
  /\ born \subseteq Records \cup Events /\ events \subseteq Events
  /\ rows \in [Records -> Row] /\ indexed \in [Records -> Row]
  /\ verdicts \subseteq Records /\ env_cache \subseteq Records
  /\ audit \in Seq(AuditEntry) /\ certs \subseteq CertificateRow /\ clock \in Nat
  /\ writer \in [Writers -> WriterState] /\ scanner \in [Scanners -> ScannerState]
  /\ job \in [Jobs -> JobState]
  /\ protected \in [Jobs -> SUBSET Records] /\ due \in [Jobs -> SUBSET Records]
  /\ erased \subseteq Records
  /\ \A j \in Jobs :
       /\ job[j].unread \cap (job[j].held \cup job[j].plan \cup job[j].purge) = {}
       /\ job[j].held \cap job[j].plan = {} /\ job[j].plan \cap job[j].purge = {}

\* tests/test_failure_modes.py:143, sweep.py:2: a record whose hold table and
\* index show when an erasure or a sweep begins is not deleted by it, unless the hold
\* is lifted or the scanner's put of an older row loses it.
HoldsRespected == \A j \in Jobs : job[j].gone \cap protected[j] = {}

Missed(r) == \E k \in Jobs : r \in job[k].missed

\* What a job leaves of the records it had to see, in table and index from its
\* beginning on: what was held, and what batch_delete missed.  An erasure leaves
\* no event of the actor that is older than it.
NothingOverlooked ==
  \A j \in Jobs :
    /\ job[j].pc \in {"events", "cert", "done"} =>
         \A r \in due[j] : store[r] = None \/ r \in job[j].held \/ Missed(r)
    /\ job[j].pc \in {"cert", "done"} => job[j].due_events \cap events = {}

Reported(j) ==
  LET total[n \in 0..Len(audit)] ==
        IF n = 0 THEN 0
        ELSE total[n - 1] + (IF audit[n].job = j THEN audit[n].deleted ELSE 0)
  IN  total[Len(audit)]

\* The entries of a sweep add up to the records it deleted, and the entry of a
\* certificate tells those of its erasure, whatever batches failed or met a concurrent
\* deletion.  Of a job that raised nothing is said: the batch it was at is not reported.
DeletionsOnRecord ==
  /\ \A j \in Sweepers : job[j].pc \notin {"log", "raised"} => Reported(j) = Cardinality(job[j].gone)
  /\ \A c \in certs :
       /\ Reported(c.job) = Cardinality(job[c.job].gone)
       /\ audit[c.chain_seq] = [op |-> "ERASURE_CERT", job |-> c.job, deleted |-> c.records_deleted]

\* As long as an envelope or a verdict of a deleted record is left in the tables,
\* its DELETE event is still to be handled, whatever brought them back and
\* whatever holds are set meanwhile (scanner.py:49-53).
ErasedAwaitsItsEvent ==
  \A r \in Records : r \in erased /\ (Readable(rows[r]) \/ r \in verdicts) =>
    stream[r] # <<>> /\ stream[r][Len(stream[r])].event_type = "DELETE"

\* Of a record that a job deleted, no envelope remains in the end: a late event
\* may bring it back, the record's own DELETE event takes it away again.  No verdict
\* remains either, unless a bare hold keeps the consumer from getting that far.
ErasedIsForgotten ==
  \A r \in Records :
    <>[](r \in erased => ~Readable(rows[r]) /\ (r \in verdicts => BareHold(rows[r])))
=============================================================================
