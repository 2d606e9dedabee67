--------------------------- MODULE ErasureProofs ----------------------------
(***************************************************************************)
(* Theorems about Erasure for any records, actors, jobs, threads, batch    *)
(* sizes, retentions and faults: types and holds, what the chain says that *)
(* erasures and sweeps deleted, and what they leave behind.                *)
(***************************************************************************)
EXTENDS Erasure, FiniteSetTheorems, SequenceTheorems, NaturalsInduction, WellFoundedInduction,
        TLAPS

-----------------------------------------------------------------------------
(* Types.                                                                  *)

LEMMA EnvelopeFacts ==
  ASSUME NEW env \in Envelope
  PROVE  /\ env # None /\ Readable(env) /\ env \in Row
         /\ \A hold \in BOOLEAN : [env EXCEPT !.legal_hold = hold] \in Envelope
         /\ \A v \in Versions : [env EXCEPT !.version = v] \in Envelope
BY NoneAssumption DEF Envelope, Readable, Row

LEMMA StampTyped ==
  ASSUME NEW v \in Versions, NEW now \in Nat, NEW days \in Nat
  PROVE  stamp(v, now, days) \in Envelope
BY DEF stamp, expires_at, Envelope

LEMMA ReadableRow ==
  ASSUME NEW row \in Row, Readable(row)
  PROVE  row \in Envelope
BY DEF Row, Readable, HoldOnly

LEMMA HeldRowTyped ==
  ASSUME NEW row \in Row, NEW hold \in BOOLEAN
  PROVE  (IF row = None THEN [legal_hold |-> hold]
          ELSE [row EXCEPT !.legal_hold = hold]) \in Row
<1>1. CASE row = None
  BY <1>1 DEF Row, HoldOnly
<1>2. CASE row # None /\ row \in Envelope
  BY <1>2, EnvelopeFacts
<1>3. CASE row # None /\ row \in HoldOnly
  BY <1>3 DEF Row, HoldOnly
<1> QED
  BY <1>1, <1>2, <1>3 DEF Row

LEMMA PutRowTyped ==
  ASSUME TypeOK, NEW r \in Records, NEW row \in Row, PutRow(r, row)
  PROVE  /\ rows' \in [Records -> Row] /\ indexed' \in [Records -> Row]
         /\ protected' \in [Jobs -> SUBSET Records] /\ due' \in [Jobs -> SUBSET Records]
BY DEF TypeOK, PutRow

LEMMA UpsertedTyped ==
  ASSUME NEW row \in Row, row = None \/ Readable(row), NEW e \in RecordEvent
  PROVE  Upserted(row, e) \in Envelope
<1>1. e.version \in Versions /\ e.ts \in Nat /\ extraction_ttl \in Nat
  BY ErasureAssumption DEF RecordEvent
<1> QED
  BY <1>1, StampTyped, ReadableRow, EnvelopeFacts DEF Upserted

Disjoint(st) ==
  /\ st.unread \cap (st.held \cup st.plan \cup st.purge) = {}
  /\ st.held \cap st.plan = {} /\ st.plan \cap st.purge = {}

\* A step of a job keeps the types if its new locals are typed.
LEMMA JobTyped ==
  ASSUME TypeOK, NEW j \in Jobs, NEW st \in JobState, Disjoint(st), job' = [job EXCEPT ![j] = st]
  PROVE  /\ job' \in [Jobs -> JobState]
         /\ \A k \in Jobs : Disjoint(job'[k])
BY DEF TypeOK, Disjoint

LEMMA BatchTyped ==
  ASSUME TypeOK, NEW j \in Jobs, NEW batch \in SUBSET job[j].plan,
         NEW removed \in SUBSET batch, NEW missed \in SUBSET batch, NEW pc \in {"log", "delete"}
  PROVE  /\ Counted(job[j], batch, removed, missed, pc) \in JobState
         /\ Disjoint(Counted(job[j], batch, removed, missed, pc))
<1>1. job[j] \in JobState /\ Disjoint(job[j])
  BY DEF TypeOK, Disjoint
<1>2. IsFiniteSet(removed)
  <2>1. removed \subseteq Records
    BY <1>1 DEF JobState
  <2> QED
    BY <2>1, FS_Subset, ErasureAssumption
<1>3. Cardinality(removed) \in Nat
  BY <1>2, FS_CardinalityType
<1>4. job[j].deleted + Cardinality(removed) \in Nat
  BY <1>1, <1>3 DEF JobState
<1>5. Counted(job[j], batch, removed, missed, pc) \in JobState
  BY <1>1, <1>3, <1>4 DEF Counted, JobState
<1>6. PICK st : st = job[j]
  OBVIOUS
<1>7. Disjoint(Counted(st, batch, removed, missed, pc))
  BY <1>1, <1>6 DEF Counted, JobState, Disjoint
<1> QED
  BY <1>5, <1>6, <1>7

\* A record's stream is read by one consumer at a time, at its head.
OneConsumer ==
  /\ \A s \in Scanners : scanner[s] # IdleThread => stream[scanner[s].rec] # <<>>
  /\ \A s, t \in Scanners :
       s # t /\ scanner[s] # IdleThread /\ scanner[t] # IdleThread => scanner[s].rec # scanner[t].rec

LEMMA EmitTyped ==
  ASSUME TypeOK, NEW r \in Records, NEW type \in {"CREATE", "UPDATE", "DELETE"},
         NEW v \in Versions, emit(r, type, v)
  PROVE  stream' \in [Records -> Seq(RecordEvent)]
<1> DEFINE e == [event_type |-> type, version |-> v, ts |-> clock]
<1>1. e \in RecordEvent
  BY DEF TypeOK, RecordEvent
<1>2. stream' = [stream EXCEPT ![r] = Append(@, e)]
  BY DEF emit
<1> HIDE DEF e
<1>3. \A q \in Seq(RecordEvent) : Append(q, e) \in Seq(RecordEvent)
  BY <1>1
<1> QED
  BY <1>2, <1>3 DEF TypeOK

LEMMA TypeInit == Init => TypeOK
BY ErasureAssumption DEF Init, TypeOK, IdleThread, IdleJob, JobState, WriterState, ScannerState,
                         Row, Versions

LEMMA TypeStep == TypeOK /\ OneConsumer /\ [Next]_vars => TypeOK'
<1> SUFFICES ASSUME TypeOK, OneConsumer, [Next]_vars  PROVE TypeOK'
  OBVIOUS
<1> USE DEF Disjoint
<1>a. /\ 0 \in Versions /\ ttl \in Nat /\ clock \in Nat
      /\ events \subseteq Events /\ audit \in Seq(AuditEntry)
      /\ \A j \in Jobs : job[j] \in JobState /\ Disjoint(job[j])
  BY ErasureAssumption DEF Versions, TypeOK
<1>1. ASSUME NEW r \in Records, ExtractionCreate(r)  PROVE TypeOK'
  <2>1. stream' \in [Records -> Seq(RecordEvent)]
    BY <1>1, <1>a, EmitTyped DEF ExtractionCreate
  <2> QED
    BY <1>1, <1>a, <2>1 DEF ExtractionCreate, TypeOK, tables, locals, threads, history
<1>2. ASSUME NEW r \in Records, BackendUpdate(r)  PROVE TypeOK'
  <2>1. store[r] + 1 \in Versions
    BY <1>2, ErasureAssumption DEF BackendUpdate, TypeOK, Versions
  <2>2. stream' \in [Records -> Seq(RecordEvent)]
    BY <1>2, <2>1, EmitTyped DEF BackendUpdate
  <2> QED
    BY <1>2, <2>1, <2>2 DEF BackendUpdate, TypeOK, tables, locals, threads, history
<1>3. ASSUME NEW r \in Records, Propagate(r)  PROVE TypeOK'
  BY <1>3 DEF Propagate, TypeOK, backend, locals, threads, history
<1>4. ASSUME NEW r \in Records, NEW hold \in BOOLEAN, set_legal_hold(r, hold)  PROVE TypeOK'
  <2> DEFINE row == IF rows[r] = None THEN [legal_hold |-> hold]
                    ELSE [rows[r] EXCEPT !.legal_hold = hold]
  <2>1. row \in Row
    <3>1. rows[r] \in Row
      BY DEF TypeOK
    <3> QED
      BY <3>1, HeldRowTyped
  <2>2. PutRow(r, row)
    BY <1>4 DEF set_legal_hold
  <2> HIDE DEF row
  <2>3. /\ rows' \in [Records -> Row] /\ indexed' \in [Records -> Row]
        /\ protected' \in [Jobs -> SUBSET Records] /\ due' \in [Jobs -> SUBSET Records]
    BY <2>1, <2>2, PutRowTyped
  <2> QED
    BY <1>4, <2>3 DEF set_legal_hold, TypeOK, backend, locals, threads
<1>5. ASSUME NEW e \in Events, create_event(e)  PROVE TypeOK'
  BY <1>5 DEF create_event, TypeOK, tables, locals, threads, history
<1>6. CASE Tick
  BY <1>6 DEF Tick, TypeOK, backend, tables, threads, history
<1>7. ASSUME NEW w \in Writers, NEW r \in Records, BackendPut(w, r)  PROVE TypeOK'
  <2>1. stream' \in [Records -> Seq(RecordEvent)]
    BY <1>7, <1>a, EmitTyped DEF BackendPut
  <2>2. stamp(0, clock, ttl) \in Envelope
    BY <1>a, StampTyped
  <2>3. writer' \in [Writers -> WriterState]
    BY <1>7, <2>2 DEF BackendPut, TypeOK, WriterState
  <2> QED
    BY <1>7, <1>a, <2>1, <2>3 DEF BackendPut, TypeOK, tables, locals, history
<1>8. ASSUME NEW w \in Writers, PutEnvelope(w)  PROVE TypeOK'
  <2>1. writer[w] \in [pc : {"envelope", "verdict"}, rec : Records, env : Envelope]
    BY <1>8 DEF PutEnvelope, TypeOK, WriterState, IdleThread
  <2>2. /\ rows' \in [Records -> Row] /\ indexed' \in [Records -> Row]
        /\ protected' \in [Jobs -> SUBSET Records] /\ due' \in [Jobs -> SUBSET Records]
    BY <1>8, <2>1, EnvelopeFacts, PutRowTyped DEF PutEnvelope
  <2>3. writer' \in [Writers -> WriterState]
    BY <1>8, <2>1 DEF PutEnvelope, TypeOK, WriterState
  <2> QED
    BY <1>8, <2>2, <2>3 DEF PutEnvelope, TypeOK, backend, locals
<1>9. ASSUME NEW w \in Writers, FinishWrite(w)  PROVE TypeOK'
  <2>1. writer[w].rec \in Records
    BY <1>9 DEF FinishWrite, TypeOK, WriterState, IdleThread
  <2>2. writer' \in [Writers -> WriterState]
    BY <1>9 DEF FinishWrite, TypeOK, WriterState
  <2> QED
    BY <1>9, <2>1, <2>2 DEF FinishWrite, TypeOK, backend, history
<1>10. ASSUME NEW s \in Scanners, NEW r \in Records, Receive(s, r)  PROVE TypeOK'
  <2>1. stream[r] \in Seq(RecordEvent) /\ stream[r] # <<>> /\ rows[r] \in Row
    BY <1>10 DEF Receive, Deliverable, TypeOK
  <2>2. Head(stream[r]) \in RecordEvent
    BY <2>1
  <2>3. Upserted(rows[r], Head(stream[r])) \in Envelope
    BY <1>10, <2>1, <2>2, UpsertedTyped DEF Receive
  <2>4. scanner' \in [Scanners -> ScannerState]
    BY <1>10, <2>3 DEF Receive, ScannerTo, TypeOK, ScannerState
  <2> QED
    BY <1>10, <2>4 DEF Receive, ScannerTo, TypeOK, backend, tables, locals, history
<1>11. ASSUME NEW s \in Scanners, NEW r \in Records, ReceiveDelete(s, r)  PROVE TypeOK'
  <2>1. /\ rows' \in [Records -> Row] /\ indexed' \in [Records -> Row]
        /\ protected' \in [Jobs -> SUBSET Records] /\ due' \in [Jobs -> SUBSET Records]
    BY <1>11, PutRowTyped DEF ReceiveDelete, Row
  <2>2. scanner' \in [Scanners -> ScannerState]
    BY <1>11 DEF ReceiveDelete, TypeOK, ScannerState
  <2> QED
    BY <1>11, <2>1, <2>2 DEF ReceiveDelete, TypeOK, backend, locals
<1>12. ASSUME NEW s \in Scanners, Bind(s)  PROVE TypeOK'
  <2>1. scanner[s] \in [pc : {"bind", "judge", "ack"}, rec : Records, env : Envelope]
    BY <1>12 DEF Bind, TypeOK, ScannerState, IdleThread
  <2>2. /\ rows' \in [Records -> Row] /\ indexed' \in [Records -> Row]
        /\ protected' \in [Jobs -> SUBSET Records] /\ due' \in [Jobs -> SUBSET Records]
    BY <1>12, <2>1, EnvelopeFacts, PutRowTyped DEF Bind
  <2>3. scanner' \in [Scanners -> ScannerState]
    BY <1>12, <2>1 DEF Bind, TypeOK, ScannerState
  <2> QED
    BY <1>12, <2>2, <2>3 DEF Bind, TypeOK, backend, locals
<1>13. ASSUME NEW s \in Scanners, PutVerdict(s)  PROVE TypeOK'
  <2>1. scanner[s] \in [pc : {"bind", "judge", "ack"}, rec : Records, env : Envelope]
    BY <1>13 DEF PutVerdict, TypeOK, ScannerState, IdleThread
  <2>2. scanner' \in [Scanners -> ScannerState]
    BY <1>13, <2>1 DEF PutVerdict, TypeOK, ScannerState
  <2> QED
    BY <1>13, <2>1, <2>2 DEF PutVerdict, TypeOK, backend, locals, history
<1>14. ASSUME NEW s \in Scanners, DeleteVerdict(s)  PROVE TypeOK'
  <2>1. scanner[s] \in [pc : {"delete", "ack"}, rec : Records, env : {None}]
    <3>1. scanner[s] \in ScannerState /\ scanner[s].pc = "delete"
      BY <1>14 DEF DeleteVerdict, TypeOK
    <3>2. scanner[s] # IdleThread
      BY <3>1 DEF IdleThread
    <3>3. scanner[s] \notin [pc : {"bind", "judge", "ack"}, rec : Records, env : Envelope]
      BY <3>1
    <3> QED
      BY <3>1, <3>2, <3>3 DEF ScannerState
  <2>2. [scanner[s] EXCEPT !.pc = "ack"] \in [pc : {"delete", "ack"}, rec : Records, env : {None}]
    BY <2>1
  <2>3. scanner' = [scanner EXCEPT ![s] = [scanner[s] EXCEPT !.pc = "ack"]]
    BY <1>14 DEF DeleteVerdict, TypeOK
  <2>4. scanner' \in [Scanners -> ScannerState]
    BY <2>2, <2>3 DEF TypeOK, ScannerState
  <2> QED
    BY <1>14, <2>4 DEF DeleteVerdict, TypeOK, backend, locals, history
<1>15. ASSUME NEW s \in Scanners, Acknowledge(s)  PROVE TypeOK'
  <2>1. scanner' \in [Scanners -> ScannerState]
    BY <1>15 DEF Acknowledge, TypeOK, ScannerState
  <2>2. scanner[s].rec \in Records /\ stream[scanner[s].rec] # <<>>
    BY <1>15 DEF Acknowledge, TypeOK, ScannerState, IdleThread, OneConsumer
  <2>3. \A q \in Seq(RecordEvent) : q # <<>> => Tail(q) \in Seq(RecordEvent)
    OBVIOUS
  <2>4. stream' \in [Records -> Seq(RecordEvent)]
    BY <1>15, <2>2, <2>3 DEF Acknowledge, TypeOK
  <2> QED
    BY <1>15, <2>1, <2>4 DEF Acknowledge, TypeOK, tables, locals, history
<1>16. ASSUME NEW s \in Scanners, ScanRaises(s)  PROVE TypeOK'
  BY <1>16 DEF ScanRaises, ScannerTo, TypeOK, ScannerState, backend, tables, locals, history
<1>17. ASSUME NEW j \in Jobs, StartJob(j)  PROVE TypeOK'
  <2> DEFINE due_events == {e \in events : j \in Erasers /\ speaker_of[e] = subject[j]}
             st == [IdleJob EXCEPT !.pc = "walk", !.now = clock, !.unread = Records,
                                   !.due_events = due_events]
  <2>j. clock \in Nat /\ due_events \in SUBSET Events
    BY <1>a
  <2>2. job' = [job EXCEPT ![j] = st]
    BY <1>17 DEF StartJob
  <2> HIDE DEF due_events
  <2>1. st \in JobState /\ Disjoint(st)
    BY <2>j DEF IdleJob, JobState
  <2> HIDE DEF st
  <2>3. job' \in [Jobs -> JobState] /\ \A k \in Jobs : Disjoint(job'[k])
    BY <2>1, <2>2, JobTyped
  <2>4. protected' \in [Jobs -> SUBSET Records] /\ due' \in [Jobs -> SUBSET Records]
    BY <1>17 DEF StartJob, TypeOK
  <2> QED
    BY <1>17, <2>3, <2>4 DEF StartJob, TypeOK, backend, tables, locals
<1>18. ASSUME NEW j \in Jobs, NEW r \in Records, ReadRow(j, r)  PROVE TypeOK'
  <2> DEFINE held == {h \in {r} : Walked(j, h, indexed[h]) /\ Holds(indexed[h])}
             plan == {h \in {r} : Walked(j, h, indexed[h]) /\ ~Holds(indexed[h])}
             pc == IF job[j].unread = {r} THEN "delete" ELSE job[j].pc
             st == [job[j] EXCEPT !.unread = @ \ {r}, !.pc = pc,
                                  !.held = @ \cup held, !.plan = @ \cup plan]
  <2>m. /\ held \subseteq {r} /\ plan \subseteq {r} /\ held \cap plan = {}
        /\ r \in job[j].unread /\ pc \in {"walk", "delete"}
    BY <1>18 DEF ReadRow
  <2>a. st \in JobState /\ Disjoint(st)
    <3> HIDE DEF held, plan, pc
    <3>1. /\ job[j].unread \ {r} \in SUBSET Records /\ job[j].held \cup held \in SUBSET Records
          /\ job[j].plan \cup plan \in SUBSET Records
          /\ pc \in {"idle", "walk", "delete", "log", "verdict", "events", "cert", "done", "raised"}
          /\ job[j] \in JobState
      BY <2>m, <1>a DEF JobState
    <3>2. st \in JobState
      BY <3>1 DEF JobState
    <3>3. /\ st.unread = job[j].unread \ {r} /\ st.held = job[j].held \cup held
          /\ st.plan = job[j].plan \cup plan /\ st.purge = job[j].purge
      BY <1>a DEF JobState
    <3> HIDE DEF st
    <3>4. Disjoint(st)
      BY <3>3, <2>m, <1>a
    <3> QED
      BY <3>2, <3>4
  <2>b. job' = [job EXCEPT ![j] = st]
    BY <1>18 DEF ReadRow, JobTo, TypeOK
  <2> HIDE DEF st
  <2>1. job' \in [Jobs -> JobState] /\ \A k \in Jobs : Disjoint(job'[k])
    BY <2>a, <2>b, JobTyped
  <2> QED
    BY <1>18, <2>1 DEF ReadRow, JobTo, TypeOK, backend, tables, locals, history
<1>19. ASSUME NEW j \in Jobs, NEW r \in Records, DropEnvelope(j, r)  PROVE TypeOK'
  <2>1. /\ rows' \in [Records -> Row] /\ indexed' \in [Records -> Row]
        /\ protected' \in [Jobs -> SUBSET Records] /\ due' \in [Jobs -> SUBSET Records]
    BY <1>19, PutRowTyped DEF DropEnvelope, Row
  <2> DEFINE st == [job[j] EXCEPT !.pc = "verdict", !.rid = r]
  <2>j. job[j] \in JobState /\ Disjoint(job[j])
    BY <1>a
  <2>a. st \in JobState /\ Disjoint(st)
    BY <2>j DEF JobState
  <2>b. job' = [job EXCEPT ![j] = st]
    BY <1>19 DEF DropEnvelope, TypeOK
  <2> HIDE DEF st
  <2>2. job' \in [Jobs -> JobState] /\ \A k \in Jobs : Disjoint(job'[k])
    BY <2>a, <2>b, JobTyped
  <2> QED
    BY <1>19, <2>1, <2>2 DEF DropEnvelope, TypeOK, backend, locals
<1>20. ASSUME NEW j \in Jobs, NEW batch \in SUBSET job[j].plan, NEW missed \in SUBSET batch,
              DeleteBatch(j, batch, missed)
       PROVE  TypeOK'
  <2> DEFINE removed == {r \in batch \ missed : store[r] # None}
             pc == IF j \in Sweepers THEN "log" ELSE "delete"
             st == Counted(job[j], batch, removed, missed, pc)
  <2>1. st \in JobState /\ Disjoint(st)
    <3>1. removed \in SUBSET batch /\ pc \in {"log", "delete"}
      OBVIOUS
    <3> QED
      BY <3>1, BatchTyped
  <2>2. job' = [job EXCEPT ![j] = st] /\ Removes(removed)
    BY <1>20 DEF DeleteBatch, TypeOK
  <2>3. removed \subseteq Records
    BY <1>a DEF JobState
  <2> HIDE DEF st, removed
  <2>4. job' \in [Jobs -> JobState] /\ \A k \in Jobs : Disjoint(job'[k])
    BY <2>1, <2>2, JobTyped
  <2>5. store' \in [Records -> Versions \cup {None}]
    BY <2>2 DEF Removes, TypeOK
  <2>6. stream' \in [Records -> Seq(RecordEvent)]
    <3>1. SUFFICES ASSUME NEW r \in Records  PROVE stream'[r] \in Seq(RecordEvent)
      BY <2>2 DEF Removes
    <3>2. CASE r \in removed
      <4>1. store[r] \in Versions
        BY <3>2 DEF removed, TypeOK
      <4>2. [event_type |-> "DELETE", version |-> store[r], ts |-> clock] \in RecordEvent
        BY <4>1, <1>a DEF RecordEvent
      <4> QED
        BY <2>2, <3>2, <4>2 DEF Removes, TypeOK
    <3>3. CASE r \notin removed
      BY <2>2, <3>3 DEF Removes, TypeOK
    <3> QED
      BY <3>2, <3>3
  <2>e. erased' \in SUBSET Records
    BY <2>2, <2>3 DEF Removes, TypeOK
  <2> QED
    BY <2>2, <2>3, <2>4, <2>5, <2>6, <2>e DEF Removes, TypeOK, tables, locals
<1>21. ASSUME NEW j \in Jobs, LogBatch(j)  PROVE TypeOK'
  <2>1. audit' \in Seq(AuditEntry)
    BY <1>21, <1>a DEF LogBatch, TypeOK, AuditEntry, JobState
  <2> DEFINE st == [job[j] EXCEPT !.pc = "delete"]
  <2>j. job[j] \in JobState /\ Disjoint(job[j])
    BY <1>a
  <2>a. st \in JobState /\ Disjoint(st)
    BY <2>j DEF JobState
  <2>b. job' = [job EXCEPT ![j] = st]
    BY <1>21 DEF LogBatch, TypeOK
  <2> HIDE DEF st
  <2>2. job' \in [Jobs -> JobState] /\ \A k \in Jobs : Disjoint(job'[k])
    BY <2>a, <2>b, JobTyped
  <2> QED
    BY <1>21, <2>1, <2>2 DEF LogBatch, TypeOK, backend, locals, history
<1>22. ASSUME NEW j \in Jobs, DropVerdict(j)  PROVE TypeOK'
  <2> DEFINE st == [job[j] EXCEPT !.pc = "delete", !.purge = @ \ {job[j].rid}, !.rid = None]
  <2>j. job[j] \in JobState /\ Disjoint(job[j])
    BY <1>a
  <2>a. st \in JobState /\ Disjoint(st)
    BY <2>j DEF JobState
  <2>b. job' = [job EXCEPT ![j] = st]
    BY <1>22 DEF DropVerdict, TypeOK
  <2> HIDE DEF st
  <2>1. job' \in [Jobs -> JobState] /\ \A k \in Jobs : Disjoint(job'[k])
    BY <2>a, <2>b, JobTyped
  <2> QED
    BY <1>22, <2>1 DEF DropVerdict, TypeOK, backend, history
<1>23. ASSUME NEW j \in Jobs, EndSweep(j)  PROVE TypeOK'
  <2> DEFINE st == [job[j] EXCEPT !.pc = "done"]
  <2>j. job[j] \in JobState /\ Disjoint(job[j])
    BY <1>a
  <2>a. st \in JobState /\ Disjoint(st)
    BY <2>j DEF JobState
  <2>b. job' = [job EXCEPT ![j] = st]
    BY <1>23 DEF EndSweep, JobTo, TypeOK
  <2> HIDE DEF st
  <2>1. job' \in [Jobs -> JobState] /\ \A k \in Jobs : Disjoint(job'[k])
    BY <2>a, <2>b, JobTyped
  <2> QED
    BY <1>23, <2>1 DEF EndSweep, JobTo, TypeOK, backend, tables, locals, history
<1>24. ASSUME NEW j \in Jobs, ListSessions(j)  PROVE TypeOK'
  <2>1. {session_of[e] : e \in {d \in events : speaker_of[d] = subject[j]}}
          \subseteq {session_of[e] : e \in Events}
    BY DEF TypeOK
  <2> DEFINE st == [job[j] EXCEPT !.pc = "events",
       !.sessions = {session_of[e] : e \in {d \in events : speaker_of[d] = subject[j]}}]
  <2>j. job[j] \in JobState /\ Disjoint(job[j])
    BY <1>a
  <2>a. st \in JobState /\ Disjoint(st)
    BY <2>1, <2>j DEF JobState
  <2>b. job' = [job EXCEPT ![j] = st]
    BY <1>24 DEF ListSessions, JobTo, TypeOK
  <2> HIDE DEF st
  <2>2. job' \in [Jobs -> JobState] /\ \A k \in Jobs : Disjoint(job'[k])
    BY <2>a, <2>b, JobTyped
  <2> QED
    BY <1>24, <2>2 DEF ListSessions, JobTo, TypeOK, backend, tables, locals, history
<1>25. ASSUME NEW j \in Jobs, NEW session, ListEvents(j, session)  PROVE TypeOK'
  <2> DEFINE doomed == {e \in events : speaker_of[e] = subject[j] /\ session_of[e] = session}
             left == job[j].sessions \ {session}
             st == [job[j] EXCEPT !.sessions = left, !.doomed = doomed]
  <2>n. doomed \in SUBSET Events /\ left \in SUBSET {session_of[e] : e \in Events}
    BY <1>a DEF TypeOK, JobState
  <2>b. job' = [job EXCEPT ![j] = st]
    BY <1>25 DEF ListEvents, JobTo, TypeOK
  <2> HIDE DEF doomed, left
  <2>j. job[j] \in JobState /\ Disjoint(job[j])
    BY <1>a
  <2>a. st \in JobState /\ Disjoint(st)
    BY <2>n, <2>j DEF JobState
  <2> HIDE DEF st
  <2>1. job' \in [Jobs -> JobState] /\ \A k \in Jobs : Disjoint(job'[k])
    BY <2>a, <2>b, JobTyped
  <2> QED
    BY <1>25, <2>1 DEF ListEvents, JobTo, TypeOK, backend, tables, locals, history
<1>26. ASSUME NEW j \in Jobs, NEW e \in Events, DeleteEvent(j, e)  PROVE TypeOK'
  <2> DEFINE st == [job[j] EXCEPT !.doomed = @ \ {e}, !.events_deleted = @ + 1]
  <2>n. job[j].events_deleted + 1 \in Nat /\ job[j].doomed \ {e} \in SUBSET Events
    BY <1>a DEF JobState
  <2>j. job[j] \in JobState /\ Disjoint(job[j])
    BY <1>a
  <2>a. st \in JobState /\ Disjoint(st)
    BY <2>n, <2>j DEF JobState
  <2>b. job' = [job EXCEPT ![j] = st]
    BY <1>26 DEF DeleteEvent, TypeOK
  <2> HIDE DEF st
  <2>1. job' \in [Jobs -> JobState] /\ \A k \in Jobs : Disjoint(job'[k])
    BY <2>a, <2>b, JobTyped
  <2> QED
    BY <1>26, <2>1 DEF DeleteEvent, TypeOK, tables, locals, history
<1>27. ASSUME NEW j \in Jobs, AppendCert(j)  PROVE TypeOK'
  <2>1. audit' \in Seq(AuditEntry)
    BY <1>27, <1>a DEF AppendCert, CertEntry, TypeOK, AuditEntry, JobState
  <2> DEFINE st == [job[j] EXCEPT !.pc = "cert", !.batch = Len(audit) + 1]
  <2>n. Len(audit) + 1 \in Nat
    BY <1>a
  <2>j. job[j] \in JobState /\ Disjoint(job[j])
    BY <1>a
  <2>a. st \in JobState /\ Disjoint(st)
    BY <2>n, <2>j DEF JobState
  <2>b. job' = [job EXCEPT ![j] = st]
    BY <1>27 DEF AppendCert, TypeOK
  <2> HIDE DEF st
  <2>2. job' \in [Jobs -> JobState] /\ \A k \in Jobs : Disjoint(job'[k])
    BY <2>a, <2>b, JobTyped
  <2> QED
    BY <1>27, <2>1, <2>2 DEF AppendCert, TypeOK, backend, locals, history
<1>28. ASSUME NEW j \in Jobs, put_certificate(j)  PROVE TypeOK'
  <2>c. Certificate(j, job[j].batch) \in CertificateRow
    <3>1. job[j] \in JobState
      BY <1>a
    <3>2. IsFiniteSet(job[j].held)
      BY <3>1, FS_Subset, ErasureAssumption DEF JobState
    <3>3. Cardinality(job[j].held) \in Nat
      BY <3>2, FS_CardinalityType
    <3> QED
      BY <3>1, <3>3 DEF Certificate, CertificateRow, JobState
  <2> DEFINE st == [job[j] EXCEPT !.pc = "done"]
  <2>j. job[j] \in JobState /\ Disjoint(job[j])
    BY <1>a
  <2>a. st \in JobState /\ Disjoint(st)
    BY <2>j DEF JobState
  <2>b. job' = [job EXCEPT ![j] = st]
    BY <1>28 DEF put_certificate, TypeOK
  <2> HIDE DEF st
  <2>1. job' \in [Jobs -> JobState] /\ \A k \in Jobs : Disjoint(job'[k])
    BY <2>a, <2>b, JobTyped
  <2> QED
    BY <1>28, <2>c, <2>1 DEF put_certificate, TypeOK, backend, locals, history
<1>29. ASSUME NEW j \in Jobs, JobRaises(j)  PROVE TypeOK'
  <2> DEFINE st == [IdleJob EXCEPT !.pc = "raised", !.gone = job[j].gone, !.missed = job[j].missed]
  <2>j. job[j] \in JobState /\ Disjoint(job[j])
    BY <1>a
  <2>a. st \in JobState /\ Disjoint(st)
    BY <2>j DEF IdleJob, JobState
  <2>b. job' = [job EXCEPT ![j] = st]
    BY <1>29 DEF JobRaises, TypeOK
  <2> HIDE DEF st
  <2>1. job' \in [Jobs -> JobState] /\ \A k \in Jobs : Disjoint(job'[k])
    BY <2>a, <2>b, JobTyped
  <2> QED
    BY <1>29, <2>1 DEF JobRaises, TypeOK, backend, tables, locals
<1>30. CASE UNCHANGED vars
  BY <1>30 DEF vars, TypeOK, backend, tables, locals, threads, history
<1> QED
  BY <1>1, <1>2, <1>3, <1>4, <1>5, <1>6, <1>7, <1>8, <1>9, <1>10, <1>11, <1>12, <1>13, <1>14,
     <1>15, <1>16, <1>17, <1>18, <1>19, <1>20, <1>21, <1>22, <1>23, <1>24, <1>25, <1>26, <1>27,
     <1>28, <1>29, <1>30
  DEF Next, Environment, WriterNext, ScannerNext, JobNext

-----------------------------------------------------------------------------
(* One consumer per record.                                                *)

\* Streams only get longer, except by the acknowledgement of their consumer.
LEMMA ConsumerFrame ==
  ASSUME OneConsumer, scanner' = scanner, TypeOK,
         \A r \in Records : stream[r] # <<>> => stream'[r] # <<>>
  PROVE  OneConsumer'
BY DEF OneConsumer, TypeOK, ScannerState, IdleThread

LEMMA AppendNonempty ==
  ASSUME NEW S, NEW q \in Seq(S), NEW e \in S
  PROVE  Append(q, e) # <<>>
BY AppendProperties

LEMMA EmitLengthens ==
  ASSUME TypeOK, NEW r \in Records, NEW type \in {"CREATE", "UPDATE", "DELETE"},
         NEW v \in Versions, emit(r, type, v)
  PROVE  \A q \in Records : stream[q] # <<>> => stream'[q] # <<>>
<1> DEFINE e == [event_type |-> type, version |-> v, ts |-> clock]
<1>1. /\ stream \in [Records -> Seq(RecordEvent)] /\ stream' = [stream EXCEPT ![r] = Append(@, e)]
      /\ e \in RecordEvent
  BY DEF emit, TypeOK, RecordEvent
<1> HIDE DEF e
<1>2. \A q \in Seq(RecordEvent) : Append(q, e) # <<>>
  BY <1>1, AppendNonempty
<1> QED
  BY <1>1, <1>2

LEMMA ConsumerStep == TypeOK /\ OneConsumer /\ [Next]_vars => OneConsumer'
<1> SUFFICES ASSUME TypeOK, OneConsumer, [Next]_vars  PROVE OneConsumer'
  OBVIOUS
<1> USE DEF backend, tables, locals, threads, history
<1>1. ASSUME NEW r \in Records, ExtractionCreate(r) \/ BackendUpdate(r)  PROVE OneConsumer'
  <2>1. 0 \in Versions /\ (BackendUpdate(r) => store[r] + 1 \in Versions)
    BY ErasureAssumption DEF BackendUpdate, TypeOK, Versions
  <2> QED
    BY <1>1, <2>1, EmitLengthens, ConsumerFrame DEF ExtractionCreate, BackendUpdate
<1>2. ASSUME NEW w \in Writers, NEW r \in Records, BackendPut(w, r)  PROVE OneConsumer'
  <2>1. 0 \in Versions
    BY ErasureAssumption DEF Versions
  <2> QED
    BY <1>2, <2>1, EmitLengthens, ConsumerFrame DEF BackendPut
<1>3. ASSUME NEW s \in Scanners, NEW r \in Records, Receive(s, r) \/ ReceiveDelete(s, r)
      PROVE  OneConsumer'
  <2>1. /\ scanner'[s].rec = r /\ stream' = stream
        /\ \A t \in Scanners \ {s} : scanner'[t] = scanner[t]
    BY <1>3 DEF Receive, ReceiveDelete, ScannerTo, TypeOK
  <2>2. stream[r] # <<>> /\ \A t \in Scanners : scanner[t] # IdleThread => scanner[t].rec # r
    BY <1>3 DEF Receive, ReceiveDelete, Deliverable
  <2> QED
    BY <2>1, <2>2 DEF OneConsumer
<1>4. ASSUME NEW s \in Scanners, Bind(s) \/ PutVerdict(s) \/ DeleteVerdict(s)  PROVE OneConsumer'
  <2>1. /\ \A t \in Scanners : scanner'[t] # IdleThread =>
             scanner[t] # IdleThread /\ scanner'[t].rec = scanner[t].rec
        /\ stream' = stream
    BY <1>4 DEF Bind, PutVerdict, DeleteVerdict, TypeOK, ScannerState, IdleThread
  <2> QED
    BY <2>1 DEF OneConsumer
<1>5. ASSUME NEW s \in Scanners, Acknowledge(s)  PROVE OneConsumer'
  <2>1. scanner[s] # IdleThread
    BY <1>5 DEF Acknowledge, IdleThread
  <2> QED
    BY <1>5, <2>1 DEF Acknowledge, OneConsumer, TypeOK
<1>6. ASSUME NEW s \in Scanners, ScanRaises(s)  PROVE OneConsumer'
  BY <1>6 DEF ScanRaises, ScannerTo, OneConsumer, TypeOK
<1>7. ASSUME NEW j \in Jobs, NEW batch, NEW missed, DeleteBatch(j, batch, missed)
      PROVE  OneConsumer'
  <2>2. ASSUME NEW r \in Records, stream[r] # <<>>  PROVE stream'[r] # <<>>
    <3>1. CASE r \in {q \in batch \ missed : store[q] # None}
      <4> DEFINE e == [event_type |-> "DELETE", version |-> store[r], ts |-> clock]
      <4>1. e \in RecordEvent /\ stream[r] \in Seq(RecordEvent)
        BY <3>1 DEF RecordEvent, TypeOK
      <4>2. stream'[r] = Append(stream[r], e)
        BY <1>7, <3>1 DEF DeleteBatch, Removes
      <4> HIDE DEF e
      <4>3. Append(stream[r], e) # <<>>
        BY <4>1, AppendNonempty
      <4> QED
        BY <4>2, <4>3
    <3>2. CASE r \notin {q \in batch \ missed : store[q] # None}
      BY <1>7, <2>2, <3>2 DEF DeleteBatch, Removes
    <3> QED
      BY <3>1, <3>2
  <2> QED
    BY <1>7, <2>2, ConsumerFrame DEF DeleteBatch, Removes
<1>8. CASE scanner' = scanner /\ stream' = stream
  BY <1>8 DEF OneConsumer
<1>9. ASSUME NEW r \in Records, Propagate(r) \/ \E hold \in BOOLEAN : set_legal_hold(r, hold)
      PROVE  scanner' = scanner /\ stream' = stream
  BY <1>9 DEF Propagate, set_legal_hold
<1>10. ASSUME NEW e \in Events, create_event(e)  PROVE scanner' = scanner /\ stream' = stream
  BY <1>10 DEF create_event
<1>11. ASSUME NEW w \in Writers, PutEnvelope(w) \/ FinishWrite(w)
       PROVE  scanner' = scanner /\ stream' = stream
  BY <1>11 DEF PutEnvelope, FinishWrite
<1>12. ASSUME NEW j \in Jobs, NEW r \in Records, ReadRow(j, r) \/ DropEnvelope(j, r)
       PROVE  scanner' = scanner /\ stream' = stream
  BY <1>12 DEF ReadRow, DropEnvelope, JobTo
<1>13. ASSUME NEW j \in Jobs, NEW e \in Events, ListEvents(j, session_of[e]) \/ DeleteEvent(j, e)
       PROVE  scanner' = scanner /\ stream' = stream
  BY <1>13 DEF ListEvents, DeleteEvent, JobTo
<1>14. ASSUME NEW j \in Jobs,
              StartJob(j) \/ LogBatch(j) \/ DropVerdict(j) \/ EndSweep(j) \/ ListSessions(j)
              \/ AppendCert(j) \/ put_certificate(j) \/ JobRaises(j)
       PROVE  scanner' = scanner /\ stream' = stream
  BY <1>14 DEF StartJob, LogBatch, DropVerdict, EndSweep, ListSessions, AppendCert,
               put_certificate, JobRaises, JobTo
<1>15. Tick \/ UNCHANGED vars => scanner' = scanner /\ stream' = stream
  BY DEF Tick, vars
<1> QED
  BY <1>1, <1>2, <1>3, <1>4, <1>5, <1>6, <1>7, <1>8, <1>9, <1>10, <1>11, <1>12, <1>13, <1>14,
     <1>15
  DEF Next, Environment, WriterNext, ScannerNext, JobNext

TypeInv == TypeOK /\ OneConsumer

\* The types of every variable: at each step, whatever the threads are in the
\* middle of, a row has the shape that its readers expect, and the lists of
\* records that a job keeps do not overlap.
THEOREM TypesCorrect == Spec => []TypeOK
<1>1. Init => TypeInv
  BY TypeInit DEF Init, OneConsumer, TypeInv
<1>2. TypeInv /\ [Next]_vars => TypeInv'
  BY TypeStep, ConsumerStep DEF TypeInv
<1>3. TypeInv => TypeOK
  BY DEF TypeInv
<1> QED
  BY <1>1, <1>2, <1>3, PTL DEF Spec

-----------------------------------------------------------------------------
(* Legal holds.                                                            *)

\* A record whose hold a job has to see: the hold is in the table and in the
\* index, and the job has not taken the record.
Untaken(j, r) ==
  Holds(rows[r]) /\ Holds(indexed[r]) /\ r \notin job[j].plan /\ r \notin job[j].gone

HoldInv == \A j \in Jobs : \A r \in protected[j] : Untaken(j, r)

\* The record's table row and index entry lose the hold only in PutRow, which
\* strikes the record from the list.
LEMMA HoldFrame ==
  ASSUME TypeOK, HoldInv,
         \/ \E r \in Records, row \in Row : PutRow(r, row)
         \/ /\ rows' = rows /\ protected' = protected
            /\ indexed' = indexed \/ \E r \in Records : indexed' = [indexed EXCEPT ![r] = rows[r]],
         \A j \in Jobs : job'[j].plan = job[j].plan /\ job'[j].gone = job[j].gone
  PROVE  HoldInv'
<1> SUFFICES ASSUME NEW j \in Jobs, NEW q \in protected'[j]  PROVE Untaken(j, q)'
  BY DEF HoldInv
<1>1. CASE rows' = rows /\ protected' = protected
  <2>1. q \in Records /\ Untaken(j, q)
    BY <1>1 DEF TypeOK, HoldInv
  <2>2. rows'[q] = rows[q] /\ Holds(rows[q]) /\ Holds(indexed[q])
    BY <1>1, <2>1 DEF Untaken
  <2>3. indexed'[q] = indexed[q] \/ indexed'[q] = rows[q]
    <3>1. rows \in [Records -> Row] /\ indexed \in [Records -> Row]
      BY DEF TypeOK
    <3>2. ASSUME NEW r \in Records, NEW row \in Row, PutRow(r, row)
          PROVE  indexed'[q] = indexed[q] \/ indexed'[q] = rows[q]
      <4>1. rows' = [rows EXCEPT ![r] = row] /\ (indexed' = indexed \/ indexed' = [indexed EXCEPT ![r] = row])
        BY <3>2 DEF PutRow
      <4>2. q = r => row = rows[q]
        BY <1>1, <2>1, <3>1, <4>1
      <4> QED
        BY <2>1, <3>1, <4>1, <4>2
    <3>3. CASE indexed' = indexed \/ \E r \in Records : indexed' = [indexed EXCEPT ![r] = rows[r]]
      BY <2>1, <3>1, <3>3
    <3> QED
      BY <3>2, <3>3
  <2>4. Holds(rows'[q]) /\ Holds(indexed'[q])
    BY <2>2, <2>3
  <2> QED
    BY <2>1, <2>4 DEF Untaken
<1>2. ASSUME NEW r \in Records, NEW row \in Row, PutRow(r, row)  PROVE Untaken(j, q)'
  <2>1. q \in protected[j] /\ (q = r => Holds(row))
    BY <1>2 DEF PutRow
  <2>2. q \in Records /\ Untaken(j, q)
    BY <2>1 DEF TypeOK, HoldInv
  <2>3. Holds(rows'[q]) /\ Holds(indexed'[q])
    BY <1>2, <2>1, <2>2 DEF TypeOK, Untaken, PutRow
  <2> QED
    BY <2>2, <2>3 DEF Untaken
<1> QED
  BY <1>1, <1>2

LEMMA HoldStep == TypeOK /\ HoldInv /\ [Next]_vars => HoldInv'
<1> SUFFICES ASSUME TypeOK, HoldInv, [Next]_vars  PROVE HoldInv'
  OBVIOUS
<1> USE DEF backend, tables, locals, threads, history
<1>a. /\ \A k \in Jobs : job[k] \in JobState
      /\ \A r \in Records : rows[r] \in Row
      /\ None \in Row
  BY DEF TypeOK, Row
<1>1. CASE rows' = rows /\ protected' = protected /\ indexed' = indexed /\ job' = job
  BY <1>1, HoldFrame
<1>2. ASSUME NEW r \in Records, NEW hold \in BOOLEAN, set_legal_hold(r, hold)  PROVE HoldInv'
  <2> DEFINE row == IF rows[r] = None THEN [legal_hold |-> hold]
                    ELSE [rows[r] EXCEPT !.legal_hold = hold]
  <2>1. row \in Row
    BY <1>a, HeldRowTyped
  <2>2. PutRow(r, row) /\ job' = job
    BY <1>2 DEF set_legal_hold
  <2> HIDE DEF row
  <2> QED
    BY <2>1, <2>2, HoldFrame
<1>3. ASSUME NEW r \in Records, Propagate(r)  PROVE HoldInv'
  BY <1>3, HoldFrame DEF Propagate
<1>4. ASSUME NEW w \in Writers, PutEnvelope(w)  PROVE HoldInv'
  <2>1. writer[w].rec \in Records /\ writer[w].env \in Row
    BY <1>4 DEF PutEnvelope, TypeOK, WriterState, IdleThread, Row
  <2> QED
    BY <1>4, <2>1, HoldFrame DEF PutEnvelope
<1>5. ASSUME NEW s \in Scanners, Bind(s)  PROVE HoldInv'
  <2>1. scanner[s].rec \in Records /\ scanner[s].env \in Row
    BY <1>5 DEF Bind, TypeOK, ScannerState, IdleThread, Row
  <2> QED
    BY <1>5, <2>1, HoldFrame DEF Bind
<1>6. ASSUME NEW s \in Scanners, NEW r \in Records, ReceiveDelete(s, r)  PROVE HoldInv'
  BY <1>6, <1>a, HoldFrame DEF ReceiveDelete
<1>7. ASSUME NEW j \in Jobs, NEW r \in Records, DropEnvelope(j, r)  PROVE HoldInv'
  <2>1. job' = [job EXCEPT ![j] = [job[j] EXCEPT !.pc = "verdict", !.rid = r]]
    BY <1>7 DEF DropEnvelope, TypeOK
  <2>2. \A k \in Jobs : job'[k].plan = job[k].plan /\ job'[k].gone = job[k].gone
    BY <1>a, <2>1 DEF TypeOK, JobState
  <2> QED
    BY <1>7, <1>a, <2>2, HoldFrame DEF DropEnvelope
<1>8. ASSUME NEW j \in Jobs, StartJob(j)  PROVE HoldInv'
  <2>1. /\ job'[j].plan = {} /\ job'[j].gone = {}
        /\ \A k \in Jobs \ {j} : job'[k] = job[k] /\ protected'[k] = protected[k]
        /\ protected'[j] = {r \in Records : Holds(indexed[r]) /\ Holds(rows[r])}
        /\ rows' = rows /\ indexed' = indexed
    BY <1>8 DEF StartJob, IdleJob, TypeOK
  <2> QED
    BY <2>1 DEF HoldInv, Untaken
<1>9. ASSUME NEW j \in Jobs, NEW r \in Records, ReadRow(j, r)  PROVE HoldInv'
  <2>1. /\ job'[j].gone = job[j].gone
        /\ job'[j].plan = job[j].plan \cup {h \in {r} : Walked(j, h, indexed[h]) /\ ~Holds(indexed[h])}
        /\ \A k \in Jobs \ {j} : job'[k] = job[k]
        /\ rows' = rows /\ indexed' = indexed /\ protected' = protected
    BY <1>9, <1>a DEF ReadRow, JobTo, TypeOK, JobState
  <2> QED
    BY <2>1 DEF HoldInv, Untaken
<1>10. ASSUME NEW j \in Jobs, NEW batch \in SUBSET job[j].plan, NEW missed \in SUBSET batch,
              DeleteBatch(j, batch, missed)
       PROVE  HoldInv'
  <2>1. /\ job'[j].plan = job[j].plan \ batch
        /\ job'[j].gone = job[j].gone \cup {r \in batch \ missed : store[r] # None}
        /\ \A k \in Jobs \ {j} : job'[k] = job[k]
        /\ rows' = rows /\ indexed' = indexed /\ protected' = protected
    BY <1>10, <1>a DEF DeleteBatch, Counted, Removes, TypeOK, JobState
  <2> QED
    BY <2>1 DEF HoldInv, Untaken
<1>11. ASSUME NEW j \in Jobs, JobRaises(j)  PROVE HoldInv'
  <2>1. /\ protected'[j] = {} /\ rows' = rows /\ indexed' = indexed
        /\ \A k \in Jobs \ {j} : job'[k] = job[k] /\ protected'[k] = protected[k]
    BY <1>11 DEF JobRaises, TypeOK
  <2> QED
    BY <2>1 DEF HoldInv, Untaken
<1>12. ASSUME NEW j \in Jobs, NEW e \in Events,
              ListEvents(j, session_of[e]) \/ DeleteEvent(j, e)
       PROVE  HoldInv'
  <2>1. CASE ListEvents(j, session_of[e])
    <3>1. \A k \in Jobs : job'[k].plan = job[k].plan /\ job'[k].gone = job[k].gone
      BY <1>a, <2>1 DEF ListEvents, JobTo, TypeOK, JobState
    <3> QED
      BY <2>1, <3>1, HoldFrame DEF ListEvents, JobTo
  <2>2. CASE DeleteEvent(j, e)
    <3>1. \A k \in Jobs : job'[k].plan = job[k].plan /\ job'[k].gone = job[k].gone
      BY <1>a, <2>2 DEF DeleteEvent, TypeOK, JobState
    <3> QED
      BY <2>2, <3>1, HoldFrame DEF DeleteEvent
  <2> QED
    BY <1>12, <2>1, <2>2
<1>13. ASSUME NEW j \in Jobs,
              \/ LogBatch(j) \/ DropVerdict(j) \/ EndSweep(j) \/ ListSessions(j)
              \/ AppendCert(j) \/ put_certificate(j)
       PROVE  HoldInv'
  <2> DEFINE Keeps == \A k \in Jobs : job'[k].plan = job[k].plan /\ job'[k].gone = job[k].gone
  <2>1. LogBatch(j) => Keeps
    BY <1>a DEF LogBatch, TypeOK, JobState
  <2>2. DropVerdict(j) => Keeps
    BY <1>a DEF DropVerdict, TypeOK, JobState
  <2>3. EndSweep(j) => Keeps
    BY <1>a DEF EndSweep, JobTo, TypeOK, JobState
  <2>4. ListSessions(j) => Keeps
    BY <1>a DEF ListSessions, JobTo, TypeOK, JobState
  <2>5. AppendCert(j) => Keeps
    BY <1>a DEF AppendCert, TypeOK, JobState
  <2>6. put_certificate(j) => Keeps
    BY <1>a DEF put_certificate, TypeOK, JobState
  <2>7. rows' = rows /\ indexed' = indexed /\ protected' = protected
    BY <1>13 DEF LogBatch, DropVerdict, EndSweep, ListSessions, AppendCert, put_certificate, JobTo
  <2> QED
    BY <1>13, <2>1, <2>2, <2>3, <2>5, <2>6, <2>7, <2>4, HoldFrame
<1>14. ASSUME NEW r \in Records, ExtractionCreate(r) \/ BackendUpdate(r)  PROVE HoldInv'
  BY <1>14, <1>1 DEF ExtractionCreate, BackendUpdate
<1>15. ASSUME NEW e \in Events, create_event(e)  PROVE HoldInv'
  BY <1>15, <1>1 DEF create_event
<1>16. ASSUME NEW w \in Writers, NEW r \in Records, BackendPut(w, r)  PROVE HoldInv'
  BY <1>16, <1>1 DEF BackendPut
<1>17. ASSUME NEW w \in Writers, FinishWrite(w)  PROVE HoldInv'
  BY <1>17, <1>1 DEF FinishWrite
<1>18. ASSUME NEW s \in Scanners, NEW r \in Records, Receive(s, r)  PROVE HoldInv'
  BY <1>18, <1>1 DEF Receive, ScannerTo
<1>19. ASSUME NEW s \in Scanners,
              PutVerdict(s) \/ DeleteVerdict(s) \/ Acknowledge(s) \/ ScanRaises(s)
       PROVE  HoldInv'
  BY <1>19, <1>1 DEF PutVerdict, DeleteVerdict, Acknowledge, ScanRaises, ScannerTo
<1>20. CASE Tick \/ UNCHANGED vars
  BY <1>20, <1>1 DEF Tick, vars
<1> QED
  BY <1>2, <1>3, <1>4, <1>5, <1>6, <1>7, <1>8, <1>9, <1>10, <1>11, <1>12, <1>13, <1>14, <1>15,
     <1>16, <1>17, <1>18, <1>19, <1>20
  DEF Next, Environment, WriterNext, ScannerNext, JobNext

\* A record whose legal hold the table and its indexes show when an erasure or
\* a sweep begins is not deleted by it, however the walk, the batches, other
\* jobs, writes and the scanner interleave, as long as the hold stays.
THEOREM ErasureHoldsRespected == Spec => []HoldsRespected
<1>1. Init => TypeInv /\ HoldInv
  BY TypeInit DEF Init, OneConsumer, TypeInv, HoldInv
<1>2. TypeInv /\ HoldInv /\ [Next]_vars => (TypeInv /\ HoldInv)'
  BY TypeStep, ConsumerStep, HoldStep DEF TypeInv
<1>3. HoldInv => HoldsRespected
  BY DEF HoldInv, Untaken, HoldsRespected
<1> QED
  BY <1>1, <1>2, <1>3, PTL DEF Spec

-----------------------------------------------------------------------------
(* The sum of a log, which Reported takes by recursion over its length.    *)

LEMMA LessWellFounded == IsWellFoundedOn({p \in Nat \X Nat : p[1] < p[2]}, Nat)
BY NatLessThanWellFounded DEF OpToRel

LEMMA LeastExists ==
  ASSUME NEW S \in SUBSET Nat, S # {}
  PROVE  \E n \in S : \A m \in S : n <= m
<1> DEFINE Less == {p \in Nat \X Nat : p[1] < p[2]}
<1>1. PICK n \in S : \A m \in S : <<m, n>> \notin Less
  <2> HIDE DEF Less
  <2> QED BY LessWellFounded, WFMin DEF Less
<1>2. ASSUME NEW m \in S  PROVE n <= m
  <2>1. m \in Nat /\ n \in Nat /\ <<m, n>> \in Nat \X Nat
    OBVIOUS
  <2>2. ~(m < n)
    BY <1>1, <2>1
  <2> QED
    BY <2>1, <2>2
<1> QED
  BY <1>2

Share(j, item) == IF item.job = j THEN item.deleted ELSE 0

\* f holds the partial sums of what job j reports in the first m entries of log.
Sums(f, j, log, m) ==
  f = [n \in 0..m |-> IF n = 0 THEN 0 ELSE f[n - 1] + Share(j, log[n])]

LEMMA NextSum ==
  ASSUME NEW j, NEW log, NEW m \in Nat, NEW f, Sums(f, j, log, m),
         NEW g, g = [n \in 0..m + 1 |-> IF n = m + 1 THEN f[m] + Share(j, log[m + 1]) ELSE f[n]]
  PROVE  Sums(g, j, log, m + 1) /\ g[m + 1] = f[m] + Share(j, log[m + 1])
<1>1. /\ f[0] = 0 /\ \A n \in 0..m : n # 0 => f[n] = f[n - 1] + Share(j, log[n])
  <2>1. PICK F : F = f
    OBVIOUS
  <2>2. f = [n \in 0..m |-> IF n = 0 THEN 0 ELSE F[n - 1] + Share(j, log[n])]
    BY <2>1 DEF Sums
  <2> QED
    BY <2>1, <2>2
<1>2. /\ g[m + 1] = f[m] + Share(j, log[m + 1]) /\ \A n \in 0..m : g[n] = f[n]
  OBVIOUS
<1>3. \A n \in 0..m + 1 :
        g[n] = IF n = 0 THEN 0 ELSE g[n - 1] + Share(j, log[n])
  BY <1>1, <1>2
<1>4. g = [n \in 0..m + 1 |-> g[n]]
  OBVIOUS
<1>5. g = [n \in 0..m + 1 |-> IF n = 0 THEN 0 ELSE g[n - 1] + Share(j, log[n])]
  BY <1>3, <1>4
<1> QED
  BY <1>2, <1>5 DEF Sums

LEMMA SumsExist ==
  ASSUME NEW j, NEW log \in Seq(AuditEntry), NEW m \in 0..Len(log)
  PROVE  \E f : Sums(f, j, log, m) /\ f[m] \in Nat
<1> DEFINE Has(n) == \E f : Sums(f, j, log, n) /\ f[n] \in Nat
           bad    == {n \in 0..Len(log) : ~Has(n)}
<1>1. Has(0)
  <2> DEFINE f == [n \in 0..0 |-> 0]
  <2>1. Sums(f, j, log, 0)
    BY DEF Sums
  <2>2. f[0] = 0
    OBVIOUS
  <2> QED
    BY <2>1, <2>2
<1>2. ASSUME NEW n \in Nat, n + 1 \in 0..Len(log), Has(n)  PROVE Has(n + 1)
  <2>1. PICK f : Sums(f, j, log, n) /\ f[n] \in Nat
    BY <1>2
  <2>2. PICK g : g = [i \in 0..n + 1 |-> IF i = n + 1 THEN f[n] + Share(j, log[n + 1]) ELSE f[i]]
    OBVIOUS
  <2>3. Sums(g, j, log, n + 1) /\ g[n + 1] = f[n] + Share(j, log[n + 1])
    BY <2>1, <2>2, NextSum
  <2>4. Share(j, log[n + 1]) \in Nat
    <3>1. log[n + 1] \in AuditEntry
      BY <1>2
    <3> QED
      BY <3>1 DEF Share, AuditEntry
  <2> QED
    BY <2>1, <2>3, <2>4
<1> HIDE DEF Has
<1>3. ASSUME bad # {}  PROVE FALSE
  <2>1. bad \in SUBSET Nat
    OBVIOUS
  <2>2. PICK n \in bad : \A i \in bad : n <= i
    <3> HIDE DEF bad
    <3> QED BY <1>3, <2>1, LeastExists
  <2>3. n \in 0..Len(log) /\ Len(log) \in Nat /\ n # 0
    BY <1>1
  <2>4. n - 1 \in Nat /\ n - 1 \in 0..Len(log) /\ n - 1 \notin bad /\ (n - 1) + 1 = n
    BY <2>2, <2>3
  <2>5. Has(n - 1)
    BY <2>4
  <2>6. Has(n)
    <3> HIDE DEF bad
    <3>1. PICK k \in Nat : k = n - 1
      BY <2>4
    <3>2. k + 1 = n /\ Has(k)
      BY <3>1, <2>4, <2>5
    <3> QED
      BY <3>2, <1>2, <2>3
  <2> QED
    BY <2>6
<1>4. Has(m)
  BY <1>3
<1> QED
  BY <1>4 DEF Has

LEMMA SumsAgree ==
  ASSUME NEW j, NEW log, NEW m \in Nat, NEW f, NEW g, Sums(f, j, log, m), Sums(g, j, log, m)
  PROVE  f[m] = g[m]
<1> DEFINE bad == {n \in 0..m : f[n] # g[n]}
<1>0. ASSUME NEW h, Sums(h, j, log, m)
      PROVE  h[0] = 0 /\ \A n \in 0..m : n # 0 => h[n] = h[n - 1] + Share(j, log[n])
  <2>1. PICK F : F = h
    OBVIOUS
  <2>2. h = [n \in 0..m |-> IF n = 0 THEN 0 ELSE F[n - 1] + Share(j, log[n])]
    BY <1>0, <2>1 DEF Sums
  <2> QED
    BY <2>1, <2>2
<1>1. /\ f[0] = 0 /\ \A n \in 0..m : n # 0 => f[n] = f[n - 1] + Share(j, log[n])
      /\ g[0] = 0 /\ \A n \in 0..m : n # 0 => g[n] = g[n - 1] + Share(j, log[n])
  BY <1>0
<1>2. ASSUME bad # {}  PROVE FALSE
  <2>1. bad \in SUBSET Nat
    OBVIOUS
  <2>2. PICK n \in bad : \A i \in bad : n <= i
    <3> HIDE DEF bad
    <3> QED BY <1>2, <2>1, LeastExists
  <2>3. n \in 0..m /\ n # 0 /\ n - 1 \in 0..m /\ n - 1 \notin bad
    BY <1>1, <2>2
  <2>4. f[n - 1] = g[n - 1]
    BY <2>3
  <2> QED
    BY <1>1, <2>2, <2>3, <2>4
<1> QED
  BY <1>2

Total(j, log) == LET total[n \in 0..Len(log)] ==
                       IF n = 0 THEN 0
                       ELSE total[n - 1] + (IF log[n].job = j THEN log[n].deleted ELSE 0)
                 IN  total[Len(log)]

LEMMA TotalIs ==
  ASSUME NEW j, NEW log, Len(log) \in Nat, NEW f, Sums(f, j, log, Len(log))
  PROVE  Total(j, log) = f[Len(log)]
<1> DEFINE P(g) == g = [n \in 0..Len(log) |-> IF n = 0 THEN 0
                     ELSE g[n - 1] + (IF log[n].job = j THEN log[n].deleted ELSE 0)]
           c == CHOOSE g : P(g)
<1>1. P(f)
  BY DEF Sums, Share
<1>2. Total(j, log) = c[Len(log)]
  BY DEF Total
<1> HIDE DEF P
<1>3. P(c)
  BY <1>1
<1> HIDE DEF c
<1>4. Sums(c, j, log, Len(log))
  BY <1>3 DEF P, Sums, Share
<1> QED
  BY <1>2, <1>4, SumsAgree

LEMMA TotalNone ==
  ASSUME NEW j  PROVE Total(j, <<>>) = 0
<1> DEFINE f == [n \in 0..0 |-> 0]
<1>1. Sums(f, j, <<>>, 0) /\ f[0] = 0 /\ Len(<<>>) = 0
  BY DEF Sums
<1> HIDE DEF f
<1> QED
  BY <1>1, TotalIs

LEMMA TotalAppend ==
  ASSUME NEW j, NEW log \in Seq(AuditEntry), NEW item \in AuditEntry
  PROVE  /\ Total(j, log) \in Nat
         /\ Total(j, Append(log, item)) = Total(j, log) + Share(j, item)
<1>1. PICK m : m = Len(log)
  OBVIOUS
<1>2. PICK longer : longer = Append(log, item)
  OBVIOUS
<1>3. /\ m \in Nat /\ Len(longer) = m + 1 /\ longer[m + 1] = item
      /\ \A n \in 1..m : longer[n] = log[n]
  BY <1>1, <1>2
<1>4. PICK f : Sums(f, j, log, m) /\ f[m] \in Nat
  <2>1. m \in 0..Len(log)
    BY <1>1, <1>3
  <2> QED
    BY <2>1, SumsExist
<1>5. Sums(f, j, longer, m)
  <2>1. PICK F : F = f
    OBVIOUS
  <2>2. f = [n \in 0..m |-> IF n = 0 THEN 0 ELSE F[n - 1] + Share(j, log[n])]
    BY <1>4, <2>1 DEF Sums
  <2>3. \A n \in 0..m : n # 0 => log[n] = longer[n]
    BY <1>3
  <2>4. f = [n \in 0..m |-> IF n = 0 THEN 0 ELSE F[n - 1] + Share(j, longer[n])]
    BY <2>2, <2>3
  <2> QED
    BY <2>1, <2>4 DEF Sums
<1>6. PICK g : g = [n \in 0..m + 1 |-> IF n = m + 1 THEN f[m] + Share(j, longer[m + 1]) ELSE f[n]]
  OBVIOUS
<1>7. Sums(g, j, longer, m + 1) /\ g[m + 1] = f[m] + Share(j, longer[m + 1])
  BY <1>3, <1>5, <1>6, NextSum
<1>8. Total(j, log) = f[m]
  BY <1>1, <1>3, <1>4, TotalIs
<1>9. Total(j, longer) = g[m + 1]
  BY <1>3, <1>7, TotalIs
<1> QED
  BY <1>2, <1>3, <1>4, <1>7, <1>8, <1>9

LEMMA ReportedIsTotal == \A j : Reported(j) = Total(j, audit) /\ Reported(j)' = Total(j, audit')
BY DEF Reported, Total

-----------------------------------------------------------------------------
(* The steps of a job that leave its lists of records alone.               *)

\* A job and the others, if it goes on without taking or giving up a record.
GoesOn(j) ==
  /\ \A k \in Jobs \ {j} : job'[k] = job[k]
  /\ job'[j].now = job[j].now /\ job'[j].unread = job[j].unread
  /\ job'[j].held = job[j].held /\ job'[j].plan = job[j].plan
  /\ job'[j].purge \subseteq job[j].purge
  /\ job'[j].deleted = job[j].deleted /\ job'[j].gone = job[j].gone
  /\ job'[j].missed = job[j].missed /\ job'[j].due_events = job[j].due_events

LEMMA JobFields ==
  ASSUME TypeOK, NEW j \in Jobs
  PROVE  /\ job[j] \in JobState
         /\ DOMAIN job[j] = {"pc", "now", "unread", "held", "plan", "purge", "rid", "deleted",
                             "batch", "sessions", "doomed", "events_deleted", "gone", "missed",
                             "due_events"}
BY DEF TypeOK, JobState

LEMMA LogBatchMove ==
  ASSUME TypeOK, NEW j \in Jobs, LogBatch(j)
  PROVE  /\ GoesOn(j) /\ job'[j].pc = "delete"
         /\ job'[j].sessions = job[j].sessions /\ job'[j].doomed = job[j].doomed
BY JobFields DEF LogBatch, GoesOn, TypeOK

LEMMA DropEnvelopeMove ==
  ASSUME TypeOK, NEW j \in Jobs, NEW r \in Records, DropEnvelope(j, r)
  PROVE  /\ GoesOn(j) /\ job'[j].pc = "verdict"
         /\ job'[j].sessions = job[j].sessions /\ job'[j].doomed = job[j].doomed
<1>1. job' = [job EXCEPT ![j] = [job[j] EXCEPT !.pc = "verdict", !.rid = r]]
  BY DEF DropEnvelope, TypeOK
<1> QED
  BY <1>1, JobFields DEF GoesOn, TypeOK

LEMMA DropVerdictMove ==
  ASSUME TypeOK, NEW j \in Jobs, DropVerdict(j)
  PROVE  /\ GoesOn(j) /\ job'[j].pc = "delete"
         /\ job'[j].sessions = job[j].sessions /\ job'[j].doomed = job[j].doomed
BY JobFields DEF DropVerdict, GoesOn, TypeOK

LEMMA EndSweepMove ==
  ASSUME TypeOK, NEW j \in Jobs, EndSweep(j)
  PROVE  /\ GoesOn(j) /\ job'[j].pc = "done"
         /\ job'[j].sessions = job[j].sessions /\ job'[j].doomed = job[j].doomed
BY JobFields DEF EndSweep, JobTo, GoesOn, TypeOK

LEMMA ListSessionsMove ==
  ASSUME TypeOK, NEW j \in Jobs, ListSessions(j)
  PROVE  /\ GoesOn(j) /\ job'[j].pc = "events" /\ job'[j].doomed = job[j].doomed
         /\ job'[j].sessions = {session_of[e] : e \in {d \in events : speaker_of[d] = subject[j]}}
BY JobFields DEF ListSessions, JobTo, GoesOn, TypeOK

LEMMA ListEventsMove ==
  ASSUME TypeOK, NEW j \in Jobs, NEW session, ListEvents(j, session)
  PROVE  /\ GoesOn(j) /\ job'[j].pc = "events" /\ job'[j].sessions = job[j].sessions \ {session}
         /\ job'[j].doomed = {e \in events : speaker_of[e] = subject[j] /\ session_of[e] = session}
BY JobFields DEF ListEvents, JobTo, GoesOn, TypeOK

LEMMA DeleteEventMove ==
  ASSUME TypeOK, NEW j \in Jobs, NEW e, DeleteEvent(j, e)
  PROVE  /\ GoesOn(j) /\ job'[j].pc = "events"
         /\ job'[j].sessions = job[j].sessions /\ job'[j].doomed = job[j].doomed \ {e}
<1>1. job' = [job EXCEPT ![j] = [job[j] EXCEPT !.doomed = job[j].doomed \ {e},
                                               !.events_deleted = job[j].events_deleted + 1]]
  BY DEF DeleteEvent, TypeOK
<1> QED
  BY <1>1, JobFields DEF GoesOn, TypeOK, DeleteEvent

LEMMA AppendCertMove ==
  ASSUME TypeOK, NEW j \in Jobs, AppendCert(j)
  PROVE  /\ GoesOn(j) /\ job'[j].pc = "cert" /\ job'[j].batch = Len(audit) + 1
         /\ job'[j].sessions = job[j].sessions /\ job'[j].doomed = job[j].doomed
<1>1. job' = [job EXCEPT ![j] = [job[j] EXCEPT !.pc = "cert", !.batch = Len(audit) + 1]]
  BY DEF AppendCert, TypeOK
<1> QED
  BY <1>1, JobFields DEF GoesOn, TypeOK

LEMMA CertificateMove ==
  ASSUME TypeOK, NEW j \in Jobs, put_certificate(j)
  PROVE  /\ GoesOn(j) /\ job'[j].pc = "done"
         /\ job'[j].sessions = job[j].sessions /\ job'[j].doomed = job[j].doomed
BY JobFields DEF put_certificate, GoesOn, TypeOK

\* The other steps of a job.
LEMMA StartMove ==
  ASSUME TypeOK, NEW j \in Jobs, StartJob(j)
  PROVE  /\ \A k \in Jobs \ {j} : job'[k] = job[k]
         /\ job'[j].pc = "walk" /\ job'[j].now = clock /\ job'[j].unread = Records
         /\ job'[j].plan = {} /\ job'[j].purge = {} /\ job'[j].gone = {} /\ job'[j].missed = {}
         /\ job'[j].deleted = 0
         /\ job'[j].due_events = {e \in events : j \in Erasers /\ speaker_of[e] = subject[j]}
<1> DEFINE st == [IdleJob EXCEPT !.pc = "walk", !.now = clock, !.unread = Records,
                    !.due_events = {e \in events : j \in Erasers /\ speaker_of[e] = subject[j]}]
<1>1. job' = [job EXCEPT ![j] = st]
  BY DEF StartJob
<1>2. DOMAIN IdleJob = {"pc", "now", "unread", "held", "plan", "purge", "rid", "deleted",
                        "batch", "sessions", "doomed", "events_deleted", "gone", "missed",
                        "due_events"}
  BY DEF IdleJob
<1>3. st.pc = "walk"
  BY <1>2
<1>4. st.now = clock
  BY <1>2
<1>5. st.unread = Records
  BY <1>2
<1>6. st.due_events = {e \in events : j \in Erasers /\ speaker_of[e] = subject[j]}
  BY <1>2
<1>7. /\ st.plan = {} /\ st.purge = {} /\ st.gone = {} /\ st.missed = {} /\ st.deleted = 0
  BY DEF IdleJob
<1> HIDE DEF st
<1> QED
  BY <1>1, <1>3, <1>4, <1>5, <1>6, <1>7 DEF TypeOK

LEMMA ReadMove ==
  ASSUME TypeOK, NEW j \in Jobs, NEW r \in Records, ReadRow(j, r)
  PROVE  /\ \A k \in Jobs \ {j} : job'[k] = job[k]
         /\ job[j].pc = "walk" /\ r \in job[j].unread
         /\ job'[j].pc = IF job[j].unread = {r} THEN "delete" ELSE "walk"
         /\ job'[j].unread = job[j].unread \ {r} /\ job'[j].now = job[j].now
         /\ job'[j].held = job[j].held \cup
              {h \in {r} : Walked(j, h, indexed[h]) /\ Holds(indexed[h])}
         /\ job'[j].plan = job[j].plan \cup
              {h \in {r} : Walked(j, h, indexed[h]) /\ ~Holds(indexed[h])}
         /\ job'[j].purge = job[j].purge /\ job'[j].gone = job[j].gone
         /\ job'[j].missed = job[j].missed /\ job'[j].deleted = job[j].deleted
         /\ job'[j].due_events = job[j].due_events
<1> DEFINE held == {h \in {r} : Walked(j, h, indexed[h]) /\ Holds(indexed[h])}
           plan == {h \in {r} : Walked(j, h, indexed[h]) /\ ~Holds(indexed[h])}
           pc   == IF job[j].unread = {r} THEN "delete" ELSE job[j].pc
           st   == [job[j] EXCEPT !.unread = @ \ {r}, !.pc = pc,
                                  !.held = @ \cup held, !.plan = @ \cup plan]
<1>1. job' = [job EXCEPT ![j] = st] /\ job[j].pc = "walk" /\ r \in job[j].unread
  BY DEF ReadRow, JobTo, TypeOK
<1> HIDE DEF held, plan, pc
<1>2. st.unread = job[j].unread \ {r}
  BY JobFields
<1>3. st.pc = pc
  BY JobFields
<1>4. st.held = job[j].held \cup held
  BY JobFields
<1>5. st.plan = job[j].plan \cup plan
  BY JobFields
<1>6. /\ st.now = job[j].now /\ st.purge = job[j].purge /\ st.gone = job[j].gone
      /\ st.missed = job[j].missed /\ st.deleted = job[j].deleted
      /\ st.due_events = job[j].due_events
  BY JobFields
<1> HIDE DEF st
<1>7. job'[j] = st /\ \A k \in Jobs \ {j} : job'[k] = job[k]
  BY <1>1 DEF TypeOK
<1> QED
  BY <1>1, <1>2, <1>3, <1>4, <1>5, <1>6, <1>7 DEF held, plan, pc

LEMMA BatchMove ==
  ASSUME TypeOK, NEW j \in Jobs, NEW batch, NEW missed, DeleteBatch(j, batch, missed),
         NEW removed, removed = {r \in batch \ missed : store[r] # None}
  PROVE  /\ \A k \in Jobs \ {j} : job'[k] = job[k]
         /\ job[j].pc = "delete" /\ job'[j].pc = IF j \in Sweepers THEN "log" ELSE "delete"
         /\ job'[j].plan = job[j].plan \ batch /\ job'[j].purge = job[j].purge \cup batch
         /\ job'[j].batch = Cardinality(removed)
         /\ job'[j].deleted = job[j].deleted + Cardinality(removed)
         /\ job'[j].gone = job[j].gone \cup removed
         /\ job'[j].missed = job[j].missed \cup missed
         /\ job'[j].now = job[j].now /\ job'[j].unread = job[j].unread
         /\ job'[j].held = job[j].held /\ job'[j].due_events = job[j].due_events
<1> DEFINE pc == IF j \in Sweepers THEN "log" ELSE "delete"
           st == Counted(job[j], batch, removed, missed, pc)
<1>1. job' = [job EXCEPT ![j] = st] /\ job[j].pc = "delete"
  BY DEF DeleteBatch, TypeOK
<1> HIDE DEF pc
<1> USE JobFields
<1>2. st.pc = pc
  BY DEF Counted
<1>3. st.plan = job[j].plan \ batch
  BY DEF Counted
<1>4. st.purge = job[j].purge \cup batch
  BY DEF Counted
<1>5. st.batch = Cardinality(removed)
  BY DEF Counted
<1>6. st.deleted = job[j].deleted + Cardinality(removed)
  BY DEF Counted
<1>7. st.gone = job[j].gone \cup removed
  BY DEF Counted
<1>8. st.missed = job[j].missed \cup missed
  BY DEF Counted
<1>9. /\ st.now = job[j].now /\ st.unread = job[j].unread
      /\ st.held = job[j].held /\ st.due_events = job[j].due_events
  BY DEF Counted
<1> HIDE DEF st
<1>10. job'[j] = st /\ \A k \in Jobs \ {j} : job'[k] = job[k]
  BY <1>1 DEF TypeOK
<1> QED
  BY <1>1, <1>2, <1>3, <1>4, <1>5, <1>6, <1>7, <1>8, <1>9, <1>10 DEF pc

LEMMA RaiseMove ==
  ASSUME TypeOK, NEW j \in Jobs, JobRaises(j)
  PROVE  /\ \A k \in Jobs \ {j} : job'[k] = job[k]
         /\ job'[j].pc = "raised" /\ job'[j].gone = job[j].gone /\ job'[j].missed = job[j].missed
         /\ job'[j].plan = {} /\ job'[j].purge = {} /\ job'[j].unread = {}
         /\ job'[j].due_events = {}
<1> DEFINE st == [IdleJob EXCEPT !.pc = "raised", !.gone = job[j].gone, !.missed = job[j].missed]
<1>1. job' = [job EXCEPT ![j] = st]
  BY DEF JobRaises
<1>2. DOMAIN IdleJob = {"pc", "now", "unread", "held", "plan", "purge", "rid", "deleted",
                        "batch", "sessions", "doomed", "events_deleted", "gone", "missed",
                        "due_events"}
  BY DEF IdleJob
<1>3. st.pc = "raised"
  BY <1>2
<1>4. st.gone = job[j].gone
  BY <1>2
<1>5. st.missed = job[j].missed
  BY <1>2
<1>6. st.plan = {} /\ st.purge = {} /\ st.unread = {} /\ st.due_events = {}
  BY DEF IdleJob
<1> HIDE DEF st
<1> QED
  BY <1>1, <1>3, <1>4, <1>5, <1>6 DEF TypeOK

-----------------------------------------------------------------------------
(* Counts.                                                                 *)

\* A job counts what it has deleted.  A sweep has logged all of it but the batch
\* at hand, an erasure nothing before its ERASURE_CERT entry and then all.
Counts(j) ==
  /\ job[j].pc = "idle" => job[j].gone = {}
  /\ job[j].pc = "log" => j \in Sweepers
  /\ job[j].pc \in {"events", "cert"} => j \in Erasers
  /\ job[j].gone \cap (job[j].unread \cup job[j].plan) = {}
  /\ job[j].pc # "raised" =>
       /\ job[j].deleted = Cardinality(job[j].gone)
       /\ j \in Sweepers =>
            Reported(j) = IF job[j].pc = "log" THEN job[j].deleted - job[j].batch ELSE job[j].deleted
       /\ j \in Erasers =>
            Reported(j) = IF job[j].pc \in {"cert", "done"} THEN job[j].deleted ELSE 0
  /\ job[j].pc = "cert" => job[j].batch \in DOMAIN audit /\ audit[job[j].batch] = CertEntry(j)

Certified(c) ==
  /\ c.job \in Erasers /\ job[c.job].pc = "done"
  /\ c.chain_seq \in DOMAIN audit
  /\ audit[c.chain_seq] = [op |-> "ERASURE_CERT", job |-> c.job, deleted |-> c.records_deleted]

CountInv == (\A j \in Jobs : Counts(j)) /\ \A c \in certs : Certified(c)

LEMMA ChainGrows ==
  ASSUME TypeOK, NEW item \in AuditEntry, audit' = Append(audit, item)
  PROVE  /\ \A n \in DOMAIN audit : n \in DOMAIN audit' /\ audit'[n] = audit[n]
         /\ Len(audit) + 1 \in DOMAIN audit' /\ audit'[Len(audit) + 1] = item
         /\ \A k : Reported(k) \in Nat /\ Reported(k)' = Reported(k) + Share(k, item)
<1>1. audit \in Seq(AuditEntry)
  BY DEF TypeOK
<1>2. \A k : Reported(k) \in Nat /\ Reported(k)' = Reported(k) + Share(k, item)
  BY <1>1, TotalAppend, ReportedIsTotal
<1> QED
  BY <1>1, <1>2

\* What a step of j does not touch.
LEMMA CountFrame ==
  ASSUME TypeOK, CountInv, NEW j \in Jobs, \A k \in Jobs \ {j} : job'[k] = job[k],
         \/ audit' = audit
         \/ \E item \in AuditEntry : item.job = j /\ audit' = Append(audit, item)
  PROVE  /\ \A k \in Jobs \ {j} : Counts(k)'
         /\ \A c \in certs : c.job # j \/ job'[j].pc = "done" => Certified(c)'
<1>1. /\ \A n \in DOMAIN audit : n \in DOMAIN audit' /\ audit'[n] = audit[n]
      /\ \A k \in Jobs \ {j} : Reported(k)' = Reported(k)
  <2>1. CASE audit' = audit
    BY <2>1 DEF Reported
  <2>2. ASSUME NEW item \in AuditEntry, item.job = j, audit' = Append(audit, item)
        PROVE  /\ \A n \in DOMAIN audit : n \in DOMAIN audit' /\ audit'[n] = audit[n]
               /\ \A k \in Jobs \ {j} : Reported(k)' = Reported(k)
    <3>1. \A k \in Jobs \ {j} : Share(k, item) = 0
      BY <2>2 DEF Share
    <3> QED
      BY <2>2, <3>1, ChainGrows
  <2> QED
    BY <2>1, <2>2
<1>2. ASSUME NEW k \in Jobs \ {j}  PROVE Counts(k)'
  BY <1>1 DEF CountInv, Counts, CertEntry
<1>3. ASSUME NEW c \in certs, c.job # j \/ job'[j].pc = "done"  PROVE Certified(c)'
  <2>1. Certified(c) /\ c.job \in Jobs
    BY DEF CountInv, Certified, Jobs
  <2>2. job'[c.job].pc = "done"
    BY <1>3, <2>1 DEF Certified
  <2> QED
    BY <1>1, <2>1, <2>2 DEF Certified
<1> QED
  BY <1>2, <1>3

\* Nobody has a certificate before it is done.
LEMMA NotCertified ==
  ASSUME CountInv, NEW j \in Jobs, job[j].pc # "done"
  PROVE  \A c \in certs : c.job # j
BY DEF CountInv, Certified

LEMMA CountInit == Init => CountInv
<1> SUFFICES ASSUME Init, NEW j \in Jobs PROVE Counts(j)
  BY DEF CountInv, Init
<1>1. job[j] = IdleJob /\ audit = <<>>
  BY DEF Init
<1>2. Reported(j) = 0
  BY <1>1, ReportedIsTotal, TotalNone
<1>3. Cardinality({}) = 0
  BY FS_EmptySet
<1> QED
  BY <1>1, <1>2, <1>3 DEF Counts, IdleJob

LEMMA CountStart ==
  ASSUME TypeOK, CountInv, NEW j \in Jobs, StartJob(j)
  PROVE  CountInv'
<1>1. audit' = audit /\ certs' = certs /\ job[j].pc = "idle"
  BY DEF StartJob, tables
<1>2. Counts(j)'
  <2>1. Reported(j)' = 0
    <3>1. job[j].gone = {} /\ Cardinality({}) = 0
      BY <1>1, FS_EmptySet DEF CountInv, Counts
    <3>2. Reported(j) = 0
      BY <1>1, <3>1 DEF CountInv, Counts, Jobs
    <3> QED
      BY <1>1, <3>2 DEF Reported
  <2> QED
    BY <2>1, StartMove, FS_EmptySet DEF Counts, Jobs
<1> QED
  BY <1>1, <1>2, CountFrame, NotCertified, StartMove DEF CountInv

LEMMA CountRead ==
  ASSUME TypeOK, CountInv, NEW j \in Jobs, NEW r \in Records, ReadRow(j, r)
  PROVE  CountInv'
<1>1. audit' = audit /\ certs' = certs
  BY DEF ReadRow, JobTo, tables
<1>2. Reported(j)' = Reported(j)
  BY <1>1 DEF Reported
<1>3. job'[j].gone \cap (job'[j].unread \cup job'[j].plan) = {}
  <2>1. job[j].gone \cap (job[j].unread \cup job[j].plan) = {}
    BY DEF CountInv, Counts
  <2> QED
    BY <2>1, ReadMove
<1>4. Counts(j)'
  BY <1>2, <1>3, ReadMove DEF CountInv, Counts
<1>5. job[j].pc # "done"
  BY ReadMove
<1> QED
  BY <1>1, <1>4, <1>5, CountFrame, NotCertified, ReadMove DEF CountInv

LEMMA CountBatch ==
  ASSUME TypeOK, CountInv, NEW j \in Jobs, NEW batch \in SUBSET job[j].plan,
         NEW missed \in SUBSET batch, DeleteBatch(j, batch, missed)
  PROVE  CountInv'
<1>1. audit' = audit /\ certs' = certs
  BY DEF DeleteBatch, Removes, tables
<1>2. Reported(j)' = Reported(j)
  BY <1>1 DEF Reported
<1>3. PICK removed : removed = {r \in batch \ missed : store[r] # None}
  OBVIOUS
<1>4. /\ job[j].pc = "delete" /\ job'[j].pc = IF j \in Sweepers THEN "log" ELSE "delete"
      /\ job'[j].plan = job[j].plan \ batch /\ job'[j].unread = job[j].unread
      /\ job'[j].batch = Cardinality(removed) /\ job'[j].gone = job[j].gone \cup removed
      /\ job'[j].deleted = job[j].deleted + Cardinality(removed)
      /\ \A k \in Jobs \ {j} : job'[k] = job[k]
  BY <1>3, BatchMove
<1>5. Counts(j) /\ job[j] \in JobState /\ job[j].unread \cap job[j].plan = {}
  BY DEF CountInv, TypeOK
<1>6. removed \subseteq job[j].plan /\ job[j].gone \cap removed = {}
  BY <1>3, <1>5 DEF Counts
<1>7. /\ IsFiniteSet(removed) /\ IsFiniteSet(job[j].gone)
  <2>1. removed \in SUBSET Records /\ job[j].gone \in SUBSET Records
    BY <1>5, <1>6 DEF JobState
  <2> QED
    BY <2>1, FS_Subset, ErasureAssumption
<1>8. /\ Cardinality(removed) \in Nat /\ Cardinality(job[j].gone) \in Nat
      /\ Cardinality(job[j].gone \cup removed) = Cardinality(job[j].gone) + Cardinality(removed)
  <2>1. Cardinality({}) = 0
    BY FS_EmptySet
  <2>2. Cardinality(removed) \in Nat /\ Cardinality(job[j].gone) \in Nat
    BY <1>7, FS_CardinalityType
  <2>3. PICK gone : gone = job[j].gone
    OBVIOUS
  <2>4. IsFiniteSet(gone) /\ IsFiniteSet(removed)
    BY <1>7, <2>3
  <2>5. Cardinality(gone \cup removed) =
          Cardinality(gone) + Cardinality(removed) - Cardinality(gone \cap removed)
    BY <2>4, FS_Union
  <2>6. Cardinality(gone \cap removed) = 0
    <3>1. gone \cap removed = {}
      BY <1>6, <2>3
    <3> QED
      BY <2>1, <3>1
  <2>7. Cardinality(gone \cup removed) = Cardinality(gone) + Cardinality(removed)
    <3>1. Cardinality(gone) \in Nat
      BY <2>2, <2>3
    <3> QED
      BY <2>2, <2>5, <2>6, <3>1
  <2> QED
    BY <2>2, <2>3, <2>7
<1>9. job'[j].gone \cap (job'[j].unread \cup job'[j].plan) = {}
  BY <1>3, <1>4, <1>5 DEF Counts
<1>10. Counts(j)'
  BY <1>2, <1>4, <1>5, <1>8, <1>9, ErasureAssumption DEF Counts, Jobs
<1> QED
  BY <1>1, <1>4, <1>10, CountFrame, NotCertified DEF CountInv

LEMMA CountLog ==
  ASSUME TypeOK, CountInv, NEW j \in Jobs, LogBatch(j)
  PROVE  CountInv'
<1> DEFINE item == [op |-> "SWEEP_BATCH", job |-> j, deleted |-> job[j].batch]
<1>1. audit' = Append(audit, item) /\ certs' = certs /\ job[j].pc = "log"
  BY DEF LogBatch
<1>2. item \in AuditEntry /\ job[j].batch \in Nat /\ job[j].deleted \in Nat
  BY DEF TypeOK, JobState, AuditEntry
<1>3. item.job = j /\ Share(j, item) = job[j].batch
  BY DEF Share
<1> HIDE DEF item
<1>4. Reported(j)' = Reported(j) + job[j].batch
  BY <1>1, <1>2, <1>3, ChainGrows
<1>5. j \in Sweepers /\ j \notin Erasers
  BY <1>1, ErasureAssumption DEF CountInv, Counts
<1>6. Reported(j)' = job[j].deleted
  <2>1. Reported(j) = job[j].deleted - job[j].batch
    BY <1>1, <1>5 DEF CountInv, Counts
  <2> QED
    BY <1>2, <1>4, <2>1
<1>7. Counts(j)'
  <2>1. Counts(j) /\ job'[j].pc = "delete"
    BY LogBatchMove DEF CountInv
  <2>2. /\ job'[j].gone = job[j].gone /\ job'[j].unread = job[j].unread
        /\ job'[j].plan = job[j].plan /\ job'[j].deleted = job[j].deleted
    BY LogBatchMove DEF GoesOn
  <2>3. job[j].deleted = Cardinality(job[j].gone)
    BY <1>1, <2>1 DEF Counts
  <2>4. job[j].gone \cap (job[j].unread \cup job[j].plan) = {}
    BY <2>1 DEF Counts
  <2> QED
    BY <1>5, <1>6, <2>1, <2>2, <2>3, <2>4 DEF Counts
<1> QED
  BY <1>1, <1>2, <1>3, <1>7, CountFrame, NotCertified, LogBatchMove DEF CountInv, GoesOn

LEMMA CountCertEntry ==
  ASSUME TypeOK, CountInv, NEW j \in Jobs, AppendCert(j)
  PROVE  CountInv'
<1>1. audit' = Append(audit, CertEntry(j)) /\ certs' = certs /\ job[j].pc = "events"
  BY DEF AppendCert
<1>2. CertEntry(j) \in AuditEntry /\ job[j].deleted \in Nat
  BY DEF TypeOK, JobState, AuditEntry, CertEntry
<1>3. CertEntry(j).job = j /\ Share(j, CertEntry(j)) = job[j].deleted
  BY DEF Share, CertEntry
<1>4. /\ Reported(j)' = Reported(j) + job[j].deleted
      /\ Len(audit) + 1 \in DOMAIN audit' /\ audit'[Len(audit) + 1] = CertEntry(j)
  BY <1>1, <1>2, <1>3, ChainGrows
<1>5. j \in Erasers /\ j \notin Sweepers /\ Reported(j) = 0
  BY <1>1, ErasureAssumption DEF CountInv, Counts
<1>6. CertEntry(j)' = CertEntry(j)
  BY AppendCertMove DEF GoesOn, CertEntry
<1>7. Counts(j)'
  BY <1>1, <1>2, <1>4, <1>5, <1>6, AppendCertMove DEF GoesOn, CountInv, Counts
<1> QED
  BY <1>1, <1>2, <1>3, <1>7, CountFrame, NotCertified, AppendCertMove DEF CountInv, GoesOn

LEMMA CountCertificate ==
  ASSUME TypeOK, CountInv, NEW j \in Jobs, put_certificate(j)
  PROVE  CountInv'
<1>1. PICK c : c = Certificate(j, job[j].batch)
  OBVIOUS
<1>2. audit' = audit /\ job[j].pc = "cert" /\ certs' = certs \cup {c}
  BY <1>1 DEF put_certificate
<1>3. Reported(j)' = Reported(j)
  BY <1>2 DEF Reported
<1>4. j \in Erasers /\ j \notin Sweepers
  BY <1>2, ErasureAssumption DEF CountInv, Counts
<1>5. Counts(j)'
  BY <1>2, <1>3, <1>4, CertificateMove DEF GoesOn, CountInv, Counts
<1>6. Certified(c)'
  <2>1. job[j].batch \in DOMAIN audit /\ audit[job[j].batch] = CertEntry(j)
    BY <1>2 DEF CountInv, Counts
  <2>2. job'[j].pc = "done"
    BY CertificateMove
  <2>3. c.job = j /\ c.chain_seq = job[j].batch /\ c.records_deleted = job[j].deleted
    BY <1>1 DEF Certificate
  <2> QED
    BY <1>2, <1>4, <2>1, <2>2, <2>3 DEF Certified, CertEntry
<1>7. \A d \in certs : Certified(d)'
  BY <1>2, CountFrame, CertificateMove DEF GoesOn
<1>8. \A k \in Jobs : Counts(k)'
  BY <1>2, <1>5, CountFrame, CertificateMove DEF GoesOn
<1> QED
  BY <1>2, <1>6, <1>7, <1>8 DEF CountInv

\* The other steps of a job log nothing and count nothing.
LEMMA CountQuiet ==
  ASSUME TypeOK, CountInv, NEW j \in Jobs, audit' = audit, certs' = certs, GoesOn(j),
         \/ job[j].pc = "delete" /\ job'[j].pc = "verdict"
         \/ job[j].pc = "verdict" /\ job'[j].pc = "delete"
         \/ job[j].pc = "delete" /\ job'[j].pc = "done" /\ j \in Sweepers
         \/ job[j].pc \in {"delete", "events"} /\ job'[j].pc = "events" /\ j \in Erasers
  PROVE  CountInv'
<1>1. Reported(j)' = Reported(j)
  BY DEF Reported
<1>2. Counts(j)'
  BY <1>1, ErasureAssumption DEF CountInv, Counts, GoesOn
<1> QED
  BY <1>2, CountFrame, NotCertified DEF CountInv, GoesOn

LEMMA CountRaise ==
  ASSUME TypeOK, CountInv, NEW j \in Jobs, JobRaises(j)
  PROVE  CountInv'
<1>1. audit' = audit /\ certs' = certs /\ job[j].pc # "done"
  BY DEF JobRaises, tables
<1>2. Counts(j)'
  BY RaiseMove DEF Counts
<1> QED
  BY <1>1, <1>2, CountFrame, NotCertified, RaiseMove DEF CountInv

LEMMA CountStep == TypeOK /\ CountInv /\ [Next]_vars => CountInv'
<1> SUFFICES ASSUME TypeOK, CountInv, [Next]_vars PROVE CountInv'
  OBVIOUS
<1>1. CASE UNCHANGED <<job, audit, certs>>
  <2>1. \A j : Reported(j)' = Reported(j)
    BY <1>1 DEF Reported
  <2>2. \A j \in Jobs : Counts(j)'
    BY <1>1, <2>1 DEF CountInv, Counts, CertEntry
  <2>3. \A c \in certs : Certified(c)'
    BY <1>1 DEF CountInv, Certified
  <2> QED
    BY <1>1, <2>2, <2>3 DEF CountInv
<1>2. CASE Environment
  <2>1. UNCHANGED <<job, audit, certs>>
    BY <1>2 DEF Environment, ExtractionCreate, BackendUpdate, Propagate, set_legal_hold,
       create_event, Tick, tables, threads
  <2> QED BY <1>1, <2>1
<1>3. ASSUME NEW w \in Writers, WriterNext(w)  PROVE CountInv'
  <2>1. UNCHANGED <<job, audit, certs>>
    BY <1>3 DEF WriterNext, BackendPut, PutEnvelope, FinishWrite, tables
  <2> QED BY <1>1, <2>1
<1>4. ASSUME NEW s \in Scanners, ScannerNext(s)  PROVE CountInv'
  <2>1. UNCHANGED <<job, audit, certs>>
    BY <1>4 DEF ScannerNext, Receive, ReceiveDelete, Bind, PutVerdict, DeleteVerdict,
       Acknowledge, ScanRaises, ScannerTo, tables
  <2> QED BY <1>1, <2>1
<1>5. ASSUME NEW j \in Jobs, JobNext(j)  PROVE CountInv'
  <2>1. CASE StartJob(j)
    BY <2>1, CountStart
  <2>2. ASSUME NEW r \in Records, ReadRow(j, r)  PROVE CountInv'
    BY <2>2, CountRead
  <2>3. ASSUME NEW r \in Records, DropEnvelope(j, r)  PROVE CountInv'
    <3>1. audit' = audit /\ certs' = certs /\ job[j].pc = "delete"
      BY <2>3 DEF DropEnvelope
    <3> QED
      BY <2>3, <3>1, DropEnvelopeMove, CountQuiet
  <2>4. ASSUME NEW batch \in SUBSET job[j].plan, NEW missed \in SUBSET batch,
               DeleteBatch(j, batch, missed)
        PROVE  CountInv'
    BY <2>4, CountBatch
  <2>5. CASE LogBatch(j)
    BY <2>5, CountLog
  <2>6. CASE DropVerdict(j)
    <3>1. audit' = audit /\ certs' = certs /\ job[j].pc = "verdict"
      BY <2>6 DEF DropVerdict
    <3> QED
      BY <2>6, <3>1, DropVerdictMove, CountQuiet
  <2>7. CASE EndSweep(j)
    <3>1. audit' = audit /\ certs' = certs /\ job[j].pc = "delete" /\ j \in Sweepers
      BY <2>7 DEF EndSweep, RecordsDone, JobTo, tables
    <3> QED
      BY <2>7, <3>1, EndSweepMove, CountQuiet
  <2>8. CASE ListSessions(j)
    <3>1. audit' = audit /\ certs' = certs /\ job[j].pc = "delete" /\ j \in Erasers
      BY <2>8 DEF ListSessions, RecordsDone, JobTo, tables
    <3> QED
      BY <2>8, <3>1, ListSessionsMove, CountQuiet
  <2>9. ASSUME NEW e \in Events, ListEvents(j, session_of[e])  PROVE CountInv'
    <3>1. audit' = audit /\ certs' = certs /\ job[j].pc = "events"
      BY <2>9 DEF ListEvents, JobTo, tables
    <3>2. j \in Erasers
      BY <3>1 DEF CountInv, Counts
    <3> QED
      BY <2>9, <3>1, <3>2, ListEventsMove, CountQuiet
  <2>10. ASSUME NEW e \in Events, DeleteEvent(j, e)  PROVE CountInv'
    <3>1. audit' = audit /\ certs' = certs /\ job[j].pc = "events"
      BY <2>10 DEF DeleteEvent, tables
    <3>2. j \in Erasers
      BY <3>1 DEF CountInv, Counts
    <3> QED
      BY <2>10, <3>1, <3>2, DeleteEventMove, CountQuiet
  <2>11. CASE AppendCert(j)
    BY <2>11, CountCertEntry
  <2>12. CASE put_certificate(j)
    BY <2>12, CountCertificate
  <2>13. CASE JobRaises(j)
    BY <2>13, CountRaise
  <2> QED
    BY <1>5, <2>1, <2>2, <2>3, <2>4, <2>5, <2>6, <2>7, <2>8, <2>9, <2>10, <2>11, <2>12, <2>13
    DEF JobNext
<1>6. CASE UNCHANGED vars
  BY <1>1, <1>6 DEF vars, tables, threads
<1> QED
  BY <1>2, <1>3, <1>4, <1>5, <1>6 DEF Next

LEMMA CountImplies == TypeOK /\ CountInv => DeletionsOnRecord
<1> SUFFICES ASSUME TypeOK, CountInv PROVE DeletionsOnRecord
  OBVIOUS
<1>1. ASSUME NEW j \in Sweepers, job[j].pc \notin {"log", "raised"}
      PROVE  Reported(j) = Cardinality(job[j].gone)
  <2>1. j \in Jobs
    BY DEF Jobs
  <2> QED
    BY <1>1, <2>1 DEF CountInv, Counts
<1>2. ASSUME NEW c \in certs
      PROVE  /\ Reported(c.job) = Cardinality(job[c.job].gone)
             /\ audit[c.chain_seq] =
                  [op |-> "ERASURE_CERT", job |-> c.job, deleted |-> c.records_deleted]
  <2>1. Certified(c)
    BY DEF CountInv
  <2>2. c.job \in Jobs /\ c.job \in Erasers /\ job[c.job].pc = "done"
    BY <2>1 DEF Certified, Jobs
  <2>3. Reported(c.job) = Cardinality(job[c.job].gone)
    BY <2>2 DEF CountInv, Counts
  <2> QED
    BY <2>1, <2>3 DEF Certified
<1> QED
  BY <1>1, <1>2 DEF DeletionsOnRecord

\* sweep.py:34, governed.py:256: whatever batches failed or met a deletion by
\* somebody else, the SWEEP_BATCH entries of a sweep add up to the records it
\* deleted, and so does the ERASURE_CERT entry that a certificate points at.
THEOREM DeletionsAlwaysOnRecord == Spec => []DeletionsOnRecord
<1>1. Init => CountInv
  BY CountInit
<1>2. TypeOK /\ TypeOK' /\ CountInv /\ [Next]_vars => CountInv'
  BY CountStep
<1>3. TypeOK /\ CountInv => DeletionsOnRecord
  BY CountImplies
<1> QED
  BY <1>1, <1>2, <1>3, TypesCorrect, PTL DEF Spec

-----------------------------------------------------------------------------
(* What exists has been born.                                              *)

StoredBorn ==
  \A r \in Records :
    /\ store[r] # None \/ stream[r] # <<>> => r \in born
    /\ \A n \in DOMAIN stream[r] : stream[r][n].event_type = "DELETE" => store[r] = None

RowsBorn ==
  /\ \A r \in Records : rows[r] # None \/ indexed[r] # None => r \in born
  /\ \A w \in Writers : writer[w] # IdleThread => writer[w].rec \in born
  /\ \A s \in Scanners : scanner[s] # IdleThread => scanner[s].rec \in born
  /\ \A j \in Jobs : job[j].plan \subseteq born
  /\ events \subseteq born

LEMMA BackendSteps ==
  ASSUME [Next]_vars
  PROVE  \/ store' = store /\ stream' = stream /\ born \subseteq born'
         \/ \E r \in Records :
              \/ /\ r \notin born /\ born' = born \cup {r}
                 /\ store' = [store EXCEPT ![r] = 0] /\ emit(r, "CREATE", 0)
              \/ BackendUpdate(r) /\ born' = born
         \/ \E s \in Scanners : Acknowledge(s) /\ born' = born
         \/ \E j \in Jobs : \E batch \in SUBSET job[j].plan : \E missed \in SUBSET batch :
              DeleteBatch(j, batch, missed) /\ born' = born
<1> USE DEF backend, tables, locals, threads, history
<1>1. CASE Environment
  BY <1>1 DEF Environment, ExtractionCreate, BackendUpdate, Propagate, set_legal_hold,
     create_event, Tick
<1>2. ASSUME NEW w \in Writers, WriterNext(w)
      PROVE  \/ store' = store /\ stream' = stream /\ born \subseteq born'
             \/ \E r \in Records : r \notin born /\ born' = born \cup {r}
                  /\ store' = [store EXCEPT ![r] = 0] /\ emit(r, "CREATE", 0)
  BY <1>2 DEF WriterNext, BackendPut, PutEnvelope, FinishWrite
<1>3. ASSUME NEW s \in Scanners, ScannerNext(s)
      PROVE  \/ store' = store /\ stream' = stream /\ born \subseteq born'
             \/ Acknowledge(s) /\ born' = born
  BY <1>3 DEF ScannerNext, Receive, ReceiveDelete, Bind, PutVerdict, DeleteVerdict,
     Acknowledge, ScanRaises, ScannerTo
<1>4. ASSUME NEW j \in Jobs, JobNext(j)
      PROVE  \/ store' = store /\ stream' = stream /\ born \subseteq born'
             \/ \E batch \in SUBSET job[j].plan : \E missed \in SUBSET batch :
                  DeleteBatch(j, batch, missed) /\ born' = born
  <2>1. ASSUME NEW batch, NEW missed, DeleteBatch(j, batch, missed)  PROVE born' = born
    BY <2>1 DEF DeleteBatch, Removes
  <2> QED
    BY <1>4, <2>1 DEF JobNext, StartJob, ReadRow, DropEnvelope, LogBatch, DropVerdict, EndSweep,
       ListSessions, ListEvents, DeleteEvent, AppendCert, put_certificate, JobRaises, JobTo
<1>5. CASE UNCHANGED vars
  BY <1>5 DEF vars
<1> QED
  BY <1>1, <1>2, <1>3, <1>4, <1>5 DEF Next

LEMMA AppendedEvents ==
  ASSUME NEW log \in Seq(RecordEvent), NEW e \in RecordEvent
  PROVE  \A n \in DOMAIN Append(log, e) :
           \/ Append(log, e)[n] = e
           \/ n \in DOMAIN log /\ Append(log, e)[n] = log[n]
OBVIOUS

LEMMA TailEvents ==
  ASSUME NEW log \in Seq(RecordEvent), log # <<>>
  PROVE  \A n \in DOMAIN Tail(log) : n + 1 \in DOMAIN log /\ Tail(log)[n] = log[n + 1]
OBVIOUS

LEMMA StoredStep == TypeOK /\ OneConsumer /\ StoredBorn /\ [Next]_vars => StoredBorn'
<1> SUFFICES ASSUME TypeOK, OneConsumer, StoredBorn, [Next]_vars  PROVE StoredBorn'
  OBVIOUS
<1>a. /\ stream \in [Records -> Seq(RecordEvent)] /\ clock \in Nat
      /\ store \in [Records -> Versions \cup {None}] /\ 0 \in Versions /\ None \notin Versions
  BY ErasureAssumption DEF TypeOK, Versions
<1>1. CASE store' = store /\ stream' = stream /\ born \subseteq born'
  BY <1>1 DEF StoredBorn
<1>2. ASSUME NEW r \in Records, NEW type \in {"CREATE", "UPDATE"}, NEW v \in Versions,
             emit(r, type, v), store' = [store EXCEPT ![r] = v], born' = born \cup {r},
             \A n \in DOMAIN stream[r] : stream[r][n].event_type # "DELETE"
      PROVE  StoredBorn'
  <2> DEFINE e == [event_type |-> type, version |-> v, ts |-> clock]
  <2>1. e \in RecordEvent /\ e.event_type # "DELETE"
    BY <1>2, <1>a DEF RecordEvent
  <2>2. stream' = [stream EXCEPT ![r] = Append(stream[r], e)]
    BY <1>2, <1>a DEF emit
  <2> HIDE DEF e
  <2>3. ASSUME NEW q \in Records, q # r
        PROVE  store'[q] = store[q] /\ stream'[q] = stream[q]
    BY <1>2, <1>a, <2>2, <2>3
  <2>4. \A n \in DOMAIN stream'[r] : stream'[r][n].event_type # "DELETE"
    <3>1. stream'[r] = Append(stream[r], e)
      BY <1>a, <2>2
    <3> QED
      BY <1>2, <1>a, <2>1, <3>1, AppendedEvents
  <2> QED
    BY <1>2, <2>3, <2>4 DEF StoredBorn
<1>3. ASSUME NEW r \in Records, r \notin born, born' = born \cup {r},
             store' = [store EXCEPT ![r] = 0], emit(r, "CREATE", 0)
      PROVE  StoredBorn'
  <2>1. \A n \in DOMAIN stream[r] : stream[r][n].event_type # "DELETE"
    BY <1>3, <1>a DEF StoredBorn
  <2> QED
    BY <1>2, <1>3, <1>a, <2>1
<1>4. ASSUME NEW r \in Records, BackendUpdate(r), born' = born
      PROVE  StoredBorn'
  <2>1. PICK v : v = store[r] + 1
    OBVIOUS
  <2>2. /\ store[r] # None /\ emit(r, "UPDATE", v) /\ store[r] < MaxUpdates
        /\ store' = [store EXCEPT ![r] = v]
    BY <1>4, <1>a, <2>1 DEF BackendUpdate
  <2>3. v \in Versions
    BY <1>a, <2>1, <2>2, ErasureAssumption DEF Versions
  <2>4. born' = born \cup {r}
    BY <1>4, <2>2 DEF StoredBorn
  <2>5. \A n \in DOMAIN stream[r] : stream[r][n].event_type # "DELETE"
    BY <2>2 DEF StoredBorn
  <2> QED
    BY <1>2, <2>2, <2>3, <2>4, <2>5
<1>5. ASSUME NEW s \in Scanners, Acknowledge(s), born' = born  PROVE StoredBorn'
  <2>1. PICK r : r = scanner[s].rec
    OBVIOUS
  <2>2. /\ r \in Records /\ stream[r] # <<>> /\ store' = store
        /\ stream' = [stream EXCEPT ![r] = Tail(stream[r])]
    BY <1>5, <1>a, <2>1 DEF Acknowledge, TypeOK, ScannerState, IdleThread, OneConsumer
  <2>3. ASSUME NEW n \in DOMAIN stream'[r], stream'[r][n].event_type = "DELETE"
        PROVE  store[r] = None
    <3>1. n + 1 \in DOMAIN stream[r] /\ stream'[r][n] = stream[r][n + 1]
      <4>1. stream'[r] = Tail(stream[r])
        BY <1>a, <2>2
      <4> QED
        BY <1>a, <2>2, <2>3, <4>1, TailEvents
    <3> QED
      BY <2>3, <3>1, <2>2 DEF StoredBorn
  <2>4. ASSUME NEW q \in Records, q # r
        PROVE  stream'[q] = stream[q]
    BY <1>a, <2>2, <2>4
  <2> QED
    BY <1>5, <2>2, <2>3, <2>4 DEF StoredBorn
<1>6. ASSUME NEW j \in Jobs, NEW batch \in SUBSET job[j].plan, NEW missed \in SUBSET batch,
             DeleteBatch(j, batch, missed), born' = born
      PROVE  StoredBorn'
  <2>1. PICK removed : removed = {r \in batch \ missed : store[r] # None}
    OBVIOUS
  <2>2. Removes(removed)
    BY <1>6, <2>1 DEF DeleteBatch
  <2>3. ASSUME NEW q \in Records, q \notin removed
        PROVE  store'[q] = store[q] /\ stream'[q] = stream[q]
    BY <2>2, <2>3 DEF Removes
  <2>4. ASSUME NEW q \in Records, q \in removed
        PROVE  store'[q] = None /\ q \in born
    BY <2>1, <2>2, <2>4 DEF Removes, StoredBorn
  <2> QED
    BY <1>6, <2>3, <2>4 DEF StoredBorn
<1> QED
  BY <1>1, <1>3, <1>4, <1>5, <1>6, BackendSteps

\* A row is put for a record that exists, or it is None.
LEMMA RowsFrame ==
  ASSUME TypeOK, RowsBorn, born \subseteq born',
         \/ /\ rows' = rows
            /\ indexed' = indexed \/ \E r \in Records : indexed' = [indexed EXCEPT ![r] = rows[r]]
         \/ \E r \in Records : \E row : PutRow(r, row) /\ (row = None \/ r \in born)
  PROVE  \A r \in Records : rows'[r] # None \/ indexed'[r] # None => r \in born'
<1> SUFFICES ASSUME NEW q \in Records, rows'[q] # None \/ indexed'[q] # None PROVE q \in born
  OBVIOUS
<1>1. CASE rows' = rows
  BY <1>1 DEF RowsBorn, TypeOK, PutRow
<1>2. ASSUME NEW r \in Records, NEW row, PutRow(r, row), row = None \/ r \in born
      PROVE  q \in born
  BY <1>2 DEF RowsBorn, TypeOK, PutRow
<1> QED
  BY <1>1, <1>2

\* What the threads hold.
LEMMA ThreadsFrame ==
  ASSUME TypeOK, RowsBorn, born \subseteq born',
         \A r \in Records : rows'[r] # None \/ indexed'[r] # None => r \in born',
         \A w \in Writers : \/ writer'[w] = IdleThread
                            \/ writer'[w].rec \in born'
                            \/ writer'[w] = writer[w],
         \A s \in Scanners : \/ scanner'[s] = IdleThread
                             \/ scanner'[s].rec \in born'
                             \/ scanner'[s] = scanner[s],
         \A j \in Jobs : job'[j].plan \subseteq born',
         events' \subseteq born'
  PROVE  RowsBorn'
BY DEF RowsBorn

LEMMA RowsStep == TypeOK /\ StoredBorn /\ OneConsumer /\ RowsBorn /\ [Next]_vars => RowsBorn'
<1> SUFFICES ASSUME TypeOK, StoredBorn, OneConsumer, RowsBorn, [Next]_vars  PROVE RowsBorn'
  OBVIOUS
<1> USE DEF backend, tables, locals, threads, history
<1>a. /\ \A w \in Writers : writer[w] # IdleThread => writer[w].rec \in Records /\ writer[w].rec \in born
      /\ \A s \in Scanners : scanner[s] # IdleThread => scanner[s].rec \in Records /\ scanner[s].rec \in born
      /\ \A j \in Jobs : job[j].plan \subseteq born
      /\ \A r \in Records : indexed[r] # None => r \in born
      /\ \A r \in Records : stream[r] # <<>> => r \in born
      /\ events \subseteq born
  BY DEF TypeOK, RowsBorn, StoredBorn, WriterState, ScannerState, IdleThread
<1>b. ASSUME NEW j \in Jobs, GoesOn(j)  PROVE \A k \in Jobs : job'[k].plan \subseteq born
  BY <1>a, <1>b DEF GoesOn
<1>1. CASE /\ \/ /\ rows' = rows
                 /\ indexed' = indexed \/ \E r \in Records : indexed' = [indexed EXCEPT ![r] = rows[r]]
              \/ \E r \in Records : \E row : PutRow(r, row) /\ (row = None \/ r \in born)
           /\ UNCHANGED <<born, events, writer, scanner>>
           /\ \A k \in Jobs : job'[k].plan \subseteq born
  BY <1>1, <1>a, RowsFrame, ThreadsFrame
<1>2. ASSUME NEW r \in Records, ExtractionCreate(r)  PROVE RowsBorn'
  BY <1>2, <1>a, RowsFrame, ThreadsFrame DEF ExtractionCreate
<1>3. ASSUME NEW r \in Records, BackendUpdate(r) \/ Propagate(r)  PROVE RowsBorn'
  BY <1>3, <1>a, <1>1 DEF BackendUpdate, Propagate
<1>4. ASSUME NEW r \in Records, NEW hold \in BOOLEAN, set_legal_hold(r, hold)  PROVE RowsBorn'
  <2>1. r \in born
    BY <1>4 DEF set_legal_hold
  <2>2. (\E row : PutRow(r, row)) /\ UNCHANGED <<born, events, writer, scanner, job>>
    BY <1>4 DEF set_legal_hold
  <2> QED
    BY <1>1, <1>a, <2>1, <2>2
<1>5. ASSUME NEW e \in Events, create_event(e)  PROVE RowsBorn'
  BY <1>5, <1>a, RowsFrame, ThreadsFrame DEF create_event
<1>6. CASE Tick \/ UNCHANGED vars
  BY <1>6, <1>a, <1>1 DEF Tick, vars
<1>7. ASSUME NEW w \in Writers, NEW r \in Records, BackendPut(w, r)  PROVE RowsBorn'
  <2>1. /\ rows' = rows /\ indexed' = indexed /\ born' = born \cup {r} /\ events' = events
        /\ scanner' = scanner /\ job' = job /\ writer'[w].rec = r
        /\ \A v \in Writers \ {w} : writer'[v] = writer[v]
    BY <1>7 DEF BackendPut, TypeOK
  <2> QED
    BY <1>a, <2>1, RowsFrame, ThreadsFrame
<1>8. ASSUME NEW w \in Writers, PutEnvelope(w)  PROVE RowsBorn'
  <2>1. writer[w] # IdleThread
    BY <1>8 DEF PutEnvelope, IdleThread
  <2>2. /\ PutRow(writer[w].rec, writer[w].env) /\ born' = born /\ events' = events
        /\ scanner' = scanner /\ job' = job
        /\ \A v \in Writers \ {w} : writer'[v] = writer[v]
    BY <1>8 DEF PutEnvelope, TypeOK
  <2>3. writer'[w].rec = writer[w].rec
    BY <1>8, <2>1 DEF PutEnvelope, TypeOK, WriterState
  <2>4. \A r \in Records : rows'[r] # None \/ indexed'[r] # None => r \in born'
    BY <1>a, <2>1, <2>2, RowsFrame
  <2> QED
    BY <1>a, <2>1, <2>2, <2>3, <2>4, ThreadsFrame
<1>9. ASSUME NEW w \in Writers, FinishWrite(w)  PROVE RowsBorn'
  BY <1>9, <1>a, RowsFrame, ThreadsFrame DEF FinishWrite, TypeOK
<1>10. ASSUME NEW s \in Scanners, NEW r \in Records, Receive(s, r)  PROVE RowsBorn'
  <2>1. stream[r] # <<>>
    BY <1>10 DEF Receive, Deliverable
  <2>2. /\ rows' = rows /\ indexed' = indexed /\ born' = born /\ events' = events
        /\ writer' = writer /\ job' = job /\ scanner'[s].rec = r
        /\ \A v \in Scanners \ {s} : scanner'[v] = scanner[v]
    BY <1>10 DEF Receive, ScannerTo, TypeOK
  <2> QED
    BY <1>a, <2>1, <2>2, RowsFrame, ThreadsFrame
<1>11. ASSUME NEW s \in Scanners, NEW r \in Records, ReceiveDelete(s, r)  PROVE RowsBorn'
  <2>1. stream[r] # <<>>
    BY <1>11 DEF ReceiveDelete, Deliverable
  <2>2. /\ PutRow(r, None) /\ born' = born /\ events' = events
        /\ writer' = writer /\ job' = job /\ scanner'[s].rec = r
        /\ \A v \in Scanners \ {s} : scanner'[v] = scanner[v]
    BY <1>11 DEF ReceiveDelete, TypeOK
  <2>3. \A q \in Records : rows'[q] # None \/ indexed'[q] # None => q \in born'
    BY <2>2, RowsFrame
  <2> QED
    BY <1>a, <2>1, <2>2, <2>3, ThreadsFrame
<1>12. ASSUME NEW s \in Scanners, Bind(s)  PROVE RowsBorn'
  <2>1. scanner[s] # IdleThread
    BY <1>12 DEF Bind, IdleThread
  <2>2. /\ PutRow(scanner[s].rec, scanner[s].env) /\ born' = born /\ events' = events
        /\ writer' = writer /\ job' = job
        /\ \A v \in Scanners \ {s} : scanner'[v] = scanner[v]
    BY <1>12 DEF Bind, TypeOK
  <2>3. scanner'[s].rec = scanner[s].rec
    BY <1>12, <2>1 DEF Bind, TypeOK, ScannerState
  <2>4. \A r \in Records : rows'[r] # None \/ indexed'[r] # None => r \in born'
    BY <1>a, <2>1, <2>2, RowsFrame
  <2> QED
    BY <1>a, <2>1, <2>2, <2>3, <2>4, ThreadsFrame
<1>13. ASSUME NEW s \in Scanners, PutVerdict(s) \/ DeleteVerdict(s)  PROVE RowsBorn'
  <2>1. scanner[s] # IdleThread
    BY <1>13 DEF PutVerdict, DeleteVerdict, IdleThread
  <2>2. /\ rows' = rows /\ indexed' = indexed /\ born' = born /\ events' = events
        /\ writer' = writer /\ job' = job
        /\ \A v \in Scanners \ {s} : scanner'[v] = scanner[v]
    BY <1>13 DEF PutVerdict, DeleteVerdict, TypeOK
  <2>3. scanner'[s].rec = scanner[s].rec
    <3>1. scanner[s] \in ScannerState /\ DOMAIN scanner = Scanners
      BY DEF TypeOK
    <3>2. scanner' = [scanner EXCEPT ![s].pc = "ack"]
      BY <1>13 DEF PutVerdict, DeleteVerdict
    <3> QED
      BY <2>1, <3>1, <3>2 DEF ScannerState
  <2> QED
    BY <1>a, <2>1, <2>2, <2>3, RowsFrame, ThreadsFrame
<1>14. ASSUME NEW s \in Scanners, Acknowledge(s) \/ ScanRaises(s)  PROVE RowsBorn'
  <2>1. /\ rows' = rows /\ indexed' = indexed /\ born' = born /\ events' = events
        /\ writer' = writer /\ job' = job /\ scanner'[s] = IdleThread
        /\ \A v \in Scanners \ {s} : scanner'[v] = scanner[v]
    BY <1>14 DEF Acknowledge, ScanRaises, ScannerTo, TypeOK
  <2> QED
    BY <1>a, <2>1, RowsFrame, ThreadsFrame
<1>15. ASSUME NEW j \in Jobs, NEW r \in Records, DropEnvelope(j, r)  PROVE RowsBorn'
  BY <1>15, <1>1, <1>b, DropEnvelopeMove DEF DropEnvelope
<1>16. ASSUME NEW j \in Jobs, StartJob(j) \/ JobRaises(j)  PROVE RowsBorn'
  <2>1. \A k \in Jobs : job'[k].plan \subseteq born
    BY <1>16, <1>a, StartMove, RaiseMove
  <2> QED
    BY <1>16, <2>1, <1>1 DEF StartJob, JobRaises
<1>17. ASSUME NEW j \in Jobs, NEW r \in Records, ReadRow(j, r)  PROVE RowsBorn'
  <2>1. Walked(j, r, indexed[r]) => r \in born
    BY <1>a DEF Walked, IsDue, Readable
  <2>2. \A k \in Jobs : job'[k].plan \subseteq born
    BY <1>17, <1>a, <2>1, ReadMove
  <2> QED
    BY <1>17, <2>2, <1>1 DEF ReadRow, JobTo
<1>18. ASSUME NEW j \in Jobs, NEW batch \in SUBSET job[j].plan, NEW missed \in SUBSET batch,
              DeleteBatch(j, batch, missed)
       PROVE  RowsBorn'
  <2>1. \A k \in Jobs : job'[k].plan \subseteq born
    BY <1>18, <1>a, BatchMove
  <2> QED
    BY <1>18, <2>1, <1>1 DEF DeleteBatch, Removes
<1>19. ASSUME NEW j \in Jobs, NEW e \in Events, ListEvents(j, session_of[e]) \/ DeleteEvent(j, e)
       PROVE  RowsBorn'
  <2>1. \A k \in Jobs : job'[k].plan \subseteq born
    BY <1>19, <1>b, ListEventsMove, DeleteEventMove
  <2>2. /\ rows' = rows /\ indexed' = indexed /\ born' = born /\ events' \subseteq events
        /\ writer' = writer /\ scanner' = scanner
    BY <1>19 DEF ListEvents, DeleteEvent, JobTo
  <2> QED
    BY <1>a, <2>1, <2>2, RowsFrame, ThreadsFrame
<1>20. ASSUME NEW j \in Jobs,
              \/ LogBatch(j) \/ DropVerdict(j) \/ EndSweep(j) \/ ListSessions(j)
              \/ AppendCert(j) \/ put_certificate(j)
       PROVE  RowsBorn'
  <2>1. \A k \in Jobs : job'[k].plan \subseteq born
    BY <1>20, <1>b, LogBatchMove, DropVerdictMove, EndSweepMove, ListSessionsMove,
       AppendCertMove, CertificateMove
  <2> QED
    BY <1>20, <2>1, <1>1 DEF LogBatch, DropVerdict, EndSweep, ListSessions, AppendCert,
       put_certificate, JobTo
<1> QED
  BY <1>2, <1>3, <1>4, <1>5, <1>6, <1>7, <1>8, <1>9, <1>10, <1>11, <1>12, <1>13, <1>14,
     <1>15, <1>16, <1>17, <1>18, <1>19, <1>20
  DEF Next, Environment, WriterNext, ScannerNext, JobNext

-----------------------------------------------------------------------------
(* What a job has to see.                                                  *)

\* Deleted by somebody, or given up by a batch_delete: it stays so.
Lost(r) == (store[r] = None /\ r \in born) \/ Missed(r)

\* The job's part of the index shows a record, and the job has it on a list.
Awaits(j, r) ==
  /\ Walked(j, r, rows[r]) /\ Walked(j, r, indexed[r])
  /\ r \in job[j].unread \cup job[j].held \cup job[j].plan

Sees(j) ==
  /\ \A r \in job[j].purge : Lost(r)
  /\ job[j].pc = "idle" => job[j].missed = {}
  /\ job[j].pc \in {"idle", "raised"} => due[j] = {}
  /\ job[j].pc \notin {"idle", "walk"} => job[j].unread = {}
  /\ job[j].pc \in {"events", "cert", "done"} => job[j].plan = {}
  /\ \A r \in due[j] : Lost(r) \/ Awaits(j, r)

SeenInv == \A j \in Jobs : Sees(j)

\* A step of k that keeps the lists of records and clears at most its purge list.
Keeps(k) ==
  /\ job'[k].now = job[k].now /\ job'[k].unread = job[k].unread
  /\ job'[k].held = job[k].held /\ job'[k].plan = job[k].plan
  /\ job'[k].purge \subseteq job[k].purge /\ job'[k].missed = job[k].missed
  /\ \/ job'[k].pc = job[k].pc
     \/ /\ job[k].pc \notin {"idle", "walk", "raised"}
        /\ job'[k].pc \notin {"idle", "walk", "raised"}
        /\ job'[k].pc \in {"events", "cert", "done"} => job[k].plan = {}

LEMMA KeepsAll ==
  ASSUME SeenInv, NEW j \in Jobs, GoesOn(j), job[j].pc \notin {"idle", "walk", "raised"},
         job'[j].pc \notin {"idle", "walk", "raised"},
         job'[j].pc \in {"events", "cert", "done"} => job[j].plan = {}
  PROVE  \A k \in Jobs : Keeps(k)
BY DEF GoesOn, Keeps

\* The jobs go on with their lists, and no row they have to see is put out of sight.
LEMMA SeenFrame ==
  ASSUME TypeOK, SeenInv, \A k \in Jobs : Keeps(k), \A r \in Records : Lost(r) => Lost(r)',
         \/ /\ rows' = rows /\ due' = due
            /\ indexed' = indexed \/ \E r \in Records : indexed' = [indexed EXCEPT ![r] = rows[r]]
         \/ \E r \in Records : \E row :
              PutRow(r, row) /\ (Readable(row) \/ Lost(r) \/ ~Readable(rows[r]))
  PROVE  SeenInv'
<1> SUFFICES ASSUME NEW j \in Jobs PROVE Sees(j)'
  BY DEF SeenInv
<1>1. Sees(j) /\ Keeps(j) /\ due[j] \subseteq Records /\ job[j].purge \subseteq Records
  BY DEF SeenInv, TypeOK, JobState
<1>2. due'[j] \subseteq due[j]
  BY DEF PutRow
<1>3. ASSUME NEW q \in due'[j], ~Lost(q)  PROVE Awaits(j, q)'
  <2>1. q \in Records /\ q \in due[j] /\ Awaits(j, q) /\ Readable(rows[q])
    BY <1>1, <1>2, <1>3 DEF Sees, Awaits, Walked, IsDue
  <2>2. q \in job'[j].unread \cup job'[j].held \cup job'[j].plan
    BY <1>1, <2>1 DEF Awaits, Keeps
  <2>3. Walked(j, q, rows'[q]) /\ Walked(j, q, indexed'[q])
    <3>1. CASE /\ rows' = rows
               /\ indexed' = indexed \/ \E r \in Records : indexed' = [indexed EXCEPT ![r] = rows[r]]
      <4>1. indexed'[q] \in {indexed[q], rows[q]}
        BY <2>1, <3>1 DEF TypeOK
      <4> QED
        BY <2>1, <3>1, <4>1 DEF Awaits
    <3>2. ASSUME NEW r \in Records, NEW row, PutRow(r, row),
                 Readable(row) \/ Lost(r) \/ ~Readable(rows[r])
          PROVE  Walked(j, q, rows'[q]) /\ Walked(j, q, indexed'[q])
      <4>1. q = r => Walked(j, q, row)
        BY <1>3, <2>1, <3>2 DEF PutRow
      <4>2. rows'[q] = IF q = r THEN row ELSE rows[q]
        BY <2>1, <3>2 DEF PutRow, TypeOK
      <4>3. indexed'[q] \in {indexed[q], rows'[q]}
        BY <2>1, <3>2, <4>2 DEF PutRow, TypeOK
      <4> QED
        BY <2>1, <4>1, <4>2, <4>3 DEF Awaits
    <3> QED
      BY <3>1, <3>2
  <2>4. job'[j].now = job[j].now
    BY <1>1 DEF Keeps
  <2>5. \A row : Walked(j, q, row) <=> IsDue(j, q, row, job[j].now)
    BY DEF Walked
  <2>6. IsDue(j, q, rows'[q], job'[j].now) /\ IsDue(j, q, indexed'[q], job'[j].now)
    BY <2>3, <2>4, <2>5
  <2> QED
    BY <2>2, <2>6 DEF Awaits, Walked
<1>4. \A r \in job'[j].purge : Lost(r)'
  BY <1>1 DEF Sees, Keeps
<1>5. \A r \in due'[j] : Lost(r)' \/ Awaits(j, r)'
  BY <1>1, <1>2, <1>3
<1>6. /\ job'[j].pc = "idle" => job'[j].missed = {}
      /\ job'[j].pc \in {"idle", "raised"} => due'[j] = {}
      /\ job'[j].pc \notin {"idle", "walk"} => job'[j].unread = {}
      /\ job'[j].pc \in {"events", "cert", "done"} => job'[j].plan = {}
  BY <1>1, <1>2 DEF Sees, Keeps
<1> QED
  BY <1>4, <1>5, <1>6 DEF Sees

\* What a job missed it goes on to have missed.
LEMMA MissedStays ==
  ASSUME TypeOK, SeenInv, [Next]_vars
  PROVE  \A k \in Jobs : job[k].missed \subseteq job'[k].missed
<1> USE DEF backend, tables, locals, threads, history
<1>1. CASE job' = job
  BY <1>1
<1>2. ASSUME NEW j \in Jobs, JobNext(j)
      PROVE  \A k \in Jobs : job[k].missed \subseteq job'[k].missed
  <2>1. CASE StartJob(j)
    <3>1. job[j].missed = {}
      BY <2>1 DEF StartJob, SeenInv, Sees
    <3> QED
      BY <2>1, <3>1, StartMove
  <2>2. ASSUME NEW r \in Records, ReadRow(j, r) \/ DropEnvelope(j, r)
        PROVE  \A k \in Jobs : job[k].missed \subseteq job'[k].missed
    BY <2>2, ReadMove, DropEnvelopeMove DEF GoesOn
  <2>3. ASSUME NEW batch \in SUBSET job[j].plan, NEW missed \in SUBSET batch,
               DeleteBatch(j, batch, missed)
        PROVE  \A k \in Jobs : job[k].missed \subseteq job'[k].missed
    BY <2>3, BatchMove
  <2>4. ASSUME NEW e \in Events, ListEvents(j, session_of[e]) \/ DeleteEvent(j, e)
        PROVE  \A k \in Jobs : job[k].missed \subseteq job'[k].missed
    BY <2>4, ListEventsMove, DeleteEventMove DEF GoesOn
  <2>5. CASE \/ LogBatch(j) \/ DropVerdict(j) \/ EndSweep(j) \/ ListSessions(j)
             \/ AppendCert(j) \/ put_certificate(j)
    BY <2>5, LogBatchMove, DropVerdictMove, EndSweepMove, ListSessionsMove,
       AppendCertMove, CertificateMove DEF GoesOn
  <2>6. CASE JobRaises(j)
    BY <2>6, RaiseMove
  <2> QED
    BY <1>2, <2>1, <2>2, <2>3, <2>4, <2>5, <2>6 DEF JobNext
<1>3. ASSUME NEW w \in Writers, WriterNext(w)  PROVE job' = job
  BY <1>3 DEF WriterNext, BackendPut, PutEnvelope, FinishWrite
<1>4. ASSUME NEW s \in Scanners, ScannerNext(s)  PROVE job' = job
  BY <1>4 DEF ScannerNext, Receive, ReceiveDelete, Bind, PutVerdict, DeleteVerdict,
     Acknowledge, ScanRaises, ScannerTo
<1>5. CASE Environment \/ UNCHANGED vars
  BY <1>1, <1>5 DEF Environment, ExtractionCreate, BackendUpdate, Propagate, set_legal_hold,
     create_event, Tick, vars
<1> QED
  BY <1>1, <1>2, <1>3, <1>4, <1>5 DEF Next

\* A deleted record does not come back.
LEMMA LostStays ==
  ASSUME TypeOK, SeenInv, [Next]_vars, NEW r \in Records, Lost(r)
  PROVE  Lost(r)'
<1>1. CASE Missed(r)
  BY <1>1, MissedStays DEF Lost, Missed
<1>2. CASE store[r] = None /\ r \in born
  <2>1. CASE store' = store /\ stream' = stream /\ born \subseteq born'
    BY <1>2, <2>1 DEF Lost
  <2>2. ASSUME NEW q \in Records, q \notin born, born' = born \cup {q},
               store' = [store EXCEPT ![q] = 0]
        PROVE  Lost(r)'
    BY <1>2, <2>2 DEF Lost, TypeOK
  <2>3. ASSUME NEW q \in Records, BackendUpdate(q), born' = born
        PROVE  Lost(r)'
    BY <1>2, <2>3 DEF Lost, TypeOK, BackendUpdate
  <2>4. ASSUME NEW s \in Scanners, Acknowledge(s), born' = born
        PROVE  Lost(r)'
    BY <1>2, <2>4 DEF Lost, Acknowledge
  <2>5. ASSUME NEW j \in Jobs, NEW batch, NEW missed, DeleteBatch(j, batch, missed), born' = born
        PROVE  Lost(r)'
    BY <1>2, <2>5 DEF Lost, DeleteBatch, Removes
  <2> QED
    BY <2>1, <2>2, <2>3, <2>4, <2>5, BackendSteps
<1> QED
  BY <1>1, <1>2 DEF Lost

LEMMA SeenStep ==
  TypeOK /\ StoredBorn /\ OneConsumer /\ RowsBorn /\ SeenInv /\ [Next]_vars => SeenInv'
<1> SUFFICES ASSUME TypeOK, StoredBorn, OneConsumer, RowsBorn, SeenInv, [Next]_vars
             PROVE  SeenInv'
  OBVIOUS
<1> USE DEF backend, tables, locals, threads, history
<1>a. \A r \in Records : Lost(r) => Lost(r)'
  BY LostStays
<1>b. \A k \in Jobs : Sees(k)
  BY DEF SeenInv
<1>c. job' = job => \A k \in Jobs : Keeps(k)
  BY DEF Keeps
<1>1. CASE job' = job /\ rows' = rows /\ indexed' = indexed /\ due' = due
  BY <1>a, <1>c, <1>1, SeenFrame
<1>2. ASSUME NEW r \in Records, Propagate(r)  PROVE SeenInv'
  BY <1>2, <1>a, <1>c, SeenFrame DEF Propagate
<1>3. ASSUME NEW r \in Records, NEW hold \in BOOLEAN, set_legal_hold(r, hold)  PROVE SeenInv'
  <2> DEFINE row == IF rows[r] = None THEN [legal_hold |-> hold]
                    ELSE [rows[r] EXCEPT !.legal_hold = hold]
  <2>1. Readable(rows[r]) => Readable(row)
    BY ReadableRow, EnvelopeFacts DEF TypeOK, Readable
  <2>2. PutRow(r, row) /\ job' = job
    BY <1>3 DEF set_legal_hold
  <2> HIDE DEF row
  <2> QED
    BY <2>1, <2>2, <1>a, <1>c, SeenFrame
<1>4. ASSUME NEW w \in Writers, PutEnvelope(w)  PROVE SeenInv'
  <2>1. writer[w].rec \in Records /\ writer[w].env \in Envelope
    BY <1>4 DEF PutEnvelope, TypeOK, WriterState, IdleThread
  <2>2. Readable(writer[w].env)
    BY <2>1, EnvelopeFacts
  <2> QED
    BY <1>4, <2>1, <2>2, <1>a, <1>c, SeenFrame DEF PutEnvelope
<1>5. ASSUME NEW s \in Scanners, Bind(s)  PROVE SeenInv'
  <2>1. scanner[s].rec \in Records /\ scanner[s].env \in Envelope
    <3>1. PICK st : st = scanner[s]
      OBVIOUS
    <3>2. st \in ScannerState /\ st.pc = "bind"
      BY <1>5, <3>1 DEF Bind, TypeOK
    <3>3. st.rec \in Records /\ st.env \in Envelope
      BY <3>2 DEF ScannerState, IdleThread
    <3> QED
      BY <3>1, <3>3
  <2>2. Readable(scanner[s].env)
    BY <2>1, EnvelopeFacts
  <2> QED
    BY <1>5, <2>1, <2>2, <1>a, <1>c, SeenFrame DEF Bind
<1>6. ASSUME NEW s \in Scanners, NEW r \in Records, ReceiveDelete(s, r)  PROVE SeenInv'
  <2>1. Lost(r)
    <3>1. PICK log : log = stream[r]
      OBVIOUS
    <3>2. log \in Seq(RecordEvent) /\ log # <<>> /\ Head(log).event_type = "DELETE"
      BY <1>6, <3>1 DEF ReceiveDelete, Deliverable, TypeOK
    <3>3. 1 \in DOMAIN log /\ log[1] = Head(log)
      BY <3>2
    <3> QED
      BY <3>1, <3>2, <3>3 DEF StoredBorn, Lost
  <2> QED
    BY <1>6, <2>1, <1>a, <1>c, SeenFrame DEF ReceiveDelete
<1>7. ASSUME NEW j \in Jobs, NEW r \in Records, DropEnvelope(j, r)  PROVE SeenInv'
  <2>1. Lost(r) /\ job[j].pc = "delete" /\ PutRow(r, None)
    BY <1>7, <1>b DEF DropEnvelope, Sees
  <2>2. \A k \in Jobs : Keeps(k)
    BY <1>7, <2>1, DropEnvelopeMove, KeepsAll
  <2> QED
    BY <2>1, <2>2, <1>a, SeenFrame
<1>8. ASSUME NEW j \in Jobs, StartJob(j)  PROVE SeenInv'
  <2>1. /\ rows' = rows /\ indexed' = indexed
        /\ due'[j] = {r \in Records : IsDue(j, r, indexed[r], clock) /\ IsDue(j, r, rows[r], clock)}
        /\ \A k \in Jobs \ {j} : due'[k] = due[k]
    BY <1>8 DEF StartJob, TypeOK
  <2>2. Sees(j)'
    BY <1>8, <2>1, StartMove DEF Sees, Awaits, Walked
  <2>3. ASSUME NEW k \in Jobs \ {j}  PROVE Sees(k)'
    <3>1. job'[k] = job[k] /\ due'[k] = due[k]
      BY <1>8, <2>1, StartMove
    <3>2. job[k].purge \subseteq Records /\ due[k] \subseteq Records
      BY DEF TypeOK, JobState
    <3> QED
      BY <1>a, <1>b, <2>1, <3>1, <3>2 DEF Sees, Awaits, Walked
  <2> QED
    BY <2>2, <2>3 DEF SeenInv
<1>9. ASSUME NEW j \in Jobs, JobRaises(j)  PROVE SeenInv'
  <2>1. /\ rows' = rows /\ indexed' = indexed /\ due'[j] = {}
        /\ \A k \in Jobs \ {j} : due'[k] = due[k]
    BY <1>9 DEF JobRaises, TypeOK
  <2>2. Sees(j)'
    BY <1>9, <2>1, RaiseMove DEF Sees
  <2>3. ASSUME NEW k \in Jobs \ {j}  PROVE Sees(k)'
    <3>1. job'[k] = job[k] /\ due'[k] = due[k]
      BY <1>9, <2>1, RaiseMove
    <3>2. job[k].purge \subseteq Records /\ due[k] \subseteq Records
      BY DEF TypeOK, JobState
    <3> QED
      BY <1>a, <1>b, <2>1, <3>1, <3>2 DEF Sees, Awaits, Walked
  <2> QED
    BY <2>2, <2>3 DEF SeenInv
<1>10. ASSUME NEW j \in Jobs, NEW r \in Records, ReadRow(j, r)  PROVE SeenInv'
  <2>1. rows' = rows /\ indexed' = indexed /\ due' = due
    BY <1>10 DEF ReadRow, JobTo
  <2>2. \A k \in Jobs : job[k].purge \subseteq Records /\ due[k] \subseteq Records
    BY DEF TypeOK, JobState
  <2>3. Sees(j)'
    <3>1. /\ job[j].pc = "walk" /\ r \in job[j].unread
          /\ job'[j].pc = IF job[j].unread = {r} THEN "delete" ELSE "walk"
          /\ job'[j].unread = job[j].unread \ {r} /\ job'[j].now = job[j].now
          /\ job'[j].purge = job[j].purge
      BY <1>10, ReadMove
    <3>2. /\ \A q \in job[j].held \cup job[j].plan : q \in job'[j].held \cup job'[j].plan
          /\ Walked(j, r, indexed[r]) => r \in job'[j].held \cup job'[j].plan
      BY <1>10, ReadMove
    <3>3. ASSUME NEW q \in due[j], ~Lost(q)  PROVE Awaits(j, q)'
      BY <1>b, <2>1, <3>1, <3>2, <3>3 DEF Sees, Awaits, Walked
    <3>4. \A q \in due'[j] : Lost(q)' \/ Awaits(j, q)'
      BY <1>a, <2>1, <2>2, <3>3
    <3> QED
      BY <1>a, <1>b, <2>1, <2>2, <3>1, <3>4 DEF Sees
  <2>4. ASSUME NEW k \in Jobs \ {j}  PROVE Sees(k)'
    <3>1. job'[k] = job[k]
      BY <1>10, ReadMove
    <3> QED
      BY <1>a, <1>b, <2>1, <2>2, <3>1 DEF Sees, Awaits, Walked
  <2> QED
    BY <2>3, <2>4 DEF SeenInv
<1>11. ASSUME NEW j \in Jobs, NEW batch \in SUBSET job[j].plan, NEW missed \in SUBSET batch,
              DeleteBatch(j, batch, missed)
       PROVE  SeenInv'
  <2>1. rows' = rows /\ indexed' = indexed /\ due' = due
    BY <1>11 DEF DeleteBatch, Removes
  <2>2. \A k \in Jobs : job[k].purge \subseteq Records /\ due[k] \subseteq Records
    BY DEF TypeOK, JobState
  <2>3. PICK removed : removed = {r \in batch \ missed : store[r] # None}
    OBVIOUS
  <2>4. /\ job[j].pc = "delete" /\ job'[j].pc = IF j \in Sweepers THEN "log" ELSE "delete"
        /\ job'[j].plan = job[j].plan \ batch /\ job'[j].purge = job[j].purge \cup batch
        /\ job'[j].missed = job[j].missed \cup missed
        /\ job'[j].now = job[j].now /\ job'[j].unread = job[j].unread
        /\ job'[j].held = job[j].held /\ \A k \in Jobs \ {j} : job'[k] = job[k]
    BY <1>11, <2>3, BatchMove
  <2>5. ASSUME NEW r \in batch  PROVE Lost(r)'
    <3>1. r \in born /\ r \in Records
      BY DEF RowsBorn, TypeOK, JobState
    <3>2. CASE r \in missed
      BY <2>4, <3>2 DEF Lost, Missed
    <3>3. CASE r \in removed
      <4>1. store'[r] = None /\ born' = born
        BY <1>11, <2>3, <3>1, <3>3 DEF DeleteBatch, Removes
      <4> QED
        BY <3>1, <4>1 DEF Lost
    <3>4. CASE store[r] = None
      BY <1>a, <3>1, <3>4 DEF Lost
    <3> QED
      BY <2>3, <3>2, <3>3, <3>4
  <2>6. Sees(j)'
    <3>1. ASSUME NEW q \in due[j], ~Lost(q), q \notin batch  PROVE Awaits(j, q)'
      BY <1>b, <2>1, <2>4, <3>1 DEF Sees, Awaits, Walked
    <3>2. \A q \in due'[j] : Lost(q)' \/ Awaits(j, q)'
      BY <1>a, <2>1, <2>2, <2>5, <3>1
    <3>3. \A q \in job'[j].purge : Lost(q)'
      BY <1>a, <1>b, <2>2, <2>4, <2>5 DEF Sees
    <3> QED
      BY <1>b, <2>4, <3>2, <3>3 DEF Sees
  <2>7. ASSUME NEW k \in Jobs \ {j}  PROVE Sees(k)'
    <3>1. job'[k] = job[k]
      BY <2>4
    <3> QED
      BY <1>a, <1>b, <2>1, <2>2, <3>1 DEF Sees, Awaits, Walked
  <2> QED
    BY <2>6, <2>7 DEF SeenInv
<1>12. ASSUME NEW j \in Jobs,
              \/ \E e \in Events : ListEvents(j, session_of[e]) \/ DeleteEvent(j, e)
              \/ LogBatch(j) \/ DropVerdict(j) \/ EndSweep(j) \/ ListSessions(j)
              \/ AppendCert(j) \/ put_certificate(j)
       PROVE  SeenInv'
  <2>1. rows' = rows /\ indexed' = indexed /\ due' = due
    BY <1>12 DEF ListEvents, DeleteEvent, LogBatch, DropVerdict, EndSweep, ListSessions,
       AppendCert, put_certificate, JobTo
  <2>2. GoesOn(j) /\ job'[j].pc \notin {"idle", "walk", "raised"}
    BY <1>12, ListEventsMove, DeleteEventMove, LogBatchMove, DropVerdictMove, EndSweepMove,
       ListSessionsMove, AppendCertMove, CertificateMove
  <2>3. job[j].pc \in {"delete", "log", "verdict", "events", "cert"}
    BY <1>12 DEF ListEvents, DeleteEvent, LogBatch, DropVerdict, EndSweep, ListSessions,
       AppendCert, put_certificate, RecordsDone
  <2>4. job'[j].pc \in {"events", "cert", "done"} => job[j].plan = {}
    <3>1. CASE LogBatch(j) \/ DropVerdict(j)
      BY <3>1, LogBatchMove, DropVerdictMove
    <3>2. CASE EndSweep(j) \/ ListSessions(j)
      BY <3>2 DEF EndSweep, ListSessions, RecordsDone
    <3>3. CASE \/ \E e \in Events : ListEvents(j, session_of[e]) \/ DeleteEvent(j, e)
               \/ AppendCert(j) \/ put_certificate(j)
      <4>1. job[j].pc \in {"events", "cert"}
        BY <3>3 DEF ListEvents, DeleteEvent, AppendCert, put_certificate
      <4> QED
        BY <1>b, <4>1 DEF Sees
    <3> QED
      BY <1>12, <3>1, <3>2, <3>3
  <2>5. \A k \in Jobs : Keeps(k)
    BY <2>2, <2>3, <2>4, KeepsAll
  <2> QED
    BY <1>a, <2>1, <2>5, SeenFrame
<1>13. ASSUME NEW r \in Records, ExtractionCreate(r) \/ BackendUpdate(r)  PROVE SeenInv'
  BY <1>13, <1>1 DEF ExtractionCreate, BackendUpdate
<1>14. ASSUME NEW e \in Events, create_event(e)  PROVE SeenInv'
  BY <1>14, <1>1 DEF create_event
<1>15. ASSUME NEW w \in Writers, FinishWrite(w) \/ \E r \in Records : BackendPut(w, r)
       PROVE  SeenInv'
  BY <1>15, <1>1 DEF FinishWrite, BackendPut
<1>16. ASSUME NEW s \in Scanners,
              \/ \E r \in Records : Receive(s, r)
              \/ PutVerdict(s) \/ DeleteVerdict(s) \/ Acknowledge(s) \/ ScanRaises(s)
       PROVE  SeenInv'
  BY <1>16, <1>1 DEF Receive, PutVerdict, DeleteVerdict, Acknowledge, ScanRaises, ScannerTo
<1>17. CASE Tick \/ UNCHANGED vars
  BY <1>17, <1>1 DEF Tick, vars
<1> QED
  BY <1>2, <1>3, <1>4, <1>5, <1>6, <1>7, <1>8, <1>9, <1>10, <1>11, <1>12, <1>13, <1>14,
     <1>15, <1>16, <1>17
  DEF Next, Environment, WriterNext, ScannerNext, JobNext

-----------------------------------------------------------------------------
(* What an erasure leaves of the events of its subject.                    *)

\* An event that an erasure found is on one of its lists.
Listed(j, e) ==
  /\ j \in Erasers /\ speaker_of[e] = subject[j] /\ job[j].pc \notin {"cert", "done"}
  /\ job[j].pc = "events" => e \in job[j].doomed \/ session_of[e] \in job[j].sessions

EventInv ==
  \A j \in Jobs :
    /\ job[j].due_events \subseteq born
    /\ \A e \in job[j].due_events \cap events : Listed(j, e)

\* Events of other actors and later ones are not on any erasure's account.
LEMMA EventFrame ==
  ASSUME EventInv, born \subseteq born', events' \cap born \subseteq events,
         NEW k \in Jobs, job'[k].due_events = job[k].due_events,
         \/ job'[k].pc = job[k].pc /\ job'[k].doomed = job[k].doomed
            /\ job'[k].sessions = job[k].sessions
         \/ job'[k].pc \notin {"events", "cert", "done"}
         \/ \A e \in job[k].due_events \cap events' : Listed(k, e) => Listed(k, e)'
  PROVE  /\ job'[k].due_events \subseteq born'
         /\ \A e \in job'[k].due_events \cap events' : Listed(k, e)'
<1>1. ASSUME NEW e \in job'[k].due_events \cap events'  PROVE Listed(k, e)'
  <2>1. e \in job[k].due_events \cap events /\ Listed(k, e)
    BY <1>1 DEF EventInv
  <2> QED
    BY <1>1, <2>1 DEF Listed
<1> QED
  BY <1>1 DEF EventInv

LEMMA EventStep == TypeOK /\ RowsBorn /\ EventInv /\ [Next]_vars => EventInv'
<1> SUFFICES ASSUME TypeOK, RowsBorn, EventInv, [Next]_vars  PROVE EventInv'
  OBVIOUS
<1> USE DEF backend, tables, locals, threads, history
<1>a. events \subseteq born /\ events \subseteq Events
  BY DEF RowsBorn, TypeOK
<1>1. CASE job' = job /\ born \subseteq born' /\ events' \cap born \subseteq events
  BY <1>1, EventFrame DEF EventInv
<1>2. ASSUME NEW w \in Writers, WriterNext(w)  PROVE EventInv'
  BY <1>2, <1>1 DEF WriterNext, BackendPut, PutEnvelope, FinishWrite
<1>3. ASSUME NEW s \in Scanners, ScannerNext(s)  PROVE EventInv'
  BY <1>3, <1>1 DEF ScannerNext, Receive, ReceiveDelete, Bind, PutVerdict, DeleteVerdict,
     Acknowledge, ScanRaises, ScannerTo
<1>4. CASE Environment \/ UNCHANGED vars
  <2>1. ASSUME NEW e \in Events, create_event(e)  PROVE EventInv'
    BY <2>1, <1>1 DEF create_event
  <2> QED
    BY <1>1, <1>4, <2>1 DEF Environment, ExtractionCreate, BackendUpdate, Propagate,
       set_legal_hold, Tick, vars
<1>5. ASSUME NEW j \in Jobs, JobNext(j)  PROVE EventInv'
  <2>1. ASSUME born' = born, events' \subseteq events, \A k \in Jobs \ {j} : job'[k] = job[k],
               job'[j].due_events \subseteq born,
               \A e \in job'[j].due_events \cap events' : Listed(j, e)'
        PROVE  EventInv'
    BY <2>1, EventFrame DEF EventInv
  <2>2. ASSUME GoesOn(j), born' = born, events' \subseteq events,
               \A e \in job[j].due_events \cap events' : Listed(j, e) => Listed(j, e)'
        PROVE  EventInv'
    <3>1. /\ \A k \in Jobs \ {j} : job'[k] = job[k]
          /\ job'[j].due_events = job[j].due_events
      BY <2>2 DEF GoesOn
    <3> QED
      BY <2>1, <2>2, <3>1 DEF EventInv
  <2>3. CASE StartJob(j)
    <3>1. born' = born /\ events' = events
      BY <2>3 DEF StartJob
    <3> QED
      BY <1>a, <2>1, <2>3, <3>1, StartMove DEF Listed
  <2>4. CASE JobRaises(j)
    <3>1. born' = born /\ events' = events
      BY <2>4 DEF JobRaises
    <3> QED
      BY <1>a, <2>1, <2>4, <3>1, RaiseMove
  <2>5. ASSUME NEW r \in Records, ReadRow(j, r)  PROVE EventInv'
    <3>1. born' = born /\ events' = events
      BY <2>5 DEF ReadRow, JobTo
    <3> QED
      BY <2>1, <2>5, <3>1, ReadMove DEF EventInv, Listed
  <2>6. ASSUME NEW batch \in SUBSET job[j].plan, NEW missed \in SUBSET batch,
               DeleteBatch(j, batch, missed)
        PROVE  EventInv'
    <3>1. born' = born /\ events' = events
      BY <2>6 DEF DeleteBatch, Removes
    <3>2. /\ job'[j].pc \in {"log", "delete"} /\ job'[j].due_events = job[j].due_events
          /\ \A k \in Jobs \ {j} : job'[k] = job[k]
      BY <2>6, BatchMove
    <3> QED
      BY <2>1, <3>1, <3>2 DEF EventInv, Listed
  <2>7. ASSUME NEW r \in Records, DropEnvelope(j, r)  PROVE EventInv'
    <3>1. born' = born /\ events' = events
      BY <2>7 DEF DropEnvelope
    <3> QED
      BY <2>2, <2>7, <3>1, DropEnvelopeMove DEF Listed
  <2>8. CASE LogBatch(j) \/ DropVerdict(j)
    <3>1. born' = born /\ events' = events
      BY <2>8 DEF LogBatch, DropVerdict
    <3> QED
      BY <2>2, <2>8, <3>1, LogBatchMove, DropVerdictMove DEF Listed
  <2>9. CASE EndSweep(j)
    <3>1. born' = born /\ events' = events /\ j \notin Erasers
      BY <2>9, ErasureAssumption DEF EndSweep, JobTo
    <3> QED
      BY <2>2, <2>9, <3>1, EndSweepMove DEF Listed
  <2>10. CASE ListSessions(j)
    <3>1. born' = born /\ events' = events
      BY <2>10 DEF ListSessions, JobTo
    <3>2. ASSUME NEW e \in job[j].due_events \cap events', Listed(j, e)  PROVE Listed(j, e)'
      <4>1. session_of[e] \in job'[j].sessions
        BY <2>10, <3>1, <3>2, ListSessionsMove DEF Listed
      <4> QED
        BY <2>10, <3>2, <4>1, ListSessionsMove DEF Listed
    <3> QED
      BY <2>2, <2>10, <3>1, <3>2, ListSessionsMove
  <2>11. ASSUME NEW d \in Events, ListEvents(j, session_of[d])  PROVE EventInv'
    <3>1. born' = born /\ events' = events /\ job[j].pc = "events" /\ job[j].doomed = {}
      BY <2>11 DEF ListEvents, JobTo
    <3>2. ASSUME NEW e \in job[j].due_events \cap events', Listed(j, e)  PROVE Listed(j, e)'
      <4>1. session_of[e] \in job'[j].sessions \/ e \in job'[j].doomed
        BY <2>11, <3>1, <3>2, ListEventsMove DEF Listed
      <4> QED
        BY <2>11, <3>2, <4>1, ListEventsMove DEF Listed
    <3> QED
      BY <2>2, <2>11, <3>1, <3>2, ListEventsMove
  <2>12. ASSUME NEW d \in Events, DeleteEvent(j, d)  PROVE EventInv'
    <3>1. born' = born /\ events' = events \ {d} /\ job[j].pc = "events"
      BY <2>12 DEF DeleteEvent
    <3> QED
      BY <2>2, <2>12, <3>1, DeleteEventMove DEF Listed
  <2>13. CASE AppendCert(j)
    <3>1. /\ born' = born /\ events' = events /\ job[j].pc = "events"
          /\ job[j].sessions = {} /\ job[j].doomed = {}
      BY <2>13 DEF AppendCert
    <3> QED
      BY <2>2, <2>13, <3>1, AppendCertMove DEF Listed
  <2>14. CASE put_certificate(j)
    <3>1. born' = born /\ events' = events /\ job[j].pc = "cert"
      BY <2>14 DEF put_certificate
    <3> QED
      BY <2>2, <2>14, <3>1, CertificateMove DEF Listed
  <2> QED
    BY <1>5, <2>3, <2>4, <2>5, <2>6, <2>7, <2>8, <2>9, <2>10, <2>11, <2>12, <2>13, <2>14
    DEF JobNext
<1> QED
  BY <1>2, <1>3, <1>4, <1>5 DEF Next

OutcomeInv == StoredBorn /\ RowsBorn /\ SeenInv /\ EventInv

LEMMA OutcomeInit == Init => OutcomeInv
<1> SUFFICES ASSUME Init  PROVE OutcomeInv
  OBVIOUS
<1>1. StoredBorn
  BY DEF Init, StoredBorn
<1>2. RowsBorn
  BY DEF Init, RowsBorn, IdleJob
<1>3. SeenInv
  BY DEF Init, SeenInv, Sees, IdleJob
<1>4. EventInv
  BY DEF Init, EventInv, IdleJob
<1> QED
  BY <1>1, <1>2, <1>3, <1>4 DEF OutcomeInv

LEMMA OutcomeImplies == TypeOK /\ OutcomeInv => NothingOverlooked
<1> SUFFICES ASSUME TypeOK, OutcomeInv, NEW j \in Jobs
             PROVE  /\ job[j].pc \in {"events", "cert", "done"} =>
                         \A r \in due[j] : store[r] = None \/ r \in job[j].held \/ Missed(r)
                    /\ job[j].pc \in {"cert", "done"} => job[j].due_events \cap events = {}
  BY DEF NothingOverlooked
<1>1. ASSUME job[j].pc \in {"events", "cert", "done"}, NEW r \in due[j]
      PROVE  store[r] = None \/ r \in job[j].held \/ Missed(r)
  <2>1. Sees(j) /\ job[j].unread = {} /\ job[j].plan = {}
    BY <1>1 DEF OutcomeInv, SeenInv, Sees
  <2> QED
    BY <1>1, <2>1 DEF Sees, Lost, Awaits
<1>2. ASSUME job[j].pc \in {"cert", "done"}  PROVE job[j].due_events \cap events = {}
  BY <1>2 DEF OutcomeInv, EventInv, Listed
<1> QED
  BY <1>1, <1>2

\* governed.py:223, sweep.py:22: an erasure that comes to its events, and a sweep
\* that ends, leave of the records their part of the index showed from their
\* beginning on only what was held and what a batch_delete missed; an erasure
\* that is certified leaves no event of its subject older than it.
THEOREM NothingEverOverlooked == Spec => []NothingOverlooked
<1>1. Init => TypeInv /\ OutcomeInv
  BY TypeInit, OutcomeInit DEF Init, OneConsumer, TypeInv
<1>2. TypeInv /\ OutcomeInv /\ [Next]_vars => (TypeInv /\ OutcomeInv)'
  BY TypeStep, ConsumerStep, StoredStep, RowsStep, SeenStep, EventStep DEF TypeInv, OutcomeInv
<1>3. TypeInv /\ OutcomeInv => NothingOverlooked
  BY OutcomeImplies DEF TypeInv
<1> QED
  BY <1>1, <1>2, <1>3, PTL DEF Spec

-----------------------------------------------------------------------------
(* What is left of an erased record.                                       *)

\* A consumer that has read no envelope is at a DELETE event.
AtHead(s) ==
  scanner[s] # IdleThread =>
    (scanner[s].env = None <=> Head(stream[scanner[s].rec]).event_type = "DELETE")

\* An erased record is nowhere but in the tables, and its DELETE event is the last
\* of its stream; whoever handles that event has dropped the envelope, and
\* once through with it the verdict.  A hold may have been set since.
Forgets(r) ==
  r \in erased =>
    /\ store[r] = None /\ r \in born /\ ~Writing(r)
    /\ stream[r] = <<>> => ~Readable(rows[r]) /\ r \notin verdicts
    /\ stream[r] # <<>> => stream[r][Len(stream[r])].event_type = "DELETE"
    /\ \A s \in Scanners :
         scanner[s] # IdleThread /\ scanner[s].rec = r /\ scanner[s].env = None =>
           ~Readable(rows[r]) /\ (scanner[s].pc = "ack" => r \notin verdicts)

ForgetInv == (\A s \in Scanners : AtHead(s)) /\ \A r \in Records : Forgets(r)

LEMMA AppendedLog ==
  ASSUME NEW log \in Seq(RecordEvent), NEW e \in RecordEvent
  PROVE  /\ Append(log, e) # <<>> /\ Append(log, e)[Len(Append(log, e))] = e
         /\ log # <<>> => Head(Append(log, e)) = Head(log)
<1>1. Append(log, e) \in Seq(RecordEvent) /\ Len(Append(log, e)) = Len(log) + 1
  OBVIOUS
<1>2. Append(log, e)[Len(log) + 1] = e
  OBVIOUS
<1>3. ASSUME log # <<>>  PROVE Append(log, e)[1] = log[1]
  <2>1. Len(log) \in Nat /\ Len(log) # 0
    BY <1>3
  <2>2. 1 \in 1..Len(log)
    BY <2>1
  <2> QED
    BY <2>2
<1>4. Append(log, e) # <<>>
  BY AppendNonempty
<1>5. \A q \in Seq(RecordEvent) : q # <<>> => Head(q) = q[1]
  OBVIOUS
<1> QED
  BY <1>1, <1>2, <1>3, <1>4, <1>5

LEMMA TailLog ==
  ASSUME NEW log \in Seq(RecordEvent), log # <<>>
  PROVE  /\ Tail(log) = <<>> => log[Len(log)] = Head(log)
         /\ Tail(log) # <<>> => Tail(log)[Len(Tail(log))] = log[Len(log)]
<1>1. Tail(log) \in Seq(RecordEvent) /\ Len(Tail(log)) = Len(log) - 1 /\ Len(log) \in Nat \ {0}
  OBVIOUS
<1>2. ASSUME Tail(log) = <<>>  PROVE Len(log) = 1
  <2>1. PICK rest, n : rest = Tail(log) /\ n = Len(log)
    OBVIOUS
  <2>2. rest = <<>> /\ Len(rest) = n - 1 /\ n \in Nat
    BY <1>1, <1>2, <2>1
  <2>3. Len(rest) = 0
    BY <2>2
  <2>4. n = 1
    BY <2>2, <2>3
  <2> QED
    BY <2>1, <2>4
<1>4. Head(log) = log[1]
  OBVIOUS
<1>3. ASSUME Tail(log) # <<>>  PROVE Tail(log)[Len(log) - 1] = log[Len(log)]
  <2>1. Len(Tail(log)) # 0
    BY <1>1, <1>3
  <2> QED
    BY <1>1, <2>1
<1> QED
  BY <1>1, <1>2, <1>3, <1>4

\* A step that leaves a record's stream alone and adds nothing to what its tables,
\* its writers and the consumer of a DELETE event have of it.
LEMMA ForgetsStill ==
  ASSUME NEW r \in Records, Forgets(r), r \in erased' => r \in erased,
         store'[r] = store[r], stream'[r] = stream[r], born \subseteq born',
         Writing(r)' => Writing(r),
         Readable(rows'[r]) => Readable(rows[r]), r \in verdicts' => r \in verdicts,
         \A s \in Scanners :
           \/ scanner'[s] = scanner[s] \/ scanner'[s] = IdleThread
           \/ scanner'[s].rec # r \/ scanner'[s].env # None
  PROVE  Forgets(r)'
BY DEF Forgets, Readable

\* A hold makes no envelope of a row that is none.
LEMMA HoldReadable ==
  ASSUME NEW row \in Row, NEW hold \in BOOLEAN,
         Readable(IF row = None THEN [legal_hold |-> hold]
                  ELSE [row EXCEPT !.legal_hold = hold])
  PROVE  Readable(row)
<1>1. CASE row = None
  BY <1>1 DEF Readable
<1>2. CASE row # None /\ row \in Envelope
  BY <1>2, EnvelopeFacts
<1>3. CASE row # None /\ row \in HoldOnly
  BY <1>3 DEF HoldOnly, Readable
<1> QED
  BY <1>1, <1>2, <1>3 DEF Row

\* What the two of them need of the types.
LEMMA ScannerFacts ==
  ASSUME TypeOK, NEW s \in Scanners, scanner[s] # IdleThread
  PROVE  /\ scanner[s].rec \in Records
         /\ scanner[s].pc \in {"bind", "judge"} => scanner[s].env # None
         /\ scanner[s].pc = "delete" => scanner[s].env = None
         /\ \A pc : /\ [scanner[s] EXCEPT !.pc = pc].pc = pc
                    /\ [scanner[s] EXCEPT !.pc = pc].rec = scanner[s].rec
                    /\ [scanner[s] EXCEPT !.pc = pc].env = scanner[s].env
BY NoneAssumption DEF TypeOK, ScannerState

\* The head of a stream changes with the acknowledgement of its consumer.
LEMMA HeadStays ==
  ASSUME TypeOK, StoredBorn, [Next]_vars, NEW r \in Records, stream[r] # <<>>,
         \A s \in Scanners : Acknowledge(s) => scanner[s].rec # r
  PROVE  stream'[r] # <<>> /\ Head(stream'[r]) = Head(stream[r])
<1>a. stream \in [Records -> Seq(RecordEvent)] /\ clock \in Nat /\ 0 \in Versions
  BY ErasureAssumption DEF TypeOK, Versions
<1>1. ASSUME NEW q \in Records, NEW type \in {"CREATE", "UPDATE"}, NEW v \in Versions,
             emit(q, type, v)
      PROVE  stream'[r] # <<>> /\ Head(stream'[r]) = Head(stream[r])
  <2>1. PICK e : e = [event_type |-> type, version |-> v, ts |-> clock]
    OBVIOUS
  <2>2. e \in RecordEvent /\ stream' = [stream EXCEPT ![q] = Append(stream[q], e)]
    BY <1>1, <1>a, <2>1 DEF RecordEvent, emit
  <2> QED
    BY <1>a, <2>2, AppendedLog
<1>2. ASSUME NEW q \in Records, BackendUpdate(q)
      PROVE  stream'[r] # <<>> /\ Head(stream'[r]) = Head(stream[r])
  <2>1. store[q] + 1 \in Versions
    BY <1>2, ErasureAssumption DEF BackendUpdate, TypeOK, Versions
  <2> QED
    BY <1>1, <1>2, <2>1 DEF BackendUpdate
<1>3. ASSUME NEW s \in Scanners, Acknowledge(s)
      PROVE  stream'[r] # <<>> /\ Head(stream'[r]) = Head(stream[r])
  BY <1>3 DEF Acknowledge, TypeOK
<1>4. ASSUME NEW j \in Jobs, NEW batch \in SUBSET job[j].plan, NEW missed \in SUBSET batch,
             DeleteBatch(j, batch, missed)
      PROVE  stream'[r] # <<>> /\ Head(stream'[r]) = Head(stream[r])
  <2>1. PICK e : e = [event_type |-> "DELETE", version |-> store[r], ts |-> clock]
    OBVIOUS
  <2>2. stream'[r] = stream[r] \/ (store[r] # None /\ stream'[r] = Append(stream[r], e))
    BY <1>4, <2>1 DEF DeleteBatch, Removes
  <2>3. store[r] # None => e \in RecordEvent
    BY <1>a, <2>1 DEF TypeOK, RecordEvent
  <2> QED
    BY <1>a, <2>2, <2>3, AppendedLog
<1> QED
  BY <1>1, <1>2, <1>3, <1>4, <1>a, BackendSteps

\* What a step does to a consumer.
LEMMA ScannerSteps ==
  ASSUME TypeOK, [Next]_vars, NEW s \in Scanners
  PROVE  \/ scanner'[s] = scanner[s] \/ scanner'[s] = IdleThread
         \/ \E r \in Records : Receive(s, r) \/ ReceiveDelete(s, r)
         \/ /\ scanner[s] # IdleThread
            /\ scanner'[s].rec = scanner[s].rec /\ scanner'[s].env = scanner[s].env
<1> USE DEF backend, tables, locals, threads, history
<1>1. CASE Environment
  BY <1>1 DEF Environment, ExtractionCreate, BackendUpdate, Propagate, set_legal_hold,
     create_event, Tick
<1>2. ASSUME NEW w \in Writers, WriterNext(w)  PROVE scanner' = scanner
  BY <1>2 DEF WriterNext, BackendPut, PutEnvelope, FinishWrite
<1>3. ASSUME NEW t \in Scanners, Bind(t) \/ PutVerdict(t) \/ DeleteVerdict(t)
      PROVE  \/ scanner'[s] = scanner[s]
             \/ /\ scanner[s] # IdleThread
                /\ scanner'[s].rec = scanner[s].rec /\ scanner'[s].env = scanner[s].env
  <2>1. scanner[t] # IdleThread
    BY <1>3 DEF Bind, PutVerdict, DeleteVerdict, IdleThread
  <2>2. \E pc : scanner' = [scanner EXCEPT ![t].pc = pc]
    BY <1>3 DEF Bind, PutVerdict, DeleteVerdict
  <2> QED
    BY <2>1, <2>2, ScannerFacts DEF TypeOK
<1>4. ASSUME NEW t \in Scanners, ScannerNext(t), ~Bind(t), ~PutVerdict(t), ~DeleteVerdict(t)
      PROVE  \/ scanner'[s] = scanner[s] \/ scanner'[s] = IdleThread
             \/ \E r \in Records : Receive(s, r) \/ ReceiveDelete(s, r)
  <2>1. ASSUME NEW r \in Records, Receive(t, r) \/ ReceiveDelete(t, r), t # s
        PROVE  scanner'[s] = scanner[s]
    BY <2>1 DEF Receive, ReceiveDelete, ScannerTo, TypeOK
  <2>2. ASSUME Acknowledge(t) \/ ScanRaises(t)
        PROVE  scanner'[s] = scanner[s] \/ scanner'[s] = IdleThread
    BY <2>2 DEF Acknowledge, ScanRaises, ScannerTo, TypeOK
  <2> QED
    BY <1>4, <2>1, <2>2 DEF ScannerNext
<1>5. ASSUME NEW j \in Jobs, JobNext(j)  PROVE scanner' = scanner
  <2>1. ASSUME NEW batch, NEW missed, DeleteBatch(j, batch, missed)  PROVE scanner' = scanner
    BY <2>1 DEF DeleteBatch, Removes
  <2> QED
    BY <1>5, <2>1 DEF JobNext, StartJob, ReadRow, DropEnvelope, LogBatch, DropVerdict, EndSweep,
       ListSessions, ListEvents, DeleteEvent, AppendCert, put_certificate, JobRaises, JobTo
<1>6. CASE UNCHANGED vars
  BY <1>6 DEF vars
<1> QED
  BY <1>1, <1>2, <1>3, <1>4, <1>5, <1>6 DEF Next

LEMMA HeadStep ==
  ASSUME TypeOK, OneConsumer, StoredBorn, [Next]_vars, NEW s \in Scanners, AtHead(s)
  PROVE  AtHead(s)'
<1>1. ASSUME NEW r \in Records, Receive(s, r) \/ ReceiveDelete(s, r)  PROVE AtHead(s)'
  <2>1. /\ stream' = stream /\ scanner'[s].rec = r
        /\ stream[r] # <<>> /\ stream[r] \in Seq(RecordEvent)
    BY <1>1 DEF Receive, ReceiveDelete, ScannerTo, Deliverable, backend, TypeOK
  <2>2. CASE Receive(s, r)
    <3>1. PICK e : e = Head(stream[r])
      OBVIOUS
    <3>2. e \in RecordEvent /\ e.event_type # "DELETE" /\ (rows[r] = None \/ Readable(rows[r]))
      BY <2>1, <2>2, <3>1 DEF Receive
    <3>3. Upserted(rows[r], e) # None
      BY <3>2, UpsertedTyped, NoneAssumption DEF TypeOK
    <3>4. scanner'[s].env = Upserted(rows[r], e)
      BY <2>2, <3>1 DEF Receive, ScannerTo, TypeOK
    <3> QED
      BY <2>1, <3>1, <3>2, <3>3, <3>4 DEF AtHead
  <2>3. CASE ReceiveDelete(s, r)
    BY <2>1, <2>3 DEF ReceiveDelete, TypeOK, AtHead
  <2> QED
    BY <1>1, <2>2, <2>3
<1>2. CASE /\ scanner[s] # IdleThread
           /\ scanner'[s].rec = scanner[s].rec /\ scanner'[s].env = scanner[s].env
  <2>1. PICK r \in Records : r = scanner[s].rec
    BY <1>2, ScannerFacts
  <2>2. CASE \A t \in Scanners : Acknowledge(t) => scanner[t].rec # r
    <3>1. Head(stream'[r]) = Head(stream[r])
      BY <1>2, <2>1, <2>2, HeadStays DEF OneConsumer
    <3> QED
      BY <1>2, <2>1, <3>1 DEF AtHead
  <2>3. ASSUME NEW t \in Scanners, Acknowledge(t), scanner[t].rec = r  PROVE AtHead(s)'
    <3>1. scanner[t] # IdleThread
      BY <2>3 DEF Acknowledge, IdleThread
    <3>2. t = s
      BY <1>2, <2>1, <2>3, <3>1 DEF OneConsumer
    <3> QED
      BY <2>3, <3>2 DEF Acknowledge, TypeOK, AtHead
  <2> QED
    BY <2>2, <2>3
<1>3. CASE scanner'[s] = IdleThread
  BY <1>3 DEF AtHead
<1>4. CASE scanner[s] = IdleThread /\ scanner'[s] = scanner[s]
  BY <1>4 DEF AtHead
<1> QED
  BY <1>1, <1>2, <1>3, <1>4, ScannerSteps

LEMMA ForgetsStep ==
  ASSUME TypeOK, OneConsumer, StoredBorn, RowsBorn, \A s \in Scanners : AtHead(s), [Next]_vars,
         NEW r \in Records, Forgets(r)
  PROVE  Forgets(r)'
<1> USE DEF backend, tables, locals, threads, history
<1>a. /\ stream \in [Records -> Seq(RecordEvent)] /\ store \in [Records -> Versions \cup {None}]
      /\ rows \in [Records -> Row] /\ clock \in Nat
      /\ writer \in [Writers -> WriterState]
      /\ \A w \in Writers : writer[w] # IdleThread => writer[w].rec \in Records
      /\ 0 \in Versions /\ None \notin Versions
  BY ErasureAssumption DEF TypeOK, Versions, WriterState
<1>b. \A s \in Scanners : scanner[s] # IdleThread =>
        /\ scanner[s].rec \in Records /\ stream[scanner[s].rec] # <<>>
        /\ \A t \in Scanners : t # s => scanner[t] = IdleThread \/ scanner[t].rec # scanner[s].rec
  BY ScannerFacts DEF OneConsumer
<1>0. CASE r \notin erased'
  BY <1>0 DEF Forgets
<1>1. ASSUME NEW q \in Records, ExtractionCreate(q)  PROVE Forgets(r)'
  <2>1. CASE q = r
    BY <1>1, <2>1 DEF ExtractionCreate, Forgets
  <2>2. CASE q # r
    BY <1>1, <1>a, <2>2, ForgetsStill DEF ExtractionCreate, emit, Writing
  <2> QED
    BY <2>1, <2>2
<1>2. ASSUME NEW w \in Writers, NEW q \in Records, BackendPut(w, q)  PROVE Forgets(r)'
  <2>1. CASE q = r
    BY <1>2, <2>1 DEF BackendPut, Forgets
  <2>2. CASE q # r
    <3>1. Writing(r)' => Writing(r)
      BY <1>2, <1>a, <2>2 DEF BackendPut, Writing
    <3> QED
      BY <1>2, <1>a, <2>2, <3>1, ForgetsStill DEF BackendPut, emit
  <2> QED
    BY <2>1, <2>2
<1>3. ASSUME NEW q \in Records, BackendUpdate(q)  PROVE Forgets(r)'
  <2>1. CASE q = r
    BY <1>3, <2>1 DEF BackendUpdate, Forgets
  <2>2. CASE q # r
    BY <1>3, <1>a, <2>2, ForgetsStill DEF BackendUpdate, emit, Writing
  <2> QED
    BY <2>1, <2>2
<1>4. ASSUME NEW q \in Records, NEW hold \in BOOLEAN, set_legal_hold(q, hold)  PROVE Forgets(r)'
  <2>1. CASE q = r
    <3>1. rows[r] \in Row
      BY <1>a
    <3>2. Readable(rows'[r]) => Readable(rows[r])
      BY <1>4, <1>a, <2>1, <3>1, HoldReadable DEF set_legal_hold, PutRow
    <3> QED
      BY <1>4, <3>2, ForgetsStill DEF set_legal_hold, Writing
  <2>2. CASE q # r
    BY <1>4, <1>a, <2>2, ForgetsStill DEF set_legal_hold, PutRow, Writing
  <2> QED
    BY <2>1, <2>2
<1>5. ASSUME NEW w \in Writers, PutEnvelope(w) \/ FinishWrite(w)  PROVE Forgets(r)'
  <2>1. writer[w] # IdleThread
    BY <1>5 DEF PutEnvelope, FinishWrite, IdleThread
  <2>2. CASE writer[w].rec = r
    <3>1. erased' = erased /\ Writing(r)
      BY <1>5, <2>1, <2>2 DEF PutEnvelope, FinishWrite, Writing
    <3> QED
      BY <3>1 DEF Forgets
  <2>3. CASE writer[w].rec # r
    <3>1. Writing(r)' => Writing(r)
      <4>1. writer'[w] = IdleThread \/ writer'[w].rec # r
        BY <1>5, <1>a, <2>1, <2>3 DEF PutEnvelope, FinishWrite, WriterState
      <4>2. \A v \in Writers \ {w} : writer'[v] = writer[v]
        BY <1>5, <1>a DEF PutEnvelope, FinishWrite
      <4> QED
        BY <4>1, <4>2 DEF Writing
    <3>2. /\ store' = store /\ stream' = stream /\ born' = born /\ scanner' = scanner
          /\ erased' = erased /\ rows'[r] = rows[r] /\ (r \in verdicts' => r \in verdicts)
      BY <1>5, <1>a, <2>3 DEF PutEnvelope, FinishWrite, PutRow
    <3> QED
      BY <3>1, <3>2, ForgetsStill
  <2> QED
    BY <2>2, <2>3
<1>6. ASSUME NEW s \in Scanners, NEW q \in Records, Receive(s, q)  PROVE Forgets(r)'
  <2>1. PICK e : e = Head(stream[q])
    OBVIOUS
  <2>2. e \in RecordEvent /\ (rows[q] = None \/ Readable(rows[q]))
    BY <1>6, <1>a, <2>1 DEF Receive, Deliverable
  <2>3. Upserted(rows[q], e) # None
    BY <2>2, <1>a, UpsertedTyped, NoneAssumption
  <2>4. /\ scanner'[s].env # None /\ \A t \in Scanners \ {s} : scanner'[t] = scanner[t]
    BY <1>6, <2>1, <2>3 DEF Receive, ScannerTo, TypeOK
  <2> QED
    BY <1>6, <2>4, ForgetsStill DEF Receive, ScannerTo, Writing
<1>7. ASSUME NEW s \in Scanners, NEW q \in Records, ReceiveDelete(s, q)  PROVE Forgets(r)'
  <2>1. /\ scanner'[s] = [pc |-> "delete", rec |-> q, env |-> None]
        /\ \A t \in Scanners \ {s} : scanner'[t] = scanner[t]
        /\ rows' = [rows EXCEPT ![q] = None] /\ stream[q] # <<>>
        /\ store' = store /\ stream' = stream /\ born' = born /\ erased' = erased
        /\ verdicts' = verdicts /\ writer' = writer
    BY <1>7 DEF ReceiveDelete, PutRow, TypeOK, Deliverable
  <2>2. CASE q = r
    BY <1>a, <2>1, <2>2 DEF Forgets, Readable, Writing
  <2>3. CASE q # r
    BY <1>a, <2>1, <2>3, ForgetsStill DEF Writing
  <2> QED
    BY <2>2, <2>3
<1>8. ASSUME NEW s \in Scanners, Bind(s) \/ PutVerdict(s) \/ DeleteVerdict(s)
      PROVE  Forgets(r)'
  <2>1. scanner[s] # IdleThread
    BY <1>8 DEF Bind, PutVerdict, DeleteVerdict, IdleThread
  <2>2. /\ scanner'[s].rec = scanner[s].rec /\ scanner'[s].env = scanner[s].env
        /\ \A t \in Scanners \ {s} : scanner'[t] = scanner[t]
    <3>1. \E pc : scanner' = [scanner EXCEPT ![s].pc = pc]
      BY <1>8 DEF Bind, PutVerdict, DeleteVerdict
    <3> QED
      BY <2>1, <3>1, ScannerFacts DEF TypeOK
  <2>3. /\ store' = store /\ stream' = stream /\ born' = born /\ erased' = erased /\ writer' = writer
        /\ \A q \in Records \ {scanner[s].rec} :
             rows'[q] = rows[q] /\ (q \in verdicts' => q \in verdicts)
    BY <1>8, <1>a DEF Bind, PutVerdict, DeleteVerdict, PutRow
  <2>4. CASE scanner[s].rec # r
    BY <2>2, <2>3, <2>4, ForgetsStill DEF Writing
  <2>5. CASE scanner[s].rec = r /\ ~DeleteVerdict(s)
    <3>1. scanner[s].env # None
      BY <1>8, <2>1, <2>5, ScannerFacts DEF Bind, PutVerdict
    <3>2. stream[r] # <<>> /\ \A t \in Scanners \ {s} : scanner[t] = IdleThread \/ scanner[t].rec # r
      BY <1>b, <2>1, <2>5
    <3> QED
      BY <2>2, <2>3, <3>1, <3>2 DEF Forgets, Writing
  <2>6. CASE scanner[s].rec = r /\ DeleteVerdict(s)
    <3>1. scanner[s].env = None /\ rows' = rows /\ verdicts' = verdicts \ {r}
      BY <2>1, <2>6, ScannerFacts DEF DeleteVerdict
    <3> QED
      BY <2>1, <2>2, <2>3, <2>6, <3>1 DEF Forgets, Writing
  <2> QED
    BY <2>4, <2>5, <2>6
<1>9. ASSUME NEW s \in Scanners, Acknowledge(s)  PROVE Forgets(r)'
  <2>1. scanner[s] # IdleThread
    BY <1>9 DEF Acknowledge, IdleThread
  <2>2. /\ scanner'[s] = IdleThread /\ \A t \in Scanners \ {s} : scanner'[t] = scanner[t]
        /\ store' = store /\ born' = born /\ erased' = erased /\ writer' = writer
        /\ rows' = rows /\ verdicts' = verdicts
    BY <1>9 DEF Acknowledge, TypeOK
  <2>3. CASE scanner[s].rec # r
    <3>1. stream'[r] = stream[r]
      BY <1>9, <1>a, <2>3 DEF Acknowledge
    <3> QED
      BY <2>2, <3>1, ForgetsStill DEF Writing
  <2>4. CASE scanner[s].rec = r
    <3>1. stream[r] # <<>> /\ stream[r] \in Seq(RecordEvent) /\ stream'[r] = Tail(stream[r])
      BY <1>9, <1>a, <1>b, <2>1, <2>4 DEF Acknowledge
    <3>2. /\ stream'[r] = <<>> => stream[r][Len(stream[r])] = Head(stream[r])
          /\ stream'[r] # <<>> => stream'[r][Len(stream'[r])] = stream[r][Len(stream[r])]
      BY <3>1, TailLog
    <3>3. AtHead(s) /\ scanner[s].pc = "ack"
      BY <1>9 DEF Acknowledge
    <3> QED
      BY <2>1, <2>2, <2>4, <3>1, <3>2, <3>3 DEF Forgets, AtHead, Writing
  <2> QED
    BY <2>3, <2>4
<1>10. ASSUME NEW s \in Scanners, ScanRaises(s)  PROVE Forgets(r)'
  BY <1>10, ForgetsStill DEF ScanRaises, ScannerTo, TypeOK, Writing
<1>11. ASSUME NEW j \in Jobs, NEW batch \in SUBSET job[j].plan, NEW missed \in SUBSET batch,
              DeleteBatch(j, batch, missed)
       PROVE  Forgets(r)'
  <2>1. PICK removed : removed = {q \in batch \ missed : store[q] # None}
    OBVIOUS
  <2>2. Removes(removed)
    BY <1>11, <2>1 DEF DeleteBatch
  <2>3. CASE r \notin removed
    <3>1. r \in erased' => r \in erased
      BY <2>2, <2>3 DEF Removes
    <3> QED
      BY <2>2, <2>3, <3>1, ForgetsStill DEF Removes, Writing
  <2>4. CASE r \in removed
    <3>1. PICK e : e = [event_type |-> "DELETE", version |-> store[r], ts |-> clock]
      OBVIOUS
    <3>2. /\ e \in RecordEvent /\ e.event_type = "DELETE"
          /\ stream'[r] = Append(stream[r], e) /\ store'[r] = None /\ r \in born
          /\ stream[r] \in Seq(RecordEvent)
      BY <1>a, <2>1, <2>2, <2>4, <3>1 DEF Removes, RecordEvent, StoredBorn
    <3>3. stream'[r] # <<>> /\ stream'[r][Len(stream'[r])].event_type = "DELETE"
      BY <3>2, AppendedLog
    <3>4. ASSUME NEW s \in Scanners, scanner[s] # IdleThread, scanner[s].rec = r,
                 scanner[s].env = None
          PROVE  FALSE
      <4>1. Head(stream[r]).event_type = "DELETE" /\ stream[r] # <<>>
        BY <1>b, <3>4 DEF AtHead
      <4>2. 1 \in DOMAIN stream[r] /\ Head(stream[r]) = stream[r][1]
        BY <3>2, <4>1
      <4> QED
        BY <2>1, <2>4, <4>1, <4>2 DEF StoredBorn
    <3>5. ~Writing(r) \/ r \notin erased
      BY DEF Forgets
    <3>6. (r \in erased' => ~Writing(r)) /\ (Writing(r)' <=> Writing(r))
      BY <2>2, <3>5 DEF Removes, Writing
    <3>7. scanner' = scanner /\ born' = born
      BY <2>2 DEF Removes
    <3> QED
      BY <3>2, <3>3, <3>4, <3>6, <3>7 DEF Forgets
  <2> QED
    BY <2>3, <2>4
<1>12. CASE /\ store' = store /\ stream' = stream /\ born \subseteq born' /\ erased' = erased
            /\ writer' = writer /\ scanner' = scanner
            /\ \A q \in Records : rows'[q] = rows[q] \/ rows'[q] = None
            /\ verdicts' \subseteq verdicts
  BY <1>12, ForgetsStill DEF Readable, Writing
<1>13. ASSUME NEW j \in Jobs, NEW q \in Records, DropEnvelope(j, q)  PROVE Forgets(r)'
  BY <1>13, <1>12, <1>a DEF DropEnvelope, PutRow
<1>14. ASSUME NEW j \in Jobs, NEW e \in Events, ListEvents(j, session_of[e]) \/ DeleteEvent(j, e)
       PROVE  Forgets(r)'
  BY <1>14, <1>12 DEF ListEvents, DeleteEvent, JobTo
<1>15. ASSUME NEW j \in Jobs,
              StartJob(j) \/ LogBatch(j) \/ DropVerdict(j) \/ EndSweep(j) \/ ListSessions(j)
              \/ AppendCert(j) \/ put_certificate(j) \/ JobRaises(j)
       PROVE  Forgets(r)'
  BY <1>15, <1>12 DEF StartJob, LogBatch, DropVerdict, EndSweep, ListSessions, AppendCert,
     put_certificate, JobRaises, JobTo
<1>16. ASSUME NEW j \in Jobs, NEW q \in Records, ReadRow(j, q)  PROVE Forgets(r)'
  BY <1>16, <1>12 DEF ReadRow, JobTo
<1>17. ASSUME NEW q \in Records, Propagate(q)  PROVE Forgets(r)'
  BY <1>17, <1>12 DEF Propagate
<1>18. ASSUME NEW e \in Events, create_event(e)  PROVE Forgets(r)'
  BY <1>18, <1>12 DEF create_event
<1>19. CASE Tick \/ UNCHANGED vars
  BY <1>19, <1>12 DEF Tick, vars
<1>20. Environment => Forgets(r)'
  BY <1>1, <1>3, <1>4, <1>17, <1>18, <1>19 DEF Environment
<1>21. ASSUME NEW w \in Writers, WriterNext(w)  PROVE Forgets(r)'
  BY <1>21, <1>2, <1>5 DEF WriterNext
<1>22. ASSUME NEW s \in Scanners, ScannerNext(s)  PROVE Forgets(r)'
  BY <1>22, <1>6, <1>7, <1>8, <1>9, <1>10 DEF ScannerNext
<1>23. ASSUME NEW j \in Jobs, JobNext(j)  PROVE Forgets(r)'
  BY <1>23, <1>11, <1>13, <1>14, <1>15, <1>16 DEF JobNext
<1> QED
  BY <1>19, <1>20, <1>21, <1>22, <1>23 DEF Next

\* l2/scanner.py:49-53: what a job deleted is on its way out of the tables: as
\* long as an envelope or a verdict of it is left, its DELETE event is still to come,
\* and is the last of its stream, whatever holds are set on the record meanwhile.
THEOREM ErasedAlwaysAwaitsItsEvent == Spec => []ErasedAwaitsItsEvent
<1>1. Init => StoredBorn /\ RowsBorn /\ ForgetInv
  BY OutcomeInit DEF OutcomeInv, Init, ForgetInv, Forgets, AtHead
<1>2. TypeInv /\ (StoredBorn /\ RowsBorn) /\ ForgetInv /\ [Next]_vars
        => (StoredBorn /\ RowsBorn)' /\ ForgetInv'
  BY StoredStep, RowsStep, HeadStep, ForgetsStep DEF TypeInv, ForgetInv
<1>3. ForgetInv => ErasedAwaitsItsEvent
  BY DEF ForgetInv, Forgets, ErasedAwaitsItsEvent
<1>4. Init => TypeInv
  BY TypeInit DEF TypeInv, Init, OneConsumer
<1>5. TypeInv /\ [Next]_vars => TypeInv'
  BY TypeStep, ConsumerStep DEF TypeInv
<1> QED
  BY <1>1, <1>2, <1>3, <1>4, <1>5, PTL DEF Spec
=============================================================================
