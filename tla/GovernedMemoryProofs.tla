------------------------ MODULE GovernedMemoryProofs ------------------------
(***************************************************************************)
(* Theorems about GovernedMemory for every value of its constants.         *)
(***************************************************************************)
EXTENDS GovernedMemory, TLAPS

-----------------------------------------------------------------------------
(* Type correctness.  TypeOK alone is not inductive: what a thread holds   *)
(* depends on where it is.                                                 *)

ReaderShape(st) ==
  /\ st.pc # "next" => st.item \in Item
  /\ st.pc \in {"oracle", "hop"} =>
       st.env \in Envelope /\ st.gate \in {"quarantine", "trust_gate"}

ScannerShape(st) ==
  /\ st.pc \in {"bind", "existing", "assess"} =>
       st.env \in Envelope /\ st.event.content \in Contents
  /\ st.pc = "publish" => st.verdict \in Verdict

Shape ==
  /\ \A e \in stream : e.event_type # "DELETE" => e.content \in Contents
  /\ \A p \in Readers : reader[p] # IdleReader => ReaderShape(reader[p])
  /\ \A s \in Scanners : scanner[s] # IdleScanner => ScannerShape(scanner[s])

TypeInv == TypeOK /\ Shape

LEMMA StampType ==
  ASSUME NEW tier \in TrustTier, NEW content \in Contents,
         NEW expires \in Nat \cup {None}, NEW quarantined \in BOOLEAN
  PROVE  stamp(tier, content, expires, quarantined) \in Envelope
BY Sha256Assumption DEF stamp, Envelope

LEMMA ExpiresType ==
  ASSUME NEW now \in Nat, NEW t \in Nat
  PROVE  expires_at(now, t) \in Nat \cup {None}
BY DEF expires_at

LEMMA TierType ==
  ASSUME NEW channel PROVE tier_for_channel(channel) \in TrustTier
BY DEF tier_for_channel, CHANNEL_TIERS, TrustTier, UNTRUSTED, DERIVED, FIRST_PARTY, SYSTEM

LEMMA StampForType ==
  ASSUME TypeOK, NEW content \in Contents, NEW channel \in Channels
  PROVE  StampFor(content, channel) \in Envelope
<1>1. ttl[channel] \in Nat
  BY PolicyAssumption DEF Retentions
<1>2. expires_at(clock, ttl[channel]) \in Nat \cup {None}
  BY <1>1, ExpiresType DEF TypeOK
<1>3. tier_for_channel(channel) \in TrustTier
  BY TierType
<1>4. (ScoreOf(content, channel) >= QUARANTINE_THRESHOLD) \in BOOLEAN
  OBVIOUS
<1> QED
  BY <1>2, <1>3, <1>4, StampType DEF StampFor

LEMMA StampDerivedType ==
  ASSUME NEW content \in Contents, NEW ts \in Nat
  PROVE  StampDerived(content, ts) \in Envelope
<1>1. expires_at(ts, ttl["extraction"]) \in Nat \cup {None}
  BY PolicyAssumption, ExpiresType DEF Retentions
<1>2. DERIVED \in TrustTier
  BY DEF TrustTier, DERIVED, UNTRUSTED, SYSTEM
<1>3. FALSE \in BOOLEAN
  OBVIOUS
<1> QED
  BY <1>1, <1>2, <1>3, StampType DEF StampDerived

\* The gates keep a reader's local state well-typed and well-shaped.
LEMMA AdvanceShape ==
  ASSUME NEW st \in ReaderState, NEW admitted \in SUBSET Item
  PROVE  /\ Advance(st, admitted) \in ReaderState
         /\ ReaderShape(Advance(st, admitted))
BY DEF Advance, ReaderState, ReaderShape

LEMMA DropAtShape ==
  ASSUME NEW st \in ReaderState, st.item \in Item,
         NEW gate \in {"envelope_miss", "degraded", "quarantine", "ttl",
                       "integrity", "trust_gate"}
  PROVE  DropAt(st, gate) \in ReaderState /\ ReaderShape(DropAt(st, gate))
BY DEF DropAt, ReaderState, ReaderShape

LEMMA AskShape ==
  ASSUME NEW st \in ReaderState, st.item \in Item, st.env \in Envelope,
         NEW gate \in {"quarantine", "trust_gate"}
  PROVE  Ask(st, gate) \in ReaderState /\ ReaderShape(Ask(st, gate))
BY DEF Ask, ReaderState, ReaderShape

LEMMA AdmitShape ==
  ASSUME NEW st \in ReaderState, st.item \in Item
  PROVE  Admit(st) \in ReaderState /\ ReaderShape(Admit(st))
<1>1. st.admitted \cup {st.item} \in SUBSET Item
  BY DEF ReaderState
<1> QED
  BY <1>1, AdvanceShape DEF Admit

LEMMA StoppedByRange ==
  ASSUME NEW st, NEW env PROVE StoppedBy(st, env) \in {"ttl", "integrity", ""}
BY DEF StoppedBy

LEMMA AfterQuarantineShape ==
  ASSUME NEW st \in ReaderState, st.item \in Item, st.env \in Envelope
  PROVE  AfterQuarantine(st) \in ReaderState /\ ReaderShape(AfterQuarantine(st))
BY StoppedByRange, DropAtShape, AskShape, AdmitShape DEF AfterQuarantine

LEMMA AfterEnvelopeShape ==
  ASSUME NEW st \in ReaderState, st.item \in Item, st.env \in Envelope \cup {None}
  PROVE  AfterEnvelope(st) \in ReaderState /\ ReaderShape(AfterEnvelope(st))
BY AfterQuarantineShape, DropAtShape, AskShape DEF AfterEnvelope

LEMMA AfterVerdictShape ==
  ASSUME NEW st \in ReaderState, st.item \in Item, st.env \in Envelope,
         st.gate \in {"quarantine", "trust_gate"}, NEW v
  PROVE  AfterVerdict(st, v) \in ReaderState /\ ReaderShape(AfterVerdict(st, v))
BY AfterQuarantineShape, DropAtShape, AdmitShape DEF AfterVerdict

LEMMA DegradeShape ==
  ASSUME NEW st \in ReaderState, st.item \in Item
  PROVE  Degrade(st) \in ReaderState /\ ReaderShape(Degrade(st))
BY DropAtShape, AdmitShape DEF Degrade

LEMMA DegradeWithoutShape ==
  ASSUME NEW st \in ReaderState, st.item \in Item, NEW cached
  PROVE  /\ DegradeWithout(st, cached) \in ReaderState
         /\ ReaderShape(DegradeWithout(st, cached))
BY StoppedByRange, DropAtShape, AdmitShape DEF DegradeWithout

\* A step of a reader, or of a scanner, to a good local state.
LEMMA ReaderToType ==
  ASSUME TypeInv, NEW p \in Readers, NEW st, ReaderTo(p, st),
         st = IdleReader \/ (st \in ReaderState /\ ReaderShape(st))
  PROVE  TypeInv'
<1>1. reader' \in [Readers -> ReaderState \cup {IdleReader}]
  BY DEF ReaderTo, TypeInv, TypeOK
<1>2. \A q \in Readers : reader'[q] # IdleReader => ReaderShape(reader'[q])
  BY DEF ReaderTo, TypeInv, TypeOK, Shape
<1> QED
  BY <1>1, <1>2 DEF ReaderTo, TypeInv, TypeOK, Shape, backend, tables, caches, history

LEMMA ScannerToType ==
  ASSUME TypeInv, NEW s \in Scanners, NEW st, ScannerTo(s, st),
         st = IdleScanner \/ (st \in ScannerState /\ ScannerShape(st))
  PROVE  TypeInv'
<1>1. scanner' \in [Scanners -> ScannerState \cup {IdleScanner}]
  BY DEF ScannerTo, TypeInv, TypeOK
<1>2. \A t \in Scanners : scanner'[t] # IdleScanner => ScannerShape(scanner'[t])
  BY DEF ScannerTo, TypeInv, TypeOK, Shape
<1> QED
  BY <1>1, <1>2 DEF ScannerTo, TypeInv, TypeOK, Shape, backend, tables, caches, history

LEMMA EmitType ==
  ASSUME TypeInv, NEW r \in Records, NEW event_type \in {"CREATE", "UPDATE", "DELETE"},
         NEW content \in Contents \cup {None},
         event_type # "DELETE" => content \in Contents,
         emit(event_type, r, content)
  PROVE  /\ stream' \in SUBSET Event /\ emitted' \in [Records -> Nat]
         /\ \A e \in stream' : e.event_type # "DELETE" => e.content \in Contents
<1> DEFINE new == [event_type |-> event_type, rec |-> r, content |-> content,
                   ts |-> clock, seq |-> emitted[r]]
<1>1. new \in Event
  BY DEF TypeInv, TypeOK, Event
<1> QED
  BY <1>1 DEF emit, TypeInv, TypeOK, Shape

LEMMA PublishType ==
  ASSUME TypeInv, NEW r \in Records, NEW v \in Verdict, publish(r, v)
  PROVE  bloom' \in SUBSET Records /\ lru' \in [Records -> Verdict \cup {None}]
<1>1. CASE ~UseOracle
  BY <1>1 DEF publish, TypeInv, TypeOK
<1>2. CASE UseOracle
  <2>1. bloom' = bloom \cup {r}
    BY <1>2 DEF publish
  <2>2. PICK kept \in SUBSET Records :
          lru' = [q \in Records |-> IF q = r THEN v
                                   ELSE IF q \in kept THEN lru[q] ELSE None]
    BY <1>2 DEF publish
  <2> QED
    BY <2>1, <2>2 DEF TypeInv, TypeOK
<1> QED
  BY <1>1, <1>2

\* Who is inside a call is in the state of that call.
LEMMA Inside ==
  ASSUME TypeInv
  PROVE  /\ \A w \in Writers : writer[w].pc \in {"put", "envelope", "pending", "finish"}
              => writer[w] \in WriterState
         /\ \A p \in Readers : reader[p].pc \in {"next", "oracle", "hop", "drop"}
              => reader[p] \in ReaderState /\ ReaderShape(reader[p])
         /\ \A s \in Scanners :
              scanner[s].pc \in {"bind", "existing", "assess", "publish", "delete", "ack"}
              => scanner[s] \in ScannerState /\ ScannerShape(scanner[s])
<1>1. ASSUME NEW w \in Writers,
             writer[w].pc \in {"put", "envelope", "pending", "finish"}
      PROVE  writer[w] \in WriterState
  BY <1>1 DEF TypeInv, TypeOK, IdleWriter
<1>2. ASSUME NEW p \in Readers, reader[p].pc \in {"next", "oracle", "hop", "drop"}
      PROVE  reader[p] \in ReaderState /\ ReaderShape(reader[p])
  <2>1. reader[p] # IdleReader
    BY <1>2 DEF IdleReader
  <2> QED
    BY <2>1 DEF TypeInv, TypeOK, Shape
<1>3. ASSUME NEW s \in Scanners,
             scanner[s].pc \in {"bind", "existing", "assess", "publish", "delete", "ack"}
      PROVE  scanner[s] \in ScannerState /\ ScannerShape(scanner[s])
  <2>1. scanner[s] # IdleScanner
    BY <1>3 DEF IdleScanner
  <2> QED
    BY <2>1 DEF TypeInv, TypeOK, Shape
<1> QED
  BY <1>1, <1>2, <1>3

LEMMA TypeInit == Init => TypeInv
<1> SUFFICES ASSUME Init PROVE TypeInv
  OBVIOUS
<1>1. TypeOK
  BY DEF Init, TypeOK
<1>2. Shape
  BY DEF Init, Shape
<1> QED
  BY <1>1, <1>2 DEF TypeInv

LEMMA TypeEnvironment ==
  ASSUME TypeInv, Environment
  PROVE  TypeInv'
<1> USE DEF TypeInv, tables, caches, threads, history, backend
<1>1. ASSUME NEW r \in Records, NEW content \in Contents, ExtractionCreate(r, content)
      PROVE  TypeInv'
  <2>1. StampDerived(content, clock) \in Envelope
    BY StampDerivedType DEF TypeOK
  <2> QED
    BY <1>1, <2>1, EmitType DEF ExtractionCreate, TypeOK, Shape
<1>2. ASSUME NEW r \in Records, NEW content \in Contents, BackendUpdate(r, content)
      PROVE  TypeInv'
  BY <1>2, EmitType DEF BackendUpdate, TypeOK, Shape
<1>3. ASSUME NEW r \in Records, BackendDelete(r)
      PROVE  TypeInv'
  BY <1>3, EmitType DEF BackendDelete, TypeOK, Shape
<1>4. CASE Tick
  BY <1>4 DEF Tick, TypeOK, Shape
<1>5. CASE Restart
  BY <1>5 DEF Restart, TypeOK, Shape
<1> QED
  BY <1>1, <1>2, <1>3, <1>4, <1>5 DEF Environment

LEMMA TypeWriter ==
  ASSUME TypeInv, NEW w \in Writers, WriterNext(w)
  PROVE  TypeInv'
<1> USE DEF TypeInv, tables, caches, threads, history, backend
<1>1. ASSUME NEW content \in Contents, NEW channel \in Channels,
             RejectWrite(w, content, channel)
      PROVE  TypeInv'
  BY <1>1 DEF RejectWrite, audit_append, Entry, AuditEntry, TypeOK, Shape
<1>2. ASSUME NEW content \in Contents, NEW channel \in Channels, NEW r \in Records,
             StartWrite(w, r, content, channel)
      PROVE  TypeInv'
  <2>1. StampFor(content, channel) \in Envelope
    BY StampForType
  <2> QED
    BY <1>2, <2>1 DEF StartWrite, audit_append, Entry, AuditEntry, WriterState, TypeOK, Shape
<1>3. CASE BackendPut(w)
  <2>1. writer[w] \in WriterState
    BY <1>3, Inside DEF BackendPut
  <2> QED
    BY <1>3, <2>1, EmitType DEF BackendPut, WriterState, TypeOK, Shape
<1>4. CASE PutEnvelope(w)
  <2>1. writer[w] \in WriterState
    BY <1>4, Inside DEF PutEnvelope
  <2> QED
    BY <1>4, <2>1 DEF PutEnvelope, WriterState, TypeOK, Shape
<1>5. CASE PutPending(w)
  <2>1. writer[w] \in WriterState
    BY <1>5, Inside DEF PutPending
  <2>2. PendingVerdict(w) \in Verdict
    BY <2>1 DEF PendingVerdict, Verdict, WriterState, Envelope
  <2> QED
    BY <1>5, <2>1, <2>2 DEF PutPending, WriterState, TypeOK, Shape
<1>6. CASE FinishWrite(w)
  <2>1. writer[w] \in WriterState
    BY <1>6, Inside DEF FinishWrite
  <2>2. PendingVerdict(w) \in Verdict
    BY <2>1 DEF PendingVerdict, Verdict, WriterState, Envelope
  <2>3. bloom' \in SUBSET Records /\ lru' \in [Records -> Verdict \cup {None}]
    BY <1>6, <2>1, <2>2, PublishType DEF FinishWrite, WriterState, TypeOK
  <2> QED
    BY <1>6, <2>1, <2>3 DEF FinishWrite, WriterState, TypeOK, Shape
<1>7. CASE WriteRaises(w)
  BY <1>7 DEF WriteRaises, TypeOK, Shape
<1> QED
  BY <1>1, <1>2, <1>3, <1>4, <1>5, <1>6, <1>7 DEF WriterNext, WriterStep

\* A reader that has taken up a candidate.
LEMMA JudgingFields ==
  ASSUME TypeInv, NEW p \in Readers, reader[p].pc = "next",
         NEW item \in Item, NEW env \in Envelope \cup {None}
  PROVE  /\ Judging(p, item, env) \in ReaderState
         /\ Judging(p, item, env).item = item
         /\ Judging(p, item, env).env = env
         /\ Judging(p, item, env).todo = reader[p].todo \ {item}
         /\ Judging(p, item, env).admitted = reader[p].admitted
<1>1. reader[p] \in ReaderState /\ clock \in Nat
  BY Inside DEF TypeInv, TypeOK
<1>2. Judging(p, item, env) \in ReaderState
  BY <1>1 DEF Judging, ReaderState
<1> QED
  BY <1>1, <1>2 DEF Judging, ReaderState

LEMMA TypeReader ==
  ASSUME TypeInv, NEW p \in Readers, ReaderNext(p)
  PROVE  TypeInv'
<1> DEFINE Good(st) == st = IdleReader \/ (st \in ReaderState /\ ReaderShape(st))
<1>1. ASSUME NEW candidates \in SUBSET Stored, StartRetrieve(p, candidates)
      PROVE  TypeInv'
  <2> DEFINE st == [pc |-> "next", todo |-> candidates, admitted |-> {},
                    item |-> None, now |-> 0, env |-> None, gate |-> ""]
  <2>1. st \in ReaderState /\ ReaderShape(st)
    BY DEF Stored, ReaderState, ReaderShape
  <2> QED
    BY <1>1, <2>1, ReaderToType DEF StartRetrieve
<1>2. ASSUME NEW item \in Item, GetEnvelope(p, item)
      PROVE  TypeInv'
  <2>1. envelopes[item.rec] \in Envelope \cup {None}
    BY DEF TypeInv, TypeOK, Item
  <2> QED
    BY JudgingFields, <1>2, <2>1, AfterEnvelopeShape, ReaderToType DEF GetEnvelope
<1>3. ASSUME NEW item \in Item, EnvelopeTableDown(p, item)
      PROVE  TypeInv'
  BY JudgingFields, <1>3, DegradeWithoutShape, ReaderToType DEF EnvelopeTableDown
<1>4. ASSUME reader[p].pc \in {"oracle", "hop"}, NEW v,
             ReaderTo(p, AfterVerdict(reader[p], v))
      PROVE  TypeInv'
  BY <1>4, Inside, AfterVerdictShape, ReaderToType DEF ReaderShape
<1>5. CASE ConsultOracle(p)
  <2>1. ASSUME reader[p].pc = "oracle"
        PROVE  /\ [reader[p] EXCEPT !.pc = "hop"] \in ReaderState
               /\ ReaderShape([reader[p] EXCEPT !.pc = "hop"])
    BY <2>1, Inside DEF ReaderState, ReaderShape
  <2> QED
    BY <1>4, <1>5, <2>1, ReaderToType DEF ConsultOracle
<1>6. CASE GetVerdict(p)
  BY <1>4, <1>6 DEF GetVerdict
<1>7. CASE QuarantineTableDown(p)
  BY <1>7, Inside, DegradeShape, ReaderToType DEF QuarantineTableDown, ReaderShape
<1>8. CASE Drop(p)
  <2>1. reader[p] \in ReaderState /\ reader[p].item \in Item
    BY <1>8, Inside DEF Drop, ReaderShape
  <2>2. Good(Advance(reader[p], reader[p].admitted))
    BY <2>1, AdvanceShape DEF ReaderState
  <2>3. audit' \in SUBSET AuditEntry
    BY <1>8, <2>1 DEF Drop, audit_append, Entry, AuditEntry, Item, TypeInv, TypeOK
  <2> HIDE DEF Good
  <2>4. reader' = [reader EXCEPT ![p] = Advance(reader[p], reader[p].admitted)]
    BY <1>8 DEF Drop
  <2>5. reader' \in [Readers -> ReaderState \cup {IdleReader}]
    BY <2>2, <2>4 DEF Good, TypeInv, TypeOK
  <2>6. \A q \in Readers : reader'[q] # IdleReader => ReaderShape(reader'[q])
    BY <2>2, <2>4 DEF Good, TypeInv, TypeOK, Shape
  <2> QED
    BY <1>8, <2>3, <2>5, <2>6
    DEF Drop, TypeInv, TypeOK, Shape, backend, caches, history
<1>9. CASE DropAuditDown(p)
  BY <1>9, Inside, DegradeShape, ReaderToType DEF DropAuditDown, ReaderShape
<1>10. CASE Return(p)
  <2>1. reader[p].admitted \in SUBSET Item
    BY <1>10, Inside DEF Return, ReaderState
  <2> QED
    BY <1>10, <2>1 DEF Return, audit_append, Entry, AuditEntry,
       TypeInv, TypeOK, Shape, backend, caches
<1>11. CASE ReturnAuditDown(p)
  BY <1>11, ReaderToType DEF ReturnAuditDown
<1>12. CASE RetrieveElsewhere(p)
  BY <1>12 DEF RetrieveElsewhere, audit_append, Entry, AuditEntry, TypeInv, TypeOK, Shape,
     backend, caches, threads, history
<1> QED
  BY <1>1, <1>2, <1>3, <1>5, <1>6, <1>7, <1>8, <1>9, <1>10, <1>11, <1>12 DEF ReaderNext

LEMMA TypeScanner ==
  ASSUME TypeInv, NEW s \in Scanners, ScannerNext(s)
  PROVE  TypeInv'
<1>1. ASSUME NEW e \in stream, Receive(s, e)
      PROVE  TypeInv'
  <2> DEFINE env == Upserted(envelopes[e.rec], e)
             st  == [pc |-> IF envelopes[e.rec] = env THEN "existing" ELSE "bind",
                     event |-> e, env |-> env, verdict |-> None]
  <2>1. e \in Event /\ e.content \in Contents /\ e.rec \in Records /\ e.ts \in Nat
    BY <1>1 DEF Receive, TypeInv, TypeOK, Shape, Event
  <2>2. env \in Envelope
    <3>1. envelopes[e.rec] \in Envelope \cup {None}
      BY <2>1 DEF TypeInv, TypeOK
    <3> QED
      BY <2>1, <3>1, StampDerivedType, Sha256Assumption DEF Upserted, Envelope
  <2>3. st \in ScannerState /\ ScannerShape(st)
    BY <2>1, <2>2 DEF ScannerState, ScannerShape
  <2> QED
    BY <1>1, <2>3, ScannerToType DEF Receive
<1>2. ASSUME NEW e \in stream, ReceiveDelete(s, e)
      PROVE  TypeInv'
  <2> DEFINE st == [pc |-> "delete", event |-> e, env |-> None, verdict |-> None]
  <2>1. e \in Event /\ e.rec \in Records
    BY DEF TypeInv, TypeOK, Event
  <2>2. st \in ScannerState /\ ScannerShape(st)
    BY <2>1 DEF ScannerState, ScannerShape
  <2>3. scanner' = [scanner EXCEPT ![s] = st]
    BY <1>2 DEF ReceiveDelete
  <2>4. envelopes' \in [Records -> Envelope \cup {None}]
    BY <1>2, <2>1 DEF ReceiveDelete, TypeInv, TypeOK
  <2> QED
    BY <1>2, <2>2, <2>3, <2>4 DEF ReceiveDelete, TypeInv, TypeOK, Shape,
       backend, caches, history
<1>3. CASE DeleteVerdict(s)
  <2>1. scanner[s] \in ScannerState /\ scanner[s].event.rec \in Records
    BY <1>3, Inside DEF DeleteVerdict, ScannerState, Event
  <2> DEFINE st == [scanner[s] EXCEPT !.pc = "ack"]
  <2>2. st \in ScannerState /\ ScannerShape(st)
    BY <2>1 DEF ScannerState, ScannerShape
  <2>3. scanner' = [scanner EXCEPT ![s] = st]
    BY <1>3 DEF DeleteVerdict
  <2>4. verdicts' \in [Records -> Verdict \cup {None}]
    BY <1>3, <2>1 DEF DeleteVerdict, TypeInv, TypeOK
  <2> QED
    BY <1>3, <2>2, <2>3, <2>4 DEF DeleteVerdict, TypeInv, TypeOK, Shape,
       backend, caches, history
<1>4. CASE Bind(s)
  <2>1. scanner[s] \in ScannerState /\ ScannerShape(scanner[s])
    BY <1>4, Inside DEF Bind
  <2>2. /\ scanner[s].event.rec \in Records /\ scanner[s].event.content \in Contents
        /\ scanner[s].env \in Envelope
    BY <1>4, <2>1 DEF Bind, ScannerState, ScannerShape, Event
  <2> QED
    BY <1>4, <2>1, <2>2 DEF Bind, ScannerState, ScannerShape, TypeInv, TypeOK, Shape,
              backend, caches
<1>5. CASE ReadExisting(s)
  <2>1. scanner[s] \in ScannerState /\ ScannerShape(scanner[s])
    BY <1>5, Inside DEF ReadExisting
  <2> DEFINE st(pc) == [scanner[s] EXCEPT !.pc = pc]
  <2>2. \A pc \in {"assess", "ack"} : st(pc) \in ScannerState /\ ScannerShape(st(pc))
    BY <1>5, <2>1 DEF ReadExisting, ScannerState, ScannerShape
  <2> QED
    BY <1>5, <2>2, ScannerToType DEF ReadExisting
<1>6. ASSUME NEW attack \in BOOLEAN, AssessContent(s, attack)
      PROVE  TypeInv'
  <2>1. scanner[s] \in ScannerState /\ ScannerShape(scanner[s])
    BY <1>6, Inside DEF AssessContent
  <2>2. scanner[s].event.rec \in Records /\ scanner[s].event.content \in Contents
    BY <1>6, <2>1 DEF AssessContent, ScannerState, ScannerShape, Event
  <2> DEFINE v == [verdict |-> IF attack THEN FAILED ELSE CLEARED,
                   verdict_digest |-> sha256_hex[scanner[s].event.content]]
         st(pc) == [scanner[s] EXCEPT !.pc = pc, !.verdict = v]
  <2>3. v \in Verdict
    BY <2>2, Sha256Assumption DEF Verdict
  <2> HIDE DEF v
  <2>4. \A pc \in {"publish", "ack"} : st(pc) \in ScannerState /\ ScannerShape(st(pc))
    BY <2>1, <2>3 DEF ScannerState, ScannerShape
  <2>5. PICK pc \in {"publish", "ack"} : scanner' = [scanner EXCEPT ![s] = st(pc)]
    BY <1>6 DEF AssessContent, v
  <2>6. verdicts' \in [Records -> Verdict \cup {None}]
    BY <1>6, <2>2, <2>3 DEF AssessContent, TypeInv, TypeOK, v
  <2>7. benign' \in SUBSET (Records \X Contents)
    BY <1>6, <2>2 DEF AssessContent, TypeInv, TypeOK
  <2> HIDE DEF st
  <2>8. /\ scanner' \in [Scanners -> ScannerState \cup {IdleScanner}]
        /\ \A t \in Scanners : scanner'[t] # IdleScanner => ScannerShape(scanner'[t])
    BY <2>4, <2>5 DEF TypeInv, TypeOK, Shape
  <2> QED
    BY <1>6, <2>6, <2>7, <2>8 DEF AssessContent, TypeInv, TypeOK, Shape, backend, caches
<1>7. CASE Publish(s)
  <2>1. scanner[s] \in ScannerState /\ ScannerShape(scanner[s])
    BY <1>7, Inside DEF Publish
  <2>2. scanner[s].event.rec \in Records /\ scanner[s].verdict \in Verdict
    BY <1>7, <2>1 DEF Publish, ScannerState, ScannerShape, Event
  <2>3. bloom' \in SUBSET Records /\ lru' \in [Records -> Verdict \cup {None}]
    BY <1>7, <2>2, PublishType DEF Publish
  <2> QED
    BY <1>7, <2>1, <2>3 DEF Publish, ScannerState, ScannerShape, TypeInv, TypeOK, Shape,
              backend, tables, history
<1>8. CASE Acknowledge(s)
  BY <1>8 DEF Acknowledge, TypeInv, TypeOK, Shape, tables, caches, history
<1>9. CASE LoseCheckpoint(s)
  BY <1>9, ScannerToType DEF LoseCheckpoint
<1>10. CASE ScanRaises(s)
  BY <1>10, ScannerToType DEF ScanRaises
<1> QED
  BY <1>1, <1>2, <1>3, <1>4, <1>5, <1>6, <1>7, <1>8, <1>9, <1>10
  DEF ScannerNext, ScannerStep

LEMMA TypeStep == TypeInv /\ [Next]_vars => TypeInv'
<1> SUFFICES ASSUME TypeInv, [Next]_vars PROVE TypeInv'
  OBVIOUS
<1>1. CASE UNCHANGED vars
  BY <1>1 DEF vars, backend, tables, caches, threads, history, TypeInv, TypeOK, Shape
<1> QED
  BY <1>1, TypeEnvironment, TypeWriter, TypeReader, TypeScanner DEF Next

\* Every reachable state is well-typed, for any number of records, contents and
\* threads, any policy and any faults.
THEOREM TypeCorrect == Spec => []TypeOK
<1>1. TypeInv => TypeOK
  BY DEF TypeInv
<1> QED
  BY <1>1, TypeInit, TypeStep, PTL DEF Spec

-----------------------------------------------------------------------------
(* What delivered records are worth.  The argument follows an envelope and *)
(* a verdict through every place they are copied to: the tables, the       *)
(* caches, and the threads that hold them across other threads' steps.     *)

\* Policies and outages under which gate 4 keeps its promise.
FloorPolicy ==
  /\ VerifyIntegrity /\ MinTier # DERIVED
  /\ MinTier = SYSTEM => Faults \cap {"envelopes", "quarantine", "audit"} = {}

\* Policies and outages under which gate 1 keeps its promise.
QuarantinePolicy ==
  /\ VerifyIntegrity /\ DropQuarantined /\ MinTier >= FIRST_PARTY
  /\ "envelopes" \notin Faults

Known(r) == origin[r] # None

\* A trusted tier is the record's own, with its quarantine: only the DERIVED
\* envelope of the scanner differs from the one the record was born to carry.
TierSound(r, env) ==
  env.trust_tier >= FIRST_PARTY =>
    /\ Known(r)
    /\ origin[r].trust_tier = env.trust_tier
    /\ origin[r].quarantined => env.quarantined

\* The digest is that of a content that was stamped or scanned.
DigestSound(r, env) ==
  \E c \in Contents : sha256_hex[c] = env.content_sha256 /\ <<r, c>> \in attested

EnvSound(r, env) == TierSound(r, env) /\ DigestSound(r, env)

\* A clearance is the guardrail's, for the content it is keyed to.
VerdictSound(r, v) ==
  v.verdict = CLEARED =>
    \E c \in Contents : sha256_hex[c] = v.verdict_digest /\ <<r, c>> \in benign

Admissible(item) ==
  /\ Known(item.rec)
  /\ FloorPolicy /\ origin[item.rec].trust_tier < MinTier => FoundBenign(item)
  /\ QuarantinePolicy /\ origin[item.rec].quarantined => FoundBenign(item)
  /\ VerifyIntegrity => <<item.rec, item.content>> \in attested

\* What a reader relies on while it decides on st.item.
Deciding(st) ==
  /\ \A item \in st.todo : Known(item.rec)
  /\ \A item \in st.admitted : Admissible(item)
  /\ Known(st.item.rec)
  /\ st.env # None => EnvSound(st.item.rec, st.env)

ReaderSound(st) ==
  /\ \A item \in st.todo : Known(item.rec)
  /\ \A item \in st.admitted : Admissible(item)
  /\ st.pc # "next" => Deciding(st)
  /\ st.pc \in {"oracle", "hop"} /\ st.gate = "trust_gate" => Intact(st.env, st.item)

WriterSound(st) == origin[st.rec] = st.env /\ EnvSound(st.rec, st.env)

ScannerSound(st) ==
  /\ st.pc \in {"bind", "existing", "assess"} => TierSound(st.event.rec, st.env)
  /\ st.pc = "bind" => st.env.content_sha256 = sha256_hex[st.event.content]
  /\ st.pc = "publish" => VerdictSound(st.event.rec, st.verdict)

TablesSound ==
  \A r \in Records :
    /\ store[r] # None     => Known(r)
    /\ envelopes[r] # None => EnvSound(r, envelopes[r])
    /\ env_cache[r] # None => EnvSound(r, env_cache[r])
    /\ verdicts[r] # None  => VerdictSound(r, verdicts[r])
    /\ lru[r] # None       => VerdictSound(r, lru[r])

ThreadsSound ==
  /\ \A w \in Writers  : writer[w] # IdleWriter   => WriterSound(writer[w])
  /\ \A p \in Readers  : reader[p] # IdleReader   => ReaderSound(reader[p])
  /\ \A s \in Scanners : scanner[s] # IdleScanner => ScannerSound(scanner[s])

DeliveredSound == \A item \in delivered : Admissible(item)

Sound == TablesSound /\ ThreadsSound /\ DeliveredSound

IInv == TypeInv /\ Sound

\* The history only grows, so what is sound stays sound.
Grows ==
  /\ benign \subseteq benign' /\ attested \subseteq attested'
  /\ \A r \in Records : Known(r) => origin'[r] = origin[r]

LEMMA HistoryGrows == TypeInv /\ [Next]_vars => Grows
<1> SUFFICES ASSUME TypeInv, [Next]_vars PROVE Grows
  OBVIOUS
<1> USE DEF Grows, Known, history, TypeInv, TypeOK
<1>1. CASE UNCHANGED vars
  BY <1>1 DEF vars
<1>2. CASE Environment
  BY <1>2 DEF Environment, ExtractionCreate, BackendUpdate, BackendDelete, Tick, Restart
<1>3. ASSUME NEW w \in Writers, WriterNext(w) PROVE Grows
  BY <1>3 DEF WriterNext, WriterStep, RejectWrite, StartWrite, BackendPut, PutEnvelope,
              PutPending, FinishWrite, WriteRaises
<1>4. ASSUME NEW p \in Readers, ReaderNext(p) PROVE Grows
  BY <1>4 DEF ReaderNext, ReaderTo, RetrieveElsewhere, StartRetrieve, GetEnvelope, EnvelopeTableDown,
              ConsultOracle, GetVerdict, QuarantineTableDown, Drop, DropAuditDown,
              Return, ReturnAuditDown
<1>5. ASSUME NEW s \in Scanners, ScannerNext(s) PROVE Grows
  BY <1>5 DEF ScannerNext, ScannerStep, ScannerTo, Receive, ReceiveDelete, DeleteVerdict,
              Bind, ReadExisting, AssessContent, Publish, Acknowledge, LoseCheckpoint,
              ScanRaises
<1> QED
  BY <1>1, <1>2, <1>3, <1>4, <1>5 DEF Next

LEMMA SoundStaysSound ==
  ASSUME Grows, NEW r \in Records
  PROVE  /\ \A env : TierSound(r, env) => TierSound(r, env)'
         /\ \A env : EnvSound(r, env) => EnvSound(r, env)'
         /\ \A v : VerdictSound(r, v) => VerdictSound(r, v)'
BY DEF Grows, TierSound, DigestSound, EnvSound, VerdictSound, Known

LEMMA AdmissibleStays ==
  ASSUME Grows, TypeOK, NEW item \in Item, Admissible(item)
  PROVE  Admissible(item)'
BY DEF Grows, TypeOK, Item, Admissible, Known, FoundBenign

LEMMA ReaderStaysSound ==
  ASSUME Grows, TypeOK, NEW st \in ReaderState, ReaderShape(st), ReaderSound(st)
  PROVE  ReaderSound(st)'
<1>1. \A item \in st.todo : Known(item.rec)'
  BY DEF ReaderSound, ReaderState, Grows, Known, Item
<1>2. \A item \in st.admitted : Admissible(item)'
  BY AdmissibleStays DEF ReaderSound, ReaderState
<1>3. ASSUME st.pc # "next"
      PROVE  /\ Known(st.item.rec)'
             /\ st.env # None => EnvSound(st.item.rec, st.env)'
  <2>1. st.item.rec \in Records /\ Deciding(st)
    BY <1>3 DEF ReaderShape, ReaderSound, Item
  <2> QED
    BY <2>1, SoundStaysSound DEF Deciding, Grows, Known
<1> QED
  BY <1>1, <1>2, <1>3 DEF ReaderSound, Deciding

LEMMA WriterStaysSound ==
  ASSUME Grows, TypeOK, NEW st \in WriterState, WriterSound(st)
  PROVE  WriterSound(st)'
<1>1. st.rec \in Records /\ st.env # None
  BY NoneAssumption DEF WriterState
<1> QED
  BY <1>1, SoundStaysSound DEF WriterSound, Grows, Known

LEMMA ScannerStaysSound ==
  ASSUME Grows, TypeOK, NEW st \in ScannerState, ScannerSound(st)
  PROVE  ScannerSound(st)'
<1>1. st.event.rec \in Records
  BY DEF ScannerState, Event
<1> QED
  BY <1>1, SoundStaysSound DEF ScannerSound

\* The same of the threads, when the step leaves them alone.
LEMMA ReadersStaySound ==
  ASSUME Grows, IInv, NEW p \in Readers, reader'[p] = reader[p], reader[p] # IdleReader
  PROVE  ReaderSound(reader[p])'
<1>1. PICK st : st = reader[p]
  OBVIOUS
<1>2. ReaderSound(st)'
  BY <1>1, ReaderStaysSound DEF IInv, Sound, ThreadsSound, TypeInv, TypeOK, Shape
<1> QED
  BY <1>1, <1>2

LEMMA WritersStaySound ==
  ASSUME Grows, IInv, NEW w \in Writers, writer'[w] = writer[w], writer[w] # IdleWriter
  PROVE  WriterSound(writer[w])'
<1>1. PICK st : st = writer[w]
  OBVIOUS
<1>2. WriterSound(st)'
  BY <1>1, WriterStaysSound DEF IInv, Sound, ThreadsSound, TypeInv, TypeOK
<1> QED
  BY <1>1, <1>2

LEMMA ScannersStaySound ==
  ASSUME Grows, IInv, NEW s \in Scanners, scanner'[s] = scanner[s],
         scanner[s] # IdleScanner
  PROVE  ScannerSound(scanner[s])'
<1>1. PICK st : st = scanner[s]
  OBVIOUS
<1>2. ScannerSound(st)'
  BY <1>1, ScannerStaysSound DEF IInv, Sound, ThreadsSound, TypeInv, TypeOK
<1> QED
  BY <1>1, <1>2

LEMMA DeliveredStaysSound ==
  ASSUME Grows, IInv, delivered' = delivered
  PROVE  DeliveredSound'
BY AdmissibleStays DEF IInv, Sound, DeliveredSound, TypeInv, TypeOK

LEMMA TablesStaySound ==
  ASSUME Grows, IInv, NEW r \in Records
  PROVE  /\ store'[r] = store[r] /\ store[r] # None => Known(r)'
         /\ envelopes'[r] = envelopes[r] /\ envelopes[r] # None
              => EnvSound(r, envelopes[r])'
         /\ env_cache'[r] = env_cache[r] /\ env_cache[r] # None
              => EnvSound(r, env_cache[r])'
         /\ verdicts'[r] = verdicts[r] /\ verdicts[r] # None
              => VerdictSound(r, verdicts[r])'
         /\ lru'[r] = lru[r] /\ lru[r] # None => VerdictSound(r, lru[r])'
<1>1. Known(r) => Known(r)'
  BY DEF Grows, Known
<1>2. PICK env : env = envelopes[r]
  OBVIOUS
<1>3. PICK cached : cached = env_cache[r]
  OBVIOUS
<1>4. PICK v : v = verdicts[r]
  OBVIOUS
<1>5. PICK fast : fast = lru[r]
  OBVIOUS
<1>6. /\ env # None => EnvSound(r, env)'
      /\ cached # None => EnvSound(r, cached)'
      /\ v # None => VerdictSound(r, v)'
      /\ fast # None => VerdictSound(r, fast)'
  BY <1>2, <1>3, <1>4, <1>5, SoundStaysSound DEF IInv, Sound, TablesSound
<1> QED
  BY <1>1, <1>2, <1>3, <1>4, <1>5, <1>6 DEF IInv, Sound, TablesSound

-----------------------------------------------------------------------------
(* The gates admit only what is admissible.                                *)

LEMMA AdvanceSound ==
  ASSUME NEW st \in ReaderState, Deciding(st),
         NEW admitted \in SUBSET Item, \A item \in admitted : Admissible(item)
  PROVE  ReaderSound(Advance(st, admitted))
BY DEF Advance, ReaderState, ReaderSound, Deciding

LEMMA AdmitSound ==
  ASSUME NEW st \in ReaderState, st.item \in Item, Deciding(st), Admissible(st.item)
  PROVE  ReaderSound(Admit(st))
<1>1. st.admitted \cup {st.item} \in SUBSET Item
  BY DEF ReaderState
<1> QED
  BY <1>1, AdvanceSound DEF Admit, Deciding

LEMMA DropAtSound ==
  ASSUME NEW st \in ReaderState, Deciding(st), NEW gate
  PROVE  ReaderSound(DropAt(st, gate))
BY DEF DropAt, ReaderState, ReaderSound, Deciding

LEMMA AskSound ==
  ASSUME NEW st \in ReaderState, Deciding(st), NEW gate,
         gate = "trust_gate" => Intact(st.env, st.item)
  PROVE  ReaderSound(Ask(st, gate))
BY DEF Ask, ReaderState, ReaderSound, Deciding

\* Integrity carries what is known of the digest over to the content read.
LEMMA IntactContent ==
  ASSUME NEW item \in Item, NEW env, verify_integrity(env, item.content),
         NEW c \in Contents, sha256_hex[c] = env.content_sha256
  PROVE  item.content = c
BY Sha256Assumption DEF verify_integrity, Item

LEMMA CheckedAttested ==
  ASSUME NEW item \in Item, NEW env \in Envelope, DigestSound(item.rec, env),
         verify_integrity(env, item.content)
  PROVE  <<item.rec, item.content>> \in attested
BY IntactContent DEF DigestSound

LEMMA ClearedBenign ==
  ASSUME NEW item \in Item, NEW env \in Envelope, NEW v, cleared(env, v),
         VerdictSound(item.rec, v), verify_integrity(env, item.content)
  PROVE  FoundBenign(item)
<1>1. PICK c \in Contents : sha256_hex[c] = v.verdict_digest /\ <<item.rec, c>> \in benign
  BY DEF cleared, VerdictSound
<1> QED
  BY <1>1, IntactContent DEF cleared, FoundBenign

\* Admission by tier alone, with quarantine settled one way or the other.
LEMMA TierAdmissible ==
  ASSUME TypeOK, NEW item \in Item, NEW env \in Envelope,
         Known(item.rec), EnvSound(item.rec, env), Intact(env, item),
         env.trust_tier >= MinTier,
         \/ ~QuarantinePolicy \/ ~env.quarantined \/ FoundBenign(item)
  PROVE  Admissible(item)
<1>1. /\ origin[item.rec] \in Envelope /\ MinTier \in 0..3
      /\ env.trust_tier \in 0..3 /\ origin[item.rec].trust_tier \in 0..3
  BY PolicyAssumption
  DEF TypeOK, Known, Item, Envelope, TrustTier, UNTRUSTED, SYSTEM
<1>2. ASSUME FloorPolicy PROVE ~(origin[item.rec].trust_tier < MinTier)
  BY <1>1, <1>2 DEF FloorPolicy, EnvSound, TierSound, DERIVED, FIRST_PARTY
<1>3. ASSUME QuarantinePolicy, origin[item.rec].quarantined PROVE FoundBenign(item)
  BY <1>1, <1>3 DEF QuarantinePolicy, EnvSound, TierSound, FIRST_PARTY
<1>4. VerifyIntegrity => <<item.rec, item.content>> \in attested
  BY CheckedAttested DEF Intact, EnvSound
<1> QED
  BY <1>2, <1>3, <1>4 DEF Admissible

LEMMA AfterQuarantineSound ==
  ASSUME TypeOK, NEW st \in ReaderState, st.item \in Item, st.env \in Envelope,
         Deciding(st),
         \/ ~QuarantinePolicy \/ ~st.env.quarantined
         \/ verify_integrity(st.env, st.item.content) => FoundBenign(st.item)
  PROVE  ReaderSound(AfterQuarantine(st))
<1>1. CASE StoppedBy(st, st.env) # ""
  BY <1>1, DropAtSound DEF AfterQuarantine
<1>2. CASE StoppedBy(st, st.env) = ""
  <2>1. Intact(st.env, st.item)
    BY <1>2 DEF StoppedBy
  <2>2. CASE st.env.trust_tier < MinTier
    BY <1>2, <2>1, <2>2, AskSound DEF AfterQuarantine
  <2>3. CASE ~(st.env.trust_tier < MinTier)
    <3>1. st.env.trust_tier >= MinTier
      BY <2>3, PolicyAssumption DEF Envelope, TrustTier, UNTRUSTED, SYSTEM
    <3>2. \/ ~QuarantinePolicy \/ ~st.env.quarantined \/ FoundBenign(st.item)
      BY <2>1 DEF Intact, QuarantinePolicy
    <3>3. Admissible(st.item)
      BY <2>1, <3>1, <3>2, NoneAssumption, TierAdmissible DEF Deciding
    <3> QED
      BY <1>2, <2>3, <3>3, AdmitSound DEF AfterQuarantine
  <2> QED
    BY <2>2, <2>3
<1> QED
  BY <1>1, <1>2

LEMMA AfterEnvelopeSound ==
  ASSUME TypeOK, NEW st \in ReaderState, st.item \in Item,
         st.env \in Envelope \cup {None}, Deciding(st)
  PROVE  ReaderSound(AfterEnvelope(st))
<1>1. CASE st.env = None
  BY <1>1, DropAtSound DEF AfterEnvelope
<1>2. CASE st.env # None /\ st.env.quarantined /\ DropQuarantined
  BY <1>2, AskSound DEF AfterEnvelope
<1>3. CASE st.env # None /\ ~(st.env.quarantined /\ DropQuarantined)
  BY <1>3, AfterQuarantineSound DEF AfterEnvelope, QuarantinePolicy
<1> QED
  BY <1>1, <1>2, <1>3

LEMMA AfterVerdictSound ==
  ASSUME TypeOK, NEW st \in ReaderState, st.item \in Item, st.env \in Envelope,
         st.gate \in {"quarantine", "trust_gate"}, Deciding(st),
         st.gate = "trust_gate" => Intact(st.env, st.item),
         NEW v, v # None => VerdictSound(st.item.rec, v)
  PROVE  ReaderSound(AfterVerdict(st, v))
<1>1. CASE ~cleared(st.env, v)
  BY <1>1, DropAtSound DEF AfterVerdict
<1>2. CASE cleared(st.env, v)
  <2>1. verify_integrity(st.env, st.item.content) => FoundBenign(st.item)
    BY <1>2, ClearedBenign DEF cleared
  <2>2. CASE st.gate = "quarantine"
    BY <1>2, <2>1, <2>2, AfterQuarantineSound DEF AfterVerdict
  <2>3. CASE st.gate = "trust_gate"
    <3>1. VerifyIntegrity => /\ FoundBenign(st.item)
                             /\ <<st.item.rec, st.item.content>> \in attested
      BY <2>1, <2>3, NoneAssumption, CheckedAttested DEF Intact, Deciding, EnvSound
    <3>2. Admissible(st.item)
      BY <3>1 DEF Admissible, Deciding, FloorPolicy, QuarantinePolicy
    <3> QED
      BY <1>2, <2>3, <3>2, AdmitSound DEF AfterVerdict
  <2> QED
    BY <2>2, <2>3
<1> QED
  BY <1>1, <1>2

\* The degraded modes: tier, retention and integrity are all they look at.
LEMMA DegradeSound ==
  ASSUME TypeOK, NEW st \in ReaderState, st.item \in Item, st.env \in Envelope,
         Deciding(st), Faults \cap {"quarantine", "audit"} # {}
  PROVE  ReaderSound(Degrade(st))
<1> DEFINE ok == /\ st.env.trust_tier >= FIRST_PARTY /\ ~expired(st.env, st.now)
                 /\ verify_integrity(st.env, st.item.content) /\ ~st.env.quarantined
<1>1. CASE ~ok
  BY <1>1, DropAtSound DEF Degrade
<1>2. CASE ok
  <2>1. /\ origin[st.item.rec] \in Envelope /\ MinTier \in 0..3
        /\ st.env.trust_tier \in 0..3 /\ origin[st.item.rec].trust_tier \in 0..3
    BY PolicyAssumption
    DEF TypeOK, Deciding, Known, Item, Envelope, TrustTier, UNTRUSTED, SYSTEM
  <2>2. EnvSound(st.item.rec, st.env)
    BY NoneAssumption DEF Deciding
  <2>3. FloorPolicy => ~(origin[st.item.rec].trust_tier < MinTier)
    BY <1>2, <2>1, <2>2
    DEF FloorPolicy, EnvSound, TierSound, DERIVED, FIRST_PARTY, SYSTEM
  <2>4. ~origin[st.item.rec].quarantined
    BY <1>2, <2>2 DEF EnvSound, TierSound
  <2>5. <<st.item.rec, st.item.content>> \in attested
    BY <1>2, <2>2, CheckedAttested DEF EnvSound
  <2>6. Admissible(st.item)
    BY <2>3, <2>4, <2>5 DEF Admissible, Deciding
  <2> QED
    BY <1>2, <2>6, AdmitSound DEF Degrade
<1> QED
  BY <1>1, <1>2

LEMMA DegradeWithoutSound ==
  ASSUME TypeOK, NEW st \in ReaderState, st.item \in Item, st.env = None, Deciding(st),
         NEW cached \in Envelope \cup {None},
         cached # None => EnvSound(st.item.rec, cached),
         "envelopes" \in Faults
  PROVE  ReaderSound(DegradeWithout(st, cached))
<1>1. CASE cached = None \/ cached.trust_tier < FIRST_PARTY
  BY <1>1, DropAtSound DEF DegradeWithout
<1>2. CASE /\ ~(cached = None \/ cached.trust_tier < FIRST_PARTY)
           /\ StoppedBy(st, cached) # ""
  BY <1>2, DropAtSound DEF DegradeWithout
<1>3. CASE /\ ~(cached = None \/ cached.trust_tier < FIRST_PARTY)
           /\ StoppedBy(st, cached) = ""
  <2>1. cached \in Envelope /\ EnvSound(st.item.rec, cached) /\ Intact(cached, st.item)
    BY <1>3 DEF StoppedBy
  <2>2. /\ origin[st.item.rec] \in Envelope /\ MinTier \in 0..3
        /\ cached.trust_tier \in 0..3 /\ origin[st.item.rec].trust_tier \in 0..3
    BY <2>1, PolicyAssumption
    DEF TypeOK, Deciding, Known, Item, Envelope, TrustTier, UNTRUSTED, SYSTEM
  <2>3. FloorPolicy => ~(origin[st.item.rec].trust_tier < MinTier)
    <3>1. "envelopes" \in Faults \cap {"envelopes", "quarantine", "audit"}
      OBVIOUS
    <3>2. FloorPolicy => MinTier # 3 /\ MinTier # 1
      BY <3>1 DEF FloorPolicy, SYSTEM, DERIVED
    <3>3. ~(cached.trust_tier < 2)
      BY <1>3 DEF FIRST_PARTY
    <3>4. cached.trust_tier >= 2
      BY <2>2, <3>3
    <3>5. origin[st.item.rec].trust_tier = cached.trust_tier
      BY <2>1, <3>4 DEF EnvSound, TierSound, FIRST_PARTY
    <3> QED
      BY <2>2, <3>2, <3>4, <3>5
  <2>4. VerifyIntegrity => <<st.item.rec, st.item.content>> \in attested
    BY <2>1, CheckedAttested DEF Intact, EnvSound
  <2>5. Admissible(st.item)
    BY <2>3, <2>4 DEF Admissible, Deciding, QuarantinePolicy
  <2> QED
    BY <1>3, <2>5, AdmitSound DEF DegradeWithout
<1> QED
  BY <1>1, <1>2, <1>3

-----------------------------------------------------------------------------
(* Every step keeps the invariant.                                         *)

\* A step that leaves the tables and the local caches alone.
LEMMA TablesUntouched ==
  ASSUME IInv, Grows, UNCHANGED <<store, envelopes, verdicts, env_cache, lru>>
  PROVE  TablesSound'
BY TablesStaySound DEF TablesSound

LEMMA ReaderToSound ==
  ASSUME IInv, Grows, NEW p \in Readers, NEW st, ReaderTo(p, st),
         st = IdleReader \/ ReaderSound(st)
  PROVE  Sound'
<1>1. UNCHANGED <<origin, benign, attested, delivered>>
  BY DEF ReaderTo, history
<1>2. TablesSound'
  BY TablesUntouched DEF ReaderTo, backend, tables, caches
<1>3. ASSUME NEW q \in Readers, reader'[q] # IdleReader
      PROVE  ReaderSound(reader[q])'
  <2>1. CASE q = p
    <3>1. reader'[q] = st
      BY <2>1 DEF ReaderTo, IInv, TypeInv, TypeOK
    <3>2. ReaderSound(st)
      BY <1>3, <3>1
    <3> QED
      BY <1>1, <3>1, <3>2 DEF ReaderSound, Deciding, Admissible, Known, EnvSound,
         TierSound, DigestSound, FoundBenign
  <2>2. CASE q # p
    BY <1>3, <2>2, ReadersStaySound DEF ReaderTo, IInv, TypeInv, TypeOK
  <2> QED
    BY <2>1, <2>2
<1>4. ASSUME NEW w \in Writers, writer'[w] # IdleWriter
      PROVE  WriterSound(writer[w])'
  BY <1>4, WritersStaySound DEF ReaderTo
<1>5. ASSUME NEW s \in Scanners, scanner'[s] # IdleScanner
      PROVE  ScannerSound(scanner[s])'
  BY <1>5, ScannersStaySound DEF ReaderTo
<1>6. DeliveredSound'
  BY <1>1, DeliveredStaysSound
<1> QED
  BY <1>2, <1>3, <1>4, <1>5, <1>6 DEF Sound, ThreadsSound

LEMMA ThreadsUntouched ==
  ASSUME IInv, Grows, UNCHANGED threads
  PROVE  ThreadsSound'
BY ReadersStaySound, WritersStaySound, ScannersStaySound DEF ThreadsSound, threads

LEMMA ScannerToSound ==
  ASSUME IInv, Grows, NEW s \in Scanners, NEW st, ScannerTo(s, st),
         st = IdleScanner \/ ScannerSound(st)
  PROVE  Sound'
<1>1. UNCHANGED <<origin, benign, attested, delivered>>
  BY DEF ScannerTo, history
<1>2. TablesSound'
  BY TablesUntouched DEF ScannerTo, backend, tables, caches
<1>3. ASSUME NEW t \in Scanners, scanner'[t] # IdleScanner
      PROVE  ScannerSound(scanner[t])'
  <2>1. CASE t = s
    <3>1. scanner'[t] = st
      BY <2>1 DEF ScannerTo, IInv, TypeInv, TypeOK
    <3>2. ScannerSound(st)
      BY <1>3, <3>1
    <3> QED
      BY <1>1, <3>1, <3>2 DEF ScannerSound, TierSound, VerdictSound, Known
  <2>2. CASE t # s
    BY <1>3, <2>2, ScannersStaySound DEF ScannerTo, IInv, TypeInv, TypeOK
  <2> QED
    BY <2>1, <2>2
<1>4. ASSUME NEW w \in Writers, writer'[w] # IdleWriter
      PROVE  WriterSound(writer[w])'
  BY <1>4, WritersStaySound DEF ScannerTo
<1>5. ASSUME NEW p \in Readers, reader'[p] # IdleReader
      PROVE  ReaderSound(reader[p])'
  BY <1>5, ReadersStaySound DEF ScannerTo
<1>6. DeliveredSound'
  BY <1>1, DeliveredStaysSound
<1> QED
  BY <1>2, <1>3, <1>4, <1>5, <1>6 DEF Sound, ThreadsSound

LEMMA SoundEnvironment ==
  ASSUME IInv, Grows, Environment
  PROVE  Sound'
<1>1. ASSUME NEW r \in Records, NEW content \in Contents, ExtractionCreate(r, content)
      PROVE  Sound'
  <2>1. origin'[r] # None
    <3>1. StampDerived(content, clock) # None
      BY StampDerivedType, NoneAssumption DEF IInv, TypeInv, TypeOK
    <3> QED
      BY <1>1, <3>1 DEF ExtractionCreate, IInv, TypeInv, TypeOK
  <2>2. \A q \in Records \ {r} : store'[q] = store[q]
    BY <1>1 DEF ExtractionCreate, IInv, TypeInv, TypeOK
  <2>3. TablesSound'
    BY <1>1, <2>1, <2>2, TablesStaySound DEF ExtractionCreate, TablesSound, Known,
       tables, caches
  <2> QED
    BY <1>1, <2>3, ThreadsUntouched, DeliveredStaysSound DEF ExtractionCreate, Sound
<1>2. ASSUME NEW r \in Records, NEW content \in Contents, BackendUpdate(r, content)
      PROVE  Sound'
  <2>1. Known(r)'
    BY <1>2 DEF BackendUpdate, IInv, Sound, TablesSound, Known, history
  <2>2. \A q \in Records \ {r} : store'[q] = store[q]
    BY <1>2 DEF BackendUpdate, IInv, TypeInv, TypeOK
  <2>3. TablesSound'
    BY <1>2, <2>1, <2>2, TablesStaySound DEF BackendUpdate, TablesSound, tables, caches
  <2> QED
    BY <1>2, <2>3, ThreadsUntouched, DeliveredStaysSound DEF BackendUpdate, Sound, history
<1>3. ASSUME NEW r \in Records, BackendDelete(r)
      PROVE  Sound'
  <2>1. \A q \in Records : store'[q] # None => store'[q] = store[q]
    BY <1>3 DEF BackendDelete, IInv, TypeInv, TypeOK
  <2>2. TablesSound'
    BY <1>3, <2>1, TablesStaySound DEF BackendDelete, TablesSound, tables, caches
  <2> QED
    BY <1>3, <2>2, ThreadsUntouched, DeliveredStaysSound DEF BackendDelete, Sound, history
<1>4. CASE Tick
  BY <1>4, TablesUntouched, ThreadsUntouched, DeliveredStaysSound
  DEF Tick, Sound, backend, tables, caches, history
<1>5. CASE Restart
  <2>1. \A r \in Records : env_cache'[r] = None /\ lru'[r] = None
    BY <1>5 DEF Restart
  <2>2. TablesSound'
    BY <1>5, <2>1, TablesStaySound DEF Restart, TablesSound, backend, tables
  <2>3. ThreadsSound'
    BY <1>5, ScannersStaySound DEF Restart, ThreadsSound
  <2> QED
    BY <1>5, <2>2, <2>3, DeliveredStaysSound DEF Restart, Sound, history
<1> QED
  BY <1>1, <1>2, <1>3, <1>4, <1>5 DEF Environment

\* Publishing a sound verdict keeps the cached ones sound.
LEMMA PublishSound ==
  ASSUME IInv, Grows, NEW r \in Records, NEW v \in Verdict, VerdictSound(r, v),
         publish(r, v), NEW q \in Records, lru'[q] # None
  PROVE  VerdictSound(q, lru[q])'
<1>1. CASE lru'[q] = lru[q]
  BY <1>1, TablesStaySound
<1>2. CASE lru'[q] # lru[q]
  <2>1. UseOracle
    BY <1>2 DEF publish
  <2>2. PICK kept \in SUBSET Records :
          lru' = [x \in Records |-> IF x = r THEN v
                                   ELSE IF x \in kept THEN lru[x] ELSE None]
    BY <2>1 DEF publish
  <2>3. q = r /\ lru'[q] = v
    BY <1>2, <2>2
  <2>4. VerdictSound(r, v)'
    BY SoundStaysSound
  <2> QED
    BY <2>3, <2>4
<1> QED
  BY <1>1, <1>2

LEMMA WriterMoves ==
  ASSUME IInv, Grows, NEW w \in Writers, UNCHANGED <<reader, scanner>>,
         \A x \in Writers \ {w} : writer'[x] = writer[x],
         writer'[w] # IdleWriter => WriterSound(writer[w])'
  PROVE  ThreadsSound'
BY ReadersStaySound, WritersStaySound, ScannersStaySound DEF ThreadsSound

\* A writer that only moves on still holds what it held.
LEMMA WriterMovesOn ==
  ASSUME IInv, Grows, NEW w \in Writers, writer[w] \in WriterState, NEW pc,
         writer' = [writer EXCEPT ![w].pc = pc], UNCHANGED <<reader, scanner>>
  PROVE  ThreadsSound'
<1>1. /\ \A x \in Writers \ {w} : writer'[x] = writer[x]
      /\ writer'[w] = [writer[w] EXCEPT !.pc = pc]
  BY DEF IInv, TypeInv, TypeOK
<1>2. WriterSound(writer[w])
  BY DEF IInv, Sound, ThreadsSound, WriterState, IdleWriter
<1>3. PICK st : st = writer[w]
  OBVIOUS
<1>4. WriterSound(st)'
  BY <1>2, <1>3, WriterStaysSound DEF IInv, TypeInv
<1>5. writer'[w].rec = st.rec /\ writer'[w].env = st.env
  BY <1>1, <1>3 DEF WriterState
<1>6. WriterSound(writer[w])'
  BY <1>4, <1>5 DEF WriterSound
<1> QED
  BY <1>1, <1>6, WriterMoves

LEMMA SoundWriter ==
  ASSUME IInv, Grows, NEW w \in Writers, WriterNext(w)
  PROVE  Sound'
<1>1. ASSUME NEW content \in Contents, NEW channel \in Channels,
             RejectWrite(w, content, channel)
      PROVE  Sound'
  BY <1>1, TablesUntouched, ThreadsUntouched, DeliveredStaysSound
  DEF RejectWrite, Sound, backend, caches, history
<1>2. ASSUME NEW content \in Contents, NEW channel \in Channels, NEW r \in Records,
             StartWrite(w, r, content, channel)
      PROVE  Sound'
  <2> DEFINE env == StampFor(content, channel)
             st  == [pc |-> "put", rec |-> r, content |-> content, env |-> env]
  <2>1. env \in Envelope /\ env.content_sha256 = sha256_hex[content]
    BY StampForType DEF IInv, TypeInv, StampFor, stamp
  <2>2. /\ writer'[w] = st
        /\ \A x \in Writers \ {w} : writer'[x] = writer[x]
        /\ origin'[r] = env /\ <<r, content>> \in attested'
    BY <1>2 DEF StartWrite, IInv, TypeInv, TypeOK
  <2> HIDE DEF env
  <2>3. env # None
    BY <2>1, NoneAssumption
  <2>4. WriterSound(writer[w])'
    BY <2>1, <2>2, <2>3 DEF WriterSound, EnvSound, TierSound, DigestSound, Known
  <2>5. ThreadsSound'
    BY <1>2, <2>2, <2>4, WriterMoves DEF StartWrite
  <2> QED
    BY <1>2, <2>5, TablesUntouched, DeliveredStaysSound
    DEF StartWrite, Sound, backend, caches
<1>3. ASSUME writer[w].pc \in {"put", "envelope", "pending", "finish"}
      PROVE  /\ writer[w] \in WriterState /\ writer[w].rec \in Records
             /\ writer[w].env \in Envelope /\ writer[w].env # None
             /\ WriterSound(writer[w])
  <2>1. writer[w] \in WriterState /\ writer[w] # IdleWriter
    BY <1>3, Inside DEF IInv, IdleWriter
  <2> QED
    BY <2>1, NoneAssumption DEF IInv, Sound, ThreadsSound, WriterState
<1>4. CASE BackendPut(w)
  <2>1. ThreadsSound'
    BY <1>3, <1>4, WriterMovesOn DEF BackendPut
  <2>2. Known(writer[w].rec)
    BY <1>3, <1>4 DEF BackendPut, WriterSound, Known
  <2>3. \A q \in Records : store'[q] = store[q] \/ q = writer[w].rec
    BY <1>3, <1>4 DEF BackendPut, IInv, TypeInv, TypeOK
  <2>4. UNCHANGED origin
    BY <1>4 DEF BackendPut, history
  <2>5. TablesSound'
    BY <1>4, <2>2, <2>3, <2>4, TablesStaySound
    DEF BackendPut, TablesSound, tables, caches, Known
  <2> QED
    BY <1>4, <2>1, <2>5, DeliveredStaysSound DEF BackendPut, Sound, history
<1>5. CASE PutEnvelope(w)
  <2>1. ThreadsSound'
    BY <1>3, <1>5, WriterMovesOn DEF PutEnvelope
  <2>2. PICK env : env = writer[w].env
    OBVIOUS
  <2>3. EnvSound(writer[w].rec, env)
    BY <1>3, <1>5, <2>2 DEF PutEnvelope, WriterSound
  <2>4. \A q \in Records :
          envelopes'[q] = envelopes[q] \/ (q = writer[w].rec /\ envelopes'[q] = env)
    BY <1>3, <1>5, <2>2 DEF PutEnvelope, IInv, TypeInv, TypeOK
  <2>5. \A q \in Records : envelopes'[q] # None => EnvSound(q, envelopes[q])'
    BY <1>3, <1>5, <2>3, <2>4, TablesStaySound, SoundStaysSound DEF PutEnvelope
  <2>6. TablesSound'
    BY <1>5, <2>5, TablesStaySound DEF PutEnvelope, TablesSound, backend, caches
  <2> QED
    BY <1>5, <2>1, <2>6, DeliveredStaysSound DEF PutEnvelope, Sound, history
<1>6. VerdictSound(writer[w].rec, PendingVerdict(w))
  BY DEF VerdictSound, PendingVerdict, PENDING, CLEARED
<1>7. CASE PutPending(w)
  <2>1. ThreadsSound'
    BY <1>3, <1>7, WriterMovesOn DEF PutPending
  <2>2. PICK v : v = PendingVerdict(w)
    OBVIOUS
  <2>3. \A q \in Records :
          verdicts'[q] = verdicts[q] \/ (q = writer[w].rec /\ verdicts'[q] = v)
    BY <1>3, <1>7, <2>2 DEF PutPending, IInv, TypeInv, TypeOK
  <2>4. \A q \in Records : verdicts'[q] # None => VerdictSound(q, verdicts[q])'
    BY <1>3, <1>6, <1>7, <2>2, <2>3, TablesStaySound, SoundStaysSound DEF PutPending
  <2>5. TablesSound'
    BY <1>7, <2>4, TablesStaySound DEF PutPending, TablesSound, backend, caches
  <2> QED
    BY <1>7, <2>1, <2>5, DeliveredStaysSound DEF PutPending, Sound, history
<1>8. CASE FinishWrite(w)
  <2>1. /\ \A x \in Writers \ {w} : writer'[x] = writer[x]
        /\ writer'[w] = IdleWriter
    BY <1>8 DEF FinishWrite, IInv, TypeInv, TypeOK
  <2>2. ThreadsSound'
    BY <1>8, <2>1, WriterMoves DEF FinishWrite
  <2>3. PendingVerdict(w) \in Verdict
    BY <1>3, <1>8 DEF FinishWrite, PendingVerdict, Verdict, Envelope
  <2>4. \A q \in Records : lru'[q] # None => VerdictSound(q, lru[q])'
    BY <1>3, <1>6, <1>8, <2>3, PublishSound, TablesStaySound DEF FinishWrite
  <2>5. PICK env : env = writer[w].env
    OBVIOUS
  <2>6. EnvSound(writer[w].rec, env)
    BY <1>3, <1>8, <2>5 DEF FinishWrite, WriterSound
  <2>7. \A q \in Records :
          env_cache'[q] = env_cache[q] \/ (q = writer[w].rec /\ env_cache'[q] = env)
    BY <1>3, <1>8, <2>5 DEF FinishWrite, IInv, TypeInv, TypeOK
  <2>8. \A q \in Records : env_cache'[q] # None => EnvSound(q, env_cache[q])'
    BY <1>3, <1>8, <2>6, <2>7, TablesStaySound, SoundStaysSound DEF FinishWrite
  <2>9. TablesSound'
    BY <1>8, <2>4, <2>8, TablesStaySound DEF FinishWrite, TablesSound, backend, tables
  <2> QED
    BY <1>8, <2>2, <2>9, DeliveredStaysSound DEF FinishWrite, Sound, history
<1>9. CASE WriteRaises(w)
  <2>1. /\ \A x \in Writers \ {w} : writer'[x] = writer[x]
        /\ writer'[w] = IdleWriter
    BY <1>9 DEF WriteRaises, IInv, TypeInv, TypeOK
  <2>2. ThreadsSound'
    BY <1>9, <2>1, WriterMoves DEF WriteRaises
  <2> QED
    BY <1>9, <2>2, TablesUntouched, DeliveredStaysSound
    DEF WriteRaises, Sound, backend, tables, caches, history
<1> QED
  BY <1>1, <1>2, <1>4, <1>5, <1>7, <1>8, <1>9 DEF WriterNext, WriterStep

LEMMA SoundReader ==
  ASSUME IInv, Grows, NEW p \in Readers, ReaderNext(p)
  PROVE  Sound'
<1>1. ASSUME NEW candidates \in SUBSET Stored, StartRetrieve(p, candidates)
      PROVE  Sound'
  <2> DEFINE st == [pc |-> "next", todo |-> candidates, admitted |-> {},
                    item |-> None, now |-> 0, env |-> None, gate |-> ""]
  <2>1. \A item \in candidates : Known(item.rec)
    BY NoneIsNoData DEF Stored, Item, IInv, Sound, TablesSound
  <2>2. ReaderSound(st)
    BY <2>1 DEF ReaderSound
  <2> QED
    BY <1>1, <2>2, ReaderToSound DEF StartRetrieve
<1>2. ASSUME reader[p].pc \in {"next", "oracle", "hop", "drop"}
      PROVE  /\ reader[p] \in ReaderState /\ ReaderShape(reader[p])
             /\ ReaderSound(reader[p])
             /\ reader[p].pc # "next" => /\ reader[p].item \in Item
                                         /\ reader[p].item.rec \in Records
                                         /\ Deciding(reader[p])
  <2>1. reader[p] # IdleReader
    BY <1>2 DEF IdleReader
  <2> QED
    BY <1>2, <2>1, Inside DEF IInv, Sound, ThreadsSound, ReaderShape, ReaderSound, Item
<1>3. ASSUME NEW item \in Item, item \in reader[p].todo, reader[p].pc = "next",
             NEW env \in Envelope \cup {None}, env # None => EnvSound(item.rec, env)
      PROVE  Deciding(Judging(p, item, env))
  <2> DEFINE st == Judging(p, item, env)
  <2>1. /\ st.item = item /\ st.env = env
        /\ st.todo = reader[p].todo \ {item} /\ st.admitted = reader[p].admitted
    BY <1>3, JudgingFields DEF IInv
  <2> HIDE DEF st
  <2>2. ReaderSound(reader[p])
    BY <1>2, <1>3
  <2>3. Deciding(st)
    BY <1>3, <2>1, <2>2 DEF ReaderSound, Deciding
  <2> QED
    BY <2>3 DEF st
<1>4. ASSUME NEW item \in Item, GetEnvelope(p, item)
      PROVE  Sound'
  <2> DEFINE env == envelopes[item.rec]
  <2>1. /\ env \in Envelope \cup {None}
        /\ env # None => EnvSound(item.rec, env)
    BY DEF Item, IInv, Sound, TablesSound, TypeInv, TypeOK
  <2>2. ReaderSound(AfterEnvelope(Judging(p, item, env)))
    BY <1>3, <1>4, <2>1, JudgingFields, AfterEnvelopeSound DEF GetEnvelope, IInv, TypeInv
  <2> QED
    BY <1>4, <2>2, ReaderToSound DEF GetEnvelope
<1>5. ASSUME NEW item \in Item, EnvelopeTableDown(p, item)
      PROVE  Sound'
  <2> DEFINE cached == env_cache[item.rec]
  <2>1. /\ cached \in Envelope \cup {None}
        /\ cached # None => EnvSound(item.rec, cached)
    BY DEF Item, IInv, Sound, TablesSound, TypeInv, TypeOK
  <2>2. ReaderSound(DegradeWithout(Judging(p, item, None), cached))
    BY <1>3, <1>5, <2>1, JudgingFields, DegradeWithoutSound
    DEF EnvelopeTableDown, Down, IInv, TypeInv
  <2> QED
    BY <1>5, <2>2, ReaderToSound DEF EnvelopeTableDown
<1>6. ASSUME reader[p].pc \in {"oracle", "hop"}, NEW v,
             v # None => VerdictSound(reader[p].item.rec, v),
             ReaderTo(p, AfterVerdict(reader[p], v))
      PROVE  Sound'
  <2>1. ReaderSound(AfterVerdict(reader[p], v))
    BY <1>2, <1>6, AfterVerdictSound DEF ReaderShape, ReaderSound, IInv, TypeInv
  <2> QED
    BY <1>6, <2>1, ReaderToSound
<1>7. CASE ConsultOracle(p)
  <2> DEFINE r == reader[p].item.rec
  <2>1. reader[p].pc = "oracle" /\ r \in Records
    BY <1>2, <1>7 DEF ConsultOracle
  <2>2. CASE ReaderTo(p, AfterVerdict(reader[p], None))
    BY <1>6, <2>1, <2>2
  <2>3. CASE lru[r] # None /\ ReaderTo(p, AfterVerdict(reader[p], lru[r]))
    BY <1>6, <2>1, <2>3 DEF IInv, Sound, TablesSound
  <2>4. CASE ReaderTo(p, [reader[p] EXCEPT !.pc = "hop"])
    <3>1. ReaderSound([reader[p] EXCEPT !.pc = "hop"])
      BY <1>2, <2>1 DEF ReaderSound, Deciding, ReaderState
    <3> QED
      BY <2>4, <3>1, ReaderToSound
  <2> QED
    BY <1>7, <2>2, <2>3, <2>4 DEF ConsultOracle
<1>8. CASE GetVerdict(p)
  BY <1>2, <1>6, <1>8 DEF GetVerdict, IInv, Sound, TablesSound
<1>9. CASE QuarantineTableDown(p)
  <2>1. Faults \cap {"quarantine", "audit"} # {}
    <3>1. "quarantine" \in Faults \cap {"quarantine", "audit"}
      BY <1>9 DEF QuarantineTableDown, Down
    <3> QED
      BY <3>1
  <2>2. ReaderSound(Degrade(reader[p]))
    BY <1>2, <1>9, <2>1, DegradeSound DEF QuarantineTableDown, ReaderShape, IInv, TypeInv
  <2> QED
    BY <1>9, <2>2, ReaderToSound DEF QuarantineTableDown
<1>10. CASE DropAuditDown(p)
  <2>1. Faults \cap {"quarantine", "audit"} # {}
    <3>1. "audit" \in Faults \cap {"quarantine", "audit"}
      BY <1>10 DEF DropAuditDown, Down
    <3> QED
      BY <3>1
  <2>2. CASE Guarded(reader[p])
    <3>1. reader[p].env \in Envelope
      BY <1>2, <1>10, <2>2 DEF DropAuditDown, Guarded, ReaderState
    <3>2. ReaderSound(Degrade(reader[p]))
      BY <1>2, <1>10, <2>1, <3>1, DegradeSound DEF DropAuditDown, IInv, TypeInv
    <3> QED
      BY <1>10, <2>2, <3>2, ReaderToSound DEF DropAuditDown
  <2>3. CASE ~Guarded(reader[p])
    BY <1>10, <2>3, ReaderToSound DEF DropAuditDown
  <2> QED
    BY <2>2, <2>3
<1>11. CASE ReturnAuditDown(p)
  BY <1>11, ReaderToSound DEF ReturnAuditDown
<1>12. ASSUME NEW st, reader' = [reader EXCEPT ![p] = st],
              UNCHANGED <<writer, scanner, origin, benign, attested>>,
              st = IdleReader \/ ReaderSound(st)
       PROVE  ThreadsSound'
  <2>1. ASSUME NEW q \in Readers, reader'[q] # IdleReader
        PROVE  ReaderSound(reader[q])'
    <3>1. CASE q = p
      <4>1. reader'[q] = st
        BY <1>12, <3>1 DEF IInv, TypeInv, TypeOK
      <4>2. ReaderSound(st)
        BY <1>12, <2>1, <4>1
      <4>3. UNCHANGED <<origin, benign, attested>>
        BY <1>12
      <4> QED
        BY <4>1, <4>2, <4>3 DEF ReaderSound, Deciding, Admissible, Known, EnvSound,
           TierSound, DigestSound, FoundBenign
    <3>2. CASE q # p
      BY <1>12, <2>1, <3>2, ReadersStaySound DEF IInv, TypeInv, TypeOK
    <3> QED
      BY <3>1, <3>2
  <2> QED
    BY <1>12, <2>1, WritersStaySound, ScannersStaySound DEF ThreadsSound
<1>13. CASE Drop(p)
  <2>1. ReaderSound(Advance(reader[p], reader[p].admitted))
    <3>1. reader[p].admitted \in SUBSET Item
      BY <1>2, <1>13 DEF Drop, ReaderState
    <3> QED
      BY <1>2, <1>13, <3>1, AdvanceSound DEF Drop, ReaderSound
  <2>2. ThreadsSound'
    BY <1>12, <1>13, <2>1 DEF Drop, history
  <2> QED
    BY <1>13, <2>2, TablesUntouched, DeliveredStaysSound
    DEF Drop, Sound, backend, caches, history
<1>14. CASE Return(p)
  <2>1. ThreadsSound'
    BY <1>12, <1>14 DEF Return
  <2>2. \A item \in delivered' : item \in Item /\ Admissible(item)
    BY <1>2, <1>14 DEF Return, ReaderSound, ReaderState, IInv, Sound, DeliveredSound,
       TypeInv, TypeOK
  <2>3. DeliveredSound'
    BY <2>2, AdmissibleStays DEF DeliveredSound, IInv, TypeInv
  <2> QED
    BY <1>14, <2>1, <2>3, TablesUntouched DEF Return, Sound, backend, caches
<1>15. CASE RetrieveElsewhere(p)
  BY <1>15, TablesUntouched, ThreadsUntouched, DeliveredStaysSound
  DEF RetrieveElsewhere, Sound, backend, caches, threads, history
<1> QED
  BY <1>1, <1>4, <1>5, <1>7, <1>8, <1>9, <1>10, <1>11, <1>13, <1>14, <1>15 DEF ReaderNext

\* A step of one scanner that ends in a sound local state.
LEMMA ScannerMoves ==
  ASSUME IInv, Grows, NEW s \in Scanners, UNCHANGED <<writer, reader>>,
         \A t \in Scanners \ {s} : scanner'[t] = scanner[t],
         scanner'[s] # IdleScanner => ScannerSound(scanner[s])'
  PROVE  ThreadsSound'
BY ReadersStaySound, WritersStaySound, ScannersStaySound DEF ThreadsSound

LEMMA SoundScanner ==
  ASSUME IInv, Grows, NEW s \in Scanners, ScannerNext(s)
  PROVE  Sound'
<1>1. ASSUME NEW e \in stream, Receive(s, e)
      PROVE  Sound'
  <2> DEFINE env == Upserted(envelopes[e.rec], e)
             st  == [pc |-> IF envelopes[e.rec] = env THEN "existing" ELSE "bind",
                     event |-> e, env |-> env, verdict |-> None]
  <2>1. e.rec \in Records /\ envelopes[e.rec] \in Envelope \cup {None}
    BY DEF IInv, TypeInv, TypeOK, Event
  <2>2. env.content_sha256 = sha256_hex[e.content]
    BY <2>1 DEF Upserted, StampDerived, stamp, Envelope
  <2>3. TierSound(e.rec, env)
    <3>1. CASE envelopes[e.rec] = None
      BY <3>1 DEF Upserted, StampDerived, stamp, TierSound, DERIVED, FIRST_PARTY
    <3>2. CASE envelopes[e.rec] # None
      <4>1. TierSound(e.rec, envelopes[e.rec])
        BY <2>1, <3>2 DEF IInv, Sound, TablesSound, EnvSound
      <4>2. /\ env.trust_tier = envelopes[e.rec].trust_tier
            /\ env.quarantined = envelopes[e.rec].quarantined
        BY <2>1, <3>2 DEF Upserted, Envelope
      <4> QED
        BY <4>1, <4>2 DEF TierSound
    <3> QED
      BY <3>1, <3>2
  <2>4. ScannerSound(st)
    BY <2>2, <2>3 DEF ScannerSound
  <2> QED
    BY <1>1, <2>4, ScannerToSound DEF Receive
<1>2. ASSUME scanner[s].pc \in {"bind", "existing", "assess", "publish", "delete", "ack"}
      PROVE  /\ scanner[s] \in ScannerState /\ ScannerShape(scanner[s])
             /\ scanner[s].event.rec \in Records
             /\ ScannerSound(scanner[s])
  <2>1. scanner[s] # IdleScanner
    BY <1>2 DEF IdleScanner
  <2> QED
    BY <1>2, <2>1, Inside DEF IInv, Sound, ThreadsSound, ScannerState, Event
<1>3. ASSUME NEW st, scanner' = [scanner EXCEPT ![s] = st],
             st = IdleScanner \/ st.pc \in {"delete", "ack"},
             UNCHANGED <<writer, reader>>
      PROVE  ThreadsSound'
  <2>1. /\ \A t \in Scanners \ {s} : scanner'[t] = scanner[t]
        /\ scanner'[s] = st
    BY <1>3 DEF IInv, TypeInv, TypeOK
  <2>2. scanner'[s] # IdleScanner => ScannerSound(scanner[s])'
    BY <1>3, <2>1 DEF ScannerSound
  <2> QED
    BY <1>3, <2>1, <2>2, ScannerMoves
<1>4. ASSUME NEW e \in stream, ReceiveDelete(s, e)
      PROVE  Sound'
  <2>1. ThreadsSound'
    BY <1>3, <1>4 DEF ReceiveDelete
  <2>2. \A q \in Records : envelopes'[q] # None => envelopes'[q] = envelopes[q]
    BY <1>4 DEF ReceiveDelete, IInv, TypeInv, TypeOK
  <2>3. TablesSound'
    BY <1>4, <2>2, TablesStaySound DEF ReceiveDelete, TablesSound, backend, caches
  <2> QED
    BY <1>4, <2>1, <2>3, DeliveredStaysSound DEF ReceiveDelete, Sound, history
<1>5. CASE DeleteVerdict(s)
  <2>1. ThreadsSound'
    <3>1. [scanner[s] EXCEPT !.pc = "ack"].pc = "ack"
      BY <1>2, <1>5 DEF DeleteVerdict, ScannerState
    <3> QED
      BY <1>3, <1>5, <3>1 DEF DeleteVerdict
  <2>2. \A q \in Records : verdicts'[q] # None => verdicts'[q] = verdicts[q]
    BY <1>5 DEF DeleteVerdict, IInv, TypeInv, TypeOK
  <2>3. TablesSound'
    BY <1>5, <2>2, TablesStaySound DEF DeleteVerdict, TablesSound, backend, caches
  <2> QED
    BY <1>5, <2>1, <2>3, DeliveredStaysSound DEF DeleteVerdict, Sound, history
<1>6. CASE Bind(s)
  <2>1. PICK e, env : e = scanner[s].event /\ env = scanner[s].env
    OBVIOUS
  <2>2. /\ scanner[s] \in ScannerState /\ e.rec \in Records /\ e.content \in Contents
        /\ TierSound(e.rec, env) /\ env.content_sha256 = sha256_hex[e.content]
    BY <1>2, <1>6, <2>1 DEF Bind, ScannerShape, ScannerSound
  <2>3. /\ \A t \in Scanners \ {s} : scanner'[t] = scanner[t]
        /\ scanner'[s].pc = "existing" /\ scanner'[s].event = e /\ scanner'[s].env = env
    BY <1>6, <2>1, <2>2 DEF Bind, ScannerState, IInv, TypeInv, TypeOK
  <2>4. TierSound(e.rec, env)'
    BY <2>2, SoundStaysSound
  <2>5. ScannerSound(scanner[s])'
    BY <2>3, <2>4 DEF ScannerSound
  <2>6. ThreadsSound'
    BY <1>6, <2>3, <2>5, ScannerMoves DEF Bind
  <2>7. <<e.rec, e.content>> \in attested'
    BY <1>6, <2>1 DEF Bind
  <2>8. EnvSound(e.rec, env)'
    BY <2>2, <2>4, <2>7 DEF EnvSound, DigestSound
  <2>9. \A q \in Records :
          envelopes'[q] = envelopes[q] \/ (q = e.rec /\ envelopes'[q] = env)
    BY <1>6, <2>1, <2>2 DEF Bind, IInv, TypeInv, TypeOK
  <2>10. \A q \in Records : envelopes'[q] # None => EnvSound(q, envelopes[q])'
    BY <2>8, <2>9, TablesStaySound
  <2>11. TablesSound'
    BY <1>6, <2>10, TablesStaySound DEF Bind, TablesSound, backend, caches
  <2> QED
    BY <1>6, <2>6, <2>11, DeliveredStaysSound DEF Bind, Sound
<1>7. CASE ReadExisting(s)
  <2> DEFINE st(pc) == [scanner[s] EXCEPT !.pc = pc]
  <2>1. \A pc \in {"assess", "ack"} : ScannerSound(st(pc))
    BY <1>2, <1>7 DEF ReadExisting, ScannerSound, ScannerState
  <2> QED
    BY <1>7, <2>1, ScannerToSound DEF ReadExisting
<1>8. ASSUME NEW attack \in BOOLEAN, AssessContent(s, attack)
      PROVE  Sound'
  <2>1. PICK e, v : /\ e = scanner[s].event
                    /\ v = [verdict |-> IF attack THEN FAILED ELSE CLEARED,
                            verdict_digest |-> sha256_hex[e.content]]
    OBVIOUS
  <2>2. scanner[s] \in ScannerState /\ e.rec \in Records /\ e.content \in Contents
    BY <1>2, <1>8, <2>1 DEF AssessContent, ScannerShape
  <2>3. VerdictSound(e.rec, v)'
    BY <1>8, <2>1, <2>2 DEF AssessContent, VerdictSound, CLEARED, FAILED
  <2>4. /\ \A t \in Scanners \ {s} : scanner'[t] = scanner[t]
        /\ scanner'[s].pc \in {"publish", "ack"}
        /\ scanner'[s].event = e /\ scanner'[s].verdict = v
    BY <1>8, <2>1, <2>2 DEF AssessContent, ScannerState, IInv, TypeInv, TypeOK
  <2>5. ScannerSound(scanner[s])'
    BY <2>3, <2>4 DEF ScannerSound
  <2>6. ThreadsSound'
    BY <1>8, <2>4, <2>5, ScannerMoves DEF AssessContent
  <2>7. \A q \in Records :
          verdicts'[q] = verdicts[q] \/ (q = e.rec /\ verdicts'[q] = v)
    BY <1>8, <2>1, <2>2 DEF AssessContent, IInv, TypeInv, TypeOK
  <2>8. \A q \in Records : verdicts'[q] # None => VerdictSound(q, verdicts[q])'
    BY <2>3, <2>7, TablesStaySound
  <2>9. TablesSound'
    BY <1>8, <2>8, TablesStaySound DEF AssessContent, TablesSound, backend, caches
  <2> QED
    BY <1>8, <2>6, <2>9, DeliveredStaysSound DEF AssessContent, Sound
<1>9. CASE Publish(s)
  <2>1. ThreadsSound'
    <3>1. [scanner[s] EXCEPT !.pc = "ack"].pc = "ack"
      BY <1>2, <1>9 DEF Publish, ScannerState
    <3> QED
      BY <1>3, <1>9, <3>1 DEF Publish
  <2>2. scanner[s].verdict \in Verdict /\ VerdictSound(scanner[s].event.rec, scanner[s].verdict)
    BY <1>2, <1>9 DEF Publish, ScannerShape, ScannerSound
  <2>3. \A q \in Records : lru'[q] # None => VerdictSound(q, lru[q])'
    BY <1>2, <1>9, <2>2, PublishSound DEF Publish
  <2>4. TablesSound'
    BY <1>9, <2>3, TablesStaySound DEF Publish, TablesSound, backend, tables
  <2> QED
    BY <1>9, <2>1, <2>4, DeliveredStaysSound DEF Publish, Sound, history
<1>10. CASE Acknowledge(s)
  <2>1. ThreadsSound'
    BY <1>3, <1>10 DEF Acknowledge
  <2> QED
    BY <1>10, <2>1, TablesUntouched, DeliveredStaysSound
    DEF Acknowledge, Sound, tables, caches, history
<1>11. CASE LoseCheckpoint(s)
  BY <1>11, ScannerToSound DEF LoseCheckpoint
<1>12. CASE ScanRaises(s)
  BY <1>12, ScannerToSound DEF ScanRaises
<1> QED
  BY <1>1, <1>4, <1>5, <1>6, <1>7, <1>8, <1>9, <1>10, <1>11, <1>12
  DEF ScannerNext, ScannerStep

LEMMA IInvInit == Init => IInv
<1> SUFFICES ASSUME Init PROVE Sound
  BY TypeInit DEF IInv
<1>1. TablesSound
  BY DEF Init, TablesSound
<1>2. ThreadsSound
  BY DEF Init, ThreadsSound
<1>3. DeliveredSound
  BY DEF Init, DeliveredSound
<1> QED
  BY <1>1, <1>2, <1>3 DEF Sound

LEMMA IInvStep == IInv /\ [Next]_vars => IInv'
<1> SUFFICES ASSUME IInv, [Next]_vars PROVE Sound'
  BY TypeStep DEF IInv
<1>1. Grows
  BY HistoryGrows DEF IInv
<1>2. CASE UNCHANGED vars
  BY <1>1, <1>2, TablesUntouched, ThreadsUntouched, DeliveredStaysSound
  DEF Sound, vars, backend, tables, caches, history
<1> QED
  BY <1>1, <1>2, SoundEnvironment, SoundWriter, SoundReader, SoundScanner DEF Next

LEMMA IInvHolds == Spec => []IInv
BY IInvInit, IInvStep, PTL DEF Spec

-----------------------------------------------------------------------------
(* What follows for the agents.                                            *)

\* For every number of records, contents and threads, every interleaving and
\* every fault: a record of a tier below the policy floor is delivered only if
\* the guardrail found the delivered content benign.  FloorPolicy leaves out two
\* floors: under DERIVED the scanner's own label lifts untrusted content to the
\* floor, under SYSTEM the degraded modes still stop at FIRST_PARTY.
THEOREM FloorNeedsClearance ==
  ASSUME FloorPolicy
  PROVE  Spec => []BelowFloorNeedsClearance
<1>1. IInv => BelowFloorNeedsClearance
  BY DEF IInv, Sound, DeliveredSound, Admissible, BelowFloorNeedsClearance
<1> QED
  BY <1>1, IInvHolds, PTL

\* The same of what L1 quarantined, whatever its tier, unless the envelope
\* table can be out of reach.
THEOREM QuarantineNeedsClearance ==
  ASSUME QuarantinePolicy
  PROVE  Spec => []QuarantinedInvisible
<1>1. IInv => QuarantinedInvisible
  BY DEF IInv, Sound, DeliveredSound, Admissible, QuarantinedInvisible
<1> QED
  BY <1>1, IInvHolds, PTL

\* With the integrity gate on, what was swapped in the backend behind the
\* stream's back is never delivered.
THEOREM OnlyAttestedDelivered ==
  ASSUME VerifyIntegrity
  PROVE  Spec => []NoUnattestedContent
<1>1. IInv => NoUnattestedContent
  BY DEF IInv, Sound, DeliveredSound, Admissible, NoUnattestedContent
<1> QED
  BY <1>1, IInvHolds, PTL
=============================================================================
