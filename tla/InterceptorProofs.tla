-------------------------- MODULE InterceptorProofs --------------------------
(***************************************************************************)
(* What the interceptor owes for each of its calls, whatever the constants *)
(* of GovernedMemory: the order of writes, the candidates of a read, the   *)
(* retention of what it admits, and the filter of the oracle; and what the *)
(* scanner owes to the records of an ordered stream.                       *)
(***************************************************************************)
EXTENDS GovernedMemoryProofs

-----------------------------------------------------------------------------
(* write() audits before it puts.                                          *)

\* A writer about to put has its entry, and nothing removes an entry.
WriteOrder ==
  /\ StoredIsAudited
  /\ \A w \in Writers : writer[w].pc = "put" => Entry("WRITE", writer[w].rec) \in audit

LEMMA ReaderLeaves ==
  ASSUME TypeInv, NEW p \in Readers, ReaderNext(p)
  PROVE  /\ UNCHANGED <<backend, envelopes, verdicts, caches, clock, writer, scanner, origin>>
         /\ audit \subseteq audit'
         /\ \A q \in Readers \ {p} : reader'[q] = reader[q]
BY DEF ReaderNext, ReaderTo, RetrieveElsewhere, StartRetrieve, GetEnvelope, EnvelopeTableDown,
       ConsultOracle, GetVerdict, QuarantineTableDown, Drop, DropAuditDown, Return,
       ReturnAuditDown, audit_append, tables, history, threads, TypeInv, TypeOK

LEMMA ScannerLeaves ==
  ASSUME TypeInv, NEW s \in Scanners, ScannerNext(s)
  PROVE  /\ UNCHANGED <<store, audit, env_cache, clock, writer, reader, origin>>
         /\ \A t \in Scanners \ {s} : scanner'[t] = scanner[t]
BY DEF ScannerNext, ScannerStep, ScannerTo, Receive, ReceiveDelete, DeleteVerdict, Bind,
       ReadExisting, AssessContent, Publish, Acknowledge, LoseCheckpoint, ScanRaises,
       backend, tables, caches, history, TypeInv, TypeOK

LEMMA WriterLeaves ==
  ASSUME TypeInv, NEW w \in Writers, WriterNext(w)
  PROVE  /\ UNCHANGED <<clock, reader, scanner>>
         /\ audit \subseteq audit'
         /\ \A x \in Writers \ {w} : writer'[x] = writer[x]
<1>1. ASSUME NEW content \in Contents, NEW channel \in Channels,
             \/ RejectWrite(w, content, channel)
             \/ \E r \in Records : StartWrite(w, r, content, channel)
      PROVE  /\ UNCHANGED <<clock, reader, scanner>> /\ audit \subseteq audit'
             /\ \A x \in Writers \ {w} : writer'[x] = writer[x]
  BY <1>1 DEF RejectWrite, StartWrite, audit_append, threads, TypeInv, TypeOK
<1>2. ASSUME WriterStep(w) \/ WriteRaises(w)
      PROVE  /\ UNCHANGED <<clock, reader, scanner, audit>>
             /\ \A x \in Writers \ {w} : writer'[x] = writer[x]
  BY <1>2 DEF WriterStep, BackendPut, PutEnvelope, PutPending, FinishWrite, WriteRaises,
              tables, TypeInv, TypeOK
<1> QED
  BY <1>1, <1>2 DEF WriterNext

LEMMA OrderEnvironment ==
  ASSUME TypeInv, WriteOrder, Environment
  PROVE  WriteOrder'
<1> USE DEF WriteOrder, StoredIsAudited, TypeInv, TypeOK, tables, threads, history
<1>1. ASSUME NEW r \in Records, NEW content \in Contents, ExtractionCreate(r, content)
      PROVE  WriteOrder'
  <2>1. StampDerived(content, clock).trust_tier = DERIVED
    BY DEF StampDerived, stamp
  <2>2. origin'[r].trust_tier = DERIVED
    BY <1>1, <2>1 DEF ExtractionCreate
  <2> QED
    BY <1>1, <2>2 DEF ExtractionCreate
<1>2. ASSUME NEW r \in Records, NEW content \in Contents, BackendUpdate(r, content)
      PROVE  WriteOrder'
  BY <1>2 DEF BackendUpdate
<1>3. ASSUME NEW r \in Records, BackendDelete(r)
      PROVE  WriteOrder'
  BY <1>3 DEF BackendDelete
<1>4. CASE Tick
  BY <1>4 DEF Tick, backend
<1>5. CASE Restart
  BY <1>5 DEF Restart, backend, IdleWriter
<1> QED
  BY <1>1, <1>2, <1>3, <1>4, <1>5 DEF Environment

LEMMA OrderWriter ==
  ASSUME TypeInv, WriteOrder, NEW w \in Writers, WriterNext(w)
  PROVE  WriteOrder'
<1> USE DEF WriteOrder, StoredIsAudited, TypeInv, TypeOK, tables, threads, history
<1>1. ASSUME NEW content \in Contents, NEW channel \in Channels,
             RejectWrite(w, content, channel)
      PROVE  WriteOrder'
  BY <1>1 DEF RejectWrite, audit_append, backend
<1>2. ASSUME NEW content \in Contents, NEW channel \in Channels, NEW r \in Records,
             StartWrite(w, r, content, channel)
      PROVE  WriteOrder'
  <2>1. audit' = audit \cup {Entry("WRITE", r)} /\ writer'[w].rec = r /\ store' = store
    BY <1>2 DEF StartWrite, audit_append, backend
  <2>2. \A x \in Writers \ {w} : writer'[x] = writer[x]
    BY <1>2 DEF StartWrite
  <2>3. \A q \in Records \ {r} : origin'[q] = origin[q]
    BY <1>2 DEF StartWrite
  <2> QED
    BY <2>1, <2>2, <2>3
<1>3. CASE BackendPut(w)
  <2>1. writer[w] \in WriterState
    BY <1>3, Inside DEF BackendPut
  <2>2. writer'[w].pc = "envelope" /\ writer[w].rec \in Records
    BY <1>3, <2>1 DEF BackendPut, WriterState
  <2>3. audit' = audit /\ origin' = origin /\ \A q \in Records \ {writer[w].rec} : store'[q] = store[q]
    BY <1>3, <2>2 DEF BackendPut
  <2>4. Entry("WRITE", writer[w].rec) \in audit
    BY <1>3 DEF BackendPut
  <2>5. \A x \in Writers \ {w} : writer'[x] = writer[x]
    BY <1>3 DEF BackendPut
  <2> QED
    BY <2>2, <2>3, <2>4, <2>5
<1>4. CASE PutEnvelope(w) \/ PutPending(w) \/ FinishWrite(w) \/ WriteRaises(w)
  <2>1. writer[w].pc \in {"envelope", "pending"} => writer[w] \in WriterState
    BY Inside
  <2>2. UNCHANGED <<store, audit, origin>> /\ writer'[w].pc # "put"
    BY <1>4, <2>1 DEF PutEnvelope, PutPending, FinishWrite, WriteRaises, WriterState,
                      IdleWriter, backend
  <2> QED
    BY <1>4, <2>2, WriterLeaves
<1> QED
  BY <1>1, <1>2, <1>3, <1>4 DEF WriterNext, WriterStep

\* The write order of write(): the audit entry is on the chain before the
\* backend has the record, so no record is stored without one, however the
\* write goes on or fails (governed.py: write()).
THEOREM StoredIsAuditedAlways == Spec => []StoredIsAudited
<1>1. Init => WriteOrder
  BY DEF Init, WriteOrder, StoredIsAudited, IdleWriter
<1>2. TypeInv /\ WriteOrder /\ [Next]_vars => WriteOrder'
  <2> SUFFICES ASSUME TypeInv, WriteOrder, [Next]_vars PROVE WriteOrder'
    OBVIOUS
  <2>1. CASE UNCHANGED vars
    BY <2>1 DEF vars, backend, tables, threads, history, WriteOrder, StoredIsAudited
  <2>2. ASSUME NEW p \in Readers, ReaderNext(p) PROVE WriteOrder'
    BY <2>2, ReaderLeaves DEF WriteOrder, StoredIsAudited, backend
  <2>3. ASSUME NEW s \in Scanners, ScannerNext(s) PROVE WriteOrder'
    BY <2>3, ScannerLeaves DEF WriteOrder, StoredIsAudited
  <2> QED
    BY <2>1, <2>2, <2>3, OrderEnvironment, OrderWriter DEF Next
<1> QED
  BY <1>1, <1>2, TypeInit, TypeStep, PTL DEF Spec, WriteOrder

-----------------------------------------------------------------------------
(* The filter of the oracle has no false negatives, as long as nobody who  *)
(* has put a verdict raises or restarts before it is published.            *)

Steady == UseOracle /\ Faults \cap {"write", "scan", "restart"} = {}

\* Somebody has put a verdict for r and will publish it: of the writers, those
\* who put a PENDING one.
Owing(r) ==
  \/ \E w \in Writers : /\ writer[w].pc = "finish" /\ writer[w].rec = r
                         /\ writer[w].env.quarantined
  \/ \E s \in Scanners : scanner[s].pc = "publish" /\ scanner[s].event.rec = r

FilterInv ==
  /\ \A w \in Writers : writer[w].pc = "pending" => writer[w].env.quarantined
  /\ \A r \in Records : verdicts[r] # None => r \in bloom \/ Owing(r)

LEMMA Published ==
  ASSUME Steady, TypeInv, NEW r, NEW v, publish(r, v)
  PROVE  bloom' = bloom \cup {r}
BY DEF Steady, publish

\* Writers and scanners owe what they did, unless the step is theirs.
LEMMA OwingKept ==
  ASSUME FilterInv, bloom \subseteq bloom', NEW r \in Records, verdicts[r] # None,
         \A w \in Writers : writer'[w] = writer[w] \/ writer[w].pc # "finish"
                            \/ ~writer[w].env.quarantined \/ writer[w].rec \in bloom',
         \A s \in Scanners : scanner'[s] = scanner[s] \/ scanner[s].pc # "publish"
                             \/ scanner[s].event.rec \in bloom'
  PROVE  r \in bloom' \/ Owing(r)'
BY DEF FilterInv, Owing

LEMMA FilterWriter ==
  ASSUME Steady, TypeInv, FilterInv, NEW w \in Writers, WriterNext(w)
  PROVE  FilterInv'
<1>1. /\ UNCHANGED scanner
      /\ \A x \in Writers \ {w} : writer'[x] = writer[x]
  BY WriterLeaves
<1>2. CASE writer[w].pc = "idle" \/ writer[w] = IdleWriter \/ BackendPut(w)
  <2>1. UNCHANGED <<verdicts, bloom>> /\ writer[w].pc # "finish" /\ writer'[w].pc # "pending"
    <3>1. ASSUME NEW content \in Contents, NEW channel \in Channels, RejectWrite(w, content, channel)
          PROVE  UNCHANGED <<verdicts, bloom>> /\ writer[w].pc # "finish" /\ writer'[w].pc # "pending"
      BY <3>1 DEF RejectWrite, caches, threads, IdleWriter
    <3>2. ASSUME NEW content \in Contents, NEW channel \in Channels, NEW r \in Records,
                 StartWrite(w, r, content, channel)
          PROVE  UNCHANGED <<verdicts, bloom>> /\ writer[w].pc # "finish" /\ writer'[w].pc # "pending"
      BY <3>2 DEF StartWrite, caches, IdleWriter, TypeInv, TypeOK
    <3>3. ASSUME BackendPut(w)
          PROVE  UNCHANGED <<verdicts, bloom>> /\ writer[w].pc # "finish" /\ writer'[w].pc # "pending"
      <4>1. writer[w] \in WriterState
        BY <3>3, Inside DEF BackendPut
      <4> QED
        BY <3>3, <4>1 DEF BackendPut, caches, tables, WriterState, TypeInv, TypeOK
    <3>4. ~(PutEnvelope(w) \/ PutPending(w) \/ FinishWrite(w) \/ WriteRaises(w))
      BY <1>2 DEF BackendPut, PutEnvelope, PutPending, FinishWrite, WriteRaises, IdleWriter, Steady
    <3> QED
      BY <3>1, <3>2, <3>3, <3>4 DEF WriterNext, WriterStep
  <2> QED
    BY <1>1, <2>1, OwingKept DEF FilterInv
<1>3. CASE PutEnvelope(w)
  <2>1. writer[w] \in WriterState
    BY <1>3, Inside DEF PutEnvelope
  <2>2. /\ UNCHANGED <<verdicts, bloom>> /\ writer[w].pc # "finish"
        /\ writer'[w].pc = "pending" => writer'[w].env.quarantined
    BY <1>3, <2>1 DEF PutEnvelope, caches, WriterState, TypeInv, TypeOK
  <2> QED
    BY <1>1, <2>2, OwingKept DEF FilterInv
<1>4. CASE PutPending(w)
  <2>1. writer[w] \in WriterState
    BY <1>4, Inside DEF PutPending
  <2>2. /\ bloom' = bloom /\ writer[w].pc # "finish"
        /\ writer'[w].pc = "finish" /\ writer'[w].rec = writer[w].rec
        /\ writer'[w].env.quarantined
        /\ \A r \in Records \ {writer[w].rec} : verdicts'[r] = verdicts[r]
    BY <1>4, <2>1 DEF PutPending, caches, WriterState, TypeInv, TypeOK, FilterInv
  <2>3. Owing(writer[w].rec)'
    BY <2>2 DEF Owing
  <2>4. \A r \in Records \ {writer[w].rec} : verdicts'[r] # None => r \in bloom' \/ Owing(r)'
    BY <1>1, <2>2, OwingKept
  <2>5. \A x \in Writers : writer'[x].pc = "pending" => writer'[x].env.quarantined
    BY <1>1, <2>2 DEF FilterInv
  <2>6. \A r \in Records : r = writer[w].rec => Owing(r)'
    BY <2>2 DEF Owing
  <2> QED
    BY <2>4, <2>5, <2>6 DEF FilterInv
<1>5. CASE FinishWrite(w)
  <2>1. writer[w] \in WriterState
    BY <1>5, Inside DEF FinishWrite
  <2>2. /\ verdicts' = verdicts /\ writer'[w] = IdleWriter /\ bloom \subseteq bloom'
        /\ writer[w].env.quarantined => writer[w].rec \in bloom'
    BY <1>5, Published DEF FinishWrite, tables, TypeInv, TypeOK
  <2>3. \A x \in Writers : writer'[x].pc = "pending" => writer'[x].env.quarantined
    BY <1>1, <2>2 DEF FilterInv, IdleWriter
  <2> QED
    BY <1>1, <2>2, <2>3, OwingKept DEF FilterInv
<1>6. ~WriteRaises(w)
  BY DEF WriteRaises, Steady
<1> QED
  BY <1>2, <1>3, <1>4, <1>5, <1>6 DEF WriterNext, WriterStep, RejectWrite, StartWrite

LEMMA FilterScanner ==
  ASSUME Steady, TypeInv, FilterInv, NEW s \in Scanners, ScannerNext(s)
  PROVE  FilterInv'
<1>1. /\ UNCHANGED writer
      /\ \A t \in Scanners \ {s} : scanner'[t] = scanner[t]
  BY ScannerLeaves
<1>2. CASE scanner[s].pc # "publish" /\ UNCHANGED <<verdicts, bloom>>
  BY <1>1, <1>2, OwingKept DEF FilterInv
<1>3. CASE DeleteVerdict(s)
  <2>1. /\ bloom' = bloom /\ scanner[s].pc # "publish"
        /\ \A r \in Records : verdicts'[r] = verdicts[r] \/ verdicts'[r] = None
    BY <1>3 DEF DeleteVerdict, caches, TypeInv, TypeOK
  <2> QED
    BY <1>1, <2>1, OwingKept DEF FilterInv
<1>4. ASSUME NEW attack \in BOOLEAN, AssessContent(s, attack)
      PROVE  FilterInv'
  <2>1. scanner[s] \in ScannerState
    BY <1>4, Inside DEF AssessContent
  <2> DEFINE r == scanner[s].event.rec
  <2>2. /\ bloom' = bloom /\ scanner[s].pc = "assess"
        /\ \A q \in Records : q # r => verdicts'[q] = verdicts[q]
    BY <1>4 DEF AssessContent, caches, TypeInv, TypeOK
  <2>3. scanner'[s].pc = "publish" /\ scanner'[s].event = scanner[s].event
    BY <1>4, <2>1 DEF AssessContent, ScannerState, TypeInv, TypeOK, Steady
  <2>4. \A q \in Records : q = r => Owing(q)'
    BY <2>3 DEF Owing
  <2> HIDE DEF r
  <2>5. \A q \in Records : q # r /\ verdicts[q] # None => q \in bloom' \/ Owing(q)'
    BY <1>1, <2>2, OwingKept
  <2> QED
    BY <1>1, <2>2, <2>4, <2>5 DEF FilterInv
<1>5. CASE Publish(s)
  <2>1. /\ verdicts' = verdicts /\ bloom \subseteq bloom' /\ scanner[s].event.rec \in bloom'
    BY <1>5, Published DEF Publish, tables
  <2> QED
    BY <1>1, <2>1, OwingKept DEF FilterInv
<1>6. ASSUME NEW e \in stream, Receive(s, e) \/ ReceiveDelete(s, e)
      PROVE  scanner[s].pc # "publish" /\ UNCHANGED <<verdicts, bloom>>
  BY <1>6 DEF Receive, ReceiveDelete, Deliverable, ScannerTo, IdleScanner, tables, caches
<1>7. ASSUME Bind(s) \/ ReadExisting(s) \/ Acknowledge(s) \/ LoseCheckpoint(s)
      PROVE  scanner[s].pc # "publish" /\ UNCHANGED <<verdicts, bloom>>
  BY <1>7 DEF Bind, ReadExisting, Acknowledge, LoseCheckpoint, ScannerTo, tables, caches
<1>8. ~ScanRaises(s)
  BY DEF ScanRaises, Steady
<1> QED
  BY <1>2, <1>3, <1>4, <1>5, <1>6, <1>7, <1>8 DEF ScannerNext, ScannerStep

\* cache.py:8, for any number of records, writers and scanners: a filter
\* negative means that there is no verdict, or that it is just being published.
THEOREM FilterHasNoFalseNegatives ==
  ASSUME Steady
  PROVE  Spec => []NoFalseNegatives
<1>1. Init => FilterInv
  BY DEF Init, FilterInv, IdleWriter
<1>2. TypeInv /\ FilterInv /\ [Next]_vars => FilterInv'
  <2> SUFFICES ASSUME TypeInv, FilterInv, [Next]_vars PROVE FilterInv'
    OBVIOUS
  <2>1. CASE UNCHANGED vars
    BY <2>1 DEF vars, tables, caches, threads, FilterInv, Owing
  <2>2. CASE Environment
    <3>1. UNCHANGED <<verdicts, bloom, writer, scanner>>
      BY <2>2 DEF Environment, ExtractionCreate, BackendUpdate, BackendDelete, Tick, Restart,
                  Steady, tables, caches, threads
    <3> QED
      BY <3>1 DEF FilterInv, Owing
  <2>3. ASSUME NEW p \in Readers, ReaderNext(p) PROVE FilterInv'
    BY <2>3, ReaderLeaves DEF FilterInv, Owing, caches
  <2> QED
    BY <2>1, <2>2, <2>3, FilterWriter, FilterScanner DEF Next
<1>3. FilterInv => NoFalseNegatives
  BY DEF FilterInv, Owing, NoFalseNegatives, Publishing
<1> QED
  BY <1>1, <1>2, <1>3, TypeInit, TypeStep, PTL DEF Spec

-----------------------------------------------------------------------------
(* What the gates do to a candidate.                                       *)

\* The candidate at hand is admitted, or goes on to the next step of its read.
KeepsItem(st, new) ==
  /\ new.todo = st.todo
  /\ \/ /\ new.pc = "next" /\ new.item = None
        /\ new.admitted = st.admitted \cup {st.item}
     \/ /\ new.pc # "next" /\ new.item = st.item /\ new.env = st.env /\ new.now = st.now
        /\ new.admitted = st.admitted

\* No envelope, or one past its retention, admits nothing, now or after an answer.
HaltsExpired(st, new, env) ==
  env = None \/ expired(env, st.now) =>
    /\ new.admitted = st.admitted
    /\ ~(new.pc \in {"oracle", "hop"} /\ new.gate = "trust_gate")

Judges(st, new, env) == KeepsItem(st, new) /\ HaltsExpired(st, new, env)

LEMMA AdmitJudges ==
  ASSUME NEW st \in ReaderState, NEW env, env # None, ~expired(env, st.now)
  PROVE  Judges(st, Admit(st), env)
BY DEF Admit, Advance, ReaderState, Judges, KeepsItem, HaltsExpired

LEMMA DropAtJudges ==
  ASSUME NEW st \in ReaderState, NEW gate, NEW env
  PROVE  Judges(st, DropAt(st, gate), env)
BY DEF DropAt, ReaderState, Judges, KeepsItem, HaltsExpired

LEMMA AskJudges ==
  ASSUME NEW st \in ReaderState, NEW gate, NEW env,
         gate = "trust_gate" => env # None /\ ~expired(env, st.now)
  PROVE  Judges(st, Ask(st, gate), env)
BY DEF Ask, ReaderState, Judges, KeepsItem, HaltsExpired

LEMMA StoppedWhenExpired ==
  ASSUME NEW st, NEW env, StoppedBy(st, env) = ""
  PROVE  ~expired(env, st.now)
BY DEF StoppedBy

LEMMA AfterQuarantineJudges ==
  ASSUME NEW st \in ReaderState, st.env # None
  PROVE  Judges(st, AfterQuarantine(st), st.env)
BY AdmitJudges, DropAtJudges, AskJudges, StoppedWhenExpired DEF AfterQuarantine

LEMMA AfterEnvelopeJudges ==
  ASSUME NEW st \in ReaderState
  PROVE  Judges(st, AfterEnvelope(st), st.env)
BY AfterQuarantineJudges, DropAtJudges, AskJudges DEF AfterEnvelope

LEMMA AfterVerdictJudges ==
  ASSUME NEW st \in ReaderState, st.env # None, NEW v, st.gate \in {"quarantine", "trust_gate"},
         st.gate = "trust_gate" => ~expired(st.env, st.now)
  PROVE  Judges(st, AfterVerdict(st, v), st.env)
BY AfterQuarantineJudges, DropAtJudges, AdmitJudges DEF AfterVerdict

LEMMA DegradeJudges ==
  ASSUME NEW st \in ReaderState, st.env # None
  PROVE  Judges(st, Degrade(st), st.env)
BY DropAtJudges, AdmitJudges DEF Degrade

LEMMA DegradeWithoutJudges ==
  ASSUME NEW st \in ReaderState, NEW cached
  PROVE  /\ KeepsItem(st, DegradeWithout(st, cached))
         /\ DegradeWithout(st, cached).admitted # st.admitted =>
              /\ cached # None /\ ~(cached.trust_tier < FIRST_PARTY)
              /\ ~expired(cached, st.now)
         /\ DegradeWithout(st, cached).pc \in {"next", "drop"}
<1>1. ASSUME NEW gate
      PROVE  DropAt(st, gate).admitted = st.admitted /\ DropAt(st, gate).pc = "drop"
  BY DEF DropAt, ReaderState
<1>2. Admit(st).pc = "next"
  BY DEF Admit, Advance, ReaderState
<1>3. CASE cached = None \/ cached.trust_tier < FIRST_PARTY
  BY <1>1, <1>3, DropAtJudges DEF DegradeWithout, Judges
<1>4. CASE ~(cached = None \/ cached.trust_tier < FIRST_PARTY) /\ StoppedBy(st, cached) # ""
  BY <1>1, <1>4, DropAtJudges DEF DegradeWithout, Judges
<1>5. CASE ~(cached = None \/ cached.trust_tier < FIRST_PARTY) /\ StoppedBy(st, cached) = ""
  BY <1>2, <1>5, StoppedWhenExpired, AdmitJudges DEF DegradeWithout, Judges
<1> QED
  BY <1>3, <1>4, <1>5

\* A reader between two candidates has none at hand.
Between == \A p \in Readers : reader[p].pc = "next" => reader[p].item = None

\* One whose candidate has passed gates 2 and 3 has an envelope that has not expired.
Passed ==
  \A p \in Readers :
    reader[p].pc \in {"oracle", "hop"} /\ reader[p].gate = "trust_gate"
    => ~expired(reader[p].env, reader[p].now)

LEMMA JudgingNow ==
  ASSUME TypeInv, NEW p \in Readers, reader[p].pc = "next", NEW item \in Item,
         NEW env \in Envelope \cup {None}
  PROVE  Judging(p, item, env).now = clock
BY Inside DEF Judging, ReaderState, TypeInv, TypeOK

\* The four ways a step of a reader in a call can go.
ReaderMoves(p) ==
  \/ \E item \in reader[p].todo :
       /\ reader[p].pc = "next"
       /\ \/ Judges(Judging(p, item, envelopes[item.rec]), reader'[p], envelopes[item.rec])
          \/ /\ KeepsItem(Judging(p, item, None), reader'[p])
             /\ reader'[p].pc \in {"next", "drop"}
             /\ reader'[p].admitted # reader[p].admitted =>
                  /\ env_cache[item.rec] # None
                  /\ ~(env_cache[item.rec].trust_tier < FIRST_PARTY)
                  /\ ~expired(env_cache[item.rec], clock)
  \/ /\ reader[p].pc \in {"oracle", "hop", "drop"}
     /\ Judges(reader[p], reader'[p], reader[p].env)
  \/ /\ reader[p].pc = "drop" /\ Entry("READ_DROP", reader[p].item.rec) \in audit'
     /\ reader'[p] = Advance(reader[p], reader[p].admitted)
  \/ /\ reader[p] = IdleReader
     /\ reader'[p] # IdleReader => reader'[p].pc = "next" /\ reader'[p].item = None
  \/ reader'[p] = IdleReader

LEMMA MovesOfReader ==
  ASSUME TypeInv, Passed, NEW p \in Readers, ReaderNext(p)
  PROVE  ReaderMoves(p)
<1>1. \A st : ReaderTo(p, st) => reader'[p] = st
  BY DEF ReaderTo, TypeInv, TypeOK
<1>2. ASSUME NEW item \in Item, GetEnvelope(p, item)
      PROVE  ReaderMoves(p)
  <2> DEFINE env == envelopes[item.rec]
             st  == Judging(p, item, env)
  <2>1. env \in Envelope \cup {None} /\ item \in reader[p].todo /\ reader[p].pc = "next"
    BY <1>2 DEF GetEnvelope, TypeInv, TypeOK, Item
  <2>2. st \in ReaderState /\ st.env = env
    BY <2>1, JudgingFields
  <2>3. reader'[p] = AfterEnvelope(st)
    BY <1>1, <1>2 DEF GetEnvelope
  <2> HIDE DEF env, st
  <2>4. Judges(st, reader'[p], env)
    BY <2>2, <2>3, AfterEnvelopeJudges
  <2> QED
    BY <2>1, <2>4 DEF ReaderMoves, env, st
<1>3. ASSUME NEW item \in Item, EnvelopeTableDown(p, item)
      PROVE  ReaderMoves(p)
  <2> DEFINE st == Judging(p, item, None)
             cached == env_cache[item.rec]
  <2>1. item \in reader[p].todo /\ reader[p].pc = "next"
    BY <1>3 DEF EnvelopeTableDown
  <2>2. st \in ReaderState /\ st.now = clock /\ st.admitted = reader[p].admitted
    BY <2>1, JudgingFields, JudgingNow
  <2>3. reader'[p] = DegradeWithout(st, cached)
    BY <1>1, <1>3 DEF EnvelopeTableDown
  <2> HIDE DEF st, cached
  <2>4. /\ KeepsItem(st, reader'[p]) /\ reader'[p].pc \in {"next", "drop"}
        /\ reader'[p].admitted # st.admitted =>
             /\ cached # None /\ ~(cached.trust_tier < FIRST_PARTY) /\ ~expired(cached, st.now)
    BY <2>2, <2>3, DegradeWithoutJudges
  <2> QED
    BY <2>1, <2>2, <2>4 DEF ReaderMoves, st, cached
<1>4. ASSUME NEW v, reader[p].pc \in {"oracle", "hop"}, ReaderTo(p, AfterVerdict(reader[p], v))
      PROVE  ReaderMoves(p)
  <2>1. reader[p] \in ReaderState /\ ReaderShape(reader[p])
    BY <1>4, Inside
  <2>2. Judges(reader[p], AfterVerdict(reader[p], v), reader[p].env)
    BY <1>4, <2>1, AfterVerdictJudges, NoneAssumption DEF ReaderShape, Passed
  <2> QED
    BY <1>1, <1>4, <2>2 DEF ReaderMoves
<1>5. CASE ConsultOracle(p)
  <2>1. reader[p].pc = "oracle" /\ reader[p] \in ReaderState /\ reader[p].env # None
    BY <1>5, Inside, NoneAssumption DEF ConsultOracle, ReaderShape
  <2>2. ASSUME ReaderTo(p, [reader[p] EXCEPT !.pc = "hop"])
        PROVE  ReaderMoves(p)
    <3>1. Judges(reader[p], [reader[p] EXCEPT !.pc = "hop"], reader[p].env)
      BY <2>1 DEF Judges, KeepsItem, HaltsExpired, ReaderState, Passed
    <3> QED
      BY <1>1, <2>1, <2>2, <3>1 DEF ReaderMoves
  <2> QED
    BY <1>4, <1>5, <2>1, <2>2 DEF ConsultOracle
<1>6. CASE GetVerdict(p)
  BY <1>4, <1>6 DEF GetVerdict
<1>7. CASE QuarantineTableDown(p)
  <2>1. reader[p].pc = "hop" /\ reader'[p] = Degrade(reader[p]) /\ reader[p].env # None
    BY <1>1, <1>7, Inside, NoneAssumption DEF QuarantineTableDown, ReaderShape
  <2> QED
    BY <2>1, Inside, DegradeJudges DEF ReaderMoves
<1>8. CASE Drop(p)
  BY <1>8 DEF Drop, audit_append, TypeInv, TypeOK, ReaderMoves
<1>9. CASE DropAuditDown(p)
  <2>1. /\ reader[p].pc = "drop"
        /\ \/ reader'[p] = Degrade(reader[p]) /\ reader[p].env # None
           \/ reader'[p] = IdleReader
    BY <1>1, <1>9 DEF DropAuditDown, Guarded
  <2> QED
    BY <2>1, Inside, DegradeJudges DEF ReaderMoves
<1>10. CASE RetrieveElsewhere(p)
  BY <1>10 DEF RetrieveElsewhere, threads, ReaderMoves
<1>11. ASSUME NEW candidates \in SUBSET Stored, StartRetrieve(p, candidates)
       PROVE  ReaderMoves(p)
  <2> DEFINE st == [pc |-> "next", todo |-> candidates, admitted |-> {}, item |-> None,
                    now |-> 0, env |-> None, gate |-> ""]
  <2>1. reader[p] = IdleReader /\ ReaderTo(p, st)
    BY <1>11 DEF StartRetrieve
  <2>2. st.pc = "next" /\ st.item = None
    OBVIOUS
  <2> HIDE DEF st
  <2> QED
    BY <1>1, <2>1, <2>2 DEF ReaderMoves
<1>12. CASE Return(p) \/ ReturnAuditDown(p)
  BY <1>1, <1>12 DEF Return, ReturnAuditDown, ReaderMoves, TypeInv, TypeOK
<1> QED
  BY <1>2, <1>3, <1>5, <1>6, <1>7, <1>8, <1>9, <1>10, <1>11, <1>12 DEF ReaderNext

LEMMA MovesOfReaders ==
  ASSUME TypeInv, Passed, [Next]_vars, NEW p \in Readers
  PROVE  reader'[p] = reader[p] \/ ReaderMoves(p)
<1>1. CASE UNCHANGED vars
  BY <1>1 DEF vars, threads
<1>2. CASE Environment
  <2>1. reader' = reader \/ Restart
    BY <1>2 DEF Environment, ExtractionCreate, BackendUpdate, BackendDelete, Tick, threads
  <2> QED
    BY <2>1 DEF Restart, ReaderMoves
<1>3. ASSUME NEW w \in Writers, WriterNext(w) PROVE reader'[p] = reader[p]
  BY <1>3, WriterLeaves
<1>4. ASSUME NEW q \in Readers, ReaderNext(q) PROVE reader'[p] = reader[p] \/ ReaderMoves(p)
  BY <1>4, ReaderLeaves, MovesOfReader
<1>5. ASSUME NEW s \in Scanners, ScannerNext(s) PROVE reader'[p] = reader[p]
  BY <1>5, ScannerLeaves
<1> QED
  BY <1>1, <1>2, <1>3, <1>4, <1>5 DEF Next

LEMMA AdvanceFields ==
  ASSUME NEW st \in ReaderState
  PROVE  /\ Advance(st, st.admitted).pc = "next" /\ Advance(st, st.admitted).item = None
         /\ Advance(st, st.admitted).todo = st.todo
         /\ Advance(st, st.admitted).admitted = st.admitted
BY DEF Advance, ReaderState

LEMMA JudgingAll ==
  ASSUME TypeInv, NEW p \in Readers, reader[p].pc = "next", NEW item \in reader[p].todo,
         NEW env \in {envelopes[item.rec], None}
  PROVE  /\ item \in Item /\ Judging(p, item, env).now = clock
         /\ Judging(p, item, env).item = item /\ Judging(p, item, env).env = env
         /\ Judging(p, item, env).todo = reader[p].todo \ {item}
         /\ Judging(p, item, env).admitted = reader[p].admitted
<1>1. item \in Item
  BY Inside DEF ReaderState
<1>2. env \in Envelope \cup {None}
  BY <1>1 DEF TypeInv, TypeOK, Item
<1> QED
  BY <1>1, <1>2, JudgingFields, JudgingNow

LEMMA BetweenStep ==
  ASSUME TypeInv, Between, Passed, [Next]_vars
  PROVE  Between' /\ Passed'
<1> SUFFICES ASSUME NEW p \in Readers
             PROVE  /\ reader'[p].pc = "next" => reader'[p].item = None
                    /\ reader'[p].pc \in {"oracle", "hop"} /\ reader'[p].gate = "trust_gate"
                         => ~expired(reader'[p].env, reader'[p].now)
  BY DEF Between, Passed, expired
<1>1. CASE reader'[p] = reader[p]
  BY <1>1 DEF Between, Passed
<1>2. ASSUME NEW item \in reader[p].todo, reader[p].pc = "next",
             Judges(Judging(p, item, envelopes[item.rec]), reader'[p], envelopes[item.rec])
      PROVE  /\ reader'[p].pc = "next" => reader'[p].item = None
             /\ reader'[p].pc \in {"oracle", "hop"} /\ reader'[p].gate = "trust_gate"
                  => ~expired(reader'[p].env, reader'[p].now)
  BY <1>2, JudgingAll DEF Judges, KeepsItem, HaltsExpired
<1>3. ASSUME NEW item \in reader[p].todo, KeepsItem(Judging(p, item, None), reader'[p]),
             reader'[p].pc \in {"next", "drop"}
      PROVE  /\ reader'[p].pc = "next" => reader'[p].item = None
             /\ reader'[p].pc \notin {"oracle", "hop"}
  BY <1>3 DEF KeepsItem
<1>4. CASE Judges(reader[p], reader'[p], reader[p].env)
  BY <1>4 DEF Judges, KeepsItem, HaltsExpired
<1>5. CASE reader[p].pc = "drop" /\ reader'[p] = Advance(reader[p], reader[p].admitted)
  BY <1>5, Inside, AdvanceFields
<1>6. CASE reader'[p] = IdleReader
  BY <1>6 DEF IdleReader
<1> QED
  BY <1>1, <1>2, <1>3, <1>4, <1>5, <1>6, MovesOfReaders DEF ReaderMoves

LEMMA BetweenInit == Init => Between /\ Passed
BY DEF Init, Between, Passed, IdleReader

\* No step of any thread makes a candidate disappear from a read without its
\* READ_DROP entry: it is still to be judged, at hand, admitted, or on record;
\* the audit and quarantine outages of _admit() included (governed.py: _admit()).
THEOREM CandidatesAccountedFor == Spec => NoSilentDrop
<1> DEFINE Kept(p) ==
      reader[p] # IdleReader /\ reader'[p] # IdleReader =>
        \A item \in (reader[p].todo \cup {reader[p].item}) \ {None} :
          \/ item \in reader'[p].todo \cup {reader'[p].item} \cup reader'[p].admitted
          \/ Entry("READ_DROP", item.rec) \in audit'
<1>1. ASSUME TypeInv, Between, Passed, [Next]_vars
      PROVE  \A p \in Readers : Kept(p)
  <2> SUFFICES ASSUME NEW p \in Readers PROVE Kept(p)
    OBVIOUS
  <2>1. CASE reader'[p] = reader[p]
    BY <2>1
  <2>2. ASSUME NEW item \in reader[p].todo, reader[p].pc = "next",
               NEW env \in {envelopes[item.rec], None}, KeepsItem(Judging(p, item, env), reader'[p])
        PROVE  Kept(p)
    <3>1. /\ reader'[p].todo = reader[p].todo \ {item} /\ reader[p].item = None
          /\ item = reader'[p].item \/ item \in reader'[p].admitted
      BY <1>1, <2>2, JudgingAll DEF KeepsItem, Between
    <3> QED
      BY <3>1
  <2>3. CASE Judges(reader[p], reader'[p], reader[p].env)
    BY <2>3 DEF Judges, KeepsItem
  <2>4. CASE /\ reader[p].pc = "drop" /\ Entry("READ_DROP", reader[p].item.rec) \in audit'
             /\ reader'[p] = Advance(reader[p], reader[p].admitted)
    BY <1>1, <2>4, Inside, AdvanceFields
  <2> QED
    BY <1>1, <2>1, <2>2, <2>3, <2>4, MovesOfReaders DEF ReaderMoves, Judges
<1>2. TypeInv /\ Between /\ Passed /\ [Next]_vars
        => [\A p \in Readers : Kept(p)]_vars
  BY <1>1
<1>3. Init /\ [][Next]_vars => [][\A p \in Readers : Kept(p)]_vars
  BY <1>2, TypeInit, TypeStep, BetweenInit, BetweenStep, PTL
<1> QED
  BY <1>3 DEF Spec, NoSilentDrop

-----------------------------------------------------------------------------
(* Retention.                                                              *)

\* An envelope that is not the scanner's own stamp expires when the record does.
KeptExpiry(r, env) ==
  env.trust_tier # DERIVED =>
    Known(r) /\ env.expires_at_epoch = origin[r].expires_at_epoch

ReaderKeeps(st) ==
  st.pc \in {"oracle", "hop", "drop"} /\ st.env # None => KeptExpiry(st.item.rec, st.env)

ScannerKeeps(st) == st.pc = "bind" => KeptExpiry(st.event.rec, st.env)

ExpiryInv ==
  /\ \A r \in Records :
       /\ envelopes[r] # None => KeptExpiry(r, envelopes[r])
       /\ env_cache[r] # None => KeptExpiry(r, env_cache[r])
  /\ \A p \in Readers : ReaderKeeps(reader[p])
  /\ \A s \in Scanners : ScannerKeeps(scanner[s])

LEMMA ExpiryStays ==
  ASSUME Grows, NEW r \in Records
  PROVE  \A env : KeptExpiry(r, env) => KeptExpiry(r, env)'
BY DEF Grows, KeptExpiry, Known

LEMMA TablesKeep ==
  ASSUME Grows, ExpiryInv, NEW r \in Records
  PROVE  /\ envelopes'[r] = envelopes[r] /\ envelopes[r] # None => KeptExpiry(r, envelopes[r])'
         /\ env_cache'[r] = env_cache[r] /\ env_cache[r] # None => KeptExpiry(r, env_cache[r])'
<1>1. PICK env, cached : env = envelopes[r] /\ cached = env_cache[r]
  OBVIOUS
<1>2. (env # None => KeptExpiry(r, env)') /\ (cached # None => KeptExpiry(r, cached)')
  BY <1>1, ExpiryStays DEF ExpiryInv
<1> QED
  BY <1>1, <1>2

LEMMA ReaderKeepsOn ==
  ASSUME Grows, TypeInv, ExpiryInv, NEW p \in Readers, reader'[p] = reader[p]
  PROVE  ReaderKeeps(reader[p])'
<1>1. PICK st : st = reader[p]
  OBVIOUS
<1>2. ASSUME st.pc \in {"oracle", "hop", "drop"}, st.env # None
      PROVE  KeptExpiry(st.item.rec, st.env)'
  <2>1. st.item.rec \in Records
    BY <1>1, <1>2, Inside DEF ReaderShape, Item
  <2> QED
    BY <1>1, <1>2, <2>1, ExpiryStays DEF ExpiryInv, ReaderKeeps
<1> QED
  BY <1>1, <1>2 DEF ReaderKeeps

LEMMA ScannerKeepsOn ==
  ASSUME Grows, TypeInv, ExpiryInv, NEW s \in Scanners, scanner'[s] = scanner[s]
  PROVE  ScannerKeeps(scanner[s])'
<1>1. PICK st : st = scanner[s]
  OBVIOUS
<1>2. ASSUME st.pc = "bind"
      PROVE  KeptExpiry(st.event.rec, st.env)'
  <2>1. st.event.rec \in Records
    BY <1>1, <1>2, Inside DEF ScannerState, Event
  <2> QED
    BY <1>1, <1>2, <2>1, ExpiryStays DEF ExpiryInv, ScannerKeeps
<1> QED
  BY <1>1, <1>2 DEF ScannerKeeps

LEMMA ExpiryOfReader ==
  ASSUME Grows, TypeInv, ExpiryInv, Passed, [Next]_vars, NEW p \in Readers
  PROVE  ReaderKeeps(reader[p])'
<1>1. CASE reader'[p] = reader[p]
  BY <1>1, ReaderKeepsOn
<1>2. ASSUME NEW item \in reader[p].todo, reader[p].pc = "next",
             NEW env \in {envelopes[item.rec], None}, KeepsItem(Judging(p, item, env), reader'[p])
      PROVE  ReaderKeeps(reader[p])'
  <2>1. ASSUME reader'[p].pc # "next"
        PROVE  reader'[p].item = item /\ reader'[p].env = env
    BY <1>2, <2>1, JudgingAll DEF KeepsItem
  <2>2. env # None => KeptExpiry(item.rec, env)'
    BY <1>2, JudgingAll, ExpiryStays DEF ExpiryInv, Item
  <2> QED
    BY <2>1, <2>2 DEF ReaderKeeps, KeptExpiry, Known
<1>3. CASE reader[p].pc \in {"oracle", "hop", "drop"} /\ Judges(reader[p], reader'[p], reader[p].env)
  <2>1. reader'[p].pc # "next" => reader'[p].item = reader[p].item /\ reader'[p].env = reader[p].env
    BY <1>3 DEF Judges, KeepsItem
  <2>2. PICK r, env : r = reader[p].item.rec /\ env = reader[p].env
    OBVIOUS
  <2>3. r \in Records
    BY <1>3, <2>2, Inside DEF ReaderShape, Item
  <2>4. env # None => KeptExpiry(r, env)'
    BY <1>3, <2>2, <2>3, ExpiryStays DEF ExpiryInv, ReaderKeeps
  <2> QED
    BY <2>1, <2>2, <2>4 DEF ReaderKeeps, KeptExpiry, Known
<1>4. CASE reader'[p].pc \in {"next", "idle"}
  BY <1>4 DEF ReaderKeeps
<1>5. CASE reader[p].pc = "drop" /\ reader'[p] = Advance(reader[p], reader[p].admitted)
  BY <1>4, <1>5, Inside, AdvanceFields
<1>6. CASE reader'[p] = IdleReader
  BY <1>4, <1>6 DEF IdleReader
<1> QED
  BY <1>1, <1>2, <1>3, <1>4, <1>5, <1>6, MovesOfReaders DEF ReaderMoves, Judges

LEMMA ScannersKeepOn ==
  ASSUME Grows, TypeInv, ExpiryInv, UNCHANGED scanner
  PROVE  \A s \in Scanners : ScannerKeeps(scanner[s])'
BY ScannerKeepsOn

LEMMA ExpiryWriter ==
  ASSUME Grows, IInv, ExpiryInv, NEW w \in Writers, WriterNext(w), NEW r \in Records
  PROVE  /\ envelopes'[r] # None => KeptExpiry(r, envelopes[r])'
         /\ env_cache'[r] # None => KeptExpiry(r, env_cache[r])'
<1>1. CASE UNCHANGED <<envelopes, env_cache>>
  BY <1>1, TablesKeep
<1>2. CASE PutEnvelope(w) \/ FinishWrite(w)
  <2>1. writer[w] \in WriterState /\ WriterSound(writer[w])
    <3>1. writer[w].pc \in {"envelope", "finish"}
      BY <1>2 DEF PutEnvelope, FinishWrite
    <3>2. writer[w] # IdleWriter
      BY <3>1 DEF IdleWriter
    <3> QED
      BY <3>1, <3>2, Inside DEF IInv, Sound, ThreadsSound
  <2>2. KeptExpiry(writer[w].rec, writer[w].env)
    BY <2>1, NoneAssumption DEF WriterSound, KeptExpiry, Known, WriterState
  <2>3. PICK q, env : q = writer[w].rec /\ env = writer[w].env
    OBVIOUS
  <2>4. KeptExpiry(q, env)'
    BY <2>1, <2>2, <2>3, ExpiryStays DEF WriterState
  <2>5. /\ envelopes'[r] = envelopes[r] \/ (r = q /\ envelopes'[r] = env)
        /\ env_cache'[r] = env_cache[r] \/ (r = q /\ env_cache'[r] = env)
    BY <1>2, <2>3 DEF PutEnvelope, FinishWrite, tables, caches, IInv, TypeInv, TypeOK
  <2>6. /\ envelopes'[r] = env => KeptExpiry(q, envelopes[r])'
        /\ env_cache'[r] = env => KeptExpiry(q, env_cache[r])'
    BY <2>4 DEF KeptExpiry, Known
  <2> QED
    BY <2>5, <2>6, TablesKeep
<1>3. ASSUME NEW content \in Contents, NEW channel \in Channels, NEW q \in Records,
             RejectWrite(w, content, channel) \/ StartWrite(w, q, content, channel)
      PROVE  UNCHANGED <<envelopes, env_cache>>
  BY <1>3 DEF RejectWrite, StartWrite, caches
<1>4. ASSUME BackendPut(w) \/ PutPending(w) \/ WriteRaises(w)
      PROVE  UNCHANGED <<envelopes, env_cache>>
  BY <1>4 DEF BackendPut, PutPending, WriteRaises, caches, tables
<1>5. ASSUME NEW content \in Contents, NEW channel \in Channels, RejectWrite(w, content, channel)
      PROVE  UNCHANGED <<envelopes, env_cache>>
  BY <1>5 DEF RejectWrite, caches
<1> QED
  BY <1>1, <1>2, <1>3, <1>4, <1>5 DEF WriterNext, WriterStep

LEMMA UpsertedKeeps ==
  ASSUME TypeInv, ExpiryInv, NEW e \in Event, e.event_type # "DELETE"
  PROVE  KeptExpiry(e.rec, Upserted(envelopes[e.rec], e))
<1>1. e.rec \in Records
  BY DEF Event
<1>2. CASE envelopes[e.rec] = None
  BY <1>2 DEF Upserted, StampDerived, stamp, KeptExpiry
<1>3. CASE envelopes[e.rec] # None
  <2> DEFINE found == envelopes[e.rec]
             env   == Upserted(found, e)
  <2>1. found \in Envelope /\ env = [found EXCEPT !.content_sha256 = sha256_hex[e.content]]
    BY <1>1, <1>3 DEF Upserted, TypeInv, TypeOK
  <2>2. env.trust_tier = found.trust_tier /\ env.expires_at_epoch = found.expires_at_epoch
    BY <2>1 DEF Envelope
  <2> QED
    BY <1>1, <1>3, <2>2 DEF ExpiryInv, KeptExpiry
<1> QED
  BY <1>2, <1>3

LEMMA ExpiryScanner ==
  ASSUME Grows, IInv, ExpiryInv, NEW s \in Scanners, ScannerNext(s)
  PROVE  /\ \A r \in Records :
              /\ envelopes'[r] # None => KeptExpiry(r, envelopes[r])'
              /\ env_cache'[r] # None => KeptExpiry(r, env_cache[r])'
         /\ \A t \in Scanners : ScannerKeeps(scanner[t])'
<1> USE DEF IInv
<1>1. env_cache' = env_cache /\ \A t \in Scanners \ {s} : scanner'[t] = scanner[t]
  BY ScannerLeaves
<1>2. \A t \in Scanners \ {s} : ScannerKeeps(scanner[t])'
  BY <1>1, ScannerKeepsOn
<1>3. CASE Bind(s)
  <2>1. scanner[s] \in ScannerState /\ scanner[s].pc = "bind"
    BY <1>3, Inside DEF Bind
  <2>2. PICK q, env : q = scanner[s].event.rec /\ env = scanner[s].env
    OBVIOUS
  <2>3. q \in Records /\ KeptExpiry(q, env)
    BY <2>1, <2>2 DEF ExpiryInv, ScannerKeeps, ScannerState, Event
  <2>4. KeptExpiry(q, env)'
    BY <2>3, ExpiryStays
  <2>5. \A r \in Records : envelopes'[r] = envelopes[r] \/ (r = q /\ envelopes'[r] = env)
    BY <1>3, <2>2 DEF Bind, TypeInv, TypeOK
  <2>6. \A r \in Records : envelopes'[r] = env => KeptExpiry(q, envelopes[r])'
    BY <2>4 DEF KeptExpiry, Known
  <2>7. scanner'[s].pc = "existing"
    BY <1>3, <2>1 DEF Bind, ScannerState, TypeInv, TypeOK
  <2>8. ScannerKeeps(scanner[s])'
    BY <2>7 DEF ScannerKeeps
  <2> QED
    BY <1>1, <1>2, <2>5, <2>6, <2>8, TablesKeep
<1>4. ASSUME NEW e \in stream, Receive(s, e)
      PROVE  envelopes' = envelopes /\ ScannerKeeps(scanner[s])'
  <2> DEFINE env == Upserted(envelopes[e.rec], e)
             st  == [pc |-> IF envelopes[e.rec] = env THEN "existing" ELSE "bind",
                     event |-> e, env |-> env, verdict |-> None]
  <2>1. envelopes' = envelopes /\ scanner'[s] = st
    BY <1>4 DEF Receive, ScannerTo, tables, TypeInv, TypeOK
  <2>2. e \in Event /\ e.rec \in Records /\ e.event_type # "DELETE"
    BY <1>4 DEF Receive, TypeInv, TypeOK, Event
  <2>3. PICK now : now = env
    OBVIOUS
  <2>4. KeptExpiry(e.rec, now)'
    BY <2>2, <2>3, UpsertedKeeps, ExpiryStays
  <2>5. st.env = now /\ st.event = e
    BY <2>3
  <2> HIDE DEF env, st
  <2>6. scanner'[s].event.rec = e.rec /\ scanner'[s].env = now
    BY <2>1, <2>5
  <2>7. KeptExpiry(scanner[s].event.rec, scanner[s].env)'
    BY <2>4, <2>6 DEF KeptExpiry, Known
  <2> QED
    BY <2>1, <2>7 DEF ScannerKeeps
<1>5. ASSUME NEW e \in stream, ReceiveDelete(s, e)
      PROVE  /\ \A r \in Records : envelopes'[r] = envelopes[r] \/ envelopes'[r] = None
             /\ ScannerKeeps(scanner[s])'
  <2>1. scanner'[s].pc = "delete"
    BY <1>5 DEF ReceiveDelete, TypeInv, TypeOK
  <2> QED
    BY <1>5, <2>1 DEF ReceiveDelete, ScannerKeeps, TypeInv, TypeOK
<1>6. ASSUME DeleteVerdict(s) \/ ReadExisting(s) \/ Publish(s)
             \/ \E attack \in BOOLEAN : AssessContent(s, attack)
      PROVE  envelopes' = envelopes /\ ScannerKeeps(scanner[s])'
  <2>1. scanner[s] \in ScannerState
    BY <1>6, Inside DEF DeleteVerdict, ReadExisting, Publish, AssessContent
  <2>2. scanner'[s].pc \in {"ack", "assess", "publish"}
    <3>1. DeleteVerdict(s) => scanner'[s].pc = "ack"
      BY <2>1 DEF DeleteVerdict, ScannerState, TypeInv, TypeOK
    <3>2. ReadExisting(s) => scanner'[s].pc \in {"assess", "ack"}
      <4>1. \A st : ScannerTo(s, st) => scanner'[s] = st
        BY DEF ScannerTo, TypeInv, TypeOK
      <4>2. \A pc : [scanner[s] EXCEPT !.pc = pc].pc = pc
        BY <2>1 DEF ScannerState
      <4> QED
        BY <4>1, <4>2 DEF ReadExisting
    <3>3. Publish(s) => scanner'[s].pc = "ack"
      BY <2>1 DEF Publish, ScannerState, TypeInv, TypeOK
    <3>4. \A attack \in BOOLEAN : AssessContent(s, attack) => scanner'[s].pc \in {"publish", "ack"}
      BY <2>1 DEF AssessContent, ScannerState, TypeInv, TypeOK
    <3> QED
      BY <1>6, <3>1, <3>2, <3>3, <3>4
  <2>3. envelopes' = envelopes
    BY <1>6 DEF DeleteVerdict, ReadExisting, Publish, AssessContent, ScannerTo, tables
  <2> QED
    BY <2>2, <2>3 DEF ScannerKeeps
<1>7. ASSUME Acknowledge(s) \/ LoseCheckpoint(s) \/ ScanRaises(s)
      PROVE  envelopes' = envelopes /\ ScannerKeeps(scanner[s])'
  <2>1. scanner'[s] = IdleScanner /\ envelopes' = envelopes
    BY <1>7 DEF Acknowledge, LoseCheckpoint, ScanRaises, ScannerTo, tables, TypeInv, TypeOK
  <2> QED
    BY <2>1 DEF ScannerKeeps, IdleScanner
<1> QED
  BY <1>1, <1>2, <1>3, <1>4, <1>5, <1>6, <1>7, TablesKeep DEF ScannerNext, ScannerStep

LEMMA ExpiryStep ==
  ASSUME IInv, ExpiryInv, Passed, [Next]_vars
  PROVE  ExpiryInv'
<1>1. Grows /\ TypeInv
  BY HistoryGrows DEF IInv
<1>2. \A p \in Readers : ReaderKeeps(reader[p])'
  BY <1>1, ExpiryOfReader
<1>3. CASE UNCHANGED <<envelopes, env_cache, scanner>>
  BY <1>1, <1>2, <1>3, TablesKeep, ScannersKeepOn DEF ExpiryInv
<1>4. CASE UNCHANGED vars
  BY <1>3, <1>4 DEF vars, tables, caches, threads
<1>5. CASE Environment
  <2>1. CASE Restart
    <3>1. /\ UNCHANGED <<envelopes, scanner>>
          /\ \A r \in Records : env_cache'[r] = None
      BY <2>1 DEF Restart, tables
    <3> QED
      BY <1>1, <1>2, <3>1, TablesKeep, ScannersKeepOn DEF ExpiryInv
  <2>2. CASE ~Restart
    BY <1>3, <1>5, <2>2 DEF Environment, ExtractionCreate, BackendUpdate, BackendDelete, Tick,
       tables, caches, threads
  <2> QED
    BY <2>1, <2>2
<1>6. ASSUME NEW w \in Writers, WriterNext(w) PROVE ExpiryInv'
  BY <1>1, <1>2, <1>6, ExpiryWriter, WriterLeaves, ScannersKeepOn DEF ExpiryInv
<1>7. ASSUME NEW p \in Readers, ReaderNext(p) PROVE ExpiryInv'
  BY <1>1, <1>3, <1>7, ReaderLeaves DEF caches
<1>8. ASSUME NEW s \in Scanners, ScannerNext(s) PROVE ExpiryInv'
  BY <1>1, <1>2, <1>8, ExpiryScanner DEF ExpiryInv
<1> QED
  BY <1>4, <1>5, <1>6, <1>7, <1>8 DEF Next

LEMMA ExpiryInit == Init => ExpiryInv
BY DEF Init, ExpiryInv, ReaderKeeps, ScannerKeeps, IdleReader, IdleScanner

\* What holds when a reader admits an item: an envelope of the item's record
\* stands for it that has not expired.
LEMMA AdmittedFresh ==
  ASSUME IInv, ExpiryInv, Passed, [Next]_vars, NEW p \in Readers, NEW item \in NewlyAdmitted(p)
  PROVE  /\ item \in Item
         /\ \E env \in Envelope :
              /\ KeptExpiry(item.rec, env) /\ ~expired(env, ReadTime(p))
              /\ env.trust_tier # DERIVED \/ ByDerivedStamp(p, item.rec)
<1> USE DEF IInv
<1>1. /\ reader[p] # IdleReader /\ reader'[p] # IdleReader
      /\ item \in reader'[p].admitted /\ item \notin reader[p].admitted
  BY DEF NewlyAdmitted
<1>2. \A r \in Records : /\ envelopes[r] # None => envelopes[r] \in Envelope
                         /\ env_cache[r] # None => env_cache[r] \in Envelope
  BY DEF TypeInv, TypeOK
<1>3. ASSUME NEW cand \in reader[p].todo, reader[p].pc = "next",
             NEW env \in {envelopes[cand.rec], None}, KeepsItem(Judging(p, cand, env), reader'[p])
      PROVE  /\ item = cand /\ item \in Item /\ item.rec \in Records /\ ReadTime(p) = clock
             /\ Judging(p, cand, env).now = clock
             /\ reader'[p].admitted # Judging(p, cand, env).admitted
             /\ reader'[p].admitted # reader[p].admitted
  BY <1>1, <1>3, JudgingAll DEF KeepsItem, ReadTime, Item
<1>4. ASSUME NEW cand \in reader[p].todo, reader[p].pc = "next",
             Judges(Judging(p, cand, envelopes[cand.rec]), reader'[p], envelopes[cand.rec])
      PROVE  /\ item \in Item
             /\ \E env \in Envelope :
                  /\ KeptExpiry(item.rec, env) /\ ~expired(env, ReadTime(p))
                  /\ env.trust_tier # DERIVED \/ ByDerivedStamp(p, item.rec)
  <2> DEFINE env == envelopes[cand.rec]
  <2>1. /\ item = cand /\ item \in Item /\ item.rec \in Records
        /\ env # None /\ ~expired(env, ReadTime(p))
    BY <1>3, <1>4 DEF Judges, HaltsExpired
  <2>2. env \in Envelope /\ KeptExpiry(item.rec, env)
    BY <1>2, <2>1 DEF ExpiryInv
  <2>3. env.trust_tier # DERIVED \/ ByDerivedStamp(p, item.rec)
    BY <1>4, <2>1 DEF ByDerivedStamp
  <2> QED
    BY <2>1, <2>2, <2>3
<1>5. ASSUME NEW cand \in reader[p].todo, reader[p].pc = "next",
             KeepsItem(Judging(p, cand, None), reader'[p]),
             reader'[p].admitted # reader[p].admitted =>
               /\ env_cache[cand.rec] # None
               /\ ~(env_cache[cand.rec].trust_tier < FIRST_PARTY)
               /\ ~expired(env_cache[cand.rec], clock)
      PROVE  /\ item \in Item
             /\ \E env \in Envelope :
                  /\ KeptExpiry(item.rec, env) /\ ~expired(env, ReadTime(p))
                  /\ env.trust_tier # DERIVED \/ ByDerivedStamp(p, item.rec)
  <2> DEFINE env == env_cache[cand.rec]
  <2>1. /\ item = cand /\ item \in Item /\ item.rec \in Records
        /\ env # None /\ ~expired(env, ReadTime(p)) /\ ~(env.trust_tier < FIRST_PARTY)
    BY <1>3, <1>5
  <2>2. env \in Envelope /\ KeptExpiry(item.rec, env)
    BY <1>2, <2>1 DEF ExpiryInv
  <2>3. env.trust_tier # DERIVED
    BY <2>1 DEF FIRST_PARTY, DERIVED
  <2> QED
    BY <2>1, <2>2, <2>3
<1>6. ASSUME reader[p].pc \in {"oracle", "hop", "drop"},
             Judges(reader[p], reader'[p], reader[p].env)
      PROVE  /\ item \in Item
             /\ \E env \in Envelope :
                  /\ KeptExpiry(item.rec, env) /\ ~expired(env, ReadTime(p))
                  /\ env.trust_tier # DERIVED \/ ByDerivedStamp(p, item.rec)
  <2>1. reader[p] \in ReaderState /\ ReaderShape(reader[p])
    BY <1>6, Inside
  <2>2. /\ item = reader[p].item /\ item \in Item /\ reader[p].env # None
        /\ ~expired(reader[p].env, reader[p].now)
    BY <1>1, <1>6, <2>1 DEF Judges, KeepsItem, HaltsExpired, ReaderShape
  <2>3. reader[p].env \in Envelope /\ KeptExpiry(item.rec, reader[p].env)
    BY <1>6, <2>1, <2>2 DEF ReaderState, ExpiryInv, ReaderKeeps
  <2>4. /\ ReadTime(p) = reader[p].now
        /\ reader[p].env.trust_tier # DERIVED \/ ByDerivedStamp(p, item.rec)
    BY <1>6, <2>2 DEF ReadTime, ByDerivedStamp
  <2> QED
    BY <2>2, <2>3, <2>4
<1>7. reader'[p] # Advance(reader[p], reader[p].admitted) \/ reader[p].pc # "drop"
  BY <1>1, Inside, AdvanceFields
<1> QED
  BY <1>1, <1>4, <1>5, <1>6, <1>7, MovesOfReaders DEF ReaderMoves

\* Nothing is admitted past the retention it was written with, on no path of
\* _admit(): after the deep scan's answer, from the local cache, and from the
\* envelope at hand when a table is out of reach (governed.py: _admit()).
THEOREM RetentionAlwaysHonoured == Spec => RetentionHonoured
<1> DEFINE Honoured(p) == \A item \in NewlyAdmitted(p) :
             expired(origin[item.rec], ReadTime(p)) => ByDerivedStamp(p, item.rec)
<1>1. ASSUME IInv, ExpiryInv, Passed, [Next]_vars
      PROVE  \A p \in Readers : Honoured(p)
  <2> SUFFICES ASSUME NEW p \in Readers, NEW item \in NewlyAdmitted(p),
                      expired(origin[item.rec], ReadTime(p))
               PROVE  ByDerivedStamp(p, item.rec)
    OBVIOUS
  <2>1. PICK env \in Envelope :
          /\ KeptExpiry(item.rec, env) /\ ~expired(env, ReadTime(p))
          /\ env.trust_tier # DERIVED \/ ByDerivedStamp(p, item.rec)
    BY <1>1, AdmittedFresh
  <2> QED
    BY <2>1 DEF KeptExpiry, expired
<1>2. IInv /\ ExpiryInv /\ Passed /\ [Next]_vars => [\A p \in Readers : Honoured(p)]_vars
  BY <1>1
<1>3. IInv /\ ExpiryInv /\ Between /\ Passed /\ [Next]_vars => ExpiryInv' /\ Between' /\ Passed'
  BY ExpiryStep, BetweenStep DEF IInv
<1>4. Init /\ [][Next]_vars => [][\A p \in Readers : Honoured(p)]_vars
  BY <1>2, <1>3, IInvInit, IInvStep, ExpiryInit, BetweenInit, PTL
<1> QED
  BY <1>4 DEF Spec, RetentionHonoured

-----------------------------------------------------------------------------
(* What an ordered stream owes to the scanner's verdicts.                  *)

IsLast(e) == e.seq + 1 = emitted[e.rec]

\* The events left of a record are numbered, end with the last one emitted, and
\* that one tells what the backend holds.
StreamInv ==
  /\ \A e \in stream : e.seq < emitted[e.rec]
  /\ \A e, f \in stream : e.rec = f.rec /\ e.seq = f.seq => e = f
  /\ \A e \in stream : \E f \in stream : f.rec = e.rec /\ IsLast(f)
  /\ \A e \in stream : IsLast(e) => store[e.rec] = e.content
  /\ \A e \in stream : e.event_type = "DELETE" => store[e.rec] = None

\* Nothing happens to a record before it is created, and one writer creates it.
BirthInv ==
  /\ \A r \in Records : (origin[r] = None => emitted[r] = 0) /\ (emitted[r] = 0 => store[r] = None)
  /\ \A w \in Writers : writer[w].pc = "put" => emitted[writer[w].rec] = 0
  /\ \A w, x \in Writers :
       w # x /\ writer[w] # IdleWriter /\ writer[x] # IdleWriter => writer[w].rec # writer[x].rec
  /\ \A w \in Writers : writer[w].pc = "pending" => writer[w].env.quarantined

\* A consumer is at the oldest event of a record that no other has.
AtOldest(s) ==
  scanner[s] # IdleScanner =>
    /\ scanner[s].event \in stream
    /\ \A f \in stream : f.rec = scanner[s].event.rec => scanner[s].event.seq <= f.seq
    /\ scanner[s].pc = "delete" => scanner[s].event.event_type = "DELETE"

ConsumerInv ==
  /\ \A s \in Scanners : AtOldest(s)
  /\ \A s, t \in Scanners :
       s # t /\ scanner[s] # IdleScanner /\ scanner[t] # IdleScanner =>
         scanner[s].event.rec # scanner[t].event.rec

\* A record in scope stays there with its envelope.
KeepsScope(r, env) ==
  Known(r) /\ (origin[r].trust_tier \in ScanTiers => env.trust_tier \in ScanTiers)

ScopeInv ==
  /\ \A r \in Records : envelopes[r] # None => KeepsScope(r, envelopes[r])
  /\ \A s \in Scanners :
       scanner[s].pc \in {"bind", "existing"} => KeepsScope(scanner[s].event.rec, scanner[s].env)

Owed(r) == store[r] # None /\ origin[r].trust_tier \in ScanTiers /\ ~origin[r].quarantined

\* Whoever is through with the last event of a record has judged what it holds.
JudgedInv ==
  /\ \A r \in Records : Owed(r) => Judged(r) \/ \E e \in stream : e.rec = r
  /\ \A s \in Scanners :
       /\ scanner[s].pc \in {"publish", "ack"} /\ Owed(scanner[s].event.rec)
       /\ IsLast(scanner[s].event)
       => Judged(scanner[s].event.rec)

PendInv == StreamInv /\ BirthInv /\ ConsumerInv /\ ScopeInv /\ JudgedInv

LEMMA StreamTyped ==
  ASSUME TypeInv
  PROVE  /\ \A e \in stream : e.rec \in Records /\ e.seq \in Nat
         /\ \A r \in Records : emitted[r] \in Nat
         /\ \A s \in Scanners : scanner[s] # IdleScanner =>
              scanner[s].event.rec \in Records /\ scanner[s].event.seq \in Nat
BY DEF TypeInv, TypeOK, Event, ScannerState

\* What a step that touches neither stream nor backend leaves of the invariant.
LEMMA StreamFrame ==
  ASSUME StreamInv, UNCHANGED <<store, stream, emitted>>
  PROVE  StreamInv'
BY DEF StreamInv, IsLast

LEMMA PendInit == Init => PendInv
BY DEF Init, PendInv, StreamInv, BirthInv, ConsumerInv, AtOldest, ScopeInv, JudgedInv, Owed,
       IdleWriter, IdleScanner

\* The backend changes a record and says so in the stream.
LEMMA EmitKeeps ==
  ASSUME TypeInv, StreamInv, NEW r \in Records, NEW event_type, NEW content,
         emit(event_type, r, content), store' = [store EXCEPT ![r] = content],
         event_type = "DELETE" => content = None,
         event_type # "DELETE" => \A e \in stream : e.rec = r => e.event_type # "DELETE"
  PROVE  /\ StreamInv' /\ stream \subseteq stream'
         /\ \E e \in stream' : e.rec = r
         /\ \A e \in stream' \ stream : e.rec = r /\ e.seq = emitted[r]
         /\ \A e \in stream : e.rec = r => ~IsLast(e)'
         /\ \A q \in Records \ {r} : emitted'[q] = emitted[q] /\ store'[q] = store[q]
         /\ emitted'[r] = emitted[r] + 1
<1>1. PICK new : new = [event_type |-> event_type, rec |-> r, content |-> content,
                        ts |-> clock, seq |-> emitted[r]]
  OBVIOUS
<1>2. /\ new.event_type = event_type /\ new.rec = r /\ new.content = content
      /\ new.seq = emitted[r]
  BY <1>1
<1>3. /\ stream' = stream \cup {new} /\ emitted' = [emitted EXCEPT ![r] = emitted[r] + 1]
      /\ emitted \in [Records -> Nat] /\ store \in [Records -> Contents \cup {None}]
      /\ \A e \in stream : e.rec \in Records /\ e.seq \in Nat
  BY <1>1, StreamTyped DEF emit, TypeInv, TypeOK
<1>4. /\ emitted'[r] = emitted[r] + 1 /\ emitted[r] \in Nat /\ store'[r] = content
      /\ \A q \in Records \ {r} : emitted'[q] = emitted[q] /\ store'[q] = store[q]
  BY <1>3
<1>5. \A e \in stream : e.rec = r => ~IsLast(e)' /\ e.seq < emitted'[r] /\ e.seq # emitted[r]
  BY <1>3, <1>4 DEF StreamInv, IsLast
<1>6. IsLast(new)'
  BY <1>2, <1>4 DEF IsLast
<1>7. \A e \in stream : e.rec # r => (IsLast(e)' <=> IsLast(e)) /\ store'[e.rec] = store[e.rec]
                                     /\ emitted'[e.rec] = emitted[e.rec]
  BY <1>3, <1>4 DEF IsLast
<1>8. /\ \A e \in stream' : e.seq < emitted'[e.rec]
      /\ \A e, f \in stream' : e.rec = f.rec /\ e.seq = f.seq => e = f
  BY <1>2, <1>3, <1>4, <1>5, <1>7 DEF StreamInv
<1>9. \A e \in stream' : \E f \in stream' : f.rec = e.rec /\ IsLast(f)'
  <2> SUFFICES ASSUME NEW e \in stream'  PROVE \E f \in stream' : f.rec = e.rec /\ IsLast(f)'
    OBVIOUS
  <2>1. CASE e.rec = r
    BY <1>2, <1>3, <1>6, <2>1
  <2>2. CASE e.rec # r
    <3>1. e \in stream
      BY <1>2, <1>3, <2>2
    <3> QED
      BY <1>3, <1>7, <2>2, <3>1 DEF StreamInv
  <2> QED
    BY <2>1, <2>2
<1>10. \A e \in stream' : IsLast(e)' => store'[e.rec] = e.content
  BY <1>2, <1>3, <1>4, <1>5, <1>7 DEF StreamInv
<1>11. \A e \in stream' : e.event_type = "DELETE" => store'[e.rec] = None
  <2> SUFFICES ASSUME NEW e \in stream', e.event_type = "DELETE"  PROVE store'[e.rec] = None
    OBVIOUS
  <2>1. CASE e.rec = r
    BY <1>2, <1>3, <1>4, <2>1
  <2>2. CASE e.rec # r
    BY <1>2, <1>3, <1>7, <2>2 DEF StreamInv
  <2> QED
    BY <2>1, <2>2
<1>12. StreamInv'
  BY <1>8, <1>9, <1>10, <1>11 DEF StreamInv
<1> QED
  BY <1>2, <1>3, <1>4, <1>5, <1>12

\* ... and whatever was owed before is owed, judged or announced as before.
LEMMA EmitPends ==
  ASSUME TypeInv, PendInv, NEW r \in Records, NEW event_type, NEW content,
         emit(event_type, r, content), store' = [store EXCEPT ![r] = content],
         event_type = "DELETE" => content = None,
         event_type # "DELETE" => \A e \in stream : e.rec = r => e.event_type # "DELETE",
         UNCHANGED <<verdicts, scanner>>, \A q \in Records \ {r} : origin'[q] = origin[q]
  PROVE  StreamInv' /\ ConsumerInv' /\ JudgedInv'
<1>1. /\ StreamInv' /\ stream \subseteq stream'
      /\ \E e \in stream' : e.rec = r
      /\ \A e \in stream' \ stream : e.rec = r /\ e.seq = emitted[r]
      /\ \A e \in stream : e.rec = r => ~IsLast(e)'
      /\ \A q \in Records \ {r} : emitted'[q] = emitted[q] /\ store'[q] = store[q]
  BY EmitKeeps DEF PendInv
<1>2. ConsumerInv'
  <2>1. ASSUME NEW s \in Scanners  PROVE AtOldest(s)'
    <3> SUFFICES ASSUME scanner[s] # IdleScanner, NEW f \in stream',
                        f.rec = scanner[s].event.rec
                 PROVE  scanner[s].event.seq <= f.seq
      BY <1>1 DEF PendInv, ConsumerInv, AtOldest
    <3>1. scanner[s].event \in stream /\ scanner[s].event.seq < emitted[scanner[s].event.rec]
      BY DEF PendInv, ConsumerInv, AtOldest, StreamInv
    <3> QED
      BY <1>1, <3>1, StreamTyped DEF PendInv, ConsumerInv, AtOldest
  <2> QED
    BY <2>1 DEF PendInv, ConsumerInv
<1>3. \A q \in Records \ {r} : (Owed(q)' <=> Owed(q)) /\ (Judged(q)' <=> Judged(q))
  BY <1>1 DEF Owed, Judged
<1>4. \A q \in Records : Owed(q)' => Judged(q)' \/ \E e \in stream' : e.rec = q
  BY <1>1, <1>3 DEF PendInv, JudgedInv
<1>5. ASSUME NEW s \in Scanners, scanner[s].pc \in {"publish", "ack"},
             Owed(scanner[s].event.rec)', IsLast(scanner[s].event)'
      PROVE  Judged(scanner[s].event.rec)'
  <2>1. scanner[s] # IdleScanner
    BY <1>5 DEF IdleScanner
  <2>2. PICK e : e = scanner[s].event
    OBVIOUS
  <2>3. e \in stream /\ e.rec \in Records
    BY <2>1, <2>2, StreamTyped DEF PendInv, ConsumerInv, AtOldest
  <2>4. e.rec # r
    BY <1>1, <1>5, <2>2, <2>3 DEF IsLast
  <2>5. Owed(e.rec) /\ IsLast(e)
    BY <1>1, <1>3, <1>5, <2>2, <2>3, <2>4 DEF IsLast, Owed
  <2>6. Judged(e.rec)
    BY <1>5, <2>2, <2>5 DEF PendInv, JudgedInv
  <2> QED
    BY <1>3, <2>2, <2>3, <2>4, <2>6 DEF Judged
<1> QED
  BY <1>1, <1>2, <1>4, <1>5 DEF JudgedInv

\* A step that leaves the stream alone, judges nothing anew and takes no verdict away
\* that somebody owes, and whose consumers come through with what is judged.
LEMMA JudgedQuiet ==
  ASSUME TypeInv, PendInv, UNCHANGED <<store, stream, emitted>>,
         \A q \in Records : Owed(q)' => Owed(q) /\ verdicts'[q] = verdicts[q],
         \A s \in Scanners : scanner'[s].pc \in {"publish", "ack"} =>
           /\ scanner'[s].event = scanner[s].event /\ scanner[s].event.rec \in Records
           /\ \/ scanner[s].pc \in {"publish", "ack"}
              \/ IsLast(scanner[s].event) /\ Owed(scanner[s].event.rec) => Judged(scanner[s].event.rec)
  PROVE  JudgedInv'
<1>1. \A q \in Records : Owed(q)' => Owed(q) /\ (Judged(q)' <=> Judged(q))
  BY DEF Judged
<1>2. \A q \in Records : Owed(q)' => Judged(q)' \/ \E e \in stream' : e.rec = q
  BY <1>1 DEF PendInv, JudgedInv
<1>3. ASSUME NEW s \in Scanners, scanner'[s].pc \in {"publish", "ack"},
             Owed(scanner[s].event.rec)', IsLast(scanner[s].event)'
      PROVE  Judged(scanner[s].event.rec)'
  <2>1. PICK e : e = scanner[s].event
    OBVIOUS
  <2>2. e.rec \in Records /\ e = scanner'[s].event
    BY <1>3, <2>1
  <2>3. IsLast(e) /\ Owed(e.rec) /\ (Judged(e.rec)' <=> Judged(e.rec))
    BY <1>1, <1>3, <2>2 DEF IsLast, Owed
  <2>4. Judged(e.rec)
    BY <1>3, <2>1, <2>3 DEF PendInv, JudgedInv
  <2> QED
    BY <2>2, <2>3, <2>4 DEF Judged
<1> QED
  BY <1>2, <1>3 DEF JudgedInv

\* A step that leaves the stream alone, and every consumer at its event.
LEMMA ConsumersQuiet ==
  ASSUME ConsumerInv, stream' = stream,
         \A s \in Scanners :
           \/ scanner'[s] = IdleScanner
           \/ /\ scanner[s] # IdleScanner /\ scanner'[s].event = scanner[s].event
              /\ scanner'[s].pc = "delete" => scanner[s].pc = "delete"
           \/ scanner'[s] = scanner[s]
  PROVE  ConsumerInv'
<1>1. \A s \in Scanners : scanner'[s] # IdleScanner =>
        scanner[s] # IdleScanner /\ scanner'[s].event = scanner[s].event
  OBVIOUS
<1>2. \A s \in Scanners : AtOldest(s)'
  BY <1>1 DEF ConsumerInv, AtOldest
<1> QED
  BY <1>1, <1>2 DEF ConsumerInv

LEMMA ScopeStays ==
  ASSUME Grows, NEW r \in Records
  PROVE  \A env : KeepsScope(r, env) => KeepsScope(r, env)'
BY DEF Grows, KeepsScope, Known

LEMMA ScopeFrame ==
  ASSUME TypeInv, ScopeInv, Grows, UNCHANGED <<envelopes, scanner>>
  PROVE  ScopeInv'
<1>1. \A r \in Records : envelopes'[r] # None => KeepsScope(r, envelopes[r])'
  BY ScopeStays DEF ScopeInv, KeepsScope, Known
<1>2. ASSUME NEW s \in Scanners, scanner'[s].pc \in {"bind", "existing"}
      PROVE  KeepsScope(scanner[s].event.rec, scanner[s].env)'
  <2>1. PICK q, env : q = scanner[s].event.rec /\ env = scanner[s].env
    OBVIOUS
  <2>2. q \in Records /\ KeepsScope(q, env)
    BY <1>2, <2>1, Inside DEF ScopeInv, ScannerState, Event
  <2>3. KeepsScope(q, env)'
    BY <2>2, ScopeStays
  <2> QED
    BY <2>1, <2>3 DEF KeepsScope, Known
<1> QED
  BY <1>1, <1>2 DEF ScopeInv

\* Writers go on, stop, or rest.
LEMMA BirthFrame ==
  ASSUME BirthInv, UNCHANGED <<store, emitted, origin>>,
         \A w \in Writers :
           \/ writer'[w] = writer[w] \/ writer'[w] = IdleWriter
           \/ /\ writer[w] # IdleWriter /\ writer'[w].rec = writer[w].rec /\ writer'[w].pc # "put"
              /\ writer'[w].pc = "pending" => writer'[w].env.quarantined
  PROVE  BirthInv'
<1>1. \A w \in Writers : writer'[w] # IdleWriter =>
        writer[w] # IdleWriter /\ writer'[w].rec = writer[w].rec
  OBVIOUS
<1>2. \A w, x \in Writers :
        w # x /\ writer'[w] # IdleWriter /\ writer'[x] # IdleWriter => writer'[w].rec # writer'[x].rec
  BY <1>1 DEF BirthInv
<1>3. IdleWriter.pc \notin {"put", "pending"}
  BY DEF IdleWriter
<1> QED
  BY <1>2, <1>3 DEF BirthInv

\* The backend's change of a record that no writer is about to put.
LEMMA BirthEmit ==
  ASSUME TypeInv, BirthInv, NEW r \in Records, emitted' = [emitted EXCEPT ![r] = @ + 1],
         \A q \in Records \ {r} : store'[q] = store[q] /\ origin'[q] = origin[q],
         origin'[r] # None,
         \A w \in Writers : writer[w].pc = "put" => writer[w].rec # r,
         writer' = writer
  PROVE  BirthInv'
<1>1. emitted'[r] # 0 /\ \A q \in Records \ {r} : emitted'[q] = emitted[q]
  BY StreamTyped DEF TypeInv, TypeOK
<1>2. \A w \in Writers : writer[w].pc = "put" => writer[w].rec \in Records
  BY Inside DEF WriterState
<1> QED
  BY <1>1, <1>2 DEF BirthInv

LEMMA WriterKnown ==
  ASSUME IInv, NEW w \in Writers, writer[w] # IdleWriter
  PROVE  /\ writer[w] \in WriterState /\ writer[w].rec \in Records
         /\ origin[writer[w].rec] = writer[w].env /\ Known(writer[w].rec)
BY NoneAssumption DEF IInv, TypeInv, TypeOK, Sound, ThreadsSound, WriterSound, WriterState, Known

LEMMA Unborn ==
  ASSUME IInv, PendInv, NEW r \in Records, emitted[r] = 0
  PROVE  store[r] = None /\ \A e \in stream : e.rec # r
BY StreamTyped DEF IInv, PendInv, BirthInv, StreamInv

LEMMA PendEnvironment ==
  ASSUME IInv, Grows, PendInv, Environment
  PROVE  PendInv'
<1> USE DEF tables, caches, threads, history, backend
<1>a. TypeInv /\ StreamInv /\ BirthInv /\ ConsumerInv /\ ScopeInv
  BY DEF IInv, PendInv
<1>b. \A w \in Writers : writer[w].pc = "put" =>
        Known(writer[w].rec) /\ emitted[writer[w].rec] = 0 /\ writer[w].rec \in Records
  BY <1>a, WriterKnown DEF BirthInv, IdleWriter
<1>1. ASSUME NEW r \in Records, NEW content \in Contents, ExtractionCreate(r, content)
      PROVE  PendInv'
  <2>1. emitted[r] = 0 /\ ~Known(r)
    BY <1>1, <1>a DEF ExtractionCreate, BirthInv, Known
  <2>2. StampDerived(content, clock) # None
    BY StampDerivedType, NoneAssumption, <1>a DEF TypeInv, TypeOK
  <2>3. origin'[r] # None /\ \A q \in Records \ {r} : origin'[q] = origin[q] /\ store'[q] = store[q]
    BY <1>1, <1>a, <2>2 DEF ExtractionCreate, TypeInv, TypeOK
  <2>4. StreamInv' /\ ConsumerInv' /\ JudgedInv'
    BY <1>1, <1>a, <2>1, <2>3, Unborn, EmitPends DEF ExtractionCreate
  <2>5. BirthInv'
    BY <1>1, <1>a, <1>b, <2>1, <2>3, BirthEmit DEF ExtractionCreate, emit
  <2> QED
    BY <1>1, <1>a, <2>4, <2>5, ScopeFrame DEF ExtractionCreate, PendInv
<1>2. ASSUME NEW r \in Records, NEW event_type \in {"UPDATE", "DELETE"},
             NEW content \in Contents \cup {None},
             store[r] # None, store' = [store EXCEPT ![r] = content], emit(event_type, r, content),
             event_type = "DELETE" => content = None,
             UNCHANGED <<tables, caches, clock, threads, history>>
      PROVE  PendInv'
  <2>1. Known(r) /\ emitted[r] # 0
    BY <1>2, <1>a DEF BirthInv, Known
  <2>2. \A e \in stream : e.rec = r => e.event_type # "DELETE"
    BY <1>2, <1>a DEF StreamInv
  <2>3. \A q \in Records \ {r} : store'[q] = store[q]
    BY <1>2
  <2>4. StreamInv' /\ ConsumerInv' /\ JudgedInv'
    BY <1>2, <1>a, <2>2, EmitPends
  <2>5. BirthInv'
    <3>1. emitted' = [emitted EXCEPT ![r] = @ + 1]
      BY <1>2 DEF emit
    <3>2. origin' = origin /\ writer' = writer
      BY <1>2
    <3>3. \A w \in Writers : writer[w].pc = "put" => writer[w].rec # r
      BY <1>b, <2>1
    <3> QED
      BY <1>a, <2>1, <2>3, <3>1, <3>2, <3>3, BirthEmit DEF Known
  <2> QED
    BY <1>2, <1>a, <2>4, <2>5, ScopeFrame DEF PendInv
<1>3. ASSUME NEW r \in Records, NEW content \in Contents, BackendUpdate(r, content)
      PROVE  PendInv'
  BY <1>2, <1>3 DEF BackendUpdate
<1>4. ASSUME NEW r \in Records, BackendDelete(r)
      PROVE  PendInv'
  BY <1>2, <1>4 DEF BackendDelete
<1>5. CASE Tick \/ Restart
  <2>1. /\ UNCHANGED <<store, stream, emitted, origin, envelopes, verdicts, scanner>>
        /\ \A w \in Writers : writer'[w] = writer[w] \/ writer'[w] = IdleWriter
    BY <1>5 DEF Tick, Restart
  <2>2. JudgedInv'
    <3>1. \A q \in Records : Owed(q)' <=> Owed(q)
      BY <2>1 DEF Owed
    <3>2. \A s \in Scanners : scanner[s].pc \in {"publish", "ack"} => scanner[s].event.rec \in Records
      BY <1>a, Inside DEF ScannerState, Event
    <3> QED
      BY <1>a, <2>1, <3>1, <3>2, JudgedQuiet
  <2>3. StreamInv' /\ ConsumerInv' /\ ScopeInv'
    BY <1>a, <2>1, StreamFrame, ConsumersQuiet, ScopeFrame
  <2>4. BirthInv'
    BY <1>a, <2>1, BirthFrame
  <2> QED
    BY <2>2, <2>3, <2>4 DEF PendInv
<1> QED
  BY <1>1, <1>3, <1>4, <1>5 DEF Environment

\* What no writer disturbs unless it puts.
LEMMA PendWriterQuiet ==
  ASSUME IInv, Grows, PendInv, UNCHANGED <<store, stream, emitted, scanner>>,
         \A q \in Records : Owed(q)' => Owed(q) /\ verdicts'[q] = verdicts[q]
  PROVE  StreamInv' /\ ConsumerInv' /\ JudgedInv'
<1>1. TypeInv /\ StreamInv /\ ConsumerInv
  BY DEF IInv, PendInv
<1>2. \A s \in Scanners : scanner[s].pc \in {"publish", "ack"} => scanner[s].event.rec \in Records
  BY <1>1, Inside DEF ScannerState, Event
<1>3. JudgedInv'
  BY <1>1, <1>2, JudgedQuiet
<1> QED
  BY <1>1, <1>3, StreamFrame, ConsumersQuiet

LEMMA PendWriter ==
  ASSUME IInv, Grows, PendInv, NEW w \in Writers, WriterNext(w)
  PROVE  PendInv'
<1> USE DEF tables, caches, backend
<1>a. /\ TypeInv /\ BirthInv /\ ScopeInv /\ StreamInv /\ writer \in [Writers -> WriterState \cup {IdleWriter}]
      /\ verdicts \in [Records -> Verdict \cup {None}] /\ store \in [Records -> Contents \cup {None}]
      /\ emitted \in [Records -> Nat] /\ envelopes \in [Records -> Envelope \cup {None}]
  BY DEF IInv, PendInv, TypeInv, TypeOK
<1>b. scanner' = scanner /\ \A x \in Writers \ {w} : writer'[x] = writer[x]
  BY <1>a, WriterLeaves
<1>c. writer[w].pc \in {"put", "envelope", "pending", "finish"} => writer[w] # IdleWriter
  BY DEF IdleWriter
<1>1. ASSUME NEW content \in Contents, NEW channel \in Channels, RejectWrite(w, content, channel)
      PROVE  PendInv'
  <2>1. UNCHANGED <<store, stream, emitted, origin, envelopes, verdicts, scanner, writer>>
    BY <1>1 DEF RejectWrite, threads, history
  <2>2. StreamInv' /\ ConsumerInv' /\ JudgedInv'
    BY <2>1, PendWriterQuiet DEF Owed
  <2> QED
    BY <1>a, <2>1, <2>2, BirthFrame, ScopeFrame DEF PendInv
<1>2. ASSUME NEW content \in Contents, NEW channel \in Channels, NEW r \in Records,
             StartWrite(w, r, content, channel)
      PROVE  PendInv'
  <2>1. /\ UNCHANGED <<store, stream, emitted, envelopes, verdicts, scanner>> /\ ~Known(r)
        /\ emitted[r] = 0 /\ store[r] = None
        /\ writer'[w].pc = "put" /\ writer'[w].rec = r
    BY <1>2, <1>a DEF StartWrite, Known, BirthInv
  <2>2. \A q \in Records \ {r} : origin'[q] = origin[q]
    BY <1>2 DEF StartWrite
  <2>3. origin'[r] # None
    <3>1. StampFor(content, channel) # None
      BY <1>a, StampForType, NoneAssumption DEF TypeInv
    <3> QED
      BY <1>2, <1>a, <3>1 DEF StartWrite, TypeInv, TypeOK
  <2>4. StreamInv' /\ ConsumerInv' /\ JudgedInv'
    BY <2>1, <2>2, PendWriterQuiet DEF Owed
  <2>5. \A x \in Writers \ {w} : writer[x] # IdleWriter => writer[x].rec # r
    BY <2>1, WriterKnown
  <2>6. BirthInv'
    BY <1>a, <1>b, <2>1, <2>2, <2>3, <2>5 DEF BirthInv, IdleWriter
  <2> QED
    BY <1>a, <2>1, <2>4, <2>6, ScopeFrame DEF PendInv
<1>3. CASE BackendPut(w)
  <2>1. PICK r, content : r = writer[w].rec /\ content = writer[w].content
    OBVIOUS
  <2>2. /\ writer[w] # IdleWriter /\ r \in Records /\ emitted[r] = 0 /\ Known(r)
        /\ writer[w] \in WriterState
    BY <1>3, <1>a, <1>c, <2>1, WriterKnown DEF BackendPut, BirthInv
  <2>3. /\ store' = [store EXCEPT ![r] = content] /\ emit("CREATE", r, content)
        /\ UNCHANGED <<verdicts, scanner, origin, envelopes>>
    BY <1>3, <2>1 DEF BackendPut, history
  <2>4. StreamInv' /\ ConsumerInv' /\ JudgedInv'
    BY <1>a, <2>2, <2>3, Unborn, EmitPends
  <2>5. /\ emitted'[r] # 0 /\ \A q \in Records \ {r} : emitted'[q] = emitted[q] /\ store'[q] = store[q]
    BY <1>a, <2>2, <2>3 DEF emit
  <2>6. writer'[w].pc = "envelope" /\ writer'[w].rec = r
    BY <1>3, <1>a, <2>1, <2>2 DEF BackendPut, WriterState
  <2>7. \A x \in Writers \ {w} : writer[x] # IdleWriter => writer[x].rec # r /\ writer[x].rec \in Records
    BY <1>a, <2>1, <2>2, WriterKnown DEF BirthInv
  <2>8. /\ \A x \in Writers : writer'[x].pc = "put" =>
             x # w /\ writer'[x] = writer[x] /\ writer[x].rec \in Records \ {r}
        /\ \A x \in Writers : writer'[x] # IdleWriter =>
             writer[x] # IdleWriter /\ writer'[x].rec = writer[x].rec
        /\ \A x \in Writers : writer'[x].pc = "pending" => writer'[x] = writer[x]
    BY <1>b, <2>1, <2>2, <2>6, <2>7 DEF IdleWriter
  <2>9. BirthInv'
    <3>1. \A q \in Records : (origin'[q] = None => emitted'[q] = 0) /\ (emitted'[q] = 0 => store'[q] = None)
      BY <1>a, <2>2, <2>3, <2>5 DEF BirthInv, Known
    <3>2. \A x \in Writers : writer'[x].pc = "put" => emitted'[writer'[x].rec] = 0
      BY <1>a, <2>5, <2>8 DEF BirthInv
    <3>3. \A x, y \in Writers :
            x # y /\ writer'[x] # IdleWriter /\ writer'[y] # IdleWriter => writer'[x].rec # writer'[y].rec
      BY <1>a, <2>8 DEF BirthInv
    <3> QED
      BY <1>a, <2>8, <3>1, <3>2, <3>3 DEF BirthInv
  <2> QED
    BY <1>a, <2>3, <2>4, <2>9, ScopeFrame DEF PendInv
<1>4. CASE PutEnvelope(w)
  <2>1. PICK r, env : r = writer[w].rec /\ env = writer[w].env
    OBVIOUS
  <2>2. /\ writer[w] # IdleWriter /\ writer[w] \in WriterState /\ r \in Records
        /\ Known(r) /\ origin[r] = env
    BY <1>4, <1>c, <2>1, WriterKnown DEF PutEnvelope
  <2>3. /\ UNCHANGED <<store, stream, emitted, origin, verdicts, scanner>>
        /\ envelopes' = [envelopes EXCEPT ![r] = env]
    BY <1>4, <2>1 DEF PutEnvelope, history
  <2>4. StreamInv' /\ ConsumerInv' /\ JudgedInv'
    BY <2>3, PendWriterQuiet DEF Owed
  <2>5. BirthInv'
    <3>1. /\ writer'[w].rec = writer[w].rec /\ writer'[w].pc # "put"
          /\ writer'[w].env = env /\ (writer'[w].pc = "pending" => env.quarantined)
      BY <1>4, <1>a, <2>1, <2>2 DEF PutEnvelope, WriterState
    <3> QED
      BY <1>a, <1>b, <2>2, <2>3, <3>1, BirthFrame
  <2>6. ScopeInv'
    <3>1. KeepsScope(r, env)
      BY <2>2 DEF KeepsScope
    <3>2. \A q \in Records : envelopes'[q] # None => KeepsScope(q, envelopes'[q])
      BY <1>a, <2>2, <2>3, <3>1 DEF ScopeInv
    <3> QED
      BY <1>a, <2>3, <3>2 DEF ScopeInv, KeepsScope, Known
  <2> QED
    BY <2>4, <2>5, <2>6 DEF PendInv
<1>5. CASE PutPending(w)
  <2>1. PICK r : r = writer[w].rec
    OBVIOUS
  <2>2. /\ writer[w] # IdleWriter /\ writer[w] \in WriterState /\ r \in Records
        /\ origin[r].quarantined
    BY <1>5, <1>a, <1>c, <2>1, WriterKnown DEF PutPending, BirthInv
  <2>3. /\ UNCHANGED <<store, stream, emitted, origin, envelopes, scanner>>
        /\ \A q \in Records \ {r} : verdicts'[q] = verdicts[q]
    BY <1>5, <1>a, <2>1 DEF PutPending, history
  <2>4. StreamInv' /\ ConsumerInv' /\ JudgedInv'
    BY <2>2, <2>3, PendWriterQuiet DEF Owed
  <2>5. BirthInv'
    <3>1. writer'[w].rec = writer[w].rec /\ writer'[w].pc = "finish"
      BY <1>5, <1>a, <2>2 DEF PutPending, WriterState
    <3> QED
      BY <1>a, <1>b, <2>2, <2>3, <3>1, BirthFrame
  <2> QED
    BY <1>a, <2>3, <2>4, <2>5, ScopeFrame DEF PendInv
<1>6. CASE FinishWrite(w) \/ WriteRaises(w)
  <2>1. /\ UNCHANGED <<store, stream, emitted, origin, envelopes, verdicts, scanner>>
        /\ writer'[w] = IdleWriter
    BY <1>6, <1>a DEF FinishWrite, WriteRaises, history
  <2>2. StreamInv' /\ ConsumerInv' /\ JudgedInv'
    BY <2>1, PendWriterQuiet DEF Owed
  <2> QED
    BY <1>a, <1>b, <2>1, <2>2, BirthFrame, ScopeFrame DEF PendInv
<1> QED
  BY <1>1, <1>2, <1>3, <1>4, <1>5, <1>6 DEF WriterNext, WriterStep

LEMMA PendReader ==
  ASSUME IInv, Grows, PendInv, NEW p \in Readers, ReaderNext(p)
  PROVE  PendInv'
<1>1. UNCHANGED <<store, stream, emitted, envelopes, verdicts, writer, scanner, origin>>
  BY ReaderLeaves DEF IInv, backend
<1>2. StreamInv' /\ ConsumerInv' /\ JudgedInv'
  BY <1>1, PendWriterQuiet DEF Owed
<1> QED
  BY <1>1, <1>2, BirthFrame, ScopeFrame DEF PendInv, IInv

LEMMA ScopeScanner ==
  ASSUME ScopeInv, NEW s \in Scanners, origin' = origin,
         \A t \in Scanners \ {s} : scanner'[t] = scanner[t],
         \A q \in Records : envelopes'[q] \in {None, envelopes[q]} \/ KeepsScope(q, envelopes'[q]),
         scanner'[s].pc \in {"bind", "existing"} => KeepsScope(scanner'[s].event.rec, scanner'[s].env)
  PROVE  ScopeInv'
BY DEF ScopeInv, KeepsScope, Known

\* A scanner inside its handler: its event is there, of a record that was created,
\* and if it is the last one it tells what the record holds.
LEMMA AtEvent ==
  ASSUME TypeInv, PendInv, NEW s \in Scanners, scanner[s] # IdleScanner
  PROVE  /\ scanner[s].event \in stream /\ scanner[s].event.rec \in Records
         /\ \A f \in stream : f.rec = scanner[s].event.rec => scanner[s].event.seq <= f.seq
         /\ \A t \in Scanners \ {s} :
              scanner[t] = IdleScanner \/ scanner[t].event.rec # scanner[s].event.rec
         /\ IsLast(scanner[s].event) => store[scanner[s].event.rec] = scanner[s].event.content
BY StreamTyped DEF PendInv, ConsumerInv, AtOldest, StreamInv

LEMMA EventKnown ==
  ASSUME TypeInv, PendInv, NEW e \in stream
  PROVE  e.rec \in Records /\ Known(e.rec)
<1>1. e.rec \in Records /\ e.seq \in Nat /\ emitted[e.rec] \in Nat /\ e.seq < emitted[e.rec]
  BY StreamTyped DEF PendInv, StreamInv
<1>2. emitted[e.rec] # 0
  BY <1>1
<1> QED
  BY <1>1, <1>2 DEF PendInv, BirthInv, Known

LEMMA PendReceive ==
  ASSUME IInv, PendInv, OrderedStream, DERIVED \in ScanTiers, NEW s \in Scanners,
         NEW e \in stream, Receive(s, e) \/ ReceiveDelete(s, e)
  PROVE  ConsumerInv' /\ ScopeInv' /\ JudgedInv'
<1> USE DEF tables, caches, backend, history
<1>a. /\ TypeInv /\ ConsumerInv /\ ScopeInv /\ e.rec \in Records /\ Known(e.rec)
      /\ envelopes \in [Records -> Envelope \cup {None}]
  BY EventKnown DEF IInv, PendInv, TypeInv, TypeOK
<1>1. /\ \A f \in stream : f.rec = e.rec => e.seq <= f.seq
      /\ \A t \in Scanners : scanner[t] # IdleScanner => scanner[t].event.rec # e.rec
  BY DEF Receive, ReceiveDelete, Deliverable
<1>2. /\ UNCHANGED <<store, stream, emitted, verdicts, origin>>
      /\ \A t \in Scanners \ {s} : scanner'[t] = scanner[t]
      /\ scanner'[s].event = e /\ scanner'[s].pc \in {"bind", "existing", "delete"}
      /\ scanner'[s].pc = "delete" => e.event_type = "DELETE"
  BY <1>a DEF Receive, ReceiveDelete, ScannerTo, TypeInv, TypeOK
<1>3. ConsumerInv'
  <2>1. AtOldest(s)'
    BY <1>1, <1>2 DEF AtOldest
  <2>2. \A t \in Scanners \ {s} : AtOldest(t)'
    BY <1>a, <1>2 DEF ConsumerInv, AtOldest
  <2> QED
    BY <1>a, <1>1, <1>2, <2>1, <2>2 DEF ConsumerInv
<1>4. JudgedInv'
  <2>1. \A t \in Scanners : scanner'[t].pc \in {"publish", "ack"} =>
          scanner'[t] = scanner[t] /\ scanner[t].event.rec \in Records
    BY <1>a, <1>2, Inside DEF ScannerState, Event
  <2> QED
    BY <1>a, <1>2, <2>1, JudgedQuiet DEF Owed
<1>5. CASE Receive(s, e)
  <2>1. PICK found, env : found = envelopes[e.rec] /\ env = Upserted(found, e)
    OBVIOUS
  <2>2. KeepsScope(e.rec, env)
    <3>1. CASE found = None
      <4>1. env.trust_tier = DERIVED
        BY <2>1, <3>1 DEF Upserted, StampDerived, stamp
      <4> QED
        BY <1>a, <4>1 DEF KeepsScope
    <3>2. CASE found # None
      <4>1. env.trust_tier = found.trust_tier
        BY <1>a, <2>1, <3>2 DEF Upserted, Envelope
      <4> QED
        BY <1>a, <2>1, <3>2, <4>1 DEF ScopeInv, KeepsScope
    <3> QED
      BY <3>1, <3>2
  <2>3. envelopes' = envelopes /\ scanner'[s].env = env
    BY <1>5, <1>a, <2>1 DEF Receive, ScannerTo, TypeInv, TypeOK
  <2> QED
    BY <1>a, <1>2, <1>3, <1>4, <2>2, <2>3, ScopeScanner
<1>6. CASE ReceiveDelete(s, e)
  <2>1. envelopes' = [envelopes EXCEPT ![e.rec] = None] /\ scanner'[s].pc = "delete"
    BY <1>6, <1>a DEF ReceiveDelete, TypeInv, TypeOK
  <2> QED
    BY <1>a, <1>2, <1>3, <1>4, <2>1, ScopeScanner
<1> QED
  BY <1>5, <1>6

\* A scanner that goes on in its handler, and does not judge.
LEMMA PendHandle ==
  ASSUME IInv, PendInv, NEW s \in Scanners,
         Bind(s) \/ ReadExisting(s) \/ Publish(s) \/ DeleteVerdict(s)
  PROVE  ConsumerInv' /\ ScopeInv' /\ JudgedInv'
<1> USE DEF tables, caches, backend, history
<1>0. scanner[s].pc \in {"bind", "existing", "publish", "delete"} /\ scanner[s] # IdleScanner
  BY DEF Bind, ReadExisting, Publish, DeleteVerdict, IdleScanner
<1>1. PICK e, env : e = scanner[s].event /\ env = scanner[s].env
  OBVIOUS
<1>2. /\ TypeInv /\ ConsumerInv /\ ScopeInv /\ scanner[s] \in ScannerState
      /\ e.rec \in Records /\ e \in stream
      /\ scanner \in [Scanners -> ScannerState \cup {IdleScanner}]
      /\ envelopes \in [Records -> Envelope \cup {None}]
      /\ verdicts \in [Records -> Verdict \cup {None}]
  BY <1>0, <1>1, Inside, AtEvent DEF IInv, PendInv, TypeInv, TypeOK
<1>3. /\ UNCHANGED <<store, stream, emitted, origin>>
      /\ \A t \in Scanners \ {s} : scanner'[t] = scanner[t]
  BY <1>2 DEF Bind, ReadExisting, Publish, DeleteVerdict, ScannerTo
<1>4. /\ scanner'[s].event = e /\ scanner'[s].env = env
      /\ scanner'[s].pc \in {"existing", "assess", "ack"}
  <2>1. \E pc \in {"existing", "assess", "ack"} : scanner' = [scanner EXCEPT ![s].pc = pc]
    BY <1>2 DEF Bind, ReadExisting, Publish, DeleteVerdict, ScannerTo
  <2> QED
    BY <1>1, <1>2, <2>1 DEF ScannerState
<1>5. ConsumerInv'
  BY <1>0, <1>1, <1>2, <1>3, <1>4, ConsumersQuiet
<1>6. \A q \in Records : Owed(q)' <=> Owed(q)
  BY <1>3 DEF Owed
<1>7. \A t \in Scanners : scanner[t].pc \in {"publish", "ack"} => scanner[t].event.rec \in Records
  BY <1>2, Inside DEF ScannerState, Event
<1>8. CASE Bind(s)
  <2>1. envelopes' = [envelopes EXCEPT ![e.rec] = env] /\ verdicts' = verdicts
        /\ scanner'[s].pc = "existing" /\ KeepsScope(e.rec, env)
    BY <1>8, <1>1, <1>2 DEF Bind, ScopeInv, ScannerState
  <2>2. ScopeInv'
    BY <1>2, <1>3, <1>4, <2>1, ScopeScanner
  <2> QED
    BY <1>2, <1>3, <1>4, <1>5, <1>6, <1>7, <2>1, <2>2, JudgedQuiet
<1>9. CASE ReadExisting(s)
  <2>1. envelopes' = envelopes /\ verdicts' = verdicts /\ KeepsScope(e.rec, env)
        /\ scanner'[s].pc # "existing"
    BY <1>9, <1>1, <1>2 DEF ReadExisting, ScannerTo, ScopeInv, ScannerState
  <2>2. scanner'[s].pc = "ack" /\ IsLast(e) /\ Owed(e.rec) => Judged(e.rec)
    <3> SUFFICES ASSUME scanner'[s].pc = "ack", IsLast(e), Owed(e.rec)  PROVE Judged(e.rec)
      OBVIOUS
    <3>1. store[e.rec] = e.content /\ env.trust_tier \in ScanTiers
      BY <1>0, <1>1, <1>2, <2>1, AtEvent DEF Owed, KeepsScope
    <3>2. InScope(env, verdicts[e.rec])
      BY <3>1 DEF InScope
    <3>3. Settled(verdicts[e.rec], sha256_hex[e.content])
      <4>1. scanner'[s].pc = IF InScope(env, verdicts[e.rec])
                                /\ ~Settled(verdicts[e.rec], sha256_hex[e.content])
                             THEN "assess" ELSE "ack"
        BY <1>9, <1>1, <1>2 DEF ReadExisting, ScannerTo, ScannerState
      <4> QED
        BY <3>2, <4>1
    <3> QED
      BY <3>1, <3>3 DEF Settled, Judged, PENDING, CLEARED, FAILED
  <2>3. ScopeInv'
    BY <1>2, <1>3, <1>4, <2>1, ScopeScanner
  <2>4. \A t \in Scanners : scanner'[t].pc \in {"publish", "ack"} =>
          /\ scanner'[t].event = scanner[t].event /\ scanner[t].event.rec \in Records
          /\ \/ scanner[t].pc \in {"publish", "ack"}
             \/ IsLast(scanner[t].event) /\ Owed(scanner[t].event.rec) => Judged(scanner[t].event.rec)
    BY <1>1, <1>2, <1>3, <1>4, <1>7, <2>2
  <2> QED
    BY <1>2, <1>3, <1>5, <1>6, <2>1, <2>3, <2>4, JudgedQuiet
<1>10. CASE Publish(s)
  <2>1. envelopes' = envelopes /\ verdicts' = verdicts /\ scanner[s].pc = "publish"
        /\ scanner'[s].pc = "ack"
    BY <1>10, <1>2 DEF Publish, ScannerState
  <2>2. ScopeInv'
    BY <1>2, <1>3, <1>4, <2>1, ScopeScanner
  <2> QED
    BY <1>1, <1>2, <1>3, <1>4, <1>5, <1>6, <1>7, <2>1, <2>2, JudgedQuiet
<1>11. CASE DeleteVerdict(s)
  <2>1. /\ envelopes' = envelopes /\ \A q \in Records \ {e.rec} : verdicts'[q] = verdicts[q]
        /\ scanner[s].pc = "delete" /\ scanner'[s].pc = "ack"
    BY <1>11, <1>1, <1>2 DEF DeleteVerdict, ScannerState
  <2>2. ~Owed(e.rec)
    BY <1>0, <1>1, <1>2, <2>1 DEF PendInv, ConsumerInv, AtOldest, StreamInv, Owed
  <2>3. ScopeInv'
    BY <1>2, <1>3, <1>4, <2>1, ScopeScanner
  <2>4. \A t \in Scanners : scanner'[t].pc \in {"publish", "ack"} =>
          /\ scanner'[t].event = scanner[t].event /\ scanner[t].event.rec \in Records
          /\ \/ scanner[t].pc \in {"publish", "ack"}
             \/ IsLast(scanner[t].event) /\ Owed(scanner[t].event.rec) => Judged(scanner[t].event.rec)
    BY <1>1, <1>2, <1>3, <1>4, <1>7, <2>2
  <2>5. \A q \in Records : Owed(q)' => Owed(q) /\ verdicts'[q] = verdicts[q]
    BY <1>6, <2>1, <2>2
  <2> QED
    BY <1>2, <1>3, <1>5, <2>3, <2>4, <2>5, JudgedQuiet
<1> QED
  BY <1>8, <1>9, <1>10, <1>11

\* The verdict on an event: a newer one follows, or it is on what the record holds.
LEMMA PendAssess ==
  ASSUME IInv, PendInv, NEW s \in Scanners, NEW attack \in BOOLEAN, AssessContent(s, attack)
  PROVE  ConsumerInv' /\ ScopeInv' /\ JudgedInv'
<1> USE DEF tables, caches, backend
<1>0. scanner[s].pc = "assess" /\ scanner[s] # IdleScanner
  BY DEF AssessContent, IdleScanner
<1>1. PICK e : e = scanner[s].event
  OBVIOUS
<1>2. /\ TypeInv /\ ConsumerInv /\ ScopeInv /\ scanner[s] \in ScannerState
      /\ e.rec \in Records /\ e \in stream
      /\ scanner \in [Scanners -> ScannerState \cup {IdleScanner}]
      /\ verdicts \in [Records -> Verdict \cup {None}]
  BY <1>0, <1>1, Inside, AtEvent DEF IInv, PendInv, TypeInv, TypeOK
<1>3. PICK v : v = [verdict |-> IF attack THEN FAILED ELSE CLEARED,
                    verdict_digest |-> sha256_hex[e.content]]
  OBVIOUS
<1>4. /\ UNCHANGED <<store, stream, emitted, origin, envelopes>>
      /\ verdicts' = [verdicts EXCEPT ![e.rec] = v]
      /\ \A t \in Scanners \ {s} : scanner'[t] = scanner[t]
  BY <1>1, <1>2, <1>3 DEF AssessContent
<1>5. scanner'[s].event = e /\ scanner'[s].pc \in {"publish", "ack"}
  BY <1>1, <1>2 DEF AssessContent, ScannerState
<1>6. ConsumerInv'
  BY <1>0, <1>1, <1>2, <1>4, <1>5, ConsumersQuiet
<1>7. ScopeInv'
  BY <1>2, <1>4, <1>5, ScopeScanner
<1>8. /\ \A q \in Records : Owed(q)' <=> Owed(q)
      /\ \A q \in Records \ {e.rec} : Judged(q)' <=> Judged(q)
  BY <1>4 DEF Owed, Judged
<1>9. \A q \in Records : Owed(q)' => Judged(q)' \/ \E f \in stream' : f.rec = q
  BY <1>2, <1>4, <1>8 DEF PendInv, JudgedInv
<1>10. store[e.rec] = e.content => Judged(e.rec)'
  <2>1. verdicts'[e.rec] = v /\ v # None
    <3>1. v \in Verdict
      BY <1>3, <1>4, <1>0, <1>1, <1>2, Inside, Sha256Assumption DEF Verdict, ScannerShape
    <3>2. verdicts[e.rec] \in Verdict \cup {None} /\ verdicts'[e.rec] = v
      BY <1>2, <1>4
    <3> QED
      BY <3>1, <3>2, NoneIsNoVerdict
  <2>2. v.verdict # PENDING /\ v.verdict_digest = sha256_hex[e.content]
    BY <1>3 DEF PENDING, FAILED, CLEARED
  <2> QED
    BY <1>4, <2>1, <2>2 DEF Judged
<1>11. ASSUME NEW t \in Scanners, scanner'[t].pc \in {"publish", "ack"},
              Owed(scanner[t].event.rec)', IsLast(scanner[t].event)'
       PROVE  Judged(scanner[t].event.rec)'
  <2>1. CASE t = s
    <3>1. IsLast(e)
      BY <1>4, <1>5, <1>11, <2>1 DEF IsLast
    <3>2. store[e.rec] = e.content
      BY <1>0, <1>1, <1>2, <3>1, AtEvent DEF PendInv
    <3> QED
      BY <1>5, <1>10, <2>1, <3>2 DEF Judged
  <2>2. CASE t # s
    <3>1. PICK f : f = scanner[t].event
      OBVIOUS
    <3>2. scanner'[t] = scanner[t] /\ scanner[t] # IdleScanner
      BY <1>4, <1>11, <2>2 DEF IdleScanner
    <3>3. f.rec \in Records \ {e.rec}
      BY <1>0, <1>1, <1>2, <2>2, <3>1, <3>2, AtEvent DEF PendInv
    <3>4. Owed(f.rec) /\ IsLast(f)
      BY <1>4, <1>8, <1>11, <3>1, <3>2, <3>3 DEF IsLast, Owed
    <3>5. Judged(f.rec)
      BY <1>11, <3>1, <3>2, <3>4 DEF PendInv, JudgedInv
    <3> QED
      BY <1>8, <3>1, <3>2, <3>3, <3>5 DEF Judged
  <2> QED
    BY <2>1, <2>2
<1> QED
  BY <1>6, <1>7, <1>9, <1>11 DEF JudgedInv

\* The oldest event goes; if it was the last one, what the record holds is judged.
LEMMA PendAcknowledge ==
  ASSUME IInv, PendInv, NEW s \in Scanners, Acknowledge(s)
  PROVE  StreamInv' /\ ConsumerInv' /\ ScopeInv' /\ JudgedInv'
<1> USE DEF tables, caches, backend, history
<1>0. scanner[s].pc = "ack" /\ scanner[s] # IdleScanner
  BY DEF Acknowledge, IdleScanner
<1>1. PICK e : e = scanner[s].event
  OBVIOUS
<1>2. /\ TypeInv /\ StreamInv /\ ConsumerInv /\ ScopeInv /\ e.rec \in Records /\ e \in stream
      /\ \A f \in stream : f.rec = e.rec => e.seq <= f.seq
      /\ \A t \in Scanners \ {s} : scanner[t] = IdleScanner \/ scanner[t].event.rec # e.rec
  BY <1>0, <1>1, AtEvent DEF IInv, PendInv
<1>3. /\ UNCHANGED <<store, emitted, origin, envelopes, verdicts>> /\ stream' = stream \ {e}
      /\ scanner'[s] = IdleScanner /\ \A t \in Scanners \ {s} : scanner'[t] = scanner[t]
  BY <1>1, <1>2 DEF Acknowledge, TypeInv, TypeOK
<1>4. ASSUME NEW g \in stream'
      PROVE  \E f \in stream' : f.rec = g.rec /\ IsLast(f)
  <2>1. PICK f \in stream : f.rec = g.rec /\ IsLast(f)
    BY <1>2, <1>3 DEF StreamInv
  <2>2. CASE f = e
    <3>1. /\ g.rec = e.rec /\ e.seq <= g.seq /\ g.seq < emitted[e.rec] /\ e.seq + 1 = emitted[e.rec]
          /\ g.seq \in Nat /\ e.seq \in Nat /\ emitted[e.rec] \in Nat
      BY <1>2, <1>3, <1>4, <2>1, <2>2, StreamTyped DEF StreamInv, IsLast
    <3>2. g.seq = e.seq
      BY <3>1
    <3>3. g = e
      BY <1>2, <1>3, <1>4, <3>1, <3>2 DEF StreamInv
    <3> QED
      BY <1>3, <1>4, <3>3
  <2> QED
    BY <1>3, <2>1, <2>2
<1>5. StreamInv'
  BY <1>2, <1>3, <1>4 DEF StreamInv, IsLast
<1>6. ConsumerInv'
  <2>1. \A t \in Scanners : AtOldest(t)'
    BY <1>2, <1>3 DEF ConsumerInv, AtOldest
  <2> QED
    BY <1>2, <1>3, <2>1 DEF ConsumerInv
<1>7. ScopeInv'
  BY <1>2, <1>3, ScopeScanner DEF IdleScanner
<1>8. \A q \in Records : (Owed(q)' <=> Owed(q)) /\ (Judged(q)' <=> Judged(q))
  BY <1>3 DEF Owed, Judged
<1>9. ASSUME NEW q \in Records, Owed(q), ~Judged(q)  PROVE \E f \in stream' : f.rec = q
  <2>1. PICK g \in stream : g.rec = q
    BY <1>9 DEF PendInv, JudgedInv
  <2>2. PICK f \in stream : f.rec = q /\ IsLast(f)
    BY <1>2, <2>1 DEF StreamInv
  <2>3. f # e
    BY <1>0, <1>1, <1>9, <2>2 DEF PendInv, JudgedInv
  <2> QED
    BY <1>3, <2>2, <2>3
<1>10. ASSUME NEW t \in Scanners, scanner'[t].pc \in {"publish", "ack"},
              Owed(scanner[t].event.rec)', IsLast(scanner[t].event)'
       PROVE  Judged(scanner[t].event.rec)'
  <2>1. PICK f : f = scanner[t].event
    OBVIOUS
  <2>2. t # s /\ scanner'[t] = scanner[t]
    BY <1>3, <1>10 DEF IdleScanner
  <2>3. f.rec \in Records
    BY <1>2, <1>10, <2>1, <2>2, Inside DEF ScannerState, Event
  <2>4. Owed(f.rec) /\ IsLast(f)
    BY <1>3, <1>8, <1>10, <2>1, <2>2, <2>3 DEF IsLast, Owed
  <2>5. Judged(f.rec)
    BY <1>10, <2>1, <2>2, <2>4 DEF PendInv, JudgedInv
  <2> QED
    BY <1>8, <2>1, <2>2, <2>3, <2>5 DEF Judged
<1>11. \A q \in Records : Owed(q)' => Judged(q)' \/ \E f \in stream' : f.rec = q
  BY <1>8, <1>9
<1> QED
  BY <1>5, <1>6, <1>7, <1>10, <1>11 DEF JudgedInv

LEMMA PendScanner ==
  ASSUME IInv, Grows, PendInv, OrderedStream, DERIVED \in ScanTiers,
         NEW s \in Scanners, ScannerNext(s)
  PROVE  PendInv'
<1>a. TypeInv /\ StreamInv /\ BirthInv /\ ConsumerInv /\ ScopeInv
  BY DEF IInv, PendInv
<1>b. /\ UNCHANGED <<store, writer, origin>> /\ \A t \in Scanners \ {s} : scanner'[t] = scanner[t]
  BY <1>a, ScannerLeaves
<1>1. emitted' = emitted
  BY DEF ScannerNext, ScannerStep, ScannerTo, Receive, ReceiveDelete, DeleteVerdict, Bind,
     ReadExisting, AssessContent, Publish, Acknowledge, LoseCheckpoint, ScanRaises, backend
<1>2. BirthInv'
  BY <1>a, <1>b, <1>1, BirthFrame
<1>3. CASE Acknowledge(s)
  BY <1>2, <1>3, PendAcknowledge DEF PendInv
<1>4. CASE LoseCheckpoint(s) \/ ScanRaises(s)
  <2>1. /\ UNCHANGED <<store, stream, emitted, origin, envelopes, verdicts>>
        /\ scanner'[s] = IdleScanner
    BY <1>4, <1>a DEF LoseCheckpoint, ScanRaises, ScannerTo, backend, tables, history, TypeInv, TypeOK
  <2>2. ConsumerInv' /\ ScopeInv'
    BY <1>a, <1>b, <2>1, ConsumersQuiet, ScopeScanner DEF IdleScanner
  <2>3. JudgedInv'
    <3>1. \A t \in Scanners : scanner'[t].pc \in {"publish", "ack"} =>
            scanner'[t] = scanner[t] /\ scanner[t].event.rec \in Records
      BY <1>a, <1>b, <2>1, Inside DEF IdleScanner, ScannerState, Event
    <3> QED
      BY <1>a, <2>1, <3>1, JudgedQuiet DEF Owed
  <2> QED
    BY <1>a, <1>2, <2>1, <2>2, <2>3, StreamFrame DEF PendInv
<1>5. ASSUME stream' = stream  PROVE StreamInv'
  BY <1>a, <1>b, <1>1, <1>5, StreamFrame
<1>6. ASSUME NEW e \in stream, Receive(s, e) \/ ReceiveDelete(s, e)  PROVE PendInv'
  <2>1. stream' = stream
    BY <1>6 DEF Receive, ReceiveDelete, ScannerTo, backend
  <2> QED
    BY <1>2, <1>5, <1>6, <2>1, PendReceive DEF PendInv
<1>7. ASSUME Bind(s) \/ ReadExisting(s) \/ Publish(s) \/ DeleteVerdict(s)  PROVE PendInv'
  <2>1. stream' = stream
    BY <1>7 DEF Bind, ReadExisting, Publish, DeleteVerdict, ScannerTo, backend
  <2> QED
    BY <1>2, <1>5, <1>7, <2>1, PendHandle DEF PendInv
<1>8. ASSUME NEW attack \in BOOLEAN, AssessContent(s, attack)  PROVE PendInv'
  <2>1. stream' = stream
    BY <1>8 DEF AssessContent, backend
  <2> QED
    BY <1>2, <1>5, <1>8, <2>1, PendAssess DEF PendInv
<1> QED
  BY <1>3, <1>4, <1>6, <1>7, <1>8 DEF ScannerNext, ScannerStep

LEMMA PendStep ==
  ASSUME OrderedStream, DERIVED \in ScanTiers
  PROVE  IInv /\ PendInv /\ [Next]_vars => PendInv'
<1> SUFFICES ASSUME IInv, PendInv, [Next]_vars  PROVE PendInv'
  OBVIOUS
<1>1. Grows
  BY HistoryGrows DEF IInv
<1>2. CASE UNCHANGED vars
  <2>1. /\ UNCHANGED <<store, stream, emitted, origin, envelopes, verdicts, scanner, writer>>
    BY <1>2 DEF vars, backend, tables, threads, history
  <2>2. StreamInv' /\ ConsumerInv' /\ JudgedInv'
    BY <1>1, <2>1, PendWriterQuiet DEF Owed
  <2> QED
    BY <1>1, <2>1, <2>2, BirthFrame, ScopeFrame DEF PendInv, IInv
<1> QED
  BY <1>1, <1>2, PendEnvironment, PendWriter, PendReader, PendScanner DEF Next

LEMMA PendImplies == TypeInv /\ PendInv => UnjudgedIsPending
<1> SUFFICES ASSUME TypeInv, PendInv, NEW r \in Records, Owed(r), ~Judged(r)
             PROVE  \E e \in stream :
                      /\ e.rec = r /\ e.event_type # "DELETE" /\ e.content = store[r]
                      /\ \A f \in stream : f.rec = r => f.seq <= e.seq
  BY DEF UnjudgedIsPending, Owed
<1>1. PICK g \in stream : g.rec = r
  BY DEF PendInv, JudgedInv
<1>2. PICK e \in stream : e.rec = r /\ IsLast(e)
  BY <1>1 DEF PendInv, StreamInv
<1>3. e.event_type # "DELETE" /\ e.content = store[r]
  BY <1>2 DEF PendInv, StreamInv, Owed
<1>4. ASSUME NEW f \in stream, f.rec = r  PROVE f.seq <= e.seq
  <2>1. /\ f.seq < emitted[r] /\ e.seq + 1 = emitted[r]
        /\ f.seq \in Nat /\ e.seq \in Nat /\ emitted[r] \in Nat
    BY <1>2, <1>4, StreamTyped DEF PendInv, StreamInv, IsLast
  <2> QED
    BY <2>1
<1> QED
  BY <1>2, <1>3, <1>4

\* The README's promise that untrusted content waits until it is classified, as a
\* safety property: if the stream keeps the order of a record's events and DERIVED records are
\* scanned (policy.py:93), what a record in scope holds has its final verdict, or an event that
\* brings it to the scanner is still in the stream, whatever raises, restarts or loses
\* its checkpoint meanwhile.
THEOREM UnjudgedAlwaysPending ==
  ASSUME OrderedStream, DERIVED \in ScanTiers
  PROVE  Spec => []UnjudgedIsPending
<1>1. Init => PendInv
  BY PendInit
<1>2. IInv /\ PendInv /\ [Next]_vars => PendInv'
  BY PendStep
<1>3. IInv /\ PendInv => UnjudgedIsPending
  BY PendImplies DEF IInv
<1> QED
  BY <1>1, <1>2, <1>3, IInvHolds, PTL DEF Spec
=============================================================================
