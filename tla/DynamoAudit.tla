---------------------------- MODULE DynamoAudit -----------------------------
(***************************************************************************)
(* audit_append of the DynamoDB sidecar (memwarden/sidecar/dynamo.py): the *)
(* chain of one tenant, extended by the threads of several processes that  *)
(* share nothing but the table.  Every process caches the head of the      *)
(* chain; a conditional put of the next sequence number decides who wins.  *)
(***************************************************************************)
EXTENDS AuditChain, FiniteSets

CONSTANTS
  Calls,       \* calls of audit_append; a call stands for the payload it logs
  Processes,
  home,        \* [Calls -> Processes]: each sidecar object has its own cache
  Budget,      \* attempts of a call, 8 in the code
  StaleReads,  \* are the queries of the head eventually consistent?
  Faults,      \* what may fail, see FaultKinds
  MaxResent    \* bound: calls whose put is sent again

FaultKinds ==
  {"raise",   \* a throttled or failed request, which may have taken effect
   "lost",    \* the response to a put that took effect is lost: the SDK resends
   "crash"}   \* a process dies and restarts with an empty head cache

ASSUME CallsAssumption ==
  /\ home \in [Calls -> Processes] /\ Budget \in Nat \ {0}
  /\ StaleReads \in BOOLEAN /\ Faults \subseteq FaultKinds
  /\ MaxResent \in Nat

VARIABLES
  chain,       \* the audit table: the entry under each sequence number in use
  head_cache,  \* per process: the head it believes in, if it has one cached
  pc,          \* where each call is
  held,        \* the head each call is appending to
  tries,       \* conflicts each call has met
  resent       \* history: calls that sent a put again after it took effect

table == <<chain, resent>>
local == <<held, tries>>
vars  == <<table, head_cache, pc, local>>

\* A head is the last entry's seq, -1 for an empty chain, and its hash.
GenesisHead == [seq |-> -1, hash |-> GENESIS]
HeadAt(n)   == [seq |-> n, hash |-> chain[n].entry_hash]

Init ==
  /\ chain      = [n \in {} |-> GENESIS]
  /\ head_cache = [p \in Processes |-> {}]
  /\ pc         = [c \in Calls |-> "start"]
  /\ held       = [c \in Calls |-> GenesisHead]
  /\ tries      = [c \in Calls |-> 0]
  /\ resent     = {}

-----------------------------------------------------------------------------
IsLast(n) == n \in DOMAIN chain /\ \A m \in DOMAIN chain : m <= n

\* What _read_head() may answer: the head, or one that the chain has had.
ReadableHeads ==
  {HeadAt(n) : n \in {m \in DOMAIN chain : StaleReads \/ IsLast(m)}}
    \cup (IF StaleReads \/ DOMAIN chain = {} THEN {GenesisHead} ELSE {})

Goto(c, place) == pc' = [pc EXCEPT ![c] = place]

CacheHead(c, head) == head_cache' = [head_cache EXCEPT ![home[c]] = {head}]

\* No head is cached yet: the call is about to read one.
Start(c) ==
  /\ pc[c] = "start" /\ head_cache[home[c]] = {}
  /\ Goto(c, "head")
  /\ UNCHANGED <<table, head_cache, local>>

ReadHead(c) ==
  /\ pc[c] = "head"
  /\ \E head \in ReadableHeads : CacheHead(c, head)
  /\ Goto(c, "load")
  /\ UNCHANGED <<table, local>>

\* An attempt starts from the cache that all threads of the process share.
Load(c) ==
  /\ pc[c] \in {"start", "load"}
  /\ \E head \in head_cache[home[c]] : held' = [held EXCEPT ![c] = head]
  /\ Goto(c, "put")
  /\ UNCHANGED <<table, head_cache, tries>>

Next_seq(c) == held[c].seq + 1
EntryOf(c)  == entry(held[c].seq, held[c].hash, c)

\* Mutant: the put is unconditional.
PutItemAnyway(c) ==
  /\ pc[c] = "put"
  /\ chain' = [n \in DOMAIN chain \cup {Next_seq(c)} |->
                 IF n = Next_seq(c) THEN EntryOf(c) ELSE chain[n]]

\* put_item with attribute_not_exists(sk): takes effect once per sort key.
PutItem(c) ==
  /\ pc[c] = "put" /\ Next_seq(c) \notin DOMAIN chain
  /\ chain' = [n \in DOMAIN chain \cup {Next_seq(c)} |->
                 IF n = Next_seq(c) THEN EntryOf(c) ELSE chain[n]]

Put(c) ==
  /\ PutItem(c)
  /\ Goto(c, "set")
  /\ UNCHANGED <<resent, head_cache, local>>

\* The put takes effect, its response is lost and the SDK sends it again.
PutResent(c) ==
  /\ "lost" \in Faults /\ Cardinality(resent) < MaxResent
  /\ PutItem(c)
  /\ resent' = resent \cup {c}
  /\ UNCHANGED <<head_cache, pc, local>>

\* Mutant: a failed put is tried again, whether or not it took effect.
PutRaisesRetried(c) ==
  /\ "raise" \in Faults
  /\ PutItem(c)
  /\ Goto(c, "load")
  /\ UNCHANGED <<resent, head_cache, local>>

\* ... or the request fails for the caller although it took effect.
PutRaises(c) ==
  /\ "raise" \in Faults
  /\ PutItem(c)
  /\ Goto(c, "raised")
  /\ UNCHANGED <<resent, head_cache, local>>

\* ConditionalCheckFailedException.
Conflict(c) ==
  /\ pc[c] = "put" /\ Next_seq(c) \in DOMAIN chain
  /\ tries' = [tries EXCEPT ![c] = @ + 1]
  /\ Goto(c, "reread")
  /\ UNCHANGED <<table, head_cache, held>>

\* Mutant: a conflict puts the next entry on the old head, which skips one.
RereadByCounting(c) ==
  /\ pc[c] = "reread"
  /\ CacheHead(c, [seq |-> Next_seq(c), hash |-> held[c].hash])
  /\ Goto(c, IF tries[c] < Budget THEN "load" ELSE "raised")
  /\ UNCHANGED <<table, local>>

\* Mutant: one attempt too many.
RereadOnceMore(c) ==
  /\ pc[c] = "reread"
  /\ \E head \in ReadableHeads : CacheHead(c, head)
  /\ Goto(c, IF tries[c] <= Budget THEN "load" ELSE "raised")
  /\ UNCHANGED <<table, local>>

\* Mutant: the call never gives up.
RereadForEver(c) ==
  /\ pc[c] = "reread"
  /\ \E head \in ReadableHeads : CacheHead(c, head)
  /\ Goto(c, "load")
  /\ tries' = [tries EXCEPT ![c] = 0]
  /\ UNCHANGED <<table, held>>

\* The head is read again; after the last attempt the call gives up.
Reread(c) ==
  /\ pc[c] = "reread"
  /\ \E head \in ReadableHeads : CacheHead(c, head)
  /\ Goto(c, IF tries[c] < Budget THEN "load" ELSE "raised")
  /\ UNCHANGED <<table, local>>

\* The winner moves the cached head to its own entry and returns that entry.
SetHead(c) ==
  /\ pc[c] = "set"
  /\ CacheHead(c, [seq |-> Next_seq(c), hash |-> EntryOf(c).entry_hash])
  /\ Goto(c, "returned")
  /\ UNCHANGED <<table, local>>

RequestRaises(c) ==
  /\ "raise" \in Faults /\ pc[c] \in {"head", "put", "reread"}
  /\ Goto(c, "raised")
  /\ UNCHANGED <<table, head_cache, local>>

Running == {"head", "load", "put", "reread", "set"}
Final   == {"returned", "raised"}

\* The calls under way are gone with the process and its cache.
Crash(p) ==
  /\ "crash" \in Faults
  /\ head_cache' = [head_cache EXCEPT ![p] = {}]
  /\ pc' = [c \in Calls |-> IF home[c] = p /\ pc[c] \in Running THEN "raised" ELSE pc[c]]
  /\ UNCHANGED <<table, local>>

Step(c) ==
  Start(c) \/ ReadHead(c) \/ Load(c) \/ Put(c) \/ Conflict(c) \/ Reread(c) \/ SetHead(c)

Fault(c) == PutResent(c) \/ PutRaises(c) \/ RequestRaises(c)

Next ==
  \/ \E c \in Calls : Step(c) \/ Fault(c)
  \/ \E p \in Processes : Crash(p)

Spec == Init /\ [][Next]_vars

\* Fairness: a call that can go on does.
FairSpec == Spec /\ \A c \in Calls : WF_vars(Step(c))

-----------------------------------------------------------------------------
(* Properties.                                                             *)

\* Numbers and entries on the chain, places and conflict counts have their types; a
\* head is cached per process and held per call.
TypeOK ==
  /\ DOMAIN chain \subseteq Nat
  /\ chain = [n \in DOMAIN chain |-> entry(n - 1, chain[n].prev_hash, chain[n].payload)]
  /\ \A n \in DOMAIN chain : chain[n].payload \in Calls
  /\ head_cache = [p \in Processes |-> head_cache[p]]
  /\ pc \in [Calls -> {"start"} \cup Running \cup Final]
  /\ held = [c \in Calls |-> held[c]]
  /\ tries \in [Calls -> 0..Budget]
  /\ resent \subseteq Calls

\* The audit table always replays: sequence numbers without a gap, and every
\* entry hashed over the one before it, whichever heads the processes believed
\* in when they appended (dynamo.py:181, audit.py:75).
ChainVerifies ==
  /\ \A n \in DOMAIN chain : n = 0 \/ n - 1 \in DOMAIN chain
  /\ verify(chain)

Recorded(c) == \E n \in DOMAIN chain : chain[n].payload = c

\* A call is on the chain once: a retry never logs it again, and a call that gave
\* up on contention is not on it, unless the SDK resent a put.
RecordedOnce ==
  \A c \in Calls \ resent :
    /\ \A m, n \in DOMAIN chain : chain[m].payload = c /\ chain[n].payload = c => m = n
    /\ Recorded(c) => tries[c] < Budget

\* What callers see: the payloads logged, in order, and how each call ended.
log    == [n \in DOMAIN chain |-> chain[n].payload]
status == [c \in Calls |-> IF pc[c] \in Final THEN pc[c] ELSE "open"]
Log    == INSTANCE AuditLog WITH Calls <- Calls, log <- log, status <- status

\* Whatever the faults, audit_append keeps the promise of AuditLog.tla: the log
\* grows at its end only, and a call that returned has its entry on it.
ImplementsLog == Log!LogSpec

\* audit_append ends, with an entry or with an exception, even if every head it
\* reads is stale.
EveryCallEnds == \A c \in Calls : pc[c] = "start" ~> pc[c] \in Final
=============================================================================
