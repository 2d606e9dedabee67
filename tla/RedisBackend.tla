---------------------------- MODULE RedisBackend ----------------------------
(***************************************************************************)
(* The Redis adapter (memwarden/backends/redis.py).  A record is a hash,   *)
(* an entry of the set of its namespace and, if it has an actor, one of    *)
(* the set of that actor; every operation is several commands, each atomic *)
(* in Redis, and callers run at the same time.  An action is a command and *)
(* what the adapter does with its answer.                                  *)
(***************************************************************************)
EXTENDS Naturals, FiniteSets

CONSTANTS
  Records,     \* the ids uuid4() can give, ordered like strings
  Clients,     \* callers of the adapter
  workload,    \* the operations each of them calls, [Clients -> SUBSET Operations]
  ns_of,       \* [Records -> namespaces]
  actor_of,    \* [Records -> actors], NoActor where meta names none
  overlap,     \* words a record shares with the query of the instance
  k,           \* how many records retrieve() returns at most
  PageSize,    \* 100
  Faults,      \* {"raise"}: a command raises, done or not, and ends the call
  MaxBroken,   \* bound: records that raising calls leave half done
  NoActor,
  None         \* Python's None

Walks      == {"list", "list_by_actor", "retrieve"}
Operations == {"put", "batch_delete"} \cup Walks

ASSUME RedisAssumption ==
  /\ workload \in [Clients -> SUBSET Operations]
  /\ Records \subseteq Nat /\ IsFiniteSet(Records) /\ None \notin Records
  /\ DOMAIN ns_of = Records /\ DOMAIN actor_of = Records
  /\ overlap \in [Records -> Nat] /\ k \in Nat
  /\ PageSize \in Nat \ {0} /\ Faults \subseteq {"raise"}

Namespaces == {ns_of[r] : r \in Records}
Actors     == {actor_of[r] : r \in Records} \ {NoActor}

VARIABLES
  hashes,      \* records whose hash exists
  ns_set,      \* per namespace, the ids in its set
  actor_set,   \* per actor, the ids in its set
  born,        \* ids that uuid4() has given
  known,       \* ids that callers have been told
  client,      \* per caller, place and locals of its call
  returned,    \* history: records whose put() has returned
  broken       \* history: records left by a put or delete that raised

redis   == <<hashes, ns_set, actor_set>>
history == <<returned, broken>>
vars    == <<redis, born, known, client, history>>

IdleClient ==
  [op |-> "idle", pc |-> "idle", key |-> None, cursor |-> None, todo |-> {},
   found |-> {}, targets |-> {}, rid |-> None, count |-> 0, must |-> {}]

Init ==
  /\ hashes    = {}
  /\ ns_set    = [ns \in Namespaces |-> {}]
  /\ actor_set = [a \in Actors |-> {}]
  /\ born      = {}
  /\ known     = {}
  /\ client    = [c \in Clients |-> IdleClient]
  /\ returned  = {}
  /\ broken    = {}

ClientTo(c, st) == client' = [client EXCEPT ![c] = st]

-----------------------------------------------------------------------------
(* put().                                                                  *)

hset(c, r) ==
  /\ client[c].op = "idle" /\ r \notin born
  /\ born' = born \cup {r}
  /\ hashes' = hashes \cup {r}
  /\ ClientTo(c, [IdleClient EXCEPT !.op = "put", !.pc = "sadd_ns", !.targets = {r}, !.rid = r])
  /\ UNCHANGED <<ns_set, actor_set, known, history>>

sadd_ns(c) ==
  LET r == client[c].rid
  IN  /\ client[c].pc = "sadd_ns"
      /\ ns_set' = [ns_set EXCEPT ![ns_of[r]] = ns_set[ns_of[r]] \cup {r}]
      /\ ClientTo(c, [client[c] EXCEPT
           !.pc = IF actor_of[r] = NoActor THEN "return" ELSE "sadd_actor"])
      /\ UNCHANGED <<hashes, actor_set, born, known, history>>

sadd_actor(c) ==
  LET r == client[c].rid
  IN  /\ client[c].pc = "sadd_actor"
      /\ actor_set' = [actor_set EXCEPT ![actor_of[r]] = actor_set[actor_of[r]] \cup {r}]
      /\ ClientTo(c, [client[c] EXCEPT !.pc = "return"])
      /\ UNCHANGED <<hashes, ns_set, born, known, history>>

ReturnPut(c) ==
  /\ client[c].op = "put" /\ client[c].pc = "return"
  /\ known' = known \cup {client[c].rid}
  /\ returned' = returned \cup {client[c].rid}
  /\ ClientTo(c, IdleClient)
  /\ UNCHANGED <<redis, born, broken>>

-----------------------------------------------------------------------------
(* batch_delete(), and delete() as a batch of one.                         *)

batch_delete(c, rids) ==
  /\ client[c].op = "idle"
  /\ ClientTo(c, [IdleClient EXCEPT !.op = "batch_delete", !.pc = "del",
                                    !.targets = rids, !.todo = rids])
  /\ UNCHANGED <<redis, born, known, history>>

\* The caller whose command removed the hash counts the record.
Deleted(c, r, existed) ==
  client' = [d \in Clients |->
    IF d = c
    THEN [client[c] EXCEPT !.pc = "srem", !.rid = r,
                           !.count = client[c].count + (IF existed THEN 1 ELSE 0)]
    ELSE [client[d] EXCEPT !.must = client[d].must \ {r}]]

\* Mutant: there is nothing to do for a record that is not there.
del_or_skip(c, r) ==
  /\ client[c].pc = "del" /\ r \in client[c].todo
  /\ IF r \in hashes
     THEN hashes' = hashes \ {r} /\ Deleted(c, r, TRUE)
     ELSE /\ ClientTo(c, [client[c] EXCEPT !.todo = client[c].todo \ {r}])
          /\ UNCHANGED hashes
  /\ UNCHANGED <<ns_set, actor_set, born, known, history>>

del(c, r) ==
  /\ client[c].pc = "del" /\ r \in client[c].todo
  /\ hashes' = hashes \ {r}
  /\ Deleted(c, r, r \in hashes)
  /\ UNCHANGED <<ns_set, actor_set, born, known, history>>

srem(c) ==
  LET r == client[c].rid
  IN  /\ client[c].pc = "srem"
      /\ ns_set' = [ns_set EXCEPT ![ns_of[r]] = ns_set[ns_of[r]] \ {r}]
      /\ ClientTo(c, [client[c] EXCEPT !.pc = "del", !.todo = client[c].todo \ {r}])
      /\ UNCHANGED <<hashes, actor_set, born, known, history>>

ReturnDelete(c) ==
  /\ client[c].pc = "del" /\ client[c].todo = {}
  /\ broken' = broken \ client[c].targets
  /\ ClientTo(c, IdleClient)
  /\ UNCHANGED <<redis, born, known, returned>>

-----------------------------------------------------------------------------
(* Walks: list() page after page, list_by_actor() and retrieve().          *)

Scope(op, key) ==
  {r \in Records : IF op = "list_by_actor" THEN actor_of[r] = key ELSE ns_of[r] = key}

\* What a walk begun now has to find: a put that returned, and no deletion since.
Owed(op, key) == Scope(op, key) \cap returned \cap hashes

\* Mutant: a page begins with its cursor.
AfterOrAt(ids, cursor) == IF cursor \in ids THEN {r \in ids : cursor <= r} ELSE ids

\* smembers() and the page of the ids after the cursor, or from the start again
\* where the cursor's own record is gone.
After(ids, cursor) == IF cursor \in ids THEN {r \in ids : cursor < r} ELSE ids
Chunk(ids, cursor) ==
  {r \in After(ids, cursor) : Cardinality({q \in After(ids, cursor) : q < r}) < PageSize}

LastPage(ids, chunk) ==
  Cardinality(chunk) < PageSize \/ \A r \in ids : \E q \in chunk : r <= q

\* Mutant: the cursor is the place of the page's last record.
nxt_index(ids, chunk) == IF LastPage(ids, chunk) THEN None ELSE Cardinality(chunk) - 1

\* Mutant: the cursor is the first id of the next page.
nxt_first(ids, chunk) ==
  IF LastPage(ids, chunk) THEN None
  ELSE CHOOSE r \in ids : /\ \A q \in chunk : q < r
                         /\ \A q \in ids : q < r => \E p \in chunk : q <= p

nxt(ids, chunk) ==
  IF LastPage(ids, chunk) THEN None ELSE CHOOSE r \in chunk : \A q \in chunk : q <= r

Paged(st, cursor) ==
  LET ids == ns_set[st.key]
  IN  [st EXCEPT !.pc = "get", !.todo = Chunk(ids, cursor),
                 !.cursor = nxt(ids, Chunk(ids, cursor))]

Begun(op, key) == [IdleClient EXCEPT !.op = op, !.key = key, !.must = Owed(op, key)]

list(c, ns) ==
  /\ client[c].op = "idle"
  /\ ClientTo(c, Paged(Begun("list", ns), None))
  /\ UNCHANGED <<redis, born, known, history>>

list_by_actor(c, a) ==
  /\ client[c].op = "idle"
  /\ ClientTo(c, [Begun("list_by_actor", a) EXCEPT !.pc = "get", !.todo = actor_set[a]])
  /\ UNCHANGED <<redis, born, known, history>>

retrieve(c, ns) ==
  /\ client[c].op = "idle"
  /\ ClientTo(c, [Begun("retrieve", ns) EXCEPT !.pc = "get", !.todo = ns_set[ns]])
  /\ UNCHANGED <<redis, born, known, history>>

\* A page is fetched in its order; the members of a set come in any.
get(c, r) ==
  LET me == client[c]
  IN  /\ me.pc = "get" /\ r \in me.todo
      /\ me.op = "list" => \A q \in me.todo : r <= q
      /\ ClientTo(c, [me EXCEPT !.todo  = me.todo \ {r},
                                !.found = IF r \in hashes THEN me.found \cup {r} ELSE me.found])
      /\ known' = IF me.op = "list_by_actor" /\ r \in hashes THEN known \cup {r} ELSE known
      /\ UNCHANGED <<redis, born, history>>

\* A page is returned, and its cursor asked for the next.
NextPage(c) ==
  LET me == client[c]
  IN  /\ me.op = "list" /\ me.pc = "get" /\ me.todo = {} /\ me.cursor # None
      /\ known' = known \cup me.found
      /\ ClientTo(c, Paged(me, me.cursor))
      /\ UNCHANGED <<redis, born, history>>

Better(r, q) == overlap[r] > overlap[q] \/ (overlap[r] = overlap[q] /\ r < q)
Top(found) == {r \in found : Cardinality({q \in found : Better(q, r)}) < k}

EndWalk(c) ==
  LET me == client[c]
      answer == IF me.op = "retrieve" THEN Top(me.found) ELSE me.found
  IN  /\ me.pc = "get" /\ me.todo = {} /\ me.cursor = None
      /\ known' = known \cup answer
      /\ ClientTo(c, [IdleClient EXCEPT !.op = "answer", !.pc = "return", !.found = answer])
      /\ UNCHANGED <<redis, born, history>>

ReturnWalk(c) ==
  /\ client[c].op = "answer"
  /\ ClientTo(c, IdleClient)
  /\ UNCHANGED <<redis, born, known, history>>

-----------------------------------------------------------------------------
\* A put or a delete that raises leaves the commands that were done.
Raise(c) ==
  /\ "raise" \in Faults /\ client[c].op # "idle"
  /\ Cardinality(broken \cup client[c].targets) <= MaxBroken
  /\ broken' = broken \cup client[c].targets
  /\ ClientTo(c, IdleClient)
  /\ UNCHANGED <<redis, born, known, returned>>

Begin(c) ==
  \/ "put" \in workload[c] /\ \E r \in Records : hset(c, r)
  \/ "batch_delete" \in workload[c] /\ \E rids \in SUBSET known \ {{}} : batch_delete(c, rids)
  \/ "list" \in workload[c] /\ \E ns \in Namespaces : list(c, ns)
  \/ "list_by_actor" \in workload[c] /\ \E a \in Actors : list_by_actor(c, a)
  \/ "retrieve" \in workload[c] /\ \E ns \in Namespaces : retrieve(c, ns)

Step(c) ==
  \/ sadd_ns(c) \/ sadd_actor(c) \/ ReturnPut(c)
  \/ \E r \in Records : del(c, r)
  \/ srem(c) \/ ReturnDelete(c)
  \/ \E r \in Records : get(c, r)
  \/ NextPage(c) \/ EndWalk(c) \/ ReturnWalk(c)

Next == \E c \in Clients : Begin(c) \/ Step(c) \/ Raise(c)

Spec     == Init /\ [][Next]_vars
FairSpec == Spec /\ \A c \in Clients : WF_vars(Step(c))

-----------------------------------------------------------------------------
(* Properties.                                                             *)

ClientState ==
  [op      : {"idle", "put", "batch_delete", "list", "list_by_actor", "retrieve", "answer"},
   pc      : {"idle", "sadd_ns", "sadd_actor", "del", "srem", "get", "return"},
   key     : Namespaces \cup Actors \cup {None},
   cursor  : Records \cup {None},
   todo    : SUBSET Records, found : SUBSET Records, targets : SUBSET Records,
   rid     : Records \cup {None},
   count   : Nat,
   must    : SUBSET Records]

\* Sets hold ids, and calls have their shape.
TypeOK ==
  /\ hashes \subseteq Records /\ born \subseteq Records /\ known \subseteq Records
  /\ ns_set \in [Namespaces -> SUBSET Records]
  /\ actor_set \in [Actors -> SUBSET Records]
  /\ client \in [Clients -> ClientState]
  /\ returned \subseteq Records /\ broken \subseteq Records

\* A record stands where its hash and its put() are.
Stage(r) ==
  IF r \notin born THEN "absent"
  ELSE IF r \notin hashes THEN "deleted"
  ELSE IF r \in returned THEN "stored" ELSE "open"

Stages == [r \in Records |-> Stage(r)]

\* What the protocol tells of a call.
Call(me) ==
  [op      |-> me.op,
   scope   |-> IF me.op \in Walks THEN Scope(me.op, me.key) ELSE {},
   must    |-> me.must,
   found   |-> me.found,
   targets |-> me.targets,
   count   |-> me.count]

Calls == [c \in Clients |-> Call(client[c])]

Backend == INSTANCE MemoryBackend WITH stage <- Stages, call <- Calls

\* The commands of callers that run at once add up to the backend of the
\* protocol: a record is counted by one deletion (test_delete_idempotent), and a
\* listing whose cursor is deleted under it still ends with every record
\* (redis.py:64-69; test_list_pagination).
ImplementsBackend == Backend!Spec

Untouched(r) == r \notin broken /\ \A c \in Clients : r \notin client[c].targets

\* A record no put or delete is at work on, and none gave up on, is in its hash
\* and both indexes or else in no hash and not in its namespace: a put that is
\* overtaken by the deletion of its own record leaves nothing to list.
IndexesAgree ==
  \A r \in Records : Untouched(r) =>
    /\ r \in ns_set[ns_of[r]] <=> r \in hashes
    /\ r \in hashes /\ actor_of[r] # NoActor => r \in actor_set[actor_of[r]]

\* Calls end, a listing also when deletions send it back to the start.
CallsEnd == \A c \in Clients : client[c].op # "idle" ~> client[c].op = "idle"
=============================================================================
