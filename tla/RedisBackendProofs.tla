------------------------- MODULE RedisBackendProofs -------------------------
(***************************************************************************)
(* Theorems about RedisBackend for any records, callers, page size and     *)
(* faults.  The argument: an id is out of everybody's sight until its      *)
(* namespace lists it, so no deletion overtakes the first half of a put;   *)
(* and a deletion is not done with a record before it is gone from both.   *)
(***************************************************************************)
EXTENDS RedisBackend, FiniteSetTheorems, TLAPS

\* What a call has in hand, by its operation and its place in it.
ClientShape ==
  \A c \in Clients :
    LET me == client[c]
    IN  /\ me.op = "put" =>
             /\ me.rid \in Records /\ me.targets = {me.rid}
             /\ me.pc \in {"sadd_ns", "sadd_actor", "return"}
        /\ me.op = "batch_delete" => me.todo \subseteq me.targets /\ me.pc \in {"del", "srem"}
        /\ me.op \notin {"put", "batch_delete"} => me.targets = {}
        /\ me.pc \in {"sadd_ns", "sadd_actor"} => me.op = "put"
        /\ me.pc \in {"del", "srem"} => me.op = "batch_delete"
        /\ me.pc = "srem" => me.rid \in me.todo
        /\ me.pc = "sadd_actor" => actor_of[me.rid] # NoActor
        /\ me.pc = "get" => me.op \in Walks
        /\ me.op = "list" => me.key \in Namespaces

\* No caller has the id, and no set that one could read it from.
Unseen(r) ==
  /\ r \notin known
  /\ \A ns \in Namespaces : r \notin ns_set[ns]
  /\ \A a \in Actors : r \notin actor_set[a]
  /\ \A d \in Clients : r \notin client[d].todo \cup client[d].found

Unborn ==
  \A r \in Records \ born :
    r \notin hashes /\ Unseen(r) /\ \A d \in Clients : r \notin client[d].targets

\* Until its namespace lists it, nobody can delete a record.
FreshPut ==
  \A c \in Clients : client[c].pc = "sadd_ns" =>
    /\ client[c].rid \in hashes /\ Unseen(client[c].rid)
    /\ \A d \in Clients \ {c} : client[c].rid \notin client[d].targets

\* A deletion leaves nothing of the records it is through with.
DeleteDone ==
  \A c \in Clients :
    /\ client[c].op = "batch_delete" =>
         \A r \in client[c].targets \ client[c].todo : r \notin hashes /\ r \notin ns_set[ns_of[r]]
    /\ client[c].pc = "srem" => client[c].rid \notin hashes

AtPlace(r, places) == \E c \in Clients : client[c].pc \in places /\ client[c].rid = r

\* Where hash and indexes disagree, a call is about to settle it, or one raised.
Located ==
  \A r \in Records :
    /\ r \in hashes /\ r \notin ns_set[ns_of[r]] => r \in broken \/ AtPlace(r, {"sadd_ns"})
    /\ r \in hashes /\ actor_of[r] # NoActor /\ r \notin actor_set[actor_of[r]]
         => r \in broken \/ AtPlace(r, {"sadd_ns", "sadd_actor"})
    /\ r \notin hashes /\ r \in ns_set[ns_of[r]] => r \in broken \/ AtPlace(r, {"srem"})

RInv == TypeOK /\ ClientShape /\ Unborn /\ FreshPut /\ DeleteDone /\ Located

-----------------------------------------------------------------------------
(* A page that is not the last has a last record.                          *)

Less == {p \in Nat \X Nat : p[1] < p[2]}

LEMMA LessWellFounded == IsWellFoundedOn(Less, Nat)
BY NatLessThanWellFounded DEF OpToRel, Less

LEMMA LeastExists ==
  ASSUME NEW S \in SUBSET Nat, S # {}
  PROVE  \E n \in S : \A m \in S : n <= m
<1>1. PICK n \in S : \A m \in S : <<m, n>> \notin Less
  BY LessWellFounded, WFMin
<1>2. ASSUME NEW m \in S  PROVE n <= m
  <2>1. m \in Nat /\ n \in Nat /\ <<m, n>> \in Nat \X Nat
    OBVIOUS
  <2>2. ~(m < n)
    BY <1>1, <2>1 DEF Less
  <2> QED
    BY <2>1, <2>2
<1> QED
  BY <1>2

\* The record with the fewest above it has none above it.
LEMMA GreatestExists ==
  ASSUME NEW S \in SUBSET Nat, IsFiniteSet(S), S # {}
  PROVE  \E r \in S : \A q \in S : q <= r
<1> DEFINE Above(r) == {q \in S : r < q}
           sizes    == {Cardinality(Above(r)) : r \in S}
<1>1. ASSUME NEW r \in S
      PROVE  IsFiniteSet(Above(r)) /\ Cardinality(Above(r)) \in Nat
  <2>1. Above(r) \in SUBSET S
    OBVIOUS
  <2> HIDE DEF Above
  <2> QED
    BY <2>1, FS_Subset, FS_CardinalityType
<1>2. sizes \in SUBSET Nat /\ sizes # {}
  BY <1>1
<1>3. PICK n \in sizes : \A m \in sizes : n <= m
  <2> HIDE DEF sizes
  <2> QED
    BY <1>2, LeastExists
<1>4. PICK r \in S : n = Cardinality(Above(r))
  OBVIOUS
<1>5. ASSUME NEW q \in S, ~(q <= r)  PROVE FALSE
  <2>1. q \in Nat /\ r \in Nat /\ r < q
    BY <1>5
  <2>2. Above(q) \in SUBSET Above(r) /\ q \in Above(r) /\ q \notin Above(q)
    <3>1. \A p \in S : q < p => r < p
      BY <2>1
    <3>2. ~(q < q)
      BY <2>1
    <3> QED
      BY <2>1, <3>1, <3>2
  <2>3. Cardinality(Above(r)) <= Cardinality(Above(q))
    <3>1. Cardinality(Above(q)) \in sizes
      OBVIOUS
    <3> HIDE DEF Above, sizes
    <3> QED
      BY <1>3, <1>4, <3>1
  <2>4. Above(r) = Above(q)
    <3> HIDE DEF Above
    <3>1. Cardinality(Above(q)) <= Cardinality(Above(r))
      BY <1>1, <2>2, FS_Subset
    <3> QED
      BY <1>1, <2>2, <2>3, <3>1, FS_Subset
  <2> QED
    BY <2>2, <2>4
<1> QED
  BY <1>5

LEMMA ChunkShape ==
  ASSUME NEW ids, NEW cursor
  PROVE  Chunk(ids, cursor) \subseteq ids
BY DEF Chunk, After

LEMMA CursorTyped ==
  ASSUME NEW ids \in SUBSET Records, NEW cursor
  PROVE  nxt(ids, Chunk(ids, cursor)) \in Records \cup {None}
<1> DEFINE chunk == Chunk(ids, cursor)
<1>1. chunk \in SUBSET Records
  BY ChunkShape
<1>2. IsFiniteSet(chunk) /\ Records \subseteq Nat
  BY <1>1, RedisAssumption, FS_Subset
<1> HIDE DEF chunk
<1>3. CASE LastPage(ids, chunk)
  BY <1>3 DEF nxt, chunk
<1>4. CASE ~LastPage(ids, chunk)
  <2>1. chunk # {}
    BY <1>4, FS_EmptySet, RedisAssumption DEF LastPage
  <2>2. \E r \in chunk : \A q \in chunk : q <= r
    BY <1>1, <1>2, <2>1, GreatestExists
  <2>3. nxt(ids, chunk) \in chunk
    BY <1>4, <2>2 DEF nxt
  <2> QED
    BY <1>1, <2>3 DEF chunk
<1> QED
  BY <1>3, <1>4

-----------------------------------------------------------------------------
(* What a step of a caller leaves alone.                                   *)

LEMMA OtherClients ==
  ASSUME TypeOK, NEW c \in Clients, NEW st \in ClientState, ClientTo(c, st)
  PROVE  /\ client' \in [Clients -> ClientState]
         /\ client'[c] = st
         /\ \A d \in Clients \ {c} : client'[d] = client[d]
BY DEF TypeOK, ClientTo

LEMMA IdleTyped ==
  /\ IdleClient \in ClientState
  /\ IdleClient.op = "idle" /\ IdleClient.pc = "idle" /\ IdleClient.targets = {}
  /\ IdleClient.todo = {} /\ IdleClient.found = {}
BY DEF IdleClient, ClientState

LEMMA SetsTyped ==
  ASSUME TypeOK, NEW r \in Records
  PROVE  /\ ns_of[r] \in Namespaces
         /\ ns_set[ns_of[r]] \in SUBSET Records
         /\ actor_of[r] # NoActor => actor_of[r] \in Actors
         /\ actor_of[r] # NoActor => actor_set[actor_of[r]] \in SUBSET Records
BY DEF TypeOK, Namespaces, Actors

\* A walk reads, and what it tells the callers it read from the sets.
LEMMA WalkStep ==
  ASSUME RInv, NEW c \in Clients, NEW st \in ClientState, ClientTo(c, st),
         UNCHANGED <<redis, born, history>>, known' \in SUBSET Records,
         client[c].op \notin {"put", "batch_delete"},
         st.op \notin {"put", "batch_delete"}, st.targets = {},
         st.pc \in {"idle", "get", "return"}, st.pc = "get" => st.op \in Walks,
         st.op = "list" => st.key \in Namespaces,
         \A r \in Records : Unseen(r) => r \notin st.todo \cup st.found \cup known'
  PROVE  RInv'
<1>1. /\ client' \in [Clients -> ClientState]
      /\ client'[c] = st
      /\ \A d \in Clients \ {c} : client'[d] = client[d]
  BY OtherClients DEF RInv
<1>2. /\ UNCHANGED <<hashes, ns_set, actor_set, born, returned, broken>>
      /\ client[c].pc \notin {"sadd_ns", "sadd_actor", "del", "srem"}
  BY DEF RInv, ClientShape, redis, history
<1>3. \A r \in Records : Unseen(r) => Unseen(r)'
  BY <1>1, <1>2 DEF Unseen
<1>4. TypeOK'
  BY <1>1, <1>2 DEF RInv, TypeOK
<1>5. ClientShape'
  <2>1. ASSUME NEW d \in Clients \ {c}  PROVE client'[d] = client[d]
    BY <1>1
  <2> QED
    BY <1>1, <2>1 DEF RInv, ClientShape
<1>6. Unborn'
  BY <1>1, <1>2, <1>3 DEF RInv, Unborn
<1>7. FreshPut'
  <2>1. ASSUME NEW d \in Clients, client'[d].pc = "sadd_ns"
        PROVE  d # c /\ client[d].pc = "sadd_ns" /\ client'[d] = client[d] /\ client[d].rid \in Records
    BY <1>1, <2>1 DEF RInv, ClientShape
  <2> QED
    BY <1>1, <1>2, <1>3, <2>1 DEF RInv, FreshPut
<1>8. DeleteDone'
  BY <1>1, <1>2 DEF RInv, DeleteDone
<1>9. Located'
  <2>1. ASSUME NEW r \in Records, NEW places \in SUBSET {"sadd_ns", "sadd_actor", "srem"},
               AtPlace(r, places)
        PROVE  AtPlace(r, places)'
    BY <1>1, <1>2, <2>1 DEF AtPlace
  <2> QED
    BY <1>2, <2>1 DEF RInv, Located
<1> QED
  BY <1>4, <1>5, <1>6, <1>7, <1>8, <1>9 DEF RInv

LEMMA PagedShape ==
  ASSUME TypeOK, NEW st \in ClientState, st.key \in Namespaces, NEW cursor
  PROVE  /\ Paged(st, cursor) \in ClientState
         /\ Paged(st, cursor).pc = "get" /\ Paged(st, cursor).op = st.op
         /\ Paged(st, cursor).key = st.key /\ Paged(st, cursor).targets = st.targets
         /\ Paged(st, cursor).found = st.found
         /\ Paged(st, cursor).todo \subseteq ns_set[st.key]
<1> DEFINE ids == ns_set[st.key]
<1>1. ids \in SUBSET Records
  BY DEF TypeOK
<1>2. Chunk(ids, cursor) \in SUBSET Records /\ Chunk(ids, cursor) \subseteq ids
  BY <1>1, ChunkShape
<1>3. nxt(ids, Chunk(ids, cursor)) \in Records \cup {None}
  BY <1>1, CursorTyped
<1>4. Paged(st, cursor) = [st EXCEPT !.pc = "get", !.todo = Chunk(ids, cursor),
                                     !.cursor = nxt(ids, Chunk(ids, cursor))]
  BY DEF Paged
<1> HIDE DEF ids
<1>5. /\ Paged(st, cursor) \in ClientState
      /\ Paged(st, cursor).pc = "get" /\ Paged(st, cursor).op = st.op
      /\ Paged(st, cursor).key = st.key /\ Paged(st, cursor).targets = st.targets
      /\ Paged(st, cursor).found = st.found
      /\ Paged(st, cursor).todo = Chunk(ids, cursor)
  BY <1>2, <1>3, <1>4 DEF ClientState
<1> QED
  BY <1>2, <1>5 DEF ids

LEMMA BegunShape ==
  ASSUME TypeOK, NEW op \in Walks, NEW key \in Namespaces \cup Actors
  PROVE  /\ Begun(op, key) \in ClientState
         /\ Begun(op, key).op = op /\ Begun(op, key).key = key
         /\ Begun(op, key).targets = {} /\ Begun(op, key).found = {}
<1>1. Owed(op, key) \in SUBSET Records
  BY DEF Owed, Scope
<1> QED
  BY <1>1 DEF Begun, IdleClient, ClientState, Walks

LEMMA WalkBegins ==
  ASSUME RInv, NEW c \in Clients, client[c].op = "idle", NEW op \in Walks,
         NEW key \in Namespaces \cup Actors, NEW st \in ClientState, ClientTo(c, st),
         UNCHANGED <<redis, born, known, history>>, op = "list" => key \in Namespaces,
         st.op = op, st.key = key, st.pc = "get", st.targets = {}, st.found = {},
         \A r \in st.todo : ~Unseen(r)
  PROVE  RInv'
<1>1. known' \in SUBSET Records
  BY DEF RInv, TypeOK
<1>2. \A r \in Records : Unseen(r) => r \notin st.todo \cup st.found \cup known'
  BY DEF Unseen
<1>3. st.op \notin {"put", "batch_delete"}
  BY DEF Walks
<1> QED
  BY <1>1, <1>2, <1>3, WalkStep

LEMMA ListStep ==
  ASSUME RInv, NEW c \in Clients, NEW ns \in Namespaces, list(c, ns)
  PROVE  RInv'
<1> DEFINE begun == Begun("list", ns)
           st    == Paged(begun, None)
<1>1. /\ begun \in ClientState /\ begun.op = "list" /\ begun.key = ns
      /\ begun.targets = {} /\ begun.found = {}
  BY BegunShape DEF RInv, Walks
<1>2. client[c].op = "idle" /\ ClientTo(c, st) /\ UNCHANGED <<redis, born, known, history>>
  BY DEF list
<1> HIDE DEF begun
<1>3. /\ st \in ClientState /\ st.pc = "get" /\ st.op = "list" /\ st.key = ns
      /\ st.targets = {} /\ st.found = {} /\ st.todo \subseteq ns_set[ns]
  BY <1>1, PagedShape DEF RInv
<1>4. \A r \in st.todo : ~Unseen(r)
  BY <1>3 DEF Unseen
<1> HIDE DEF st
<1> QED
  BY <1>2, <1>3, <1>4, WalkBegins DEF Walks

LEMMA ListByActorStep ==
  ASSUME RInv, NEW c \in Clients, NEW a \in Actors, list_by_actor(c, a)
  PROVE  RInv'
<1> DEFINE begun == Begun("list_by_actor", a)
           st    == [begun EXCEPT !.pc = "get", !.todo = actor_set[a]]
<1>1. /\ begun \in ClientState /\ begun.op = "list_by_actor" /\ begun.key = a
      /\ begun.targets = {} /\ begun.found = {}
  BY BegunShape DEF RInv, Walks
<1>2. /\ client[c].op = "idle" /\ ClientTo(c, st) /\ UNCHANGED <<redis, born, known, history>>
      /\ actor_set[a] \in SUBSET Records
  BY DEF list_by_actor, RInv, TypeOK
<1> HIDE DEF begun
<1>3. /\ st \in ClientState /\ st.pc = "get" /\ st.op = "list_by_actor" /\ st.key = a
      /\ st.targets = {} /\ st.found = {} /\ st.todo = actor_set[a]
  BY <1>1, <1>2 DEF ClientState
<1>4. \A r \in st.todo : ~Unseen(r)
  BY <1>3 DEF Unseen
<1> HIDE DEF st
<1> QED
  BY <1>2, <1>3, <1>4, WalkBegins DEF Walks

LEMMA RetrieveStep ==
  ASSUME RInv, NEW c \in Clients, NEW ns \in Namespaces, retrieve(c, ns)
  PROVE  RInv'
<1> DEFINE begun == Begun("retrieve", ns)
           st    == [begun EXCEPT !.pc = "get", !.todo = ns_set[ns]]
<1>1. /\ begun \in ClientState /\ begun.op = "retrieve" /\ begun.key = ns
      /\ begun.targets = {} /\ begun.found = {}
  BY BegunShape DEF RInv, Walks
<1>2. /\ client[c].op = "idle" /\ ClientTo(c, st) /\ UNCHANGED <<redis, born, known, history>>
      /\ ns_set[ns] \in SUBSET Records
  BY DEF retrieve, RInv, TypeOK
<1> HIDE DEF begun
<1>3. /\ st \in ClientState /\ st.pc = "get" /\ st.op = "retrieve" /\ st.key = ns
      /\ st.targets = {} /\ st.found = {} /\ st.todo = ns_set[ns]
  BY <1>1, <1>2 DEF ClientState
<1>4. \A r \in st.todo : ~Unseen(r)
  BY <1>3 DEF Unseen
<1> HIDE DEF st
<1> QED
  BY <1>2, <1>3, <1>4, WalkBegins DEF Walks

LEMMA GetStep ==
  ASSUME RInv, NEW c \in Clients, NEW r \in Records, get(c, r)
  PROVE  RInv'
<1> DEFINE me == client[c]
           found == IF r \in hashes THEN me.found \cup {r} ELSE me.found
           st == [me EXCEPT !.todo = me.todo \ {r}, !.found = found]
<1>1. /\ me \in ClientState /\ me.pc = "get" /\ r \in me.todo /\ ClientTo(c, st)
      /\ UNCHANGED <<redis, born, history>>
      /\ known' \in SUBSET (known \cup {r}) /\ known \in SUBSET Records
  BY DEF get, RInv, TypeOK
<1>2. me.op \in Walks /\ me.targets = {} /\ me.op \notin {"put", "batch_delete"}
      /\ (me.op = "list" => me.key \in Namespaces)
  BY <1>1 DEF RInv, ClientShape, Walks
<1>3. found \in SUBSET (me.found \cup {r})
  OBVIOUS
<1>4. ~Unseen(r)
  BY <1>1 DEF Unseen
<1>5. \A q \in Records : Unseen(q) => q \notin known \cup me.todo \cup me.found
  BY DEF Unseen
<1> HIDE DEF me, found
<1>6. /\ st \in ClientState /\ st.pc = "get" /\ st.op = me.op /\ st.key = me.key
      /\ st.targets = {} /\ st.found = found /\ st.todo = me.todo \ {r}
  BY <1>1, <1>2, <1>3 DEF ClientState
<1>7. \A q \in Records : Unseen(q) => q \notin st.todo \cup st.found \cup known'
  BY <1>1, <1>3, <1>4, <1>5, <1>6
<1>8. known' \in SUBSET Records
  BY <1>1
<1> HIDE DEF st
<1> QED
  BY <1>1, <1>2, <1>6, <1>7, <1>8, WalkStep DEF me

LEMMA NextPageStep ==
  ASSUME RInv, NEW c \in Clients, NextPage(c)
  PROVE  RInv'
<1> DEFINE me == client[c]
           st == Paged(me, me.cursor)
<1>1. /\ me \in ClientState /\ me.pc = "get" /\ me.op = "list" /\ ClientTo(c, st)
      /\ UNCHANGED <<redis, born, history>>
      /\ known' = known \cup me.found /\ known \in SUBSET Records
  BY DEF NextPage, RInv, TypeOK
<1>2. me.key \in Namespaces /\ me.targets = {}
  BY <1>1 DEF RInv, ClientShape
<1>3. \A q \in Records : Unseen(q) => q \notin known \cup me.found \cup ns_set[me.key]
  BY <1>2 DEF Unseen
<1> HIDE DEF me
<1>4. /\ st \in ClientState /\ st.pc = "get" /\ st.op = "list" /\ st.key = me.key
      /\ st.targets = {} /\ st.found = me.found /\ st.todo \subseteq ns_set[me.key]
  BY <1>1, <1>2, PagedShape DEF RInv
<1>5. known' \in SUBSET Records
  BY <1>1 DEF ClientState
<1>6. \A q \in Records : Unseen(q) => q \notin st.todo \cup st.found \cup known'
  BY <1>1, <1>3, <1>4
<1> HIDE DEF st
<1> QED
  BY <1>1, <1>2, <1>4, <1>5, <1>6, WalkStep DEF me, Walks

LEMMA EndWalkStep ==
  ASSUME RInv, NEW c \in Clients, EndWalk(c)
  PROVE  RInv'
<1> DEFINE me == client[c]
           answer == IF me.op = "retrieve" THEN Top(me.found) ELSE me.found
           st == [IdleClient EXCEPT !.op = "answer", !.pc = "return", !.found = answer]
<1>1. /\ me \in ClientState /\ me.pc = "get" /\ ClientTo(c, st)
      /\ UNCHANGED <<redis, born, history>>
      /\ known' = known \cup answer /\ known \in SUBSET Records
  BY DEF EndWalk, RInv, TypeOK
<1>2. me.op \notin {"put", "batch_delete"}
  BY <1>1 DEF RInv, ClientShape, Walks
<1>3. answer \in SUBSET me.found
  BY DEF Top
<1>4. \A q \in Records : Unseen(q) => q \notin known \cup me.found
  BY DEF Unseen
<1> HIDE DEF me, answer
<1>5. me.found \in SUBSET Records
  BY <1>1 DEF ClientState
<1>6. /\ st \in ClientState /\ st.pc = "return" /\ st.op = "answer"
      /\ st.targets = {} /\ st.found = answer /\ st.todo = {}
  BY <1>3, <1>5 DEF IdleClient, ClientState
<1>7. \A q \in Records : Unseen(q) => q \notin st.todo \cup st.found \cup known'
  BY <1>1, <1>3, <1>4, <1>6
<1>8. known' \in SUBSET Records
  BY <1>1, <1>3, <1>5
<1> HIDE DEF st
<1> QED
  BY <1>1, <1>2, <1>6, <1>7, <1>8, WalkStep DEF me

LEMMA ReturnWalkStep ==
  ASSUME RInv, NEW c \in Clients, ReturnWalk(c)
  PROVE  RInv'
<1>1. /\ client[c].op = "answer" /\ ClientTo(c, IdleClient)
      /\ UNCHANGED <<redis, born, known, history>>
  BY DEF ReturnWalk
<1>2. known' \in SUBSET Records
  BY <1>1 DEF RInv, TypeOK
<1>3. \A q \in Records : Unseen(q) => q \notin IdleClient.todo \cup IdleClient.found \cup known'
  BY <1>1, IdleTyped DEF Unseen
<1> QED
  BY <1>1, <1>2, <1>3, IdleTyped, WalkStep

-----------------------------------------------------------------------------
(* put().                                                                  *)

LEMMA HsetStep ==
  ASSUME RInv, NEW c \in Clients, NEW r \in Records, hset(c, r)
  PROVE  RInv'
<1> DEFINE st == [IdleClient EXCEPT !.op = "put", !.pc = "sadd_ns", !.targets = {r}, !.rid = r]
<1>1. /\ client[c].op = "idle" /\ r \notin born /\ ClientTo(c, st)
      /\ born' = born \cup {r} /\ hashes' = hashes \cup {r}
      /\ UNCHANGED <<ns_set, actor_set, known, returned, broken>>
  BY DEF hset, history
<1>2. /\ st \in ClientState /\ st.op = "put" /\ st.pc = "sadd_ns" /\ st.targets = {r}
      /\ st.rid = r /\ st.todo = {} /\ st.found = {}
  BY DEF IdleClient, ClientState
<1> HIDE DEF st
<1>3. /\ client' \in [Clients -> ClientState] /\ client'[c] = st
      /\ \A d \in Clients \ {c} : client'[d] = client[d]
  BY <1>1, <1>2, OtherClients DEF RInv
<1>4. client[c].pc \notin {"sadd_ns", "sadd_actor", "del", "srem"}
  BY <1>1 DEF RInv, ClientShape
<1>5. \A q \in Records : Unseen(q) => Unseen(q)'
  BY <1>1, <1>2, <1>3 DEF Unseen
<1>6. Unseen(r) /\ r \notin hashes /\ \A d \in Clients : r \notin client[d].targets
  BY <1>1 DEF RInv, Unborn
<1>7. TypeOK'
  BY <1>1, <1>3 DEF RInv, TypeOK
<1>8. ClientShape'
  <2>1. ASSUME NEW d \in Clients \ {c}  PROVE client'[d] = client[d]
    BY <1>3
  <2> QED
    BY <1>2, <1>3, <2>1 DEF RInv, ClientShape
<1>9. Unborn'
  BY <1>1, <1>2, <1>3, <1>5 DEF RInv, Unborn
<1>10. FreshPut'
  <2>1. ASSUME NEW d \in Clients \ {c}, client[d].pc = "sadd_ns"
        PROVE  /\ client[d].rid \in Records /\ client[d].rid \in hashes /\ Unseen(client[d].rid)
               /\ client[d].rid # r
               /\ \A e \in Clients \ {d} : client[d].rid \notin client[e].targets
    BY <2>1, <1>6 DEF RInv, ClientShape, FreshPut
  <2> QED
    BY <1>1, <1>2, <1>3, <1>5, <1>6, <2>1 DEF FreshPut
<1>11. DeleteDone'
  <2>1. ASSUME NEW d \in Clients \ {c}
        PROVE  /\ r \notin client[d].targets
               /\ client[d].pc = "srem" => client[d].rid # r
    BY <1>6 DEF RInv, ClientShape
  <2> QED
    BY <1>1, <1>2, <1>3, <2>1 DEF RInv, DeleteDone
<1>12. Located'
  <2>1. ASSUME NEW q \in Records, NEW places \in SUBSET {"sadd_ns", "sadd_actor", "srem"},
               AtPlace(q, places)
        PROVE  AtPlace(q, places)'
    BY <1>3, <1>4, <2>1 DEF AtPlace
  <2>2. AtPlace(r, {"sadd_ns"})' /\ AtPlace(r, {"sadd_ns", "sadd_actor"})'
    BY <1>2, <1>3 DEF AtPlace
  <2> QED
    BY <1>1, <2>1, <2>2 DEF RInv, Located
<1> QED
  BY <1>7, <1>8, <1>9, <1>10, <1>11, <1>12 DEF RInv

LEMMA SaddNsStep ==
  ASSUME RInv, NEW c \in Clients, sadd_ns(c)
  PROVE  RInv'
<1> DEFINE me == client[c]
           r  == me.rid
           st == [me EXCEPT !.pc = IF actor_of[r] = NoActor THEN "return" ELSE "sadd_actor"]
<1>1. /\ me \in ClientState /\ me.pc = "sadd_ns" /\ ClientTo(c, st)
      /\ ns_set' = [ns_set EXCEPT ![ns_of[r]] = ns_set[ns_of[r]] \cup {r}]
      /\ UNCHANGED <<hashes, actor_set, born, known, returned, broken>>
  BY DEF sadd_ns, RInv, TypeOK, history
<1>2. /\ me.op = "put" /\ r \in Records /\ me.targets = {r} /\ r \in hashes /\ Unseen(r)
      /\ \A d \in Clients \ {c} : r \notin client[d].targets
  BY <1>1 DEF RInv, ClientShape, FreshPut
<1>3. \A d \in Clients \ {c} : client[d].pc \in {"sadd_ns", "srem"} => client[d].rid # r
  BY <1>2 DEF RInv, ClientShape
<1> HIDE DEF r
<1>4. /\ st \in ClientState /\ st.op = "put" /\ st.targets = {r} /\ st.rid = me.rid
      /\ st.todo = me.todo /\ st.found = me.found
      /\ st.pc = (IF actor_of[r] = NoActor THEN "return" ELSE "sadd_actor")
  BY <1>1, <1>2 DEF ClientState
<1>5. st.rid = r
  BY <1>4 DEF r
<1> HIDE DEF st
<1>6. /\ client' \in [Clients -> ClientState] /\ client'[c] = st
      /\ \A d \in Clients \ {c} : client'[d] = client[d]
  BY <1>1, <1>4, OtherClients DEF RInv
<1>7. /\ ns_of[r] \in Namespaces
      /\ ns_set' \in [Namespaces -> SUBSET Records]
      /\ ns_set'[ns_of[r]] = ns_set[ns_of[r]] \cup {r}
      /\ \A ns \in Namespaces : ns_set'[ns] \in SUBSET (ns_set[ns] \cup {r})
      /\ \A ns \in Namespaces : ns_set[ns] \subseteq ns_set'[ns]
  BY <1>1, <1>2, SetsTyped DEF RInv, TypeOK
<1>8. \A q \in Records \ {r} : Unseen(q) => Unseen(q)'
  <2>1. \A d \in Clients : client'[d].todo = client[d].todo /\ client'[d].found = client[d].found
    BY <1>4, <1>6
  <2> QED
    BY <1>1, <1>7, <2>1 DEF Unseen
<1>9. TypeOK'
  BY <1>1, <1>6, <1>7 DEF RInv, TypeOK
<1>10. ClientShape'
  <2>1. ASSUME NEW d \in Clients \ {c}  PROVE client'[d] = client[d]
    BY <1>6
  <2> QED
    BY <1>2, <1>4, <1>5, <1>6, <2>1 DEF RInv, ClientShape
<1>11. Unborn'
  <2>1. r \in born
    BY <1>2 DEF RInv, Unborn
  <2>2. \A d \in Clients : client'[d].targets = client[d].targets
    BY <1>2, <1>4, <1>6
  <2> QED
    BY <1>1, <1>8, <2>1, <2>2 DEF RInv, Unborn
<1>12. FreshPut'
  <2>1. ASSUME NEW d \in Clients, client'[d].pc = "sadd_ns"
        PROVE  /\ d # c /\ client'[d] = client[d] /\ client[d].pc = "sadd_ns"
               /\ client[d].rid \in Records \ {r}
               /\ client[d].rid \in hashes /\ Unseen(client[d].rid)
    <3>1. d # c
      BY <2>1, <1>4, <1>6
    <3>2. client'[d] = client[d]
      BY <3>1, <1>6
    <3> QED
      BY <2>1, <3>1, <3>2, <1>3 DEF RInv, ClientShape, FreshPut
  <2>2. \A d \in Clients : client'[d].targets = client[d].targets
    BY <1>2, <1>4, <1>6
  <2> QED
    BY <1>1, <1>8, <2>1, <2>2 DEF RInv, FreshPut
<1>13. DeleteDone'
  <2>1. ASSUME NEW d \in Clients, client'[d].op = "batch_delete"
        PROVE  d # c /\ client'[d] = client[d] /\ client[d].targets \in SUBSET Records
                     /\ r \notin client[d].targets
    BY <2>1, <1>2, <1>4, <1>6 DEF ClientState
  <2>2. ASSUME NEW d \in Clients, client'[d].pc = "srem"
        PROVE  d # c /\ client'[d] = client[d]
    BY <2>2, <1>4, <1>6
  <2>3. \A q \in Records \ {r} : q \notin ns_set[ns_of[q]] => q \notin ns_set'[ns_of[q]]
    BY <1>7, SetsTyped DEF RInv
  <2> QED
    BY <1>1, <2>1, <2>2, <2>3 DEF RInv, DeleteDone
<1>14. Located'
  <2>1. ASSUME NEW q \in Records \ {r}, NEW places \in SUBSET {"sadd_ns", "sadd_actor", "srem"},
               AtPlace(q, places)
        PROVE  AtPlace(q, places)'
    BY <1>6, <2>1 DEF AtPlace, r
  <2>2. ASSUME NEW q \in Records, q = r, actor_of[q] # NoActor
        PROVE  AtPlace(q, {"sadd_ns", "sadd_actor"})'
    BY <2>2, <1>4, <1>5, <1>6 DEF AtPlace
  <2>3. \A q \in Records : ns_of[q] \in Namespaces
    BY SetsTyped DEF RInv
  <2>4. \A q \in Records : q # r => (q \in ns_set'[ns_of[q]] <=> q \in ns_set[ns_of[q]])
    BY <1>7, <2>3
  <2> QED
    BY <1>1, <1>2, <1>7, <2>1, <2>2, <2>4 DEF RInv, Located
<1> QED
  BY <1>9, <1>10, <1>11, <1>12, <1>13, <1>14 DEF RInv

LEMMA SaddActorStep ==
  ASSUME RInv, NEW c \in Clients, sadd_actor(c)
  PROVE  RInv'
<1> DEFINE me == client[c]
           r  == me.rid
           st == [me EXCEPT !.pc = "return"]
<1>1. /\ me \in ClientState /\ me.pc = "sadd_actor" /\ ClientTo(c, st)
      /\ actor_set' = [actor_set EXCEPT ![actor_of[r]] = actor_set[actor_of[r]] \cup {r}]
      /\ UNCHANGED <<hashes, ns_set, born, known, returned, broken>>
  BY DEF sadd_actor, RInv, TypeOK, history
<1>2. /\ me.op = "put" /\ r \in Records /\ me.targets = {r} /\ actor_of[r] # NoActor
      /\ r \in born
  BY <1>1 DEF RInv, ClientShape, Unborn
<1>3. \A d \in Clients : client[d].pc = "sadd_ns" => d # c /\ client[d].rid # r
  BY <1>1, <1>2 DEF RInv, FreshPut
<1> HIDE DEF r
<1>4. /\ st \in ClientState /\ st.op = "put" /\ st.targets = {r} /\ st.rid = r
      /\ st.todo = me.todo /\ st.found = me.found /\ st.pc = "return"
  BY <1>1, <1>2 DEF ClientState, r
<1> HIDE DEF st
<1>5. /\ client' \in [Clients -> ClientState] /\ client'[c] = st
      /\ \A d \in Clients \ {c} : client'[d] = client[d]
  BY <1>1, <1>4, OtherClients DEF RInv
<1>6. /\ actor_of[r] \in Actors
      /\ actor_set' \in [Actors -> SUBSET Records]
      /\ actor_set'[actor_of[r]] = actor_set[actor_of[r]] \cup {r}
      /\ \A a \in Actors : actor_set'[a] \in SUBSET (actor_set[a] \cup {r})
      /\ \A a \in Actors : actor_set[a] \subseteq actor_set'[a]
  BY <1>1, <1>2, SetsTyped DEF RInv, TypeOK
<1>7. \A d \in Clients : /\ client'[d].todo = client[d].todo
                         /\ client'[d].found = client[d].found
                         /\ client'[d].targets = client[d].targets
                         /\ client'[d].rid = client[d].rid
  BY <1>2, <1>4, <1>5 DEF r
<1>8. \A q \in Records \ {r} : Unseen(q) => Unseen(q)'
  BY <1>1, <1>6, <1>7 DEF Unseen
<1>9. TypeOK'
  BY <1>1, <1>5, <1>6 DEF RInv, TypeOK
<1>10. ClientShape'
  <2>1. ASSUME NEW d \in Clients \ {c}  PROVE client'[d] = client[d]
    BY <1>5
  <2> QED
    BY <1>2, <1>4, <1>5, <2>1 DEF RInv, ClientShape
<1>11. Unborn'
  BY <1>1, <1>2, <1>7, <1>8 DEF RInv, Unborn
<1>12. FreshPut'
  <2>1. ASSUME NEW d \in Clients, client'[d].pc = "sadd_ns"
        PROVE  /\ client'[d] = client[d] /\ client[d].pc = "sadd_ns"
               /\ client[d].rid \in Records \ {r}
               /\ client[d].rid \in hashes /\ Unseen(client[d].rid)
    <3>1. d # c
      BY <2>1, <1>4, <1>5
    <3>2. client'[d] = client[d]
      BY <3>1, <1>5
    <3> QED
      BY <2>1, <3>2, <1>3 DEF RInv, ClientShape, FreshPut
  <2> QED
    BY <1>1, <1>7, <1>8, <2>1 DEF RInv, FreshPut
<1>13. DeleteDone'
  <2>1. ASSUME NEW d \in Clients, client'[d].op = "batch_delete" \/ client'[d].pc = "srem"
        PROVE  client'[d] = client[d]
    BY <2>1, <1>4, <1>5
  <2> QED
    BY <1>1, <2>1 DEF RInv, DeleteDone
<1>14. Located'
  <2>1. ASSUME NEW q \in Records, NEW places \in SUBSET {"sadd_ns", "sadd_actor", "srem"},
               AtPlace(q, places), q # r \/ "sadd_actor" \notin places
        PROVE  AtPlace(q, places)'
    <3>1. PICK d \in Clients : client[d].pc \in places /\ client[d].rid = q
      BY <2>1 DEF AtPlace
    <3>2. d # c
      BY <1>1, <2>1, <3>1 DEF r
    <3> QED
      BY <1>5, <3>1, <3>2 DEF AtPlace
  <2>2. \A q \in Records : actor_of[q] # NoActor => actor_of[q] \in Actors
    BY SetsTyped DEF RInv
  <2>3. \A q \in Records : q # r /\ actor_of[q] # NoActor
          => (q \in actor_set'[actor_of[q]] <=> q \in actor_set[actor_of[q]])
    BY <1>6, <2>2
  <2> QED
    BY <1>1, <1>2, <1>6, <2>1, <2>3 DEF RInv, Located
<1> QED
  BY <1>9, <1>10, <1>11, <1>12, <1>13, <1>14 DEF RInv

\* A call ends: what it was at work on is settled, or known to be broken.
LEMMA CallEnds ==
  ASSUME RInv, NEW c \in Clients, client[c].op # "idle", ClientTo(c, IdleClient),
         UNCHANGED <<redis, born>>, known' \in SUBSET (known \cup client[c].targets),
         \A d \in Clients : client[d].pc = "sadd_ns" => client[d].rid \notin known',
         returned' \in SUBSET Records, broken' \in SUBSET Records,
         \A r \in broken \ broken' : r \notin hashes /\ r \notin ns_set[ns_of[r]],
         client[c].pc \in {"sadd_ns", "sadd_actor", "srem"} => client[c].rid \in broken'
  PROVE  RInv'
<1>1. /\ client' \in [Clients -> ClientState] /\ client'[c] = IdleClient
      /\ \A d \in Clients \ {c} : client'[d] = client[d]
  BY OtherClients, IdleTyped DEF RInv
<1>2. UNCHANGED <<hashes, ns_set, actor_set, born>>
  BY DEF redis
<1>3. /\ client[c] \in ClientState /\ client[c].targets \in SUBSET Records
      /\ client[c].targets \in SUBSET born
  BY DEF RInv, TypeOK, ClientState, Unborn
<1>4. \A q \in Records : Unseen(q) /\ q \notin known' => Unseen(q)'
  BY <1>1, <1>2, IdleTyped DEF Unseen
<1>5. TypeOK'
  BY <1>1, <1>2, <1>3 DEF RInv, TypeOK
<1>6. ClientShape'
  <2>1. ASSUME NEW d \in Clients \ {c}  PROVE client'[d] = client[d]
    BY <1>1
  <2> QED
    BY <1>1, <2>1, IdleTyped DEF RInv, ClientShape
<1>7. Unborn'
  <2>1. \A q \in Records \ born : q \notin known'
    BY <1>3 DEF RInv, Unborn, Unseen
  <2> QED
    BY <1>1, <1>2, <1>4, <2>1, IdleTyped DEF RInv, Unborn
<1>8. FreshPut'
  <2>1. ASSUME NEW d \in Clients, client'[d].pc = "sadd_ns"
        PROVE  /\ d # c /\ client'[d] = client[d] /\ client[d].pc = "sadd_ns"
               /\ client[d].rid \in Records
    BY <1>1, <2>1, IdleTyped DEF RInv, ClientShape
  <2> QED
    BY <1>1, <1>2, <1>4, <2>1, IdleTyped DEF RInv, FreshPut
<1>9. DeleteDone'
  BY <1>1, <1>2, IdleTyped DEF RInv, DeleteDone
<1>10. Located'
  <2>1. ASSUME NEW q \in Records, NEW places \in SUBSET {"sadd_ns", "sadd_actor", "srem"},
               AtPlace(q, places)
        PROVE  AtPlace(q, places)' \/ q \in broken'
    BY <1>1, <2>1 DEF AtPlace
  <2> QED
    BY <1>2, <2>1 DEF RInv, Located
<1> QED
  BY <1>5, <1>6, <1>7, <1>8, <1>9, <1>10 DEF RInv

LEMMA ReturnPutStep ==
  ASSUME RInv, NEW c \in Clients, ReturnPut(c)
  PROVE  RInv'
<1>1. /\ client[c].op = "put" /\ client[c].pc = "return" /\ ClientTo(c, IdleClient)
      /\ known' = known \cup {client[c].rid} /\ returned' = returned \cup {client[c].rid}
      /\ UNCHANGED <<redis, born, broken>>
  BY DEF ReturnPut
<1>2. client[c].rid \in Records /\ client[c].targets = {client[c].rid}
  BY <1>1 DEF RInv, ClientShape
<1>3. \A d \in Clients : client[d].pc = "sadd_ns" => client[d].rid \notin known'
  BY <1>1, <1>2 DEF RInv, FreshPut, Unseen
<1>4. returned' \in SUBSET Records /\ broken' \in SUBSET Records
  BY <1>1, <1>2 DEF RInv, TypeOK
<1> QED
  BY <1>1, <1>2, <1>3, <1>4, CallEnds

LEMMA RaiseStep ==
  ASSUME RInv, NEW c \in Clients, Raise(c)
  PROVE  RInv'
<1>1. /\ client[c].op # "idle" /\ ClientTo(c, IdleClient)
      /\ broken' = broken \cup client[c].targets
      /\ UNCHANGED <<redis, born, known, returned>>
  BY DEF Raise
<1>2. client[c].targets \in SUBSET Records
  BY DEF RInv, TypeOK, ClientState
<1>3. returned' \in SUBSET Records /\ broken' \in SUBSET Records
  BY <1>1, <1>2 DEF RInv, TypeOK
<1>4. client[c].pc \in {"sadd_ns", "sadd_actor", "srem"} => client[c].rid \in broken'
  BY <1>1 DEF RInv, ClientShape
<1>5. \A d \in Clients : client[d].pc = "sadd_ns" => client[d].rid \notin known'
  BY <1>1 DEF RInv, FreshPut, Unseen
<1> QED
  BY <1>1, <1>3, <1>4, <1>5, CallEnds

LEMMA ReturnDeleteStep ==
  ASSUME RInv, NEW c \in Clients, ReturnDelete(c)
  PROVE  RInv'
<1>1. /\ client[c].pc = "del" /\ client[c].todo = {} /\ ClientTo(c, IdleClient)
      /\ broken' = broken \ client[c].targets
      /\ UNCHANGED <<redis, born, known, returned>>
  BY DEF ReturnDelete
<1>2. client[c].op = "batch_delete"
  BY <1>1 DEF RInv, ClientShape
<1>3. \A r \in broken \ broken' : r \notin hashes /\ r \notin ns_set[ns_of[r]]
  BY <1>1, <1>2 DEF RInv, DeleteDone
<1>4. returned' \in SUBSET Records /\ broken' \in SUBSET Records
  BY <1>1 DEF RInv, TypeOK
<1>5. \A d \in Clients : client[d].pc = "sadd_ns" => client[d].rid \notin known'
  BY <1>1 DEF RInv, FreshPut, Unseen
<1> QED
  BY <1>1, <1>2, <1>3, <1>4, <1>5, CallEnds

-----------------------------------------------------------------------------
(* batch_delete().                                                         *)

LEMMA BatchDeleteStep ==
  ASSUME RInv, NEW c \in Clients, NEW rids \in SUBSET known, batch_delete(c, rids)
  PROVE  RInv'
<1> DEFINE st == [IdleClient EXCEPT !.op = "batch_delete", !.pc = "del",
                                    !.targets = rids, !.todo = rids]
<1>1. /\ client[c].op = "idle" /\ ClientTo(c, st) /\ rids \in SUBSET Records
      /\ UNCHANGED <<hashes, ns_set, actor_set, born, known, returned, broken>>
  BY DEF batch_delete, RInv, TypeOK, redis, history
<1>2. /\ st \in ClientState /\ st.op = "batch_delete" /\ st.pc = "del" /\ st.targets = rids
      /\ st.todo = rids /\ st.found = {}
  BY <1>1 DEF IdleClient, ClientState
<1> HIDE DEF st
<1>3. /\ client' \in [Clients -> ClientState] /\ client'[c] = st
      /\ \A d \in Clients \ {c} : client'[d] = client[d]
  BY <1>1, <1>2, OtherClients DEF RInv
<1>4. client[c].pc \notin {"sadd_ns", "sadd_actor", "del", "srem"}
  BY <1>1 DEF RInv, ClientShape
<1>5. \A q \in Records : Unseen(q) => Unseen(q)' /\ q \notin rids
  BY <1>1, <1>2, <1>3 DEF Unseen
<1>6. TypeOK'
  BY <1>1, <1>3 DEF RInv, TypeOK
<1>7. ClientShape'
  <2>1. ASSUME NEW d \in Clients \ {c}  PROVE client'[d] = client[d]
    BY <1>3
  <2> QED
    BY <1>2, <1>3, <2>1 DEF RInv, ClientShape
<1>8. Unborn'
  BY <1>1, <1>2, <1>3, <1>5 DEF RInv, Unborn
<1>9. FreshPut'
  <2>1. ASSUME NEW d \in Clients, client'[d].pc = "sadd_ns"
        PROVE  /\ d # c /\ client'[d] = client[d] /\ client[d].pc = "sadd_ns"
               /\ client[d].rid \in Records
    BY <1>2, <1>3, <2>1 DEF RInv, ClientShape
  <2> QED
    BY <1>1, <1>2, <1>3, <1>5, <2>1 DEF RInv, FreshPut
<1>10. DeleteDone'
  BY <1>1, <1>2, <1>3 DEF RInv, DeleteDone
<1>11. Located'
  <2>1. ASSUME NEW q \in Records, NEW places \in SUBSET {"sadd_ns", "sadd_actor", "srem"},
               AtPlace(q, places)
        PROVE  AtPlace(q, places)'
    BY <1>3, <1>4, <2>1 DEF AtPlace
  <2> QED
    BY <1>1, <2>1 DEF RInv, Located
<1> QED
  BY <1>6, <1>7, <1>8, <1>9, <1>10, <1>11 DEF RInv

LEMMA DeletedShape ==
  ASSUME TypeOK, NEW c \in Clients, NEW r \in Records, NEW existed \in BOOLEAN,
         Deleted(c, r, existed)
  PROVE  /\ client' \in [Clients -> ClientState]
         /\ \A d \in Clients : /\ client'[d].op = client[d].op /\ client'[d].key = client[d].key
                               /\ client'[d].todo = client[d].todo
                               /\ client'[d].found = client[d].found
                               /\ client'[d].targets = client[d].targets
         /\ \A d \in Clients \ {c} :
              client'[d].pc = client[d].pc /\ client'[d].rid = client[d].rid
         /\ client'[c].pc = "srem" /\ client'[c].rid = r
<1> DEFINE count == client[c].count + (IF existed THEN 1 ELSE 0)
           mine  == [client[c] EXCEPT !.pc = "srem", !.rid = r, !.count = count]
           other(d) == [client[d] EXCEPT !.must = client[d].must \ {r}]
<1>1. client \in [Clients -> ClientState]
  BY DEF TypeOK
<1>2. count \in Nat
  BY <1>1 DEF ClientState
<1>3. client' = [d \in Clients |-> IF d = c THEN mine ELSE other(d)]
  BY DEF Deleted
<1> HIDE DEF count
<1>4. /\ mine \in ClientState /\ mine.pc = "srem" /\ mine.rid = r
      /\ mine.op = client[c].op /\ mine.key = client[c].key /\ mine.todo = client[c].todo
      /\ mine.found = client[c].found /\ mine.targets = client[c].targets
  <2>1. client[c] \in ClientState
    BY <1>1
  <2>2. mine \in ClientState
    BY <1>2, <2>1 DEF ClientState
  <2> QED
    BY <2>1, <2>2 DEF ClientState
<1>5. ASSUME NEW d \in Clients
      PROVE  /\ other(d) \in ClientState /\ other(d).pc = client[d].pc
             /\ other(d).rid = client[d].rid
             /\ other(d).op = client[d].op /\ other(d).key = client[d].key
             /\ other(d).todo = client[d].todo /\ other(d).found = client[d].found
             /\ other(d).targets = client[d].targets
  BY <1>1 DEF ClientState
<1> HIDE DEF mine, other
<1> QED
  BY <1>3, <1>4, <1>5

LEMMA DelStep ==
  ASSUME RInv, NEW c \in Clients, NEW r \in Records, del(c, r)
  PROVE  RInv'
<1>1. /\ client[c].pc = "del" /\ r \in client[c].todo /\ hashes' = hashes \ {r}
      /\ UNCHANGED <<ns_set, actor_set, born, known, returned, broken>>
  BY DEF del, history
<1>2. /\ client' \in [Clients -> ClientState]
      /\ \A d \in Clients : /\ client'[d].op = client[d].op /\ client'[d].key = client[d].key
                            /\ client'[d].todo = client[d].todo
                            /\ client'[d].found = client[d].found
                            /\ client'[d].targets = client[d].targets
      /\ \A d \in Clients \ {c} :
           client'[d].pc = client[d].pc /\ client'[d].rid = client[d].rid
      /\ client'[c].pc = "srem" /\ client'[c].rid = r
  <2>1. PICK existed \in BOOLEAN : Deleted(c, r, existed)
    <3>1. CASE r \in hashes
      BY <3>1 DEF del, Deleted
    <3>2. CASE r \notin hashes
      BY <3>2 DEF del, Deleted
    <3> QED
      BY <3>1, <3>2
  <2> QED
    BY <2>1, DeletedShape DEF RInv
<1>3. client[c].op = "batch_delete" /\ r \in client[c].targets
  BY <1>1 DEF RInv, ClientShape
<1>4. \A q \in Records : Unseen(q) => Unseen(q)' /\ q # r
  BY <1>1, <1>2 DEF Unseen
<1>5. TypeOK'
  BY <1>1, <1>2 DEF RInv, TypeOK
<1>6. ClientShape'
  <2>1. ASSUME NEW d \in Clients \ {c}
        PROVE  /\ client'[d].op = client[d].op /\ client'[d].key = client[d].key
               /\ client'[d].todo = client[d].todo /\ client'[d].targets = client[d].targets
               /\ client'[d].pc = client[d].pc /\ client'[d].rid = client[d].rid
    BY <1>2
  <2>2. /\ client'[c].op = "batch_delete" /\ client'[c].todo \subseteq client'[c].targets
        /\ r \in client'[c].todo
    BY <1>1, <1>2, <1>3 DEF RInv, ClientShape
  <2> QED
    BY <1>2, <2>1, <2>2 DEF RInv, ClientShape
<1>7. Unborn'
  BY <1>1, <1>2, <1>4 DEF RInv, Unborn
<1>8. FreshPut'
  <2>1. ASSUME NEW d \in Clients, client'[d].pc = "sadd_ns"
        PROVE  /\ client'[d].rid = client[d].rid /\ client[d].pc = "sadd_ns"
               /\ client[d].rid \in Records /\ client[d].rid \in hashes \ {r}
               /\ Unseen(client[d].rid)'
    BY <1>2, <1>4, <2>1 DEF RInv, ClientShape, FreshPut
  <2> QED
    BY <1>1, <1>2, <2>1 DEF RInv, FreshPut
<1>9. DeleteDone'
  BY <1>1, <1>2 DEF RInv, DeleteDone
<1>10. Located'
  <2>1. ASSUME NEW q \in Records, NEW places \in SUBSET {"sadd_ns", "sadd_actor", "srem"},
               AtPlace(q, places)
        PROVE  AtPlace(q, places)'
    BY <1>1, <1>2, <2>1 DEF AtPlace
  <2>2. ASSUME NEW q \in Records, q = r  PROVE AtPlace(q, {"srem"})'
    BY <1>2, <2>2 DEF AtPlace
  <2> QED
    BY <1>1, <2>1, <2>2 DEF RInv, Located
<1> QED
  BY <1>5, <1>6, <1>7, <1>8, <1>9, <1>10 DEF RInv

LEMMA SremStep ==
  ASSUME RInv, NEW c \in Clients, srem(c)
  PROVE  RInv'
<1> DEFINE me == client[c]
           r  == me.rid
           st == [me EXCEPT !.pc = "del", !.todo = me.todo \ {r}]
<1>1. /\ me \in ClientState /\ me.pc = "srem" /\ ClientTo(c, st)
      /\ ns_set' = [ns_set EXCEPT ![ns_of[r]] = ns_set[ns_of[r]] \ {r}]
      /\ UNCHANGED <<hashes, actor_set, born, known, returned, broken>>
  BY DEF srem, RInv, TypeOK, history
<1>2. /\ me.op = "batch_delete" /\ r \in me.todo /\ me.todo \subseteq me.targets
      /\ r \in Records /\ r \notin hashes
  BY <1>1 DEF RInv, ClientShape, DeleteDone, ClientState
<1> HIDE DEF r
<1>3. /\ st \in ClientState /\ st.op = "batch_delete" /\ st.pc = "del"
      /\ st.targets = me.targets /\ st.todo = me.todo \ {r} /\ st.found = me.found
  BY <1>1, <1>2 DEF ClientState
<1> HIDE DEF st
<1>4. /\ client' \in [Clients -> ClientState] /\ client'[c] = st
      /\ \A d \in Clients \ {c} : client'[d] = client[d]
  BY <1>1, <1>3, OtherClients DEF RInv
<1>5. /\ ns_of[r] \in Namespaces
      /\ ns_set' \in [Namespaces -> SUBSET Records]
      /\ r \notin ns_set'[ns_of[r]]
      /\ \A ns \in Namespaces : ns_set'[ns] \in SUBSET ns_set[ns]
      /\ \A ns \in Namespaces : ns_set[ns] \in SUBSET (ns_set'[ns] \cup {r})
  BY <1>1, <1>2, SetsTyped DEF RInv, TypeOK
<1>6. \A q \in Records : ns_of[q] \in Namespaces
  BY SetsTyped DEF RInv
<1>7. \A d \in Clients : client'[d].targets = client[d].targets
  BY <1>3, <1>4
<1>8. \A q \in Records : Unseen(q) => Unseen(q)'
  <2>1. \A d \in Clients : /\ client'[d].todo \in SUBSET client[d].todo
                           /\ client'[d].found = client[d].found
    BY <1>3, <1>4
  <2> QED
    BY <1>1, <1>5, <2>1 DEF Unseen
<1>9. TypeOK'
  BY <1>1, <1>4, <1>5 DEF RInv, TypeOK
<1>10. ClientShape'
  <2>1. ASSUME NEW d \in Clients \ {c}  PROVE client'[d] = client[d]
    BY <1>4
  <2> QED
    BY <1>2, <1>3, <1>4, <2>1 DEF RInv, ClientShape
<1>11. Unborn'
  BY <1>1, <1>7, <1>8 DEF RInv, Unborn
<1>12. FreshPut'
  <2>1. ASSUME NEW d \in Clients, client'[d].pc = "sadd_ns"
        PROVE  /\ client'[d] = client[d] /\ client[d].pc = "sadd_ns" /\ client[d].rid \in Records
    <3>1. d # c
      BY <2>1, <1>3, <1>4
    <3>2. client'[d] = client[d]
      BY <3>1, <1>4
    <3> QED
      BY <2>1, <3>2 DEF RInv, ClientShape
  <2> QED
    BY <1>1, <1>7, <1>8, <2>1 DEF RInv, FreshPut
<1>13. DeleteDone'
  <2>1. \A q \in Records : q \notin ns_set[ns_of[q]] => q \notin ns_set'[ns_of[q]]
    BY <1>5, <1>6
  <2>2. \A q \in me.targets \ st.todo : q \notin hashes /\ q \notin ns_set'[ns_of[q]]
    <3>1. me.targets \in SUBSET Records
      BY <1>1 DEF ClientState
    <3>2. \A q \in me.targets \ me.todo : q \notin hashes /\ q \notin ns_set[ns_of[q]]
      BY <1>2 DEF RInv, DeleteDone
    <3> QED
      BY <1>2, <1>3, <1>5, <2>1, <3>1, <3>2
  <2>3. ASSUME NEW d \in Clients \ {c}
        PROVE  client'[d] = client[d] /\ client[d].targets \in SUBSET Records
    BY <1>4 DEF RInv, TypeOK, ClientState
  <2> QED
    BY <1>1, <1>3, <1>4, <2>1, <2>2, <2>3 DEF RInv, DeleteDone
<1>14. Located'
  <2>1. ASSUME NEW q \in Records, NEW places \in SUBSET {"sadd_ns", "sadd_actor", "srem"},
               AtPlace(q, places), q # r
        PROVE  AtPlace(q, places)'
    <3>1. PICK d \in Clients : client[d].pc \in places /\ client[d].rid = q
      BY <2>1 DEF AtPlace
    <3>2. d # c
      BY <2>1, <3>1 DEF r
    <3> QED
      BY <1>4, <3>1, <3>2 DEF AtPlace
  <2>2. \A q \in Records : q # r => (q \in ns_set'[ns_of[q]] <=> q \in ns_set[ns_of[q]])
    BY <1>5, <1>6
  <2>3. ASSUME NEW q \in Records, q = r  PROVE q \notin hashes' /\ q \notin ns_set'[ns_of[q]]
    BY <1>1, <1>2, <1>5, <2>3
  <2>4. ASSUME NEW q \in Records, q \in hashes, NEW places \in SUBSET {"sadd_ns", "sadd_actor"},
               AtPlace(q, places)
        PROVE  AtPlace(q, places)'
    BY <1>2, <2>1, <2>4
  <2> QED
    BY <1>1, <2>1, <2>2, <2>3, <2>4 DEF RInv, Located
<1> QED
  BY <1>9, <1>10, <1>11, <1>12, <1>13, <1>14 DEF RInv

-----------------------------------------------------------------------------
LEMMA RInvInit == Init => RInv
<1> SUFFICES ASSUME Init  PROVE RInv
  OBVIOUS
<1>1. \A c \in Clients : client[c] = IdleClient
  BY DEF Init
<1>2. TypeOK
  BY IdleTyped DEF Init, TypeOK
<1>3. ClientShape
  BY <1>1, IdleTyped DEF ClientShape
<1>4. Unborn
  BY <1>1, IdleTyped DEF Init, Unborn, Unseen
<1>5. FreshPut /\ DeleteDone
  BY <1>1, IdleTyped DEF FreshPut, DeleteDone
<1>6. Located
  BY SetsTyped, <1>2 DEF Init, Located
<1> QED
  BY <1>2, <1>3, <1>4, <1>5, <1>6 DEF RInv

LEMMA RInvStep == RInv /\ [Next]_vars => RInv'
<1> SUFFICES ASSUME RInv, [Next]_vars  PROVE RInv'
  OBVIOUS
<1>1. ASSUME NEW c \in Clients, Begin(c)  PROVE RInv'
  BY <1>1, HsetStep, BatchDeleteStep, ListStep, ListByActorStep, RetrieveStep DEF Begin
<1>2. ASSUME NEW c \in Clients, Step(c)  PROVE RInv'
  BY <1>2, SaddNsStep, SaddActorStep, ReturnPutStep, DelStep, SremStep, ReturnDeleteStep,
     GetStep, NextPageStep, EndWalkStep, ReturnWalkStep DEF Step
<1>3. ASSUME NEW c \in Clients, Raise(c)  PROVE RInv'
  BY <1>3, RaiseStep
<1>4. CASE UNCHANGED vars
  BY <1>4 DEF vars, redis, history, RInv, TypeOK, ClientShape, Unborn, Unseen, FreshPut,
              DeleteDone, Located, AtPlace
<1> QED
  BY <1>1, <1>2, <1>3, <1>4 DEF Next

LEMMA RInvAlways == Spec => []RInv
BY RInvInit, RInvStep, PTL DEF Spec

\* Every set of ids, every call and every cursor of a listing has its type.
THEOREM RedisTypeCorrect == Spec => []TypeOK
<1>1. RInv => TypeOK
  BY DEF RInv
<1> QED
  BY <1>1, RInvAlways, PTL

\* Whatever puts, deletions and walks run at once, and wherever one raises, a
\* record that no call is at work on and none left half done is in its hash and
\* in both its indexes, or in neither its hash nor its namespace (redis.py:37-44,
\* redis.py:71-77).
THEOREM IndexesAlwaysAgree == Spec => []IndexesAgree
<1>1. RInv => IndexesAgree
  <2> SUFFICES ASSUME RInv, NEW r \in Records, Untouched(r)
               PROVE  /\ r \in ns_set[ns_of[r]] <=> r \in hashes
                      /\ r \in hashes /\ actor_of[r] # NoActor => r \in actor_set[actor_of[r]]
    BY DEF IndexesAgree
  <2>1. ASSUME NEW places \in SUBSET {"sadd_ns", "sadd_actor", "srem"}, AtPlace(r, places)
        PROVE  FALSE
    BY <2>1 DEF AtPlace, Untouched, RInv, ClientShape
  <2> QED
    BY <2>1 DEF RInv, Located, Untouched
<1> QED
  BY <1>1, RInvAlways, PTL
=============================================================================
