----------------------- MODULE RedisBackendRefinement -----------------------
(***************************************************************************)
(* RedisBackend implements MemoryBackend, for any records, callers, page   *)
(* size and faults.  The argument for deletions: only the command that     *)
(* finds the hash is the deletion the protocol speaks of.  For walks: what *)
(* one owes is in its set all the while, and a page is an initial segment  *)
(* of what comes after its cursor, so a record that is owed is found, on   *)
(* the page, or behind the cursor.                                         *)
(***************************************************************************)
EXTENDS RedisBackendProofs

InIndexes(r) ==
  /\ r \in ns_set[ns_of[r]]
  /\ actor_of[r] # NoActor => r \in actor_set[actor_of[r]]

\* A record whose put has returned stays in its sets while it is there, and one
\* whose put goes on is in the sets that are behind it.
Indexed ==
  /\ returned \subseteq born
  /\ \A ns \in Namespaces : \A r \in ns_set[ns] : ns_of[r] = ns
  /\ \A a \in Actors : \A r \in actor_set[a] : actor_of[r] = a
  /\ \A r \in returned \cap hashes : InIndexes(r)
  /\ \A c \in Clients : client[c].op = "put" /\ client[c].rid \in hashes =>
       /\ client[c].pc = "sadd_actor" => client[c].rid \in ns_set[ns_of[client[c].rid]]
       /\ client[c].pc = "return" => InIndexes(client[c].rid)

\* What a listing has yet to come to.
Behind(me) ==
  IF me.op = "list" /\ me.cursor # None THEN {r \in Records : me.cursor < r} ELSE {}

\* A walk keeps to its scope, and what it owes is found, at hand, or behind.
WalkCall(me) ==
  /\ me.op \in {"list", "retrieve"} => me.key \in Namespaces
  /\ me.op = "list_by_actor" => me.key \in Actors
  /\ me.pc = "get" /\ me.todo \subseteq Scope(me.op, me.key)
  /\ me.must \subseteq Scope(me.op, me.key) \cap returned \cap hashes
  /\ me.must \subseteq me.found \cup me.todo \cup Behind(me)

WalksOwe ==
  \A c \in Clients :
    /\ client[c].op \in Walks => WalkCall(client[c])
    /\ client[c].op \notin Walks => client[c].must = {}

FInv == RInv /\ Indexed /\ WalksOwe

-----------------------------------------------------------------------------
(* Pages.                                                                  *)

LEMMA AfterTyped ==
  ASSUME NEW ids \in SUBSET Records, NEW cursor
  PROVE  /\ After(ids, cursor) \in SUBSET ids
         /\ Records \subseteq Nat
         /\ \A T \in SUBSET Records : IsFiniteSet(T) /\ Cardinality(T) \in Nat
BY RedisAssumption, FS_Subset, FS_CardinalityType DEF After

\* No record of a page comes after one that is not on it.
LEMMA ChunkInitial ==
  ASSUME NEW ids \in SUBSET Records, NEW cursor,
         NEW r \in After(ids, cursor), NEW q \in Chunk(ids, cursor), r <= q
  PROVE  r \in Chunk(ids, cursor)
<1> DEFINE A == After(ids, cursor)
           Below(x) == {p \in A : p < x}
<1>1. A \in SUBSET Records /\ Records \subseteq Nat /\ q \in A /\ PageSize \in Nat
  BY AfterTyped, RedisAssumption DEF Chunk
<1>2. Cardinality(Below(q)) < PageSize
  BY DEF Chunk
<1>3. Below(r) \in SUBSET Below(q)
  <2>1. r \in Nat /\ q \in Nat
    BY <1>1
  <2>2. \A p \in A : p < r => p < q
    BY <1>1, <2>1
  <2> QED
    BY <2>2
<1>4. Below(r) \in SUBSET Records /\ Below(q) \in SUBSET Records
  BY <1>1
<1>5. Cardinality(Below(r)) < PageSize
  <2> HIDE DEF Below
  <2>1. /\ IsFiniteSet(Below(q)) /\ Cardinality(Below(q)) \in Nat
        /\ Cardinality(Below(r)) \in Nat
    BY <1>4, AfterTyped
  <2>2. Cardinality(Below(r)) <= Cardinality(Below(q))
    BY <1>3, <2>1, FS_Subset
  <2> QED
    BY <1>1, <1>2, <2>1, <2>2
<1> QED
  BY <1>5 DEF Chunk

\* A page with room left has everything after the cursor.
LEMMA ShortPage ==
  ASSUME NEW ids \in SUBSET Records, NEW cursor, Cardinality(Chunk(ids, cursor)) < PageSize
  PROVE  After(ids, cursor) \subseteq Chunk(ids, cursor)
<1> DEFINE A == After(ids, cursor)
           C == Chunk(ids, cursor)
<1> SUFFICES ASSUME A \ C # {}  PROVE FALSE
  OBVIOUS
<1>1. A \in SUBSET Nat /\ A \in SUBSET Records /\ C \in SUBSET Records /\ PageSize \in Nat
  BY AfterTyped, ChunkShape, RedisAssumption
<1>2. PICK m \in A \ C : \A q \in A \ C : m <= q
  BY <1>1, LeastExists
<1>3. {p \in A : p < m} \in SUBSET C
  <2>1. ASSUME NEW p \in A, p < m, p \notin C  PROVE FALSE
    BY <1>1, <1>2, <2>1
  <2> QED
    BY <2>1
<1>4. Cardinality({p \in A : p < m}) < PageSize
  <2> DEFINE B == {p \in A : p < m}
  <2>1. B \in SUBSET Records
    BY <1>1
  <2> HIDE DEF B
  <2>2. IsFiniteSet(C) /\ Cardinality(C) \in Nat /\ Cardinality(B) \in Nat
    BY <1>1, <2>1, AfterTyped
  <2>3. Cardinality(B) <= Cardinality(C)
    BY <1>3, <2>2, FS_Subset DEF B
  <2>4. Cardinality(C) < PageSize
    OBVIOUS
  <2>5. Cardinality(B) < PageSize
    BY <1>1, <2>2, <2>3, <2>4
  <2> QED
    BY <2>5 DEF B
<1> QED
  BY <1>2, <1>4 DEF Chunk

\* What comes after the cursor is on the page or behind the next cursor.
LEMMA PageCovers ==
  ASSUME NEW ids \in SUBSET Records, NEW cursor,
         NEW r \in After(ids, cursor), r \notin Chunk(ids, cursor)
  PROVE  nxt(ids, Chunk(ids, cursor)) # None /\ nxt(ids, Chunk(ids, cursor)) < r
<1> DEFINE C == Chunk(ids, cursor)
<1>1. C \in SUBSET Records /\ r \in ids /\ r \in Records /\ Records \subseteq Nat
  BY AfterTyped, ChunkShape
<1>2. ~LastPage(ids, C)
  <2>1. ~(Cardinality(C) < PageSize)
    BY ShortPage
  <2>2. \A q \in C : ~(r <= q)
    BY ChunkInitial
  <2> QED
    BY <1>1, <2>1, <2>2 DEF LastPage
<1>3. \E n \in C : \A q \in C : q <= n
  <2>1. C # {} /\ IsFiniteSet(C)
    BY <1>1, <1>2, AfterTyped, FS_EmptySet, RedisAssumption DEF LastPage
  <2> HIDE DEF C
  <2> QED
    BY <1>1, <2>1, GreatestExists
<1>4. nxt(ids, C) \in C
  BY <1>2, <1>3 DEF nxt
<1>5. ~(r <= nxt(ids, C))
  BY <1>4, ChunkInitial
<1>6. ASSUME NEW n \in Records, ~(r <= n)  PROVE n # None /\ n < r
  BY <1>1, <1>6, RedisAssumption
<1> QED
  BY <1>1, <1>4, <1>5, <1>6

-----------------------------------------------------------------------------
(* What steps leave alone.                                                 *)

LEMMA OwesKept ==
  ASSUME TypeOK, WalksOwe, NEW c \in Clients, NEW st \in ClientState, ClientTo(c, st),
         returned \cap hashes \subseteq returned' \cap hashes',
         st.op \in Walks => WalkCall(st), st.op \notin Walks => st.must = {}
  PROVE  WalksOwe'
<1>1. /\ client'[c] = st
      /\ \A d \in Clients \ {c} : client'[d] = client[d]
  BY OtherClients
<1>2. ASSUME NEW me, WalkCall(me), NEW d \in Clients, client'[d] = me
      PROVE  WalkCall(client[d])'
  BY <1>2 DEF WalkCall, Scope, Behind
<1>3. ASSUME NEW d \in Clients
      PROVE  /\ client'[d].op \in Walks => WalkCall(client[d])'
             /\ client'[d].op \notin Walks => client'[d].must = {}
  <2>1. CASE d = c
    BY <1>1, <1>2, <2>1
  <2>2. CASE d # c
    BY <1>1, <1>2, <2>2 DEF WalksOwe
  <2> QED
    BY <2>1, <2>2
<1> QED
  BY <1>3 DEF WalksOwe

LEMMA IndexedKept ==
  ASSUME TypeOK, Indexed, NEW c \in Clients, NEW st \in ClientState, ClientTo(c, st),
         UNCHANGED <<redis, born>>, st.op # "put", returned' \subseteq born,
         \A r \in returned' \cap hashes : InIndexes(r)
  PROVE  Indexed'
<1>1. /\ client'[c] = st
      /\ \A d \in Clients \ {c} : client'[d] = client[d]
  BY OtherClients
<1>2. UNCHANGED <<hashes, ns_set, actor_set, born>>
  BY DEF redis
<1>3. \A r \in Records : InIndexes(r) => InIndexes(r)'
  BY <1>2 DEF InIndexes
<1>4. ASSUME NEW d \in Clients, client'[d].op = "put"
      PROVE  client'[d] = client[d]
  BY <1>1, <1>4
<1>5. \A r \in returned' \cap hashes' : InIndexes(r)'
  BY <1>2, <1>3 DEF InIndexes
<1>6. \A d \in Clients : client'[d].op = "put" /\ client'[d].rid \in hashes' =>
        /\ client'[d].pc = "sadd_actor" => client'[d].rid \in ns_set'[ns_of[client'[d].rid]]
        /\ client'[d].pc = "return" => InIndexes(client[d].rid)'
  BY <1>2, <1>4 DEF Indexed, InIndexes
<1> QED
  BY <1>2, <1>5, <1>6 DEF Indexed

LEMMA StageSame == ASSUME UNCHANGED <<born, hashes, returned>>  PROVE Stages' = Stages
BY DEF Stages, Stage

LEMMA CallsTo ==
  ASSUME TypeOK, NEW c \in Clients, NEW st \in ClientState, ClientTo(c, st)
  PROVE  Calls' = [Calls EXCEPT ![c] = Call(st)]
<1>1. /\ client'[c] = st
      /\ \A d \in Clients \ {c} : client'[d] = client[d]
  BY OtherClients
<1>2. \A d \in Clients : Call(client[d])' = Call(client'[d])
  BY DEF Call, Scope
<1> QED
  BY <1>1, <1>2 DEF Calls

LEMMA CallsSame ==
  ASSUME TypeOK, NEW c \in Clients, NEW st \in ClientState, ClientTo(c, st),
         Call(st) = Call(client[c])
  PROVE  Calls' = Calls
BY CallsTo DEF Calls

LEMMA CallFields ==
  ASSUME NEW c \in Clients
  PROVE  /\ Calls[c] = Call(client[c]) /\ Calls[c].op = client[c].op
         /\ Calls[c].must = client[c].must /\ Calls[c].found = client[c].found
         /\ Calls[c].targets = client[c].targets /\ Calls[c].count = client[c].count
         /\ client[c].op \in Walks => Calls[c].scope = Scope(client[c].op, client[c].key)
BY DEF Calls, Call

LEMMA StageFacts ==
  ASSUME FInv, NEW r \in Records
  PROVE  /\ Stages[r] = "absent" <=> r \notin born
         /\ Stages[r] = "stored" <=> r \in returned \cap hashes
         /\ Stages[r] \in {"open", "stored"} <=> r \in hashes
BY DEF FInv, RInv, Unborn, Indexed, Stages, Stage

-----------------------------------------------------------------------------
(* Walks.                                                                  *)

LEMMA PagedOwes ==
  ASSUME FInv, NEW st \in ClientState, st.op = "list", st.key \in Namespaces, NEW cursor,
         st.must \subseteq Scope(st.op, st.key) \cap returned \cap hashes,
         \A r \in st.must : r \in st.found \/ cursor \notin ns_set[st.key] \/ cursor < r
  PROVE  /\ Paged(st, cursor) \in ClientState
         /\ WalkCall(Paged(st, cursor)) /\ Call(Paged(st, cursor)) = Call(st)
<1> DEFINE ids  == ns_set[st.key]
           page == Paged(st, cursor)
<1>1. ids \in SUBSET Records /\ \A r \in ids : ns_of[r] = st.key
  BY DEF FInv, RInv, TypeOK, Indexed
<1>2. page = [st EXCEPT !.pc = "get", !.todo = Chunk(ids, cursor),
                        !.cursor = nxt(ids, Chunk(ids, cursor))]
  BY DEF Paged
<1>3. page \in ClientState
  BY PagedShape DEF FInv, RInv
<1>4. /\ page.op = "list" /\ page.key = st.key /\ page.must = st.must /\ page.found = st.found
      /\ page.targets = st.targets /\ page.count = st.count /\ page.pc = "get"
      /\ page.todo = Chunk(ids, cursor) /\ page.cursor = nxt(ids, Chunk(ids, cursor))
  BY <1>2 DEF ClientState
<1> HIDE DEF page
<1>5. page.todo \subseteq Scope(page.op, page.key)
  BY <1>1, <1>4, ChunkShape DEF Scope
<1>6. ASSUME NEW r \in st.must  PROVE r \in page.found \cup page.todo \cup Behind(page)
  <2>1. r \in Records /\ ns_of[r] = st.key /\ InIndexes(r)
    BY DEF Scope, FInv, Indexed
  <2>2. r \in ids
    BY <2>1 DEF InIndexes
  <2>3. CASE r \in st.found
    BY <1>4, <2>3
  <2>4. CASE r \notin st.found
    <3>1. r \in After(ids, cursor)
      BY <2>2, <2>4 DEF After
    <3>2. r \in Chunk(ids, cursor) \/ (page.cursor # None /\ page.cursor < r)
      BY <1>1, <1>4, <3>1, PageCovers
    <3> QED
      BY <1>4, <2>1, <3>2 DEF Behind
  <2> QED
    BY <2>3, <2>4
<1>7. Call(page) = Call(st)
  BY <1>4 DEF Call
<1>8. WalkCall(page)
  BY <1>4, <1>5, <1>6 DEF WalkCall
<1> QED
  BY <1>3, <1>7, <1>8 DEF page

LEMMA BegunFields ==
  ASSUME TypeOK, NEW op \in Walks, NEW key \in Namespaces \cup Actors
  PROVE  /\ Begun(op, key) \in ClientState
         /\ Begun(op, key).op = op /\ Begun(op, key).key = key
         /\ Begun(op, key).must = Owed(op, key)
         /\ Begun(op, key).found = {} /\ Begun(op, key).targets = {} /\ Begun(op, key).count = 0
         /\ Begun(op, key).cursor = None
<1>1. Begun(op, key) \in ClientState
  BY BegunShape
<1> QED
  BY <1>1 DEF Begun, IdleClient

\* Walks change neither records nor indexes.
LEMMA WalkKeeps ==
  ASSUME FInv, NEW c \in Clients, NEW st \in ClientState, ClientTo(c, st),
         UNCHANGED <<redis, born, history>>, st.op # "put",
         st.op \in Walks => WalkCall(st), st.op \notin Walks => st.must = {}
  PROVE  Indexed' /\ WalksOwe' /\ Stages' = Stages
<1>1. UNCHANGED <<hashes, born, returned>>
  BY DEF redis, history
<1>2. returned' \subseteq born /\ \A r \in returned' \cap hashes : InIndexes(r)
  BY <1>1 DEF FInv, Indexed
<1> QED
  BY <1>1, <1>2, OwesKept, IndexedKept, StageSame DEF FInv, RInv

LEMMA AbstractWalk ==
  ASSUME NEW op, NEW scope, NEW must
  PROVE  [Backend!IdleCall EXCEPT !.op = op, !.scope = scope, !.must = must]
           = [op |-> op, scope |-> scope, must |-> must, found |-> {}, targets |-> {}, count |-> 0]
<1> DEFINE a == [Backend!IdleCall EXCEPT !.op = op]
           b == [a EXCEPT !.scope = scope]
<1>1. a = [op |-> op, scope |-> {}, must |-> {}, found |-> {}, targets |-> {}, count |-> 0]
  BY DEF Backend!IdleCall
<1> HIDE DEF a
<1>2. b = [op |-> op, scope |-> scope, must |-> {}, found |-> {}, targets |-> {}, count |-> 0]
  BY <1>1
<1> HIDE DEF b
<1>3. [b EXCEPT !.must = must]
        = [op |-> op, scope |-> scope, must |-> must, found |-> {}, targets |-> {}, count |-> 0]
  BY <1>2
<1> QED
  BY <1>3 DEF a, b

LEMMA BeginWalkMaps ==
  ASSUME FInv, NEW c \in Clients, client[c].op = "idle", NEW op \in Walks,
         NEW key \in Namespaces \cup Actors, NEW st \in ClientState, ClientTo(c, st),
         Stages' = Stages, Call(st) = Call(Begun(op, key))
  PROVE  Backend!BeginWalk(c)
<1>1. Calls' = [Calls EXCEPT ![c] = Call(st)]
  BY CallsTo DEF FInv, RInv
<1>2. Call(st) = [Backend!IdleCall EXCEPT !.op = op, !.scope = Scope(op, key),
                                          !.must = Owed(op, key)]
  <2>1. /\ Begun(op, key).op = op /\ Begun(op, key).key = key
        /\ Begun(op, key).must = Owed(op, key) /\ Begun(op, key).found = {}
        /\ Begun(op, key).targets = {} /\ Begun(op, key).count = 0
    BY BegunFields DEF FInv, RInv
  <2>2. Call(st) = [op |-> op, scope |-> Scope(op, key), must |-> Owed(op, key),
                    found |-> {}, targets |-> {}, count |-> 0]
    BY <2>1 DEF Call
  <2> QED
    BY <2>2, AbstractWalk
<1>3. Owed(op, key) = {r \in Scope(op, key) : Stages[r] = "stored"}
  BY StageFacts DEF Owed, Scope
<1>4. Scope(op, key) = Backend!Scope(op, key)
  BY DEF Scope, Backend!Scope
<1>5. key \in Backend!Keys /\ op \in Backend!Walks
  BY DEF Backend!Keys, Backend!Walks, Walks, Namespaces, Actors
<1>6. Backend!CallTo(c, [Backend!IdleCall EXCEPT
                           !.op = op, !.scope = Backend!Scope(op, key),
                           !.must = {r \in Backend!Scope(op, key) : Stages[r] = "stored"}])
  BY <1>1, <1>2, <1>3, <1>4 DEF Backend!CallTo
<1> QED
  BY <1>5, <1>6, CallFields DEF Backend!BeginWalk

Maps == Indexed' /\ WalksOwe' /\ [Backend!Next]_(Backend!backend)

LEMMA WalkBegins2 ==
  ASSUME FInv, NEW c \in Clients, client[c].op = "idle", NEW op \in Walks,
         NEW key \in Namespaces \cup Actors, NEW st \in ClientState, ClientTo(c, st),
         UNCHANGED <<redis, born, history>>, st.op = op, WalkCall(st),
         Call(st) = Call(Begun(op, key))
  PROVE  Maps
<1>1. Indexed' /\ WalksOwe' /\ Stages' = Stages
  BY WalkKeeps DEF Walks
<1>2. Backend!BeginWalk(c)
  BY <1>1, BeginWalkMaps
<1> QED
  BY <1>1, <1>2 DEF Maps, Backend!Next

LEMMA ListMaps ==
  ASSUME FInv, NEW c \in Clients, NEW ns \in Namespaces, list(c, ns)
  PROVE  Maps
<1> DEFINE begun == Begun("list", ns)
           st    == Paged(begun, None)
<1>1. /\ begun \in ClientState /\ begun.op = "list" /\ begun.key = ns
      /\ begun.must = Owed("list", ns)
  BY BegunFields DEF FInv, RInv, Walks
<1>2. client[c].op = "idle" /\ ClientTo(c, st) /\ UNCHANGED <<redis, born, history>>
  BY DEF list
<1>3. Owed("list", ns) \subseteq Scope("list", ns) \cap returned \cap hashes
  BY DEF Owed
<1>4. None \notin ns_set[ns]
  BY RedisAssumption DEF FInv, RInv, TypeOK
<1>5. Call(st) = Call(Begun("list", ns)) /\ st \in ClientState /\ WalkCall(st)
  <2> HIDE DEF begun
  <2>1. Call(st) = Call(begun) /\ st \in ClientState /\ WalkCall(st)
    BY <1>1, <1>3, <1>4, PagedOwes
  <2> QED
    BY <2>1 DEF begun
<1>6. st.op = "list"
  <2> HIDE DEF begun
  <2> QED
    BY <1>1, PagedShape DEF FInv, RInv
<1> HIDE DEF st
<1> QED
  BY <1>2, <1>5, <1>6, WalkBegins2 DEF Walks

\* The two walks over the members of a set.
LEMMA SetWalkMaps ==
  ASSUME FInv, NEW c \in Clients, client[c].op = "idle", NEW op \in Walks, op # "list",
         NEW key \in Namespaces \cup Actors, NEW ids \in SUBSET Records,
         ids \subseteq Scope(op, key), Owed(op, key) \subseteq ids,
         op = "retrieve" => key \in Namespaces, op = "list_by_actor" => key \in Actors,
         ClientTo(c, [Begun(op, key) EXCEPT !.pc = "get", !.todo = ids]),
         UNCHANGED <<redis, born, history>>
  PROVE  Maps
<1> DEFINE begun == Begun(op, key)
           st    == [begun EXCEPT !.pc = "get", !.todo = ids]
<1>1. /\ begun \in ClientState /\ begun.op = op /\ begun.key = key
      /\ begun.must = Owed(op, key)
  BY BegunFields DEF FInv, RInv
<1>2. Owed(op, key) \subseteq Scope(op, key) \cap returned \cap hashes
  BY DEF Owed
<1>3. ClientTo(c, st)
  OBVIOUS
<1> HIDE DEF begun
<1>4. /\ st \in ClientState /\ st.op = begun.op /\ st.key = begun.key /\ st.must = begun.must
      /\ st.found = begun.found /\ st.targets = begun.targets /\ st.count = begun.count
      /\ st.todo = ids /\ st.pc = "get"
  BY <1>1 DEF ClientState
<1> HIDE DEF st
<1>5. WalkCall(st)
  BY <1>1, <1>2, <1>4 DEF WalkCall
<1>6. Call(st) = Call(begun)
  BY <1>4 DEF Call
<1>7. Call(st) = Call(Begun(op, key))
  BY <1>6 DEF begun
<1> QED
  BY <1>1, <1>3, <1>4, <1>5, <1>7, WalkBegins2

LEMMA ListByActorMaps ==
  ASSUME FInv, NEW c \in Clients, NEW a \in Actors, list_by_actor(c, a)
  PROVE  Maps
<1>1. actor_set[a] \in SUBSET Records /\ actor_set[a] \subseteq Scope("list_by_actor", a)
  BY DEF FInv, RInv, TypeOK, Indexed, Scope
<1>2. Owed("list_by_actor", a) \subseteq actor_set[a]
  <2>1. a # NoActor
    BY DEF Actors
  <2> QED
    BY <2>1 DEF Owed, Scope, FInv, Indexed, InIndexes
<1>3. /\ client[c].op = "idle" /\ UNCHANGED <<redis, born, history>>
      /\ ClientTo(c, [Begun("list_by_actor", a) EXCEPT !.pc = "get", !.todo = actor_set[a]])
  BY DEF list_by_actor
<1> QED
  BY <1>1, <1>2, <1>3, SetWalkMaps DEF Walks

LEMMA RetrieveMaps ==
  ASSUME FInv, NEW c \in Clients, NEW ns \in Namespaces, retrieve(c, ns)
  PROVE  Maps
<1>1. ns_set[ns] \in SUBSET Records /\ ns_set[ns] \subseteq Scope("retrieve", ns)
  BY DEF FInv, RInv, TypeOK, Indexed, Scope
<1>2. Owed("retrieve", ns) \subseteq ns_set[ns]
  BY DEF Owed, Scope, FInv, Indexed, InIndexes
<1>3. /\ client[c].op = "idle" /\ UNCHANGED <<redis, born, history>>
      /\ ClientTo(c, [Begun("retrieve", ns) EXCEPT !.pc = "get", !.todo = ns_set[ns]])
  BY DEF retrieve
<1> QED
  BY <1>1, <1>2, <1>3, SetWalkMaps DEF Walks

LEMMA GetMaps ==
  ASSUME FInv, NEW c \in Clients, NEW r \in Records, get(c, r)
  PROVE  Maps
<1> DEFINE me == client[c]
           new == IF r \in hashes THEN {r} ELSE {}
           st == [me EXCEPT !.todo = me.todo \ {r}, !.found = me.found \cup new]
<1>1. /\ me \in ClientState /\ me.pc = "get" /\ r \in me.todo
      /\ UNCHANGED <<redis, born, history>>
  BY DEF get, FInv, RInv, TypeOK
<1>2. ClientTo(c, st)
  <2>1. (IF r \in hashes THEN me.found \cup {r} ELSE me.found) = me.found \cup new
    OBVIOUS
  <2> QED
    BY <2>1 DEF get
<1>3. me.op \in Walks /\ WalkCall(me)
  BY <1>1 DEF FInv, RInv, ClientShape, WalksOwe
<1>4. Calls[c].op = me.op /\ Calls[c] = Call(me) /\ Calls[c].scope = Scope(me.op, me.key)
      /\ Calls[c].found = me.found
  BY <1>3, CallFields
<1>5. new \in SUBSET {q \in Scope(me.op, me.key) : Stages[q] \in {"open", "stored"}}
  BY <1>1, <1>3, StageFacts DEF WalkCall
<1>6. new = {} => r \notin hashes
  OBVIOUS
<1> HIDE DEF me, new
<1>7. /\ st \in ClientState /\ st.op = me.op /\ st.key = me.key /\ st.must = me.must
      /\ st.found = me.found \cup new /\ st.targets = me.targets /\ st.count = me.count
      /\ st.todo = me.todo \ {r} /\ st.pc = "get" /\ st.cursor = me.cursor
  <2>1. new \in SUBSET Records
    BY <1>5 DEF Scope
  <2> QED
    BY <1>1, <2>1 DEF ClientState
<1> HIDE DEF st
<1>8. WalkCall(st)
  <2>1. st.must \subseteq st.found \cup st.todo \cup Behind(st)
    <3>1. r \in me.must => r \in new
      BY <1>3 DEF WalkCall, new
    <3> QED
      BY <1>3, <1>7, <3>1 DEF WalkCall, Behind
  <2> QED
    BY <1>3, <1>7, <2>1 DEF WalkCall
<1>9. Indexed' /\ WalksOwe' /\ Stages' = Stages
  <2>1. st.op # "put"
    BY <1>3, <1>7 DEF Walks
  <2> QED
    BY <1>1, <1>2, <1>3, <1>7, <1>8, <2>1, WalkKeeps
<1>10. Calls' = [Calls EXCEPT ![c] = Call(st)]
  BY <1>2, <1>7, CallsTo DEF FInv, RInv
<1>11. Call(st) = [Call(me) EXCEPT !.found = me.found \cup new]
  <2>1. PICK found : found = me.found \cup new
    OBVIOUS
  <2>2. st.found = found
    BY <1>7, <2>1
  <2>3. Call(st) = [Call(me) EXCEPT !.found = found]
    BY <1>7, <2>2 DEF Call
  <2> QED
    BY <2>1, <2>3
<1>12. Backend!CallTo(c, [Calls[c] EXCEPT !.found = Calls[c].found \cup new])
  BY <1>4, <1>10, <1>11 DEF Backend!CallTo
<1>13. Backend!Find(c)
  <2>1. new \in SUBSET {q \in Calls[c].scope : Backend!Exists(q)}
    BY <1>4, <1>5 DEF Backend!Exists
  <2> QED
    BY <1>3, <1>4, <1>9, <1>12, <2>1 DEF Backend!Find, Backend!Walks, Walks
<1> QED
  BY <1>9, <1>13 DEF Maps, Backend!Next

LEMMA NextPageMaps ==
  ASSUME FInv, NEW c \in Clients, NextPage(c)
  PROVE  Maps
<1> DEFINE me == client[c]
           st == Paged(me, me.cursor)
<1>1. /\ me \in ClientState /\ me.op = "list" /\ me.todo = {} /\ ClientTo(c, st)
      /\ UNCHANGED <<redis, born, history>>
  BY DEF NextPage, FInv, RInv, TypeOK
<1>2. WalkCall(me)
  BY <1>1 DEF FInv, WalksOwe, Walks
<1>3. st \in ClientState /\ WalkCall(st) /\ Call(st) = Call(me) /\ st.op = "list"
  <2> HIDE DEF me
  <2>1. me.key \in Namespaces /\ me.must \subseteq Scope(me.op, me.key) \cap returned \cap hashes
    BY <1>1, <1>2 DEF WalkCall
  <2>2. \A r \in me.must : r \in me.found \/ me.cursor < r
    BY <1>1, <1>2 DEF WalkCall, Behind
  <2>3. st \in ClientState /\ WalkCall(st) /\ Call(st) = Call(me)
    BY <1>1, <2>1, <2>2, PagedOwes
  <2>4. st.op = "list"
    BY <1>1, <2>1, PagedShape DEF FInv, RInv
  <2> QED
    BY <2>3, <2>4
<1> HIDE DEF st
<1>4. Indexed' /\ WalksOwe' /\ Stages' = Stages
  BY <1>1, <1>3, WalkKeeps DEF Walks
<1>5. Calls' = Calls
  BY <1>1, <1>3, CallsSame DEF FInv, RInv
<1> QED
  BY <1>4, <1>5 DEF Maps, Backend!backend

LEMMA SameCardinality == \A S : Backend!Cardinality(S) = Cardinality(S)
BY DEF Backend!Cardinality, Cardinality

LEMMA AbstractAnswer ==
  ASSUME NEW op, NEW found
  PROVE  [Backend!IdleCall EXCEPT !.op = op, !.found = found]
           = [op |-> op, scope |-> {}, must |-> {}, found |-> found, targets |-> {}, count |-> 0]
<1> DEFINE a == [Backend!IdleCall EXCEPT !.op = op]
<1>1. a = [op |-> op, scope |-> {}, must |-> {}, found |-> {}, targets |-> {}, count |-> 0]
  BY DEF Backend!IdleCall
<1> HIDE DEF a
<1>2. [a EXCEPT !.found = found]
        = [op |-> op, scope |-> {}, must |-> {}, found |-> found, targets |-> {}, count |-> 0]
  BY <1>1
<1> QED
  BY <1>2 DEF a

LEMMA EndWalkMaps ==
  ASSUME FInv, NEW c \in Clients, EndWalk(c)
  PROVE  Maps
<1> DEFINE me == client[c]
           answer == IF me.op = "retrieve" THEN Top(me.found) ELSE me.found
           st == [IdleClient EXCEPT !.op = "answer", !.pc = "return", !.found = answer]
<1>1. /\ me \in ClientState /\ me.pc = "get" /\ me.todo = {} /\ me.cursor = None
      /\ ClientTo(c, st) /\ UNCHANGED <<redis, born, history>>
  BY DEF EndWalk, FInv, RInv, TypeOK
<1>2. me.op \in Walks /\ WalkCall(me)
  BY <1>1 DEF FInv, RInv, ClientShape, WalksOwe
<1>3. me.must \subseteq me.found
  BY <1>1, <1>2 DEF WalkCall, Behind
<1>4. answer \in SUBSET Records
  BY <1>1 DEF ClientState, Top
<1>5. Top(me.found) = Backend!Top(me.found)
  BY SameCardinality DEF Top, Better, Backend!Top, Backend!Better
<1>6. Calls[c].op = me.op /\ Calls[c].must = me.must /\ Calls[c].found = me.found
  BY CallFields
<1>7. answer = IF Calls[c].op = "retrieve" THEN Backend!Top(Calls[c].found) ELSE Calls[c].found
  BY <1>5, <1>6
<1> HIDE DEF answer
<1>8. /\ st \in ClientState /\ st.op = "answer" /\ st.must = {} /\ st.found = answer
      /\ st.targets = {} /\ st.count = 0
  BY <1>4 DEF IdleClient, ClientState
<1> HIDE DEF st
<1>9. Indexed' /\ WalksOwe' /\ Stages' = Stages
  BY <1>1, <1>8, WalkKeeps DEF Walks
<1>10. Calls' = [Calls EXCEPT ![c] = Call(st)]
  BY <1>1, <1>8, CallsTo DEF FInv, RInv
<1>11. Call(st) = [Backend!IdleCall EXCEPT !.op = "answer", !.found = answer]
  BY <1>8, AbstractAnswer DEF Call, Walks
<1>12. Backend!EndWalk(c)
  BY <1>2, <1>3, <1>6, <1>7, <1>9, <1>10, <1>11
     DEF Backend!EndWalk, Backend!CallTo, Backend!Walks, Walks
<1> QED
  BY <1>9, <1>12 DEF Maps, Backend!Next

LEMMA IdleCallMaps == Call(IdleClient) = Backend!IdleCall
BY DEF Call, IdleClient, Backend!IdleCall, Walks

LEMMA ReturnWalkMaps ==
  ASSUME FInv, NEW c \in Clients, ReturnWalk(c)
  PROVE  Maps
<1>1. /\ client[c].op = "answer" /\ ClientTo(c, IdleClient)
      /\ UNCHANGED <<redis, born, history>>
  BY DEF ReturnWalk
<1>2. IdleClient.op = "idle" /\ IdleClient.must = {}
  BY DEF IdleClient
<1>3. Indexed' /\ WalksOwe' /\ Stages' = Stages
  BY <1>1, <1>2, IdleTyped, WalkKeeps DEF Walks
<1>4. Calls' = [Calls EXCEPT ![c] = Backend!IdleCall]
  BY <1>1, IdleTyped, IdleCallMaps, CallsTo DEF FInv, RInv
<1>5. Backend!Return(c)
  BY <1>1, <1>3, <1>4, CallFields DEF Backend!Return, Backend!CallTo
<1> QED
  BY <1>3, <1>5 DEF Maps, Backend!Next

-----------------------------------------------------------------------------
(* put().                                                                  *)

LEMMA AbstractWrite ==
  ASSUME NEW op, NEW targets
  PROVE  [Backend!IdleCall EXCEPT !.op = op, !.targets = targets]
           = [op |-> op, scope |-> {}, must |-> {}, found |-> {}, targets |-> targets, count |-> 0]
<1> DEFINE a == [Backend!IdleCall EXCEPT !.op = op]
<1>1. a = [op |-> op, scope |-> {}, must |-> {}, found |-> {}, targets |-> {}, count |-> 0]
  BY DEF Backend!IdleCall
<1> HIDE DEF a
<1>2. [a EXCEPT !.targets = targets]
        = [op |-> op, scope |-> {}, must |-> {}, found |-> {}, targets |-> targets, count |-> 0]
  BY <1>1
<1> QED
  BY <1>2 DEF a

LEMMA HsetMaps ==
  ASSUME FInv, NEW c \in Clients, NEW r \in Records, hset(c, r)
  PROVE  Maps
<1> DEFINE st == [IdleClient EXCEPT !.op = "put", !.pc = "sadd_ns", !.targets = {r}, !.rid = r]
<1>1. /\ client[c].op = "idle" /\ r \notin born /\ ClientTo(c, st)
      /\ born' = born \cup {r} /\ hashes' = hashes \cup {r}
      /\ UNCHANGED <<ns_set, actor_set, returned>>
  BY DEF hset, history
<1>2. /\ st \in ClientState /\ st.op = "put" /\ st.pc = "sadd_ns" /\ st.targets = {r}
      /\ st.rid = r /\ st.must = {} /\ st.found = {} /\ st.count = 0
  BY DEF IdleClient, ClientState
<1> HIDE DEF st
<1>3. client'[c] = st /\ \A d \in Clients \ {c} : client'[d] = client[d]
  BY <1>1, <1>2, OtherClients DEF FInv, RInv
<1>4. WalksOwe'
  BY <1>1, <1>2, OwesKept DEF FInv, RInv, Walks
<1>5. Indexed'
  <2>1. \A q \in Records : InIndexes(q) => InIndexes(q)'
    BY <1>1 DEF InIndexes
  <2>2. r \notin returned
    BY <1>1 DEF FInv, Indexed
  <2>3. returned' \subseteq born'
    BY <1>1 DEF FInv, Indexed
  <2>4. \A q \in returned' \cap hashes' : InIndexes(q)'
    BY <1>1, <2>2 DEF FInv, Indexed, InIndexes
  <2>5. ASSUME NEW d \in Clients, client'[d].op = "put", client'[d].pc # "sadd_ns",
               client'[d].rid \in hashes'
        PROVE  client'[d] = client[d] /\ client[d].rid \in hashes
    <3>1. d # c /\ client'[d] = client[d]
      BY <1>2, <1>3, <2>5
    <3>2. client[d].rid # r
      BY <1>1, <2>5, <3>1 DEF FInv, RInv, ClientShape, Unborn
    <3> QED
      BY <1>1, <2>5, <3>1, <3>2
  <2>6. \A d \in Clients : client'[d].op = "put" /\ client'[d].rid \in hashes' =>
          /\ client'[d].pc = "sadd_actor" => client'[d].rid \in ns_set'[ns_of[client'[d].rid]]
          /\ client'[d].pc = "return" => InIndexes(client[d].rid)'
    BY <1>1, <2>5 DEF FInv, Indexed, InIndexes
  <2> QED
    BY <1>1, <2>3, <2>4, <2>6 DEF FInv, Indexed
<1>6. Stages[r] = "absent" /\ Stages' = [Stages EXCEPT ![r] = "open"]
  <2>1. r \notin returned
    BY <1>1 DEF FInv, Indexed
  <2> QED
    BY <1>1, <2>1 DEF Stages, Stage
<1>7. Calls' = [Calls EXCEPT ![c] = [Backend!IdleCall EXCEPT !.op = "put", !.targets = {r}]]
  <2>1. Calls' = [Calls EXCEPT ![c] = Call(st)]
    BY <1>1, <1>2, CallsTo DEF FInv, RInv
  <2>2. Call(st) = [Backend!IdleCall EXCEPT !.op = "put", !.targets = {r}]
    <3>1. Call(st) = [op |-> "put", scope |-> {}, must |-> {}, found |-> {},
                      targets |-> {r}, count |-> 0]
      BY <1>2 DEF Call, Walks
    <3> QED
      BY <3>1, AbstractWrite
  <2> QED
    BY <2>1, <2>2
<1>8. Backend!BeginPut(c)
  BY <1>1, <1>6, <1>7, CallFields DEF Backend!BeginPut, Backend!CallTo
<1> QED
  BY <1>4, <1>5, <1>8 DEF Maps, Backend!Next

\* The two commands that put the id in a set do not show.
LEMMA SaddMaps ==
  ASSUME FInv, NEW c \in Clients, NEW pc \in {"sadd_actor", "return"}, client[c].op = "put",
         ClientTo(c, [client[c] EXCEPT !.pc = pc]),
         UNCHANGED <<hashes, born, returned>>,
         \A q \in Records : InIndexes(q) => InIndexes(q)',
         \A q \in Records : q \in ns_set[ns_of[q]] => q \in ns_set'[ns_of[q]],
         \A ns \in Namespaces : \A q \in ns_set'[ns] : ns_of[q] = ns,
         \A a \in Actors : \A q \in actor_set'[a] : actor_of[q] = a,
         client[c].rid \in hashes => client[c].rid \in ns_set'[ns_of[client[c].rid]],
         client[c].rid \in hashes /\ pc = "return" /\ actor_of[client[c].rid] # NoActor =>
           client[c].rid \in actor_set'[actor_of[client[c].rid]]
  PROVE  Maps
<1> DEFINE me == client[c]
           st == [me EXCEPT !.pc = pc]
<1>1. me \in ClientState /\ ClientTo(c, st)
  BY DEF FInv, RInv, TypeOK
<1>2. /\ st \in ClientState /\ st.op = "put" /\ st.pc = pc /\ st.must = me.must
      /\ st.found = me.found /\ st.targets = me.targets /\ st.count = me.count
      /\ st.rid = me.rid
  BY <1>1 DEF ClientState
<1> HIDE DEF st
<1>3. client'[c] = st /\ \A d \in Clients \ {c} : client'[d] = client[d]
  BY <1>1, <1>2, OtherClients DEF FInv, RInv
<1>4. Stages' = Stages /\ Calls' = Calls
  <2>1. Call(st) = Call(me)
    BY <1>2 DEF Call, Walks
  <2> QED
    BY <1>1, <1>2, <2>1, StageSame, CallsSame DEF FInv, RInv
<1>5. WalksOwe'
  <2>1. st.must = {}
    BY <1>2 DEF FInv, WalksOwe, Walks
  <2> QED
    BY <1>1, <1>2, <2>1, OwesKept DEF FInv, RInv, Walks
<1>6. Indexed'
  <2>1. returned' \subseteq born' /\ \A q \in returned' \cap hashes' : InIndexes(q)'
    <3>1. returned \subseteq Records
      BY DEF FInv, RInv, TypeOK
    <3>2. \A q \in returned \cap hashes : InIndexes(q)'
      BY <3>1 DEF FInv, Indexed
    <3> QED
      BY <3>2 DEF FInv, Indexed, InIndexes
  <2>2. ASSUME NEW d \in Clients, client'[d].op = "put", client'[d].rid \in hashes'
        PROVE  /\ client'[d].pc = "sadd_actor" => client'[d].rid \in ns_set'[ns_of[client'[d].rid]]
               /\ client'[d].pc = "return" => InIndexes(client[d].rid)'
    <3>1. CASE d = c
      BY <1>2, <1>3, <2>2, <3>1 DEF InIndexes
    <3>2. CASE d # c
      <4>1. client'[d] = client[d]
        BY <1>3, <3>2
      <4>2. client[d].rid \in Records
        BY <2>2, <4>1 DEF FInv, RInv, ClientShape
      <4> QED
        BY <2>2, <4>1, <4>2 DEF FInv, Indexed, InIndexes
    <3> QED
      BY <3>1, <3>2
  <2> QED
    BY <2>1, <2>2 DEF Indexed
<1> QED
  BY <1>4, <1>5, <1>6 DEF Maps, Backend!backend

LEMMA SaddNsMaps ==
  ASSUME FInv, NEW c \in Clients, sadd_ns(c)
  PROVE  Maps
<1> DEFINE r == client[c].rid
           pc == IF actor_of[r] = NoActor THEN "return" ELSE "sadd_actor"
<1>1. /\ client[c].pc = "sadd_ns" /\ ClientTo(c, [client[c] EXCEPT !.pc = pc])
      /\ ns_set' = [ns_set EXCEPT ![ns_of[r]] = ns_set[ns_of[r]] \cup {r}]
      /\ UNCHANGED <<hashes, actor_set, born, returned>>
  BY DEF sadd_ns, history
<1>2. client[c].op = "put" /\ r \in Records
  BY <1>1 DEF FInv, RInv, ClientShape
<1>3. pc \in {"sadd_actor", "return"} /\ (pc = "return" => actor_of[r] = NoActor)
  OBVIOUS
<1> HIDE DEF pc
<1>4. /\ r \in ns_set'[ns_of[r]]
      /\ \A ns \in Namespaces : /\ ns_set[ns] \subseteq ns_set'[ns]
                                /\ \A q \in ns_set'[ns] : q \in ns_set[ns] \/ (q = r /\ ns = ns_of[r])
  BY <1>1, <1>2, SetsTyped DEF FInv, RInv, TypeOK
<1>5. \A q \in Records : ns_of[q] \in Namespaces
  BY SetsTyped DEF FInv, RInv
<1>6. \A q \in Records : InIndexes(q) => InIndexes(q)'
  BY <1>1, <1>4, <1>5 DEF InIndexes
<1>7. \A q \in Records : q \in ns_set[ns_of[q]] => q \in ns_set'[ns_of[q]]
  BY <1>4, <1>5
<1>8. \A ns \in Namespaces : \A q \in ns_set'[ns] : ns_of[q] = ns
  BY <1>4 DEF FInv, Indexed
<1>9. \A a \in Actors : \A q \in actor_set'[a] : actor_of[q] = a
  BY <1>1 DEF FInv, Indexed
<1> QED
  BY <1>1, <1>2, <1>3, <1>4, <1>6, <1>7, <1>8, <1>9, SaddMaps

LEMMA SaddActorMaps ==
  ASSUME FInv, NEW c \in Clients, sadd_actor(c)
  PROVE  Maps
<1> DEFINE r == client[c].rid
<1>1. /\ client[c].pc = "sadd_actor" /\ ClientTo(c, [client[c] EXCEPT !.pc = "return"])
      /\ actor_set' = [actor_set EXCEPT ![actor_of[r]] = actor_set[actor_of[r]] \cup {r}]
      /\ UNCHANGED <<hashes, ns_set, born, returned>>
  BY DEF sadd_actor, history
<1>2. client[c].op = "put" /\ r \in Records /\ actor_of[r] # NoActor
  BY <1>1 DEF FInv, RInv, ClientShape
<1>3. r \in hashes => r \in ns_set'[ns_of[r]]
  BY <1>1, <1>2 DEF FInv, Indexed
<1>4. /\ r \in actor_set'[actor_of[r]]
      /\ \A a \in Actors : /\ actor_set[a] \subseteq actor_set'[a]
                           /\ \A q \in actor_set'[a] : q \in actor_set[a] \/ (q = r /\ a = actor_of[r])
  BY <1>1, <1>2, SetsTyped DEF FInv, RInv, TypeOK
<1>5. \A q \in Records : actor_of[q] # NoActor => actor_of[q] \in Actors
  BY SetsTyped DEF FInv, RInv
<1>6. \A q \in Records : InIndexes(q) => InIndexes(q)'
  BY <1>1, <1>4, <1>5 DEF InIndexes
<1>7. \A q \in Records : q \in ns_set[ns_of[q]] => q \in ns_set'[ns_of[q]]
  BY <1>1
<1>8. \A ns \in Namespaces : \A q \in ns_set'[ns] : ns_of[q] = ns
  BY <1>1 DEF FInv, Indexed
<1>9. \A a \in Actors : \A q \in actor_set'[a] : actor_of[q] = a
  BY <1>4 DEF FInv, Indexed
<1> QED
  BY <1>1, <1>2, <1>3, <1>4, <1>6, <1>7, <1>8, <1>9, SaddMaps

LEMMA ReturnPutMaps ==
  ASSUME FInv, NEW c \in Clients, ReturnPut(c)
  PROVE  Maps
<1> DEFINE r == client[c].rid
<1>1. /\ client[c].op = "put" /\ client[c].pc = "return" /\ ClientTo(c, IdleClient)
      /\ returned' = returned \cup {r}
      /\ UNCHANGED <<redis, hashes, born>>
  BY DEF ReturnPut, redis
<1>2. /\ r \in Records /\ client[c].targets = {r} /\ r \in born
      /\ r \in hashes => InIndexes(r)
  BY <1>1 DEF FInv, RInv, ClientShape, Unborn, Indexed
<1>3. IdleClient.op = "idle" /\ IdleClient.must = {}
  BY DEF IdleClient
<1>4. WalksOwe'
  BY <1>1, <1>3, IdleTyped, OwesKept DEF FInv, RInv, Walks
<1>5. Indexed'
  <2>1. returned' \subseteq born /\ \A q \in returned' \cap hashes : InIndexes(q)
    BY <1>1, <1>2 DEF FInv, Indexed
  <2> QED
    BY <1>1, <1>3, <2>1, IdleTyped, IndexedKept DEF FInv, RInv
<1>6. Calls' = [Calls EXCEPT ![c] = Backend!IdleCall]
  BY <1>1, IdleTyped, IdleCallMaps, CallsTo DEF FInv, RInv
<1>7. Stages' = [q \in Records |->
         IF q \in client[c].targets /\ Stages[q] = "open" THEN "stored" ELSE Stages[q]]
  <2>1. ASSUME NEW q \in Records
        PROVE  Stage(q)' = IF q \in client[c].targets /\ Stage(q) = "open" THEN "stored" ELSE Stage(q)
    <3>1. CASE q = r
      BY <1>1, <1>2, <3>1 DEF Stage
    <3>2. CASE q # r
      BY <1>1, <1>2, <3>2 DEF Stage
    <3> QED
      BY <3>1, <3>2
  <2> QED
    BY <2>1 DEF Stages
<1>8. Backend!EndPut(c)
  BY <1>1, <1>6, <1>7, CallFields DEF Backend!EndPut, Backend!CallTo
<1> QED
  BY <1>4, <1>5, <1>8 DEF Maps, Backend!Next

-----------------------------------------------------------------------------
(* batch_delete(), and calls that raise.                                   *)

LEMMA BatchDeleteMaps ==
  ASSUME FInv, NEW c \in Clients, NEW rids \in SUBSET known, batch_delete(c, rids)
  PROVE  Maps
<1> DEFINE st == [IdleClient EXCEPT !.op = "batch_delete", !.pc = "del",
                                    !.targets = rids, !.todo = rids]
<1>1. /\ client[c].op = "idle" /\ ClientTo(c, st) /\ rids \in SUBSET Records
      /\ UNCHANGED <<redis, born, history>>
  BY DEF batch_delete, FInv, RInv, TypeOK
<1>2. /\ st \in ClientState /\ st.op = "batch_delete" /\ st.targets = rids
      /\ st.must = {} /\ st.found = {} /\ st.count = 0
  BY <1>1 DEF IdleClient, ClientState
<1> HIDE DEF st
<1>3. Indexed' /\ WalksOwe' /\ Stages' = Stages
  BY <1>1, <1>2, WalkKeeps DEF Walks
<1>4. Calls' = [Calls EXCEPT ![c] = Call(st)]
  BY <1>1, <1>2, CallsTo DEF FInv, RInv
<1>5. Call(st) = [Backend!IdleCall EXCEPT !.op = "batch_delete", !.targets = rids]
  <2>1. Call(st) = [op |-> "batch_delete", scope |-> {}, must |-> {}, found |-> {},
                    targets |-> rids, count |-> 0]
    BY <1>2 DEF Call, Walks
  <2> QED
    BY <2>1, AbstractWrite
<1>6. Backend!BeginDelete(c)
  BY <1>1, <1>3, <1>4, <1>5, CallFields DEF Backend!BeginDelete, Backend!CallTo
<1> QED
  BY <1>3, <1>6 DEF Maps, Backend!Next

\* A walk gives up what another call deletes.
LEMMA CallLiteral ==
  ASSUME NEW d \in Clients
  PROVE  /\ Calls[d] = [op |-> Calls[d].op, scope |-> Calls[d].scope, must |-> Calls[d].must,
                        found |-> Calls[d].found, targets |-> Calls[d].targets,
                        count |-> Calls[d].count]
         /\ Calls[d].scope = IF client[d].op \in Walks THEN Scope(client[d].op, client[d].key)
                                                     ELSE {}
BY DEF Calls, Call

LEMMA CallNext ==
  ASSUME NEW d \in Clients
  PROVE  Calls'[d] = [op |-> client'[d].op,
                      scope |-> IF client'[d].op \in Walks
                                THEN Scope(client'[d].op, client'[d].key) ELSE {},
                      must |-> client'[d].must, found |-> client'[d].found,
                      targets |-> client'[d].targets, count |-> client'[d].count]
BY DEF Calls, Call, Scope

LEMMA DeletedCalls ==
  ASSUME FInv, NEW c \in Clients, client[c].op = "batch_delete",
         NEW r \in Records, NEW existed \in BOOLEAN, Deleted(c, r, existed)
  PROVE  \A d \in Clients :
           /\ client'[d].op = client[d].op /\ client'[d].key = client[d].key
           /\ client'[d].found = client[d].found /\ client'[d].todo = client[d].todo
           /\ client'[d].targets = client[d].targets
           /\ client'[d].must = client[d].must \ {r}
           /\ d # c => /\ client'[d].pc = client[d].pc /\ client'[d].rid = client[d].rid
                       /\ client'[d].cursor = client[d].cursor /\ client'[d].count = client[d].count
           /\ d = c => client'[d].count = IF existed THEN client[d].count + 1 ELSE client[d].count
<1> DEFINE count == client[c].count + (IF existed THEN 1 ELSE 0)
           mine  == [client[c] EXCEPT !.pc = "srem", !.rid = r, !.count = count]
           other(d) == [client[d] EXCEPT !.must = client[d].must \ {r}]
<1>1. client \in [Clients -> ClientState]
  BY DEF FInv, RInv, TypeOK
<1>2. client[c].must = {}
  BY DEF FInv, WalksOwe, Walks
<1>3. count = IF existed THEN client[c].count + 1 ELSE client[c].count
  BY <1>1 DEF ClientState
<1>4. client' = [d \in Clients |-> IF d = c THEN mine ELSE other(d)]
  BY DEF Deleted
<1> HIDE DEF count
<1>5. /\ mine.op = client[c].op /\ mine.key = client[c].key /\ mine.todo = client[c].todo
      /\ mine.found = client[c].found /\ mine.targets = client[c].targets
      /\ mine.must = client[c].must \ {r} /\ mine.count = count
  BY <1>1, <1>2 DEF ClientState
<1>6. ASSUME NEW d \in Clients
      PROVE  /\ other(d).pc = client[d].pc /\ other(d).rid = client[d].rid
             /\ other(d).op = client[d].op /\ other(d).key = client[d].key
             /\ other(d).todo = client[d].todo /\ other(d).found = client[d].found
             /\ other(d).targets = client[d].targets /\ other(d).must = client[d].must \ {r}
             /\ other(d).cursor = client[d].cursor /\ other(d).count = client[d].count
  BY <1>1 DEF ClientState
<1> HIDE DEF mine, other
<1> QED
  BY <1>3, <1>4, <1>5, <1>6

LEMMA DelMaps ==
  ASSUME FInv, NEW c \in Clients, NEW r \in Records, del(c, r)
  PROVE  Maps
<1>1. /\ client[c].pc = "del" /\ r \in client[c].todo /\ hashes' = hashes \ {r}
      /\ UNCHANGED <<ns_set, actor_set, born, returned>>
  BY DEF del, history
<1>2. client[c].op = "batch_delete" /\ r \in client[c].targets
  BY <1>1 DEF FInv, RInv, ClientShape
<1>3. PICK existed \in BOOLEAN : (existed <=> r \in hashes) /\ Deleted(c, r, existed)
  <2>1. CASE r \in hashes
    BY <2>1 DEF del, Deleted
  <2>2. CASE r \notin hashes
    BY <2>2 DEF del, Deleted
  <2> QED
    BY <2>1, <2>2
<1>4. \A d \in Clients :
        /\ client'[d].op = client[d].op /\ client'[d].key = client[d].key
        /\ client'[d].found = client[d].found /\ client'[d].todo = client[d].todo
        /\ client'[d].targets = client[d].targets
        /\ client'[d].must = client[d].must \ {r}
        /\ d # c => /\ client'[d].pc = client[d].pc /\ client'[d].rid = client[d].rid
                    /\ client'[d].cursor = client[d].cursor /\ client'[d].count = client[d].count
        /\ d = c => client'[d].count = IF existed THEN client[d].count + 1 ELSE client[d].count
  BY <1>2, <1>3, DeletedCalls
<1>5. WalksOwe'
  <2>1. ASSUME NEW d \in Clients, client[d].op \in Walks  PROVE WalkCall(client[d])'
    <3>1. d # c /\ WalkCall(client[d])
      BY <1>2, <2>1 DEF Walks, FInv, WalksOwe
    <3> QED
      BY <1>1, <1>4, <3>1 DEF WalkCall, Scope, Behind
  <2>2. ASSUME NEW d \in Clients, client[d].op \notin Walks  PROVE client'[d].must = {}
    BY <1>4, <2>2 DEF FInv, WalksOwe
  <2> QED
    BY <1>4, <2>1, <2>2 DEF WalksOwe
<1>6. Indexed'
  <2>1. \A q \in returned' \cap hashes' : InIndexes(q)'
    BY <1>1 DEF FInv, Indexed, InIndexes
  <2>2. ASSUME NEW d \in Clients, client'[d].op = "put", client'[d].rid \in hashes'
        PROVE  /\ client'[d].pc = "sadd_actor" => client'[d].rid \in ns_set'[ns_of[client'[d].rid]]
               /\ client'[d].pc = "return" => InIndexes(client[d].rid)'
    <3>1. d # c /\ client[d].op = "put"
      BY <1>2, <1>4, <2>2
    <3>2. client'[d].pc = client[d].pc /\ client'[d].rid = client[d].rid
      BY <1>4, <3>1
    <3> QED
      BY <1>1, <2>2, <3>1, <3>2 DEF FInv, Indexed, InIndexes
  <2> QED
    BY <1>1, <2>1, <2>2 DEF FInv, Indexed
<1>7. ASSUME NEW d \in Clients, NEW n, client'[d].count = n
      PROVE  Calls'[d] = [op |-> Calls[d].op, scope |-> Calls[d].scope,
                          must |-> Calls[d].must \ {r}, found |-> Calls[d].found,
                          targets |-> Calls[d].targets, count |-> n]
  <2>1. /\ client'[d].op = Calls[d].op /\ client'[d].must = Calls[d].must \ {r}
        /\ client'[d].found = Calls[d].found /\ client'[d].targets = Calls[d].targets
    BY <1>4, CallFields
  <2>2. (IF client'[d].op \in Walks THEN Scope(client'[d].op, client'[d].key) ELSE {})
          = Calls[d].scope
    BY <1>4, CallLiteral
  <2> QED
    BY <1>7, <2>1, <2>2, CallNext
<1>8. CASE r \in hashes
  <2>1. existed
    BY <1>3, <1>8
  <2>2. Stages[r] \in {"open", "stored"}
    BY <1>8, StageFacts
  <2>3. Stages' = [Stages EXCEPT ![r] = "deleted"]
    <3>1. r \in born
      BY <1>8 DEF FInv, RInv, Unborn
    <3> QED
      BY <1>1, <3>1 DEF Stages, Stage
  <2>4. ASSUME NEW d \in Clients
        PROVE  Calls'[d] = [Calls[d] EXCEPT !.must = Calls[d].must \ {r},
                                            !.count = IF d = c THEN Calls[d].count + 1
                                                      ELSE Calls[d].count]
    <3>0. PICK n : n = IF d = c THEN Calls[d].count + 1 ELSE Calls[d].count
      OBVIOUS
    <3>1. client'[d].count = n
      BY <1>4, <2>1, <3>0, CallFields
    <3>2. Calls'[d] = [op |-> Calls[d].op, scope |-> Calls[d].scope,
                       must |-> Calls[d].must \ {r}, found |-> Calls[d].found,
                       targets |-> Calls[d].targets, count |-> n]
      BY <1>7, <3>1
    <3>3. Calls'[d] = [Calls[d] EXCEPT !.must = Calls[d].must \ {r}, !.count = n]
      <4>1. Calls[d] = [op |-> Calls[d].op, scope |-> Calls[d].scope, must |-> Calls[d].must,
                        found |-> Calls[d].found, targets |-> Calls[d].targets,
                        count |-> Calls[d].count]
        BY CallLiteral
      <4>0. PICK old, new, m : old = Calls[d] /\ new = Calls'[d] /\ m = Calls[d].must \ {r}
        OBVIOUS
      <4>2. old = [op |-> old.op, scope |-> old.scope, must |-> old.must, found |-> old.found,
                   targets |-> old.targets, count |-> old.count]
        BY <4>0, <4>1
      <4>3. new = [op |-> old.op, scope |-> old.scope, must |-> m,
                   found |-> old.found, targets |-> old.targets, count |-> n]
        BY <3>2, <4>0
      <4> DEFINE owed == [old EXCEPT !.must = m]
      <4>4. owed = [op |-> old.op, scope |-> old.scope, must |-> m,
                    found |-> old.found, targets |-> old.targets, count |-> old.count]
        BY <4>2
      <4> HIDE DEF owed
      <4>5. new = [owed EXCEPT !.count = n]
        BY <4>3, <4>4
      <4>6. new = [old EXCEPT !.must = m, !.count = n]
        BY <4>5 DEF owed
      <4> QED
        BY <4>0, <4>6
    <3> QED
      BY <3>0, <3>3
  <2>5. Calls' = [d \in Clients |->
          [Calls[d] EXCEPT !.must = Calls[d].must \ {r},
                           !.count = IF d = c THEN Calls[d].count + 1 ELSE Calls[d].count]]
    <3>1. Calls' = [d \in Clients |-> Calls'[d]]
      BY DEF Calls
    <3> QED
      BY <2>4, <3>1
  <2>6. Calls[c].op = "batch_delete" /\ r \in Calls[c].targets
    BY <1>2, CallFields
  <2>7. Backend!Delete(c)
    BY <2>2, <2>3, <2>5, <2>6 DEF Backend!Delete, Backend!Exists
  <2> QED
    BY <1>5, <1>6, <2>7 DEF Maps, Backend!Next
<1>9. CASE r \notin hashes
  <2>1. Stages' = Stages
    BY <1>1, <1>9, StageSame
  <2>2. ASSUME NEW d \in Clients  PROVE Calls'[d] = Calls[d]
    <3>1. r \notin client[d].must
      <4>1. CASE client[d].op \in Walks
        BY <1>9, <4>1 DEF FInv, WalksOwe, WalkCall
      <4>2. CASE client[d].op \notin Walks
        BY <4>2 DEF FInv, WalksOwe
      <4> QED
        BY <4>1, <4>2
    <3>2. client'[d].must = client[d].must /\ client'[d].count = client[d].count
      <4>1. client'[d].must = client[d].must \ {r}
        BY <1>4
      <4>2. client'[d].count = client[d].count
        BY <1>3, <1>4, <1>9
      <4>3. client[d].must \ {r} = client[d].must
        BY <3>1
      <4> QED
        BY <4>1, <4>2, <4>3
    <3>3. /\ Calls[d].must \ {r} = Calls[d].must /\ client'[d].count = Calls[d].count
      BY <3>1, <3>2, CallFields
    <3>4. Calls'[d] = [op |-> Calls[d].op, scope |-> Calls[d].scope,
                       must |-> Calls[d].must \ {r}, found |-> Calls[d].found,
                       targets |-> Calls[d].targets, count |-> Calls[d].count]
      BY <1>7, <3>3
    <3>5. Calls'[d] = [op |-> Calls[d].op, scope |-> Calls[d].scope, must |-> Calls[d].must,
                       found |-> Calls[d].found, targets |-> Calls[d].targets,
                       count |-> Calls[d].count]
      BY <3>3, <3>4
    <3> QED
      BY <3>5, CallLiteral
  <2>3. Calls' = Calls
    BY <2>2 DEF Calls
  <2> QED
    BY <1>5, <1>6, <2>1, <2>3 DEF Maps, Backend!backend
<1> QED
  BY <1>8, <1>9

LEMMA SremMaps ==
  ASSUME FInv, NEW c \in Clients, srem(c)
  PROVE  Maps
<1> DEFINE me == client[c]
           r  == me.rid
           st == [me EXCEPT !.pc = "del", !.todo = me.todo \ {r}]
<1>1. /\ me \in ClientState /\ me.pc = "srem" /\ ClientTo(c, st)
      /\ ns_set' = [ns_set EXCEPT ![ns_of[r]] = ns_set[ns_of[r]] \ {r}]
      /\ UNCHANGED <<hashes, actor_set, born, returned>>
  BY DEF srem, FInv, RInv, TypeOK, history
<1>2. me.op = "batch_delete" /\ r \in Records /\ r \notin hashes
  BY <1>1 DEF FInv, RInv, ClientShape, DeleteDone, ClientState
<1> HIDE DEF r
<1>3. /\ st \in ClientState /\ st.op = "batch_delete" /\ st.must = me.must
      /\ st.targets = me.targets /\ st.found = me.found /\ st.count = me.count
  BY <1>1, <1>2 DEF ClientState
<1> HIDE DEF st
<1>4. client'[c] = st /\ \A d \in Clients \ {c} : client'[d] = client[d]
  BY <1>1, <1>3, OtherClients DEF FInv, RInv
<1>5. Stages' = Stages /\ Calls' = Calls
  <2>1. Call(st) = Call(me)
    BY <1>2, <1>3 DEF Call, Walks
  <2> QED
    BY <1>1, <1>3, <2>1, StageSame, CallsSame DEF FInv, RInv
<1>6. WalksOwe'
  <2>1. st.must = {}
    BY <1>2, <1>3 DEF FInv, WalksOwe, Walks
  <2> QED
    BY <1>1, <1>3, <2>1, OwesKept DEF FInv, RInv, Walks
<1>7. /\ \A ns \in Namespaces : ns_set'[ns] \in SUBSET ns_set[ns]
      /\ \A q \in Records : q # r /\ InIndexes(q) => InIndexes(q)'
      /\ \A q \in Records : q # r /\ q \in ns_set[ns_of[q]] => q \in ns_set'[ns_of[q]]
  <2>1. \A ns \in Namespaces : /\ ns_set'[ns] \in SUBSET ns_set[ns]
                               /\ ns_set[ns] \in SUBSET (ns_set'[ns] \cup {r})
    BY <1>1, <1>2, SetsTyped DEF FInv, RInv, TypeOK
  <2>2. \A q \in Records : ns_of[q] \in Namespaces
    BY SetsTyped DEF FInv, RInv
  <2> QED
    BY <1>1, <2>1, <2>2 DEF InIndexes
<1>8. Indexed'
  <2>1. returned \subseteq Records
    BY DEF FInv, RInv, TypeOK
  <2>2. \A q \in returned \cap hashes : InIndexes(q)'
    BY <1>2, <1>7, <2>1 DEF FInv, Indexed
  <2>3. ASSUME NEW d \in Clients, client'[d].op = "put", client'[d].rid \in hashes'
        PROVE  /\ client'[d].pc = "sadd_actor" => client'[d].rid \in ns_set'[ns_of[client'[d].rid]]
               /\ client'[d].pc = "return" => InIndexes(client[d].rid)'
    <3>1. d # c
      BY <1>3, <1>4, <2>3
    <3>2. client'[d] = client[d]
      BY <1>4, <3>1
    <3>3. client[d].rid \in Records /\ client[d].rid # r
      BY <1>1, <1>2, <2>3, <3>2 DEF FInv, RInv, ClientShape
    <3> QED
      BY <1>1, <1>7, <2>3, <3>2, <3>3 DEF FInv, Indexed, InIndexes
  <2>4. \A q \in returned' \cap hashes' : InIndexes(q)'
    BY <1>1, <2>2 DEF InIndexes
  <2> QED
    BY <1>1, <1>7, <2>3, <2>4 DEF FInv, Indexed
<1> QED
  BY <1>5, <1>6, <1>8 DEF Maps, Backend!backend

\* A call that ends without a result.
LEMMA EndsKept ==
  ASSUME FInv, NEW c \in Clients, ClientTo(c, IdleClient), UNCHANGED <<redis, born, returned>>
  PROVE  /\ Indexed' /\ WalksOwe' /\ Stages' = Stages
         /\ Calls' = [Calls EXCEPT ![c] = Backend!IdleCall]
<1>1. IdleClient.op = "idle" /\ IdleClient.must = {}
  BY DEF IdleClient
<1>2. UNCHANGED <<hashes, born, returned>>
  BY DEF redis
<1>3. returned' \subseteq born /\ \A r \in returned' \cap hashes : InIndexes(r)
  BY <1>2 DEF FInv, Indexed
<1>4. Indexed'
  BY <1>1, <1>3, IdleTyped, IndexedKept DEF FInv, RInv
<1>5. WalksOwe'
  BY <1>1, <1>2, IdleTyped, OwesKept DEF FInv, RInv, Walks
<1> QED
  BY <1>2, <1>4, <1>5, IdleTyped, IdleCallMaps, CallsTo, StageSame DEF FInv, RInv

LEMMA ReturnDeleteMaps ==
  ASSUME FInv, NEW c \in Clients, ReturnDelete(c)
  PROVE  Maps
<1>1. /\ client[c].pc = "del" /\ client[c].todo = {} /\ ClientTo(c, IdleClient)
      /\ UNCHANGED <<redis, born, returned>>
  BY DEF ReturnDelete
<1>2. client[c].op = "batch_delete"
  BY <1>1 DEF FInv, RInv, ClientShape
<1>3. \A r \in client[c].targets : Stages[r] \notin {"open", "stored"}
  <2>1. client[c].targets \in SUBSET Records
    BY DEF FInv, RInv, TypeOK, ClientState
  <2>2. \A r \in client[c].targets : r \notin hashes
    BY <1>1, <1>2 DEF FInv, RInv, DeleteDone
  <2> QED
    BY <2>1, <2>2, StageFacts
<1>4. /\ Indexed' /\ WalksOwe' /\ Stages' = Stages
      /\ Calls' = [Calls EXCEPT ![c] = Backend!IdleCall]
  BY <1>1, EndsKept
<1>5. Backend!EndDelete(c)
  BY <1>2, <1>3, <1>4, CallFields DEF Backend!EndDelete, Backend!CallTo, Backend!Exists
<1> QED
  BY <1>4, <1>5 DEF Maps, Backend!Next

LEMMA RaiseMaps ==
  ASSUME FInv, NEW c \in Clients, Raise(c)
  PROVE  Maps
<1>1. /\ client[c].op # "idle" /\ ClientTo(c, IdleClient)
      /\ UNCHANGED <<redis, born, returned>>
  BY DEF Raise
<1>2. /\ Indexed' /\ WalksOwe' /\ Stages' = Stages
      /\ Calls' = [Calls EXCEPT ![c] = Backend!IdleCall]
  BY <1>1, EndsKept
<1>3. Backend!Raise(c)
  BY <1>1, <1>2, CallFields DEF Backend!Raise, Backend!CallTo
<1> QED
  BY <1>2, <1>3 DEF Maps, Backend!Next

-----------------------------------------------------------------------------
LEMMA StepMaps == FInv /\ [Next]_vars => Maps
<1> SUFFICES ASSUME FInv, [Next]_vars  PROVE Maps
  OBVIOUS
<1>1. ASSUME NEW c \in Clients, Begin(c)  PROVE Maps
  BY <1>1, HsetMaps, BatchDeleteMaps, ListMaps, ListByActorMaps, RetrieveMaps DEF Begin
<1>2. ASSUME NEW c \in Clients, Step(c)  PROVE Maps
  BY <1>2, SaddNsMaps, SaddActorMaps, ReturnPutMaps, DelMaps, SremMaps, ReturnDeleteMaps,
     GetMaps, NextPageMaps, EndWalkMaps, ReturnWalkMaps DEF Step
<1>3. ASSUME NEW c \in Clients, Raise(c)  PROVE Maps
  BY <1>3, RaiseMaps
<1>4. CASE UNCHANGED vars
  <2>1. UNCHANGED <<hashes, ns_set, actor_set, born, client, returned>>
    BY <1>4 DEF vars, redis, history
  <2>2. Indexed' /\ WalksOwe'
    BY <2>1 DEF FInv, Indexed, InIndexes, WalksOwe, WalkCall, Scope, Behind
  <2>3. Stages' = Stages /\ Calls' = Calls
    BY <2>1 DEF Stages, Stage, Calls, Call, Scope
  <2> QED
    BY <2>2, <2>3 DEF Maps, Backend!backend
<1> QED
  BY <1>1, <1>2, <1>3, <1>4 DEF Next

LEMMA InitMaps == Init => FInv /\ Backend!Init
<1> SUFFICES ASSUME Init  PROVE FInv /\ Backend!Init
  OBVIOUS
<1>1. \A c \in Clients : client[c] = IdleClient
  BY DEF Init
<1>2. IdleClient.op = "idle" /\ IdleClient.must = {}
  BY DEF IdleClient
<1>3. Indexed /\ WalksOwe
  BY <1>1, <1>2 DEF Init, Indexed, WalksOwe, Walks
<1>4. Stages = [r \in Records |-> "absent"]
  BY DEF Init, Stages, Stage
<1>5. Calls = [c \in Clients |-> Backend!IdleCall]
  BY <1>1, IdleCallMaps DEF Calls
<1> QED
  BY <1>3, <1>4, <1>5, RInvInit DEF FInv, Backend!Init

\* The Redis adapter is the backend of the protocol, however the commands of its
\* callers interleave and wherever one raises: a record is deleted and counted
\* once, and a listing, page by page and started over when its cursor is gone,
\* ends with every record stored when it began and not deleted since
\* (redis.py:64-77).
THEOREM RedisImplementsBackend == Spec => ImplementsBackend
<1>1. FInv /\ [Next]_vars => FInv' /\ [Backend!Next]_(Backend!backend)
  BY StepMaps, RInvStep DEF FInv, Maps
<1> QED
  BY <1>1, InitMaps, PTL DEF Spec, ImplementsBackend, Backend!Spec
=============================================================================
