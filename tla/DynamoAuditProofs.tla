------------------------- MODULE DynamoAuditProofs --------------------------
(***************************************************************************)
(* Theorems about DynamoAudit for every number of calls and processes,     *)
(* every budget and every fault.  The argument: a head that a process      *)
(* believes in may be stale but is never invented, so an entry put under   *)
(* the next free sequence number hashes over the entry before it.          *)
(***************************************************************************)
EXTENDS DynamoAudit, TLAPS

RealHead(head) ==
  head = GenesisHead \/ \E n \in DOMAIN chain : head = HeadAt(n)

HeadsReal ==
  /\ \A p \in Processes : \A head \in head_cache[p] : RealHead(head)
  /\ \A c \in Calls : RealHead(held[c])

\* The entry of a call that is about to move the cached head is on the chain.
WonReal ==
  \A c \in Calls : pc[c] = "set" =>
    Next_seq(c) \in DOMAIN chain /\ chain[Next_seq(c)] = EntryOf(c)

\* An attempt is left to a call that can still put its entry, which is not on
\* the chain then.
AttemptsLeft ==
  \A c \in Calls :
    pc[c] \notin {"reread", "returned", "raised"} => tries[c] < Budget

OnceInv ==
  \A c \in Calls \ resent :
    /\ \A m, n \in DOMAIN chain : chain[m].payload = c /\ chain[n].payload = c => m = n
    /\ Recorded(c) => pc[c] \in {"set"} \cup Final /\ tries[c] < Budget

AInv == TypeOK /\ HeadsReal /\ ChainVerifies /\ WonReal /\ AttemptsLeft /\ OnceInv

-----------------------------------------------------------------------------
(* How the chain grows.                                                    *)

Grows ==
  \A n \in DOMAIN chain : n \in DOMAIN chain' /\ chain'[n] = chain[n]

LEMMA EntryShape ==
  ASSUME NEW n \in Int, NEW prev, NEW c
  PROVE  /\ entry(n, prev, c).seq = n + 1
         /\ entry(n, prev, c).payload = c
         /\ entry(n, prev, c).prev_hash = prev
         /\ entry(n, prev, c).entry_hash = _entry_hash(prev, body(n + 1, c))
BY DEF entry

LEMMA ChainEntry ==
  ASSUME TypeOK, NEW n \in DOMAIN chain
  PROVE  /\ n \in Nat /\ chain[n].seq = n /\ chain[n].payload \in Calls
         /\ chain[n].entry_hash = _entry_hash(chain[n].prev_hash, body(n, chain[n].payload))
<1>1. n \in Nat /\ n - 1 \in Int /\ n - 1 + 1 = n
  BY DEF TypeOK
<1>2. chain[n] = entry(n - 1, chain[n].prev_hash, chain[n].payload)
  BY DEF TypeOK
<1> QED
  BY <1>1, <1>2, EntryShape DEF TypeOK

\* What a call puts is the entry after the one its head names.
LEMMA NextSeq ==
  ASSUME AInv, NEW c \in Calls
  PROVE  /\ Next_seq(c) \in Nat
         /\ held[c].seq = Next_seq(c) - 1
         /\ Next_seq(c) = 0 \/ Next_seq(c) - 1 \in DOMAIN chain
         /\ held[c].hash = IF Next_seq(c) = 0 THEN GENESIS
                           ELSE chain[Next_seq(c) - 1].entry_hash
<1>1. CASE held[c] = GenesisHead
  BY <1>1 DEF GenesisHead, Next_seq
<1>2. CASE \E n \in DOMAIN chain : held[c] = HeadAt(n)
  <2>1. PICK n \in DOMAIN chain : held[c] = HeadAt(n)
    BY <1>2
  <2>2. n \in Nat /\ held[c].seq = n /\ held[c].hash = chain[n].entry_hash
    BY <2>1 DEF HeadAt, AInv, TypeOK
  <2>3. Next_seq(c) = n + 1
    BY <2>2 DEF Next_seq
  <2> QED
    BY <2>1, <2>2, <2>3
<1> QED
  BY <1>1, <1>2 DEF AInv, HeadsReal, RealHead

LEMMA HeadStays ==
  ASSUME TypeOK, Grows
  PROVE  \A head : RealHead(head) => RealHead(head)'
<1>1. SUFFICES ASSUME NEW head, RealHead(head)  PROVE RealHead(head)'
  OBVIOUS
<1>2. CASE head = GenesisHead
  BY <1>2 DEF RealHead, GenesisHead
<1>3. CASE \E n \in DOMAIN chain : head = HeadAt(n)
  <2>1. PICK n \in DOMAIN chain : head = HeadAt(n)
    BY <1>3
  <2>2. n \in DOMAIN chain' /\ chain'[n] = chain[n]
    BY DEF Grows
  <2>3. head = HeadAt(n)'
    BY <2>1, <2>2 DEF HeadAt
  <2> QED
    BY <2>2, <2>3 DEF RealHead
<1> QED
  BY <1>1, <1>2, <1>3 DEF RealHead

\* A put adds the entry of its call and changes no other.
LEMMA PutGrows ==
  ASSUME AInv, NEW c \in Calls, PutItem(c)
  PROVE  /\ Grows
         /\ DOMAIN chain' = DOMAIN chain \cup {Next_seq(c)}
         /\ chain'[Next_seq(c)] = EntryOf(c)
BY DEF PutItem, Grows

ChainOK ==
  /\ DOMAIN chain \subseteq Nat
  /\ chain = [n \in DOMAIN chain |-> entry(n - 1, chain[n].prev_hash, chain[n].payload)]
  /\ \A n \in DOMAIN chain : chain[n].payload \in Calls

LEMMA PutTyped ==
  ASSUME AInv, NEW c \in Calls, PutItem(c)
  PROVE  ChainOK'
<1>1. /\ Next_seq(c) \in Nat /\ held[c].seq = Next_seq(c) - 1
      /\ DOMAIN chain' = DOMAIN chain \cup {Next_seq(c)}
      /\ chain'[Next_seq(c)] = EntryOf(c)
      /\ \A n \in DOMAIN chain : chain'[n] = chain[n]
  BY NextSeq, PutGrows DEF Grows
<1>2. EntryOf(c) = entry(Next_seq(c) - 1, EntryOf(c).prev_hash, EntryOf(c).payload)
      /\ EntryOf(c).payload = c
  BY <1>1, EntryShape DEF EntryOf, entry
<1>3. \A n \in DOMAIN chain' : /\ chain'[n].payload \in Calls
                               /\ chain'[n] = entry(n - 1, chain'[n].prev_hash, chain'[n].payload)
  <2>1. SUFFICES ASSUME NEW n \in DOMAIN chain'
                 PROVE  /\ chain'[n].payload \in Calls
                        /\ chain'[n] = entry(n - 1, chain'[n].prev_hash, chain'[n].payload)
    OBVIOUS
  <2>2. CASE n = Next_seq(c)
    BY <1>1, <1>2, <2>2
  <2>3. CASE n \in DOMAIN chain
    <3>1. chain[n] = entry(n - 1, chain[n].prev_hash, chain[n].payload)
          /\ chain[n].payload \in Calls
      BY <2>3 DEF AInv, TypeOK
    <3> QED
      BY <1>1, <2>3, <3>1
  <2> QED
    BY <1>1, <2>2, <2>3
<1>4. chain' = [n \in DOMAIN chain' |-> chain'[n]]
  BY DEF PutItem
<1>5. DOMAIN chain' \subseteq Nat
  BY <1>1 DEF AInv, TypeOK
<1> QED
  BY <1>3, <1>4, <1>5 DEF ChainOK

LEMMA PutVerifies ==
  ASSUME AInv, NEW c \in Calls, PutItem(c)
  PROVE  ChainVerifies'
<1>1. /\ Next_seq(c) \in Nat /\ held[c].seq = Next_seq(c) - 1
      /\ Next_seq(c) = 0 \/ Next_seq(c) - 1 \in DOMAIN chain
      /\ held[c].hash = IF Next_seq(c) = 0 THEN GENESIS ELSE chain[Next_seq(c) - 1].entry_hash
      /\ DOMAIN chain' = DOMAIN chain \cup {Next_seq(c)}
      /\ chain'[Next_seq(c)] = EntryOf(c)
      /\ \A n \in DOMAIN chain : chain'[n] = chain[n]
  BY NextSeq, PutGrows DEF Grows
<1>2. \A n \in DOMAIN chain' : n = 0 \/ n - 1 \in DOMAIN chain'
  BY <1>1 DEF AInv, ChainVerifies
<1>3. SUFFICES ASSUME NEW i \in DOMAIN chain'  PROVE ~BadEntry(chain', i)
  BY <1>2 DEF ChainVerifies, verify
<1>4. CASE i = Next_seq(c)
  <2>1. /\ chain'[i].seq = i /\ chain'[i].payload = c /\ chain'[i].prev_hash = held[c].hash
        /\ chain'[i].entry_hash = _entry_hash(held[c].hash, body(i, c))
    BY <1>1, <1>4, EntryShape DEF EntryOf
  <2>2. held[c].hash = PrevHash(chain', i)
    BY <1>1, <1>4 DEF PrevHash
  <2> QED
    BY <2>1, <2>2 DEF BadEntry
<1>5. CASE i \in DOMAIN chain
  <2>1. ~BadEntry(chain, i)
    BY <1>5 DEF AInv, ChainVerifies, verify
  <2>2. chain'[i] = chain[i] /\ PrevHash(chain', i) = PrevHash(chain, i)
    BY <1>1, <1>5 DEF AInv, ChainVerifies, PrevHash
  <2> QED
    BY <2>1, <2>2 DEF BadEntry
<1> QED
  BY <1>1, <1>4, <1>5

\* The head a query answers may be stale; it is never invented.
LEMMA ReadReal ==
  \A head \in ReadableHeads : RealHead(head)
BY DEF ReadableHeads, RealHead

-----------------------------------------------------------------------------
(* Every action preserves the invariant.                                   *)

LEMMA InitInv == Init => AInv
<1> SUFFICES ASSUME Init  PROVE AInv
  OBVIOUS
<1>2. DOMAIN chain = {}
  <2>1. chain = [n \in {} |-> GENESIS]
    BY DEF Init
  <2> QED
    BY <2>1
<1>3. TypeOK
  <2>1. chain = [n \in DOMAIN chain |-> entry(n - 1, chain[n].prev_hash, chain[n].payload)]
    BY <1>2 DEF Init
  <2>2. DOMAIN chain \subseteq Nat /\ \A n \in DOMAIN chain : chain[n].payload \in Calls
    BY <1>2
  <2>3. /\ head_cache = [p \in Processes |-> head_cache[p]]
        /\ held = [c \in Calls |-> held[c]]
        /\ resent \subseteq Calls
    BY DEF Init
  <2>4. pc \in [Calls -> {"start"} \cup Running \cup Final]
    BY DEF Init
  <2>5. tries \in [Calls -> 0..Budget]
    BY CallsAssumption DEF Init
  <2> QED
    BY <2>1, <2>2, <2>3, <2>4, <2>5 DEF TypeOK
<1>4. HeadsReal /\ WonReal /\ AttemptsLeft
  <2>1. HeadsReal
    BY CallsAssumption DEF Init, HeadsReal, RealHead
  <2>2. WonReal
    BY DEF Init, WonReal
  <2>3. AttemptsLeft
    BY CallsAssumption DEF Init, AttemptsLeft
  <2> QED
    BY <2>1, <2>2, <2>3
<1>5. ChainVerifies /\ OnceInv
  BY <1>2 DEF ChainVerifies, verify, OnceInv, Recorded
<1> QED
  BY <1>3, <1>4, <1>5 DEF AInv

\* A step that leaves the table alone.
LEMMA Quiet ==
  ASSUME AInv, UNCHANGED table
  PROVE  ChainOK' /\ ChainVerifies' /\ Grows
BY DEF AInv, TypeOK, ChainOK, ChainVerifies, verify, Grows, table, BadEntry, PrevHash

LEMMA CacheReal ==
  ASSUME AInv, Grows, NEW c \in Calls, NEW head, RealHead(head)', CacheHead(c, head)
  PROVE  /\ head_cache' = [p \in Processes |-> head_cache'[p]]
         /\ \A p \in Processes : \A h \in head_cache'[p] : RealHead(h)'
<1>1. \A p \in Processes : \A h \in head_cache[p] : RealHead(h)'
  BY HeadStays DEF AInv, HeadsReal
<1>2. head_cache = [p \in Processes |-> head_cache[p]]
  BY DEF AInv, TypeOK
<1> QED
  BY <1>1, <1>2 DEF CacheHead

\* Starting, reading the head and giving up: only places and caches change.
LEMMA GotoInv ==
  ASSUME AInv, NEW c \in Calls, NEW place \in Running \cup Final,
         Goto(c, place), UNCHANGED <<table, local>>,
         place # "set",
         place \notin {"reread", "returned", "raised"} => tries[c] < Budget,
         pc[c] \in {"set", "returned", "raised"} => place \in {"set", "returned", "raised"},
         head_cache' = [p \in Processes |-> head_cache'[p]],
         \A p \in Processes : \A h \in head_cache'[p] : RealHead(h)'
  PROVE  AInv'
<1>1. ChainOK' /\ ChainVerifies' /\ Grows
  BY Quiet
<1>2. chain' = chain /\ resent' = resent /\ held' = held /\ tries' = tries
  BY DEF table, local
<1>3. pc \in [Calls -> {"start"} \cup Running \cup Final]
  BY DEF AInv, TypeOK
<1>4. TypeOK'
  BY <1>1, <1>2, <1>3 DEF AInv, TypeOK, ChainOK, Goto
<1>5. HeadsReal'
  BY <1>1, <1>2, HeadStays DEF AInv, HeadsReal
<1>6. WonReal'
  BY <1>2, <1>3 DEF AInv, WonReal, Goto, Next_seq, EntryOf
<1>7. AttemptsLeft'
  BY <1>2, <1>3 DEF AInv, AttemptsLeft, Goto
<1>8. OnceInv'
  BY <1>2, <1>3 DEF AInv, OnceInv, Goto, Recorded, Final
<1> QED
  BY <1>1, <1>4, <1>5, <1>6, <1>7, <1>8 DEF AInv

\* Caches that do not change still hold real heads.
LEMMA SameCache ==
  ASSUME AInv, Grows, UNCHANGED head_cache
  PROVE  /\ head_cache' = [p \in Processes |-> head_cache'[p]]
         /\ \A p \in Processes : \A h \in head_cache'[p] : RealHead(h)'
BY HeadStays DEF AInv, HeadsReal, TypeOK

LEMMA StartInv ==
  ASSUME AInv, NEW c \in Calls, Start(c)  PROVE AInv'
<1>1. UNCHANGED <<table, local>> /\ UNCHANGED head_cache /\ Goto(c, "head") /\ pc[c] = "start"
  BY DEF Start
<1>2. tries[c] < Budget
  BY <1>1 DEF AInv, AttemptsLeft
<1> QED
  BY <1>1, <1>2, Quiet, SameCache, GotoInv DEF Running

LEMMA ReadHeadInv ==
  ASSUME AInv, NEW c \in Calls, ReadHead(c)  PROVE AInv'
<1>1. UNCHANGED <<table, local>> /\ Goto(c, "load") /\ pc[c] = "head"
  BY DEF ReadHead
<1>2. PICK head \in ReadableHeads : CacheHead(c, head)
  BY DEF ReadHead
<1>3. Grows /\ RealHead(head)'
  BY <1>1, ReadReal, HeadStays, Quiet DEF AInv
<1>4. tries[c] < Budget
  BY <1>1 DEF AInv, AttemptsLeft
<1> QED
  BY <1>1, <1>2, <1>3, <1>4, CacheReal, GotoInv DEF Running

LEMMA RereadInv ==
  ASSUME AInv, NEW c \in Calls, Reread(c)  PROVE AInv'
<1>1. UNCHANGED <<table, local>> /\ pc[c] = "reread"
      /\ Goto(c, IF tries[c] < Budget THEN "load" ELSE "raised")
  BY DEF Reread
<1>2. PICK head \in ReadableHeads : CacheHead(c, head)
  BY DEF Reread
<1>3. Grows /\ RealHead(head)'
  BY <1>1, ReadReal, HeadStays, Quiet DEF AInv
<1> QED
  BY <1>1, <1>2, <1>3, CacheReal, GotoInv DEF Running, Final

LEMMA RequestRaisesInv ==
  ASSUME AInv, NEW c \in Calls, RequestRaises(c)  PROVE AInv'
<1>1. UNCHANGED <<table, local>> /\ UNCHANGED head_cache /\ Goto(c, "raised")
  BY DEF RequestRaises
<1> QED
  BY <1>1, Quiet, SameCache, GotoInv DEF Final

LEMMA SetHeadInv ==
  ASSUME AInv, NEW c \in Calls, SetHead(c)  PROVE AInv'
<1>1. UNCHANGED <<table, local>> /\ Goto(c, "returned") /\ pc[c] = "set"
      /\ CacheHead(c, [seq |-> Next_seq(c), hash |-> EntryOf(c).entry_hash])
  BY DEF SetHead
<1>2. Next_seq(c) \in DOMAIN chain /\ chain[Next_seq(c)] = EntryOf(c)
  BY <1>1 DEF AInv, WonReal
<1>3. RealHead([seq |-> Next_seq(c), hash |-> EntryOf(c).entry_hash])
  BY <1>2 DEF RealHead, HeadAt
<1>4. Grows /\ RealHead([seq |-> Next_seq(c), hash |-> EntryOf(c).entry_hash])'
  <2>1. Grows
    BY <1>1, Quiet
  <2>2. Next_seq(c)' = Next_seq(c) /\ EntryOf(c)' = EntryOf(c)
    BY <1>1 DEF local, Next_seq, EntryOf
  <2> QED
    BY <1>3, <2>1, <2>2, HeadStays DEF AInv
<1>5. PICK head : head = [seq |-> Next_seq(c), hash |-> EntryOf(c).entry_hash]
  OBVIOUS
<1>6. RealHead(head)' /\ CacheHead(c, head)
  BY <1>1, <1>3, <1>4, <1>5, HeadStays DEF AInv
<1> QED
  BY <1>1, <1>4, <1>6, CacheReal, GotoInv DEF Final

LEMMA LoadInv ==
  ASSUME AInv, NEW c \in Calls, Load(c)  PROVE AInv'
<1>1. PICK head \in head_cache[home[c]] : held' = [held EXCEPT ![c] = head]
  BY DEF Load
<1>2. /\ UNCHANGED table /\ UNCHANGED head_cache /\ tries' = tries
      /\ pc[c] \in {"start", "load"} /\ pc' = [pc EXCEPT ![c] = "put"]
  BY DEF Load, Goto
<1>3. ChainOK' /\ ChainVerifies' /\ Grows
  BY <1>2, Quiet
<1>4. /\ head_cache' = [p \in Processes |-> head_cache'[p]]
      /\ \A p \in Processes : \A h \in head_cache'[p] : RealHead(h)'
  BY <1>2, <1>3, SameCache
<1>5. chain' = chain /\ resent' = resent
  BY <1>2 DEF table
<1>6. /\ pc \in [Calls -> {"start"} \cup Running \cup Final]
      /\ held = [b \in Calls |-> held[b]]
  BY DEF AInv, TypeOK
<1>7. TypeOK'
  BY <1>1, <1>2, <1>3, <1>4, <1>5, <1>6 DEF AInv, TypeOK, ChainOK, Running
<1>8. HeadsReal'
  <2>1. RealHead(head)
    BY CallsAssumption DEF AInv, HeadsReal
  <2>2. \A b \in Calls : RealHead(held'[b])
    BY <1>1, <1>6, <2>1 DEF AInv, HeadsReal
  <2>3. \A b \in Calls : RealHead(held[b])'
    BY <1>5, <2>2 DEF RealHead, HeadAt, GenesisHead
  <2> QED
    BY <1>4, <2>3 DEF HeadsReal
<1>9. WonReal'
  BY <1>1, <1>2, <1>5, <1>6 DEF AInv, WonReal, Next_seq, EntryOf
<1>10. AttemptsLeft'
  BY <1>2, <1>6 DEF AInv, AttemptsLeft
<1>11. OnceInv'
  BY <1>2, <1>5, <1>6 DEF AInv, OnceInv, Recorded, Final
<1> QED
  BY <1>3, <1>7, <1>8, <1>9, <1>10, <1>11 DEF AInv

LEMMA ConflictInv ==
  ASSUME AInv, NEW c \in Calls, Conflict(c)  PROVE AInv'
<1>1. /\ UNCHANGED table /\ UNCHANGED head_cache /\ held' = held /\ pc[c] = "put"
      /\ pc' = [pc EXCEPT ![c] = "reread"] /\ tries' = [tries EXCEPT ![c] = @ + 1]
  BY DEF Conflict, Goto
<1>2. ChainOK' /\ ChainVerifies' /\ Grows
  BY <1>1, Quiet
<1>3. /\ head_cache' = [p \in Processes |-> head_cache'[p]]
      /\ \A p \in Processes : \A h \in head_cache'[p] : RealHead(h)'
  BY <1>1, <1>2, SameCache
<1>4. chain' = chain /\ resent' = resent
  BY <1>1 DEF table
<1>5. /\ pc \in [Calls -> {"start"} \cup Running \cup Final]
      /\ tries \in [Calls -> 0..Budget] /\ Budget \in Nat /\ tries[c] < Budget
  BY <1>1, CallsAssumption DEF AInv, TypeOK, AttemptsLeft
<1>6. TypeOK'
  <2>1. tries' \in [Calls -> 0..Budget]
    BY <1>1, <1>5
  <2>2. pc' \in [Calls -> {"start"} \cup Running \cup Final]
    BY <1>1, <1>5 DEF Running
  <2> QED
    BY <1>1, <1>2, <1>3, <1>4, <2>1, <2>2 DEF AInv, TypeOK, ChainOK
<1>7. HeadsReal'
  BY <1>1, <1>2, <1>3, HeadStays DEF AInv, HeadsReal
<1>8. WonReal'
  BY <1>1, <1>4, <1>5 DEF AInv, WonReal, Next_seq, EntryOf
<1>9. AttemptsLeft'
  BY <1>1, <1>5 DEF AInv, AttemptsLeft
<1>10. OnceInv'
  <2>1. \A b \in Calls \ resent : Recorded(b) => b # c
    BY <1>1 DEF AInv, OnceInv, Final
  <2> QED
    BY <1>1, <1>4, <1>5, <2>1 DEF AInv, OnceInv, Recorded, Final
<1> QED
  BY <1>2, <1>6, <1>7, <1>8, <1>9, <1>10 DEF AInv

\* The steps that append: the call is not on the chain before, unless its put
\* was sent again.
LEMMA AppendInv ==
  ASSUME AInv, NEW c \in Calls, PutItem(c), UNCHANGED <<head_cache, local>>,
         NEW place \in {"set", "raised"},
         \/ resent' = resent /\ Goto(c, place)
         \/ resent' = resent \cup {c} /\ UNCHANGED pc
  PROVE  AInv'
<1>1. held' = held /\ tries' = tries /\ UNCHANGED head_cache /\ pc[c] = "put"
  BY DEF local, PutItem
<1>2. /\ Grows /\ DOMAIN chain' = DOMAIN chain \cup {Next_seq(c)}
      /\ chain'[Next_seq(c)] = EntryOf(c) /\ EntryOf(c).payload = c
  BY PutGrows, NextSeq, EntryShape DEF EntryOf, entry
<1>3. ChainOK' /\ ChainVerifies'
  BY PutTyped, PutVerifies
<1>4. /\ head_cache' = [p \in Processes |-> head_cache'[p]]
      /\ \A p \in Processes : \A h \in head_cache'[p] : RealHead(h)'
  BY <1>1, <1>2, SameCache
<1>5. /\ pc \in [Calls -> {"start"} \cup Running \cup Final] /\ resent \subseteq Calls
      /\ tries[c] < Budget
  BY <1>1 DEF AInv, TypeOK, AttemptsLeft
<1>6. /\ pc' \in [Calls -> {"start"} \cup Running \cup Final] /\ resent' \subseteq Calls
      /\ \A b \in Calls : b # c => pc'[b] = pc[b]
      /\ resent \subseteq resent'
      /\ c \in resent' \/ pc'[c] \in {"set", "raised"}
      /\ pc'[c] \in {"put", "set", "raised"}
  BY <1>1, <1>5 DEF Goto, Running, Final
<1>7. TypeOK'
  BY <1>1, <1>3, <1>4, <1>6 DEF AInv, TypeOK, ChainOK
<1>8. HeadsReal'
  BY <1>1, <1>2, <1>4, HeadStays DEF AInv, HeadsReal
<1>9. WonReal'
  <2>1. \A b \in Calls : Next_seq(b)' = Next_seq(b) /\ EntryOf(b)' = EntryOf(b)
    BY <1>1 DEF Next_seq, EntryOf
  <2> QED
    BY <1>1, <1>2, <1>6, <2>1 DEF AInv, WonReal, Grows
<1>10. AttemptsLeft'
  BY <1>1, <1>5, <1>6 DEF AInv, AttemptsLeft
<1>11. OnceInv'
  <2>1. SUFFICES ASSUME NEW b \in Calls \ resent'
        PROVE  /\ \A m, n \in DOMAIN chain' :
                    chain'[m].payload = b /\ chain'[n].payload = b => m = n
               /\ Recorded(b)' => pc'[b] \in {"set"} \cup Final /\ tries[b] < Budget
    BY <1>1 DEF OnceInv
  <2>2. b \in Calls \ resent
    BY <1>6
  <2>3. CASE b = c
    <3>1. \A n \in DOMAIN chain : chain[n].payload # c
      BY <1>1, <2>2, <2>3 DEF AInv, OnceInv, Recorded, Final
    <3>2. \A n \in DOMAIN chain' : chain'[n].payload = c => n = Next_seq(c)
      BY <1>2, <3>1 DEF Grows
    <3> QED
      BY <1>5, <1>6, <2>3, <3>2 DEF Final
  <2>4. CASE b # c
    <3>1. \A n \in DOMAIN chain' :
            chain'[n].payload = b => n \in DOMAIN chain /\ chain[n].payload = b
      BY <1>2, <2>4 DEF Grows
    <3>2. Recorded(b)' => Recorded(b)
      BY <3>1 DEF Recorded
    <3> QED
      BY <1>6, <2>2, <2>4, <3>1, <3>2 DEF AInv, OnceInv
  <2> QED
    BY <2>3, <2>4
<1> QED
  BY <1>3, <1>7, <1>8, <1>9, <1>10, <1>11 DEF AInv

LEMMA CrashInv ==
  ASSUME AInv, NEW p \in Processes, Crash(p)  PROVE AInv'
<1>1. /\ UNCHANGED table /\ held' = held /\ tries' = tries
      /\ head_cache' = [head_cache EXCEPT ![p] = {}]
      /\ pc' = [c \in Calls |-> IF home[c] = p /\ pc[c] \in Running THEN "raised" ELSE pc[c]]
  BY DEF Crash, local
<1>2. ChainOK' /\ ChainVerifies' /\ Grows
  BY <1>1, Quiet
<1>3. chain' = chain /\ resent' = resent
  BY <1>1 DEF table
<1>4. /\ head_cache = [q \in Processes |-> head_cache[q]]
      /\ pc \in [Calls -> {"start"} \cup Running \cup Final]
  BY DEF AInv, TypeOK
<1>5. head_cache' = [q \in Processes |-> head_cache'[q]]
      /\ \A q \in Processes : head_cache'[q] \subseteq head_cache[q]
  BY <1>1, <1>4
<1>6. pc' \in [Calls -> {"start"} \cup Running \cup Final]
      /\ \A c \in Calls : pc'[c] = pc[c] \/ pc'[c] = "raised"
  BY <1>1, <1>4 DEF Final
<1>7. TypeOK'
  BY <1>1, <1>2, <1>3, <1>5, <1>6 DEF AInv, TypeOK, ChainOK
<1>8. HeadsReal'
  BY <1>1, <1>2, <1>5, HeadStays DEF AInv, HeadsReal
<1>9. WonReal'
  BY <1>1, <1>3, <1>6 DEF AInv, WonReal, Next_seq, EntryOf
<1>10. AttemptsLeft'
  BY <1>1, <1>6 DEF AInv, AttemptsLeft
<1>11. OnceInv'
  BY <1>1, <1>3, <1>6 DEF AInv, OnceInv, Recorded, Final
<1> QED
  BY <1>2, <1>7, <1>8, <1>9, <1>10, <1>11 DEF AInv

LEMMA StutterInv ==
  ASSUME AInv, UNCHANGED vars  PROVE AInv'
<1>1. /\ chain' = chain /\ head_cache' = head_cache /\ pc' = pc
      /\ held' = held /\ tries' = tries /\ resent' = resent
  BY DEF vars, table, local
<1>2. ChainOK' /\ ChainVerifies' /\ Grows
  BY <1>1, Quiet DEF table
<1> QED
  BY <1>1, <1>2, HeadStays
  DEF AInv, TypeOK, HeadsReal, WonReal, AttemptsLeft, OnceInv, Recorded,
      Next_seq, EntryOf, ChainOK

LEMMA NextInv == AInv /\ [Next]_vars => AInv'
<1> SUFFICES ASSUME AInv, [Next]_vars  PROVE AInv'
  OBVIOUS
<1>1. ASSUME NEW c \in Calls, Step(c)  PROVE AInv'
  <2>1. CASE Put(c)
    BY <2>1, AppendInv DEF Put, table, local
  <2> QED
    BY <1>1, <2>1, StartInv, ReadHeadInv, LoadInv, ConflictInv, RereadInv, SetHeadInv DEF Step
<1>2. ASSUME NEW c \in Calls, Fault(c)  PROVE AInv'
  <2>1. CASE PutResent(c)
    BY <2>1, AppendInv DEF PutResent
  <2>2. CASE PutRaises(c)
    BY <2>2, AppendInv DEF PutRaises
  <2> QED
    BY <1>2, <2>1, <2>2, RequestRaisesInv DEF Fault
<1> QED
  BY <1>1, <1>2, CrashInv, StutterInv DEF Next

LEMMA AlwaysAInv == Spec => []AInv
  BY InitInv, NextInv, PTL DEF Spec

-----------------------------------------------------------------------------
(* Theorems.                                                               *)

\* Sequence numbers, entries, places and conflict counts keep their types, for
\* any calls, processes, budget and faults (dynamo.py:181-214).
THEOREM AuditTypeCorrect == Spec => []TypeOK
<1>1. AInv => TypeOK
  BY DEF AInv
<1> QED
  BY <1>1, AlwaysAInv, PTL

\* The audit table replays in every state: no gap and every entry hashed over the
\* one before it, however stale the heads the appending processes believed in
\* and whatever failed on the way (dynamo.py:181-214, audit.py:74-82).
THEOREM ChainAlwaysVerifies == Spec => []ChainVerifies
<1>1. AInv => ChainVerifies
  BY DEF AInv
<1> QED
  BY <1>1, AlwaysAInv, PTL

\* A call is on the chain at most once, and not at all if it used up its attempts,
\* unless the SDK resent a put that had taken effect (dynamo.py:184-214).
THEOREM AppendsOnce == Spec => []RecordedOnce
<1>1. AInv => RecordedOnce
  BY DEF AInv, OnceInv, RecordedOnce
<1> QED
  BY <1>1, AlwaysAInv, PTL

\* The end of the log that AuditLog speaks of is where a call puts its entry.
LEMMA PutAtEnd ==
  ASSUME AInv, NEW c \in Calls, PutItem(c)
  PROVE  /\ Log!IsEnd(Next_seq(c)) /\ status[c] = "open"
         /\ Next_seq(c) \in {0} \cup {m + 1 : m \in DOMAIN log}
         /\ log' = [m \in DOMAIN log \cup {Next_seq(c)} |-> IF m = Next_seq(c) THEN c ELSE log[m]]
<1>1. DOMAIN log = DOMAIN chain /\ \A n \in DOMAIN chain : log[n] = chain[n].payload
  BY DEF log
<1>2. /\ Next_seq(c) \in Nat
      /\ Next_seq(c) = 0 \/ Next_seq(c) - 1 \in DOMAIN chain
      /\ Next_seq(c) \notin DOMAIN chain
  BY NextSeq DEF PutItem
<1>3. Log!IsEnd(Next_seq(c))
  BY <1>1, <1>2 DEF Log!IsEnd
<1>4. status[c] = "open"
  BY DEF PutItem, status, Final
<1>5. Next_seq(c) \in {0} \cup {m + 1 : m \in DOMAIN log}
  BY <1>1, <1>2
<1>6. /\ Grows /\ DOMAIN chain' = DOMAIN chain \cup {Next_seq(c)}
      /\ chain'[Next_seq(c)].payload = c
  <2>1. EntryOf(c).payload = c
    BY DEF EntryOf, entry
  <2> QED
    BY <2>1, PutGrows
<1>7. log' = [n \in DOMAIN chain' |-> chain'[n].payload]
  BY DEF log
<1>8. log' = [m \in DOMAIN log \cup {Next_seq(c)} |-> IF m = Next_seq(c) THEN c ELSE log[m]]
  BY <1>1, <1>6, <1>7 DEF Grows
<1> QED
  BY <1>3, <1>4, <1>5, <1>8

LEMMA InitLogged == Init => Log!LogInit
<1> SUFFICES ASSUME Init  PROVE Log!LogInit
  OBVIOUS
<1>1. chain = [n \in {} |-> GENESIS]
  BY DEF Init
<1>2. DOMAIN chain = {}
  BY <1>1
<1>3. log = [n \in {} |-> 0]
  <2>1. log = [n \in DOMAIN chain |-> chain[n].payload]
    BY DEF log
  <2>2. DOMAIN log = {}
    BY <1>2, <2>1
  <2> QED
    BY <1>2, <2>1, <2>2
<1>4. status = [c \in Calls |-> "open"]
  BY DEF Init, status, Final
<1> QED
  BY <1>3, <1>4 DEF Log!LogInit

\* A step of a call that ends nothing and appends nothing.
LEMMA UnseenStep ==
  ASSUME NEW c \in Calls, TypeOK, chain' = chain, NEW place,
         Goto(c, place), pc[c] \notin Final, place \notin Final
  PROVE  UNCHANGED Log!logvars
<1>1. log' = log
  BY DEF log
<1>2. status' = status
  BY DEF status, Goto, TypeOK
<1> QED
  BY <1>1, <1>2 DEF Log!logvars

LEMMA RaiseStep ==
  ASSUME NEW c \in Calls, TypeOK, chain' = chain, Goto(c, "raised"), pc[c] \notin Final
  PROVE  Log!LogRaise({c})
<1>1. log' = log
  BY DEF log
<1>2. status' = [b \in Calls |-> IF b \in {c} THEN "raised" ELSE status[b]]
  BY DEF status, Goto, TypeOK, Final
<1>3. status[c] = "open"
  BY DEF status
<1> QED
  BY <1>1, <1>2, <1>3 DEF Log!LogRaise

LEMMA StepLogged ==
  ASSUME AInv, NEW c \in Calls, Step(c)  PROVE [Log!LogNext]_(Log!logvars)
<1> USE DEF AInv
<1>1. CASE Start(c)
  BY <1>1, UnseenStep DEF Start, table, Final
<1>2. CASE ReadHead(c)
  BY <1>2, UnseenStep DEF ReadHead, table, Final
<1>3. CASE Load(c)
  BY <1>3, UnseenStep DEF Load, table, Final
<1>4. CASE Put(c)
  <2>1. PutItem(c) /\ Goto(c, "set") /\ pc[c] = "put"
    BY <1>4 DEF Put, PutItem
  <2>2. status' = status
    BY <2>1 DEF status, Goto, TypeOK, Final
  <2>3. Log!Record(c, Next_seq(c))
    BY <2>1, <2>2, PutAtEnd DEF Log!Record
  <2> QED
    BY <2>1, <2>3, PutAtEnd DEF Log!LogNext
<1>5. CASE Conflict(c)
  BY <1>5, UnseenStep DEF Conflict, table, Final
<1>6. CASE Reread(c)
  <2>1. pc[c] = "reread" /\ chain' = chain
    BY <1>6 DEF Reread, table
  <2>2. CASE tries[c] < Budget
    BY <1>6, <2>1, <2>2, UnseenStep DEF Reread, Final
  <2>3. CASE ~(tries[c] < Budget)
    <3>1. Log!LogRaise({c})
      BY <1>6, <2>1, <2>3, RaiseStep DEF Reread, Final
    <3> QED
      BY <3>1 DEF Log!LogNext
  <2> QED
    BY <2>2, <2>3
<1>7. CASE SetHead(c)
  <2>1. pc[c] = "set" /\ chain' = chain /\ Goto(c, "returned")
    BY <1>7 DEF SetHead, table
  <2>2. Next_seq(c) \in DOMAIN log /\ log[Next_seq(c)] = c
    <3>1. Next_seq(c) \in DOMAIN chain /\ chain[Next_seq(c)] = EntryOf(c)
      BY <2>1 DEF WonReal
    <3>2. EntryOf(c).payload = c
      BY NextSeq, EntryShape DEF EntryOf, entry
    <3> QED
      BY <3>1, <3>2 DEF log
  <2>3. log' = log
    BY <2>1 DEF log
  <2>4. status[c] = "open" /\ status' = [status EXCEPT ![c] = "returned"]
    BY <2>1 DEF status, Goto, TypeOK, Final
  <2>5. Log!LogReturn(c)
    BY <2>2, <2>3, <2>4 DEF Log!LogReturn
  <2> QED
    BY <2>5 DEF Log!LogNext
<1> QED
  BY <1>1, <1>2, <1>3, <1>4, <1>5, <1>6, <1>7 DEF Step

LEMMA FaultLogged ==
  ASSUME AInv, NEW c \in Calls, Fault(c)  PROVE [Log!LogNext]_(Log!logvars)
<1> USE DEF AInv
<1>1. CASE PutResent(c)
  <2>1. PutItem(c) /\ status' = status
    BY <1>1 DEF PutResent, status
  <2>2. Log!Record(c, Next_seq(c))
    BY <2>1, PutAtEnd DEF Log!Record
  <2> QED
    BY <2>1, <2>2, PutAtEnd DEF Log!LogNext
<1>2. CASE PutRaises(c)
  <2>1. PutItem(c) /\ Goto(c, "raised")
    BY <1>2 DEF PutRaises
  <2>2. status' = [status EXCEPT ![c] = "raised"]
    BY <2>1 DEF status, Goto, TypeOK, Final
  <2>3. Log!LogRecordRaise(c, Next_seq(c))
    BY <2>1, <2>2, PutAtEnd DEF Log!LogRecordRaise
  <2> QED
    BY <2>1, <2>3, PutAtEnd DEF Log!LogNext
<1>3. CASE RequestRaises(c)
  <2>1. Log!LogRaise({c})
    BY <1>3, RaiseStep DEF RequestRaises, table, Final
  <2> QED
    BY <2>1 DEF Log!LogNext
<1> QED
  BY <1>1, <1>2, <1>3 DEF Fault

LEMMA CrashLogged ==
  ASSUME AInv, NEW p \in Processes, Crash(p)  PROVE Log!LogNext
<1> DEFINE killed == {c \in Calls : home[c] = p /\ pc[c] \in Running}
<1>1. log' = log
  BY DEF Crash, table, log
<1>2. \A c \in killed : status[c] = "open"
  BY DEF status, Running, Final
<1>3. status' = [c \in Calls |-> IF c \in killed THEN "raised" ELSE status[c]]
  BY DEF Crash, status, Final
<1>4. Log!LogRaise(killed)
  BY <1>1, <1>2, <1>3 DEF Log!LogRaise
<1> QED
  BY <1>4 DEF Log!LogNext

\* What the callers see of audit_append is the log of AuditLog: it grows at its
\* end only, a call that returned is on it, and only a call still under way is
\* ever added (dynamo.py:181-214).
THEOREM LogImplemented == Spec => ImplementsLog
<1>1. AInv /\ [Next]_vars => [Log!LogNext]_(Log!logvars)
  <2> SUFFICES ASSUME AInv, [Next]_vars  PROVE [Log!LogNext]_(Log!logvars)
    OBVIOUS
  <2>1. CASE UNCHANGED vars
    BY <2>1 DEF vars, table, log, status, Log!logvars
  <2> QED
    BY <2>1, StepLogged, FaultLogged, CrashLogged DEF Next
<1> QED
  BY <1>1, InitLogged, AlwaysAInv, PTL DEF Spec, ImplementsLog, Log!LogSpec
=============================================================================
