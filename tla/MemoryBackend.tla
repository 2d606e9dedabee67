--------------------------- MODULE MemoryBackend ----------------------------
(***************************************************************************)
(* What the interceptor, the scanner and the jobs may rely on in a memory  *)
(* backend (memwarden/backends/base.py, tests/test_conformance.py), stated *)
(* for callers that work on it at the same time.  A record is deleted once *)
(* and then gone; a walk finds every record that was stored when it began  *)
(* and was not deleted meanwhile, and none that never was.                 *)
(***************************************************************************)
EXTENDS Naturals, FiniteSets

CONSTANTS
  Records,     \* the ids a backend can give, ordered like strings
  Clients,
  ns_of,       \* [Records -> namespaces]
  actor_of,    \* [Records -> actors]
  overlap,     \* words a record shares with the query of the instance
  k            \* how many records retrieve() returns at most

VARIABLES
  stage,       \* of a record: "absent", "open" inside put(), "stored", "deleted"
  call         \* per client, the call it is in

backend == <<stage, call>>

IdleCall ==
  [op |-> "idle", scope |-> {}, must |-> {}, found |-> {}, targets |-> {}, count |-> 0]

Init ==
  /\ stage = [r \in Records |-> "absent"]
  /\ call  = [c \in Clients |-> IdleCall]

\* What a walk is to look at: a namespace, or what is known of an actor.
Scope(op, key) ==
  {r \in Records : IF op = "list_by_actor" THEN actor_of[r] = key ELSE ns_of[r] = key}

Exists(r) == stage[r] \in {"open", "stored"}

\* retrieve() prefers the records that share more words with the query.
Better(r, q) == overlap[r] > overlap[q] \/ (overlap[r] = overlap[q] /\ r < q)

Top(found) == {r \in found : Cardinality({q \in found : Better(q, r)}) < k}

CallTo(c, st) == call' = [call EXCEPT ![c] = st]

BeginPut(c) ==
  /\ call[c].op = "idle"
  /\ \E r \in Records :
       /\ stage[r] = "absent"
       /\ stage' = [stage EXCEPT ![r] = "open"]
       /\ CallTo(c, [IdleCall EXCEPT !.op = "put", !.targets = {r}])

\* Another caller may have found the record already, and deleted it.
EndPut(c) ==
  /\ call[c].op = "put"
  /\ stage' = [r \in Records |->
       IF r \in call[c].targets /\ stage[r] = "open" THEN "stored" ELSE stage[r]]
  /\ CallTo(c, IdleCall)

BeginDelete(c) ==
  /\ call[c].op = "idle"
  /\ \E rids \in SUBSET Records :
       CallTo(c, [IdleCall EXCEPT !.op = "batch_delete", !.targets = rids])
  /\ UNCHANGED stage

\* One of the calls in flight gets to count the record, and no walk owes it.
Delete(c) ==
  /\ call[c].op = "batch_delete"
  /\ \E r \in call[c].targets :
       /\ Exists(r)
       /\ stage' = [stage EXCEPT ![r] = "deleted"]
       /\ call' = [d \in Clients |->
            [call[d] EXCEPT !.must  = call[d].must \ {r},
                            !.count = IF d = c THEN call[d].count + 1 ELSE call[d].count]]

EndDelete(c) ==
  /\ call[c].op = "batch_delete"
  /\ \A r \in call[c].targets : ~Exists(r)
  /\ CallTo(c, IdleCall)
  /\ UNCHANGED stage

Walks == {"list", "list_by_actor", "retrieve"}

Keys == {ns_of[r] : r \in Records} \cup {actor_of[r] : r \in Records}

BeginWalk(c) ==
  /\ call[c].op = "idle"
  /\ \E op \in Walks, key \in Keys :
       CallTo(c, [IdleCall EXCEPT !.op = op, !.scope = Scope(op, key),
                                  !.must = {r \in Scope(op, key) : stage[r] = "stored"}])
  /\ UNCHANGED stage

\* A walk never says a record is there that is not.
Find(c) ==
  /\ call[c].op \in Walks
  /\ \E rids \in SUBSET {r \in call[c].scope : Exists(r)} :
       CallTo(c, [call[c] EXCEPT !.found = call[c].found \cup rids])
  /\ UNCHANGED stage

EndWalk(c) ==
  /\ call[c].op \in Walks /\ call[c].must \subseteq call[c].found
  /\ CallTo(c, [IdleCall EXCEPT !.op = "answer",
                  !.found = IF call[c].op = "retrieve" THEN Top(call[c].found)
                            ELSE call[c].found])
  /\ UNCHANGED stage

Return(c) ==
  /\ call[c].op = "answer"
  /\ CallTo(c, IdleCall)
  /\ UNCHANGED stage

\* The store is out of reach: the call ends, and what it did stays.
Raise(c) ==
  /\ call[c].op # "idle"
  /\ CallTo(c, IdleCall)
  /\ UNCHANGED stage

Next ==
  \E c \in Clients :
    \/ BeginPut(c) \/ EndPut(c)
    \/ BeginDelete(c) \/ Delete(c) \/ EndDelete(c)
    \/ BeginWalk(c) \/ Find(c) \/ EndWalk(c) \/ Return(c)
    \/ Raise(c)

Spec == Init /\ [][Next]_backend
=============================================================================
