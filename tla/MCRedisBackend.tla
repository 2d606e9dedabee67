--------------------------- MODULE MCRedisBackend ---------------------------
(***************************************************************************)
(* Instance of RedisBackend for TLC: one namespace of two records, one of  *)
(* them of an actor, and a query that the other one answers best.          *)
(***************************************************************************)
EXTENDS RedisBackend

MCNamespace == [r \in Records |-> "notes"]
MCActor     == [r \in Records |-> IF r = 2 THEN NoActor ELSE "alice"]
MCOverlap   == [r \in Records |-> IF r = 2 THEN 1 ELSE 0]

\* One caller writes and deletes, the others walk and delete.
MCWorkload ==
  [c \in Clients |-> IF c = "w" THEN {"put", "batch_delete"} ELSE Operations \ {"put"}]
=============================================================================
