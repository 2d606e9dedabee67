---------------------------- MODULE MCDynamoAudit ---------------------------
(***************************************************************************)
(* Instance of DynamoAudit for TLC: two threads of one process and one of  *)
(* another, a hash that is its own preimage.                               *)
(***************************************************************************)
EXTENDS DynamoAudit, Sequences

MCHash(prev, b) == Append(prev, b)
MCGenesis == <<>>
MCHome == [c \in Calls |-> IF c = "c3" THEN "p2" ELSE "p1"]
=============================================================================
