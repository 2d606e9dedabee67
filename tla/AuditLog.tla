------------------------------ MODULE AuditLog ------------------------------
(***************************************************************************)
(* What audit_append promises its callers: one tenant's log is a list that *)
(* only ever grows at its end, a call that returns has its payload on it,  *)
(* and a call that raises may or may not have.  A payload is on the log    *)
(* more than once only if a response was lost on the way.                  *)
(***************************************************************************)
EXTENDS Naturals

CONSTANT Calls        \* calls of audit_append, each with a payload of its own

VARIABLES log,        \* payload at each position 0..n-1
          status      \* of each call

logvars == <<log, status>>

LogInit == log = [n \in {} |-> 0] /\ status = [c \in Calls |-> "open"]

\* The position at the end of the log.
IsEnd(n) == n \notin DOMAIN log /\ (n = 0 \/ n - 1 \in DOMAIN log)

Record(c, n) ==
  /\ status[c] = "open" /\ IsEnd(n)
  /\ log' = [m \in DOMAIN log \cup {n} |-> IF m = n THEN c ELSE log[m]]
  /\ UNCHANGED status

LogReturn(c) ==
  /\ status[c] = "open" /\ \E n \in DOMAIN log : log[n] = c
  /\ status' = [status EXCEPT ![c] = "returned"]
  /\ UNCHANGED log

\* One call raises, or the crash of a process takes several with it.
LogRaise(failed) ==
  /\ \A c \in failed : status[c] = "open"
  /\ status' = [c \in Calls |-> IF c \in failed THEN "raised" ELSE status[c]]
  /\ UNCHANGED log

\* The last append of a call and its failure may be one step.
LogRecordRaise(c, n) ==
  /\ status[c] = "open" /\ IsEnd(n)
  /\ log' = [m \in DOMAIN log \cup {n} |-> IF m = n THEN c ELSE log[m]]
  /\ status' = [status EXCEPT ![c] = "raised"]

LogNext ==
  \/ \E c \in Calls, n \in {0} \cup {m + 1 : m \in DOMAIN log} :
       Record(c, n) \/ LogRecordRaise(c, n)
  \/ \E c \in Calls : LogReturn(c)
  \/ \E failed \in SUBSET Calls : LogRaise(failed)

LogSpec == LogInit /\ [][LogNext]_logvars
=============================================================================
