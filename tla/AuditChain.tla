----------------------------- MODULE AuditChain -----------------------------
(***************************************************************************)
(* The hash-chained audit log (memwarden/audit.py): entries, the hash that *)
(* links them and the replay that verifies them.  A list of entries is a   *)
(* function whose domain is 0..n-1, as in Python.  What an entry reports   *)
(* (op, record, actor, detail, time) is one value, its payload.            *)
(***************************************************************************)
EXTENDS Integers

CONSTANTS
  GENESIS,            \* the hash before the first entry
  _entry_hash(_, _)   \* SHA-256 of a previous hash and a canonical body

body(seq, payload) == [seq |-> seq, payload |-> payload]

\* The entry that follows a head, which is the last entry's seq and hash.
entry(prev_seq, prev_hash, payload) ==
  [seq        |-> prev_seq + 1,
   payload    |-> payload,
   prev_hash  |-> prev_hash,
   entry_hash |-> _entry_hash(prev_hash, body(prev_seq + 1, payload))]

\* What the replay expects the previous hash to be when it gets to entry i.
PrevHash(entries, i) == IF i = 0 THEN GENESIS ELSE entries[i - 1].entry_hash

BadEntry(entries, i) ==
  \/ entries[i].seq # i
  \/ entries[i].prev_hash # PrevHash(entries, i)
  \/ entries[i].entry_hash # _entry_hash(PrevHash(entries, i),
                                         body(entries[i].seq, entries[i].payload))

verify(entries) == \A i \in DOMAIN entries : ~BadEntry(entries, i)
=============================================================================
