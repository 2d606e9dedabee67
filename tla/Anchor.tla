------------------------------- MODULE Anchor -------------------------------
(***************************************************************************)
(* Anchoring and verification of the audit chains (memwarden/anchor.py,    *)
(* memwarden/verify_cli.py).  anchor_chains() notes the head of every      *)
(* chain, one after the other, while appends go on, and puts the heads and *)
(* their Merkle root into a write-once store; memwarden-verify fetches the *)
(* latest anchor and then a chain, page by page, and judges both.  Outside *)
(* the code, a stored chain or anchor may be damaged.                      *)
(***************************************************************************)
EXTENDS AuditChain, Sequences, FiniteSets

CONSTANTS
  Tenants,
  TenantLists,       \* the lists of tenants anchor_chains() is called with
  Ops,               \* what ordinary entries report
  Anchorers,         \* runs of anchor_chains(), one at a time each
  Auditors,          \* runs of memwarden-verify
  sha256(_),         \* SHA-256 of a leaf of the Merkle tree,
  sha256_pair(_, _), \* and of two nodes
  hash_less(_, _),   \* the order of hashes as strings
  StaleReads,        \* are queries of the table eventually consistent?
  Faults,            \* what may go wrong, see FaultKinds
  PageSize,          \* entries a page of a query holds
  MaxEntries,        \* bound: size of a chain up to which operations add to it
  MaxAnchors,        \* bound: anchors
  MaxDamage          \* bound: damages of chains and anchors

FaultKinds ==
  {"raise",          \* anchor_chains() ends at any of its calls
   "chain",          \* the table of a chain is damaged or restored
   "anchor"}         \* a stored anchor is damaged

ASSUME AnchorAssumption ==
  /\ IsFiniteSet(Tenants) /\ Tenants # {} /\ TenantLists \subseteq SUBSET Tenants
  /\ "ANCHOR" \notin Ops
  /\ Faults \subseteq FaultKinds
  /\ StaleReads \in BOOLEAN /\ MaxEntries \in [Tenants -> Nat]
  /\ PageSize \in Nat \ {0}

VARIABLES
  chain,      \* per tenant, the entries of its chain
  anchors,    \* the store: anchors in the order they were put
  anchorer,   \* per run of anchor_chains(): place and locals
  auditor,    \* per run of memwarden-verify: place and locals
  sealed,     \* history: per anchor, the chains up to the heads it notes
  damaged     \* history: the damages, a tenant or "anchor" each

audit == <<chain, damaged>>
store == <<anchors, sealed>>
vars  == <<audit, store, anchorer, auditor>>

-----------------------------------------------------------------------------
(* Chains.                                                                 *)

EmptyChain == [i \in {} |-> GENESIS]
Size(entries) == Cardinality(DOMAIN entries)
Prefix(entries, n) == [i \in 0..n - 1 |-> entries[i]]
HeadOf(entries) == PrevHash(entries, Size(entries))

Operation(op) == [op |-> op, location |-> 0, root |-> GENESIS]
AnchorNote(location, root) == [op |-> "ANCHOR", location |-> location, root |-> root]

LastSeq(entries) == IF Size(entries) = 0 THEN -1 ELSE entries[Size(entries) - 1].seq

\* Mutant: the new entry replaces the list instead of extending it.
AppendedAlone(entries, payload) ==
  [i \in {Size(entries)} |-> entry(LastSeq(entries), HeadOf(entries), payload)]

\* append(): the next entry, hashed over the last one.
Appended(entries, payload) ==
  [i \in 0..Size(entries) |->
     IF i < Size(entries) THEN entries[i]
     ELSE entry(LastSeq(entries), HeadOf(entries), payload)]

-----------------------------------------------------------------------------
(* The Merkle root over a function of leaves, by tenant.                   *)

sorted(leaves) ==
  [i \in 1..Cardinality(DOMAIN leaves) |->
     CHOOSE x \in {leaves[t] : t \in DOMAIN leaves} :
       /\ Cardinality({t \in DOMAIN leaves : hash_less(leaves[t], x)}) < i
       /\ i <= Cardinality({t \in DOMAIN leaves : ~hash_less(x, leaves[t])})]

\* The next level: pairs of nodes, the last one with itself if it is left over.
Paired(level) ==
  [i \in 1..(Len(level) + 1) \div 2 |->
     sha256_pair(level[2 * i - 1], level[IF 2 * i <= Len(level) THEN 2 * i ELSE 2 * i - 1])]

merkle_root(leaves) ==
  LET level[d \in Nat] ==
        IF d = 0 THEN [i \in 1..Cardinality(DOMAIN leaves) |-> sha256(sorted(leaves)[i])]
        ELSE IF Len(level[d - 1]) = 1 THEN level[d - 1] ELSE Paired(level[d - 1])
  IN  IF DOMAIN leaves = {} THEN GENESIS ELSE level[Cardinality(DOMAIN leaves)][1]

-----------------------------------------------------------------------------
NoHeads == [t \in {} |-> GENESIS]
IdleAnchorer ==
  [pc |-> "idle", todo |-> {}, heads |-> NoHeads, seen |-> NoHeads, location |-> 0]
IdleAuditor ==
  [pc |-> "idle", tenant |-> CHOOSE t \in Tenants : TRUE, latest |-> 0,
   anchor |-> [chain_heads |-> NoHeads, merkle_root |-> GENESIS],
   entries |-> EmptyChain, fresh |-> FALSE, chain_ok |-> FALSE, anchor_ok |-> TRUE]

Init ==
  /\ chain    = [t \in Tenants |-> EmptyChain]
  /\ anchors  = <<>>
  /\ anchorer = [a \in Anchorers |-> IdleAnchorer]
  /\ auditor  = [v \in Auditors |-> IdleAuditor]
  /\ sealed   = <<>>
  /\ damaged  = {}

\* Any operation of the layer, anywhere, logs an entry.
audit_append(t, op) ==
  /\ Size(chain[t]) < MaxEntries[t]
  /\ chain' = [chain EXCEPT ![t] = Appended(chain[t], Operation(op))]
  /\ UNCHANGED <<damaged, store, anchorer, auditor>>

-----------------------------------------------------------------------------
(* anchor_chains().                                                        *)

AnchorerTo(a, local) == anchorer' = [anchorer EXCEPT ![a] = local]

StartAnchor(a, tenants) ==
  /\ anchorer[a].pc = "idle" /\ Len(anchors) < MaxAnchors
  /\ AnchorerTo(a, [IdleAnchorer EXCEPT !.pc = "heads", !.todo = tenants])
  /\ UNCHANGED <<audit, store, auditor>>

\* chain_head(): the head, or one the chain has had.
chain_head(a, t, n) ==
  LET me == anchorer[a]
      With(f, x) == [u \in DOMAIN f \cup {t} |-> IF u = t THEN x ELSE f[u]]
  IN  /\ me.pc = "heads" /\ t \in me.todo
      /\ n <= Size(chain[t]) /\ (StaleReads \/ n = Size(chain[t]))
      /\ AnchorerTo(a, [me EXCEPT !.todo  = me.todo \ {t},
                                  !.heads = With(me.heads, PrevHash(chain[t], n)),
                                  !.seen  = With(me.seen, Prefix(chain[t], n))])
      /\ UNCHANGED <<audit, store, auditor>>

\* The heads and their root, signed, go to the store under its next location.
put_anchor(a) ==
  LET me == anchorer[a]
  IN  /\ me.pc = "heads" /\ me.todo = {}
      /\ anchors' = Append(anchors, [chain_heads |-> me.heads,
                                     merkle_root |-> merkle_root(me.heads)])
      /\ sealed'  = Append(sealed, me.seen)
      /\ AnchorerTo(a, [me EXCEPT !.pc = "notes", !.todo = DOMAIN me.heads,
                                  !.location = Len(anchors) + 1])
      /\ UNCHANGED <<audit, auditor>>

\* Mutant: the chains are told of the anchor while it is being put together.
NoteAnchorEarly(a, t) ==
  LET me == anchorer[a]
  IN  /\ me.pc = "heads" /\ t \in DOMAIN me.heads
      /\ chain' = [chain EXCEPT ![t] =
                     Appended(chain[t], AnchorNote(Len(anchors) + 1, merkle_root(me.heads)))]
      /\ AnchorerTo(a, [me EXCEPT !.pc = "notes", !.todo = {}])
      /\ UNCHANGED <<damaged, store, auditor>>

\* Every chain gets an ANCHOR entry.
NoteAnchor(a, t) ==
  LET me == anchorer[a]
  IN  /\ me.pc = "notes" /\ t \in me.todo
      /\ chain' = [chain EXCEPT ![t] =
                     Appended(chain[t], AnchorNote(me.location, merkle_root(me.heads)))]
      /\ AnchorerTo(a, [me EXCEPT !.todo = me.todo \ {t}])
      /\ UNCHANGED <<damaged, store, auditor>>

EndAnchor(a) ==
  /\ anchorer[a].pc = "notes" /\ anchorer[a].todo = {}
  /\ AnchorerTo(a, IdleAnchorer)
  /\ UNCHANGED <<audit, store, auditor>>

AnchorRaises(a) ==
  /\ "raise" \in Faults /\ anchorer[a].pc # "idle"
  /\ AnchorerTo(a, IdleAnchorer)
  /\ UNCHANGED <<audit, store, auditor>>

-----------------------------------------------------------------------------
(* memwarden-verify.                                                       *)

AuditorTo(v, local) ==
  /\ auditor' = [auditor EXCEPT ![v] = local]
  /\ UNCHANGED <<audit, store, anchorer>>

\* main(): the last anchor of the bucket, if there is one, before the chain.
FetchAnchor(v, t) ==
  /\ auditor[v].pc = "idle"
  /\ AuditorTo(v, [IdleAuditor EXCEPT
                     !.pc     = "entries", !.tenant = t, !.latest = Len(anchors),
                     !.anchor = IF anchors = <<>> THEN @ ELSE anchors[Len(anchors)]])

\* audit_entries(): the next page, up to entry n, read as the table is now.
Page(v, n) ==
  LET me == auditor[v]
  IN  [i \in 0..n - 1 |-> IF i < Size(me.entries) THEN me.entries[i] ELSE chain[me.tenant][i]]

ReadPage(v, n) ==
  LET me == auditor[v]
  IN  /\ me.pc = "entries"
      /\ n <= Size(chain[me.tenant]) /\ n = Size(me.entries) + PageSize
      /\ AuditorTo(v, [me EXCEPT !.entries = Page(v, n)])

\* A page after which nothing is left, as far as the replica knows.
ReadLastPage(v, n) ==
  LET me == auditor[v]
      atEnd == n >= Size(chain[me.tenant])
  IN  /\ me.pc = "entries" /\ (StaleReads \/ atEnd)
      /\ n = Size(me.entries) \/ n <= Size(chain[me.tenant])
      /\ Size(me.entries) <= n /\ n < Size(me.entries) + PageSize
      /\ AuditorTo(v, [me EXCEPT !.pc = "judge", !.entries = Page(v, n), !.fresh = atEnd])

on_chain(entries, head) == \E i \in DOMAIN entries : entries[i].entry_hash = head

\* chain_heads.get(tenant) finds no head for a tenant the anchor leaves out.
HeadOnChain(me) ==
  /\ me.tenant \in DOMAIN me.anchor.chain_heads
  /\ on_chain(me.entries, me.anchor.chain_heads[me.tenant])
root_ok(me) == merkle_root(me.anchor.chain_heads) = me.anchor.merkle_root

\* Mutant: only the anchor itself is validated, not the chain against it.
verify_tenant_by_root(me) ==
  [me EXCEPT !.pc = "done", !.chain_ok = verify(me.entries),
             !.anchor_ok = verify(me.entries) /\ me.latest # 0 => root_ok(me)]

verify_tenant(me) ==
  [me EXCEPT !.pc = "done", !.chain_ok = verify(me.entries),
             !.anchor_ok = verify(me.entries) /\ me.latest # 0 =>
                             HeadOnChain(me) /\ root_ok(me)]

\* Mutant: the anchor is fetched when the entries have been read.
JudgeByNewest(v) ==
  /\ auditor[v].pc = "judge"
  /\ AuditorTo(v, verify_tenant(
       IF anchors = <<>> THEN auditor[v]
       ELSE [auditor[v] EXCEPT !.latest = Len(anchors), !.anchor = anchors[Len(anchors)]]))

Judge(v) ==
  /\ auditor[v].pc = "judge"
  /\ AuditorTo(v, verify_tenant(auditor[v]))

NextAudit(v) ==
  /\ auditor[v].pc = "done"
  /\ AuditorTo(v, IdleAuditor)

-----------------------------------------------------------------------------
(* Damage, outside the code.                                               *)

\* The tail of a chain is lost, a stored entry is changed, rewritten with a hash
\* that fits, lost from the middle, or swapped with the next one.
DamagedForms(entries) ==
  LET n == Size(entries)
      Replaced(i, e) == [entries EXCEPT ![i] = e]
  IN  {Prefix(entries, m) : m \in 0..n - 1}
        \cup {Replaced(i, [entries[i] EXCEPT !.payload = Operation(op)]) :
                i \in 0..n - 1, op \in Ops}
        \cup {Replaced(i, entry(i - 1, PrevHash(entries, i), Operation(op))) :
                i \in 0..n - 1, op \in Ops}
        \cup {[j \in 0..n - 2 |-> entries[IF j < i THEN j ELSE j + 1]] : i \in 0..n - 1}
        \cup {[Replaced(i, entries[i + 1]) EXCEPT ![i + 1] = entries[i]] : i \in 0..n - 2}

DamageChain(t) ==
  /\ "chain" \in Faults /\ Cardinality(damaged) < MaxDamage /\ t \notin damaged
  /\ \E entries \in DamagedForms(chain[t]) : chain' = [chain EXCEPT ![t] = entries]
  /\ damaged' = damaged \cup {t}
  /\ UNCHANGED <<store, anchorer, auditor>>

\* One head of a stored anchor reads as another hash the chain has had.
DamageAnchor(n, t) ==
  /\ "anchor" \in Faults /\ Cardinality(damaged) < MaxDamage /\ "anchor" \notin damaged
  /\ t \in DOMAIN anchors[n].chain_heads
  /\ \E i \in 0..Size(chain[t]) :
       anchors' = [anchors EXCEPT ![n] =
                     [anchors[n] EXCEPT !.chain_heads =
                        [anchors[n].chain_heads EXCEPT ![t] = PrevHash(chain[t], i)]]]
  /\ damaged' = damaged \cup {"anchor"}
  /\ UNCHANGED <<chain, sealed, anchorer, auditor>>

-----------------------------------------------------------------------------
AnchorStep(a) ==
  \/ \E tenants \in TenantLists : StartAnchor(a, tenants)
  \/ \E t \in anchorer[a].todo : \E n \in 0..Size(chain[t]) : chain_head(a, t, n)
  \/ put_anchor(a)
  \/ \E t \in Tenants : NoteAnchor(a, t)
  \/ EndAnchor(a)
  \/ AnchorRaises(a)

AuditStep(v) ==
  \/ \E t \in Tenants : FetchAnchor(v, t)
  \/ \E n \in 0..Size(auditor[v].entries) + PageSize : ReadPage(v, n) \/ ReadLastPage(v, n)
  \/ Judge(v)
  \/ NextAudit(v)

Next ==
  \/ \E t \in Tenants, op \in Ops : audit_append(t, op)
  \/ \E a \in Anchorers : AnchorStep(a)
  \/ \E v \in Auditors : AuditStep(v)
  \/ \E t \in Tenants : DamageChain(t)
  \/ \E n \in DOMAIN anchors, t \in Tenants : DamageAnchor(n, t)

Spec == Init /\ [][Next]_vars

-----------------------------------------------------------------------------
(* Properties.                                                             *)

IsChain(entries) ==
  /\ DOMAIN entries = 0..Size(entries) - 1
  /\ \A i \in DOMAIN entries :
       entries[i] = [seq |-> entries[i].seq, payload |-> entries[i].payload,
                     prev_hash |-> entries[i].prev_hash, entry_hash |-> entries[i].entry_hash]

\* Chains, anchors and what verifiers hold have their shapes; of an anchoring run,
\* the chains it has still to tell are among the tenants.
TypeOK ==
  /\ DOMAIN chain = Tenants /\ \A t \in Tenants : IsChain(chain[t])
  /\ DOMAIN sealed = DOMAIN anchors /\ anchors \in Seq({anchors[n] : n \in DOMAIN anchors})
  /\ \A n \in DOMAIN anchors :
       /\ DOMAIN anchors[n].chain_heads = DOMAIN sealed[n] /\ DOMAIN sealed[n] \subseteq Tenants
       /\ \A t \in DOMAIN sealed[n] : IsChain(sealed[n][t])
  /\ \A a \in Anchorers : anchorer[a].todo \subseteq Tenants
  /\ \A v \in Auditors :
       auditor[v].tenant \in Tenants /\ auditor[v].latest \in Nat /\ IsChain(auditor[v].entries)
  /\ damaged \subseteq Tenants \cup {"anchor"}

Anchored(me) == me.latest # 0 /\ me.tenant \in DOMAIN me.anchor.chain_heads

\* The latest anchor was put with a head of the verified tenant in it.
Sealing(me) == me.latest # 0 /\ me.tenant \in DOMAIN sealed[me.latest]

\* What memwarden-verify exits with.
Accepted(me) == me.chain_ok /\ me.anchor_ok

\* What the anchor sealed of a chain is on it, entry for entry, if the verifier
\* accepts it, wherever and whenever chains and anchors were damaged: a lost
\* tail that was appended to again still replays and is found by its anchor
\* (verify_cli.py:25-29).
AnchoredIntact ==
  \A v \in Auditors :
    LET me == auditor[v]
    IN  me.pc = "done" /\ Accepted(me) /\ Sealing(me) /\ verify(sealed[me.latest][me.tenant]) =>
          \A i \in DOMAIN sealed[me.latest][me.tenant] :
            i \in DOMAIN me.entries /\ me.entries[i] = sealed[me.latest][me.tenant][i]

Undamaged(me) == me.tenant \notin damaged /\ "anchor" \notin damaged

\* A sound chain read to its end is accepted by a sound anchor that covers it,
\* although heads are noted one by one between appends (anchor.py:30) and pages
\* are read between appends.
SoundChainAccepted ==
  \A v \in Auditors :
    LET me == auditor[v]
    IN  me.pc = "done" /\ me.fresh /\ Undamaged(me) /\ Anchored(me)
          /\ me.anchor.chain_heads[me.tenant] # GENESIS => Accepted(me)

\* An ANCHOR entry on a sound chain tells the root of a stored anchor, whose head
\* for the chain is that of the entries before it: anchors are stored before
\* they are announced (anchor.py:35-37), also if the run ends in between.
AnchorsGrounded ==
  \A t \in Tenants \ damaged : \A i \in DOMAIN chain[t] :
    LET note == chain[t][i].payload
    IN  note.op = "ANCHOR" =>
          /\ note.location \in DOMAIN anchors
          /\ note.root = anchors[note.location].merkle_root
          /\ \E j \in 0..i : sealed[note.location][t] = Prefix(chain[t], j)
=============================================================================
