---------------------------- MODULE AnchorProofs ----------------------------
(***************************************************************************)
(* Theorems about anchors and their verifier, for any tenants, runs, pages *)
(* and damage: what a sound chain and a sound anchor promise each other,   *)
(* and what an accepted chain must hold.                                   *)
(***************************************************************************)
EXTENDS Anchor, FiniteSetTheorems, NaturalsInduction, WellFoundedInduction, TLAPS

-----------------------------------------------------------------------------
(* Lists of entries.                                                       *)

\* SHA-256 of something, or the hash before the first entry.
IsHash(x) == x = GENESIS \/ \E p, b : x = _entry_hash(p, b)

IsEntry(e) ==
  /\ e = [seq |-> e.seq, payload |-> e.payload, prev_hash |-> e.prev_hash,
          entry_hash |-> e.entry_hash]
  /\ IsHash(e.entry_hash)

List(entries) ==
  /\ Size(entries) \in Nat
  /\ entries = [i \in 0..Size(entries) - 1 |-> entries[i]]
  /\ \A i \in 0..Size(entries) - 1 : IsEntry(entries[i])

LEMMA SizeIs ==
  ASSUME NEW entries, NEW n \in Nat, DOMAIN entries = 0..n - 1
  PROVE  Size(entries) = n
<1>1. Cardinality(0..n - 1) = IF 0 > n - 1 THEN 0 ELSE n - 1 - 0 + 1
  BY FS_Interval
<1> QED
  BY <1>1 DEF Size

LEMMA ListDomain ==
  ASSUME NEW entries, List(entries)
  PROVE  DOMAIN entries = 0..Size(entries) - 1 /\ Size(entries) \in Nat
<1>1. entries = [i \in 0..Size(entries) - 1 |-> entries[i]] /\ Size(entries) \in Nat
  BY DEF List
<1>2. DOMAIN [i \in 0..Size(entries) - 1 |-> entries[i]] = 0..Size(entries) - 1
  OBVIOUS
<1> QED
  BY <1>1, <1>2

LEMMA EmptyList == List(EmptyChain) /\ Size(EmptyChain) = 0
<1>1. DOMAIN EmptyChain = 0..0 - 1
  BY DEF EmptyChain
<1>2. Size(EmptyChain) = 0
  BY <1>1, SizeIs
<1>3. EmptyChain = [i \in 0..0 - 1 |-> EmptyChain[i]]
  BY <1>1 DEF EmptyChain
<1> QED
  BY <1>1, <1>2, <1>3 DEF List

LEMMA PrefixFacts ==
  ASSUME NEW entries, List(entries), NEW n \in 0..Size(entries)
  PROVE  /\ List(Prefix(entries, n)) /\ Size(Prefix(entries, n)) = n
         /\ \A i \in 0..n - 1 : Prefix(entries, n)[i] = entries[i]
<1>1. n \in Nat /\ \A i \in 0..n - 1 : IsEntry(entries[i])
  BY DEF List
<1>2. DOMAIN Prefix(entries, n) = 0..n - 1 /\ \A i \in 0..n - 1 : Prefix(entries, n)[i] = entries[i]
  BY DEF Prefix
<1>3. Size(Prefix(entries, n)) = n
  BY <1>1, <1>2, SizeIs
<1>4. Prefix(entries, n) = [i \in 0..n - 1 |-> Prefix(entries, n)[i]]
  BY DEF Prefix
<1> QED
  BY <1>1, <1>2, <1>3, <1>4 DEF List

LEMMA WholePrefix ==
  ASSUME NEW entries, List(entries)
  PROVE  Prefix(entries, Size(entries)) = entries
BY DEF Prefix, List

\* f begins with e.
Extends(e, f) ==
  /\ Size(f) \in Nat /\ Size(e) <= Size(f)
  /\ \A n \in 0..Size(e) : Prefix(f, n) = Prefix(e, n)

LEMMA ExtendsItself ==
  ASSUME NEW e, List(e)  PROVE Extends(e, e)
BY DEF Extends, List

LEMMA HeadIsHash ==
  ASSUME NEW entries, List(entries), NEW i \in 0..Size(entries)
  PROVE  IsHash(PrevHash(entries, i))
BY DEF List, IsEntry, PrevHash, IsHash

LEMMA EntryIsEntry ==
  ASSUME NEW seq, NEW hash, NEW payload
  PROVE  IsEntry(entry(seq, hash, payload))
<1>1. entry(seq, hash, payload).entry_hash = _entry_hash(hash, body(seq + 1, payload))
  BY DEF entry
<1>2. IsHash(entry(seq, hash, payload).entry_hash)
  BY <1>1 DEF IsHash
<1> QED
  BY <1>2 DEF IsEntry, entry

LEMMA AppendedFacts ==
  ASSUME NEW entries, List(entries), NEW payload
  PROVE  LET longer == Appended(entries, payload)
             n      == Size(entries)
         IN  /\ List(longer) /\ Size(longer) = n + 1 /\ Extends(entries, longer)
             /\ \A i \in 0..n - 1 : longer[i] = entries[i]
             /\ longer[n] = entry(LastSeq(entries), HeadOf(entries), payload)
<1> DEFINE longer == Appended(entries, payload)
           n      == Size(entries)
           new    == entry(LastSeq(entries), HeadOf(entries), payload)
<1>1. n \in Nat /\ \A i \in 0..n - 1 : IsEntry(entries[i])
  BY DEF List
<1>2. longer = [i \in 0..n |-> IF i < n THEN entries[i] ELSE new]
  BY DEF Appended
<1>3. IsEntry(new)
  BY EntryIsEntry
<1> HIDE DEF longer, n, new
<1>4. DOMAIN longer = 0..(n + 1) - 1 /\ n + 1 \in Nat
  BY <1>1, <1>2
<1>5. Size(longer) = n + 1
  BY <1>4, SizeIs
<1>6. (\A i \in 0..n - 1 : longer[i] = entries[i]) /\ longer[n] = new
  BY <1>1, <1>2
<1>7. \A i \in 0..n : IsEntry(longer[i])
  BY <1>1, <1>3, <1>6
<1>8. longer = [i \in 0..n |-> longer[i]]
  BY <1>2
<1>9. List(longer)
  BY <1>1, <1>5, <1>7, <1>8 DEF List
<1>10. ASSUME NEW m \in 0..n  PROVE Prefix(longer, m) = Prefix(entries, m)
  BY <1>1, <1>6 DEF Prefix
<1> QED
  BY <1>1, <1>5, <1>6, <1>9, <1>10 DEF Extends, longer, n, new

LEMMA AppendedVerifies ==
  ASSUME NEW entries, List(entries), verify(entries), NEW payload
  PROVE  verify(Appended(entries, payload))
<1> DEFINE longer == Appended(entries, payload)
           n      == Size(entries)
<1>1. /\ n \in Nat /\ DOMAIN longer = 0..n
      /\ \A i \in 0..n - 1 : longer[i] = entries[i]
      /\ longer[n] = entry(LastSeq(entries), HeadOf(entries), payload)
  BY AppendedFacts, ListDomain
<1>2. DOMAIN entries = 0..n - 1
  BY ListDomain
<1> HIDE DEF longer
<1>3. LastSeq(entries) = n - 1
  BY <1>1, <1>2 DEF LastSeq, verify, BadEntry
<1>4. \A i \in 0..n : PrevHash(longer, i) = PrevHash(entries, i)
  BY <1>1 DEF PrevHash
<1>5. ASSUME NEW i \in 0..n - 1  PROVE ~BadEntry(longer, i)
  BY <1>1, <1>2, <1>4, <1>5 DEF verify, BadEntry
<1>6. ~BadEntry(longer, n)
  <2>1. PrevHash(longer, n) = HeadOf(entries)
    BY <1>1, <1>4 DEF HeadOf
  <2>2. longer[n] = entry(n - 1, HeadOf(entries), payload) /\ (n - 1) + 1 = n
    BY <1>1, <1>3
  <2> QED
    BY <2>1, <2>2 DEF BadEntry, entry
<1> QED
  BY <1>1, <1>5, <1>6 DEF verify, longer

LEMMA PrefixVerifies ==
  ASSUME NEW entries, List(entries), verify(entries), NEW n \in 0..Size(entries)
  PROVE  verify(Prefix(entries, n))
<1>1. DOMAIN entries = 0..Size(entries) - 1 /\ Size(entries) \in Nat
  BY ListDomain
<1>2. DOMAIN Prefix(entries, n) = 0..n - 1 /\ \A i \in 0..n - 1 : Prefix(entries, n)[i] = entries[i]
  BY DEF Prefix
<1>3. \A i \in 0..n - 1 : PrevHash(Prefix(entries, n), i) = PrevHash(entries, i)
  BY <1>1, <1>2 DEF PrevHash
<1> QED
  BY <1>1, <1>2, <1>3 DEF verify, BadEntry

-----------------------------------------------------------------------------
(* The invariant.                                                          *)

Chains ==
  /\ DOMAIN chain = Tenants /\ damaged \subseteq Tenants \cup {"anchor"}
  /\ \A t \in Tenants : List(chain[t]) /\ (t \notin damaged => verify(chain[t]))

\* Entries that were read from the chain of t, as long as that is undamaged.
Part(entries, t) ==
  t \notin damaged =>
    Size(entries) <= Size(chain[t]) /\ entries = Prefix(chain[t], Size(entries))

\* The chains up to the heads that were noted.
Seen(seen) ==
  /\ DOMAIN seen \subseteq Tenants
  /\ \A t \in DOMAIN seen : List(seen[t]) /\ Part(seen[t], t)

Heads(seen) == [t \in DOMAIN seen |-> HeadOf(seen[t])]

\* An anchor as it was put, or with one head damaged.
AnchorOf(anchor, seen) ==
  /\ DOMAIN anchor = {"chain_heads", "merkle_root"}
  /\ anchor.merkle_root = merkle_root(Heads(seen))
  /\ \/ anchor.chain_heads = Heads(seen)
     \/ /\ "anchor" \in damaged
        /\ \E t \in DOMAIN seen : \E x :
             IsHash(x) /\ anchor.chain_heads = [Heads(seen) EXCEPT ![t] = x]

IsSequence(s) == s \in Seq({s[n] : n \in DOMAIN s})

Stored ==
  /\ IsSequence(anchors) /\ IsSequence(sealed) /\ DOMAIN sealed = DOMAIN anchors
  /\ \A n \in DOMAIN anchors : Seen(sealed[n]) /\ AnchorOf(anchors[n], sealed[n])

\* A run that tells the chains has put its anchor.
AnchorerInv(me) ==
  /\ DOMAIN me = {"pc", "todo", "heads", "seen", "location"}
  /\ me.todo \subseteq Tenants
  /\ Seen(me.seen) /\ me.heads = Heads(me.seen)
  /\ me.pc = "notes" =>
       /\ me.location \in DOMAIN anchors
       /\ anchors[me.location].merkle_root = merkle_root(me.heads)
       /\ me.todo \subseteq DOMAIN sealed[me.location]

\* A verifier that read to the end of a sound chain has all that was sealed of it.
AuditorInv(me) ==
  /\ DOMAIN me = {"pc", "tenant", "latest", "anchor", "entries", "fresh", "chain_ok", "anchor_ok"}
  /\ me.tenant \in Tenants /\ me.latest \in {0} \cup DOMAIN anchors
  /\ List(me.entries) /\ Part(me.entries, me.tenant)
  /\ me.latest # 0 => AnchorOf(me.anchor, sealed[me.latest])
  /\ me.pc \in {"judge", "done"} /\ me.fresh /\ Sealing(me) /\ me.tenant \notin damaged =>
       Size(sealed[me.latest][me.tenant]) <= Size(me.entries)
  /\ me.pc = "done" =>
       /\ me.chain_ok <=> verify(me.entries)
       /\ me.anchor_ok <=> (verify(me.entries) /\ me.latest # 0 => HeadOnChain(me) /\ root_ok(me))

CInv ==
  /\ DOMAIN anchorer = Anchorers /\ DOMAIN auditor = Auditors
  /\ Chains /\ Stored /\ AnchorsGrounded
  /\ \A a \in Anchorers : AnchorerInv(anchorer[a])
  /\ \A v \in Auditors : AuditorInv(auditor[v])

LEMMA NothingSeen == Seen(NoHeads) /\ Heads(NoHeads) = NoHeads
BY DEF Seen, Heads, NoHeads

LEMMA AnchorerIdle == AnchorerInv(IdleAnchorer)
BY NothingSeen DEF AnchorerInv, IdleAnchorer

LEMMA AuditorIdle == 
  ASSUME Chains PROVE AuditorInv(IdleAuditor)
<1>1. IdleAuditor.tenant \in Tenants
  BY AnchorAssumption DEF IdleAuditor
<1>2. Part(EmptyChain, IdleAuditor.tenant)
  <2>1. List(chain[IdleAuditor.tenant])
    BY <1>1 DEF Chains
  <2>2. Size(chain[IdleAuditor.tenant]) \in Nat
    BY <2>1, ListDomain
  <2>3. EmptyChain = Prefix(chain[IdleAuditor.tenant], 0)
    <3>1. 0..0 - 1 = {}
      OBVIOUS
    <3> QED BY <3>1 DEF EmptyChain, Prefix
  <2> QED
    BY <2>2, <2>3, EmptyList DEF Part
<1>3. /\ IdleAuditor.latest = 0 /\ IdleAuditor.entries = EmptyChain
      /\ IdleAuditor.pc = "idle"
  BY DEF IdleAuditor
<1>4. DOMAIN IdleAuditor =
        {"pc", "tenant", "latest", "anchor", "entries", "fresh", "chain_ok", "anchor_ok"}
  BY DEF IdleAuditor
<1> QED
  BY <1>1, <1>2, <1>3, <1>4, EmptyList DEF AuditorInv

LEMMA InvInit == Init => CInv
<1> SUFFICES ASSUME Init PROVE CInv
  OBVIOUS
<1>1. Chains
  <2>1. verify(EmptyChain) /\ List(EmptyChain)
    BY EmptyList DEF verify, EmptyChain
  <2> QED
    BY <2>1 DEF Init, Chains
<1>2. Stored
  BY DEF Init, Stored, IsSequence
<1>3. AnchorsGrounded
  BY DEF Init, AnchorsGrounded, EmptyChain
<1> QED
  BY <1>1, <1>2, <1>3, AnchorerIdle, AuditorIdle DEF CInv, Init

-----------------------------------------------------------------------------
(* What every step keeps.                                                  *)

\* Sound chains only grow, and so does the store; damage is not undone.
Grows ==
  /\ damaged \subseteq damaged'
  /\ \A t \in Tenants : t \notin damaged' => Extends(chain[t], chain'[t])
  /\ \A n \in DOMAIN anchors :
       /\ n \in DOMAIN anchors' /\ sealed'[n] = sealed[n]
       /\ anchors'[n].merkle_root = anchors[n].merkle_root

LEMMA PartStays ==
  ASSUME Chains, Grows
  PROVE  \A entries : \A t \in Tenants : List(entries) /\ Part(entries, t) => Part(entries, t)'
<1> SUFFICES ASSUME NEW entries, NEW t \in Tenants, List(entries), Part(entries, t)
             PROVE  Part(entries, t)'
  OBVIOUS
<1>1. ASSUME t \notin damaged'
      PROVE  Size(entries) <= Size(chain'[t]) /\ entries = Prefix(chain'[t], Size(entries))
  <2>1. Extends(chain[t], chain'[t]) /\ t \notin damaged
    BY <1>1 DEF Grows
  <2>2. Size(entries) <= Size(chain[t]) /\ entries = Prefix(chain[t], Size(entries))
    BY <2>1 DEF Part
  <2>3. Size(entries) \in Nat /\ Size(chain[t]) \in Nat
    BY DEF List, Chains
  <2>4. Size(entries) <= Size(chain'[t])
    BY <2>1, <2>2, <2>3 DEF Extends
  <2>5. Prefix(chain'[t], Size(entries)) = Prefix(chain[t], Size(entries))
    BY <2>1, <2>2, <2>3 DEF Extends
  <2> QED
    BY <2>2, <2>4, <2>5
<1> QED
  BY <1>1 DEF Part

LEMMA SeenStays ==
  ASSUME Chains, Grows
  PROVE  \A seen : Seen(seen) => Seen(seen)'
BY PartStays DEF Seen

LEMMA AnchorOfStays ==
  ASSUME Grows
  PROVE  \A anchor, seen : AnchorOf(anchor, seen) => AnchorOf(anchor, seen)'
BY DEF AnchorOf, Grows

LEMMA AnchorerStays ==
  ASSUME Chains, Grows
  PROVE  \A me : AnchorerInv(me) => AnchorerInv(me)'
<1> SUFFICES ASSUME NEW me, AnchorerInv(me) PROVE AnchorerInv(me)'
  OBVIOUS
<1>1. Seen(me.seen)'
  BY SeenStays DEF AnchorerInv
<1> QED
  BY <1>1 DEF AnchorerInv, Grows

LEMMA AuditorStays ==
  ASSUME Chains, Grows
  PROVE  \A me : AuditorInv(me) => AuditorInv(me)'
<1> SUFFICES ASSUME NEW me, AuditorInv(me) PROVE AuditorInv(me)'
  OBVIOUS
<1>1. Part(me.entries, me.tenant)'
  BY PartStays DEF AuditorInv
<1>2. me.latest # 0 => sealed'[me.latest] = sealed[me.latest] /\ me.latest \in DOMAIN anchors'
  BY DEF AuditorInv, Grows
<1>3. me.latest # 0 => AnchorOf(me.anchor, sealed[me.latest])'
  <2>1. me.latest # 0 => AnchorOf(me.anchor, sealed[me.latest])
    BY DEF AuditorInv
  <2>2. PICK seen : seen = sealed[me.latest]
    OBVIOUS
  <2>3. me.latest # 0 => AnchorOf(me.anchor, seen)'
    BY <2>1, <2>2, AnchorOfStays
  <2> QED
    BY <1>2, <2>2, <2>3
<1>4. Sealing(me)' /\ me.tenant \notin damaged' => Sealing(me) /\ me.tenant \notin damaged
  BY <1>2 DEF Sealing, Grows
<1>5. Sealing(me)' => sealed'[me.latest][me.tenant] = sealed[me.latest][me.tenant]
  BY <1>2 DEF Sealing
<1> QED
  BY <1>1, <1>2, <1>3, <1>4, <1>5 DEF AuditorInv

LEMMA StoredStays ==
  ASSUME Chains, Grows, Stored, UNCHANGED store
  PROVE  Stored'
<1>1. \A n \in DOMAIN anchors : Seen(sealed[n])' /\ AnchorOf(anchors[n], sealed[n])'
  <2> SUFFICES ASSUME NEW n \in DOMAIN anchors
               PROVE  Seen(sealed[n])' /\ AnchorOf(anchors[n], sealed[n])'
    OBVIOUS
  <2>1. PICK anchor, seen : anchor = anchors[n] /\ seen = sealed[n]
    OBVIOUS
  <2>2. Seen(seen)' /\ AnchorOf(anchor, seen)'
    BY <2>1, SeenStays, AnchorOfStays DEF Stored
  <2>3. anchor = anchors'[n] /\ seen = sealed'[n]
    BY <2>1 DEF store
  <2> QED
    BY <2>2, <2>3
<1> QED
  BY <1>1 DEF Stored, store, IsSequence

LEMMA QuietGrows ==
  ASSUME CInv, UNCHANGED <<audit, store>>
  PROVE  Grows /\ Chains' /\ Stored' /\ AnchorsGrounded'
<1>1. Grows
  BY ExtendsItself DEF Grows, CInv, Chains, audit, store
<1>2. Chains' /\ AnchorsGrounded'
  BY DEF CInv, Chains, AnchorsGrounded, audit, store
<1> QED
  BY <1>1, <1>2, StoredStays DEF CInv

\* It is enough to look at the run that moves.
LEMMA Together ==
  ASSUME CInv, Grows, Chains', Stored', AnchorsGrounded',
         \A a \in Anchorers : anchorer'[a] = anchorer[a] \/ AnchorerInv(anchorer[a])',
         DOMAIN anchorer' = Anchorers, DOMAIN auditor' = Auditors,
         \A v \in Auditors : auditor'[v] = auditor[v] \/ AuditorInv(auditor[v])'
  PROVE  CInv'
<1>1. ASSUME NEW a \in Anchorers  PROVE AnchorerInv(anchorer[a])'
  <2>1. PICK me : me = anchorer[a]
    OBVIOUS
  <2>2. AnchorerInv(me)'
    BY <2>1, AnchorerStays DEF CInv
  <2> QED
    BY <2>1, <2>2
<1>2. ASSUME NEW v \in Auditors  PROVE AuditorInv(auditor[v])'
  <2>1. PICK me : me = auditor[v]
    OBVIOUS
  <2>2. AuditorInv(me)'
    BY <2>1, AuditorStays DEF CInv
  <2> QED
    BY <2>1, <2>2
<1> QED
  BY <1>1, <1>2 DEF CInv

-----------------------------------------------------------------------------
(* Appends, by operations and by anchor_chains().                          *)

LEMMA AppendGrows ==
  ASSUME CInv, NEW t \in Tenants, NEW payload, UNCHANGED <<damaged, store>>,
         chain' = [chain EXCEPT ![t] = Appended(chain[t], payload)]
  PROVE  Grows /\ Chains' /\ Stored'
<1>1. \A u \in Tenants \ {t} : chain'[u] = chain[u]
  BY DEF CInv, Chains
<1>2. chain'[t] = Appended(chain[t], payload) /\ DOMAIN chain' = Tenants
  BY DEF CInv, Chains
<1>3. List(chain'[t]) /\ Extends(chain[t], chain'[t])
  BY <1>2, AppendedFacts DEF CInv, Chains
<1>4. t \notin damaged => verify(chain'[t])
  BY <1>2, AppendedVerifies DEF CInv, Chains
<1>5. Grows
  BY <1>1, <1>3, ExtendsItself DEF Grows, CInv, Chains, store
<1>6. Chains'
  BY <1>1, <1>2, <1>3, <1>4 DEF CInv, Chains
<1> QED
  BY <1>5, <1>6, StoredStays DEF CInv

\* Notes on sound chains stay grounded as the chain grows by grounded ones.
LEMMA GroundedAppend ==
  ASSUME CInv, NEW t \in Tenants, NEW payload, UNCHANGED <<damaged, store>>,
         chain' = [chain EXCEPT ![t] = Appended(chain[t], payload)],
         payload.op = "ANCHOR" =>
           /\ payload.location \in DOMAIN anchors
           /\ payload.root = anchors[payload.location].merkle_root
           /\ t \in DOMAIN sealed[payload.location]
  PROVE  AnchorsGrounded'
<1> DEFINE n == Size(chain[t])
<1>1. /\ n \in Nat /\ DOMAIN chain[t] = 0..n - 1 /\ DOMAIN chain'[t] = 0..n
      /\ chain'[t] = Appended(chain[t], payload) /\ Extends(chain[t], chain'[t])
      /\ \A i \in 0..n - 1 : chain'[t][i] = chain[t][i]
      /\ chain'[t][n].payload = payload
  <2>1. List(chain[t]) /\ chain'[t] = Appended(chain[t], payload)
    BY DEF CInv, Chains
  <2>2. /\ List(chain'[t]) /\ Size(chain'[t]) = n + 1 /\ Extends(chain[t], chain'[t])
        /\ \A i \in 0..n - 1 : chain'[t][i] = chain[t][i]
        /\ chain'[t][n] = entry(LastSeq(chain[t]), HeadOf(chain[t]), payload)
    BY <2>1, AppendedFacts
  <2>3. DOMAIN chain[t] = 0..n - 1 /\ DOMAIN chain'[t] = 0..(n + 1) - 1 /\ n \in Nat
    BY <2>1, <2>2, ListDomain
  <2> QED
    BY <2>1, <2>2, <2>3 DEF entry
<1> DEFINE Ground(u, i) ==
      chain'[u][i].payload.op = "ANCHOR" =>
        /\ chain'[u][i].payload.location \in DOMAIN anchors
        /\ chain'[u][i].payload.root = anchors[chain'[u][i].payload.location].merkle_root
        /\ \E j \in 0..i : sealed[chain'[u][i].payload.location][u] = Prefix(chain'[u], j)
<1>2. ASSUME NEW u \in Tenants \ damaged, u # t, NEW i \in DOMAIN chain'[u]  PROVE Ground(u, i)
  <2>1. chain'[u] = chain[u]
    BY <1>2 DEF CInv, Chains
  <2> QED
    BY <2>1 DEF CInv, AnchorsGrounded
<1>3. ASSUME t \notin damaged, NEW i \in 0..n - 1  PROVE Ground(t, i)
  <2>1. chain'[t][i] = chain[t][i]
    BY <1>1
  <2>2. ASSUME chain[t][i].payload.op = "ANCHOR"
        PROVE  /\ chain[t][i].payload.location \in DOMAIN anchors
               /\ chain[t][i].payload.root = anchors[chain[t][i].payload.location].merkle_root
               /\ \E j \in 0..i : sealed[chain[t][i].payload.location][t] = Prefix(chain[t], j)
    BY <1>1, <1>3, <2>2 DEF CInv, AnchorsGrounded
  <2>3. \A j \in 0..i : Prefix(chain'[t], j) = Prefix(chain[t], j)
    BY <1>1 DEF Extends
  <2> QED
    BY <2>1, <2>2, <2>3
<1>4. ASSUME t \notin damaged  PROVE Ground(t, n)
  <2> SUFFICES ASSUME payload.op = "ANCHOR"
               PROVE  \E j \in 0..n : sealed[payload.location][t] = Prefix(chain'[t], j)
    BY <1>1
  <2>1. Seen(sealed[payload.location])
    BY DEF CInv, Stored
  <2>2. PICK sealing : sealing = sealed[payload.location][t]
    OBVIOUS
  <2>3. List(sealing) /\ Part(sealing, t)
    BY <2>1, <2>2 DEF Seen
  <2>4. Size(sealing) \in 0..n /\ sealing = Prefix(chain[t], Size(sealing))
    BY <1>1, <1>4, <2>3 DEF Part, List
  <2>5. sealing = Prefix(chain'[t], Size(sealing))
    BY <1>1, <2>4 DEF Extends
  <2> QED
    BY <2>2, <2>4, <2>5
<1>5. \A u \in Tenants \ damaged : \A i \in DOMAIN chain'[u] : Ground(u, i)
  <2>1. n \in Nat /\ DOMAIN chain'[t] = 0..n
    BY <1>1
  <2> HIDE DEF Ground, n
  <2>2. ASSUME t \notin damaged, NEW i \in DOMAIN chain'[t]  PROVE Ground(t, i)
    <3>1. i \in 0..n - 1 \/ i = n
      BY <2>1
    <3> QED BY <2>2, <3>1, <1>3, <1>4
  <2> QED
    BY <1>2, <2>2
<1> QED
  BY <1>5 DEF AnchorsGrounded, store

LEMMA AppendStep ==
  ASSUME CInv, NEW t \in Tenants, NEW op \in Ops, audit_append(t, op)
  PROVE  CInv'
<1>1. Operation(op).op # "ANCHOR"
  BY AnchorAssumption DEF Operation
<1>2. /\ chain' = [chain EXCEPT ![t] = Appended(chain[t], Operation(op))]
      /\ UNCHANGED <<damaged, store, anchorer, auditor>>
  BY DEF audit_append
<1>3. Grows /\ Chains' /\ Stored' /\ AnchorsGrounded'
  BY <1>1, <1>2, AppendGrows, GroundedAppend
<1> QED
  BY <1>2, <1>3, Together DEF CInv

-----------------------------------------------------------------------------
(* anchor_chains().                                                        *)

LEMMA AnchorerMoves ==
  ASSUME CInv, NEW a \in Anchorers, NEW local, AnchorerInv(local),
         UNCHANGED <<audit, store, auditor>>, anchorer' = [anchorer EXCEPT ![a] = local]
  PROVE  CInv'
<1>1. Grows /\ Chains' /\ Stored' /\ AnchorsGrounded'
  BY QuietGrows
<1>2. AnchorerInv(local)'
  BY <1>1, AnchorerStays DEF CInv
<1>3. ASSUME NEW b \in Anchorers
      PROVE  anchorer'[b] = anchorer[b] \/ AnchorerInv(anchorer[b])'
  <2>1. anchorer'[b] = anchorer[b] \/ anchorer'[b] = local
    BY DEF CInv
  <2> QED
    BY <1>2, <2>1
<1> QED
  BY <1>1, <1>3, Together DEF CInv

\* One head more: t's, as its chain has it or has had it.
LEMMA HeadSeen ==
  ASSUME CInv, NEW me, AnchorerInv(me), NEW t \in Tenants, NEW n \in 0..Size(chain[t]),
         NEW heads, NEW seen,
         heads = [u \in DOMAIN me.heads \cup {t} |->
                    IF u = t THEN PrevHash(chain[t], n) ELSE me.heads[u]],
         seen = [u \in DOMAIN me.seen \cup {t} |->
                   IF u = t THEN Prefix(chain[t], n) ELSE me.seen[u]]
  PROVE  Seen(seen) /\ heads = Heads(seen)
<1>1. Seen(me.seen) /\ me.heads = Heads(me.seen)
  BY DEF AnchorerInv
<1>2. /\ List(Prefix(chain[t], n)) /\ Size(Prefix(chain[t], n)) = n
      /\ \A i \in 0..n - 1 : Prefix(chain[t], n)[i] = chain[t][i]
      /\ n \in Nat /\ Size(chain[t]) \in Nat /\ n <= Size(chain[t])
  BY PrefixFacts, ListDomain DEF CInv, Chains
<1>3. Part(Prefix(chain[t], n), t)
  BY <1>2 DEF Part
<1>4. HeadOf(Prefix(chain[t], n)) = PrevHash(chain[t], n)
  BY <1>2 DEF HeadOf, PrevHash
<1>5. Seen(seen)
  BY <1>1, <1>2, <1>3 DEF Seen
<1>6. DOMAIN me.heads = DOMAIN me.seen /\ \A u \in DOMAIN me.seen : me.heads[u] = HeadOf(me.seen[u])
  BY <1>1 DEF Heads
<1>7. heads = Heads(seen)
  BY <1>4, <1>6 DEF Heads
<1> QED
  BY <1>5, <1>7

LEMMA HeadStep ==
  ASSUME CInv, NEW a \in Anchorers, NEW t \in anchorer[a].todo, NEW n \in 0..Size(chain[t]),
         chain_head(a, t, n)
  PROVE  CInv'
<1>1. PICK me : me = anchorer[a]
  OBVIOUS
<1>2. AnchorerInv(me) /\ t \in Tenants
  BY <1>1 DEF CInv, AnchorerInv
<1>3. PICK heads, seen :
        /\ heads = [u \in DOMAIN me.heads \cup {t} |->
                      IF u = t THEN PrevHash(chain[t], n) ELSE me.heads[u]]
        /\ seen = [u \in DOMAIN me.seen \cup {t} |->
                     IF u = t THEN Prefix(chain[t], n) ELSE me.seen[u]]
  OBVIOUS
<1>4. Seen(seen) /\ heads = Heads(seen)
  BY <1>2, <1>3, HeadSeen
<1>5. /\ UNCHANGED <<audit, store, auditor>>
      /\ me.pc = "heads"
      /\ anchorer' = [anchorer EXCEPT ![a] =
                        [me EXCEPT !.todo = me.todo \ {t}, !.heads = heads, !.seen = seen]]
  BY <1>1, <1>3 DEF chain_head, AnchorerTo
<1> DEFINE local == [me EXCEPT !.todo = me.todo \ {t}, !.heads = heads, !.seen = seen]
<1>6. DOMAIN me = {"pc", "todo", "heads", "seen", "location"}
  BY <1>2 DEF AnchorerInv
<1>7. DOMAIN local = DOMAIN me
  OBVIOUS
<1>8. local.pc = "heads"
  BY <1>5, <1>6
<1>9. local.todo = me.todo \ {t}
  BY <1>6
<1>10. local.heads = heads
  BY <1>6
<1>11. local.seen = seen
  BY <1>6
<1> HIDE DEF local
<1>12. AnchorerInv(local)
  BY <1>2, <1>4, <1>6, <1>7, <1>8, <1>9, <1>10, <1>11 DEF AnchorerInv
<1>13. anchorer' = [anchorer EXCEPT ![a] = local]
  BY <1>5 DEF local
<1> QED
  BY <1>5, <1>12, <1>13, AnchorerMoves

LEMMA StartStep ==
  ASSUME CInv, NEW a \in Anchorers, NEW tenants \in TenantLists, StartAnchor(a, tenants)
  PROVE  CInv'
<1> DEFINE local == [IdleAnchorer EXCEPT !.pc = "heads", !.todo = tenants]
<1>1. DOMAIN local = DOMAIN IdleAnchorer
  OBVIOUS
<1>2. local.pc = "heads" /\ local.todo = tenants /\ local.heads = NoHeads /\ local.seen = NoHeads
  BY DEF IdleAnchorer
<1>3. tenants \subseteq Tenants
  BY AnchorAssumption
<1>4. DOMAIN IdleAnchorer = {"pc", "todo", "heads", "seen", "location"}
  BY DEF IdleAnchorer
<1> HIDE DEF local
<1>5. AnchorerInv(local)
  BY <1>1, <1>2, <1>3, <1>4, NothingSeen DEF AnchorerInv
<1>6. UNCHANGED <<audit, store, auditor>> /\ anchorer' = [anchorer EXCEPT ![a] = local]
  BY DEF StartAnchor, AnchorerTo, local
<1> QED
  BY <1>5, <1>6, AnchorerMoves

LEMMA EndStep ==
  ASSUME CInv, NEW a \in Anchorers, EndAnchor(a) \/ AnchorRaises(a)
  PROVE  CInv'
<1>1. UNCHANGED <<audit, store, auditor>> /\ anchorer' = [anchorer EXCEPT ![a] = IdleAnchorer]
  BY DEF EndAnchor, AnchorRaises, AnchorerTo
<1> QED
  BY <1>1, AnchorerIdle, AnchorerMoves

LEMMA SequenceGrows ==
  ASSUME NEW s, IsSequence(s), NEW x
  PROVE  /\ IsSequence(Append(s, x)) /\ Len(s) \in Nat /\ DOMAIN s = 1..Len(s)
         /\ DOMAIN Append(s, x) = 1..Len(s) + 1
         /\ \A n \in DOMAIN s : Append(s, x)[n] = s[n]
         /\ Append(s, x)[Len(s) + 1] = x
<1> DEFINE R == {s[n] : n \in DOMAIN s} \cup {x}
           longer == Append(s, x)
<1>1. s \in Seq(R) /\ x \in R
  BY DEF IsSequence
<1> HIDE DEF R
<1>2. /\ Len(s) \in Nat /\ DOMAIN s = 1..Len(s)
      /\ longer \in Seq(R) /\ Len(longer) = Len(s) + 1
      /\ \A n \in DOMAIN s : longer[n] = s[n]
      /\ longer[Len(s) + 1] = x
  BY <1>1
<1>3. DOMAIN longer = 1..Len(longer)
  BY <1>2
<1> HIDE DEF longer
<1>4. longer \in Seq({longer[n] : n \in DOMAIN longer})
  BY <1>2, <1>3
<1> QED
  BY <1>2, <1>3, <1>4 DEF IsSequence, longer

LEMMA PutStep ==
  ASSUME CInv, NEW a \in Anchorers, put_anchor(a)
  PROVE  CInv'
<1>1. PICK me, anchor, loc :
        /\ me = anchorer[a] /\ loc = Len(anchors) + 1
        /\ anchor = [chain_heads |-> me.heads, merkle_root |-> merkle_root(me.heads)]
  OBVIOUS
<1>2. AnchorerInv(me) /\ Seen(me.seen) /\ me.heads = Heads(me.seen)
  BY <1>1 DEF CInv, AnchorerInv
<1> DEFINE local == [me EXCEPT !.pc = "notes", !.todo = DOMAIN me.heads, !.location = loc]
<1>3. /\ UNCHANGED <<audit, auditor>> /\ anchorer' = [anchorer EXCEPT ![a] = local]
      /\ anchors' = Append(anchors, anchor) /\ sealed' = Append(sealed, me.seen)
  BY <1>1 DEF put_anchor, AnchorerTo
<1>4. /\ IsSequence(anchors) /\ IsSequence(sealed) /\ DOMAIN sealed = DOMAIN anchors
  BY DEF CInv, Stored
<1>5. /\ IsSequence(anchors') /\ loc \in DOMAIN anchors' /\ anchors'[loc] = anchor
      /\ DOMAIN anchors' = DOMAIN anchors \cup {loc}
      /\ \A n \in DOMAIN anchors : anchors'[n] = anchors[n]
      /\ Len(anchors) \in Nat /\ DOMAIN anchors = 1..Len(anchors)
  <2>1. /\ IsSequence(anchors') /\ DOMAIN anchors' = 1..Len(anchors) + 1
        /\ anchors'[loc] = anchor /\ \A n \in DOMAIN anchors : anchors'[n] = anchors[n]
        /\ Len(anchors) \in Nat /\ DOMAIN anchors = 1..Len(anchors)
    BY <1>1, <1>3, <1>4, SequenceGrows
  <2> QED
    BY <1>1, <2>1
<1>6. /\ IsSequence(sealed') /\ sealed'[loc] = me.seen /\ DOMAIN sealed' = DOMAIN anchors'
      /\ \A n \in DOMAIN anchors : sealed'[n] = sealed[n]
  <2>1. /\ IsSequence(sealed') /\ DOMAIN sealed' = 1..Len(sealed) + 1
        /\ sealed'[Len(sealed) + 1] = me.seen /\ \A n \in DOMAIN sealed : sealed'[n] = sealed[n]
        /\ Len(sealed) \in Nat /\ DOMAIN sealed = 1..Len(sealed)
    BY <1>3, <1>4, SequenceGrows
  <2>2. Len(sealed) = Len(anchors)
    BY <1>4, <1>5, <2>1
  <2>3. loc = Len(sealed) + 1 /\ DOMAIN anchors' = 1..Len(sealed) + 1
    BY <1>1, <1>5, <2>2
  <2> QED
    BY <1>4, <2>1, <2>3
<1>7. Grows
  BY <1>3, <1>5, <1>6, ExtendsItself DEF Grows, CInv, Chains, audit
<1>8. Chains' /\ AnchorsGrounded'
  <2>1. Chains'
    BY <1>3 DEF CInv, Chains, audit
  <2>2. chain' = chain /\ damaged' = damaged
    BY <1>3 DEF audit
  <2> QED
    BY <1>5, <1>6, <2>1, <2>2 DEF CInv, AnchorsGrounded
<1>9. Stored'
  <2>1. ASSUME NEW n \in DOMAIN anchors  PROVE Seen(sealed[n])' /\ AnchorOf(anchors[n], sealed[n])'
    <3>1. PICK anc, seen : anc = anchors[n] /\ seen = sealed[n]
      OBVIOUS
    <3>2. Seen(seen)' /\ AnchorOf(anc, seen)'
      BY <1>7, <3>1, SeenStays, AnchorOfStays DEF CInv, Stored
    <3>3. anc = anchors'[n] /\ seen = sealed'[n]
      BY <1>5, <1>6, <3>1
    <3> QED
      BY <3>2, <3>3
  <2>2. AnchorOf(anchor, me.seen) /\ Seen(me.seen)
    BY <1>1, <1>2 DEF AnchorOf
  <2>3. PICK seen : seen = me.seen
    OBVIOUS
  <2>4. AnchorOf(anchor, seen)' /\ Seen(seen)'
    BY <1>7, <2>2, <2>3, SeenStays, AnchorOfStays DEF CInv
  <2>5. AnchorOf(anchors[loc], sealed[loc])' /\ Seen(sealed[loc])'
    BY <1>5, <1>6, <2>3, <2>4
  <2> QED
    BY <1>5, <1>6, <2>1, <2>5 DEF Stored
<1>10. AnchorerInv(local)'
  <2>1. DOMAIN me = {"pc", "todo", "heads", "seen", "location"}
    BY <1>2 DEF AnchorerInv
  <2>2. DOMAIN local = DOMAIN me
    OBVIOUS
  <2>3. local.pc = "notes"
    BY <2>1
  <2>4. local.todo = DOMAIN me.heads
    BY <2>1
  <2>5. local.location = loc
    BY <2>1
  <2>6. local.heads = me.heads
    BY <2>1
  <2>7. local.seen = me.seen
    BY <2>1
  <2> HIDE DEF local
  <2>8. DOMAIN me.heads = DOMAIN me.seen /\ DOMAIN me.seen \subseteq Tenants
    BY <1>2 DEF Heads, Seen
  <2>9. PICK moved : moved = local
    OBVIOUS
  <2>10. Seen(moved.seen)'
    <3>1. PICK seen : seen = me.seen
      OBVIOUS
    <3>2. Seen(seen)'
      BY <1>2, <1>7, <3>1, SeenStays DEF CInv
    <3> QED
      BY <2>7, <2>9, <3>1, <3>2
  <2>11. AnchorerInv(moved)'
    BY <1>1, <1>2, <1>5, <1>6, <2>1, <2>2, <2>3, <2>4, <2>5, <2>6, <2>7, <2>8, <2>9, <2>10
       DEF AnchorerInv
  <2> QED
    BY <2>9, <2>11
<1> HIDE DEF local
<1>11. ASSUME NEW b \in Anchorers
       PROVE  anchorer'[b] = anchorer[b] \/ AnchorerInv(anchorer[b])'
  <2>1. PICK moved : moved = local
    OBVIOUS
  <2>2. AnchorerInv(moved)'
    BY <1>10, <2>1
  <2>3. anchorer'[b] = anchorer[b] \/ anchorer'[b] = moved
    BY <1>3, <2>1 DEF CInv
  <2> QED
    BY <2>2, <2>3
<1> QED
  BY <1>3, <1>7, <1>8, <1>9, <1>11, Together DEF CInv

LEMMA NoteStep ==
  ASSUME CInv, NEW a \in Anchorers, NEW t \in Tenants, NoteAnchor(a, t)
  PROVE  CInv'
<1>1. PICK me, note : /\ me = anchorer[a]
                      /\ note = AnchorNote(me.location, merkle_root(me.heads))
  OBVIOUS
<1>2. AnchorerInv(me) /\ t \in me.todo /\ me.pc = "notes"
  BY <1>1 DEF CInv, NoteAnchor
<1> DEFINE local == [me EXCEPT !.todo = me.todo \ {t}]
<1>3. /\ UNCHANGED <<damaged, store, auditor>> /\ anchorer' = [anchorer EXCEPT ![a] = local]
      /\ chain' = [chain EXCEPT ![t] = Appended(chain[t], note)]
  BY <1>1 DEF NoteAnchor, AnchorerTo
<1>4. /\ note.location = me.location /\ note.root = merkle_root(me.heads)
  BY <1>1 DEF AnchorNote
<1>5. Grows /\ Chains' /\ Stored' /\ AnchorsGrounded'
  BY <1>2, <1>3, <1>4, AppendGrows, GroundedAppend DEF AnchorerInv
<1>6. AnchorerInv(local)
  <2>1. DOMAIN me = {"pc", "todo", "heads", "seen", "location"}
    BY <1>2 DEF AnchorerInv
  <2>2. /\ DOMAIN local = DOMAIN me /\ local.todo = me.todo \ {t} /\ local.pc = me.pc
        /\ local.heads = me.heads /\ local.seen = me.seen /\ local.location = me.location
    BY <2>1
  <2> HIDE DEF local
  <2> QED
    BY <1>2, <2>1, <2>2 DEF AnchorerInv
<1> HIDE DEF local
<1>7. ASSUME NEW b \in Anchorers
      PROVE  anchorer'[b] = anchorer[b] \/ AnchorerInv(anchorer[b])'
  <2>1. PICK moved : moved = local
    OBVIOUS
  <2>2. AnchorerInv(moved)'
    BY <1>5, <1>6, <2>1, AnchorerStays DEF CInv
  <2>3. anchorer'[b] = anchorer[b] \/ anchorer'[b] = moved
    BY <1>3, <2>1 DEF CInv
  <2> QED
    BY <2>2, <2>3
<1> QED
  BY <1>3, <1>5, <1>7, Together DEF CInv

LEMMA AnchorSteps ==
  ASSUME CInv, NEW a \in Anchorers, AnchorStep(a)
  PROVE  CInv'
BY StartStep, HeadStep, PutStep, NoteStep, EndStep DEF AnchorStep

-----------------------------------------------------------------------------
(* memwarden-verify.                                                       *)

LEMMA AuditorMoves ==
  ASSUME CInv, NEW v \in Auditors, NEW local, AuditorInv(local), AuditorTo(v, local)
  PROVE  CInv'
<1>1. UNCHANGED <<audit, store, anchorer>> /\ auditor' = [auditor EXCEPT ![v] = local]
  BY DEF AuditorTo
<1>2. Grows /\ Chains' /\ Stored' /\ AnchorsGrounded'
  BY <1>1, QuietGrows
<1>3. AuditorInv(local)'
  BY <1>2, AuditorStays DEF CInv
<1>4. ASSUME NEW w \in Auditors
      PROVE  auditor'[w] = auditor[w] \/ AuditorInv(auditor[w])'
  <2>1. auditor'[w] = auditor[w] \/ auditor'[w] = local
    BY <1>1 DEF CInv
  <2> QED
    BY <1>3, <2>1
<1> QED
  BY <1>1, <1>2, <1>4, Together DEF CInv

LEMMA FetchStep ==
  ASSUME CInv, NEW v \in Auditors, NEW t \in Tenants, FetchAnchor(v, t)
  PROVE  CInv'
<1>1. PICK latest, anchor :
        /\ latest = Len(anchors)
        /\ anchor = IF anchors = <<>> THEN IdleAuditor.anchor ELSE anchors[Len(anchors)]
  OBVIOUS
<1> DEFINE local == [IdleAuditor EXCEPT !.pc = "entries", !.tenant = t, !.latest = latest,
                                        !.anchor = anchor]
<1>2. AuditorTo(v, local)
  BY <1>1 DEF FetchAnchor
<1>3. DOMAIN IdleAuditor =
        {"pc", "tenant", "latest", "anchor", "entries", "fresh", "chain_ok", "anchor_ok"}
  BY DEF IdleAuditor
<1>4. DOMAIN local = DOMAIN IdleAuditor /\ local.pc = "entries" /\ local.tenant = t
  BY <1>3
<1>5. local.latest = latest /\ local.anchor = anchor
  BY <1>3
<1>6. local.entries = EmptyChain
  BY DEF IdleAuditor
<1> HIDE DEF local
<1>7. /\ latest \in {0} \cup DOMAIN anchors
      /\ latest # 0 => AnchorOf(anchor, sealed[latest])
  <2>1. Len(anchors) \in Nat /\ DOMAIN anchors = 1..Len(anchors)
    BY SequenceGrows DEF CInv, Stored
  <2>2. latest # 0 => latest \in DOMAIN anchors /\ anchors # <<>>
    BY <1>1, <2>1
  <2> QED
    BY <1>1, <2>1, <2>2 DEF CInv, Stored
<1>8. Part(EmptyChain, t)
  <2>1. List(chain[t]) /\ Size(chain[t]) \in Nat
    BY ListDomain DEF CInv, Chains
  <2>2. 0..0 - 1 = {}
    OBVIOUS
  <2> QED
    BY <2>1, <2>2, EmptyList DEF Part, EmptyChain, Prefix
<1>9. AuditorInv(local)
  BY <1>3, <1>4, <1>5, <1>6, <1>7, <1>8, EmptyList DEF AuditorInv
<1> QED
  BY <1>2, <1>9, AuditorMoves

\* What has been read, with a page of the chain as it is now.
LEMMA PageFacts ==
  ASSUME CInv, NEW v \in Auditors, NEW n \in Nat, Size(auditor[v].entries) <= n,
         n = Size(auditor[v].entries) \/ n <= Size(chain[auditor[v].tenant])
  PROVE  /\ List(Page(v, n)) /\ Size(Page(v, n)) = n
         /\ Part(Page(v, n), auditor[v].tenant)
<1>1. PICK old, now, t : /\ old = auditor[v].entries /\ t = auditor[v].tenant /\ now = chain[t]
  OBVIOUS
<1>2. /\ List(old) /\ Part(old, t) /\ t \in Tenants /\ List(now) /\ Size(old) \in Nat
      /\ Size(now) \in Nat
  <2>1. List(old) /\ Part(old, t) /\ t \in Tenants
    BY <1>1 DEF CInv, AuditorInv
  <2>2. List(now)
    BY <1>1, <2>1 DEF CInv, Chains
  <2> QED
    BY <2>1, <2>2, ListDomain
<1>3. PICK page : page = Page(v, n)
  OBVIOUS
<1>4. page = [i \in 0..n - 1 |-> IF i < Size(old) THEN old[i] ELSE now[i]]
  BY <1>1, <1>3 DEF Page
<1>5. Size(old) <= n /\ (n = Size(old) \/ n <= Size(now))
  BY <1>1
<1>6. Size(page) = n
  BY <1>4, SizeIs
<1>7. \A i \in 0..n - 1 : IsEntry(page[i])
  BY <1>2, <1>4, <1>5 DEF List
<1>8. page = [i \in 0..n - 1 |-> page[i]]
  BY <1>4
<1>9. List(page)
  BY <1>6, <1>7, <1>8 DEF List
<1>10. ASSUME t \notin damaged
       PROVE  n <= Size(now) /\ page = Prefix(now, n)
  <2>1. Size(old) <= Size(now) /\ old = Prefix(now, Size(old))
    BY <1>1, <1>10, <1>2 DEF Part
  <2>2. \A i \in 0..Size(old) - 1 : old[i] = now[i]
    BY <1>2, <2>1, PrefixFacts
  <2>3. \A i \in 0..n - 1 : page[i] = now[i]
    BY <1>2, <1>4, <2>2
  <2>4. page = Prefix(now, n)
    BY <1>8, <2>3 DEF Prefix
  <2> QED
    BY <1>2, <1>5, <2>1, <2>4
<1>11. Part(page, t)
  BY <1>1, <1>6, <1>10 DEF Part
<1> QED
  BY <1>1, <1>3, <1>6, <1>9, <1>11

LEMMA PageStep ==
  ASSUME CInv, NEW v \in Auditors, NEW n \in 0..Size(auditor[v].entries) + PageSize,
         ReadPage(v, n)
  PROVE  CInv'
<1>1. PICK me, page : me = auditor[v] /\ page = Page(v, n)
  OBVIOUS
<1>2. AuditorInv(me) /\ me.pc = "entries" /\ Size(me.entries) \in Nat
  BY <1>1, ListDomain DEF CInv, ReadPage, AuditorInv
<1>3. n \in Nat /\ Size(me.entries) <= n /\ n <= Size(chain[me.tenant])
  BY <1>1, <1>2, AnchorAssumption DEF ReadPage
<1>4. List(page) /\ Part(page, me.tenant)
  BY <1>1, <1>3, PageFacts
<1> DEFINE local == [me EXCEPT !.entries = page]
<1>5. AuditorTo(v, local)
  BY <1>1 DEF ReadPage
<1>6. DOMAIN me = {"pc", "tenant", "latest", "anchor", "entries", "fresh", "chain_ok", "anchor_ok"}
  BY <1>2 DEF AuditorInv
<1>7. /\ DOMAIN local = DOMAIN me /\ local.entries = page /\ local.pc = "entries"
      /\ local.tenant = me.tenant /\ local.latest = me.latest /\ local.anchor = me.anchor
  BY <1>2, <1>6
<1> HIDE DEF local
<1>8. AuditorInv(local)
  BY <1>2, <1>4, <1>6, <1>7 DEF AuditorInv
<1> QED
  BY <1>5, <1>8, AuditorMoves

LEMMA LastPageStep ==
  ASSUME CInv, NEW v \in Auditors, NEW n \in 0..Size(auditor[v].entries) + PageSize,
         ReadLastPage(v, n)
  PROVE  CInv'
<1>1. PICK me, page : me = auditor[v] /\ page = Page(v, n)
  OBVIOUS
<1>2. /\ AuditorInv(me) /\ me.pc = "entries" /\ me.tenant \in Tenants
      /\ Size(me.entries) \in Nat /\ Size(chain[me.tenant]) \in Nat
  <2>1. AuditorInv(me) /\ me.pc = "entries"
    BY <1>1 DEF CInv, ReadLastPage
  <2>2. List(me.entries) /\ me.tenant \in Tenants
    BY <2>1 DEF AuditorInv
  <2>3. List(chain[me.tenant])
    BY <2>2 DEF CInv, Chains
  <2> QED
    BY <2>1, <2>2, <2>3, ListDomain
<1>3. /\ n \in Nat /\ Size(me.entries) <= n
      /\ n = Size(me.entries) \/ n <= Size(chain[me.tenant])
  BY <1>1, <1>2, AnchorAssumption DEF ReadLastPage
<1>4. List(page) /\ Size(page) = n /\ Part(page, me.tenant)
  BY <1>1, <1>3, PageFacts
<1>5. PICK atEnd \in BOOLEAN : atEnd <=> n >= Size(chain[me.tenant])
  OBVIOUS
<1> DEFINE local == [me EXCEPT !.pc = "judge", !.entries = page, !.fresh = atEnd]
<1>6. AuditorTo(v, local)
  <2>1. atEnd = (n >= Size(chain[me.tenant]))
    BY <1>2, <1>3, <1>5
  <2> QED
    BY <1>1, <2>1 DEF ReadLastPage
<1>7. DOMAIN me = {"pc", "tenant", "latest", "anchor", "entries", "fresh", "chain_ok", "anchor_ok"}
  BY <1>2 DEF AuditorInv
<1>8. DOMAIN local = DOMAIN me /\ local.pc = "judge"
  BY <1>7
<1>9. local.entries = page
  BY <1>7
<1>10. local.fresh = atEnd
  BY <1>7
<1>11. local.tenant = me.tenant /\ local.latest = me.latest /\ local.anchor = me.anchor
  BY <1>7
<1> HIDE DEF local
<1>12. ASSUME local.fresh, Sealing(local), local.tenant \notin damaged
       PROVE  Size(sealed[local.latest][local.tenant]) <= Size(local.entries)
  <2>1. n >= Size(chain[me.tenant])
    BY <1>5, <1>10, <1>12
  <2>2. me.latest \in DOMAIN anchors /\ me.tenant \in DOMAIN sealed[me.latest]
    BY <1>2, <1>11, <1>12 DEF Sealing, AuditorInv
  <2>3. PICK sealing : sealing = sealed[me.latest][me.tenant]
    OBVIOUS
  <2>4. List(sealing) /\ Part(sealing, me.tenant)
    BY <2>2, <2>3 DEF CInv, Stored, Seen
  <2>5. Size(sealing) <= Size(chain[me.tenant]) /\ Size(sealing) \in Nat
    BY <1>11, <1>12, <2>4 DEF Part, List
  <2> QED
    BY <1>2, <1>3, <1>4, <1>9, <1>11, <2>1, <2>3, <2>5
<1>13. AuditorInv(local)
  BY <1>2, <1>4, <1>7, <1>8, <1>9, <1>11, <1>12 DEF AuditorInv
<1> QED
  BY <1>6, <1>13, AuditorMoves

LEMMA JudgeStep ==
  ASSUME CInv, NEW v \in Auditors, Judge(v)
  PROVE  CInv'
<1>1. PICK me : me = auditor[v]
  OBVIOUS
<1>2. AuditorInv(me) /\ me.pc = "judge"
  BY <1>1 DEF CInv, Judge
<1>3. PICK sound \in BOOLEAN, fits \in BOOLEAN :
        /\ sound = verify(me.entries)
        /\ fits = (verify(me.entries) /\ me.latest # 0 => HeadOnChain(me) /\ root_ok(me))
  BY DEF verify
<1> DEFINE local == [me EXCEPT !.pc = "done", !.chain_ok = sound, !.anchor_ok = fits]
<1>4. AuditorTo(v, local)
  BY <1>1, <1>3 DEF Judge, verify_tenant
<1>5. DOMAIN me = {"pc", "tenant", "latest", "anchor", "entries", "fresh", "chain_ok", "anchor_ok"}
  BY <1>2 DEF AuditorInv
<1>6. DOMAIN local = DOMAIN me /\ local.pc = "done"
  BY <1>5
<1>7. local.chain_ok = sound
  BY <1>5
<1>8. local.anchor_ok = fits
  BY <1>5
<1>9. /\ local.entries = me.entries /\ local.fresh = me.fresh
      /\ local.tenant = me.tenant /\ local.latest = me.latest /\ local.anchor = me.anchor
  BY <1>5
<1> HIDE DEF local
<1>10. /\ HeadOnChain(local) <=> HeadOnChain(me)
       /\ root_ok(local) <=> root_ok(me)
       /\ Sealing(local) <=> Sealing(me)
  BY <1>9 DEF HeadOnChain, root_ok, Sealing
<1>11. AuditorInv(local)
  BY <1>2, <1>3, <1>5, <1>6, <1>7, <1>8, <1>9, <1>10 DEF AuditorInv
<1> QED
  BY <1>4, <1>11, AuditorMoves

LEMMA AuditSteps ==
  ASSUME CInv, NEW v \in Auditors, AuditStep(v)
  PROVE  CInv'
<1>1. ASSUME NextAudit(v)  PROVE CInv'
  BY <1>1, AuditorIdle, AuditorMoves DEF NextAudit, CInv
<1> QED
  BY <1>1, FetchStep, PageStep, LastPageStep, JudgeStep DEF AuditStep

-----------------------------------------------------------------------------
(* Damage.                                                                 *)

LEMMA DamagedList ==
  ASSUME NEW entries, List(entries), NEW other \in DamagedForms(entries)
  PROVE  List(other)
<1> DEFINE n == Size(entries)
           Replaced(i, e) == [entries EXCEPT ![i] = e]
<1>1. n \in Nat /\ DOMAIN entries = 0..n - 1 /\ \A i \in 0..n - 1 : IsEntry(entries[i])
  BY ListDomain DEF List
<1> HIDE DEF n
<1>2. ASSUME NEW longer, NEW m \in Nat, DOMAIN longer = 0..m - 1,
             longer = [i \in 0..m - 1 |-> longer[i]], \A i \in 0..m - 1 : IsEntry(longer[i])
      PROVE  List(longer)
  <2>1. Size(longer) = m
    BY <1>2, SizeIs
  <2> QED
    BY <1>2, <2>1 DEF List
<1>3. ASSUME NEW i \in 0..n - 1, NEW e, IsEntry(e)  PROVE List(Replaced(i, e))
  <2>1. PICK changed : changed = Replaced(i, e)
    OBVIOUS
  <2>2. DOMAIN changed = 0..n - 1 /\ changed = [j \in 0..n - 1 |-> changed[j]]
    BY <1>1, <2>1
  <2>3. \A j \in 0..n - 1 : IsEntry(changed[j])
    BY <1>1, <1>3, <2>1
  <2> QED
    BY <1>1, <1>2, <2>1, <2>2, <2>3
<1>4. ASSUME NEW m \in 0..n - 1  PROVE List(Prefix(entries, m))
  <2>1. m \in 0..Size(entries)
    BY <1>1 DEF n
  <2> QED
    BY <2>1, PrefixFacts
<1>5. ASSUME NEW i \in 0..n - 1, NEW op
      PROVE  List(Replaced(i, [entries[i] EXCEPT !.payload = Operation(op)]))
  <2>1. PICK e, changed : e = entries[i] /\ changed = [e EXCEPT !.payload = Operation(op)]
    OBVIOUS
  <2>2. /\ e = [seq |-> e.seq, payload |-> e.payload, prev_hash |-> e.prev_hash,
                 entry_hash |-> e.entry_hash]
        /\ IsHash(e.entry_hash)
    BY <1>1, <2>1 DEF IsEntry
  <2>3. DOMAIN e = {"seq", "payload", "prev_hash", "entry_hash"}
    BY <2>2
  <2>4. /\ DOMAIN changed = {"seq", "payload", "prev_hash", "entry_hash"}
        /\ changed.entry_hash = e.entry_hash
        /\ changed = [x \in DOMAIN e |-> changed[x]]
    BY <2>1, <2>3
  <2>5. changed = [seq |-> changed.seq, payload |-> changed.payload,
                   prev_hash |-> changed.prev_hash, entry_hash |-> changed.entry_hash]
    BY <2>3, <2>4
  <2>6. IsEntry(changed)
    BY <2>2, <2>4, <2>5 DEF IsEntry
  <2> QED
    BY <1>3, <2>1, <2>6
<1>6. ASSUME NEW i \in 0..n - 1, NEW op
      PROVE  List(Replaced(i, entry(i - 1, PrevHash(entries, i), Operation(op))))
  BY <1>3, EntryIsEntry
<1>7. ASSUME NEW i \in 0..n - 1
      PROVE  List([j \in 0..n - 2 |-> entries[IF j < i THEN j ELSE j + 1]])
  <2>1. PICK shorter : shorter = [j \in 0..n - 2 |-> entries[IF j < i THEN j ELSE j + 1]]
    OBVIOUS
  <2>2. n - 1 \in Nat /\ (n - 1) - 1 = n - 2
    BY <1>1
  <2>3. DOMAIN shorter = 0..n - 2 /\ shorter = [j \in 0..n - 2 |-> shorter[j]]
    BY <2>1
  <2>4. \A j \in 0..n - 2 : IsEntry(shorter[j])
    BY <1>1, <2>1
  <2> QED
    BY <1>2, <2>1, <2>2, <2>3, <2>4
<1>8. ASSUME NEW i \in 0..n - 2
      PROVE  List([Replaced(i, entries[i + 1]) EXCEPT ![i + 1] = entries[i]])
  <2>1. PICK swapped : swapped = [Replaced(i, entries[i + 1]) EXCEPT ![i + 1] = entries[i]]
    OBVIOUS
  <2>2. DOMAIN swapped = 0..n - 1 /\ swapped = [j \in 0..n - 1 |-> swapped[j]]
    BY <1>1, <2>1
  <2>3. i \in 0..n - 1 /\ i + 1 \in 0..n - 1
    BY <1>1
  <2>4. \A j \in 0..n - 1 : IsEntry(swapped[j])
    BY <1>1, <2>1, <2>3
  <2> QED
    BY <1>1, <1>2, <2>1, <2>2, <2>4
<1> DEFINE tailLost == {Prefix(entries, m) : m \in 0..n - 1}
           changed  == {Replaced(i, [entries[i] EXCEPT !.payload = Operation(op)]) :
                          i \in 0..n - 1, op \in Ops}
           forged   == {Replaced(i, entry(i - 1, PrevHash(entries, i), Operation(op))) :
                          i \in 0..n - 1, op \in Ops}
           lost     == {[j \in 0..n - 2 |-> entries[IF j < i THEN j ELSE j + 1]] : i \in 0..n - 1}
           swapped  == {[Replaced(i, entries[i + 1]) EXCEPT ![i + 1] = entries[i]] :
                          i \in 0..n - 2}
<1>9. other \in tailLost \cup changed \cup forged \cup lost \cup swapped
  BY DEF DamagedForms, n
<1> HIDE DEF Replaced
<1>10. (\A l \in tailLost : List(l)) /\ (\A l \in lost : List(l)) /\ \A l \in swapped : List(l)
  BY <1>4, <1>7, <1>8
<1>11. ASSUME NEW l \in changed  PROVE List(l)
  <2>1. PICK i \in 0..n - 1, op \in Ops :
          l = Replaced(i, [entries[i] EXCEPT !.payload = Operation(op)])
    OBVIOUS
  <2> QED
    BY <1>5, <2>1
<1>12. ASSUME NEW l \in forged  PROVE List(l)
  <2>1. PICK i \in 0..n - 1, op \in Ops :
          l = Replaced(i, entry(i - 1, PrevHash(entries, i), Operation(op)))
    OBVIOUS
  <2> QED
    BY <1>6, <2>1
<1> QED
  BY <1>9, <1>10, <1>11, <1>12

LEMMA DamageChainStep ==
  ASSUME CInv, NEW t \in Tenants, DamageChain(t)
  PROVE  CInv'
<1>1. PICK entries \in DamagedForms(chain[t]) : chain' = [chain EXCEPT ![t] = entries]
  BY DEF DamageChain
<1>2. damaged' = damaged \cup {t} /\ UNCHANGED <<store, anchorer, auditor>>
  BY DEF DamageChain
<1>3. List(entries)
  BY <1>1, DamagedList DEF CInv, Chains
<1>4. DOMAIN chain' = Tenants /\ chain'[t] = entries /\ \A u \in Tenants \ {t} : chain'[u] = chain[u]
  BY <1>1 DEF CInv, Chains
<1>5. Chains'
  BY <1>2, <1>3, <1>4 DEF CInv, Chains
<1>6. Grows
  BY <1>2, <1>4, ExtendsItself DEF Grows, CInv, Chains, store
<1>7. AnchorsGrounded'
  BY <1>2, <1>4 DEF CInv, AnchorsGrounded, store
<1>8. Stored'
  BY <1>2, <1>6, StoredStays DEF CInv
<1> QED
  BY <1>2, <1>5, <1>6, <1>7, <1>8, Together DEF CInv

LEMMA DamageAnchorStep ==
  ASSUME CInv, NEW n \in DOMAIN anchors, NEW t \in Tenants, DamageAnchor(n, t)
  PROVE  CInv'
<1>1. /\ "anchor" \notin damaged /\ t \in DOMAIN anchors[n].chain_heads
      /\ damaged' = damaged \cup {"anchor"} /\ UNCHANGED <<chain, sealed, anchorer, auditor>>
  BY DEF DamageAnchor
<1>2. PICK i \in 0..Size(chain[t]) :
        anchors' = [anchors EXCEPT ![n] =
                     [anchors[n] EXCEPT !.chain_heads =
                        [anchors[n].chain_heads EXCEPT ![t] = PrevHash(chain[t], i)]]]
  BY DEF DamageAnchor
<1>3. PICK hash, old, seen : hash = PrevHash(chain[t], i) /\ old = anchors[n] /\ seen = sealed[n]
  OBVIOUS
<1>4. IsHash(hash)
  BY <1>2, <1>3, HeadIsHash DEF CInv, Chains
<1>5. AnchorOf(old, seen) /\ Seen(seen) /\ old.chain_heads = Heads(seen) /\ t \in DOMAIN seen
  BY <1>1, <1>3 DEF CInv, Stored, AnchorOf, Heads
<1> DEFINE new == [old EXCEPT !.chain_heads = [old.chain_heads EXCEPT ![t] = hash]]
<1>6. anchors' = [anchors EXCEPT ![n] = new]
  BY <1>2, <1>3
<1>7. new.merkle_root = old.merkle_root
  OBVIOUS
<1>8. new.chain_heads = [Heads(seen) EXCEPT ![t] = hash]
  BY <1>5 DEF AnchorOf
<1>9. DOMAIN new = DOMAIN old
  OBVIOUS
<1> HIDE DEF new
<1>10. AnchorOf(new, seen)'
  <2>1. "anchor" \in damaged'
    BY <1>1
  <2> QED
    BY <1>4, <1>5, <1>7, <1>8, <1>9, <2>1 DEF AnchorOf
<1>11. /\ DOMAIN anchors' = DOMAIN anchors /\ anchors'[n] = new
       /\ \A m \in DOMAIN anchors : m # n => anchors'[m] = anchors[m]
  BY <1>6
<1>12. \A m \in DOMAIN anchors : anchors'[m].merkle_root = anchors[m].merkle_root
  BY <1>3, <1>7, <1>11
<1>13. Grows
  BY <1>1, <1>11, <1>12, ExtendsItself DEF Grows, CInv, Chains
<1>14. Chains'
  BY <1>1 DEF CInv, Chains
<1>15. AnchorsGrounded'
  BY <1>1, <1>11, <1>12 DEF CInv, AnchorsGrounded
<1>16. ASSUME NEW m \in DOMAIN anchors  PROVE Seen(sealed[m])' /\ AnchorOf(anchors[m], sealed[m])'
  <2>1. PICK anchor, its : anchor = anchors[m] /\ its = sealed[m]
    OBVIOUS
  <2>2. Seen(its)' /\ AnchorOf(anchor, its)'
    BY <1>13, <2>1, SeenStays, AnchorOfStays DEF CInv, Stored
  <2>3. PICK it : it = anchors'[m]
    OBVIOUS
  <2>4. AnchorOf(it, its)'
    BY <1>3, <1>10, <1>11, <2>1, <2>2, <2>3
  <2>5. its = sealed'[m]
    BY <1>1, <2>1
  <2> QED
    BY <2>2, <2>3, <2>4, <2>5
<1>17. IsSequence(anchors')
  <2>1. IsSequence(anchors) /\ IsSequence(sealed) /\ DOMAIN sealed = DOMAIN anchors
    BY DEF CInv, Stored
  <2>2. PICK len \in Nat : DOMAIN anchors = 1..len
    BY <2>1, SequenceGrows
  <2>3. anchors' = [m \in 1..len |-> anchors'[m]]
    BY <1>6, <2>2
  <2>4. PICK image : image = {anchors'[m] : m \in DOMAIN anchors'}
    OBVIOUS
  <2>5. \A m \in 1..len : anchors'[m] \in image
    BY <1>11, <2>2, <2>4
  <2>6. anchors' \in Seq(image)
    BY <2>3, <2>5
  <2> QED
    BY <2>4, <2>6 DEF IsSequence
<1>18. Stored'
  BY <1>1, <1>11, <1>16, <1>17 DEF Stored, CInv
<1> QED
  BY <1>1, <1>13, <1>14, <1>15, <1>18, Together DEF CInv

LEMMA InvStep == CInv /\ [Next]_vars => CInv'
<1>1. ASSUME CInv, UNCHANGED vars  PROVE CInv'
  <2>1. UNCHANGED <<audit, store, anchorer, auditor>>
    BY <1>1 DEF vars
  <2>2. Grows /\ Chains' /\ Stored' /\ AnchorsGrounded'
    BY <1>1, <2>1, QuietGrows
  <2> QED
    BY <1>1, <2>1, <2>2, Together DEF CInv
<1> QED
  BY <1>1, AppendStep, AnchorSteps, AuditSteps, DamageChainStep, DamageAnchorStep DEF Next

LEMMA Invariant == Spec => []CInv
BY InvInit, InvStep, PTL DEF Spec

-----------------------------------------------------------------------------
(* The theorems.                                                           *)

LEMMA ListIsChain ==
  ASSUME NEW entries, List(entries)  PROVE IsChain(entries)
BY ListDomain DEF List, IsChain, IsEntry

\* Chains, anchors and what verifiers hold keep their shapes, however runs
\* interleave, wherever they raise and whatever is damaged.
THEOREM AnchorTypeCorrect == Spec => []TypeOK
<1>1. CInv => TypeOK
  <2> SUFFICES ASSUME CInv PROVE TypeOK
    OBVIOUS
  <2>1. \A t \in Tenants : IsChain(chain[t])
    BY ListIsChain DEF CInv, Chains
  <2>2. ASSUME NEW n \in DOMAIN anchors
        PROVE  /\ DOMAIN anchors[n].chain_heads = DOMAIN sealed[n] /\ DOMAIN sealed[n] \subseteq Tenants
               /\ \A t \in DOMAIN sealed[n] : IsChain(sealed[n][t])
    <3>1. Seen(sealed[n]) /\ AnchorOf(anchors[n], sealed[n])
      BY DEF CInv, Stored
    <3>2. DOMAIN anchors[n].chain_heads = DOMAIN sealed[n]
      BY <3>1 DEF AnchorOf, Heads
    <3> QED
      BY <3>1, <3>2, ListIsChain DEF Seen
  <2>3. ASSUME NEW v \in Auditors
        PROVE  auditor[v].tenant \in Tenants /\ auditor[v].latest \in Nat
               /\ IsChain(auditor[v].entries)
    <3>1. AuditorInv(auditor[v])
      BY DEF CInv
    <3>2. DOMAIN anchors = 1..Len(anchors) /\ Len(anchors) \in Nat
      BY SequenceGrows DEF CInv, Stored
    <3> QED
      BY <3>1, <3>2, ListIsChain DEF AuditorInv
  <2> QED
    BY <2>1, <2>2, <2>3 DEF TypeOK, CInv, Chains, Stored, IsSequence, AnchorerInv
<1> QED
  BY <1>1, Invariant, PTL

\* anchor_chains() stores an anchor before it announces it on any chain
\* (anchor.py:35-37): whatever a sound chain says of an anchor is so, also of
\* runs that raised between the store and the last chain.
THEOREM NotesAlwaysGrounded == Spec => []AnchorsGrounded
BY Invariant, PTL DEF CInv

\* memwarden-verify accepts a sound chain it read to the end against a sound
\* anchor that covers it (verify_cli.py:25-29): anchoring one head after the
\* other and reading page by page between appends raise no false alarm.
THEOREM SoundAlwaysAccepted == Spec => []SoundChainAccepted
<1>1. CInv => SoundChainAccepted
  <2> SUFFICES ASSUME CInv, NEW v \in Auditors, NEW me, me = auditor[v],
                      me.pc = "done", me.fresh, Undamaged(me), Anchored(me),
                      me.anchor.chain_heads[me.tenant] # GENESIS
               PROVE  Accepted(me)
    BY DEF SoundChainAccepted
  <2>1. AuditorInv(me)
    BY DEF CInv
  <2>2. /\ List(me.entries) /\ Part(me.entries, me.tenant) /\ me.tenant \in Tenants
        /\ me.latest \in DOMAIN anchors /\ AnchorOf(me.anchor, sealed[me.latest])
    BY <2>1 DEF AuditorInv, Anchored
  <2>3. me.anchor.chain_heads = Heads(sealed[me.latest]) /\ root_ok(me)
    BY <2>2 DEF AnchorOf, Undamaged, root_ok
  <2>4. PICK sealing : sealing = sealed[me.latest][me.tenant]
    OBVIOUS
  <2>5. me.tenant \in DOMAIN sealed[me.latest] /\ me.anchor.chain_heads[me.tenant] = HeadOf(sealing)
    BY <2>3, <2>4 DEF Anchored, Heads
  <2>6. List(sealing) /\ Part(sealing, me.tenant)
    BY <2>2, <2>4, <2>5 DEF CInv, Stored, Seen
  <2>7. Size(sealing) <= Size(me.entries)
    BY <2>1, <2>4, <2>5 DEF AuditorInv, Sealing, Anchored, Undamaged
  <2>8. /\ Size(sealing) \in Nat \ {0} /\ Size(me.entries) \in Nat
        /\ HeadOf(sealing) = sealing[Size(sealing) - 1].entry_hash
    BY <2>2, <2>5, <2>6, ListDomain DEF HeadOf, PrevHash
  <2>9. PICK now : now = chain[me.tenant]
    OBVIOUS
  <2>10. /\ List(now) /\ verify(now) /\ Size(me.entries) \in 0..Size(now)
         /\ Size(sealing) \in 0..Size(now)
         /\ me.entries = Prefix(now, Size(me.entries)) /\ sealing = Prefix(now, Size(sealing))
    BY <2>2, <2>6, <2>8, <2>9, ListDomain DEF Part, Undamaged, CInv, Chains
  <2>11. verify(me.entries)
    BY <2>10, PrefixVerifies
  <2>12. me.entries[Size(sealing) - 1] = sealing[Size(sealing) - 1]
    <3>1. \A i \in 0..Size(me.entries) - 1 : Prefix(now, Size(me.entries))[i] = now[i]
      BY <2>10, PrefixFacts
    <3>2. \A i \in 0..Size(sealing) - 1 : Prefix(now, Size(sealing))[i] = now[i]
      BY <2>10, PrefixFacts
    <3>3. Size(sealing) - 1 \in 0..Size(me.entries) - 1 /\ Size(sealing) - 1 \in 0..Size(sealing) - 1
      BY <2>7, <2>8
    <3>4. me.entries[Size(sealing) - 1] = now[Size(sealing) - 1]
      BY <2>10, <3>1, <3>3
    <3>5. sealing[Size(sealing) - 1] = now[Size(sealing) - 1]
      BY <2>10, <3>2, <3>3
    <3> QED
      BY <3>4, <3>5
  <2>13. Size(sealing) - 1 \in DOMAIN me.entries
    BY <2>2, <2>7, <2>8, ListDomain
  <2>14. HeadOnChain(me)
    BY <2>5, <2>8, <2>12, <2>13 DEF HeadOnChain, on_chain, Anchored
  <2> QED
    BY <2>1, <2>3, <2>11, <2>14 DEF AuditorInv, Accepted
<1> QED
  BY <1>1, Invariant, PTL

-----------------------------------------------------------------------------
(* What an accepted chain must hold.  Hashes are taken to have no          *)
(* collisions: an entry's hash tells its predecessor's and its body, and   *)
(* the root of the tree changes with any one of the heads under it.        *)

EntryHashBinds ==
  \A p, q, b, c : _entry_hash(p, b) = _entry_hash(q, c) => p = q /\ b = c

RootBinds ==
  \A heads, x : \A t \in DOMAIN heads :
    /\ DOMAIN heads \subseteq Tenants /\ \A u \in DOMAIN heads : IsHash(heads[u])
    /\ IsHash(x) /\ x # heads[t]
    => merkle_root([heads EXCEPT ![t] = x]) # merkle_root(heads)

LEMMA OrderWellFounded == IsWellFoundedOn({p \in Nat \X Nat : p[1] < p[2]}, Nat)
BY NatLessThanWellFounded DEF OpToRel

LEMMA LeastExists ==
  ASSUME NEW S \in SUBSET Nat, S # {}
  PROVE  \E n \in S : \A m \in S : n <= m
<1> DEFINE Less == {p \in Nat \X Nat : p[1] < p[2]}
<1>1. PICK n \in S : \A m \in S : <<m, n>> \notin Less
  <2> HIDE DEF Less
  <2> QED BY OrderWellFounded, WFMin DEF Less
<1>2. ASSUME NEW m \in S  PROVE n <= m
  <2>1. m \in Nat /\ n \in Nat /\ <<m, n>> \in Nat \X Nat
    OBVIOUS
  <2>2. ~(m < n)
    BY <1>1, <2>1
  <2> QED
    BY <2>1, <2>2
<1> QED
  BY <1>2

\* Two entries with one hash on lists that replay are at one place, report the
\* same and follow the same hash.
LEMMA OneHash ==
  ASSUME EntryHashBinds, NEW e, NEW f, List(e), List(f), verify(e), verify(f),
         NEW i \in 0..Size(e) - 1, NEW j \in 0..Size(f) - 1,
         e[i].entry_hash = f[j].entry_hash
  PROVE  i = j /\ e[i] = f[j] /\ PrevHash(e, i) = PrevHash(f, j)
<1>1. i \in DOMAIN e /\ j \in DOMAIN f
  BY ListDomain
<1>2. /\ e[i].seq = i /\ e[i].prev_hash = PrevHash(e, i)
      /\ e[i].entry_hash = _entry_hash(PrevHash(e, i), body(e[i].seq, e[i].payload))
  BY <1>1 DEF verify, BadEntry
<1>3. /\ f[j].seq = j /\ f[j].prev_hash = PrevHash(f, j)
      /\ f[j].entry_hash = _entry_hash(PrevHash(f, j), body(f[j].seq, f[j].payload))
  BY <1>1 DEF verify, BadEntry
<1>4. /\ PrevHash(e, i) = PrevHash(f, j)
      /\ body(e[i].seq, e[i].payload) = body(f[j].seq, f[j].payload)
  <2>1. PICK p, q, b, c : /\ p = PrevHash(e, i) /\ b = body(e[i].seq, e[i].payload)
                          /\ q = PrevHash(f, j) /\ c = body(f[j].seq, f[j].payload)
    OBVIOUS
  <2>2. _entry_hash(p, b) = _entry_hash(q, c)
    BY <1>2, <1>3, <2>1
  <2>3. p = q /\ b = c
    BY <2>2 DEF EntryHashBinds
  <2> QED
    BY <2>1, <2>3
<1>5. e[i].seq = f[j].seq /\ e[i].payload = f[j].payload
  BY <1>4 DEF body
<1>6. IsEntry(e[i]) /\ IsEntry(f[j])
  BY DEF List
<1>7. e[i] = f[j]
  BY <1>2, <1>3, <1>4, <1>5, <1>6 DEF IsEntry
<1> QED
  BY <1>2, <1>3, <1>4, <1>5, <1>7

\* A list that carries the head of another one begins with it.
LEMMA HeadTellsAll ==
  ASSUME EntryHashBinds, NEW e, NEW f, List(e), List(f), verify(e), verify(f),
         Size(f) # 0, on_chain(e, HeadOf(f))
  PROVE  \A i \in DOMAIN f : i \in DOMAIN e /\ e[i] = f[i]
<1> DEFINE n == Size(f) - 1
<1>1. n \in Nat /\ DOMAIN f = 0..n /\ Size(e) \in Nat /\ DOMAIN e = 0..Size(e) - 1
  BY ListDomain
<1>2. HeadOf(f) = f[n].entry_hash
  BY DEF HeadOf, PrevHash
<1>3. n \in DOMAIN e /\ e[n].entry_hash = f[n].entry_hash
  <2>1. PICK i \in DOMAIN e : e[i].entry_hash = f[n].entry_hash
    BY <1>2 DEF on_chain
  <2>2. i \in 0..Size(e) - 1 /\ n \in 0..Size(f) - 1
    BY <1>1
  <2>3. i = n
    BY <2>1, <2>2, OneHash
  <2> QED
    BY <2>1, <2>3
<1> DEFINE Back(k) == e[n - k].entry_hash = f[n - k].entry_hash
           bad     == {k \in 0..n : ~Back(k)}
<1>4. ASSUME bad # {}  PROVE FALSE
  <2>1. PICK k \in bad : \A m \in bad : k <= m
    <3>1. bad \in SUBSET Nat
      BY <1>1
    <3> HIDE DEF bad
    <3> QED
      BY <1>4, <3>1, LeastExists
  <2>2. k \in 0..n /\ ~Back(k)
    OBVIOUS
  <2>3. k # 0
    BY <1>1, <1>3, <2>2
  <2>4. k - 1 \in 0..n
    BY <1>1, <2>2, <2>3
  <2>5. k - 1 \notin bad
    BY <1>1, <2>1, <2>2
  <2>6. Back(k - 1)
    BY <2>4, <2>5
  <2> DEFINE i == n - (k - 1)
  <2>7. i \in 0..Size(e) - 1 /\ i \in 0..Size(f) - 1 /\ i # 0 /\ i - 1 = n - k
    BY <1>1, <1>3, <2>2, <2>3
  <2>8. PrevHash(e, i) = PrevHash(f, i)
    <3>1. e[i].entry_hash = f[i].entry_hash
      BY <2>6
    <3> HIDE DEF i, n
    <3> QED
      BY <2>7, <3>1, OneHash
  <2>9. e[i - 1].entry_hash = f[i - 1].entry_hash
    <3> HIDE DEF i
    <3> QED
      BY <2>7, <2>8 DEF PrevHash
  <2> QED
    BY <2>2, <2>7, <2>9
<1>5. ASSUME NEW i \in 0..n  PROVE i \in DOMAIN e /\ e[i] = f[i]
  <2>1. n - i \in 0..n /\ n - (n - i) = i
    BY <1>1
  <2>2. Back(n - i)
    BY <1>4, <2>1
  <2>3. e[i].entry_hash = f[i].entry_hash
    BY <2>1, <2>2
  <2>4. i \in 0..Size(e) - 1 /\ i \in 0..Size(f) - 1
    BY <1>1, <1>3
  <2> QED
    BY <1>1, <2>3, <2>4, OneHash
<1> QED
  BY <1>1, <1>5

\* Whatever was damaged, and whenever: if memwarden-verify accepts a chain and
\* its latest anchor noted a head of it, every entry the anchor sealed is on the
\* chain in its place (verify_cli.py:25-29).
THEOREM AcceptedIsIntact ==
  ASSUME EntryHashBinds, RootBinds
  PROVE  Spec => []AnchoredIntact
<1>1. CInv => AnchoredIntact
  <2> SUFFICES ASSUME CInv, NEW v \in Auditors, NEW me, me = auditor[v],
                      NEW sealing, sealing = sealed[me.latest][me.tenant],
                      me.pc = "done", Accepted(me), Sealing(me), verify(sealing)
               PROVE  \A i \in DOMAIN sealing : i \in DOMAIN me.entries /\ me.entries[i] = sealing[i]
    BY DEF AnchoredIntact
  <2>1. AuditorInv(me)
    BY DEF CInv
  <2>2. /\ List(me.entries) /\ me.latest # 0 /\ me.latest \in DOMAIN anchors
        /\ me.tenant \in DOMAIN sealed[me.latest]
    BY <2>1 DEF AuditorInv, Sealing
  <2>3. verify(me.entries) /\ HeadOnChain(me) /\ root_ok(me)
    BY <2>1, <2>2 DEF AuditorInv, Accepted
  <2>4. PICK seen : seen = sealed[me.latest]
    OBVIOUS
  <2>5. Seen(seen) /\ AnchorOf(me.anchor, seen)
    BY <2>1, <2>2, <2>4 DEF AuditorInv, CInv, Stored
  <2>6. me.anchor.chain_heads = Heads(seen)
    <3>1. \A u \in DOMAIN seen : IsHash(HeadOf(seen[u]))
      BY <2>5, HeadIsHash, ListDomain DEF Seen, HeadOf
    <3>2. /\ DOMAIN Heads(seen) = DOMAIN seen /\ DOMAIN seen \subseteq Tenants
          /\ \A u \in DOMAIN Heads(seen) : IsHash(Heads(seen)[u])
      BY <2>5, <3>1 DEF Heads, Seen
    <3>3. ASSUME NEW t \in DOMAIN seen, NEW x, IsHash(x),
                 me.anchor.chain_heads = [Heads(seen) EXCEPT ![t] = x]
          PROVE  me.anchor.chain_heads = Heads(seen)
      <4>1. merkle_root([Heads(seen) EXCEPT ![t] = x]) = merkle_root(Heads(seen))
        BY <2>3, <2>5, <3>3 DEF root_ok, AnchorOf
      <4>2. x = Heads(seen)[t]
        BY <3>2, <3>3, <4>1 DEF RootBinds
      <4> QED
        BY <3>2, <3>3, <4>2 DEF Heads
    <3> QED
      BY <2>5, <3>3 DEF AnchorOf
  <2>7. List(sealing) /\ me.anchor.chain_heads[me.tenant] = HeadOf(sealing)
    BY <2>2, <2>4, <2>5, <2>6 DEF Seen, Heads
  <2>8. on_chain(me.entries, HeadOf(sealing))
    BY <2>3, <2>7 DEF HeadOnChain
  <2>9. CASE Size(sealing) = 0
    <3>1. DOMAIN sealing = {}
      BY <2>7, <2>9, ListDomain
    <3> QED
      BY <3>1
  <2>10. CASE Size(sealing) # 0
    BY <2>2, <2>3, <2>7, <2>8, <2>10, HeadTellsAll
  <2> QED
    BY <2>9, <2>10
<1> QED
  BY <1>1, Invariant, PTL
=============================================================================
