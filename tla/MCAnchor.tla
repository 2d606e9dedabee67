------------------------------ MODULE MCAnchor ------------------------------
(***************************************************************************)
(* Instance of Anchor for TLC: an entry hash spells the chain up to the     *)
(* entry, a node of the Merkle tree is its own preimage.                   *)
(***************************************************************************)
EXTENDS Anchor

MCGenesis == <<>>
Code(payload) ==
  IF payload.op = "ANCHOR" THEN 2 + payload.location ELSE IF payload.op = "a" THEN 1 ELSE 2
MCHash(prev, b) == Append(prev, 8 * b.seq + Code(b.payload))
MCLeaf(x) == <<x>>
MCPair(x, y) == <<x, y>>
MCLess(x, y) ==
  \/ \E i \in 1..Len(x) : i <= Len(y) /\ x[i] < y[i] /\ \A j \in 1..i - 1 : x[j] = y[j]
  \/ Len(x) < Len(y) /\ x = SubSeq(y, 1, Len(x))

MCMaxEntries == [t \in Tenants |-> IF t = "t1" THEN 1 ELSE 0]

(***************************************************************************)
(* merkle_root does not depend on the order of its leaves and binds them:  *)
(* two lists of at most four different leaves have the same root exactly   *)
(* when they have the same leaves.                                         *)
(***************************************************************************)
MerkleBinds ==
  LET Lists == UNION {{h \in [1..n -> 1..4] : \A i, j \in 1..n : h[i] = h[j] => i = j} : n \in 1..4}
      Tree  == {[root   |-> merkle_root([i \in DOMAIN h |-> <<h[i]>>]),
                 leaves |-> {h[i] : i \in DOMAIN h}] : h \in Lists}
  IN  \A g, h \in Tree : g.root = h.root <=> g.leaves = h.leaves

ASSUME MerkleBindsLeaves == MerkleBinds
=============================================================================
