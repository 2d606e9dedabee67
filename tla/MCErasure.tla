----------------------------- MODULE MCErasure ------------------------------
(***************************************************************************)
(* Instance of Erasure for TLC: one tenant, whose records that somebody    *)
(* sets a hold on are alice's, the subject; the others are bob's.          *)
(***************************************************************************)
EXTENDS Erasure

MCNamespace == [r \in Records |-> "n"]
MCActor     == [r \in Records |-> IF r \in Holdable THEN "alice" ELSE "bob"]
MCSession   == [e \in Events |-> "s"]
MCSpeaker   == [e \in Events |-> "alice"]
MCSubject   == [j \in Erasers |-> "alice"]
=============================================================================
