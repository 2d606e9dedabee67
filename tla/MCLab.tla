------------------------------- MODULE MCLab --------------------------------
(***************************************************************************)
(* Instance of Lab for TLC: attacks that L1 rejects, quarantines once the   *)
(* channel amplifies their score, and overlooks; a near miss that it        *)
(* quarantines through every channel.                                       *)
(***************************************************************************)
EXTENDS Lab, TLC

MCScore == [c \in Contents |->
  CASE c = "override" -> 90 [] c = "promo" -> 40 [] c = "sleeper" -> 0
    [] c = "portal" -> 60 [] OTHER -> 0]

MCDigests == {<<"sha256", c>> : c \in Contents}
MCSha256  == [c \in Contents |-> <<"sha256", c>>]

MCSymmetry == Permutations(Tenants) \cup Permutations(Actors)
=============================================================================
