------------------------------- MODULE Detect -------------------------------
(***************************************************************************)
(* The inline L1 scan (memwarden/detect/rules.py) and the two thresholds   *)
(* write() compares its score with (memwarden/governed.py).                *)
(***************************************************************************)
EXTENDS Envelope

CONSTANT l1_score  \* L1 score of a content before amplification, percent

REJECT_THRESHOLD     == 90
QUARANTINE_THRESHOLD == 50

\* Provenance amplification of a non-zero L1 score, capped at 1.0.
scan(content, source_untrusted) ==
  LET base == l1_score[content]
  IN  IF base > 0 /\ source_untrusted
      THEN IF base + 15 > 100 THEN 100 ELSE base + 15
      ELSE base

ScoreOf(content, channel) ==
  scan(content, tier_for_channel(channel) = UNTRUSTED)
=============================================================================
