---------------------------- MODULE MCQueueRefill ----------------------------
(***************************************************************************)
(* TLC instances of QueueRefill: a text, a near-duplicate of it that the   *)
(* gates prohibit, two like neither, and one copied from its source.       *)
(***************************************************************************)
EXTENDS QueueRefill, TLC

CONSTANTS MessageCount, plain, alike, other, third, copy

MCMessages == 1 .. MessageCount
MCInstants == {0}
MCTexts == {plain, alike, other, third, copy}
MCSimilar ==
  {<<x, x>> : x \in MCTexts} \cup {<<plain, alike>>, <<alike, plain>>}
=============================================================================
