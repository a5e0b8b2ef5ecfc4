--------------------------- MODULE MCWebhookQueue ---------------------------
(***************************************************************************)
(* Small instances of WebhookQueue; the failures are in each .cfg.         *)
(***************************************************************************)
EXTENDS WebhookQueue, TLC
CONSTANTS a, b, w1, w2

MCEvents == {a, b}
MCTicks == {w1, w2}
MCSymmetry == Permutations(MCEvents) \cup Permutations(MCTicks)
=============================================================================
