---------------------------- MODULE MCOnboarding ----------------------------
(* Instances of Onboarding: one client, one or two tasks.                  *)
EXTENDS Onboarding, TLC

CONSTANTS t1, t2

One == {t1}
Two == {t1, t2}
MCSymmetry == Permutations(Two)
=============================================================================
