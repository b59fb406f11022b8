---------------------------- MODULE MCOnboarding ----------------------------
(* Small instances of Onboarding: two timers, at most two flows.  No       *)
(* definition tells the self-generated keys apart.                         *)
EXTENDS Onboarding, TLC

CONSTANTS t1, t2, acct, k1, k2

SelfKeys == Permutations({k1, k2})
=============================================================================
