---------------------------- MODULE MCIdleCycle -----------------------------
(* One sampler next to the watcher; the policy is off or has one timeout.  *)
EXTENDS IdleCycle

CONSTANT s1
=============================================================================
