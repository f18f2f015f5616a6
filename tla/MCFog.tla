------------------------------- MODULE MCFog --------------------------------
(* Values for the constants of FogProperties, for TLC. *)
EXTENDS FogProperties, TLC

Onboarding == {"start", "pubkey", "pop", "metadata"}
NoExclusion == {{}}
AnyExclusion == SUBSET Dids

AllRequests == Onboarding \cup {"expire", "close", "proof", "issue", "revoke"}
Faulty == Onboarding \cup {"close", "proof", "savefail", "crash"}
Blocking == (AllRequests \ {"expire"}) \cup {"savefail"}
NoProof == AllRequests \ {"proof", "expire"}
NoToken == Onboarding \cup {"close", "revoke"}

Symmetry == Permutations(Dids) \cup Permutations(Sids)
              \cup Permutations(Threads \ Timers)
=============================================================================
