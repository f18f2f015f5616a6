------------------------------ MODULE MCAccess ------------------------------
(* Values for the constants of FogAccess, for TLC. *)
EXTENDS FogAccess, TLC

Served == {"start", "pubkey", "pop", "metadata", "close", "proof", "issue",
           "revoke", "crash"}
NoExclusion == {{}}
Sensor == [d \in Dids |-> "temperature_sensor"]

Symmetry == Permutations(Dids) \cup Permutations(Sids) \cup Permutations(Visitors)
              \cup Permutations(Nonces)
=============================================================================
