----------------------------- MODULE MCDevices ------------------------------
(* Values for the constants of Devices, for TLC. *)
EXTENDS Devices

CONSTANTS d1, d2

\* Two devices that nothing happens to, or one that something happens to, with
\* and without a token.
FewDevices ==
  {[fleet |-> {d1, d2}, askers |-> {}, trouble |-> 0],
   [fleet |-> {d1}, askers |-> {}, trouble |-> 1],
   [fleet |-> {d1}, askers |-> {d1}, trouble |-> 1]}

Everything == {"start", "pubkey", "pop", "metadata", "expire", "proof", "issue",
               "revoke"}
NoExclusion == {{}}
Sensor == [d \in Dids |-> "temperature_sensor"]
=============================================================================
