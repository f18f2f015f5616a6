-------------------------- MODULE DeviceLifecycle ---------------------------
(***************************************************************************)
(* What onboarding promises of a device, apart from sessions, threads and  *)
(* steps: key ownership first, then the batch, perhaps a token while       *)
(* waiting, then a root in one step for the whole batch; revocation at any *)
(* time and for good.                                                      *)
(***************************************************************************)
EXTENDS Sequences

CONSTANTS Dids, CarryForward

VARIABLES status, queue, roots

vars == <<status, queue, roots>>

With(s) == {d \in Dids : status[d] = s}

Init == /\ status = [d \in Dids |-> "UNKNOWN"]
        /\ queue = {}
        /\ roots = <<>>

Onboard(d) == /\ status[d] = "UNKNOWN"
              /\ status' = [status EXCEPT ![d] = "PENDING"]
              /\ UNCHANGED <<queue, roots>>

\* A revocation may come between key ownership and the metadata.
Enqueue(d) == /\ status[d] \in {"PENDING", "REVOKED"} /\ d \notin queue
              /\ queue' = queue \cup {d}
              /\ UNCHANGED <<status, roots>>

Tokenize(d) == /\ status[d] \in {"PENDING", "TOKENIZED"} /\ d \in queue
               /\ status' = [status EXCEPT ![d] = "TOKENIZED"]
               /\ UNCHANGED <<queue, roots>>

Revoke(d) == /\ status[d] # "UNKNOWN"
             /\ status' = [status EXCEPT ![d] = "REVOKED"]
             /\ UNCHANGED <<queue, roots>>

Batch == (queue \cup IF CarryForward THEN With("REGISTERED") ELSE {})
           \ With("REVOKED")

Close == /\ Batch # {}
         /\ status' = [d \in Dids |-> IF d \in Batch THEN "REGISTERED"
                                      ELSE status[d]]
         /\ roots' = Append(roots, Batch)
         /\ queue' = {}

Next == Close \/ \E d \in Dids : Onboard(d) \/ Enqueue(d) \/ Tokenize(d)
                                   \/ Revoke(d)

Spec == Init /\ [][Next]_vars
=============================================================================
