------------------------------ MODULE FogNode -------------------------------
(***************************************************************************)
(* The fog process: every handler on every worker thread, the timer, and   *)
(* restarts.                                                               *)
(***************************************************************************)
EXTENDS Registration, EpochManager, TokenIssue

\* The thread takes the next step of the request it is handling.
Step(t) == Registering(t) \/ Closing(t) \/ Issuing(t)

\* A client's or the administrator's request reaches an idle thread.
Request(t) == RegistrationRequest(t) \/ EpochRequest(t) \/ TokenRequest(t)

\* Nothing is under way; what may come next is up to the clients.
Quiet == /\ \A t \in Threads : pc[t] \in {"idle", "dead"}
         /\ UNCHANGED vars

Next ==
  \/ \E t \in Threads : Step(t) \/ Request(t) \/ AutoClose(t)
  \/ \E s \in Sids : SessionExpires(s)
  \/ Restart
  \/ Quiet

Spec == Init /\ [][Next]_vars
=============================================================================
