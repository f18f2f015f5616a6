---------------------------- MODULE Registration ----------------------------
(***************************************************************************)
(* Onboarding, fog/registration: /register/start, /pubkey, /pop and        *)
(* /metadata.  A request that is refused without a change of state (a bad  *)
(* PSK, a malformed key, a wrong DID, a wrong step order, invalid          *)
(* metadata) is not a step.                                                *)
(***************************************************************************)
EXTENDS FogState

\* What onboarding leaves alone, but for the queueing of a leaf.
notRegistration == <<epochVars, lock, ledgerVars, tokenVars, proofs, crashes>>

Sess(t) == sessions[frame[t].sid]

SetSession(t, new) == sessions' = [sessions EXCEPT ![frame[t].sid] = new]

\* _require_state: a request out of order is refused with 409.
Require_Reopened(s, expected) == sessions[s].state \in {expected, "METADATA_ACCEPTED"}
Require(s, expected) == sessions[s].state = expected

\* The client's PSK is right: SessionStore.create stores a fresh session.
RegisterStart(t, s) ==
  /\ "start" \in Requests /\ Idle(t)
  /\ sessions[s].life = "unused"
  /\ sessions' = [sessions EXCEPT ![s] = NewSession]
  /\ UNCHANGED <<devices, pc, frame, notRegistration>>

\* A session outlives its TTL.  Its entry stays until a handler asks for it.
SessionExpires(s) ==
  /\ "expire" \in Requests
  /\ sessions[s].life = "live"
  /\ sessions' = [sessions EXCEPT ![s].life = "expired"]
  /\ UNCHANGED <<devices, pc, frame, notRegistration>>

\* Any request that names an expired session: get() deletes it, 404.
SessionGone(t, s) ==
  /\ Idle(t)
  /\ sessions[s].life = "expired"
  /\ sessions' = [sessions EXCEPT ![s].life = "gone"]
  /\ UNCHANGED <<devices, pc, frame, notRegistration>>

-----------------------------------------------------------------------------
\* POST /register/pubkey: session and state, devices.get, did_in_use, write.
RegisterPubkey(t, s, d) ==
  /\ "pubkey" \in Requests /\ Idle(t)
  /\ Open(s) /\ Require(s, "AUTHENTICATED")
  /\ sessions[s].chal < MaxChal
  /\ Call(t, "pubkey_known", [NoFrame EXCEPT !.sid = s, !.did = d])
  /\ UNCHANGED <<sessions, devices, notRegistration>>

PubkeyKnown(t) ==
  /\ At(t, "pubkey_known")
  /\ IF Known(frame[t].did) THEN Reply(t)
     ELSE Goto(t, "pubkey_in_use") /\ UNCHANGED frame
  /\ UNCHANGED <<sessions, devices, notRegistration>>

PubkeyInUse(t) ==
  /\ At(t, "pubkey_in_use")
  /\ IF did_in_use(frame[t].did, frame[t].sid) THEN Reply(t)
     ELSE Goto(t, "pubkey_write") /\ UNCHANGED frame
  /\ UNCHANGED <<sessions, devices, notRegistration>>

issue_challenge(session) ==
  [session EXCEPT !.chal = session.chal + 1, !.used = FALSE]

PubkeyWrite(t) ==
  /\ At(t, "pubkey_write")
  /\ SetSession(t, [issue_challenge(Sess(t)) EXCEPT
                      !.did = frame[t].did, !.state = "KEY_SUBMITTED"])
  /\ Reply(t)
  /\ UNCHANGED <<devices, notRegistration>>

-----------------------------------------------------------------------------
\* POST /register/pop.  frame.did is the DID whose key made the signature and
\* frame.chal the challenge it was made for; None and 0 stand for a signature
\* that verifies for nothing.
RegisterPop(t, s) ==
  /\ "pop" \in Requests /\ Idle(t)
  /\ Open(s) /\ Require(s, "KEY_SUBMITTED")
  /\ \E genuine \in BOOLEAN :
       Call(t, "pop_used",
            IF genuine THEN [NoFrame EXCEPT !.sid = s, !.did = sessions[s].did,
                                            !.chal = sessions[s].chal]
                       ELSE [NoFrame EXCEPT !.sid = s])
  /\ UNCHANGED <<sessions, devices, notRegistration>>

PopUsed(t) ==
  /\ At(t, "pop_used")
  /\ Goto(t, IF Sess(t).used THEN "pop_fail" ELSE "pop_verify")
  /\ UNCHANGED <<sessions, devices, frame, notRegistration>>

\* pop_message binds the challenge and the DID.
Verifies_Anything(t) == TRUE
Verifies(t) == frame[t].chal = Sess(t).chal /\ frame[t].did = Sess(t).did

\* The challenge is consumed whatever the outcome, and may have expired.
PopVerify(t) ==
  /\ At(t, "pop_verify")
  /\ SetSession(t, [Sess(t) EXCEPT !.used = TRUE])
  /\ \E expired \in BOOLEAN :
       Goto(t, IF ~expired /\ Verifies(t) THEN "pop_pass" ELSE "pop_fail")
  /\ UNCHANGED <<devices, frame, notRegistration>>

PopFail(t) ==
  /\ At(t, "pop_fail")
  /\ SetSession(t, [Sess(t) EXCEPT !.state = "AUTHENTICATED"])
  /\ Reply(t)
  /\ UNCHANGED <<devices, notRegistration>>

PopPass(t) ==
  /\ At(t, "pop_pass")
  /\ SetSession(t, [Sess(t) EXCEPT !.state = "POP_VERIFIED"])
  /\ Goto(t, "pop_upsert")
  /\ UNCHANGED <<devices, frame, notRegistration>>

PopUpsert(t) ==
  /\ At(t, "pop_upsert")
  /\ devices' = [devices EXCEPT ![Sess(t).did] = NewRecord]
  /\ Reply(t)
  /\ UNCHANGED <<sessions, notRegistration>>

-----------------------------------------------------------------------------
\* POST /register/metadata with metadata that validate_metadata accepts; the
\* role may still not fit the device type.
RegisterMetadata(t, s, roleOk) ==
  /\ "metadata" \in Requests /\ Idle(t)
  /\ Open(s) /\ Require(s, "POP_VERIFIED")
  /\ Call(t, "meta_record", [NoFrame EXCEPT !.sid = s, !.roleOk = roleOk])
  /\ UNCHANGED <<sessions, devices, notRegistration>>

\* Without a record, setting its fields raises: 500.
MetaRecord(t) ==
  /\ At(t, "meta_record")
  /\ IF Known(Sess(t).did)
     THEN /\ devices' = [devices EXCEPT ![Sess(t).did].roleOk = frame[t].roleOk]
          /\ Goto(t, "meta_queue") /\ UNCHANGED frame
     ELSE Reply(t) /\ UNCHANGED devices
  /\ UNCHANGED <<sessions, notRegistration>>

\* EpochManager.add_leaf, under the epoch lock; EpochError is a 409.
MetaQueue_NoLock(t) ==
  /\ At(t, "meta_queue")
  /\ IF Sess(t).did \in pending THEN Reply(t) /\ UNCHANGED pending
     ELSE /\ pending' = pending \cup {Sess(t).did}
          /\ Goto(t, "meta_accept") /\ UNCHANGED frame
  /\ UNCHANGED <<sessions, devices, current_epoch_id, packages, latest_package,
                 lock, ledgerVars, tokenVars, proofs, crashes>>
MetaQueue(t) ==
  /\ At(t, "meta_queue")
  /\ lock = None
  /\ IF Sess(t).did \in pending THEN Reply(t) /\ UNCHANGED pending
     ELSE /\ pending' = pending \cup {Sess(t).did}
          /\ Goto(t, "meta_accept") /\ UNCHANGED frame
  /\ UNCHANGED <<sessions, devices, current_epoch_id, packages, latest_package,
                 lock, ledgerVars, tokenVars, proofs, crashes>>

MetaAccept(t) ==
  /\ At(t, "meta_accept")
  /\ SetSession(t, [Sess(t) EXCEPT !.state = "METADATA_ACCEPTED"])
  /\ Goto(t, "meta_reply")
  /\ UNCHANGED <<devices, frame, notRegistration>>

\* The reply tells the batch size, and waits for the epoch lock once more.
MetaReply(t) ==
  /\ At(t, "meta_reply")
  /\ lock = None
  /\ Reply(t)
  /\ UNCHANGED <<sessions, devices, notRegistration>>

-----------------------------------------------------------------------------
Registering(t) ==
  \/ PubkeyKnown(t) \/ PubkeyInUse(t) \/ PubkeyWrite(t)
  \/ PopUsed(t) \/ PopVerify(t) \/ PopFail(t) \/ PopPass(t) \/ PopUpsert(t)
  \/ MetaRecord(t) \/ MetaQueue(t) \/ MetaAccept(t) \/ MetaReply(t)

RegistrationRequest(t) == \E s \in Sids :
  \/ RegisterStart(t, s)
  \/ SessionGone(t, s)
  \/ \E d \in Dids : RegisterPubkey(t, s, d)
  \/ RegisterPop(t, s)
  \/ \E roleOk \in BOOLEAN : RegisterMetadata(t, s, roleOk)
=============================================================================
