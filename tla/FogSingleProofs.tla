-------------------------- MODULE FogSingleProofs ---------------------------
(***************************************************************************)
(* One request at a time, as the tests and the demonstrations drive the    *)
(* fog: revocation is final and complete, a DID is onboarded once, a       *)
(* queued or committed device keeps its role.  Sessions may expire and the *)
(* process may crash at any step, and the ledger file may be unwritable.   *)
(* In the second part: tokenized devices are queued, and the refinement of *)
(* DeviceLifecycle.                                                        *)
(***************************************************************************)
EXTENDS FogSessionProofs, FogLedgerProofs

OneAtATime == \A t, u \in Threads : t = u

Revoked(d) == Known(d) /\ devices[d].status = "REVOKED"

\* A stored session past its first step.
Onboards(s) == Stored(s) /\ sessions[s].state # "AUTHENTICATED"

\* What a suspended handler still knows of what it has read.
WorkAt(t) ==
  /\ pc[t] \in SessionSteps => Stored(frame[t].sid)
  /\ pc[t] \in {"pubkey_in_use", "pubkey_write"} => ~Known(frame[t].did)
  /\ pc[t] = "pubkey_write" =>
       \A other \in Sids \ {frame[t].sid} :
         Onboards(other) => sessions[other].did # frame[t].did
  /\ pc[t] = "pop_upsert" => ~Known(Sess(t).did)
  /\ pc[t] \in {"meta_queue", "meta_accept"} => Known(Sess(t).did)
  /\ pc[t] \in {"issue_eligible", "issue_record", "issue_status"} =>
       Known(frame[t].did) /\ ~Revoked(frame[t].did)
  /\ pc[t] \in {"issue_record", "issue_status"} => ~Registered(frame[t].did)
  /\ pc[t] = "close_collect" => by_status("REVOKED") \subseteq frame[t].dids
  /\ pc[t] \in {"close_anchor", "close_update"} =>
       \A d \in frame[t].dids : ~Revoked(d) /\ (d \in pending \/ Registered(d))

WorkOK == \A t \in Threads : WorkAt(t)

OnboardOK == \A s, other \in Sids :
  Onboards(s) /\ Onboards(other) /\ sessions[s].did = sessions[other].did => s = other

\* A key that is being proven belongs to no known device.
UnknownOK == \A s \in Sids :
  Onboards(s) /\ sessions[s].state = "KEY_SUBMITTED" => ~Known(sessions[s].did)

\* Until its metadata is accepted a device is neither queued nor committed.
Accepting(s) == \E t \in Threads : pc[t] = "meta_accept" /\ frame[t].sid = s

NotYetOK == \A s \in Sids :
  Onboards(s) /\ sessions[s].state = "POP_VERIFIED" /\ ~Accepting(s)
    => sessions[s].did \notin pending /\ latest_package[sessions[s].did] = None

\* What is queued or committed has a record.
KnownOK == \A d \in Dids : d \in pending \/ latest_package[d] # None => Known(d)

\* A token of a revoked device is blacklisted, or about to be.
Blacklisting(k) == \E t \in Threads :
  \/ pc[t] = "revoke_list" /\ frame[t].did = issued[k]
  \/ pc[t] = "revoke_tokens" /\ k \in frame[t].toks

TokensOK == \A k \in Tokens : issued[k] \in Dids /\ Revoked(issued[k])
  => k \in revoked_token_ids \/ Blacklisting(k)

SingleInv == WorkOK /\ OnboardOK /\ UnknownOK /\ NotYetOK /\ KnownOK /\ TokensOK

\* Everything that holds at every step of one request at a time.
AllInv == TypeInv /\ LedgerInv /\ SessionInv /\ SingleInv

-----------------------------------------------------------------------------
(* Steps of the one thread.                                                *)

\* The thread that moves is the only one.
LEMMA OnlyThread ==
  ASSUME OneAtATime, TypeOK, NEW t \in Threads, NEW step, NEW f, Call(t, step, f)
  PROVE  \A u \in Threads : u = t /\ pc'[u] = step /\ frame'[u] = f
BY DEF OneAtATime, TypeOK, Call, Goto

\* Steps at which a handler relies on nothing it has read.
RestSteps == {"idle", "dead", "proof_package", "revoke_list", "revoke_tokens",
              "issue_known", "close_acquire", "close_revoked"}

\* After such a step there is nothing to show of the thread.
LEMMA AtRest ==
  ASSUME \A u \in Threads : pc'[u] \in RestSteps
  PROVE  WorkOK'
BY DEF WorkOK, WorkAt, RestSteps, SessionSteps, PubkeySteps, KeySteps

\* No session starts to onboard.
OnboardsLess == \A s \in Sids : Onboards(s)' =>
  /\ Onboards(s)
  /\ sessions'[s].state = sessions[s].state /\ sessions'[s].did = sessions[s].did

\* Such a step, of a thread that is not about to accept metadata or blacklist a
\* token, that leaves the records, the batch and the tokens alone.
LEMMA MoveOn ==
  ASSUME SingleInv, OnboardsLess, WorkOK',
         \/ UNCHANGED <<pc, frame>>
         \/ \A u \in Threads : pc[u] \notin {"meta_accept", "revoke_list", "revoke_tokens"},
         UNCHANGED <<devices, pending, latest_package, issued, revoked_token_ids>>
  PROVE  SingleInv'
<1>1. OnboardOK' /\ UnknownOK' /\ KnownOK'
  BY DEF SingleInv, OnboardOK, UnknownOK, KnownOK, OnboardsLess, Known
<1>2. \A s \in Sids : Accepting(s) => Accepting(s)'
  BY DEF Accepting
<1>3. NotYetOK'
  BY <1>2 DEF SingleInv, NotYetOK, OnboardsLess
<1>4. \A k \in Tokens : Blacklisting(k) => Blacklisting(k)'
  BY DEF Blacklisting
<1>5. TokensOK'
  BY <1>4 DEF SingleInv, TokensOK, Revoked, Known
<1> QED BY <1>1, <1>3, <1>5 DEF SingleInv

\* Sessions that nobody touches do not start to onboard.
LEMMA SameOnboards ==
  ASSUME UNCHANGED sessions PROVE OnboardsLess
BY DEF OnboardsLess, Onboards, Stored

-----------------------------------------------------------------------------
(* Onboarding.                                                             *)

\* The checks of /register/pubkey: nobody else has the DID.
LEMMA PubkeyChecksSingle ==
  ASSUME OneAtATime, AllInv, NEW t \in Threads, PubkeyKnown(t) \/ PubkeyInUse(t)
  PROVE  SingleInv'
<1>1. /\ TypeOK /\ frame[t].sid \in Sids /\ pc[t] \in PubkeySteps
      /\ Stored(frame[t].sid) /\ UNCHANGED <<sessions, devices>>
  BY DEF AllInv, TypeInv, FrameOK, LocalsOK, PubkeySteps, SessionSteps, PubkeyKnown, PubkeyInUse,
     At, SingleInv, WorkOK, WorkAt
<1>2. PICK step \in {"pubkey_in_use", "pubkey_write", "idle"} :
        \/ step = "idle" /\ Call(t, step, NoFrame)
        \/ step # "idle" /\ Call(t, step, frame[t])
  BY <1>1, GotoCall DEF PubkeyKnown, PubkeyInUse, Reply
<1>3. WorkOK'
  <2>1. CASE step = "idle"
    BY <1>1, <1>2, <2>1, OnlyThread, AtRest DEF RestSteps
  <2>2. CASE step # "idle"
    <3>1. \A u \in Threads : u = t /\ pc'[u] = step /\ frame'[u] = frame[t]
      BY <1>1, <1>2, <2>2, OnlyThread
    <3>2. ~Known(frame[t].did)
      BY <1>2, <2>2, <3>1 DEF PubkeyKnown, PubkeyInUse, Reply, Call, Goto, At, AllInv,
         SingleInv, WorkOK, WorkAt, TypeInv, TypeOK
    <3>3. step = "pubkey_write" => ~did_in_use(frame[t].did, frame[t].sid)
      BY <1>1, <1>2, <2>2, <3>1 DEF PubkeyKnown, PubkeyInUse, Reply, Call, Goto, At, TypeOK
    <3> QED BY <1>1, <1>2, <2>2, <3>1, <3>2, <3>3
            DEF WorkOK, WorkAt, Known, Stored, Onboards, did_in_use
  <2> QED BY <2>1, <2>2
<1>4. UNCHANGED <<devices, pending, latest_package, issued, revoked_token_ids>>
  BY DEF PubkeyKnown, PubkeyInUse, notRegistration, epochVars, tokenVars
<1>5. \A u \in Threads : pc[u] \notin {"meta_accept", "revoke_list", "revoke_tokens"}
  BY <1>1 DEF OneAtATime, PubkeySteps
<1> QED BY <1>1, <1>3, <1>4, <1>5, MoveOn, SameOnboards DEF AllInv

\* A session of the request is one field away from what it was.
LEMMA OwnSessionOnly ==
  ASSUME AllInv, NEW t \in Threads, pc[t] \in SessionSteps, NEW new, SetSession(t, new)
  PROVE  /\ frame[t].sid \in Sids /\ Sess(t) \in Session /\ Stored(frame[t].sid)
         /\ sessions'[frame[t].sid] = new
         /\ \A s \in Sids \ {frame[t].sid} :
              sessions'[s] = sessions[s] /\ (Onboards(s)' <=> Onboards(s))
<1>1. frame[t].sid \in Sids /\ Stored(frame[t].sid) /\ sessions \in [Sids -> Session]
  BY DEF AllInv, TypeInv, TypeOK, FrameOK, LocalsOK, SessionSteps, SingleInv, WorkOK, WorkAt
<1> QED BY <1>1 DEF SetSession, Sess, Onboards, Stored

\* Storing the key: by then nobody else has the DID.
LEMMA PubkeyWriteSingle ==
  ASSUME OneAtATime, AllInv, NEW t \in Threads, PubkeyWrite(t)
  PROVE  SingleInv'
<1> DEFINE new == [issue_challenge(Sess(t)) EXCEPT
                         !.did = frame[t].did, !.state = "KEY_SUBMITTED"]
<1>1. /\ TypeOK /\ pc[t] = "pubkey_write" /\ pc[t] \in SessionSteps
      /\ SetSession(t, new) /\ Call(t, "idle", NoFrame)
      /\ UNCHANGED <<devices, pending, latest_package, issued, revoked_token_ids>>
  BY DEF AllInv, TypeInv, PubkeyWrite, Reply, At, notRegistration, epochVars, tokenVars,
     SessionSteps, PubkeySteps
<1>2. Sess(t) \in Session /\ frame[t].sid \in Sids
  BY <1>1, OwnSessionOnly
<1>3. new.did = frame[t].did /\ new.state = "KEY_SUBMITTED" /\ new.life = Sess(t).life
  BY <1>2 DEF issue_challenge, Session
<1> HIDE DEF new
<1> PICK own \in Sids : own = frame[t].sid
  BY <1>2
<1>4. /\ sessions'[own] = new /\ Onboards(own)'
      /\ \A s \in Sids \ {own} :
           sessions'[s] = sessions[s] /\ (Onboards(s)' <=> Onboards(s))
  <2>1. /\ Stored(own) /\ sessions'[own] = new
        /\ \A s \in Sids \ {own} :
             sessions'[s] = sessions[s] /\ (Onboards(s)' <=> Onboards(s))
    BY <1>1, OwnSessionOnly
  <2> QED BY <1>3, <2>1 DEF Onboards, Stored, Sess
<1>5. /\ ~Known(frame[t].did)
      /\ \A other \in Sids \ {own} : Onboards(other) => sessions[other].did # frame[t].did
  BY <1>1 DEF AllInv, SingleInv, WorkOK, WorkAt
<1>6. OnboardOK'
  BY <1>3, <1>4, <1>5 DEF AllInv, SingleInv, OnboardOK
<1>7. UnknownOK'
  BY <1>1, <1>3, <1>4, <1>5 DEF AllInv, SingleInv, UnknownOK, Known
<1>8. NotYetOK'
  <2>1. \A s \in Sids : ~Accepting(s)
    BY <1>1 DEF OneAtATime, Accepting
  <2> QED BY <1>1, <1>3, <1>4, <2>1 DEF AllInv, SingleInv, NotYetOK
<1>9. KnownOK'
  BY <1>1 DEF AllInv, SingleInv, KnownOK, Known
<1>10. TokensOK'
  BY <1>1 DEF OneAtATime, AllInv, SingleInv, TokensOK, Blacklisting, Revoked, Known
<1>11. WorkOK'
  BY <1>1, OnlyThread, AtRest DEF RestSteps
<1> QED BY <1>6, <1>7, <1>8, <1>9, <1>10, <1>11 DEF SingleInv

\* Refusing and checking a proof of possession.
LEMMA PopChecksSingle ==
  ASSUME OneAtATime, AllInv, NEW t \in Threads, PopUsed(t) \/ PopVerify(t) \/ PopFail(t)
  PROVE  SingleInv'
<1>1. /\ TypeOK /\ pc[t] \in {"pop_used", "pop_verify", "pop_fail"} /\ pc[t] \in SessionSteps
      /\ UNCHANGED <<devices, pending, latest_package, issued, revoked_token_ids>>
  BY DEF AllInv, TypeInv, PopUsed, PopVerify, PopFail, At, notRegistration, epochVars,
     tokenVars, SessionSteps, KeySteps
<1>2. /\ frame[t].sid \in Sids /\ Stored(frame[t].sid) /\ Sess(t) \in Session
  BY <1>1, SessType DEF AllInv, TypeInv, FrameOK, LocalsOK, SingleInv, WorkOK, WorkAt, SessionSteps
<1> PICK own \in Sids : own = frame[t].sid
  BY <1>2
<1>3. OnboardsLess /\ Stored(own)'
  <2>1. CASE PopUsed(t)
    BY <1>2, <2>1, SameOnboards DEF PopUsed, Stored
  <2>2. ASSUME NEW new, SetSession(t, new), new.life = Sess(t).life, new.did = Sess(t).did,
               new.state \in {Sess(t).state, "AUTHENTICATED"}
        PROVE  OnboardsLess /\ Stored(own)'
    <3>1. /\ sessions'[own] = new
          /\ \A s \in Sids \ {own} :
               sessions'[s] = sessions[s] /\ (Onboards(s)' <=> Onboards(s))
      BY <1>1, <2>2, OwnSessionOnly
    <3> QED BY <1>2, <2>2, <3>1 DEF OnboardsLess, Onboards, Stored, Sess
  <2>3. CASE PopVerify(t)
    <3> DEFINE new == [Sess(t) EXCEPT !.used = TRUE]
    <3>1. new.life = Sess(t).life /\ new.did = Sess(t).did /\ new.state = Sess(t).state
      BY <1>2 DEF Session
    <3>2. SetSession(t, new)
      BY <2>3 DEF PopVerify
    <3> HIDE DEF new
    <3> QED BY <2>2, <3>1, <3>2
  <2>4. CASE PopFail(t)
    <3> DEFINE new == [Sess(t) EXCEPT !.state = "AUTHENTICATED"]
    <3>1. new.life = Sess(t).life /\ new.did = Sess(t).did /\ new.state = "AUTHENTICATED"
      BY <1>2 DEF Session
    <3>2. SetSession(t, new)
      BY <2>4 DEF PopFail
    <3> HIDE DEF new
    <3> QED BY <2>2, <3>1, <3>2
  <2> QED BY <2>1, <2>3, <2>4
<1>4. PICK step \in {"pop_fail", "pop_verify", "pop_pass", "idle"} :
        \/ step = "idle" /\ Call(t, step, NoFrame)
        \/ step # "idle" /\ Call(t, step, frame[t])
  BY <1>1, GotoCall DEF PopUsed, PopVerify, PopFail, Reply
<1>5. WorkOK'
  <2>1. CASE step = "idle"
    BY <1>1, <1>4, <2>1, OnlyThread, AtRest DEF RestSteps
  <2>2. CASE step # "idle"
    BY <1>1, <1>3, <1>4, <2>2, OnlyThread DEF WorkOK, WorkAt, Stored
  <2> QED BY <2>1, <2>2
<1>6. \A u \in Threads : pc[u] \notin {"meta_accept", "revoke_list", "revoke_tokens"}
  BY <1>1 DEF OneAtATime
<1> QED BY <1>1, <1>3, <1>5, <1>6, MoveOn DEF AllInv

\* The proof is accepted: the device is still unknown, so neither queued nor
\* committed.
LEMMA PopPassSingle ==
  ASSUME OneAtATime, AllInv, NEW t \in Threads, PopPass(t)
  PROVE  SingleInv'
<1> DEFINE new == [Sess(t) EXCEPT !.state = "POP_VERIFIED"]
<1>1. /\ TypeOK /\ pc[t] = "pop_pass" /\ pc[t] \in SessionSteps
      /\ SetSession(t, new) /\ Call(t, "pop_upsert", frame[t])
      /\ UNCHANGED <<devices, pending, latest_package, issued, revoked_token_ids>>
  BY GotoCall DEF AllInv, TypeInv, PopPass, At, notRegistration, epochVars, tokenVars,
     SessionSteps, KeySteps
<1>2. /\ Sess(t) \in Session /\ Sess(t).state = "KEY_SUBMITTED" /\ Sess(t).did \in Dids
      /\ frame[t].sid \in Sids /\ Stored(frame[t].sid)
  BY <1>1, OwnSessionOnly, KeyLocals DEF AllInv, SessionInv, StatesOK, SessionAt, Proving, Sess,
     KeySteps
<1>3. new.did = Sess(t).did /\ new.state = "POP_VERIFIED" /\ new.life = Sess(t).life
  BY <1>2 DEF Session
<1> HIDE DEF new
<1> PICK own \in Sids : own = frame[t].sid
  BY <1>2
<1>4. /\ sessions'[own] = new /\ Onboards(own)' /\ Onboards(own) /\ sessions[own] = Sess(t)
      /\ \A s \in Sids \ {own} :
           sessions'[s] = sessions[s] /\ (Onboards(s)' <=> Onboards(s))
  <2>1. /\ sessions'[own] = new
        /\ \A s \in Sids \ {own} :
             sessions'[s] = sessions[s] /\ (Onboards(s)' <=> Onboards(s))
    BY <1>1, OwnSessionOnly
  <2> QED BY <1>2, <1>3, <2>1 DEF Onboards, Stored, Sess
<1>5. ~Known(Sess(t).did)
  BY <1>2, <1>4 DEF AllInv, SingleInv, UnknownOK
<1>6. OnboardOK'
  BY <1>2, <1>3, <1>4 DEF AllInv, SingleInv, OnboardOK
<1>7. UnknownOK'
  BY <1>1, <1>3, <1>4 DEF AllInv, SingleInv, UnknownOK, Known
<1>8. NotYetOK'
  <2>1. \A s \in Sids : ~Accepting(s)
    BY <1>1 DEF OneAtATime, Accepting
  <2>2. Sess(t).did \notin pending /\ latest_package[Sess(t).did] = None
    BY <1>2, <1>5 DEF AllInv, SingleInv, KnownOK
  <2> QED BY <1>1, <1>3, <1>4, <2>1, <2>2 DEF AllInv, SingleInv, NotYetOK
<1>9. KnownOK'
  BY <1>1 DEF AllInv, SingleInv, KnownOK, Known
<1>10. TokensOK'
  BY <1>1 DEF OneAtATime, AllInv, SingleInv, TokensOK, Blacklisting, Revoked, Known
<1>11. WorkOK'
  BY <1>1, <1>3, <1>4, <1>5, OnlyThread DEF WorkOK, WorkAt, Onboards, Known, Sess
<1> QED BY <1>6, <1>7, <1>8, <1>9, <1>10, <1>11 DEF SingleInv

\* Creating the record: no other session onboards the DID, and nobody had
\* revoked, queued or committed it.
LEMMA PopUpsertSingle ==
  ASSUME OneAtATime, AllInv, NEW t \in Threads, PopUpsert(t)
  PROVE  SingleInv'
<1>1. /\ TypeOK /\ pc[t] = "pop_upsert" /\ pc[t] \in SessionSteps /\ Call(t, "idle", NoFrame)
      /\ devices' = [devices EXCEPT ![Sess(t).did] = NewRecord]
      /\ UNCHANGED <<sessions, pending, latest_package, issued, revoked_token_ids>>
  BY DEF AllInv, TypeInv, PopUpsert, Reply, At, notRegistration, epochVars, tokenVars,
     SessionSteps, KeySteps
<1>2. PICK own \in Sids : own = frame[t].sid /\ sessions[own].did \in Dids
  BY <1>1, KeyLocals DEF AllInv, Sess, KeySteps
<1>3. /\ sessions[own].state = "POP_VERIFIED" /\ Onboards(own) /\ ~Known(sessions[own].did)
  BY <1>1, <1>2 DEF AllInv, SessionInv, StatesOK, SessionAt, Proven, SingleInv, WorkOK, WorkAt,
     Onboards, Sess
<1>4. \A s \in Sids : Onboards(s)' <=> Onboards(s)
  BY <1>1 DEF Onboards, Stored
<1>5. \A d \in Dids : /\ Known(d)' <=> Known(d) \/ d = sessions[own].did
                      /\ Revoked(d)' => Revoked(d)
  <2>1. NewRecord # None /\ NewRecord.status # "REVOKED"
    <3>1. NewRecord \in DeviceRecord
      BY DEF NewRecord, DeviceRecord, DeviceStatus
    <3> QED BY <3>1, NoRecordAssumption DEF NewRecord
  <2> QED BY <1>1, <1>2, <2>1 DEF TypeOK, Known, Revoked, Sess
<1>6. OnboardOK'
  BY <1>1, <1>4 DEF AllInv, SingleInv, OnboardOK
<1>7. UnknownOK'
  <2> SUFFICES ASSUME NEW s \in Sids, Onboards(s), sessions[s].state = "KEY_SUBMITTED"
               PROVE  ~Known(sessions[s].did)'
    BY <1>1, <1>4 DEF UnknownOK
  <2>1. sessions[s].did \in Dids /\ ~Known(sessions[s].did) /\ sessions[s].did # sessions[own].did
    BY <1>3 DEF AllInv, SingleInv, UnknownOK, OnboardOK, TypeInv, SessionDid, Onboards
  <2> PICK d \in Dids : d = sessions[s].did
    BY <2>1
  <2> QED BY <1>1, <1>5, <2>1
<1>8. NotYetOK'
  <2>1. \A s \in Sids : ~Accepting(s)
    BY <1>1 DEF OneAtATime, Accepting
  <2> QED BY <1>1, <1>4, <2>1 DEF AllInv, SingleInv, NotYetOK
<1>9. KnownOK'
  BY <1>1, <1>5 DEF AllInv, SingleInv, KnownOK
<1>10. TokensOK'
  BY <1>1, <1>5 DEF OneAtATime, AllInv, SingleInv, TokensOK, Blacklisting
<1>11. WorkOK'
  BY <1>1, OnlyThread, AtRest DEF RestSteps
<1> QED BY <1>6, <1>7, <1>8, <1>9, <1>10, <1>11 DEF SingleInv

\* Writing the role keeps records records, and everything else in them.
LEMMA RoleChange ==
  ASSUME TypeInv, NEW t \in Threads, MetaRecord(t)
  PROVE  \A d \in Dids : /\ Known(d)' <=> Known(d)
                         /\ Known(d) => devices'[d].status = devices[d].status
                         /\ Revoked(d)' <=> Revoked(d)
                         /\ Registered(d)' <=> Registered(d)
                         /\ d # Sess(t).did => devices'[d] = devices[d]
<1>1. pc[t] \in KeySteps /\ devices \in [Dids -> DeviceRecord \cup {None}]
  BY DEF MetaRecord, At, KeySteps, TypeInv, TypeOK
<1>2. CASE UNCHANGED devices
  BY <1>2 DEF Known, Revoked, Registered
<1>3. CASE /\ Known(Sess(t).did)
           /\ devices' = [devices EXCEPT ![Sess(t).did].roleOk = frame[t].roleOk]
  <2>1. PICK own \in Dids : own = Sess(t).did
    BY <1>1, KeyLocals
  <2> DEFINE new == [devices[own] EXCEPT !.roleOk = frame[t].roleOk]
  <2>2. devices[own] \in DeviceRecord /\ frame[t].roleOk \in BOOLEAN
    BY <1>1, <1>3, <2>1, KeyLocals DEF Known, Frame
  <2>3. new \in DeviceRecord /\ new.status = devices[own].status
    BY <2>2 DEF DeviceRecord
  <2>4. devices' = [devices EXCEPT ![own] = new]
    BY <1>3, <2>1
  <2> HIDE DEF new
  <2> QED BY <1>1, <1>3, <2>1, <2>3, <2>4, NoRecordAssumption DEF Known, Revoked, Registered
<1> QED BY <1>2, <1>3 DEF MetaRecord

\* Writing the role changes neither who is known nor who is revoked.
LEMMA MetaRecordSingle ==
  ASSUME OneAtATime, AllInv, NEW t \in Threads, MetaRecord(t)
  PROVE  SingleInv'
<1>1. /\ TypeOK /\ pc[t] = "meta_record" /\ pc[t] \in SessionSteps
      /\ UNCHANGED <<sessions, pending, latest_package, issued, revoked_token_ids>>
  BY DEF AllInv, TypeInv, MetaRecord, At, notRegistration, epochVars, tokenVars,
     SessionSteps, KeySteps
<1>2. PICK own \in Sids : own = frame[t].sid /\ sessions[own].did \in Dids /\ Stored(own)
  BY <1>1, KeyLocals DEF AllInv, Sess, KeySteps, SingleInv, WorkOK, WorkAt
<1>3. PICK step \in {"meta_queue", "idle"} :
        \/ step = "idle" /\ Call(t, step, NoFrame)
        \/ step = "meta_queue" /\ Call(t, step, frame[t]) /\ Known(sessions[own].did)
  BY <1>1, <1>2, GotoCall DEF MetaRecord, Reply, Sess
<1>4. \A s \in Sids : Onboards(s)' <=> Onboards(s)
  BY <1>1 DEF Onboards, Stored
<1>5. \A d \in Dids : (Known(d)' <=> Known(d)) /\ (Revoked(d)' <=> Revoked(d))
  BY <1>2, RoleChange DEF AllInv, Sess
<1>6. OnboardOK' /\ UnknownOK' /\ KnownOK'
  BY <1>1, <1>4, <1>5
     DEF AllInv, SingleInv, OnboardOK, UnknownOK, KnownOK, TypeInv, SessionDid, Onboards
<1>7. NotYetOK'
  <2>1. \A s \in Sids : ~Accepting(s)
    BY <1>1 DEF OneAtATime, Accepting
  <2> QED BY <1>1, <1>4, <2>1 DEF AllInv, SingleInv, NotYetOK
<1>8. TokensOK'
  BY <1>1, <1>5 DEF OneAtATime, AllInv, SingleInv, TokensOK, Blacklisting
<1>9. WorkOK'
  <2>1. CASE step = "idle"
    BY <1>1, <1>3, <2>1, OnlyThread, AtRest DEF RestSteps
  <2>2. CASE step = "meta_queue"
    <3>1. \A u \in Threads : u = t /\ pc'[u] = "meta_queue" /\ frame'[u] = frame[t]
      BY <1>1, <1>3, <2>2, OnlyThread
    <3>2. Known(sessions[own].did)'
      BY <1>1, <1>2, <1>3, <1>5, <2>2
    <3> QED BY <1>1, <1>2, <3>1, <3>2 DEF WorkOK, WorkAt, Stored, Sess
  <2> QED BY <1>3, <2>1, <2>2
<1> QED BY <1>6, <1>7, <1>8, <1>9 DEF SingleInv

\* Queueing the leaf: only the session of the request onboards its device.
LEMMA MetaQueueSingle ==
  ASSUME OneAtATime, AllInv, NEW t \in Threads, MetaQueue(t)
  PROVE  SingleInv'
<1>1. /\ TypeOK /\ pc[t] = "meta_queue" /\ pc[t] \in SessionSteps
      /\ UNCHANGED <<sessions, devices, latest_package, issued, revoked_token_ids>>
  BY DEF AllInv, TypeInv, MetaQueue, At, tokenVars, SessionSteps, KeySteps
<1>2. PICK own \in Sids : own = frame[t].sid /\ sessions[own].did \in Dids /\ Stored(own)
  BY <1>1, KeyLocals DEF AllInv, Sess, KeySteps, SingleInv, WorkOK, WorkAt
<1>3. sessions[own].state = "POP_VERIFIED" /\ Onboards(own) /\ Known(sessions[own].did)
  BY <1>1, <1>2 DEF AllInv, SessionInv, StatesOK, SessionAt, Proven, SingleInv, WorkOK, WorkAt,
     Onboards, Sess
<1>4. PICK step \in {"meta_accept", "idle"} :
        \/ step = "idle" /\ Call(t, step, NoFrame) /\ pending' = pending
        \/ step = "meta_accept" /\ Call(t, step, frame[t])
           /\ pending' = pending \cup {sessions[own].did}
  BY <1>1, <1>2, GotoCall DEF MetaQueue, Reply, Sess
<1>5. \A s \in Sids : Onboards(s)' <=> Onboards(s)
  BY <1>1 DEF Onboards, Stored
<1>6. \A d \in Dids : (Known(d)' <=> Known(d)) /\ (Revoked(d)' <=> Revoked(d))
  BY <1>1 DEF Known, Revoked
<1>7. OnboardOK' /\ UnknownOK' /\ KnownOK'
  BY <1>1, <1>3, <1>4, <1>5, <1>6
     DEF AllInv, SingleInv, OnboardOK, UnknownOK, KnownOK, TypeInv, SessionDid, Onboards
<1>8. NotYetOK'
  <2>1. \A s \in Sids : ~Accepting(s)
    BY <1>1 DEF OneAtATime, Accepting
  <2>2. CASE step = "idle"
    BY <1>1, <1>4, <1>5, <2>1, <2>2 DEF AllInv, SingleInv, NotYetOK
  <2>3. CASE step = "meta_accept"
    <3>1. Accepting(own)'
      BY <1>1, <1>2, <1>4, <2>3, OnlyThread DEF Accepting
    <3>2. \A s \in Sids : Onboards(s) /\ s # own => sessions[s].did # sessions[own].did
      BY <1>3 DEF AllInv, SingleInv, OnboardOK
    <3> QED BY <1>1, <1>4, <1>5, <2>1, <2>3, <3>1, <3>2 DEF AllInv, SingleInv, NotYetOK
  <2> QED BY <1>4, <2>2, <2>3
<1>9. TokensOK'
  BY <1>1, <1>6 DEF OneAtATime, AllInv, SingleInv, TokensOK, Blacklisting
<1>10. WorkOK'
  <2>1. CASE step = "idle"
    BY <1>1, <1>4, <2>1, OnlyThread, AtRest DEF RestSteps
  <2>2. CASE step = "meta_accept"
    <3>1. \A u \in Threads : u = t /\ pc'[u] = "meta_accept" /\ frame'[u] = frame[t]
      BY <1>1, <1>4, <2>2, OnlyThread
    <3> QED BY <1>1, <1>2, <1>3, <3>1 DEF WorkOK, WorkAt, Stored, Sess, Known
  <2> QED BY <1>4, <2>1, <2>2
<1> QED BY <1>7, <1>8, <1>9, <1>10 DEF SingleInv

\* Accepting the metadata ends the onboarding of the device.  The reply changes
\* nothing.
LEMMA MetaAcceptSingle ==
  ASSUME OneAtATime, AllInv, NEW t \in Threads, MetaAccept(t)
  PROVE  SingleInv'
<1> DEFINE new == [Sess(t) EXCEPT !.state = "METADATA_ACCEPTED"]
<1>1. /\ TypeOK /\ pc[t] = "meta_accept" /\ pc[t] \in SessionSteps
      /\ SetSession(t, new) /\ Call(t, "meta_reply", frame[t])
      /\ UNCHANGED <<devices, pending, latest_package, issued, revoked_token_ids>>
  BY GotoCall DEF AllInv, TypeInv, MetaAccept, At, notRegistration, epochVars, tokenVars,
     SessionSteps, KeySteps
<1>2. PICK own \in Sids : own = frame[t].sid /\ Stored(own)
  BY <1>1, OwnSessionOnly DEF AllInv, SingleInv, WorkOK, WorkAt
<1>3. Sess(t) \in Session /\ Onboards(own)
  BY <1>1, <1>2, OwnSessionOnly DEF AllInv, SessionInv, StatesOK, SessionAt, Proven, Onboards, Sess
<1>4. /\ new.did = sessions[own].did /\ new.state = "METADATA_ACCEPTED"
      /\ new.life = sessions[own].life
  BY <1>2, <1>3 DEF Session, Sess
<1> HIDE DEF new
<1>5. /\ sessions'[own] = new
      /\ \A s \in Sids \ {own} :
           sessions'[s] = sessions[s] /\ (Onboards(s)' <=> Onboards(s))
  BY <1>1, <1>2, OwnSessionOnly
<1>6. OnboardOK'
  BY <1>3, <1>4, <1>5 DEF AllInv, SingleInv, OnboardOK
<1>7. UnknownOK'
  BY <1>1, <1>4, <1>5 DEF AllInv, SingleInv, UnknownOK, Known
<1>8. NotYetOK'
  <2>1. \A s \in Sids \ {own} : ~Accepting(s)
    BY <1>2 DEF OneAtATime, Accepting
  <2> QED BY <1>1, <1>4, <1>5, <2>1 DEF AllInv, SingleInv, NotYetOK
<1>9. KnownOK'
  BY <1>1 DEF AllInv, SingleInv, KnownOK, Known
<1>10. TokensOK'
  BY <1>1 DEF OneAtATime, AllInv, SingleInv, TokensOK, Blacklisting, Revoked, Known
<1>11. WorkOK'
  <2>1. \A u \in Threads : u = t /\ pc'[u] = "meta_reply" /\ frame'[u] = frame[t]
    BY <1>1, OnlyThread
  <2>2. Stored(own)'
    BY <1>2, <1>4, <1>5 DEF Stored
  <2> QED BY <1>2, <2>1, <2>2 DEF WorkOK, WorkAt, Stored
<1> QED BY <1>6, <1>7, <1>8, <1>9, <1>10, <1>11 DEF SingleInv

LEMMA MetaReplySingle ==
  ASSUME OneAtATime, AllInv, NEW t \in Threads, MetaReply(t)
  PROVE  SingleInv'
<1>1. /\ TypeOK /\ pc[t] = "meta_reply" /\ Call(t, "idle", NoFrame)
      /\ UNCHANGED <<sessions, devices, pending, latest_package, issued, revoked_token_ids>>
  BY DEF AllInv, TypeInv, MetaReply, Reply, At, notRegistration, epochVars, tokenVars
<1>2. WorkOK'
  BY <1>1, OnlyThread, AtRest DEF RestSteps
<1>3. \A u \in Threads : pc[u] \notin {"meta_accept", "revoke_list", "revoke_tokens"}
  BY <1>1 DEF OneAtATime
<1> QED BY <1>1, <1>2, <1>3, MoveOn, SameOnboards DEF AllInv

-----------------------------------------------------------------------------
(* Tokens and revocation.                                                  *)

\* set_status changes the status of one known device.
LEMMA StatusChange ==
  ASSUME TypeInv, NEW own \in Dids, NEW status \in DeviceStatus, set_status(own, status)
  PROVE  \A d \in Dids : /\ Known(d)' <=> Known(d)
                         /\ Known(d) => devices'[d].roleOk = devices[d].roleOk
                         /\ d = own /\ Known(d) => devices'[d].status = status
                         /\ d # own => devices'[d] = devices[d]
<1>1. devices \in [Dids -> DeviceRecord \cup {None}]
  BY DEF TypeInv, TypeOK
<1>2. CASE ~Known(own)
  BY <1>2 DEF set_status, Known
<1>3. CASE Known(own)
  <2> DEFINE new == [devices[own] EXCEPT !.status = status]
  <2>1. devices[own] \in DeviceRecord
    BY <1>1, <1>3 DEF Known
  <2>2. new \in DeviceRecord /\ new.status = status /\ new.roleOk = devices[own].roleOk
    BY <2>1 DEF DeviceRecord
  <2>3. devices' = [devices EXCEPT ![own] = new]
    BY <1>3 DEF set_status
  <2> HIDE DEF new
  <2> QED BY <1>1, <1>3, <2>2, <2>3, NoRecordAssumption DEF Known
<1> QED BY <1>2, <1>3

\* Records may change as long as everybody stays known.
SameKnown == \A d \in Dids : Known(d)' <=> Known(d)

\* A step outside onboarding that leaves the batch and the packages alone.
LEMMA Beyond ==
  ASSUME AllInv, SameKnown, WorkOK', TokensOK',
         \A u \in Threads : pc[u] # "meta_accept",
         UNCHANGED <<sessions, pending, latest_package>>
  PROVE  SingleInv'
<1>1. \A s \in Sids : Onboards(s)' <=> Onboards(s)
  BY DEF Onboards, Stored
<1>2. OnboardOK' /\ UnknownOK' /\ KnownOK'
  BY <1>1 DEF AllInv, SingleInv, OnboardOK, UnknownOK, KnownOK, TypeInv, SessionDid, Onboards,
     SameKnown
<1>3. NotYetOK'
  BY <1>1 DEF AllInv, SingleInv, NotYetOK, Accepting
<1> QED BY <1>2, <1>3 DEF SingleInv

\* The checks of /tokens/issue.
LEMMA IssueChecksSingle ==
  ASSUME OneAtATime, AllInv, NEW t \in Threads, IssueKnown(t) \/ IssueEligible(t)
  PROVE  SingleInv'
<1>1. /\ TypeOK /\ pc[t] \in IssueSteps /\ pc[t] \notin SessionSteps
      /\ UNCHANGED <<sessions, devices, pending, latest_package, issued, revoked_token_ids>>
  BY DEF AllInv, TypeInv, IssueKnown, IssueEligible, At, notToken, epochVars, tokenVars,
     SessionSteps, PubkeySteps, KeySteps, IssueSteps
<1>2. PICK step \in {"issue_eligible", "issue_record", "idle"} :
        \/ step = "idle" /\ Call(t, step, NoFrame)
        \/ step # "idle" /\ Call(t, step, frame[t])
  BY <1>1, GotoCall DEF IssueKnown, IssueEligible, Reply
<1>3. WorkOK'
  <2>1. CASE step = "idle"
    BY <1>1, <1>2, <2>1, OnlyThread, AtRest DEF RestSteps
  <2>2. CASE step # "idle"
    <3>1. \A u \in Threads : u = t /\ pc'[u] = step /\ frame'[u] = frame[t]
      BY <1>1, <1>2, <2>2, OnlyThread
    <3>2. /\ Known(frame[t].did) /\ ~Revoked(frame[t].did)
          /\ step = "issue_record" => ~Registered(frame[t].did)
      <4>1. CASE IssueKnown(t)
        BY <1>1, <1>2, <2>2, <3>1, <4>1 DEF IssueKnown, NotRevoked, Reply, Call, Goto, At,
           TypeOK, Revoked
      <4>2. CASE IssueEligible(t)
        BY <1>1, <1>2, <2>2, <3>1, <4>2 DEF IssueEligible, MayHaveToken, Reply, Call, Goto, At,
           TypeOK, Registered, AllInv, SingleInv, WorkOK, WorkAt
      <4> QED BY <4>1, <4>2
    <3> QED BY <1>1, <1>2, <2>2, <3>1, <3>2
            DEF WorkOK, WorkAt, Known, Revoked, Registered, SessionSteps, PubkeySteps, KeySteps
  <2> QED BY <2>1, <2>2
<1>4. \A u \in Threads : pc[u] \notin {"meta_accept", "revoke_list", "revoke_tokens"}
  BY <1>1 DEF OneAtATime, IssueSteps
<1> QED BY <1>1, <1>3, <1>4, MoveOn, SameOnboards DEF AllInv

\* Recording the token, and the status TOKENIZED: the device is not revoked.
LEMMA IssueSingle ==
  ASSUME OneAtATime, AllInv, NEW t \in Threads, IssueRecord(t) \/ IssueStatus(t)
  PROVE  SingleInv'
<1>1. /\ TypeOK /\ pc[t] \in {"issue_record", "issue_status"} /\ frame[t].did \in Dids
      /\ UNCHANGED <<sessions, pending, latest_package, revoked_token_ids>>
  BY DEF AllInv, TypeInv, FrameOK, LocalsOK, IssueSteps, IssueRecord, IssueStatus, At,
     notToken, epochVars, tokenVars
<1>2. Known(frame[t].did) /\ ~Revoked(frame[t].did) /\ ~Registered(frame[t].did)
  BY <1>1 DEF AllInv, SingleInv, WorkOK, WorkAt
<1>3. \A u \in Threads : pc[u] \notin {"meta_accept", "revoke_list", "revoke_tokens"}
  BY <1>1 DEF OneAtATime
<1>4. CASE IssueRecord(t)
  <2>1. \A u \in Threads : u = t /\ pc'[u] = "issue_status" /\ frame'[u] = frame[t]
    BY <1>1, <1>4, GotoCall, OnlyThread DEF IssueRecord
  <2>2. UNCHANGED devices /\ issued' = [issued EXCEPT ![frame[t].tok] = frame[t].did]
    BY <1>4 DEF IssueRecord
  <2>3. SameKnown
    BY <2>2 DEF SameKnown, Known
  <2>4. WorkOK'
    BY <1>2, <2>1, <2>2
       DEF WorkOK, WorkAt, Known, Revoked, Registered, SessionSteps, PubkeySteps, KeySteps
  <2>5. TokensOK'
    BY <1>1, <1>2, <1>3, <2>2 DEF AllInv, SingleInv, TokensOK, Blacklisting, Revoked, Known, TypeOK
  <2> QED BY <1>1, <1>3, <2>3, <2>4, <2>5, Beyond
<1>5. CASE IssueStatus(t)
  <2>1. PICK own \in Dids : own = frame[t].did
    BY <1>1
  <2>2. set_status(own, "TOKENIZED") /\ UNCHANGED issued /\ Call(t, "idle", NoFrame)
    BY <1>5, <2>1 DEF IssueStatus, tokenVars, Reply
  <2>3. SameKnown /\ \A d \in Dids : Revoked(d)' => Revoked(d)
    BY <1>2, <2>1, <2>2, StatusChange DEF AllInv, SameKnown, Revoked, DeviceStatus
  <2>4. WorkOK'
    BY <1>1, <2>2, OnlyThread, AtRest DEF RestSteps
  <2>5. TokensOK'
    BY <1>1, <1>3, <2>2, <2>3 DEF AllInv, SingleInv, TokensOK, Blacklisting
  <2> QED BY <1>1, <1>3, <2>3, <2>4, <2>5, Beyond
<1> QED BY <1>4, <1>5

\* The status REVOKED comes first, with the tokens still to be blacklisted.
LEMMA RevokeSingle ==
  ASSUME OneAtATime, AllInv, NEW t \in Threads, NEW own \in Dids,
         NEW extra \in {{}} \cup {{k} : k \in Tokens}, Revoke(t, own, extra)
  PROVE  SingleInv'
<1> DEFINE f == [NoFrame EXCEPT !.did = own, !.toks = extra]
<1>1. /\ TypeOK /\ pc[t] = "idle" /\ set_status(own, "REVOKED")
      /\ Call(t, "revoke_list", f)
      /\ UNCHANGED <<sessions, pending, latest_package, issued, revoked_token_ids>>
  BY DEF AllInv, TypeInv, Revoke, Idle, tokenVars, notToken, epochVars
<1>2. f.did = own
  BY DEF NoFrame
<1> HIDE DEF f
<1>3. \A u \in Threads : u = t /\ pc'[u] = "revoke_list" /\ frame'[u] = f
  BY <1>1, OnlyThread
<1>4. SameKnown /\ \A d \in Dids : Revoked(d)' => Revoked(d) \/ d = own
  BY <1>1, StatusChange DEF AllInv, SameKnown, Revoked, DeviceStatus
<1>5. WorkOK'
  BY <1>3, AtRest DEF RestSteps
<1>6. TokensOK'
  <2>1. \A k \in Tokens : ~Blacklisting(k)
    BY <1>1 DEF OneAtATime, Blacklisting
  <2>2. \A k \in Tokens : issued[k] = own => Blacklisting(k)'
    BY <1>1, <1>2, <1>3 DEF Blacklisting
  <2> QED BY <1>1, <1>4, <2>1, <2>2 DEF AllInv, SingleInv, TokensOK
<1> QED BY <1>1, <1>4, <1>5, <1>6, Beyond DEF OneAtATime

\* Listing the device's tokens and blacklisting them one by one.
LEMMA RevokeStepsSingle ==
  ASSUME OneAtATime, AllInv, NEW t \in Threads, RevokeList(t) \/ RevokeTokens(t)
  PROVE  SingleInv'
<1>1. /\ TypeOK /\ pc[t] \in {"revoke_list", "revoke_tokens"} /\ frame[t] \in Frame
      /\ UNCHANGED <<sessions, devices, pending, latest_package, issued>>
  BY DEF AllInv, TypeInv, TypeOK, RevokeList, RevokeTokens, At, notToken, epochVars, tokenVars
<1>2. SameKnown /\ \A d \in Dids : Revoked(d)' <=> Revoked(d)
  BY <1>1 DEF SameKnown, Known, Revoked
<1>3. CASE RevokeList(t)
  <2>1. /\ pc'[t] = "revoke_tokens" /\ pc[t] = "revoke_list" /\ UNCHANGED revoked_token_ids
        /\ frame'[t].toks = frame[t].toks \cup tokens_of(frame[t].did)
    BY <1>1, <1>3 DEF RevokeList, At, Goto, TypeOK, Frame, tokenVars
  <2>2. WorkOK'
    BY <2>1, AtRest DEF RestSteps, OneAtATime
  <2>3. TokensOK'
    <3>1. \A k \in Tokens : Blacklisting(k) => Blacklisting(k)'
      BY <1>1, <2>1 DEF OneAtATime, Blacklisting, tokens_of
    <3> QED BY <1>1, <1>2, <2>1, <3>1 DEF AllInv, SingleInv, TokensOK
  <2> QED BY <1>1, <1>2, <2>2, <2>3, Beyond DEF OneAtATime
<1>4. CASE RevokeTokens(t) /\ frame[t].toks = {}
  <2>1. Call(t, "idle", NoFrame) /\ UNCHANGED revoked_token_ids /\ pc[t] = "revoke_tokens"
    BY <1>4 DEF RevokeTokens, Reply, At
  <2>2. WorkOK'
    BY <1>1, <2>1, OnlyThread, AtRest DEF RestSteps
  <2>3. TokensOK'
    BY <1>1, <1>2, <1>4, <2>1 DEF OneAtATime, AllInv, SingleInv, TokensOK, Blacklisting
  <2> QED BY <1>1, <1>2, <2>2, <2>3, Beyond DEF OneAtATime
<1>5. CASE RevokeTokens(t) /\ frame[t].toks # {}
  <2>1. PICK k \in frame[t].toks :
          /\ revoked_token_ids' = revoked_token_ids \cup {k}
          /\ frame' = [frame EXCEPT ![t].toks = @ \ {k}] /\ UNCHANGED pc
    BY <1>5 DEF RevokeTokens
  <2>2. pc[t] = "revoke_tokens" /\ pc'[t] = pc[t] /\ frame'[t].toks = frame[t].toks \ {k}
    BY <1>1, <1>5, <2>1 DEF RevokeTokens, At, TypeOK, Frame
  <2>3. WorkOK'
    BY <2>2, AtRest DEF RestSteps, OneAtATime
  <2>4. TokensOK'
    <3>1. \A j \in Tokens : Blacklisting(j) => Blacklisting(j)' \/ j = k
      BY <1>1, <2>1, <2>2 DEF OneAtATime, Blacklisting
    <3> QED BY <1>1, <1>2, <2>1, <3>1 DEF AllInv, SingleInv, TokensOK
  <2> QED BY <1>1, <1>2, <2>2, <2>3, <2>4, Beyond DEF OneAtATime
<1> QED BY <1>3, <1>4, <1>5

\* Revoking one token of a device.
LEMMA RevokeTokenSingle ==
  ASSUME AllInv, NEW t \in Threads, NEW d \in Dids, NEW k \in Tokens, RevokeToken(t, d, k)
  PROVE  SingleInv'
<1>1. UNCHANGED <<sessions, devices, pending, latest_package, issued, pc, frame>>
      /\ revoked_token_ids \subseteq revoked_token_ids'
  BY DEF RevokeToken, notToken, epochVars
<1>2. OnboardOK' /\ UnknownOK' /\ KnownOK' /\ NotYetOK' /\ TokensOK'
  BY <1>1 DEF AllInv, SingleInv, OnboardOK, UnknownOK, KnownOK, NotYetOK, TokensOK, Onboards,
     Stored, Known, Revoked, Accepting, Blacklisting
<1>3. WorkOK'
  BY <1>1 DEF AllInv, SingleInv, WorkOK, WorkAt, Onboards, Stored, Known, Revoked, Registered,
     Sess, by_status
<1> QED BY <1>2, <1>3 DEF SingleInv

-----------------------------------------------------------------------------
(* Closing an epoch.                                                       *)

\* The steps of finalize_epoch before the records are updated: the members are
\* queued or registered, and not revoked.
LEMMA CloseChecksSingle ==
  ASSUME OneAtATime, AllInv, NEW t \in Threads,
         \/ CloseAcquire(t) \/ CloseRevoked(t) \/ CloseCollect(t) \/ CloseAnchor(t)
         \/ ProofReply(t)
  PROVE  SingleInv'
<1>1. /\ TypeOK /\ frame[t] \in Frame
      /\ pc[t] \in {"close_acquire", "close_revoked", "close_collect", "close_anchor",
                    "proof_package"}
      /\ UNCHANGED <<sessions, devices, pending, latest_package, issued, revoked_token_ids>>
  BY DEF AllInv, TypeInv, TypeOK, CloseAcquire, CloseRevoked, CloseCollect, CloseAnchor,
     ProofReply, At, notEpoch, epochVars, tokenVars
<1>2. \A u \in Threads : u = t
  BY DEF OneAtATime
<1>3. \/ pc'[t] \in RestSteps
      \/ pc'[t] = "close_collect" /\ by_status("REVOKED") \subseteq frame'[t].dids
      \/ pc'[t] = "close_anchor" /\ frame'[t].dids = Members(t)
         /\ by_status("REVOKED") \subseteq frame[t].dids
      \/ pc'[t] = "close_update" /\ pc[t] = "close_anchor" /\ frame'[t].dids = frame[t].dids
  <2>1. CASE CloseAcquire(t) \/ ProofReply(t)
    BY <1>1, <2>1 DEF CloseAcquire, ProofReply, Reply, Call, Goto, TypeOK, RestSteps
  <2>2. CASE CloseRevoked(t)
    BY <1>1, <2>2 DEF CloseRevoked, Goto, TypeOK, Frame, blocked
  <2>3. CASE CloseCollect(t)
    BY <1>1, <2>3 DEF CloseCollect, Release, Call, Goto, At, TypeOK, Frame, RestSteps, AllInv,
       SingleInv, WorkOK, WorkAt
  <2>4. CASE CloseAnchor(t)
    BY <1>1, <2>4 DEF CloseAnchor, Saved, NotSaved, Raise, Release, Call, Goto, At, TypeOK,
       Frame, RestSteps
  <2> QED BY <2>1, <2>2, <2>3, <2>4
<1>4. \A d \in Dids : (Known(d)' <=> Known(d)) /\ (Revoked(d)' <=> Revoked(d))
                      /\ (Registered(d)' <=> Registered(d))
  BY <1>1 DEF Known, Revoked, Registered
<1>5. WorkOK'
  <2>1. CASE pc'[t] \in RestSteps
    BY <1>2, <2>1, AtRest
  <2>2. CASE pc'[t] = "close_collect" /\ by_status("REVOKED") \subseteq frame'[t].dids
    BY <1>1, <1>2, <2>2 DEF WorkOK, WorkAt, by_status, Known, SessionSteps, PubkeySteps, KeySteps
  <2>3. CASE pc'[t] = "close_anchor" /\ frame'[t].dids = Members(t)
             /\ by_status("REVOKED") \subseteq frame[t].dids
    <3>1. \A d \in Members(t) : d \in Dids /\ ~Revoked(d) /\ (d \in pending \/ Registered(d))
      BY <1>1, <2>3 DEF Members, Carried, by_status, Revoked, Registered, TypeOK
    <3> QED BY <1>1, <1>2, <1>4, <2>3, <3>1
            DEF WorkOK, WorkAt, SessionSteps, PubkeySteps, KeySteps
  <2>4. CASE pc'[t] = "close_update" /\ pc[t] = "close_anchor" /\ frame'[t].dids = frame[t].dids
    <3>1. \A d \in frame[t].dids : d \in Dids /\ ~Revoked(d) /\ (d \in pending \/ Registered(d))
      BY <1>1, <2>4 DEF AllInv, SingleInv, WorkOK, WorkAt, Frame
    <3> QED BY <1>1, <1>2, <1>4, <2>4, <3>1
            DEF WorkOK, WorkAt, SessionSteps, PubkeySteps, KeySteps
  <2> QED BY <1>3, <2>1, <2>2, <2>3, <2>4
<1>6. \A u \in Threads : pc[u] \notin {"meta_accept", "revoke_list", "revoke_tokens"}
  BY <1>1, <1>2
<1> QED BY <1>1, <1>5, <1>6, MoveOn, SameOnboards DEF AllInv

\* finalize_epoch sets one known device REGISTERED, with the open epoch.
LEMMA RegisterChange ==
  ASSUME TypeInv, NEW own \in Dids, Register(own)
  PROVE  \A d \in Dids : /\ Known(d)' <=> Known(d)
                         /\ Known(d) => devices'[d].roleOk = devices[d].roleOk
                         /\ d = own /\ Known(d) => devices'[d].status = "REGISTERED"
                         /\ d # own => devices'[d] = devices[d]
<1>1. devices \in [Dids -> DeviceRecord \cup {None}] /\ current_epoch_id \in Nat
  BY DEF TypeInv, TypeOK
<1>2. CASE ~Known(own)
  BY <1>2 DEF Register, Known
<1>3. CASE Known(own)
  <2> DEFINE new == [devices[own] EXCEPT !.status = "REGISTERED",
                                         !.epoch_id = current_epoch_id]
  <2>1. devices[own] \in DeviceRecord
    BY <1>1, <1>3 DEF Known
  <2>2. new \in DeviceRecord /\ new.status = "REGISTERED" /\ new.roleOk = devices[own].roleOk
    BY <1>1, <2>1 DEF DeviceRecord, DeviceStatus
  <2>3. devices' = [devices EXCEPT ![own] = new]
    BY <1>1, <1>3, <2>1 DEF Register, DeviceRecord
  <2> HIDE DEF new
  <2> QED BY <1>1, <1>3, <2>2, <2>3, NoRecordAssumption DEF Known
<1> QED BY <1>2, <1>3

\* Updating one device of the batch: it is not revoked, and no session is still
\* onboarding it.
LEMMA CloseUpdateSingle ==
  ASSUME OneAtATime, AllInv, NEW t \in Threads, CloseUpdate(t)
  PROVE  SingleInv'
<1>1. PICK d \in frame[t].todo :
        /\ Register(d)
        /\ latest_package' = [latest_package EXCEPT ![d] =
             [epoch_id |-> current_epoch_id, root |-> frame[t].dids]]
        /\ frame' = [frame EXCEPT ![t].todo = @ \ {d}]
  BY DEF CloseUpdate
<1>2. /\ TypeOK /\ pc[t] = "close_update" /\ frame[t] \in Frame
      /\ UNCHANGED <<sessions, pending, issued, revoked_token_ids, pc>>
      /\ \A u \in Threads : u = t
  BY DEF AllInv, TypeInv, TypeOK, CloseUpdate, At, notEpoch, tokenVars, OneAtATime
<1>3. d \in Dids /\ d \in frame[t].dids /\ frame[t].dids \subseteq Dids
  BY <1>1, <1>2 DEF AllInv, LedgerInv, BatchOK, Frame
<1>4. ~Revoked(d) /\ Known(d) /\ (d \in pending \/ Registered(d))
  BY <1>2, <1>3 DEF AllInv, SingleInv, WorkOK, WorkAt, KnownOK, Registered
<1>5. \A e \in Dids : /\ Known(e)' <=> Known(e)
                      /\ Revoked(e)' <=> Revoked(e)
                      /\ Registered(e) => Registered(e)'
  BY <1>1, <1>2, <1>3, <1>4, RegisterChange DEF AllInv, Revoked, Registered
<1>6. \A s \in Sids : Onboards(s)' <=> Onboards(s)
  BY <1>2 DEF Onboards, Stored
<1>7. OnboardOK' /\ UnknownOK'
  BY <1>2, <1>5, <1>6
     DEF AllInv, SingleInv, OnboardOK, UnknownOK, TypeInv, SessionDid, Onboards
<1>8. /\ \A e \in Dids \ {d} : latest_package'[e] = latest_package[e]
      /\ frame'[t].dids = frame[t].dids
  BY <1>1, <1>2, <1>3 DEF TypeOK, Frame
<1>9. KnownOK'
  BY <1>2, <1>4, <1>5, <1>8 DEF AllInv, SingleInv, KnownOK
<1>10. NotYetOK'
  <2> SUFFICES ASSUME NEW s \in Sids, Onboards(s), sessions[s].state = "POP_VERIFIED"
               PROVE  sessions[s].did \notin pending /\ latest_package'[sessions[s].did] = None
    BY <1>2, <1>6 DEF NotYetOK
  <2>1. sessions[s].did \notin pending /\ latest_package[sessions[s].did] = None
        /\ sessions[s].did \in Dids
    BY <1>2 DEF AllInv, SingleInv, NotYetOK, Accepting, TypeInv, SessionDid
  <2>2. ~Registered(sessions[s].did)
    BY <2>1 DEF AllInv, LedgerInv, RecordsOK
  <2> QED BY <1>4, <1>8, <2>1, <2>2
<1>11. TokensOK'
  BY <1>2, <1>5 DEF AllInv, SingleInv, TokensOK, Blacklisting
<1>12. WorkOK'
  <2>1. \A e \in frame[t].dids : e \in Dids /\ ~Revoked(e) /\ (e \in pending \/ Registered(e))
    BY <1>2, <1>3 DEF AllInv, SingleInv, WorkOK, WorkAt
  <2> QED BY <1>2, <1>5, <1>8, <2>1 DEF WorkOK, WorkAt, SessionSteps, PubkeySteps, KeySteps
<1> QED BY <1>7, <1>9, <1>10, <1>11, <1>12 DEF SingleInv

\* Opening the next epoch empties the batch.
LEMMA CloseFinishSingle ==
  ASSUME OneAtATime, AllInv, NEW t \in Threads, CloseFinish(t)
  PROVE  SingleInv'
<1>1. /\ TypeOK /\ pc[t] = "close_update" /\ Call(t, "idle", NoFrame) /\ pending' = {}
      /\ UNCHANGED <<sessions, devices, latest_package, issued, revoked_token_ids>>
      /\ \A u \in Threads : u = t
  BY DEF AllInv, TypeInv, CloseFinish, Release, At, notEpoch, tokenVars, OneAtATime
<1>2. OnboardOK' /\ UnknownOK' /\ KnownOK' /\ NotYetOK' /\ TokensOK'
  BY <1>1 DEF AllInv, SingleInv, OnboardOK, UnknownOK, KnownOK, NotYetOK, TokensOK, Onboards,
     Stored, Known, Revoked, Accepting, Blacklisting
<1>3. WorkOK'
  BY <1>1, OnlyThread, AtRest DEF RestSteps
<1> QED BY <1>2, <1>3 DEF SingleInv

-----------------------------------------------------------------------------
(* Requests and the environment.                                           *)

\* Sessions that begin or end do not onboard.
LEMMA SessionLifeSingle ==
  ASSUME OneAtATime, AllInv, NEW t \in Threads, NEW s \in Sids,
         RegisterStart(t, s) \/ SessionGone(t, s)
  PROVE  SingleInv'
<1>1. /\ TypeOK /\ pc[t] = "idle" /\ UNCHANGED <<pc, frame>>
      /\ UNCHANGED <<devices, pending, latest_package, issued, revoked_token_ids>>
  BY DEF AllInv, TypeInv, RegisterStart, SessionGone, Idle, notRegistration, epochVars, tokenVars
<1>2. OnboardsLess
  <2>1. \A z \in Sids \ {s} : sessions'[z] = sessions[z]
    BY <1>1 DEF RegisterStart, SessionGone, TypeOK
  <2>2. ~Onboards(s)'
    <3>1. CASE RegisterStart(t, s)
      <4>1. NewSession.state = "AUTHENTICATED"
        BY DEF NewSession
      <4> QED BY <1>1, <3>1, <4>1 DEF RegisterStart, TypeOK, Onboards
    <3>2. CASE SessionGone(t, s)
      BY <1>1, <3>2 DEF SessionGone, TypeOK, Session, Onboards, Stored
    <3> QED BY <3>1, <3>2
  <2> QED BY <2>1, <2>2 DEF OnboardsLess, Onboards, Stored
<1>3. WorkOK'
  BY <1>1, AtRest DEF RestSteps, OneAtATime
<1> QED BY <1>1, <1>2, <1>3, MoveOn DEF AllInv

\* A request that only sets a frame.
LEMMA RequestSingle ==
  ASSUME OneAtATime, AllInv, NEW t \in Threads, pc[t] = "idle",
         NEW step, NEW f, Call(t, step, f), UNCHANGED stores,
         \/ step \in RestSteps
         \/ step \in {"pubkey_known", "pop_used", "meta_record"} /\ Stored(f.sid)
  PROVE  SingleInv'
<1>1. /\ TypeOK /\ UNCHANGED <<sessions, devices, pending, latest_package, issued, revoked_token_ids>>
  BY DEF AllInv, TypeInv, stores, epochVars, tokenVars
<1>2. \A u \in Threads : u = t /\ pc'[u] = step /\ frame'[u] = f
  BY <1>1, OnlyThread
<1>3. WorkOK'
  <2>1. CASE step \in RestSteps
    BY <1>2, <2>1, AtRest
  <2>2. CASE step \in {"pubkey_known", "pop_used", "meta_record"} /\ Stored(f.sid)
    BY <1>1, <1>2, <2>2 DEF WorkOK, WorkAt, Stored
  <2> QED BY <2>1, <2>2
<1> QED BY <1>1, <1>2, <1>3, MoveOn, SameOnboards DEF AllInv

\* The arrival of any request, and the timer's waking up.
LEMMA AnyRequestSingle ==
  ASSUME OneAtATime, AllInv, NEW t \in Threads, Request(t) \/ AutoClose(t)
  PROVE  SingleInv'
<1>1. ASSUME NEW s \in Sids,
             \/ \E d \in Dids : RegisterPubkey(t, s, d)
             \/ RegisterPop(t, s)
             \/ \E roleOk \in BOOLEAN : RegisterMetadata(t, s, roleOk)
      PROVE  SingleInv'
  <2>1. /\ pc[t] = "idle" /\ UNCHANGED stores /\ Stored(s)
    BY <1>1 DEF RegisterPubkey, RegisterPop, RegisterMetadata, Idle, Open, Stored, stores,
       notRegistration
  <2>2. PICK step, f :
          step \in {"pubkey_known", "pop_used", "meta_record"} /\ f.sid = s /\ Call(t, step, f)
    BY <1>1 DEF RegisterPubkey, RegisterPop, RegisterMetadata, NoFrame
  <2> QED BY <2>1, <2>2, RequestSingle
<1>2. CASE EpochRequest(t) \/ AutoClose(t)
  <2>1. pc[t] = "idle" /\ UNCHANGED stores
    BY <1>2 DEF EpochRequest, EpochClose, GetProof, AutoClose, Idle, At, stores, notEpoch
  <2>2. ASSUME NEW f, Call(t, "close_acquire", f) \/ Call(t, "proof_package", f)
        PROVE  SingleInv'
    BY <2>1, <2>2, RequestSingle DEF RestSteps
  <2> QED BY <1>2, <2>2 DEF EpochRequest, EpochClose, GetProof, AutoClose
<1>3. ASSUME NEW s \in Sids, TokensIssue(t, s) PROVE SingleInv'
  <2>1. pc[t] = "idle" /\ UNCHANGED stores
    BY <1>3 DEF TokensIssue, Idle, stores, notToken
  <2>2. PICK f : Call(t, "issue_known", f)
    BY <1>3 DEF TokensIssue
  <2> QED BY <2>1, <2>2, RequestSingle DEF RestSteps
<1> QED BY <1>1, <1>2, <1>3, SessionLifeSingle, RevokeSingle, RevokeTokenSingle
        DEF Request, RegistrationRequest, TokenRequest

\* A session that expires is still stored, and still onboards.
LEMMA ExpirySingle ==
  ASSUME AllInv, NEW s \in Sids, SessionExpires(s) PROVE SingleInv'
<1>1. /\ UNCHANGED <<pc, frame, devices, pending, latest_package, issued, revoked_token_ids>>
      /\ \A z \in Sids : /\ sessions'[z].state = sessions[z].state
                         /\ sessions'[z].did = sessions[z].did
                         /\ Stored(z)' <=> Stored(z)
  BY DEF AllInv, TypeInv, TypeOK, SessionExpires, Session, Stored, notRegistration, epochVars,
     tokenVars
<1>2. OnboardsLess
  BY <1>1 DEF OnboardsLess, Onboards
<1>3. WorkOK'
  <2> SUFFICES ASSUME NEW u \in Threads PROVE WorkAt(u)'
    BY DEF WorkOK
  <2>1. pc[u] \in SessionSteps => frame[u].sid \in Sids
    BY DEF AllInv, TypeInv, FrameOK, LocalsOK, SessionSteps
  <2>2. WorkAt(u)
    BY DEF AllInv, SingleInv, WorkOK
  <2>3. pc[u] \in {"pubkey_write", "pop_upsert", "meta_queue", "meta_accept"} => pc[u] \in SessionSteps
    BY DEF SessionSteps, PubkeySteps, KeySteps
  <2> QED BY <1>1, <1>2, <2>1, <2>2, <2>3
          DEF WorkAt, OnboardsLess, Sess, Known, Revoked, Registered, by_status
<1> QED BY <1>1, <1>2, <1>3, MoveOn DEF AllInv

\* After a restart nothing is known, queued, issued or under way.
LEMMA RestartSingle ==
  ASSUME AllInv, Restart PROVE SingleInv'
<1>1. /\ \A u \in Threads : pc'[u] = "idle"
      /\ \A s \in Sids : ~Onboards(s)'
      /\ pending' = {} /\ \A d \in Dids : latest_package'[d] = None
      /\ \A k \in Tokens : issued'[k] = None
  BY DEF AllInv, SessionInv, UnusedOK, Restart, AllIdle, NoRecords, NoTokens, NewSession,
     Onboards, Stored
<1>2. OnboardOK' /\ UnknownOK' /\ KnownOK' /\ NotYetOK' /\ TokensOK'
  BY <1>1, NoneAssumption DEF OnboardOK, UnknownOK, KnownOK, NotYetOK, TokensOK
<1>3. WorkOK'
  BY <1>1, AtRest DEF RestSteps
<1> QED BY <1>2, <1>3 DEF SingleInv

\* So it is when the fog node starts for the first time.
LEMMA InitSingle == Init => SingleInv
<1> SUFFICES ASSUME Init PROVE SingleInv
  OBVIOUS
<1>1. /\ \A u \in Threads : pc[u] = "idle"
      /\ \A s \in Sids : ~Onboards(s)
      /\ pending = {} /\ \A d \in Dids : latest_package[d] = None
      /\ \A k \in Tokens : issued[k] = None
  BY DEF Init, AllIdle, NoRecords, NoTokens, NewSession, Onboards, Stored
<1>2. OnboardOK /\ UnknownOK /\ KnownOK /\ NotYetOK /\ TokensOK
  BY <1>1, NoneAssumption DEF OnboardOK, UnknownOK, KnownOK, NotYetOK, TokensOK
<1>3. WorkOK
  BY <1>1 DEF WorkOK, WorkAt, SessionSteps, PubkeySteps, KeySteps
<1> QED BY <1>2, <1>3 DEF SingleInv

\* Every step preserves the invariant.
LEMMA NextSingle ==
  ASSUME OneAtATime PROVE AllInv /\ [Next]_vars => AllInv'
<1> SUFFICES ASSUME AllInv, [Next]_vars PROVE AllInv'
  OBVIOUS
<1>1. ASSUME NEW t \in Threads, Step(t) PROVE SingleInv'
  <2>1. CASE Registering(t)
    BY <2>1, PubkeyChecksSingle, PubkeyWriteSingle, PopChecksSingle, PopPassSingle,
       PopUpsertSingle, MetaRecordSingle, MetaQueueSingle, MetaAcceptSingle, MetaReplySingle
       DEF Registering
  <2>2. CASE Closing(t)
    BY <2>2, CloseChecksSingle, CloseUpdateSingle, CloseFinishSingle DEF Closing
  <2>3. CASE Issuing(t)
    BY <2>3, IssueChecksSingle, IssueSingle, RevokeStepsSingle DEF Issuing
  <2> QED BY <1>1, <2>1, <2>2, <2>3 DEF Step
<1>2. ASSUME NEW t \in Threads, Request(t) \/ AutoClose(t) PROVE SingleInv'
  BY <1>2, AnyRequestSingle
<1>3. ASSUME NEW s \in Sids, SessionExpires(s) PROVE SingleInv'
  BY <1>3, ExpirySingle
<1>4. ASSUME Restart PROVE SingleInv'
  BY <1>4, RestartSingle
<1>5. ASSUME UNCHANGED vars PROVE SingleInv'
  <2>1. UNCHANGED <<sessions, pc, frame, devices, pending, latest_package, issued,
                    revoked_token_ids>>
    BY <1>5 DEF vars, fogVars
  <2>2. WorkOK'
    BY <2>1 DEF AllInv, SingleInv, WorkOK, WorkAt, Onboards, Stored, Known, Revoked, Registered,
       Sess, by_status
  <2> QED BY <2>1, <2>2, MoveOn, SameOnboards DEF AllInv
<1>6. SingleInv'
  BY <1>1, <1>2, <1>3, <1>4, <1>5 DEF Next, Quiet
<1>7. TypeInv' /\ LedgerInv' /\ SessionInv'
  BY NextTypes, NextLedger, NextSession DEF AllInv, OneRequestPerSession, OneAtATime
<1> QED BY <1>6, <1>7 DEF AllInv

\* The invariant holds always.
LEMMA SingleInvariant == ASSUME OneAtATime PROVE Spec => []AllInv
<1>1. Init => AllInv
  BY InitTypes, InitLedger, InitSession, InitSingle DEF AllInv
<1> QED BY <1>1, NextSingle, PTL DEF Spec

-----------------------------------------------------------------------------
(* What it gives.                                                          *)

\* With one request at a time no two stored sessions onboard the same DID:
\* /register/pubkey refuses a DID in use, and nobody gets between its check and
\* its write (fog/registration/routes.py, fog/storage/store.py did_in_use).
THEOREM NobodyOnboardsTwice == ASSUME OneAtATime PROVE Spec => []OneOnboardingPerDid
<1>1. AllInv => OneOnboardingPerDid
  BY DEF AllInv, SingleInv, OnboardOK, OneOnboardingPerDid, Onboards
<1> QED BY <1>1, SingleInvariant, PTL

\* With one request at a time, when no revocation is under way every token of a
\* revoked device is blacklisted: none is issued to a revoked device, and a
\* revocation lists the tokens after it has set the status.
THEOREM RevocationIsComplete == ASSUME OneAtATime PROVE Spec => []RevokedTokensBlacklisted
<1>1. AllInv => RevokedTokensBlacklisted
  BY DEF AllInv, SingleInv, TokensOK, Blacklisting, RevokedTokensBlacklisted, by_status, Revoked
<1> QED BY <1>1, SingleInvariant, PTL

\* A step of a thread at work changes these of the records: it creates one that
\* did not exist, or changes the role or the status of one that did.
LEMMA StepChanges ==
  ASSUME OneAtATime, AllInv, NEW t \in Threads, Step(t) \/ Request(t) \/ AutoClose(t),
         NEW d \in Dids, Known(d)
  PROVE  /\ Known(d)'
         /\ Revoked(d) => Revoked(d)'
         /\ \/ devices'[d].roleOk = devices[d].roleOk
            \/ MetaRecord(t) /\ d = Sess(t).did
<1>1. TypeInv /\ TypeOK
  BY DEF AllInv, TypeInv
<1>2. CASE PopUpsert(t)
  <2>1. pc[t] = "pop_upsert" /\ ~Known(Sess(t).did)
    BY <1>2 DEF PopUpsert, At, AllInv, SingleInv, WorkOK, WorkAt
  <2>2. devices'[d] = devices[d]
    BY <1>1, <1>2, <2>1 DEF PopUpsert, TypeOK, Known
  <2> QED BY <2>2 DEF Known, Revoked
<1>3. CASE MetaRecord(t)
  BY <1>1, <1>3, RoleChange
<1>4. CASE IssueStatus(t)
  <2>1. PICK own \in Dids : own = frame[t].did /\ ~Revoked(own)
    BY <1>4 DEF IssueStatus, At, AllInv, SingleInv, WorkOK, WorkAt, TypeInv, FrameOK, LocalsOK,
       IssueSteps
  <2>2. set_status(own, "TOKENIZED") /\ "TOKENIZED" \in DeviceStatus
    BY <1>4, <2>1 DEF IssueStatus, DeviceStatus
  <2> QED BY <1>1, <2>1, <2>2, StatusChange DEF Revoked
<1>5. ASSUME NEW own \in Dids, NEW extra \in {{}} \cup {{k} : k \in Tokens},
             Revoke(t, own, extra)
      PROVE  Known(d)' /\ (Revoked(d) => Revoked(d)') /\ devices'[d].roleOk = devices[d].roleOk
  <2>1. set_status(own, "REVOKED") /\ "REVOKED" \in DeviceStatus
    BY <1>5 DEF Revoke, DeviceStatus
  <2> QED BY <1>1, <2>1, StatusChange DEF Revoked
<1>6. CASE CloseUpdate(t)
  <2>1. PICK own \in frame[t].todo : Register(own)
    BY <1>6 DEF CloseUpdate
  <2>2. own \in Dids /\ ~Revoked(own)
    BY <1>1, <1>6, <2>1 DEF CloseUpdate, At, AllInv, LedgerInv, BatchOK, SingleInv, WorkOK,
       WorkAt, TypeOK, Frame
  <2> QED BY <1>1, <2>1, <2>2, RegisterChange DEF Revoked
<1>7. CASE UNCHANGED devices
  BY <1>7 DEF Known, Revoked
<1> QED BY <1>2, <1>3, <1>4, <1>5, <1>6, <1>7
        DEF Step, Registering, Closing, Issuing, Request, RegistrationRequest, EpochRequest,
        TokenRequest, AutoClose, PubkeyKnown, PubkeyInUse, PubkeyWrite, PopUsed, PopVerify,
        PopFail, PopPass, MetaQueue, MetaAccept, MetaReply, RegisterStart, SessionGone,
        RegisterPubkey, RegisterPop, RegisterMetadata, notRegistration, CloseAcquire, CloseRevoked,
        CloseCollect, CloseAnchor, CloseFinish, ProofReply, EpochClose, GetProof, IssueKnown,
        IssueEligible, IssueRecord, RevokeList, RevokeTokens, RevokeToken, TokensIssue

\* Apart from a restart, what is not a step of a thread leaves the records alone.
LEMMA OtherSteps ==
  ASSUME [Next]_vars,
         ~ \E t \in Threads : Step(t) \/ Request(t) \/ AutoClose(t)
  PROVE  UNCHANGED <<devices, pending>> \/ Restart
BY DEF Next, Quiet, SessionExpires, notRegistration, epochVars, vars, fogVars

\* A revoked device stays revoked until a restart.
LEMMA RevokedKept ==
  ASSUME OneAtATime, AllInv, [Next]_vars, ~Restart, NEW d \in Dids, Revoked(d)
  PROVE  Revoked(d)'
<1>1. CASE \E t \in Threads : Step(t) \/ Request(t) \/ AutoClose(t)
  BY <1>1, StepChanges DEF Revoked
<1>2. CASE UNCHANGED devices
  BY <1>2 DEF Known, Revoked
<1> QED BY <1>1, <1>2, OtherSteps

\* A known device stays known until a restart, and keeps its role once it is
\* queued or committed.
LEMMA RecordKept ==
  ASSUME OneAtATime, AllInv, [Next]_vars, ~Restart, NEW d \in Dids, Known(d)
  PROVE  /\ Known(d)'
         /\ d \in pending \/ latest_package[d] # None
              => devices'[d].roleOk = devices[d].roleOk
<1>1. ASSUME NEW t \in Threads, Step(t) \/ Request(t) \/ AutoClose(t)
      PROVE  /\ Known(d)'
             /\ d \in pending \/ latest_package[d] # None
                  => devices'[d].roleOk = devices[d].roleOk
  <2>1. ASSUME MetaRecord(t), d = Sess(t).did
        PROVE  d \notin pending /\ latest_package[d] = None
    <3>1. pc[t] = "meta_record" /\ pc[t] \in SessionSteps
      BY <2>1 DEF MetaRecord, At, SessionSteps, KeySteps
    <3>2. /\ frame[t].sid \in Sids /\ Stored(frame[t].sid)
          /\ Sess(t).state = "POP_VERIFIED"
      BY <3>1 DEF AllInv, TypeInv, FrameOK, LocalsOK, SessionSteps, SingleInv, WorkOK,
         WorkAt, SessionInv, StatesOK, SessionAt, Proven, Sess
    <3>3. ~Accepting(frame[t].sid)
      BY <3>1 DEF OneAtATime, Accepting
    <3> QED BY <2>1, <3>2, <3>3 DEF AllInv, SingleInv, NotYetOK, Onboards, Sess
  <2> QED BY <1>1, <2>1, StepChanges
<1>2. CASE UNCHANGED devices
  BY <1>2 DEF Known
<1> QED BY <1>1, <1>2, OtherSteps

\* With one request at a time a revoked device stays revoked until a restart:
\* a token is given only to a device found not revoked, and finalize_epoch sets
\* REGISTERED only the devices it found not revoked.
THEOREM RevocationIsFinal == ASSUME OneAtATime PROVE Spec => RevokedStaysRevoked
<1>1. AllInv /\ [Next]_vars
        => \A d \in by_status("REVOKED") : crashes' = crashes => d \in by_status("REVOKED")'
  <2> SUFFICES ASSUME AllInv, [Next]_vars, NEW d \in Dids, Revoked(d), crashes' = crashes
               PROVE  Revoked(d)'
    BY DEF by_status, Revoked, Known
  <2>1. ~Restart
    BY DEF Restart, AllInv, TypeInv, TypeOK
  <2> QED BY <2>1, RevokedKept
<1>2. AllInv /\ [Next]_vars
        => [\A d \in by_status("REVOKED") :
              crashes' = crashes => d \in by_status("REVOKED")']_vars
  BY <1>1
<1> QED BY <1>2, SingleInvariant, PTL DEF Spec, RevokedStaysRevoked

\* With one request at a time the role of a queued or committed device never
\* changes: only a session in state POP_VERIFIED writes it, and the device such
\* a session onboards is neither.
THEOREM RolesAreKept == ASSUME OneAtATime PROVE Spec => RoleIsKept
<1>1. ASSUME AllInv, [Next]_vars, NEW d \in Dids, Known(d), Known(d)',
             d \in pending \/ latest_package[d] # None
      PROVE  devices'[d].roleOk = devices[d].roleOk
  <2>1. ~Restart
    BY <1>1 DEF Restart, NoRecords, Known
  <2> QED BY <1>1, <2>1, RecordKept
<1>2. AllInv /\ [Next]_vars
        => [\A d \in Dids :
              Known(d) /\ Known(d)' /\ (d \in pending \/ latest_package[d] # None)
                => devices'[d].roleOk = devices[d].roleOk]_vars
  BY <1>1
<1> QED BY <1>2, SingleInvariant, PTL DEF Spec, RoleIsKept
-----------------------------------------------------------------------------
(***************************************************************************)
(* Without exclude_dids what has been accepted into a batch is still there *)
(* when a token is asked for, so a tokenized device is queued; and, with a *)
(* writable ledger file and no crash, the node implements DeviceLifecycle. *)
(***************************************************************************)
NoExclusions == Excludes \subseteq {{}}

\* A device in the batch, in a root, or out of every future one.
Placed(d) == Known(d) /\ (d \in pending \/ Registered(d) \/ Revoked(d))

AcceptedOK == \A s \in Sids :
  Stored(s) /\ sessions[s].state = "METADATA_ACCEPTED" => Placed(sessions[s].did)

\* The steps that wait for the batch, or decide what becomes of it.
BatchAt(t) ==
  /\ pc[t] \in IssueSteps => Placed(frame[t].did)
  /\ pc[t] = "meta_accept" => Sess(t).did \in pending
  /\ pc[t] \in {"close_acquire", "close_revoked"} => frame[t].dids = {}
  /\ pc[t] = "close_collect" => frame[t].dids = by_status("REVOKED")
  /\ pc[t] = "close_anchor" =>
       frame[t].dids = (Carried \cup pending) \ by_status("REVOKED")
  /\ pc[t] = "close_update" =>
       /\ pending \subseteq frame[t].dids \cup by_status("REVOKED")
       /\ \A d \in frame[t].dids \ frame[t].todo : Registered(d)

BatchSteps == \A t \in Threads : BatchAt(t)

QueueInv == AcceptedOK /\ BatchSteps /\ TokenizedIsQueued

-----------------------------------------------------------------------------
(* What preserves the invariant.                                           *)

\* Steps that neither wait for the batch nor decide about it.
BesideSteps == Steps \ (IssueSteps \cup {"meta_accept", "close_acquire", "close_revoked",
                          "close_collect", "close_anchor", "close_update"})

\* A thread at such a step has nothing to show.
LEMMA BesideBatch ==
  ASSUME \A u \in Threads : pc'[u] \in BesideSteps
  PROVE  BatchSteps'
BY DEF BatchSteps, BatchAt, BesideSteps

\* No session has its metadata accepted by the step.
NoneAccepted == \A s \in Sids : (Stored(s) /\ sessions[s].state = "METADATA_ACCEPTED")' =>
  /\ Stored(s) /\ sessions[s].state = "METADATA_ACCEPTED"
  /\ sessions'[s].did = sessions[s].did

\* A step that accepts nobody and leaves every device where it is.
LEMMA StayPlaced ==
  ASSUME AllInv, QueueInv, NoneAccepted, BatchSteps', TokenizedIsQueued',
         \A d \in Dids : Placed(d) => Placed(d)'
  PROVE  QueueInv'
<1>1. AcceptedOK'
  BY DEF QueueInv, AcceptedOK, NoneAccepted, AllInv, TypeInv, SessionDid
<1> QED BY <1>1 DEF QueueInv

\* Devices stay where they are if neither records nor batch change.
LEMMA SamePlaces ==
  ASSUME QueueInv, UNCHANGED <<devices, pending>>
  PROVE  TokenizedIsQueued' /\ \A d \in Dids : Placed(d) => Placed(d)'
BY DEF QueueInv, TokenizedIsQueued, by_status, Placed, Known, Registered, Revoked

\* Sessions that nobody touches are not accepted.
LEMMA SameAccepted ==
  ASSUME UNCHANGED sessions PROVE NoneAccepted
BY DEF NoneAccepted, Stored

\* A session of the request that does not get METADATA_ACCEPTED.
LEMMA OtherState ==
  ASSUME AllInv, NEW t \in Threads, pc[t] \in SessionSteps, NEW new, SetSession(t, new),
         new.state # "METADATA_ACCEPTED"
  PROVE  NoneAccepted
<1>1. PICK own \in Sids : own = frame[t].sid /\ sessions'[own] = new
  BY OwnSessionOnly
<1>2. \A s \in Sids \ {own} : sessions'[s] = sessions[s]
  BY <1>1, OwnSessionOnly
<1> QED BY <1>1, <1>2 DEF NoneAccepted, Stored

-----------------------------------------------------------------------------
(* Onboarding.                                                             *)

\* The key and its proof of possession: nobody is queued, nobody accepted.
LEMMA KeyQueue ==
  ASSUME OneAtATime, AllInv, QueueInv, NEW t \in Threads,
         \/ PubkeyKnown(t) \/ PubkeyInUse(t) \/ PubkeyWrite(t) \/ PopUsed(t) \/ PopVerify(t)
         \/ PopFail(t) \/ PopPass(t)
  PROVE  QueueInv'
<1>1. /\ TypeOK /\ pc[t] \in SessionSteps /\ UNCHANGED <<devices, pending>>
      /\ frame[t].sid \in Sids /\ Sess(t) \in Session
  BY SessType DEF AllInv, TypeInv, FrameOK, LocalsOK, PubkeyKnown, PubkeyInUse, PubkeyWrite,
     PopUsed, PopVerify, PopFail, PopPass, At, notRegistration, epochVars, SessionSteps,
     PubkeySteps, KeySteps
<1>2. NoneAccepted
  <2>1. CASE PubkeyKnown(t) \/ PubkeyInUse(t) \/ PopUsed(t)
    BY <2>1, SameAccepted DEF PubkeyKnown, PubkeyInUse, PopUsed
  <2>2. CASE PubkeyWrite(t)
    <3> DEFINE new == [issue_challenge(Sess(t)) EXCEPT
                         !.did = frame[t].did, !.state = "KEY_SUBMITTED"]
    <3>1. SetSession(t, new) /\ new.state = "KEY_SUBMITTED"
      BY <1>1, <2>2 DEF PubkeyWrite, issue_challenge, Session
    <3> HIDE DEF new
    <3> QED BY <1>1, <3>1, OtherState
  <2>3. CASE PopVerify(t)
    <3> DEFINE new == [Sess(t) EXCEPT !.used = TRUE]
    <3>1. Sess(t).state = "KEY_SUBMITTED"
      BY <2>3 DEF PopVerify, At, AllInv, SessionInv, StatesOK, SessionAt, Proving, Sess
    <3>2. SetSession(t, new) /\ new.state = "KEY_SUBMITTED"
      BY <1>1, <2>3, <3>1 DEF PopVerify, Session
    <3> HIDE DEF new
    <3> QED BY <1>1, <3>2, OtherState
  <2>4. CASE PopFail(t)
    <3> DEFINE new == [Sess(t) EXCEPT !.state = "AUTHENTICATED"]
    <3>1. SetSession(t, new) /\ new.state = "AUTHENTICATED"
      BY <1>1, <2>4 DEF PopFail, Session
    <3> HIDE DEF new
    <3> QED BY <1>1, <3>1, OtherState
  <2>5. CASE PopPass(t)
    <3> DEFINE new == [Sess(t) EXCEPT !.state = "POP_VERIFIED"]
    <3>1. SetSession(t, new) /\ new.state = "POP_VERIFIED"
      BY <1>1, <2>5 DEF PopPass, Session
    <3> HIDE DEF new
    <3> QED BY <1>1, <3>1, OtherState
  <2> QED BY <2>1, <2>2, <2>3, <2>4, <2>5
<1>3. BatchSteps'
  <2>1. PICK step, f : step \in BesideSteps /\ Call(t, step, f)
    BY <1>1, GotoCall DEF PubkeyKnown, PubkeyInUse, PubkeyWrite, PopUsed, PopVerify, PopFail,
       PopPass, Reply, BesideSteps, Steps, IssueSteps
  <2> QED BY <1>1, <2>1, OnlyThread, BesideBatch
<1> QED BY <1>1, <1>2, <1>3, SamePlaces, StayPlaced

\* A new record is PENDING; the role changes nobody's place.
LEMMA RecordQueue ==
  ASSUME OneAtATime, AllInv, QueueInv, NEW t \in Threads, PopUpsert(t) \/ MetaRecord(t)
  PROVE  QueueInv'
<1>1. TypeInv /\ TypeOK /\ UNCHANGED <<sessions, pending>>
  BY DEF AllInv, TypeInv, PopUpsert, MetaRecord, notRegistration, epochVars
<1>2. BatchSteps'
  <2>1. PICK step, f : step \in BesideSteps /\ Call(t, step, f)
    BY <1>1, GotoCall DEF PopUpsert, MetaRecord, Reply, BesideSteps, Steps, IssueSteps
  <2> QED BY <1>1, <2>1, OnlyThread, BesideBatch
<1>3. \A d \in Dids : /\ Placed(d) => Placed(d)'
                      /\ d \in by_status("TOKENIZED")' => d \in by_status("TOKENIZED")
  <2>1. CASE PopUpsert(t)
    <3>1. pc[t] = "pop_upsert" /\ Sess(t).did \in Dids /\ ~Known(Sess(t).did)
      BY <1>1, <2>1, KeyLocals DEF PopUpsert, At, KeySteps, AllInv, SingleInv, WorkOK, WorkAt
    <3>2. PICK own \in Dids : own = Sess(t).did
      BY <3>1
    <3>3. devices' = [devices EXCEPT ![own] = NewRecord] /\ NewRecord.status = "PENDING"
      BY <2>1, <3>2 DEF PopUpsert, NewRecord
    <3> QED BY <1>1, <3>1, <3>2, <3>3 DEF Placed, Known, Registered, Revoked, by_status, TypeOK
  <2>2. CASE MetaRecord(t)
    BY <1>1, <2>2, RoleChange DEF Placed, by_status
  <2> QED BY <2>1, <2>2
<1>4. TokenizedIsQueued'
  BY <1>1, <1>3 DEF QueueInv, TokenizedIsQueued, by_status
<1> QED BY <1>1, <1>2, <1>3, <1>4, SameAccepted, StayPlaced

\* The leaf is queued before the metadata is accepted.
LEMMA AcceptQueue ==
  ASSUME OneAtATime, AllInv, QueueInv, NEW t \in Threads, MetaQueue(t) \/ MetaAccept(t)
  PROVE  QueueInv'
<1>1. /\ TypeOK /\ pc[t] \in {"meta_queue", "meta_accept"} /\ pc[t] \in SessionSteps
      /\ UNCHANGED devices
  BY DEF AllInv, TypeInv, MetaQueue, MetaAccept, At, SessionSteps, KeySteps
<1>2. PICK own \in Sids : own = frame[t].sid
  BY <1>1, OwnSessionOnly DEF AllInv, TypeInv, FrameOK, LocalsOK, SessionSteps
<1>3. CASE MetaQueue(t)
  <2>1. PICK step \in {"meta_accept", "idle"} :
          \/ step = "idle" /\ Call(t, step, NoFrame) /\ pending' = pending
          \/ step = "meta_accept" /\ Call(t, step, frame[t])
             /\ pending' = pending \cup {sessions[own].did}
    BY <1>1, <1>2, <1>3, GotoCall DEF MetaQueue, Reply, Sess
  <2>2. UNCHANGED sessions
    BY <1>3 DEF MetaQueue
  <2>3. TokenizedIsQueued' /\ \A d \in Dids : Placed(d) => Placed(d)'
    BY <1>1, <2>1 DEF QueueInv, TokenizedIsQueued, by_status, Placed, Known, Registered, Revoked
  <2>4. BatchSteps'
    BY <1>1, <1>2, <2>1, <2>2, OnlyThread DEF BatchSteps, BatchAt, IssueSteps, Sess
  <2> QED BY <2>2, <2>3, <2>4, SameAccepted, StayPlaced
<1>4. CASE MetaAccept(t)
  <2> DEFINE new == [Sess(t) EXCEPT !.state = "METADATA_ACCEPTED"]
  <2>1. /\ SetSession(t, new) /\ Call(t, "meta_reply", frame[t]) /\ UNCHANGED pending
        /\ pc[t] = "meta_accept"
    BY <1>1, <1>4, GotoCall DEF MetaAccept, notRegistration, epochVars, At
  <2>2. Sess(t) \in Session
    BY <1>1, <2>1, OwnSessionOnly
  <2>3. new.did = sessions[own].did
    BY <1>2, <2>2 DEF Session, Sess
  <2> HIDE DEF new
  <2>4. sessions'[own] = new /\ \A s \in Sids \ {own} : sessions'[s] = sessions[s]
    BY <1>1, <1>2, <2>1, OwnSessionOnly
  <2>5. Placed(sessions[own].did)
    BY <1>2, <2>1 DEF QueueInv, BatchSteps, BatchAt, AllInv, SingleInv, WorkOK, WorkAt, Placed,
       Sess
  <2>6. AcceptedOK'
    BY <1>1, <2>1, <2>3, <2>4, <2>5
       DEF QueueInv, AcceptedOK, Placed, Known, Registered, Revoked, Stored
  <2>7. BatchSteps'
    BY <1>1, <2>1, OnlyThread, BesideBatch DEF BesideSteps, Steps, IssueSteps
  <2> QED BY <1>1, <2>1, <2>6, <2>7, SamePlaces DEF QueueInv
<1> QED BY <1>3, <1>4

-----------------------------------------------------------------------------
(* Tokens and revocation.                                                  *)

\* A token is given to a device that is queued.
LEMMA IssueQueue ==
  ASSUME OneAtATime, AllInv, QueueInv, NEW t \in Threads,
         IssueKnown(t) \/ IssueEligible(t) \/ IssueRecord(t) \/ IssueStatus(t)
  PROVE  QueueInv'
<1>1. /\ TypeInv /\ TypeOK /\ pc[t] \in IssueSteps /\ UNCHANGED <<sessions, pending>>
      /\ frame[t].did \in Dids
  BY DEF AllInv, TypeInv, FrameOK, LocalsOK, IssueKnown, IssueEligible, IssueRecord, IssueStatus,
     At, notToken, epochVars, IssueSteps
<1>2. PICK own \in Dids : own = frame[t].did
  BY <1>1
<1>3. CASE IssueKnown(t) \/ IssueEligible(t) \/ IssueRecord(t)
  <2>1. PICK step \in IssueSteps \cup {"idle"} :
          \/ step = "idle" /\ Call(t, step, NoFrame)
          \/ step \in IssueSteps /\ Call(t, step, frame[t])
    BY <1>1, <1>3, GotoCall DEF IssueKnown, IssueEligible, IssueRecord, Reply, IssueSteps
  <2>2. UNCHANGED devices /\ Placed(frame[t].did)
    BY <1>1, <1>3 DEF IssueKnown, IssueEligible, IssueRecord, QueueInv, BatchSteps, BatchAt
  <2>3. BatchSteps'
    BY <1>1, <2>1, <2>2, OnlyThread
       DEF BatchSteps, BatchAt, IssueSteps, Placed, Known, Registered, Revoked
  <2> QED BY <1>1, <2>2, <2>3, SamePlaces, SameAccepted, StayPlaced
<1>4. CASE IssueStatus(t)
  <2>1. own \in pending /\ Known(own)
    BY <1>1, <1>2, <1>4 DEF IssueStatus, At, QueueInv, BatchSteps, BatchAt, Placed, AllInv,
       SingleInv, WorkOK, WorkAt
  <2>2. set_status(own, "TOKENIZED") /\ "TOKENIZED" \in DeviceStatus /\ Call(t, "idle", NoFrame)
    BY <1>2, <1>4 DEF IssueStatus, DeviceStatus, Reply
  <2>3. \A d \in Dids : Placed(d) => Placed(d)'
    BY <1>1, <2>1, <2>2, StatusChange DEF Placed, Known, Registered, Revoked
  <2>4. TokenizedIsQueued'
    BY <1>1, <2>1, <2>2, StatusChange DEF QueueInv, TokenizedIsQueued, by_status
  <2>5. BatchSteps'
    BY <1>1, <2>2, OnlyThread, BesideBatch DEF BesideSteps, Steps, IssueSteps
  <2> QED BY <1>1, <2>3, <2>4, <2>5, SameAccepted, StayPlaced
<1> QED BY <1>3, <1>4

\* Revoking a device takes it out of what is tokenized.
LEMMA RevokeQueue ==
  ASSUME OneAtATime, AllInv, QueueInv, NEW t \in Threads, NEW own \in Dids,
         NEW extra \in {{}} \cup {{k} : k \in Tokens}, Revoke(t, own, extra)
  PROVE  QueueInv'
<1>1. TypeInv /\ TypeOK /\ UNCHANGED <<sessions, pending>>
  BY DEF AllInv, TypeInv, Revoke, notToken, epochVars
<1>2. set_status(own, "REVOKED") /\ "REVOKED" \in DeviceStatus
  BY DEF Revoke, DeviceStatus
<1>3. \A d \in Dids : Placed(d) => Placed(d)'
  BY <1>1, <1>2, StatusChange DEF Placed, Known, Registered, Revoked
<1>4. TokenizedIsQueued'
  BY <1>1, <1>2, StatusChange DEF QueueInv, TokenizedIsQueued, by_status
<1>5. BatchSteps'
  <2>1. PICK f : Call(t, "revoke_list", f)
    BY DEF Revoke
  <2> QED BY <1>1, <2>1, OnlyThread, BesideBatch DEF BesideSteps, Steps, IssueSteps
<1> QED BY <1>1, <1>3, <1>4, <1>5, SameAccepted, StayPlaced

\* Blacklisting tokens, fetching a proof, and the reply to metadata touch nothing
\* of this.
LEMMA BlacklistQueue ==
  ASSUME OneAtATime, AllInv, QueueInv, NEW t \in Threads,
         RevokeList(t) \/ RevokeTokens(t) \/ ProofReply(t) \/ MetaReply(t)
  PROVE  QueueInv'
<1>1. TypeInv /\ TypeOK /\ UNCHANGED <<sessions, devices, pending>>
  BY DEF AllInv, TypeInv, RevokeList, RevokeTokens, ProofReply, MetaReply, notToken, notEpoch,
     notRegistration, epochVars
<1>2. pc'[t] \in BesideSteps
  BY <1>1 DEF RevokeList, RevokeTokens, ProofReply, MetaReply, Reply, Call, Goto, At, TypeOK,
     BesideSteps, Steps, IssueSteps
<1>3. BatchSteps'
  BY <1>2, BesideBatch DEF OneAtATime
<1> QED BY <1>1, <1>3, SamePlaces, SameAccepted, StayPlaced

-----------------------------------------------------------------------------
(* Closing an epoch.                                                       *)

\* Until the records are updated the frame holds the batch and its revoked.
LEMMA CollectQueue ==
  ASSUME OneAtATime, AllInv, QueueInv, NEW t \in Threads,
         CloseAcquire(t) \/ CloseRevoked(t) \/ CloseCollect(t) \/ CloseAnchor(t)
  PROVE  QueueInv'
<1>1. /\ TypeInv /\ TypeOK /\ frame[t] \in Frame /\ \A u \in Threads : u = t
      /\ UNCHANGED <<sessions, devices, pending>>
  BY DEF AllInv, TypeInv, TypeOK, CloseAcquire, CloseRevoked, CloseCollect, CloseAnchor, notEpoch,
     epochVars, OneAtATime
<1>2. UNCHANGED <<by_status("REVOKED"), Carried, pending>>
  BY <1>1 DEF by_status, Known, Carried
<1>3. BatchAt(t)
  BY DEF QueueInv, BatchSteps
<1>4. \/ pc'[t] \in BesideSteps
      \/ pc'[t] = "close_revoked" /\ frame'[t].dids = {}
      \/ pc'[t] = "close_collect" /\ frame'[t].dids = by_status("REVOKED")
      \/ /\ pc'[t] = "close_anchor"
         /\ frame'[t].dids = (Carried \cup pending) \ by_status("REVOKED")
      \/ /\ pc'[t] = "close_update" /\ frame'[t].todo = frame'[t].dids
         /\ frame'[t].dids = (Carried \cup pending) \ by_status("REVOKED")
  <2>1. CASE CloseAcquire(t)
    BY <1>1, <1>3, <2>1 DEF CloseAcquire, BatchAt, At, Goto, TypeOK
  <2>2. CASE CloseRevoked(t)
    BY <1>1, <1>3, <2>2 DEF CloseRevoked, blocked, BatchAt, At, Goto, TypeOK, Frame
  <2>3. CASE CloseCollect(t)
    BY <1>1, <1>3, <2>3 DEF CloseCollect, Members, Release, Call, BatchAt, At, Goto, TypeOK, Frame,
       BesideSteps, Steps, IssueSteps
  <2>4. CASE CloseAnchor(t)
    BY <1>1, <1>3, <2>4 DEF CloseAnchor, Saved, NotSaved, Raise, Release, Call, BatchAt, At, Goto,
       TypeOK, Frame, BesideSteps, Steps, IssueSteps
  <2> QED BY <2>1, <2>2, <2>3, <2>4
<1>5. BatchAt(t)'
  <2>1. CASE pc'[t] \in BesideSteps
    BY <2>1 DEF BatchAt, BesideSteps
  <2>2. CASE pc'[t] # "close_update" /\ pc'[t] \notin BesideSteps
    BY <1>2, <1>4, <2>2 DEF BatchAt, IssueSteps
  <2>3. CASE pc'[t] = "close_update"
    BY <1>2, <1>4, <2>3 DEF BatchAt, IssueSteps, BesideSteps
  <2> QED BY <2>1, <2>2, <2>3
<1>6. BatchSteps'
  BY <1>1, <1>5 DEF BatchSteps
<1> QED BY <1>1, <1>6, SamePlaces, SameAccepted, StayPlaced

\* Updating one device of the batch, which is REGISTERED from then on.
LEMMA UpdateQueue ==
  ASSUME OneAtATime, AllInv, QueueInv, NEW t \in Threads, CloseUpdate(t)
  PROVE  QueueInv'
<1>1. PICK own \in frame[t].todo :
        Register(own) /\ frame' = [frame EXCEPT ![t].todo = @ \ {own}]
  BY DEF CloseUpdate
<1>2. /\ TypeInv /\ TypeOK /\ pc[t] = "close_update" /\ frame[t] \in Frame
      /\ UNCHANGED <<sessions, pending, pc>> /\ \A u \in Threads : u = t
  BY DEF AllInv, TypeInv, TypeOK, CloseUpdate, At, notEpoch, OneAtATime
<1>3. own \in Dids /\ own \in frame[t].dids /\ frame[t].dids \subseteq Dids
  BY <1>1, <1>2 DEF AllInv, LedgerInv, BatchOK, Frame
<1>4. ~Revoked(own) /\ Known(own)
  BY <1>2, <1>3 DEF AllInv, SingleInv, WorkOK, WorkAt, KnownOK, Registered
<1>5. \A d \in Dids : /\ Known(d)' <=> Known(d)
                      /\ Revoked(d)' <=> Revoked(d)
                      /\ Registered(d)' <=> Registered(d) \/ d = own
                      /\ d \in by_status("TOKENIZED")' => d \in by_status("TOKENIZED")
  BY <1>1, <1>2, <1>3, <1>4, RegisterChange DEF Revoked, Registered, by_status, Known
<1>6. /\ TokenizedIsQueued'
      /\ \A d \in Dids : Placed(d) => Placed(d)'
  BY <1>2, <1>5 DEF QueueInv, TokenizedIsQueued, by_status, Placed
<1>7. frame'[t].dids = frame[t].dids /\ frame'[t].todo = frame[t].todo \ {own}
  BY <1>1, <1>2 DEF TypeOK, Frame
<1>8. BatchAt(t)'
  <2>1. /\ pending \subseteq frame[t].dids \cup by_status("REVOKED")
        /\ \A d \in frame[t].dids \ frame[t].todo : Registered(d)
    BY <1>2 DEF QueueInv, BatchSteps, BatchAt
  <2>2. UNCHANGED by_status("REVOKED")
    BY <1>5 DEF by_status, Revoked, Known
  <2>3. \A d \in frame'[t].dids \ frame'[t].todo : Registered(d)'
    BY <1>3, <1>5, <1>7, <2>1
  <2> QED BY <1>2, <1>7, <2>1, <2>2, <2>3 DEF BatchAt, IssueSteps
<1>9. BatchSteps'
  BY <1>2, <1>8 DEF BatchSteps
<1> QED BY <1>2, <1>6, <1>9, SameAccepted, StayPlaced

\* Emptying the batch: everybody in it is REGISTERED or revoked by then.
LEMMA FinishQueue ==
  ASSUME OneAtATime, AllInv, QueueInv, NEW t \in Threads, CloseFinish(t)
  PROVE  QueueInv'
<1>1. /\ TypeOK /\ pc[t] = "close_update" /\ frame[t].todo = {}
      /\ UNCHANGED <<sessions, devices>> /\ pending' = {} /\ Call(t, "idle", NoFrame)
  BY DEF AllInv, TypeInv, CloseFinish, Release, At, notEpoch
<1>2. \A d \in pending : d \in Dids /\ (Registered(d) \/ Revoked(d))
  <2>1. /\ pending \subseteq frame[t].dids \cup by_status("REVOKED")
        /\ \A d \in frame[t].dids : Registered(d)
    BY <1>1 DEF QueueInv, BatchSteps, BatchAt
  <2> QED BY <1>1, <2>1 DEF by_status, Revoked, TypeOK
<1>3. \A d \in Dids : Placed(d) => Placed(d)'
  BY <1>1, <1>2 DEF Placed, Known, Registered, Revoked
<1>4. TokenizedIsQueued'
  BY <1>1, <1>2 DEF QueueInv, TokenizedIsQueued, by_status, Known, Registered, Revoked
<1>5. BatchSteps'
  BY <1>1, OnlyThread, BesideBatch DEF BesideSteps, Steps, IssueSteps
<1> QED BY <1>1, <1>3, <1>4, <1>5, SameAccepted, StayPlaced

-----------------------------------------------------------------------------
(* Requests and the environment.                                           *)

\* A request that only sets a frame.
LEMMA FrameQueue ==
  ASSUME OneAtATime, AllInv, QueueInv, NEW t \in Threads, NEW step, NEW f, Call(t, step, f),
         UNCHANGED stores,
         \/ step \in BesideSteps
         \/ step = "issue_known" /\ Placed(f.did)
         \/ step = "close_acquire" /\ f.dids = {}
  PROVE  QueueInv'
<1>1. TypeOK /\ UNCHANGED <<sessions, devices, pending>>
  BY DEF AllInv, TypeInv, stores, epochVars
<1>2. \A u \in Threads : u = t /\ pc'[u] = step /\ frame'[u] = f
  BY <1>1, OnlyThread
<1>3. BatchSteps'
  <2>1. CASE step \in BesideSteps
    BY <1>2, <2>1, BesideBatch
  <2>2. CASE step = "issue_known" /\ Placed(f.did)
    BY <1>1, <1>2, <2>2 DEF BatchSteps, BatchAt, Placed, Known, Registered, Revoked
  <2>3. CASE step = "close_acquire" /\ f.dids = {}
    BY <1>2, <2>3 DEF BatchSteps, BatchAt, IssueSteps
  <2> QED BY <2>1, <2>2, <2>3
<1> QED BY <1>1, <1>3, SamePlaces, SameAccepted, StayPlaced

\* The arrival of any request but a revocation, and the timer's waking up.
LEMMA RequestQueue ==
  ASSUME OneAtATime, NoExclusions, AllInv, QueueInv, NEW t \in Threads,
         RegistrationRequest(t) \/ EpochRequest(t) \/ AutoClose(t)
           \/ \E s \in Sids : TokensIssue(t, s)
  PROVE  QueueInv'
<1>1. ASSUME NEW s \in Sids, RegisterStart(t, s) \/ SessionGone(t, s) PROVE QueueInv'
  <2>1. /\ TypeOK /\ pc[t] = "idle" /\ UNCHANGED <<devices, pending, pc>>
    BY <1>1 DEF AllInv, TypeInv, RegisterStart, SessionGone, Idle, notRegistration, epochVars
  <2>2. NewSession.state = "AUTHENTICATED"
    BY DEF NewSession
  <2>3. /\ \A z \in Sids \ {s} : sessions'[z] = sessions[z]
        /\ sessions'[s].state = "AUTHENTICATED" \/ sessions'[s].life = "gone"
    BY <1>1, <2>1, <2>2 DEF RegisterStart, SessionGone, TypeOK, Session
  <2>4. NoneAccepted
    BY <2>3 DEF NoneAccepted, Stored
  <2>5. BatchSteps'
    BY <2>1, BesideBatch DEF BesideSteps, Steps, IssueSteps, OneAtATime
  <2> QED BY <2>1, <2>4, <2>5, SamePlaces, StayPlaced
<1>2. ASSUME NEW s \in Sids,
             \/ \E d \in Dids : RegisterPubkey(t, s, d)
             \/ RegisterPop(t, s)
             \/ \E roleOk \in BOOLEAN : RegisterMetadata(t, s, roleOk)
      PROVE  QueueInv'
  <2>1. UNCHANGED stores
    BY <1>2 DEF RegisterPubkey, RegisterPop, RegisterMetadata, stores, notRegistration
  <2>2. ASSUME NEW step \in {"pubkey_known", "pop_used", "meta_record"}, NEW f, Call(t, step, f)
        PROVE  QueueInv'
    BY <2>1, <2>2, FrameQueue DEF BesideSteps, Steps, IssueSteps
  <2> QED BY <1>2, <2>2 DEF RegisterPubkey, RegisterPop, RegisterMetadata
<1>3. CASE EpochRequest(t) \/ AutoClose(t)
  <2>1. UNCHANGED stores
    BY <1>3 DEF EpochRequest, EpochClose, GetProof, AutoClose, stores, notEpoch
  <2>2. NoFrame.dids = {} /\ [NoFrame EXCEPT !.dids = {}].dids = {}
    BY DEF NoFrame
  <2>3. \/ \E f : Call(t, "proof_package", f)
        \/ Call(t, "close_acquire", NoFrame)
        \/ Call(t, "close_acquire", [NoFrame EXCEPT !.dids = {}])
    BY <1>3 DEF EpochRequest, EpochClose, GetProof, AutoClose, NoExclusions
  <2> QED BY <2>1, <2>2, <2>3, FrameQueue DEF BesideSteps, Steps, IssueSteps
<1>4. ASSUME NEW s \in Sids, TokensIssue(t, s) PROVE QueueInv'
  <2>1. UNCHANGED stores /\ Placed(sessions[s].did)
    BY <1>4 DEF TokensIssue, stores, notToken, Open, QueueInv, AcceptedOK, Stored
  <2>2. PICK k \in FreshTokens :
          Call(t, "issue_known", [NoFrame EXCEPT !.sid = s, !.tok = k, !.did = sessions[s].did])
    BY <1>4 DEF TokensIssue
  <2> DEFINE f == [NoFrame EXCEPT !.sid = s, !.tok = k, !.did = sessions[s].did]
  <2>3. f.did = sessions[s].did /\ Call(t, "issue_known", f)
    BY <2>2 DEF NoFrame
  <2> HIDE DEF f
  <2> QED BY <2>1, <2>3, FrameQueue
<1> QED BY <1>1, <1>2, <1>3, <1>4 DEF RegistrationRequest

\* A session that expires was accepted before, and is not forgotten.
LEMMA ExpiryQueue ==
  ASSUME AllInv, QueueInv, NEW s \in Sids, SessionExpires(s)
  PROVE  QueueInv'
<1>1. /\ TypeOK /\ UNCHANGED <<devices, pending, pc, frame>>
      /\ \A z \in Sids : /\ sessions'[z].state = sessions[z].state
                         /\ sessions'[z].did = sessions[z].did
                         /\ Stored(z)' <=> Stored(z)
  BY DEF AllInv, TypeInv, TypeOK, SessionExpires, Session, Stored, notRegistration, epochVars
<1>2. NoneAccepted
  BY <1>1 DEF NoneAccepted
<1>3. BatchSteps'
  <2> SUFFICES ASSUME NEW u \in Threads PROVE BatchAt(u)'
    BY DEF BatchSteps
  <2>1. pc[u] = "meta_accept" => frame[u].sid \in Sids
    BY DEF AllInv, TypeInv, FrameOK, LocalsOK, KeySteps
  <2>2. BatchAt(u)
    BY DEF QueueInv, BatchSteps
  <2> QED BY <1>1, <2>1, <2>2
          DEF BatchAt, Sess, Placed, Known, Registered, Revoked, by_status, Carried
<1> QED BY <1>1, <1>2, <1>3, SamePlaces, StayPlaced

\* After a restart nobody is accepted and nothing is under way.
LEMMA RestartQueue == AllInv /\ Restart => QueueInv'
<1> SUFFICES ASSUME AllInv, Restart PROVE QueueInv'
  OBVIOUS
<1> DEFINE gone == [NewSession EXCEPT !.life = "gone"]
<1>1. gone.life = "gone"
  BY DEF NewSession
<1>2. sessions' = [s \in Sids |-> IF sessions[s].life = "unused" THEN sessions[s] ELSE gone]
  BY DEF Restart
<1> HIDE DEF gone
<1>3. \A s \in Sids : ~Stored(s)'
  BY <1>1, <1>2 DEF Stored
<1>4. AcceptedOK' /\ TokenizedIsQueued'
  BY <1>3 DEF AcceptedOK, TokenizedIsQueued, by_status, Known, Restart, NoRecords
<1>5. BatchSteps'
  BY BesideBatch DEF Restart, AllIdle, BesideSteps, Steps, IssueSteps
<1> QED BY <1>4, <1>5 DEF QueueInv

\* Nor is there when the fog node starts for the first time.
LEMMA InitQueue == Init => QueueInv
<1> SUFFICES ASSUME Init PROVE QueueInv
  OBVIOUS
<1> DEFINE unused == [NewSession EXCEPT !.life = "unused"]
<1>1. unused.life = "unused"
  BY DEF NewSession
<1>2. sessions = [s \in Sids |-> unused]
  BY DEF Init
<1> HIDE DEF unused
<1>3. \A s \in Sids : ~Stored(s)
  BY <1>1, <1>2 DEF Stored
<1>4. AcceptedOK /\ TokenizedIsQueued
  BY <1>3 DEF AcceptedOK, TokenizedIsQueued, by_status, Known, Init, NoRecords
<1>5. BatchSteps
  BY DEF Init, AllIdle, BatchSteps, BatchAt, IssueSteps
<1> QED BY <1>4, <1>5 DEF QueueInv

\* Every step preserves the invariant.
LEMMA NextQueue ==
  ASSUME OneAtATime, NoExclusions
  PROVE  AllInv /\ QueueInv /\ [Next]_vars => QueueInv'
<1> SUFFICES ASSUME AllInv, QueueInv, [Next]_vars PROVE QueueInv'
  OBVIOUS
<1>1. ASSUME NEW t \in Threads, Step(t) PROVE QueueInv'
  BY <1>1, KeyQueue, RecordQueue, AcceptQueue, IssueQueue, BlacklistQueue, CollectQueue,
     UpdateQueue, FinishQueue DEF Step, Registering, Closing, Issuing
<1>2. ASSUME NEW t \in Threads, Request(t) \/ AutoClose(t) PROVE QueueInv'
  <2>1. CASE RegistrationRequest(t) \/ EpochRequest(t) \/ AutoClose(t)
               \/ \E s \in Sids : TokensIssue(t, s)
    BY <2>1, RequestQueue
  <2>2. ASSUME NEW own \in Dids, NEW extra \in {{}} \cup {{k} : k \in Tokens},
               Revoke(t, own, extra)
        PROVE  QueueInv'
    BY <2>2, RevokeQueue
  <2>3. ASSUME NEW d \in Dids, NEW k \in Tokens, RevokeToken(t, d, k) PROVE QueueInv'
    BY <2>3 DEF RevokeToken, notToken, epochVars, QueueInv, AcceptedOK, BatchSteps, BatchAt,
       TokenizedIsQueued, Placed, Stored, Known, Registered, Revoked, by_status, Carried, Sess
  <2> QED BY <1>2, <2>1, <2>2, <2>3 DEF Request, TokenRequest
<1>3. ASSUME NEW s \in Sids, SessionExpires(s) PROVE QueueInv'
  BY <1>3, ExpiryQueue
<1>4. ASSUME Restart PROVE QueueInv'
  BY <1>4, RestartQueue
<1>5. ASSUME UNCHANGED vars PROVE QueueInv'
  BY <1>5 DEF vars, fogVars, QueueInv, AcceptedOK, BatchSteps, BatchAt, TokenizedIsQueued,
     Placed, Stored, Known, Registered, Revoked, by_status, Carried, Sess
<1> QED BY <1>1, <1>2, <1>3, <1>4, <1>5 DEF Next, Quiet

\* The invariant holds always.
LEMMA QueueInvariant ==
  ASSUME OneAtATime, NoExclusions PROVE Spec => [](AllInv /\ QueueInv)
<1>1. Init => QueueInv
  BY InitQueue
<1> QED BY <1>1, NextQueue, SingleInvariant, PTL DEF Spec

\* With one request at a time and no exclude_dids a tokenized device is queued
\* for the next batch, as tokens_issue assumes: METADATA_ACCEPTED implies that
\* the leaf was queued, and a device that left the batch is REGISTERED or
\* revoked, so it gets no token.
THEOREM TokenizedDevicesAreQueued ==
  ASSUME OneAtATime, NoExclusions PROVE Spec => []TokenizedIsQueued
<1>1. QueueInv => TokenizedIsQueued
  BY DEF QueueInv
<1> QED BY <1>1, QueueInvariant, PTL

-----------------------------------------------------------------------------
(* The life cycle, as the mapping of FogProperties shows it.               *)

NoFaults == {"crash", "savefail"} \cap Requests = {}

AbsStatus == [d \in Dids |-> IF ~Known(d) THEN "UNKNOWN"
                             ELSE IF d \in Committing THEN "REGISTERED"
                             ELSE devices[d].status]
AbsQueue == IF Committing = {} THEN pending ELSE {}
AbsRoots == [i \in DOMAIN blocks |-> blocks[i].root]

\* With one thread, what is being committed is what that thread commits.
LEMMA CommittingIs ==
  ASSUME OneAtATime, NEW t \in Threads
  PROVE  /\ Committing = IF pc[t] = "close_update" THEN frame[t].dids ELSE {}
         /\ Committing' = IF pc'[t] = "close_update" THEN frame'[t].dids ELSE {}
<1>1. CASE pc[t] = "close_update"
  BY <1>1 DEF OneAtATime, Committing, At
<1>2. CASE pc[t] # "close_update"
  BY <1>2 DEF OneAtATime, Committing, At
<1>3. CASE pc'[t] = "close_update"
  BY <1>3 DEF OneAtATime, Committing, At
<1>4. CASE pc'[t] # "close_update"
  BY <1>4 DEF OneAtATime, Committing, At
<1> QED BY <1>1, <1>2, <1>3, <1>4

\* Between closings the life cycle shows the records and the batch.
LEMMA PlainView ==
  ASSUME OneAtATime, NEW t \in Threads, pc[t] # "close_update", pc'[t] # "close_update"
  PROVE  /\ AbsQueue = pending /\ AbsQueue' = pending'
         /\ \A d \in Dids :
              /\ AbsStatus[d] = IF Known(d) THEN devices[d].status ELSE "UNKNOWN"
              /\ AbsStatus'[d] = IF Known(d)' THEN devices'[d].status ELSE "UNKNOWN"
BY CommittingIs DEF AbsQueue, AbsStatus

\* The life cycle does not move when what it shows does not.
LEMMA StutterView ==
  ASSUME AbsStatus' = AbsStatus, AbsQueue' = AbsQueue, AbsRoots' = AbsRoots
  PROVE  UNCHANGED Lifecycle!vars
BY DEF Lifecycle!vars, AbsStatus, AbsQueue, AbsRoots

\* What the life cycle shows is unchanged if records keep their status.
LEMMA QuietView ==
  ASSUME OneAtATime, NEW t \in Threads, pc[t] # "close_update", pc'[t] # "close_update",
         \A d \in Dids : /\ Known(d)' <=> Known(d)
                         /\ Known(d) => devices'[d].status = devices[d].status,
         UNCHANGED <<pending, blocks>>
  PROVE  UNCHANGED Lifecycle!vars
<1>1. AbsQueue' = AbsQueue /\ \A d \in Dids : AbsStatus'[d] = AbsStatus[d]
  BY PlainView
<1>2. AbsStatus' = AbsStatus /\ AbsRoots' = AbsRoots
  BY <1>1 DEF AbsStatus, AbsRoots
<1> QED BY <1>1, <1>2, StutterView

\* One device gets a new status while the batch and the roots stay.
LEMMA StatusView ==
  ASSUME OneAtATime, NEW t \in Threads, pc[t] # "close_update", pc'[t] # "close_update",
         NEW own \in Dids, NEW status, Known(own)', devices'[own].status = status,
         \A d \in Dids \ {own} : devices'[d] = devices[d],
         UNCHANGED <<pending, blocks>>
  PROVE  /\ AbsStatus' = [AbsStatus EXCEPT ![own] = status]
         /\ UNCHANGED <<AbsQueue, AbsRoots>>
<1>1. /\ UNCHANGED <<AbsQueue, AbsRoots>>
      /\ \A d \in Dids : AbsStatus'[d] = IF d = own THEN status ELSE AbsStatus[d]
  BY PlainView DEF AbsRoots, Known
<1>2. DOMAIN AbsStatus = Dids /\ AbsStatus' = [d \in Dids |-> AbsStatus'[d]]
  BY DEF AbsStatus
<1> QED BY <1>1, <1>2 DEF AbsStatus

-----------------------------------------------------------------------------
(* Every step is a step of the life cycle, or a stutter.                   *)

\* Creating the record: key ownership is proven.
LEMMA OnboardStep ==
  ASSUME OneAtATime, AllInv, NEW t \in Threads, PopUpsert(t)
  PROVE  Lifecycle!Next
<1>1. /\ TypeOK /\ pc[t] = "pop_upsert" /\ pc'[t] = "idle" /\ Sess(t).did \in Dids
      /\ ~Known(Sess(t).did) /\ UNCHANGED <<pending, blocks>>
  BY KeyLocals DEF AllInv, TypeInv, TypeOK, PopUpsert, At, Reply, Call, Goto, KeySteps,
     notRegistration, epochVars, ledgerVars, SingleInv, WorkOK, WorkAt
<1>2. PICK own \in Dids : own = Sess(t).did
  BY <1>1
<1>3. NewRecord \in DeviceRecord /\ NewRecord.status = "PENDING"
  BY DEF NewRecord, DeviceRecord, DeviceStatus
<1>4. /\ Known(own)' /\ devices'[own].status = "PENDING"
      /\ \A d \in Dids \ {own} : devices'[d] = devices[d]
  BY <1>1, <1>2, <1>3, NoRecordAssumption DEF PopUpsert, TypeOK, Known
<1>5. AbsStatus[own] = "UNKNOWN"
  BY <1>1, <1>2, PlainView
<1>6. AbsStatus' = [AbsStatus EXCEPT ![own] = "PENDING"] /\ UNCHANGED <<AbsQueue, AbsRoots>>
  BY <1>1, <1>4, StatusView
<1>7. Lifecycle!Onboard(own)
  BY <1>5, <1>6 DEF Lifecycle!Onboard, AbsStatus, AbsQueue, AbsRoots
<1> QED BY <1>7 DEF Lifecycle!Next

\* Queueing the leaf: the device is PENDING, or was revoked meanwhile.
LEMMA EnqueueStep ==
  ASSUME OneAtATime, AllInv, QueueInv, NEW t \in Threads, MetaQueue(t)
  PROVE  Lifecycle!Next \/ UNCHANGED Lifecycle!vars
<1>1. /\ TypeOK /\ pc[t] = "meta_queue" /\ pc'[t] \in {"idle", "meta_accept"}
      /\ Sess(t).did \in Dids /\ Known(Sess(t).did) /\ UNCHANGED <<devices, blocks>>
  BY KeyLocals DEF AllInv, TypeInv, TypeOK, MetaQueue, At, Reply, Call, Goto, KeySteps,
     ledgerVars, SingleInv, WorkOK, WorkAt
<1>2. PICK own \in Dids : own = Sess(t).did
  BY <1>1
<1>3. CASE own \in pending
  BY <1>1, <1>2, <1>3, QuietView DEF MetaQueue, Known
<1>4. CASE own \notin pending
  <2>1. devices[own] \in DeviceRecord
    BY <1>1, <1>2 DEF TypeOK, Known
  <2>2. devices[own].status # "TOKENIZED"
    BY <1>1, <1>2, <1>4 DEF QueueInv, TokenizedIsQueued, by_status
  <2>3. latest_package[own] = None
    <3>1. frame[t].sid \in Sids /\ Stored(frame[t].sid) /\ Sess(t).state = "POP_VERIFIED"
      BY <1>1 DEF AllInv, TypeInv, FrameOK, LocalsOK, KeySteps, SessionSteps, SingleInv, WorkOK,
         WorkAt, SessionInv, StatesOK, SessionAt, Proven, Sess
    <3>2. ~Accepting(frame[t].sid)
      BY <1>1 DEF OneAtATime, Accepting
    <3> QED BY <1>2, <3>1, <3>2 DEF AllInv, SingleInv, NotYetOK, Onboards, Sess
  <2>4. devices[own].status # "REGISTERED"
    BY <1>1, <1>2, <2>3 DEF AllInv, LedgerInv, RecordsOK, Registered
  <2>5. AbsStatus[own] \in {"PENDING", "REVOKED"}
    BY <1>1, <1>2, <2>1, <2>2, <2>4, PlainView DEF DeviceRecord, DeviceStatus
  <2>6. /\ own \notin AbsQueue /\ AbsQueue' = AbsQueue \cup {own}
        /\ \A d \in Dids : AbsStatus'[d] = AbsStatus[d]
    BY <1>1, <1>2, <1>4, PlainView DEF MetaQueue, Known
  <2>7. AbsStatus' = AbsStatus /\ AbsRoots' = AbsRoots
    BY <1>1, <2>6 DEF AbsStatus, AbsRoots
  <2>8. Lifecycle!Enqueue(own)
    BY <2>5, <2>6, <2>7 DEF Lifecycle!Enqueue, AbsStatus, AbsQueue, AbsRoots
  <2> QED BY <2>8 DEF Lifecycle!Next
<1> QED BY <1>3, <1>4

\* A token, for a device that is queued and not yet committed.
LEMMA TokenizeStep ==
  ASSUME OneAtATime, AllInv, QueueInv, NEW t \in Threads, IssueStatus(t)
  PROVE  Lifecycle!Next
<1>1. /\ TypeInv /\ TypeOK /\ pc[t] = "issue_status" /\ pc'[t] = "idle" /\ frame[t].did \in Dids
      /\ UNCHANGED <<pending, blocks>>
  BY DEF AllInv, TypeInv, TypeOK, FrameOK, LocalsOK, IssueSteps, IssueStatus, At, Reply, Call,
     Goto, notToken, epochVars, ledgerVars
<1>2. PICK own \in Dids : own = frame[t].did
  BY <1>1
<1>3. Known(own) /\ ~Revoked(own) /\ ~Registered(own) /\ own \in pending
  BY <1>1, <1>2 DEF AllInv, SingleInv, WorkOK, WorkAt, QueueInv, BatchSteps, BatchAt, Placed,
     IssueSteps
<1>4. devices[own] \in DeviceRecord
  BY <1>1, <1>3 DEF TypeOK, Known
<1>5. AbsStatus[own] \in {"PENDING", "TOKENIZED"} /\ own \in AbsQueue
  BY <1>1, <1>3, <1>4, PlainView DEF DeviceRecord, DeviceStatus, Revoked, Registered
<1>6. /\ Known(own)' /\ devices'[own].status = "TOKENIZED"
      /\ \A d \in Dids \ {own} : devices'[d] = devices[d]
  BY <1>1, <1>2, <1>3, StatusChange DEF IssueStatus, DeviceStatus
<1>7. AbsStatus' = [AbsStatus EXCEPT ![own] = "TOKENIZED"] /\ UNCHANGED <<AbsQueue, AbsRoots>>
  BY <1>1, <1>6, StatusView
<1>8. Lifecycle!Tokenize(own)
  BY <1>5, <1>7 DEF Lifecycle!Tokenize, AbsStatus, AbsQueue, AbsRoots
<1> QED BY <1>8 DEF Lifecycle!Next

\* A revocation takes effect with the status.
LEMMA RevocationStep ==
  ASSUME OneAtATime, AllInv, NEW t \in Threads, NEW own \in Dids,
         NEW extra \in {{}} \cup {{k} : k \in Tokens}, Revoke(t, own, extra)
  PROVE  Lifecycle!Next
<1>1. /\ TypeInv /\ pc[t] = "idle" /\ pc'[t] = "revoke_list" /\ Known(own)
      /\ UNCHANGED <<pending, blocks>>
  BY DEF AllInv, TypeInv, TypeOK, Revoke, Idle, Call, Goto, notToken, epochVars, ledgerVars
<1>2. devices[own] \in DeviceRecord
  BY <1>1 DEF TypeInv, TypeOK, Known
<1>3. AbsStatus[own] # "UNKNOWN"
  BY <1>1, <1>2, PlainView DEF DeviceRecord, DeviceStatus
<1>4. /\ Known(own)' /\ devices'[own].status = "REVOKED"
      /\ \A d \in Dids \ {own} : devices'[d] = devices[d]
  BY <1>1, StatusChange DEF Revoke, DeviceStatus
<1>5. AbsStatus' = [AbsStatus EXCEPT ![own] = "REVOKED"] /\ UNCHANGED <<AbsQueue, AbsRoots>>
  BY <1>1, <1>4, StatusView
<1>6. Lifecycle!Revoke(own)
  BY <1>3, <1>5 DEF Lifecycle!Revoke, AbsStatus, AbsQueue, AbsRoots
<1> QED BY <1>6 DEF Lifecycle!Next

\* The roots of a chain that has grown by a block.
LEMMA RootsGrow ==
  ASSUME NEW chain \in Seq(Block), NEW block \in Block, NEW longer, longer = Append(chain, block)
  PROVE  [i \in DOMAIN longer |-> longer[i].root]
           = Append([i \in DOMAIN chain |-> chain[i].root], block.root)
<1> DEFINE old == [i \in DOMAIN chain |-> chain[i].root]
           new == [i \in DOMAIN longer |-> longer[i].root]
<1>1. /\ Len(chain) \in Nat /\ DOMAIN chain = 1 .. Len(chain)
      /\ longer \in Seq(Block) /\ DOMAIN longer = 1 .. Len(chain) + 1
      /\ longer[Len(chain) + 1] = block /\ \A i \in DOMAIN chain : longer[i] = chain[i]
  OBVIOUS
<1>2. old \in Seq(SUBSET Dids) /\ Len(old) = Len(chain)
  <2>1. \A i \in 1 .. Len(chain) : chain[i] \in Block
    BY <1>1
  <2>2. \A b \in Block : b.root \in SUBSET Dids
    BY DEF Block
  <2>3. old \in [1 .. Len(chain) -> SUBSET Dids]
    BY <1>1, <2>1, <2>2
  <2> QED BY <1>1, <2>3
<1>3. block.root \in SUBSET Dids
  BY DEF Block
<1>4. new = [i \in 1 .. Len(chain) + 1 |-> IF i = Len(chain) + 1 THEN block.root ELSE old[i]]
  BY <1>1
<1> HIDE DEF old, new
<1>5. new = Append(old, block.root)
  BY <1>1, <1>2, <1>3, <1>4
<1> QED BY <1>5 DEF old, new

\* Anchoring the root commits the whole batch.
LEMMA CloseStep ==
  ASSUME OneAtATime, NoFaults, AllInv, QueueInv, NEW t \in Threads, CloseAnchor(t)
  PROVE  Lifecycle!Next \/ UNCHANGED Lifecycle!vars
<1>1. /\ TypeOK /\ pc[t] = "close_anchor" /\ frame[t] \in Frame /\ UNCHANGED <<devices, pending>>
      /\ \A d \in Dids : Known(d)' <=> Known(d)
  BY DEF AllInv, TypeInv, TypeOK, CloseAnchor, At, epochVars, Known
<1>2. CASE Anchored(blocks, current_epoch_id)
  <2>1. pc'[t] # "close_update" /\ UNCHANGED blocks
    BY <1>1, <1>2 DEF CloseAnchor, Raise, Release, Call, Goto, ledgerVars, TypeOK
  <2> QED BY <1>1, <2>1, QuietView
<1>3. CASE ~Anchored(blocks, current_epoch_id)
  <2> DEFINE block == [epoch_id |-> current_epoch_id, root |-> frame[t].dids]
  <2>1. block \in Block /\ block.root = frame[t].dids
    BY <1>1 DEF Block, Frame, TypeOK
  <2>2. /\ blocks' = Append(blocks, block)
        /\ pc'[t] = "close_update" /\ frame'[t].dids = frame[t].dids
    BY <1>1, <1>3 DEF CloseAnchor, Saved, NotSaved, NoFaults, Goto, TypeOK, Frame
  <2> HIDE DEF block
  <2>3. Committing = {} /\ Committing' = frame[t].dids
    BY <1>1, <2>2, CommittingIs
  <2>4. /\ AbsQueue = pending
        /\ \A d \in Dids : AbsStatus[d] = IF Known(d) THEN devices[d].status ELSE "UNKNOWN"
    BY <2>3 DEF AbsQueue, AbsStatus
  <2>5. /\ frame[t].dids = (Carried \cup pending) \ by_status("REVOKED") /\ frame[t].dids # {}
        /\ frame[t].dids \subseteq Dids
    BY <1>1 DEF QueueInv, BatchSteps, BatchAt, AllInv, LedgerInv, LockOK, Frame
  <2>6. \A d \in frame[t].dids : Known(d)
    BY <1>1, <2>5 DEF AllInv, SingleInv, WorkOK, WorkAt, KnownOK, Registered
  <2> DEFINE shown(st) == {d \in Dids : AbsStatus[d] = st}
             batch == (AbsQueue \cup IF CarryForward THEN shown("REGISTERED") ELSE {})
                        \ shown("REVOKED")
  <2>7. batch = frame[t].dids
    <3>1. shown("REGISTERED") = by_status("REGISTERED") /\ shown("REVOKED") = by_status("REVOKED")
      BY <2>4 DEF by_status
    <3> HIDE DEF shown
    <3> QED BY <2>4, <2>5, <3>1 DEF Carried
  <2>8. AbsQueue' = {}
    BY <2>3, <2>5 DEF AbsQueue
  <2>9. AbsRoots' = Append(AbsRoots, batch)
    BY <1>1, <2>1, <2>2, <2>7, RootsGrow DEF AbsRoots, TypeOK
  <2>10. AbsStatus' = [d \in Dids |-> IF d \in batch THEN "REGISTERED" ELSE AbsStatus[d]]
    <3> HIDE DEF batch
    <3>1. \A d \in Dids : AbsStatus'[d] = IF d \in batch THEN "REGISTERED" ELSE AbsStatus[d]
      BY <1>1, <2>3, <2>4, <2>6, <2>7 DEF AbsStatus
    <3>2. AbsStatus' = [d \in Dids |-> AbsStatus'[d]]
      BY DEF AbsStatus
    <3> QED BY <3>1, <3>2
  <2>11. batch # {}
    BY <2>5, <2>7
  <2>12. Lifecycle!Close
    BY <2>8, <2>9, <2>10, <2>11
       DEF Lifecycle!Close, Lifecycle!Batch, Lifecycle!With, AbsStatus, AbsQueue, AbsRoots
  <2> QED BY <2>12 DEF Lifecycle!Next
<1> QED BY <1>2, <1>3

\* Updating the records, one by one, changes nothing that is not shown already.
LEMMA UpdateView ==
  ASSUME OneAtATime, AllInv, QueueInv, NEW t \in Threads, CloseUpdate(t)
  PROVE  UNCHANGED Lifecycle!vars
<1>1. PICK own \in frame[t].todo :
        Register(own) /\ frame' = [frame EXCEPT ![t].todo = @ \ {own}]
  BY DEF CloseUpdate
<1>2. /\ TypeInv /\ TypeOK /\ pc[t] = "close_update" /\ frame[t] \in Frame
      /\ UNCHANGED <<pending, pc, blocks>>
  BY DEF AllInv, TypeInv, TypeOK, CloseUpdate, At, ledgerVars
<1>3. own \in Dids /\ own \in frame[t].dids
  BY <1>1, <1>2 DEF AllInv, LedgerInv, BatchOK, Frame
<1>4. frame'[t].dids = frame[t].dids
  BY <1>1, <1>2 DEF TypeOK, Frame
<1>5. Committing = frame[t].dids /\ Committing' = frame[t].dids
  BY <1>2, <1>4, CommittingIs
<1>6. \A d \in Dids : AbsStatus'[d] = AbsStatus[d]
  BY <1>1, <1>2, <1>3, <1>5, RegisterChange DEF AbsStatus
<1>7. AbsStatus' = AbsStatus /\ AbsQueue' = AbsQueue /\ AbsRoots' = AbsRoots
  BY <1>2, <1>5, <1>6 DEF AbsStatus, AbsQueue, AbsRoots
<1> QED BY <1>7, StutterView

\* Nor does emptying the batch when every record has been updated.
LEMMA FinishView ==
  ASSUME OneAtATime, AllInv, QueueInv, NEW t \in Threads, CloseFinish(t)
  PROVE  UNCHANGED Lifecycle!vars
<1>1. /\ TypeOK /\ pc[t] = "close_update" /\ frame[t].todo = {} /\ pc'[t] = "idle"
      /\ UNCHANGED <<devices, blocks>> /\ pending' = {}
  BY DEF AllInv, TypeInv, TypeOK, CloseFinish, Release, Call, Goto, At, ledgerVars
<1>2. Committing = frame[t].dids /\ Committing' = {}
  BY <1>1, CommittingIs
<1>3. /\ \A d \in frame[t].dids : Registered(d)
      /\ frame[t].dids # {}
  <2>1. disk # <<>> /\ disk[Len(disk)].root = frame[t].dids
    BY <1>1 DEF AllInv, LedgerInv, BatchOK
  <2>2. Len(disk) \in DOMAIN disk
    BY <1>1, <2>1 DEF TypeOK
  <2>3. frame[t].dids # {}
    BY <2>1, <2>2 DEF AllInv, LedgerInv, DiskOK
  <2> QED BY <1>1, <2>3 DEF QueueInv, BatchSteps, BatchAt
<1>4. AbsQueue' = AbsQueue /\ AbsRoots' = AbsRoots
  BY <1>1, <1>2, <1>3 DEF AbsQueue, AbsRoots
<1>5. \A d \in Dids : AbsStatus'[d] = AbsStatus[d]
  BY <1>1, <1>2, <1>3 DEF AbsStatus, Registered, Known
<1>6. AbsStatus' = AbsStatus
  BY <1>5 DEF AbsStatus
<1> QED BY <1>4, <1>6, StutterView

\* Every other step of a thread leaves status, batch and roots alone.
LEMMA OtherView ==
  ASSUME OneAtATime, AllInv, NEW t \in Threads, Step(t) \/ Request(t) \/ AutoClose(t),
         ~PopUpsert(t), ~MetaQueue(t), ~IssueStatus(t), ~CloseAnchor(t), ~CloseUpdate(t),
         ~CloseFinish(t),
         ~ \E d \in Dids : \E extra \in {{}} \cup {{k} : k \in Tokens} : Revoke(t, d, extra)
  PROVE  UNCHANGED Lifecycle!vars
<1>1. /\ TypeInv /\ TypeOK
      /\ pc[t] # "close_update" /\ pc'[t] # "close_update" /\ UNCHANGED <<pending, blocks>>
  BY DEF AllInv, TypeInv, TypeOK, Step, Registering, Closing, Issuing, Request,
     RegistrationRequest, EpochRequest, TokenRequest, AutoClose, PubkeyKnown, PubkeyInUse,
     PubkeyWrite, PopUsed, PopVerify, PopFail, PopPass, MetaRecord, MetaAccept, MetaReply,
     RegisterStart, SessionGone, RegisterPubkey, RegisterPop, RegisterMetadata, notRegistration,
     CloseAcquire, CloseRevoked, CloseCollect, ProofReply, EpochClose, GetProof, IssueKnown,
     IssueEligible,
     IssueRecord, RevokeList, RevokeTokens, RevokeToken, TokensIssue, notToken, epochVars,
     ledgerVars, Reply, Release, Call, Goto, At, Idle
<1>2. CASE MetaRecord(t)
  BY <1>1, <1>2, RoleChange, QuietView
<1>3. CASE ~MetaRecord(t)
  <2>1. UNCHANGED devices
    BY <1>3 DEF Step, Registering, Closing, Issuing, Request, RegistrationRequest, EpochRequest,
       TokenRequest, AutoClose, PubkeyKnown, PubkeyInUse, PubkeyWrite, PopUsed, PopVerify,
       PopFail, PopPass, MetaAccept, MetaReply, RegisterStart, SessionGone, RegisterPubkey,
       RegisterPop, RegisterMetadata, CloseAcquire, CloseRevoked, CloseCollect, ProofReply,
       EpochClose,
       GetProof, IssueKnown, IssueEligible, IssueRecord, RevokeList, RevokeTokens, RevokeToken,
       TokensIssue
  <2> QED BY <1>1, <2>1, QuietView DEF Known
<1> QED BY <1>2, <1>3

\* So does whatever no thread does.
LEMMA NoThreadView ==
  ASSUME UNCHANGED <<devices, pending, blocks, pc, frame>>
  PROVE  UNCHANGED Lifecycle!vars
<1>1. Committing' = Committing
  BY DEF Committing, At
<1>2. AbsStatus' = AbsStatus /\ AbsQueue' = AbsQueue /\ AbsRoots' = AbsRoots
  BY <1>1 DEF AbsStatus, AbsQueue, AbsRoots, Known
<1> QED BY <1>2, StutterView

\* Every step of the fog node is a step of the life cycle, or a stutter.
LEMMA LifecycleStep ==
  ASSUME OneAtATime, NoFaults
  PROVE  AllInv /\ QueueInv /\ [Next]_vars => [Lifecycle!Next]_(Lifecycle!vars)
<1> SUFFICES ASSUME AllInv, QueueInv, [Next]_vars
             PROVE  Lifecycle!Next \/ UNCHANGED Lifecycle!vars
  OBVIOUS
<1>1. ASSUME NEW t \in Threads, Step(t) \/ Request(t) \/ AutoClose(t)
      PROVE  Lifecycle!Next \/ UNCHANGED Lifecycle!vars
  <2>1. CASE PopUpsert(t)
    BY <2>1, OnboardStep
  <2>2. CASE MetaQueue(t)
    BY <2>2, EnqueueStep
  <2>3. CASE IssueStatus(t)
    BY <2>3, TokenizeStep
  <2>4. CASE CloseAnchor(t)
    BY <2>4, CloseStep
  <2>5. CASE CloseUpdate(t)
    BY <2>5, UpdateView
  <2>6. CASE CloseFinish(t)
    BY <2>6, FinishView
  <2>7. ASSUME NEW d \in Dids, NEW extra \in {{}} \cup {{k} : k \in Tokens}, Revoke(t, d, extra)
        PROVE  Lifecycle!Next
    BY <2>7, RevocationStep
  <2> QED BY <1>1, <2>1, <2>2, <2>3, <2>4, <2>5, <2>6, <2>7, OtherView
<1>2. ASSUME NEW s \in Sids, SessionExpires(s) PROVE UNCHANGED Lifecycle!vars
  <2>1. UNCHANGED <<devices, pending, blocks, pc, frame>>
    BY <1>2 DEF SessionExpires, notRegistration, epochVars, ledgerVars
  <2> QED BY <2>1, NoThreadView
<1>3. ~Restart
  BY DEF Restart, NoFaults
<1>4. ASSUME UNCHANGED vars PROVE UNCHANGED Lifecycle!vars
  <2>1. UNCHANGED <<devices, pending, blocks, pc, frame>>
    BY <1>4 DEF vars, fogVars, ledgerVars
  <2> QED BY <2>1, NoThreadView
<1> QED BY <1>1, <1>2, <1>3, <1>4 DEF Next, Quiet

\* Nothing is onboarded, queued or anchored when the fog node starts.
LEMMA LifecycleInit == Init => Lifecycle!Init
<1> SUFFICES ASSUME Init PROVE Lifecycle!Init
  OBVIOUS
<1>1. Committing = {} /\ \A d \in Dids : ~Known(d)
  BY DEF Init, Committing, At, AllIdle, NoRecords, Known
<1>2. AbsStatus = [d \in Dids |-> "UNKNOWN"] /\ AbsQueue = {}
  BY <1>1 DEF AbsStatus, AbsQueue, Init
<1>3. AbsRoots = <<>>
  BY DEF AbsRoots, Init
<1> QED BY <1>2, <1>3 DEF Lifecycle!Init, AbsStatus, AbsQueue, AbsRoots

\* With one request at a time, no exclude_dids, no crash and a writable ledger
\* file, the fog node implements the life cycle of DeviceLifecycle: sessions,
\* the steps of the handlers and the one-by-one update of a committed batch are
\* invisible, and anchoring the root commits the whole batch.
THEOREM LifecycleImplemented ==
  ASSUME OneAtATime, NoExclusions, NoFaults PROVE Spec => ImplementsLifecycle
BY LifecycleInit, LifecycleStep, QueueInvariant, PTL DEF ImplementsLifecycle, Lifecycle!Spec, Spec
=============================================================================
