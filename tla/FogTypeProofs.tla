--------------------------- MODULE FogTypeProofs ----------------------------
(***************************************************************************)
(* Type correctness of the fog node, for any number of threads, sessions,  *)
(* devices and tokens.                                                     *)
(***************************************************************************)
EXTENDS FogProperties, TLAPS

PubkeySteps == {"pubkey_known", "pubkey_in_use", "pubkey_write"}

\* Steps that work for the device of a session after its key was submitted.
KeySteps == {"pop_used", "pop_verify", "pop_fail", "pop_pass", "pop_upsert",
             "meta_record", "meta_queue", "meta_accept", "meta_reply"}

IssueSteps == {"issue_known", "issue_eligible", "issue_record", "issue_status"}

DeviceSteps == {"revoke_list", "revoke_tokens", "proof_package"}

\* The locals f a thread relies on at a step have been set, and name what is
\* among the sessions ss.
LocalsOK(step, f, ss) ==
  /\ step \in PubkeySteps \cup KeySteps =>
       f.sid \in Sids /\ ss[f.sid].life # "unused"
  /\ step \in KeySteps => ss[f.sid].did \in Dids
  /\ step \in PubkeySteps \cup IssueSteps \cup DeviceSteps => f.did \in Dids
  /\ step \in IssueSteps => f.tok \in Tokens

FrameOK == \A t \in Threads : LocalsOK(pc[t], frame[t], sessions)

\* A session past its first state has a DID.
SessionDid ==
  \A s \in Sids : sessions[s].state # "AUTHENTICATED" => sessions[s].did \in Dids

TypeInv == TypeOK /\ FrameOK /\ SessionDid

\* What no step does to a session: forget that it was created, or its DID.
KeepsSessions ==
  \A s \in Sids : sessions[s].life # "unused" =>
    /\ sessions'[s].life # "unused"
    /\ sessions[s].did \in Dids => sessions'[s].did \in Dids

stores == <<sessions, devices, epochVars, lock, ledgerVars, tokenVars, proofs,
            crashes>>

-----------------------------------------------------------------------------
(* Values of the right type.                                               *)

\* The empty frame is a frame.
LEMMA NoFrameType == NoFrame \in Frame
BY DEF NoFrame, Frame

\* SessionStore.create makes a session.
LEMMA NewSessionType == NewSession \in Session
BY DEF NewSession, Session, SessionStates

\* Replacing one field of a session leaves its DID and life alone.
LEMMA SessionField ==
  ASSUME NEW s \in Session, NEW new,
         \/ new = [s EXCEPT !.used = TRUE]
         \/ \E state \in SessionStates : new = [s EXCEPT !.state = state]
  PROVE  new \in Session /\ new.did = s.did /\ new.life = s.life
BY DEF Session

\* A session after issue_challenge has the type of a session.
LEMMA ChallengeType ==
  ASSUME NEW s \in Session, NEW d \in Dids
  PROVE  [issue_challenge(s) EXCEPT !.did = d, !.state = "KEY_SUBMITTED"] \in Session
<1> DEFINE n == s.chal + 1
<1>1. n \in Nat
  BY DEF Session
<1> HIDE DEF n
<1>2. [s EXCEPT !.chal = n, !.used = FALSE] \in Session
  BY <1>1 DEF Session
<1>3. issue_challenge(s) \in Session
  BY <1>2 DEF issue_challenge, n
<1> QED BY <1>3 DEF Session, SessionStates

\* The session a thread works on is a session.
LEMMA SessType ==
  ASSUME TypeOK, NEW t \in Threads, frame[t].sid \in Sids
  PROVE  Sess(t) \in Session
BY DEF TypeOK, Sess

-----------------------------------------------------------------------------
(* How a step of a thread preserves the invariant.                         *)

\* Moving on without touching the locals is a Call with the same frame.
LEMMA GotoCall ==
  ASSUME TypeOK, NEW t \in Threads, NEW step, Goto(t, step), UNCHANGED frame
  PROVE  Call(t, step, frame[t])
BY DEF TypeOK, Call

\* A thread that changes its own step and frame, and what the stores may change
\* meanwhile, so that every thread still finds its locals set.
LEMMA CallKeeps ==
  ASSUME TypeInv, NEW t \in Threads, NEW step \in Steps, NEW f \in Frame,
         Call(t, step, f), LocalsOK(step, f, sessions'), KeepsSessions
  PROVE  /\ pc' \in [Threads -> Steps]
         /\ frame' \in [Threads -> Frame]
         /\ FrameOK'
<1>1. /\ pc' \in [Threads -> Steps] /\ frame' \in [Threads -> Frame]
      /\ pc'[t] = step /\ frame'[t] = f
      /\ \A u \in Threads \ {t} : pc'[u] = pc[u] /\ frame'[u] = frame[u]
  BY DEF TypeInv, TypeOK, Call, Goto
<1>2. FrameOK'
  <2> SUFFICES ASSUME NEW u \in Threads PROVE LocalsOK(pc'[u], frame'[u], sessions')
    BY DEF FrameOK
  <2>1. CASE u = t
    BY <1>1, <2>1 DEF LocalsOK
  <2>2. CASE u # t
    <3>1. LocalsOK(pc[u], frame[u], sessions)
      BY DEF TypeInv, FrameOK
    <3> QED BY <1>1, <2>2, <3>1 DEF LocalsOK, KeepsSessions
  <2> QED BY <2>1, <2>2
<1> QED BY <1>1, <1>2

\* A thread that changes nothing but its own step and frame.
LEMMA LocalStep ==
  ASSUME TypeInv, NEW t \in Threads, NEW step \in Steps, NEW f \in Frame,
         Call(t, step, f), LocalsOK(step, f, sessions), UNCHANGED stores
  PROVE  TypeInv'
<1>1. KeepsSessions /\ SessionDid' /\ LocalsOK(step, f, sessions')
  BY DEF TypeInv, KeepsSessions, SessionDid, LocalsOK, stores
<1>2. /\ pc' \in [Threads -> Steps] /\ frame' \in [Threads -> Frame]
      /\ FrameOK'
  BY <1>1, CallKeeps
<1> QED BY <1>1, <1>2 DEF TypeInv, TypeOK, stores, epochVars, ledgerVars, tokenVars

\* Every step at which a frame without locals is enough.
FreeSteps == {"idle", "dead", "close_acquire", "close_revoked", "close_collect",
              "close_anchor", "close_update"}

\* Such a step relies on no local.
LEMMA FreeLocals ==
  ASSUME NEW step \in FreeSteps, NEW f, NEW ss PROVE LocalsOK(step, f, ss) /\ step \in Steps
BY DEF FreeSteps, LocalsOK, PubkeySteps, KeySteps, IssueSteps, DeviceSteps, Steps

-----------------------------------------------------------------------------
(* Onboarding.                                                             *)

\* /register/pubkey preserves the invariant.
LEMMA PubkeyTypes ==
  ASSUME TypeInv, NEW t \in Threads,
         PubkeyKnown(t) \/ PubkeyInUse(t) \/ PubkeyWrite(t)
  PROVE  TypeInv'
<1> USE NoFrameType DEF Steps, At
<1>1. /\ frame[t] \in Frame /\ frame[t].sid \in Sids /\ frame[t].did \in Dids
      /\ sessions[frame[t].sid].life # "unused"
      /\ \A step \in PubkeySteps : LocalsOK(step, frame[t], sessions)
  BY DEF TypeInv, TypeOK, FrameOK, LocalsOK, PubkeySteps, KeySteps, IssueSteps, DeviceSteps,
     PubkeyKnown, PubkeyInUse, PubkeyWrite
<1>2. LocalsOK("idle", NoFrame, sessions) /\ LocalsOK("idle", NoFrame, sessions')
  BY FreeLocals DEF FreeSteps
<1>3. CASE PubkeyKnown(t) \/ PubkeyInUse(t)
  <2>1. UNCHANGED stores
    BY <1>3 DEF PubkeyKnown, PubkeyInUse, stores, notRegistration
  <2>2. PICK step \in PubkeySteps \cup {"idle"} :
          \/ step = "idle" /\ Call(t, step, NoFrame)
          \/ step # "idle" /\ Call(t, step, frame[t])
    BY <1>3, GotoCall DEF PubkeyKnown, PubkeyInUse, Reply, PubkeySteps, TypeInv
  <2> QED BY <1>1, <1>2, <2>1, <2>2, LocalStep DEF PubkeySteps
<1>4. CASE PubkeyWrite(t)
  <2> DEFINE new == [issue_challenge(Sess(t)) EXCEPT
                       !.did = frame[t].did, !.state = "KEY_SUBMITTED"]
  <2>1. new \in Session
    BY <1>1, SessType, ChallengeType DEF TypeInv
  <2>2. new.did \in Dids /\ new.life = Sess(t).life
    BY <1>1, SessType DEF issue_challenge, Session, TypeInv
  <2>3. sessions' = [sessions EXCEPT ![frame[t].sid] = new]
    BY <1>4 DEF PubkeyWrite, SetSession
  <2> HIDE DEF new
  <2>4. /\ sessions' \in [Sids -> Session]
        /\ KeepsSessions /\ SessionDid'
    BY <1>1, <2>1, <2>2, <2>3 DEF TypeInv, TypeOK, KeepsSessions, SessionDid, Sess
  <2>5. /\ pc' \in [Threads -> Steps] /\ frame' \in [Threads -> Frame]
        /\ FrameOK'
    BY <1>2, <1>4, <2>4, CallKeeps DEF PubkeyWrite, Reply
  <2> QED BY <1>4, <2>4, <2>5 DEF TypeInv, TypeOK, PubkeyWrite, notRegistration, epochVars,
          ledgerVars, tokenVars
<1> QED BY <1>3, <1>4

\* A step of the PoP or metadata handler that keeps the frame or ends the request.
LEMMA KeyLocals ==
  ASSUME TypeInv, NEW t \in Threads, pc[t] \in KeySteps
  PROVE  /\ frame[t] \in Frame /\ frame[t].sid \in Sids
         /\ Sess(t) \in Session /\ Sess(t).did \in Dids
         /\ sessions[frame[t].sid].life # "unused"
         /\ \A step \in KeySteps : LocalsOK(step, frame[t], sessions)
<1>1. LocalsOK(pc[t], frame[t], sessions) /\ frame[t] \in Frame
  BY DEF TypeInv, TypeOK, FrameOK
<1>2. frame[t].sid \in Sids
  BY <1>1 DEF LocalsOK
<1> QED BY <1>1, <1>2, SessType DEF TypeInv, LocalsOK, KeySteps, PubkeySteps, IssueSteps,
        DeviceSteps, Sess

\* Such a step that replaces the session's state or its used flag.
LEMMA KeySessionStep ==
  ASSUME TypeInv, NEW t \in Threads, pc[t] \in KeySteps,
         NEW new \in Session, SetSession(t, new),
         new.did = Sess(t).did, new.life = Sess(t).life
  PROVE  /\ sessions' \in [Sids -> Session]
         /\ KeepsSessions /\ SessionDid'
         /\ \A step \in KeySteps : LocalsOK(step, frame[t], sessions')
<1>1. /\ sessions' = [sessions EXCEPT ![frame[t].sid] = new]
      /\ frame[t].sid \in Sids /\ new.did \in Dids /\ new.life # "unused"
  BY KeyLocals DEF SetSession, Sess
<1>2. /\ sessions' \in [Sids -> Session] /\ sessions'[frame[t].sid] = new
      /\ \A s \in Sids : s # frame[t].sid => sessions'[s] = sessions[s]
  BY <1>1 DEF TypeInv, TypeOK
<1> QED BY <1>1, <1>2 DEF TypeInv, KeepsSessions, SessionDid, LocalsOK, Sess,
        KeySteps, PubkeySteps, IssueSteps, DeviceSteps

\* /register/pop preserves the invariant.
LEMMA PopTypes ==
  ASSUME TypeInv, NEW t \in Threads,
         PopUsed(t) \/ PopVerify(t) \/ PopFail(t) \/ PopPass(t) \/ PopUpsert(t)
  PROVE  TypeInv'
<1> USE NoFrameType
<1>1. pc[t] \in KeySteps
  BY DEF PopUsed, PopVerify, PopFail, PopPass, PopUpsert, At, KeySteps
<1>2. "idle" \in Steps /\ KeySteps \subseteq Steps
      /\ \A ss : LocalsOK("idle", NoFrame, ss)
  BY FreeLocals DEF FreeSteps, Steps, KeySteps
<1>3. CASE PopUsed(t)
  <2>1. PICK step \in KeySteps : Call(t, step, frame[t])
    BY <1>3, GotoCall DEF PopUsed, KeySteps, TypeInv
  <2> QED BY <1>1, <1>2, <1>3, <2>1, KeyLocals, LocalStep DEF PopUsed, stores, notRegistration
<1>4. CASE PopVerify(t)
  <2>1. PICK step \in KeySteps : Call(t, step, frame[t])
    BY <1>4, GotoCall DEF PopVerify, KeySteps, TypeInv
  <2> DEFINE new == [Sess(t) EXCEPT !.used = TRUE]
  <2>2. new \in Session /\ new.did = Sess(t).did /\ new.life = Sess(t).life
    BY <1>1, KeyLocals, SessionField
  <2>3. SetSession(t, new)
    BY <1>4 DEF PopVerify
  <2> HIDE DEF new
  <2>4. /\ pc' \in [Threads -> Steps] /\ frame' \in [Threads -> Frame] /\ FrameOK'
        /\ sessions' \in [Sids -> Session] /\ SessionDid'
    BY <1>1, <1>2, <2>1, <2>2, <2>3, KeyLocals, KeySessionStep, CallKeeps
  <2> QED BY <1>4, <2>4 DEF TypeInv, TypeOK, PopVerify, notRegistration, epochVars,
          ledgerVars, tokenVars
<1>5. CASE PopFail(t) \/ PopPass(t)
  <2>1. PICK step \in KeySteps \cup {"idle"} :
          \/ step = "idle" /\ Call(t, step, NoFrame)
          \/ step # "idle" /\ Call(t, step, frame[t])
    BY <1>5, GotoCall DEF PopFail, PopPass, Reply, KeySteps, TypeInv
  <2>2. PICK state \in SessionStates : SetSession(t, [Sess(t) EXCEPT !.state = state])
    BY <1>5 DEF PopFail, PopPass, SessionStates
  <2> DEFINE new == [Sess(t) EXCEPT !.state = state]
  <2>3. new \in Session /\ new.did = Sess(t).did /\ new.life = Sess(t).life
    BY <1>1, KeyLocals, SessionField
  <2>4. SetSession(t, new)
    BY <2>2
  <2> HIDE DEF new
  <2>5. /\ pc' \in [Threads -> Steps] /\ frame' \in [Threads -> Frame] /\ FrameOK'
        /\ sessions' \in [Sids -> Session] /\ SessionDid'
    BY <1>1, <1>2, <2>1, <2>3, <2>4, KeyLocals, KeySessionStep, CallKeeps
  <2> QED BY <1>5, <2>5 DEF TypeInv, TypeOK, PopFail, PopPass, notRegistration, epochVars,
          ledgerVars, tokenVars
<1>6. CASE PopUpsert(t)
  <2>1. KeepsSessions /\ SessionDid'
    BY <1>6 DEF PopUpsert, KeepsSessions, TypeInv, SessionDid
  <2>2. /\ pc' \in [Threads -> Steps] /\ frame' \in [Threads -> Frame] /\ FrameOK'
    BY <1>2, <1>6, <2>1, CallKeeps DEF PopUpsert, Reply
  <2>3. devices' \in [Dids -> DeviceRecord \cup {None}]
    BY <1>6 DEF PopUpsert, TypeInv, TypeOK, NewRecord, DeviceRecord, DeviceStatus
  <2> QED BY <1>6, <2>1, <2>2, <2>3 DEF TypeInv, TypeOK, PopUpsert, notRegistration,
          epochVars, ledgerVars, tokenVars
<1> QED BY <1>3, <1>4, <1>5, <1>6

\* /register/metadata preserves the invariant.
LEMMA MetadataTypes ==
  ASSUME TypeInv, NEW t \in Threads,
         MetaRecord(t) \/ MetaQueue(t) \/ MetaAccept(t) \/ MetaReply(t)
  PROVE  TypeInv'
<1> USE NoFrameType
<1>1. pc[t] \in KeySteps
  BY DEF MetaRecord, MetaQueue, MetaAccept, MetaReply, At, KeySteps
<1>2. "idle" \in Steps /\ KeySteps \subseteq Steps
      /\ \A ss : LocalsOK("idle", NoFrame, ss)
  BY FreeLocals DEF FreeSteps, Steps, KeySteps
<1>3. CASE MetaRecord(t) \/ MetaQueue(t)
  <2>1. PICK step \in KeySteps \cup {"idle"} :
          \/ step = "idle" /\ Call(t, step, NoFrame)
          \/ step # "idle" /\ Call(t, step, frame[t])
    BY <1>3, GotoCall DEF MetaRecord, MetaQueue, Reply, KeySteps, TypeInv
  <2>2. KeepsSessions /\ SessionDid' /\ UNCHANGED sessions
    BY <1>3 DEF MetaRecord, MetaQueue, KeepsSessions, TypeInv, SessionDid
  <2>3. /\ pc' \in [Threads -> Steps] /\ frame' \in [Threads -> Frame] /\ FrameOK'
    BY <1>1, <1>2, <2>1, <2>2, KeyLocals, CallKeeps
  <2>4. CASE MetaRecord(t)
    <3>1. devices' \in [Dids -> DeviceRecord \cup {None}]
      <4>1. frame[t].roleOk \in BOOLEAN
        BY <1>1, KeyLocals DEF Frame
      <4> DEFINE d == Sess(t).did
      <4>2. d \in Dids
        BY <1>1, KeyLocals
      <4>3. devices \in [Dids -> DeviceRecord \cup {None}]
        BY DEF TypeInv, TypeOK
      <4>4. CASE UNCHANGED devices
        BY <4>3, <4>4
      <4>5. CASE Known(d) /\ devices' = [devices EXCEPT ![d].roleOk = frame[t].roleOk]
        <5>1. devices[d] \in DeviceRecord
          BY <4>2, <4>3, <4>5 DEF Known
        <5>2. [devices[d] EXCEPT !.roleOk = frame[t].roleOk] \in DeviceRecord
          BY <4>1, <5>1 DEF DeviceRecord
        <5> QED BY <4>2, <4>3, <4>5, <5>2
      <4> QED BY <2>4, <4>4, <4>5 DEF MetaRecord
    <3> QED BY <2>2, <2>3, <2>4, <3>1 DEF TypeInv, TypeOK, MetaRecord, notRegistration,
            epochVars, ledgerVars, tokenVars
  <2>5. CASE MetaQueue(t)
    <3>1. pending' \in SUBSET Dids
      BY <1>1, <2>5, KeyLocals DEF MetaQueue, TypeInv, TypeOK
    <3> QED BY <2>2, <2>3, <2>5, <3>1 DEF TypeInv, TypeOK, MetaQueue, ledgerVars, tokenVars
  <2> QED BY <1>3, <2>4, <2>5
<1>4. CASE MetaAccept(t)
  <2>1. SetSession(t, [Sess(t) EXCEPT !.state = "METADATA_ACCEPTED"])
    BY <1>4 DEF MetaAccept
  <2> DEFINE new == [Sess(t) EXCEPT !.state = "METADATA_ACCEPTED"]
  <2>2. new \in Session /\ new.did = Sess(t).did /\ new.life = Sess(t).life
    BY <1>1, KeyLocals, SessionField DEF SessionStates
  <2>3. SetSession(t, new)
    BY <2>1
  <2> HIDE DEF new
  <2>4. /\ pc' \in [Threads -> Steps] /\ frame' \in [Threads -> Frame] /\ FrameOK'
        /\ sessions' \in [Sids -> Session] /\ SessionDid'
    <3>1. PICK step \in KeySteps : Call(t, step, frame[t])
      BY <1>4, GotoCall DEF MetaAccept, KeySteps, TypeInv
    <3> QED BY <1>1, <1>2, <2>2, <2>3, <3>1, KeyLocals, KeySessionStep, CallKeeps
  <2> QED BY <1>4, <2>4 DEF TypeInv, TypeOK, MetaAccept, notRegistration, epochVars,
          ledgerVars, tokenVars
<1>5. CASE MetaReply(t)
  BY <1>2, <1>5, LocalStep DEF MetaReply, Reply, stores, notRegistration
<1> QED BY <1>3, <1>4, <1>5

\* A request that names session s, from an idle thread.
LEMMA RegistrationRequestTypes ==
  ASSUME TypeInv, NEW t \in Threads, RegistrationRequest(t)
  PROVE  TypeInv'
<1> PICK s \in Sids :
      \/ RegisterStart(t, s) \/ SessionGone(t, s)
      \/ \E d \in Dids : RegisterPubkey(t, s, d)
      \/ RegisterPop(t, s)
      \/ \E roleOk \in BOOLEAN : RegisterMetadata(t, s, roleOk)
  BY DEF RegistrationRequest
<1>1. CASE RegisterStart(t, s) \/ SessionGone(t, s)
  <2>1. sessions[s] \in Session
    BY DEF TypeInv, TypeOK
  <2>2. sessions' \in [Sids -> Session] /\ KeepsSessions /\ SessionDid'
    <3>1. CASE RegisterStart(t, s)
      BY <3>1, NewSessionType DEF RegisterStart, TypeInv, TypeOK, KeepsSessions,
         SessionDid, NewSession
    <3>2. CASE SessionGone(t, s)
      <4>1. [sessions[s] EXCEPT !.life = "gone"] \in Session
        BY <2>1 DEF Session
      <4> QED BY <2>1, <3>2, <4>1 DEF SessionGone, TypeInv, TypeOK, KeepsSessions, SessionDid, Session
    <3> QED BY <1>1, <3>1, <3>2
  <2>3. FrameOK'
    BY <1>1, <2>2 DEF RegisterStart, SessionGone, FrameOK, LocalsOK, KeepsSessions, TypeInv
  <2> QED BY <1>1, <2>2, <2>3 DEF TypeInv, TypeOK, RegisterStart, SessionGone, notRegistration,
          epochVars, ledgerVars, tokenVars
<1>2. ASSUME NEW d \in Dids, RegisterPubkey(t, s, d) PROVE TypeInv'
  <2> DEFINE f == [NoFrame EXCEPT !.sid = s, !.did = d]
  <2>1. f \in Frame /\ f.sid = s /\ f.did = d
    BY DEF NoFrame, Frame
  <2>2. Call(t, "pubkey_known", f) /\ UNCHANGED stores /\ sessions[s].life = "live"
    BY <1>2 DEF RegisterPubkey, stores, notRegistration, Open
  <2> HIDE DEF f
  <2>3. "pubkey_known" \in Steps /\ LocalsOK("pubkey_known", f, sessions)
    BY <2>1, <2>2 DEF LocalsOK, Steps, KeySteps, IssueSteps
  <2> QED BY <2>1, <2>2, <2>3, LocalStep
<1>3. ASSUME RegisterPop(t, s) \/ \E roleOk \in BOOLEAN : RegisterMetadata(t, s, roleOk)
      PROVE  TypeInv'
  <2>1. sessions[s].life = "live" /\ sessions[s].did \in Dids /\ UNCHANGED stores
    BY <1>3 DEF RegisterPop, RegisterMetadata, Open, Require, stores, notRegistration,
       TypeInv, SessionDid
  <2>2. PICK step \in {"pop_used", "meta_record"}, f \in Frame : f.sid = s /\ Call(t, step, f)
    <3>1. CASE RegisterPop(t, s)
      <4>1. sessions[s].chal \in Nat
        BY DEF TypeInv, TypeOK, Session
      <4>2. PICK genuine \in BOOLEAN : Call(t, "pop_used",
              IF genuine THEN [NoFrame EXCEPT !.sid = s, !.did = sessions[s].did,
                                              !.chal = sessions[s].chal]
                         ELSE [NoFrame EXCEPT !.sid = s])
        BY <3>1 DEF RegisterPop
      <4> DEFINE f == IF genuine THEN [NoFrame EXCEPT !.sid = s, !.did = sessions[s].did,
                                                      !.chal = sessions[s].chal]
                                 ELSE [NoFrame EXCEPT !.sid = s]
      <4>3. f \in Frame /\ f.sid = s
        BY <2>1, <4>1 DEF NoFrame, Frame
      <4>4. Call(t, "pop_used", f)
        BY <4>2
      <4> HIDE DEF f
      <4> QED BY <4>3, <4>4
    <3>2. ASSUME NEW roleOk \in BOOLEAN, RegisterMetadata(t, s, roleOk)
          PROVE  \E f \in Frame : f.sid = s /\ Call(t, "meta_record", f)
      <4> DEFINE f == [NoFrame EXCEPT !.sid = s, !.roleOk = roleOk]
      <4>1. f \in Frame /\ f.sid = s
        BY DEF NoFrame, Frame
      <4>2. Call(t, "meta_record", f)
        BY <3>2 DEF RegisterMetadata
      <4> HIDE DEF f
      <4> QED BY <4>1, <4>2
    <3> QED BY <1>3, <3>1, <3>2
  <2>3. step \in Steps /\ LocalsOK(step, f, sessions)
    BY <2>1, <2>2 DEF LocalsOK, Steps, KeySteps, PubkeySteps, IssueSteps, DeviceSteps
  <2> QED BY <2>1, <2>2, <2>3, LocalStep
<1> QED BY <1>1, <1>2, <1>3

-----------------------------------------------------------------------------
(* Closing an epoch, fetching a proof.                                     *)

\* A step that leaves the sessions alone and ends where no locals are needed.
LEMMA FreeStep ==
  ASSUME TypeInv, NEW t \in Threads, NEW step \in FreeSteps, NEW f \in Frame,
         Call(t, step, f), UNCHANGED sessions
  PROVE  /\ pc' \in [Threads -> Steps] /\ frame' \in [Threads -> Frame]
         /\ FrameOK' /\ SessionDid'
<1>1. KeepsSessions /\ SessionDid'
  BY DEF KeepsSessions, TypeInv, SessionDid
<1> QED BY <1>1, FreeLocals, CallKeeps

\* frame[t] with other sets of devices.
LEMMA FrameSets ==
  ASSUME TypeOK, NEW t \in Threads, NEW dids \in SUBSET Dids
  PROVE  /\ frame[t] \in Frame
         /\ [frame[t] EXCEPT !.dids = dids] \in Frame
         /\ [frame[t] EXCEPT !.todo = dids] \in Frame
BY DEF TypeOK, Frame

\* finalize_epoch preserves the invariant.
LEMMA CloseTypes ==
  ASSUME TypeInv, NEW t \in Threads,
         \/ CloseAcquire(t) \/ CloseRevoked(t) \/ CloseCollect(t)
         \/ CloseAnchor(t) \/ CloseUpdate(t) \/ CloseFinish(t)
  PROVE  TypeInv'
<1> USE NoFrameType DEF FreeSteps
<1>1. TypeOK /\ frame[t] \in Frame /\ frame[t].dids \in SUBSET Dids
      /\ frame[t].todo \in SUBSET Dids
  BY DEF TypeInv, TypeOK, Frame
<1>2. PICK step \in FreeSteps, f \in Frame : Call(t, step, f)
  <2>1. CASE CloseAcquire(t)
    BY <1>1, <2>1, GotoCall DEF CloseAcquire
  <2>2. CASE CloseRevoked(t)
    <3> DEFINE f == [frame[t] EXCEPT !.dids = blocked(t)]
    <3>1. f \in Frame
      BY <1>1, FrameSets DEF blocked, by_status
    <3>2. Call(t, "close_collect", f)
      BY <2>2 DEF CloseRevoked, Call
    <3> HIDE DEF f
    <3> QED BY <3>1, <3>2
  <2>3. CASE CloseCollect(t)
    <3> DEFINE f == [frame[t] EXCEPT !.dids = Members(t)]
    <3>1. f \in Frame
      BY <1>1, FrameSets DEF Members, Carried, by_status, TypeOK
    <3>2. Call(t, "close_anchor", f) \/ Call(t, "idle", NoFrame)
      BY <2>3 DEF CloseCollect, Call, Release
    <3> HIDE DEF f
    <3> QED BY <3>1, <3>2
  <2>4. CASE CloseAnchor(t)
    <3> DEFINE f == [frame[t] EXCEPT !.todo = frame[t].dids]
    <3>1. f \in Frame
      BY <1>1, FrameSets
    <3>2. \/ Call(t, "close_update", f)
          \/ Call(t, "dead", NoFrame) \/ Call(t, "idle", NoFrame)
      BY <2>4 DEF CloseAnchor, Saved, NotSaved, Raise, Release, Call
    <3> HIDE DEF f
    <3> QED BY <3>1, <3>2
  <2>5. CASE CloseUpdate(t)
    <3>1. PICK d \in Dids : frame' = [frame EXCEPT ![t].todo = @ \ {d}]
      BY <1>1, <2>5 DEF CloseUpdate
    <3> DEFINE f == [frame[t] EXCEPT !.todo = frame[t].todo \ {d}]
    <3>2. f \in Frame
      BY <1>1, FrameSets
    <3>3. frame' = [frame EXCEPT ![t] = f] /\ pc[t] = "close_update" /\ pc' = pc
      BY <2>5, <3>1 DEF CloseUpdate, At
    <3> HIDE DEF f
    <3>4. Call(t, "close_update", f)
      BY <1>1, <3>3 DEF Call, Goto, TypeOK
    <3> QED BY <3>2, <3>4
  <2>6. CASE CloseFinish(t)
    BY <2>6 DEF CloseFinish, Release
  <2> QED BY <2>1, <2>2, <2>3, <2>4, <2>5, <2>6
<1>3. UNCHANGED <<sessions, issued, revoked_token_ids, crashes>>
  BY DEF CloseAcquire, CloseRevoked, CloseCollect, CloseAnchor, CloseUpdate, CloseFinish,
     notEpoch, tokenVars
<1>4. /\ pc' \in [Threads -> Steps] /\ frame' \in [Threads -> Frame]
      /\ FrameOK' /\ SessionDid'
  BY <1>2, <1>3, FreeStep
<1>5. /\ devices' \in [Dids -> DeviceRecord \cup {None}]
      /\ latest_package' \in [Dids -> ProofPackage \cup {None}]
  <2>1. CASE CloseUpdate(t)
    <3>1. PICK d \in Dids :
            /\ Register(d)
            /\ latest_package' = [latest_package EXCEPT ![d] =
                 [epoch_id |-> current_epoch_id, root |-> frame[t].dids]]
      BY <1>1, <2>1 DEF CloseUpdate
    <3>2. [epoch_id |-> current_epoch_id, root |-> frame[t].dids] \in ProofPackage
      BY <1>1 DEF TypeOK, ProofPackage
    <3>3. devices' \in [Dids -> DeviceRecord \cup {None}]
      <4>1. devices \in [Dids -> DeviceRecord \cup {None}] /\ current_epoch_id \in Nat
        BY <1>1 DEF TypeOK
      <4>2. CASE ~Known(d)
        BY <3>1, <4>1, <4>2 DEF Register
      <4>3. CASE Known(d)
        <5> DEFINE new == [devices[d] EXCEPT !.status = "REGISTERED",
                                             !.epoch_id = current_epoch_id]
        <5>1. devices[d] \in DeviceRecord
          BY <4>1, <4>3 DEF Known
        <5>2. new \in DeviceRecord
          BY <4>1, <5>1 DEF DeviceRecord, DeviceStatus
        <5>3. devices' = [devices EXCEPT ![d] = new]
          BY <3>1, <4>1, <4>3 DEF Register
        <5> HIDE DEF new
        <5> QED BY <4>1, <5>2, <5>3
      <4> QED BY <4>2, <4>3
    <3> QED BY <1>1, <3>1, <3>2, <3>3 DEF TypeOK
  <2> QED BY <1>1, <2>1 DEF CloseAcquire, CloseRevoked, CloseCollect, CloseAnchor, CloseFinish,
          epochVars, TypeOK
<1>6. blocks' \in Seq(Block) /\ disk' \in Seq(Block)
  <2>1. [epoch_id |-> current_epoch_id, root |-> frame[t].dids] \in Block
    BY <1>1 DEF TypeOK, Block
  <2>2. CASE CloseAnchor(t)
    <3> DEFINE block == [epoch_id |-> current_epoch_id, root |-> frame[t].dids]
    <3>1. \/ UNCHANGED <<blocks, disk>>
          \/ blocks' = Append(blocks, block) /\ disk' \in {blocks', disk}
      BY <2>2 DEF CloseAnchor, Saved, NotSaved, ledgerVars
    <3>2. block \in Block
      BY <2>1
    <3> HIDE DEF block
    <3>3. blocks \in Seq(Block) /\ disk \in Seq(Block)
      BY <1>1 DEF TypeOK
    <3>4. Append(blocks, block) \in Seq(Block)
      BY <3>2, <3>3
    <3> QED BY <3>1, <3>3, <3>4
  <2> QED BY <1>1, <2>2 DEF CloseAcquire, CloseRevoked, CloseCollect, CloseUpdate, CloseFinish,
          ledgerVars, TypeOK
<1>7. /\ lock' \in Threads \cup {None} /\ pending' \in SUBSET Dids
      /\ current_epoch_id' \in Nat \ {0} /\ packages' \in SUBSET ProofPackage
      /\ proofs' \in SUBSET HeldProof
  <2>1. [epoch_id |-> current_epoch_id, root |-> frame[t].dids] \in ProofPackage
    BY <1>1 DEF TypeOK, ProofPackage
  <2>2. lock' \in Threads \cup {None}
    BY <1>1 DEF CloseAcquire, CloseRevoked, CloseCollect, CloseAnchor, CloseUpdate, CloseFinish,
       Saved, NotSaved, Raise, Release, TypeOK
  <2>3. pending' \in SUBSET Dids /\ current_epoch_id' \in Nat \ {0}
    BY <1>1 DEF CloseAcquire, CloseRevoked, CloseCollect, CloseAnchor, CloseUpdate, CloseFinish,
       epochVars, TypeOK
  <2>4. packages' \in SUBSET ProofPackage /\ proofs' \in SUBSET HeldProof
    BY <1>1, <2>1 DEF CloseAcquire, CloseRevoked, CloseCollect, CloseAnchor, CloseUpdate,
       CloseFinish, epochVars, TypeOK
  <2> QED BY <2>2, <2>3, <2>4
<1> QED BY <1>1, <1>3, <1>4, <1>5, <1>6, <1>7 DEF TypeInv, TypeOK

\* Fetching a proof package preserves the invariant.
LEMMA ProofReplyTypes ==
  ASSUME TypeInv, NEW t \in Threads, ProofReply(t) PROVE TypeInv'
<1>1. /\ pc' \in [Threads -> Steps] /\ frame' \in [Threads -> Frame]
      /\ FrameOK' /\ SessionDid'
  BY FreeStep, NoFrameType DEF ProofReply, Reply, FreeSteps, notEpoch
<1>2. frame[t].did \in Dids
  BY DEF ProofReply, At, TypeInv, FrameOK, LocalsOK, DeviceSteps
<1>3. get_package(frame[t].did) \subseteq ProofPackage
  BY <1>2 DEF get_package, TypeInv, TypeOK
<1>4. proofs' \in SUBSET HeldProof
  BY <1>2, <1>3 DEF ProofReply, HeldProof, TypeInv, TypeOK
<1> QED BY <1>1, <1>4 DEF TypeInv, TypeOK, ProofReply, notEpoch, epochVars, ledgerVars, tokenVars

\* The requests that only set a frame: closing an epoch, asking for a proof.
LEMMA EpochRequestTypes ==
  ASSUME TypeInv, NEW t \in Threads, EpochRequest(t) \/ AutoClose(t)
  PROVE  TypeInv'
<1> USE ExcludeAssumption
<1>1. PICK step \in {"close_acquire", "proof_package"}, f \in Frame :
        /\ Call(t, step, f) /\ UNCHANGED stores
        /\ step = "proof_package" => f.did \in Dids
  <2>1. ASSUME NEW excluded \in Excludes, EpochClose(t, excluded)
        PROVE  \E f \in Frame : Call(t, "close_acquire", f) /\ UNCHANGED stores
    <3> DEFINE f == [NoFrame EXCEPT !.dids = excluded]
    <3>1. f \in Frame
      BY DEF NoFrame, Frame
    <3>2. Call(t, "close_acquire", f) /\ UNCHANGED stores
      BY <2>1 DEF EpochClose, stores, notEpoch
    <3> HIDE DEF f
    <3> QED BY <3>1, <3>2
  <2>2. ASSUME NEW d \in Dids, GetProof(t, d)
        PROVE  \E f \in Frame : Call(t, "proof_package", f) /\ UNCHANGED stores /\ f.did = d
    <3> DEFINE f == [NoFrame EXCEPT !.did = d]
    <3>1. f \in Frame /\ f.did = d
      BY DEF NoFrame, Frame
    <3>2. Call(t, "proof_package", f) /\ UNCHANGED stores
      BY <2>2 DEF GetProof, stores, notEpoch
    <3> HIDE DEF f
    <3> QED BY <3>1, <3>2
  <2>3. CASE AutoClose(t)
    BY <2>3, NoFrameType DEF AutoClose, stores, notEpoch
  <2> QED BY <2>1, <2>2, <2>3 DEF EpochRequest
<1>2. step \in Steps /\ LocalsOK(step, f, sessions)
  BY <1>1 DEF Steps, LocalsOK, PubkeySteps, KeySteps, IssueSteps, DeviceSteps
<1> QED BY <1>1, <1>2, LocalStep

-----------------------------------------------------------------------------
(* Tokens and revocation.                                                  *)

\* A step that changes devices and token tables only.
LEMMA TokenFrame ==
  ASSUME TypeInv, NEW t \in Threads, NEW step \in Steps, NEW f \in Frame,
         Call(t, step, f), LocalsOK(step, f, sessions), UNCHANGED notToken,
         devices' \in [Dids -> DeviceRecord \cup {None}],
         issued' \in [Tokens -> Dids \cup {None}],
         revoked_token_ids' \in SUBSET Tokens
  PROVE  TypeInv'
<1>1. KeepsSessions /\ SessionDid' /\ LocalsOK(step, f, sessions')
  BY DEF TypeInv, KeepsSessions, SessionDid, LocalsOK, notToken
<1>2. /\ pc' \in [Threads -> Steps] /\ frame' \in [Threads -> Frame]
      /\ FrameOK'
  BY <1>1, CallKeeps
<1> QED BY <1>1, <1>2 DEF TypeInv, TypeOK, notToken, epochVars, ledgerVars

\* set_status keeps the records records.
LEMMA SetStatusType ==
  ASSUME TypeOK, NEW d \in Dids, NEW status \in DeviceStatus, set_status(d, status)
  PROVE  devices' \in [Dids -> DeviceRecord \cup {None}]
BY DEF TypeOK, set_status, Known, DeviceRecord

\* Issuing a token preserves the invariant.
LEMMA IssueTypes ==
  ASSUME TypeInv, NEW t \in Threads, IssueKnown(t) \/ IssueEligible(t) \/ IssueRecord(t) \/ IssueStatus(t)
  PROVE  TypeInv'
<1> USE NoFrameType DEF Steps
<1>1. /\ frame[t] \in Frame /\ frame[t].did \in Dids /\ frame[t].tok \in Tokens
      /\ \A step \in IssueSteps : LocalsOK(step, frame[t], sessions)
  BY DEF TypeInv, TypeOK, FrameOK, LocalsOK, PubkeySteps, KeySteps, IssueSteps, DeviceSteps,
     IssueKnown, IssueEligible, IssueRecord, IssueStatus, At
<1>2. LocalsOK("idle", NoFrame, sessions)
  BY FreeLocals DEF FreeSteps
<1>3. TypeOK
  BY DEF TypeInv
<1>4. CASE IssueKnown(t) \/ IssueEligible(t)
  <2>1. PICK step \in Steps, f \in Frame :
          Call(t, step, f) /\ LocalsOK(step, f, sessions)
    BY <1>1, <1>2, <1>3, <1>4, GotoCall DEF IssueKnown, IssueEligible, Reply, IssueSteps
  <2> QED BY <1>3, <1>4, <2>1, TokenFrame DEF IssueKnown, IssueEligible, TypeOK, tokenVars
<1>5. CASE IssueRecord(t)
  <2>1. Call(t, "issue_status", frame[t]) /\ LocalsOK("issue_status", frame[t], sessions)
    BY <1>1, <1>3, <1>5, GotoCall DEF IssueRecord, IssueSteps
  <2>2. issued' \in [Tokens -> Dids \cup {None}]
    BY <1>1, <1>3, <1>5 DEF IssueRecord, TypeOK
  <2> QED BY <1>1, <1>3, <1>5, <2>1, <2>2, TokenFrame DEF IssueRecord, TypeOK
<1>6. CASE IssueStatus(t)
  <2>1. devices' \in [Dids -> DeviceRecord \cup {None}]
    BY <1>1, <1>3, <1>6, SetStatusType DEF IssueStatus, DeviceStatus
  <2> QED BY <1>2, <1>3, <1>6, <2>1, TokenFrame DEF IssueStatus, Reply, TypeOK, tokenVars
<1> QED BY <1>4, <1>5, <1>6

\* Blacklisting a device's tokens preserves the invariant.
LEMMA RevokeStepTypes ==
  ASSUME TypeInv, NEW t \in Threads, RevokeList(t) \/ RevokeTokens(t)
  PROVE  TypeInv'
<1> USE NoFrameType
<1>1. /\ frame[t] \in Frame /\ frame[t].did \in Dids /\ frame[t].toks \subseteq Tokens
  BY DEF TypeInv, TypeOK, FrameOK, LocalsOK, DeviceSteps, RevokeList, RevokeTokens, At, Frame
<1>2. /\ LocalsOK("idle", NoFrame, sessions)
      /\ \A f : f.did \in Dids => LocalsOK("revoke_tokens", f, sessions)
  BY FreeLocals DEF FreeSteps, LocalsOK, PubkeySteps, KeySteps, IssueSteps, DeviceSteps
<1>3. TypeOK
  BY DEF TypeInv
<1>4. \A ks \in SUBSET Tokens :
        /\ [frame[t] EXCEPT !.toks = ks] \in Frame
        /\ [frame[t] EXCEPT !.toks = ks].did = frame[t].did
  BY <1>1 DEF Frame
<1>5. PICK step \in Steps, f \in Frame :
        Call(t, step, f) /\ LocalsOK(step, f, sessions)
  <2>1. CASE RevokeList(t)
    <3> DEFINE ks == frame[t].toks \cup tokens_of(frame[t].did)
               f == [frame[t] EXCEPT !.toks = ks]
    <3>1. ks \in SUBSET Tokens
      BY <1>1 DEF tokens_of
    <3>2. Call(t, "revoke_tokens", f)
      BY <1>3, <2>1 DEF RevokeList, Call, TypeOK
    <3>3. f \in Frame /\ f.did \in Dids
      BY <1>1, <1>4, <3>1
    <3> HIDE DEF f
    <3> QED BY <1>2, <3>2, <3>3 DEF Steps
  <2>2. CASE RevokeTokens(t) /\ frame[t].toks = {}
    BY <1>2, <2>2 DEF RevokeTokens, Reply, Steps
  <2>3. CASE RevokeTokens(t) /\ frame[t].toks # {}
    <3>1. PICK k \in frame[t].toks :
            frame' = [frame EXCEPT ![t].toks = @ \ {k}] /\ UNCHANGED pc
      BY <2>3 DEF RevokeTokens
    <3> DEFINE ks == frame[t].toks \ {k}
               f == [frame[t] EXCEPT !.toks = ks]
    <3>2. Call(t, "revoke_tokens", f)
      BY <1>3, <2>3, <3>1 DEF Call, Goto, TypeOK, RevokeTokens, At
    <3>3. f \in Frame /\ f.did \in Dids
      BY <1>1, <1>4
    <3> HIDE DEF f
    <3> QED BY <1>2, <3>2, <3>3 DEF Steps
  <2> QED BY <2>1, <2>2, <2>3
<1>6. UNCHANGED <<notToken, devices, issued>> /\ revoked_token_ids' \in SUBSET Tokens
  BY <1>1, <1>3 DEF RevokeList, RevokeTokens, tokenVars, TypeOK
<1> QED BY <1>3, <1>5, <1>6, TokenFrame DEF TypeOK

\* A token or revocation request preserves the invariant.
LEMMA TokenRequestTypes ==
  ASSUME TypeInv, NEW t \in Threads, TokenRequest(t)
  PROVE  TypeInv'
<1>1. TypeOK
  BY DEF TypeInv
<1>2. ASSUME NEW s \in Sids, TokensIssue(t, s) PROVE TypeInv'
  <2>1. PICK k \in FreshTokens :
          Call(t, "issue_known", [NoFrame EXCEPT !.sid = s, !.tok = k,
                                                  !.did = sessions[s].did])
    BY <1>2 DEF TokensIssue
  <2> DEFINE f == [NoFrame EXCEPT !.sid = s, !.tok = k, !.did = sessions[s].did]
  <2>2. sessions[s].did \in Dids
    BY <1>2 DEF TypeInv, SessionDid, TokensIssue
  <2>3. f \in Frame /\ f.did \in Dids /\ f.tok \in Tokens
    BY <2>1, <2>2 DEF FreshTokens, NoFrame, Frame
  <2>4. Call(t, "issue_known", f)
    BY <2>1
  <2> HIDE DEF f
  <2>5. LocalsOK("issue_known", f, sessions)
    BY <2>3 DEF LocalsOK, PubkeySteps, KeySteps
  <2> QED BY <1>1, <1>2, <2>3, <2>4, <2>5, TokenFrame DEF TokensIssue, tokenVars, TypeOK, Steps
<1>3. ASSUME NEW d \in Dids, NEW extra \in {{}} \cup {{k} : k \in Tokens}, Revoke(t, d, extra)
      PROVE  TypeInv'
  <2> DEFINE f == [NoFrame EXCEPT !.did = d, !.toks = extra]
  <2>1. f \in Frame /\ f.did \in Dids
    BY DEF NoFrame, Frame
  <2>2. Call(t, "revoke_list", f) /\ UNCHANGED <<tokenVars, notToken>>
    BY <1>3 DEF Revoke
  <2> HIDE DEF f
  <2>3. LocalsOK("revoke_list", f, sessions)
    BY <2>1 DEF LocalsOK, PubkeySteps, KeySteps, IssueSteps
  <2>4. devices' \in [Dids -> DeviceRecord \cup {None}]
    BY <1>1, <1>3, SetStatusType DEF Revoke, DeviceStatus
  <2> QED BY <1>1, <2>1, <2>2, <2>3, <2>4, TokenFrame DEF tokenVars, TypeOK, Steps
<1>4. ASSUME NEW d \in Dids, NEW k \in Tokens, RevokeToken(t, d, k) PROVE TypeInv'
  BY <1>4 DEF RevokeToken, TypeInv, TypeOK, FrameOK, SessionDid, notToken, epochVars, ledgerVars
<1> QED BY <1>2, <1>3, <1>4 DEF TokenRequest

-----------------------------------------------------------------------------
(* The environment and the whole specification.                            *)

\* A session that expires preserves the invariant.
LEMMA ExpiryTypes ==
  ASSUME TypeInv, NEW s \in Sids, SessionExpires(s) PROVE TypeInv'
<1> DEFINE new == [sessions[s] EXCEPT !.life = "expired"]
<1>1. /\ sessions \in [Sids -> Session] /\ sessions' = [sessions EXCEPT ![s] = new]
      /\ sessions[s].life = "live"
  BY DEF TypeInv, TypeOK, SessionExpires
<1>2. new \in Session /\ new.did = sessions[s].did /\ new.state = sessions[s].state
      /\ new.life = "expired"
  BY <1>1 DEF Session
<1> HIDE DEF new
<1>3. sessions' \in [Sids -> Session] /\ SessionDid' /\ KeepsSessions
  BY <1>1, <1>2 DEF TypeInv, SessionDid, KeepsSessions
<1>4. FrameOK'
  BY <1>3 DEF TypeInv, FrameOK, LocalsOK, KeepsSessions, SessionExpires
<1> QED BY <1>3, <1>4 DEF TypeInv, TypeOK, SessionExpires, notRegistration, epochVars,
        ledgerVars, tokenVars

\* Ledger.latest_epoch is a number.
LEMMA LatestEpochType ==
  ASSUME NEW chain \in Seq(Block) PROVE latest_epoch(chain) \in Nat
<1>1. CASE chain = <<>>
  BY <1>1 DEF latest_epoch
<1>2. CASE chain # <<>>
  <2>1. Len(chain) \in 1..Len(chain)
    BY <1>2
  <2>2. chain[Len(chain)] \in Block
    BY <2>1
  <2> QED BY <1>2, <2>2 DEF latest_epoch, Block
<1> QED BY <1>1, <1>2

\* No thread is busy: every frame is as empty as it may be.
LEMMA AllIdleTypes ==
  ASSUME pc = AllIdle, frame = NoFrames
  PROVE  pc \in [Threads -> Steps] /\ frame \in [Threads -> Frame] /\ FrameOK
<1>1. pc \in [Threads -> Steps] /\ frame \in [Threads -> Frame]
  BY NoFrameType DEF AllIdle, NoFrames, Steps
<1>2. \A t \in Threads : pc[t] = "idle" /\ "idle" \in FreeSteps
  BY DEF AllIdle, FreeSteps
<1>3. FrameOK
  BY <1>2, FreeLocals DEF FrameOK
<1> QED BY <1>1, <1>3

\* A restart preserves the invariant.
LEMMA RestartTypes ==
  ASSUME TypeInv, Restart PROVE TypeInv'
<1> DEFINE gone == [NewSession EXCEPT !.life = "gone"]
<1>1. gone \in Session /\ gone.state = "AUTHENTICATED"
  BY DEF NewSession, Session, SessionStates
<1>2. sessions' = [s \in Sids |-> IF sessions[s].life = "unused" THEN sessions[s] ELSE gone]
  BY DEF Restart
<1> HIDE DEF gone
<1>3. sessions' \in [Sids -> Session] /\ SessionDid'
  BY <1>1, <1>2 DEF TypeInv, TypeOK, SessionDid
<1>4. pc' \in [Threads -> Steps] /\ frame' \in [Threads -> Frame] /\ FrameOK'
  <2>1. /\ pc' \in [Threads -> Steps] /\ frame' \in [Threads -> Frame]
        /\ \A t \in Threads : pc'[t] = "idle" /\ "idle" \in FreeSteps
    BY NoFrameType DEF Restart, AllIdle, NoFrames, Steps, FreeSteps
  <2> QED BY <2>1, FreeLocals DEF FrameOK
<1>5. current_epoch_id' \in Nat \ {0}
  BY LatestEpochType DEF Restart, TypeInv, TypeOK
<1>6. /\ devices' \in [Dids -> DeviceRecord \cup {None}]
      /\ latest_package' \in [Dids -> ProofPackage \cup {None}]
      /\ issued' \in [Tokens -> Dids \cup {None}]
  BY DEF Restart, NoRecords, NoTokens
<1>7. /\ blocks' \in Seq(Block) /\ disk' \in Seq(Block)
      /\ proofs' \in SUBSET HeldProof /\ crashes' \in Nat
  BY DEF TypeInv, TypeOK, Restart
<1>8. /\ pending' \in SUBSET Dids /\ packages' \in SUBSET ProofPackage
      /\ lock' \in Threads \cup {None} /\ revoked_token_ids' \in SUBSET Tokens
  BY DEF Restart
<1> QED BY <1>3, <1>4, <1>5, <1>6, <1>7, <1>8 DEF TypeInv, TypeOK

\* A fog node that has just started satisfies the invariant.
LEMMA InitTypes == Init => TypeInv
<1> SUFFICES ASSUME Init PROVE TypeInv
  OBVIOUS
<1> DEFINE unused == [NewSession EXCEPT !.life = "unused"]
<1>1. unused \in Session /\ unused.state = "AUTHENTICATED"
  BY DEF NewSession, Session, SessionStates
<1>2. sessions = [s \in Sids |-> unused]
  BY DEF Init
<1> HIDE DEF unused
<1>3. sessions \in [Sids -> Session] /\ SessionDid
  BY <1>1, <1>2 DEF SessionDid
<1>4. pc \in [Threads -> Steps] /\ frame \in [Threads -> Frame] /\ FrameOK
  BY AllIdleTypes DEF Init
<1> QED BY <1>3, <1>4 DEF TypeInv, TypeOK, Init, NoRecords, NoTokens

\* Every step of the fog node keeps the state, and the locals a suspended
\* handler will still read, of the right type.
LEMMA NextTypes == TypeInv /\ [Next]_vars => TypeInv'
<1> SUFFICES ASSUME TypeInv, [Next]_vars PROVE TypeInv'
  OBVIOUS
<1>1. ASSUME NEW t \in Threads, Step(t) PROVE TypeInv'
  BY <1>1, PubkeyTypes, PopTypes, MetadataTypes, CloseTypes, ProofReplyTypes,
     IssueTypes, RevokeStepTypes DEF Step, Registering, Closing, Issuing
<1>2. ASSUME NEW t \in Threads, Request(t) PROVE TypeInv'
  BY <1>2, RegistrationRequestTypes, EpochRequestTypes, TokenRequestTypes DEF Request
<1>3. ASSUME NEW t \in Threads, AutoClose(t) PROVE TypeInv'
  BY <1>3, EpochRequestTypes
<1>4. ASSUME NEW s \in Sids, SessionExpires(s) PROVE TypeInv'
  BY <1>4, ExpiryTypes
<1>5. CASE Restart
  BY <1>5, RestartTypes
<1>6. CASE UNCHANGED vars
  BY <1>6 DEF TypeInv, TypeOK, FrameOK, SessionDid, vars, fogVars, ledgerVars
<1> QED BY <1>1, <1>2, <1>3, <1>4, <1>5, <1>6 DEF Next, Quiet

\* The invariant holds always.
LEMMA TypeInvariant == Spec => []TypeInv
BY InitTypes, NextTypes, PTL DEF Spec

\* Whatever the threads interleave, the stores keep the types their readers
\* rely on: no handler ever meets a status, state or package that is not one.
THEOREM TypeCorrect == Spec => []TypeOK
<1>1. TypeInv => TypeOK
  BY DEF TypeInv
<1> QED BY <1>1, TypeInvariant, PTL
=============================================================================
