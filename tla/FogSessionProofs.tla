-------------------------- MODULE FogSessionProofs --------------------------
(***************************************************************************)
(* Onboarding when no two requests of one session are under way: sessions  *)
(* go through their states in order, and a record is created only for the  *)
(* key that signed the challenge.  The threads are any number and may work *)
(* on different sessions, close epochs and issue tokens meanwhile.         *)
(***************************************************************************)
EXTENDS FogTypeProofs

\* Either every client waits for its answer, or the fog takes one request at a
\* time.
OneRequestPerSession == SerialSessions \/ \A t, u \in Threads : t = u

\* No two requests under way name the same session.
Exclusive == \A t, u \in Threads :
  t # u => frame[t].sid = None \/ frame[t].sid # frame[u].sid

Proving == {"pop_used", "pop_verify", "pop_fail", "pop_pass"}
Proven == {"pop_upsert", "meta_record", "meta_queue", "meta_accept"}

\* The state _require_state saw is still the session's while its request is
\* handled; past verify_pop the signature was the session's own.
SessionAt(step, f, ss) ==
  /\ step \in PubkeySteps => ss[f.sid].state = "AUTHENTICATED"
  /\ step \in Proving => ss[f.sid].state = "KEY_SUBMITTED"
  /\ step \in Proven => ss[f.sid].state = "POP_VERIFIED"
  /\ step = "meta_reply" => ss[f.sid].state = "METADATA_ACCEPTED"
  /\ step \in {"pop_pass", "pop_upsert"} => f.did = ss[f.sid].did

StatesOK == \A t \in Threads : SessionAt(pc[t], frame[t], sessions)

UnusedOK == \A s \in Sids :
  sessions[s].life = "unused" => sessions[s].state = "AUTHENTICATED"

SessionInv == Exclusive /\ StatesOK /\ UnusedOK

-----------------------------------------------------------------------------
(* Steps and the sessions they work on.                                    *)

SessionSteps == PubkeySteps \cup KeySteps

\* Outside onboarding nothing is known of the session.
LEMMA NoSessionStep ==
  ASSUME NEW step, step \notin SessionSteps, NEW f, NEW ss
  PROVE  SessionAt(step, f, ss)
BY DEF SessionSteps, PubkeySteps, KeySteps, Proving, Proven, SessionAt

\* A thread that moves on within its session or ends its request, and changes
\* no session but its own.
LEMMA OwnSession ==
  ASSUME TypeInv, SessionInv, NEW t \in Threads, NEW step \in Steps, NEW f \in Frame,
         Call(t, step, f), SessionAt(step, f, sessions'), UnusedOK',
         f.sid \in {None, frame[t].sid},
         \A s \in Sids \ {frame[t].sid} : sessions'[s] = sessions[s]
  PROVE  SessionInv'
<1>1. /\ pc'[t] = step /\ frame'[t] = f
      /\ \A u \in Threads \ {t} : pc'[u] = pc[u] /\ frame'[u] = frame[u]
  BY DEF TypeInv, TypeOK, Call, Goto
<1>2. Exclusive'
  BY <1>1 DEF SessionInv, Exclusive
<1>3. ASSUME NEW u \in Threads PROVE SessionAt(pc'[u], frame'[u], sessions')
  <2>1. CASE u = t
    BY <1>1, <2>1
  <2>2. CASE u # t /\ pc[u] \notin SessionSteps
    BY <1>1, <2>2, NoSessionStep
  <2>3. CASE u # t /\ pc[u] \in SessionSteps
    <3>1. LocalsOK(pc[u], frame[u], sessions) /\ SessionAt(pc[u], frame[u], sessions)
      BY DEF TypeInv, FrameOK, SessionInv, StatesOK
    <3>2. frame[u].sid \in Sids
      BY <2>3, <3>1 DEF LocalsOK, SessionSteps
    <3>3. frame[u].sid # frame[t].sid
      BY <2>3, <3>2, NoneAssumption DEF SessionInv, Exclusive
    <3>4. sessions'[frame[u].sid] = sessions[frame[u].sid]
      BY <3>2, <3>3
    <3> QED BY <1>1, <2>3, <3>1, <3>4 DEF SessionAt
  <2> QED BY <2>1, <2>2, <2>3
<1> QED BY <1>2, <1>3 DEF SessionInv, StatesOK

\* Steps that leave the sessions and the onboarding requests alone.
SessionsAside == \A u \in Threads :
  /\ frame'[u].sid \in {None, frame[u].sid}
  /\ pc'[u] \in SessionSteps => pc'[u] = pc[u] /\ frame'[u] = frame[u]

\* Such steps preserve the invariant.
LEMMA ElsewhereSession ==
  ASSUME SessionInv, SessionsAside, UNCHANGED sessions
  PROVE  SessionInv'
<1>1. Exclusive' /\ UnusedOK'
  BY DEF SessionInv, Exclusive, UnusedOK, SessionsAside
<1>2. ASSUME NEW u \in Threads PROVE SessionAt(pc'[u], frame'[u], sessions')
  BY NoSessionStep DEF SessionInv, StatesOK, SessionsAside
<1> QED BY <1>1, <1>2 DEF SessionInv, StatesOK

\* No other request under way names session s.
AloneIn(t, s) == \A u \in Threads \ {t} : frame[u].sid # s

\* A request for such a session.
LEMMA OpenSession ==
  ASSUME TypeInv, SessionInv, NEW t \in Threads, NEW s \in Sids, AloneIn(t, s),
         NEW step \in Steps, NEW f \in Frame, f.sid = s,
         Call(t, step, f), SessionAt(step, f, sessions), UNCHANGED sessions
  PROVE  SessionInv'
<1>1. /\ pc'[t] = step /\ frame'[t] = f
      /\ \A u \in Threads \ {t} : pc'[u] = pc[u] /\ frame'[u] = frame[u]
  BY DEF TypeInv, TypeOK, Call, Goto
<1>3. Exclusive' /\ UnusedOK'
  BY <1>1 DEF AloneIn, SessionInv, Exclusive, UnusedOK
<1>4. StatesOK'
  BY <1>1 DEF SessionInv, StatesOK
<1> QED BY <1>3, <1>4 DEF SessionInv

-----------------------------------------------------------------------------
(* The steps of onboarding.                                                *)

\* A step that replaces the state or the challenge of its own session.
LEMMA SetSessionKeeps ==
  ASSUME TypeInv, SessionInv, NEW t \in Threads, frame[t].sid \in Sids,
         sessions[frame[t].sid].life # "unused",
         NEW new, SetSession(t, new), new.life = Sess(t).life
  PROVE  /\ UnusedOK' /\ sessions'[frame[t].sid] = new
         /\ \A s \in Sids \ {frame[t].sid} : sessions'[s] = sessions[s]
BY DEF TypeInv, TypeOK, SessionInv, UnusedOK, SetSession, Sess

\* Without a change of sessions the unused ones stay as they are.
LEMMA SameSessions ==
  ASSUME SessionInv, UNCHANGED sessions
  PROVE  UnusedOK' /\ \A s \in Sids : sessions'[s] = sessions[s]
BY DEF SessionInv, UnusedOK

\* The answer to a request.
LEMMA ReplySession ==
  ASSUME NEW ss
  PROVE  /\ NoFrame \in Frame /\ NoFrame.sid = None /\ "idle" \in Steps
         /\ SessionAt("idle", NoFrame, ss)
<1>1. "idle" \notin SessionSteps
  BY DEF SessionSteps, PubkeySteps, KeySteps
<1> QED BY <1>1, NoSessionStep, NoFrameType DEF NoFrame, Steps

\* /register/pubkey preserves the invariant.
LEMMA PubkeySession ==
  ASSUME TypeInv, SessionInv, NEW t \in Threads,
         PubkeyKnown(t) \/ PubkeyInUse(t) \/ PubkeyWrite(t)
  PROVE  SessionInv'
<1>1. /\ frame[t] \in Frame /\ frame[t].sid \in Sids /\ frame[t].did \in Dids
      /\ sessions[frame[t].sid].life # "unused" /\ pc[t] \in PubkeySteps
  BY DEF TypeInv, TypeOK, FrameOK, LocalsOK, PubkeySteps, PubkeyKnown, PubkeyInUse,
     PubkeyWrite, At
<1>2. \A step \in PubkeySteps : step \in Steps /\ SessionAt(step, frame[t], sessions)
  BY <1>1 DEF SessionInv, StatesOK, SessionAt, PubkeySteps, Proving, Proven, Steps
<1>3. CASE PubkeyKnown(t) \/ PubkeyInUse(t)
  <2>1. UNCHANGED sessions
    BY <1>3 DEF PubkeyKnown, PubkeyInUse
  <2>2. PICK step \in PubkeySteps \cup {"idle"} :
          \/ step = "idle" /\ Call(t, step, NoFrame)
          \/ step \in PubkeySteps /\ Call(t, step, frame[t])
    BY <1>3, GotoCall DEF PubkeyKnown, PubkeyInUse, Reply, PubkeySteps, TypeInv
  <2> QED BY <1>1, <1>2, <2>1, <2>2, SameSessions, ReplySession, OwnSession
<1>4. CASE PubkeyWrite(t)
  <2> DEFINE new == [issue_challenge(Sess(t)) EXCEPT
                       !.did = frame[t].did, !.state = "KEY_SUBMITTED"]
  <2>1. new.life = Sess(t).life
    BY <1>1, SessType DEF issue_challenge, Session, TypeInv
  <2>2. SetSession(t, new) /\ Call(t, "idle", NoFrame)
    BY <1>4 DEF PubkeyWrite, Reply
  <2> HIDE DEF new
  <2> QED BY <1>1, <2>1, <2>2, SetSessionKeeps, ReplySession, OwnSession
<1> QED BY <1>3, <1>4

\* /register/pop preserves the invariant: the state changes only in the steps
\* that end the proving, and only in the session of the request.
LEMMA PopSession ==
  ASSUME TypeInv, SessionInv, NEW t \in Threads,
         PopUsed(t) \/ PopVerify(t) \/ PopFail(t) \/ PopPass(t) \/ PopUpsert(t)
  PROVE  SessionInv'
<1>1. pc[t] \in KeySteps
  BY DEF PopUsed, PopVerify, PopFail, PopPass, PopUpsert, At, KeySteps
<1>2. /\ frame[t] \in Frame /\ frame[t].sid \in Sids /\ Sess(t) \in Session
      /\ sessions[frame[t].sid].life # "unused"
      /\ SessionAt(pc[t], frame[t], sessions)
  BY <1>1, KeyLocals DEF SessionInv, StatesOK
<1>3. CASE PopUsed(t)
  <2>1. PICK step \in {"pop_fail", "pop_verify"} : Call(t, step, frame[t])
    BY <1>3, GotoCall DEF PopUsed, TypeInv
  <2>2. SessionAt(step, frame[t], sessions) /\ step \in Steps /\ UNCHANGED sessions
    BY <1>2, <1>3, <2>1 DEF PopUsed, At, SessionAt, PubkeySteps, Proving, Proven, Steps
  <2> QED BY <1>2, <2>1, <2>2, SameSessions, OwnSession
<1>4. CASE PopVerify(t)
  <2> DEFINE new == [Sess(t) EXCEPT !.used = TRUE]
  <2>1. PICK step \in {"pop_fail", "pop_pass"} :
          Call(t, step, frame[t]) /\ (step = "pop_pass" => Verifies(t))
    BY <1>4, GotoCall DEF PopVerify, TypeInv
  <2>2. new.life = Sess(t).life /\ new.state = Sess(t).state /\ new.did = Sess(t).did
    BY <1>2 DEF Session
  <2>3. SetSession(t, new)
    BY <1>4 DEF PopVerify
  <2> HIDE DEF new
  <2>4. SessionAt(step, frame[t], sessions') /\ step \in Steps
    BY <1>2, <1>4, <2>1, <2>2, <2>3, SetSessionKeeps
       DEF PopVerify, At, SessionAt, PubkeySteps, Proving, Proven, Steps, Verifies, Sess
  <2> QED BY <1>2, <2>1, <2>2, <2>3, <2>4, SetSessionKeeps, OwnSession
<1>5. CASE PopFail(t)
  <2> DEFINE new == [Sess(t) EXCEPT !.state = "AUTHENTICATED"]
  <2>1. new.life = Sess(t).life
    BY <1>2 DEF Session
  <2>2. SetSession(t, new) /\ Call(t, "idle", NoFrame)
    BY <1>5 DEF PopFail, Reply
  <2> HIDE DEF new
  <2> QED BY <1>2, <2>1, <2>2, SetSessionKeeps, ReplySession, OwnSession
<1>6. CASE PopPass(t)
  <2> DEFINE new == [Sess(t) EXCEPT !.state = "POP_VERIFIED"]
  <2>1. Call(t, "pop_upsert", frame[t]) /\ SetSession(t, new)
    BY <1>6, GotoCall DEF PopPass, TypeInv
  <2>2. new.life = Sess(t).life /\ new.state = "POP_VERIFIED" /\ new.did = Sess(t).did
    BY <1>2 DEF Session
  <2> HIDE DEF new
  <2>3. SessionAt("pop_upsert", frame[t], sessions') /\ "pop_upsert" \in Steps
    BY <1>2, <1>6, <2>1, <2>2, SetSessionKeeps
       DEF PopPass, At, SessionAt, PubkeySteps, Proving, Proven, Steps, Sess
  <2> QED BY <1>2, <2>1, <2>2, <2>3, SetSessionKeeps, OwnSession
<1>7. CASE PopUpsert(t)
  BY <1>2, <1>7, SameSessions, ReplySession, OwnSession DEF PopUpsert, Reply
<1> QED BY <1>3, <1>4, <1>5, <1>6, <1>7

\* /register/metadata preserves the invariant.
LEMMA MetadataSession ==
  ASSUME TypeInv, SessionInv, NEW t \in Threads,
         MetaRecord(t) \/ MetaQueue(t) \/ MetaAccept(t) \/ MetaReply(t)
  PROVE  SessionInv'
<1>1. pc[t] \in KeySteps
  BY DEF MetaRecord, MetaQueue, MetaAccept, MetaReply, At, KeySteps
<1>2. /\ frame[t] \in Frame /\ frame[t].sid \in Sids /\ Sess(t) \in Session
      /\ sessions[frame[t].sid].life # "unused"
      /\ SessionAt(pc[t], frame[t], sessions)
  BY <1>1, KeyLocals DEF SessionInv, StatesOK
<1>3. CASE MetaRecord(t) \/ MetaQueue(t)
  <2>1. UNCHANGED sessions
    BY <1>3 DEF MetaRecord, MetaQueue
  <2>2. PICK step \in {"meta_queue", "meta_accept", "idle"} :
          \/ step = "idle" /\ Call(t, step, NoFrame)
          \/ step # "idle" /\ Call(t, step, frame[t])
    BY <1>3, GotoCall DEF MetaRecord, MetaQueue, Reply, TypeInv
  <2>3. step # "idle" => SessionAt(step, frame[t], sessions) /\ step \in Steps
    BY <1>2, <1>3, <2>2
       DEF MetaRecord, MetaQueue, At, SessionAt, PubkeySteps, Proving, Proven, Steps
  <2> QED BY <1>2, <2>1, <2>2, <2>3, SameSessions, ReplySession, OwnSession
<1>4. CASE MetaAccept(t)
  <2> DEFINE new == [Sess(t) EXCEPT !.state = "METADATA_ACCEPTED"]
  <2>1. new.life = Sess(t).life
    BY <1>2 DEF Session
  <2>2. SetSession(t, new) /\ Call(t, "meta_reply", frame[t])
    BY <1>4, GotoCall DEF MetaAccept, TypeInv
  <2>3. new.state = "METADATA_ACCEPTED" /\ "meta_reply" \in Steps
    BY <1>2 DEF Session, Steps
  <2> HIDE DEF new
  <2>4. SessionAt("meta_reply", frame[t], sessions')
    BY <1>2, <2>2, <2>3 DEF SetSession, TypeInv, TypeOK, SessionAt, PubkeySteps, Proving, Proven
  <2> QED BY <1>2, <2>1, <2>2, <2>3, <2>4, SetSessionKeeps, OwnSession
<1>5. CASE MetaReply(t)
  BY <1>2, <1>5, SameSessions, ReplySession, OwnSession DEF MetaReply, Reply
<1> QED BY <1>3, <1>4, <1>5

\* A session that begins or ends.
LEMMA SessionLifeSession ==
  ASSUME TypeInv, SessionInv, NEW t \in Threads, NEW s \in Sids,
         RegisterStart(t, s) \/ SessionGone(t, s)
  PROVE  SessionInv'
<1>1. /\ sessions \in [Sids -> Session] /\ UNCHANGED <<pc, frame>>
      /\ \A z \in Sids \ {s} : sessions'[z] = sessions[z]
  BY DEF RegisterStart, SessionGone, TypeInv, TypeOK
<1>2. \/ sessions[s].life = "unused" /\ sessions'[s].life # "unused"
      \/ /\ sessions'[s].life # "unused" /\ sessions'[s].state = sessions[s].state
         /\ sessions'[s].did = sessions[s].did
  <2>1. CASE RegisterStart(t, s)
    BY <1>1, <2>1 DEF RegisterStart, NewSession
  <2>2. CASE SessionGone(t, s)
    BY <1>1, <2>2 DEF SessionGone, Session
  <2> QED BY <2>1, <2>2
<1>3. UnusedOK' /\ Exclusive'
  BY <1>1, <1>2 DEF SessionInv, UnusedOK, Exclusive
<1>4. ASSUME NEW u \in Threads PROVE SessionAt(pc'[u], frame'[u], sessions')
  <2>1. CASE pc[u] \notin SessionSteps
    BY <1>1, <2>1, NoSessionStep
  <2>2. CASE pc[u] \in SessionSteps
    <3>1. frame[u].sid \in Sids /\ sessions[frame[u].sid].life # "unused"
      BY <2>2 DEF TypeInv, FrameOK, LocalsOK, SessionSteps
    <3>2. /\ sessions'[frame[u].sid].state = sessions[frame[u].sid].state
          /\ sessions'[frame[u].sid].did = sessions[frame[u].sid].did
      BY <1>1, <1>2, <3>1
    <3> QED BY <1>1, <3>2 DEF SessionInv, StatesOK, SessionAt
  <2> QED BY <2>1, <2>2
<1> QED BY <1>3, <1>4 DEF SessionInv, StatesOK

\* The arrival of an onboarding request.
LEMMA KeyRequestSession ==
  ASSUME TypeInv, SessionInv, NEW t \in Threads, NEW s \in Sids, AloneIn(t, s),
         \/ \E d \in Dids : RegisterPubkey(t, s, d)
         \/ RegisterPop(t, s)
         \/ \E roleOk \in BOOLEAN : RegisterMetadata(t, s, roleOk)
  PROVE  SessionInv'
<1>1. ASSUME NEW d \in Dids, RegisterPubkey(t, s, d) PROVE SessionInv'
  <2> DEFINE f == [NoFrame EXCEPT !.sid = s, !.did = d]
  <2>1. f \in Frame /\ f.sid = s
    BY DEF NoFrame, Frame
  <2>2. Call(t, "pubkey_known", f) /\ UNCHANGED sessions /\ Open(s)
        /\ sessions[s].state = "AUTHENTICATED"
    BY <1>1 DEF RegisterPubkey, Require
  <2> HIDE DEF f
  <2>3. SessionAt("pubkey_known", f, sessions) /\ "pubkey_known" \in Steps
    BY <2>1, <2>2 DEF SessionAt, Proving, Proven, Steps
  <2> QED BY <2>1, <2>2, <2>3, OpenSession
<1>2. ASSUME RegisterPop(t, s) PROVE SessionInv'
  <2>1. sessions[s] \in Session /\ sessions[s].did \in Dids /\ sessions[s].chal \in Nat
    BY <1>2 DEF TypeInv, TypeOK, SessionDid, RegisterPop, Require, Session
  <2>2. PICK f \in Frame : f.sid = s /\ Call(t, "pop_used", f)
    BY <1>2, <2>1 DEF RegisterPop, NoFrame, Frame
  <2>3. SessionAt("pop_used", f, sessions) /\ "pop_used" \in Steps
    BY <1>2, <2>2 DEF RegisterPop, Require, SessionAt, PubkeySteps, Proven, Steps
  <2> QED BY <1>2, <2>2, <2>3, OpenSession DEF RegisterPop
<1>3. ASSUME NEW roleOk \in BOOLEAN, RegisterMetadata(t, s, roleOk)
      PROVE  SessionInv'
  <2> DEFINE f == [NoFrame EXCEPT !.sid = s, !.roleOk = roleOk]
  <2>1. f \in Frame /\ f.sid = s
    BY DEF NoFrame, Frame
  <2>2. Call(t, "meta_record", f) /\ UNCHANGED sessions /\ Open(s)
        /\ sessions[s].state = "POP_VERIFIED"
    BY <1>3 DEF RegisterMetadata, Require
  <2> HIDE DEF f
  <2>3. SessionAt("meta_record", f, sessions) /\ "meta_record" \in Steps
    BY <2>1, <2>2 DEF SessionAt, PubkeySteps, Proving, Steps
  <2> QED BY <2>1, <2>2, <2>3, OpenSession
<1> QED BY <1>1, <1>2, <1>3

-----------------------------------------------------------------------------
(* Everything else.                                                        *)

\* A thread that closes an epoch, hands out a proof, issues or revokes leaves
\* the sessions alone.
LEMMA OtherStepSession ==
  ASSUME TypeInv, SessionInv, NEW t \in Threads, Closing(t) \/ Issuing(t)
  PROVE  SessionInv'
<1>1. TypeOK /\ UNCHANGED sessions
  BY DEF TypeInv, Closing, CloseAcquire, CloseRevoked, CloseCollect, CloseAnchor, CloseUpdate,
     CloseFinish, ProofReply, Issuing, IssueKnown, IssueEligible, IssueRecord, IssueStatus,
     RevokeList, RevokeTokens, notEpoch, notToken
<1>2. frame'[t].sid \in {None, frame[t].sid} /\ pc'[t] \notin SessionSteps
  <2> USE <1>1 DEF TypeOK, Frame, Goto, Call, SessionSteps, PubkeySteps, KeySteps, At
  <2>1. CASE CloseAcquire(t) \/ CloseRevoked(t) \/ CloseUpdate(t)
    BY <2>1 DEF CloseAcquire, CloseRevoked, CloseUpdate
  <2>2. CASE CloseCollect(t) \/ CloseFinish(t)
    BY <2>2 DEF CloseCollect, CloseFinish, Release, NoFrame
  <2>3. CASE CloseAnchor(t)
    BY <2>3 DEF CloseAnchor, Saved, NotSaved, Raise, Release, NoFrame
  <2>4. CASE ProofReply(t)
    BY <2>4 DEF ProofReply, Reply, NoFrame
  <2>5. CASE IssueKnown(t) \/ IssueEligible(t) \/ IssueRecord(t) \/ IssueStatus(t)
    BY <2>5 DEF IssueKnown, IssueEligible, IssueRecord, IssueStatus, Reply, NoFrame
  <2>6. CASE RevokeList(t) \/ RevokeTokens(t)
    BY <2>6 DEF RevokeList, RevokeTokens, Reply, NoFrame
  <2> QED BY <2>1, <2>2, <2>3, <2>4, <2>5, <2>6 DEF Closing, Issuing
<1>3. \A u \in Threads \ {t} : pc'[u] = pc[u] /\ frame'[u] = frame[u]
  <2> USE <1>1 DEF TypeOK, Goto, Call
  <2>1. CASE Closing(t)
    BY <2>1 DEF Closing, CloseAcquire, CloseRevoked, CloseCollect, CloseAnchor, CloseUpdate,
       CloseFinish, ProofReply, Saved, NotSaved, Raise, Release, Reply
  <2>2. CASE Issuing(t)
    BY <2>2 DEF Issuing, IssueKnown, IssueEligible, IssueRecord, IssueStatus, RevokeList,
       RevokeTokens, Reply
  <2> QED BY <2>1, <2>2
<1> QED BY <1>1, <1>2, <1>3, ElsewhereSession DEF SessionsAside

\* Requests that name no session.
LEMMA OtherRequestSession ==
  ASSUME TypeInv, SessionInv, NEW t \in Threads,
         \/ EpochRequest(t) \/ AutoClose(t)
         \/ \E d \in Dids : \/ \E extra \in {{}} \cup {{k} : k \in Tokens} : Revoke(t, d, extra)
                            \/ \E k \in Tokens : RevokeToken(t, d, k)
  PROVE  SessionInv'
<1>1. ASSUME NEW step, step \notin SessionSteps, NEW f, f.sid = None, Call(t, step, f),
             UNCHANGED sessions
      PROVE  SessionInv'
  BY <1>1, ElsewhereSession DEF SessionsAside, Call, Goto, TypeInv, TypeOK
<1>2. CASE EpochRequest(t) \/ AutoClose(t)
  BY <1>1, <1>2 DEF EpochRequest, EpochClose, GetProof, AutoClose, NoFrame, notEpoch,
     SessionSteps, PubkeySteps, KeySteps
<1>3. ASSUME NEW d \in Dids, NEW extra \in {{}} \cup {{k} : k \in Tokens}, Revoke(t, d, extra)
      PROVE  SessionInv'
  BY <1>1, <1>3 DEF Revoke, notToken, NoFrame, SessionSteps, PubkeySteps, KeySteps
<1>4. ASSUME NEW d \in Dids, NEW k \in Tokens, RevokeToken(t, d, k) PROVE SessionInv'
  BY <1>4, ElsewhereSession DEF RevokeToken, notToken, SessionsAside
<1> QED BY <1>2, <1>3, <1>4

\* A request for a token.
LEMMA IssueRequestSession ==
  ASSUME TypeInv, SessionInv, NEW t \in Threads, NEW s \in Sids, AloneIn(t, s), TokensIssue(t, s)
  PROVE  SessionInv'
<1>1. PICK k \in FreshTokens :
        Call(t, "issue_known", [NoFrame EXCEPT !.sid = s, !.tok = k, !.did = sessions[s].did])
  BY DEF TokensIssue
<1> DEFINE f == [NoFrame EXCEPT !.sid = s, !.tok = k, !.did = sessions[s].did]
<1>2. sessions[s].did \in Dids
  BY DEF TypeInv, SessionDid, TokensIssue
<1>3. f \in Frame /\ f.sid = s
  BY <1>1, <1>2 DEF FreshTokens, NoFrame, Frame
<1>4. Call(t, "issue_known", f)
  BY <1>1
<1> HIDE DEF f
<1>5. SessionAt("issue_known", f, sessions) /\ "issue_known" \in Steps
  BY DEF SessionAt, PubkeySteps, Proving, Proven, Steps
<1> QED BY <1>3, <1>4, <1>5, OpenSession DEF TokensIssue, notToken

\* A session that expires keeps its state.
LEMMA ExpirySession ==
  ASSUME TypeInv, SessionInv, NEW s \in Sids, SessionExpires(s) PROVE SessionInv'
<1>1. /\ UNCHANGED <<pc, frame>>
      /\ \A z \in Sids : /\ sessions'[z].state = sessions[z].state
                         /\ sessions'[z].did = sessions[z].did
                         /\ sessions'[z].life = "unused" => sessions[z].life = "unused"
  BY DEF SessionExpires, TypeInv, TypeOK, Session
<1>2. UnusedOK' /\ Exclusive'
  BY <1>1 DEF SessionInv, UnusedOK, Exclusive
<1>3. ASSUME NEW u \in Threads PROVE SessionAt(pc'[u], frame'[u], sessions')
  <2>1. CASE pc[u] \notin SessionSteps
    BY <1>1, <2>1, NoSessionStep
  <2>2. CASE pc[u] \in SessionSteps
    <3>1. frame[u].sid \in Sids
      BY <2>2 DEF TypeInv, FrameOK, LocalsOK, SessionSteps
    <3> QED BY <1>1, <3>1 DEF SessionInv, StatesOK, SessionAt
  <2> QED BY <2>1, <2>2
<1> QED BY <1>2, <1>3 DEF SessionInv, StatesOK

\* After a restart no request is under way and every session is at its start.
LEMMA RestartSession ==
  ASSUME TypeInv, SessionInv, Restart PROVE SessionInv'
<1>1. /\ \A u \in Threads : pc'[u] = "idle" /\ frame'[u] = NoFrame
      /\ \A s \in Sids : sessions'[s].state = "AUTHENTICATED"
  BY DEF Restart, AllIdle, NoFrames, SessionInv, UnusedOK, NewSession
<1>2. UnusedOK' /\ Exclusive'
  BY <1>1 DEF UnusedOK, Exclusive, NoFrame
<1>3. StatesOK'
  BY <1>1, ReplySession DEF StatesOK
<1> QED BY <1>2, <1>3 DEF SessionInv

\* So it is when the fog node starts for the first time.
LEMMA InitSession == Init => SessionInv
<1> SUFFICES ASSUME Init PROVE SessionInv
  OBVIOUS
<1>1. /\ \A u \in Threads : pc[u] = "idle" /\ frame[u] = NoFrame
      /\ \A s \in Sids : sessions[s].state = "AUTHENTICATED"
  BY DEF Init, AllIdle, NoFrames, NewSession
<1>2. UnusedOK /\ Exclusive
  BY <1>1 DEF UnusedOK, Exclusive, NoFrame
<1>3. StatesOK
  BY <1>1, ReplySession DEF StatesOK
<1> QED BY <1>2, <1>3 DEF SessionInv

\* Every step preserves the invariant.
LEMMA NextSession ==
  ASSUME OneRequestPerSession PROVE TypeInv /\ SessionInv /\ [Next]_vars => SessionInv'
<1> SUFFICES ASSUME TypeInv, SessionInv, [Next]_vars PROVE SessionInv'
  OBVIOUS
<1>1. ASSUME NEW t \in Threads, Step(t) PROVE SessionInv'
  BY <1>1, PubkeySession, PopSession, MetadataSession, OtherStepSession DEF Step, Registering
<1>2. ASSUME NEW t \in Threads, Request(t) \/ AutoClose(t) PROVE SessionInv'
  <2>1. ASSUME NEW s \in Sids, Open(s), Idle(t) PROVE AloneIn(t, s)
    BY <2>1 DEF OneRequestPerSession, Open, AloneIn
  <2>2. CASE RegistrationRequest(t)
    BY <2>1, <2>2, SessionLifeSession, KeyRequestSession
       DEF RegistrationRequest, RegisterPubkey, RegisterPop, RegisterMetadata
  <2>3. CASE EpochRequest(t) \/ AutoClose(t)
    BY <2>3, OtherRequestSession
  <2>4. CASE TokenRequest(t)
    BY <2>1, <2>4, OtherRequestSession, IssueRequestSession DEF TokenRequest, TokensIssue
  <2> QED BY <1>2, <2>2, <2>3, <2>4 DEF Request
<1>3. ASSUME NEW s \in Sids, SessionExpires(s) PROVE SessionInv'
  BY <1>3, ExpirySession
<1>4. CASE Restart
  BY <1>4, RestartSession
<1>5. CASE UNCHANGED vars
  BY <1>5, ElsewhereSession DEF vars, fogVars, SessionsAside
<1> QED BY <1>1, <1>2, <1>3, <1>4, <1>5 DEF Next, Quiet

\* The invariant holds always.
LEMMA SessionInvariant ==
  ASSUME OneRequestPerSession PROVE Spec => [](TypeInv /\ SessionInv)
<1>1. Init => TypeInv /\ SessionInv
  BY InitTypes, InitSession
<1>2. (TypeInv /\ SessionInv) /\ [Next]_vars => (TypeInv /\ SessionInv)'
  BY NextTypes, NextSession
<1> QED BY <1>1, <1>2, PTL DEF Spec

-----------------------------------------------------------------------------
(* What the invariant gives.                                               *)

\* Only /register/pop creates a record, in its last step.
LEMMA OnlyUpsertCreates ==
  ASSUME TypeInv, [Next]_vars, NEW d \in Dids, ~Known(d), Known(d)'
  PROVE  \E t \in Threads : PopUpsert(t) /\ Sess(t).did = d
<1>1. ASSUME NEW t \in Threads, PopUpsert(t) PROVE Sess(t).did = d
  BY <1>1 DEF TypeInv, TypeOK, PopUpsert, Known
<1>2. ASSUME NEW t \in Threads, Registering(t), ~PopUpsert(t) PROVE FALSE
  BY <1>2 DEF TypeInv, TypeOK, Registering, PubkeyKnown, PubkeyInUse, PubkeyWrite, PopUsed,
     PopVerify, PopFail, PopPass, MetaRecord, MetaQueue, MetaAccept, MetaReply, Known
<1>3. ASSUME NEW t \in Threads, Closing(t) \/ Issuing(t) PROVE FALSE
  BY <1>3 DEF TypeInv, TypeOK, Closing, CloseAcquire, CloseRevoked, CloseCollect, CloseAnchor,
     CloseUpdate, CloseFinish, ProofReply, Issuing, IssueKnown, IssueEligible, IssueRecord,
     IssueStatus, RevokeList, RevokeTokens, Register, set_status, Known
<1>4. ASSUME NEW t \in Threads, Request(t) \/ AutoClose(t) PROVE FALSE
  BY <1>4 DEF TypeInv, TypeOK, Request, RegistrationRequest, RegisterStart, SessionGone,
     RegisterPubkey, RegisterPop, RegisterMetadata, EpochRequest, EpochClose, GetProof,
     TokenRequest, TokensIssue, Revoke, RevokeToken, AutoClose, set_status, Known
<1>5. ASSUME NEW s \in Sids, SessionExpires(s) PROVE FALSE
  BY <1>5 DEF SessionExpires, Known
<1>6. CASE Restart
  BY <1>6 DEF Restart, NoRecords, Known
<1>7. CASE UNCHANGED vars
  BY <1>7 DEF vars, fogVars, Known
<1> QED BY <1>1, <1>2, <1>3, <1>4, <1>5, <1>6, <1>7 DEF Next, Quiet, Step

\* A record is created only for the DID whose key signed the challenge, with
\* any number of worker threads, as long as the requests of one session do not
\* overlap.
THEOREM PossessionIsProven ==
  ASSUME OneRequestPerSession PROVE Spec => PossessionProven
<1>1. TypeInv /\ SessionInv /\ [Next]_vars =>
        [\A d \in Dids : ~Known(d) /\ Known(d)'
           => \E t \in Threads : At(t, "pop_upsert") /\ frame[t].did = d]_vars
  <2> SUFFICES ASSUME TypeInv, SessionInv, [Next]_vars,
                      NEW d \in Dids, ~Known(d), Known(d)'
               PROVE  \E t \in Threads : At(t, "pop_upsert") /\ frame[t].did = d
    OBVIOUS
  <2>1. PICK t \in Threads : PopUpsert(t) /\ Sess(t).did = d
    BY OnlyUpsertCreates
  <2> QED BY <2>1 DEF PopUpsert, At, SessionInv, StatesOK, SessionAt, Sess
<1> QED BY <1>1, SessionInvariant, PTL DEF Spec, PossessionProven

\* Only the request that is handling a session changes its state.
LEMMA OnlyHandlerMoves ==
  ASSUME TypeInv, SessionInv, [Next]_vars, NEW s \in Sids,
         sessions'[s].state # sessions[s].state, sessions'[s].life # "gone"
  PROVE  \E t \in Threads : /\ frame[t].sid = s
                            /\ \/ PubkeyWrite(t) \/ PopFail(t)
                               \/ PopPass(t) \/ MetaAccept(t)
<1>1. TypeOK
  BY DEF TypeInv
<1>2. ASSUME NEW t \in Threads, PubkeyWrite(t) \/ PopFail(t) \/ PopPass(t) \/ MetaAccept(t)
      PROVE  frame[t].sid = s
  BY <1>1, <1>2 DEF TypeOK, PubkeyWrite, PopFail, PopPass, MetaAccept, SetSession
<1>3. ASSUME NEW t \in Threads, PopVerify(t) PROVE FALSE
  <2>1. pc[t] \in KeySteps
    BY <1>3 DEF PopVerify, At, KeySteps
  <2>2. Sess(t) \in Session /\ frame[t].sid \in Sids
    BY <2>1, KeyLocals
  <2> DEFINE new == [Sess(t) EXCEPT !.used = TRUE]
  <2>3. new.state = Sess(t).state /\ sessions' = [sessions EXCEPT ![frame[t].sid] = new]
    BY <1>3, <2>2 DEF Session, PopVerify, SetSession
  <2> HIDE DEF new
  <2> QED BY <1>1, <2>2, <2>3 DEF TypeOK, Sess
<1>4. ASSUME NEW t \in Threads,
             \/ PubkeyKnown(t) \/ PubkeyInUse(t) \/ PopUsed(t) \/ PopUpsert(t)
             \/ MetaRecord(t) \/ MetaQueue(t) \/ MetaReply(t) \/ Closing(t) \/ Issuing(t)
             \/ EpochRequest(t) \/ TokenRequest(t) \/ AutoClose(t)
      PROVE  FALSE
  BY <1>4 DEF PubkeyKnown, PubkeyInUse, PopUsed, PopUpsert, MetaRecord, MetaQueue, MetaReply,
     Closing, CloseAcquire, CloseRevoked, CloseCollect, CloseAnchor, CloseUpdate, CloseFinish,
     ProofReply, Issuing, IssueKnown, IssueEligible, IssueRecord, IssueStatus, RevokeList,
     RevokeTokens, EpochRequest, EpochClose, GetProof, TokenRequest, TokensIssue, Revoke,
     RevokeToken, AutoClose, notEpoch, notToken
<1>5. ASSUME NEW t \in Threads, RegistrationRequest(t) PROVE FALSE
  <2>1. PICK z \in Sids : RegisterStart(t, z) \/ SessionGone(t, z)
    BY <1>5 DEF RegistrationRequest, RegisterPubkey, RegisterPop, RegisterMetadata
  <2>2. CASE RegisterStart(t, z)
    <3>1. NewSession.state = "AUTHENTICATED"
      BY DEF NewSession
    <3> QED BY <1>1, <2>2, <3>1 DEF RegisterStart, TypeOK, SessionInv, UnusedOK
  <2>3. CASE SessionGone(t, z)
    BY <1>1, <2>3 DEF SessionGone, TypeOK, Session
  <2> QED BY <2>1, <2>2, <2>3
<1>6. ASSUME NEW z \in Sids, SessionExpires(z) PROVE FALSE
  BY <1>1, <1>6 DEF SessionExpires, TypeOK, Session
<1>7. CASE Restart
  BY <1>7 DEF Restart, NewSession
<1>8. CASE UNCHANGED vars
  BY <1>8 DEF vars, fogVars
<1> QED BY <1>2, <1>3, <1>4, <1>5, <1>6, <1>7, <1>8 DEF Next, Quiet, Step, Registering, Request

\* A session goes through its states in order, whatever other sessions, tokens
\* and closings do, as long as its own requests do not overlap; a failed proof
\* of possession alone sends it back.
THEOREM SessionsMoveInOrder ==
  ASSUME OneRequestPerSession PROVE Spec => SessionOrder
<1>1. TypeInv /\ SessionInv /\ [Next]_vars =>
        [\A s \in Sids :
           LET from == sessions[s].state  to == sessions'[s].state
           IN  \/ sessions'[s].life = "gone"
               \/ Rank(to) \in {Rank(from), Rank(from) + 1}
               \/ from = "KEY_SUBMITTED" /\ to = "AUTHENTICATED"]_vars
  <2> SUFFICES ASSUME TypeInv, SessionInv, [Next]_vars, NEW s \in Sids,
                      sessions'[s].state # sessions[s].state, sessions'[s].life # "gone"
               PROVE  LET from == sessions[s].state  to == sessions'[s].state
                      IN  \/ Rank(to) \in {Rank(from), Rank(from) + 1}
                          \/ from = "KEY_SUBMITTED" /\ to = "AUTHENTICATED"
    OBVIOUS
  <2>1. PICK t \in Threads : /\ frame[t].sid = s
                             /\ \/ PubkeyWrite(t) \/ PopFail(t)
                                \/ PopPass(t) \/ MetaAccept(t)
    BY OnlyHandlerMoves
  <2>2. sessions[s] \in Session /\ Sess(t) = sessions[s] /\ sessions \in [Sids -> Session]
    BY <2>1 DEF TypeInv, TypeOK, Sess
  <2>3. CASE PubkeyWrite(t)
    <3> DEFINE new == [issue_challenge(Sess(t)) EXCEPT
                         !.did = frame[t].did, !.state = "KEY_SUBMITTED"]
    <3>1. new.state = "KEY_SUBMITTED" /\ sessions' = [sessions EXCEPT ![s] = new]
      BY <2>1, <2>2, <2>3 DEF PubkeyWrite, SetSession, issue_challenge, Session
    <3> HIDE DEF new
    <3>2. sessions[s].state = "AUTHENTICATED"
      BY <2>1, <2>3 DEF PubkeyWrite, At, SessionInv, StatesOK, SessionAt, PubkeySteps
    <3> QED BY <2>2, <3>1, <3>2 DEF Rank
  <2>4. CASE PopFail(t)
    BY <2>1, <2>2, <2>4 DEF PopFail, At, SetSession, Session, SessionInv, StatesOK, SessionAt,
       Proving
  <2>5. CASE PopPass(t)
    BY <2>1, <2>2, <2>5 DEF PopPass, At, SetSession, Session, SessionInv, StatesOK, SessionAt,
       Proving, Rank
  <2>6. CASE MetaAccept(t)
    BY <2>1, <2>2, <2>6 DEF MetaAccept, At, SetSession, Session, SessionInv, StatesOK,
       SessionAt, Proven, Rank
  <2> QED BY <2>1, <2>3, <2>4, <2>5, <2>6
<1> QED BY <1>1, SessionInvariant, PTL DEF Spec, SessionOrder
=============================================================================
