--------------------------- MODULE DevicesProofs ----------------------------
(***************************************************************************)
(* The device programs against the whole fog node: no record is ever       *)
(* replaced, and what register() told a device stays true, for any number  *)
(* of devices and worker threads, though programs give up on requests the  *)
(* fog goes on with and start again with the same key.  Nothing is assumed *)
(* of the clients but the order of the calls in devices/device.py.         *)
(***************************************************************************)
EXTENDS Devices, FogSessionProofs, FogLedgerProofs

\* Steps of a handler for which a device may be waiting.
PopSteps == {"pop_used", "pop_verify", "pop_fail", "pop_pass", "pop_upsert"}
MetaSteps == {"meta_record", "meta_queue", "meta_accept", "meta_reply"}

\* Calls a program makes in its session, and where it is after register().
SessionCalls == {"pubkey", "pop", "metadata", "token"}
Later == {"token", "provisional", "fetch", "access", "served"}

\* The programs' type; the process does not restart here.
ProgramOK == program \in [Dids -> Program] /\ crashes = 0

-----------------------------------------------------------------------------
(* Programs and the threads that serve them.                               *)

\* The thread at step, with locals f, works on what the program p of d asked for.
Serves(p, d, step, f) ==
  \/ p.step = "pubkey" /\ step \in PubkeySteps /\ f.sid = p.sid /\ f.did = d
  \/ p.step = "pop" /\ step \in PopSteps /\ f.sid = p.sid
  \/ p.step = "metadata" /\ step \in MetaSteps /\ f.sid = p.sid
  \/ p.step = "token" /\ step \in IssueSteps /\ f.sid = p.sid /\ f.did = d
  \/ p.step = "fetch" /\ step = "proof_package" /\ f.did = d

\* Whoever waits is being served.
ServesOK == \A d \in Dids :
  /\ \A t \in Threads : program[d].worker = t => Serves(program[d], d, pc[t], frame[t])
  /\ program[d].worker \in Visitors => program[d].step \in {"provisional", "access"}

\* Every session belongs to one program.
SidsOK ==
  /\ \A d \in Dids : program[d].step \in SessionCalls => program[d].sid \in Sids
  /\ \A d \in Dids : program[d].sid # None => sessions[program[d].sid].life # "unused"
  /\ \A t \in Threads : frame[t].sid # None => sessions[frame[t].sid].life # "unused"
  /\ \A d, e \in Dids : program[d].sid # None /\ program[d].sid = program[e].sid => d = e

\* A program makes one call at a time in its session.
OneCall == \A d \in Dids, t \in Threads :
  program[d].step \in SessionCalls /\ frame[t].sid = program[d].sid => program[d].worker = t

\* The key it submits there is its own.
KeysOK == \A d \in Dids : program[d].sid # None =>
  /\ sessions[program[d].sid].state # "AUTHENTICATED" => sessions[program[d].sid].did = d
  /\ \A t \in Threads : pc[t] \in PubkeySteps /\ frame[t].sid = program[d].sid => frame[t].did = d

CallsOK == ServesOK /\ SidsOK /\ OneCall /\ KeysOK

-----------------------------------------------------------------------------
(* Who may still create a record.                                          *)

\* A proof of possession that has not failed yet.
Winning(t) == pc[t] \in {"pop_used", "pop_verify", "pop_pass", "pop_upsert"}

\* The device has no record and none is on its way.
Unclaimed(d) == ~Known(d) /\ \A t \in Threads : ~(Winning(t) /\ Sess(t).did = d)

\* Another session than the program's, a former one, has proven the key.
Claimed(d) == \E s \in Sids \ {program[d].sid} :
  Stored(s) /\ sessions[s].did = d /\ sessions[s].state \in {"POP_VERIFIED", "METADATA_ACCEPTED"}

\* One proof of possession per key, and none for a key that has a record; a
\* program's next one is for a free key, and did_in_use sees those that are not.
ClaimsOK ==
  /\ \A t \in Threads : Winning(t) => Stored(frame[t].sid) /\ ~Known(Sess(t).did)
  /\ \A t, u \in Threads : Winning(t) /\ Winning(u) /\ Sess(t).did = Sess(u).did => t = u
  /\ \A d \in Dids : Calling(d, "pop") => Unclaimed(d)
  /\ \A d \in Dids, t \in Threads : program[d].worker = t =>
       /\ pc[t] = "pubkey_write" => Unclaimed(d)
       /\ pc[t] = "pubkey_in_use" /\ Known(d) => Claimed(d)

-----------------------------------------------------------------------------
(* What becomes of a queued device.                                        *)

\* Its epoch is committed, it was revoked, or a token was issued to it.
Settled(d) == latest_package[d] # None \/ d \in by_status("REVOKED") \/ HasToken(d)

\* What finalize_epoch drops from the batch, or has taken from it, is settled.
ClosingAt(t) ==
  /\ pc[t] \in {"close_acquire", "close_revoked"} => frame[t].dids = {}
  /\ pc[t] = "close_collect" => \A d \in frame[t].dids : Settled(d)
  /\ pc[t] \in {"close_anchor", "close_update"} => \A d \in pending \ frame[t].dids : Settled(d)
  /\ pc[t] = "close_update" => \A d \in frame[t].dids \ frame[t].todo : latest_package[d] # None

\* A token id is for one request.
FreshAt(t) ==
  /\ pc[t] \in {"issue_known", "issue_eligible", "issue_record"} => issued[frame[t].tok] = None
  /\ pc[t] = "issue_status" => issued[frame[t].tok] = frame[t].did
  /\ pc[t] \in IssueSteps => \A u \in Threads \ {t} : frame[u].tok # frame[t].tok

FogQueue == \A t \in Threads : ClosingAt(t) /\ FreshAt(t)

\* A device that was told its leaf is queued, or is about to be.
Queued(d) == d \in pending \/ Settled(d)
Accepting(t) == pc[t] \in {"meta_accept", "meta_reply"}
Hears(d) == d \in Onboarded \/ \E t \in Threads : program[d].worker = t /\ Accepting(t)

HeardOK == \A d \in Dids : Hears(d) => Queued(d)

\* The inductive invariant.
DevicesInv == /\ TypeInv /\ LedgerInv /\ SessionInv
              /\ ProgramOK /\ CallsOK /\ ClaimsOK
              /\ FogQueue /\ HeardOK

-----------------------------------------------------------------------------
(* What a step of the fog does.                                            *)

\* A fresh value is one of the fresh ones.
LEMMA DrawnIsFresh == ASSUME NEW S, NEW x \in Drawn(S) PROVE x \in S
BY DEF Drawn

\* The requests and events that meet the fog here.
Traffic ==
  \/ \E t \in Threads : \/ Step(t) \/ AutoClose(t) \/ RegistrationRequest(t)
                        \/ \E d \in Dids : GetProof(t, d) \/ Revoke(t, d, {})
                        \/ \E s \in Sids : TokensIssue(t, s)
  \/ \E s \in Sids : SessionExpires(s)
  \/ UNCHANGED vars

\* Access requests leave the node alone.
LEMMA AccessAside == ASSUME NEW v \in Visitors, AccessStep(v) PROVE UNCHANGED vars
BY DEF AccessStep, Consume, BlacklistCheck, DeviceCheck, ScopeCheck, ProofCheck, StatusCheck,
   RegisteredCheck, RoleCheck, PolicyCheck, ProvisionalGrant, FullGrant, Check, Allow, Deny

\* What a program calls is a request of the fog.
LEMMA CallTraffic ==
  ASSUME ProgramOK, SidsOK, NEW d \in Dids, NEW t \in FreeWorkers, CallFog(d, t)
  PROVE  Traffic
<1>1. t \in Threads
  BY DrawnIsFresh DEF FreeWorkers
<1>2. CASE register_start(d, t)
  BY <1>1, <1>2, DrawnIsFresh DEF register_start, Traffic, RegistrationRequest
<1>3. CASE fetch_proof(d, t)
  BY <1>1, <1>3 DEF fetch_proof, Traffic
<1>4. CASE \/ submit_public_key(d, t) \/ prove_possession(d, t) \/ submit_metadata(d, t)
           \/ SessionLost(d, t) \/ request_token(d, t)
  <2>1. program[d].sid \in Sids
    BY <1>4 DEF submit_public_key, prove_possession, submit_metadata, SessionLost,
       request_token, Calling, SidsOK, SessionCalls
  <2> QED BY <1>1, <1>4, <2>1 DEF submit_public_key, prove_possession, submit_metadata,
          SessionLost, request_token, Traffic, RegistrationRequest
<1> QED BY <1>2, <1>3, <1>4 DEF CallFog

\* Every step of the composition is one of the fog's, or leaves it alone.
LEMMA NextTraffic ==
  ASSUME ProgramOK, SidsOK, [DevicesNext]_allVars PROVE Traffic
<1>1. ASSUME NEW d \in Dids, DeviceStep(d) PROVE Traffic
  BY <1>1, CallTraffic DEF DeviceStep
<1>2. ASSUME NEW d \in Dids, AccessCall(d) \/ GiveUp(d) \/ Rerun(d) PROVE UNCHANGED vars
  BY <1>2 DEF AccessCall, get_nonce, token_outdated, token_access, verify_access, TokensAccess,
     Verify, GiveUp, Rerun
<1>3. ASSUME NEW t \in Threads, FogStep(t) \/ TimerStep(t) PROVE Traffic
  BY <1>3 DEF FogStep, TimerStep, Traffic
<1>4. ASSUME NEW v \in Visitors, VisitStep(v) PROVE UNCHANGED vars
  BY <1>4, AccessAside DEF VisitStep
<1>5. ASSUME NEW t \in FreeWorkers, Operator(t) PROVE Traffic
  BY <1>5, DrawnIsFresh DEF Operator, Traffic, FreeWorkers
<1>6. CASE UNCHANGED allVars
  BY <1>6 DEF allVars, Traffic
<1>7. ASSUME NEW token \in minted, TokenExpires(token) PROVE UNCHANGED vars
  BY <1>7 DEF TokenExpires
<1> QED BY <1>1, <1>2, <1>3, <1>4, <1>5, <1>6, <1>7 DEF DevicesNext, Traffic

\* There is no restart among them.
LEMMA TrafficNext ==
  ASSUME TypeOK, Traffic PROVE [Next]_vars /\ UNCHANGED crashes /\ ~Restart
<1>1. [Next]_vars
  BY DEF Traffic, Next, Request, EpochRequest, TokenRequest
<1>2. UNCHANGED crashes
  <2>1. ASSUME NEW t \in Threads, Registering(t) \/ RegistrationRequest(t)
        PROVE  UNCHANGED crashes
    BY <2>1 DEF Registering, RegistrationRequest, PubkeyKnown, PubkeyInUse, PubkeyWrite, PopUsed,
       PopVerify, PopFail, PopPass, PopUpsert, MetaRecord, MetaQueue, MetaAccept, MetaReply,
       RegisterStart, SessionGone, RegisterPubkey, RegisterPop, RegisterMetadata, notRegistration
  <2>2. ASSUME NEW t \in Threads,
               Closing(t) \/ AutoClose(t) \/ \E d \in Dids : GetProof(t, d)
        PROVE  UNCHANGED crashes
    BY <2>2 DEF Closing, AutoClose, GetProof, CloseAcquire, CloseRevoked, CloseCollect,
       CloseAnchor, CloseUpdate, CloseFinish, ProofReply, notEpoch
  <2>3. ASSUME NEW t \in Threads,
               \/ Issuing(t) \/ \E s \in Sids : TokensIssue(t, s)
               \/ \E d \in Dids : Revoke(t, d, {})
        PROVE  UNCHANGED crashes
    BY <2>3 DEF Issuing, IssueKnown, IssueEligible, IssueRecord, IssueStatus, RevokeList,
       RevokeTokens, TokensIssue, Revoke, notToken
  <2>4. ASSUME NEW s \in Sids, SessionExpires(s) PROVE UNCHANGED crashes
    BY <2>4 DEF SessionExpires, notRegistration
  <2>5. CASE UNCHANGED vars
    BY <2>5 DEF vars
  <2> QED BY <2>1, <2>2, <2>3, <2>4, <2>5 DEF Traffic, Step
<1> QED BY <1>1, <1>2 DEF TypeOK, Restart

-----------------------------------------------------------------------------
(* One step of a request.                                                  *)

\* The thread goes on with the same kind of request.
SameRequest(step, next) ==
  /\ step \in PubkeySteps <=> next \in PubkeySteps
  /\ step \in PopSteps <=> next \in PopSteps
  /\ step \in MetaSteps <=> next \in MetaSteps
  /\ step \in IssueSteps <=> next \in IssueSteps
  /\ next \notin {"idle", "dead", "proof_package"}

\* The request goes on or ends; other threads stay where they are.
Advances(t) ==
  /\ \A u \in Threads \ {t} : pc'[u] = pc[u] /\ frame'[u] = frame[u]
  /\ \/ pc'[t] = "idle" /\ frame'[t] = NoFrame
     \/ pc[t] = "close_anchor" /\ pc'[t] = "dead" /\ frame'[t] = NoFrame
     \/ /\ SameRequest(pc[t], pc'[t])
        /\ frame'[t].sid = frame[t].sid /\ frame'[t].did = frame[t].did

\* What it may do to its session.
NewState(t, state, did) ==
  \/ pc[t] = "pop_verify" /\ state = Sess(t).state /\ did = Sess(t).did
  \/ pc[t] = "pubkey_write" /\ state = "KEY_SUBMITTED" /\ did = frame[t].did
  \/ pc[t] = "pop_fail" /\ state = "AUTHENTICATED" /\ did = Sess(t).did
  \/ pc[t] = "pop_pass" /\ state = "POP_VERIFIED" /\ did = Sess(t).did
  \/ pc[t] = "meta_accept" /\ state = "METADATA_ACCEPTED" /\ did = Sess(t).did

MovesSession(t) ==
  \/ UNCHANGED sessions
  \/ /\ frame[t].sid \in Sids
     /\ \A s \in Sids \ {frame[t].sid} : sessions'[s] = sessions[s]
     /\ sessions'[frame[t].sid].life = Sess(t).life
     /\ NewState(t, sessions'[frame[t].sid].state, sessions'[frame[t].sid].did)

\* What it may do to the set of known devices, and what it has found.
Learns(t) ==
  /\ \A d \in Dids : devices'[d] # None
                       <=> Known(d) \/ (pc[t] = "pop_upsert" /\ d = Sess(t).did)
  /\ pc'[t] = "pubkey_in_use" => ~Known(frame[t].did)
  /\ pc'[t] = "pubkey_write" =>
       pc[t] = "pubkey_in_use" /\ ~did_in_use(frame[t].did, frame[t].sid)
  /\ pc'[t] \in {"pop_used", "pop_verify", "pop_pass", "pop_upsert"} =>
       Winning(t) /\ pc[t] # "pop_upsert"

\* What one step of a request does.
Shape(t) == Advances(t) /\ MovesSession(t) /\ Learns(t)

\* A step within the request.
LEMMA GotoAdvances ==
  ASSUME TypeOK, NEW t \in Threads, NEW step, Goto(t, step), UNCHANGED frame,
         SameRequest(pc[t], step)
  PROVE  Advances(t) /\ pc'[t] = step
BY DEF TypeOK, Goto, Advances

\* The answer.
LEMMA ReplyAdvances ==
  ASSUME TypeOK, NEW t \in Threads, Reply(t)
  PROVE  Advances(t) /\ pc'[t] = "idle"
BY DEF TypeOK, Reply, Call, Goto, Advances

\* A step that ends the request, without a new record.
LEMMA SameKnown ==
  ASSUME NEW t \in Threads, pc[t] # "pop_upsert", UNCHANGED devices,
         pc'[t] \notin {"pubkey_in_use", "pubkey_write", "pop_used", "pop_verify", "pop_pass",
                        "pop_upsert"}
  PROVE  Learns(t)
BY DEF Learns, Known

\* /register/pubkey takes such steps: it submits the key only to its session.
LEMMA PubkeyShape ==
  ASSUME TypeInv, NEW t \in Threads,
         PubkeyKnown(t) \/ PubkeyInUse(t) \/ PubkeyWrite(t)
  PROVE  Shape(t)
<1>1. /\ TypeOK /\ frame[t].sid \in Sids /\ frame[t].did \in Dids
      /\ pc[t] \in PubkeySteps
  BY DEF TypeInv, FrameOK, LocalsOK, PubkeySteps, PubkeyKnown, PubkeyInUse, PubkeyWrite, At
<1>2. \A step \in PubkeySteps : SameRequest(pc[t], step)
  BY <1>1 DEF SameRequest, PubkeySteps, PopSteps, MetaSteps, IssueSteps
<1>3. CASE PubkeyKnown(t) \/ PubkeyInUse(t)
  <2>1. UNCHANGED <<sessions, devices>>
    BY <1>3 DEF PubkeyKnown, PubkeyInUse
  <2>2. /\ Advances(t)
        /\ \/ pc'[t] = "idle"
           \/ pc'[t] = "pubkey_in_use" /\ PubkeyKnown(t) /\ ~Known(frame[t].did)
           \/ /\ pc'[t] = "pubkey_write" /\ PubkeyInUse(t)
              /\ ~did_in_use(frame[t].did, frame[t].sid)
    BY <1>1, <1>2, <1>3, GotoAdvances, ReplyAdvances DEF PubkeyKnown, PubkeyInUse, PubkeySteps
  <2>3. Learns(t)
    BY <1>1, <2>1, <2>2 DEF Learns, Known, PubkeyInUse, At, PubkeySteps
  <2> QED BY <2>1, <2>2, <2>3 DEF Shape, MovesSession
<1>4. CASE PubkeyWrite(t)
  <2> DEFINE new == [issue_challenge(Sess(t)) EXCEPT
                       !.did = frame[t].did, !.state = "KEY_SUBMITTED"]
  <2>1. new.life = Sess(t).life /\ new.did = frame[t].did /\ new.state = "KEY_SUBMITTED"
    BY <1>1, SessType DEF issue_challenge, Session
  <2>2. sessions' = [sessions EXCEPT ![frame[t].sid] = new]
    BY <1>4 DEF PubkeyWrite, SetSession
  <2> HIDE DEF new
  <2>3. MovesSession(t)
    BY <1>1, <1>4, <2>1, <2>2 DEF TypeOK, MovesSession, NewState, PubkeyWrite, At
  <2> QED BY <1>1, <1>4, <2>3, ReplyAdvances, SameKnown DEF PubkeyWrite, At, Shape
<1> QED BY <1>3, <1>4

\* A step that replaces the state of the session or its used flag.
LEMMA StateMoves ==
  ASSUME TypeOK, NEW t \in Threads, frame[t].sid \in Sids, NEW new, SetSession(t, new),
         new.life = Sess(t).life, NewState(t, new.state, new.did)
  PROVE  MovesSession(t)
<1>1. sessions'[frame[t].sid] = new /\ \A s \in Sids \ {frame[t].sid} : sessions'[s] = sessions[s]
  BY DEF TypeOK, SetSession
<1> QED BY <1>1 DEF MovesSession

\* So does /register/pop, which alone makes a device known.
LEMMA PopShape ==
  ASSUME TypeInv, NEW t \in Threads,
         PopUsed(t) \/ PopVerify(t) \/ PopFail(t) \/ PopPass(t) \/ PopUpsert(t)
  PROVE  Shape(t)
<1>1. TypeOK /\ pc[t] \in KeySteps /\ pc[t] \in PopSteps
  BY DEF TypeInv, PopUsed, PopVerify, PopFail, PopPass, PopUpsert, At, KeySteps, PopSteps
<1>2. frame[t].sid \in Sids /\ Sess(t) \in Session /\ Sess(t).did \in Dids
  BY <1>1, KeyLocals
<1>3. \A step \in PopSteps : SameRequest(pc[t], step)
  BY <1>1 DEF SameRequest, PubkeySteps, PopSteps, MetaSteps, IssueSteps
<1>4. CASE PopUsed(t)
  <2>1. Advances(t) /\ pc'[t] \in {"pop_fail", "pop_verify"} /\ UNCHANGED <<sessions, devices>>
    BY <1>1, <1>3, <1>4, GotoAdvances DEF PopUsed, PopSteps
  <2>2. Learns(t)
    BY <1>4, <2>1 DEF Learns, Known, Winning, PopUsed, At
  <2> QED BY <2>1, <2>2 DEF Shape, MovesSession
<1>5. CASE PopVerify(t)
  <2> DEFINE new == [Sess(t) EXCEPT !.used = TRUE]
  <2>1. new.life = Sess(t).life /\ new.state = Sess(t).state /\ new.did = Sess(t).did
    BY <1>2 DEF Session
  <2>2. SetSession(t, new)
    BY <1>5 DEF PopVerify
  <2> HIDE DEF new
  <2>3. Advances(t) /\ pc'[t] \in {"pop_fail", "pop_pass"} /\ UNCHANGED devices
    BY <1>1, <1>3, <1>5, GotoAdvances DEF PopVerify, PopSteps
  <2>4. Learns(t)
    BY <1>5, <2>3 DEF Learns, Known, Winning, PopVerify, At
  <2>5. MovesSession(t)
    BY <1>1, <1>2, <1>5, <2>1, <2>2, StateMoves DEF NewState, PopVerify, At
  <2> QED BY <2>3, <2>4, <2>5 DEF Shape
<1>6. CASE PopFail(t)
  <2> DEFINE new == [Sess(t) EXCEPT !.state = "AUTHENTICATED"]
  <2>1. new.life = Sess(t).life /\ new.state = "AUTHENTICATED" /\ new.did = Sess(t).did
    BY <1>2 DEF Session
  <2>2. SetSession(t, new)
    BY <1>6 DEF PopFail
  <2> HIDE DEF new
  <2>3. MovesSession(t)
    BY <1>1, <1>2, <1>6, <2>1, <2>2, StateMoves DEF NewState, PopFail, At
  <2> QED BY <1>1, <1>6, <2>3, ReplyAdvances, SameKnown DEF PopFail, At, Shape
<1>7. CASE PopPass(t)
  <2> DEFINE new == [Sess(t) EXCEPT !.state = "POP_VERIFIED"]
  <2>1. new.life = Sess(t).life /\ new.state = "POP_VERIFIED" /\ new.did = Sess(t).did
    BY <1>2 DEF Session
  <2>2. SetSession(t, new)
    BY <1>7 DEF PopPass
  <2> HIDE DEF new
  <2>3. Advances(t) /\ pc'[t] = "pop_upsert" /\ UNCHANGED devices
    BY <1>1, <1>3, <1>7, GotoAdvances DEF PopPass, PopSteps
  <2>4. Learns(t)
    BY <1>7, <2>3 DEF Learns, Known, Winning, PopPass, At
  <2>5. MovesSession(t)
    BY <1>1, <1>2, <1>7, <2>1, <2>2, StateMoves DEF NewState, PopPass, At
  <2> QED BY <2>3, <2>4, <2>5 DEF Shape
<1>8. CASE PopUpsert(t)
  <2>1. NewRecord # None
    <3>1. NewRecord \in DeviceRecord
      BY DEF NewRecord, DeviceRecord, DeviceStatus
    <3> QED BY <3>1, NoRecordAssumption
  <2>2. Advances(t) /\ pc'[t] = "idle" /\ UNCHANGED sessions
    BY <1>1, <1>8, ReplyAdvances DEF PopUpsert
  <2>3. Learns(t)
    BY <1>1, <1>2, <1>8, <2>1, <2>2 DEF TypeOK, PopUpsert, At, Learns, Known
  <2> QED BY <2>2, <2>3 DEF Shape, MovesSession
<1> QED BY <1>4, <1>5, <1>6, <1>7, <1>8

\* So does /register/metadata.
LEMMA MetadataShape ==
  ASSUME TypeInv, NEW t \in Threads,
         MetaRecord(t) \/ MetaQueue(t) \/ MetaAccept(t) \/ MetaReply(t)
  PROVE  Shape(t)
<1>1. TypeOK /\ pc[t] \in KeySteps /\ pc[t] \in MetaSteps
  BY DEF TypeInv, MetaRecord, MetaQueue, MetaAccept, MetaReply, At, KeySteps, MetaSteps
<1>2. frame[t].sid \in Sids /\ Sess(t) \in Session /\ Sess(t).did \in Dids
  BY <1>1, KeyLocals
<1>3. \A step \in MetaSteps : SameRequest(pc[t], step)
  BY <1>1 DEF SameRequest, PubkeySteps, PopSteps, MetaSteps, IssueSteps
<1>4. CASE MetaRecord(t)
  <2>1. Advances(t) /\ pc'[t] \in {"meta_queue", "idle"} /\ UNCHANGED sessions
    BY <1>1, <1>3, <1>4, GotoAdvances, ReplyAdvances DEF MetaRecord, MetaSteps
  <2>2. \A d \in Dids : devices'[d] # None <=> Known(d)
    <3> DEFINE own == Sess(t).did
    <3>1. CASE UNCHANGED devices
      BY <3>1 DEF Known
    <3>2. CASE Known(own) /\ devices' = [devices EXCEPT ![own].roleOk = frame[t].roleOk]
      <4>1. devices[own] \in DeviceRecord /\ frame[t].roleOk \in BOOLEAN
        BY <1>1, <1>2, <3>2 DEF TypeOK, Known, Frame
      <4>2. [devices[own] EXCEPT !.roleOk = frame[t].roleOk] \in DeviceRecord
        BY <4>1 DEF DeviceRecord
      <4> QED BY <1>1, <1>2, <3>2, <4>2, NoRecordAssumption DEF TypeOK, Known
    <3> QED BY <1>4, <3>1, <3>2 DEF MetaRecord
  <2>3. Learns(t)
    BY <1>4, <2>1, <2>2 DEF Learns, MetaRecord, At
  <2> QED BY <2>1, <2>3 DEF Shape, MovesSession
<1>5. CASE MetaQueue(t)
  <2>1. /\ Advances(t) /\ pc'[t] \in {"meta_accept", "idle"}
        /\ UNCHANGED <<sessions, devices>>
    BY <1>1, <1>3, <1>5, GotoAdvances, ReplyAdvances DEF MetaQueue, MetaSteps
  <2> QED BY <1>5, <2>1, SameKnown DEF MetaQueue, At, Shape, MovesSession
<1>6. CASE MetaAccept(t)
  <2> DEFINE new == [Sess(t) EXCEPT !.state = "METADATA_ACCEPTED"]
  <2>1. new.life = Sess(t).life /\ new.state = "METADATA_ACCEPTED" /\ new.did = Sess(t).did
    BY <1>2 DEF Session
  <2>2. SetSession(t, new)
    BY <1>6 DEF MetaAccept
  <2> HIDE DEF new
  <2>3. MovesSession(t)
    BY <1>1, <1>2, <1>6, <2>1, <2>2, StateMoves DEF NewState, MetaAccept, At
  <2>4. Advances(t) /\ pc'[t] = "meta_reply" /\ UNCHANGED devices
    BY <1>1, <1>3, <1>6, GotoAdvances DEF MetaAccept, MetaSteps
  <2> QED BY <1>6, <2>3, <2>4, SameKnown DEF MetaAccept, At, Shape
<1>7. CASE MetaReply(t)
  BY <1>1, <1>7, ReplyAdvances, SameKnown DEF MetaReply, At, Shape, MovesSession
<1> QED BY <1>4, <1>5, <1>6, <1>7

\* A status that changes makes nobody known or unknown.
LEMMA SetStatusKnows ==
  ASSUME TypeOK, NEW d \in Dids, NEW status \in DeviceStatus, set_status(d, status)
  PROVE  \A e \in Dids : devices'[e] # None <=> Known(e)
<1>1. CASE ~Known(d)
  BY <1>1 DEF set_status, Known
<1>2. CASE Known(d)
  <2> DEFINE new == [devices[d] EXCEPT !.status = status]
  <2>1. devices[d] \in DeviceRecord
    BY <1>2 DEF TypeOK, Known
  <2>2. new \in DeviceRecord
    BY <2>1 DEF DeviceRecord
  <2>3. devices' = [devices EXCEPT ![d] = new]
    BY <1>2 DEF set_status
  <2> HIDE DEF new
  <2> QED BY <1>2, <2>2, <2>3, NoRecordAssumption DEF TypeOK, Known
<1> QED BY <1>1, <1>2

\* Closing an epoch registers devices that are known.
LEMMA RegisterKnows ==
  ASSUME TypeOK, NEW d \in Dids, Register(d)
  PROVE  \A e \in Dids : devices'[e] # None <=> Known(e)
<1>1. CASE ~Known(d)
  BY <1>1 DEF Register, Known
<1>2. CASE Known(d)
  <2> DEFINE new == [devices[d] EXCEPT !.status = "REGISTERED", !.epoch_id = current_epoch_id]
  <2>1. devices[d] \in DeviceRecord /\ current_epoch_id \in Nat
    BY <1>2 DEF TypeOK, Known
  <2>2. new \in DeviceRecord
    BY <2>1 DEF DeviceRecord, DeviceStatus
  <2>3. devices' = [devices EXCEPT ![d] = new]
    BY <1>2, <2>1 DEF Register, TypeOK
  <2> HIDE DEF new
  <2> QED BY <1>2, <2>2, <2>3, NoRecordAssumption DEF TypeOK, Known
<1> QED BY <1>1, <1>2

\* The steps that have nothing to do with a session.
LEMMA OtherLearns ==
  ASSUME NEW t \in Threads, pc[t] \notin PubkeySteps \cup PopSteps,
         pc'[t] \notin PubkeySteps \cup PopSteps,
         \A d \in Dids : devices'[d] # None <=> Known(d)
  PROVE  Learns(t)
BY DEF Learns, PubkeySteps, PopSteps

\* Steps of finalize_epoch, the wait for the lock included.
ClosingSteps == {"close_acquire", "close_revoked", "close_collect", "close_anchor", "close_update"}

\* Closing an epoch and handing out a proof touch no session.
LEMMA ClosingShape ==
  ASSUME TypeInv, NEW t \in Threads, Closing(t) PROVE Shape(t)
<1>1. TypeOK /\ UNCHANGED sessions
  BY DEF TypeInv, Closing, CloseAcquire, CloseRevoked, CloseCollect, CloseAnchor, CloseUpdate,
     CloseFinish, ProofReply, notEpoch
<1>2. ASSUME NEW step \in ClosingSteps, NEW f, f.sid = frame[t].sid, f.did = frame[t].did,
             Call(t, step, f), pc[t] \in ClosingSteps
      PROVE  Advances(t) /\ pc'[t] = step
  <2>1. SameRequest(pc[t], step)
    BY <1>2 DEF SameRequest, ClosingSteps, PubkeySteps, PopSteps, MetaSteps, IssueSteps
  <2> QED BY <1>1, <1>2, <2>1 DEF Call, Goto, TypeOK, Advances
<1>3. ASSUME NEW step \in {"idle", "dead"}, step = "dead" => pc[t] = "close_anchor",
             Call(t, step, NoFrame)
      PROVE  Advances(t) /\ pc'[t] = step
  BY <1>1, <1>3 DEF Call, Goto, TypeOK, Advances
<1>4. frame[t] \in Frame
  BY <1>1 DEF TypeOK
<1>5. Advances(t) /\ pc'[t] \in ClosingSteps \cup {"idle", "dead"}
  <2>1. CASE CloseAcquire(t)
    BY <1>1, <1>2, <2>1, GotoCall DEF CloseAcquire, At, ClosingSteps
  <2>2. CASE CloseRevoked(t)
    <3> DEFINE f == [frame[t] EXCEPT !.dids = blocked(t)]
    <3>1. f.sid = frame[t].sid /\ f.did = frame[t].did
      BY <1>4 DEF Frame
    <3>2. Call(t, "close_collect", f) /\ pc[t] = "close_revoked"
      BY <1>1, <2>2 DEF CloseRevoked, At, Call, TypeOK
    <3> HIDE DEF f
    <3> QED BY <1>2, <3>1, <3>2 DEF ClosingSteps
  <2>3. CASE CloseCollect(t)
    <3> DEFINE f == [frame[t] EXCEPT !.dids = Members(t)]
    <3>1. f.sid = frame[t].sid /\ f.did = frame[t].did
      BY <1>4 DEF Frame
    <3>2. pc[t] = "close_collect" /\ (Call(t, "idle", NoFrame) \/ Call(t, "close_anchor", f))
      BY <1>1, <2>3 DEF CloseCollect, At, Call, TypeOK, Release
    <3> HIDE DEF f
    <3> QED BY <1>2, <1>3, <3>1, <3>2 DEF ClosingSteps
  <2>4. CASE CloseAnchor(t)
    <3> DEFINE f == [frame[t] EXCEPT !.todo = frame[t].dids]
    <3>1. f.sid = frame[t].sid /\ f.did = frame[t].did
      BY <1>4 DEF Frame
    <3>2. /\ pc[t] = "close_anchor"
          /\ Call(t, "idle", NoFrame) \/ Call(t, "dead", NoFrame) \/ Call(t, "close_update", f)
      BY <1>1, <2>4 DEF CloseAnchor, Saved, NotSaved, Raise, At, Call, TypeOK, Release
    <3> HIDE DEF f
    <3> QED BY <1>2, <1>3, <3>1, <3>2 DEF ClosingSteps
  <2>5. CASE CloseUpdate(t)
    <3>1. PICK d : frame' = [frame EXCEPT ![t].todo = @ \ {d}]
      BY <2>5 DEF CloseUpdate
    <3> DEFINE f == [frame[t] EXCEPT !.todo = @ \ {d}]
    <3>2. f.sid = frame[t].sid /\ f.did = frame[t].did
      BY <1>4 DEF Frame
    <3>3. pc[t] = "close_update" /\ Call(t, "close_update", f)
      BY <1>1, <2>5, <3>1 DEF CloseUpdate, At, Call, Goto, TypeOK
    <3> HIDE DEF f
    <3> QED BY <1>2, <3>2, <3>3 DEF ClosingSteps
  <2>6. CASE CloseFinish(t) \/ ProofReply(t)
    BY <1>3, <2>6 DEF CloseFinish, ProofReply, Release, Reply
  <2> QED BY <2>1, <2>2, <2>3, <2>4, <2>5, <2>6 DEF Closing
<1>6. \A d \in Dids : devices'[d] # None <=> Known(d)
  <2>1. CASE CloseUpdate(t)
    <3>1. PICK d \in frame[t].todo : Register(d)
      BY <2>1 DEF CloseUpdate
    <3>2. d \in Dids
      BY <1>4, <3>1 DEF Frame
    <3> QED BY <1>1, <3>1, <3>2, RegisterKnows
  <2>2. CASE ~CloseUpdate(t)
    BY <2>2 DEF Known, Closing, CloseAcquire, CloseRevoked, CloseCollect, CloseAnchor,
       CloseFinish, ProofReply
  <2> QED BY <2>1, <2>2
<1>7. /\ pc[t] \notin PubkeySteps \cup PopSteps
      /\ pc'[t] \notin PubkeySteps \cup PopSteps
  <2>1. pc[t] \in ClosingSteps \cup {"proof_package"}
    BY DEF Closing, CloseAcquire, CloseRevoked, CloseCollect, CloseAnchor, CloseUpdate,
       CloseFinish, ProofReply, At, ClosingSteps
  <2> QED BY <1>5, <2>1 DEF ClosingSteps, PubkeySteps, PopSteps
<1> QED BY <1>1, <1>5, <1>6, <1>7, OtherLearns DEF Shape, MovesSession

\* Nor do issuing a token and revoking.
LEMMA IssuingShape ==
  ASSUME TypeInv, NEW t \in Threads, Issuing(t) PROVE Shape(t)
<1>1. TypeOK /\ UNCHANGED sessions /\ frame[t] \in Frame
  BY DEF TypeInv, TypeOK, Issuing, IssueKnown, IssueEligible, IssueRecord, IssueStatus,
     RevokeList, RevokeTokens, notToken
<1>2. pc[t] \in IssueSteps \cup {"revoke_list", "revoke_tokens"}
  BY DEF Issuing, IssueKnown, IssueEligible, IssueRecord, IssueStatus, RevokeList,
     RevokeTokens, At, IssueSteps
<1>3. Advances(t) /\ pc'[t] \in IssueSteps \cup {"revoke_list", "revoke_tokens", "idle"}
  <2>1. CASE IssueKnown(t) \/ IssueEligible(t) \/ IssueRecord(t) \/ IssueStatus(t)
    <3>1. pc[t] \in IssueSteps
      BY <2>1 DEF IssueKnown, IssueEligible, IssueRecord, IssueStatus, At, IssueSteps
    <3>2. \A step \in IssueSteps : SameRequest(pc[t], step)
      BY <3>1 DEF SameRequest, PubkeySteps, PopSteps, MetaSteps, IssueSteps
    <3>3. CASE Reply(t)
      BY <1>1, <3>3, ReplyAdvances
    <3>4. ASSUME NEW step \in IssueSteps, Goto(t, step), UNCHANGED frame
          PROVE  Advances(t) /\ pc'[t] \in IssueSteps
      BY <1>1, <3>2, <3>4, GotoAdvances
    <3> QED BY <2>1, <3>3, <3>4, ReplyAdvances, <1>1
            DEF IssueKnown, IssueEligible, IssueRecord, IssueStatus, IssueSteps
  <2>2. CASE RevokeList(t)
    <3> DEFINE f == [frame[t] EXCEPT !.toks = @ \cup tokens_of(frame[t].did)]
    <3>1. f.sid = frame[t].sid /\ f.did = frame[t].did
      BY <1>1 DEF Frame
    <3>2. Call(t, "revoke_tokens", f) /\ pc[t] = "revoke_list"
      BY <1>1, <2>2 DEF RevokeList, At, Call, TypeOK
    <3> HIDE DEF f
    <3>3. SameRequest("revoke_list", "revoke_tokens")
      BY DEF SameRequest, PubkeySteps, PopSteps, MetaSteps, IssueSteps
    <3> QED BY <1>1, <3>1, <3>2, <3>3 DEF Call, Goto, TypeOK, Advances
  <2>3. CASE RevokeTokens(t)
    <3>1. CASE Reply(t)
      BY <1>1, <3>1, ReplyAdvances
    <3>2. ASSUME NEW k, frame' = [frame EXCEPT ![t].toks = @ \ {k}], UNCHANGED pc
          PROVE  Advances(t) /\ pc'[t] = "revoke_tokens"
      <4> DEFINE f == [frame[t] EXCEPT !.toks = @ \ {k}]
      <4>1. f.sid = frame[t].sid /\ f.did = frame[t].did
        BY <1>1 DEF Frame
      <4>2. frame' = [frame EXCEPT ![t] = f] /\ pc[t] = "revoke_tokens"
        BY <2>3, <3>2 DEF RevokeTokens, At
      <4> HIDE DEF f
      <4>3. SameRequest("revoke_tokens", "revoke_tokens")
        BY DEF SameRequest, PubkeySteps, PopSteps, MetaSteps, IssueSteps
      <4> QED BY <1>1, <3>2, <4>1, <4>2, <4>3 DEF TypeOK, Advances
    <3>3. Reply(t) \/ \E k : frame' = [frame EXCEPT ![t].toks = @ \ {k}] /\ UNCHANGED pc
      BY <2>3 DEF RevokeTokens
    <3> QED BY <1>1, <3>1, <3>2, <3>3, ReplyAdvances
  <2> QED BY <2>1, <2>2, <2>3 DEF Issuing
<1>4. \A d \in Dids : devices'[d] # None <=> Known(d)
  <2>1. CASE IssueStatus(t)
    <3>1. frame[t].did \in Dids
      BY <2>1 DEF TypeInv, FrameOK, LocalsOK, IssueStatus, At, IssueSteps
    <3> QED BY <1>1, <2>1, <3>1, SetStatusKnows DEF IssueStatus, DeviceStatus
  <2>2. CASE ~IssueStatus(t)
    BY <2>2 DEF Known, Issuing, IssueKnown, IssueEligible, IssueRecord, RevokeList, RevokeTokens
  <2> QED BY <2>1, <2>2
<1>5. /\ pc[t] \notin PubkeySteps \cup PopSteps
      /\ pc'[t] \notin PubkeySteps \cup PopSteps
  BY <1>2, <1>3 DEF IssueSteps, PubkeySteps, PopSteps
<1> QED BY <1>1, <1>3, <1>4, <1>5, OtherLearns DEF Shape, MovesSession

\* Every step of a request has this shape.
LEMMA StepShape == ASSUME TypeInv, NEW t \in Threads, Step(t) PROVE Shape(t)
BY PubkeyShape, PopShape, MetadataShape, ClosingShape, IssuingShape DEF Step, Registering

-----------------------------------------------------------------------------
(* What a program becomes.                                                 *)

\* The program of d replaced by another.
LEMMA BecomeOther ==
  ASSUME ProgramOK, NEW d \in Dids, NEW new \in Program, program' = [program EXCEPT ![d] = new]
  PROVE  /\ program' \in [Dids -> Program] /\ program'[d] = new
         /\ \A e \in Dids \ {d} : program'[e] = program[e]
BY DEF ProgramOK

\* A program that learns nothing of its onboarding: it is the same, or it waits
\* for no handler of onboarding and makes no call in its session.
Aloof(d, new) ==
  /\ new.worker \notin Threads
  /\ new.worker \in Visitors => new.step \in {"provisional", "access"}
  /\ new.sid \in {None, program[d].sid}
  /\ new.step \notin SessionCalls
  /\ new.step \in Later => program[d].step \in Later

Unaware(d) == program'[d] = program[d] \/ Aloof(d, program'[d])

\* None is no worker.
LEMMA NoWorker == None \notin Threads /\ None \notin Visitors
BY NoneAssumption, VisitorAssumption

\* An error or a timeout.
LEMMA WithoutAloof ==
  ASSUME ProgramOK, NEW d \in Dids
  PROVE  /\ Without(d) \in Program /\ Aloof(d, Without(d))
         /\ Without(d).worker = None /\ Without(d).sid = program[d].sid
<1> DEFINE p == program[d]
           step == CASE p.step \in {"pubkey", "pop", "metadata"} -> "failed"
                     [] p.step = "token" -> "fetch"
                     [] OTHER -> p.step
<1>1. p \in Program
  BY DEF ProgramOK
<1>2. Without(d) = [p EXCEPT !.step = step, !.worker = None, !.nonce = None]
  BY DEF Without
<1>3. step \in {"off", "start", "failed", "provisional", "fetch", "access", "served"}
      /\ (step \in Later => p.step \in Later)
  BY <1>1 DEF Program, Later
<1> HIDE DEF step
<1>4. /\ Without(d) \in Program
      /\ Without(d).worker = None /\ Without(d).sid = p.sid /\ Without(d).step = step
  BY <1>1, <1>2, <1>3 DEF Program
<1> QED BY <1>3, <1>4, NoWorker DEF Aloof, SessionCalls

\* Calls for a nonce or for access.
LEMMA AccessCallAloof ==
  ASSUME ProgramOK, NEW d \in Dids, AccessCall(d)
  PROVE  program' \in [Dids -> Program] /\ \A e \in Dids : Unaware(e)
<1> DEFINE p == program[d]
<1>1. p \in Program
  BY DEF ProgramOK
<1>2. ASSUME NEW n \in Nonces, program' = [program EXCEPT ![d] = [p EXCEPT !.nonce = n]],
             p.step \in {"provisional", "access"}, p.worker = None
      PROVE  program' \in [Dids -> Program] /\ \A e \in Dids : Unaware(e)
  <2> DEFINE new == [p EXCEPT !.nonce = n]
  <2>1. /\ new \in Program /\ new.worker = None /\ new.step = p.step /\ new.sid = p.sid
    BY <1>1, <1>2 DEF Program
  <2>2. program' = [program EXCEPT ![d] = new]
    BY <1>2
  <2> HIDE DEF new
  <2>3. Aloof(d, new)
    BY <1>2, <2>1, NoWorker DEF Aloof, SessionCalls
  <2> QED BY <2>1, <2>2, <2>3, BecomeOther DEF Unaware
<1>3. ASSUME NEW v \in Visitors, program' = [program EXCEPT ![d] = [p EXCEPT !.worker = v]],
             p.step \in {"provisional", "access"}
      PROVE  program' \in [Dids -> Program] /\ \A e \in Dids : Unaware(e)
  <2> DEFINE new == [p EXCEPT !.worker = v]
  <2>1. /\ new \in Program /\ new.worker = v /\ new.step = p.step /\ new.sid = p.sid
    BY <1>1, <1>3 DEF Program
  <2>2. program' = [program EXCEPT ![d] = new]
    BY <1>3
  <2> HIDE DEF new
  <2>3. Aloof(d, new)
    BY <1>3, <2>1, VisitorAssumption DEF Aloof, SessionCalls
  <2> QED BY <2>1, <2>2, <2>3, BecomeOther DEF Unaware
<1>4. CASE get_nonce(d)
  <2>1. PICK n \in Drawn({m \in Nonces : nonces[m].life = "undrawn"}) :
          program' = [program EXCEPT ![d] = [p EXCEPT !.nonce = n]]
    BY <1>4 DEF get_nonce, Become
  <2>2. n \in Nonces
    BY <2>1, DrawnIsFresh
  <2>3. p.step \in {"provisional", "access"} /\ p.worker = None
    BY <1>4 DEF get_nonce, Calling
  <2> QED BY <1>2, <2>1, <2>2, <2>3
<1>5. ASSUME NEW v \in Visitors, token_access(d, v) \/ verify_access(d, v)
      PROVE  program' \in [Dids -> Program] /\ \A e \in Dids : Unaware(e)
  BY <1>3, <1>5 DEF token_access, verify_access, Calling, Send, Become
<1>6. CASE token_outdated(d)
  <2> DEFINE new == [p EXCEPT !.step = "fetch", !.nonce = None]
  <2>1. p.step = "provisional" /\ p.worker = None /\ program' = [program EXCEPT ![d] = new]
    BY <1>6 DEF token_outdated, Calling, Become
  <2>2. new \in Program /\ new.worker = None /\ new.step = "fetch" /\ new.sid = p.sid
    BY <1>1, <2>1 DEF Program
  <2> HIDE DEF new
  <2>3. Aloof(d, new)
    BY <2>1, <2>2, NoWorker DEF Aloof, SessionCalls, Later
  <2> QED BY <2>1, <2>2, <2>3, BecomeOther DEF Unaware
<1> QED BY <1>4, <1>5, <1>6 DEF AccessCall

\* A client that stops waiting, and a program that is started again.
LEMMA GiveUpAloof ==
  ASSUME ProgramOK, NEW d \in Dids, GiveUp(d)
  PROVE  program' \in [Dids -> Program] /\ \A e \in Dids : Unaware(e)
BY WithoutAloof, BecomeOther DEF GiveUp, Unaware

\* A program that is started again has no session yet.
LEMMA RerunAloof ==
  ASSUME ProgramOK, NEW d \in Dids, Rerun(d)
  PROVE  program' \in [Dids -> Program] /\ \A e \in Dids : Unaware(e)
<1> DEFINE new == NewProgram(program[d].asks)
<1>1. program[d].asks \in BOOLEAN
  BY DEF ProgramOK, Program
<1>2. /\ new \in Program /\ new.worker = None /\ new.sid = None /\ new.step = "start"
  BY <1>1 DEF NewProgram, Program
<1>3. program' = [program EXCEPT ![d] = new]
  BY DEF Rerun, Become
<1> HIDE DEF new
<1>4. Aloof(d, new)
  BY <1>2, NoWorker DEF Aloof, SessionCalls, Later
<1> QED BY <1>2, <1>3, <1>4, BecomeOther DEF Unaware

\* The answer to an access request.
LEMMA VisitAloof ==
  ASSUME ProgramOK, ServesOK, NEW v \in Visitors, VisitStep(v)
  PROVE  program' \in [Dids -> Program] /\ \A e \in Dids : Unaware(e)
<1> DEFINE new(d) == [program[d] EXCEPT !.step = After(d), !.worker = None, !.nonce = None]
<1>1. ASSUME NEW d \in Dids, d \in Served(v)
      PROVE  new(d) \in Program /\ Aloof(d, new(d))
  <2>1. program[d] \in Program /\ program[d].step \in {"provisional", "access"}
    BY <1>1 DEF ProgramOK, ServesOK, Served
  <2>2. After(d) \in {"fetch", "served"}
    BY <2>1 DEF After
  <2>3. /\ new(d) \in Program /\ new(d).worker = None /\ new(d).sid = program[d].sid
        /\ new(d).step = After(d)
    BY <2>1, <2>2 DEF Program
  <2> HIDE DEF new
  <2> QED BY <2>1, <2>2, <2>3, NoWorker DEF Aloof, SessionCalls, Later
<1>2. program' = [d \in Dids |-> IF d \notin Served(v) \/ ~Doing(v, "idle")' THEN program[d]
                                ELSE IF allowed' = allowed THEN Without(d) ELSE new(d)]
  BY DEF VisitStep
<1> HIDE DEF new
<1>3. \A d \in Dids : program'[d] \in Program /\ Unaware(d)
  BY <1>1, <1>2, WithoutAloof DEF ProgramOK, Unaware
<1>4. program' = [d \in Dids |-> program'[d]]
  BY <1>2
<1> QED BY <1>3, <1>4

\* The answer of thread t to the program of d, which gets on when it is 200.
GetsOn(d, t, new) ==
  /\ new.worker = None /\ new.sid = program[d].sid
  /\ \/ Aloof(d, new)
     \/ pc[t] = "pubkey_write" /\ program[d].step = "pubkey" /\ new.step = "pop"
     \/ pc[t] = "pop_upsert" /\ program[d].step = "pop" /\ new.step = "metadata"
     \/ pc[t] = "meta_reply" /\ program[d].step = "metadata" /\ new.step \in {"token", "fetch"}

\* What a program becomes when it is answered.
LEMMA ToldGetsOn ==
  ASSUME TypeInv, ProgramOK, NEW d \in Dids, NEW t \in Threads,
         Serves(program[d], d, pc[t], frame[t])
  PROVE  Told(d, t) \in Program /\ GetsOn(d, t, Told(d, t))
<1>1. CASE ~Success(t)
  BY <1>1, WithoutAloof DEF Told, GetsOn
<1>2. CASE Success(t)
  <2> DEFINE p == program[d]
             token == IF p.step # "token" THEN p.token
                      ELSE [tok |-> frame[t].tok, run |-> crashes, did |-> d]
  <2>1. p \in Program
    BY DEF ProgramOK
  <2>2. \/ p.step = "pubkey" /\ pc[t] = "pubkey_write"
        \/ p.step = "pop" /\ pc[t] = "pop_upsert"
        \/ p.step = "metadata" /\ pc[t] = "meta_reply"
        \/ p.step = "token" /\ pc[t] \in IssueSteps
        \/ p.step = "fetch"
    BY <1>2 DEF Success, Serves, PubkeySteps, PopSteps, MetaSteps, IssueSteps, At
  <2>3. /\ p.step = "pubkey" => After(d) = "pop"
        /\ p.step = "pop" => After(d) = "metadata"
        /\ p.step = "metadata" => After(d) \in {"token", "fetch"}
        /\ p.step = "token" => After(d) = "provisional"
        /\ p.step = "fetch" => After(d) = "access"
    BY DEF After
  <2>4. token \in Token \cup {None}
    <3>1. CASE p.step = "token"
      <4>1. frame[t].tok \in Tokens
        BY <2>2, <3>1 DEF TypeInv, FrameOK, LocalsOK
      <4>2. crashes \in 0..MaxCrashes
        BY BoundAssumption DEF ProgramOK
      <4> QED BY <3>1, <4>1, <4>2 DEF Token
    <3>2. CASE p.step # "token"
      BY <2>1, <3>2 DEF Program
    <3> QED BY <3>1, <3>2
  <2>5. Told(d, t) = [p EXCEPT !.step = After(d), !.worker = None, !.token = token]
    BY <1>2 DEF Told
  <2> HIDE DEF token
  <2>6. After(d) \in {"pop", "metadata", "token", "provisional", "fetch", "access"}
    BY <2>2, <2>3
  <2>7. /\ Told(d, t) \in Program
        /\ Told(d, t).step = After(d) /\ Told(d, t).worker = None /\ Told(d, t).sid = p.sid
    BY <2>1, <2>4, <2>5, <2>6 DEF Program
  <2>8. p.step \in {"token", "fetch"} => Aloof(d, Told(d, t))
    BY <2>3, <2>7, NoWorker DEF Aloof, SessionCalls, Later
  <2> QED BY <2>2, <2>3, <2>7, <2>8 DEF GetsOn
<1> QED BY <1>1, <1>2

\* A step of the fog answers the program it serves, if it ends the request.
LEMMA FogPrograms ==
  ASSUME TypeInv, ProgramOK, ServesOK, NEW t \in Threads, FogStep(t)
  PROVE  /\ program' \in [Dids -> Program]
         /\ \A d \in Dids :
              IF program[d].worker = t /\ pc'[t] = "idle" THEN GetsOn(d, t, program'[d])
              ELSE program'[d] = program[d]
<1>1. program' = [d \in Dids |-> IF d \in Served(t) /\ pc'[t] = "idle"
                                 THEN Told(d, t) ELSE program[d]]
  BY DEF FogStep
<1>2. ASSUME NEW d \in Dids, program[d].worker = t
      PROVE  Told(d, t) \in Program /\ GetsOn(d, t, Told(d, t))
  BY <1>2, ToldGetsOn DEF ServesOK
<1> QED BY <1>1, <1>2 DEF Served, ProgramOK

-----------------------------------------------------------------------------
(* What happens beside the programs' calls.                                *)

\* Steps of the requests a program waits for.
Serving == PubkeySteps \cup PopSteps \cup MetaSteps \cup IssueSteps \cup {"proof_package"}

\* No request that serves a program moves, and a session at most leaves the
\* store, when its program finds it expired.
Background ==
  /\ \A u \in Threads :
       /\ frame'[u].sid \in {None, frame[u].sid}
       /\ \/ pc'[u] = pc[u] /\ frame'[u] = frame[u]
          \/ pc[u] \notin Serving /\ pc'[u] \notin Serving
  /\ \A s \in Sids :
       /\ sessions'[s].state = sessions[s].state /\ sessions'[s].did = sessions[s].did
       /\ sessions'[s].life = "unused" => sessions[s].life = "unused"
       /\ \/ Stored(s) => Stored(s)'
          \/ \E d \in Dids : /\ program[d].sid = s /\ program[d].worker = None
                             /\ program[d].step \in SessionCalls
  /\ \A d \in Dids : devices'[d] # None <=> Known(d)

\* What happens beside the calls leaves the programs their threads and sessions.
LEMMA BackgroundCalls ==
  ASSUME TypeInv, ProgramOK, CallsOK, Background, \A d \in Dids : Unaware(d)
  PROVE  CallsOK'
<1>1. /\ \A d \in Dids : program[d].sid \in Sids \cup {None}
      /\ \A t \in Threads : frame[t].sid \in Sids \cup {None}
  BY DEF TypeInv, TypeOK, Frame, ProgramOK, Program
<1>2. \A d \in Dids : /\ program'[d].sid \in {None, program[d].sid}
                      /\ program'[d].step \in SessionCalls => program'[d] = program[d]
                      /\ program'[d].worker \in Threads => program'[d] = program[d]
  BY DEF Unaware, Aloof
<1>3. ServesOK'
  <2>1. ASSUME NEW d \in Dids, NEW t \in Threads, program'[d].worker = t
        PROVE  Serves(program'[d], d, pc'[t], frame'[t])
    <3>1. program'[d] = program[d] /\ Serves(program[d], d, pc[t], frame[t])
      BY <1>2, <2>1 DEF CallsOK, ServesOK
    <3>2. pc[t] \in Serving
      BY <3>1 DEF Serves, Serving
    <3> QED BY <3>1, <3>2 DEF Background
  <2>2. ASSUME NEW d \in Dids, program'[d].worker \in Visitors
        PROVE  program'[d].step \in {"provisional", "access"}
    BY <2>2 DEF Unaware, Aloof, CallsOK, ServesOK
  <2> QED BY <2>1, <2>2 DEF ServesOK
<1>4. SidsOK'
  BY <1>1, <1>2, NoneAssumption DEF Background, CallsOK, SidsOK
<1>5. OneCall'
  BY <1>1, <1>2, NoneAssumption DEF Background, CallsOK, SidsOK, OneCall
<1>6. KeysOK'
  <2>1. \A t \in Threads : pc'[t] \in PubkeySteps => pc'[t] = pc[t] /\ frame'[t] = frame[t]
    BY DEF Background, Serving
  <2> QED BY <1>1, <1>2, <2>1 DEF Background, CallsOK, KeysOK
<1> QED BY <1>3, <1>4, <1>5, <1>6 DEF CallsOK

\* Nor does it let anybody else create a record.
LEMMA BackgroundClaims ==
  ASSUME TypeInv, SessionInv, ProgramOK, CallsOK, ClaimsOK, Background,
         \A d \in Dids : Unaware(d)
  PROVE  ClaimsOK'
<1>1. ASSUME NEW t \in Threads, Winning(t)'
      PROVE  /\ Winning(t) /\ pc'[t] = pc[t] /\ frame'[t] = frame[t] /\ frame[t].sid \in Sids
             /\ Sess(t).did \in Dids /\ Sess(t)'.did = Sess(t).did
  <2>1. pc'[t] \in PopSteps
    BY <1>1 DEF Winning, PopSteps
  <2>2. pc'[t] = pc[t] /\ frame'[t] = frame[t]
    BY <2>1 DEF Background, Serving
  <2>3. pc[t] \in KeySteps
    BY <2>1, <2>2 DEF PopSteps, KeySteps
  <2>4. frame[t].sid \in Sids /\ Sess(t).did \in Dids
    BY <2>3, KeyLocals
  <2> QED BY <1>1, <2>2, <2>4 DEF Background, Winning, Sess
<1>2. ASSUME NEW t \in Threads, Winning(t)'
      PROVE  Stored(frame[t].sid)' /\ ~Known(Sess(t).did)'
  <2>1. Stored(frame[t].sid) /\ ~Known(Sess(t).did)
    BY <1>1, <1>2 DEF ClaimsOK
  <2>2. ASSUME NEW d \in Dids, program[d].sid = frame[t].sid, program[d].worker = None,
               program[d].step \in SessionCalls
        PROVE  FALSE
    BY <2>2, NoWorker DEF CallsOK, OneCall
  <2>3. Stored(frame[t].sid)'
    BY <1>1, <1>2, <2>1, <2>2 DEF Background
  <2>4. ~Known(Sess(t).did)'
    BY <1>1, <1>2, <2>1 DEF Background, Known
  <2> QED BY <2>3, <2>4
<1>3. ASSUME NEW t \in Threads, NEW u \in Threads, Winning(t)', Winning(u)',
             Sess(t)'.did = Sess(u)'.did
      PROVE  t = u
  BY <1>1, <1>3 DEF ClaimsOK
<1>4. ASSUME NEW d \in Dids, Unclaimed(d) PROVE Unclaimed(d)'
  BY <1>1, <1>4 DEF Unclaimed, Background, Known
<1>5. ASSUME NEW d \in Dids, Calling(d, "pop")' PROVE Unclaimed(d)'
  BY <1>4, <1>5 DEF Calling, Unaware, Aloof, SessionCalls, ClaimsOK
<1>6. ASSUME NEW d \in Dids, NEW t \in Threads, program'[d].worker = t,
             pc'[t] \in {"pubkey_write", "pubkey_in_use"}
      PROVE  program'[d] = program[d] /\ pc'[t] = pc[t] /\ frame'[t] = frame[t]
  BY <1>6 DEF Unaware, Aloof, Background, Serving, PubkeySteps
<1>7. ASSUME NEW d \in Dids, NEW t \in Threads, program'[d].worker = t,
             pc'[t] = "pubkey_in_use", Known(d)'
      PROVE  Claimed(d)'
  <2>1. program'[d] = program[d] /\ Known(d) /\ Claimed(d)
    BY <1>6, <1>7 DEF Background, Known, ClaimsOK
  <2>2. PICK s \in Sids \ {program[d].sid} :
          /\ Stored(s) /\ sessions[s].did = d
          /\ sessions[s].state \in {"POP_VERIFIED", "METADATA_ACCEPTED"}
    BY <2>1 DEF Claimed
  <2>3. ASSUME NEW e \in Dids, program[e].sid = s PROVE FALSE
    BY <2>2, <2>3, NoneAssumption DEF CallsOK, KeysOK
  <2>4. Stored(s)' /\ sessions'[s].did = d /\ sessions'[s].state = sessions[s].state
    BY <2>2, <2>3 DEF Background
  <2> QED BY <2>1, <2>2, <2>4 DEF Claimed
<1> QED BY <1>2, <1>3, <1>4, <1>5, <1>6, <1>7 DEF ClaimsOK

-----------------------------------------------------------------------------
(* The steps of the fog.                                                   *)

\* A device is answered, or its program and its request stand as they were.
LEMMA Answers ==
  ASSUME TypeInv, ProgramOK, CallsOK, NEW t \in Threads, FogStep(t), NEW d \in Dids
  PROVE  /\ program'[d].sid = program[d].sid
         /\ \/ /\ program[d].worker = t /\ pc'[t] = "idle" /\ frame'[t] = NoFrame
               /\ GetsOn(d, t, program'[d])
            \/ /\ program'[d] = program[d]
               /\ program[d].worker = t =>
                    /\ SameRequest(pc[t], pc'[t])
                    /\ frame'[t].sid = frame[t].sid /\ frame'[t].did = frame[t].did
<1>1. Shape(t)
  BY StepShape DEF FogStep
<1>2. IF program[d].worker = t /\ pc'[t] = "idle" THEN GetsOn(d, t, program'[d])
      ELSE program'[d] = program[d]
  BY FogPrograms DEF CallsOK
<1>3. CASE program[d].worker = t /\ pc'[t] = "idle"
  <2>1. frame'[t] = NoFrame
    BY <1>1, <1>3 DEF Shape, Advances, SameRequest
  <2> QED BY <1>2, <1>3, <2>1 DEF GetsOn
<1>4. CASE ~(program[d].worker = t /\ pc'[t] = "idle")
  <2>1. program[d].worker = t => pc[t] # "close_anchor"
    BY DEF CallsOK, ServesOK, Serves, PubkeySteps, PopSteps, MetaSteps, IssueSteps
  <2> QED BY <1>1, <1>2, <1>4, <2>1 DEF Shape, Advances
<1> QED BY <1>3, <1>4

\* A step of the fog leaves the programs their threads and sessions.
LEMMA FogCalls ==
  ASSUME TypeInv, SessionInv, ProgramOK, CallsOK, NEW t \in Threads, FogStep(t)
  PROVE  CallsOK'
<1>1. Shape(t) /\ TypeOK
  BY StepShape DEF FogStep, TypeInv
<1>2. /\ \A d \in Dids : program[d].sid \in Sids \cup {None}
      /\ \A u \in Threads : frame[u].sid \in Sids \cup {None}
  BY DEF TypeInv, TypeOK, Frame, ProgramOK, Program
<1>3. \A u \in Threads : /\ frame'[u].sid \in {None, frame[u].sid}
                         /\ pc'[u] \in PubkeySteps =>
                              /\ pc[u] \in PubkeySteps
                              /\ frame'[u].sid = frame[u].sid /\ frame'[u].did = frame[u].did
  BY <1>1 DEF Shape, Advances, NoFrame, SameRequest, PubkeySteps
<1>4. \A s \in Sids : sessions'[s].life = sessions[s].life
  BY <1>1 DEF Shape, MovesSession, Sess
<1>5. ServesOK'
  <2>1. ASSUME NEW d \in Dids, NEW u \in Threads, program'[d].worker = u
        PROVE  Serves(program'[d], d, pc'[u], frame'[u])
    <3>1. program'[d] = program[d]
      BY <2>1, Answers, NoWorker DEF GetsOn
    <3>2. Serves(program[d], d, pc[u], frame[u])
      BY <2>1, <3>1 DEF CallsOK, ServesOK
    <3>3. CASE u # t
      BY <1>1, <3>1, <3>2, <3>3 DEF Shape, Advances
    <3>4. CASE u = t
      <4>1. /\ SameRequest(pc[t], pc'[t])
            /\ frame'[t].sid = frame[t].sid /\ frame'[t].did = frame[t].did
        BY <2>1, <3>1, <3>4, Answers, NoWorker DEF GetsOn
      <4>2. pc[t] # "proof_package"
        BY <1>1, <4>1 DEF FogStep, Step, SameRequest, Registering, Issuing, Closing, PubkeyKnown,
           PubkeyInUse, PubkeyWrite, PopUsed, PopVerify, PopFail, PopPass, PopUpsert, MetaRecord,
           MetaQueue, MetaAccept, MetaReply, IssueKnown, IssueEligible, IssueRecord, IssueStatus,
           RevokeList, RevokeTokens, CloseAcquire, CloseRevoked, CloseCollect, CloseAnchor,
           CloseUpdate,
           CloseFinish, ProofReply, Reply, Call, Goto, At, TypeOK
      <4> QED BY <3>1, <3>2, <3>4, <4>1, <4>2 DEF Serves, SameRequest
    <3> QED BY <3>3, <3>4
  <2>2. ASSUME NEW d \in Dids, program'[d].worker \in Visitors
        PROVE  program'[d].step \in {"provisional", "access"}
    <3>1. program'[d] = program[d]
      BY <2>2, Answers, NoWorker DEF GetsOn
    <3> QED BY <2>2, <3>1 DEF CallsOK, ServesOK
  <2> QED BY <2>1, <2>2 DEF ServesOK
<1>6. ASSUME NEW d \in Dids, program'[d].step \in SessionCalls
      PROVE  \/ program'[d] = program[d]
             \/ program[d].worker = t /\ frame'[t] = NoFrame /\ program[d].step \in SessionCalls
  BY <1>6, Answers DEF GetsOn, Aloof, SessionCalls
<1>7. SidsOK'
  <2>1. ASSUME NEW d \in Dids, program'[d].step \in SessionCalls PROVE program'[d].sid \in Sids
    BY <1>6, <2>1, Answers DEF CallsOK, SidsOK
  <2>2. ASSUME NEW d \in Dids, program'[d].sid # None
        PROVE  sessions'[program'[d].sid].life # "unused"
    BY <1>2, <1>4, <2>2, Answers DEF CallsOK, SidsOK
  <2>3. ASSUME NEW u \in Threads, frame'[u].sid # None
        PROVE  sessions'[frame'[u].sid].life # "unused"
    BY <1>2, <1>3, <1>4, <2>3 DEF CallsOK, SidsOK
  <2>4. ASSUME NEW d \in Dids, NEW e \in Dids, program'[d].sid # None,
               program'[d].sid = program'[e].sid
        PROVE  d = e
    BY <2>4, Answers DEF CallsOK, SidsOK
  <2> QED BY <2>1, <2>2, <2>3, <2>4 DEF SidsOK
<1>8. OneCall'
  <2>1. ASSUME NEW d \in Dids, NEW u \in Threads, program'[d].step \in SessionCalls,
               frame'[u].sid = program'[d].sid
        PROVE  program'[d].worker = u
    <3>1. program[d].sid \in Sids /\ program'[d].sid = program[d].sid /\ frame[u].sid = program[d].sid
      BY <1>2, <1>3, <1>6, <2>1, Answers, NoneAssumption DEF CallsOK, SidsOK
    <3>2. CASE program'[d] = program[d]
      BY <2>1, <3>1, <3>2 DEF CallsOK, OneCall
    <3>3. CASE program[d].worker = t /\ frame'[t] = NoFrame /\ program[d].step \in SessionCalls
      BY <2>1, <3>1, <3>3, NoneAssumption DEF CallsOK, OneCall, NoFrame
    <3> QED BY <1>6, <2>1, <3>2, <3>3
  <2> QED BY <2>1 DEF OneCall
<1>9. KeysOK'
  <2>1. ASSUME NEW d \in Dids, program'[d].sid # None,
               sessions'[program'[d].sid].state # "AUTHENTICATED"
        PROVE  sessions'[program'[d].sid].did = d
    <3>1. program'[d].sid = program[d].sid /\ program[d].sid \in Sids
      BY <1>2, <2>1, Answers
    <3>2. CASE sessions'[program[d].sid] = sessions[program[d].sid]
      BY <2>1, <3>1, <3>2 DEF CallsOK, KeysOK
    <3>3. CASE sessions'[program[d].sid] # sessions[program[d].sid]
      <4>1. /\ frame[t].sid = program[d].sid
            /\ NewState(t, sessions'[frame[t].sid].state, sessions'[frame[t].sid].did)
        BY <1>1, <3>1, <3>3 DEF Shape, MovesSession
      <4>2. CASE pc[t] = "pubkey_write"
        BY <2>1, <3>1, <4>1, <4>2 DEF NewState, CallsOK, KeysOK, PubkeySteps
      <4>3. CASE pc[t] # "pubkey_write"
        <5>1. pc[t] \in {"pop_verify", "pop_fail", "pop_pass", "meta_accept"}
              /\ sessions'[frame[t].sid].did = Sess(t).did
          BY <4>1, <4>3 DEF NewState
        <5>2. Sess(t).state # "AUTHENTICATED"
          BY <5>1 DEF SessionInv, StatesOK, SessionAt, Sess, Proving, Proven
        <5> QED BY <2>1, <3>1, <4>1, <5>1, <5>2 DEF CallsOK, KeysOK, Sess
      <4> QED BY <4>2, <4>3
    <3> QED BY <3>2, <3>3
  <2>2. ASSUME NEW d \in Dids, program'[d].sid # None, NEW u \in Threads,
               pc'[u] \in PubkeySteps, frame'[u].sid = program'[d].sid
        PROVE  frame'[u].did = d
    BY <1>3, <2>2, Answers DEF CallsOK, KeysOK
  <2> QED BY <2>1, <2>2 DEF KeysOK
<1> QED BY <1>5, <1>7, <1>8, <1>9 DEF CallsOK

\* Only the last step of /register/pop makes a device known.
LEMMA FogKnows ==
  ASSUME TypeInv, SessionInv, ClaimsOK, NEW t \in Threads, Shape(t), NEW d \in Dids,
         ~Known(d), Known(d)'
  PROVE  /\ pc[t] = "pop_upsert" /\ Sess(t).did = d /\ frame[t].sid \in Sids
         /\ Sess(t).state = "POP_VERIFIED" /\ Stored(frame[t].sid)
<1>1. pc[t] = "pop_upsert" /\ Sess(t).did = d
  BY DEF Shape, Learns, Known
<1>2. frame[t].sid \in Sids
  BY <1>1, KeyLocals DEF KeySteps
<1> QED BY <1>1, <1>2 DEF SessionInv, StatesOK, SessionAt, Proven, Sess, ClaimsOK, Winning

\* A proof of possession that has not failed by now had not failed before.
LEMMA FogWins ==
  ASSUME TypeInv, SessionInv, ClaimsOK, NEW t \in Threads, Shape(t), NEW u \in Threads,
         Winning(u)'
  PROVE  /\ Winning(u) /\ frame'[u].sid = frame[u].sid /\ frame[u].sid \in Sids
         /\ Stored(frame[u].sid) /\ Sess(u).did \in Dids
         /\ Sess(u).state \in {"KEY_SUBMITTED", "POP_VERIFIED"}
         /\ sessions'[frame[u].sid].did = Sess(u).did
         /\ sessions'[frame[u].sid].life = Sess(u).life
<1>1. /\ Winning(u) /\ frame'[u].sid = frame[u].sid
      /\ u = t => pc[t] # "pubkey_write"
  BY DEF Shape, Learns, Advances, Winning, SameRequest, PopSteps
<1>2. pc[u] \in KeySteps
  BY <1>1 DEF Winning, KeySteps
<1>3. frame[u].sid \in Sids /\ Sess(u).did \in Dids
  BY <1>2, KeyLocals
<1>4. Stored(frame[u].sid)
  BY <1>1 DEF ClaimsOK
<1>5. Sess(u).state \in {"KEY_SUBMITTED", "POP_VERIFIED"}
  BY <1>1 DEF Winning, SessionInv, StatesOK, SessionAt, Proving, Proven, Sess
<1>6. CASE u = t
  BY <1>1, <1>3, <1>4, <1>5, <1>6 DEF Shape, MovesSession, NewState, Sess
<1>7. CASE u # t
  <2>1. frame[u].sid # frame[t].sid
    BY <1>3, <1>7, NoneAssumption DEF SessionInv, Exclusive
  <2>2. sessions'[frame[u].sid] = sessions[frame[u].sid]
    BY <1>3, <2>1 DEF Shape, MovesSession
  <2> QED BY <1>1, <1>3, <1>4, <1>5, <2>2 DEF Sess
<1> QED BY <1>6, <1>7

\* It creates a record only for the one program that may still have it.
LEMMA FogClaims ==
  ASSUME TypeInv, SessionInv, ProgramOK, CallsOK, ClaimsOK, NEW t \in Threads, FogStep(t)
  PROVE  ClaimsOK'
<1>1. Shape(t)
  BY StepShape DEF FogStep
<1>2. ASSUME NEW u \in Threads, Winning(u)'
      PROVE  Sess(u)'.did = Sess(u).did /\ Stored(frame[u].sid)' /\ ~Known(Sess(u).did)'
  <2>1. /\ Winning(u) /\ frame'[u].sid = frame[u].sid
        /\ Stored(frame[u].sid) /\ Sess(u).did \in Dids
        /\ sessions'[frame[u].sid].did = Sess(u).did
        /\ sessions'[frame[u].sid].life = Sess(u).life
    BY <1>1, <1>2, FogWins
  <2>2. Sess(u)'.did = Sess(u).did /\ Stored(frame[u].sid)'
    BY <2>1 DEF Sess, Stored
  <2>3. ~Known(Sess(u).did)
    BY <2>1 DEF ClaimsOK
  <2>4. ASSUME devices'[Sess(u).did] # None PROVE FALSE
    <3>1. pc[t] = "pop_upsert" /\ Sess(t).did = Sess(u).did
      BY <1>1, <2>1, <2>3, <2>4 DEF Shape, Learns
    <3>2. u = t
      BY <2>1, <3>1 DEF ClaimsOK, Winning
    <3> QED BY <1>1, <1>2, <3>1, <3>2 DEF Shape, Learns, Winning
  <2>5. ~Known(Sess(u).did)'
    BY <2>2, <2>4 DEF Known
  <2> QED BY <2>2, <2>5
<1>3. ASSUME NEW u \in Threads, NEW w \in Threads, Winning(u)', Winning(w)',
             Sess(u)'.did = Sess(w)'.did
      PROVE  u = w
  <2>1. Winning(u) /\ Winning(w)
    BY <1>1, <1>3, FogWins
  <2>2. Sess(u).did = Sess(w).did
    BY <1>2, <1>3
  <2> QED BY <2>1, <2>2 DEF ClaimsOK
<1>4. ASSUME NEW d \in Dids, Unclaimed(d) PROVE Unclaimed(d)'
  <2>1. ASSUME Known(d)' PROVE FALSE
    BY <1>1, <1>4, <2>1, FogKnows DEF Unclaimed, Winning
  <2>2. ASSUME NEW u \in Threads, Winning(u)', Sess(u)'.did = d PROVE FALSE
    <3>1. Winning(u)
      BY <1>1, <2>2, FogWins
    <3>2. Sess(u).did = d
      BY <1>2, <2>2
    <3> QED BY <1>4, <3>1, <3>2 DEF Unclaimed
  <2> QED BY <2>1, <2>2 DEF Unclaimed
<1>5. ASSUME NEW d \in Dids, Calling(d, "pop")' PROVE Unclaimed(d)'
  <2>1. CASE program'[d] = program[d]
    BY <1>4, <1>5, <2>1 DEF Calling, ClaimsOK
  <2>2. CASE program[d].worker = t /\ GetsOn(d, t, program'[d])
    BY <1>4, <1>5, <2>2 DEF Calling, GetsOn, Aloof, SessionCalls, ClaimsOK
  <2> QED BY <2>1, <2>2, Answers
<1>6. ASSUME NEW d \in Dids, NEW u \in Threads, program'[d].worker = u
      PROVE  program'[d] = program[d] /\ program[d].worker = u
  BY <1>6, Answers, NoWorker DEF GetsOn
<1>7. ASSUME NEW d \in Dids, NEW u \in Threads, program'[d].worker = u, pc'[u] = "pubkey_write"
      PROVE  Unclaimed(d)'
  <2>1. CASE u # t
    BY <1>1, <1>4, <1>6, <1>7, <2>1 DEF Shape, Advances, ClaimsOK
  <2>2. CASE u = t
    <3>1. program[d].worker = t /\ pc[t] = "pubkey_in_use"
          /\ ~did_in_use(frame[t].did, frame[t].sid)
      BY <1>1, <1>6, <1>7, <2>2 DEF Shape, Learns
    <3>2. frame[t].did = d /\ frame[t].sid = program[d].sid
      BY <3>1 DEF CallsOK, ServesOK, Serves, PubkeySteps, PopSteps, MetaSteps, IssueSteps
    <3>3. ~Known(d)
      BY <3>1, <3>2 DEF ClaimsOK, Claimed, did_in_use
    <3>4. ASSUME NEW w \in Threads, Winning(w), Sess(w).did = d PROVE FALSE
      <4>1. pc[w] \in KeySteps /\ w # t
        BY <3>1, <3>4 DEF Winning, KeySteps
      <4>2. frame[w].sid \in Sids
        BY <4>1, KeyLocals
      <4>3. frame[w].sid # frame[t].sid
        BY <4>1, <4>2, NoneAssumption DEF SessionInv, Exclusive
      <4>4. Stored(frame[w].sid) /\ Sess(w).state # "AUTHENTICATED"
        BY <3>4 DEF ClaimsOK, Winning, SessionInv, StatesOK, SessionAt, Proving, Proven, Sess
      <4> QED BY <3>1, <3>2, <3>4, <4>2, <4>3, <4>4 DEF did_in_use, Sess
    <3> QED BY <1>4, <3>3, <3>4 DEF Unclaimed
  <2> QED BY <2>1, <2>2
<1>8. ASSUME NEW d \in Dids, NEW u \in Threads, program'[d].worker = u,
             pc'[u] = "pubkey_in_use", Known(d)'
      PROVE  Claimed(d)'
  <2>1. program'[d] = program[d] /\ program[d].worker = u
    BY <1>6, <1>8
  <2>2. CASE Known(d)
    <3>1. u # t
      <4>1. ASSUME u = t PROVE FALSE
        <5>1. SameRequest(pc[t], pc'[t]) /\ frame'[t].did = frame[t].did
          BY <2>1, <4>1, Answers, NoWorker DEF GetsOn
        <5>2. frame[t].did = d
          BY <1>8, <2>1, <4>1, <5>1 DEF SameRequest, CallsOK, ServesOK, Serves, PubkeySteps,
             PopSteps, MetaSteps, IssueSteps
        <5> QED BY <1>1, <1>8, <2>2, <4>1, <5>2 DEF Shape, Learns
      <4> QED BY <4>1
    <3>2. pc[u] = "pubkey_in_use" /\ Claimed(d)
      BY <1>1, <1>8, <2>1, <2>2, <3>1 DEF Shape, Advances, ClaimsOK
    <3>3. PICK s \in Sids \ {program[d].sid} :
            /\ Stored(s) /\ sessions[s].did = d
            /\ sessions[s].state \in {"POP_VERIFIED", "METADATA_ACCEPTED"}
      BY <3>2 DEF Claimed
    <3>4. CASE sessions'[s] = sessions[s]
      BY <2>1, <3>3, <3>4 DEF Claimed, Stored
    <3>5. CASE sessions'[s] # sessions[s]
      <4>1. /\ frame[t].sid = s /\ sessions'[s].life = sessions[s].life
            /\ NewState(t, sessions'[s].state, sessions'[s].did)
        BY <1>1, <3>3, <3>5 DEF Shape, MovesSession, Sess
      <4>2. pc[t] \in {"pop_verify", "meta_accept"}
        BY <3>3, <4>1 DEF NewState, SessionInv, StatesOK, SessionAt, PubkeySteps, Proving, Proven
      <4>3. /\ sessions'[s].did = d
            /\ sessions'[s].state \in {"POP_VERIFIED", "METADATA_ACCEPTED"}
        BY <3>3, <4>1, <4>2 DEF NewState, Sess
      <4> QED BY <2>1, <3>3, <4>1, <4>3 DEF Claimed, Stored
    <3> QED BY <3>4, <3>5
  <2>3. CASE ~Known(d)
    <3>1. /\ pc[t] = "pop_upsert" /\ Sess(t).did = d /\ frame[t].sid \in Sids
          /\ Sess(t).state = "POP_VERIFIED" /\ Stored(frame[t].sid)
      BY <1>1, <1>8, <2>3, FogKnows
    <3>2. u # t /\ pc[u] = "pubkey_in_use"
      BY <1>1, <1>8, <3>1 DEF Shape, Advances, SameRequest, PopSteps
    <3>3. frame[u].sid = program[d].sid
      BY <2>1, <3>2 DEF CallsOK, ServesOK, Serves, PubkeySteps, PopSteps, MetaSteps, IssueSteps
    <3>4. frame[t].sid # program[d].sid
      BY <3>1, <3>2, <3>3, NoneAssumption DEF SessionInv, Exclusive
    <3>5. sessions'[frame[t].sid] = Sess(t)
      BY <1>1, <3>1 DEF Shape, MovesSession, NewState, Sess
    <3> QED BY <2>1, <3>1, <3>4, <3>5 DEF Claimed, Stored, Sess
  <2> QED BY <2>2, <2>3
<1> QED BY <1>2, <1>3, <1>5, <1>7, <1>8 DEF ClaimsOK

-----------------------------------------------------------------------------
(* The calls of a program.                                                 *)

\* A request of d reaches the idle worker t, and t has one more to serve.
Sends(d, t) ==
  /\ program[d].worker = None /\ pc[t] = "idle"
  /\ \A u \in Threads \ {t} : pc'[u] = pc[u] /\ frame'[u] = frame[u]
  /\ UNCHANGED <<sessions, devices>>
  /\ program' = [program EXCEPT ![d] = [program[d] EXCEPT !.worker = t]]
  /\ Serves(program[d], d, pc'[t], frame'[t])
  /\ pc'[t] \in {"pubkey_known", "pop_used", "meta_record", "issue_known", "proof_package"}
  /\ IF program[d].step = "fetch" THEN frame'[t].sid = None
     ELSE /\ program[d].step \in SessionCalls
          /\ frame'[t].sid = program[d].sid /\ Stored(program[d].sid)
  /\ program[d].step = "pop" => sessions[program[d].sid].state = "KEY_SUBMITTED"

\* These are the calls that the fog hands to a thread.
LEMMA CallSends ==
  ASSUME TypeInv, ProgramOK, CallsOK, NEW d \in Dids, NEW t \in Threads,
         \/ submit_public_key(d, t) \/ prove_possession(d, t) \/ submit_metadata(d, t)
         \/ request_token(d, t) \/ fetch_proof(d, t)
  PROVE  Sends(d, t)
<1>1. TypeOK /\ (program[d].step \in SessionCalls => program[d].sid \in Sids)
  BY DEF TypeInv, CallsOK, SidsOK
<1>2. ASSUME NEW step, NEW f, Call(t, step, f)
      PROVE  /\ pc'[t] = step /\ frame'[t] = f
             /\ \A u \in Threads \ {t} : pc'[u] = pc[u] /\ frame'[u] = frame[u]
  BY <1>1, <1>2 DEF Call, Goto, TypeOK
<1>3. \A s \in Sids : Open(s) => Stored(s)
  BY DEF Open, Stored
<1>4. CASE submit_public_key(d, t)
  <2> DEFINE f == [NoFrame EXCEPT !.sid = program[d].sid, !.did = d]
  <2>1. /\ Call(t, "pubkey_known", f) /\ pc[t] = "idle" /\ Open(program[d].sid)
        /\ UNCHANGED <<sessions, devices>>
    BY <1>4 DEF submit_public_key, RegisterPubkey, Idle
  <2>2. f.sid = program[d].sid /\ f.did = d
    BY DEF NoFrame
  <2> HIDE DEF f
  <2>3. program[d].step = "pubkey" /\ program[d].worker = None
        /\ program' = [program EXCEPT ![d] = [program[d] EXCEPT !.worker = t]]
    BY <1>4 DEF submit_public_key, Calling, Send, Become
  <2> QED BY <1>1, <1>2, <1>3, <2>1, <2>2, <2>3 DEF Sends, Serves, PubkeySteps, SessionCalls
<1>5. CASE prove_possession(d, t)
  <2>1. /\ pc[t] = "idle" /\ Open(program[d].sid) /\ UNCHANGED <<sessions, devices>>
        /\ sessions[program[d].sid].state = "KEY_SUBMITTED"
    BY <1>5 DEF prove_possession, RegisterPop, Require, Idle
  <2>2. PICK genuine \in BOOLEAN :
          Call(t, "pop_used",
               IF genuine THEN [NoFrame EXCEPT !.sid = program[d].sid,
                                               !.did = sessions[program[d].sid].did,
                                               !.chal = sessions[program[d].sid].chal]
                          ELSE [NoFrame EXCEPT !.sid = program[d].sid])
    BY <1>5 DEF prove_possession, RegisterPop
  <2> DEFINE f == IF genuine THEN [NoFrame EXCEPT !.sid = program[d].sid,
                                               !.did = sessions[program[d].sid].did,
                                               !.chal = sessions[program[d].sid].chal]
                          ELSE [NoFrame EXCEPT !.sid = program[d].sid]
  <2>3. f.sid = program[d].sid
    BY DEF NoFrame
  <2>4. Call(t, "pop_used", f)
    BY <2>2
  <2> HIDE DEF f
  <2>5. program[d].step = "pop" /\ program[d].worker = None
        /\ program' = [program EXCEPT ![d] = [program[d] EXCEPT !.worker = t]]
    BY <1>5 DEF prove_possession, Calling, Send, Become
  <2>6. /\ pc'[t] = "pop_used" /\ frame'[t].sid = program[d].sid
        /\ \A u \in Threads \ {t} : pc'[u] = pc[u] /\ frame'[u] = frame[u]
    BY <1>2, <2>3, <2>4
  <2>7. Stored(program[d].sid)
    BY <1>1, <1>3, <2>1, <2>5 DEF SessionCalls
  <2> HIDE <2>2
  <2> QED BY <2>1, <2>5, <2>6, <2>7 DEF Sends, Serves, PopSteps, SessionCalls
<1>6. CASE submit_metadata(d, t)
  <2> DEFINE f == [NoFrame EXCEPT !.sid = program[d].sid, !.roleOk = TRUE]
  <2>1. /\ Call(t, "meta_record", f) /\ pc[t] = "idle" /\ Open(program[d].sid)
        /\ UNCHANGED <<sessions, devices>>
    BY <1>6 DEF submit_metadata, RegisterMetadata, Idle
  <2>2. f.sid = program[d].sid
    BY DEF NoFrame
  <2> HIDE DEF f
  <2>3. program[d].step = "metadata" /\ program[d].worker = None
        /\ program' = [program EXCEPT ![d] = [program[d] EXCEPT !.worker = t]]
    BY <1>6 DEF submit_metadata, Calling, Send, Become
  <2> QED BY <1>1, <1>2, <1>3, <2>1, <2>2, <2>3 DEF Sends, Serves, MetaSteps, SessionCalls
<1>7. CASE request_token(d, t)
  <2>1. PICK k \in FreshTokens :
          Call(t, "issue_known", [NoFrame EXCEPT !.sid = program[d].sid, !.tok = k,
                                                 !.did = sessions[program[d].sid].did])
    BY <1>7 DEF request_token, TokensIssue
  <2> DEFINE f == [NoFrame EXCEPT !.sid = program[d].sid, !.tok = k,
                                  !.did = sessions[program[d].sid].did]
  <2>2. /\ pc[t] = "idle" /\ Open(program[d].sid) /\ UNCHANGED <<sessions, devices>>
        /\ sessions[program[d].sid].state = "METADATA_ACCEPTED"
    BY <1>7 DEF request_token, TokensIssue, notToken, Idle
  <2>3. program[d].step = "token" /\ program[d].worker = None
        /\ program' = [program EXCEPT ![d] = [program[d] EXCEPT !.worker = t]]
    BY <1>7 DEF request_token, Calling, Send, Become
  <2>4. program[d].sid \in Sids
    BY <1>1, <2>3 DEF SessionCalls
  <2>5. f.sid = program[d].sid /\ f.did = sessions[program[d].sid].did
    BY DEF NoFrame
  <2>6. Call(t, "issue_known", f)
    BY <2>1
  <2> HIDE DEF f
  <2>7. f.did = d
    BY <2>2, <2>4, <2>5, NoneAssumption DEF CallsOK, KeysOK
  <2>8. /\ pc'[t] = "issue_known" /\ frame'[t].sid = program[d].sid /\ frame'[t].did = d
        /\ \A u \in Threads \ {t} : pc'[u] = pc[u] /\ frame'[u] = frame[u]
    BY <1>2, <2>5, <2>6, <2>7
  <2> QED BY <1>3, <2>2, <2>3, <2>4, <2>8 DEF Sends, Serves, IssueSteps, SessionCalls
<1>8. CASE fetch_proof(d, t)
  <2> DEFINE f == [NoFrame EXCEPT !.did = d]
  <2>1. /\ Call(t, "proof_package", f) /\ pc[t] = "idle" /\ UNCHANGED <<sessions, devices>>
    BY <1>8 DEF fetch_proof, GetProof, notEpoch, Idle
  <2>2. f.sid = None /\ f.did = d
    BY DEF NoFrame
  <2> HIDE DEF f
  <2>3. program[d].step = "fetch" /\ program[d].worker = None
        /\ program' = [program EXCEPT ![d] = [program[d] EXCEPT !.worker = t]]
    BY <1>8 DEF fetch_proof, Calling, Send, Become
  <2> QED BY <1>2, <2>1, <2>2, <2>3 DEF Sends, Serves
<1> QED BY <1>4, <1>5, <1>6, <1>7, <1>8

\* No other request names the session of the program.
LEMMA SendsAlone ==
  ASSUME CallsOK, NEW d \in Dids, NEW t, program[d].worker = None, program[d].step \in SessionCalls
  PROVE  AloneIn(t, program[d].sid)
BY NoWorker DEF AloneIn, CallsOK, OneCall

\* The program waits for the worker.
LEMMA SendsProgram ==
  ASSUME ProgramOK, NEW d \in Dids, NEW t \in Threads, Sends(d, t)
  PROVE  /\ program' \in [Dids -> Program]
         /\ program'[d].worker = t /\ program'[d].step = program[d].step
         /\ program'[d].sid = program[d].sid
         /\ \A e \in Dids \ {d} : program'[e] = program[e]
<1> DEFINE new == [program[d] EXCEPT !.worker = t]
<1>1. /\ new \in Program
      /\ new.worker = t /\ new.step = program[d].step /\ new.sid = program[d].sid
  BY DEF ProgramOK, Program
<1>2. program' = [program EXCEPT ![d] = new]
  BY DEF Sends
<1> HIDE DEF new
<1> QED BY <1>1, <1>2, BecomeOther

\* A thread that serves a program is not idle.
LEMMA BusyServes ==
  ASSUME ServesOK, NEW d \in Dids, NEW t \in Threads, program[d].worker = t
  PROVE  pc[t] # "idle"
BY DEF ServesOK, Serves, PubkeySteps, PopSteps, MetaSteps, IssueSteps

\* A call that reaches the fog is served by the thread it reached.
LEMMA SendsCalls ==
  ASSUME TypeInv, ProgramOK, CallsOK, NEW d \in Dids, NEW t \in Threads, Sends(d, t)
  PROVE  CallsOK'
<1>1. /\ \A e \in Dids : program'[e].sid = program[e].sid /\ program'[e].step = program[e].step
      /\ program'[d].worker = t /\ \A e \in Dids \ {d} : program'[e] = program[e]
  BY SendsProgram
<1>2. /\ program[d].worker = None /\ pc[t] = "idle" /\ UNCHANGED sessions
      /\ \A u \in Threads \ {t} : pc'[u] = pc[u] /\ frame'[u] = frame[u]
      /\ Serves(program[d], d, pc'[t], frame'[t])
      /\ \/ program[d].step = "fetch" /\ frame'[t].sid = None
         \/ program[d].step \in SessionCalls /\ frame'[t].sid = program[d].sid
  BY DEF Sends
<1>3. \A e \in Dids : program[e].step \in SessionCalls => program[e].sid \in Sids
  BY DEF CallsOK, SidsOK
<1>4. ServesOK'
  <2>1. ASSUME NEW e \in Dids, NEW u \in Threads, program'[e].worker = u
        PROVE  Serves(program'[e], e, pc'[u], frame'[u])
    <3>1. CASE e = d
      BY <1>1, <1>2, <2>1, <3>1 DEF Serves
    <3>2. CASE e # d
      <4>1. program[e].worker = u /\ u # t
        BY <1>1, <1>2, <2>1, <3>2, BusyServes DEF CallsOK
      <4> QED BY <1>1, <1>2, <3>2, <4>1 DEF CallsOK, ServesOK
    <3> QED BY <3>1, <3>2
  <2>2. ASSUME NEW e \in Dids, program'[e].worker \in Visitors
        PROVE  program'[e].step \in {"provisional", "access"}
    BY <1>1, <2>2, VisitorAssumption DEF CallsOK, ServesOK
  <2> QED BY <2>1, <2>2 DEF ServesOK
<1>5. SidsOK'
  BY <1>1, <1>2, <1>3 DEF CallsOK, SidsOK
<1>6. OneCall'
  <2>1. ASSUME NEW e \in Dids, NEW u \in Threads, program'[e].step \in SessionCalls,
               frame'[u].sid = program'[e].sid
        PROVE  program'[e].worker = u
    <3>1. program[e].sid \in Sids
      BY <1>1, <1>3, <2>1
    <3>2. CASE u # t
      <4>1. program[e].worker = u
        BY <1>1, <1>2, <2>1, <3>2 DEF CallsOK, OneCall
      <4> QED BY <1>1, <1>2, <4>1, NoWorker
    <3>3. CASE u = t
      BY <1>1, <1>2, <2>1, <3>1, <3>3, NoneAssumption DEF CallsOK, SidsOK
    <3> QED BY <3>2, <3>3
  <2> QED BY <2>1 DEF OneCall
<1>7. KeysOK'
  <2>1. ASSUME NEW e \in Dids, program'[e].sid # None, NEW u \in Threads,
               pc'[u] \in PubkeySteps, frame'[u].sid = program'[e].sid
        PROVE  frame'[u].did = e
    <3>1. CASE u # t
      BY <1>1, <1>2, <2>1, <3>1 DEF CallsOK, KeysOK
    <3>2. CASE u = t
      <4>1. frame'[t].sid = program[d].sid /\ frame'[t].did = d
        BY <1>2, <2>1, <3>2 DEF Serves, PubkeySteps, PopSteps, MetaSteps, IssueSteps
      <4> QED BY <1>1, <2>1, <3>2, <4>1 DEF CallsOK, SidsOK
    <3> QED BY <3>1, <3>2
  <2> QED BY <1>1, <1>2, <2>1 DEF CallsOK, KeysOK
<1> QED BY <1>4, <1>5, <1>6, <1>7 DEF CallsOK

\* The proof of possession it sends is the only one under way for its key.
LEMMA SendsClaims ==
  ASSUME TypeInv, ProgramOK, CallsOK, ClaimsOK, NEW d \in Dids, NEW t \in Threads, Sends(d, t)
  PROVE  ClaimsOK'
<1>1. /\ \A e \in Dids : program'[e].sid = program[e].sid /\ program'[e].step = program[e].step
      /\ program'[d].worker = t /\ \A e \in Dids \ {d} : program'[e] = program[e]
  BY SendsProgram
<1>2. /\ program[d].worker = None /\ pc[t] = "idle" /\ UNCHANGED <<sessions, devices>>
      /\ \A u \in Threads \ {t} : pc'[u] = pc[u] /\ frame'[u] = frame[u]
      /\ Serves(program[d], d, pc'[t], frame'[t])
      /\ pc'[t] \in {"pubkey_known", "pop_used", "meta_record", "issue_known", "proof_package"}
  BY DEF Sends
<1>3. ASSUME Winning(t)'
      PROVE  /\ Sess(t)'.did = d /\ Stored(frame[t].sid)' /\ Unclaimed(d)
  <2>1. program[d].step = "pop" /\ frame'[t].sid = program[d].sid
    BY <1>2, <1>3 DEF Winning, Serves, PubkeySteps, PopSteps, MetaSteps, IssueSteps
  <2>2. program[d].sid \in Sids /\ Stored(program[d].sid)
        /\ sessions[program[d].sid].state = "KEY_SUBMITTED"
    BY <2>1 DEF Sends, CallsOK, SidsOK, SessionCalls
  <2>3. sessions[program[d].sid].did = d
    BY <2>2, NoneAssumption DEF CallsOK, KeysOK
  <2> QED BY <1>2, <2>1, <2>2, <2>3 DEF Sess, Stored, ClaimsOK, Calling
<1>4. ASSUME NEW u \in Threads \ {t}, Winning(u)'
      PROVE  Winning(u) /\ Sess(u)' = Sess(u) /\ Stored(frame[u].sid)' /\ ~Known(Sess(u).did)'
  <2>1. Winning(u) /\ frame'[u] = frame[u]
    BY <1>2, <1>4 DEF Winning
  <2> QED BY <1>2, <2>1 DEF Sess, Stored, Known, ClaimsOK
<1>5. ASSUME NEW u \in Threads, Winning(u)' PROVE Stored(frame[u].sid)' /\ ~Known(Sess(u).did)'
  BY <1>2, <1>3, <1>4, <1>5 DEF Unclaimed, Known
<1>6. ASSUME NEW u \in Threads, NEW w \in Threads, Winning(u)', Winning(w)',
             Sess(u)'.did = Sess(w)'.did
      PROVE  u = w
  BY <1>3, <1>4, <1>6 DEF Unclaimed, ClaimsOK
<1>7. ASSUME NEW e \in Dids \ {d}, Unclaimed(e) PROVE Unclaimed(e)'
  BY <1>2, <1>3, <1>4, <1>7 DEF Unclaimed, Known
<1>8. ASSUME NEW e \in Dids, Calling(e, "pop")' PROVE Unclaimed(e)'
  BY <1>1, <1>7, <1>8, NoWorker DEF Calling, ClaimsOK
<1>9. ASSUME NEW e \in Dids, NEW u \in Threads, program'[e].worker = u,
             pc'[u] \in {"pubkey_write", "pubkey_in_use"}
      PROVE  program[e].worker = u /\ e # d /\ pc'[u] = pc[u]
  BY <1>1, <1>2, <1>9
<1>10. ASSUME NEW e \in Dids, NEW u \in Threads, program'[e].worker = u, pc'[u] = "pubkey_write"
       PROVE  Unclaimed(e)'
  BY <1>7, <1>9, <1>10 DEF ClaimsOK
<1>11. ASSUME NEW e \in Dids, NEW u \in Threads, program'[e].worker = u,
              pc'[u] = "pubkey_in_use", Known(e)'
       PROVE  Claimed(e)'
  BY <1>1, <1>2, <1>9, <1>11 DEF ClaimsOK, Known, Claimed, Stored
<1> QED BY <1>5, <1>6, <1>8, <1>10, <1>11 DEF ClaimsOK

\* A new session, which no request and no other program knows.
LEMMA StartCalls ==
  ASSUME TypeInv, ProgramOK, CallsOK, NEW d \in Dids, NEW t \in Threads, register_start(d, t)
  PROVE  CallsOK' /\ program' \in [Dids -> Program]
<1>1. PICK s \in Sids : /\ sessions[s].life = "unused" /\ RegisterStart(t, s)
                        /\ Become(d, [program[d] EXCEPT !.step = "pubkey", !.sid = s])
  BY DrawnIsFresh DEF register_start
<1> DEFINE new == [program[d] EXCEPT !.step = "pubkey", !.sid = s]
<1>2. /\ new \in Program /\ new.step = "pubkey" /\ new.sid = s /\ new.worker = None
      /\ program' = [program EXCEPT ![d] = new]
  BY <1>1 DEF register_start, Calling, Become, ProgramOK, Program
<1> HIDE DEF new
<1>3. /\ program' \in [Dids -> Program] /\ program'[d] = new
      /\ \A e \in Dids \ {d} : program'[e] = program[e]
  BY <1>2, BecomeOther
<1>4. /\ UNCHANGED <<pc, frame>> /\ sessions'[s] = NewSession
      /\ \A z \in Sids \ {s} : sessions'[z] = sessions[z]
  BY <1>1 DEF RegisterStart, TypeInv, TypeOK
<1>5. /\ \A e \in Dids : program[e].sid \in Sids \cup {None} /\ program[e].sid # s
      /\ \A u \in Threads : frame[u].sid \in Sids \cup {None} /\ frame[u].sid # s
  BY <1>1, NoneAssumption DEF CallsOK, SidsOK, TypeInv, TypeOK, Frame, ProgramOK, Program
<1>6. ServesOK'
  BY <1>2, <1>3, <1>4, NoWorker DEF CallsOK, ServesOK
<1>7. SidsOK'
  BY <1>2, <1>3, <1>4, <1>5 DEF CallsOK, SidsOK, NewSession
<1>8. OneCall'
  BY <1>2, <1>3, <1>4, <1>5 DEF CallsOK, OneCall
<1>9. KeysOK'
  BY <1>2, <1>3, <1>4, <1>5 DEF CallsOK, KeysOK, NewSession
<1> QED BY <1>3, <1>6, <1>7, <1>8, <1>9 DEF CallsOK

\* It takes nothing from the others.
LEMMA StartClaims ==
  ASSUME TypeInv, ProgramOK, CallsOK, ClaimsOK, NEW d \in Dids, NEW t \in Threads,
         register_start(d, t)
  PROVE  ClaimsOK'
<1>1. PICK s \in Sids : /\ sessions[s].life = "unused" /\ RegisterStart(t, s)
                        /\ Become(d, [program[d] EXCEPT !.step = "pubkey", !.sid = s])
  BY DrawnIsFresh DEF register_start
<1> DEFINE new == [program[d] EXCEPT !.step = "pubkey", !.sid = s]
<1>2. /\ new \in Program /\ new.step = "pubkey" /\ new.sid = s /\ new.worker = None
      /\ program' = [program EXCEPT ![d] = new]
  BY <1>1 DEF register_start, Calling, Become, ProgramOK, Program
<1> HIDE DEF new
<1>3. program'[d] = new /\ \A e \in Dids \ {d} : program'[e] = program[e]
  BY <1>2, BecomeOther
<1>4. /\ UNCHANGED <<pc, frame, devices>>
      /\ \A z \in Sids \ {s} : sessions'[z] = sessions[z]
  BY <1>1 DEF RegisterStart, TypeInv, TypeOK
<1>5. ASSUME NEW u \in Threads, Winning(u)'
      PROVE  Winning(u) /\ Sess(u)' = Sess(u) /\ Stored(frame[u].sid)' /\ ~Known(Sess(u).did)'
  <2>1. Winning(u) /\ Stored(frame[u].sid) /\ ~Known(Sess(u).did) /\ frame[u].sid \in Sids
    BY <1>4, <1>5, KeyLocals DEF Winning, KeySteps, ClaimsOK
  <2>2. frame[u].sid # s
    BY <1>1, <2>1 DEF Stored
  <2> QED BY <1>4, <2>1, <2>2 DEF Sess, Stored, Known
<1>6. ASSUME NEW e \in Dids, Unclaimed(e) PROVE Unclaimed(e)'
  BY <1>4, <1>5, <1>6 DEF Unclaimed, Known
<1>7. ASSUME NEW e \in Dids, NEW u \in Threads, program'[e].worker = u
      PROVE  program'[e] = program[e]
  BY <1>2, <1>3, <1>7, NoWorker
<1>8. ASSUME NEW e \in Dids, Claimed(e), program'[e] = program[e] PROVE Claimed(e)'
  BY <1>1, <1>4, <1>8 DEF Claimed, Stored
<1>9. ASSUME NEW e \in Dids, Calling(e, "pop")' PROVE Unclaimed(e)'
  BY <1>2, <1>3, <1>6, <1>9 DEF Calling, ClaimsOK
<1>10. ASSUME NEW e \in Dids, NEW u \in Threads, program'[e].worker = u
       PROVE  /\ pc'[u] = "pubkey_write" => Unclaimed(e)'
              /\ pc'[u] = "pubkey_in_use" /\ Known(e)' => Claimed(e)'
  BY <1>4, <1>6, <1>7, <1>8, <1>10 DEF ClaimsOK, Known
<1>11. ASSUME NEW u \in Threads, NEW w \in Threads, Winning(u)', Winning(w)',
              Sess(u)'.did = Sess(w)'.did
       PROVE  u = w
  BY <1>5, <1>11 DEF ClaimsOK
<1> QED BY <1>5, <1>9, <1>10, <1>11 DEF ClaimsOK

-----------------------------------------------------------------------------
(* Every step of the composition.                                          *)

\* A step that leaves the node alone is beside the programs' calls.
LEMMA AsideBackground == ASSUME UNCHANGED vars PROVE Background
BY DEF vars, fogVars, Background, Stored, Known

\* A program is told that its session expired: no thread works on it.
LEMMA LostBackground ==
  ASSUME TypeInv, ProgramOK, CallsOK, NEW d \in Dids, NEW t \in Threads, SessionLost(d, t)
  PROVE  /\ Background /\ program' \in [Dids -> Program]
         /\ \A e \in Dids : Unaware(e)
<1>1. /\ program[d].step \in SessionCalls /\ program[d].worker = None
      /\ SessionGone(t, program[d].sid) /\ program' = [program EXCEPT ![d] = Without(d)]
  BY DEF SessionLost, Calling, Become, SessionCalls
<1>2. program' \in [Dids -> Program] /\ \A e \in Dids : Unaware(e)
  BY <1>1, WithoutAloof, BecomeOther DEF Unaware
<1> DEFINE own == program[d].sid
           new == [sessions[own] EXCEPT !.life = "gone"]
<1>3. own \in Sids /\ sessions[own] \in Session /\ sessions \in [Sids -> Session]
  BY <1>1 DEF CallsOK, SidsOK, TypeInv, TypeOK
<1>4. new.life = "gone" /\ new.state = sessions[own].state /\ new.did = sessions[own].did
  BY <1>3 DEF Session
<1>5. UNCHANGED <<pc, frame, devices>> /\ sessions' = [sessions EXCEPT ![own] = new]
  BY <1>1, <1>3 DEF SessionGone
<1> HIDE DEF new
<1>6. sessions'[own] = new /\ \A s \in Sids \ {own} : sessions'[s] = sessions[s]
  BY <1>3, <1>5
<1>7. Background
  BY <1>1, <1>4, <1>5, <1>6 DEF Background, Stored, Known
<1> QED BY <1>2, <1>7

\* The timer and the administrator.
LEMMA ElsewhereBackground ==
  ASSUME TypeInv, NEW t \in Threads,
         AutoClose(t) \/ (Idle(t) /\ Operator(t))
  PROVE  Background
<1>1. TypeOK
  BY DEF TypeInv
<1>2. ASSUME NEW step, step \notin Serving, NEW f, f.sid = None, Call(t, step, f),
             pc[t] = "idle", UNCHANGED sessions, \A d \in Dids : devices'[d] # None <=> Known(d)
      PROVE  Background
  <2>1. pc'[t] = step /\ frame'[t] = f
        /\ \A u \in Threads \ {t} : pc'[u] = pc[u] /\ frame'[u] = frame[u]
    BY <1>1, <1>2 DEF TypeOK, Call, Goto
  <2>2. "idle" \notin Serving
    BY DEF Serving, PubkeySteps, PopSteps, MetaSteps, IssueSteps
  <2> QED BY <1>2, <2>1, <2>2 DEF Background, Stored
<1>3. CASE AutoClose(t)
  BY <1>2, <1>3 DEF AutoClose, At, NoFrame, notEpoch, Serving, PubkeySteps, PopSteps, MetaSteps,
     IssueSteps, Known
<1>4. CASE Idle(t) /\ Operator(t)
  <2>1. PICK d \in Dids : Revoke(t, d, {})
    BY <1>4 DEF Operator
  <2> DEFINE f == [NoFrame EXCEPT !.did = d, !.toks = {}]
  <2>2. f.sid = None /\ Call(t, "revoke_list", f) /\ UNCHANGED sessions /\ pc[t] = "idle"
    BY <2>1 DEF Revoke, NoFrame, notToken, Idle
  <2> HIDE DEF f
  <2>3. \A e \in Dids : devices'[e] # None <=> Known(e)
    BY <1>1, <2>1, SetStatusKnows DEF Revoke, DeviceStatus
  <2>4. "revoke_list" \notin Serving
    BY DEF Serving, PubkeySteps, PopSteps, MetaSteps, IssueSteps
  <2> QED BY <1>2, <2>2, <2>3, <2>4
<1> QED BY <1>3, <1>4

\* A session that expires is still stored.
LEMMA ExpiryBackground ==
  ASSUME TypeInv, NEW s \in Sids, SessionExpires(s) PROVE Background
<1> DEFINE new == [sessions[s] EXCEPT !.life = "expired"]
<1>1. sessions[s] \in Session /\ sessions \in [Sids -> Session]
  BY DEF TypeInv, TypeOK
<1>2. new.life = "expired" /\ new.state = sessions[s].state /\ new.did = sessions[s].did
  BY <1>1 DEF Session
<1>3. UNCHANGED <<pc, frame, devices>> /\ sessions' = [sessions EXCEPT ![s] = new]
  BY DEF SessionExpires
<1> HIDE DEF new
<1>4. sessions'[s] = new /\ \A z \in Sids \ {s} : sessions'[z] = sessions[z]
  BY <1>1, <1>3
<1> QED BY <1>2, <1>3, <1>4 DEF Background, Stored, Known

\* The programs, what they wait for, and who may still create a record.
ClientsOK == ProgramOK /\ CallsOK /\ ClaimsOK /\ SessionInv

\* A step of the composition is a step of the fog, a call of a program, a new
\* session, or beside them.
Kinds ==
  \/ \E t \in Threads : FogStep(t)
  \/ \E d \in Dids, t \in Threads :
       \/ Sends(d, t)
       \/ register_start(d, t)
  \/ Background /\ program' \in [Dids -> Program] /\ \A d \in Dids : Unaware(d)

\* That is all there is.
LEMMA NextKinds ==
  ASSUME TypeInv, ClientsOK, [DevicesNext]_allVars PROVE Kinds
<1>1. ProgramOK /\ CallsOK /\ ServesOK
  BY DEF ClientsOK, CallsOK
<1>2. ASSUME NEW d \in Dids, DeviceStep(d) PROVE Kinds
  <2>1. PICK t \in Threads : CallFog(d, t)
    BY <1>2, DrawnIsFresh DEF DeviceStep, FreeWorkers
  <2>2. CASE SessionLost(d, t)
    BY <1>1, <2>2, LostBackground DEF Kinds
  <2>3. CASE register_start(d, t)
    BY <2>3 DEF Kinds
  <2> QED BY <1>1, <2>1, <2>2, <2>3, CallSends DEF CallFog, Kinds
<1>3. ASSUME UNCHANGED vars, program' \in [Dids -> Program], \A d \in Dids : Unaware(d)
      PROVE  Kinds
  BY <1>3, AsideBackground DEF Kinds
<1>4. ASSUME NEW d \in Dids, AccessCall(d) PROVE Kinds
  BY <1>1, <1>3, <1>4, AccessCallAloof
     DEF AccessCall, get_nonce, token_outdated, token_access, verify_access, TokensAccess,
         Verify
<1>5. ASSUME NEW d \in Dids, GiveUp(d) \/ Rerun(d) PROVE Kinds
  BY <1>1, <1>3, <1>5, GiveUpAloof, RerunAloof DEF GiveUp, Rerun
<1>6. ASSUME NEW v \in Visitors, VisitStep(v) PROVE Kinds
  BY <1>1, <1>3, <1>6, VisitAloof, AccessAside DEF VisitStep
<1>7. ASSUME Background, UNCHANGED program PROVE Kinds
  BY <1>1, <1>7 DEF Kinds, Unaware, ProgramOK
<1>8. ASSUME NEW t \in Threads, TimerStep(t) PROVE Kinds
  BY <1>7, <1>8, ElsewhereBackground DEF TimerStep, deviceVars
<1>9. ASSUME NEW t \in FreeWorkers, Operator(t), UNCHANGED program PROVE Kinds
  <2>1. t \in Threads /\ Idle(t)
    BY DrawnIsFresh DEF FreeWorkers
  <2> QED BY <1>7, <1>9, <2>1, ElsewhereBackground
<1>10. ASSUME NEW s \in Sids, SessionExpires(s), UNCHANGED program PROVE Kinds
  BY <1>3, <1>7, <1>10, ExpiryBackground
<1>11. CASE UNCHANGED allVars
  BY <1>7, <1>11, AsideBackground DEF allVars, deviceVars
<1>12. ASSUME NEW t \in Threads, FogStep(t) PROVE Kinds
  BY <1>12 DEF Kinds
<1>13. ASSUME NEW token \in minted, TokenExpires(token), UNCHANGED program PROVE Kinds
  BY <1>7, <1>13, AsideBackground DEF TokenExpires
<1> QED BY <1>2, <1>4, <1>5, <1>6, <1>8, <1>9, <1>10, <1>11, <1>12, <1>13 DEF DevicesNext

\* Requests of one session do not overlap, so it goes through its states in
\* order.
LEMMA NextSessions ==
  ASSUME TypeInv, ClientsOK, [DevicesNext]_allVars PROVE SessionInv'
<1>1. SessionInv /\ CallsOK /\ \A d \in Dids : program[d].step \in SessionCalls => program[d].sid \in Sids
  BY DEF ClientsOK, CallsOK, SidsOK
<1>2. ASSUME NEW t \in Threads, FogStep(t) PROVE SessionInv'
  BY <1>1, <1>2, PubkeySession, PopSession, MetadataSession, OtherStepSession
     DEF FogStep, Step, Registering
<1>3. ASSUME NEW d \in Dids, DeviceStep(d) PROVE SessionInv'
  <2>1. PICK t \in Threads : CallFog(d, t)
    BY <1>3, DrawnIsFresh DEF DeviceStep, FreeWorkers
  <2>2. CASE register_start(d, t)
    BY <1>1, <2>2, DrawnIsFresh, SessionLifeSession DEF register_start
  <2>3. CASE SessionLost(d, t)
    BY <1>1, <2>3, SessionLifeSession DEF SessionLost, Calling, SessionCalls
  <2>4. CASE fetch_proof(d, t)
    BY <1>1, <2>4, OtherRequestSession DEF fetch_proof, EpochRequest
  <2>5. ASSUME program[d].step \in SessionCalls, program[d].worker = None
        PROVE  program[d].sid \in Sids /\ AloneIn(t, program[d].sid)
    BY <1>1, <2>5, SendsAlone
  <2>6. CASE submit_public_key(d, t) \/ prove_possession(d, t) \/ submit_metadata(d, t)
    <3>1. program[d].sid \in Sids /\ AloneIn(t, program[d].sid)
      BY <2>5, <2>6 DEF submit_public_key, prove_possession, submit_metadata, Calling, SessionCalls
    <3> QED BY <1>1, <2>6, <3>1, KeyRequestSession
            DEF submit_public_key, prove_possession, submit_metadata
  <2>7. CASE request_token(d, t)
    <3>1. program[d].sid \in Sids /\ AloneIn(t, program[d].sid)
      BY <2>5, <2>7 DEF request_token, Calling, SessionCalls
    <3> QED BY <1>1, <2>7, <3>1, IssueRequestSession DEF request_token
  <2> QED BY <2>1, <2>2, <2>3, <2>4, <2>6, <2>7 DEF CallFog
<1>4. CASE UNCHANGED vars
  BY <1>1, <1>4, ElsewhereSession DEF vars, fogVars, SessionsAside
<1>5. ASSUME NEW d \in Dids, AccessCall(d) \/ GiveUp(d) \/ Rerun(d) PROVE UNCHANGED vars
  BY <1>5 DEF AccessCall, get_nonce, token_outdated, token_access, verify_access, TokensAccess,
     Verify, GiveUp, Rerun
<1>6. ASSUME NEW v \in Visitors, VisitStep(v) PROVE UNCHANGED vars
  BY <1>6, AccessAside DEF VisitStep
<1>7. ASSUME NEW t \in Threads, TimerStep(t) PROVE SessionInv'
  BY <1>1, <1>7, OtherRequestSession DEF TimerStep
<1>8. ASSUME NEW t \in FreeWorkers, Operator(t) PROVE SessionInv'
  BY <1>1, <1>8, DrawnIsFresh, OtherRequestSession DEF Operator, FreeWorkers
<1>9. ASSUME NEW s \in Sids, SessionExpires(s) PROVE SessionInv'
  BY <1>1, <1>9, ExpirySession
<1>10. CASE UNCHANGED allVars
  BY <1>4, <1>10 DEF allVars
<1>11. ASSUME NEW token \in minted, TokenExpires(token) PROVE UNCHANGED vars
  BY <1>11 DEF TokenExpires
<1> QED BY <1>2, <1>3, <1>4, <1>5, <1>6, <1>7, <1>8, <1>9, <1>10, <1>11 DEF DevicesNext

\* Every step keeps the programs and their claims in order.
LEMMA NextClients ==
  ASSUME TypeInv, ClientsOK, [DevicesNext]_allVars PROVE ClientsOK'
<1>1. ProgramOK /\ CallsOK /\ ServesOK /\ SidsOK /\ ClaimsOK /\ SessionInv
  BY DEF ClientsOK, CallsOK
<1>2. UNCHANGED crashes
  BY <1>1, NextTraffic, TrafficNext DEF TypeInv
<1>3. SessionInv'
  BY NextSessions
<1>4. ASSUME program' \in [Dids -> Program], CallsOK', ClaimsOK' PROVE ClientsOK'
  BY <1>1, <1>2, <1>3, <1>4 DEF ClientsOK, ProgramOK
<1>5. ASSUME NEW t \in Threads, FogStep(t) PROVE ClientsOK'
  BY <1>1, <1>4, <1>5, FogPrograms, FogCalls, FogClaims
<1>6. ASSUME NEW d \in Dids, NEW t \in Threads, Sends(d, t) PROVE ClientsOK'
  BY <1>1, <1>4, <1>6, SendsProgram, SendsCalls, SendsClaims
<1>7. ASSUME NEW d \in Dids, NEW t \in Threads, register_start(d, t) PROVE ClientsOK'
  BY <1>1, <1>4, <1>7, StartCalls, StartClaims
<1>8. CASE Background /\ program' \in [Dids -> Program] /\ \A d \in Dids : Unaware(d)
  BY <1>1, <1>4, <1>8, BackgroundCalls, BackgroundClaims
<1> QED BY <1>5, <1>6, <1>7, <1>8, NextKinds DEF Kinds

-----------------------------------------------------------------------------
(* What a step does to the batch, the records and the tokens.              *)

\* Only an issued token is recorded.
LEMMA IssuedMoves == ASSUME Traffic PROVE UNCHANGED issued \/ \E t \in Threads : IssueRecord(t)
<1> SUFFICES ASSUME \A t \in Threads : ~IssueRecord(t) PROVE issued' = issued
  OBVIOUS
<1>1. ASSUME NEW t \in Threads, Registering(t) \/ RegistrationRequest(t)
      PROVE  issued' = issued
  BY <1>1 DEF Registering, RegistrationRequest, PubkeyKnown, PubkeyInUse, PubkeyWrite, PopUsed,
     PopVerify, PopFail, PopPass, PopUpsert, MetaRecord, MetaQueue, MetaAccept, MetaReply,
     RegisterStart, SessionGone, RegisterPubkey, RegisterPop, RegisterMetadata, notRegistration,
     tokenVars
<1>2. ASSUME NEW t \in Threads, Closing(t) \/ AutoClose(t) \/ \E d \in Dids : GetProof(t, d)
      PROVE  issued' = issued
  BY <1>2 DEF Closing, AutoClose, GetProof, CloseAcquire, CloseRevoked, CloseCollect,
     CloseAnchor, CloseUpdate, CloseFinish, ProofReply, notEpoch, tokenVars
<1>3. ASSUME NEW t \in Threads,
             \/ Issuing(t) \/ \E s \in Sids : TokensIssue(t, s)
             \/ \E d \in Dids : Revoke(t, d, {})
      PROVE  issued' = issued
  BY <1>3 DEF Issuing, IssueKnown, IssueEligible, IssueStatus, RevokeList, RevokeTokens,
     TokensIssue, Revoke, tokenVars
<1>4. ASSUME NEW s \in Sids, SessionExpires(s) PROVE issued' = issued
  BY <1>4 DEF SessionExpires, notRegistration, tokenVars
<1>5. CASE UNCHANGED vars
  BY <1>5 DEF vars, fogVars
<1> QED BY <1>1, <1>2, <1>3, <1>4, <1>5 DEF Traffic, Step

\* Only /register/metadata and the end of a closing change the batch.
LEMMA PendingMoves ==
  ASSUME Traffic PROVE UNCHANGED pending \/ \E t \in Threads : MetaQueue(t) \/ CloseFinish(t)
<1> SUFFICES ASSUME \A t \in Threads : ~MetaQueue(t) /\ ~CloseFinish(t) PROVE pending' = pending
  OBVIOUS
<1>1. ASSUME NEW t \in Threads, Registering(t) \/ RegistrationRequest(t)
      PROVE  pending' = pending
  BY <1>1 DEF Registering, RegistrationRequest, PubkeyKnown, PubkeyInUse, PubkeyWrite, PopUsed,
     PopVerify, PopFail, PopPass, PopUpsert, MetaRecord, MetaAccept, MetaReply, RegisterStart,
     SessionGone, RegisterPubkey, RegisterPop, RegisterMetadata, notRegistration, epochVars
<1>2. ASSUME NEW t \in Threads,
             Closing(t) \/ AutoClose(t) \/ \E d \in Dids : GetProof(t, d)
      PROVE  pending' = pending
  BY <1>2 DEF Closing, AutoClose, GetProof, CloseAcquire, CloseRevoked, CloseCollect,
     CloseAnchor, CloseUpdate, ProofReply, epochVars
<1>3. ASSUME NEW t \in Threads,
             \/ Issuing(t) \/ \E s \in Sids : TokensIssue(t, s)
             \/ \E d \in Dids : Revoke(t, d, {})
      PROVE  pending' = pending
  BY <1>3 DEF Issuing, IssueKnown, IssueEligible, IssueRecord, IssueStatus, RevokeList,
     RevokeTokens, TokensIssue, Revoke, notToken, epochVars
<1>4. ASSUME NEW s \in Sids, SessionExpires(s) PROVE pending' = pending
  BY <1>4 DEF SessionExpires, notRegistration, epochVars
<1>5. CASE UNCHANGED vars
  BY <1>5 DEF vars, fogVars
<1> QED BY <1>1, <1>2, <1>3, <1>4, <1>5 DEF Traffic, Step

\* The steps that write a record.
LEMMA DevicesMove ==
  ASSUME Traffic
  PROVE  \/ UNCHANGED devices
         \/ \E t \in Threads : \/ PopUpsert(t) \/ MetaRecord(t) \/ CloseUpdate(t) \/ IssueStatus(t)
                               \/ \E d \in Dids : Revoke(t, d, {})
<1>1. ASSUME NEW t \in Threads, ~PopUpsert(t), ~MetaRecord(t),
             Registering(t) \/ RegistrationRequest(t)
      PROVE  UNCHANGED devices
  BY <1>1 DEF Registering, RegistrationRequest, PubkeyKnown, PubkeyInUse, PubkeyWrite, PopUsed,
     PopVerify, PopFail, PopPass, MetaQueue, MetaAccept, MetaReply, RegisterStart,
     SessionGone, RegisterPubkey, RegisterPop, RegisterMetadata
<1>2. ASSUME NEW t \in Threads, ~CloseUpdate(t),
             Closing(t) \/ AutoClose(t) \/ \E d \in Dids : GetProof(t, d)
      PROVE  UNCHANGED devices
  BY <1>2 DEF Closing, AutoClose, GetProof, CloseAcquire, CloseRevoked, CloseCollect,
     CloseAnchor, CloseFinish, ProofReply
<1>3. ASSUME NEW t \in Threads, ~IssueStatus(t), Issuing(t) \/ \E s \in Sids : TokensIssue(t, s)
      PROVE  UNCHANGED devices
  BY <1>3 DEF Issuing, IssueKnown, IssueEligible, IssueRecord, RevokeList,
     RevokeTokens, TokensIssue
<1>4. ASSUME NEW s \in Sids, SessionExpires(s) PROVE UNCHANGED devices
  BY <1>4 DEF SessionExpires
<1>5. CASE UNCHANGED vars
  BY <1>5 DEF vars, fogVars
<1> QED BY <1>1, <1>2, <1>3, <1>4, <1>5 DEF Traffic, Step

\* A token that was issued stays with its device.
LEMMA TokenStays ==
  ASSUME TypeInv, FogQueue, Traffic, NEW k \in Tokens, issued[k] # None
  PROVE  issued'[k] = issued[k]
<1>1. ASSUME NEW t \in Threads, IssueRecord(t) PROVE issued'[k] = issued[k]
  <2>1. issued[frame[t].tok] = None
    BY <1>1 DEF IssueRecord, At, FogQueue, FreshAt
  <2> QED BY <1>1, <2>1 DEF IssueRecord, TypeInv, TypeOK
<1> QED BY <1>1, IssuedMoves

\* A device that closing an epoch updates has a package.
LEMMA UpdatedHasPackage ==
  ASSUME TypeInv, NEW t \in Threads, NEW d \in frame[t].todo,
         latest_package' = [latest_package EXCEPT ![d] =
            [epoch_id |-> current_epoch_id, root |-> frame[t].dids]]
  PROVE  d \in Dids /\ latest_package'[d] # None
<1>1. /\ frame[t] \in Frame /\ current_epoch_id \in Nat
      /\ latest_package \in [Dids -> ProofPackage \cup {None}]
  BY DEF TypeInv, TypeOK
<1>2. d \in Dids /\ [epoch_id |-> current_epoch_id, root |-> frame[t].dids] \in ProofPackage
  BY <1>1 DEF Frame, ProofPackage
<1> QED BY <1>1, <1>2, NoPackageAssumption

\* A revoked device stays so, unless it has a token or its epoch is committed.
LEMMA RevokedSettled ==
  ASSUME TypeInv, ClaimsOK, FogQueue, Traffic, NEW d \in Dids, d \in by_status("REVOKED")
  PROVE  Settled(d)'
<1>1. /\ Known(d) /\ devices[d].status = "REVOKED" /\ devices[d] \in DeviceRecord
      /\ devices \in [Dids -> DeviceRecord \cup {None}]
  BY DEF by_status, TypeInv, TypeOK, Known
<1>2. ASSUME devices'[d] # None, devices'[d].status = "REVOKED" PROVE Settled(d)'
  BY <1>2 DEF Settled, by_status, Known
<1>3. ASSUME NEW t \in Threads, PopUpsert(t) PROVE Settled(d)'
  <2>1. ~Known(Sess(t).did)
    BY <1>3 DEF PopUpsert, At, ClaimsOK, Winning
  <2> QED BY <1>1, <1>2, <1>3, <2>1 DEF PopUpsert, Known
<1>4. ASSUME NEW t \in Threads, MetaRecord(t) PROVE Settled(d)'
  <2> DEFINE own == Sess(t).did
             new == [devices[own] EXCEPT !.roleOk = frame[t].roleOk]
  <2>1. UNCHANGED devices \/ devices' = [devices EXCEPT ![own] = new]
    BY <1>4 DEF MetaRecord
  <2>2. own = d => new.status = "REVOKED" /\ new \in DeviceRecord
    <3>1. frame[t].roleOk \in BOOLEAN
      BY DEF TypeInv, TypeOK, Frame
    <3> QED BY <1>1, <3>1 DEF DeviceRecord
  <2> HIDE DEF new
  <2> QED BY <1>1, <1>2, <2>1, <2>2, NoRecordAssumption DEF Known
<1>5. ASSUME NEW t \in Threads, CloseUpdate(t) PROVE Settled(d)'
  <2>1. PICK e \in frame[t].todo :
          /\ Register(e)
          /\ latest_package' = [latest_package EXCEPT ![e] =
               [epoch_id |-> current_epoch_id, root |-> frame[t].dids]]
    BY <1>5 DEF CloseUpdate
  <2>2. CASE e = d
    BY <2>1, <2>2, UpdatedHasPackage DEF Settled
  <2>3. CASE e # d
    BY <1>1, <1>2, <2>1, <2>3 DEF Register, Known
  <2> QED BY <2>2, <2>3
<1>6. ASSUME NEW t \in Threads, IssueStatus(t) PROVE Settled(d)'
  <2>1. CASE frame[t].did = d
    <3>1. frame[t].tok \in Tokens /\ issued[frame[t].tok] = d
      BY <1>6, <2>1 DEF IssueStatus, At, FogQueue, FreshAt, TypeInv, FrameOK, LocalsOK, IssueSteps
    <3> QED BY <1>6, <3>1 DEF IssueStatus, tokenVars, Settled, HasToken
  <2>2. CASE frame[t].did # d
    BY <1>1, <1>2, <1>6, <2>2 DEF IssueStatus, set_status, Known
  <2> QED BY <2>1, <2>2
<1>7. ASSUME NEW t \in Threads, NEW e \in Dids, Revoke(t, e, {}) PROVE Settled(d)'
  <2> DEFINE new == [devices[e] EXCEPT !.status = "REVOKED"]
  <2>1. UNCHANGED devices \/ devices' = [devices EXCEPT ![e] = new]
    BY <1>7 DEF Revoke, set_status
  <2>2. e = d => new.status = "REVOKED" /\ new \in DeviceRecord
    BY <1>1 DEF DeviceRecord, DeviceStatus
  <2> HIDE DEF new
  <2> QED BY <1>1, <1>2, <2>1, <2>2, NoRecordAssumption DEF Known
<1> QED BY <1>1, <1>2, <1>3, <1>4, <1>5, <1>6, <1>7, DevicesMove DEF Known

\* What is settled stays settled.
LEMMA SettledStays ==
  ASSUME TypeInv, ClaimsOK, FogQueue, Traffic, NEW d \in Dids, Settled(d)
  PROVE  Settled(d)'
<1>1. CASE latest_package[d] # None
  BY <1>1, TrafficNext, PackageKept DEF TypeInv, Settled
<1>2. CASE d \in by_status("REVOKED")
  BY <1>2, RevokedSettled
<1>3. CASE HasToken(d)
  BY <1>3, TokenStays, NoneAssumption DEF HasToken, Settled
<1> QED BY <1>1, <1>2, <1>3 DEF Settled

\* A queued device leaves the batch only when it is settled.
LEMMA QueuedStays ==
  ASSUME TypeInv, ClaimsOK, FogQueue, Traffic, NEW d \in Dids, Queued(d)
  PROVE  Queued(d)'
<1>1. CASE Settled(d)
  BY <1>1, SettledStays DEF Queued
<1>2. CASE d \in pending
  <2>1. ASSUME NEW t \in Threads, CloseFinish(t) PROVE Queued(d)'
    <3>1. Settled(d)
      BY <1>2, <2>1 DEF CloseFinish, At, FogQueue, ClosingAt, Settled
    <3> QED BY <3>1, SettledStays DEF Queued
  <2>2. ASSUME NEW t \in Threads, MetaQueue(t) PROVE d \in pending'
    BY <1>2, <2>2 DEF MetaQueue
  <2> QED BY <1>2, <2>1, <2>2, PendingMoves DEF Queued
<1> QED BY <1>1, <1>2 DEF Queued

-----------------------------------------------------------------------------
(* The batch while an epoch is closed, and tokens while they are issued.   *)

\* A thread that took no step: what it knows of the batch still holds.
LEMMA ClosingStays ==
  ASSUME TypeInv, LedgerInv, ClaimsOK, FogQueue, Traffic,
         NEW u \in Threads, pc'[u] = pc[u], frame'[u] = frame[u]
  PROVE  ClosingAt(u)'
<1>1. ClosingAt(u) /\ frame[u].dids \subseteq Dids /\ pending \subseteq Dids
  BY DEF FogQueue, TypeInv, TypeOK, Frame
<1>2. \A d \in Dids : Settled(d) => Settled(d)'
  BY SettledStays
<1>3. \A d \in Dids : latest_package[d] # None => latest_package'[d] # None
  BY TrafficNext, PackageKept DEF TypeInv
<1>4. ASSUME pc[u] \in {"close_anchor", "close_update"} PROVE pending' \subseteq pending
  <2>1. lock # None
    BY <1>4, NoneAssumption DEF LedgerInv, LockOK, Locked
  <2> QED BY <2>1, PendingMoves DEF MetaQueue, CloseFinish
<1> QED BY <1>1, <1>2, <1>3, <1>4 DEF ClosingAt

\* What it knows of its token holds, when no other thread comes by that token.
LEMMA FreshStays ==
  ASSUME TypeInv, FogQueue, Traffic,
         NEW u \in Threads, pc'[u] = pc[u], frame'[u] = frame[u],
         \A w \in Threads \ {u} : frame'[w].tok \in {None, frame[w].tok} \cup FreshTokens
  PROVE  FreshAt(u)'
<1>1. pc[u] \in IssueSteps => frame[u].tok \in Tokens
  BY DEF TypeInv, FrameOK, LocalsOK
<1>2. ASSUME pc[u] \in IssueSteps
      PROVE  \A w \in Threads \ {u} : frame'[w].tok # frame'[u].tok
  BY <1>1, <1>2, NoneAssumption DEF FreshTokens, FogQueue, FreshAt
<1>3. ASSUME pc[u] \in IssueSteps PROVE issued'[frame[u].tok] = issued[frame[u].tok]
  <2>1. ASSUME NEW w \in Threads, IssueRecord(w)
        PROVE  issued'[frame[u].tok] = issued[frame[u].tok]
    <3>1. w # u
      BY <2>1 DEF IssueRecord, Goto, At, TypeInv, TypeOK
    <3>2. frame[w].tok # frame[u].tok
      BY <1>3, <3>1 DEF FogQueue, FreshAt
    <3> QED BY <1>1, <1>3, <2>1, <3>2 DEF IssueRecord, TypeInv, TypeOK
  <2> QED BY <2>1, IssuedMoves
<1> QED BY <1>2, <1>3 DEF FogQueue, FreshAt, IssueSteps

\* A thread moves, and comes by no token but a fresh one.
LEMMA MoveQueue ==
  ASSUME TypeInv, LedgerInv, ClaimsOK, FogQueue, Traffic, NEW t \in Threads,
         NEW step, NEW f, Call(t, step, f),
         f.tok \in {None, frame[t].tok} \cup FreshTokens,
         ClosingAt(t)', FreshAt(t)'
  PROVE  FogQueue'
<1>1. /\ frame'[t] = f
      /\ \A u \in Threads \ {t} : pc'[u] = pc[u] /\ frame'[u] = frame[u]
  BY DEF TypeInv, TypeOK, Call, Goto
<1> QED BY <1>1, ClosingStays, FreshStays DEF FogQueue

\* A thread that neither closes an epoch nor issues a token.
LEMMA OtherQueue ==
  ASSUME TypeInv, LedgerInv, ClaimsOK, FogQueue, Traffic, NEW t \in Threads,
         NEW step, step \notin ClosingSteps \cup IssueSteps, NEW f, Call(t, step, f),
         f.tok \in {None, frame[t].tok}
  PROVE  FogQueue'
<1>1. pc'[t] = step
  BY DEF TypeInv, TypeOK, Call, Goto
<1>2. ClosingAt(t)' /\ FreshAt(t)'
  BY <1>1 DEF ClosingAt, FreshAt, ClosingSteps, IssueSteps
<1> QED BY <1>2, MoveQueue

\* A step beside the threads.
LEMMA StillQueue ==
  ASSUME TypeInv, LedgerInv, ClaimsOK, FogQueue, Traffic, UNCHANGED <<pc, frame>>
  PROVE  FogQueue'
BY ClosingStays, FreshStays DEF FogQueue

\* Onboarding.
LEMMA RegistrationQueue ==
  ASSUME TypeInv, LedgerInv, ClaimsOK, FogQueue, Traffic, NEW t \in Threads,
         Registering(t) \/ RegistrationRequest(t)
  PROVE  FogQueue'
<1> DEFINE Elsewhere == {"idle"} \cup PubkeySteps \cup KeySteps
<1>1. ASSUME NEW step \in Elsewhere, NEW f, f.tok \in {None, frame[t].tok}, Call(t, step, f)
      PROVE  FogQueue'
  <2>1. step \notin ClosingSteps \cup IssueSteps
    BY <1>1 DEF ClosingSteps, IssueSteps, PubkeySteps, KeySteps
  <2> QED BY <1>1, <2>1, OtherQueue
<1>2. CASE Registering(t)
  <2>1. PICK step \in Elsewhere : Call(t, step, NoFrame) \/ Call(t, step, frame[t])
    BY <1>2, GotoCall DEF Registering, PubkeyKnown, PubkeyInUse, PubkeyWrite, PopUsed, PopVerify,
       PopFail, PopPass, PopUpsert, MetaRecord, MetaQueue, MetaAccept, MetaReply, Reply,
       PubkeySteps, KeySteps, TypeInv
  <2> HIDE DEF Elsewhere
  <2> QED BY <1>1, <2>1 DEF NoFrame
<1>3. CASE RegistrationRequest(t)
  <2>1. PICK s \in Sids : \/ RegisterStart(t, s) \/ SessionGone(t, s)
                          \/ \E d \in Dids : RegisterPubkey(t, s, d)
                          \/ RegisterPop(t, s)
                          \/ \E roleOk \in BOOLEAN : RegisterMetadata(t, s, roleOk)
    BY <1>3 DEF RegistrationRequest
  <2>2. CASE RegisterStart(t, s) \/ SessionGone(t, s)
    BY <2>2, StillQueue DEF RegisterStart, SessionGone
  <2>3. CASE ~(RegisterStart(t, s) \/ SessionGone(t, s))
    <3>1. PICK step \in Elsewhere, f \in {g \in Frame : g.tok = None} : Call(t, step, f)
      <4>1. sessions[s] \in Session
        BY DEF TypeInv, TypeOK
      <4> QED BY <2>1, <2>3, <4>1 DEF RegisterPubkey, RegisterPop, RegisterMetadata, NoFrame, Frame,
              Session, PubkeySteps, KeySteps
    <3> HIDE DEF Elsewhere
    <3> QED BY <1>1, <3>1
  <2> QED BY <2>2, <2>3
<1> QED BY <1>2, <1>3

\* Closing an epoch: what is dropped from the batch was revoked, and what is
\* taken from it gets a package.
LEMMA ClosingQueue ==
  ASSUME TypeInv, LedgerInv, ClaimsOK, FogQueue, Traffic, NEW t \in Threads,
         Closing(t) \/ AutoClose(t)
  PROVE  FogQueue'
<1>1. /\ TypeOK /\ frame[t] \in Frame /\ ClosingAt(t) /\ pending \subseteq Dids
      /\ frame[t].dids \subseteq Dids /\ frame[t].todo \subseteq Dids
  BY DEF TypeInv, TypeOK, FogQueue, Frame
<1>2. \A d \in Dids : Settled(d) => Settled(d)'
  BY SettledStays
<1>3. ASSUME NEW step \in {"idle", "dead", "proof_package"} \cup ClosingSteps,
             NEW f, f.tok \in {None, frame[t].tok}, Call(t, step, f), ClosingAt(t)'
      PROVE  FogQueue'
  <2>1. pc'[t] = step
    BY <1>1, <1>3 DEF TypeOK, Call, Goto
  <2>2. FreshAt(t)'
    BY <1>3, <2>1 DEF FreshAt, IssueSteps, ClosingSteps
  <2> QED BY <1>3, <2>2, MoveQueue
<1>4. ASSUME NEW step \in {"idle", "dead"}, Call(t, step, NoFrame) PROVE FogQueue'
  <2>1. step \notin ClosingSteps \cup IssueSteps /\ NoFrame.tok = None
    BY <1>4 DEF ClosingSteps, IssueSteps, NoFrame
  <2> QED BY <1>4, <2>1, OtherQueue
<1>5. ASSUME NEW step, NEW f, Call(t, step, f) PROVE pc'[t] = step /\ frame'[t] = f
  BY <1>1, <1>5 DEF TypeOK, Call, Goto
<1>6. CASE AutoClose(t)
  <2>1. Call(t, "close_acquire", NoFrame) /\ NoFrame.dids = {} /\ NoFrame.tok = None
    BY <1>6 DEF AutoClose, NoFrame
  <2>2. ClosingAt(t)'
    BY <1>5, <2>1 DEF ClosingAt
  <2> QED BY <1>3, <2>1, <2>2 DEF ClosingSteps
<1>7. CASE CloseAcquire(t)
  <2>1. Call(t, "close_revoked", frame[t]) /\ frame[t].dids = {}
    BY <1>1, <1>7, GotoCall DEF CloseAcquire, At, ClosingAt
  <2>2. ClosingAt(t)'
    BY <1>5, <2>1 DEF ClosingAt
  <2> QED BY <1>3, <2>1, <2>2 DEF ClosingSteps
<1>8. CASE CloseRevoked(t)
  <2> DEFINE f == [frame[t] EXCEPT !.dids = blocked(t)]
  <2>1. f.tok = frame[t].tok /\ f.dids = by_status("REVOKED")
    BY <1>1, <1>8 DEF Frame, blocked, CloseRevoked, At, ClosingAt
  <2>2. Call(t, "close_collect", f)
    BY <1>8 DEF CloseRevoked, Call
  <2> HIDE DEF f
  <2>3. \A d \in f.dids : d \in Dids /\ Settled(d)
    BY <2>1 DEF Settled, by_status
  <2>4. ClosingAt(t)'
    BY <1>2, <1>5, <2>2, <2>3 DEF ClosingAt
  <2> QED BY <1>3, <2>1, <2>2, <2>4 DEF ClosingSteps
<1>9. CASE CloseCollect(t)
  <2>1. CASE Release(t, "idle")
    BY <1>4, <2>1 DEF Release
  <2> DEFINE f == [frame[t] EXCEPT !.dids = Members(t)]
  <2>2. f.tok = frame[t].tok /\ f.dids = Members(t)
    BY <1>1 DEF Frame
  <2>3. CASE Call(t, "close_anchor", f)
    <3> HIDE DEF f
    <3>1. \A d \in pending \ f.dids : Settled(d)
      BY <1>1, <1>9, <2>2 DEF Members, CloseCollect, At, ClosingAt
    <3>2. UNCHANGED pending
      BY <1>9 DEF CloseCollect, epochVars
    <3>3. ClosingAt(t)'
      BY <1>1, <1>2, <1>5, <2>3, <3>1, <3>2 DEF ClosingAt
    <3> QED BY <1>3, <2>2, <2>3, <3>3 DEF ClosingSteps
  <2> QED BY <1>9, <2>1, <2>3 DEF CloseCollect, Call
<1>10. CASE CloseAnchor(t)
  <2>1. CASE Raise(t)
    BY <1>4, <2>1 DEF Raise, Release
  <2> DEFINE f == [frame[t] EXCEPT !.todo = frame[t].dids]
  <2>2. f.tok = frame[t].tok /\ f.dids = frame[t].dids /\ f.todo = frame[t].dids
    BY <1>1 DEF Frame
  <2>3. CASE Saved(t)
    <3>1. Call(t, "close_update", f)
      BY <2>3 DEF Saved, Call
    <3> HIDE DEF f
    <3>2. \A d \in pending \ f.dids : Settled(d)
      BY <1>1, <1>10, <2>2 DEF CloseAnchor, At, ClosingAt
    <3>3. UNCHANGED pending
      BY <1>10 DEF CloseAnchor, epochVars
    <3>4. ClosingAt(t)'
      BY <1>1, <1>2, <1>5, <2>2, <3>1, <3>2, <3>3 DEF ClosingAt
    <3> QED BY <1>3, <2>2, <3>1, <3>4 DEF ClosingSteps
  <2> QED BY <1>10, <2>1, <2>3 DEF CloseAnchor, NotSaved
<1>11. CASE CloseUpdate(t)
  <2>1. PICK d \in frame[t].todo :
          /\ latest_package' = [latest_package EXCEPT ![d] =
               [epoch_id |-> current_epoch_id, root |-> frame[t].dids]]
          /\ frame' = [frame EXCEPT ![t].todo = @ \ {d}]
    BY <1>11 DEF CloseUpdate
  <2> DEFINE f == [frame[t] EXCEPT !.todo = @ \ {d}]
  <2>2. f.tok = frame[t].tok /\ f.dids = frame[t].dids /\ f.todo = frame[t].todo \ {d}
    BY <1>1 DEF Frame
  <2>3. Call(t, "close_update", f) /\ UNCHANGED pending
    BY <1>1, <1>11, <2>1 DEF CloseUpdate, At, Call, Goto, TypeOK
  <2> HIDE DEF f
  <2>4. d \in Dids /\ latest_package'[d] # None
    BY <2>1, UpdatedHasPackage
  <2>5. \A e \in Dids : latest_package[e] # None => latest_package'[e] # None
    BY TrafficNext, PackageKept DEF TypeInv
  <2>6. /\ \A e \in pending \ f.dids : Settled(e)
        /\ \A e \in frame[t].dids \ frame[t].todo : latest_package[e] # None
    BY <1>1, <1>11, <2>2 DEF CloseUpdate, At, ClosingAt
  <2>7. ClosingAt(t)'
    BY <1>1, <1>2, <1>5, <2>2, <2>3, <2>4, <2>5, <2>6 DEF ClosingAt
  <2> QED BY <1>3, <2>2, <2>3, <2>7 DEF ClosingSteps
<1>12. CASE CloseFinish(t) \/ ProofReply(t)
  BY <1>4, <1>12 DEF CloseFinish, ProofReply, Release, Reply
<1> QED BY <1>6, <1>7, <1>8, <1>9, <1>10, <1>11, <1>12 DEF Closing

\* Issuing a token: nobody else comes by its id.
LEMMA IssuingQueue ==
  ASSUME TypeInv, LedgerInv, ClaimsOK, FogQueue, Traffic, NEW t \in Threads,
         Issuing(t) \/ \E s \in Sids : TokensIssue(t, s)
  PROVE  FogQueue'
<1>1. TypeOK /\ frame[t] \in Frame /\ FreshAt(t)
  BY DEF TypeInv, TypeOK, FogQueue
<1>2. ASSUME NEW step, NEW f, Call(t, step, f)
      PROVE  /\ pc'[t] = step /\ frame'[t] = f
             /\ \A u \in Threads \ {t} : pc'[u] = pc[u] /\ frame'[u] = frame[u]
  BY <1>1, <1>2 DEF TypeOK, Call, Goto
<1>3. ASSUME NEW step \in IssueSteps, NEW f, f.tok \in {None, frame[t].tok} \cup FreshTokens,
             Call(t, step, f), FreshAt(t)'
      PROVE  FogQueue'
  <2>1. ClosingAt(t)'
    BY <1>2, <1>3 DEF ClosingAt, IssueSteps
  <2> QED BY <1>3, <2>1, MoveQueue
<1>4. ASSUME Reply(t) PROVE FogQueue'
  <2>1. "idle" \notin ClosingSteps \cup IssueSteps /\ NoFrame.tok = None
    BY DEF ClosingSteps, IssueSteps, NoFrame
  <2> QED BY <1>4, <2>1, OtherQueue DEF Reply
<1>5. ASSUME NEW s \in Sids, TokensIssue(t, s) PROVE FogQueue'
  <2>1. PICK k \in FreshTokens :
          Call(t, "issue_known", [NoFrame EXCEPT !.sid = s, !.tok = k, !.did = sessions[s].did])
    BY <1>5 DEF TokensIssue
  <2> DEFINE f == [NoFrame EXCEPT !.sid = s, !.tok = k, !.did = sessions[s].did]
  <2>2. f.tok = k /\ Call(t, "issue_known", f)
    BY <2>1 DEF NoFrame
  <2> HIDE DEF f
  <2>3. UNCHANGED issued
    BY <1>5 DEF TokensIssue, tokenVars
  <2>4. FreshAt(t)'
    BY <1>2, <2>1, <2>2, <2>3 DEF FreshAt, FreshTokens
  <2> QED BY <1>3, <2>1, <2>2, <2>4 DEF IssueSteps
<1>6. CASE IssueKnown(t) \/ IssueEligible(t)
  <2>1. CASE Reply(t)
    BY <1>4, <2>1
  <2>2. ASSUME NEW step \in {"issue_eligible", "issue_record"}, Goto(t, step), UNCHANGED frame
        PROVE  FogQueue'
    <3>1. Call(t, step, frame[t])
      BY <1>1, <2>2, GotoCall
    <3>2. UNCHANGED issued
      BY <1>6 DEF IssueKnown, IssueEligible, tokenVars
    <3>3. FreshAt(t)'
      BY <1>1, <1>2, <1>6, <2>2, <3>1, <3>2 DEF FreshAt, IssueKnown, IssueEligible, At, IssueSteps
    <3> QED BY <1>3, <2>2, <3>1, <3>3 DEF IssueSteps
  <2> QED BY <1>6, <2>1, <2>2 DEF IssueKnown, IssueEligible
<1>7. CASE IssueRecord(t)
  <2>1. Call(t, "issue_status", frame[t]) /\ issued' = [issued EXCEPT ![frame[t].tok] = frame[t].did]
    BY <1>1, <1>7, GotoCall DEF IssueRecord
  <2>2. pc[t] \in IssueSteps /\ frame[t].tok \in Tokens
    BY <1>7 DEF IssueRecord, At, IssueSteps, TypeInv, FrameOK, LocalsOK
  <2>3. FreshAt(t)'
    BY <1>1, <1>2, <2>1, <2>2 DEF FreshAt, TypeOK
  <2> QED BY <1>3, <2>1, <2>3 DEF IssueSteps
<1>8. CASE IssueStatus(t)
  BY <1>4, <1>8 DEF IssueStatus
<1>9. CASE RevokeList(t)
  <2> DEFINE f == [frame[t] EXCEPT !.toks = @ \cup tokens_of(frame[t].did)]
  <2>1. f.tok = frame[t].tok
    BY <1>1 DEF Frame
  <2>2. Call(t, "revoke_tokens", f)
    BY <1>9 DEF RevokeList, Call
  <2> HIDE DEF f
  <2>3. "revoke_tokens" \notin ClosingSteps \cup IssueSteps
    BY DEF ClosingSteps, IssueSteps
  <2> QED BY <2>1, <2>2, <2>3, OtherQueue
<1>10. CASE RevokeTokens(t)
  <2>1. CASE Reply(t)
    BY <1>4, <2>1
  <2>2. ASSUME NEW k, frame' = [frame EXCEPT ![t].toks = @ \ {k}], UNCHANGED pc
        PROVE  FogQueue'
    <3> DEFINE f == [frame[t] EXCEPT !.toks = @ \ {k}]
    <3>1. f.tok = frame[t].tok
      BY <1>1 DEF Frame
    <3>2. Call(t, "revoke_tokens", f)
      BY <1>1, <1>10, <2>2 DEF RevokeTokens, At, Call, Goto, TypeOK
    <3> HIDE DEF f
    <3>3. "revoke_tokens" \notin ClosingSteps \cup IssueSteps
      BY DEF ClosingSteps, IssueSteps
    <3> QED BY <3>1, <3>2, <3>3, OtherQueue
  <2> QED BY <1>10, <2>1, <2>2 DEF RevokeTokens
<1> QED BY <1>5, <1>6, <1>7, <1>8, <1>9, <1>10 DEF Issuing

\* Every step keeps the batch in order.
LEMMA NextQueue ==
  ASSUME TypeInv, LedgerInv, ClaimsOK, FogQueue, Traffic
  PROVE  FogQueue'
<1>1. ASSUME NEW t \in Threads, Step(t) \/ AutoClose(t) \/ RegistrationRequest(t) PROVE FogQueue'
  BY <1>1, RegistrationQueue, ClosingQueue, IssuingQueue DEF Step
<1>2. ASSUME NEW t \in Threads, NEW s \in Sids, TokensIssue(t, s) PROVE FogQueue'
  BY <1>2, IssuingQueue
<1>3. ASSUME NEW t \in Threads, NEW step, step \notin ClosingSteps \cup IssueSteps,
             NEW f, f.tok = None, Call(t, step, f)
      PROVE  FogQueue'
  BY <1>3, OtherQueue
<1>4. ASSUME NEW t \in Threads, NEW d \in Dids, GetProof(t, d) PROVE FogQueue'
  BY <1>3, <1>4 DEF GetProof, NoFrame, ClosingSteps, IssueSteps
<1>5. ASSUME NEW t \in Threads, NEW d \in Dids, Revoke(t, d, {}) PROVE FogQueue'
  BY <1>3, <1>5 DEF Revoke, NoFrame, ClosingSteps, IssueSteps
<1>6. ASSUME NEW s \in Sids, SessionExpires(s) PROVE FogQueue'
  BY <1>6, StillQueue DEF SessionExpires
<1>7. CASE UNCHANGED vars
  BY <1>7, StillQueue DEF vars, fogVars
<1> QED BY <1>1, <1>2, <1>4, <1>5, <1>6, <1>7 DEF Traffic

-----------------------------------------------------------------------------
(* What a device is told.                                                  *)

\* The step before a device's metadata is accepted queues its leaf.
LEMMA AcceptQueues ==
  ASSUME TypeInv, SessionInv, CallsOK, NEW t \in Threads, Step(t), Accepting(t)', ~Accepting(t),
         NEW d \in Dids, program[d].worker = t
  PROVE  d \in pending'
<1>1. Shape(t)
  BY StepShape
<1>2. pc[t] \in MetaSteps
  BY <1>1 DEF Shape, Advances, SameRequest, MetaSteps, Accepting
<1>3. MetaQueue(t)
  BY <1>2 DEF Accepting, Step, Registering, Closing, Issuing, PubkeyKnown, PubkeyInUse, PubkeyWrite,
     PopUsed, PopVerify, PopFail, PopPass, PopUpsert, MetaRecord, MetaAccept, MetaReply,
     CloseAcquire, CloseRevoked, CloseCollect, CloseAnchor, CloseUpdate, CloseFinish, ProofReply,
     IssueKnown,
     IssueEligible, IssueRecord, IssueStatus, RevokeList, RevokeTokens, At, MetaSteps, Reply,
     Call, Goto, TypeInv, TypeOK
<1>4. frame[t].sid = program[d].sid
  BY <1>2 DEF CallsOK, ServesOK, Serves, PubkeySteps, PopSteps, MetaSteps, IssueSteps
<1>5. pc[t] = "meta_queue" /\ frame[t].sid \in Sids
  BY <1>3, KeyLocals DEF MetaQueue, At, KeySteps
<1>6. Sess(t).did = d
  BY <1>4, <1>5, NoneAssumption DEF SessionInv, StatesOK, SessionAt, Proven, Sess, CallsOK, KeysOK
<1> QED BY <1>3, <1>6 DEF MetaQueue

\* A device hears of its leaf only when it is in the batch.
LEMMA NextHeard ==
  ASSUME TypeInv, ClientsOK, FogQueue, HeardOK, [DevicesNext]_allVars PROVE HeardOK'
<1>1. ProgramOK /\ CallsOK /\ ServesOK /\ SidsOK /\ ClaimsOK /\ SessionInv
  BY DEF ClientsOK, CallsOK
<1>2. Traffic
  BY <1>1, NextTraffic
<1> SUFFICES ASSUME NEW d \in Dids, Hears(d)' PROVE Queued(d)'
  BY DEF HeardOK
<1>3. CASE Hears(d)
  BY <1>1, <1>2, <1>3, QueuedStays DEF HeardOK
<1>4. \/ program'[d].step \in Later
      \/ \E u \in Threads : program'[d].worker = u /\ Accepting(u)'
  BY DEF Hears, Onboarded, Later
<1>5. ASSUME program[d].step \in Later PROVE Hears(d)
  BY <1>5 DEF Hears, Onboarded, Later
<1>6. ASSUME NEW u \in Threads, program[d].worker = u, Accepting(u) PROVE Hears(d)
  BY <1>6 DEF Hears
<1>7. ASSUME NEW t \in Threads, FogStep(t) PROVE Queued(d)'
  <2>1. CASE program'[d].step \in Later
    <3>1. program[d].step \in Later \/ (program[d].worker = t /\ Accepting(t))
      BY <1>1, <1>7, <2>1, Answers DEF GetsOn, Aloof, Later, Accepting
    <3> QED BY <1>3, <1>5, <1>6, <3>1
  <2>2. ASSUME NEW u \in Threads, program'[d].worker = u, Accepting(u)'
        PROVE  Queued(d)'
    <3>1. program[d].worker = u
      BY <1>1, <1>7, <2>2, Answers, NoWorker DEF GetsOn
    <3>2. CASE u = t
      BY <1>1, <1>3, <1>6, <1>7, <2>2, <3>1, <3>2, AcceptQueues DEF FogStep, Queued
    <3>3. CASE u # t
      <4>1. Accepting(u)
        BY <1>7, <2>2, <3>3, StepShape DEF FogStep, Shape, Advances, Accepting
      <4> QED BY <1>3, <1>6, <3>1, <4>1
    <3> QED BY <3>2, <3>3
  <2> QED BY <1>4, <2>1, <2>2
<1>8. ASSUME NEW e \in Dids, NEW t \in Threads, Sends(e, t) PROVE Queued(d)'
  <2>1. program'[d].step = program[d].step /\ (d # e => program'[d] = program[d])
        /\ program'[e].worker = t
    BY <1>1, <1>8, SendsProgram
  <2>2. \A u \in Threads : Accepting(u)' => Accepting(u) /\ u # t
    BY <1>8 DEF Sends, Accepting
  <2> QED BY <1>3, <1>4, <1>5, <1>6, <2>1, <2>2
<1>9. ASSUME NEW e \in Dids, NEW t \in Threads, register_start(e, t) PROVE Queued(d)'
  <2>1. PICK s : /\ RegisterStart(t, s)
                 /\ Become(e, [program[e] EXCEPT !.step = "pubkey", !.sid = s])
    BY <1>9 DEF register_start
  <2> DEFINE new == [program[e] EXCEPT !.step = "pubkey", !.sid = s]
  <2>2. /\ new.step = "pubkey" /\ new.worker = program[e].worker
        /\ program' = [program EXCEPT ![e] = new]
    BY <1>1, <2>1 DEF Become, ProgramOK, Program
  <2> HIDE DEF new
  <2>3. UNCHANGED pc /\ program'[e] = new /\ (d # e => program'[d] = program[d])
    BY <1>1, <2>1, <2>2 DEF RegisterStart, ProgramOK
  <2> QED BY <1>3, <1>4, <1>5, <1>6, <2>2, <2>3 DEF Later, Accepting
<1>10. CASE Background /\ program' \in [Dids -> Program] /\ \A e \in Dids : Unaware(e)
  <2>1. program'[d].step \in Later => program[d].step \in Later
    BY <1>10 DEF Unaware, Aloof
  <2>2. ASSUME NEW u \in Threads, program'[d].worker = u, Accepting(u)'
        PROVE  program[d].worker = u /\ Accepting(u)
    BY <1>10, <2>2 DEF Unaware, Aloof, Background, Serving, MetaSteps, Accepting
  <2> QED BY <1>3, <1>4, <1>5, <1>6, <2>1, <2>2
<1> QED BY <1>7, <1>8, <1>9, <1>10, NextKinds DEF Kinds

-----------------------------------------------------------------------------
(* The invariant holds always.                                             *)

\* The programs begin with no session, the fog with no request.
LEMMA InitDevices == DevicesInit => DevicesInv
<1> SUFFICES ASSUME DevicesInit PROVE DevicesInv
  OBVIOUS
<1>1. Init
  BY DEF DevicesInit, AccessInit
<1>2. TypeInv /\ LedgerInv /\ SessionInv
  BY <1>1, InitTypes, InitLedger, InitSession
<1>3. /\ \A t \in Threads : pc[t] = "idle" /\ frame[t] = NoFrame
      /\ \A d \in Dids : devices[d] = None
      /\ crashes = 0
  BY <1>1 DEF Init, AllIdle, NoFrames, NoRecords
<1>4. /\ program \in [Dids -> Program]
      /\ \A d \in Dids : /\ program[d].step \in {"off", "start"} /\ program[d].sid = None
                         /\ program[d].worker = None
  <2> DEFINE off == [NewProgram(FALSE) EXCEPT !.step = "off"]
  <2>1. PICK s \in Scenarios : program = [d \in Dids |->
                IF d \in s.fleet THEN NewProgram(d \in s.askers) ELSE off]
    BY DEF DevicesInit
  <2>2. ASSUME NEW b \in BOOLEAN
        PROVE  /\ NewProgram(b) \in Program /\ NewProgram(b).step = "start"
               /\ NewProgram(b).sid = None /\ NewProgram(b).worker = None
    BY <2>2 DEF NewProgram, Program
  <2>3. off \in Program /\ off.step = "off" /\ off.sid = None /\ off.worker = None
    BY DEF NewProgram, Program
  <2> HIDE DEF off
  <2>4. ASSUME NEW d \in Dids
        PROVE  program[d] = off \/ \E b \in BOOLEAN : program[d] = NewProgram(b)
    <3>1. (d \in s.askers) \in BOOLEAN
      OBVIOUS
    <3> QED BY <2>1, <3>1
  <2>5. program = [d \in Dids |-> program[d]]
    BY <2>1
  <2> QED BY <2>2, <2>3, <2>4, <2>5
<1>5. CallsOK
  BY <1>3, <1>4, NoWorker
     DEF NoFrame, CallsOK, ServesOK, SidsOK, OneCall, KeysOK, SessionCalls, PubkeySteps
<1>6. ClaimsOK
  BY <1>3, <1>4, NoWorker DEF ClaimsOK, Winning, Calling
<1>7. FogQueue
  BY <1>3 DEF FogQueue, ClosingAt, FreshAt, IssueSteps
<1>8. HeardOK
  BY <1>3, <1>4 DEF HeardOK, Hears, Onboarded, Accepting
<1> QED BY <1>2, <1>3, <1>4, <1>5, <1>6, <1>7, <1>8 DEF DevicesInv, ProgramOK

\* Every step preserves it.
LEMMA NextDevices == DevicesInv /\ [DevicesNext]_allVars => DevicesInv'
<1> SUFFICES ASSUME DevicesInv, [DevicesNext]_allVars PROVE DevicesInv'
  OBVIOUS
<1>1. /\ TypeInv /\ LedgerInv /\ ClientsOK /\ FogQueue /\ HeardOK
      /\ ProgramOK /\ SidsOK /\ ClaimsOK
  BY DEF DevicesInv, ClientsOK, CallsOK
<1>2. Traffic /\ [Next]_vars
  BY <1>1, NextTraffic, TrafficNext DEF TypeInv
<1>3. TypeInv' /\ LedgerInv'
  BY <1>1, <1>2, NextTypes, NextLedger
<1>4. ClientsOK' /\ FogQueue' /\ HeardOK'
  BY <1>1, <1>2, NextClients, NextQueue, NextHeard
<1> QED BY <1>3, <1>4 DEF DevicesInv, ClientsOK

\* So it holds in every state of a run; the clients need not be fair for it.
LEMMA DevicesInvariant == DevicesSpec => []DevicesInv
<1>1. DevicesSpec => DevicesInit /\ [][DevicesNext]_allVars
  BY PTL DEF DevicesSpec
<1> QED BY <1>1, InitDevices, NextDevices, PTL

\* What register() told a device is true: its leaf is in the batch, its epoch is
\* committed, it was revoked or it has a token, however the answers, the
\* closings and other registrations interleave.
THEOREM WhatWasToldIsTrue == DevicesSpec => []QueuedAsTold
<1>1. DevicesInv => QueuedAsTold
  BY DEF DevicesInv, HeardOK, Hears, Queued, Settled, QueuedAsTold, Onboarded
<1> QED BY <1>1, DevicesInvariant, PTL

\* No device onboards twice, though its program gives up on a request the fog
\* goes on with and starts again with the same key: /register/pop never finds a
\* record to replace.
THEOREM RecordIsNeverReplaced == DevicesSpec => RecordNeverReplaced
<1>1. DevicesInv => [\A t \in Threads : At(t, "pop_upsert") /\ pc'[t] = "idle"
                                          => ~Known(Sess(t).did)]_allVars
  BY DEF DevicesInv, ClaimsOK, Winning, At
<1> QED BY <1>1, DevicesInvariant, PTL DEF RecordNeverReplaced
=============================================================================
