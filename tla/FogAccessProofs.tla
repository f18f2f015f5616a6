-------------------------- MODULE FogAccessProofs ---------------------------
(***************************************************************************)
(* Access decisions, beside everything else the fog node does.  For any    *)
(* number of threads a nonce buys one decision and a token ends with the   *)
(* process that signed it; with the other requests one at a time, who is   *)
(* revoked is denied and only drives and PLCs may stop anything.           *)
(***************************************************************************)
EXTENDS FogAccess, FogSingleProofs

TokenVisit == {"blacklist", "device", "scope"}
ProofVisit == {"prove", "status", "registered", "role", "policy"}
VisitSteps == {"idle", "consume"} \cup TokenVisit \cup ProofVisit

Visit == [step : VisitSteps, did : Dids \cup {None}, token : Token \cup {None},
          nonce : Nonces \cup {None}, late : BOOLEAN, barred : BOOLEAN]

\* What an access request under way names has been set.
VisitsOK == \A v \in Visitors :
  visit[v].step # "idle" => visit[v].did \in Dids /\ visit[v].nonce \in Nonces

AccessTypes ==
  /\ nonces \in [Nonces -> Nonce]
  /\ minted \subseteq Token
  /\ visit \in [Visitors -> Visit]
  /\ VisitsOK
  /\ crashes <= MaxCrashes

\* A nonce that consume() accepts no more.
Spent(n) == nonces[n].life \in {"used", "dropped"}

\* Past the nonce check, and with every answer, the nonce is spent.
SpentOK == /\ \A v \in Visitors : PastNonce(v) => Spent(visit[v].nonce)
           /\ \A a \in allowed : a.nonce \in Nonces /\ Spent(a.nonce)

\* The nonces that are good for a token are good for one of this process.
RunsOK ==
  /\ \A n \in Nonces : nonces[n].life = "fresh" /\ nonces[n].subject \in Token
       => nonces[n].subject.run = crashes
  /\ \A v \in Visitors : PastNonce(v) /\ visit[v].token # None
       => visit[v].token.run = crashes

NonceInv == SpentOK /\ NonceBuysOnce /\ RunsOK

-----------------------------------------------------------------------------
(* What a step of an access request does.                                  *)

\* The checks an access request goes through, and what passing each shows.
Passes(v, step, next) ==
  \/ /\ step = "consume" /\ next \in {"blacklist", "prove"}
     /\ next = "blacklist" <=> visit[v].token # None
  \/ step = "blacklist" /\ next = "device" /\ ~is_revoked(visit[v].token)
  \/ step = "device" /\ next = "scope" /\ ~RevokedNow(visit[v].did)
  \/ step = "prove" /\ next = "status"
  \/ step = "status" /\ next = "registered"
     /\ Known(visit[v].did) /\ ~RevokedNow(visit[v].did)
  \/ step = "registered" /\ next = "role" /\ devices[visit[v].did].status = "REGISTERED"
  \/ step = "role" /\ next = "policy" /\ devices[visit[v].did].roleOk

\* It goes on with the same locals, or is answered.
Moves(v) ==
  /\ \A u \in Visitors \ {v} : visit'[u] = visit[u]
  /\ \/ visit'[v] = NoVisit
     \/ /\ Passes(v, visit[v].step, visit'[v].step)
        /\ visit'[v].did = visit[v].did /\ visit'[v].nonce = visit[v].nonce
        /\ visit'[v].token = visit[v].token /\ visit'[v].barred = visit[v].barred

\* An answer, perhaps ALLOW.
Decides(v) == allowed' = allowed \/
  /\ visit[v].step \in {"scope", "policy"} /\ visit'[v] = NoVisit
  /\ \E operation : allowed' = allowed \cup
       {[nonce |-> visit[v].nonce, did |-> visit[v].did, operation |-> operation]}

\* The request's frame after a check.
LEMMA ProceedMoves ==
  ASSUME AccessTypes, NEW v \in Visitors, NEW step \in VisitSteps,
         Proceed(v, step), Passes(v, visit[v].step, step)
  PROVE  Moves(v) /\ visit' \in [Visitors -> Visit] /\ visit'[v].step = step
<1> DEFINE new == [visit[v] EXCEPT !.step = step]
<1>1. visit[v] \in Visit /\ visit \in [Visitors -> Visit]
  BY DEF AccessTypes
<1>2. /\ new \in Visit /\ new.step = step /\ new.did = visit[v].did
      /\ new.nonce = visit[v].nonce /\ new.token = visit[v].token
      /\ new.barred = visit[v].barred
  BY <1>1 DEF Visit
<1>3. visit' = [visit EXCEPT ![v] = new]
  BY DEF Proceed
<1> HIDE DEF new
<1> QED BY <1>1, <1>2, <1>3 DEF Moves

\* A visitor without a request is one.
LEMMA NoVisitType == NoVisit \in Visit /\ NoVisit.step = "idle"
BY DEF NoVisit, Visit, VisitSteps, TokenVisit, ProofVisit

\* An answered request leaves nothing behind.
LEMMA AnswerMoves ==
  ASSUME AccessTypes, NEW v \in Visitors, Answer(v)
  PROVE  /\ Moves(v) /\ visit' \in [Visitors -> Visit]
         /\ visit'[v] = NoVisit /\ visit'[v].step = "idle"
BY NoVisitType DEF AccessTypes, Answer, Moves

\* A check that only reads.
LEMMA CheckMoves ==
  ASSUME AccessTypes, NEW v \in Visitors, NEW step, NEW passed, NEW next \in VisitSteps,
         Check(v, step, passed, next), passed => Passes(v, step, next)
  PROVE  Moves(v) /\ visit' \in [Visitors -> Visit]
BY ProceedMoves, AnswerMoves DEF Check, Doing

\* Every step of an access request is such a move.
LEMMA StepMoves ==
  ASSUME AccessTypes, NEW v \in Visitors, AccessStep(v)
  PROVE  /\ Moves(v) /\ Decides(v) /\ visit' \in [Visitors -> Visit]
         /\ UNCHANGED <<vars, minted>>
         /\ UNCHANGED nonces \/ Consume(v)
<1> USE DEF VisitSteps, TokenVisit, ProofVisit
<1>1. UNCHANGED <<vars, minted>> /\ (UNCHANGED nonces \/ Consume(v))
  BY DEF AccessStep, BlacklistCheck, DeviceCheck, ScopeCheck, ProofCheck, StatusCheck,
     RegisteredCheck, RoleCheck, PolicyCheck, ProvisionalGrant, FullGrant, Check, Deny, Allow,
     Consume
<1>2. CASE Consume(v)
  <2>1. visit[v].step = "consume" /\ UNCHANGED allowed
    BY <1>2 DEF Consume, Doing
  <2>2. \/ visit[v].token = None /\ Proceed(v, "prove")
        \/ visit[v].token # None /\ Proceed(v, "blacklist")
        \/ Answer(v)
    BY <1>2 DEF Consume
  <2>3. Moves(v) /\ visit' \in [Visitors -> Visit]
    BY <2>1, <2>2, ProceedMoves, AnswerMoves DEF Passes
  <2> QED BY <1>1, <2>1, <2>3 DEF Decides
<1>3. CASE BlacklistCheck(v) \/ DeviceCheck(v) \/ ProofCheck(v) \/ StatusCheck(v)
             \/ RegisteredCheck(v) \/ RoleCheck(v)
  <2>1. UNCHANGED allowed
    BY <1>3 DEF BlacklistCheck, DeviceCheck, ProofCheck, StatusCheck, RegisteredCheck,
       RoleCheck, Check
  <2>2. Moves(v) /\ visit' \in [Visitors -> Visit]
    BY <1>3, CheckMoves DEF BlacklistCheck, DeviceCheck, ProofCheck, StatusCheck,
       RegisteredCheck, RoleCheck, Passes
  <2> QED BY <1>1, <2>1, <2>2 DEF Decides
<1>4. CASE ScopeCheck(v) \/ PolicyCheck(v)
  <2>1. /\ visit[v].step \in {"scope", "policy"} /\ Answer(v)
        /\ \/ allowed' = allowed
           \/ \E operation : allowed' = allowed \cup
                {[nonce |-> visit[v].nonce, did |-> visit[v].did, operation |-> operation]}
    BY <1>4 DEF ScopeCheck, PolicyCheck, ProvisionalGrant, FullGrant, Deny, Allow, Doing
  <2> QED BY <1>1, <2>1, AnswerMoves DEF Decides
<1> QED BY <1>2, <1>3, <1>4 DEF AccessStep

\* The arrival of an access request.
LEMMA RequestMoves ==
  ASSUME AccessTypes, NEW v \in Visitors, AccessRequest(v)
  PROVE  /\ visit' \in [Visitors -> Visit] /\ VisitsOK'
         /\ \A u \in Visitors \ {v} : visit'[u] = visit[u]
         /\ visit[v].step = "idle" /\ visit'[v].step = "consume"
         /\ \/ visit'[v].token = None
               /\ (visit'[v].barred => RevokedNow(visit'[v].did))
            \/ visit'[v].token \in Token
               /\ (visit'[v].barred => RevokedNow(visit'[v].did) \/ is_revoked(visit'[v].token))
         /\ UNCHANGED <<vars, nonces, minted, allowed>>
<1>1. visit \in [Visitors -> Visit] /\ visit[v].step = "idle"
  BY DEF AccessTypes, AccessRequest, TokensAccess, Verify, Doing
<1>2. ASSUME NEW new \in Visit, visit' = [visit EXCEPT ![v] = new], new.step = "consume",
             new.did \in Dids, new.nonce \in Nonces
      PROVE  /\ visit' \in [Visitors -> Visit] /\ VisitsOK' /\ visit'[v] = new
             /\ \A u \in Visitors \ {v} : visit'[u] = visit[u]
  BY <1>1, <1>2 DEF AccessTypes, VisitsOK
<1>3. ASSUME NEW n \in Nonces, NEW token \in minted, TokensAccess(v, token, n)
      PROVE  \E new \in Visit :
               /\ visit' = [visit EXCEPT ![v] = new] /\ new.step = "consume"
               /\ new.did \in Dids /\ new.nonce \in Nonces /\ new.token \in Token
               /\ new.barred => RevokedNow(new.did) \/ is_revoked(new.token)
  <2> DEFINE new == [step |-> "consume", did |-> token.did, token |-> token, nonce |-> n,
                     late |-> nonces[n].expired,
                     barred |-> RevokedNow(token.did) \/ is_revoked(token)]
  <2>1. token \in Token /\ token.did \in Dids /\ nonces[n].expired \in BOOLEAN
    <3>1. token \in Token /\ nonces[n] \in Nonce
      BY DEF AccessTypes
    <3> QED BY <3>1 DEF Token, Nonce
  <2>2. (RevokedNow(token.did) \/ is_revoked(token)) \in BOOLEAN
    OBVIOUS
  <2>3. new \in Visit
    BY <2>1, <2>2 DEF Visit, VisitSteps
  <2>4. visit' = [visit EXCEPT ![v] = new]
    BY <1>3 DEF TokensAccess
  <2>5. /\ new.step = "consume" /\ new.did = token.did /\ new.nonce = n /\ new.token = token
        /\ new.barred <=> (RevokedNow(token.did) \/ is_revoked(token))
    OBVIOUS
  <2> HIDE DEF new
  <2> QED BY <2>1, <2>3, <2>4, <2>5
<1>4. ASSUME NEW n \in Nonces, NEW d \in Dids, Verify(v, d, n)
      PROVE  \E new \in Visit :
               /\ visit' = [visit EXCEPT ![v] = new] /\ new.step = "consume"
               /\ new.did \in Dids /\ new.nonce \in Nonces /\ new.token = None
               /\ new.barred => RevokedNow(new.did)
  <2> DEFINE new == [step |-> "consume", did |-> d, token |-> None, nonce |-> n,
                     late |-> nonces[n].expired, barred |-> RevokedNow(d)]
  <2>1. nonces[n].expired \in BOOLEAN /\ RevokedNow(d) \in BOOLEAN
    BY DEF AccessTypes, Nonce, RevokedNow
  <2>2. new \in Visit
    BY <2>1 DEF Visit, VisitSteps
  <2>3. visit' = [visit EXCEPT ![v] = new]
    BY <1>4 DEF Verify
  <2>4. /\ new.step = "consume" /\ new.did = d /\ new.nonce = n /\ new.token = None
        /\ new.barred <=> RevokedNow(d)
    OBVIOUS
  <2> HIDE DEF new
  <2> QED BY <2>2, <2>3, <2>4
<1>5. UNCHANGED <<vars, nonces, minted, allowed>>
  BY DEF AccessRequest, TokensAccess, Verify
<1> QED BY <1>1, <1>2, <1>3, <1>4, <1>5 DEF AccessRequest

-----------------------------------------------------------------------------
(* What becomes of the nonces.                                             *)

\* A spent nonce stays spent, one for a token is for one of this process.
Aging ==
  /\ nonces' \in [Nonces -> Nonce]
  /\ \A n \in Nonces : /\ Spent(n) => Spent(n)'
                       /\ nonces'[n].life = "fresh" /\ nonces'[n].subject \in Token
                            => nonces'[n].subject.run = crashes'

\* The values a nonce takes.
LEMMA NonceValues ==
  /\ Undrawn \in Nonce /\ Undrawn.life = "undrawn"
  /\ Dropped \in Nonce /\ Dropped.life = "dropped"
  /\ \A subject \in Token \cup Dids : \E new \in Nonce :
       new = [Undrawn EXCEPT !.life = "fresh", !.subject = subject]
         /\ new.life = "fresh" /\ new.subject = subject
  /\ \A old \in Nonce : \E new \in Nonce :
       new = [old EXCEPT !.life = "used"] /\ new.life = "used"
  /\ \A old \in Nonce : \E new \in Nonce :
       new = [old EXCEPT !.expired = TRUE] /\ new.life = old.life /\ new.subject = old.subject
<1>1. Undrawn \in Nonce /\ Undrawn.life = "undrawn" /\ Dropped \in Nonce /\ Dropped.life = "dropped"
  BY DEF Undrawn, Dropped, Nonce
<1>2. ASSUME NEW subject \in Token \cup Dids
      PROVE  LET new == [Undrawn EXCEPT !.life = "fresh", !.subject = subject]
             IN  new \in Nonce /\ new.life = "fresh" /\ new.subject = subject
  BY DEF Undrawn, Nonce
<1>3. ASSUME NEW old \in Nonce
      PROVE  LET new == [old EXCEPT !.life = "used"] IN new \in Nonce /\ new.life = "used"
  BY DEF Nonce
<1>4. ASSUME NEW old \in Nonce
      PROVE  LET new == [old EXCEPT !.expired = TRUE]
             IN  new \in Nonce /\ new.life = old.life /\ new.subject = old.subject
  BY DEF Nonce
<1> QED BY <1>1, <1>2, <1>3, <1>4

\* Drawing a nonce, and its outliving its TTL.
LEMMA DrawAging ==
  ASSUME AccessTypes, RunsOK, NEW n \in Nonces, DrawNonce(n) \/ NonceExpires(n)
  PROVE  Aging /\ UNCHANGED <<vars, minted, visit, allowed>>
<1>1. UNCHANGED <<vars, minted, visit, allowed>> /\ UNCHANGED crashes
  BY DEF DrawNonce, NonceExpires, vars
<1>2. nonces \in [Nonces -> Nonce] /\ minted \subseteq Token
  BY DEF AccessTypes
<1>3. CASE DrawNonce(n)
  <2>1. PICK subject \in Token \cup Dids :
          issue(n, subject) /\ (subject \in Token => subject.run = crashes)
    BY <1>2, <1>3, SubjectAssumption DEF DrawNonce, TokensNonce, VerifyNonce, was_issued
  <2>2. PICK new \in Nonce :
          new = [Undrawn EXCEPT !.life = "fresh", !.subject = subject]
            /\ new.life = "fresh" /\ new.subject = subject
    BY NonceValues
  <2>3. /\ nonces[n].life = "undrawn"
        /\ nonces' = [m \in Nonces |-> IF m = n THEN new
                                       ELSE IF nonces[m].expired THEN Dropped ELSE nonces[m]]
    BY <2>1, <2>2 DEF issue
  <2> QED BY <1>1, <1>2, <2>1, <2>2, <2>3, NonceValues DEF Aging, Spent, RunsOK
<1>4. CASE NonceExpires(n)
  <2>1. PICK new \in Nonce : new = [nonces[n] EXCEPT !.expired = TRUE]
                               /\ new.life = nonces[n].life /\ new.subject = nonces[n].subject
    BY <1>2, NonceValues
  <2>2. nonces' = [nonces EXCEPT ![n] = new]
    BY <1>4, <2>1 DEF NonceExpires
  <2> QED BY <1>1, <1>2, <2>1, <2>2 DEF Aging, Spent, RunsOK
<1> QED BY <1>1, <1>3, <1>4

\* consume(): the request goes on only if it spends the nonce, which was fresh
\* and for what the request is for.
LEMMA ConsumeAging ==
  ASSUME AccessTypes, RunsOK, NEW v \in Visitors, Consume(v)
  PROVE  /\ Aging
         /\ \/ visit'[v].step = "idle"
            \/ /\ nonces[visit[v].nonce].life = "fresh" /\ nonces'[visit[v].nonce].life = "used"
               /\ visit[v].token # None => visit[v].token.run = crashes
<1> PICK subject : subject = IF visit[v].token = None THEN visit[v].did ELSE visit[v].token
  OBVIOUS
<1>1. PICK n \in Nonces : n = visit[v].nonce
  BY DEF Consume, Doing, AccessTypes, VisitsOK
<1>2. nonces \in [Nonces -> Nonce] /\ visit[v] \in Visit /\ UNCHANGED crashes
  BY DEF AccessTypes, Consume, vars
<1>3. PICK used \in Nonce : used = [nonces[n] EXCEPT !.life = "used"] /\ used.life = "used"
  BY <1>2, NonceValues
<1>4. /\ used.life = "used" /\ Dropped \in Nonce /\ Dropped.life = "dropped"
      /\ nonces' = [nonces EXCEPT ![n] = Consumed(n, subject, visit[v].late)]
  BY <1>1, <1>3, NonceValues DEF Consume
<1>5. Consumed(n, subject, visit[v].late) =
        IF nonces[n].life # "fresh" \/ nonces[n].subject # subject THEN nonces[n]
        ELSE IF visit[v].late THEN Dropped ELSE used
  BY <1>3 DEF Consumed
<1>6. Aging
  <2>1. nonces'[n] \in {nonces[n], Dropped, used} /\ nonces' \in [Nonces -> Nonce]
        /\ \A m \in Nonces \ {n} : nonces'[m] = nonces[m]
    BY <1>2, <1>4, <1>5
  <2> QED BY <1>2, <1>4, <2>1 DEF Aging, Spent, RunsOK
<1>7. Answer(v) \/ Accepted(n, subject, visit[v].late)
  BY <1>1 DEF Consume
<1>8. CASE Answer(v)
  BY <1>6, <1>8, AnswerMoves
<1>9. CASE Accepted(n, subject, visit[v].late)
  <2>1. nonces[n].life = "fresh" /\ nonces[n].subject = subject /\ nonces'[n] = used
    BY <1>2, <1>4, <1>5, <1>9 DEF Accepted
  <2>2. visit[v].token \in Token \cup {None}
    BY <1>2 DEF Visit
  <2>3. visit[v].token # None => visit[v].token.run = crashes
    BY <2>1, <2>2 DEF RunsOK
  <2> QED BY <1>1, <1>4, <1>6, <2>1, <2>3 DEF Spent
<1> QED BY <1>7, <1>8, <1>9

-----------------------------------------------------------------------------
(* Access requests beside the fog process.                                 *)

\* Everything a step may change.
accessSteps == <<vars, accessVars>>

\* A step of the fog process, seen from the rest.
LEMMA ProcessStep == [AccessNext]_accessSteps => [Next]_vars
<1> SUFFICES ASSUME [AccessNext]_accessSteps PROVE [Next]_vars
  OBVIOUS
<1>1. ASSUME NEW n \in Nonces, DrawNonce(n) \/ NonceExpires(n) PROVE UNCHANGED vars
  BY <1>1 DEF DrawNonce, NonceExpires
<1>2. ASSUME NEW v \in Visitors, AccessStep(v) \/ AccessRequest(v) PROVE UNCHANGED vars
  BY <1>2 DEF AccessStep, Consume, BlacklistCheck, DeviceCheck, ScopeCheck, ProofCheck,
     StatusCheck, RegisteredCheck, RoleCheck, PolicyCheck, ProvisionalGrant, FullGrant, Check,
     Deny, Allow, AccessRequest, TokensAccess, Verify
<1>3. ASSUME NEW token \in minted, TokenExpires(token) PROVE UNCHANGED vars
  BY <1>3 DEF TokenExpires
<1> QED BY <1>1, <1>2, <1>3 DEF AccessNext, accessSteps

\* Beside access requests the fog node works as without them.
LEMMA AccessOfSpec == AccessSpec => Spec
<1>1. AccessInit => Init
  BY DEF AccessInit
<1> QED BY <1>1, ProcessStep, PTL DEF AccessSpec, Spec, accessSteps

\* Until a restart the same process works on, and its blacklist only grows.
LEMMA SameProcess ==
  ASSUME Next, ~Restart
  PROVE  crashes' = crashes /\ revoked_token_ids \subseteq revoked_token_ids'
<1>1. ASSUME NEW t \in Threads, Registering(t) \/ RegistrationRequest(t)
      PROVE  UNCHANGED <<crashes, revoked_token_ids>>
  BY <1>1 DEF Registering, RegistrationRequest, PubkeyKnown, PubkeyInUse, PubkeyWrite, PopUsed,
     PopVerify, PopFail, PopPass, PopUpsert, MetaRecord, MetaQueue, MetaAccept, MetaReply,
     RegisterStart, SessionGone, RegisterPubkey, RegisterPop, RegisterMetadata, notRegistration,
     tokenVars
<1>2. ASSUME NEW t \in Threads, Closing(t) \/ EpochRequest(t) \/ AutoClose(t)
      PROVE  UNCHANGED <<crashes, revoked_token_ids>>
  BY <1>2 DEF Closing, EpochRequest, AutoClose, CloseAcquire, CloseRevoked, CloseCollect,
     CloseAnchor, CloseUpdate, CloseFinish, ProofReply, EpochClose, GetProof, notEpoch, tokenVars
<1>3. ASSUME NEW t \in Threads, Issuing(t) \/ TokenRequest(t)
      PROVE  crashes' = crashes /\ revoked_token_ids \subseteq revoked_token_ids'
  BY <1>3 DEF Issuing, TokenRequest, IssueKnown, IssueEligible, IssueRecord, IssueStatus,
     RevokeList, RevokeTokens, TokensIssue, Revoke, RevokeToken, notToken, tokenVars
<1>4. ASSUME NEW s \in Sids, SessionExpires(s) PROVE UNCHANGED <<crashes, revoked_token_ids>>
  BY <1>4 DEF SessionExpires, notRegistration, tokenVars
<1>5. CASE Quiet
  BY <1>5 DEF Quiet, vars, fogVars
<1> QED BY <1>1, <1>2, <1>3, <1>4, <1>5 DEF Next, Step, Request

\* A token is handed out by the process that runs, for a device it issued it to.
LEMMA HandedOutTokens == ASSUME TypeInv, crashes <= MaxCrashes PROVE HandedOut \subseteq Token
<1> SUFFICES ASSUME NEW t \in Threads, At(t, "issue_status")
             PROVE  [tok |-> frame[t].tok, run |-> crashes, did |-> frame[t].did] \in Token
  BY DEF HandedOut
<1>1. frame[t].tok \in Tokens /\ frame[t].did \in Dids
  BY DEF TypeInv, FrameOK, LocalsOK, IssueSteps, At
<1>2. crashes \in 0..MaxCrashes
  BY BoundAssumption DEF TypeInv, TypeOK
<1> QED BY <1>1, <1>2 DEF Token

\* A step of the fog process hands out tokens; a restart forgets the requests
\* under way and leaves every nonce that was drawn dropped.
LEMMA BesideNonces ==
  ASSUME TypeInv, AccessTypes, NonceInv, Next, Beside
  PROVE  AccessTypes' /\ NonceInv' /\ UNCHANGED allowed
         /\ (Restart \/ UNCHANGED visit)
<1>1. CASE Restart
  <2>1. crashes' # crashes /\ crashes' <= MaxCrashes
    BY <1>1, BoundAssumption DEF Restart, TypeInv, TypeOK
  <2>2. /\ nonces' = [n \in Nonces |-> IF nonces[n] = Undrawn THEN Undrawn ELSE Dropped]
        /\ visit' = [v \in Visitors |-> NoVisit] /\ UNCHANGED <<minted, allowed>>
    BY <2>1 DEF Beside
  <2>3. AccessTypes'
    BY <2>1, <2>2, NonceValues, NoVisitType DEF AccessTypes, VisitsOK
  <2>4. \A v \in Visitors : visit'[v].step = "idle"
    BY <2>2, NoVisitType
  <2>5. \A n \in Nonces : /\ nonces'[n].life # "fresh"
                          /\ nonces[n].life \in {"used", "dropped"} => nonces'[n].life = "dropped"
    BY <2>2, NonceValues
  <2> QED BY <1>1, <2>2, <2>3, <2>4, <2>5
          DEF NonceInv, SpentOK, Spent, RunsOK, NonceBuysOnce, PastNonce
<1>2. CASE ~Restart
  <2>1. crashes' = crashes
    BY <1>2, SameProcess
  <2>2. minted' = minted \cup HandedOut /\ UNCHANGED <<nonces, visit, allowed>>
    BY <2>1 DEF Beside
  <2>3. AccessTypes'
    BY <2>1, <2>2, HandedOutTokens DEF AccessTypes, VisitsOK
  <2> QED BY <2>1, <2>2, <2>3 DEF NonceInv, SpentOK, Spent, RunsOK, NonceBuysOnce, PastNonce
<1> QED BY <1>1, <1>2

\* A step of one access request: past the nonce check it is alone with its
\* nonce, whatever the others are doing.
LEMMA StepNonces ==
  ASSUME AccessTypes, NonceInv, NEW v \in Visitors, AccessStep(v)
  PROVE  AccessTypes' /\ NonceInv'
<1>1. /\ Moves(v) /\ Decides(v) /\ visit' \in [Visitors -> Visit]
      /\ UNCHANGED <<minted, crashes>>
  BY StepMoves DEF vars
<1>2. Aging
  <2>1. CASE UNCHANGED nonces
    BY <1>1, <2>1 DEF Aging, AccessTypes, NonceInv, RunsOK, Spent
  <2>2. CASE Consume(v)
    BY <2>2, ConsumeAging DEF NonceInv
  <2> QED BY <2>1, <2>2, StepMoves
<1>3. AccessTypes'
  BY <1>1, <1>2, NoVisitType DEF AccessTypes, VisitsOK, Aging, Moves, Passes
<1>4. ASSUME PastNonce(v)'
      PROVE  /\ visit'[v].nonce = visit[v].nonce /\ visit'[v].token = visit[v].token
             /\ UNCHANGED allowed
             /\ \/ PastNonce(v)
                \/ /\ nonces[visit[v].nonce].life = "fresh"
                   /\ nonces'[visit[v].nonce].life = "used"
                   /\ visit[v].token # None => visit[v].token.run = crashes
  <2>1. visit'[v].step \notin {"idle", "consume"} /\ visit'[v] # NoVisit
    BY <1>4, NoVisitType DEF PastNonce
  <2>2. visit'[v].nonce = visit[v].nonce /\ visit'[v].token = visit[v].token /\ UNCHANGED allowed
    BY <1>1, <2>1 DEF Moves, Decides
  <2>3. CASE Consume(v)
    BY <2>1, <2>2, <2>3, ConsumeAging DEF NonceInv
  <2>4. CASE ~Consume(v)
    BY <2>2, <2>4 DEF AccessStep, BlacklistCheck, DeviceCheck, ScopeCheck, ProofCheck,
       StatusCheck, RegisteredCheck, RoleCheck, PolicyCheck, Check, Doing, PastNonce
  <2> QED BY <2>3, <2>4
<1>5. \A a \in allowed' : \/ a \in allowed
                          \/ a.nonce = visit[v].nonce /\ PastNonce(v) /\ ~PastNonce(v)'
  <2>1. CASE UNCHANGED allowed
    BY <2>1
  <2>2. CASE allowed' # allowed
    <3>1. visit[v].step \in {"scope", "policy"} /\ visit'[v].step = "idle"
      BY <1>1, <2>2, NoVisitType DEF Decides
    <3>2. PICK operation :
            allowed' = allowed \cup {[nonce |-> visit[v].nonce, did |-> visit[v].did,
                                      operation |-> operation]}
      BY <1>1, <2>2 DEF Decides
    <3> QED BY <3>1, <3>2 DEF PastNonce
  <2> QED BY <2>1, <2>2
<1>6. \A u \in Visitors \ {v} : visit'[u] = visit[u]
  BY <1>1 DEF Moves
<1>7. \A n \in Nonces : Spent(n) => nonces'[n].life \in {"used", "dropped"}
  BY <1>2 DEF Aging, Spent
<1>8. \A u \in Visitors : PastNonce(u) => visit[u].nonce \in Nonces
  BY DEF AccessTypes, VisitsOK, PastNonce
<1>9. SpentOK'
  <2>1. \A u \in Visitors : PastNonce(u)' => nonces'[visit'[u].nonce].life \in {"used", "dropped"}
    BY <1>4, <1>6, <1>7, <1>8 DEF NonceInv, SpentOK, PastNonce
  <2>2. \A a \in allowed' : a.nonce \in Nonces /\ nonces'[a.nonce].life \in {"used", "dropped"}
    BY <1>5, <1>7, <1>8 DEF NonceInv, SpentOK
  <2> QED BY <2>1, <2>2 DEF SpentOK, Spent
<1>10. RunsOK'
  BY <1>1, <1>2, <1>4, <1>6 DEF RunsOK, Aging, NonceInv, PastNonce
<1>11. NonceBuysOnce'
  <2>1. ASSUME NEW w \in Visitors, PastNonce(w)', NEW a \in allowed'
        PROVE  a.nonce # visit'[w].nonce
    <3>1. CASE w = v
      <4>1. a \in allowed /\ Spent(a.nonce)
        BY <1>4, <2>1, <3>1 DEF NonceInv, SpentOK
      <4> QED BY <1>4, <2>1, <3>1, <4>1 DEF NonceInv, NonceBuysOnce, Spent
    <3>2. CASE w # v
      BY <1>5, <1>6, <2>1, <3>2 DEF NonceInv, NonceBuysOnce, PastNonce
    <3> QED BY <3>1, <3>2
  <2>2. ASSUME NEW w \in Visitors \ {v}, PastNonce(w), PastNonce(v)'
        PROVE  visit[w].nonce # visit'[v].nonce
    BY <1>4, <2>2 DEF NonceInv, NonceBuysOnce, SpentOK, Spent
  <2> QED BY <1>6, <2>1, <2>2 DEF NonceInv, NonceBuysOnce, PastNonce
<1> QED BY <1>3, <1>9, <1>10, <1>11 DEF NonceInv

\* Every step of the fog and of access requests preserves the invariant.
LEMMA NextNonces ==
  TypeInv /\ AccessTypes /\ NonceInv /\ [AccessNext]_accessSteps => AccessTypes' /\ NonceInv'
<1> SUFFICES ASSUME TypeInv, AccessTypes, NonceInv, [AccessNext]_accessSteps
             PROVE  AccessTypes' /\ NonceInv'
  OBVIOUS
<1>1. ASSUME NEW n \in Nonces, DrawNonce(n) \/ NonceExpires(n) PROVE AccessTypes' /\ NonceInv'
  <2>1. Aging /\ UNCHANGED <<minted, visit, allowed, crashes>>
    BY <1>1, DrawAging DEF NonceInv, vars
  <2> QED BY <2>1 DEF Aging, AccessTypes, VisitsOK, NonceInv, SpentOK, Spent, RunsOK,
                      NonceBuysOnce, PastNonce
<1>2. ASSUME NEW v \in Visitors, AccessRequest(v) PROVE AccessTypes' /\ NonceInv'
  <2>1. /\ visit' \in [Visitors -> Visit] /\ VisitsOK'
        /\ \A u \in Visitors \ {v} : visit'[u] = visit[u]
        /\ ~PastNonce(v)' /\ UNCHANGED <<nonces, minted, allowed, crashes>>
    BY <1>2, RequestMoves DEF PastNonce, vars
  <2>2. AccessTypes'
    BY <2>1 DEF AccessTypes
  <2> QED BY <2>1, <2>2 DEF NonceInv, SpentOK, Spent, RunsOK, NonceBuysOnce, PastNonce
<1>3. CASE UNCHANGED accessSteps \/ \E token \in minted : TokenExpires(token)
  <2>1. UNCHANGED <<nonces, minted, visit, allowed, crashes>>
    BY <1>3 DEF accessSteps, accessVars, vars, TokenExpires
  <2> QED BY <2>1 DEF AccessTypes, VisitsOK, NonceInv, SpentOK, Spent, RunsOK, NonceBuysOnce,
                      PastNonce
<1> QED BY <1>1, <1>2, <1>3, BesideNonces, StepNonces DEF AccessNext

\* No nonce has been drawn when the fog node starts.
LEMMA InitNonces == AccessInit => AccessTypes /\ NonceInv
<1> SUFFICES ASSUME AccessInit PROVE AccessTypes /\ NonceInv
  OBVIOUS
<1>1. /\ \A v \in Visitors : visit[v] = NoVisit /\ visit[v].step = "idle"
      /\ \A n \in Nonces : nonces[n].life = "undrawn"
      /\ allowed = {} /\ crashes = 0
  BY NoVisitType, NonceValues DEF AccessInit, Init
<1>2. nonces \in [Nonces -> Nonce] /\ visit \in [Visitors -> Visit]
  BY NonceValues, NoVisitType DEF AccessInit
<1>3. AccessTypes
  BY <1>1, <1>2, BoundAssumption DEF AccessInit, AccessTypes, VisitsOK
<1> QED BY <1>1, <1>3 DEF NonceInv, SpentOK, RunsOK, NonceBuysOnce, PastNonce

\* The invariant holds always.
LEMMA NonceInvariant == AccessSpec => [](TypeInv /\ AccessTypes /\ NonceInv)
<1>1. AccessInit => AccessTypes /\ NonceInv
  BY InitNonces
<1>2. TypeInv /\ (AccessTypes /\ NonceInv) /\ [AccessNext]_accessSteps => (AccessTypes /\ NonceInv)'
  BY NextNonces
<1>3. AccessSpec => []TypeInv
  BY AccessOfSpec, TypeInvariant, PTL
<1> QED BY <1>1, <1>2, <1>3, PTL DEF AccessSpec, accessSteps

-----------------------------------------------------------------------------
(* What it gives, whatever else the fog is doing.                          *)

\* A nonce buys one decision, for any number of threads and visitors: consume()
\* burns it under its lock for the first that presents it, and a burned nonce
\* is never fresh again (fog/tokens/store.py).
THEOREM NoncesBuyOneDecision == AccessSpec => []NonceBuysOnce
<1>1. NonceInv => NonceBuysOnce
  BY DEF NonceInv
<1> QED BY <1>1, NonceInvariant, PTL

\* Only the request at its last check is answered ALLOW.
LEMMA Decider ==
  ASSUME AccessTypes, TypeInv, NonceInv, [AccessNext]_accessSteps, NEW v \in Visitors, Allows(v)
  PROVE  AccessStep(v) /\ visit[v].step \in {"scope", "policy"}
<1>1. allowed' # allowed /\ visit[v].step # "idle" /\ visit'[v].step = "idle"
  BY DEF Allows
<1>2. PICK w \in Visitors : AccessStep(w)
  <2>1. ASSUME NEW w \in Visitors, AccessRequest(w) PROVE UNCHANGED allowed
    BY <2>1, RequestMoves
  <2>2. ASSUME NEW n \in Nonces, DrawNonce(n) \/ NonceExpires(n) PROVE UNCHANGED allowed
    BY <2>2 DEF DrawNonce, NonceExpires
  <2>3. Next /\ Beside => UNCHANGED allowed
    BY DEF Beside
  <2>4. UNCHANGED accessSteps => UNCHANGED allowed
    BY DEF accessSteps, accessVars
  <2>5. ASSUME NEW token \in minted, TokenExpires(token) PROVE UNCHANGED allowed
    BY <2>5 DEF TokenExpires
  <2> QED BY <1>1, <2>1, <2>2, <2>3, <2>4, <2>5 DEF AccessNext
<1>3. Moves(w) /\ Decides(w)
  BY <1>2, StepMoves
<1>4. w = v
  BY <1>1, <1>3 DEF Moves
<1> QED BY <1>1, <1>2, <1>3, <1>4 DEF Decides

\* A token of an earlier process is never honoured: a nonce is drawn only for a
\* token this process issued, and a restart drops every nonce
\* (fog/tokens/routes.py, tokens_nonce).
THEOREM TokensEndWithProcess == AccessSpec => TokenEndsWithProcess
<1>1. TypeInv /\ AccessTypes /\ NonceInv /\ [AccessNext]_accessSteps
        => [\A v \in Visitors : Allows(v) => \/ visit[v].token = None
                                             \/ visit[v].token.run = crashes]_accessSteps
  BY Decider DEF NonceInv, RunsOK, PastNonce
<1> QED BY <1>1, NonceInvariant, PTL DEF AccessSpec, accessSteps, TokenEndsWithProcess

-----------------------------------------------------------------------------
(* With the other requests one at a time.                                  *)

\* A request that arrived too late for its device or its token has not got past
\* the check that says so.
BarredOK == \A v \in Visitors : visit[v].step # "idle" /\ visit[v].barred =>
  /\ visit[v].step \in {"consume", "blacklist", "device", "prove", "status"}
  /\ \/ Revoked(visit[v].did)
     \/ /\ visit[v].step \in {"consume", "blacklist"} /\ visit[v].token # None
        /\ is_revoked(visit[v].token)

\* A device on its way to a full grant is known, then committed, then of a role
\* that fits its type.
GrantOK == \A v \in Visitors :
  /\ visit[v].step \in {"registered", "role", "policy"} => Known(visit[v].did)
  /\ visit[v].step \in {"role", "policy"} => latest_package[visit[v].did] # None
  /\ visit[v].step = "policy" => devices[visit[v].did].roleOk

\* The invariant with the fog's own.
GrantInv == AccessTypes /\ NonceInv /\ BarredOK /\ GrantOK /\ OnlyDrivesStop

\* Other requests do not let a barred request through, nor take away what a
\* request on its way to a grant has been found to have.
LEMMA BesideGrants ==
  ASSUME OneAtATime, AllInv, GrantInv, Next, Beside
  PROVE  BarredOK' /\ GrantOK'
<1>1. Restart \/ UNCHANGED visit
  BY BesideNonces DEF AllInv, GrantInv
<1>2. CASE Restart
  <2>1. crashes' # crashes
    BY <1>2 DEF Restart, AllInv, TypeInv, TypeOK
  <2>2. \A v \in Visitors : visit'[v].step = "idle"
    BY <2>1, NoVisitType DEF Beside
  <2> QED BY <2>2 DEF BarredOK, GrantOK
<1>3. CASE ~Restart /\ UNCHANGED visit
  <2>1. crashes' = crashes /\ revoked_token_ids \subseteq revoked_token_ids'
    BY <1>3, SameProcess
  <2>2. \A d \in Dids : /\ Revoked(d) => Revoked(d)'
                        /\ Known(d) => Known(d)'
                        /\ latest_package[d] # None => latest_package'[d] # None
                        /\ Known(d) /\ latest_package[d] # None
                             => devices'[d].roleOk = devices[d].roleOk
    BY <1>3, RevokedKept, RecordKept, PackageKept DEF AllInv
  <2>3. \A v \in Visitors : visit[v].step # "idle" => visit[v].did \in Dids
    BY DEF GrantInv, AccessTypes, VisitsOK
  <2>4. \A token : is_revoked(token) => is_revoked(token)'
    BY <2>1 DEF is_revoked
  <2>5. BarredOK'
    BY <1>3, <2>2, <2>3, <2>4 DEF GrantInv, BarredOK, is_revoked
  <2>6. GrantOK'
    BY <1>3, <2>2, <2>3 DEF GrantInv, GrantOK
  <2> QED BY <2>5, <2>6
<1> QED BY <1>1, <1>2, <1>3

\* A check lets no barred request past it, and finds what the next relies on.
LEMMA StepGrants ==
  ASSUME AllInv, GrantInv, NEW v \in Visitors, AccessStep(v)
  PROVE  BarredOK' /\ GrantOK'
<1>1. Moves(v) /\ UNCHANGED vars
  BY StepMoves DEF GrantInv
<1>2. UNCHANGED <<devices, latest_package, crashes, revoked_token_ids>>
  BY <1>1 DEF vars, fogVars
<1>3. visit[v].step # "idle" => visit[v].did \in Dids
  BY DEF GrantInv, AccessTypes, VisitsOK
<1>4. CASE visit'[v] = NoVisit
  <2>1. visit'[v].step = "idle"
    BY <1>4, NoVisitType
  <2> QED BY <1>1, <1>2, <2>1
          DEF Moves, GrantInv, BarredOK, GrantOK, Known, Revoked, is_revoked
<1>5. CASE /\ Passes(v, visit[v].step, visit'[v].step)
           /\ visit'[v].did = visit[v].did /\ visit'[v].token = visit[v].token
           /\ visit'[v].barred = visit[v].barred
  <2>1. BarredOK'
    BY <1>1, <1>2, <1>5
       DEF Moves, Passes, GrantInv, BarredOK, Known, Revoked, RevokedNow, is_revoked
  <2>2. visit[v].step = "registered" /\ devices[visit[v].did].status = "REGISTERED"
          => latest_package[visit[v].did] # None
    BY <1>3 DEF GrantInv, GrantOK, AllInv, LedgerInv, RecordsOK, Registered
  <2>3. GrantOK'
    BY <1>1, <1>2, <1>5, <2>2 DEF Moves, Passes, GrantInv, GrantOK, Known
  <2> QED BY <2>1, <2>3
<1> QED BY <1>1, <1>4, <1>5 DEF Moves

\* Only actuators and controllers may stop a resource.
LEMMA StopRoles ==
  ASSUME NEW resource \in DeviceTypes, NEW role \in Roles, check_policy(resource, "stop", role)
  PROVE  role \in {"actuator", "controller"}
<1>1. CASE resource \in Meters
  BY <1>1 DEF check_policy, POLICY_TABLE, DeviceTypes, Meters
<1>2. CASE resource \in Drives
  BY <1>2 DEF check_policy, POLICY_TABLE, DeviceTypes, Meters, Drives
<1>3. CASE resource = "camera"
  BY <1>3 DEF check_policy, POLICY_TABLE, DeviceTypes, Meters, Drives
<1>4. CASE resource = "plc"
  BY <1>4 DEF check_policy, POLICY_TABLE, DeviceTypes, Meters, Drives
<1> QED BY <1>1, <1>2, <1>3, <1>4 DEF DeviceTypes

\* Only drives and PLCs have such a role.
LEMMA StopTypes ==
  ASSUME NEW type \in DeviceTypes, NEW role \in {"actuator", "controller"},
         role_valid_for_type(type, role)
  PROVE  type \in Drives \cup {"plc"}
BY DEF role_valid_for_type, ROLES_FOR_TYPE, DeviceTypes, Meters, Drives

\* An answer that allows to stop something.
LEMMA StopGrants ==
  ASSUME GrantInv, NEW v \in Visitors, AccessStep(v)
  PROVE  OnlyDrivesStop'
<1> SUFFICES ASSUME NEW a \in allowed', a \notin allowed, a.operation = "stop"
             PROVE  DeviceType[a.did] \in Drives \cup {"plc"}
  BY DEF OnlyDrivesStop, GrantInv
<1>1. ProvisionalGrant(v) \/ (visit[v].step = "policy" /\ FullGrant(v))
  BY DEF AccessStep, Consume, BlacklistCheck, DeviceCheck, ScopeCheck, ProofCheck, StatusCheck,
     RegisteredCheck, RoleCheck, PolicyCheck, Check, Deny, Doing
<1>2. ~ProvisionalGrant(v)
  <2> SUFFICES ASSUME NEW resource, NEW operation, NEW type,
                      provisional_allowed(type, resource, operation), Allow(v, operation)
               PROVE  FALSE
    BY DEF ProvisionalGrant
  <2>1. a.operation = operation
    BY DEF Allow
  <2> QED BY <2>1 DEF provisional_allowed, PROVISIONAL_OPERATIONS
<1>3. PICK resource \in DeviceTypes, operation \in Operations, role \in Roles :
        /\ Role(visit[v].did, role) /\ check_policy(resource, operation, role)
        /\ Allow(v, operation)
  BY <1>1, <1>2 DEF FullGrant
<1>4. a.operation = operation /\ a.did = visit[v].did
  BY <1>3 DEF Allow
<1>5. visit[v].did \in Dids /\ devices[visit[v].did].roleOk
  BY <1>1, <1>2 DEF GrantInv, GrantOK, AccessTypes, VisitsOK
<1>6. DeviceType[a.did] \in DeviceTypes /\ role_valid_for_type(DeviceType[a.did], role)
  BY <1>3, <1>4, <1>5, DeviceTypeAssumption DEF Role
<1> QED BY <1>3, <1>4, <1>6, StopRoles, StopTypes

\* Every step preserves the invariant.
LEMMA NextGrants ==
  ASSUME OneAtATime PROVE AllInv /\ GrantInv /\ [AccessNext]_accessSteps => GrantInv'
<1> SUFFICES ASSUME AllInv, GrantInv, [AccessNext]_accessSteps PROVE GrantInv'
  OBVIOUS
<1>1. AccessTypes' /\ NonceInv'
  BY NextNonces DEF AllInv, GrantInv
<1>2. ASSUME Next, Beside PROVE BarredOK' /\ GrantOK' /\ OnlyDrivesStop'
  <2>1. UNCHANGED allowed
    BY <1>2 DEF Beside
  <2> QED BY <1>2, <2>1, BesideGrants DEF GrantInv, OnlyDrivesStop
<1>3. ASSUME NEW v \in Visitors, AccessStep(v) PROVE BarredOK' /\ GrantOK' /\ OnlyDrivesStop'
  BY <1>3, StepGrants, StopGrants
<1>4. ASSUME NEW v \in Visitors, AccessRequest(v) PROVE BarredOK' /\ GrantOK' /\ OnlyDrivesStop'
  <2>1. /\ \A u \in Visitors \ {v} : visit'[u] = visit[u]
        /\ visit'[v].step = "consume"
        /\ \/ visit'[v].token = None
              /\ (visit'[v].barred => RevokedNow(visit'[v].did))
           \/ visit'[v].token \in Token
              /\ (visit'[v].barred => RevokedNow(visit'[v].did) \/ is_revoked(visit'[v].token))
        /\ UNCHANGED <<vars, allowed>>
    BY <1>4, RequestMoves DEF GrantInv
  <2>2. UNCHANGED <<devices, latest_package, crashes, revoked_token_ids>>
    BY <2>1 DEF vars, fogVars
  <2>3. BarredOK'
    BY <2>1, <2>2, SubjectAssumption
       DEF GrantInv, BarredOK, Known, Revoked, RevokedNow, is_revoked
  <2>4. GrantOK'
    BY <2>1, <2>2 DEF GrantInv, GrantOK, Known
  <2> QED BY <2>1, <2>3, <2>4 DEF GrantInv, OnlyDrivesStop
<1>5. ASSUME \/ UNCHANGED accessSteps
             \/ \E n \in Nonces : DrawNonce(n) \/ NonceExpires(n)
             \/ \E token \in minted : TokenExpires(token)
      PROVE  BarredOK' /\ GrantOK' /\ OnlyDrivesStop'
  <2>1. UNCHANGED <<vars, visit, allowed>>
    BY <1>5 DEF accessSteps, accessVars, DrawNonce, NonceExpires, TokenExpires
  <2>2. UNCHANGED <<devices, latest_package, crashes, revoked_token_ids>>
    BY <2>1 DEF vars, fogVars
  <2> QED BY <2>1, <2>2
          DEF GrantInv, BarredOK, GrantOK, OnlyDrivesStop, Known, Revoked, is_revoked
<1> QED BY <1>1, <1>2, <1>3, <1>4, <1>5 DEF AccessNext, GrantInv

\* The invariant holds always.
LEMMA GrantInvariant ==
  ASSUME OneAtATime PROVE AccessSpec => [](AllInv /\ GrantInv)
<1>1. AccessInit => GrantInv
  <2> SUFFICES ASSUME AccessInit PROVE GrantInv
    OBVIOUS
  <2>1. \A v \in Visitors : visit[v].step = "idle"
    BY NoVisitType DEF AccessInit
  <2> QED BY <2>1, InitNonces DEF AccessInit, GrantInv, BarredOK, GrantOK, OnlyDrivesStop
<1>2. AccessSpec => []AllInv
  BY AccessOfSpec, SingleInvariant, PTL
<1> QED BY <1>1, <1>2, NextGrants, PTL DEF AccessSpec, accessSteps

-----------------------------------------------------------------------------
(* What it gives.                                                          *)

\* With the other requests one at a time, a request that arrives after its
\* device or its token was revoked is not allowed: the checks that read the
\* record and the blacklist come after its arrival, and nothing takes a
\* revocation back (fog/tokens/routes.py, fog/verification/routes.py).
THEOREM RevokedAreDenied == ASSUME OneAtATime PROVE AccessSpec => RevokedIsDenied
<1>1. AllInv /\ GrantInv /\ [AccessNext]_accessSteps
        => [\A v \in Visitors : Allows(v) => ~visit[v].barred]_accessSteps
  BY Decider DEF AllInv, GrantInv, BarredOK
<1> QED BY <1>1, GrantInvariant, PTL DEF AccessSpec, accessSteps, RevokedIsDenied

\* With the other requests one at a time, only drives and PLCs may ever stop
\* anything: a full grant needs a role that was checked against the type and
\* has not changed since, and a provisional one is for reading and writing
\* (fog/policy/access_policy.py).
THEOREM OnlyDrivesMayStop == ASSUME OneAtATime PROVE AccessSpec => []OnlyDrivesStop
<1>1. GrantInv => OnlyDrivesStop
  BY DEF GrantInv
<1> QED BY <1>1, GrantInvariant, PTL
=============================================================================
