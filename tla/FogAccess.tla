----------------------------- MODULE FogAccess ------------------------------
(***************************************************************************)
(* Resource access beside everything else the fog node does: the nonces of *)
(* fog/tokens/store.py, /tokens/access of fog/tokens/routes.py and /verify *)
(* of fog/verification/routes.py, each handler step by step.               *)
(*                                                                         *)
(* Worker threads keep nothing between requests, so the ones that serve    *)
(* access requests are named apart from Threads.  What a request asks for, *)
(* and whether its signature is good, is chosen when the handler looks at  *)
(* it.  A request refused without a change of state (a forged or expired   *)
(* token, a nonce this fog never drew) is not a step.                      *)
(***************************************************************************)
EXTENDS FogNode, AccessPolicy

CONSTANTS
  Visitors,     \* worker threads that serve access requests
  Nonces,       \* bound: nonces the fog draws
  DeviceType    \* the type a device registers with

ASSUME VisitorAssumption == Visitors \cap Threads = {} /\ None \notin Visitors

\* validate_metadata refuses any type not in config.ALLOWED_DEVICE_TYPES.
ASSUME DeviceTypeAssumption == DeviceType \in [Dids -> DeviceTypes]

VARIABLES
  nonces,       \* NonceBook._entries, and the nonces not drawn yet
  minted,       \* tokens the fog has signed and handed out
  outdated,     \* those of them past their expires_at
  visit,        \* per visitor: next step, locals of the handler
  allowed       \* the requests answered ALLOW

accessVars == <<nonces, minted, outdated, visit, allowed>>

\* Token ids are random: one drawn by an earlier process never comes up again.
Token == [tok : Tokens, run : 0..MaxCrashes, did : Dids]

\* life: not drawn, accepted by consume(), used, or dropped from the book.
\* The purpose and the subject it is for are one value, a token or a DID.
Nonce == [life : {"undrawn", "fresh", "used", "dropped"},
          subject : Token \cup Dids \cup {None}, expired : BOOLEAN]

\* A nonce for one purpose is never taken for one of the other.
ASSUME SubjectAssumption == None \notin Token /\ Dids \cap Token = {}

Undrawn == [life |-> "undrawn", subject |-> None, expired |-> FALSE]
Dropped == [life |-> "dropped", subject |-> None, expired |-> TRUE]

NoVisit == [step |-> "idle", did |-> None, token |-> None, nonce |-> None,
            late |-> FALSE, barred |-> FALSE]

AccessInit == /\ Init
              /\ nonces = [n \in Nonces |-> Undrawn]
              /\ minted = {} /\ outdated = {}
              /\ visit = [v \in Visitors |-> NoVisit]
              /\ allowed = {}

-----------------------------------------------------------------------------
\* NonceBook

\* issue() drops what has expired before it adds a nonce.
issue(n, subject) ==
  /\ nonces[n].life = "undrawn"
  /\ nonces' = [m \in Nonces |->
       IF m = n THEN [Undrawn EXCEPT !.life = "fresh", !.subject = subject]
       ELSE IF nonces[m].expired THEN Dropped ELSE nonces[m]]

NonceExpires(n) ==
  /\ nonces[n].life \in {"fresh", "used"} /\ ~nonces[n].expired
  /\ nonces' = [nonces EXCEPT ![n].expired = TRUE]
  /\ UNCHANGED <<vars, minted, outdated, visit, allowed>>

\* consume() answers NONCE_OK.  late is what the clock, read before the lock,
\* said of the nonce.
Accepted_Again(n, subject, late) ==
  nonces[n].life \in {"fresh", "used"} /\ nonces[n].subject = subject /\ ~late
Accepted(n, subject, late) ==
  nonces[n].life = "fresh" /\ nonces[n].subject = subject /\ ~late

\* The entry after consume(): burned, deleted as expired, or as it was.
Consumed(n, subject, late) ==
  IF nonces[n].life # "fresh" \/ nonces[n].subject # subject THEN nonces[n]
  ELSE IF late THEN Dropped ELSE [nonces[n] EXCEPT !.life = "used"]

-----------------------------------------------------------------------------
was_issued_Signed(token) == token \in minted
was_issued(token) == token.run = crashes /\ issued[token.tok] # None

\* POST /tokens/nonce and POST /verify/nonce
TokensNonce(n, token) == was_issued(token) /\ issue(n, token)

VerifyNonce(n, d) == Known(d) /\ issue(n, d)

DrawNonce(n) ==
  /\ \/ \E token \in minted : TokensNonce(n, token)
     \/ \E d \in Dids : VerifyNonce(n, d)
  /\ UNCHANGED <<vars, minted, outdated, visit, allowed>>

-----------------------------------------------------------------------------
Doing(v, step) == visit[v].step = step

\* barred: the revocation had taken effect before the request arrived.
RevokedNow(d) == Known(d) /\ devices[d].status = "REVOKED"

is_revoked(token) == token.run = crashes /\ token.tok \in revoked_token_ids

\* The fog's key signed it, and nobody changed it.
token_signature_valid(token) == token \in minted

token_expired(token) == token \in outdated

\* The token's TTL is over.
TokenExpires(token) ==
  /\ token \in minted \ outdated
  /\ outdated' = outdated \cup {token}
  /\ UNCHANGED <<vars, nonces, minted, visit, allowed>>

\* A request arrives with a token that is good, and consume() reads the clock.
TokensAccess(v, token, n) ==
  /\ Doing(v, "idle") /\ nonces[n].life # "undrawn"
  /\ token_signature_valid(token) /\ ~token_expired(token)
  /\ visit' = [visit EXCEPT ![v] =
       [step |-> "consume", did |-> token.did, token |-> token, nonce |-> n,
        late |-> nonces[n].expired,
        barred |-> RevokedNow(token.did) \/ is_revoked(token)]]
  /\ UNCHANGED <<vars, nonces, minted, outdated, allowed>>

Verify(v, d, n) ==
  /\ Doing(v, "idle") /\ nonces[n].life # "undrawn"
  /\ visit' = [visit EXCEPT ![v] =
       [step |-> "consume", did |-> d, token |-> None, nonce |-> n,
        late |-> nonces[n].expired, barred |-> RevokedNow(d)]]
  /\ UNCHANGED <<vars, nonces, minted, outdated, allowed>>

\* The handler's next check, or its answer.
Proceed(v, step) == visit' = [visit EXCEPT ![v].step = step]
Answer(v) == visit' = [visit EXCEPT ![v] = NoVisit]

Check(v, step, passed, next) ==
  /\ Doing(v, step)
  /\ IF passed THEN Proceed(v, next) ELSE Answer(v)
  /\ UNCHANGED <<vars, nonces, minted, outdated, allowed>>

\* A bad signature, a wider scope and the policy are refused.
Deny(v) == Answer(v) /\ UNCHANGED <<vars, nonces, minted, outdated, allowed>>

Allow(v, operation) ==
  /\ allowed' = allowed \cup {[nonce |-> visit[v].nonce, did |-> visit[v].did,
                               operation |-> operation]}
  /\ Answer(v)
  /\ UNCHANGED <<vars, nonces, minted, outdated>>

Consume(v) ==
  LET n == visit[v].nonce
      subject == IF visit[v].token = None THEN visit[v].did ELSE visit[v].token
  IN  /\ Doing(v, "consume")
      /\ nonces' = [nonces EXCEPT ![n] = Consumed(n, subject, visit[v].late)]
      /\ IF Accepted(n, subject, visit[v].late)
         THEN Proceed(v, IF visit[v].token = None THEN "prove" ELSE "blacklist")
         ELSE Answer(v)
      /\ UNCHANGED <<vars, minted, outdated, allowed>>

-----------------------------------------------------------------------------
\* POST /tokens/access, after the nonce: the blacklist, the device's status,
\* then what the token itself decides.  Its role fitted the type when it was
\* issued.
BlacklistCheck_Skipped(v) == Check(v, "blacklist", TRUE, "device")
BlacklistCheck(v) == Check(v, "blacklist", ~is_revoked(visit[v].token), "device")

DeviceCheck_Tokenized(v) ==
  Check(v, "device", devices[visit[v].did].status = "TOKENIZED", "scope")
DeviceCheck(v) == Check(v, "device", ~RevokedNow(visit[v].did), "scope")

ProvisionalGrant(v) ==
  \E resource \in DeviceTypes, operation \in Operations, role \in Roles :
    LET type == DeviceType[visit[v].did]
    IN  /\ role_valid_for_type(type, role)
        /\ provisional_allowed(type, resource, operation)
        /\ check_policy(resource, operation, role)
        /\ Allow(v, operation)

ScopeCheck(v) == Doing(v, "scope") /\ (ProvisionalGrant(v) \/ Deny(v))

-----------------------------------------------------------------------------
\* POST /verify, after the nonce.  The package is one the fog handed out, and
\* the device's key signed the request.
verify_proof_package(p) == p.did \in p.pkg.root /\ IsRoot(blocks, p.pkg)

ProofCheck(v) ==
  \E genuine \in BOOLEAN :
    Check(v, "prove", /\ genuine
                      /\ \E p \in proofs : /\ p.did = visit[v].did
                                           /\ verify_proof_package(p), "status")

StatusCheck(v) ==
  Check(v, "status", Known(visit[v].did) /\ ~RevokedNow(visit[v].did), "registered")

RegisteredCheck(v) ==
  Check(v, "registered", devices[visit[v].did].status = "REGISTERED", "role")

\* The role the device registered with, which may not fit its type.
Role(d, role) == role_valid_for_type(DeviceType[d], role) <=> devices[d].roleOk

RoleCheck_Skipped(v) == Check(v, "role", TRUE, "policy")
RoleCheck(v) == Check(v, "role", devices[visit[v].did].roleOk, "policy")

FullGrant(v) ==
  \E resource \in DeviceTypes, operation \in Operations, role \in Roles :
    /\ Role(visit[v].did, role)
    /\ check_policy(resource, operation, role)
    /\ Allow(v, operation)

PolicyCheck(v) == Doing(v, "policy") /\ (FullGrant(v) \/ Deny(v))

-----------------------------------------------------------------------------
AccessStep(v) ==
  \/ Consume(v)
  \/ BlacklistCheck(v) \/ DeviceCheck(v) \/ ScopeCheck(v)
  \/ ProofCheck(v) \/ StatusCheck(v) \/ RegisteredCheck(v) \/ RoleCheck(v)
  \/ PolicyCheck(v)

AccessRequest(v) == \E n \in Nonces :
  \/ \E token \in minted : TokensAccess(v, token, n)
  \/ \E d \in Dids : Verify(v, d, n)

\* What other requests do to a visitor: a token is handed out when tokens_issue
\* replies, and a restart forgets the nonces and the requests under way.
HandedOut == {[tok |-> frame[t].tok, run |-> crashes, did |-> frame[t].did] :
                t \in {u \in Threads : At(u, "issue_status") /\ pc'[u] = "idle"}}

Beside ==
  IF crashes' = crashes
  THEN minted' = minted \cup HandedOut /\ UNCHANGED <<nonces, outdated, visit, allowed>>
  ELSE /\ nonces' = [n \in Nonces |-> IF nonces[n] = Undrawn THEN Undrawn ELSE Dropped]
       /\ visit' = [v \in Visitors |-> NoVisit]
       /\ UNCHANGED <<minted, outdated, allowed>>

AccessNext ==
  \/ Next /\ Beside
  \/ \E n \in Nonces : DrawNonce(n) \/ NonceExpires(n)
  \/ \E token \in minted : TokenExpires(token)
  \/ \E v \in Visitors : AccessStep(v) \/ AccessRequest(v)

AccessSpec == AccessInit /\ [][AccessNext]_<<vars, accessVars>>

-----------------------------------------------------------------------------
\* A nonce buys one decision: no two requests are past the nonce check with the
\* same one, nor one with a nonce that was already answered ALLOW, whatever
\* arrives at the same time, expires, is purged or is replayed
\* (fog/tokens/store.py: "it has never been used before").
PastNonce(v) == visit[v].step \notin {"idle", "consume"}

NonceBuysOnce ==
  \A v \in {u \in Visitors : PastNonce(u)} :
    /\ \A a \in allowed : a.nonce # visit[v].nonce
    /\ \A u \in Visitors \ {v} : PastNonce(u) => visit[u].nonce # visit[v].nonce

\* With the other requests one at a time: a request that arrives after its
\* device or token was revoked is not allowed (fog/revocation/registry.py:
\* "/tokens/access and /verify deny it on the very next request").
Allows(v) == allowed' # allowed /\ visit[v].step # "idle" /\ visit'[v].step = "idle"

RevokedIsDenied ==
  [][\A v \in Visitors : Allows(v) => ~visit[v].barred]_<<vars, accessVars>>

\* A token signed by an earlier process is never honoured: its blacklist was
\* lost with the process, but its nonces can no longer be drawn.
TokenEndsWithProcess ==
  [][\A v \in Visitors : Allows(v) => \/ visit[v].token = None
                                      \/ visit[v].token.run = crashes
    ]_<<vars, accessVars>>

\* Nobody but a drive or a PLC is ever allowed to stop anything, whatever role
\* it registered with (fog/policy/access_policy.py: "must never STOP a
\* production line").
OnlyDrivesStop ==
  \A a \in allowed : a.operation = "stop" =>
    DeviceType[a.did] \in Drives \cup {"plc"}
=============================================================================
