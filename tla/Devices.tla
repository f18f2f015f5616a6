------------------------------ MODULE Devices -------------------------------
(***************************************************************************)
(* The devices' own programs, devices/device.py and                        *)
(* devices/runtime_client.py, run against the fog node as in               *)
(* scripts/demo_phase2.py: a device registers (register), may ask for a    *)
(* temporary token and use it (request_token, token_access), asks for its  *)
(* proof package until it has one (fetch_proof) and then uses that         *)
(* (verify_access).  A device keeps its key, so it is its DID.             *)
(*                                                                         *)
(* A device sends one request and waits for the answer.  It may give up    *)
(* waiting (the timeout of its HTTP client) while the fog goes on with the *)
(* request; the answer is then lost.  A program that failed may be started *)
(* again, with the same key and a new session.                             *)
(***************************************************************************)
EXTENDS FogAccess, FogProperties

CONSTANT Scenarios   \* bound: the devices that take part, those of them whose
                     \* program asks for a token, and how much goes wrong

ASSUME ScenarioAssumption ==
  Scenarios \subseteq [fleet : SUBSET Dids, askers : SUBSET Dids, trouble : Nat]

VARIABLES program,   \* per device: next call, what it holds
          trouble    \* requests still to be given up, sessions or tokens to
                     \* expire, devices to be revoked

\* worker: the thread that handles the device's request, None when the device
\* waits for nothing.
Program == [step   : {"off", "start", "pubkey", "pop", "metadata", "token",
                      "provisional", "fetch", "access", "served", "failed"},
            sid    : Sids \cup {None},
            worker : Threads \cup Visitors \cup {None},
            nonce  : Nonces \cup {None},
            token  : Token \cup {None},
            asks   : BOOLEAN]

NewProgram(asks) == [step |-> "start", sid |-> None, worker |-> None,
                     nonce |-> None, token |-> None, asks |-> asks]

DevicesInit ==
  /\ AccessInit
  /\ \E s \in Scenarios :
       /\ program = [d \in Dids |->
            IF d \in s.fleet THEN NewProgram(d \in s.askers)
            ELSE [NewProgram(FALSE) EXCEPT !.step = "off"]]
       /\ trouble = s.trouble

deviceVars == <<program, trouble>>
allVars == <<vars, accessVars, deviceVars>>

-----------------------------------------------------------------------------
\* The device is about to make the call of its step.
Calling(d, step) == program[d].step = step /\ program[d].worker = None

Become(d, new) == program' = [program EXCEPT ![d] = new] /\ UNCHANGED trouble

\* The request is on its way to worker w.
Send(d, w) == Become(d, [program[d] EXCEPT !.worker = w])

\* An error or a timeout: it ends register(), otherwise the program does without
\* the token, or asks again.
Without(d) == [program[d] EXCEPT
  !.step = CASE @ \in {"pubkey", "pop", "metadata"} -> "failed"
             [] @ = "token" -> "fetch"
             [] OTHER -> @,
  !.worker = None, !.nonce = None]

\* Session ids and nonces are random: which fresh one is drawn tells nothing.
Drawn(fresh) == IF fresh = {} THEN {} ELSE {CHOOSE x \in fresh : TRUE}

\* Which of the idle workers takes a request tells nothing either.
FreeWorkers == Drawn({t \in Threads : Idle(t)})

\* Device.register, call by call.
register_start(d, t) ==
  /\ Calling(d, "start")
  /\ \E s \in Drawn({u \in Sids : sessions[u].life = "unused"}) :
       /\ RegisterStart(t, s)
       /\ Become(d, [program[d] EXCEPT !.step = "pubkey", !.sid = s])

submit_public_key(d, t) ==
  /\ Calling(d, "pubkey")
  /\ RegisterPubkey(t, program[d].sid, d)
  /\ Send(d, t)

\* sign_challenge: with the device's own key, for the challenge it was sent.
prove_possession(d, t) ==
  /\ Calling(d, "pop")
  /\ RegisterPop(t, program[d].sid) /\ frame'[t].did = d
  /\ Send(d, t)

\* The role fits the type, as in config.DEMO_DEVICES.
submit_metadata(d, t) ==
  /\ Calling(d, "metadata")
  /\ RegisterMetadata(t, program[d].sid, TRUE)
  /\ Send(d, t)

\* The session expired before the call: 404.
SessionLost(d, t) ==
  /\ \E step \in {"pubkey", "pop", "metadata", "token"} : Calling(d, step)
  /\ SessionGone(t, program[d].sid)
  /\ Become(d, Without(d))

\* GET /proof/{did} for the latest epoch.
fetch_proof(d, t) == Calling(d, "fetch") /\ GetProof(t, d) /\ Send(d, t)

request_token(d, t) ==
  /\ Calling(d, "token")
  /\ TokensIssue(t, program[d].sid)
  /\ Send(d, t)

\* One call of the program to the registration, epoch and token routes.
CallFog(d, t) ==
  \/ register_start(d, t) \/ submit_public_key(d, t) \/ prove_possession(d, t)
  \/ submit_metadata(d, t) \/ SessionLost(d, t)
  \/ request_token(d, t) \/ fetch_proof(d, t)

\* token_access and verify_access: a nonce for every request, then the request.
get_nonce(d) ==
  /\ program[d].nonce = None
  /\ \E n \in Drawn({m \in Nonces : nonces[m].life = "undrawn"}) :
       /\ \/ Calling(d, "provisional") /\ TokensNonce(n, program[d].token)
          \/ Calling(d, "access") /\ VerifyNonce(n, d)
       /\ Become(d, [program[d] EXCEPT !.nonce = n])
  /\ UNCHANGED <<vars, minted, outdated, visit, allowed>>

token_access(d, v) ==
  /\ Calling(d, "provisional") /\ program[d].nonce # None
  /\ TokensAccess(v, program[d].token, program[d].nonce)
  /\ Send(d, v)

\* The token has expired: it is refused before the nonce is looked at.  The
\* program does without it.
token_outdated(d) ==
  /\ Calling(d, "provisional") /\ program[d].nonce # None
  /\ token_expired(program[d].token)
  /\ Become(d, [program[d] EXCEPT !.step = "fetch", !.nonce = None])
  /\ UNCHANGED <<vars, accessVars>>

verify_access(d, v) ==
  /\ Calling(d, "access") /\ program[d].nonce # None
  /\ Verify(v, d, program[d].nonce)
  /\ Send(d, v)
-----------------------------------------------------------------------------
\* The answer of thread t is 200.
Success(t) ==
  \/ pc[t] \in {"pubkey_write", "pop_upsert", "meta_reply", "issue_status"}
  \/ At(t, "proof_package") /\ latest_package[frame[t].did] # None

After(d) == CASE program[d].step = "pubkey" -> "pop"
              [] program[d].step = "pop" -> "metadata"
              [] program[d].step = "metadata" -> IF program[d].asks THEN "token" ELSE "fetch"
              [] program[d].step = "token" -> "provisional"
              [] program[d].step = "provisional" -> "fetch"
              [] program[d].step = "fetch" -> "access"
              [] program[d].step = "access" -> "served"

\* With the answer of request_token comes the token.
Told(d, t) ==
  IF ~Success(t) THEN Without(d)
  ELSE [program[d] EXCEPT
         !.step = After(d), !.worker = None,
         !.token = IF program[d].step # "token" THEN @
                   ELSE [tok |-> frame[t].tok, run |-> crashes, did |-> d]]

\* The devices for which w is working.
Served(w) == {d \in Dids : program[d].worker = w}

\* The fog takes a step of a request; with the last one the device that still
\* waits hears the answer, and keeps the latest package if it asked for it.
FogStep(t) ==
  /\ Step(t) /\ Beside
  /\ At(t, "proof_package") =>
       proofs' = proofs \cup {[did |-> d, pkg |-> latest_package[d]] :
                                d \in {e \in Served(t) : latest_package[e] # None}}
  /\ program' = [d \in Dids |-> IF d \in Served(t) /\ pc'[t] = "idle"
                                THEN Told(d, t) ELSE program[d]]
  /\ UNCHANGED trouble

\* The same for /tokens/access and /verify.  The device signs its request, and
\* asks to write, as in scripts/demo_phase2.py.
VisitStep(v) ==
  /\ AccessStep(v)
  /\ Doing(v, "prove") =>
       (Doing(v, "status")' <=> \E p \in proofs : /\ p.did = visit[v].did
                                                  /\ verify_proof_package(p))
  /\ Doing(v, "policy") \/ Doing(v, "scope") =>
       \E a \in allowed' \ allowed : a.operation = "write"
  /\ program' = [d \in Dids |->
       IF d \notin Served(v) \/ ~Doing(v, "idle")' THEN program[d]
       ELSE IF allowed' = allowed THEN Without(d)
       ELSE [program[d] EXCEPT !.step = After(d), !.worker = None, !.nonce = None]]
  /\ UNCHANGED trouble

Disturb == trouble > 0 /\ trouble' = trouble - 1

\* The device's HTTP client stops waiting for the answer.
GiveUp(d) ==
  /\ Disturb
  /\ program[d].worker # None
  /\ program' = [program EXCEPT ![d] = Without(d)]
  /\ UNCHANGED <<vars, accessVars>>

\* The program is started again; the key is loaded from its file.
Rerun(d) ==
  /\ program[d].step = "failed"
  /\ Become(d, NewProgram(program[d].asks))
  /\ UNCHANGED <<vars, accessVars>>

\* The administrator revokes a device.
Operator(t) == \E d \in Dids : Revoke(t, d, {})

-----------------------------------------------------------------------------
DeviceStep(d) == \E t \in FreeWorkers : CallFog(d, t) /\ Beside
AccessCall(d) ==
  \/ get_nonce(d) \/ token_outdated(d)
  \/ \E v \in Visitors : token_access(d, v) \/ verify_access(d, v)
TimerStep(t) == AutoClose(t) /\ Beside /\ UNCHANGED deviceVars

DevicesNext ==
  \/ \E d \in Dids : DeviceStep(d) \/ AccessCall(d) \/ GiveUp(d) \/ Rerun(d)
  \/ \E t \in Threads : FogStep(t) \/ TimerStep(t)
  \/ \E v \in Visitors : VisitStep(v)
  \/ \E t \in FreeWorkers : Operator(t) /\ Beside /\ Disturb /\ UNCHANGED program
  \/ \E s \in Sids : SessionExpires(s) /\ Beside /\ Disturb /\ UNCHANGED program
  \/ \E token \in minted : TokenExpires(token) /\ Disturb /\ UNCHANGED program

\* A device that waits for an idle worker is served in the end: requests queue
\* for the pool in order.
DevicesSpec ==
  /\ DevicesInit /\ [][DevicesNext]_allVars
  /\ \A d \in Dids : SF_allVars(DeviceStep(d)) /\ SF_allVars(AccessCall(d))
  /\ \A v \in Visitors : WF_allVars(VisitStep(v))
  /\ \A t \in Threads : /\ WF_allVars(FogStep(t))
                        /\ SF_allVars(AtLock(t) /\ FogStep(t))
                        /\ WF_allVars(TimerStep(t))

-----------------------------------------------------------------------------
Onboarded == {d \in Dids : program[d].step \in {"token", "provisional", "fetch",
                                                "access", "served"}}

\* A token was issued to the device, whether it heard of it or not.
HasToken(d) == \E k \in Tokens : issued[k] = d

\* What register() told the device is true: a device that was told its leaf is
\* queued is in the batch, or its epoch is committed, or it was revoked;
\* nothing loses it in between, however the answers, the closings and other
\* registrations interleave (device.py: "leaf queued in the open batch").
QueuedAsTold ==
  \A d \in Onboarded :
    d \in pending \/ latest_package[d] # None \/ d \in by_status("REVOKED") \/ HasToken(d)

\* No device onboards twice: though a program may give up on a request that the
\* fog goes on with, and starts again in a new session with the same key, a
\* record is never replaced.  A new record would be PENDING, and forget that
\* the device was revoked.
RecordNeverReplaced ==
  [][\A t \in Threads : At(t, "pop_upsert") /\ pc'[t] = "idle"
       => ~Known(Sess(t).did)]_allVars

\* A registered device that asks until it has its proof package, and then for
\* access, is allowed, unless it was revoked, a token was issued to it (which
\* may overtake the closing of its epoch and take its REGISTERED status away),
\* or the run's epochs are used up.
DevicesAreServed ==
  \A d \in Dids :
    d \in Onboarded ~>
      \/ program[d].step = "served"
      \/ d \in by_status("REVOKED")
      \/ HasToken(d)
      \/ d \in pending /\ current_epoch_id > MaxEpoch

\* The token bridges the time until then: a device that was given one and asks
\* for provisional access is allowed, before, during and after the closing of
\* its epoch, until the device or its token is revoked or the token expires
\* (scripts/demo_phase2.py: "temporary-token bridging").
TokenBridges ==
  \A d \in Dids :
    program[d].step = "provisional" ~>
      \/ \E a \in allowed : a.did = d
      \/ d \in by_status("REVOKED")
      \/ \E k \in revoked_token_ids : issued[k] = d
      \/ token_expired(program[d].token)
=============================================================================
