--------------------------- MODULE FogProperties ----------------------------
(***************************************************************************)
(* What the fog node promises.  The first group holds for any number of    *)
(* threads; the second needs the assumption each property names.           *)
(***************************************************************************)
EXTENDS FogNode

-----------------------------------------------------------------------------
\* A device is REGISTERED only with a proof package of the epoch its record
\* names, over a root that is anchored for that epoch and commits to the
\* device (common/schemas.py: "included in a finalized epoch, has a proof
\* package"), whatever registration, token issue, revocation and other
\* closings do while finalize_epoch works.
RegisteredHasProof ==
  \A d \in by_status("REGISTERED") :
    /\ latest_package[d] # None
    /\ latest_package[d].epoch_id = devices[d].epoch_id
    /\ d \in latest_package[d].root
    /\ IsRoot(blocks, latest_package[d])

\* Every proof package a device has fetched verifies against the root the
\* registry serves, and still will after a restart: neither a crash at any
\* point nor a failed save of the ledger file invalidates it.
IssuedProofsStayValid ==
  \A p \in proofs :
    /\ p.did \in p.pkg.root
    /\ IsRoot(blocks, p.pkg)
    /\ IsRoot(disk, p.pkg)

\* The registry holds one block per epoch, numbered without a gap, and its
\* file is at most the block of the open epoch behind it.
ChainInOrder ==
  /\ \A i \in DOMAIN blocks : blocks[i].epoch_id = i
  /\ Len(disk) <= Len(blocks) /\ Len(blocks) <= Len(disk) + 1
  /\ \A i \in DOMAIN disk : disk[i] = blocks[i]
  /\ Len(blocks) \in {current_epoch_id - 1, current_epoch_id}

\* The file of the ledger and the proofs the devices hold are a root registry:
\* registration, revocation, concurrent closings, failed saves and restarts
\* are steps of RootRegistry or change nothing it shows.
Registry == INSTANCE RootRegistry WITH chain <- disk, held <- proofs

ImplementsRegistry == Registry!Spec

-----------------------------------------------------------------------------
\* A proof of possession is accepted only for a challenge nobody consumed
\* before (fog/registration/pop.py: "A challenge is SINGLE USE: it is consumed
\* on the first attempt, pass or fail").
ChallengeSingleUse ==
  [][\A t \in Threads : At(t, "pop_verify") /\ pc'[t] = "pop_pass"
       => ~Sess(t).used]_vars

\* With one request per session at a time: a record is created only for the
\* DID whose key signed the challenge (common/schemas.py: PENDING is "key
\* ownership proven").
PossessionProven ==
  [][\A d \in Dids : ~Known(d) /\ Known(d)'
       => \E t \in Threads : At(t, "pop_upsert") /\ frame[t].did = d]_vars

\* With one request per session at a time: a session goes through its states
\* in the only order they may happen, a failed proof of possession alone
\* sends it back, from KEY_SUBMITTED to AUTHENTICATED.
Rank(state) == CASE state = "AUTHENTICATED" -> 1 [] state = "KEY_SUBMITTED" -> 2
                 [] state = "POP_VERIFIED" -> 3 [] OTHER -> 4

SessionOrder ==
  [][\A s \in Sids :
       LET from == sessions[s].state  to == sessions'[s].state
       IN  \/ sessions'[s].life = "gone"
           \/ Rank(to) \in {Rank(from), Rank(from) + 1}
           \/ from = "KEY_SUBMITTED" /\ to = "AUTHENTICATED"]_vars

-----------------------------------------------------------------------------
\* With one request at a time: the role of a device that is queued or committed
\* never changes.  /register/metadata writes the role before add_leaf may refuse
\* the leaf, so the session's state alone keeps a device from changing what it
\* may do without a new epoch.
RoleIsKept ==
  [][\A d \in Dids :
       Known(d) /\ Known(d)' /\ (d \in pending \/ latest_package[d] # None)
         => devices'[d].roleOk = devices[d].roleOk]_vars

\* With one request at a time: no two stored sessions onboard the same DID
\* (/register/pubkey: "DID already in an onboarding session").
OneOnboardingPerDid ==
  LET onboarding == {s \in Sids : /\ Stored(s)
                                  /\ sessions[s].state # "AUTHENTICATED"}
  IN  \A s, other \in onboarding :
        sessions[s].did = sessions[other].did => s = other

\* With one request at a time: a revoked device stays revoked, until a
\* restart forgets every record (fog/revocation/registry.py: "effective
\* IMMEDIATELY", "leaves it out of every FUTURE epoch root").
RevokedStaysRevoked ==
  [][\A d \in by_status("REVOKED") :
       crashes' = crashes => d \in by_status("REVOKED")']_vars

\* When no revocation is under way, every token of a revoked device is
\* blacklisted (fog/revocation/registry.py: "blacklists every token it was
\* issued").  It holds with one request at a time; with two, a token issue that
\* has passed its checks records its token after the list was taken.
RevokedTokensBlacklisted ==
  (\A t \in Threads : pc[t] \notin {"revoke_list", "revoke_tokens"})
    => \A k \in Tokens : issued[k] \in by_status("REVOKED") => k \in revoked_token_ids

\* With one request at a time and no exclude_dids: a tokenized device is queued
\* for the next batch (fog/tokens/routes.py: "METADATA_ACCEPTED guarantees
\* that").
TokenizedIsQueued == by_status("TOKENIZED") \subseteq pending

\* With one request at a time, no exclude_dids and a writable ledger file, the
\* node implements the life cycle.  The batch is committed when its root is
\* anchored: until finalize_epoch has updated every record, the devices of the
\* batch count as REGISTERED and as no longer queued.
Committing == UNION {frame[t].dids : t \in {u \in Threads : At(u, "close_update")}}

Lifecycle == INSTANCE DeviceLifecycle WITH
  status <- [d \in Dids |-> IF ~Known(d) THEN "UNKNOWN"
                            ELSE IF d \in Committing THEN "REGISTERED"
                            ELSE devices[d].status],
  queue <- IF Committing = {} THEN pending ELSE {},
  roots <- [i \in DOMAIN blocks |-> blocks[i].root]

ImplementsLifecycle == Lifecycle!Spec

-----------------------------------------------------------------------------
\* The lock of a Python process is not fair, but it is not refused for ever.
AtLock(t) == pc[t] \in {"meta_queue", "meta_reply", "close_acquire", "proof_package"}

FairSpec == /\ Spec
            /\ \A t \in Threads : /\ WF_vars(Step(t))
                                  /\ SF_vars(AtLock(t) /\ Step(t))

\* Every request ends and every closing by the timer does: nobody waits for
\* ever for the epoch lock, not for the second time either that a metadata
\* request takes it, since finalize_epoch releases it in whatever way it ends:
\* an empty batch, an epoch already anchored, a failed save, also where that
\* ends the timer thread.
RequestsEnd ==
  \A t \in Threads : pc[t] \notin {"idle", "dead"} ~> pc[t] \in {"idle", "dead"}

\* With the automatic window on and the ledger file writable, a queued device
\* is committed, unless it is revoked first or the run's epochs are used up.
QueuedIsDecided ==
  \A d \in Dids : d \in pending ~> \/ d \notin pending
                                   \/ d \in by_status("REVOKED")
                                   \/ current_epoch_id > MaxEpoch
=============================================================================
