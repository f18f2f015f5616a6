---------------------------- MODULE EpochManager ----------------------------
(***************************************************************************)
(* Closing an epoch: fog/batch/epoch_manager.py finalize_epoch with the    *)
(* ledger's anchor_root, the administrator's /epoch/close, the timer       *)
(* thread of the automatic window, and GET /proof/{did}.                   *)
(*                                                                         *)
(* finalize_epoch holds the epoch lock from its first line to its last,    *)
(* but the device records it reads and writes are also written, without    *)
(* that lock, by registration, token issue and revocation.                 *)
(***************************************************************************)
EXTENDS FogState

\* What closing an epoch leaves alone.
notEpoch == <<sessions, tokenVars, crashes>>

-----------------------------------------------------------------------------
\* POST /epoch/close with the administrator's key.
EpochClose(t, excluded) ==
  /\ "close" \in Requests /\ Idle(t)
  /\ current_epoch_id <= MaxEpoch
  /\ Call(t, "close_acquire", [NoFrame EXCEPT !.dids = excluded])
  /\ UNCHANGED <<devices, epochVars, lock, ledgerVars, proofs, notEpoch>>

\* The timer thread wakes up and finds the batch not empty.
WorthClosing_Several == Cardinality(pending) > 1
WorthClosing == pending # {}

AutoClose(t) ==
  /\ t \in Timers /\ At(t, "idle")
  /\ current_epoch_id <= MaxEpoch
  /\ lock = None /\ WorthClosing
  /\ Call(t, "close_acquire", NoFrame)
  /\ UNCHANGED <<devices, epochVars, lock, ledgerVars, proofs, notEpoch>>

CloseAcquire(t) ==
  /\ At(t, "close_acquire")
  /\ lock = None
  /\ lock' = t
  /\ Goto(t, "close_revoked")
  /\ UNCHANGED <<devices, epochVars, ledgerVars, frame, proofs, notEpoch>>

\* blocked = excluded | revoked
blocked(t) == frame[t].dids \cup by_status("REVOKED")

CloseRevoked(t) ==
  /\ At(t, "close_revoked")
  /\ frame' = [frame EXCEPT ![t].dids = blocked(t)]
  /\ Goto(t, "close_collect")
  /\ UNCHANGED <<devices, epochVars, lock, ledgerVars, proofs, notEpoch>>

\* The members of the new root: the devices carried forward and the batch.
Carried == IF CarryForward THEN by_status("REGISTERED") ELSE {}

Members_Unfiltered(t) == Carried \cup pending
Members(t) == (Carried \cup pending) \ frame[t].dids

\* An exception leaves finalize_epoch: the lock is released.  The timer thread
\* catches an EpochError and ends with any other exception.
Release_KeepLock(t, step) == UNCHANGED lock /\ Call(t, step, NoFrame)
Release(t, step) == lock' = None /\ Call(t, step, NoFrame)

Raise_NoFinally(t) == Release_KeepLock(t, IF t \in Timers THEN "dead" ELSE "idle")
Raise(t) == Release(t, IF t \in Timers THEN "dead" ELSE "idle")

\* Nothing to finalize is an EpochError; the batch stays as it is.
CloseCollect(t) ==
  /\ At(t, "close_collect")
  /\ IF Members(t) = {} THEN Release(t, "idle")
     ELSE /\ frame' = [frame EXCEPT ![t].dids = Members(t)]
          /\ Goto(t, "close_anchor")
          /\ UNCHANGED lock
  /\ UNCHANGED <<devices, epochVars, ledgerVars, proofs, notEpoch>>

\* Ledger.anchor_root: refuse a second root for an epoch, append the block,
\* then save the whole chain to the file, which may fail.
Saved(t) == /\ disk' = blocks'
            /\ frame' = [frame EXCEPT ![t].todo = frame[t].dids]
            /\ Goto(t, "close_update")
            /\ UNCHANGED lock

NotSaved_Ignored(t) == /\ frame' = [frame EXCEPT ![t].todo = frame[t].dids]
                       /\ Goto(t, "close_update")
                       /\ UNCHANGED <<lock, disk>>
NotSaved(t) == "savefail" \in Requests /\ Raise(t) /\ UNCHANGED disk

CloseAnchor(t) ==
  /\ At(t, "close_anchor")
  /\ IF Anchored(blocks, current_epoch_id) THEN Raise(t) /\ UNCHANGED ledgerVars
     ELSE /\ blocks' = Append(blocks, [epoch_id |-> current_epoch_id,
                                       root |-> frame[t].dids])
          /\ Saved(t) \/ NotSaved(t)
  /\ UNCHANGED <<devices, epochVars, proofs, notEpoch>>

\* One device of the batch: its record, if there is one, and its package.  The
\* assignments to one device are a step: a reader of the package waits for the
\* epoch lock.
Register_NextEpoch(d) ==
  devices' = IF Known(d)
             THEN [devices EXCEPT ![d].status = "REGISTERED",
                                  ![d].epoch_id = current_epoch_id + 1]
             ELSE devices
Register(d) ==
  devices' = IF Known(d)
             THEN [devices EXCEPT ![d].status = "REGISTERED",
                                  ![d].epoch_id = current_epoch_id]
             ELSE devices

CloseUpdate(t) ==
  /\ At(t, "close_update")
  /\ \E d \in frame[t].todo :
       /\ Register(d)
       /\ latest_package' = [latest_package EXCEPT ![d] =
            [epoch_id |-> current_epoch_id, root |-> frame[t].dids]]
       /\ frame' = [frame EXCEPT ![t].todo = @ \ {d}]
  /\ UNCHANGED <<pending, current_epoch_id, packages, lock, ledgerVars, proofs,
                 pc, notEpoch>>

CloseFinish(t) ==
  /\ At(t, "close_update") /\ frame[t].todo = {}
  /\ packages' = {p \in packages : p.epoch_id # current_epoch_id}
                   \cup {[epoch_id |-> current_epoch_id, root |-> frame[t].dids]}
  /\ pending' = {}
  /\ current_epoch_id' = current_epoch_id + 1
  /\ Release(t, "idle")
  /\ UNCHANGED <<devices, latest_package, ledgerVars, proofs, notEpoch>>

-----------------------------------------------------------------------------
\* GET /proof/{did}, for the latest epoch or a given one: the status, then the
\* package, which get_package reads under the epoch lock.
GetProof(t, d) ==
  /\ "proof" \in Requests /\ Idle(t)
  /\ Known(d) /\ devices[d].status # "REVOKED"
  /\ Call(t, "proof_package", [NoFrame EXCEPT !.did = d])
  /\ UNCHANGED <<devices, epochVars, lock, ledgerVars, proofs, notEpoch>>

get_package_Anyone(d) == ({latest_package[d]} \ {None}) \cup packages
get_package(d) ==
  ({latest_package[d]} \ {None}) \cup {p \in packages : d \in p.root}

ProofReply(t) ==
  /\ At(t, "proof_package")
  /\ lock = None
  /\ \/ \E pkg \in get_package(frame[t].did) :
          proofs' = proofs \cup {[did |-> frame[t].did, pkg |-> pkg]}
     \/ UNCHANGED proofs      \* no package of that epoch: 404
  /\ Reply(t)
  /\ UNCHANGED <<devices, epochVars, lock, ledgerVars, notEpoch>>

-----------------------------------------------------------------------------
Closing(t) ==
  \/ CloseAcquire(t) \/ CloseRevoked(t) \/ CloseCollect(t) \/ CloseAnchor(t)
  \/ CloseUpdate(t) \/ CloseFinish(t) \/ ProofReply(t)

EpochRequest(t) ==
  \/ \E excluded \in Excludes : EpochClose(t, excluded)
  \/ \E d \in Dids : GetProof(t, d)
=============================================================================
