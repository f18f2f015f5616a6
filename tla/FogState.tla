------------------------------ MODULE FogState ------------------------------
(***************************************************************************)
(* The state every request handler of the fog node works on: the session   *)
(* and device stores, the epoch manager, the root ledger with its file,    *)
(* the token tables, and one frame per worker thread.                      *)
(*                                                                         *)
(* The handlers are plain `def` functions, which FastAPI runs on a pool of *)
(* worker threads, so a request may be suspended while others run.  A step *)
(* of the model ends where a handler calls a locked store, and between a   *)
(* read of shared state and the write that depends on it.  pc[t] names the *)
(* step thread t takes next and frame[t] holds the handler's locals.       *)
(*                                                                         *)
(* A DID is the fingerprint of its public key (common/crypto_utils.py      *)
(* derive_did), so a member of Dids stands for the pair; a leaf, being     *)
(* H(DID || PK), is named by its DID, and a Merkle root by the set of DIDs *)
(* whose leaves it commits to.                                             *)
(***************************************************************************)
EXTENDS Naturals, Sequences, FiniteSets

CONSTANTS
  Threads,         \* worker threads of the fog process
  Timers,          \* those of Threads that run the automatic window
  Sids, Dids, Tokens,
  None,            \* Python's None
  Requests,        \* the requests and environment events of a run
  Excludes,        \* the exclude_dids an administrator may send
  CarryForward,    \* config.CARRY_FORWARD_ACTIVE
  SerialSessions,  \* TRUE: a client sends one request per session at a time
  MaxEpoch,        \* bound: epochs finalized
  MaxChal,         \* bound: challenges a session asks for
  MaxCrashes       \* bound: restarts of the fog process

ASSUME NoneAssumption == None \notin Threads \cup Sids \cup Dids \cup Tokens
ASSUME ThreadAssumption == Timers \subseteq Threads
ASSUME ExcludeAssumption == Excludes \subseteq SUBSET Dids
ASSUME BoundAssumption == /\ MaxEpoch \in Nat
                          /\ MaxChal \in Nat
                          /\ MaxCrashes \in Nat
ASSUME FlagAssumption == CarryForward \in BOOLEAN /\ SerialSessions \in BOOLEAN

VARIABLES
  sessions,           \* SessionStore._sessions, and the objects themselves
  devices,            \* DeviceStore._devices
  pending,            \* EpochManager.pending
  current_epoch_id,   \* EpochManager.current_epoch_id
  packages,           \* EpochManager.packages, by epoch
  latest_package,     \* EpochManager.latest_package
  lock,               \* owner of EpochManager._lock
  blocks,             \* Ledger.blocks
  disk,               \* the ledger file
  issued,             \* TokenState._issued
  revoked_token_ids,  \* TokenState._revoked_token_ids
  proofs,             \* proof packages the devices have fetched and keep
  pc, frame,          \* per thread: next step, locals of the handler
  crashes             \* restarts so far

fogVars == <<sessions, devices, pending, current_epoch_id, packages,
             latest_package, lock, issued, revoked_token_ids, pc, frame>>
ledgerVars == <<blocks, disk>>
epochVars == <<pending, current_epoch_id, packages, latest_package>>
tokenVars == <<issued, revoked_token_ids>>
vars == <<fogVars, ledgerVars, proofs, crashes>>

-----------------------------------------------------------------------------
SessionStates == {"AUTHENTICATED", "KEY_SUBMITTED", "POP_VERIFIED",
                  "METADATA_ACCEPTED"}

\* life: not yet created, stored, stored past its TTL, removed from the store.
Session == [life  : {"unused", "live", "expired", "gone"},
            state : SessionStates,
            did   : Dids \cup {None},
            chal  : Nat,             \* 0 before the first challenge
            used  : BOOLEAN]

NewSession == [life |-> "live", state |-> "AUTHENTICATED", did |-> None,
               chal |-> 0, used |-> TRUE]

DeviceStatus == {"PENDING", "TOKENIZED", "REGISTERED", "REVOKED"}

\* roleOk: the record has a role and it fits the device type.
DeviceRecord == [status : DeviceStatus, roleOk : BOOLEAN, epoch_id : Nat]

NewRecord == [status |-> "PENDING", roleOk |-> FALSE, epoch_id |-> 0]

\* The package of a DID in root: epoch and root (the path follows from both).
ProofPackage == [epoch_id : Nat, root : SUBSET Dids]
Block == [epoch_id : Nat, root : SUBSET Dids]

ASSUME NoRecordAssumption == None \notin DeviceRecord
ASSUME NoPackageAssumption == None \notin ProofPackage

HeldProof == [did : Dids, pkg : ProofPackage]

Frame == [sid  : Sids \cup {None}, did : Dids \cup {None}, chal : Nat,
          roleOk : BOOLEAN, tok : Tokens \cup {None}, toks : SUBSET Tokens,
          dids : SUBSET Dids,  todo : SUBSET Dids]

NoFrame == [sid |-> None, did |-> None, chal |-> 0, roleOk |-> FALSE,
            tok |-> None, toks |-> {}, dids |-> {}, todo |-> {}]

Steps == {"idle", "dead",
          "pubkey_known", "pubkey_in_use", "pubkey_write",
          "pop_used", "pop_verify", "pop_fail", "pop_pass", "pop_upsert",
          "meta_record", "meta_queue", "meta_accept", "meta_reply",
          "close_acquire", "close_revoked", "close_collect", "close_anchor",
          "close_update", "proof_package",
          "issue_known", "issue_eligible", "issue_record", "issue_status",
          "revoke_list", "revoke_tokens"}

\* The type of the state.
TypeOK ==
  /\ sessions \in [Sids -> Session]
  /\ devices \in [Dids -> DeviceRecord \cup {None}]
  /\ pending \in SUBSET Dids
  /\ current_epoch_id \in Nat \ {0}
  /\ packages \in SUBSET ProofPackage
  /\ latest_package \in [Dids -> ProofPackage \cup {None}]
  /\ lock \in Threads \cup {None}
  /\ blocks \in Seq(Block)
  /\ disk \in Seq(Block)
  /\ issued \in [Tokens -> Dids \cup {None}]
  /\ revoked_token_ids \in SUBSET Tokens
  /\ proofs \in SUBSET HeldProof
  /\ pc \in [Threads -> Steps]
  /\ frame \in [Threads -> Frame]
  /\ crashes \in Nat

-----------------------------------------------------------------------------
\* Steps of a thread: receive a request, move on, reply.
Idle(t) == t \notin Timers /\ pc[t] = "idle"

Goto(t, step) == pc' = [pc EXCEPT ![t] = step]

Call(t, step, f) == Goto(t, step) /\ frame' = [frame EXCEPT ![t] = f]

Reply(t) == Call(t, "idle", NoFrame)

At(t, step) == pc[t] = step

-----------------------------------------------------------------------------
\* DeviceStore

Known(d) == devices[d] # None

by_status(status) == {d \in Dids : Known(d) /\ devices[d].status = status}

set_status(d, status) ==
  devices' = IF Known(d) THEN [devices EXCEPT ![d].status = status] ELSE devices

\* SessionStore

Stored(s) == sessions[s].life \in {"live", "expired"}

did_in_use_Proven(d, s) ==
  \E other \in Sids \ {s} : /\ Stored(other)
                            /\ sessions[other].did = d
                            /\ sessions[other].state = "POP_VERIFIED"
did_in_use(d, s) ==
  \E other \in Sids \ {s} : /\ Stored(other)
                            /\ sessions[other].did = d
                            /\ sessions[other].state # "AUTHENTICATED"

\* A request naming session s can be handled: get() finds it, and the client
\* has no other request of this session under way if clients are serial.
Open(s) == /\ sessions[s].life = "live"
           /\ SerialSessions => \A u \in Threads : frame[u].sid # s

-----------------------------------------------------------------------------
\* The blocks of a ledger loaded from disk, and the first epoch after them.
latest_epoch(chain) == IF chain = <<>> THEN 0 ELSE chain[Len(chain)].epoch_id

Anchored_Never(chain, e) == FALSE
Anchored(chain, e) == \E i \in DOMAIN chain : chain[i].epoch_id = e

\* The package's root is the one the chain holds for its epoch.
IsRoot_Latest(chain, pkg) == chain # <<>> /\ chain[Len(chain)] = pkg
IsRoot(chain, pkg) == \E i \in DOMAIN chain : chain[i] = pkg

\* The stores of a fog process that has just started.
NoRecords == [d \in Dids |-> None]
NoTokens == [k \in Tokens |-> None]
AllIdle == [t \in Threads |-> "idle"]
NoFrames == [t \in Threads |-> NoFrame]

Init ==
  /\ sessions = [s \in Sids |-> [NewSession EXCEPT !.life = "unused"]]
  /\ devices = NoRecords /\ latest_package = NoRecords
  /\ pending = {} /\ packages = {} /\ lock = None
  /\ issued = NoTokens /\ revoked_token_ids = {}
  /\ pc = AllIdle /\ frame = NoFrames
  /\ blocks = <<>> /\ disk = <<>> /\ current_epoch_id = 1
  /\ proofs = {} /\ crashes = 0

\* The process stops at any point and is started again: everything in memory
\* is lost, the ledger is loaded from its file, session ids are never reused.
\* What the devices hold stays with them.
Restart ==
  /\ "crash" \in Requests
  /\ crashes < MaxCrashes
  /\ crashes' = crashes + 1
  /\ sessions' = [s \in Sids |-> IF sessions[s].life = "unused" THEN sessions[s]
                                 ELSE [NewSession EXCEPT !.life = "gone"]]
  /\ devices' = NoRecords /\ latest_package' = NoRecords
  /\ pending' = {} /\ packages' = {} /\ lock' = None
  /\ issued' = NoTokens /\ revoked_token_ids' = {}
  /\ pc' = AllIdle /\ frame' = NoFrames
  /\ blocks' = disk /\ current_epoch_id' = latest_epoch(disk) + 1
  /\ UNCHANGED <<disk, proofs>>
=============================================================================
