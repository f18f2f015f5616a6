# A TLA+ model of the fog node

The repository is a single-zone identity framework for industrial devices: one
**fog node** (a FastAPI process) authenticates devices, collects them in batches,
anchors one Merkle root per batch in a hash-chained ledger, and decides who may
use which resource. This directory models the fog node in TLA+, checks it with TLC
on small instances, and proves its core properties with TLAPS for every instance.

1. [Inventory](#1-inventory) · 2. [What is hard](#2-what-is-hard-here) ·
3. [Modules](#3-modules-and-how-they-correspond-to-the-code) ·
4. [Abstractions](#4-abstractions) · 5. [Runs](#5-runs) ·
6. [Fairness](#6-fairness) · 7. [Where code and docs disagree](#7-where-the-code-and-its-documentation-disagree) ·
8. [Proofs](#8-proofs) · 9. [Not modelled](#9-not-modelled-and-why) · 10. [Plan](#10-plan)

## 1. Inventory

| Component (under `src/`) | State it keeps | Operations | Interacts with |
|---|---|---|---|
| Onboarding `fog/registration/` | none of its own | `/register/start`, `/pubkey`, `/pop`, `/metadata`; `issue_challenge`, `verify_pop` | session and device stores, `EpochManager.add_leaf` |
| Stores `fog/storage/device_store.py` | `SessionStore._sessions` (shared mutable `Session` objects, TTL), `DeviceStore._devices` (shared mutable `DeviceRecord`s) | create, get, `did_in_use`; get, upsert, `set_status`, `by_status`. Each call takes the store's lock; what a caller does with the object it got does not | every handler |
| Epoch manager `fog/batch/` | `pending`, `current_epoch_id`, `packages`, `latest_package`, `active_dids`, an `RLock` | `add_leaf`, `finalize_epoch`, `get_package`, the timer of `start_auto_close`; `/epoch/close`, `/proof/{did}` | reads and writes device records without their lock; ledger |
| Root ledger `registry/ledger.py` | `blocks`, the root cache, the ledger file | `anchor_root`, `get_root`, `get_block`, `_save`, `_load`, `verify_chain` | called under the epoch lock; read by `/verify` |
| Merkle tree `fog/merkle/merkle_tree.py` | a tree, immutable once built | build, `get_proof`, `reconstruct_root`, `verify_proof` | `finalize_epoch`, `verify_proof_package` |
| Tokens `fog/tokens/` | `_issued`, `_revoked_token_ids`, the nonce book | `/tokens/issue`, `/tokens/nonce`, `/tokens/access`; `NonceBook.issue`, `consume` | sessions, device records, policy |
| Verification `fog/verification/` | none | `/verify/nonce`, `/verify` | nonce book, ledger, device records, policy |
| Revocation `fog/revocation/` | none | `revoke_device`, `revoke_token`, `/revocation/revoke` | device records, token tables |
| Policy `fog/policy/access_policy.py` | constant tables | `check_policy`, `role_valid_for_type`, `provisional_allowed` | token issue, both access handlers |
| PSK `fog/auth/psk.py` | constant hashes | `check` | `/register/start` |
| Assembly `fog/main.py`, `config.py` | the `FogContext` | `create_app` | creates every store; loads the ledger |
| Proof packages `fog/proofs/proof_package.py` | a package, signed once | `build_proof_package`, `verify_proof_package` | `finalize_epoch`, `/verify`, the verifiers |
| Device programs `devices/` | key, session id, nonce, proof package, token | `register`, `request_token`, `fetch_proof`; `token_access`, `verify_access` | HTTP requests |

What makes each correct:

* **Onboarding**: a record exists only for a key whose possession was proven; a
  session takes its steps in order; two sessions never onboard one DID.
* **Epochs and ledger**: one root per epoch, numbered without gaps; `verify_chain`
  accepts the fog's own file and nothing but a chain it signed; a REGISTERED device has a proof over an anchored root; a proof once handed out verifies for
  ever, across failed saves and restarts; every queued device is eventually
  committed, and nobody waits for the epoch lock for ever.
* **Revocation and tokens**: what is revoked stays revoked; all tokens of a revoked
  device are blacklisted; a tokenized device is queued.
* **Access**: a nonce buys one decision; a revoked device is refused on its next
  request; a sensor can never stop a machine.
* **Merkle tree and packages**: the root determines the set of leaves, exactly the
  proofs it hands out verify, and a package verifies exactly when the fog made it.
* **Device programs**: what `register()` told a device stays true; a device that keeps
  asking ends with a proof and is allowed in; its token carries it until then.

## 2. What is hard here

The handlers are plain `def` functions, so FastAPI runs them on a pool of threads.
Each store call is locked, but a *handler* is a sequence of such calls on shared
objects: almost everything that can go wrong lies between a check and the write
that depends on it (two sessions claiming a DID, a challenge consumed twice, a
revocation overwritten by a token issue or by a closing epoch). `finalize_epoch`
holds the epoch lock throughout, and still reads and writes device records that
others change without it. The ledger is in memory before it is in the file, and a
process may stop in between. All other state is lost on restart while device-held
proofs, tokens and the fog's signing key survive. The `hazards` of `PROJECT.json`
list each of these at its line with the properties aimed at it.

## 3. Modules and how they correspond to the code

```
FogState ──┬── Registration ──┐
           ├── EpochManager ──┼── FogNode ──┬── FogProperties ── MCFog ── MCHistory
           └── TokenIssue ────┘             │      └── INSTANCE DeviceLifecycle, RootRegistry
              AccessPolicy ─────────────────┴── FogAccess ── MCAccess
                                                   │
                       FogProperties, FogAccess ── Devices ── MCDevices
MerkleTree ── ProofPackages ── MCMerkle
LedgerChain ── MCLedger

FogProperties ── FogTypeProofs ──┬── FogLedgerProofs ───┬── FogSingleProofs
                                 └── FogSessionProofs ──┤      │
                                                  FogAccess ───┴── FogAccessProofs
                                                  Devices ── DevicesProofs
MCLedger ── LedgerChainProofs
MCMerkle ── MerkleProofs
```

* **FogState**: the state of the process and of what survives it. `sessions`,
  `devices`, `pending`, `packages`, `latest_package`, `issued`,
  `revoked_token_ids`, `blocks` are the fields of the same name; `lock` is the
  owner of the epoch lock; `disk` is the ledger file; `proofs` what devices have
  fetched. `pc[t]` is the next step of worker thread `t`, `frame[t]` the locals of
  the handler it runs. `Restart` stops the process at any step and starts it again.
* **Registration**: `/register/*`, one action per step. `/register/pubkey`, for
  instance, is `RegisterPubkey` (session and state), `PubkeyKnown`
  (`devices.get`), `PubkeyInUse` (`did_in_use`), `PubkeyWrite` (the assignments).
  `/register/metadata` waits for the epoch lock twice: `MetaQueue` is `add_leaf`, and
  `MetaReply` the batch size that the answer tells (`epochs.batch_size()`).
* **EpochManager**: `finalize_epoch` as `CloseAcquire`, `CloseRevoked`,
  `CloseCollect`, `CloseAnchor` (with the ledger's `anchor_root` and a `_save` that
  may fail), `CloseUpdate` (one device) and `CloseFinish`; every exception releases
  the lock (`Raise`). `AutoClose` is the timer thread, which catches `EpochError`
  and dies (`"dead"`) of anything else. `GetProof`/`ProofReply` are `/proof/{did}`.
* **TokenIssue**: `/tokens/issue` and `/revocation/revoke`, both forms.
* **FogNode**: the composition. Every thread, the timer, expiring sessions and
  restarts.
* **FogProperties**: what the node promises, in groups by the assumption each
  property needs.
* **FogAccess**: the node with the nonce book, `/tokens/access` and `/verify`
  running beside all of the above; **AccessPolicy** holds the tables. A token may expire
  at any moment (`TokenExpires`), and one that has is refused before its nonce is looked at.
* **Devices**: the programs of `device.py` and `runtime_client.py` composed with all of
  the above. `program[d]` holds the next call of a device and what it has been told,
  `worker` the thread that handles its request. A call (`register_start`,
  `submit_public_key`, ..., `verify_access`) hands the request to an idle worker; the
  answer (`Told`, `VisitStep`) moves the program on, and carries a token or a
  package. `GiveUp` is the time limit of the HTTP client: the fog goes on with a
  request whose answer nobody hears. `Rerun` starts a failed program again, with the
  stored key.
* **MerkleTree**: building with odd promotion, proofs, verification. Each loop of the
  code is a recursive function: `Passes` for `_build`, `Walk` for `get_proof`,
  `Candidates` for `reconstruct_root`. `sorted` puts a leaf where the number of leaves
  before it says.
* **ProofPackages**: one action for a device that is queued, one for the closing of an
  epoch with its members (the registered devices, then the batch, without who is
  excluded or revoked), their tree and their signed packages; `verify_proof_package`
  check by check. The batch is a set and the closing takes it, like the registered
  devices, in any order. Concurrency is left to the other modules.
* **LedgerChain**: the hash chain by itself: `anchor_root` with its body, link,
  signature and hash, the save that may fail, `_load`, and `verify_chain`. The other
  modules name a block by epoch and root. `chains` is a history of every chain the
  fog signed, the ones a restart forgot included.
* **RootRegistry** and **DeviceLifecycle** are abstract: what the ledger with the
  device-held proofs promises a verifier, and what onboarding promises of a device.
  `ImplementsRegistry` and `ImplementsLifecycle` say the node implements them. For
  the life cycle a batch commits in the step that anchors its root; until the
  records are updated its devices count as REGISTERED (`Committing`).
* **FogTypeProofs**, **FogLedgerProofs**, **FogSessionProofs**, **FogSingleProofs**,
  **FogAccessProofs**, **DevicesProofs**, **LedgerChainProofs**, **MerkleProofs**: the
  theorems (section 8); `FogSingleProofs` has two inductive invariants, `FogAccessProofs`
  two, the others one each.
* **MCFog**, **MCAccess**, **MCDevices**: values for the constants. **MCLedger**: the
  files `verify_chain` is tried on. **MCMerkle**: the paths and packages a verifier is
  shown. **MCHistory** adds a history variable with every root ever served.

`Requests` names the requests and faults a run includes, so that each run can ask
one question without the rest of the traffic. A request that is refused without a
change of state is not a step.

**Grain of atomicity.** A step ends at each call into a locked store and between a
read of shared state and the write that depends on it. Runs of plain assignments
that no other thread's decision can fall between are one step: the fields
`finalize_epoch` sets for one device (a reader of the package waits for the epoch
lock), `used`-then-verify in `verify_pop` (the outcome "expired" is always possible
there). Fetching a record and assigning to it is one step: a record that was
replaced in between is unreachable, so the write to it is visible to nobody.

## 4. Abstractions

* A DID is the fingerprint of its key, so a member of `Dids` is the pair; in the
  concurrent modules a leaf `H(DID || PK)` is named by its DID and a root by the set of
  DIDs it commits to. `RootIsTheSet` is the justification: the root determines the set and
  does not depend on the order. The `merkle` run checks it for five devices,
  `RootStandsForSet` proves it for any number.
* Hashes have no collisions; a signature is what it was made for (in
  `/register/pop`: the key's DID and the challenge).
* A challenge is its number; time is an event that may come at any moment
  (`SessionExpires`, `NonceExpires`, `TokenExpires`, the `expired` choice of `PopVerify`).
* The role enters only as `roleOk`, that it fits the type; `FogAccess` chooses a
  role that agrees with it. Names, vendors, timings, log lines are left out, and
  so is `active_dids`, which only reports read.
* Package: epoch and root. The path follows from the root; `ProofPackages` has the
  package with all its fields, and its hashes are the tuples of what is hashed, with
  the prefix that separates leaves from nodes.
* A session id, a nonce or a token id is drawn at random, and any idle thread may take
  a request: `Devices` takes one fresh value and one idle worker (`Drawn`), since
  which one it is tells nothing. Who made a request and what it holds is in `program`.
* `/tokens/access` and `/verify` look at most of the request after the nonce, so
  resource, operation, package and signature are chosen at that check.

Two constants stand for how clients behave. `SerialSessions = TRUE` means that a
client sends one request per session at a time, as `devices/device.py` does.
`Threads = {t1}` means one request at a time at the fog, as in the tests.

## 5. Runs

Bounds: `MaxEpoch` (epochs closed), `MaxChal` (challenges per session) and
`MaxCrashes` (restarts) only guard the arrival of new requests, never a step of one
under way. Two devices and two sessions are what the races need (the other device,
the other session); two threads make every pairwise interleaving. In `requests` one device
is enough: what matters is who holds the lock, and how the closing ends.

| Run | Instance | What it shows |
|---|---|---|
| `serial` | one thread, 2 sessions, 2 devices, 2 tokens, 2 epochs, expiry, every request | type invariant; one onboarding per DID although sessions expire; revocation is final and blacklists every token; tokenized ⇒ queued; a device keeps the role it was accepted with; the node implements `DeviceLifecycle` |
| `faults` | two workers and the timer, one request per session at a time, 2 sessions, 2 devices, 2 challenges, failing saves (which end the timer thread), 2 restarts, `exclude_dids`, `CARRY_FORWARD_ACTIVE` off | chain in order, fetched proofs valid for ever, the node implements `RootRegistry`; a record only for the key that signed the challenge; sessions move only in order |
| `window` | the device programs, two workers, the timer and an access thread, fair; two devices that nothing happens to, or one with one mishap (a given-up request, the expiry of its session or token, or a revocation), with and without a token | a queued device stays queued until its epoch, no record is ever replaced although programs are started again; every queued device is committed or revoked; a device that keeps asking is served, and its token serves it until then, unless it expires |
| `requests` | two workers and the timer, fair; one device, one token, 2 epochs, `exclude_dids`, revocation, failing saves, closing by hand beside the timer | every request ends: `finalize_epoch` releases the lock however it ends (an empty batch or one of revoked devices only, an epoch already anchored after a failed save, a failed save that kills the timer, success), and neither wait of `/register/metadata` is for ever; a REGISTERED device has an anchored proof whatever else writes its status meanwhile |
| `access` | a handler thread and two access threads, 2 nonces, a token, a restart | a nonce buys one decision; revoked devices and tokens are denied on the next request; tokens of an earlier process are dead; a sensor never stops anything |
| `ledger` | 2 roots, 2 epochs in any order, failed saves, restarts | the fog's own file verifies; of all files made of signed blocks in any order, or with one block rewritten and hashed anew or not, only a chain it signed does |
| `merkle` | 5 devices in every order of arrival, 2 epochs, one device excluded or revoked at each closing | root ⇔ set of members; a path verifies ⇔ it is the proof handed out; a package verifies ⇔ the fog made it, also after a second epoch and with parts exchanged between packages. Five leaves have an odd node at both lower levels |

The five runs of section 7 expect a violation. The mutants of `PROJECT.json` replace one
definition by a plausible mistake (the `_Something` variants that stand beside
their originals); each makes the property it is listed with fail.

Deadlock is checked everywhere except in `window`, `requests` and `merkle`: when nothing is
under way `Quiet` lets the system stutter, so a deadlock is a thread that is stuck inside a
request. In `window` every program may be done and the epochs used up. In `requests` a
request that is stuck is what `RequestsEnd` is about: it must show as a violation of the
property, be the other threads stuck too or not. `merkle` stops when its two epochs are
closed and every device is queued.

The `window` run has three nonces, and at most one request is given up: a device draws
one nonce for its token and one for its proof, and the third for the request after the
one it gave up. One mishap is enough for the interplay of a lost answer and a rerun
with the rest; two of them at once, a restart, an expiring nonce, and an
administrator who closes the epoch by hand are in the other runs, without the programs.

The `access` run has one session: after its restart no device onboards again. What
it asks of the restart is that a token that survived it is useless.

## 6. Fairness

Two runs state fairness: `requests` (`FairSpec` of `FogProperties`) and `window`
(`DevicesSpec`). Both assume weak fairness of each thread's steps (the operating system
runs it) and strong fairness of the four steps that wait for the epoch lock (`AtLock`:
`add_leaf`, `batch_size` in the answer to `/register/metadata`, `finalize_epoch`,
`get_package`); `DevicesSpec` assumes that the timer wakes up, too. An `RLock` promises no order among waiters, but the only thread that
comes back for the lock by itself is the timer, which sleeps for seconds without it; a
waiter is therefore not overtaken for ever. `FairSpec` assumes of no client that it makes a
request.

A device makes its next call if a worker is idle again and again (strong fairness of
`DeviceStep` and `AccessCall`): requests queue for the thread pool in order. That a
device keeps asking for its package is its user's part: `fetch_proof` tries once, and
`demo_phase2.py` waits for the closing before it fetches. `Rerun`, `GiveUp`, expiry (of
sessions and of tokens) and revocation are never assumed to happen.

## 7. Where the code and its documentation disagree

Each of these has a run that produces the shortest execution, and a finding that
quotes the documentation.

* `close_undoes_revocation`: `finalize_epoch` reads the revoked devices first and
  sets its members REGISTERED last; a revocation in between is overwritten and the
  device is carried into the next root. `/tokens/issue` has the same gap between its
  checks and `set_status(TOKENIZED)`; the same run with token issue in place of
  closing finds it. The token of such an issue may also be recorded after the revocation
  listed the tokens to blacklist, so that `RevokedTokensBlacklisted` is checked for one
  request at a time.
* `challenge_reused`: `verify_pop` tests and sets `challenge_used` without a lock, so two
  concurrent requests of one session verify against one challenge. With such
  clients `PossessionProven` and `SessionOrder` fail too; they are checked, and
  hold, for clients that send one request per session at a time.
* `did_onboarded_twice`: two sessions pass `did_in_use` before either stores the DID.
* `excluded_gets_token`: a device dropped by `exclude_dids` leaves the queue but
  keeps its METADATA_ACCEPTED session, and so gets a token although it is queued
  nowhere. This needs no concurrency.
* `epoch_rooted_twice`: after a failed save the ledger serves a root that a restart
  forgets, and the epoch gets another. No proof is handed out over the first one:
  that is `IssuedProofsStayValid`, which holds and is proved.

One more disagreement shows as an exemption in a property that holds.
`demo_phase2.py` presents the token as a bridge to the proof, after which the device
uses the proof. A token issue that overtakes the closing of the device's epoch writes
TOKENIZED over REGISTERED; `/verify` then denies the device as not registered, with a
valid proof, and it is not carried forward into later epochs. `DevicesAreServed`
therefore exempts devices that were issued a token; without that exemption TLC finds
this execution. `TokenBridges` says what such a device can still rely on.

## 8. Proofs

All theorems hold for every set of threads, timers, sessions, DIDs and tokens, every
combination of requests and faults, and every bound, under the named assumptions of
`FogState` (`None` is no thread, session, DID, token, record or package; timers are
threads; excluded sets are sets of DIDs; bounds are naturals; flags are Booleans) and
of `FogAccess` (devices register with an allowed type; a DID is no token; the names of
access threads are not those of the others). A theorem that needs more of the clients
or of the run says so as its hypothesis:

| Hypothesis | Meaning | Why it is needed |
|---|---|---|
| `OneRequestPerSession` | serial clients, or one thread | without it two requests of a session use one challenge (`challenge_reused`) |
| `OneAtATime` | one worker thread: the tests and the demonstrations send one request after another. The server itself does not see to it, and `benchmarks/bench_registration.py:93` drives it with a pool of concurrent clients (8 by default), so the theorems with this hypothesis do not speak of that benchmark, nor of any use with concurrent clients | without it a closing or a token issue overwrites a revocation, a token escapes the blacklist, and a DID is onboarded twice (`close_undoes_revocation`, `did_onboarded_twice`) |
| `NoExclusions` | no `exclude_dids` | an excluded device gets a token queued nowhere (`excluded_gets_token`) |
| `NoFaults` | no failing save, no restart | `DeviceLifecycle` describes one process with a writable file |

Each hypothesis is met by the run that checks the property and each is violated by the
run named beside it, so none is stronger than the code asks for.

* `TypeCorrect` (`FogTypeProofs`): `Spec => []TypeOK`. `TypeOK` alone is not
  inductive: a suspended handler dereferences its locals, so the invariant `TypeInv`
  also says which locals are set at which step (`FrameOK`) and that a session past
  its first step has a DID (`SessionDid`).
* `ChainStaysInOrder`, `RegisteredDevicesHaveProof`, `ProofsStayValid`,
  `RegistryImplemented` (`FogLedgerProofs`), all from `LedgerInv`, the conjunction of
  * `LockOK`: the thread inside `finalize_epoch`, and only it, owns the lock;
  * `BatchOK`: between anchoring and the end, memory and file agree and their last
    block is the root of the batch being committed;
  * `OpenOK`: otherwise the open epoch has no block, except one in memory only
    after a failed save, which then makes every later `anchor_root` refuse;
  * `DiskOK`, `PackagesOK`, `RecordsOK`: file, packages and REGISTERED records
    only speak of anchored roots.

  The key point is that `BatchOK` never mentions device records: other handlers may
  overwrite any status during the closing, and nobody but the closing thread sets
  REGISTERED. Steps outside `finalize_epoch` preserve the invariant by one lemma
  (`Aside`). The refinement proof maps `CloseAnchor` to `Anchor`, `ProofReply` to
  `Obtain` and everything else to a stutter.
* `FileAlwaysVerifies`, `ChainIsTamperEvident`, `NoTampering` (`LedgerChainProofs`), for
  files of any length. `ChainInv` says of all chains ever signed that they verify,
  that their beginnings are chains too, and that two of them with the same last
  block are the same; the last part is what makes the hash link of a block determine
  everything before it (`OnePast`). A verified file is then compared with the signed
  chains block by block. That induction is over a set of positions (`Climbing`),
  proved from the finiteness of an interval, since the library's induction theorems
  cannot be instantiated.

* `PossessionIsProven`, `SessionsMoveInOrder` (`FogSessionProofs`, for
  `OneRequestPerSession` and any number of threads). `SessionInv` carries what a
  handler knew across its suspensions: no two requests under way name one session
  (`Exclusive`), the state `_require_state` saw is still the session's at every later
  step of its request, and past `verify_pop` the signing DID is the session's
  (`StatesOK`). `OwnSession` and `ElsewhereSession` reduce every action to the one
  session it touches.
* `NobodyOnboardsTwice`, `RevocationIsFinal`, `RevocationIsComplete`, `RolesAreKept`
  (`FogSingleProofs`, for `OneAtATime`, with expiry, failed saves and restarts at any
  step). `SingleInv` says what a suspended handler still knows of what it read
  (`WorkOK`), that a DID is in one onboarding session (`OnboardOK`) which has no record
  before its proof of possession and is not in the batch before its metadata was
  accepted (`UnknownOK`, `NotYetOK`, `KnownOK`), and that the tokens of a revoked device
  are blacklisted up to those the revocation under way has still to do (`TokensOK`). It
  stands on `TypeInv`, `LedgerInv` and `SessionInv`: that the role is kept rests on
  which session may still reach `/register/metadata`, that revocation is final on the
  members of a root being free of revoked devices until every record is updated.
* `TokenizedDevicesAreQueued` and `LifecycleImplemented` (`FogSingleProofs`, for
  `OneAtATime` and `NoExclusions`, the refinement with `NoFaults` too). `QueueInv` adds
  that what a METADATA_ACCEPTED session onboarded is in the batch, registered or revoked
  (`AcceptedOK`), and what the members are at each step of the closing (`BatchAt`). The refinement maps the last step of `/register/pop`,
  `add_leaf`, the status written by a token issue, the status written by a revocation and `CloseAnchor` to the
  abstract actions and everything else to a stutter; that `CloseUpdate` shows nothing
  is what `Committing` is for.
* `NoncesBuyOneDecision`, `TokensEndWithProcess` (`FogAccessProofs`, any number of worker
  and access threads), from `NonceInv`: a nonce past the check is spent (used or
  dropped, and never fresh again), it is held by one request, and no ALLOW names it
  yet; a nonce that is good for a token is good for one of this process (`RunsOK`).
* `RevokedAreDenied`, `OnlyDrivesMayStop` (`FogAccessProofs`, for `OneAtATime` among the
  worker threads and any number of access threads). `BarredOK`: a request that came
  after the revocation still finds it in the tables, by `RevokedKept` of `FogSingleProofs`.
  `GrantOK`: past the role check the role fits the type, by `RecordKept`; the tables of
  `AccessPolicy` do the rest (`StopRoles`, `StopTypes`).
  An access step never changes what the rest of the node sees (`ProcessStep`), so every
  theorem about `Spec` holds of `AccessSpec` (`AccessOfSpec`).

* `WhatWasToldIsTrue` and `RecordIsNeverReplaced` (`DevicesProofs`, for any number of
  devices, workers and closings, and any amount of trouble: given-up requests,
  expiries, revocations, programs started again with the same key). None of the hypotheses
  above is assumed: that requests of a session do not overlap is what the order of the
  calls in `device.py` brings about (`OneCall`), since a program that gives up never
  uses its session again. `DevicesInv` is the conjunction of `TypeInv`, `LedgerInv`,
  `SessionInv` and
  * `CallsOK`: the thread a program waits for works on what it asked for, in its session
    and with its key, and every session belongs to one program (`ServesOK`, `SidsOK`,
    `KeysOK`);
  * `ClaimsOK`: one proof of possession per key that has not failed, and none for a key
    with a record. A device that runs again while the fog still works on what it gave up
    is the hard case: either its former session had proven the key before `did_in_use`
    looks, which then sees it, or the former proof has not begun and never will
    (`Claimed`, `Unclaimed`);
  * `FogQueue`: what `finalize_epoch` drops from the batch is settled (revoked, committed
    or holding a token), and what it takes gets a package (`ClosingAt`); a token id is
    used by one request (`FreshAt`);
  * `HeardOK`: a device that heard that its leaf is queued, or is about to, is queued or
    settled.

  `NextKinds` divides the steps of the composition into steps of the fog, which all have one shape (`StepShape`),
  calls that reach a thread (`Sends`), new sessions, and what happens beside them (`Background`).
  The proof uses no fairness.

* `ExactlyTheProofs`, `RootStandsForSet`, `ProofsAreUnique`, `VerdictsAreExact`,
  `AlterationsFail` (`MerkleProofs`), for trees of any number of leaves and epochs of any
  number of devices (`DevicesAssumption`: finitely many, in the byte order of their
  leaves). What is computed level by level or step by step is proved in three moves:
  * the recursive functions have the values their equations say (`PassesEquation`,
    `WalkEquation`, `CandidatesEquation`), and what holds at one level and passes to the
    next holds at all of them (`Climbing`, as in `LedgerChainProofs`: no induction theorem
    is needed for a fact about a set of numbers up to the height of a tree);
  * `_build` ends with one node (`PassesShorten`, `BuildsTree`); a level up, the step that
    `get_proof` takes leads to the parent (`StepUp`), and a level down, whatever climbs to
    a node came through one of its children with the step that `get_proof` takes there,
    or through the promoted node with none (`StepDown`). Together: a path leads from a
    leaf to the root exactly if it is that leaf's proof;
  * so two sets with one root have the same members (`RootNamesSet`). `PackagesInv`
    says that the root and the packages of every epoch ever closed are those of one
    set of members. The signature of a package determines its device, leaf, root and
    epoch, the leaf its key, and the root with the leaf its path (`Judged`).

  `AlterationsFail` is about the alterations the run tries; `VerdictsAreExact` about every
  package with any content under a signature that the fog has made.

Only model-checked: liveness (`RequestsEnd`, `QueuedIsDecided`, `DevicesAreServed`,
`TokenBridges`), which is out of the prover's reach. `ChallengeSingleUse` is refuted
(section 7). Every other property of a passing run is stated by a theorem.

## 9. Not modelled, and why

* The order and the wording of the refusals of `verify_proof_package`: nothing it
  reads changes meanwhile, so `ProofPackages` has its checks as a conjunction.
* PSK check, metadata validation, key and DID parsing, canonical encoding: pure
  functions whose refusals change nothing.
* `/revocation/status`, `/epoch/current`, `/registry/*`, `/health`: they only read.
* Certificates, logging, attack scripts, benchmarks: no state of the fog node.
* The demonstrations: what they ask of a device and of the administrator is in
  `Devices` (the order of the calls, the revocation); their checks and reports are not.

## 10. Plan

1. Model: the device programs across a restart of the fog (a device that lost its
   session starts again, one that has a proof does not); the ledger of `FogState` as a
   refinement of `LedgerChain`, with a history of the chains a restart forgot.
2. Prove: what those two add. The proofs of today stand on the invariants of
   `FogLedgerProofs`, which already hold across a restart.
