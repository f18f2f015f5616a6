-------------------------- MODULE FogLedgerProofs ---------------------------
(***************************************************************************)
(* The root ledger, the proof packages and the registered devices agree,   *)
(* for any number of threads and devices, through failed saves and         *)
(* restarts; and the ledger file with the proofs the devices hold          *)
(* implements RootRegistry.                                                *)
(***************************************************************************)
EXTENDS FogTypeProofs

\* Steps of finalize_epoch between taking the epoch lock and releasing it.
Locked == {"close_revoked", "close_collect", "close_anchor", "close_update"}

\* The members of the open epoch's root, which is not empty.
LockOK == \A t \in Threads :
  /\ pc[t] \in Locked => lock = t
  /\ pc[t] = "close_anchor" => frame[t].dids # {}

\* Between anchoring and finishing an epoch, memory and file hold its block.
BatchOK == \A t \in Threads : pc[t] = "close_update" =>
  /\ blocks = disk /\ disk # <<>> /\ current_epoch_id = Len(disk)
  /\ disk[Len(disk)].root = frame[t].dids
  /\ frame[t].todo \subseteq frame[t].dids

\* Otherwise the epoch is open; a failed save leaves its block in memory.
OpenOK == (\A t \in Threads : pc[t] # "close_update") =>
  /\ current_epoch_id = Len(disk) + 1
  /\ \/ blocks = disk
     \/ \E root \in SUBSET Dids :
          blocks = Append(disk, [epoch_id |-> current_epoch_id, root |-> root])

DiskOK == \A i \in DOMAIN disk : disk[i].epoch_id = i /\ disk[i].root # {}

\* Every package is one of an epoch the file holds.
PackagesOK ==
  /\ \A p \in packages : IsRoot(disk, p)
  /\ \A d \in Dids : latest_package[d] # None =>
       IsRoot(disk, latest_package[d]) /\ d \in latest_package[d].root
  /\ \A p \in proofs : IsRoot(disk, p.pkg) /\ p.did \in p.pkg.root

Registered(d) == Known(d) /\ devices[d].status = "REGISTERED"

RecordsOK == \A d \in Dids : Registered(d) =>
  /\ latest_package[d] # None
  /\ latest_package[d].epoch_id = devices[d].epoch_id

LedgerInv == LockOK /\ BatchOK /\ OpenOK /\ DiskOK /\ PackagesOK /\ RecordsOK

-----------------------------------------------------------------------------
(* Steps that have nothing to do with the ledger.                          *)

\* A step registers nobody, but may change records otherwise.
NobodyRegistered == \A d \in Dids : Registered(d)' =>
  Registered(d) /\ devices'[d].epoch_id = devices[d].epoch_id

\* Only threads that do not close an epoch move, and none starts to.
ClosersStay == \A u \in Threads :
  /\ pc[u] \in Locked \/ pc'[u] \in Locked => pc'[u] = pc[u] /\ frame'[u] = frame[u]

\* A step that registers nobody and leaves the closing alone.
LEMMA Aside ==
  ASSUME LedgerInv, NobodyRegistered, ClosersStay,
         UNCHANGED <<ledgerVars, current_epoch_id, packages, latest_package, lock, proofs>>
  PROVE  LedgerInv'
<1>1. UNCHANGED <<blocks, disk, current_epoch_id, packages, latest_package, lock, proofs>>
  BY DEF ledgerVars
<1>2. LockOK' /\ BatchOK'
  BY <1>1 DEF LedgerInv, LockOK, BatchOK, ClosersStay, Locked
<1>3. OpenOK'
  BY <1>1 DEF LedgerInv, OpenOK, ClosersStay, Locked
<1>4. DiskOK' /\ PackagesOK'
  BY <1>1 DEF LedgerInv, DiskOK, PackagesOK, IsRoot
<1>5. RecordsOK'
  BY <1>1 DEF LedgerInv, RecordsOK, NobodyRegistered
<1> QED BY <1>2, <1>3, <1>4, <1>5 DEF LedgerInv

\* A thread that does not close an epoch moves on, but not into the closing.
LEMMA ReplyAway ==
  ASSUME TypeOK, NEW t \in Threads, NEW step, pc[t] \notin Locked, step \notin Locked,
         \/ Goto(t, step) /\ UNCHANGED frame
         \/ \E f : Call(t, step, f)
  PROVE  ClosersStay
BY DEF TypeOK, Goto, Call, ClosersStay

\* Issuing a token and revoking a device register nobody.
LEMMA StatusRegistersNobody ==
  ASSUME TypeOK, NEW d \in Dids, NEW status \in {"TOKENIZED", "REVOKED"},
         set_status(d, status)
  PROVE  NobodyRegistered
BY DEF TypeOK, set_status, NobodyRegistered, Registered, Known, DeviceRecord

\* Nor does a step that leaves the records alone.
LEMMA SameDevices ==
  ASSUME UNCHANGED devices PROVE NobodyRegistered
BY DEF NobodyRegistered, Registered, Known

\* Onboarding preserves the invariant.
LEMMA RegistrationStepLedger ==
  ASSUME TypeInv, LedgerInv, NEW t \in Threads, Registering(t)
  PROVE  LedgerInv'
<1>1. TypeOK
  BY DEF TypeInv
<1>2. ClosersStay
  BY <1>1, ReplyAway DEF Registering, PubkeyKnown, PubkeyInUse, PubkeyWrite, PopUsed,
     PopVerify, PopFail, PopPass, PopUpsert, MetaRecord, MetaQueue, MetaAccept, MetaReply, Reply,
     At, Locked
<1>3. NobodyRegistered
  <2>1. CASE PopUpsert(t)
    BY <1>1, <2>1 DEF PopUpsert, NewRecord, NobodyRegistered, Registered, Known, TypeOK
  <2>2. CASE MetaRecord(t)
    BY <1>1, <2>2 DEF MetaRecord, NobodyRegistered, Registered, Known, TypeOK, DeviceRecord
  <2> QED BY <2>1, <2>2, SameDevices DEF Registering, PubkeyKnown, PubkeyInUse, PubkeyWrite,
          PopUsed, PopVerify, PopFail, PopPass, MetaQueue, MetaAccept, MetaReply
<1>4. UNCHANGED <<ledgerVars, current_epoch_id, packages, latest_package, lock, proofs>>
  BY DEF Registering, PubkeyKnown, PubkeyInUse, PubkeyWrite, PopUsed, PopVerify, PopFail,
     PopPass, PopUpsert, MetaRecord, MetaQueue, MetaAccept, MetaReply, notRegistration, epochVars
<1> QED BY <1>2, <1>3, <1>4, Aside

\* Token issue and revocation preserve the invariant.
LEMMA IssueStepLedger ==
  ASSUME TypeInv, LedgerInv, NEW t \in Threads, Issuing(t)
  PROVE  LedgerInv'
<1>1. TypeOK
  BY DEF TypeInv
<1>2. ClosersStay
  <2>1. CASE RevokeList(t) \/ RevokeTokens(t)
    BY <1>1, <2>1 DEF RevokeList, RevokeTokens, Reply, Call, Goto, At, Locked, ClosersStay, TypeOK
  <2> QED BY <1>1, <2>1, ReplyAway DEF Issuing, IssueKnown, IssueEligible, IssueRecord,
          IssueStatus, Reply, At, Locked
<1>3. NobodyRegistered
  <2>1. CASE IssueStatus(t)
    BY <1>1, <2>1, StatusRegistersNobody DEF IssueStatus, TypeInv, FrameOK, LocalsOK, At, IssueSteps
  <2> QED BY <2>1, SameDevices DEF Issuing, IssueKnown, IssueEligible, IssueRecord,
          RevokeList, RevokeTokens
<1>4. UNCHANGED <<ledgerVars, current_epoch_id, packages, latest_package, lock, proofs>>
  BY DEF Issuing, IssueKnown, IssueEligible, IssueRecord, IssueStatus, RevokeList,
     RevokeTokens, notToken, epochVars
<1> QED BY <1>2, <1>3, <1>4, Aside

\* The arrival of a request preserves the invariant.
LEMMA RequestLedger ==
  ASSUME TypeInv, LedgerInv, NEW t \in Threads, Request(t) \/ AutoClose(t)
  PROVE  LedgerInv'
<1>1. TypeOK
  BY DEF TypeInv
<1>2. ClosersStay
  <2>1. CASE UNCHANGED <<pc, frame>>
    BY <2>1 DEF ClosersStay
  <2> USE <1>1 DEF Call, Goto, ClosersStay, Locked, Idle, At, TypeOK
  <2>2. CASE RegistrationRequest(t)
    <3>1. PICK s \in Sids :
            \/ RegisterStart(t, s) \/ SessionGone(t, s)
            \/ \E d \in Dids : RegisterPubkey(t, s, d)
            \/ RegisterPop(t, s)
            \/ \E roleOk \in BOOLEAN : RegisterMetadata(t, s, roleOk)
      BY <2>2 DEF RegistrationRequest
    <3>2. CASE RegisterStart(t, s) \/ SessionGone(t, s)
      BY <2>1, <3>2 DEF RegisterStart, SessionGone
    <3>3. CASE \E d \in Dids : RegisterPubkey(t, s, d)
      BY <3>3 DEF RegisterPubkey
    <3>4. CASE RegisterPop(t, s)
      BY <3>4 DEF RegisterPop
    <3>5. CASE \E roleOk \in BOOLEAN : RegisterMetadata(t, s, roleOk)
      BY <3>5 DEF RegisterMetadata
    <3> QED BY <3>1, <3>2, <3>3, <3>4, <3>5
  <2>3. CASE EpochRequest(t) \/ AutoClose(t)
    BY <2>3 DEF EpochRequest, EpochClose, GetProof, AutoClose
  <2>4. CASE TokenRequest(t)
    BY <2>1, <2>4 DEF TokenRequest, TokensIssue, Revoke, RevokeToken
  <2> QED BY <2>2, <2>3, <2>4 DEF Request
<1>3. NobodyRegistered
  <2>1. CASE \E d \in Dids : set_status(d, "REVOKED")
    BY <1>1, <2>1, StatusRegistersNobody
  <2> QED BY <2>1, SameDevices DEF Request, RegistrationRequest, RegisterStart, SessionGone,
          RegisterPubkey, RegisterPop, RegisterMetadata, EpochRequest, EpochClose, GetProof,
          TokenRequest, TokensIssue, Revoke, RevokeToken, AutoClose
<1>4. UNCHANGED <<ledgerVars, current_epoch_id, packages, latest_package, lock, proofs>>
  BY DEF Request, RegistrationRequest, RegisterStart, SessionGone, RegisterPubkey, RegisterPop,
     RegisterMetadata, EpochRequest, EpochClose, GetProof, TokenRequest, TokensIssue, Revoke,
     RevokeToken, AutoClose, notRegistration, notToken, epochVars
<1> QED BY <1>2, <1>3, <1>4, Aside

-----------------------------------------------------------------------------
(* Closing an epoch.                                                       *)

\* A chain that grows keeps what it holds.
LEMMA GrowingChain ==
  ASSUME NEW chain \in Seq(Block), NEW block \in Block, NEW pkg, IsRoot(chain, pkg)
  PROVE  IsRoot(Append(chain, block), pkg)
BY DEF IsRoot

\* The lock excludes every other thread from the closing.
LEMMA OneCloser ==
  ASSUME LedgerInv, NEW t \in Threads, pc[t] \in Locked \/ lock = None,
         NEW u \in Threads \ {t}
  PROVE  pc[u] \notin Locked
BY NoneAssumption DEF LedgerInv, LockOK

\* What a thread's own step changes of pc and frame.
LEMMA OwnStep ==
  ASSUME TypeOK, NEW t \in Threads, NEW step,
         Goto(t, step), UNCHANGED frame \/ \E f : frame' = [frame EXCEPT ![t] = f]
  PROVE  /\ pc'[t] = step
         /\ \A u \in Threads \ {t} : pc'[u] = pc[u] /\ frame'[u] = frame[u]
BY DEF TypeOK, Goto

\* Taking the epoch lock preserves the invariant.
LEMMA AcquireLedger ==
  ASSUME TypeInv, LedgerInv, NEW t \in Threads, CloseAcquire(t)
  PROVE  LedgerInv'
<1>1. TypeOK /\ \A u \in Threads \ {t} : pc[u] \notin Locked
  BY OneCloser DEF TypeInv, CloseAcquire
<1>2. /\ pc'[t] = "close_revoked" /\ lock' = t
      /\ \A u \in Threads \ {t} : pc'[u] = pc[u] /\ frame'[u] = frame[u]
  BY <1>1, OwnStep DEF CloseAcquire
<1>3. UNCHANGED <<blocks, disk, current_epoch_id, packages, latest_package, proofs, devices>>
  BY DEF CloseAcquire, ledgerVars, epochVars
<1>4. LockOK' /\ BatchOK' /\ OpenOK'
  BY <1>1, <1>2, <1>3 DEF LedgerInv, LockOK, BatchOK, OpenOK, Locked, CloseAcquire, At
<1>5. DiskOK' /\ PackagesOK' /\ RecordsOK'
  BY <1>3 DEF LedgerInv, DiskOK, PackagesOK, RecordsOK, Registered, Known, IsRoot
<1> QED BY <1>4, <1>5 DEF LedgerInv

\* Reading the records, and giving up when there is nothing to finalize.
LEMMA CollectLedger ==
  ASSUME TypeInv, LedgerInv, NEW t \in Threads, CloseRevoked(t) \/ CloseCollect(t)
  PROVE  LedgerInv'
<1>1. TypeOK /\ \A u \in Threads \ {t} : pc[u] \notin Locked
  BY OneCloser DEF TypeInv, CloseRevoked, CloseCollect, At, Locked
<1>2. /\ \A u \in Threads \ {t} : pc'[u] = pc[u] /\ frame'[u] = frame[u]
      /\ \/ pc'[t] = "close_collect" /\ lock' = lock
         \/ pc'[t] = "close_anchor" /\ lock' = lock /\ frame'[t].dids # {}
         \/ pc'[t] = "idle" /\ lock' = None
  <2>1. CASE CloseRevoked(t)
    BY <1>1, <2>1 DEF CloseRevoked, Goto, TypeOK
  <2>2. CASE CloseCollect(t)
    BY <1>1, <2>2 DEF CloseCollect, Release, Call, Goto, TypeOK, Frame
  <2> QED BY <2>1, <2>2
<1>3. UNCHANGED <<blocks, disk, current_epoch_id, packages, latest_package, proofs, devices>>
  BY DEF CloseRevoked, CloseCollect, ledgerVars, epochVars
<1>4. lock = t /\ \A u \in Threads : pc[u] # "close_update"
  BY <1>1 DEF LedgerInv, LockOK, CloseRevoked, CloseCollect, At, Locked
<1>5. LockOK' /\ BatchOK' /\ OpenOK'
  BY <1>1, <1>2, <1>3, <1>4 DEF LedgerInv, LockOK, BatchOK, OpenOK, Locked
<1>6. DiskOK' /\ PackagesOK' /\ RecordsOK'
  BY <1>3 DEF LedgerInv, DiskOK, PackagesOK, RecordsOK, Registered, Known, IsRoot
<1> QED BY <1>5, <1>6 DEF LedgerInv

\* The open epoch's root is refused only when a failed save left one in memory.
LEMMA OpenChain ==
  ASSUME TypeOK, LedgerInv, \A u \in Threads : pc[u] # "close_update",
         ~Anchored(blocks, current_epoch_id)
  PROVE  blocks = disk
<1>1. /\ current_epoch_id = Len(disk) + 1 /\ disk \in Seq(Block)
      /\ \/ blocks = disk
         \/ \E root \in SUBSET Dids :
              blocks = Append(disk, [epoch_id |-> current_epoch_id, root |-> root])
  BY DEF LedgerInv, OpenOK, TypeOK
<1>2. ASSUME NEW root \in SUBSET Dids,
             blocks = Append(disk, [epoch_id |-> current_epoch_id, root |-> root])
      PROVE  Anchored(blocks, current_epoch_id)
  <2>1. [epoch_id |-> current_epoch_id, root |-> root] \in Block
    BY DEF Block, TypeOK
  <2>2. /\ Len(disk) + 1 \in DOMAIN blocks
        /\ blocks[Len(disk) + 1] = [epoch_id |-> current_epoch_id, root |-> root]
    BY <1>1, <1>2, <2>1
  <2> QED BY <2>2 DEF Anchored
<1> QED BY <1>1, <1>2

\* Anchoring the root: refused, saved, or only kept in memory.
LEMMA AnchorLedger ==
  ASSUME TypeInv, LedgerInv, NEW t \in Threads, CloseAnchor(t)
  PROVE  LedgerInv'
<1> DEFINE block == [epoch_id |-> current_epoch_id, root |-> frame[t].dids]
<1>1. TypeOK /\ \A u \in Threads \ {t} : pc[u] \notin Locked
  BY OneCloser DEF TypeInv, CloseAnchor, At, Locked
<1>2. /\ lock = t /\ frame[t].dids # {} /\ frame[t].dids \in SUBSET Dids
      /\ \A u \in Threads : pc[u] # "close_update"
  BY <1>1 DEF LedgerInv, LockOK, CloseAnchor, At, Locked, TypeOK, Frame
<1>3. current_epoch_id = Len(disk) + 1 /\ disk \in Seq(Block)
  BY <1>1, <1>2 DEF LedgerInv, OpenOK, TypeOK
<1>4. UNCHANGED <<current_epoch_id, packages, latest_package, proofs, devices>>
  BY DEF CloseAnchor, epochVars
<1>5. CASE /\ disk' = disk
           /\ blocks' = blocks \/ (blocks = disk /\ blocks' = Append(disk, block))
           /\ Raise(t)
  <2>1. /\ \A u \in Threads \ {t} : pc'[u] = pc[u] /\ frame'[u] = frame[u]
        /\ pc'[t] \in {"idle", "dead"} /\ lock' = None
    BY <1>1, <1>5, OwnStep DEF Raise, Release, Call
  <2>2. LockOK' /\ BatchOK'
    BY <1>1, <2>1 DEF LockOK, BatchOK, Locked
  <2>3. OpenOK'
    BY <1>2, <1>3, <1>4, <1>5 DEF LedgerInv, OpenOK
  <2>4. DiskOK' /\ PackagesOK' /\ RecordsOK'
    BY <1>4, <1>5 DEF LedgerInv, DiskOK, PackagesOK, RecordsOK, Registered, Known, IsRoot
  <2> QED BY <2>2, <2>3, <2>4 DEF LedgerInv
<1>6. CASE blocks = disk /\ blocks' = Append(disk, block) /\ Saved(t)
  <2>1. /\ \A u \in Threads \ {t} : pc'[u] = pc[u] /\ frame'[u] = frame[u]
        /\ pc'[t] = "close_update" /\ lock' = lock
        /\ frame'[t].todo = frame[t].dids /\ frame'[t].dids = frame[t].dids
    BY <1>1, <1>6 DEF Saved, Goto, TypeOK, Frame
  <2>2. block \in Block /\ block.root = frame[t].dids /\ block.epoch_id = Len(disk) + 1
    BY <1>1, <1>2, <1>3 DEF Block, TypeOK
  <2>3. disk' = Append(disk, block) /\ blocks' = disk'
    BY <1>6 DEF Saved
  <2> HIDE DEF block
  <2>4. /\ Len(disk') = Len(disk) + 1 /\ disk' # <<>> /\ disk'[Len(disk')] = block
        /\ \A i \in DOMAIN disk : disk'[i] = disk[i]
        /\ DOMAIN disk' = DOMAIN disk \cup {Len(disk')}
    BY <1>3, <2>2, <2>3
  <2>5. LockOK' /\ BatchOK' /\ OpenOK'
    BY <1>1, <1>2, <1>3, <1>4, <2>1, <2>2, <2>3, <2>4 DEF LedgerInv, LockOK, BatchOK, OpenOK, Locked
  <2>6. DiskOK'
    BY <1>2, <2>2, <2>4 DEF LedgerInv, DiskOK
  <2>7. \A pkg : IsRoot(disk, pkg) => IsRoot(disk', pkg)
    BY <2>4 DEF IsRoot
  <2>8. PackagesOK' /\ RecordsOK'
    BY <1>4, <2>7 DEF LedgerInv, PackagesOK, RecordsOK, Registered, Known
  <2> QED BY <2>5, <2>6, <2>8 DEF LedgerInv
<1>7. /\ Anchored(blocks, current_epoch_id) => Raise(t) /\ blocks' = blocks /\ disk' = disk
      /\ ~Anchored(blocks, current_epoch_id) =>
           /\ blocks' = Append(blocks, block)
           /\ Saved(t) \/ (Raise(t) /\ disk' = disk)
  <2>1. ASSUME Anchored(blocks, current_epoch_id)
        PROVE  Raise(t) /\ blocks' = blocks /\ disk' = disk
    BY <2>1 DEF CloseAnchor, ledgerVars
  <2>2. ASSUME ~Anchored(blocks, current_epoch_id)
        PROVE  blocks' = Append(blocks, block) /\ (Saved(t) \/ NotSaved(t))
    BY <2>2 DEF CloseAnchor
  <2>3. NotSaved(t) => Raise(t) /\ disk' = disk
    BY DEF NotSaved
  <2> HIDE DEF block
  <2> QED BY <2>1, <2>2, <2>3
<1>8. ~Anchored(blocks, current_epoch_id) => blocks = disk
  BY <1>1, <1>2, OpenChain
<1> HIDE DEF block
<1>9. CASE Anchored(blocks, current_epoch_id)
  BY <1>5, <1>7, <1>9
<1>10. CASE ~Anchored(blocks, current_epoch_id)
  BY <1>5, <1>6, <1>7, <1>8, <1>10
<1> QED BY <1>9, <1>10

\* The block of the epoch a thread is updating the devices of.
LEMMA Committed ==
  ASSUME TypeOK, BatchOK, DiskOK, NEW t \in Threads, pc[t] = "close_update"
  PROVE  /\ [epoch_id |-> current_epoch_id, root |-> frame[t].dids] \in Block
         /\ IsRoot(disk, [epoch_id |-> current_epoch_id, root |-> frame[t].dids])
<1> DEFINE block == [epoch_id |-> current_epoch_id, root |-> frame[t].dids]
<1>1. /\ disk \in Seq(Block) /\ disk # <<>> /\ current_epoch_id = Len(disk)
      /\ disk[Len(disk)].root = frame[t].dids
  BY DEF TypeOK, BatchOK
<1>2. Len(disk) \in DOMAIN disk /\ disk[Len(disk)] \in Block
  BY <1>1
<1>3. disk[Len(disk)].epoch_id = current_epoch_id
  BY <1>1, <1>2 DEF DiskOK
<1>4. disk[Len(disk)] = block
  BY <1>1, <1>2, <1>3 DEF Block
<1> QED BY <1>2, <1>4 DEF IsRoot

\* Registering one device of the batch preserves the invariant.
LEMMA UpdateLedger ==
  ASSUME TypeInv, LedgerInv, NEW t \in Threads, CloseUpdate(t)
  PROVE  LedgerInv'
<1> DEFINE pkg == [epoch_id |-> current_epoch_id, root |-> frame[t].dids]
<1>1. /\ TypeOK /\ pc[t] = "close_update" /\ lock = t
      /\ \A u \in Threads \ {t} : pc[u] \notin Locked
  BY OneCloser DEF TypeInv, CloseUpdate, At, Locked, LedgerInv, LockOK
<1>2. /\ IsRoot(disk, pkg) /\ pkg \in Block
      /\ pkg.epoch_id = current_epoch_id /\ pkg.root = frame[t].dids
  BY <1>1, Committed DEF LedgerInv
<1>3. PICK d \in frame[t].todo :
        /\ Register(d) /\ latest_package' = [latest_package EXCEPT ![d] = pkg]
        /\ frame' = [frame EXCEPT ![t].todo = @ \ {d}]
  BY DEF CloseUpdate
<1>4. d \in Dids /\ d \in frame[t].dids
  BY <1>1 DEF LedgerInv, BatchOK, TypeOK, Frame
<1>5. UNCHANGED <<blocks, disk, current_epoch_id, packages, lock, proofs, pc>>
  BY DEF CloseUpdate, ledgerVars
<1>6. /\ \A u \in Threads \ {t} : frame'[u] = frame[u]
      /\ frame'[t].todo \subseteq frame[t].todo /\ frame'[t].dids = frame[t].dids
  BY <1>1, <1>3 DEF TypeOK, Frame
<1>7. LockOK' /\ BatchOK' /\ OpenOK' /\ DiskOK'
  BY <1>1, <1>5, <1>6 DEF LedgerInv, LockOK, BatchOK, OpenOK, DiskOK, Locked
<1> HIDE DEF pkg
<1>8. /\ latest_package'[d] = pkg
      /\ \A e \in Dids \ {d} : latest_package'[e] = latest_package[e]
  BY <1>1, <1>3, <1>4 DEF TypeOK
<1>9. pkg # None
  BY <1>2, NoPackageAssumption DEF Block, ProofPackage
<1>10. PackagesOK'
  BY <1>2, <1>4, <1>5, <1>8 DEF LedgerInv, PackagesOK, IsRoot
<1>11. /\ Registered(d)' => devices'[d].epoch_id = current_epoch_id
       /\ \A e \in Dids \ {d} : devices'[e] = devices[e]
  BY <1>1, <1>3, <1>4 DEF Register, Registered, Known, TypeOK, DeviceRecord
<1>12. RecordsOK'
  BY <1>2, <1>8, <1>9, <1>11 DEF LedgerInv, RecordsOK, Registered, Known
<1> QED BY <1>7, <1>10, <1>12 DEF LedgerInv

\* Opening the next epoch preserves the invariant.
LEMMA FinishLedger ==
  ASSUME TypeInv, LedgerInv, NEW t \in Threads, CloseFinish(t)
  PROVE  LedgerInv'
<1> DEFINE pkg == [epoch_id |-> current_epoch_id, root |-> frame[t].dids]
<1>1. /\ TypeOK /\ pc[t] = "close_update"
      /\ \A u \in Threads \ {t} : pc[u] \notin Locked
  BY OneCloser DEF TypeInv, CloseFinish, At, Locked
<1>2. IsRoot(disk, pkg)
  BY <1>1, Committed DEF LedgerInv
<1>3. /\ pc'[t] = "idle" /\ lock' = None
      /\ \A u \in Threads \ {t} : pc'[u] = pc[u] /\ frame'[u] = frame[u]
  BY <1>1, OwnStep DEF CloseFinish, Release, Call
<1>4. /\ UNCHANGED <<blocks, disk, latest_package, proofs, devices>>
      /\ current_epoch_id' = current_epoch_id + 1 /\ packages' \subseteq packages \cup {pkg}
  BY DEF CloseFinish, ledgerVars
<1>5. blocks = disk /\ current_epoch_id = Len(disk)
  BY <1>1 DEF LedgerInv, BatchOK
<1>6. LockOK' /\ BatchOK' /\ OpenOK'
  BY <1>1, <1>3, <1>4, <1>5 DEF LockOK, BatchOK, OpenOK, Locked
<1> HIDE DEF pkg
<1>7. DiskOK' /\ PackagesOK' /\ RecordsOK'
  BY <1>2, <1>4 DEF LedgerInv, DiskOK, PackagesOK, RecordsOK, Registered, Known, IsRoot
<1> QED BY <1>6, <1>7 DEF LedgerInv

\* A fetched package is one of the file, and of a root with the device in it.
LEMMA FetchedPackage ==
  ASSUME TypeInv, LedgerInv, NEW d \in Dids, NEW pkg \in get_package(d)
  PROVE  IsRoot(disk, pkg) /\ d \in pkg.root
BY DEF get_package, LedgerInv, PackagesOK

\* Fetching a proof package preserves the invariant.
LEMMA ProofLedger ==
  ASSUME TypeInv, LedgerInv, NEW t \in Threads, ProofReply(t)
  PROVE  LedgerInv'
<1>1. TypeOK /\ frame[t].did \in Dids
  BY DEF TypeInv, FrameOK, LocalsOK, DeviceSteps, ProofReply, At
<1>2. ClosersStay
  BY <1>1, ReplyAway DEF ProofReply, Reply, At, Locked
<1>3. UNCHANGED <<blocks, disk, current_epoch_id, packages, latest_package, lock, devices>>
  BY DEF ProofReply, ledgerVars, epochVars
<1>4. \A p \in proofs' : IsRoot(disk, p.pkg) /\ p.did \in p.pkg.root
  <2>1. CASE UNCHANGED proofs
    BY <2>1 DEF LedgerInv, PackagesOK
  <2>2. CASE \E pkg \in get_package(frame[t].did) :
               proofs' = proofs \cup {[did |-> frame[t].did, pkg |-> pkg]}
    BY <1>1, <2>2, FetchedPackage DEF LedgerInv, PackagesOK
  <2> QED BY <2>1, <2>2 DEF ProofReply
<1>5. LockOK' /\ BatchOK' /\ OpenOK'
  BY <1>2, <1>3 DEF LedgerInv, LockOK, BatchOK, OpenOK, ClosersStay, Locked
<1>6. DiskOK' /\ PackagesOK' /\ RecordsOK'
  BY <1>3, <1>4 DEF LedgerInv, DiskOK, PackagesOK, RecordsOK, Registered, Known, IsRoot
<1> QED BY <1>5, <1>6 DEF LedgerInv

-----------------------------------------------------------------------------
(* Restarts and the whole specification.                                   *)

\* The last epoch of a chain numbered without gaps is its length.
LEMMA LatestEpoch ==
  ASSUME NEW chain \in Seq(Block), \A i \in DOMAIN chain : chain[i].epoch_id = i
  PROVE  latest_epoch(chain) = Len(chain)
<1>1. CASE chain = <<>>
  BY <1>1 DEF latest_epoch
<1>2. CASE chain # <<>>
  BY <1>2 DEF latest_epoch
<1> QED BY <1>1, <1>2

\* A restart preserves the invariant: the file is what counts.
LEMMA RestartLedger ==
  ASSUME TypeInv, LedgerInv, Restart PROVE LedgerInv'
<1>1. /\ \A t \in Threads : pc'[t] = "idle"
      /\ \A d \in Dids : devices'[d] = None /\ latest_package'[d] = None
      /\ packages' = {} /\ blocks' = disk /\ disk' = disk /\ proofs' = proofs
      /\ current_epoch_id' = latest_epoch(disk) + 1
  BY DEF Restart, AllIdle, NoRecords
<1>2. latest_epoch(disk) = Len(disk)
  BY LatestEpoch DEF TypeInv, TypeOK, LedgerInv, DiskOK
<1>3. LockOK' /\ BatchOK' /\ OpenOK'
  BY <1>1, <1>2 DEF LockOK, BatchOK, OpenOK, Locked
<1>4. DiskOK' /\ PackagesOK' /\ RecordsOK'
  BY <1>1 DEF LedgerInv, DiskOK, PackagesOK, RecordsOK, Registered, Known, IsRoot
<1> QED BY <1>3, <1>4 DEF LedgerInv

\* A fog node that has just started satisfies the invariant.
LEMMA InitLedger == Init => LedgerInv
<1> SUFFICES ASSUME Init PROVE LedgerInv
  OBVIOUS
<1>1. /\ \A t \in Threads : pc[t] = "idle"
      /\ \A d \in Dids : devices[d] = None /\ latest_package[d] = None
      /\ packages = {} /\ blocks = <<>> /\ disk = <<>> /\ proofs = {}
      /\ current_epoch_id = 1
  BY DEF Init, AllIdle, NoRecords
<1>2. LockOK /\ BatchOK /\ OpenOK
  BY <1>1 DEF LockOK, BatchOK, OpenOK, Locked
<1>3. DiskOK /\ PackagesOK /\ RecordsOK
  BY <1>1 DEF DiskOK, PackagesOK, RecordsOK, Registered, Known
<1> QED BY <1>2, <1>3 DEF LedgerInv

\* Every step preserves the invariant.
LEMMA NextLedger == TypeInv /\ LedgerInv /\ [Next]_vars => LedgerInv'
<1> SUFFICES ASSUME TypeInv, LedgerInv, [Next]_vars PROVE LedgerInv'
  OBVIOUS
<1>1. ASSUME NEW t \in Threads, Step(t) PROVE LedgerInv'
  BY <1>1, RegistrationStepLedger, IssueStepLedger, AcquireLedger, CollectLedger, AnchorLedger,
     UpdateLedger, FinishLedger, ProofLedger DEF Step, Closing
<1>2. ASSUME NEW t \in Threads, Request(t) \/ AutoClose(t) PROVE LedgerInv'
  BY <1>2, RequestLedger
<1>3. ASSUME NEW s \in Sids, SessionExpires(s) PROVE LedgerInv'
  <2>1. ClosersStay /\ NobodyRegistered
    BY <1>3, SameDevices DEF SessionExpires, ClosersStay
  <2>2. UNCHANGED <<ledgerVars, current_epoch_id, packages, latest_package, lock, proofs>>
    BY <1>3 DEF SessionExpires, notRegistration, epochVars
  <2> QED BY <2>1, <2>2, Aside
<1>4. CASE Restart
  BY <1>4, RestartLedger
<1>5. CASE UNCHANGED vars
  <2>1. ClosersStay /\ NobodyRegistered
    BY <1>5, SameDevices DEF vars, fogVars, ClosersStay
  <2>2. UNCHANGED <<ledgerVars, current_epoch_id, packages, latest_package, lock, proofs>>
    BY <1>5 DEF vars, fogVars
  <2> QED BY <2>1, <2>2, Aside
<1> QED BY <1>1, <1>2, <1>3, <1>4, <1>5 DEF Next, Quiet

\* The invariant holds always.
LEMMA LedgerInvariant == Spec => [](TypeInv /\ LedgerInv)
<1>1. Init => TypeInv /\ LedgerInv
  BY InitTypes, InitLedger
<1>2. (TypeInv /\ LedgerInv) /\ [Next]_vars => (TypeInv /\ LedgerInv)'
  BY NextTypes, NextLedger
<1> QED BY <1>1, <1>2, PTL DEF Spec

-----------------------------------------------------------------------------
(* What the invariant gives.                                               *)

\* A device that has a package keeps one until a restart.
LEMMA PackageKept ==
  ASSUME TypeInv, [Next]_vars, ~Restart, NEW d \in Dids, latest_package[d] # None
  PROVE  latest_package'[d] # None
<1>1. TypeOK
  BY DEF TypeInv
<1>2. ASSUME NEW t \in Threads, CloseUpdate(t) PROVE latest_package'[d] # None
  <2>1. PICK own \in frame[t].todo : latest_package' = [latest_package EXCEPT ![own] =
               [epoch_id |-> current_epoch_id, root |-> frame[t].dids]]
    BY <1>2 DEF CloseUpdate
  <2>2. [epoch_id |-> current_epoch_id, root |-> frame[t].dids] \in ProofPackage
    BY <1>1 DEF TypeOK, Frame, ProofPackage
  <2> QED BY <1>1, <2>1, <2>2, NoPackageAssumption DEF TypeOK
<1>3. ASSUME NEW t \in Threads, Registering(t) \/ RegistrationRequest(t)
      PROVE  UNCHANGED latest_package
  BY <1>3 DEF Registering, RegistrationRequest, PubkeyKnown, PubkeyInUse, PubkeyWrite, PopUsed,
     PopVerify, PopFail, PopPass, PopUpsert, MetaRecord, MetaQueue, MetaAccept, MetaReply,
     RegisterStart, SessionGone, RegisterPubkey, RegisterPop, RegisterMetadata, notRegistration,
     epochVars
<1>4. ASSUME NEW t \in Threads, Closing(t) \/ EpochRequest(t) \/ AutoClose(t), ~CloseUpdate(t)
      PROVE  UNCHANGED latest_package
  BY <1>4 DEF Closing, EpochRequest, AutoClose, CloseAcquire, CloseRevoked, CloseCollect,
     CloseAnchor, CloseFinish, ProofReply, EpochClose, GetProof, epochVars
<1>5. ASSUME NEW t \in Threads, Issuing(t) \/ TokenRequest(t) PROVE UNCHANGED latest_package
  BY <1>5 DEF Issuing, TokenRequest, IssueKnown, IssueEligible, IssueRecord, IssueStatus,
     RevokeList, RevokeTokens, TokensIssue, Revoke, RevokeToken, notToken, epochVars
<1>6. ASSUME NEW s \in Sids, SessionExpires(s) PROVE UNCHANGED latest_package
  BY <1>6 DEF SessionExpires, notRegistration, epochVars
<1>7. CASE UNCHANGED vars
  BY <1>7 DEF vars, fogVars
<1> QED BY <1>2, <1>3, <1>4, <1>5, <1>6, <1>7 DEF Next, Quiet, Step, Request

\* The file's chain is the chain in memory, but for the open epoch's block.
LEMMA DiskIsPrefix ==
  ASSUME TypeOK, LedgerInv
  PROVE  /\ blocks \in Seq(Block) /\ disk \in Seq(Block)
         /\ \/ blocks = disk /\ current_epoch_id \in {Len(disk), Len(disk) + 1}
            \/ /\ current_epoch_id = Len(disk) + 1 /\ Len(blocks) = Len(disk) + 1
               /\ blocks[Len(blocks)].epoch_id = Len(blocks)
         /\ \A i \in DOMAIN disk : i \in DOMAIN blocks /\ disk[i] = blocks[i]
<1>1. blocks \in Seq(Block) /\ disk \in Seq(Block) /\ current_epoch_id \in Nat
  BY DEF TypeOK
<1>2. CASE blocks = disk
  BY <1>1, <1>2 DEF LedgerInv, BatchOK, OpenOK
<1>3. ASSUME NEW root \in SUBSET Dids, current_epoch_id = Len(disk) + 1,
             blocks = Append(disk, [epoch_id |-> current_epoch_id, root |-> root])
      PROVE  /\ Len(blocks) = Len(disk) + 1
             /\ blocks[Len(blocks)].epoch_id = Len(blocks)
             /\ \A i \in DOMAIN disk : i \in DOMAIN blocks /\ disk[i] = blocks[i]
  <2> DEFINE block == [epoch_id |-> current_epoch_id, root |-> root]
  <2>1. block \in Block /\ block.epoch_id = current_epoch_id
    BY <1>1 DEF Block
  <2> HIDE DEF block
  <2>2. blocks = Append(disk, block)
    BY <1>3 DEF block
  <2> QED BY <1>1, <1>3, <2>1, <2>2
<1> QED BY <1>1, <1>2, <1>3 DEF LedgerInv, BatchOK, OpenOK

\* The registry numbers its blocks without a gap and its file never falls
\* behind by more than the open epoch, whatever saves fail and wherever the
\* process stops.
THEOREM ChainStaysInOrder == Spec => []ChainInOrder
<1>1. TypeInv /\ LedgerInv => ChainInOrder
  <2> SUFFICES ASSUME TypeInv, LedgerInv PROVE ChainInOrder
    OBVIOUS
  <2>1. ASSUME NEW i \in DOMAIN blocks PROVE blocks[i].epoch_id = i
    BY <2>1, DiskIsPrefix DEF TypeInv, LedgerInv, DiskOK
  <2> QED BY <2>1, DiskIsPrefix DEF TypeInv, ChainInOrder
<1> QED BY <1>1, LedgerInvariant, PTL

\* A REGISTERED device has a proof package of its epoch over a root that is
\* anchored and commits to it, however many threads register, revoke, issue
\* tokens and close epochs.
THEOREM RegisteredDevicesHaveProof == Spec => []RegisteredHasProof
<1>1. TypeInv /\ LedgerInv => RegisteredHasProof
  <2> SUFFICES ASSUME TypeInv, LedgerInv, NEW d \in by_status("REGISTERED")
               PROVE  /\ latest_package[d] # None
                      /\ latest_package[d].epoch_id = devices[d].epoch_id
                      /\ d \in latest_package[d].root
                      /\ IsRoot(blocks, latest_package[d])
    BY DEF RegisteredHasProof
  <2>1. d \in Dids /\ Registered(d)
    BY DEF by_status, Registered
  <2>2. /\ latest_package[d] # None
        /\ latest_package[d].epoch_id = devices[d].epoch_id
        /\ d \in latest_package[d].root /\ IsRoot(disk, latest_package[d])
    BY <2>1 DEF LedgerInv, RecordsOK, PackagesOK
  <2> QED BY <2>2, DiskIsPrefix DEF TypeInv, IsRoot
<1> QED BY <1>1, LedgerInvariant, PTL

\* A proof package a device has fetched verifies against the registry for
\* ever: no failed save, crash, restart or later epoch invalidates it.
THEOREM ProofsStayValid == Spec => []IssuedProofsStayValid
<1>1. TypeInv /\ LedgerInv => IssuedProofsStayValid
  BY DiskIsPrefix DEF TypeInv, LedgerInv, PackagesOK, IssuedProofsStayValid, IsRoot
<1> QED BY <1>1, LedgerInvariant, PTL

-----------------------------------------------------------------------------
(* The file and the fetched proofs implement RootRegistry.                 *)

\* Anchoring a root is a step of the registry, or a stutter.
LEMMA AnchorStep ==
  ASSUME TypeInv, LedgerInv, NEW t \in Threads, CloseAnchor(t)
  PROVE  Registry!Anchor \/ UNCHANGED <<disk, proofs>>
<1> DEFINE block == [epoch_id |-> current_epoch_id, root |-> frame[t].dids]
<1>1. TypeOK /\ \A u \in Threads \ {t} : pc[u] \notin Locked
  BY OneCloser DEF TypeInv, CloseAnchor, At, Locked
<1>2. /\ frame[t].dids # {} /\ frame[t].dids \in SUBSET Dids
      /\ \A u \in Threads : pc[u] # "close_update"
  BY <1>1 DEF LedgerInv, LockOK, CloseAnchor, At, Locked, TypeOK, Frame
<1>3. current_epoch_id = Len(disk) + 1
  BY <1>2 DEF LedgerInv, OpenOK
<1>4. CASE blocks = disk /\ ~Anchored(blocks, current_epoch_id)
  <2>1. proofs' = proofs /\ (disk' = Append(disk, block) \/ disk' = disk)
    BY <1>4 DEF CloseAnchor, Saved, NotSaved
  <2>2. /\ frame[t].dids \in (SUBSET Dids) \ {{}}
        /\ block = [epoch_id |-> Len(disk) + 1, root |-> frame[t].dids]
    BY <1>2, <1>3
  <2> HIDE DEF block
  <2>3. disk' = Append(disk, block) => Registry!Anchor
    BY <2>1, <2>2 DEF Registry!Anchor
  <2> QED BY <2>1, <2>3
<1>5. CASE Anchored(blocks, current_epoch_id)
  BY <1>5 DEF CloseAnchor, ledgerVars
<1>6. blocks = disk \/ Anchored(blocks, current_epoch_id)
  BY <1>1, <1>2, OpenChain
<1> QED BY <1>4, <1>5, <1>6

\* Fetching a proof package is a step of the registry, or a stutter.
LEMMA ObtainStep ==
  ASSUME TypeInv, LedgerInv, NEW t \in Threads, ProofReply(t)
  PROVE  Registry!Obtain \/ UNCHANGED <<disk, proofs>>
<1>1. frame[t].did \in Dids /\ disk' = disk
  BY DEF TypeInv, FrameOK, LocalsOK, DeviceSteps, ProofReply, At, ledgerVars
<1>2. CASE UNCHANGED proofs
  BY <1>1, <1>2
<1>3. ASSUME NEW pkg \in get_package(frame[t].did),
             proofs' = proofs \cup {[did |-> frame[t].did, pkg |-> pkg]}
      PROVE  Registry!Obtain
  <2>1. PICK i \in DOMAIN disk : disk[i] = pkg
    BY <1>1, FetchedPackage DEF IsRoot
  <2>2. frame[t].did \in disk[i].root
    BY <1>1, <2>1, FetchedPackage
  <2> QED BY <1>1, <1>3, <2>1, <2>2 DEF Registry!Obtain
<1> QED BY <1>2, <1>3 DEF ProofReply

\* Every step of the fog node is a step of the registry, or a stutter.
LEMMA RegistryStep ==
  TypeInv /\ LedgerInv /\ [Next]_vars => [Registry!Next]_<<disk, proofs>>
<1> SUFFICES ASSUME TypeInv, LedgerInv, [Next]_vars
             PROVE  Registry!Next \/ UNCHANGED <<disk, proofs>>
  BY DEF Registry!Next
<1>1. ASSUME NEW t \in Threads, CloseAnchor(t)
      PROVE  Registry!Next \/ UNCHANGED <<disk, proofs>>
  BY <1>1, AnchorStep DEF Registry!Next
<1>2. ASSUME NEW t \in Threads, ProofReply(t)
      PROVE  Registry!Next \/ UNCHANGED <<disk, proofs>>
  BY <1>2, ObtainStep DEF Registry!Next
<1>3. ASSUME NEW t \in Threads, Closing(t), ~CloseAnchor(t), ~ProofReply(t)
      PROVE  UNCHANGED <<disk, proofs>>
  BY <1>3 DEF Closing, CloseAcquire, CloseRevoked, CloseCollect, CloseUpdate, CloseFinish,
     ledgerVars
<1>4. ASSUME NEW t \in Threads, Registering(t)
      PROVE  UNCHANGED <<disk, proofs>>
  BY <1>4 DEF Registering, PubkeyKnown, PubkeyInUse, PubkeyWrite, PopUsed, PopVerify, PopFail,
     PopPass, PopUpsert, MetaRecord, MetaQueue, MetaAccept, MetaReply, notRegistration, ledgerVars
<1>5. ASSUME NEW t \in Threads, Issuing(t)
      PROVE  UNCHANGED <<disk, proofs>>
  BY <1>5 DEF Issuing, IssueKnown, IssueEligible, IssueRecord, IssueStatus, RevokeList,
     RevokeTokens, notToken, ledgerVars
<1>6. ASSUME NEW t \in Threads, Request(t) \/ AutoClose(t)
      PROVE  UNCHANGED <<disk, proofs>>
  BY <1>6 DEF Request, RegistrationRequest, RegisterStart, SessionGone, RegisterPubkey,
     RegisterPop, RegisterMetadata, EpochRequest, EpochClose, GetProof, TokenRequest,
     TokensIssue, Revoke, RevokeToken, AutoClose, notRegistration, notToken, ledgerVars
<1>7. ASSUME NEW s \in Sids, SessionExpires(s) PROVE UNCHANGED <<disk, proofs>>
  BY <1>7 DEF SessionExpires, notRegistration, ledgerVars
<1>8. CASE Restart
  BY <1>8 DEF Restart
<1>9. CASE UNCHANGED vars
  BY <1>9 DEF vars, ledgerVars
<1> QED BY <1>1, <1>2, <1>3, <1>4, <1>5, <1>6, <1>7, <1>8, <1>9 DEF Next, Quiet, Step

\* The fog node, with all its threads, failures and restarts, implements the
\* root registry of RootRegistry.
THEOREM RegistryImplemented == Spec => ImplementsRegistry
<1>1. Init => Registry!Init
  BY DEF Init, Registry!Init
<1> QED BY <1>1, RegistryStep, LedgerInvariant, PTL DEF ImplementsRegistry, Registry!Spec, Spec
=============================================================================
