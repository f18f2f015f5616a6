---------------------------- MODULE ProofPackages ----------------------------
(***************************************************************************)
(* The proof packages of one fog node: how finalize_epoch makes them from  *)
(* the tree of the epoch's members, fog/proofs/proof_package.py, and how a *)
(* verifier that knows the anchored roots judges one.  The handlers around *)
(* it, and everything concurrent, are in FogNode.                          *)
(*                                                                         *)
(* A device is a number, its DID and its public key are that number.       *)
(***************************************************************************)
EXTENDS MerkleTree

CONSTANTS Devices,     \* a finite set of numbers
          LastEpoch    \* bound: epochs closed

ASSUME DevicesAssumption == Devices \subseteq Nat /\ IsFiniteSet(Devices)

VARIABLES
  status,     \* per device, as in its DeviceRecord
  batch,      \* EpochManager.pending: the devices queued
  roots,      \* the anchored roots, by epoch
  packages    \* every package ever made

-----------------------------------------------------------------------------
\* What the fog signs.  Only the holder of its key makes a signature, so a
\* signature is the message it is for.
package_message(did, leaf, top, epoch_id) ==
  [did |-> did, leaf |-> leaf, root |-> top, epoch_id |-> epoch_id]

build_proof_package(d, tree, epoch_id) ==
  LET leaf == leaf_hash(d, d)
  IN  [did |-> d, public_key |-> d, leaf |-> leaf, epoch_id |-> epoch_id,
       root |-> root(tree), proof_path |-> get_proof(tree, leaf),
       fog_signature |-> package_message(d, leaf, root(tree), epoch_id)]

\* The leaf is computed again, the root is the anchored one and not the one in
\* the package, the path leads from the one to the other, the fog signed it.
IdentityCheck_Claimed(pkg) == pkg.did \in Devices
IdentityCheck(pkg) == pkg.leaf = leaf_hash(pkg.did, pkg.public_key)

SignatureCheck(pkg, trusted_root) ==
  /\ pkg.root = trusted_root
  /\ pkg.fog_signature = package_message(pkg.did, pkg.leaf, pkg.root, pkg.epoch_id)

verify_proof_package(pkg) ==
  /\ IdentityCheck(pkg)
  /\ pkg.epoch_id \in DOMAIN roots
  /\ verify_proof(pkg.leaf, pkg.proof_path, roots[pkg.epoch_id])
  /\ SignatureCheck(pkg, roots[pkg.epoch_id])

-----------------------------------------------------------------------------
Init ==
  /\ status = [d \in Devices |-> "UNKNOWN"]
  /\ batch = {} /\ roots = <<>> /\ packages = {}

\* EpochManager.add_leaf for a device that has just onboarded; one that is
\* known does not onboard again.
add_leaf(d) ==
  /\ status[d] = "UNKNOWN"
  /\ status' = [status EXCEPT ![d] = "PENDING"]
  /\ batch' = batch \cup {d}
  /\ UNCHANGED <<roots, packages>>

\* finalize_epoch: the registered devices, then the batch, without the one that is
\* excluded or revoked, if any; each in whatever order they were stored or arrived.
Members(blocked) ==
  {carried \o new : carried \in SetToSeqs({d \in Devices \ blocked : status[d] = "REGISTERED"}),
                   new \in SetToSeqs(batch \ blocked)}

TreeOf(members) ==
  Levels([i \in DOMAIN members |-> leaf_hash(members[i], members[i])])

finalize_epoch(members) ==
  LET tree == TreeOf(members)
      epoch_id == Len(roots) + 1
  IN  /\ members # <<>>
      /\ roots' = Append(roots, root(tree))
      /\ packages' = packages \cup {build_proof_package(d, tree, epoch_id) :
                                      d \in Range(members)}
      /\ status' = [d \in Devices |->
                      IF d \in Range(members) THEN "REGISTERED" ELSE status[d]]
      /\ batch' = {}

close_batch ==
  /\ Len(roots) < LastEpoch
  /\ \E blocked \in {{}} \cup {{d} : d \in Devices} :
       \E members \in Members(blocked) : finalize_epoch(members)

Next == close_batch \/ \E d \in Devices : add_leaf(d)

Spec == Init /\ [][Next]_<<status, batch, roots, packages>>
=============================================================================
