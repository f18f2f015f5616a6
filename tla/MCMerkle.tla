------------------------------ MODULE MCMerkle ------------------------------
(***************************************************************************)
(* What a verifier may be shown, for TLC, and what it makes of it.         *)
(***************************************************************************)
EXTENDS ProofPackages

FiveDevices == 1..5

Latest == {p \in packages : p.epoch_id = Len(roots)}

Leaves == {leaf_hash(d, d) : d \in Devices}

\* The siblings of the latest tree's proofs and every leaf, on any side or on
\* none, in paths no longer than the longest proof.
Paths ==
  LET given == {p.proof_path : p \in Latest}
      nodes == Leaves \cup {step.sibling : step \in UNION {Range(g) : g \in given}}
      steps == [sibling : nodes, side : {"L", "R", "?"}]
  IN  UNION {[1..n -> steps] : n \in {0} \cup UNION {DOMAIN g : g \in given}}

\* A path leads from a leaf to the latest root exactly when it is the proof that
\* this leaf was given, promoted nodes included: the verifier and the builder
\* agree, and nothing else passes (merkle_tree.py verify_proof).
OnlyItsProofVerifies ==
  roots # <<>> =>
    LET given == {<<p.leaf, p.proof_path>> : p \in Latest}
    IN  \A leaf \in Leaves, path \in Paths :
          verify_proof(leaf, path, Last(roots)) <=> <<leaf, path>> \in given

Rooted == {[members |-> S, root |-> root(TreeOf(SetToSeq(S)))] : S \in (SUBSET Devices) \ {{}}}

\* The latest root stands for the set of its members: no other set has the same
\* root, and the order of arrival does not show (merkle_tree.py: "the same set
\* of devices always gives the same root regardless of arrival order").
RootIsTheSet ==
  roots # <<>> =>
    \A r \in Rooted : r.root = Last(roots) <=> r.members = {p.did : p \in Latest}

WithIdentity(p, did, public_key, leaf) ==
  [p EXCEPT !.did = did, !.public_key = public_key, !.leaf = leaf]

Resigned(p, by) == [p EXCEPT !.fog_signature = by.fog_signature, !.epoch_id = by.epoch_id]

\* A package with one part exchanged for that of another package, with another
\* identity (its leaf computed to match or not), or named after another epoch.
Altered(p) ==
  {WithIdentity(p, d, k, leaf) :
     d \in Devices, k \in Devices, leaf \in Leaves \cup {p.leaf, leaf_hash(p.did, p.public_key)}}
  \cup {[p EXCEPT !.epoch_id = e] : e \in 1..(LastEpoch + 1)}
  \cup {[p EXCEPT !.root = q.root] : q \in packages}
  \cup {[p EXCEPT !.proof_path = q.proof_path] : q \in packages}
  \cup {[p EXCEPT !.fog_signature = q.fog_signature] : q \in packages}
  \cup {Resigned(q, p) : q \in packages}

\* A package verifies, now and after every later epoch, exactly when the fog made
\* it: also when two epochs have the same members and so the same root and paths
\* (proof_package.py: the signature "binds this leaf to this root and epoch").
OnlyIssuedVerifies ==
  \A p \in packages : \A q \in Altered(p) :
    verify_proof_package(q) <=> q \in packages
=============================================================================
