----------------------------- MODULE MerkleTree -----------------------------
(***************************************************************************)
(* The Merkle tree of a batch, its proofs and their verification:          *)
(* fog/merkle/merkle_tree.py.                                              *)
(*                                                                         *)
(* Hashes are free of collisions: a hash is the tuple of what is hashed,   *)
(* with the prefix that separates leaves from nodes (common/canonical.py). *)
(* The DID and the public key of a device are numbered alike, in the byte  *)
(* order of the leaves.  Indices are the code's, from 0; level 0 is the    *)
(* leaves.                                                                 *)
(***************************************************************************)
EXTENDS Naturals, Sequences, FiniteSets, SequencesExt

leaf_hash(did, public_key) == <<"leaf", did, public_key>>
node_hash(left, right) == <<"node", left, right>>

\* The i-th of the sorted leaves is the one with i - 1 leaves before it: leaves
\* are distinct, __init__ refuses a duplicate.
sorted_Arrival(leaves) == leaves
sorted(leaves) ==
  [i \in DOMAIN leaves |->
     CHOOSE leaf \in Range(leaves) :
       Cardinality({other \in Range(leaves) : other[2] < leaf[2]}) = i - 1]

\* One pass of _build: pairs are hashed, an unpaired last node is promoted.
Parents(level) == [i \in 1..((Len(level) + 1) \div 2) |->
                     IF 2*i <= Len(level) THEN node_hash(level[2*i - 1], level[2*i])
                     ELSE level[2*i - 1]]

\* The passes of _build, more of them than it needs.
Passes(leaves) ==
  LET level[n \in 0..Len(leaves)] == IF n = 0 THEN leaves ELSE Parents(level[n - 1])
  IN  level

\* The levels of the tree over leaves, up to the first with one node.
build(leaves) ==
  LET level == Passes(leaves)
      height == CHOOSE n \in 0..Len(leaves) :
                  /\ Len(level[n]) <= 1
                  /\ \A m \in 0..(n - 1) : Len(level[m]) > 1
  IN  [n \in 1..(height + 1) |-> level[n - 1]]

Levels(leaves) == build(sorted(leaves))

root(levels) == Last(levels)[1]

\* index ^ 1
Sibling(index) == IF index % 2 = 0 THEN index + 1 ELSE index - 1

\* The step of a proof at a level, none where the node was promoted.
ProofStep(level, index) ==
  IF Sibling(index) < Len(level)
  THEN <<[sibling |-> level[Sibling(index) + 1],
          side    |-> IF Sibling(index) < index THEN "L" ELSE "R"]>>
  ELSE <<>>

\* The loop of get_proof: at one level, and by the number of levels passed.
Ascend(at, level) == [index |-> at.index \div 2,
                      path  |-> at.path \o ProofStep(level, at.index)]

Walk(levels, start) ==
  LET walk[n \in 0..(Len(levels) - 1)] ==
        IF n = 0 THEN [index |-> start, path |-> <<>>] ELSE Ascend(walk[n - 1], levels[n])
  IN  walk

index_of(levels, leaf) == (CHOOSE i \in DOMAIN levels[1] : levels[1][i] = leaf) - 1

get_proof(levels, leaf) == Walk(levels, index_of(levels, leaf))[Len(levels) - 1].path

-----------------------------------------------------------------------------
\* Climbing from a leaf; a side that is neither L nor R is malformed.
Malformed == <<>>

Climb_Skipping(current, step) ==
  CASE current = Malformed -> Malformed
    [] step.side = "L" -> node_hash(step.sibling, current)
    [] step.side = "R" -> node_hash(current, step.sibling)
    [] OTHER -> current
Climb(current, step) ==
  CASE current = Malformed -> Malformed
    [] step.side = "L" -> node_hash(step.sibling, current)
    [] step.side = "R" -> node_hash(current, step.sibling)
    [] OTHER -> Malformed

\* The loop of reconstruct_root, by the number of steps it has climbed.
Candidates(leaf, path) ==
  LET current[n \in 0..Len(path)] ==
        IF n = 0 THEN leaf ELSE Climb(current[n - 1], path[n])
  IN  current

reconstruct_root(leaf, path) == Candidates(leaf, path)[Len(path)]

verify_proof(leaf, path, expected) == reconstruct_root(leaf, path) = expected
=============================================================================
