---------------------------- MODULE LedgerChain -----------------------------
(***************************************************************************)
(* The hash chain of the root registry, registry/ledger.py: anchoring,     *)
(* saving, loading, and verify_chain over the file.                        *)
(*                                                                         *)
(* Hashes and signatures are free of collisions: a signature is the body   *)
(* it was made for, a hash what it was computed from.  Of a block's body   *)
(* the fields that only describe it (leaf_count, timestamp, fog_id) are    *)
(* left out.                                                               *)
(***************************************************************************)
EXTENDS Naturals, Sequences

CONSTANTS Roots,      \* Merkle roots
          MaxEpoch    \* bound: epochs that may be anchored

ASSUME BoundAssumption == MaxEpoch \in Nat

VARIABLES blocks,     \* Ledger.blocks
          file,       \* the ledger file
          chains      \* every chain the fog ever signed

vars == <<blocks, file, chains>>

GENESIS_PREV_HASH == <<>>

_block_hash(body, signature) == <<body, signature>>

Body(b) == [block_index |-> b.block_index, epoch_id |-> b.epoch_id,
            root |-> b.root, prev_hash |-> b.prev_hash]

Block(body, signature, hash) ==
  [block_index |-> body.block_index, epoch_id |-> body.epoch_id,
   root |-> body.root, prev_hash |-> body.prev_hash,
   signature |-> signature, block_hash |-> hash]

Init == blocks = <<>> /\ file = <<>> /\ chains = {<<>>}

\* The hash the block after the first n of a chain links to.
Link(chain, n) == IF n = 0 THEN GENESIS_PREV_HASH ELSE chain[n].block_hash

Signed_ByEpoch(chain, epoch_id, root) ==
  LET body == [block_index |-> epoch_id - 1, epoch_id |-> epoch_id, root |-> root,
               prev_hash |-> Link(chain, Len(chain))]
  IN  Block(body, body, _block_hash(body, body))
Signed(chain, epoch_id, root) ==
  LET body == [block_index |-> Len(chain), epoch_id |-> epoch_id, root |-> root,
               prev_hash |-> Link(chain, Len(chain))]
  IN  Block(body, body, _block_hash(body, body))

\* Ledger.anchor_root; _save may fail, and leaves the old file then.
anchor_root(epoch_id, root) ==
  /\ \A i \in DOMAIN blocks : blocks[i].epoch_id # epoch_id
  /\ blocks' = Append(blocks, Signed(blocks, epoch_id, root))
  /\ chains' = chains \cup {blocks'}
  /\ file' \in {blocks', file}

\* Ledger.__init__: the chain is loaded as it stands in the file.
load == blocks' = file /\ UNCHANGED <<file, chains>>

Next == load \/ \E epoch_id \in 1..MaxEpoch, root \in Roots : anchor_root(epoch_id, root)

Spec == Init /\ [][Next]_vars

-----------------------------------------------------------------------------
\* What verify_chain asks of the block at position i.
Linked_ByIndex(f, i) == f[i].block_index = i - 1
Linked(f, i) == f[i].block_index = i - 1 /\ f[i].prev_hash = Link(f, i - 1)

Authentic(b) == /\ b.signature = Body(b)
                /\ b.block_hash = _block_hash(Body(b), b.signature)

verify_chain(f) == \A i \in DOMAIN f : Linked(f, i) /\ Authentic(f[i])

\* What a file can be made of without the fog's key: blocks of any content, with
\* signatures the fog made at some time.
SignedBlocks == UNION {{c[i] : i \in DOMAIN c} : c \in chains}

Made(b) == /\ b = Block(Body(b), b.signature, b.block_hash)
           /\ \E s \in SignedBlocks : b.signature = s.signature

\* The fog's own file verifies at every moment, after failed saves and restarts
\* included (GET /registry/verify).
OwnFileVerifies == verify_chain(file)
=============================================================================
