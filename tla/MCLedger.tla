------------------------------ MODULE MCLedger ------------------------------
(***************************************************************************)
(* The hash chain against every file put together from blocks the fog ever *)
(* signed, and every edit of one block.                                    *)
(***************************************************************************)
EXTENDS LedgerChain

\* Blocks in any order, left out, repeated, or of chains a restart forgot.
Rearranged == UNION {[1..n -> SignedBlocks] : n \in 0..MaxEpoch}

\* One block with another root or epoch, its hash computed anew or not.
Rewritten(b) ==
  LET Other(root, epoch_id) == [block_index |-> b.block_index, epoch_id |-> epoch_id,
                                root |-> root, prev_hash |-> b.prev_hash]
  IN  {Block(Other(root, epoch_id), b.signature, b.block_hash) :
         root \in Roots, epoch_id \in 1..MaxEpoch}

Rehashed(b) == Block(Body(b), b.signature, _block_hash(Body(b), b.signature))

EditedBlocks(b) == Rewritten(b) \cup {Rehashed(e) : e \in Rewritten(b)}

Edited == UNION {{[file EXCEPT ![i] = b] : b \in EditedBlocks(file[i])} :
                   i \in DOMAIN file}

\* A file that verifies is a chain the fog signed as it stands, or its
\* beginning: an edited, exchanged, repeated or removed block is detected
\* (registry/ledger.py: "editing any old block breaks every later link.
\* verify_chain() detects this"); blocks cut off at the end are not.
Verified == {f \in Rearranged \cup Edited : verify_chain(f)}

TamperEvident == Verified \subseteq chains
=============================================================================
