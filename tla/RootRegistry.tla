---------------------------- MODULE RootRegistry ----------------------------
(***************************************************************************)
(* What the root registry promises its verifiers, apart from how epochs    *)
(* are closed: a chain of one frozen root per epoch, and proofs of nothing *)
(* but what the chain commits to.                                          *)
(***************************************************************************)
EXTENDS Naturals, Sequences

CONSTANT Dids

VARIABLES chain, held

Init == chain = <<>> /\ held = {}

\* The next epoch gets its root, which nothing changes afterwards.
Anchor == /\ \E root \in (SUBSET Dids) \ {{}} :
               chain' = Append(chain, [epoch_id |-> Len(chain) + 1,
                                       root     |-> root])
          /\ UNCHANGED held

\* A device obtains a proof that it is a member of an anchored root.
Obtain == /\ \E i \in DOMAIN chain : \E d \in chain[i].root :
               held' = held \cup {[did |-> d, pkg |-> chain[i]]}
          /\ UNCHANGED chain

Next == Anchor \/ Obtain

Spec == Init /\ [][Next]_<<chain, held>>
=============================================================================
